----------------------------- MODULE Workspaces -----------------------------
(***************************************************************************)
(* The directories in which reviews work: a request or a job clones the    *)
(* repository, or copies a prepared one, uses it, may publish it as the    *)
(* prepared one of its commits (PreparedWorkspaces), and cleans up.  The   *)
(* maintenance loop prunes what is prepared and reaps what was left over.  *)
(*                                                                         *)
(* A request has a task on the event loop and, while the task awaits it, a *)
(* thread.  Cancelling the task does not stop the thread: it finds out the *)
(* next time it looks at its cancel event, while the task already cleans   *)
(* up.  Everything done with prepared directories happens under one lock   *)
(* file.  There is one server process; it may crash, files and rows stay.  *)
(*                                                                         *)
(* A directory keeps its identity when it is renamed.  Sizes are left out: *)
(* the limit in bytes works like the limit on the number of entries.       *)
(***************************************************************************)
EXTENDS Integers, FiniteSets, FiniteSetsExt

CONSTANTS
    Client,        \* requests and jobs
    Commits,       \* keys of prepared workspaces: repository, base, head, parser
    Dirs,          \* bound: directories at a time
    MaxEntries,    \* repoguardian_prepared_workspace_max_entries
    Troubles       \* bound: crashes, cancellations, failing writes and deletions

ASSUME WorkspacesAssumption ==
    Dirs \in Nat /\ MaxEntries \in Nat /\ Troubles \in Nat /\ "maintain" \notin Client

VARIABLES
    dir,        \* what is on the disk
    prepared,   \* rows of PreparedWorkspaceOrm, named after their directories
    client,     \* task and thread of every request
    guard,      \* who holds the lock file, and how far its work under it is
    maint,      \* the maintenance loop
    troubles    \* troubles so far

workVars == <<dir, prepared, client, guard, maint, troubles>>

Dir == 1..Dirs
NoDir == [kind |-> "none", whole |-> FALSE, old |-> FALSE]
NoRow == [state |-> "none", key |-> {}, expired |-> FALSE]
Idler == [task |-> "rest", thread |-> "idle", key |-> {}, dir |-> 0,
          cancel |-> FALSE, wiping |-> FALSE]
FreeGuard  == [by |-> {}, loop |-> "stale", tried |-> {}, removing |-> 0, source |-> 0]

WorkspacesTypeOK ==
    /\ dir \in [Dir -> [kind : {"none", "work", "prepared"}, whole : BOOLEAN, old : BOOLEAN]]
    /\ prepared \in [Dir -> [state : {"none", "ready", "deleting"},
                             key : SUBSET Commits, expired : BOOLEAN]]
    /\ \A c \in Client : client[c].dir \in 0..Dirs /\ client[c].key \in SUBSET Commits
    /\ guard.tried \subseteq Dir /\ guard.removing \in 0..Dirs /\ guard.source \in 0..Dirs
    /\ maint.found \subseteq Dir

WorkspacesInit ==
    /\ dir = [d \in Dir |-> NoDir]
    /\ prepared = [d \in Dir |-> NoRow]
    /\ client = [c \in Client |-> Idler]
    /\ guard = FreeGuard
    /\ maint = [pc |-> "rest", found |-> {}]
    /\ troubles = 0

-----------------------------------------------------------------------------
Is(c, pc) == client[c].thread = pc
Busy(c) == client[c].task # "rest" \/ client[c].thread # "idle"
Trouble == troubles < Troubles /\ troubles' = troubles + 1
NoTrouble == UNCHANGED troubles
Thread(c, pc) == client' = [client EXCEPT ![c].thread = pc]
ThreadIn(c, pc, d) == client' = [client EXCEPT ![c].thread = pc, ![c].dir = d]

\* A uuid: nobody has used it before.
Fresh == {d \in Dir : /\ dir[d] = NoDir /\ prepared[d] = NoRow /\ d \notin maint.found
                      /\ \A c \in Client : Busy(c) => client[c].dir # d}
NextDir == Min(Fresh)

Rows == {d \in Dir : prepared[d].state # "none"}
ReadyFor(key) == {d \in Dir : prepared[d].state = "ready" /\ prepared[d].key = key
                           /\ ~prepared[d].expired}

\* _repo_paths: filled once prepare_repository has returned.
ActivePaths == {client[c].dir : c \in {c \in Client : client[c].task \in {"using", "publishing"}}}

\* cleanup_workspace: three attempts, then what is left stays.
Wiped(d) == dir' = [dir EXCEPT ![d] = NoDir] /\ NoTrouble
Clings(d) == dir' = [dir EXCEPT ![d].whole = FALSE] /\ Trouble
Cleanup(d) == Wiped(d) \/ Clings(d)

\* The thread returns or raises.  A task that awaits it goes on; if the task is
\* gone nobody ever learns what the thread returned.
Returned(c) ==
    client' = [client EXCEPT ![c].thread = "idle",
        ![c].task = CASE @ = "preparing" -> "using" [] @ = "publishing" -> "cleaning" [] OTHER -> @]
Raised(c) ==
    client' = [client EXCEPT ![c].thread = "idle",
        ![c].task = CASE @ = "preparing" -> "rest" [] @ = "publishing" -> "cleaning" [] OTHER -> @]

Releases == guard' = FreeGuard
Takes(who) == guard.by = {} /\ guard' = [FreeGuard EXCEPT !.by = {who}]

-----------------------------------------------------------------------------
(* The task *)

Asks(c, k) ==
    /\ ~Busy(c)
    /\ client' = [client EXCEPT ![c] = [Idler EXCEPT !.task = "preparing", !.thread = "enter",
                                                     !.key = {k}]]
    /\ UNCHANGED <<dir, prepared, guard, maint, troubles>>

\* The plan of a new review is made: its workspace may serve the review itself.
Publishes(c) ==
    /\ client[c].task = "using"
    /\ client' = [client EXCEPT ![c].task = "publishing", ![c].thread = "source"]
    /\ UNCHANGED <<dir, prepared, guard, maint, troubles>>

\* A job is over, well or badly.
Finishes(c) ==
    /\ client[c].task = "using"
    /\ client' = [client EXCEPT ![c].task = "cleaning", ![c].cancel = TRUE]
    /\ UNCHANGED <<dir, prepared, guard, maint, troubles>>

\* The event is set before anything is cleaned; without a workspace nothing is.
Cancelled(c) ==
    /\ client[c].task \in {"preparing", "using", "publishing"}
    /\ client' = [client EXCEPT ![c].cancel = TRUE,
                     ![c].task = IF @ = "preparing" THEN "rest" ELSE "cleaning"]
    /\ Trouble
    /\ UNCHANGED <<dir, prepared, guard, maint>>

\* rmtree holds on to the directory it opened, also when it is renamed.
CleansUp(c) ==
    LET d == client[c].dir
    IN  /\ client[c].task = "cleaning" /\ ~client[c].wiping
        /\ IF dir[d].kind = "work"
           THEN /\ dir' = [dir EXCEPT ![d].whole = FALSE]
                /\ client' = [client EXCEPT ![c].wiping = TRUE]
           ELSE client' = [client EXCEPT ![c].task = "rest"] /\ UNCHANGED dir
        /\ UNCHANGED <<prepared, guard, maint, troubles>>

CleanedUp(c) ==
    LET d == client[c].dir
    IN  /\ client[c].wiping
        /\ client' = [client EXCEPT ![c].task = "rest", ![c].wiping = FALSE]
        /\ IF dir[d].kind = "work" THEN Cleanup(d) ELSE UNCHANGED <<dir, troubles>>
        /\ UNCHANGED <<prepared, guard, maint>>

-----------------------------------------------------------------------------
(* prepare_repository: PreparedWorkspaces.copy, then clone_and_diff *)

\* The lock is tried for thirty seconds; then, or without a cache, one clones.
EntersCopy(c) ==
    /\ Is(c, "enter")
    /\ \/ client[c].cancel /\ Raised(c) /\ UNCHANGED guard
       \/ ~client[c].cancel /\ Takes(c) /\ Thread(c, IF MaxEntries = 0 THEN "leave" ELSE "pick")
       \/ ~client[c].cancel /\ guard.by # {} /\ Thread(c, "clone") /\ UNCHANGED guard
    /\ UNCHANGED <<dir, prepared, maint, troubles>>

\* A row that does not fit its directory any more is removed, and the next one
\* is tried.  Git may always find something wrong.
Picks(c) ==
    /\ Is(c, "pick") /\ guard.removing = 0
    /\ LET todo == ReadyFor(client[c].key) \ guard.tried
       IN  \/ todo = {} /\ Thread(c, "leave") /\ UNCHANGED <<dir, guard>>
           \/ \E d \in todo :
                /\ guard' = [guard EXCEPT !.tried = @ \cup {d}, !.removing = d]
                /\ UNCHANGED <<dir, client>>
           \/ \E d \in todo :
                /\ dir[d].whole /\ Fresh # {}
                /\ guard' = [guard EXCEPT !.tried = @ \cup {d}, !.source = d]
                /\ dir' = [dir EXCEPT ![NextDir] = [NoDir EXCEPT !.kind = "work"]]
                /\ ThreadIn(c, "copying", NextDir)
    /\ UNCHANGED <<prepared, maint, troubles>>

LeavesCopy(c) ==
    /\ Is(c, "leave")
    /\ Thread(c, "clone") /\ Releases
    /\ UNCHANGED <<dir, prepared, maint, troubles>>

\* clone_prepared, from the copy to the checkout; its own directory goes when
\* it fails, and with a Git error the row it came from.
Copies(c) ==
    LET d == client[c].dir
    IN  /\ Is(c, "copying")
        /\ \/ /\ dir' = [dir EXCEPT ![d].whole = TRUE]
              /\ Thread(c, "extend") /\ NoTrouble /\ UNCHANGED guard
           \/ /\ Cleanup(d)
              /\ Thread(c, "pick") /\ guard' = [guard EXCEPT !.removing = guard.source]
           \/ client[c].cancel /\ Cleanup(d) /\ Raised(c) /\ Releases
        /\ UNCHANGED <<prepared, maint>>

\* The copied row lives on; if that cannot be written, the copy is given up.
Extends(c) ==
    /\ Is(c, "extend")
    /\ \/ /\ prepared' = [prepared EXCEPT ![guard.source].expired = FALSE]
          /\ Returned(c) /\ UNCHANGED <<dir, troubles>>
       \/ dir' = [dir EXCEPT ![client[c].dir] = NoDir] /\ Trouble /\ Thread(c, "clone")
          /\ UNCHANGED prepared
    /\ Releases /\ UNCHANGED maint

Clones(c) ==
    /\ Is(c, "clone")
    /\ \/ client[c].cancel /\ Raised(c) /\ UNCHANGED dir
       \/ /\ ~client[c].cancel /\ Fresh # {}
          /\ dir' = [dir EXCEPT ![NextDir] = [NoDir EXCEPT !.kind = "work"]]
          /\ ThreadIn(c, "cloning", NextDir)
    /\ UNCHANGED <<prepared, guard, maint, troubles>>

\* Done, or a Git error, or cancelled: a failed clone removes itself.
Cloned(c) ==
    LET d == client[c].dir
    IN  /\ Is(c, "cloning")
        /\ \/ dir' = [dir EXCEPT ![d].whole = TRUE] /\ Returned(c) /\ NoTrouble
           \/ Cleanup(d) /\ Raised(c)
        /\ UNCHANGED <<prepared, guard, maint>>

-----------------------------------------------------------------------------
(* _remove and _prune, under the lock, for whoever holds it *)

\* Slips: the row is marked with a name of its own; the directory goes first.
RemovesStepMisnamed ==
    LET d == guard.removing
    IN  /\ d # 0
        /\ prepared' = [prepared EXCEPT ![d].state = "deleted"]
        /\ guard' = [guard EXCEPT !.removing = 0]
        /\ UNCHANGED <<dir, client, maint, troubles>>

RemovesStepDirectoryFirst ==
    LET d == guard.removing
    IN  /\ d # 0
        /\ IF dir[d].kind # "none" THEN Cleanup(d) /\ UNCHANGED <<prepared, guard>>
           ELSE /\ prepared' = [prepared EXCEPT ![d] = NoRow]
                /\ guard' = [guard EXCEPT !.removing = 0]
                /\ UNCHANGED <<dir, troubles>>
        /\ UNCHANGED <<client, maint>>

\* Marked, wiped, forgotten: three steps, and a crash may come between them.
RemovesStep ==
    LET d == guard.removing
    IN  /\ d # 0
        /\ IF prepared[d].state = "ready"
           THEN /\ prepared' = [prepared EXCEPT ![d].state = "deleting"]
                /\ UNCHANGED <<dir, guard, troubles>>
           ELSE IF dir[d].kind # "none"
           THEN /\ \/ Wiped(d) /\ UNCHANGED guard
                   \/ Clings(d) /\ guard' = [guard EXCEPT !.removing = 0]
                /\ UNCHANGED prepared
           ELSE /\ prepared' = [prepared EXCEPT ![d] = NoRow]
                /\ guard' = [guard EXCEPT !.removing = 0]
                /\ UNCHANGED <<dir, troubles>>
        /\ UNCHANGED <<client, maint>>

\* Slip: the entry to come is not counted.
FitsAlready(reserve) == Cardinality(Rows) <= MaxEntries

Fits(reserve) == Cardinality(Rows) + reserve <= MaxEntries

\* The rows that this loop of _prune still has to look at: first those that are
\* no use any more, then any, until the rest fits.  The code takes the least
\* recently used first.
Prunable(reserve) ==
    IF guard.loop = "stale"
    THEN {d \in Rows \ guard.tried : prepared[d].state = "deleting" \/ prepared[d].expired}
    ELSE IF Fits(reserve) THEN {} ELSE Rows \ guard.tried

Prunes(reserve) ==
    /\ guard.removing = 0
    /\ \/ \E d \in Prunable(reserve) :
             guard' = [guard EXCEPT !.tried = @ \cup {d}, !.removing = d]
       \/ /\ guard.loop = "stale" /\ Prunable(reserve) = {}
          /\ guard' = [guard EXCEPT !.loop = "excess", !.tried = {}]

Pruned(reserve) == guard.removing = 0 /\ guard.loop = "excess" /\ Prunable(reserve) = {}
PrunedOnce == guard' = [guard EXCEPT !.loop = "stale", !.tried = {}]

-----------------------------------------------------------------------------
(* PreparedWorkspaces.publish *)

\* Something that looks like a repository is there.
ChecksSource(c) ==
    /\ Is(c, "source")
    /\ IF dir[client[c].dir].kind = "work" THEN Thread(c, "await") ELSE Raised(c)
    /\ UNCHANGED <<dir, prepared, guard, maint, troubles>>

EntersPublish(c) ==
    /\ Is(c, "await")
    /\ \/ (client[c].cancel \/ guard.by # {}) /\ Raised(c) /\ UNCHANGED guard
       \/ ~client[c].cancel /\ Takes(c) /\ Thread(c, "prune")
    /\ UNCHANGED <<dir, prepared, maint, troubles>>

PrunesToPublish(c) ==
    /\ \/ Is(c, "prune") /\ Prunes(0) /\ UNCHANGED client
       \/ Is(c, "prune") /\ Pruned(0) /\ PrunedOnce /\ Thread(c, "seek")
       \/ Is(c, "reserve") /\ Prunes(1) /\ UNCHANGED client
       \/ Is(c, "reserve") /\ Pruned(1) /\ Fits(1) /\ PrunedOnce /\ Thread(c, "rename")
       \/ Is(c, "reserve") /\ Pruned(1) /\ ~Fits(1) /\ Returned(c) /\ Releases
    /\ UNCHANGED <<dir, prepared, maint, troubles>>

\* Slip: nobody looks whether the commits are prepared already.
SeeksNothing(c) ==
    /\ Is(c, "seek")
    /\ Thread(c, "reserve") /\ UNCHANGED guard
    /\ UNCHANGED <<dir, prepared, maint, troubles>>

Seeks(c) ==
    /\ Is(c, "seek")
    /\ IF ReadyFor(client[c].key) # {} \/ MaxEntries = 0
       THEN Returned(c) /\ Releases
       ELSE Thread(c, "reserve") /\ UNCHANGED guard
    /\ UNCHANGED <<dir, prepared, maint, troubles>>

\* From here on maintenance and copies must not see the directory: no row yet.
Renames(c) ==
    LET d == client[c].dir
    IN  /\ Is(c, "rename")
        /\ IF dir[d].kind = "work"
           THEN dir' = [dir EXCEPT ![d].kind = "prepared"] /\ Thread(c, "insert") /\ UNCHANGED guard
           ELSE Raised(c) /\ Releases /\ UNCHANGED dir
        /\ UNCHANGED <<prepared, maint, troubles>>

\* Slip: the event is not looked at again.
InsertsAnyway(c) ==
    /\ Is(c, "insert")
    /\ prepared' = [prepared EXCEPT ![client[c].dir] =
                        [state |-> "ready", key |-> client[c].key, expired |-> FALSE]]
    /\ Returned(c) /\ Releases /\ UNCHANGED <<dir, maint, troubles>>

\* A cancelled task may be wiping what was just renamed: the event tells.  The
\* insert may fail as well.
Inserts(c) ==
    LET d == client[c].dir
    IN  /\ Is(c, "insert")
        /\ \/ /\ ~client[c].cancel
              /\ prepared' = [prepared EXCEPT ![d] =
                                 [state |-> "ready", key |-> client[c].key, expired |-> FALSE]]
              /\ dir' = [dir EXCEPT ![d].old = FALSE]
              /\ Returned(c) /\ NoTrouble
           \/ /\ client[c].cancel /\ Cleanup(d)
              /\ Raised(c) /\ UNCHANGED prepared
           \/ /\ dir' = [dir EXCEPT ![d] = NoDir] /\ Trouble
              /\ Raised(c) /\ UNCHANGED prepared
        /\ Releases /\ UNCHANGED maint

-----------------------------------------------------------------------------
(* Maintenance, time, crashes *)

Maintains(pc) == maint' = [maint EXCEPT !.pc = pc]

\* MaintenanceService.run_once; a busy lock skips the prepared workspaces.
MaintenanceBegins ==
    /\ maint.pc = "rest"
    /\ IF guard.by = {} THEN Takes("maintain") /\ Maintains("prune")
                        ELSE Maintains("classify") /\ UNCHANGED guard
    /\ UNCHANGED <<dir, prepared, client, troubles>>

MaintenancePrunes ==
    /\ maint.pc = "prune"
    /\ \/ Prunes(0) /\ UNCHANGED maint
       \/ Pruned(0) /\ PrunedOnce /\ Maintains("sweep")
    /\ UNCHANGED <<dir, prepared, client, troubles>>

Orphans == {d \in Dir : dir[d].kind = "prepared" /\ dir[d].old} \ Rows

\* Slip: only what has a row is ever removed.
MaintenanceSweepsNothing ==
    /\ maint.pc = "sweep"
    /\ Maintains("classify") /\ Releases
    /\ UNCHANGED <<dir, prepared, client, troubles>>

MaintenanceSweeps ==
    /\ maint.pc = "sweep"
    /\ \/ \E d \in Orphans \ guard.tried :
             /\ Cleanup(d) /\ guard' = [guard EXCEPT !.tried = @ \cup {d}]
             /\ UNCHANGED maint
       \/ /\ Orphans \subseteq guard.tried
          /\ Maintains("classify") /\ Releases /\ UNCHANGED <<dir, troubles>>
    /\ UNCHANGED <<prepared, client>>

\* Slip: the age decides alone.
ClassifyByAge ==
    /\ maint.pc = "classify"
    /\ maint' = [pc |-> "reap", found |-> {d \in Dir : dir[d].kind = "work" /\ dir[d].old}]
    /\ UNCHANGED <<dir, prepared, client, guard, troubles>>

\* _classify_workspaces
Classify ==
    /\ maint.pc = "classify"
    /\ maint' = [pc |-> "reap",
                 found |-> {d \in Dir : dir[d].kind = "work" /\ dir[d].old} \ ActivePaths]
    /\ UNCHANGED <<dir, prepared, client, guard, troubles>>

\* reap_orphaned_workspaces
Reap ==
    /\ maint.pc = "reap"
    /\ \/ \E d \in maint.found :
             /\ maint' = [maint EXCEPT !.found = @ \ {d}]
             /\ IF dir[d].kind = "work" THEN Cleanup(d) ELSE UNCHANGED <<dir, troubles>>
       \/ maint.found = {} /\ Maintains("rest") /\ UNCHANGED <<dir, troubles>>
    /\ UNCHANGED <<prepared, client, guard>>

\* An exception ends the round.
MaintenanceFails ==
    /\ maint.pc # "rest" /\ Trouble
    /\ maint' = [pc |-> "rest", found |-> {}]
    /\ guard' = IF guard.by = {"maintain"} THEN FreeGuard ELSE guard
    /\ UNCHANGED <<dir, prepared, client>>

\* The time to live of a directory counts from its last change; no clone and no
\* copy takes that long.  Nobody asks for the age of a directory with a row.
Ages(d) ==
    /\ dir[d].kind # "none" /\ ~dir[d].old /\ d \notin Rows
    /\ \A c \in Client : client[c].thread \in {"copying", "extend", "cloning"} => client[c].dir # d
    /\ dir' = [dir EXCEPT ![d].old = TRUE]
    /\ UNCHANGED <<prepared, client, guard, maint, troubles>>

Expires(d) ==
    /\ prepared[d].state = "ready" /\ ~prepared[d].expired
    /\ prepared' = [prepared EXCEPT ![d].expired = TRUE]
    /\ UNCHANGED <<dir, client, guard, maint, troubles>>

Crashes ==
    /\ Trouble
    /\ client' = [c \in Client |-> Idler] /\ guard' = FreeGuard
    /\ maint' = [pc |-> "rest", found |-> {}]
    /\ UNCHANGED <<dir, prepared>>

ThreadStep(c) ==
    \/ EntersCopy(c) \/ Picks(c) \/ LeavesCopy(c) \/ Copies(c) \/ Extends(c)
    \/ Clones(c) \/ Cloned(c) \/ ChecksSource(c) \/ EntersPublish(c)
    \/ PrunesToPublish(c) \/ Seeks(c) \/ Renames(c) \/ Inserts(c)

MaintenanceStep ==
    \/ MaintenanceBegins \/ MaintenancePrunes \/ MaintenanceSweeps
    \/ Classify \/ Reap

WorkspacesNext ==
    \/ \E c \in Client, k \in Commits : Asks(c, k)
    \/ \E c \in Client : \/ Publishes(c) \/ Finishes(c) \/ Cancelled(c)
                         \/ CleansUp(c) \/ CleanedUp(c) \/ ThreadStep(c)
    \/ RemovesStep \/ MaintenanceStep \/ MaintenanceFails \/ Crashes
    \/ \E d \in Dir : Ages(d) \/ Expires(d)

\* Threads run, time passes, and the maintenance loop comes round.
WorkspacesFairness ==
    /\ \A c \in Client : WF_workVars(ThreadStep(c))
    /\ WF_workVars(RemovesStep) /\ WF_workVars(MaintenanceStep)
    /\ \A d \in Dir : WF_workVars(Ages(d))

WorkspacesSpec == WorkspacesInit /\ [][WorkspacesNext]_workVars /\ WorkspacesFairness

-----------------------------------------------------------------------------
\* A row that says ready has its whole directory behind it, wherever a crash,
\* a cancelled publication or a failing deletion fell: a copy is made of a
\* complete repository or of nothing.
ReadyRowIsWhole ==
    \A d \in Dir : prepared[d].state = "ready" => dir[d].kind = "prepared" /\ dir[d].whole

\* The cache stays within its limit, also when directories cannot be deleted
\* and their rows remain.
CapacityKept == Cardinality(Rows) <= MaxEntries

\* Two requests that prepared the same commits side by side publish one of the
\* two: no commit has two prepared workspaces in use.
OneReadyCopyPerKey == \A k \in Commits : Cardinality(ReadyFor({k})) <= 1

\* Whoever clones, copies or uses a workspace of its own keeps it: the reaper
\* spares what is active and what is young, and a review may outlive the time
\* to live of a directory.
ClientKeepsWorkspace ==
    \A c \in Client :
        /\ client[c].thread \in {"copying", "extend", "cloning"} => dir[client[c].dir].kind = "work"
        /\ client[c].task = "using" =>
              dir[client[c].dir].kind = "work" /\ dir[client[c].dir].whole

\* What nobody uses and nobody registered is removed in the end: a directory
\* that was renamed before a crash came, the clone of a thread whose task had
\* been cancelled, a deletion that failed.  That maintenance finds the lock free
\* now and then is assumed: it tries once in a round and does not wait.
Leftover(d) ==
    dir[d].kind # "none" /\ d \notin Rows /\ \A c \in Client : Busy(c) => client[c].dir # d
LeftoversGo ==
    []<>(maint.pc = "sweep") => \A d \in Dir : Leftover(d) ~> dir[d].kind = "none"

\* The three together: what PreparedWorkspaces may hand out, through crashes,
\* cancelled publications and deletions that fail.
CacheIsWhole == ReadyRowIsWhole /\ CapacityKept /\ OneReadyCopyPerKey
=============================================================================
