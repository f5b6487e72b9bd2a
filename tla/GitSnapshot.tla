---------------------------- MODULE GitSnapshot ----------------------------
(***************************************************************************)
(* The clone a review works on (tools/git_tool.py): a thread runs one git  *)
(* command after the other, each in a process of its own whose two pipes   *)
(* it drains, while branches move on GitHub and the review may be          *)
(* cancelled.  What is reviewed is the difference between the declared     *)
(* head and its one merge base with the declared base.                     *)
(*                                                                         *)
(* Commits are numbers, greater than those of their parents.  A process    *)
(* that was told to stop may still end well; once it is gone its pipes are *)
(* closed, because its children are expected to be gone as well.           *)
(***************************************************************************)
EXTENDS Naturals, FiniteSets

CONSTANTS
    CommitCount, \* how many commits there are
    MaxMoves     \* bound: moves of the branches

ASSUME GitAssumption == CommitCount \in Nat /\ MaxMoves \in Nat

VARIABLES
    parents,   \* the commit graph
    declared,  \* base and head of the pull request as its metadata says
    tip,       \* the commits the two branches are at now
    local,     \* the commits in the clone
    gitStep,   \* what the thread is at, for which of the two branches
    proc,      \* the running command
    cancelled, \* the event the review sets when it is cancelled
    outcome,   \* of clone_and_diff
    moves

gitVars == <<parents, declared, tip, local, gitStep, proc, cancelled, outcome, moves>>

Revision == 1 .. CommitCount
Ends == {"base", "head"}
Pipes == {"stdout", "stderr"}

\* The commits that can be reached from a set of commits.
Reached(from) ==
    LET reach[n \in 0 .. CommitCount] ==
            IF n = 0 THEN from ELSE reach[n - 1] \cup UNION {parents[c] : c \in reach[n - 1]}
    IN reach[CommitCount]

\* git merge-base --all: common ancestors that are no ancestor of another.
MergeBases(a, b) ==
    LET common == Reached({a}) \cap Reached({b})
    IN {c \in common : \A d \in common \ {c} : c \notin Reached({d})}

NoProc == [state |-> "none", well |-> FALSE, open |-> {}, stop |-> "no"]
NoOutcome == [how |-> "none", base |-> 0, head |-> 0]

GitInit ==
    /\ parents \in [Revision -> SUBSET Revision]
    /\ \A c \in Revision : \A d \in parents[c] : d < c
    /\ declared \in [Ends -> Revision]
    /\ tip = declared
    /\ local = {} /\ gitStep = [at |-> "clone", side |-> "base"]
    /\ proc = NoProc /\ cancelled = FALSE /\ outcome = NoOutcome /\ moves = 0

-----------------------------------------------------------------------------
(* Around the thread. *)

Moves(e, c) ==
    /\ moves < MaxMoves /\ moves' = moves + 1
    /\ tip[e] # c /\ tip' = [tip EXCEPT ![e] = c]
    /\ UNCHANGED <<parents, declared, local, gitStep, proc, cancelled, outcome>>

CancelGit ==
    /\ ~cancelled /\ cancelled' = TRUE
    /\ UNCHANGED <<parents, declared, tip, local, gitStep, proc, outcome, moves>>

\* A command ends by itself or because it was told to; a fetch and a clone
\* bring what the branches reach, and a fetch by SHA the commit itself if the
\* server still gives it.
Brings ==
    CASE gitStep.at = "clone" -> {Reached({tip["base"]}), Reached({tip["base"], tip["head"]})}
      [] gitStep.at = "fetch" -> {Reached({declared[gitStep.side]})}
      [] gitStep.at = "refetch" -> {Reached({tip[gitStep.side]})}
      [] OTHER -> {{}}

ProcessEnds(well) ==
    /\ proc.state \in {"running", "told to stop"}
    /\ proc' = [proc EXCEPT !.state = "gone", !.well = well]
    /\ IF well THEN \E brought \in Brings : local' = local \cup brought
       ELSE UNCHANGED local
    /\ UNCHANGED <<parents, declared, tip, gitStep, cancelled, outcome, moves>>

PipeEnds(pipe) ==
    /\ proc.state = "gone" /\ pipe \in proc.open
    /\ proc' = [proc EXCEPT !.open = @ \ {pipe}]
    /\ UNCHANGED <<parents, declared, tip, local, gitStep, cancelled, outcome, moves>>

-----------------------------------------------------------------------------
(* The thread. *)

\* Lookups of commits and of merge bases do not watch the event while they run.
Quiet == {"look", "relook", "verify", "merge bases"}

\* Every exception leaves clone_and_diff by way of cleanup_workspace.
Leaves(how) ==
    /\ outcome' = [NoOutcome EXCEPT !.how = how]
    /\ gitStep' = [gitStep EXCEPT !.at = "end"] /\ local' = {} /\ proc' = NoProc

\* A command is not started after a cancellation; before the second fetch that
\* too is one of the errors that count as its failure.
SpawnGit ==
    /\ gitStep.at # "end" /\ proc.state = "none"
    /\ \/ /\ ~cancelled
          /\ proc' = [NoProc EXCEPT !.state = "running", !.open = Pipes]
          /\ UNCHANGED <<local, gitStep, outcome>>
       \/ cancelled /\ Leaves(IF gitStep.at = "refetch" THEN "failed" ELSE "cancelled")
    /\ UNCHANGED <<parents, declared, tip, cancelled, moves>>

\* The loop that drains the pipes sees the event, or that time is up, and
\* terminates what is still running.
Notices(why) ==
    /\ proc.state # "none" /\ proc.open # {} /\ proc.stop = "no"
    /\ why = "cancelled" => cancelled /\ gitStep.at \notin Quiet
    /\ proc' = [proc EXCEPT !.stop = why,
                            !.state = IF @ = "running" THEN "told to stop" ELSE @]
    /\ UNCHANGED <<parents, declared, tip, local, gitStep, cancelled, outcome, moves>>

\* What is raised once the process is gone; a lookup watches the event again.
Raises ==
    IF gitStep.at \in Quiet
    THEN IF proc.stop = "late" THEN "late" ELSE IF cancelled THEN "cancelled" ELSE "no"
    ELSE IF proc.stop # "no" THEN IF cancelled THEN "cancelled" ELSE "late"
    ELSE IF proc.well THEN "no" ELSE "failed"

\* After base comes head, after both the difference.
AfterFetch ==
    IF gitStep.side = "base" THEN [at |-> "fetch", side |-> "head"]
    ELSE [gitStep EXCEPT !.at = "verify"]

SomeBase(bases) == bases # {}
Unique(bases) == Cardinality(bases) = 1

Proceeds(next) ==
    /\ gitStep' = next /\ proc' = NoProc /\ UNCHANGED <<local, outcome>>

\* A lookup that fails means that the commit is not there; it is no error.
Found == proc.well /\ declared[gitStep.side] \in local

\* What was printed is complete when both pipes are.
Collects ==
    /\ proc.state = "gone" /\ proc.open = {}
    /\ CASE gitStep.at = "clone" ->
              IF Raises = "no" THEN Proceeds([gitStep EXCEPT !.at = "fetch"]) ELSE Leaves(Raises)
         [] gitStep.at = "fetch" ->
              CASE Raises = "no" -> Proceeds(AfterFetch)
                [] Raises = "failed" -> Proceeds([gitStep EXCEPT !.at = "look"])
                [] OTHER -> Leaves(Raises)
         [] gitStep.at \in {"look", "relook", "verify"} ->
              IF Raises # "no" THEN Leaves(Raises)
              ELSE CASE Found /\ gitStep.at = "verify" -> Proceeds([gitStep EXCEPT !.at = "merge bases"])
                     [] Found /\ gitStep.at # "verify" -> Proceeds(AfterFetch)
                     [] ~Found /\ gitStep.at = "look" -> Proceeds([gitStep EXCEPT !.at = "refetch"])
                     [] OTHER -> Leaves("failed")
         \* any error of the second fetch, a cancellation too, is a failure
         [] gitStep.at = "refetch" ->
              IF Raises = "no" THEN Proceeds([gitStep EXCEPT !.at = "relook"]) ELSE Leaves("failed")
         [] gitStep.at = "merge bases" ->
              IF Raises # "no" THEN Leaves(Raises)
              ELSE IF ~(proc.well /\ declared["base"] \in local
                        /\ Unique(MergeBases(declared["base"], declared["head"])))
              THEN Leaves("failed")
              ELSE Proceeds([gitStep EXCEPT !.at = "diff"])
         [] gitStep.at = "diff" ->
              IF Raises # "no" THEN Leaves(Raises)
              ELSE /\ outcome' = [how |-> "none", head |-> declared["head"],
                                  base |-> CHOOSE c \in MergeBases(declared["base"], declared["head"]) : TRUE]
                   /\ gitStep' = [gitStep EXCEPT !.at = "checkout"] /\ proc' = NoProc /\ UNCHANGED local
         [] gitStep.at = "checkout" ->
              IF Raises # "no" THEN Leaves(Raises)
              ELSE /\ outcome' = [outcome EXCEPT !.how = "ready"]
                   /\ gitStep' = [gitStep EXCEPT !.at = "end"] /\ proc' = NoProc /\ UNCHANGED local
    /\ UNCHANGED <<parents, declared, tip, cancelled, moves>>

GitNext ==
    \/ \E e \in Ends, c \in Revision : Moves(e, c)
    \/ CancelGit
    \/ \E well \in BOOLEAN : ProcessEnds(well)
    \/ \E pipe \in Pipes : PipeEnds(pipe)
    \/ SpawnGit
    \/ \E why \in {"cancelled", "late"} : Notices(why)
    \/ Collects

GitSpec == GitInit /\ [][GitNext]_gitVars

\* The thread runs, time passes, and a process that was told to stop goes
\* (it is killed after two seconds), with its children and so its pipes.
GitFairness ==
    /\ WF_gitVars(SpawnGit) /\ WF_gitVars(Collects)
    /\ WF_gitVars(Notices("late")) /\ WF_gitVars(Notices("cancelled"))
    /\ WF_gitVars(proc.state = "told to stop" /\ \E well \in BOOLEAN : ProcessEnds(well))
    /\ \A pipe \in Pipes : WF_gitVars(PipeEnds(pipe))

-----------------------------------------------------------------------------

\* Whatever is pushed meanwhile, and whichever of the fetches had to step in,
\* what is reviewed is the declared head against its only merge base with the
\* declared base: never a branch's present commit, never one of several bases
\* (clone_and_diff, unified_diff).
SnapshotIsDeclared ==
    outcome.how = "ready" =>
        /\ outcome.head = declared["head"]
        /\ MergeBases(declared["base"], declared["head"]) = {outcome.base}
        /\ Reached({outcome.base, outcome.head}) \subseteq local

\* Every clone ends, by its timeouts at the latest, and soon once it is
\* cancelled (the loop of GitTool._run).
GitCallsEnd == <>(gitStep.at = "end")
=============================================================================
