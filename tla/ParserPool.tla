----------------------------- MODULE ParserPool -----------------------------
(***************************************************************************)
(* The parser processes of languages/isolation.py: threads of the server   *)
(* (Caller) ask for the analysis of an input; at most Slots of them use a  *)
(* worker process at a time; idle workers wait in a stack; a worker that   *)
(* crashed, hung or lied is thrown away and the request is tried once more *)
(* with a fresh one; an input that failed is quarantined.  Meanwhile       *)
(* close_parser_workers may end the pool's generation.                     *)
(*                                                                         *)
(* A step is what a thread does under one lock, or one call that may block *)
(* or fail.  What is parsed is abstract: an input is a value, its analysis *)
(* arrives or does not.                                                    *)
(***************************************************************************)
EXTENDS Integers, Sequences, FiniteSets, SequencesExt, FiniteSetsExt

CONSTANTS
    Caller,            \* threads that call analyze_isolated
    Input,             \* digests of path, language, source and parser
    Processes,         \* bound: worker processes alive or known at a time
    Slots,             \* the semaphore: two in the code
    MaxRequests,       \* MAX_WORKER_REQUESTS, source bytes included
    Nothing,           \* no worker, no input
    Calls,             \* bound: the calls of all threads together
    Accidents,           \* bound: the cancelled calls and the workers that die by themselves
    Closings           \* bound: the calls of close_parser_workers

ASSUME PoolAssumption ==
    /\ Slots \in Nat \ {0} /\ MaxRequests \in Nat \ {0} /\ Calls \in Nat /\ Accidents \in Nat /\ Closings \in Nat
    /\ Processes \in Nat /\ Nothing \notin Input \cup 1..Processes

\* How a try ends.  "failed" is what may pass: start_failed, process_exit,
\* timeout, invalid_response; "final" is output_limit.
TryEnd == {"none", "good", "cancelled", "failed", "final"}
Process == 1..Processes

VARIABLES
    caller,      \* the threads
    process,     \* the worker processes
    idle,        \* _IDLE_WORKERS, a stack
    registered,  \* _WORKERS
    generation,  \* _POOL_GENERATION
    doomed,      \* what close_parser_workers still has to close
    failure,     \* quarantine record of every input
    cached,      \* inputs with a semantic analysis in the cache
    calls,       \* calls so far
    accidents      \* accidents so far

poolVars == <<caller, process, idle, registered, generation, doomed, failure, cached, calls, accidents>>

Resting == [pc |-> "rest", input |-> Nothing, try |-> 1, worker |-> Nothing, gen |-> 0,
            verdict |-> "none", known |-> FALSE, late |-> FALSE, cancelled |-> FALSE]

\* owes: somebody's request was written and its answer was not read.
NoProcess == [alive |-> FALSE, owes |-> FALSE, served |-> 0]

\* The places of a thread that hold a slot.
InSlot == {"pop", "spawn", "register", "wait", "keep", "close"}

PoolTypeOK ==
    /\ \A c \in Caller : /\ caller[c].worker \in Process \cup {Nothing}
                         /\ caller[c].gen \in 0..generation /\ caller[c].try \in 1..2
                         /\ caller[c].verdict \in TryEnd
    /\ \A p \in Process : process[p].served \in 0..MaxRequests
    /\ idle \in Seq(Process) /\ registered \subseteq Process /\ doomed \subseteq Process
    /\ failure \in [Input -> {"none", "final", "cooling", "cooled"}]
    /\ cached \subseteq Input

PoolInit ==
    /\ caller = [c \in Caller |-> Resting]
    /\ process = [p \in Process |-> NoProcess]
    /\ idle = <<>> /\ registered = {} /\ generation = 0 /\ doomed = {}
    /\ failure = [i \in Input |-> "none"]
    /\ cached = {} /\ calls = 0 /\ accidents = 0

-----------------------------------------------------------------------------
Holds(c, p) == caller[c].worker = p
Held == {p \in Process : \E c \in Caller : Holds(c, p)}
Free == {p \in Process \ (registered \cup doomed \cup Held) : ~process[p].alive}
Users == {c \in Caller : caller[c].pc \in InSlot}

AtStep(c, pc) == caller[c].pc = pc
Goes(c, pc) == caller' = [caller EXCEPT ![c].pc = pc]
GivesUp(c, pc, verdict) == caller' = [caller EXCEPT ![c].pc = pc, ![c].verdict = verdict]
Rests(c) == caller' = [caller EXCEPT ![c] = Resting]

Pool  == UNCHANGED <<idle, registered, generation, doomed>>
Notes == UNCHANGED <<failure, cached, calls>>
Books == Notes /\ UNCHANGED accidents

\* _check_cancelled, then the deadline of the call.
Interruption(c) ==
    IF caller[c].cancelled THEN "cancelled" ELSE IF caller[c].late THEN "failed" ELSE "none"

-----------------------------------------------------------------------------
(* analyze_isolated *)

Analyze(c, i) ==
    /\ AtStep(c, "rest") /\ calls < Calls
    /\ calls' = calls + 1
    /\ caller' = [caller EXCEPT ![c] = [Resting EXCEPT !.pc = "load", !.input = i]]
    /\ UNCHANGED <<process, failure, cached, accidents>> /\ Pool

\* The quarantine, which may be unreadable, then the cache.  A call that ends
\* here was cancelled, found its answer, or falls back to the heuristic parser.
Load(c) ==
    LET i == caller[c].input
        hit == i \in cached /\ failure[i] \in {"none", "cooled"} /\ ~caller[c].cancelled
    IN  /\ AtStep(c, "load")
        /\ \/ Rests(c) /\ failure' = [failure EXCEPT ![i] = IF hit THEN "none" ELSE @]
           \/ /\ ~hit /\ failure[i] \in {"none", "cooled"} /\ ~caller[c].cancelled
              /\ caller' = [caller EXCEPT ![c].pc = "slot",
                                          ![c].known = failure[i] = "cooled"]
              /\ UNCHANGED failure
        /\ UNCHANGED <<process, cached, calls, accidents>> /\ Pool

\* Slip: tries are counted, but the count is not looked at.
DecideToRetry(c) ==
    /\ AtStep(c, "decide")
    /\ IF caller[c].verdict = "failed" /\ ~caller[c].cancelled /\ ~caller[c].late
       THEN caller' = [caller EXCEPT ![c].pc = "slot", ![c].try = @ + 1, ![c].verdict = "none"]
       ELSE Rests(c)
    /\ UNCHANGED <<process, failure, cached, calls, accidents>> /\ Pool

\* _run_worker_with_retry and the rest of analyze_isolated: one more try, or
\* the books are kept.  Only semantic analyses are cached.
Decide(c) ==
    LET i == caller[c].input
        verdict == caller[c].verdict
    IN  /\ AtStep(c, "decide")
        /\ IF verdict = "cancelled" \/ caller[c].cancelled
           THEN Rests(c) /\ UNCHANGED <<failure, cached>>
           ELSE IF verdict = "good"
           THEN /\ failure' = IF caller[c].known THEN [failure EXCEPT ![i] = "none"] ELSE failure
                /\ cached' \in {cached, cached \cup {i}}
                /\ Rests(c)
           ELSE IF verdict = "failed" /\ caller[c].try = 1 /\ ~caller[c].late
           THEN /\ caller' = [caller EXCEPT ![c].pc = "slot", ![c].try = 2, ![c].verdict = "none"]
                /\ UNCHANGED <<failure, cached>>
           ELSE /\ failure' = [failure EXCEPT
                                  ![i] = IF verdict = "failed" THEN "cooling" ELSE "final"]
                /\ Rests(c) /\ UNCHANGED cached
        /\ UNCHANGED <<process, calls, accidents>> /\ Pool

-----------------------------------------------------------------------------
(* _run_worker *)

\* Slip: the semaphore counts nothing.
AcquireFreely(c) ==
    /\ AtStep(c, "slot")
    /\ IF Interruption(c) # "none" THEN GivesUp(c, "decide", Interruption(c)) ELSE Goes(c, "pop")
    /\ UNCHANGED process /\ Pool /\ Books

AcquireSlot(c) ==
    /\ AtStep(c, "slot")
    /\ IF Interruption(c) # "none"
       THEN GivesUp(c, "decide", Interruption(c))
       ELSE Cardinality(Users) < Slots /\ Goes(c, "pop")
    /\ UNCHANGED process /\ Pool /\ Books

\* Slip: a retry takes what is there.
UsableAnyTime(c, p) == p # Nothing /\ process[p].alive

Usable(c, p) == p # Nothing /\ process[p].alive /\ caller[c].try = 1

\* The latest idle worker, if it lives; in a second try it is closed as well.
\* An exchange begins with writing the request.
TakeWorker(c) ==
    LET p == IF idle = <<>> THEN Nothing ELSE Last(idle)
        kept == IF Usable(c, p) THEN p ELSE Nothing
        stop == Interruption(c)
        pc == IF stop # "none" THEN "keep" ELSE IF kept = Nothing THEN "spawn" ELSE "wait"
    IN  /\ AtStep(c, "pop")
        /\ IF caller[c].cancelled
           THEN GivesUp(c, "keep", "cancelled") /\ UNCHANGED <<process, idle, registered>>
           ELSE /\ idle' = IF idle = <<>> THEN idle ELSE Front(idle)
                /\ registered' = IF p = kept THEN registered ELSE registered \ {p}
                /\ process' = [q \in Process |->
                                  IF q # p THEN process[q]
                                  ELSE IF q # kept THEN NoProcess
                                  ELSE IF pc = "wait" THEN [process[q] EXCEPT !.owes = TRUE]
                                  ELSE process[q]]
                /\ caller' = [caller EXCEPT ![c].pc = pc, ![c].gen = generation,
                                            ![c].worker = kept, ![c].verdict = stop]
        /\ UNCHANGED <<generation, doomed>> /\ Books

Spawn(c) ==
    /\ AtStep(c, "spawn")
    /\ \/ GivesUp(c, "keep", "failed") /\ UNCHANGED process
       \/ \E p \in Free :
             /\ p = Min(Free)
             /\ process' = [process EXCEPT ![p] = [NoProcess EXCEPT !.alive = TRUE]]
             /\ caller' = [caller EXCEPT ![c].pc = "register", ![c].worker = p]
    /\ Pool /\ Books

\* The pool was closed while the process started: it ends at once.
Register(c) ==
    LET p == caller[c].worker
    IN  /\ AtStep(c, "register")
        /\ IF caller[c].gen = generation
           THEN /\ registered' = registered \cup {p}
                /\ process' = [process EXCEPT ![p].owes = TRUE]
                /\ Goes(c, "wait")
           ELSE /\ process' = [process EXCEPT ![p] = NoProcess]
                /\ GivesUp(c, "keep", "cancelled") /\ UNCHANGED registered
        /\ UNCHANGED <<idle, generation, doomed>> /\ Books

\* Slip: the answer is awaited for as long as the worker lives.
PollDeaf(c) ==
    /\ AtStep(c, "wait")
    /\ ~process[caller[c].worker].alive /\ GivesUp(c, "keep", "failed")
    /\ UNCHANGED process /\ Pool /\ Books

\* Ten times a second: cancelled, out of time, or the worker is gone.
Poll(c) ==
    /\ AtStep(c, "wait")
    /\ IF Interruption(c) # "none" THEN GivesUp(c, "keep", Interruption(c))
       ELSE ~process[caller[c].worker].alive /\ GivesUp(c, "keep", "failed")
    /\ UNCHANGED process /\ Pool /\ Books

\* An answer, right or wrong, of another request, or one byte too much.
Answer(c) ==
    LET p == caller[c].worker
        on == IF Interruption(c) # "none" THEN Interruption(c) ELSE "good"
    IN  /\ AtStep(c, "wait") /\ process[p].alive
        /\ \/ /\ process' = [process EXCEPT ![p].owes = FALSE, ![p].served = @ + 1]
              /\ GivesUp(c, "keep", on) \/ GivesUp(c, "keep", "failed")
           \/ /\ GivesUp(c, "keep", "failed") \/ GivesUp(c, "keep", "final")
              /\ UNCHANGED process
        /\ Pool /\ Books

\* Slips: a worker is kept whatever became of its last request; a worker of a
\* closed pool is kept.
ReusableAnyway(c, p) ==
    caller[c].gen = generation /\ process[p].alive /\ process[p].served < MaxRequests

ReusableEver(c, p) ==
    caller[c].verdict = "good" /\ process[p].alive /\ process[p].served < MaxRequests

Reusable(c, p) ==
    /\ caller[c].verdict = "good" /\ caller[c].gen = generation
    /\ process[p].alive /\ process[p].served < MaxRequests

\* The finally of _run_worker, first half: keep the worker or disown it.
KeepOrNot(c) ==
    LET p == caller[c].worker
    IN  /\ AtStep(c, "keep")
        /\ IF p = Nothing THEN Goes(c, "decide") /\ UNCHANGED <<idle, registered>>
           ELSE IF Reusable(c, p)
           THEN /\ idle' = Append(idle, p)
                /\ caller' = [caller EXCEPT ![c].pc = "decide", ![c].worker = Nothing]
                /\ UNCHANGED registered
           ELSE registered' = registered \ {p} /\ Goes(c, "close") /\ UNCHANGED idle
        /\ UNCHANGED <<process, generation, doomed>> /\ Books

\* Slip: the disowned worker is left to itself.
CloseNothing(c) ==
    /\ AtStep(c, "close")
    /\ caller' = [caller EXCEPT ![c].pc = "decide", ![c].worker = Nothing]
    /\ UNCHANGED process /\ Pool /\ Books

CloseDisowned(c) ==
    /\ AtStep(c, "close")
    /\ process' = [process EXCEPT ![caller[c].worker] = NoProcess]
    /\ caller' = [caller EXCEPT ![c].pc = "decide", ![c].worker = Nothing]
    /\ Pool /\ Books

-----------------------------------------------------------------------------
(* The rest of the server, and time *)

\* close_parser_workers: the workers are taken under the lock, closed outside.
ClosePool ==
    /\ generation < Closings
    /\ generation' = generation + 1
    /\ doomed' = doomed \cup registered /\ registered' = {} /\ idle' = <<>>
    /\ UNCHANGED <<caller, process>> /\ Books

CloseDoomed(p) ==
    /\ p \in doomed
    /\ process' = [process EXCEPT ![p] = NoProcess]
    /\ doomed' = doomed \ {p}
    /\ UNCHANGED <<caller, idle, registered, generation>> /\ Books

Accident == accidents < Accidents /\ accidents' = accidents + 1 /\ Notes

ProcessDies(p) ==
    /\ process[p].alive
    /\ process' = [process EXCEPT ![p] = NoProcess]
    /\ Accident
    /\ UNCHANGED caller /\ Pool

Cancel(c) ==
    /\ ~AtStep(c, "rest") /\ ~caller[c].cancelled
    /\ caller' = [caller EXCEPT ![c].cancelled = TRUE]
    /\ Accident
    /\ UNCHANGED process /\ Pool

DeadlinePasses(c) ==
    /\ ~AtStep(c, "rest") /\ ~caller[c].late
    /\ caller' = [caller EXCEPT ![c].late = TRUE]
    /\ UNCHANGED process /\ Pool /\ Books

CoolsDown(i) ==
    /\ failure[i] = "cooling"
    /\ failure' = [failure EXCEPT ![i] = "cooled"]
    /\ UNCHANGED <<caller, process, cached, calls, accidents>> /\ Pool

CallerStep(c) ==
    \/ Load(c) \/ AcquireSlot(c) \/ TakeWorker(c) \/ Spawn(c) \/ Register(c)
    \/ Poll(c) \/ KeepOrNot(c) \/ CloseDisowned(c) \/ Decide(c)

PoolNext ==
    \/ \E c \in Caller, i \in Input : Analyze(c, i)
    \/ \E c \in Caller : CallerStep(c) \/ Answer(c) \/ Cancel(c) \/ DeadlinePasses(c)
    \/ \E p \in Process : CloseDoomed(p) \/ ProcessDies(p)
    \/ \E i \in Input : CoolsDown(i)
    \/ ClosePool

\* Threads run and the clock of a call goes on.  No worker need ever answer.
PoolFairness ==
    \A c \in Caller : WF_poolVars(CallerStep(c)) /\ WF_poolVars(DeadlinePasses(c))

PoolSpec == PoolInit /\ [][PoolNext]_poolVars /\ PoolFairness

-----------------------------------------------------------------------------
\* No parser process is forgotten: a living one is registered, is about to be
\* closed with its pool, or is in the hands of a thread that still has to
\* decide about it.
NoOrphans ==
    \A p \in Process : process[p].alive => p \in registered \cup doomed \cup Held

\* What waits in the pool may be used by whoever takes it: each worker once,
\* known to close_parser_workers, in nobody's hands, and with every answer it
\* was asked for read, so that no input gets the analysis of another.
IdleAreFree ==
    /\ IsInjective(idle)
    /\ ToSet(idle) \subseteq registered \ Held
    /\ \A p \in ToSet(idle) : ~process[p].owes
    /\ \A c, d \in Caller : caller[c].worker = caller[d].worker /\ c # d
                            => caller[c].worker = Nothing

\* The pool never runs more processes than there are slots, although slots and
\* workers are taken and returned in separate steps.
ProcessesBounded == Cardinality(registered) <= Slots

\* A second try talks to a process that has answered nobody before.
RetryIsFresh ==
    \A c \in Caller : AtStep(c, "wait") /\ caller[c].try = 2 =>
                          process[caller[c].worker].served = 0

\* The four together: each parser process is in one hand, which may use it.
ProcessesAreOwned == NoOrphans /\ IdleAreFree /\ ProcessesBounded /\ RetryIsFresh

\* Every call ends, with an analysis or without, also when workers hang, when
\* the slots are taken and when the pool is closed under it.
CallsEnd == \A c \in Caller : ~AtStep(c, "rest") ~> AtStep(c, "rest")
=============================================================================
