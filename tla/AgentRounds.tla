----------------------------- MODULE AgentRounds -----------------------------
(***************************************************************************)
(* One attempt of a review agent (AgentRunner.run): the first packet of    *)
(* material, then rounds of one model request and the tool calls of its    *)
(* answer, which run side by side, and the result.  RequestGate decides    *)
(* when the investigation is closed; AgentContext keeps what was sent      *)
(* (pending) apart from what was received (visible): only an answer proves *)
(* that the request arrived.                                               *)
(*                                                                         *)
(* The model answers anything.  Budgets and leases are those of BudgetGate *)
(* and ReviewLifecycle: here a reservation is granted or refused, a check  *)
(* passes or ends the attempt.  Whether something fits, and whether a      *)
(* result tells anything new, is open, unless it is about sources.         *)
(***************************************************************************)
EXTENDS Integers, FiniteSets

CONSTANTS
    Source,       \* evidence: path, side and range of a commit
    Hunk,         \* required_hunk_ids of the unit
    SourcesOf,    \* the sources that come with a hunk
    Claimed,      \* the sources of the candidate that a verifier gets
    MaxCalls,     \* limits.model_calls
    MaxTools,     \* limits.tool_calls
    Parallel      \* bound: tool calls in one answer

ASSUME RoundsAssumption ==
    /\ SourcesOf \in [Hunk -> SUBSET Source] /\ Claimed \subseteq Source
    /\ Source \cap Hunk = {}
    /\ MaxCalls \in Nat \ {0} /\ MaxTools \in Nat /\ Parallel \in Nat

VARIABLES
    role,       \* WorkItem.kind
    step,       \* where the attempt stands, and how it ended
    told,       \* what the conversation holds: sources and hunks
    received,   \* what it held in the last request that was answered
    context,    \* the sources and hunks of AgentContext
    count,      \* its counters
    running,    \* tool calls of the last answer
    saved,      \* what the store knows: materials, candidates, the verdict
    late        \* requests since three rounds brought nothing

roundVars == <<role, step, told, received, context, count, running, saved, late>>

Ending == {"completed", "interrupted", "failed", "stopped"}
ToolCalls == [tool : {"read"}, of : Source] \cup [tool : {"diff"}, of : Hunk]
           \cup [tool : {"submit"}, of : SUBSET Source] \cup [tool : {"search", "invalid"}, of : {{}}]

RoundsTypeOK ==
    /\ role \in {"review", "verification"}
    /\ step \in {"pack", "model", "await", "tools", "prose", "finish"} \cup Ending
    /\ told \subseteq Source \cup Hunk /\ received \subseteq told
    /\ context \in [visible : SUBSET Source, pending : SUBSET Source, hunks : SUBSET Hunk,
                    failures : SUBSET Hunk, known : SUBSET Source, todo : SUBSET (Source \cup Hunk)]
    /\ count \in [models : 0..MaxCalls, tools : Nat, ran : Nat, stalled : Nat, closing : 0..2,
                  acted : BOOLEAN, news : BOOLEAN, retry : BOOLEAN, closed : BOOLEAN]
    /\ running.begun \subseteq ToolCalls /\ running.left \in 0..Parallel /\ running.final \in BOOLEAN
    /\ saved \in [delivered : SUBSET Hunk, missing : SUBSET Hunk, cited : SUBSET Source,
                  verdict : {"none", "insufficient", "refuted", "confirmed"},
                  decided : SUBSET Source]

RoundsInit ==
    /\ role \in {"review", "verification"} /\ step = "pack"
    /\ told = {} /\ received = {}
    /\ context = [visible |-> {}, pending |-> {}, hunks |-> {}, failures |-> Hunk, known |-> {},
                  todo |-> Hunk \cup (IF role = "verification" THEN Claimed ELSE {})]
    /\ count = [models |-> 0, tools |-> 0, ran |-> 0, stalled |-> 0, closing |-> 0,
                acted |-> FALSE, news |-> FALSE, retry |-> FALSE, closed |-> FALSE]
    /\ running = [begun |-> {}, left |-> 0, final |-> FALSE]
    /\ saved = [delivered |-> {}, missing |-> {}, cited |-> {}, verdict |-> "none",
                decided |-> {}]
    /\ late = 0

-----------------------------------------------------------------------------
AttemptEnds(how) ==
    /\ step' = how
    /\ UNCHANGED <<role, told, received, context, count, running, saved, late>>

\* Cancelled, the lease lost, the review stopped: whenever check_active asks.
Stops == step \notin Ending /\ AttemptEnds("stopped")

\* An exception of the model, of the database, of anything.
Breaks == step \notin Ending /\ AttemptEnds("failed")

-----------------------------------------------------------------------------
(* ContextProvider.initial *)

\* What comes with a hunk or with a source of the candidate.
SourcesFor(m) == IF m \in Hunk THEN SourcesOf[m] ELSE {m}

\* Slips: what did not fit stays pending, its hunk counts as there, or its reason
\* to be missing is gone.
DropsKeepingPending(m) ==
    context' = [context EXCEPT !.todo = @ \ {m}, !.pending = @ \cup SourcesFor(m)]

DropsKeepingHunk(m) ==
    context' = [context EXCEPT !.todo = @ \ {m}, !.hunks = @ \cup ({m} \cap Hunk)]

DropsExplained(m) ==
    context' = [context EXCEPT !.todo = @ \ {m}, !.failures = @ \ {m}]

\* It cannot be read, or it does not fit: as if it had never been there.
Drops(m) == context' = [context EXCEPT !.todo = @ \ {m}]

\* Hunks of different files take turns; the candidate's sources come first.
Packs(m) ==
    /\ step = "pack" /\ m \in context.todo
    /\ m \in Hunk => context.todo \subseteq Hunk
    /\ \/ /\ context' = [context EXCEPT !.todo = @ \ {m}, !.pending = @ \cup SourcesFor(m),
                                        !.hunks = @ \cup ({m} \cap Hunk), !.failures = @ \ {m}]
          /\ told' = told \cup SourcesFor(m) \cup {m}
       \/ Drops(m) /\ UNCHANGED told
    /\ UNCHANGED <<role, step, received, count, running, saved, late>>

Packed ==
    /\ step = "pack" /\ context.todo = {}
    /\ step' = "model"
    /\ UNCHANGED <<role, told, received, context, count, running, saved, late>>

\* Not even the packet without material fits.
PackTooLarge == step = "pack" /\ AttemptEnds("interrupted")

-----------------------------------------------------------------------------
(* RequestGate.awrap_model_call *)

\* begin_round
Stalled == IF ~count.acted THEN count.stalled ELSE IF count.news THEN 0 ELSE count.stalled + 1

\* Slip: an investigation that was closed is opened again by any news.
FruitlessNow == Stalled >= 3

Fruitless == Stalled >= 3 \/ count.closing > 0

\* Slip: one closing request too many.
MayAskLater == count.closing <= 2

\* Two closing requests: one to close, and one to correct its answer.
MayAsk == count.closing < 2

NoProgress == step = "model" /\ ~MayAsk /\ AttemptEnds("interrupted")

\* reserve: no tokens, no time, or no call left.
Refused == step = "model" /\ MayAsk /\ AttemptEnds("interrupted")

\* short: few tokens or little time are left.
RequestsModel(short) ==
    /\ step = "model" /\ MayAsk /\ count.models < MaxCalls
    /\ step' = "await"
    /\ count' = [count EXCEPT
           !.models = @ + 1, !.stalled = Stalled, !.acted = FALSE, !.news = FALSE,
           !.closing = IF Fruitless THEN @ + 1 ELSE @,
           !.closed = \/ short \/ Fruitless \/ count.retry
                      \/ count.models + 1 >= MaxCalls \/ count.tools >= MaxTools]
    /\ late' = IF late > 0 \/ Stalled >= 3 THEN late + 1 ELSE 0
    /\ UNCHANGED <<role, told, received, context, running, saved>>

\* The answer: usage is settled, the attempt is still active, acknowledge.
Answered(n, final) ==
    /\ step = "await"
    /\ step' = IF n > 0 THEN "tools" ELSE IF final THEN "finish" ELSE "prose"
    /\ running' = [begun |-> {}, left |-> n, final |-> final]
    /\ received' = told
    /\ saved' = [saved EXCEPT !.delivered = @ \cup context.hunks,
                              !.missing = (@ \cup context.failures) \ context.hunks]
    /\ context' = [context EXCEPT !.visible = @ \cup context.pending,
                                  !.known = @ \cup context.pending, !.pending = {}, !.hunks = {}]
    /\ UNCHANGED <<role, told, count, late>>

\* deliver, at the hard deadline.
AnsweredTooLate == step = "await" /\ AttemptEnds("interrupted")

\* aafter_model: no tool and no result; asked for once more, if there is a call.
Corrects ==
    /\ step = "prose"
    /\ IF count.retry \/ count.models >= MaxCalls
       THEN step' = "failed" /\ UNCHANGED count
       ELSE step' = "model" /\ count' = [count EXCEPT !.retry = TRUE]
    /\ UNCHANGED <<role, told, received, context, running, saved, late>>

-----------------------------------------------------------------------------
(* bounded, and the tools *)

Noted(news) == [count EXCEPT !.acted = TRUE, !.news = @ \/ news]
Returns(call) == running' = [running EXCEPT !.begun = @ \ {call}]
Refuses(call) ==
    /\ count' = [count EXCEPT !.tools = @ + 1]
    /\ running' = [running EXCEPT !.left = @ - 1]
RefusesNoting(call, news) ==
    /\ count' = [Noted(news) EXCEPT !.tools = @ + 1]
    /\ running' = [running EXCEPT !.left = @ - 1]

\* Slip: a call is counted when it returns.
BeginsUncounted(call) ==
    /\ step = "tools" /\ running.left > 0 /\ call \notin running.begun
    /\ count.tools < MaxTools
    /\ running' = [running EXCEPT !.begun = @ \cup {call}, !.left = @ - 1]
    /\ count' = [count EXCEPT !.ran = @ + 1]
    /\ UNCHANGED <<role, step, told, received, context, saved, late>>

\* Counted first, then refused by its schema, by a closed investigation, by the
\* limit; or run.  A refusal that was not heard before is news.
Begins(call) ==
    /\ step = "tools" /\ running.left > 0 /\ call \notin running.begun
    /\ IF call.tool = "invalid" \/ (count.closed /\ call.tool # "submit")
       THEN \E news \in BOOLEAN : RefusesNoting(call, news)
       ELSE IF count.tools + 1 > MaxTools THEN Refuses(call)
       ELSE /\ count' = [count EXCEPT !.tools = @ + 1, !.ran = @ + 1]
            /\ running' = [running EXCEPT !.begun = @ \cup {call}, !.left = @ - 1]
    /\ UNCHANGED <<role, step, told, received, context, saved, late>>

\* Staged under a handle of its own, unless it has one; lines that were not
\* known before are news.
Stages(sources, hunks) ==
    context' = [context EXCEPT !.pending = @ \cup (sources \ context.visible),
                               !.hunks = @ \cup hunks, !.known = @ \cup sources]

ReadReturns(call) ==
    /\ call.tool \in {"read", "diff"} /\ call \in running.begun
    /\ \/ /\ Stages(SourcesFor(call.of), {call.of} \cap Hunk)
          /\ told' = told \cup SourcesFor(call.of) \cup {call.of}
          /\ IF SourcesFor(call.of) = {} THEN \E news \in BOOLEAN : count' = Noted(news)
             ELSE count' = Noted(~(SourcesFor(call.of) \subseteq context.known))
       \/ \E news \in BOOLEAN : count' = Noted(news) /\ UNCHANGED <<context, told>>
    /\ Returns(call)
    /\ UNCHANGED <<role, step, received, saved, late>>

SearchReturns(call) ==
    /\ call.tool = "search" /\ call \in running.begun
    /\ \E news \in BOOLEAN : count' = Noted(news)
    /\ Returns(call)
    /\ UNCHANGED <<role, step, told, received, context, saved, late>>

\* Slip: what was sent counts as received.
ResolvesWhatWasSent(sources) == sources \subseteq context.visible \cup context.pending

\* resolve: handles that this attempt was answered about.
Resolves(sources) == sources \subseteq context.visible

\* submit_candidate is for reviewers; a rejected one is no progress.
SubmitReturns(call) ==
    /\ call.tool = "submit" /\ call \in running.begun
    /\ IF role = "review" /\ call.of # {} /\ Resolves(call.of)
       THEN /\ saved' = [saved EXCEPT !.cited = @ \cup call.of]
            /\ \E news \in BOOLEAN :
                  count' = IF news THEN Noted(TRUE) ELSE count
       ELSE UNCHANGED <<saved, count>>
    /\ Returns(call)
    /\ UNCHANGED <<role, step, told, received, context, late>>

\* All calls have returned before anything else happens.
RoundEnds ==
    /\ step = "tools" /\ running.left = 0 /\ running.begun = {}
    /\ step' = IF running.final THEN "finish" ELSE "model"
    /\ UNCHANGED <<role, told, received, context, count, running, saved, late>>

-----------------------------------------------------------------------------
\* admit_verification: handles must resolve; a verdict without what it needs is
\* insufficient.
Concludes(verdict, sources) ==
    /\ step = "finish"
    /\ IF role = "review" THEN step' = "completed" /\ UNCHANGED saved
       ELSE IF ~Resolves(sources) THEN step' = "failed" /\ UNCHANGED saved
       ELSE /\ step' = "completed"
            /\ saved' = [saved EXCEPT !.decided = sources,
                            !.verdict = IF sources = {} THEN "insufficient" ELSE verdict]
    /\ UNCHANGED <<role, told, received, context, count, running, late>>

\* finish_work at the hard deadline.
ConcludesTooLate == step = "finish" /\ AttemptEnds("interrupted")

RoundsNext ==
    \/ \E m \in Source \cup Hunk : Packs(m)
    \/ Packed \/ PackTooLarge
    \/ NoProgress \/ Refused \/ \E short \in BOOLEAN : RequestsModel(short)
    \/ \E n \in 0..Parallel, final \in BOOLEAN : Answered(n, final)
    \/ AnsweredTooLate \/ Corrects
    \/ \E call \in ToolCalls : \/ Begins(call) \/ ReadReturns(call)
                           \/ SearchReturns(call) \/ SubmitReturns(call)
    \/ RoundEnds
    \/ \E verdict \in {"insufficient", "refuted", "confirmed"}, sources \in SUBSET Source :
          Concludes(verdict, sources)
    \/ ConcludesTooLate \/ Stops \/ Breaks

RoundsSpec == RoundsInit /\ [][RoundsNext]_roundVars

-----------------------------------------------------------------------------
\* A candidate and a verdict cite only what the model provably had before it:
\* material that was dropped from the packet, and what another call of the same
\* answer is reading at that moment, cannot be cited.
CitedWasReceived == saved.cited \cup saved.decided \subseteq received

\* The store counts a required hunk as delivered only when the model had it in
\* a request that was answered, whole or not at all.
DeliveredWasReceived ==
    \A h \in saved.delivered : {h} \cup SourcesOf[h] \subseteq received

\* From the first answer on, every required hunk was delivered, is on its way,
\* or has a reason why it is missing: none is lost without a trace.
MissingIsExplained ==
    count.models > 0 /\ step \in {"tools", "prose", "finish", "model"} =>
        Hunk \subseteq saved.delivered \cup saved.missing

\* The three together: what is saved of a round rests on what the model had.
ReceivedMaterial == CitedWasReceived /\ DeliveredWasReceived /\ MissingIsExplained

\* After three rounds that brought nothing there are two requests at most,
\* whatever they bring.
StalledAgentEnds == late <= 2

\* Calls of one answer run side by side, yet no more than the limit ever run.
ToolsWithinLimit == count.ran <= MaxTools

\* An agent stops: no rounds without progress, and no calls of tools, go on
\* beyond their limits, although calls run side by side.
AgentIsBounded == StalledAgentEnds /\ ToolsWithinLimit
=============================================================================
