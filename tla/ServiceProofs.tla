---------------------------- MODULE ServiceProofs ----------------------------
(***************************************************************************)
(* Proofs about what surrounds the life cycle of a review and shares no    *)
(* state with it: the rounds of an agent, the pool of parser processes and *)
(* the directories in which reviews work; and about all of them together   *)
(* with the delivery to GitHub and the intake of reviews.                  *)
(***************************************************************************)
EXTENDS MCServices, IntakeProofs, PublicationProofs, WellFoundedInduction,
        FiniteSetTheorems, TLAPS

-----------------------------------------------------------------------------
(* AgentRounds: the inductive invariant *)

Context == [visible : SUBSET Source, pending : SUBSET Source, hunks : SUBSET Hunk,
            failures : SUBSET Hunk, known : SUBSET Source, todo : SUBSET (Source \cup Hunk)]
Count == [models : 0..MaxCalls, tools : Nat, ran : Nat, stalled : Nat, closing : 0..2,
          acted : BOOLEAN, news : BOOLEAN, retry : BOOLEAN, closed : BOOLEAN]
Round == [begun : SUBSET ToolCalls, left : 0..Parallel, final : BOOLEAN]

\* A hunk is part of a text whole or not at all.
Whole(hunks, text) == \A h \in hunks : {h} \cup SourcesOf[h] \subseteq text

\* What is visible was received, what is pending was told; every required hunk
\* was delivered, is on its way, or has a reason to be missing.
MaterialInv ==
    /\ context.visible \subseteq received
    /\ context.pending \subseteq told
    /\ Whole(context.hunks, told)
    /\ Hunk \subseteq context.hunks \cup context.failures \cup saved.delivered
    /\ step = "pack" => count.models = 0

\* Each late request was a closing one, and each call that ran was counted.
CountInv == late <= count.closing /\ count.ran <= count.tools

RoundsInv ==
    /\ RoundsTypeOK /\ running \in Round /\ late \in Nat
    /\ MaterialInv /\ ReceivedMaterial
    /\ CountInv /\ AgentIsBounded

\* The counters after an answer of a tool was noted.
LEMMA NotedCount ==
  ASSUME count \in Count, NEW news \in BOOLEAN
  PROVE  /\ Noted(news) \in Count
         /\ Noted(news).models = count.models /\ Noted(news).tools = count.tools
         /\ Noted(news).ran = count.ran /\ Noted(news).closing = count.closing
  BY DEF Count, Noted

\* Material that goes into the conversation, whole.
LEMMA SourcesOfMaterial ==
  ASSUME NEW m \in Source \cup Hunk
  PROVE  /\ SourcesFor(m) \subseteq Source
         /\ m \in Hunk => SourcesFor(m) = SourcesOf[m]
  BY RoundsAssumption DEF SourcesFor

\* The conversation and what is saved only matter to the material.
LEMMA KeepsMaterial ==
  ASSUME RoundsInv, UNCHANGED <<role, told, received, context, saved>>,
         running' \in Round, count' \in Count, step' \in {"pack", "model", "await", "tools",
                                                           "prose", "finish"} \cup Ending,
         late' \in Nat, late' <= count'.closing, count'.ran <= count'.tools,
         count'.ran <= MaxTools,
         step' = "pack" => count'.models = 0,
         /\ count'.models > 0 /\ step' \in {"tools", "prose", "finish", "model"}
            => count.models > 0 /\ step \in {"tools", "prose", "finish", "model"}
  PROVE  RoundsInv'
  <1>1. RoundsTypeOK'
    BY DEF RoundsInv, RoundsTypeOK, Count, Round
  <1>2. MaterialInv'
    BY DEF RoundsInv, MaterialInv, Whole
  <1>3. ReceivedMaterial'
    BY DEF RoundsInv, ReceivedMaterial, CitedWasReceived, DeliveredWasReceived,
           MissingIsExplained
  <1>4. CountInv' /\ AgentIsBounded'
    <2>1. count'.closing <= 2 /\ count'.closing \in Nat
      BY DEF Count
    <2> QED BY <2>1 DEF CountInv, AgentIsBounded, StalledAgentEnds, ToolsWithinLimit
  <1> QED BY <1>1, <1>2, <1>3, <1>4 DEF RoundsInv

\* The counters and the calls of a round, as the invariant has them.
LEMMA RoundsTypes ==
  ASSUME RoundsInv
  PROVE  /\ count \in Count /\ running \in Round /\ context \in Context /\ late \in Nat
         /\ count.models \in Nat /\ count.tools \in Nat /\ count.ran \in Nat
         /\ count.closing \in 0..2 /\ count.stalled \in Nat
         /\ running.left \in 0..Parallel
         /\ MaxTools \in Nat /\ MaxCalls \in Nat
         /\ late <= count.closing /\ count.ran <= count.tools /\ count.ran <= MaxTools
  BY RoundsAssumption DEF RoundsInv, RoundsTypeOK, Count, Round, Context, CountInv,
                          AgentIsBounded, ToolsWithinLimit

\* An attempt ends, at any step.
LEMMA EndKeepsInv ==
  ASSUME RoundsInv, NEW how \in Ending, AttemptEnds(how)
  PROVE  RoundsInv'
  <1>1. how \notin {"pack", "tools", "prose", "finish", "model"}
    BY DEF Ending
  <1> QED BY <1>1, KeepsMaterial, RoundsTypes DEF AttemptEnds

\* A piece of material is packed, or is not there.
LEMMA PacksKeepsInv ==
  ASSUME RoundsInv, NEW m \in Source \cup Hunk, Packs(m)
  PROVE  RoundsInv'
  <1>1. context \in Context /\ told \subseteq Source \cup Hunk /\ received \subseteq told
    BY RoundsTypes DEF RoundsInv, RoundsTypeOK
  <1>2. step = "pack" /\ UNCHANGED <<role, step, received, count, running, saved, late>>
    BY DEF Packs
  <1>3. /\ context' \in Context
        /\ context'.visible = context.visible
        /\ \/ /\ context'.pending = context.pending \cup SourcesFor(m)
              /\ context'.hunks = context.hunks \cup ({m} \cap Hunk)
              /\ context'.failures = context.failures \ {m}
              /\ told' = told \cup SourcesFor(m) \cup {m}
           \/ /\ context'.pending = context.pending
              /\ context'.hunks = context.hunks /\ context'.failures = context.failures
              /\ told' = told
    <2>1. SourcesFor(m) \subseteq Source
      BY SourcesOfMaterial
    <2>2. CASE Drops(m) /\ UNCHANGED told
      BY <1>1, <2>2 DEF Drops, Context
    <2>3. CASE /\ context' = [context EXCEPT !.todo = @ \ {m}, !.pending = @ \cup SourcesFor(m),
                                 !.hunks = @ \cup ({m} \cap Hunk), !.failures = @ \ {m}]
               /\ told' = told \cup SourcesFor(m) \cup {m}
      <3> HIDE DEF SourcesFor
      <3> QED BY <1>1, <2>1, <2>3 DEF Context
    <2> QED BY <2>2, <2>3 DEF Packs
  <1>4. told' \subseteq Source \cup Hunk /\ told \subseteq told'
    BY <1>1, <1>3, SourcesOfMaterial
  <1>5. RoundsTypeOK'
    BY <1>1, <1>2, <1>3, <1>4 DEF RoundsInv, RoundsTypeOK, Context
  <1>6. MaterialInv'
    <2>1. Whole(context'.hunks, told')
      BY <1>3, <1>4, SourcesOfMaterial DEF RoundsInv, MaterialInv, Whole
    <2>2. Hunk \subseteq context'.hunks \cup context'.failures \cup saved'.delivered
      BY <1>2, <1>3 DEF RoundsInv, MaterialInv
    <2> QED BY <1>2, <1>3, <1>4, <2>1, <2>2 DEF RoundsInv, MaterialInv
  <1>7. ReceivedMaterial'
    BY <1>2 DEF RoundsInv, ReceivedMaterial, CitedWasReceived, DeliveredWasReceived,
                MissingIsExplained
  <1> QED BY <1>2, <1>5, <1>6, <1>7 DEF RoundsInv, CountInv, AgentIsBounded,
                                        StalledAgentEnds, ToolsWithinLimit

\* Everything is packed: the first request may be made.
LEMMA PackedKeepsInv ==
  ASSUME RoundsInv, Packed
  PROVE  RoundsInv'
  <1>1. step = "pack" /\ step' = "model" /\ count.models = 0
    BY DEF Packed, RoundsInv, MaterialInv
  <1> QED BY <1>1, KeepsMaterial, RoundsTypes DEF Packed

\* A request is made: a late one is a closing one.
LEMMA RequestKeepsInv ==
  ASSUME RoundsInv, NEW short \in BOOLEAN, RequestsModel(short)
  PROVE  RoundsInv'
  <1>1. /\ count.closing < 2 /\ count.models < MaxCalls /\ step' = "await"
        /\ UNCHANGED <<role, told, received, context, running, saved>>
    BY DEF RequestsModel, MayAsk
  <1>2. Stalled \in Nat
    BY RoundsTypes DEF Stalled
  <1>3. /\ count' \in Count
        /\ count'.closing = IF Fruitless THEN count.closing + 1 ELSE count.closing
        /\ count'.ran = count.ran /\ count'.tools = count.tools
    <2> DEFINE closing == IF Fruitless THEN count.closing + 1 ELSE count.closing
               closed == \/ short \/ Fruitless \/ count.retry
                         \/ count.models + 1 >= MaxCalls \/ count.tools >= MaxTools
    <2>1. closing \in 0..2 /\ closed \in BOOLEAN /\ count.models + 1 \in 0..MaxCalls
      <3>1. closing \in 0..2 /\ count.models + 1 \in 0..MaxCalls
        BY <1>1, RoundsTypes
      <3>2. closed \in BOOLEAN
        BY RoundsTypes DEF Count, Fruitless
      <3> QED BY <3>1, <3>2
    <2>2. count' = [count EXCEPT !.models = count.models + 1, !.stalled = Stalled,
                       !.acted = FALSE, !.news = FALSE, !.closing = closing,
                       !.closed = closed]
      BY DEF RequestsModel
    <2> HIDE DEF closing, closed
    <2>3. /\ count' \in Count /\ count'.closing = closing
          /\ count'.ran = count.ran /\ count'.tools = count.tools
      BY <1>2, <2>1, <2>2, RoundsTypes DEF Count
    <2> QED BY <2>3 DEF closing
  <1>4. late' \in Nat /\ late' <= count'.closing
    <2>1. late' = IF late > 0 \/ Stalled >= 3 THEN late + 1 ELSE 0
      BY DEF RequestsModel
    <2>2. late > 0 \/ Stalled >= 3 => Fruitless
      BY RoundsTypes DEF Fruitless
    <2> QED BY <1>3, <2>1, <2>2, RoundsTypes
  <1> QED BY <1>1, <1>3, <1>4, KeepsMaterial, RoundsTypes

\* An answer proves that what was told was received.
LEMMA AnsweredKeepsInv ==
  ASSUME RoundsInv, NEW n \in 0..Parallel, NEW final \in BOOLEAN, Answered(n, final)
  PROVE  RoundsInv'
  <1>1. /\ context \in Context /\ received \subseteq told /\ told \subseteq Source \cup Hunk
        /\ saved.delivered \subseteq Hunk /\ saved.missing \subseteq Hunk
    BY RoundsTypes DEF RoundsInv, RoundsTypeOK
  <1>2. /\ received' = told /\ UNCHANGED <<role, told, count, late>>
        /\ step' \in {"tools", "finish", "prose"}
    BY DEF Answered
  <1>3. running' \in Round
    BY DEF Answered, Round
  <1>4. /\ context' \in Context
        /\ context'.visible = context.visible \cup context.pending
        /\ context'.pending = {} /\ context'.hunks = {}
        /\ context'.failures = context.failures
    BY <1>1 DEF Answered, Context
  <1>5. /\ saved' \in [delivered : SUBSET Hunk, missing : SUBSET Hunk, cited : SUBSET Source,
                       verdict : {"none", "insufficient", "refuted", "confirmed"},
                       decided : SUBSET Source]
        /\ saved'.delivered = saved.delivered \cup context.hunks
        /\ saved'.missing = (saved.missing \cup context.failures) \ context.hunks
        /\ saved'.cited = saved.cited /\ saved'.decided = saved.decided
    BY <1>1 DEF Answered, Context, RoundsInv, RoundsTypeOK
  <1>6. RoundsTypeOK'
    BY <1>1, <1>2, <1>3, <1>4, <1>5 DEF RoundsInv, RoundsTypeOK, Context, Round
  <1>7. MaterialInv'
    <2>1. context'.visible \subseteq received' /\ context'.pending \subseteq told'
      BY <1>1, <1>2, <1>4 DEF RoundsInv, MaterialInv
    <2>2. Whole(context'.hunks, told') /\ step' # "pack"
      BY <1>2, <1>4 DEF Whole
    <2>3. Hunk \subseteq context'.hunks \cup context'.failures \cup saved'.delivered
      BY <1>4, <1>5 DEF RoundsInv, MaterialInv
    <2> QED BY <2>1, <2>2, <2>3 DEF MaterialInv
  <1>8. CitedWasReceived' /\ MissingIsExplained'
    BY <1>1, <1>2, <1>5 DEF RoundsInv, MaterialInv, ReceivedMaterial, CitedWasReceived,
                            MissingIsExplained
  <1>9. DeliveredWasReceived'
    BY <1>1, <1>2, <1>5 DEF RoundsInv, MaterialInv, Whole, ReceivedMaterial, DeliveredWasReceived
  <1> QED BY <1>2, <1>3, <1>6, <1>7, <1>8, <1>9 DEF RoundsInv, ReceivedMaterial, CountInv,
             AgentIsBounded, StalledAgentEnds, ToolsWithinLimit

\* An answer with neither a tool nor a result is asked for once more.
LEMMA CorrectsKeepsInv ==
  ASSUME RoundsInv, Corrects
  PROVE  RoundsInv'
  <1>1. /\ step = "prose" /\ step' \in {"failed", "model"}
        /\ UNCHANGED <<role, told, received, context, running, saved, late>>
    BY DEF Corrects
  <1>2. /\ count' \in Count /\ count'.models = count.models /\ count'.ran = count.ran
        /\ count'.closing = count.closing /\ count'.tools = count.tools
    BY RoundsTypes DEF Corrects, Count
  <1> QED BY <1>1, <1>2, KeepsMaterial, RoundsTypes DEF Ending

\* A tool call is counted, and refused or begun.
LEMMA BeginsKeepsInv ==
  ASSUME RoundsInv, NEW call \in ToolCalls, Begins(call)
  PROVE  RoundsInv'
  <1>1. /\ step = "tools" /\ step' = step /\ running.left > 0
        /\ UNCHANGED <<role, told, received, context, saved, late>>
    BY DEF Begins
  <1>2. running.left - 1 \in 0..Parallel
    BY <1>1, RoundsTypes, RoundsAssumption
  <1>3. CASE \E news \in BOOLEAN : RefusesNoting(call, news)
    <2>1. PICK news \in BOOLEAN : RefusesNoting(call, news)
      BY <1>3
    <2>2. PICK noted \in Count : /\ noted = Noted(news)
                                 /\ noted.models = count.models /\ noted.tools = count.tools
                                 /\ noted.ran = count.ran /\ noted.closing = count.closing
      BY RoundsTypes, NotedCount
    <2>3. count' = [noted EXCEPT !.tools = @ + 1]
      BY <2>1, <2>2 DEF RefusesNoting
    <2>4. /\ count' \in Count /\ count'.models = count.models /\ count'.ran = count.ran
          /\ count'.closing = count.closing /\ count'.tools = count.tools + 1
      BY <2>2, <2>3 DEF Count
    <2>5. running' \in Round
      BY <1>2, <2>1, RoundsTypes DEF RefusesNoting, Round
    <2> QED BY <1>1, <2>4, <2>5, KeepsMaterial, RoundsTypes
  <1>4. CASE Refuses(call)
    <2>1. /\ count' \in Count /\ count'.models = count.models /\ count'.ran = count.ran
          /\ count'.closing = count.closing /\ count'.tools = count.tools + 1
      BY <1>4, RoundsTypes DEF Refuses, Count
    <2>2. running' \in Round
      BY <1>2, <1>4, RoundsTypes DEF Refuses, Round
    <2> QED BY <1>1, <2>1, <2>2, KeepsMaterial, RoundsTypes
  <1>5. CASE /\ ~(count.tools + 1 > MaxTools)
             /\ count' = [count EXCEPT !.tools = @ + 1, !.ran = @ + 1]
             /\ running' = [running EXCEPT !.begun = @ \cup {call}, !.left = @ - 1]
    <2>1. /\ count' \in Count /\ count'.models = count.models /\ count'.ran = count.ran + 1
          /\ count'.closing = count.closing /\ count'.tools = count.tools + 1
      <3>1. count.tools + 1 \in Nat /\ count.ran + 1 \in Nat
        BY RoundsTypes
      <3>2. count' = [count EXCEPT !.tools = count.tools + 1, !.ran = count.ran + 1]
        BY <1>5
      <3>3. count \in Count
        BY RoundsTypes
      <3> QED BY <3>1, <3>2, <3>3 DEF Count
    <2>2. running' \in Round
      <3> HIDE DEF ToolCalls
      <3> QED BY <1>2, <1>5, RoundsTypes DEF Round
    <2>3. count.ran + 1 <= MaxTools
      BY <1>5, RoundsTypes
    <2> QED BY <1>1, <2>1, <2>2, <2>3, KeepsMaterial, RoundsTypes
  <1> QED BY <1>3, <1>4, <1>5 DEF Begins

\* The calls of a round after one has returned.
LEMMA ReturnsRound ==
  ASSUME RoundsInv, NEW call, Returns(call)
  PROVE  running' \in Round
  <1> HIDE DEF ToolCalls
  <1> QED BY RoundsTypes DEF Returns, Round

\* Sources are staged; they cannot be cited before the next answer.
LEMMA ReadReturnsKeepsInv ==
  ASSUME RoundsInv, NEW call \in ToolCalls, ReadReturns(call)
  PROVE  RoundsInv'
  <1>1. /\ UNCHANGED <<role, step, received, saved, late>>
        /\ running' \in Round
    BY ReturnsRound DEF ReadReturns
  <1>2. context \in Context /\ told \subseteq Source \cup Hunk /\ received \subseteq told
    BY RoundsTypes DEF RoundsInv, RoundsTypeOK
  <1>3. \E news \in BOOLEAN : count' = Noted(news)
    BY DEF ReadReturns
  <1>4. /\ count' \in Count /\ count'.models = count.models /\ count'.ran = count.ran
        /\ count'.closing = count.closing /\ count'.tools = count.tools
    BY <1>3, RoundsTypes, NotedCount
  <1>5. CASE UNCHANGED <<context, told>>
    <2>1. step = "pack" => count'.models = 0
      BY <1>4 DEF RoundsInv, MaterialInv
    <2>2. step \in {"pack", "model", "await", "tools", "prose", "finish"} \cup Ending
      BY DEF RoundsInv, RoundsTypeOK
    <2> QED BY <1>1, <1>4, <1>5, <2>1, <2>2, KeepsMaterial, RoundsTypes
  <1>6. CASE /\ Stages(SourcesFor(call.of), {call.of} \cap Hunk)
             /\ told' = told \cup SourcesFor(call.of) \cup {call.of}
    <2> DEFINE m == call.of
    <2>1. m \in Source \cup Hunk
      BY DEF ReadReturns, ToolCalls
    <2>2. PICK sources : sources = SourcesFor(m)
      OBVIOUS
    <2>3. sources \subseteq Source /\ (m \in Hunk => sources = SourcesOf[m])
      BY <2>1, <2>2, SourcesOfMaterial
    <2>4. /\ context' = [context EXCEPT !.pending = @ \cup (sources \ context.visible),
                                        !.hunks = @ \cup ({m} \cap Hunk),
                                        !.known = @ \cup sources]
          /\ told' = told \cup sources \cup {m}
      BY <1>6, <2>2 DEF Stages
    <2> HIDE DEF m
    <2>5. /\ context' \in Context
          /\ context'.visible = context.visible
          /\ context'.pending = context.pending \cup (sources \ context.visible)
          /\ context'.hunks = context.hunks \cup ({m} \cap Hunk)
          /\ context'.failures = context.failures
      BY <1>2, <2>3, <2>4 DEF Context
    <2>6. told' \subseteq Source \cup Hunk /\ told \subseteq told'
      BY <1>2, <2>1, <2>3, <2>4
    <2>7. RoundsTypeOK'
      BY <1>1, <1>2, <1>4, <2>5, <2>6 DEF RoundsInv, RoundsTypeOK, Context, Count, Round
    <2>8. MaterialInv'
      <3>1. Whole(context'.hunks, told')
        BY <2>3, <2>4, <2>5, <2>6 DEF RoundsInv, MaterialInv, Whole
      <3>2. Hunk \subseteq context'.hunks \cup context'.failures \cup saved'.delivered
        BY <1>1, <2>5 DEF RoundsInv, MaterialInv
      <3> QED BY <1>1, <1>4, <2>4, <2>5, <3>1, <3>2 DEF RoundsInv, MaterialInv
    <2>9. ReceivedMaterial'
      BY <1>1, <1>4 DEF RoundsInv, ReceivedMaterial, CitedWasReceived, DeliveredWasReceived,
                        MissingIsExplained
    <2> QED BY <1>1, <1>4, <2>7, <2>8, <2>9 DEF RoundsInv, CountInv, AgentIsBounded,
               StalledAgentEnds, ToolsWithinLimit
  <1> QED BY <1>5, <1>6 DEF ReadReturns

\* A search brings news or none.
LEMMA SearchReturnsKeepsInv ==
  ASSUME RoundsInv, NEW call \in ToolCalls, SearchReturns(call)
  PROVE  RoundsInv'
  <1>1. /\ UNCHANGED <<role, step, told, received, context, saved, late>>
        /\ running' \in Round
    BY ReturnsRound DEF SearchReturns
  <1>2. \E news \in BOOLEAN : count' = Noted(news)
    BY DEF SearchReturns
  <1>3. /\ count' \in Count /\ count'.models = count.models /\ count'.ran = count.ran
        /\ count'.closing = count.closing /\ count'.tools = count.tools
    BY <1>2, RoundsTypes, NotedCount
  <1>4. step = "pack" => count'.models = 0
    BY <1>3 DEF RoundsInv, MaterialInv
  <1>5. step \in {"pack", "model", "await", "tools", "prose", "finish"} \cup Ending
    BY DEF RoundsInv, RoundsTypeOK
  <1> QED BY <1>1, <1>3, <1>4, <1>5, KeepsMaterial, RoundsTypes

\* A step that only writes what it cites, of what was visible.
LEMMA CitesKeepsInv ==
  ASSUME RoundsInv, UNCHANGED <<role, told, received, context, late>>,
         count' \in Count, count'.models = count.models, count'.ran = count.ran,
         count'.closing = count.closing, count'.tools = count.tools,
         running' \in Round, step' = step \/ step' = "completed",
         saved' \in [delivered : SUBSET Hunk, missing : SUBSET Hunk, cited : SUBSET Source,
                     verdict : {"none", "insufficient", "refuted", "confirmed"},
                     decided : SUBSET Source],
         saved'.delivered = saved.delivered, saved'.missing = saved.missing,
         saved'.cited \cup saved'.decided \subseteq
             saved.cited \cup saved.decided \cup context.visible
  PROVE  RoundsInv'
  <1>1. RoundsTypeOK'
    BY DEF RoundsInv, RoundsTypeOK, Count, Round, Ending
  <1>2. MaterialInv'
    BY DEF RoundsInv, MaterialInv, Whole
  <1>3. CitedWasReceived'
    BY DEF RoundsInv, MaterialInv, ReceivedMaterial, CitedWasReceived
  <1>4. DeliveredWasReceived' /\ MissingIsExplained'
    BY DEF RoundsInv, ReceivedMaterial, DeliveredWasReceived, MissingIsExplained
  <1> QED BY <1>1, <1>2, <1>3, <1>4, RoundsTypes
          DEF RoundsInv, ReceivedMaterial, CountInv, AgentIsBounded, StalledAgentEnds,
              ToolsWithinLimit

\* A candidate is handed in, citing what was received.
LEMMA SubmitReturnsKeepsInv ==
  ASSUME RoundsInv, NEW call \in ToolCalls, SubmitReturns(call)
  PROVE  RoundsInv'
  <1>1. /\ UNCHANGED <<role, step, told, received, context, late>>
        /\ running' \in Round
    BY ReturnsRound DEF SubmitReturns
  <1>2. /\ count' \in Count /\ count'.models = count.models /\ count'.ran = count.ran
        /\ count'.closing = count.closing /\ count'.tools = count.tools
    BY RoundsTypes, NotedCount DEF SubmitReturns
  <1>3. saved \in [delivered : SUBSET Hunk, missing : SUBSET Hunk, cited : SUBSET Source,
                   verdict : {"none", "insufficient", "refuted", "confirmed"},
                   decided : SUBSET Source]
    BY DEF RoundsInv, RoundsTypeOK
  <1>4. saved' = saved \/ /\ call.of \subseteq context.visible
                          /\ saved' = [saved EXCEPT !.cited = @ \cup call.of]
    BY DEF SubmitReturns, Resolves
  <1>5. context.visible \subseteq Source
    BY RoundsTypes DEF Context
  <1> HIDE DEF SubmitReturns, ToolCalls
  <1>6. /\ saved' \in [delivered : SUBSET Hunk, missing : SUBSET Hunk, cited : SUBSET Source,
                       verdict : {"none", "insufficient", "refuted", "confirmed"},
                       decided : SUBSET Source]
        /\ saved'.delivered = saved.delivered /\ saved'.missing = saved.missing
        /\ saved'.cited \cup saved'.decided \subseteq
               saved.cited \cup saved.decided \cup context.visible
    BY <1>3, <1>4, <1>5
  <1> QED BY <1>1, <1>2, <1>6, CitesKeepsInv

\* A round ends when all its calls have returned.
LEMMA RoundEndsKeepsInv ==
  ASSUME RoundsInv, RoundEnds
  PROVE  RoundsInv'
  <1>1. /\ step = "tools" /\ step' \in {"finish", "model"}
        /\ UNCHANGED <<role, told, received, context, count, running, saved, late>>
    BY DEF RoundEnds
  <1> QED BY <1>1, KeepsMaterial, RoundsTypes

\* A verdict cites what was received, or the attempt fails.
LEMMA ConcludesKeepsInv ==
  ASSUME RoundsInv, NEW verdict \in {"insufficient", "refuted", "confirmed"},
         NEW sources \in SUBSET Source, Concludes(verdict, sources)
  PROVE  RoundsInv'
  <1>1. UNCHANGED <<role, told, received, context, count, running, late>>
    BY DEF Concludes
  <1>2. CASE step' = "failed" /\ UNCHANGED saved
    <2>1. AttemptEnds("failed") /\ "failed" \in Ending
      BY <1>1, <1>2 DEF AttemptEnds, Ending
    <2> QED BY <2>1, EndKeepsInv
  <1>3. CASE step' = "completed" /\ UNCHANGED saved
    <2>1. AttemptEnds("completed") /\ "completed" \in Ending
      BY <1>1, <1>3 DEF AttemptEnds, Ending
    <2> QED BY <2>1, EndKeepsInv
  <1>4. CASE /\ step' = "completed" /\ Resolves(sources)
             /\ saved' = [saved EXCEPT !.decided = sources,
                             !.verdict = IF sources = {} THEN "insufficient" ELSE verdict]
    <2>1. saved \in [delivered : SUBSET Hunk, missing : SUBSET Hunk, cited : SUBSET Source,
                     verdict : {"none", "insufficient", "refuted", "confirmed"},
                     decided : SUBSET Source]
      BY DEF RoundsInv, RoundsTypeOK
    <2>2. /\ saved' \in [delivered : SUBSET Hunk, missing : SUBSET Hunk, cited : SUBSET Source,
                         verdict : {"none", "insufficient", "refuted", "confirmed"},
                         decided : SUBSET Source]
          /\ saved'.delivered = saved.delivered /\ saved'.missing = saved.missing
          /\ saved'.cited = saved.cited /\ saved'.decided = sources
      BY <1>4, <2>1
    <2>3. sources \subseteq context.visible
      BY <1>4 DEF Resolves
    <2> QED BY <1>1, <1>4, <2>2, <2>3, RoundsTypes, CitesKeepsInv
  <1> QED BY <1>2, <1>3, <1>4 DEF Concludes

-----------------------------------------------------------------------------
(* AgentRounds: the theorems *)

\* Nothing was asked yet, so nothing can be wrong.
LEMMA RoundsInitInv == RoundsInit => RoundsInv
  <1> SUFFICES ASSUME RoundsInit PROVE RoundsInv
    OBVIOUS
  <1>1. /\ context \in Context /\ context.visible = {} /\ context.pending = {}
        /\ context.hunks = {} /\ context.failures = Hunk
    BY RoundsAssumption DEF RoundsInit, Context
  <1>2. /\ count \in Count /\ count.models = 0 /\ count.ran = 0 /\ count.tools = 0
        /\ count.closing = 0
    BY RoundsAssumption DEF RoundsInit, Count
  <1>3. /\ saved \in [delivered : SUBSET Hunk, missing : SUBSET Hunk, cited : SUBSET Source,
                      verdict : {"none", "insufficient", "refuted", "confirmed"},
                      decided : SUBSET Source]
        /\ saved.delivered = {} /\ saved.cited = {} /\ saved.decided = {}
    BY DEF RoundsInit
  <1>4. running \in Round
    BY RoundsAssumption DEF RoundsInit, Round
  <1>5. RoundsTypeOK
    BY <1>1, <1>2, <1>3, <1>4 DEF RoundsTypeOK, RoundsInit, Context, Count, Round
  <1>6. MaterialInv /\ ReceivedMaterial
    BY <1>1, <1>2, <1>3 DEF RoundsInit, MaterialInv, Whole, ReceivedMaterial, CitedWasReceived,
       DeliveredWasReceived, MissingIsExplained
  <1>7. CountInv /\ AgentIsBounded
    BY <1>2, RoundsAssumption DEF RoundsInit, CountInv, AgentIsBounded, StalledAgentEnds,
       ToolsWithinLimit
  <1> QED BY <1>4, <1>5, <1>6, <1>7 DEF RoundsInv, RoundsInit

\* Every step of an attempt, and every stutter, keeps the invariant.
LEMMA RoundsNextKeepsInv == RoundsInv /\ [RoundsNext]_roundVars => RoundsInv'
  <1> SUFFICES ASSUME RoundsInv, [RoundsNext]_roundVars PROVE RoundsInv'
    OBVIOUS
  <1>1. ASSUME NEW how \in Ending, AttemptEnds(how) PROVE RoundsInv'
    BY <1>1, EndKeepsInv
  <1>2. CASE PackTooLarge \/ NoProgress \/ Refused \/ AnsweredTooLate \/ ConcludesTooLate
             \/ Stops \/ Breaks
    <2>1. "interrupted" \in Ending /\ "stopped" \in Ending /\ "failed" \in Ending
      BY DEF Ending
    <2> QED BY <1>1, <1>2, <2>1 DEF PackTooLarge, NoProgress, Refused, AnsweredTooLate,
               ConcludesTooLate, Stops, Breaks
  <1>3. CASE UNCHANGED roundVars
    BY <1>3 DEF roundVars, RoundsInv, RoundsTypeOK, MaterialInv, Whole, ReceivedMaterial,
       CitedWasReceived, DeliveredWasReceived, MissingIsExplained, CountInv, AgentIsBounded,
       StalledAgentEnds, ToolsWithinLimit, Round
  <1> QED BY <1>2, <1>3, PacksKeepsInv, PackedKeepsInv, RequestKeepsInv, AnsweredKeepsInv,
             CorrectsKeepsInv, BeginsKeepsInv, ReadReturnsKeepsInv, SearchReturnsKeepsInv,
             SubmitReturnsKeepsInv, RoundEndsKeepsInv, ConcludesKeepsInv DEF RoundsNext

\* The invariant of an attempt, for any material, limits and answers.
THEOREM RoundsInvariance == RoundsSpec => []RoundsInv
  <1> QED BY RoundsInitInv, RoundsNextKeepsInv, PTL DEF RoundsSpec

\* What is saved of an attempt rests on what the model provably had, and no
\* required hunk gets lost without a trace.
THEOREM SavedMaterialWasReceived == RoundsSpec => []ReceivedMaterial
  <1>1. RoundsInv => ReceivedMaterial
    BY DEF RoundsInv
  <1> QED BY <1>1, RoundsInvariance, PTL

\* Whatever its model answers, an attempt makes no more than two requests once
\* it has stalled, and never runs more tools than its limit, side by side even.
THEOREM AgentsAreBounded == RoundsSpec => []AgentIsBounded
  <1>1. RoundsInv => AgentIsBounded
    BY DEF RoundsInv
  <1> QED BY <1>1, RoundsInvariance, PTL

-----------------------------------------------------------------------------
(* ParserPool: the inductive invariant *)

PoolPc == {"rest", "load", "slot", "pop", "spawn", "register", "wait", "keep", "close", "decide"}
CallRow == [pc : PoolPc, input : Input \cup {Nothing}, try : 1..2, worker : Process \cup {Nothing},
            gen : Nat, verdict : TryEnd, known : BOOLEAN, late : BOOLEAN, cancelled : BOOLEAN]
ProcessRow == [alive : BOOLEAN, owes : BOOLEAN, served : Nat]

PoolTypes ==
    /\ caller \in [Caller -> CallRow] /\ process \in [Process -> ProcessRow]
    /\ idle \in Seq(Process) /\ registered \subseteq Process /\ doomed \subseteq Process
    /\ generation \in Nat

\* Threads that use a worker or will register one.
Seated ==
    {c \in Caller : \/ caller[c].pc \in {"spawn", "register", "wait"}
                    \/ caller[c].pc = "keep" /\ caller[c].worker # Nothing}

\* What a thread may say of the worker it holds.
HandOK(c) ==
    LET t == caller[c]
        p == t.worker
    IN  /\ p # Nothing => t.pc \in {"register", "wait", "keep", "close"}
        /\ t.pc \in {"register", "wait", "close"} => p # Nothing
        /\ t.gen <= generation
        /\ t.pc \in {"wait", "keep"} /\ p # Nothing /\ t.gen = generation => p \in registered
        /\ p \in registered => t.pc \in {"wait", "keep"}
        /\ t.pc = "register" \/ (t.pc = "wait" /\ t.try = 2) => process[p].served = 0
        /\ t.pc = "keep" /\ p # Nothing /\ t.verdict = "good" => ~process[p].owes

\* A slot for every worker in use or to come, and for every idle one.
SeatsInv ==
    /\ IsFiniteSet(Users) /\ Cardinality(Users) <= Slots
    /\ Cardinality(ToSet(idle)) + Cardinality(Seated) <= Slots

\* What is registered is idle or in somebody's hands.
RegisterInv == registered \subseteq ToSet(idle) \cup Held

PoolInv ==
    /\ PoolTypes /\ SeatsInv /\ RegisterInv /\ NoOrphans /\ IdleAreFree
    /\ \A c \in Caller : HandOK(c)

-----------------------------------------------------------------------------
(* ParserPool: the stack and the slots *)

\* Nothing is not a process.
LEMMA NothingIsNoProcess == Nothing \notin Process
  BY PoolAssumption DEF Process

\* Taking the latest idle worker.
LEMMA PopIs ==
  ASSUME NEW s \in Seq(Process), s # <<>>, IsInjective(s)
  PROVE  /\ Last(s) \in Process /\ Last(s) \in ToSet(s)
         /\ Front(s) \in Seq(Process) /\ IsInjective(Front(s))
         /\ ToSet(Front(s)) = ToSet(s) \ {Last(s)}
  <1>1. Len(s) \in Nat \ {0} /\ DOMAIN s = 1 .. Len(s) /\ \A i \in 1 .. Len(s) : s[i] \in Process
    OBVIOUS
  <1>2. /\ Front(s) \in Seq(Process) /\ DOMAIN Front(s) = 1 .. Len(s) - 1
        /\ \A i \in 1 .. Len(s) - 1 : Front(s)[i] = s[i]
    BY <1>1 DEF Front
  <1>3. Last(s) \in Process /\ Last(s) \in ToSet(s)
    BY <1>1 DEF Last, ToSet
  <1>4. IsInjective(Front(s))
    BY <1>1, <1>2 DEF IsInjective
  <1>5. ToSet(Front(s)) = ToSet(s) \ {Last(s)}
    BY <1>1, <1>2 DEF ToSet, Last, IsInjective
  <1> QED BY <1>2, <1>3, <1>4, <1>5

\* Giving a worker back.
LEMMA PushIs ==
  ASSUME NEW s \in Seq(Process), IsInjective(s), NEW p \in Process, p \notin ToSet(s)
  PROVE  /\ Append(s, p) \in Seq(Process) /\ IsInjective(Append(s, p))
         /\ ToSet(Append(s, p)) = ToSet(s) \cup {p}
  <1>1. Len(s) \in Nat /\ DOMAIN s = 1 .. Len(s)
    OBVIOUS
  <1>2. /\ Append(s, p) \in Seq(Process) /\ DOMAIN Append(s, p) = 1 .. Len(s) + 1
        /\ \A i \in 1 .. Len(s) : Append(s, p)[i] = s[i]
        /\ Append(s, p)[Len(s) + 1] = p
    BY <1>1
  <1>3. IsInjective(Append(s, p))
    BY <1>1, <1>2 DEF IsInjective, ToSet
  <1>4. ToSet(Append(s, p)) = ToSet(s) \cup {p}
    BY <1>1, <1>2 DEF ToSet
  <1> QED BY <1>2, <1>3, <1>4

\* The sets that are counted.
LEMMA SetsAreFinite ==
  ASSUME PoolInv
  PROVE  /\ IsFiniteSet(ToSet(idle)) /\ ToSet(idle) \subseteq Process
         /\ IsFiniteSet(Seated) /\ Seated \subseteq Users
         /\ Cardinality(ToSet(idle)) \in Nat /\ Cardinality(Seated) \in Nat
         /\ Cardinality(Users) \in Nat /\ Cardinality(Seated) <= Cardinality(Users)
  <1>1. ToSet(idle) \subseteq Process
    BY DEF PoolInv, PoolTypes, ToSet
  <1>2. IsFiniteSet(Process)
    BY PoolAssumption, FS_Interval DEF Process
  <1>3. IsFiniteSet(ToSet(idle))
    BY <1>1, <1>2, FS_Subset
  <1>4. Seated \subseteq Users
    BY DEF Seated, Users, InSlot
  <1>5. IsFiniteSet(Users)
    BY DEF PoolInv, SeatsInv
  <1>6. IsFiniteSet(Seated) /\ Cardinality(Seated) <= Cardinality(Users)
    BY <1>4, <1>5, FS_Subset
  <1> QED BY <1>1, <1>3, <1>4, <1>5, <1>6, FS_CardinalityType

-----------------------------------------------------------------------------
(* ParserPool: steps *)

\* A step of thread c that touches worker p at most, p being the one it holds,
\* or takes, or none.
LEMMA HandMoves ==
  ASSUME PoolInv, NEW c \in Caller, NEW h \in CallRow, NEW p \in Process \cup {Nothing},
         caller' = [caller EXCEPT ![c] = h],
         caller[c].worker \in {Nothing, p}, h.worker \in {Nothing, p},
         \A d \in Caller \ {c} : p # Nothing => caller[d].worker # p,
         process' \in [Process -> ProcessRow],
         \A q \in Process \ {p} : process'[q] = process[q],
         idle' \in Seq(Process), IsInjective(idle'),
         ToSet(idle') \ {p} = ToSet(idle) \ {p},
         registered' \subseteq Process, registered' \ {p} = registered \ {p},
         UNCHANGED <<doomed, generation>>,
         p \in ToSet(idle') => p \in registered' /\ h.worker # p /\ ~process'[p].owes,
         p \in registered' => p \in ToSet(idle') \/ h.worker = p,
         p # Nothing /\ process'[p].alive => p \in registered' \cup doomed \/ h.worker = p,
         HandOK(c)', SeatsInv'
  PROVE  PoolInv'
  <1>1. PoolTypes' /\ PoolTypes
    BY DEF PoolInv, PoolTypes
  <1>2. caller'[c] = h /\ \A d \in Caller \ {c} : caller'[d] = caller[d]
    BY <1>1 DEF PoolTypes
  <1>3. Nothing \notin Process
    BY NothingIsNoProcess
  <1>4. \A q \in Process \ {p} : q \in Held' <=> q \in Held
    BY <1>2, <1>3 DEF Held, Holds
  <1>5. p \in Process => (p \in Held' <=> h.worker = p)
    BY <1>2, <1>3 DEF Held, Holds
  <1>6. ToSet(idle) \subseteq Process /\ ToSet(idle') \subseteq Process
    BY <1>1 DEF PoolTypes, ToSet
  <1>7. RegisterInv'
    BY <1>1, <1>3, <1>4, <1>5, <1>6 DEF PoolInv, RegisterInv, PoolTypes
  <1>8. NoOrphans'
    BY <1>1, <1>3, <1>4, <1>5 DEF PoolInv, NoOrphans
  <1>9. IdleAreFree'
    <2>1. ToSet(idle') \subseteq registered' \ Held'
      BY <1>3, <1>4, <1>5, <1>6 DEF PoolInv, IdleAreFree
    <2>2. \A q \in ToSet(idle') : ~process'[q].owes
      BY <1>3, <1>6 DEF PoolInv, IdleAreFree
    <2>3. \A d, e \in Caller : caller'[d].worker = caller'[e].worker /\ d # e
                               => caller'[d].worker = Nothing
      BY <1>2 DEF PoolInv, IdleAreFree
    <2> QED BY <2>1, <2>2, <2>3 DEF IdleAreFree
  <1>10. ASSUME NEW d \in Caller \ {c}
         PROVE  HandOK(d)'
    <2>1. caller'[d] = caller[d] /\ caller[d] \in CallRow /\ HandOK(d)
      BY <1>1, <1>2 DEF PoolInv, PoolTypes
    <2>2. CASE caller[d].worker = Nothing
      BY <1>1, <1>3, <2>1, <2>2 DEF HandOK, PoolTypes
    <2>3. CASE caller[d].worker # Nothing
      <3>1. caller[d].worker \in Process \ {p}
        BY <2>1, <2>3 DEF CallRow
      <3> QED BY <2>1, <2>3, <3>1 DEF HandOK
    <2> QED BY <2>2, <2>3
  <1> QED BY <1>1, <1>7, <1>8, <1>9, <1>10 DEF PoolInv

\* A step of thread c that does not touch workers.
LEMMA CallerMoves ==
  ASSUME PoolInv, NEW c \in Caller, NEW h \in CallRow, caller' = [caller EXCEPT ![c] = h],
         h.worker = caller[c].worker, UNCHANGED process, Pool, HandOK(c)',
         c \in Seated' => c \in Seated,
         c \in Users' => c \in Users \/ Cardinality(Users) < Slots
  PROVE  PoolInv'
  <1>1. /\ PoolTypes /\ UNCHANGED <<idle, registered, generation, doomed, process>>
        /\ h.worker \in Process \cup {Nothing}
    BY DEF PoolInv, Pool, CallRow
  <1>2. caller'[c] = h /\ \A d \in Caller \ {c} : caller'[d] = caller[d]
    BY <1>1 DEF PoolTypes
  <1>3. Seated' \subseteq Seated
    BY <1>2 DEF Seated
  <1>4. Users' \subseteq Users \/ (Users' \subseteq Users \cup {c} /\ Cardinality(Users) < Slots)
    BY <1>2 DEF Users
  <1>5. SeatsInv'
    <2>1. IsFiniteSet(Seated') /\ Cardinality(Seated') <= Cardinality(Seated)
      BY <1>3, SetsAreFinite, FS_Subset
    <2>2. Cardinality(Seated') \in Nat
      BY <2>1, FS_CardinalityType
    <2>3. /\ IsFiniteSet(Users \cup {c})
          /\ Cardinality(Users \cup {c}) \in {Cardinality(Users), Cardinality(Users) + 1}
      BY SetsAreFinite, FS_AddElement DEF PoolInv, SeatsInv
    <2>4. IsFiniteSet(Users') /\ Cardinality(Users') <= Slots
      <3>1. CASE Users' \subseteq Users
        <4>1. IsFiniteSet(Users') /\ Cardinality(Users') <= Cardinality(Users)
          BY <3>1, FS_Subset DEF PoolInv, SeatsInv
        <4> QED BY <4>1, SetsAreFinite, FS_CardinalityType, PoolAssumption DEF PoolInv, SeatsInv
      <3>2. CASE Users' \subseteq Users \cup {c} /\ Cardinality(Users) < Slots
        <4>1. IsFiniteSet(Users') /\ Cardinality(Users') <= Cardinality(Users \cup {c})
          BY <3>2, <2>3, FS_Subset
        <4>2. Cardinality(Users') \in Nat
          BY <4>1, FS_CardinalityType
        <4> QED BY <2>3, <3>2, <4>1, <4>2, SetsAreFinite, PoolAssumption
      <3> QED BY <1>4, <3>1, <3>2
    <2> QED BY <1>1, <2>1, <2>2, <2>4, SetsAreFinite, PoolAssumption DEF PoolInv, SeatsInv
  <1>6. PICK p \in Process \cup {Nothing} : p = h.worker
    BY <1>1
  <1>7. \A d \in Caller \ {c} : p # Nothing => caller[d].worker # p
    BY <1>6 DEF PoolInv, IdleAreFree
  <1>8. p \in Process => (p \in Held <=> h.worker = p)
    BY <1>6 DEF Held, Holds
  <1>9. /\ p \in ToSet(idle) => p \in registered /\ h.worker # p /\ ~process[p].owes
        /\ p \in registered => p \in ToSet(idle) \/ h.worker = p
        /\ p # Nothing /\ process[p].alive => p \in registered \cup doomed \/ h.worker = p
    BY <1>1, <1>6, <1>8, SetsAreFinite DEF PoolInv, IdleAreFree, RegisterInv, NoOrphans, PoolTypes
  <1>10. /\ process' \in [Process -> ProcessRow] /\ idle' \in Seq(Process) /\ IsInjective(idle')
         /\ registered' \subseteq Process
    BY <1>1 DEF PoolInv, PoolTypes, IdleAreFree
  <1> QED BY <1>1, <1>5, <1>6, <1>7, <1>9, <1>10, HandMoves

\* What a thread remembers when it goes on, gives up, or begins anew.
LEMMA RowAfter ==
  ASSUME PoolInv, NEW c \in Caller, NEW pc \in PoolPc, NEW verdict \in TryEnd
  PROVE  /\ Goes(c, pc) => \E h \in CallRow :
              /\ caller' = [caller EXCEPT ![c] = h] /\ caller'[c] = h /\ h.pc = pc
              /\ h.worker = caller[c].worker /\ h.gen = caller[c].gen /\ h.try = caller[c].try
              /\ h.verdict = caller[c].verdict
         /\ GivesUp(c, pc, verdict) => \E h \in CallRow :
              /\ caller' = [caller EXCEPT ![c] = h] /\ caller'[c] = h /\ h.pc = pc
              /\ h.worker = caller[c].worker /\ h.gen = caller[c].gen /\ h.try = caller[c].try
              /\ h.verdict = verdict
         /\ Rests(c) => \E h \in CallRow :
              /\ caller' = [caller EXCEPT ![c] = h] /\ caller'[c] = h /\ h.pc = "rest"
              /\ h.worker = Nothing /\ h.gen = 0
  <1>1. caller \in [Caller -> CallRow] /\ caller[c] \in CallRow
    BY DEF PoolInv, PoolTypes
  <1>2. ASSUME Goes(c, pc)
        PROVE  \E h \in CallRow :
              /\ caller' = [caller EXCEPT ![c] = h] /\ caller'[c] = h /\ h.pc = pc
              /\ h.worker = caller[c].worker /\ h.gen = caller[c].gen /\ h.try = caller[c].try
              /\ h.verdict = caller[c].verdict
    <2> DEFINE h == [caller[c] EXCEPT !.pc = pc]
    <2>1. /\ h \in CallRow /\ h.pc = pc
          /\ h.worker = caller[c].worker /\ h.gen = caller[c].gen /\ h.try = caller[c].try
          /\ h.verdict = caller[c].verdict
      BY <1>1 DEF CallRow
    <2>2. caller' = [caller EXCEPT ![c] = h] /\ caller'[c] = h
      BY <1>1, <1>2 DEF Goes
    <2> QED BY <2>1, <2>2
  <1>3. ASSUME GivesUp(c, pc, verdict)
        PROVE  \E h \in CallRow :
              /\ caller' = [caller EXCEPT ![c] = h] /\ caller'[c] = h /\ h.pc = pc
              /\ h.worker = caller[c].worker /\ h.gen = caller[c].gen /\ h.try = caller[c].try
              /\ h.verdict = verdict
    <2> DEFINE h == [caller[c] EXCEPT !.pc = pc, !.verdict = verdict]
    <2>1. /\ h \in CallRow /\ h.pc = pc
          /\ h.worker = caller[c].worker /\ h.gen = caller[c].gen /\ h.try = caller[c].try
          /\ h.verdict = verdict
      BY <1>1 DEF CallRow
    <2>2. caller' = [caller EXCEPT ![c] = h] /\ caller'[c] = h
      BY <1>1, <1>3 DEF GivesUp
    <2> QED BY <2>1, <2>2
  <1>4. ASSUME Rests(c)
        PROVE  \E h \in CallRow :
              /\ caller' = [caller EXCEPT ![c] = h] /\ caller'[c] = h /\ h.pc = "rest"
              /\ h.worker = Nothing /\ h.gen = 0
    <2>1. Resting \in CallRow /\ Resting.pc = "rest" /\ Resting.worker = Nothing /\ Resting.gen = 0
      BY DEF Resting, CallRow, PoolPc, TryEnd
    <2>2. caller' = [caller EXCEPT ![c] = Resting] /\ caller'[c] = Resting
      BY <1>1, <1>4 DEF Rests
    <2> QED BY <2>1, <2>2
  <1> QED BY <1>2, <1>3, <1>4

\* Without a worker there is nothing to say.
LEMMA EmptyHandIsOK ==
  ASSUME PoolInv, NEW c \in Caller, NEW h \in CallRow, caller'[c] = h, h.worker = Nothing,
         h.pc \notin {"register", "wait", "close"}, h.gen <= generation',
         registered' \subseteq Process
  PROVE  HandOK(c)'
  BY NothingIsNoProcess DEF HandOK

\* A call begins, is looked up, decided, cancelled, or runs out of time.
LEMMA BooksKeepInv ==
  ASSUME PoolInv, NEW c \in Caller,
         \/ \E i \in Input : Analyze(c, i)
         \/ Load(c) \/ Decide(c)
  PROVE  PoolInv'
  <1>1. /\ HandOK(c) /\ caller \in [Caller -> CallRow] /\ caller[c] \in CallRow
        /\ generation \in Nat /\ Pool /\ UNCHANGED process
        /\ caller[c].pc \in {"rest", "load", "decide"} /\ registered' \subseteq Process
    BY DEF PoolInv, PoolTypes, Analyze, Load, Decide, AtStep, Pool
  <1>2. caller[c].worker = Nothing
    BY <1>1 DEF HandOK
  <1>3. PICK h \in CallRow :
           /\ caller' = [caller EXCEPT ![c] = h] /\ caller'[c] = h
           /\ h.pc \in {"rest", "load", "slot"} /\ h.worker = Nothing
           /\ h.gen = 0 \/ h.gen = caller[c].gen
    <2>1. CASE Rests(c)
      <3>1. "rest" \in PoolPc /\ "none" \in TryEnd
        BY DEF PoolPc, TryEnd
      <3> QED BY <2>1, <3>1, RowAfter
    <2>2. ASSUME NEW i \in Input, Analyze(c, i)
          PROVE  \E h \in CallRow :
           /\ caller' = [caller EXCEPT ![c] = h] /\ caller'[c] = h
           /\ h.pc \in {"rest", "load", "slot"} /\ h.worker = Nothing
           /\ h.gen = 0 \/ h.gen = caller[c].gen
      <3> DEFINE h == [Resting EXCEPT !.pc = "load", !.input = i]
      <3>0. "load" \in PoolPc /\ "none" \in TryEnd
        BY DEF PoolPc, TryEnd
      <3>9. /\ Resting \in CallRow /\ Resting.worker = Nothing /\ Resting.gen = 0
        BY DEF Resting, CallRow, PoolPc, TryEnd
      <3>1. h \in CallRow /\ h.pc = "load" /\ h.worker = Nothing /\ h.gen = 0
        BY <3>0, <3>9 DEF CallRow
      <3>2. caller' = [caller EXCEPT ![c] = h] /\ caller'[c] = h
        BY <1>1, <2>2 DEF Analyze
      <3> QED BY <3>1, <3>2
    <2>3. CASE Load(c) /\ ~Rests(c)
      <3>1. PICK k \in BOOLEAN : k = (failure[caller[c].input] = "cooled")
        OBVIOUS
      <3> DEFINE h == [caller[c] EXCEPT !.pc = "slot", !.known = k]
      <3>2. h \in CallRow /\ h.pc = "slot" /\ h.worker = Nothing /\ h.gen = caller[c].gen
        BY <1>1, <1>2 DEF CallRow, PoolPc
      <3>3. caller' = [caller EXCEPT ![c] = h] /\ caller'[c] = h
        BY <1>1, <2>3, <3>1 DEF Load
      <3> QED BY <3>2, <3>3
    <2>4. CASE Decide(c) /\ ~Rests(c)
      <3> DEFINE h == [caller[c] EXCEPT !.pc = "slot", !.try = 2, !.verdict = "none"]
      <3>1. "slot" \in PoolPc /\ "none" \in TryEnd
        BY DEF PoolPc, TryEnd
      <3>2. h \in CallRow /\ h.pc = "slot" /\ h.worker = Nothing /\ h.gen = caller[c].gen
        <4>1. PICK g \in CallRow : g = caller[c]
          BY <1>1
        <4>2. 2 \in 1 .. 2
          OBVIOUS
        <4> QED BY <1>2, <3>1, <4>1, <4>2 DEF CallRow
      <3>3. caller' = [caller EXCEPT ![c] = h] /\ caller'[c] = h
        BY <1>1, <2>4 DEF Decide
      <3> QED BY <3>2, <3>3
    <2> QED BY <2>1, <2>2, <2>3, <2>4
  <1>4. h.gen <= generation'
    BY <1>1, <1>3 DEF HandOK, Pool, CallRow
  <1>5. HandOK(c)'
    BY <1>1, <1>3, <1>4, EmptyHandIsOK
  <1>6. c \notin Seated' /\ c \notin Users'
    BY <1>3 DEF Seated, Users, InSlot
  <1> QED BY <1>1, <1>2, <1>3, <1>5, <1>6, CallerMoves

\* A call is cancelled, or runs out of time; this changes nothing at once.
LEMMA FlagsKeepInv ==
  ASSUME PoolInv, NEW c \in Caller, Cancel(c) \/ DeadlinePasses(c)
  PROVE  PoolInv'
  <1>1. /\ HandOK(c) /\ caller \in [Caller -> CallRow] /\ caller[c] \in CallRow
        /\ Pool /\ UNCHANGED process
    BY DEF PoolInv, PoolTypes, Cancel, DeadlinePasses
  <1>2. PICK h \in CallRow :
           /\ caller' = [caller EXCEPT ![c] = h] /\ caller'[c] = h /\ h.pc = caller[c].pc
           /\ h.worker = caller[c].worker /\ h.gen = caller[c].gen /\ h.try = caller[c].try
           /\ h.verdict = caller[c].verdict
    <2>1. CASE Cancel(c)
      <3> DEFINE h == [caller[c] EXCEPT !.cancelled = TRUE]
      <3>1. /\ h \in CallRow /\ h.pc = caller[c].pc
            /\ h.worker = caller[c].worker /\ h.gen = caller[c].gen /\ h.try = caller[c].try
            /\ h.verdict = caller[c].verdict
        BY <1>1 DEF CallRow
      <3>2. caller' = [caller EXCEPT ![c] = h] /\ caller'[c] = h
        BY <1>1, <2>1 DEF Cancel
      <3> QED BY <3>1, <3>2
    <2>2. CASE DeadlinePasses(c)
      <3> DEFINE h == [caller[c] EXCEPT !.late = TRUE]
      <3>1. /\ h \in CallRow /\ h.pc = caller[c].pc
            /\ h.worker = caller[c].worker /\ h.gen = caller[c].gen /\ h.try = caller[c].try
            /\ h.verdict = caller[c].verdict
        BY <1>1 DEF CallRow
      <3>2. caller' = [caller EXCEPT ![c] = h] /\ caller'[c] = h
        BY <1>1, <2>2 DEF DeadlinePasses
      <3> QED BY <3>1, <3>2
    <2> QED BY <2>1, <2>2
  <1>3. HandOK(c)'
    BY <1>1, <1>2 DEF HandOK, Pool
  <1>4. (c \in Seated' => c \in Seated) /\ (c \in Users' => c \in Users)
    BY <1>2 DEF Seated, Users
  <1> QED BY <1>1, <1>2, <1>3, <1>4, CallerMoves

\* Taking a slot, failing to start a worker, or giving up waiting.
LEMMA GivingUpKeepsInv ==
  ASSUME PoolInv, NEW c \in Caller,
         NEW pc \in {"pop", "keep", "decide"}, NEW verdict \in TryEnd,
         Goes(c, pc) \/ GivesUp(c, pc, verdict), UNCHANGED process, Pool,
         \/ caller[c].pc = "slot" /\ pc = "decide"
         \/ caller[c].pc = "slot" /\ pc = "pop" /\ Cardinality(Users) < Slots
         \/ caller[c].pc \in {"pop", "spawn"} /\ pc = "keep"
         \/ caller[c].pc = "wait" /\ pc = "keep" /\ verdict # "good" /\ GivesUp(c, pc, verdict)
         \/ caller[c].pc = "keep" /\ caller[c].worker = Nothing /\ pc = "decide"
  PROVE  PoolInv'
  <1>1. HandOK(c) /\ caller[c] \in CallRow /\ PoolTypes
    BY DEF PoolInv, PoolTypes
  <1>2. pc \in PoolPc
    BY DEF PoolPc
  <1>3. PICK h \in CallRow :
           /\ caller' = [caller EXCEPT ![c] = h] /\ caller'[c] = h /\ h.pc = pc
           /\ h.worker = caller[c].worker /\ h.gen = caller[c].gen /\ h.try = caller[c].try
           /\ GivesUp(c, pc, verdict) => h.verdict = verdict
    <2>1. CASE GivesUp(c, pc, verdict)
      BY <1>2, <2>1, RowAfter
    <2>2. CASE ~GivesUp(c, pc, verdict)
      BY <1>2, <2>2, RowAfter
    <2> QED BY <2>1, <2>2
  <1>4. HandOK(c)'
    BY <1>1, <1>3, NothingIsNoProcess DEF HandOK, Pool, PoolTypes
  <1>5. (c \in Seated' => c \in Seated) /\ (c \in Users' => c \in Users \/ Cardinality(Users) < Slots)
    BY <1>1, <1>3 DEF Seated, Users, InSlot, HandOK
  <1> QED BY <1>3, <1>4, <1>5, CallerMoves

\* How an interruption ends a try.
LEMMA InterruptionIs ==
  ASSUME NEW c \in Caller
  PROVE  Interruption(c) \in {"none", "cancelled", "failed"} /\ Interruption(c) \in TryEnd
  BY DEF Interruption, TryEnd

\* The slot is taken, or the call is over before it got one.
LEMMA SlotKeepsInv ==
  ASSUME PoolInv, NEW c \in Caller, AcquireSlot(c)
  PROVE  PoolInv'
  <1>1. PICK v \in TryEnd : v = Interruption(c)
    BY InterruptionIs
  <1>2. CASE v # "none"
    <2>1. GivesUp(c, "decide", v) /\ caller[c].pc = "slot" /\ UNCHANGED process /\ Pool
      BY <1>1, <1>2 DEF AcquireSlot, AtStep
    <2> QED BY <2>1, GivingUpKeepsInv
  <1>3. CASE v = "none"
    <2>1. /\ Goes(c, "pop") /\ caller[c].pc = "slot" /\ UNCHANGED process /\ Pool
          /\ Cardinality(Users) < Slots
      BY <1>1, <1>3 DEF AcquireSlot, AtStep
    <2> QED BY <1>1, <2>1, GivingUpKeepsInv
  <1> QED BY <1>2, <1>3

\* Nobody waits for a worker that does not answer.
LEMMA PollKeepsInv ==
  ASSUME PoolInv, NEW c \in Caller, Poll(c)
  PROVE  PoolInv'
  <1>1. PICK v \in TryEnd : v = (IF Interruption(c) # "none" THEN Interruption(c) ELSE "failed")
    BY InterruptionIs DEF TryEnd
  <1>2. /\ GivesUp(c, "keep", v) /\ v # "good" /\ caller[c].pc = "wait"
        /\ UNCHANGED process /\ Pool
    BY <1>1, InterruptionIs DEF Poll, AtStep
  <1> QED BY <1>2, GivingUpKeepsInv

\* One more is one more at most.
LEMMA OneMore ==
  ASSUME NEW S, IsFiniteSet(S), NEW x
  PROVE  /\ IsFiniteSet(S \cup {x}) /\ Cardinality(S \cup {x}) \in Nat
         /\ Cardinality(S \cup {x}) <= Cardinality(S) + 1
  <1>1. /\ IsFiniteSet(S \cup {x})
        /\ Cardinality(S \cup {x}) = IF x \in S THEN Cardinality(S) ELSE Cardinality(S) + 1
    BY FS_AddElement
  <1>2. Cardinality(S) \in Nat
    BY FS_CardinalityType
  <1> QED BY <1>1, <1>2

\* Who leaves a seat, takes the seat of an idle worker, or finds no worker
\* idle, leaves enough of them.
LEMMA SeatsAfter ==
  ASSUME PoolInv, NEW c \in Caller, \A d \in Caller \ {c} : caller'[d] = caller[d],
         c \in Users' => c \in Users, idle' \in Seq(Process),
         \/ ToSet(idle') = ToSet(idle) /\ (c \in Seated' => c \in Seated)
         \/ \E q \in ToSet(idle) : ToSet(idle') = ToSet(idle) \ {q}
         \/ \E q \in Process : ToSet(idle') = ToSet(idle) \cup {q} /\ c \in Seated /\ c \notin Seated'
         \/ ToSet(idle') = {}
  PROVE  SeatsInv'
  <1>1. Users' \subseteq Users /\ Seated' \subseteq Users'
    BY DEF Users, Seated, InSlot
  <1>2. /\ IsFiniteSet(Users') /\ Cardinality(Users') <= Cardinality(Users)
        /\ Cardinality(Users') \in Nat
    BY <1>1, FS_Subset, FS_CardinalityType DEF PoolInv, SeatsInv
  <1>3. /\ IsFiniteSet(Seated') /\ Cardinality(Seated') <= Cardinality(Users')
        /\ Cardinality(Seated') \in Nat
    BY <1>1, <1>2, FS_Subset, FS_CardinalityType
  <1>4. Cardinality(Users') <= Slots /\ Slots \in Nat
    BY <1>2, SetsAreFinite, PoolAssumption DEF PoolInv, SeatsInv
  <1>5. Seated' \subseteq Seated \cup {c} /\ (c \notin Seated' => Seated' \subseteq Seated)
    BY DEF Seated
  <1>6. /\ IsFiniteSet(Seated \cup {c}) /\ Cardinality(Seated \cup {c}) <= Cardinality(Seated) + 1
        /\ Cardinality(Seated \cup {c}) \in Nat
    BY SetsAreFinite, OneMore
  <1>7. Cardinality(ToSet(idle')) + Cardinality(Seated') <= Slots
    <2>1. CASE ToSet(idle') = ToSet(idle) /\ (c \in Seated' => c \in Seated)
      <3>1. Seated' \subseteq Seated
        BY <1>5, <2>1
      <3>2. Cardinality(Seated') <= Cardinality(Seated)
        BY <3>1, SetsAreFinite, FS_Subset
      <3> QED BY <1>3, <1>4, <2>1, <3>2, SetsAreFinite DEF PoolInv, SeatsInv
    <2>2. ASSUME NEW q \in ToSet(idle), ToSet(idle') = ToSet(idle) \ {q}
          PROVE  Cardinality(ToSet(idle')) + Cardinality(Seated') <= Slots
      <3>1. Cardinality(ToSet(idle')) = Cardinality(ToSet(idle)) - 1
        BY <2>2, SetsAreFinite, FS_RemoveElement
      <3>2. Cardinality(Seated') <= Cardinality(Seated \cup {c})
        BY <1>5, <1>6, FS_Subset
      <3> QED BY <1>3, <1>4, <1>6, <3>1, <3>2, SetsAreFinite DEF PoolInv, SeatsInv
    <2>3. ASSUME NEW q \in Process, ToSet(idle') = ToSet(idle) \cup {q}, c \in Seated, c \notin Seated'
          PROVE  Cardinality(ToSet(idle')) + Cardinality(Seated') <= Slots
      <3>1. /\ Cardinality(ToSet(idle')) <= Cardinality(ToSet(idle)) + 1
            /\ Cardinality(ToSet(idle')) \in Nat
        BY <2>3, SetsAreFinite, OneMore
      <3>2. Seated' \subseteq Seated \ {c}
        BY <1>5, <2>3
      <3>3. IsFiniteSet(Seated \ {c}) /\ Cardinality(Seated \ {c}) = Cardinality(Seated) - 1
        BY <2>3, SetsAreFinite, FS_RemoveElement
      <3>4. Cardinality(Seated') <= Cardinality(Seated \ {c})
        BY <3>2, <3>3, FS_Subset
      <3> QED BY <1>3, <1>4, <3>1, <3>3, <3>4, SetsAreFinite DEF PoolInv, SeatsInv
    <2>4. CASE ToSet(idle') = {}
      <3>1. Cardinality(ToSet(idle')) = 0
        BY <2>4, FS_EmptySet
      <3> QED BY <1>2, <1>3, <1>4, <3>1
    <2> QED BY <2>1, <2>2, <2>3, <2>4
  <1> QED BY <1>2, <1>4, <1>7 DEF SeatsInv

\* The latest idle worker is used, or thrown away.
LEMMA TakeKeepsInv ==
  ASSUME PoolInv, NEW c \in Caller, TakeWorker(c)
  PROVE  PoolInv'
  <1>1. /\ HandOK(c) /\ caller \in [Caller -> CallRow] /\ PoolTypes /\ caller[c].pc = "pop"
        /\ UNCHANGED <<generation, doomed>> /\ caller[c].worker = Nothing
        /\ IsInjective(idle) /\ generation \in Nat
    BY DEF PoolInv, PoolTypes, TakeWorker, AtStep, HandOK, IdleAreFree
  <1>2. CASE caller[c].cancelled
    <2>1. GivesUp(c, "keep", "cancelled") /\ UNCHANGED process /\ Pool
      BY <1>1, <1>2 DEF TakeWorker, Pool
    <2>2. PICK v \in TryEnd : v = "cancelled"
      BY DEF TryEnd
    <2> QED BY <1>1, <2>1, <2>2, GivingUpKeepsInv
  <1>3. CASE ~caller[c].cancelled
    <2>1. PICK p \in Process \cup {Nothing} : p = (IF idle = <<>> THEN Nothing ELSE Last(idle))
      BY <1>1, PopIs DEF PoolTypes
    <2>2. PICK kept \in {p, Nothing} : kept = (IF Usable(c, p) THEN p ELSE Nothing)
      OBVIOUS
    <2>3. PICK stop \in TryEnd : stop = Interruption(c)
      BY InterruptionIs
    <2>4. PICK pc \in PoolPc : pc = (IF stop # "none" THEN "keep" ELSE IF kept = Nothing THEN "spawn" ELSE "wait")
      BY DEF PoolPc
    <2>5. /\ idle' = (IF idle = <<>> THEN idle ELSE Front(idle))
          /\ registered' = (IF p = kept THEN registered ELSE registered \ {p})
          /\ process' = [q \in Process |->
                            IF q # p THEN process[q]
                            ELSE IF q # kept THEN NoProcess
                            ELSE IF pc = "wait" THEN [process[q] EXCEPT !.owes = TRUE]
                            ELSE process[q]]
          /\ caller' = [caller EXCEPT ![c].pc = pc, ![c].gen = generation,
                                      ![c].worker = kept, ![c].verdict = stop]
      BY <1>3, <2>1, <2>2, <2>3, <2>4 DEF TakeWorker
    <2>6. PICK h \in CallRow :
             /\ caller' = [caller EXCEPT ![c] = h] /\ caller'[c] = h /\ h.pc = pc
             /\ h.gen = generation /\ h.worker = kept /\ h.verdict = stop /\ h.try = caller[c].try
      <3> DEFINE h == [caller[c] EXCEPT !.pc = pc, !.gen = generation, !.worker = kept,
                                        !.verdict = stop]
      <3>1. /\ h \in CallRow /\ h.pc = pc
            /\ h.gen = generation /\ h.worker = kept /\ h.verdict = stop /\ h.try = caller[c].try
        <4>1. PICK g \in CallRow : g = caller[c]
          BY <1>1
        <4>2. PICK next : next = [g EXCEPT !.pc = pc, !.gen = generation, !.worker = kept, !.verdict = stop]
          OBVIOUS
        <4>3. next \in CallRow /\ next.pc = pc /\ next.gen = generation
          BY <1>1, <2>2, <4>2 DEF CallRow
        <4>4. next.worker = kept /\ next.verdict = stop /\ next.try = g.try
          BY <4>2 DEF CallRow
        <4> QED BY <4>1, <4>2, <4>3, <4>4
      <3>2. caller' = [caller EXCEPT ![c] = h] /\ caller'[c] = h
        BY <1>1, <2>5
      <3> QED BY <3>1, <3>2
    <2>7. NoProcess \in ProcessRow /\ ~NoProcess.alive /\ NoProcess.served = 0 /\ ~NoProcess.owes
      BY DEF NoProcess, ProcessRow
    <2>8. /\ process' \in [Process -> ProcessRow]
          /\ \A q \in Process \ {p} : process'[q] = process[q]
          /\ p # Nothing /\ kept # p => process'[p] = NoProcess
      BY <1>1, <2>1, <2>2, <2>5, <2>7 DEF PoolTypes, ProcessRow
    <2>9. /\ idle' \in Seq(Process) /\ IsInjective(idle') /\ ToSet(idle') = ToSet(idle) \ {p}
          /\ p # Nothing => p \in ToSet(idle)
          /\ p = Nothing => ToSet(idle) = {}
      <3>1. CASE idle = <<>>
        <4>1. ToSet(idle) = {}
          BY <3>1 DEF ToSet
        <4> QED BY <1>1, <2>1, <2>5, <3>1, <4>1, NothingIsNoProcess DEF PoolTypes
      <3>2. CASE idle # <<>>
        BY <1>1, <2>1, <2>5, <3>2, PopIs, NothingIsNoProcess DEF PoolTypes
      <3> QED BY <3>1, <3>2
    <2>10. p # Nothing => p \in registered /\ \A d \in Caller : caller[d].worker # p
      BY <2>9 DEF PoolInv, IdleAreFree, Held, Holds
    <2>11. HandOK(c)'
      <3>1. h.pc \in {"keep", "spawn", "wait"} /\ (h.pc = "keep" => h.verdict # "good")
        BY <2>3, <2>4, <2>6, InterruptionIs
      <3>2. h.gen <= generation' /\ (h.pc = "wait" => kept # Nothing)
        BY <1>1, <2>4, <2>6
      <3>3. CASE kept = Nothing
        <4>1. h.pc \in {"keep", "spawn"} /\ Nothing \notin registered'
          BY <1>1, <2>5, <3>1, <3>2, <3>3, NothingIsNoProcess DEF PoolTypes
        <4> QED BY <2>6, <3>2, <3>3, <4>1 DEF HandOK
      <3>4. CASE kept # Nothing
        <4>1. kept = p /\ kept \in registered' /\ caller[c].try = 1
          BY <2>2, <2>5, <2>10, <3>4 DEF Usable
        <4>2. h.pc \in {"keep", "wait"}
          BY <2>4, <2>6, <3>4
        <4> QED BY <2>6, <3>1, <3>2, <3>4, <4>1, <4>2 DEF HandOK
      <3> QED BY <3>3, <3>4
    <2>12. c \in Users
      BY <1>1 DEF Users, InSlot
    <2>13. \A d \in Caller \ {c} : caller'[d] = caller[d]
      BY <2>6
    <2>14. SeatsInv'
      BY <2>9, <2>12, <2>13, SeatsAfter
    <2>15. /\ registered' \subseteq Process /\ registered' \ {p} = registered \ {p}
           /\ p \in registered' => h.worker = p
           /\ p # Nothing /\ process'[p].alive => h.worker = p
      BY <1>1, <2>1, <2>2, <2>5, <2>6, <2>7, <2>8, NothingIsNoProcess DEF PoolTypes
    <2>16. /\ p \in Process \cup {Nothing}
           /\ caller[c].worker \in {Nothing, p} /\ h.worker \in {Nothing, p}
           /\ \A d \in Caller \ {c} : p # Nothing => caller[d].worker # p
           /\ ToSet(idle') \ {p} = ToSet(idle) \ {p} /\ p \notin ToSet(idle')
      BY <1>1, <2>1, <2>2, <2>6, <2>9, <2>10
    <2>17. /\ p \in ToSet(idle') => p \in registered' /\ h.worker # p /\ ~process'[p].owes
           /\ p \in registered' => p \in ToSet(idle') \/ h.worker = p
           /\ p # Nothing /\ process'[p].alive => p \in registered' \cup doomed \/ h.worker = p
      BY <2>15, <2>16
    <2> QED BY <1>1, <2>6, <2>8, <2>9, <2>11, <2>14, <2>15, <2>16, <2>17, HandMoves
  <1> QED BY <1>2, <1>3

\* A step of thread c with the worker it holds.
LEMMA OwnWorker ==
  ASSUME PoolInv, NEW c \in Caller, NEW p \in Process, caller[c].worker = p
  PROVE  /\ p # Nothing /\ p \notin ToSet(idle)
         /\ \A d \in Caller \ {c} : caller[d].worker # p
  BY NothingIsNoProcess DEF PoolInv, IdleAreFree, Held, Holds

\* A new process, in the hands of who started it.
LEMMA SpawnKeepsInv ==
  ASSUME PoolInv, NEW c \in Caller, Spawn(c)
  PROVE  PoolInv'
  <1>1. /\ HandOK(c) /\ caller \in [Caller -> CallRow] /\ PoolTypes /\ caller[c].pc = "spawn"
        /\ Pool /\ caller[c].worker = Nothing
    BY DEF PoolInv, PoolTypes, Spawn, AtStep, HandOK
  <1>2. CASE GivesUp(c, "keep", "failed") /\ UNCHANGED process
    <2>1. PICK v \in TryEnd : v = "failed"
      BY DEF TryEnd
    <2> QED BY <1>1, <1>2, <2>1, GivingUpKeepsInv
  <1>3. ASSUME NEW p \in Free,
               process' = [process EXCEPT ![p] = [NoProcess EXCEPT !.alive = TRUE]],
               caller' = [caller EXCEPT ![c].pc = "register", ![c].worker = p]
        PROVE  PoolInv'
    <2>1. p \in Process /\ p \notin registered \cup doomed \cup Held
      BY DEF Free
    <2>2. /\ p # Nothing /\ p \notin ToSet(idle)
          /\ \A d \in Caller : caller[d].worker # p
      BY <2>1, NothingIsNoProcess DEF PoolInv, IdleAreFree, Held, Holds
    <2>3. PICK h \in CallRow :
             /\ caller' = [caller EXCEPT ![c] = h] /\ caller'[c] = h /\ h.pc = "register"
             /\ h.gen = caller[c].gen /\ h.worker = p
      <3>1. "register" \in PoolPc
        BY DEF PoolPc
      <3> DEFINE h == [caller[c] EXCEPT !.pc = "register", !.worker = p]
      <3>2. h \in CallRow /\ h.pc = "register" /\ h.gen = caller[c].gen /\ h.worker = p
        <4>1. PICK g \in CallRow : g = caller[c]
          BY <1>1 DEF PoolTypes
        <4>2. PICK next : next = [g EXCEPT !.pc = "register", !.worker = p]
          OBVIOUS
        <4>3. next \in CallRow /\ next.pc = "register" /\ next.gen = g.gen /\ next.worker = p
          BY <2>1, <3>1, <4>2 DEF CallRow
        <4> QED BY <4>1, <4>2, <4>3
      <3>3. caller' = [caller EXCEPT ![c] = h] /\ caller'[c] = h
        BY <1>1, <1>3
      <3> QED BY <3>2, <3>3
    <2>4. PICK r \in ProcessRow : r = [NoProcess EXCEPT !.alive = TRUE] /\ r.served = 0
      <3> DEFINE r == [NoProcess EXCEPT !.alive = TRUE]
      <3>1. r \in ProcessRow /\ r.served = 0
        BY DEF NoProcess, ProcessRow
      <3> QED BY <3>1
    <2>5. /\ process' \in [Process -> ProcessRow] /\ process'[p] = r
          /\ \A q \in Process \ {p} : process'[q] = process[q]
      BY <1>1, <1>3, <2>1, <2>4 DEF PoolTypes
    <2>6. HandOK(c)'
      BY <1>1, <2>1, <2>2, <2>3, <2>4, <2>5 DEF HandOK, Pool
    <2>7. c \in Seated /\ c \in Users /\ \A d \in Caller \ {c} : caller'[d] = caller[d]
      BY <1>1, <2>3 DEF Seated, Users, InSlot
    <2>8. /\ UNCHANGED <<idle, registered, generation, doomed>> /\ idle \in Seq(Process)
          /\ IsInjective(idle) /\ registered \subseteq Process
      BY <1>1 DEF Pool, PoolTypes, PoolInv, IdleAreFree
    <2>9. SeatsInv'
      BY <2>7, <2>8, SeatsAfter
    <2> QED BY <1>1, <2>1, <2>2, <2>3, <2>5, <2>6, <2>8, <2>9, HandMoves
  <1> QED BY <1>2, <1>3 DEF Spawn

\* The new process becomes known to the pool, unless that was closed.
LEMMA RegisterKeepsInv ==
  ASSUME PoolInv, NEW c \in Caller, Register(c)
  PROVE  PoolInv'
  <1>1. /\ HandOK(c) /\ caller \in [Caller -> CallRow] /\ PoolTypes /\ caller[c].pc = "register"
        /\ UNCHANGED <<idle, generation, doomed>> /\ IsInjective(idle) /\ idle \in Seq(Process)
    BY DEF PoolInv, PoolTypes, Register, AtStep, IdleAreFree
  <1>2. PICK p \in Process : p = caller[c].worker
    BY <1>1 DEF HandOK, CallRow
  <1>3. /\ p # Nothing /\ p \notin ToSet(idle) /\ p \notin registered
        /\ \A d \in Caller \ {c} : caller[d].worker # p
    BY <1>1, <1>2, OwnWorker DEF HandOK
  <1>4. c \in Seated /\ c \in Users
    BY <1>1 DEF Seated, Users, InSlot
  <1>5. CASE caller[c].gen = generation
    <2>1. PICK pc \in PoolPc : pc = "wait"
      BY DEF PoolPc
    <2>2. PICK h \in CallRow :
             /\ caller' = [caller EXCEPT ![c] = h] /\ caller'[c] = h /\ h.pc = "wait"
             /\ h.worker = p /\ h.gen = caller[c].gen /\ h.try = caller[c].try
      <3>1. Goes(c, pc)
        BY <1>5, <2>1 DEF Register
      <3>2. PICK verdict \in TryEnd : verdict = "none"
        BY DEF TryEnd
      <3> QED BY <1>2, <2>1, <3>1, RowAfter
    <2>3. PICK r \in ProcessRow : /\ r = [process[p] EXCEPT !.owes = TRUE]
                                  /\ r.served = process[p].served
      <3> DEFINE r == [process[p] EXCEPT !.owes = TRUE]
      <3>1. r \in ProcessRow /\ r.served = process[p].served
        BY <1>1 DEF PoolTypes, ProcessRow
      <3> QED BY <3>1
    <2>4. /\ process' \in [Process -> ProcessRow] /\ process'[p] = r
          /\ \A q \in Process \ {p} : process'[q] = process[q]
          /\ registered' = registered \cup {p}
      BY <1>1, <1>2, <1>5, <2>3 DEF PoolTypes, Register
    <2>5. HandOK(c)'
      BY <1>1, <1>2, <1>5, <2>2, <2>3, <2>4 DEF HandOK
    <2>6. SeatsInv'
      BY <1>1, <1>4, <2>2, SeatsAfter
    <2> QED BY <1>1, <1>2, <1>3, <2>2, <2>4, <2>5, <2>6, HandMoves DEF PoolTypes
  <1>6. CASE caller[c].gen # generation
    <2>1. PICK pc \in PoolPc, v \in TryEnd : pc = "keep" /\ v = "cancelled"
      BY DEF PoolPc, TryEnd
    <2>2. PICK h \in CallRow :
             /\ caller' = [caller EXCEPT ![c] = h] /\ caller'[c] = h /\ h.pc = "keep"
             /\ h.worker = p /\ h.gen = caller[c].gen /\ h.verdict = "cancelled"
      <3>1. GivesUp(c, pc, v)
        BY <1>6, <2>1 DEF Register
      <3> QED BY <1>2, <2>1, <3>1, RowAfter
    <2>3. NoProcess \in ProcessRow /\ ~NoProcess.alive
      BY DEF NoProcess, ProcessRow
    <2>4. /\ process' \in [Process -> ProcessRow] /\ process'[p] = NoProcess
          /\ \A q \in Process \ {p} : process'[q] = process[q]
          /\ registered' = registered
      BY <1>1, <1>2, <1>6, <2>3 DEF PoolTypes, Register
    <2>5. HandOK(c)'
      BY <1>1, <1>3, <1>6, <2>2, <2>4 DEF HandOK
    <2>6. SeatsInv'
      BY <1>1, <1>4, <2>2, SeatsAfter
    <2> QED BY <1>1, <1>2, <1>3, <2>2, <2>3, <2>4, <2>5, <2>6, HandMoves DEF PoolTypes
  <1> QED BY <1>5, <1>6

\* An answer arrives, right or wrong, of another request, or too large.
LEMMA AnswerKeepsInv ==
  ASSUME PoolInv, NEW c \in Caller, Answer(c)
  PROVE  PoolInv'
  <1>1. /\ HandOK(c) /\ caller \in [Caller -> CallRow] /\ PoolTypes /\ caller[c].pc = "wait"
        /\ Pool /\ UNCHANGED <<idle, registered, generation, doomed>>
        /\ IsInjective(idle) /\ idle \in Seq(Process)
    BY DEF PoolInv, PoolTypes, Answer, AtStep, IdleAreFree, Pool
  <1>2. PICK p \in Process : p = caller[c].worker
    BY <1>1 DEF HandOK, CallRow
  <1>3. /\ p # Nothing /\ p \notin ToSet(idle)
        /\ \A d \in Caller \ {c} : caller[d].worker # p
    BY <1>1, <1>2, OwnWorker
  <1>4. PICK on \in TryEnd : on = (IF Interruption(c) # "none" THEN Interruption(c) ELSE "good")
    BY InterruptionIs DEF TryEnd
  <1>5. PICK v \in TryEnd : GivesUp(c, "keep", v)
    BY <1>4 DEF Answer, TryEnd
  <1>6. CASE process' = [process EXCEPT ![p].owes = FALSE, ![p].served = @ + 1]
    <2>1. PICK pc \in PoolPc : pc = "keep"
      BY DEF PoolPc
    <2>2. PICK h \in CallRow :
             /\ caller' = [caller EXCEPT ![c] = h] /\ caller'[c] = h /\ h.pc = "keep"
             /\ h.worker = p /\ h.gen = caller[c].gen
      BY <1>2, <1>5, <2>1, RowAfter
    <2>3. PICK r \in ProcessRow : r = [process[p] EXCEPT !.owes = FALSE, !.served = @ + 1] /\ ~r.owes
      <3> DEFINE r == [process[p] EXCEPT !.owes = FALSE, !.served = @ + 1]
      <3>1. process[p] \in ProcessRow /\ process[p].served + 1 \in Nat
        BY <1>1 DEF PoolTypes, ProcessRow
      <3>2. r = [process[p] EXCEPT !.owes = FALSE, !.served = process[p].served + 1]
        OBVIOUS
      <3>3. r \in ProcessRow /\ ~r.owes
        BY <3>1, <3>2 DEF ProcessRow
      <3> QED BY <3>3
    <2>4. /\ process' \in [Process -> ProcessRow] /\ process'[p] = r
          /\ \A q \in Process \ {p} : process'[q] = process[q]
      BY <1>1, <1>6, <2>3 DEF PoolTypes
    <2>5. HandOK(c)'
      BY <1>1, <1>2, <2>2, <2>3, <2>4 DEF HandOK
    <2>6. c \in Seated /\ c \in Users
      BY <1>1 DEF Seated, Users, InSlot
    <2>7. SeatsInv'
      BY <1>1, <2>2, <2>6, SeatsAfter
    <2> QED BY <1>1, <1>2, <1>3, <2>2, <2>4, <2>5, <2>7, HandMoves DEF PoolTypes
  <1>7. CASE process' # [process EXCEPT ![p].owes = FALSE, ![p].served = @ + 1]
    <2>1. UNCHANGED process /\ (GivesUp(c, "keep", "failed") \/ GivesUp(c, "keep", "final"))
      BY <1>2, <1>7 DEF Answer
    <2>2. PICK u \in TryEnd : GivesUp(c, "keep", u) /\ u # "good"
      BY <2>1 DEF TryEnd
    <2> QED BY <1>1, <2>1, <2>2, GivingUpKeepsInv
  <1> QED BY <1>6, <1>7

\* A worker goes back to the pool, or is disowned.
LEMMA KeepKeepsInv ==
  ASSUME PoolInv, NEW c \in Caller, KeepOrNot(c)
  PROVE  PoolInv'
  <1>1. /\ HandOK(c) /\ caller \in [Caller -> CallRow] /\ PoolTypes /\ caller[c].pc = "keep"
        /\ UNCHANGED <<process, generation, doomed>> /\ IsInjective(idle) /\ idle \in Seq(Process)
        /\ process \in [Process -> ProcessRow]
    BY DEF PoolInv, PoolTypes, KeepOrNot, AtStep, IdleAreFree
  <1>2. CASE caller[c].worker = Nothing
    <2>1. Goes(c, "decide") /\ UNCHANGED process /\ Pool
      BY <1>1, <1>2 DEF KeepOrNot, Pool
    <2>2. PICK v \in TryEnd : v = "none"
      BY DEF TryEnd
    <2> QED BY <1>1, <1>2, <2>1, <2>2, GivingUpKeepsInv
  <1>3. CASE caller[c].worker # Nothing
    <2>1. PICK p \in Process : p = caller[c].worker
      BY <1>1, <1>3 DEF CallRow
    <2>2. /\ p # Nothing /\ p \notin ToSet(idle)
          /\ \A d \in Caller \ {c} : caller[d].worker # p
      BY <1>1, <2>1, OwnWorker
    <2>3. c \in Seated /\ c \in Users
      BY <1>1, <1>3 DEF Seated, Users, InSlot
    <2>4. CASE Reusable(c, p)
      <3>1. /\ idle' = Append(idle, p) /\ registered' = registered
            /\ caller' = [caller EXCEPT ![c].pc = "decide", ![c].worker = Nothing]
        BY <1>3, <2>1, <2>4 DEF KeepOrNot
      <3>2. PICK h \in CallRow :
               /\ caller' = [caller EXCEPT ![c] = h] /\ caller'[c] = h /\ h.pc = "decide"
               /\ h.worker = Nothing /\ h.gen = caller[c].gen
        <4>1. "decide" \in PoolPc
          BY DEF PoolPc
        <4> DEFINE h == [caller[c] EXCEPT !.pc = "decide", !.worker = Nothing]
        <4>2. h \in CallRow /\ h.pc = "decide" /\ h.worker = Nothing /\ h.gen = caller[c].gen
          BY <1>1, <4>1 DEF CallRow
        <4>3. caller' = [caller EXCEPT ![c] = h] /\ caller'[c] = h
          BY <1>1, <3>1
        <4> QED BY <4>2, <4>3
      <3>3. p \in registered /\ ~process[p].owes
        BY <1>1, <2>1, <2>2, <2>4 DEF HandOK, Reusable
      <3>4. /\ idle' \in Seq(Process) /\ IsInjective(idle') /\ ToSet(idle') = ToSet(idle) \cup {p}
        BY <1>1, <2>2, <3>1, PushIs
      <3>5. HandOK(c)'
        BY <1>1, <3>1, <3>2, NothingIsNoProcess DEF HandOK, PoolTypes
      <3>6. c \notin Seated' /\ \A d \in Caller \ {c} : caller'[d] = caller[d]
        BY <3>2 DEF Seated
      <3>7. SeatsInv'
        BY <2>3, <3>4, <3>6, SeatsAfter
      <3>8. /\ ToSet(idle') \ {p} = ToSet(idle) \ {p} /\ p \in registered' /\ registered' = registered
            /\ h.worker = Nothing /\ h.worker # p /\ ~process'[p].owes /\ p \in ToSet(idle')
            /\ p \in Process \cup {Nothing} /\ process' = process /\ registered' \subseteq Process
        BY <1>1, <2>1, <2>2, <3>1, <3>2, <3>3, <3>4 DEF PoolTypes
      <3> QED BY <1>1, <2>1, <2>2, <3>2, <3>4, <3>5, <3>7, <3>8, HandMoves
    <2>5. CASE ~Reusable(c, p)
      <3>1. registered' = registered \ {p} /\ Goes(c, "close") /\ UNCHANGED idle
        BY <1>3, <2>1, <2>5 DEF KeepOrNot
      <3>2. PICK pc \in PoolPc, v \in TryEnd : pc = "close" /\ v = "none"
        BY DEF PoolPc, TryEnd
      <3>3. PICK h \in CallRow :
               /\ caller' = [caller EXCEPT ![c] = h] /\ caller'[c] = h /\ h.pc = "close"
               /\ h.worker = p /\ h.gen = caller[c].gen
        BY <2>1, <3>1, <3>2, RowAfter
      <3>4. HandOK(c)'
        BY <1>1, <2>2, <3>1, <3>3 DEF HandOK
      <3>5. c \notin Seated' /\ \A d \in Caller \ {c} : caller'[d] = caller[d]
        BY <3>3 DEF Seated
      <3>6. SeatsInv'
        BY <1>1, <2>3, <3>1, <3>5, SeatsAfter
      <3> QED BY <1>1, <2>1, <2>2, <3>1, <3>3, <3>4, <3>6, HandMoves DEF PoolTypes
    <2> QED BY <2>4, <2>5
  <1> QED BY <1>2, <1>3

\* A disowned worker is closed.
LEMMA CloseKeepsInv ==
  ASSUME PoolInv, NEW c \in Caller, CloseDisowned(c)
  PROVE  PoolInv'
  <1>1. /\ HandOK(c) /\ caller \in [Caller -> CallRow] /\ PoolTypes /\ caller[c].pc = "close"
        /\ UNCHANGED <<idle, registered, generation, doomed>>
        /\ IsInjective(idle) /\ idle \in Seq(Process)
    BY DEF PoolInv, PoolTypes, CloseDisowned, AtStep, IdleAreFree, Pool
  <1>2. PICK p \in Process : p = caller[c].worker
    BY <1>1 DEF HandOK, CallRow
  <1>3. /\ p # Nothing /\ p \notin ToSet(idle) /\ p \notin registered
        /\ \A d \in Caller \ {c} : caller[d].worker # p
    BY <1>1, <1>2, OwnWorker DEF HandOK
  <1>4. PICK h \in CallRow :
           /\ caller' = [caller EXCEPT ![c] = h] /\ caller'[c] = h /\ h.pc = "decide"
           /\ h.worker = Nothing /\ h.gen = caller[c].gen
    <2>1. "decide" \in PoolPc
      BY DEF PoolPc
    <2> DEFINE h == [caller[c] EXCEPT !.pc = "decide", !.worker = Nothing]
    <2>2. h \in CallRow /\ h.pc = "decide" /\ h.worker = Nothing /\ h.gen = caller[c].gen
      BY <1>1, <2>1 DEF CallRow
    <2>3. caller' = [caller EXCEPT ![c] = h] /\ caller'[c] = h
      BY <1>1 DEF CloseDisowned
    <2> QED BY <2>2, <2>3
  <1>5. NoProcess \in ProcessRow /\ ~NoProcess.alive
    BY DEF NoProcess, ProcessRow
  <1>6. /\ process' \in [Process -> ProcessRow] /\ process'[p] = NoProcess
        /\ \A q \in Process \ {p} : process'[q] = process[q]
    BY <1>1, <1>2, <1>5 DEF PoolTypes, CloseDisowned
  <1>7. HandOK(c)'
    BY <1>1, <1>4, NothingIsNoProcess DEF HandOK, PoolTypes
  <1>8. c \in Users /\ c \notin Seated' /\ \A d \in Caller \ {c} : caller'[d] = caller[d]
    BY <1>1, <1>4 DEF Seated, Users, InSlot
  <1>9. SeatsInv'
    BY <1>1, <1>8, SeatsAfter
  <1>10. /\ ToSet(idle') \ {p} = ToSet(idle) \ {p} /\ p \notin ToSet(idle')
         /\ idle' \in Seq(Process) /\ IsInjective(idle')
         /\ registered' \subseteq Process /\ registered' \ {p} = registered \ {p}
         /\ p \notin registered' /\ ~process'[p].alive
    BY <1>1, <1>2, <1>3, <1>5, <1>6 DEF PoolTypes
  <1>11. /\ p \in Process \cup {Nothing} /\ UNCHANGED <<doomed, generation>>
         /\ caller[c].worker \in {Nothing, p} /\ h.worker \in {Nothing, p}
         /\ \A d \in Caller \ {c} : p # Nothing => caller[d].worker # p
    BY <1>1, <1>2, <1>3, <1>4
  <1>12. /\ p \in ToSet(idle') => p \in registered' /\ h.worker # p /\ ~process'[p].owes
         /\ p \in registered' => p \in ToSet(idle') \/ h.worker = p
         /\ p # Nothing /\ process'[p].alive => p \in registered' \cup doomed \/ h.worker = p
    BY <1>10
  <1> QED BY <1>4, <1>6, <1>7, <1>9, <1>10, <1>11, <1>12, HandMoves

\* A process ends that nobody closed, or that was taken from the pool.
LEMMA EndOfProcessKeepsInv ==
  ASSUME PoolInv, NEW p \in Process, CloseDoomed(p) \/ ProcessDies(p)
  PROVE  PoolInv'
  <1>1. /\ PoolTypes /\ UNCHANGED <<caller, idle, registered, generation>>
        /\ process' = [process EXCEPT ![p] = NoProcess]
        /\ doomed' \subseteq doomed /\ doomed \ {p} \subseteq doomed'
    BY DEF PoolInv, CloseDoomed, ProcessDies, Pool
  <1>2. NoProcess \in ProcessRow /\ ~NoProcess.alive /\ NoProcess.served = 0 /\ ~NoProcess.owes
    BY DEF NoProcess, ProcessRow
  <1>3. /\ process' \in [Process -> ProcessRow] /\ process'[p] = NoProcess
        /\ \A q \in Process \ {p} : process'[q] = process[q]
    BY <1>1, <1>2 DEF PoolTypes
  <1>4. Held' = Held /\ Users' = Users /\ Seated' = Seated
    BY <1>1 DEF Held, Holds, Users, Seated
  <1>5. ToSet(idle) \subseteq Process
    BY SetsAreFinite
  <1>6. PoolTypes' /\ SeatsInv' /\ RegisterInv'
    BY <1>1, <1>3, <1>4 DEF PoolInv, PoolTypes, SeatsInv, RegisterInv
  <1>7. NoOrphans'
    BY <1>1, <1>2, <1>3, <1>4 DEF PoolInv, NoOrphans
  <1>8. IdleAreFree'
    BY <1>1, <1>2, <1>3, <1>4, <1>5 DEF PoolInv, IdleAreFree
  <1>9. ASSUME NEW c \in Caller
        PROVE  HandOK(c)'
    <2>1. HandOK(c) /\ caller[c].worker \in Process \cup {Nothing}
      BY <1>1 DEF PoolInv, PoolTypes, CallRow
    <2>2. CASE caller[c].worker = Nothing
      BY <1>1, <2>1, <2>2 DEF HandOK
    <2>3. CASE caller[c].worker # Nothing
      BY <1>1, <1>2, <1>3, <2>1, <2>3 DEF HandOK
    <2> QED BY <2>2, <2>3
  <1> QED BY <1>6, <1>7, <1>8, <1>9 DEF PoolInv

\* The pool is closed: what is registered will be closed, by whoever has it.
LEMMA ClosePoolKeepsInv ==
  ASSUME PoolInv, ClosePool
  PROVE  PoolInv'
  <1>1. /\ PoolTypes /\ UNCHANGED <<caller, process>> /\ generation' = generation + 1
        /\ doomed' = doomed \cup registered /\ registered' = {} /\ idle' = <<>>
    BY DEF PoolInv, ClosePool
  <1>2. Held' = Held /\ Users' = Users /\ Seated' = Seated
    BY <1>1 DEF Held, Holds, Users, Seated
  <1>3. ToSet(idle') = {} /\ IsInjective(idle') /\ idle' \in Seq(Process)
    BY <1>1 DEF ToSet, IsInjective
  <1>4. PoolTypes' /\ RegisterInv' /\ NoOrphans'
    BY <1>1, <1>2, <1>3 DEF PoolInv, PoolTypes, RegisterInv, NoOrphans
  <1>5. IdleAreFree'
    BY <1>1, <1>3 DEF PoolInv, IdleAreFree
  <1>6. SeatsInv'
    <2>1. Cardinality(ToSet(idle')) = 0
      BY <1>3, FS_EmptySet
    <2> QED BY <1>2, <2>1, SetsAreFinite, PoolAssumption DEF PoolInv, SeatsInv
  <1>7. ASSUME NEW c \in Caller
        PROVE  HandOK(c)'
    <2>1. HandOK(c) /\ caller[c].gen \in Nat /\ generation \in Nat
      BY <1>1 DEF PoolInv, PoolTypes, CallRow
    <2>2. caller[c].gen <= generation' /\ caller[c].gen # generation'
      BY <1>1, <2>1 DEF HandOK
    <2> QED BY <1>1, <2>1, <2>2 DEF HandOK
  <1> QED BY <1>4, <1>5, <1>6, <1>7 DEF PoolInv

\* Nothing happens to the pool.
LEMMA RestingPoolKeepsInv ==
  ASSUME PoolInv, UNCHANGED <<caller, process, idle, registered, generation, doomed>>
  PROVE  PoolInv'
  <1>1. Held' = Held /\ Users' = Users /\ Seated' = Seated
    BY DEF Held, Holds, Users, Seated
  <1>2. \A c \in Caller : HandOK(c)'
    BY DEF PoolInv, HandOK
  <1>3. PoolTypes' /\ SeatsInv' /\ RegisterInv' /\ NoOrphans' /\ IdleAreFree'
    BY <1>1 DEF PoolInv, PoolTypes, SeatsInv, RegisterInv, NoOrphans, IdleAreFree
  <1> QED BY <1>2, <1>3 DEF PoolInv

\* At first there is nothing.
LEMMA PoolInitIsOK ==
  ASSUME PoolInit
  PROVE  PoolInv
  <1>1. Resting \in CallRow
    <2>1. "rest" \in PoolPc /\ "none" \in TryEnd
      BY DEF PoolPc, TryEnd
    <2> QED BY <2>1 DEF Resting, CallRow
  <1>2. NoProcess \in ProcessRow /\ ~NoProcess.alive
    BY DEF NoProcess, ProcessRow
  <1>3. PoolTypes
    BY <1>1, <1>2 DEF PoolInit, PoolTypes
  <1>4. ToSet(idle) = {} /\ IsInjective(idle)
    BY DEF PoolInit, ToSet, IsInjective
  <1>5. Users = {} /\ Seated = {}
    BY DEF PoolInit, Users, Seated, Resting, InSlot
  <1>6. SeatsInv
    BY <1>4, <1>5, FS_EmptySet, PoolAssumption DEF SeatsInv
  <1>7. RegisterInv /\ NoOrphans /\ IdleAreFree
    BY <1>2, <1>4 DEF PoolInit, RegisterInv, NoOrphans, IdleAreFree, Resting
  <1>8. \A c \in Caller : HandOK(c)
    BY NothingIsNoProcess DEF PoolInit, HandOK, Resting
  <1> QED BY <1>3, <1>6, <1>7, <1>8 DEF PoolInv

\* Every step keeps the invariant.
LEMMA PoolStepKeepsInv ==
  ASSUME PoolInv, [PoolNext]_poolVars
  PROVE  PoolInv'
  <1>1. ASSUME NEW c \in Caller, NEW i \in Input, Analyze(c, i)
        PROVE  PoolInv'
    BY <1>1, BooksKeepInv
  <1>2. ASSUME NEW c \in Caller, CallerStep(c)
        PROVE  PoolInv'
    <2>1. CASE Load(c) \/ Decide(c)
      BY <2>1, BooksKeepInv
    <2>2. CASE AcquireSlot(c) \/ TakeWorker(c) \/ Poll(c)
      BY <2>2, SlotKeepsInv, TakeKeepsInv, PollKeepsInv
    <2>3. CASE Spawn(c) \/ Register(c)
      BY <2>3, SpawnKeepsInv, RegisterKeepsInv
    <2>4. CASE KeepOrNot(c) \/ CloseDisowned(c)
      BY <2>4, KeepKeepsInv, CloseKeepsInv
    <2> QED BY <1>2, <2>1, <2>2, <2>3, <2>4 DEF CallerStep
  <1>3. ASSUME NEW c \in Caller, Answer(c) \/ Cancel(c) \/ DeadlinePasses(c)
        PROVE  PoolInv'
    BY <1>3, AnswerKeepsInv, FlagsKeepInv
  <1>4. ASSUME NEW p \in Process, CloseDoomed(p) \/ ProcessDies(p)
        PROVE  PoolInv'
    BY <1>4, EndOfProcessKeepsInv
  <1>5. CASE ClosePool
    BY <1>5, ClosePoolKeepsInv
  <1>6. CASE UNCHANGED poolVars \/ \E i \in Input : CoolsDown(i)
    BY <1>6, RestingPoolKeepsInv DEF poolVars, CoolsDown, Pool
  <1> QED BY <1>1, <1>2, <1>3, <1>4, <1>5, <1>6 DEF PoolNext

\* Threads, processes and the stack of idle workers agree, and there is a slot
\* for every worker that is used, idle or about to be registered.
THEOREM PoolInvariance == PoolSpec => []PoolInv
  <1> QED BY PoolInitIsOK, PoolStepKeepsInv, PTL DEF PoolSpec

\* Each parser process is in one hand, which may use it: none is forgotten, an
\* idle one owes no answer, there are no more than slots, and a second try
\* talks to a fresh one, however calls, cancellations, deaths and the closing
\* of the pool interleave (_run_worker, close_parser_workers).
THEOREM ProcessesStayOwned == PoolSpec => []ProcessesAreOwned
  <1>1. PoolInv => ProcessesAreOwned
    <2> SUFFICES ASSUME PoolInv
                 PROVE  ProcessesAreOwned
      OBVIOUS
    <2>1. NoOrphans /\ IdleAreFree
      BY DEF PoolInv
    <2>2. RetryIsFresh
      BY DEF PoolInv, HandOK, RetryIsFresh, AtStep
    <2>3. ProcessesBounded
      <3> DEFINE used == {caller[c].worker : c \in Seated}
      <3>1. IsFiniteSet(used) /\ Cardinality(used) <= Cardinality(Seated) /\ Cardinality(used) \in Nat
        <4> DEFINE works == [c \in Seated |-> caller[c].worker]
        <4>1. works \in Surjection(Seated, used)
          BY DEF Surjection
        <4> QED BY <4>1, SetsAreFinite, FS_Surjection, FS_CardinalityType
      <3>2. registered \subseteq ToSet(idle) \cup used
        BY NothingIsNoProcess DEF PoolInv, PoolTypes, RegisterInv, Held, Holds, HandOK, Seated
      <3>3. /\ IsFiniteSet(ToSet(idle) \cup used)
            /\ Cardinality(ToSet(idle) \cup used) <= Cardinality(ToSet(idle)) + Cardinality(used)
        <4>1. Cardinality(ToSet(idle) \cap used) \in Nat
          BY SetsAreFinite, FS_Intersection, FS_CardinalityType
        <4>2. /\ IsFiniteSet(ToSet(idle) \cup used)
              /\ Cardinality(ToSet(idle) \cup used) = Cardinality(ToSet(idle)) + Cardinality(used)
                                                      - Cardinality(ToSet(idle) \cap used)
          BY <3>1, SetsAreFinite, FS_Union
        <4> QED BY <3>1, <4>1, <4>2, SetsAreFinite
      <3>4. Cardinality(registered) <= Cardinality(ToSet(idle) \cup used)
        BY <3>2, <3>3, FS_Subset
      <3>5. IsFiniteSet(registered)
        BY <3>2, <3>3, FS_Subset
      <3> QED BY <3>1, <3>3, <3>4, <3>5, SetsAreFinite, FS_CardinalityType, PoolAssumption
           DEF PoolInv, SeatsInv, ProcessesBounded
    <2> QED BY <2>1, <2>2, <2>3 DEF ProcessesAreOwned
  <1> QED BY <1>1, PoolInvariance, PTL

-----------------------------------------------------------------------------
(* ParserPool: workers retire, and the books are of inputs *)

\* A worker that may be used again has answered less than it may.
ServedInv ==
    /\ \A p \in Process : process[p].served \in 0..MaxRequests
    /\ \A p \in ToSet(idle) : process[p].served < MaxRequests
    /\ \A c \in Caller : AtStep(c, "wait") => process[caller[c].worker].served < MaxRequests

\* What is quarantined or cached was asked for.
BooksInv ==
    /\ failure \in [Input -> {"none", "final", "cooling", "cooled"}] /\ cached \subseteq Input
    /\ \A c \in Caller : ~AtStep(c, "rest") => caller[c].input \in Input

\* The rows of threads and workers.
LEMMA PoolRows ==
  ASSUME PoolInv
  PROVE  /\ caller \in [Caller -> CallRow] /\ process \in [Process -> ProcessRow]
         /\ \A c \in Caller : AtStep(c, "wait") => caller[c].worker \in Process
         /\ ToSet(idle) \subseteq Process
  <1>1. caller \in [Caller -> CallRow] /\ process \in [Process -> ProcessRow]
    BY DEF PoolInv, PoolTypes
  <1>2. ASSUME NEW c \in Caller, AtStep(c, "wait") PROVE caller[c].worker \in Process
    BY <1>1, <1>2 DEF PoolInv, HandOK, CallRow, AtStep
  <1> QED BY <1>1, <1>2, SetsAreFinite

\* A step in which no worker answers, none is given back, and a thread that
\* begins to wait does so for one that may answer.
LEMMA NobodyServes ==
  ASSUME PoolInv, ServedInv,
         \A p \in Process : process'[p].served \in {0, process[p].served},
         ToSet(idle') \subseteq ToSet(idle),
         \A c \in Caller : caller'[c].pc = "wait" =>
             \/ caller[c].pc = "wait" /\ caller'[c].worker = caller[c].worker
             \/ /\ caller'[c].worker \in Process
                /\ process'[caller'[c].worker].served < MaxRequests
  PROVE  ServedInv'
  <1>1. \A p \in Process : process'[p].served \in 0..MaxRequests
    BY PoolAssumption DEF ServedInv
  <1>2. \A p \in Process : process[p].served < MaxRequests => process'[p].served < MaxRequests
    BY PoolAssumption DEF ServedInv
  <1>3. \A p \in ToSet(idle') : process'[p].served < MaxRequests
    BY <1>2, PoolRows DEF ServedInv
  <1>4. \A c \in Caller : caller'[c].pc = "wait" =>
            process'[caller'[c].worker].served < MaxRequests
    BY <1>2, PoolRows DEF ServedInv, AtStep
  <1> QED BY <1>1, <1>3, <1>4 DEF ServedInv, AtStep

\* A step of a thread that does not begin to wait and leaves workers alone.
LEMMA NobodyMoves ==
  ASSUME PoolInv, ServedInv, process' = process, idle' = idle \/ idle' = <<>>,
         \A c \in Caller : caller'[c].pc = "wait" =>
             caller[c].pc = "wait" /\ caller'[c].worker = caller[c].worker
  PROVE  ServedInv'
  <1>1. ToSet(<<>>) = {}
    BY DEF ToSet
  <1>2. ToSet(idle') \subseteq ToSet(idle)
    BY <1>1
  <1> QED BY <1>2, NobodyServes

\* The same, for what threads do to their own rows.
LEMMA ThreadsKeepServed ==
  ASSUME PoolInv, ServedInv, NEW c \in Caller,
         \/ \E i \in Input : Analyze(c, i)
         \/ Load(c) \/ AcquireSlot(c) \/ Poll(c) \/ Decide(c)
         \/ Cancel(c) \/ DeadlinePasses(c)
  PROVE  ServedInv'
  <1>1. process' = process /\ idle' = idle /\ caller \in [Caller -> CallRow]
    BY PoolRows DEF Analyze, Load, AcquireSlot, Poll, Decide, Cancel, DeadlinePasses, Pool, Books
  <1>2. ASSUME NEW i \in Input, Analyze(c, i)
        PROVE \A d \in Caller : caller'[d].pc = "wait" =>
             caller[d].pc = "wait" /\ caller'[d].worker = caller[d].worker
    BY <1>1, <1>2 DEF Analyze, Resting
  <1>3. ASSUME Load(c) \/ AcquireSlot(c) \/ Poll(c) \/ Decide(c)
        PROVE \A d \in Caller : caller'[d].pc = "wait" =>
             caller[d].pc = "wait" /\ caller'[d].worker = caller[d].worker
    BY <1>1, <1>3 DEF Load, AcquireSlot, Poll, Decide, Rests, Resting, Goes, GivesUp, CallRow
  <1>4. ASSUME Cancel(c) \/ DeadlinePasses(c)
        PROVE \A d \in Caller : caller'[d].pc = "wait" =>
             caller[d].pc = "wait" /\ caller'[d].worker = caller[d].worker
    BY <1>1, <1>4 DEF Cancel, DeadlinePasses, CallRow
  <1> QED BY <1>1, <1>2, <1>3, <1>4, NobodyMoves

\* A worker that is taken from the pool may be used once more.
LEMMA TakingKeepsServed ==
  ASSUME PoolInv, ServedInv, NEW c \in Caller, TakeWorker(c)
  PROVE  ServedInv'
  <1>1. caller \in [Caller -> CallRow] /\ process \in [Process -> ProcessRow] /\ idle \in Seq(Process)
    BY PoolRows DEF PoolInv, PoolTypes
  <1>2. CASE caller[c].cancelled
    <2>1. process' = process /\ idle' = idle
      BY <1>2 DEF TakeWorker
    <2>2. \A d \in Caller : caller'[d].pc = "wait" =>
             caller[d].pc = "wait" /\ caller'[d].worker = caller[d].worker
      BY <1>1, <1>2 DEF TakeWorker, GivesUp, CallRow
    <2> QED BY <2>1, <2>2, NobodyMoves
  <1>3. CASE ~caller[c].cancelled
    <2>1. PICK p : p = IF idle = <<>> THEN Nothing ELSE Last(idle)
      OBVIOUS
    <2>2. PICK kept : kept = IF Usable(c, p) THEN p ELSE Nothing
      OBVIOUS
    <2>3. PICK pc : pc = IF Interruption(c) # "none" THEN "keep"
                         ELSE IF kept = Nothing THEN "spawn" ELSE "wait"
      OBVIOUS
    <2>4. process' = [q \in Process |->
                                  IF q # p THEN process[q]
                                  ELSE IF q # kept THEN NoProcess
                                  ELSE IF pc = "wait" THEN [process[q] EXCEPT !.owes = TRUE]
                                  ELSE process[q]]
      BY <1>3, <2>1, <2>2, <2>3, Zenon DEF TakeWorker
    <2>5. \A q \in Process : /\ process'[q].served \in {0, process[q].served}
                             /\ q = kept => process'[q].served = process[q].served
      BY <1>1, <2>2, <2>4 DEF NoProcess, ProcessRow
    <2>6. idle' = IF idle = <<>> THEN idle ELSE Front(idle)
      BY <1>3 DEF TakeWorker
    <2>7. /\ ToSet(idle') \subseteq ToSet(idle)
          /\ idle # <<>> => Last(idle) \in ToSet(idle) /\ Last(idle) \in Process
      BY <1>1, <2>6, PopIs DEF PoolInv, IdleAreFree
    <2>8. PICK stop : stop = Interruption(c)
      OBVIOUS
    <2>9. caller' = [caller EXCEPT ![c].pc = pc, ![c].gen = generation,
                                   ![c].worker = kept, ![c].verdict = stop]
      BY <1>3, <2>1, <2>2, <2>3, <2>8, Zenon DEF TakeWorker
    <2>10. caller'[c].pc = pc /\ caller'[c].worker = kept /\ \A d \in Caller \ {c} : caller'[d] = caller[d]
      BY <1>1, <2>9 DEF CallRow
    <2>11. pc = "wait" => kept = p /\ p # Nothing
      BY <2>2, <2>3
    <2>12. pc = "wait" => kept \in ToSet(idle) /\ kept \in Process
      BY <2>1, <2>7, <2>11
    <2>13. pc = "wait" => process'[kept].served < MaxRequests
      BY <2>5, <2>12 DEF ServedInv
    <2> QED BY <2>5, <2>7, <2>10, <2>12, <2>13, NobodyServes
  <1> QED BY <1>2, <1>3

\* New workers have answered nobody.
LEMMA StartingKeepsServed ==
  ASSUME PoolInv, ServedInv, NEW c \in Caller, Spawn(c) \/ Register(c)
  PROVE  ServedInv'
  <1>1. /\ caller \in [Caller -> CallRow] /\ process \in [Process -> ProcessRow]
        /\ idle' = idle
    BY PoolRows DEF Spawn, Register, Pool
  <1>2. CASE Spawn(c)
    <2>1. \A p \in Process : process'[p].served \in {0, process[p].served}
      BY <1>1, <1>2 DEF Spawn, NoProcess, ProcessRow
    <2>2. \A d \in Caller : caller'[d].pc = "wait" =>
             caller[d].pc = "wait" /\ caller'[d].worker = caller[d].worker
      BY <1>1, <1>2 DEF Spawn, GivesUp, CallRow
    <2> QED BY <1>1, <2>1, <2>2, NobodyServes
  <1>3. CASE Register(c)
    <2>1. PICK p : p = caller[c].worker
      OBVIOUS
    <2>2. p \in Process /\ process[p].served = 0
      BY <1>1, <1>3, <2>1 DEF Register, AtStep, PoolInv, HandOK, CallRow
    <2>3. process' = [process EXCEPT ![p].owes = TRUE] \/ process' = [process EXCEPT ![p] = NoProcess]
      BY <1>3, <2>1 DEF Register
    <2>4. /\ \A q \in Process : process'[q].served \in {0, process[q].served}
          /\ process'[p].served < MaxRequests
      BY <1>1, <2>2, <2>3, PoolAssumption DEF NoProcess, ProcessRow
    <2>5. \A d \in Caller : caller'[d].pc = "wait" =>
             \/ caller[d].pc = "wait" /\ caller'[d].worker = caller[d].worker
             \/ caller'[d].worker = p
      BY <1>1, <1>3, <2>1 DEF Register, Goes, GivesUp, CallRow
    <2> QED BY <1>1, <2>2, <2>4, <2>5, NobodyServes
  <1> QED BY <1>2, <1>3

\* An answer is one more of the worker that is waited for, and of no other.
LEMMA AnswerKeepsServed ==
  ASSUME PoolInv, ServedInv, NEW c \in Caller, Answer(c)
  PROVE  ServedInv'
  <1>1. /\ caller \in [Caller -> CallRow] /\ process \in [Process -> ProcessRow]
        /\ idle' = idle /\ ToSet(idle) \subseteq Process
    BY PoolRows DEF Answer, Pool
  <1>2. PICK p : p = caller[c].worker
    OBVIOUS
  <1>3. p \in Process /\ process[p].served < MaxRequests /\ AtStep(c, "wait")
    BY <1>2, PoolRows DEF Answer, ServedInv
  <1>4. \A d \in Caller : caller'[d].pc = "wait" => d # c /\ caller'[d] = caller[d]
    BY <1>1 DEF Answer, GivesUp, CallRow
  <1>5. \/ process' = process
        \/ process' = [process EXCEPT ![p].owes = FALSE, ![p].served = @ + 1]
    BY <1>2 DEF Answer
  <1>6. /\ \A q \in Process \ {p} : process'[q] = process[q]
        /\ process'[p].served \in {process[p].served, process[p].served + 1}
    BY <1>1, <1>3, <1>5 DEF ProcessRow
  <1>7. p \notin ToSet(idle)
    BY <1>2, <1>3 DEF PoolInv, IdleAreFree, Held, Holds
  <1>8. ASSUME NEW d \in Caller, caller'[d].pc = "wait"
        PROVE  process'[caller'[d].worker].served < MaxRequests
    <2>1. d # c /\ caller'[d] = caller[d] /\ AtStep(d, "wait")
      BY <1>4, <1>8 DEF AtStep
    <2>2. caller[d].worker \in Process
      BY <2>1, PoolRows
    <2>3. caller[d].worker # p
      BY <1>2, <1>3, <2>1, <2>2, NothingIsNoProcess DEF PoolInv, IdleAreFree
    <2> QED BY <1>6, <2>1, <2>2, <2>3 DEF ServedInv
  <1>9. \A q \in Process : process'[q].served \in 0..MaxRequests
    BY <1>1, <1>3, <1>6, PoolAssumption DEF ServedInv, ProcessRow
  <1>10. \A q \in ToSet(idle) : process'[q].served < MaxRequests
    BY <1>1, <1>6, <1>7 DEF ServedInv
  <1> QED BY <1>1, <1>8, <1>9, <1>10 DEF ServedInv, AtStep

\* Only a worker that may answer again is given back.
LEMMA KeepingKeepsServed ==
  ASSUME PoolInv, ServedInv, NEW c \in Caller, KeepOrNot(c)
  PROVE  ServedInv'
  <1>1. /\ caller \in [Caller -> CallRow] /\ process' = process /\ idle \in Seq(Process)
        /\ ToSet(idle) \subseteq Process
    BY PoolRows DEF KeepOrNot, PoolInv, PoolTypes
  <1>2. \A d \in Caller : caller'[d].pc = "wait" => caller'[d] = caller[d]
    BY <1>1 DEF KeepOrNot, Goes, CallRow
  <1>3. PICK p : p = caller[c].worker
    OBVIOUS
  <1>4. \/ idle' = idle
        \/ /\ idle' = Append(idle, p) /\ p \in Process /\ process[p].served < MaxRequests
    BY <1>1, <1>3 DEF KeepOrNot, Reusable, CallRow
  <1>5. \A q \in ToSet(idle') : process[q].served < MaxRequests
    <2>1. CASE idle' = idle
      BY <2>1 DEF ServedInv
    <2>2. CASE idle' = Append(idle, p) /\ p \in Process /\ process[p].served < MaxRequests
      <3>1. ToSet(idle') \subseteq ToSet(idle) \cup {p}
        BY <1>1, <2>2 DEF ToSet
      <3> QED BY <2>2, <3>1 DEF ServedInv
    <2> QED BY <1>4, <2>1, <2>2
  <1> QED BY <1>1, <1>2, <1>5 DEF ServedInv, AtStep

\* A worker that ends is none any more.
LEMMA EndsKeepServed ==
  ASSUME PoolInv, ServedInv,
         \/ \E c \in Caller : CloseDisowned(c)
         \/ \E p \in Process : CloseDoomed(p) \/ ProcessDies(p)
  PROVE  ServedInv'
  <1>1. caller \in [Caller -> CallRow] /\ process \in [Process -> ProcessRow] /\ idle' = idle
    BY PoolRows DEF CloseDisowned, CloseDoomed, ProcessDies, Pool
  <1>2. PICK p : process' = [process EXCEPT ![p] = NoProcess]
    BY DEF CloseDisowned, CloseDoomed, ProcessDies
  <1>3. \A q \in Process : process'[q].served \in {0, process[q].served}
    BY <1>1, <1>2 DEF NoProcess
  <1>4. \A d \in Caller : caller'[d].pc = "wait" => caller'[d] = caller[d]
    <2>1. ASSUME NEW c \in Caller, CloseDisowned(c) PROVE \A d \in Caller : caller'[d].pc = "wait" => caller'[d] = caller[d]
      BY <1>1, <2>1 DEF CloseDisowned, CallRow
    <2>2. caller' = caller => \A d \in Caller : caller'[d].pc = "wait" => caller'[d] = caller[d]
      OBVIOUS
    <2> QED BY <2>1, <2>2 DEF CloseDoomed, ProcessDies
  <1> QED BY <1>1, <1>3, <1>4, NobodyServes

\* Every step counts what workers have answered.
LEMMA StepsKeepServed ==
  ASSUME PoolInv, ServedInv, [PoolNext]_poolVars
  PROVE  ServedInv'
  <1>1. ASSUME NEW c \in Caller, CallerStep(c) PROVE ServedInv'
    BY <1>1, ThreadsKeepServed, TakingKeepsServed, StartingKeepsServed, KeepingKeepsServed,
       EndsKeepServed DEF CallerStep
  <1>2. ClosePool \/ (\E i \in Input : CoolsDown(i)) \/ UNCHANGED poolVars => ServedInv'
    BY NobodyMoves DEF ClosePool, CoolsDown, poolVars, Pool
  <1> QED BY <1>1, <1>2, ThreadsKeepServed, AnswerKeepsServed, EndsKeepServed DEF PoolNext

\* What threads have in mind was asked for, and so are the books they keep.
LEMMA BooksAreKept ==
  ASSUME PoolInv, BooksInv, NEW c \in Caller,
         CallerStep(c) \/ Answer(c) \/ Cancel(c) \/ DeadlinePasses(c)
  PROVE  BooksInv'
  <1>1. caller \in [Caller -> CallRow] /\ Resting.pc = "rest"
    BY PoolRows DEF Resting
  <1>2. ~AtStep(c, "rest") /\ caller[c].input \in Input
    BY DEF CallerStep, Load, AcquireSlot, TakeWorker, Spawn, Register, Poll, KeepOrNot,
           CloseDisowned, Decide, Answer, Cancel, DeadlinePasses, AtStep, BooksInv
  <1>3. PICK i : i = caller[c].input
    OBVIOUS
  <1>4. \A d \in Caller : ~AtStep(d, "rest")' => ~AtStep(d, "rest") /\ caller'[d].input = caller[d].input
    <2>1. CASE Load(c) \/ Decide(c)
      BY <1>1, <1>2, <2>1 DEF Load, Decide, Rests, AtStep, CallRow
    <2>2. CASE AcquireSlot(c) \/ Poll(c) \/ Answer(c) \/ KeepOrNot(c)
      <3>1. AcquireSlot(c) \/ Poll(c) \/ Answer(c) =>
               \E pc, verdict : caller' = [caller EXCEPT ![c].pc = pc, ![c].verdict = verdict]
                                \/ caller' = [caller EXCEPT ![c].pc = pc]
        BY DEF AcquireSlot, Poll, Answer, Goes, GivesUp
      <3>2. KeepOrNot(c) =>
               \E pc : caller' = [caller EXCEPT ![c].pc = pc, ![c].worker = Nothing]
                       \/ caller' = [caller EXCEPT ![c].pc = pc]
        BY DEF KeepOrNot, Goes
      <3>3. caller'[c].input = caller[c].input /\ \A d \in Caller \ {c} : caller'[d] = caller[d]
        <4>1. PICK g \in CallRow : g = caller[c]
          BY <1>1
        <4>2. PICK pc, verdict : \/ caller' = [caller EXCEPT ![c].pc = pc, ![c].verdict = verdict]
                                \/ caller' = [caller EXCEPT ![c].pc = pc]
                                \/ caller' = [caller EXCEPT ![c].pc = pc, ![c].worker = Nothing]
          BY <2>2, <3>1, <3>2
        <4>3. \/ caller' = [caller EXCEPT ![c] = [g EXCEPT !.pc = pc, !.verdict = verdict]]
              \/ caller' = [caller EXCEPT ![c] = [g EXCEPT !.pc = pc]]
              \/ caller' = [caller EXCEPT ![c] = [g EXCEPT !.pc = pc, !.worker = Nothing]]
          BY <4>1, <4>2
        <4>4. /\ [g EXCEPT !.pc = pc, !.verdict = verdict].input = g.input
              /\ [g EXCEPT !.pc = pc].input = g.input
              /\ [g EXCEPT !.pc = pc, !.worker = Nothing].input = g.input
          BY DEF CallRow
        <4> QED BY <1>1, <4>1, <4>3, <4>4
      <3> QED BY <1>2, <3>3 DEF AtStep
    <2>3. CASE Spawn(c) \/ Register(c) \/ CloseDisowned(c)
      BY <1>1, <1>2, <2>3 DEF Spawn, Register, CloseDisowned, Goes, GivesUp, AtStep, CallRow
    <2>4. CASE Cancel(c) \/ DeadlinePasses(c)
      BY <1>1, <1>2, <2>4 DEF Cancel, DeadlinePasses, AtStep, CallRow
    <2>5. CASE TakeWorker(c)
      <3>1. PICK p : p = IF idle = <<>> THEN Nothing ELSE Last(idle)
        OBVIOUS
      <3>2. PICK kept : kept = IF Usable(c, p) THEN p ELSE Nothing
        OBVIOUS
      <3>3. PICK stop : stop = Interruption(c)
        OBVIOUS
      <3>4. PICK pc : pc = IF stop # "none" THEN "keep"
                           ELSE IF kept = Nothing THEN "spawn" ELSE "wait"
        OBVIOUS
      <3>5. \/ caller' = [caller EXCEPT ![c].pc = "keep", ![c].verdict = "cancelled"]
            \/ caller' = [caller EXCEPT ![c].pc = pc, ![c].gen = generation,
                                        ![c].worker = kept, ![c].verdict = stop]
        BY <2>5, <3>1, <3>2, <3>3, <3>4, Zenon DEF TakeWorker, GivesUp
      <3>6. caller'[c].input = caller[c].input /\ \A d \in Caller \ {c} : caller'[d] = caller[d]
        BY <1>1, <3>5 DEF CallRow
      <3> QED BY <1>2, <3>6 DEF AtStep
    <2> QED BY <2>1, <2>2, <2>3, <2>4, <2>5 DEF CallerStep
  <1>5. /\ cached' \subseteq cached \cup {i}
        /\ \/ failure' = failure
           \/ \E x \in {"none", "cooling", "final", failure[i]} : failure' = [failure EXCEPT ![i] = x]
    <2>1. CASE Load(c) \/ Decide(c)
      BY <1>3, <2>1 DEF Load, Decide
    <2>2. CASE ~(Load(c) \/ Decide(c))
      BY <2>2 DEF CallerStep, AcquireSlot, TakeWorker, Spawn, Register, Poll, KeepOrNot,
                  CloseDisowned, Answer, Cancel, DeadlinePasses, Accident, Books, Notes
    <2> QED BY <2>1, <2>2
  <1>6. cached' \subseteq Input /\ failure' \in [Input -> {"none", "final", "cooling", "cooled"}]
    BY <1>2, <1>3, <1>5 DEF BooksInv
  <1> QED BY <1>4, <1>6 DEF BooksInv

\* So does every step.
LEMMA StepsKeepBooks ==
  ASSUME PoolInv, BooksInv, [PoolNext]_poolVars
  PROVE  BooksInv'
  <1>1. ASSUME NEW c \in Caller, NEW i \in Input, Analyze(c, i) PROVE BooksInv'
    <2>1. caller \in [Caller -> CallRow] /\ UNCHANGED <<failure, cached>>
      BY <1>1, PoolRows DEF Analyze
    <2>2. PICK r : r = [Resting EXCEPT !.pc = "load", !.input = i]
      OBVIOUS
    <2>3. r.input = i /\ caller' = [caller EXCEPT ![c] = r]
      BY <1>1, <2>2 DEF Analyze, Resting
    <2> QED BY <2>1, <2>3 DEF BooksInv, AtStep
  <1>2. ASSUME NEW i \in Input, CoolsDown(i) PROVE BooksInv'
    BY <1>2 DEF CoolsDown, BooksInv, AtStep
  <1>3. ASSUME UNCHANGED <<caller, failure, cached>> PROVE BooksInv'
    BY <1>3 DEF BooksInv, AtStep
  <1>4. (\E p \in Process : CloseDoomed(p) \/ ProcessDies(p)) \/ ClosePool \/ UNCHANGED poolVars
        => UNCHANGED <<caller, failure, cached>>
    BY DEF CloseDoomed, ProcessDies, ClosePool, Accident, Books, Notes, poolVars
  <1> QED BY <1>1, <1>2, <1>3, <1>4, BooksAreKept DEF PoolNext

\* The types of the pool, whoever runs and whoever does not.
LEMMA PoolIsTyped == PoolInit /\ [][PoolNext]_poolVars => []PoolTypeOK
  <1>1. PoolInit => ServedInv /\ BooksInv
    <2>1. ToSet(<<>>) = {}
      BY DEF ToSet
    <2> QED BY <2>1, PoolAssumption DEF PoolInit, ServedInv, BooksInv, Resting, NoProcess, AtStep
  <1>2. PoolInv /\ ServedInv /\ BooksInv => PoolTypeOK
    <2> SUFFICES ASSUME PoolInv, ServedInv, BooksInv PROVE PoolTypeOK
      OBVIOUS
    <2>1. ASSUME NEW c \in Caller
          PROVE  /\ caller[c].worker \in Process \cup {Nothing}
                 /\ caller[c].gen \in 0..generation /\ caller[c].try \in 1..2
                 /\ caller[c].verdict \in TryEnd
      <3>1. caller[c] \in CallRow /\ HandOK(c) /\ generation \in Nat
        BY DEF PoolInv, PoolTypes
      <3> QED BY <3>1 DEF HandOK, CallRow
    <2> QED BY <2>1 DEF PoolInv, PoolTypes, ServedInv, BooksInv, PoolTypeOK
  <1> QED BY <1>1, <1>2, PoolInitIsOK, PoolStepKeepsInv, StepsKeepServed, StepsKeepBooks, PTL

\* Every variable of the pool has its type: no worker answers more often than
\* it may before it is retired (MAX_WORKER_REQUESTS), and what is quarantined
\* or cached was asked for.
THEOREM PoolTypesHold == PoolSpec => []PoolTypeOK
  <1> QED BY PoolIsTyped, PTL DEF PoolSpec

-----------------------------------------------------------------------------
(* Workspaces: the inductive invariant *)

Copying == {"copying", "extend", "cloning"}
Preparing == {"enter", "pick", "leave", "clone"} \cup Copying
Publishing == {"source", "await", "prune", "seek", "reserve", "rename", "insert"}
UnderLock == {"pick", "leave", "copying", "extend", "prune", "seek", "reserve", "rename", "insert"}

WorkRow == [task : {"rest", "preparing", "using", "publishing", "cleaning"},
            thread : {"idle"} \cup Preparing \cup Publishing, key : SUBSET Commits,
            dir : 0..Dirs, cancel : BOOLEAN, wiping : BOOLEAN]
DirRow == [kind : {"none", "work", "prepared"}, whole : BOOLEAN, old : BOOLEAN]
PreparedRow == [state : {"none", "ready", "deleting"}, key : SUBSET Commits, expired : BOOLEAN]
GuardRow == [by : SUBSET (Client \cup {"maintain"}), loop : {"stale", "excess"},
             tried : SUBSET Dir, removing : 0..Dirs, source : 0..Dirs]
MaintRow == [pc : {"rest", "prune", "sweep", "classify", "reap"}, found : SUBSET Dir]

WorkTypes ==
    /\ client \in [Client -> WorkRow] /\ dir \in [Dir -> DirRow]
    /\ prepared \in [Dir -> PreparedRow] /\ guard \in GuardRow /\ maint \in MaintRow

\* What a request may say of its own directory.
ClientOK(c) ==
    LET t == client[c]
        d == t.dir
    IN  /\ t.task = "preparing" => t.thread \in Preparing
        /\ t.task = "using" => t.thread = "idle"
        /\ t.task = "publishing" => t.thread \in Publishing
        /\ t.task \in {"preparing", "using", "publishing"} => ~t.cancel
        /\ t.thread \in Preparing => t.task \in {"preparing", "rest"}
        /\ t.thread \in Publishing => t.task \in {"publishing", "cleaning", "rest"}
        /\ t.task \in {"rest", "cleaning"} /\ t.thread # "idle" => t.cancel
        /\ t.wiping => t.task = "cleaning"
        /\ t.task \in {"using", "publishing", "cleaning"} => d # 0
        /\ t.thread \in Publishing \cup Copying => d # 0
        /\ (t.thread \in Copying \/ t.task = "using"
            \/ (t.task = "publishing" /\ t.thread # "insert"))
           => dir[d].kind = "work" /\ d \notin maint.found
        /\ t.thread \in Copying => ~dir[d].old
        /\ t.thread = "extend" \/ t.task \in {"using", "publishing"} => dir[d].whole
        /\ t.thread = "insert" => dir[d].kind = "prepared" /\ prepared[d].state = "none"

OwnDirs ==
    \A c, e \in Client : Busy(c) /\ Busy(e) /\ client[c].dir = client[e].dir /\ c # e
                         => client[c].dir = 0

InUse(d) == prepared[d].state = "ready" /\ ~prepared[d].expired

\* Who holds the lock, and what for.
OneHolder == guard.by = {} \/ \E x \in Client \cup {"maintain"} : guard.by = {x}
HolderOK(c) == guard.by = {c} <=> client[c].thread \in UnderLock
LoopHolds == guard.by = {"maintain"} <=> maint.pc \in {"prune", "sweep"}

\* Only the holder of the lock removes, where it prunes or seeks a copy.
RemovingOK ==
    guard.removing # 0 =>
        /\ prepared[guard.removing].state # "none" /\ guard.by # {}
        /\ maint.pc # "sweep"
        /\ \A c \in Client : client[c].thread \in UnderLock
                             => client[c].thread \in {"pick", "prune", "reserve"}

\* What is being copied is still the only copy in use of its commits.
SourceOK(c) ==
    client[c].thread \in {"copying", "extend"} =>
        /\ guard.source # 0 /\ prepared[guard.source].state = "ready"
        /\ \A d \in Dir : InUse(d) /\ prepared[d].key = prepared[guard.source].key
                          => d = guard.source

GuardInv ==
    /\ OneHolder /\ LoopHolds /\ RemovingOK
    /\ \A c \in Client : HolderOK(c) /\ SourceOK(c)

\* What a row says of its directory.
RowOK(d) ==
    /\ prepared[d].state = "ready" => dir[d].kind = "prepared" /\ dir[d].whole
    /\ prepared[d].state # "none" => dir[d].kind # "work"

OneInUse ==
    \A d, e \in Dir : InUse(d) /\ InUse(e) /\ prepared[d].key = prepared[e].key => d = e

\* What the rows leave a request that is about to publish.
RoomFor(t) ==
    /\ t.thread \in {"rename", "insert"} => Cardinality(Rows) + 1 <= MaxEntries
    /\ t.thread \in {"reserve", "rename", "insert"}
       => \A d \in Dir : InUse(d) => prepared[d].key # t.key

RowsInv ==
    /\ \A d \in Dir : RowOK(d)
    /\ OneInUse /\ CapacityKept
    /\ \A c \in Client : RoomFor(client[c])

WorkspacesInv ==
    /\ WorkTypes /\ OwnDirs /\ GuardInv /\ RowsInv
    /\ \A c \in Client : ClientOK(c)

-----------------------------------------------------------------------------
(* Workspaces: lemmas *)

\* There is a least one among the unused names.
LEMMA NextDirIsFresh ==
  ASSUME Fresh # {}
  PROVE  /\ NextDir \in Dir /\ NextDir # 0 /\ NextDir \in 0..Dirs
         /\ dir[NextDir] = NoDir /\ prepared[NextDir] = NoRow /\ NextDir \notin maint.found
         /\ \A e \in Client : Busy(e) => client[e].dir # NextDir
  <1>1. Fresh \subseteq Dir /\ Dir \subseteq Nat /\ 0 \notin Dir /\ Dir \subseteq 0..Dirs
    BY WorkspacesAssumption DEF Fresh, Dir
  <1>2. PICK n \in Fresh : \A m \in Fresh : ~(<<m, n>> \in OpToRel(<, Nat))
    BY <1>1, WFMin, NatLessThanWellFounded
  <1>3. \A m \in Fresh : n <= m
    <2>1. \A m \in Fresh : ~(m < n)
      BY <1>1, <1>2 DEF OpToRel
    <2> QED BY <1>1, <2>1
  <1>4. NextDir \in Fresh
    BY <1>2, <1>3 DEF NextDir, Min
  <1> QED BY <1>1, <1>4 DEF Fresh

\* A request says nothing of a directory it has left, and what it says of its
\* own one stays true while the directory does.
LEMMA OtherStaysOK ==
  ASSUME WorkTypes, NEW e \in Client, ClientOK(e), client'[e] = client[e],
         maint'.found \subseteq maint.found \/ client[e].dir \notin maint'.found,
         Busy(e) /\ client[e].dir # 0
           => /\ dir'[client[e].dir] = dir[client[e].dir]
              /\ prepared'[client[e].dir].state = prepared[client[e].dir].state
  PROVE  ClientOK(e)'
  <1>1. CASE Busy(e) /\ client[e].dir # 0
    BY <1>1 DEF ClientOK
  <1>3. CASE Busy(e) /\ client[e].dir = 0
    BY <1>3 DEF ClientOK, Publishing, Copying
  <1>2. CASE ~Busy(e)
    BY <1>2 DEF ClientOK, Busy, Preparing, Publishing, Copying
  <1> QED BY <1>1, <1>2, <1>3

\* One request moves, and at most one directory changes, which has no row and
\* is nobody else's.
LEMMA ClientMoves ==
  ASSUME WorkspacesInv, NEW c \in Client, NEW h \in WorkRow, client' = [client EXCEPT ![c] = h],
         UNCHANGED <<prepared, maint>>,
         NEW p \in 0..Dirs, dir' \in [Dir -> DirRow],
         \A d \in Dir \ {p} : dir'[d] = dir[d],
         p # 0 => /\ prepared[p].state = "none"
                  /\ \A e \in Client \ {c} : Busy(e) => client[e].dir # p,
         h.dir # 0 => h.dir = p \/ (Busy(c) /\ h.dir = client[c].dir),
         guard' \in GuardRow, ClientOK(c)', GuardInv', RoomFor(h)
  PROVE  WorkspacesInv'
  <1>1. WorkTypes' /\ WorkTypes /\ client'[c] = h /\ \A e \in Client \ {c} : client'[e] = client[e]
    BY DEF WorkspacesInv, WorkTypes
  <1>2. \A e \in Client \ {c} : Busy(e)' <=> Busy(e)
    BY <1>1 DEF Busy
  <1>3. OwnDirs'
    BY <1>1, <1>2 DEF WorkspacesInv, OwnDirs
  <1>4. \A d \in Dir : prepared[d].state # "none" => dir'[d] = dir[d]
    BY DEF Dir
  <1>5. RowsInv'
    <2>1. Cardinality(Rows') = Cardinality(Rows)
      BY DEF Rows
    <2>2. \A d \in Dir : InUse(d)' <=> InUse(d)
      BY DEF InUse
    <2>3. \A d \in Dir : RowOK(d)'
      BY <1>4 DEF WorkspacesInv, RowsInv, RowOK
    <2>4. OneInUse'
      BY <2>2 DEF WorkspacesInv, RowsInv, OneInUse
    <2>5. ASSUME NEW e \in Client
          PROVE  RoomFor(client[e])'
      <3>1. CASE e = c
        BY <1>1, <2>1, <2>2, <3>1 DEF RoomFor
      <3>2. CASE e # c
        BY <1>1, <2>1, <2>2, <3>2 DEF WorkspacesInv, RowsInv, RoomFor
      <3> QED BY <3>1, <3>2
    <2>6. CapacityKept'
      BY <2>1 DEF WorkspacesInv, RowsInv, CapacityKept
    <2> QED BY <2>3, <2>4, <2>5, <2>6 DEF RowsInv
  <1>6. ASSUME NEW e \in Client \ {c}
        PROVE  ClientOK(e)'
    <2>1. ClientOK(e) /\ client[e].dir \in 0..Dirs
      BY <1>1 DEF WorkspacesInv, WorkTypes, WorkRow
    <2>2. Busy(e) /\ client[e].dir # 0 => dir'[client[e].dir] = dir[client[e].dir]
      BY <2>1, WorkspacesAssumption DEF Dir
    <2> QED BY <1>1, <2>1, <2>2, OtherStaysOK
  <1> QED BY <1>1, <1>3, <1>5, <1>6 DEF WorkspacesInv

\* The lock, as far as a request can move it: it keeps it or leaves it alone,
\* takes it when it is free, or lets it go.
LEMMA GuardMoves ==
  ASSUME WorkspacesInv, NEW c \in Client, NEW h \in WorkRow, client' = [client EXCEPT ![c] = h],
         UNCHANGED <<prepared, maint>>, guard' \in GuardRow,
         \/ guard'.by = guard.by /\ (h.thread \in UnderLock <=> client[c].thread \in UnderLock)
         \/ guard.by = {} /\ guard'.by = {c} /\ h.thread \in UnderLock
         \/ client[c].thread \in UnderLock /\ guard'.by = {} /\ h.thread \notin UnderLock,
         guard'.removing # 0 =>
           /\ prepared[guard'.removing].state # "none" /\ guard'.by = guard.by
           /\ guard'.removing = guard.removing \/ client[c].thread \in UnderLock
           /\ h.thread \in UnderLock => h.thread \in {"pick", "prune", "reserve"},
         \/ guard'.source = guard.source
         \/ client[c].thread \in UnderLock \/ guard.by = {},
         h.thread \in {"copying", "extend"} =>
           /\ guard'.source # 0 /\ prepared[guard'.source].state = "ready"
           /\ \A d \in Dir : InUse(d) /\ prepared[d].key = prepared[guard'.source].key
                             => d = guard'.source
  PROVE  GuardInv'
  <1>1. /\ client'[c] = h /\ \A e \in Client \ {c} : client'[e] = client[e]
        /\ prepared' = prepared /\ maint' = maint
    BY DEF WorkspacesInv, WorkTypes
  <1>2. /\ OneHolder /\ LoopHolds /\ RemovingOK /\ HolderOK(c)
        /\ \A e \in Client : HolderOK(e) /\ SourceOK(e)
    BY DEF WorkspacesInv, GuardInv
  <1>3. guard.by = {} \/ \E x \in Client \cup {"maintain"} : guard.by = {x}
    BY <1>2 DEF OneHolder
  <1>4. c # "maintain"
    BY WorkspacesAssumption
  <1>5. OneHolder'
    BY <1>3 DEF OneHolder
  <1>6. LoopHolds'
    BY <1>1, <1>2, <1>4 DEF LoopHolds, HolderOK
  <1>7. ASSUME NEW e \in Client
        PROVE  HolderOK(e)'
    <2>1. CASE e = c
      BY <1>1, <1>2, <2>1 DEF HolderOK
    <2>2. CASE e # c
      BY <1>1, <1>2, <2>2 DEF HolderOK
    <2> QED BY <2>1, <2>2
  <1>8. RemovingOK'
    <2> SUFFICES ASSUME guard'.removing # 0
                 PROVE  /\ prepared'[guard'.removing].state # "none" /\ guard'.by # {}
                        /\ maint'.pc # "sweep"
                        /\ \A e \in Client : client'[e].thread \in UnderLock
                                  => client'[e].thread \in {"pick", "prune", "reserve"}
      BY DEF RemovingOK
    <2>1. CASE client[c].thread \in UnderLock
      <3>1. guard.by = {c} /\ guard.by # {"maintain"} /\ guard.by # {}
        BY <1>2, <1>4, <2>1 DEF HolderOK
      <3>2. maint.pc # "sweep"
        BY <1>2, <3>1 DEF LoopHolds
      <3>3. \A e \in Client \ {c} : client[e].thread \notin UnderLock
        BY <1>2, <3>1 DEF HolderOK
      <3> QED BY <1>1, <3>1, <3>2, <3>3
    <2>2. CASE client[c].thread \notin UnderLock
      BY <1>1, <1>2, <2>2 DEF RemovingOK
    <2> QED BY <2>1, <2>2
  <1>9. ASSUME NEW e \in Client
        PROVE  SourceOK(e)'
    <2>1. CASE e = c
      BY <1>1, <2>1 DEF SourceOK, InUse
    <2>2. CASE e # c /\ client[e].thread \in {"copying", "extend"}
      <3>1. guard.by = {e} /\ guard.by # {}
        BY <1>2, <2>2 DEF HolderOK, UnderLock
      <3>2. client[c].thread \notin UnderLock
        BY <1>2, <2>2, <3>1 DEF HolderOK
      <3>3. guard'.source = guard.source
        BY <3>1, <3>2
      <3> QED BY <1>1, <1>2, <2>2, <3>3 DEF SourceOK, InUse
    <2>3. CASE e # c /\ client[e].thread \notin {"copying", "extend"}
      BY <1>1, <2>3 DEF SourceOK
    <2> QED BY <2>1, <2>2, <2>3
  <1> QED BY <1>5, <1>6, <1>7, <1>8, <1>9 DEF GuardInv

\* Once the lock is let go nobody claims anything of it.
LEMMA GuardFreed ==
  ASSUME WorkspacesInv, NEW c \in Client, NEW h \in WorkRow, client' = [client EXCEPT ![c] = h],
         client[c].thread \in UnderLock, h.thread \notin UnderLock, guard' = FreeGuard, UNCHANGED maint
  PROVE  GuardInv' /\ guard' \in GuardRow
  <1>1. /\ client'[c] = h /\ \A e \in Client \ {c} : client'[e] = client[e]
        /\ guard'.by = {} /\ guard'.removing = 0 /\ guard' \in GuardRow
    BY WorkspacesAssumption DEF WorkspacesInv, WorkTypes, FreeGuard, GuardRow
  <1>2. guard.by = {c} /\ guard.by # {"maintain"}
    BY WorkspacesAssumption DEF WorkspacesInv, GuardInv, HolderOK
  <1>3. \A e \in Client : client'[e].thread \notin UnderLock
    BY <1>1, <1>2 DEF WorkspacesInv, GuardInv, HolderOK
  <1>4. maint'.pc \notin {"prune", "sweep"}
    BY <1>2 DEF WorkspacesInv, GuardInv, LoopHolds
  <1>5. OneHolder' /\ LoopHolds' /\ RemovingOK'
    BY <1>1, <1>4 DEF OneHolder, LoopHolds, RemovingOK
  <1>6. \A e \in Client : HolderOK(e)' /\ SourceOK(e)'
    BY <1>1, <1>3 DEF HolderOK, SourceOK, UnderLock
  <1> QED BY <1>1, <1>5, <1>6 DEF GuardInv

\* A request moves and no directory changes.
LEMMA StaysPut ==
  ASSUME WorkspacesInv, NEW c \in Client, NEW h \in WorkRow, client' = [client EXCEPT ![c] = h],
         UNCHANGED <<dir, prepared, maint>>, h.dir # 0 => Busy(c) /\ h.dir = client[c].dir,
         guard' \in GuardRow, ClientOK(c)', GuardInv', RoomFor(h)
  PROVE  WorkspacesInv'
  <1>1. PICK p \in 0..Dirs : p = 0
    BY WorkspacesAssumption
  <1>2. dir' \in [Dir -> DirRow] /\ \A d \in Dir \ {p} : dir'[d] = dir[d]
    BY DEF WorkspacesInv, WorkTypes
  <1> QED BY <1>1, <1>2, ClientMoves

\* A request changes its own directory, which has no row.
LEMMA OwnDirMoves ==
  ASSUME WorkspacesInv, NEW c \in Client, NEW h \in WorkRow, client' = [client EXCEPT ![c] = h],
         UNCHANGED <<prepared, maint>>, Busy(c), h.dir = client[c].dir,
         NEW n \in DirRow, dir' = [dir EXCEPT ![client[c].dir] = n], client[c].dir # 0,
         prepared[client[c].dir].state = "none",
         guard' \in GuardRow, ClientOK(c)', GuardInv', RoomFor(h)
  PROVE  WorkspacesInv'
  <1>1. PICK p \in 0..Dirs : p = client[c].dir
    BY DEF WorkspacesInv, WorkTypes, WorkRow
  <1>2. dir' \in [Dir -> DirRow] /\ \A d \in Dir \ {p} : dir'[d] = dir[d]
    BY <1>1 DEF WorkspacesInv, WorkTypes
  <1>3. \A e \in Client \ {c} : Busy(e) => client[e].dir # p
    BY <1>1 DEF WorkspacesInv, OwnDirs
  <1> QED BY <1>1, <1>2, <1>3, ClientMoves

\* A request goes on in a new directory.
LEMMA NewDirMoves ==
  ASSUME WorkspacesInv, NEW c \in Client, NEW h \in WorkRow, client' = [client EXCEPT ![c] = h],
         UNCHANGED <<prepared, maint>>, Fresh # {}, h.dir = NextDir,
         dir' = [dir EXCEPT ![NextDir] = [NoDir EXCEPT !.kind = "work"]],
         guard' \in GuardRow, ClientOK(c)', GuardInv', RoomFor(h)
  PROVE  WorkspacesInv'
  <1>1. PICK p \in 0..Dirs : p = NextDir
    BY NextDirIsFresh
  <1>2. [NoDir EXCEPT !.kind = "work"] \in DirRow
    BY DEF NoDir, DirRow
  <1>3. dir' \in [Dir -> DirRow] /\ \A d \in Dir \ {p} : dir'[d] = dir[d]
    BY <1>1, <1>2 DEF WorkspacesInv, WorkTypes
  <1>4. prepared[p].state = "none" /\ \A e \in Client \ {c} : Busy(e) => client[e].dir # p
    BY <1>1, NextDirIsFresh DEF NoRow
  <1> QED BY <1>1, <1>3, <1>4, ClientMoves

\* The lock stays as it is, and so does what its holder may do.
LEMMA GuardStays ==
  ASSUME WorkspacesInv, NEW c \in Client, NEW h \in WorkRow, client' = [client EXCEPT ![c] = h],
         UNCHANGED <<prepared, maint, guard>>,
         \/ h.thread = client[c].thread
         \/ /\ h.thread \in UnderLock <=> client[c].thread \in UnderLock
            /\ guard.removing = 0 \/ client[c].thread \notin UnderLock
            /\ h.thread \in {"copying", "extend"} => client[c].thread \in {"copying", "extend"}
  PROVE  GuardInv' /\ guard' \in GuardRow
  <1>1. guard' \in GuardRow /\ guard' = guard /\ SourceOK(c) /\ RemovingOK
    BY DEF WorkspacesInv, WorkTypes, GuardInv
  <1>2. guard.removing # 0 => /\ prepared[guard.removing].state # "none"
                              /\ h.thread \in UnderLock => h.thread \in {"pick", "prune", "reserve"}
    BY <1>1 DEF RemovingOK
  <1>3. h.thread \in {"copying", "extend"} =>
           /\ guard'.source # 0 /\ prepared[guard'.source].state = "ready"
           /\ \A d \in Dir : InUse(d) /\ prepared[d].key = prepared[guard'.source].key
                             => d = guard'.source
    BY <1>1 DEF SourceOK
  <1>4. h.thread \in UnderLock <=> client[c].thread \in UnderLock
    OBVIOUS
  <1>5. guard'.removing # 0 =>
           /\ prepared[guard'.removing].state # "none" /\ guard'.by = guard.by
           /\ guard'.removing = guard.removing \/ client[c].thread \in UnderLock
           /\ h.thread \in UnderLock => h.thread \in {"pick", "prune", "reserve"}
    BY <1>1, <1>2
  <1> QED BY <1>1, <1>3, <1>4, <1>5, GuardMoves

\* The lock is taken.
LEMMA GuardTaken ==
  ASSUME WorkspacesInv, NEW c \in Client, NEW h \in WorkRow, client' = [client EXCEPT ![c] = h],
         UNCHANGED <<prepared, maint>>, Takes(c), h.thread \in {"leave", "pick", "prune"}
  PROVE  GuardInv' /\ guard' \in GuardRow
  <1>1. /\ guard.by = {} /\ guard'.by = {c} /\ guard'.removing = 0 /\ guard' \in GuardRow
    BY WorkspacesAssumption DEF Takes, FreeGuard, GuardRow
  <1>2. h.thread \in UnderLock /\ h.thread \notin {"copying", "extend"}
    BY DEF UnderLock
  <1> QED BY <1>1, <1>2, GuardMoves

\* The row of a request whose thread goes on.
LEMMA ThreadRow ==
  ASSUME WorkTypes, NEW c \in Client, NEW pc \in {"idle"} \cup Preparing \cup Publishing,
         Thread(c, pc)
  PROVE  \E h \in WorkRow :
           /\ client' = [client EXCEPT ![c] = h] /\ client'[c] = h
           /\ h.thread = pc /\ h.task = client[c].task /\ h.key = client[c].key
           /\ h.dir = client[c].dir /\ h.cancel = client[c].cancel /\ h.wiping = client[c].wiping
  <1> DEFINE h == [client[c] EXCEPT !.thread = pc]
  <1>1. client[c] \in WorkRow
    BY DEF WorkTypes
  <1>2. /\ h \in WorkRow /\ h.thread = pc /\ h.task = client[c].task /\ h.key = client[c].key
        /\ h.dir = client[c].dir /\ h.cancel = client[c].cancel /\ h.wiping = client[c].wiping
    BY <1>1 DEF WorkRow
  <1>3. client' = [client EXCEPT ![c] = h] /\ client'[c] = h
    BY DEF WorkTypes, Thread
  <1> QED BY <1>2, <1>3

\* The same, in another directory.
LEMMA ThreadInRow ==
  ASSUME WorkTypes, NEW c \in Client, NEW pc \in {"idle"} \cup Preparing \cup Publishing,
         NEW d \in 0..Dirs, ThreadIn(c, pc, d)
  PROVE  \E h \in WorkRow :
           /\ client' = [client EXCEPT ![c] = h] /\ client'[c] = h
           /\ h.thread = pc /\ h.task = client[c].task /\ h.key = client[c].key
           /\ h.dir = d /\ h.cancel = client[c].cancel /\ h.wiping = client[c].wiping
  <1> DEFINE h == [client[c] EXCEPT !.thread = pc, !.dir = d]
  <1>1. client[c] \in WorkRow
    BY DEF WorkTypes
  <1>2. /\ h \in WorkRow /\ h.thread = pc /\ h.task = client[c].task /\ h.key = client[c].key
        /\ h.dir = d /\ h.cancel = client[c].cancel /\ h.wiping = client[c].wiping
    BY <1>1 DEF WorkRow
  <1>3. client' = [client EXCEPT ![c] = h] /\ client'[c] = h
    BY DEF WorkTypes, ThreadIn
  <1> QED BY <1>2, <1>3

\* The row of a request whose thread has returned: its task goes on, if it waited.
LEMMA ReturnedRow ==
  ASSUME WorkTypes, NEW c \in Client, Returned(c)
  PROVE  \E h \in WorkRow :
           /\ client' = [client EXCEPT ![c] = h] /\ client'[c] = h
           /\ h.thread = "idle" /\ h.key = client[c].key /\ h.dir = client[c].dir
           /\ h.cancel = client[c].cancel /\ h.wiping = client[c].wiping
           /\ client[c].task \notin {"preparing", "publishing"} => h.task = client[c].task
           /\ client[c].task = "publishing" => h.task = "cleaning"
           /\ client[c].task = "preparing" => h.task = "using"
  <1>1. client[c] \in WorkRow
    BY DEF WorkTypes
  <1> DEFINE h == [client[c] EXCEPT !.thread = "idle",
               !.task = CASE @ = "preparing" -> "using" [] @ = "publishing" -> "cleaning"
                          [] OTHER -> @]
  <1>2. /\ h \in WorkRow /\ h.thread = "idle" /\ h.key = client[c].key
        /\ h.dir = client[c].dir /\ h.cancel = client[c].cancel /\ h.wiping = client[c].wiping
        /\ client[c].task \notin {"preparing", "publishing"} => h.task = client[c].task
        /\ client[c].task = "publishing" => h.task = "cleaning"
        /\ client[c].task = "preparing" => h.task = "using"
    BY <1>1 DEF WorkRow
  <1>3. client' = [client EXCEPT ![c] = h] /\ client'[c] = h
    BY DEF WorkTypes, Returned
  <1> QED BY <1>2, <1>3

\* The row of a request whose thread has raised an exception: its task goes on, if it waited.
LEMMA RaisedRow ==
  ASSUME WorkTypes, NEW c \in Client, Raised(c)
  PROVE  \E h \in WorkRow :
           /\ client' = [client EXCEPT ![c] = h] /\ client'[c] = h
           /\ h.thread = "idle" /\ h.key = client[c].key /\ h.dir = client[c].dir
           /\ h.cancel = client[c].cancel /\ h.wiping = client[c].wiping
           /\ client[c].task \notin {"preparing", "publishing"} => h.task = client[c].task
           /\ client[c].task = "publishing" => h.task = "cleaning"
           /\ client[c].task = "preparing" => h.task = "rest"
  <1>1. client[c] \in WorkRow
    BY DEF WorkTypes
  <1> DEFINE h == [client[c] EXCEPT !.thread = "idle",
               !.task = CASE @ = "preparing" -> "rest" [] @ = "publishing" -> "cleaning"
                          [] OTHER -> @]
  <1>2. /\ h \in WorkRow /\ h.thread = "idle" /\ h.key = client[c].key
        /\ h.dir = client[c].dir /\ h.cancel = client[c].cancel /\ h.wiping = client[c].wiping
        /\ client[c].task \notin {"preparing", "publishing"} => h.task = client[c].task
        /\ client[c].task = "publishing" => h.task = "cleaning"
        /\ client[c].task = "preparing" => h.task = "rest"
    BY <1>1 DEF WorkRow
  <1>3. client' = [client EXCEPT ![c] = h] /\ client'[c] = h
    BY DEF WorkTypes, Raised
  <1> QED BY <1>2, <1>3

-----------------------------------------------------------------------------
(* Workspaces: every step keeps the invariant *)

\* What the invariant says of one request, ready for use.
LEMMA OneRequest ==
  ASSUME WorkspacesInv, NEW c \in Client
  PROVE  /\ WorkTypes /\ ClientOK(c) /\ RoomFor(client[c]) /\ HolderOK(c) /\ SourceOK(c)
         /\ client[c] \in WorkRow
         /\ client[c].thread \in UnderLock \ {"pick", "prune", "reserve"} => guard.removing = 0
         /\ client[c].dir # 0 => client[c].dir \in Dir
         /\ client[c].dir # 0 /\ dir[client[c].dir].kind = "work"
            => prepared[client[c].dir].state = "none"
  <1>1. /\ WorkTypes /\ ClientOK(c) /\ RoomFor(client[c]) /\ HolderOK(c) /\ SourceOK(c) /\ RemovingOK
        /\ client[c] \in WorkRow
    BY DEF WorkspacesInv, RowsInv, GuardInv, WorkTypes
  <1>2. client[c].thread \in UnderLock \ {"pick", "prune", "reserve"} => guard.removing = 0
    BY <1>1 DEF RemovingOK
  <1>3. client[c].dir # 0 => client[c].dir \in Dir
    BY <1>1, WorkspacesAssumption DEF WorkRow, Dir
  <1>4. client[c].dir # 0 => RowOK(client[c].dir)
    BY <1>3 DEF WorkspacesInv, RowsInv
  <1> QED BY <1>1, <1>2, <1>3, <1>4 DEF RowOK

\* A request comes.
LEMMA AsksKeepsInv ==
  ASSUME WorkspacesInv, NEW c \in Client, NEW k \in Commits, Asks(c, k)
  PROVE  WorkspacesInv'
  <1>1. WorkTypes /\ client[c].thread = "idle"
    BY DEF WorkspacesInv, Asks, Busy
  <1>2. PICK h \in WorkRow :
           /\ client' = [client EXCEPT ![c] = h] /\ client'[c] = h /\ h.task = "preparing"
           /\ h.thread = "enter" /\ h.dir = 0 /\ ~h.cancel /\ ~h.wiping
    <2>1. "enter" \in Preparing
      BY DEF Preparing
    <2> DEFINE i1 == [Idler EXCEPT !.task = "preparing"]
               i2 == [i1 EXCEPT !.thread = "enter"]
               h == [i2 EXCEPT !.key = {k}]
    <2>2. Idler \in WorkRow /\ Idler.dir = 0 /\ ~Idler.cancel /\ ~Idler.wiping
      BY WorkspacesAssumption DEF Idler, WorkRow
    <2>3. i1 \in WorkRow /\ i1.dir = 0 /\ ~i1.cancel /\ ~i1.wiping /\ i1.task = "preparing"
      BY <2>2 DEF WorkRow
    <2>4. /\ i2 \in WorkRow /\ i2.dir = 0 /\ ~i2.cancel /\ ~i2.wiping /\ i2.task = "preparing"
          /\ i2.thread = "enter"
      BY <2>1, <2>3 DEF WorkRow
    <2>5. /\ h \in WorkRow /\ h.dir = 0 /\ ~h.cancel /\ ~h.wiping /\ h.task = "preparing"
          /\ h.thread = "enter"
      BY <2>4 DEF WorkRow
    <2>6. client' = [client EXCEPT ![c] = h] /\ client'[c] = h
      BY <1>1 DEF Asks, WorkTypes
    <2> HIDE DEF h
    <2> QED BY <2>5, <2>6
  <1>3. ClientOK(c)'
    BY <1>2 DEF ClientOK, Preparing, Copying, Publishing
  <1>4. UNCHANGED <<dir, prepared, guard, maint>>
    BY DEF Asks
  <1>5. GuardInv' /\ guard' \in GuardRow
    BY <1>1, <1>2, <1>4, GuardStays DEF UnderLock
  <1>6. RoomFor(h)
    BY <1>2 DEF RoomFor
  <1> QED BY <1>2, <1>3, <1>4, <1>5, <1>6, StaysPut

\* The task of a request goes on.
LEMMA TaskKeepsInv ==
  ASSUME WorkspacesInv, NEW c \in Client, Publishes(c) \/ Finishes(c) \/ Cancelled(c)
  PROVE  WorkspacesInv'
  <1>1. /\ WorkTypes /\ ClientOK(c) /\ RoomFor(client[c]) /\ client[c] \in WorkRow
        /\ client \in [Client -> WorkRow]
    BY OneRequest DEF WorkTypes
  <1>2. UNCHANGED <<dir, prepared, guard, maint>> /\ Busy(c)
    BY DEF Publishes, Finishes, Cancelled, Busy
  <1>3. CASE Publishes(c)
    <2>1. "source" \in Publishing
      BY DEF Publishing
    <2>2. PICK h \in WorkRow :
             /\ client' = [client EXCEPT ![c] = h] /\ client'[c] = h /\ h.task = "publishing"
             /\ h.thread = "source" /\ h.dir = client[c].dir /\ h.cancel = client[c].cancel
             /\ h.wiping = client[c].wiping
      <3> DEFINE h == [client[c] EXCEPT !.task = "publishing", !.thread = "source"]
      <3>1. /\ h \in WorkRow /\ h.task = "publishing" /\ h.thread = "source" /\ h.dir = client[c].dir
            /\ h.cancel = client[c].cancel /\ h.wiping = client[c].wiping
        BY <1>1, <2>1 DEF WorkRow
      <3>2. client' = [client EXCEPT ![c] = h] /\ client'[c] = h
        BY <1>1, <1>3 DEF Publishes
      <3> QED BY <3>1, <3>2
    <2>3. client[c].task = "using" /\ client[c].thread = "idle"
      BY <1>1, <1>3 DEF Publishes, ClientOK
    <2>4. ClientOK(c)'
      BY <1>1, <1>2, <2>2, <2>3 DEF ClientOK, Preparing, Copying, Publishing
    <2>5. GuardInv' /\ guard' \in GuardRow
      BY <1>2, <2>2, <2>3, GuardStays DEF UnderLock
    <2>6. RoomFor(h)
      BY <2>2 DEF RoomFor
    <2> QED BY <1>2, <2>2, <2>4, <2>5, <2>6, StaysPut
  <1>4. CASE Finishes(c)
    <2>1. PICK h \in WorkRow :
             /\ client' = [client EXCEPT ![c] = h] /\ client'[c] = h /\ h.task = "cleaning"
             /\ h.thread = client[c].thread /\ h.dir = client[c].dir
             /\ h.wiping = client[c].wiping
      <3> DEFINE h == [client[c] EXCEPT !.task = "cleaning", !.cancel = TRUE]
      <3>1. /\ h \in WorkRow /\ h.task = "cleaning" /\ h.thread = client[c].thread
            /\ h.dir = client[c].dir /\ h.wiping = client[c].wiping
        BY <1>1 DEF WorkRow
      <3>2. client' = [client EXCEPT ![c] = h] /\ client'[c] = h
        BY <1>1, <1>4 DEF Finishes
      <3> QED BY <3>1, <3>2
    <2>2. client[c].task = "using" /\ client[c].thread = "idle"
      BY <1>1, <1>4 DEF Finishes, ClientOK
    <2>3. ClientOK(c)'
      BY <1>1, <2>1, <2>2 DEF ClientOK, Preparing, Copying, Publishing
    <2>4. GuardInv' /\ guard' \in GuardRow
      BY <1>2, <2>1, GuardStays
    <2>5. RoomFor(h)
      BY <2>1, <2>2 DEF RoomFor
    <2> QED BY <1>2, <2>1, <2>3, <2>4, <2>5, StaysPut
  <1>5. CASE Cancelled(c)
    <2>1. PICK h \in WorkRow :
             /\ client' = [client EXCEPT ![c] = h] /\ client'[c] = h /\ h.cancel
             /\ h.task = IF client[c].task = "preparing" THEN "rest" ELSE "cleaning"
             /\ h.thread = client[c].thread /\ h.dir = client[c].dir /\ h.key = client[c].key
             /\ h.wiping = client[c].wiping
      <3> DEFINE h == [client[c] EXCEPT !.cancel = TRUE,
                         !.task = IF @ = "preparing" THEN "rest" ELSE "cleaning"]
      <3>1. /\ h \in WorkRow /\ h.cancel
            /\ h.task = IF client[c].task = "preparing" THEN "rest" ELSE "cleaning"
            /\ h.thread = client[c].thread /\ h.dir = client[c].dir /\ h.key = client[c].key
            /\ h.wiping = client[c].wiping
        BY <1>1 DEF WorkRow
      <3>2. client' = [client EXCEPT ![c] = h] /\ client'[c] = h
        BY <1>1, <1>5 DEF Cancelled
      <3> QED BY <3>1, <3>2
    <2>2. client[c].task \in {"preparing", "using", "publishing"} /\ ~client[c].wiping
      BY <1>1, <1>5 DEF Cancelled, ClientOK
    <2>3. ClientOK(c)'
      BY <1>1, <1>2, <2>1, <2>2 DEF ClientOK, Preparing, Copying, Publishing
    <2>4. GuardInv' /\ guard' \in GuardRow
      BY <1>2, <2>1, GuardStays
    <2>5. RoomFor(h)
      BY <1>1, <2>1 DEF RoomFor
    <2> QED BY <1>2, <2>1, <2>3, <2>4, <2>5, StaysPut
  <1> QED BY <1>3, <1>4, <1>5

\* What is left of a directory when it is cleaned up, well or badly.
LEMMA CleanupIs ==
  ASSUME WorkTypes, NEW d \in Dir, Cleanup(d)
  PROVE  \E n \in DirRow : dir' = [dir EXCEPT ![d] = n] /\ (n = NoDir \/ n.kind = dir[d].kind)
  <1>1. NoDir \in DirRow /\ dir[d] \in DirRow
    BY DEF NoDir, DirRow, WorkTypes
  <1>2. CASE Wiped(d)
    BY <1>1, <1>2 DEF Wiped
  <1>3. CASE Clings(d)
    <2> DEFINE n == [dir[d] EXCEPT !.whole = FALSE]
    <2>1. n \in DirRow /\ n.kind = dir[d].kind /\ dir' = [dir EXCEPT ![d] = n]
      BY <1>1, <1>3 DEF Clings, DirRow, WorkTypes
    <2> QED BY <2>1
  <1> QED BY <1>2, <1>3 DEF Cleanup

\* A task cleans up what it worked in.
LEMMA CleaningKeepsInv ==
  ASSUME WorkspacesInv, NEW c \in Client, CleansUp(c) \/ CleanedUp(c)
  PROVE  WorkspacesInv'
  <1>1. /\ WorkTypes /\ ClientOK(c) /\ RoomFor(client[c]) /\ client[c] \in WorkRow
        /\ client \in [Client -> WorkRow] /\ dir \in [Dir -> DirRow]
    BY OneRequest DEF WorkTypes
  <1>2. client[c].task = "cleaning" /\ UNCHANGED <<prepared, guard, maint>>
    BY <1>1 DEF CleansUp, CleanedUp, ClientOK
  <1>3. /\ client[c].dir # 0 /\ client[c].dir \in Dir /\ Busy(c)
        /\ client[c].thread \notin Preparing
    BY <1>1, <1>2, OneRequest DEF ClientOK, Busy
  <1>4. PICK h \in WorkRow :
           /\ client' = [client EXCEPT ![c] = h] /\ client'[c] = h
           /\ h.thread = client[c].thread /\ h.dir = client[c].dir /\ h.key = client[c].key
           /\ h.cancel = client[c].cancel
           /\ \/ h.task = "cleaning" /\ h.wiping
              \/ h.task = "rest" /\ ~h.wiping
    <2>1. CASE CleansUp(c) /\ dir[client[c].dir].kind = "work"
      <3> DEFINE h == [client[c] EXCEPT !.wiping = TRUE]
      <3>1. /\ h \in WorkRow /\ h.task = "cleaning" /\ h.wiping
            /\ h.thread = client[c].thread /\ h.dir = client[c].dir /\ h.key = client[c].key
            /\ h.cancel = client[c].cancel
        BY <1>1, <1>2 DEF WorkRow
      <3>2. client' = [client EXCEPT ![c] = h] /\ client'[c] = h
        BY <1>1, <2>1 DEF CleansUp
      <3> QED BY <3>1, <3>2
    <2>2. CASE CleansUp(c) /\ dir[client[c].dir].kind # "work"
      <3> DEFINE h == [client[c] EXCEPT !.task = "rest"]
      <3>1. /\ h \in WorkRow /\ h.task = "rest" /\ ~h.wiping
            /\ h.thread = client[c].thread /\ h.dir = client[c].dir /\ h.key = client[c].key
            /\ h.cancel = client[c].cancel
        BY <1>1, <2>2 DEF WorkRow, CleansUp
      <3>2. client' = [client EXCEPT ![c] = h] /\ client'[c] = h
        BY <1>1, <2>2 DEF CleansUp
      <3> QED BY <3>1, <3>2
    <2>3. CASE CleanedUp(c)
      <3> DEFINE h == [client[c] EXCEPT !.task = "rest", !.wiping = FALSE]
      <3>1. /\ h \in WorkRow /\ h.task = "rest" /\ ~h.wiping
            /\ h.thread = client[c].thread /\ h.dir = client[c].dir /\ h.key = client[c].key
            /\ h.cancel = client[c].cancel
        BY <1>1 DEF WorkRow
      <3>2. client' = [client EXCEPT ![c] = h] /\ client'[c] = h
        BY <1>1, <2>3 DEF CleanedUp
      <3> QED BY <3>1, <3>2
    <2> QED BY <2>1, <2>2, <2>3
  <1>5. RoomFor(h) /\ GuardInv' /\ guard' \in GuardRow
    <2>1. RoomFor(h)
      BY <1>1, <1>4 DEF RoomFor
    <2> QED BY <1>2, <1>4, <2>1, GuardStays
  <1>6. CASE dir[client[c].dir].kind = "work"
    <2>1. PICK n \in DirRow : dir' = [dir EXCEPT ![client[c].dir] = n]
      <3>1. CASE CleansUp(c)
        <4> DEFINE n == [dir[client[c].dir] EXCEPT !.whole = FALSE]
        <4>1. n \in DirRow /\ dir' = [dir EXCEPT ![client[c].dir] = n]
          BY <1>1, <1>3, <1>6, <3>1 DEF CleansUp, DirRow
        <4> QED BY <4>1
      <3>2. CASE CleanedUp(c)
        <4>1. Cleanup(client[c].dir)
          BY <1>6, <3>2 DEF CleanedUp
        <4>2. PICK d \in Dir : d = client[c].dir
          BY <1>3
        <4>3. Cleanup(d)
          BY <4>1, <4>2
        <4> QED BY <1>1, <4>2, <4>3, CleanupIs
      <3> QED BY <3>1, <3>2
    <2>2. ClientOK(c)'
      BY <1>1, <1>2, <1>3, <1>4, <1>6 DEF ClientOK, Preparing, Copying, Publishing
    <2>3. prepared[client[c].dir].state = "none"
      BY <1>3, <1>6, OneRequest
    <2> QED BY <1>2, <1>3, <1>4, <1>5, <2>1, <2>2, <2>3, OwnDirMoves
  <1>7. CASE dir[client[c].dir].kind # "work"
    <2>1. UNCHANGED dir
      BY <1>7 DEF CleansUp, CleanedUp
    <2>2. ClientOK(c)'
      BY <1>1, <1>2, <1>3, <1>4, <2>1 DEF ClientOK, Preparing, Copying, Publishing
    <2> QED BY <1>2, <1>3, <1>4, <1>5, <2>1, <2>2, StaysPut
  <1> QED BY <1>6, <1>7

\* What a thread on its way to pc may do with the lock.
LockMoves(c, pc) ==
    \/ Takes(c) /\ pc \in {"leave", "pick", "prune"}
    \/ UNCHANGED guard /\ client[c].thread \notin UnderLock /\ pc \notin UnderLock
    \/ client[c].thread \in UnderLock /\ pc \notin UnderLock /\ guard' = FreeGuard
    \/ /\ client[c].thread \in UnderLock /\ pc \in UnderLock \ {"copying", "extend"}
       /\ guard' \in GuardRow /\ guard'.by = guard.by
       /\ guard'.removing # 0 => /\ prepared[guard'.removing].state # "none"
                                 /\ pc \in {"pick", "prune", "reserve"}

\* Whatever it is, the lock is in order afterwards.
LEMMA LockStaysOK ==
  ASSUME WorkspacesInv, NEW c \in Client, NEW h \in WorkRow, client' = [client EXCEPT ![c] = h],
         UNCHANGED <<prepared, maint>>, LockMoves(c, h.thread)
  PROVE  GuardInv' /\ guard' \in GuardRow
  <1>1. CASE Takes(c) /\ h.thread \in {"leave", "pick", "prune"}
    BY <1>1, GuardTaken
  <1>2. CASE UNCHANGED guard /\ client[c].thread \notin UnderLock /\ h.thread \notin UnderLock
    <2>1. h.thread \notin {"copying", "extend"}
      BY <1>2 DEF UnderLock
    <2> QED BY <1>2, <2>1, GuardStays
  <1>3. CASE client[c].thread \in UnderLock /\ h.thread \notin UnderLock /\ guard' = FreeGuard
    BY <1>3, GuardFreed
  <1>4. CASE /\ client[c].thread \in UnderLock /\ h.thread \in UnderLock \ {"copying", "extend"}
             /\ guard' \in GuardRow /\ guard'.by = guard.by
             /\ guard'.removing # 0 => /\ prepared[guard'.removing].state # "none"
                                       /\ h.thread \in {"pick", "prune", "reserve"}
    BY <1>4, GuardMoves
  <1> QED BY <1>1, <1>2, <1>3, <1>4 DEF LockMoves

\* A thread ends with nothing that anybody waits for.
LEMMA ThreadEnds ==
  ASSUME WorkspacesInv, NEW c \in Client, client[c].thread # "idle", UNCHANGED <<prepared, maint>>,
         Raised(c) \/ (Returned(c) /\ client[c].thread \in Publishing),
         LockMoves(c, "idle"),
         \/ UNCHANGED dir
         \/ /\ client[c].dir # 0 /\ prepared[client[c].dir].state = "none"
            /\ \E n \in DirRow : dir' = [dir EXCEPT ![client[c].dir] = n]
  PROVE  WorkspacesInv'
  <1>1. /\ WorkTypes /\ ClientOK(c) /\ client[c] \in WorkRow /\ Busy(c)
    BY OneRequest DEF Busy
  <1>2. PICK h \in WorkRow :
           /\ client' = [client EXCEPT ![c] = h] /\ client'[c] = h
           /\ h.thread = "idle" /\ h.key = client[c].key /\ h.dir = client[c].dir
           /\ h.cancel = client[c].cancel /\ h.wiping = client[c].wiping
           /\ client[c].task \in {"rest", "cleaning"} => h.task = client[c].task
           /\ client[c].task = "publishing" => h.task = "cleaning"
           /\ client[c].task = "preparing" => h.task = "rest"
    <2>1. CASE Raised(c)
      BY <1>1, <2>1, RaisedRow
    <2>2. CASE Returned(c) /\ client[c].thread \in Publishing
      <3>1. client[c].task # "preparing"
        BY <1>1, <2>2 DEF ClientOK, Publishing
      <3> QED BY <1>1, <2>2, <3>1, ReturnedRow
    <2> QED BY <2>1, <2>2
  <1>3. client[c].task # "using"
    BY <1>1 DEF ClientOK
  <1>4. h.task \in {"rest", "cleaning"} /\ (h.task = "cleaning" => h.dir # 0)
    BY <1>1, <1>2, <1>3 DEF ClientOK, WorkRow
  <1>5. h.wiping => h.task = "cleaning"
    BY <1>1, <1>2 DEF ClientOK
  <1>6. ClientOK(c)'
    BY <1>2, <1>4, <1>5 DEF ClientOK, Preparing, Copying, Publishing
  <1>7. GuardInv' /\ guard' \in GuardRow
    BY <1>2, LockStaysOK
  <1>8. RoomFor(h)
    BY <1>2 DEF RoomFor
  <1>9. CASE UNCHANGED dir
    BY <1>1, <1>2, <1>6, <1>7, <1>8, <1>9, StaysPut
  <1>10. CASE /\ client[c].dir # 0 /\ prepared[client[c].dir].state = "none"
              /\ \E n \in DirRow : dir' = [dir EXCEPT ![client[c].dir] = n]
    <2>1. PICK n \in DirRow : dir' = [dir EXCEPT ![client[c].dir] = n]
      BY <1>10
    <2> QED BY <1>1, <1>2, <1>6, <1>7, <1>8, <1>10, <2>1, OwnDirMoves
  <1> QED BY <1>9, <1>10

\* A thread that has no directory to speak of goes on to prepare one.
LEMMA PrepareGoesOn ==
  ASSUME WorkspacesInv, NEW c \in Client, NEW pc \in {"pick", "leave", "clone"},
         client[c].thread \in Preparing, Thread(c, pc), UNCHANGED <<prepared, maint>>,
         LockMoves(c, pc),
         \/ UNCHANGED dir
         \/ /\ client[c].dir # 0 /\ prepared[client[c].dir].state = "none"
            /\ \E n \in DirRow : dir' = [dir EXCEPT ![client[c].dir] = n]
  PROVE  WorkspacesInv'
  <1>1. /\ WorkTypes /\ ClientOK(c) /\ client[c] \in WorkRow /\ pc \in Preparing
        /\ pc \notin Publishing \cup Copying /\ Busy(c)
    BY OneRequest DEF Preparing, Publishing, Copying, Busy
  <1>2. PICK h \in WorkRow :
           /\ client' = [client EXCEPT ![c] = h] /\ client'[c] = h
           /\ h.thread = pc /\ h.task = client[c].task /\ h.key = client[c].key
           /\ h.dir = client[c].dir /\ h.cancel = client[c].cancel /\ h.wiping = client[c].wiping
    BY <1>1, ThreadRow
  <1>3. ClientOK(c)'
    BY <1>1, <1>2 DEF ClientOK, Preparing, Copying, Publishing
  <1>4. GuardInv' /\ guard' \in GuardRow
    BY <1>2, LockStaysOK
  <1>5. RoomFor(h)
    BY <1>2 DEF RoomFor
  <1>6. CASE UNCHANGED dir
    BY <1>1, <1>2, <1>3, <1>4, <1>5, <1>6, StaysPut
  <1>7. CASE /\ client[c].dir # 0 /\ prepared[client[c].dir].state = "none"
             /\ \E n \in DirRow : dir' = [dir EXCEPT ![client[c].dir] = n]
    <2>1. PICK n \in DirRow : dir' = [dir EXCEPT ![client[c].dir] = n]
      BY <1>7
    <2> QED BY <1>1, <1>2, <1>3, <1>4, <1>5, <1>7, <2>1, OwnDirMoves
  <1> QED BY <1>6, <1>7

\* A thread goes on to publish what its task has in hand.
LEMMA PublishGoesOn ==
  ASSUME WorkspacesInv, NEW c \in Client, NEW pc \in Publishing \ {"insert"},
         client[c].thread \in Publishing \ {"insert"}, Thread(c, pc),
         UNCHANGED <<dir, prepared, maint>>, LockMoves(c, pc),
         pc = "rename" => Cardinality(Rows) + 1 <= MaxEntries,
         pc \in {"reserve", "rename"}
           => \A d \in Dir : InUse(d) => prepared[d].key # client[c].key
  PROVE  WorkspacesInv'
  <1>1. /\ WorkTypes /\ ClientOK(c) /\ client[c] \in WorkRow
        /\ pc \notin Preparing /\ pc \notin Copying /\ Busy(c)
    BY OneRequest DEF Preparing, Publishing, Copying, Busy
  <1>2. PICK h \in WorkRow :
           /\ client' = [client EXCEPT ![c] = h] /\ client'[c] = h
           /\ h.thread = pc /\ h.task = client[c].task /\ h.key = client[c].key
           /\ h.dir = client[c].dir /\ h.cancel = client[c].cancel /\ h.wiping = client[c].wiping
    BY <1>1, ThreadRow
  <1>3. ClientOK(c)'
    BY <1>1, <1>2 DEF ClientOK, Preparing, Copying, Publishing
  <1>4. GuardInv' /\ guard' \in GuardRow
    BY <1>2, LockStaysOK
  <1>5. RoomFor(h)
    BY <1>2 DEF RoomFor
  <1> QED BY <1>1, <1>2, <1>3, <1>4, <1>5, StaysPut

\* A thread enters the cache, or finds it locked, or hears that it is over.
LEMMA EntersCopyKeepsInv ==
  ASSUME WorkspacesInv, NEW c \in Client, EntersCopy(c)
  PROVE  WorkspacesInv'
  <1>1. /\ client[c].thread = "enter" /\ UNCHANGED <<dir, prepared, maint>>
        /\ client[c].thread \notin UnderLock /\ client[c].thread \in Preparing
    BY DEF EntersCopy, Is, UnderLock, Preparing
  <1>2. CASE Raised(c) /\ UNCHANGED guard
    <2>1. LockMoves(c, "idle")
      BY <1>1, <1>2 DEF LockMoves, UnderLock
    <2> QED BY <1>1, <1>2, <2>1, ThreadEnds
  <1>3. CASE Takes(c) /\ Thread(c, IF MaxEntries = 0 THEN "leave" ELSE "pick")
    <2>1. PICK pc \in {"pick", "leave", "clone"} :
             pc = (IF MaxEntries = 0 THEN "leave" ELSE "pick")
      OBVIOUS
    <2>2. Thread(c, pc) /\ LockMoves(c, pc)
      BY <1>3, <2>1 DEF LockMoves
    <2> QED BY <1>1, <2>2, PrepareGoesOn
  <1>4. CASE Thread(c, "clone") /\ UNCHANGED guard
    <2>1. PICK pc \in {"pick", "leave", "clone"} : pc = "clone"
      OBVIOUS
    <2>2. Thread(c, pc) /\ LockMoves(c, pc)
      BY <1>1, <1>4, <2>1 DEF LockMoves, UnderLock
    <2> QED BY <1>1, <2>2, PrepareGoesOn
  <1> QED BY <1>2, <1>3, <1>4 DEF EntersCopy

\* A thread looks for a copy to take: a row that does not fit goes, one that
\* does is copied, and without one the thread leaves.
LEMMA PicksKeepsInv ==
  ASSUME WorkspacesInv, NEW c \in Client, Picks(c)
  PROVE  WorkspacesInv'
  <1>1. /\ client[c].thread = "pick" /\ guard.removing = 0 /\ UNCHANGED <<prepared, maint>>
        /\ client[c].thread \in UnderLock /\ client[c].thread \in Preparing
    BY DEF Picks, Is, UnderLock, Preparing
  <1>2. /\ WorkTypes /\ ClientOK(c) /\ client[c] \in WorkRow /\ Busy(c) /\ RoomFor(client[c])
        /\ guard \in GuardRow /\ client \in [Client -> WorkRow] /\ dir \in [Dir -> DirRow]
    BY <1>1, OneRequest DEF Busy, WorkTypes
  <1>3. ASSUME NEW d \in ReadyFor(client[c].key)
        PROVE  d \in Dir /\ d # 0 /\ d \in 0..Dirs /\ prepared[d].state = "ready" /\ InUse(d)
    BY <1>3, WorkspacesAssumption DEF ReadyFor, InUse, Dir
  <1>4. CASE Thread(c, "leave") /\ UNCHANGED <<dir, guard>>
    <2>1. PICK pc \in {"pick", "leave", "clone"} : pc = "leave"
      OBVIOUS
    <2>2. Thread(c, pc) /\ LockMoves(c, pc)
      BY <1>1, <1>2, <1>4, <2>1 DEF LockMoves, UnderLock
    <2> QED BY <1>1, <1>4, <2>2, PrepareGoesOn
  <1>5. ASSUME NEW d \in ReadyFor(client[c].key),
               guard' = [guard EXCEPT !.tried = @ \cup {d}, !.removing = d],
               UNCHANGED <<dir, client>>
        PROVE  WorkspacesInv'
    <2>1. PICK h \in WorkRow : h = client[c]
      BY <1>2
    <2>2. client' = [client EXCEPT ![c] = h] /\ client'[c] = h
      BY <1>2, <1>5, <2>1
    <2>3. guard' \in GuardRow /\ guard'.by = guard.by /\ guard'.removing = d
      BY <1>2, <1>3, <1>5 DEF GuardRow
    <2>4. LockMoves(c, h.thread)
      BY <1>1, <1>3, <2>1, <2>3 DEF LockMoves, UnderLock
    <2>5. GuardInv'
      BY <1>1, <2>2, <2>4, LockStaysOK
    <2>6. ClientOK(c)' /\ RoomFor(h)
      BY <1>1, <1>2, <1>5, <2>1 DEF ClientOK
    <2> QED BY <1>1, <1>2, <1>5, <2>1, <2>2, <2>3, <2>5, <2>6, StaysPut
  <1>6. ASSUME NEW d \in ReadyFor(client[c].key), Fresh # {},
               guard' = [guard EXCEPT !.tried = @ \cup {d}, !.source = d],
               dir' = [dir EXCEPT ![NextDir] = [NoDir EXCEPT !.kind = "work"]],
               ThreadIn(c, "copying", NextDir)
        PROVE  WorkspacesInv'
    <2>1. PICK n \in 0..Dirs : n = NextDir
      BY <1>6, NextDirIsFresh
    <2>2. n # 0 /\ n \in Dir /\ n \notin maint.found
      BY <1>6, <2>1, NextDirIsFresh
    <2>3. PICK h \in WorkRow :
             /\ client' = [client EXCEPT ![c] = h] /\ client'[c] = h
             /\ h.thread = "copying" /\ h.task = client[c].task /\ h.key = client[c].key
             /\ h.dir = n /\ h.cancel = client[c].cancel /\ h.wiping = client[c].wiping
      <3>1. "copying" \in Preparing /\ ThreadIn(c, "copying", n)
        BY <1>6, <2>1 DEF Preparing, Copying
      <3> QED BY <1>2, <3>1, ThreadInRow
    <2>4. dir'[n].kind = "work" /\ ~dir'[n].old
      BY <1>2, <1>6, <2>1, <2>2 DEF NoDir
    <2>5. ClientOK(c)'
      BY <1>1, <1>2, <2>2, <2>3, <2>4 DEF ClientOK, Preparing, Copying, Publishing
    <2>6. guard' \in GuardRow /\ guard'.by = guard.by /\ guard'.removing = 0 /\ guard'.source = d
      BY <1>1, <1>2, <1>3, <1>6 DEF GuardRow
    <2>7. \A e \in Dir : InUse(e) /\ prepared[e].key = prepared[d].key => e = d
      BY <1>3, <1>6 DEF WorkspacesInv, RowsInv, OneInUse
    <2>8. GuardInv'
      <3>1. h.thread \in UnderLock
        BY <2>3 DEF UnderLock
      <3> QED BY <1>1, <1>3, <1>6, <2>3, <2>6, <2>7, <3>1, GuardMoves
    <2>9. RoomFor(h)
      BY <2>3 DEF RoomFor
    <2> QED BY <1>1, <1>6, <2>1, <2>3, <2>5, <2>6, <2>8, <2>9, NewDirMoves
  <1> QED BY <1>4, <1>5, <1>6 DEF Picks

\* The copy ends, and what it made is whole or gone; a row that gave a bad
\* copy goes as well.
LEMMA CopiesKeepsInv ==
  ASSUME WorkspacesInv, NEW c \in Client, Copies(c)
  PROVE  WorkspacesInv'
  <1>1. /\ client[c].thread = "copying" /\ UNCHANGED <<prepared, maint>>
        /\ client[c].thread \in UnderLock /\ client[c].thread \in Preparing
        /\ client[c].thread \in Copying
    BY DEF Copies, Is, UnderLock, Preparing, Copying
  <1>2. /\ WorkTypes /\ ClientOK(c) /\ client[c] \in WorkRow /\ Busy(c) /\ SourceOK(c)
        /\ guard \in GuardRow /\ dir \in [Dir -> DirRow] /\ guard.removing = 0
    BY <1>1, OneRequest DEF Busy, WorkTypes
  <1>3. /\ client[c].dir # 0 /\ client[c].dir \in Dir /\ dir[client[c].dir].kind = "work"
        /\ client[c].dir \notin maint.found /\ ~dir[client[c].dir].old
        /\ prepared[client[c].dir].state = "none"
    <2>1. /\ client[c].dir # 0 /\ dir[client[c].dir].kind = "work"
          /\ client[c].dir \notin maint.found /\ ~dir[client[c].dir].old
      BY <1>1, <1>2 DEF ClientOK
    <2> QED BY <2>1, OneRequest
  <1>4. CASE /\ dir' = [dir EXCEPT ![client[c].dir].whole = TRUE]
             /\ Thread(c, "extend") /\ UNCHANGED guard
    <2>1. PICK h \in WorkRow :
             /\ client' = [client EXCEPT ![c] = h] /\ client'[c] = h
             /\ h.thread = "extend" /\ h.task = client[c].task /\ h.key = client[c].key
             /\ h.dir = client[c].dir /\ h.cancel = client[c].cancel
             /\ h.wiping = client[c].wiping
      <3>1. "extend" \in Preparing
        BY DEF Preparing, Copying
      <3> QED BY <1>2, <1>4, <3>1, ThreadRow
    <2>2. PICK n \in DirRow : /\ dir' = [dir EXCEPT ![client[c].dir] = n]
                              /\ n.kind = "work" /\ n.whole /\ ~n.old
      <3> DEFINE n == [dir[client[c].dir] EXCEPT !.whole = TRUE]
      <3>1. n \in DirRow /\ n.kind = "work" /\ n.whole /\ ~n.old
        BY <1>2, <1>3 DEF DirRow
      <3>2. dir' = [dir EXCEPT ![client[c].dir] = n]
        BY <1>2, <1>3, <1>4
      <3> QED BY <3>1, <3>2
    <2>3. dir'[client[c].dir] = n
      BY <1>2, <1>3, <2>2
    <2>4. ClientOK(c)'
      BY <1>1, <1>2, <1>3, <2>1, <2>2, <2>3 DEF ClientOK, Preparing, Copying, Publishing
    <2>5. GuardInv' /\ guard' \in GuardRow
      BY <1>1, <1>2, <1>4, <2>1, GuardStays DEF UnderLock
    <2>6. RoomFor(h)
      BY <2>1 DEF RoomFor
    <2> QED BY <1>1, <1>2, <1>3, <2>1, <2>2, <2>4, <2>5, <2>6, OwnDirMoves
  <1>5. ASSUME Cleanup(client[c].dir)
        PROVE  \E n \in DirRow : dir' = [dir EXCEPT ![client[c].dir] = n]
    <2>1. PICK d \in Dir : d = client[c].dir
      BY <1>3
    <2> QED BY <1>2, <1>5, <2>1, CleanupIs
  <1>6. CASE /\ Cleanup(client[c].dir) /\ Thread(c, "pick")
             /\ guard' = [guard EXCEPT !.removing = guard.source]
    <2>1. PICK pc \in {"pick", "leave", "clone"} : pc = "pick"
      OBVIOUS
    <2>2. guard.source # 0 /\ prepared[guard.source].state = "ready"
      BY <1>1, <1>2 DEF SourceOK
    <2>3. guard' \in GuardRow /\ guard'.by = guard.by /\ guard'.removing = guard.source
      BY <1>2, <1>6 DEF GuardRow
    <2>4. Thread(c, pc) /\ LockMoves(c, pc)
      BY <1>1, <1>6, <2>1, <2>2, <2>3 DEF LockMoves, UnderLock
    <2> QED BY <1>1, <1>3, <1>5, <1>6, <2>4, PrepareGoesOn
  <1>7. CASE Cleanup(client[c].dir) /\ Raised(c) /\ Releases
    <2>1. LockMoves(c, "idle")
      BY <1>1, <1>7 DEF LockMoves, UnderLock, Releases
    <2> QED BY <1>1, <1>3, <1>5, <1>7, <2>1, ThreadEnds
  <1> QED BY <1>4, <1>6, <1>7 DEF Copies

\* A clone begins, and ends whole or gone.
LEMMA ClonesKeepsInv ==
  ASSUME WorkspacesInv, NEW c \in Client, Clones(c) \/ Cloned(c)
  PROVE  WorkspacesInv'
  <1>1. /\ client[c].thread \in {"clone", "cloning"} /\ UNCHANGED <<prepared, maint, guard>>
        /\ client[c].thread \notin UnderLock /\ client[c].thread \in Preparing
    BY DEF Clones, Cloned, Is, UnderLock, Preparing, Copying
  <1>2. /\ WorkTypes /\ ClientOK(c) /\ client[c] \in WorkRow /\ Busy(c)
        /\ dir \in [Dir -> DirRow] /\ LockMoves(c, "idle")
    <2>1. LockMoves(c, "idle")
      BY <1>1 DEF LockMoves, UnderLock
    <2> QED BY <1>1, <2>1, OneRequest DEF Busy, WorkTypes
  <1>3. CASE Clones(c) /\ Raised(c) /\ UNCHANGED dir
    BY <1>1, <1>2, <1>3, ThreadEnds
  <1>4. CASE /\ Fresh # {} /\ dir' = [dir EXCEPT ![NextDir] = [NoDir EXCEPT !.kind = "work"]]
             /\ ThreadIn(c, "cloning", NextDir)
    <2>1. PICK n \in 0..Dirs : n = NextDir
      BY <1>4, NextDirIsFresh
    <2>2. n # 0 /\ n \in Dir /\ n \notin maint.found
      BY <1>4, <2>1, NextDirIsFresh
    <2>3. PICK h \in WorkRow :
             /\ client' = [client EXCEPT ![c] = h] /\ client'[c] = h
             /\ h.thread = "cloning" /\ h.task = client[c].task /\ h.key = client[c].key
             /\ h.dir = n /\ h.cancel = client[c].cancel /\ h.wiping = client[c].wiping
      <3>1. "cloning" \in Preparing /\ ThreadIn(c, "cloning", n)
        BY <1>4, <2>1 DEF Preparing, Copying
      <3> QED BY <1>2, <3>1, ThreadInRow
    <2>4. dir'[n].kind = "work" /\ ~dir'[n].old
      BY <1>2, <1>4, <2>1, <2>2 DEF NoDir
    <2>5. ClientOK(c)'
      BY <1>1, <1>2, <2>2, <2>3, <2>4 DEF ClientOK, Preparing, Copying, Publishing
    <2>6. GuardInv' /\ guard' \in GuardRow
      BY <1>1, <2>3, GuardStays DEF UnderLock
    <2>7. RoomFor(h)
      BY <2>3 DEF RoomFor
    <2> QED BY <1>1, <1>4, <2>1, <2>3, <2>5, <2>6, <2>7, NewDirMoves
  <1>5. CASE Cloned(c)
    <2>1. /\ client[c].thread = "cloning" /\ client[c].dir # 0
          /\ dir[client[c].dir].kind = "work" /\ client[c].dir \notin maint.found
      BY <1>2, <1>5 DEF Cloned, Is, ClientOK, Copying
    <2>2. client[c].dir \in Dir /\ prepared[client[c].dir].state = "none"
      BY <2>1, OneRequest
    <2>3. CASE dir' = [dir EXCEPT ![client[c].dir].whole = TRUE] /\ Returned(c)
      <3>1. PICK h \in WorkRow :
               /\ client' = [client EXCEPT ![c] = h] /\ client'[c] = h
               /\ h.thread = "idle" /\ h.key = client[c].key /\ h.dir = client[c].dir
               /\ h.cancel = client[c].cancel /\ h.wiping = client[c].wiping
               /\ client[c].task = "rest" => h.task = "rest"
               /\ client[c].task = "preparing" => h.task = "using"
        BY <1>2, <2>3, ReturnedRow
      <3>2. PICK n \in DirRow : /\ dir' = [dir EXCEPT ![client[c].dir] = n]
                                /\ n.kind = "work" /\ n.whole
        <4> DEFINE n == [dir[client[c].dir] EXCEPT !.whole = TRUE]
        <4>1. n \in DirRow /\ n.kind = "work" /\ n.whole
          BY <1>2, <2>1, <2>2 DEF DirRow
        <4>2. dir' = [dir EXCEPT ![client[c].dir] = n]
          BY <1>2, <2>2, <2>3
        <4> QED BY <4>1, <4>2
      <3>3. dir'[client[c].dir] = n /\ client[c].task \in {"rest", "preparing"}
        BY <1>1, <1>2, <2>2, <3>2 DEF ClientOK
      <3>4. ClientOK(c)'
        BY <1>1, <1>2, <2>1, <3>1, <3>2, <3>3 DEF ClientOK, Preparing, Copying, Publishing
      <3>5. GuardInv' /\ guard' \in GuardRow
        BY <1>1, <3>1, GuardStays DEF UnderLock
      <3>6. RoomFor(h)
        BY <3>1 DEF RoomFor
      <3> QED BY <1>1, <1>2, <2>1, <2>2, <3>1, <3>2, <3>4, <3>5, <3>6, OwnDirMoves
    <2>4. CASE Cleanup(client[c].dir) /\ Raised(c)
      <3>1. PICK d \in Dir : d = client[c].dir
        BY <2>2
      <3>2. \E n \in DirRow : dir' = [dir EXCEPT ![client[c].dir] = n]
        BY <1>2, <2>4, <3>1, CleanupIs
      <3> QED BY <1>1, <1>2, <2>1, <2>2, <2>4, <3>2, ThreadEnds
    <2> QED BY <1>5, <2>3, <2>4 DEF Cloned
  <1> QED BY <1>3, <1>4, <1>5 DEF Clones

\* Without a copy one clones.
LEMMA LeavesCopyKeepsInv ==
  ASSUME WorkspacesInv, NEW c \in Client, LeavesCopy(c)
  PROVE  WorkspacesInv'
  <1>1. /\ client[c].thread = "leave" /\ UNCHANGED <<dir, prepared, maint>>
        /\ client[c].thread \in UnderLock /\ client[c].thread \in Preparing
    BY DEF LeavesCopy, Is, UnderLock, Preparing
  <1>2. PICK pc \in {"pick", "leave", "clone"} : pc = "clone"
    OBVIOUS
  <1>3. Thread(c, pc) /\ LockMoves(c, pc)
    BY <1>1, <1>2 DEF LeavesCopy, LockMoves, UnderLock, Releases
  <1> QED BY <1>1, <1>3, PrepareGoesOn

\* A thread comes to publish: the source, the lock.
LEMMA ComesToPublishKeepsInv ==
  ASSUME WorkspacesInv, NEW c \in Client, ChecksSource(c) \/ EntersPublish(c)
  PROVE  WorkspacesInv'
  <1>1. /\ client[c].thread \in {"source", "await"} /\ UNCHANGED <<dir, prepared, maint>>
        /\ client[c].thread \notin UnderLock /\ client[c].thread \in Publishing \ {"insert"}
    BY DEF ChecksSource, EntersPublish, Is, UnderLock, Publishing
  <1>2. CASE Raised(c) /\ UNCHANGED guard
    <2>1. LockMoves(c, "idle")
      BY <1>1, <1>2 DEF LockMoves, UnderLock
    <2> QED BY <1>1, <1>2, <2>1, ThreadEnds
  <1>3. CASE Thread(c, "await") /\ UNCHANGED guard
    <2>1. PICK pc \in Publishing \ {"insert"} : pc = "await"
      BY DEF Publishing
    <2>2. Thread(c, pc) /\ LockMoves(c, pc)
      BY <1>1, <1>3, <2>1 DEF LockMoves, UnderLock
    <2> QED BY <1>1, <2>1, <2>2, PublishGoesOn
  <1>4. CASE Takes(c) /\ Thread(c, "prune")
    <2>1. PICK pc \in Publishing \ {"insert"} : pc = "prune"
      BY DEF Publishing
    <2>2. Thread(c, pc) /\ LockMoves(c, pc)
      BY <1>4, <2>1 DEF LockMoves
    <2> QED BY <1>1, <2>1, <2>2, PublishGoesOn
  <1> QED BY <1>2, <1>3, <1>4 DEF ChecksSource, EntersPublish

\* What _prune does to the lock: it notes a row to remove, or begins again.
LEMMA PruneIs ==
  ASSUME WorkspacesInv, NEW reserve \in 0..1, Prunes(reserve) \/ (Pruned(reserve) /\ PrunedOnce)
  PROVE  /\ guard' \in GuardRow /\ guard'.by = guard.by
         /\ guard'.removing # 0 => prepared[guard'.removing].state # "none" /\ Prunes(reserve)
  <1>1. guard \in GuardRow /\ Dir \subseteq 0..Dirs
    BY WorkspacesAssumption DEF WorkspacesInv, WorkTypes, Dir
  <1>2. CASE Pruned(reserve) /\ PrunedOnce
    BY <1>1, <1>2 DEF Pruned, PrunedOnce, GuardRow
  <1>3. ASSUME guard.removing = 0, NEW d \in Prunable(reserve),
               guard' = [guard EXCEPT !.tried = @ \cup {d}, !.removing = d]
        PROVE  /\ guard' \in GuardRow /\ guard'.by = guard.by
               /\ prepared[guard'.removing].state # "none"
    <2>1. d \in Dir /\ prepared[d].state # "none"
      BY <1>3 DEF Prunable, Rows
    <2> QED BY <1>1, <1>3, <2>1 DEF GuardRow
  <1>4. CASE /\ guard.removing = 0
             /\ guard' = [guard EXCEPT !.loop = "excess", !.tried = {}]
    BY <1>1, <1>4 DEF GuardRow
  <1> QED BY <1>2, <1>3, <1>4 DEF Prunes

\* A publication prunes before it looks for its commits and before it renames.
LEMMA PrunesToPublishKeepsInv ==
  ASSUME WorkspacesInv, NEW c \in Client, PrunesToPublish(c)
  PROVE  WorkspacesInv'
  <1>1. /\ client[c].thread \in {"prune", "reserve"} /\ UNCHANGED <<dir, prepared, maint>>
        /\ client[c].thread \in UnderLock /\ client[c].thread \in Publishing \ {"insert"}
    BY DEF PrunesToPublish, Is, UnderLock, Publishing
  <1>2. /\ WorkTypes /\ ClientOK(c) /\ client[c] \in WorkRow /\ Busy(c) /\ RoomFor(client[c])
        /\ client \in [Client -> WorkRow]
    BY <1>1, OneRequest DEF Busy, WorkTypes
  <1>3. PICK zero \in 0..1, one \in 0..1 : zero = 0 /\ one = 1
    OBVIOUS
  <1>4. ASSUME NEW reserve \in 0..1, Prunes(reserve), UNCHANGED client
        PROVE  WorkspacesInv'
    <2>1. PICK h \in WorkRow : h = client[c]
      BY <1>2
    <2>2. client' = [client EXCEPT ![c] = h] /\ client'[c] = h
      BY <1>2, <1>4, <2>1
    <2>3. LockMoves(c, h.thread) /\ guard' \in GuardRow
      BY <1>1, <1>4, <2>1, PruneIs DEF LockMoves, UnderLock
    <2>4. GuardInv'
      BY <1>1, <2>2, <2>3, LockStaysOK
    <2>5. ClientOK(c)' /\ RoomFor(h)
      BY <1>1, <1>2, <1>4, <2>1 DEF ClientOK
    <2> QED BY <1>1, <1>2, <2>1, <2>2, <2>3, <2>4, <2>5, StaysPut
  <1>5. CASE Pruned(0) /\ PrunedOnce /\ Thread(c, "seek")
    <2>1. PICK pc \in Publishing \ {"insert"} : pc = "seek"
      BY DEF Publishing
    <2>2. guard' \in GuardRow /\ guard'.by = guard.by /\ guard'.removing = 0
      BY <1>2, <1>5 DEF Pruned, PrunedOnce, WorkTypes, GuardRow
    <2>3. Thread(c, pc) /\ LockMoves(c, pc)
      BY <1>1, <1>5, <2>1, <2>2 DEF LockMoves, UnderLock
    <2> QED BY <1>1, <2>1, <2>3, PublishGoesOn
  <1>6. CASE client[c].thread = "reserve" /\ Pruned(1) /\ Fits(1) /\ PrunedOnce /\ Thread(c, "rename")
    <2>1. PICK pc \in Publishing \ {"insert"} : pc = "rename"
      BY DEF Publishing
    <2>2. guard' \in GuardRow /\ guard'.by = guard.by /\ guard'.removing = 0
      BY <1>2, <1>6 DEF Pruned, PrunedOnce, WorkTypes, GuardRow
    <2>3. Thread(c, pc) /\ LockMoves(c, pc)
      BY <1>1, <1>6, <2>1, <2>2 DEF LockMoves, UnderLock
    <2>4. Cardinality(Rows) + 1 <= MaxEntries
      BY <1>6 DEF Fits
    <2>5. \A d \in Dir : InUse(d) => prepared[d].key # client[c].key
      BY <1>2, <1>6 DEF RoomFor
    <2> QED BY <1>1, <2>1, <2>3, <2>4, <2>5, PublishGoesOn
  <1>7. CASE Returned(c) /\ Releases
    <2>1. LockMoves(c, "idle") /\ client[c].thread # "idle" /\ client[c].thread \in Publishing
      BY <1>1, <1>7 DEF LockMoves, UnderLock, Releases
    <2> QED BY <1>1, <1>7, <2>1, ThreadEnds
  <1> QED BY <1>1, <1>3, <1>4, <1>5, <1>6, <1>7 DEF PrunesToPublish, Is

\* It goes on when the commits have no copy in use.
LEMMA SeeksKeepsInv ==
  ASSUME WorkspacesInv, NEW c \in Client, Seeks(c)
  PROVE  WorkspacesInv'
  <1>1. /\ client[c].thread = "seek" /\ UNCHANGED <<dir, prepared, maint>>
        /\ client[c].thread \in UnderLock /\ client[c].thread \in Publishing \ {"insert"}
    BY DEF Seeks, Is, UnderLock, Publishing
  <1>2. CASE Returned(c) /\ Releases
    <2>1. LockMoves(c, "idle")
      BY <1>1, <1>2 DEF LockMoves, UnderLock, Releases
    <2> QED BY <1>1, <1>2, <2>1, ThreadEnds
  <1>3. CASE ReadyFor(client[c].key) = {} /\ Thread(c, "reserve") /\ UNCHANGED guard
    <2>1. PICK pc \in Publishing \ {"insert"} : pc = "reserve"
      BY DEF Publishing
    <2>2. guard \in GuardRow /\ guard.removing = 0
      BY <1>1, OneRequest DEF WorkTypes
    <2>3. Thread(c, pc) /\ LockMoves(c, pc)
      BY <1>1, <1>3, <2>1, <2>2 DEF LockMoves, UnderLock
    <2>4. \A d \in Dir : InUse(d) => prepared[d].key # client[c].key
      BY <1>3 DEF ReadyFor, InUse
    <2> QED BY <1>1, <2>1, <2>3, <2>4, PublishGoesOn
  <1> QED BY <1>2, <1>3 DEF Seeks

\* The workspace becomes a prepared one, before there is a row for it.
LEMMA RenamesKeepsInv ==
  ASSUME WorkspacesInv, NEW c \in Client, Renames(c)
  PROVE  WorkspacesInv'
  <1>1. /\ client[c].thread = "rename" /\ UNCHANGED <<prepared, maint>>
        /\ client[c].thread \in UnderLock /\ client[c].thread \in Publishing
    BY DEF Renames, Is, UnderLock, Publishing
  <1>2. /\ WorkTypes /\ ClientOK(c) /\ client[c] \in WorkRow /\ Busy(c) /\ RoomFor(client[c])
        /\ dir \in [Dir -> DirRow] /\ guard.removing = 0
    BY <1>1, OneRequest DEF Busy, WorkTypes, UnderLock
  <1>3. client[c].dir # 0 /\ client[c].dir \in Dir
    BY <1>1, <1>2, OneRequest DEF ClientOK
  <1>4. CASE Raised(c) /\ Releases /\ UNCHANGED dir
    <2>1. LockMoves(c, "idle")
      BY <1>1, <1>4 DEF LockMoves, UnderLock, Releases
    <2> QED BY <1>1, <1>4, <2>1, ThreadEnds
  <1>5. CASE /\ dir[client[c].dir].kind = "work"
             /\ dir' = [dir EXCEPT ![client[c].dir].kind = "prepared"]
             /\ Thread(c, "insert") /\ UNCHANGED guard
    <2>1. PICK h \in WorkRow :
             /\ client' = [client EXCEPT ![c] = h] /\ client'[c] = h
             /\ h.thread = "insert" /\ h.task = client[c].task /\ h.key = client[c].key
             /\ h.dir = client[c].dir /\ h.cancel = client[c].cancel
             /\ h.wiping = client[c].wiping
      <3>1. "insert" \in Publishing
        BY DEF Publishing
      <3> QED BY <1>2, <1>5, <3>1, ThreadRow
    <2>2. PICK n \in DirRow : /\ dir' = [dir EXCEPT ![client[c].dir] = n]
                              /\ n.kind = "prepared" /\ n.whole = dir[client[c].dir].whole
      <3> DEFINE n == [dir[client[c].dir] EXCEPT !.kind = "prepared"]
      <3>1. n \in DirRow /\ n.kind = "prepared" /\ n.whole = dir[client[c].dir].whole
        BY <1>2, <1>3 DEF DirRow
      <3>2. dir' = [dir EXCEPT ![client[c].dir] = n]
        BY <1>2, <1>3, <1>5
      <3> QED BY <3>1, <3>2
    <2>3. dir'[client[c].dir] = n
      BY <1>2, <1>3, <2>2
    <2>4. prepared[client[c].dir].state = "none"
      BY <1>3, <1>5, OneRequest
    <2>5. ClientOK(c)'
      BY <1>1, <1>2, <1>3, <2>1, <2>2, <2>3, <2>4 DEF ClientOK, Preparing, Copying, Publishing
    <2>6. GuardInv' /\ guard' \in GuardRow
      BY <1>1, <1>2, <1>5, <2>1, GuardStays DEF UnderLock
    <2>7. RoomFor(h)
      BY <1>1, <1>2, <2>1 DEF RoomFor
    <2> QED BY <1>1, <1>2, <1>3, <2>1, <2>2, <2>4, <2>5, <2>6, <2>7, OwnDirMoves
  <1> QED BY <1>4, <1>5 DEF Renames

\* What a request claims of its directory.
Claims(e) == \/ client[e].thread \in Copying \cup {"insert"}
             \/ client[e].task \in {"using", "publishing"}

\* Such a claim stays true while the directory and its row do.
LEMMA ClaimStaysOK ==
  ASSUME WorkTypes, NEW e \in Client, ClientOK(e), client'[e] = client[e],
         Claims(e) => /\ client[e].dir \notin maint'.found \/ maint'.found \subseteq maint.found
                      /\ dir'[client[e].dir].kind = dir[client[e].dir].kind
                      /\ dir'[client[e].dir].whole = dir[client[e].dir].whole
                      /\ prepared'[client[e].dir].state = prepared[client[e].dir].state,
         client[e].thread \in Copying => dir'[client[e].dir].old = dir[client[e].dir].old
  PROVE  ClientOK(e)'
  <1>1. CASE Claims(e)
    BY <1>1 DEF ClientOK
  <1>2. CASE ~Claims(e)
    BY <1>2 DEF ClientOK, Claims, Preparing, Copying
  <1> QED BY <1>1, <1>2

\* One request lets the lock go, and with it everything that is said of rows
\* under the lock.
LEMMA HolderLeaves ==
  ASSUME WorkspacesInv, NEW c \in Client, NEW h \in WorkRow, client' = [client EXCEPT ![c] = h],
         client[c].thread \in UnderLock, h.thread = "idle", guard' = FreeGuard, UNCHANGED maint,
         h.dir = client[c].dir,
         dir' \in [Dir -> DirRow], prepared' \in [Dir -> PreparedRow],
         \A e \in Client \ {c} : Busy(e) /\ client[e].dir # 0
           => /\ dir'[client[e].dir] = dir[client[e].dir]
              /\ prepared'[client[e].dir].state = prepared[client[e].dir].state,
         ClientOK(c)', \A d \in Dir : RowOK(d)', OneInUse', CapacityKept'
  PROVE  WorkspacesInv'
  <1>1. /\ WorkTypes /\ Busy(c) /\ client'[c] = h /\ maint' = maint
        /\ \A e \in Client \ {c} : client'[e] = client[e]
    <2>1. client[c].thread # "idle"
      BY DEF UnderLock
    <2> QED BY <2>1 DEF WorkspacesInv, WorkTypes, Busy
  <1>2. GuardInv' /\ guard' \in GuardRow
    <2>1. h.thread \notin UnderLock
      BY DEF UnderLock
    <2> QED BY <2>1, GuardFreed
  <1>3. WorkTypes'
    BY <1>1, <1>2 DEF WorkTypes
  <1>4. OwnDirs'
    <2>1. \A e \in Client : Busy(e)' => Busy(e)
      BY <1>1 DEF Busy
    <2>2. \A e \in Client : client'[e].dir = client[e].dir
      BY <1>1
    <2> QED BY <2>1, <2>2 DEF WorkspacesInv, OwnDirs
  <1>5. ASSUME NEW e \in Client
        PROVE  ClientOK(e)'
    <2>1. CASE e # c
      BY <1>1, <2>1, OtherStaysOK DEF WorkspacesInv
    <2> QED BY <2>1
  <1>6. ASSUME NEW e \in Client
        PROVE  RoomFor(client[e])'
    <2>1. client'[e].thread \notin UnderLock
      BY <1>2 DEF GuardInv, HolderOK, FreeGuard
    <2> QED BY <2>1 DEF RoomFor, UnderLock
  <1>7. RowsInv'
    BY <1>6 DEF RowsInv
  <1> QED BY <1>2, <1>3, <1>4, <1>5, <1>7 DEF WorkspacesInv

\* The copied row lives on, or the copy is given up.
LEMMA ExtendsKeepsInv ==
  ASSUME WorkspacesInv, NEW c \in Client, Extends(c)
  PROVE  WorkspacesInv'
  <1>1. /\ client[c].thread = "extend" /\ UNCHANGED maint /\ guard' = FreeGuard
        /\ client[c].thread \in UnderLock /\ client[c].thread \in Preparing
        /\ client[c].thread \in Copying
    BY DEF Extends, Is, UnderLock, Preparing, Copying, Releases
  <1>2. /\ WorkTypes /\ ClientOK(c) /\ client[c] \in WorkRow /\ Busy(c) /\ SourceOK(c)
        /\ dir \in [Dir -> DirRow] /\ prepared \in [Dir -> PreparedRow] /\ guard \in GuardRow
    BY <1>1, OneRequest DEF Busy, WorkTypes
  <1>3. /\ client[c].dir # 0 /\ client[c].dir \in Dir /\ dir[client[c].dir].kind = "work"
        /\ client[c].dir \notin maint.found /\ dir[client[c].dir].whole
        /\ prepared[client[c].dir].state = "none"
    <2>1. /\ client[c].dir # 0 /\ dir[client[c].dir].kind = "work"
          /\ client[c].dir \notin maint.found /\ dir[client[c].dir].whole
      BY <1>1, <1>2 DEF ClientOK
    <2> QED BY <2>1, OneRequest
  <1>4. CASE /\ prepared' = [prepared EXCEPT ![guard.source].expired = FALSE]
             /\ Returned(c) /\ UNCHANGED dir
    <2>1. PICK h \in WorkRow :
             /\ client' = [client EXCEPT ![c] = h] /\ client'[c] = h
             /\ h.thread = "idle" /\ h.key = client[c].key /\ h.dir = client[c].dir
             /\ h.cancel = client[c].cancel /\ h.wiping = client[c].wiping
             /\ client[c].task = "rest" => h.task = "rest"
             /\ client[c].task = "preparing" => h.task = "using"
      BY <1>2, <1>4, ReturnedRow
    <2>2. PICK s \in Dir : /\ s = guard.source /\ prepared[s].state = "ready"
                           /\ \A d \in Dir : InUse(d) /\ prepared[d].key = prepared[s].key => d = s
      <3>1. guard.source \in Dir
        BY <1>1, <1>2, WorkspacesAssumption DEF SourceOK, GuardRow, Dir
      <3> QED BY <1>1, <1>2, <3>1 DEF SourceOK
    <2>3. PICK r \in PreparedRow : /\ prepared' = [prepared EXCEPT ![s] = r]
                                   /\ r.state = "ready" /\ r.key = prepared[s].key
      <3> DEFINE r == [prepared[s] EXCEPT !.expired = FALSE]
      <3>1. r \in PreparedRow /\ r.state = "ready" /\ r.key = prepared[s].key
        BY <1>2, <2>2 DEF PreparedRow
      <3>2. prepared' = [prepared EXCEPT ![s] = r]
        BY <1>2, <1>4, <2>2
      <3> QED BY <3>1, <3>2
    <2>4. /\ prepared' \in [Dir -> PreparedRow] /\ prepared'[s] = r
          /\ \A d \in Dir \ {s} : prepared'[d] = prepared[d]
      BY <1>2, <2>3
    <2>5. \A d \in Dir : /\ prepared'[d].state = prepared[d].state
                         /\ prepared'[d].key = prepared[d].key
                         /\ d # s => (InUse(d)' <=> InUse(d))
      BY <2>2, <2>3, <2>4 DEF InUse
    <2>6. \A d \in Dir : RowOK(d)'
      BY <1>4, <2>5 DEF WorkspacesInv, RowsInv, RowOK
    <2>7. OneInUse'
      BY <2>2, <2>5 DEF WorkspacesInv, RowsInv, OneInUse
    <2>8. CapacityKept'
      <3>1. Rows' = Rows
        BY <2>5 DEF Rows
      <3> QED BY <3>1 DEF WorkspacesInv, RowsInv, CapacityKept
    <2>9. client[c].task \in {"rest", "preparing"}
      BY <1>1, <1>2 DEF ClientOK
    <2>10. ClientOK(c)'
      BY <1>1, <1>2, <1>3, <1>4, <2>1, <2>9 DEF ClientOK, Preparing, Copying, Publishing
    <2>11. \A e \in Client \ {c} : Busy(e) /\ client[e].dir # 0
             => /\ dir'[client[e].dir] = dir[client[e].dir]
                /\ prepared'[client[e].dir].state = prepared[client[e].dir].state
      BY <1>4, <2>5, OneRequest
    <2> QED BY <1>1, <1>2, <1>4, <2>1, <2>4, <2>6, <2>7, <2>8, <2>10, <2>11, HolderLeaves
  <1>5. CASE dir' = [dir EXCEPT ![client[c].dir] = NoDir] /\ Thread(c, "clone") /\ UNCHANGED prepared
    <2>1. PICK pc \in {"pick", "leave", "clone"} : pc = "clone"
      OBVIOUS
    <2>2. Thread(c, pc) /\ LockMoves(c, pc)
      BY <1>1, <1>5, <2>1 DEF LockMoves, UnderLock
    <2>3. NoDir \in DirRow
      BY DEF NoDir, DirRow
    <2> QED BY <1>1, <1>3, <1>5, <2>2, <2>3, PrepareGoesOn
  <1> QED BY <1>4, <1>5 DEF Extends

\* The renamed workspace gets its row, if nobody gave it up meanwhile.
LEMMA InsertsKeepsInv ==
  ASSUME WorkspacesInv, NEW c \in Client, Inserts(c)
  PROVE  WorkspacesInv'
  <1>1. /\ client[c].thread = "insert" /\ UNCHANGED maint /\ guard' = FreeGuard
        /\ client[c].thread \in UnderLock /\ client[c].thread \in Publishing
    BY DEF Inserts, Is, UnderLock, Publishing, Releases
  <1>2. /\ WorkTypes /\ ClientOK(c) /\ client[c] \in WorkRow /\ Busy(c) /\ RoomFor(client[c])
        /\ dir \in [Dir -> DirRow] /\ prepared \in [Dir -> PreparedRow]
    BY <1>1, OneRequest DEF Busy, WorkTypes
  <1>3. /\ client[c].dir # 0 /\ dir[client[c].dir].kind = "prepared"
        /\ prepared[client[c].dir].state = "none"
    BY <1>1, <1>2 DEF ClientOK
  <1>4. PICK p \in Dir : p = client[c].dir
    BY <1>3, OneRequest
  <1>5. ASSUME UNCHANGED prepared, NEW n \in DirRow, dir' = [dir EXCEPT ![client[c].dir] = n], Raised(c)
        PROVE  WorkspacesInv'
    <2>1. LockMoves(c, "idle")
      BY <1>1 DEF LockMoves, UnderLock
    <2> QED BY <1>1, <1>3, <1>5, <2>1, ThreadEnds
  <1>6. CASE /\ ~client[c].cancel
             /\ prepared' = [prepared EXCEPT ![client[c].dir] =
                                [state |-> "ready", key |-> client[c].key, expired |-> FALSE]]
             /\ dir' = [dir EXCEPT ![client[c].dir].old = FALSE]
             /\ Returned(c)
    <2>1. client[c].task = "publishing"
      BY <1>1, <1>2, <1>6 DEF ClientOK
    <2>2. PICK h \in WorkRow :
             /\ client' = [client EXCEPT ![c] = h] /\ client'[c] = h
             /\ h.thread = "idle" /\ h.dir = client[c].dir /\ h.task = "cleaning"
      BY <1>2, <1>6, <2>1, ReturnedRow
    <2>3. PICK r \in PreparedRow : /\ prepared' = [prepared EXCEPT ![p] = r] /\ r.state = "ready"
                                   /\ ~r.expired /\ r.key = client[c].key
      <3> DEFINE r == [state |-> "ready", key |-> client[c].key, expired |-> FALSE]
      <3>1. r \in PreparedRow /\ r.state = "ready" /\ ~r.expired /\ r.key = client[c].key
        BY <1>2 DEF PreparedRow, WorkRow
      <3>2. prepared' = [prepared EXCEPT ![p] = r]
        BY <1>4, <1>6
      <3> QED BY <3>1, <3>2
    <2>4. PICK n \in DirRow : /\ dir' = [dir EXCEPT ![p] = n] /\ n.kind = "prepared" /\ n.whole
      <3> DEFINE n == [dir[p] EXCEPT !.old = FALSE]
      <3>1. dir[p].whole
        BY <1>2, <1>4, <2>1 DEF ClientOK
      <3>2. n \in DirRow /\ n.kind = "prepared" /\ n.whole
        BY <1>2, <1>3, <1>4, <3>1 DEF DirRow
      <3>3. dir' = [dir EXCEPT ![p] = n]
        BY <1>2, <1>4, <1>6
      <3> QED BY <3>2, <3>3
    <2>5. /\ prepared' \in [Dir -> PreparedRow] /\ prepared'[p] = r
          /\ dir' \in [Dir -> DirRow] /\ dir'[p] = n
          /\ \A d \in Dir \ {p} : prepared'[d] = prepared[d] /\ dir'[d] = dir[d]
      BY <1>2, <2>3, <2>4
    <2>6. \A d \in Dir : RowOK(d)'
      BY <2>3, <2>4, <2>5 DEF WorkspacesInv, RowsInv, RowOK
    <2>7. OneInUse'
      <3>1. \A d \in Dir : InUse(d) => prepared[d].key # client[c].key
        BY <1>1, <1>2 DEF RoomFor
      <3>2. \A d \in Dir \ {p} : InUse(d)' <=> InUse(d)
        BY <2>5 DEF InUse
      <3> QED BY <2>3, <2>5, <3>1, <3>2 DEF WorkspacesInv, RowsInv, OneInUse
    <2>8. CapacityKept'
      <3>1. Rows' = Rows \cup {p} /\ p \notin Rows
        BY <1>3, <1>4, <2>3, <2>5 DEF Rows
      <3>2. IsFiniteSet(Rows)
        <4>1. IsFiniteSet(Dir) /\ Rows \subseteq Dir
          BY WorkspacesAssumption, FS_Interval DEF Dir, Rows
        <4> QED BY <4>1, FS_Subset
      <3>3. Cardinality(Rows') = Cardinality(Rows) + 1
        BY <3>1, <3>2, FS_AddElement
      <3>4. Cardinality(Rows) + 1 <= MaxEntries
        BY <1>1, <1>2 DEF RoomFor
      <3> QED BY <3>3, <3>4 DEF CapacityKept
    <2>9. ClientOK(c)'
      BY <1>3, <2>2 DEF ClientOK, Preparing, Copying, Publishing
    <2>10. \A e \in Client \ {c} : Busy(e) /\ client[e].dir # 0
             => /\ dir'[client[e].dir] = dir[client[e].dir]
                /\ prepared'[client[e].dir].state = prepared[client[e].dir].state
      <3>1. \A e \in Client \ {c} : Busy(e) => client[e].dir # p
        BY <1>2, <1>3, <1>4 DEF WorkspacesInv, OwnDirs
      <3> QED BY <2>5, <3>1, OneRequest
    <2> QED BY <1>1, <1>2, <2>2, <2>5, <2>6, <2>7, <2>8, <2>9, <2>10, HolderLeaves
  <1>7. CASE Cleanup(client[c].dir) /\ Raised(c) /\ UNCHANGED prepared
    <2>1. PICK n \in DirRow : dir' = [dir EXCEPT ![client[c].dir] = n]
      <3>1. Cleanup(p)
        BY <1>4, <1>7
      <3> QED BY <1>2, <1>4, <3>1, CleanupIs
    <2> QED BY <1>5, <1>7, <2>1
  <1>8. CASE dir' = [dir EXCEPT ![client[c].dir] = NoDir] /\ Raised(c) /\ UNCHANGED prepared
    <2>1. NoDir \in DirRow
      BY DEF NoDir, DirRow
    <2> QED BY <1>5, <1>8, <2>1
  <1> QED BY <1>6, <1>7, <1>8 DEF Inserts

\* No request moves; one directory or row changes that nobody claims, and rows
\* only lose.
LEMMA HouseMoves ==
  ASSUME WorkspacesInv, UNCHANGED client, NEW p \in 0..Dirs,
         dir' \in [Dir -> DirRow], prepared' \in [Dir -> PreparedRow],
         \A d \in Dir \ {p} : dir'[d] = dir[d] /\ prepared'[d].state = prepared[d].state,
         p # 0 => \A e \in Client : Claims(e) => client[e].dir # p,
         maint' \in MaintRow, guard' \in GuardRow, GuardInv',
         \A e \in Client : Claims(e) => client[e].dir \notin maint'.found
                                        \/ maint'.found \subseteq maint.found,
         \A d \in Dir : RowOK(d)',
         \A d \in Dir : prepared'[d].state # "none" => prepared[d].state # "none",
         \A d \in Dir : InUse(d)' => InUse(d) /\ prepared'[d].key = prepared[d].key
  PROVE  WorkspacesInv'
  <1>1. WorkTypes /\ WorkTypes' /\ client' = client
    BY DEF WorkspacesInv, WorkTypes
  <1>2. OwnDirs'
    BY <1>1 DEF WorkspacesInv, OwnDirs, Busy
  <1>3. ASSUME NEW e \in Client
        PROVE  ClientOK(e)'
    <2>1. ClientOK(e) /\ (client[e].dir # 0 => client[e].dir \in Dir)
      BY OneRequest
    <2>2. Claims(e) => client[e].dir # 0
      BY <2>1 DEF Claims, ClientOK, Publishing
    <2>3. Claims(e) => /\ dir'[client[e].dir] = dir[client[e].dir]
                       /\ prepared'[client[e].dir].state = prepared[client[e].dir].state
      <3>1. CASE p = 0
        <4>1. p \notin Dir
          BY <3>1 DEF Dir
        <4> QED BY <2>1, <2>2, <4>1
      <3>2. CASE p # 0
        BY <2>1, <2>2, <3>2
      <3> QED BY <3>1, <3>2
    <2>4. client[e].thread \in Copying => Claims(e)
      BY DEF Claims
    <2> QED BY <1>1, <2>1, <2>3, <2>4, ClaimStaysOK
  <1>4. Rows' \subseteq Rows /\ IsFiniteSet(Rows)
    <2>1. IsFiniteSet(Dir) /\ Rows \subseteq Dir
      BY WorkspacesAssumption, FS_Interval DEF Dir, Rows
    <2> QED BY <2>1, FS_Subset DEF Rows
  <1>5. Cardinality(Rows') <= Cardinality(Rows)
    BY <1>4, FS_Subset
  <1>6. Cardinality(Rows') \in Nat /\ Cardinality(Rows) \in Nat
    BY <1>4, FS_Subset, FS_CardinalityType
  <1>7. CapacityKept'
    BY <1>5, <1>6, WorkspacesAssumption DEF WorkspacesInv, RowsInv, CapacityKept
  <1>8. OneInUse'
    BY DEF WorkspacesInv, RowsInv, OneInUse
  <1>9. ASSUME NEW e \in Client
        PROVE  RoomFor(client[e])'
    <2>1. RoomFor(client[e])
      BY OneRequest
    <2>2. client[e].thread \in {"rename", "insert"} => Cardinality(Rows') + 1 <= MaxEntries
      BY <1>5, <1>6, <2>1, WorkspacesAssumption DEF RoomFor
    <2>3. client[e].thread \in {"reserve", "rename", "insert"}
          => \A d \in Dir : InUse(d)' => prepared'[d].key # client[e].key
      BY <2>1 DEF RoomFor
    <2> QED BY <1>1, <2>2, <2>3 DEF RoomFor
  <1> QED BY <1>1, <1>2, <1>3, <1>7, <1>8, <1>9 DEF WorkspacesInv, RowsInv

\* Nobody claims a directory that has a row, or that was found left over, or
\* that was renamed while nobody publishes.
LEMMA Unclaimed ==
  ASSUME WorkspacesInv, NEW p \in Dir,
         \/ prepared[p].state # "none"
         \/ p \in maint.found /\ dir[p].kind = "work"
         \/ dir[p].kind = "prepared" /\ maint.pc = "sweep"
  PROVE  \A e \in Client : Claims(e) => client[e].dir # p
  <1> SUFFICES ASSUME NEW e \in Client, Claims(e), client[e].dir = p
               PROVE  FALSE
    OBVIOUS
  <1>1. ClientOK(e) /\ RowOK(p) /\ HolderOK(e)
    BY DEF WorkspacesInv, RowsInv, GuardInv
  <1>2. CASE client[e].thread = "insert"
    <2>1. dir[p].kind = "prepared" /\ prepared[p].state = "none"
      BY <1>1, <1>2 DEF ClientOK
    <2>2. guard.by = {e}
      BY <1>1, <1>2 DEF HolderOK, UnderLock
    <2>3. maint.pc # "sweep"
      BY <2>2, WorkspacesAssumption DEF WorkspacesInv, GuardInv, LoopHolds
    <2> QED BY <2>1, <2>3
  <1>3. CASE client[e].thread # "insert"
    <2>1. dir[p].kind = "work" /\ p \notin maint.found
      BY <1>1, <1>3 DEF Claims, ClientOK
    <2> QED BY <1>1, <2>1 DEF RowOK
  <1> QED BY <1>2, <1>3

\* The lock is moved, if at all, by nobody or by the maintenance loop.
LEMMA LoopMoves ==
  ASSUME WorkspacesInv, UNCHANGED client, guard' \in GuardRow, maint' \in MaintRow,
         OneHolder', LoopHolds', guard'.by = guard.by \/ guard.by \subseteq {"maintain"},
         guard'.by = guard.by \/ guard'.by \subseteq {"maintain"},
         guard'.source = guard.source \/ guard.by \subseteq {"maintain"},
         guard'.removing # 0 =>
           /\ prepared'[guard'.removing].state # "none" /\ guard'.by # {}
           /\ maint'.pc # "sweep"
           /\ guard'.removing = guard.removing \/ guard'.by = {"maintain"},
         \A d \in Dir : InUse(d)' => InUse(d) /\ prepared'[d].key = prepared[d].key,
         guard.source # 0 /\ guard.source # guard.removing =>
            /\ prepared'[guard.source].state = prepared[guard.source].state
            /\ prepared'[guard.source].key = prepared[guard.source].key
  PROVE  GuardInv'
  <1>1. /\ client' = client /\ RemovingOK
        /\ \A e \in Client : HolderOK(e) /\ SourceOK(e) /\ e # "maintain"
    BY WorkspacesAssumption DEF WorkspacesInv, GuardInv
  <1>2. \A e \in Client : HolderOK(e)'
    BY <1>1 DEF HolderOK
  <1>3. RemovingOK'
    <2> SUFFICES ASSUME guard'.removing # 0
                 PROVE  \A e \in Client : client[e].thread \in UnderLock
                                 => client[e].thread \in {"pick", "prune", "reserve"}
      BY <1>1 DEF RemovingOK
    <2>1. CASE guard'.by = {"maintain"}
      <3>1. \A e \in Client : client[e].thread \notin UnderLock
        BY <1>1, <1>2, <2>1 DEF HolderOK
      <3> QED BY <3>1
    <2>2. CASE guard'.removing = guard.removing
      BY <1>1, <2>2 DEF RemovingOK
    <2> QED BY <2>1, <2>2
  <1>4. ASSUME NEW e \in Client
        PROVE  SourceOK(e)'
    <2> SUFFICES ASSUME client[e].thread \in {"copying", "extend"}
                 PROVE  SourceOK(e)'
      BY <1>1 DEF SourceOK
    <2>1. guard.by = {e} /\ guard.removing = 0
      BY <1>1, OneRequest DEF HolderOK, UnderLock
    <2>2. guard'.source = guard.source
      BY <1>1, <2>1
    <2>3. /\ guard.source # 0 /\ prepared[guard.source].state = "ready"
          /\ \A d \in Dir : InUse(d) /\ prepared[d].key = prepared[guard.source].key
                            => d = guard.source
      BY <1>1 DEF SourceOK
    <2>4. /\ prepared'[guard.source].state = prepared[guard.source].state
          /\ prepared'[guard.source].key = prepared[guard.source].key
      BY <2>1, <2>3
    <2> QED BY <2>2, <2>3, <2>4 DEF SourceOK
  <1> QED BY <1>2, <1>3, <1>4 DEF GuardInv

\* What is to be removed is marked, wiped, forgotten.
LEMMA RemovesKeepsInv ==
  ASSUME WorkspacesInv, RemovesStep
  PROVE  WorkspacesInv'
  <1>1. /\ guard.removing # 0 /\ client' = client /\ maint' = maint
        /\ prepared[guard.removing].state # "none" /\ guard.by # {} /\ maint.pc # "sweep"
    BY DEF RemovesStep, WorkspacesInv, GuardInv, RemovingOK
  <1>2. /\ guard \in GuardRow /\ dir \in [Dir -> DirRow] /\ prepared \in [Dir -> PreparedRow]
        /\ maint' \in MaintRow /\ OneHolder /\ LoopHolds
    BY <1>1 DEF WorkspacesInv, WorkTypes, GuardInv
  <1>3. PICK p \in Dir : p = guard.removing
    BY <1>1, <1>2, WorkspacesAssumption DEF GuardRow, Dir
  <1>4. p \in 0..Dirs /\ RowOK(p) /\ \A e \in Client : Claims(e) => client[e].dir # p
    BY <1>1, <1>2, <1>3, Unclaimed DEF GuardRow, WorkspacesInv, RowsInv
  <1>5. NoDir \in DirRow /\ NoRow \in PreparedRow
    BY DEF NoDir, NoRow, DirRow, PreparedRow
  <1>6. ASSUME NEW n \in DirRow, NEW r \in PreparedRow,
               dir' = [dir EXCEPT ![p] = n], prepared' = [prepared EXCEPT ![p] = r],
               r.state # "ready", n.kind # "work", r.state # "none" \/ n.kind = "none",
               \/ UNCHANGED guard /\ r.state # "none"
               \/ guard' = [guard EXCEPT !.removing = 0]
        PROVE  WorkspacesInv'
    <2>1. /\ dir' \in [Dir -> DirRow] /\ prepared' \in [Dir -> PreparedRow]
          /\ dir'[p] = n /\ prepared'[p] = r
          /\ \A d \in Dir \ {p} : dir'[d] = dir[d] /\ prepared'[d] = prepared[d]
      BY <1>2, <1>6
    <2>2. \A d \in Dir : RowOK(d)'
      BY <1>6, <2>1 DEF WorkspacesInv, RowsInv, RowOK
    <2>3. \A d \in Dir : InUse(d)' => InUse(d) /\ prepared'[d].key = prepared[d].key
      BY <1>6, <2>1 DEF InUse
    <2>4. \A d \in Dir : prepared'[d].state # "none" => prepared[d].state # "none"
      BY <1>1, <1>3, <2>1
    <2>5. /\ guard' \in GuardRow /\ guard'.by = guard.by /\ guard'.source = guard.source
          /\ guard'.removing # 0 => guard'.removing = p /\ r.state # "none"
      <3>1. CASE UNCHANGED guard /\ r.state # "none"
        BY <1>2, <1>3, <3>1
      <3>2. CASE guard' = [guard EXCEPT !.removing = 0]
        BY <1>2, <3>2, WorkspacesAssumption DEF GuardRow
      <3> QED BY <1>6, <3>1, <3>2
    <2>6. OneHolder' /\ LoopHolds'
      BY <1>1, <1>2, <2>5 DEF OneHolder, LoopHolds
    <2>7. guard.source # 0 /\ guard.source # guard.removing =>
            prepared'[guard.source] = prepared[guard.source]
      <3>1. guard.source # 0 => guard.source \in Dir
        BY <1>2, WorkspacesAssumption DEF GuardRow, Dir
      <3> QED BY <1>3, <2>1, <3>1
    <2>8. guard'.removing # 0 =>
           /\ prepared'[guard'.removing].state # "none" /\ guard'.by # {}
           /\ maint'.pc # "sweep"
           /\ guard'.removing = guard.removing \/ guard'.by = {"maintain"}
      BY <1>1, <1>3, <2>1, <2>5
    <2>9. GuardInv'
      BY <1>1, <1>2, <2>3, <2>5, <2>6, <2>7, <2>8, LoopMoves
    <2> QED BY <1>1, <1>2, <1>4, <2>1, <2>2, <2>3, <2>4, <2>5, <2>9, HouseMoves
  <1>7. CASE prepared[p].state = "ready"
    <2> DEFINE r == [prepared[p] EXCEPT !.state = "deleting"]
    <2>1. r \in PreparedRow /\ r.state = "deleting"
      BY <1>2 DEF PreparedRow
    <2>2. /\ prepared' = [prepared EXCEPT ![p] = r] /\ UNCHANGED guard
          /\ dir' = [dir EXCEPT ![p] = dir[p]] /\ dir[p] \in DirRow /\ dir[p].kind # "work"
      BY <1>2, <1>3, <1>4, <1>7 DEF RemovesStep, RowOK
    <2> HIDE DEF r
    <2> QED BY <1>6, <2>1, <2>2
  <1>8. CASE prepared[p].state # "ready" /\ dir[p].kind # "none"
    <2>1. /\ prepared' = [prepared EXCEPT ![p] = prepared[p]] /\ prepared[p] \in PreparedRow
          /\ Cleanup(p) /\ prepared[p].state # "none" /\ dir[p].kind # "work"
          /\ UNCHANGED guard \/ guard' = [guard EXCEPT !.removing = 0]
      BY <1>1, <1>2, <1>3, <1>4, <1>8 DEF RemovesStep, RowOK, Cleanup
    <2>2. PICK n \in DirRow : /\ dir' = [dir EXCEPT ![p] = n]
                              /\ n = NoDir \/ n.kind = dir[p].kind
      BY <2>1, CleanupIs DEF WorkspacesInv
    <2>3. n.kind # "work"
      BY <2>1, <2>2 DEF NoDir
    <2> QED BY <1>6, <1>8, <2>1, <2>2, <2>3
  <1>9. CASE prepared[p].state # "ready" /\ dir[p].kind = "none"
    <2>1. /\ prepared' = [prepared EXCEPT ![p] = NoRow] /\ guard' = [guard EXCEPT !.removing = 0]
          /\ dir' = [dir EXCEPT ![p] = dir[p]] /\ dir[p] \in DirRow
      BY <1>2, <1>3, <1>9 DEF RemovesStep
    <2>2. NoRow.state = "none"
      BY DEF NoRow
    <2> QED BY <1>5, <1>6, <1>9, <2>1, <2>2
  <1> QED BY <1>7, <1>8, <1>9

\* The maintenance loop moves and no row changes.
LEMMA LoopKeepsInv ==
  ASSUME WorkspacesInv, UNCHANGED <<client, prepared>>, NEW p \in 0..Dirs,
         dir' \in [Dir -> DirRow], \A d \in Dir \ {p} : dir'[d] = dir[d],
         p # 0 => /\ \A e \in Client : Claims(e) => client[e].dir # p
                  /\ RowOK(p)',
         maint' \in MaintRow, guard' \in GuardRow, OneHolder', LoopHolds',
         guard' = guard \/ (guard.by \subseteq {"maintain"} /\ guard'.by \subseteq {"maintain"}),
         guard'.removing # 0 =>
           /\ guard' = guard \/ prepared[guard'.removing].state # "none"
           /\ maint'.pc # "sweep" /\ (guard' = guard \/ guard'.by = {"maintain"}),
         \A e \in Client : Claims(e) => client[e].dir \notin maint'.found
                                        \/ maint'.found \subseteq maint.found
  PROVE  WorkspacesInv'
  <1>1. /\ client' = client /\ prepared' = prepared /\ prepared' \in [Dir -> PreparedRow]
        /\ RemovingOK
    BY DEF WorkspacesInv, WorkTypes, GuardInv
  <1>2. \A d \in Dir : InUse(d)' => InUse(d) /\ prepared'[d].key = prepared[d].key
    BY <1>1 DEF InUse
  <1>3. guard'.removing # 0 =>
           /\ prepared'[guard'.removing].state # "none" /\ guard'.by # {}
           /\ maint'.pc # "sweep"
           /\ guard'.removing = guard.removing \/ guard'.by = {"maintain"}
    BY <1>1 DEF RemovingOK
  <1>4. GuardInv'
    BY <1>1, <1>2, <1>3, LoopMoves
  <1>5. \A d \in Dir : RowOK(d)'
    <2>1. ASSUME NEW d \in Dir, d # p
          PROVE  RowOK(d)'
      <3>1. RowOK(d)
        BY DEF WorkspacesInv, RowsInv
      <3> QED BY <1>1, <2>1, <3>1 DEF RowOK
    <2>2. 0 \notin Dir
      BY DEF Dir
    <2> QED BY <2>1, <2>2
  <1> QED BY <1>1, <1>2, <1>4, <1>5, HouseMoves

\* The loop takes the lock or does without, prunes, sweeps what has no row,
\* looks for what was left over and removes it.
LEMMA MaintenanceKeepsInv ==
  ASSUME WorkspacesInv, MaintenanceStep \/ MaintenanceFails
  PROVE  WorkspacesInv'
  <1>1. /\ client' = client /\ prepared' = prepared
    BY DEF MaintenanceStep, MaintenanceFails, MaintenanceBegins, MaintenancePrunes,
           MaintenanceSweeps, Classify, Reap
  <1>2. /\ guard \in GuardRow /\ dir \in [Dir -> DirRow] /\ maint \in MaintRow
        /\ OneHolder /\ LoopHolds /\ RemovingOK /\ WorkTypes
    BY DEF WorkspacesInv, WorkTypes, GuardInv
  <1>3. PICK none \in 0..Dirs : none = 0
    BY WorkspacesAssumption
  <1>4. FreeGuard \in GuardRow /\ FreeGuard.by = {} /\ FreeGuard.removing = 0
    BY WorkspacesAssumption DEF FreeGuard, GuardRow
  <1>5. CASE MaintenanceBegins
    <2>1. UNCHANGED dir /\ maint.pc = "rest" /\ guard.by # {"maintain"}
      BY <1>2, <1>5 DEF MaintenanceBegins, LoopHolds
    <2>2. CASE guard.by = {}
      <3>1. /\ guard' = [FreeGuard EXCEPT !.by = {"maintain"}]
            /\ maint' = [maint EXCEPT !.pc = "prune"]
        BY <1>5, <2>2 DEF MaintenanceBegins, Takes, Maintains
      <3>2. guard' \in GuardRow /\ guard'.by = {"maintain"} /\ guard'.removing = 0
        BY <1>4, <3>1 DEF GuardRow
      <3>3. maint' \in MaintRow /\ maint'.pc = "prune" /\ maint'.found = maint.found
        BY <1>2, <3>1 DEF MaintRow
      <3>4. OneHolder' /\ LoopHolds'
        BY <3>2, <3>3 DEF OneHolder, LoopHolds
      <3> QED BY <1>1, <1>2, <1>3, <2>1, <2>2, <3>2, <3>3, <3>4, LoopKeepsInv
    <2>3. CASE guard.by # {}
      <3>1. guard' = guard /\ maint' = [maint EXCEPT !.pc = "classify"]
        BY <1>5, <2>3 DEF MaintenanceBegins, Maintains
      <3>2. maint' \in MaintRow /\ maint'.pc = "classify" /\ maint'.found = maint.found
        BY <1>2, <3>1 DEF MaintRow
      <3>3. OneHolder' /\ LoopHolds'
        BY <1>2, <2>1, <3>1, <3>2 DEF OneHolder, LoopHolds
      <3> QED BY <1>1, <1>2, <1>3, <2>1, <3>1, <3>2, <3>3, LoopKeepsInv
    <2> QED BY <2>2, <2>3
  <1>6. CASE MaintenancePrunes
    <2>1. UNCHANGED dir /\ maint.pc = "prune" /\ guard.by = {"maintain"}
      BY <1>2, <1>6 DEF MaintenancePrunes, LoopHolds
    <2>2. PICK zero \in 0..1 : zero = 0
      OBVIOUS
    <2>3. CASE Prunes(0) /\ UNCHANGED maint
      <3>1. /\ guard' \in GuardRow /\ guard'.by = guard.by
            /\ guard'.removing # 0 => prepared[guard'.removing].state # "none"
        BY <2>2, <2>3, PruneIs
      <3>2. OneHolder' /\ LoopHolds'
        BY <1>2, <2>3, <3>1 DEF OneHolder, LoopHolds
      <3> QED BY <1>1, <1>2, <1>3, <2>1, <2>3, <3>1, <3>2, LoopKeepsInv
    <2>4. CASE Pruned(0) /\ PrunedOnce /\ Maintains("sweep")
      <3>1. guard' \in GuardRow /\ guard'.by = guard.by /\ guard'.removing = 0
        BY <1>2, <2>4 DEF Pruned, PrunedOnce, GuardRow
      <3>2. maint' \in MaintRow /\ maint'.pc = "sweep" /\ maint'.found = maint.found
        BY <1>2, <2>4 DEF MaintRow, Maintains
      <3>3. OneHolder' /\ LoopHolds'
        BY <1>2, <2>1, <3>1, <3>2 DEF OneHolder, LoopHolds
      <3> QED BY <1>1, <1>2, <1>3, <2>1, <3>1, <3>2, <3>3, LoopKeepsInv
    <2> QED BY <1>6, <2>3, <2>4 DEF MaintenancePrunes
  <1>7. CASE MaintenanceSweeps
    <2>1. maint.pc = "sweep" /\ guard.by = {"maintain"} /\ guard.removing = 0
      BY <1>2, <1>7 DEF MaintenanceSweeps, LoopHolds, RemovingOK
    <2>2. ASSUME NEW d \in Orphans, Cleanup(d), UNCHANGED maint,
                 guard' = [guard EXCEPT !.tried = @ \cup {d}]
          PROVE  WorkspacesInv'
      <3>1. d \in Dir /\ dir[d].kind = "prepared" /\ prepared[d].state = "none"
        BY DEF Orphans, Rows
      <3>2. PICK p \in 0..Dirs : p = d
        BY <3>1, WorkspacesAssumption DEF Dir
      <3>3. PICK n \in DirRow : dir' = [dir EXCEPT ![d] = n]
        BY <1>2, <2>2, <3>1, CleanupIs
      <3>4. dir' \in [Dir -> DirRow] /\ \A e \in Dir \ {p} : dir'[e] = dir[e]
        BY <1>2, <3>1, <3>2, <3>3
      <3>5. \A e \in Client : Claims(e) => client[e].dir # p
        BY <2>1, <3>1, <3>2, Unclaimed
      <3>6. RowOK(p)'
        BY <1>1, <3>1, <3>2 DEF RowOK
      <3>7. guard' \in GuardRow /\ guard'.by = guard.by /\ guard'.removing = 0
        BY <1>2, <2>1, <2>2, <3>1 DEF GuardRow
      <3>8. OneHolder' /\ LoopHolds'
        BY <1>2, <2>2, <3>7 DEF OneHolder, LoopHolds
      <3> QED BY <1>1, <1>2, <2>1, <2>2, <3>4, <3>5, <3>6, <3>7, <3>8, LoopKeepsInv
    <2>3. CASE Maintains("classify") /\ Releases /\ UNCHANGED dir
      <3>1. guard' \in GuardRow /\ guard'.by = {} /\ guard'.removing = 0
        BY <1>4, <2>3 DEF Releases
      <3>2. maint' \in MaintRow /\ maint'.pc = "classify" /\ maint'.found = maint.found
        BY <1>2, <2>3 DEF MaintRow, Maintains
      <3>3. OneHolder' /\ LoopHolds'
        BY <3>1, <3>2 DEF OneHolder, LoopHolds
      <3> QED BY <1>1, <1>2, <1>3, <2>1, <2>3, <3>1, <3>2, <3>3, LoopKeepsInv
    <2> QED BY <1>7, <2>2, <2>3 DEF MaintenanceSweeps
  <1>8. CASE Classify
    <2>1. UNCHANGED <<dir, guard>> /\ maint.pc = "classify"
      BY <1>8 DEF Classify
    <2>2. /\ maint' \in MaintRow /\ maint'.pc = "reap"
          /\ maint'.found = {d \in Dir : dir[d].kind = "work" /\ dir[d].old} \ ActivePaths
      BY <1>8 DEF Classify, MaintRow
    <2>3. OneHolder' /\ LoopHolds'
      BY <1>2, <2>1, <2>2 DEF OneHolder, LoopHolds
    <2>4. ASSUME NEW e \in Client, Claims(e)
          PROVE  client[e].dir \notin maint'.found
      <3>1. ClientOK(e)
        BY OneRequest
      <3>2. CASE client[e].thread \in Copying
        BY <2>2, <3>1, <3>2 DEF ClientOK
      <3>3. CASE client[e].task \in {"using", "publishing"}
        BY <2>2, <3>3 DEF ActivePaths
      <3>4. CASE client[e].thread = "insert"
        BY <2>2, <3>1, <3>4 DEF ClientOK
      <3> QED BY <2>4, <3>2, <3>3, <3>4 DEF Claims
    <2>5. guard'.removing # 0 => maint'.pc # "sweep"
      BY <2>2
    <2> QED BY <1>1, <1>2, <1>3, <2>1, <2>2, <2>3, <2>4, <2>5, LoopKeepsInv
  <1>9. CASE Reap
    <2>1. guard' = guard /\ maint.pc = "reap"
      BY <1>9 DEF Reap
    <2>2. ASSUME NEW d \in maint.found, maint' = [maint EXCEPT !.found = @ \ {d}]
          PROVE  /\ maint' \in MaintRow /\ maint'.pc = "reap" /\ maint'.found \subseteq maint.found
                 /\ OneHolder' /\ LoopHolds' /\ d \in Dir
      <3>1. maint' \in MaintRow /\ maint'.pc = "reap" /\ maint'.found \subseteq maint.found
        BY <1>2, <2>1, <2>2 DEF MaintRow
      <3>2. OneHolder' /\ LoopHolds' /\ d \in Dir
        BY <1>2, <2>1, <3>1 DEF OneHolder, LoopHolds, MaintRow
      <3> QED BY <3>1, <3>2
    <2>3. ASSUME NEW d \in maint.found, maint' = [maint EXCEPT !.found = @ \ {d}],
                 dir[d].kind = "work", Cleanup(d)
          PROVE  WorkspacesInv'
      <3>1. d \in Dir
        BY <2>2, <2>3
      <3>2. PICK p \in 0..Dirs : p = d
        BY <3>1, WorkspacesAssumption DEF Dir
      <3>3. PICK n \in DirRow : dir' = [dir EXCEPT ![d] = n]
        BY <1>2, <2>3, <3>1, CleanupIs
      <3>4. dir' \in [Dir -> DirRow] /\ \A e \in Dir \ {p} : dir'[e] = dir[e]
        BY <1>2, <3>1, <3>2, <3>3
      <3>5. \A e \in Client : Claims(e) => client[e].dir # p
        BY <2>3, <3>1, <3>2, Unclaimed
      <3>6. RowOK(p)'
        <4>1. RowOK(d)
          BY <3>1 DEF WorkspacesInv, RowsInv
        <4> QED BY <1>1, <2>3, <3>2, <4>1 DEF RowOK
      <3> QED BY <1>1, <1>2, <2>1, <2>2, <2>3, <3>4, <3>5, <3>6, LoopKeepsInv
    <2>4. ASSUME NEW d \in maint.found, maint' = [maint EXCEPT !.found = @ \ {d}], UNCHANGED dir
          PROVE  WorkspacesInv'
      BY <1>1, <1>2, <1>3, <2>1, <2>2, <2>4, LoopKeepsInv
    <2>5. CASE Maintains("rest") /\ UNCHANGED dir
      <3>1. maint' \in MaintRow /\ maint'.pc = "rest" /\ maint'.found = maint.found
        BY <1>2, <2>5 DEF MaintRow, Maintains
      <3>2. OneHolder' /\ LoopHolds'
        BY <1>2, <2>1, <3>1 DEF OneHolder, LoopHolds
      <3> QED BY <1>1, <1>2, <1>3, <2>1, <2>5, <3>1, <3>2, LoopKeepsInv
    <2> QED BY <1>9, <2>3, <2>4, <2>5 DEF Reap
  <1>10. CASE MaintenanceFails
    <2>1. UNCHANGED dir /\ maint' \in MaintRow /\ maint'.pc = "rest" /\ maint'.found = {}
      BY <1>10 DEF MaintenanceFails, MaintRow
    <2>2. CASE guard.by = {"maintain"}
      <3>1. guard' \in GuardRow /\ guard'.by = {} /\ guard'.removing = 0
        BY <1>4, <1>10, <2>2 DEF MaintenanceFails
      <3>2. OneHolder' /\ LoopHolds'
        BY <2>1, <3>1 DEF OneHolder, LoopHolds
      <3> QED BY <1>1, <1>2, <1>3, <2>1, <2>2, <3>1, <3>2, LoopKeepsInv
    <2>3. CASE guard.by # {"maintain"}
      <3>1. guard' = guard
        BY <1>10, <2>3 DEF MaintenanceFails
      <3>2. OneHolder' /\ LoopHolds'
        BY <1>2, <2>1, <2>3, <3>1 DEF OneHolder, LoopHolds
      <3> QED BY <1>1, <1>2, <1>3, <2>1, <3>1, <3>2, LoopKeepsInv
    <2> QED BY <2>2, <2>3
  <1> QED BY <1>5, <1>6, <1>7, <1>8, <1>9, <1>10 DEF MaintenanceStep

\* Time passes.
LEMMA WorkspaceTimeKeepsInv ==
  ASSUME WorkspacesInv, NEW d \in Dir, Ages(d) \/ Expires(d)
  PROVE  WorkspacesInv'
  <1>1. /\ client' = client /\ guard' = guard /\ maint' = maint
        /\ guard' \in GuardRow /\ maint' \in MaintRow /\ OneHolder /\ LoopHolds /\ RemovingOK
        /\ dir \in [Dir -> DirRow] /\ prepared \in [Dir -> PreparedRow]
    BY DEF Ages, Expires, WorkspacesInv, WorkTypes, GuardInv
  <1>2. OneHolder' /\ LoopHolds'
    BY <1>1 DEF OneHolder, LoopHolds
  <1>3. CASE Ages(d)
    <2>1. prepared' = prepared
      BY <1>3 DEF Ages
    <2>2. PICK n \in DirRow : /\ dir' = [dir EXCEPT ![d] = n]
                              /\ n.kind = dir[d].kind /\ n.whole = dir[d].whole
      <3> DEFINE n == [dir[d] EXCEPT !.old = TRUE]
      <3>1. n \in DirRow /\ n.kind = dir[d].kind /\ n.whole = dir[d].whole
        BY <1>1 DEF DirRow
      <3>2. dir' = [dir EXCEPT ![d] = n]
        BY <1>1, <1>3 DEF Ages
      <3> QED BY <3>1, <3>2
    <2>3. /\ dir' \in [Dir -> DirRow]
          /\ \A e \in Dir : dir'[e].kind = dir[e].kind /\ dir'[e].whole = dir[e].whole
          /\ \A e \in Dir \ {d} : dir'[e] = dir[e]
      BY <1>1, <2>2
    <2>4. ASSUME NEW e \in Client
          PROVE  ClientOK(e)'
      <3>1. ClientOK(e) /\ WorkTypes /\ (client[e].dir # 0 => client[e].dir \in Dir)
        BY OneRequest
      <3>2. Claims(e) => client[e].dir \in Dir
        BY <3>1 DEF Claims, ClientOK, Publishing
      <3>3. client[e].thread \in Copying => client[e].dir # d /\ client[e].dir \in Dir
        BY <1>3, <3>2 DEF Ages, Copying, Claims
      <3> QED BY <1>1, <2>1, <2>3, <3>1, <3>2, <3>3, ClaimStaysOK
    <2>5. \A e \in Dir : RowOK(e)'
      BY <2>1, <2>3 DEF RowOK, WorkspacesInv, RowsInv
    <2>6. OneInUse' /\ CapacityKept' /\ \A e \in Client : RoomFor(client[e])'
      BY <1>1, <2>1 DEF WorkspacesInv, RowsInv, OneInUse, CapacityKept, RoomFor, InUse, Rows
    <2>7. GuardInv'
      BY <1>1, <2>1 DEF WorkspacesInv, GuardInv, OneHolder, LoopHolds, RemovingOK, HolderOK,
                        SourceOK, InUse
    <2>8. OwnDirs' /\ WorkTypes'
      BY <1>1, <2>1, <2>3 DEF WorkspacesInv, OwnDirs, Busy, WorkTypes
    <2> QED BY <2>4, <2>5, <2>6, <2>7, <2>8 DEF WorkspacesInv, RowsInv
  <1>4. CASE Expires(d)
    <2>1. PICK none \in 0..Dirs : none = 0
      BY WorkspacesAssumption
    <2>2. dir' = dir
      BY <1>4 DEF Expires
    <2>3. PICK r \in PreparedRow : /\ prepared' = [prepared EXCEPT ![d] = r] /\ r.expired
                                   /\ r.state = prepared[d].state /\ r.key = prepared[d].key
      <3> DEFINE r == [prepared[d] EXCEPT !.expired = TRUE]
      <3>1. /\ r \in PreparedRow /\ r.expired
            /\ r.state = prepared[d].state /\ r.key = prepared[d].key
        BY <1>1 DEF PreparedRow
      <3>2. prepared' = [prepared EXCEPT ![d] = r]
        BY <1>1, <1>4 DEF Expires
      <3> QED BY <3>1, <3>2
    <2>4. /\ prepared' \in [Dir -> PreparedRow]
          /\ \A e \in Dir : /\ prepared'[e].state = prepared[e].state
                            /\ prepared'[e].key = prepared[e].key
                            /\ InUse(e)' => InUse(e)
      BY <1>1, <2>3 DEF InUse
    <2>5. \A e \in Dir : RowOK(e)'
      BY <2>2, <2>4 DEF RowOK, WorkspacesInv, RowsInv
    <2>6. guard.removing # 0 => prepared'[guard.removing].state # "none"
      <3>1. guard.removing # 0 => guard.removing \in Dir
        BY <1>1, WorkspacesAssumption DEF GuardRow, Dir
      <3> QED BY <1>1, <2>4, <3>1 DEF RemovingOK
    <2>7. guard.source # 0 => /\ prepared'[guard.source].state = prepared[guard.source].state
                              /\ prepared'[guard.source].key = prepared[guard.source].key
      <3>1. guard.source # 0 => guard.source \in Dir
        BY <1>1, WorkspacesAssumption DEF GuardRow, Dir
      <3> QED BY <2>4, <3>1
    <2>8. GuardInv'
      BY <1>1, <1>2, <2>4, <2>6, <2>7, LoopMoves DEF RemovingOK
    <2> QED BY <1>1, <2>1, <2>2, <2>4, <2>5, <2>8, HouseMoves
  <1> QED BY <1>3, <1>4

\* Files and rows stay, and nothing else is known any more.
LEMMA WorkspaceCrashKeepsInv ==
  ASSUME WorkspacesInv, Crashes
  PROVE  WorkspacesInv'
  <1>1. /\ client' = [c \in Client |-> Idler] /\ guard' = FreeGuard
        /\ maint' = [pc |-> "rest", found |-> {}] /\ dir' = dir /\ prepared' = prepared
    BY DEF Crashes
  <1>2. /\ Idler \in WorkRow /\ Idler.task = "rest" /\ Idler.thread = "idle" /\ ~Idler.wiping
        /\ FreeGuard \in GuardRow /\ FreeGuard.by = {} /\ FreeGuard.removing = 0
    BY WorkspacesAssumption DEF Idler, WorkRow, FreeGuard, GuardRow
  <1>3. maint' \in MaintRow /\ maint'.pc = "rest"
    BY <1>1 DEF MaintRow
  <1>4. WorkTypes'
    BY <1>1, <1>2, <1>3 DEF WorkspacesInv, WorkTypes
  <1>5. \A c \in Client : client'[c].task = "rest" /\ client'[c].thread = "idle" /\ ~client'[c].wiping
    BY <1>1, <1>2
  <1>6. OwnDirs'
    BY <1>5 DEF OwnDirs, Busy
  <1>7. \A c \in Client : ClientOK(c)'
    BY <1>5 DEF ClientOK, Preparing, Copying, Publishing
  <1>8. GuardInv'
    BY <1>1, <1>2, <1>3, <1>5 DEF GuardInv, OneHolder, LoopHolds, RemovingOK, HolderOK, SourceOK, UnderLock
  <1>9. RowsInv'
    BY <1>1, <1>5 DEF WorkspacesInv, RowsInv, RowOK, OneInUse, CapacityKept, RoomFor, InUse, Rows
  <1> QED BY <1>4, <1>6, <1>7, <1>8, <1>9 DEF WorkspacesInv

\* Nothing has happened yet.
LEMMA WorkspacesInitIsOK ==
  ASSUME WorkspacesInit
  PROVE  WorkspacesInv
  <1>1. /\ client = [c \in Client |-> Idler] /\ guard = FreeGuard
        /\ maint = [pc |-> "rest", found |-> {}]
        /\ dir = [d \in Dir |-> NoDir] /\ prepared = [d \in Dir |-> NoRow]
    BY DEF WorkspacesInit
  <1>2. /\ Idler \in WorkRow /\ Idler.task = "rest" /\ Idler.thread = "idle" /\ ~Idler.wiping
        /\ FreeGuard \in GuardRow /\ FreeGuard.by = {} /\ FreeGuard.removing = 0
    BY WorkspacesAssumption DEF Idler, WorkRow, FreeGuard, GuardRow
  <1>3. NoDir \in DirRow /\ NoRow \in PreparedRow /\ NoRow.state = "none"
    BY DEF NoDir, NoRow, DirRow, PreparedRow
  <1>4. maint \in MaintRow /\ maint.pc = "rest"
    BY <1>1 DEF MaintRow
  <1>5. WorkTypes
    BY <1>1, <1>2, <1>3, <1>4 DEF WorkTypes
  <1>6. \A c \in Client : client[c].task = "rest" /\ client[c].thread = "idle" /\ ~client[c].wiping
    BY <1>1, <1>2
  <1>7. \A d \in Dir : prepared[d].state = "none"
    BY <1>1, <1>3
  <1>8. OwnDirs
    BY <1>6 DEF OwnDirs, Busy
  <1>9. \A c \in Client : ClientOK(c)
    BY <1>6 DEF ClientOK, Preparing, Copying, Publishing
  <1>10. GuardInv
    BY <1>1, <1>2, <1>4, <1>6 DEF GuardInv, OneHolder, LoopHolds, RemovingOK, HolderOK, SourceOK, UnderLock
  <1>11. CapacityKept
    <2>1. Rows = {}
      BY <1>7 DEF Rows
    <2>2. Cardinality(Rows) = 0
      BY <2>1, FS_EmptySet
    <2> QED BY <2>2, WorkspacesAssumption DEF CapacityKept
  <1>12. RowsInv
    BY <1>6, <1>7, <1>11 DEF RowsInv, RowOK, OneInUse, RoomFor, InUse
  <1> QED BY <1>5, <1>8, <1>9, <1>10, <1>12 DEF WorkspacesInv

\* Every step of a request, of its thread, of the loop, of time.
LEMMA WorkStepKeepsInv ==
  ASSUME WorkspacesInv, [WorkspacesNext]_workVars
  PROVE  WorkspacesInv'
  <1>1. CASE \E c \in Client, k \in Commits : Asks(c, k)
    BY <1>1, AsksKeepsInv
  <1>2. ASSUME NEW c \in Client, Publishes(c) \/ Finishes(c) \/ Cancelled(c)
        PROVE  WorkspacesInv'
    BY <1>2, TaskKeepsInv
  <1>3. ASSUME NEW c \in Client, CleansUp(c) \/ CleanedUp(c)
        PROVE  WorkspacesInv'
    BY <1>3, CleaningKeepsInv
  <1>4. ASSUME NEW c \in Client, ThreadStep(c)
        PROVE  WorkspacesInv'
    BY <1>4, EntersCopyKeepsInv, PicksKeepsInv, LeavesCopyKeepsInv, CopiesKeepsInv,
       ExtendsKeepsInv, ClonesKeepsInv, ComesToPublishKeepsInv, PrunesToPublishKeepsInv,
       SeeksKeepsInv, RenamesKeepsInv, InsertsKeepsInv DEF ThreadStep
  <1>5. CASE RemovesStep
    BY <1>5, RemovesKeepsInv
  <1>6. CASE MaintenanceStep \/ MaintenanceFails
    BY <1>6, MaintenanceKeepsInv
  <1>7. CASE Crashes
    BY <1>7, WorkspaceCrashKeepsInv
  <1>8. CASE \E d \in Dir : Ages(d) \/ Expires(d)
    BY <1>8, WorkspaceTimeKeepsInv
  <1>9. CASE UNCHANGED workVars
    <2>1. /\ dir' = dir /\ prepared' = prepared /\ client' = client /\ guard' = guard
          /\ maint' = maint
      BY <1>9 DEF workVars
    <2>2. WorkTypes' /\ OwnDirs' /\ \A c \in Client : ClientOK(c)'
      BY <2>1 DEF WorkspacesInv, WorkTypes, OwnDirs, Busy, ClientOK
    <2>3. GuardInv'
      BY <2>1 DEF WorkspacesInv, GuardInv, OneHolder, LoopHolds, RemovingOK, HolderOK,
                  SourceOK, InUse
    <2>4. RowsInv'
      BY <2>1 DEF WorkspacesInv, RowsInv, RowOK, OneInUse, CapacityKept, RoomFor, InUse, Rows
    <2> QED BY <2>2, <2>3, <2>4 DEF WorkspacesInv
  <1> QED BY <1>1, <1>2, <1>3, <1>4, <1>5, <1>6, <1>7, <1>8, <1>9 DEF WorkspacesNext

\* Requests, their directories, the rows and the lock agree.
THEOREM WorkspacesInvariance == WorkspacesSpec => []WorkspacesInv
  <1> QED BY WorkspacesInitIsOK, WorkStepKeepsInv, PTL DEF WorkspacesSpec

\* What the cache hands out: a row that says ready has its whole directory, no
\* two rows in use are of the same commits, and there are no more rows than
\* allowed, through crashes, cancelled publications and deletions that fail
\* (PreparedWorkspaces.copy, publish, _remove, _prune).
THEOREM CacheStaysWhole == WorkspacesSpec => []CacheIsWhole
  <1>1. WorkspacesInv => CacheIsWhole
    <2> SUFFICES ASSUME WorkspacesInv
                 PROVE  CacheIsWhole
      OBVIOUS
    <2>1. ReadyRowIsWhole /\ CapacityKept
      BY DEF WorkspacesInv, RowsInv, RowOK, ReadyRowIsWhole
    <2>2. OneReadyCopyPerKey
      <3> SUFFICES ASSUME NEW k \in Commits
                   PROVE  Cardinality(ReadyFor({k})) <= 1
        BY DEF OneReadyCopyPerKey
      <3>1. \A d, e \in ReadyFor({k}) : d = e
        BY DEF WorkspacesInv, RowsInv, OneInUse, InUse, ReadyFor
      <3>2. CASE ReadyFor({k}) = {}
        BY <3>2, FS_EmptySet
      <3>3. CASE ReadyFor({k}) # {}
        <4>1. PICK d \in ReadyFor({k}) : TRUE
          BY <3>3
        <4>2. ReadyFor({k}) = {d}
          BY <3>1
        <4> QED BY <4>2, FS_Singleton
      <3> QED BY <3>2, <3>3
    <2> QED BY <2>1, <2>2 DEF CacheIsWhole
  <1> QED BY <1>1, WorkspacesInvariance, PTL

\* Whoever copies, clones or works keeps its directory, whatever the reaper,
\* the pruner and the other requests do (prepare_repository, _repo_paths,
\* reap_orphaned_workspaces).
THEOREM WorkspaceIsKept == WorkspacesSpec => []ClientKeepsWorkspace
  <1>1. WorkspacesInv => ClientKeepsWorkspace
    BY DEF WorkspacesInv, ClientOK, ClientKeepsWorkspace, Copying
  <1> QED BY <1>1, WorkspacesInvariance, PTL

\* The types of the workspaces, whoever runs and whoever does not.
LEMMA WorkspacesAreTyped == WorkspacesInit /\ [][WorkspacesNext]_workVars => []WorkspacesTypeOK
  <1>1. WorkspacesInv => WorkspacesTypeOK
    BY DEF WorkspacesInv, WorkTypes, WorkRow, DirRow, PreparedRow, GuardRow, MaintRow,
           WorkspacesTypeOK
  <1> QED BY <1>1, WorkspacesInitIsOK, WorkStepKeepsInv, PTL

\* The variables of the workspaces have the values meant for them.
THEOREM WorkspacesTypes == WorkspacesSpec => []WorkspacesTypeOK
  <1> QED BY WorkspacesAreTyped, PTL DEF WorkspacesSpec

-----------------------------------------------------------------------------
(* MCServices: the parts together *)

\* Each part behaves as its own module says, whatever the others do.
LEMMA PartsBehave ==
  ServicesSpec => /\ Init /\ [][Next]_vars
                  /\ IntakeInit /\ [][IntakeNext]_intakeVars
                  /\ PoolInit /\ [][PoolNext]_poolVars
                  /\ WorkspacesInit /\ [][WorkspacesNext]_workVars
                  /\ RoundsInit /\ [][RoundsNext]_roundVars
  <1>1. ServicesInit => Init /\ IntakeInit /\ PoolInit /\ WorkspacesInit /\ RoundsInit
    BY DEF ServicesInit
  <1>2. UNCHANGED services => /\ UNCHANGED vars /\ UNCHANGED intakeVars /\ UNCHANGED poolVars
                              /\ UNCHANGED workVars /\ UNCHANGED roundVars
    BY DEF services
  <1>3. [ServicesNext]_services => /\ [Next]_vars /\ [IntakeNext]_intakeVars /\ [PoolNext]_poolVars
                                   /\ [WorkspacesNext]_workVars /\ [RoundsNext]_roundVars
    BY <1>2 DEF ServicesNext
  <1> QED BY <1>1, <1>3, PTL DEF ServicesSpec

\* Every part keeps to its types beside the others, also where the run lets it
\* rest.
THEOREM ServicesAreTyped == ServicesSpec => []ServicesTypeOK
  <1>1. RoundsSpec => []RoundsTypeOK
    <2>1. RoundsInv => RoundsTypeOK
      BY DEF RoundsInv
    <2> QED BY <2>1, RoundsInvariance, PTL
  <1>2. PublicationTypeOK /\ IntakeTypeOK /\ PoolTypeOK /\ WorkspacesTypeOK /\ RoundsTypeOK
        => ServicesTypeOK
    BY DEF ServicesTypeOK
  <1> QED BY <1>1, <1>2, PartsBehave, PublicationTypes, IntakeTypesHold, PoolIsTyped,
             WorkspacesAreTyped, PTL DEF PublicationSpec, IntakeSpec, RoundsSpec
=============================================================================
