-------------------------- MODULE PublicationProofs --------------------------
(***************************************************************************)
(* Proofs about Publication, for any number of deliveries, findings and    *)
(* mishaps.                                                                *)
(***************************************************************************)
EXTENDS Publication, FiniteSetTheorems, TLAPS

-----------------------------------------------------------------------------
(* The inductive invariant *)

Handler == [pc : Pc, then : {"check", "upsert", "items", "validate"},
            phase : {"Publishing", "Published", "Partial"},
            fallback : SUBSET Unmappable, checked : BOOLEAN, todo : SUBSET Finding,
            lot : SUBSET Finding, id : {0, 1}, err : Err, closing : BOOLEAN]
Note == [state : {"pending", "publishing", "published", "failed"}, body : Body \cup {NoBody}]
JobRow == [status : {"none", "queued", "retry", "leased", "completed", "dead"},
           live : BOOLEAN, tries : Nat, max : Nat]
Slot == [holder : (0 .. Attempts) \X Nat, live : BOOLEAN, comment : {0, 1},
         latest : Attempt \cup {None}, hash : Body \cup {NoBody},
         pending : Attempt \cup {None}]

\* Types, and one summary comment at most: every new one would be the first.
Types ==
    /\ state \in [Attempt -> AttemptState]
    /\ job \in [Attempt -> JobRow]
    /\ item \in [Attempt -> [Finding -> ItemState]]
    /\ note \in [Attempt -> Note]
    /\ batch \in [Attempt -> [Lot -> ItemState \cup {"none"}]]
    /\ slot \in Slot
    /\ handler \in [Attempt -> Handler]
    /\ wire \subseteq Request
    /\ sticky \in [1 .. 2 -> Body \cup {NoBody}] /\ sticky[2] = NoBody
    /\ slot.comment = 1 => sticky[1] # NoBody
    /\ posted \in [Posts -> {0, 1}]
    /\ pr \in [current : BOOLEAN, open : [Attempt -> BOOLEAN]]
    /\ faults \in 0 .. FaultCap

\* The delivery that took the slot last, and did so in its latest try.
HasSlot(a) == slot.holder = <<a, job[a].tries>>

Uncommented(f) == \A p \in Posts : f \in p[2] => posted[p] = 0

\* The summary shows body b, edited or not.
Tells(b) ==
    /\ sticky[1] # NoBody
    /\ sticky[1].pub = b.pub /\ sticky[1].phase = b.phase
    /\ sticky[1].told = b.told /\ sticky[1].fallback = b.fallback

\* A request with body b would change the summary, and not to an earlier review.
Improves(b, id) ==
    /\ b \in Body /\ b.edited = FALSE
    /\ IF id = None THEN sticky[1] = NoBody
       ELSE sticky[1] # NoBody /\ sticky[1] # b /\ sticky[1].pub <= b.pub

-----------------------------------------------------------------------------
(* Requests *)

\* Where a delivery may be while GitHub may still carry out its request r.
MayBeUnheard(r) ==
    LET h == handler[r.by]
    IN  \/ h.pc \in {"none", "acquire", "begin", "reconcile", "leave", "settle"}
        \/ h.pc = "recover" /\ h.then = "check" /\ r.kind = "review"
        \/ h.pc = "raised" /\ (~h.checked \/ h.err \in {"uncertain", "lost"})
        \/ Awaited(r)

SentOK(r) ==
    /\ slot.pending = r.by
    /\ Awaited(r) => handler[r.by].pc = IF r.kind = "review" THEN "banswer" ELSE "answer"
    /\ IF r.at = "sent" THEN MayBeUnheard(r) ELSE Awaited(r)
    /\ r.kind = "review" =>
          /\ Unresolved(r.by) = {r.lot} /\ note[r.by].state # "publishing"
          /\ Awaited(r) => r.lot = handler[r.by].lot
          /\ IF r.at = "applied" THEN posted[<<r.by, r.lot>>] = 1
             ELSE \A f \in r.lot : Uncommented(f)
    /\ r.kind # "review" =>
          /\ note[r.by].state = "publishing" /\ r.body = note[r.by].body /\ r.body.pub = r.by
          /\ Awaited(r) => r.id = handler[r.by].id
          /\ r.id = IF r.kind = "create" THEN None ELSE 1
          /\ r.at = "sent" => Improves(r.body, r.id)
          /\ r.at = "applied" => Tells(r.body)

WireInv == /\ \A r, s \in wire : r = s
           /\ \A r \in wire : SentOK(r)

-----------------------------------------------------------------------------
(* Comments and items *)

PostInv ==
    /\ \A p, q \in Posts : p[2] \cap q[2] # {} /\ posted[p] > 0 /\ posted[q] > 0 => p = q
    /\ PostedIsAccounted
    /\ \A a \in Attempt : \A f \in Finding : item[a][f] = "published" => ~Uncommented(f)

-----------------------------------------------------------------------------
(* Deliveries *)

\* What a delivery has done about the findings outside rest.
Done(a, rest) ==
    \A f \in Finding \ rest :
        IF f \in handler[a].fallback THEN item[a][f] = "summary_only"
        ELSE item[a][f] = "published"

Resolved == {"check", "upsert", "intent", "send", "answer", "finish", "validate", "mark",
             "items", "batch"}
Unwritten == {"recover", "check", "upsert", "intent", "validate", "mark", "items", "batch",
              "bsend", "banswer"}
Early == {"none", "acquire", "begin", "reconcile", "check"}
Summarizing == {"upsert", "intent", "send", "answer", "finish"}

\* What the code holds on to, step by step.
ProgressOK(a) ==
    LET h == handler[a]
    IN  /\ h.pc \in Early \/ (h.pc = "recover" /\ h.then = "check")
           => ~h.checked /\ ~h.closing /\ h.lot = {} /\ h.phase = "Publishing"
        /\ h.closing => /\ h.phase = "Partial" /\ h.lot = {}
                        /\ h.pc \in Summarizing \cup {"validate", "mark", "raised", "leave", "settle"}
        /\ h.phase = "Partial" => h.closing
        /\ h.phase = "Published" =>
              h.pc \in Summarizing \cup {"validate", "mark", "raised", "leave", "settle"}
        /\ h.pc \in Summarizing \cup {"items", "mark"} => h.lot = {}
        /\ h.pc = "recover" => (h.lot # {} <=> h.then = "validate")
        /\ h.pc = "validate" /\ h.lot # {} => h.phase = "Publishing"
        /\ h.pc \in {"bsend", "banswer"} => h.lot # {}
        /\ h.pc = "batch" => h.lot = {}

\* What its rows say.
RowsOK(a) ==
    LET h == handler[a]
    IN  /\ note[a].state = "publishing" =>
              /\ slot.pending = a /\ h.pc \notin Unwritten
              /\ h.pc = "raised" => ~h.checked \/ h.err \in {"uncertain", "lost"}
        /\ h.pc \in {"send", "answer", "finish"} =>
              note[a].state = "publishing" /\ note[a].body = Composed(a, h.fallback)
        /\ h.pc \in Resolved /\ ~h.closing => Unresolved(a) = {}
        /\ h.pc = "recover" /\ h.then # "check" => Unresolved(a) \subseteq {h.lot}
        /\ h.pc \in {"bsend", "banswer"} => Unresolved(a) = {h.lot} /\ slot.pending = a

\* What it knows of GitHub, also when it has lost the slot meanwhile.
SendsOK(a) ==
    LET h == handler[a]
    IN  /\ h.pc = "send" => Improves(note[a].body, h.id)
        /\ h.pc = "finish" => Tells(note[a].body)
        /\ h.pc = "bsend" => \A f \in h.lot : Uncommented(f)

\* What it has done about the findings.
ItemsOK(a) ==
    LET h == handler[a]
    IN  /\ h.pc \in {"batch"} \/ (h.pc = "validate" /\ h.lot # {}) => Done(a, h.todo)
        /\ h.pc \in {"bsend", "banswer"} => Done(a, h.todo \cup h.lot)
        /\ h.pc = "recover" /\ h.then = "validate" =>
              Done(a, h.todo \cup (IF Unresolved(a) = {} THEN {} ELSE h.lot))
        /\ h.pc \in Summarizing \cup {"validate", "mark"} /\ h.phase = "Published" => Done(a, {})
        /\ \/ h.pc \in {"batch", "bsend", "banswer"}
           \/ h.pc \in {"validate", "recover"} /\ h.lot # {}
           => (h.todo \cup h.lot) \cap h.fallback = {}

\* What holds as long as nobody else has taken the slot.
InSlotOK(a) ==
    LET h == handler[a]
    IN  HasSlot(a) =>
        /\ \/ h.pc \in {"intent", "finish", "validate", "mark", "items", "batch"}
           \/ h.pc = "recover" /\ h.then \in {"items", "validate"}
           => slot.pending \in {None, a}
        /\ h.pc = "intent" => Improves(Composed(a, h.fallback), h.id)
        /\ \/ h.pc = "mark"
           \/ h.pc = "validate" /\ h.lot = {}
           => slot.comment = 1 /\ Tells(Composed(a, h.fallback))
        /\ \/ h.pc \in {"batch", "bsend", "banswer"}
           \/ h.pc = "validate" /\ h.lot # {}
           \/ h.pc = "recover" /\ h.then = "validate"
           => /\ h.todo \cap h.lot = {}
              /\ \A f \in h.todo : Uncommented(f)

\* The job of a delivery, and the try that took the slot.
JobOK(a) ==
    /\ handler[a].pc # "none" <=> job[a].live
    /\ job[a].live => job[a].status = "leased"
    /\ state[a] \in {"absent", "previewed"} => job[a].status = "none"
    /\ slot.holder[1] = a => slot.holder[2] <= job[a].tries

DeliveryOK(a) ==
    JobOK(a) /\ ProgressOK(a) /\ RowsOK(a) /\ SendsOK(a) /\ ItemsOK(a) /\ InSlotOK(a)

PublicationInv ==
    Types /\ WireInv /\ PostInv /\ \A a \in Attempt : DeliveryOK(a)

-----------------------------------------------------------------------------
(* What a step of one delivery leaves to the others *)

\* Nothing that delivery b holds on to has moved.
StaysFor(b) ==
    /\ handler'[b] = handler[b] /\ note'[b] = note[b] /\ batch'[b] = batch[b]
    /\ item'[b] = item[b] /\ job'[b] = job[b] /\ state'[b] = state[b]
    /\ slot.pending = b => slot'.pending = b
    /\ HasSlot(b)' => /\ HasSlot(b)
                     /\ slot'.pending = slot.pending /\ slot'.comment = slot.comment
    /\ slot'.holder = slot.holder \/ slot'.holder[1] # b

\* A delivery keeps what it holds on to, as long as GitHub does not change.
LEMMA StayingIsOK ==
  ASSUME NEW b \in Attempt, DeliveryOK(b), StaysFor(b), UNCHANGED <<sticky, posted>>
  PROVE  DeliveryOK(b)'
  <1>1. JobOK(b)'
    BY DEF DeliveryOK, StaysFor, JobOK
  <1>2. ProgressOK(b)'
    BY DEF DeliveryOK, StaysFor, ProgressOK
  <1>3. Unresolved(b)' = Unresolved(b)
    BY DEF StaysFor, Unresolved
  <1>4. Composed(b, handler[b].fallback)' = Composed(b, handler[b].fallback)
    BY DEF StaysFor, Composed
  <1>5. RowsOK(b)'
    BY <1>3, <1>4 DEF DeliveryOK, StaysFor, RowsOK
  <1>6. \A f \in Finding : Uncommented(f)' = Uncommented(f)
    BY DEF Uncommented
  <1>7. SendsOK(b)'
    BY <1>6 DEF DeliveryOK, StaysFor, SendsOK, Improves, Tells, Uncommented
  <1>8. \A rest : Done(b, rest)' = Done(b, rest)
    BY DEF StaysFor, Done
  <1>9. ItemsOK(b)'
    BY <1>3, <1>8 DEF DeliveryOK, StaysFor, ItemsOK
  <1>10. InSlotOK(b)'
    BY <1>4, <1>6 DEF DeliveryOK, StaysFor, InSlotOK, Improves, Tells, Uncommented
  <1> QED BY <1>1, <1>2, <1>5, <1>7, <1>9, <1>10 DEF DeliveryOK

\* Neither does its request.
LEMMA StayingRequestIsOK ==
  ASSUME NEW r \in wire, r.by \in Attempt, SentOK(r), StaysFor(r.by), UNCHANGED <<sticky, posted>>
  PROVE  SentOK(r)'
  <1>1. Unresolved(r.by)' = Unresolved(r.by) /\ Awaited(r)' = Awaited(r)
    BY DEF StaysFor, Unresolved, Awaited
  <1>2. MayBeUnheard(r)' = MayBeUnheard(r)
    BY <1>1 DEF StaysFor, MayBeUnheard
  <1> QED BY <1>1, <1>2 DEF StaysFor, SentOK, Improves, Tells, Uncommented

\* A step of one delivery, or for it.
StepOf(a) ==
    /\ \A b \in Attempt \ {a} : StaysFor(b)
    /\ UNCHANGED <<sticky, posted>>
    /\ \A r \in wire' : r.by # a => r \in wire
    /\ \A r, s \in wire' : r = s
    /\ \A l \in Lot : posted[<<a, l>>] > 0 => batch'[a][l] \in {"publishing", "uncertain", "published"}
    /\ \A f \in Finding : item'[a][f] = "published" => ~Uncommented(f)

\* It keeps the invariant if it keeps its own part.
LEMMA StepKeepsInv ==
  ASSUME PublicationInv, NEW a \in Attempt, StepOf(a), Types', DeliveryOK(a)',
         \A r \in wire' : r.by = a => SentOK(r)'
  PROVE  PublicationInv'
  <1>1. \A b \in Attempt : DeliveryOK(b)'
    BY StayingIsOK DEF StepOf, PublicationInv
  <1>2. WireInv'
    <2>1. ASSUME NEW r \in wire', r.by # a
          PROVE  SentOK(r)'
      <3>1. r \in wire /\ SentOK(r) /\ r.by \in Attempt
        BY <2>1 DEF StepOf, PublicationInv, WireInv, Types, Request
      <3> QED BY <2>1, <3>1, StayingRequestIsOK DEF StepOf
    <2> QED BY <2>1 DEF StepOf, WireInv
  <1>3. PostInv'
    <2>1. \A f \in Finding : Uncommented(f)' = Uncommented(f)
      BY DEF StepOf, Uncommented
    <2>2. PostedIsAccounted'
      <3> SUFFICES ASSUME NEW b \in Attempt, NEW l \in Lot, posted[<<b, l>>] > 0
                   PROVE  batch'[b][l] \in {"publishing", "uncertain", "published"}
        BY DEF StepOf, PostedIsAccounted, Posts
      <3> QED BY DEF StepOf, StaysFor, PublicationInv, PostInv, PostedIsAccounted, Posts
    <2>3. \A b \in Attempt : \A f \in Finding : item'[b][f] = "published" => ~Uncommented(f)
      BY DEF StepOf, StaysFor, PublicationInv, PostInv
    <2> QED BY <2>1, <2>2, <2>3 DEF StepOf, PublicationInv, PostInv
  <1> QED BY <1>1, <1>2, <1>3 DEF PublicationInv

-----------------------------------------------------------------------------
(* Steps that only move a delivery along *)

\* One delivery's place and memory.
LEMMA HandlerPut ==
  ASSUME handler \in [Attempt -> Handler], NEW a \in Attempt, NEW h \in Handler,
         handler' = [handler EXCEPT ![a] = h]
  PROVE  /\ handler' \in [Attempt -> Handler] /\ handler'[a] = h
         /\ \A b \in Attempt \ {a} : handler'[b] = handler[b]
  OBVIOUS

\* What a delivery remembers when it goes on, or raises an error.
Placed(g, pc) == [g EXCEPT !.pc = pc]
Failing(g, err) == [g EXCEPT !.pc = "raised", !.err = err]

\* Only its place differs.
LEMMA PlacedIs ==
  ASSUME NEW g \in Handler, NEW pc \in Pc
  PROVE  LET h == Placed(g, pc)
         IN  /\ h \in Handler /\ h.pc = pc /\ h.then = g.then /\ h.phase = g.phase
             /\ h.fallback = g.fallback /\ h.checked = g.checked /\ h.todo = g.todo
             /\ h.lot = g.lot /\ h.id = g.id /\ h.err = g.err /\ h.closing = g.closing
  BY DEF Handler, Placed

\* Only its place and its error differ.
LEMMA RaisedIs ==
  ASSUME NEW g \in Handler, NEW err \in Err
  PROVE  LET h == Failing(g, err)
         IN  /\ h \in Handler /\ h.pc = "raised" /\ h.then = g.then /\ h.phase = g.phase
             /\ h.fallback = g.fallback /\ h.checked = g.checked /\ h.todo = g.todo
             /\ h.lot = g.lot /\ h.id = g.id /\ h.err = err /\ h.closing = g.closing
  <1>1. "raised" \in Pc
    BY DEF Pc
  <1> QED BY <1>1 DEF Handler, Failing

\* What the invariant says of one delivery.
LEMMA DeliveryFacts ==
  ASSUME PublicationInv, NEW a \in Attempt
  PROVE  /\ DeliveryOK(a) /\ handler[a] \in Handler /\ Types
         /\ \A r \in wire : r \in Request /\ SentOK(r)
         /\ \A r, s \in wire : r = s
  BY DEF PublicationInv, Types, WireInv

\* Where no request of a delivery can be under way, or on its way back.
LEMMA NoRequest ==
  ASSUME PublicationInv, NEW a \in Attempt,
         \/ handler[a].pc \in {"check", "upsert", "intent", "send", "finish", "validate", "mark",
                               "items", "batch", "bsend"}
         \/ handler[a].pc = "recover" /\ handler[a].then # "check"
         \/ /\ handler[a].pc = "raised" /\ handler[a].checked
            /\ handler[a].err \notin {"uncertain", "lost"}
  PROVE  \A r \in wire : r.by # a
  <1> SUFFICES ASSUME NEW r \in wire, r.by = a
               PROVE  FALSE
    OBVIOUS
  <1> QED BY DeliveryFacts DEF SentOK, MayBeUnheard, Awaited

\* With the slot its own as well, no request is under way at all.
LEMMA WireIsEmpty ==
  ASSUME PublicationInv, NEW a \in Attempt, \A r \in wire : r.by # a,
         slot.pending \in {None, a}
  PROVE  wire = {}
  <1> SUFFICES ASSUME NEW r \in wire
               PROVE  FALSE
    OBVIOUS
  <1>1. slot.pending = r.by /\ r.by \in Attempt
    BY DeliveryFacts DEF SentOK, Request
  <1> QED BY <1>1 DEF Attempt, None

\* A delivery moves on without an answer to await; its rows and the slot stay.
LEMMA MovesKeepsInv ==
  ASSUME PublicationInv, NEW a \in Attempt, NEW h \in Handler,
         handler' = [handler EXCEPT ![a] = h],
         UNCHANGED <<item, note, batch, job, slot, sticky, posted, pr>>,
         state' \in [Attempt -> AttemptState],
         \A b \in Attempt \ {a} : state'[b] = state[b],
         state'[a] = state[a] \/ state'[a] \notin {"absent", "previewed"},
         faults' \in 0 .. FaultCap,
         wire' \subseteq wire, \A r \in wire' : r.by = a => r.at = "sent" /\ MayBeUnheard(r)',
         handler[a].pc # "none", h.pc \notin {"none", "answer", "banswer"},
         ProgressOK(a)', RowsOK(a)', SendsOK(a)', ItemsOK(a)', InSlotOK(a)'
  PROVE  PublicationInv'
  <1>1. /\ handler' \in [Attempt -> Handler] /\ handler'[a] = h
        /\ \A b \in Attempt \ {a} : handler'[b] = handler[b]
    BY HandlerPut DEF PublicationInv, Types
  <1>2. Types'
    BY <1>1 DEF PublicationInv, Types
  <1>3. StepOf(a)
    <2>1. \A b \in Attempt \ {a} : StaysFor(b)
      BY <1>1 DEF StaysFor, HasSlot
    <2> QED BY <2>1, DeliveryFacts
            DEF StepOf, PublicationInv, PostInv, PostedIsAccounted, Posts
  <1>4. JobOK(a)'
    BY <1>1, DeliveryFacts DEF JobOK, DeliveryOK
  <1>5. \A r \in wire' : r.by = a => SentOK(r)'
    <2> SUFFICES ASSUME NEW r \in wire', r.by = a
                 PROVE  SentOK(r)'
      OBVIOUS
    <2>1. SentOK(r)
      BY DeliveryFacts
    <2>2. ~Awaited(r)'
      BY <1>1 DEF Awaited
    <2>3. Unresolved(a)' = Unresolved(a)
      BY DEF Unresolved
    <2> QED BY <2>1, <2>2, <2>3 DEF SentOK, Improves, Tells, Uncommented
  <1> QED BY <1>2, <1>3, <1>4, <1>5, StepKeepsInv DEF DeliveryOK

\* The same, with nothing of it under way.
LEMMA QuietMovesKeepsInv ==
  ASSUME PublicationInv, NEW a \in Attempt, NEW h \in Handler,
         handler' = [handler EXCEPT ![a] = h],
         UNCHANGED <<item, note, batch, job, slot, wire, sticky, posted, pr>>,
         state' \in [Attempt -> AttemptState],
         \A b \in Attempt \ {a} : state'[b] = state[b],
         state'[a] = state[a] \/ state'[a] \notin {"absent", "previewed"},
         faults' \in 0 .. FaultCap, \A r \in wire : r.by # a,
         handler[a].pc # "none", h.pc \notin {"none", "answer", "banswer"},
         ProgressOK(a)', RowsOK(a)', SendsOK(a)', ItemsOK(a)', InSlotOK(a)'
  PROVE  PublicationInv'
  BY MovesKeepsInv

\* An exception, when nothing may be under way that only this delivery can tell
\* from a failure: before it wrote anything, after a write of known outcome, or
\* with an error that says so.
LEMMA RaiseKeepsInv ==
  ASSUME PublicationInv, NEW a \in Attempt, NEW err \in Err, Raise(a, err),
         UNCHANGED <<state, item, note, batch, job, slot, sticky, posted, pr>>,
         faults' \in 0 .. FaultCap, handler[a].pc \notin {"none", "leave", "settle", "raised"},
         wire' \subseteq wire, \A r \in wire' : r.by = a => r.at = "sent",
         \/ ~handler[a].checked \/ err \in {"uncertain", "lost"}
         \/ note[a].state # "publishing" /\ \A r \in wire' : r.by # a
  PROVE  PublicationInv'
  <1>1. handler \in [Attempt -> Handler] /\ handler[a] \in Handler
    BY DeliveryFacts DEF Types
  <1>2. PICK h \in Handler : /\ h = Failing(handler[a], err) /\ h.pc = "raised" /\ h.err = err
                            /\ h.checked = handler[a].checked /\ h.closing = handler[a].closing
                            /\ h.phase = handler[a].phase /\ h.lot = handler[a].lot
    BY <1>1, RaisedIs
  <1>3. handler' = [handler EXCEPT ![a] = h] /\ handler'[a] = h
    BY <1>1, <1>2 DEF Raise, Failing
  <1>4. ProgressOK(a)'
    BY <1>2, <1>3, DeliveryFacts DEF ProgressOK, DeliveryOK, Early, Summarizing
  <1>5. RowsOK(a)'
    BY <1>2, <1>3, DeliveryFacts DEF RowsOK, DeliveryOK, Unwritten, Resolved
  <1>6. SendsOK(a)' /\ ItemsOK(a)' /\ InSlotOK(a)'
    BY <1>2, <1>3 DEF SendsOK, ItemsOK, InSlotOK, Summarizing
  <1>7. \A r \in wire' : r.by = a => r.at = "sent" /\ MayBeUnheard(r)'
    BY <1>2, <1>3 DEF MayBeUnheard
  <1>8. state' \in [Attempt -> AttemptState]
    BY DeliveryFacts DEF Types
  <1> QED BY <1>2, <1>3, <1>4, <1>5, <1>6, <1>7, <1>8, MovesKeepsInv

\* Going on, as the invariant needs it.
LEMMA GoIs ==
  ASSUME PublicationInv, NEW a \in Attempt, NEW pc \in Pc, Go(a, pc)
  PROVE  \E h \in Handler :
            /\ handler' = [handler EXCEPT ![a] = h] /\ handler'[a] = h
            /\ h = Placed(handler[a], pc)
            /\ h.pc = pc /\ h.then = handler[a].then /\ h.phase = handler[a].phase
            /\ h.fallback = handler[a].fallback /\ h.checked = handler[a].checked
            /\ h.todo = handler[a].todo /\ h.lot = handler[a].lot /\ h.id = handler[a].id
            /\ h.err = handler[a].err /\ h.closing = handler[a].closing
  <1>1. handler \in [Attempt -> Handler] /\ handler[a] \in Handler
    BY DeliveryFacts DEF Types
  <1>2. PICK h \in Handler :
            /\ h = Placed(handler[a], pc)
            /\ h.pc = pc /\ h.then = handler[a].then /\ h.phase = handler[a].phase
            /\ h.fallback = handler[a].fallback /\ h.checked = handler[a].checked
            /\ h.todo = handler[a].todo /\ h.lot = handler[a].lot /\ h.id = handler[a].id
            /\ h.err = handler[a].err /\ h.closing = handler[a].closing
    BY <1>1, PlacedIs
  <1>3. handler' = [handler EXCEPT ![a] = h] /\ handler'[a] = h
    BY <1>1, <1>2 DEF Go, Placed
  <1> QED BY <1>2, <1>3

\* The same of an exception.
LEMMA RaiseIs ==
  ASSUME PublicationInv, NEW a \in Attempt, NEW err \in Err, Raise(a, err)
  PROVE  \E h \in Handler :
            /\ handler' = [handler EXCEPT ![a] = h] /\ handler'[a] = h
            /\ h.pc = "raised" /\ h.err = err /\ h.phase = handler[a].phase
            /\ h.fallback = handler[a].fallback /\ h.checked = handler[a].checked
            /\ h.lot = handler[a].lot /\ h.closing = handler[a].closing
  <1>1. handler \in [Attempt -> Handler] /\ handler[a] \in Handler
    BY DeliveryFacts DEF Types
  <1>2. PICK h \in Handler :
            /\ h = Failing(handler[a], err)
            /\ h.pc = "raised" /\ h.err = err /\ h.phase = handler[a].phase
            /\ h.fallback = handler[a].fallback /\ h.checked = handler[a].checked
            /\ h.lot = handler[a].lot /\ h.closing = handler[a].closing
    BY <1>1, RaisedIs
  <1>3. handler' = [handler EXCEPT ![a] = h] /\ handler'[a] = h
    BY <1>1, <1>2 DEF Raise, Failing
  <1> QED BY <1>2, <1>3

\* A request of a delivery that awaits no answer was not heard of.
LEMMA Unanswered ==
  ASSUME PublicationInv, NEW a \in Attempt, handler[a].pc \notin {"answer", "banswer"}
  PROVE  \A r \in wire : r.by = a => r.at = "sent" /\ MayBeUnheard(r)
  BY DeliveryFacts DEF SentOK, Awaited

\* execute comes to its end.
LEMMA EndsKeepsInv ==
  ASSUME PublicationInv, NEW a \in Attempt, NEW h \in Handler,
         handler' = [handler EXCEPT ![a] = h], h.pc \in {"leave", "settle"},
         h.phase = handler[a].phase, h.closing = handler[a].closing, h.lot = handler[a].lot,
         UNCHANGED <<item, note, batch, job, slot, sticky, posted, pr>>,
         state' \in [Attempt -> AttemptState],
         \A b \in Attempt \ {a} : state'[b] = state[b],
         state'[a] = state[a] \/ state'[a] \notin {"absent", "previewed"},
         faults' \in 0 .. FaultCap, handler[a].pc # "none",
         wire' \subseteq wire, \A r \in wire' : r.by = a => r.at = "sent"
  PROVE  PublicationInv'
  <1>1. handler'[a] = h
    BY HandlerPut DEF PublicationInv, Types
  <1>2. ProgressOK(a)'
    BY <1>1, DeliveryFacts DEF ProgressOK, DeliveryOK, Early, Summarizing
  <1>3. RowsOK(a)'
    BY <1>1, DeliveryFacts DEF RowsOK, DeliveryOK, Unwritten, Resolved
  <1>4. SendsOK(a)' /\ ItemsOK(a)' /\ InSlotOK(a)'
    BY <1>1 DEF SendsOK, ItemsOK, InSlotOK, Summarizing
  <1>5. \A r \in wire' : r.by = a => r.at = "sent" /\ MayBeUnheard(r)'
    BY <1>1 DEF MayBeUnheard
  <1> QED BY <1>1, <1>2, <1>3, <1>4, <1>5, MovesKeepsInv

\* A mishap is one more.
LEMMA MishapIsCounted ==
  ASSUME Types, NEW kind, Mishap(kind) \/ Smooth
  PROVE  faults' \in 0 .. FaultCap
  BY PublicationAssumption DEF Types, Mishap, Smooth

\* Delivery a begins.
LEMMA BeginKeepsInv ==
  ASSUME PublicationInv, NEW a \in Attempt, Begin(a), Smooth
  PROVE  PublicationInv'
  <1>1. handler[a].pc = "begin" /\ "reconcile" \in Pc
    BY DEF Begin, At, Pc
  <1>2. PICK h \in Handler :
            /\ handler' = [handler EXCEPT ![a] = h] /\ handler'[a] = h
            /\ h.pc = "reconcile" /\ h.phase = handler[a].phase
            /\ h.checked = handler[a].checked
            /\ h.lot = handler[a].lot /\ h.closing = handler[a].closing
    BY <1>1, GoIs DEF Begin
  <1>3. ProgressOK(a)'
    BY <1>1, <1>2, DeliveryFacts DEF ProgressOK, DeliveryOK, Early, Summarizing
  <1>4. RowsOK(a)'
    BY <1>1, <1>2, DeliveryFacts DEF RowsOK, DeliveryOK, Unwritten, Resolved, Begin
  <1>5. SendsOK(a)' /\ ItemsOK(a)' /\ InSlotOK(a)'
    BY <1>2 DEF SendsOK, ItemsOK, InSlotOK, Summarizing
  <1>6. \A r \in wire : r.by = a => r.at = "sent" /\ MayBeUnheard(r)'
    BY <1>1, <1>2, Unanswered DEF MayBeUnheard
  <1>7. /\ state' \in [Attempt -> AttemptState] /\ \A b \in Attempt \ {a} : state'[b] = state[b]
        /\ state'[a] = "preparing"
    BY DeliveryFacts DEF Types, Begin, AttemptState, Open
  <1> QED BY <1>1, <1>2, <1>3, <1>4, <1>5, <1>6, <1>7, MovesKeepsInv, MishapIsCounted, DeliveryFacts
          DEF Begin, github, Smooth, Types

\* The next write finds the slot, the job or the review gone.
LEMMA LostKeepsInv ==
  ASSUME PublicationInv, NEW a \in Attempt, FindsLeaseLost(a), Smooth
  PROVE  PublicationInv'
  <1>1. handler[a].pc \in Writes \cup {"recover", "items", "batch"}
    BY DEF FindsLeaseLost, At
  <1>2. \A r \in wire : r.by = a => r.at = "sent"
    BY <1>1, Unanswered DEF Writes
  <1>3. "lost" \in Err /\ faults' \in 0 .. FaultCap
    BY DeliveryFacts DEF Err, Types, Smooth
  <1> QED BY <1>1, <1>2, <1>3, RaiseKeepsInv DEF FindsLeaseLost, Writes, rows, github

\* A read fails.
LEMMA ReadFailsKeepsInv ==
  ASSUME PublicationInv, NEW a \in Attempt, ReadFails(a)
  PROVE  PublicationInv'
  <1>1. handler[a].pc \in Reads /\ faults' \in 0 .. FaultCap
    BY MishapIsCounted, DeliveryFacts DEF ReadFails
  <1>2. PICK err \in {"refused", "throttled"} : Raise(a, err)
    BY DEF ReadFails
  <1>3. \A r \in wire : r.by = a => r.at = "sent"
    BY <1>1, Unanswered DEF Reads
  <1>4. \/ ~handler[a].checked
        \/ note[a].state # "publishing" /\ \A r \in wire : r.by # a
    BY <1>1, NoRequest, DeliveryFacts
       DEF Reads, ProgressOK, DeliveryOK, Early, RowsOK, Unwritten
  <1>5. err \in Err
    BY DEF Err
  <1> QED BY <1>1, <1>2, <1>3, <1>4, <1>5, RaiseKeepsInv DEF ReadFails, Reads, rows, github

\* Steps that leave deliveries where they are, and GitHub as it is.
LEMMA StandingKeepsInv ==
  ASSUME PublicationInv, NEW a \in Attempt,
         UNCHANGED <<handler, item, note, batch, wire, sticky, posted>>,
         state' \in [Attempt -> AttemptState], job' \in [Attempt -> JobRow],
         \A b \in Attempt \ {a} : state'[b] = state[b] /\ job'[b] = job[b],
         job'[a].tries = job[a].tries, JobOK(a)',
         slot' \in Slot, slot'.holder = slot.holder, slot'.pending = slot.pending,
         slot'.comment = slot.comment,
         pr' \in [current : BOOLEAN, open : [Attempt -> BOOLEAN]], faults' \in 0 .. FaultCap
  PROVE  PublicationInv'
  <1>1. Types'
    BY DEF PublicationInv, Types
  <1>2. \A b \in Attempt \ {a} : StaysFor(b)
    BY DEF StaysFor, HasSlot
  <1>3. StepOf(a)
    BY <1>2 DEF StepOf, PublicationInv, PostInv, PostedIsAccounted, Posts, WireInv
  <1>4. Unresolved(a)' = Unresolved(a) /\ HasSlot(a)' = HasSlot(a)
        /\ (\A rest : Done(a, rest)' = Done(a, rest))
        /\ (\A f \in Finding : Uncommented(f)' = Uncommented(f))
        /\ (\A b : Tells(b)' = Tells(b)) /\ (\A b, id : Improves(b, id)' = Improves(b, id))
    BY DEF Unresolved, HasSlot, Done, Uncommented, Tells, Improves
  <1>5. Composed(a, handler[a].fallback)' = Composed(a, handler[a].fallback)
    BY DEF Composed
  <1>6. DeliveryOK(a)
    BY DeliveryFacts
  <1>7. ProgressOK(a)' /\ RowsOK(a)'
    BY <1>4, <1>5, <1>6 DEF DeliveryOK, ProgressOK, RowsOK
  <1>8. SendsOK(a)' /\ ItemsOK(a)'
    BY <1>4, <1>5, <1>6 DEF DeliveryOK, SendsOK, ItemsOK, Tells, Improves, Uncommented
  <1>9. InSlotOK(a)'
    BY <1>4, <1>5, <1>6 DEF DeliveryOK, InSlotOK, Tells, Improves, Uncommented
  <1>10. \A r \in wire' : r.by = a => SentOK(r)'
    <2> SUFFICES ASSUME NEW r \in wire, r.by = a
                 PROVE  SentOK(r)'
      OBVIOUS
    <2>1. SentOK(r) /\ Awaited(r)' = Awaited(r) /\ MayBeUnheard(r)' = MayBeUnheard(r)
      BY DeliveryFacts DEF Awaited, MayBeUnheard
    <2> QED BY <1>4, <2>1 DEF SentOK, Improves, Tells, Uncommented
  <1> QED BY <1>1, <1>3, <1>7, <1>8, <1>9, <1>10, StepKeepsInv DEF DeliveryOK

\* The user asks, confirms and tries again.
LEMMA UserKeepsInv ==
  ASSUME PublicationInv, NEW a \in Attempt, User(a), Smooth
  PROVE  PublicationInv'
  <1>1. Types /\ JobOK(a) /\ job[a] \in JobRow /\ state[a] \in AttemptState
    BY DeliveryFacts DEF DeliveryOK, Types
  <1>2. faults' \in 0 .. FaultCap
    BY <1>1 DEF Types, Smooth
  <1>3. CASE Preview(a)
    <2>1. state' \in [Attempt -> AttemptState]
      BY <1>1, <1>3 DEF Types, Preview, AttemptState
    <2>2. JobOK(a)'
      BY <1>1, <1>3 DEF Preview, JobOK, Types
    <2> QED BY <1>1, <1>2, <1>3, <2>1, <2>2, StandingKeepsInv DEF Preview, Types, github
  <1>4. CASE Create(a)
    <2>1. PICK j \in JobRow : /\ job' = [job EXCEPT ![a] = j] /\ j.tries = job[a].tries
                              /\ j.live = job[a].live
      <3> DEFINE j == [job[a] EXCEPT !.status = "queued", !.max = MaxTries]
      <3>1. j \in JobRow /\ j.tries = job[a].tries /\ j.live = job[a].live
        BY <1>1, PublicationAssumption DEF JobRow
      <3>2. job' = [job EXCEPT ![a] = j]
        BY <1>4 DEF Create
      <3> QED BY <3>1, <3>2
    <2>2. state' \in [Attempt -> AttemptState] /\ state'[a] = "queued"
      BY <1>1, <1>4 DEF Types, Create, AttemptState, Open
    <2>3. job' \in [Attempt -> JobRow] /\ job'[a].live = job[a].live /\ job'[a].tries = job[a].tries
      BY <1>1, <2>1 DEF Types
    <2>4. JobOK(a)'
      BY <1>1, <1>4, <2>2, <2>3 DEF Create, JobOK, Types
    <2> QED BY <1>1, <1>2, <1>4, <2>1, <2>2, <2>3, <2>4, StandingKeepsInv DEF Create, Types, github
  <1>5. CASE Retry(a)
    <2>1. PICK j \in JobRow : /\ job' = [job EXCEPT ![a] = j] /\ j.tries = job[a].tries
                              /\ j.live = job[a].live
      <3>0. PICK most \in Nat : most = job[a].tries + MaxTries
        BY <1>1, PublicationAssumption DEF JobRow
      <3> DEFINE j == [job[a] EXCEPT !.status = "retry", !.max = most]
      <3>1. j \in JobRow /\ j.tries = job[a].tries /\ j.live = job[a].live
        BY <1>1 DEF JobRow
      <3>2. job' = [job EXCEPT ![a] = j]
        BY <1>5, <3>0 DEF Retry
      <3> QED BY <3>1, <3>2
    <2>2. state' \in [Attempt -> AttemptState] /\ state'[a] = "queued"
      BY <1>1, <1>5 DEF Types, Retry, AttemptState, Open
    <2>3. job' \in [Attempt -> JobRow] /\ job'[a].live = job[a].live /\ job'[a].tries = job[a].tries
      BY <1>1, <2>1 DEF Types
    <2>4. JobOK(a)'
      BY <1>1, <1>5, <2>2, <2>3 DEF Retry, JobOK, Types
    <2> QED BY <1>1, <1>2, <1>5, <2>1, <2>2, <2>3, <2>4, StandingKeepsInv DEF Retry, Types, github
  <1> QED BY <1>3, <1>4, <1>5 DEF User

\* The head moves on, a review loses its result, the slot runs out.
LEMMA OutsideKeepsInv ==
  ASSUME PublicationInv, HeadMoves \/ SlotExpires \/ \E a \in Attempt : ReviewWithdrawn(a)
  PROVE  PublicationInv'
  <1>1. PICK a \in Attempt : HeadMoves \/ SlotExpires \/ ReviewWithdrawn(a)
    BY PublicationAssumption DEF Attempt
  <1>2. Types /\ JobOK(a)
    BY DeliveryFacts DEF DeliveryOK
  <1>3. faults' \in 0 .. FaultCap
    BY <1>1, <1>2, MishapIsCounted DEF HeadMoves, SlotExpires, ReviewWithdrawn
  <1>4. CASE HeadMoves
    <2>1. pr' \in [current : BOOLEAN, open : [Attempt -> BOOLEAN]]
      BY <1>2, <1>4 DEF HeadMoves, Types
    <2> QED BY <1>2, <1>3, <1>4, <2>1, StandingKeepsInv DEF HeadMoves, Types, github, rows, JobOK
  <1>5. CASE ReviewWithdrawn(a)
    <2>1. pr' \in [current : BOOLEAN, open : [Attempt -> BOOLEAN]]
      BY <1>2, <1>5 DEF ReviewWithdrawn, Types
    <2> QED BY <1>2, <1>3, <1>5, <2>1, StandingKeepsInv DEF ReviewWithdrawn, Types, github, rows, JobOK
  <1>6. CASE SlotExpires
    <2>1. slot' \in Slot /\ slot'.holder = slot.holder /\ slot'.pending = slot.pending
          /\ slot'.comment = slot.comment
      BY <1>2, <1>6 DEF SlotExpires, Types, Slot
    <2> QED BY <1>2, <1>3, <1>6, <2>1, StandingKeepsInv DEF SlotExpires, Types, github, rows, JobOK
  <1> QED BY <1>1, <1>4, <1>5, <1>6

-----------------------------------------------------------------------------
(* The job of a delivery starts, ends and dies *)

\* A request that was not heard of stays what it was.
LEMMA UnheardIsOK ==
  ASSUME NEW r \in wire, SentOK(r), r.at = "sent", ~Awaited(r)', MayBeUnheard(r)',
         slot'.pending = slot.pending, UNCHANGED <<note, batch, sticky, posted>>
  PROVE  SentOK(r)'
  <1>1. Unresolved(r.by)' = Unresolved(r.by)
    BY DEF Unresolved
  <1> QED BY <1>1 DEF SentOK, Improves, Tells, Uncommented

\* A delivery that knows nothing: its handler has ended, or just starts.
LEMMA RestartKeepsInv ==
  ASSUME PublicationInv, NEW a \in Attempt, NEW h \in Handler, NEW j \in JobRow,
         handler' = [handler EXCEPT ![a] = h], h.pc \in {"none", "acquire", "settle"},
         ~h.checked, ~h.closing, h.lot = {}, h.phase = "Publishing",
         job' = [job EXCEPT ![a] = j], JobOK(a)',
         UNCHANGED <<state, item, note, batch, sticky, posted, pr>>,
         slot' \in Slot, slot'.pending = slot.pending, slot'.comment = slot.comment,
         slot'.holder \in {slot.holder, NoHolder}, faults' \in 0 .. FaultCap,
         \A r \in wire' : /\ r \in Request
                          /\ r.by # a => r \in wire
                          /\ r.by = a => SentOK(r)',
         \A r, s \in wire' : r = s
  PROVE  PublicationInv'
  <1>1. /\ handler' \in [Attempt -> Handler] /\ handler'[a] = h
        /\ \A b \in Attempt \ {a} : handler'[b] = handler[b]
    BY HandlerPut DEF PublicationInv, Types
  <1>2. Types
    BY DeliveryFacts
  <1>3. job' \in [Attempt -> JobRow] /\ \A b \in Attempt \ {a} : job'[b] = job[b]
    BY <1>2 DEF Types
  <1>4. Types'
    BY <1>1, <1>2, <1>3 DEF Types
  <1>5. \A b \in Attempt \ {a} : StaysFor(b)
    <2> SUFFICES ASSUME NEW b \in Attempt \ {a}
                 PROVE  StaysFor(b)
      OBVIOUS
    <2>1. NoHolder[1] # b
      BY PublicationAssumption DEF NoHolder, None, Attempt
    <2>2. HasSlot(b)' => HasSlot(b)
      BY <1>3, <2>1 DEF HasSlot
    <2> QED BY <1>1, <1>3, <2>1, <2>2 DEF StaysFor
  <1>6. StepOf(a)
    BY <1>5 DEF StepOf, PublicationInv, PostInv, PostedIsAccounted, Posts
  <1>7. ProgressOK(a)' /\ SendsOK(a)' /\ ItemsOK(a)' /\ InSlotOK(a)'
    BY <1>1 DEF ProgressOK, SendsOK, ItemsOK, InSlotOK, Summarizing
  <1>8. RowsOK(a)'
    BY <1>1, DeliveryFacts DEF DeliveryOK, RowsOK, Unwritten, Resolved
  <1> QED BY <1>4, <1>6, <1>7, <1>8, StepKeepsInv DEF DeliveryOK

\* A worker takes the job of a delivery.
LEMMA ClaimKeepsInv ==
  ASSUME PublicationInv, NEW a \in Attempt, Claim(a), Smooth
  PROVE  PublicationInv'
  <1>1. Types /\ JobOK(a) /\ job[a] \in JobRow /\ faults' \in 0 .. FaultCap
    BY DeliveryFacts DEF DeliveryOK, Types, Smooth
  <1>2. ~job[a].live /\ handler[a].pc = "none"
    BY <1>1 DEF Claim, JobOK
  <1>3. PICK j \in JobRow : /\ job' = [job EXCEPT ![a] = j] /\ j.tries = job[a].tries + 1
                            /\ j.live /\ j.status = "leased"
    <2>0. PICK next \in Nat : next = job[a].tries + 1
      BY <1>1 DEF JobRow
    <2> DEFINE j == [job[a] EXCEPT !.status = "leased", !.live = TRUE, !.tries = next]
    <2>1. j \in JobRow /\ j.tries = next /\ j.live /\ j.status = "leased"
      BY <1>1 DEF JobRow
    <2>2. job' = [job EXCEPT ![a] = j]
      BY <2>0 DEF Claim
    <2> QED BY <2>0, <2>1, <2>2
  <1>4. PICK h \in Handler : /\ handler' = [handler EXCEPT ![a] = h]
                             /\ h.pc \in {"acquire", "settle"} /\ h.phase = "Publishing"
                             /\ ~h.checked /\ ~h.closing /\ h.lot = {}
    <2>0. PICK pc \in {"acquire", "settle"} :
             pc = IF state[a] = "succeeded" THEN "settle" ELSE "acquire"
      OBVIOUS
    <2>1. pc \in Pc /\ "none" \in Pc /\ "none" \in Err
      BY DEF Pc, Err
    <2>2. Idle \in Handler
      BY <2>1 DEF Idle, Handler, None
    <2>3. handler' = [handler EXCEPT ![a] = Placed(Idle, pc)]
      BY <2>0 DEF Claim, Placed
    <2>4. Placed(Idle, pc) \in Handler /\ Placed(Idle, pc).pc = pc
      BY <2>1, <2>2, PlacedIs
    <2>5. /\ Placed(Idle, pc).phase = "Publishing" /\ ~Placed(Idle, pc).checked
          /\ ~Placed(Idle, pc).closing /\ Placed(Idle, pc).lot = {}
      BY DEF Idle, Placed
    <2> QED BY <2>3, <2>4, <2>5
  <1>5. job'[a] = j /\ handler'[a] = h
    BY <1>1, <1>3, <1>4 DEF Types
  <1>6. JobOK(a)'
    <2>1. state[a] \notin {"absent", "previewed"}
      BY <1>1 DEF Claim, JobOK
    <2>2. slot.holder[1] = a => slot.holder[2] <= j.tries
      <3>1. slot.holder[2] \in Nat /\ job[a].tries \in Nat
        BY <1>1 DEF Types, Slot, JobRow
      <3> QED BY <1>1, <1>3, <3>1 DEF JobOK
    <2>3. UNCHANGED <<state, slot>>
      BY DEF Claim, rows
    <2> QED BY <1>3, <1>4, <1>5, <2>1, <2>2, <2>3 DEF JobOK
  <1>7. \A r \in wire : r.by = a => SentOK(r)'
    <2> SUFFICES ASSUME NEW r \in wire, r.by = a
                 PROVE  SentOK(r)'
      OBVIOUS
    <2>1. SentOK(r) /\ r.at = "sent"
      BY <1>2, DeliveryFacts, Unanswered
    <2>2. ~Awaited(r)' /\ MayBeUnheard(r)'
      BY <1>4, <1>5 DEF Awaited, MayBeUnheard
    <2> QED BY <2>1, <2>2, UnheardIsOK DEF Claim, rows, github
  <1>8. /\ UNCHANGED <<state, item, note, batch, slot, wire, sticky, posted, pr>> /\ slot \in Slot
        /\ \A r \in wire : r \in Request /\ \A s \in wire : r = s
    BY <1>1, DeliveryFacts DEF Claim, rows, github, Types
  <1> QED BY <1>1, <1>3, <1>4, <1>5, <1>6, <1>7, <1>8, RestartKeepsInv

\* The job comes to its end.
LEMMA SettleKeepsInv ==
  ASSUME PublicationInv, NEW a \in Attempt, Settle(a), Smooth
  PROVE  PublicationInv'
  <1>1. Types /\ JobOK(a) /\ job[a] \in JobRow /\ faults' \in 0 .. FaultCap
    BY DeliveryFacts DEF DeliveryOK, Types, Smooth
  <1>2. handler[a].pc = "settle"
    BY DEF Settle, At
  <1>3. PICK j \in JobRow : /\ job' = [job EXCEPT ![a] = j] /\ j.tries = job[a].tries
                            /\ ~j.live
    <2>0. PICK status \in {"completed", "retry", "dead"} :
             status = IF handler[a].err = "none" THEN "completed"
                     ELSE IF job[a].tries < job[a].max THEN "retry" ELSE "dead"
      OBVIOUS
    <2> DEFINE j == [job[a] EXCEPT !.status = status, !.live = FALSE]
    <2>1. j \in JobRow /\ j.tries = job[a].tries /\ ~j.live
      BY <1>1 DEF JobRow
    <2>2. job' = [job EXCEPT ![a] = j]
      BY <2>0 DEF Settle
    <2> QED BY <2>1, <2>2
  <1>4. Idle \in Handler /\ Idle.pc = "none" /\ ~Idle.checked /\ ~Idle.closing
        /\ Idle.lot = {} /\ Idle.phase = "Publishing"
    <2>1. "none" \in Pc /\ "none" \in Err
      BY DEF Pc, Err
    <2> QED BY <2>1 DEF Idle, Handler, None
  <1>5. job'[a] = j /\ handler' = [handler EXCEPT ![a] = Idle] /\ handler'[a] = Idle
    BY <1>1, <1>3 DEF Types, Settle
  <1>6. JobOK(a)'
    <2>1. UNCHANGED <<state, slot>> /\ state[a] \notin {"absent", "previewed"}
      BY <1>1, <1>2 DEF Settle, JobOK, rows
    <2> QED BY <1>1, <1>3, <1>4, <1>5, <2>1 DEF JobOK
  <1>7. \A r \in wire : r.by = a => SentOK(r)'
    <2> SUFFICES ASSUME NEW r \in wire, r.by = a
                 PROVE  SentOK(r)'
      OBVIOUS
    <2>1. SentOK(r) /\ r.at = "sent"
      BY <1>2, DeliveryFacts, Unanswered
    <2>2. ~Awaited(r)' /\ MayBeUnheard(r)'
      BY <1>4, <1>5 DEF Awaited, MayBeUnheard
    <2> QED BY <2>1, <2>2, UnheardIsOK DEF Settle, rows, github
  <1>8. /\ UNCHANGED <<state, item, note, batch, slot, wire, sticky, posted, pr>> /\ slot \in Slot
        /\ \A r \in wire : r \in Request /\ \A s \in wire : r = s
    BY <1>1, DeliveryFacts DEF Settle, rows, github, Types
  <1> QED BY <1>1, <1>3, <1>4, <1>5, <1>6, <1>7, <1>8, RestartKeepsInv

\* A delivery takes the slot, or lets go of it.
LEMMA TakesKeepsInv ==
  ASSUME PublicationInv, NEW a \in Attempt, NEW h \in Handler,
         handler' = [handler EXCEPT ![a] = h], h.pc \in {"begin", "settle"},
         h.phase = handler[a].phase, h.closing = handler[a].closing, h.lot = handler[a].lot,
         h.checked = handler[a].checked, handler[a].pc \in {"acquire", "leave"},
         h.pc = "begin" => handler[a].pc = "acquire",
         UNCHANGED <<state, item, note, batch, job, wire, sticky, posted, pr, faults>>,
         slot' \in Slot, slot'.pending = slot.pending, slot'.comment = slot.comment,
         slot'.holder \in {slot.holder, NoHolder, <<a, job[a].tries>>}
  PROVE  PublicationInv'
  <1>1. /\ handler' \in [Attempt -> Handler] /\ handler'[a] = h
        /\ \A b \in Attempt \ {a} : handler'[b] = handler[b]
    BY HandlerPut DEF PublicationInv, Types
  <1>2. Types /\ DeliveryOK(a) /\ job[a].tries \in Nat
    BY DeliveryFacts DEF Types, JobRow
  <1>3. Types'
    BY <1>1, <1>2 DEF Types
  <1>4. \A b \in Attempt : slot'.holder # slot.holder /\ slot'.holder[1] = b
                           => b = a /\ slot'.holder[2] = job[a].tries
    BY PublicationAssumption DEF NoHolder, None, Attempt
  <1>5. \A b \in Attempt \ {a} : StaysFor(b)
    <2> SUFFICES ASSUME NEW b \in Attempt \ {a}
                 PROVE  StaysFor(b)
      OBVIOUS
    <2>1. slot'.holder = slot.holder \/ slot'.holder[1] # b
      BY <1>4
    <2>2. HasSlot(b)' => HasSlot(b)
      BY <2>1 DEF HasSlot
    <2> QED BY <1>1, <2>1, <2>2 DEF StaysFor
  <1>6. StepOf(a)
    BY <1>5 DEF StepOf, PublicationInv, PostInv, PostedIsAccounted, Posts, WireInv
  <1>7. JobOK(a)'
    BY <1>1, <1>2, <1>4 DEF JobOK, DeliveryOK
  <1>8. ProgressOK(a)'
    BY <1>1, <1>2 DEF ProgressOK, DeliveryOK, Early, Summarizing
  <1>9. RowsOK(a)'
    BY <1>1, <1>2 DEF RowsOK, DeliveryOK, Unwritten, Resolved
  <1>10. SendsOK(a)' /\ ItemsOK(a)' /\ InSlotOK(a)'
    BY <1>1 DEF SendsOK, ItemsOK, InSlotOK, Summarizing
  <1>11. \A r \in wire' : r.by = a => SentOK(r)'
    <2> SUFFICES ASSUME NEW r \in wire, r.by = a
                 PROVE  SentOK(r)'
      OBVIOUS
    <2>1. SentOK(r) /\ r.at = "sent"
      BY DeliveryFacts, Unanswered
    <2>2. ~Awaited(r)' /\ MayBeUnheard(r)'
      BY <1>1 DEF Awaited, MayBeUnheard
    <2> QED BY <2>1, <2>2, UnheardIsOK
  <1> QED BY <1>3, <1>6, <1>7, <1>8, <1>9, <1>10, <1>11, StepKeepsInv DEF DeliveryOK

\* The slot is free or has run out, or is busy.
LEMMA AcquireKeepsInv ==
  ASSUME PublicationInv, NEW a \in Attempt, Acquire(a), Smooth
  PROVE  PublicationInv'
  <1>1. Types /\ handler[a] \in Handler /\ job[a].tries \in Nat /\ slot \in Slot
    BY DeliveryFacts DEF Types, JobRow
  <1>2. handler[a].pc = "acquire" /\ "begin" \in Pc /\ "settle" \in Pc /\ "internal" \in Err
    BY DEF Acquire, At, Pc, Err
  <1>3. UNCHANGED <<state, item, note, batch, job, wire, sticky, posted, pr, faults>>
    BY DEF Acquire, rows, github, Smooth
  <1>4. CASE pr.open[a] /\ ~slot.live
    <2>1. Go(a, "begin")
      BY <1>4 DEF Acquire
    <2>2. PICK h \in Handler :
            /\ handler' = [handler EXCEPT ![a] = h]
            /\ h.pc = "begin" /\ h.phase = handler[a].phase /\ h.lot = handler[a].lot
            /\ h.checked = handler[a].checked /\ h.closing = handler[a].closing
      BY <1>2, <2>1, GoIs
    <2>3. <<a, job[a].tries>> \in (0 .. Attempts) \X Nat
      BY <1>1, PublicationAssumption DEF Attempt
    <2>4. /\ slot' \in Slot /\ slot'.pending = slot.pending /\ slot'.comment = slot.comment
          /\ slot'.holder = <<a, job[a].tries>>
      BY <1>1, <1>4, <2>3 DEF Acquire, Slot
    <2> QED BY <1>2, <1>3, <2>2, <2>4, TakesKeepsInv
  <1>5. CASE ~(pr.open[a] /\ ~slot.live)
    <2>1. UNCHANGED slot
      BY <1>5 DEF Acquire
    <2>2. PICK h \in Handler :
            /\ handler' = [handler EXCEPT ![a] = h]
            /\ h.pc = "settle" /\ h.phase = handler[a].phase /\ h.lot = handler[a].lot
            /\ h.checked = handler[a].checked /\ h.closing = handler[a].closing
      <3> DEFINE h == [handler[a] EXCEPT !.pc = "settle", !.err = "internal"]
      <3>1. h \in Handler /\ h.pc = "settle" /\ h.phase = handler[a].phase
            /\ h.lot = handler[a].lot /\ h.checked = handler[a].checked
            /\ h.closing = handler[a].closing
        BY <1>1, <1>2 DEF Handler
      <3>2. handler' = [handler EXCEPT ![a] = h]
        BY <1>5 DEF Acquire
      <3> QED BY <3>1, <3>2
    <2> QED BY <1>1, <1>2, <1>3, <2>1, <2>2, TakesKeepsInv
  <1> QED BY <1>4, <1>5

\* A delivery lets go of the slot, if it still holds it.
LEMMA LeaveKeepsInv ==
  ASSUME PublicationInv, NEW a \in Attempt, Leave(a), Smooth
  PROVE  PublicationInv'
  <1>1. Types /\ handler[a] \in Handler /\ slot \in Slot
    BY DeliveryFacts DEF Types
  <1>2. handler[a].pc = "leave" /\ "settle" \in Pc
    BY DEF Leave, At, Pc
  <1>3. UNCHANGED <<state, item, note, batch, job, wire, sticky, posted, pr, faults>>
    BY DEF Leave, rows, github, Smooth
  <1>4. PICK h \in Handler :
            /\ handler' = [handler EXCEPT ![a] = h]
            /\ h.pc = "settle" /\ h.phase = handler[a].phase /\ h.lot = handler[a].lot
            /\ h.checked = handler[a].checked /\ h.closing = handler[a].closing
    BY <1>2, GoIs DEF Leave
  <1>5. NoHolder \in (0 .. Attempts) \X Nat
    BY PublicationAssumption DEF NoHolder, None
  <1>6. /\ slot' \in Slot /\ slot'.pending = slot.pending /\ slot'.comment = slot.comment
        /\ slot'.holder \in {slot.holder, NoHolder}
    BY <1>1, <1>5 DEF Leave, Slot
  <1> QED BY <1>2, <1>3, <1>4, <1>6, TakesKeepsInv

\* Once its handler ends, nobody looks at the answer to a request of a delivery.
LEMMA AnswersAreDropped ==
  ASSUME PublicationInv, NEW a \in Attempt
  PROVE  \A r \in wire \ (Mine(a) \ Unheard) : r.by = a => r.at = "sent"
  BY DeliveryFacts DEF SentOK, Awaited, Mine, Unheard

\* Any other exception.
LEMMA OtherErrorKeepsInv ==
  ASSUME PublicationInv, NEW a \in Attempt, OtherError(a), Smooth
  PROVE  PublicationInv'
  <1>1. Types /\ handler[a].pc = "raised" /\ "leave" \in Pc /\ faults' \in 0 .. FaultCap
    BY DeliveryFacts DEF OtherError, At, Pc, Types, Smooth
  <1>2. PICK h \in Handler :
            /\ handler' = [handler EXCEPT ![a] = h]
            /\ h.pc = "leave" /\ h.phase = handler[a].phase /\ h.lot = handler[a].lot
            /\ h.checked = handler[a].checked /\ h.closing = handler[a].closing
    BY <1>1, GoIs DEF OtherError
  <1>3. \A r \in wire : r.by = a => r.at = "sent"
    BY <1>1, Unanswered
  <1>4. /\ state' \in [Attempt -> AttemptState] /\ \A b \in Attempt \ {a} : state'[b] = state[b]
        /\ state'[a] = state[a] \/ state'[a] = "uncertain"
    BY <1>1 DEF Types, OtherError, AttemptState, Retryable
  <1> QED BY <1>1, <1>2, <1>3, <1>4, EndsKeepsInv DEF OtherError, github

\* The process is told to stop.
LEMMA ShutdownKeepsInv ==
  ASSUME PublicationInv, NEW a \in Attempt, Shutdown(a)
  PROVE  PublicationInv'
  <1>1. Types /\ handler[a] \in Handler /\ faults' \in 0 .. FaultCap
    BY DeliveryFacts, MishapIsCounted DEF Shutdown
  <1>2. PICK pc \in {"settle", "leave"} : pc = IF At(a, "acquire") THEN "settle" ELSE "leave"
    OBVIOUS
  <1>3. PICK h \in Handler :
            /\ handler' = [handler EXCEPT ![a] = h]
            /\ h.pc = pc /\ h.phase = handler[a].phase /\ h.lot = handler[a].lot
            /\ h.closing = handler[a].closing
    <2>1. pc \in Pc /\ "lost" \in Err
      BY <1>2 DEF Pc, Err
    <2> DEFINE h == [handler[a] EXCEPT !.err = "lost", !.pc = pc]
    <2>2. /\ h \in Handler /\ h.pc = pc /\ h.phase = handler[a].phase
          /\ h.lot = handler[a].lot /\ h.closing = handler[a].closing
      BY <1>1, <2>1 DEF Handler
    <2>3. handler' = [handler EXCEPT ![a] = h]
      BY <1>2 DEF Shutdown
    <2> QED BY <2>2, <2>3
  <1>4. wire' \subseteq wire /\ \A r \in wire' : r.by = a => r.at = "sent"
    BY AnswersAreDropped DEF Shutdown
  <1>5. UNCHANGED <<state, item, note, batch, job, slot, sticky, posted, pr>>
        /\ handler[a].pc # "none" /\ state \in [Attempt -> AttemptState]
    BY <1>1 DEF Shutdown, rows, Types
  <1> QED BY <1>1, <1>2, <1>3, <1>4, <1>5, EndsKeepsInv

\* What a delivery is about to send, and that it may.
LEMMA OutgoingIs ==
  ASSUME PublicationInv, NEW a \in Attempt, handler[a].pc \in {"send", "bsend"}
  PROVE  /\ wire = {} /\ slot.pending = a
         /\ \E r \in Request :
               /\ r = Outgoing(a) /\ r.by = a /\ r.try = job[a].tries /\ r.at = "sent"
               /\ handler[a].pc = "bsend" =>
                     /\ r.kind = "review" /\ r.lot = handler[a].lot
                     /\ Unresolved(a) = {r.lot} /\ note[a].state # "publishing"
                     /\ \A f \in r.lot : Uncommented(f)
               /\ handler[a].pc = "send" =>
                     /\ r.kind \in {"create", "update"} /\ r.id = handler[a].id
                     /\ r.id = (IF r.kind = "create" THEN None ELSE 1)
                     /\ note[a].state = "publishing" /\ r.body = note[a].body
                     /\ r.body.pub = a /\ Improves(r.body, r.id)
  <1>1. Types /\ DeliveryOK(a) /\ handler[a] \in Handler /\ job[a].tries \in Nat
        /\ note[a] \in Note
    BY DeliveryFacts DEF Types, JobRow
  <1>2. slot.pending = a
    BY <1>1 DEF DeliveryOK, RowsOK
  <1>3. wire = {}
    BY <1>2, NoRequest, WireIsEmpty
  <1>4. CASE handler[a].pc = "bsend"
    <2> DEFINE r == [kind |-> "review", by |-> a, try |-> job[a].tries, at |-> "sent",
                     id |-> None, body |-> NoBody, lot |-> handler[a].lot]
    <2>1. r = Outgoing(a)
      BY <1>4 DEF Outgoing, At
    <2>2. r \in Request
      BY <1>1 DEF Request, None, Handler
    <2>3. /\ Unresolved(a) = {handler[a].lot} /\ note[a].state # "publishing"
          /\ \A f \in handler[a].lot : Uncommented(f)
      BY <1>1, <1>4 DEF DeliveryOK, RowsOK, SendsOK, Unwritten
    <2> QED BY <1>2, <1>3, <1>4, <2>1, <2>2, <2>3
  <1>5. CASE handler[a].pc = "send"
    <2>1. PICK kind \in {"create", "update"} :
             kind = IF handler[a].id = None THEN "create" ELSE "update"
      OBVIOUS
    <2> DEFINE r == [kind |-> kind, by |-> a, try |-> job[a].tries, at |-> "sent",
                     id |-> handler[a].id, body |-> note[a].body, lot |-> {}]
    <2>2. r = Outgoing(a)
      BY <1>5, <2>1 DEF Outgoing, At
    <2>3. handler[a].id \in {0, 1}
      BY <1>1 DEF Handler
    <2>4. r \in Request
      BY <1>1, <2>3 DEF Request, Note
    <2>5. /\ note[a].state = "publishing" /\ note[a].body = Composed(a, handler[a].fallback)
          /\ Improves(note[a].body, handler[a].id)
      BY <1>1, <1>5 DEF DeliveryOK, RowsOK, SendsOK
    <2>6. note[a].body.pub = a
      BY <2>5 DEF Composed
    <2> QED BY <1>2, <1>3, <1>5, <2>1, <2>2, <2>3, <2>4, <2>5, <2>6 DEF None
  <1> QED BY <1>4, <1>5

\* A handler that is gone for good.
LEMMA GoneKeepsInv ==
  ASSUME PublicationInv, NEW a \in Attempt,
         handler' = [handler EXCEPT ![a] = Idle], job' = [job EXCEPT ![a].live = FALSE],
         UNCHANGED <<state, item, note, batch, sticky, posted, pr>>,
         slot' \in Slot, slot'.pending = slot.pending, slot'.comment = slot.comment,
         slot'.holder \in {slot.holder, NoHolder}, faults' \in 0 .. FaultCap,
         \/ wire' = wire \ (Mine(a) \ Unheard)
         \/ handler[a].pc \in {"send", "bsend"} /\ wire' = wire \cup {Outgoing(a)}
  PROVE  PublicationInv'
  <1>1. Types /\ JobOK(a) /\ job[a] \in JobRow
    BY DeliveryFacts DEF DeliveryOK, Types
  <1>2. PICK j \in JobRow : /\ job' = [job EXCEPT ![a] = j] /\ j.tries = job[a].tries
                            /\ ~j.live /\ j.status = job[a].status
    <2> DEFINE j == [job[a] EXCEPT !.live = FALSE]
    <2>1. j \in JobRow /\ j.tries = job[a].tries /\ ~j.live /\ j.status = job[a].status
      BY <1>1 DEF JobRow
    <2> QED BY <2>1
  <1>3. Idle \in Handler /\ Idle.pc = "none" /\ ~Idle.checked /\ ~Idle.closing
        /\ Idle.lot = {} /\ Idle.phase = "Publishing"
    <2>1. "none" \in Pc /\ "none" \in Err
      BY DEF Pc, Err
    <2> QED BY <2>1 DEF Idle, Handler, None
  <1>4. job'[a] = j /\ handler'[a] = Idle
    BY <1>1, <1>2 DEF Types
  <1>5. JobOK(a)'
    <2>1. NoHolder[1] # a
      BY PublicationAssumption DEF NoHolder, None, Attempt
    <2> QED BY <1>1, <1>2, <1>3, <1>4, <2>1 DEF JobOK
  <1>6. CASE wire' = wire \ (Mine(a) \ Unheard)
    <2>1. \A r \in wire' : r.by = a => SentOK(r)'
      <3> SUFFICES ASSUME NEW r \in wire, r \in wire', r.by = a
                   PROVE  SentOK(r)'
        BY <1>6
      <3>1. SentOK(r) /\ r.at = "sent"
        BY <1>6, DeliveryFacts, AnswersAreDropped
      <3>2. ~Awaited(r)' /\ MayBeUnheard(r)'
        BY <1>3, <1>4 DEF Awaited, MayBeUnheard
      <3> QED BY <3>1, <3>2, UnheardIsOK
    <2>2. \A r \in wire' : r \in wire /\ r \in Request /\ \A s \in wire' : r = s
      BY <1>6, DeliveryFacts
    <2> QED BY <1>2, <1>3, <1>5, <2>1, <2>2, RestartKeepsInv
  <1>7. CASE handler[a].pc \in {"send", "bsend"} /\ wire' = wire \cup {Outgoing(a)}
    <2>1. PICK r \in Request :
               /\ r = Outgoing(a) /\ r.by = a /\ r.try = job[a].tries /\ r.at = "sent"
               /\ handler[a].pc = "bsend" =>
                     /\ r.kind = "review" /\ r.lot = handler[a].lot
                     /\ Unresolved(a) = {r.lot} /\ note[a].state # "publishing"
                     /\ \A f \in r.lot : Uncommented(f)
               /\ handler[a].pc = "send" =>
                     /\ r.kind \in {"create", "update"} /\ r.id = handler[a].id
                     /\ r.id = (IF r.kind = "create" THEN None ELSE 1)
                     /\ note[a].state = "publishing" /\ r.body = note[a].body
                     /\ r.body.pub = a /\ Improves(r.body, r.id)
      BY <1>7, OutgoingIs
    <2>2. wire' = {r} /\ slot'.pending = a
      BY <1>7, <2>1, OutgoingIs
    <2>3. ASSUME NEW s \in wire'
          PROVE  SentOK(s)'
      <3>1. s = r
        BY <2>2
      <3>2. ~Awaited(s)' /\ MayBeUnheard(s)' /\ Unresolved(a)' = Unresolved(a)
        BY <1>3, <1>4, <2>1, <3>1 DEF Awaited, MayBeUnheard, Unresolved
      <3> QED BY <1>7, <2>1, <2>2, <3>1, <3>2 DEF SentOK, Improves, Uncommented
    <2>4. \A s \in wire' : /\ s \in Request
                           /\ s.by # a => s \in wire
                           /\ s.by = a => SentOK(s)'
      BY <2>1, <2>2, <2>3
    <2>5. \A s, q \in wire' : s = q
      BY <2>2
    <2> QED BY <1>2, <1>3, <1>5, <2>4, <2>5, RestartKeepsInv
  <1> QED BY <1>6, <1>7

\* A process dies.
LEMMA DeliveryCrashKeepsInv ==
  ASSUME PublicationInv, NEW a \in Attempt, Crash(a)
  PROVE  PublicationInv'
  <1>1. slot \in Slot /\ faults' \in 0 .. FaultCap
    BY DeliveryFacts, MishapIsCounted DEF Crash, Types
  <1> QED BY <1>1, GoneKeepsInv DEF Crash, rows

\* A process stands still for too long.
LEMMA StallKeepsInv ==
  ASSUME PublicationInv, NEW a \in Attempt, Stall(a)
  PROVE  PublicationInv'
  <1>1. slot \in Slot /\ faults' \in 0 .. FaultCap
    BY DeliveryFacts, MishapIsCounted DEF Stall, Types
  <1>2. NoHolder \in (0 .. Attempts) \X Nat
    BY PublicationAssumption DEF NoHolder, None
  <1>3. /\ slot' \in Slot /\ slot'.pending = slot.pending /\ slot'.comment = slot.comment
        /\ slot'.holder \in {slot.holder, NoHolder}
    BY <1>1, <1>2 DEF Stall, Slot
  <1>4. \/ wire' = wire \ (Mine(a) \ Unheard)
        \/ handler[a].pc \in {"send", "bsend"} /\ wire' = wire \cup {Outgoing(a)}
    <2>1. CASE handler[a].pc \in {"send", "bsend"}
      BY <2>1, OutgoingIs DEF Stall
    <2>2. CASE handler[a].pc \notin {"send", "bsend"}
      BY <2>2 DEF Stall
    <2> QED BY <2>1, <2>2
  <1> QED BY <1>1, <1>3, <1>4, GoneKeepsInv DEF Stall, rows

-----------------------------------------------------------------------------
(* Errors of GitHub, and the checks between the writes *)

\* An error of GitHub ends the delivery, or leads to one last summary.
LEMMA GitHubErrorKeepsInv ==
  ASSUME PublicationInv, NEW a \in Attempt, GitHubError(a), Smooth
  PROVE  PublicationInv'
  <1>1. /\ Types /\ DeliveryOK(a) /\ handler[a] \in Handler /\ faults' \in 0 .. FaultCap
        /\ handler[a].pc = "raised"
    BY DeliveryFacts DEF GitHubError, At, Types, Smooth
  <1>2. UNCHANGED <<item, note, batch, job, slot, wire, sticky, posted, pr>>
    BY DEF GitHubError, github
  <1>3. /\ state' \in [Attempt -> AttemptState] /\ \A b \in Attempt \ {a} : state'[b] = state[b]
        /\ state'[a] = state[a] \/ state'[a] \notin {"absent", "previewed"}
    <2>1. PICK ended \in {"uncertain", "stale", "partial", "failed"} : ended = Ended(a)
      BY DEF Ended
    <2>2. state' \in {state, [state EXCEPT ![a] = ended], [state EXCEPT ![a] = "uncertain"]}
      BY <2>1 DEF GitHubError
    <2>3. ended \in AttemptState /\ "uncertain" \in AttemptState
      BY DEF AttemptState, Retryable
    <2>4. state \in [Attempt -> AttemptState]
      BY <1>1 DEF Types
    <2>5. ended \notin {"absent", "previewed"}
      BY <2>1
    <2>6. CASE state' = state
      BY <2>4, <2>6
    <2>7. ASSUME NEW x \in {ended, "uncertain"}, state' = [state EXCEPT ![a] = x]
          PROVE  /\ state' \in [Attempt -> AttemptState]
                 /\ \A b \in Attempt \ {a} : state'[b] = state[b] /\ state'[a] = x
                 /\ state'[a] = x /\ x \notin {"absent", "previewed"}
      BY <2>3, <2>4, <2>5, <2>7
    <2> QED BY <2>2, <2>6, <2>7
  <1>4. CASE /\ ~handler[a].closing /\ Ended(a) = "partial" /\ handler[a].err # "throttled"
             /\ handler[a].checked /\ Locked(a)
    <2>1. PICK h \in Handler :
            /\ handler' = [handler EXCEPT ![a] = h] /\ h.pc = "upsert" /\ h.phase = "Partial"
            /\ h.closing /\ h.lot = {}
      <3>1. "upsert" \in Pc /\ "none" \in Err
        BY DEF Pc, Err
      <3> DEFINE h == [handler[a] EXCEPT !.pc = "upsert", !.closing = TRUE,
                     !.phase = "Partial", !.err = "none", !.lot = {}]
      <3>2. h \in Handler /\ h.pc = "upsert" /\ h.phase = "Partial" /\ h.closing /\ h.lot = {}
        BY <1>1, <3>1 DEF Handler
      <3>3. handler' = [handler EXCEPT ![a] = h]
        BY <1>4 DEF GitHubError
      <3> QED BY <3>2, <3>3
    <2>2. handler'[a] = h
      BY <1>1, <2>1 DEF Types
    <2>3. handler[a].err = "refused"
      BY <1>4 DEF GitHubError, Ended
    <2>4. (\A r \in wire : r.by # a) /\ note[a].state # "publishing"
      BY <1>1, <1>4, <2>3, NoRequest DEF DeliveryOK, RowsOK
    <2>5. ProgressOK(a)'
      BY <2>1, <2>2 DEF ProgressOK, Early, Summarizing
    <2>6. RowsOK(a)'
      BY <1>2, <2>1, <2>2, <2>4 DEF RowsOK
    <2>7. SendsOK(a)' /\ ItemsOK(a)' /\ InSlotOK(a)'
      BY <2>1, <2>2 DEF SendsOK, ItemsOK, InSlotOK
    <2> QED BY <1>1, <1>2, <1>3, <2>1, <2>4, <2>5, <2>6, <2>7, QuietMovesKeepsInv
  <1>5. CASE ~(/\ ~handler[a].closing /\ Ended(a) = "partial" /\ handler[a].err # "throttled"
               /\ handler[a].checked /\ Locked(a))
    <2>1. PICK err \in Err :
             handler' = [handler EXCEPT ![a].pc = "leave", ![a].err = err]
      <3>1. "none" \in Err /\ "lost" \in Err /\ handler[a].err \in Err
        BY <1>1 DEF Err, Handler
      <3> QED BY <1>5, <3>1 DEF GitHubError
    <2>2. PICK h \in Handler :
            /\ handler' = [handler EXCEPT ![a] = h] /\ h.pc = "leave"
            /\ h.phase = handler[a].phase /\ h.lot = handler[a].lot
            /\ h.closing = handler[a].closing
      <3>1. "leave" \in Pc
        BY DEF Pc
      <3> DEFINE h == [handler[a] EXCEPT !.pc = "leave", !.err = err]
      <3>2. /\ h \in Handler /\ h.pc = "leave" /\ h.phase = handler[a].phase
            /\ h.lot = handler[a].lot /\ h.closing = handler[a].closing
        BY <1>1, <3>1 DEF Handler
      <3>3. handler' = [handler EXCEPT ![a] = h]
        BY <2>1
      <3> QED BY <3>2, <3>3
    <2>3. \A r \in wire : r.by = a => r.at = "sent"
      BY <1>1, Unanswered
    <2> QED BY <1>1, <1>2, <1>3, <2>2, <2>3, EndsKeepsInv
  <1> QED BY <1>4, <1>5

\* The review and the head are looked at again, the lines mapped again.
LEMMA CheckKeepsInv ==
  ASSUME PublicationInv, NEW a \in Attempt, Check(a)
  PROVE  PublicationInv'
  <1>1. /\ Types /\ DeliveryOK(a) /\ handler[a] \in Handler /\ handler[a].pc = "check"
        /\ faults' \in 0 .. FaultCap
    <2>1. faults' \in 0 .. FaultCap
      BY DeliveryFacts, MishapIsCounted DEF Check
    <2> QED BY <2>1, DeliveryFacts DEF Check, At
  <1>2. UNCHANGED <<state, item, note, batch, job, slot, wire, sticky, posted, pr>>
    BY DEF Check, rows, github
  <1>3. /\ ~handler[a].checked /\ handler[a].lot = {} /\ handler[a].phase = "Publishing"
        /\ ~handler[a].closing
    BY <1>1 DEF DeliveryOK, ProgressOK, Early
  <1>4. (\A r \in wire : r.by # a) /\ note[a].state # "publishing" /\ Unresolved(a) = {}
    BY <1>1, <1>3, NoRequest DEF DeliveryOK, RowsOK, Unwritten, Resolved
  <1>5. CASE Preflight(a) # "none"
    <2>1. PICK err \in Err : Raise(a, err)
      BY <1>5 DEF Check, Preflight, Err
    <2> QED BY <1>1, <1>2, <1>3, <1>4, <2>1, RaiseKeepsInv
  <1>6. CASE Preflight(a) = "none"
    <2>1. PICK fallback \in SUBSET Unmappable, err \in {"none", "refused"},
               pc \in {"recover", "raised"} :
              /\ handler' = [handler EXCEPT ![a].checked = TRUE, ![a].fallback = fallback,
                    ![a].err = err, ![a].pc = pc, ![a].then = "upsert"]
              /\ pc = "raised" => err = "refused"
      BY <1>6 DEF Check
    <2>2. PICK h \in Handler :
            /\ handler' = [handler EXCEPT ![a] = h] /\ h.pc = pc /\ h.then = "upsert"
            /\ h.checked /\ h.phase = "Publishing" /\ ~h.closing /\ h.lot = {} /\ h.err = err
      <3>1. pc \in Pc /\ err \in Err
        BY DEF Pc, Err
      <3> DEFINE h == [handler[a] EXCEPT !.checked = TRUE, !.fallback = fallback,
                    !.err = err, !.pc = pc, !.then = "upsert"]
      <3>2. /\ h \in Handler /\ h.pc = pc /\ h.then = "upsert"
            /\ h.checked /\ h.phase = "Publishing" /\ ~h.closing /\ h.lot = {} /\ h.err = err
        BY <1>1, <1>3, <3>1 DEF Handler
      <3>3. handler' = [handler EXCEPT ![a] = h]
        BY <2>1
      <3> QED BY <3>2, <3>3
    <2>3. handler'[a] = h
      BY <1>1, <2>2 DEF Types
    <2>4. ProgressOK(a)'
      BY <2>2, <2>3 DEF ProgressOK, Early, Summarizing
    <2>5. Unresolved(a)' = {}
      BY <1>2, <1>4 DEF Unresolved
    <2>6. RowsOK(a)'
      BY <1>2, <1>4, <2>2, <2>3, <2>5 DEF RowsOK
    <2>7. SendsOK(a)' /\ ItemsOK(a)' /\ InSlotOK(a)'
      BY <2>2, <2>3 DEF SendsOK, ItemsOK, InSlotOK, Summarizing
    <2>8. state' \in [Attempt -> AttemptState]
      BY <1>1, <1>2 DEF Types
    <2> QED BY <1>1, <1>2, <1>4, <2>2, <2>4, <2>6, <2>7, <2>8, QuietMovesKeepsInv
  <1> QED BY <1>5, <1>6

\* The pull request is still open, and its head the one that was reviewed.
LEMMA ValidateKeepsInv ==
  ASSUME PublicationInv, NEW a \in Attempt, Validate(a), Smooth
  PROVE  PublicationInv'
  <1>1. /\ Types /\ DeliveryOK(a) /\ handler[a] \in Handler /\ handler[a].pc = "validate"
        /\ faults' \in 0 .. FaultCap
    BY DeliveryFacts DEF Validate, At, Types, Smooth
  <1>2. UNCHANGED <<state, item, note, batch, job, slot, wire, sticky, posted, pr>>
    BY DEF Validate, rows, github
  <1>3. (\A r \in wire : r.by # a) /\ note[a].state # "publishing"
    BY <1>1, NoRequest DEF DeliveryOK, RowsOK, Unwritten
  <1>4. CASE ~pr.current
    <2>1. Raise(a, "stale") /\ "stale" \in Err
      BY <1>4 DEF Validate, Err
    <2> QED BY <1>1, <1>2, <1>3, <2>1, RaiseKeepsInv
  <1>5. CASE pr.current
    <2>1. PICK pc \in {"batch", "mark"} :
             pc = IF handler[a].lot # {} THEN "batch" ELSE "mark"
      OBVIOUS
    <2>2. PICK h \in Handler :
            /\ handler' = [handler EXCEPT ![a] = h] /\ h.pc = pc /\ h.then = handler[a].then
            /\ h.checked = handler[a].checked /\ h.phase = handler[a].phase
            /\ h.closing = handler[a].closing /\ h.lot = {} /\ h.todo = handler[a].todo
            /\ h.fallback = handler[a].fallback
      <3>1. pc \in Pc
        BY DEF Pc
      <3> DEFINE h == [handler[a] EXCEPT !.lot = {}, !.pc = pc]
      <3>2. /\ h \in Handler /\ h.pc = pc /\ h.then = handler[a].then
            /\ h.checked = handler[a].checked /\ h.phase = handler[a].phase
            /\ h.closing = handler[a].closing /\ h.lot = {} /\ h.todo = handler[a].todo
            /\ h.fallback = handler[a].fallback
        BY <1>1, <3>1 DEF Handler
      <3>3. handler' = [handler EXCEPT ![a] = h]
        BY <1>5, <2>1 DEF Validate
      <3> QED BY <3>2, <3>3
    <2>3. handler'[a] = h
      BY <1>1, <2>2 DEF Types
    <2>4. /\ Composed(a, h.fallback)' = Composed(a, handler[a].fallback)
          /\ Unresolved(a)' = Unresolved(a) /\ HasSlot(a)' = HasSlot(a)
      BY <1>2, <2>2, <2>3 DEF Composed, Unresolved, HasSlot
    <2>5. \A rest : Done(a, rest)' = Done(a, rest)
      BY <1>2, <2>2, <2>3 DEF Done
    <2>6. ProgressOK(a)'
      BY <1>1, <2>1, <2>2, <2>3 DEF ProgressOK, DeliveryOK, Early, Summarizing
    <2>7. RowsOK(a)'
      BY <1>1, <1>2, <1>3, <2>2, <2>3, <2>4 DEF RowsOK, DeliveryOK, Resolved
    <2>8. SendsOK(a)'
      BY <2>2, <2>3 DEF SendsOK
    <2>9. ItemsOK(a)'
      BY <1>1, <2>1, <2>2, <2>3, <2>5 DEF ItemsOK, DeliveryOK, ProgressOK, Summarizing
    <2>10. InSlotOK(a)'
      BY <1>1, <1>2, <2>1, <2>2, <2>3, <2>4 DEF InSlotOK, DeliveryOK, Tells, Uncommented
    <2>11. state' \in [Attempt -> AttemptState]
      BY <1>1, <1>2 DEF Types
    <2> QED BY <1>1, <1>2, <1>3, <2>2, <2>6, <2>7, <2>8, <2>9, <2>10, <2>11, QuietMovesKeepsInv
  <1> QED BY <1>4, <1>5

\* execute goes on after the summary of a phase.
LEMMA MarkKeepsInv ==
  ASSUME PublicationInv, NEW a \in Attempt, Mark(a), Smooth
  PROVE  PublicationInv'
  <1>1. /\ Types /\ DeliveryOK(a) /\ handler[a] \in Handler /\ handler[a].pc = "mark"
        /\ faults' \in 0 .. FaultCap /\ "leave" \in Pc
    BY DeliveryFacts DEF Mark, At, Types, Smooth, Pc
  <1>2. UNCHANGED <<item, note, batch, job, slot, wire, sticky, posted, pr>>
    BY DEF Mark, github
  <1>3. (\A r \in wire : r.by # a) /\ note[a].state # "publishing"
    BY <1>1, NoRequest DEF DeliveryOK, RowsOK, Unwritten
  <1>4. CASE handler[a].phase # "Publishing"
    <2>1. PICK h \in Handler :
            /\ handler' = [handler EXCEPT ![a] = h]
            /\ h.pc = "leave" /\ h.phase = handler[a].phase /\ h.lot = handler[a].lot
            /\ h.closing = handler[a].closing
      BY <1>1, <1>4, GoIs DEF Mark
    <2>2. /\ state' \in [Attempt -> AttemptState] /\ \A b \in Attempt \ {a} : state'[b] = state[b]
          /\ state'[a] = state[a] \/ state'[a] = "succeeded"
      BY <1>1, <1>4 DEF Mark, Types, AttemptState
    <2> QED BY <1>1, <1>2, <1>3, <2>1, <2>2, EndsKeepsInv
  <1>5. CASE handler[a].phase = "Publishing"
    <2>1. PICK h \in Handler :
            /\ handler' = [handler EXCEPT ![a] = h] /\ h.pc = "recover" /\ h.then = "items"
            /\ h.checked = handler[a].checked /\ h.phase = handler[a].phase
            /\ h.closing = handler[a].closing /\ h.lot = handler[a].lot
      <3>1. "recover" \in Pc
        BY DEF Pc
      <3> DEFINE h == [handler[a] EXCEPT !.pc = "recover", !.then = "items"]
      <3>2. /\ h \in Handler /\ h.pc = "recover" /\ h.then = "items"
            /\ h.checked = handler[a].checked /\ h.phase = handler[a].phase
            /\ h.closing = handler[a].closing /\ h.lot = handler[a].lot
        BY <1>1, <3>1 DEF Handler
      <3>3. handler' = [handler EXCEPT ![a] = h]
        BY <1>5 DEF Mark, Recovering
      <3> QED BY <3>2, <3>3
    <2>2. handler'[a] = h
      BY <1>1, <2>1 DEF Types
    <2>3. /\ state' \in [Attempt -> AttemptState] /\ \A b \in Attempt \ {a} : state'[b] = state[b]
          /\ state'[a] = "publishing"
      BY <1>1, <1>5 DEF Mark, Types, AttemptState, Open
    <2>4. ~handler[a].closing /\ handler[a].lot = {} /\ Unresolved(a) = {}
      BY <1>1, <1>5 DEF DeliveryOK, ProgressOK, RowsOK, Resolved, Summarizing
    <2>5. Unresolved(a)' = {} /\ HasSlot(a)' = HasSlot(a)
      BY <1>2, <2>4 DEF Unresolved, HasSlot
    <2>6. ProgressOK(a)'
      BY <1>5, <2>1, <2>2, <2>4 DEF ProgressOK, Early, Summarizing
    <2>7. RowsOK(a)'
      BY <1>2, <1>3, <2>1, <2>2, <2>5 DEF RowsOK, Resolved
    <2>8. SendsOK(a)' /\ ItemsOK(a)'
      BY <2>1, <2>2, <2>4 DEF SendsOK, ItemsOK, Summarizing
    <2>9. InSlotOK(a)'
      BY <1>1, <1>2, <2>1, <2>2, <2>5 DEF InSlotOK, DeliveryOK
    <2> QED BY <1>1, <1>2, <1>3, <2>1, <2>3, <2>6, <2>7, <2>8, <2>9, QuietMovesKeepsInv
  <1> QED BY <1>4, <1>5

-----------------------------------------------------------------------------
(* The summary comment *)

\* There is at most one, and it is the first.
LEMMA SummaryIs ==
  ASSUME Types
  PROVE  /\ Shown = (IF sticky[1] = NoBody THEN {} ELSE {1})
         /\ Cardinality(Shown) = (IF sticky[1] = NoBody THEN 0 ELSE 1)
         /\ Summary = (IF sticky[1] = NoBody THEN None ELSE 1)
         /\ SummaryUnclear <=> sticky[1] # NoBody /\ sticky[1].edited
         /\ SummaryOrder = (IF sticky[1] = NoBody THEN None ELSE sticky[1].pub)
         /\ sticky[1] # NoBody => sticky[1] \in Body /\ Min(Shown) = 1 /\ Max(Shown) = 1
  <1>1. /\ sticky[1] \in Body \cup {NoBody} /\ sticky[2] = NoBody /\ DOMAIN sticky = 1 .. 2
        /\ slot.comment \in {0, 1} /\ (slot.comment = 1 => sticky[1] # NoBody)
    BY DEF Types, Slot
  <1>2. Shown = (IF sticky[1] = NoBody THEN {} ELSE {1})
    BY <1>1 DEF Shown
  <1>3. Cardinality(Shown) = (IF sticky[1] = NoBody THEN 0 ELSE 1)
    BY <1>2, FS_EmptySet, FS_Singleton
  <1>4. sticky[1] # NoBody => Min(Shown) = 1 /\ Max(Shown) = 1
    <2> SUFFICES ASSUME sticky[1] # NoBody
                 PROVE  Min(Shown) = 1 /\ Max(Shown) = 1
      OBVIOUS
    <2>1. Shown = {1}
      BY <1>2
    <2> QED BY <2>1 DEF Min, Max
  <1>5. Summary = (IF sticky[1] = NoBody THEN None ELSE 1)
    BY <1>1, <1>2, <1>4 DEF Summary, None
  <1>6. SummaryUnclear <=> sticky[1] # NoBody /\ sticky[1].edited
    BY <1>1, <1>2, <1>3, <1>5 DEF SummaryUnclear, None
  <1>7. SummaryOrder = (IF sticky[1] = NoBody THEN None ELSE sticky[1].pub)
    BY <1>5 DEF SummaryOrder, None
  <1> QED BY <1>1, <1>2, <1>3, <1>4, <1>5, <1>6, <1>7

\* What a delivery would say is a body.
LEMMA ComposedIs ==
  ASSUME Types, NEW a \in Attempt, NEW fallback \in SUBSET Unmappable
  PROVE  /\ Composed(a, fallback) \in Body /\ Composed(a, fallback).edited = FALSE
         /\ Composed(a, fallback).pub = a
  <1>1. handler[a].phase \in {"Publishing", "Published", "Partial"}
    BY DEF Types, Handler
  <1>2. [f \in Finding |-> IF item[a][f] \in Counted THEN item[a][f] ELSE "other"]
           \in [Finding -> Counted \cup {"other"}]
    OBVIOUS
  <1> QED BY <1>1, <1>2 DEF Composed, Body

\* The step of a delivery that writes its rows and the slot.
LEMMA WritesKeepsInv ==
  ASSUME PublicationInv, NEW a \in Attempt, NEW h \in Handler, NEW n \in Note,
         handler' = [handler EXCEPT ![a] = h], handler[a].pc # "none", h.pc # "none",
         note' = [note EXCEPT ![a] = n], UNCHANGED <<state, job, sticky, posted, pr>>,
         item' \in [Attempt -> [Finding -> ItemState]],
         batch' \in [Attempt -> [Lot -> ItemState \cup {"none"}]],
         \A b \in Attempt \ {a} : item'[b] = item[b] /\ batch'[b] = batch[b],
         slot' \in Slot, slot'.comment = 1 => sticky[1] # NoBody,
         \/ UNCHANGED slot
         \/ slot'.holder = slot.holder /\ HasSlot(a) /\ slot.pending \in {None, a},
         faults' \in 0 .. FaultCap,
         \A r \in wire' : /\ r \in Request
                          /\ r.by # a => r \in wire
                          /\ r.by = a => SentOK(r)',
         \A r, s \in wire' : r = s,
         \A l \in Lot : posted[<<a, l>>] > 0
                        => batch'[a][l] \in {"publishing", "uncertain", "published"},
         \A f \in Finding : item'[a][f] = "published" => ~Uncommented(f),
         ProgressOK(a)', RowsOK(a)', SendsOK(a)', ItemsOK(a)', InSlotOK(a)'
  PROVE  PublicationInv'
  <1>1. /\ handler' \in [Attempt -> Handler] /\ handler'[a] = h
        /\ \A b \in Attempt \ {a} : handler'[b] = handler[b]
    BY HandlerPut DEF PublicationInv, Types
  <1>2. Types /\ DeliveryOK(a)
    BY DeliveryFacts
  <1>3. /\ note' \in [Attempt -> Note] /\ \A b \in Attempt \ {a} : note'[b] = note[b]
    BY <1>2 DEF Types
  <1>4. Types'
    BY <1>1, <1>2, <1>3 DEF Types
  <1>5. \A b \in Attempt \ {a} : StaysFor(b)
    <2> SUFFICES ASSUME NEW b \in Attempt \ {a}
                 PROVE  StaysFor(b)
      OBVIOUS
    <2>1. CASE UNCHANGED slot
      BY <1>1, <1>3, <2>1 DEF StaysFor, HasSlot
    <2>2. CASE slot'.holder = slot.holder /\ HasSlot(a) /\ slot.pending \in {None, a}
      <3>1. slot.pending # b
        BY <2>2 DEF None, Attempt
      <3>2. ~HasSlot(b)'
        BY <2>2 DEF HasSlot
      <3> QED BY <1>1, <1>3, <2>2, <3>1, <3>2 DEF StaysFor
    <2> QED BY <2>1, <2>2
  <1>6. StepOf(a)
    BY <1>5 DEF StepOf
  <1>7. JobOK(a)'
    BY <1>1, <1>2 DEF JobOK, DeliveryOK
  <1> QED BY <1>4, <1>6, <1>7, StepKeepsInv DEF DeliveryOK

\* The summary is known to be there.
LEMMA FinishSummaryIs ==
  ASSUME Types, NEW a \in Attempt, NEW b \in Body, sticky[1] # NoBody,
         FinishSummary(a, 1, b)
  PROVE  /\ slot' \in Slot /\ slot'.holder = slot.holder /\ slot'.pending = None
         /\ slot'.comment = 1
         /\ \E n \in Note : n.state = "published" /\ note' = [note EXCEPT ![a] = n] /\ note'[a] = n
  <1>1. slot \in Slot /\ note[a] \in Note
    BY DEF Types
  <1>2. /\ slot' \in Slot /\ slot'.holder = slot.holder /\ slot'.pending = None
        /\ slot'.comment = 1
    BY <1>1 DEF FinishSummary, Slot
  <1> DEFINE n == [note[a] EXCEPT !.state = "published"]
  <1>3. n \in Note /\ n.state = "published"
    BY <1>1 DEF Note
  <1>4. note' = [note EXCEPT ![a] = n] /\ note'[a] = n
    BY DEF FinishSummary, Types
  <1> QED BY <1>2, <1>3, <1>4

\* A step that does not touch posts and items.
LEMMA PostsStay ==
  ASSUME PublicationInv, NEW a \in Attempt
  PROVE  /\ \A l \in Lot : posted[<<a, l>>] > 0
                           => batch[a][l] \in {"publishing", "uncertain", "published"}
         /\ \A f \in Finding : item[a][f] = "published" => ~Uncommented(f)
         /\ item \in [Attempt -> [Finding -> ItemState]]
         /\ batch \in [Attempt -> [Lot -> ItemState \cup {"none"}]]
         /\ note[a] \in Note /\ note = [note EXCEPT ![a] = note[a]]
         /\ item = [item EXCEPT ![a] = item[a]]
  BY DEF PublicationInv, PostInv, PostedIsAccounted, Posts, Types

\* The same, with nothing under way and the findings left alone.
LEMMA SummaryKeepsInv ==
  ASSUME PublicationInv, NEW a \in Attempt, NEW h \in Handler, NEW n \in Note,
         handler' = [handler EXCEPT ![a] = h], handler[a].pc # "none", h.pc # "none",
         note' = [note EXCEPT ![a] = n], wire = {},
         UNCHANGED <<state, item, batch, job, wire, sticky, posted, pr>>,
         slot' \in Slot, slot'.comment = 1 => sticky[1] # NoBody,
         slot'.holder = slot.holder, HasSlot(a), slot.pending \in {None, a},
         faults' \in 0 .. FaultCap,
         ProgressOK(a)', RowsOK(a)', SendsOK(a)', ItemsOK(a)', InSlotOK(a)'
  PROVE  PublicationInv'
  <1>1. /\ item' \in [Attempt -> [Finding -> ItemState]]
        /\ batch' \in [Attempt -> [Lot -> ItemState \cup {"none"}]]
        /\ \A b \in Attempt \ {a} : item'[b] = item[b] /\ batch'[b] = batch[b]
        /\ \A l \in Lot : posted[<<a, l>>] > 0
                           => batch'[a][l] \in {"publishing", "uncertain", "published"}
        /\ \A f \in Finding : item'[a][f] = "published" => ~Uncommented(f)
    BY PostsStay
  <1>2. \A r \in wire' : FALSE
    OBVIOUS
  <1> QED BY <1>1, <1>2, WritesKeepsInv

\* The summary comment shows what was sent.
LEMMA FinishKeepsInv ==
  ASSUME PublicationInv, NEW a \in Attempt, Finish(a), Smooth
  PROVE  PublicationInv'
  <1>1. /\ Types /\ DeliveryOK(a) /\ handler[a] \in Handler /\ handler[a].pc = "finish"
        /\ faults' \in 0 .. FaultCap /\ "validate" \in Pc
    BY DeliveryFacts DEF Finish, At, Types, Smooth, Pc
  <1>2. UNCHANGED <<state, item, batch, job, wire, sticky, posted, pr>> /\ HasSlot(a)
    BY DEF Finish, github, Locked, HasSlot
  <1>3. /\ note[a].body = Composed(a, handler[a].fallback) /\ Tells(note[a].body)
        /\ slot.pending \in {None, a}
    BY <1>1, <1>2 DEF DeliveryOK, RowsOK, SendsOK, InSlotOK
  <1>4. wire = {}
    BY <1>1, <1>3, NoRequest, WireIsEmpty
  <1>5. sticky[1] # NoBody /\ FinishSummary(a, 1, note[a].body)
    <2>1. sticky[1] # NoBody /\ handler[a].id \in {0, 1}
      BY <1>1, <1>3 DEF Tells, Handler
    <2> QED BY <1>1, <2>1, SummaryIs DEF Finish, None
  <1>6. note[a].body \in Body
    <2>1. handler[a].fallback \in SUBSET Unmappable
      BY <1>1 DEF Handler
    <2> QED BY <1>1, <1>3, <2>1, ComposedIs
  <1>7. PICK n \in Note : /\ n.state = "published" /\ note' = [note EXCEPT ![a] = n]
                          /\ note'[a] = n
    BY <1>1, <1>5, <1>6, FinishSummaryIs
  <1>8. /\ slot' \in Slot /\ slot'.holder = slot.holder /\ slot'.pending = None
        /\ slot'.comment = 1
    BY <1>1, <1>5, <1>6, FinishSummaryIs
  <1>9. PICK h \in Handler :
            /\ handler' = [handler EXCEPT ![a] = h] /\ handler'[a] = h /\ h.pc = "validate"
            /\ h.phase = handler[a].phase /\ h.fallback = handler[a].fallback
            /\ h.checked = handler[a].checked /\ h.todo = handler[a].todo
            /\ h.lot = handler[a].lot /\ h.closing = handler[a].closing
    BY <1>1, GoIs DEF Finish
  <1>10. /\ Composed(a, h.fallback)' = note[a].body
         /\ Unresolved(a)' = Unresolved(a)
    BY <1>2, <1>3, <1>9 DEF Composed, Unresolved
  <1>11. \A rest : Done(a, rest)' = Done(a, rest)
    BY <1>2, <1>9 DEF Done
  <1>12. ProgressOK(a)'
    BY <1>1, <1>9 DEF ProgressOK, DeliveryOK, Early, Summarizing
  <1>13. RowsOK(a)'
    BY <1>1, <1>7, <1>9, <1>10 DEF RowsOK, DeliveryOK, Resolved
  <1>14. SendsOK(a)'
    BY <1>9 DEF SendsOK
  <1>15. ItemsOK(a)'
    BY <1>1, <1>9, <1>11 DEF ItemsOK, ProgressOK, DeliveryOK, Summarizing
  <1>16. InSlotOK(a)'
    BY <1>1, <1>2, <1>3, <1>8, <1>9, <1>10 DEF InSlotOK, ProgressOK, DeliveryOK, Tells, Summarizing
  <1> QED BY <1>1, <1>2, <1>3, <1>4, <1>5, <1>7, <1>8, <1>9, <1>12, <1>13, <1>14, <1>15, <1>16,
             SummaryKeepsInv

\* The intention to send is stored.
LEMMA IntentKeepsInv ==
  ASSUME PublicationInv, NEW a \in Attempt, Intent(a), Smooth
  PROVE  PublicationInv'
  <1>1. /\ Types /\ DeliveryOK(a) /\ handler[a] \in Handler /\ handler[a].pc = "intent"
        /\ faults' \in 0 .. FaultCap /\ "send" \in Pc /\ slot \in Slot
    BY DeliveryFacts DEF Intent, At, Types, Smooth, Pc
  <1>2. UNCHANGED <<state, item, batch, job, wire, sticky, posted, pr>> /\ HasSlot(a)
    BY DEF Intent, github, Locked, HasSlot
  <1>3. /\ Improves(Composed(a, handler[a].fallback), handler[a].id)
        /\ slot.pending \in {None, a}
    BY <1>1, <1>2 DEF DeliveryOK, InSlotOK
  <1>4. wire = {}
    BY <1>1, <1>3, NoRequest, WireIsEmpty
  <1>5. PICK body \in Body : body = Composed(a, handler[a].fallback)
    BY <1>3 DEF Improves
  <1>6. PICK n \in Note : /\ n.state = "publishing" /\ n.body = body
                          /\ note' = [note EXCEPT ![a] = n] /\ note'[a] = n
    <2> DEFINE n == [state |-> "publishing", body |-> body]
    <2>1. n \in Note /\ n.state = "publishing" /\ n.body = body
      BY DEF Note
    <2>2. note' = [note EXCEPT ![a] = n] /\ note'[a] = n
      BY <1>1, <1>5 DEF Intent, Types
    <2> QED BY <2>1, <2>2
  <1>7. /\ slot' \in Slot /\ slot'.holder = slot.holder /\ slot'.pending = a
        /\ slot'.comment = slot.comment
    BY <1>1 DEF Intent, Slot
  <1>8. PICK h \in Handler :
            /\ handler' = [handler EXCEPT ![a] = h] /\ handler'[a] = h /\ h.pc = "send"
            /\ h.phase = handler[a].phase /\ h.fallback = handler[a].fallback
            /\ h.checked = handler[a].checked /\ h.id = handler[a].id
            /\ h.lot = handler[a].lot /\ h.closing = handler[a].closing
    BY <1>1, GoIs DEF Intent
  <1>9. /\ Composed(a, h.fallback)' = body /\ Unresolved(a)' = Unresolved(a)
        /\ \A rest : Done(a, rest)' = Done(a, rest)
    BY <1>2, <1>5, <1>8 DEF Composed, Unresolved, Done
  <1>10. ProgressOK(a)'
    BY <1>1, <1>8 DEF ProgressOK, DeliveryOK, Early, Summarizing
  <1>11. RowsOK(a)'
    BY <1>1, <1>6, <1>7, <1>8, <1>9 DEF RowsOK, DeliveryOK, Resolved, Unwritten
  <1>12. SendsOK(a)'
    BY <1>2, <1>3, <1>5, <1>6, <1>8 DEF SendsOK, Improves
  <1>13. ItemsOK(a)'
    BY <1>1, <1>8, <1>9 DEF ItemsOK, DeliveryOK, Summarizing
  <1>14. InSlotOK(a)'
    BY <1>8 DEF InSlotOK
  <1> QED BY <1>1, <1>2, <1>3, <1>4, <1>6, <1>7, <1>8, <1>10, <1>11, <1>12, <1>13, <1>14,
             SummaryKeepsInv DEF Types

\* What upsert knows when it writes or finds the comment as it should be.
LEMMA VerdictIs ==
  ASSUME Types, NEW a \in Attempt, Verdict(a) \in {"same", "write", "moved"}
  PROVE  /\ slot.pending \in {None, a}
         /\ sticky[1] # NoBody => ~sticky[1].edited /\ sticky[1].pub <= a
         /\ slot.pending = a => sticky[1] # NoBody
         /\ IF Verdict(a) = "same"
            THEN sticky[1] # NoBody /\ sticky[1] = Composed(a, handler[a].fallback)
            ELSE sticky[1] # NoBody => sticky[1] # Composed(a, handler[a].fallback)
  <1>1. slot.pending \in {None, a}
    BY DEF Verdict
  <1>2. ~SummaryUnclear
    BY DEF Verdict
  <1>3. ~(SummaryOrder > a)
    BY DEF Verdict
  <1>4. slot.pending = a => Summary # None
    BY DEF Verdict
  <1>5. IF Verdict(a) = "same"
        THEN Summary # None /\ sticky[Summary] = Composed(a, handler[a].fallback)
        ELSE Summary # None => sticky[Summary] # Composed(a, handler[a].fallback)
    BY DEF Verdict
  <1>6. sticky[1] # NoBody => sticky[1].pub \in Attempt
    BY DEF Types, Body
  <1>7. sticky[1] # NoBody => sticky[1].pub <= a
    BY <1>3, <1>6, SummaryIs DEF Attempt
  <1> QED BY <1>1, <1>2, <1>4, <1>5, <1>7, SummaryIs DEF None

\* upsert finds the comment as it should be, sends a new one, or gives up.
LEMMA UpsertKeepsInv ==
  ASSUME PublicationInv, NEW a \in Attempt, Upsert(a), Smooth
  PROVE  PublicationInv'
  <1>1. /\ Types /\ DeliveryOK(a) /\ handler[a] \in Handler /\ handler[a].pc = "upsert"
        /\ faults' \in 0 .. FaultCap /\ slot \in Slot /\ note[a] \in Note
    BY DeliveryFacts DEF Upsert, At, Types, Smooth
  <1>2. UNCHANGED <<state, item, batch, job, wire, sticky, posted, pr>> /\ HasSlot(a)
    BY DEF Upsert, github, Locked, HasSlot
  <1>3. (\A r \in wire : r.by # a) /\ note[a].state # "publishing" /\ handler[a].lot = {}
    BY <1>1, NoRequest DEF DeliveryOK, RowsOK, Unwritten, ProgressOK, Summarizing
  <1>4. Verdict(a) \in {"same", "write", "moved", "stale", "uncertain", "refused"}
    BY DEF Verdict
  <1>5. CASE Verdict(a) \in {"stale", "uncertain", "refused"}
    <2>1. UNCHANGED <<slot, note>>
      BY <1>5 DEF Upsert
    <2>2. PICK err \in Err : Raise(a, err)
      BY <1>5 DEF Upsert, Err
    <2> QED BY <1>1, <1>2, <1>3, <2>1, <2>2, RaiseKeepsInv
  <1>6. CASE Verdict(a) \in {"same", "write", "moved"}
    <2>1. /\ slot.pending \in {None, a}
          /\ sticky[1] # NoBody => ~sticky[1].edited /\ sticky[1].pub <= a
          /\ slot.pending = a => sticky[1] # NoBody
          /\ IF Verdict(a) = "same"
             THEN sticky[1] # NoBody /\ sticky[1] = Composed(a, handler[a].fallback)
             ELSE sticky[1] # NoBody => sticky[1] # Composed(a, handler[a].fallback)
      BY <1>1, <1>6, VerdictIs
    <2>2. wire = {}
      BY <1>3, <2>1, WireIsEmpty
    <2>3. \/ /\ sticky[1] # NoBody /\ sticky[1] \in Body
             /\ FinishSummary(a, 1, sticky[1])
          \/ UNCHANGED <<slot, note>> /\ Verdict(a) # "same"
      BY <1>1, <1>6, <2>1, SummaryIs DEF Upsert
    <2>4. /\ slot' \in Slot /\ slot'.holder = slot.holder /\ slot'.pending \in {None, a}
          /\ slot'.comment = 1 => sticky[1] # NoBody
          /\ Verdict(a) = "same" => slot'.comment = 1
      BY <1>1, <2>1, <2>3, FinishSummaryIs DEF Types
    <2>5. PICK n \in Note : /\ n.state # "publishing" /\ note' = [note EXCEPT ![a] = n]
                            /\ note'[a] = n
      BY <1>1, <1>3, <2>3, FinishSummaryIs, PostsStay
    <2>6. /\ Unresolved(a)' = Unresolved(a) /\ HasSlot(a)'
          /\ \A fallback : (item' = item /\ handler'[a].phase = handler[a].phase)
                => Composed(a, fallback)' = Composed(a, fallback)
      BY <1>2, <2>4 DEF Composed, Unresolved, HasSlot
    <2>7. CASE Verdict(a) \in {"same", "write"}
      <3>1. PICK pc \in {"mark", "intent"} :
               pc = IF Verdict(a) = "same" THEN "mark" ELSE "intent"
        OBVIOUS
      <3>2. PICK h \in Handler :
              /\ handler' = [handler EXCEPT ![a] = h] /\ h.pc = pc
              /\ h.phase = handler[a].phase /\ h.fallback = handler[a].fallback
              /\ h.checked = handler[a].checked
              /\ h.lot = handler[a].lot /\ h.closing = handler[a].closing
              /\ pc = "intent" => h.id = IF sticky[1] = NoBody THEN None ELSE 1
        <4>1. pc \in Pc
          BY DEF Pc
        <4>2. PICK id \in {0, 1} : id = IF sticky[1] = NoBody THEN None ELSE 1
          BY DEF None
        <4>3. CASE Verdict(a) = "same"
          BY <3>1, <4>1, <4>3, GoIs DEF Upsert
        <4>4. CASE Verdict(a) = "write"
          <5> DEFINE h == [handler[a] EXCEPT !.pc = pc, !.id = id]
          <5>1. /\ h \in Handler /\ h.pc = pc
                /\ h.phase = handler[a].phase /\ h.fallback = handler[a].fallback
                /\ h.checked = handler[a].checked
                /\ h.lot = handler[a].lot /\ h.closing = handler[a].closing /\ h.id = id
            BY <1>1, <4>1 DEF Handler
          <5>2. handler' = [handler EXCEPT ![a].pc = "intent", ![a].id = Summary]
            BY <4>4 DEF Upsert
          <5>3. Summary = id
            BY <1>1, <4>2, SummaryIs
          <5>4. handler' = [handler EXCEPT ![a] = h]
            BY <3>1, <4>4, <5>2, <5>3
          <5> QED BY <4>2, <5>1, <5>4
        <4> QED BY <2>7, <4>3, <4>4
      <3>3. handler'[a] = h
        BY <1>1, <3>2 DEF Types
      <3>4. Composed(a, h.fallback)' = Composed(a, handler[a].fallback)
        BY <1>2, <2>6, <3>2, <3>3
      <3>5. \A rest : Done(a, rest)' = Done(a, rest)
        BY <1>2, <3>2, <3>3 DEF Done
      <3>6. ProgressOK(a)'
        BY <1>1, <3>2, <3>3 DEF ProgressOK, DeliveryOK, Early, Summarizing
      <3>7. RowsOK(a)'
        BY <1>1, <2>5, <2>6, <3>2, <3>3 DEF RowsOK, DeliveryOK, Resolved
      <3>8. SendsOK(a)'
        BY <3>2, <3>3 DEF SendsOK
      <3>9. ItemsOK(a)'
        BY <1>1, <3>2, <3>3, <3>5 DEF ItemsOK, DeliveryOK, Summarizing
      <3>10. PICK body \in Body : /\ body = Composed(a, handler[a].fallback)
                                  /\ body.edited = FALSE /\ body.pub = a
                                  /\ Composed(a, h.fallback)' = body
        <4>1. handler[a].fallback \in SUBSET Unmappable
          BY <1>1 DEF Handler
        <4> QED BY <1>1, <3>4, <4>1, ComposedIs
      <3>11. pc = "intent" => Improves(body, h.id)'
        BY <1>2, <2>1, <2>7, <3>1, <3>2, <3>10 DEF Improves, None
      <3>12. pc = "mark" => slot'.comment = 1 /\ Tells(body)'
        BY <1>2, <2>1, <2>4, <2>7, <3>1, <3>10 DEF Tells
      <3>13. InSlotOK(a)'
        BY <2>4, <3>2, <3>3, <3>10, <3>11, <3>12 DEF InSlotOK
      <3> QED BY <1>1, <1>2, <2>1, <2>2, <2>4, <2>5, <3>2, <3>6, <3>7, <3>8, <3>9, <3>13,
                 SummaryKeepsInv
    <2>8. CASE Verdict(a) = "moved"
      <3>1. Raise(a, "stale") /\ "stale" \in Err
        BY <2>8 DEF Upsert, Err
      <3>2. PICK h \in Handler :
              /\ handler' = [handler EXCEPT ![a] = h] /\ h.pc = "raised"
              /\ h.phase = handler[a].phase /\ h.lot = handler[a].lot
              /\ h.closing = handler[a].closing
        <4>1. Failing(handler[a], "stale") \in Handler
          BY <1>1, <3>1, RaisedIs
        <4>2. handler' = [handler EXCEPT ![a] = Failing(handler[a], "stale")]
          BY <3>1 DEF Raise, Failing
        <4>3. PICK h : h = Failing(handler[a], "stale")
          OBVIOUS
        <4>4. /\ h \in Handler /\ h.pc = "raised" /\ h.phase = handler[a].phase
              /\ h.lot = handler[a].lot /\ h.closing = handler[a].closing
          BY <1>1, <3>1, <4>3, RaisedIs
        <4> QED BY <4>2, <4>3, <4>4
      <3>3. handler'[a] = h
        BY <1>1, <3>2 DEF Types
      <3>4. ProgressOK(a)'
        BY <1>1, <3>2, <3>3 DEF ProgressOK, DeliveryOK, Early, Summarizing
      <3>5. RowsOK(a)'
        BY <2>5, <3>2, <3>3 DEF RowsOK, Resolved
      <3>6. SendsOK(a)' /\ ItemsOK(a)' /\ InSlotOK(a)'
        BY <3>2, <3>3 DEF SendsOK, ItemsOK, InSlotOK, Summarizing
      <3> QED BY <1>1, <1>2, <2>1, <2>2, <2>4, <2>5, <3>2, <3>4, <3>5, <3>6, SummaryKeepsInv
    <2> QED BY <1>6, <2>7, <2>8
  <1> QED BY <1>4, <1>5, <1>6

\* A summary of unknown outcome is looked for before anything else.
LEMMA ReconcileKeepsInv ==
  ASSUME PublicationInv, NEW a \in Attempt, Reconcile(a), Smooth
  PROVE  PublicationInv'
  <1>1. /\ Types /\ DeliveryOK(a) /\ handler[a] \in Handler /\ handler[a].pc = "reconcile"
        /\ faults' \in 0 .. FaultCap /\ slot \in Slot /\ note[a] \in Note
    BY DeliveryFacts DEF Reconcile, At, Types, Smooth
  <1>2. UNCHANGED <<state, item, batch, job, wire, sticky, posted, pr>> /\ HasSlot(a)
    BY DEF Reconcile, github, Locked, HasSlot
  <1>3. \A r \in wire : r.by = a => r.at = "sent"
    BY <1>1, Unanswered
  <1>4. ~handler[a].checked /\ ~handler[a].closing /\ handler[a].lot = {}
        /\ handler[a].phase = "Publishing"
    BY <1>1 DEF DeliveryOK, ProgressOK, Early
  <1>5. ASSUME Recovering(a, "check")
        PROVE  \E h \in Handler :
                  /\ handler' = [handler EXCEPT ![a] = h] /\ handler'[a] = h
                  /\ h.pc = "recover" /\ h.then = "check" /\ h.lot = {} /\ ~h.checked
                  /\ ~h.closing /\ h.phase = "Publishing"
                  /\ SendsOK(a)' /\ ItemsOK(a)' /\ InSlotOK(a)' /\ ProgressOK(a)'
    <2>1. "recover" \in Pc
      BY DEF Pc
    <2> DEFINE h == [handler[a] EXCEPT !.pc = "recover", !.then = "check"]
    <2>2. /\ h \in Handler /\ h.pc = "recover" /\ h.then = "check" /\ h.lot = {}
          /\ ~h.checked /\ ~h.closing /\ h.phase = "Publishing"
      BY <1>1, <1>4, <2>1 DEF Handler
    <2>3. handler' = [handler EXCEPT ![a] = h] /\ handler'[a] = h
      BY <1>1, <1>5 DEF Recovering, Types
    <2> HIDE DEF h
    <2>4. SendsOK(a)' /\ ItemsOK(a)' /\ InSlotOK(a)' /\ ProgressOK(a)'
      BY <2>2, <2>3 DEF SendsOK, ItemsOK, InSlotOK, ProgressOK, Summarizing, Early
    <2> QED BY <2>2, <2>3, <2>4
  <1>6. CASE /\ slot.pending # a \/ note[a].state # "publishing"
             /\ Recovering(a, "check") /\ UNCHANGED <<note, slot>>
    <2>1. PICK h \in Handler :
                  /\ handler' = [handler EXCEPT ![a] = h] /\ handler'[a] = h
                  /\ h.pc = "recover" /\ h.then = "check" /\ h.lot = {} /\ ~h.checked
                  /\ ~h.closing /\ h.phase = "Publishing"
                  /\ SendsOK(a)' /\ ItemsOK(a)' /\ InSlotOK(a)' /\ ProgressOK(a)'
      BY <1>5, <1>6
    <2>2. note[a].state # "publishing"
      BY <1>1, <1>6 DEF DeliveryOK, RowsOK
    <2>3. RowsOK(a)'
      BY <1>6, <2>1, <2>2 DEF RowsOK, Resolved
    <2>4. \A r \in wire : r.by = a => MayBeUnheard(r)'
      <3> SUFFICES ASSUME NEW r \in wire, r.by = a
                   PROVE  MayBeUnheard(r)'
        OBVIOUS
      <3>1. r.kind = "review"
        BY <2>2, DeliveryFacts DEF SentOK
      <3> QED BY <2>1, <3>1 DEF MayBeUnheard
    <2>5. state' \in [Attempt -> AttemptState]
      BY <1>1, <1>2 DEF Types
    <2> QED BY <1>1, <1>2, <1>3, <1>6, <2>1, <2>3, <2>4, <2>5, MovesKeepsInv
  <1>7. CASE slot.pending = a /\ \E err \in {"refused", "uncertain"} :
                Raise(a, err) /\ UNCHANGED <<note, slot>>
    <2>1. PICK err \in Err : Raise(a, err) /\ UNCHANGED <<note, slot>>
      BY <1>7 DEF Err
    <2> QED BY <1>1, <1>2, <1>3, <1>4, <2>1, RaiseKeepsInv
  <1>8. CASE /\ slot.pending = a /\ Summary # None /\ sticky[Summary] = note[a].body
             /\ note[a].state = "publishing"
             /\ FinishSummary(a, Summary, note[a].body) /\ Recovering(a, "check")
    <2>1. /\ sticky[1] # NoBody /\ sticky[1] \in Body /\ sticky[1] = note[a].body
          /\ FinishSummary(a, 1, sticky[1])
      BY <1>1, <1>8, SummaryIs DEF None
    <2>2. wire = {}
      <3> SUFFICES ASSUME NEW r \in wire
                   PROVE  FALSE
        OBVIOUS
      <3>1. SentOK(r) /\ r.by = a
        BY <1>8, DeliveryFacts DEF SentOK
      <3>2. r.at = "sent" /\ r.kind # "review"
        BY <1>3, <1>8, <3>1 DEF SentOK
      <3>3. Improves(r.body, r.id) /\ r.body = note[a].body
        BY <3>1, <3>2 DEF SentOK
      <3> QED BY <2>1, <3>3 DEF Improves
    <2>3. /\ slot' \in Slot /\ slot'.holder = slot.holder /\ slot'.pending = None
          /\ slot'.comment = 1
      BY <1>1, <2>1, FinishSummaryIs
    <2>4. PICK n \in Note : /\ n.state = "published" /\ note' = [note EXCEPT ![a] = n]
                            /\ note'[a] = n
      BY <1>1, <2>1, FinishSummaryIs
    <2>5. PICK h \in Handler :
                  /\ handler' = [handler EXCEPT ![a] = h] /\ handler'[a] = h
                  /\ h.pc = "recover" /\ h.then = "check" /\ h.lot = {} /\ ~h.checked
                  /\ ~h.closing /\ h.phase = "Publishing"
                  /\ SendsOK(a)' /\ ItemsOK(a)' /\ InSlotOK(a)' /\ ProgressOK(a)'
      BY <1>5, <1>8
    <2>6. RowsOK(a)'
      BY <2>4, <2>5 DEF RowsOK, Resolved
    <2> QED BY <1>1, <1>2, <1>8, <2>1, <2>2, <2>3, <2>4, <2>5, <2>6, SummaryKeepsInv
  <1> QED
    <2>1. note[a].state # "uncertain"
      BY <1>1 DEF Note
    <2> QED BY <1>6, <1>7, <1>8, <2>1 DEF Reconcile

\* The request of a delivery leaves.
LEMMA SendKeepsInv ==
  ASSUME PublicationInv, NEW a \in Attempt, Send(a), Smooth
  PROVE  PublicationInv'
  <1>1. /\ Types /\ DeliveryOK(a) /\ handler[a] \in Handler
        /\ faults' \in 0 .. FaultCap /\ slot \in Slot /\ note[a] \in Note
    BY DeliveryFacts DEF Types, Smooth
  <1>2. UNCHANGED <<state, item, note, batch, job, slot, sticky, posted, pr>>
    BY DEF Send, rows
  <1>3. handler[a].pc \in {"send", "bsend"} /\ wire' = wire \cup {Outgoing(a)}
    BY DEF Send
  <1>4. PICK r \in Request :
               /\ r = Outgoing(a) /\ r.by = a /\ r.try = job[a].tries /\ r.at = "sent"
               /\ handler[a].pc = "bsend" =>
                     /\ r.kind = "review" /\ r.lot = handler[a].lot
                     /\ Unresolved(a) = {r.lot} /\ note[a].state # "publishing"
                     /\ \A f \in r.lot : Uncommented(f)
               /\ handler[a].pc = "send" =>
                     /\ r.kind \in {"create", "update"} /\ r.id = handler[a].id
                     /\ r.id = (IF r.kind = "create" THEN None ELSE 1)
                     /\ note[a].state = "publishing" /\ r.body = note[a].body
                     /\ r.body.pub = a /\ Improves(r.body, r.id)
    BY <1>3, OutgoingIs
  <1>5. wire' = {r} /\ slot.pending = a
    BY <1>3, <1>4, OutgoingIs
  <1>6. PICK pc \in {"answer", "banswer"} : pc = IF At(a, "send") THEN "answer" ELSE "banswer"
    OBVIOUS
  <1>7. PICK h \in Handler :
            /\ handler' = [handler EXCEPT ![a] = h] /\ handler'[a] = h /\ h.pc = pc
            /\ h.then = handler[a].then /\ h.todo = handler[a].todo
            /\ h.phase = handler[a].phase /\ h.fallback = handler[a].fallback
            /\ h.checked = handler[a].checked /\ h.id = handler[a].id
            /\ h.lot = handler[a].lot /\ h.closing = handler[a].closing
    <2>1. pc \in Pc /\ Go(a, pc)
      BY <1>6 DEF Pc, Send
    <2> QED BY <2>1, GoIs
  <1>8. pc = (IF handler[a].pc = "send" THEN "answer" ELSE "banswer")
    BY <1>6 DEF At
  <1>9. ASSUME NEW s \in wire'
        PROVE  /\ s \in Request
               /\ s.by # a => s \in wire
               /\ s.by = a => SentOK(s)'
    <2>1. s = r
      BY <1>5
    <2>2. MayBeUnheard(s)' /\ Unresolved(a)' = Unresolved(a) /\ Awaited(s)'
      BY <1>2, <1>4, <1>7, <2>1 DEF Awaited, MayBeUnheard, Unresolved
    <2>3. SentOK(s)'
      BY <1>2, <1>3, <1>4, <1>5, <1>7, <1>8, <2>1, <2>2 DEF SentOK, Improves, Uncommented
    <2> QED BY <1>4, <2>1, <2>3
  <1>10. \A s, q \in wire' : s = q
    BY <1>5
  <1>11. /\ Composed(a, h.fallback)' = Composed(a, handler[a].fallback)
         /\ Unresolved(a)' = Unresolved(a) /\ HasSlot(a)' = HasSlot(a)
         /\ \A rest : Done(a, rest)' = Done(a, rest)
    BY <1>2, <1>7 DEF Composed, Unresolved, HasSlot, Done
  <1>12. ProgressOK(a)'
    BY <1>1, <1>3, <1>7, <1>8 DEF ProgressOK, DeliveryOK, Early, Summarizing
  <1>13. RowsOK(a)'
    BY <1>1, <1>2, <1>3, <1>7, <1>8, <1>11 DEF RowsOK, DeliveryOK, Resolved, Unwritten
  <1>14. SendsOK(a)'
    BY <1>7 DEF SendsOK
  <1>15. ItemsOK(a)'
    BY <1>1, <1>3, <1>7, <1>8, <1>11 DEF ItemsOK, DeliveryOK, Summarizing
  <1>16. InSlotOK(a)'
    BY <1>1, <1>2, <1>3, <1>7, <1>8, <1>11 DEF InSlotOK, DeliveryOK, Uncommented
  <1>17. /\ UNCHANGED <<state, job, sticky, posted, pr>>
         /\ handler[a].pc # "none" /\ h.pc # "none" /\ slot' \in Slot /\ UNCHANGED slot
         /\ slot'.comment = 1 => sticky[1] # NoBody
         /\ faults' \in 0 .. FaultCap
    BY <1>1, <1>2, <1>3, <1>7, <1>8 DEF Types
  <1>18. /\ item' \in [Attempt -> [Finding -> ItemState]]
         /\ batch' \in [Attempt -> [Lot -> ItemState \cup {"none"}]]
         /\ \A b \in Attempt \ {a} : item'[b] = item[b] /\ batch'[b] = batch[b]
         /\ \A k \in Lot : posted[<<a, k>>] > 0
                           => batch'[a][k] \in {"publishing", "uncertain", "published"}
         /\ \A f \in Finding : item'[a][f] = "published" => ~Uncommented(f)
         /\ \E n \in Note : note' = [note EXCEPT ![a] = n]
    BY <1>2, PostsStay
  <1> QED BY <1>7, <1>9, <1>10, <1>12, <1>13, <1>14, <1>15, <1>16, <1>17, <1>18, WritesKeepsInv

\* The answer to a summary, or its loss.
LEMMA SummaryAnswerKeepsInv ==
  ASSUME PublicationInv, NEW a \in Attempt, SummaryAnswer(a)
  PROVE  PublicationInv'
  <1>1. /\ Types /\ DeliveryOK(a) /\ handler[a] \in Handler /\ handler[a].pc = "answer"
        /\ slot \in Slot /\ note[a] \in Note
    BY DeliveryFacts DEF SummaryAnswer, At, Types
  <1>2. UNCHANGED <<state, item, batch, job, sticky, posted, pr>>
    BY DEF SummaryAnswer
  <1>3. faults' \in 0 .. FaultCap
    BY <1>1, MishapIsCounted DEF SummaryAnswer
  <1>4. \A r \in Mine(a) : /\ r \in wire /\ r.by = a /\ slot.pending = a /\ r.kind # "review"
                           /\ note[a].state = "publishing" /\ r.body = note[a].body
                           /\ r.at = "applied" => Tells(r.body)
                           /\ wire \ Mine(a) = {}
    <2> SUFFICES ASSUME NEW r \in Mine(a)
                 PROVE  /\ r \in wire /\ r.by = a /\ slot.pending = a /\ r.kind # "review"
                        /\ note[a].state = "publishing" /\ r.body = note[a].body
                        /\ r.at = "applied" => Tells(r.body)
                        /\ wire \ Mine(a) = {}
      OBVIOUS
    <2>1. r \in wire /\ r.by = a /\ SentOK(r) /\ Awaited(r)
      BY <1>1, DeliveryFacts DEF Mine, Awaited
    <2>2. wire \ Mine(a) = {}
      BY <2>1, DeliveryFacts
    <2> QED BY <1>1, <2>1, <2>2 DEF SentOK
  <1>5. CASE /\ MineAt(a, "applied") # {} /\ wire' = wire \ Mine(a)
             /\ Go(a, "finish") /\ UNCHANGED <<slot, note>>
    <2>1. PICK r \in Mine(a) : r.at = "applied"
      BY <1>5 DEF MineAt
    <2>2. /\ slot.pending = a /\ note[a].state = "publishing" /\ Tells(note[a].body)
          /\ wire' = {}
      BY <1>4, <1>5, <2>1
    <2>3. PICK h \in Handler :
            /\ handler' = [handler EXCEPT ![a] = h] /\ handler'[a] = h /\ h.pc = "finish"
            /\ h.then = handler[a].then /\ h.todo = handler[a].todo
            /\ h.phase = handler[a].phase /\ h.fallback = handler[a].fallback
            /\ h.checked = handler[a].checked /\ h.id = handler[a].id
            /\ h.lot = handler[a].lot /\ h.closing = handler[a].closing
      <3>1. "finish" \in Pc
        BY DEF Pc
      <3> QED BY <1>5, <3>1, GoIs
    <2>4. /\ Composed(a, h.fallback)' = Composed(a, handler[a].fallback)
          /\ Unresolved(a)' = Unresolved(a) /\ HasSlot(a)' = HasSlot(a)
          /\ \A rest : Done(a, rest)' = Done(a, rest)
      BY <1>2, <1>5, <2>3 DEF Composed, Unresolved, HasSlot, Done
    <2>5. ProgressOK(a)'
      BY <1>1, <2>3 DEF ProgressOK, DeliveryOK, Early, Summarizing
    <2>6. RowsOK(a)'
      BY <1>1, <1>5, <2>2, <2>3, <2>4 DEF RowsOK, DeliveryOK, Resolved, Unwritten
    <2>7. SendsOK(a)'
      BY <1>2, <1>5, <2>2, <2>3 DEF SendsOK, Tells
    <2>8. ItemsOK(a)'
      BY <1>1, <2>3, <2>4 DEF ItemsOK, DeliveryOK, Summarizing
    <2>9. InSlotOK(a)'
      BY <1>1, <1>5, <2>2, <2>3, <2>4 DEF InSlotOK
    <2>10. state' \in [Attempt -> AttemptState]
      BY <1>1, <1>2 DEF Types
    <2> QED BY <1>1, <1>2, <1>3, <1>5, <2>2, <2>3, <2>5, <2>6, <2>7, <2>8, <2>9, <2>10, MovesKeepsInv
  <1>6. CASE /\ MineAt(a, "refused") # {} /\ wire' = wire \ Mine(a) /\ Locked(a)
             /\ \E err \in {"refused", "throttled"} : Raise(a, err)
             /\ slot' = [slot EXCEPT !.pending = IF @ = a THEN None ELSE @]
             /\ note' = [note EXCEPT ![a].state = "failed"]
    <2>1. slot.pending = a /\ wire' = {}
      BY <1>4, <1>6 DEF MineAt
    <2>2. PICK err \in Err : Raise(a, err)
      BY <1>6 DEF Err
    <2>3. PICK h \in Handler :
              /\ handler' = [handler EXCEPT ![a] = h] /\ handler'[a] = h /\ h.pc = "raised"
              /\ h.phase = handler[a].phase /\ h.lot = handler[a].lot
              /\ h.closing = handler[a].closing
      BY <2>2, RaiseIs
    <2>4. PICK n \in Note : /\ n.state = "failed" /\ note' = [note EXCEPT ![a] = n]
                            /\ note'[a] = n
      <3> DEFINE n == [note[a] EXCEPT !.state = "failed"]
      <3>1. n \in Note /\ n.state = "failed"
        BY <1>1 DEF Note
      <3>2. note' = [note EXCEPT ![a] = n] /\ note'[a] = n
        BY <1>1, <1>6 DEF Types
      <3> QED BY <3>1, <3>2
    <2>5. /\ slot' \in Slot /\ slot'.holder = slot.holder /\ slot'.pending = None
          /\ slot'.comment = slot.comment /\ HasSlot(a)
      BY <1>1, <1>6, <2>1 DEF Slot, Locked, HasSlot
    <2>6. ProgressOK(a)'
      BY <1>1, <2>3 DEF ProgressOK, DeliveryOK, Early, Summarizing
    <2>7. RowsOK(a)'
      BY <2>3, <2>4 DEF RowsOK, Resolved
    <2>8. SendsOK(a)' /\ ItemsOK(a)' /\ InSlotOK(a)'
      BY <2>3 DEF SendsOK, ItemsOK, InSlotOK, Summarizing
    <2>9. slot'.comment = 1 => sticky[1] # NoBody
      BY <1>1, <2>5 DEF Types
    <2>10. /\ item' \in [Attempt -> [Finding -> ItemState]]
           /\ batch' \in [Attempt -> [Lot -> ItemState \cup {"none"}]]
           /\ \A b \in Attempt \ {a} : item'[b] = item[b] /\ batch'[b] = batch[b]
           /\ \A l \in Lot : posted[<<a, l>>] > 0
                           => batch'[a][l] \in {"publishing", "uncertain", "published"}
           /\ \A f \in Finding : item'[a][f] = "published" => ~Uncommented(f)
      BY <1>2, PostsStay
    <2> QED BY <1>1, <1>2, <1>3, <2>1, <2>3, <2>4, <2>5, <2>6, <2>7, <2>8, <2>9, <2>10, WritesKeepsInv
  <1>7. CASE /\ \E err \in {"lost", "uncertain"} : Raise(a, err)
             /\ wire' = wire \ Mine(a) \/ wire' = wire \ (Mine(a) \ Unheard)
             /\ UNCHANGED <<slot, note>>
    <2>1. PICK err \in Err : Raise(a, err) /\ err \in {"uncertain", "lost"}
      BY <1>7 DEF Err
    <2>2. wire' \subseteq wire /\ \A r \in wire' : r.by = a => r.at = "sent"
      BY <1>7, AnswersAreDropped
    <2> QED BY <1>1, <1>2, <1>3, <1>7, <2>1, <2>2, RaiseKeepsInv
  <1> QED BY <1>5, <1>6, <1>7 DEF SummaryAnswer

-----------------------------------------------------------------------------
(* Batches of comments *)

\* The outcome of a batch is stored, with its items and the slot.
LEMMA FinishBatchIs ==
  ASSUME Types, NEW a \in Attempt, NEW l \in Lot,
         NEW outcome \in {"published", "failed", "uncertain"}, FinishBatch(a, l, outcome)
  PROVE  /\ batch' \in [Attempt -> [Lot -> ItemState \cup {"none"}]]
         /\ \A k \in Lot : batch'[a][k] = (IF k = l THEN outcome ELSE batch[a][k])
         /\ item' \in [Attempt -> [Finding -> ItemState]]
         /\ \A f \in Finding :
               item'[a][f] = (IF f \in l /\ (outcome = "published" \/ item[a][f] # "published")
                              THEN outcome ELSE item[a][f])
         /\ \A b \in Attempt \ {a} : item'[b] = item[b] /\ batch'[b] = batch[b]
         /\ slot' \in Slot /\ slot'.holder = slot.holder /\ slot'.comment = slot.comment
         /\ slot'.pending = (IF outcome # "uncertain" /\ slot.pending = a THEN None
                             ELSE slot.pending)
         /\ slot'.pending = slot.pending => UNCHANGED slot
         /\ Unresolved(a)' = (IF outcome = "uncertain" THEN Unresolved(a) \cup {l}
                              ELSE Unresolved(a) \ {l})
  <1>1. outcome \in ItemState
    BY DEF ItemState
  <1>2. /\ batch' \in [Attempt -> [Lot -> ItemState \cup {"none"}]]
        /\ \A k \in Lot : batch'[a][k] = (IF k = l THEN outcome ELSE batch[a][k])
        /\ \A b \in Attempt \ {a} : batch'[b] = batch[b]
    BY <1>1 DEF FinishBatch, Types
  <1>3. PICK i \in [Finding -> ItemState] :
           i = [f \in Finding |->
                   IF f \in l /\ (outcome = "published" \/ item[a][f] # "published")
                   THEN outcome ELSE item[a][f]]
    <2>1. item[a] \in [Finding -> ItemState]
      BY DEF Types
    <2> DEFINE i == [f \in Finding |->
                   IF f \in l /\ (outcome = "published" \/ item[a][f] # "published")
                   THEN outcome ELSE item[a][f]]
    <2>2. i \in [Finding -> ItemState]
      BY <1>1, <2>1
    <2> QED BY <2>2
  <1>4. item' = [item EXCEPT ![a] = i]
    BY <1>3 DEF FinishBatch
  <1>5. /\ item' \in [Attempt -> [Finding -> ItemState]] /\ item'[a] = i
        /\ \A b \in Attempt \ {a} : item'[b] = item[b]
    BY <1>3, <1>4 DEF Types
  <1>6. /\ slot' \in Slot /\ slot'.holder = slot.holder /\ slot'.comment = slot.comment
        /\ slot'.pending = (IF outcome # "uncertain" /\ slot.pending = a THEN None
                            ELSE slot.pending)
        /\ slot'.pending = slot.pending => UNCHANGED slot
    <2>1. slot \in Slot
      BY DEF Types
    <2>2. PICK p \in Attempt \cup {None} :
             p = IF outcome # "uncertain" /\ slot.pending = a THEN None ELSE slot.pending
      BY <2>1 DEF Slot
    <2>3. slot' = [slot EXCEPT !.pending = p]
      BY <2>2 DEF FinishBatch
    <2> QED BY <2>1, <2>2, <2>3 DEF Slot
  <1>7. Unresolved(a)' = (IF outcome = "uncertain" THEN Unresolved(a) \cup {l}
                          ELSE Unresolved(a) \ {l})
    BY <1>2 DEF Unresolved
  <1> QED BY <1>2, <1>3, <1>5, <1>6, <1>7

\* A batch failed, or nobody knows; the delivery gives up.
LEMMA BatchFailsKeepsInv ==
  ASSUME PublicationInv, NEW a \in Attempt, NEW l \in Lot, NEW outcome \in {"failed", "uncertain"},
         NEW err \in Err, FinishBatch(a, l, outcome), Raise(a, err), HasSlot(a),
         UNCHANGED <<state, note, job, sticky, posted, pr>>, faults' \in 0 .. FaultCap,
         outcome = "failed" => posted[<<a, l>>] = 0, l \in Unresolved(a), handler[a].pc \in {"recover", "banswer"},
         wire' \subseteq wire, note[a].state # "publishing",
         \A r \in wire' : r.by = a => r.at = "sent" /\ outcome = "uncertain" /\ err = "uncertain"
  PROVE  PublicationInv'
  <1>1. Types /\ DeliveryOK(a)
    BY DeliveryFacts
  <1>2. /\ batch' \in [Attempt -> [Lot -> ItemState \cup {"none"}]]
        /\ \A k \in Lot : batch'[a][k] = (IF k = l THEN outcome ELSE batch[a][k])
        /\ item' \in [Attempt -> [Finding -> ItemState]]
        /\ \A f \in Finding : item'[a][f] = "published" => item[a][f] = "published"
        /\ \A b \in Attempt \ {a} : item'[b] = item[b] /\ batch'[b] = batch[b]
        /\ slot' \in Slot /\ slot'.holder = slot.holder /\ slot'.comment = slot.comment
        /\ slot'.pending = (IF outcome # "uncertain" /\ slot.pending = a THEN None
                            ELSE slot.pending)
        /\ slot'.pending = slot.pending => UNCHANGED slot
        /\ Unresolved(a)' = (IF outcome = "uncertain" THEN Unresolved(a) \cup {l}
                             ELSE Unresolved(a) \ {l})
    BY <1>1, FinishBatchIs
  <1>3. PICK h \in Handler :
              /\ handler' = [handler EXCEPT ![a] = h] /\ handler'[a] = h /\ h.pc = "raised"
              /\ h.err = err /\ h.phase = handler[a].phase /\ h.lot = handler[a].lot
              /\ h.closing = handler[a].closing
    BY RaiseIs
  <1>4. ProgressOK(a)'
    BY <1>1, <1>3 DEF ProgressOK, DeliveryOK, Early, Summarizing
  <1>5. RowsOK(a)'
    BY <1>3 DEF RowsOK, Resolved
  <1>6. SendsOK(a)' /\ ItemsOK(a)' /\ InSlotOK(a)'
    BY <1>3 DEF SendsOK, ItemsOK, InSlotOK, Summarizing
  <1>7. ASSUME NEW r \in wire'
        PROVE  /\ r \in Request
               /\ r.by # a => r \in wire
               /\ r.by = a => SentOK(r)'
    <2>1. r \in wire /\ r \in Request /\ SentOK(r)
      BY DeliveryFacts
    <2>2. SUFFICES ASSUME r.by = a
                   PROVE  SentOK(r)'
      BY <2>1
    <2>3. r.at = "sent" /\ r.kind = "review" /\ Unresolved(a)' = Unresolved(a)
      BY <1>2, <2>1, <2>2 DEF SentOK
    <2>4. ~Awaited(r)' /\ MayBeUnheard(r)' /\ slot' = slot
      BY <1>2, <1>3, <2>2 DEF Awaited, MayBeUnheard
    <2> QED BY <2>1, <2>2, <2>3, <2>4 DEF SentOK, Uncommented
  <1>8. \A r, s \in wire' : r = s
    BY DeliveryFacts
  <1>9. /\ \A k \in Lot : posted[<<a, k>>] > 0
                          => batch'[a][k] \in {"publishing", "uncertain", "published"}
        /\ \A f \in Finding : item'[a][f] = "published" => ~Uncommented(f)
        /\ note[a] \in Note /\ note' = [note EXCEPT ![a] = note[a]]
    <2>1. ASSUME NEW k \in Lot, posted[<<a, k>>] > 0
          PROVE  batch'[a][k] \in {"publishing", "uncertain", "published"}
      <3>1. k # l \/ outcome = "uncertain"
        BY <2>1
      <3> QED BY <1>2, <2>1, <3>1, PostsStay
    <2>2. \A f \in Finding : item'[a][f] = "published" => ~Uncommented(f)
      BY <1>2, PostsStay
    <2>3. note[a] \in Note /\ note' = [note EXCEPT ![a] = note[a]]
      BY PostsStay
    <2> QED BY <2>1, <2>2, <2>3
  <1>10. slot'.comment = 1 => sticky[1] # NoBody
    BY <1>1, <1>2 DEF Types
  <1>11. \/ UNCHANGED slot
         \/ slot'.holder = slot.holder /\ HasSlot(a) /\ slot.pending \in {None, a}
    BY <1>2
  <1> QED BY <1>2, <1>3, <1>4, <1>5, <1>6, <1>7, <1>8, <1>9, <1>10, <1>11, WritesKeepsInv

\* Batches of unknown outcome are looked for.
LEMMA RecoverKeepsInv ==
  ASSUME PublicationInv, NEW a \in Attempt, Recover(a), Smooth
  PROVE  PublicationInv'
  <1>1. /\ Types /\ DeliveryOK(a) /\ handler[a] \in Handler /\ handler[a].pc = "recover"
        /\ faults' \in 0 .. FaultCap /\ slot \in Slot
    BY DeliveryFacts DEF Recover, At, Types, Smooth
  <1>2. UNCHANGED <<state, note, job, wire, sticky, posted, pr>>
    BY DEF Recover, github
  <1>3. /\ note[a].state # "publishing" /\ ~handler[a].closing
        /\ handler[a].phase = "Publishing"
        /\ handler[a].lot # {} <=> handler[a].then = "validate"
    BY <1>1 DEF DeliveryOK, RowsOK, ProgressOK, Unwritten, Summarizing, Handler
  <1>4. \A r \in wire : r.by = a => /\ r.at = "sent" /\ handler[a].then = "check"
                                    /\ Unresolved(a) = {r.lot} /\ \A f \in r.lot : Uncommented(f)
    <2> SUFFICES ASSUME NEW r \in wire, r.by = a
                 PROVE  /\ r.at = "sent" /\ handler[a].then = "check"
                        /\ Unresolved(a) = {r.lot} /\ \A f \in r.lot : Uncommented(f)
      OBVIOUS
    <2>1. SentOK(r) /\ r.at = "sent" /\ MayBeUnheard(r)
      BY <1>1, DeliveryFacts, Unanswered
    <2>2. handler[a].then = "check" /\ r.kind = "review"
      BY <1>1, <2>1 DEF MayBeUnheard, Awaited
    <2> QED BY <2>1, <2>2 DEF SentOK
  <1>5. CASE Unresolved(a) = {} /\ Go(a, handler[a].then) /\ UNCHANGED <<item, batch, slot>>
    <2>1. PICK pc \in {"check", "upsert", "items", "validate"} : pc = handler[a].then
      BY <1>1 DEF Handler
    <2>2. PICK h \in Handler :
            /\ handler' = [handler EXCEPT ![a] = h] /\ handler'[a] = h /\ h.pc = pc
            /\ h.then = handler[a].then /\ h.todo = handler[a].todo
            /\ h.phase = handler[a].phase /\ h.fallback = handler[a].fallback
            /\ h.checked = handler[a].checked
            /\ h.lot = handler[a].lot /\ h.closing = handler[a].closing
      <3>1. pc \in Pc
        BY DEF Pc
      <3> QED BY <1>5, <2>1, <3>1, GoIs
    <2>3. /\ Unresolved(a)' = {} /\ HasSlot(a)' = HasSlot(a)
          /\ \A rest : Done(a, rest)' = Done(a, rest)
      BY <1>2, <1>5, <2>2 DEF Unresolved, HasSlot, Done
    <2>4. \A r \in wire : r.by # a
      BY <1>4, <1>5
    <2>5. ProgressOK(a)'
      BY <1>1, <1>3, <2>1, <2>2 DEF ProgressOK, DeliveryOK, Early, Summarizing
    <2>6. RowsOK(a)'
      BY <1>2, <1>3, <2>2, <2>3 DEF RowsOK
    <2>7. SendsOK(a)'
      BY <2>2 DEF SendsOK
    <2>8. ItemsOK(a)'
      BY <1>1, <1>3, <1>5, <2>1, <2>2, <2>3 DEF ItemsOK, DeliveryOK, Summarizing
    <2>9. InSlotOK(a)'
      BY <1>1, <1>2, <1>3, <1>5, <2>1, <2>2, <2>3 DEF InSlotOK, DeliveryOK, Uncommented
    <2>10. state' \in [Attempt -> AttemptState]
      BY <1>1, <1>2 DEF Types
    <2> QED BY <1>1, <1>2, <1>5, <2>2, <2>4, <2>5, <2>6, <2>7, <2>8, <2>9, <2>10, QuietMovesKeepsInv
  <1>6. ASSUME NEW l \in Unresolved(a), posted[<<a, l>>] = 1, Locked(a),
               FinishBatch(a, l, "published"), UNCHANGED handler
        PROVE  PublicationInv'
    <2>0. l \in Lot /\ l # {}
      <3>1. l \in Lot
        BY DEF Unresolved
      <3> QED BY <3>1 DEF Lot
    <2>1. l \in Lot /\ l # {} /\ HasSlot(a)
      BY <1>6, <2>0 DEF Locked, HasSlot
    <2>2. /\ batch' \in [Attempt -> [Lot -> ItemState \cup {"none"}]]
          /\ \A k \in Lot : batch'[a][k] = (IF k = l THEN "published" ELSE batch[a][k])
          /\ item' \in [Attempt -> [Finding -> ItemState]]
          /\ \A f \in Finding : item'[a][f] = (IF f \in l THEN "published" ELSE item[a][f])
          /\ \A b \in Attempt \ {a} : item'[b] = item[b] /\ batch'[b] = batch[b]
          /\ slot' \in Slot /\ slot'.holder = slot.holder /\ slot'.comment = slot.comment
          /\ slot'.pending = (IF slot.pending = a THEN None ELSE slot.pending)
          /\ slot'.pending = slot.pending => UNCHANGED slot
          /\ Unresolved(a)' = Unresolved(a) \ {l}
      BY <1>1, <1>6, <2>1, FinishBatchIs
    <2>3. \A f \in l : ~Uncommented(f)
      BY <1>6, <2>1 DEF Uncommented, Posts
    <2>4. \A r \in wire : r.by # a
      BY <1>4, <1>6, <2>1, <2>3
    <2>5. ASSUME NEW f \in Finding, item'[a][f] = "published"
          PROVE  ~Uncommented(f)
      BY <2>2, <2>3, <2>5, PostsStay
    <2>6. ProgressOK(a)'
      BY <1>1, <1>6 DEF ProgressOK, DeliveryOK
    <2>7. RowsOK(a)'
      BY <1>1, <1>2, <1>3, <1>6, <2>2 DEF RowsOK, DeliveryOK, Resolved
    <2>8. SendsOK(a)'
      BY <1>1, <1>6 DEF SendsOK
    <2>9. ItemsOK(a)'
      <3>1. CASE handler[a].then = "validate"
        <4>1. l = handler[a].lot /\ Unresolved(a) = {l} /\ Unresolved(a)' = {}
          BY <1>1, <1>6, <2>2, <3>1 DEF DeliveryOK, RowsOK
        <4>2. Done(a, handler[a].todo \cup handler[a].lot)
              /\ (handler[a].todo \cup handler[a].lot) \cap handler[a].fallback = {}
          BY <1>1, <1>3, <3>1, <4>1 DEF DeliveryOK, ItemsOK
        <4>3. Done(a, handler[a].todo)'
          BY <1>6, <2>2, <4>1, <4>2 DEF Done
        <4> QED BY <1>1, <1>3, <1>6, <3>1, <4>1, <4>2, <4>3 DEF ItemsOK, Summarizing
      <3>2. CASE handler[a].then # "validate"
        BY <1>1, <1>3, <1>6, <3>2 DEF ItemsOK, Summarizing
      <3> QED BY <3>1, <3>2
    <2>10. InSlotOK(a)'
      BY <1>1, <1>2, <1>6, <2>1, <2>2 DEF InSlotOK, DeliveryOK, Uncommented
    <2>11. /\ \A k \in Lot : posted[<<a, k>>] > 0
                          => batch'[a][k] \in {"publishing", "uncertain", "published"}
           /\ note[a] \in Note /\ note' = [note EXCEPT ![a] = note[a]]
      BY <1>2, <2>2, PostsStay
    <2>12. slot'.comment = 1 => sticky[1] # NoBody
      BY <1>1, <2>2 DEF Types
    <2>13. \/ UNCHANGED slot
           \/ slot'.holder = slot.holder /\ HasSlot(a) /\ slot.pending \in {None, a}
      BY <2>1, <2>2
    <2>14. \A r \in wire' : /\ r \in Request
                            /\ r.by # a => r \in wire
                            /\ r.by = a => SentOK(r)'
      BY <1>2, <2>4, DeliveryFacts
    <2>18. \A r, s \in wire' : r = s
      BY <1>2, DeliveryFacts
    <2>15. PICK h \in Handler : h.pc # "none" /\ handler' = [handler EXCEPT ![a] = h]
      BY <1>1, <1>6 DEF Types
    <2>16. PICK n \in Note : note' = [note EXCEPT ![a] = n]
      BY <2>11
    <2>17. \A f \in Finding : item'[a][f] = "published" => ~Uncommented(f)
      BY <2>5
    <2>19. /\ UNCHANGED <<state, job, sticky, posted, pr>>
           /\ handler[a].pc # "none" /\ slot' \in Slot /\ faults' \in 0 .. FaultCap
           /\ item' \in [Attempt -> [Finding -> ItemState]]
           /\ batch' \in [Attempt -> [Lot -> ItemState \cup {"none"}]]
           /\ \A b \in Attempt \ {a} : item'[b] = item[b] /\ batch'[b] = batch[b]
      BY <1>1, <1>2, <2>2
    <2> QED BY <2>6, <2>7, <2>8, <2>9, <2>10, <2>11, <2>12, <2>13, <2>14, <2>15, <2>16, <2>17,
               <2>18, <2>19, WritesKeepsInv
  <1>7. ASSUME NEW l \in Unresolved(a), posted[<<a, l>>] # 1, Locked(a),
               FinishBatch(a, l, "uncertain"), Raise(a, "uncertain")
        PROVE  PublicationInv'
    <2>1. l \in Lot /\ HasSlot(a) /\ "uncertain" \in Err
      BY <1>7 DEF Unresolved, Locked, HasSlot, Err
    <2>2. posted[<<a, l>>] = 0
      BY <1>1, <1>7, <2>1 DEF Types, Posts
    <2> QED BY <1>1, <1>2, <1>3, <1>4, <1>7, <2>1, <2>2, BatchFailsKeepsInv
  <1> QED BY <1>5, <1>6, <1>7 DEF Recover

\* The answer to a batch, or its loss.
LEMMA BatchAnswerKeepsInv ==
  ASSUME PublicationInv, NEW a \in Attempt, BatchAnswer(a)
  PROVE  PublicationInv'
  <1>1. /\ Types /\ DeliveryOK(a) /\ handler[a] \in Handler /\ handler[a].pc = "banswer"
        /\ slot \in Slot
    BY DeliveryFacts DEF BatchAnswer, At, Types
  <1>2. UNCHANGED <<state, note, job, sticky, posted, pr>>
    BY DEF BatchAnswer
  <1>3. faults' \in 0 .. FaultCap
    BY <1>1, MishapIsCounted DEF BatchAnswer
  <1>4. /\ Unresolved(a) = {handler[a].lot} /\ slot.pending = a /\ handler[a].lot # {}
        /\ note[a].state # "publishing" /\ ~handler[a].closing
        /\ handler[a].phase = "Publishing"
    BY <1>1 DEF DeliveryOK, RowsOK, ProgressOK, Unwritten, Summarizing, Handler
  <1>5. PICK l \in Lot : l = handler[a].lot /\ l # {} /\ l \subseteq Finding
    BY <1>1, <1>4 DEF Handler, Lot
  <1>6. \A r \in Mine(a) : /\ r.at = "refused" => posted[<<a, l>>] = 0
                           /\ wire \ Mine(a) = {}
    <2> SUFFICES ASSUME NEW r \in Mine(a)
                 PROVE  /\ r.at = "refused" => posted[<<a, l>>] = 0
                        /\ wire \ Mine(a) = {}
      OBVIOUS
    <2>1. r \in wire /\ r.by = a /\ SentOK(r) /\ Awaited(r)
      BY <1>1, DeliveryFacts DEF Mine, Awaited
    <2>2. wire \ Mine(a) = {}
      BY <2>1, DeliveryFacts
    <2>3. r.kind = "review" /\ r.lot = l
      BY <1>1, <1>5, <2>1 DEF SentOK
    <2>4. r.at = "refused" => \A f \in l : Uncommented(f)
      BY <2>1, <2>3 DEF SentOK
    <2>5. r.at = "refused" => posted[<<a, l>>] = 0
      BY <1>5, <2>4 DEF Uncommented, Posts
    <2> QED BY <2>2, <2>5
  <1>7. CASE /\ MineAt(a, "applied") # {} /\ wire' = wire \ Mine(a)
             /\ Recovering(a, "validate") /\ UNCHANGED <<item, batch, slot>>
    <2>1. wire' = {}
      BY <1>6, <1>7 DEF MineAt
    <2>2. PICK h \in Handler :
            /\ handler' = [handler EXCEPT ![a] = h] /\ h.pc = "recover" /\ h.then = "validate"
            /\ h.checked = handler[a].checked /\ h.phase = handler[a].phase
            /\ h.closing = handler[a].closing /\ h.lot = handler[a].lot
            /\ h.todo = handler[a].todo /\ h.fallback = handler[a].fallback
      <3>1. "recover" \in Pc
        BY DEF Pc
      <3> DEFINE h == [handler[a] EXCEPT !.pc = "recover", !.then = "validate"]
      <3>2. /\ h \in Handler /\ h.pc = "recover" /\ h.then = "validate"
            /\ h.checked = handler[a].checked /\ h.phase = handler[a].phase
            /\ h.closing = handler[a].closing /\ h.lot = handler[a].lot
            /\ h.todo = handler[a].todo /\ h.fallback = handler[a].fallback
        BY <1>1, <3>1 DEF Handler
      <3>3. handler' = [handler EXCEPT ![a] = h]
        BY <1>7 DEF Recovering
      <3> QED BY <3>2, <3>3
    <2>3. handler'[a] = h
      BY <1>1, <2>2 DEF Types
    <2>4. /\ Unresolved(a)' = Unresolved(a) /\ HasSlot(a)' = HasSlot(a)
          /\ \A rest : Done(a, rest)' = Done(a, rest)
      BY <1>2, <1>7, <2>2, <2>3 DEF Unresolved, HasSlot, Done
    <2>5. ProgressOK(a)'
      BY <1>4, <2>2, <2>3 DEF ProgressOK, Early, Summarizing
    <2>6. RowsOK(a)'
      BY <1>2, <1>4, <2>2, <2>3, <2>4 DEF RowsOK, Resolved
    <2>7. SendsOK(a)'
      BY <2>2, <2>3 DEF SendsOK
    <2>8. ItemsOK(a)'
      <3>1. Done(a, handler[a].todo \cup handler[a].lot)
        BY <1>1 DEF DeliveryOK, ItemsOK
      <3>2. (handler[a].todo \cup handler[a].lot) \cap handler[a].fallback = {}
        BY <1>1 DEF DeliveryOK, ItemsOK
      <3>3. Unresolved(a)' # {}
        BY <1>4, <2>4
      <3> QED BY <2>2, <2>3, <2>4, <3>1, <3>2, <3>3 DEF ItemsOK, Summarizing
    <2>9. InSlotOK(a)'
      BY <1>1, <1>2, <1>4, <1>7, <2>2, <2>3, <2>4 DEF InSlotOK, DeliveryOK, Uncommented
    <2>10. state' \in [Attempt -> AttemptState]
      BY <1>1, <1>2 DEF Types
    <2> QED BY <1>1, <1>2, <1>3, <1>7, <2>1, <2>2, <2>5, <2>6, <2>7, <2>8, <2>9, <2>10, MovesKeepsInv
  <1>8. ASSUME MineAt(a, "refused") # {}, wire' = wire \ Mine(a), Locked(a),
               FinishBatch(a, l, "failed"), NEW err \in {"refused", "throttled"}, Raise(a, err)
        PROVE  PublicationInv'
    <2>1. wire' = {} /\ posted[<<a, l>>] = 0
      BY <1>6, <1>8 DEF MineAt
    <2>2. err \in Err /\ HasSlot(a) /\ l \in Unresolved(a)
      BY <1>4, <1>5, <1>8 DEF Err, Locked, HasSlot
    <2> QED BY <1>1, <1>2, <1>3, <1>4, <1>8, <2>1, <2>2, BatchFailsKeepsInv
  <1>9. ASSUME wire' = wire \ (Mine(a) \ Unheard), Locked(a),
               FinishBatch(a, l, "uncertain"), Raise(a, "uncertain")
        PROVE  PublicationInv'
    <2>1. "uncertain" \in Err /\ HasSlot(a) /\ l \in Unresolved(a)
      BY <1>4, <1>5, <1>9 DEF Err, Locked, HasSlot
    <2>2. wire' \subseteq wire /\ \A r \in wire' : r.by = a => r.at = "sent"
      BY <1>9, AnswersAreDropped
    <2> QED BY <1>1, <1>2, <1>3, <1>4, <1>9, <2>1, <2>2, BatchFailsKeepsInv
  <1>10. CASE /\ \E err \in {"lost", "uncertain"} : Raise(a, err)
              /\ wire' = wire \ Mine(a) \/ wire' = wire \ (Mine(a) \ Unheard)
              /\ UNCHANGED <<item, batch, slot>>
    <2>1. PICK err \in Err : Raise(a, err) /\ err \in {"uncertain", "lost"}
      BY <1>10 DEF Err
    <2>2. wire' \subseteq wire /\ \A r \in wire' : r.by = a => r.at = "sent"
      BY <1>10, AnswersAreDropped
    <2> QED BY <1>1, <1>2, <1>3, <1>10, <2>1, <2>2, RaiseKeepsInv
  <1> QED BY <1>5, <1>7, <1>8, <1>9, <1>10 DEF BatchAnswer, Fate

-----------------------------------------------------------------------------
(* deliver_inline *)

\* No finding has more than one comment.
LEMMA CommentsIs ==
  ASSUME Types, PostInv, NEW f \in Finding
  PROVE  CommentsOn(f) = IF Uncommented(f) THEN 0 ELSE 1
  <1> DEFINE by == {p \in Posts : f \in p[2] /\ posted[p] > 0}
             twice == {p \in by : posted[p] > 1}
  <1>1. CommentsOn(f) = Cardinality(by) + Cardinality(twice)
    BY DEF CommentsOn
  <1>2. \A p \in Posts : posted[p] \in {0, 1}
    BY DEF Types
  <1>3. twice = {}
    BY <1>2
  <1>4. CASE Uncommented(f)
    <2>1. by = {}
      BY <1>2, <1>4 DEF Uncommented
    <2> HIDE DEF by, twice
    <2> QED BY <1>1, <1>3, <1>4, <2>1, FS_EmptySet
  <1>5. CASE ~Uncommented(f)
    <2>1. PICK p \in Posts : f \in p[2] /\ posted[p] # 0
      BY <1>5 DEF Uncommented
    <2>2. ASSUME NEW q \in by
          PROVE  q = p
      <3>1. p[2] \cap q[2] # {} /\ posted[p] > 0 /\ posted[q] > 0
        BY <1>2, <2>1
      <3> QED BY <3>1 DEF PostInv
    <2>3. p \in by
      BY <1>2, <2>1
    <2>4. by = {p}
      BY <2>2, <2>3
    <2> HIDE DEF by, twice
    <2>5. Cardinality(by) = 1
      BY <2>4, FS_Singleton
    <2>6. Cardinality(twice) = 0
      BY <1>3, FS_EmptySet
    <2> QED BY <1>1, <1>5, <2>5, <2>6
  <1> QED BY <1>4, <1>5

\* The comments on GitHub are compared with the items.
LEMMA ItemsKeepsInv ==
  ASSUME PublicationInv, NEW a \in Attempt, Items(a), Smooth
  PROVE  PublicationInv'
  <1>1. /\ Types /\ PostInv /\ DeliveryOK(a) /\ handler[a] \in Handler /\ handler[a].pc = "items"
        /\ faults' \in 0 .. FaultCap /\ slot \in Slot /\ item[a] \in [Finding -> ItemState]
    BY DeliveryFacts DEF Items, At, Types, Smooth, PublicationInv
  <1>2. UNCHANGED <<state, note, batch, job, slot, wire, sticky, posted, pr>>
    BY DEF Items, github
  <1>3. /\ (\A r \in wire : r.by # a) /\ note[a].state # "publishing" /\ handler[a].lot = {}
        /\ ~handler[a].closing /\ handler[a].phase = "Publishing" /\ Unresolved(a) = {}
    <2>1. (\A r \in wire : r.by # a) /\ note[a].state # "publishing" /\ handler[a].lot = {}
          /\ ~handler[a].closing /\ handler[a].phase = "Publishing"
      BY <1>1, NoRequest DEF DeliveryOK, RowsOK, Unwritten, ProgressOK, Summarizing, Handler
    <2> QED BY <1>1, <2>1 DEF DeliveryOK, RowsOK, Resolved
  <1>4. \A f \in Finding : CommentsOn(f) = IF Uncommented(f) THEN 0 ELSE 1
    BY <1>1, CommentsIs
  <1>5. \A f \in Finding : f \in OnPullRequest(a) <=> f \notin handler[a].fallback /\ ~Uncommented(f)
    BY <1>4 DEF OnPullRequest, Mapped
  <1>6. PICK i \in [Finding -> ItemState] :
           /\ i = [f \in Finding |->
                   IF \E v \in Vanished(a) : v <= f THEN item[a][f]
                   ELSE IF f \in handler[a].fallback THEN "summary_only"
                   ELSE IF f \in OnPullRequest(a) THEN "published" ELSE item[a][f]]
    <2> DEFINE i == [f \in Finding |->
                   IF \E v \in Vanished(a) : v <= f THEN item[a][f]
                   ELSE IF f \in handler[a].fallback THEN "summary_only"
                   ELSE IF f \in OnPullRequest(a) THEN "published" ELSE item[a][f]]
    <2>1. "summary_only" \in ItemState /\ "published" \in ItemState
      BY DEF ItemState
    <2>2. i \in [Finding -> ItemState]
      BY <1>1, <2>1
    <2> QED BY <2>2
  <1>7. item' = [item EXCEPT ![a] = i]
    BY <1>4, <1>6 DEF Items, Mapped
  <1>8. /\ item' \in [Attempt -> [Finding -> ItemState]] /\ item'[a] = i
        /\ \A b \in Attempt \ {a} : item'[b] = item[b]
    BY <1>1, <1>6, <1>7 DEF Types
  <1>9. \A f \in Finding : item'[a][f] = "published" => ~Uncommented(f)
    BY <1>5, <1>6, <1>8, PostsStay
  <1>10. /\ HasSlot(a)' = HasSlot(a) /\ Unresolved(a)' = {}
    BY <1>2, <1>3 DEF HasSlot, Unresolved
  <1>11. ASSUME NEW h \in Handler, handler' = [handler EXCEPT ![a] = h], h.pc # "none",
                ProgressOK(a)', RowsOK(a)', SendsOK(a)', ItemsOK(a)', InSlotOK(a)'
         PROVE  PublicationInv'
    <2>1. /\ \A l \in Lot : posted[<<a, l>>] > 0
                          => batch'[a][l] \in {"publishing", "uncertain", "published"}
          /\ batch' \in [Attempt -> [Lot -> ItemState \cup {"none"}]]
          /\ \A b \in Attempt \ {a} : batch'[b] = batch[b]
      BY <1>2, PostsStay
    <2>2. PICK n \in Note : note' = [note EXCEPT ![a] = n]
      BY <1>2, PostsStay
    <2>3. \A r \in wire' : /\ r \in Request
                           /\ r.by # a => r \in wire
                           /\ r.by = a => SentOK(r)'
      BY <1>2, <1>3, DeliveryFacts
    <2>4. \A r, s \in wire' : r = s
      BY <1>2, DeliveryFacts
    <2>5. slot' \in Slot /\ (slot'.comment = 1 => sticky[1] # NoBody) /\ UNCHANGED slot
      BY <1>1, <1>2 DEF Types
    <2>6. \A b \in Attempt \ {a} : item'[b] = item[b] /\ batch'[b] = batch[b]
      BY <1>8, <2>1
    <2> QED BY <1>1, <1>2, <1>8, <1>9, <1>11, <2>1, <2>2, <2>3, <2>4, <2>5, <2>6, WritesKeepsInv
  <1>12. CASE Vanished(a) # {}
    <2>1. Raise(a, "uncertain") /\ "uncertain" \in Err
      BY <1>4, <1>12 DEF Items, Mapped, Err
    <2>2. PICK h \in Handler :
              /\ handler' = [handler EXCEPT ![a] = h] /\ handler'[a] = h /\ h.pc = "raised"
              /\ h.err = "uncertain" /\ h.phase = handler[a].phase /\ h.lot = handler[a].lot
              /\ h.closing = handler[a].closing
      BY <2>1, RaiseIs
    <2>3. ProgressOK(a)'
      BY <1>3, <2>2 DEF ProgressOK, Early, Summarizing
    <2>4. RowsOK(a)'
      BY <1>2, <1>3, <2>2 DEF RowsOK, Resolved
    <2>5. SendsOK(a)' /\ ItemsOK(a)' /\ InSlotOK(a)'
      BY <2>2 DEF SendsOK, ItemsOK, InSlotOK, Summarizing
    <2> QED BY <1>11, <2>2, <2>3, <2>4, <2>5
  <1>13. CASE Vanished(a) = {}
    <2>1. PICK todo \in SUBSET Finding : todo = Mapped(a) \ OnPullRequest(a)
      BY DEF Mapped
    <2>2. PICK h \in Handler :
            /\ handler' = [handler EXCEPT ![a] = h] /\ h.pc = "batch" /\ h.todo = todo
            /\ h.checked = handler[a].checked /\ h.phase = handler[a].phase
            /\ h.closing = handler[a].closing /\ h.lot = {}
            /\ h.fallback = handler[a].fallback
      <3>1. "batch" \in Pc
        BY DEF Pc
      <3> DEFINE h == [handler[a] EXCEPT !.pc = "batch", !.todo = todo]
      <3>2. /\ h \in Handler /\ h.pc = "batch" /\ h.todo = todo
            /\ h.checked = handler[a].checked /\ h.phase = handler[a].phase
            /\ h.closing = handler[a].closing /\ h.lot = {}
            /\ h.fallback = handler[a].fallback
        BY <1>1, <1>3, <3>1 DEF Handler
      <3>3. ~\E f \in Mapped(a) : CommentsOn(f) > 1
        BY <1>4 DEF Mapped
      <3>4. handler' = [handler EXCEPT ![a].pc = "batch", ![a].todo = todo]
        BY <1>13, <2>1, <3>3 DEF Items
      <3>5. handler' = [handler EXCEPT ![a] = h]
        BY <3>4
      <3> QED BY <3>2, <3>5
    <2>3. handler'[a] = h
      BY <1>1, <2>2 DEF Types
    <2>4. \A f \in Finding : i[f] = (IF f \in handler[a].fallback THEN "summary_only"
                   ELSE IF f \in OnPullRequest(a) THEN "published" ELSE item[a][f])
      BY <1>6, <1>13
    <2>5. Done(a, h.todo)'
      BY <1>8, <2>1, <2>2, <2>3, <2>4 DEF Done, Mapped
    <2>6. /\ \A f \in h.todo : Uncommented(f)
          /\ h.todo \cap h.fallback = {}
      BY <1>5, <2>1, <2>2 DEF Mapped
    <2>7. ProgressOK(a)'
      BY <1>3, <2>2, <2>3 DEF ProgressOK, Early, Summarizing
    <2>8. RowsOK(a)'
      BY <1>2, <1>3, <1>10, <2>2, <2>3 DEF RowsOK
    <2>9. SendsOK(a)'
      BY <2>2, <2>3 DEF SendsOK
    <2>10. ItemsOK(a)'
      BY <1>3, <2>2, <2>3, <2>5, <2>6 DEF ItemsOK, Summarizing
    <2>11. InSlotOK(a)'
      BY <1>1, <1>2, <1>10, <2>2, <2>3, <2>6 DEF InSlotOK, DeliveryOK, Uncommented
    <2> QED BY <1>11, <2>2, <2>7, <2>8, <2>9, <2>10, <2>11
  <1> QED BY <1>12, <1>13

\* A batch holds something as long as there is something left.
LEMMA NextLotIs ==
  ASSUME Types, NEW a \in Attempt
  PROVE  /\ NextLot(a) \subseteq handler[a].todo
         /\ handler[a].todo # {} => NextLot(a) \in Lot
  <1>1. handler[a].todo \subseteq Finding /\ Finding \subseteq Nat
    BY DEF Types, Handler, Finding
  <1>2. NextLot(a) \subseteq handler[a].todo
    BY DEF NextLot
  <1>3. ASSUME handler[a].todo # {}
        PROVE  NextLot(a) # {}
    <2>1. PICK f \in handler[a].todo :
             \A g \in handler[a].todo : ~(<<g, f>> \in OpToRel(<, Nat))
      BY <1>1, <1>3, WFMin, NatLessThanWellFounded
    <2>2. \A g \in handler[a].todo : ~(g < f)
      BY <1>1, <2>1 DEF OpToRel
    <2>3. {g \in handler[a].todo : g < f} = {}
      BY <2>2
    <2>4. Cardinality({g \in handler[a].todo : g < f}) = 0
      BY <2>3, FS_EmptySet
    <2>5. f \in NextLot(a)
      BY <2>4, PublicationAssumption DEF NextLot
    <2> QED BY <2>5
  <1> QED BY <1>1, <1>2, <1>3 DEF Lot

\* The next batch is stored before it is sent; after the last one, the summary.
LEMMA BatchKeepsInv ==
  ASSUME PublicationInv, NEW a \in Attempt, Batch(a), Smooth
  PROVE  PublicationInv'
  <1>1. /\ Types /\ PostInv /\ DeliveryOK(a) /\ handler[a] \in Handler /\ handler[a].pc = "batch"
        /\ faults' \in 0 .. FaultCap /\ slot \in Slot /\ item[a] \in [Finding -> ItemState]
    BY DeliveryFacts DEF Batch, At, Types, Smooth, PublicationInv
  <1>2. UNCHANGED <<state, note, job, wire, sticky, posted, pr>>
    BY DEF Batch, github
  <1>3. /\ (\A r \in wire : r.by # a) /\ note[a].state # "publishing" /\ handler[a].lot = {}
        /\ ~handler[a].closing /\ handler[a].phase = "Publishing" /\ Unresolved(a) = {}
    <2>1. (\A r \in wire : r.by # a) /\ note[a].state # "publishing" /\ handler[a].lot = {}
          /\ ~handler[a].closing /\ handler[a].phase = "Publishing"
      BY <1>1, NoRequest DEF DeliveryOK, RowsOK, Unwritten, ProgressOK, Summarizing, Handler
    <2> QED BY <1>1, <2>1 DEF DeliveryOK, RowsOK, Resolved
  <1>4. /\ Done(a, handler[a].todo) /\ handler[a].todo \cap handler[a].fallback = {}
    BY <1>1 DEF DeliveryOK, ItemsOK
  <1>5. CASE /\ handler[a].todo = {} /\ UNCHANGED <<item, batch, slot>>
             /\ handler' = [handler EXCEPT ![a].pc = "upsert", ![a].phase = "Published"]
    <2>1. PICK h \in Handler :
            /\ handler' = [handler EXCEPT ![a] = h] /\ h.pc = "upsert" /\ h.phase = "Published"
            /\ h.checked = handler[a].checked /\ h.todo = handler[a].todo
            /\ h.closing = handler[a].closing /\ h.lot = handler[a].lot
            /\ h.fallback = handler[a].fallback
      <3>1. "upsert" \in Pc
        BY DEF Pc
      <3> DEFINE h == [handler[a] EXCEPT !.pc = "upsert", !.phase = "Published"]
      <3>2. /\ h \in Handler /\ h.pc = "upsert" /\ h.phase = "Published"
            /\ h.checked = handler[a].checked /\ h.todo = handler[a].todo
            /\ h.closing = handler[a].closing /\ h.lot = handler[a].lot
            /\ h.fallback = handler[a].fallback
        BY <1>1, <3>1 DEF Handler
      <3>3. handler' = [handler EXCEPT ![a] = h]
        BY <1>5
      <3> QED BY <3>2, <3>3
    <2>2. handler'[a] = h
      BY <1>1, <2>1 DEF Types
    <2>3. Done(a, {})'
      BY <1>4, <1>5, <2>1, <2>2 DEF Done
    <2>4. Unresolved(a)' = {}
      BY <1>3, <1>5 DEF Unresolved
    <2>5. ProgressOK(a)'
      BY <1>3, <2>1, <2>2 DEF ProgressOK, Early, Summarizing
    <2>6. RowsOK(a)'
      BY <1>2, <1>3, <2>1, <2>2, <2>4 DEF RowsOK
    <2>7. SendsOK(a)'
      BY <2>1, <2>2 DEF SendsOK
    <2>8. ItemsOK(a)'
      BY <2>1, <2>2, <2>3 DEF ItemsOK
    <2>9. InSlotOK(a)'
      BY <2>1, <2>2 DEF InSlotOK
    <2>10. state' \in [Attempt -> AttemptState]
      BY <1>1, <1>2 DEF Types
    <2> QED BY <1>1, <1>2, <1>3, <1>5, <2>1, <2>5, <2>6, <2>7, <2>8, <2>9, <2>10, QuietMovesKeepsInv
  <1>6. CASE UNCHANGED <<item, batch, slot>> /\ \E err \in {"stale", "internal"} : Raise(a, err)
    <2>1. PICK err \in Err : Raise(a, err)
      BY <1>6 DEF Err
    <2> QED BY <1>1, <1>2, <1>3, <1>6, <2>1, RaiseKeepsInv
  <1>7. CASE /\ handler[a].todo # {} /\ Locked(a)
             /\ slot.pending \in {None, a} /\ batch[a][NextLot(a)] \in {"none", "failed"}
             /\ slot' = [slot EXCEPT !.pending = a]
             /\ batch' = [batch EXCEPT ![a][NextLot(a)] = "publishing"]
             /\ item' = [item EXCEPT ![a] = [f \in Finding |->
                            IF f \in NextLot(a) THEN "publishing" ELSE @[f]]]
             /\ handler' = [handler EXCEPT ![a].pc = "bsend", ![a].lot = NextLot(a),
                                           ![a].todo = @ \ NextLot(a)]
    <2>1. PICK l \in Lot : l = NextLot(a) /\ l \subseteq handler[a].todo /\ l # {}
                           /\ l \subseteq Finding
      BY <1>1, <1>7, NextLotIs DEF Lot
    <2>2. PICK todo \in SUBSET Finding : todo = handler[a].todo \ l
      BY <1>1 DEF Handler
    <2>3. PICK h \in Handler :
            /\ handler' = [handler EXCEPT ![a] = h] /\ h.pc = "bsend"
            /\ h.phase = handler[a].phase /\ h.todo = todo
            /\ h.checked = handler[a].checked
            /\ h.closing = handler[a].closing /\ h.lot = l
            /\ h.fallback = handler[a].fallback
      <3>1. "bsend" \in Pc
        BY DEF Pc
      <3> DEFINE h == [handler[a] EXCEPT !.pc = "bsend", !.lot = l, !.todo = todo]
      <3>2. /\ h \in Handler /\ h.pc = "bsend"
            /\ h.phase = handler[a].phase /\ h.todo = todo
            /\ h.checked = handler[a].checked
            /\ h.closing = handler[a].closing /\ h.lot = l
            /\ h.fallback = handler[a].fallback
        BY <1>1, <2>1, <3>1 DEF Handler
      <3>3. handler' = [handler EXCEPT ![a] = h]
        BY <1>7, <2>1, <2>2
      <3> QED BY <3>2, <3>3
    <2>4. handler'[a] = h
      BY <1>1, <2>3 DEF Types
    <2>5. /\ slot' \in Slot /\ slot'.holder = slot.holder /\ slot'.pending = a
          /\ slot'.comment = slot.comment /\ HasSlot(a) /\ slot.pending \in {None, a}
      BY <1>1, <1>7 DEF Slot, Locked, HasSlot
    <2>6. "publishing" \in ItemState
      BY DEF ItemState
    <2>7. PICK i \in [Finding -> ItemState] :
             i = [f \in Finding |-> IF f \in l THEN "publishing" ELSE item[a][f]]
      <3> DEFINE i == [f \in Finding |-> IF f \in l THEN "publishing" ELSE item[a][f]]
      <3>1. i \in [Finding -> ItemState]
        BY <1>1, <2>6
      <3> QED BY <3>1
    <2>8. item' = [item EXCEPT ![a] = i]
      BY <1>7, <2>1, <2>7
    <2>9. /\ item' \in [Attempt -> [Finding -> ItemState]] /\ item'[a] = i
          /\ \A b \in Attempt \ {a} : item'[b] = item[b]
      BY <1>1, <2>8 DEF Types
    <2>10. /\ batch' \in [Attempt -> [Lot -> ItemState \cup {"none"}]]
           /\ \A k \in Lot : batch'[a][k] = (IF k = l THEN "publishing" ELSE batch[a][k])
           /\ \A b \in Attempt \ {a} : batch'[b] = batch[b]
      BY <1>1, <1>7, <2>1, <2>6 DEF Types
    <2>11. Unresolved(a)' = {l}
      BY <1>3, <2>10 DEF Unresolved
    <2>12. \A f \in handler[a].todo : Uncommented(f)
      BY <1>1, <2>5 DEF DeliveryOK, InSlotOK
    <2>13. Done(a, h.todo \cup h.lot)'
      BY <1>4, <2>1, <2>2, <2>3, <2>4, <2>7, <2>9 DEF Done
    <2>14. ProgressOK(a)'
      BY <1>3, <2>1, <2>3, <2>4 DEF ProgressOK, Early, Summarizing
    <2>15. RowsOK(a)'
      BY <1>2, <1>3, <2>3, <2>4, <2>5, <2>11 DEF RowsOK, Resolved
    <2>16. SendsOK(a)'
      BY <1>2, <2>1, <2>3, <2>4, <2>12 DEF SendsOK, Uncommented
    <2>17. ItemsOK(a)'
      BY <1>3, <1>4, <2>1, <2>2, <2>3, <2>4, <2>13 DEF ItemsOK, Summarizing
    <2>18. InSlotOK(a)'
      BY <1>2, <2>1, <2>2, <2>3, <2>4, <2>12 DEF InSlotOK, Uncommented
    <2>19. wire = {}
      BY <1>3, <2>5, WireIsEmpty
    <2>20. \A f \in Finding : item'[a][f] = "published" => ~Uncommented(f)
      BY <2>7, <2>9, PostsStay
    <2>21. ASSUME NEW k \in Lot, posted[<<a, k>>] > 0
           PROVE  batch'[a][k] \in {"publishing", "uncertain", "published"}
      BY <2>10, <2>21, PostsStay
    <2>22. PICK n \in Note : note' = [note EXCEPT ![a] = n]
      BY <1>2, PostsStay
    <2>23. slot'.comment = 1 => sticky[1] # NoBody
      BY <1>1, <2>5 DEF Types
    <2>24. \A r \in wire' : FALSE
      BY <1>2, <2>19
    <2>25. \A b \in Attempt \ {a} : item'[b] = item[b] /\ batch'[b] = batch[b]
      BY <2>9, <2>10
    <2>26. /\ \A r \in wire' : /\ r \in Request
                               /\ r.by # a => r \in wire
                               /\ r.by = a => SentOK(r)'
           /\ \A r, q \in wire' : r = q
      BY <2>24
    <2>27. /\ \A k \in Lot : posted[<<a, k>>] > 0
                             => batch'[a][k] \in {"publishing", "uncertain", "published"}
           /\ batch' \in [Attempt -> [Lot -> ItemState \cup {"none"}]]
           /\ item' \in [Attempt -> [Finding -> ItemState]]
      BY <2>9, <2>10, <2>21
    <2>28. /\ handler[a].pc # "none" /\ h.pc # "none" /\ slot' \in Slot
           /\ \/ UNCHANGED slot
              \/ slot'.holder = slot.holder /\ HasSlot(a) /\ slot.pending \in {None, a}
           /\ handler' = [handler EXCEPT ![a] = h] /\ faults' \in 0 .. FaultCap
      BY <1>1, <2>3, <2>5
    <2> QED BY <1>2, <2>14, <2>15, <2>16, <2>17, <2>18, <2>20, <2>22, <2>23, <2>25,
               <2>26, <2>27, <2>28, WritesKeepsInv
  <1> QED BY <1>5, <1>6, <1>7 DEF Batch

-----------------------------------------------------------------------------
(* GitHub carries requests out, or not, and people edit *)

\* A delivery is as it was if GitHub still is what it needs.
LEMMA GitHubMoves ==
  ASSUME NEW a \in Attempt, DeliveryOK(a), SendsOK(a)', InSlotOK(a)',
         UNCHANGED <<state, item, note, batch, job, slot, handler>>
  PROVE  DeliveryOK(a)'
  <1>1. Unresolved(a)' = Unresolved(a) /\ (\A rest : Done(a, rest)' = Done(a, rest))
        /\ Composed(a, handler[a].fallback)' = Composed(a, handler[a].fallback)
    BY DEF Unresolved, Done, Composed
  <1>2. JobOK(a)' /\ ProgressOK(a)'
    BY DEF DeliveryOK, JobOK, ProgressOK
  <1>3. RowsOK(a)'
    BY <1>1 DEF DeliveryOK, RowsOK
  <1>4. ItemsOK(a)'
    BY <1>1 DEF DeliveryOK, ItemsOK
  <1> QED BY <1>2, <1>3, <1>4 DEF DeliveryOK

\* What the invariant says of GitHub.
LEMMA WireFacts ==
  ASSUME PublicationInv
  PROVE  /\ Types /\ PostInv
         /\ \A r \in wire : r \in Request /\ r.by \in Attempt /\ SentOK(r)
         /\ \A r, s \in wire : r = s
  BY DEF PublicationInv, Types, WireInv, Request

\* The request under way, after GitHub has dealt with it.
LEMMA HeardIs ==
  ASSUME PublicationInv, NEW r \in wire, NEW at \in {"applied", "refused"}, Heard(r, at)
  PROVE  /\ \A s \in wire' : /\ Awaited(r) /\ s \in Request /\ s.at = at /\ s.kind = r.kind
                             /\ s.by = r.by /\ s.id = r.id /\ s.try = r.try /\ s.body = r.body
                             /\ s.lot = r.lot
         /\ \A s, q \in wire' : s = q
  <1>1. r \in Request /\ wire \ {r} = {}
    BY WireFacts
  <1>2. PICK t \in Request : /\ t = [r EXCEPT !.at = at] /\ t.at = at /\ t.kind = r.kind
                             /\ t.by = r.by /\ t.id = r.id /\ t.try = r.try /\ t.body = r.body
                             /\ t.lot = r.lot
    <2> DEFINE t == [r EXCEPT !.at = at]
    <2>1. /\ t \in Request /\ t.at = at /\ t.kind = r.kind
          /\ t.by = r.by /\ t.id = r.id /\ t.try = r.try /\ t.body = r.body
          /\ t.lot = r.lot
      BY <1>1 DEF Request
    <2> QED BY <2>1
  <1>3. wire' = IF Awaited(r) THEN {t} ELSE {}
    BY <1>1, <1>2 DEF Heard
  <1> QED BY <1>2, <1>3

\* A request that was refused, or lost with nobody waiting, changed nothing.
LEMMA RefuseKeepsInv ==
  ASSUME PublicationInv, NEW r \in wire, Refuse(r) \/ (Lose(r) /\ Smooth)
  PROVE  PublicationInv'
  <1>1. /\ Types /\ r.at = "sent" /\ r \in Request /\ SentOK(r) /\ r.by \in Attempt
        /\ UNCHANGED <<state, item, note, batch, job, slot, handler, sticky, posted, pr>>
    BY WireFacts DEF Refuse, Lose, rows, Unheard, Request
  <1>2. faults' \in 0 .. FaultCap
    BY <1>1, MishapIsCounted DEF Refuse
  <1>3. \A s \in wire' : s \in Request /\ s.by = r.by /\ SentOK(s)'
    <2> SUFFICES ASSUME NEW s \in wire'
                 PROVE  s \in Request /\ s.by = r.by /\ SentOK(s)'
      OBVIOUS
    <2>1. Refuse(r)
      BY WireFacts DEF Lose
    <2>2. /\ Awaited(r) /\ s \in Request /\ s.at = "refused" /\ s.kind = r.kind
          /\ s.by = r.by /\ s.id = r.id /\ s.try = r.try /\ s.body = r.body
          /\ s.lot = r.lot
      BY <2>1, HeardIs DEF Refuse
    <2>3. Awaited(s)' /\ Unresolved(s.by)' = Unresolved(r.by)
      BY <1>1, <2>2 DEF Awaited, Unresolved
    <2>4. SentOK(s)'
      BY <1>1, <2>2, <2>3 DEF SentOK, Uncommented, Tells, Improves
    <2> QED BY <2>2, <2>4
  <1>4. \A s, q \in wire' : s = q
    BY HeardIs, WireFacts DEF Refuse, Lose
  <1>5. Types'
    BY <1>1, <1>2, <1>3 DEF Types
  <1>6. \A a \in Attempt : StaysFor(a)
    BY <1>1 DEF StaysFor, HasSlot
  <1>7. StepOf(r.by)
    BY <1>1, <1>3, <1>4, <1>6, PostsStay DEF StepOf
  <1>8. DeliveryOK(r.by)'
    BY <1>1, <1>6, StayingIsOK, DeliveryFacts
  <1> QED BY <1>1, <1>3, <1>5, <1>7, <1>8, StepKeepsInv

\* Someone edits the summary.
LEMMA EditKeepsInv ==
  ASSUME PublicationInv, NEW c \in 1 .. 2, Edit(c)
  PROVE  PublicationInv'
  <1>1. /\ Types /\ faults' \in 0 .. FaultCap
        /\ UNCHANGED <<state, item, note, batch, job, slot, handler, wire, posted, pr>>
    <2>1. faults' \in 0 .. FaultCap
      BY WireFacts, MishapIsCounted DEF Edit
    <2> QED BY <2>1, WireFacts DEF Edit, rows
  <1>2. c = 1 /\ sticky[1] # NoBody /\ sticky[1] \in Body
    BY <1>1, SummaryIs DEF Edit
  <1>3. PICK b \in Body : /\ b = [sticky[1] EXCEPT !.edited = TRUE] /\ b.edited
                          /\ b.pub = sticky[1].pub /\ b.phase = sticky[1].phase
                          /\ b.told = sticky[1].told /\ b.fallback = sticky[1].fallback
    <2>1. PICK s \in Body : s = sticky[1]
      BY <1>2
    <2> DEFINE b == [s EXCEPT !.edited = TRUE]
    <2>2. /\ b \in Body /\ b.edited /\ b.pub = s.pub /\ b.phase = s.phase
          /\ b.told = s.told /\ b.fallback = s.fallback
      BY DEF Body
    <2> QED BY <2>1, <2>2
  <1>4. b # NoBody
    <2>1. b.pub # NoBody.pub
      BY <1>3 DEF Body, NoBody, None, Attempt
    <2> QED BY <2>1
  <1>5. sticky' = [sticky EXCEPT ![1] = b]
    BY <1>2, <1>3 DEF Edit
  <1>6. /\ sticky' \in [1 .. 2 -> Body \cup {NoBody}] /\ sticky'[1] = b
        /\ sticky'[2] = NoBody
    BY <1>1, <1>5 DEF Types
  <1>7. \A d : Tells(d)' <=> Tells(d)
    BY <1>2, <1>3, <1>4, <1>6 DEF Tells
  <1>8. \A d, id : Improves(d, id) => Improves(d, id)'
    BY <1>2, <1>3, <1>4, <1>6 DEF Improves
  <1>9. \A f \in Finding : Uncommented(f)' = Uncommented(f)
    BY <1>1 DEF Uncommented
  <1>10. Types'
    BY <1>1, <1>4, <1>6 DEF Types
  <1>11. PostInv'
    BY <1>1, <1>9 DEF PublicationInv, PostInv, PostedIsAccounted
  <1>12. ASSUME NEW a \in Attempt
         PROVE  DeliveryOK(a)'
    <2>1. DeliveryOK(a) /\ Composed(a, handler[a].fallback)' = Composed(a, handler[a].fallback)
          /\ HasSlot(a)' = HasSlot(a)
      BY <1>1, DeliveryFacts DEF Composed, HasSlot
    <2>2. SendsOK(a)'
      BY <1>1, <1>2, <1>3, <1>4, <1>6, <2>1 DEF SendsOK, DeliveryOK, Tells, Improves, Uncommented
    <2>3. InSlotOK(a)'
      <3>1. PICK body : body = Composed(a, handler[a].fallback)
        OBVIOUS
      <3>2. /\ Tells(body) => Tells(body)'
            /\ Improves(body, handler[a].id) => Improves(body, handler[a].id)'
        BY <1>1, <1>2, <1>3, <1>4, <1>6 DEF Tells, Improves
      <3>3. Composed(a, handler[a].fallback)' = body
        BY <2>1, <3>1
      <3> QED BY <1>1, <2>1, <3>1, <3>2, <3>3 DEF InSlotOK, DeliveryOK, Uncommented
    <2> QED BY <1>1, <2>1, <2>2, <2>3, GitHubMoves
  <1>13. ASSUME NEW r \in wire
         PROVE  SentOK(r)'
    <2>1. SentOK(r) /\ Awaited(r)' = Awaited(r) /\ MayBeUnheard(r)' = MayBeUnheard(r)
          /\ Unresolved(r.by)' = Unresolved(r.by)
      BY <1>1, WireFacts DEF Awaited, MayBeUnheard, Unresolved
    <2> QED BY <1>1, <1>2, <1>3, <1>4, <1>6, <2>1 DEF SentOK, Tells, Improves, Uncommented
  <1>14. WireInv'
    BY <1>1, <1>13, WireFacts DEF WireInv
  <1> QED BY <1>10, <1>11, <1>12, <1>14 DEF PublicationInv

\* A review that GitHub carries out is the only one with any of its findings.
LEMMA ReviewApplied ==
  ASSUME PublicationInv, NEW r \in wire, Apply(r), r.kind = "review"
  PROVE  /\ r.lot \in Lot /\ <<r.by, r.lot>> \in Posts /\ sticky' = sticky
         /\ posted' \in [Posts -> {0, 1}] /\ posted[<<r.by, r.lot>>] = 0
         /\ posted'[<<r.by, r.lot>>] = 1
         /\ \A p \in Posts : p # <<r.by, r.lot>> => posted'[p] = posted[p]
  <1>1. /\ Types /\ r \in Request /\ r.by \in Attempt /\ SentOK(r) /\ r.at = "sent"
    BY WireFacts DEF Apply, Unheard
  <1>2. r.lot \in Lot /\ \A f \in r.lot : Uncommented(f)
    BY <1>1 DEF SentOK, Unresolved
  <1>3. PICK p \in Posts : p = <<r.by, r.lot>> /\ p[2] = r.lot
    <2>1. PICK b \in Attempt, l \in Lot : b = r.by /\ l = r.lot
      BY <1>1, <1>2
    <2> DEFINE p == <<b, l>>
    <2>2. p \in Posts /\ p[2] = l
      BY DEF Posts
    <2> QED BY <2>1, <2>2
  <1>4. posted[p] = 0
    <2>1. PICK f \in r.lot : TRUE
      BY <1>2 DEF Lot
    <2> QED BY <1>2, <1>3, <2>1 DEF Uncommented
  <1>5. sticky' = sticky /\ posted' = [posted EXCEPT ![p] = posted[p] + 1]
    BY <1>3 DEF Apply
  <1>6. posted \in [Posts -> {0, 1}]
    BY <1>1 DEF Types
  <1> QED BY <1>2, <1>3, <1>4, <1>5, <1>6

\* A summary that GitHub carries out is the only one afterwards.
LEMMA SummaryApplied ==
  ASSUME PublicationInv, NEW r \in wire, Apply(r), r.kind # "review"
  PROVE  /\ r.body \in Body /\ r.body # NoBody /\ r.body.pub = r.by
         /\ sticky[1] = NoBody \/ sticky[1].pub <= r.by
         /\ sticky' = [sticky EXCEPT ![1] = r.body] /\ posted' = posted
         /\ sticky' \in [1 .. 2 -> Body \cup {NoBody}]
         /\ sticky'[1] = r.body /\ sticky'[2] = NoBody
  <1>1. /\ Types /\ r \in Request /\ r.by \in Attempt /\ SentOK(r) /\ r.at = "sent"
        /\ sticky \in [1 .. 2 -> Body \cup {NoBody}] /\ sticky[2] = NoBody
    BY WireFacts DEF Apply, Unheard, Types
  <1>2. Improves(r.body, r.id) /\ r.body.pub = r.by /\ r.id = (IF r.kind = "create" THEN None ELSE 1)
    BY <1>1 DEF SentOK
  <1>3. r.body \in Body /\ (sticky[1] = NoBody \/ sticky[1].pub <= r.by)
    BY <1>2 DEF Improves
  <1>4. r.body # NoBody
    <2>1. r.body.pub # NoBody.pub
      BY <1>3 DEF Body, NoBody, None, Attempt
    <2> QED BY <2>1
  <1>5. sticky' = [sticky EXCEPT ![1] = r.body] /\ posted' = posted
    <2>1. CASE r.kind = "create"
      <3>1. Cardinality(Shown) = 0
        BY <1>1, <1>2, <2>1, SummaryIs DEF Improves
      <3>2. sticky' = [sticky EXCEPT ![Cardinality(Shown) + 1] = r.body] /\ posted' = posted
        BY <2>1 DEF Apply
      <3> QED BY <3>1, <3>2
    <2>2. CASE r.kind # "create"
      <3>1. r.id = 1
        BY <1>2, <2>2
      <3>2. sticky' = [sticky EXCEPT ![r.id] = r.body] /\ posted' = posted
        BY <2>2 DEF Apply
      <3> QED BY <3>1, <3>2
    <2> QED BY <2>1, <2>2
  <1> QED BY <1>1, <1>2, <1>3, <1>4, <1>5

\* Deliveries that did not send the request know nothing that it changes.
LEMMA ApplySparesOthers ==
  ASSUME PublicationInv, NEW r \in wire, NEW a \in Attempt, a # r.by,
         UNCHANGED <<state, item, note, batch, job, slot, handler>>
  PROVE  DeliveryOK(a)'
  <1>1. DeliveryOK(a) /\ slot.pending = r.by /\ r.by \in Attempt /\ r.by # None
    <2>1. DeliveryOK(a) /\ slot.pending = r.by
      BY WireFacts, DeliveryFacts DEF SentOK
    <2>2. PICK b \in Attempt : b = r.by
      BY WireFacts
    <2>3. b # None
      BY DEF Attempt, None
    <2> QED BY <2>1, <2>2, <2>3
  <1>2. SendsOK(a)'
    <2>1. handler[a].pc \notin {"send", "finish", "bsend"}
      BY <1>1 DEF DeliveryOK, RowsOK
    <2> QED BY <2>1 DEF SendsOK
  <1>3. InSlotOK(a)'
    <2>1. HasSlot(a)' = HasSlot(a)
      BY DEF HasSlot
    <2>2. HasSlot(a) => handler[a].pc \notin {"intent", "finish", "validate", "mark", "items",
                                             "batch", "bsend", "banswer"}
      BY <1>1 DEF DeliveryOK, RowsOK, InSlotOK
    <2>3. HasSlot(a) => ~(handler[a].pc = "recover" /\ handler[a].then = "validate")
      BY <1>1 DEF DeliveryOK, InSlotOK
    <2>4. /\ \/ handler[a].pc \in {"intent", "finish", "validate", "mark", "items", "batch"}
             \/ handler[a].pc = "recover" /\ handler[a].then \in {"items", "validate"}
             => (HasSlot(a) => slot.pending \in {None, a})
      BY <1>1 DEF DeliveryOK, InSlotOK
    <2> QED BY <2>1, <2>2, <2>3, <2>4 DEF InSlotOK
  <1> QED BY <1>1, <1>2, <1>3, GitHubMoves

\* The one that sent it has no doubts about the findings it has not sent yet.
LEMMA ApplySparesSender ==
  ASSUME PublicationInv, NEW r \in wire, Apply(r),
         UNCHANGED <<state, item, note, batch, job, slot, handler>>
  PROVE  DeliveryOK(r.by)'
  <1>1. PICK a \in Attempt : a = r.by
    BY WireFacts
  <1>2. /\ DeliveryOK(a) /\ handler[a] \in Handler /\ SentOK(r) /\ r.at = "sent"
        /\ MayBeUnheard(r) /\ Types
    BY <1>1, DeliveryFacts DEF SentOK, Apply, Unheard
  <1>3. /\ handler[a].pc \notin {"send", "finish", "bsend", "intent", "validate", "mark", "items",
                                 "batch"}
        /\ handler[a].pc = "recover" => handler[a].then = "check"
        /\ handler[a].pc = "banswer" => Awaited(r)
    BY <1>1, <1>2 DEF MayBeUnheard, Awaited
  <1>4. SendsOK(a)'
    BY <1>3 DEF SendsOK
  <1>5. InSlotOK(a)'
    <2>1. HasSlot(a)' = HasSlot(a)
      BY DEF HasSlot
    <2>2. ASSUME HasSlot(a), handler[a].pc = "banswer"
          PROVE  /\ handler[a].todo \cap handler[a].lot = {}
                 /\ \A f \in handler[a].todo : Uncommented(f)'
      <3>1. /\ r.kind = "review" /\ r.lot = handler[a].lot
            /\ handler[a].todo \cap handler[a].lot = {}
            /\ \A f \in handler[a].todo : Uncommented(f)
        BY <1>1, <1>2, <1>3, <2>2 DEF SentOK, DeliveryOK, InSlotOK
      <3>2. /\ <<r.by, r.lot>>[2] = r.lot
            /\ \A p \in Posts : p # <<r.by, r.lot>> => posted'[p] = posted[p]
        BY <3>1, ReviewApplied
      <3> QED BY <3>1, <3>2 DEF Uncommented
    <2> QED BY <1>3, <2>1, <2>2 DEF InSlotOK
  <1> QED BY <1>1, <1>2, <1>4, <1>5, GitHubMoves

\* A request that GitHub carries out keeps the invariant.
LEMMA ApplyKeepsInv ==
  ASSUME PublicationInv, NEW r \in wire, Apply(r), Smooth
  PROVE  PublicationInv'
  <1>1. /\ Types /\ PostInv /\ r \in Request /\ SentOK(r) /\ r.by \in Attempt
        /\ r.at = "sent" /\ Heard(r, "applied")
        /\ UNCHANGED <<state, item, note, batch, job, slot, handler, pr, faults>>
    BY WireFacts DEF Apply, rows, Unheard, Smooth
  <1>2. /\ wire' \subseteq Request /\ \A s, q \in wire' : s = q
        /\ \A s \in wire' : /\ Awaited(r) /\ s.at = "applied" /\ s.kind = r.kind
                            /\ s.by = r.by /\ s.id = r.id /\ s.try = r.try /\ s.body = r.body
                            /\ s.lot = r.lot
    <2>1. PICK at \in {"applied", "refused"} : at = "applied"
      OBVIOUS
    <2> QED BY <1>1, <2>1, HeardIs
  <1>3. Types'
    <2>1. CASE r.kind = "review"
      BY <1>1, <1>2, <2>1, ReviewApplied DEF Types
    <2>2. CASE r.kind # "review"
      BY <1>1, <1>2, <2>2, SummaryApplied DEF Types
    <2> QED BY <2>1, <2>2
  <1>4. PostInv'
    <2>1. CASE r.kind = "review"
      <3>1. PICK p \in Posts : /\ p = <<r.by, r.lot>> /\ p[1] = r.by /\ p[2] = r.lot
        BY <2>1, ReviewApplied
      <3>2. /\ posted[p] = 0 /\ posted'[p] = 1
            /\ \A q \in Posts : q # p => posted'[q] = posted[q]
        BY <2>1, <3>1, ReviewApplied
      <3>3. /\ batch[p[1]][p[2]] \in {"publishing", "uncertain"}
            /\ \A f \in p[2] : \A q \in Posts : f \in q[2] => posted[q] = 0
        BY <1>1, <2>1, <3>1 DEF SentOK, Unresolved, Uncommented
      <3>4. PostedIsAccounted'
        BY <1>1, <3>2, <3>3 DEF PostInv, PostedIsAccounted
      <3>5. \A q, s \in Posts : q[2] \cap s[2] # {} /\ posted'[q] > 0 /\ posted'[s] > 0 => q = s
        <4> SUFFICES ASSUME NEW q \in Posts, NEW s \in Posts, NEW f \in q[2], f \in s[2],
                            posted'[q] > 0, posted'[s] > 0, q # s
                     PROVE  FALSE
          OBVIOUS
        <4>1. CASE q # p /\ s # p
          BY <1>1, <3>2, <4>1 DEF PostInv
        <4>2. CASE q = p \/ s = p
          BY <3>2, <3>3, <4>2
        <4> QED BY <4>1, <4>2
      <3>6. \A a \in Attempt : \A f \in Finding : item[a][f] = "published" => ~Uncommented(f)'
        BY <1>1, <3>2 DEF PostInv, Uncommented
      <3> QED BY <1>1, <3>4, <3>5, <3>6 DEF PostInv
    <2>2. CASE r.kind # "review"
      BY <1>1, <2>2, SummaryApplied DEF PostInv, PostedIsAccounted, Uncommented
    <2> QED BY <2>1, <2>2
  <1>5. \A a \in Attempt : DeliveryOK(a)'
    BY <1>1, ApplySparesOthers, ApplySparesSender
  <1>6. ASSUME NEW s \in wire'
        PROVE  SentOK(s)'
    <2>1. /\ Awaited(r) /\ s.at = "applied" /\ s.kind = r.kind /\ s.by = r.by /\ s.id = r.id
          /\ s.try = r.try /\ s.body = r.body /\ s.lot = r.lot
      BY <1>2
    <2>2. Awaited(s)' /\ Unresolved(s.by)' = Unresolved(r.by)
      BY <1>1, <2>1 DEF Awaited, Unresolved
    <2>3. CASE r.kind = "review"
      <3>1. posted'[<<s.by, s.lot>>] = 1
        BY <2>1, <2>3, ReviewApplied
      <3> QED BY <1>1, <2>1, <2>2, <2>3, <3>1 DEF SentOK
    <2>4. CASE r.kind # "review"
      <3>1. Tells(s.body)'
        BY <2>1, <2>4, SummaryApplied DEF Tells
      <3> QED BY <1>1, <2>1, <2>2, <2>4, <3>1 DEF SentOK
    <2> QED BY <2>3, <2>4
  <1>7. WireInv'
    BY <1>2, <1>6 DEF WireInv
  <1> QED BY <1>3, <1>4, <1>5, <1>7 DEF PublicationInv

-----------------------------------------------------------------------------
(* The invariant *)

\* What the code starts from.
LEMMA InitEstablishesInv ==
  ASSUME Init
  PROVE  PublicationInv
  <1>1. Idle \in Handler
    <2>1. "none" \in Pc /\ "none" \in Err
      BY DEF Pc, Err
    <2> QED BY <2>1 DEF Idle, Handler, None
  <1>2. slot \in Slot
    BY PublicationAssumption DEF Init, Slot, NoHolder, None
  <1>3. /\ state \in [Attempt -> AttemptState] /\ job \in [Attempt -> JobRow]
        /\ handler \in [Attempt -> Handler]
    BY <1>1 DEF Init, AttemptState, JobRow
  <1>4. /\ item \in [Attempt -> [Finding -> ItemState]] /\ note \in [Attempt -> Note]
        /\ batch \in [Attempt -> [Lot -> ItemState \cup {"none"}]]
    BY DEF Init, ItemState, Note
  <1>5. /\ wire \subseteq Request /\ posted \in [Posts -> {0, 1}]
        /\ sticky \in [1 .. 2 -> Body \cup {NoBody}] /\ sticky[2] = NoBody
        /\ pr \in [current : BOOLEAN, open : [Attempt -> BOOLEAN]] /\ faults \in 0 .. FaultCap
    BY PublicationAssumption DEF Init
  <1>6. Types
    BY <1>2, <1>3, <1>4, <1>5 DEF Types, Init, None
  <1>7. WireInv
    BY DEF Init, WireInv
  <1>8. PostInv
    BY DEF Init, PostInv, PostedIsAccounted
  <1>9. ASSUME NEW a \in Attempt
        PROVE  DeliveryOK(a)
    <2>1. /\ handler[a] = Idle /\ state[a] = "absent" /\ note[a].state = "pending"
          /\ job[a] = [status |-> "none", live |-> FALSE, tries |-> 0, max |-> 0]
          /\ slot.holder = <<0, 0>>
      BY DEF Init, NoHolder, None
    <2>2. JobOK(a)
      BY <2>1 DEF JobOK, Idle
    <2>3. ProgressOK(a) /\ RowsOK(a) /\ SendsOK(a) /\ ItemsOK(a)
      BY <2>1 DEF ProgressOK, RowsOK, SendsOK, ItemsOK, Idle, Resolved, Summarizing
    <2>4. InSlotOK(a)
      BY <2>1 DEF InSlotOK, Idle
    <2> QED BY <2>2, <2>3, <2>4 DEF DeliveryOK
  <1> QED BY <1>6, <1>7, <1>8, <1>9 DEF PublicationInv

\* Nothing happens to what the invariant speaks of.
LEMMA StutterKeepsInv ==
  ASSUME PublicationInv, UNCHANGED vars
  PROVE  PublicationInv'
  <1>1. UNCHANGED <<state, item, note, batch, job, slot, handler, wire, sticky, posted, pr, faults>>
    BY DEF vars, rows, github
  <1>2. Types'
    BY <1>1, WireFacts DEF Types
  <1>3. PostInv'
    BY <1>1, WireFacts DEF PostInv, PostedIsAccounted, Uncommented
  <1>4. ASSUME NEW a \in Attempt
        PROVE  StaysFor(a)
    BY <1>1 DEF StaysFor, HasSlot
  <1>5. \A a \in Attempt : DeliveryOK(a)'
    BY <1>1, <1>4, StayingIsOK DEF PublicationInv
  <1>6. \A r \in wire : SentOK(r)'
    BY <1>1, <1>4, StayingRequestIsOK, WireFacts
  <1> QED BY <1>1, <1>2, <1>3, <1>5, <1>6, WireFacts DEF PublicationInv, WireInv

\* Every step keeps the invariant.
LEMMA NextKeepsInv ==
  ASSUME PublicationInv, [Next]_vars
  PROVE  PublicationInv'
  <1>1. ASSUME NEW a \in Attempt, User(a) \/ Deliver(a), Smooth
        PROVE  PublicationInv'
    <2>1. CASE User(a)
      BY <1>1, <2>1, UserKeepsInv
    <2>2. CASE Claim(a) \/ Acquire(a) \/ Begin(a) \/ FindsLeaseLost(a)
      BY <1>1, <2>2, ClaimKeepsInv, AcquireKeepsInv, BeginKeepsInv, LostKeepsInv
    <2>3. CASE Reconcile(a) \/ Recover(a) \/ Upsert(a) \/ Intent(a)
      BY <1>1, <2>3, ReconcileKeepsInv, RecoverKeepsInv, UpsertKeepsInv, IntentKeepsInv
    <2>4. CASE Send(a) \/ Finish(a) \/ Validate(a) \/ Mark(a)
      BY <1>1, <2>4, SendKeepsInv, FinishKeepsInv, ValidateKeepsInv, MarkKeepsInv
    <2>5. CASE Items(a) \/ Batch(a) \/ GitHubError(a)
      BY <1>1, <2>5, ItemsKeepsInv, BatchKeepsInv, GitHubErrorKeepsInv
    <2>6. CASE OtherError(a) \/ Leave(a) \/ Settle(a)
      BY <1>1, <2>6, OtherErrorKeepsInv, LeaveKeepsInv, SettleKeepsInv
    <2> QED BY <1>1, <2>1, <2>2, <2>3, <2>4, <2>5, <2>6 DEF Deliver
  <1>2. ASSUME NEW a \in Attempt, Check(a) \/ SummaryAnswer(a) \/ BatchAnswer(a)
        PROVE  PublicationInv'
    BY <1>2, CheckKeepsInv, SummaryAnswerKeepsInv, BatchAnswerKeepsInv
  <1>3. ASSUME NEW a \in Attempt, Fault(a)
        PROVE  PublicationInv'
    BY <1>3, ReadFailsKeepsInv, DeliveryCrashKeepsInv, StallKeepsInv, ShutdownKeepsInv, OutsideKeepsInv
       DEF Fault
  <1>4. ASSUME NEW r \in wire, Refuse(r) \/ ((Apply(r) \/ Lose(r)) /\ Smooth)
        PROVE  PublicationInv'
    BY <1>4, RefuseKeepsInv, ApplyKeepsInv
  <1>5. ASSUME NEW c \in 1 .. 2, Edit(c)
        PROVE  PublicationInv'
    BY <1>5, EditKeepsInv
  <1>6. CASE SlotExpires \/ HeadMoves
    BY <1>6, OutsideKeepsInv
  <1>7. CASE UNCHANGED vars
    BY <1>7, StutterKeepsInv
  <1> QED BY <1>1, <1>2, <1>3, <1>4, <1>5, <1>6, <1>7 DEF Next

\* The slot of a pull request, the requests to GitHub and every step of a
\* delivery agree with each other: at most one request is under way, it holds
\* the slot, and whoever sent it is where it cannot take it for refused.
THEOREM PublicationInvariance == PublicationSpec => []PublicationInv
  <1> QED BY InitEstablishesInv, NextKeepsInv, PTL DEF PublicationSpec

-----------------------------------------------------------------------------
(* What follows for users *)

\* The types of the model, from those of the invariant.
THEOREM PublicationTypes == PublicationSpec => []PublicationTypeOK
  <1>1. PublicationInv => PublicationTypeOK
    <2> SUFFICES ASSUME PublicationInv
                 PROVE  PublicationTypeOK
      OBVIOUS
    <2>1. Types
      BY DEF PublicationInv
    <2>2. \A n \in Note : n \in [state : ItemState, body : Body \cup {NoBody}]
      BY DEF Note, ItemState
    <2>3. \A a \in Attempt :
             /\ DOMAIN handler[a] = DOMAIN Idle
             /\ handler[a].pc \in Pc /\ handler[a].err \in Err
             /\ handler[a].lot \subseteq Finding /\ handler[a].todo \subseteq Finding
      BY <2>1 DEF Types, Handler, Idle
    <2>4. slot \in [holder : (0 .. Attempts) \X Nat, live : BOOLEAN,
                    comment : 0 .. 2, latest : Attempt \cup {None},
                    hash : Body \cup {NoBody}, pending : Attempt \cup {None}]
      BY <2>1 DEF Types, Slot
    <2>5. posted \in [Posts -> 0 .. 2]
      BY <2>1 DEF Types
    <2>6. job \in [Attempt ->
            [status : {"none", "queued", "retry", "leased", "completed", "dead"},
             live : BOOLEAN, tries : Nat, max : Nat]]
      BY <2>1 DEF Types, JobRow
    <2>7. note \in [Attempt -> [state : ItemState, body : Body \cup {NoBody}]]
      BY <2>1, <2>2 DEF Types
    <2> QED BY <2>1, <2>3, <2>4, <2>5, <2>6, <2>7 DEF PublicationTypeOK, Types
  <1> QED BY <1>1, PublicationInvariance, PTL

\* A request that GitHub may still carry out holds the slot of the pull
\* request for its attempt, whatever became of the process that sent it: no
\* other delivery can write before it is known what became of the request
\* (summary_intent and prepare_batch before, finish after the request).
THEOREM UnknownHoldsSlotTheorem == PublicationSpec => []UnknownHoldsSlot
  <1>1. PublicationInv => UnknownHoldsSlot
    <2> SUFFICES ASSUME PublicationInv
                 PROVE  UnknownHoldsSlot
      OBVIOUS
    <2>1. \A r \in Unheard : slot.pending = r.by
      BY WireFacts DEF Unheard, SentOK
    <2>2. \A a \in Attempt : note[a].state = "publishing" => slot.pending = a
      BY DEF PublicationInv, DeliveryOK, RowsOK
    <2> QED BY <2>1, <2>2 DEF UnknownHoldsSlot
  <1> QED BY <1>1, PublicationInvariance, PTL

\* Every comment that a review of GitHub carries is known to the attempt that
\* sent it or is still being looked for (recover_batches): what is stored as
\* failed is not on the pull request, so trying it again cannot show it twice
\* (summary_rejected, finish_batch).
THEOREM PostedIsAccountedTheorem == PublicationSpec => []PostedIsAccounted
  <1>1. PublicationInv => PostedIsAccounted
    BY DEF PublicationInv, PostInv
  <1> QED BY <1>1, PublicationInvariance, PTL

\* Only execute's last step stores success, after the summary of the phase
\* Published.
LEMMA SucceedsInMark ==
  ASSUME Next, NEW a \in Attempt, state'[a] = "succeeded", state[a] # "succeeded",
         state \in [Attempt -> AttemptState]
  PROVE  Mark(a) /\ handler[a].phase = "Published" /\ Locked(a) /\ At(a, "mark")
  <1>1. ASSUME NEW b \in Attempt,
               Claim(b) \/ Acquire(b) \/ Reconcile(b) \/ Recover(b) \/ Upsert(b) \/ Intent(b) \/ Send(b)
        PROVE  state' = state
    BY <1>1 DEF Claim, Acquire, Reconcile, Recover, Upsert, Intent, Send, rows
  <1>2. ASSUME NEW b \in Attempt,
               Finish(b) \/ Validate(b) \/ Items(b) \/ Batch(b) \/ FindsLeaseLost(b) \/ Leave(b) \/ Settle(b)
        PROVE  state' = state
    BY <1>2 DEF Finish, Validate, Items, Batch, FindsLeaseLost, Leave, Settle, rows
  <1>3. ASSUME NEW b \in Attempt, Check(b) \/ SummaryAnswer(b) \/ BatchAnswer(b)
        PROVE  state' = state
    BY <1>3 DEF Check, SummaryAnswer, BatchAnswer, rows
  <1>4. ASSUME NEW b \in Attempt, Fault(b)
        PROVE  state' = state
    BY <1>4 DEF Fault, ReadFails, Crash, Stall, Shutdown, ReviewWithdrawn, rows
  <1>5. ASSUME \/ \E r \in wire : Apply(r) \/ Lose(r) \/ Refuse(r)
               \/ \E k \in 1 .. 2 : Edit(k)
               \/ SlotExpires \/ HeadMoves
        PROVE  state' = state
    BY <1>5 DEF Apply, Lose, Refuse, Edit, SlotExpires, HeadMoves, rows
  <1>6. PICK b \in Attempt : User(b) \/ Begin(b) \/ Mark(b) \/ GitHubError(b) \/ OtherError(b)
    BY <1>1, <1>2, <1>3, <1>4, <1>5 DEF Next, Deliver
  <1>7. CASE User(b) \/ Begin(b)
    BY <1>7 DEF User, Preview, Create, Retry, Begin
  <1>8. CASE GitHubError(b) \/ OtherError(b)
    BY <1>8 DEF GitHubError, OtherError, Ended
  <1>9. CASE Mark(b)
    BY <1>9 DEF Mark
  <1> QED BY <1>6, <1>7, <1>8, <1>9

\* A delivery ends as succeeded only with every finding accounted for, and
\* with the summary on the pull request saying exactly so (execute).
THEOREM SuccessIsVisibleTheorem == PublicationSpec => SuccessIsVisible
  <1>1. ASSUME PublicationInv, [Next]_vars, NEW a \in Attempt,
               state'[a] = "succeeded", state[a] # "succeeded"
        PROVE  /\ slot.comment \in Shown
               /\ LET b == sticky[slot.comment] IN
                  /\ b.pub = a /\ b.phase = "Published"
                  /\ \A f \in Finding :
                        \/ item[a][f] = "summary_only" /\ f \in b.fallback
                        \/ /\ item[a][f] = "published" /\ CommentsOn(f) = 1
                           /\ b.told[f] = "published"
    <2>1. Types /\ PostInv /\ DeliveryOK(a)
      BY <1>1, WireFacts, DeliveryFacts
    <2>2. Next
      BY <1>1 DEF vars, rows
    <2>3. handler[a].phase = "Published" /\ HasSlot(a) /\ handler[a].pc = "mark"
      BY <1>1, <2>1, <2>2, SucceedsInMark DEF Types, Locked, HasSlot, At
    <2>4. /\ slot.comment = 1 /\ Tells(Composed(a, handler[a].fallback))
          /\ Done(a, {})
      BY <2>1, <2>3 DEF DeliveryOK, InSlotOK, ItemsOK, Summarizing
    <2>5. /\ sticky[1] # NoBody /\ sticky[1].pub = a /\ sticky[1].phase = "Published"
          /\ sticky[1].fallback = handler[a].fallback
          /\ sticky[1].told = [f \in Finding |->
                IF item[a][f] \in Counted THEN item[a][f] ELSE "other"]
      BY <2>3, <2>4 DEF Tells, Composed
    <2>6. slot.comment \in Shown
      BY <2>1, <2>4, <2>5, SummaryIs
    <2>7. ASSUME NEW f \in Finding
          PROVE  \/ item[a][f] = "summary_only" /\ f \in sticky[1].fallback
                 \/ /\ item[a][f] = "published" /\ CommentsOn(f) = 1
                    /\ sticky[1].told[f] = "published"
      <3>1. CASE f \in handler[a].fallback
        BY <2>4, <2>5, <3>1 DEF Done
      <3>2. CASE f \notin handler[a].fallback
        <4>1. item[a][f] = "published"
          BY <2>4, <3>2 DEF Done
        <4>2. CommentsOn(f) = 1
          BY <2>1, <4>1, CommentsIs DEF PostInv
        <4>3. sticky[1].told[f] = "published"
          BY <2>5, <4>1 DEF Counted
        <4> QED BY <4>1, <4>2, <4>3
      <3> QED BY <3>1, <3>2
    <2> QED BY <2>4, <2>5, <2>6, <2>7
  <1>2. ASSUME PublicationInv, [Next]_vars
        PROVE  \A a \in Attempt :
                  state'[a] = "succeeded" /\ state[a] # "succeeded" =>
                    /\ slot.comment \in Shown
                    /\ LET b == sticky[slot.comment] IN
                       /\ b.pub = a /\ b.phase = "Published"
                       /\ \A f \in Finding :
                             \/ item[a][f] = "summary_only" /\ f \in b.fallback
                             \/ /\ item[a][f] = "published" /\ CommentsOn(f) = 1
                                /\ b.told[f] = "published"
    BY <1>1, <1>2
  <1> QED BY <1>2, PublicationInvariance, PTL DEF PublicationSpec, SuccessIsVisible

-----------------------------------------------------------------------------
(* Publication keeps PublicationPromise *)

\* What a pull request shows, as the promise sees it.
shownComments == [f \in Finding |-> CommentsOn(f)]
toldOf == {f \in Finding : \E a \in Attempt : item[a][f] = "published"}
shownSummary == IF Cardinality(Shown) > 1 THEN -1 ELSE SummaryOrder

\* Each finding has one comment or none, and those told of have one.
ShownOK ==
    /\ shownComments = [f \in Finding |-> IF Uncommented(f) THEN 0 ELSE 1]
    /\ shownSummary = (IF sticky[1] = NoBody THEN 0 ELSE sticky[1].pub)
    /\ toldOf \subseteq {f \in Finding : shownComments[f] = 1}

\* That is what the invariant says of the pull request.
LEMMA ShownIs == Types /\ PostInv => ShownOK
  <1> SUFFICES ASSUME Types, PostInv
               PROVE  ShownOK
    OBVIOUS
  <1>1. shownComments = [f \in Finding |-> IF Uncommented(f) THEN 0 ELSE 1]
    BY CommentsIs DEF shownComments
  <1>2. shownSummary = (IF sticky[1] = NoBody THEN 0 ELSE sticky[1].pub)
    BY SummaryIs DEF shownSummary, None
  <1>3. toldOf \subseteq {f \in Finding : shownComments[f] = 1}
    BY <1>1 DEF toldOf, PostInv
  <1> QED BY <1>1, <1>2, <1>3 DEF ShownOK

\* Only GitHub changes what it shows.
LEMMA OnlyGitHubShows ==
  ASSUME [Next]_vars
  PROVE  \/ UNCHANGED <<sticky, posted>>
         \/ \E r \in wire : Apply(r)
         \/ \E c \in 1 .. 2 : Edit(c)
  <1>1. CASE UNCHANGED vars
    BY <1>1 DEF vars, github
  <1>2. ASSUME NEW a \in Attempt, User(a) \/ Deliver(a)
        PROVE  UNCHANGED <<sticky, posted>>
    BY <1>2 DEF User, Deliver, Preview, Create, Retry, Claim, Acquire, Begin, Reconcile, Recover,
         Upsert, Intent, Send, Finish, Validate, Mark, Items, Batch, FindsLeaseLost, GitHubError,
         OtherError, Leave, Settle, github
  <1>3. ASSUME NEW a \in Attempt, Check(a) \/ SummaryAnswer(a) \/ BatchAnswer(a) \/ Fault(a)
        PROVE  UNCHANGED <<sticky, posted>>
    BY <1>3 DEF Check, SummaryAnswer, BatchAnswer, Fault, ReadFails, Crash, Stall, Shutdown,
         ReviewWithdrawn, github
  <1>4. ASSUME NEW r \in wire, Lose(r) \/ Refuse(r)
        PROVE  UNCHANGED <<sticky, posted>>
    BY <1>4 DEF Lose, Refuse
  <1>5. CASE SlotExpires \/ HeadMoves
    BY <1>5 DEF SlotExpires, HeadMoves, github
  <1> QED BY <1>1, <1>2, <1>3, <1>4, <1>5 DEF Next

\* The promise, read with what the pull request shows.
PromiseStep ==
    \/ /\ UNCHANGED <<toldOf, shownSummary>>
       /\ shownComments' \in [Finding -> {0, 1}]
       /\ \A f \in Finding : shownComments[f] > 0 => shownComments'[f] = shownComments[f]
    \/ /\ toldOf' \in SUBSET {f \in Finding : shownComments[f] = 1}
       /\ UNCHANGED <<shownComments, shownSummary>>
    \/ /\ shownSummary' \in Nat
       /\ shownSummary' >= shownSummary \/ shownSummary' = 0
       /\ UNCHANGED <<shownComments, toldOf>>

\* Every step is one of the promise.
LEMMA StepsKeepPromise ==
  ASSUME PublicationInv, PublicationInv', [Next]_vars
  PROVE  PromiseStep
  <1>1. /\ shownComments = [f \in Finding |-> IF Uncommented(f) THEN 0 ELSE 1]
        /\ shownSummary = (IF sticky[1] = NoBody THEN 0 ELSE sticky[1].pub)
    BY WireFacts, ShownIs DEF ShownOK
  <1>2. /\ Types' /\ PostInv'
        /\ shownComments' = [f \in Finding |-> IF Uncommented(f)' THEN 0 ELSE 1]
        /\ shownSummary' = (IF sticky'[1] = NoBody THEN 0 ELSE sticky'[1].pub)
        /\ toldOf' \subseteq {f \in Finding : shownComments'[f] = 1}
    <2>1. Types' /\ PostInv'
      BY DEF PublicationInv
    <2>2. ShownOK'
      BY <2>1, ShownIs, PTL
    <2> QED BY <2>1, <2>2 DEF ShownOK
  <1>3. CASE UNCHANGED <<sticky, posted>>
    <2>1. shownComments' = shownComments /\ shownSummary' = shownSummary
      BY <1>1, <1>2, <1>3 DEF Uncommented
    <2> QED BY <1>2, <2>1 DEF PromiseStep
  <1>4. ASSUME NEW r \in wire, Apply(r), r.kind = "review"
        PROVE  PromiseStep
    <2>1. UNCHANGED <<toldOf, shownSummary>>
      BY <1>1, <1>2, <1>4, ReviewApplied DEF Apply, rows, toldOf
    <2>2. \A f \in Finding : Uncommented(f)' => Uncommented(f)
      BY <1>4, ReviewApplied DEF Uncommented
    <2> QED BY <1>1, <1>2, <2>1, <2>2 DEF PromiseStep
  <1>5. ASSUME NEW r \in wire, Apply(r), r.kind # "review"
        PROVE  PromiseStep
    <2>1. UNCHANGED <<toldOf, shownComments>>
      BY <1>1, <1>2, <1>5, SummaryApplied DEF Apply, rows, toldOf, Uncommented
    <2>2. PICK b \in Attempt : b = r.by
      BY WireFacts
    <2>3. shownSummary' = b /\ (sticky[1] = NoBody \/ sticky[1].pub <= b)
      BY <1>2, <1>5, <2>2, SummaryApplied
    <2>4. b \in Nat /\ shownSummary <= b
      BY <1>1, <2>3 DEF Attempt
    <2> QED BY <2>1, <2>3, <2>4 DEF PromiseStep
  <1>6. ASSUME NEW c \in 1 .. 2, Edit(c)
        PROVE  PromiseStep
    <2>1. /\ c = 1 /\ sticky[1] # NoBody
          /\ sticky' = [sticky EXCEPT ![1].edited = TRUE] /\ posted' = posted
      BY <1>6, WireFacts, SummaryIs DEF Edit
    <2>2. sticky[1] \in Body /\ sticky \in [1 .. 2 -> Body \cup {NoBody}]
      BY <2>1, WireFacts DEF Types
    <2>3. sticky'[1].pub = sticky[1].pub
      BY <2>1, <2>2 DEF Body
    <2>4. sticky'[1] # NoBody
      <3>1. PICK p \in Attempt : p = sticky[1].pub
        BY <2>2 DEF Body
      <3>2. p # NoBody.pub
        BY DEF NoBody, Attempt, None
      <3> QED BY <2>3, <3>1, <3>2
    <2>5. shownSummary' = shownSummary /\ shownComments' = shownComments
      BY <1>1, <1>2, <2>1, <2>3, <2>4 DEF Uncommented
    <2> QED BY <1>2, <2>5 DEF PromiseStep
  <1> QED BY <1>3, <1>4, <1>5, <1>6, OnlyGitHubShows

\* Publication keeps the promise of PublicationPromise: no finding is
\* commented twice, no item is stored as published that is not there, one
\* summary at most, and never back to an earlier review.
THEOREM KeepsPromiseTheorem == PublicationSpec => KeepsPromise
  <1>1. Init => Promise!PromiseInit
    <2> SUFFICES ASSUME Init
                 PROVE  Promise!PromiseInit
      OBVIOUS
    <2>1. Types /\ PostInv
      BY InitEstablishesInv, WireFacts
    <2>2. /\ shownComments = [f \in Finding |-> IF Uncommented(f) THEN 0 ELSE 1]
          /\ shownSummary = (IF sticky[1] = NoBody THEN 0 ELSE sticky[1].pub)
      BY <2>1, ShownIs DEF ShownOK
    <2>3. toldOf = {} /\ sticky[1] = NoBody /\ \A f \in Finding : Uncommented(f)
      BY DEF Init, toldOf, Uncommented
    <2> QED BY <2>2, <2>3 DEF Promise!PromiseInit, shownComments, shownSummary, toldOf
  <1>2. PublicationInv /\ PublicationInv' /\ [Next]_vars
           => [Promise!Comment \/ Promise!Record \/ Promise!Summarize]_Promise!promiseVars
    <2>1. PromiseStep => Promise!Comment \/ Promise!Record \/ Promise!Summarize
      BY DEF PromiseStep, Promise!Comment, Promise!Record, Promise!Summarize, shownComments,
             shownSummary, toldOf
    <2> QED BY <2>1, StepsKeepPromise
  <1> QED BY <1>1, <1>2, PublicationInvariance, PTL
       DEF PublicationSpec, KeepsPromise, Promise!PromiseSpec
=============================================================================
