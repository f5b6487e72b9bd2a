---------------------------- MODULE BudgetProofs ----------------------------
(***************************************************************************)
(* Proofs about BudgetGate, for any number of units and candidates, any    *)
(* limits and estimates, and any number of grants and retries.             *)
(***************************************************************************)
EXTENDS BudgetGate, WellFoundedInduction, NaturalsInduction, FiniteSetTheorems, TLAPS

-----------------------------------------------------------------------------
(* Induction *)

\* A set of numbers with 0 that is closed under successors has them all.
LEMMA Induction ==
  ASSUME NEW S, 0 \in S, \A n \in Nat : n \in S => n + 1 \in S
  PROVE  Nat \subseteq S
  <1> DEFINE rest == {n \in Nat : n \notin S}
  <1>1. SUFFICES ASSUME rest # {} PROVE FALSE
    OBVIOUS
  <1>2. PICK m \in rest : \A n \in rest : ~(<<n, m>> \in OpToRel(<, Nat))
    BY <1>1, NatLessThanWellFounded, WFMin
  <1>3. m \in Nat /\ m # 0
    OBVIOUS
  <1>4. m - 1 \in Nat /\ m - 1 < m /\ m = (m - 1) + 1
    BY <1>3
  <1>5. m - 1 \notin rest
    BY <1>2, <1>3, <1>4 DEF OpToRel
  <1> QED BY <1>3, <1>4, <1>5

\* A function on an interval that is defined by recursion exists.
LEMMA Recursion ==
  ASSUME NEW D, NEW a \in D, NEW k \in Nat, NEW G \in [1 .. k -> [D -> D]]
  PROVE  \E f \in [0 .. k -> D] : f[0] = a /\ \A i \in 1 .. k : f[i] = G[i][f[i - 1]]
  <1> DEFINE Ok(n, f) == f[0] = a /\ \A i \in 1 .. n : f[i] = G[i][f[i - 1]]
             S == {n \in Nat : n <= k => \E f \in [0 .. n -> D] : Ok(n, f)}
  <1>1. 0 \in S
    <2>1. [i \in 0 .. 0 |-> a] \in [0 .. 0 -> D] /\ Ok(0, [i \in 0 .. 0 |-> a])
      OBVIOUS
    <2> QED BY <2>1
  <1>2. ASSUME NEW n \in Nat, n \in S PROVE n + 1 \in S
    <2>1. CASE n + 1 <= k
      <3>1. PICK f \in [0 .. n -> D] : Ok(n, f)
        BY <1>2, <2>1
      <3> DEFINE g == [i \in 0 .. n + 1 |-> IF i = n + 1 THEN G[n + 1][f[n]] ELSE f[i]]
      <3>2. G[n + 1] \in [D -> D] /\ f[n] \in D
        BY <2>1, <3>1
      <3>3. g \in [0 .. n + 1 -> D]
        BY <3>1, <3>2
      <3>4. g[0] = a
        BY <3>1
      <3>5. ASSUME NEW i \in 1 .. n + 1 PROVE g[i] = G[i][g[i - 1]]
        <4>1. CASE i = n + 1
          BY <4>1
        <4>2. CASE i # n + 1
          BY <3>1, <4>2
        <4> QED BY <4>1, <4>2
      <3> HIDE DEF g
      <3>6. Ok(n + 1, g)
        BY <3>4, <3>5
      <3> QED BY <3>3, <3>6
    <2>2. CASE ~(n + 1 <= k)
      BY <2>2
    <2> QED BY <2>1, <2>2
  <1> HIDE DEF S
  <1>3. k \in S
    BY <1>1, <1>2, Induction
  <1> QED BY <1>3 DEF S

-----------------------------------------------------------------------------
(* Sums *)

\* The sums of the first rows.
Sums(s, rows) == /\ s[0] = 0
                 /\ \A n \in 1 .. Len(rows) : s[n] = s[n - 1] + Cost(rows[n])

\* What a row counts with is a number.
LEMMA CostType == \A r \in Request : Cost(r) \in Nat
  BY DEF Cost, Request

\* The total is the last of those sums.
LEMMA TotalDef ==
  ASSUME NEW rows \in Seq(Request)
  PROVE  \E s \in [0 .. Len(rows) -> Nat] : Sums(s, rows) /\ Total(rows) = s[Len(rows)]
  <1>1. PICK k \in Nat : k = Len(rows)
    OBVIOUS
  <1>2. \A n \in 1 .. k : rows[n] \in Request /\ Cost(rows[n]) \in Nat
    BY <1>1, CostType
  <1> DEFINE Rec(s) == s = [n \in 0 .. Len(rows) |->
                              IF n = 0 THEN 0 ELSE s[n - 1] + Cost(rows[n])]
  <1>3. PICK D : D = Nat
    OBVIOUS
  <1>4. PICK a \in D : a = 0
    BY <1>3
  <1>5. PICK G \in [1 .. k -> [D -> D]] :
             G = [n \in 1 .. k |-> [x \in D |-> x + Cost(rows[n])]]
    <2>1. \A n \in 1 .. k : [x \in D |-> x + Cost(rows[n])] \in [D -> D]
      <3> TAKE n \in 1 .. k
      <3>1. Cost(rows[n]) \in Nat
        BY <1>2
      <3> QED BY <1>3, <3>1
    <2>2. [n \in 1 .. k |-> [x \in D |-> x + Cost(rows[n])]] \in [1 .. k -> [D -> D]]
      BY <2>1
    <2> QED BY <2>2, Zenon
  <1>6. PICK f \in [0 .. k -> D] : f[0] = a /\ \A n \in 1 .. k : f[n] = G[n][f[n - 1]]
    BY Recursion
  <1>7. f \in [0 .. k -> Nat] /\ f[0] = 0 /\ \A n \in 1 .. k : f[n] = G[n][f[n - 1]]
    BY <1>3, <1>4, <1>6
  <1>8. ASSUME NEW n \in 1 .. k PROVE f[n] = f[n - 1] + Cost(rows[n])
    <2>1. n - 1 \in 0 .. k
      OBVIOUS
    <2>2. f[n - 1] \in Nat
      BY <1>7, <2>1
    <2> QED BY <1>3, <1>5, <1>7, <2>2
  <1>9. Rec(f)
    <2>1. \A n \in 0 .. k : f[n] = IF n = 0 THEN 0 ELSE f[n - 1] + Cost(rows[n])
      BY <1>7, <1>8
    <2> QED BY <1>1, <2>1
  <1>10. Total(rows) = (CHOOSE s : Rec(s))[Len(rows)]
    BY DEF Total
  <1>11. PICK r : r = (CHOOSE s : Rec(s))
    OBVIOUS
  <1>12. Rec(r)
    BY <1>9, <1>11
  <1>13. r[0] = 0 /\ \A n \in 1 .. k : r[n] = r[n - 1] + Cost(rows[n])
    <2>1. \A n \in 0 .. k : r[n] = IF n = 0 THEN 0 ELSE r[n - 1] + Cost(rows[n])
      BY <1>1, <1>12
    <2>2. 0 \in 0 .. k
      OBVIOUS
    <2>3. r[0] = IF 0 = 0 THEN 0 ELSE r[0 - 1] + Cost(rows[0])
      BY <2>1, <2>2, Zenon
    <2>4. \A n \in 1 .. k : n \in 0 .. k /\ n # 0
      OBVIOUS
    <2> QED BY <2>1, <2>3, <2>4
  \* the equations of r determine it, so it has the type of f
  <1>14. \A n \in 0 .. k : r[n] = f[n]
    <2> DEFINE S == {n \in Nat : n <= k => r[n] = f[n]}
    <2>1. 0 \in S
      BY <1>7, <1>13
    <2>2. ASSUME NEW n \in Nat, n \in S PROVE n + 1 \in S
      <3>1. CASE n + 1 <= k
        <4>1. n + 1 \in 1 .. k /\ (n + 1) - 1 = n
          BY <3>1
        <4>2. r[n + 1] = r[n] + Cost(rows[n + 1]) /\ f[n + 1] = f[n] + Cost(rows[n + 1])
          BY <1>8, <1>13, <4>1
        <4> QED BY <2>2, <3>1, <4>2
      <3> QED BY <3>1
    <2> HIDE DEF S
    <2>3. Nat \subseteq S
      BY <2>1, <2>2, Induction
    <2> QED BY <2>3 DEF S
  <1> HIDE DEF Rec
  <1>15. Total(rows) = f[k]
    BY <1>1, <1>10, <1>11, <1>14
  <1> QED BY <1>1, <1>7, <1>8, <1>15 DEF Sums

\* Rows that each count with no more sum up to no more.
LEMMA SumsCompare ==
  ASSUME NEW rows \in Seq(Request), NEW more \in Seq(Request),
         NEW s \in [0 .. Len(rows) -> Nat], NEW t \in [0 .. Len(more) -> Nat],
         Sums(s, rows), Sums(t, more), Len(rows) <= Len(more),
         \A n \in 1 .. Len(rows) : Cost(rows[n]) <= Cost(more[n])
  PROVE  s[Len(rows)] <= t[Len(rows)]
  <1>1. PICK k \in Nat : k = Len(rows)
    OBVIOUS
  <1> DEFINE S == {n \in Nat : n <= k => s[n] <= t[n]}
  <1>2. 0 \in S
    BY DEF Sums
  <1>3. ASSUME NEW n \in Nat, n \in S PROVE n + 1 \in S
    <2>1. CASE n + 1 <= k
      <3>1. n + 1 \in 1 .. Len(rows) /\ n + 1 \in 1 .. Len(more) /\ (n + 1) - 1 = n
        BY <1>1, <2>1
      <3>2. s[n + 1] = s[n] + Cost(rows[n + 1]) /\ t[n + 1] = t[n] + Cost(more[n + 1])
        BY <3>1 DEF Sums
      <3>3. s[n] \in Nat /\ t[n] \in Nat /\ s[n] <= t[n]
        BY <1>1, <1>3, <2>1, <3>1
      <3>4. Cost(rows[n + 1]) \in Nat /\ Cost(more[n + 1]) \in Nat
        <4>1. rows[n + 1] \in Request /\ more[n + 1] \in Request
          BY <3>1
        <4> QED BY <4>1, CostType
      <3> QED BY <3>1, <3>2, <3>3, <3>4
    <2> QED BY <2>1
  <1> HIDE DEF S
  <1>4. Nat \subseteq S
    BY <1>2, <1>3, Induction
  <1> QED BY <1>1, <1>4 DEF S

\* A sum of costs is a number.
LEMMA TotalType == \A rows \in Seq(Request) : Total(rows) \in Nat
  <1> TAKE rows \in Seq(Request)
  <1> PICK s \in [0 .. Len(rows) -> Nat] : Sums(s, rows) /\ Total(rows) = s[Len(rows)]
    BY TotalDef
  <1> QED BY Len(rows) \in 0 .. Len(rows)

\* No row, no cost.
LEMMA TotalEmpty == Total(<<>>) = 0
  <1>1. <<>> \in Seq(Request)
    OBVIOUS
  <1>2. PICK rows \in Seq(Request) : rows = <<>>
    BY <1>1, Zenon
  <1>3. PICK s \in [0 .. Len(rows) -> Nat] : Sums(s, rows) /\ Total(rows) = s[Len(rows)]
    BY TotalDef
  <1> QED BY <1>2, <1>3 DEF Sums

\* A settlement that costs no more than was reserved lowers the total.
LEMMA TotalDecreases ==
  ASSUME NEW rows \in Seq(Request), NEW more \in Seq(Request), Len(rows) = Len(more),
         \A n \in 1 .. Len(rows) : Cost(rows[n]) <= Cost(more[n])
  PROVE  Total(rows) <= Total(more)
  <1>1. PICK s \in [0 .. Len(rows) -> Nat] : Sums(s, rows) /\ Total(rows) = s[Len(rows)]
    BY TotalDef
  <1>2. PICK t \in [0 .. Len(more) -> Nat] : Sums(t, more) /\ Total(more) = t[Len(more)]
    BY TotalDef
  <1>3. Len(rows) <= Len(more)
    OBVIOUS
  <1>4. s[Len(rows)] <= t[Len(rows)]
    BY <1>1, <1>2, <1>3, SumsCompare
  <1> QED BY <1>1, <1>2, <1>4

\* A new row adds what it reserves.
LEMMA TotalAppend ==
  ASSUME NEW rows \in Seq(Request), NEW row \in Request
  PROVE  Total(Append(rows, row)) = Total(rows) + Cost(row)
  <1>1. Append(rows, row) \in Seq(Request)
    OBVIOUS
  <1>2. PICK more \in Seq(Request) : more = Append(rows, row)
    BY <1>1, Zenon
  <1>3. PICK s \in [0 .. Len(rows) -> Nat] : Sums(s, rows) /\ Total(rows) = s[Len(rows)]
    BY TotalDef
  <1>4. PICK t \in [0 .. Len(more) -> Nat] : Sums(t, more) /\ Total(more) = t[Len(more)]
    BY TotalDef
  <1>5. PICK k \in Nat : k = Len(rows) /\ Len(more) = k + 1 /\ more[k + 1] = row
    BY <1>2
  <1>6. \A n \in 1 .. k : more[n] = rows[n]
    BY <1>2, <1>5
  <1>7. \A n \in 0 .. k : t[n] = s[n]
    <2> DEFINE S == {n \in Nat : n <= k => t[n] = s[n]}
    <2>1. 0 \in S
      BY <1>3, <1>4 DEF Sums
    <2>2. ASSUME NEW n \in Nat, n \in S PROVE n + 1 \in S
      <3>1. CASE n + 1 <= k
        <4>1. n + 1 \in 1 .. k /\ n + 1 \in 1 .. Len(more) /\ (n + 1) - 1 = n
          BY <1>5, <3>1
        <4>2. t[n + 1] = t[n] + Cost(more[n + 1]) /\ s[n + 1] = s[n] + Cost(rows[n + 1])
          BY <1>3, <1>4, <1>5, <4>1 DEF Sums
        <4> QED BY <1>6, <2>2, <3>1, <4>1, <4>2
      <3> QED BY <3>1
    <2> HIDE DEF S
    <2>3. Nat \subseteq S
      BY <2>1, <2>2, Induction
    <2> QED BY <2>3 DEF S
  <1>8. t[k + 1] = t[k] + Cost(row)
    <2>1. k + 1 \in 1 .. Len(more) /\ (k + 1) - 1 = k
      BY <1>5
    <2> QED BY <1>4, <1>5, <2>1 DEF Sums
  <1> QED BY <1>2, <1>3, <1>4, <1>5, <1>7, <1>8

-----------------------------------------------------------------------------
(* Numbers *)

\* With less committed, what fitted fits.
LEMMA LessFits ==
  \A a, b, x, n, max \in Int : b <= a =>
      /\ a + x + n <= max => b + x + n <= max
      /\ a + x < max => b + x < max
  OBVIOUS

\* What was admitted leaves what is protected.
LEMMA LeavesRoom ==
  \A a, e, left, o, max \in Int : a + e + left <= max =>
      /\ left >= o => (a + e) + o <= max
      /\ left >= o /\ e >= 1 => a + o < max
  OBVIOUS

\* A row that is added comes after all that were there at some time.
LEMMA AddedLater == \A s, m \in Nat : s <= m => m + 1 \in s + 1 .. m + 1
  OBVIOUS

USE BudgetConstants DEF Item

-----------------------------------------------------------------------------
(* The invariant *)

GateTypes ==
    /\ request \in Seq(Request)
    /\ item \in [Item -> [status : {"absent", "queued", "running", "completed",
                                    "interrupted", "skipped"},
                          try : Nat]]
    /\ grouping \in {"pending", "frozen"}
    /\ errand \in {"review", "overview"}
    /\ epoch \in Nat
    /\ chosen \in Item \cup {NoItem}
    /\ DOMAIN packet = Item /\ \A i \in Item : packet[i].size \in Nat

\* Which attempt an item is in, by its status.
ItemsInv == \A i \in Item :
    /\ item[i].status = "absent" => item[i].try = 0
    /\ item[i].status = "running" => item[i].try > 0
    /\ i \in Unit /\ grouping = "pending" => item[i].status = "absent"

\* Nothing of the review is under way before the grouping is frozen.
StepsInv ==
    /\ step \in {"group", "grouping", "freeze"} => grouping = "pending"
    /\ step = "review" \/ (step = "begin" /\ errand = "review") => grouping = "frozen"
    /\ chosen # NoItem => grouping = "frozen"

\* A request belongs to an attempt its item was in, or to nobody.
RowsInv == \A k \in DOMAIN request : LET r == request[k] IN
    /\ r.item = NoItem => r.try = 0 /\ r.kind \in {"grouping", "overview"}
    /\ r.item # NoItem => /\ r.kind = KindOf(r.item)
                          /\ r.try > 0 /\ r.try <= item[r.item].try
                          /\ grouping = "frozen"

OneGrouping == \A k, l \in DOMAIN request :
    request[k].kind = "grouping" /\ request[l].kind = "grouping" => k = l

GateInv == GateTypes /\ ItemsInv /\ StepsInv /\ RowsInv /\ OneGrouping /\ CallsWithinLimits

-----------------------------------------------------------------------------
(* What a step may do to rows and attempts *)

\* Rows keep what they are for; only their settlement may change.
RowsKept ==
    /\ request' \in Seq(Request) /\ Len(request') = Len(request)
    /\ \A k \in DOMAIN request : /\ request'[k].kind = request[k].kind
                                 /\ request'[k].item = request[k].item
                                 /\ request'[k].try = request[k].try

TriesKept == \A i \in Item : item'[i].try = item[i].try

Reserves == \E i \in Item \cup {NoItem}, estimate \in Nat :
    \E kind \in {"grouping", "review", "verification", "overview"} :
      /\ Admits(kind, i, estimate)
      /\ request' = Append(request,
           [kind |-> kind, item |-> i, try |-> IF i = NoItem THEN 0 ELSE item[i].try,
            epoch |-> epoch, state |-> "reserved", reserved |-> estimate, used |-> 0])
      /\ i = NoItem => kind \in {"grouping", "overview"}
      /\ i # NoItem => kind = KindOf(i) /\ item[i].status = "running" /\ grouping = "frozen"
      /\ kind = "grouping" => ~GroupingAsked

\* The columns of a row.
LEMMA RowTypes ==
  ASSUME request \in Seq(Request), NEW k \in DOMAIN request
  PROVE  /\ request[k] \in Request
         /\ request[k].item \in Item \cup {NoItem} /\ request[k].try \in Nat
  <1>1. request[k] \in Request
    OBVIOUS
  <1> QED BY <1>1 DEF Request

\* A row that is settled is the same row.
LEMMA SettleKeepsRows ==
  ASSUME request \in Seq(Request), NEW k \in DOMAIN request, NEW usage \in Nat,
         Settle(k, usage)
  PROVE  RowsKept
  <1>1. CASE request' = request
    BY <1>1 DEF RowsKept
  <1>2. CASE request' = Settled(k, usage)
    <2> DEFINE state == IF usage = 0 THEN "unknown" ELSE "settled"
               row == [request[k] EXCEPT !.state = state, !.used = usage]
    <2>1. request[k] \in Request
      OBVIOUS
    <2>2. row \in Request /\ row.kind = request[k].kind /\ row.item = request[k].item
            /\ row.try = request[k].try
      BY <2>1 DEF Request
    <2>3. request' = [request EXCEPT ![k] = row]
      BY <1>2 DEF Settled
    <2> HIDE DEF row
    <2> QED BY <2>2, <2>3 DEF RowsKept
  <1> QED BY <1>1, <1>2 DEF Settle

\* A step that leaves the table alone keeps its rows.
LEMMA SameRows ==
  ASSUME request \in Seq(Request), request' = request
  PROVE  RowsKept
  BY DEF RowsKept

-----------------------------------------------------------------------------
(* Counting *)

\* What is protected is a number of calls.
LEMMA ProtectedCallsType == \A kind : ProtectedCalls(kind) \in Nat
  <1>1. IsFiniteSet(PendingChecks)
    BY FS_Subset, PendingChecks \subseteq Check DEF PendingChecks
  <1>2. Cardinality(PendingChecks) \in Nat
    BY <1>1, FS_CardinalityType
  <1> QED BY <1>2 DEF ProtectedCalls, ProtectedChecks

\* The requests of an attempt are finitely many.
LEMMA CallsFinite ==
  ASSUME request \in Seq(Request), NEW i
  PROVE  IsFiniteSet(CallsOf(i)) /\ Cardinality(CallsOf(i)) \in Nat
  <1>1. IsFiniteSet(DOMAIN request)
    BY FS_Interval, DOMAIN request = 1 .. Len(request), Len(request) \in Nat
  <1>2. CallsOf(i) \subseteq DOMAIN request
    BY DEF CallsOf
  <1>3. IsFiniteSet(CallsOf(i))
    BY <1>1, <1>2, FS_Subset
  <1> QED BY <1>3, FS_CardinalityType

-----------------------------------------------------------------------------
(* Three shapes of steps keep what is said of rows and calls *)

\* Nothing is asked and no attempt begins.
LEMMA QuietStep ==
  ASSUME GateInv, RowsKept, TriesKept, grouping = "frozen" => grouping' = "frozen"
  PROVE  RowsInv' /\ OneGrouping' /\ CallsWithinLimits'
  <1>1. DOMAIN request' = DOMAIN request /\ request \in Seq(Request) /\ request' \in Seq(Request)
    BY DEF GateInv, GateTypes, RowsKept
  <1>2. \A k \in DOMAIN request : request[k].item \in Item \cup {NoItem}
    BY <1>1, RowTypes
  <1>3. RowsInv'
    BY <1>1, <1>2 DEF GateInv, RowsInv, RowsKept, TriesKept
  <1>4. OneGrouping'
    BY <1>1 DEF GateInv, OneGrouping, RowsKept
  <1>5. ASSUME NEW i \in Item PROVE CallsOf(i)' = CallsOf(i)
    BY <1>1, <1>5 DEF CallsOf, OfAttempt, RowsKept, TriesKept
  <1>6. CallsWithinLimits'
    BY <1>5 DEF GateInv, CallsWithinLimits, RowsKept, TriesKept
  <1> QED BY <1>3, <1>4, <1>6

\* A new attempt has made no request yet: those of its item belong to former
\* ones.
LEMMA ClaimStep ==
  ASSUME GateInv, RowsKept, UNCHANGED grouping,
         NEW i \in Item, item'[i].try = item[i].try + 1,
         \A j \in Item \ {i} : item'[j].try = item[j].try
  PROVE  RowsInv' /\ OneGrouping' /\ CallsWithinLimits'
  <1>1. DOMAIN request' = DOMAIN request /\ request \in Seq(Request) /\ request' \in Seq(Request)
    BY DEF GateInv, GateTypes, RowsKept
  <1>2. \A j \in Item : item[j].try \in Nat
    BY DEF GateInv, GateTypes
  <1>3. \A k \in DOMAIN request : request[k].item \in Item \cup {NoItem} /\ request[k].try \in Nat
    BY <1>1, RowTypes
  <1>4. RowsInv'
    <2> SUFFICES ASSUME NEW k \in DOMAIN request,
                        request[k].item # NoItem
                 PROVE  request[k].try <= item'[request[k].item].try
      BY <1>1, <1>3 DEF GateInv, RowsInv, RowsKept
    <2> QED BY <1>2, <1>3 DEF GateInv, RowsInv
  <1>5. OneGrouping'
    BY <1>1 DEF GateInv, OneGrouping, RowsKept
  <1>6. ASSUME NEW j \in Item \ {i} PROVE CallsOf(j)' = CallsOf(j)
    BY <1>1, <1>6 DEF CallsOf, OfAttempt, RowsKept
  <1>7. CallsOf(i)' = {}
    <2> SUFFICES ASSUME NEW k \in CallsOf(i)'
                 PROVE  FALSE
      OBVIOUS
    <2>1. k \in DOMAIN request /\ OfAttempt(request[k], i)'
      BY <1>1 DEF CallsOf
    <2>2. request'[k].try = item[i].try + 1 /\ request'[k].item = i
      BY <1>2, <2>1 DEF OfAttempt
    <2>3. request[k].try = item[i].try + 1 /\ request[k].item = i
      BY <2>1, <2>2 DEF RowsKept
    <2> QED BY <1>2, <2>1, <2>3 DEF GateInv, RowsInv
  <1>8. Cardinality(CallsOf(i)') = 0
    BY <1>7, FS_EmptySet
  <1>9. CallsWithinLimits'
    BY <1>6, <1>8 DEF GateInv, CallsWithinLimits, RowsKept
  <1> QED BY <1>4, <1>5, <1>9

\* A request is admitted: one call more, within what the gate left.
LEMMA ReserveStep ==
  ASSUME GateInv, Reserves, UNCHANGED <<item, grouping>>
  PROVE  request' \in Seq(Request) /\ RowsInv' /\ OneGrouping' /\ CallsWithinLimits'
  <1> PICK i \in Item \cup {NoItem}, estimate \in Nat,
           kind \in {"grouping", "review", "verification", "overview"} :
        /\ Admits(kind, i, estimate)
        /\ request' = Append(request,
             [kind |-> kind, item |-> i, try |-> IF i = NoItem THEN 0 ELSE item[i].try,
              epoch |-> epoch, state |-> "reserved", reserved |-> estimate, used |-> 0])
        /\ i = NoItem => kind \in {"grouping", "overview"}
        /\ i # NoItem => kind = KindOf(i) /\ item[i].status = "running" /\ grouping = "frozen"
        /\ kind = "grouping" => ~GroupingAsked
    BY DEF Reserves
  <1> DEFINE row == [kind |-> kind, item |-> i, try |-> IF i = NoItem THEN 0 ELSE item[i].try,
                     epoch |-> epoch, state |-> "reserved", reserved |-> estimate, used |-> 0]
             n == Len(request) + 1
  <1>1. request \in Seq(Request) /\ Len(request) \in Nat /\ \A j \in Item : item[j].try \in Nat
    BY DEF GateInv, GateTypes
  <1>2. row \in Request
    BY <1>1 DEF Request, GateInv, GateTypes
  <1>3. row.kind = kind /\ row.item = i /\ row.try = IF i = NoItem THEN 0 ELSE item[i].try
    OBVIOUS
  <1> HIDE DEF row
  <1>4. /\ request' = Append(request, row) /\ request' \in Seq(Request) /\ Len(request') = n
        /\ DOMAIN request' = DOMAIN request \cup {n} /\ n \notin DOMAIN request
        /\ request'[n] = row /\ \A k \in DOMAIN request : request'[k] = request[k]
    BY <1>1, <1>2 DEF row
  <1>5. RowsInv'
    <2> SUFFICES ASSUME NEW k \in DOMAIN request'
                 PROVE  /\ request'[k].item = NoItem => request'[k].try = 0
                              /\ request'[k].kind \in {"grouping", "overview"}
                        /\ request'[k].item # NoItem =>
                              /\ request'[k].kind = KindOf(request'[k].item)
                              /\ request'[k].try > 0
                              /\ request'[k].try <= item[request'[k].item].try
                              /\ grouping = "frozen"
      BY DEF RowsInv, KindOf
    <2>1. CASE k = n
      <3>1. i # NoItem => item[i].try > 0
        BY DEF GateInv, ItemsInv
      <3> QED BY <1>1, <1>3, <1>4, <2>1, <3>1
    <2>2. CASE k # n
      BY <1>4, <2>2 DEF GateInv, RowsInv
    <2> QED BY <2>1, <2>2
  <1>6. OneGrouping'
    BY <1>3, <1>4 DEF GateInv, OneGrouping, GroupingAsked
  <1>7. Len(request') <= MaxCalls
    BY <1>1, <1>4, ProtectedCallsType DEF Admits
  <1>8. ASSUME NEW j \in Item, item[j].try > 0
        PROVE  Cardinality(CallsOf(j)') <= AgentCalls
    <2>1. j # i => CallsOf(j)' = CallsOf(j)
      BY <1>1, <1>3, <1>4, <1>8 DEF CallsOf, OfAttempt
    <2>2. ASSUME j = i PROVE CallsOf(j)' = CallsOf(j) \cup {n}
      BY <1>1, <1>3, <1>4, <1>8, <2>2 DEF CallsOf, OfAttempt
    <2>3. n \notin CallsOf(j)
      BY <1>4 DEF CallsOf
    <2>4. j = i => Cardinality(CallsOf(j)') = Cardinality(CallsOf(j)) + 1
      BY <1>1, <2>2, <2>3, CallsFinite, FS_AddElement
    <2>5. j = i => Cardinality(CallsOf(j)) < AgentCalls
      BY DEF Admits
    <2>6. j # i => Cardinality(CallsOf(j)) <= AgentCalls
      BY <1>8 DEF GateInv, CallsWithinLimits
    <2> QED BY <1>1, <2>1, <2>4, <2>5, <2>6, CallsFinite
  <1>9. CallsWithinLimits'
    BY <1>7, <1>8 DEF CallsWithinLimits
  <1> QED BY <1>4, <1>5, <1>6, <1>9

-----------------------------------------------------------------------------
(* The actions *)

\* What all of them keep, apart from rows and calls.
StateInv == GateTypes /\ ItemsInv /\ StepsInv

\* A new run: no request, no attempt.
LEMMA Initially == BudgetInit => GateInv
  <1> SUFFICES ASSUME BudgetInit PROVE GateInv
    OBVIOUS
  <1>1. request = <<>> /\ DOMAIN request = {} /\ Len(request) = 0 /\ request \in Seq(Request)
    BY DEF BudgetInit
  <1>2. GateTypes
    BY <1>1 DEF BudgetInit, GateTypes, Unpacked, NoPacket
  <1>3. ItemsInv /\ StepsInv
    BY DEF BudgetInit, ItemsInv, StepsInv
  <1>4. RowsInv /\ OneGrouping
    BY <1>1 DEF RowsInv, OneGrouping
  <1>5. CallsWithinLimits
    BY <1>1 DEF BudgetInit, CallsWithinLimits
  <1> QED BY <1>2, <1>3, <1>4, <1>5 DEF GateInv

\* The answers: rows are settled, the handler goes on.
LEMMA AnswersKeep ==
  ASSUME GateInv, NEW k \in DOMAIN request, Answer(k) \/ Fails(k) \/ Parsed(k) \/ Garbled(k)
  PROVE  GateInv'
  <1>1. request \in Seq(Request) /\ Usages \subseteq Nat
    BY DEF GateInv, GateTypes
  <1>2. RowsKept
    <2>1. CASE Answer(k)
      <3> PICK usage \in Usages : Settle(k, usage)
        BY <2>1 DEF Answer
      <3> QED BY <1>1, SettleKeepsRows
    <2>2. CASE Fails(k) \/ Garbled(k)
      BY <1>1, <2>2, SettleKeepsRows, 0 \in Nat DEF Fails, Garbled
    <2>3. CASE Parsed(k)
      BY <1>1, <2>3, SameRows DEF Parsed
    <2> QED BY <2>1, <2>2, <2>3
  <1>3. UNCHANGED <<item, grouping, errand, epoch, chosen, packet>>
    BY DEF Answer, Fails, Parsed, Garbled, jobVars, agentVars
  <1>4. step' \in {step, "closing"} \/ (step = "grouping" /\ step' = "freeze")
    BY DEF Answer, Fails, Parsed, Garbled, DriverGoesOn
  <1>5. GateTypes'
    BY <1>2, <1>3 DEF GateInv, GateTypes, RowsKept
  <1>6. ItemsInv' /\ StepsInv'
    BY <1>3, <1>4 DEF GateInv, ItemsInv, StepsInv
  <1>7. TriesKept
    BY <1>3 DEF TriesKept
  <1> QED BY <1>2, <1>3, <1>5, <1>6, <1>7, QuietStep DEF GateInv

\* The requests of agents, of the grouping and of the overview add a row.
LEMMA RequestsReserve ==
  ASSUME GateInv,
         \/ \E e \in Estimates : AskGrouping(e)
         \/ \E i \in Item : \E e \in Sizes(i) : Ask(i, e)
         \/ AskOverview(Overview)
  PROVE  Reserves
  <1>1. CASE \E e \in Estimates : AskGrouping(e)
    <2> PICK e \in Estimates : AskGrouping(e)
      BY <1>1
    <2>1. e \in Nat /\ NoItem \in Item \cup {NoItem}
      OBVIOUS
    <2>2. Admits("grouping", NoItem, e) /\ Reserve("grouping", NoItem, 0, e) /\ ~GroupingAsked
      BY DEF AskGrouping
    <2> QED BY <2>1, <2>2 DEF Reserves, Reserve
  <1>2. CASE AskOverview(Overview)
    <2>1. Overview \in Nat /\ NoItem \in Item \cup {NoItem}
      OBVIOUS
    <2>2. Admits("overview", NoItem, Overview) /\ Reserve("overview", NoItem, 0, Overview)
      BY <1>2 DEF AskOverview
    <2> QED BY <2>1, <2>2 DEF Reserves, Reserve
  <1>3. CASE \E i \in Item : \E e \in Sizes(i) : Ask(i, e)
    <2> PICK i \in Item : \E e \in Sizes(i) : Ask(i, e)
      BY <1>3
    <2> PICK e \in Sizes(i) : Ask(i, e)
      OBVIOUS
    <2>1. e \in Nat
      <3>1. packet[i].size \in Nat
        BY DEF GateInv, GateTypes
      <3> QED BY <3>1 DEF Sizes
    <2>2. KindOf(i) \in {"review", "verification"} /\ i # NoItem
      BY DEF KindOf
    <2>3. grouping = "frozen" /\ item[i].status = "running"
      BY DEF Ask, Working, GateInv, StepsInv
    <2>4. Admits(KindOf(i), i, e) /\ Reserve(KindOf(i), i, item[i].try, e)
      BY DEF Ask
    <2> QED BY <2>1, <2>2, <2>3, <2>4 DEF Reserves, Reserve
  <1> QED BY <1>1, <1>2, <1>3

\* They keep the invariant.
LEMMA RequestsKeep ==
  ASSUME GateInv,
         \/ \E e \in Estimates : AskGrouping(e)
         \/ \E i \in Item : \E e \in Sizes(i) : Ask(i, e)
         \/ AskOverview(Overview)
  PROVE  GateInv'
  <1>1. UNCHANGED <<item, grouping, errand, epoch, chosen, packet>>
    BY DEF AskGrouping, Ask, AskOverview, jobVars, agentVars
  <1>2. step' = step \/ step' \in {"grouping", "summing"}
    BY DEF AskGrouping, Ask, AskOverview
  <1>3. step' = "grouping" => grouping = "pending"
    BY DEF AskGrouping, Ask, AskOverview, GateInv, StepsInv
  <1>4. Reserves
    BY RequestsReserve
  <1>5. /\ request' \in Seq(Request) /\ RowsInv' /\ OneGrouping' /\ CallsWithinLimits'
    BY <1>1, <1>4, ReserveStep
  <1>6. GateTypes'
    BY <1>1, <1>5 DEF GateInv, GateTypes
  <1>7. ItemsInv' /\ StepsInv'
    BY <1>1, <1>2, <1>3 DEF GateInv, ItemsInv, StepsInv
  <1> QED BY <1>5, <1>6, <1>7 DEF GateInv

\* A step that asks for nothing and begins no attempt.
LEMMA KeepsInv ==
  ASSUME GateInv, RowsKept, TriesKept, grouping = "frozen" => grouping' = "frozen",
         StateInv'
  PROVE  GateInv'
  BY QuietStep DEF GateInv, StateInv

\* The plan is frozen: its items were absent, they are in no attempt.
LEMMA FreezeKeeps ==
  ASSUME GateInv, FreezeGrouping
  PROVE  GateInv'
  <1>1. RowsKept
    BY SameRows DEF FreezeGrouping, GateInv, GateTypes
  <1>2. grouping = "pending" /\ \A i \in Unit : item[i].try = 0
    BY DEF FreezeGrouping, GateInv, GateTypes, ItemsInv, StepsInv
  <1>3. item' = [i \in Item |-> IF i \in Unit THEN [status |-> "queued", try |-> 0] ELSE item[i]]
    BY DEF FreezeGrouping
  <1>4. TriesKept
    BY <1>2, <1>3 DEF TriesKept
  <1>5. UNCHANGED <<request, errand, epoch, chosen, packet>> /\ grouping' = "frozen" /\ step' = "begin"
    BY DEF FreezeGrouping, jobVars, agentVars
  <1>6. GateTypes'
    BY <1>3, <1>5 DEF GateInv, GateTypes
  <1>7. ItemsInv' /\ StepsInv'
    BY <1>3, <1>5 DEF GateInv, ItemsInv, StepsInv
  <1> QED BY <1>1, <1>4, <1>5, <1>6, <1>7, KeepsInv DEF StateInv

\* An attempt begins, after can_start let its item through.
LEMMA ClaimKeeps ==
  ASSUME GateInv, Claim
  PROVE  GateInv'
  <1>1. chosen \in Item /\ grouping = "frozen"
    BY DEF Claim, GateInv, GateTypes, StepsInv
  <1>2. item' = [item EXCEPT ![chosen] = [status |-> "running", try |-> item[chosen].try + 1]]
    BY DEF Claim
  <1>3. RowsKept
    BY SameRows DEF Claim, GateInv, GateTypes
  <1>4. item[chosen].try \in Nat /\ DOMAIN item = Item
    BY <1>1 DEF GateInv, GateTypes
  <1>5. item'[chosen] = [status |-> "running", try |-> item[chosen].try + 1]
        /\ \A j \in Item \ {chosen} : item'[j] = item[j]
    BY <1>1, <1>2, <1>4
  <1>6. UNCHANGED <<request, grouping, errand, epoch, step>> /\ chosen' = NoItem
    BY DEF Claim, jobVars
  <1>7. DOMAIN packet' = Item /\ \A i \in Item : packet'[i].size \in Nat
    BY DEF Claim, GateInv, GateTypes, NoPacket
  <1>8. GateTypes'
    BY <1>1, <1>2, <1>4, <1>6, <1>7 DEF GateInv, GateTypes
  <1>9. ItemsInv' /\ StepsInv'
    BY <1>1, <1>4, <1>5, <1>6 DEF GateInv, ItemsInv, StepsInv
  <1>10. RowsInv' /\ OneGrouping' /\ CallsWithinLimits'
    BY <1>1, <1>3, <1>5, <1>6, ClaimStep
  <1> QED BY <1>8, <1>9, <1>10 DEF GateInv

\* One item is queued, skipped or finished.
LEMMA MoveKeeps ==
  ASSUME GateInv, NEW i \in Item, NEW s \in {"queued", "completed", "interrupted", "skipped"},
         item' = [item EXCEPT ![i] = [status |-> s, try |-> item[i].try]],
         i \in Unit => item[i].status # "absent",
         UNCHANGED <<request, grouping, errand, epoch, step, chosen, packet>>
  PROVE  GateInv'
  <1>1. DOMAIN item = Item /\ item[i].try \in Nat
    BY DEF GateInv, GateTypes
  <1>2. item'[i] = [status |-> s, try |-> item[i].try] /\ \A j \in Item \ {i} : item'[j] = item[j]
    BY <1>1
  <1>3. TriesKept
    BY <1>2 DEF TriesKept
  <1>4. RowsKept
    BY SameRows DEF GateInv, GateTypes
  <1>5. GateTypes'
    BY <1>1 DEF GateInv, GateTypes
  <1>6. ItemsInv' /\ StepsInv'
    BY <1>1, <1>2 DEF GateInv, ItemsInv, StepsInv
  <1> QED BY <1>3, <1>4, <1>5, <1>6, KeepsInv DEF StateInv

\* A candidate is queued, by a reviewer or from the history.
LEMMA CandidatesKeep ==
  ASSUME GateInv, NEW c \in Check,
         SeedHistory(c) \/ \E i \in Unit : Submit(i, c)
  PROVE  GateInv'
  <1>1. item[c].status = "absent" /\ item' = [item EXCEPT ![c] = [status |-> "queued", try |-> 0]]
    BY DEF SeedHistory, Submit
  <1>2. item[c].try = 0 /\ c \notin Unit
    BY <1>1 DEF GateInv, ItemsInv
  <1>3. UNCHANGED <<request, grouping, errand, epoch, step, chosen, packet>>
    BY DEF SeedHistory, Submit, jobVars, agentVars
  <1> QED BY <1>1, <1>2, <1>3, MoveKeeps

\* An item is dropped by the orchestrator or given back by its agent.
LEMMA EndsKeep ==
  ASSUME GateInv, NEW i \in Item,
         \/ \E e \in StartEstimates(i) : Skip(i, e)
         \/ \E s \in {"completed", "interrupted"} : AgentEnds(i, s)
  PROVE  GateInv'
  <1>1. item[i].status \in {"queued", "running"}
    BY DEF Skip, AgentEnds, Working
  <1>2. UNCHANGED <<request, grouping, errand, epoch, step, chosen, packet>>
    BY DEF Skip, AgentEnds, jobVars, agentVars
  <1>3. PICK s \in {"completed", "interrupted", "skipped"} : item' = [item EXCEPT ![i].status = s]
    BY DEF Skip, AgentEnds
  <1>4. item[i] = [status |-> item[i].status, try |-> item[i].try]
    BY DEF GateInv, GateTypes
  <1>5. [item[i] EXCEPT !.status = s] = [status |-> s, try |-> item[i].try]
    BY <1>4
  <1>6. item' = [item EXCEPT ![i] = [status |-> s, try |-> item[i].try]]
    BY <1>3, <1>5
  <1> QED BY <1>1, <1>2, <1>6, MoveKeeps

\* Steps of the handler that touch no item.
LEMMA HandlerKeeps ==
  ASSUME GateInv,
         \/ \E e \in Estimates : GroupWithoutAsking(e)
         \/ \E i \in Item : \E e \in StartEstimates(i) : MayStart(i, e)
         \/ DrainAgents \/ EndReview
         \/ \E c \in Check : Pack(c)
         \/ NoOverview \/ Conclude \/ FailRun \/ PassDeadline
  PROVE  GateInv'
  <1>1. UNCHANGED <<request, item, grouping, errand, epoch>>
    BY DEF GroupWithoutAsking, MayStart, DrainAgents, EndReview, Pack, NoOverview, Conclude,
           FailRun, PassDeadline, jobVars
  <1>2. \/ step' = step \/ step' \in {"overview", "closing", "closed"}
        \/ step = "group" /\ step' = "freeze"
    BY DEF GroupWithoutAsking, MayStart, DrainAgents, EndReview, Pack, NoOverview, Conclude,
           FailRun, PassDeadline
  <1>3. chosen' \in {chosen, NoItem} \/ (chosen' \in Item /\ step = "review")
    BY DEF GroupWithoutAsking, MayStart, DrainAgents, EndReview, Pack, NoOverview, Conclude,
           FailRun, PassDeadline, agentVars
  <1>4. DOMAIN packet' = Item /\ \A i \in Item : packet'[i].size \in Nat
    <2>1. CASE packet' = packet
      BY <2>1 DEF GateInv, GateTypes
    <2>2. CASE packet' = Unpacked
      BY <2>2 DEF Unpacked, NoPacket
    <2>3. CASE \E c \in Check : Pack(c)
      <3> PICK c \in Check : Pack(c)
        BY <2>3
      <3>1. Verification \in Nat
        OBVIOUS
      <3>2. packet' = packet \/ \E size \in 1 .. Verification :
              packet' = [packet EXCEPT ![c] = [size |-> size, limit |-> CheckLimit(Committed)]]
        BY DEF Pack
      <3>3. DOMAIN packet = Item /\ \A i \in Item : packet[i].size \in Nat
        BY DEF GateInv, GateTypes
      <3>4. ASSUME NEW size \in 1 .. Verification,
                   packet' = [packet EXCEPT ![c] = [size |-> size, limit |-> CheckLimit(Committed)]]
            PROVE  DOMAIN packet' = Item /\ \A i \in Item : packet'[i].size \in Nat
        <4>1. PICK new : new.size = size /\ packet' = [packet EXCEPT ![c] = new]
          BY <3>4
        <4>2. size \in Nat
          BY <3>1
        <4> QED BY <3>3, <4>1, <4>2
      <3> QED BY <2>1, <3>2, <3>4
    <2> QED BY <2>1, <2>2, <2>3
            DEF GroupWithoutAsking, MayStart, DrainAgents, EndReview, NoOverview, Conclude,
                FailRun, PassDeadline, agentVars
  <1>5. GateTypes'
    BY <1>1, <1>3, <1>4 DEF GateInv, GateTypes
  <1>6. ItemsInv' /\ StepsInv'
    BY <1>1, <1>2, <1>3 DEF GateInv, ItemsInv, StepsInv
  <1>7. RowsKept /\ TriesKept
    BY <1>1, SameRows DEF GateInv, GateTypes, TriesKept
  <1> QED BY <1>1, <1>5, <1>6, <1>7, KeepsInv DEF StateInv

\* Items are queued again: what ran when the job is granted anew, what was not
\* completed when the run is retried.
LEMMA QueueingKeeps ==
  ASSUME GateInv, Begin \/ (\E kind \in {"review", "overview"} : Retry(kind))
  PROVE  GateInv'
  <1>1. UNCHANGED <<request, grouping, chosen, packet>> /\ errand' \in {"review", "overview"}
          /\ epoch' \in Nat
    BY DEF Begin, Retry, GateInv, GateTypes, jobVars, agentVars
  <1>2. /\ DOMAIN item' = Item
        /\ \A i \in Item : \/ item'[i] = item[i]
                           \/ /\ item[i].status # "absent"
                              /\ item'[i] = [item[i] EXCEPT !.status = "queued"]
    BY DEF Begin, Retry
  <1>3. \A i \in Item :
          /\ item'[i] \in [status : {"absent", "queued", "running", "completed",
                                     "interrupted", "skipped"}, try : Nat]
          /\ item'[i].try = item[i].try
          /\ \/ item'[i].status = item[i].status
             \/ item[i].status # "absent" /\ item'[i].status = "queued"
    <2> SUFFICES ASSUME NEW i \in Item
                 PROVE  /\ item'[i] \in [status : {"absent", "queued", "running", "completed",
                                                   "interrupted", "skipped"}, try : Nat]
                        /\ item'[i].try = item[i].try
                        /\ \/ item'[i].status = item[i].status
                           \/ item[i].status # "absent" /\ item'[i].status = "queued"
      OBVIOUS
    <2>1. item[i] \in [status : {"absent", "queued", "running", "completed",
                                 "interrupted", "skipped"}, try : Nat]
      BY DEF GateInv, GateTypes
    <2>2. CASE item'[i] = item[i]
      BY <2>1, <2>2
    <2>3. CASE item[i].status # "absent" /\ item'[i] = [item[i] EXCEPT !.status = "queued"]
      BY <2>1, <2>3
    <2> QED BY <1>2, <2>2, <2>3
  <1>4. \/ step' = "group" /\ grouping = "pending"
        \/ step' = "begin" /\ (errand' = "review" => grouping = "frozen")
        \/ step' = "review" /\ grouping = "frozen"
        \/ step' = "overview"
    BY DEF Begin, Retry, FirstStep, GateInv, GateTypes, StepsInv
  <1>5. GateTypes'
    <2>1. item' = [i \in Item |-> item'[i]]
      BY DEF Begin, Retry
    <2> QED BY <1>1, <1>3, <2>1 DEF GateInv, GateTypes
  <1>6. ItemsInv' /\ StepsInv'
    BY <1>1, <1>3, <1>4 DEF GateInv, ItemsInv, StepsInv
  <1>7. RowsKept
    BY <1>1, SameRows DEF GateInv, GateTypes
  <1>8. TriesKept
    BY <1>3 DEF TriesKept
  <1> QED BY <1>1, <1>5, <1>6, <1>7, <1>8, KeepsInv DEF StateInv

\* Another grant begins from the first step; the table stays.
LEMMA TakeOverKeeps ==
  ASSUME GateInv, TakeOver
  PROVE  GateInv'
  <1>1. UNCHANGED <<request, item, grouping, errand>> /\ chosen' = NoItem /\ packet' = Unpacked
          /\ step' = FirstStep(errand) /\ epoch' \in Nat
    BY DEF TakeOver, GateInv, GateTypes
  <1>2. GateTypes'
    BY <1>1 DEF GateInv, GateTypes, Unpacked, NoPacket
  <1>3. ItemsInv' /\ StepsInv'
    BY <1>1 DEF GateInv, GateTypes, ItemsInv, StepsInv, FirstStep
  <1>4. RowsKept /\ TriesKept
    BY <1>1, SameRows DEF GateInv, GateTypes, TriesKept
  <1> QED BY <1>1, <1>2, <1>3, <1>4, KeepsInv DEF StateInv

-----------------------------------------------------------------------------
(* Theorems *)

\* The invariant: rows belong to attempts, nothing of the review is under way
\* before the grouping is frozen, and the calls stay within their limits.
THEOREM GateInvariance == BudgetSpec => []GateInv
  <1>1. BudgetInit => GateInv
    BY Initially
  <1>2. GateInv /\ [BudgetNext]_vars => GateInv'
    <2> SUFFICES ASSUME GateInv, [BudgetNext]_vars PROVE GateInv'
      OBVIOUS
    <2>1. CASE \E k \in DOMAIN request : Answer(k) \/ Fails(k) \/ Parsed(k) \/ Garbled(k)
      BY <2>1, AnswersKeep
    <2>2. CASE \/ \E e \in Estimates : AskGrouping(e)
               \/ \E i \in Item : \E e \in Sizes(i) : Ask(i, e)
               \/ AskOverview(Overview)
      BY <2>2, RequestsKeep
    <2>3. CASE FreezeGrouping
      BY <2>3, FreezeKeeps
    <2>4. CASE Claim
      BY <2>4, ClaimKeeps
    <2>5. CASE \E c \in Check : SeedHistory(c) \/ \E i \in Unit : Submit(i, c)
      BY <2>5, CandidatesKeep
    <2>6. CASE \E i \in Item : \/ \E e \in StartEstimates(i) : Skip(i, e)
                               \/ \E s \in {"completed", "interrupted"} : AgentEnds(i, s)
      BY <2>6, EndsKeep
    <2>7. CASE \/ \E e \in Estimates : GroupWithoutAsking(e)
               \/ \E i \in Item : \E e \in StartEstimates(i) : MayStart(i, e)
               \/ DrainAgents \/ EndReview
               \/ \E c \in Check : Pack(c)
               \/ NoOverview \/ Conclude \/ FailRun \/ PassDeadline
      BY <2>7, HandlerKeeps
    <2>8. CASE Begin \/ (\E kind \in {"review", "overview"} : Retry(kind))
      BY <2>8, QueueingKeeps
    <2>9. CASE TakeOver
      BY <2>9, TakeOverKeeps
    <2>10. CASE UNCHANGED vars
      <3>1. RowsKept /\ TriesKept /\ StateInv' /\ grouping' = grouping
        BY <2>10, SameRows
           DEF vars, jobVars, agentVars, GateInv, GateTypes, ItemsInv, StepsInv, TriesKept, StateInv
      <3> QED BY <3>1, KeepsInv
    <2> QED BY <2>1, <2>2, <2>3, <2>4, <2>5, <2>6, <2>7, <2>8, <2>9, <2>10 DEF BudgetNext
  <1> QED BY <1>1, <1>2, PTL DEF BudgetSpec

\* No interleaving of agents, no lost grant and no retry makes more calls than
\* the run, or one attempt of an item, may make (store.py:357-360).
THEOREM CallsStayWithinLimits == BudgetSpec => []CallsWithinLimits
  <1>1. GateInv => CallsWithinLimits
    BY DEF GateInv
  <1> QED BY <1>1, GateInvariance, PTL

\* The units are grouped by at most one request, and nothing is reviewed before
\* their grouping is frozen, whichever grant asked (store.py:413, 435).
THEOREM GroupingIsAskedOnce == BudgetSpec => []GroupingAskedOnce
  <1>1. GateInv => GroupingAskedOnce
    <2> SUFFICES ASSUME GateInv PROVE GroupingAskedOnce
      OBVIOUS
    <2> DEFINE G == {k \in DOMAIN request : request[k].kind = "grouping"}
    <2>1. G = {} \/ \E k \in G : G = {k}
      BY DEF GateInv, OneGrouping
    <2>2. Cardinality(G) <= 1
      <3>1. CASE G = {}
        <4>1. Cardinality(G) = 0
          BY <3>1, FS_EmptySet
        <4> QED BY <4>1
      <3>2. CASE \E k \in G : G = {k}
        <4> PICK k \in G : G = {k}
          BY <3>2
        <4>1. Cardinality(G) = 1
          BY FS_Singleton
        <4> QED BY <4>1
      <3> QED BY <2>1, <3>1, <3>2
    <2>3. ASSUME NEW k \in DOMAIN request, request[k].kind \in {"review", "verification"}
          PROVE  grouping = "frozen"
      BY <2>3 DEF GateInv, RowsInv
    <2> QED BY <2>2, <2>3 DEF GroupingAskedOnce
  <1> QED BY <1>1, GateInvariance, PTL

\* What was counted stays counted: a settled request is never settled again, and
\* a grant that is over settles nothing (store.py:472-486).
THEOREM ReceiptsStayFinal == BudgetSpec => ReceiptsAreFinal
  <1> DEFINE Final == \A k \in DOMAIN request :
         /\ k \in DOMAIN request'
         /\ request'[k] # request[k] => request[k].state = "reserved"
                                       /\ request[k].epoch = epoch
  <1>1. GateInv /\ [BudgetNext]_vars => [Final]_vars
    <2> SUFFICES ASSUME GateInv, BudgetNext PROVE Final
      OBVIOUS
    <2>1. request \in Seq(Request)
      BY DEF GateInv, GateTypes
    <2>2. CASE request' = request
      BY <2>2
    <2>3. ASSUME NEW row, request' = Append(request, row) PROVE Final
      BY <2>1, <2>3
    <2>4. CASE \E k \in DOMAIN request : \E usage \in Nat : Settle(k, usage)
      <3> PICK k \in DOMAIN request : \E usage \in Nat : Settle(k, usage)
        BY <2>4
      <3> PICK usage \in Nat : Settle(k, usage)
        OBVIOUS
      <3>1. CASE request' = request
        BY <3>1
      <3>2. CASE request' # request
        <4>1. Fence(k) /\ request[k].state = "reserved" /\ request' = Settled(k, usage)
          BY <3>2 DEF Settle
        <4>2. DOMAIN request' = DOMAIN request /\ \A l \in DOMAIN request \ {k} : request'[l] = request[l]
          BY <4>1 DEF Settled
        <4> QED BY <4>1, <4>2 DEF Fence
      <3> QED BY <3>1, <3>2
    <2>5. CASE \E k \in DOMAIN request : Answer(k) \/ Fails(k) \/ Parsed(k) \/ Garbled(k)
      <3> PICK k \in DOMAIN request : Answer(k) \/ Fails(k) \/ Parsed(k) \/ Garbled(k)
        BY <2>5
      <3>1. CASE Answer(k)
        <4> PICK usage \in Usages : Settle(k, usage)
          BY <3>1 DEF Answer
        <4> QED BY <2>4
      <3>2. CASE Fails(k) \/ Garbled(k)
        <4>1. Settle(k, 0) /\ 0 \in Nat
          BY <3>2 DEF Fails, Garbled
        <4> QED BY <2>4, <4>1
      <3>3. CASE Parsed(k)
        BY <2>2, <3>3 DEF Parsed
      <3> QED BY <3>1, <3>2, <3>3
    <2>6. CASE \/ \E e \in Estimates : AskGrouping(e)
               \/ \E i \in Item : \E e \in Sizes(i) : Ask(i, e)
               \/ AskOverview(Overview)
      <3>1. Reserves
        BY <2>6, RequestsReserve
      <3> QED BY <2>3, <3>1 DEF Reserves
    <2>7. CASE \/ \E e \in Estimates : GroupWithoutAsking(e)
               \/ FreezeGrouping \/ Begin
               \/ \E i \in Item : \E e \in StartEstimates(i) : MayStart(i, e) \/ Skip(i, e)
               \/ Claim \/ DrainAgents \/ EndReview
               \/ \E c \in Check : SeedHistory(c) \/ Pack(c)
               \/ \E i \in Unit, c \in Check : Submit(i, c)
               \/ \E i \in Item, s \in {"completed", "interrupted"} : AgentEnds(i, s)
               \/ NoOverview \/ Conclude \/ FailRun \/ TakeOver
               \/ \E kind \in {"review", "overview"} : Retry(kind)
               \/ PassDeadline
      <3>1. request' = request
        BY <2>7 DEF GroupWithoutAsking, FreezeGrouping, Begin, MayStart, Skip, Claim, DrainAgents,
             EndReview, SeedHistory, Pack, Submit, AgentEnds, NoOverview, Conclude, FailRun,
             TakeOver, Retry, PassDeadline
      <3> QED BY <2>2, <3>1
    <2> QED BY <2>5, <2>6, <2>7 DEF BudgetNext
  <1> QED BY <1>1, GateInvariance, PTL DEF BudgetSpec, ReceiptsAreFinal

-----------------------------------------------------------------------------
(* What is set aside *)

\* The least of three numbers, the greater of two.
LEMMA MinMax ==
  ASSUME NEW a \in Int, NEW b \in Int, NEW c \in Int
  PROVE  /\ Min({a, b, c}) \in {a, b, c}
         /\ Min({a, b, c}) <= a /\ Min({a, b, c}) <= b /\ Min({a, b, c}) <= c
         /\ Max({a, b}) \in {a, b} /\ Max({a, b}) >= a /\ Max({a, b}) >= b
  <1>1. \E x \in {a, b, c} : \A y \in {a, b, c} : x <= y
    OBVIOUS
  <1>2. \E x \in {a, b} : \A y \in {a, b} : x >= y
    OBVIOUS
  <1>3. PICK least : least = (CHOOSE z \in {a, b, c} : \A y \in {a, b, c} : z <= y)
    OBVIOUS
  <1>4. PICK greatest : greatest = (CHOOSE z \in {a, b} : \A y \in {a, b} : z >= y)
    OBVIOUS
  <1> QED BY <1>1, <1>2, <1>3, <1>4 DEF Min, Max

\* A verification may always ask for something, and for most at the start.
LEMMA LimitRange ==
  ASSUME NEW committed \in Nat
  PROVE  /\ CheckLimit(committed) \in Nat /\ CheckLimit(committed) >= 1
         /\ CheckLimit(0) \in Nat /\ CheckLimit(committed) <= CheckLimit(0)
  <1> DEFINE left == MaxInput - committed - Overview
             all == MaxInput - 0 - Overview
             low == Min({Verification, RequestCap, left})
             high == Min({Verification, RequestCap, all})
  <1>1. left \in Int /\ all \in Int /\ left <= all /\ Verification \in Int /\ RequestCap \in Int
    OBVIOUS
  <1> HIDE DEF left, all
  <1>2. low \in {Verification, RequestCap, left}
          /\ low <= Verification /\ low <= RequestCap /\ low <= left
    BY <1>1, MinMax, Zenon
  <1>3. low \in Int
    BY <1>2, <1>1
  <1>4. high \in {Verification, RequestCap, all}
    BY <1>1, MinMax, Zenon
  <1>5. low <= high /\ high \in Int
    BY <1>2, <1>1, <1>3, <1>4
  <1> HIDE DEF low, high
  <1>6. /\ Max({1, low}) \in {1, low} /\ Max({1, low}) >= 1
        /\ Max({1, high}) \in {1, high} /\ Max({1, high}) >= 1 /\ Max({1, high}) >= high
    BY <1>3, <1>5, MinMax, 1 \in Int
  <1>7. CheckLimit(committed) = Max({1, low}) /\ CheckLimit(0) = Max({1, high})
    BY DEF CheckLimit, low, high, left, all
  <1> QED BY <1>3, <1>5, <1>6, <1>7

\* With a token left, what a verification may ask for is left.
LEMMA LimitFits ==
  ASSUME NEW committed \in Nat, committed + Overview < MaxInput
  PROVE  /\ committed + Overview + CheckLimit(committed) <= MaxInput
         /\ CheckLimit(committed) <= RequestCap
  <1> DEFINE left == MaxInput - committed - Overview
             low == Min({Verification, RequestCap, left})
  <1>1. left \in Int /\ left >= 1 /\ Verification \in Int /\ RequestCap \in Int
          /\ Verification >= 1 /\ RequestCap >= 1
    OBVIOUS
  <1>2. low \in {Verification, RequestCap, left} /\ low <= RequestCap /\ low <= left
    BY <1>1, MinMax, Zenon
  <1>3. low \in Int /\ low >= 1
    BY <1>1, <1>2
  <1> HIDE DEF low
  <1>4. Max({1, low}) \in {1, low}
    BY <1>3, MinMax, 1 \in Int
  <1>5. CheckLimit(committed) = Max({1, low})
    BY DEF CheckLimit, low
  <1>6. CheckLimit(committed) <= low
    BY <1>3, <1>4, <1>5
  <1> HIDE DEF left
  <1>7. CheckLimit(committed) \in Nat
    BY <1>3, <1>4, <1>5
  <1> QED BY <1>1, <1>2, <1>3, <1>6, <1>7 DEF left

\* Whoever but the overview asks leaves a call and OVERVIEW_INPUT tokens; a
\* reviewer also leaves what a verification that waits may ask for.
LEMMA ProtectedShares ==
  ASSUME NEW kind \in {"grouping", "review", "verification"}
  PROVE  /\ ProtectedCalls(kind) \in Nat /\ ProtectedCalls(kind) >= 1
         /\ ProtectedInput(kind) \in Nat /\ ProtectedInput(kind) >= Overview
         /\ kind = "review" /\ PendingChecks # {} =>
               ProtectedCalls(kind) >= 2 /\ ProtectedInput(kind) >= Overview + CheckLimit(0)
  <1>1. IsFiniteSet(PendingChecks)
    BY FS_Subset, PendingChecks \subseteq Check DEF PendingChecks
  <1>2. PICK n \in Nat : n = Cardinality(PendingChecks)
    BY <1>1, FS_CardinalityType
  <1>3. PendingChecks # {} => n >= 1
    BY <1>1, <1>2, FS_EmptySet
  <1>4. PICK limit \in Nat : limit = CheckLimit(0)
    BY LimitRange, 0 \in Nat
  <1>5. n * limit \in Nat /\ (n >= 1 => n * limit >= limit)
    OBVIOUS
  <1>6. Overview \in Nat
    OBVIOUS
  <1>7. kind # "review" => ProtectedCalls(kind) = 1 /\ ProtectedInput(kind) = Overview + 0 * limit
    BY <1>4 DEF ProtectedCalls, ProtectedInput, ProtectedChecks
  <1>8. kind = "review" =>
           ProtectedCalls(kind) = 1 + n /\ ProtectedInput(kind) = Overview + n * limit
    BY <1>2, <1>4 DEF ProtectedCalls, ProtectedInput, ProtectedChecks
  <1>9. 0 * limit = 0
    BY <1>4
  <1> QED BY <1>3, <1>4, <1>5, <1>6, <1>7, <1>8, <1>9

-----------------------------------------------------------------------------
(* The invariant of the tokens *)

Low == ~Underestimated

\* Nobody has asked for a verification or for the overview yet.
Untouched == \A k \in DOMAIN request : request[k].kind \notin {"verification", "overview"}

\* The job under way has not asked for an overview.
Unasked == \A k \in since + 1 .. Len(request) : request[k].kind # "overview"

Asking(c)  == item[c].status = "running" /\ agent[c] = "ask"
Started(c) == chosen = c \/ (item[c].status = "running" /\ agent[c] \in {"pack", "ask"})

AgentsInv ==
    /\ since \in Nat /\ since <= Len(request)
    /\ agent \in [Item -> {"idle", "pack", "ask", "wait", "end"}]
    /\ chosen # NoItem => item[chosen].status = "queued"
    /\ grouping = "pending" => \A c \in Check : item[c].status = "absent"
    /\ \A i \in Item : packet[i].limit \in Nat /\ packet[i].limit <= CheckLimit(0)

\* The share of the overview, as long as it is not taken.
OverviewInv ==
    Low => /\ Committed <= MaxInput
           /\ step # "closed" /\ Unasked =>
                 Len(request) < MaxCalls /\ Committed + Overview <= MaxInput

\* The share of a verifier that was let through, and of its first packet.
ChecksInv == Low /\ Untouched => \A c \in Check :
    /\ Started(c) => Len(request) + 2 <= MaxCalls /\ Committed + Overview < MaxInput
    /\ Asking(c) => /\ Committed + Overview + packet[c].limit <= MaxInput
                    /\ packet[c].limit <= RequestCap

TokenInv == AgentsInv /\ OverviewInv /\ ChecksInv

\* What is committed is a number.
LEMMA CommittedType == ASSUME GateInv PROVE Committed \in Nat /\ Committed = Total(request)
  BY TotalType DEF GateInv, GateTypes, Committed

-----------------------------------------------------------------------------
(* Steps that ask for nothing *)

\* No request is added, and what was settled cost no more than was reserved,
\* unless the estimate was too low.
RowsLower == RowsKept /\ (Low' => Low /\ Committed' <= Committed)

\* No verifier gets further.
AgentsKept == \A c \in Check :
    /\ Started(c)' => Started(c)
    /\ Asking(c)'  => Asking(c) /\ packet'[c].limit = packet[c].limit

\* A settlement counts for no more than the reservation did.
LEMMA SettleLowers ==
  ASSUME GateInv, NEW k \in DOMAIN request, NEW usage \in Nat, Settle(k, usage)
  PROVE  RowsLower
  <1>1. request \in Seq(Request)
    BY DEF GateInv, GateTypes
  <1>2. RowsKept
    BY <1>1, SettleKeepsRows
  <1>3. CASE request' = request
    BY <1>2, <1>3, CommittedType DEF RowsLower, Low, Underestimated, Committed
  <1>4. CASE request' = Settled(k, usage) /\ request[k].state = "reserved"
    <2> SUFFICES ASSUME Low' PROVE Low /\ Committed' <= Committed
      BY <1>2 DEF RowsLower
    <2>1. request[k] \in Request
      BY <1>1
    <2>2. \A l \in DOMAIN request \ {k} : request'[l] = request[l]
      BY <1>4 DEF Settled
    <2>3. request'[k].reserved = request[k].reserved
      BY <1>1, <1>4, <2>1 DEF Settled, Request
    <2>4. Cost(request[k]) = request[k].reserved
      BY <1>4 DEF Cost
    <2>5. \A l \in DOMAIN request : Cost(request'[l]) <= request'[l].reserved
      <3> TAKE l \in DOMAIN request
      <3>1. l \in DOMAIN request' /\ request'[l] \in Request
        BY <1>1, <1>2 DEF RowsKept
      <3>2. Cost(request'[l]) \in Nat /\ request'[l].reserved \in Nat
        BY <3>1, CostType DEF Request
      <3>3. ~(Cost(request'[l]) > request'[l].reserved)
        BY <3>1 DEF Low, Underestimated
      <3> QED BY <3>2, <3>3
    <2>6. Low
      <3> SUFFICES ASSUME NEW l \in DOMAIN request, Cost(request[l]) > request[l].reserved
                   PROVE  FALSE
        BY DEF Low, Underestimated
      <3>1. request[l] \in Request
        BY <1>1
      <3>2. Cost(request[l]) \in Nat /\ request[l].reserved \in Nat
        BY <3>1, CostType DEF Request
      <3>3. CASE l = k
        BY <2>4, <3>2, <3>3
      <3>4. CASE l # k
        BY <2>2, <2>5, <3>2, <3>4
      <3> QED BY <3>3, <3>4
    <2>7. \A l \in DOMAIN request : Cost(request'[l]) <= Cost(request[l])
      <3> TAKE l \in DOMAIN request
      <3>1. Cost(request[l]) \in Nat
        BY <1>1, CostType
      <3>2. CASE l = k
        BY <2>3, <2>4, <2>5, <3>2
      <3>3. CASE l # k
        BY <2>2, <3>1, <3>3
      <3> QED BY <3>2, <3>3
    <2>8. request' \in Seq(Request) /\ Len(request') = Len(request)
      BY <1>2 DEF RowsKept
    <2>9. Total(request') <= Total(request)
      BY <1>1, <2>7, <2>8, TotalDecreases
    <2> QED BY <2>6, <2>9 DEF Committed
  <1> QED BY <1>3, <1>4 DEF Settle

\* A table that is left alone costs what it did.
LEMMA SameCosts ==
  ASSUME GateInv, request' = request
  PROVE  RowsLower
  <1>1. RowsKept
    BY SameRows DEF GateInv, GateTypes
  <1> QED BY <1>1, CommittedType DEF RowsLower, Low, Underestimated, Committed

\* Who asks for nothing takes no share.
LEMMA LowerKeeps ==
  ASSUME GateInv, TokenInv, RowsLower, GateInv', UNCHANGED since,
         step' # "closed" => step # "closed",
         Untouched => AgentsKept
  PROVE  OverviewInv' /\ ChecksInv'
  <1>1. Committed \in Nat
    BY CommittedType
  <1>2. Committed' \in Nat
    BY TotalType DEF RowsLower, RowsKept, Committed
  <1>3. Len(request') = Len(request) /\ Len(request) \in Nat /\ DOMAIN request' = DOMAIN request
    BY DEF RowsLower, RowsKept, GateInv, GateTypes
  <1>4. Untouched' => Untouched
    BY <1>3 DEF Untouched, RowsLower, RowsKept
  <1>5. Unasked' => Unasked
    <2>1. since + 1 .. Len(request) \subseteq DOMAIN request
      BY <1>3 DEF TokenInv, AgentsInv, GateInv, GateTypes
    <2> QED BY <1>3, <2>1 DEF Unasked, RowsLower, RowsKept
  <1>6. OverviewInv'
    <2> SUFFICES ASSUME Low'
                 PROVE  /\ Committed' <= MaxInput
                        /\ step' # "closed" /\ Unasked' =>
                              Len(request') < MaxCalls /\ Committed' + Overview <= MaxInput
      BY DEF OverviewInv
    <2>1. Low /\ Committed' <= Committed
      BY DEF RowsLower
    <2>2. /\ Committed <= MaxInput
          /\ step # "closed" /\ Unasked => Len(request) < MaxCalls /\ Committed + Overview <= MaxInput
      BY <2>1 DEF TokenInv, OverviewInv
    <2>3. PICK a \in Nat, b \in Nat, max \in Nat, share \in Nat :
              /\ a = Committed /\ b = Committed' /\ b <= a
              /\ max = MaxInput /\ share = Overview
      BY <1>1, <1>2, <2>1, BudgetConstants
    <2>4. b <= max
      BY <2>2, <2>3
    <2>5. a + share <= max => b + share <= max
      <3>1. \A x, y, z, m \in Nat : y <= x /\ x + z <= m => y + z <= m
        OBVIOUS
      <3> QED BY <2>3, <3>1
    <2> QED BY <1>3, <1>5, <2>2, <2>3, <2>4, <2>5
  <1>7. ChecksInv'
    <2> SUFFICES ASSUME Low', Untouched', NEW c \in Check
                 PROVE  /\ Started(c)' => /\ Len(request') + 2 <= MaxCalls
                                          /\ Committed' + Overview < MaxInput
                        /\ Asking(c)' => /\ Committed' + Overview + packet'[c].limit <= MaxInput
                                         /\ packet'[c].limit <= RequestCap
      BY DEF ChecksInv
    <2>1. /\ Started(c)' => Started(c)
          /\ Asking(c)' => Asking(c) /\ packet'[c].limit = packet[c].limit
      BY <1>4 DEF AgentsKept
    <2>2. packet[c].limit \in Nat
      BY DEF TokenInv, AgentsInv
    <2>3. Low /\ Untouched /\ Committed' <= Committed
      BY <1>4 DEF RowsLower
    <2>4. /\ Started(c) => Len(request) + 2 <= MaxCalls /\ Committed + Overview < MaxInput
          /\ Asking(c) => /\ Committed + Overview + packet[c].limit <= MaxInput
                          /\ packet[c].limit <= RequestCap
      BY <2>3 DEF TokenInv, ChecksInv
    <2>5. PICK a \in Nat, b \in Nat, n \in Nat, m \in Nat :
              a = Committed /\ b = Committed' /\ n = packet[c].limit /\ m = Len(request) /\ b <= a
      BY <1>1, <1>2, <1>3, <2>2, <2>3
    <2>6. Started(c)' => Len(request') + 2 <= MaxCalls /\ Committed' + Overview < MaxInput
      <3>1. Started(c)' => m + 2 <= MaxCalls /\ a + Overview < MaxInput
        BY <2>1, <2>4, <2>5
      <3>2. a + Overview < MaxInput => b + Overview < MaxInput
        <4>1. a \in Int /\ b \in Int /\ n \in Int /\ Overview \in Int /\ MaxInput \in Int /\ b <= a
          BY <2>5
        <4> QED BY <4>1, LessFits, Zenon
      <3> QED BY <1>3, <2>5, <3>1, <3>2
    <2>7. Asking(c)' => /\ Committed' + Overview + packet'[c].limit <= MaxInput
                        /\ packet'[c].limit <= RequestCap
      <3>1. Asking(c)' =>
               packet'[c].limit = n /\ a + Overview + n <= MaxInput /\ n <= RequestCap
        BY <2>1, <2>4, <2>5
      <3>2. a + Overview + n <= MaxInput => b + Overview + n <= MaxInput
        <4>1. a \in Int /\ b \in Int /\ n \in Int /\ Overview \in Int /\ MaxInput \in Int /\ b <= a
          BY <2>5
        <4> QED BY <4>1, LessFits, Zenon
      <3> QED BY <2>5, <3>1, <3>2
    <2> QED BY <2>6, <2>7
  <1> QED BY <1>6, <1>7

-----------------------------------------------------------------------------
(* The actions and the tokens *)

\* A new run has everything left.
LEMMA TokensInitially == BudgetInit => TokenInv
  <1> SUFFICES ASSUME BudgetInit PROVE TokenInv
    OBVIOUS
  <1>1. request = <<>> /\ Len(request) = 0 /\ DOMAIN request = {}
    BY DEF BudgetInit
  <1>2. Committed = 0
    BY <1>1, TotalEmpty DEF Committed
  <1>3. CheckLimit(0) \in Nat /\ CheckLimit(0) >= 1
    BY LimitRange, 0 \in Nat
  <1>4. AgentsInv
    <2>1. \A i \in Item : packet[i].limit = 0
      BY DEF BudgetInit, Unpacked, NoPacket
    <2>2. agent = [i \in Item |-> "idle"] /\ chosen = NoItem /\ since = 0
      BY DEF BudgetInit, Idle
    <2>3. \A c \in Check : item[c].status = "absent"
      BY DEF BudgetInit
    <2> QED BY <1>1, <1>3, <2>1, <2>2, <2>3 DEF AgentsInv
  <1>5. OverviewInv
    BY <1>1, <1>2 DEF OverviewInv
  <1>6. \A c \in Check : ~Started(c) /\ ~Asking(c)
    BY DEF BudgetInit, Started, Asking, Idle
  <1> QED BY <1>4, <1>5, <1>6 DEF TokenInv, ChecksInv

\* An answer goes to the agent that asked; as long as no verifier has asked,
\* that is none of them.
LEMMA AnswersKeepTokens ==
  ASSUME GateInv, TokenInv, GateInv',
         NEW k \in DOMAIN request, Answer(k) \/ Fails(k) \/ Parsed(k) \/ Garbled(k)
  PROVE  TokenInv'
  <1>1. UNCHANGED <<item, grouping, since, chosen, packet>>
    BY DEF Answer, Fails, Parsed, Garbled, jobVars, agentVars
  <1>2. RowsLower
    <2>1. CASE Answer(k)
      <3> PICK usage \in Usages : Settle(k, usage)
        BY <2>1 DEF Answer
      <3> QED BY SettleLowers
    <2>2. CASE Fails(k) \/ Garbled(k)
      BY <2>2, SettleLowers, 0 \in Nat DEF Fails, Garbled
    <2>3. CASE Parsed(k)
      BY <2>3, SameCosts DEF Parsed
    <2> QED BY <2>1, <2>2, <2>3
  <1>3. agent' = agent \/ \E next \in {"ask", "end"} :
            request[k].item # NoItem /\ agent' = [agent EXCEPT ![request[k].item] = next]
    BY DEF Answer, Fails, Parsed, Garbled, GoesOn, agentVars
  <1>4. Len(request') = Len(request)
    BY <1>2 DEF RowsLower, RowsKept
  <1>5. AgentsInv'
    <2>1. agent' \in [Item -> {"idle", "pack", "ask", "wait", "end"}]
      BY <1>3 DEF TokenInv, AgentsInv
    <2> QED BY <1>1, <1>4, <2>1 DEF TokenInv, AgentsInv
  <1>6. Untouched => AgentsKept
    <2> SUFFICES ASSUME Untouched, NEW c \in Check
                 PROVE  agent'[c] = agent[c]
      BY <1>1 DEF AgentsKept, Started, Asking
    <2>1. request[k].item # c
      BY DEF Untouched, GateInv, RowsInv, KindOf
    <2> QED BY <1>3, <2>1 DEF TokenInv, AgentsInv
  <1>7. step' # "closed" => step # "closed"
    BY DEF Answer, Fails, Parsed, Garbled, DriverGoesOn, Fence
  <1> QED BY <1>1, <1>2, <1>5, <1>6, <1>7, LowerKeeps DEF TokenInv

\* The handler goes on, or stops all agents.
LEMMA HandlerKeepsTokens ==
  ASSUME GateInv, TokenInv, GateInv',
         \/ \E e \in Estimates : GroupWithoutAsking(e)
         \/ EndReview \/ NoOverview \/ Conclude \/ PassDeadline
         \/ DrainAgents \/ FailRun \/ TakeOver
         \/ UNCHANGED vars
  PROVE  TokenInv'
  <1>1. UNCHANGED <<request, item, grouping, since>>
    BY DEF GroupWithoutAsking, EndReview, NoOverview, Conclude, PassDeadline, DrainAgents,
           FailRun, TakeOver, jobVars, vars
  <1>2. RowsLower
    BY <1>1, SameCosts
  <1>3. /\ agent' \in {agent, Idle} /\ packet' \in {packet, Unpacked}
        /\ chosen' \in {chosen, NoItem}
    BY DEF GroupWithoutAsking, EndReview, NoOverview, Conclude, PassDeadline, DrainAgents,
           FailRun, TakeOver, agentVars, vars
  <1>4. packet' # packet => agent' = Idle
    BY DEF GroupWithoutAsking, EndReview, NoOverview, Conclude, PassDeadline, DrainAgents,
           FailRun, TakeOver, agentVars, vars
  <1>5. step' # "closed" => step # "closed"
    BY DEF GroupWithoutAsking, EndReview, NoOverview, Conclude, PassDeadline, DrainAgents,
           FailRun, TakeOver, vars
  <1>6. CheckLimit(0) \in Nat
    BY LimitRange, 0 \in Nat
  <1>7. AgentsInv'
    <2>1. \A i \in Item : packet'[i].limit \in Nat /\ packet'[i].limit <= CheckLimit(0)
      <3>1. CASE packet' = packet
        BY <3>1 DEF TokenInv, AgentsInv
      <3>2. CASE packet' = Unpacked
        BY <1>6, <3>2 DEF Unpacked, NoPacket
      <3> QED BY <1>3, <3>1, <3>2
    <2>2. agent' \in [Item -> {"idle", "pack", "ask", "wait", "end"}]
      BY <1>3 DEF TokenInv, AgentsInv, Idle
    <2> QED BY <1>1, <1>3, <2>1, <2>2 DEF TokenInv, AgentsInv
  <1>8. AgentsKept
    BY <1>1, <1>3, <1>4 DEF AgentsKept, Started, Asking, Idle
  <1> QED BY <1>1, <1>2, <1>5, <1>7, <1>8, LowerKeeps DEF TokenInv

\* Items are queued, claimed, dropped and given back: no verifier that was not
\* let through before is started by it.
LEMMA ItemsKeepTokens ==
  ASSUME GateInv, TokenInv, GateInv',
         \/ FreezeGrouping \/ Begin \/ Claim
         \/ \E i \in Item : \/ \E e \in StartEstimates(i) : Skip(i, e)
                            \/ \E s \in {"completed", "interrupted"} : AgentEnds(i, s)
         \/ \E c \in Check : SeedHistory(c) \/ \E i \in Unit : Submit(i, c)
  PROVE  TokenInv'
  <1>1. UNCHANGED <<request, since>>
    BY DEF FreezeGrouping, Begin, Claim, Skip, AgentEnds, SeedHistory, Submit, jobVars
  <1>2. RowsLower
    BY <1>1, SameCosts
  <1>3. step' # "closed" => step # "closed"
    BY DEF FreezeGrouping, Begin, Claim, Skip, AgentEnds, SeedHistory, Submit, Working, GateInv,
           StepsInv, TokenInv, AgentsInv
  <1>4. Len(request) \in Nat /\ NoItem \notin Item /\ (\A c \in Check : c \notin Unit)
    BY DEF GateInv, GateTypes
  <1>5. CASE FreezeGrouping
    <2>1. UNCHANGED <<agent, chosen, packet>> /\ chosen = NoItem /\ grouping' = "frozen"
      BY <1>5 DEF FreezeGrouping, agentVars, GateInv, StepsInv
    <2>2. \A c \in Check : item'[c] = item[c]
      BY <1>4, <1>5 DEF FreezeGrouping
    <2>3. AgentsInv'
      BY <1>1, <2>1 DEF TokenInv, AgentsInv
    <2>4. AgentsKept
      BY <2>1, <2>2 DEF AgentsKept, Started, Asking
    <2> QED BY <1>1, <1>2, <1>3, <2>3, <2>4, LowerKeeps DEF TokenInv
  <1>6. CASE Begin
    <2>1. UNCHANGED <<agent, chosen, packet, grouping>>
      BY <1>6 DEF Begin, agentVars
    <2>2. \A i \in Item : /\ item[i].status # "running" => item'[i] = item[i]
                          /\ item'[i].status # "running"
      <3> TAKE i \in Item
      <3>1. item[i] \in [status : {"absent", "queued", "running", "completed",
                                   "interrupted", "skipped"}, try : Nat]
        BY DEF GateInv, GateTypes
      <3>2. item'[i] = IF item[i].status = "running"
                       THEN [item[i] EXCEPT !.status = "queued"] ELSE item[i]
        BY <1>6 DEF Begin
      <3>3. CASE item[i].status = "running"
        BY <3>1, <3>2, <3>3
      <3>4. CASE item[i].status # "running"
        BY <3>2, <3>4
      <3> QED BY <3>3, <3>4
    <2>3. chosen # NoItem => item'[chosen].status = "queued"
      BY <2>2 DEF TokenInv, AgentsInv, GateInv, GateTypes
    <2>4. AgentsInv'
      BY <1>1, <2>1, <2>2, <2>3 DEF TokenInv, AgentsInv
    <2>5. AgentsKept
      BY <2>1, <2>2 DEF AgentsKept, Started, Asking
    <2> QED BY <1>1, <1>2, <1>3, <2>4, <2>5, LowerKeeps DEF TokenInv
  <1>7. CASE Claim
    <2>1. chosen \in Item /\ chosen' = NoItem /\ UNCHANGED grouping /\ grouping = "frozen"
      BY <1>7 DEF Claim, GateInv, GateTypes, StepsInv
    <2>2. PICK next \in {"pack", "ask"} :
              /\ agent' = [agent EXCEPT ![chosen] = next]
              /\ chosen \in Check => next = "pack"
      BY <1>7 DEF Claim
    <2>3. packet' = [packet EXCEPT ![chosen] = NoPacket] /\ CheckLimit(0) \in Nat
      BY <1>7, LimitRange, 0 \in Nat DEF Claim
    <2>4. \A i \in Item \ {chosen} : item'[i] = item[i]
      BY <1>7 DEF Claim
    <2>5. AgentsInv'
      <3>1. \A i \in Item : packet'[i].limit \in Nat /\ packet'[i].limit <= CheckLimit(0)
        BY <2>1, <2>3 DEF TokenInv, AgentsInv, GateInv, GateTypes, NoPacket
      <3>2. agent' \in [Item -> {"idle", "pack", "ask", "wait", "end"}]
        BY <2>2 DEF TokenInv, AgentsInv
      <3> QED BY <1>1, <2>1, <3>1, <3>2 DEF TokenInv, AgentsInv
    <2>6. AgentsKept
      <3> SUFFICES ASSUME NEW c \in Check
                   PROVE  /\ Started(c)' => Started(c)
                          /\ Asking(c)' => Asking(c) /\ packet'[c].limit = packet[c].limit
        BY DEF AgentsKept
      <3>1. CASE c = chosen
        BY <2>1, <2>2, <3>1 DEF Started, Asking, TokenInv, AgentsInv
      <3>2. CASE c # chosen
        BY <1>4, <2>1, <2>2, <2>3, <2>4, <3>2
           DEF Started, Asking, TokenInv, AgentsInv, GateInv, GateTypes
      <3> QED BY <3>1, <3>2
    <2> QED BY <1>1, <1>2, <1>3, <2>5, <2>6, LowerKeeps DEF TokenInv
  <1>8. ASSUME NEW i \in Item, UNCHANGED <<chosen, packet, grouping>>, i # chosen,
               item'[i].status # "running", \A j \in Item \ {i} : item'[j] = item[j],
               agent' = agent \/ agent' = [agent EXCEPT ![i] = "idle"],
               grouping = "pending" /\ i \in Check => item'[i].status = "absent"
        PROVE  TokenInv'
    <2>1. AgentsInv'
      <3>1. agent' \in [Item -> {"idle", "pack", "ask", "wait", "end"}]
        BY <1>8 DEF TokenInv, AgentsInv
      <3>2. chosen # NoItem => item'[chosen].status = "queued"
        BY <1>8 DEF TokenInv, AgentsInv, GateInv, GateTypes
      <3>3. grouping = "pending" => \A c \in Check : item'[c].status = "absent"
        BY <1>8 DEF TokenInv, AgentsInv
      <3> QED BY <1>1, <1>8, <3>1, <3>2, <3>3 DEF TokenInv, AgentsInv
    <2>2. AgentsKept
      <3> SUFFICES ASSUME NEW c \in Check
                   PROVE  /\ Started(c)' => Started(c)
                          /\ Asking(c)' => Asking(c) /\ packet'[c].limit = packet[c].limit
        BY DEF AgentsKept
      <3>1. CASE c = i
        BY <1>8, <3>1 DEF Started, Asking
      <3>2. CASE c # i
        <4>1. item'[c] = item[c] /\ agent'[c] = agent[c]
          BY <1>8, <3>2 DEF TokenInv, AgentsInv
        <4> QED BY <1>8, <4>1 DEF Started, Asking
      <3> QED BY <3>1, <3>2
    <2> QED BY <1>1, <1>2, <1>3, <2>1, <2>2, LowerKeeps DEF TokenInv
  <1>9. CASE \E i \in Item : \E e \in StartEstimates(i) : Skip(i, e)
    <2> PICK i \in Item : \E e \in StartEstimates(i) : Skip(i, e)
      BY <1>9
    <2> PICK e : Skip(i, e)
      OBVIOUS
    <2>1. /\ UNCHANGED <<chosen, packet, grouping, agent>> /\ i # chosen
          /\ item[i].status \in {"queued", "running"}
          /\ item' = [item EXCEPT ![i].status = "skipped"]
      BY DEF Skip, agentVars
    <2>2. item'[i].status = "skipped" /\ \A j \in Item \ {i} : item'[j] = item[j]
      BY <2>1 DEF GateInv, GateTypes
    <2>3. ~(grouping = "pending" /\ i \in Check)
      BY <2>1 DEF TokenInv, AgentsInv
    <2> QED BY <1>8, <2>1, <2>2, <2>3
  <1>10. CASE \E i \in Item : \E s \in {"completed", "interrupted"} : AgentEnds(i, s)
    <2> PICK i \in Item, s \in {"completed", "interrupted"} : AgentEnds(i, s)
      BY <1>10
    <2>1. /\ UNCHANGED <<chosen, packet, grouping>> /\ item[i].status = "running"
          /\ item' = [item EXCEPT ![i].status = s] /\ agent' = [agent EXCEPT ![i] = "idle"]
      BY DEF AgentEnds, Working
    <2>2. item'[i].status = s /\ \A j \in Item \ {i} : item'[j] = item[j]
      BY <2>1 DEF GateInv, GateTypes
    <2>3. ~(grouping = "pending" /\ i \in Check) /\ i # chosen
      BY <1>4, <2>1 DEF TokenInv, AgentsInv
    <2> QED BY <1>8, <2>1, <2>2, <2>3
  <1>11. CASE \E c \in Check : SeedHistory(c) \/ \E i \in Unit : Submit(i, c)
    <2> PICK c \in Check : SeedHistory(c) \/ \E i \in Unit : Submit(i, c)
      BY <1>11
    <2>1. /\ UNCHANGED <<chosen, packet, grouping, agent>> /\ item[c].status = "absent"
          /\ item' = [item EXCEPT ![c] = [status |-> "queued", try |-> 0]]
          /\ grouping = "frozen"
      BY DEF SeedHistory, Submit, Working, agentVars, GateInv, StepsInv
    <2>2. item'[c].status = "queued" /\ \A j \in Item \ {c} : item'[j] = item[j]
      BY <2>1 DEF GateInv, GateTypes
    <2>3. c # chosen /\ c \in Item
      BY <1>4, <2>1 DEF TokenInv, AgentsInv
    <2> QED BY <1>8, <2>1, <2>2, <2>3
  <1> QED BY <1>5, <1>6, <1>7, <1>9, <1>10, <1>11

\* The shares of verifiers that were let through, while nobody asks.
LEMMA ChecksKeep ==
  ASSUME ChecksInv, request' = request, AgentsKept
  PROVE  ChecksInv'
  BY DEF ChecksInv, AgentsKept, Low, Underestimated, Untouched, Committed

\* A verifier is let through only with its calls and at least a token left.
LEMMA StartKeepsTokens ==
  ASSUME GateInv, TokenInv, NEW i \in Item, NEW e \in StartEstimates(i), MayStart(i, e)
  PROVE  TokenInv'
  <1>1. UNCHANGED <<request, item, grouping, since, step, agent, packet>> /\ chosen' = i
          /\ item[i].status = "queued" /\ Admits(KindOf(i), i, e)
    BY DEF MayStart, jobVars
  <1>2. AgentsInv'
    BY <1>1 DEF TokenInv, AgentsInv
  <1>3. OverviewInv'
    BY <1>1 DEF TokenInv, OverviewInv, Low, Underestimated, Committed, Unasked
  <1>4. PICK a \in Nat, m \in Nat : a = Committed /\ m = Len(request)
    BY CommittedType DEF GateInv, GateTypes
  <1>5. ASSUME i \in Check
        PROVE  m + 2 <= MaxCalls /\ a + Overview < MaxInput
    <2>1. KindOf(i) = "verification" /\ e = CheckLimit(a)
      BY <1>4, <1>5 DEF KindOf, StartEstimates
    <2>2. PICK calls \in Nat, left \in Nat :
              /\ calls = ProtectedCalls("verification") /\ left = ProtectedInput("verification")
              /\ calls >= 1 /\ left >= Overview
      BY ProtectedShares
    <2>3. e \in Nat /\ e >= 1
      BY <2>1, LimitRange
    <2>4. m + 1 + calls <= MaxCalls /\ a + e + left <= MaxInput
      BY <1>1, <1>4, <2>1, <2>2 DEF Admits
    <2>5. a \in Int /\ e \in Int /\ left \in Int /\ Overview \in Int /\ MaxInput \in Int
      BY <1>4, <2>2, <2>3
    <2>6. a + Overview < MaxInput
      BY <2>2, <2>3, <2>4, <2>5, LeavesRoom, Zenon
    <2>7. m \in Int /\ calls \in Int /\ MaxCalls \in Int
      BY <1>4, <2>2
    <2>8. m + 2 <= MaxCalls
      BY <2>2, <2>4, <2>7
    <2> QED BY <2>6, <2>8
  <1>6. ChecksInv'
    <2> SUFFICES ASSUME Low', Untouched', NEW c \in Check
                 PROVE  /\ Started(c)' => Len(request') + 2 <= MaxCalls
                                          /\ Committed' + Overview < MaxInput
                        /\ Asking(c)' => /\ Committed' + Overview + packet'[c].limit <= MaxInput
                                         /\ packet'[c].limit <= RequestCap
      BY DEF ChecksInv
    <2>1. Low /\ Untouched /\ Committed' = a /\ Len(request') = m
      BY <1>1, <1>4 DEF Low, Underestimated, Untouched, Committed
    <2>2. Asking(c)' => Asking(c)
      BY <1>1 DEF Asking
    <2>3. Started(c)' => Started(c) \/ c = i
      BY <1>1 DEF Started
    <2>4. Asking(c) => /\ a + Overview + packet[c].limit <= MaxInput
                       /\ packet[c].limit <= RequestCap
      BY <1>4, <2>1 DEF TokenInv, ChecksInv
    <2>5. Started(c) => m + 2 <= MaxCalls /\ a + Overview < MaxInput
      BY <1>4, <2>1 DEF TokenInv, ChecksInv
    <2> QED BY <1>1, <1>5, <2>1, <2>2, <2>3, <2>4, <2>5
  <1> QED BY <1>2, <1>3, <1>6 DEF TokenInv

\* A verifier cuts its packet to what is left.
LEMMA PackKeepsTokens ==
  ASSUME GateInv, TokenInv, NEW c \in Check, Pack(c)
  PROVE  TokenInv'
  <1>1. UNCHANGED <<request, item, grouping, since, step, chosen>>
          /\ item[c].status = "running" /\ agent[c] = "pack"
    BY DEF Pack, Working, jobVars
  <1>2. PICK a \in Nat, m \in Nat : a = Committed /\ m = Len(request)
    BY CommittedType DEF GateInv, GateTypes
  <1>3. PICK limit \in Nat : limit = CheckLimit(a) /\ limit <= CheckLimit(0)
    BY LimitRange
  <1>4. \/ packet' = packet /\ agent' = [agent EXCEPT ![c] = "end"]
        \/ /\ agent' = [agent EXCEPT ![c] = "ask"]
           /\ \E size \in Nat : packet' = [packet EXCEPT ![c] = [size |-> size, limit |-> limit]]
    BY <1>2, <1>3, Verification \in Nat DEF Pack
  <1>5. \/ packet'[c].limit = packet[c].limit /\ agent'[c] = "end"
        \/ packet'[c].limit = limit /\ agent'[c] = "ask"
    BY <1>4 DEF TokenInv, AgentsInv, GateInv, GateTypes
  <1>6. \A i \in Item \ {c} : packet'[i] = packet[i] /\ agent'[i] = agent[i]
    BY <1>4 DEF TokenInv, AgentsInv, GateInv, GateTypes
  <1>7. AgentsInv'
    <2>1. agent' \in [Item -> {"idle", "pack", "ask", "wait", "end"}]
      BY <1>4 DEF TokenInv, AgentsInv
    <2>2. \A i \in Item : packet'[i].limit \in Nat /\ packet'[i].limit <= CheckLimit(0)
      BY <1>3, <1>5, <1>6 DEF TokenInv, AgentsInv
    <2> QED BY <1>1, <2>1, <2>2 DEF TokenInv, AgentsInv
  <1>8. OverviewInv'
    BY <1>1 DEF TokenInv, OverviewInv, Low, Underestimated, Committed, Unasked
  <1>9. ChecksInv'
    <2> SUFFICES ASSUME Low', Untouched', NEW d \in Check
                 PROVE  /\ Started(d)' => Len(request') + 2 <= MaxCalls
                                          /\ Committed' + Overview < MaxInput
                        /\ Asking(d)' => /\ Committed' + Overview + packet'[d].limit <= MaxInput
                                         /\ packet'[d].limit <= RequestCap
      BY DEF ChecksInv
    <2>1. Low /\ Untouched /\ Committed' = a /\ Len(request') = m
      BY <1>1, <1>2 DEF Low, Underestimated, Untouched, Committed
    <2>2. \A x \in Check :
            /\ Started(x) => m + 2 <= MaxCalls /\ a + Overview < MaxInput
            /\ Asking(x) => /\ a + Overview + packet[x].limit <= MaxInput
                            /\ packet[x].limit <= RequestCap
      BY <1>2, <2>1 DEF TokenInv, ChecksInv
    <2>3. CASE d = c
      <3>1. Started(c)
        BY <1>1 DEF Started
      <3>2. m + 2 <= MaxCalls /\ a + Overview < MaxInput
        BY <2>2, <3>1
      <3>3. a + Overview + limit <= MaxInput /\ limit <= RequestCap
        <4>1. a + Overview + 1 <= MaxInput
          BY <3>2
        <4> QED BY <1>3, <4>1, LimitFits
      <3>4. Asking(d)' => packet'[d].limit = limit
        BY <1>5, <2>3 DEF Asking
      <3> QED BY <2>1, <2>3, <3>2, <3>3, <3>4
    <2>4. CASE d # c
      <3>1. packet'[d] = packet[d] /\ agent'[d] = agent[d]
        BY <1>6, <2>4
      <3>2. (Started(d)' => Started(d)) /\ (Asking(d)' => Asking(d))
        BY <1>1, <3>1 DEF Started, Asking
      <3> QED BY <2>1, <2>2, <3>1, <3>2
    <2> QED BY <2>3, <2>4
  <1> QED BY <1>7, <1>8, <1>9 DEF TokenInv

\* A retry is let through only with the share of its overview.
LEMMA RetryKeepsTokens ==
  ASSUME GateInv, TokenInv, GateInv', NEW kind \in {"review", "overview"}, Retry(kind)
  PROVE  TokenInv'
  <1>1. UNCHANGED <<request, grouping, chosen, agent, packet>> /\ since' = Len(request)
          /\ RetryAffordable
    BY DEF Retry, agentVars
  <1>2. \A i \in Item : \/ item'[i].status = item[i].status
                        \/ item[i].status # "absent" /\ item'[i].status = "queued"
    <2> TAKE i \in Item
    <2>1. item[i] \in [status : {"absent", "queued", "running", "completed",
                                 "interrupted", "skipped"}, try : Nat]
      BY DEF GateInv, GateTypes
    <2>2. \/ item'[i] = item[i]
          \/ item[i].status # "absent" /\ item'[i] = [item[i] EXCEPT !.status = "queued"]
      BY DEF Retry
    <2> QED BY <2>1, <2>2
  <1>3. Len(request) \in Nat
    BY DEF GateInv, GateTypes
  <1>4. AgentsInv'
    <2>1. chosen # NoItem => item'[chosen].status = "queued"
      BY <1>2 DEF TokenInv, AgentsInv, GateInv, GateTypes
    <2> QED BY <1>1, <1>2, <1>3, <2>1 DEF TokenInv, AgentsInv
  <1>5. OverviewInv'
    BY <1>1 DEF TokenInv, OverviewInv, Low, Underestimated, Committed, RetryAffordable
  <1>6. AgentsKept
    BY <1>1, <1>2 DEF AgentsKept, Started, Asking
  <1> QED BY <1>1, <1>4, <1>5, <1>6, ChecksKeep DEF TokenInv

\* What a request costs is what was admitted: a reviewer leaves the shares of
\* the verifiers that were let through, a verifier that of the overview.
LEMMA RequestsKeepTokens ==
  ASSUME GateInv, TokenInv, GateInv',
         \/ \E e \in Estimates : AskGrouping(e)
         \/ \E i \in Item : \E e \in Sizes(i) : Ask(i, e)
         \/ AskOverview(Overview)
  PROVE  TokenInv'
  <1>1. PICK kind \in {"grouping", "review", "verification", "overview"},
             i \in Item \cup {NoItem}, estimate \in Nat, try \in Nat :
          /\ Admits(kind, i, estimate) /\ Reserve(kind, i, try, estimate)
          /\ kind = "grouping" => step = "group" /\ UNCHANGED agent
          /\ kind \in {"review", "verification"} =>
                i \in Item /\ kind = KindOf(i) /\ agent' = [agent EXCEPT ![i] = "wait"]
          /\ kind = "overview" => UNCHANGED agent
          /\ UNCHANGED <<item, grouping, since, chosen, packet>> /\ step # "closed"
    <2>1. CASE \E e \in Estimates : AskGrouping(e)
      <3> PICK e \in Estimates : AskGrouping(e)
        BY <2>1
      <3>1. e \in Nat /\ NoItem \in Item \cup {NoItem} /\ 0 \in Nat
        OBVIOUS
      <3>2. /\ Admits("grouping", NoItem, e) /\ Reserve("grouping", NoItem, 0, e)
            /\ step = "group" /\ UNCHANGED <<agent, item, grouping, since, chosen, packet>>
        BY DEF AskGrouping, jobVars, agentVars
      <3> QED BY <3>1, <3>2
    <2>2. CASE AskOverview(Overview)
      <3>1. Overview \in Nat /\ NoItem \in Item \cup {NoItem} /\ 0 \in Nat
        OBVIOUS
      <3>2. /\ Admits("overview", NoItem, Overview) /\ Reserve("overview", NoItem, 0, Overview)
            /\ step = "overview" /\ UNCHANGED <<agent, item, grouping, since, chosen, packet>>
        BY <2>2 DEF AskOverview, jobVars, agentVars
      <3> QED BY <3>1, <3>2
    <2>3. CASE \E i \in Item : \E e \in Sizes(i) : Ask(i, e)
      <3> PICK i \in Item : \E e \in Sizes(i) : Ask(i, e)
        BY <2>3
      <3> PICK e \in Sizes(i) : Ask(i, e)
        OBVIOUS
      <3>1. e \in Nat
        <4>1. packet[i].size \in Nat
          BY DEF GateInv, GateTypes
        <4> QED BY <4>1 DEF Sizes
      <3>2. KindOf(i) \in {"review", "verification"} /\ i \in Item \cup {NoItem}
              /\ item[i].try \in Nat
        BY DEF KindOf, GateInv, GateTypes
      <3>3. /\ Admits(KindOf(i), i, e) /\ Reserve(KindOf(i), i, item[i].try, e)
            /\ step = "review" /\ UNCHANGED <<item, grouping, since, chosen, packet>>
            /\ agent' = [agent EXCEPT ![i] = "wait"]
        BY DEF Ask, Working, jobVars
      <3> QED BY <3>1, <3>2, <3>3
    <2> QED BY <2>1, <2>2, <2>3
  <1>2. PICK row : row = [kind |-> kind, item |-> i, try |-> try, epoch |-> epoch,
                          state |-> "reserved", reserved |-> estimate, used |-> 0]
    OBVIOUS
  <1>3. request \in Seq(Request) /\ row \in Request /\ row.kind = kind
          /\ Cost(row) = estimate /\ row.reserved = estimate
    BY <1>2 DEF GateInv, GateTypes, Request, Cost
  <1>4. PICK m \in Nat : m = Len(request)
    BY <1>3
  <1>5. /\ request' = Append(request, row) /\ Len(request') = m + 1
        /\ DOMAIN request' = DOMAIN request \cup {m + 1} /\ m + 1 \notin DOMAIN request
        /\ request'[m + 1] = row /\ \A k \in DOMAIN request : request'[k] = request[k]
    <2>1. request' = Append(request, row)
      BY <1>1, <1>2 DEF Reserve
    <2> QED BY <1>3, <1>4, <2>1
  <1>6. PICK a \in Nat : a = Committed /\ Committed' = a + estimate
    <2>1. Committed \in Nat /\ Committed = Total(request)
      BY CommittedType
    <2>2. Committed' = Total(request')
      BY DEF Committed
    <2>3. Total(request') = Total(request) + estimate
      BY <1>3, <1>5, TotalAppend
    <2> QED BY <2>1, <2>2, <2>3
  <1>7. Low' => Low
    BY <1>5 DEF Low, Underestimated
  <1>8. PICK calls \in Nat, left \in Nat :
          /\ calls = ProtectedCalls(kind) /\ left = ProtectedInput(kind)
          /\ kind # "overview" => calls >= 1 /\ left >= Overview
          /\ kind = "review" /\ PendingChecks # {} =>
                calls >= 2 /\ left >= Overview + CheckLimit(0)
    <2>1. CASE kind = "overview"
      BY <2>1, 0 \in Nat DEF ProtectedCalls, ProtectedInput
    <2>2. CASE kind # "overview"
      BY <2>2, ProtectedShares
    <2> QED BY <2>1, <2>2
  <1>9. m + 1 + calls <= MaxCalls /\ a + estimate + left <= MaxInput
    BY <1>1, <1>4, <1>6, <1>8 DEF Admits
  <1>10. a \in Int /\ estimate \in Int /\ left \in Int /\ Overview \in Int /\ MaxInput \in Int
           /\ m \in Int /\ calls \in Int /\ MaxCalls \in Int
    BY <1>4, <1>6, <1>8
  <1>11. AgentsInv'
    <2>1. agent' \in [Item -> {"idle", "pack", "ask", "wait", "end"}]
      BY <1>1 DEF TokenInv, AgentsInv
    <2> QED BY <1>1, <1>4, <1>5, <2>1 DEF TokenInv, AgentsInv
  <1>12. OverviewInv'
    <2>1. a + estimate <= MaxInput
      BY <1>9, <1>10, <1>8
    <2>2. kind # "overview" => m + 1 < MaxCalls
      BY <1>8, <1>9, <1>10
    <2>3. kind # "overview" => (a + estimate) + Overview <= MaxInput
      BY <1>8, <1>9, <1>10, LeavesRoom, Zenon
    <2>4. Unasked' => kind # "overview"
      <3>1. PICK s \in Nat : s = since' /\ s <= m
        BY <1>1, <1>4 DEF TokenInv, AgentsInv
      <3>2. m + 1 \in s + 1 .. m + 1
        BY <3>1, AddedLater, Zenon
      <3> QED BY <1>3, <1>5, <3>1, <3>2 DEF Unasked
    <2> QED BY <1>5, <1>6, <2>1, <2>2, <2>3, <2>4 DEF OverviewInv
  <1>13. ChecksInv'
    <2> SUFFICES ASSUME Low', Untouched', NEW c \in Check
                 PROVE  /\ Started(c)' => Len(request') + 2 <= MaxCalls
                                          /\ Committed' + Overview < MaxInput
                        /\ Asking(c)' => /\ Committed' + Overview + packet'[c].limit <= MaxInput
                                         /\ packet'[c].limit <= RequestCap
      BY DEF ChecksInv
    <2>1. kind \in {"grouping", "review"} /\ Low /\ Untouched
      BY <1>3, <1>5, <1>7 DEF Untouched
    <2>2. CASE kind = "grouping"
      <3>1. item[c].status = "absent" /\ chosen = NoItem
        BY <1>1, <2>2 DEF GateInv, StepsInv, TokenInv, AgentsInv
      <3>2. ~Started(c)' /\ ~Asking(c)'
        BY <1>1, <3>1 DEF Started, Asking
      <3> QED BY <3>2
    <2>3. CASE kind = "review"
      <3>1. i \in Unit /\ i # c /\ agent'[c] = agent[c]
        BY <1>1, <2>3 DEF KindOf, TokenInv, AgentsInv
      <3>2. (Started(c)' => Started(c)) /\ (Asking(c)' => Asking(c)) /\ packet'[c] = packet[c]
        BY <1>1, <3>1 DEF Started, Asking
      <3>3. Started(c) => c \in PendingChecks
        BY <2>1 DEF Started, PendingChecks, Requested, Untouched, TokenInv, AgentsInv
      <3>4. PICK limit \in Nat, n \in Nat :
               limit = CheckLimit(0) /\ limit >= 1 /\ n = packet[c].limit /\ n <= limit
        BY LimitRange, 0 \in Nat DEF TokenInv, AgentsInv
      <3>5. ASSUME Started(c)
            PROVE  m + 3 <= MaxCalls /\ (a + estimate) + Overview + limit <= MaxInput
        <4>1. calls >= 2 /\ left >= Overview + limit
          BY <1>8, <2>3, <3>3, <3>4, <3>5
        <4>2. Overview + limit \in Int
          BY <3>4
        <4>3. (a + estimate) + (Overview + limit) <= MaxInput
          BY <1>9, <1>10, <4>1, <4>2, LeavesRoom, Zenon
        <4>4. m + 3 <= MaxCalls
          BY <1>9, <1>10, <4>1
        <4> QED BY <1>10, <3>4, <4>3, <4>4
      <3>6. Asking(c) => Started(c) /\ n <= RequestCap
        BY <2>1, <3>4 DEF Asking, Started, TokenInv, ChecksInv
      <3>7. PICK t \in Nat : t = a + estimate /\ t = Committed'
        BY <1>6
      <3>8. t + Overview + limit <= MaxInput =>
               t + Overview < MaxInput /\ t + Overview + n <= MaxInput
        BY <1>10, <3>4, <3>7
      <3>9. Started(c) => m + 3 <= MaxCalls /\ t + Overview + limit <= MaxInput
        BY <3>5, <3>7
      <3>10. m + 3 <= MaxCalls => (m + 1) + 2 <= MaxCalls
        BY <1>10
      <3> QED BY <1>5, <3>2, <3>4, <3>6, <3>7, <3>8, <3>9, <3>10
    <2> QED BY <2>1, <2>2, <2>3
  <1> QED BY <1>11, <1>12, <1>13 DEF TokenInv

-----------------------------------------------------------------------------
(* The theorems of the tokens *)

\* Whoever asks, the shares of the overview and of the verifiers that were let
\* through stay.
LEMMA TokensKept ==
  ASSUME GateInv, TokenInv, [BudgetNext]_vars, GateInv'
  PROVE  TokenInv'
  <1>1. CASE \E k \in DOMAIN request : Answer(k) \/ Fails(k) \/ Parsed(k) \/ Garbled(k)
    BY <1>1, AnswersKeepTokens
  <1>2. CASE \/ \E e \in Estimates : AskGrouping(e)
             \/ \E i \in Item : \E e \in Sizes(i) : Ask(i, e)
             \/ AskOverview(Overview)
    BY <1>2, RequestsKeepTokens
  <1>3. CASE \/ FreezeGrouping \/ Begin \/ Claim
             \/ \E i \in Item : \/ \E e \in StartEstimates(i) : Skip(i, e)
                                \/ \E s \in {"completed", "interrupted"} : AgentEnds(i, s)
             \/ \E c \in Check : SeedHistory(c) \/ \E i \in Unit : Submit(i, c)
    BY <1>3, ItemsKeepTokens
  <1>4. CASE \/ \E e \in Estimates : GroupWithoutAsking(e)
             \/ EndReview \/ NoOverview \/ Conclude \/ PassDeadline
             \/ DrainAgents \/ FailRun \/ TakeOver
             \/ UNCHANGED vars
    BY <1>4, HandlerKeepsTokens
  <1>5. CASE \E i \in Item : \E e \in StartEstimates(i) : MayStart(i, e)
    BY <1>5, StartKeepsTokens
  <1>6. CASE \E c \in Check : Pack(c)
    BY <1>6, PackKeepsTokens
  <1>7. CASE \E kind \in {"review", "overview"} : Retry(kind)
    BY <1>7, RetryKeepsTokens
  <1> QED BY <1>1, <1>2, <1>3, <1>4, <1>5, <1>6, <1>7 DEF BudgetNext

\* The invariant of the tokens: as long as no answer used more than was
\* estimated, what is committed fits the limit, an overview fits until one was
\* asked for, and so does the first request of a verifier that was let through.
THEOREM TokenInvariance == BudgetSpec => []TokenInv
  <1>1. BudgetInit => GateInv /\ TokenInv
    BY Initially, TokensInitially
  <1>2. TokenInv /\ GateInv /\ [BudgetNext]_vars /\ GateInv' => TokenInv'
    BY TokensKept
  <1> QED BY <1>1, <1>2, GateInvariance, PTL DEF BudgetSpec

\* However many ask side by side, and over takeovers and retries, the input
\* tokens stay within the limit unless an answer used more than was estimated
\* (store.py:368-377, README.md:131 of the repository).
THEOREM InputStaysWithinLimit == BudgetSpec => []InputWithinLimit
  <1>1. GateInv /\ TokenInv => InputWithinLimit
    BY DEF TokenInv, OverviewInv, InputWithinLimit, Low
  <1> QED BY <1>1, GateInvariance, TokenInvariance, PTL

\* The share of the overview is there when it asks, and the first packet of a
\* verifier that was let through is admitted, whatever reviewers asked for
\* since (store.py:337-380).
THEOREM SharesStayProtected == BudgetSpec => []SharesAreProtected
  <1>1. GateInv /\ TokenInv => SharesAreProtected
    <2> SUFFICES ASSUME GateInv, TokenInv PROVE SharesAreProtected
      OBVIOUS
    <2>1. OverviewAffordable
      BY DEF TokenInv, OverviewInv, OverviewAffordable, Low, Unasked
    <2>2. PackedCheckIsAdmitted
      <3> SUFFICES ASSUME NEW c \in Check, Working(c), agent[c] = "ask",
                          packet[c].size + Margin <= packet[c].limit,
                          clock # "hard", Low, Untouched
                   PROVE  Admits("verification", c, packet[c].size + Margin)
        BY DEF PackedCheckIsAdmitted, Low, Untouched
      <3>1. Started(c) /\ Asking(c)
        BY DEF Started, Asking, Working
      <3>2. PICK size \in Nat, limit \in Nat :
               size = packet[c].size + Margin /\ limit = packet[c].limit /\ size <= limit
        BY Margin \in Nat DEF GateInv, GateTypes, TokenInv, AgentsInv
      <3>3. PICK a \in Nat, m \in Nat : a = Committed /\ m = Len(request)
        BY CommittedType DEF GateInv, GateTypes
      <3>4. m + 2 <= MaxCalls /\ a + Overview + limit <= MaxInput /\ limit <= RequestCap
        BY <3>1, <3>2, <3>3 DEF TokenInv, ChecksInv
      <3>5. ProtectedCalls("verification") = 1
        BY DEF ProtectedCalls, ProtectedChecks
      <3>6. ProtectedInput("verification") = Overview
        <4>1. CheckLimit(0) \in Nat
          BY LimitRange, 0 \in Nat
        <4>2. 0 * CheckLimit(0) = 0
          BY <4>1
        <4> QED BY <4>2 DEF ProtectedInput, ProtectedChecks
      <3>7. Cardinality(CallsOf(c)) < AgentCalls
        <4>1. item[c].try > 0
          BY DEF Working, GateInv, ItemsInv
        <4>2. CallsOf(c) = {}
          <5> SUFFICES ASSUME NEW k \in CallsOf(c) PROVE FALSE
            OBVIOUS
          <5>1. k \in DOMAIN request /\ request[k].item = c /\ c \in Item /\ c \notin Unit
            BY <4>1 DEF CallsOf, OfAttempt
          <5>2. request[k].kind = "verification"
            BY <5>1 DEF GateInv, RowsInv, KindOf
          <5> QED BY <5>1, <5>2 DEF Untouched
        <4>3. Cardinality(CallsOf(c)) = 0
          BY <4>2, FS_EmptySet
        <4> QED BY <4>3
      <3>8. InTime("verification")
        BY DEF InTime
      <3>9. m + 1 + 1 <= MaxCalls /\ a + size + Overview <= MaxInput /\ size <= RequestCap
        <4>1. \A x, y, o, max \in Int : size <= limit /\ x + o + limit <= max => x + size + o <= max
          BY <3>2
        <4>2. a \in Int /\ Overview \in Int /\ MaxInput \in Int /\ m \in Int /\ MaxCalls \in Int
                /\ RequestCap \in Int
          BY <3>3
        <4>3. a + size + Overview <= MaxInput
          BY <3>2, <3>4, <4>1, <4>2
        <4> QED BY <3>2, <3>4, <4>2, <4>3
      <3> QED BY <3>2, <3>3, <3>5, <3>6, <3>7, <3>8, <3>9 DEF Admits
    <2> QED BY <2>1, <2>2 DEF SharesAreProtected
  <1> QED BY <1>1, GateInvariance, TokenInvariance, PTL
=============================================================================
