----------------------------- MODULE InputProofs -----------------------------
(***************************************************************************)
(* Proofs about what goes into a review.                                   *)
(***************************************************************************)
EXTENDS GitSnapshot, ReviewPlan, Increments, Retrieval, BudgetProofs

\* The commits that are reached after n steps.
Reaching(r, from) ==
    r = [n \in 0 .. CommitCount |->
            IF n = 0 THEN from ELSE r[n - 1] \cup UNION {parents[c] : c \in r[n - 1]}]

\* Commits are numbered so that their parents are smaller.
Graph == parents \in [Revision -> SUBSET Revision] /\ \A c \in Revision : \A d \in parents[c] : d < c

\* Reached follows parents as often as there are commits.
LEMMA ReachDef ==
  ASSUME Graph, NEW from \in SUBSET Revision
  PROVE  \E r \in [0 .. CommitCount -> SUBSET Revision] :
            Reaching(r, from) /\ Reached(from) = r[CommitCount]
  <1>0. PICK D : D = SUBSET Revision
    OBVIOUS
  <1>1. \A X \in D : X \cup UNION {parents[c] : c \in X} \in D
    BY <1>0 DEF Graph
  <1>2. PICK G \in [1 .. CommitCount -> [D -> D]] :
             G = [n \in 1 .. CommitCount |-> [X \in D |-> X \cup UNION {parents[c] : c \in X}]]
    BY <1>1
  <1> from \in D /\ CommitCount \in Nat
    BY <1>0, GitAssumption
  <1>3. PICK f \in [0 .. CommitCount -> D] :
             f[0] = from /\ \A i \in 1 .. CommitCount : f[i] = G[i][f[i - 1]]
    BY Recursion
  <1>4. ASSUME NEW i \in 1 .. CommitCount
        PROVE  f[i] = f[i - 1] \cup UNION {parents[c] : c \in f[i - 1]}
    <2>1. i - 1 \in 0 .. CommitCount
      OBVIOUS
    <2>2. f[i - 1] \in D
      BY <2>1
    <2>3. f[i] = G[i][f[i - 1]]
      BY <1>3
    <2> QED BY <1>2, <2>2, <2>3
  <1>5. Reaching(f, from)
    <2>1. \A n \in 0 .. CommitCount :
             f[n] = IF n = 0 THEN from ELSE f[n - 1] \cup UNION {parents[c] : c \in f[n - 1]}
      BY <1>3, <1>4, GitAssumption DEF GitAssumption
    <2>2. f = [n \in 0 .. CommitCount |-> f[n]]
      BY <1>3
    <2> QED BY <2>1, <2>2 DEF Reaching
  <1>6. Reached(from) = (CHOOSE r : Reaching(r, from))[CommitCount]
    BY DEF Reached, Reaching
  <1>7. PICK r : r = (CHOOSE q : Reaching(q, from))
    OBVIOUS
  <1>8. Reaching(r, from)
    BY <1>5, <1>7
  \* the equations of r determine it, so it has the type of f
  <1>9. r = f
    <2> DEFINE S == {n \in Nat : n <= CommitCount => r[n] = f[n]}
    <2>0. \A n \in 0 .. CommitCount :
             r[n] = IF n = 0 THEN from ELSE r[n - 1] \cup UNION {parents[c] : c \in r[n - 1]}
      BY <1>8 DEF Reaching
    <2>1. 0 \in S
      <3>1. 0 \in 0 .. CommitCount
        OBVIOUS
      <3>2. r[0] = IF 0 = 0 THEN from ELSE r[0 - 1] \cup UNION {parents[c] : c \in r[0 - 1]}
        BY <2>0, <3>1, Zenon
      <3> QED BY <1>3, <3>2
    <2>2. ASSUME NEW n \in Nat, n \in S PROVE n + 1 \in S
      <3>1. CASE n + 1 <= CommitCount
        <4>1. n + 1 \in 0 .. CommitCount /\ n + 1 # 0 /\ n + 1 \in 1 .. CommitCount /\ (n + 1) - 1 = n
          BY <3>1
        <4>2. r[n + 1] = r[n] \cup UNION {parents[c] : c \in r[n]}
          BY <2>0, <4>1
        <4>3. f[n + 1] = f[n] \cup UNION {parents[c] : c \in f[n]}
          BY <1>4, <4>1
        <4>4. r[n] = f[n]
          BY <2>2, <3>1
        <4>5. r[n + 1] = f[n + 1]
          BY <4>2, <4>3, <4>4
        <4> QED BY <4>5
      <3> QED BY <3>1
    <2> HIDE DEF S
    <2>3. Nat \subseteq S
      BY <2>1, <2>2, Induction
    <2>4. \A n \in 0 .. CommitCount : r[n] = f[n]
      BY <2>3, GitAssumption DEF S, GitAssumption
    <2>5. DOMAIN r = 0 .. CommitCount /\ r = [n \in 0 .. CommitCount |-> r[n]]
      BY <1>8 DEF Reaching
    <2> QED BY <1>3, <2>4, <2>5
  <1> QED BY <1>0, <1>3, <1>6, <1>7, <1>8, <1>9

Closed(S) == \A c \in S : parents[c] \subseteq S

\* What is reached holds where it starts and, since commits are greater than
\* their parents, everything before it after CommitCount steps.
LEMMA ReachedIsClosed ==
  ASSUME Graph, NEW from \in SUBSET Revision
  PROVE  /\ Reached(from) \subseteq Revision /\ from \subseteq Reached(from)
         /\ Closed(Reached(from))
  <1> CommitCount \in Nat
    BY GitAssumption
  <1>1. PICK r \in [0 .. CommitCount -> SUBSET Revision] :
             Reaching(r, from) /\ Reached(from) = r[CommitCount]
    BY ReachDef
  <1>2. r[0] = from
    BY <1>1 DEF Reaching
  <1>3. ASSUME NEW n \in 1 .. CommitCount
        PROVE  r[n] = r[n - 1] \cup UNION {parents[c] : c \in r[n - 1]}
    BY <1>1 DEF Reaching
  <1> DEFINE S == {n \in Nat : n + 1 <= CommitCount =>
                      \A c \in r[n + 1] : c \in r[n] \/ c + n + 1 <= CommitCount}
             T == {n \in Nat : n <= CommitCount => from \subseteq r[n]}
  \* what is new after n steps is at most CommitCount - n
  <1>4. Nat \subseteq S
    <2>1. 0 \in S
      <3>1. ASSUME 1 <= CommitCount, NEW c \in r[1], c \notin r[0]
            PROVE  c + 0 + 1 <= CommitCount
        <4>1. r[1] = r[0] \cup UNION {parents[b] : b \in r[0]}
          BY <1>3, <3>1
        <4>2. PICK b \in r[0] : c \in parents[b]
          BY <3>1, <4>1
        <4>3. b \in Revision /\ c < b /\ c \in Revision
          BY <4>2 DEF Graph
        <4> QED BY <4>3 DEF Revision
      <3>2. 0 + 1 = 1
        OBVIOUS
      <3> QED BY <3>1, <3>2
    <2>2. ASSUME NEW n \in Nat, n \in S PROVE n + 1 \in S
      <3>1. ASSUME n + 2 <= CommitCount, NEW c \in r[n + 2], c \notin r[n + 1]
            PROVE  c + n + 2 <= CommitCount
        <4>0. /\ n + 2 \in 1 .. CommitCount /\ (n + 2) - 1 = n + 1
              /\ n + 1 \in 1 .. CommitCount /\ (n + 1) - 1 = n
          BY <3>1
        <4>1. r[n + 2] = r[n + 1] \cup UNION {parents[b] : b \in r[n + 1]}
          BY <1>3, <4>0
        <4>2. PICK b \in r[n + 1] : c \in parents[b]
          BY <3>1, <4>1
        <4>3. r[n + 1] = r[n] \cup UNION {parents[d] : d \in r[n]}
          BY <1>3, <4>0
        <4>4. b \notin r[n]
          BY <3>1, <4>2, <4>3
        <4>5. b + n + 1 <= CommitCount
          BY <2>2, <3>1, <4>2, <4>4
        <4>6. r[n + 1] \in SUBSET Revision
          BY <4>0
        <4>7. b \in Revision /\ c < b /\ c \in Revision
          BY <4>2, <4>6 DEF Graph
        <4> QED BY <4>5, <4>7 DEF Revision
      <3>2. (n + 1) + 1 = n + 2
        OBVIOUS
      <3>3. r[n + 2] \in SUBSET Int \/ ~(n + 2 <= CommitCount)
        BY DEF Revision
      <3>4. \A c \in Int : c + (n + 1) + 1 = c + n + 2
        OBVIOUS
      <3> QED BY <3>1, <3>2, <3>3, <3>4
    <2> HIDE DEF S
    <2> QED BY <2>1, <2>2, Induction
  <1>5. Nat \subseteq T
    <2>1. 0 \in T
      BY <1>2
    <2>2. ASSUME NEW n \in Nat, n \in T PROVE n + 1 \in T
      <3>1. CASE n + 1 <= CommitCount
        <4>1. n + 1 \in 1 .. CommitCount /\ (n + 1) - 1 = n
          BY <3>1
        <4>2. r[n + 1] = r[n] \cup UNION {parents[c] : c \in r[n]}
          BY <1>3, <4>1
        <4> QED BY <2>2, <3>1, <4>2
      <3> QED BY <3>1
    <2> HIDE DEF T
    <2> QED BY <2>1, <2>2, Induction
  <1>6. from \subseteq r[CommitCount]
    BY <1>5
  <1>7. ASSUME NEW c \in r[CommitCount], NEW d \in parents[c] PROVE d \in r[CommitCount]
    <2>1. c \in Revision /\ CommitCount \in 1 .. CommitCount
      BY DEF Revision
    <2>2. CommitCount - 1 \in Nat /\ (CommitCount - 1) + 1 = CommitCount
      BY <2>1
    <2>3. CommitCount - 1 \in S
      BY <1>4, <2>2
    <2>4. c \in r[CommitCount - 1] \/ c + (CommitCount - 1) + 1 <= CommitCount
      BY <2>2, <2>3
    <2>5. c \in r[CommitCount - 1]
      BY <2>1, <2>4 DEF Revision
    <2>6. r[CommitCount] = r[CommitCount - 1] \cup UNION {parents[b] : b \in r[CommitCount - 1]}
      BY <1>3, <2>1
    <2> QED BY <2>5, <2>6
  <1> QED BY <1>1, <1>6, <1>7 DEF Closed

\* and nothing that is not needed for that.
LEMMA ReachedIsLeast ==
  ASSUME Graph, NEW S \in SUBSET Revision, Closed(S), NEW from \in SUBSET S
  PROVE  Reached(from) \subseteq S
  <1> CommitCount \in Nat
    BY GitAssumption
  <1>0. from \in SUBSET Revision
    OBVIOUS
  <1>1. PICK r \in [0 .. CommitCount -> SUBSET Revision] :
             Reaching(r, from) /\ Reached(from) = r[CommitCount]
    BY <1>0, ReachDef
  <1>2. r[0] = from
    BY <1>1 DEF Reaching
  <1>3. ASSUME NEW n \in 1 .. CommitCount
        PROVE  r[n] = r[n - 1] \cup UNION {parents[c] : c \in r[n - 1]}
    BY <1>1 DEF Reaching
  <1> DEFINE T == {n \in Nat : n <= CommitCount => r[n] \subseteq S}
  <1>4. 0 \in T
    BY <1>2
  <1>5. ASSUME NEW n \in Nat, n \in T PROVE n + 1 \in T
    <2>1. CASE n + 1 <= CommitCount
      <3>1. n + 1 \in 1 .. CommitCount /\ (n + 1) - 1 = n
        BY <2>1
      <3>2. r[n + 1] = r[n] \cup UNION {parents[c] : c \in r[n]}
        BY <1>3, <3>1
      <3>3. r[n] \subseteq S
        BY <1>5, <2>1
      <3> QED BY <3>2, <3>3 DEF Closed
    <2> QED BY <2>1
  <1> HIDE DEF T
  <1>6. CommitCount \in T
    BY <1>4, <1>5, Induction
  <1> QED BY <1>1, <1>6 DEF T

\* What is reached from what is reached is reached.
LEMMA ReachedWithin ==
  ASSUME Graph, NEW from \in SUBSET Revision, NEW some \in SUBSET Reached(from)
  PROVE  Reached(some) \subseteq Reached(from)
  BY ReachedIsClosed, ReachedIsLeast

-----------------------------------------------------------------------------
(* The invariant of a clone *)

\* What the step says about the commits that are in the clone.
Present ==
    /\ gitStep.at = "merge bases" => declared["head"] \in local
    /\ gitStep.at \in {"diff", "checkout"} =>
          /\ {declared["base"], declared["head"]} \subseteq local
          /\ Unique(MergeBases(declared["base"], declared["head"]))

Compared ==
    gitStep.at = "checkout" \/ outcome.how = "ready" =>
        /\ {declared["base"], declared["head"]} \subseteq local
        /\ Unique(MergeBases(declared["base"], declared["head"]))
        /\ outcome.head = declared["head"]
        /\ outcome.base = CHOOSE c \in MergeBases(declared["base"], declared["head"]) : TRUE

GitInv ==
    /\ Graph /\ declared \in [Ends -> Revision] /\ tip \in [Ends -> Revision]
    /\ local \in SUBSET Revision /\ Closed(local)
    /\ gitStep.at = "verify" => gitStep.side = "head"
    /\ gitStep \in [at : {"clone", "fetch", "look", "refetch", "relook", "verify", "merge bases",
                          "diff", "checkout", "end"}, side : Ends]
    /\ Present /\ Compared
    /\ outcome.how = "ready" => gitStep.at = "end"
    /\ gitStep.at = "end" => proc.state = "none"
    /\ outcome \in [how : {"none", "ready", "late", "cancelled", "failed"},
                    base : 0 .. CommitCount, head : 0 .. CommitCount]
    /\ proc \in [state : {"none", "running", "told to stop", "gone"}, well : BOOLEAN,
                 open : SUBSET Pipes, stop : {"no", "late", "cancelled"}]

\* One base has a name.
LEMMA TheBase ==
  ASSUME Graph, NEW a \in Revision, NEW b \in Revision, Unique(MergeBases(a, b))
  PROVE  LET c == CHOOSE c \in MergeBases(a, b) : TRUE
         IN MergeBases(a, b) = {c} /\ c \in Reached({a}) /\ c \in Revision
  <1>1. PICK B : B = MergeBases(a, b)
    OBVIOUS
  <1>2. B \subseteq Reached({a}) /\ Reached({a}) \subseteq Revision
    BY <1>1, ReachedIsClosed DEF MergeBases
  <1>3. IsFiniteSet(B)
    <2>1. IsFiniteSet(1 .. CommitCount)
      BY FS_Interval, GitAssumption
    <2> QED BY <1>2, <2>1, FS_Subset DEF Revision
  <1>4. Cardinality(B) = 1
    BY <1>1 DEF Unique
  <1>5. PICK c : B = {c}
    BY <1>3, <1>4, FS_Singleton
  <1>6. (CHOOSE x \in B : TRUE) = c
    BY <1>5
  <1> QED BY <1>1, <1>2, <1>5, <1>6

\* Before the first command nothing was found out.
LEMMA GitInitInv == GitInit => GitInv
  <1> SUFFICES ASSUME GitInit PROVE GitInv
    OBVIOUS
  <1> CommitCount \in Nat
    BY GitAssumption
  <1>1. Graph /\ declared \in [Ends -> Revision] /\ tip \in [Ends -> Revision]
    BY DEF GitInit, Graph
  <1>2. local \in SUBSET Revision /\ Closed(local)
    BY DEF GitInit, Closed
  <1>3. proc = NoProc /\ outcome = NoOutcome /\ gitStep = [at |-> "clone", side |-> "base"]
    BY DEF GitInit
  <1>4. Present /\ Compared /\ (gitStep.at = "verify" => gitStep.side = "head")
    BY <1>3 DEF Present, Compared, NoOutcome
  <1>5. /\ gitStep \in [at : {"clone", "fetch", "look", "refetch", "relook", "verify", "merge bases",
                              "diff", "checkout", "end"}, side : Ends]
        /\ outcome.how = "ready" => gitStep.at = "end"
        /\ outcome \in [how : {"none", "ready", "late", "cancelled", "failed"},
                        base : 0 .. CommitCount, head : 0 .. CommitCount]
        /\ proc \in [state : {"none", "running", "told to stop", "gone"}, well : BOOLEAN,
                     open : SUBSET Pipes, stop : {"no", "late", "cancelled"}]
        /\ proc.state = "none"
    BY <1>3 DEF NoProc, NoOutcome, Ends
  <1> QED BY <1>1, <1>2, <1>4, <1>5 DEF GitInv

\* No step changes the graph of commits.
LEMMA SameGraph ==
  ASSUME UNCHANGED <<parents, declared>>
  PROVE  MergeBases(declared["base"], declared["head"])' = MergeBases(declared["base"], declared["head"])
  <1>0. parents' = parents /\ declared' = declared
    OBVIOUS
  <1>1. ASSUME NEW from PROVE Reached(from)' = Reached(from)
    BY <1>0 DEF Reached
  <1> QED BY <1>0, <1>1 DEF MergeBases

\* Nothing that happens around the thread changes what it found out, and the
\* commits a command brings come with all before them.
LEMMA AroundKeepsGitInv ==
  ASSUME GitInv, Graph', local' \in SUBSET Revision, local \subseteq local', Closed(local)',
         tip' \in [Ends -> Revision], UNCHANGED <<parents, declared, gitStep, outcome>>,
         gitStep.at = "end" => proc'.state = "none",
         proc' \in [state : {"none", "running", "told to stop", "gone"}, well : BOOLEAN,
                    open : SUBSET Pipes, stop : {"no", "late", "cancelled"}]
  PROVE  GitInv'
  <1>1. MergeBases(declared["base"], declared["head"])' = MergeBases(declared["base"], declared["head"])
    BY SameGraph
  <1>2. Present' /\ Compared'
    <2>1. /\ declared' = declared /\ gitStep' = gitStep /\ outcome' = outcome
          /\ {declared["base"], declared["head"]} \subseteq local => {declared["base"], declared["head"]} \subseteq local'
      OBVIOUS
    <2>2. Present /\ Compared
      BY DEF GitInv
    <2>4. Present'
      BY <1>1, <2>1, <2>2 DEF Present, Unique
    <2>5. Compared'
      BY <1>1, <2>1, <2>2 DEF Compared, Unique
    <2> QED BY <2>4, <2>5
  <1> QED BY <1>2 DEF GitInv

\* The thread leaves with everything cleaned up.
LEMMA LeavingKeepsGitInv ==
  ASSUME GitInv, NEW how \in {"late", "cancelled", "failed"}, Leaves(how),
         UNCHANGED <<parents, declared, tip>>
  PROVE  GitInv'
  <1> CommitCount \in Nat
    BY GitAssumption
  <1>1. Graph' /\ declared' \in [Ends -> Revision] /\ tip' \in [Ends -> Revision]
    BY DEF GitInv, Graph
  <1>2. local' = {} /\ outcome' = [NoOutcome EXCEPT !.how = how]
        /\ gitStep' = [gitStep EXCEPT !.at = "end"] /\ proc' = NoProc
    BY DEF Leaves
  <1>3. gitStep'.at = "end" /\ outcome'.how = how
    BY <1>2 DEF GitInv, NoOutcome
  <1>4. Present' /\ Compared'
    BY <1>3 DEF Present, Compared
  <1>5. /\ gitStep' \in [at : {"clone", "fetch", "look", "refetch", "relook", "verify", "merge bases",
                              "diff", "checkout", "end"}, side : Ends]
        /\ outcome' \in [how : {"none", "ready", "late", "cancelled", "failed"},
                        base : 0 .. CommitCount, head : 0 .. CommitCount]
        /\ proc' \in [state : {"none", "running", "told to stop", "gone"}, well : BOOLEAN,
                     open : SUBSET Pipes, stop : {"no", "late", "cancelled"}]
    <2>1. gitStep' = [at |-> "end", side |-> gitStep.side] /\ gitStep.side \in Ends
      BY <1>2 DEF GitInv
    <2>2. outcome' = [how |-> how, base |-> 0, head |-> 0] /\ 0 \in 0 .. CommitCount
      BY <1>2 DEF NoOutcome
    <2>3. proc' \in [state : {"none", "running", "told to stop", "gone"}, well : BOOLEAN,
                     open : SUBSET Pipes, stop : {"no", "late", "cancelled"}]
      BY <1>2 DEF NoProc
    <2> QED BY <2>1, <2>2, <2>3
  <1>6. local' \in SUBSET Revision /\ Closed(local)' /\ proc'.state = "none"
    BY <1>2 DEF Closed, NoProc
  <1> QED BY <1>1, <1>3, <1>4, <1>5, <1>6 DEF GitInv

\* The thread goes on to a step that claims no more than it has found.
LEMMA ProceedingKeepsGitInv ==
  ASSUME GitInv, NEW next, Proceeds(next), UNCHANGED <<parents, declared, tip>>,
         next \in [at : {"fetch", "look", "refetch", "relook", "verify", "merge bases", "diff"},
                   side : Ends],
         next.at = "verify" => next.side = "head",
         next.at = "merge bases" => declared["head"] \in local,
         next.at = "diff" => /\ {declared["base"], declared["head"]} \subseteq local
                             /\ Unique(MergeBases(declared["base"], declared["head"])),
         gitStep.at # "end"
  PROVE  GitInv'
  <1>1. MergeBases(declared["base"], declared["head"])' = MergeBases(declared["base"], declared["head"])
    BY SameGraph
  <1>2. gitStep' = next /\ proc' = NoProc /\ UNCHANGED <<local, outcome>>
    BY DEF Proceeds
  <1>3. Present'
    BY <1>1, <1>2 DEF Present, Unique
  <1>4. gitStep'.at # "checkout" /\ outcome.how # "ready" /\ outcome' = outcome
    BY <1>2 DEF GitInv
  <1>5. Compared'
    BY <1>4 DEF Compared
  <1>6. proc' \in [state : {"none", "running", "told to stop", "gone"}, well : BOOLEAN,
                   open : SUBSET Pipes, stop : {"no", "late", "cancelled"}]
    BY <1>2 DEF NoProc
  <1>7. gitStep' \in [at : {"clone", "fetch", "look", "refetch", "relook", "verify", "merge bases",
                            "diff", "checkout", "end"}, side : Ends]
    BY <1>2
  <1>8. Graph' /\ Closed(local)'
    BY <1>2 DEF GitInv, Graph, Closed
  <1> QED BY <1>2, <1>3, <1>4, <1>5, <1>6, <1>7, <1>8 DEF GitInv

\* What a command brings is complete.
LEMMA BroughtIsClosed ==
  ASSUME GitInv, NEW brought \in Brings
  PROVE  brought \in SUBSET Revision /\ Closed(brought)
  <1>1. \/ brought = {}
        \/ \E from \in SUBSET Revision : brought = Reached(from)
    <2> gitStep.side \in Ends /\ "base" \in Ends /\ "head" \in Ends
      BY DEF GitInv, Ends
    <2>1. CASE gitStep.at = "clone"
      <3>1. {tip["base"]} \in SUBSET Revision /\ {tip["base"], tip["head"]} \in SUBSET Revision
        BY DEF GitInv
      <3> QED BY <2>1, <3>1 DEF Brings
    <2>2. CASE gitStep.at = "fetch"
      <3>1. {declared[gitStep.side]} \in SUBSET Revision
        BY DEF GitInv
      <3> QED BY <2>2, <3>1 DEF Brings
    <2>3. CASE gitStep.at = "refetch"
      <3>1. {tip[gitStep.side]} \in SUBSET Revision
        BY DEF GitInv
      <3> QED BY <2>3, <3>1 DEF Brings
    <2>4. CASE gitStep.at \notin {"clone", "fetch", "refetch"}
      BY <2>4 DEF Brings
    <2> QED BY <2>1, <2>2, <2>3, <2>4
  <1>2. CASE brought = {}
    BY <1>2 DEF Closed
  <1>3. ASSUME NEW from \in SUBSET Revision, brought = Reached(from)
        PROVE  brought \in SUBSET Revision /\ Closed(brought)
    BY <1>3, ReachedIsClosed DEF GitInv
  <1> QED BY <1>1, <1>2, <1>3

\* Pushes, pipes, the end of a process, cancellation and timeouts.
LEMMA SurroundingsKeepGitInv ==
  ASSUME GitInv,
         \/ \E e \in Ends, c \in Revision : Moves(e, c)
         \/ CancelGit
         \/ \E well \in BOOLEAN : ProcessEnds(well)
         \/ \E pipe \in Pipes : PipeEnds(pipe)
         \/ \E why \in {"cancelled", "late"} : Notices(why)
         \/ UNCHANGED gitVars
  PROVE  GitInv'
  <1>1. Graph /\ local \in SUBSET Revision /\ Closed(local) /\ tip \in [Ends -> Revision]
    BY DEF GitInv
  <1>2. proc \in [state : {"none", "running", "told to stop", "gone"}, well : BOOLEAN,
                  open : SUBSET Pipes, stop : {"no", "late", "cancelled"}]
    BY DEF GitInv
  <1> DEFINE Gone == gitStep.at = "end" => proc'.state = "none"
  <1>0. gitStep.at = "end" => proc.state = "none"
    BY DEF GitInv
  <1>3. CASE \E e \in Ends, c \in Revision : Moves(e, c)
    <2>1. /\ UNCHANGED <<parents, declared, local, gitStep, proc, outcome>>
          /\ tip' \in [Ends -> Revision]
      BY <1>1, <1>3 DEF Moves
    <2>2. Graph' /\ Closed(local)'
      BY <1>1, <2>1 DEF Graph, Closed
    <2> QED BY <1>0, <1>1, <1>2, <2>1, <2>2, AroundKeepsGitInv
  <1>4. CASE CancelGit \/ UNCHANGED gitVars
    <2>1. UNCHANGED <<parents, declared, tip, local, gitStep, proc, outcome>>
      BY <1>4 DEF CancelGit, gitVars
    <2>2. Graph' /\ Closed(local)'
      BY <1>1, <2>1 DEF Graph, Closed
    <2> QED BY <1>0, <1>1, <1>2, <2>1, <2>2, AroundKeepsGitInv
  <1>5. ASSUME NEW well \in BOOLEAN, ProcessEnds(well) PROVE GitInv'
    <2>1. UNCHANGED <<parents, declared, tip, gitStep, outcome>>
      BY <1>5 DEF ProcessEnds
    <2>2. proc' = [proc EXCEPT !.state = "gone", !.well = well]
      BY <1>5 DEF ProcessEnds
    <2>3. proc' \in [state : {"none", "running", "told to stop", "gone"}, well : BOOLEAN,
                     open : SUBSET Pipes, stop : {"no", "late", "cancelled"}]
      BY <1>2, <2>2
    <2>4. local' = local \/ \E brought \in Brings : local' = local \cup brought
      BY <1>5 DEF ProcessEnds
    <2>5. Graph' /\ Gone
      BY <1>0, <1>1, <1>5, <2>1 DEF Graph, ProcessEnds
    <2>6. CASE local' = local
      <3>1. Closed(local)'
        BY <1>1, <2>1, <2>6 DEF Closed
      <3> QED BY <1>1, <2>1, <2>3, <2>5, <2>6, <3>1, AroundKeepsGitInv
    <2>7. ASSUME NEW brought \in Brings, local' = local \cup brought PROVE GitInv'
      <3>1. brought \in SUBSET Revision /\ Closed(brought)
        BY BroughtIsClosed
      <3>2. Closed(local)'
        BY <1>1, <2>1, <2>7, <3>1 DEF Closed
      <3> QED BY <1>1, <2>1, <2>3, <2>5, <2>7, <3>1, <3>2, AroundKeepsGitInv
    <2> QED BY <2>4, <2>6, <2>7
  <1>6. CASE \/ \E pipe \in Pipes : PipeEnds(pipe)
             \/ \E why \in {"cancelled", "late"} : Notices(why)
    <2>1. UNCHANGED <<parents, declared, tip, local, gitStep, outcome>>
      BY <1>6 DEF PipeEnds, Notices
    <2>2. proc' \in [state : {"none", "running", "told to stop", "gone"}, well : BOOLEAN,
                     open : SUBSET Pipes, stop : {"no", "late", "cancelled"}]
      <3>1. ASSUME NEW pipe \in Pipes, PipeEnds(pipe) PROVE proc' = [proc EXCEPT !.open = @ \ {pipe}]
        BY <3>1 DEF PipeEnds
      <3>2. ASSUME NEW why \in {"cancelled", "late"}, Notices(why)
            PROVE  proc' = [proc EXCEPT !.stop = why,
                                        !.state = IF @ = "running" THEN "told to stop" ELSE @]
        BY <3>2 DEF Notices
      <3> QED BY <1>2, <1>6, <3>1, <3>2
    <2>3. Graph' /\ Closed(local)'
      BY <1>1, <2>1 DEF Graph, Closed
    <2>4. Gone
      BY <1>0, <1>6 DEF PipeEnds, Notices
    <2> QED BY <1>1, <2>1, <2>2, <2>3, <2>4, AroundKeepsGitInv
  <1> QED BY <1>3, <1>4, <1>5, <1>6

\* The thread reads what the command printed.
LEMMA CollectingKeepsGitInv ==
  ASSUME GitInv, Collects
  PROVE  GitInv'
  <1> CommitCount \in Nat /\ "base" \in Ends /\ "head" \in Ends
    BY GitAssumption DEF Ends
  <1>0. UNCHANGED <<parents, declared, tip>>
    BY DEF Collects
  <1>1. /\ gitStep = [at |-> gitStep.at, side |-> gitStep.side] /\ gitStep.side \in Ends
        /\ gitStep.at = "verify" => gitStep.side = "head"
    BY DEF GitInv
  <1>2. Raises \in {"no", "late", "cancelled", "failed"}
    BY DEF GitInv, Raises
  <1>3. ASSUME Leaves(Raises), Raises # "no" PROVE GitInv'
    BY <1>0, <1>2, <1>3, LeavingKeepsGitInv
  <1>4. ASSUME Leaves("failed") PROVE GitInv'
    BY <1>0, <1>4, LeavingKeepsGitInv
  <1>5. ASSUME Proceeds(AfterFetch), gitStep.at # "end" PROVE GitInv'
    <2>1. AfterFetch \in {[at |-> "fetch", side |-> "head"], [at |-> "verify", side |-> "head"]}
      BY <1>1 DEF AfterFetch, Ends
    <2>2. PICK next \in {[at |-> "fetch", side |-> "head"], [at |-> "verify", side |-> "head"]} :
               next = AfterFetch
      BY <2>1
    <2>3. Proceeds(next)
      BY <1>5, <2>2
    <2> QED BY <1>0, <1>5, <2>2, <2>3, ProceedingKeepsGitInv
  <1>6. ASSUME NEW at \in {"fetch", "look", "refetch", "relook"}, gitStep.at # "end",
               Proceeds([gitStep EXCEPT !.at = at])
        PROVE  GitInv'
    <2>1. [gitStep EXCEPT !.at = at] = [at |-> at, side |-> gitStep.side]
      BY <1>1
    <2>2. PICK next \in [at : {"fetch", "look", "refetch", "relook"}, side : Ends] :
               next = [gitStep EXCEPT !.at = at]
      BY <1>1, <2>1
    <2>3. Proceeds(next)
      BY <1>6, <2>2
    <2> QED BY <1>0, <1>6, <2>2, <2>3, ProceedingKeepsGitInv
  <1>7. ASSUME Found, gitStep.at = "verify", Proceeds([gitStep EXCEPT !.at = "merge bases"]) PROVE GitInv'
    <2>1. PICK at : at = "merge bases"
      OBVIOUS
    <2>2. PICK next \in [at : {at}, side : Ends] : next = [gitStep EXCEPT !.at = at]
      <3>1. [gitStep EXCEPT !.at = at] = [at |-> at, side |-> gitStep.side]
        BY <1>1
      <3> QED BY <1>1, <3>1
    <2>3. Proceeds(next)
      BY <1>7, <2>1, <2>2
    <2>4. declared["head"] \in local
      BY <1>1, <1>7 DEF Found
    <2> QED BY <1>0, <1>7, <2>1, <2>2, <2>3, <2>4, ProceedingKeepsGitInv
  <1>8. ASSUME gitStep.at = "merge bases", declared["base"] \in local,
               Unique(MergeBases(declared["base"], declared["head"])),
               Proceeds([gitStep EXCEPT !.at = "diff"])
        PROVE  GitInv'
    <2>1. [gitStep EXCEPT !.at = "diff"] = [at |-> "diff", side |-> gitStep.side]
      BY <1>1
    <2>2. PICK next \in [at : {"diff"}, side : Ends] : next = [gitStep EXCEPT !.at = "diff"]
      BY <1>1, <2>1
    <2>3. Proceeds(next)
      BY <1>8, <2>2
    <2>4. declared["head"] \in local
      BY <1>8 DEF GitInv, Present
    <2> QED BY <1>0, <1>8, <2>2, <2>3, <2>4, ProceedingKeepsGitInv
  <1>9. ASSUME gitStep.at \in {"diff", "checkout"}, proc' = NoProc, UNCHANGED local,
               gitStep' \in [at : {"checkout", "end"}, side : Ends],
               outcome' = [how |-> IF gitStep.at = "diff" THEN "none" ELSE "ready",
                           head |-> declared["head"],
                           base |-> CHOOSE c \in MergeBases(declared["base"], declared["head"]) : TRUE],
               gitStep.at = "checkout" => gitStep'.at = "end"
        PROVE  GitInv'
    <2>1. Graph /\ declared["base"] \in Revision /\ declared["head"] \in Revision
      BY DEF GitInv
    <2>2. /\ {declared["base"], declared["head"]} \subseteq local
          /\ Unique(MergeBases(declared["base"], declared["head"]))
      BY <1>9 DEF GitInv, Present
    <2>3. outcome'.base \in Revision
      BY <1>9, <2>1, <2>2, TheBase
    <2>4. MergeBases(declared["base"], declared["head"])' = MergeBases(declared["base"], declared["head"])
      BY <1>0, SameGraph
    <2>5. declared' = declared /\ local' = local /\ parents' = parents /\ tip' = tip
      BY <1>0, <1>9
    <2>6. Present' /\ Compared'
      BY <1>9, <2>2, <2>4, <2>5 DEF Present, Compared, Unique
    <2>7. Graph' /\ Closed(local)'
      BY <2>5 DEF GitInv, Graph, Closed
    <2>8. /\ outcome' \in [how : {"none", "ready", "late", "cancelled", "failed"},
                           base : 0 .. CommitCount, head : 0 .. CommitCount]
          /\ outcome'.how = "ready" => gitStep'.at = "end"
      BY <1>9, <2>1, <2>3 DEF Revision
    <2>9. /\ proc' \in [state : {"none", "running", "told to stop", "gone"}, well : BOOLEAN,
                         open : SUBSET Pipes, stop : {"no", "late", "cancelled"}]
          /\ proc'.state = "none"
      BY <1>9 DEF NoProc
    <2> QED BY <1>9, <2>5, <2>6, <2>7, <2>8, <2>9 DEF GitInv
  <1>10. gitStep.at # "end"
    BY DEF Collects, GitInv
  <1>11. CASE gitStep.at = "clone"
    BY <1>3, <1>6, <1>11 DEF Collects
  <1>12. CASE gitStep.at = "fetch"
    BY <1>2, <1>3, <1>5, <1>6, <1>12 DEF Collects
  <1>13. CASE gitStep.at \in {"look", "relook", "verify"}
    BY <1>3, <1>4, <1>5, <1>6, <1>7, <1>13 DEF Collects
  <1>14. CASE gitStep.at = "refetch"
    BY <1>3, <1>4, <1>6, <1>14 DEF Collects
  <1>15. CASE gitStep.at = "merge bases"
    BY <1>3, <1>4, <1>8, <1>15 DEF Collects
  <1>16. CASE gitStep.at = "diff"
    <2>1. CASE Raises = "no"
      <3>1. /\ outcome' = [how |-> "none", head |-> declared["head"],
                           base |-> CHOOSE c \in MergeBases(declared["base"], declared["head"]) : TRUE]
            /\ gitStep' = [gitStep EXCEPT !.at = "checkout"] /\ proc' = NoProc /\ UNCHANGED local
        BY <1>16, <2>1 DEF Collects
      <3>2. gitStep' \in [at : {"checkout", "end"}, side : Ends]
        BY <1>1, <3>1
      <3> QED BY <1>9, <1>16, <3>1, <3>2
    <2> QED BY <1>3, <1>16, <2>1 DEF Collects
  <1>17. CASE gitStep.at = "checkout"
    <2>1. CASE Raises = "no"
      <3>1. /\ outcome' = [outcome EXCEPT !.how = "ready"]
            /\ gitStep' = [gitStep EXCEPT !.at = "end"] /\ proc' = NoProc /\ UNCHANGED local
        BY <1>17, <2>1 DEF Collects
      <3>2. gitStep' \in [at : {"checkout", "end"}, side : Ends] /\ gitStep'.at = "end"
        BY <1>1, <3>1
      <3>3. /\ outcome.head = declared["head"]
            /\ outcome.base = CHOOSE c \in MergeBases(declared["base"], declared["head"]) : TRUE
        BY <1>17 DEF GitInv, Compared
      <3>4. outcome' = [how |-> "ready", head |-> outcome.head, base |-> outcome.base]
        BY <3>1 DEF GitInv
      <3> QED BY <1>9, <1>17, <3>1, <3>2, <3>3, <3>4
    <2> QED BY <1>3, <1>17, <2>1 DEF Collects
  <1> QED BY <1>10, <1>11, <1>12, <1>13, <1>14, <1>15, <1>16, <1>17 DEF GitInv

\* A command that is started has brought nothing yet.
LEMMA SpawningKeepsGitInv ==
  ASSUME GitInv, SpawnGit
  PROVE  GitInv'
  <1>1. UNCHANGED <<parents, declared, tip>>
    BY DEF SpawnGit
  <1>2. CASE Leaves("cancelled") \/ Leaves("failed")
    BY <1>1, <1>2, LeavingKeepsGitInv
  <1>3. CASE ~(Leaves("cancelled") \/ Leaves("failed"))
    <2>1. proc' = [NoProc EXCEPT !.state = "running", !.open = Pipes] /\ UNCHANGED <<local, gitStep, outcome>>
      BY <1>3 DEF SpawnGit
    <2>2. proc' \in [state : {"none", "running", "told to stop", "gone"}, well : BOOLEAN,
                     open : SUBSET Pipes, stop : {"no", "late", "cancelled"}]
      BY <2>1 DEF NoProc
    <2>3. Graph' /\ Closed(local)'
      BY <1>1, <2>1 DEF GitInv, Graph, Closed
    <2>4. local' \in SUBSET Revision /\ local \subseteq local' /\ tip' \in [Ends -> Revision]
      BY <1>1, <2>1 DEF GitInv
    <2>5. gitStep.at # "end"
      BY DEF SpawnGit
    <2> QED BY <1>1, <2>1, <2>2, <2>3, <2>4, <2>5, AroundKeepsGitInv
  <1> QED BY <1>2, <1>3

\* The clone holds each commit with all before it, and every step claims only
\* what was looked up.
THEOREM GitInvariance == GitSpec => []GitInv
  <1>1. GitInv /\ [GitNext]_gitVars => GitInv'
    BY SurroundingsKeepGitInv, CollectingKeepsGitInv, SpawningKeepsGitInv DEF GitNext
  <1> QED BY <1>1, GitInitInv, PTL DEF GitSpec

\* What is reviewed is the declared head against its only merge base with the
\* declared base, for any graph of commits, pushes, failures and cancellations
\* (clone_and_diff).
THEOREM SnapshotStaysDeclared == GitSpec => []SnapshotIsDeclared
  <1>1. ASSUME GitInv, outcome.how = "ready"
        PROVE  /\ outcome.head = declared["head"]
               /\ MergeBases(declared["base"], declared["head"]) = {outcome.base}
               /\ Reached({outcome.base, outcome.head}) \subseteq local
    <2>1. /\ Graph /\ declared["base"] \in Revision /\ declared["head"] \in Revision
          /\ local \in SUBSET Revision /\ Closed(local)
          /\ {declared["base"], declared["head"]} \subseteq local
          /\ Unique(MergeBases(declared["base"], declared["head"]))
          /\ outcome.head = declared["head"]
          /\ outcome.base = CHOOSE c \in MergeBases(declared["base"], declared["head"]) : TRUE
      BY <1>1 DEF GitInv, Compared, Ends
    <2>2. /\ MergeBases(declared["base"], declared["head"]) = {outcome.base}
          /\ outcome.base \in Reached({declared["base"]})
      BY <2>1, TheBase
    <2>3. Reached({declared["base"]}) \subseteq local
      BY <2>1, ReachedIsLeast
    <2>4. PICK ends : ends = {outcome.base, outcome.head}
      OBVIOUS
    <2>5. ends \subseteq local /\ ends \in SUBSET Revision
      BY <2>1, <2>2, <2>3, <2>4
    <2>6. Reached(ends) \subseteq local
      BY <2>1, <2>5, ReachedIsLeast
    <2> QED BY <2>1, <2>2, <2>4, <2>6
  <1>2. GitInv => SnapshotIsDeclared
    BY <1>1 DEF SnapshotIsDeclared
  <1> QED BY <1>2, GitInvariance, PTL

-----------------------------------------------------------------------------
(* Planning: what a unit costs *)

ChangeOK == change \in [FilePath -> [lines : LinesOfHunk, open : BOOLEAN]]

\* The pieces of a hunk are finitely many, so that what a file costs is a number.
LEMMA PathCostType == ASSUME ChangeOK, NEW p \in FilePath PROVE PathCost(p) \in Nat
  <1>1. PICK lines \in Nat : lines = change[p].lines
    BY PlanAssumption DEF ChangeOK
  <1>2. PICK h \in Nat \ {0} : h = HunkLines
    BY PlanAssumption
  <1>3. PICK last \in Nat : last = IF lines = 0 THEN 0 ELSE (lines - 1) \div h
    BY <1>1, <1>2
  <1>4. PICK S : S = {n * h : n \in 0 .. last}
    OBVIOUS
  <1>5. \A n \in 0 .. last : n * h \in 0 .. last * h
    <2> TAKE n \in 0 .. last
    <2>1. n * h + (last - n) * h = last * h /\ n * h \in Nat /\ (last - n) * h \in Nat
      BY <1>2
    <2> QED BY <2>1
  <1>6. S \subseteq 0 .. last * h /\ IsFiniteSet(0 .. last * h)
    BY <1>4, <1>5, FS_Interval
  <1>7. IsFiniteSet({p} \X S)
    BY <1>6, FS_Subset, FS_Product, FS_Singleton
  <1>8. Pieces(p) = {p} \X S
    BY <1>1, <1>2, <1>3, <1>4 DEF Pieces
  <1>9. Cardinality(Pieces(p)) \in Nat
    BY <1>7, <1>8, FS_CardinalityType
  <1> QED BY <1>1, <1>9 DEF PathCost

\* The costs of the files of a unit, side by side.
Costs(paths) == UNION {{p} \X (1 .. PathCost(p)) : p \in paths}

\* Files are finitely many.
LEMMA PathsFinite ==
  ASSUME NEW paths \in SUBSET FilePath
  PROVE  IsFiniteSet(paths) /\ Cardinality(paths) \in Nat
  <1>1. PICK n \in Nat : n = Files
    BY PlanAssumption
  <1>2. IsFiniteSet(1 .. n)
    BY FS_Interval
  <1>3. IsFiniteSet(FilePath)
    BY <1>1, <1>2 DEF FilePath
  <1> QED BY <1>3, FS_Subset, FS_CardinalityType

\* A unit costs what its files cost.
LEMMA CostAdds ==
  ASSUME ChangeOK, NEW paths \in SUBSET FilePath, NEW p \in FilePath \ paths
  PROVE  CostOf(paths) \in Nat /\ CostOf(paths \cup {p}) = CostOf(paths) + PathCost(p)
  <1> DEFINE column(q) == {q} \X (1 .. PathCost(q))
  <1>1. PICK cost \in Nat : cost = PathCost(p)
    BY PathCostType
  <1>2. IsFiniteSet(column(p)) /\ Cardinality(column(p)) = cost
    <2>1. IsFiniteSet(1 .. cost) /\ Cardinality(1 .. cost) = cost
      BY FS_Interval
    <2>2. IsFiniteSet({p}) /\ Cardinality({p}) = 1
      BY FS_Singleton
    <2>3. PICK S, T : S = {p} /\ T = 1 .. cost
      OBVIOUS
    <2>4. IsFiniteSet(S \X T) /\ Cardinality(S \X T) = Cardinality(S) * Cardinality(T)
      BY <2>1, <2>2, <2>3, FS_Product
    <2>5. Cardinality(S \X T) = cost
      BY <2>1, <2>2, <2>3, <2>4
    <2> QED BY <1>1, <2>3, <2>4, <2>5
  <1>3. IsFiniteSet(Costs(paths))
    <2>1. \A q \in paths : IsFiniteSet(column(q))
      <3> TAKE q \in paths
      <3>1. PICK own \in Nat : own = PathCost(q)
        BY PathCostType
      <3>2. IsFiniteSet(1 .. own) /\ IsFiniteSet({q})
        <4>1. IsFiniteSet(1 .. own)
          BY FS_Interval
        <4>2. IsFiniteSet({q})
          BY FS_Singleton
        <4> QED BY <4>1, <4>2
      <3>3. IsFiniteSet({q} \X (1 .. own))
        BY <3>2, FS_Product
      <3> QED BY <3>1, <3>3
    <2> DEFINE f == [q \in paths |-> column(q)]
               columns == {column(q) : q \in paths}
    <2>2. f \in Surjection(paths, columns)
      BY DEF Surjection
    <2>3. IsFiniteSet(columns)
      BY <2>2, PathsFinite, FS_Surjection
    <2>4. \A T \in columns : IsFiniteSet(T)
      BY <2>1
    <2> HIDE DEF column
    <2>5. IsFiniteSet(UNION columns)
      BY <2>3, <2>4, FS_UNION
    <2> QED BY <2>5 DEF Costs, column
  <1>4. Costs(paths \cup {p}) = Costs(paths) \cup column(p) /\ Costs(paths) \cap column(p) = {}
    BY DEF Costs
  <1> HIDE DEF column
  <1>5. Cardinality(Costs(paths)) \in Nat
    BY <1>3, FS_CardinalityType
  <1>6. Cardinality(Costs(paths) \cup column(p))
           = Cardinality(Costs(paths)) + Cardinality(column(p)) - Cardinality({})
    BY <1>2, <1>3, <1>4, FS_Union
  <1>7. Cardinality({}) = 0
    BY FS_EmptySet
  <1> QED BY <1>1, <1>2, <1>4, <1>5, <1>6, <1>7 DEF CostOf, Costs

-----------------------------------------------------------------------------
(* Planning: units are packed *)

Small(u) ==
    /\ u # {} /\ Cardinality(u) <= MaxUnitPaths
    /\ Cardinality(u) = 1 \/ CostOf(u) <= Capacity

PackedType == [units : SUBSET SUBSET FilePath, unit : SUBSET FilePath, assigned : SUBSET FilePath]

\* What is packed: units that are small and apart, the one that is being
\* filled, and all their files.
Packing(x) ==
    /\ x.assigned = x.unit \cup UNION x.units /\ x.assigned \subseteq Included
    /\ \A u \in x.units : Small(u) /\ u \cap x.unit = {}
    /\ \A u, v \in x.units : u # v => u \cap v = {}
    /\ x.unit = {} \/ Small(x.unit)

\* One file is a small unit.
LEMMA SingleIsSmall == ASSUME NEW p PROVE Small({p}) /\ Cardinality({p}) = 1
  BY FS_Singleton, PlanAssumption DEF Small

\* A unit that is not full stays small with one file more.
LEMMA NotFullStaysSmall ==
  ASSUME ChangeOK, NEW unit \in SUBSET FilePath, NEW p \in FilePath \ unit,
         unit = {} \/ Small(unit), ~Full(unit, p)
  PROVE  Small(unit \cup {p})
  <1>1. CASE unit = {}
    BY <1>1, SingleIsSmall, unit \cup {p} = {p}
  <1>2. CASE unit # {}
    <2>1. Cardinality(unit) \in Nat /\ CostOf(unit) \in Nat /\ PathCost(p) \in Nat
            /\ MaxUnitPaths \in Nat /\ Capacity \in Nat
      BY PathsFinite, CostAdds, PathCostType, PlanAssumption
    <2>2. Cardinality(unit) < MaxUnitPaths /\ CostOf(unit) + PathCost(p) <= Capacity
      BY <1>2, <2>1 DEF Full
    <2>3. Cardinality(unit \cup {p}) = Cardinality(unit) + 1
      BY PathsFinite, FS_AddElement
    <2>4. CostOf(unit \cup {p}) = CostOf(unit) + PathCost(p)
      BY CostAdds
    <2> QED BY <2>1, <2>2, <2>3, <2>4 DEF Small
  <1> QED BY <1>1, <1>2

\* Filling in a file keeps what is packed.
LEMMA FillKeeps ==
  ASSUME ChangeOK, NEW x \in PackedType, Packing(x), NEW p
  PROVE  Fill(x, p) \in PackedType /\ Packing(Fill(x, p))
  <1>0. Included \subseteq FilePath
    BY DEF Included
  <1>1. CASE p \notin Included \/ Taken(x, p)
    BY <1>1 DEF Fill
  <1>2. CASE p \in Included /\ p \notin x.assigned /\ Full(x.unit, p)
    <2>1. PICK y : y = [units |-> x.units \cup {x.unit}, unit |-> {p}, assigned |-> x.assigned \cup {p}]
      OBVIOUS
    <2>2. y.units = x.units \cup {x.unit} /\ y.unit = {p} /\ y.assigned = x.assigned \cup {p}
      BY <2>1
    <2>3. y \in PackedType
      BY <1>0, <1>2, <2>1 DEF PackedType
    <2>4. x.unit # {} /\ Small(x.unit)
      BY <1>2 DEF Full, Packing
    <2>5. Packing(y)
      <3>1. y.assigned = y.unit \cup UNION y.units /\ y.assigned \subseteq Included
        BY <1>2, <2>2 DEF Packing
      <3>2. \A u \in y.units : Small(u) /\ u \cap y.unit = {}
        BY <1>2, <2>2, <2>4 DEF Packing
      <3>3. \A u, v \in y.units : u # v => u \cap v = {}
        BY <2>2 DEF Packing
      <3>4. Small(y.unit)
        BY <2>2, SingleIsSmall
      <3> HIDE DEF Small
      <3> QED BY <3>1, <3>2, <3>3, <3>4, Zenon DEF Packing
    <2>6. Fill(x, p) = y
      BY <1>2, <2>1 DEF Fill, Taken
    <2> QED BY <2>3, <2>5, <2>6
  <1>3. CASE p \in Included /\ p \notin x.assigned /\ ~Full(x.unit, p)
    <2>1. PICK y : y = [x EXCEPT !.unit = @ \cup {p}, !.assigned = @ \cup {p}]
      OBVIOUS
    <2>2. y.units = x.units /\ y.unit = x.unit \cup {p} /\ y.assigned = x.assigned \cup {p}
      BY <2>1 DEF PackedType
    <2>3. y \in PackedType
      <3>1. x.unit \cup {p} \in SUBSET FilePath /\ x.assigned \cup {p} \in SUBSET FilePath
        BY <1>0, <1>3 DEF PackedType
      <3> QED BY <2>1, <3>1 DEF PackedType
    <2>4. Small(x.unit \cup {p})
      BY <1>0, <1>3, NotFullStaysSmall DEF Packing, PackedType
    <2>5. Packing(y)
      <3>1. y.assigned = y.unit \cup UNION y.units /\ y.assigned \subseteq Included
        BY <1>3, <2>2 DEF Packing
      <3>2. \A u \in y.units : Small(u) /\ u \cap y.unit = {}
        BY <1>3, <2>2 DEF Packing
      <3>3. \A u, v \in y.units : u # v => u \cap v = {}
        BY <2>2 DEF Packing
      <3> QED BY <2>2, <2>4, <3>1, <3>2, <3>3 DEF Packing
    <2>6. Fill(x, p) = y
      BY <1>3, <2>1 DEF Fill, Taken
    <2> QED BY <2>3, <2>5, <2>6
  <1> QED BY <1>1, <1>2, <1>3 DEF Taken

\* The states of filling a group.
Filling(f, x, group) ==
    f = [n \in 0 .. Len(group) |-> IF n = 0 THEN x ELSE Fill(f[n - 1], group[n])]

\* A group that is filled in keeps what is packed.
LEMMA FillingKeeps ==
  ASSUME ChangeOK, NEW x \in PackedType, Packing(x), NEW group, Len(group) \in Nat
  PROVE  /\ \E f : Filling(f, x, group)
         /\ \A f : Filling(f, x, group) =>
              f[Len(group)] \in PackedType /\ Packing(f[Len(group)])
  <1>1. PICK D : D = {y \in PackedType : Packing(y)}
    OBVIOUS
  <1>2. PICK k \in Nat : k = Len(group)
    OBVIOUS
  <1>3. ASSUME NEW y \in D, NEW p PROVE Fill(y, p) \in D
    BY <1>1, FillKeeps
  <1>4. x \in D
    BY <1>1
  <1>5. \E f : Filling(f, x, group)
    <2>1. PICK G : G = [i \in 1 .. k |-> [y \in D |-> Fill(y, group[i])]]
      OBVIOUS
    <2>2. G \in [1 .. k -> [D -> D]]
      BY <1>3, <2>1
    <2>3. PICK f \in [0 .. k -> D] : f[0] = x /\ \A i \in 1 .. k : f[i] = G[i][f[i - 1]]
      BY <1>4, <2>2, Recursion
    <2>4. ASSUME NEW i \in 1 .. k PROVE f[i] = Fill(f[i - 1], group[i])
      <3>1. i - 1 \in 0 .. k
        OBVIOUS
      <3>2. f[i - 1] \in D
        BY <3>1
      <3> QED BY <2>1, <2>3, <3>2
    <2>5. \A n \in 0 .. k : f[n] = IF n = 0 THEN x ELSE Fill(f[n - 1], group[n])
      <3> TAKE n \in 0 .. k
      <3>1. CASE n = 0
        BY <2>3, <3>1
      <3>2. CASE n # 0
        <4>1. n \in 1 .. k
          BY <3>2
        <4> QED BY <2>4, <3>2, <4>1
      <3> QED BY <3>1, <3>2
    <2>6. f = [n \in 0 .. k |-> IF n = 0 THEN x ELSE Fill(f[n - 1], group[n])]
      BY <2>5
    <2>7. Filling(f, x, group)
      BY <1>2, <2>6 DEF Filling
    <2> QED BY <2>7
  <1>6. ASSUME NEW f, Filling(f, x, group) PROVE f[k] \in D
    <2> DEFINE S == {n \in Nat : n <= k => f[n] \in D}
    <2>1. \A n \in 0 .. k : f[n] = IF n = 0 THEN x ELSE Fill(f[n - 1], group[n])
      BY <1>2, <1>6 DEF Filling
    <2>2. 0 \in S
      <3>1. 0 \in 0 .. k
        OBVIOUS
      <3>2. f[0] = IF 0 = 0 THEN x ELSE Fill(f[0 - 1], group[0])
        BY <2>1, <3>1, Zenon
      <3> QED BY <1>4, <3>2
    <2>3. ASSUME NEW n \in Nat, n \in S PROVE n + 1 \in S
      <3>1. CASE n + 1 <= k
        <4>1. n + 1 \in 0 .. k /\ n + 1 # 0 /\ (n + 1) - 1 = n /\ n <= k
          BY <3>1
        <4>2. f[n + 1] = Fill(f[n], group[n + 1])
          BY <2>1, <4>1
        <4> QED BY <1>3, <2>3, <4>1, <4>2
      <3>2. CASE ~(n + 1 <= k)
        BY <3>2
      <3> QED BY <3>1, <3>2
    <2> HIDE DEF S
    <2>4. k \in S
      BY <2>2, <2>3, Induction
    <2> QED BY <2>4 DEF S
  <1> QED BY <1>1, <1>2, <1>5, <1>6

\* What is packed after a group has no unit that is being filled.
Packed(x) == x \in PackedType /\ Packing(x) /\ x.unit = {}

\* A group that is packed keeps what is packed.
LEMMA PackGroupKeeps ==
  ASSUME ChangeOK, NEW x, Packed(x), NEW group, Len(group) \in Nat
  PROVE  Packed(PackGroup(x, group))
  <1>1. PICK fill : fill = CHOOSE f : Filling(f, x, group)
    OBVIOUS
  <1>2. Filling(fill, x, group)
    BY <1>1, FillingKeeps, Zenon DEF Packed
  <1>3. PICK filled : filled = fill[Len(group)]
    OBVIOUS
  <1>4. filled \in PackedType /\ Packing(filled)
    BY <1>2, <1>3, FillingKeeps, Zenon DEF Packed
  <1>5. PICK y : y = [filled EXCEPT !.units = (@ \cup {filled.unit}) \ {{}}, !.unit = {}]
    OBVIOUS
  <1>6. y.units = (filled.units \cup {filled.unit}) \ {{}} /\ y.unit = {} /\ y.assigned = filled.assigned
    BY <1>4, <1>5 DEF PackedType
  <1>7. y \in PackedType
    BY <1>4, <1>5 DEF PackedType
  <1>8. Packing(y)
    <2>1. y.assigned = y.unit \cup UNION y.units /\ y.assigned \subseteq Included
      BY <1>4, <1>6 DEF Packing
    <2>2. \A u \in y.units : Small(u) /\ u \cap y.unit = {}
      BY <1>4, <1>6 DEF Packing
    <2>3. \A u, v \in y.units : u # v => u \cap v = {}
      BY <1>4, <1>6 DEF Packing
    <2> HIDE DEF Small
    <2> QED BY <1>6, <2>1, <2>2, <2>3, Zenon DEF Packing
  <1>9. PackGroup(x, group) = y
    BY <1>1, <1>3, <1>5 DEF PackGroup, Filling
  <1> QED BY <1>6, <1>7, <1>8, <1>9 DEF Packed

-----------------------------------------------------------------------------
(* Planning: the units of groups *)

\* Groups and their lengths.
Listed(groups) == Len(groups) \in Nat /\ \A n \in 1 .. Len(groups) : Len(groups[n]) \in Nat

\* The states of packing groups.
PackingOf(f, groups) ==
    f = [n \in 0 .. Len(groups) |->
            IF n = 0 THEN [units |-> {}, unit |-> {}, assigned |-> {}]
            ELSE PackGroup(f[n - 1], groups[n])]

\* Groups that are packed leave units that are closed.
LEMMA PackingCloses ==
  ASSUME ChangeOK, NEW groups, Listed(groups)
  PROVE  /\ \E f : PackingOf(f, groups)
         /\ \A f : PackingOf(f, groups) => Packed(f[Len(groups)])
  <1>1. PICK D : D = {y \in PackedType : Packed(y)}
    OBVIOUS
  <1>2. PICK k \in Nat : k = Len(groups)
    BY DEF Listed
  <1>3. ASSUME NEW y \in D, NEW i \in 1 .. k PROVE PackGroup(y, groups[i]) \in D
    <2>1. Len(groups[i]) \in Nat
      BY <1>2 DEF Listed
    <2>2. Packed(PackGroup(y, groups[i]))
      BY <1>1, <2>1, PackGroupKeeps
    <2> QED BY <1>1, <2>2 DEF Packed
  <1>4. PICK x : x = [units |-> {}, unit |-> {}, assigned |-> {}]
    OBVIOUS
  <1>5. x \in D
    <2>1. x \in PackedType /\ x.unit = {} /\ x.units = {} /\ x.assigned = {}
      BY <1>4 DEF PackedType
    <2>2. Packing(x)
      BY <2>1 DEF Packing
    <2> QED BY <1>1, <2>1, <2>2 DEF Packed
  <1>6. \E f : PackingOf(f, groups)
    <2>1. PICK G : G = [i \in 1 .. k |-> [y \in D |-> PackGroup(y, groups[i])]]
      OBVIOUS
    <2>2. G \in [1 .. k -> [D -> D]]
      BY <1>3, <2>1
    <2>3. PICK f \in [0 .. k -> D] : f[0] = x /\ \A i \in 1 .. k : f[i] = G[i][f[i - 1]]
      BY <1>5, <2>2, Recursion
    <2>4. ASSUME NEW i \in 1 .. k PROVE f[i] = PackGroup(f[i - 1], groups[i])
      <3>1. i - 1 \in 0 .. k
        OBVIOUS
      <3>2. f[i - 1] \in D
        BY <3>1
      <3> QED BY <2>1, <2>3, <3>2
    <2>5. \A n \in 0 .. k : f[n] = IF n = 0 THEN x ELSE PackGroup(f[n - 1], groups[n])
      <3> TAKE n \in 0 .. k
      <3>1. CASE n = 0
        BY <2>3, <3>1
      <3>2. CASE n # 0
        <4>1. n \in 1 .. k
          BY <3>2
        <4> QED BY <2>4, <3>2, <4>1
      <3> QED BY <3>1, <3>2
    <2>6. f = [n \in 0 .. k |-> IF n = 0 THEN x ELSE PackGroup(f[n - 1], groups[n])]
      BY <2>5
    <2>7. PackingOf(f, groups)
      BY <1>2, <1>4, <2>6 DEF PackingOf
    <2> QED BY <2>7
  <1>7. ASSUME NEW f, PackingOf(f, groups) PROVE f[k] \in D
    <2> DEFINE S == {n \in Nat : n <= k => f[n] \in D}
    <2>1. \A n \in 0 .. k : f[n] = IF n = 0 THEN x ELSE PackGroup(f[n - 1], groups[n])
      BY <1>2, <1>4, <1>7 DEF PackingOf
    <2>2. 0 \in S
      <3>1. 0 \in 0 .. k
        OBVIOUS
      <3>2. f[0] = IF 0 = 0 THEN x ELSE PackGroup(f[0 - 1], groups[0])
        BY <2>1, <3>1, Zenon
      <3> QED BY <1>5, <3>2
    <2>3. ASSUME NEW n \in Nat, n \in S PROVE n + 1 \in S
      <3>1. CASE n + 1 <= k
        <4>1. n + 1 \in 0 .. k /\ n + 1 # 0 /\ (n + 1) - 1 = n /\ n <= k /\ n + 1 \in 1 .. k
          BY <3>1
        <4>2. f[n + 1] = PackGroup(f[n], groups[n + 1])
          BY <2>1, <4>1
        <4> QED BY <1>3, <2>3, <4>1, <4>2
      <3>2. CASE ~(n + 1 <= k)
        BY <3>2
      <3> QED BY <3>1, <3>2
    <2> HIDE DEF S
    <2>4. k \in S
      BY <2>2, <2>3, Induction
    <2> QED BY <2>4 DEF S
  <1> QED BY <1>1, <1>2, <1>6, <1>7

\* Units that have each file of the scope once and are small.
Cover(units) ==
    /\ UNION units = Included
    /\ \A u \in units : Small(u)
    /\ \A u, v \in units : u # v => u \cap v = {}

\* Whatever the groups, the units that are packed from them cover the scope.
LEMMA UnitsCover ==
  ASSUME ChangeOK, NEW groups, Listed(groups)
  PROVE  Cover(UnitsFrom(groups))
  <1>1. PICK pack : pack = CHOOSE f : PackingOf(f, groups)
    OBVIOUS
  <1>2. PackingOf(pack, groups)
    BY <1>1, PackingCloses, Zenon
  <1>3. PICK x : x = pack[Len(groups)]
    OBVIOUS
  <1>4. Packed(x)
    BY <1>2, <1>3, PackingCloses, Zenon
  <1>5. UnitsFrom(groups) = x.units \cup {{p} : p \in Included \ x.assigned}
    BY <1>1, <1>3 DEF UnitsFrom, PackingOf
  <1>6. PICK units : units = x.units \cup {{p} : p \in Included \ x.assigned}
    OBVIOUS
  <1>a. x.assigned = UNION x.units /\ x.assigned \subseteq Included
    <2>1. x.assigned = x.unit \cup UNION x.units /\ x.unit = {} /\ x.assigned \subseteq Included
      BY <1>4, Zenon DEF Packed, Packing
    <2> QED BY <2>1
  <1>b. \A u, v \in x.units : u # v => u \cap v = {}
    BY <1>4, Zenon DEF Packed, Packing
  <1>7. UNION units = Included
    <2>1. UNION units \subseteq Included
      BY <1>6, <1>a
    <2>2. ASSUME NEW p \in Included PROVE p \in UNION units
      <3>1. CASE p \in x.assigned
        BY <1>6, <1>a, <3>1
      <3>2. CASE p \notin x.assigned
        BY <1>6, <3>2
      <3> QED BY <3>1, <3>2
    <2> QED BY <2>1, <2>2
  <1>8. \A u \in units : Small(u)
    <2> TAKE u \in units
    <2>1. CASE u \in x.units
      BY <1>4, <2>1, Zenon DEF Packed, Packing
    <2>2. CASE u \notin x.units
      <3>1. PICK p : u = {p}
        BY <1>6, <2>2
      <3> QED BY <3>1, SingleIsSmall
    <2> QED BY <2>1, <2>2
  <1>9. ASSUME NEW u \in units, NEW v \in units, NEW p, p \in u, p \in v PROVE u = v
    <2>1. ASSUME NEW w \in units, p \in w, w \notin x.units PROVE w = {p} /\ p \notin x.assigned
      BY <1>6, <2>1
    <2>2. ASSUME NEW w \in x.units, p \in w PROVE p \in x.assigned
      BY <1>a, <2>2
    <2>3. CASE u \in x.units /\ v \in x.units
      BY <1>9, <1>b, <2>3
    <2> QED BY <1>9, <2>1, <2>2, <2>3
  <1> HIDE DEF Small
  <1>c. \A u, v \in units : u # v => u \cap v = {}
    BY <1>9
  <1> QED BY <1>5, <1>6, <1>7, <1>8, <1>c DEF Cover

-----------------------------------------------------------------------------
(* Planning: what is packed is listed *)

\* A function on 1 .. k is k long.
LEMMA LenIs == ASSUME NEW k \in Nat, NEW s, s = [n \in 1 .. k |-> s[n]] PROVE Len(s) = k
  OBVIOUS

\* An order of finitely many things lists them all.
LEMMA RankedLen ==
  ASSUME NEW S, IsFiniteSet(S)
  PROVE  /\ Len(InOrder(S)) \in Nat /\ DOMAIN InOrder(S) = 1 .. Len(InOrder(S))
         /\ Len(Ranked(S, Earlier)) \in Nat
  <1>1. PICK k \in Nat : k = Cardinality(S)
    BY FS_CardinalityType
  <1>2. PICK s : s = InOrder(S)
    OBVIOUS
  <1>3. PICK t : t = Ranked(S, Earlier)
    OBVIOUS
  <1> DEFINE least(n) == CHOOSE x \in S : Cardinality({y \in S : y < x}) = n - 1
             early(n) == CHOOSE x \in S : Cardinality({y \in S : Earlier(y, x)}) = n - 1
  <1>4. s = [n \in 1 .. Cardinality(S) |-> least(n)]
    BY <1>2, Zenon DEF InOrder, Ranked
  <1>5. t = [n \in 1 .. Cardinality(S) |-> early(n)]
    BY <1>3, Zenon DEF Ranked
  <1> HIDE DEF least, early
  <1>6. s = [n \in 1 .. k |-> s[n]] /\ t = [n \in 1 .. k |-> t[n]]
    BY <1>1, <1>4, <1>5
  <1>7. Len(s) = k /\ DOMAIN s = 1 .. k /\ Len(t) = k
    BY <1>6, LenIs
  <1> QED BY <1>2, <1>3, <1>7

RelationsOK == relations \in SUBSET {r \in Priorities \X FilePath \X FilePath : r[2] < r[3]}

\* Relations are finitely many.
LEMMA RelationsFinite == ASSUME RelationsOK PROVE IsFiniteSet(relations)
  <1>1. IsFiniteSet(Priorities) /\ IsFiniteSet(FilePath)
    BY PathsFinite, PlanAssumption
  <1>2. IsFiniteSet(Priorities \X FilePath)
    BY <1>1, FS_Product
  <1>3. IsFiniteSet((Priorities \X FilePath) \X FilePath)
    BY <1>1, <1>2, FS_Product
  <1> DEFINE A == (Priorities \X FilePath) \X FilePath
             B == Priorities \X FilePath \X FilePath
             f == [a \in A |-> <<a[1][1], a[1][2], a[2]>>]
  <1>4. f \in [A -> B]
    OBVIOUS
  <1>5. ASSUME NEW b \in B PROVE \E a \in A : f[a] = b
    <2>1. PICK a : a = <<<<b[1], b[2]>>, b[3]>>
      OBVIOUS
    <2>2. a \in A /\ f[a] = b
      BY <2>1
    <2> QED BY <2>2
  <1>6. f \in Surjection(A, B)
    BY <1>4, <1>5 DEF Surjection
  <1>7. IsFiniteSet(B)
    BY <1>3, <1>6, FS_Surjection
  <1> QED BY <1>7, FS_Subset DEF RelationsOK

\* The states of joining bundles along an order of relations.
Joining(f, order) ==
    f = [n \in 0 .. Len(order) |->
            IF n = 0 THEN {{p} : p \in Included} ELSE Join(f[n - 1], order[n])]

\* Bundles are finitely many sets of files.
LEMMA BundlesType ==
  ASSUME RelationsOK
  PROVE  Bundles \in SUBSET SUBSET FilePath /\ Cardinality(Bundles) \in Nat
  <1>1. PICK order : order = Ranked(relations, Earlier)
    OBVIOUS
  <1>2. PICK k \in Nat : k = Len(order)
    BY <1>1, RelationsFinite, RankedLen
  <1>3. PICK D : D = SUBSET SUBSET FilePath
    OBVIOUS
  <1>4. PICK a : a = {{p} : p \in Included}
    OBVIOUS
  <1>5. a \in D
    BY <1>3, <1>4 DEF Included
  <1>6. ASSUME NEW bundles \in D, NEW relation PROVE Join(bundles, relation) \in D
    BY <1>3 DEF Join
  <1>7. \E f : Joining(f, order)
    <2>1. PICK G : G = [i \in 1 .. k |-> [bundles \in D |-> Join(bundles, order[i])]]
      OBVIOUS
    <2>2. G \in [1 .. k -> [D -> D]]
      BY <1>6, <2>1
    <2>3. PICK f \in [0 .. k -> D] : f[0] = a /\ \A i \in 1 .. k : f[i] = G[i][f[i - 1]]
      BY <1>5, <2>2, Recursion
    <2>4. ASSUME NEW i \in 1 .. k PROVE f[i] = Join(f[i - 1], order[i])
      <3>1. i - 1 \in 0 .. k
        OBVIOUS
      <3>2. f[i - 1] \in D
        BY <3>1
      <3> QED BY <2>1, <2>3, <3>2
    <2>5. \A n \in 0 .. k : f[n] = IF n = 0 THEN a ELSE Join(f[n - 1], order[n])
      <3> TAKE n \in 0 .. k
      <3>1. CASE n = 0
        BY <2>3, <3>1
      <3>2. CASE n # 0
        <4>1. n \in 1 .. k
          BY <3>2
        <4> QED BY <2>4, <3>2, <4>1
      <3> QED BY <3>1, <3>2
    <2>6. f = [n \in 0 .. k |-> IF n = 0 THEN a ELSE Join(f[n - 1], order[n])]
      BY <2>5
    <2>7. Joining(f, order)
      BY <1>2, <1>4, <2>6 DEF Joining
    <2> QED BY <2>7
  <1>8. PICK joined : joined = CHOOSE f : Joining(f, order)
    OBVIOUS
  <1>9. joined[k] \in D
    <2> DEFINE S == {n \in Nat : n <= k => joined[n] \in D}
    <2>0. Joining(joined, order)
      BY <1>7, <1>8
    <2>1. \A n \in 0 .. k : joined[n] = IF n = 0 THEN a ELSE Join(joined[n - 1], order[n])
      BY <1>2, <1>4, <2>0 DEF Joining
    <2>2. 0 \in S
      <3>1. 0 \in 0 .. k
        OBVIOUS
      <3>2. joined[0] = IF 0 = 0 THEN a ELSE Join(joined[0 - 1], order[0])
        BY <2>1, <3>1, Zenon
      <3> QED BY <1>5, <3>2
    <2>3. ASSUME NEW n \in Nat, n \in S PROVE n + 1 \in S
      <3>1. CASE n + 1 <= k
        <4>1. n + 1 \in 0 .. k /\ n + 1 # 0 /\ (n + 1) - 1 = n /\ n <= k
          BY <3>1
        <4>2. joined[n + 1] = Join(joined[n], order[n + 1])
          BY <2>1, <4>1
        <4> QED BY <1>6, <2>3, <4>1, <4>2
      <3>2. CASE ~(n + 1 <= k)
        BY <3>2
      <3> QED BY <3>1, <3>2
    <2> HIDE DEF S
    <2>4. k \in S
      BY <2>2, <2>3, Induction
    <2> QED BY <2>4 DEF S
  <1>10. Bundles = joined[k]
    BY <1>1, <1>2, <1>8 DEF Bundles, Joining
  <1>11. IsFiniteSet(SUBSET FilePath)
    BY PathsFinite, FS_SUBSET
  <1>12. IsFiniteSet(Bundles)
    BY <1>3, <1>9, <1>10, <1>11, FS_Subset
  <1> QED BY <1>3, <1>9, <1>10, <1>12, FS_CardinalityType

\* The groups of files, without a model, are listed.
LEMMA FileGroupsListed == ASSUME ChangeOK, RelationsOK PROVE Listed(FileGroups)
  <1>1. Included \in SUBSET FilePath
    BY DEF Included
  <1>2. ASSUME NEW paths \in SUBSET FilePath
        PROVE  Len(InOrder(paths)) \in Nat /\ DOMAIN InOrder(paths) = 1 .. Len(InOrder(paths))
    BY PathsFinite, RankedLen
  <1>3. CASE Cardinality(Included) > 3
    <2>1. PICK k \in Nat : k = Cardinality(Bundles)
      BY BundlesType
    <2>2. ASSUME NEW n PROVE Len(InOrder(BundleAt(n, Bundles))) \in Nat
      <3>1. BundleAt(n, Bundles) \in SUBSET FilePath
        BY BundlesType DEF BundleAt
      <3> QED BY <1>2, <3>1
    <2> DEFINE at(n) == InOrder(BundleAt(n, Bundles))
    <2>3. PICK groups : groups = FileGroups
      OBVIOUS
    <2>4. groups = [n \in 1 .. Cardinality(Bundles) |-> at(n)]
      BY <1>3, <2>3, Zenon DEF FileGroups
    <2>5. \A n : Len(at(n)) \in Nat
      BY <2>2
    <2> HIDE DEF at
    <2>6. groups = [n \in 1 .. k |-> groups[n]] /\ \A n \in 1 .. k : Len(groups[n]) \in Nat
      BY <2>1, <2>4, <2>5
    <2>7. Len(groups) = k
      BY <2>6, LenIs
    <2> QED BY <2>3, <2>6, <2>7 DEF Listed
  <1>4. CASE ~(Cardinality(Included) > 3) /\ VolumeOf(Included) < SmallChange
    <2>1. PICK group : group = InOrder(Included)
      OBVIOUS
    <2>2. Len(group) \in Nat
      BY <1>1, <1>2, <2>1
    <2>3. FileGroups = <<group>>
      BY <1>4, <2>1, Zenon DEF FileGroups
    <2> QED BY <2>2, <2>3 DEF Listed
  <1>5. CASE ~(Cardinality(Included) > 3) /\ ~(VolumeOf(Included) < SmallChange)
    <2>1. PICK paths : paths = InOrder(Included)
      OBVIOUS
    <2>2. PICK k \in Nat : k = Len(paths)
      BY <1>1, <1>2, <2>1
    <2>3. DOMAIN paths = 1 .. k
      BY <1>1, <1>2, <2>1, <2>2
    <2>4. PICK groups : groups = FileGroups
      OBVIOUS
    <2>5. groups = [n \in DOMAIN paths |-> <<paths[n]>>]
      BY <1>5, <2>1, <2>4, Zenon DEF FileGroups
    <2>6. groups = [n \in 1 .. k |-> groups[n]] /\ \A n \in 1 .. k : Len(groups[n]) = 1
      BY <2>3, <2>5
    <2>7. Len(groups) = k
      BY <2>6, LenIs
    <2> QED BY <2>4, <2>6, <2>7 DEF Listed
  <1> QED BY <1>3, <1>4, <1>5

\* The states of naming the files of an answer's group.
Naming(f, group) ==
    f = [n \in 0 .. Len(group) |->
            IF n = 0 THEN <<>>
            ELSE IF group[n] \in DOMAIN InOrder(Included)
            THEN Append(f[n - 1], InOrder(Included)[group[n]])
            ELSE f[n - 1]]

\* A group of an answer names a list.
LEMMA NamedListed == ASSUME NEW group, Len(group) \in Nat PROVE Len(Named(group)) \in Nat
  <1>1. PICK files : files = InOrder(Included)
    OBVIOUS
  <1>2. PICK k \in Nat : k = Len(group)
    OBVIOUS
  <1>3. PICK D : D = Seq({files[i] : i \in DOMAIN files})
    OBVIOUS
  <1> DEFINE next(i, s) == IF group[i] \in DOMAIN files THEN Append(s, files[group[i]]) ELSE s
  <1>4. <<>> \in D /\ \A s \in D, i \in 1 .. k : next(i, s) \in D
    BY <1>3
  <1>5. \E f : Naming(f, group)
    <2>1. PICK G : G = [i \in 1 .. k |-> [s \in D |-> next(i, s)]]
      OBVIOUS
    <2>2. G \in [1 .. k -> [D -> D]]
      BY <1>4, <2>1
    <2>3. PICK f \in [0 .. k -> D] : f[0] = <<>> /\ \A i \in 1 .. k : f[i] = G[i][f[i - 1]]
      BY <1>4, <2>2, Recursion
    <2>4. ASSUME NEW i \in 1 .. k PROVE f[i] = next(i, f[i - 1])
      <3>1. i - 1 \in 0 .. k
        OBVIOUS
      <3>2. f[i - 1] \in D
        BY <3>1
      <3> QED BY <2>1, <2>3, <3>2
    <2>5. \A n \in 0 .. k : f[n] = IF n = 0 THEN <<>> ELSE next(n, f[n - 1])
      <3> TAKE n \in 0 .. k
      <3>1. CASE n = 0
        BY <2>3, <3>1
      <3>2. CASE n # 0
        <4>1. n \in 1 .. k
          BY <3>2
        <4> QED BY <2>4, <3>2, <4>1
      <3> QED BY <3>1, <3>2
    <2>6. f = [n \in 0 .. k |-> IF n = 0 THEN <<>> ELSE next(n, f[n - 1])]
      BY <2>5
    <2>7. Naming(f, group)
      BY <1>1, <1>2, <2>6 DEF Naming
    <2> QED BY <2>7
  <1>6. PICK named : named = CHOOSE f : Naming(f, group)
    OBVIOUS
  <1>7. named[k] \in D
    <2> DEFINE S == {n \in Nat : n <= k => named[n] \in D}
    <2>0. Naming(named, group)
      BY <1>5, <1>6
    <2>1. \A n \in 0 .. k : named[n] = IF n = 0 THEN <<>> ELSE next(n, named[n - 1])
      BY <1>1, <1>2, <2>0 DEF Naming
    <2> HIDE DEF next
    <2>2. 0 \in S
      <3>1. 0 \in 0 .. k
        OBVIOUS
      <3>2. named[0] = IF 0 = 0 THEN <<>> ELSE next(0, named[0 - 1])
        BY <2>1, <3>1, Zenon
      <3> QED BY <1>4, <3>2
    <2>3. ASSUME NEW n \in Nat, n \in S PROVE n + 1 \in S
      <3>1. CASE n + 1 <= k
        <4>1. n + 1 \in 0 .. k /\ n + 1 # 0 /\ (n + 1) - 1 = n /\ n <= k /\ n + 1 \in 1 .. k
          BY <3>1
        <4>2. named[n + 1] = next(n + 1, named[n])
          BY <2>1, <4>1
        <4> QED BY <1>4, <2>3, <4>1, <4>2
      <3>2. CASE ~(n + 1 <= k)
        BY <3>2
      <3> QED BY <3>1, <3>2
    <2> HIDE DEF S
    <2>4. k \in S
      BY <2>2, <2>3, Induction
    <2> QED BY <2>4 DEF S
  <1>8. Named(group) = named[k]
    BY <1>2, <1>6 DEF Named, Naming
  <1> QED BY <1>3, <1>7, <1>8

\* Whatever a model answers, the groups it names are listed.
LEMMA AnswerListed ==
  ASSUME NEW output, Listed(output), DOMAIN output = 1 .. Len(output)
  PROVE  Listed([g \in DOMAIN output |-> Named(output[g])])
  <1>1. PICK k \in Nat : k = Len(output)
    BY DEF Listed
  <1>2. PICK groups : groups = [g \in DOMAIN output |-> Named(output[g])]
    OBVIOUS
  <1>3. \A g \in 1 .. k : Len(Named(output[g])) \in Nat
    BY <1>1, NamedListed DEF Listed
  <1>4. groups = [g \in 1 .. k |-> groups[g]] /\ \A g \in 1 .. k : groups[g] = Named(output[g])
    BY <1>1, <1>2
  <1>5. Len(groups) = k
    BY <1>4, LenIs
  <1> QED BY <1>2, <1>3, <1>4, <1>5 DEF Listed

\* The answers of the runs are lists of lists.
LEMMA AnswersListed ==
  ASSUME NEW output \in Answers
  PROVE  Listed(output) /\ DOMAIN output = 1 .. Len(output)
  <1>1. PICK index : index = 0 .. Files
    OBVIOUS
  <1>2. PICK n \in Nat : n = Files
    BY PlanAssumption
  <1>3. IsFiniteSet(index)
    <2>1. IsFiniteSet(0 .. n)
      BY FS_Interval
    <2> QED BY <1>1, <1>2, <2>1
  <1>4. CASE output = <<>>
    BY <1>4 DEF Listed
  <1>5. CASE output # <<>>
    <2>1. PICK g \in SUBSET index, pair \in index \X index : output = <<InOrder(g), pair>>
      BY <1>1, <1>5 DEF Answers
    <2>2. Len(InOrder(g)) \in Nat
      BY <1>3, FS_Subset, RankedLen
    <2>3. Len(pair) = 2
      OBVIOUS
    <2>4. PICK first : first = InOrder(g)
      OBVIOUS
    <2>5. output = <<first, pair>> /\ Len(first) \in Nat
      BY <2>1, <2>2, <2>4
    <2>6. Len(output) = 2 /\ DOMAIN output = 1 .. 2 /\ output[1] = first /\ output[2] = pair
      BY <2>5
    <2>7. \A i \in 1 .. 2 : i = 1 \/ i = 2
      OBVIOUS
    <2>8. \A i \in 1 .. Len(output) : Len(output[i]) \in Nat
      BY <2>3, <2>5, <2>6, <2>7
    <2> QED BY <2>6, <2>8 DEF Listed
  <1> QED BY <1>4, <1>5

\* Whatever a model answers, the units of its groups cover the scope.
THEOREM AnyAnswerCovers ==
  ASSUME ChangeOK, NEW output, Listed(output), DOMAIN output = 1 .. Len(output)
  PROVE  Cover(Grouped(output))
  BY AnswerListed, UnitsCover DEF Grouped

-----------------------------------------------------------------------------
(* Planning: the invariant *)

PlanInv ==
    /\ ChangeOK /\ RelationsOK
    /\ plan.stage # "none" =>
         plan.stage # "refused" /\ Cover(plan.units) /\ plan.keys = KeysOf(Included)
    /\ plan = [stage |-> plan.stage, units |-> plan.units, keys |-> plan.keys]

\* What a unit costs, and so that units cover the scope, is up to the change
\* and the selection.
LEMMA CoverStays ==
  ASSUME UNCHANGED <<change, selection>>, NEW units, Cover(units), plan'.units = units
  PROVE  Cover(plan.units)' /\ Included' = Included /\ KeysOf(Included)' = KeysOf(Included)
  <1>1. ASSUME NEW u PROVE CostOf(u)' = CostOf(u)
    BY DEF CostOf, PathCost, Pieces
  <1>2. ASSUME NEW u PROVE Small(u)' <=> Small(u)
    BY <1>1 DEF Small
  <1>3. Included' = Included /\ KeysOf(Included)' = KeysOf(Included)
    BY DEF Included, KeysOf, Pieces
  <1>4. \A u \in units : Small(u)'
    BY <1>2 DEF Cover
  <1>5. (UNION plan.units)' = UNION units
    OBVIOUS
  <1> HIDE DEF Small
  <1>6. Cover(plan.units)'
    BY <1>3, <1>4, <1>5 DEF Cover
  <1> QED BY <1>3, <1>6

\* Planning keeps PlanInv: in particular no answer of the model that groups
\* the files is refused when it is frozen.
THEOREM PlanInvariance == PlanSpec => []PlanInv
  <1>1. PlanInit => PlanInv
    BY DEF PlanInit, PlanInv, NoPlan, ChangeOK, RelationsOK
  <1>2. PlanInv /\ [PlanNext]_planVars => PlanInv'
    <2> SUFFICES ASSUME PlanInv, [PlanNext]_planVars PROVE PlanInv'
      OBVIOUS
    <2>0. ChangeOK /\ RelationsOK
      BY DEF PlanInv
    <2>1. CASE PlanReview
      <3>1. PICK units : units = UnitsFrom(FileGroups)
        OBVIOUS
      <3>2. Cover(units)
        BY <2>0, <3>1, FileGroupsListed, UnitsCover
      <3>3. UNCHANGED <<change, selection, relations>>
        BY <2>1 DEF PlanReview
      <3>4. /\ plan'.units = units /\ plan'.keys = KeysOf(Included)
            /\ plan'.stage \in {"pending", "planned"}
            /\ plan' = [stage |-> plan'.stage, units |-> plan'.units, keys |-> plan'.keys]
        BY <2>1, <3>1 DEF PlanReview
      <3>5. ChangeOK' /\ RelationsOK'
        BY <2>0, <3>3 DEF ChangeOK, RelationsOK
      <3>6. Included' = Included /\ KeysOf(Included)' = KeysOf(Included)
        BY <3>2, <3>3, <3>4, CoverStays
      <3>7. Cover(plan.units)'
        BY <3>2, <3>3, <3>4, CoverStays
      <3> QED BY <3>4, <3>5, <3>6, <3>7 DEF PlanInv
    <2>2. ASSUME NEW output \in Answers, FreezePlan(output) PROVE PlanInv'
      <3>1. PICK units : units = Grouped(output)
        OBVIOUS
      <3>2. Cover(units)
        BY <2>0, <3>1, AnswersListed, AnyAnswerCovers
      <3>3. plan.stage = "pending" /\ UNCHANGED <<change, selection, relations>>
        BY <2>2 DEF FreezePlan
      <3>4. plan.keys = KeysOf(Included)
        BY <3>3 DEF PlanInv
      <3>5. Freezable(units)
        BY <3>2, <3>4 DEF Freezable, Cover, Small
      <3>6. plan' = [plan EXCEPT !.stage = "frozen", !.units = units]
        BY <2>2, <3>1, <3>5 DEF FreezePlan
      <3>7. /\ plan'.units = units /\ plan'.keys = plan.keys /\ plan'.stage = "frozen"
            /\ plan' = [stage |-> plan'.stage, units |-> plan'.units, keys |-> plan'.keys]
        <4>1. plan = [stage |-> plan.stage, units |-> plan.units, keys |-> plan.keys]
          BY DEF PlanInv
        <4> QED BY <3>6, <4>1
      <3>8. ChangeOK' /\ RelationsOK'
        BY <2>0, <3>3 DEF ChangeOK, RelationsOK
      <3>9. Included' = Included /\ KeysOf(Included)' = KeysOf(Included)
        BY <3>2, <3>3, <3>7, CoverStays
      <3>10. Cover(plan.units)'
        BY <3>2, <3>3, <3>7, CoverStays
      <3> QED BY <3>4, <3>7, <3>8, <3>9, <3>10 DEF PlanInv
    <2>3. CASE UNCHANGED planVars
      <3>1. UNCHANGED <<change, selection, relations, plan>>
        BY <2>3 DEF planVars
      <3>2. CASE plan.stage = "none"
        BY <3>1, <3>2 DEF PlanInv, ChangeOK, RelationsOK
      <3>3. CASE plan.stage # "none"
        <4>1. PICK units : units = plan.units
          OBVIOUS
        <4>2. Cover(units) /\ plan'.units = units
          BY <3>1, <3>3, <4>1 DEF PlanInv
        <4>3. Cover(plan.units)' /\ KeysOf(Included)' = KeysOf(Included)
          BY <3>1, <4>2, CoverStays
        <4> QED BY <3>1, <3>3, <4>3 DEF PlanInv, ChangeOK, RelationsOK
      <3> QED BY <3>2, <3>3
    <2> QED BY <2>1, <2>2, <2>3 DEF PlanNext
  <1> QED BY <1>1, <1>2, PTL DEF PlanSpec

\* Every plan has each piece of each included file in exactly one small unit,
\* whatever the files, the relations and the answer of the grouping model.
THEOREM PlansCover == PlanSpec => []PlansCoverTheScope
  <1>1. PlanInv => PlansCoverTheScope
    BY DEF PlanInv, PlansCoverTheScope, Cover, Small
  <1> QED BY <1>1, PlanInvariance, PTL

-----------------------------------------------------------------------------
(* Numbers and lists *)

\* Finitely many numbers have a last one.
LEMMA LastExists ==
  ASSUME NEW k \in Nat, NEW S \in SUBSET (0 .. k), S # {}
  PROVE  \E m \in S : \A j \in S : j <= m
  <1> DEFINE last(m) == \A j \in S : j <= m
             T == {n \in Nat : \E j \in S : n <= j}
  <1>1. ASSUME \A m \in S : ~last(m) PROVE FALSE
    <2>1. 0 \in T
      <3>1. PICK j \in S : TRUE
        OBVIOUS
      <3>2. 0 <= j
        OBVIOUS
      <3> QED BY <3>2
    <2>2. ASSUME NEW n \in Nat, n \in T PROVE n + 1 \in T
      <3>1. PICK m \in S : n <= m
        BY <2>2
      <3>2. PICK j \in S : ~(j <= m)
        BY <1>1
      <3>3. n + 1 <= j
        BY <3>1, <3>2
      <3> QED BY <3>3
    <2> HIDE DEF T
    <2>3. k + 1 \in T
      BY <2>1, <2>2, Induction
    <2> QED BY <2>3 DEF T
  <1> HIDE DEF last
  <1>2. \E m \in S : last(m)
    BY <1>1
  <1> QED BY <1>2 DEF last

\* A list with one more.
LEMMA AppendIs ==
  ASSUME NEW S, NEW s \in Seq(S), NEW e \in S, NEW k \in Nat, Len(s) = k
  PROVE  /\ Len(Append(s, e)) = k + 1
         /\ Append(s, e) = [i \in 1 .. k + 1 |-> Append(s, e)[i]]
         /\ Append(s, e)[k + 1] = e /\ \A i \in 1 .. k : Append(s, e)[i] = s[i]
  <1>0. Append(s, e) \in Seq(S)
    OBVIOUS
  <1>1. PICK t \in Seq(S) : t = Append(s, e)
    BY <1>0, Zenon
  <1>2. Len(t) = k + 1
    BY <1>1
  <1>3. t[k + 1] = e
    BY <1>1
  <1>4. \A i \in 1 .. k : t[i] = s[i]
    BY <1>1
  <1>5. t = [i \in 1 .. k + 1 |-> t[i]]
    BY <1>2
  <1> QED BY <1>1, <1>2, <1>3, <1>4, <1>5

-----------------------------------------------------------------------------
(* Increments: where what is reused comes from *)

\* A hunk of a review was reviewed in review j, and is the same since.
Linked(h, j, at) ==
    /\ \E v \in DOMAIN reviews[j].work : h \in v /\ reviews[j].work[v].state = "reviewed"
    /\ reviews[j].at.frame = at.frame
    /\ reviews[j].at.tree[h[1]] = at.tree[h[1]]
    /\ ChangedBetween(reviews[j].at, at) \subseteq Document

RecordOK(review) ==
    /\ review = [at |-> review.at, history |-> review.history, status |-> review.status,
                 work |-> review.work, claims |-> review.claims, reported |-> review.reported]
    /\ \A u \in DOMAIN review.work :
         review.work[u] = [state |-> review.work[u].state, from |-> review.work[u].from]
    /\ review.work = [u \in DOMAIN review.work |-> review.work[u]]
    /\ \A u, v \in DOMAIN review.work : u # v => u \cap v = {}

\* What is taken over comes from an earlier review that has reviewed it.
WorkOK(i) ==
    \A u \in DOMAIN reviews[i].work :
        /\ reviews[i].work[u].from \in 0 .. i - 1
        /\ reviews[i].work[u].from # 0 =>
             /\ reviews[i].work[u].state = "reviewed"
             /\ \A h \in u : Linked(h, reviews[i].work[u].from, reviews[i].at)

ReviewsOK ==
    /\ Len(reviews) \in Nat /\ reviews = [i \in 1 .. Len(reviews) |-> reviews[i]]
    /\ \A i \in 1 .. Len(reviews) : RecordOK(reviews[i]) /\ WorkOK(i)

\* The pieces of a plan are apart, and what they take over is linked.
PiecesOK(d) ==
    /\ \A a, b \in d.units : a # b => a[1] \cap b[1] = {}
    /\ \A a \in d.units :
         /\ a[1] # {} /\ a[2] \in 0 .. Len(reviews)
         /\ a[2] # 0 => \A h \in a[1] : Linked(h, a[2], d.at)

IncrementsInv == ReviewsOK /\ (draft # <<>> => PiecesOK(draft[1]))

\* Links stay when no review forgets what it reviewed.
LEMMA LinkStays ==
  ASSUME NEW h, NEW j, NEW at, Linked(h, j, at),
         reviews'[j].at = reviews[j].at,
         DOMAIN reviews'[j].work = DOMAIN reviews[j].work,
         \A u \in DOMAIN reviews[j].work :
             reviews[j].work[u].state = "reviewed" => reviews'[j].work[u].state = "reviewed"
  PROVE  Linked(h, j, at)'
  BY DEF Linked, ChangedBetween

\* How a review may change: its units stay, and what they took over and have
\* reviewed.
Kept(old, new) ==
    /\ new.at = old.at /\ DOMAIN new.work = DOMAIN old.work /\ RecordOK(new)
    /\ \A u \in DOMAIN old.work :
         /\ new.work[u].from = old.work[u].from
         /\ old.work[u].state = "reviewed" => new.work[u].state = "reviewed"

\* Reviews that change in this way stay grounded, and so does a plan.
LEMMA KeptStays ==
  ASSUME ReviewsOK, Len(reviews') \in Nat, Len(reviews) <= Len(reviews'),
         \A i \in 1 .. Len(reviews) : Kept(reviews[i], reviews'[i])
  PROVE  /\ \A i \in 1 .. Len(reviews) : RecordOK(reviews'[i]) /\ WorkOK(i)'
         /\ \A d : PiecesOK(d) => PiecesOK(d)'
  <1>0. Len(reviews) \in Nat
    BY DEF ReviewsOK
  <1>1. ASSUME NEW h, NEW j \in 1 .. Len(reviews), NEW at, Linked(h, j, at) PROVE Linked(h, j, at)'
    BY <1>1, LinkStays DEF Kept
  <1>2. ASSUME NEW i \in 1 .. Len(reviews) PROVE WorkOK(i)'
    <2>1. WorkOK(i) /\ Kept(reviews[i], reviews'[i])
      BY DEF ReviewsOK
    <2>2. SUFFICES ASSUME NEW u \in DOMAIN reviews[i].work
                   PROVE  (/\ reviews[i].work[u].from \in 0 .. i - 1
                           /\ reviews[i].work[u].from # 0 =>
                                /\ reviews[i].work[u].state = "reviewed"
                                /\ \A h \in u : Linked(h, reviews[i].work[u].from, reviews[i].at))'
      <3>1. DOMAIN reviews'[i].work = DOMAIN reviews[i].work
        BY <2>1 DEF Kept
      <3> QED BY <3>1 DEF WorkOK
    <2>3. PICK j : j = reviews[i].work[u].from
      OBVIOUS
    <2>4. reviews'[i].work[u].from = j /\ reviews'[i].at = reviews[i].at /\ j \in 0 .. i - 1
      BY <2>1, <2>3 DEF Kept, WorkOK
    <2>5. CASE j # 0
      <3>1. /\ reviews[i].work[u].state = "reviewed"
            /\ \A h \in u : Linked(h, j, reviews[i].at)
        BY <2>1, <2>3, <2>5 DEF WorkOK
      <3>2. j \in 1 .. Len(reviews)
        BY <1>0, <2>4, <2>5
      <3>3. PICK at : at = reviews[i].at
        OBVIOUS
      <3>4. \A h \in u : Linked(h, j, at)'
        BY <1>1, <3>1, <3>2, <3>3
      <3>5. (\A h \in u : Linked(h, reviews[i].work[u].from, reviews[i].at))'
        BY <2>4, <3>3, <3>4 DEF Linked, ChangedBetween
      <3> QED BY <2>1, <2>4, <3>1, <3>5 DEF Kept
    <2> QED BY <2>4, <2>5
  <1>3. \A i \in 1 .. Len(reviews) : RecordOK(reviews'[i])
    BY DEF Kept
  <1>4. ASSUME NEW d, PiecesOK(d) PROVE PiecesOK(d)'
    <2>1. ASSUME NEW a \in d.units, a[2] # 0, NEW h \in a[1] PROVE Linked(h, a[2], d.at)'
      <3>1. Linked(h, a[2], d.at) /\ a[2] \in 1 .. Len(reviews)
        BY <1>0, <1>4, <2>1 DEF PiecesOK
      <3> QED BY <1>1, <3>1
    <2>2. \A a \in d.units : a[2] \in 0 .. Len(reviews')
      BY <1>0, <1>4 DEF PiecesOK
    <2> QED BY <1>4, <2>1, <2>2 DEF PiecesOK
  <1> QED BY <1>2, <1>3, <1>4

-----------------------------------------------------------------------------
(* Increments: the plan of a review *)

\* The previous review is one of those there are.
LEMMA PreviousIs == ASSUME ReviewsOK PROVE Previous \in 0 .. Len(reviews)
  <1>1. PICK k \in Nat : k = Len(reviews)
    BY DEF ReviewsOK
  <1>2. DOMAIN reviews = 1 .. k
    BY <1>1 DEF ReviewsOK
  <1>3. PICK ended : ended = {i \in DOMAIN reviews : reviews[i].status \in {"completed", "partial"}}
    OBVIOUS
  <1>4. CASE ended = {}
    <2>1. Previous = 0
      BY <1>3, <1>4 DEF Previous
    <2> QED BY <1>1, <2>1
  <1>5. CASE ended # {}
    <2>1. \E m \in ended : \A j \in ended : j <= m
      <3>1. ended \in SUBSET (0 .. k)
        BY <1>2, <1>3
      <3> QED BY <1>1, <1>5, <3>1, LastExists
    <2>2. Previous = CHOOSE i \in ended : \A j \in ended : j <= i
      BY <1>3, <1>5 DEF Previous
    <2>3. Previous \in ended
      BY <2>1, <2>2
    <2> QED BY <1>1, <1>2, <1>3, <2>3
  <1> QED BY <1>4, <1>5

\* The pieces of a unit are apart, parts of it, and what they take over is
\* linked.
LEMMA RefinedIs ==
  ASSUME ReviewsOK, NEW i \in 1 .. Len(reviews), NEW at, Comparable(reviews[i].at, at),
         NEW u, u \subseteq Hunks(at)
  PROVE  /\ \A a, b \in Refined(u, i, at) : a # b => a[1] \cap b[1] = {}
         /\ \A a \in Refined(u, i, at) :
              /\ a[1] # {} /\ a[1] \subseteq u /\ a[2] \in {0, i}
              /\ a[2] # 0 => \A h \in a[1] : Linked(h, a[2], at)
  <1> DEFINE same(h) == h[1] \notin ChangedBetween(reviews[i].at, at)
             kept(v) == {h \in u : h \in v /\ same(h)}
  <1>0. RecordOK(reviews[i]) /\ i # 0
    BY DEF ReviewsOK
  <1>1. PICK done : done = Reusable(reviews[i])
    OBVIOUS
  <1>2. PICK pieces : pieces = {<<kept(v), i>> : v \in done}
    OBVIOUS
  <1>3. PICK fresh : fresh = u \ UNION {piece[1] : piece \in pieces}
    OBVIOUS
  <1>4. PICK all : all = {piece \in pieces \cup {<<fresh, 0>>} : piece[1] # {}}
    OBVIOUS
  <1>5. Refined(u, i, at) = all
    BY <1>1, <1>2, <1>3, <1>4 DEF Refined
  <1>6. \A v, w \in done : v # w => v \cap w = {}
    BY <1>0, <1>1 DEF RecordOK, Reusable
  <1>7. ASSUME NEW a \in all
        PROVE  \/ a = <<fresh, 0>>
               \/ \E v \in done : a = <<kept(v), i>>
    BY <1>2, <1>4
  <1>8. ASSUME NEW v \in done PROVE kept(v) \cap fresh = {} /\ kept(v) \subseteq v \cap u
    <2>1. <<kept(v), i>> \in pieces
      BY <1>2
    <2>2. <<kept(v), i>>[1] = kept(v)
      OBVIOUS
    <2>3. kept(v) \subseteq UNION {piece[1] : piece \in pieces}
      BY <2>1, <2>2
    <2> QED BY <1>3, <2>3
  <1>9. ASSUME NEW v \in done, NEW h \in kept(v) PROVE Linked(h, i, at)
    <2>1. h \in v /\ reviews[i].work[v].state = "reviewed" /\ v \in DOMAIN reviews[i].work
      BY <1>1, <1>9 DEF Reusable
    <2>2. h[1] \in PathOfPr
      BY <1>9 DEF Hunks
    <2>3. reviews[i].at.tree[h[1]] = at.tree[h[1]]
      BY <1>9, <2>2 DEF ChangedBetween
    <2> QED BY <2>1, <2>3 DEF Linked, Comparable
  <1> HIDE DEF kept
  <1>10. \A a, b \in all : a # b => a[1] \cap b[1] = {}
    <2> SUFFICES ASSUME NEW a \in all, NEW b \in all, a # b PROVE a[1] \cap b[1] = {}
      OBVIOUS
    <2>1. CASE a = <<fresh, 0>>
      BY <1>7, <1>8, <2>1
    <2>2. CASE b = <<fresh, 0>>
      BY <1>7, <1>8, <2>2
    <2>3. CASE a # <<fresh, 0>> /\ b # <<fresh, 0>>
      <3>1. PICK v \in done : a = <<kept(v), i>>
        BY <1>7, <2>3
      <3>2. PICK w \in done : b = <<kept(w), i>>
        BY <1>7, <2>3
      <3>3. v # w
        BY <3>1, <3>2
      <3>4. v \cap w = {}
        BY <1>6, <3>3
      <3>5. kept(v) \cap kept(w) = {}
        BY <1>8, <3>4
      <3> QED BY <3>1, <3>2, <3>5
    <2> QED BY <2>1, <2>2, <2>3
  <1>11. ASSUME NEW a \in all
         PROVE  /\ a[1] # {} /\ a[1] \subseteq u /\ a[2] \in {0, i}
                /\ a[2] # 0 => \A h \in a[1] : Linked(h, a[2], at)
    <2>1. a[1] # {}
      BY <1>4
    <2>2. CASE a = <<fresh, 0>>
      BY <1>3, <2>1, <2>2
    <2>3. CASE a # <<fresh, 0>>
      <3>1. PICK v \in done : a = <<kept(v), i>>
        BY <1>7, <2>3
      <3>2. a[1] = kept(v) /\ a[2] = i
        BY <3>1
      <3>3. a[1] \subseteq u
        BY <1>8, <3>2
      <3> QED BY <1>9, <2>1, <3>2, <3>3
    <2> QED BY <2>2, <2>3
  <1> QED BY <1>5, <1>10, <1>11

\* What is planned is in pieces that are apart and linked.
LEMMA PlanIsOK == ASSUME ReviewsOK, NEW together, Plan(together) PROVE PiecesOK(draft[1])'
  <1>1. PICK i : i = Previous
    OBVIOUS
  <1>2. i \in 0 .. Len(reviews) /\ Len(reviews) \in Nat
    BY <1>1, PreviousIs DEF ReviewsOK
  <1>3. PICK at : at = pr
    OBVIOUS
  <1>4. PICK planned : planned = IF together THEN {Hunks(at)} ELSE {{h} : h \in Hunks(at)}
    OBVIOUS
  <1>5. /\ \A u \in planned : u # {} /\ u \subseteq Hunks(at)
        /\ \A u, v \in planned : u # v => u \cap v = {}
    <2>1. Hunks(at) # {}
      BY <1>3 DEF Plan
    <2>2. CASE together
      <3>1. planned = {Hunks(at)}
        BY <1>4, <2>2
      <3> QED BY <2>1, <3>1
    <2>3. CASE ~together
      <3>1. planned = {{h} : h \in Hunks(at)}
        BY <1>4, <2>3
      <3> QED BY <3>1
    <2> QED BY <2>2, <2>3
  <1>6. PICK units : units = IF i # 0 /\ Comparable(reviews[i].at, at)
                             THEN UNION {Refined(u, i, at) : u \in planned}
                             ELSE {<<u, 0>> : u \in planned}
    OBVIOUS
  <1>7. PICK history : history = HistoryOf(i, at)
    OBVIOUS
  <1>8. draft' = <<[at |-> at, units |-> units, history |-> history]>> /\ reviews' = reviews
    BY <1>1, <1>3, <1>4, <1>6, <1>7 DEF Plan
  <1>9. PICK d : d = [at |-> at, units |-> units, history |-> history]
    OBVIOUS
  <1>10. PiecesOK(d)
    <2>1. CASE i # 0 /\ Comparable(reviews[i].at, at)
      <3>0. i \in 1 .. Len(reviews)
        BY <1>2, <2>1
      <3>1. ASSUME NEW a \in units PROVE \E u \in planned : a \in Refined(u, i, at)
        BY <1>6, <2>1
      <3>2. ASSUME NEW u \in planned, NEW a \in Refined(u, i, at)
            PROVE  /\ a[1] # {} /\ a[1] \subseteq u /\ a[2] \in {0, i}
                   /\ a[2] # 0 => \A h \in a[1] : Linked(h, a[2], at)
        BY <1>5, <2>1, <3>0, RefinedIs
      <3>3. ASSUME NEW a \in units, NEW b \in units, a # b PROVE a[1] \cap b[1] = {}
        <4>1. PICK u \in planned : a \in Refined(u, i, at)
          BY <3>1
        <4>2. PICK v \in planned : b \in Refined(v, i, at)
          BY <3>1
        <4>3. CASE u = v
          <5>1. u \subseteq Hunks(at)
            BY <1>5
          <5>2. b \in Refined(u, i, at)
            BY <4>2, <4>3
          <5>3. \A x, y \in Refined(u, i, at) : x # y => x[1] \cap y[1] = {}
            BY <2>1, <3>0, <5>1, RefinedIs
          <5> QED BY <3>3, <4>1, <5>2, <5>3
        <4>4. CASE u # v
          <5>1. a[1] \subseteq u /\ b[1] \subseteq v
            BY <3>2, <4>1, <4>2
          <5> QED BY <1>5, <4>4, <5>1
        <4> QED BY <4>3, <4>4
      <3>4. ASSUME NEW a \in units
            PROVE  /\ a[1] # {} /\ a[2] \in 0 .. Len(reviews)
                   /\ a[2] # 0 => \A h \in a[1] : Linked(h, a[2], at)
        <4>1. PICK u \in planned : a \in Refined(u, i, at)
          BY <3>1
        <4>2. /\ a[1] # {} /\ a[2] \in {0, i}
              /\ a[2] # 0 => \A h \in a[1] : Linked(h, a[2], at)
          BY <3>2, <4>1
        <4> QED BY <1>2, <4>2
      <3>5. d.units = units /\ d.at = at
        BY <1>9
      <3> QED BY <3>3, <3>4, <3>5 DEF PiecesOK
    <2>2. CASE ~(i # 0 /\ Comparable(reviews[i].at, at))
      <3>1. units = {<<u, 0>> : u \in planned}
        BY <1>6, <2>2
      <3> QED BY <1>2, <1>5, <1>9, <3>1 DEF PiecesOK
    <2> QED BY <2>1, <2>2
  <1>11. PiecesOK(d)'
    BY <1>8, <1>10 DEF PiecesOK, Linked, ChangedBetween
  <1>12. draft'[1] = d
    BY <1>8, <1>9
  <1> QED BY <1>8, <1>11, <1>12 DEF PiecesOK, Linked, ChangedBetween

-----------------------------------------------------------------------------
(* Increments: the reviews *)

\* One review that changes as reviews may keeps all grounded.
LEMMA AlterKeeps ==
  ASSUME ReviewsOK, NEW i \in 1 .. Len(reviews), NEW r, Kept(reviews[i], r),
         reviews' = [reviews EXCEPT ![i] = r]
  PROVE  ReviewsOK' /\ \A d : PiecesOK(d) => PiecesOK(d)'
  <1>1. PICK k \in Nat : k = Len(reviews)
    BY DEF ReviewsOK
  <1>2. reviews = [j \in 1 .. k |-> reviews[j]]
    BY <1>1 DEF ReviewsOK
  <1>3. reviews' = [j \in 1 .. k |-> IF j = i THEN r ELSE reviews[j]]
    BY <1>1, <1>2
  <1>4. reviews' = [j \in 1 .. k |-> reviews'[j]]
    BY <1>3
  <1>5. Len(reviews') = k
    BY <1>3
  <1>6. ASSUME NEW j \in 1 .. k PROVE Kept(reviews[j], reviews'[j])
    <2>1. CASE j = i
      BY <1>3, <2>1
    <2>2. CASE j # i
      <3>1. reviews'[j] = reviews[j] /\ RecordOK(reviews[j])
        BY <1>1, <1>3, <2>2 DEF ReviewsOK
      <3> QED BY <3>1 DEF Kept
    <2> QED BY <2>1, <2>2
  <1>7. /\ \A j \in 1 .. k : RecordOK(reviews'[j]) /\ WorkOK(j)'
        /\ \A d : PiecesOK(d) => PiecesOK(d)'
    BY <1>1, <1>5, <1>6, KeptStays
  <1> QED BY <1>4, <1>5, <1>7 DEF ReviewsOK

\* What starting, reviewing, verifying, reporting, a retry and deleting do to a
\* review are changes of this kind.
LEMMA ReviewsAlter ==
  ASSUME ReviewsOK, NEW i \in DOMAIN reviews,
         \/ StartReview(i) \/ ReportReview(i) \/ RetryReview(i) \/ DeleteReview(i)
         \/ \E u \in DOMAIN reviews[i].work : ReviewUnit(i, u)
         \/ \E c \in DOMAIN reviews[i].claims, verdict \in {"confirmed", "rejected"} :
              VerifyClaim(i, c, verdict)
  PROVE  \E r : Kept(reviews[i], r) /\ reviews' = [reviews EXCEPT ![i] = r] /\ draft' = draft
  <1>1. i \in 1 .. Len(reviews)
    BY DEF ReviewsOK
  <1>2. PICK old : old = reviews[i]
    OBVIOUS
  <1>3. RecordOK(old) /\ WorkOK(i)
    BY <1>1, <1>2 DEF ReviewsOK
  \* of the changes, those that leave the units alone
  <1>4. ASSUME NEW r, r = [at |-> old.at, history |-> old.history, status |-> r.status,
                           work |-> old.work, claims |-> r.claims, reported |-> r.reported]
        PROVE  Kept(old, r)
    <2>1. r.at = old.at /\ r.work = old.work /\ r.history = old.history
      BY <1>4
    <2>2. RecordOK(r)
      BY <1>3, <1>4, <2>1 DEF RecordOK
    <2> QED BY <2>1, <2>2 DEF Kept
  <1>5. CASE StartReview(i)
    <2>1. PICK here : here = reviews[i].history \cap UNION DOMAIN reviews[i].work
      OBVIOUS
    <2>2. PICK claims : claims = WithClaims(old.claims, here)
      OBVIOUS
    <2>3. PICK r : r = [old EXCEPT !.status = "running", !.claims = claims]
      OBVIOUS
    <2>4. reviews' = [reviews EXCEPT ![i] = r] /\ draft' = draft
      BY <1>2, <1>5, <2>1, <2>2, <2>3 DEF StartReview, Alter
    <2>5. r = [at |-> old.at, history |-> old.history, status |-> r.status,
               work |-> old.work, claims |-> r.claims, reported |-> r.reported]
      BY <1>3, <2>3 DEF RecordOK
    <2> QED BY <1>2, <1>4, <2>4, <2>5
  <1>6. CASE ReportReview(i)
    <2>1. PICK r : r = ReportOf(old)
      OBVIOUS
    <2>2. reviews' = [reviews EXCEPT ![i] = r] /\ draft' = draft
      BY <1>2, <1>6, <2>1 DEF ReportReview, Alter
    <2> DEFINE reported == {c \in DOMAIN old.claims : old.claims[c] = "confirmed"}
               status == IF /\ \A u \in DOMAIN old.work : old.work[u].state = "failed"
                            /\ old.claims = <<>> THEN "failed"
                         ELSE IF Gaps(old) THEN "partial" ELSE "completed"
    <2>3. r = [old EXCEPT !.reported = reported, !.status = status]
      BY <2>1 DEF ReportOf
    <2> HIDE DEF reported, status
    <2>4. r = [at |-> old.at, history |-> old.history, status |-> r.status,
               work |-> old.work, claims |-> r.claims, reported |-> r.reported]
      BY <1>3, <2>3 DEF RecordOK
    <2> QED BY <1>2, <1>4, <2>2, <2>4
  <1>7. CASE RetryReview(i)
    <2>1. PICK work : work = [u \in DOMAIN old.work |->
                                IF old.work[u].state \in Finished THEN old.work[u] ELSE NewWork]
      OBVIOUS
    <2>2. PICK r : r = [old EXCEPT !.status = "queued", !.work = work]
      OBVIOUS
    <2>3. reviews' = [reviews EXCEPT ![i] = r] /\ draft' = draft
      BY <1>2, <1>7, <2>1, <2>2 DEF RetryReview, Alter
    <2>4. /\ r.at = old.at /\ r.work = work
          /\ r = [at |-> r.at, history |-> r.history, status |-> r.status,
                  work |-> r.work, claims |-> r.claims, reported |-> r.reported]
      BY <1>3, <2>2 DEF RecordOK
    <2>5. ASSUME NEW u \in DOMAIN old.work
          PROVE  /\ work[u] = [state |-> work[u].state, from |-> work[u].from]
                 /\ work[u].from = old.work[u].from
                 /\ old.work[u].state = "reviewed" => work[u].state = "reviewed"
      <3>1. /\ old.work[u] = [state |-> old.work[u].state, from |-> old.work[u].from]
            /\ old.work[u].from # 0 => old.work[u].state = "reviewed"
        BY <1>2, <1>3 DEF RecordOK, WorkOK
      <3>2. CASE old.work[u].state \in Finished
        BY <2>1, <3>1, <3>2
      <3>3. CASE old.work[u].state \notin Finished
        <4>1. old.work[u].state # "reviewed" /\ work[u] = [state |-> "queued", from |-> 0]
          BY <2>1, <3>3 DEF Finished, NewWork
        <4> QED BY <3>1, <4>1
      <3> QED BY <3>2, <3>3
    <2>6. DOMAIN work = DOMAIN old.work /\ work = [u \in DOMAIN work |-> work[u]]
      BY <2>1
    <2>7. RecordOK(r)
      BY <1>3, <2>4, <2>5, <2>6 DEF RecordOK
    <2>8. Kept(old, r)
      BY <2>4, <2>5, <2>6, <2>7 DEF Kept
    <2> QED BY <1>2, <2>3, <2>8
  <1>8. CASE DeleteReview(i)
    <2>1. PICK r : r = [old EXCEPT !.status = "deleted"]
      OBVIOUS
    <2>2. reviews' = [reviews EXCEPT ![i] = r] /\ draft' = draft
      BY <1>2, <1>8, <2>1 DEF DeleteReview, Alter
    <2>3. r = [at |-> old.at, history |-> old.history, status |-> r.status,
               work |-> old.work, claims |-> r.claims, reported |-> r.reported]
      BY <1>3, <2>1 DEF RecordOK
    <2> QED BY <1>2, <1>4, <2>2, <2>3
  <1>9. ASSUME NEW u \in DOMAIN reviews[i].work, ReviewUnit(i, u)
        PROVE  \E r : Kept(old, r) /\ reviews' = [reviews EXCEPT ![i] = r] /\ draft' = draft
    <2>1. PICK found, how :
             reviews' = [reviews EXCEPT ![i] =
                           [reviews[i] EXCEPT !.work[u].state = how,
                                              !.claims = WithClaims(@, found)]]
      BY <1>9 DEF ReviewUnit, Alter
    <2>2. PICK claims : claims = WithClaims(old.claims, found)
      OBVIOUS
    <2>3. PICK r : r = [old EXCEPT !.work[u].state = how, !.claims = claims]
      OBVIOUS
    <2>4. reviews' = [reviews EXCEPT ![i] = r] /\ draft' = draft
      BY <1>2, <1>9, <2>1, <2>2, <2>3 DEF ReviewUnit, Alter
    <2>5. PICK work : work = [old.work EXCEPT ![u].state = how]
      OBVIOUS
    <2>6. /\ r.at = old.at /\ r.work = work
          /\ r = [at |-> r.at, history |-> r.history, status |-> r.status,
                  work |-> r.work, claims |-> r.claims, reported |-> r.reported]
      BY <1>3, <2>3, <2>5 DEF RecordOK
    <2>7. old.work[u].state = "queued" /\ u \in DOMAIN old.work
      BY <1>2, <1>9 DEF ReviewUnit
    <2>8. ASSUME NEW v \in DOMAIN old.work
          PROVE  /\ work[v] = [state |-> work[v].state, from |-> work[v].from]
                 /\ work[v].from = old.work[v].from
                 /\ old.work[v].state = "reviewed" => work[v].state = "reviewed"
      <3>1. /\ old.work[v] = [state |-> old.work[v].state, from |-> old.work[v].from]
            /\ old.work = [w \in DOMAIN old.work |-> old.work[w]]
        BY <1>3 DEF RecordOK
      <3>2. CASE v = u
        BY <2>5, <2>7, <3>1, <3>2
      <3>3. CASE v # u
        BY <2>5, <3>1, <3>3
      <3> QED BY <3>2, <3>3
    <2>9. DOMAIN work = DOMAIN old.work /\ work = [v \in DOMAIN work |-> work[v]]
      BY <1>3, <2>5 DEF RecordOK
    <2>10. RecordOK(r)
      BY <1>3, <2>6, <2>8, <2>9 DEF RecordOK
    <2>11. Kept(old, r)
      BY <2>6, <2>8, <2>9, <2>10 DEF Kept
    <2> QED BY <2>4, <2>11
  <1>10. ASSUME NEW c, NEW verdict, VerifyClaim(i, c, verdict)
         PROVE  \E r : Kept(old, r) /\ reviews' = [reviews EXCEPT ![i] = r] /\ draft' = draft
    <2>1. PICK r : r = [old EXCEPT !.claims[c] = verdict]
      OBVIOUS
    <2>2. reviews' = [reviews EXCEPT ![i] = r] /\ draft' = draft
      BY <1>2, <1>10, <2>1 DEF VerifyClaim, Alter
    <2>3. r = [at |-> old.at, history |-> old.history, status |-> r.status,
               work |-> old.work, claims |-> r.claims, reported |-> r.reported]
      BY <1>3, <2>1 DEF RecordOK
    <2> QED BY <1>4, <2>2, <2>3
  <1> QED BY <1>2, <1>5, <1>6, <1>7, <1>8, <1>9, <1>10

\* Nothing changes while the reviews do not.
LEMMA SameReviews ==
  ASSUME ReviewsOK, reviews' = reviews
  PROVE  ReviewsOK' /\ \A d : PiecesOK(d) => PiecesOK(d)'
  <1>1. PICK k \in Nat : k = Len(reviews)
    BY DEF ReviewsOK
  <1>2. Len(reviews') = k
    BY <1>1
  <1>3. \A i \in 1 .. k : Kept(reviews[i], reviews'[i])
    BY <1>1 DEF ReviewsOK, Kept
  <1>4. /\ \A i \in 1 .. k : RecordOK(reviews'[i]) /\ WorkOK(i)'
        /\ \A d : PiecesOK(d) => PiecesOK(d)'
    BY <1>1, <1>2, <1>3, KeptStays
  <1>5. reviews' = [i \in 1 .. k |-> reviews'[i]]
    BY <1>1 DEF ReviewsOK
  <1> QED BY <1>2, <1>4, <1>5 DEF ReviewsOK

\* A review that is stored takes over what its plan is linked to.
LEMMA StoreKeeps == ASSUME IncrementsInv, StoreReview PROVE ReviewsOK'
  <1>1. PICK k \in Nat : k = Len(reviews)
    BY DEF IncrementsInv, ReviewsOK
  <1>2. PICK d : d = draft[1]
    OBVIOUS
  <1>3. PiecesOK(d) /\ ReviewsOK
    BY <1>2 DEF IncrementsInv, StoreReview
  <1>4. CASE UNCHANGED reviews
    BY <1>3, <1>4, SameReviews
  <1>5. CASE ~UNCHANGED reviews
    <2> DEFINE origin(u) == (CHOOSE piece \in d.units : piece[1] = u)[2]
    <2>1. PICK work : work = [u \in {piece[1] : piece \in d.units} |->
                                IF origin(u) = 0 THEN NewWork ELSE KeptWork(origin(u))]
      OBVIOUS
    <2>2. PICK made : made = [at |-> d.at, history |-> d.history, status |-> "queued",
                              work |-> work, claims |-> <<>>, reported |-> {}]
      OBVIOUS
    <2>3. PICK s : s = SupersededBy(d.at)
      OBVIOUS
    <2>4. reviews' = Append(s, made)
      BY <1>2, <1>5, <2>1, <2>2, <2>3 DEF StoreReview
    <2>5. s = [i \in 1 .. k |-> IF reviews[i].status \notin Ended /\ reviews[i].at.no # d.at.no
                                THEN [reviews[i] EXCEPT !.status = "cancelled"] ELSE reviews[i]]
      <3>1. DOMAIN reviews = 1 .. k
        BY <1>1, <1>3 DEF ReviewsOK
      <3> QED BY <2>3, <3>1 DEF SupersededBy
    <2>6. PICK S : S = {s[i] : i \in 1 .. k}
      OBVIOUS
    <2>7. s \in [1 .. k -> S] /\ s \in Seq(S)
      <3>1. s = [i \in 1 .. k |-> s[i]]
        BY <2>5
      <3>2. s \in [1 .. k -> S]
        BY <2>6, <3>1
      <3> QED BY <1>1, <3>2
    <2>8. Len(s) = k /\ made \in S \cup {made} /\ s \in Seq(S \cup {made})
      BY <2>7
    <2>9. /\ Len(reviews') = k + 1 /\ reviews' = [i \in 1 .. k + 1 |-> reviews'[i]]
          /\ reviews'[k + 1] = made /\ \A i \in 1 .. k : reviews'[i] = s[i]
      BY <2>4, <2>8, AppendIs
    <2>10. ASSUME NEW i \in 1 .. k PROVE Kept(reviews[i], reviews'[i])
      <3>1. RecordOK(reviews[i])
        BY <1>1, <1>3 DEF ReviewsOK
      <3>2. CASE s[i] = reviews[i]
        BY <2>9, <3>1, <3>2 DEF Kept
      <3>3. CASE s[i] = [reviews[i] EXCEPT !.status = "cancelled"]
        <4>1. PICK old : old = reviews[i]
          OBVIOUS
        <4>2. PICK r : r = [old EXCEPT !.status = "cancelled"]
          OBVIOUS
        <4>3. r = [at |-> old.at, history |-> old.history, status |-> "cancelled",
                   work |-> old.work, claims |-> old.claims, reported |-> old.reported]
          BY <3>1, <4>1, <4>2 DEF RecordOK
        <4>4. r.at = old.at /\ r.work = old.work /\ RecordOK(r)
          BY <3>1, <4>1, <4>3 DEF RecordOK
        <4>5. Kept(old, r)
          BY <4>4 DEF Kept
        <4>6. reviews'[i] = r
          BY <2>9, <3>3, <4>1, <4>2
        <4> QED BY <4>1, <4>5, <4>6
      <3> QED BY <2>5, <3>2, <3>3
    <2>11. /\ \A i \in 1 .. k : RecordOK(reviews'[i]) /\ WorkOK(i)'
           /\ PiecesOK(d)'
      <3>1. k <= Len(reviews') /\ Len(reviews') \in Nat
        BY <2>9
      <3> QED BY <1>1, <1>3, <2>10, <3>1, KeptStays
    <2>12. ASSUME NEW u \in DOMAIN work
           PROVE  \E a \in d.units : a[1] = u /\ origin(u) = a[2]
      <3>1. \E a \in d.units : a[1] = u
        BY <2>1
      <3>2. PICK a : a = CHOOSE piece \in d.units : piece[1] = u
        OBVIOUS
      <3>3. a \in d.units /\ a[1] = u
        BY <3>1, <3>2
      <3> QED BY <3>2, <3>3
    <2> HIDE DEF origin
    <2>13. ASSUME NEW u \in DOMAIN work
           PROVE  work[u] = IF origin(u) = 0 THEN [state |-> "queued", from |-> 0]
                            ELSE [state |-> "reviewed", from |-> origin(u)]
      BY <2>1 DEF NewWork, KeptWork
    <2>14. RecordOK(made)
      <3>1. \A u \in DOMAIN work : work[u] = [state |-> work[u].state, from |-> work[u].from]
        BY <2>13
      <3>2. \A u, v \in DOMAIN work : u # v => u \cap v = {}
        BY <1>3, <2>12 DEF PiecesOK
      <3>3. work = [u \in DOMAIN work |-> work[u]]
        BY <2>1
      <3> QED BY <2>2, <3>1, <3>2, <3>3 DEF RecordOK
    <2>15. WorkOK(k + 1)'
      <3>0. reviews'[k + 1].work = work /\ reviews'[k + 1].at = d.at
        BY <2>2, <2>9
      <3>1. SUFFICES ASSUME NEW u \in DOMAIN work
                     PROVE  /\ work[u].from \in 0 .. k
                            /\ work[u].from # 0 =>
                                 /\ work[u].state = "reviewed"
                                 /\ (\A h \in u : Linked(h, reviews[k + 1].work[u].from,
                                                         reviews[k + 1].at))'
        <4>1. (k + 1) - 1 = k
          OBVIOUS
        <4> QED BY <3>0, <4>1 DEF WorkOK
      <3>2. PICK a \in d.units : a[1] = u /\ origin(u) = a[2]
        BY <2>12
      <3>3. a[2] \in 0 .. k
        BY <1>1, <1>3, <3>2 DEF PiecesOK
      <3>4. CASE a[2] = 0
        BY <2>13, <3>2, <3>4
      <3>5. CASE a[2] # 0
        <4>1. work[u].from = a[2] /\ work[u].state = "reviewed"
          BY <2>13, <3>2, <3>5
        <4>2. PICK j : j = a[2]
          OBVIOUS
        <4>3. (\A h \in u : Linked(h, a[2], d.at))'
          BY <2>11, <3>2, <3>5 DEF PiecesOK
        <4>4. (\A h \in u : Linked(h, reviews[k + 1].work[u].from, reviews[k + 1].at))'
          BY <3>0, <4>1, <4>3 DEF Linked, ChangedBetween
        <4> QED BY <3>3, <4>1, <4>4
      <3> QED BY <3>4, <3>5
    <2>16. \A i \in 1 .. k + 1 : RecordOK(reviews'[i]) /\ WorkOK(i)'
      <3>1. \A i \in 1 .. k + 1 : i \in 1 .. k \/ i = k + 1
        OBVIOUS
      <3>2. RecordOK(reviews'[k + 1])
        BY <2>9, <2>14
      <3> QED BY <2>11, <2>15, <3>1, <3>2
    <2> QED BY <2>9, <2>16 DEF ReviewsOK
  <1> QED BY <1>4, <1>5

\* What reviews take over stays linked to what an earlier one has reviewed,
\* through pushes, other plans, retries and deletions.
THEOREM IncrementsInvariance == IncrementsSpec => []IncrementsInv
  <1>1. IncrementsInit => IncrementsInv
    BY DEF IncrementsInit, IncrementsInv, ReviewsOK
  <1>2. IncrementsInv /\ [IncrementsNext]_incrementVars => IncrementsInv'
    <2> SUFFICES ASSUME IncrementsInv, [IncrementsNext]_incrementVars PROVE IncrementsInv'
      OBVIOUS
    <2>0. ReviewsOK
      BY DEF IncrementsInv
    <2>1. ASSUME reviews' = reviews, draft' = draft PROVE IncrementsInv'
      <3>1. ReviewsOK' /\ \A d : PiecesOK(d) => PiecesOK(d)'
        BY <2>0, <2>1, SameReviews
      <3>2. PICK d : d = draft[1]
        OBVIOUS
      <3>3. draft # <<>> => PiecesOK(d)'
        BY <3>1, <3>2 DEF IncrementsInv
      <3>4. draft' # <<>> => PiecesOK(draft[1])'
        BY <2>1, <3>2, <3>3 DEF PiecesOK, Linked, ChangedBetween
      <3> QED BY <3>1, <3>4 DEF IncrementsInv
    <2>2. ASSUME NEW p, NEW b, NEW force, Push(p, b, force) PROVE IncrementsInv'
      BY <2>1, <2>2 DEF Push
    <2>3. CASE Reframe
      BY <2>1, <2>3 DEF Reframe
    <2>4. ASSUME NEW together, Plan(together) PROVE IncrementsInv'
      <3>1. PiecesOK(draft[1])'
        BY <2>0, <2>4, PlanIsOK
      <3>2. ReviewsOK'
        <4>1. reviews' = reviews
          BY <2>4 DEF Plan
        <4> QED BY <2>0, <4>1, SameReviews
      <3> QED BY <3>1, <3>2 DEF IncrementsInv
    <2>5. CASE StoreReview
      <3>1. draft' = <<>>
        BY <2>5 DEF StoreReview
      <3>2. ReviewsOK'
        BY <2>5, StoreKeeps
      <3> QED BY <3>1, <3>2 DEF IncrementsInv
    <2>6. ASSUME NEW i \in DOMAIN reviews,
                 \/ StartReview(i) \/ ReportReview(i) \/ RetryReview(i) \/ DeleteReview(i)
                 \/ \E u \in DOMAIN reviews[i].work : ReviewUnit(i, u)
                 \/ \E c \in DOMAIN reviews[i].claims, verdict \in {"confirmed", "rejected"} :
                      VerifyClaim(i, c, verdict)
          PROVE  IncrementsInv'
      <3>1. PICK r : Kept(reviews[i], r) /\ reviews' = [reviews EXCEPT ![i] = r] /\ draft' = draft
        BY <2>0, <2>6, ReviewsAlter
      <3>2. i \in 1 .. Len(reviews)
        BY <2>0 DEF ReviewsOK
      <3>3. ReviewsOK' /\ \A d : PiecesOK(d) => PiecesOK(d)'
        BY <2>0, <3>1, <3>2, AlterKeeps
      <3>4. PICK d : d = draft[1]
        OBVIOUS
      <3>5. draft # <<>> => PiecesOK(d)'
        BY <3>3, <3>4 DEF IncrementsInv
      <3>6. draft' # <<>> => PiecesOK(draft[1])'
        BY <3>1, <3>4, <3>5 DEF PiecesOK, Linked, ChangedBetween
      <3> QED BY <3>3, <3>6 DEF IncrementsInv
    <2>7. CASE UNCHANGED incrementVars
      BY <2>1, <2>7 DEF incrementVars
    <2> QED BY <2>2, <2>3, <2>4, <2>5, <2>6, <2>7 DEF IncrementsNext
  <1> QED BY <1>1, <1>2, PTL DEF IncrementsSpec

-----------------------------------------------------------------------------
(* Increments: the origin of a hunk *)

\* The origins of a hunk, review by review.
Tracing(f, h) ==
    f = [i \in DOMAIN reviews |->
            IF TakenOver(i, h) THEN f[reviews[i].work[UnitOf(i, h)].from] ELSE i]

\* A hunk is in one unit, which took it over from an earlier review.
LEMMA UnitIs ==
  ASSUME ReviewsOK, NEW i \in 1 .. Len(reviews), NEW u \in DOMAIN reviews[i].work, NEW h \in u
  PROVE  /\ UnitOf(i, h) = u
         /\ TakenOver(i, h) <=> reviews[i].work[u].from # 0
         /\ reviews[i].work[u].from # 0 => reviews[i].work[u].from \in 1 .. i - 1
  <1>1. RecordOK(reviews[i]) /\ WorkOK(i)
    BY DEF ReviewsOK
  <1>2. \A v \in DOMAIN reviews[i].work : h \in v => v = u
    BY <1>1 DEF RecordOK
  <1>3. UnitOf(i, h) = u
    BY <1>2 DEF UnitOf
  <1>4. TakenOver(i, h) <=> reviews[i].work[u].from # 0
    BY <1>2 DEF TakenOver
  <1>5. reviews[i].work[u].from \in 0 .. i - 1
    BY <1>1 DEF WorkOK
  <1> QED BY <1>3, <1>4, <1>5

\* Origins can be traced, since reviews take over from earlier ones only.
LEMMA OriginsExist == ASSUME ReviewsOK, NEW h PROVE \E f : Tracing(f, h)
  <1>1. PICK k \in Nat : k = Len(reviews)
    BY DEF ReviewsOK
  <1>2. DOMAIN reviews = 1 .. k
    BY <1>1 DEF ReviewsOK
  <1> DEFINE from(i) == reviews[i].work[UnitOf(i, h)].from
             Traced(n, f) == f = [i \in 1 .. n |-> IF TakenOver(i, h) THEN f[from(i)] ELSE i]
             S == {n \in Nat : n <= k => \E f : Traced(n, f)}
  <1>3. ASSUME NEW i \in 1 .. k, TakenOver(i, h) PROVE from(i) \in 1 .. i - 1
    <2>1. PICK u \in DOMAIN reviews[i].work : h \in u /\ reviews[i].work[u].from # 0
      BY <1>3 DEF TakenOver
    <2> QED BY <1>1, <2>1, UnitIs
  <1> HIDE DEF from
  <1>4. 0 \in S
    <2>1. PICK f : f = [i \in 1 .. 0 |-> 0]
      OBVIOUS
    <2>2. Traced(0, f)
      BY <2>1
    <2> QED BY <2>2
  <1>5. ASSUME NEW n \in Nat, n \in S PROVE n + 1 \in S
    <2>1. CASE n + 1 <= k
      <3>1. PICK f : Traced(n, f)
        BY <1>5, <2>1
      <3>2. PICK last : last = IF TakenOver(n + 1, h) THEN f[from(n + 1)] ELSE n + 1
        OBVIOUS
      <3>3. PICK g : g = [i \in 1 .. n + 1 |-> IF i = n + 1 THEN last ELSE f[i]]
        OBVIOUS
      <3>4. ASSUME NEW i \in 1 .. n + 1
            PROVE  g[i] = IF TakenOver(i, h) THEN g[from(i)] ELSE i
        <4>1. i \in 1 .. k
          BY <2>1
        <4>2. ASSUME TakenOver(i, h) PROVE g[from(i)] = f[from(i)]
          <5>1. from(i) \in 1 .. i - 1
            BY <1>3, <4>1, <4>2
          <5>2. from(i) \in 1 .. n + 1 /\ from(i) # n + 1
            BY <5>1
          <5> QED BY <3>3, <5>2
        <4>3. CASE i = n + 1
          BY <3>2, <3>3, <4>2, <4>3
        <4>4. CASE i # n + 1
          <5>1. i \in 1 .. n
            BY <4>4
          <5>2. f[i] = IF TakenOver(i, h) THEN f[from(i)] ELSE i
            BY <3>1, <5>1
          <5> QED BY <3>3, <4>2, <4>4, <5>2
        <4> QED BY <4>3, <4>4
      <3>5. g = [i \in 1 .. n + 1 |-> IF TakenOver(i, h) THEN g[from(i)] ELSE i]
        BY <3>3, <3>4
      <3> QED BY <3>5
    <2>2. CASE ~(n + 1 <= k)
      BY <2>2
    <2> QED BY <2>1, <2>2
  <1> HIDE DEF S
  <1>6. k \in S
    BY <1>4, <1>5, Induction
  <1>7. PICK f : Traced(k, f)
    BY <1>6 DEF S
  <1>8. Tracing(f, h)
    BY <1>2, <1>7 DEF Tracing, from
  <1> QED BY <1>8

\* Review o has looked at what review i counts as reviewed.
Grounded(o, i, h) ==
    /\ o \in 1 .. i
    /\ \E v \in DOMAIN reviews[o].work :
         h \in v /\ reviews[o].work[v].state = "reviewed" /\ reviews[o].work[v].from = 0
    /\ reviews[o].at.frame = reviews[i].at.frame
    /\ reviews[o].at.tree[h[1]] = reviews[i].at.tree[h[1]]
    /\ ChangedBetween(reviews[o].at, reviews[i].at) \subseteq Document

\* The origin of what is reviewed has looked at it.
LEMMA OriginGrounded ==
  ASSUME ReviewsOK, NEW h, NEW i \in 1 .. Len(reviews), NEW u \in DOMAIN reviews[i].work,
         h \in u, reviews[i].work[u].state = "reviewed"
  PROVE  Grounded(OriginOf(h)[i], i, h)
  <1>1. PICK k \in Nat : k = Len(reviews)
    BY DEF ReviewsOK
  <1>2. PICK f : f = CHOOSE g : Tracing(g, h)
    OBVIOUS
  <1>3. Tracing(f, h)
    BY <1>2, OriginsExist
  <1>4. OriginOf(h) = f
    BY <1>2 DEF OriginOf, Tracing
  <1>5. \A j \in 1 .. k : f[j] = IF TakenOver(j, h) THEN f[reviews[j].work[UnitOf(j, h)].from] ELSE j
    BY <1>1, <1>3 DEF Tracing, ReviewsOK
  <1> DEFINE Good(j) == \A v \in DOMAIN reviews[j].work :
                            h \in v /\ reviews[j].work[v].state = "reviewed" => Grounded(f[j], j, h)
             S == {n \in Nat : \A j \in 1 .. k : j <= n => Good(j)}
  <1>6. ASSUME NEW j \in 1 .. k, \A l \in 1 .. j - 1 : Good(l) PROVE Good(j)
    <2> SUFFICES ASSUME NEW v \in DOMAIN reviews[j].work,
                        h \in v, reviews[j].work[v].state = "reviewed"
                 PROVE  Grounded(f[j], j, h)
      OBVIOUS
    <2>1. PICK from : from = reviews[j].work[v].from
      OBVIOUS
    <2>2. /\ UnitOf(j, h) = v /\ (TakenOver(j, h) <=> from # 0)
          /\ from # 0 => from \in 1 .. j - 1
      BY <1>1, <2>1, UnitIs
    <2>3. CASE from = 0
      <3>1. f[j] = j
        BY <1>5, <2>2, <2>3
      <3>2. j \in 1 .. j /\ ChangedBetween(reviews[j].at, reviews[j].at) = {}
        BY DEF ChangedBetween
      <3>3. Grounded(j, j, h)
        BY <2>1, <2>3, <3>2 DEF Grounded
      <3> QED BY <3>1, <3>3
    <2>4. CASE from # 0
      <3>1. f[j] = f[from] /\ from \in 1 .. j - 1
        BY <1>5, <2>1, <2>2, <2>4
      <3>2. Linked(h, from, reviews[j].at)
        BY <1>1, <2>1, <2>4 DEF ReviewsOK, WorkOK
      <3>3. Good(from)
        BY <1>6, <3>1
      <3>4. PICK o : o = f[from]
        OBVIOUS
      <3>5. Grounded(o, from, h)
        BY <3>2, <3>3, <3>4 DEF Linked
      <3>6. Grounded(o, j, h)
        <4>1. o \in 1 .. j
          BY <3>1, <3>5 DEF Grounded
        <4>2. ChangedBetween(reviews[o].at, reviews[j].at)
                \subseteq ChangedBetween(reviews[o].at, reviews[from].at)
                            \cup ChangedBetween(reviews[from].at, reviews[j].at)
          BY DEF ChangedBetween
        <4> QED BY <3>2, <3>5, <4>1, <4>2 DEF Grounded, Linked
      <3> QED BY <3>1, <3>4, <3>6
    <2> QED BY <2>3, <2>4
  <1> HIDE DEF Good
  <1>7. 0 \in S
    OBVIOUS
  <1>8. ASSUME NEW n \in Nat, n \in S PROVE n + 1 \in S
    <2> SUFFICES ASSUME NEW j \in 1 .. k, j <= n + 1 PROVE Good(j)
      OBVIOUS
    <2>1. \A l \in 1 .. j - 1 : Good(l)
      BY <1>8
    <2> QED BY <1>6, <2>1
  <1> HIDE DEF S
  <1>9. k \in S
    BY <1>7, <1>8, Induction
  <1>10. Good(i)
    BY <1>1, <1>9 DEF S
  <1> QED BY <1>4, <1>10 DEF Good

\* Whatever counts as reviewed without having been looked at in this review was
\* looked at in an earlier one, and has not changed since.
THEOREM ReuseStaysGrounded == IncrementsSpec => []ReuseIsGrounded
  <1>1. ASSUME ReviewsOK PROVE ReuseIsGrounded
    <2> SUFFICES ASSUME NEW i \in DOMAIN reviews, NEW u \in DOMAIN reviews[i].work, NEW h \in u,
                        reviews[i].work[u].from # 0
                 PROVE  LET o == OriginOf(h)[i]
                            work == reviews[o].work[UnitOf(o, h)]
                        IN /\ work.state = "reviewed" /\ work.from = 0
                           /\ reviews[o].at.frame = reviews[i].at.frame
                           /\ reviews[o].at.tree[h[1]] = reviews[i].at.tree[h[1]]
                           /\ ChangedBetween(reviews[o].at, reviews[i].at) \subseteq Document
      BY DEF ReuseIsGrounded
    <2>1. PICK k \in Nat : k = Len(reviews)
      BY <1>1 DEF ReviewsOK
    <2>2. i \in 1 .. k
      BY <1>1, <2>1 DEF ReviewsOK
    <2>3. reviews[i].work[u].state = "reviewed"
      BY <1>1, <2>1, <2>2 DEF ReviewsOK, WorkOK
    <2>4. PICK o : o = OriginOf(h)[i]
      OBVIOUS
    <2>5. Grounded(o, i, h)
      BY <1>1, <2>1, <2>2, <2>3, <2>4, OriginGrounded
    <2>6. PICK v \in DOMAIN reviews[o].work :
             h \in v /\ reviews[o].work[v].state = "reviewed" /\ reviews[o].work[v].from = 0
      BY <2>5 DEF Grounded
    <2>7. o \in 1 .. k
      BY <2>2, <2>5 DEF Grounded
    <2>8. UnitOf(o, h) = v
      BY <1>1, <2>1, <2>6, <2>7, UnitIs
    <2> QED BY <2>4, <2>5, <2>6, <2>8 DEF Grounded
  <1>2. IncrementsInv => ReuseIsGrounded
    BY <1>1 DEF IncrementsInv
  <1> QED BY <1>2, IncrementsInvariance, PTL

-----------------------------------------------------------------------------
(* Reading: windows and counts *)

SourceOK ==
    /\ source \in [FileNo -> [kind : Kinds, size : Nat, matches : SUBSET Lines]]
    /\ parts \in [FileNo -> Nat]

\* What the constants are.
LEMMA ReadConstants ==
  /\ FilesInScope \in Nat /\ WindowFiles \in Nat /\ WindowBytes \in Nat /\ MaxFileBytes \in Nat
  /\ Lines \subseteq Nat /\ WindowFiles > 0 /\ MaxFileBytes <= WindowBytes
  BY WindowAssumption

\* No file weighs more than a window holds.
LEMMA WeightIs ==
  ASSUME SourceOK, NEW f \in FileNo
  PROVE  Weight(f) \in Nat /\ Weight(f) <= WindowBytes
  <1>1. PICK size \in Nat : size = source[f].size
    BY DEF SourceOK
  <1> QED BY <1>1, ReadConstants DEF Weight, Readable, TooLarge

\* The bytes of a window that starts at a file.
Weighing(b, first) ==
    b = [f \in first .. FilesInScope |-> IF f = first THEN 0 ELSE b[f - 1] + Weight(f - 1)]

\* The bytes of a window can be summed up.
LEMMA BytesExist ==
  ASSUME SourceOK, NEW first \in 0 .. FilesInScope
  PROVE  \E b : Weighing(b, first)
  <1>1. PICK n \in Nat : n = FilesInScope
    BY ReadConstants
  <1>2. PICK k \in Nat : k = n - first
    BY <1>1
  <1>3. ASSUME NEW i \in 1 .. k PROVE Weight(first + i - 1) \in Nat
    <2>1. first + i - 1 \in FileNo
      BY <1>1, <1>2 DEF FileNo
    <2> QED BY <2>1, WeightIs
  <1>4. PICK D : D = Nat
    OBVIOUS
  <1>a. PICK G : G = [i \in 1 .. k |-> [b \in D |-> b + Weight(first + i - 1)]]
    OBVIOUS
  <1>b. ASSUME NEW i \in 1 .. k, NEW b \in D PROVE b + Weight(first + i - 1) \in D
    <2>1. PICK x \in Nat : x = Weight(first + i - 1)
      BY <1>3
    <2>2. b \in Nat
      BY <1>4
    <2>3. b + x \in Nat
      BY <2>2
    <2> QED BY <1>4, <2>1, <2>3
  <1>c. G \in [1 .. k -> [D -> D]]
    BY <1>a, <1>b
  <1>d. 0 \in D
    BY <1>4
  <1>5. PICK g \in [0 .. k -> D] : g[0] = 0 /\ \A i \in 1 .. k : g[i] = G[i][g[i - 1]]
    BY <1>c, <1>d, Recursion
  <1>6. PICK b : b = [f \in first .. n |-> g[f - first]]
    OBVIOUS
  <1>7. ASSUME NEW f \in first .. n
        PROVE  b[f] = IF f = first THEN 0 ELSE b[f - 1] + Weight(f - 1)
    <2>1. CASE f = first
      <3>1. f - first = 0
        BY <1>1, <2>1
      <3> QED BY <1>5, <1>6, <2>1, <3>1
    <2>2. CASE f # first
      <3>1. PICK i \in 1 .. k : i = f - first
        BY <1>1, <1>2, <2>2
      <3>2. /\ f - 1 \in first .. n /\ (f - 1) - first = i - 1 /\ i - 1 \in 0 .. k
            /\ first + i - 1 = f - 1
        BY <1>1, <1>2, <2>2, <3>1
      <3>3. g[i] = G[i][g[i - 1]] /\ g[i - 1] \in Nat
        BY <1>4, <1>5, <3>2
      <3>4. G[i][g[i - 1]] = g[i - 1] + Weight(first + i - 1)
        BY <1>4, <1>a, <3>3
      <3>5. b[f] = g[i] /\ b[f - 1] = g[i - 1]
        BY <1>6, <3>1, <3>2
      <3> QED BY <2>2, <3>2, <3>3, <3>4, <3>5
    <2> QED BY <2>1, <2>2
  <1>8. b = [f \in first .. n |-> IF f = first THEN 0 ELSE b[f - 1] + Weight(f - 1)]
    BY <1>6, <1>7
  <1>9. Weighing(b, first)
    BY <1>1, <1>8 DEF Weighing
  <1> QED BY <1>9

\* A window ends within the files, and after the file it starts at.
LEMMA WindowIs ==
  ASSUME SourceOK, NEW first \in 0 .. FilesInScope
  PROVE  /\ WindowFrom(first) \in first .. FilesInScope
         /\ first < FilesInScope => first < WindowFrom(first)
  <1>1. PICK n \in Nat : n = FilesInScope
    BY ReadConstants
  <1>2. PICK w \in Nat : w = WindowFiles /\ w > 0
    BY ReadConstants
  <1>3. PICK bytes : bytes = CHOOSE b : Weighing(b, first)
    OBVIOUS
  <1>4. Weighing(bytes, first)
    BY <1>3, BytesExist
  <1> DEFINE fits(stop) == bytes[stop] <= WindowBytes
             ends(stop) == /\ stop <= first + w /\ fits(stop)
                           /\ stop = n \/ stop = first + w \/ ~fits(stop + 1)
  <1>5. PICK stop : stop = CHOOSE x \in first .. n : ends(x)
    OBVIOUS
  <1>6. WindowFrom(first) = stop
    BY <1>1, <1>2, <1>3, <1>5 DEF WindowFrom, Weighing
  <1>7. bytes[first] = 0
    BY <1>1, <1>4 DEF Weighing
  <1>8. fits(first)
    BY <1>7, ReadConstants
  <1>9. first < n => fits(first + 1)
    <2>1. SUFFICES ASSUME first < n PROVE bytes[first + 1] <= WindowBytes
      OBVIOUS
    <2>2. first + 1 \in first .. n /\ first + 1 # first /\ (first + 1) - 1 = first
      BY <1>1, <2>1
    <2>3. bytes[first + 1] = bytes[first] + Weight(first)
      BY <1>1, <1>4, <2>2 DEF Weighing
    <2>4. first \in FileNo
      BY <1>1, <2>1 DEF FileNo
    <2> QED BY <1>7, <2>3, <2>4, WeightIs
  <1> HIDE DEF fits
  <1>10. \E x \in first .. n : ends(x)
    <2>1. PICK S : S = {x \in first .. n : x <= first + w /\ fits(x)}
      OBVIOUS
    <2>2. first \in S /\ S \in SUBSET (0 .. n)
      BY <1>1, <1>8, <2>1
    <2>3. PICK m \in S : \A x \in S : x <= m
      BY <2>2, LastExists
    <2>4. CASE m = n \/ m = first + w
      BY <2>1, <2>3, <2>4
    <2>5. CASE ~(m = n \/ m = first + w)
      <3>1. m + 1 \in first .. n /\ m + 1 <= first + w
        BY <1>1, <2>1, <2>5
      <3>2. m + 1 \notin S
        BY <2>1, <2>3
      <3>3. ~fits(m + 1)
        BY <2>1, <3>1, <3>2
      <3> QED BY <2>1, <3>3
    <2> QED BY <2>4, <2>5
  <1>11. stop \in first .. n /\ ends(stop)
    BY <1>5, <1>10
  <1>12. first < n => first < stop
    BY <1>1, <1>2, <1>9, <1>11
  <1> QED BY <1>1, <1>6, <1>11, <1>12

\* How many of P are before a number.
Count(P, n) == Cardinality((0 .. n - 1) \cap P)
Between(P, a, b) == Cardinality((a .. b - 1) \cap P)

\* Counts of adjacent parts add up.
LEMMA CountsAdd ==
  ASSUME NEW P, NEW a \in Nat, NEW b \in Nat, a <= b
  PROVE  /\ Count(P, a) \in Nat /\ Between(P, a, b) \in Nat
         /\ Count(P, b) = Count(P, a) + Between(P, a, b)
  <1>1. PICK A : A = (0 .. a - 1) \cap P
    OBVIOUS
  <1>2. PICK B : B = (a .. b - 1) \cap P
    OBVIOUS
  <1>3. IsFiniteSet(0 .. a - 1) /\ IsFiniteSet(a .. b - 1)
    <2>1. 0 \in Int /\ a - 1 \in Int /\ a \in Int /\ b - 1 \in Int
      OBVIOUS
    <2>2. \A x, y \in Int : IsFiniteSet(x .. y)
      BY FS_Interval
    <2> QED BY <2>1, <2>2, Zenon
  <1>4. IsFiniteSet(A) /\ IsFiniteSet(B)
    BY <1>1, <1>2, <1>3, FS_Subset
  <1>5. A \cap B = {} /\ A \cup B = (0 .. b - 1) \cap P
    BY <1>1, <1>2
  <1>6. Cardinality(A) \in Nat /\ Cardinality(B) \in Nat
    BY <1>4, FS_CardinalityType
  <1>7. Cardinality(A \cup B) = Cardinality(A) + Cardinality(B) - Cardinality({})
    BY <1>4, <1>5, FS_Union
  <1>8. Cardinality({}) = 0
    BY FS_EmptySet
  <1>9. /\ Count(P, a) = Cardinality(A) /\ Between(P, a, b) = Cardinality(B)
        /\ Count(P, b) = Cardinality(A \cup B)
    BY <1>1, <1>2, <1>5, Zenon DEF Count, Between
  <1> QED BY <1>6, <1>7, <1>8, <1>9

-----------------------------------------------------------------------------
(* Reading: pages *)

\* Of some positions one is first.
LEMMA FirstExists ==
  ASSUME NEW S \in SUBSET (Nat \X Nat), S # {}
  PROVE  \E p \in S : \A q \in S : ~Before(q, p)
  <1>1. ASSUME NEW N \in SUBSET Nat, N # {} PROVE \E m \in N : \A n \in N : m <= n
    <2>1. PICK m \in N : \A n \in N : ~(<<n, m>> \in OpToRel(<, Nat))
      BY <1>1, NatLessThanWellFounded, WFMin
    <2>2. ASSUME NEW n \in N PROVE m <= n
      <3>1. m \in Nat /\ n \in Nat
        BY <1>1
      <3>2. n < m => <<n, m>> \in OpToRel(<, Nat)
        BY <3>1 DEF OpToRel
      <3>3. ~(n < m)
        BY <2>1, <3>2, Zenon
      <3> QED BY <3>1, <3>3
    <2> QED BY <2>2
  <1>2. PICK R : R = {p[1] : p \in S}
    OBVIOUS
  <1>3. R \in SUBSET Nat /\ R # {}
    BY <1>2
  <1>4. PICK r \in R : \A n \in R : r <= n
    BY <1>1, <1>3
  <1>5. PICK C : C = {p[2] : p \in {q \in S : q[1] = r}}
    OBVIOUS
  <1>6. C \in SUBSET Nat /\ C # {}
    BY <1>2, <1>4, <1>5
  <1>7. PICK c \in C : \A n \in C : c <= n
    BY <1>1, <1>6
  <1>8. PICK p \in S : p[1] = r /\ p[2] = c
    BY <1>5, <1>7
  <1>9. ASSUME NEW q \in S, Before(q, p) PROVE FALSE
    <2>1. q[1] \in R /\ q[1] \in Nat /\ q[2] \in Nat /\ r \in Nat /\ c \in Nat
      BY <1>2, <1>3, <1>6
    <2>2. r <= q[1]
      BY <1>4, <2>1
    <2>3. q[1] = r /\ q[2] < c
      BY <1>8, <1>9, <2>1, <2>2 DEF Before
    <2>4. q[2] \in C
      BY <1>5, <2>3
    <2> QED BY <1>7, <2>1, <2>3, <2>4
  <1> QED BY <1>9

Position == Nat \X Nat

\* Of some items, those before a position, and the others up to a file.
Until(I, at) == {p \in I : Before(p, at)}
Beyond(I, at, stop) == {p \in I : p[1] < stop /\ ~Before(p, at)}

\* A page is followed by a position: nothing is left out before that.
Follows(next, I, at, stop, page) ==
    /\ next \in Beyond(I, at, stop) /\ next \in Position /\ next[1] < stop
    /\ next # <<0, 0>> /\ ~Before(next, at)
    /\ Until(I, at) \cup page = Until(I, next)

\* A page that does not show all of the rest is followed by the first position
\* that it does not show, and nothing is left out before that.
LEMMA PageIs ==
  ASSUME NEW I \in SUBSET Position, NEW at \in Position, NEW stop \in Nat,
         NEW page \in SUBSET Beyond(I, at, stop), IsPage(page, Beyond(I, at, stop)),
         page # Beyond(I, at, stop)
  PROVE  Follows(FirstOf(Beyond(I, at, stop) \ page), I, at, stop, page)
  <1>a. PICK rest : rest = Beyond(I, at, stop)
    OBVIOUS
  <1>b. PICK next : next = FirstOf(rest \ page)
    OBVIOUS
  <1>c. page \in SUBSET rest /\ IsPage(page, rest) /\ page # rest
    BY <1>a
  <1>1. PICK left : left = rest \ page
    OBVIOUS
  <1>2. left # {} /\ left \in SUBSET Position
    BY <1>1, <1>a, <1>c DEF Beyond
  <1>3. next \in left /\ \A q \in left : ~Before(q, next)
    BY <1>1, <1>2, <1>b, FirstExists DEF FirstOf, Position
  <1>4. next \in rest /\ next \in Position /\ next[1] < stop /\ ~Before(next, at)
    BY <1>1, <1>3, <1>a DEF Beyond
  <1>5. next # <<0, 0>>
    <2>1. PICK p \in page : TRUE
      BY <1>2, <1>1, <1>c DEF IsPage
    <2>2. Before(p, next) /\ p \in Position
      BY <1>1, <1>3, <1>a, <1>c, <2>1 DEF IsPage, Beyond
    <2> QED BY <2>2 DEF Before, Position
  <1>6. ASSUME NEW p \in I, Before(p, at) PROVE Before(p, next)
    <2>1. p \in Position
      OBVIOUS
    <2> QED BY <1>4, <1>6, <2>1 DEF Before, Position
  <1>7. ASSUME NEW p \in page PROVE Before(p, next) /\ p \in I
    BY <1>1, <1>3, <1>a, <1>c DEF IsPage, Beyond
  <1>8. ASSUME NEW p \in I, Before(p, next), ~Before(p, at) PROVE p \in page
    <2>1. p \in Position
      OBVIOUS
    <2>2. p[1] < stop
      BY <1>4, <1>8, <2>1 DEF Before, Position
    <2>3. p \in rest
      BY <1>8, <1>a, <2>2 DEF Beyond
    <2>4. p \notin left
      BY <1>3, <1>8
    <2> QED BY <1>1, <2>3, <2>4
  <1>9. Until(I, at) \cup page = Until(I, next)
    BY <1>6, <1>7, <1>8 DEF Until
  <1> QED BY <1>4, <1>5, <1>9, <1>a, <1>b DEF Follows

\* Items are positions of files.
LEMMA ItemsAre ==
  ASSUME SourceOK, NEW query \in Queries
  PROVE  Items(query) \in SUBSET Position /\ \A p \in Items(query) : p[1] < FilesInScope
  <1>1. PICK n \in Nat : n = FilesInScope
    BY ReadConstants
  <1>2. \A f \in FileNo : f \in Nat /\ f < n
    BY <1>1 DEF FileNo
  <1>3. CASE query = "search"
    BY <1>1, <1>2, <1>3, ReadConstants DEF Items, Position
  <1>4. CASE query = "paths"
    BY <1>1, <1>2, <1>4 DEF Items, Position
  <1>5. CASE query = "hunk"
    <2>1. Items(query) = UNION {{l} \X (0 .. parts[l] - 1) : l \in FileNo}
      BY <1>5 DEF Items
    <2>2. ASSUME NEW p \in Items(query) PROVE p \in Position /\ p[1] < n
      <3>1. PICK l \in FileNo : p \in {l} \X (0 .. parts[l] - 1)
        BY <2>1
      <3>2. parts[l] \in Nat
        BY DEF SourceOK
      <3> QED BY <1>2, <3>1, <3>2 DEF Position
    <2> QED BY <1>1, <2>2
  <1> QED BY <1>3, <1>4, <1>5 DEF Queries

-----------------------------------------------------------------------------
(* Reading: cursors *)

\* Files that are too large, and those that turn out to be unreadable.
Large  == {f \in FileNo : TooLarge(f)}
Hidden == {f \in FileNo : source[f].kind = "hidden" /\ Lost(f) /\ ~TooLarge(f)}

\* Where a search stands: what it has counted.
SearchOK(c) ==
    /\ c.at[1] \in 0 .. FilesInScope /\ c.window \in 0 .. FilesInScope
    /\ IF c.window = 0
       THEN c.at[2] = 0 /\ c.lost = Count(Large, c.at[1]) + Count(Hidden, c.at[1])
       ELSE c.at[1] < c.window /\ c.lost = Count(Large, c.window) + Count(Hidden, c.at[1])

\* Where a page may start.
StartsOK(query, c) ==
    /\ c.at \in Position
    /\ c.seen = Until(Items(query), c.at)
    /\ query = "search" => SearchOK(c)

CursorOK(c) == c.query \in Queries /\ c.at # <<0, 0>> /\ StartsOK(c.query, c)

AnswerOK(a) ==
    ~a.more => /\ a.seen = Items(a.query)
               /\ a.query = "search" => a.lost = Cardinality({f \in FileNo : Lost(f)})

CursorsOK ==
    /\ Len(cursors) \in Nat /\ cursors = [k \in 1 .. Len(cursors) |-> cursors[k]]
    /\ \A k \in 1 .. Len(cursors) : CursorOK(cursors[k])

ReadInv == SourceOK /\ CursorsOK /\ AnswerOK(answer)

\* What a page gives: an answer, and a cursor if there is more.
Outcome(query, seen, next, window, lost, more) ==
    /\ answer' = [query |-> query, seen |-> seen, lost |-> lost, more |-> more]
    /\ IF more
       THEN cursors' = Append(cursors, [query |-> query, at |-> next, window |-> window,
                                        lost |-> lost, seen |-> seen])
       ELSE cursors' = cursors
    /\ UNCHANGED <<source, parts>>

\* Every query may start at the beginning.
LEMMA StartIsOK == ASSUME SourceOK, NEW query \in Queries PROVE StartsOK(query, Start)
  <1>1. PICK c : c = [at |-> <<0, 0>>, window |-> 0, lost |-> 0, seen |-> {}]
    OBVIOUS
  <1>2. \A p \in Items(query) : ~Before(p, <<0, 0>>)
    <2> TAKE p \in Items(query)
    <2>1. p \in Position
      BY ItemsAre
    <2> QED BY <2>1 DEF Before, Position
  <1>3. \A P : Count(P, 0) = 0
    <2> TAKE P
    <2>1. (0 .. 0 - 1) \cap P = {}
      OBVIOUS
    <2> QED BY <2>1, FS_EmptySet DEF Count
  <1>4. SearchOK(c)
    BY <1>1, <1>3, ReadConstants DEF SearchOK
  <1>5. c.at = <<0, 0>> /\ c.seen = {}
    BY <1>1
  <1> QED BY <1>1, <1>2, <1>4, <1>5 DEF StartsOK, Start, Until, Position

\* What a page of a list gives keeps ReadInv.
LEMMA ListKeeps ==
  ASSUME SourceOK, NEW query \in {"paths", "hunk"}, NEW from, StartsOK(query, from),
         ListPage(query, from)
  PROVE  \E seen, next, more :
            /\ Outcome(query, seen, next, 0, 0, more)
            /\ ~more => seen = Items(query)
            /\ more => /\ next \in Position /\ next # <<0, 0>>
                       /\ seen = Until(Items(query), next)
  <1>1. PICK I : I = Items(query)
    OBVIOUS
  <1>2. PICK at : at = from.at
    OBVIOUS
  <1>3. I \in SUBSET Position /\ \A p \in I : p[1] < FilesInScope
    BY <1>1, ItemsAre DEF Queries
  <1>4. at \in Position /\ from.seen = Until(I, at)
    BY <1>1, <1>2 DEF StartsOK
  <1>5. PICK rest : rest = {p \in I : ~Before(p, at)}
    OBVIOUS
  <1>6. PICK page \in SUBSET rest :
           /\ IsPage(page, rest)
           /\ Gives(query, page, IF page = rest THEN at ELSE FirstOf(rest \ page),
                    0, 0, from, page # rest)
    BY <1>1, <1>2, <1>5 DEF ListPage
  <1>7. PICK next : next = IF page = rest THEN at ELSE FirstOf(rest \ page)
    OBVIOUS
  <1>8. PICK more \in BOOLEAN : more <=> page # rest
    OBVIOUS
  <1>9. PICK seen : seen = from.seen \cup page
    OBVIOUS
  <1>10. Outcome(query, seen, next, 0, 0, more)
    BY <1>6, <1>7, <1>8, <1>9 DEF Gives, Outcome
  <1>11. CASE page = rest
    <2>1. seen = I
      BY <1>4, <1>5, <1>9, <1>11 DEF Until
    <2> QED BY <1>1, <1>8, <1>10, <1>11, <2>1
  <1>12. CASE page # rest
    <2>0. PICK stop \in Nat : stop = FilesInScope
      BY ReadConstants
    <2>1. rest = Beyond(I, at, stop)
      BY <1>3, <1>5, <2>0 DEF Beyond
    <2>2. next = FirstOf(rest \ page)
      BY <1>7, <1>12
    <2>3. /\ next \in Position /\ next # <<0, 0>>
          /\ Until(I, at) \cup page = Until(I, next)
      <3>1. IsPage(page, rest) /\ page # rest
        BY <1>6, <1>12
      <3>2. at \in Position /\ I \in SUBSET Position
        BY <1>3, <1>4
      <3>3. page \in SUBSET Beyond(I, at, stop)
        BY <2>1
      <3>4. IsPage(page, Beyond(I, at, stop)) /\ page # Beyond(I, at, stop)
        BY <2>1, <3>1
      <3>5. stop \in Nat
        OBVIOUS
      <3>6. Follows(FirstOf(Beyond(I, at, stop) \ page), I, at, stop, page)
        BY <3>2, <3>3, <3>4, <3>5, PageIs, Zenon
      <3> QED BY <2>1, <2>2, <3>6 DEF Follows
    <2> QED BY <1>1, <1>4, <1>8, <1>9, <1>10, <1>12, <2>3
  <1> QED BY <1>11, <1>12

\* What a search counts on the way, in terms of Count.
LEMMA CountsAre ==
  ASSUME SourceOK
  PROVE  /\ \A a, b \in 0 .. FilesInScope : RejectedIn(a, b) = Between(Large, a, b)
         /\ \A a, b \in 0 .. FilesInScope : HiddenIn(a, b - 1) = Between(Hidden, a, b)
         /\ Count(Large, FilesInScope) + Count(Hidden, FilesInScope)
              = Cardinality({f \in FileNo : Lost(f)})
  <1>1. PICK n \in Nat : n = FilesInScope
    BY ReadConstants
  <1>2. ASSUME NEW a \in 0 .. n, NEW b \in 0 .. n PROVE RejectedIn(a, b) = Between(Large, a, b)
    <2>1. a .. b - 1 \subseteq FileNo
      BY <1>1 DEF FileNo
    <2>2. {f \in a .. b - 1 : TooLarge(f)} = (a .. b - 1) \cap Large
      BY <2>1 DEF Large
    <2> QED BY <2>2, Zenon DEF RejectedIn, Between
  <1>3. ASSUME NEW a \in 0 .. n, NEW b \in 0 .. n PROVE HiddenIn(a, b - 1) = Between(Hidden, a, b)
    <2>1. a .. b - 1 \subseteq FileNo
      BY <1>1 DEF FileNo
    <2>2. {f \in a .. b - 1 : source[f].kind = "hidden" /\ Lost(f) /\ ~TooLarge(f)}
            = (a .. b - 1) \cap Hidden
      BY <2>1 DEF Hidden
    <2> QED BY <2>2, Zenon DEF HiddenIn, Between
  <1>4. Count(Large, n) + Count(Hidden, n) = Cardinality({f \in FileNo : Lost(f)})
    <2>1. FileNo = 0 .. n - 1
      BY <1>1 DEF FileNo
    <2>2. Large \subseteq FileNo /\ Hidden \subseteq FileNo
      BY DEF Large, Hidden
    <2>3. Large \cap Hidden = {} /\ Large \cup Hidden = {f \in FileNo : Lost(f)}
      BY DEF Large, Hidden, Lost
    <2>4. (0 .. n - 1) \cap Large = Large /\ (0 .. n - 1) \cap Hidden = Hidden
      BY <2>1, <2>2
    <2>5. Count(Large, n) = Cardinality(Large) /\ Count(Hidden, n) = Cardinality(Hidden)
      BY <2>4, Zenon DEF Count
    <2>6. IsFiniteSet(FileNo)
      <3>1. 0 \in Int /\ n - 1 \in Int
        OBVIOUS
      <3>2. \A x, y \in Int : IsFiniteSet(x .. y)
        BY FS_Interval
      <3> QED BY <2>1, <3>1, <3>2, Zenon
    <2>7. IsFiniteSet(Large) /\ IsFiniteSet(Hidden)
      BY <2>2, <2>6, FS_Subset
    <2>8. Cardinality(Large) \in Nat /\ Cardinality(Hidden) \in Nat
      BY <2>7, FS_CardinalityType
    <2>9. Cardinality(Large \cup Hidden)
            = Cardinality(Large) + Cardinality(Hidden) - Cardinality({})
      BY <2>3, <2>7, FS_Union
    <2>10. Cardinality({}) = 0
      BY FS_EmptySet
    <2>11. Cardinality(Large \cup Hidden) = Cardinality(Large) + Cardinality(Hidden)
      BY <2>8, <2>9, <2>10
    <2> QED BY <2>3, <2>5, <2>11
  <1> QED BY <1>1, <1>2, <1>3, <1>4

\* What a page of a search gives keeps ReadInv.
LEMMA SearchKeeps ==
  ASSUME SourceOK, NEW from, StartsOK("search", from), SearchPage(from)
  PROVE  \E seen, next, window, lost, more :
            /\ Outcome("search", seen, next, window, lost, more)
            /\ ~more => /\ seen = Items("search")
                        /\ lost = Cardinality({f \in FileNo : Lost(f)})
            /\ more => /\ next \in Position /\ next # <<0, 0>>
                       /\ seen = Until(Items("search"), next)
                       /\ SearchOK([query |-> "search", at |-> next, window |-> window,
                                    lost |-> lost, seen |-> seen])
  <1>1. PICK I : I = Items("search")
    OBVIOUS
  <1>2. PICK n \in Nat : n = FilesInScope
    BY ReadConstants
  <1>3. I \in SUBSET Position /\ \A p \in I : p[1] < n
    BY <1>1, <1>2, ItemsAre DEF Queries
  <1>4. PICK at : at = from.at
    OBVIOUS
  <1>5. at \in Position /\ from.seen = Until(I, at) /\ SearchOK(from)
    BY <1>1, <1>4 DEF StartsOK
  <1>6. PICK first : first = at[1]
    OBVIOUS
  <1>7. PICK stop : stop = IF from.window = 0 THEN WindowFrom(first) ELSE from.window
    OBVIOUS
  <1>8. /\ first \in 0 .. n /\ stop \in 0 .. n /\ first <= stop
        /\ from.window # 0 => first < stop
        /\ from.window = 0 => at[2] = 0 /\ (first < n => first < stop)
    <2>1. first \in 0 .. FilesInScope
      BY <1>4, <1>5, <1>6 DEF SearchOK
    <2>2. /\ WindowFrom(first) \in first .. FilesInScope
          /\ first < FilesInScope => first < WindowFrom(first)
      BY <2>1, WindowIs
    <2> QED BY <1>2, <1>4, <1>5, <1>6, <1>7, <2>1, <2>2 DEF SearchOK
  <1>9. PICK rejected : rejected = Rejected(from, stop)
    OBVIOUS
  <1>10. /\ Count(Large, stop) \in Nat /\ Count(Hidden, first) \in Nat
         /\ Count(Hidden, stop) \in Nat
         /\ Count(Large, first) \in Nat /\ Between(Large, first, stop) \in Nat
         /\ Count(Large, stop) = Count(Large, first) + Between(Large, first, stop)
    <2>1. first \in Nat /\ stop \in Nat
      BY <1>8
    <2> QED BY <1>8, <2>1, CountsAdd
  <1>11. from.lost + rejected = Count(Large, stop) + Count(Hidden, first)
    <2>1. CASE from.window = 0
      <3>1. rejected = Between(Large, first, stop)
        BY <1>2, <1>4, <1>6, <1>8, <1>9, <2>1, CountsAre DEF Rejected
      <3>2. from.lost = Count(Large, first) + Count(Hidden, first)
        BY <1>4, <1>5, <1>6, <2>1 DEF SearchOK
      <3> QED BY <1>10, <3>1, <3>2
    <2>2. CASE from.window # 0
      <3>1. rejected = 0
        BY <1>9, <2>2 DEF Rejected
      <3>2. from.lost = Count(Large, stop) + Count(Hidden, first)
        BY <1>4, <1>5, <1>6, <1>7, <2>2 DEF SearchOK
      <3> QED BY <1>10, <3>1, <3>2
    <2> QED BY <2>1, <2>2
  <1>12. from.lost \in Nat /\ rejected \in Nat
    <2>1. Between(Large, first, stop) \in Nat
      BY <1>10
    <2>2. CASE from.window = 0
      BY <1>2, <1>4, <1>5, <1>6, <1>8, <1>9, <1>10, <2>2, CountsAre DEF Rejected, SearchOK
    <2>3. CASE from.window # 0
      BY <1>4, <1>5, <1>6, <1>7, <1>9, <1>10, <2>3 DEF Rejected, SearchOK
    <2> QED BY <2>2, <2>3
  <1>13. ASSUME NEW b \in 0 .. n, first <= b
         PROVE  from.lost + rejected + HiddenIn(first, b - 1) = Count(Large, stop) + Count(Hidden, b)
    <2>1. HiddenIn(first, b - 1) = Between(Hidden, first, b)
      BY <1>2, <1>8, CountsAre
    <2>2. first \in Nat /\ b \in Nat
      BY <1>8
    <2>3. /\ Between(Hidden, first, b) \in Nat
          /\ Count(Hidden, b) = Count(Hidden, first) + Between(Hidden, first, b)
      BY <1>13, <2>2, CountsAdd
    <2> QED BY <1>10, <1>11, <1>12, <2>1, <2>3
  <1>14. PICK rest : rest = Beyond(I, at, stop)
    OBVIOUS
  <1>15. rest = {p \in Items("search") : p[1] < stop /\ ~Before(p, from.at)}
    BY <1>1, <1>4, <1>14 DEF Beyond
  <1>16. PICK page \in SUBSET rest :
            /\ IsPage(page, rest)
            /\ IF page # rest
               THEN Gives("search", page, FirstOf(rest \ page), stop,
                          from.lost + Rejected(from, stop)
                            + HiddenIn(from.at[1], FirstOf(rest \ page)[1] - 1), from, TRUE)
               ELSE Gives("search", page, <<stop, 0>>, 0,
                          from.lost + Rejected(from, stop) + HiddenIn(from.at[1], stop - 1),
                          from, stop < FilesInScope)
    BY <1>4, <1>6, <1>7, <1>15 DEF SearchPage
  <1>17. PICK seen : seen = from.seen \cup page
    OBVIOUS
  <1>18. CASE page # rest
    <2>1. PICK next : next = FirstOf(rest \ page)
      OBVIOUS
    <2>2. PICK lost : lost = from.lost + rejected + HiddenIn(first, next[1] - 1)
      OBVIOUS
    <2>3. Outcome("search", seen, next, stop, lost, TRUE)
      BY <1>4, <1>6, <1>9, <1>16, <1>17, <1>18, <2>1, <2>2 DEF Gives, Outcome
    <2>4. Follows(next, I, at, stop, page)
      <3>1. page \in SUBSET Beyond(I, at, stop)
        BY <1>14
      <3>2. IsPage(page, Beyond(I, at, stop)) /\ page # Beyond(I, at, stop)
        BY <1>14, <1>16, <1>18
      <3>3. stop \in Nat /\ at \in Position /\ I \in SUBSET Position
        BY <1>3, <1>5, <1>8
      <3>4. Follows(FirstOf(Beyond(I, at, stop) \ page), I, at, stop, page)
        BY <3>1, <3>2, <3>3, PageIs, Zenon
      <3> QED BY <1>14, <2>1, <3>4
    <2>5. /\ next \in Position /\ next # <<0, 0>> /\ next[1] < stop /\ ~Before(next, at)
          /\ seen = Until(I, next)
      BY <1>5, <1>17, <2>4 DEF Follows
    <2>6. next[1] \in 0 .. n /\ first <= next[1]
      BY <1>5, <1>6, <1>8, <2>5 DEF Position, Before
    <2>7. lost = Count(Large, stop) + Count(Hidden, next[1])
      BY <1>13, <2>2, <2>6
    <2>8. PICK c : c = [query |-> "search", at |-> next, window |-> stop,
                        lost |-> lost, seen |-> seen]
      OBVIOUS
    <2>9. c.at = next /\ c.window = stop /\ c.lost = lost
      BY <2>8
    <2>10. stop # 0
      BY <1>8, <2>5, <2>6
    <2>11. SearchOK(c)
      BY <1>2, <1>8, <2>5, <2>6, <2>7, <2>9, <2>10 DEF SearchOK
    <2> QED BY <1>1, <2>3, <2>5, <2>8, <2>11
  <1>19. CASE page = rest
    <2>1. PICK next : next = <<stop, 0>>
      OBVIOUS
    <2>2. PICK lost : lost = from.lost + rejected + HiddenIn(first, stop - 1)
      OBVIOUS
    <2>3. PICK more \in BOOLEAN : more <=> stop < n
      OBVIOUS
    <2>4. Outcome("search", seen, next, 0, lost, more)
      BY <1>2, <1>4, <1>6, <1>9, <1>16, <1>17, <1>19, <2>1, <2>2, <2>3 DEF Gives, Outcome
    <2>5. lost = Count(Large, stop) + Count(Hidden, stop)
      BY <1>8, <1>13, <2>2
    <2>6. next \in Position /\ next[1] = stop /\ next[2] = 0
      BY <1>8, <2>1 DEF Position
    <2>7. seen = Until(I, next)
      <3>1. ASSUME NEW p \in I
            PROVE  Before(p, next) <=> Before(p, at) \/ (p[1] < stop /\ ~Before(p, at))
        <4>1. p \in Nat \X Nat
          BY <1>3 DEF Position
        <4>2. Before(p, next) <=> p[1] < stop
          BY <1>8, <2>6, <4>1 DEF Before
        <4>3. Before(p, at) => p[1] < stop
          BY <1>5, <1>6, <1>8, <4>1 DEF Before, Position
        <4> QED BY <4>2, <4>3
      <3> QED BY <1>5, <1>14, <1>17, <1>19, <3>1 DEF Until, Beyond
    <2>8. CASE more
      <3>1. stop < n /\ stop # 0
        BY <1>8, <2>3, <2>8
      <3>2. next # <<0, 0>>
        BY <2>1, <3>1
      <3>3. PICK c : c = [query |-> "search", at |-> next, window |-> 0,
                          lost |-> lost, seen |-> seen]
        OBVIOUS
      <3>4. c.at = next /\ c.window = 0 /\ c.lost = lost
        BY <3>3
      <3>5. SearchOK(c)
        BY <1>2, <1>8, <2>5, <2>6, <3>4 DEF SearchOK
      <3> QED BY <1>1, <2>4, <2>6, <2>7, <2>8, <3>2, <3>3, <3>5
    <2>9. CASE ~more
      <3>1. stop = n
        BY <1>8, <2>3, <2>9
      <3>2. seen = I
        <4>1. ASSUME NEW p \in I PROVE Before(p, next)
          BY <1>3, <2>6, <3>1 DEF Before
        <4> QED BY <2>7, <4>1 DEF Until
      <3>3. lost = Cardinality({f \in FileNo : Lost(f)})
        BY <1>2, <2>5, <3>1, CountsAre
      <3> QED BY <1>1, <2>4, <2>9, <3>2, <3>3
    <2> QED BY <2>8, <2>9
  <1> QED BY <1>18, <1>19

-----------------------------------------------------------------------------
(* Reading: the invariant *)

\* An outcome as it should be keeps ReadInv.
LEMMA OutcomeKeeps ==
  ASSUME ReadInv, NEW query \in Queries, NEW seen, NEW next, NEW window, NEW lost, NEW more,
         Outcome(query, seen, next, window, lost, more),
         ~more => /\ seen = Items(query)
                  /\ query = "search" => lost = Cardinality({f \in FileNo : Lost(f)}),
         more => /\ next \in Position /\ next # <<0, 0>> /\ seen = Until(Items(query), next)
                 /\ query = "search" => SearchOK([query |-> query, at |-> next, window |-> window,
                                                  lost |-> lost, seen |-> seen])
  PROVE  ReadInv'
  <1>1. UNCHANGED <<source, parts>>
    BY DEF Outcome
  <1>2. PICK k \in Nat : k = Len(cursors)
    BY DEF ReadInv, CursorsOK
  <1>3. cursors = [j \in 1 .. k |-> cursors[j]] /\ \A j \in 1 .. k : CursorOK(cursors[j])
    BY <1>2 DEF ReadInv, CursorsOK
  <1>4. SourceOK'
    BY <1>1 DEF ReadInv, SourceOK
  \* what the properties speak about depends on the files alone
  <1>5. ASSUME NEW q PROVE Items(q)' = Items(q)
    BY <1>1 DEF Items, Readable, TooLarge
  <1>6. Large' = Large /\ Hidden' = Hidden /\ {f \in FileNo : Lost(f)}' = {f \in FileNo : Lost(f)}
    BY <1>1 DEF Large, Hidden, Lost, TooLarge
  <1>7. ASSUME NEW c, CursorOK(c) PROVE CursorOK(c)'
    <2>1. Items(c.query)' = Items(c.query)
      BY <1>5
    <2> QED BY <1>6, <1>7, <2>1 DEF CursorOK, StartsOK, SearchOK
  <1>8. PICK a : a = [query |-> query, seen |-> seen, lost |-> lost, more |-> more]
    OBVIOUS
  <1>9. AnswerOK(a)
    BY <1>8 DEF AnswerOK
  <1>10. AnswerOK(answer)'
    <2>1. Items(a.query)' = Items(a.query)
      BY <1>5
    <2>2. AnswerOK(a)'
      BY <1>6, <1>9, <2>1 DEF AnswerOK
    <2>3. answer' = a
      BY <1>8 DEF Outcome
    <2> QED BY <2>2, <2>3 DEF AnswerOK
  <1>11. CursorsOK'
    <2>1. CASE ~more
      <3>1. cursors' = cursors
        BY <2>1 DEF Outcome
      <3> QED BY <1>2, <1>3, <1>7, <3>1 DEF CursorsOK
    <2>2. CASE more
      <3>1. PICK c : c = [query |-> query, at |-> next, window |-> window,
                          lost |-> lost, seen |-> seen]
        OBVIOUS
      <3>2. cursors' = Append(cursors, c)
        BY <2>2, <3>1 DEF Outcome
      <3>3. CursorOK(c)
        BY <2>2, <3>1 DEF CursorOK, StartsOK
      <3>4. PICK S : S = {cursors[j] : j \in 1 .. k} \cup {c}
        OBVIOUS
      <3>5. cursors \in Seq(S) /\ c \in S
        <4>1. cursors \in [1 .. k -> S]
          BY <1>3, <3>4
        <4> QED BY <3>4, <4>1
      <3>6. /\ Len(cursors') = k + 1 /\ cursors' = [j \in 1 .. k + 1 |-> cursors'[j]]
            /\ cursors'[k + 1] = c /\ \A j \in 1 .. k : cursors'[j] = cursors[j]
        BY <1>2, <3>2, <3>5, AppendIs
      <3>7. ASSUME NEW j \in 1 .. k + 1 PROVE CursorOK(cursors[j])'
        <4>1. CASE j = k + 1
          <5>1. CursorOK(c)'
            BY <1>7, <3>3
          <5> QED BY <3>6, <4>1, <5>1 DEF CursorOK, StartsOK, SearchOK
        <4>2. CASE j # k + 1
          <5>1. j \in 1 .. k
            BY <4>2
          <5>2. PICK d : d = cursors[j]
            OBVIOUS
          <5>3. CursorOK(d)'
            BY <1>3, <1>7, <5>1, <5>2
          <5>4. cursors'[j] = d
            BY <3>6, <5>1, <5>2
          <5> QED BY <5>3, <5>4 DEF CursorOK, StartsOK, SearchOK
        <4> QED BY <4>1, <4>2
      <3> QED BY <3>6, <3>7 DEF CursorsOK
    <2> QED BY <2>1, <2>2
  <1> QED BY <1>4, <1>10, <1>11 DEF ReadInv

\* A page from where a page may start keeps ReadInv.
LEMMA PageKeeps ==
  ASSUME ReadInv, NEW query \in Queries, NEW from, StartsOK(query, from), Page(query, from)
  PROVE  ReadInv'
  <1>0. SourceOK
    BY DEF ReadInv
  <1>1. CASE query = "search"
    <2>1. SearchPage(from) /\ StartsOK("search", from)
      BY <1>1 DEF Page
    <2>2. PICK seen, next, window, lost, more :
             /\ Outcome("search", seen, next, window, lost, more)
             /\ ~more => /\ seen = Items("search")
                         /\ lost = Cardinality({f \in FileNo : Lost(f)})
             /\ more => /\ next \in Position /\ next # <<0, 0>>
                        /\ seen = Until(Items("search"), next)
                        /\ SearchOK([query |-> "search", at |-> next, window |-> window,
                                     lost |-> lost, seen |-> seen])
      BY <1>0, <2>1, SearchKeeps
    <2> QED BY <1>1, <2>2, OutcomeKeeps
  <1>2. CASE query # "search"
    <2>1. query \in {"paths", "hunk"} /\ ListPage(query, from)
      BY <1>2 DEF Page, Queries
    <2>2. PICK seen, next, more :
             /\ Outcome(query, seen, next, 0, 0, more)
             /\ ~more => seen = Items(query)
             /\ more => /\ next \in Position /\ next # <<0, 0>>
                        /\ seen = Until(Items(query), next)
      BY <1>0, <2>1, ListKeeps
    <2> QED BY <1>2, <2>2, OutcomeKeeps
  <1> QED BY <1>1, <1>2

\* Cursors stand after what was shown on the way to them, through any pages,
\* windows and queries.
THEOREM ReadInvariance == ReadSpec => []ReadInv
  <1>1. ReadInit => ReadInv
    <2> SUFFICES ASSUME ReadInit PROVE ReadInv
      OBVIOUS
    <2>1. SourceOK
      BY ReadConstants DEF ReadInit, SourceOK
    <2>2. CursorsOK
      BY DEF ReadInit, CursorsOK
    <2>3. AnswerOK(answer)
      BY DEF ReadInit, NoAnswer, AnswerOK
    <2> QED BY <2>1, <2>2, <2>3 DEF ReadInv
  <1>2. ReadInv /\ [ReadNext]_readVars => ReadInv'
    <2> SUFFICES ASSUME ReadInv, [ReadNext]_readVars PROVE ReadInv'
      OBVIOUS
    <2>1. ASSUME NEW query \in Queries, Retrieve(query) PROVE ReadInv'
      <3>1. StartsOK(query, Start)
        BY StartIsOK DEF ReadInv
      <3>2. Page(query, Start)
        BY <2>1 DEF Retrieve
      <3> QED BY <3>1, <3>2, PageKeeps
    <2>2. ASSUME NEW query \in Queries, NEW k \in DOMAIN cursors, Continue(query, k)
          PROVE  ReadInv'
      <3>1. k \in 1 .. Len(cursors)
        BY DEF ReadInv, CursorsOK
      <3>2. PICK from : from = cursors[k]
        OBVIOUS
      <3>3. CursorOK(from) /\ from.query = query /\ Page(query, from)
        BY <2>2, <3>1, <3>2 DEF ReadInv, CursorsOK, Continue, SameScope
      <3>4. StartsOK(query, from)
        BY <3>3 DEF CursorOK
      <3> QED BY <3>3, <3>4, PageKeeps
    <2>3. CASE UNCHANGED readVars
      <3>1. UNCHANGED <<source, parts, cursors, answer>>
        BY <2>3 DEF readVars
      <3>2. /\ \A q : Items(q)' = Items(q)
            /\ Large' = Large /\ Hidden' = Hidden
            /\ \A f : Lost(f)' = Lost(f)
        BY <3>1 DEF Items, Readable, TooLarge, Large, Hidden, Lost
      <3>3. SourceOK' /\ AnswerOK(answer)'
        BY <3>1, <3>2 DEF ReadInv, SourceOK, AnswerOK
      <3>4. \A c : CursorOK(c) => CursorOK(c)'
        BY <3>2 DEF CursorOK, StartsOK, SearchOK
      <3>5. CursorsOK'
        BY <3>1, <3>4 DEF ReadInv, CursorsOK
      <3> QED BY <3>3, <3>5 DEF ReadInv
    <2> QED BY <2>1, <2>2, <2>3 DEF ReadNext
  <1> QED BY <1>1, <1>2, PTL DEF ReadSpec

\* Whoever follows the cursors has been shown every item, in order, and knows
\* how many files could not be read.
THEOREM PagesStayComplete == ReadSpec => []PagesMissNothing
  <1>1. ReadInv => PagesMissNothing
    <2> SUFFICES ASSUME ReadInv PROVE PagesMissNothing
      OBVIOUS
    <2>1. AnswerOK(answer) /\ \A k \in DOMAIN cursors : CursorOK(cursors[k])
      BY DEF ReadInv, CursorsOK
    <2> QED BY <2>1 DEF PagesMissNothing, AnswerOK, CursorOK, StartsOK, Until
  <1> QED BY <1>1, ReadInvariance, PTL
=============================================================================
