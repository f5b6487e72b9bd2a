----------------------------- MODULE ReviewPlan -----------------------------
(***************************************************************************)
(* How a change is cut into units for the agents: review/planner.py, and   *)
(* the answer of the grouping model in review/grouping.py, which may name  *)
(* files twice, not at all, or that do not exist, up to the checks of      *)
(* ReviewStore.freeze_grouping.                                            *)
(*                                                                         *)
(* A path is a number, in the order of the paths.  A file has one hunk of  *)
(* some lines, which is cut into pieces.  A piece costs its lines and one  *)
(* more for its frame.  Units are the sets of their paths: their order,    *)
(* which follows risk, is left out.                                        *)
(***************************************************************************)
EXTENDS Naturals, Sequences, FiniteSets

CONSTANTS
    Files,         \* how many files the change has
    LinesOfHunk,   \* lines a hunk can have
    HunkLines,     \* a hunk is cut after so many
    Capacity,      \* cost a unit may have (unit_capacity)
    MaxUnitPaths,
    SmallChange,   \* so many lines are a small change
    Priorities     \* of relations between files

ASSUME PlanAssumption ==
    /\ {Files, Capacity, SmallChange} \cup LinesOfHunk \cup Priorities \subseteq Nat
    /\ {HunkLines, MaxUnitPaths} \subseteq Nat \ {0}
    /\ IsFiniteSet(Priorities)

VARIABLES
    change,     \* the lines of each file, and whether it may be reviewed
    selection,  \* the paths the user selected
    relations,  \* <<priority, left, right>> between files
    plan        \* the stage of planning, the units and what they must cover

planVars == <<change, selection, relations, plan>>

FilePath == 1 .. Files

\* Binary files and those on sensitive paths are out, then what is not selected.
Included == {p \in FilePath : change[p].open /\ p \in selection}

\* The pieces of a hunk by their first line; a file without lines has one.
Pieces(p) == {p} \X {n * HunkLines : n \in 0 .. (IF change[p].lines = 0 THEN 0
                                                 ELSE (change[p].lines - 1) \div HunkLines)}
PathCost(p) == change[p].lines + Cardinality(Pieces(p))
CostOf(paths) == Cardinality(UNION {{p} \X (1 .. PathCost(p)) : p \in paths})
VolumeOf(paths) == Cardinality(UNION {{p} \X (1 .. change[p].lines) : p \in paths})

\* A set in the order of Before.
Ranked(S, Before(_, _)) ==
    [n \in 1 .. Cardinality(S) |->
        CHOOSE x \in S : Cardinality({y \in S : Before(y, x)}) = n - 1]
InOrder(paths) == Ranked(paths, <)

\* Relations in their order join the bundles of their files while the result
\* is small enough.
Earlier(a, b) ==
    \/ a[1] < b[1]
    \/ a[1] = b[1] /\ a[2] < b[2]
    \/ a[1] = b[1] /\ a[2] = b[2] /\ a[3] < b[3]

Join(bundles, relation) ==
    LET a == {b \in bundles : relation[2] \in b}
        c == {b \in bundles : relation[3] \in b}
        joined == UNION (a \cup c)
    IN IF \/ a = {} \/ c = {}
          \/ Cardinality(joined) > MaxUnitPaths
          \/ CostOf(joined) > Capacity
       THEN bundles ELSE (bundles \ (a \cup c)) \cup {joined}

Bundles ==
    LET order == Ranked(relations, Earlier)
        joined[n \in 0 .. Len(order)] ==
            IF n = 0 THEN {{p} : p \in Included} ELSE Join(joined[n - 1], order[n])
    IN joined[Len(order)]

\* The dearest bundles first, and those of a cost in the order of their files.
First(bundle) == CHOOSE p \in bundle : \A q \in bundle : p <= q
Leads(a, b) ==
    \/ CostOf(a) > CostOf(b)
    \/ CostOf(a) = CostOf(b) /\ First(a) < First(b)
BundleAt(n, bundles) ==
    UNION {b \in bundles : Cardinality({a \in bundles : Leads(a, b)}) = n - 1}

\* The groups of files when no model is asked.
FileGroups ==
    IF Cardinality(Included) > 3
    THEN LET bundles == Bundles
         IN [n \in 1 .. Cardinality(bundles) |-> InOrder(BundleAt(n, bundles))]
    ELSE IF VolumeOf(Included) < SmallChange THEN <<InOrder(Included)>>
    ELSE LET paths == InOrder(Included) IN [n \in DOMAIN paths |-> <<paths[n]>>]

\* A group is filled into units in its order; a file that is in one already,
\* or is not part of the review, is passed over.
Full(unit, p) ==
    unit # {} /\ (Cardinality(unit) >= MaxUnitPaths \/ CostOf(unit) + PathCost(p) > Capacity)

TakenHere(packed, p) == p \in packed.unit
Taken(packed, p) == p \in packed.assigned

Fill(packed, p) ==
    IF p \notin Included \/ Taken(packed, p) THEN packed
    ELSE IF Full(packed.unit, p)
    THEN [units |-> packed.units \cup {packed.unit}, unit |-> {p},
          assigned |-> packed.assigned \cup {p}]
    ELSE [packed EXCEPT !.unit = @ \cup {p}, !.assigned = @ \cup {p}]

PackGroup(packed, group) ==
    LET fill[n \in 0 .. Len(group)] ==
            IF n = 0 THEN packed ELSE Fill(fill[n - 1], group[n])
        filled == fill[Len(group)]
    IN [filled EXCEPT !.units = (@ \cup {filled.unit}) \ {{}}, !.unit = {}]

UnitsFrom(groups) ==
    LET pack[n \in 0 .. Len(groups)] ==
            IF n = 0 THEN [units |-> {}, unit |-> {}, assigned |-> {}]
            ELSE PackGroup(pack[n - 1], groups[n])
        packed == pack[Len(groups)]
    IN packed.units \cup {{p} : p \in Included \ packed.assigned}

KeysOf(paths) == UNION {Pieces(p) : p \in paths}

-----------------------------------------------------------------------------

NoPlan == [stage |-> "none", units |-> {}, keys |-> {}]

PlanInit ==
    /\ change \in [FilePath -> [lines : LinesOfHunk, open : BOOLEAN]]
    /\ selection \in SUBSET FilePath
    /\ relations \in SUBSET {r \in Priorities \X FilePath \X FilePath : r[2] < r[3]}
    /\ plan = NoPlan

\* What was selected must be eligible.
PlanReview ==
    /\ plan.stage = "none"
    /\ selection # FilePath => \A p \in selection : change[p].open
    /\ plan' = [stage |-> IF Cardinality(Included) >= 4 THEN "pending" ELSE "planned",
                units |-> UnitsFrom(FileGroups), keys |-> KeysOf(Included)]
    /\ UNCHANGED <<change, selection, relations>>

\* grouped_plan: indices of files, the first mention of each that exists; what
\* is not mentioned is on its own.  Without an answer each file is.
Named(group) ==
    LET files == InOrder(Included)
        named[n \in 0 .. Len(group)] ==
            IF n = 0 THEN <<>>
            ELSE IF group[n] \in DOMAIN files THEN Append(named[n - 1], files[group[n]])
            ELSE named[n - 1]
    IN named[Len(group)]

Grouped(output) == UnitsFrom([g \in DOMAIN output |-> Named(output[g])])

\* The checks of freeze_grouping: exactly the scope, no path twice, no unit
\* without hunks or with too many paths.
Freezable(units) ==
    /\ KeysOf(UNION units) = plan.keys
    /\ \A u, v \in units : u # v => u \cap v = {}
    /\ \A u \in units : u # {} /\ Cardinality(u) <= MaxUnitPaths

FreezePlan(output) ==
    /\ plan.stage = "pending"
    /\ LET units == Grouped(output)
       IN plan' = IF Freezable(units) THEN [plan EXCEPT !.stage = "frozen", !.units = units]
                  ELSE [plan EXCEPT !.stage = "refused"]
    /\ UNCHANGED <<change, selection, relations>>

\* Bound: two groups, the second of two indices; 0 stands for an index that
\* does not exist.
Answers ==
    LET index == 0 .. Files
        pairs == {pair \in index \X index : pair[1] <= pair[2]}
    IN {<<>>} \cup {<<InOrder(g), pair>> : g \in SUBSET index, pair \in pairs}

PlanNext == PlanReview \/ \E output \in Answers : FreezePlan(output)

PlanSpec == PlanInit /\ [][PlanNext]_planVars

-----------------------------------------------------------------------------

\* Every plan, whatever files, relations and answer of the model it was made
\* from, has each piece of each included file in exactly one unit; a unit
\* exceeds the capacity only if it is a single file that does; and what the
\* grouping proposes is never refused, which would end the whole review
\* (plan_review, grouped_plan, ReviewStore.freeze_grouping).
PlansCoverTheScope ==
    plan.stage # "none" =>
        /\ plan.stage # "refused"
        /\ UNION plan.units = Included /\ KeysOf(UNION plan.units) = plan.keys
        /\ \A u \in plan.units :
             /\ Cardinality(u) = 1 \/ CostOf(u) <= Capacity
             /\ Cardinality(u) <= MaxUnitPaths
             /\ \A v \in plan.units : u # v => u \cap v = {}
=============================================================================
