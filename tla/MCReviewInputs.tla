--------------------------- MODULE MCReviewInputs ---------------------------
(***************************************************************************)
(* What goes into a review: the clone it works on, the units it is cut     *)
(* into, what it takes over from the review before, what its agents read   *)
(* page by page and what they may ask.  They share no state, so one        *)
(* instance holds behaviours of each, while the others do not move.        *)
(***************************************************************************)
EXTENDS BudgetGate, ReviewPlan, MCIncrements, GitSnapshot, Retrieval

VARIABLE about  \* what this behaviour is about

inputs == <<vars, planVars, incrementVars, gitVars, readVars, about>>

\* Plans of any files without relations, and of all files with up to three.
PlanStoryInit ==
    /\ PlanInit
    /\ relations = {} \/ Included = FilePath
    /\ Cardinality(relations) <= 3
SomePlan ==
    /\ change = [p \in FilePath |-> [lines |-> 1, open |-> TRUE]] /\ selection = {}
    /\ relations = {} /\ plan = NoPlan

\* Clones of any commit graph, for the two newest commits.
GitStoryInit == declared = [base |-> CommitCount - 1, head |-> CommitCount] /\ GitInit
SomeClone    == parents = [c \in Revision |-> {}] /\ GitStoryInit

\* Files to search, or hunks to read.
TextFile  == [kind : {"text"}, size : {MaxFileBytes, MaxFileBytes + 1}, matches : SUBSET Lines]
OtherFile == [kind : {"absent", "other"}, size : {1}, matches : {{}}]
HiddenFile == [kind : {"hidden"}, size : {1}, matches : {{1}}]
ReadStoryInit ==
    /\ source \in [FileNo -> TextFile \cup OtherFile \cup HiddenFile]
    /\ parts \in [FileNo -> 1 .. 2]
    /\ (\E f \in FileNo : source[f].matches # {}) => parts = [f \in FileNo |-> 1]
    /\ cursors = <<>> /\ answer = NoAnswer
SomeFiles ==
    /\ source = [f \in FileNo |-> [kind |-> "absent", size |-> 1, matches |-> {}]]
    /\ parts = [f \in FileNo |-> 1] /\ cursors = <<>> /\ answer = NoAnswer
OneQuery == \A k \in DOMAIN cursors : cursors[k].query = cursors[1].query

InputsInit ==
    /\ about \in {"budget", "plan", "increments", "clone", "pages"}
    /\ BudgetInit
    /\ about # "budget" => grouping = "frozen"
    /\ IF about = "plan" THEN PlanStoryInit ELSE SomePlan
    /\ IncrementStoryInit
    /\ IF about = "clone" THEN GitStoryInit ELSE SomeClone
    /\ IF about = "pages" THEN ReadStoryInit ELSE SomeFiles

InputsNext ==
    /\ UNCHANGED about
    /\ \/ /\ about = "budget" /\ BudgetNext
          /\ UNCHANGED <<planVars, incrementVars, gitVars, readVars>>
       \/ /\ about = "plan" /\ PlanNext /\ (plan.stage = "pending" => relations = {})
          /\ UNCHANGED <<vars, incrementVars, gitVars, readVars>>
       \/ /\ about = "increments" /\ IncrementsNext /\ InTurn
          /\ UNCHANGED <<vars, planVars, gitVars, readVars>>
       \/ /\ about = "clone" /\ GitNext
          /\ UNCHANGED <<vars, planVars, incrementVars, readVars>>
       \/ /\ about = "pages" /\ ReadNext /\ OneQuery'
          /\ UNCHANGED <<vars, planVars, incrementVars, gitVars>>

InputsSpec == InputsInit /\ [][InputsNext]_inputs
=============================================================================
