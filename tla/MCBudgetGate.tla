---------------------------- MODULE MCBudgetGate ----------------------------
(* Instances of BudgetGate for TLC: a token stands for about a thousand.   *)
(* Units and checks are few, so there is no symmetry to use.               *)
EXTENDS BudgetGate, TLC
=============================================================================
