------------------------------ MODULE MCPanel ------------------------------
(***************************************************************************)
(* Panel for TLC: the button pressed twice, two preparations.              *)
(***************************************************************************)
EXTENDS Panel, TLC

Symmetry == Permutations(Flows) \cup Permutations(Predictions) \cup Permutations(Accounts)
=============================================================================
