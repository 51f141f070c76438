------------------------------ MODULE MCAgents ------------------------------
(***************************************************************************)
(* Agents for TLC: one answer within 0..100, one below and one above.      *)
(***************************************************************************)
EXTENDS Agents

MCAnswers == {-1, 40, 101}
=============================================================================
