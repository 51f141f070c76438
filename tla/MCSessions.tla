----------------------------- MODULE MCSessions -----------------------------
(***************************************************************************)
(* Sessions for TLC: one tab that signs in twice, with either account, and *)
(* requests enough to deliver one of them twice.                           *)
(***************************************************************************)
EXTENDS Sessions, TLC
=============================================================================
