------------------------------ MODULE MCFanNft ------------------------------
(***************************************************************************)
(* FanNft for TLC.                                                         *)
(***************************************************************************)
EXTENDS FanNft, TLC

Symmetry == Permutations(Users)
=============================================================================
