---------------------------- MODULE BattleRules ----------------------------
(***************************************************************************)
(* The pure part of battle settlement: who is correct, who is placed       *)
(* where, and what a correct call is paid.                                 *)
(*                                                                         *)
(* A roster is the sequence of the entries of one battle in the order of   *)
(* their ids (cuids grow with creation), each a record with the fields     *)
(*   direction   "UP" or "DOWN"                                            *)
(*   confidence  1 .. 99, the stated percentage                            *)
(***************************************************************************)
EXTENDS Integers, Sequences, FiniteSets

Directions == {"UP", "DOWN"}

IsCorrect(roster, winner, i) == roster[i].direction = winner

\* A plausible slip: the sort keeps the order of entry.
RanksAhead_EntryOrder(roster, i, j) == i < j

\* The comparator of the sort of correct entries: confidence descending,
\* then entry id ascending.
RanksAhead(roster, i, j) ==
  \/ roster[i].confidence > roster[j].confidence
  \/ roster[i].confidence = roster[j].confidence /\ i < j

Ahead(roster, winner, i) ==
  {j \in DOMAIN roster : IsCorrect(roster, winner, j) /\ RanksAhead(roster, j, i)}

\* placementByEntryId; 0 stands for null, the placement of a wrong call.
Placement(roster, winner, i) ==
  IF IsCorrect(roster, winner, i)
  THEN 1 + Cardinality(Ahead(roster, winner, i))
  ELSE 0
=============================================================================
