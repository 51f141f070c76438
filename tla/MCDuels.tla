------------------------------ MODULE MCDuels ------------------------------
(***************************************************************************)
(* Duels for TLC, from Init, with the page of a duel (DuelViews) that a    *)
(* browser may open; ChallengesPage stays closed.                          *)
(***************************************************************************)
EXTENDS DuelViews

ViewedInit == ViewsInit /\ clashes = NoClashes

ViewedNext ==
  \/ Next /\ UNCHANGED views
  \/ ScreenNext /\ UNCHANGED <<vars, battles, clashes>>

ViewedSpec ==
  /\ ViewedInit /\ [][ViewedNext]_<<vars, views>>
  /\ Fairness /\ ScreenFairness
=============================================================================
