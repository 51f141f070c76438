----------------------------- MODULE MCBattles -----------------------------
(***************************************************************************)
(* Battles for TLC, from its initial states, under the fairness of the     *)
(* cron worker, against the contract of Arena.  A browser may have the hub *)
(* open; then only one user enters battles.                                *)
(***************************************************************************)
EXTENDS BattlesRefinement, BattleHub

Entrant == CHOOSE u \in Users : TRUE

HubInit == Init /\ hub \in {ClosedHub, EmptyHub}

HubStep ==
  \/ /\ Next
     /\ hub # ClosedHub => \A r \in Requests : req'[r].user \in {Entrant, None}
     /\ UNCHANGED hub
  \/ HubNext /\ UNCHANGED vars

HubSpec == HubInit /\ [][HubStep]_<<vars, hub>> /\ Fairness /\ HubFairness
=============================================================================
