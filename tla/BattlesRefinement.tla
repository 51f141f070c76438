------------------------- MODULE BattlesRefinement -------------------------
(***************************************************************************)
(* Battles implements Arena.  A battle's stage is its row's status, it has *)
(* scored those who have a rating event for it, and a user's record is     *)
(* read off the User row.                                                  *)
(***************************************************************************)
EXTENDS Battles

Contract == INSTANCE Arena WITH
  stage  <- [m \in Markets |-> battle[m].status],
  scored <- [m \in Markets |-> {u \in Users : Settled(u, m)}],
  record <- [u \in Users |-> [wins |-> user[u].wins, losses |-> user[u].losses,
                              battlesWon |-> user[u].battlesWon]]

\* Every step of requests, worker, world and crashes is a step of Arena or
\* changes nothing Arena sees: resolveOne's transaction settles a battle whole
\* and once, a void leaves no trace, nothing else touches the statistics.
ImplementsArena == Contract!Spec

\* The same, and no battle that was opened stays undecided.
ImplementsFairArena == Contract!FairSpec
=============================================================================
