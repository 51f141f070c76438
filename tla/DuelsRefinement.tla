-------------------------- MODULE DuelsRefinement --------------------------
(***************************************************************************)
(* Duels implements Bout.  A call stands where its Challenge row says once *)
(* it has one, and before where its own row says; the sides of a duel are  *)
(* the users of its two predictions; a record is read off the User row.    *)
(***************************************************************************)
EXTENDS Duels

Contract == INSTANCE Bout WITH
  stage  <- [o \in Predictions |->
               IF HasDuel(o) THEN duel[o].status
               ELSE IF status[o] \in {"OPEN", "EXPIRED"} THEN status[o] ELSE "NONE"],
  sides  <- [o \in Predictions |->
               IF HasDuel(o) THEN {call[o].user, call[duel[o].challenger].user} ELSE {}],
  record <- [u \in Users |-> [wins |-> user[u].wins, losses |-> user[u].losses,
                              paid |-> user[u].energy]]

\* Every step of requests, worker, world and crashes is a step of Bout or
\* changes nothing Bout sees: of the challengers whose fills are confirmed one
\* gets the duel, resolveOne's transaction settles it whole and once, a void
\* leaves no trace, and no late confirmation undoes any of that.
EveryStepIsOfBout == [][Contract!Next]_(Contract!vars)

\* The same of behaviours from the empty database.
ImplementsBout == Contract!Spec

\* What the proof needs besides DuelInvariant: the call a challenge is about
\* to take was open, so that it is open or expired, or has its duel.
TakersSawOpen ==
  \A r \in Requests : req[r].pc \in {"takeRead", "takeCommit"} =>
    LET o == call[req[r].prediction].challenging
    IN HasDuel(o) \/ status[o] \in {"OPEN", "EXPIRED"}
=============================================================================
