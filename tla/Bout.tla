-------------------------------- MODULE Bout --------------------------------
(***************************************************************************)
(* What a 1v1 call promises, with no request, batch, reading or crash in   *)
(* sight.  It is open to everybody until it expires or is taken, by one    *)
(* challenger and once.  The duel that makes is voided without a trace, or *)
(* settled, in one indivisible event: one of its two sides wins and is     *)
(* paid, the other one loses, and nobody else's record changes.            *)
(*                                                                         *)
(* It promises less than one might think: a call that has expired may be   *)
(* opened again, by a confirmation that comes late, or still be taken, by  *)
(* a challenger who had found it open.                                     *)
(***************************************************************************)
EXTENDS Integers

CONSTANTS Users, Predictions

VARIABLES
  stage,    \* where each call, and the duel over it, stands
  sides,    \* the users in the duel over it
  record    \* won and lost duels, and payouts, of each user

vars == <<stage, sides, record>>

Init ==
  /\ stage = [o \in Predictions |-> "NONE"]
  /\ sides = [o \in Predictions |-> {}]
  /\ record = [u \in Users |-> [wins |-> 0, losses |-> 0, paid |-> 0]]

Move(o, from, to) ==
  /\ stage[o] \in from
  /\ stage' = [stage EXCEPT ![o] = to]

Open(o) == Move(o, {"NONE", "EXPIRED"}, "OPEN") /\ UNCHANGED <<sides, record>>

OpenCalls == {o \in Predictions : stage[o] = "OPEN"}

\* Calls may expire together.
Expire(calls) ==
  /\ calls \in SUBSET OpenCalls
  /\ stage' = [o \in Predictions |-> IF o \in calls THEN "EXPIRED" ELSE stage[o]]
  /\ UNCHANGED <<sides, record>>

Take(o) ==
  /\ Move(o, {"OPEN", "EXPIRED"}, "LOCKED")
  /\ \E predictor, challenger \in Users :
       predictor # challenger /\ sides' = [sides EXCEPT ![o] = {predictor, challenger}]
  /\ UNCHANGED record

Void(o) == Move(o, {"LOCKED"}, "VOIDED") /\ UNCHANGED <<sides, record>>

One(c) == IF c THEN 1 ELSE 0

Settle(o) ==
  /\ Move(o, {"LOCKED"}, "RESOLVED")
  /\ \E winner \in sides[o] :
       record' = [u \in Users |->
         [wins   |-> record[u].wins + One(u = winner),
          losses |-> record[u].losses + One(u \in sides[o] \ {winner}),
          paid   |-> record[u].paid + One(u = winner)]]
  /\ UNCHANGED sides

Next ==
  \/ \E o \in Predictions : Open(o) \/ Take(o) \/ Void(o) \/ Settle(o)
  \/ \E calls \in SUBSET OpenCalls : Expire(calls)

Spec == Init /\ [][Next]_vars
=============================================================================
