------------------------------- MODULE Arena -------------------------------
(***************************************************************************)
(* What a battle promises, with no request, batch, snapshot or crash in    *)
(* sight: it is opened, closed to play, and then either voided without a   *)
(* trace or settled.  Settling is one indivisible event.  It scores a      *)
(* roster of at least MinEntrants users who had not been scored for this   *)
(* battle: every one of them wins or loses, the winners, if any, have one  *)
(* champion among them, and nobody else's record changes.                  *)
(***************************************************************************)
EXTENDS Integers, FiniteSets

CONSTANTS Users, Markets, MinEntrants

VARIABLES
  stage,    \* where each battle stands
  scored,   \* users whose record the battle has been added to
  record    \* won and lost battles, and championships, of each user

vars == <<stage, scored, record>>

Init ==
  /\ stage = [m \in Markets |-> "NONE"]
  /\ scored = [m \in Markets |-> {}]
  /\ record = [u \in Users |-> [wins |-> 0, losses |-> 0, battlesWon |-> 0]]

Move(m, from, to) ==
  /\ stage[m] = from
  /\ stage' = [stage EXCEPT ![m] = to]

Open(m) == Move(m, "NONE", "OPEN") /\ UNCHANGED <<scored, record>>

Lock(m) == Move(m, "OPEN", "LOCKED") /\ UNCHANGED <<scored, record>>

Void(m) ==
  /\ Move(m, "OPEN", "VOIDED") \/ Move(m, "LOCKED", "VOIDED")
  /\ UNCHANGED <<scored, record>>

One(c) == IF c THEN 1 ELSE 0

Settle(m) ==
  /\ Move(m, "LOCKED", "RESOLVED")
  /\ \E roster \in SUBSET Users, champions \in SUBSET Users :
       \E winners \in SUBSET roster :
         /\ Cardinality(roster) >= MinEntrants
         /\ champions \subseteq winners
         /\ Cardinality(champions) = One(winners # {})
         /\ scored' = [scored EXCEPT ![m] = roster]
         /\ record' = [u \in Users |->
              [wins       |-> record[u].wins + One(u \in winners),
               losses     |-> record[u].losses + One(u \in roster \ winners),
               battlesWon |-> record[u].battlesWon + One(u \in champions)]]

Next == \E m \in Markets : Open(m) \/ Lock(m) \/ Void(m) \/ Settle(m)

Spec == Init /\ [][Next]_vars

\* A battle once opened does not stay undecided for ever.
Decided == \A m \in Markets : WF_vars(Lock(m) \/ Void(m) \/ Settle(m))

FairSpec == Spec /\ Decided
=============================================================================
