----------------------------- MODULE BattleHub -----------------------------
(***************************************************************************)
(* The hub of all battles, BattlesPage, over useListBattles and            *)
(* BattlesService.list, next to the requests and the worker of Battles,    *)
(* which it only reads.                                                    *)
(*                                                                         *)
(* Three lists are read independently of each other, each by one SELECT:   *)
(* the OPEN battles every 5 s, the LOCKED ones every 10 s, the RESOLVED    *)
(* ones when the page is opened or Refresh is pressed.  A list that cannot *)
(* be read stays as it was.  The limits of the lists (30, 20 and 12) are   *)
(* not reached.  The markets offered for a new battle are left out.        *)
(***************************************************************************)
EXTENDS Battles

VARIABLE hub   \* the battles of each list, when last read

Lists == {"OPEN", "LOCKED", "RESOLVED"}

\* The page is closed; it is open and nothing is loaded yet.
ClosedHub == <<>>
EmptyHub  == [s \in Lists |-> {}]

\* BattlesService.list with a status.
BattlesIn(s) == {m \in Markets : battle[m].status = s}

\* One of the lists is read: by its timer, or by refetchAll.
ReadList(s) ==
  /\ hub # ClosedHub
  /\ hub' = [hub EXCEPT ![s] = BattlesIn(s)]

\* A plausible slip: the locked battles, which nobody can enter any more, are
\* loaded like the settled ones.
Polled_OpenOnly == {"OPEN"}

\* The lists with a refetchInterval.
Polled == {"OPEN", "LOCKED"}

HubNext == \E s \in Lists : ReadList(s)

\* The timers of a page in front fire, and their requests do not fail for ever.
HubFairness ==
  \A s \in Polled : WF_<<vars, hub>>(ReadList(s) /\ UNCHANGED vars)

\* The cards of a filter, each with the status it was read with.
Cards(filter) ==
  LET shown == IF filter = "active" THEN {"OPEN", "LOCKED"} ELSE {filter}
  IN UNION {{[market |-> m, status |-> s] : m \in hub[s]} : s \in shown \cap DOMAIN hub}

----------------------------------------------------------------------------
\* A card of a battle that has moved on goes away, though the lists are read
\* at different times and a battle may have a card in two of them, or in none.
EveryCardMovesOn ==
  \A m \in Markets, s \in {"OPEN", "LOCKED"} :
    ([market |-> m, status |-> s] \in Cards("active") /\ battle[m].status # s)
      ~> [market |-> m, status |-> s] \notin Cards("active")
=============================================================================
