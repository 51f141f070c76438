---------------------------- MODULE BattleViews ----------------------------
(***************************************************************************)
(* What a browser shows of a battle: the leaderboard in BattleRoyalePanel, *)
(* over useGetMarketBattle and BattlesService.getByMarketId, next to the   *)
(* requests and the worker of Battles, which it only reads.                *)
(*                                                                         *)
(* Prisma answers a findUnique with one SELECT per relation of its         *)
(* include, outside a transaction: the battle row and its entries are two  *)
(* readings, and serializeDetail awaits a third query before the answer.   *)
(* Of the fields of the answer those are kept that the list is sorted,     *)
(* numbered and marked by.  One page is open, on one battle; React Query   *)
(* runs one fetch of it at a time and keeps what it had when one fails.    *)
(* While there is no battle yet the answer is null and changes nothing.    *)
(***************************************************************************)
EXTENDS Battles

VARIABLE page   \* the page: its battle, the fetch in flight, and what is shown

NoPage == [market |-> None, pc |-> "idle", row |-> None, read |-> <<>>, shown |-> None]

\* Nothing is loaded yet.
PageOn(m) == [NoPage EXCEPT !.market = m]

----------------------------------------------------------------------------
\* The server: getByMarketId, serializeDetail.

RowRead(m) == [status |-> battle[m].status, outcome |-> battle[m].outcome]

EntriesRead(m) ==
  [i \in DOMAIN entries[m] |->
     [prediction |-> entries[m][i], placement |-> placement[entries[m][i]]]]

\* A fetch begins: opening the page, a poll of an OPEN or LOCKED battle, the
\* Refresh button, a confirmed entry.  The battle is looked up.
PageReadBattle ==
  /\ page.pc = "idle" /\ page.market # None
  /\ battle[page.market].status # "NONE"
  /\ page' = [page EXCEPT !.pc = "entries", !.row = RowRead(page.market)]

\* Its entries, in the order they were created.
PageReadEntries ==
  /\ page.pc = "entries"
  /\ page' = [page EXCEPT !.pc = "answer", !.read = EntriesRead(page.market)]

\* serializeDetail: the answer carries the row as it was read first.
Detail == [row |-> page.row, entries |-> page.read]

----------------------------------------------------------------------------
\* The client: sortEntries and the rows of BattleLeaderboard.

\* placement ?? 999
PlaceOrLast(e) == IF e.placement = 0 THEN 999 ELSE e.placement

\* Whether row i of what was read is shown before row j; sort is stable.
ShownBefore(row, read, i, j) ==
  LET place(k)      == IF row.status = "RESOLVED" THEN PlaceOrLast(read[k]) ELSE 0
      confidence(k) == call[read[k].prediction].confidence
  IN \/ place(i) < place(j)
     \/ place(i) = place(j) /\ confidence(i) > confidence(j)
     \/ place(i) = place(j) /\ confidence(i) = confidence(j) /\ i < j

RowsBefore(row, read, i) == {j \in DOMAIN read : ShownBefore(row, read, j, i)}

\* A plausible slip: the comparison by confidence alone, as while it is OPEN.
SortEntries_Conviction(row, read) ==
  LET before(i) == RowsBefore([row EXCEPT !.status = "OPEN"], read, i)
      at(k)     == CHOOSE i \in DOMAIN read : Cardinality(before(i)) = k - 1
  IN [k \in DOMAIN read |-> read[at(k)]]

\* Row k is the one that k - 1 rows are shown before.
SortEntries(row, read) ==
  LET at(k) == CHOOSE i \in DOMAIN read : Cardinality(RowsBefore(row, read, i)) = k - 1
  IN [k \in DOMAIN read |-> read[at(k)]]

\* BattleLeaderboard
Leaderboard(detail) ==
  [row |-> detail.row, list |-> SortEntries(detail.row, detail.entries)]

\* The answer arrives and is rendered.
PageShows ==
  /\ page.pc = "answer"
  /\ page' = [page EXCEPT !.pc = "idle", !.row = None, !.read = <<>>,
                          !.shown = Leaderboard(Detail)]

\* The request fails; retry is off.
PageFails ==
  /\ page.pc # "idle"
  /\ page' = [page EXCEPT !.pc = "idle", !.row = None, !.read = <<>>]

\* The number in front of row k: the place, or the position in the list.
Number(shown, k) ==
  LET place == shown.list[k].placement
  IN IF shown.row.status = "RESOLVED" /\ place # 0 THEN place ELSE k

\* Rows that are not faded: isWrong is FALSE.
IsRight(shown, k) ==
  LET row == shown.row
  IN ~(row.status = "RESOLVED" /\ call[shown.list[k].prediction].direction # row.outcome)

PageNext == PageReadBattle \/ PageReadEntries \/ PageShows \/ PageFails

----------------------------------------------------------------------------
\* Battles and the page, each on its own.

ViewsInit == Init /\ page \in {NoPage} \cup {PageOn(m) : m \in Markets}

ViewsNext ==
  \/ Next /\ UNCHANGED page
  \/ PageNext /\ UNCHANGED vars

ViewsSpec == ViewsInit /\ [][ViewsNext]_<<vars, page>>

----------------------------------------------------------------------------
\* Whenever a page shows a battle RESOLVED, its list is the final ranking,
\* though the battle was settled between the two readings, entered late, or
\* read before: rows are numbered 1, 2, ...; the placed come first, are right,
\* and are in the order of their conviction; and every entrant who was scored
\* and is right is among them.
ResolvedListIsRanked ==
  page.shown # None /\ page.shown.row.status = "RESOLVED" =>
    LET list         == page.shown.list
        of(k)        == call[list[k].prediction]
        Placed(k)    == list[k].placement # 0
    IN /\ \A k \in DOMAIN list :
            /\ Number(page.shown, k) = k
            /\ Placed(k) => IsRight(page.shown, k)
            /\ IsRight(page.shown, k) /\ Settled(of(k).user, page.market) => Placed(k)
       /\ \A i, j \in DOMAIN list : i < j /\ Placed(j) =>
            Placed(i) /\ of(i).confidence >= of(j).confidence

----------------------------------------------------------------------------
\* What makes it inductive.

\* The list has no row that placement ?? 999 could sort before a placed one.
ListIsShort == page.shown # None => Len(page.shown.list) <= 999

\* What a reading of the entries was, when there were n of them.
FirstRead(m, n) ==
  [i \in 1 .. n |-> [prediction |-> entries[m][i], placement |-> placement[entries[m][i]]]]

\* None of the entrants who were scored came later than that.
HoldsScored(m, n) ==
  \A i \in DOMAIN entries[m] : Settled(call[entries[m][i]].user, m) => i <= n

\* A battle that was read as RESOLVED still is what it was, and so is what was
\* read of its entries from then on; the list made of that is a list of them.
PageInvariant ==
  /\ DOMAIN page = DOMAIN NoPage
  /\ page.market \in Markets \cup {None} /\ page.pc \in {"idle", "entries", "answer"}
  /\ page.market = None => page.pc = "idle" /\ page.shown = None
  /\ page.pc # "idle" /\ page.row.status = "RESOLVED" =>
       /\ page.row = RowRead(page.market)
       /\ page.pc = "answer" => \E n \in 0 .. Len(entries[page.market]) :
            HoldsScored(page.market, n) /\ page.read = FirstRead(page.market, n)
  /\ page.shown # None /\ page.shown.row.status = "RESOLVED" =>
       /\ page.shown.row = RowRead(page.market)
       /\ \A k \in DOMAIN page.shown.list :
            page.shown.list[k].prediction \in EntrySet(page.market)
  /\ ListIsShort => ResolvedListIsRanked
=============================================================================
