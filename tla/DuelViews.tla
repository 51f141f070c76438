----------------------------- MODULE DuelViews -----------------------------
(***************************************************************************)
(* What a browser shows of the duels, next to the requests and the worker  *)
(* of Duels, which it only reads: ChallengesPage, with the open calls      *)
(* (PredictionsService.listOpen) and the viewer's profile                  *)
(* (UsersService.profile, which ProfilePage renders too), and ChallengePage*)
(* (ChallengesService.get), which polls while its duel is LOCKED.          *)
(*                                                                         *)
(* Prisma answers profile's findUnique with one SELECT per relation of its *)
(* include, outside a transaction and one after the other, each relation   *)
(* with those below it: the user, the predictions, their two challenge     *)
(* relations, the battle entries, their battles.  The answer waits for     *)
(* tokenURI.  listOpen filters in one SELECT, and of what get reads only   *)
(* the challenge row changes.  React Query runs one fetch of a query at a  *)
(* time and keeps what it had when one fails; retry is off.                *)
(*                                                                         *)
(* wins and losses count battles too, so the battles are here as well, in  *)
(* the two steps a profile can tell apart: an entry is confirmed, and the  *)
(* transaction of resolveOne commits (Battles has the rest of them).       *)
(*                                                                         *)
(* Of the profile the record, the history of the duels' predictions and    *)
(* battleHistory are kept.  The predictions of battle entries, which       *)
(* history lists as LOCKED for ever, are left out, and a user has fewer    *)
(* than 50 predictions and 20 entries.                                     *)
(***************************************************************************)
EXTENDS Duels

VARIABLES
  battle,    \* of the battle on each market: entries, placements, winningDirection
  tally,     \* what battles have added to wins and losses of each User row
  clashes,   \* ChallengesPage: its viewer, the fetches in flight, what is shown
  screen     \* ChallengePage: its duel, the fetch in flight, what is shown

battles == <<battle, tally>>

\* Everything next to Duels.
views == <<battles, clashes, screen>>

\* A direction, or no entry (of a user), or no winner (of a battle) yet.
Picks == Directions \cup {"null"}

BattleRows == [entries : [Users -> Picks], placed : SUBSET Users, winning : Picks]

NoBattle == [entries |-> [u \in Users |-> "null"], placed |-> {}, winning |-> "null"]

\* What a query reads of a Challenge row.
Readings == [status : DuelStatus, winner : Users \cup {None}]

ASSUME NoReadingAssumption == None \notin Readings

NoClashes == [user |-> None, pc |-> "idle", record |-> None, rows |-> <<>>, read |-> {},
              played |-> <<>>, profile |-> None, listing |-> {}]

NoScreen == [duel |-> None, answer |-> "none", shown |-> "none"]

\* A page just opened: nothing is loaded, and samples are rendered.
ClashesOf(u) == [NoClashes EXCEPT !.user = u]
ScreenOf(o)  == [NoScreen EXCEPT !.duel = o]

----------------------------------------------------------------------------
\* The battles.

\* The transaction of confirmEntry: one entry per battle and user, confirmed
\* however late.
BattleEntry(m, u) ==
  /\ battle[m].entries[u] = "null"
  /\ \E d \in Directions : battle' = [battle EXCEPT ![m].entries[u] = d]
  /\ UNCHANGED tally

One(c) == IF c THEN 1 ELSE 0

\* Of the entries, those on the right side get a placement.
Placed(m, roster) == {u \in roster : battle[m].entries[u] = WinningDirection(m)}

\* The transaction of resolveOne, about the roster its batch was read with:
\* entries confirmed since then are not in it.
BattleEnds(m) ==
  /\ chain[m] \in {"Outcome0", "Outcome1"}
  /\ battle[m].winning = "null"
  /\ \E roster \in SUBSET {u \in Users : battle[m].entries[u] # "null"} :
       /\ battle' = [battle EXCEPT ![m].placed = Placed(m, roster),
                                   ![m].winning = WinningDirection(m)]
       /\ tally' = [u \in Users |->
            LET won == battle[m].entries[u] = WinningDirection(m) IN
            [wins   |-> tally[u].wins + One(u \in roster /\ won),
             losses |-> tally[u].losses + One(u \in roster /\ ~won)]]

BattlesNext == \E m \in Markets : BattleEnds(m) \/ \E u \in Users : BattleEntry(m, u)

----------------------------------------------------------------------------
\* UsersService.profile, and the page that asks for it: opening it, every
\* 20 s, on a confirmed challenge.

\* The user row: wins and losses are those of duels and of battles.
ReadUser ==
  /\ clashes.pc = "idle" /\ clashes.user # None
  /\ clashes' = [clashes EXCEPT !.pc = "predictions",
                   !.record = [wins   |-> user[clashes.user].wins + tally[clashes.user].wins,
                               losses |-> user[clashes.user].losses + tally[clashes.user].losses]]

\* The user's predictions.
ReadPredictions ==
  LET mine == {p \in Predictions : status[p] # "FREE" /\ call[p].user = clashes.user} IN
  /\ clashes.pc = "predictions"
  /\ clashes' = [clashes EXCEPT !.pc = "challenges",
                   !.rows = [p \in mine |-> [status |-> status[p],
                                             original |-> None, challenger |-> None]]]

Roles == {"original", "challenger"}

\* The duels in which prediction p has the role.
DuelsAs(role, p) ==
  {o \in Predictions : HasDuel(o) /\ (IF role = "original" THEN o ELSE duel[o].challenger) = p}

ChallengeRead(role, p) ==
  IF DuelsAs(role, p) = {} THEN None
  ELSE LET o == CHOOSE o \in DuelsAs(role, p) : TRUE
       IN [status |-> duel[o].status, winner |-> duel[o].winner]

\* The relation originalChallenge or challengerChallenge of all of them.
ReadChallenges(role) ==
  /\ clashes.pc = "challenges"
  /\ role \notin clashes.read
  /\ clashes' = [clashes EXCEPT
                   !.rows = [p \in DOMAIN @ |-> [@[p] EXCEPT ![role] = ChallengeRead(role, p)]],
                   !.read = @ \cup {role}]

\* A battle entry, with its direction and whether it has been placed.
EntryRead(u, m) ==
  [direction |-> battle[m].entries[u], placed |-> u \in battle[m].placed, winning |-> "null"]

\* The user's battle entries.
ReadEntries ==
  /\ clashes.read = Roles /\ clashes.pc = "challenges"
  /\ clashes' = [clashes EXCEPT !.pc = "battles",
                   !.played = [m \in Markets |-> EntryRead(clashes.user, m)]]

\* The direction that won the battle an entry is of.
WithWinner(e, m) == [e EXCEPT !.winning = IF e.direction = "null" THEN "null" ELSE battle[m].winning]

\* The battles of these entries.
ReadBattles ==
  /\ clashes.pc = "battles"
  /\ clashes' = [clashes EXCEPT !.pc = "answered",
                   !.played = [m \in Markets |-> WithWinner(@[m], m)]]

\* A plausible slip: the open calls are told from the row before the challenge.
Result_StatusFirst(u, row) ==
  LET challenge == IF row.original # None THEN row.original ELSE row.challenger IN
  IF challenge = None \/ row.status = "OPEN" THEN row.status
  ELSE IF challenge.status # "RESOLVED" THEN challenge.status
  ELSE IF challenge.winner = u THEN "WIN" ELSE "LOSS"

\* challenge, if there is one, decides; p.status otherwise.
Result(u, row) ==
  LET challenge == IF row.original # None THEN row.original ELSE row.challenger IN
  IF challenge = None THEN row.status
  ELSE IF challenge.status # "RESOLVED" THEN challenge.status
  ELSE IF challenge.winner = u THEN "WIN" ELSE "LOSS"

ProfileIdle ==
  [clashes EXCEPT !.pc = "idle", !.record = None, !.rows = <<>>, !.read = {}, !.played = <<>>]

\* The answer arrives: the record, a row per prediction, a row per entry.
ShowProfile ==
  /\ clashes.pc = "answered"
  /\ clashes' = [ProfileIdle EXCEPT
                   !.profile = [record  |-> clashes.record,
                                history |-> [p \in DOMAIN clashes.rows |->
                                               Result(clashes.user, clashes.rows[p])],
                                battleHistory |-> clashes.played]]

ProfileFails == clashes.pc # "idle" /\ clashes' = ProfileIdle

----------------------------------------------------------------------------
\* PredictionsService.listOpen, and the page that asks for it: opening it,
\* the Refresh button, a confirmed challenge.  The latest reading is kept,
\* whether its answer has arrived yet or not.

\* A plausible slip: the status alone is taken to tell who is unchallenged.
ListOpen_StatusOnly == {p \in Predictions : status[p] = "OPEN" /\ window[p] = "ahead"}

\* status OPEN, challengeExpiresAt > now, no Challenge row.
ListOpen == {p \in Predictions : status[p] = "OPEN" /\ window[p] = "ahead" /\ ~HasDuel(p)}

ReadOpen ==
  /\ clashes.user # None
  /\ clashes' = [clashes EXCEPT !.listing = ListOpen]

ClashesNext ==
  \/ ReadUser \/ ReadPredictions \/ (\E role \in Roles : ReadChallenges(role))
  \/ ReadEntries \/ ReadBattles \/ ShowProfile \/ ProfileFails
  \/ ReadOpen

----------------------------------------------------------------------------
\* ChallengePage and ChallengesService.get.

\* A history row or a confirmed challenge links to the page of its duel.
OpenScreen ==
  /\ screen.duel = None
  /\ \E o \in Predictions : HasDuel(o) /\ screen' = ScreenOf(o)

FetchScreen ==
  /\ screen.answer = "none"
  /\ screen' = [screen EXCEPT !.answer = duel[screen.duel].status]

\* A plausible slip: the signature of an older React Query, (data) => interval;
\* the query it gets for data has no status.
Polls_AsData == FALSE

\* refetchInterval: every 15 s as long as the data it has is LOCKED.
Polls == screen.shown = "LOCKED"

PollScreen == screen.duel # None /\ Polls /\ FetchScreen

\* On opening the page, on the Retry button, when the window gets the focus.
LoadScreen == screen.duel # None /\ FetchScreen

ShowScreen ==
  /\ screen.answer # "none"
  /\ screen' = [screen EXCEPT !.shown = screen.answer, !.answer = "none"]

ScreenFails ==
  /\ screen.answer # "none"
  /\ screen' = [screen EXCEPT !.answer = "none"]

ScreenNext == OpenScreen \/ PollScreen \/ LoadScreen \/ ShowScreen \/ ScreenFails

----------------------------------------------------------------------------
\* Duels, the battles and the two pages, each on its own.

ViewsInit ==
  /\ Init
  /\ battle = [m \in Markets |-> NoBattle]
  /\ tally = [u \in Users |-> [wins |-> 0, losses |-> 0]]
  /\ clashes \in {NoClashes} \cup {ClashesOf(u) : u \in Users}
  /\ screen = NoScreen

ViewsNext ==
  \/ Next /\ UNCHANGED views
  \/ BattlesNext /\ UNCHANGED <<vars, clashes, screen>>
  \/ ClashesNext /\ UNCHANGED <<vars, battles, screen>>
  \/ ScreenNext /\ UNCHANGED <<vars, battles, clashes>>

ViewsSpec == ViewsInit /\ [][ViewsNext]_<<vars, views>>

\* The timer of a page in front fires, and fetches do not fail for ever.
ScreenFairness ==
  /\ WF_<<vars, views>>(PollScreen /\ UNCHANGED <<vars, battles, clashes>>)
  /\ SF_<<vars, views>>(ShowScreen /\ UNCHANGED <<vars, battles, clashes>>)

----------------------------------------------------------------------------
\* Properties.

\* The entries of a battleHistory that are placed, and those on the wrong side.
Placings(played) == {m \in Markets : played[m].placed}
Misses(played) == {m \in Markets : played[m].winning \notin {"null", played[m].direction}}

\* The record of an answer is explained by the two lists in it, though duels
\* and battles may be settled between its readings and a late confirm may have
\* set the row of a duel's original back to OPEN: for every win there is a WIN
\* in history or a placement in battleHistory, for every loss a LOSS or an
\* entry on the wrong side of a decided battle.  And what it shows as the end
\* of a duel, or as the winner or a placement of a battle, is so, however old
\* the answer is.
RecordIsExplained ==
  clashes.profile # None =>
    LET record  == clashes.profile.record
        history == clashes.profile.history
        played  == clashes.profile.battleHistory
        calls(result) == {p \in DOMAIN history : history[p] = result}
        of(p) == CHOOSE o \in Predictions : p \in {o, duel[o].challenger} /\ HasDuel(o)
    IN /\ record.wins <= Cardinality(calls("WIN")) + Cardinality(Placings(played))
       /\ record.losses <= Cardinality(calls("LOSS")) + Cardinality(Misses(played))
       /\ \A m \in Markets :
            /\ played[m].placed => clashes.user \in battle[m].placed
            /\ played[m].winning \in {"null", battle[m].winning}
       /\ \A p \in calls("WIN") \cup calls("LOSS") :
            /\ duel[of(p)].status = "RESOLVED"
            /\ history[p] = "WIN" <=> duel[of(p)].winner = clashes.user
       /\ \A p \in calls("VOIDED") : duel[of(p)].status = "VOIDED"

\* A call the page has shown to be in a duel, or to have been, is not in a
\* list of open calls read from then on: not even when a late confirm made
\* its row OPEN again, with a new window.
NoDuelIsListedAgain ==
  [][clashes'.listing # clashes.listing /\ clashes.profile # None =>
       \A p \in clashes'.listing \cap DOMAIN clashes.profile.history :
         clashes.profile.history[p] \notin {"LOCKED", "WIN", "LOSS", "VOIDED"}
    ]_<<vars, views>>

\* Every open call finds a challenger or expires, every duel ends, and whoever
\* was shown a duel LOCKED is shown its end, without touching the page.
EveryCallIsSeenToEnd ==
  /\ EveryOpenCallEnds
  /\ EveryDuelEnds
  /\ \A o \in Predictions :
       (screen.duel = o /\ screen.shown = "LOCKED") ~> (screen.shown \in {"RESOLVED", "VOIDED"})

----------------------------------------------------------------------------
\* What makes the two properties of ChallengesPage inductive.

\* A fetch is at one of its readings, and has what it has read so far.
FetchIsUnderway ==
  /\ DOMAIN clashes = DOMAIN NoClashes
  /\ clashes.user \in Users \cup {None}
  /\ clashes.pc \in {"idle", "predictions", "challenges", "battles", "answered"}
  /\ clashes.pc # "idle" => clashes.user # None /\ clashes.record \in [wins : Nat, losses : Nat]
  /\ clashes.read \subseteq Roles
  /\ clashes.pc \in {"idle", "predictions"} => clashes.read = {} /\ DOMAIN clashes.rows = {}
  /\ clashes.pc \in {"battles", "answered"} => clashes.read = Roles

InDuel(p) == \E o \in Predictions : HasDuel(o) /\ p \in {o, duel[o].challenger}

\* A LOCKED row is one side of a duel, although not every original with a duel
\* is LOCKED.
LockedIsInDuel == \A p \in Predictions : status[p] = "LOCKED" => InDuel(p)

\* What was read of a relation is of a duel in which p has the role, and how a
\* duel was read to have ended, it has.
ReadingHolds(c, role, p) ==
  c # None =>
    /\ c \in Readings
    /\ \E o \in DuelsAs(role, p) :
         c.status \in {"RESOLVED", "VOIDED"} => c.status = duel[o].status /\ c.winner = duel[o].winner

RowsHold ==
  \A p \in DOMAIN clashes.rows :
    /\ p \in Predictions /\ status[p] # "FREE" /\ call[p].user = clashes.user
    /\ DOMAIN clashes.rows[p] = {"status"} \cup Roles
    /\ clashes.rows[p].status \in RowStatus
    /\ clashes.rows[p].status = "LOCKED" => InDuel(p)
    /\ \A role \in Roles : ReadingHolds(clashes.rows[p][role], role, p)

\* The rows a fetch is about, and what it has read of a relation or would now.
RowsOfFetch ==
  IF clashes.pc = "predictions"
  THEN {p \in Predictions : status[p] # "FREE" /\ call[p].user = clashes.user}
  ELSE DOMAIN clashes.rows

Seen(role, p) ==
  IF role \in clashes.read THEN clashes.rows[p][role] ELSE ChallengeRead(role, p)

\* The rows that are won, or lost, by what the fetch has read or would now.
SeenEnded(won) ==
  {p \in RowsOfFetch : \E role \in Roles :
     /\ Seen(role, p) # None
     /\ Seen(role, p).status = "RESOLVED"
     /\ (Seen(role, p).winner = clashes.user) = won}

\* What user u has played, read at once; and as the fetch has read it, or would.
PlayedBy(u) == [m \in Markets |-> WithWinner(EntryRead(u, m), m)]

SeenPlayed ==
  IF clashes.pc = "answered" THEN clashes.played
  ELSE IF clashes.pc = "battles" THEN [m \in Markets |-> WithWinner(clashes.played[m], m)]
  ELSE PlayedBy(clashes.user)

\* The record was read first: there is a row, or an entry, for each of its wins
\* and losses.
RecordIsBehind ==
  clashes.pc # "idle" =>
    /\ clashes.record.wins <= Cardinality(SeenEnded(TRUE)) + Cardinality(Placings(SeenPlayed))
    /\ clashes.record.losses <= Cardinality(SeenEnded(FALSE)) + Cardinality(Misses(SeenPlayed))

\* The battles: how they have ended accounts for what they have added.
Decided == {m \in Markets : battle[m].winning # "null"}

BattlesHold ==
  /\ battle \in [Markets -> BattleRows]
  /\ tally \in [Users -> [wins : Nat, losses : Nat]]
  /\ IsFiniteSet(Decided)
  /\ \A m \in Markets \ Decided : battle[m].placed = {}
  /\ \A u \in Users : /\ tally[u].wins <= Cardinality(Placings(PlayedBy(u)))
                      /\ tally[u].losses <= Cardinality(Misses(PlayedBy(u)))

\* What was read of an entry and its battle is so, or was not yet.
EntryHolds(u, e, m) ==
  /\ e \in [direction : Picks, placed : BOOLEAN, winning : Picks]
  /\ e.direction \in {"null", battle[m].entries[u]}
  /\ e.placed => u \in battle[m].placed
  /\ e.winning \in {"null", battle[m].winning}

EntriesReadHold ==
  clashes.pc \in {"battles", "answered"} =>
    \A m \in Markets : EntryHolds(clashes.user, clashes.played[m], m)

EntriesShownHold ==
  clashes.profile # None =>
    /\ clashes.user \in Users
    /\ \A m \in Markets : EntryHolds(clashes.user, clashes.profile.battleHistory[m], m)

\* A call shown to be in a duel, or to have been, is, and what is shown as the
\* end of its duel is that.
HistoryHolds ==
  clashes.profile # None =>
    LET history == clashes.profile.history IN
    \A p \in DOMAIN history : history[p] \in {"LOCKED", "WIN", "LOSS", "VOIDED"} =>
      \E o \in Predictions :
        /\ HasDuel(o) /\ p \in {o, duel[o].challenger}
        /\ history[p] \in {"WIN", "LOSS"} =>
             /\ duel[o].status = "RESOLVED"
             /\ history[p] = "WIN" <=> duel[o].winner = clashes.user
        /\ history[p] = "VOIDED" => duel[o].status = "VOIDED"

\* There is a row or an entry for every win and loss of the record.
RecordIsCovered ==
  clashes.profile # None =>
    LET record   == clashes.profile.record
        history  == clashes.profile.history
        played   == clashes.profile.battleHistory
        calls(r) == {p \in DOMAIN history : history[p] = r}
    IN /\ record.wins <= Cardinality(calls("WIN")) + Cardinality(Placings(played))
       /\ record.losses <= Cardinality(calls("LOSS")) + Cardinality(Misses(played))

ClashesInvariant ==
  /\ FetchIsUnderway /\ LockedIsInDuel /\ RowsHold /\ BattlesHold /\ EntriesReadHold
  /\ RecordIsBehind /\ HistoryHolds /\ EntriesShownHold /\ RecordIsCovered
=============================================================================
