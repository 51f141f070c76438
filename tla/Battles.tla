------------------------------ MODULE Battles ------------------------------
(***************************************************************************)
(* The Classic Battle: BattlesService (enter, confirmEntry,                *)
(* abandonPendingEntry) running concurrently with the two battle phases of *)
(* the cron worker (lockOpenBattles, resolveLockedBattles) over one        *)
(* PostgreSQL database, next to a DreamDEX market nobody here controls.    *)
(*                                                                         *)
(* A request is split at the awaits that separate a database read from the *)
(* database write that relies on it; each Prisma call, and each            *)
(* $transaction, is one atomic step.  Every request checks what it checks  *)
(* and nothing else, so a row may change between two of its steps.         *)
(*                                                                         *)
(* What is abstracted:                                                     *)
(*  - a battle is identified with its market (Battle.marketRowId @unique); *)
(*  - time is one bit per market, due[m]: battle.locksAt <= Date.now(),    *)
(*    which is also "less than minTradingHeadroomSec left on the market";  *)
(*  - User.challengeRating, an absolute value computed from an earlier     *)
(*    reading of itself, is the set of battles whose result it reflects;   *)
(*  - User.challengeEnergy, changed only by atomic increments, is the      *)
(*    number of payouts added to it;                                       *)
(*  - fanNftSyncPending belongs to the Fan NFT worker and is not here.     *)
(***************************************************************************)
EXTENDS BattleRules

CONSTANTS
  Users,
  Markets,
  Predictions,    \* ids prediction rows can have; bounds the rows ever made
  Requests,       \* HTTP requests that can be in flight at once
  Confidences,    \* stated confidences, in percent
  MinEntrants,    \* config battleMinEntrants
  None            \* null

ASSUME MinEntrantsAssumption == MinEntrants \in Nat \ {0}
ASSUME ConfidencesAssumption == Confidences \subseteq 1 .. 99
VARIABLES
  chain,      \* on-chain status of each DreamDEX market
  due,        \* due[m]: locksAt of m's battle has passed
  battle,     \* Battle rows, with voidReason or winningDirection as outcome
  status,     \* Prediction.status, or "FREE" / "DELETED"
  call,       \* the fields of a Prediction that never change
  entries,    \* BattleEntry rows of each battle, by creation: prediction ids
  placement,  \* BattleEntry.placement by prediction id, 0 for null
  user,       \* the statistics of each User row
  events,     \* BattleRatingEvent rows of each user, by creation
  req,        \* where each in-flight request stands
  worker      \* where the cron worker stands, and what it has read

rows  == <<battle, status, call, entries, placement, user, events>>
world == <<chain, due>>
vars  == <<world, rows, req, worker>>

----------------------------------------------------------------------------
\* Types.

ChainStatus  == {"Trading", "Closed", "Outcome0", "Outcome1", "Voided"}
BattleStatus == {"NONE", "OPEN", "LOCKED", "RESOLVED", "VOIDED"}
Outcome      == Directions \cup {"none", "insufficient_entrants", "dreamdex_void"}
RowStatus    == {"FREE", "PENDING", "LOCKED", "DELETED"}
Calls        == [user : Users, market : Markets,
                 direction : Directions, confidence : Confidences]

ASSUME NoneAssumption == None \notin Users \cup Markets \cup Predictions \cup Calls

UserRows     == [rating : SUBSET Markets, energy : Nat,
                 wins : Nat, losses : Nat, battlesWon : Nat]
EventRows    == [battle : Markets, placement : Nat,
                 before : SUBSET Markets, after : SUBSET Markets]

EnterSteps   == {"findBattle", "createBattle", "checkEntry", "findPending",
                 "deletePending", "insert"}
PredictionSteps == {"deletePending", "verifyFill", "abandon"}
RequestSteps == EnterSteps \cup {"idle", "verifyFill", "abandon"}
RequestState ==
  {s \in [pc : RequestSteps, user : Users \cup {None}, market : Markets \cup {None},
          prediction : Predictions \cup {None}] :
     /\ s.pc \in EnterSteps => s.user \in Users /\ s.market \in Markets
     /\ s.pc \in PredictionSteps => s.prediction \in Predictions}
WorkerState  == [pc : {"idle", "lock", "resolve"},
                 todo : SUBSET Markets,      \* rows of the batch still to do
                 late : SUBSET Markets,      \* locksAt <= now, at the batch's now
                 seen : [Markets -> Nat],    \* entries of each row, when read
                 rating : [Users -> SUBSET Markets]]  \* ratings, when read

TypeOK ==
  /\ chain \in [Markets -> ChainStatus]
  /\ due \in [Markets -> BOOLEAN]
  /\ battle \in [Markets -> [status : BattleStatus, outcome : Outcome]]
  /\ status \in [Predictions -> RowStatus]
  /\ call \in [Predictions -> Calls \cup {None}]
  /\ entries \in [Markets -> Seq(Predictions)]
  /\ placement \in [Predictions -> Nat]
  /\ user \in [Users -> UserRows]
  /\ events \in [Users -> Seq(EventRows)]
  /\ req \in [Requests -> RequestState]
  /\ worker \in WorkerState

Idle == [pc |-> "idle", user |-> None, market |-> None, prediction |-> None]

WorkerIdle == [pc |-> "idle", todo |-> {}, late |-> {},
               seen |-> [m \in Markets |-> 0],
               rating |-> [u \in Users |-> {}]]

Init ==
  /\ chain = [m \in Markets |-> "Trading"]
  /\ due = [m \in Markets |-> FALSE]
  /\ battle = [m \in Markets |-> [status |-> "NONE", outcome |-> "none"]]
  /\ status = [p \in Predictions |-> "FREE"]
  /\ call = [p \in Predictions |-> None]
  /\ entries = [m \in Markets |-> <<>>]
  /\ placement = [p \in Predictions |-> 0]
  /\ user = [u \in Users |-> [rating |-> {}, energy |-> 0,
                              wins |-> 0, losses |-> 0, battlesWon |-> 0]]
  /\ events = [u \in Users |-> <<>>]
  /\ req = [r \in Requests |-> Idle]
  /\ worker = WorkerIdle

----------------------------------------------------------------------------
\* The world: time, and the on-chain market.

\* locksAt = expiry - headroom passes; time does not go back.
ReachLock(m) ==
  /\ ~due[m]
  /\ due' = [due EXCEPT ![m] = TRUE]
  /\ UNCHANGED <<chain, rows, req, worker>>

\* The market leaves Trading, at its expiry or before.
CloseTrading(m) ==
  /\ chain[m] = "Trading"
  /\ chain' = [chain EXCEPT ![m] = "Closed"]
  /\ UNCHANGED <<due, rows, req, worker>>

\* DreamDEX resolves the market one way or the other, or voids it.
ReportOutcome(m) ==
  /\ chain[m] = "Closed"
  /\ \E o \in {"Outcome0", "Outcome1", "Voided"} : chain' = [chain EXCEPT ![m] = o]
  /\ UNCHANGED <<due, rows, req, worker>>

\* DreamdexService.assertTradable, when the RPC answers.
Tradable(m) == chain[m] = "Trading" /\ ~due[m]

----------------------------------------------------------------------------
\* What the tables say, and what their constraints allow.

EntrySet(m) == {entries[m][i] : i \in DOMAIN entries[m]}

HasEntry(p) == \E m \in Markets : p \in EntrySet(m)

HasEntered(u, m) == \E p \in EntrySet(m) : call[p].user = u

IsPendingOf(p, u, m) ==
  /\ status[p] = "PENDING"
  /\ call[p].user = u
  /\ call[p].market = m

\* A plausible slip: the cascade the other foreign keys of the schema use.
CanDelete_Cascading(p) == status[p] # "DELETED"

\* prediction.delete: the row must exist, and BattleEntry.predictionId
\* is ON DELETE RESTRICT.
CanDelete(p) == status[p] # "DELETED" /\ ~HasEntry(p)

\* battleEntry.create: predictionId @unique, @@unique([battleId, userId]).
CanCreateEntry(p) == ~HasEntry(p) /\ ~HasEntered(call[p].user, call[p].market)

\* The transaction of confirmEntry commits: the prediction row it updates is
\* still there, and the entry it creates is allowed.
CanConfirm(p) == status[p] # "DELETED" /\ CanCreateEntry(p)

\* A step of request r: it now stands at s.
Goes(r, s) == req' = [req EXCEPT ![r] = s]

At(r, pc) == req[r].pc = pc

----------------------------------------------------------------------------
\* BattlesService.enter

\* assertTradable passed and the market row was upserted.
EnterBegin(r, u, m) ==
  /\ At(r, "idle")
  /\ Tradable(m)
  /\ Goes(r, [pc |-> "findBattle", user |-> u, market |-> m, prediction |-> None])
  /\ UNCHANGED <<world, rows, worker>>

\* findOrCreateBattle's read, and the two checks of the row it returns.
EnterFindBattle(r) ==
  LET m == req[r].market IN
  /\ At(r, "findBattle")
  /\ \/ /\ battle[m].status = "NONE"
        /\ Goes(r, [req[r] EXCEPT !.pc = "createBattle"])
     \/ /\ battle[m].status = "OPEN" /\ ~due[m]
        /\ Goes(r, [req[r] EXCEPT !.pc = "checkEntry"])
     \/ /\ battle[m].status # "NONE"
        /\ battle[m].status # "OPEN" \/ due[m]
        /\ Goes(r, Idle)
  /\ UNCHANGED <<world, rows, worker>>

\* battle.create fails on marketRowId @unique when another request was
\* first; the new row is subject to the same check of locksAt.
EnterCreateBattle(r) ==
  LET m == req[r].market IN
  /\ At(r, "createBattle")
  /\ \/ /\ battle[m].status = "NONE"
        /\ battle' = [battle EXCEPT ![m].status = "OPEN"]
        /\ Goes(r, IF due[m] THEN Idle ELSE [req[r] EXCEPT !.pc = "checkEntry"])
     \/ /\ battle[m].status # "NONE"
        /\ Goes(r, Idle)
        /\ UNCHANGED battle
  /\ UNCHANGED <<world, status, call, entries, placement, user, events, worker>>

EnterCheckEntry(r) ==
  /\ At(r, "checkEntry")
  /\ Goes(r, IF HasEntered(req[r].user, req[r].market)
             THEN Idle ELSE [req[r] EXCEPT !.pc = "findPending"])
  /\ UNCHANGED <<world, rows, worker>>

EnterFindPending(r) ==
  /\ At(r, "findPending")
  /\ \/ \E p \in Predictions :
          /\ IsPendingOf(p, req[r].user, req[r].market)
          /\ Goes(r, [req[r] EXCEPT !.pc = "deletePending", !.prediction = p])
     \/ /\ \A p \in Predictions : ~IsPendingOf(p, req[r].user, req[r].market)
        /\ Goes(r, [req[r] EXCEPT !.pc = "insert"])
  /\ UNCHANGED <<world, rows, worker>>

\* prediction.delete, or the error that ends the request.
Delete(r, p, next) ==
  /\ \/ /\ CanDelete(p)
        /\ status' = [status EXCEPT ![p] = "DELETED"]
        /\ call' = [call EXCEPT ![p] = None]
        /\ Goes(r, next)
     \/ /\ ~CanDelete(p)
        /\ Goes(r, Idle)
        /\ UNCHANGED <<status, call>>
  /\ UNCHANGED <<world, battle, entries, placement, user, events, worker>>

EnterDeletePending(r) ==
  /\ At(r, "deletePending")
  /\ Delete(r, req[r].prediction, [req[r] EXCEPT !.pc = "insert", !.prediction = None])

\* prepareBuy succeeded; prediction.create.
EnterInsert(r) ==
  /\ At(r, "insert")
  /\ \E p \in Predictions, d \in Directions, c \in Confidences :
       /\ status[p] = "FREE"
       /\ status' = [status EXCEPT ![p] = "PENDING"]
       /\ call' = [call EXCEPT ![p] = [user |-> req[r].user, market |-> req[r].market,
                                       direction |-> d, confidence |-> c]]
  /\ Goes(r, Idle)
  /\ UNCHANGED <<world, battle, entries, placement, user, events, worker>>

----------------------------------------------------------------------------
\* BattlesService.confirmEntry

\* The one read of the prediction, its battle and its entry, and the checks.
ConfirmBegin(r, p) ==
  /\ At(r, "idle")
  /\ status[p] = "PENDING"
  /\ ~HasEntry(p)
  /\ battle[call[p].market].status = "OPEN"
  /\ Goes(r, [Idle EXCEPT !.pc = "verifyFill", !.prediction = p])
  /\ UNCHANGED <<world, rows, worker>>

\* verifyFill found the fill, up to a minute and more later; the transaction
\* updates the prediction and creates the entry, or rolls back.
ConfirmCommit(r) ==
  LET p == req[r].prediction IN
  /\ At(r, "verifyFill")
  /\ \/ /\ CanConfirm(p)
        /\ status' = [status EXCEPT ![p] = "LOCKED"]
        /\ entries' = [entries EXCEPT ![call[p].market] = Append(@, p)]
     \/ /\ ~CanConfirm(p)
        /\ UNCHANGED <<status, entries>>
  /\ Goes(r, Idle)
  /\ UNCHANGED <<world, battle, call, placement, user, events, worker>>

----------------------------------------------------------------------------
\* BattlesService.abandonPendingEntry

AbandonBegin(r, p) ==
  /\ At(r, "idle")
  /\ status[p] = "PENDING"
  /\ Goes(r, [Idle EXCEPT !.pc = "abandon", !.prediction = p])
  /\ UNCHANGED <<world, rows, worker>>

AbandonCommit(r) ==
  /\ At(r, "abandon")
  /\ Delete(r, req[r].prediction, Idle)

\* An RPC, the indexer, prepareBuy, verifyFill or the database fails.
RequestFails(r) ==
  /\ req[r].pc # "idle"
  /\ Goes(r, Idle)
  /\ UNCHANGED <<world, rows, worker>>

----------------------------------------------------------------------------
\* FanPulseWorker.tick, its battle phases.  The running flag admits one tick
\* at a time.

InStatus(s) == {m \in Markets : battle[m].status = s}

\* What findMany reads: the battles of one status with their entries, and
\* the ratings of the users behind them.
Batch(pc, todo) ==
  [pc |-> pc, todo |-> todo, late |-> {m \in todo : due[m]},
   seen |-> [m \in Markets |-> IF m \in todo THEN Len(entries[m]) ELSE 0],
   rating |-> [u \in Users |-> user[u].rating]]

\* The rows lockOpenBattles reads.
LockBatch == InStatus("OPEN")

LockBegin ==
  /\ worker.pc = "idle"
  /\ worker' = Batch("lock", LockBatch)
  /\ UNCHANGED <<world, rows, req>>

Done(m) == worker' = [worker EXCEPT !.todo = @ \ {m}]

Close(m, s, o) == battle' = [battle EXCEPT ![m] = [status |-> s, outcome |-> o]]

\* A plausible slip: an off-by-one in the test for the minimum.
Insufficient_OffByOne(n) == n + 1 < MinEntrants

\* battle.entries.length < minEntrants, of the row as it was read.
Insufficient(n) == n < MinEntrants

\* shouldLock: the time has come, or assertTradable throws, be it because
\* the market is not tradable or because the RPC (rpcOk) failed.
ShouldLock(m, rpcOk) == m \in worker.late \/ ~rpcOk \/ ~Tradable(m)

\* One battle of lockOpenBattles.
LockOne(m, rpcOk) ==
  /\ worker.pc = "lock"
  /\ m \in worker.todo
  /\ Done(m)
  /\ \/ /\ ~ShouldLock(m, rpcOk)
        /\ UNCHANGED battle
     \/ /\ ShouldLock(m, rpcOk)
        /\ Insufficient(worker.seen[m])
        /\ Close(m, "VOIDED", "insufficient_entrants")
     \/ /\ ShouldLock(m, rpcOk)
        /\ ~Insufficient(worker.seen[m])
        /\ Close(m, "LOCKED", "none")
  /\ UNCHANGED <<world, status, call, entries, placement, user, events, req>>

\* lockOpenBattles has no catch: a failing query ends the tick.
TickAborts ==
  /\ worker.pc = "lock"
  /\ worker' = WorkerIdle
  /\ UNCHANGED <<world, rows, req>>

\* The rows resolveLockedBattles reads.
ResolveBatch == InStatus("LOCKED")

ResolveBegin ==
  /\ worker.pc = "lock"
  /\ worker.todo = {}
  /\ worker' = Batch("resolve", ResolveBatch)
  /\ UNCHANGED <<world, rows, req>>

\* The market is void on chain.
ResolveVoid(m) ==
  /\ worker.pc = "resolve"
  /\ m \in worker.todo
  /\ chain[m] = "Voided"
  /\ Done(m)
  /\ Close(m, "VOIDED", "dreamdex_void")
  /\ UNCHANGED <<world, status, call, entries, placement, user, events, req>>

\* The entries the batch read: battle.entries in resolveOne.
Roster(m) == [i \in 1 .. worker.seen[m] |-> call[entries[m][i]]]

IndexOf(m, u) == CHOOSE i \in 1 .. worker.seen[m] : Roster(m)[i].user = u

OnRoster(m) == {Roster(m)[i].user : i \in 1 .. worker.seen[m]}

\* A plausible slip: whoever is not first has lost.
Scored_FirstOnly(row, before, place, m) ==
  [rating     |-> before \cup {m},
   energy     |-> row.energy + (IF place # 0 THEN 1 ELSE 0),
   wins       |-> row.wins + (IF place = 1 THEN 1 ELSE 0),
   losses     |-> row.losses + (IF place # 1 THEN 1 ELSE 0),
   battlesWon |-> row.battlesWon + (IF place = 1 THEN 1 ELSE 0)]

\* user.update: the rating is written, everything else incremented.
Scored(row, before, place, m) ==
  [rating     |-> before \cup {m},
   energy     |-> row.energy + (IF place # 0 THEN 1 ELSE 0),
   wins       |-> row.wins + (IF place # 0 THEN 1 ELSE 0),
   losses     |-> row.losses + (IF place = 0 THEN 1 ELSE 0),
   battlesWon |-> row.battlesWon + (IF place = 1 THEN 1 ELSE 0)]

\* A plausible slip: the last statement of the transaction is forgotten.
Resolved_Forgotten(m) == UNCHANGED battle

\* A plausible slip: what the chain reports is stored as it is.
Resolved_RawOutcome(m) == Close(m, "RESOLVED", chain[m])

\* winningDirection: onchain.winningOutcome === 0 ? UP : DOWN.
Winner(m) == IF chain[m] = "Outcome0" THEN "UP" ELSE "DOWN"

\* The transaction's last statement: the battle row is RESOLVED.
Resolved(m) == Close(m, "RESOLVED", Winner(m))

\* The transaction of resolveOne.
ResolveSettle(m) ==
  LET place(i) == Placement(Roster(m), Winner(m), i)
      of(u)    == place(IndexOf(m, u))
      event(u) == [battle |-> m, placement |-> of(u),
                   before |-> worker.rating[u], after |-> worker.rating[u] \cup {m}]
  IN
  /\ worker.pc = "resolve"
  /\ m \in worker.todo
  /\ chain[m] \in {"Outcome0", "Outcome1"}
  /\ Done(m)
  /\ placement' = [p \in Predictions |->
        IF \E i \in 1 .. worker.seen[m] : entries[m][i] = p
        THEN of(call[p].user) ELSE placement[p]]
  /\ user' = [u \in Users |->
        IF u \in OnRoster(m)
        THEN Scored(user[u], worker.rating[u], of(u), m) ELSE user[u]]
  /\ events' = [u \in Users |->
        IF u \in OnRoster(m) THEN Append(events[u], event(u)) ELSE events[u]]
  /\ Resolved(m)
  /\ UNCHANGED <<world, status, call, entries, req>>

\* Not final yet, or the RPC or the transaction failed: resolveLockedBattles
\* catches it and goes on.
ResolveSkip(m) ==
  /\ worker.pc = "resolve"
  /\ m \in worker.todo
  /\ Done(m)
  /\ UNCHANGED <<world, rows, req>>

TickEnd ==
  /\ worker.pc = "resolve"
  /\ worker.todo = {}
  /\ worker' = WorkerIdle
  /\ UNCHANGED <<world, rows, req>>

\* The process dies and is started again: only the database remains.
Crash ==
  /\ worker.pc # "idle" \/ \E r \in Requests : req[r].pc # "idle"
  /\ worker' = WorkerIdle
  /\ req' = [r \in Requests |-> Idle]
  /\ UNCHANGED <<world, rows>>

----------------------------------------------------------------------------
World == \E m \in Markets : ReachLock(m) \/ CloseTrading(m) \/ ReportOutcome(m)

Enter(r) ==
  \/ \E u \in Users, m \in Markets : EnterBegin(r, u, m)
  \/ EnterFindBattle(r)
  \/ EnterCreateBattle(r)
  \/ EnterCheckEntry(r)
  \/ EnterFindPending(r)
  \/ EnterDeletePending(r)
  \/ EnterInsert(r)

Confirm(r) == (\E p \in Predictions : ConfirmBegin(r, p)) \/ ConfirmCommit(r)

Abandon(r) == (\E p \in Predictions : AbandonBegin(r, p)) \/ AbandonCommit(r)

Tick ==
  \/ LockBegin
  \/ \E m \in Markets, rpcOk \in BOOLEAN : LockOne(m, rpcOk)
  \/ TickAborts
  \/ ResolveBegin
  \/ \E m \in Markets : ResolveVoid(m) \/ ResolveSettle(m) \/ ResolveSkip(m)
  \/ TickEnd

Next ==
  \/ World
  \/ \E r \in Requests : Enter(r) \/ Confirm(r) \/ Abandon(r) \/ RequestFails(r)
  \/ Tick
  \/ Crash

Spec == Init /\ [][Next]_vars

\* Time passes, every market is eventually resolved or voided, the cron fires
\* every 15 s, and a call that keeps being made does not fail for ever.
Fairness ==
  /\ WF_vars(LockBegin) /\ SF_vars(ResolveBegin) /\ WF_vars(TickEnd)
  /\ \A m \in Markets :
       /\ WF_vars(ReachLock(m)) /\ WF_vars(CloseTrading(m)) /\ WF_vars(ReportOutcome(m))
       /\ SF_vars(LockOne(m, TRUE))
       /\ SF_vars(ResolveVoid(m) \/ ResolveSettle(m))

FairSpec == Spec /\ Fairness

----------------------------------------------------------------------------
\* Properties.

Settled(u, m) == \E i \in DOMAIN events[u] : events[u][i].battle = m

\* Battle entries and predictions agree, however enter, confirm and abandon
\* interleave: each entry stands for a LOCKED prediction made for this battle
\* and no LOCKED prediction is without its entry.
EntriesMatchPredictions ==
  /\ \A m \in Markets : \A p \in EntrySet(m) : status[p] = "LOCKED" /\ call[p].market = m
  /\ \A p \in Predictions : status[p] = "LOCKED" => p \in EntrySet(call[p].market)

\* "Same user cannot enter twice": no two entries of a battle have the same
\* user, though a user may hold several pending predictions for it and confirm
\* them concurrently.
OneEntryPerUser ==
  \A m \in Markets : \A i, j \in DOMAIN entries[m] :
    call[entries[m][i]].user = call[entries[m][j]].user => i = j

\* A battle is locked, and so ever resolved, only with enough entrants,
\* though lockOpenBattles counts the entries of an older reading.
LockedHasQuorum ==
  \A m \in Markets : battle[m].status \in {"LOCKED", "RESOLVED"} => Len(entries[m]) >= MinEntrants

\* No battle is scored twice for the same user: every result is applied at
\* most once, though ticks abort, crash and start over.
ScoredOnce ==
  \A u \in Users : \A i, j \in DOMAIN events[u] :
    events[u][i].battle = events[u][j].battle => i = j

\* Every result is applied exactly once, whatever ticks abort or crash:
\* a user's wins, losses and payouts are those of the placed entries, and
\* one rating event exists for each.
ResultsCountedOnce ==
  \A u \in Users :
    LET of(m)  == {p \in EntrySet(m) : call[p].user = u}
        won    == {m \in Markets : Settled(u, m) /\ \E p \in of(m) : placement[p] > 0}
        first  == {m \in Markets : Settled(u, m) /\ \E p \in of(m) : placement[p] = 1}
        scored == {m \in Markets : Settled(u, m)}
    IN /\ user[u].wins = Cardinality(won)
       /\ user[u].energy = Cardinality(won)
       /\ user[u].battlesWon = Cardinality(first)
       /\ user[u].wins + user[u].losses = Cardinality(scored)
       /\ Len(events[u]) = Cardinality(scored)

\* "Void: no stat changes", and nobody is scored before the battle is
\* RESOLVED: rating events exist for RESOLVED battles only.
OnlyResolvedScores ==
  \A u \in Users, m \in Markets : Settled(u, m) => battle[m].status = "RESOLVED"

\* A RESOLVED battle scored at least the minimum of entrants, the earliest
\* ones; its correct ones are placed 1, 2, ... without gap or tie, and
\* conviction, then priority, decides.
RankedByConviction ==
  \A m \in Markets : battle[m].status = "RESOLVED" =>
    LET at(i)   == call[entries[m][i]]
        place(i) == placement[entries[m][i]]
        scored  == {i \in DOMAIN entries[m] : Settled(at(i).user, m)}
        placed  == {i \in scored : at(i).direction = battle[m].outcome}
    IN /\ Cardinality(scored) >= MinEntrants
       /\ scored = 1 .. Cardinality(scored)
       /\ {place(i) : i \in placed} = 1 .. Cardinality(placed)
       /\ \A i \in DOMAIN entries[m] \ placed : place(i) = 0
       /\ \A i, j \in placed : place(i) < place(j) =>
            \/ at(i).confidence > at(j).confidence
            \/ at(i).confidence = at(j).confidence /\ i < j

\* The life cycle: OPEN -> LOCKED -> RESOLVED or VOIDED, OPEN -> VOIDED, and
\* a final battle is final, although every update of a battle row is
\* unconditional.
LifeCycle ==
  [][\A m \in Markets :
       <<battle[m].status, battle'[m].status>> \in
         {<<s, s>> : s \in BattleStatus} \cup
         {<<"NONE", "OPEN">>, <<"OPEN", "LOCKED">>, <<"OPEN", "VOIDED">>,
          <<"LOCKED", "RESOLVED">>, <<"LOCKED", "VOIDED">>}]_vars

----------------------------------------------------------------------------
\* The inductive invariant behind the theorems.

\* A prediction has fields exactly while its row exists.
RowsHaveCalls ==
  \A p \in Predictions : status[p] \in {"PENDING", "LOCKED"} <=> call[p] # None

\* A request only ever holds the id of a row that was inserted.
RequestsHoldIds ==
  \A r \in Requests : req[r].pc \in PredictionSteps => status[req[r].prediction] # "FREE"

\* What the worker still has to do, is still as it read it, but for entries
\* that came in meanwhile: nothing else moves a battle from OPEN or LOCKED.
BatchStillValid ==
  \A m \in worker.todo :
    /\ worker.pc = "lock" => battle[m].status = "OPEN"
    /\ worker.pc = "resolve" => battle[m].status = "LOCKED"
    /\ worker.seen[m] <= Len(entries[m])

EntryInvariant ==
  RowsHaveCalls /\ RequestsHoldIds /\ EntriesMatchPredictions /\ OneEntryPerUser

SettlementInvariant ==
  BatchStillValid /\ LockedHasQuorum /\ OnlyResolvedScores /\ ScoredOnce

\* What resolveLockedBattles has read of a LOCKED battle is a quorum.
BatchHasQuorum ==
  worker.pc = "resolve" => \A m \in worker.todo : worker.seen[m] >= MinEntrants

\* Who is scored in a battle has entered it.
ScoredHaveEntered ==
  \A u \in Users, m \in Markets : Settled(u, m) => HasEntered(u, m)

\* An entry is placed together with the scoring of its user, so that one
\* confirmed later is not placed.
OnlyScoredArePlaced ==
  \A p \in Predictions : placement[p] # 0 =>
    \E m \in Markets : p \in EntrySet(m) /\ Settled(call[p].user, m)

ResultsInvariant ==
  /\ BatchHasQuorum /\ ScoredHaveEntered /\ OnlyScoredArePlaced
  /\ RankedByConviction
  /\ \A u \in Users : IsFiniteSet({m \in Markets : Settled(u, m)})
  /\ ResultsCountedOnce

----------------------------------------------------------------------------
\* What the documentation says, and the code does not always do.

\* battle-royale-spec: "RESOLVED: Outcome known. Entrants ranked; energy +
\* rating applied."
ResolvedScoresAllEntrants ==
  \A m \in Markets : battle[m].status = "RESOLVED" =>
    \A p \in EntrySet(m) : Settled(call[p].user, m)

\* battle-royale-spec: "energy + rating applied": a user's rating reflects
\* every battle he was scored in.
RatingReflectsResults ==
  \A u \in Users : user[u].rating = {m \in Markets : Settled(u, m)}
=============================================================================
