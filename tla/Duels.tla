------------------------------- MODULE Duels -------------------------------
(***************************************************************************)
(* The 1v1 duel: PredictionsService (create, confirm, challenge,           *)
(* confirmChallenge), ChallengesService.confirmByOriginal, and the two     *)
(* duel phases of the cron worker (expireOpenPredictions,                  *)
(* resolveLockedChallenges).                                               *)
(*                                                                         *)
(* A request is split at the awaits between a read and the write that      *)
(* relies on it.  confirmChallenge's $transaction is split too: PostgreSQL *)
(* runs it READ COMMITTED, so another transaction may commit between its   *)
(* read of the original and its updates.  A worker query is one step.      *)
(*                                                                         *)
(* What is abstracted:                                                     *)
(*  - a Challenge row is identified with its original prediction           *)
(*    (Challenge.originalPredictionId @unique);                            *)
(*  - Prediction.challengeExpiresAt is null, ahead, or past;               *)
(*  - User.challengeRating, an absolute value computed from an earlier     *)
(*    reading of itself, is the set of duels whose result it reflects;     *)
(*    challengeEnergy, changed by increments, the number of payouts;       *)
(*  - confidence and quantity only scale payouts and rating steps.         *)
(***************************************************************************)
EXTENDS Integers, Sequences, FiniteSets

CONSTANTS
  Users,
  Markets,
  Predictions,    \* ids prediction rows can have; bounds the rows ever made
  Requests,       \* HTTP requests that can be in flight at once
  None            \* null

VARIABLES
  chain,      \* on-chain status of each DreamDEX market
  closing,    \* closing[m]: less than minTradingHeadroomSec is left
  status,     \* Prediction.status, or "FREE"
  call,       \* the fields of a Prediction that never change
  window,     \* Prediction.challengeExpiresAt: null, ahead or past
  duel,       \* the Challenge row of each original prediction
  user,       \* the statistics of each User row
  events,     \* RatingEvent rows of each user, by creation
  req,        \* where each in-flight request stands
  worker      \* where the cron worker stands, and what it has read

rows  == <<status, call, window, duel, user, events>>
world == <<chain, closing>>
vars  == <<world, rows, req, worker>>

----------------------------------------------------------------------------
\* Types.

Directions  == {"UP", "DOWN"}
ChainStatus == {"Trading", "Closed", "Outcome0", "Outcome1", "Voided"}
RowStatus   == {"FREE", "PENDING", "OPEN", "LOCKED", "EXPIRED"}
DuelStatus  == {"NONE", "LOCKED", "RESOLVED", "VOIDED"}
Calls       == [user : Users, market : Markets, direction : Directions,
                challenging : Predictions \cup {None}]

ASSUME NoneAssumption == None \notin Users \cup Markets \cup Predictions \cup Calls

DuelRows    == [status : DuelStatus, challenger : Predictions \cup {None},
                winner : Users \cup {None}]
UserRows    == [rating : SUBSET Predictions, energy : Nat, wins : Nat, losses : Nat]
EventRows   == [duel : Predictions, before : SUBSET Predictions, after : SUBSET Predictions]

InsertSteps == {"insert", "insertChallenger"}
FillSteps   == {"verifyFill", "takeRead", "takeCommit"}
RequestState ==
  {s \in [pc : InsertSteps \cup FillSteps \cup {"idle"}, user : Users \cup {None},
          market : Markets \cup {None}, prediction : Predictions \cup {None}] :
     /\ s.pc \in InsertSteps => s.user \in Users
     /\ s.pc = "insert" => s.market \in Markets
     /\ s.pc \in FillSteps \cup {"insertChallenger"} => s.prediction \in Predictions}

WorkerState == [pc : {"idle", "expired", "resolve"},
                todo : SUBSET Predictions,               \* duels of the batch still to do
                rating : [Users -> SUBSET Predictions]]  \* ratings, when read

TypeOK ==
  /\ chain \in [Markets -> ChainStatus]
  /\ closing \in [Markets -> BOOLEAN]
  /\ status \in [Predictions -> RowStatus]
  /\ call \in [Predictions -> Calls \cup {None}]
  /\ window \in [Predictions -> {"null", "ahead", "past"}]
  /\ duel \in [Predictions -> DuelRows]
  /\ user \in [Users -> UserRows]
  /\ events \in [Users -> Seq(EventRows)]
  /\ req \in [Requests -> RequestState]
  /\ worker \in WorkerState

Idle == [pc |-> "idle", user |-> None, market |-> None, prediction |-> None]

WorkerIdle == [pc |-> "idle", todo |-> {}, rating |-> [u \in Users |-> {}]]

NoDuel == [status |-> "NONE", challenger |-> None, winner |-> None]

Init ==
  /\ chain = [m \in Markets |-> "Trading"]
  /\ closing = [m \in Markets |-> FALSE]
  /\ status = [p \in Predictions |-> "FREE"]
  /\ call = [p \in Predictions |-> None]
  /\ window = [p \in Predictions |-> "null"]
  /\ duel = [p \in Predictions |-> NoDuel]
  /\ user = [u \in Users |-> [rating |-> {}, energy |-> 0, wins |-> 0, losses |-> 0]]
  /\ events = [u \in Users |-> <<>>]
  /\ req = [r \in Requests |-> Idle]
  /\ worker = WorkerIdle

----------------------------------------------------------------------------
\* The world: time, and the on-chain market.

\* A challenge window runs out.
WindowEnds(p) ==
  /\ window[p] = "ahead"
  /\ window' = [window EXCEPT ![p] = "past"]
  /\ UNCHANGED <<world, status, call, duel, user, events, req, worker>>

\* The market's headroom begins; confirm has let no window reach into it.
HeadroomBegins(m) ==
  /\ ~closing[m]
  /\ \A p \in Predictions : window[p] = "ahead" => call[p].market # m
  /\ closing' = [closing EXCEPT ![m] = TRUE]
  /\ UNCHANGED <<chain, rows, req, worker>>

CloseTrading(m) ==
  /\ chain[m] = "Trading"
  /\ chain' = [chain EXCEPT ![m] = "Closed"]
  /\ UNCHANGED <<closing, rows, req, worker>>

ReportOutcome(m) ==
  /\ chain[m] = "Closed"
  /\ \E o \in {"Outcome0", "Outcome1", "Voided"} : chain' = [chain EXCEPT ![m] = o]
  /\ UNCHANGED <<closing, rows, req, worker>>

\* DreamdexService.assertTradable, when the RPC answers.
Tradable(m) == chain[m] = "Trading" /\ ~closing[m]

----------------------------------------------------------------------------
\* What the tables say, and what their constraints allow.

HasDuel(p) == duel[p].status # "NONE"

IsChallenger(p) == \E o \in Predictions : duel[o].challenger = p

Opposite(d) == IF d = "UP" THEN "DOWN" ELSE "UP"

\* A plausible slip: the schema without the @unique of originalPredictionId,
\* the later Challenge row being the one that is found.
CanCreateDuel_Twice(o, p) == ~IsChallenger(p)

\* challenge.create: originalPredictionId and challengerPredictionId @unique.
CanCreateDuel(o, p) == ~HasDuel(o) /\ ~IsChallenger(p)

\* The checks of confirmChallenge on the original, made before its
\* transaction and again in it.
Takeable(o) == status[o] = "OPEN" /\ ~HasDuel(o)

Goes(r, s) == req' = [req EXCEPT ![r] = s]

At(r, pc) == req[r].pc = pc

----------------------------------------------------------------------------
\* PredictionsService.create

CreateBegin(r, u, m) ==
  /\ At(r, "idle")
  /\ Tradable(m)
  /\ Goes(r, [pc |-> "insert", user |-> u, market |-> m, prediction |-> None])
  /\ UNCHANGED <<world, rows, worker>>

\* prediction.create: a row of PENDING status.
Insert(p, c) ==
  /\ status[p] = "FREE"
  /\ status' = [status EXCEPT ![p] = "PENDING"]
  /\ call' = [call EXCEPT ![p] = c]

\* prepareBuy succeeded.
CreateInsert(r) ==
  /\ At(r, "insert")
  /\ \E p \in Predictions, d \in Directions :
       Insert(p, [user |-> req[r].user, market |-> req[r].market,
                  direction |-> d, challenging |-> None])
  /\ Goes(r, Idle)
  /\ UNCHANGED <<world, window, duel, user, events, worker>>

----------------------------------------------------------------------------
\* PredictionsService.challenge

\* A plausible slip: anyone may challenge, the predictor too.
MayChallenge_Anyone(u, o) == TRUE

\* original.userId === user.userId is refused.
MayChallenge(u, o) == call[o].user # u

ChallengeBegin(r, u, o) ==
  /\ At(r, "idle")
  /\ status[o] = "OPEN"
  /\ ~HasDuel(o)
  /\ MayChallenge(u, o)
  /\ window[o] # "past"
  /\ Tradable(call[o].market)
  /\ Goes(r, [pc |-> "insertChallenger", user |-> u, market |-> None, prediction |-> o])
  /\ UNCHANGED <<world, rows, worker>>

ChallengeInsert(r) ==
  LET o == req[r].prediction IN
  /\ At(r, "insertChallenger")
  /\ \E p \in Predictions :
       Insert(p, [user |-> req[r].user, market |-> call[o].market,
                  direction |-> Opposite(call[o].direction), challenging |-> o])
  /\ Goes(r, Idle)
  /\ UNCHANGED <<world, window, duel, user, events, worker>>

----------------------------------------------------------------------------
\* PredictionsService.confirm

\* The prediction is read, directly or through confirmByOriginal.
ConfirmBegin(r, p) ==
  /\ At(r, "idle")
  /\ status[p] = "PENDING"
  /\ Goes(r, [Idle EXCEPT !.pc = "verifyFill", !.prediction = p])
  /\ UNCHANGED <<world, rows, worker>>

\* prediction.challengingOfId is set.
IsChallenge(p) == call[p].challenging # None

\* verifyFill found the fill of an open call; the market's expiry is read and
\* the row is updated, whatever its status is by now.  Within the headroom
\* the window has no length.
ConfirmOpen(r) ==
  LET p == req[r].prediction IN
  /\ At(r, "verifyFill")
  /\ ~IsChallenge(p)
  /\ status' = [status EXCEPT ![p] = "OPEN"]
  /\ window' = [window EXCEPT ![p] = IF closing[call[p].market] THEN "past" ELSE "ahead"]
  /\ Goes(r, Idle)
  /\ UNCHANGED <<world, call, duel, user, events, worker>>

\* verifyFill found the fill of a challenge; confirmChallenge reads the
\* original, and the transaction reads it once more.
ConfirmTake(r, from, to) ==
  LET p == req[r].prediction IN
  /\ At(r, from)
  /\ IsChallenge(p)
  /\ Goes(r, IF Takeable(call[p].challenging) THEN [req[r] EXCEPT !.pc = to] ELSE Idle)
  /\ UNCHANGED <<world, rows, worker>>

ConfirmFirstRead(r)  == ConfirmTake(r, "verifyFill", "takeRead")
ConfirmSecondRead(r) == ConfirmTake(r, "takeRead", "takeCommit")

\* The transaction's updates of both predictions and its insert of the
\* challenge commit, or a unique constraint rolls them back.
ConfirmCommit(r) ==
  LET p == req[r].prediction
      o == call[p].challenging
  IN
  /\ At(r, "takeCommit")
  /\ \/ /\ CanCreateDuel(o, p)
        /\ status' = [status EXCEPT ![p] = "LOCKED", ![o] = "LOCKED"]
        /\ duel' = [duel EXCEPT ![o] = [status |-> "LOCKED", challenger |-> p, winner |-> None]]
     \/ /\ ~CanCreateDuel(o, p)
        /\ UNCHANGED <<status, duel>>
  /\ Goes(r, Idle)
  /\ UNCHANGED <<world, call, window, user, events, worker>>

\* An RPC, the indexer, prepareBuy, verifyFill or the database fails.
RequestFails(r) ==
  /\ req[r].pc # "idle"
  /\ Goes(r, Idle)
  /\ UNCHANGED <<world, rows, worker>>

----------------------------------------------------------------------------
\* FanPulseWorker.tick, its duel phases; its battle phases come in between.

\* A plausible slip: an OPEN call is taken to have no challenger.
Expirable_AnyOpen(p) == status[p] = "OPEN" /\ window[p] = "past"

\* status OPEN, challengeExpiresAt <= now, no Challenge row.
Expirable(p) == status[p] = "OPEN" /\ window[p] = "past" /\ ~HasDuel(p)

\* expireOpenPredictions: one UPDATE.
ExpireOpen ==
  /\ worker.pc = "idle"
  /\ status' = [p \in Predictions |-> IF Expirable(p) THEN "EXPIRED" ELSE status[p]]
  /\ worker' = [worker EXCEPT !.pc = "expired"]
  /\ UNCHANGED <<world, call, window, duel, user, events, req>>

\* A plausible slip: the duels are found by their market, not their status.
ResolveBatch_AnyStatus == {o \in Predictions : HasDuel(o)}

\* The rows the findMany of resolveLockedChallenges reads.
ResolveBatch == {o \in Predictions : duel[o].status = "LOCKED"}

\* It reads the ratings of the users on both sides, too.
ResolveBegin ==
  /\ worker.pc = "expired"
  /\ worker' = [pc |-> "resolve",
                todo |-> ResolveBatch,
                rating |-> [u \in Users |-> user[u].rating]]
  /\ UNCHANGED <<world, rows, req>>

\* A phase in between threw: the rest of the tick is skipped.
TickAborts ==
  /\ worker.pc = "expired"
  /\ worker' = WorkerIdle
  /\ UNCHANGED <<world, rows, req>>

Done(o) == worker' = [worker EXCEPT !.todo = @ \ {o}]

ResolveVoid(o) ==
  /\ worker.pc = "resolve"
  /\ o \in worker.todo
  /\ chain[call[o].market] = "Voided"
  /\ Done(o)
  /\ duel' = [duel EXCEPT ![o].status = "VOIDED"]
  /\ UNCHANGED <<world, status, call, window, user, events, req>>

\* A plausible slip: outcome 1 is taken for UP.
WinningDirection_Swapped(m) == IF chain[m] = "Outcome1" THEN "UP" ELSE "DOWN"

\* winningDirection: onchain.winningOutcome === 0 ? UP : DOWN.
WinningDirection(m) == IF chain[m] = "Outcome0" THEN "UP" ELSE "DOWN"

OriginalWon(o) == call[o].direction = WinningDirection(call[o].market)

WinnerOf(o) == call[IF OriginalWon(o) THEN o ELSE duel[o].challenger].user
LoserOf(o)  == call[IF OriginalWon(o) THEN duel[o].challenger ELSE o].user

\* A plausible slip: winner.id is written for winner.userId.
Finished_RowId(o) == duel' = [duel EXCEPT ![o].status = "RESOLVED", ![o].winner = o]

\* challenge.update in the transaction of resolveOne.
Finished(o) == duel' = [duel EXCEPT ![o].status = "RESOLVED", ![o].winner = WinnerOf(o)]

\* A plausible slip: both sides are credited.
Scored_BothWin(row, before, won, o) ==
  [rating |-> before \cup {o}, energy |-> row.energy + 1,
   wins |-> row.wins + 1, losses |-> row.losses]

\* user.update: the rating is written, everything else incremented.
Scored(row, before, won, o) ==
  [rating |-> before \cup {o},
   energy |-> row.energy + (IF won THEN 1 ELSE 0),
   wins   |-> row.wins + (IF won THEN 1 ELSE 0),
   losses |-> row.losses + (IF won THEN 0 ELSE 1)]

\* The transaction of resolveOne: challenge, winner, loser, two rating events.
ResolveSettle(o) ==
  LET w == WinnerOf(o)
      l == LoserOf(o)
      event(u) == [duel |-> o, before |-> worker.rating[u], after |-> worker.rating[u] \cup {o}]
  IN
  /\ worker.pc = "resolve"
  /\ o \in worker.todo
  /\ chain[call[o].market] \in {"Outcome0", "Outcome1"}
  /\ Done(o)
  /\ Finished(o)
  /\ user' = [user EXCEPT ![w] = Scored(@, worker.rating[w], TRUE, o),
                          ![l] = Scored(@, worker.rating[l], FALSE, o)]
  /\ events' = [events EXCEPT ![w] = Append(@, event(w)), ![l] = Append(@, event(l))]
  /\ UNCHANGED <<world, status, call, window, req>>

\* Not final yet, or the RPC or the transaction failed: it is caught.
ResolveSkip(o) ==
  /\ worker.pc = "resolve"
  /\ o \in worker.todo
  /\ Done(o)
  /\ UNCHANGED <<world, rows, req>>

TickEnd ==
  /\ worker.pc = "resolve"
  /\ worker.todo = {}
  /\ worker' = WorkerIdle
  /\ UNCHANGED <<world, rows, req>>

\* The process dies and is started again: only the database remains.  A
\* transaction in progress is rolled back.
Crash ==
  /\ worker.pc # "idle" \/ \E r \in Requests : req[r].pc # "idle"
  /\ worker' = WorkerIdle
  /\ req' = [r \in Requests |-> Idle]
  /\ UNCHANGED <<world, rows>>

----------------------------------------------------------------------------
World ==
  \/ \E p \in Predictions : WindowEnds(p)
  \/ \E m \in Markets : HeadroomBegins(m) \/ CloseTrading(m) \/ ReportOutcome(m)

Request(r) ==
  \/ \E u \in Users, m \in Markets : CreateBegin(r, u, m)
  \/ CreateInsert(r)
  \/ \E u \in Users, o \in Predictions : ChallengeBegin(r, u, o)
  \/ ChallengeInsert(r)
  \/ \E p \in Predictions : ConfirmBegin(r, p)
  \/ ConfirmOpen(r)
  \/ ConfirmFirstRead(r)
  \/ ConfirmSecondRead(r)
  \/ ConfirmCommit(r)
  \/ RequestFails(r)

Tick ==
  \/ ExpireOpen
  \/ ResolveBegin
  \/ TickAborts
  \/ \E o \in Predictions : ResolveVoid(o) \/ ResolveSettle(o) \/ ResolveSkip(o)
  \/ TickEnd

Next == World \/ (\E r \in Requests : Request(r)) \/ Tick \/ Crash

Spec == Init /\ [][Next]_vars

\* Time passes, every market is eventually resolved or voided, the cron fires
\* every 15 s, and a call that keeps being made does not fail for ever.
Fairness ==
  /\ WF_vars(ExpireOpen) /\ SF_vars(ResolveBegin) /\ WF_vars(TickEnd)
  /\ \A m \in Markets : WF_vars(CloseTrading(m)) /\ WF_vars(ReportOutcome(m))
  /\ \A p \in Predictions :
       WF_vars(WindowEnds(p)) /\ SF_vars(ResolveVoid(p) \/ ResolveSettle(p))

FairSpec == Spec /\ Fairness

----------------------------------------------------------------------------
\* Properties.

Resolved == {o \in Predictions : duel[o].status = "RESOLVED"}

\* A duel is between two users, on one market, on opposite sides; the
\* challenger's prediction was made for this original, and is LOCKED.
DuelIsOpposed ==
  \A o \in Predictions : HasDuel(o) =>
    LET p == duel[o].challenger IN
    /\ call[p].challenging = o
    /\ call[p].user # call[o].user
    /\ call[p].market = call[o].market
    /\ call[p].direction # call[o].direction
    /\ status[p] = "LOCKED"

\* "Single challenger": of all who challenge an original, in whatever order
\* their fills are confirmed, one gets the duel; a challenging prediction is
\* LOCKED exactly if it is that one, and is never open to challenge itself.
OnlyTheWinnerOfTheRaceLocks ==
  \A p \in Predictions : status[p] # "FREE" /\ call[p].challenging # None =>
    /\ status[p] \in {"PENDING", "LOCKED"}
    /\ status[p] = "LOCKED" <=> duel[call[p].challenging].challenger = p

\* Every result is applied exactly once, whatever ticks abort, crash and
\* are repeated: the statistics are those of the RESOLVED duels.
ResultsCountedOnce ==
  \A u \in Users :
    LET won  == {o \in Resolved : duel[o].winner = u}
        lost == {o \in Resolved : duel[o].winner # u /\
                                  u \in {call[o].user, call[duel[o].challenger].user}}
    IN /\ user[u].wins = Cardinality(won)
       /\ user[u].energy = Cardinality(won)
       /\ user[u].losses = Cardinality(lost)
       /\ Len(events[u]) = Cardinality(won \cup lost)
       /\ {events[u][i].duel : i \in DOMAIN events[u]} = won \cup lost

\* The winner is the one whom the market proved right: outcome 0 is UP.
WinnerWasRight ==
  \A o \in Resolved : \E p \in {o, duel[o].challenger} :
    /\ call[p].user = duel[o].winner
    /\ chain[call[o].market] = (IF call[p].direction = "UP" THEN "Outcome0" ELSE "Outcome1")

\* An expired call is one that nobody challenges any more: its window is over,
\* and neither a late confirm of it nor one of a challenge of it that was
\* underway leaves it expired with a duel, or in its window.
ExpiredIsUnchallenged ==
  \A p \in Predictions : status[p] = "EXPIRED" =>
    /\ ~IsChallenge(p) /\ ~HasDuel(p)
    /\ window[p] = "past"

\* Every duel is eventually resolved or voided, and every open call without a
\* challenger eventually finds one or is EXPIRED.
EveryDuelEnds == \A o \in Predictions : (duel[o].status = "LOCKED") ~> (duel[o].status # "LOCKED")

EveryOpenCallEnds ==
  \A p \in Predictions : (status[p] = "OPEN") ~> (status[p] # "OPEN" \/ HasDuel(p))

----------------------------------------------------------------------------
\* What makes the invariants above inductive.

\* A row that exists is a call, and a row that is free is none.
RowsHaveCalls == \A p \in Predictions : status[p] = "FREE" <=> call[p] = None

\* What a request is about exists: the row whose fill is verified, which from
\* takeRead on is a challenge, and the open call of somebody else that a
\* challenge is prepared for.
HoldsRow(s) ==
  /\ s.pc \in FillSteps => status[s.prediction] # "FREE"
  /\ s.pc \in {"takeRead", "takeCommit"} => IsChallenge(s.prediction)
  /\ s.pc = "insertChallenger" =>
       /\ status[s.prediction] # "FREE" /\ ~IsChallenge(s.prediction)
       /\ call[s.prediction].user # s.user

RequestsHoldRows == \A r \in Requests : HoldsRow(req[r])

\* A challenge is made for an open call, of somebody else, on its market, in
\* the other direction; and is PENDING until it has the duel.
ChallengesAreOpposed ==
  \A p \in Predictions : status[p] # "FREE" /\ IsChallenge(p) =>
    LET o == call[p].challenging IN
    /\ status[p] \in {"PENDING", "LOCKED"}
    /\ status[o] # "FREE" /\ ~IsChallenge(o)
    /\ call[p].user # call[o].user
    /\ call[p].market = call[o].market
    /\ call[p].direction # call[o].direction

\* Challenge rows and LOCKED challenges match.
DuelsAreLocked ==
  /\ \A o \in Predictions : ~HasDuel(o) => duel[o] = NoDuel
  /\ \A o \in Predictions : HasDuel(o) =>
       LET p == duel[o].challenger IN
       p \in Predictions /\ status[p] = "LOCKED" /\ call[p].challenging = o
  /\ \A p \in Predictions : status[p] = "LOCKED" /\ IsChallenge(p) =>
       duel[call[p].challenging].challenger = p

\* What the worker has read still holds: nobody else resolves a duel.
BatchStillValid ==
  worker.pc = "resolve" => \A o \in worker.todo : duel[o].status = "LOCKED"

DuelInvariant ==
  RowsHaveCalls /\ RequestsHoldRows /\ ChallengesAreOpposed /\ DuelsAreLocked /\ BatchStillValid

ResultsInvariant == WinnerWasRight /\ IsFiniteSet(Resolved) /\ ResultsCountedOnce
=============================================================================
