--------------------------- MODULE Battles_proofs ---------------------------
(***************************************************************************)
(* Theorems about Battles, for every number of users, markets, prediction  *)
(* rows and concurrent requests, and that it implements the safety of      *)
(* Arena by the mapping of BattlesRefinement.  Arena's fairness stays with *)
(* TLC.                                                                    *)
(***************************************************************************)
EXTENDS BattlesRefinement, FiniteSetTheorems, TLAPS

\* A placement is a natural number, whatever the roster: what resolveOne
\* writes to BattleEntry.placement.
LEMMA PlacementType ==
  ASSUME NEW n \in Nat, NEW roster, DOMAIN roster = 1 .. n, NEW w, NEW i
  PROVE  Placement(roster, w, i) \in Nat
<1>1. IsFiniteSet(1 .. n)
  BY FS_Interval
<1>2. Ahead(roster, w, i) \subseteq 1 .. n
  BY DEF Ahead
<1>3. Cardinality(Ahead(roster, w, i)) \in Nat
  BY <1>1, <1>2, FS_Subset, FS_CardinalityType
<1> QED
  BY <1>3 DEF Placement

\* The User row user.update leaves behind is a User row.
LEMMA ScoredType ==
  ASSUME NEW row \in UserRows, NEW before \in SUBSET Markets,
         NEW place \in Nat, NEW m \in Markets
  PROVE  Scored(row, before, place, m) \in UserRows
BY DEF Scored, UserRows

\* What a batch reads is a worker state.
LEMMA BatchType ==
  ASSUME TypeOK, NEW pc \in {"lock", "resolve"}, NEW todo \in SUBSET Markets
  PROVE  Batch(pc, todo) \in WorkerState
BY DEF Batch, WorkerState, TypeOK, UserRows

\* The states an idle request goes to, and those a running one goes on to.
LEMMA StartType ==
  /\ Idle \in RequestState
  /\ \A u \in Users, m \in Markets :
       [pc |-> "findBattle", user |-> u, market |-> m, prediction |-> None] \in RequestState
  /\ \A p \in Predictions :
       /\ [Idle EXCEPT !.pc = "verifyFill", !.prediction = p] \in RequestState
       /\ [Idle EXCEPT !.pc = "abandon", !.prediction = p] \in RequestState
BY DEF Idle, RequestState, RequestSteps, EnterSteps, PredictionSteps

LEMMA EnterStepType ==
  ASSUME NEW s \in RequestState, s.pc \in EnterSteps
  PROVE  /\ [s EXCEPT !.pc = "createBattle"] \in RequestState
         /\ [s EXCEPT !.pc = "checkEntry"] \in RequestState
         /\ [s EXCEPT !.pc = "findPending"] \in RequestState
         /\ [s EXCEPT !.pc = "insert"] \in RequestState
         /\ [s EXCEPT !.pc = "insert", !.prediction = None] \in RequestState
         /\ \A p \in Predictions :
              [s EXCEPT !.pc = "deletePending", !.prediction = p] \in RequestState
BY DEF RequestState, RequestSteps, EnterSteps, PredictionSteps

LEMMA GoesType ==
  ASSUME TypeOK, NEW r \in Requests, NEW s \in RequestState, Goes(r, s)
  PROVE  req' \in [Requests -> RequestState]
BY DEF TypeOK, Goes

LEMMA CloseType ==
  ASSUME TypeOK, NEW m \in Markets, NEW s \in BattleStatus, NEW o \in Outcome, Close(m, s, o)
  PROVE  battle' \in [Markets -> [status : BattleStatus, outcome : Outcome]]
BY DEF TypeOK, Close

LEMMA DeleteType ==
  ASSUME TypeOK, NEW r \in Requests, NEW p \in Predictions,
         NEW next \in RequestState, Delete(r, p, next)
  PROVE  TypeOK'
<1>1. req' \in [Requests -> RequestState]
  BY StartType, GoesType DEF Delete
<1>2. status' \in [Predictions -> RowStatus] /\ call' \in [Predictions -> Calls \cup {None}]
  BY DEF Delete, TypeOK, RowStatus
<1> QED
  BY <1>1, <1>2 DEF TypeOK, Delete, world

THEOREM TypeCorrect == Spec => []TypeOK
<1>1. Init => TypeOK
  <2> SUFFICES ASSUME Init PROVE TypeOK
    OBVIOUS
  <2>1. worker \in WorkerState
    BY DEF Init, WorkerIdle, WorkerState
  <2>2. req \in [Requests -> RequestState]
    BY StartType DEF Init
  <2>3. user \in [Users -> UserRows] /\ events \in [Users -> Seq(EventRows)]
    BY DEF Init, UserRows
  <2> QED
    BY <2>1, <2>2, <2>3 DEF Init, TypeOK, ChainStatus, BattleStatus, Outcome, RowStatus
<1>2. TypeOK /\ [Next]_vars => TypeOK'
  <2> SUFFICES ASSUME TypeOK, [Next]_vars PROVE TypeOK'
    OBVIOUS
  <2> USE DEF world, rows
  <2>0. \A r \in Requests : req[r] \in RequestState
    BY DEF TypeOK
  <2>00. WorkerIdle \in WorkerState
    BY DEF WorkerIdle, WorkerState
  <2>1. ASSUME NEW m \in Markets, ReachLock(m) PROVE TypeOK'
    BY <2>1 DEF TypeOK, ReachLock
  <2>2. ASSUME NEW m \in Markets, CloseTrading(m) PROVE TypeOK'
    BY <2>2 DEF TypeOK, CloseTrading, ChainStatus
  <2>3. ASSUME NEW m \in Markets, ReportOutcome(m) PROVE TypeOK'
    BY <2>3 DEF TypeOK, ReportOutcome, ChainStatus
  <2>4. ASSUME NEW r \in Requests, NEW u \in Users, NEW m \in Markets, EnterBegin(r, u, m)
        PROVE  TypeOK'
    BY <2>4, StartType, GoesType DEF TypeOK, EnterBegin
  <2>5. ASSUME NEW r \in Requests, EnterFindBattle(r) PROVE TypeOK'
    <3>1. req' \in [Requests -> RequestState]
      BY <2>5, <2>0, StartType, EnterStepType, GoesType DEF EnterFindBattle, At, EnterSteps
    <3> QED
      BY <2>5, <3>1 DEF TypeOK, EnterFindBattle
  <2>6. ASSUME NEW r \in Requests, EnterCreateBattle(r) PROVE TypeOK'
    <3>1. req' \in [Requests -> RequestState]
      BY <2>6, <2>0, StartType, EnterStepType, GoesType DEF EnterCreateBattle, At, EnterSteps
    <3>2. battle' \in [Markets -> [status : BattleStatus, outcome : Outcome]]
      <4>1. \A m \in Markets :
              [battle[m] EXCEPT !.status = "OPEN"] \in [status : BattleStatus, outcome : Outcome]
        BY DEF TypeOK, BattleStatus
      <4>2. \/ battle' = battle
            \/ battle' = [battle EXCEPT ![req[r].market] = [@ EXCEPT !.status = "OPEN"]]
        BY <2>6 DEF EnterCreateBattle
      <4>3. battle \in [Markets -> [status : BattleStatus, outcome : Outcome]]
        BY DEF TypeOK
      <4> QED
        BY <4>1, <4>2, <4>3
    <3> QED
      BY <2>6, <3>1, <3>2 DEF TypeOK, EnterCreateBattle
  <2>7. ASSUME NEW r \in Requests, EnterCheckEntry(r) PROVE TypeOK'
    <3>1. req' \in [Requests -> RequestState]
      BY <2>7, <2>0, StartType, EnterStepType, GoesType DEF EnterCheckEntry, At, EnterSteps
    <3> QED
      BY <2>7, <3>1 DEF TypeOK, EnterCheckEntry
  <2>8. ASSUME NEW r \in Requests, EnterFindPending(r) PROVE TypeOK'
    <3>1. req' \in [Requests -> RequestState]
      BY <2>8, <2>0, StartType, EnterStepType, GoesType DEF EnterFindPending, At, EnterSteps
    <3> QED
      BY <2>8, <3>1 DEF TypeOK, EnterFindPending
  <2>9. ASSUME NEW r \in Requests, EnterDeletePending(r) PROVE TypeOK'
    <3>1. req[r].prediction \in Predictions
      BY <2>9, <2>0 DEF EnterDeletePending, At, RequestState, PredictionSteps
    <3> QED
      BY <2>9, <2>0, <3>1, EnterStepType, DeleteType DEF EnterDeletePending, At, EnterSteps
  <2>10. ASSUME NEW r \in Requests, EnterInsert(r) PROVE TypeOK'
    <3>1. req' \in [Requests -> RequestState]
      BY <2>10, StartType, GoesType DEF EnterInsert
    <3>2. req[r].user \in Users /\ req[r].market \in Markets
      BY <2>10, <2>0 DEF EnterInsert, At, RequestState, EnterSteps
    <3> QED
      BY <2>10, <3>1, <3>2 DEF TypeOK, EnterInsert, RowStatus, Calls
  <2>11. ASSUME NEW r \in Requests, NEW p \in Predictions, ConfirmBegin(r, p) PROVE TypeOK'
    BY <2>11, StartType, GoesType DEF TypeOK, ConfirmBegin
  <2>12. ASSUME NEW r \in Requests, ConfirmCommit(r) PROVE TypeOK'
    <3>1. req' \in [Requests -> RequestState]
      BY <2>12, StartType, GoesType DEF ConfirmCommit
    <3>2. req[r].prediction \in Predictions
      BY <2>12, <2>0 DEF ConfirmCommit, At, RequestState, PredictionSteps
    <3>3. \A m \in Markets : Append(entries[m], req[r].prediction) \in Seq(Predictions)
      BY <3>2 DEF TypeOK
    <3>4. entries' \in [Markets -> Seq(Predictions)]
      <4> DEFINE p == req[r].prediction
                 x == call[p].market
      <4>1. entries' = entries \/ entries' = [entries EXCEPT ![x] = Append(@, p)]
        BY <2>12 DEF ConfirmCommit
      <4>2. entries \in [Markets -> Seq(Predictions)]
        BY DEF TypeOK
      <4> HIDE DEF p, x
      <4>3. CASE entries' = [entries EXCEPT ![x] = Append(@, p)]
        BY <4>2, <4>3, <3>3 DEF p
      <4> QED
        BY <4>1, <4>2, <4>3
    <3>5. status' \in [Predictions -> RowStatus]
      BY <2>12, <3>2 DEF TypeOK, ConfirmCommit, RowStatus
    <3> QED
      BY <2>12, <3>1, <3>4, <3>5 DEF TypeOK, ConfirmCommit
  <2>13. ASSUME NEW r \in Requests, NEW p \in Predictions, AbandonBegin(r, p) PROVE TypeOK'
    BY <2>13, StartType, GoesType DEF TypeOK, AbandonBegin
  <2>14. ASSUME NEW r \in Requests, AbandonCommit(r) PROVE TypeOK'
    <3>1. req[r].prediction \in Predictions
      BY <2>14, <2>0 DEF AbandonCommit, At, RequestState, PredictionSteps
    <3> QED
      BY <2>14, <3>1, StartType, DeleteType DEF AbandonCommit
  <2>15. ASSUME NEW r \in Requests, RequestFails(r) PROVE TypeOK'
    BY <2>15, StartType, GoesType DEF TypeOK, RequestFails
  <2>16. CASE LockBegin
    BY <2>16, BatchType DEF TypeOK, LockBegin, LockBatch, InStatus
  <2>17. ASSUME NEW m \in Markets, NEW rpcOk \in BOOLEAN, LockOne(m, rpcOk) PROVE TypeOK'
    <3>1. worker' \in WorkerState
      BY <2>17 DEF TypeOK, LockOne, Done, WorkerState
    <3>2. battle' \in [Markets -> [status : BattleStatus, outcome : Outcome]]
      <4>1. CASE UNCHANGED battle
        BY <4>1 DEF TypeOK
      <4>2. CASE Close(m, "VOIDED", "insufficient_entrants")
        BY <4>2, CloseType DEF BattleStatus, Outcome
      <4>3. CASE Close(m, "LOCKED", "none")
        BY <4>3, CloseType DEF BattleStatus, Outcome
      <4> QED
        BY <2>17, <4>1, <4>2, <4>3 DEF LockOne
    <3> QED
      BY <2>17, <3>1, <3>2 DEF TypeOK, LockOne
  <2>18. CASE TickAborts
    BY <2>18, <2>00 DEF TypeOK, TickAborts
  <2>19. CASE ResolveBegin
    BY <2>19, BatchType DEF TypeOK, ResolveBegin, ResolveBatch, InStatus
  <2>20. ASSUME NEW m \in Markets, ResolveVoid(m) PROVE TypeOK'
    BY <2>20 DEF TypeOK, ResolveVoid, Done, Close, WorkerState, BattleStatus, Outcome
  <2>21. ASSUME NEW m \in Markets, ResolveSettle(m) PROVE TypeOK'
    <3> DEFINE place(i) == Placement(Roster(m), Winner(m), i)
               of(u)    == place(IndexOf(m, u))
               event(u) == [battle |-> m, placement |-> of(u),
                            before |-> worker.rating[u], after |-> worker.rating[u] \cup {m}]
    <3>1. \A i : place(i) \in Nat
      BY <2>21, PlacementType DEF TypeOK, WorkerState, Roster
    <3> HIDE DEF place
    <3>2. \A u : of(u) \in Nat
      BY <3>1
    <3> HIDE DEF of
    <3>3. worker.rating \in [Users -> SUBSET Markets]
      BY DEF TypeOK, WorkerState
    <3>4. \A u \in Users : event(u) \in EventRows
      BY <3>2, <3>3 DEF EventRows
    <3> HIDE DEF event
    <3>5. placement' \in [Predictions -> Nat]
      BY <2>21, <3>2 DEF TypeOK, ResolveSettle, place, of
    <3>6. user' \in [Users -> UserRows]
      BY <2>21, <3>2, <3>3, ScoredType DEF TypeOK, ResolveSettle, place, of
    <3>7. events' \in [Users -> Seq(EventRows)]
      <4>1. \A u \in Users : Append(events[u], event(u)) \in Seq(EventRows)
        BY <3>4 DEF TypeOK
      <4>2. \A u \in Users : events[u] \in Seq(EventRows)
        BY DEF TypeOK
      <4>3. events' = [u \in Users |->
              IF u \in OnRoster(m) THEN Append(events[u], event(u)) ELSE events[u]]
        BY <2>21 DEF ResolveSettle, place, of, event
      <4> QED
        BY <4>1, <4>2, <4>3
    <3>8. worker' \in WorkerState /\ battle' \in [Markets -> [status : BattleStatus, outcome : Outcome]]
      BY <2>21 DEF TypeOK, ResolveSettle, Done, Resolved, Winner, Close, WorkerState,
         BattleStatus, Outcome, Directions
    <3> QED
      BY <2>21, <3>5, <3>6, <3>7, <3>8 DEF TypeOK, ResolveSettle
  <2>22. ASSUME NEW m \in Markets, ResolveSkip(m) PROVE TypeOK'
    BY <2>22 DEF TypeOK, ResolveSkip, Done, WorkerState
  <2>23. CASE TickEnd
    BY <2>23, <2>00 DEF TypeOK, TickEnd
  <2>24. CASE Crash
    BY <2>24, StartType, <2>00 DEF TypeOK, Crash
  <2>25. CASE UNCHANGED vars
    BY <2>25 DEF TypeOK, vars
  <2> QED
    BY <2>1, <2>2, <2>3, <2>4, <2>5, <2>6, <2>7, <2>8, <2>9, <2>10, <2>11, <2>12, <2>13,
       <2>14, <2>15, <2>16, <2>17, <2>18, <2>19, <2>20, <2>21, <2>22, <2>23, <2>24, <2>25
       DEF Next, World, Enter, Confirm, Abandon, Tick
<1> QED
  BY <1>1, <1>2, PTL DEF Spec

----------------------------------------------------------------------------
\* Entries and predictions.

\* A step that leaves predictions and entries alone, and whose requests hold
\* ids of rows that exist or did.
LEMMA EntryRowsUntouched ==
  ASSUME EntryInvariant, UNCHANGED <<status, call, entries>>,
         \A r \in Requests :
           req'[r].pc \in PredictionSteps => status[req'[r].prediction] # "FREE"
  PROVE  EntryInvariant'
BY DEF EntryInvariant, RowsHaveCalls, RequestsHoldIds, EntriesMatchPredictions, OneEntryPerUser, EntrySet

\* One request moves on, and keeps that discipline.
LEMMA RequestMoves ==
  ASSUME TypeOK, EntryInvariant, UNCHANGED <<status, call, entries>>,
         NEW r \in Requests, NEW s, Goes(r, s),
         s.pc \in PredictionSteps => status[s.prediction] # "FREE"
  PROVE  EntryInvariant'
<1>1. \A q \in Requests : req'[q] = IF q = r THEN s ELSE req[q]
  BY DEF TypeOK, Goes
<1> QED
  BY <1>1, EntryRowsUntouched DEF EntryInvariant, RequestsHoldIds

LEMMA LockedHasEntry ==
  ASSUME TypeOK, EntryInvariant, NEW p \in Predictions, status[p] = "LOCKED"
  PROVE  call[p].market \in Markets /\ p \in EntrySet(call[p].market)
<1>1. call[p] \in Calls
  BY DEF TypeOK, EntryInvariant, RowsHaveCalls
<1> QED
  BY <1>1 DEF Calls, EntryInvariant, EntriesMatchPredictions

\* A step that writes one prediction, no entry's and not made LOCKED by it.
LEMMA OneRowWritten ==
  ASSUME TypeOK, EntryInvariant, NEW p \in Predictions, ~HasEntry(p),
         entries' = entries, status'[p] # "LOCKED",
         \A q \in Predictions : q # p => status'[q] = status[q] /\ call'[q] = call[q]
  PROVE  EntriesMatchPredictions' /\ OneEntryPerUser'
<1>1. \A m \in Markets : EntrySet(m) \subseteq Predictions /\ EntrySet(m)' = EntrySet(m)
  BY DEF TypeOK, EntrySet
<1>2. \A m \in Markets : p \notin EntrySet(m)
  BY DEF HasEntry
<1>3. \A m \in Markets : \A q \in EntrySet(m) : status'[q] = "LOCKED" /\ call'[q].market = m
  BY <1>1, <1>2 DEF EntryInvariant, EntriesMatchPredictions
<1>4. ASSUME NEW q \in Predictions, status'[q] = "LOCKED"
      PROVE  call'[q].market \in Markets /\ q \in EntrySet(call'[q].market)
  BY <1>4, LockedHasEntry
<1>5. EntriesMatchPredictions'
  BY <1>1, <1>3, <1>4 DEF EntriesMatchPredictions, EntrySet
<1>6. OneEntryPerUser'
  <2> SUFFICES ASSUME NEW m \in Markets, NEW i \in DOMAIN entries[m], NEW j \in DOMAIN entries[m],
                      call'[entries[m][i]].user = call'[entries[m][j]].user
               PROVE  i = j
    BY DEF OneEntryPerUser
  <2>1. entries[m][i] \in EntrySet(m) /\ entries[m][j] \in EntrySet(m)
    BY DEF EntrySet
  <2> QED
    BY <1>1, <1>2, <2>1 DEF EntryInvariant, OneEntryPerUser
<1> QED
  BY <1>5, <1>6

\* A step after which every request holds what it held, or holds nothing, and
\* no row becomes free.
LEMMA IdsStillHeld ==
  ASSUME TypeOK, EntryInvariant,
         \A q \in Predictions : status[q] # "FREE" => status'[q] # "FREE",
         \A r \in Requests : req'[r] = req[r] \/ req'[r].pc \notin PredictionSteps
  PROVE  RequestsHoldIds'
<1> SUFFICES ASSUME NEW r \in Requests, req'[r].pc \in PredictionSteps
             PROVE  status'[req'[r].prediction] # "FREE"
  BY DEF RequestsHoldIds
<1>1. req'[r] = req[r] /\ req[r].prediction \in Predictions
  BY DEF TypeOK, RequestState
<1> QED
  BY <1>1 DEF EntryInvariant, RequestsHoldIds

\* Deleting a prediction disturbs no entry: ON DELETE RESTRICT.
LEMMA DeleteKeepsEntries ==
  ASSUME TypeOK, EntryInvariant, NEW r \in Requests, NEW p \in Predictions,
         NEW next, next.pc \notin PredictionSteps, Delete(r, p, next)
  PROVE  EntryInvariant'
<1>0. Idle.pc \notin PredictionSteps
  BY DEF Idle, PredictionSteps
<1>1. CASE ~CanDelete(p)
  BY <1>0, <1>1, RequestMoves DEF Delete
<1>2. CASE CanDelete(p)
  <2>1. /\ status' = [status EXCEPT ![p] = "DELETED"]
        /\ call' = [call EXCEPT ![p] = None]
        /\ req' = [req EXCEPT ![r] = next]
        /\ entries' = entries
        /\ ~HasEntry(p)
    BY <1>2 DEF Delete, CanDelete, Goes
  <2>2. \A q \in Predictions : q # p => status'[q] = status[q] /\ call'[q] = call[q]
    BY <2>1 DEF TypeOK
  <2>3. status'[p] = "DELETED" /\ call'[p] = None
    BY <2>1 DEF TypeOK
  <2>4. RowsHaveCalls'
    BY <2>2, <2>3 DEF EntryInvariant, RowsHaveCalls
  <2>5. \A q \in Requests : req'[q] = req[q] \/ req'[q].pc \notin PredictionSteps
    BY <2>1 DEF TypeOK
  <2>6. RequestsHoldIds'
    BY <2>2, <2>3, <2>5, IdsStillHeld
  <2>7. EntriesMatchPredictions' /\ OneEntryPerUser'
    BY <2>1, <2>2, <2>3, OneRowWritten
  <2> QED
    BY <2>4, <2>6, <2>7 DEF EntryInvariant
<1> QED
  BY <1>1, <1>2

\* The new PENDING prediction of enter has no entry, for no entry names a row
\* that was free.
LEMMA InsertKeepsEntries ==
  ASSUME TypeOK, EntryInvariant, NEW r \in Requests, EnterInsert(r)
  PROVE  EntryInvariant'
<1>0. req[r].user \in Users /\ req[r].market \in Markets
  BY DEF EnterInsert, At, TypeOK, RequestState, EnterSteps
<1>1. PICK p \in Predictions, c \in Calls :
        /\ status[p] = "FREE"
        /\ status' = [status EXCEPT ![p] = "PENDING"]
        /\ call' = [call EXCEPT ![p] = c]
        /\ c.user = req[r].user
  <2>1. PICK p \in Predictions, d \in Directions, c \in Confidences :
          /\ status[p] = "FREE"
          /\ status' = [status EXCEPT ![p] = "PENDING"]
          /\ call' = [call EXCEPT ![p] = [user |-> req[r].user, market |-> req[r].market,
                                          direction |-> d, confidence |-> c]]
    BY DEF EnterInsert
  <2>2. [user |-> req[r].user, market |-> req[r].market, direction |-> d, confidence |-> c] \in Calls
    BY <1>0, <2>1 DEF Calls
  <2> QED
    BY <2>1, <2>2
<1>2. req' = [req EXCEPT ![r] = Idle] /\ entries' = entries
  BY DEF EnterInsert, Goes
<1>3. \A q \in Predictions : q # p => status'[q] = status[q] /\ call'[q] = call[q]
  BY <1>1 DEF TypeOK
<1>4. status'[p] = "PENDING" /\ call'[p] # None
  <2>1. c # None
    BY <1>1, NoneAssumption
  <2> QED
    BY <1>1, <2>1 DEF TypeOK
<1>5. ~HasEntry(p)
  BY <1>1 DEF HasEntry, EntryInvariant, EntriesMatchPredictions
<1>6. RowsHaveCalls'
  BY <1>3, <1>4 DEF EntryInvariant, RowsHaveCalls
<1>7. \A q \in Requests : req'[q] = req[q] \/ req'[q].pc \notin PredictionSteps
  BY <1>2 DEF TypeOK, Idle, PredictionSteps
<1>8. RequestsHoldIds'
  BY <1>3, <1>4, <1>7, IdsStillHeld
<1>9. EntriesMatchPredictions' /\ OneEntryPerUser'
  BY <1>2, <1>3, <1>4, <1>5, OneRowWritten
<1> QED
  BY <1>6, <1>8, <1>9 DEF EntryInvariant

\* What appending does to a sequence.
LEMMA Appended ==
  ASSUME NEW S, NEW s \in Seq(S), NEW x \in S
  PROVE  /\ DOMAIN Append(s, x) = 1 .. Len(s) + 1
         /\ DOMAIN s = 1 .. Len(s)
         /\ Len(s) \in Nat
         /\ \A i \in 1 .. Len(s) : Append(s, x)[i] = s[i]
         /\ Append(s, x)[Len(s) + 1] = x
OBVIOUS

\* The one entry of a PENDING prediction is added, for a user who had none in
\* this battle.
LEMMA EntryAdded ==
  ASSUME TypeOK, EntryInvariant, NEW r \in Requests, NEW p \in Predictions, NEW m \in Markets,
         call[p] \in Calls, call[p].market = m, status[p] = "PENDING",
         ~HasEntered(call[p].user, m),
         status' = [status EXCEPT ![p] = "LOCKED"],
         entries' = [entries EXCEPT ![m] = Append(@, p)],
         call' = call, req' = [req EXCEPT ![r] = Idle]
  PROVE  EntryInvariant'
<1>1. \A q \in Predictions : status'[q] = IF q = p THEN "LOCKED" ELSE status[q]
  BY DEF TypeOK
<1>2. \A x \in Markets : entries'[x] = IF x = m THEN Append(entries[m], p) ELSE entries[x]
  BY DEF TypeOK
<1>3. entries[m] \in Seq(Predictions)
  BY DEF TypeOK
<1>4. /\ DOMAIN entries'[m] = 1 .. Len(entries[m]) + 1
      /\ DOMAIN entries[m] = 1 .. Len(entries[m])
      /\ Len(entries[m]) \in Nat
      /\ \A i \in 1 .. Len(entries[m]) : entries'[m][i] = entries[m][i]
      /\ entries'[m][Len(entries[m]) + 1] = p
  <2>1. entries'[m] = Append(entries[m], p)
    BY <1>2
  <2>2. /\ DOMAIN Append(entries[m], p) = 1 .. Len(entries[m]) + 1
        /\ DOMAIN entries[m] = 1 .. Len(entries[m])
        /\ Len(entries[m]) \in Nat
        /\ \A i \in 1 .. Len(entries[m]) : Append(entries[m], p)[i] = entries[m][i]
        /\ Append(entries[m], p)[Len(entries[m]) + 1] = p
    BY <1>3, Appended
  <2> QED
    BY <2>1, <2>2, Zenon
<1>5. \A x \in Markets : EntrySet(x)' = IF x = m THEN EntrySet(m) \cup {p} ELSE EntrySet(x)
  <2>1. EntrySet(m)' \subseteq EntrySet(m) \cup {p}
    <3> SUFFICES ASSUME NEW i \in 1 .. Len(entries[m]) + 1
                 PROVE  entries'[m][i] \in EntrySet(m) \cup {p}
      BY <1>4 DEF EntrySet
    <3>1. CASE i = Len(entries[m]) + 1
      BY <1>4, <3>1
    <3>2. CASE i \in 1 .. Len(entries[m])
      BY <1>4, <3>2 DEF EntrySet
    <3> QED
      BY <1>4, <3>1, <3>2
  <2>2. EntrySet(m) \subseteq EntrySet(m)'
    <3> SUFFICES ASSUME NEW i \in 1 .. Len(entries[m]) PROVE entries[m][i] \in EntrySet(m)'
      BY <1>4 DEF EntrySet
    <3>1. i \in DOMAIN entries'[m] /\ entries'[m][i] = entries[m][i]
      BY <1>4
    <3> QED
      BY <3>1 DEF EntrySet
  <2>3. p \in EntrySet(m)'
    <3>1. Len(entries[m]) + 1 \in DOMAIN entries'[m]
      BY <1>4
    <3> QED
      BY <1>4, <3>1 DEF EntrySet
  <2>4. EntrySet(m)' = EntrySet(m) \cup {p}
    BY <2>1, <2>2, <2>3
  <2>5. ASSUME NEW x \in Markets, x # m PROVE EntrySet(x)' = EntrySet(x)
    BY <1>2, <2>5 DEF EntrySet
  <2> QED
    BY <2>4, <2>5
<1>6. RowsHaveCalls'
  BY <1>1 DEF EntryInvariant, RowsHaveCalls
<1>7. RequestsHoldIds'
  BY <1>1, IdsStillHeld DEF TypeOK, Idle, PredictionSteps
<1>8. EntriesMatchPredictions'
  <2>1. ASSUME NEW x \in Markets, NEW q \in EntrySet(x)'
        PROVE  status'[q] = "LOCKED" /\ call'[q].market = x
    <3>1. q \in EntrySet(x) \/ (x = m /\ q = p)
      BY <1>5
    <3>2. q \in EntrySet(x) => q \in Predictions
      BY DEF EntrySet, TypeOK
    <3> QED
      BY <1>1, <3>1, <3>2 DEF EntryInvariant, EntriesMatchPredictions
  <2>2. ASSUME NEW q \in Predictions, status'[q] = "LOCKED"
        PROVE  q \in EntrySet(call[q].market)'
    <3>1. CASE q = p
      BY <1>5, <3>1 DEF EntrySet
    <3>2. CASE q # p
      <4>1. call[q].market \in Markets /\ q \in EntrySet(call[q].market)
        BY <1>1, <2>2, <3>2, LockedHasEntry
      <4> QED
        BY <1>5, <4>1 DEF EntrySet
    <3> QED
      BY <3>1, <3>2
  <2> QED
    BY <2>1, <2>2 DEF EntriesMatchPredictions
<1>9. OneEntryPerUser'
  <2> SUFFICES ASSUME NEW x \in Markets, NEW i \in DOMAIN entries'[x], NEW j \in DOMAIN entries'[x],
                      call[entries'[x][i]].user = call[entries'[x][j]].user
               PROVE  i = j
    BY DEF OneEntryPerUser
  <2>1. CASE x # m
    BY <1>2, <2>1 DEF EntryInvariant, OneEntryPerUser
  <2>2. CASE x = m
    <3>1. \A k \in 1 .. Len(entries[m]) : call[entries[m][k]].user # call[p].user
      BY <1>4 DEF HasEntered, EntrySet
    <3>2. \A k, l \in 1 .. Len(entries[m]) :
            call[entries[m][k]].user = call[entries[m][l]].user => k = l
      BY <1>4 DEF EntryInvariant, OneEntryPerUser
    <3>3. CASE i = Len(entries[m]) + 1 /\ j \in 1 .. Len(entries[m])
      BY <1>4, <2>2, <3>1, <3>3
    <3>4. CASE j = Len(entries[m]) + 1 /\ i \in 1 .. Len(entries[m])
      BY <1>4, <2>2, <3>1, <3>4
    <3>5. CASE i \in 1 .. Len(entries[m]) /\ j \in 1 .. Len(entries[m])
      BY <1>4, <2>2, <3>2, <3>5
    <3> QED
      BY <1>4, <2>2, <3>3, <3>4, <3>5
  <2> QED
    BY <2>1, <2>2
<1> QED
  BY <1>6, <1>7, <1>8, <1>9 DEF EntryInvariant

\* The transaction of confirmEntry does that, or rolls back.
LEMMA ConfirmKeepsEntries ==
  ASSUME TypeOK, EntryInvariant, NEW r \in Requests, ConfirmCommit(r)
  PROVE  EntryInvariant'
<1>1. PICK p \in Predictions : p = req[r].prediction /\ status[p] # "FREE"
  BY DEF ConfirmCommit, At, TypeOK, RequestState, PredictionSteps, EntryInvariant, RequestsHoldIds
<1>2. CASE ~CanConfirm(p)
  <2>1. Idle.pc \notin PredictionSteps
    BY DEF Idle, PredictionSteps
  <2> QED
    BY <1>1, <1>2, <2>1, RequestMoves DEF ConfirmCommit
<1>3. CASE CanConfirm(p)
  <2>1. status[p] # "DELETED" /\ ~HasEntry(p) /\ ~HasEntered(call[p].user, call[p].market)
    BY <1>3 DEF CanConfirm, CanCreateEntry
  <2>2. call[p] \in Calls /\ status[p] \in {"PENDING", "LOCKED"}
    BY <1>1, <2>1 DEF TypeOK, RowStatus, EntryInvariant, RowsHaveCalls
  <2>3. PICK m \in Markets : call[p].market = m
    BY <2>2 DEF Calls
  <2>4. status[p] = "PENDING"
    BY <2>1, <2>2, LockedHasEntry DEF HasEntry
  <2>5. /\ status' = [status EXCEPT ![p] = "LOCKED"]
        /\ entries' = [entries EXCEPT ![m] = Append(@, p)]
        /\ call' = call
        /\ req' = [req EXCEPT ![r] = Idle]
    BY <1>1, <1>3, <2>3 DEF ConfirmCommit, Goes
  <2> QED
    BY <2>1, <2>2, <2>3, <2>4, <2>5, EntryAdded
<1> QED
  BY <1>2, <1>3

LEMMA EntryStep ==
  ASSUME TypeOK, EntryInvariant, [Next]_vars
  PROVE  EntryInvariant'
<1> USE DEF world, rows
<1>0. Idle.pc \notin PredictionSteps
  BY DEF Idle, PredictionSteps
<1>1. CASE UNCHANGED <<status, call, entries, req>>
  BY <1>1, EntryRowsUntouched DEF EntryInvariant, RequestsHoldIds
<1>2. ASSUME NEW r \in Requests, NEW u \in Users, NEW m \in Markets, EnterBegin(r, u, m)
      PROVE  EntryInvariant'
  BY <1>2, RequestMoves DEF EnterBegin, PredictionSteps
<1>3. ASSUME NEW r \in Requests, EnterFindBattle(r) PROVE EntryInvariant'
  BY <1>3, <1>0, RequestMoves DEF EnterFindBattle, TypeOK, RequestState, PredictionSteps
<1>4. ASSUME NEW r \in Requests, EnterCreateBattle(r) PROVE EntryInvariant'
  <2> DEFINE s == [req[r] EXCEPT !.pc = "checkEntry"]
  <2>1. s.pc \notin PredictionSteps
    BY DEF TypeOK, RequestState, PredictionSteps
  <2>2. Goes(r, Idle) \/ Goes(r, s)
    BY <1>4 DEF EnterCreateBattle
  <2> QED
    BY <1>4, <1>0, <2>1, <2>2, RequestMoves DEF EnterCreateBattle
<1>5. ASSUME NEW r \in Requests, EnterCheckEntry(r) PROVE EntryInvariant'
  <2> DEFINE s == [req[r] EXCEPT !.pc = "findPending"]
  <2>1. s.pc \notin PredictionSteps
    BY DEF TypeOK, RequestState, PredictionSteps
  <2>2. Goes(r, Idle) \/ Goes(r, s)
    BY <1>5 DEF EnterCheckEntry
  <2> QED
    BY <1>5, <1>0, <2>1, <2>2, RequestMoves DEF EnterCheckEntry
<1>6. ASSUME NEW r \in Requests, EnterFindPending(r) PROVE EntryInvariant'
  <2>1. ASSUME NEW p \in Predictions, status[p] = "PENDING",
               Goes(r, [req[r] EXCEPT !.pc = "deletePending", !.prediction = p])
        PROVE  EntryInvariant'
    <3>1. [req[r] EXCEPT !.pc = "deletePending", !.prediction = p].prediction = p
      BY DEF TypeOK, RequestState
    <3> QED
      BY <1>6, <2>1, <3>1, RequestMoves DEF EnterFindPending
  <2>2. CASE Goes(r, [req[r] EXCEPT !.pc = "insert"])
    <3>1. [req[r] EXCEPT !.pc = "insert"].pc \notin PredictionSteps
      BY DEF TypeOK, RequestState, PredictionSteps
    <3> QED
      BY <1>6, <2>2, <3>1, RequestMoves DEF EnterFindPending
  <2> QED
    BY <1>6, <2>1, <2>2 DEF EnterFindPending, IsPendingOf
<1>7. ASSUME NEW r \in Requests, EnterDeletePending(r) PROVE EntryInvariant'
  <2>1. req[r].prediction \in Predictions
    BY <1>7 DEF EnterDeletePending, At, TypeOK, RequestState, PredictionSteps
  <2>2. [req[r] EXCEPT !.pc = "insert", !.prediction = None].pc \notin PredictionSteps
    BY DEF TypeOK, RequestState, PredictionSteps
  <2> QED
    BY <1>7, <2>1, <2>2, DeleteKeepsEntries DEF EnterDeletePending
<1>8. ASSUME NEW r \in Requests, EnterInsert(r) PROVE EntryInvariant'
  BY <1>8, InsertKeepsEntries
<1>9. ASSUME NEW r \in Requests, NEW p \in Predictions, ConfirmBegin(r, p)
      PROVE  EntryInvariant'
  BY <1>9, RequestMoves DEF ConfirmBegin, Idle, PredictionSteps
<1>10. ASSUME NEW r \in Requests, ConfirmCommit(r) PROVE EntryInvariant'
  BY <1>10, ConfirmKeepsEntries
<1>11. ASSUME NEW r \in Requests, NEW p \in Predictions, AbandonBegin(r, p)
       PROVE  EntryInvariant'
  BY <1>11, RequestMoves DEF AbandonBegin, Idle, PredictionSteps
<1>12. ASSUME NEW r \in Requests, AbandonCommit(r) PROVE EntryInvariant'
  <2>1. req[r].prediction \in Predictions
    BY <1>12 DEF AbandonCommit, At, TypeOK, RequestState, PredictionSteps
  <2> QED
    BY <1>12, <1>0, <2>1, DeleteKeepsEntries DEF AbandonCommit
<1>13. ASSUME NEW r \in Requests, RequestFails(r) PROVE EntryInvariant'
  BY <1>13, <1>0, RequestMoves DEF RequestFails
<1>14. CASE Crash
  BY <1>14, <1>0, EntryRowsUntouched DEF Crash
<1>15. CASE World \/ Tick \/ UNCHANGED vars
  BY <1>15, <1>1 DEF World, ReachLock, CloseTrading, ReportOutcome, Tick, LockBegin, LockOne,
     TickAborts, ResolveBegin, ResolveVoid, ResolveSettle, ResolveSkip, TickEnd, vars
<1> QED
  BY <1>2, <1>3, <1>4, <1>5, <1>6, <1>7, <1>8, <1>9, <1>10, <1>11, <1>12, <1>13, <1>14, <1>15
     DEF Next, Enter, Confirm, Abandon

LEMMA EntryCorrect == Spec => []EntryInvariant
<1>1. Init => EntryInvariant
  BY DEF Init, EntryInvariant, RowsHaveCalls, RequestsHoldIds, EntriesMatchPredictions,
     OneEntryPerUser, EntrySet, Idle, PredictionSteps
<1>2. TypeOK /\ EntryInvariant /\ [Next]_vars => EntryInvariant'
  BY EntryStep
<1> QED
  BY <1>1, <1>2, TypeCorrect, PTL DEF Spec

\* However the requests of any number of users interleave, fail or crash, the
\* entries of every battle are those of LOCKED predictions made for it, and no
\* user has two in one battle.
THEOREM EntriesCorrect == Spec => [](EntriesMatchPredictions /\ OneEntryPerUser)
<1>1. EntryInvariant => EntriesMatchPredictions /\ OneEntryPerUser
  BY DEF EntryInvariant
<1> QED
  BY <1>1, EntryCorrect, PTL

----------------------------------------------------------------------------
\* Settlement.

\* Steps of the world and of requests: entries are only added, and a battle
\* at most appears.
LEMMA WorkerNotInvolved ==
  ASSUME TypeOK, SettlementInvariant, UNCHANGED <<events, worker>>,
         \A m \in Markets : Len(entries[m]) <= Len(entries'[m]) /\ Len(entries'[m]) \in Nat,
         \A m \in Markets : battle'[m].status = battle[m].status
                            \/ (battle[m].status = "NONE" /\ battle'[m].status = "OPEN")
  PROVE  SettlementInvariant'
<1>1. worker.todo \subseteq Markets /\ \A m \in Markets : worker.seen[m] \in Nat /\ Len(entries[m]) \in Nat
  BY DEF TypeOK, WorkerState
<1>2. BatchStillValid'
  BY <1>1 DEF SettlementInvariant, BatchStillValid
<1>3. LockedHasQuorum'
  BY <1>1, MinEntrantsAssumption DEF SettlementInvariant, LockedHasQuorum
<1>4. OnlyResolvedScores'
  BY DEF SettlementInvariant, OnlyResolvedScores, Settled
<1>5. ScoredOnce'
  BY DEF SettlementInvariant, ScoredOnce
<1> QED
  BY <1>2, <1>3, <1>4, <1>5 DEF SettlementInvariant

\* A worker step that writes no row and reads none it does not keep true.
LEMMA WorkerReads ==
  ASSUME TypeOK, SettlementInvariant, UNCHANGED <<battle, entries, events>>, BatchStillValid'
  PROVE  SettlementInvariant'
BY DEF SettlementInvariant, LockedHasQuorum, OnlyResolvedScores, Settled, ScoredOnce

LEMMA BatchValid ==
  ASSUME TypeOK, UNCHANGED <<battle, entries>>,
         NEW pc \in {"lock", "resolve"}, NEW s \in BattleStatus,
         s = (IF pc = "lock" THEN "OPEN" ELSE "LOCKED"),
         worker' = Batch(pc, InStatus(s))
  PROVE  BatchStillValid'
BY DEF BatchStillValid, Batch, InStatus, TypeOK

\* The worker moves the battle m it had read from its old status on, and takes
\* it off its list; nobody is scored.
LEMMA WorkerMoves ==
  ASSUME TypeOK, SettlementInvariant, UNCHANGED <<entries, events>>,
         NEW m \in worker.todo, worker.pc \in {"lock", "resolve"}, Done(m),
         NEW s \in BattleStatus, NEW o, Close(m, s, o),
         s = "VOIDED" \/ (s = "LOCKED" /\ Len(entries[m]) >= MinEntrants)
  PROVE  SettlementInvariant'
<1>1. m \in Markets /\ worker.todo \subseteq Markets /\ battle[m].status \in {"OPEN", "LOCKED"}
  BY DEF TypeOK, WorkerState, SettlementInvariant, BatchStillValid
<1>2. /\ worker'.todo = worker.todo \ {m}
      /\ worker'.pc = worker.pc
      /\ worker'.seen = worker.seen
  BY DEF Done, TypeOK, WorkerState
<1>3. \A x \in Markets : battle'[x].status = IF x = m THEN s ELSE battle[x].status
  BY DEF Close, TypeOK
<1>4. BatchStillValid'
  BY <1>1, <1>2, <1>3 DEF SettlementInvariant, BatchStillValid
<1>5. LockedHasQuorum'
  BY <1>1, <1>3 DEF SettlementInvariant, LockedHasQuorum
<1>6. OnlyResolvedScores'
  BY <1>1, <1>3 DEF SettlementInvariant, OnlyResolvedScores, Settled
<1>7. ScoredOnce'
  BY DEF SettlementInvariant, ScoredOnce
<1> QED
  BY <1>4, <1>5, <1>6, <1>7 DEF SettlementInvariant

\* Appending to the rating events of some users an event of a battle none of
\* them has an event of.
LEMMA EventsAppended ==
  ASSUME TypeOK, ScoredOnce, NEW m \in Markets, NEW who \in SUBSET Users,
         NEW new \in [Users -> EventRows], \A u \in Users : new[u].battle = m,
         \A u \in Users : ~Settled(u, m),
         events' = [u \in Users |-> IF u \in who THEN Append(events[u], new[u]) ELSE events[u]]
  PROVE  /\ ScoredOnce'
         /\ \A u \in Users, x \in Markets : Settled(u, x)' => Settled(u, x) \/ x = m
<1> SUFFICES ASSUME NEW u \in Users
             PROVE  /\ \A i, j \in DOMAIN events'[u] : events'[u][i].battle = events'[u][j].battle => i = j
                    /\ \A x \in Markets : Settled(u, x)' => Settled(u, x) \/ x = m
  BY DEF ScoredOnce
<1>1. CASE u \notin who
  <2>1. events'[u] = events[u]
    BY <1>1
  <2> QED
    BY <2>1 DEF ScoredOnce, Settled
<1>2. CASE u \in who
  <2>1. events'[u] = Append(events[u], new[u])
    BY <1>2
  <2>2. events[u] \in Seq(EventRows) /\ new[u] \in EventRows
    BY DEF TypeOK
  <2>3. /\ DOMAIN Append(events[u], new[u]) = 1 .. Len(events[u]) + 1
        /\ DOMAIN events[u] = 1 .. Len(events[u])
        /\ Len(events[u]) \in Nat
        /\ \A i \in 1 .. Len(events[u]) : Append(events[u], new[u])[i] = events[u][i]
        /\ Append(events[u], new[u])[Len(events[u]) + 1] = new[u]
    BY <2>2, Appended
  <2>4. /\ DOMAIN events'[u] = 1 .. Len(events[u]) + 1
        /\ \A i \in 1 .. Len(events[u]) : events'[u][i] = events[u][i]
        /\ events'[u][Len(events[u]) + 1] = new[u]
    BY <2>1, <2>3, Zenon
  <2>5. \A i \in 1 .. Len(events[u]) : events[u][i].battle # m
    BY <2>3 DEF Settled
  <2>6. \A i, j \in 1 .. Len(events[u]) : events[u][i].battle = events[u][j].battle => i = j
    BY <2>3 DEF ScoredOnce
  <2>7. ASSUME NEW i \in DOMAIN events'[u], NEW j \in DOMAIN events'[u],
               events'[u][i].battle = events'[u][j].battle
        PROVE  i = j
    <3>1. CASE i = Len(events[u]) + 1 /\ j \in 1 .. Len(events[u])
      BY <2>4, <2>5, <2>7, <3>1
    <3>2. CASE j = Len(events[u]) + 1 /\ i \in 1 .. Len(events[u])
      BY <2>4, <2>5, <2>7, <3>2
    <3>3. CASE i \in 1 .. Len(events[u]) /\ j \in 1 .. Len(events[u])
      BY <2>4, <2>6, <2>7, <3>3
    <3> QED
      BY <2>3, <2>4, <3>1, <3>2, <3>3
  <2>8. ASSUME NEW x \in Markets, Settled(u, x)', x # m
        PROVE  Settled(u, x)
    <3>1. PICK i \in DOMAIN events'[u] : events'[u][i].battle = x
      BY <2>8 DEF Settled
    <3>2. i \in 1 .. Len(events[u])
      BY <2>3, <2>4, <2>8, <3>1
    <3> QED
      BY <2>3, <2>4, <3>1, <3>2 DEF Settled
  <2> QED
    BY <2>7, <2>8
<1> QED
  BY <1>1, <1>2

\* The transaction of resolveOne scores a LOCKED battle, which therefore was
\* not scored before, and leaves it RESOLVED.
LEMMA SettleKeeps ==
  ASSUME TypeOK, SettlementInvariant, NEW m \in Markets, ResolveSettle(m)
  PROVE  SettlementInvariant'
<1>1. m \in worker.todo /\ worker.pc = "resolve" /\ battle[m].status = "LOCKED"
  BY DEF ResolveSettle, SettlementInvariant, BatchStillValid
<1>2. /\ worker'.todo = worker.todo \ {m}
      /\ worker'.pc = worker.pc
      /\ worker'.seen = worker.seen
      /\ worker.todo \subseteq Markets
  BY DEF ResolveSettle, Done, TypeOK, WorkerState
<1>3. \A x \in Markets : battle'[x].status = IF x = m THEN "RESOLVED" ELSE battle[x].status
  BY DEF ResolveSettle, Resolved, Close, TypeOK
<1>4. entries' = entries
  BY DEF ResolveSettle
<1>5. PICK new \in [Users -> EventRows] :
        /\ \A u \in Users : new[u].battle = m
        /\ events' = [u \in Users |->
             IF u \in OnRoster(m) \cap Users THEN Append(events[u], new[u]) ELSE events[u]]
  <2> DEFINE of(u) == Placement(Roster(m), Winner(m), IndexOf(m, u))
             event(u) == [battle |-> m, placement |-> of(u),
                          before |-> worker.rating[u], after |-> worker.rating[u] \cup {m}]
  <2>1. \A u : of(u) \in Nat
    BY PlacementType DEF TypeOK, WorkerState, Roster
  <2>2. events' = [u \in Users |->
          IF u \in OnRoster(m) THEN Append(events[u], event(u)) ELSE events[u]]
    BY DEF ResolveSettle
  <2> HIDE DEF of
  <2>3. \A u \in Users : event(u) \in EventRows /\ event(u).battle = m
    BY <2>1 DEF EventRows, TypeOK, WorkerState
  <2> HIDE DEF event
  <2>4. [u \in Users |-> event(u)] \in [Users -> EventRows]
    BY <2>3
  <2> QED
    BY <2>2, <2>3, <2>4
<1>6. \A u \in Users : ~Settled(u, m)
  BY <1>1 DEF SettlementInvariant, OnlyResolvedScores
<1>7. /\ ScoredOnce'
      /\ \A u \in Users, x \in Markets : Settled(u, x)' => Settled(u, x) \/ x = m
  BY <1>5, <1>6, EventsAppended DEF SettlementInvariant
<1>8. BatchStillValid'
  BY <1>1, <1>2, <1>3, <1>4 DEF SettlementInvariant, BatchStillValid
<1>9. LockedHasQuorum'
  BY <1>1, <1>3, <1>4 DEF SettlementInvariant, LockedHasQuorum
<1>10. OnlyResolvedScores'
  BY <1>3, <1>7 DEF SettlementInvariant, OnlyResolvedScores
<1> QED
  BY <1>7, <1>8, <1>9, <1>10 DEF SettlementInvariant

LEMMA SettlementStep ==
  ASSUME TypeOK, SettlementInvariant, [Next]_vars
  PROVE  SettlementInvariant'
<1> USE DEF world, rows
<1>0. \A m \in Markets : Len(entries[m]) \in Nat
  BY DEF TypeOK
<1>1. CASE UNCHANGED <<battle, entries, events, worker>>
  BY <1>0, <1>1, WorkerNotInvolved
<1>2. ASSUME NEW r \in Requests, EnterCreateBattle(r) PROVE SettlementInvariant'
  <2>1. UNCHANGED <<entries, events, worker>>
    BY <1>2 DEF EnterCreateBattle
  <2>2. \A m \in Markets : battle'[m].status = battle[m].status
                           \/ (battle[m].status = "NONE" /\ battle'[m].status = "OPEN")
    <3>1. \/ UNCHANGED battle
          \/ /\ battle' = [battle EXCEPT ![req[r].market].status = "OPEN"]
             /\ battle[req[r].market].status = "NONE"
      BY <1>2 DEF EnterCreateBattle
    <3> QED
      BY <3>1 DEF TypeOK
  <2> QED
    BY <1>0, <2>1, <2>2, WorkerNotInvolved
<1>3. ASSUME NEW r \in Requests, ConfirmCommit(r) PROVE SettlementInvariant'
  <2>1. UNCHANGED <<battle, events, worker>>
    BY <1>3 DEF ConfirmCommit
  <2>2. req[r].prediction \in Predictions
    BY <1>3 DEF ConfirmCommit, At, TypeOK, RequestState, PredictionSteps
  <2>3. \A m \in Markets : Len(Append(entries[m], req[r].prediction)) = Len(entries[m]) + 1
    BY <2>2 DEF TypeOK
  <2>4. \A m \in Markets : entries'[m] = entries[m] \/ entries'[m] = Append(entries[m], req[r].prediction)
    BY <1>3 DEF ConfirmCommit, TypeOK
  <2>5. \A m \in Markets : Len(entries[m]) <= Len(entries'[m]) /\ Len(entries'[m]) \in Nat
    BY <1>0, <2>3, <2>4
  <2> QED
    BY <2>1, <2>5, WorkerNotInvolved
<1>4. CASE LockBegin
  BY <1>4, BatchValid, WorkerReads DEF LockBegin, LockBatch, BattleStatus
<1>5. ASSUME NEW m \in Markets, NEW rpcOk \in BOOLEAN, LockOne(m, rpcOk)
      PROVE  SettlementInvariant'
  <2>1. /\ UNCHANGED <<entries, events>> /\ Done(m)
        /\ m \in worker.todo /\ worker.pc = "lock"
    BY <1>5 DEF LockOne
  <2>2. CASE UNCHANGED battle
    <3>1. BatchStillValid'
      BY <2>1, <2>2 DEF SettlementInvariant, BatchStillValid, Done, TypeOK, WorkerState
    <3> QED
      BY <2>1, <2>2, <3>1, WorkerReads
  <2>3. CASE Close(m, "VOIDED", "insufficient_entrants")
    BY <2>1, <2>3, WorkerMoves DEF BattleStatus
  <2>4. CASE ~Insufficient(worker.seen[m]) /\ Close(m, "LOCKED", "none")
    <3>1. Len(entries[m]) >= MinEntrants
      BY <1>0, <2>1, <2>4, MinEntrantsAssumption
         DEF Insufficient, SettlementInvariant, BatchStillValid, TypeOK, WorkerState
    <3> QED
      BY <2>1, <2>4, <3>1, WorkerMoves DEF BattleStatus
  <2> QED
    BY <1>5, <2>2, <2>3, <2>4 DEF LockOne
<1>6. CASE TickAborts \/ TickEnd \/ Crash
  <2>1. BatchStillValid'
    BY <1>6 DEF TickAborts, TickEnd, Crash, WorkerIdle, BatchStillValid
  <2> QED
    BY <1>6, <2>1, WorkerReads DEF TickAborts, TickEnd, Crash
<1>7. CASE ResolveBegin
  BY <1>7, BatchValid, WorkerReads DEF ResolveBegin, ResolveBatch, BattleStatus
<1>8. ASSUME NEW m \in Markets, ResolveVoid(m) PROVE SettlementInvariant'
  BY <1>8, WorkerMoves DEF ResolveVoid, BattleStatus
<1>9. ASSUME NEW m \in Markets, ResolveSettle(m) PROVE SettlementInvariant'
  BY <1>9, SettleKeeps
<1>10. ASSUME NEW m \in Markets, ResolveSkip(m) PROVE SettlementInvariant'
  <2>1. BatchStillValid'
    BY <1>10 DEF ResolveSkip, SettlementInvariant, BatchStillValid, Done, TypeOK, WorkerState
  <2> QED
    BY <1>10, <2>1, WorkerReads DEF ResolveSkip
<1>11. CASE World \/ UNCHANGED vars
  BY <1>1, <1>11 DEF World, ReachLock, CloseTrading, ReportOutcome, vars
<1>12. ASSUME NEW r \in Requests, Abandon(r) \/ RequestFails(r) \/ Confirm(r)
       PROVE  SettlementInvariant'
  BY <1>1, <1>3, <1>12 DEF Abandon, AbandonBegin, AbandonCommit, Delete, RequestFails, Confirm, ConfirmBegin
<1>13. ASSUME NEW r \in Requests, Enter(r) PROVE SettlementInvariant'
  BY <1>1, <1>2, <1>13 DEF Enter, EnterBegin, EnterFindBattle, EnterCheckEntry, EnterFindPending,
     EnterDeletePending, Delete, EnterInsert
<1> QED
  BY <1>4, <1>5, <1>6, <1>7, <1>8, <1>9, <1>10, <1>11, <1>12, <1>13 DEF Next, Tick

LEMMA SettlementInit ==
  ASSUME Init PROVE SettlementInvariant
BY DEF Init, SettlementInvariant, BatchStillValid, LockedHasQuorum, OnlyResolvedScores,
   Settled, ScoredOnce, WorkerIdle

LEMMA SettlementCorrect == Spec => []SettlementInvariant
<1>1. Init => SettlementInvariant
  BY SettlementInit
<1>2. TypeOK /\ SettlementInvariant /\ [Next]_vars => SettlementInvariant'
  BY SettlementStep
<1> QED
  BY <1>1, <1>2, TypeCorrect, PTL DEF Spec

\* A battle is locked, and resolved, with its quorum only, though the worker
\* judges by an older count of the entries.
THEOREM QuorumCorrect == Spec => []LockedHasQuorum
<1>1. SettlementInvariant => LockedHasQuorum
  BY DEF SettlementInvariant
<1> QED
  BY <1>1, SettlementCorrect, PTL

\* Whatever ticks abort, crash and are repeated, only a RESOLVED battle has
\* scored anyone, and none has scored anyone twice.
THEOREM ScoringCorrect == Spec => [](OnlyResolvedScores /\ ScoredOnce)
<1>1. SettlementInvariant => OnlyResolvedScores /\ ScoredOnce
  BY DEF SettlementInvariant
<1> QED
  BY <1>1, SettlementCorrect, PTL

\* What a step may do to the stages of the battles: the unconditional updates
\* of the worker rest on BatchStillValid.
StatusMoves ==
  \A m \in Markets :
    <<battle[m].status, battle'[m].status>> \in
      {<<s, s>> : s \in BattleStatus} \cup
      {<<"NONE", "OPEN">>, <<"OPEN", "LOCKED">>, <<"OPEN", "VOIDED">>,
       <<"LOCKED", "RESOLVED">>, <<"LOCKED", "VOIDED">>}

LEMMA LifeCycleStep ==
  ASSUME TypeOK, SettlementInvariant, [Next]_vars
  PROVE  StatusMoves
<1> USE DEF world, rows, StatusMoves
<1>0. \A m \in Markets : battle[m].status \in BattleStatus
  BY DEF TypeOK
<1>1. CASE UNCHANGED battle
  BY <1>0, <1>1
<1>2. ASSUME NEW r \in Requests, EnterCreateBattle(r) PROVE StatusMoves
  <2>1. \/ battle' = battle
        \/ /\ battle[req[r].market].status = "NONE"
           /\ battle' = [battle EXCEPT ![req[r].market].status = "OPEN"]
    BY <1>2 DEF EnterCreateBattle
  <2>2. battle \in [Markets -> [status : BattleStatus, outcome : Outcome]]
    BY DEF TypeOK
  <2>3. ASSUME NEW m \in Markets
        PROVE  \/ battle'[m].status = battle[m].status
               \/ battle[m].status = "NONE" /\ battle'[m].status = "OPEN"
    BY <2>1, <2>2
  <2> QED
    BY <1>0, <2>3
<1>3. ASSUME NEW m \in Markets, NEW rpcOk \in BOOLEAN, LockOne(m, rpcOk) PROVE StatusMoves
  <2>1. battle[m].status = "OPEN"
    BY <1>3 DEF LockOne, SettlementInvariant, BatchStillValid
  <2>2. \/ battle' = battle
        \/ Close(m, "VOIDED", "insufficient_entrants")
        \/ Close(m, "LOCKED", "none")
    BY <1>3 DEF LockOne
  <2>3. CASE Close(m, "VOIDED", "insufficient_entrants")
    BY <1>0, <2>1, <2>3 DEF Close, TypeOK
  <2>4. CASE Close(m, "LOCKED", "none")
    BY <1>0, <2>1, <2>4 DEF Close, TypeOK
  <2> QED
    BY <1>1, <2>2, <2>3, <2>4
<1>4. ASSUME NEW m \in Markets, ResolveVoid(m) PROVE StatusMoves
  <2>1. battle[m].status = "LOCKED"
    BY <1>4 DEF ResolveVoid, SettlementInvariant, BatchStillValid
  <2> QED
    BY <1>0, <1>4, <2>1 DEF ResolveVoid, Close, TypeOK
<1>5. ASSUME NEW m \in Markets, ResolveSettle(m) PROVE StatusMoves
  <2>1. battle[m].status = "LOCKED"
    BY <1>5 DEF ResolveSettle, SettlementInvariant, BatchStillValid
  <2> QED
    BY <1>0, <1>5, <2>1 DEF ResolveSettle, Resolved, Close, TypeOK
<1> HIDE DEF StatusMoves
<1>6. CASE World \/ TickAborts \/ TickEnd \/ Crash \/ LockBegin \/ ResolveBegin \/ UNCHANGED vars
  BY <1>1, <1>6 DEF World, ReachLock, CloseTrading, ReportOutcome, TickAborts, TickEnd, Crash,
     LockBegin, ResolveBegin, vars
<1>7. ASSUME NEW r \in Requests, Abandon(r) \/ RequestFails(r) \/ Confirm(r) PROVE StatusMoves
  BY <1>1, <1>7 DEF Abandon, AbandonBegin, AbandonCommit, Delete, RequestFails, Confirm,
     ConfirmBegin, ConfirmCommit
<1>8. ASSUME NEW r \in Requests, Enter(r) PROVE StatusMoves
  BY <1>1, <1>2, <1>8 DEF Enter, EnterBegin, EnterFindBattle, EnterCheckEntry, EnterFindPending,
     EnterDeletePending, Delete, EnterInsert
<1>9. ASSUME NEW m \in Markets, ResolveSkip(m) PROVE StatusMoves
  BY <1>1, <1>9 DEF ResolveSkip
<1> QED
  BY <1>3, <1>4, <1>5, <1>6, <1>7, <1>8, <1>9 DEF Next, Tick

\* A battle moves along its life cycle only, and never leaves RESOLVED or
\* VOIDED.
THEOREM LifeCycleCorrect == Spec => LifeCycle
<1>1. TypeOK /\ SettlementInvariant /\ [Next]_vars => [StatusMoves]_vars
  BY LifeCycleStep
<1> QED
  BY <1>1, TypeCorrect, SettlementCorrect, PTL DEF Spec, LifeCycle, StatusMoves

----------------------------------------------------------------------------
\* Placements.

\* The correct entries of a roster, and what they are placed.
Right(roster, n, w) == {i \in 1 .. n : IsCorrect(roster, w, i)}

\* Whoever is ahead is placed strictly better.
LEMMA AheadIsBetter ==
  ASSUME NEW n \in Nat, NEW roster, DOMAIN roster = 1 .. n,
         \A k \in 1 .. n : roster[k].confidence \in Int,
         NEW w, NEW i \in Right(roster, n, w), NEW j \in Right(roster, n, w),
         RanksAhead(roster, i, j)
  PROVE  Placement(roster, w, i) < Placement(roster, w, j)
<1>1. IsFiniteSet(1 .. n) /\ Ahead(roster, w, i) \subseteq 1 .. n
      /\ Ahead(roster, w, j) \subseteq 1 .. n
  BY FS_Interval DEF Ahead
<1>2. /\ IsFiniteSet(Ahead(roster, w, i)) /\ Cardinality(Ahead(roster, w, i)) \in Nat
      /\ IsFiniteSet(Ahead(roster, w, j)) /\ Cardinality(Ahead(roster, w, j)) \in Nat
  BY <1>1, FS_Subset, FS_CardinalityType
<1>3. Ahead(roster, w, i) \subseteq Ahead(roster, w, j)
  BY DEF Ahead, RanksAhead, Right
<1>4. i \in Ahead(roster, w, j) /\ i \notin Ahead(roster, w, i)
  BY DEF Ahead, RanksAhead, Right
<1>5. Cardinality(Ahead(roster, w, i)) < Cardinality(Ahead(roster, w, j))
  <2>1. /\ Cardinality(Ahead(roster, w, i)) <= Cardinality(Ahead(roster, w, j))
        /\ Cardinality(Ahead(roster, w, i)) # Cardinality(Ahead(roster, w, j))
    BY <1>2, <1>3, <1>4, FS_Subset
  <2> QED
    BY <1>2, <2>1
<1>6. Placement(roster, w, i) = 1 + Cardinality(Ahead(roster, w, i))
      /\ Placement(roster, w, j) = 1 + Cardinality(Ahead(roster, w, j))
  BY DEF Placement, Right
<1> QED
  BY <1>2, <1>5, <1>6

\* The correct entries are placed 1, 2, ... without gap or tie, by conviction
\* and then by priority, whatever the roster: what the sort of resolveOne does.
LEMMA Ranks ==
  ASSUME NEW n \in Nat, NEW roster, DOMAIN roster = 1 .. n,
         \A k \in 1 .. n : roster[k].confidence \in Int, NEW w
  PROVE  /\ IsFiniteSet(Right(roster, n, w)) /\ Cardinality(Right(roster, n, w)) \in Nat
         /\ {Placement(roster, w, i) : i \in Right(roster, n, w)}
              = 1 .. Cardinality(Right(roster, n, w))
         /\ \A i \in 1 .. n \ Right(roster, n, w) : Placement(roster, w, i) = 0
         /\ \A i, j \in Right(roster, n, w) :
              Placement(roster, w, i) < Placement(roster, w, j) => RanksAhead(roster, i, j)
         /\ \A i, j \in Right(roster, n, w) :
              Placement(roster, w, i) = Placement(roster, w, j) => i = j
<1> DEFINE R == Right(roster, n, w)
           place(i) == Placement(roster, w, i)
<1>1. IsFiniteSet(1 .. n) /\ R \subseteq 1 .. n
  BY FS_Interval DEF Right
<1>2. IsFiniteSet(R) /\ Cardinality(R) \in Nat
  BY <1>1, FS_Subset, FS_CardinalityType
<1>3. \A i \in 1 .. n \ R : place(i) = 0
  BY DEF Right, Placement
<1>4. \A i \in R : place(i) \in Nat
  BY PlacementType
<1>5. \A i, j \in R : i = j \/ RanksAhead(roster, i, j) \/ RanksAhead(roster, j, i)
  BY <1>1 DEF RanksAhead
<1>6. \A i, j \in R : RanksAhead(roster, i, j) => place(i) < place(j)
  BY AheadIsBetter
<1>7. \A i, j \in R : place(i) < place(j) => RanksAhead(roster, i, j)
  BY <1>4, <1>5, <1>6
<1>8. \A i, j \in R : place(i) = place(j) => i = j
  BY <1>4, <1>5, <1>6
<1>9. \A i \in R : place(i) \in 1 .. Cardinality(R)
  <2> SUFFICES ASSUME NEW i \in R PROVE place(i) \in 1 .. Cardinality(R)
    OBVIOUS
  <2>1. Ahead(roster, w, i) \subseteq R \ {i}
    BY DEF Ahead, Right, RanksAhead
  <2>2. IsFiniteSet(R \ {i}) /\ Cardinality(R \ {i}) = Cardinality(R) - 1
    BY <1>2, FS_RemoveElement
  <2>3. /\ Cardinality(Ahead(roster, w, i)) <= Cardinality(R) - 1
        /\ Cardinality(Ahead(roster, w, i)) \in Nat
    BY <2>1, <2>2, FS_Subset, FS_CardinalityType
  <2>4. place(i) = 1 + Cardinality(Ahead(roster, w, i))
    BY DEF Placement, Right
  <2> QED
    BY <1>2, <2>3, <2>4
<1> HIDE DEF R, place
<1>10. {place(i) : i \in R} = 1 .. Cardinality(R)
  <2> DEFINE T == 1 .. Cardinality(R)
             f == [i \in R |-> place(i)]
  <2>1. f \in Injection(R, T)
    BY <1>8, <1>9 DEF Injection, IsInjective
  <2>2. IsFiniteSet(T) /\ Cardinality(T) = Cardinality(R)
    BY <1>2, FS_Interval
  <2> HIDE DEF T
  <2>3. f \in Surjection(R, T)
    BY <2>1, <2>2, FS_Injection
  <2>4. \A t \in T : \E i \in R : place(i) = t
    BY <2>3 DEF Surjection
  <2> QED
    BY <1>9, <2>4 DEF T
<1> QED
  BY <1>2, <1>3, <1>7, <1>8, <1>10 DEF R, place

----------------------------------------------------------------------------
\* What the transaction of resolveOne does, for all who read its tables.

\* An event is appended for the users of who.
EventsGet(who, new) ==
  events' = [u \in Users |-> IF u \in who THEN Append(events[u], new[u]) ELSE events[u]]

\* Afterwards battle m, which the events are of, is settled for them too.
LEMMA SettledGrows ==
  ASSUME TypeOK, NEW m \in Markets, NEW who,
         NEW new \in [Users -> EventRows], \A u \in Users : new[u].battle = m,
         EventsGet(who, new)
  PROVE  \A u \in Users :
           /\ Len(events'[u]) = Len(events[u]) + (IF u \in who THEN 1 ELSE 0)
           /\ \A x \in Markets : Settled(u, x)' <=> Settled(u, x) \/ (x = m /\ u \in who)
<1> SUFFICES ASSUME NEW u \in Users
             PROVE  /\ Len(events'[u]) = Len(events[u]) + (IF u \in who THEN 1 ELSE 0)
                    /\ \A x \in Markets :
                         Settled(u, x)' <=> Settled(u, x) \/ (x = m /\ u \in who)
  OBVIOUS
<1>1. events[u] \in Seq(EventRows) /\ new[u] \in EventRows /\ Len(events[u]) \in Nat
  BY DEF TypeOK
<1>2. CASE u \notin who
  <2>1. events'[u] = events[u]
    BY <1>2 DEF EventsGet
  <2> QED
    BY <1>1, <1>2, <2>1 DEF Settled
<1>3. CASE u \in who
  <2>1. events'[u] = Append(events[u], new[u])
    BY <1>3 DEF EventsGet
  <2>2. /\ DOMAIN Append(events[u], new[u]) = 1 .. Len(events[u]) + 1
        /\ DOMAIN events[u] = 1 .. Len(events[u])
        /\ \A i \in 1 .. Len(events[u]) : Append(events[u], new[u])[i] = events[u][i]
        /\ Append(events[u], new[u])[Len(events[u]) + 1] = new[u]
    BY <1>1, Appended
  <2>3. /\ DOMAIN events'[u] = 1 .. Len(events[u]) + 1
        /\ \A i \in 1 .. Len(events[u]) : events'[u][i] = events[u][i]
        /\ events'[u][Len(events[u]) + 1] = new[u]
    BY <2>1, <2>2, Zenon
  <2>4. Len(events'[u]) = Len(events[u]) + 1
    BY <1>1, <2>1
  <2>5. ASSUME NEW x \in Markets, Settled(u, x)' PROVE Settled(u, x) \/ x = m
    <3>1. PICK i \in 1 .. Len(events[u]) + 1 : events'[u][i].battle = x
      BY <2>3, <2>5 DEF Settled
    <3>2. CASE i = Len(events[u]) + 1
      BY <2>3, <3>1, <3>2
    <3>3. CASE i \in 1 .. Len(events[u])
      BY <2>2, <2>3, <3>1, <3>3 DEF Settled
    <3> QED
      BY <1>1, <3>1, <3>2, <3>3
  <2>6. ASSUME NEW x \in Markets, Settled(u, x) PROVE Settled(u, x)'
    <3>1. PICK i \in 1 .. Len(events[u]) : events[u][i].battle = x
      BY <2>2, <2>6 DEF Settled
    <3>2. i \in DOMAIN events'[u] /\ events'[u][i].battle = x
      BY <1>1, <2>3, <3>1
    <3> QED
      BY <3>2 DEF Settled
  <2>7. Settled(u, m)'
    <3>1. Len(events[u]) + 1 \in DOMAIN events'[u]
          /\ events'[u][Len(events[u]) + 1].battle = m
      BY <1>1, <2>3
    <3> QED
      BY <3>1 DEF Settled
  <2> QED
    BY <1>3, <2>4, <2>5, <2>6, <2>7
<1> QED
  BY <1>2, <1>3

\* The users behind the entries of a battle.
LEMMA Entrants ==
  ASSUME TypeOK, EntryInvariant, NEW m \in Markets, NEW i \in DOMAIN entries[m]
  PROVE  /\ entries[m][i] \in Predictions /\ entries[m][i] \in EntrySet(m)
         /\ call[entries[m][i]] \in Calls
         /\ call[entries[m][i]].user \in Users /\ call[entries[m][i]].market = m
         /\ call[entries[m][i]].confidence \in Int
         /\ call[entries[m][i]].direction \in Directions
<1>1. entries[m][i] \in Predictions /\ entries[m][i] \in EntrySet(m)
  BY DEF TypeOK, EntrySet
<1>2. status[entries[m][i]] = "LOCKED" /\ call[entries[m][i]].market = m
  BY <1>1 DEF EntryInvariant, EntriesMatchPredictions
<1>3. call[entries[m][i]] \in Calls
  BY <1>1, <1>2 DEF TypeOK, EntryInvariant, RowsHaveCalls
<1>4. \A c \in Confidences : c \in Int
  BY ConfidencesAssumption
<1>5. \A c \in Calls : c.user \in Users /\ c.confidence \in Confidences /\ c.direction \in Directions
  BY DEF Calls
<1> QED
  BY <1>1, <1>2, <1>3, <1>4, <1>5

\* What a resolve tick settles with: the first entries of a LOCKED battle, one
\* of each user, at least the minimum of them.
LEMMA RosterIsGood ==
  ASSUME TypeOK, EntryInvariant, SettlementInvariant, BatchHasQuorum,
         NEW m \in Markets, m \in worker.todo, worker.pc = "resolve"
  PROVE  LET n == worker.seen[m] IN
         /\ n \in Nat /\ n >= MinEntrants /\ 1 .. n \subseteq DOMAIN entries[m]
         /\ battle[m].status = "LOCKED"
         /\ DOMAIN Roster(m) = 1 .. n
         /\ \A i \in 1 .. n :
              /\ Roster(m)[i] = call[entries[m][i]]
              /\ Roster(m)[i].confidence \in Int /\ Roster(m)[i].user \in Users
              /\ IndexOf(m, Roster(m)[i].user) = i
         /\ OnRoster(m) \subseteq Users
         /\ \A i \in DOMAIN entries[m] : call[entries[m][i]].user \in OnRoster(m) <=> i \in 1 .. n
<1> DEFINE n == worker.seen[m]
<1>1. n \in Nat /\ n <= Len(entries[m]) /\ n >= MinEntrants /\ battle[m].status = "LOCKED"
  BY DEF TypeOK, WorkerState, SettlementInvariant, BatchStillValid, BatchHasQuorum
<1>2. DOMAIN entries[m] = 1 .. Len(entries[m]) /\ Len(entries[m]) \in Nat
  BY DEF TypeOK
<1>3. 1 .. n \subseteq DOMAIN entries[m]
  BY <1>1, <1>2
<1>4. DOMAIN Roster(m) = 1 .. n /\ \A i \in 1 .. n : Roster(m)[i] = call[entries[m][i]]
  BY DEF Roster
<1>5. \A i \in 1 .. n : Roster(m)[i].confidence \in Int /\ Roster(m)[i].user \in Users
  BY <1>3, <1>4, Entrants
<1>6. ASSUME NEW i \in DOMAIN entries[m], NEW j \in DOMAIN entries[m],
             call[entries[m][i]].user = call[entries[m][j]].user
      PROVE  i = j
  BY <1>6 DEF EntryInvariant, OneEntryPerUser
<1>7. ASSUME NEW i \in 1 .. n PROVE IndexOf(m, Roster(m)[i].user) = i
  <2>1. \A j \in 1 .. n : Roster(m)[j].user = Roster(m)[i].user => j = i
    BY <1>3, <1>4, <1>6
  <2>2. IndexOf(m, Roster(m)[i].user) \in 1 .. n
        /\ Roster(m)[IndexOf(m, Roster(m)[i].user)].user = Roster(m)[i].user
    BY DEF IndexOf
  <2> QED
    BY <2>1, <2>2
<1>8. OnRoster(m) \subseteq Users
  BY <1>5 DEF OnRoster
<1>9. ASSUME NEW i \in DOMAIN entries[m]
      PROVE  call[entries[m][i]].user \in OnRoster(m) <=> i \in 1 .. n
  <2>1. ASSUME call[entries[m][i]].user \in OnRoster(m) PROVE i \in 1 .. n
    <3>1. PICK j \in 1 .. n : Roster(m)[j].user = call[entries[m][i]].user
      BY <2>1 DEF OnRoster
    <3> QED
      BY <1>3, <1>4, <1>6, <3>1
  <2>2. ASSUME i \in 1 .. n PROVE call[entries[m][i]].user \in OnRoster(m)
    BY <1>4, <2>2 DEF OnRoster
  <2> QED
    BY <2>1, <2>2
<1> QED
  BY <1>1, <1>3, <1>4, <1>5, <1>7, <1>8, <1>9

\* What is written: the entries of the roster are placed, and their users
\* scored, by their rank; nothing else is touched.
LEMMA SettleWrites ==
  ASSUME TypeOK, EntryInvariant, SettlementInvariant, BatchHasQuorum,
         NEW m \in Markets, ResolveSettle(m)
  PROVE  LET n == worker.seen[m]
             place(i) == Placement(Roster(m), Winner(m), i)
         IN
         /\ m \in worker.todo /\ worker.pc = "resolve"
         /\ UNCHANGED <<entries, call, status>>
         /\ \A x \in Markets \ {m} : battle'[x] = battle[x]
         /\ battle'[m].status = "RESOLVED" /\ battle'[m].outcome = Winner(m)
         /\ \A i \in 1 .. n : placement'[entries[m][i]] = place(i)
         /\ \A p \in Predictions :
              (\A i \in 1 .. n : entries[m][i] # p) => placement'[p] = placement[p]
         /\ \A i \in 1 .. n :
              user'[Roster(m)[i].user] =
                Scored(user[Roster(m)[i].user], worker.rating[Roster(m)[i].user], place(i), m)
         /\ \A u \in Users \ OnRoster(m) : user'[u] = user[u]
         /\ \A u \in Users :
              /\ ~Settled(u, m)
              /\ Len(events'[u]) = Len(events[u]) + (IF u \in OnRoster(m) THEN 1 ELSE 0)
              /\ \A x \in Markets :
                   Settled(u, x)' <=> Settled(u, x) \/ (x = m /\ u \in OnRoster(m))
<1> DEFINE n == worker.seen[m]
           place(i) == Placement(Roster(m), Winner(m), i)
           of(u) == place(IndexOf(m, u))
           event(u) == [battle |-> m, placement |-> of(u),
                        before |-> worker.rating[u], after |-> worker.rating[u] \cup {m}]
<1>1. m \in worker.todo /\ worker.pc = "resolve" /\ UNCHANGED <<entries, call, status>>
  BY DEF ResolveSettle
<1>2. /\ \A x \in Markets \ {m} : battle'[x] = battle[x]
      /\ battle'[m].status = "RESOLVED" /\ battle'[m].outcome = Winner(m)
  BY DEF ResolveSettle, Resolved, Close, TypeOK
<1>3. /\ placement' = [p \in Predictions |->
           IF \E i \in 1 .. n : entries[m][i] = p THEN of(call[p].user) ELSE placement[p]]
      /\ user' = [u \in Users |->
           IF u \in OnRoster(m) THEN Scored(user[u], worker.rating[u], of(u), m) ELSE user[u]]
      /\ events' = [u \in Users |->
           IF u \in OnRoster(m) THEN Append(events[u], event(u)) ELSE events[u]]
  BY DEF ResolveSettle
<1>4. \A u : of(u) \in Nat
  BY PlacementType DEF TypeOK, WorkerState, Roster
<1>5. /\ n \in Nat /\ 1 .. n \subseteq DOMAIN entries[m]
      /\ \A i \in 1 .. n :
           /\ Roster(m)[i] = call[entries[m][i]] /\ Roster(m)[i].user \in Users
           /\ IndexOf(m, Roster(m)[i].user) = i
      /\ OnRoster(m) \subseteq Users /\ battle[m].status = "LOCKED"
  BY <1>1, RosterIsGood
<1>6. \A i \in 1 .. n : of(Roster(m)[i].user) = place(i)
  BY <1>5
<1>7. ASSUME NEW i \in 1 .. n PROVE placement'[entries[m][i]] = place(i)
  <2>1. entries[m][i] \in Predictions
    BY <1>5, Entrants
  <2> HIDE DEF of, place
  <2> QED
    BY <1>3, <1>5, <1>6, <2>1
<1>8. ASSUME NEW p \in Predictions, \A i \in 1 .. n : entries[m][i] # p
      PROVE  placement'[p] = placement[p]
  BY <1>3, <1>8
<1>9. ASSUME NEW i \in 1 .. n
      PROVE  user'[Roster(m)[i].user] =
               Scored(user[Roster(m)[i].user], worker.rating[Roster(m)[i].user], place(i), m)
  <2>1. Roster(m)[i].user \in OnRoster(m)
    BY DEF OnRoster
  <2> HIDE DEF of, place
  <2> QED
    BY <1>3, <1>5, <1>6, <2>1
<1>10. \A u \in Users \ OnRoster(m) : user'[u] = user[u]
  BY <1>3
<1>11. \A u \in Users : ~Settled(u, m)
  BY <1>5 DEF SettlementInvariant, OnlyResolvedScores
<1>12. \A u \in Users :
         /\ Len(events'[u]) = Len(events[u]) + (IF u \in OnRoster(m) THEN 1 ELSE 0)
         /\ \A x \in Markets :
              Settled(u, x)' <=> Settled(u, x) \/ (x = m /\ u \in OnRoster(m))
  <2> HIDE DEF of
  <2>1. \A u \in Users : event(u) \in EventRows /\ event(u).battle = m
    BY <1>4 DEF EventRows, TypeOK, WorkerState
  <2> HIDE DEF event
  <2>2. PICK new : new = [u \in Users |-> event(u)]
    OBVIOUS
  <2>3. new \in [Users -> EventRows]
    BY <2>1, <2>2
  <2>4. \A u \in Users : new[u].battle = m
    BY <2>1, <2>2
  <2>5. EventsGet(OnRoster(m), new)
    BY <1>3, <2>2 DEF EventsGet
  <2> QED
    <3> HIDE DEF n, place
    <3>1. PICK who : who = OnRoster(m)
      OBVIOUS
    <3>2. EventsGet(who, new)
      BY <2>5, <3>1
    <3>3. \A u \in Users :
             /\ Len(events'[u]) = Len(events[u]) + (IF u \in who THEN 1 ELSE 0)
             /\ \A x \in Markets :
                  Settled(u, x)' <=> Settled(u, x) \/ (x = m /\ u \in who)
      BY ONLY TypeOK, m \in Markets, <2>3, <2>4, <3>2, SettledGrows, Zenon
    <3> QED
      BY <3>1, <3>3
<1> QED
  BY <1>1, <1>2, <1>7, <1>8, <1>9, <1>10, <1>11, <1>12

----------------------------------------------------------------------------
\* Results.

\* The battles a user is scored in, those that pay him, those he came first in.
ScoredIn(u) == {m \in Markets : Settled(u, m)}
PaidIn(u)   == {m \in ScoredIn(u) : \E p \in EntrySet(m) : call[p].user = u /\ placement[p] > 0}
FirstIn(u)  == {m \in ScoredIn(u) : \E p \in EntrySet(m) : call[p].user = u /\ placement[p] = 1}

CountOf(u) ==
  /\ user[u].wins = Cardinality(PaidIn(u))
  /\ user[u].energy = Cardinality(PaidIn(u))
  /\ user[u].battlesWon = Cardinality(FirstIn(u))
  /\ user[u].wins + user[u].losses = Cardinality(ScoredIn(u))
  /\ Len(events[u]) = Cardinality(ScoredIn(u))

AllCounted == \A u \in Users : CountOf(u)

LEMMA CountedOnce == ResultsCountedOnce <=> AllCounted
<1> SUFFICES ASSUME NEW u \in Users
             PROVE  /\ {m \in Markets : Settled(u, m) /\ \E p \in {q \in EntrySet(m) : call[q].user = u} :
                                         placement[p] > 0} = PaidIn(u)
                    /\ {m \in Markets : Settled(u, m) /\ \E p \in {q \in EntrySet(m) : call[q].user = u} :
                                         placement[p] = 1} = FirstIn(u)
                    /\ {m \in Markets : Settled(u, m)} = ScoredIn(u)
  BY DEF ResultsCountedOnce, AllCounted, CountOf
<1> QED
  BY DEF PaidIn, FirstIn, ScoredIn

\* The ranking of one battle: the entries it scored, and the correct ones.
ScoredAt(m) == {i \in DOMAIN entries[m] : Settled(call[entries[m][i]].user, m)}
PlacedAt(m) == {i \in ScoredAt(m) : call[entries[m][i]].direction = battle[m].outcome}

RankedAt(m) ==
  /\ Cardinality(ScoredAt(m)) >= MinEntrants
  /\ ScoredAt(m) = 1 .. Cardinality(ScoredAt(m))
  /\ {placement[entries[m][i]] : i \in PlacedAt(m)} = 1 .. Cardinality(PlacedAt(m))
  /\ \A i \in DOMAIN entries[m] \ PlacedAt(m) : placement[entries[m][i]] = 0
  /\ \A i, j \in PlacedAt(m) : placement[entries[m][i]] < placement[entries[m][j]] =>
       \/ call[entries[m][i]].confidence > call[entries[m][j]].confidence
       \/ call[entries[m][i]].confidence = call[entries[m][j]].confidence /\ i < j

LEMMA Ranked == RankedByConviction <=> \A m \in Markets : battle[m].status = "RESOLVED" => RankedAt(m)
BY DEF RankedByConviction, RankedAt, PlacedAt, ScoredAt

\* Entries are only added, each for a prediction that had none and a user who
\* had none in this battle.
EntriesOnlyGrow ==
  \A m \in Markets :
    /\ \A i \in DOMAIN entries[m] :
         /\ i \in DOMAIN entries'[m] /\ entries'[m][i] = entries[m][i]
         /\ call'[entries[m][i]] = call[entries[m][i]]
    /\ \A i \in DOMAIN entries'[m] \ DOMAIN entries[m] :
         /\ ~HasEntry(entries'[m][i])
         /\ ~HasEntered(call'[entries'[m][i]].user, m)

\* What such a step keeps of a battle: an entry added is neither placed nor
\* its user scored.
LEMMA AddedEntries ==
  ASSUME TypeOK, TypeOK', EntryInvariant, EntryInvariant', ScoredHaveEntered, OnlyScoredArePlaced,
         UNCHANGED <<placement, events>>, EntriesOnlyGrow, NEW m \in Markets
  PROVE  /\ EntrySet(m) \subseteq EntrySet(m)'
         /\ \A p \in EntrySet(m) : call'[p] = call[p]
         /\ \A u \in Users : Settled(u, m)' <=> Settled(u, m)
         /\ \A i \in DOMAIN entries'[m] \ DOMAIN entries[m] :
              /\ placement[entries'[m][i]] = 0
              /\ ~Settled(call'[entries'[m][i]].user, m)
         /\ \A p \in EntrySet(m)' : p \in EntrySet(m) \/ placement[p] = 0
<1>1. EntrySet(m) \subseteq EntrySet(m)' /\ \A p \in EntrySet(m) : call'[p] = call[p]
  BY DEF EntriesOnlyGrow, EntrySet
<1>2. \A u \in Users : Settled(u, m)' <=> Settled(u, m)
  BY DEF Settled
<1>3. ASSUME NEW i \in DOMAIN entries'[m] \ DOMAIN entries[m]
      PROVE  /\ placement[entries'[m][i]] = 0
             /\ ~Settled(call'[entries'[m][i]].user, m)
  <2>1. entries'[m][i] \in Predictions
    BY DEF TypeOK
  <2>2. call'[entries'[m][i]].user \in Users
    <3>1. entries'[m][i] \in EntrySet(m)'
      BY DEF EntrySet
    <3>2. status'[entries'[m][i]] = "LOCKED"
      BY <3>1 DEF EntryInvariant, EntriesMatchPredictions
    <3>3. call'[entries'[m][i]] \in Calls
      BY <2>1, <3>2 DEF TypeOK, EntryInvariant, RowsHaveCalls
    <3> QED
      BY <3>3 DEF Calls
  <2>3. ~HasEntry(entries'[m][i]) /\ ~HasEntered(call'[entries'[m][i]].user, m)
    BY DEF EntriesOnlyGrow
  <2>4. ~Settled(call'[entries'[m][i]].user, m)
    BY <2>2, <2>3 DEF ScoredHaveEntered
  <2>5. placement[entries'[m][i]] = 0
    BY <2>1, <2>3 DEF OnlyScoredArePlaced, HasEntry
  <2> QED
    BY <2>4, <2>5
<1>4. ASSUME NEW p \in EntrySet(m)', p \notin EntrySet(m) PROVE placement[p] = 0
  <2>1. PICK i \in DOMAIN entries'[m] : entries'[m][i] = p
    BY <1>4 DEF EntrySet
  <2>2. i \notin DOMAIN entries[m]
    BY <1>4, <2>1 DEF EntriesOnlyGrow, EntrySet
  <2> QED
    BY <1>3, <2>1, <2>2
<1> QED
  BY <1>1, <1>2, <1>3, <1>4

\* Every step but that of the transaction of resolveOne leaves the results
\* alone, whatever entries are added meanwhile.
LEMMA ResultsStay ==
  ASSUME TypeOK, TypeOK', EntryInvariant, EntryInvariant', ResultsInvariant,
         UNCHANGED <<placement, user, events>>, EntriesOnlyGrow, BatchHasQuorum',
         \A m \in Markets : battle'[m].status = "RESOLVED" => battle'[m] = battle[m]
  PROVE  ResultsInvariant'
<1>0. \A m \in Markets :
         /\ EntrySet(m) \subseteq EntrySet(m)'
         /\ \A p \in EntrySet(m) : call'[p] = call[p]
         /\ \A u \in Users : Settled(u, m)' <=> Settled(u, m)
         /\ \A i \in DOMAIN entries'[m] \ DOMAIN entries[m] :
              /\ placement[entries'[m][i]] = 0
              /\ ~Settled(call'[entries'[m][i]].user, m)
         /\ \A p \in EntrySet(m)' : p \in EntrySet(m) \/ placement[p] = 0
  BY AddedEntries DEF ResultsInvariant
<1>1. ScoredHaveEntered'
  BY <1>0 DEF ResultsInvariant, ScoredHaveEntered, HasEntered
<1>2. OnlyScoredArePlaced'
  <2>1. ASSUME NEW p \in Predictions, placement[p] # 0
        PROVE  \E m \in Markets : p \in EntrySet(m)' /\ Settled(call[p].user, m)'
    <3>1. PICK m \in Markets : p \in EntrySet(m) /\ Settled(call[p].user, m)
      BY <2>1 DEF ResultsInvariant, OnlyScoredArePlaced
    <3>2. p \in EntrySet(m)' /\ call'[p] = call[p]
      BY <1>0, <3>1
    <3>3. Settled(call[p].user, m)'
      BY <3>1, <3>2 DEF Settled
    <3> QED
      BY <3>2, <3>3
  <2> QED
    BY <2>1 DEF OnlyScoredArePlaced
<1>3. RankedByConviction'
  <2>1. ASSUME NEW m \in Markets, battle'[m].status = "RESOLVED" PROVE RankedAt(m)'
    <3>1. battle'[m] = battle[m]
      BY <2>1
    <3>2. RankedAt(m)
      BY <2>1, <3>1, Ranked DEF ResultsInvariant
    <3>3. \A i \in DOMAIN entries[m] :
            /\ i \in DOMAIN entries'[m] /\ entries'[m][i] = entries[m][i]
            /\ call'[entries'[m][i]] = call[entries[m][i]]
      BY DEF EntriesOnlyGrow
    <3>4. ScoredAt(m)' = ScoredAt(m)
      <4> DEFINE Has(p) == \E k \in DOMAIN events[call'[p].user] :
                             events[call'[p].user][k].battle = m
      <4>1. \A i \in DOMAIN entries'[m] \ DOMAIN entries[m] : ~Has(entries'[m][i])
        BY <1>0 DEF Settled
      <4>2. ScoredAt(m)' = {i \in DOMAIN entries'[m] : Has(entries'[m][i])}
        BY DEF ScoredAt, Settled
      <4>3. ScoredAt(m) = {i \in DOMAIN entries[m] : Has(entries'[m][i])}
        BY <3>3 DEF ScoredAt, Settled
      <4> HIDE DEF Has
      <4> QED
        BY <3>3, <4>1, <4>2, <4>3
    <3>5. PlacedAt(m)' = PlacedAt(m) /\ PlacedAt(m) \subseteq DOMAIN entries[m]
      BY <3>1, <3>3, <3>4 DEF PlacedAt, ScoredAt
    <3>6. \A i \in DOMAIN entries'[m] \ PlacedAt(m)' : placement'[entries'[m][i]] = 0
      BY <1>0, <3>2, <3>3, <3>5 DEF RankedAt
    <3>7. {placement'[entries'[m][i]] : i \in PlacedAt(m)'} = {placement[entries[m][i]] : i \in PlacedAt(m)}
      BY <3>3, <3>5
    <3>8. \A i, j \in PlacedAt(m)' : placement'[entries'[m][i]] < placement'[entries'[m][j]] =>
            \/ call'[entries'[m][i]].confidence > call'[entries'[m][j]].confidence
            \/ call'[entries'[m][i]].confidence = call'[entries'[m][j]].confidence /\ i < j
      BY <3>2, <3>3, <3>5 DEF RankedAt
    <3> QED
      BY <3>2, <3>4, <3>5, <3>6, <3>7, <3>8 DEF RankedAt
  <2>2. RankedByConviction' <=> \A m \in Markets : battle'[m].status = "RESOLVED" => RankedAt(m)'
    BY DEF RankedByConviction, RankedAt, PlacedAt, ScoredAt
  <2> QED
    BY <2>1, <2>2
<1>4. \A u \in Users : /\ ScoredIn(u)' = ScoredIn(u)
                       /\ PaidIn(u)' = PaidIn(u) /\ FirstIn(u)' = FirstIn(u)
  <2> TAKE u \in Users
  <2>1. ScoredIn(u)' = ScoredIn(u)
    BY <1>0 DEF ScoredIn
  <2>2. \A m \in ScoredIn(u) : \A p : p \in EntrySet(m)' /\ call'[p].user = u /\ placement'[p] > 0
          <=> p \in EntrySet(m) /\ call[p].user = u /\ placement[p] > 0
    BY <1>0 DEF ScoredIn
  <2>3. \A m \in ScoredIn(u) : \A p : p \in EntrySet(m)' /\ call'[p].user = u /\ placement'[p] = 1
          <=> p \in EntrySet(m) /\ call[p].user = u /\ placement[p] = 1
    BY <1>0 DEF ScoredIn
  <2>4. PaidIn(u)' = PaidIn(u)
    BY <2>1, <2>2 DEF PaidIn
  <2>5. FirstIn(u)' = FirstIn(u)
    BY <2>1, <2>3 DEF FirstIn
  <2> QED
    BY <2>1, <2>4, <2>5
<1>5. ResultsCountedOnce'
  <2>1. AllCounted
    BY CountedOnce DEF ResultsInvariant
  <2>2. AllCounted'
    BY <1>4, <2>1 DEF AllCounted, CountOf
  <2>3. (ResultsCountedOnce <=> AllCounted)'
    BY CountedOnce, PTL
  <2> QED
    BY <2>2, <2>3
<1>6. \A u \in Users : IsFiniteSet({m \in Markets : Settled(u, m)})'
  BY <1>4 DEF ResultsInvariant, ScoredIn
<1> QED
  BY <1>1, <1>2, <1>3, <1>5, <1>6 DEF ResultsInvariant

\* The transaction of resolveOne ranks the battle by the entries of the roster:
\* those confirmed after the worker read it stay unplaced.
LEMMA SettleRanks ==
  ASSUME TypeOK, TypeOK', EntryInvariant, SettlementInvariant, ResultsInvariant,
         NEW m \in Markets, ResolveSettle(m)
  PROVE  RankedAt(m)'
<1> DEFINE n == worker.seen[m]
           w == Winner(m)
           R == Right(Roster(m), n, w)
           place(i) == Placement(Roster(m), w, i)
<1>1. /\ m \in worker.todo /\ worker.pc = "resolve"
      /\ UNCHANGED <<entries, call>> /\ battle'[m].outcome = w
      /\ \A i \in 1 .. n : placement'[entries[m][i]] = place(i)
      /\ \A p \in Predictions :
           (\A i \in 1 .. n : entries[m][i] # p) => placement'[p] = placement[p]
      /\ \A u \in Users : ~Settled(u, m) /\ (Settled(u, m)' <=> u \in OnRoster(m))
  BY SettleWrites DEF ResultsInvariant
<1>2. /\ n \in Nat /\ n >= MinEntrants /\ 1 .. n \subseteq DOMAIN entries[m]
      /\ DOMAIN Roster(m) = 1 .. n
      /\ \A i \in 1 .. n :
           /\ Roster(m)[i] = call[entries[m][i]]
           /\ Roster(m)[i].confidence \in Int
      /\ \A i \in DOMAIN entries[m] : call[entries[m][i]].user \in OnRoster(m) <=> i \in 1 .. n
  BY <1>1, RosterIsGood DEF ResultsInvariant
<1>3. \A i \in DOMAIN entries[m] :
        /\ entries[m][i] \in Predictions /\ call[entries[m][i]].user \in Users
        /\ call[entries[m][i]].market = m
  BY Entrants
<1>4. /\ {place(i) : i \in R} = 1 .. Cardinality(R)
      /\ \A i \in 1 .. n \ R : place(i) = 0
      /\ \A i, j \in R : place(i) < place(j) => RanksAhead(Roster(m), i, j)
  BY <1>2, Ranks
<1> HIDE DEF n, w, R, place
<1>5. ScoredAt(m)' = 1 .. n
  <2>1. \A i \in DOMAIN entries[m] : Settled(call[entries[m][i]].user, m)' <=> i \in 1 .. n
    <3> TAKE i \in DOMAIN entries[m]
    <3>1. PICK u \in Users : u = call[entries[m][i]].user
      BY <1>3
    <3>2. Settled(u, m)' <=> i \in 1 .. n
      BY <1>1, <1>2, <3>1
    <3> QED
      BY <1>1, <3>1, <3>2 DEF Settled
  <2> QED
    BY <1>1, <1>2, <2>1 DEF ScoredAt, Settled
<1>6. PlacedAt(m)' = R
  <2>1. R = {i \in 1 .. n : call[entries[m][i]].direction = w}
    BY <1>2 DEF R, Right, IsCorrect
  <2> QED
    BY <1>1, <1>5, <2>1 DEF PlacedAt
<1>7. R \subseteq 1 .. n
  BY DEF R, Right
<1>8. Cardinality(1 .. n) = n
  BY <1>2, FS_Interval, MinEntrantsAssumption
<1>9. {placement'[entries'[m][i]] : i \in R} = {place(i) : i \in R}
  BY <1>1, <1>7
<1>10. ASSUME NEW i \in DOMAIN entries[m], i \notin R PROVE placement'[entries[m][i]] = 0
  <2>1. CASE i \in 1 .. n
    BY <1>1, <1>4, <1>10, <2>1
  <2>2. CASE i \notin 1 .. n
    <3>1. ASSUME NEW k \in 1 .. n, entries[m][k] = entries[m][i] PROVE FALSE
      BY <1>2, <2>2, <3>1 DEF EntryInvariant, OneEntryPerUser
    <3>2. placement'[entries[m][i]] = placement[entries[m][i]]
      BY <1>1, <1>3, <3>1
    <3>3. ASSUME placement[entries[m][i]] # 0 PROVE FALSE
      <4>1. PICK x \in Markets :
              entries[m][i] \in EntrySet(x) /\ Settled(call[entries[m][i]].user, x)
        BY <1>3, <3>3 DEF ResultsInvariant, OnlyScoredArePlaced
      <4>2. x = m
        BY <1>3, <4>1 DEF EntryInvariant, EntriesMatchPredictions
      <4> QED
        BY <1>1, <1>3, <4>1, <4>2
    <3> QED
      BY <3>2, <3>3
  <2> QED
    BY <2>1, <2>2
<1>11. ASSUME NEW i \in R, NEW j \in R, placement'[entries[m][i]] < placement'[entries[m][j]]
       PROVE  \/ call[entries[m][i]].confidence > call[entries[m][j]].confidence
              \/ call[entries[m][i]].confidence = call[entries[m][j]].confidence /\ i < j
  <2>1. RanksAhead(Roster(m), i, j)
    BY <1>1, <1>4, <1>7, <1>11
  <2> QED
    BY <1>2, <1>7, <2>1 DEF RanksAhead
<1> QED
  <2>1. Cardinality(ScoredAt(m)') >= MinEntrants /\ ScoredAt(m)' = 1 .. Cardinality(ScoredAt(m)')
    BY <1>2, <1>5, <1>8
  <2>2. {placement'[entries'[m][i]] : i \in PlacedAt(m)'} = 1 .. Cardinality(PlacedAt(m)')
    BY <1>4, <1>6, <1>9
  <2>3. \A i \in DOMAIN entries'[m] \ PlacedAt(m)' : placement'[entries'[m][i]] = 0
    BY <1>1, <1>6, <1>10
  <2>4. \A i, j \in PlacedAt(m)' : placement'[entries'[m][i]] < placement'[entries'[m][j]] =>
          \/ call'[entries'[m][i]].confidence > call'[entries'[m][j]].confidence
          \/ call'[entries'[m][i]].confidence = call'[entries'[m][j]].confidence /\ i < j
    BY <1>1, <1>6, <1>11
  <2> QED
    BY <2>1, <2>2, <2>3, <2>4 DEF RankedAt

\* It pays and counts one battle more for the users of the roster.
LEMMA SettleCounts ==
  ASSUME TypeOK, TypeOK', EntryInvariant, SettlementInvariant, ResultsInvariant,
         NEW m \in Markets, ResolveSettle(m), NEW u \in Users
  PROVE  CountOf(u)' /\ IsFiniteSet(ScoredIn(u))'
<1> DEFINE n == worker.seen[m]
           place(i) == Placement(Roster(m), Winner(m), i)
<1>1. /\ m \in worker.todo /\ worker.pc = "resolve" /\ UNCHANGED <<entries, call>>
      /\ \A i \in 1 .. n : placement'[entries[m][i]] = place(i)
      /\ \A p \in Predictions :
           (\A i \in 1 .. n : entries[m][i] # p) => placement'[p] = placement[p]
      /\ \A i \in 1 .. n :
           user'[Roster(m)[i].user] =
             Scored(user[Roster(m)[i].user], worker.rating[Roster(m)[i].user], place(i), m)
      /\ u \notin OnRoster(m) => user'[u] = user[u]
      /\ ~Settled(u, m)
      /\ Len(events'[u]) = Len(events[u]) + (IF u \in OnRoster(m) THEN 1 ELSE 0)
      /\ \A x \in Markets : Settled(u, x)' <=> Settled(u, x) \/ (x = m /\ u \in OnRoster(m))
  BY SettleWrites DEF ResultsInvariant
<1>2. /\ n \in Nat /\ 1 .. n \subseteq DOMAIN entries[m]
      /\ \A i \in 1 .. n : Roster(m)[i] = call[entries[m][i]]
  BY <1>1, RosterIsGood DEF ResultsInvariant
<1>3. /\ CountOf(u) /\ IsFiniteSet(ScoredIn(u)) /\ m \notin ScoredIn(u)
      /\ PaidIn(u) \subseteq ScoredIn(u) /\ FirstIn(u) \subseteq ScoredIn(u)
  BY <1>1, CountedOnce DEF ResultsInvariant, AllCounted, ScoredIn, PaidIn, FirstIn
<1>4. IsFiniteSet(PaidIn(u)) /\ IsFiniteSet(FirstIn(u))
  BY <1>3, FS_Subset
<1>5. ASSUME NEW x \in Markets, x # m, NEW p \in EntrySet(x) PROVE placement'[p] = placement[p]
  <2>1. p \in Predictions /\ call[p].market = x
    BY DEF EntryInvariant, EntriesMatchPredictions, EntrySet, TypeOK
  <2>2. \A i \in 1 .. n : call[entries[m][i]].market = m
    BY <1>2, Entrants
  <2> QED
    BY <1>1, <1>5, <2>1, <2>2
<1>6. \A x \in Markets : EntrySet(x)' = EntrySet(x)
  BY <1>1 DEF EntrySet
<1>7. ASSUME NEW x \in Markets, x # m
      PROVE  (x \in PaidIn(u)' <=> x \in PaidIn(u)) /\ (x \in FirstIn(u)' <=> x \in FirstIn(u))
  <2>1. x \in ScoredIn(u)' <=> x \in ScoredIn(u)
    BY <1>1, <1>7 DEF ScoredIn
  <2>2. \A p \in EntrySet(x) : p \in EntrySet(x)' /\ call'[p] = call[p] /\ placement'[p] = placement[p]
    BY <1>1, <1>5, <1>6, <1>7
  <2>3. x \in PaidIn(u)' <=> x \in PaidIn(u)
    BY <1>6, <2>1, <2>2 DEF PaidIn
  <2>4. x \in FirstIn(u)' <=> x \in FirstIn(u)
    BY <1>6, <2>1, <2>2 DEF FirstIn
  <2> QED
    BY <2>3, <2>4
<1>8. ScoredIn(u)' \subseteq Markets /\ PaidIn(u)' \subseteq Markets /\ FirstIn(u)' \subseteq Markets
      /\ ScoredIn(u) \subseteq Markets
  BY DEF ScoredIn, PaidIn, FirstIn
<1>9. CASE u \notin OnRoster(m)
  <2>1. ScoredIn(u)' = ScoredIn(u)
    BY <1>1, <1>9 DEF ScoredIn
  <2>2. m \notin PaidIn(u)' /\ m \notin FirstIn(u)'
    BY <1>3, <2>1 DEF PaidIn, FirstIn
  <2>3. PaidIn(u)' = PaidIn(u) /\ FirstIn(u)' = FirstIn(u)
    BY <1>3, <1>7, <1>8, <2>2
  <2>4. user'[u] = user[u] /\ Len(events'[u]) = Len(events[u])
    <3>1. Len(events[u]) \in Nat
      BY DEF TypeOK
    <3> QED
      BY <1>1, <1>9, <3>1
  <2> QED
    BY <1>3, <2>1, <2>3, <2>4 DEF CountOf
<1>10. CASE u \in OnRoster(m)
  <2>1. PICK i \in 1 .. n : Roster(m)[i].user = u
    BY <1>10 DEF OnRoster
  <2>2. user'[u] = Scored(user[u], worker.rating[u], place(i), m)
    BY <1>1, <2>1
  <2>3. ScoredIn(u)' = ScoredIn(u) \cup {m}
    BY <1>1, <1>10 DEF ScoredIn
  <2>4. \A p \in EntrySet(m) : call[p].user = u => placement'[p] = place(i)
    <3>1. \A k \in DOMAIN entries[m] : call[entries[m][k]].user = u => k = i
      BY <1>2, <2>1 DEF EntryInvariant, OneEntryPerUser
    <3> QED
      BY <1>1, <3>1 DEF EntrySet
  <2>5. entries[m][i] \in EntrySet(m) /\ call[entries[m][i]].user = u
    BY <1>2, <2>1 DEF EntrySet
  <2>6. m \in PaidIn(u)' <=> place(i) > 0
    BY <1>1, <1>6, <2>3, <2>4, <2>5 DEF PaidIn
  <2>7. m \in FirstIn(u)' <=> place(i) = 1
    BY <1>1, <1>6, <2>3, <2>4, <2>5 DEF FirstIn
  <2>8. place(i) \in Nat
    <3>1. Roster(m) = [k \in 1 .. n |-> call[entries[m][k]]]
      BY DEF Roster
    <3> QED
      BY <1>2, PlacementType DEF Roster
  <2> HIDE DEF n, place
  <2>9. PaidIn(u)' = IF place(i) # 0 THEN PaidIn(u) \cup {m} ELSE PaidIn(u)
    BY <1>3, <1>7, <1>8, <2>6, <2>8
  <2>10. FirstIn(u)' = IF place(i) = 1 THEN FirstIn(u) \cup {m} ELSE FirstIn(u)
    BY <1>3, <1>7, <1>8, <2>7
  <2>11. /\ IsFiniteSet(ScoredIn(u)') /\ Cardinality(ScoredIn(u)') = Cardinality(ScoredIn(u)) + 1
         /\ Cardinality(PaidIn(u) \cup {m}) = Cardinality(PaidIn(u)) + 1
         /\ Cardinality(FirstIn(u) \cup {m}) = Cardinality(FirstIn(u)) + 1
    <3>1. m \notin PaidIn(u) /\ m \notin FirstIn(u) /\ m \notin ScoredIn(u)
      BY <1>3
    <3>2. /\ IsFiniteSet(ScoredIn(u) \cup {m})
          /\ Cardinality(ScoredIn(u) \cup {m}) = Cardinality(ScoredIn(u)) + 1
      BY <1>3, FS_AddElement, FS_CardinalityType, <3>1
    <3>3. Cardinality(PaidIn(u) \cup {m}) = Cardinality(PaidIn(u)) + 1
      BY <1>4, FS_AddElement, FS_CardinalityType, <3>1
    <3>4. Cardinality(FirstIn(u) \cup {m}) = Cardinality(FirstIn(u)) + 1
      BY <1>4, FS_AddElement, FS_CardinalityType, <3>1
    <3> QED
      BY <2>3, <3>2, <3>3, <3>4
  <2>12. user[u] \in UserRows /\ Len(events'[u]) = Len(events[u]) + 1
    BY <1>1, <1>10 DEF TypeOK
  <2>13. /\ user'[u].wins = user[u].wins + (IF place(i) # 0 THEN 1 ELSE 0)
         /\ user'[u].energy = user[u].energy + (IF place(i) # 0 THEN 1 ELSE 0)
         /\ user'[u].losses = user[u].losses + (IF place(i) = 0 THEN 1 ELSE 0)
         /\ user'[u].battlesWon = user[u].battlesWon + (IF place(i) = 1 THEN 1 ELSE 0)
    BY <2>2 DEF Scored
  <2>14. /\ user[u].wins \in Nat /\ user[u].losses \in Nat /\ user[u].energy \in Nat
         /\ user[u].battlesWon \in Nat
    BY <2>12 DEF UserRows
  <2>15. CountOf(u)'
    <3>1. /\ user[u].wins = Cardinality(PaidIn(u)) /\ user[u].energy = Cardinality(PaidIn(u))
          /\ user[u].battlesWon = Cardinality(FirstIn(u))
          /\ user[u].wins + user[u].losses = Cardinality(ScoredIn(u))
          /\ Len(events[u]) = Cardinality(ScoredIn(u))
      BY <1>3 DEF CountOf
    <3>2. Cardinality(PaidIn(u)') = Cardinality(PaidIn(u)) + (IF place(i) # 0 THEN 1 ELSE 0)
      BY <2>9, <2>11, <2>14, <3>1
    <3>3. Cardinality(FirstIn(u)') = Cardinality(FirstIn(u)) + (IF place(i) = 1 THEN 1 ELSE 0)
      BY <2>10, <2>11, <2>14, <3>1
    <3>4. user'[u].wins = Cardinality(PaidIn(u)') /\ user'[u].energy = Cardinality(PaidIn(u)')
      BY <2>13, <3>1, <3>2
    <3>5. user'[u].battlesWon = Cardinality(FirstIn(u)')
      BY <2>13, <3>1, <3>3
    <3>6. user'[u].wins + user'[u].losses = Cardinality(ScoredIn(u)')
      <4>1. user'[u].wins + user'[u].losses = user[u].wins + user[u].losses + 1
        BY <2>13, <2>14
      <4> QED
        BY <2>11, <3>1, <4>1
    <3>7. Len(events'[u]) = Cardinality(ScoredIn(u)')
      BY <2>11, <2>12, <3>1
    <3> QED
      BY <3>4, <3>5, <3>6, <3>7 DEF CountOf
  <2> QED
    BY <2>11, <2>15
<1> QED
  BY <1>9, <1>10

LEMMA SettleKeepsResults ==
  ASSUME TypeOK, TypeOK', EntryInvariant, SettlementInvariant, ResultsInvariant,
         NEW m \in Markets, ResolveSettle(m)
  PROVE  ResultsInvariant'
<1> DEFINE n == worker.seen[m]
<1>1. /\ m \in worker.todo /\ worker.pc = "resolve" /\ UNCHANGED <<entries, call>>
      /\ \A x \in Markets \ {m} : battle'[x] = battle[x]
      /\ \A p \in Predictions :
           (\A i \in 1 .. n : entries[m][i] # p) => placement'[p] = placement[p]
      /\ \A u \in Users, x \in Markets :
           Settled(u, x)' <=> Settled(u, x) \/ (x = m /\ u \in OnRoster(m))
  BY SettleWrites DEF ResultsInvariant
<1>2. /\ n \in Nat /\ 1 .. n \subseteq DOMAIN entries[m]
      /\ \A i \in 1 .. n : Roster(m)[i] = call[entries[m][i]]
      /\ \A i \in DOMAIN entries[m] : call[entries[m][i]].user \in OnRoster(m) <=> i \in 1 .. n
  BY <1>1, RosterIsGood DEF ResultsInvariant
<1>3. \A i \in DOMAIN entries[m] :
        entries[m][i] \in EntrySet(m) /\ call[entries[m][i]].user \in Users
  BY Entrants
<1>4. BatchHasQuorum'
  BY DEF ResolveSettle, Done, TypeOK, WorkerState, ResultsInvariant, BatchHasQuorum
<1>5. ScoredHaveEntered'
  <2>1. ASSUME NEW u \in OnRoster(m) PROVE HasEntered(u, m)
    <3>1. PICK i \in 1 .. n : Roster(m)[i].user = u
      BY <2>1 DEF OnRoster
    <3> QED
      BY <1>2, <1>3, <3>1 DEF HasEntered
  <2>2. \A u \in Users, x \in Markets : Settled(u, x)' => HasEntered(u, x)
    BY <1>1, <2>1 DEF ResultsInvariant, ScoredHaveEntered
  <2> QED
    BY <1>1, <2>2 DEF ScoredHaveEntered, HasEntered, EntrySet
<1>6. OnlyScoredArePlaced'
  <2>1. ASSUME NEW p \in Predictions, placement'[p] # 0
        PROVE  \E x \in Markets : p \in EntrySet(x)' /\ Settled(call[p].user, x)'
    <3>1. CASE \E i \in 1 .. n : entries[m][i] = p
      <4>1. PICK i \in 1 .. n : entries[m][i] = p
        BY <3>1
      <4>2. PICK u \in Users : u = call[p].user
        BY <1>2, <1>3, <4>1
      <4>3. Settled(u, m)'
        BY <1>1, <1>2, <4>1, <4>2
      <4>4. p \in EntrySet(m)'
        BY <1>1, <1>2, <1>3, <4>1 DEF EntrySet
      <4> QED
        BY <1>1, <4>2, <4>3, <4>4 DEF Settled
    <3>2. CASE \A i \in 1 .. n : entries[m][i] # p
      <4>1. placement[p] # 0
        BY <1>1, <2>1, <3>2
      <4>2. PICK x \in Markets : p \in EntrySet(x) /\ Settled(call[p].user, x)
        BY <4>1 DEF ResultsInvariant, OnlyScoredArePlaced
      <4>3. PICK u \in Users : u = call[p].user
        <5>1. PICK i \in DOMAIN entries[x] : entries[x][i] = p
          BY <4>2 DEF EntrySet
        <5> QED
          BY <5>1, Entrants
      <4>4. Settled(u, x)'
        BY <1>1, <4>2, <4>3
      <4>5. p \in EntrySet(x)'
        BY <1>1, <4>2 DEF EntrySet
      <4> QED
        BY <1>1, <4>3, <4>4, <4>5 DEF Settled
    <3> QED
      BY <3>1, <3>2
  <2> QED
    BY <1>1, <2>1 DEF OnlyScoredArePlaced
<1>7. RankedByConviction'
  <2>1. ASSUME NEW x \in Markets, x # m, RankedAt(x) PROVE RankedAt(x)'
    <3>1. \A i \in DOMAIN entries[x] : placement'[entries[x][i]] = placement[entries[x][i]]
      <4>1. \A i \in 1 .. n : call[entries[m][i]].market = m
        BY <1>2, Entrants
      <4>2. \A i \in DOMAIN entries[x] :
              entries[x][i] \in Predictions /\ call[entries[x][i]].market = x
        BY Entrants
      <4> QED
        BY <1>1, <2>1, <4>1, <4>2
    <3>2. \A i \in DOMAIN entries[x] :
            Settled(call[entries[x][i]].user, x)' <=> Settled(call[entries[x][i]].user, x)
      <4> TAKE i \in DOMAIN entries[x]
      <4>1. PICK u \in Users : u = call[entries[x][i]].user
        BY Entrants
      <4>2. Settled(u, x)' <=> Settled(u, x)
        BY <1>1, <2>1
      <4> QED
        BY <1>1, <4>1, <4>2 DEF Settled
    <3>3. ScoredAt(x)' = ScoredAt(x) /\ ScoredAt(x) \subseteq DOMAIN entries[x]
      BY <1>1, <3>2 DEF ScoredAt, Settled
    <3>4. battle'[x] = battle[x]
      BY <1>1, <2>1
    <3>5. PlacedAt(x)' = PlacedAt(x) /\ PlacedAt(x) \subseteq DOMAIN entries[x]
      BY <1>1, <3>3, <3>4 DEF PlacedAt
    <3> QED
      BY <1>1, <2>1, <3>1, <3>3, <3>5 DEF RankedAt
  <2>2. \A x \in Markets : battle[x].status = "RESOLVED" => RankedAt(x)
    BY Ranked DEF ResultsInvariant
  <2>3. \A x \in Markets : battle'[x].status = "RESOLVED" => RankedAt(x)'
    BY <1>1, <2>1, <2>2, SettleRanks
  <2>4. RankedByConviction' <=> \A x \in Markets : battle'[x].status = "RESOLVED" => RankedAt(x)'
    BY DEF RankedByConviction, RankedAt, PlacedAt, ScoredAt
  <2> QED
    BY <2>3, <2>4
<1>8. \A u \in Users : CountOf(u)' /\ IsFiniteSet(ScoredIn(u))'
  BY SettleCounts
<1>9. ResultsCountedOnce'
  <2>1. AllCounted'
    BY <1>8 DEF AllCounted
  <2>2. (ResultsCountedOnce <=> AllCounted)'
    BY CountedOnce, PTL
  <2> QED
    BY <2>1, <2>2
<1>10. \A u \in Users : IsFiniteSet({x \in Markets : Settled(u, x)})'
  BY <1>8 DEF ScoredIn
<1> QED
  BY <1>4, <1>5, <1>6, <1>7, <1>9, <1>10 DEF ResultsInvariant

\* The fields of a prediction that has an entry do not change, and the only
\* step that adds an entry adds one that CanCreateEntry allows.
LEMMA OnlyConfirmAdds ==
  ASSUME TypeOK, EntryInvariant, [Next]_vars,
         \A m \in Markets : ~ResolveSettle(m)
  PROVE  EntriesOnlyGrow
<1> USE DEF world, rows
<1>1. CASE UNCHANGED <<call, entries>>
  BY <1>1 DEF EntriesOnlyGrow
<1>2. ASSUME NEW p \in Predictions, ~HasEntry(p), UNCHANGED entries,
             \A q \in Predictions : q # p => call'[q] = call[q]
      PROVE  EntriesOnlyGrow
  <2>1. ASSUME NEW m \in Markets, NEW i \in DOMAIN entries[m]
        PROVE  entries[m][i] \in Predictions /\ entries[m][i] # p
    BY <1>2, Entrants DEF HasEntry
  <2> QED
    BY <1>2, <2>1 DEF EntriesOnlyGrow
<1>3. ASSUME NEW r \in Requests, NEW p \in Predictions, NEW next, Delete(r, p, next)
      PROVE  EntriesOnlyGrow
  <2>1. CASE ~CanDelete(p)
    BY <1>1, <1>3, <2>1 DEF Delete
  <2>2. CASE CanDelete(p)
    <3>1. UNCHANGED entries /\ call' = [call EXCEPT ![p] = None] /\ ~HasEntry(p)
      BY <1>3, <2>2 DEF Delete, CanDelete
    <3>2. \A q \in Predictions : q # p => call'[q] = call[q]
      BY <3>1 DEF TypeOK
    <3> QED
      BY <1>2, <3>1, <3>2
  <2> QED
    BY <2>1, <2>2
<1>4. ASSUME NEW r \in Requests, EnterDeletePending(r) \/ AbandonCommit(r) PROVE EntriesOnlyGrow
  <2>1. req[r].prediction \in Predictions
    BY <1>4 DEF EnterDeletePending, AbandonCommit, At, TypeOK, RequestState, PredictionSteps
  <2> QED
    BY <1>3, <1>4, <2>1 DEF EnterDeletePending, AbandonCommit
<1>5. ASSUME NEW r \in Requests, EnterInsert(r) PROVE EntriesOnlyGrow
  <2>1. PICK p \in Predictions :
          status[p] = "FREE" /\ \E c : call' = [call EXCEPT ![p] = c]
    BY <1>5 DEF EnterInsert
  <2>2. ~HasEntry(p)
    BY <2>1 DEF HasEntry, EntryInvariant, EntriesMatchPredictions
  <2>3. \A q \in Predictions : q # p => call'[q] = call[q]
    BY <2>1 DEF TypeOK
  <2> QED
    BY <1>2, <1>5, <2>2, <2>3 DEF EnterInsert
<1>6. ASSUME NEW r \in Requests, ConfirmCommit(r) PROVE EntriesOnlyGrow
  <2> DEFINE p == req[r].prediction
  <2>1. CASE ~CanConfirm(p)
    BY <1>1, <1>6, <2>1 DEF ConfirmCommit
  <2>2. CASE CanConfirm(p)
    <3>1. /\ p \in Predictions /\ UNCHANGED call
          /\ entries' = [entries EXCEPT ![call[p].market] = Append(@, p)]
          /\ ~HasEntry(p) /\ ~HasEntered(call[p].user, call[p].market)
      BY <1>6, <2>2 DEF ConfirmCommit, CanConfirm, CanCreateEntry, At, TypeOK, RequestState,
         PredictionSteps
    <3> HIDE DEF p
    <3>2. ASSUME NEW m \in Markets
          PROVE  /\ \A i \in DOMAIN entries[m] : i \in DOMAIN entries'[m] /\ entries'[m][i] = entries[m][i]
                 /\ \A i \in DOMAIN entries'[m] \ DOMAIN entries[m] :
                      entries'[m][i] = p /\ m = call[p].market
      <4>1. CASE m # call[p].market
        BY <3>1, <4>1 DEF TypeOK
      <4>2. CASE m = call[p].market
        <5>1. entries'[m] = Append(entries[m], p) /\ entries[m] \in Seq(Predictions)
          BY <3>1, <4>2 DEF TypeOK
        <5>2. /\ DOMAIN Append(entries[m], p) = 1 .. Len(entries[m]) + 1
              /\ DOMAIN entries[m] = 1 .. Len(entries[m])
              /\ Len(entries[m]) \in Nat
              /\ \A i \in 1 .. Len(entries[m]) : Append(entries[m], p)[i] = entries[m][i]
              /\ Append(entries[m], p)[Len(entries[m]) + 1] = p
          BY <3>1, <5>1, Appended
        <5>3. \A i \in 1 .. Len(entries[m]) + 1 :
                i \in 1 .. Len(entries[m]) \/ i = Len(entries[m]) + 1
          BY <5>2
        <5>4. \A i \in 1 .. Len(entries[m]) : i \in 1 .. Len(entries[m]) + 1
          BY <5>2
        <5> QED
          BY <4>2, <5>1, <5>2, <5>3, <5>4, Zenon
      <4> QED
        BY <4>1, <4>2
    <3> QED
      BY <3>1, <3>2 DEF EntriesOnlyGrow
  <2> QED
    BY <2>1, <2>2
<1>7. ASSUME NEW r \in Requests, Enter(r) PROVE EntriesOnlyGrow
  BY <1>1, <1>4, <1>5, <1>7 DEF Enter, EnterBegin, EnterFindBattle, EnterCreateBattle,
     EnterCheckEntry, EnterFindPending
<1>8. ASSUME NEW r \in Requests, Confirm(r) \/ Abandon(r) \/ RequestFails(r) PROVE EntriesOnlyGrow
  BY <1>1, <1>4, <1>6, <1>8 DEF Confirm, ConfirmBegin, Abandon, AbandonBegin, RequestFails
<1>9. CASE World \/ Crash \/ UNCHANGED vars
  BY <1>1, <1>9 DEF World, ReachLock, CloseTrading, ReportOutcome, Crash, vars
<1>10. CASE Tick
  BY <1>1, <1>10 DEF Tick, LockBegin, LockOne, TickAborts, ResolveBegin, ResolveVoid,
     ResolveSkip, TickEnd
<1> QED
  BY <1>7, <1>8, <1>9, <1>10 DEF Next

\* A resolve batch is read from LOCKED battles, which have their quorum.
LEMMA BatchKeepsQuorum ==
  ASSUME TypeOK, SettlementInvariant, BatchHasQuorum, [Next]_vars
  PROVE  BatchHasQuorum'
<1> USE DEF world, rows
<1>1. CASE UNCHANGED worker
  BY <1>1 DEF BatchHasQuorum
<1>2. ASSUME NEW m \in Markets, Done(m) PROVE BatchHasQuorum'
  BY <1>2 DEF Done, TypeOK, WorkerState, BatchHasQuorum
<1>3. CASE LockBegin \/ TickAborts \/ TickEnd \/ Crash
  BY <1>3 DEF LockBegin, TickAborts, TickEnd, Crash, WorkerIdle, Batch, BatchHasQuorum
<1>4. CASE ResolveBegin
  BY <1>4 DEF ResolveBegin, Batch, ResolveBatch, InStatus, BatchHasQuorum, SettlementInvariant,
     LockedHasQuorum
<1>5. ASSUME NEW r \in Requests, Enter(r) \/ Confirm(r) \/ Abandon(r) \/ RequestFails(r)
      PROVE  BatchHasQuorum'
  BY <1>1, <1>5 DEF Enter, EnterBegin, EnterFindBattle, EnterCreateBattle, EnterCheckEntry,
     EnterFindPending, EnterDeletePending, Delete, EnterInsert, Confirm, ConfirmBegin,
     ConfirmCommit, Abandon, AbandonBegin, AbandonCommit, RequestFails
<1>6. CASE World \/ UNCHANGED vars
  BY <1>1, <1>6 DEF World, ReachLock, CloseTrading, ReportOutcome, vars
<1>7. ASSUME NEW m \in Markets, NEW rpcOk \in BOOLEAN,
             LockOne(m, rpcOk) \/ ResolveVoid(m) \/ ResolveSettle(m) \/ ResolveSkip(m)
      PROVE  BatchHasQuorum'
  BY <1>2, <1>7 DEF LockOne, ResolveVoid, ResolveSettle, ResolveSkip
<1> QED
  BY <1>3, <1>4, <1>5, <1>6, <1>7 DEF Next, Tick

\* Nothing but that transaction writes a placement, a statistic or an event,
\* or makes a battle RESOLVED.
LEMMA OnlySettleScores ==
  ASSUME TypeOK, [Next]_vars, \A m \in Markets : ~ResolveSettle(m)
  PROVE  /\ UNCHANGED <<placement, user, events>>
         /\ \A m \in Markets : battle'[m].status = "RESOLVED" => battle'[m] = battle[m]
<1> USE DEF world, rows
<1> DEFINE Goal == /\ UNCHANGED <<placement, user, events>>
                   /\ \A m \in Markets : battle'[m].status = "RESOLVED" => battle'[m] = battle[m]
<1>1. CASE UNCHANGED <<battle, placement, user, events>>
  BY <1>1
<1>2. ASSUME NEW m \in Markets, NEW s \in BattleStatus \ {"RESOLVED"}, NEW o, Close(m, s, o),
             UNCHANGED <<placement, user, events>>
      PROVE  Goal
  BY <1>2 DEF Close, TypeOK
<1>3. ASSUME NEW r \in Requests, EnterCreateBattle(r) PROVE Goal
  BY <1>3 DEF EnterCreateBattle, TypeOK
<1>4. ASSUME NEW m \in Markets, NEW rpcOk \in BOOLEAN, LockOne(m, rpcOk) \/ ResolveVoid(m)
      PROVE  Goal
  BY <1>1, <1>2, <1>4 DEF LockOne, ResolveVoid, BattleStatus
<1> HIDE DEF Goal
<1>5. ASSUME NEW r \in Requests, Enter(r) \/ Confirm(r) \/ Abandon(r) \/ RequestFails(r)
      PROVE  Goal
  BY <1>1, <1>3, <1>5 DEF Enter, EnterBegin, EnterFindBattle, EnterCheckEntry,
     EnterFindPending, EnterDeletePending, Delete, EnterInsert, Confirm, ConfirmBegin,
     ConfirmCommit, Abandon, AbandonBegin, AbandonCommit, RequestFails, Goal
<1>6. CASE World \/ Crash \/ UNCHANGED vars
  BY <1>1, <1>6 DEF World, ReachLock, CloseTrading, ReportOutcome, Crash, vars, Goal
<1>7. CASE Tick
  BY <1>1, <1>4, <1>7 DEF Tick, LockBegin, TickAborts, ResolveBegin, ResolveSkip, TickEnd, Goal
<1> QED
  BY <1>5, <1>6, <1>7 DEF Next, Goal

LEMMA ResultsStep ==
  ASSUME TypeOK, TypeOK', EntryInvariant, EntryInvariant', SettlementInvariant,
         ResultsInvariant, [Next]_vars
  PROVE  ResultsInvariant'
<1>1. CASE \E m \in Markets : ResolveSettle(m)
  BY <1>1, SettleKeepsResults
<1>2. CASE \A m \in Markets : ~ResolveSettle(m)
  BY <1>2, OnlyConfirmAdds, OnlySettleScores, BatchKeepsQuorum, ResultsStay DEF ResultsInvariant
<1> QED
  BY <1>1, <1>2

LEMMA ResultsInit ==
  ASSUME Init PROVE ResultsInvariant
<1>1. \A u \in Users, m \in Markets : ~Settled(u, m)
  BY DEF Init, Settled
<1>2. \A u \in Users : ScoredIn(u) = {} /\ PaidIn(u) = {} /\ FirstIn(u) = {}
  BY <1>1 DEF ScoredIn, PaidIn, FirstIn
<1>3. IsFiniteSet({}) /\ Cardinality({}) = 0
  BY FS_EmptySet
<1>4. ResultsCountedOnce
  <2>1. \A u \in Users : /\ user[u].wins = 0 /\ user[u].losses = 0 /\ user[u].energy = 0
                         /\ user[u].battlesWon = 0 /\ Len(events[u]) = 0
    BY DEF Init
  <2>2. \A u \in Users : CountOf(u)
    <3> TAKE u \in Users
    <3>1. /\ Cardinality(ScoredIn(u)) = 0 /\ Cardinality(PaidIn(u)) = 0
          /\ Cardinality(FirstIn(u)) = 0
      BY <1>2, <1>3
    <3> QED
      BY <2>1, <3>1 DEF CountOf
  <2> QED
    BY <2>2, CountedOnce DEF AllCounted
<1>5. RankedByConviction
  BY DEF Init, RankedByConviction
<1>6. \A u \in Users : IsFiniteSet({m \in Markets : Settled(u, m)})
  BY <1>2, <1>3 DEF ScoredIn
<1>7. BatchHasQuorum /\ ScoredHaveEntered /\ OnlyScoredArePlaced
  BY <1>1 DEF Init, WorkerIdle, BatchHasQuorum, ScoredHaveEntered, OnlyScoredArePlaced
<1> QED
  BY <1>4, <1>5, <1>6, <1>7 DEF ResultsInvariant

LEMMA ResultsCorrect == Spec => []ResultsInvariant
<1>1. Init => ResultsInvariant
  BY ResultsInit
<1>2. TypeOK /\ TypeOK' /\ EntryInvariant /\ EntryInvariant' /\ SettlementInvariant
        /\ ResultsInvariant /\ [Next]_vars => ResultsInvariant'
  BY ResultsStep
<1> QED
  BY <1>1, <1>2, TypeCorrect, EntryCorrect, SettlementCorrect, PTL DEF Spec

\* Whatever entries were confirmed between the worker's reading and its
\* transaction, a RESOLVED battle has scored its earliest entries, a quorum at
\* least, and placed the correct ones 1, 2, ... by conviction, then priority.
THEOREM RankingCorrect == Spec => []RankedByConviction
<1>1. ResultsInvariant => RankedByConviction
  BY DEF ResultsInvariant
<1> QED
  BY <1>1, ResultsCorrect, PTL

\* Whatever ticks abort, crash and are repeated, a user's wins, losses, payouts
\* and first places are those of the battles he has a rating event of, one each.
THEOREM CountedOnceCorrect == Spec => []ResultsCountedOnce
<1>1. ResultsInvariant => ResultsCountedOnce
  BY DEF ResultsInvariant
<1> QED
  BY <1>1, ResultsCorrect, PTL

----------------------------------------------------------------------------
\* Battles implements Arena.

\* Arena's variables, as the refinement mapping reads them off the tables.
Stage   == [m \in Markets |-> battle[m].status]
Scores  == [m \in Markets |-> {u \in Users : Settled(u, m)}]
Records == [u \in Users |-> [wins |-> user[u].wins, losses |-> user[u].losses,
                            battlesWon |-> user[u].battlesWon]]

LEMMA SameCardinality == \A S : Contract!Cardinality(S) = Cardinality(S)
BY Zenon DEF Contract!Cardinality, Cardinality

\* A step that only moves the status of one battle, as Arena sees it.
LEMMA StageMoves ==
  ASSUME TypeOK, NEW m \in Markets, NEW s, battle'[m].status = s,
         \A x \in Markets : x # m => battle'[x].status = battle[x].status
  PROVE  Stage' = [Stage EXCEPT ![m] = s]
BY DEF Stage

\* What Arena knows of scores and records does not change with the tables they
\* are read off.
LEMMA NobodyScored ==
  ASSUME UNCHANGED <<user, events>>
  PROVE  UNCHANGED <<Scores, Records>>
BY DEF Settled, Scores, Records

LEMMA RefinesInit ==
  ASSUME Init PROVE Contract!Init
<1>1. \A u \in Users, m \in Markets : ~Settled(u, m)
  BY DEF Init, Settled
<1>2. \A m \in Markets : battle[m].status = "NONE"
  BY DEF Init
<1>3. \A u \in Users : user[u].wins = 0 /\ user[u].losses = 0 /\ user[u].battlesWon = 0
  BY DEF Init
<1> QED
  BY <1>1, <1>2, <1>3 DEF Contract!Init

\* The worker's updates of a battle row, other than that of resolveOne.
LEMMA RefinesMove ==
  ASSUME TypeOK, NEW m \in Markets, NEW s, NEW o, Close(m, s, o), UNCHANGED <<user, events>>,
         \/ battle[m].status = "OPEN" /\ s \in {"LOCKED", "VOIDED"}
         \/ battle[m].status = "LOCKED" /\ s = "VOIDED"
  PROVE  Contract!Next
<1>1. battle'[m].status = s /\ \A x \in Markets : x # m => battle'[x].status = battle[x].status
  BY DEF Close, TypeOK
<1>2. Stage' = [Stage EXCEPT ![m] = s]
  BY <1>1, StageMoves
<1>3. CASE battle[m].status = "OPEN" /\ s = "LOCKED"
  <2>1. Contract!Lock(m)
    BY <1>2, <1>3, NobodyScored DEF Contract!Lock, Contract!Move, Stage, Scores, Records
  <2> QED
    BY <2>1 DEF Contract!Next
<1>4. CASE s = "VOIDED"
  <2>1. Contract!Void(m)
    BY <1>2, <1>4, NobodyScored DEF Contract!Void, Contract!Move, Stage, Scores, Records
  <2> QED
    BY <2>1 DEF Contract!Next
<1> QED
  BY <1>3, <1>4

\* The transaction of resolveOne settles the battle: its roster are the users
\* of the entries the worker read, its winners those placed, its champion the
\* one placed first.
LEMMA RefinesSettle ==
  ASSUME TypeOK, EntryInvariant, SettlementInvariant, BatchHasQuorum,
         NEW m \in Markets, ResolveSettle(m)
  PROVE  Contract!Settle(m)
<1> DEFINE n == worker.seen[m]
           place(i) == Placement(Roster(m), Winner(m), i)
           who(i) == Roster(m)[i].user
           R == Right(Roster(m), n, Winner(m))
           winners == {who(i) : i \in R}
           champions == {who(i) : i \in {k \in R : place(k) = 1}}
<1>1. /\ m \in worker.todo /\ worker.pc = "resolve"
      /\ \A x \in Markets \ {m} : battle'[x] = battle[x]
      /\ battle'[m].status = "RESOLVED"
      /\ \A i \in 1 .. n :
           user'[who(i)] = Scored(user[who(i)], worker.rating[who(i)], place(i), m)
      /\ \A u \in Users \ OnRoster(m) : user'[u] = user[u]
      /\ \A u \in Users :
           /\ ~Settled(u, m)
           /\ \A x \in Markets :
                Settled(u, x)' <=> Settled(u, x) \/ (x = m /\ u \in OnRoster(m))
  BY SettleWrites
<1>2. /\ n \in Nat /\ n >= MinEntrants /\ battle[m].status = "LOCKED"
      /\ DOMAIN Roster(m) = 1 .. n /\ OnRoster(m) \subseteq Users
      /\ \A i \in 1 .. n : /\ Roster(m)[i].confidence \in Int /\ who(i) \in Users
                           /\ IndexOf(m, who(i)) = i
  BY <1>1, RosterIsGood
<1>3. /\ IsFiniteSet(R) /\ Cardinality(R) \in Nat
      /\ {place(i) : i \in R} = 1 .. Cardinality(R)
      /\ \A i \in 1 .. n \ R : place(i) = 0
      /\ \A i, j \in R : place(i) = place(j) => i = j
  BY <1>2, Ranks
<1>4. OnRoster(m) = {who(i) : i \in 1 .. n}
  BY DEF OnRoster
<1>5. R \subseteq 1 .. n
  BY DEF Right
<1>6. \A i, j \in 1 .. n : who(i) = who(j) => i = j
  BY <1>2
<1> HIDE DEF n, place, who, R
<1>7. Cardinality(OnRoster(m)) = n /\ IsFiniteSet(OnRoster(m))
  <2> DEFINE f == [i \in 1 .. n |-> who(i)]
  <2>1. f \in Bijection(1 .. n, OnRoster(m))
    BY <1>4, <1>6 DEF Bijection, Injection, IsInjective, Surjection
  <2>2. IsFiniteSet(1 .. n) /\ Cardinality(1 .. n) = n
    BY <1>2, FS_Interval, MinEntrantsAssumption
  <2> QED
    BY <2>1, <2>2, FS_Bijection DEF ExistsBijection
<1>8. Cardinality(champions) = Contract!One(winners # {})
  <2>1. CASE R = {}
    <3>1. champions = {} /\ winners = {}
      BY <2>1
    <3> QED
      BY <3>1, FS_EmptySet DEF Contract!One
  <2>2. CASE R # {}
    <3>1. Cardinality(R) # 0
      BY <1>3, <2>2, FS_EmptySet
    <3>2. PICK i \in R : place(i) = 1
      BY <1>3, <3>1
    <3>3. champions = {who(i)}
      BY <1>3, <3>2
    <3>4. winners # {}
      BY <2>2
    <3> QED
      BY <3>3, <3>4, FS_Singleton DEF Contract!One
  <2> QED
    BY <2>1, <2>2
<1>9. champions \subseteq winners /\ winners \subseteq OnRoster(m)
  BY <1>4, <1>5
<1>10. \A i \in 1 .. n : (who(i) \in winners <=> place(i) # 0)
                        /\ (who(i) \in champions <=> place(i) = 1)
  <2>1. \A i \in R : place(i) \in Nat /\ place(i) # 0
    BY <1>3
  <2> QED
    BY <1>3, <1>5, <1>6, <2>1
<1> HIDE DEF winners, champions
<1>11. \A u \in Users :
         /\ user'[u].wins = user[u].wins + Contract!One(u \in winners)
         /\ user'[u].losses = user[u].losses + Contract!One(u \in OnRoster(m) \ winners)
         /\ user'[u].battlesWon = user[u].battlesWon + Contract!One(u \in champions)
  <2> TAKE u \in Users
  <2>1. user[u].wins \in Nat /\ user[u].losses \in Nat /\ user[u].battlesWon \in Nat
    BY DEF TypeOK, UserRows
  <2>2. CASE u \notin OnRoster(m)
    <3>1. user'[u] = user[u] /\ u \notin winners /\ u \notin champions
      BY <1>1, <1>9, <2>2
    <3> QED
      BY <2>1, <2>2, <3>1 DEF Contract!One
  <2>3. CASE u \in OnRoster(m)
    <3>1. PICK i \in 1 .. n : who(i) = u
      BY <1>4, <2>3
    <3>2. user'[u] = Scored(user[u], worker.rating[u], place(i), m)
      BY <1>1, <3>1
    <3>3. /\ user'[u].wins = user[u].wins + (IF place(i) # 0 THEN 1 ELSE 0)
          /\ user'[u].losses = user[u].losses + (IF place(i) = 0 THEN 1 ELSE 0)
          /\ user'[u].battlesWon = user[u].battlesWon + (IF place(i) = 1 THEN 1 ELSE 0)
      BY <3>2 DEF Scored
    <3>4. (u \in winners <=> place(i) # 0) /\ (u \in champions <=> place(i) = 1)
      BY <1>10, <3>1
    <3> QED
      BY <2>3, <3>3, <3>4 DEF Contract!One
  <2> QED
    BY <2>2, <2>3
<1>12. Stage' = [Stage EXCEPT ![m] = "RESOLVED"]
  BY <1>1, StageMoves
<1>13. Scores' = [Scores EXCEPT ![m] = OnRoster(m)]
  <2>1. {u \in Users : Settled(u, m)'} = OnRoster(m)
    BY <1>1, <1>2
  <2>2. \A x \in Markets : x # m =>
          {u \in Users : Settled(u, x)'} = {u \in Users : Settled(u, x)}
    BY <1>1
  <2> QED
    BY <2>1, <2>2 DEF Scores
<1>14. Records' = [u \in Users |->
         [wins       |-> Records[u].wins + Contract!One(u \in winners),
          losses     |-> Records[u].losses + Contract!One(u \in OnRoster(m) \ winners),
          battlesWon |-> Records[u].battlesWon + Contract!One(u \in champions)]]
  BY <1>11 DEF Records
<1>15. Contract!Move(m, "LOCKED", "RESOLVED")
  BY <1>2, <1>12 DEF Contract!Move, Stage
<1>16. PICK roster, won, first : roster = OnRoster(m) /\ won = winners /\ first = champions
  OBVIOUS
<1>17. /\ roster \in SUBSET Users /\ first \in SUBSET Users /\ won \in SUBSET roster
       /\ first \subseteq won
  BY <1>2, <1>9, <1>16
<1>18. /\ Contract!Cardinality(roster) >= MinEntrants
       /\ Contract!Cardinality(first) = Contract!One(won # {})
  BY <1>2, <1>7, <1>8, <1>16, SameCardinality
<1>19. /\ Scores' = [Scores EXCEPT ![m] = roster]
       /\ Records' = [u \in Users |->
            [wins       |-> Records[u].wins + Contract!One(u \in won),
             losses     |-> Records[u].losses + Contract!One(u \in roster \ won),
             battlesWon |-> Records[u].battlesWon + Contract!One(u \in first)]]
  BY <1>13, <1>14, <1>16
<1> QED
  BY ONLY <1>15, <1>17, <1>18, <1>19, ZenonT(60) DEF Contract!Settle, Scores, Records

LEMMA RefinesStutter ==
  ASSUME UNCHANGED <<battle, user, events>>
  PROVE  UNCHANGED Contract!vars
BY NobodyScored DEF Contract!vars, Stage, Scores, Records

\* Every step is one of Arena or one it does not see.
LEMMA RefinesStep ==
  ASSUME TypeOK, EntryInvariant, SettlementInvariant, BatchHasQuorum, [Next]_vars
  PROVE  [Contract!Next]_(Contract!vars)
<1> USE DEF world, rows
<1>1. CASE UNCHANGED <<battle, user, events>>
  BY <1>1, RefinesStutter
<1>2. ASSUME NEW r \in Requests, EnterCreateBattle(r), ~UNCHANGED battle PROVE Contract!Next
  <2>1. PICK m \in Markets : m = req[r].market
    BY <1>2 DEF EnterCreateBattle, At, TypeOK, RequestState, EnterSteps
  <2>2. /\ battle[m].status = "NONE" /\ UNCHANGED <<user, events>>
        /\ battle' = [battle EXCEPT ![m].status = "OPEN"]
    BY <1>2, <2>1 DEF EnterCreateBattle
  <2>3. battle'[m].status = "OPEN"
        /\ \A x \in Markets : x # m => battle'[x].status = battle[x].status
    BY <2>2 DEF TypeOK
  <2>4. Stage' = [Stage EXCEPT ![m] = "OPEN"]
    BY <2>3, StageMoves
  <2>5. Contract!Open(m)
    BY <2>2, <2>4, NobodyScored DEF Contract!Open, Contract!Move, Stage, Scores, Records
  <2> QED
    BY <2>5 DEF Contract!Next
<1>3. ASSUME NEW m \in Markets, NEW rpcOk \in BOOLEAN, LockOne(m, rpcOk), ~UNCHANGED battle
      PROVE  Contract!Next
  <2>1. battle[m].status = "OPEN" /\ UNCHANGED <<user, events>>
    BY <1>3 DEF LockOne, SettlementInvariant, BatchStillValid
  <2>2. Close(m, "VOIDED", "insufficient_entrants") \/ Close(m, "LOCKED", "none")
    BY <1>3 DEF LockOne
  <2> QED
    BY <2>1, <2>2, RefinesMove
<1>4. ASSUME NEW m \in Markets, ResolveVoid(m) PROVE Contract!Next
  <2>1. battle[m].status = "LOCKED" /\ UNCHANGED <<user, events>>
        /\ Close(m, "VOIDED", "dreamdex_void")
    BY <1>4 DEF ResolveVoid, SettlementInvariant, BatchStillValid
  <2> QED
    BY <2>1, RefinesMove
<1>5. ASSUME NEW m \in Markets, ResolveSettle(m) PROVE Contract!Next
  BY <1>5, RefinesSettle DEF Contract!Next
<1>6. ASSUME NEW m \in Markets, NEW rpcOk \in BOOLEAN, LockOne(m, rpcOk)
      PROVE  [Contract!Next]_(Contract!vars)
  <2>1. CASE UNCHANGED battle
    BY <1>1, <1>6, <2>1 DEF LockOne
  <2> QED
    BY <1>3, <1>6, <2>1
<1>7. ASSUME NEW r \in Requests, Enter(r) \/ Confirm(r) \/ Abandon(r) \/ RequestFails(r)
      PROVE  [Contract!Next]_(Contract!vars)
  <2>1. CASE EnterCreateBattle(r)
    <3>1. CASE UNCHANGED battle
      BY <1>1, <2>1, <3>1 DEF EnterCreateBattle
    <3> QED
      BY <1>2, <2>1, <3>1
  <2> QED
    BY <1>1, <1>7, <2>1 DEF Enter, EnterBegin, EnterFindBattle, EnterCheckEntry,
       EnterFindPending, EnterDeletePending, Delete, EnterInsert, Confirm, ConfirmBegin,
       ConfirmCommit, Abandon, AbandonBegin, AbandonCommit, RequestFails
<1>8. CASE World \/ Crash \/ UNCHANGED vars
  BY <1>1, <1>8 DEF World, ReachLock, CloseTrading, ReportOutcome, Crash, vars
<1>9. CASE Tick
  BY <1>1, <1>4, <1>5, <1>6, <1>9 DEF Tick, LockBegin, TickAborts, ResolveBegin, ResolveSkip, TickEnd
<1> QED
  BY <1>7, <1>8, <1>9 DEF Next

\* However requests, ticks, failures and crashes interleave, a battle behaves
\* as Arena promises: it is settled at once and for good, by a quorum, with one
\* champion if anyone is right, or it leaves no trace in the statistics.
THEOREM Refines == Spec => ImplementsArena
<1>1. Init => Contract!Init
  BY RefinesInit
<1>2. TypeOK /\ EntryInvariant /\ SettlementInvariant /\ ResultsInvariant /\ [Next]_vars
        => [Contract!Next]_(Contract!vars)
  BY RefinesStep DEF ResultsInvariant
<1> QED
  BY <1>1, <1>2, TypeCorrect, EntryCorrect, SettlementCorrect, ResultsCorrect, PTL
     DEF Spec, ImplementsArena, Contract!Spec
=============================================================================
