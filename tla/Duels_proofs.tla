---------------------------- MODULE Duels_proofs ----------------------------
(***************************************************************************)
(* Theorems about Duels, for every number of users, markets, prediction    *)
(* rows and concurrent requests; about what the pages of DuelViews show    *)
(* next to it; and that it implements Bout by the mapping of               *)
(* DuelsRefinement.                                                        *)
(***************************************************************************)
EXTENDS DuelViews, DuelsRefinement, FiniteSetTheorems, TLAPS

\* The states an idle request goes to, and those a running one goes on to.
LEMMA StartType ==
  /\ Idle \in RequestState
  /\ \A u \in Users, m \in Markets :
       [pc |-> "insert", user |-> u, market |-> m, prediction |-> None] \in RequestState
  /\ \A u \in Users, o \in Predictions :
       [pc |-> "insertChallenger", user |-> u, market |-> None, prediction |-> o] \in RequestState
  /\ \A p \in Predictions :
       [Idle EXCEPT !.pc = "verifyFill", !.prediction = p] \in RequestState
BY DEF Idle, RequestState, InsertSteps, FillSteps

LEMMA FillStepType ==
  ASSUME NEW s \in RequestState, s.pc \in FillSteps, NEW to \in {"takeRead", "takeCommit"}
  PROVE  [s EXCEPT !.pc = to] \in RequestState
BY DEF RequestState, InsertSteps, FillSteps

LEMMA GoesType ==
  ASSUME TypeOK, NEW r \in Requests, NEW s \in RequestState, Goes(r, s)
  PROVE  req' \in [Requests -> RequestState]
BY DEF TypeOK, Goes

\* The User row user.update leaves behind is a User row.
LEMMA ScoredType ==
  ASSUME NEW row \in UserRows, NEW before \in SUBSET Predictions,
         NEW won \in BOOLEAN, NEW o \in Predictions
  PROVE  Scored(row, before, won, o) \in UserRows
BY DEF Scored, UserRows

LEMMA InsertType ==
  ASSUME TypeOK, NEW p \in Predictions, NEW c \in Calls, Insert(p, c)
  PROVE  /\ status' \in [Predictions -> RowStatus]
         /\ call' \in [Predictions -> Calls \cup {None}]
BY DEF TypeOK, Insert, RowStatus

\* A duel row that ends is one.
LEMMA DuelTypes ==
  ASSUME NEW row \in DuelRows
  PROVE  /\ [row EXCEPT !.status = "VOIDED"] \in DuelRows
         /\ \A u \in Users : [row EXCEPT !.status = "RESOLVED", !.winner = u] \in DuelRows
BY DEF DuelRows, DuelStatus

LEMMA WorkerIdleType == WorkerIdle \in WorkerState
BY DEF WorkerIdle, WorkerState

----------------------------------------------------------------------------
\* Types.  What ChallengeInsert and resolveOne write is a call, and a user,
\* only because the rows they rely on exist.

\* The two sides of a LOCKED duel.
LEMMA Sides ==
  ASSUME TypeOK, DuelInvariant, NEW o \in Predictions, HasDuel(o)
  PROVE  /\ duel[o].challenger \in Predictions
         /\ call[o] \in Calls /\ call[duel[o].challenger] \in Calls
         /\ WinnerOf(o) \in Users /\ LoserOf(o) \in Users /\ WinnerOf(o) # LoserOf(o)
<1>1. duel[o].challenger \in Predictions /\ status[duel[o].challenger] = "LOCKED"
      /\ call[duel[o].challenger].challenging = o
  BY DEF DuelInvariant, DuelsAreLocked
<1>2. o # None
  BY NoneAssumption
<1>3. call[duel[o].challenger] \in Calls
  BY <1>1 DEF TypeOK, DuelInvariant, RowsHaveCalls
<1>4. status[o] # "FREE" /\ call[duel[o].challenger].user # call[o].user
  BY <1>1, <1>2 DEF DuelInvariant, ChallengesAreOpposed, IsChallenge
<1>5. call[o] \in Calls
  BY <1>4 DEF TypeOK, DuelInvariant, RowsHaveCalls
<1> QED
  BY <1>1, <1>3, <1>4, <1>5 DEF WinnerOf, LoserOf, Calls

LEMMA TypeStep ==
  ASSUME TypeOK, DuelInvariant, [Next]_vars
  PROVE  TypeOK'
<1> USE DEF world, rows
<1>0. \A r \in Requests : req[r] \in RequestState
  BY DEF TypeOK
<1>1. ASSUME NEW p \in Predictions, WindowEnds(p) PROVE TypeOK'
  BY <1>1 DEF TypeOK, WindowEnds
<1>2. ASSUME NEW m \in Markets, HeadroomBegins(m) PROVE TypeOK'
  BY <1>2 DEF TypeOK, HeadroomBegins
<1>3. ASSUME NEW m \in Markets, CloseTrading(m) PROVE TypeOK'
  BY <1>3 DEF TypeOK, CloseTrading, ChainStatus
<1>4. ASSUME NEW m \in Markets, ReportOutcome(m) PROVE TypeOK'
  BY <1>4 DEF TypeOK, ReportOutcome, ChainStatus
<1>5. ASSUME NEW r \in Requests, NEW u \in Users, NEW m \in Markets, CreateBegin(r, u, m)
      PROVE  TypeOK'
  BY <1>5, StartType, GoesType DEF TypeOK, CreateBegin
<1>6. ASSUME NEW r \in Requests, CreateInsert(r) PROVE TypeOK'
  <2>1. req' \in [Requests -> RequestState]
    BY <1>6, StartType, GoesType DEF CreateInsert
  <2>2. req[r].user \in Users /\ req[r].market \in Markets
    BY <1>6, <1>0 DEF CreateInsert, At, RequestState, InsertSteps
  <2>3. PICK p \in Predictions, d \in Directions :
          Insert(p, [user |-> req[r].user, market |-> req[r].market,
                     direction |-> d, challenging |-> None])
    BY <1>6 DEF CreateInsert
  <2>4. [user |-> req[r].user, market |-> req[r].market,
         direction |-> d, challenging |-> None] \in Calls
    BY <2>2, <2>3 DEF Calls
  <2> QED
    BY <1>6, <2>1, <2>3, <2>4, InsertType DEF TypeOK, CreateInsert
<1>7. ASSUME NEW r \in Requests, NEW u \in Users, NEW o \in Predictions, ChallengeBegin(r, u, o)
      PROVE  TypeOK'
  BY <1>7, StartType, GoesType DEF TypeOK, ChallengeBegin
<1>8. ASSUME NEW r \in Requests, ChallengeInsert(r) PROVE TypeOK'
  <2> DEFINE o == req[r].prediction
  <2>1. req' \in [Requests -> RequestState]
    BY <1>8, StartType, GoesType DEF ChallengeInsert
  <2>2. req[r].user \in Users /\ o \in Predictions
    BY <1>8, <1>0 DEF ChallengeInsert, At, RequestState, InsertSteps
  <2>3. call[o] \in Calls
    BY <1>8, <2>2 DEF ChallengeInsert, At, DuelInvariant, RequestsHoldRows, HoldsRow, RowsHaveCalls, TypeOK
  <2>4. PICK p \in Predictions :
          Insert(p, [user |-> req[r].user, market |-> call[o].market,
                     direction |-> Opposite(call[o].direction), challenging |-> o])
    BY <1>8 DEF ChallengeInsert
  <2>5. [user |-> req[r].user, market |-> call[o].market,
         direction |-> Opposite(call[o].direction), challenging |-> o] \in Calls
    BY <2>2, <2>3 DEF Calls, Opposite, Directions
  <2> QED
    BY <1>8, <2>1, <2>4, <2>5, InsertType DEF TypeOK, ChallengeInsert
<1>9. ASSUME NEW r \in Requests, NEW p \in Predictions, ConfirmBegin(r, p) PROVE TypeOK'
  BY <1>9, StartType, GoesType DEF TypeOK, ConfirmBegin
<1>10. ASSUME NEW r \in Requests, ConfirmOpen(r) PROVE TypeOK'
  <2>1. req' \in [Requests -> RequestState]
    BY <1>10, StartType, GoesType DEF ConfirmOpen
  <2> QED
    BY <1>10, <2>1 DEF TypeOK, ConfirmOpen, RowStatus
<1>11. ASSUME NEW r \in Requests, NEW from \in FillSteps, NEW to \in {"takeRead", "takeCommit"},
              ConfirmTake(r, from, to)
       PROVE  TypeOK'
  <2>1. req' \in [Requests -> RequestState]
    BY <1>11, <1>0, StartType, FillStepType, GoesType DEF ConfirmTake, At
  <2> QED
    BY <1>11, <2>1 DEF TypeOK, ConfirmTake
<1>12. ASSUME NEW r \in Requests, ConfirmCommit(r) PROVE TypeOK'
  <2>1. req' \in [Requests -> RequestState]
    BY <1>12, StartType, GoesType DEF ConfirmCommit
  <2>2. req[r].prediction \in Predictions
    BY <1>12, <1>0 DEF ConfirmCommit, At, RequestState, FillSteps
  <2>3. [status |-> "LOCKED", challenger |-> req[r].prediction, winner |-> None] \in DuelRows
    BY <2>2 DEF DuelRows, DuelStatus
  <2>4. duel' \in [Predictions -> DuelRows]
    BY <1>12, <2>3 DEF TypeOK, ConfirmCommit
  <2>5. status' \in [Predictions -> RowStatus]
    BY <1>12 DEF TypeOK, ConfirmCommit, RowStatus
  <2> QED
    BY <1>12, <2>1, <2>4, <2>5 DEF TypeOK, ConfirmCommit
<1>13. ASSUME NEW r \in Requests, RequestFails(r) PROVE TypeOK'
  BY <1>13, StartType, GoesType DEF TypeOK, RequestFails
<1>14. CASE ExpireOpen
  BY <1>14 DEF TypeOK, ExpireOpen, RowStatus, WorkerState
<1>15. CASE ResolveBegin
  BY <1>15 DEF TypeOK, ResolveBegin, ResolveBatch, WorkerState, UserRows
<1>16. CASE TickAborts \/ TickEnd
  BY <1>16, WorkerIdleType DEF TypeOK, TickAborts, TickEnd
<1>17. ASSUME NEW o \in Predictions, ResolveVoid(o) PROVE TypeOK'
  <2>1. worker' \in WorkerState
    BY <1>17 DEF TypeOK, ResolveVoid, Done, WorkerState
  <2>2. duel' \in [Predictions -> DuelRows]
    BY <1>17, DuelTypes DEF TypeOK, ResolveVoid
  <2> QED
    BY <1>17, <2>1, <2>2 DEF TypeOK, ResolveVoid
<1>18. ASSUME NEW o \in Predictions, ResolveSettle(o) PROVE TypeOK'
  <2> DEFINE event(u) == [duel |-> o, before |-> worker.rating[u],
                          after |-> worker.rating[u] \cup {o}]
             w == WinnerOf(o)
             l == LoserOf(o)
  <2>1. w \in Users /\ l \in Users
    BY <1>18, Sides DEF ResolveSettle, DuelInvariant, BatchStillValid, HasDuel
  <2>2. worker' \in WorkerState
    BY <1>18 DEF TypeOK, ResolveSettle, Done, WorkerState
  <2>3. duel' \in [Predictions -> DuelRows]
    <3>1. duel' = [duel EXCEPT ![o] = [@ EXCEPT !.status = "RESOLVED", !.winner = w]]
      BY <1>18 DEF ResolveSettle, Finished
    <3> HIDE DEF w
    <3> QED
      BY <2>1, <3>1, DuelTypes DEF TypeOK
  <2>4. worker.rating \in [Users -> SUBSET Predictions]
    BY DEF TypeOK, WorkerState
  <2>5. \A u \in Users : event(u) \in EventRows
    BY <2>4 DEF EventRows
  <2> HIDE DEF event
  <2>6. events' \in [Users -> Seq(EventRows)]
    <3>1. events' = [events EXCEPT ![w] = Append(@, event(w)), ![l] = Append(@, event(l))]
      BY <1>18 DEF ResolveSettle, event
    <3>2. events \in [Users -> Seq(EventRows)]
      BY DEF TypeOK
    <3>3. \A s \in Seq(EventRows), u \in Users : Append(s, event(u)) \in Seq(EventRows)
      BY <2>5
    <3> HIDE DEF w, l
    <3> QED
      BY <2>1, <3>1, <3>2, <3>3
  <2>7. user' \in [Users -> UserRows]
    <3>1. user' = [user EXCEPT ![w] = Scored(@, worker.rating[w], TRUE, o),
                               ![l] = Scored(@, worker.rating[l], FALSE, o)]
      BY <1>18 DEF ResolveSettle
    <3>2. user \in [Users -> UserRows]
      BY DEF TypeOK
    <3>3. \A row \in UserRows, u \in Users, won \in BOOLEAN :
            Scored(row, worker.rating[u], won, o) \in UserRows
      BY <2>4, ScoredType
    <3> HIDE DEF w, l
    <3> QED
      BY <2>1, <3>1, <3>2, <3>3
  <2> QED
    BY <1>18, <2>2, <2>3, <2>6, <2>7 DEF TypeOK, ResolveSettle
<1>19. ASSUME NEW o \in Predictions, ResolveSkip(o) PROVE TypeOK'
  BY <1>19 DEF TypeOK, ResolveSkip, Done, WorkerState
<1>20. CASE Crash
  BY <1>20, StartType, WorkerIdleType DEF TypeOK, Crash
<1>21. CASE UNCHANGED vars
  BY <1>21 DEF TypeOK, vars
<1> QED
  BY <1>1, <1>2, <1>3, <1>4, <1>5, <1>6, <1>7, <1>8, <1>9, <1>10, <1>11, <1>12, <1>13, <1>14,
     <1>15, <1>16, <1>17, <1>18, <1>19, <1>20, <1>21
     DEF Next, World, Request, Tick, ConfirmFirstRead, ConfirmSecondRead, FillSteps

----------------------------------------------------------------------------
\* The race for an open call.

\* Rows are made, and never unmade or made anew.
RowsPersist ==
  \A p \in Predictions : status[p] # "FREE" => status'[p] # "FREE" /\ call'[p] = call[p]

\* One request moves on, to a step whose row exists.
LEMMA RequestMoves ==
  ASSUME TypeOK, RequestsHoldRows, RowsPersist, NEW r \in Requests,
         NEW s \in RequestState, Goes(r, s), HoldsRow(s)
  PROVE  RequestsHoldRows'
<1>1. ASSUME NEW t \in RequestState, HoldsRow(t) PROVE HoldsRow(t)'
  BY <1>1 DEF HoldsRow, IsChallenge, RowsPersist, RequestState, FillSteps, InsertSteps
<1>2. \A q \in Requests : req'[q] = (IF q = r THEN s ELSE req[q]) /\ req[q] \in RequestState
  BY DEF Goes, TypeOK
<1> QED
  BY <1>1, <1>2 DEF RequestsHoldRows, HoldsRow, IsChallenge

LEMMA IdleHolds == Idle \in RequestState /\ HoldsRow(Idle)
BY StartType DEF Idle, HoldsRow, FillSteps

\* A step that writes no row, and whose requests and worker keep to theirs.
LEMMA RowsUntouched ==
  ASSUME DuelInvariant, UNCHANGED <<status, call, duel>>, RequestsHoldRows', BatchStillValid'
  PROVE  DuelInvariant'
BY DEF DuelInvariant, RowsHaveCalls, ChallengesAreOpposed, DuelsAreLocked, IsChallenge, HasDuel

LEMMA RequestReads ==
  ASSUME TypeOK, DuelInvariant, UNCHANGED <<status, call, duel, worker>>, NEW r \in Requests,
         NEW s \in RequestState, Goes(r, s), HoldsRow(s)
  PROVE  DuelInvariant'
<1>1. RowsPersist
  BY DEF RowsPersist
<1>2. RequestsHoldRows'
  BY <1>1, RequestMoves DEF DuelInvariant
<1>3. BatchStillValid'
  BY DEF DuelInvariant, BatchStillValid
<1> QED
  BY <1>2, <1>3, RowsUntouched

\* What a challenge is made for.
LEMMA Challenges ==
  ASSUME TypeOK, DuelInvariant, NEW q \in Predictions, status[q] # "FREE",
         call[q].challenging # None
  PROVE  LET x == call[q].challenging IN
         /\ call[q] \in Calls /\ call[x] \in Calls /\ x \in Predictions
         /\ status[x] # "FREE" /\ call[x].challenging = None
         /\ call[q].user # call[x].user
         /\ call[q].market = call[x].market
         /\ call[q].direction # call[x].direction
<1>1. call[q] \in Calls
  BY DEF TypeOK, DuelInvariant, RowsHaveCalls
<1>2. call[q].challenging \in Predictions
  BY <1>1 DEF Calls
<1>3. status[call[q].challenging] # "FREE"
  BY DEF DuelInvariant, ChallengesAreOpposed, IsChallenge
<1>4. call[call[q].challenging] \in Calls
  BY <1>2, <1>3 DEF TypeOK, DuelInvariant, RowsHaveCalls
<1> QED
  BY <1>1, <1>2, <1>3, <1>4 DEF DuelInvariant, ChallengesAreOpposed, IsChallenge

\* A row is made: an open call, or a challenge to one.
LEMMA RowMade ==
  ASSUME TypeOK, DuelInvariant, UNCHANGED <<duel, worker>>, NEW r \in Requests, Goes(r, Idle),
         NEW p \in Predictions, NEW c \in Calls, Insert(p, c),
         c.challenging # None =>
           LET o == c.challenging IN
           /\ status[o] # "FREE" /\ ~IsChallenge(o)
           /\ c.user # call[o].user /\ c.market = call[o].market
           /\ c.direction # call[o].direction
  PROVE  DuelInvariant'
<1>1. /\ status[p] = "FREE"
      /\ \A q \in Predictions : status'[q] = (IF q = p THEN "PENDING" ELSE status[q])
                               /\ call'[q] = (IF q = p THEN c ELSE call[q])
  BY DEF Insert, TypeOK
<1>2. c # None
  BY NoneAssumption
<1>3. RowsPersist
  BY <1>1 DEF RowsPersist
<1>4. RequestsHoldRows'
  BY <1>3, IdleHolds, RequestMoves DEF DuelInvariant
<1>5. RowsHaveCalls'
  BY <1>1, <1>2 DEF DuelInvariant, RowsHaveCalls
<1>6. ChallengesAreOpposed'
  <2> SUFFICES ASSUME NEW q \in Predictions, status'[q] # "FREE", call'[q].challenging # None
               PROVE  LET x == call'[q].challenging IN
                      /\ status'[q] \in {"PENDING", "LOCKED"}
                      /\ status'[x] # "FREE" /\ call'[x].challenging = None
                      /\ call'[q].user # call'[x].user
                      /\ call'[q].market = call'[x].market
                      /\ call'[q].direction # call'[x].direction
    BY DEF ChallengesAreOpposed, IsChallenge
  <2>1. CASE q = p
    <3>1. call'[q] = c /\ status'[q] = "PENDING" /\ c.challenging \in Predictions
      BY <1>1, <2>1 DEF Calls
    <3>2. c.challenging # p
      BY <1>1, <2>1
    <3> QED
      BY <1>1, <3>1, <3>2 DEF IsChallenge
  <2>2. CASE q # p
    <3>1. call'[q] = call[q] /\ status'[q] = status[q]
      BY <1>1, <2>2
    <3>2. status[q] \in {"PENDING", "LOCKED"}
      BY <3>1 DEF DuelInvariant, ChallengesAreOpposed, IsChallenge
    <3>3. call[q].challenging # p
      BY <1>1, <3>1, Challenges
    <3> QED
      BY <1>1, <3>1, <3>2, <3>3, Challenges
  <2> QED
    BY <2>1, <2>2
<1>7. DuelsAreLocked'
  <2>1. \A o \in Predictions : HasDuel(o)' <=> HasDuel(o)
    BY DEF HasDuel
  <2> QED
    BY <1>1, <2>1 DEF DuelInvariant, DuelsAreLocked, IsChallenge
<1>8. BatchStillValid'
  BY DEF DuelInvariant, BatchStillValid
<1> QED
  BY <1>4, <1>5, <1>6, <1>7, <1>8 DEF DuelInvariant

\* Open calls are confirmed, again and again, or expire; no challenge is.
LEMMA OpenCallsMove ==
  ASSUME TypeOK, DuelInvariant, UNCHANGED <<call, duel>>, RequestsHoldRows', BatchStillValid',
         \A p \in Predictions : status'[p] # status[p] =>
           ~IsChallenge(p) /\ status[p] # "FREE" /\ status'[p] \in {"OPEN", "EXPIRED"}
  PROVE  DuelInvariant'
<1>1. \A p \in Predictions : status[p] = "FREE" <=> status'[p] = "FREE"
  OBVIOUS
<1>2. RowsHaveCalls'
  BY <1>1 DEF DuelInvariant, RowsHaveCalls
<1>3. \A p \in Predictions : IsChallenge(p) => status'[p] = status[p]
  OBVIOUS
<1>4. \A p \in Predictions : IsChallenge(p)' <=> IsChallenge(p)
  BY DEF IsChallenge
<1>5. ChallengesAreOpposed'
  <2>1. \A p \in Predictions : status[p] # "FREE" /\ IsChallenge(p) => call[p].challenging \in Predictions
    BY DEF TypeOK, DuelInvariant, RowsHaveCalls, IsChallenge, Calls
  <2> QED
    BY <1>1, <1>3, <1>4, <2>1 DEF DuelInvariant, ChallengesAreOpposed
<1>6. DuelsAreLocked'
  <2>1. \A o \in Predictions : HasDuel(o)' <=> HasDuel(o)
    BY DEF HasDuel
  <2>2. \A o \in Predictions : HasDuel(o) => IsChallenge(duel[o].challenger)
    BY NoneAssumption DEF DuelInvariant, DuelsAreLocked, IsChallenge
  <2> QED
    BY <1>3, <1>4, <2>1, <2>2 DEF DuelInvariant, DuelsAreLocked
<1> QED
  BY <1>2, <1>5, <1>6 DEF DuelInvariant

\* The transaction of confirmChallenge gives an original its one duel.
LEMMA DuelMade ==
  ASSUME TypeOK, DuelInvariant, UNCHANGED <<call, worker>>, RequestsHoldRows',
         NEW p \in Predictions, NEW o \in Predictions,
         status[p] # "FREE", call[p].challenging = o, ~HasDuel(o),
         \A q \in Predictions : status'[q] = IF q = p \/ q = o THEN "LOCKED" ELSE status[q],
         \A q \in Predictions : duel'[q] =
           IF q = o THEN [status |-> "LOCKED", challenger |-> p, winner |-> None] ELSE duel[q]
  PROVE  DuelInvariant'
<1>1. IsChallenge(p) /\ o # None
  BY NoneAssumption DEF IsChallenge
<1>2. status[o] # "FREE" /\ ~IsChallenge(o) /\ o # p
  BY <1>1 DEF DuelInvariant, ChallengesAreOpposed
<1>3. \A q \in Predictions : status'[q] = "FREE" <=> status[q] = "FREE"
  BY <1>2
<1>4. call' = call
  OBVIOUS
<1>5. \A q \in Predictions : IsChallenge(q)' <=> IsChallenge(q)
  BY DEF IsChallenge
<1>6. RowsHaveCalls'
  BY <1>3, <1>4 DEF DuelInvariant, RowsHaveCalls
<1>7. ChallengesAreOpposed'
  <2> SUFFICES ASSUME NEW q \in Predictions, status[q] # "FREE", call[q].challenging # None
               PROVE  LET x == call[q].challenging IN
                      /\ status'[q] \in {"PENDING", "LOCKED"}
                      /\ status'[x] # "FREE" /\ call[x].challenging = None
                      /\ call[q].user # call[x].user
                      /\ call[q].market = call[x].market
                      /\ call[q].direction # call[x].direction
    BY <1>3, <1>4 DEF ChallengesAreOpposed, IsChallenge
  <2>1. status'[q] \in {"PENDING", "LOCKED"}
    BY DEF DuelInvariant, ChallengesAreOpposed, IsChallenge
  <2> QED
    BY <1>3, <2>1, Challenges
<1>8. DuelsAreLocked'
  <2>1. \A q \in Predictions : HasDuel(q)' <=> HasDuel(q) \/ q = o
    BY <1>4 DEF HasDuel
  <2>2. ASSUME NEW q \in Predictions, ~HasDuel(q)' PROVE duel'[q] = NoDuel
    BY <1>4, <2>1, <2>2 DEF DuelInvariant, DuelsAreLocked
  <2>3. ASSUME NEW q \in Predictions, HasDuel(q)'
        PROVE  /\ duel'[q].challenger \in Predictions
               /\ status'[duel'[q].challenger] = "LOCKED"
               /\ call'[duel'[q].challenger].challenging = q
    <3>1. CASE q = o
      BY <1>4, <3>1
    <3>2. CASE q # o
      <4>1. HasDuel(q) /\ duel'[q] = duel[q]
        BY <2>1, <2>3, <3>2
      <4> QED
        BY <1>4, <4>1 DEF DuelInvariant, DuelsAreLocked
    <3> QED
      BY <3>1, <3>2
  <2>4. ASSUME NEW q \in Predictions, status'[q] = "LOCKED", IsChallenge(q)'
        PROVE  duel'[call'[q].challenging].challenger = q
    <3>1. CASE q = p
      BY <1>4, <3>1
    <3>2. CASE q # p
      <4>1. q # o /\ status[q] = "LOCKED"
        BY <1>2, <1>5, <2>4, <3>2
      <4>2. duel[call[q].challenging].challenger = q
        BY <1>5, <2>4, <4>1 DEF DuelInvariant, DuelsAreLocked
      <4>3. duel[o].challenger = None
        BY DEF DuelInvariant, DuelsAreLocked, NoDuel
      <4>4. call[q].challenging \in Predictions
        BY <1>5, <2>4, <4>1, Challenges DEF IsChallenge
      <4>5. call[q].challenging # o
        BY <4>2, <4>3, NoneAssumption
      <4> QED
        BY <1>4, <4>2, <4>4, <4>5
    <3> QED
      BY <3>1, <3>2
  <2> QED
    BY <2>2, <2>3, <2>4 DEF DuelsAreLocked
<1>9. BatchStillValid'
  BY DEF TypeOK, WorkerState, DuelInvariant, BatchStillValid, HasDuel
<1> QED
  BY <1>6, <1>7, <1>8, <1>9 DEF DuelInvariant

\* A duel of the batch is ended by the worker, which alone ends duels.
LEMMA DuelEnds ==
  ASSUME TypeOK, DuelInvariant, UNCHANGED <<status, call, req>>,
         worker.pc = "resolve", NEW o \in worker.todo, Done(o),
         NEW s \in {"RESOLVED", "VOIDED"}, NEW w,
         \A q \in Predictions : duel'[q] =
           IF q = o THEN [duel[o] EXCEPT !.status = s, !.winner = w] ELSE duel[q]
  PROVE  DuelInvariant'
<1>1. o \in Predictions /\ duel[o].status = "LOCKED"
  BY DEF TypeOK, WorkerState, DuelInvariant, BatchStillValid
<1>2. duel[o] \in DuelRows
  BY <1>1 DEF TypeOK
<1>3. \A q \in Predictions : (duel'[q].status = IF q = o THEN s ELSE duel[q].status)
                           /\ duel'[q].challenger = duel[q].challenger
  BY <1>2 DEF DuelRows
<1>4. worker' = [worker EXCEPT !.todo = @ \ {o}] /\ worker \in WorkerState
  BY DEF Done, TypeOK
<1>5. \A q \in Predictions : HasDuel(q)' <=> HasDuel(q)
  BY <1>1, <1>3 DEF HasDuel
<1>6. DuelsAreLocked'
  <2>1. \A q \in Predictions : ~HasDuel(q)' => duel'[q] = NoDuel
    BY <1>1, <1>5 DEF DuelInvariant, DuelsAreLocked, HasDuel
  <2>2. \A q \in Predictions : status[q] = "LOCKED" /\ IsChallenge(q) =>
          call[q].challenging \in Predictions
    BY Challenges DEF IsChallenge
  <2> QED
    BY <1>3, <1>5, <2>1, <2>2 DEF DuelInvariant, DuelsAreLocked, IsChallenge
<1>7. BatchStillValid'
  <2>1. worker'.pc = "resolve" /\ worker'.todo = worker.todo \ {o} /\ worker.todo \subseteq Predictions
    BY <1>4 DEF WorkerState
  <2> QED
    BY <1>3, <2>1 DEF DuelInvariant, BatchStillValid
<1>8. RowsHaveCalls' /\ RequestsHoldRows' /\ ChallengesAreOpposed'
  BY DEF DuelInvariant, RowsHaveCalls, RequestsHoldRows, HoldsRow, ChallengesAreOpposed, IsChallenge
<1> QED
  BY <1>6, <1>7, <1>8 DEF DuelInvariant

LEMMA DuelStep ==
  ASSUME TypeOK, DuelInvariant, [Next]_vars
  PROVE  DuelInvariant'
<1> USE DEF world, rows
<1>0. \A r \in Requests : req[r] \in RequestState /\ HoldsRow(req[r])
  BY DEF TypeOK, DuelInvariant, RequestsHoldRows
<1>1. CASE UNCHANGED <<status, call, duel, req, worker>>
  BY <1>1, RowsUntouched DEF DuelInvariant, RequestsHoldRows, HoldsRow, IsChallenge, BatchStillValid
<1>2. CASE World \/ UNCHANGED vars
  BY <1>1, <1>2 DEF World, WindowEnds, HeadroomBegins, CloseTrading, ReportOutcome, vars
<1>3. ASSUME NEW r \in Requests, NEW u \in Users, NEW m \in Markets, CreateBegin(r, u, m)
      PROVE  DuelInvariant'
  <2> DEFINE s == [pc |-> "insert", user |-> u, market |-> m, prediction |-> None]
  <2>1. s \in RequestState /\ HoldsRow(s)
    BY StartType DEF HoldsRow, FillSteps
  <2> QED
    BY <1>3, <2>1, RequestReads DEF CreateBegin
<1>4. ASSUME NEW r \in Requests, CreateInsert(r) PROVE DuelInvariant'
  <2>1. req[r].user \in Users /\ req[r].market \in Markets
    BY <1>4, <1>0 DEF CreateInsert, At, RequestState, InsertSteps
  <2>2. PICK p \in Predictions, d \in Directions :
          Insert(p, [user |-> req[r].user, market |-> req[r].market,
                     direction |-> d, challenging |-> None])
    BY <1>4 DEF CreateInsert
  <2> DEFINE c == [user |-> req[r].user, market |-> req[r].market,
                   direction |-> d, challenging |-> None]
  <2>3. c \in Calls /\ c.challenging = None
    BY <2>1, <2>2 DEF Calls
  <2>4. Insert(p, c)
    BY <2>2
  <2>5. UNCHANGED <<duel, worker>> /\ Goes(r, Idle)
    BY <1>4 DEF CreateInsert
  <2> HIDE DEF c
  <2> QED
    BY <2>3, <2>4, <2>5, RowMade
<1>5. ASSUME NEW r \in Requests, NEW u \in Users, NEW o \in Predictions, ChallengeBegin(r, u, o)
      PROVE  DuelInvariant'
  <2> DEFINE s == [pc |-> "insertChallenger", user |-> u, market |-> None, prediction |-> o]
  <2>1. status[o] = "OPEN" /\ call[o].user # u
    BY <1>5 DEF ChallengeBegin, MayChallenge
  <2>2. ~IsChallenge(o)
    BY <2>1 DEF DuelInvariant, ChallengesAreOpposed
  <2>3. s \in RequestState /\ HoldsRow(s)
    BY <2>1, <2>2, StartType DEF HoldsRow, FillSteps
  <2> QED
    BY <1>5, <2>3, RequestReads DEF ChallengeBegin
<1>6. ASSUME NEW r \in Requests, ChallengeInsert(r) PROVE DuelInvariant'
  <2>1. PICK o \in Predictions : o = req[r].prediction
    BY <1>6, <1>0 DEF ChallengeInsert, At, RequestState, InsertSteps
  <2>2. /\ req[r].user \in Users
        /\ status[o] # "FREE" /\ ~IsChallenge(o) /\ call[o].user # req[r].user
    BY <1>6, <1>0, <2>1 DEF ChallengeInsert, At, RequestState, InsertSteps, HoldsRow
  <2>3. call[o] \in Calls
    BY <2>2 DEF TypeOK, DuelInvariant, RowsHaveCalls
  <2>4. PICK p \in Predictions :
          Insert(p, [user |-> req[r].user, market |-> call[o].market,
                     direction |-> Opposite(call[o].direction), challenging |-> o])
    BY <1>6, <2>1 DEF ChallengeInsert
  <2> DEFINE c == [user |-> req[r].user, market |-> call[o].market,
                   direction |-> Opposite(call[o].direction), challenging |-> o]
  <2>5. c \in Calls /\ c.challenging = o /\ c.user = req[r].user /\ c.market = call[o].market
        /\ c.direction # call[o].direction
    BY <2>2, <2>3 DEF Calls, Opposite, Directions
  <2>6. Insert(p, c)
    BY <2>4
  <2>7. UNCHANGED <<duel, worker>> /\ Goes(r, Idle)
    BY <1>6 DEF ChallengeInsert
  <2> HIDE DEF c
  <2> QED
    BY <2>2, <2>5, <2>6, <2>7, RowMade
<1>7. ASSUME NEW r \in Requests, NEW p \in Predictions, ConfirmBegin(r, p) PROVE DuelInvariant'
  <2> DEFINE s == [Idle EXCEPT !.pc = "verifyFill", !.prediction = p]
  <2>1. s \in RequestState /\ HoldsRow(s)
    BY <1>7, StartType DEF HoldsRow, FillSteps, Idle, ConfirmBegin
  <2> QED
    BY <1>7, <2>1, RequestReads DEF ConfirmBegin
<1>8. ASSUME NEW r \in Requests, ConfirmOpen(r) PROVE DuelInvariant'
  <2> DEFINE p == req[r].prediction
  <2>1. p \in Predictions /\ status[p] # "FREE" /\ ~IsChallenge(p)
    BY <1>8, <1>0 DEF ConfirmOpen, At, RequestState, HoldsRow, FillSteps
  <2>2. \A q \in Predictions : status'[q] = IF q = p THEN "OPEN" ELSE status[q]
    BY <1>8 DEF ConfirmOpen, TypeOK
  <2>3. RowsPersist
    BY <1>8, <2>2 DEF ConfirmOpen, RowsPersist
  <2>4. RequestsHoldRows'
    BY <1>8, <2>3, IdleHolds, RequestMoves DEF ConfirmOpen, DuelInvariant
  <2>5. BatchStillValid'
    BY <1>8 DEF ConfirmOpen, DuelInvariant, BatchStillValid
  <2> HIDE DEF p
  <2> QED
    BY <1>8, <2>1, <2>2, <2>4, <2>5, OpenCallsMove DEF ConfirmOpen
<1>9. ASSUME NEW r \in Requests, NEW from \in FillSteps, NEW to \in {"takeRead", "takeCommit"},
             ConfirmTake(r, from, to)
      PROVE  DuelInvariant'
  <2> DEFINE s == [req[r] EXCEPT !.pc = to]
  <2>1. s \in RequestState
    BY <1>9, <1>0, FillStepType DEF ConfirmTake, At
  <2>2. HoldsRow(s)
    BY <1>9, <1>0 DEF ConfirmTake, At, HoldsRow, FillSteps, RequestState
  <2>3. Goes(r, s) \/ Goes(r, Idle)
    BY <1>9 DEF ConfirmTake
  <2> HIDE DEF s
  <2> QED
    BY <1>9, <2>1, <2>2, <2>3, IdleHolds, RequestReads DEF ConfirmTake
<1>10. ASSUME NEW r \in Requests, ConfirmCommit(r) PROVE DuelInvariant'
  <2>1. PICK p \in Predictions : p = req[r].prediction
    BY <1>10, <1>0 DEF ConfirmCommit, At, RequestState, FillSteps
  <2>2. status[p] # "FREE" /\ IsChallenge(p)
    BY <1>10, <1>0, <2>1 DEF ConfirmCommit, At, HoldsRow, FillSteps
  <2>3. PICK o \in Predictions : o = call[p].challenging
    BY <2>2, Challenges DEF IsChallenge
  <2>4. CASE ~CanCreateDuel(o, p)
    BY <1>10, <2>1, <2>3, <2>4, IdleHolds, RequestReads DEF ConfirmCommit
  <2>5. CASE CanCreateDuel(o, p)
    <3>1. /\ status' = [status EXCEPT ![p] = "LOCKED", ![o] = "LOCKED"]
          /\ duel' = [duel EXCEPT ![o] = [status |-> "LOCKED", challenger |-> p, winner |-> None]]
          /\ UNCHANGED <<call, worker>> /\ Goes(r, Idle)
      BY <1>10, <2>1, <2>3, <2>5 DEF ConfirmCommit
    <3>2. \A q \in Predictions : status'[q] = IF q = p \/ q = o THEN "LOCKED" ELSE status[q]
      BY <3>1 DEF TypeOK
    <3>3. \A q \in Predictions : duel'[q] =
            IF q = o THEN [status |-> "LOCKED", challenger |-> p, winner |-> None] ELSE duel[q]
      BY <3>1 DEF TypeOK
    <3>4. RowsPersist
      <4>1. call' = call
        BY <3>1
      <4> QED
        BY <3>2, <4>1 DEF RowsPersist
    <3>5. RequestsHoldRows'
      BY <3>1, <3>4, IdleHolds, RequestMoves DEF DuelInvariant
    <3> QED
      BY <2>2, <2>3, <2>5, <3>1, <3>2, <3>3, <3>5, DuelMade DEF CanCreateDuel
  <2> QED
    BY <2>4, <2>5
<1>11. ASSUME NEW r \in Requests, RequestFails(r) PROVE DuelInvariant'
  BY <1>11, IdleHolds, RequestReads DEF RequestFails
<1>12. CASE ExpireOpen
  <2>1. \A q \in Predictions : status'[q] # status[q] => status[q] = "OPEN" /\ status'[q] = "EXPIRED"
    BY <1>12 DEF ExpireOpen, Expirable
  <2>2. \A q \in Predictions : status[q] = "OPEN" => ~IsChallenge(q)
    BY DEF DuelInvariant, ChallengesAreOpposed
  <2>3. RequestsHoldRows'
    <3>1. \A q \in Predictions : status[q] # "FREE" => status'[q] # "FREE"
      BY <2>1
    <3>2. UNCHANGED <<req, call>>
      BY <1>12 DEF ExpireOpen
    <3> QED
      BY <1>0, <3>1, <3>2 DEF RequestsHoldRows, HoldsRow, IsChallenge, RequestState, FillSteps, InsertSteps
  <2>4. BatchStillValid'
    BY <1>12 DEF ExpireOpen, BatchStillValid, TypeOK, WorkerState
  <2> QED
    BY <1>12, <2>1, <2>2, <2>3, <2>4, OpenCallsMove DEF ExpireOpen
<1>13. CASE ResolveBegin \/ TickAborts \/ TickEnd
  <2>1. RequestsHoldRows'
    BY <1>13 DEF ResolveBegin, TickAborts, TickEnd, DuelInvariant, RequestsHoldRows, HoldsRow, IsChallenge
  <2>2. BatchStillValid'
    BY <1>13 DEF ResolveBegin, ResolveBatch, TickAborts, TickEnd, WorkerIdle, BatchStillValid
  <2> QED
    BY <1>13, <2>1, <2>2, RowsUntouched DEF ResolveBegin, TickAborts, TickEnd
<1>14. ASSUME NEW o \in Predictions, ResolveVoid(o) PROVE DuelInvariant'
  <2>1. \A q \in Predictions : duel'[q] =
          IF q = o THEN [duel[o] EXCEPT !.status = "VOIDED", !.winner = duel[o].winner] ELSE duel[q]
    BY <1>14 DEF ResolveVoid, TypeOK, DuelRows
  <2> QED
    BY <1>14, <2>1, DuelEnds DEF ResolveVoid
<1>15. ASSUME NEW o \in Predictions, ResolveSettle(o) PROVE DuelInvariant'
  <2> DEFINE w == WinnerOf(o)
  <2>1. duel' = [duel EXCEPT ![o] = [@ EXCEPT !.status = "RESOLVED", !.winner = w]]
    BY <1>15 DEF ResolveSettle, Finished
  <2>2. UNCHANGED <<status, call, req>> /\ worker.pc = "resolve" /\ o \in worker.todo /\ Done(o)
    BY <1>15 DEF ResolveSettle
  <2> HIDE DEF w
  <2>3. \A q \in Predictions : duel'[q] =
          IF q = o THEN [duel[o] EXCEPT !.status = "RESOLVED", !.winner = w] ELSE duel[q]
    BY <2>1 DEF TypeOK
  <2> QED
    BY <2>2, <2>3, DuelEnds
<1>16. ASSUME NEW o \in Predictions, ResolveSkip(o) PROVE DuelInvariant'
  <2>1. RequestsHoldRows'
    BY <1>16 DEF ResolveSkip, DuelInvariant, RequestsHoldRows, HoldsRow, IsChallenge
  <2>2. BatchStillValid'
    BY <1>16 DEF ResolveSkip, Done, DuelInvariant, BatchStillValid, TypeOK, WorkerState
  <2> QED
    BY <1>16, <2>1, <2>2, RowsUntouched DEF ResolveSkip
<1>17. CASE Crash
  <2>1. RequestsHoldRows'
    BY <1>17 DEF Crash, RequestsHoldRows, HoldsRow, Idle, FillSteps
  <2>2. BatchStillValid'
    BY <1>17 DEF Crash, WorkerIdle, BatchStillValid
  <2> QED
    BY <1>17, <2>1, <2>2, RowsUntouched DEF Crash
<1> QED
  BY <1>2, <1>3, <1>4, <1>5, <1>6, <1>7, <1>8, <1>9, <1>10, <1>11, <1>12, <1>13, <1>14, <1>15,
     <1>16, <1>17
     DEF Next, Request, Tick, ConfirmFirstRead, ConfirmSecondRead, FillSteps

LEMMA DuelsCorrect == Spec => [](TypeOK /\ DuelInvariant)
<1>1. Init => TypeOK /\ DuelInvariant
  <2> SUFFICES ASSUME Init PROVE TypeOK /\ DuelInvariant
    OBVIOUS
  <2>1. /\ duel \in [Predictions -> DuelRows]
        /\ user \in [Users -> UserRows]
        /\ events \in [Users -> Seq(EventRows)]
        /\ req \in [Requests -> RequestState]
    <3>1. NoDuel \in DuelRows
      BY DEF NoDuel, DuelRows, DuelStatus
    <3>2. [rating |-> {}, energy |-> 0, wins |-> 0, losses |-> 0] \in UserRows
      BY DEF UserRows
    <3>3. <<>> \in Seq(EventRows)
      OBVIOUS
    <3> QED
      BY <3>1, <3>2, <3>3, StartType DEF Init
  <2>2. TypeOK
    BY <2>1, WorkerIdleType DEF Init, TypeOK, ChainStatus, RowStatus
  <2>3. DuelInvariant
    BY DEF Init, DuelInvariant, RowsHaveCalls, RequestsHoldRows, HoldsRow, Idle, FillSteps,
       ChallengesAreOpposed, DuelsAreLocked, HasDuel, NoDuel, BatchStillValid, WorkerIdle
  <2> QED
    BY <2>2, <2>3
<1>2. TypeOK /\ DuelInvariant /\ [Next]_vars => (TypeOK /\ DuelInvariant)'
  BY TypeStep, DuelStep
<1> QED
  BY <1>1, <1>2, PTL DEF Spec

\* Every variable keeps its type.
THEOREM TypeCorrect == Spec => []TypeOK
BY DuelsCorrect, PTL

\* Of all who challenge an open call, in whatever order their fills are
\* confirmed, repeated or fail, one gets the duel, and only he is LOCKED.
THEOREM RaceCorrect == Spec => []OnlyTheWinnerOfTheRaceLocks
<1>1. TypeOK /\ DuelInvariant => OnlyTheWinnerOfTheRaceLocks
  <2> SUFFICES ASSUME TypeOK, DuelInvariant, NEW p \in Predictions,
                      status[p] # "FREE", call[p].challenging # None
               PROVE  /\ status[p] \in {"PENDING", "LOCKED"}
                      /\ status[p] = "LOCKED" <=> duel[call[p].challenging].challenger = p
    BY DEF OnlyTheWinnerOfTheRaceLocks
  <2>1. status[p] \in {"PENDING", "LOCKED"}
    BY DEF DuelInvariant, ChallengesAreOpposed, IsChallenge
  <2>2. call[p].challenging \in Predictions
    BY Challenges
  <2>3. status[p] = "LOCKED" => duel[call[p].challenging].challenger = p
    BY DEF DuelInvariant, DuelsAreLocked, IsChallenge
  <2>4. duel[call[p].challenging].challenger = p => status[p] = "LOCKED"
    BY <2>2, NoneAssumption DEF DuelInvariant, DuelsAreLocked, NoDuel
  <2> QED
    BY <2>1, <2>3, <2>4
<1> QED
  BY <1>1, DuelsCorrect, PTL

\* A duel is between two users, on one market, on opposite sides.
THEOREM DuelIsOpposedCorrect == Spec => []DuelIsOpposed
<1>1. TypeOK /\ DuelInvariant => DuelIsOpposed
  <2> SUFFICES ASSUME TypeOK, DuelInvariant, NEW o \in Predictions, HasDuel(o)
               PROVE  LET p == duel[o].challenger IN
                      /\ call[p].challenging = o /\ call[p].user # call[o].user
                      /\ call[p].market = call[o].market
                      /\ call[p].direction # call[o].direction /\ status[p] = "LOCKED"
    BY DEF DuelIsOpposed
  <2>1. PICK p \in Predictions : p = duel[o].challenger /\ status[p] = "LOCKED" /\ call[p].challenging = o
    BY DEF DuelInvariant, DuelsAreLocked
  <2>2. o # None
    BY NoneAssumption
  <2> QED
    BY <2>1, <2>2, Challenges
<1> QED
  BY <1>1, DuelsCorrect, PTL

\* A call that expired has no duel, and its window is over.
ExpiredIsOver == \A p \in Predictions : status[p] = "EXPIRED" => ~HasDuel(p) /\ window[p] = "past"

LEMMA ExpiryStep ==
  ASSUME TypeOK, DuelInvariant, ExpiredIsOver, [Next]_vars
  PROVE  ExpiredIsOver'
<1> USE DEF world, rows
<1>1. CASE UNCHANGED <<status, window, duel>>
  BY <1>1 DEF ExpiredIsOver, HasDuel
<1>2. ASSUME NEW p \in Predictions, WindowEnds(p) PROVE ExpiredIsOver'
  BY <1>2 DEF WindowEnds, TypeOK, ExpiredIsOver, HasDuel
<1>3. ASSUME NEW r \in Requests, CreateInsert(r) \/ ChallengeInsert(r) PROVE ExpiredIsOver'
  BY <1>3 DEF CreateInsert, ChallengeInsert, Insert, TypeOK, ExpiredIsOver, HasDuel
<1>4. ASSUME NEW r \in Requests, ConfirmOpen(r) PROVE ExpiredIsOver'
  <2> DEFINE p == req[r].prediction
  <2>1. /\ status' = [status EXCEPT ![p] = "OPEN"] /\ UNCHANGED duel
        /\ window' = [window EXCEPT ![p] = IF closing[call[p].market] THEN "past" ELSE "ahead"]
    BY <1>4 DEF ConfirmOpen
  <2> HIDE DEF p
  <2>2. \A q \in Predictions : status'[q] = "EXPIRED" =>
          q # p /\ status[q] = "EXPIRED" /\ window'[q] = window[q]
    BY <2>1 DEF TypeOK
  <2> QED
    BY <2>1, <2>2 DEF ExpiredIsOver, HasDuel
<1>5. ASSUME NEW r \in Requests, ConfirmCommit(r) PROVE ExpiredIsOver'
  <2> DEFINE p == req[r].prediction
             o == call[p].challenging
  <2>1. UNCHANGED window
    BY <1>5 DEF ConfirmCommit
  <2>2. CASE ~CanCreateDuel(o, p)
    BY <1>1, <1>5, <2>2 DEF ConfirmCommit
  <2>3. CASE CanCreateDuel(o, p)
    <3>1. /\ status' = [status EXCEPT ![p] = "LOCKED", ![o] = "LOCKED"]
          /\ duel' = [duel EXCEPT ![o] = [status |-> "LOCKED", challenger |-> p, winner |-> None]]
      BY <1>5, <2>3 DEF ConfirmCommit
    <3> HIDE DEF o, p
    <3>2. \A q \in Predictions : status'[q] = "EXPIRED" =>
            q # o /\ status[q] = "EXPIRED" /\ duel'[q] = duel[q]
      BY <3>1 DEF TypeOK
    <3> QED
      BY <2>1, <3>2 DEF ExpiredIsOver, HasDuel
  <2> QED
    BY <2>2, <2>3
<1>6. CASE ExpireOpen
  BY <1>6 DEF ExpireOpen, Expirable, HasDuel, ExpiredIsOver
<1>7. ASSUME NEW o \in Predictions, ResolveVoid(o) \/ ResolveSettle(o) PROVE ExpiredIsOver'
  <2>1. HasDuel(o) /\ UNCHANGED <<status, window>>
    BY <1>7 DEF ResolveVoid, ResolveSettle, DuelInvariant, BatchStillValid, HasDuel
  <2>2. \A q \in Predictions : q # o => duel'[q] = duel[q]
    BY <1>7 DEF ResolveVoid, ResolveSettle, Finished, TypeOK
  <2> QED
    BY <2>1, <2>2 DEF ExpiredIsOver, HasDuel
<1>8. CASE World \/ Crash \/ UNCHANGED vars
  BY <1>1, <1>2, <1>8 DEF World, HeadroomBegins, CloseTrading, ReportOutcome, Crash, vars
<1>9. ASSUME NEW r \in Requests, Request(r) PROVE ExpiredIsOver'
  BY <1>1, <1>3, <1>4, <1>5, <1>9 DEF Request, CreateBegin, ChallengeBegin, ConfirmBegin,
     ConfirmFirstRead, ConfirmSecondRead, ConfirmTake, RequestFails
<1>10. CASE Tick
  BY <1>1, <1>6, <1>7, <1>10 DEF Tick, ResolveBegin, TickAborts, ResolveSkip, TickEnd
<1> QED
  BY <1>8, <1>9, <1>10 DEF Next

\* An expired call has no challenger, whichever confirms and ticks cross; and
\* is in its window no more.
THEOREM ExpiryCorrect == Spec => []ExpiredIsUnchallenged
<1>1. Init => ExpiredIsOver
  BY DEF Init, ExpiredIsOver
<1>2. TypeOK /\ DuelInvariant /\ ExpiredIsOver => ExpiredIsUnchallenged
  BY DEF ExpiredIsOver, ExpiredIsUnchallenged, DuelInvariant, ChallengesAreOpposed
<1>3. TypeOK /\ DuelInvariant /\ ExpiredIsOver /\ [Next]_vars => ExpiredIsOver'
  BY ExpiryStep
<1> QED
  BY <1>1, <1>2, <1>3, DuelsCorrect, PTL DEF Spec

----------------------------------------------------------------------------
\* Results.

\* The duels a user has won, and lost.
Won(u)  == {o \in Resolved : duel[o].winner = u}
Lost(u) == {o \in Resolved : duel[o].winner # u /\ u \in {call[o].user, call[duel[o].challenger].user}}

\* What the statistics of user u say is what u has won and lost.
Counted(u) ==
  /\ user[u].wins = Cardinality(Won(u))
  /\ user[u].energy = Cardinality(Won(u))
  /\ user[u].losses = Cardinality(Lost(u))
  /\ Len(events[u]) = Cardinality(Won(u) \cup Lost(u))
  /\ {events[u][i].duel : i \in DOMAIN events[u]} = Won(u) \cup Lost(u)

LEMMA CountedOnce == ResultsCountedOnce <=> \A u \in Users : Counted(u)
BY DEF ResultsCountedOnce, Counted, Won, Lost

\* Rows are never unmade.
LEMMA RowsStay ==
  ASSUME TypeOK, DuelInvariant, [Next]_vars
  PROVE  RowsPersist
<1> USE DEF world, rows
<1>1. CASE UNCHANGED <<status, call>>
  BY <1>1 DEF RowsPersist
<1>2. ASSUME NEW r \in Requests, CreateInsert(r) \/ ChallengeInsert(r) PROVE RowsPersist
  BY <1>2 DEF CreateInsert, ChallengeInsert, Insert, TypeOK, RowsPersist
<1>3. ASSUME NEW r \in Requests, ConfirmOpen(r) PROVE RowsPersist
  BY <1>3 DEF ConfirmOpen, TypeOK, RowsPersist
<1>4. ASSUME NEW r \in Requests, ConfirmCommit(r) PROVE RowsPersist
  BY <1>4 DEF ConfirmCommit, TypeOK, RowsPersist
<1>5. CASE ExpireOpen
  BY <1>5 DEF ExpireOpen, RowsPersist
<1>6. CASE World \/ Crash \/ UNCHANGED vars
  BY <1>1, <1>6 DEF World, WindowEnds, HeadroomBegins, CloseTrading, ReportOutcome, Crash, vars
<1>7. ASSUME NEW r \in Requests, Request(r) PROVE RowsPersist
  BY <1>1, <1>2, <1>3, <1>4, <1>7 DEF Request, CreateBegin, ChallengeBegin, ConfirmBegin,
     ConfirmFirstRead, ConfirmSecondRead, ConfirmTake, RequestFails
<1>8. CASE Tick
  BY <1>1, <1>5, <1>8 DEF Tick, ResolveBegin, TickAborts, ResolveVoid, ResolveSettle,
     ResolveSkip, TickEnd
<1> QED
  BY <1>6, <1>7, <1>8 DEF Next

\* A step that resolves no duel.
LEMMA ResultsStand ==
  ASSUME TypeOK, DuelInvariant, ResultsInvariant, RowsPersist, UNCHANGED <<user, events>>,
         \A o \in Predictions : duel[o].status = "RESOLVED" => duel'[o] = duel[o],
         \A o \in Predictions : duel'[o].status = "RESOLVED" => duel[o].status = "RESOLVED",
         \A m \in Markets : chain[m] \in {"Outcome0", "Outcome1"} => chain'[m] = chain[m]
  PROVE  ResultsInvariant'
<1>1. Resolved' = Resolved
  BY DEF Resolved
<1>2. ASSUME NEW o \in Resolved
      PROVE  /\ o \in Predictions /\ duel'[o] = duel[o] /\ call'[o] = call[o]
             /\ duel[o].challenger \in Predictions
             /\ call'[duel[o].challenger] = call[duel[o].challenger]
             /\ call[o].market \in Markets
  <2>1. o \in Predictions /\ duel[o].status = "RESOLVED" /\ HasDuel(o)
    BY DEF Resolved, HasDuel
  <2>2. /\ duel[o].challenger \in Predictions
        /\ call[o] \in Calls /\ call[duel[o].challenger] \in Calls
    BY <2>1, Sides
  <2>3. status[o] # "FREE" /\ status[duel[o].challenger] # "FREE"
    BY <2>1, <2>2, NoneAssumption DEF DuelInvariant, RowsHaveCalls
  <2> QED
    BY <2>1, <2>2, <2>3 DEF RowsPersist, Calls
<1>3. \A u \in Users : Won(u)' = Won(u) /\ Lost(u)' = Lost(u)
  BY <1>1, <1>2 DEF Won, Lost
<1>4. \A u \in Users : Counted(u)'
  <2> SUFFICES ASSUME NEW u \in Users PROVE Counted(u)'
    OBVIOUS
  <2>1. Counted(u)
    BY CountedOnce DEF ResultsInvariant
  <2> QED
    BY <1>3, <2>1 DEF Counted
<1>5. ResultsCountedOnce'
  BY <1>4 DEF ResultsCountedOnce, Counted, Won, Lost
<1>6. WinnerWasRight'
  <2> SUFFICES ASSUME NEW o \in Resolved
               PROVE  \E p \in {o, duel'[o].challenger} :
                        /\ call'[p].user = duel'[o].winner
                        /\ chain'[call'[o].market] =
                             (IF call'[p].direction = "UP" THEN "Outcome0" ELSE "Outcome1")
    BY <1>1 DEF WinnerWasRight
  <2>1. PICK p \in {o, duel[o].challenger} :
          /\ call[p].user = duel[o].winner
          /\ chain[call[o].market] = (IF call[p].direction = "UP" THEN "Outcome0" ELSE "Outcome1")
    BY DEF ResultsInvariant, WinnerWasRight
  <2>2. chain'[call[o].market] = chain[call[o].market]
    BY <1>2, <2>1
  <2> QED
    BY <1>2, <2>1, <2>2
<1> QED
  BY <1>1, <1>5, <1>6 DEF ResultsInvariant

\* A rating event more.
LEMMA EventAppended ==
  ASSUME NEW s \in Seq(EventRows), NEW e \in EventRows
  PROVE  /\ Len(Append(s, e)) = Len(s) + 1
         /\ {Append(s, e)[i].duel : i \in DOMAIN Append(s, e)} =
              {s[i].duel : i \in DOMAIN s} \cup {e.duel}
<1>1. /\ DOMAIN Append(s, e) = 1 .. Len(s) + 1
      /\ DOMAIN s = 1 .. Len(s)
      /\ Len(s) \in Nat
      /\ Len(Append(s, e)) = Len(s) + 1
      /\ \A i \in 1 .. Len(s) : Append(s, e)[i] = s[i]
      /\ Append(s, e)[Len(s) + 1] = e
  OBVIOUS
<1>2. \A i \in 1 .. Len(s) + 1 : i \in 1 .. Len(s) \/ i = Len(s) + 1
  BY <1>1
<1>3. 1 .. Len(s) \subseteq 1 .. Len(s) + 1 /\ Len(s) + 1 \in 1 .. Len(s) + 1
  BY <1>1
<1> DEFINE t == Append(s, e)
           n == Len(s) + 1
<1>4. DOMAIN t = 1 .. n /\ (\A i \in 1 .. Len(s) : t[i] = s[i]) /\ t[n] = e
  BY <1>1
<1> HIDE DEF t, n
<1>5. {t[i].duel : i \in DOMAIN t} = {s[i].duel : i \in DOMAIN s} \cup {e.duel}
  <2>1. DOMAIN t = DOMAIN s \cup {n} /\ (\A i \in DOMAIN s : t[i] = s[i]) /\ t[n] = e
    BY <1>1, <1>2, <1>3, <1>4 DEF n
  <2> QED
    BY <2>1
<1> QED
  BY <1>1, <1>5 DEF t

\* What a settled duel adds to the record of one user.
LEMMA RecordGrows ==
  ASSUME TypeOK, ResultsInvariant, NEW u \in Users, NEW o \in Predictions, o \notin Resolved,
         NEW won \in BOOLEAN, NEW e \in EventRows, e.duel = o,
         user'[u] = Scored(user[u], worker.rating[u], won, o),
         events'[u] = Append(events[u], e),
         Won(u)'  = IF won THEN Won(u) \cup {o} ELSE Won(u),
         Lost(u)' = IF won THEN Lost(u) ELSE Lost(u) \cup {o}
  PROVE  Counted(u)'
<1>1. Counted(u)
  BY CountedOnce DEF ResultsInvariant
<1>2. IsFiniteSet(Won(u)) /\ IsFiniteSet(Lost(u)) /\ IsFiniteSet(Won(u) \cup Lost(u))
  <2>1. Won(u) \subseteq Resolved /\ Lost(u) \subseteq Resolved
    BY DEF Won, Lost
  <2> QED
    BY <2>1, FS_Subset DEF ResultsInvariant
<1>3. o \notin Won(u) /\ o \notin Lost(u) /\ o \notin Won(u) \cup Lost(u)
  BY DEF Won, Lost
<1>4. /\ Cardinality(Won(u) \cup {o}) = Cardinality(Won(u)) + 1
      /\ Cardinality(Lost(u) \cup {o}) = Cardinality(Lost(u)) + 1
      /\ Cardinality((Won(u) \cup Lost(u)) \cup {o}) = Cardinality(Won(u) \cup Lost(u)) + 1
  BY <1>2, <1>3, FS_AddElement
<1>5. (Won(u) \cup Lost(u))' = (Won(u) \cup Lost(u)) \cup {o}
  BY DEF Won, Lost
<1>6. user'[u].wins = Cardinality(Won(u)') /\ user'[u].energy = Cardinality(Won(u)')
      /\ user'[u].losses = Cardinality(Lost(u)')
  <2>1. user[u] \in UserRows
    BY DEF TypeOK
  <2>2. /\ user'[u].wins = user[u].wins + (IF won THEN 1 ELSE 0)
        /\ user'[u].energy = user[u].energy + (IF won THEN 1 ELSE 0)
        /\ user'[u].losses = user[u].losses + (IF won THEN 0 ELSE 1)
    BY DEF Scored
  <2> QED
    BY <1>1, <1>4, <2>1, <2>2 DEF Counted, UserRows
<1>7. /\ Len(events'[u]) = Cardinality((Won(u) \cup Lost(u))')
      /\ {events'[u][i].duel : i \in DOMAIN events'[u]} = (Won(u) \cup Lost(u))'
  <2>1. events[u] \in Seq(EventRows)
    BY DEF TypeOK
  <2>2. /\ Len(events'[u]) = Len(events[u]) + 1
        /\ {events'[u][i].duel : i \in DOMAIN events'[u]} =
             {events[u][i].duel : i \in DOMAIN events[u]} \cup {o}
    BY <2>1, EventAppended
  <2> QED
    BY <1>1, <1>4, <1>5, <2>2 DEF Counted
<1> QED
  BY <1>6, <1>7 DEF Counted

\* The transaction of resolveOne adds one duel, which was not RESOLVED, to what
\* one of its two users has won and the other has lost.
LEMMA SettleCounts ==
  ASSUME TypeOK, DuelInvariant, ResultsInvariant, NEW o \in Predictions, ResolveSettle(o)
  PROVE  ResultsInvariant'
<1> DEFINE event(u) == [duel |-> o, before |-> worker.rating[u],
                        after |-> worker.rating[u] \cup {o}]
<1>1. duel[o].status = "LOCKED" /\ HasDuel(o)
  BY DEF ResolveSettle, DuelInvariant, BatchStillValid, HasDuel
<1>2. PICK w \in Users, l \in Users : w = WinnerOf(o) /\ l = LoserOf(o) /\ w # l
  BY <1>1, Sides
<1>3. {w, l} = {call[o].user, call[duel[o].challenger].user}
  BY <1>2 DEF WinnerOf, LoserOf
<1>4. /\ duel' = [duel EXCEPT ![o] = [@ EXCEPT !.status = "RESOLVED", !.winner = w]]
      /\ user' = [user EXCEPT ![w] = Scored(@, worker.rating[w], TRUE, o),
                              ![l] = Scored(@, worker.rating[l], FALSE, o)]
      /\ events' = [events EXCEPT ![w] = Append(@, event(w)), ![l] = Append(@, event(l))]
      /\ UNCHANGED <<status, call, chain>>
  BY <1>2 DEF ResolveSettle, Finished, world
<1>5. duel[o] \in DuelRows /\ duel \in [Predictions -> DuelRows]
  BY DEF TypeOK
<1>6. /\ duel'[o].status = "RESOLVED" /\ duel'[o].winner = w
      /\ duel'[o].challenger = duel[o].challenger
      /\ \A q \in Predictions : q # o => duel'[q] = duel[q]
  BY <1>4, <1>5 DEF DuelRows
<1>7. Resolved' = Resolved \cup {o} /\ o \notin Resolved
  BY <1>1, <1>6 DEF Resolved
<1>8. \A u \in Users : /\ Won(u)' = IF u = w THEN Won(u) \cup {o} ELSE Won(u)
                      /\ Lost(u)' = IF u = l THEN Lost(u) \cup {o} ELSE Lost(u)
  <2>1. call' = call
    BY <1>4
  <2>2. \A q \in Resolved : q \in Predictions /\ q # o
    BY <1>7 DEF Resolved
  <2> QED
    BY <1>2, <1>3, <1>6, <1>7, <2>1, <2>2 DEF Won, Lost
<1>9. /\ user'[w] = Scored(user[w], worker.rating[w], TRUE, o)
      /\ user'[l] = Scored(user[l], worker.rating[l], FALSE, o)
      /\ events'[w] = Append(events[w], event(w))
      /\ events'[l] = Append(events[l], event(l))
      /\ \A u \in Users \ {w, l} : user'[u] = user[u] /\ events'[u] = events[u]
  <2>1. user \in [Users -> UserRows] /\ events \in [Users -> Seq(EventRows)]
    BY DEF TypeOK
  <2> HIDE DEF event
  <2> QED
    BY <1>2, <1>4, <2>1
<1>10. \A u \in Users : event(u) \in EventRows /\ event(u).duel = o
  BY DEF EventRows, TypeOK, WorkerState
<1> HIDE DEF event
<1>11. Counted(w)'
  BY <1>2, <1>7, <1>8, <1>9, <1>10, RecordGrows
<1>12. Counted(l)'
  BY <1>2, <1>7, <1>8, <1>9, <1>10, RecordGrows
<1>13. ASSUME NEW u \in Users, u # w, u # l PROVE Counted(u)'
  <2>1. Counted(u)
    BY CountedOnce DEF ResultsInvariant
  <2>2. Won(u)' = Won(u) /\ Lost(u)' = Lost(u) /\ user'[u] = user[u] /\ events'[u] = events[u]
    BY <1>8, <1>9, <1>13
  <2> QED
    BY <2>1, <2>2 DEF Counted
<1>14. ResultsCountedOnce'
  <2>1. \A u \in Users : Counted(u)'
    BY <1>11, <1>12, <1>13
  <2> QED
    BY <2>1 DEF ResultsCountedOnce, Counted, Won, Lost
<1>15. WinnerWasRight'
  <2> SUFFICES ASSUME NEW x \in Resolved \cup {o}
               PROVE  \E p \in {x, duel'[x].challenger} :
                        /\ call[p].user = duel'[x].winner
                        /\ chain[call[x].market] =
                             (IF call[p].direction = "UP" THEN "Outcome0" ELSE "Outcome1")
    BY <1>4, <1>7 DEF WinnerWasRight
  <2>1. CASE x = o
    <3>1. chain[call[o].market] \in {"Outcome0", "Outcome1"}
      BY DEF ResolveSettle
    <3>2. PICK c \in Predictions : c = duel[o].challenger /\ call[c].challenging = o /\ status[c] # "FREE"
      BY <1>1 DEF DuelInvariant, DuelsAreLocked
    <3>3. o # None
      BY NoneAssumption
    <3>4. /\ call[o].direction \in Directions /\ call[c].direction \in Directions
          /\ call[c].direction # call[o].direction
      BY <3>2, <3>3, Challenges DEF Calls
    <3>5. CASE OriginalWon(o)
      BY <1>2, <1>6, <2>1, <3>1, <3>4, <3>5 DEF WinnerOf, OriginalWon, WinningDirection, Directions
    <3>6. CASE ~OriginalWon(o)
      BY <1>2, <1>6, <2>1, <3>1, <3>2, <3>4, <3>6 DEF WinnerOf, OriginalWon, WinningDirection, Directions
    <3> QED
      BY <3>5, <3>6
  <2>2. CASE x # o
    <3>1. x \in Resolved /\ duel'[x] = duel[x]
      BY <1>6, <2>2 DEF Resolved
    <3> QED
      BY <3>1 DEF ResultsInvariant, WinnerWasRight
  <2> QED
    BY <2>1, <2>2
<1>16. IsFiniteSet(Resolved')
  BY <1>7, FS_AddElement DEF ResultsInvariant
<1> QED
  BY <1>14, <1>15, <1>16 DEF ResultsInvariant

LEMMA ResultsStep ==
  ASSUME TypeOK, DuelInvariant, ResultsInvariant, [Next]_vars
  PROVE  ResultsInvariant'
<1> USE DEF world, rows
<1>0. RowsPersist
  BY RowsStay
<1>1. CASE UNCHANGED <<chain, duel, user, events>>
  BY <1>0, <1>1, ResultsStand
<1>2. ASSUME NEW m \in Markets, CloseTrading(m) \/ ReportOutcome(m) PROVE ResultsInvariant'
  <2>1. UNCHANGED <<duel, user, events>>
    BY <1>2 DEF CloseTrading, ReportOutcome
  <2>2. \A x \in Markets : chain[x] \in {"Outcome0", "Outcome1"} => chain'[x] = chain[x]
    BY <1>2 DEF CloseTrading, ReportOutcome, TypeOK
  <2> QED
    BY <1>0, <2>1, <2>2, ResultsStand
<1>3. ASSUME NEW r \in Requests, ConfirmCommit(r) PROVE ResultsInvariant'
  <2> DEFINE p == req[r].prediction
             o == call[p].challenging
  <2>1. CASE UNCHANGED duel
    BY <1>1, <1>3, <2>1 DEF ConfirmCommit
  <2>2. CASE /\ CanCreateDuel(o, p)
             /\ duel' = [duel EXCEPT ![o] = [status |-> "LOCKED", challenger |-> p, winner |-> None]]
    <3>1. ~HasDuel(o)
      BY <2>2 DEF CanCreateDuel
    <3> HIDE DEF o, p
    <3>2. \A q \in Predictions : duel'[q] = duel[q] \/ (q = o /\ duel'[q].status = "LOCKED")
      BY <2>2 DEF TypeOK
    <3>3. UNCHANGED <<user, events, chain>>
      BY <1>3 DEF ConfirmCommit
    <3> QED
      BY <1>0, <3>1, <3>2, <3>3, ResultsStand DEF HasDuel
  <2> QED
    BY <1>3, <2>1, <2>2 DEF ConfirmCommit
<1>4. ASSUME NEW o \in Predictions, ResolveVoid(o) PROVE ResultsInvariant'
  <2>1. duel[o].status = "LOCKED" /\ UNCHANGED <<user, events, chain>>
    BY <1>4 DEF ResolveVoid, DuelInvariant, BatchStillValid
  <2>2. \A q \in Predictions : duel'[q] = duel[q] \/ (q = o /\ duel'[q].status = "VOIDED")
    BY <1>4 DEF ResolveVoid, TypeOK, DuelRows
  <2> QED
    BY <1>0, <2>1, <2>2, ResultsStand
<1>5. ASSUME NEW o \in Predictions, ResolveSettle(o) PROVE ResultsInvariant'
  BY <1>5, SettleCounts
<1>6. CASE World \/ Crash \/ UNCHANGED vars
  BY <1>1, <1>2, <1>6 DEF World, WindowEnds, HeadroomBegins, Crash, vars
<1>7. ASSUME NEW r \in Requests, Request(r) PROVE ResultsInvariant'
  BY <1>1, <1>3, <1>7 DEF Request, CreateBegin, CreateInsert, ChallengeBegin, ChallengeInsert,
     ConfirmBegin, ConfirmOpen, ConfirmFirstRead, ConfirmSecondRead, ConfirmTake, RequestFails
<1>8. CASE Tick
  BY <1>1, <1>4, <1>5, <1>8 DEF Tick, ExpireOpen, ResolveBegin, TickAborts, ResolveSkip, TickEnd
<1> QED
  BY <1>6, <1>7, <1>8 DEF Next

LEMMA ResultsCorrect == Spec => []ResultsInvariant
<1>1. Init => ResultsInvariant
  <2> SUFFICES ASSUME Init PROVE ResultsInvariant
    OBVIOUS
  <2>1. Resolved = {}
    BY DEF Init, Resolved, NoDuel
  <2>2. \A u \in Users : Won(u) = {} /\ Lost(u) = {}
    BY <2>1 DEF Won, Lost
  <2>3. \A u \in Users : Counted(u)
    <3>1. Len(<<>>) = 0 /\ DOMAIN <<>> = {}
      OBVIOUS
    <3> QED
      BY <2>2, <3>1, FS_EmptySet DEF Init, Counted
  <2> QED
    BY <2>1, <2>3, CountedOnce, FS_EmptySet DEF ResultsInvariant, WinnerWasRight
<1>2. TypeOK /\ DuelInvariant /\ ResultsInvariant /\ [Next]_vars => ResultsInvariant'
  BY ResultsStep
<1> QED
  BY <1>1, <1>2, DuelsCorrect, PTL DEF Spec

\* The winner of every resolved duel is the one whom the market proved right.
THEOREM WinnerCorrect == Spec => []WinnerWasRight
<1>1. ResultsInvariant => WinnerWasRight
  BY DEF ResultsInvariant
<1> QED
  BY <1>1, ResultsCorrect, PTL

\* The statistics of every user are those of the RESOLVED duels, each counted
\* once, whatever ticks abort, crash and are repeated.
THEOREM CountedOnceCorrect == Spec => []ResultsCountedOnce
<1>1. ResultsInvariant => ResultsCountedOnce
  BY DEF ResultsInvariant
<1> QED
  BY <1>1, ResultsCorrect, PTL

----------------------------------------------------------------------------
\* The pages.

\* Whatever pages are open, duels do what they do without them.
LEMMA ViewsKeepDuels == ViewsSpec => Spec
<1>1. ViewsInit => Init
  BY DEF ViewsInit
<1>2. [ViewsNext]_<<vars, views>> => [Next]_vars
  BY DEF ViewsNext
<1> QED
  BY <1>1, <1>2, PTL DEF ViewsSpec, Spec

\* A prediction takes part in one duel, as its original or as its challenger.
LEMMA OneDuel ==
  ASSUME TypeOK, DuelInvariant, NEW o \in Predictions, NEW q \in Predictions, NEW p,
         HasDuel(o), HasDuel(q), p \in {o, duel[o].challenger}, p \in {q, duel[q].challenger}
  PROVE  o = q
<1>1. /\ duel[o].challenger \in Predictions /\ call[duel[o].challenger].challenging = o
      /\ duel[q].challenger \in Predictions /\ call[duel[q].challenger].challenging = q
      /\ status[duel[o].challenger] = "LOCKED" /\ status[duel[q].challenger] = "LOCKED"
  BY DEF DuelInvariant, DuelsAreLocked
<1>2. o # None /\ q # None
  BY NoneAssumption
<1>3. call[o].challenging = None /\ call[q].challenging = None
  BY <1>1, <1>2, Challenges
<1> QED
  BY <1>1, <1>2, <1>3

\* The duels in which p has a role are one at most, and it is read.
LEMMA ReadingIs ==
  ASSUME TypeOK, DuelInvariant, NEW role \in Roles, NEW p \in Predictions
  PROVE  /\ \A o \in DuelsAs(role, p) :
              /\ o \in Predictions /\ HasDuel(o) /\ p \in {o, duel[o].challenger}
              /\ ChallengeRead(role, p) = [status |-> duel[o].status, winner |-> duel[o].winner]
              /\ ChallengeRead(role, p) \in Readings /\ ChallengeRead(role, p) # None
              /\ ChallengeRead(role, p).status = duel[o].status
              /\ ChallengeRead(role, p).winner = duel[o].winner
         /\ ReadingHolds(ChallengeRead(role, p), role, p)
         /\ DuelsAs(role, p) = {} <=> ChallengeRead(role, p) = None
<1>1. \A o \in DuelsAs(role, p) : o \in Predictions /\ HasDuel(o) /\ p \in {o, duel[o].challenger}
  BY DEF DuelsAs, Roles
<1>2. \A o, q \in DuelsAs(role, p) : o = q
  BY <1>1, OneDuel
<1>3. ASSUME NEW o \in DuelsAs(role, p)
      PROVE  ChallengeRead(role, p) = [status |-> duel[o].status, winner |-> duel[o].winner]
  <2>1. (CHOOSE x \in DuelsAs(role, p) : TRUE) = o
    BY <1>2
  <2> QED
    BY <2>1 DEF ChallengeRead
<1>4. ASSUME NEW o \in DuelsAs(role, p)
      PROVE  /\ ChallengeRead(role, p) \in Readings /\ ChallengeRead(role, p) # None
             /\ ChallengeRead(role, p).status = duel[o].status
             /\ ChallengeRead(role, p).winner = duel[o].winner
  <2>1. duel[o] \in DuelRows
    BY <1>1 DEF TypeOK
  <2> QED
    BY <1>3, <2>1, NoReadingAssumption DEF Readings, DuelRows
<1>5. DuelsAs(role, p) = {} => ChallengeRead(role, p) = None
  BY DEF ChallengeRead
<1> QED
  BY <1>1, <1>3, <1>4, <1>5 DEF ReadingHolds

\* Challenge rows are never unmade, and what has ended has ended.
DuelsPersist ==
  \A o \in Predictions : HasDuel(o) =>
    /\ HasDuel(o)' /\ duel'[o].challenger = duel[o].challenger
    /\ duel[o].status \in {"RESOLVED", "VOIDED"} => duel'[o] = duel[o]

LEMMA DuelsStay ==
  ASSUME TypeOK, DuelInvariant, [Next]_vars
  PROVE  DuelsPersist
<1> USE DEF world, rows
<1>1. CASE UNCHANGED duel
  BY <1>1 DEF DuelsPersist, HasDuel
<1>2. ASSUME NEW r \in Requests, ConfirmCommit(r) PROVE DuelsPersist
  <2> DEFINE p == req[r].prediction
             o == call[p].challenging
  <2>1. CASE ~CanCreateDuel(o, p)
    BY <1>1, <1>2, <2>1 DEF ConfirmCommit
  <2>2. CASE CanCreateDuel(o, p)
    <3>1. duel' = [duel EXCEPT ![o] = [status |-> "LOCKED", challenger |-> p, winner |-> None]]
      BY <1>2, <2>2 DEF ConfirmCommit
    <3>2. ~HasDuel(o)
      BY <2>2 DEF CanCreateDuel
    <3> HIDE DEF o, p
    <3>3. \A q \in Predictions : q # o => duel'[q] = duel[q]
      BY <3>1 DEF TypeOK
    <3> QED
      BY <3>2, <3>3 DEF DuelsPersist, HasDuel
  <2> QED
    BY <2>1, <2>2
<1>3. ASSUME NEW o \in Predictions, ResolveVoid(o) \/ ResolveSettle(o) PROVE DuelsPersist
  <2>1. duel[o].status = "LOCKED" /\ duel[o] \in DuelRows
    BY <1>3 DEF ResolveVoid, ResolveSettle, DuelInvariant, BatchStillValid, TypeOK
  <2>2. \A q \in Predictions : q # o => duel'[q] = duel[q]
    BY <1>3 DEF ResolveVoid, ResolveSettle, Finished, TypeOK
  <2>3. duel'[o].status \in {"RESOLVED", "VOIDED"} /\ duel'[o].challenger = duel[o].challenger
    <3>1. CASE ResolveVoid(o)
      BY <2>1, <3>1 DEF ResolveVoid, TypeOK, DuelRows
    <3>2. CASE ResolveSettle(o)
      <4> DEFINE w == WinnerOf(o)
      <4>1. duel' = [duel EXCEPT ![o].status = "RESOLVED", ![o].winner = w]
        BY <3>2 DEF ResolveSettle, Finished
      <4> HIDE DEF w
      <4> QED
        BY <2>1, <4>1 DEF TypeOK, DuelRows
    <3> QED
      BY <1>3, <3>1, <3>2
  <2> QED
    BY <2>1, <2>2, <2>3 DEF DuelsPersist, HasDuel
<1>4. CASE World \/ Crash \/ UNCHANGED vars
  BY <1>1, <1>4 DEF World, WindowEnds, HeadroomBegins, CloseTrading, ReportOutcome, Crash, vars
<1>5. ASSUME NEW r \in Requests, Request(r) PROVE DuelsPersist
  BY <1>1, <1>2, <1>5 DEF Request, CreateBegin, CreateInsert, ChallengeBegin, ChallengeInsert,
     ConfirmBegin, ConfirmOpen, ConfirmFirstRead, ConfirmSecondRead, ConfirmTake, RequestFails
<1>6. CASE Tick
  BY <1>1, <1>3, <1>6 DEF Tick, ExpireOpen, ResolveBegin, TickAborts, ResolveSkip, TickEnd
<1> QED
  BY <1>4, <1>5, <1>6 DEF Next

\* What ReadingIs says of what is read now, for the state after a step too.
ReadingsAreTrue ==
  \A role \in Roles, p \in Predictions :
    /\ \A o \in DuelsAs(role, p) :
         /\ o \in Predictions /\ HasDuel(o) /\ p \in {o, duel[o].challenger}
         /\ ChallengeRead(role, p) # None
         /\ ChallengeRead(role, p).status = duel[o].status
         /\ ChallengeRead(role, p).winner = duel[o].winner
    /\ ReadingHolds(ChallengeRead(role, p), role, p)
    /\ DuelsAs(role, p) = {} <=> ChallengeRead(role, p) = None

LEMMA ReadingsTrue == TypeOK /\ DuelInvariant => ReadingsAreTrue
BY ReadingIs DEF ReadingsAreTrue

LEMMA ReadingsTrueAfter == (TypeOK /\ DuelInvariant)' => ReadingsAreTrue'
BY ReadingsTrue, PTL

LEMMA InDuelStays ==
  ASSUME DuelsPersist, NEW p, InDuel(p)
  PROVE  InDuel(p)'
<1>1. PICK o \in Predictions : HasDuel(o) /\ p \in {o, duel[o].challenger}
  BY DEF InDuel
<1>2. HasDuel(o)' /\ p \in {o, duel'[o].challenger}
  BY <1>1 DEF DuelsPersist
<1> QED
  BY <1>2 DEF InDuel

LEMMA DuelsAsStay ==
  ASSUME DuelsPersist, NEW role \in Roles, NEW p \in Predictions, NEW o \in DuelsAs(role, p)
  PROVE  o \in DuelsAs(role, p)'
BY DEF DuelsAs, DuelsPersist, Roles

LEMMA ReadingStays ==
  ASSUME DuelsPersist, NEW role \in Roles, NEW p \in Predictions, NEW c, ReadingHolds(c, role, p)
  PROVE  ReadingHolds(c, role, p)'
<1>1. CASE c = None
  BY <1>1 DEF ReadingHolds
<1>2. CASE c # None
  <2>1. PICK o \in DuelsAs(role, p) :
          c.status \in {"RESOLVED", "VOIDED"} => c.status = duel[o].status /\ c.winner = duel[o].winner
    BY <1>2 DEF ReadingHolds
  <2>2. o \in DuelsAs(role, p)'
    BY <2>1, DuelsAsStay
  <2>3. o \in Predictions /\ HasDuel(o)
    BY <2>1 DEF DuelsAs, Roles
  <2>4. c.status \in {"RESOLVED", "VOIDED"} => c.status = duel'[o].status /\ c.winner = duel'[o].winner
    BY <2>1, <2>3 DEF DuelsPersist
  <2>5. c \in Readings
    BY <1>2 DEF ReadingHolds
  <2>6. c \in Readings'
    BY <2>5 DEF Readings
  <2> QED
    BY <2>2, <2>4, <2>6 DEF ReadingHolds
<1> QED
  BY <1>1, <1>2

\* A LOCKED row is in a duel: nothing but confirmChallenge locks one.
LEMMA LockedStep ==
  ASSUME TypeOK, DuelInvariant, LockedIsInDuel, [Next]_vars
  PROVE  LockedIsInDuel'
<1> USE DEF world, rows
<1>0. DuelsPersist
  BY DuelsStay
<1>1. ASSUME \A p \in Predictions : status'[p] = "LOCKED" => status[p] = "LOCKED"
      PROVE  LockedIsInDuel'
  BY <1>0, <1>1, InDuelStays DEF LockedIsInDuel
<1>2. CASE UNCHANGED status
  BY <1>1, <1>2
<1>3. ASSUME NEW r \in Requests, CreateInsert(r) \/ ChallengeInsert(r) PROVE LockedIsInDuel'
  <2>1. \A p \in Predictions : status'[p] = "LOCKED" => status[p] = "LOCKED"
    BY <1>3 DEF CreateInsert, ChallengeInsert, Insert, TypeOK
  <2> QED
    BY <1>1, <2>1
<1>4. ASSUME NEW r \in Requests, ConfirmOpen(r) PROVE LockedIsInDuel'
  <2>1. \A p \in Predictions : status'[p] = "LOCKED" => status[p] = "LOCKED"
    BY <1>4 DEF ConfirmOpen, TypeOK
  <2> QED
    BY <1>1, <2>1
<1>5. ASSUME NEW r \in Requests, ConfirmCommit(r) PROVE LockedIsInDuel'
  <2>1. CASE UNCHANGED status
    BY <1>2, <2>1
  <2>2. CASE ~UNCHANGED status
    <3>0. req[r] \in RequestState /\ req[r].pc = "takeCommit" /\ HoldsRow(req[r])
      BY <1>5 DEF ConfirmCommit, At, TypeOK, DuelInvariant, RequestsHoldRows
    <3>1. PICK p \in Predictions : p = req[r].prediction
      BY <3>0 DEF RequestState, FillSteps
    <3>2. status[p] # "FREE" /\ call[p].challenging # None
      BY <3>0, <3>1 DEF HoldsRow, FillSteps, IsChallenge
    <3>3. PICK o \in Predictions : o = call[p].challenging
      BY <3>2, Challenges
    <3>4. /\ status' = [status EXCEPT ![p] = "LOCKED", ![o] = "LOCKED"]
          /\ duel' = [duel EXCEPT ![o] = [status |-> "LOCKED", challenger |-> p, winner |-> None]]
      BY <1>5, <2>2, <3>1, <3>3 DEF ConfirmCommit
    <3>5. \A q \in Predictions \ {o, p} : status'[q] = status[q]
      BY <3>4 DEF TypeOK
    <3>6. duel'[o].status = "LOCKED" /\ duel'[o].challenger = p
      BY <3>4 DEF TypeOK
    <3>7. InDuel(o)' /\ InDuel(p)'
      BY <3>6 DEF InDuel, HasDuel
    <3> QED
      BY <1>0, <3>5, <3>7, InDuelStays DEF LockedIsInDuel
  <2> QED
    BY <2>1, <2>2
<1>6. CASE ExpireOpen
  <2>1. \A p \in Predictions : status'[p] = "LOCKED" => status[p] = "LOCKED"
    BY <1>6 DEF ExpireOpen
  <2> QED
    BY <1>1, <2>1
<1>7. CASE World \/ Crash \/ UNCHANGED vars
  BY <1>2, <1>7 DEF World, WindowEnds, HeadroomBegins, CloseTrading, ReportOutcome, Crash, vars
<1>8. ASSUME NEW r \in Requests, Request(r) PROVE LockedIsInDuel'
  BY <1>2, <1>3, <1>4, <1>5, <1>8 DEF Request, CreateBegin, ChallengeBegin, ConfirmBegin,
     ConfirmFirstRead, ConfirmSecondRead, ConfirmTake, RequestFails
<1>9. CASE Tick
  BY <1>2, <1>6, <1>9 DEF Tick, ResolveBegin, TickAborts, ResolveVoid, ResolveSettle,
     ResolveSkip, TickEnd
<1> QED
  BY <1>7, <1>8, <1>9 DEF Next

\* Rows that were read stay rows of their user, and what was read of them true.
LEMMA RowsStillHold ==
  ASSUME RowsPersist, DuelsPersist, RowsHold, UNCHANGED clashes
  PROVE  RowsHold'
<1> SUFFICES ASSUME NEW p \in DOMAIN clashes.rows
             PROVE  /\ p \in Predictions /\ status'[p] # "FREE" /\ call'[p].user = clashes.user
                    /\ DOMAIN clashes.rows[p] = {"status"} \cup Roles
                    /\ clashes.rows[p].status \in RowStatus
                    /\ clashes.rows[p].status = "LOCKED" => InDuel(p)'
                    /\ \A role \in Roles : ReadingHolds(clashes.rows[p][role], role, p)'
  BY DEF RowsHold, Roles, RowStatus
<1>1. p \in Predictions /\ status'[p] # "FREE" /\ call'[p].user = clashes.user
  BY DEF RowsHold, RowsPersist
<1>2. clashes.rows[p].status = "LOCKED" => InDuel(p)'
  BY InDuelStays DEF RowsHold
<1>3. \A role \in Roles : ReadingHolds(clashes.rows[p][role], role, p)'
  BY <1>1, ReadingStays DEF RowsHold
<1> QED
  BY <1>1, <1>2, <1>3 DEF RowsHold

\* Nothing that a fetch has read, or would read, as won or lost ceases to be.
LEMMA SeenEndedGrows ==
  ASSUME TypeOK, DuelInvariant, (TypeOK /\ DuelInvariant)', RowsPersist, DuelsPersist,
         FetchIsUnderway, RowsHold, UNCHANGED clashes, NEW won \in BOOLEAN
  PROVE  SeenEnded(won) \subseteq SeenEnded(won)'
<1> SUFFICES ASSUME NEW p \in SeenEnded(won) PROVE p \in SeenEnded(won)'
  OBVIOUS
<1>1. p \in RowsOfFetch /\ p \in Predictions
  BY DEF SeenEnded, RowsOfFetch, RowsHold
<1>2. p \in RowsOfFetch'
  BY <1>1 DEF RowsOfFetch, RowsPersist
<1>3. PICK role \in Roles :
        /\ Seen(role, p) # None
        /\ Seen(role, p).status = "RESOLVED"
        /\ (Seen(role, p).winner = clashes.user) = won
  BY DEF SeenEnded
<1>4. /\ Seen(role, p)' # None
      /\ Seen(role, p)'.status = "RESOLVED"
      /\ Seen(role, p)'.winner = Seen(role, p).winner
  <2>1. CASE role \in clashes.read
    BY <1>3, <2>1 DEF Seen
  <2>2. CASE role \notin clashes.read
    <3>1. Seen(role, p) = ChallengeRead(role, p) /\ Seen(role, p)' = ChallengeRead(role, p)'
      BY <2>2 DEF Seen
    <3>2. PICK o \in DuelsAs(role, p) : TRUE
      BY <1>1, <1>3, <3>1, ReadingsTrue DEF ReadingsAreTrue
    <3>3. /\ o \in Predictions /\ HasDuel(o)
          /\ ChallengeRead(role, p).status = duel[o].status
          /\ ChallengeRead(role, p).winner = duel[o].winner
      BY <1>1, <3>2, ReadingsTrue DEF ReadingsAreTrue
    <3>4. duel'[o] = duel[o] /\ duel[o].status = "RESOLVED"
      BY <1>3, <3>1, <3>3 DEF DuelsPersist
    <3>5. o \in DuelsAs(role, p)'
      BY <1>1, <3>2, DuelsAsStay
    <3>6. /\ ChallengeRead(role, p)' # None
          /\ ChallengeRead(role, p)'.status = duel'[o].status
          /\ ChallengeRead(role, p)'.winner = duel'[o].winner
      BY <1>1, <3>5, ReadingsTrueAfter DEF ReadingsAreTrue
    <3> QED
      BY <3>1, <3>3, <3>4, <3>6
  <2> QED
    BY <2>1, <2>2
<1> QED
  BY <1>2, <1>3, <1>4 DEF SeenEnded

\* What a fetch sees of a relation is of a duel, and of how it ended true.
LEMMA SeenHolds ==
  ASSUME TypeOK, DuelInvariant, FetchIsUnderway, RowsHold, NEW p \in RowsOfFetch, NEW role \in Roles
  PROVE  /\ p \in Predictions /\ status[p] # "FREE" /\ call[p].user = clashes.user
         /\ ReadingHolds(Seen(role, p), role, p)
<1>1. p \in Predictions /\ status[p] # "FREE" /\ call[p].user = clashes.user
  BY DEF RowsOfFetch, RowsHold
<1>2. role \in clashes.read => p \in DOMAIN clashes.rows
  BY DEF RowsOfFetch, FetchIsUnderway
<1>3. ReadingHolds(ChallengeRead(role, p), role, p)
  BY <1>1, ReadingsTrue DEF ReadingsAreTrue
<1>4. p \in DOMAIN clashes.rows => ReadingHolds(clashes.rows[p][role], role, p)
  BY DEF RowsHold
<1> QED
  BY <1>1, <1>2, <1>3, <1>4 DEF Seen

\* Each is a side of a duel that has ended so.
LEMMA SeenEndedIs ==
  ASSUME TypeOK, DuelInvariant, FetchIsUnderway, RowsHold, NEW won \in BOOLEAN,
         NEW p \in SeenEnded(won)
  PROVE  /\ p \in Predictions
         /\ \E o \in Resolved : HasDuel(o) /\ p \in {o, duel[o].challenger}
<1>1. p \in RowsOfFetch
  BY DEF SeenEnded
<1>2. PICK role \in Roles : Seen(role, p) # None /\ Seen(role, p).status = "RESOLVED"
  BY DEF SeenEnded
<1>4. p \in Predictions /\ ReadingHolds(Seen(role, p), role, p)
  BY <1>1, SeenHolds
<1>5. PICK o \in DuelsAs(role, p) : duel[o].status = "RESOLVED"
  BY <1>2, <1>4 DEF ReadingHolds
<1>6. o \in Predictions /\ HasDuel(o) /\ p \in {o, duel[o].challenger}
  BY <1>4, ReadingsTrue DEF ReadingsAreTrue
<1> QED
  BY <1>4, <1>5, <1>6 DEF Resolved

\* The sides of the duels that are resolved are finitely many.
LEMMA SidesAreFinite ==
  ASSUME ResultsInvariant, NEW S,
         \A p \in S : \E o \in Resolved : p \in {o, duel[o].challenger}
  PROVE  IsFiniteSet(S)
<1> DEFINE sides == {duel[o].challenger : o \in Resolved}
<1>1. IsFiniteSet(Resolved)
  BY DEF ResultsInvariant
<1>2. IsFiniteSet(sides)
  <2> DEFINE f == [o \in Resolved |-> duel[o].challenger]
  <2>1. f \in Surjection(Resolved, sides)
    BY DEF Surjection
  <2> HIDE DEF f, sides
  <2> QED
    BY <1>1, <2>1, FS_Surjection
<1>3. S \subseteq Resolved \cup sides
  OBVIOUS
<1> HIDE DEF sides
<1>4. IsFiniteSet(Resolved \cup sides)
  BY <1>1, <1>2, FS_Union
<1> QED
  BY <1>3, <1>4, FS_Subset

SeenIsFinite == \A won \in BOOLEAN : IsFiniteSet(SeenEnded(won))

LEMMA SeenFinite ==
  TypeOK /\ DuelInvariant /\ ResultsInvariant /\ FetchIsUnderway /\ RowsHold => SeenIsFinite
BY SeenEndedIs, SidesAreFinite DEF SeenIsFinite

LEMMA SeenFiniteAfter ==
  (TypeOK /\ DuelInvariant /\ ResultsInvariant /\ FetchIsUnderway /\ RowsHold)' => SeenIsFinite'
BY SeenFinite, PTL

\* What a fetch that begins now would see of the results of user u.
ToSee(u, won) ==
  {p \in Predictions : status[p] # "FREE" /\ call[p].user = u /\ \E role \in Roles :
     /\ ChallengeRead(role, p) # None
     /\ ChallengeRead(role, p).status = "RESOLVED"
     /\ (ChallengeRead(role, p).winner = u) = won}

LEMMA ToSeeFinite ==
  ASSUME TypeOK, DuelInvariant, ResultsInvariant, NEW u, NEW won \in BOOLEAN
  PROVE  IsFiniteSet(ToSee(u, won))
<1> SUFFICES ASSUME NEW p \in ToSee(u, won)
             PROVE  \E o \in Resolved : p \in {o, duel[o].challenger}
  BY SidesAreFinite
<1>1. PICK role \in Roles : p \in Predictions /\ ChallengeRead(role, p) # None
                            /\ ChallengeRead(role, p).status = "RESOLVED"
  BY DEF ToSee
<1>2. PICK o \in DuelsAs(role, p) : TRUE
  BY <1>1, ReadingsTrue DEF ReadingsAreTrue
<1>3. o \in Predictions /\ p \in {o, duel[o].challenger} /\ duel[o].status = "RESOLVED"
  BY <1>1, <1>2, ReadingsTrue DEF ReadingsAreTrue
<1> QED
  BY <1>3 DEF Resolved

\* The prediction with which u took part in duel o.
SideOf(u, o) == IF call[o].user = u THEN o ELSE duel[o].challenger

LEMMA SideIsSeen ==
  ASSUME TypeOK, DuelInvariant, NEW u, NEW o \in Resolved,
         u \in {call[o].user, call[duel[o].challenger].user}
  PROVE  SideOf(u, o) \in {o, duel[o].challenger} /\ SideOf(u, o) \in ToSee(u, duel[o].winner = u)
<1>1. o \in Predictions /\ HasDuel(o) /\ duel[o].status = "RESOLVED"
  BY DEF Resolved, HasDuel
<1>2. duel[o].challenger \in Predictions /\ call[o] \in Calls /\ call[duel[o].challenger] \in Calls
  BY <1>1, Sides
<1>3. PICK p \in Predictions : p = SideOf(u, o)
  BY <1>1, <1>2 DEF SideOf
<1>4. p \in {o, duel[o].challenger} /\ call[p].user = u /\ call[p] \in Calls
  BY <1>2, <1>3 DEF SideOf
<1>5. status[p] # "FREE"
  BY <1>4, NoneAssumption DEF DuelInvariant, RowsHaveCalls
<1>6. PICK role \in Roles : o \in DuelsAs(role, p)
  <2>1. CASE p = o
    BY <1>1, <2>1 DEF DuelsAs, Roles
  <2>2. CASE p = duel[o].challenger
    BY <1>1, <2>2 DEF DuelsAs, Roles
  <2> QED
    BY <1>4, <2>1, <2>2
<1>7. /\ ChallengeRead(role, p) # None
      /\ ChallengeRead(role, p).status = "RESOLVED"
      /\ ChallengeRead(role, p).winner = duel[o].winner
  BY <1>1, <1>6, ReadingsTrue DEF ReadingsAreTrue
<1> QED
  BY <1>3, <1>4, <1>5, <1>7 DEF ToSee

\* A user has a prediction for every result that counts in his statistics.
LEMMA ResultsAreSeen ==
  ASSUME TypeOK, DuelInvariant, ResultsInvariant, NEW u \in Users
  PROVE  /\ user[u].wins <= Cardinality(ToSee(u, TRUE))
         /\ user[u].losses <= Cardinality(ToSee(u, FALSE))
<1>1. user[u].wins = Cardinality(Won(u)) /\ user[u].losses = Cardinality(Lost(u))
  BY CountedOnce DEF ResultsInvariant, Counted
<1>2. \A o \in Won(u) : o \in Resolved /\ duel[o].winner = u
                        /\ u \in {call[o].user, call[duel[o].challenger].user}
  BY DEF Won, ResultsInvariant, WinnerWasRight
<1>3. \A o \in Lost(u) : o \in Resolved /\ duel[o].winner # u
                         /\ u \in {call[o].user, call[duel[o].challenger].user}
  BY DEF Lost
<1>4. \A o, q \in Resolved : SideOf(u, o) = SideOf(u, q)
                             /\ SideOf(u, o) \in {o, duel[o].challenger}
                             /\ SideOf(u, q) \in {q, duel[q].challenger} => o = q
  <2> SUFFICES ASSUME NEW o \in Resolved, NEW q \in Resolved, NEW p,
                      p \in {o, duel[o].challenger}, p \in {q, duel[q].challenger}
               PROVE  o = q
    OBVIOUS
  <2>1. o \in Predictions /\ q \in Predictions /\ HasDuel(o) /\ HasDuel(q)
    BY DEF Resolved, HasDuel
  <2> QED
    BY <2>1, OneDuel
<1>5. Cardinality(Won(u)) <= Cardinality(ToSee(u, TRUE))
  <2> DEFINE f == [o \in Won(u) |-> SideOf(u, o)]
  <2>1. f \in Injection(Won(u), ToSee(u, TRUE))
    <3>1. \A o \in Won(u) : f[o] \in ToSee(u, TRUE) /\ f[o] \in {o, duel[o].challenger}
      <4> TAKE o \in Won(u)
      <4>1. (duel[o].winner = u) = TRUE
        BY <1>2
      <4> QED
        BY <1>2, <4>1, SideIsSeen
    <3>2. \A o, q \in Won(u) : f[o] = f[q] => o = q
      <4> SUFFICES ASSUME NEW o \in Won(u), NEW q \in Won(u), f[o] = f[q] PROVE o = q
        OBVIOUS
      <4>1. o \in Resolved /\ q \in Resolved
        BY <1>2
      <4>2. SideOf(u, o) \in {o, duel[o].challenger} /\ SideOf(u, q) \in {q, duel[q].challenger}
        BY <3>1
      <4> QED
        BY <1>4, <4>1, <4>2
    <3>3. f \in [Won(u) -> ToSee(u, TRUE)]
      BY <3>1
    <3> HIDE DEF f
    <3> QED
      BY <3>2, <3>3 DEF Injection, IsInjective
  <2> HIDE DEF f
  <2> QED
    BY <2>1, ToSeeFinite, FS_Injection
<1>6. Cardinality(Lost(u)) <= Cardinality(ToSee(u, FALSE))
  <2> DEFINE f == [o \in Lost(u) |-> SideOf(u, o)]
  <2>1. f \in Injection(Lost(u), ToSee(u, FALSE))
    <3>1. \A o \in Lost(u) : f[o] \in ToSee(u, FALSE) /\ f[o] \in {o, duel[o].challenger}
      <4> TAKE o \in Lost(u)
      <4>1. (duel[o].winner = u) = FALSE
        BY <1>3
      <4> QED
        BY <1>3, <4>1, SideIsSeen
    <3>2. \A o, q \in Lost(u) : f[o] = f[q] => o = q
      <4> SUFFICES ASSUME NEW o \in Lost(u), NEW q \in Lost(u), f[o] = f[q] PROVE o = q
        OBVIOUS
      <4>1. o \in Resolved /\ q \in Resolved
        BY <1>3
      <4>2. SideOf(u, o) \in {o, duel[o].challenger} /\ SideOf(u, q) \in {q, duel[q].challenger}
        BY <3>1
      <4> QED
        BY <1>4, <4>1, <4>2
    <3>3. f \in [Lost(u) -> ToSee(u, FALSE)]
      BY <3>1
    <3> HIDE DEF f
    <3> QED
      BY <3>2, <3>3 DEF Injection, IsInjective
  <2> HIDE DEF f
  <2> QED
    BY <2>1, ToSeeFinite, FS_Injection
<1> QED
  BY <1>1, <1>5, <1>6

\* The pages only read the duels.
LEMMA SameReadings ==
  ASSUME UNCHANGED vars
  PROVE  /\ \A p : InDuel(p)' <=> InDuel(p)
         /\ \A role, p : DuelsAs(role, p)' = DuelsAs(role, p)
         /\ \A role, p : ChallengeRead(role, p)' = ChallengeRead(role, p)
         /\ \A c, role, p : ReadingHolds(c, role, p)' <=> ReadingHolds(c, role, p)
         /\ LockedIsInDuel <=> LockedIsInDuel'
<1>0. UNCHANGED <<status, duel>>
  BY DEF vars, rows
<1>1. \A p : InDuel(p)' <=> InDuel(p)
  BY <1>0 DEF InDuel, HasDuel
<1>2. \A role, p : DuelsAs(role, p)' = DuelsAs(role, p)
  BY <1>0 DEF DuelsAs, HasDuel
<1>3. \A role, p : ChallengeRead(role, p)' = ChallengeRead(role, p)
  BY <1>0, <1>2 DEF ChallengeRead
<1>4. \A c, role, p : ReadingHolds(c, role, p)' <=> ReadingHolds(c, role, p)
  BY <1>0, <1>2 DEF ReadingHolds
<1>5. LockedIsInDuel <=> LockedIsInDuel'
  BY <1>0, <1>1 DEF LockedIsInDuel
<1> QED
  BY <1>1, <1>2, <1>3, <1>4, <1>5

\* Nor do the pages touch the battles.
LEMMA SameBattles ==
  ASSUME UNCHANGED battles
  PROVE  /\ \A e, m : WithWinner(e, m)' = WithWinner(e, m)
         /\ \A u : PlayedBy(u)' = PlayedBy(u)
         /\ \A u, e, m : EntryHolds(u, e, m)' <=> EntryHolds(u, e, m)
         /\ BattlesHold <=> BattlesHold'
<1>0. battle' = battle /\ tally' = tally
  BY DEF battles
<1>1. \A e, m : WithWinner(e, m)' = WithWinner(e, m)
  BY <1>0 DEF WithWinner
<1>2. \A u : PlayedBy(u)' = PlayedBy(u)
  BY <1>0 DEF PlayedBy, EntryRead, WithWinner
<1>3. \A u, e, m : EntryHolds(u, e, m)' <=> EntryHolds(u, e, m)
  BY <1>0 DEF EntryHolds
<1>4. Decided' = Decided
  BY <1>0 DEF Decided
<1>5. BattlesHold <=> BattlesHold'
  BY <1>0, <1>2, <1>4 DEF BattlesHold, Placings, Misses
<1> QED
  BY <1>1, <1>2, <1>3, <1>5

\* What a user has played that counts is about battles that are decided, which
\* are finitely many.
LEMMA CountedIsDecided ==
  ASSUME BattlesHold, NEW u \in Users, NEW played,
         \A m \in Markets : EntryHolds(u, played[m], m)
  PROVE  /\ IsFiniteSet(Placings(played)) /\ IsFiniteSet(Misses(played))
         /\ Cardinality(Placings(played)) \in Nat /\ Cardinality(Misses(played)) \in Nat
<1>1. Placings(played) \subseteq Decided /\ Misses(played) \subseteq Decided
  BY DEF Placings, Misses, Decided, EntryHolds, BattlesHold
<1> QED
  BY <1>1, FS_Subset, FS_CardinalityType DEF BattlesHold

LEMMA EntryReadHolds ==
  ASSUME BattlesHold, NEW u \in Users, NEW m \in Markets
  PROVE  /\ EntryHolds(u, EntryRead(u, m), m)
         /\ \A e : EntryHolds(u, e, m) => EntryHolds(u, WithWinner(e, m), m)
<1>1. battle[m] \in BattleRows
  BY DEF BattlesHold
<1>2. EntryHolds(u, EntryRead(u, m), m)
  <2>1. battle[m].entries[u] \in Picks /\ "null" \in Picks /\ (u \in battle[m].placed) \in BOOLEAN
    BY <1>1 DEF BattleRows, Picks
  <2>2. EntryRead(u, m) \in [direction : Picks, placed : BOOLEAN, winning : Picks]
    BY <2>1 DEF EntryRead
  <2>3. /\ EntryRead(u, m).direction = battle[m].entries[u]
        /\ EntryRead(u, m).placed => u \in battle[m].placed
        /\ EntryRead(u, m).winning = "null"
    BY DEF EntryRead
  <2> QED
    BY <2>2, <2>3 DEF EntryHolds
<1>3. ASSUME NEW e, EntryHolds(u, e, m) PROVE EntryHolds(u, WithWinner(e, m), m)
  BY <1>1, <1>3 DEF EntryHolds, WithWinner, BattleRows, Picks
<1> QED
  BY <1>2, <1>3

LEMMA PlayedHolds ==
  ASSUME BattlesHold, NEW u \in Users
  PROVE  \A m \in Markets : EntryHolds(u, PlayedBy(u)[m], m)
BY EntryReadHolds DEF PlayedBy

LEMMA PlayedFinite ==
  ASSUME BattlesHold, NEW u \in Users
  PROVE  IsFiniteSet(Placings(PlayedBy(u))) /\ IsFiniteSet(Misses(PlayedBy(u)))
BY PlayedHolds, CountedIsDecided

\* And so is what a fetch has read of it, or would read.
LEMMA SeenPlayedHolds ==
  ASSUME FetchIsUnderway, BattlesHold, EntriesReadHold, clashes.pc # "idle"
  PROVE  \A m \in Markets : EntryHolds(clashes.user, SeenPlayed[m], m)
<1>1. clashes.user \in Users
  BY DEF FetchIsUnderway
<1>2. CASE clashes.pc = "answered"
  BY <1>2 DEF SeenPlayed, EntriesReadHold
<1>3. CASE clashes.pc = "battles"
  BY <1>1, <1>3, EntryReadHolds DEF SeenPlayed, EntriesReadHold
<1>4. CASE clashes.pc \notin {"battles", "answered"}
  BY <1>1, <1>4, PlayedHolds DEF SeenPlayed
<1> QED
  BY <1>2, <1>3, <1>4

SeenPlayedIsSo == \A m \in Markets : EntryHolds(clashes.user, SeenPlayed[m], m)

LEMMA SeenPlayedHoldsAfter ==
  (FetchIsUnderway /\ BattlesHold /\ EntriesReadHold /\ clashes.pc # "idle")' => SeenPlayedIsSo'
<1>1. FetchIsUnderway /\ BattlesHold /\ EntriesReadHold /\ clashes.pc # "idle" => SeenPlayedIsSo
  BY SeenPlayedHolds DEF SeenPlayedIsSo
<1> QED
  BY <1>1, PTL

\* What is shown does not change.
LEMMA ShownStays ==
  ASSUME HistoryHolds, RecordIsCovered, EntriesShownHold, UNCHANGED vars, UNCHANGED battles,
         clashes'.profile = clashes.profile, clashes'.user = clashes.user
  PROVE  HistoryHolds' /\ RecordIsCovered' /\ EntriesShownHold'
<1>1. UNCHANGED duel
  BY DEF vars, rows
<1>2. HistoryHolds'
  BY <1>1 DEF HistoryHolds, HasDuel
<1>3. RecordIsCovered'
  BY DEF RecordIsCovered, Placings, Misses
<1>4. EntriesShownHold'
  BY SameBattles DEF EntriesShownHold
<1> QED
  BY <1>2, <1>3, <1>4

\* The user row is read.
LEMMA UserRead ==
  ASSUME TypeOK, DuelInvariant, ResultsInvariant, ClashesInvariant, ReadUser,
         UNCHANGED vars, UNCHANGED battles
  PROVE  ClashesInvariant'
<1> DEFINE u == clashes.user
<1>1. /\ DOMAIN clashes' = DOMAIN NoClashes /\ clashes'.user = u
      /\ clashes'.pc = "predictions"
      /\ clashes'.record = [wins |-> user[u].wins + tally[u].wins,
                            losses |-> user[u].losses + tally[u].losses]
      /\ clashes'.rows = clashes.rows /\ clashes'.read = clashes.read
      /\ clashes'.profile = clashes.profile
  BY DEF ReadUser, ClashesInvariant, FetchIsUnderway, NoClashes
<1>2. u \in Users /\ DOMAIN clashes.rows = {} /\ clashes.read = {}
  BY DEF ReadUser, ClashesInvariant, FetchIsUnderway
<1>0. /\ user[u].wins \in Nat /\ user[u].losses \in Nat
      /\ tally[u].wins \in Nat /\ tally[u].losses \in Nat
  BY <1>2 DEF TypeOK, UserRows, ClashesInvariant, BattlesHold
<1>3. FetchIsUnderway'
  BY <1>0, <1>1, <1>2, NoneAssumption DEF FetchIsUnderway, NoClashes
<1>4. RowsHold'
  BY <1>1, <1>2 DEF RowsHold
<1>5. ASSUME NEW won \in BOOLEAN PROVE SeenEnded(won)' = ToSee(u, won)
  <2>1. RowsOfFetch' = {p \in Predictions : status[p] # "FREE" /\ call[p].user = u}
    BY <1>1 DEF RowsOfFetch, vars, rows
  <2>2. \A role, p : Seen(role, p)' = ChallengeRead(role, p)
    BY <1>1, <1>2, SameReadings DEF Seen
  <2> QED
    BY <1>1, <2>1, <2>2 DEF SeenEnded, ToSee
<1>6. RecordIsBehind'
  <2>1. user[u].wins <= Cardinality(ToSee(u, TRUE)) /\ user[u].losses <= Cardinality(ToSee(u, FALSE))
    BY <1>2, ResultsAreSeen
  <2>2. SeenEnded(TRUE)' = ToSee(u, TRUE) /\ SeenEnded(FALSE)' = ToSee(u, FALSE)
    BY <1>5
  <2>3. /\ clashes'.record.wins = user[u].wins + tally[u].wins
        /\ clashes'.record.losses = user[u].losses + tally[u].losses
    BY <1>1
  <2>4. SeenPlayed' = PlayedBy(u)
    BY <1>1, SameBattles DEF SeenPlayed
  <2>5. /\ Placings(SeenPlayed)' = Placings(PlayedBy(u))
        /\ Misses(SeenPlayed)' = Misses(PlayedBy(u))
    BY <2>4 DEF Placings, Misses
  <2>6. /\ tally[u].wins <= Cardinality(Placings(PlayedBy(u)))
        /\ tally[u].losses <= Cardinality(Misses(PlayedBy(u)))
    BY <1>2 DEF ClashesInvariant, BattlesHold
  <2>7. \A won \in BOOLEAN : Cardinality(ToSee(u, won)) \in Nat
    BY ToSeeFinite, FS_CardinalityType
  <2>8. /\ Cardinality(Placings(PlayedBy(u))) \in Nat
        /\ Cardinality(Misses(PlayedBy(u))) \in Nat
    BY <1>2, PlayedFinite, FS_CardinalityType DEF ClashesInvariant
  <2>9. \A a, b, c, d \in Nat : a <= b /\ c <= d => a + c <= b + d
    OBVIOUS
  <2>10. user[u].wins + tally[u].wins <= Cardinality(ToSee(u, TRUE)) + Cardinality(Placings(PlayedBy(u)))
    BY <1>0, <2>1, <2>6, <2>7, <2>8, <2>9
  <2>11. user[u].losses + tally[u].losses <= Cardinality(ToSee(u, FALSE)) + Cardinality(Misses(PlayedBy(u)))
    BY <1>0, <2>1, <2>6, <2>7, <2>8, <2>9
  <2> QED
    BY <2>2, <2>3, <2>5, <2>10, <2>11 DEF RecordIsBehind
<1>7. EntriesReadHold'
  BY <1>1 DEF EntriesReadHold
<1> QED
  BY <1>1, <1>3, <1>4, <1>6, <1>7, SameReadings, SameBattles, ShownStays DEF ClashesInvariant

\* A reading that leaves what the fetch sees as it is.
LEMMA RelationRead ==
  ASSUME ClashesInvariant, UNCHANGED vars, UNCHANGED battles,
         FetchIsUnderway', RowsHold', EntriesReadHold',
         RowsOfFetch' = RowsOfFetch, SeenPlayed' = SeenPlayed,
         \A role \in Roles, p \in RowsOfFetch : Seen(role, p)' = Seen(role, p),
         clashes.pc # "idle", clashes'.user = clashes.user, clashes'.record = clashes.record,
         clashes'.profile = clashes.profile
  PROVE  ClashesInvariant'
<1>1. \A won \in BOOLEAN : SeenEnded(won)' = SeenEnded(won)
  BY DEF SeenEnded
<1>2. RecordIsBehind'
  BY <1>1 DEF RecordIsBehind, ClashesInvariant, Placings, Misses
<1> QED
  BY <1>2, SameReadings, SameBattles, ShownStays DEF ClashesInvariant

LEMMA PredictionsRead ==
  ASSUME TypeOK, DuelInvariant, ClashesInvariant, ReadPredictions, UNCHANGED vars, UNCHANGED battles
  PROVE  ClashesInvariant'
<1> DEFINE mine == {p \in Predictions : status[p] # "FREE" /\ call[p].user = clashes.user}
<1>1. /\ DOMAIN clashes' = DOMAIN NoClashes /\ clashes'.user = clashes.user
      /\ clashes'.pc = "challenges" /\ clashes'.record = clashes.record
      /\ clashes'.rows = [p \in mine |-> [status |-> status[p], original |-> None, challenger |-> None]]
      /\ clashes'.read = clashes.read /\ clashes'.profile = clashes.profile
  BY DEF ReadPredictions, ClashesInvariant, FetchIsUnderway, NoClashes
<1>2. clashes.pc = "predictions" /\ clashes.read = {} /\ clashes.user \in Users \cup {None} /\ clashes.user # None
      /\ clashes.record \in [wins : Nat, losses : Nat]
  BY DEF ReadPredictions, ClashesInvariant, FetchIsUnderway
<1>3. FetchIsUnderway'
  BY <1>1, <1>2 DEF FetchIsUnderway, NoClashes
<1>4. RowsOfFetch = mine /\ RowsOfFetch' = mine
  BY <1>1, <1>2 DEF RowsOfFetch
<1>5. RowsHold'
  <2> SUFFICES ASSUME NEW p \in mine
               PROVE  /\ status'[p] # "FREE" /\ call'[p].user = clashes'.user
                      /\ DOMAIN clashes'.rows[p] = {"status"} \cup Roles
                      /\ clashes'.rows[p].status \in RowStatus
                      /\ clashes'.rows[p].status = "LOCKED" => InDuel(p)'
                      /\ \A role \in Roles : clashes'.rows[p][role] = None
    BY <1>1 DEF RowsHold, ReadingHolds
  <2>1. clashes'.rows[p] = [status |-> status[p], original |-> None, challenger |-> None]
    BY <1>1
  <2>2. status[p] \in RowStatus
    BY DEF TypeOK
  <2>3. clashes'.rows[p].status = "LOCKED" => InDuel(p)'
    BY <2>1, SameReadings DEF ClashesInvariant, LockedIsInDuel
  <2> QED
    BY <1>1, <2>1, <2>2, <2>3 DEF Roles, vars, rows
<1>6. \A role, p : Seen(role, p)' = Seen(role, p)
  BY <1>1, <1>2, SameReadings DEF Seen
<1>7. EntriesReadHold' /\ SeenPlayed' = SeenPlayed
  BY <1>1, <1>2, SameBattles DEF EntriesReadHold, SeenPlayed
<1> QED
  BY <1>1, <1>2, <1>3, <1>4, <1>5, <1>6, <1>7, RelationRead

LEMMA ChallengesRead ==
  ASSUME TypeOK, DuelInvariant, ClashesInvariant, NEW role \in Roles, ReadChallenges(role),
         UNCHANGED vars, UNCHANGED battles
  PROVE  ClashesInvariant'
<1>1. /\ DOMAIN clashes' = DOMAIN NoClashes /\ clashes'.user = clashes.user
      /\ clashes'.pc = clashes.pc /\ clashes'.record = clashes.record
      /\ clashes'.rows = [p \in DOMAIN clashes.rows |->
                            [clashes.rows[p] EXCEPT ![role] = ChallengeRead(role, p)]]
      /\ clashes'.read = clashes.read \cup {role} /\ clashes'.profile = clashes.profile
  BY DEF ReadChallenges, ClashesInvariant, FetchIsUnderway, NoClashes
<1>2. clashes.pc = "challenges"
  BY DEF ReadChallenges
<1>3. FetchIsUnderway'
  BY <1>1, <1>2 DEF FetchIsUnderway, ClashesInvariant
<1>4. RowsOfFetch = DOMAIN clashes.rows /\ RowsOfFetch' = DOMAIN clashes.rows
  BY <1>1, <1>2 DEF RowsOfFetch
<1>5. ASSUME NEW p \in DOMAIN clashes.rows
      PROVE  /\ DOMAIN clashes'.rows[p] = {"status"} \cup Roles
             /\ clashes'.rows[p].status = clashes.rows[p].status
             /\ clashes'.rows[p][role] = ChallengeRead(role, p)
             /\ \A other \in Roles \ {role} : clashes'.rows[p][other] = clashes.rows[p][other]
  <2>1. clashes'.rows[p] = [clashes.rows[p] EXCEPT ![role] = ChallengeRead(role, p)]
    BY <1>1
  <2>2. DOMAIN clashes.rows[p] = {"status"} \cup Roles /\ "status" \notin Roles
    BY DEF ClashesInvariant, RowsHold, Roles
  <2> HIDE DEF Roles
  <2> QED
    BY <2>1, <2>2
<1>6. RowsHold'
  <2> SUFFICES ASSUME NEW p \in DOMAIN clashes.rows
               PROVE  /\ p \in Predictions /\ status'[p] # "FREE" /\ call'[p].user = clashes'.user
                      /\ DOMAIN clashes'.rows[p] = {"status"} \cup Roles
                      /\ clashes'.rows[p].status \in RowStatus
                      /\ clashes'.rows[p].status = "LOCKED" => InDuel(p)'
                      /\ \A r \in Roles : ReadingHolds(clashes.rows[p][r], r, p)'
    BY <1>1 DEF RowsHold
  <2>1. /\ p \in Predictions /\ status[p] # "FREE" /\ call[p].user = clashes.user
        /\ clashes.rows[p].status \in RowStatus
        /\ clashes.rows[p].status = "LOCKED" => InDuel(p)
        /\ \A r \in Roles : ReadingHolds(clashes.rows[p][r], r, p)
    BY DEF ClashesInvariant, RowsHold
  <2>2. ReadingHolds(ChallengeRead(role, p), role, p)
    BY <2>1, ReadingsTrue DEF ReadingsAreTrue
  <2>3. \A r \in Roles : ReadingHolds(clashes'.rows[p][r], r, p)
    BY <1>5, <2>1, <2>2
  <2>4. \A r \in Roles : ReadingHolds(clashes.rows[p][r], r, p)'
    BY <2>3, SameReadings DEF ReadingHolds, vars, rows, Readings
  <2> QED
    BY <1>1, <1>5, <2>1, <2>4, SameReadings DEF vars, rows
<1>7. ASSUME NEW r \in Roles, NEW p \in RowsOfFetch PROVE Seen(r, p)' = Seen(r, p)
  <2>1. Seen(r, p)' = IF r \in clashes'.read THEN clashes'.rows[p][r] ELSE ChallengeRead(r, p)
    BY SameReadings DEF Seen
  <2>2. role \notin clashes.read
    BY DEF ReadChallenges
  <2> QED
    BY <1>1, <1>4, <1>5, <2>1, <2>2 DEF Seen
<1>8. EntriesReadHold' /\ SeenPlayed' = SeenPlayed
  BY <1>1, <1>2, SameBattles DEF EntriesReadHold, SeenPlayed
<1> QED
  BY <1>1, <1>2, <1>3, <1>4, <1>6, <1>7, <1>8, RelationRead

\* The rows of a fetch stay as they are when its entries or their battles are
\* read.
LEMMA RowsKept ==
  ASSUME ClashesInvariant, UNCHANGED vars, clashes.pc \in {"challenges", "battles"},
         clashes'.pc \in {"battles", "answered"},
         clashes'.user = clashes.user, clashes'.rows = clashes.rows, clashes'.read = clashes.read
  PROVE  /\ RowsHold' /\ RowsOfFetch' = RowsOfFetch
         /\ \A role, p : Seen(role, p)' = Seen(role, p)
<1>1. RowsHold'
  BY SameReadings DEF RowsHold, ClashesInvariant, vars, rows, ReadingHolds, Readings
<1>2. \A role, p : Seen(role, p)' = Seen(role, p)
  BY SameReadings DEF Seen
<1>3. RowsOfFetch' = RowsOfFetch
  BY DEF RowsOfFetch
<1> QED
  BY <1>1, <1>2, <1>3

LEMMA EntriesRead ==
  ASSUME ClashesInvariant, ReadEntries, UNCHANGED vars, UNCHANGED battles
  PROVE  ClashesInvariant'
<1>1. /\ DOMAIN clashes' = DOMAIN NoClashes /\ clashes'.user = clashes.user
      /\ clashes'.pc = "battles" /\ clashes'.record = clashes.record
      /\ clashes'.rows = clashes.rows /\ clashes'.read = clashes.read
      /\ clashes'.played = [m \in Markets |-> EntryRead(clashes.user, m)]
      /\ clashes'.profile = clashes.profile
  BY DEF ReadEntries, ClashesInvariant, FetchIsUnderway, NoClashes
<1>2. clashes.pc = "challenges" /\ clashes.read = Roles /\ clashes.user \in Users
  BY DEF ReadEntries, ClashesInvariant, FetchIsUnderway
<1>3. FetchIsUnderway'
  BY <1>1, <1>2 DEF FetchIsUnderway, ClashesInvariant
<1>4. EntriesReadHold'
  <2>1. \A m \in Markets : EntryHolds(clashes.user, clashes'.played[m], m)
    BY <1>1, <1>2, EntryReadHolds DEF ClashesInvariant
  <2> QED
    BY <1>1, <2>1, SameBattles DEF EntriesReadHold
<1>5. SeenPlayed' = SeenPlayed
  <2>1. SeenPlayed' = [m \in Markets |-> WithWinner(clashes'.played[m], m)]
    BY <1>1, SameBattles DEF SeenPlayed
  <2>2. SeenPlayed = [m \in Markets |-> WithWinner(EntryRead(clashes.user, m), m)]
    BY <1>2 DEF SeenPlayed, PlayedBy
  <2>3. \A m \in Markets : clashes'.played[m] = EntryRead(clashes.user, m)
    BY <1>1
  <2> QED
    BY <2>1, <2>2, <2>3
<1> QED
  BY <1>1, <1>2, <1>3, <1>4, <1>5, RowsKept, RelationRead

LEMMA BattlesRead ==
  ASSUME ClashesInvariant, ReadBattles, UNCHANGED vars, UNCHANGED battles
  PROVE  ClashesInvariant'
<1>1. /\ DOMAIN clashes' = DOMAIN NoClashes /\ clashes'.user = clashes.user
      /\ clashes'.pc = "answered" /\ clashes'.record = clashes.record
      /\ clashes'.rows = clashes.rows /\ clashes'.read = clashes.read
      /\ clashes'.played = [m \in Markets |-> WithWinner(clashes.played[m], m)]
      /\ clashes'.profile = clashes.profile
  BY DEF ReadBattles, ClashesInvariant, FetchIsUnderway, NoClashes
<1>2. clashes.pc = "battles" /\ clashes.user \in Users
  BY DEF ReadBattles, ClashesInvariant, FetchIsUnderway
<1>3. FetchIsUnderway'
  BY <1>1, <1>2 DEF FetchIsUnderway, ClashesInvariant
<1>4. EntriesReadHold'
  <2>1. \A m \in Markets : EntryHolds(clashes.user, clashes'.played[m], m)
    BY <1>1, <1>2, EntryReadHolds DEF ClashesInvariant, EntriesReadHold
  <2> QED
    BY <1>1, <2>1, SameBattles DEF EntriesReadHold
<1>5. SeenPlayed' = SeenPlayed
  BY <1>1, <1>2 DEF SeenPlayed
<1> QED
  BY <1>1, <1>2, <1>3, <1>4, <1>5, RowsKept, RelationRead

\* A row has one challenge at most, and the result it is given is its end.
LEMMA ResultIs ==
  ASSUME TypeOK, DuelInvariant, ClashesInvariant, clashes.read = Roles,
         NEW p \in DOMAIN clashes.rows, NEW result, result = Result(clashes.user, clashes.rows[p])
  PROVE  /\ result = "WIN" <=> p \in SeenEnded(TRUE)
         /\ result = "LOSS" <=> p \in SeenEnded(FALSE)
         /\ result \in {"LOCKED", "WIN", "LOSS", "VOIDED"} =>
              \E o \in Predictions :
                /\ HasDuel(o) /\ p \in {o, duel[o].challenger}
                /\ result \in {"WIN", "LOSS"} =>
                     /\ duel[o].status = "RESOLVED"
                     /\ result = "WIN" <=> duel[o].winner = clashes.user
                /\ result = "VOIDED" => duel[o].status = "VOIDED"
<1> DEFINE first  == clashes.rows[p]["original"]
           second == clashes.rows[p]["challenger"]
           found(c) == \E o \in Predictions :
                         /\ HasDuel(o) /\ p \in {o, duel[o].challenger}
                         /\ c.status \in {"RESOLVED", "VOIDED"} =>
                              c.status = duel[o].status /\ c.winner = duel[o].winner
<1>1. p \in RowsOfFetch /\ p \in Predictions
  BY DEF RowsOfFetch, ClashesInvariant, FetchIsUnderway, RowsHold, Roles
<1>2. Seen("original", p) = first /\ Seen("challenger", p) = second
  BY DEF Seen, Roles
<1>3. ReadingHolds(first, "original", p) /\ ReadingHolds(second, "challenger", p)
  BY DEF ClashesInvariant, RowsHold, Roles
<1>4. first # None => first \in Readings /\ found(first)
  BY <1>1, <1>3, ReadingsTrue DEF ReadingHolds, ReadingsAreTrue, Roles
<1>5. second # None => second \in Readings /\ found(second)
  BY <1>1, <1>3, ReadingsTrue DEF ReadingHolds, ReadingsAreTrue, Roles
<1>6. first = None \/ second = None
  <2> SUFFICES ASSUME first # None, second # None PROVE FALSE
    OBVIOUS
  <2>1. PICK o \in DuelsAs("original", p) : TRUE
    BY <1>3 DEF ReadingHolds
  <2>2. PICK q \in DuelsAs("challenger", p) : TRUE
    BY <1>3 DEF ReadingHolds
  <2>3. o \in Predictions /\ HasDuel(o) /\ p = o
    BY <2>1 DEF DuelsAs
  <2>4. q \in Predictions /\ HasDuel(q) /\ p = duel[q].challenger
    BY <2>2 DEF DuelsAs
  <2>5. o = q
    BY <2>3, <2>4, OneDuel
  <2>6. call[p].challenging = p /\ status[p] = "LOCKED"
    BY <2>3, <2>4, <2>5 DEF DuelInvariant, DuelsAreLocked
  <2> QED
    BY <1>1, <2>6, Challenges, NoneAssumption
<1>7. \A won \in BOOLEAN : p \in SeenEnded(won) <=>
        \/ first # None /\ first.status = "RESOLVED" /\ (first.winner = clashes.user) = won
        \/ second # None /\ second.status = "RESOLVED" /\ (second.winner = clashes.user) = won
  BY <1>1, <1>2 DEF SeenEnded, Roles
<1>8. result = LET c == IF first # None THEN first ELSE second IN
               IF c = None THEN clashes.rows[p].status
               ELSE IF c.status # "RESOLVED" THEN c.status
               ELSE IF c.winner = clashes.user THEN "WIN" ELSE "LOSS"
  BY DEF Result
<1>9. clashes.rows[p].status \in RowStatus /\ (clashes.rows[p].status = "LOCKED" => InDuel(p))
  BY DEF ClashesInvariant, RowsHold
<1> HIDE DEF first, second
<1>10. CASE first = None /\ second = None
  BY <1>7, <1>8, <1>9, <1>10 DEF RowStatus, InDuel
<1>11. ASSUME NEW c \in Readings, c # None, found(c),
              \/ first = c /\ second = None
              \/ first = None /\ second = c
       PROVE  /\ result = "WIN" <=> p \in SeenEnded(TRUE)
              /\ result = "LOSS" <=> p \in SeenEnded(FALSE)
              /\ result \in {"LOCKED", "WIN", "LOSS", "VOIDED"} =>
                   \E o \in Predictions :
                     /\ HasDuel(o) /\ p \in {o, duel[o].challenger}
                     /\ result \in {"WIN", "LOSS"} =>
                          /\ duel[o].status = "RESOLVED"
                          /\ result = "WIN" <=> duel[o].winner = clashes.user
                     /\ result = "VOIDED" => duel[o].status = "VOIDED"
  <2>1. result = IF c.status # "RESOLVED" THEN c.status
                 ELSE IF c.winner = clashes.user THEN "WIN" ELSE "LOSS"
    BY <1>8, <1>11
  <2>2. c.status \in DuelStatus
    BY DEF Readings
  <2>3. \A won \in BOOLEAN : p \in SeenEnded(won) <=>
          c.status = "RESOLVED" /\ (c.winner = clashes.user) = won
    BY <1>7, <1>11
  <2>4. PICK o \in Predictions :
          /\ HasDuel(o) /\ p \in {o, duel[o].challenger}
          /\ c.status \in {"RESOLVED", "VOIDED"} =>
               c.status = duel[o].status /\ c.winner = duel[o].winner
    BY <1>11
  <2>5. /\ result = "WIN" <=> p \in SeenEnded(TRUE)
        /\ result = "LOSS" <=> p \in SeenEnded(FALSE)
    BY <2>1, <2>2, <2>3 DEF DuelStatus
  <2>6. /\ result \in {"WIN", "LOSS"} =>
             /\ duel[o].status = "RESOLVED"
             /\ result = "WIN" <=> duel[o].winner = clashes.user
        /\ result = "VOIDED" => duel[o].status = "VOIDED"
    BY <2>1, <2>2, <2>4 DEF DuelStatus
  <2> QED
    BY <2>4, <2>5, <2>6
<1> QED
  BY <1>4, <1>5, <1>6, <1>10, <1>11

LEMMA ProfileShown ==
  ASSUME TypeOK, DuelInvariant, ClashesInvariant, ShowProfile, UNCHANGED vars, UNCHANGED battles
  PROVE  ClashesInvariant'
<1> DEFINE history == [p \in DOMAIN clashes.rows |-> Result(clashes.user, clashes.rows[p])]
<1>1. /\ DOMAIN clashes' = DOMAIN NoClashes /\ clashes'.user = clashes.user
      /\ clashes'.pc = "idle" /\ clashes'.rows = <<>> /\ clashes'.read = {}
      /\ clashes'.profile = [record |-> clashes.record, history |-> history,
                             battleHistory |-> clashes.played]
  BY DEF ShowProfile, ProfileIdle, ClashesInvariant, FetchIsUnderway, NoClashes
<1>2. clashes.read = Roles /\ clashes.pc = "answered" /\ clashes.user \in Users
  BY DEF ShowProfile, ClashesInvariant, FetchIsUnderway
<1>3. DOMAIN clashes'.rows = {}
  BY <1>1
<1>4. FetchIsUnderway'
  BY <1>1, <1>3 DEF FetchIsUnderway, ClashesInvariant, Roles
<1>5. RowsHold' /\ RecordIsBehind' /\ EntriesReadHold'
  BY <1>1, <1>3 DEF RowsHold, RecordIsBehind, EntriesReadHold
<1>6. /\ clashes'.profile.record = clashes.record /\ clashes'.profile.history = history
      /\ clashes'.profile.battleHistory = clashes.played
  BY <1>1
<1>7. DOMAIN history = DOMAIN clashes.rows
      /\ \A p \in DOMAIN clashes.rows : history[p] = Result(clashes.user, clashes.rows[p])
  OBVIOUS
<1> HIDE DEF history
<1>10. ASSUME NEW p \in DOMAIN clashes.rows
       PROVE  /\ history[p] = "WIN" <=> p \in SeenEnded(TRUE)
              /\ history[p] = "LOSS" <=> p \in SeenEnded(FALSE)
              /\ history[p] \in {"LOCKED", "WIN", "LOSS", "VOIDED"} =>
                   \E o \in Predictions :
                     /\ HasDuel(o) /\ p \in {o, duel[o].challenger}
                     /\ history[p] \in {"WIN", "LOSS"} =>
                          /\ duel[o].status = "RESOLVED"
                          /\ history[p] = "WIN" <=> duel[o].winner = clashes.user
                     /\ history[p] = "VOIDED" => duel[o].status = "VOIDED"
  <2>1. PICK result : result = history[p]
    OBVIOUS
  <2>2. result = Result(clashes.user, clashes.rows[p])
    BY <1>7, <2>1
  <2> QED
    BY <1>2, <2>1, <2>2, ResultIs
<1>8. HistoryHolds'
  <2> SUFFICES ASSUME NEW p \in DOMAIN history, history[p] \in {"LOCKED", "WIN", "LOSS", "VOIDED"}
               PROVE  \E o \in Predictions :
                        /\ HasDuel(o)' /\ p \in {o, duel'[o].challenger}
                        /\ history[p] \in {"WIN", "LOSS"} =>
                             /\ duel'[o].status = "RESOLVED"
                             /\ history[p] = "WIN" <=> duel'[o].winner = clashes.user
                        /\ history[p] = "VOIDED" => duel'[o].status = "VOIDED"
    BY <1>1, <1>6 DEF HistoryHolds
  <2> QED
    BY <1>7, <1>10 DEF HasDuel, vars, rows
<1>9. RecordIsCovered'
  <2>1. SeenEnded(TRUE) = {p \in DOMAIN history : history[p] = "WIN"}
    <3>1. \A p \in SeenEnded(TRUE) : p \in DOMAIN clashes.rows
      BY <1>2 DEF SeenEnded, RowsOfFetch
    <3> QED
      BY <1>7, <1>10, <3>1
  <2>2. SeenEnded(FALSE) = {p \in DOMAIN history : history[p] = "LOSS"}
    <3>1. \A p \in SeenEnded(FALSE) : p \in DOMAIN clashes.rows
      BY <1>2 DEF SeenEnded, RowsOfFetch
    <3> QED
      BY <1>7, <1>10, <3>1
  <2>3. SeenPlayed = clashes.played
    BY <1>2 DEF SeenPlayed
  <2> QED
    BY <1>2, <1>6, <2>1, <2>2, <2>3 DEF RecordIsCovered, ClashesInvariant, RecordIsBehind, Placings, Misses
<1>11. EntriesShownHold'
  <2>1. \A m \in Markets : EntryHolds(clashes.user, clashes.played[m], m)
    BY <1>2 DEF ClashesInvariant, EntriesReadHold
  <2> QED
    BY <1>1, <1>2, <1>6, <2>1, SameBattles DEF EntriesShownHold
<1> QED
  BY <1>4, <1>5, <1>8, <1>9, <1>11, SameReadings, SameBattles DEF ClashesInvariant

LEMMA ProfileFailed ==
  ASSUME ClashesInvariant, ProfileFails, UNCHANGED vars, UNCHANGED battles
  PROVE  ClashesInvariant'
<1>1. /\ DOMAIN clashes' = DOMAIN NoClashes /\ clashes'.user = clashes.user
      /\ clashes'.pc = "idle" /\ clashes'.rows = <<>> /\ clashes'.read = {}
      /\ clashes'.profile = clashes.profile
  BY DEF ProfileFails, ProfileIdle, ClashesInvariant, FetchIsUnderway, NoClashes
<1>2. DOMAIN clashes'.rows = {}
  BY <1>1
<1>3. FetchIsUnderway'
  BY <1>1, <1>2 DEF FetchIsUnderway, ClashesInvariant, Roles
<1>4. RowsHold' /\ RecordIsBehind' /\ EntriesReadHold'
  BY <1>1, <1>2 DEF RowsHold, RecordIsBehind, EntriesReadHold
<1> QED
  BY <1>1, <1>3, <1>4, SameReadings, SameBattles, ShownStays DEF ClashesInvariant

LEMMA OpenRead ==
  ASSUME ClashesInvariant, ReadOpen, UNCHANGED vars, UNCHANGED battles
  PROVE  ClashesInvariant'
<1>1. /\ DOMAIN clashes' = DOMAIN NoClashes /\ clashes'.user = clashes.user
      /\ clashes'.pc = clashes.pc /\ clashes'.rows = clashes.rows /\ clashes'.read = clashes.read
      /\ clashes'.record = clashes.record /\ clashes'.profile = clashes.profile
      /\ clashes'.played = clashes.played
  BY DEF ReadOpen, ClashesInvariant, FetchIsUnderway, NoClashes
<1>2. FetchIsUnderway'
  BY <1>1 DEF FetchIsUnderway, ClashesInvariant
<1>3. RowsHold'
  BY <1>1, SameReadings DEF RowsHold, ClashesInvariant, vars, rows, ReadingHolds, Readings
<1>4. \A role, p : Seen(role, p)' = Seen(role, p)
  BY <1>1, SameReadings DEF Seen
<1>5. RowsOfFetch' = RowsOfFetch
  BY <1>1 DEF RowsOfFetch, vars, rows
<1>8. EntriesReadHold' /\ SeenPlayed' = SeenPlayed
  BY <1>1, SameBattles DEF EntriesReadHold, SeenPlayed, ClashesInvariant
<1>6. CASE clashes.pc = "idle"
  BY <1>1, <1>2, <1>3, <1>6, <1>8, SameReadings, SameBattles, ShownStays
     DEF ClashesInvariant, RecordIsBehind
<1>7. CASE clashes.pc # "idle"
  BY <1>1, <1>2, <1>3, <1>4, <1>5, <1>7, <1>8, RelationRead
<1> QED
  BY <1>6, <1>7

\* A step of the duels, with a fetch wherever it is.
LEMMA DuelsMove ==
  ASSUME TypeOK, DuelInvariant, ResultsInvariant, (TypeOK /\ DuelInvariant /\ ResultsInvariant)',
         ClashesInvariant, [Next]_vars, UNCHANGED clashes, UNCHANGED battles
  PROVE  ClashesInvariant'
<1>1. RowsPersist /\ DuelsPersist
  BY RowsStay, DuelsStay
<1>2. FetchIsUnderway'
  BY DEF ClashesInvariant, FetchIsUnderway, NoClashes, Roles
<1>3. RowsHold'
  BY <1>1, RowsStillHold DEF ClashesInvariant
<1>4. LockedIsInDuel'
  BY LockedStep DEF ClashesInvariant
<1>5. HistoryHolds'
  <2> SUFFICES ASSUME clashes.profile # None, NEW p \in DOMAIN clashes.profile.history,
                      clashes.profile.history[p] \in {"LOCKED", "WIN", "LOSS", "VOIDED"}
               PROVE  \E o \in Predictions :
                        /\ HasDuel(o)' /\ p \in {o, duel'[o].challenger}
                        /\ clashes.profile.history[p] \in {"WIN", "LOSS"} =>
                             /\ duel'[o].status = "RESOLVED"
                             /\ clashes.profile.history[p] = "WIN" <=> duel'[o].winner = clashes.user
                        /\ clashes.profile.history[p] = "VOIDED" => duel'[o].status = "VOIDED"
    BY DEF HistoryHolds
  <2>1. PICK o \in Predictions :
          /\ HasDuel(o) /\ p \in {o, duel[o].challenger}
          /\ clashes.profile.history[p] \in {"WIN", "LOSS"} =>
               /\ duel[o].status = "RESOLVED"
               /\ clashes.profile.history[p] = "WIN" <=> duel[o].winner = clashes.user
          /\ clashes.profile.history[p] = "VOIDED" => duel[o].status = "VOIDED"
    BY DEF ClashesInvariant, HistoryHolds
  <2>2. /\ HasDuel(o)' /\ duel'[o].challenger = duel[o].challenger
        /\ duel[o].status \in {"RESOLVED", "VOIDED"} => duel'[o] = duel[o]
    BY <1>1, <2>1 DEF DuelsPersist
  <2> QED
    BY <2>1, <2>2
<1>6. RecordIsCovered'
  BY DEF ClashesInvariant, RecordIsCovered, Placings, Misses
<1>8. /\ BattlesHold' /\ EntriesReadHold' /\ EntriesShownHold'
      /\ SeenPlayed' = SeenPlayed
  BY SameBattles DEF ClashesInvariant, EntriesReadHold, EntriesShownHold, SeenPlayed
<1>7. RecordIsBehind'
  <2>1. \A won \in BOOLEAN : SeenEnded(won) \subseteq SeenEnded(won)'
    BY <1>1, SeenEndedGrows DEF ClashesInvariant
  <2>2. \A won \in BOOLEAN : IsFiniteSet(SeenEnded(won)')
    BY <1>2, <1>3, SeenFiniteAfter DEF SeenIsFinite
  <2>3. \A won \in BOOLEAN : IsFiniteSet(SeenEnded(won))
    BY SeenFinite DEF SeenIsFinite, ClashesInvariant
  <2>4. \A won \in BOOLEAN :
          /\ Cardinality(SeenEnded(won)) <= Cardinality(SeenEnded(won)')
          /\ Cardinality(SeenEnded(won)) \in Nat /\ Cardinality(SeenEnded(won)') \in Nat
    BY <2>1, <2>2, <2>3, FS_Subset, FS_CardinalityType
  <2> DEFINE won  == Cardinality(Placings(SeenPlayed))
             lost == Cardinality(Misses(SeenPlayed))
  <2> SUFFICES ASSUME clashes.pc # "idle"
               PROVE  /\ clashes.record.wins <= Cardinality(SeenEnded(TRUE)') + won
                      /\ clashes.record.losses <= Cardinality(SeenEnded(FALSE)') + lost
    BY <1>8 DEF RecordIsBehind, Placings, Misses
  <2>0. won \in Nat /\ lost \in Nat
    BY SeenPlayedHolds, CountedIsDecided DEF ClashesInvariant, FetchIsUnderway
  <2>5. /\ clashes.record.wins <= Cardinality(SeenEnded(TRUE)) + won
        /\ clashes.record.losses <= Cardinality(SeenEnded(FALSE)) + lost
        /\ clashes.record.wins \in Nat /\ clashes.record.losses \in Nat
    BY DEF ClashesInvariant, RecordIsBehind, FetchIsUnderway
  <2>6. /\ Cardinality(SeenEnded(TRUE)) <= Cardinality(SeenEnded(TRUE)')
        /\ Cardinality(SeenEnded(TRUE)) \in Nat /\ Cardinality(SeenEnded(TRUE)') \in Nat
    BY <2>4
  <2>7. /\ Cardinality(SeenEnded(FALSE)) <= Cardinality(SeenEnded(FALSE)')
        /\ Cardinality(SeenEnded(FALSE)) \in Nat /\ Cardinality(SeenEnded(FALSE)') \in Nat
    BY <2>4
  <2>8. \A a, b, c, d \in Nat : a <= b + d /\ b <= c => a <= c + d
    OBVIOUS
  <2> HIDE DEF won, lost
  <2> QED
    BY <2>0, <2>5, <2>6, <2>7, <2>8, Zenon
<1> QED
  BY <1>2, <1>3, <1>4, <1>5, <1>6, <1>7, <1>8 DEF ClashesInvariant

\* What user u has won and lost in battles, directly from their rows.
BattlesWon(u)  == {m \in Markets : u \in battle[m].placed}
BattlesLost(u) == {m \in Markets : battle[m].entries[u] # "null"
                                   /\ battle[m].winning \notin {"null", battle[m].entries[u]}}

PlayedSets ==
  \A u \in Users : Placings(PlayedBy(u)) = BattlesWon(u) /\ Misses(PlayedBy(u)) = BattlesLost(u)

LEMMA PlayedIs == PlayedSets
<1>1. \A u, m : /\ WithWinner(EntryRead(u, m), m).placed <=> u \in battle[m].placed
                /\ WithWinner(EntryRead(u, m), m).direction = battle[m].entries[u]
                /\ WithWinner(EntryRead(u, m), m).winning =
                     IF battle[m].entries[u] = "null" THEN "null" ELSE battle[m].winning
  BY DEF WithWinner, EntryRead
<1> QED
  BY <1>1 DEF PlayedSets, Placings, Misses, PlayedBy, BattlesWon, BattlesLost

LEMMA PlayedIsAfter == PlayedSets'
BY PlayedIs, PTL

\* An entry stays as it is until its battle is decided, and a decided battle.
BattlesPersist ==
  \A m \in Markets :
    /\ \A u \in Users : battle[m].entries[u] # "null" =>
         battle'[m].entries[u] = battle[m].entries[u]
    /\ battle[m].placed \subseteq battle'[m].placed
    /\ battle[m].winning # "null" => battle'[m].winning = battle[m].winning

LEMMA NoBattlesHold ==
  ASSUME battle = [m \in Markets |-> NoBattle], tally = [u \in Users |-> [wins |-> 0, losses |-> 0]]
  PROVE  BattlesHold
<1>1. NoBattle \in BattleRows
  BY DEF NoBattle, BattleRows, Picks
<1>2. Decided = {}
  BY DEF Decided, NoBattle
<1>3. \A u : BattlesWon(u) = {} /\ BattlesLost(u) = {}
  BY DEF BattlesWon, BattlesLost, NoBattle
<1>4. \A u \in Users : Placings(PlayedBy(u)) = {} /\ Misses(PlayedBy(u)) = {}
  BY <1>3, PlayedIs DEF PlayedSets
<1>5. battle \in [Markets -> BattleRows] /\ tally \in [Users -> [wins : Nat, losses : Nat]]
  BY <1>1
<1>6. IsFiniteSet(Decided) /\ \A m \in Markets : battle[m].placed = {}
  BY <1>2, FS_EmptySet DEF NoBattle
<1>7. \A u \in Users : /\ tally[u].wins <= Cardinality(Placings(PlayedBy(u)))
                       /\ tally[u].losses <= Cardinality(Misses(PlayedBy(u)))
  <2> TAKE u \in Users
  <2>1. tally[u].wins = 0 /\ tally[u].losses = 0
    OBVIOUS
  <2>2. Cardinality(Placings(PlayedBy(u))) = 0 /\ Cardinality(Misses(PlayedBy(u))) = 0
    BY <1>4, FS_EmptySet
  <2> QED
    BY <2>1, <2>2
<1> QED
  BY <1>5, <1>6, <1>7 DEF BattlesHold

\* An entry is confirmed: nothing that counts changes.
LEMMA EntryAdded ==
  ASSUME BattlesHold, NEW m \in Markets, NEW u \in Users, BattleEntry(m, u)
  PROVE  BattlesHold' /\ BattlesPersist
<1>1. PICK d \in Directions : battle' = [battle EXCEPT ![m].entries[u] = d]
  BY DEF BattleEntry
<1>2. tally' = tally /\ battle[m].entries[u] = "null" /\ battle[m] \in BattleRows
  BY DEF BattleEntry, BattlesHold
<1>3. /\ battle'[m] \in BattleRows
      /\ battle'[m].placed = battle[m].placed /\ battle'[m].winning = battle[m].winning
      /\ battle'[m].entries[u] = d
      /\ \A v \in Users \ {u} : battle'[m].entries[v] = battle[m].entries[v]
  BY <1>1, <1>2 DEF BattlesHold, BattleRows, Picks
<1>4. \A n \in Markets \ {m} : battle'[n] = battle[n]
  BY <1>1 DEF BattlesHold
<1>5. battle' \in [Markets -> BattleRows]
  BY <1>1, <1>3, <1>4 DEF BattlesHold
<1>6. Decided' = Decided
  BY <1>3, <1>4 DEF Decided
<1>7. BattlesPersist
  BY <1>2, <1>3, <1>4 DEF BattlesPersist
<1>8. ASSUME NEW v \in Users
      PROVE  BattlesWon(v)' = BattlesWon(v) /\ BattlesLost(v) \subseteq BattlesLost(v)'
  <2>1. BattlesWon(v)' = BattlesWon(v)
    BY <1>3, <1>4 DEF BattlesWon
  <2>2. BattlesLost(v) \subseteq BattlesLost(v)'
    BY <1>2, <1>3, <1>4 DEF BattlesLost
  <2> QED
    BY <2>1, <2>2
<1>9. \A v \in Users : BattlesLost(v)' \subseteq Decided
  BY <1>6 DEF BattlesLost, Decided
<1>10. \A v \in Users : /\ Cardinality(BattlesLost(v)) <= Cardinality(BattlesLost(v)')
                        /\ Cardinality(BattlesLost(v)) \in Nat /\ Cardinality(BattlesLost(v)') \in Nat
  BY <1>8, <1>9, FS_Subset, FS_CardinalityType DEF BattlesHold
<1>11. \A v \in Users : /\ tally[v].wins <= Cardinality(BattlesWon(v)')
                        /\ tally[v].losses <= Cardinality(BattlesLost(v)')
  <2> TAKE v \in Users
  <2>1. /\ tally[v].wins <= Cardinality(BattlesWon(v))
        /\ tally[v].losses <= Cardinality(BattlesLost(v)) /\ tally[v].losses \in Nat
    BY PlayedIs DEF PlayedSets, BattlesHold
  <2>2. tally[v].wins <= Cardinality(BattlesWon(v)')
    BY <1>8, <2>1
  <2>3. \A a, b, c \in Nat : a <= b /\ b <= c => a <= c
    OBVIOUS
  <2> QED
    BY <1>10, <2>1, <2>2, <2>3, Zenon
<1> QED
  BY <1>2, <1>3, <1>4, <1>5, <1>6, <1>7, <1>11, PlayedIsAfter DEF BattlesHold, PlayedSets

\* A battle ends: it was not decided, so what it adds to anybody's record it
\* adds to what that user has played.
LEMMA BattleSettled ==
  ASSUME BattlesHold, NEW m \in Markets, BattleEnds(m)
  PROVE  BattlesHold' /\ BattlesPersist
<1> DEFINE w == WinningDirection(m)
<1>1. PICK roster \in SUBSET {u \in Users : battle[m].entries[u] # "null"} :
        /\ battle' = [battle EXCEPT ![m].placed = Placed(m, roster), ![m].winning = w]
        /\ tally' = [u \in Users |->
             [wins   |-> tally[u].wins + One(u \in roster /\ battle[m].entries[u] = w),
              losses |-> tally[u].losses + One(u \in roster /\ ~(battle[m].entries[u] = w))]]
  BY DEF BattleEnds
<1>2. /\ w \in Directions /\ w # "null" /\ battle[m].winning = "null" /\ battle[m].placed = {}
      /\ battle[m] \in BattleRows
  BY DEF BattleEnds, WinningDirection, Directions, BattlesHold, Decided
<1> HIDE DEF w
<1>3. /\ battle'[m] \in BattleRows /\ battle'[m].entries = battle[m].entries
      /\ battle'[m].placed = {u \in roster : battle[m].entries[u] = w} /\ battle'[m].winning = w
  <2>1. Placed(m, roster) = {u \in roster : battle[m].entries[u] = w} /\ Placed(m, roster) \subseteq Users
    BY DEF Placed, w
  <2> QED
    BY <1>1, <1>2, <2>1 DEF BattlesHold, BattleRows, Picks
<1>4. \A n \in Markets \ {m} : battle'[n] = battle[n]
  BY <1>1 DEF BattlesHold
<1>5. battle' \in [Markets -> BattleRows]
  BY <1>1, <1>3, <1>4 DEF BattlesHold
<1>6. Decided' = Decided \cup {m} /\ m \notin Decided
  BY <1>2, <1>3, <1>4 DEF Decided
<1>7. IsFiniteSet(Decided')
  BY <1>6, FS_AddElement DEF BattlesHold
<1>8. BattlesPersist
  BY <1>2, <1>3, <1>4 DEF BattlesPersist
<1>9. ASSUME NEW u \in Users
      PROVE  /\ tally'[u].wins \in Nat /\ tally'[u].losses \in Nat
             /\ tally'[u].wins <= Cardinality(BattlesWon(u)')
             /\ tally'[u].losses <= Cardinality(BattlesLost(u)')
  <2>1. /\ tally[u].wins <= Cardinality(BattlesWon(u)) /\ tally[u].losses <= Cardinality(BattlesLost(u))
        /\ tally[u].wins \in Nat /\ tally[u].losses \in Nat
    BY PlayedIs DEF PlayedSets, BattlesHold
  <2>2. BattlesWon(u) \subseteq Decided /\ BattlesLost(u) \subseteq Decided
    BY DEF BattlesHold, BattlesWon, BattlesLost, Decided
  <2>3. /\ IsFiniteSet(BattlesWon(u)) /\ IsFiniteSet(BattlesLost(u))
        /\ Cardinality(BattlesWon(u)) \in Nat /\ Cardinality(BattlesLost(u)) \in Nat
    BY <2>2, FS_Subset, FS_CardinalityType DEF BattlesHold
  <2>4. m \notin BattlesWon(u) /\ m \notin BattlesLost(u)
    BY <1>6, <2>2
  <2>5. /\ Cardinality(BattlesWon(u) \cup {m}) = Cardinality(BattlesWon(u)) + 1
        /\ Cardinality(BattlesLost(u) \cup {m}) = Cardinality(BattlesLost(u)) + 1
    BY <2>3, <2>4, FS_AddElement
  <2>6. BattlesWon(u)' = IF u \in roster /\ battle[m].entries[u] = w
                         THEN BattlesWon(u) \cup {m} ELSE BattlesWon(u)
    BY <1>2, <1>3, <1>4 DEF BattlesWon
  <2>7. BattlesLost(u)' = IF battle[m].entries[u] \notin {"null", w}
                          THEN BattlesLost(u) \cup {m} ELSE BattlesLost(u)
    BY <1>2, <1>3, <1>4 DEF BattlesLost
  <2>8. u \in roster => battle[m].entries[u] # "null"
    OBVIOUS
  <2>9. /\ tally'[u].wins = tally[u].wins + One(u \in roster /\ battle[m].entries[u] = w)
        /\ tally'[u].losses = tally[u].losses + One(u \in roster /\ ~(battle[m].entries[u] = w))
    BY <1>1
  <2>10. tally'[u].wins \in Nat /\ tally'[u].wins <= Cardinality(BattlesWon(u)')
    <3>1. CASE u \in roster /\ battle[m].entries[u] = w
      <4>1. BattlesWon(u)' = BattlesWon(u) \cup {m} /\ tally'[u].wins = tally[u].wins + 1
        BY <2>6, <2>9, <3>1 DEF One
      <4> QED
        BY <2>1, <2>3, <2>5, <4>1
    <3>2. CASE ~(u \in roster /\ battle[m].entries[u] = w)
      <4>1. BattlesWon(u)' = BattlesWon(u) /\ tally'[u].wins = tally[u].wins + 0
        BY <2>6, <2>9, <3>2 DEF One
      <4> QED
        BY <2>1, <4>1
    <3> QED
      BY <3>1, <3>2
  <2>11. tally'[u].losses \in Nat /\ tally'[u].losses <= Cardinality(BattlesLost(u)')
    <3>1. CASE u \in roster /\ battle[m].entries[u] # w
      <4>1. BattlesLost(u)' = BattlesLost(u) \cup {m} /\ tally'[u].losses = tally[u].losses + 1
        BY <2>7, <2>8, <2>9, <3>1 DEF One
      <4> QED
        BY <2>1, <2>3, <2>5, <4>1
    <3>2. CASE ~(u \in roster /\ battle[m].entries[u] # w)
      <4>1. tally'[u].losses = tally[u].losses + 0
        BY <2>9, <3>2 DEF One
      <4>2. BattlesLost(u)' = BattlesLost(u) \/ BattlesLost(u)' = BattlesLost(u) \cup {m}
        BY <2>7
      <4> QED
        BY <2>1, <2>3, <2>5, <4>1, <4>2
    <3> QED
      BY <3>1, <3>2
  <2> QED
    BY <2>10, <2>11
<1>10. tally' \in [Users -> [wins : Nat, losses : Nat]]
  <2>1. \A u \in Users : tally'[u] = [wins |-> tally'[u].wins, losses |-> tally'[u].losses]
    BY <1>1
  <2> QED
    BY <1>1, <1>9, <2>1
<1>11. \A n \in Markets \ Decided' : battle'[n].placed = {}
  BY <1>4, <1>6 DEF BattlesHold
<1> QED
  BY <1>5, <1>7, <1>8, <1>9, <1>10, <1>11, PlayedIsAfter DEF BattlesHold, PlayedSets

\* What was read of an entry stays so, and what a fetch has seen, or would
\* see, as won or lost in battles remains.
LEMMA EntryStillHolds ==
  ASSUME BattlesPersist, BattlesHold, NEW u \in Users, NEW m \in Markets, NEW e, EntryHolds(u, e, m)
  PROVE  EntryHolds(u, e, m)'
BY DEF BattlesPersist, EntryHolds

LEMMA SeenPlayedGrows ==
  ASSUME BattlesPersist, ClashesInvariant, clashes.pc # "idle", UNCHANGED clashes
  PROVE  /\ Placings(SeenPlayed) \subseteq Placings(SeenPlayed)'
         /\ Misses(SeenPlayed) \subseteq Misses(SeenPlayed)'
<1>0. clashes.user \in Users
  BY DEF ClashesInvariant, FetchIsUnderway
<1>1. CASE clashes.pc = "answered"
  BY <1>1 DEF SeenPlayed, Placings, Misses
<1>2. CASE clashes.pc = "battles"
  <2>1. /\ SeenPlayed = [m \in Markets |-> WithWinner(clashes.played[m], m)]
        /\ SeenPlayed' = [m \in Markets |-> WithWinner(clashes.played[m], m)']
    BY <1>2 DEF SeenPlayed
  <2>2. \A m \in Markets :
          LET e == clashes.played[m] IN
          /\ WithWinner(e, m).placed = e.placed /\ WithWinner(e, m)'.placed = e.placed
          /\ WithWinner(e, m).direction = e.direction /\ WithWinner(e, m)'.direction = e.direction
          /\ WithWinner(e, m).winning = IF e.direction = "null" THEN "null" ELSE battle[m].winning
          /\ WithWinner(e, m)'.winning = IF e.direction = "null" THEN "null" ELSE battle'[m].winning
    BY <1>2 DEF WithWinner, ClashesInvariant, EntriesReadHold, EntryHolds
  <2>3. \A m \in Markets : battle[m].winning # "null" => battle'[m].winning = battle[m].winning
    BY DEF BattlesPersist
  <2> QED
    BY <2>1, <2>2, <2>3 DEF Placings, Misses
<1>3. CASE clashes.pc \notin {"battles", "answered"}
  <2>1. SeenPlayed = PlayedBy(clashes.user) /\ SeenPlayed' = PlayedBy(clashes.user)'
    BY <1>3 DEF SeenPlayed
  <2>2. /\ BattlesWon(clashes.user) \subseteq BattlesWon(clashes.user)'
        /\ BattlesLost(clashes.user) \subseteq BattlesLost(clashes.user)'
    BY <1>0 DEF BattlesPersist, BattlesWon, BattlesLost
  <2>3. /\ Placings(SeenPlayed) = BattlesWon(clashes.user)
        /\ Misses(SeenPlayed) = BattlesLost(clashes.user)
        /\ Placings(SeenPlayed)' = BattlesWon(clashes.user)'
        /\ Misses(SeenPlayed)' = BattlesLost(clashes.user)'
    BY <1>0, <2>1, PlayedIs, PlayedIsAfter DEF PlayedSets, Placings, Misses
  <2> QED
    BY <2>2, <2>3
<1> QED
  BY <1>1, <1>2, <1>3

\* A step of the battles, with a fetch wherever it is.
LEMMA BattlesMove ==
  ASSUME TypeOK, DuelInvariant, ResultsInvariant, ClashesInvariant, BattlesNext,
         UNCHANGED vars, UNCHANGED clashes
  PROVE  ClashesInvariant'
<1>1. BattlesHold' /\ BattlesPersist
  BY EntryAdded, BattleSettled DEF BattlesNext, ClashesInvariant
<1>2. /\ FetchIsUnderway' /\ LockedIsInDuel' /\ HistoryHolds' /\ RecordIsCovered'
  <2>1. HistoryHolds'
    BY DEF ClashesInvariant, HistoryHolds, HasDuel, vars, rows
  <2>2. RecordIsCovered'
    BY DEF ClashesInvariant, RecordIsCovered, Placings, Misses
  <2>3. FetchIsUnderway'
    BY DEF ClashesInvariant, FetchIsUnderway, NoClashes, Roles
  <2> QED
    BY <2>1, <2>2, <2>3, SameReadings DEF ClashesInvariant
<1>3. RowsHold'
  BY SameReadings DEF RowsHold, ClashesInvariant, vars, rows, ReadingHolds, Readings
<1>4. EntriesReadHold'
  BY <1>1, EntryStillHolds DEF EntriesReadHold, ClashesInvariant, FetchIsUnderway
<1>5. EntriesShownHold'
  BY <1>1, EntryStillHolds DEF EntriesShownHold, ClashesInvariant
<1>6. RecordIsBehind'
  <2> SUFFICES ASSUME clashes.pc # "idle" PROVE RecordIsBehind'
    BY DEF RecordIsBehind
  <2> DEFINE won   == Cardinality(Placings(SeenPlayed))
             lost  == Cardinality(Misses(SeenPlayed))
             won2  == Cardinality(Placings(SeenPlayed)')
             lost2 == Cardinality(Misses(SeenPlayed)')
             wins   == Cardinality(SeenEnded(TRUE))
             losses == Cardinality(SeenEnded(FALSE))
  <2>1. \A w \in BOOLEAN : SeenEnded(w)' = SeenEnded(w)
    <3>1. \A role, p : Seen(role, p)' = Seen(role, p)
      BY SameReadings DEF Seen
    <3>2. RowsOfFetch' = RowsOfFetch
      BY DEF RowsOfFetch, vars, rows
    <3> QED
      BY <3>1, <3>2 DEF SeenEnded
  <2>2. /\ IsFiniteSet(Placings(SeenPlayed)') /\ IsFiniteSet(Misses(SeenPlayed)')
    <3>1. \A m \in Markets : EntryHolds(clashes.user, SeenPlayed[m], m)'
      BY <1>1, <1>2, <1>4, SeenPlayedHoldsAfter DEF SeenPlayedIsSo
    <3>2. Placings(SeenPlayed)' \subseteq Decided' /\ Misses(SeenPlayed)' \subseteq Decided'
      BY <1>1, <3>1 DEF Placings, Misses, Decided, EntryHolds, BattlesHold
    <3> QED
      BY <1>1, <3>2, FS_Subset DEF BattlesHold
  <2>3. won <= won2 /\ lost <= lost2 /\ won \in Nat /\ lost \in Nat /\ won2 \in Nat /\ lost2 \in Nat
    BY <1>1, <2>2, SeenPlayedGrows, FS_Subset, FS_CardinalityType
  <2>4. wins \in Nat /\ losses \in Nat
    BY SeenFinite, FS_CardinalityType DEF SeenIsFinite, ClashesInvariant
  <2>5. /\ clashes.record.wins <= wins + won /\ clashes.record.losses <= losses + lost
        /\ clashes.record.wins \in Nat /\ clashes.record.losses \in Nat
    BY DEF ClashesInvariant, RecordIsBehind, FetchIsUnderway
  <2>6. \A a, b, c, d \in Nat : a <= b + c /\ c <= d => a <= b + d
    OBVIOUS
  <2> HIDE DEF won, lost, won2, lost2, wins, losses
  <2>7. clashes.record.wins <= wins + won2 /\ clashes.record.losses <= losses + lost2
    BY <2>3, <2>4, <2>5, <2>6, Zenon
  <2> QED
    BY <2>1, <2>7 DEF RecordIsBehind, won2, lost2, wins, losses
<1> QED
  BY <1>1, <1>2, <1>3, <1>4, <1>5, <1>6 DEF ClashesInvariant

LEMMA ClashesStep ==
  ASSUME TypeOK, DuelInvariant, ResultsInvariant, (TypeOK /\ DuelInvariant /\ ResultsInvariant)',
         ClashesInvariant, [ViewsNext]_<<vars, views>>
  PROVE  ClashesInvariant'
<1>1. CASE [Next]_vars /\ UNCHANGED <<battles, clashes>>
  BY <1>1, DuelsMove
<1>2. CASE ClashesNext /\ UNCHANGED <<vars, battles, screen>>
  BY <1>2, UserRead, PredictionsRead, ChallengesRead, EntriesRead, BattlesRead, ProfileShown,
     ProfileFailed, OpenRead DEF ClashesNext
<1>3. CASE BattlesNext /\ UNCHANGED <<vars, clashes, screen>>
  BY <1>3, BattlesMove
<1> QED
  BY <1>1, <1>2, <1>3 DEF ViewsNext, views

LEMMA ClashesCorrect == ViewsSpec => [](TypeOK /\ DuelInvariant /\ ClashesInvariant)
<1>1. ViewsInit => ClashesInvariant
  <2> SUFFICES ASSUME ViewsInit PROVE ClashesInvariant
    OBVIOUS
  <2>1. /\ DOMAIN clashes = DOMAIN NoClashes /\ clashes.user \in Users \cup {None}
        /\ clashes.pc = "idle" /\ clashes.rows = <<>> /\ clashes.read = {} /\ clashes.profile = None
    BY DEF ViewsInit, NoClashes, ClashesOf
  <2>2. DOMAIN clashes.rows = {}
    BY <2>1
  <2>3. LockedIsInDuel
    BY DEF ViewsInit, Init, LockedIsInDuel
  <2> QED
    BY <2>1, <2>2, <2>3, NoBattlesHold DEF ViewsInit, ClashesInvariant, FetchIsUnderway, RowsHold,
       RecordIsBehind, HistoryHolds, RecordIsCovered, EntriesReadHold, EntriesShownHold
<1> DEFINE I == TypeOK /\ DuelInvariant /\ ResultsInvariant
<1>2. ViewsSpec => []I
  BY ViewsKeepDuels, DuelsCorrect, ResultsCorrect, PTL
<1>3. I /\ I' /\ ClashesInvariant /\ [ViewsNext]_<<vars, views>> => ClashesInvariant'
  BY ClashesStep
<1> QED
  BY <1>1, <1>2, <1>3, PTL DEF ViewsSpec

\* However a settlement or a late confirm falls between the readings of a
\* profile, the record shown is covered by the history under it, and what the
\* history shows as the end of a duel is how it ended.
THEOREM RecordCorrect == ViewsSpec => []RecordIsExplained
<1>1. TypeOK /\ DuelInvariant /\ ClashesInvariant => RecordIsExplained
  <2> SUFFICES ASSUME TypeOK, DuelInvariant, ClashesInvariant, clashes.profile # None
               PROVE  RecordIsExplained
    BY DEF RecordIsExplained
  <2> DEFINE history == clashes.profile.history
             of(p) == CHOOSE o \in Predictions : p \in {o, duel[o].challenger} /\ HasDuel(o)
  <2>1. ASSUME NEW p \in DOMAIN history, history[p] \in {"WIN", "LOSS", "VOIDED"}
        PROVE  /\ history[p] \in {"WIN", "LOSS"} =>
                    /\ duel[of(p)].status = "RESOLVED"
                    /\ history[p] = "WIN" <=> duel[of(p)].winner = clashes.user
               /\ history[p] = "VOIDED" => duel[of(p)].status = "VOIDED"
    <3>1. PICK o \in Predictions :
            /\ HasDuel(o) /\ p \in {o, duel[o].challenger}
            /\ history[p] \in {"WIN", "LOSS"} =>
                 /\ duel[o].status = "RESOLVED"
                 /\ history[p] = "WIN" <=> duel[o].winner = clashes.user
            /\ history[p] = "VOIDED" => duel[o].status = "VOIDED"
      BY <2>1 DEF ClashesInvariant, HistoryHolds
    <3>2. \A q \in Predictions : p \in {q, duel[q].challenger} /\ HasDuel(q) => q = o
      BY <3>1, OneDuel
    <3>3. of(p) = o
      BY <3>1, <3>2
    <3> QED
      BY <3>1, <3>3
  <2>2. \A m \in Markets :
          /\ clashes.profile.battleHistory[m].placed => clashes.user \in battle[m].placed
          /\ clashes.profile.battleHistory[m].winning \in {"null", battle[m].winning}
    BY DEF ClashesInvariant, EntriesShownHold, EntryHolds
  <2> QED
    BY <2>1, <2>2 DEF RecordIsExplained, ClashesInvariant, RecordIsCovered
<1> QED
  BY <1>1, ClashesCorrect, PTL

\* A call shown to be in a duel is in no list of open calls read from then on,
\* though its row may be OPEN again: listOpen asks for the Challenge row, too.
THEOREM ListingCorrect == ViewsSpec => NoDuelIsListedAgain
<1> DEFINE Relists ==
      clashes'.listing # clashes.listing /\ clashes.profile # None =>
        \A p \in clashes'.listing \cap DOMAIN clashes.profile.history :
          clashes.profile.history[p] \notin {"LOCKED", "WIN", "LOSS", "VOIDED"}
<1>1. TypeOK /\ DuelInvariant /\ ClashesInvariant /\ [ViewsNext]_<<vars, views>>
        => [Relists]_<<vars, views>>
  <2> SUFFICES ASSUME TypeOK, DuelInvariant, ClashesInvariant, [ViewsNext]_<<vars, views>>,
                      clashes'.listing # clashes.listing, clashes.profile # None,
                      NEW p \in clashes'.listing \cap DOMAIN clashes.profile.history,
                      clashes.profile.history[p] \in {"LOCKED", "WIN", "LOSS", "VOIDED"}
               PROVE  FALSE
    OBVIOUS
  <2>1. ReadOpen
    <3>1. DOMAIN clashes = DOMAIN NoClashes
      BY DEF ClashesInvariant, FetchIsUnderway
    <3>2. ClashesNext
      BY DEF ViewsNext, views
    <3> QED
      BY <3>1, <3>2 DEF ClashesNext, ReadUser, ReadPredictions, ReadChallenges, ReadEntries,
         ReadBattles, ShowProfile, ProfileFails, ProfileIdle, NoClashes
  <2>2. clashes'.listing = ListOpen
    BY <2>1 DEF ReadOpen, ClashesInvariant, FetchIsUnderway, NoClashes
  <2>3. p \in Predictions /\ status[p] = "OPEN" /\ ~HasDuel(p)
    BY <2>2 DEF ListOpen
  <2>4. PICK o \in Predictions : HasDuel(o) /\ p \in {o, duel[o].challenger}
    BY DEF ClashesInvariant, HistoryHolds
  <2>5. p = duel[o].challenger
    BY <2>3, <2>4
  <2> QED
    BY <2>3, <2>4, <2>5 DEF DuelInvariant, DuelsAreLocked
<1> QED
  BY <1>1, ClashesCorrect, PTL DEF ViewsSpec, NoDuelIsListedAgain

----------------------------------------------------------------------------
\* Duels implements Bout.

\* Bout's variables, as the refinement mapping reads them off the tables.
Stage      == [o \in Predictions |->
                 IF HasDuel(o) THEN duel[o].status
                 ELSE IF status[o] \in {"OPEN", "EXPIRED"} THEN status[o] ELSE "NONE"]
Opponents  == [o \in Predictions |->
                 IF HasDuel(o) THEN {call[o].user, call[duel[o].challenger].user} ELSE {}]
Records    == [u \in Users |-> [wins |-> user[u].wins, losses |-> user[u].losses,
                               paid |-> user[u].energy]]

LEMMA RefinesInit == Init => Contract!Init
BY DEF Init, Contract!Init, HasDuel, NoDuel

\* An insert makes or writes a row that was not there before.
LEMMA RowsStep ==
  ASSUME TypeOK, DuelInvariant, [Next]_vars
  PROVE  RowsPersist
<1> USE DEF world, rows
<1>1. CASE UNCHANGED <<status, call>>
  BY <1>1 DEF RowsPersist
<1>2. ASSUME NEW r \in Requests, CreateInsert(r) \/ ChallengeInsert(r) PROVE RowsPersist
  BY <1>2 DEF CreateInsert, ChallengeInsert, Insert, TypeOK, RowsPersist
<1>3. ASSUME NEW r \in Requests, ConfirmOpen(r) PROVE RowsPersist
  BY <1>3 DEF ConfirmOpen, TypeOK, RowsPersist
<1>4. ASSUME NEW r \in Requests, ConfirmCommit(r) PROVE RowsPersist
  BY <1>4 DEF ConfirmCommit, TypeOK, RowsPersist
<1>5. CASE ExpireOpen
  BY <1>5 DEF ExpireOpen, TypeOK, RowsPersist
<1>6. CASE World \/ Crash \/ UNCHANGED vars
  BY <1>1, <1>6 DEF World, WindowEnds, HeadroomBegins, CloseTrading, ReportOutcome, Crash, vars
<1>7. ASSUME NEW r \in Requests, Request(r) PROVE RowsPersist
  BY <1>1, <1>2, <1>3, <1>4, <1>7 DEF Request, CreateBegin, ChallengeBegin, ConfirmBegin,
     ConfirmFirstRead, ConfirmSecondRead, ConfirmTake, RequestFails
<1>8. CASE Tick
  BY <1>1, <1>5, <1>8 DEF Tick, ResolveBegin, TickAborts, ResolveVoid, ResolveSettle,
     ResolveSkip, TickEnd
<1> QED
  BY <1>6, <1>7, <1>8 DEF Next

WasOpen(o) == HasDuel(o) \/ status[o] \in {"OPEN", "EXPIRED"}

\* A call once open is open or expired until it has its duel, for good.
LEMMA WasOpenStays ==
  ASSUME TypeOK, DuelInvariant, [Next]_vars, NEW o \in Predictions, ~IsChallenge(o), WasOpen(o)
  PROVE  WasOpen(o)'
<1> USE DEF world, rows
<1>1. DuelsPersist
  BY DuelsStay
<1>2. CASE HasDuel(o)
  BY <1>1, <1>2 DEF DuelsPersist, WasOpen
<1>3. CASE ~HasDuel(o)
  <2>0. status[o] \in {"OPEN", "EXPIRED"}
    BY <1>3 DEF WasOpen
  <2>1. CASE status'[o] = status[o]
    BY <2>0, <2>1 DEF WasOpen
  <2>2. ASSUME NEW r \in Requests, CreateInsert(r) \/ ChallengeInsert(r) PROVE WasOpen(o)'
    <3>1. status'[o] = status[o]
      BY <2>0, <2>2 DEF CreateInsert, ChallengeInsert, Insert, TypeOK
    <3> QED
      BY <2>1, <3>1
  <2>3. ASSUME NEW r \in Requests, ConfirmOpen(r) PROVE WasOpen(o)'
    <3>1. status'[o] \in {"OPEN", "EXPIRED"}
      BY <2>0, <2>3 DEF ConfirmOpen, TypeOK
    <3> QED
      BY <3>1 DEF WasOpen
  <2>4. ASSUME NEW r \in Requests, ConfirmCommit(r) PROVE WasOpen(o)'
    <3>1. PICK p \in Predictions : p = req[r].prediction
      BY <2>4 DEF ConfirmCommit, At, TypeOK, RequestState, FillSteps
    <3>2. IsChallenge(p)
      BY <2>4, <3>1 DEF ConfirmCommit, At, DuelInvariant, RequestsHoldRows, HoldsRow
    <3>3. CASE call[p].challenging = o /\ CanCreateDuel(o, p)
      <4>1. duel'[o].status = "LOCKED"
        BY <2>4, <3>1, <3>3 DEF ConfirmCommit, TypeOK
      <4> QED
        BY <4>1 DEF WasOpen, HasDuel
    <3>4. CASE ~(call[p].challenging = o /\ CanCreateDuel(o, p))
      <4>1. status'[o] = status[o]
        BY <2>4, <3>1, <3>2, <3>4 DEF ConfirmCommit, TypeOK
      <4> QED
        BY <2>1, <4>1
    <3> QED
      BY <3>3, <3>4
  <2>5. CASE ExpireOpen
    <3>1. status'[o] \in {"OPEN", "EXPIRED"}
      BY <2>0, <2>5 DEF ExpireOpen
    <3> QED
      BY <3>1 DEF WasOpen
  <2>6. CASE World \/ Crash \/ UNCHANGED vars
    BY <2>1, <2>6 DEF World, WindowEnds, HeadroomBegins, CloseTrading, ReportOutcome, Crash, vars
  <2>7. ASSUME NEW r \in Requests, Request(r) PROVE WasOpen(o)'
    BY <2>1, <2>2, <2>3, <2>4, <2>7 DEF Request, CreateBegin, ChallengeBegin, ConfirmBegin,
       ConfirmFirstRead, ConfirmSecondRead, ConfirmTake, RequestFails
  <2>8. CASE Tick
    BY <2>1, <2>5, <2>8 DEF Tick, ResolveBegin, TickAborts, ResolveVoid, ResolveSettle,
       ResolveSkip, TickEnd
  <2> QED
    BY <2>6, <2>7, <2>8 DEF Next
<1> QED
  BY <1>2, <1>3

\* How a request comes to where it may take a call: it was there, or has just
\* found the call to take.
Taking == {"takeRead", "takeCommit"}

LEMMA TakersMove ==
  ASSUME TypeOK, [Next]_vars, NEW r \in Requests, req'[r].pc \in Taking
  PROVE  \/ req[r].pc \in Taking /\ req'[r].prediction = req[r].prediction
         \/ /\ req'[r].prediction = req[r].prediction /\ req[r].pc = "verifyFill"
            /\ IsChallenge(req[r].prediction)
            /\ Takeable(call[req[r].prediction].challenging)
<1> USE DEF world, rows
<1>1. CASE UNCHANGED req
  BY <1>1
<1>2. ASSUME NEW q \in Requests, Request(q), q # r PROVE req'[r] = req[r]
  BY <1>2 DEF Request, CreateBegin, CreateInsert, ChallengeBegin, ChallengeInsert, ConfirmBegin,
     ConfirmOpen, ConfirmFirstRead, ConfirmSecondRead, ConfirmTake, ConfirmCommit, RequestFails,
     Goes, TypeOK
<1>3. ASSUME NEW from \in FillSteps, NEW to \in Taking, ConfirmTake(r, from, to)
      PROVE  /\ req'[r].prediction = req[r].prediction /\ req[r].pc = from
             /\ IsChallenge(req[r].prediction)
             /\ Takeable(call[req[r].prediction].challenging)
  <2>1. req[r] \in RequestState
    BY DEF TypeOK
  <2>2. req'[r] = IF Takeable(call[req[r].prediction].challenging)
                  THEN [req[r] EXCEPT !.pc = to] ELSE Idle
    BY <1>3 DEF ConfirmTake, Goes, TypeOK
  <2>3. Idle.pc \notin Taking
    BY DEF Idle, Taking
  <2>4. Takeable(call[req[r].prediction].challenging)
    BY <2>2, <2>3
  <2> QED
    BY <1>3, <2>1, <2>2, <2>4 DEF ConfirmTake, At, RequestState
<1>4. ASSUME Request(r), ~ConfirmFirstRead(r), ~ConfirmSecondRead(r) PROVE FALSE
  <2>1. Idle.pc = "idle"
    BY DEF Idle
  <2>2. \A p \in Predictions : [Idle EXCEPT !.pc = "verifyFill", !.prediction = p].pc = "verifyFill"
    BY DEF Idle
  <2>3. \A s : Goes(r, s) => s.pc \in Taking
    BY DEF Goes, TypeOK
  <2>4. ~Goes(r, Idle)
    BY <2>1, <2>3 DEF Taking
  <2>5. \A u \in Users, m \in Markets : ~CreateBegin(r, u, m)
    BY <2>3 DEF CreateBegin, Taking
  <2>6. \A u \in Users, o \in Predictions : ~ChallengeBegin(r, u, o)
    BY <2>3 DEF ChallengeBegin, Taking
  <2>7. \A p \in Predictions : ~ConfirmBegin(r, p)
    BY <2>2, <2>3 DEF ConfirmBegin, Taking
  <2> QED
    BY <1>4, <2>4, <2>5, <2>6, <2>7 DEF Request, CreateInsert, ChallengeInsert, ConfirmOpen,
       ConfirmCommit, RequestFails
<1>5. CASE World \/ Tick \/ UNCHANGED vars
  BY <1>1, <1>5 DEF World, WindowEnds, HeadroomBegins, CloseTrading, ReportOutcome, Tick,
     ExpireOpen, ResolveBegin, TickAborts, ResolveVoid, ResolveSettle, ResolveSkip, TickEnd, vars
<1>6. CASE Crash
  BY <1>6 DEF Crash, Idle, Taking
<1>7. ASSUME NEW q \in Requests, Request(q) PROVE
         \/ req[r].pc \in Taking /\ req'[r].prediction = req[r].prediction
         \/ /\ req'[r].prediction = req[r].prediction /\ req[r].pc = "verifyFill"
            /\ IsChallenge(req[r].prediction)
            /\ Takeable(call[req[r].prediction].challenging)
  <2>1. CASE q # r
    BY <1>2, <1>7, <2>1
  <2>2. CASE ConfirmFirstRead(r)
    BY <1>3, <2>2 DEF ConfirmFirstRead, Taking, FillSteps
  <2>3. CASE ConfirmSecondRead(r)
    BY <1>3, <2>3 DEF ConfirmSecondRead, Taking, FillSteps
  <2> QED
    BY <1>4, <1>7, <2>1, <2>2, <2>3
<1> QED
  BY <1>5, <1>6, <1>7 DEF Next

LEMMA TakersStep ==
  ASSUME TypeOK, DuelInvariant, TakersSawOpen, [Next]_vars
  PROVE  TakersSawOpen'
<1> SUFFICES ASSUME NEW r \in Requests, req'[r].pc \in Taking
             PROVE  WasOpen(call[req[r].prediction].challenging)'
  BY DEF TakersSawOpen, WasOpen, Taking
<1>1. PICK p : p = req[r].prediction /\ p = req'[r].prediction
  BY TakersMove
<1>2. p \in Predictions /\ status[p] # "FREE" /\ IsChallenge(p)
  BY <1>1, TakersMove DEF TypeOK, RequestState, FillSteps, Taking, DuelInvariant,
     RequestsHoldRows, HoldsRow
<1>3. PICK o \in Predictions : o = call[p].challenging /\ call[o].challenging = None
  BY <1>2, Challenges DEF IsChallenge
<1>4. WasOpen(o)
  BY <1>1, <1>3, TakersMove DEF TakersSawOpen, Taking, Takeable, WasOpen
<1>5. WasOpen(o)'
  BY <1>3, <1>4, WasOpenStays DEF IsChallenge
<1>6. call'[p] = call[p]
  BY <1>2, RowsStep DEF RowsPersist
<1>7. call'[req'[r].prediction].challenging = o
  BY <1>1, <1>3, <1>6
<1> QED
  BY <1>5, <1>7

\* Nothing moves that Bout sees.
LEMMA RefinesStutter ==
  ASSUME \A o \in Predictions :
           /\ HasDuel(o)' <=> HasDuel(o)
           /\ HasDuel(o) => /\ duel'[o].status = duel[o].status
                            /\ duel'[o].challenger = duel[o].challenger
                            /\ call'[o] = call[o]
                            /\ call'[duel[o].challenger] = call[duel[o].challenger]
           /\ ~HasDuel(o) => \/ status'[o] = status[o]
                             \/ {status[o], status'[o]} \cap {"OPEN", "EXPIRED"} = {},
         UNCHANGED user
  PROVE  UNCHANGED Contract!vars
<1>1. \A o \in Predictions : Stage[o]' = Stage[o]
  BY DEF Stage
<1>2. \A o \in Predictions : Opponents[o]' = Opponents[o]
  BY DEF Opponents
<1>3. Stage' = Stage /\ Opponents' = Opponents /\ Records' = Records
  BY <1>1, <1>2 DEF Stage, Opponents, Records
<1> QED
  BY <1>3 DEF Contract!vars, Stage, Opponents, Records

\* The sides of a duel do not change.
LEMMA OpponentsStay ==
  ASSUME TypeOK, DuelInvariant, [Next]_vars, NEW o \in Predictions, HasDuel(o)
  PROVE  /\ HasDuel(o)' /\ duel'[o].challenger = duel[o].challenger
         /\ call'[o] = call[o] /\ call'[duel[o].challenger] = call[duel[o].challenger]
<1>1. HasDuel(o)' /\ duel'[o].challenger = duel[o].challenger
  BY DuelsStay DEF DuelsPersist
<1>2. duel[o].challenger \in Predictions /\ call[duel[o].challenger] \in Calls /\ call[o] \in Calls
  BY Sides
<1>3. status[duel[o].challenger] # "FREE" /\ status[o] # "FREE"
  BY <1>2, NoneAssumption DEF DuelInvariant, RowsHaveCalls
<1> QED
  BY <1>1, <1>2, <1>3, RowsStep DEF RowsPersist

\* One call moves on, and no duel is made.
LEMMA RefinesMove ==
  ASSUME NEW o \in Predictions, NEW to,
         \A q \in Predictions :
           /\ HasDuel(q)' <=> HasDuel(q)
           /\ HasDuel(q) => /\ duel'[q].challenger = duel[q].challenger
                            /\ call'[q] = call[q]
                            /\ call'[duel[q].challenger] = call[duel[q].challenger]
           /\ q # o => duel'[q].status = duel[q].status /\ status'[q] = status[q],
         to = IF HasDuel(o) THEN duel'[o].status
              ELSE IF status'[o] \in {"OPEN", "EXPIRED"} THEN status'[o] ELSE "NONE"
  PROVE  Stage' = [Stage EXCEPT ![o] = to] /\ Opponents' = Opponents
<1>1. \A q \in Predictions : Stage[q]' = IF q = o THEN to ELSE Stage[q]
  BY DEF Stage
<1>2. \A q \in Predictions : Opponents[q]' = Opponents[q]
  BY DEF Opponents
<1> QED
  BY <1>1, <1>2 DEF Stage, Opponents

LEMMA RefinesOpen ==
  ASSUME TypeOK, DuelInvariant, [Next]_vars, NEW r \in Requests, ConfirmOpen(r)
  PROVE  [Contract!Next]_(Contract!vars)
<1>1. PICK p \in Predictions : p = req[r].prediction
  BY DEF ConfirmOpen, At, TypeOK, RequestState, FillSteps
<1>2. /\ \A q \in Predictions : status'[q] = IF q = p THEN "OPEN" ELSE status[q]
      /\ UNCHANGED <<call, duel, user>>
  BY <1>1 DEF ConfirmOpen, TypeOK
<1>3. \A q \in Predictions : HasDuel(q)' <=> HasDuel(q)
  BY <1>2 DEF HasDuel
<1>4. CASE HasDuel(p) \/ status[p] = "OPEN"
  <2>1. UNCHANGED Contract!vars
    BY <1>2, <1>3, <1>4, RefinesStutter
  <2> QED
    BY <2>1
<1>5. CASE ~HasDuel(p) /\ status[p] # "OPEN"
  <2>1. Stage' = [Stage EXCEPT ![p] = "OPEN"] /\ Opponents' = Opponents
    BY <1>2, <1>3, <1>5, RefinesMove
  <2>2. Stage[p] \in {"NONE", "EXPIRED"}
    BY <1>5 DEF Stage
  <2>3. Records' = Records
    BY <1>2 DEF Records
  <2>4. Contract!Open(p)
    BY <2>1, <2>2, <2>3 DEF Contract!Open, Contract!Move, Stage, Opponents, Records
  <2> QED
    BY <2>4 DEF Contract!Next
<1> QED
  BY <1>4, <1>5

LEMMA RefinesTake ==
  ASSUME TypeOK, DuelInvariant, TakersSawOpen, [Next]_vars, NEW r \in Requests, ConfirmCommit(r)
  PROVE  [Contract!Next]_(Contract!vars)
<1>1. PICK p \in Predictions : p = req[r].prediction
  BY DEF ConfirmCommit, At, TypeOK, RequestState, FillSteps
<1>2. status[p] # "FREE" /\ IsChallenge(p) /\ req[r].pc = "takeCommit"
  BY <1>1 DEF ConfirmCommit, At, DuelInvariant, RequestsHoldRows, HoldsRow, FillSteps
<1>3. PICK o \in Predictions : /\ o = call[p].challenging /\ call[o].challenging = None
                              /\ call[p] \in Calls /\ call[o] \in Calls
                              /\ call[p].user # call[o].user
  BY <1>2, Challenges DEF IsChallenge
<1>4. CASE ~CanCreateDuel(o, p)
  <2>1. UNCHANGED <<status, call, duel, user>>
    BY <1>1, <1>3, <1>4 DEF ConfirmCommit
  <2>2. UNCHANGED Contract!vars
    BY <2>1, RefinesStutter DEF HasDuel
  <2> QED
    BY <2>2
<1>5. CASE CanCreateDuel(o, p)
  <2>1. /\ \A q \in Predictions : status'[q] = IF q \in {p, o} THEN "LOCKED" ELSE status[q]
        /\ \A q \in Predictions : duel'[q] =
             IF q = o THEN [status |-> "LOCKED", challenger |-> p, winner |-> None] ELSE duel[q]
        /\ UNCHANGED <<call, user>>
    BY <1>1, <1>3, <1>5 DEF ConfirmCommit, TypeOK
  <2>2. ~HasDuel(o) /\ \A q \in Predictions : HasDuel(q)' <=> HasDuel(q) \/ q = o
    BY <1>5, <2>1 DEF HasDuel, CanCreateDuel
  <2>3. Stage[o] \in {"OPEN", "EXPIRED"}
    BY <1>1, <1>2, <1>3, <2>2 DEF TakersSawOpen, Stage
  <2>4. p # o /\ ~HasDuel(p) /\ status[p] \in {"PENDING", "LOCKED"}
    <3>1. p # o /\ status[p] \in {"PENDING", "LOCKED"}
      BY <1>2, <1>3 DEF IsChallenge, DuelInvariant, ChallengesAreOpposed
    <3>2. ASSUME HasDuel(p) PROVE FALSE
      <4>1. PICK c \in Predictions : status[c] = "LOCKED" /\ call[c].challenging = p
        BY <3>2 DEF DuelInvariant, DuelsAreLocked
      <4>2. call[p].challenging = None
        BY <4>1, NoneAssumption, Challenges
      <4> QED
        BY <1>2, <4>2 DEF IsChallenge
    <3> QED
      BY <3>1, <3>2
  <2>5. \A q \in Predictions : Stage[q]' = IF q = o THEN "LOCKED" ELSE Stage[q]
    BY <2>1, <2>2, <2>4 DEF Stage
  <2>6. \A q \in Predictions :
          Opponents[q]' = IF q = o THEN {call[o].user, call[p].user} ELSE Opponents[q]
    BY <2>1, <2>2 DEF Opponents
  <2>7. /\ Stage' = [Stage EXCEPT ![o] = "LOCKED"]
        /\ Opponents' = [Opponents EXCEPT ![o] = {call[o].user, call[p].user}]
    BY <2>5, <2>6 DEF Stage, Opponents
  <2>8. Records' = Records
    BY <2>1 DEF Records
  <2>9. call[o].user \in Users /\ call[p].user \in Users
    BY <1>3 DEF Calls
  <2>10. Contract!Move(o, {"OPEN", "EXPIRED"}, "LOCKED")
    BY <2>3, <2>7 DEF Contract!Move, Stage
  <2>11. \E u, v \in Users : u # v /\ Opponents' = [Opponents EXCEPT ![o] = {u, v}]
    BY <1>3, <2>7, <2>9
  <2>12. Contract!Take(o)
    BY ONLY <2>8, <2>10, <2>11, Zenon DEF Contract!Take, Opponents, Records
  <2> QED
    BY <2>12 DEF Contract!Next
<1> QED
  BY <1>4, <1>5

LEMMA RefinesExpire ==
  ASSUME TypeOK, ExpireOpen
  PROVE  [Contract!Next]_(Contract!vars)
<1> DEFINE calls == {o \in Predictions : Expirable(o)}
<1>1. /\ \A q \in Predictions : status'[q] = IF q \in calls THEN "EXPIRED" ELSE status[q]
      /\ UNCHANGED <<call, duel, user>>
  BY DEF ExpireOpen
<1>2. \A q \in Predictions : HasDuel(q)' <=> HasDuel(q)
  BY <1>1 DEF HasDuel
<1>3. \A q \in calls : ~HasDuel(q) /\ status[q] = "OPEN" /\ q \in Predictions
  BY DEF Expirable
<1> HIDE DEF calls
<1>4. \A q \in Predictions : Stage[q]' = IF q \in calls THEN "EXPIRED" ELSE Stage[q]
  BY <1>1, <1>2, <1>3 DEF Stage
<1>5. \A q \in Predictions : Opponents[q]' = Opponents[q]
  BY <1>1, <1>2 DEF Opponents
<1>6. /\ Stage' = [o \in Predictions |-> IF o \in calls THEN "EXPIRED" ELSE Stage[o]]
      /\ Opponents' = Opponents /\ Records' = Records
  BY <1>1, <1>4, <1>5 DEF Stage, Opponents, Records
<1>7. calls \in SUBSET {o \in Predictions : Stage[o] = "OPEN"}
  BY <1>3 DEF Stage
<1>8. PICK c : c = calls
  OBVIOUS
<1>9. c \in SUBSET Contract!OpenCalls /\ Contract!Expire(c)
  BY <1>6, <1>7, <1>8 DEF Contract!Expire, Contract!OpenCalls, Stage, Opponents, Records
<1> QED
  BY <1>9 DEF Contract!Next

\* A duel of the batch is voided.
LEMMA RefinesVoid ==
  ASSUME TypeOK, DuelInvariant, [Next]_vars, NEW o \in Predictions, ResolveVoid(o)
  PROVE  [Contract!Next]_(Contract!vars)
<1>1. duel[o].status = "LOCKED" /\ HasDuel(o)
  BY DEF ResolveVoid, DuelInvariant, BatchStillValid, HasDuel
<1>2. /\ duel'[o].status = "VOIDED"
      /\ \A q \in Predictions : q # o => duel'[q] = duel[q]
      /\ UNCHANGED <<status, call, user>>
  BY DEF ResolveVoid, TypeOK, DuelRows
<1>3. \A q \in Predictions :
        /\ HasDuel(q)' <=> HasDuel(q)
        /\ HasDuel(q) => /\ duel'[q].challenger = duel[q].challenger
                         /\ call'[q] = call[q]
                         /\ call'[duel[q].challenger] = call[duel[q].challenger]
        /\ q # o => duel'[q].status = duel[q].status /\ status'[q] = status[q]
  BY <1>1, <1>2, OpponentsStay DEF HasDuel
<1>4. Stage' = [Stage EXCEPT ![o] = "VOIDED"] /\ Opponents' = Opponents
  BY <1>1, <1>2, <1>3, RefinesMove
<1>5. Stage[o] = "LOCKED" /\ Records' = Records
  BY <1>1, <1>2 DEF Stage, Records
<1>6. Contract!Void(o)
  BY <1>4, <1>5 DEF Contract!Void, Contract!Move, Stage, Opponents, Records
<1> QED
  BY <1>6 DEF Contract!Next

\* The transaction of resolveOne writes the end of the duel and what it means
\* for both sides.
LEMMA RefinesSettle ==
  ASSUME TypeOK, DuelInvariant, [Next]_vars, NEW o \in Predictions, ResolveSettle(o)
  PROVE  [Contract!Next]_(Contract!vars)
<1>1. duel[o].status = "LOCKED" /\ HasDuel(o)
  BY DEF ResolveSettle, DuelInvariant, BatchStillValid, HasDuel
<1>2. PICK w \in Users, l \in Users : w = WinnerOf(o) /\ l = LoserOf(o) /\ w # l
  BY <1>1, Sides
<1>3. Opponents[o] = {w, l} /\ Stage[o] = "LOCKED"
  BY <1>1, <1>2 DEF WinnerOf, LoserOf, Opponents, Stage
<1>4. /\ duel' = [duel EXCEPT ![o] = [@ EXCEPT !.status = "RESOLVED", !.winner = w]]
      /\ user' = [user EXCEPT ![w] = Scored(@, worker.rating[w], TRUE, o),
                              ![l] = Scored(@, worker.rating[l], FALSE, o)]
      /\ UNCHANGED <<status, call>>
  BY <1>2 DEF ResolveSettle, Finished
<1>5. /\ duel'[o].status = "RESOLVED"
      /\ \A q \in Predictions : q # o => duel'[q] = duel[q]
  BY <1>4 DEF TypeOK, DuelRows
<1>6. \A q \in Predictions :
        /\ HasDuel(q)' <=> HasDuel(q)
        /\ HasDuel(q) => /\ duel'[q].challenger = duel[q].challenger
                         /\ call'[q] = call[q]
                         /\ call'[duel[q].challenger] = call[duel[q].challenger]
        /\ q # o => duel'[q].status = duel[q].status /\ status'[q] = status[q]
  BY <1>1, <1>4, <1>5, OpponentsStay DEF HasDuel
<1>7. Stage' = [Stage EXCEPT ![o] = "RESOLVED"] /\ Opponents' = Opponents
  BY <1>1, <1>5, <1>6, RefinesMove
<1>8. /\ user'[w] = Scored(user[w], worker.rating[w], TRUE, o)
      /\ user'[l] = Scored(user[l], worker.rating[l], FALSE, o)
      /\ \A u \in Users \ {w, l} : user'[u] = user[u]
      /\ \A u \in Users : user[u] \in UserRows
  BY <1>2, <1>4 DEF TypeOK
<1>9. \A u \in Users : Records'[u] =
        [wins   |-> Records[u].wins + Contract!One(u = w),
         losses |-> Records[u].losses + Contract!One(u \in {w, l} \ {w}),
         paid   |-> Records[u].paid + Contract!One(u = w)]
  BY <1>2, <1>8 DEF Records, Scored, UserRows, Contract!One
<1>10. Records' = [u \in Users |->
         [wins   |-> Records[u].wins + Contract!One(u = w),
          losses |-> Records[u].losses + Contract!One(u \in Opponents[o] \ {w}),
          paid   |-> Records[u].paid + Contract!One(u = w)]]
  <2>1. Records' = [u \in Users |-> Records'[u]]
    BY DEF Records
  <2> QED
    BY <1>3, <1>9, <2>1
<1>11. Contract!Move(o, {"LOCKED"}, "RESOLVED")
  BY <1>3, <1>7 DEF Contract!Move, Stage
<1>12. w \in Opponents[o]
  BY <1>3
<1>13. Contract!Settle(o)
  BY ONLY <1>7, <1>10, <1>11, <1>12, Zenon DEF Contract!Settle, Opponents, Records
<1> QED
  BY <1>13 DEF Contract!Next

LEMMA RefinesStep ==
  ASSUME TypeOK, DuelInvariant, TakersSawOpen, [Next]_vars
  PROVE  [Contract!Next]_(Contract!vars)
<1> USE DEF world, rows
<1>1. CASE UNCHANGED <<status, call, duel, user>>
  <2>1. UNCHANGED Contract!vars
    BY <1>1, RefinesStutter DEF HasDuel
  <2> QED
    BY <2>1
<1>2. ASSUME NEW r \in Requests, CreateInsert(r) \/ ChallengeInsert(r)
      PROVE  [Contract!Next]_(Contract!vars)
  <2>1. UNCHANGED <<duel, user>>
    BY <1>2 DEF CreateInsert, ChallengeInsert
  <2>2. \A q \in Predictions : HasDuel(q)' <=> HasDuel(q)
    BY <2>1 DEF HasDuel
  <2>3. \A q \in Predictions : \/ status'[q] = status[q]
                               \/ status[q] = "FREE" /\ status'[q] = "PENDING"
    BY <1>2 DEF CreateInsert, ChallengeInsert, Insert, TypeOK
  <2>4. UNCHANGED Contract!vars
    BY <2>1, <2>2, <2>3, OpponentsStay, RefinesStutter
  <2> QED
    BY <2>4
<1>3. CASE World \/ Crash \/ UNCHANGED vars
  BY <1>1, <1>3 DEF World, WindowEnds, HeadroomBegins, CloseTrading, ReportOutcome, Crash, vars
<1>4. ASSUME NEW r \in Requests, Request(r) PROVE [Contract!Next]_(Contract!vars)
  <2>1. CASE ConfirmOpen(r)
    BY <2>1, RefinesOpen
  <2>2. CASE ConfirmCommit(r)
    BY <2>2, RefinesTake
  <2> QED
    BY <1>1, <1>2, <1>4, <2>1, <2>2 DEF Request, CreateBegin, ChallengeBegin, ConfirmBegin,
       ConfirmFirstRead, ConfirmSecondRead, ConfirmTake, RequestFails
<1>5. ASSUME NEW o \in Predictions, ResolveVoid(o) \/ ResolveSettle(o)
      PROVE  [Contract!Next]_(Contract!vars)
  BY <1>5, RefinesVoid, RefinesSettle
<1>6. CASE Tick
  <2>1. CASE ExpireOpen
    BY <2>1, RefinesExpire
  <2> QED
    BY <1>1, <1>5, <1>6, <2>1 DEF Tick, ResolveBegin, TickAborts, ResolveSkip, TickEnd
<1> QED
  BY <1>3, <1>4, <1>6 DEF Next

LEMMA TakersCorrect == Spec => []TakersSawOpen
<1>1. Init => TakersSawOpen
  BY DEF Init, TakersSawOpen, Idle
<1>2. TypeOK /\ DuelInvariant /\ TakersSawOpen /\ [Next]_vars => TakersSawOpen'
  BY TakersStep
<1> QED
  BY <1>1, <1>2, DuelsCorrect, PTL DEF Spec

\* However requests, ticks, failures and crashes interleave, every step of
\* calls and duels is one that Bout allows, or one it does not see.
THEOREM StepsCorrect == Spec => EveryStepIsOfBout
<1>1. TypeOK /\ DuelInvariant /\ TakersSawOpen /\ [Next]_vars => [Contract!Next]_(Contract!vars)
  BY RefinesStep
<1> QED
  BY <1>1, DuelsCorrect, TakersCorrect, PTL DEF Spec, EveryStepIsOfBout

\* Duels implements Bout.
THEOREM Refines == Spec => ImplementsBout
<1>1. Init => Contract!Init
  BY RefinesInit
<1> QED
  BY <1>1, StepsCorrect, PTL DEF Spec, EveryStepIsOfBout, ImplementsBout, Contract!Spec
=============================================================================
