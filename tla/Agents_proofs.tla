---------------------------- MODULE Agents_proofs ----------------------------
(***************************************************************************)
(* Theorems about Agents, for every set of markets, answers and concurrent *)
(* views, and every finite set of agents.                                  *)
(***************************************************************************)
EXTENDS Agents, FiniteSetTheorems, SequenceTheorems, TLAPS

IInv == TypeOK /\ PaidOnce /\ ClaimInvariant /\ EstimateIsAnswered

----------------------------------------------------------------------------
\* The platform

\* A clamped answer is a percentage.
LEMMA ClampType == \A x \in Int : Clamp(x) \in 0 .. 100
BY DEF Clamp

\* What two agents agree on, or responses[0] of a success, is an answer.
LEMMA ReadableIsAnswer ==
  ASSUME TypeOK, NEW i \in DOMAIN requests, NEW x \in Readable(i)
  PROVE  x \in Answers /\ IsAnswer(i, x)
<1>1. requests[i] \in RequestRows
  BY DEF TypeOK
<1> QED
  BY <1>1 DEF Readable, Majority, OnChain, IsAnswer, RequestRows

\* A request only ever gains reports, and an answer stays one.
LEMMA AnswersStay ==
  ASSUME NEW i, NEW x \in Answers, IsAnswer(i, x),
         \A a \in Members : requests[i].report[a] = x => requests'[i].report[a] = x,
         requests[i].status = "Success" =>
           requests'[i].status = "Success" /\ requests'[i].first = requests[i].first
  PROVE  IsAnswer(i, x)'
<1> DEFINE before == {a \in Members : requests[i].report[a] = x}
           after  == {a \in Members : requests'[i].report[a] = x}
<1>1. CASE Counted(i, x) >= 2
  <2>1. before \subseteq after
    OBVIOUS
  <2>2. IsFiniteSet(after) /\ IsFiniteSet(before)
    BY AgentsAssumption, FS_Subset
  <2>3. /\ Cardinality(before) <= Cardinality(after)
        /\ Cardinality(before) \in Nat /\ Cardinality(after) \in Nat
    BY <2>1, <2>2, FS_Subset, FS_CardinalityType
  <2>4. Counted(i, x) = Cardinality(before) /\ Counted(i, x)' = Cardinality(after)
    BY DEF Counted
  <2> HIDE DEF before, after
  <2>5. Counted(i, x)' >= 2
    BY <1>1, <2>3, <2>4
  <2> QED
    BY <2>5 DEF IsAnswer
<1>2. CASE ~(Counted(i, x) >= 2)
  BY <1>2 DEF IsAnswer
<1> QED
  BY <1>1, <1>2

\* Replacing a request by one of the same market disturbs nothing else.
LEMMA SetRequestEffect ==
  ASSUME TypeOK, NEW i \in DOMAIN requests, NEW r \in RequestRows,
         r.market = requests[i].market, SetRequest(i, r)
  PROVE  /\ requests' \in Seq(RequestRows)
         /\ DOMAIN requests' = DOMAIN requests
         /\ requests'[i] = r
         /\ \A j \in DOMAIN requests : j # i => requests'[j] = requests[j]
         /\ \A m \in Markets : RequestsFor(m)' = RequestsFor(m)
         /\ UNCHANGED <<market, view, poll>>
<1>1. requests \in Seq(RequestRows) /\ i \in 1 .. Len(requests)
  BY LenProperties DEF TypeOK
<1>2. requests' = [requests EXCEPT ![i] = r]
  BY DEF SetRequest
<1>3. requests' \in Seq(RequestRows) /\ DOMAIN requests' = DOMAIN requests
  BY <1>1, <1>2, ExceptSeq
<1>4. requests'[i] = r /\ \A j \in DOMAIN requests : j # i => requests'[j] = requests[j]
  BY <1>2
<1>5. \A m \in Markets : RequestsFor(m)' = RequestsFor(m)
  BY <1>3, <1>4 DEF RequestsFor
<1> QED
  BY <1>3, <1>4, <1>5 DEF SetRequest

\* Whatever the platform does, requests stay whose they are, and answers stay.
LEMMA PlatformEffect ==
  ASSUME TypeOK, Platform
  PROVE  /\ requests' \in Seq(RequestRows)
         /\ DOMAIN requests' = DOMAIN requests
         /\ \A m \in Markets : RequestsFor(m)' = RequestsFor(m)
         /\ \A j \in DOMAIN requests, y \in Answers : IsAnswer(j, y) => IsAnswer(j, y)'
         /\ UNCHANGED <<market, view, poll>>
<1>1. PICK i \in DOMAIN requests :
        \/ MineRequest(i)
        \/ \E a \in Members, x \in Answers : Report(i, a, x)
        \/ Finalize(i)
  BY DEF Platform
<1>2. requests[i] \in RequestRows
  BY DEF TypeOK
<1> DEFINE Replaces(r) ==
      /\ SetRequest(i, r)
      /\ r.market = requests[i].market
      /\ requests[i].status # "Success"
      /\ \A a \in Members : requests[i].report[a] # None => r.report[a] = requests[i].report[a]
<1>3. PICK r \in RequestRows : Replaces(r)
  <2>1. CASE MineRequest(i)
    <3>1. PICK s \in {"Pending", "reverted"} : SetRequest(i, [requests[i] EXCEPT !.status = s])
      BY <2>1 DEF MineRequest
    <3> QED
      BY <1>2, <2>1, <3>1 DEF MineRequest, RequestRows, RequestStatus
  <2>2. ASSUME NEW a \in Members, NEW x \in Answers, Report(i, a, x)
        PROVE  \E r \in RequestRows : Replaces(r)
    <3> DEFINE q == [requests[i] EXCEPT !.report[a] = x, !.first = IF @ = None THEN x ELSE @]
    <3>1. q \in RequestRows /\ q.market = requests[i].market
      BY <1>2 DEF RequestRows
    <3>2. \A b \in Members : requests[i].report[b] # None => q.report[b] = requests[i].report[b]
      BY <1>2, <2>2 DEF RequestRows, Report
    <3>3. SetRequest(i, q) /\ requests[i].status # "Success"
      BY <2>2 DEF Report
    <3> HIDE DEF q
    <3> QED
      BY <3>1, <3>2, <3>3
  <2>3. CASE Finalize(i)
    <3>1. PICK s \in {"Success", "Failed", "TimedOut"} :
            SetRequest(i, [requests[i] EXCEPT !.status = s])
      BY <2>3 DEF Finalize
    <3> QED
      BY <1>2, <2>3, <3>1 DEF Finalize, RequestRows, RequestStatus
  <2> QED
    BY <1>1, <2>1, <2>2, <2>3
<1>4. /\ requests' \in Seq(RequestRows)
      /\ DOMAIN requests' = DOMAIN requests
      /\ requests'[i] = r
      /\ \A j \in DOMAIN requests : j # i => requests'[j] = requests[j]
      /\ \A m \in Markets : RequestsFor(m)' = RequestsFor(m)
      /\ UNCHANGED <<market, view, poll>>
  BY <1>3, SetRequestEffect
<1>5. ASSUME NEW j \in DOMAIN requests, NEW y \in Answers, IsAnswer(j, y)
      PROVE  IsAnswer(j, y)'
  <2>1. \A a \in Members : requests[j].report[a] = y => requests'[j].report[a] = y
    BY <1>3, <1>4, AgentsAssumption
  <2>2. requests[j].status = "Success" => requests'[j] = requests[j]
    BY <1>3, <1>4
  <2> QED
    BY <1>5, <2>1, <2>2, AnswersStay
<1> QED
  BY <1>4, <1>5

\* submitInferNumber adds one request, for the market of the run, at the end.
LEMMA SubmitEffect ==
  ASSUME TypeOK, NEW v \in Views, Submit(v)
  PROVE  /\ view[v].market \in Markets
         /\ requests' \in Seq(RequestRows)
         /\ Len(requests) + 1 \in Ids /\ Len(requests) + 1 \notin DOMAIN requests
         /\ DOMAIN requests' = DOMAIN requests \cup {Len(requests) + 1}
         /\ \A i \in DOMAIN requests : requests'[i] = requests[i]
         /\ \A m \in Markets :
              RequestsFor(m)' = IF m = view[v].market THEN RequestsFor(m) \cup {Len(requests) + 1}
                                ELSE RequestsFor(m)
         /\ \A j \in DOMAIN requests, y \in Answers : IsAnswer(j, y) => IsAnswer(j, y)'
<1> DEFINE r == [market |-> view[v].market, status |-> "sent",
                 report |-> [a \in Members |-> None], first |-> None]
           n == Len(requests) + 1
<1>1. view[v].market \in Markets
  BY DEF TypeOK, Submit, At, ViewState
<1>2. requests \in Seq(RequestRows) /\ r \in RequestRows
  BY <1>1 DEF TypeOK, RequestRows, RequestStatus
<1>3. requests' = Append(requests, r)
  BY DEF Submit
<1>4. /\ requests' \in Seq(RequestRows)
      /\ Len(requests') = n /\ Len(requests) \in Nat
      /\ DOMAIN requests = 1 .. Len(requests)
      /\ DOMAIN requests' = 1 .. n
      /\ requests'[n] = r
      /\ \A i \in 1 .. Len(requests) : requests'[i] = requests[i]
  BY <1>2, <1>3, AppendProperties, LenProperties
<1>5. /\ n \in Ids /\ n \notin DOMAIN requests
      /\ DOMAIN requests' = DOMAIN requests \cup {n}
      /\ \A i \in DOMAIN requests : requests'[i] = requests[i]
  BY <1>4 DEF Ids
<1>6. requests'[n].market = view[v].market
  BY <1>4
<1>7. \A m \in Markets :
        RequestsFor(m)' = IF m = view[v].market THEN RequestsFor(m) \cup {n} ELSE RequestsFor(m)
  BY <1>5, <1>6 DEF RequestsFor
<1>8. ASSUME NEW j \in DOMAIN requests, NEW y \in Answers, IsAnswer(j, y)
      PROVE  IsAnswer(j, y)'
  BY <1>5, <1>8, AnswersStay
<1> QED
  BY <1>1, <1>4, <1>5, <1>7, <1>8

----------------------------------------------------------------------------
\* The invariant

LEMMA InitCorrect == Init => IInv
<1> SUFFICES ASSUME Init PROVE IInv
  OBVIOUS
<1> USE AgentsAssumption
<1>1. TypeOK
  BY DEF Init, TypeOK, MarketRows, ViewState, ViewSteps, AiStatus, ViewIdle, PollIdle, At
<1>2. DOMAIN requests = {}
  BY DEF Init
<1>3. \A m \in Markets : RequestsFor(m) = {}
  BY <1>2 DEF RequestsFor
<1>4. \A v \in Views, m \in Markets : ~Holds(v, m)
  BY DEF Init, Holds, ViewIdle
<1>5. \A m \in Markets : market[m].status = "IDLE" /\ market[m].id = None
  BY DEF Init
<1>6. poll.todo = {} /\ poll.pc = "idle"
  BY DEF Init, PollIdle
<1> QED
  BY <1>1, <1>3, <1>4, <1>5, <1>6 DEF IInv, PaidOnce, ClaimInvariant, EstimateIsAnswered

LEMMA TypeStep == IInv /\ [Next]_vars => TypeOK'
<1> SUFFICES ASSUME IInv, [Next]_vars PROVE TypeOK'
  OBVIOUS
<1> USE AgentsAssumption
<1>0. TypeOK /\ ClaimInvariant
  BY DEF IInv
<1> DEFINE ViewOK ==
      \A v \in Views :
        /\ ~At(v, "idle") => view[v].market # None
        /\ view[v].pc \in {"receipt", "record"} => view[v].tx \in DOMAIN requests
<1>1. ASSUME NEW v \in Views, UNCHANGED <<market, poll, requests>>,
             NEW s \in ViewState, view' = [view EXCEPT ![v] = s],
             s.pc # "idle" => s.market # None,
             s.pc \in {"receipt", "record"} => s.tx \in DOMAIN requests
      PROVE  TypeOK'
  BY <1>0, <1>1 DEF TypeOK, At
<1>2. ASSUME NEW v \in Views, NEW m \in Markets, ViewMarket(v, m) PROVE TypeOK'
  <2> DEFINE s == [pc |-> "claim", market |-> m, tx |-> None]
  <2>1. s \in ViewState /\ s.market # None
    BY DEF ViewState, ViewSteps
  <2> QED
    BY <1>1, <1>2, <2>1 DEF ViewMarket
<1>3. ASSUME NEW v \in Views, Stops(v), UNCHANGED <<market, poll, requests>> PROVE TypeOK'
  <2>1. ViewIdle \in ViewState
    BY DEF ViewIdle, ViewState, ViewSteps
  <2> QED
    BY <1>1, <1>3, <2>1 DEF Stops, ViewIdle
<1>4. ASSUME NEW v \in Views, NEW pc \in ViewSteps, Goes(v, pc), UNCHANGED <<market, poll, requests>>,
             ~At(v, "idle"), pc \in {"receipt", "record"} => At(v, "receipt")
      PROVE  TypeOK'
  <2> DEFINE s == [view[v] EXCEPT !.pc = pc]
  <2>1. view[v] \in ViewState
    BY <1>0 DEF TypeOK
  <2>2. s \in ViewState /\ s.market # None /\ s.tx = view[v].tx /\ s.pc = pc
    BY <1>0, <1>4, <2>1 DEF TypeOK, ViewState
  <2>3. view' = [view EXCEPT ![v] = s]
    BY <1>4 DEF Goes
  <2>4. s.pc \in {"receipt", "record"} => s.tx \in DOMAIN requests
    BY <1>0, <1>4, <2>2 DEF TypeOK, At
  <2> HIDE DEF s
  <2> QED
    BY <1>1, <1>4, <2>2, <2>3, <2>4
<1>5. ASSUME NEW v \in Views, Claim(v) PROVE TypeOK'
  <2>1. CASE Claimable(view[v].market)
    <3>1. /\ market' = [market EXCEPT ![view[v].market].status = "PENDING"]
          /\ Goes(v, "claimed") /\ UNCHANGED <<poll, requests>>
      BY <1>5, <2>1 DEF Claim
    <3>2. market' \in [Markets -> MarketRows]
      <4> DEFINE m == view[v].market
                 r == [market[m] EXCEPT !.status = "PENDING"]
      <4>1. m \in Markets /\ market[m] \in MarketRows
        BY <1>0, <1>5 DEF TypeOK, Claim, At, ViewState
      <4>2. r \in MarketRows
        BY <4>1 DEF MarketRows, AiStatus
      <4>3. market' = [market EXCEPT ![m] = r]
        BY <3>1
      <4> HIDE DEF m, r
      <4> QED
        BY <1>0, <4>1, <4>2, <4>3 DEF TypeOK
    <3>3. view' \in [Views -> ViewState] /\ ViewOK'
      BY <1>0, <1>5, <3>1 DEF TypeOK, Goes, ViewState, ViewSteps, At, Claim
    <3> QED
      BY <1>0, <3>1, <3>2, <3>3 DEF TypeOK
  <2>2. CASE ~Claimable(view[v].market)
    BY <1>3, <1>5, <2>2 DEF Claim
  <2> QED
    BY <2>1, <2>2
<1>6. ASSUME NEW v \in Views, ReadClaimed(v) \/ ReadReceipt(v) \/ TryFails(v) PROVE TypeOK'
  BY <1>4, <1>6 DEF ReadClaimed, ReadReceipt, TryFails, ViewSteps, At
<1>7. ASSUME NEW v \in Views, EnqueueFails(v) PROVE TypeOK'
  BY <1>3, <1>7 DEF EnqueueFails
<1>8. ASSUME NEW v \in Views, Submit(v) PROVE TypeOK'
  <2>1. /\ requests' \in Seq(RequestRows)
        /\ Len(requests) + 1 \in Ids
        /\ DOMAIN requests' = DOMAIN requests \cup {Len(requests) + 1}
    BY <1>0, <1>8, SubmitEffect
  <2>2. /\ view' = [view EXCEPT ![v].pc = "receipt", ![v].tx = Len(requests) + 1]
        /\ UNCHANGED <<market, poll>> /\ At(v, "submit")
    BY <1>8 DEF Submit
  <2>3. view' \in [Views -> ViewState]
    <3> DEFINE s == [view[v] EXCEPT !.pc = "receipt", !.tx = Len(requests) + 1]
    <3>1. view[v] \in ViewState
      BY <1>0 DEF TypeOK
    <3>2. s \in ViewState
      BY <2>1, <3>1 DEF ViewState, ViewSteps
    <3>3. view' = [view EXCEPT ![v] = s]
      BY <2>2
    <3> HIDE DEF s
    <3> QED
      BY <1>0, <3>2, <3>3 DEF TypeOK
  <2>4. ViewOK'
    BY <1>0, <2>1, <2>2 DEF TypeOK, ViewState, At
  <2> QED
    BY <1>0, <2>1, <2>2, <2>3, <2>4 DEF TypeOK
<1>9. ASSUME NEW v \in Views, RecordId(v) \/ MarkFailed(v) PROVE TypeOK'
  <2>1. view[v] \in ViewState /\ view[v].market \in Markets
    BY <1>0, <1>9 DEF TypeOK, RecordId, MarkFailed, At, ViewState
  <2>2. RecordId(v) => view[v].tx \in Ids
    BY <1>0, <2>1, LenProperties DEF TypeOK, RecordId, At, Ids
  <2>3. PICK r \in MarketRows : market' = [market EXCEPT ![view[v].market] = r]
    <3> DEFINE m == view[v].market
               failed == [market[m] EXCEPT !.status = "FAILED"]
               known == [market[m] EXCEPT !.id = view[v].tx]
    <3>1. market[m] \in MarketRows
      BY <1>0, <2>1 DEF TypeOK
    <3>2. failed \in MarketRows /\ (RecordId(v) => known \in MarketRows)
      BY <2>2, <3>1 DEF MarketRows, AiStatus
    <3>3. MarkFailed(v) => market' = [market EXCEPT ![m] = failed]
      BY DEF MarkFailed
    <3>4. RecordId(v) => market' = [market EXCEPT ![m] = known]
      BY DEF RecordId
    <3> HIDE DEF m, failed, known
    <3> QED
      BY <1>9, <3>2, <3>3, <3>4 DEF m
  <2>4. view' = [view EXCEPT ![v] = ViewIdle] /\ UNCHANGED <<poll, requests>>
    BY <1>9 DEF RecordId, MarkFailed, Stops
  <2>5. view' \in [Views -> ViewState] /\ ViewOK'
    BY <1>0, <2>4 DEF TypeOK, ViewIdle, ViewState, ViewSteps, At
  <2> QED
    BY <1>0, <2>3, <2>4, <2>5 DEF TypeOK
<1>10. CASE Platform
  BY <1>0, <1>10, PlatformEffect DEF TypeOK, At
<1>11. CASE PollBegin \/ PollSkip \/ PollEnd
  <2>1. UNCHANGED <<market, view, requests>>
    BY <1>11 DEF PollBegin, PollSkip, PollEnd
  <2> DEFINE PollRows == [pc : {"idle", "batch", "write"}, todo : SUBSET Markets,
                          market : Markets \cup {None}, value : Answers \cup {None}]
  <2>a. poll \in PollRows
    BY <1>0 DEF TypeOK
  <2>2. poll' \in PollRows /\ poll'.pc # "write"
    <3>1. CASE PollBegin
      <4> DEFINE batch == {m \in Markets : Pollable(m)}
      <4>1. batch \in SUBSET Markets /\ poll' = [poll EXCEPT !.pc = "batch", !.todo = batch]
        BY <3>1 DEF PollBegin
      <4> HIDE DEF batch
      <4> QED
        BY <2>a, <4>1
    <3>2. ASSUME NEW m \in poll.todo, poll.pc = "batch", poll' = [poll EXCEPT !.todo = @ \ {m}]
          PROVE  poll' \in PollRows /\ poll'.pc # "write"
      BY <2>a, <3>2
    <3>3. CASE poll' = [poll EXCEPT !.pc = "batch", !.market = None, !.value = None]
      BY <2>a, <3>3
    <3>4. CASE poll' = PollIdle
      BY <3>4 DEF PollIdle
    <3> QED
      BY <1>11, <3>1, <3>2, <3>3, <3>4 DEF PollSkip, PollEnd
  <2> QED
    BY <1>0, <2>1, <2>2 DEF TypeOK, At
<1>12. ASSUME NEW m \in Markets, PollRead(m) PROVE TypeOK'
  <2>1. PICK x \in Readable(market[m].id) :
          poll' = [pc |-> "write", todo |-> poll.todo \ {m}, market |-> m, value |-> x]
    BY <1>12 DEF PollRead
  <2>2. market[m].id \in DOMAIN requests
    BY <1>0, <1>12 DEF ClaimInvariant, Pollable, PollRead, RequestsFor
  <2>3. x \in Answers
    BY <1>0, <2>1, <2>2, ReadableIsAnswer
  <2> QED
    BY <1>0, <1>12, <2>1, <2>3 DEF TypeOK, PollRead, At
<1>13. CASE PollWrite
  <2>1. poll.market \in Markets /\ Clamp(poll.value) \in 0 .. 100
    BY <1>0, <1>13, ClampType DEF TypeOK, PollWrite
  <2>2. market' \in [Markets -> MarketRows]
    <3> DEFINE m == poll.market
               r == [market[m] EXCEPT !.status = "READY", !.probability = Clamp(poll.value)]
    <3>1. market[m] \in MarketRows
      BY <1>0, <2>1 DEF TypeOK
    <3>2. r \in MarketRows
      BY <2>1, <3>1 DEF MarketRows, AiStatus
    <3>3. market' = [market EXCEPT ![m] = r]
      BY <1>13 DEF PollWrite
    <3> HIDE DEF m, r
    <3> QED
      BY <1>0, <2>1, <3>2, <3>3 DEF TypeOK, m
  <2> QED
    BY <1>0, <1>13, <2>2 DEF TypeOK, PollWrite, At
<1>14. CASE Crash
  BY <1>0, <1>14 DEF TypeOK, Crash, ViewIdle, PollIdle, ViewState, ViewSteps, At
<1>15. CASE UNCHANGED vars
  BY <1>0, <1>15 DEF TypeOK, vars, At
<1> QED
  BY <1>2, <1>5, <1>6, <1>7, <1>8, <1>9, <1>10, <1>11, <1>12, <1>13, <1>14, <1>15
     DEF Next, Enqueue

LEMMA ClaimStep == IInv /\ [Next]_vars => ClaimInvariant'
<1> SUFFICES ASSUME IInv, [Next]_vars PROVE ClaimInvariant'
  OBVIOUS
<1> USE AgentsAssumption
<1>0. /\ TypeOK /\ ClaimInvariant
      /\ market \in [Markets -> MarketRows] /\ view \in [Views -> ViewState]
  BY DEF IInv, TypeOK
<1> DEFINE
      Polled ==
        /\ \A m \in poll.todo : Pollable(m)
        /\ poll.pc = "write" =>
             /\ Pollable(poll.market) /\ poll.market \notin poll.todo
             /\ IsAnswer(market[poll.market].id, poll.value)
      Unpaid(m) ==
        /\ market[m].status = "IDLE" => RequestsFor(m) = {} /\ market[m].id = None
        /\ market[m].id # None => market[m].id \in RequestsFor(m)
      Held(v, m) ==
        /\ market[m].status = "PENDING" /\ market[m].id = None
        /\ view[v].pc \in {"claimed", "submit"} => RequestsFor(m) = {}
        /\ view[v].pc \in {"receipt", "record"} => view[v].tx \in RequestsFor(m)
        /\ \A w \in Views : Holds(w, m) => w = v
<1>a. ClaimInvariant <=> /\ \A m \in Markets : Unpaid(m)
                         /\ \A v \in Views, m \in Markets : Holds(v, m) => Held(v, m)
                         /\ Polled
  BY DEF ClaimInvariant
<1>b. (ClaimInvariant <=> /\ \A m \in Markets : Unpaid(m)
                          /\ \A v \in Views, m \in Markets : Holds(v, m) => Held(v, m)
                          /\ Polled)'
  BY DEF ClaimInvariant
\* A run moves on, or stops, without touching anything else.
<1>1. ASSUME NEW v \in Views, UNCHANGED <<market, poll, requests>>,
             \A w \in Views : w # v => view'[w] = view[w],
             \A m \in Markets : Holds(v, m)' =>
               /\ Holds(v, m)
               /\ view'[v].pc \in {"claimed", "submit"} => view[v].pc \in {"claimed", "submit"}
               /\ view'[v].pc \in {"receipt", "record"} =>
                    view[v].pc \in {"receipt", "record"} /\ view'[v].tx = view[v].tx
      PROVE  ClaimInvariant'
  <2>1. \A m : RequestsFor(m)' = RequestsFor(m) /\ Pollable(m)' = Pollable(m)
    BY <1>1 DEF RequestsFor, Pollable
  <2>2. \A i, x : IsAnswer(i, x)' = IsAnswer(i, x)
    BY <1>1 DEF IsAnswer, Counted
  <2>3. \A w \in Views, m \in Markets : Holds(w, m)' => Holds(w, m)
    BY <1>1 DEF Holds
  <2>4. \A m \in Markets : Unpaid(m)'
    BY <1>0, <1>1, <1>a, <2>1
  <2>5. ASSUME NEW w \in Views, NEW m \in Markets, Holds(w, m)' PROVE Held(w, m)'
    <3>1. Held(w, m)
      BY <1>0, <1>a, <2>3, <2>5
    <3>2. CASE w = v
      BY <1>1, <2>1, <2>3, <2>5, <3>1, <3>2
    <3>3. CASE w # v
      BY <1>1, <2>1, <2>3, <2>5, <3>1, <3>3
    <3> QED
      BY <3>2, <3>3
  <2>6. Polled'
    BY <1>0, <1>1, <1>a, <2>1, <2>2
  <2> QED
    BY <1>b, <2>4, <2>5, <2>6
<1>2. ASSUME NEW v \in Views, NEW m \in Markets, ViewMarket(v, m) PROVE ClaimInvariant'
  <2>1. view'[v].pc = "claim" /\ UNCHANGED <<market, poll, requests>>
        /\ \A w \in Views : w # v => view'[w] = view[w]
    BY <1>0, <1>2 DEF ViewMarket
  <2> QED
    BY <1>1, <2>1 DEF Holds
<1>3. ASSUME NEW v \in Views, Stops(v), UNCHANGED <<market, poll, requests>> PROVE ClaimInvariant'
  <2>1. view'[v].pc = "idle" /\ \A w \in Views : w # v => view'[w] = view[w]
    BY <1>0, <1>3 DEF Stops, ViewIdle
  <2> QED
    BY <1>1, <1>3, <2>1 DEF Holds
<1>4. ASSUME NEW v \in Views, ReadClaimed(v) \/ ReadReceipt(v) \/ TryFails(v) PROVE ClaimInvariant'
  <2>1. /\ UNCHANGED <<market, poll, requests>>
        /\ \A w \in Views : w # v => view'[w] = view[w]
        /\ view'[v].market = view[v].market /\ view'[v].tx = view[v].tx
        /\ \/ view[v].pc = "claimed" /\ view'[v].pc = "submit"
           \/ view[v].pc = "receipt" /\ view'[v].pc \in {"record", "failing"}
           \/ view[v].pc \in {"submit", "record"} /\ view'[v].pc = "failing"
    BY <1>0, <1>4 DEF ReadClaimed, ReadReceipt, TryFails, Goes, At, ViewState
  <2>2. view[v].pc \in ViewSteps \ {"idle", "claim"}
    BY <2>1 DEF ViewSteps
  <2> QED
    BY <1>1, <2>1, <2>2 DEF Holds
\* Of market and view, only those of the run's market and the run change.
<1>5. ASSUME NEW v \in Views, NEW m \in Markets, view[v].market = m, UNCHANGED poll,
             market[m].status = "IDLE" \/ Holds(v, m), market[m].id = None,
             \A n \in Markets : n # m =>
               market'[n] = market[n] /\ RequestsFor(n)' = RequestsFor(n),
             \A w \in Views : w # v => view'[w] = view[w],
             \A n \in Markets : Holds(v, n)' => n = m,
             \A j \in DOMAIN requests, y \in Answers : IsAnswer(j, y) => IsAnswer(j, y)',
             Unpaid(m)', Holds(v, m)' =>
               /\ market'[m].status = "PENDING" /\ market'[m].id = None
               /\ view'[v].pc \in {"claimed", "submit"} => RequestsFor(m)' = {}
               /\ view'[v].pc \in {"receipt", "record"} => view'[v].tx \in RequestsFor(m)'
      PROVE  ClaimInvariant'
  <2>1. \A n \in Markets : Unpaid(n)'
    BY <1>0, <1>5, <1>a
  <2>2. \A w \in Views : w # v => ~Holds(w, m)
    BY <1>0, <1>5, <1>a
  <2>3. \A w \in Views : w # v => ~Holds(w, m)'
    BY <1>5, <2>2 DEF Holds
  <2>4. ASSUME NEW w \in Views, NEW n \in Markets, Holds(w, n)' PROVE Held(w, n)'
    <3>1. CASE n = m
      BY <1>5, <2>3, <2>4, <3>1
    <3>2. CASE n # m
      <4>1. w # v /\ view'[w] = view[w] /\ Holds(w, n)
        BY <1>5, <2>4, <3>2 DEF Holds
      <4>2. Held(w, n)
        BY <1>0, <1>a, <4>1
      <4>3. \A u \in Views : Holds(u, n)' => Holds(u, n)
        BY <1>5, <3>2 DEF Holds
      <4> QED
        BY <1>5, <3>2, <4>1, <4>2, <4>3
    <3> QED
      BY <3>1, <3>2
  <2>5. Polled'
    <3>1. m \notin poll.todo /\ (poll.pc = "write" => poll.market # m)
      BY <1>0, <1>5, <1>a DEF Pollable
    <3>2. poll.todo \subseteq Markets /\ (poll.pc = "write" => poll.market \in Markets /\ poll.value \in Answers)
      BY <1>0 DEF TypeOK
    <3>3. \A n \in poll.todo : Pollable(n)'
      BY <1>0, <1>5, <1>a, <3>1, <3>2 DEF Pollable
    <3>4. poll.pc = "write" => /\ market'[poll.market] = market[poll.market]
                              /\ market[poll.market].id \in DOMAIN requests
      BY <1>0, <1>5, <1>a, <3>1, <3>2 DEF Pollable, RequestsFor
    <3>5. poll.pc = "write" => IsAnswer(market[poll.market].id, poll.value)'
      <4> SUFFICES ASSUME poll.pc = "write" PROVE IsAnswer(market[poll.market].id, poll.value)'
        OBVIOUS
      <4>1. IsAnswer(market[poll.market].id, poll.value)
        BY <1>0, <1>a
      <4>2. poll' = poll /\ market'[poll'.market].id = market[poll.market].id
        BY <1>5, <3>4
      <4> HIDE <1>0, <1>a
      <4>3. \A j \in DOMAIN requests, y \in Answers : IsAnswer(j, y) => IsAnswer(j, y)'
        BY <1>5
      <4> QED
        BY <3>2, <3>4, <4>1, <4>2, <4>3 DEF IsAnswer, Counted
    <3>6. poll.pc = "write" => Pollable(poll.market)'
      BY <1>0, <1>5, <1>a, <3>4 DEF Pollable
    <3> QED
      BY <1>0, <1>5, <1>a, <3>3, <3>5, <3>6
  <2> QED
    BY <1>b, <2>1, <2>4, <2>5
<1>6. ASSUME NEW v \in Views, Claim(v) PROVE ClaimInvariant'
  <2>0. PICK m \in Markets : m = view[v].market
    BY <1>0, <1>6 DEF TypeOK, Claim, At, ViewState
  <2>1. CASE Claimable(m)
    <3>1. /\ market[m].status = "IDLE" /\ market[m].id = None /\ RequestsFor(m) = {}
          /\ UNCHANGED <<poll, requests>>
          /\ market' = [market EXCEPT ![m].status = "PENDING"]
          /\ view' = [view EXCEPT ![v].pc = "claimed"]
      BY <1>0, <1>6, <1>a, <2>0, <2>1 DEF Claim, Claimable, Goes
    <3>2. /\ market'[m].status = "PENDING" /\ market'[m].id = None
          /\ \A n \in Markets : n # m => market'[n] = market[n]
          /\ view'[v].pc = "claimed" /\ view'[v].market = m
          /\ \A w \in Views : w # v => view'[w] = view[w]
      BY <1>0, <2>0, <3>1 DEF MarketRows, ViewState
    <3>3. \A n : RequestsFor(n)' = RequestsFor(n)
      BY <3>1 DEF RequestsFor
    <3>4. \A i, x : IsAnswer(i, x)' = IsAnswer(i, x)
      BY <3>1 DEF IsAnswer, Counted
    <3>5. \A n \in Markets : Holds(v, n)' => n = m
      BY <3>2 DEF Holds
    <3> QED
      BY <1>5, <2>0, <3>1, <3>2, <3>3, <3>4, <3>5
  <2>2. CASE ~Claimable(m)
    BY <1>3, <1>6, <2>0, <2>2 DEF Claim
  <2> QED
    BY <2>1, <2>2
<1>7. ASSUME NEW v \in Views, EnqueueFails(v) PROVE ClaimInvariant'
  BY <1>3, <1>7 DEF EnqueueFails
<1>8. ASSUME NEW v \in Views, Submit(v) PROVE ClaimInvariant'
  <2>0. PICK m \in Markets : m = view[v].market
    BY <1>0, <1>8, SubmitEffect
  <2>1. /\ RequestsFor(m)' = RequestsFor(m) \cup {Len(requests) + 1}
        /\ \A n \in Markets : n # m => RequestsFor(n)' = RequestsFor(n)
        /\ \A j \in DOMAIN requests, y \in Answers : IsAnswer(j, y) => IsAnswer(j, y)'
    BY <1>0, <1>8, <2>0, SubmitEffect
  <2>2. /\ view' = [view EXCEPT ![v].pc = "receipt", ![v].tx = Len(requests) + 1]
        /\ UNCHANGED <<market, poll>> /\ view[v].pc = "submit"
    BY <1>8 DEF Submit, At
  <2>3. /\ view'[v].pc = "receipt" /\ view'[v].market = m
        /\ view'[v].tx = Len(requests) + 1
        /\ \A w \in Views : w # v => view'[w] = view[w]
    BY <1>0, <2>0, <2>2 DEF ViewState
  <2>4. Holds(v, m)
    BY <2>0, <2>2 DEF Holds, ViewSteps
  <2>5. Held(v, m)
    BY <1>0, <1>a, <2>1, <2>4
  <2>6. \A n \in Markets : Holds(v, n)' => n = m
    BY <2>3 DEF Holds
  <2> QED
    BY <1>5, <2>0, <2>1, <2>2, <2>3, <2>4, <2>5, <2>6
<1>9. ASSUME NEW v \in Views, RecordId(v) \/ MarkFailed(v) PROVE ClaimInvariant'
  <2>0. PICK m \in Markets : m = view[v].market
    BY <1>0, <1>9 DEF TypeOK, RecordId, MarkFailed, At, ViewState
  <2>1. /\ Holds(v, m) /\ UNCHANGED <<poll, requests>>
        /\ view' = [view EXCEPT ![v] = ViewIdle]
    BY <1>0, <1>9, <2>0 DEF TypeOK, RecordId, MarkFailed, At, ViewState, Holds, ViewSteps, Stops
  <2>2. Held(v, m)
    BY <1>0, <1>a, <2>1
  <2>3. \A n : RequestsFor(n)' = RequestsFor(n)
    BY <2>1 DEF RequestsFor
  <2>4. \A i, x : IsAnswer(i, x)' = IsAnswer(i, x)
    BY <2>1 DEF IsAnswer, Counted
  <2>5. view'[v].pc = "idle" /\ \A w \in Views : w # v => view'[w] = view[w]
    BY <1>0, <2>1 DEF ViewIdle
  <2>6. \A n \in Markets : n # m => market'[n] = market[n]
    BY <1>0, <1>9, <2>0 DEF RecordId, MarkFailed
  <2>7. Unpaid(m)'
    <3>1. CASE RecordId(v)
      <4>1. market'[m].status = market[m].status /\ market'[m].id = view[v].tx
        BY <1>0, <2>0, <3>1 DEF RecordId, MarketRows
      <4>2. view[v].tx \in RequestsFor(m)
        BY <2>2, <3>1 DEF RecordId, At
      <4> QED
        BY <2>2, <2>3, <4>1, <4>2
    <3>2. CASE MarkFailed(v)
      <4>1. market'[m].status = "FAILED" /\ market'[m].id = market[m].id
        BY <1>0, <2>0, <3>2 DEF MarkFailed, MarketRows
      <4> QED
        BY <2>2, <4>1
    <3> QED
      BY <1>9, <3>1, <3>2
  <2>8. \A n : ~Holds(v, n)'
    BY <2>5 DEF Holds
  <2> QED
    BY <1>5, <2>0, <2>1, <2>2, <2>3, <2>4, <2>5, <2>6, <2>7, <2>8
\* Only requests change, or only the poll.
<1>10. ASSUME UNCHANGED <<market, view>>, \A m \in Markets : RequestsFor(m)' = RequestsFor(m),
              Polled'
       PROVE  ClaimInvariant'
  <2>1. \A v \in Views, m \in Markets : Holds(v, m)' = Holds(v, m)
    BY <1>10 DEF Holds
  <2> QED
    BY <1>0, <1>10, <1>a, <1>b, <2>1
<1>11. CASE Platform
  <2>1. /\ UNCHANGED <<market, view, poll>>
        /\ \A m \in Markets : RequestsFor(m)' = RequestsFor(m)
        /\ \A j \in DOMAIN requests, y \in Answers : IsAnswer(j, y) => IsAnswer(j, y)'
    BY <1>0, <1>11, PlatformEffect
  <2>2. \A m : Pollable(m)' = Pollable(m)
    BY <2>1 DEF Pollable
  <2>3. poll.pc = "write" => /\ poll.value \in Answers
                            /\ market[poll.market].id \in DOMAIN requests
    BY <1>0, <1>a DEF TypeOK, Pollable, RequestsFor
  <2>4. poll.pc = "write" => IsAnswer(market[poll.market].id, poll.value)'
    <3> SUFFICES ASSUME poll.pc = "write" PROVE IsAnswer(market[poll.market].id, poll.value)'
      OBVIOUS
    <3>1. IsAnswer(market[poll.market].id, poll.value)
      BY <1>0, <1>a
    <3> QED
      BY <2>1, <2>3, <3>1 DEF IsAnswer, Counted
  <2> QED
    BY <1>0, <1>10, <1>a, <2>1, <2>2, <2>4
<1>12. CASE PollBegin \/ PollSkip \/ PollEnd
  <2>1. UNCHANGED <<market, view, requests>>
    BY <1>12 DEF PollBegin, PollSkip, PollEnd
  <2>2. \A m : RequestsFor(m)' = RequestsFor(m) /\ Pollable(m)' = Pollable(m)
    BY <2>1 DEF RequestsFor, Pollable
  <2>3. /\ poll'.pc # "write"
        /\ poll'.todo \subseteq poll.todo \/ poll'.todo = {m \in Markets : Pollable(m)}
    <3> poll \in [pc : {"idle", "batch", "write"}, todo : SUBSET Markets,
                  market : Markets \cup {None}, value : Answers \cup {None}]
      BY <1>0 DEF TypeOK
    <3>1. CASE PollBegin
      <4> DEFINE batch == {m \in Markets : Pollable(m)}
      <4>1. poll' = [poll EXCEPT !.pc = "batch", !.todo = batch]
        BY <3>1 DEF PollBegin
      <4> HIDE DEF batch
      <4>2. poll'.pc = "batch" /\ poll'.todo = batch
        BY <4>1
      <4> QED
        BY <4>2 DEF batch
    <3>2. CASE PollSkip
      BY <3>2 DEF PollSkip
    <3>3. CASE PollEnd
      BY <3>3 DEF PollEnd, PollIdle
    <3> QED
      BY <1>12, <3>1, <3>2, <3>3
  <2>4. Polled'
    BY <1>0, <1>a, <2>2, <2>3
  <2> QED
    BY <1>10, <2>1, <2>2, <2>4
<1>13. ASSUME NEW n \in Markets, PollRead(n) PROVE ClaimInvariant'
  <2>1. UNCHANGED <<market, view, requests>> /\ n \in poll.todo
    BY <1>13 DEF PollRead
  <2>2. \A m : RequestsFor(m)' = RequestsFor(m) /\ Pollable(m)' = Pollable(m)
    BY <2>1 DEF RequestsFor, Pollable
  <2>3. Pollable(n) /\ market[n].id \in DOMAIN requests
    BY <1>0, <1>a, <2>1 DEF Pollable, RequestsFor
  <2>4. PICK x \in Readable(market[n].id) :
          poll' = [pc |-> "write", todo |-> poll.todo \ {n}, market |-> n, value |-> x]
    BY <1>13 DEF PollRead
  <2>5. IsAnswer(market[n].id, x)
    BY <1>0, <2>3, <2>4, ReadableIsAnswer
  <2>6. IsAnswer(market[poll.market].id, poll.value)'
    BY <2>1, <2>4, <2>5 DEF IsAnswer, Counted
  <2>7. Polled'
    BY <1>0, <1>a, <2>2, <2>3, <2>4, <2>6
  <2> QED
    BY <1>10, <2>1, <2>2, <2>7
<1>14. CASE PollWrite
  <2> DEFINE m == poll.market
  <2>1. /\ m \in Markets /\ Pollable(m) /\ m \notin poll.todo
        /\ UNCHANGED <<view, requests>> /\ poll'.pc = "batch" /\ poll'.todo = poll.todo
    BY <1>0, <1>14, <1>a DEF TypeOK, PollWrite
  <2>2. /\ market'[m].status = "READY" /\ market'[m].id = market[m].id
        /\ \A n \in Markets : n # m => market'[n] = market[n]
    BY <1>0, <1>14, <2>1 DEF PollWrite, MarketRows
  <2>3. \A n : RequestsFor(n)' = RequestsFor(n)
    BY <2>1 DEF RequestsFor
  <2>4. \A v \in Views, n \in Markets : Holds(v, n)' = Holds(v, n)
    BY <2>1 DEF Holds
  <2>5. \A n \in Markets : Unpaid(n)'
    BY <1>0, <1>a, <2>1, <2>2, <2>3
  <2>6. ASSUME NEW v \in Views, NEW n \in Markets, Holds(v, n)' PROVE Held(v, n)'
    <3>1. Held(v, n) /\ n # m
      BY <1>0, <1>a, <2>1, <2>4, <2>6 DEF Pollable
    <3> QED
      BY <2>1, <2>2, <2>3, <2>4, <3>1
  <2>7. Polled'
    <3>1. poll.todo \subseteq Markets
      BY <1>0 DEF TypeOK
    <3> QED
      BY <1>0, <1>a, <2>1, <2>2, <3>1 DEF Pollable
  <2> QED
    BY <1>b, <2>5, <2>6, <2>7
<1>15. CASE Crash
  <2>1. /\ UNCHANGED <<market, requests>> /\ poll'.pc = "idle" /\ poll'.todo = {}
        /\ \A v \in Views : view'[v].pc = "idle"
    BY <1>15 DEF Crash, ViewIdle, PollIdle
  <2>2. \A n : RequestsFor(n)' = RequestsFor(n)
    BY <2>1 DEF RequestsFor
  <2>3. \A v \in Views, n \in Markets : ~Holds(v, n)'
    BY <2>1 DEF Holds
  <2> QED
    BY <1>0, <1>a, <1>b, <2>1, <2>2, <2>3
<1>16. CASE UNCHANGED vars
  <2>1. UNCHANGED <<market, view, poll, requests>>
    BY <1>16 DEF vars
  <2>2. \A n : RequestsFor(n)' = RequestsFor(n) /\ Pollable(n)' = Pollable(n)
    BY <2>1 DEF RequestsFor, Pollable
  <2>3. \A i, x : IsAnswer(i, x)' = IsAnswer(i, x)
    BY <2>1 DEF IsAnswer, Counted
  <2>4. Polled'
    BY <1>0, <1>a, <2>1, <2>2, <2>3
  <2> QED
    BY <1>10, <2>1, <2>2, <2>4
<1> QED
  BY <1>2, <1>4, <1>6, <1>7, <1>8, <1>9, <1>11, <1>12, <1>13, <1>14, <1>15, <1>16
     DEF Next, Enqueue

\* Only the run that holds a market without a request pays for it.
LEMMA PaidStep == IInv /\ [Next]_vars => PaidOnce'
<1> SUFFICES ASSUME IInv, [Next]_vars PROVE PaidOnce'
  OBVIOUS
<1>0. TypeOK /\ ClaimInvariant /\ PaidOnce
  BY DEF IInv
<1>1. ASSUME NEW v \in Views, Submit(v) PROVE PaidOnce'
  <2>0. PICK m \in Markets : m = view[v].market
    BY <1>0, <1>1, SubmitEffect
  <2>1. RequestsFor(m) = {}
    BY <1>0, <1>1, <2>0 DEF Submit, At, ClaimInvariant, Holds, ViewSteps
  <2>2. \A n \in Markets :
          RequestsFor(n)' = IF n = m THEN RequestsFor(n) \cup {Len(requests) + 1} ELSE RequestsFor(n)
    BY <1>0, <1>1, <2>0, SubmitEffect
  <2> QED
    BY <1>0, <2>1, <2>2 DEF PaidOnce
<1>2. CASE Platform
  BY <1>0, <1>2, PlatformEffect DEF PaidOnce
<1>3. CASE UNCHANGED requests
  <2>1. \A m : RequestsFor(m)' = RequestsFor(m)
    BY <1>3 DEF RequestsFor
  <2> QED
    BY <1>0, <2>1 DEF PaidOnce
<1>4. ASSUME NEW v \in Views, Enqueue(v) PROVE PaidOnce'
  BY <1>1, <1>3, <1>4
     DEF Enqueue, ViewMarket, Claim, ReadClaimed, ReadReceipt, RecordId, MarkFailed,
         TryFails, EnqueueFails
<1> QED
  BY <1>2, <1>3, <1>4
     DEF Next, PollBegin, PollRead, PollWrite, PollSkip, PollEnd, Crash, vars

\* What a step does to the row of a market: nothing, or one of the four steps of
\* its life.  Only PollWrite makes it READY.
LEMMA RowStep ==
  ASSUME IInv, [Next]_vars, NEW m \in Markets
  PROVE  \/ market'[m] = market[m]
         \/ market[m].status = "IDLE" /\ market'[m].status = "PENDING"
         \/ market[m].status = "PENDING" /\ market'[m].status \in {"PENDING", "FAILED"}
         \/ /\ PollWrite /\ poll.market = m
            /\ market[m].status = "PENDING" /\ market'[m].status = "READY"
<1>0. /\ TypeOK /\ ClaimInvariant
      /\ market \in [Markets -> MarketRows] /\ market[m] \in MarketRows
  BY DEF IInv, TypeOK
<1>1. CASE UNCHANGED market
  BY <1>1
<1> DEFINE
      Goal ==
        \/ market'[m] = market[m]
        \/ market[m].status = "IDLE" /\ market'[m].status = "PENDING"
        \/ market[m].status = "PENDING" /\ market'[m].status \in {"PENDING", "FAILED"}
        \/ /\ PollWrite /\ poll.market = m
           /\ market[m].status = "PENDING" /\ market'[m].status = "READY"
<1>2. ASSUME NEW v \in Views, Claim(v) PROVE Goal
  BY <1>0, <1>2 DEF Claim, Claimable, MarketRows
<1>3. ASSUME NEW v \in Views, RecordId(v) \/ MarkFailed(v) PROVE Goal
  <2>1. CASE m # view[v].market
    BY <1>0, <1>3, <2>1 DEF RecordId, MarkFailed
  <2>2. CASE m = view[v].market
    <3>1. market[m].status = "PENDING"
      BY <1>0, <1>3, <2>2 DEF RecordId, MarkFailed, At, ClaimInvariant, Holds, ViewSteps
    <3>2. market'[m].status \in {"PENDING", "FAILED"}
      BY <1>0, <1>3, <2>2, <3>1 DEF RecordId, MarkFailed, MarketRows
    <3> QED
      BY <3>1, <3>2
  <2> QED
    BY <2>1, <2>2
<1>4. CASE PollWrite
  <2>1. CASE m # poll.market
    BY <1>0, <1>4, <2>1 DEF PollWrite
  <2>2. CASE m = poll.market
    <3>1. market[m].status = "PENDING"
      BY <1>0, <1>4, <2>2 DEF PollWrite, ClaimInvariant, Pollable
    <3>2. market'[m].status = "READY"
      BY <1>0, <1>4, <2>2 DEF PollWrite, MarketRows
    <3> QED
      BY <1>4, <2>2, <3>1, <3>2
  <2> QED
    BY <2>1, <2>2
<1>5. CASE Platform
  BY <1>0, <1>1, <1>5, PlatformEffect
<1>6. ASSUME NEW v \in Views, Enqueue(v) PROVE Goal
  BY <1>1, <1>2, <1>3, <1>6
     DEF Enqueue, ViewMarket, ReadClaimed, Submit, ReadReceipt, TryFails, EnqueueFails
<1> QED
  BY <1>1, <1>4, <1>5, <1>6
     DEF Next, PollBegin, PollRead, PollSkip, PollEnd, Crash, vars

\* Answers stay, and the market a request belongs to.
LEMMA RequestsStay ==
  ASSUME IInv, [Next]_vars
  PROVE  /\ \A m \in Markets : RequestsFor(m) \subseteq RequestsFor(m)'
         /\ \A j \in DOMAIN requests, y \in Answers : IsAnswer(j, y) => IsAnswer(j, y)'
<1>0. TypeOK
  BY DEF IInv
<1>1. CASE UNCHANGED requests
  BY <1>1 DEF RequestsFor, IsAnswer, Counted
<1>2. CASE Platform
  BY <1>0, <1>2, PlatformEffect
<1>3. ASSUME NEW v \in Views, Submit(v)
      PROVE  /\ \A m \in Markets : RequestsFor(m) \subseteq RequestsFor(m)'
             /\ \A j \in DOMAIN requests, y \in Answers : IsAnswer(j, y) => IsAnswer(j, y)'
  BY <1>0, <1>3, SubmitEffect
<1>4. CASE \E v \in Views : Enqueue(v)
  BY <1>1, <1>3, <1>4
     DEF Enqueue, ViewMarket, Claim, ReadClaimed, ReadReceipt, RecordId, MarkFailed,
         TryFails, EnqueueFails
<1> QED
  BY <1>1, <1>2, <1>4
     DEF Next, PollBegin, PollRead, PollWrite, PollSkip, PollEnd, Crash, vars

LEMMA AnsweredStep == IInv /\ [Next]_vars => EstimateIsAnswered'
<1> SUFFICES ASSUME IInv, [Next]_vars, NEW m \in Markets, market'[m].status = "READY"
             PROVE  /\ market'[m].id \in RequestsFor(m)'
                    /\ \E x \in Answers :
                         market'[m].probability = Clamp(x) /\ IsAnswer(market[m].id, x)'
  BY DEF EstimateIsAnswered
<1>0. /\ TypeOK /\ ClaimInvariant /\ EstimateIsAnswered
      /\ market \in [Markets -> MarketRows]
      /\ \A n \in Markets : RequestsFor(n) \subseteq RequestsFor(n)'
      /\ \A j \in DOMAIN requests, y \in Answers : IsAnswer(j, y) => IsAnswer(j, y)'
      /\ RequestsFor(m) \subseteq DOMAIN requests
  BY RequestsStay DEF IInv, TypeOK, RequestsFor
<1>1. ASSUME NEW x \in Answers, IsAnswer(market[m].id, x), market[m].id \in RequestsFor(m),
             market'[m].id = market[m].id
      PROVE  market'[m].id \in RequestsFor(m)' /\ IsAnswer(market[m].id, x)'
  <2>1. \A j \in DOMAIN requests : IsAnswer(j, x) => IsAnswer(j, x)'
    BY <1>0
  <2> QED
    BY <1>0, <1>1, <2>1 DEF IsAnswer, Counted
<1>2. CASE market'[m] = market[m]
  <2>1. PICK x \in Answers : market[m].probability = Clamp(x) /\ IsAnswer(market[m].id, x)
    BY <1>0, <1>2 DEF EstimateIsAnswered
  <2>2. market[m].id \in RequestsFor(m)
    BY <1>0, <1>2 DEF EstimateIsAnswered
  <2> QED
    BY <1>1, <1>2, <2>1, <2>2
<1>3. CASE PollWrite /\ poll.market = m
  <2> DEFINE x == poll.value
  <2>1. x \in Answers /\ IsAnswer(market[m].id, x) /\ market[m].id \in RequestsFor(m)
    BY <1>0, <1>3 DEF TypeOK, PollWrite, ClaimInvariant, Pollable
  <2>2. market'[m].id = market[m].id /\ market'[m].probability = Clamp(x)
    BY <1>0, <1>3 DEF PollWrite, MarketRows
  <2> HIDE DEF x
  <2> QED
    BY <1>1, <2>1, <2>2
<1> QED
  BY <1>2, <1>3, RowStep

LEMMA InvariantStep == IInv /\ [Next]_vars => IInv'
BY TypeStep, ClaimStep, PaidStep, AnsweredStep DEF IInv

LEMMA InvariantCorrect == Spec => []IInv
BY InitCorrect, InvariantStep, PTL DEF Spec

----------------------------------------------------------------------------
\* What it proves

\* Every variable keeps its type: an estimate shown is a percentage.
THEOREM AgentsTypeCorrect == Spec => []TypeOK
<1>1. IInv => TypeOK
  BY DEF IInv
<1> QED
  BY <1>1, InvariantCorrect, PTL

\* However many views race, and whatever fails or crashes, a market is paid for
\* once at most.
THEOREM PaidOnceCorrect == Spec => []PaidOnce
<1>1. IInv => PaidOnce
  BY DEF IInv
<1> QED
  BY <1>1, InvariantCorrect, PTL

\* A market shows an estimate that agents made for that very market.
THEOREM EstimateCorrect == Spec => []EstimateIsAnswered
<1>1. IInv => EstimateIsAnswered
  BY DEF IInv
<1> QED
  BY <1>1, InvariantCorrect, PTL

\* Every step moves a market along IDLE, PENDING, READY or FAILED.
THEOREM LifeCycleCorrect == Spec => EstimateLifeCycle
<1> DEFINE Moves ==
      \A m \in Markets :
        \/ market'[m] = market[m]
        \/ market[m].status = "PENDING" /\ market'[m].status = "PENDING"
        \/ market[m].status = "IDLE" /\ market'[m].status = "PENDING"
        \/ market[m].status = "PENDING" /\ market'[m].status \in {"READY", "FAILED"}
<1>1. IInv /\ [Next]_vars => Moves
  <2> SUFFICES ASSUME IInv, [Next]_vars PROVE Moves
    OBVIOUS
  <2>1. \A n \in Markets :
          \/ market'[n] = market[n]
          \/ market[n].status = "IDLE" /\ market'[n].status = "PENDING"
          \/ market[n].status = "PENDING" /\ market'[n].status \in {"PENDING", "FAILED", "READY"}
    BY RowStep
  <2> QED
    BY <2>1
<1> QED
  BY <1>1, InvariantCorrect, PTL DEF Spec, EstimateLifeCycle
=============================================================================
