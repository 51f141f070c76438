------------------------------- MODULE Agents -------------------------------
(***************************************************************************)
(* The AI estimate of a market.  The first view of a market asks the       *)
(* Somnia agents platform for one, and pays: enqueueForMarket claims the   *)
(* market by a compare-and-set, sends createRequest, waits for its receipt *)
(* and stores the request id.  The worker's pollPending reads what the     *)
(* agents answered.  Views run concurrently, every call may fail, and the  *)
(* process may be restarted at any point.                                  *)
(***************************************************************************)
EXTENDS Integers, Sequences, FiniteSets

CONSTANTS
  Markets,       \* Market rows
  Views,         \* concurrent runs of enqueueForMarket
  Members,       \* SUBCOMMITTEE: the agents that answer a request
  Answers,       \* the integers an agent may answer with
  None           \* NULL

ASSUME AgentsAssumption ==
  /\ IsFiniteSet(Members)
  /\ Answers \subseteq Int
  /\ None \notin Markets
  /\ None \notin Int

VARIABLES
  market,     \* Market rows: aiStatus, aiRequestId, aiProbability
  view,       \* where each run of enqueueForMarket stands
  poll,       \* pollPending in progress: the rows it read, and the value at hand
  requests    \* the platform: every createRequest the protocol wallet sent, in order

vars == <<market, view, poll, requests>>

AiStatus == {"IDLE", "PENDING", "READY", "FAILED"}

\* A request id is the position of its createRequest.
Ids == Nat \ {0}

MarketRows == [status : AiStatus, id : Ids \cup {None}, probability : (0..100) \cup {None}]

ViewSteps == {"idle", "claim", "claimed", "submit", "receipt", "record", "failing"}

ViewState == [pc : ViewSteps, market : Markets \cup {None}, tx : Ids \cup {None}]

\* status: "sent" and "reverted" of the transaction; then ResponseStatus.
RequestStatus == {"sent", "reverted", "Pending", "Success", "Failed", "TimedOut"}

\* report: the answer in an agent's successful receipt, if there is one;
\* first: the answer that came first, the platform's responses[0].
RequestRows == [market : Markets, status : RequestStatus,
                report : [Members -> Answers \cup {None}], first : Answers \cup {None}]

ViewIdle == [pc |-> "idle", market |-> None, tx |-> None]
PollIdle == [pc |-> "idle", todo |-> {}, market |-> None, value |-> None]

Init ==
  /\ market = [m \in Markets |-> [status |-> "IDLE", id |-> None, probability |-> None]]
  /\ view = [v \in Views |-> ViewIdle]
  /\ poll = PollIdle
  /\ requests = <<>>

----------------------------------------------------------------------------
\* AgentsService.enqueueForMarket

At(v, pc) == view[v].pc = pc

Goes(v, pc) == view' = [view EXCEPT ![v].pc = pc]

Stops(v) == view' = [view EXCEPT ![v] = ViewIdle]

\* MarketsService.getState read an IDLE row; nobody awaits what it starts.
ViewMarket(v, m) ==
  /\ At(v, "idle")
  /\ market[m].status = "IDLE"
  /\ view' = [view EXCEPT ![v] = [pc |-> "claim", market |-> m, tx |-> None]]
  /\ UNCHANGED <<market, poll, requests>>

\* A plausible slip: the row that was read is claimed, not the row as it is.
Claimable_AsRead(m) == market[m].status \in {"IDLE", "PENDING"}

Claimable(m) == market[m].status = "IDLE"

\* updateMany({id, aiStatus: IDLE} -> PENDING); count === 0: return.
Claim(v) ==
  LET m == view[v].market IN
  /\ At(v, "claim")
  /\ \/ /\ Claimable(m)
        /\ market' = [market EXCEPT ![m].status = "PENDING"]
        /\ Goes(v, "claimed")
     \/ /\ ~Claimable(m)
        /\ Stops(v)
        /\ UNCHANGED market
  /\ UNCHANGED <<poll, requests>>

\* findUnique, before the try.
ReadClaimed(v) ==
  /\ At(v, "claimed")
  /\ Goes(v, "submit")
  /\ UNCHANGED <<market, poll, requests>>

\* submitInferNumber: the deposit is paid with the transaction.
Submit(v) ==
  /\ At(v, "submit")
  /\ requests' = Append(requests, [market |-> view[v].market, status |-> "sent",
                                   report |-> [a \in Members |-> None], first |-> None])
  /\ view' = [view EXCEPT ![v].pc = "receipt", ![v].tx = Len(requests) + 1]
  /\ UNCHANGED <<market, poll>>

\* The receipt has a RequestCreated event.
Created(v) == requests[view[v].tx].status \notin {"sent", "reverted"}

ReadReceipt(v) ==
  /\ At(v, "receipt")
  /\ \/ Created(v) /\ Goes(v, "record")
     \/ ~Created(v) /\ requests[view[v].tx].status = "reverted" /\ Goes(v, "failing")
  /\ UNCHANGED <<market, poll, requests>>

RecordId(v) ==
  /\ At(v, "record")
  /\ market' = [market EXCEPT ![view[v].market].id = view[v].tx]
  /\ Stops(v)
  /\ UNCHANGED <<poll, requests>>

\* The catch of the try.
MarkFailed(v) ==
  /\ At(v, "failing")
  /\ market' = [market EXCEPT ![view[v].market].status = "FAILED"]
  /\ Stops(v)
  /\ UNCHANGED <<poll, requests>>

\* A call inside the try fails: an RPC, the wait for the receipt, the database.
TryFails(v) ==
  /\ view[v].pc \in {"submit", "receipt", "record"}
  /\ Goes(v, "failing")
  /\ UNCHANGED <<market, poll, requests>>

\* The database fails outside the try, or in the catch: logged, no more.
EnqueueFails(v) ==
  /\ view[v].pc \in {"claim", "claimed", "failing"}
  /\ Stops(v)
  /\ UNCHANGED <<market, poll, requests>>

----------------------------------------------------------------------------
\* The Somnia platform, external

SetRequest(i, request) ==
  /\ requests' = [requests EXCEPT ![i] = request]
  /\ UNCHANGED <<market, view, poll>>

MineRequest(i) ==
  /\ requests[i].status = "sent"
  /\ \E s \in {"Pending", "reverted"} : SetRequest(i, [requests[i] EXCEPT !.status = s])

Report(i, a, x) ==
  /\ requests[i].status = "Pending"
  /\ requests[i].report[a] = None
  /\ SetRequest(i, [requests[i] EXCEPT !.report[a] = x,
                      !.first = IF @ = None THEN x ELSE @])

Finalize(i) ==
  /\ requests[i].status = "Pending"
  /\ \E s \in {"Success", "Failed", "TimedOut"} :
       SetRequest(i, [requests[i] EXCEPT !.status = s])

----------------------------------------------------------------------------
\* AgentsService.pollPending

Counted(i, x) == Cardinality({a \in Members : requests[i].report[a] = x})

\* A plausible slip: all three must agree.
Majority_Unanimous(i) == {x \in Answers : Counted(i, x) >= 3}

\* readReceipts: what at least two agents answered, and none more often.
Majority(i) ==
  {x \in Answers : Counted(i, x) >= 2 /\ \A y \in Answers : Counted(i, y) <= Counted(i, x)}

\* readOnchainRequest: responses[0] of a request that succeeded, if there is
\* one.  A status that says it failed throws, is caught, and reads as nothing.
OnChain(i) == IF requests[i].status = "Success" THEN {requests[i].first} \ {None} ELSE {}

\* A plausible slip: one receipt is enough.
Readable_Any(i) == {x \in Answers : Counted(i, x) >= 1}

\* Either source may be out of reach, which reads as nothing.
Readable(i) == Majority(i) \cup OnChain(i)

\* A plausible slip: the upper bound is forgotten.
Clamp_Low(x) == IF x < 0 THEN 0 ELSE x

Clamp(x) == IF x < 0 THEN 0 ELSE IF x > 100 THEN 100 ELSE x

\* A plausible slip: the status is not looked at.
Pollable_Any(m) == market[m].id # None

\* findMany({PENDING, aiRequestId not null}).
Pollable(m) == market[m].status = "PENDING" /\ market[m].id # None

PollBegin ==
  /\ poll.pc = "idle"
  /\ poll' = [poll EXCEPT !.pc = "batch", !.todo = {m \in Markets : Pollable(m)}]
  /\ UNCHANGED <<market, view, requests>>

\* readResult of the next row has a value.
PollRead(m) ==
  /\ poll.pc = "batch"
  /\ m \in poll.todo
  /\ \E x \in Readable(market[m].id) :
       poll' = [pc |-> "write", todo |-> poll.todo \ {m}, market |-> m, value |-> x]
  /\ UNCHANGED <<market, view, requests>>

PollWrite ==
  /\ poll.pc = "write"
  /\ market' = [market EXCEPT ![poll.market].status = "READY",
                              ![poll.market].probability = Clamp(poll.value)]
  /\ poll' = [poll EXCEPT !.pc = "batch", !.market = None, !.value = None]
  /\ UNCHANGED <<view, requests>>

\* There is no value yet, or reading or writing fails: the next tick tries again.
PollSkip ==
  /\ poll.pc \in {"batch", "write"}
  /\ \/ poll.pc = "batch" /\ \E m \in poll.todo : poll' = [poll EXCEPT !.todo = @ \ {m}]
     \/ poll.pc = "write" /\ poll' = [poll EXCEPT !.pc = "batch", !.market = None, !.value = None]
  /\ UNCHANGED <<market, view, requests>>

PollEnd ==
  /\ poll.pc = "batch"
  /\ poll.todo = {}
  /\ poll' = PollIdle
  /\ UNCHANGED <<market, view, requests>>

----------------------------------------------------------------------------
\* The process dies, and starts again.
Crash ==
  /\ view' = [v \in Views |-> ViewIdle]
  /\ poll' = PollIdle
  /\ UNCHANGED <<market, requests>>

Enqueue(v) ==
  \/ \E m \in Markets : ViewMarket(v, m)
  \/ Claim(v)
  \/ ReadClaimed(v)
  \/ Submit(v)
  \/ ReadReceipt(v)
  \/ RecordId(v)
  \/ MarkFailed(v)
  \/ TryFails(v)
  \/ EnqueueFails(v)

Platform ==
  \E i \in DOMAIN requests :
    \/ MineRequest(i)
    \/ \E a \in Members, x \in Answers : Report(i, a, x)
    \/ Finalize(i)

Next ==
  \/ \E v \in Views : Enqueue(v)
  \/ Platform
  \/ PollBegin
  \/ \E m \in Markets : PollRead(m)
  \/ PollWrite
  \/ PollSkip
  \/ PollEnd
  \/ Crash

Spec == Init /\ [][Next]_vars

\* The cron polls on every tick, and what is tried on every tick does not fail
\* for ever.  Views, agents and the chain owe nothing.
Fairness ==
  /\ WF_vars(PollBegin)
  /\ WF_vars(PollEnd)
  /\ WF_vars(PollSkip)
  /\ \A m \in Markets : SF_vars(PollRead(m)) /\ SF_vars(poll.market = m /\ PollWrite)

FairSpec == Spec /\ Fairness

----------------------------------------------------------------------------
\* Properties

TypeOK ==
  /\ market \in [Markets -> MarketRows]
  /\ view \in [Views -> ViewState]
  /\ \A v \in Views :
       /\ ~At(v, "idle") => view[v].market # None
       /\ view[v].pc \in {"receipt", "record"} => view[v].tx \in DOMAIN requests
  /\ poll \in [pc : {"idle", "batch", "write"}, todo : SUBSET Markets,
               market : Markets \cup {None}, value : Answers \cup {None}]
  /\ poll.pc = "write" => poll.market # None /\ poll.value # None
  /\ requests \in Seq(RequestRows)

RequestsFor(m) == {i \in DOMAIN requests : requests[i].market = m}

\* FRONTEND_CONTEXT, "Cache is per market - no second call": however many views
\* race, and whatever fails or crashes, a market is paid for once at most.
PaidOnce == \A m \in Markets : \A i, j \in RequestsFor(m) : i = j

IsAnswer(i, x) ==
  \/ Counted(i, x) >= 2
  \/ requests[i].status = "Success" /\ requests[i].first = x

\* A market shows an estimate that agents made for that market: one that two of
\* them agree on, or the one the platform accepted, within 0..100.
EstimateIsAnswered ==
  \A m \in Markets : market[m].status = "READY" =>
    /\ market[m].id \in RequestsFor(m)
    /\ \E x \in Answers :
         market[m].probability = Clamp(x) /\ IsAnswer(market[m].id, x)

\* FRONTEND_CONTEXT, "IDLE -> PENDING -> READY | FAILED": a late failure never
\* overwrites an estimate, a market is never claimed again, and an estimate
\* once shown does not change.
EstimateLifeCycle ==
  [][\A m \in Markets :
       \/ market'[m] = market[m]
       \/ market[m].status = "PENDING" /\ market'[m].status = "PENDING"
       \/ market[m].status = "IDLE" /\ market'[m].status = "PENDING"
       \/ market[m].status = "PENDING" /\ market'[m].status \in {"READY", "FAILED"}]_vars

\* Once two agents of a recorded request agree, the market becomes READY,
\* whatever the platform makes of the request.
EveryAnswerArrives ==
  \A m \in Markets :
    (/\ market[m].status = "PENDING"
     /\ market[m].id # None
     /\ \E x \in Answers : Counted(market[m].id, x) >= 2) ~> (market[m].status = "READY")

----------------------------------------------------------------------------
\* Why PaidOnce and EstimateIsAnswered hold: a market without a claim was not
\* paid for, a claim belongs to one run, and only that run pays and fails.
Holds(v, m) == view[v].market = m /\ view[v].pc \in ViewSteps \ {"idle", "claim"}

ClaimInvariant ==
  /\ \A m \in Markets :
       /\ market[m].status = "IDLE" => RequestsFor(m) = {} /\ market[m].id = None
       /\ market[m].id # None => market[m].id \in RequestsFor(m)
  /\ \A v \in Views, m \in Markets : Holds(v, m) =>
       /\ market[m].status = "PENDING" /\ market[m].id = None
       /\ view[v].pc \in {"claimed", "submit"} => RequestsFor(m) = {}
       /\ view[v].pc \in {"receipt", "record"} => view[v].tx \in RequestsFor(m)
       /\ \A w \in Views : Holds(w, m) => w = v
  /\ \A m \in poll.todo : Pollable(m)
  /\ poll.pc = "write" =>
       /\ Pollable(poll.market) /\ poll.market \notin poll.todo
       /\ IsAnswer(market[poll.market].id, poll.value)
=============================================================================
