---------------------------- MODULE Panel_proofs ----------------------------
(***************************************************************************)
(* Theorems about Panel, for every number of flows, predictions, accounts  *)
(* and detours.                                                            *)
(***************************************************************************)
EXTENDS Panel, TLAPS

\* The rows of flow, tx and row, and the view.
FlowRows == [pc : FlowStep, prediction : Predictions \cup {None},
             from : Accounts \cup {None}, mounted : BOOLEAN]
TxRows == [approval : TxState, order : TxState]
RowRows == [status : {"free", "pending", "confirmed", "deleted"},
            owner : Accounts \cup {None}, txHash : Flows \cup {None}]
Views == [prepared : Predictions \cup {None}, step : {"", "approval", "order"},
          entering : Accounts \cup {None}, confirming : Flows \cup {None}, open : BOOLEAN]

\* The types of the variables that do not depend on each other.
Small ==
  /\ kind \in Kinds /\ detours \in 0 .. Detours
  /\ session \in Accounts \cup {None} /\ account \in Accounts
  /\ open \in BOOLEAN

Inv == TypeOK /\ PanelInvariant

LEMMA Types ==
  TypeOK <=>
    /\ Small
    /\ allowance \in [Accounts -> BOOLEAN]
    /\ view \in Views
    /\ flow \in [Flows -> FlowRows]
    /\ tx \in [Flows -> TxRows]
    /\ row \in [Predictions -> RowRows]
    /\ \A f \in Flows : flow[f].pc \in Waiting \cup {"confirm"} =>
         flow[f].prediction # None /\ flow[f].from # None
    /\ view.prepared # None => row[view.prepared].status # "free"
BY DEF TypeOK, Small, FlowRows, TxRows, RowRows, Views

----------------------------------------------------------------------------
\* What the steps do to one row.

\* A transaction of a flow gets on, and no other.
TxGets(f, which, s) == tx' = [tx EXCEPT ![f][which] = s]

LEMMA TxSet ==
  ASSUME tx \in [Flows -> TxRows], NEW f \in Flows, NEW which \in Which, NEW s \in TxState,
         TxGets(f, which, s)
  PROVE  /\ tx' \in [Flows -> TxRows]
         /\ tx'[f][which] = s
         /\ \A w \in Which \ {which} : tx'[f][w] = tx[f][w]
         /\ \A g \in Flows \ {f} : tx'[g] = tx[g]
<1>1. CASE which = "approval"
  BY <1>1 DEF TxRows, Which, TxGets
<1>2. CASE which = "order"
  BY <1>2 DEF TxRows, Which, TxGets
<1> QED
  BY <1>1, <1>2 DEF Which

\* A flow gets on, and no other.
LEMMA FlowGoes ==
  ASSUME flow \in [Flows -> FlowRows], NEW f \in Flows, NEW pc \in FlowStep, Goes(f, pc)
  PROVE  /\ flow' \in [Flows -> FlowRows]
         /\ flow'[f].pc = pc /\ flow'[f].prediction = flow[f].prediction
         /\ flow'[f].from = flow[f].from /\ flow'[f].mounted = flow[f].mounted
         /\ \A g \in Flows \ {f} : flow'[g] = flow[g]
BY DEF Goes, FlowRows

\* What a flow may show.
LEMMA Shown ==
  ASSUME TypeOK, NEW f \in Flows, NEW step \in {"", "approval", "order"}
  PROVE  /\ ShowsStep(f, step) \in Views
         /\ ShowsStep(f, step).prepared = view.prepared
         /\ ShowsStep(f, step).step = IF Mounted(f) THEN step ELSE view.step
<1>1. view \in Views
  BY Types
<1> QED
  BY <1>1 DEF Views, ShowsStep

\* The row that is inserted was free, those that are deleted were pending.
LEMMA InsertedRows ==
  ASSUME TypeOK, NEW p \in Predictions, NEW a \in Accounts, row[p].status = "free",
         row' = Inserted(p, a)
  PROVE  /\ row' \in [Predictions -> RowRows]
         /\ row'[p].status = "pending" /\ row'[p].txHash = None
         /\ \A q \in Predictions \ {p} :
              /\ row'[q].txHash = row[q].txHash /\ row'[q].owner = row[q].owner
              /\ \/ row'[q].status = row[q].status
                 \/ row[q].status = "pending" /\ row'[q].status = "deleted"
<1>1. row \in [Predictions -> RowRows]
  BY Types
<1> QED
  BY <1>1 DEF Inserted, RowRows

----------------------------------------------------------------------------
\* The invariant, flow by flow.

FlowOK(f) ==
  /\ flow[f].pc \notin {"idle", "ended"} => flow[f].prediction # None
  /\ flow[f].pc \notin {"idle", "connect", "ended"} => flow[f].from # None
  /\ tx[f].approval # "none" =>
       flow[f].from # None /\ flow[f].pc \notin {"idle", "connect", "allowance"}
  /\ tx[f].order # "none" =>
       flow[f].from # None /\ flow[f].pc \in {"order", "orderReceipt", "confirm", "ended"}
  /\ tx[f].approval = "success" => allowance[flow[f].from]
  /\ flow[f].pc = "confirm" => tx[f].order = "success"

LEMMA ByFlow ==
  PanelInvariant <=> HashesAreConfirmed /\ \A f \in Flows : FlowOK(f)
BY DEF PanelInvariant, FlowsKnow, AskedByFlows, ApprovalsLast, MinedBeforeConfirm, FlowOK

\* A flow, its transactions and the panel move; the rows stay, and so do the
\* other flows.
LEMMA FlowMoves ==
  ASSUME Inv, Small', view' \in Views, view'.prepared = view.prepared, row' = row,
         allowance' \in [Accounts -> BOOLEAN],
         \A a \in Accounts : allowance[a] => allowance'[a],
         flow' \in [Flows -> FlowRows], tx' \in [Flows -> TxRows],
         NEW f \in Flows, \A g \in Flows \ {f} : flow'[g] = flow[g] /\ tx'[g] = tx[g],
         flow[f].pc = "ended" => flow'[f].pc = "ended",
         FlowOK(f)'
  PROVE  Inv'
<1>1. ASSUME NEW g \in Flows PROVE FlowOK(g)'
  <2>1. CASE g = f
    BY <2>1
  <2>2. CASE g # f
    <3>1. flow'[g] = flow[g] /\ tx'[g] = tx[g] /\ FlowOK(g)
      BY <2>2, ByFlow DEF Inv
    <3>2. flow[g] \in FlowRows
      BY Types DEF Inv
    <3> QED
      BY <3>1, <3>2 DEF FlowOK, FlowRows
  <2> QED
    BY <2>1, <2>2
<1>2. \A g \in Flows : flow[g].pc = "ended" => flow'[g].pc = "ended"
  OBVIOUS
<1>3. HashesAreConfirmed'
  <2>1. row \in [Predictions -> RowRows] /\ HashesAreConfirmed
    BY Types DEF Inv, PanelInvariant
  <2> QED
    BY <1>2, <2>1 DEF HashesAreConfirmed, RowRows
<1>4. TypeOK'
  <2>1. \A g \in Flows : flow'[g].pc \in Waiting \cup {"confirm"} =>
          flow'[g].prediction # None /\ flow'[g].from # None
    BY <1>1 DEF FlowOK, Waiting
  <2>2. view'.prepared # None => row'[view'.prepared].status # "free"
    BY Types DEF Inv
  <2> QED
    BY <2>1, <2>2 DEF Inv, TypeOK, Small, Views, FlowRows, TxRows, RowRows
<1> QED
  BY <1>1, <1>3, <1>4 DEF Inv, PanelInvariant, FlowsKnow, AskedByFlows, ApprovalsLast,
     MinedBeforeConfirm, FlowOK

\* The flows and their transactions stay; rows that are confirmed stay so.
LEMMA FlowsStay ==
  ASSUME Inv, UNCHANGED <<flow, tx, allowance>>, Small', view' \in Views,
         row' \in [Predictions -> RowRows],
         view'.prepared # None => row'[view'.prepared].status # "free",
         HashesAreConfirmed'
  PROVE  Inv'
<1>1. \A f \in Flows : FlowOK(f)'
  BY ByFlow DEF Inv, FlowOK
<1>2. TypeOK'
  BY Types DEF Inv, TypeOK, Small, Views, FlowRows, TxRows, RowRows
<1> QED
  BY <1>1, <1>2 DEF Inv, PanelInvariant, FlowsKnow, AskedByFlows, ApprovalsLast,
     MinedBeforeConfirm, FlowOK

\* Only the panel, the world or the battle changes.
LEMMA RowsStay ==
  ASSUME Inv, UNCHANGED <<flow, tx, allowance, row>>, Small', view' \in Views,
         view'.prepared \in {view.prepared, None}
  PROVE  Inv'
<1>1. view'.prepared # None => row'[view'.prepared].status # "free"
  BY Types DEF Inv
<1>2. HashesAreConfirmed'
  BY DEF Inv, PanelInvariant, HashesAreConfirmed
<1> QED
  BY <1>1, <1>2, FlowsStay, Types DEF Inv

\* A row is inserted.
LEMMA RowInserted ==
  ASSUME Inv, NEW p \in Predictions, NEW a \in Accounts, row[p].status = "free",
         row' = Inserted(p, a), UNCHANGED <<flow, tx, allowance>>, Small', view' \in Views,
         view'.prepared \in {view.prepared, p, None}
  PROVE  Inv'
<1>1. TypeOK /\ HashesAreConfirmed
  BY DEF Inv, PanelInvariant
<1>2. /\ row' \in [Predictions -> RowRows]
      /\ row'[p].status = "pending" /\ row'[p].txHash = None
      /\ \A q \in Predictions \ {p} :
           /\ row'[q].txHash = row[q].txHash /\ row'[q].owner = row[q].owner
           /\ \/ row'[q].status = row[q].status
              \/ row[q].status = "pending" /\ row'[q].status = "deleted"
  BY <1>1, InsertedRows
<1>3. HashesAreConfirmed'
  BY <1>1, <1>2 DEF HashesAreConfirmed
<1>4. view.prepared # None => row[view.prepared].status # "free"
  BY <1>1, Types
<1>5. view.prepared \in Predictions \cup {None}
  BY <1>1, Types DEF Views
<1>6. view'.prepared # None => row'[view'.prepared].status # "free"
  BY <1>2, <1>4, <1>5
<1> QED
  BY <1>2, <1>3, <1>6, FlowsStay

----------------------------------------------------------------------------
\* The steps of Next.

LEMMA Counted ==
  ASSUME detours \in 0 .. Detours, Detour
  PROVE  detours' \in 0 .. Detours
BY DetoursAssumption DEF Detour

LEMMA PrepareStep ==
  ASSUME Inv,
         \/ Submit \/ PrepareFails
         \/ \E p \in Predictions : Prepared(p, TRUE) \/ Prepared(p, FALSE) \/ PreparedElsewhere(p)
  PROVE  Inv'
<1>1. TypeOK /\ Small /\ view \in Views
  BY Types DEF Inv
<1>2. ASSUME Submit \/ PrepareFails PROVE Inv'
  <2>1. UNCHANGED <<flow, tx, allowance, row>> /\ Small'
    BY <1>1, <1>2 DEF Submit, PrepareFails, Small, world
  <2>2. view' \in Views /\ view'.prepared = view.prepared
    BY <1>1, <1>2 DEF Submit, PrepareFails, Small, Views
  <2> QED
    BY <2>1, <2>2, RowsStay
<1>3. ASSUME NEW p \in Predictions, NEW lost \in BOOLEAN, Prepared(p, lost) PROVE Inv'
  <2>1. UNCHANGED <<flow, tx, allowance>> /\ Small'
    BY <1>1, <1>3 DEF Prepared, Small, world
  <2>2. view' \in Views /\ view'.prepared \in {view.prepared, p, None}
    BY <1>1, <1>3 DEF Prepared, Views
  <2>3. view.entering \in Accounts /\ row[p].status = "free" /\ row' = Inserted(p, view.entering)
    BY <1>1, <1>3 DEF Prepared, Views
  <2> QED
    BY <2>1, <2>2, <2>3, RowInserted
<1>4. ASSUME NEW p \in Predictions, PreparedElsewhere(p) PROVE Inv'
  <2>1. UNCHANGED <<flow, tx, allowance, view>> /\ Small'
    BY <1>1, <1>4, DetoursAssumption DEF PreparedElsewhere, Detour, Small, world
  <2>2. session \in Accounts /\ row[p].status = "free" /\ row' = Inserted(p, session)
    BY <1>1, <1>4 DEF PreparedElsewhere, Small
  <2> QED
    BY <1>1, <2>1, <2>2, RowInserted
<1> QED
  BY <1>2, <1>3, <1>4

LEMMA UserStep ==
  ASSUME Inv, CancelWait \/ SwitchAccount \/ SessionChanges \/ Closes \/ Refetch
  PROVE  Inv'
<1>1. TypeOK /\ Small /\ view \in Views
  BY Types DEF Inv
<1>2. UNCHANGED <<flow, tx, allowance, row>>
  BY DEF CancelWait, SwitchAccount, SessionChanges, Closes, Refetch, world
<1>3. Small'
  <2>1. detours' \in 0 .. Detours
    BY <1>1, Counted DEF CancelWait, SwitchAccount, SessionChanges, Closes, Refetch, Small
  <2> QED
    BY <1>1, <2>1 DEF CancelWait, SwitchAccount, SessionChanges, Closes, Refetch, Small, world
<1>4. view' \in Views /\ view'.prepared = view.prepared
  BY <1>1 DEF CancelWait, SwitchAccount, SessionChanges, Closes, Refetch, Small, Views
<1> QED
  BY <1>2, <1>3, <1>4, RowsStay

\* All flows go on unseen, or are gone.
LEMMA LeaveStep ==
  ASSUME Inv, Leave \/ Reload
  PROVE  Inv'
<1>1. TypeOK /\ Small /\ view \in Views /\ flow \in [Flows -> FlowRows]
      /\ tx \in [Flows -> TxRows] /\ row \in [Predictions -> RowRows]
  BY Types DEF Inv
<1>2. UNCHANGED <<tx, allowance, row>>
  BY DEF Leave, Reload, world
<1>3. Small' /\ view' \in Views /\ view'.prepared = None
  <2>1. detours' \in 0 .. Detours
    BY <1>1, Counted DEF Leave, Reload, Small
  <2>2. Small'
    BY <1>1, <2>1 DEF Leave, Reload, Small, world
  <2>3. view' = [EmptyView EXCEPT !.open = open]
    BY DEF Leave, Reload
  <2> QED
    BY <1>1, <2>2, <2>3 DEF Small, Views, EmptyView
<1>4. flow' \in [Flows -> FlowRows]
  <2>1. CASE Leave
    BY <1>1, <2>1 DEF Leave, FlowRows
  <2>2. CASE Reload
    <3>1. ASSUME NEW f \in Flows
          PROVE  [flow[f] EXCEPT !.pc = "ended", !.mounted = FALSE] \in FlowRows
      BY <1>1 DEF FlowRows, FlowStep
    <3> QED
      BY <1>1, <2>2, <3>1 DEF Reload
  <2> QED
    BY <2>1, <2>2
<1>5. ASSUME NEW f \in Flows
      PROVE  /\ flow'[f].pc \in {flow[f].pc, "ended"} /\ flow'[f].from = flow[f].from
             /\ flow'[f].prediction = flow[f].prediction
             /\ flow[f].pc = "idle" => flow'[f].pc = "idle"
  <2>1. CASE Leave
    BY <1>1, <2>1 DEF Leave, FlowRows
  <2>2. CASE Reload
    BY <1>1, <2>2 DEF Reload, FlowRows
  <2> QED
    BY <2>1, <2>2
<1>6. ASSUME NEW f \in Flows PROVE FlowOK(f)'
  BY <1>2, <1>5, ByFlow DEF Inv, FlowOK
<1>7. HashesAreConfirmed'
  BY <1>1, <1>2, <1>5 DEF Inv, PanelInvariant, HashesAreConfirmed, RowRows
<1>8. TypeOK'
  <2>1. \A f \in Flows : flow'[f].pc \in Waiting \cup {"confirm"} =>
          flow'[f].prediction # None /\ flow'[f].from # None
    BY <1>6 DEF FlowOK, Waiting
  <2> QED
    BY <1>1, <1>2, <1>3, <1>4, <2>1 DEF Inv, TypeOK, Small, Views, FlowRows, TxRows, RowRows
<1> QED
  BY <1>6, <1>7, <1>8 DEF Inv, PanelInvariant, FlowsKnow, AskedByFlows, ApprovalsLast,
     MinedBeforeConfirm, FlowOK

\* A flow asks the wallet, of the order only with an allowance.
LEMMA AskStep ==
  ASSUME Inv, NEW f \in Flows, NEW which \in Which, Ask(f, which),
         IF which = "approval" THEN flow[f].pc = "allowance"
         ELSE flow[f].pc \in {"allowance", "approvalReceipt"}
  PROVE  Inv'
<1>1. TypeOK /\ Small /\ view \in Views /\ flow \in [Flows -> FlowRows]
      /\ tx \in [Flows -> TxRows] /\ FlowOK(f) /\ allowance \in [Accounts -> BOOLEAN]
  BY Types, ByFlow DEF Inv
<1>2. UNCHANGED <<row, allowance>> /\ Small'
  BY <1>1 DEF Ask, Small, world
<1>3. view' \in Views /\ view'.prepared = view.prepared
  BY <1>1, Shown DEF Ask, Which
<1>4. /\ flow' \in [Flows -> FlowRows]
      /\ flow'[f].pc = which /\ flow'[f].prediction = flow[f].prediction
      /\ flow'[f].from = flow[f].from
      /\ \A g \in Flows \ {f} : flow'[g] = flow[g]
  BY <1>1, FlowGoes DEF Ask, Which, FlowStep, Waiting
<1>5. /\ tx' \in [Flows -> TxRows] /\ tx'[f][which] = "prompt"
      /\ \A w \in Which \ {which} : tx'[f][w] = tx[f][w]
      /\ \A g \in Flows \ {f} : tx'[g] = tx[g]
  BY <1>1, TxSet DEF Ask, TxState, TxGets
<1>6. FlowOK(f)'
  <2>1. CASE which = "approval"
    BY <1>1, <1>2, <1>4, <1>5, <2>1 DEF FlowOK, Which
  <2>2. CASE which = "order"
    BY <1>1, <1>2, <1>4, <1>5, <2>2 DEF FlowOK, Which
  <2> QED
    BY <2>1, <2>2 DEF Which
<1> QED
  BY <1>1, <1>2, <1>3, <1>4, <1>5, <1>6, FlowMoves

\* A flow gets on by itself, the panel showing what it will.
LEMMA GoesStep ==
  ASSUME Inv, NEW f \in Flows, NEW pc \in FlowStep, Goes(f, pc),
         UNCHANGED <<kind, world, open, detours, tx, row, allowance>>,
         view' \in Views, view'.prepared = view.prepared,
         flow[f].pc \notin {"idle", "ended"},
         \/ pc = "ended"
         \/ /\ flow[f].pc \in Waiting /\ pc \in Waiting \cup {"confirm"}
            /\ tx[f].order # "none" => pc \in {"order", "orderReceipt", "confirm"}
            /\ pc = "confirm" => tx[f].order = "success"
  PROVE  Inv'
<1>1. TypeOK /\ Small /\ flow \in [Flows -> FlowRows]
      /\ tx \in [Flows -> TxRows] /\ FlowOK(f) /\ allowance \in [Accounts -> BOOLEAN]
  BY Types, ByFlow DEF Inv
<1>2. Small'
  BY <1>1 DEF Small, world
<1>3. /\ flow' \in [Flows -> FlowRows]
      /\ flow'[f].pc = pc /\ flow'[f].prediction = flow[f].prediction
      /\ flow'[f].from = flow[f].from
      /\ \A g \in Flows \ {f} : flow'[g] = flow[g]
  BY <1>1, FlowGoes
<1>4. FlowOK(f)'
  BY <1>1, <1>3 DEF FlowOK, Waiting
<1> QED
  BY <1>1, <1>2, <1>3, <1>4, FlowMoves

LEMMA WaitStep ==
  ASSUME Inv, NEW f \in Flows,
         \/ HashArrives(f, "approval", "approvalReceipt")
         \/ HashArrives(f, "order", "orderReceipt")
         \/ Filled(f) \/ Fails(f) \/ ConfirmFails(f)
  PROVE  Inv'
<1>1. TypeOK /\ view \in Views /\ FlowOK(f)
  BY Types, ByFlow DEF Inv
<1>2. CASE HashArrives(f, "approval", "approvalReceipt")
  BY <1>1, <1>2, GoesStep DEF HashArrives, FlowStep, Waiting, FlowOK
<1>3. CASE HashArrives(f, "order", "orderReceipt")
  BY <1>1, <1>3, GoesStep DEF HashArrives, FlowStep, Waiting, FlowOK
<1>4. CASE Filled(f)
  <2>1. view' \in Views /\ view'.prepared = view.prepared
    BY <1>1, <1>4 DEF Filled, Views
  <2> QED
    BY <1>1, <1>4, <2>1, GoesStep DEF Filled, FlowStep, Waiting
<1>5. CASE Fails(f) \/ ConfirmFails(f)
  <2>1. view' \in Views /\ view'.prepared = view.prepared
    BY <1>1, <1>5, Shown DEF Fails, ConfirmFails, Caught
  <2>2. flow[f].pc \notin {"idle", "ended"}
    BY <1>5 DEF Fails, ConfirmFails
  <2>3. Goes(f, "ended") /\ UNCHANGED <<kind, world, open, detours, tx, row, allowance>>
    BY <1>5 DEF Fails, ConfirmFails
  <2> QED
    BY <2>1, <2>2, <2>3, GoesStep DEF FlowStep
<1> QED
  BY <1>2, <1>3, <1>4, <1>5

\* The beginning of a flow.
LEMMA StartStep ==
  ASSUME Inv, NEW f \in Flows, Sign(f) \/ Connect(f)
  PROVE  Inv'
<1>1. TypeOK /\ Small /\ flow \in [Flows -> FlowRows] /\ view \in Views
      /\ tx \in [Flows -> TxRows] /\ FlowOK(f) /\ allowance \in [Accounts -> BOOLEAN]
  BY Types, ByFlow DEF Inv
<1>2. UNCHANGED <<allowance, view, tx, row>> /\ Small' /\ flow[f].pc \in {"idle", "connect"}
  BY <1>1 DEF Sign, Connect, Small, world
<1>3. /\ flow' \in [Flows -> FlowRows]
      /\ \A g \in Flows \ {f} : flow'[g] = flow[g]
  <2>1. CASE Sign(f)
    <3>1. [flow[f] EXCEPT !.pc = "connect", !.prediction = view.prepared, !.mounted = TRUE]
            \in FlowRows
      <4>1. view.prepared \in Predictions \cup {None} /\ flow[f] \in FlowRows
        BY <1>1 DEF Views
      <4> QED
        BY <4>1 DEF FlowRows, FlowStep
    <3>2. flow' = [flow EXCEPT ![f] = [flow[f] EXCEPT !.pc = "connect",
                     !.prediction = view.prepared, !.mounted = TRUE]]
      BY <1>1, <2>1 DEF Sign
    <3> QED
      BY <1>1, <3>1, <3>2
  <2>2. CASE Connect(f)
    <3>1. [flow[f] EXCEPT !.pc = "allowance", !.from = account] \in FlowRows
      BY <1>1 DEF FlowRows, FlowStep, Small
    <3>2. flow' = [flow EXCEPT ![f] = [flow[f] EXCEPT !.pc = "allowance", !.from = account]]
      BY <1>1, <2>2 DEF Connect
    <3> QED
      BY <1>1, <3>1, <3>2
  <2> QED
    BY <2>1, <2>2
<1>4. FlowOK(f)'
  <2>1. CASE Sign(f)
    <3>1. flow'[f].pc = "connect" /\ flow'[f].prediction # None
      BY <1>1, <2>1 DEF Sign, FlowRows
    <3> QED
      BY <1>1, <1>2, <2>1, <3>1 DEF FlowOK
  <2>2. CASE Connect(f)
    <3>1. /\ flow[f].pc = "connect" /\ flow'[f].pc = "allowance"
          /\ flow'[f].from = account /\ flow'[f].prediction = flow[f].prediction
      BY <1>1, <2>2 DEF Connect, FlowRows
    <3>2. account # None
      BY <1>1, NoneAssumption DEF Small
    <3> QED
      BY <1>1, <1>2, <3>1, <3>2 DEF FlowOK
  <2> QED
    BY <2>1, <2>2
<1> QED
  BY <1>1, <1>2, <1>3, <1>4, FlowMoves

LEMMA AsksStep ==
  ASSUME Inv, NEW f \in Flows, Approved(f) \/ \E ok \in BOOLEAN : ReadAllowance(f, ok)
  PROVE  Inv'
<1>1. CASE Approved(f)
  BY <1>1, AskStep DEF Approved, AfterApproval, Which
<1>2. ASSUME NEW ok \in BOOLEAN, ReadAllowance(f, ok) PROVE Inv'
  <2>1. flow[f].pc = "allowance" /\ (Ask(f, "order") \/ Ask(f, "approval"))
    BY <1>2 DEF ReadAllowance
  <2> QED
    BY <2>1, AskStep DEF Which
<1> QED
  BY <1>1, <1>2

LEMMA ConfirmStep ==
  ASSUME Inv, NEW f \in Flows, NEW p \in Predictions, NEW lost \in BOOLEAN, Confirm(f, p, lost)
  PROVE  Inv'
<1>1. TypeOK /\ Small /\ flow \in [Flows -> FlowRows] /\ view \in Views
      /\ tx \in [Flows -> TxRows] /\ row \in [Predictions -> RowRows]
      /\ (\A g \in Flows : FlowOK(g)) /\ HashesAreConfirmed
      /\ (view.prepared # None => row[view.prepared].status # "free")
  BY Types, ByFlow DEF Inv
<1>2. UNCHANGED <<allowance, tx>> /\ Small' /\ flow[f].pc = "confirm"
  BY <1>1 DEF Confirm, Small, world
<1>3. /\ flow' \in [Flows -> FlowRows] /\ flow'[f].pc = "ended"
      /\ flow'[f].from = flow[f].from
      /\ \A g \in Flows \ {f} : flow'[g] = flow[g]
  BY <1>1, FlowGoes DEF Confirm, FlowStep
<1>4. /\ row' \in [Predictions -> RowRows]
      /\ row'[p].status = "confirmed" /\ row'[p].txHash = f
      /\ \A q \in Predictions \ {p} : row'[q] = row[q]
  BY <1>1 DEF Confirm, RowRows
<1>5. view' \in Views /\ view'.prepared \in {view.prepared, None}
  BY <1>1, Shown DEF Confirm, Caught, Views
<1>6. ASSUME NEW g \in Flows PROVE FlowOK(g)'
  <2>1. CASE g = f
    BY <1>1, <1>2, <1>3, <2>1 DEF FlowOK
  <2>2. CASE g # f
    BY <1>1, <1>2, <1>3, <2>2 DEF FlowOK
  <2> QED
    BY <2>1, <2>2
<1>7. HashesAreConfirmed'
  <2>1. f # None
    BY NoneAssumption
  <2> QED
    BY <1>1, <1>2, <1>3, <1>4, <2>1 DEF HashesAreConfirmed, RowRows
<1>8. TypeOK'
  <2>1. \A g \in Flows : flow'[g].pc \in Waiting \cup {"confirm"} =>
          flow'[g].prediction # None /\ flow'[g].from # None
    BY <1>6 DEF FlowOK, Waiting
  <2>2. view'.prepared # None => row'[view'.prepared].status # "free"
    <3>1. view.prepared \in Predictions \cup {None}
      BY <1>1 DEF Views
    <3>2. \A q \in Predictions : row[q].status # "free" => row'[q].status # "free"
      BY <1>4
    <3> QED
      BY <1>1, <1>5, <3>1, <3>2
  <2>3. allowance' \in [Accounts -> BOOLEAN]
    BY <1>1, <1>2, Types
  <2> QED
    BY <1>1, <1>2, <1>3, <1>4, <1>5, <2>1, <2>2, <2>3
       DEF TypeOK, Small, Views, FlowRows, TxRows, RowRows
<1> QED
  BY <1>6, <1>7, <1>8 DEF Inv, PanelInvariant, FlowsKnow, AskedByFlows, ApprovalsLast,
     MinedBeforeConfirm, FlowOK

\* A transaction is answered or mined, its flow being where it is.
LEMMA WalletStep ==
  ASSUME Inv, NEW f \in Flows, NEW which \in Which, NEW yes \in BOOLEAN,
         Answer(f, which, yes) \/ Mine(f, which, yes)
  PROVE  Inv'
<1>1. TypeOK /\ Small /\ flow \in [Flows -> FlowRows] /\ view \in Views
      /\ tx \in [Flows -> TxRows] /\ FlowOK(f) /\ allowance \in [Accounts -> BOOLEAN]
  BY Types, ByFlow DEF Inv
<1>2. UNCHANGED <<view, row, flow>> /\ Small'
  BY <1>1 DEF Answer, Mine, Small, world
<1>3. PICK s \in TxState \ {"none"} :
        /\ TxGets(f, which, s)
        /\ s = "success" => Mine(f, which, TRUE)
  BY DEF Answer, Mine, TxState, TxGets
<1>4. /\ tx' \in [Flows -> TxRows] /\ tx'[f][which] = s
      /\ \A w \in Which \ {which} : tx'[f][w] = tx[f][w]
      /\ \A g \in Flows \ {f} : tx'[g] = tx[g]
  BY <1>1, <1>3, TxSet
<1>5. tx[f][which] \notin {"none", "success"}
  BY DEF Answer, Mine
<1>6. flow[f].from \in Accounts
  <2>1. flow[f].from # None
    BY <1>1, <1>5 DEF FlowOK, Which
  <2> QED
    BY <1>1, <2>1 DEF FlowRows
<1>7. /\ allowance' \in [Accounts -> BOOLEAN]
      /\ \A a \in Accounts : allowance[a] => allowance'[a]
      /\ which = "approval" /\ s = "success" => allowance'[flow[f].from]
  BY <1>1, <1>3, <1>6 DEF Answer, Mine
<1>8. FlowOK(f)'
  <2>1. CASE which = "approval"
    BY <1>1, <1>2, <1>4, <1>5, <1>6, <1>7, <2>1 DEF FlowOK, Which
  <2>2. CASE which = "order"
    BY <1>1, <1>2, <1>4, <1>5, <1>6, <1>7, <2>2 DEF FlowOK, Which
  <2> QED
    BY <2>1, <2>2 DEF Which
<1> QED
  BY <1>1, <1>2, <1>4, <1>7, <1>8, FlowMoves

LEMMA InvStep ==
  ASSUME Inv, [Next]_vars
  PROVE  Inv'
<1>1. CASE \/ Submit \/ PrepareFails
           \/ \E p \in Predictions :
                Prepared(p, TRUE) \/ Prepared(p, FALSE) \/ PreparedElsewhere(p)
  BY <1>1, PrepareStep
<1>2. CASE CancelWait \/ SwitchAccount \/ SessionChanges \/ Closes \/ Refetch
  BY <1>2, UserStep
<1>3. CASE Leave \/ Reload
  BY <1>3, LeaveStep
<1>4. ASSUME NEW f \in Flows, Flow(f) PROVE Inv'
  <2>1. CASE Sign(f) \/ Connect(f)
    BY <2>1, StartStep
  <2>2. CASE Approved(f) \/ \E ok \in BOOLEAN : ReadAllowance(f, ok)
    BY <2>2, AsksStep
  <2>3. CASE \/ HashArrives(f, "approval", "approvalReceipt")
             \/ HashArrives(f, "order", "orderReceipt")
             \/ Filled(f) \/ Fails(f) \/ ConfirmFails(f)
    BY <2>3, WaitStep
  <2>4. CASE \E p \in Predictions, lost \in BOOLEAN : Confirm(f, p, lost)
    BY <2>4, ConfirmStep
  <2> QED
    BY <1>4, <2>1, <2>2, <2>3, <2>4 DEF Flow
<1>5. ASSUME NEW f \in Flows, Wallet(f) PROVE Inv'
  BY <1>5, WalletStep DEF Wallet
<1>6. CASE UNCHANGED vars
  <2>1. UNCHANGED <<flow, tx, allowance, row>> /\ view' = view /\ Small'
    BY <1>6, Types DEF Inv, vars, world, Small
  <2>2. view' \in Views
    BY <2>1, Types DEF Inv
  <2> QED
    BY <2>1, <2>2, RowsStay
<1> QED
  BY <1>1, <1>2, <1>3, <1>4, <1>5, <1>6 DEF Next

LEMMA InvInit ==
  ASSUME Init
  PROVE  Inv
<1>1. flow \in [Flows -> FlowRows] /\ \A f \in Flows : flow[f].pc = "idle"
  BY DEF Init, FlowRows, FlowStep
<1>2. /\ tx \in [Flows -> TxRows]
      /\ \A f \in Flows : tx[f].approval = "none" /\ tx[f].order = "none"
  BY DEF Init, TxRows, TxState
<1>3. /\ row \in [Predictions -> RowRows]
      /\ \A p \in Predictions : row[p].status = "free" /\ row[p].txHash = None
  BY DEF Init, RowRows
<1>4. Small /\ view \in Views /\ view.prepared = None
  <2>1. Small
    BY DetoursAssumption DEF Init, Small
  <2> QED
    BY <2>1 DEF Init, Views, EmptyView
<1>5. TypeOK
  BY <1>1, <1>2, <1>3, <1>4, Types DEF Init, Waiting
<1>6. PanelInvariant
  BY <1>1, <1>2, <1>3
     DEF PanelInvariant, FlowsKnow, AskedByFlows, ApprovalsLast, MinedBeforeConfirm,
         HashesAreConfirmed
<1> QED
  BY <1>5, <1>6 DEF Inv

LEMMA InvCorrect == Spec => []Inv
<1> QED
  BY InvInit, InvStep, PTL DEF Spec

----------------------------------------------------------------------------
\* The theorems.

\* Every variable keeps its type, flows know what they sign and for whom, and
\* what the panel holds as prepared is a row that was made.
THEOREM TypeCorrect == Spec => []TypeOK
<1>1. Inv => TypeOK
  BY DEF Inv
<1> QED
  BY <1>1, InvCorrect, PTL

\* A flow that is over stays so, with what it signed, for whom, and its mined
\* order; and a confirmed row stays as it is.
LEMMA SettledStands ==
  ASSUME Inv, [Next]_vars
  PROVE  /\ \A f \in Flows : flow[f].pc = "ended" =>
              /\ flow'[f].pc = "ended" /\ flow'[f].from = flow[f].from
              /\ flow'[f].prediction = flow[f].prediction
              /\ tx[f].order = "success" => tx'[f].order = "success"
         /\ kind' = kind
<1> DEFINE Ended(f) ==
     flow[f].pc = "ended" =>
       /\ flow'[f].pc = "ended" /\ flow'[f].from = flow[f].from
       /\ flow'[f].prediction = flow[f].prediction
       /\ tx[f].order = "success" => tx'[f].order = "success"
<1>1. /\ flow \in [Flows -> FlowRows] /\ tx \in [Flows -> TxRows]
  BY Types DEF Inv
<1>2. CASE UNCHANGED <<flow, tx, kind>>
  BY <1>2
<1>3. CASE Leave \/ Reload
  <2>1. UNCHANGED <<tx, kind>>
    BY <1>3 DEF Leave, Reload
  <2>2. ASSUME NEW f \in Flows
        PROVE  /\ flow'[f].from = flow[f].from /\ flow'[f].prediction = flow[f].prediction
               /\ flow[f].pc = "ended" => flow'[f].pc = "ended"
    <3>1. CASE Leave
      BY <1>1, <3>1 DEF Leave, FlowRows
    <3>2. CASE Reload
      BY <1>1, <3>2 DEF Reload, FlowRows
    <3> QED
      BY <1>3, <3>1, <3>2
  <2> QED
    BY <2>1, <2>2
<1>4. ASSUME NEW f \in Flows, Flow(f) PROVE kind' = kind /\ \A g \in Flows : Ended(g)
  <2>1. flow[f].pc # "ended"
    BY <1>4 DEF Flow, Sign, Connect, ReadAllowance, HashArrives, Approved, AfterApproval,
       Filled, Fails, Confirm, ConfirmFails
  <2>2. kind' = kind
    BY <1>4 DEF Flow, Sign, Connect, ReadAllowance, HashArrives, Approved, Ask,
       Filled, Fails, Confirm, ConfirmFails
  <2>3. \A g \in Flows \ {f} : flow'[g] = flow[g]
    BY <1>1, <1>4 DEF Flow, Sign, Connect, ReadAllowance, HashArrives, Approved, Ask,
       Filled, Fails, Confirm, ConfirmFails, Goes
  <2>4. \A g \in Flows \ {f} : tx'[g] = tx[g]
    BY <1>1, <1>4 DEF Flow, Sign, Connect, ReadAllowance, HashArrives, Approved, Ask,
       Filled, Fails, Confirm, ConfirmFails
  <2> QED
    BY <2>1, <2>2, <2>3, <2>4
<1>5. ASSUME NEW f \in Flows, NEW which \in Which, NEW yes \in BOOLEAN,
             Answer(f, which, yes) \/ Mine(f, which, yes)
      PROVE  kind' = kind /\ \A g \in Flows : Ended(g)
  <2>1. UNCHANGED <<flow, kind>>
    BY <1>5 DEF Answer, Mine
  <2>2. PICK s \in TxState : TxGets(f, which, s)
    BY <1>5 DEF Answer, Mine, TxState, TxGets
  <2>3. tx[f][which] # "success"
    BY <1>5 DEF Answer, Mine
  <2>4. /\ \A w \in Which \ {which} : tx'[f][w] = tx[f][w]
        /\ \A g \in Flows \ {f} : tx'[g] = tx[g]
    BY <1>1, <2>2, TxSet
  <2>5. \A g \in Flows : tx[g].order = "success" => tx'[g].order = "success"
    <3>1. which = "order" \/ tx'[f].order = tx[f].order
      BY <2>4 DEF Which
    <3> QED
      BY <2>3, <2>4, <3>1
  <2> QED
    BY <2>1, <2>5
<1>6. CASE UNCHANGED vars
  BY <1>6, <1>2 DEF vars
<1>7. CASE \/ Submit \/ PrepareFails \/ CancelWait \/ SwitchAccount \/ SessionChanges
           \/ Closes \/ Refetch
           \/ \E p \in Predictions :
                Prepared(p, TRUE) \/ Prepared(p, FALSE) \/ PreparedElsewhere(p)
  <2>1. UNCHANGED <<flow, tx, kind>>
    BY <1>7 DEF Submit, PrepareFails, CancelWait, SwitchAccount, SessionChanges, Closes,
       Refetch, Prepared, PreparedElsewhere
  <2> QED
    BY <2>1, <1>2
<1> QED
  BY <1>3, <1>4, <1>5, <1>6, <1>7 DEF Next, Wallet

\* What is confirmed was paid for with its own account's own order, once: the
\* flow that confirmed a row is over, so that nothing of it changes any more.
THEOREM OwnOrderCorrect == Spec => []ConfirmedOrderIsOwn
<1>1. Init => ConfirmedOrderIsOwn
  BY DEF Init, ConfirmedOrderIsOwn
<1>2. Inv /\ ConfirmedOrderIsOwn /\ [Next]_vars => ConfirmedOrderIsOwn'
  <2> SUFFICES ASSUME Inv, ConfirmedOrderIsOwn, [Next]_vars PROVE ConfirmedOrderIsOwn'
    OBVIOUS
  <2> DEFINE Own(p) ==
       /\ tx[row[p].txHash].order = "success"
       /\ flow[row[p].txHash].from = row[p].owner
       /\ kind # "challenge" => flow[row[p].txHash].prediction = p
       /\ \A q \in Predictions \ {p} : row[q].txHash # row[p].txHash
  <2>1. /\ row \in [Predictions -> RowRows] /\ HashesAreConfirmed
        /\ flow \in [Flows -> FlowRows] /\ view \in Views /\ Small /\ TypeOK
    BY Types DEF Inv, PanelInvariant
  <2>2. ASSUME NEW p \in Predictions, row[p].status = "confirmed"
        PROVE  row[p].txHash \in Flows /\ Own(p) /\ flow[row[p].txHash].pc = "ended"
    BY <2>1, <2>2 DEF ConfirmedOrderIsOwn, HashesAreConfirmed, RowRows
  <2>3. ASSUME NEW p \in Predictions, row[p].status = "confirmed",
               row'[p] = row[p],
               \A q \in Predictions \ {p} : row'[q].txHash # row[p].txHash
        PROVE  Own(p)'
    BY <2>2, <2>3, SettledStands
  <2>4. CASE \E f \in Flows, p \in Predictions, lost \in BOOLEAN : Confirm(f, p, lost)
    <3>1. PICK f \in Flows, p \in Predictions, lost \in BOOLEAN : Confirm(f, p, lost)
      BY <2>4
    <3>2. /\ row' = [row EXCEPT ![p].status = "confirmed", ![p].txHash = f]
          /\ row[p].status = "pending" /\ row[p].owner = flow[f].from
          /\ flow[f].pc = "confirm" /\ p \in Rows(f) /\ UNCHANGED <<tx, kind>>
          /\ Goes(f, "ended")
      BY <3>1 DEF Confirm, Accepts
    <3>3. /\ row'[p].status = "confirmed" /\ row'[p].txHash = f /\ row'[p].owner = row[p].owner
          /\ \A q \in Predictions \ {p} : row'[q] = row[q]
      BY <2>1, <3>2 DEF RowRows
    <3>4. flow'[f].from = flow[f].from /\ flow'[f].prediction = flow[f].prediction
      BY <2>1, <3>2, FlowGoes DEF FlowStep
    <3>5. tx[f].order = "success"
      BY <3>2 DEF Inv, PanelInvariant, MinedBeforeConfirm
    <3>6. kind # "challenge" => flow[f].prediction = p
      BY <3>2 DEF Rows, Confirmed
    <3>7. \A q \in Predictions : row[q].txHash # f
      <4>1. f # None
        BY NoneAssumption
      <4> QED
        BY <2>1, <3>2, <4>1 DEF HashesAreConfirmed
    <3>8. Own(p)'
      BY <3>2, <3>3, <3>4, <3>5, <3>6, <3>7
    <3>9. ASSUME NEW q \in Predictions \ {p}, row[q].status = "confirmed" PROVE Own(q)'
      <4>1. \A r \in Predictions \ {q} : row'[r].txHash # row[q].txHash
        BY <2>2, <3>3, <3>7, <3>9
      <4> QED
        BY <2>3, <3>3, <3>9, <4>1
    <3>10. \A q \in Predictions : row'[q].status = "confirmed" => Own(q)'
      BY <3>3, <3>8, <3>9
    <3> QED
      BY <3>10 DEF ConfirmedOrderIsOwn
  <2>5. ASSUME NEW p \in Predictions, NEW a \in Accounts, row[p].status = "free",
               row' = Inserted(p, a)
        PROVE  ConfirmedOrderIsOwn'
    <3>1. /\ row'[p].status = "pending" /\ row'[p].txHash = None
          /\ \A q \in Predictions \ {p} :
               /\ row'[q].txHash = row[q].txHash /\ row'[q].owner = row[q].owner
               /\ \/ row'[q].status = row[q].status
                  \/ row[q].status = "pending" /\ row'[q].status = "deleted"
      BY <2>1, <2>5, InsertedRows
    <3>2. ASSUME NEW q \in Predictions, row'[q].status = "confirmed" PROVE Own(q)'
      <4>1. q # p /\ row[q].status = "confirmed"
        BY <3>1, <3>2
      <4>2. row'[q] = row[q]
        BY <2>5, <4>1 DEF Inserted
      <4>3. row[q].txHash # None
        BY <2>2, <4>1, NoneAssumption
      <4>4. \A r \in Predictions \ {q} : row'[r].txHash # row[q].txHash
        BY <2>2, <3>1, <4>1, <4>3
      <4> QED
        BY <2>3, <4>1, <4>2, <4>4
    <3> QED
      BY <3>2 DEF ConfirmedOrderIsOwn
  <2>6. CASE UNCHANGED row
    <3>1. \A p \in Predictions : row'[p].status = "confirmed" => Own(p)'
      BY <2>2, <2>3, <2>6
    <3> QED
      BY <3>1 DEF ConfirmedOrderIsOwn
  <2>7. \/ \E f \in Flows, p \in Predictions, lost \in BOOLEAN : Confirm(f, p, lost)
        \/ UNCHANGED row
        \/ \E p \in Predictions, a \in Accounts : row[p].status = "free" /\ row' = Inserted(p, a)
    <3>1. ASSUME NEW p \in Predictions,
                 Prepared(p, TRUE) \/ Prepared(p, FALSE) \/ PreparedElsewhere(p)
          PROVE  \E a \in Accounts : row[p].status = "free" /\ row' = Inserted(p, a)
      <4>1. CASE Prepared(p, TRUE) \/ Prepared(p, FALSE)
        <5>1. view.entering \in Accounts
          BY <2>1, <4>1 DEF Prepared, Views
        <5> QED
          BY <4>1, <5>1 DEF Prepared
      <4>2. CASE PreparedElsewhere(p)
        BY <2>1, <4>2 DEF PreparedElsewhere, Small
      <4> QED
        BY <3>1, <4>1, <4>2
    <3>2. ASSUME NEW f \in Flows, Flow(f)
          PROVE  \/ UNCHANGED row
                 \/ \E p \in Predictions, lost \in BOOLEAN : Confirm(f, p, lost)
      BY <3>2 DEF Flow, Sign, Connect, ReadAllowance, HashArrives, Approved, Ask,
         Filled, Fails, ConfirmFails
    <3>3. ASSUME NEW f \in Flows, Wallet(f) PROVE UNCHANGED row
      BY <3>3 DEF Wallet, Answer, Mine
    <3>4. ASSUME \/ Submit \/ PrepareFails \/ CancelWait \/ SwitchAccount \/ SessionChanges
                 \/ Closes \/ Refetch \/ Leave \/ Reload \/ UNCHANGED vars
          PROVE  UNCHANGED row
      BY <3>4 DEF Submit, PrepareFails, CancelWait, SwitchAccount, SessionChanges, Closes,
         Refetch, Leave, Reload, vars
    <3> QED
      BY <3>1, <3>2, <3>3, <3>4 DEF Next
  <2> QED
    BY <2>4, <2>5, <2>6, <2>7
<1> QED
  BY <1>1, <1>2, InvCorrect, PTL DEF Spec

\* An order is put before the user only with the collateral of its account
\* allowed, whatever flows overlap and accounts change.
THEOREM AllowanceCorrect == Spec => []OrderNeedsAllowance
<1>1. Init => OrderNeedsAllowance
  BY DEF Init, OrderNeedsAllowance
<1>2. Inv /\ OrderNeedsAllowance /\ [Next]_vars => OrderNeedsAllowance'
  <2> SUFFICES ASSUME Inv, OrderNeedsAllowance, [Next]_vars,
                      NEW f \in Flows, tx'[f].order = "prompt"
               PROVE  allowance'[flow'[f].from]
    BY DEF OrderNeedsAllowance
  <2>1. /\ flow \in [Flows -> FlowRows] /\ tx \in [Flows -> TxRows]
        /\ FlowOK(f) /\ TypeOK /\ allowance \in [Accounts -> BOOLEAN]
    BY Types, ByFlow DEF Inv
  <2>2. ASSUME tx[f].order = "prompt"
        PROVE  flow[f].from \in Accounts /\ allowance[flow[f].from]
               /\ flow[f].pc \notin {"idle", "connect"}
    BY <2>1, <2>2 DEF OrderNeedsAllowance, FlowOK, FlowRows
  <2>3. CASE UNCHANGED <<flow, tx, allowance>>
    BY <2>3 DEF OrderNeedsAllowance
  <2>4. CASE Leave \/ Reload
    <3>1. UNCHANGED <<tx, allowance>>
      BY <2>4 DEF Leave, Reload
    <3>2. flow'[f].from = flow[f].from
      <4>1. CASE Leave
        BY <2>1, <4>1 DEF Leave, FlowRows
      <4>2. CASE Reload
        BY <2>1, <4>2 DEF Reload, FlowRows
      <4> QED
        BY <2>4, <4>1, <4>2
    <3> QED
      BY <2>2, <3>1, <3>2
  <2>5. ASSUME NEW g \in Flows, Sign(g) \/ Connect(g) PROVE allowance'[flow'[f].from]
    <3>1. UNCHANGED <<tx, allowance>> /\ flow[g].pc \in {"idle", "connect"}
      BY <2>5 DEF Sign, Connect
    <3>2. f # g
      BY <2>2, <3>1
    <3>3. flow'[f] = flow[f]
      BY <2>1, <2>5, <3>2 DEF Sign, Connect
    <3> QED
      BY <2>2, <3>1, <3>3
  <2>6. ASSUME NEW g \in Flows, NEW which \in Which, Ask(g, which),
               which = "order" => allowance[flow[g].from]
        PROVE  allowance'[flow'[f].from]
    <3>1. allowance' = allowance /\ flow'[f].from = flow[f].from
      BY <2>1, <2>6, FlowGoes DEF Ask, Which, FlowStep, Waiting
    <3>2. CASE f = g /\ which = "order"
      BY <2>6, <3>1, <3>2
    <3>3. CASE ~(f = g /\ which = "order")
      <4>1. tx'[f].order = tx[f].order
        <5>1. /\ \A w \in Which \ {which} : tx'[g][w] = tx[g][w]
              /\ \A h \in Flows \ {g} : tx'[h] = tx[h]
          BY <2>1, <2>6, TxSet DEF Ask, TxState, TxGets
        <5> QED
          BY <3>3, <5>1 DEF Which
      <4> QED
        BY <2>2, <3>1, <4>1
    <3> QED
      BY <3>2, <3>3
  <2>7. ASSUME NEW g \in Flows, \/ Approved(g)
                                \/ \E ok \in BOOLEAN : ReadAllowance(g, ok)
        PROVE  allowance'[flow'[f].from]
    <3>1. CASE Approved(g)
      <4>1. allowance[flow[g].from] /\ Ask(g, "order")
        BY <3>1 DEF Approved, AfterApproval, Inv, PanelInvariant, ApprovalsLast
      <4> QED
        BY <4>1, <2>6 DEF Which
    <3>2. ASSUME NEW ok \in BOOLEAN, ReadAllowance(g, ok) PROVE allowance'[flow'[f].from]
      <4>1. \/ Ask(g, "approval")
            \/ Ask(g, "order") /\ allowance[flow[g].from]
        BY <3>2 DEF ReadAllowance
      <4> QED
        BY <4>1, <2>6 DEF Which
    <3> QED
      BY <2>7, <3>1, <3>2
  <2>8. ASSUME NEW g \in Flows, NEW pc \in FlowStep, Goes(g, pc), UNCHANGED <<tx, allowance>>
        PROVE  allowance'[flow'[f].from]
    <3>1. flow'[f].from = flow[f].from
      BY <2>1, <2>8, FlowGoes
    <3> QED
      BY <2>2, <2>8, <3>1
  <2>9. ASSUME NEW g \in Flows, Flow(g) PROVE allowance'[flow'[f].from]
    <3>1. CASE \/ HashArrives(g, "approval", "approvalReceipt")
               \/ HashArrives(g, "order", "orderReceipt") \/ Filled(g)
               \/ Fails(g) \/ ConfirmFails(g)
               \/ \E p \in Predictions, lost \in BOOLEAN : Confirm(g, p, lost)
      <4>1. UNCHANGED <<tx, allowance>>
        BY <3>1 DEF HashArrives, Filled, Fails, ConfirmFails, Confirm
      <4>2. \E pc \in {"approvalReceipt", "orderReceipt", "confirm", "ended"} : Goes(g, pc)
        BY <3>1 DEF HashArrives, Filled, Fails, ConfirmFails, Confirm
      <4> QED
        BY <2>8, <4>1, <4>2 DEF FlowStep, Waiting
    <3> QED
      BY <2>5, <2>7, <2>9, <3>1 DEF Flow
  <2>10. ASSUME NEW g \in Flows, NEW which \in Which, NEW yes \in BOOLEAN,
                Answer(g, which, yes) \/ Mine(g, which, yes)
         PROVE  allowance'[flow'[f].from]
    <3>1. flow' = flow
      BY <2>10 DEF Answer, Mine
    <3>2. \A a \in Accounts : allowance[a] => allowance'[a]
      BY <2>1, <2>10 DEF Answer, Mine
    <3>3. tx[f].order = "prompt"
      <4>1. PICK s \in TxState : TxGets(g, which, s) /\ s # "prompt"
        BY <2>10 DEF Answer, Mine, TxState, TxGets
      <4>2. /\ tx'[g][which] = s
            /\ \A w \in Which \ {which} : tx'[g][w] = tx[g][w]
            /\ \A h \in Flows \ {g} : tx'[h] = tx[h]
        BY <2>1, <4>1, TxSet
      <4> QED
        BY <4>1, <4>2 DEF Which
    <3> QED
      BY <2>2, <3>1, <3>2, <3>3
  <2>11. CASE \/ Submit \/ PrepareFails \/ CancelWait \/ SwitchAccount \/ SessionChanges
              \/ Closes \/ Refetch \/ UNCHANGED vars
              \/ \E p \in Predictions :
                   Prepared(p, TRUE) \/ Prepared(p, FALSE) \/ PreparedElsewhere(p)
    <3>1. UNCHANGED <<flow, tx, allowance>>
      BY <2>11 DEF Submit, PrepareFails, CancelWait, SwitchAccount, SessionChanges, Closes,
         Refetch, Prepared, PreparedElsewhere, vars
    <3> QED
      BY <2>3, <3>1
  <2> QED
    BY <2>4, <2>9, <2>10, <2>11 DEF Next, Wallet
<1> QED
  BY <1>1, <1>2, InvCorrect, PTL DEF Spec

\* No panel waits for nobody: its own flows clear the step they show, and no
\* step is shown by a flow that is not the panel's.
THEOREM StepCorrect == Spec => []StepHasFlow
<1>1. Init => StepHasFlow
  <2>1. EmptyView.step = ""
    BY DEF EmptyView
  <2> QED
    BY <2>1 DEF Init, StepHasFlow
<1>2. Inv /\ StepHasFlow /\ [Next]_vars => StepHasFlow'
  <2> SUFFICES ASSUME Inv, StepHasFlow, [Next]_vars, view'.step # ""
               PROVE  \E g \in Flows : flow'[g].mounted /\ flow'[g].pc \in Waiting
    BY DEF StepHasFlow
  <2> DEFINE HasFlow == \E g \in Flows : flow'[g].mounted /\ flow'[g].pc \in Waiting
  <2>1. /\ flow \in [Flows -> FlowRows] /\ view \in Views /\ TypeOK
    BY Types, ByFlow DEF Inv
  <2>2. CASE UNCHANGED flow /\ view'.step \in {view.step, ""}
    BY <2>2 DEF StepHasFlow
  <2>3. ASSUME NEW f \in Flows,
               \A g \in Flows \ {f} : flow'[g] = flow[g],
               flow'[f].mounted = flow[f].mounted,
               \/ view'.step = view.step /\ ~flow[f].mounted
               \/ view'.step = view.step /\ flow[f].pc \notin Waiting
               \/ view'.step = view.step /\ flow'[f].pc \in Waiting
               \/ flow[f].mounted /\ flow'[f].pc \in Waiting
        PROVE  HasFlow
    BY <2>3 DEF StepHasFlow
  <2>4. ASSUME NEW f \in Flows, Flow(f) PROVE HasFlow
    <3>1. CASE Sign(f)
      <4>1. /\ \A g \in Flows \ {f} : flow'[g] = flow[g]
            /\ view' = view /\ flow[f].pc \notin Waiting
        BY <2>1, <3>1 DEF Sign, Waiting
      <4> QED
        BY <4>1 DEF StepHasFlow
    <3>2. CASE Connect(f)
      <4>1. /\ \A g \in Flows \ {f} : flow'[g] = flow[g]
            /\ view' = view /\ flow[f].pc \notin Waiting
        BY <2>1, <3>2 DEF Connect, Waiting
      <4> QED
        BY <4>1 DEF StepHasFlow
    <3>3. ASSUME NEW which \in Which, Ask(f, which) PROVE HasFlow
      <4>1. /\ flow'[f].pc = which /\ flow'[f].mounted = flow[f].mounted
            /\ \A g \in Flows \ {f} : flow'[g] = flow[g]
        BY <2>1, <3>3, FlowGoes DEF Ask, Which, FlowStep, Waiting
      <4>2. view'.step = view.step \/ flow[f].mounted
        BY <2>1, <3>3, Shown DEF Ask, Which, Mounted
      <4> QED
        BY <2>3, <4>1, <4>2 DEF Which, Waiting
    <3>4. ASSUME NEW pc \in FlowStep, Goes(f, pc),
                 \/ view' = view /\ pc \in Waiting
                 \/ view'.step = IF Mounted(f) THEN "" ELSE view.step
                 \/ view'.step = view.step /\ flow[f].pc \notin Waiting
          PROVE  HasFlow
      <4>1. /\ flow'[f].pc = pc /\ flow'[f].mounted = flow[f].mounted
            /\ \A g \in Flows \ {f} : flow'[g] = flow[g]
        BY <2>1, <3>4, FlowGoes
      <4> QED
        BY <2>3, <3>4, <4>1 DEF Mounted
    <3>5. CASE Approved(f) \/ \E ok \in BOOLEAN : ReadAllowance(f, ok)
      <4>1. Ask(f, "order") \/ Ask(f, "approval")
        BY <3>5 DEF Approved, ReadAllowance
      <4> QED
        BY <3>3, <4>1 DEF Which
    <3>6. CASE \/ HashArrives(f, "approval", "approvalReceipt")
               \/ HashArrives(f, "order", "orderReceipt")
      BY <3>4, <3>6 DEF HashArrives, FlowStep, Waiting
    <3>7. CASE Filled(f)
      <4>1. view'.step = IF Mounted(f) THEN "" ELSE view.step
        BY <2>1, <3>7 DEF Filled, Views
      <4> QED
        BY <3>4, <3>7, <4>1 DEF Filled, FlowStep
    <3>8. CASE Fails(f) \/ ConfirmFails(f)
      <4>1. view'.step = IF Mounted(f) THEN "" ELSE view.step
        BY <2>1, <3>8, Shown DEF Fails, ConfirmFails, Caught
      <4>2. Goes(f, "ended")
        BY <3>8 DEF Fails, ConfirmFails
      <4> QED
        BY <3>4, <4>1, <4>2 DEF FlowStep
    <3>9. ASSUME NEW p \in Predictions, NEW lost \in BOOLEAN, Confirm(f, p, lost) PROVE HasFlow
      <4>1. \/ view'.step = IF Mounted(f) THEN "" ELSE view.step
            \/ view'.step = view.step
        BY <2>1, <3>9, Shown DEF Confirm, Caught, Views
      <4>2. Goes(f, "ended") /\ flow[f].pc \notin Waiting
        BY <3>9 DEF Confirm, Waiting
      <4> QED
        BY <3>4, <4>1, <4>2 DEF FlowStep
    <3> QED
      BY <2>4, <3>1, <3>2, <3>5, <3>6, <3>7, <3>8, <3>9 DEF Flow
  <2>5. CASE Leave \/ Reload
    <3>1. view'.step = ""
      BY <2>5 DEF Leave, Reload, EmptyView
    <3> QED
      BY <3>1
  <2>6. ASSUME NEW f \in Flows, Wallet(f) PROVE HasFlow
    BY <2>2, <2>6 DEF Wallet, Answer, Mine
  <2>7. CASE \/ Submit \/ PrepareFails \/ CancelWait \/ SwitchAccount \/ SessionChanges
             \/ Closes \/ Refetch \/ UNCHANGED vars
             \/ \E p \in Predictions :
                  Prepared(p, TRUE) \/ Prepared(p, FALSE) \/ PreparedElsewhere(p)
    <3>1. UNCHANGED flow
      BY <2>7 DEF Submit, PrepareFails, CancelWait, SwitchAccount, SessionChanges, Closes,
         Refetch, Prepared, PreparedElsewhere, vars
    <3>2. view'.step \in {view.step, ""}
      BY <2>1, <2>7 DEF Submit, PrepareFails, CancelWait, SwitchAccount, SessionChanges,
         Closes, Refetch, Prepared, PreparedElsewhere, vars, Views
    <3> QED
      BY <2>2, <3>1, <3>2
  <2> QED
    BY <2>4, <2>5, <2>6, <2>7 DEF Next
<1> QED
  BY <1>1, <1>2, InvCorrect, PTL DEF Spec
=============================================================================
