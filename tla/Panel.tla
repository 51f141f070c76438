------------------------------- MODULE Panel -------------------------------
(***************************************************************************)
(* The three places of the web client where a prepared order is signed,    *)
(* broadcast and confirmed: the Battle Royale panel, the duel panel and    *)
(* the challenge dialog.  Each runs signAndConfirm, a chain of awaits on   *)
(* the wallet, the chain and the API, while its user may press the button  *)
(* again, leave, reload, cancel the wait, or change account.               *)
(*                                                                         *)
(* One panel is shown, of any of the kinds.  A flow is one call of         *)
(* signAndConfirm; what it broadcast goes on without it.  The server is    *)
(* what Battles and Duels say of it, in one step per request.              *)
(***************************************************************************)
EXTENDS Naturals

CONSTANTS
  Flows,          \* calls of signAndConfirm; bounds their number
  Predictions,    \* ids of prediction rows; bounds the rows ever made
  Accounts,       \* of the one wallet in the browser
  Detours,        \* bounds what the user does besides: leaving, switching, ...
  None            \* null

Kinds == {"battle", "duel", "challenge"}

ASSUME DetoursAssumption == Detours \in Nat
ASSUME NoneAssumption == None \notin Flows \cup Predictions \cup Accounts

VARIABLES
  kind,       \* which of the three panels it is
  session,    \* account whose token is stored and valid, or None
  account,    \* the wallet's selected account
  allowance,  \* whether the pool may take the account's collateral
  open,       \* whether the battle, or the original, still takes entries
  view,       \* the panel's React state
  flow,       \* where each signAndConfirm stands
  tx,         \* the two transactions of each flow, in the wallet and on chain
  row,        \* the prediction rows
  detours     \* how often the user did something besides

world == <<session, account>>
vars  == <<kind, world, allowance, open, view, flow, tx, row, detours>>

----------------------------------------------------------------------------
Waiting  == {"approval", "approvalReceipt", "order", "orderReceipt"}
FlowStep == Waiting \cup {"idle", "connect", "allowance", "confirm", "ended"}
TxState  == {"none", "prompt", "rejected", "mempool", "success", "reverted"}

TypeOK ==
  /\ kind \in Kinds
  /\ detours \in 0 .. Detours
  /\ session \in Accounts \cup {None}
  /\ account \in Accounts
  /\ allowance \in [Accounts -> BOOLEAN]
  /\ open \in BOOLEAN
  /\ view \in [prepared : Predictions \cup {None},
               step : {"", "approval", "order"},
               entering : Accounts \cup {None},
               confirming : Flows \cup {None},
               open : BOOLEAN]
  /\ flow \in [Flows -> [pc : FlowStep, prediction : Predictions \cup {None},
                         from : Accounts \cup {None},
                         mounted : BOOLEAN]]
  /\ tx \in [Flows -> [approval : TxState, order : TxState]]
  /\ row \in [Predictions -> [status : {"free", "pending", "confirmed", "deleted"},
                              owner : Accounts \cup {None},
                              txHash : Flows \cup {None}]]
  /\ \A f \in Flows : flow[f].pc \in Waiting \cup {"confirm"} =>
       flow[f].prediction # None /\ flow[f].from # None
  /\ view.prepared # None => row[view.prepared].status # "free"

EmptyView == [prepared |-> None, step |-> "", entering |-> None,
              confirming |-> None, open |-> TRUE]

Init ==
  /\ kind \in Kinds
  /\ detours = 0
  /\ account \in Accounts
  /\ session = account
  /\ allowance \in [Accounts -> BOOLEAN]
  /\ open = TRUE
  /\ view = EmptyView
  /\ flow = [f \in Flows |-> [pc |-> "idle", prediction |-> None, from |-> None,
                              mounted |-> FALSE]]
  /\ tx = [f \in Flows |-> [approval |-> "none", order |-> "none"]]
  /\ row = [p \in Predictions |-> [status |-> "free", owner |-> None, txHash |-> None]]

----------------------------------------------------------------------------
\* One of the things the user does besides.
Detour == detours < Detours /\ detours' = detours + 1

----------------------------------------------------------------------------
\* What the panel shows.

\* canJoin: the battle panel alone hides its buttons once it has learnt that
\* the battle is closed.
CanJoin == kind = "battle" => view.open

\* confirm.isPending: of the last confirm.mutateAsync only.
ConfirmPending == view.confirming # None /\ flow[view.confirming].pc = "confirm"

Mounted(f) == flow[f].mounted

\* setTxStep by flow f, which does nothing once the component is gone.
ShowsStep(f, step) == IF Mounted(f) THEN [view EXCEPT !.step = step] ELSE view

----------------------------------------------------------------------------
\* submit: prepare an order.

\* The token goes with the request as it is stored then.
Submit ==
  /\ view.prepared = None /\ view.entering = None
  /\ CanJoin
  /\ session # None
  /\ view' = [view EXCEPT !.entering = session]
  /\ UNCHANGED <<kind, world, allowance, open, flow, tx, row, detours>>

\* A plausible slip: a row that is PENDING already is kept instead.
Inserted_Kept(p, a) ==
  IF \E q \in Predictions : row[q].owner = a /\ row[q].status = "pending" THEN row
  ELSE [row EXCEPT ![p] = [status |-> "pending", owner |-> a, txHash |-> None]]

\* What a new row p of owner a replaces: BattlesService.enter deletes the one
\* PENDING row of the same user.
Inserted(p, a) ==
  [q \in Predictions |->
     IF q = p THEN [status |-> "pending", owner |-> a, txHash |-> None]
     ELSE IF kind = "battle" /\ row[q].owner = a /\ row[q].status = "pending"
          THEN [row[q] EXCEPT !.status = "deleted"]
     ELSE row[q]]

\* No second entry in a battle.
MayEnter(a) ==
  /\ open
  /\ kind = "battle" => \A q \in Predictions : ~(row[q].owner = a /\ row[q].status = "confirmed")

\* The server prepares the order, and the answer arrives, or is lost.
Prepared(p, lost) ==
  /\ view.entering # None
  /\ MayEnter(view.entering)
  /\ row[p].status = "free"
  /\ row' = Inserted(p, view.entering)
  /\ view' = [view EXCEPT !.entering = None, !.prepared = IF lost THEN @ ELSE p]
  /\ UNCHANGED <<kind, world, allowance, open, flow, tx, detours>>

\* The same user prepares an order in another tab, or an earlier request of
\* a panel that was left is served only now.
PreparedElsewhere(p) ==
  /\ Detour
  /\ session # None /\ MayEnter(session)
  /\ row[p].status = "free"
  /\ row' = Inserted(p, session)
  /\ UNCHANGED <<kind, world, allowance, open, view, flow, tx>>

\* onError: refused, not signed in any more, or no answer.
PrepareFails ==
  /\ view.entering # None
  /\ view' = [view EXCEPT !.entering = None]
  /\ UNCHANGED <<kind, world, allowance, open, flow, tx, row, detours>>

----------------------------------------------------------------------------
\* signAndConfirm

Goes(f, pc) == flow' = [flow EXCEPT ![f].pc = pc]

\* The button is disabled by txStep and confirm.isPending, but by neither
\* while a flow connects or reads the allowance: it can be pressed again.
Sign(f) ==
  /\ flow[f].pc = "idle"
  /\ view.prepared # None /\ view.step = "" /\ ~ConfirmPending
  /\ CanJoin
  /\ flow' = [flow EXCEPT ![f].pc = "connect", ![f].prediction = view.prepared,
                          ![f].mounted = TRUE]
  /\ UNCHANGED <<kind, world, allowance, open, view, tx, row, detours>>

\* connectToSomnia, also switching to or adding the chain.
Connect(f) ==
  /\ flow[f].pc = "connect"
  /\ flow' = [flow EXCEPT ![f].pc = "allowance", ![f].from = account]
  /\ UNCHANGED <<kind, world, allowance, open, view, tx, row, detours>>

\* onStep, and eth_sendTransaction: the wallet asks its user.
Ask(f, which) ==
  /\ Goes(f, which)
  /\ view' = ShowsStep(f, which)
  /\ tx' = [tx EXCEPT ![f][which] = "prompt"]
  /\ UNCHANGED <<kind, world, allowance, open, row, detours>>

\* readAllowance; when that fails an approval is sent in any case.
ReadAllowance(f, rpcOk) ==
  /\ flow[f].pc = "allowance"
  /\ Ask(f, IF rpcOk /\ allowance[flow[f].from] THEN "order" ELSE "approval")

\* The wallet returned the hash, within the 180 s of withTimeout.
HashArrives(f, which, next) ==
  /\ flow[f].pc = which
  /\ tx[f][which] \notin {"none", "prompt", "rejected"}
  /\ Goes(f, next)
  /\ UNCHANGED <<kind, world, allowance, open, view, tx, row, detours>>

\* A plausible slip: the order is sent as soon as the approval has a hash.
AfterApproval_NoReceipt(f) == flow[f].pc \in {"approval", "approvalReceipt"}
                              /\ tx[f].approval \in {"mempool", "success"}

\* waitForReceipt of the approval returned.
AfterApproval(f) == flow[f].pc = "approvalReceipt" /\ tx[f].approval = "success"

Approved(f) == AfterApproval(f) /\ Ask(f, "order")

\* waitForReceipt of the order returned; confirm.mutateAsync.
Filled(f) ==
  /\ flow[f].pc = "orderReceipt"
  /\ tx[f].order = "success"
  /\ Goes(f, "confirm")
  /\ view' = IF Mounted(f) THEN [view EXCEPT !.step = "", !.confirming = f] ELSE view
  /\ UNCHANGED <<kind, world, allowance, open, tx, row, detours>>

\* A plausible slip: the catch block only shows the error.
Caught_StepStays(f) == view

\* The catch block: setTxStep(''); prepared stays, to be signed again.
Caught(f) == ShowsStep(f, "")

\* The chain of awaits breaks: the wallet is locked or refuses, the gas
\* estimate reverts, the prompt is not answered for 180 s, a receipt says
\* reverted, or 40 polls found none.
Fails(f) ==
  LET at(which, states) == tx[f][which] \in states
      pc == flow[f].pc
  IN
  /\ \/ pc \in {"connect", "allowance"}
     \/ pc = "approval" /\ at("approval", {"prompt", "rejected"})
     \/ pc = "order" /\ at("order", {"prompt", "rejected"})
     \/ pc = "approvalReceipt" /\ at("approval", {"mempool", "reverted"})
     \/ pc = "orderReceipt" /\ at("order", {"mempool", "reverted"})
  /\ Goes(f, "ended")
  /\ view' = Caught(f)
  /\ UNCHANGED <<kind, world, allowance, open, tx, row, detours>>

\* A plausible slip: the prediction shown when the receipt arrives.
Confirmed_Shown(f) == view.prepared

\* prepared.prediction.id of the closure.
Confirmed(f) == flow[f].prediction

\* What the server confirms: the row of that id, or, for a challenge, which
\* is confirmed by its original, any PENDING row of the user for it.
Rows(f) ==
  IF kind = "challenge" THEN {p \in Predictions : row[p].status = "pending"}
  ELSE {Confirmed(f)} \ {None}

\* The server's checks: the row, its user and the sender of the transaction.
Accepts(f, p) ==
  /\ row[p].status = "pending"
  /\ row[p].owner = session
  /\ flow[f].from = session
  /\ kind # "duel" => open

\* The confirmation is recorded; the answer arrives, or is lost.  The dialog
\* does not clear the step once more.
Confirm(f, p, lost) ==
  /\ flow[f].pc = "confirm"
  /\ p \in Rows(f) /\ Accepts(f, p)
  /\ row' = [row EXCEPT ![p].status = "confirmed", ![p].txHash = f]
  /\ open' = (open /\ kind # "challenge")
  /\ Goes(f, "ended")
  /\ view' = IF lost THEN Caught(f)
             ELSE IF Mounted(f)
             THEN [view EXCEPT !.prepared = None, !.step = IF kind = "challenge" THEN @ ELSE ""]
             ELSE view
  /\ UNCHANGED <<kind, world, allowance, tx, detours>>

\* Refused, or the request is lost: the order is paid and prepared stays.
ConfirmFails(f) ==
  /\ flow[f].pc = "confirm"
  /\ Goes(f, "ended")
  /\ view' = Caught(f)
  /\ UNCHANGED <<kind, world, allowance, open, tx, row, detours>>

\* resetWalletWait, in the challenge dialog: the step is cleared, the prompt
\* and the flow remain.
CancelWait ==
  /\ Detour
  /\ kind = "challenge"
  /\ view.step # ""
  /\ view' = [view EXCEPT !.step = ""]
  /\ UNCHANGED <<kind, world, allowance, open, flow, tx, row>>

----------------------------------------------------------------------------
\* The user, the wallet and the chain.

\* A prompt is answered, be the flow still there or not.
Answer(f, which, signed) ==
  /\ tx[f][which] = "prompt"
  /\ tx' = [tx EXCEPT ![f][which] = IF signed THEN "mempool" ELSE "rejected"]
  /\ UNCHANGED <<kind, world, allowance, open, view, flow, row, detours>>

Mine(f, which, ok) ==
  /\ tx[f][which] = "mempool"
  /\ which = "order" /\ ok => allowance[flow[f].from]
  /\ tx' = [tx EXCEPT ![f][which] = IF ok THEN "success" ELSE "reverted"]
  /\ allowance' = [allowance EXCEPT ![flow[f].from] = @ \/ (which = "approval" /\ ok)]
  /\ UNCHANGED <<kind, world, open, view, flow, row, detours>>

\* The wallet's user selects another account.
SwitchAccount ==
  /\ Detour
  /\ account' \in Accounts \ {account}
  /\ UNCHANGED <<kind, session, allowance, open, view, flow, tx, row>>

\* The token expires, or its user signs out, or in with the current account.
SessionChanges ==
  /\ Detour
  /\ session' \in {None, account} \ {session}
  /\ UNCHANGED <<kind, account, allowance, open, view, flow, tx, row>>

\* The battle locks; the original is taken, expires or is settled.
Closes ==
  /\ open /\ open' = FALSE
  /\ UNCHANGED <<kind, world, allowance, view, flow, tx, row, detours>>

\* The battle query is refetched.
Refetch ==
  /\ view.open # open
  /\ view' = [view EXCEPT !.open = open]
  /\ UNCHANGED <<kind, world, allowance, open, flow, tx, row, detours>>

\* Another page, or the dialog is closed: the component is unmounted and comes
\* back anew, its flows go on unseen.  Their own closures still read prepared.
Leave ==
  /\ Detour
  /\ view' = [EmptyView EXCEPT !.open = open]
  /\ flow' = [f \in Flows |-> [flow[f] EXCEPT !.mounted = FALSE]]
  /\ UNCHANGED <<kind, world, allowance, open, tx, row>>

\* The page is reloaded: its flows are gone, what they asked the wallet is not.
Reload ==
  /\ Detour
  /\ view' = [EmptyView EXCEPT !.open = open]
  /\ flow' = [f \in Flows |->
       IF flow[f].pc = "idle" THEN flow[f]
       ELSE [flow[f] EXCEPT !.pc = "ended", !.mounted = FALSE]]
  /\ UNCHANGED <<kind, world, allowance, open, tx, row>>

----------------------------------------------------------------------------
Which == {"approval", "order"}

Flow(f) ==
  \/ Sign(f) \/ Connect(f) \/ (\E ok \in BOOLEAN : ReadAllowance(f, ok))
  \/ HashArrives(f, "approval", "approvalReceipt") \/ Approved(f)
  \/ HashArrives(f, "order", "orderReceipt") \/ Filled(f)
  \/ Fails(f)
  \/ (\E p \in Predictions, lost \in BOOLEAN : Confirm(f, p, lost)) \/ ConfirmFails(f)

Wallet(f) == \E which \in Which, yes \in BOOLEAN : Answer(f, which, yes) \/ Mine(f, which, yes)

Next ==
  \/ Submit \/ PrepareFails
  \/ \E p \in Predictions : Prepared(p, TRUE) \/ Prepared(p, FALSE) \/ PreparedElsewhere(p)
  \/ \E f \in Flows : Flow(f) \/ Wallet(f)
  \/ CancelWait \/ SwitchAccount \/ SessionChanges \/ Closes \/ Refetch \/ Leave \/ Reload

Spec == Init /\ [][Next]_vars

----------------------------------------------------------------------------
\* Properties.

\* What is confirmed was paid for: with a filled order of the row's own
\* account, used for no other row, and, where the client names the row, made
\* for it; however often the button was pressed, whatever panel was left and
\* whatever account was selected meanwhile.
ConfirmedOrderIsOwn ==
  \A p \in Predictions : row[p].status = "confirmed" =>
    LET f == row[p].txHash IN
    /\ tx[f].order = "success"
    /\ flow[f].from = row[p].owner
    /\ kind # "challenge" => flow[f].prediction = p
    /\ \A q \in Predictions \ {p} : row[q].txHash # f

\* An order is put before the user only when the pool may take the collateral
\* of the account that sends it: the allowance was read or its approval is
\* mined, though accounts change and two flows approve at once.
OrderNeedsAllowance ==
  \A f \in Flows : tx[f].order = "prompt" => allowance[flow[f].from]

\* A step that is shown, with its button disabled, is one that a flow of this
\* panel still waits in, and will clear: however flows overlap, fail or are
\* cancelled, the panel never waits for nobody.
StepHasFlow ==
  view.step # "" => \E f \in Flows : flow[f].mounted /\ flow[f].pc \in Waiting

----------------------------------------------------------------------------
\* What makes the invariants above inductive.

\* A flow knows its prediction from the press of the button until it ends, and
\* its account from connecting.
FlowsKnow ==
  \A f \in Flows :
    /\ flow[f].pc \notin {"idle", "ended"} => flow[f].prediction # None
    /\ flow[f].pc \notin {"idle", "connect", "ended"} => flow[f].from # None

\* What the wallet was asked is asked once and by a flow that has connected:
\* the sender of a transaction never changes.
AskedByFlows ==
  \A f \in Flows :
    /\ tx[f].approval # "none" =>
         flow[f].from # None /\ flow[f].pc \notin {"idle", "connect", "allowance"}
    /\ tx[f].order # "none" =>
         /\ flow[f].from # None
         /\ flow[f].pc \in {"order", "orderReceipt", "confirm", "ended"}

\* A mined approval is not taken back.
ApprovalsLast ==
  \A f \in Flows : tx[f].approval = "success" => allowance[flow[f].from]

\* The server is asked to confirm orders that are mined.
MinedBeforeConfirm ==
  \A f \in Flows : flow[f].pc = "confirm" => tx[f].order = "success"

\* The rows with a transaction are those confirmed, by a flow that is over.
HashesAreConfirmed ==
  \A p \in Predictions :
    /\ row[p].txHash # None => row[p].status = "confirmed"
    /\ row[p].status = "confirmed" =>
         row[p].txHash # None /\ flow[row[p].txHash].pc = "ended"

PanelInvariant ==
  /\ FlowsKnow /\ AskedByFlows /\ ApprovalsLast /\ MinedBeforeConfirm
  /\ HashesAreConfirmed
=============================================================================
