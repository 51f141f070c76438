------------------------------- MODULE Orders -------------------------------
(***************************************************************************)
(* DreamdexService: how an order for one market is priced against a        *)
(* reading of its order book (assertTradable, prepareBuy), what may happen *)
(* to it before the wallet's transaction is mined, and what verifyFill     *)
(* later accepts as the quantity it bought.                                *)
(*                                                                         *)
(* All orders are of one wallet: others only move the book.  A prediction  *)
(* may be confirmed with any mined transaction: of its own order, of       *)
(* another prediction's, also one used before, or of one placed elsewhere; *)
(* that the application's own pages keep to the first is the subject of    *)
(* Panel.  A prediction is confirmed once and by one request at a time     *)
(* (overlapping ones are in Duels).  Prices and quantities are the raw     *)
(* integers of the code, times are seconds; the pool, the wallet and the   *)
(* indexer are external.                                                   *)
(***************************************************************************)
EXTENDS Integers, SequencesExt

CONSTANTS
  Ids,            \* predictions, each with one order
  One,            \* 10^decimals, the price of certainty
  Tick,           \* tickSize
  Lot,            \* lotSize
  MinQuantity,    \* minQuantity
  Cross,          \* ticks by which an order crosses the spread: 25
  Headroom,       \* config minTradingHeadroomSec
  OrderLife,      \* seconds an order may live: 300
  Margin,         \* what must be left for the market to outlive the order: 5
  Expiry,         \* when the market's expiry is
  Asked,          \* quantities asked for, before rounding to lots
  Books,          \* the books the market may show
  Times,          \* the times at which something may happen
  Elsewhere,      \* receipts of transactions not made for these predictions
  Balances,       \* what the wallet may be left with by trading elsewhere
  None            \* undefined

Directions == {"UP", "DOWN"}

\* What verifyFill reads of a receipt: whether the transaction succeeded, was
\* sent by the wallet, placed an order of the wallet, of which kind (None when
\* its log is missing), what that order bought, and whether in this market's
\* pool.
Receipts ==
  [success : BOOLEAN, ours : BOOLEAN, placed : BOOLEAN,
   kind : Directions \cup {"SELL", None}, filled : Nat, here : BOOLEAN]

Level == [price : Nat, quantity : Nat \ {0}]

IsSide(levels) ==
  /\ levels \in Seq(Level)
  /\ \A i \in DOMAIN levels :
       /\ levels[i].price \in Tick .. One - Tick
       /\ levels[i].price % Tick = 0
  /\ \A i, j \in DOMAIN levels : i < j => levels[i].price < levels[j].price

ASSUME GridAssumption ==
  /\ One \in Nat \ {0} /\ Tick \in 1 .. One - 1 /\ One % Tick = 0
  /\ Lot \in Nat \ {0} /\ MinQuantity \in Nat \ {0} /\ Cross \in Nat
ASSUME TimeAssumption ==
  /\ {Headroom, OrderLife, Margin, Expiry} \cup Times \subseteq Nat
  /\ Margin \in 1 .. OrderLife
ASSUME BooksAssumption == \A b \in Books : \A d \in Directions : IsSide(b[d])
ASSUME AskedAssumption == Asked \subseteq Nat
ASSUME WalletAssumption == Elsewhere \subseteq Receipts /\ Balances \subseteq Nat

VARIABLES
  now,     \* the time, in whole seconds
  book,    \* the asks of either side, best first: yesAsks for UP, noAsks for DOWN
  order,   \* the PreparedOrder of each prediction, and how far it got
  held,    \* outcome tokens of either side in the wallet
  proof,   \* where verifyFill of each prediction stands, None when it does not run
  credit   \* what each confirmed prediction was credited, and for which receipt

wallet == <<held, proof, credit>>
vars == <<now, book, order, wallet>>

----------------------------------------------------------------------------
\* Rounding.

\* A plausible slip: quantities and prices are sent as they come.
SnapDown_Nothing(raw, tick) == raw

SnapDown(raw, tick) == (raw \div tick) * tick

SnapUp(raw, tick) ==
  LET snapped == ((raw + tick - 1) \div tick) * tick
  IN IF snapped >= One THEN One - tick ELSE snapped

\* The two tests before the price is used.
Clamp(price) == IF price < Tick THEN Tick ELSE IF price >= One THEN One - Tick ELSE price

\* What Down costs where Up costs price, but never nothing.
Complement(price) == IF One > price THEN One - price ELSE Tick

\* A plausible slip: the limit is as far as the price goes, as in a market order.
CrossingPrice_Market(d, ask) == IF d = "UP" THEN One - Tick ELSE Tick

\* The price of Up at which an order of direction d crosses the best ask.
CrossingPrice(d, ask) ==
  Clamp(IF d = "UP"
        THEN SnapUp(ask + Tick * Cross, Tick)
        ELSE LET yes == Complement(ask) IN
             SnapDown(IF yes > Tick * Cross THEN yes - Tick * Cross ELSE Tick, Tick))

\* What an order priced at yesPrice may pay for one contract of direction d.
Limit(d, yesPrice) == IF d = "UP" THEN yesPrice ELSE Complement(yesPrice)

\* The quantity levels offer at limit or better.
Depth(levels, limit) ==
  FoldSeq(LAMBDA l, sum : IF l.price <= limit THEN sum + l.quantity ELSE sum, 0, levels)

\* The book as read has enough for the order.
Fillable(levels, limit, quantity) == Depth(levels, limit) >= quantity

\* A plausible slip: an order that would outlive the market is cut to its end.
ExpireAt_NoMargin(t) == IF t + OrderLife >= Expiry THEN Expiry - 1 ELSE t + OrderLife

\* When an order prepared at t expires.
ExpireAt(t) ==
  IF t + OrderLife < Expiry THEN t + OrderLife
  ELSE IF Expiry > t + Margin THEN Expiry - 1
  ELSE t + 1

----------------------------------------------------------------------------
Fields(d, asked, b) ==
  LET price == CrossingPrice(d, b[d][1].price) IN
  [pc |-> "prepared", direction |-> d, quantity |-> SnapDown(asked, Lot),
   price |-> price, expires |-> ExpireAt(now), at |-> now, seen |-> b,
   filled |-> 0]

NoOrder ==
  [pc |-> "none", direction |-> "UP", quantity |-> 0, price |-> 0,
   expires |-> 0, at |-> 0, seen |-> None, filled |-> 0]

\* Where an order stands: asked for, checked, prepared (there is a PENDING
\* prediction), in the mempool, mined or reverted.
Steps == {"none", "checked", "prepared", "sent", "mined", "reverted"}

Priced == Steps \ {"none", "checked"}

Init ==
  /\ now \in Times
  /\ book \in Books
  /\ order = [o \in Ids |-> NoOrder]
  /\ held = [d \in Directions |-> 0]
  /\ proof = [o \in Ids |-> None]
  /\ credit = [o \in Ids |-> None]

\* Time passes.
Pass(t) ==
  /\ t > now
  /\ now' = t
  /\ UNCHANGED <<book, order, wallet>>

\* Others trade, make and cancel: the book becomes another one.
BookMoves ==
  /\ now < Expiry
  /\ book' \in Books \ {book}
  /\ UNCHANGED <<now, order, wallet>>

Goes(o, pc) == order' = [order EXCEPT ![o].pc = pc]

\* assertTradable: the market trades, and for long enough.
CheckTradable(o) ==
  /\ order[o].pc = "none"
  /\ Expiry - now >= Headroom
  /\ Goes(o, "checked")
  /\ UNCHANGED <<now, book, wallet>>

\* prepareBuy, the awaits of the service's own queries later.  It reads the
\* market again, but checks neither its status nor its expiry.
Prepare(o, d, asked) ==
  /\ order[o].pc = "checked"
  /\ SnapDown(asked, Lot) >= MinQuantity
  /\ book[d] # <<>>
  /\ LET prepared == Fields(d, asked, book) IN
       /\ Fillable(book[d], Limit(d, prepared.price), prepared.quantity)
       /\ order' = [order EXCEPT ![o] = prepared]
  /\ UNCHANGED <<now, book, wallet>>

\* Too little asked for, an empty or shallow book: the request is refused.
Refuse(o, d, asked) ==
  /\ order[o].pc = "checked"
  /\ \/ SnapDown(asked, Lot) < MinQuantity
     \/ book[d] = <<>>
     \/ /\ SnapDown(asked, Lot) >= MinQuantity
        /\ book[d] # <<>>
        /\ LET prepared == Fields(d, asked, book) IN
             ~Fillable(book[d], Limit(d, prepared.price), prepared.quantity)
  /\ Goes(o, "none")
  /\ UNCHANGED <<now, book, wallet>>

\* The user signs, however long that takes.
Broadcast(o) ==
  /\ order[o].pc = "prepared"
  /\ Goes(o, "sent")
  /\ UNCHANGED <<now, book, wallet>>

\* The pool matches an immediate-or-cancel order with what the book offers
\* within its limit, and reverts if that is nothing, or too late.
Mine(o) ==
  LET b      == order[o]
      depth  == Depth(book[b.direction], Limit(b.direction, b.price))
      bought == IF depth < b.quantity THEN depth ELSE b.quantity
  IN
  /\ b.pc = "sent"
  /\ \/ /\ now <= b.expires /\ now < Expiry /\ bought \in 1 .. b.quantity
        /\ order' = [order EXCEPT ![o].pc = "mined", ![o].filled = bought]
        /\ held' = [held EXCEPT ![b.direction] = @ + bought]
     \/ /\ now > b.expires \/ now >= Expiry \/ bought = 0
        /\ Goes(o, "reverted")
        /\ UNCHANGED held
  /\ UNCHANGED <<now, book, proof, credit>>

\* The wallet buys, sells, redeems or transfers its tokens elsewhere.
Trade(d, n) ==
  /\ held' = [held EXCEPT ![d] = n]
  /\ UNCHANGED <<now, book, order, proof, credit>>

----------------------------------------------------------------------------
\* verifyFill: what a transaction proves of a prediction it is presented for.

Receipt(p) ==
  [success |-> order[p].pc = "mined", ours |-> TRUE, placed |-> TRUE,
   kind |-> order[p].direction, filled |-> order[p].filled, here |-> TRUE]

\* The transactions a client may name: nothing ties one to the prediction.
Presented == {Receipt(p) : p \in {q \in Ids : order[q].pc \in {"mined", "reverted"}}} \cup Elsewhere

\* A success, sent by the wallet, with an order of the wallet, of the side
\* the prediction takes, or of a side that is not told.
Accepts(o, r) == r.success /\ r.ours /\ r.placed /\ r.kind \in {order[o].direction, None}

Credit(o, r, n) ==
  /\ credit' = [credit EXCEPT ![o] = [quantity |-> n, receipt |-> r]]
  /\ proof' = [proof EXCEPT ![o] = None]
  /\ UNCHANGED <<now, book, order, held>>

Proceeds(o, to) ==
  /\ proof' = [proof EXCEPT ![o] = to]
  /\ UNCHANGED <<now, book, order, held, credit>>

\* The fills of the order that the receipt shows count; it may show none.
\* A receipt that is not accepted, or does not come, changes nothing.
VerifyReceipt(o, r, shown) ==
  /\ order[o].pc \in Priced /\ credit[o] = None /\ proof[o] = None
  /\ Accepts(o, r)
  /\ IF shown /\ r.filled # 0 THEN Credit(o, r, r.filled)
     ELSE Proceeds(o, [pc |-> "balance", receipt |-> r])

\* A plausible slip: yesId and noId are confused.
VerifyBalance_OtherSide(o) ==
  LET p == proof[o]
      n == held[CHOOSE d \in Directions : d # order[o].direction]
  IN
  /\ p # None /\ p.pc = "balance"
  /\ IF n # 0 THEN Credit(o, p.receipt, n) ELSE Proceeds(o, [p EXCEPT !.pc = "indexer"])

\* Then the wallet's whole balance of the outcome token counts.
VerifyBalance(o) ==
  LET p == proof[o]
      n == held[order[o].direction]
  IN
  /\ p # None /\ p.pc = "balance"
  /\ IF n # 0 THEN Credit(o, p.receipt, n) ELSE Proceeds(o, [p EXCEPT !.pc = "indexer"])

\* Then the fills the indexer has of the transaction in the market's pool, if
\* it has them within 15 s; otherwise the confirmation is refused.
VerifyIndexed(o, found) ==
  LET p == proof[o] IN
  /\ p # None /\ p.pc = "indexer"
  /\ IF found /\ p.receipt.here /\ p.receipt.filled # 0
     THEN Credit(o, p.receipt, p.receipt.filled)
     ELSE Proceeds(o, None)

\* The RPC or the indexer fails: the confirmation may be repeated.
VerifyFails(o) == proof[o] # None /\ Proceeds(o, None)

Verify(o) ==
  \/ \E r \in Presented, shown \in BOOLEAN : VerifyReceipt(o, r, shown)
  \/ VerifyBalance(o)
  \/ \E found \in BOOLEAN : VerifyIndexed(o, found)
  \/ VerifyFails(o)

Next ==
  \/ \E t \in Times : Pass(t)
  \/ BookMoves
  \/ \E d \in Directions, n \in Balances : Trade(d, n)
  \/ \E o \in Ids :
       \/ CheckTradable(o)
       \/ \E d \in Directions, asked \in Asked : Prepare(o, d, asked) \/ Refuse(o, d, asked)
       \/ Broadcast(o) \/ Mine(o) \/ Verify(o)

Spec == Init /\ [][Next]_vars

----------------------------------------------------------------------------
\* Properties.

\* The prices the pool accepts: whole ticks strictly between nothing and
\* certainty; and whole lots, at least the minimum, of them.  prepareBuy
\* rounds and clamps to it whatever book it reads.
OnGrid(b) ==
  /\ b.price \in Tick .. One - Tick /\ b.price % Tick = 0
  /\ b.quantity >= MinQuantity /\ b.quantity % Lot = 0

OrderRecords ==
  [pc : Steps, direction : Directions, quantity : Nat, price : Nat, expires : Nat,
   at : Nat, seen : Books \cup {None}, filled : Nat]

\* Every variable keeps its type; a prepared order is one the pool accepts.
TypeOK ==
  /\ now \in Nat
  /\ book \in Books
  /\ order \in [Ids -> OrderRecords]
  /\ \A o \in Ids :
       /\ order[o].filled \in 0 .. order[o].quantity
       /\ order[o].pc \in Priced => OnGrid(order[o]) /\ order[o].seen \in Books
  /\ held \in [Directions -> Nat]
  /\ proof \in [Ids -> [pc : {"balance", "indexer"}, receipt : Receipts] \cup {None}]
  /\ credit \in [Ids -> [quantity : Nat, receipt : Receipts] \cup {None}]

\* Crossing "aggressively" has a limit: nobody pays more than Cross ticks over
\* the best ask that was read, nor certainty's price, though the limit of a
\* Down order is the complement of the price it is sent with.
PriceIsBounded ==
  \A o \in Ids : order[o].pc \in Priced =>
    LET b == order[o] IN
    Limit(b.direction, b.price) \in
      b.seen[b.direction][1].price .. b.seen[b.direction][1].price + Cross * Tick

\* An order prepared while the market is open can still be mined in the next
\* second and never outlives the market, also when preparing it was slow and
\* the market's end is closer than the headroom that was checked.
OrderOutlivesNothing ==
  \A o \in Ids : order[o].pc \in Priced /\ order[o].at < Expiry =>
    order[o].at < order[o].expires /\ order[o].expires <= Expiry

\* Whatever transaction is presented, and whatever the wallet does between the
\* three sources that verifyFill asks: a credit is what that transaction, one
\* of the wallet on the prediction's side, bought, or all that the wallet has
\* of that side when it is asked; and never nothing.
CreditIsBacked ==
  [][\A o \in Ids : credit'[o] # credit[o] =>
       LET c == credit'[o] IN
       /\ c.receipt.success /\ c.receipt.ours
       /\ c.receipt.kind \in {order[o].direction, None}
       /\ c.quantity \in {c.receipt.filled, held[order[o].direction]} \ {0}]_vars
=============================================================================
