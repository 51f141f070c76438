---------------------------- MODULE Orders_proofs ----------------------------
(***************************************************************************)
(* Theorems about Orders, for every grid of prices and lots, every set of  *)
(* books and amounts, and all times.                                       *)
(***************************************************************************)
EXTENDS Orders, TLAPS

----------------------------------------------------------------------------
\* Whole numbers of ticks and lots.

LEMMA Whole ==
  ASSUME NEW n \in Nat, NEW t \in Nat \ {0}, n % t = 0
  PROVE  \E k \in Nat : n = k * t
<1>1. n = t * (n \div t) + (n % t) /\ n \div t \in Nat
  OBVIOUS
<1>2. n = (n \div t) * t
  BY <1>1
<1> QED
  BY <1>1, <1>2

LEMMA Multiples ==
  ASSUME NEW k \in Nat, NEW t \in Nat \ {0}
  PROVE  /\ k * t \in Nat /\ (k * t) \div t = k /\ (k * t) % t = 0
         /\ (k * t + t - 1) \div t = k
<1>1. k * t \in Nat
  OBVIOUS
<1>2. (k * t) \div t = k
  OBVIOUS
<1>3. (k * t) % t = 0
  OBVIOUS
<1>4. (k * t + t - 1) \div t = k
  OBVIOUS
<1> QED
  BY <1>1, <1>2, <1>3, <1>4

\* Rounding leaves what is whole, and makes whole what is not.
LEMMA SnapDownWhole ==
  ASSUME NEW k \in Nat, NEW t \in Nat \ {0}
  PROVE  SnapDown(k * t, t) = k * t
BY Multiples DEF SnapDown

LEMMA SnapDownMakesWhole ==
  ASSUME NEW n \in Nat, NEW t \in Nat \ {0}
  PROVE  SnapDown(n, t) \in Nat /\ SnapDown(n, t) % t = 0
<1>1. n \div t \in Nat
  OBVIOUS
<1> QED
  BY <1>1, Multiples DEF SnapDown

LEMMA SnapUpWhole ==
  ASSUME NEW k \in Nat
  PROVE  SnapUp(k * Tick, Tick) = IF k * Tick >= One THEN One - Tick ELSE k * Tick
<1>1. Tick \in Nat \ {0}
  BY GridAssumption
<1> QED
  BY <1>1, Multiples DEF SnapUp

\* Certainty and every price of a book is a number of ticks.
LEMMA Grid ==
  ASSUME NEW ask \in Tick .. One - Tick, ask % Tick = 0
  PROVE  \E k, m \in Nat \ {0} : k < m /\ ask = k * Tick /\ One = m * Tick
<1>1. Tick \in Nat \ {0} /\ One \in Nat \ {0} /\ ask \in Nat \ {0} /\ ask < One
  BY GridAssumption
<1>2. PICK k \in Nat : ask = k * Tick
  BY <1>1, Whole
<1>3. PICK m \in Nat : One = m * Tick
  BY <1>1, Whole, GridAssumption
<1>4. k # 0 /\ m # 0
  BY <1>1, <1>2, <1>3
<1>5. k < m
  <2> SUFFICES ASSUME m <= k PROVE FALSE
    BY <1>2, <1>3
  <2>1. PICK j \in Nat : k = m + j
    <3>1. k - m \in Nat /\ k = m + (k - m)
      BY <1>2, <1>3
    <3> QED
      BY <3>1
  <2>2. ask = One + j * Tick
    BY <1>1, <1>2, <1>3, <2>1
  <2>3. j * Tick \in Nat
    BY <1>1
  <2> QED
    BY <1>1, <2>2, <2>3
<1> QED
  BY <1>2, <1>3, <1>4, <1>5

\* The price an order is sent with: on the grid, and within Cross ticks of
\* the ask on the order's own side.
LEMMA CrossingPriceIsGood ==
  ASSUME NEW d \in Directions, NEW ask \in Tick .. One - Tick, ask % Tick = 0
  PROVE  /\ CrossingPrice(d, ask) \in Tick .. One - Tick
         /\ CrossingPrice(d, ask) % Tick = 0
         /\ Limit(d, CrossingPrice(d, ask)) \in ask .. ask + Cross * Tick
<1>1. Tick \in Nat \ {0} /\ One \in Nat \ {0} /\ Cross \in Nat /\ ask \in Nat /\ Tick < One
  BY GridAssumption
<1>2. PICK k, m \in Nat \ {0} : k < m /\ ask = k * Tick /\ One = m * Tick
  BY Grid
<1>3. ASSUME NEW j \in Nat PROVE j * Tick \in Nat /\ (j * Tick) % Tick = 0
  BY <1>1, Multiples
<1>4. One - Tick = (m - 1) * Tick /\ m - 1 \in Nat
  BY <1>1, <1>2
<1>5. (One - Tick) % Tick = 0
  BY <1>3, <1>4
<1>6. Cross * Tick \in Nat /\ Tick * Cross = Cross * Tick
  BY <1>1
<1>7. ASSUME NEW p \in Tick .. One - Tick PROVE Clamp(p) = p
  BY <1>1 DEF Clamp
<1>8. CASE d = "UP"
  <2> DEFINE raw == (k + Cross) * Tick
  <2>1. raw = ask + Cross * Tick /\ raw \in Nat /\ raw % Tick = 0
    BY <1>1, <1>2, <1>3
  <2>2. SnapUp(raw, Tick) = IF raw >= One THEN One - Tick ELSE raw
    <3>1. k + Cross \in Nat
      BY <1>1, <1>2
    <3> QED
      BY <3>1, SnapUpWhole
  <2>3. CASE raw >= One
    <3>1. CrossingPrice(d, ask) = One - Tick
      BY <1>1, <1>6, <1>7, <1>8, <2>1, <2>2, <2>3 DEF CrossingPrice
    <3> QED
      BY <1>1, <1>5, <1>6, <1>8, <2>1, <2>3, <3>1 DEF Limit
  <2>4. CASE raw < One
    <3>1. raw \in Tick .. One - Tick
      <4>1. k + Cross < m
        <5> SUFFICES ASSUME m <= k + Cross PROVE FALSE
          BY <1>1, <1>2
        <5>1. PICK j \in Nat : k + Cross = m + j
          <6>1. k + Cross - m \in Nat /\ k + Cross = m + (k + Cross - m)
            BY <1>1, <1>2
          <6> QED
            BY <6>1
        <5>2. raw = One + j * Tick
          BY <1>1, <1>2, <5>1
        <5> QED
          BY <1>1, <1>3, <2>4, <5>2
      <4>2. PICK j \in Nat : m - 1 = k + Cross + j
        <5>1. m - 1 - k - Cross \in Nat /\ m - 1 = k + Cross + (m - 1 - k - Cross)
          BY <1>1, <1>2, <4>1
        <5> QED
          BY <5>1
      <4>3. One - Tick = raw + j * Tick
        BY <1>1, <1>2, <1>4, <4>2
      <4> QED
        BY <1>1, <1>3, <1>6, <2>1, <4>3
    <3>2. CrossingPrice(d, ask) = raw
      BY <1>1, <1>6, <1>7, <1>8, <2>1, <2>2, <2>4, <3>1 DEF CrossingPrice
    <3> QED
      BY <1>1, <1>6, <1>8, <2>1, <3>1, <3>2 DEF Limit
  <2> QED
    BY <1>1, <2>1, <2>3, <2>4
<1>9. CASE d = "DOWN"
  <2>1. Complement(ask) = One - ask /\ One - ask = (m - k) * Tick /\ One - ask \in Nat
    BY <1>1, <1>2 DEF Complement
  <2>2. CASE One - ask > Cross * Tick
    <3> DEFINE raw == (m - k - Cross) * Tick
    <3>1. raw = One - ask - Cross * Tick /\ raw \in Nat \ {0}
      BY <1>1, <1>2, <1>6, <2>1, <2>2
    <3>2. m - k - Cross \in Nat \ {0}
      <4> SUFFICES ASSUME m - k <= Cross PROVE FALSE
        BY <1>1, <1>2
      <4>1. PICK j \in Nat : Cross = (m - k) + j
        <5>1. Cross - (m - k) \in Nat /\ Cross = (m - k) + (Cross - (m - k))
          BY <1>1, <1>2
        <5> QED
          BY <5>1
      <4>2. Cross * Tick = (m - k) * Tick + j * Tick
        BY <1>1, <1>2, <4>1
      <4> QED
        BY <1>1, <1>3, <2>1, <2>2, <4>2
    <3>3. raw % Tick = 0 /\ SnapDown(raw, Tick) = raw
      <4>1. m - k - Cross \in Nat /\ Tick \in Nat \ {0}
        BY <1>1, <3>2
      <4>2. SnapDown((m - k - Cross) * Tick, Tick) = (m - k - Cross) * Tick
        BY <4>1, SnapDownWhole
      <4>3. ((m - k - Cross) * Tick) % Tick = 0
        BY <1>3, <4>1
      <4> QED
        BY <4>2, <4>3
    <3>4. raw \in Tick .. One - Tick
      <4>1. PICK j \in Nat : m - k - Cross = 1 + j
        <5>1. m - k - Cross - 1 \in Nat /\ m - k - Cross = 1 + (m - k - Cross - 1)
          BY <1>1, <1>2, <3>2
        <5> QED
          BY <5>1
      <4>2. raw = Tick + j * Tick
        BY <1>1, <4>1
      <4> QED
        BY <1>1, <1>3, <1>6, <3>1, <4>2
    <3>5. CrossingPrice(d, ask) = raw
      BY <1>1, <1>6, <1>7, <1>9, <2>1, <2>2, <3>1, <3>3, <3>4 DEF CrossingPrice
    <3>6. Limit(d, raw) = One - raw
      BY <1>1, <1>9, <3>4 DEF Limit, Complement
    <3> QED
      BY <1>1, <1>6, <3>1, <3>3, <3>4, <3>5, <3>6
  <2>3. CASE ~(One - ask > Cross * Tick)
    <3>1. 1 * Tick = Tick /\ SnapDown(1 * Tick, Tick) = 1 * Tick /\ (1 * Tick) % Tick = 0
      <4>1. SnapDown(1 * Tick, Tick) = 1 * Tick
        BY <1>1, SnapDownWhole
      <4>2. (1 * Tick) % Tick = 0
        BY <1>3
      <4>3. 1 * Tick = Tick
        BY <1>1
      <4> QED
        BY <4>1, <4>2, <4>3
    <3>2. Tick \in Tick .. One - Tick
      BY <1>1
    <3>3. CrossingPrice(d, ask) = Tick
      BY <1>1, <1>6, <1>7, <1>9, <2>1, <2>3, <3>1, <3>2 DEF CrossingPrice
    <3>4. Limit(d, Tick) = One - Tick
      BY <1>1, <1>9 DEF Limit, Complement
    <3> QED
      BY <1>1, <1>6, <2>3, <3>1, <3>2, <3>3, <3>4
  <2> QED
    BY <2>2, <2>3
<1> QED
  BY <1>8, <1>9 DEF Directions

----------------------------------------------------------------------------
\* The order prepareBuy makes.

\* It leaves time for one block at least, and none beyond the market's end.
LEMMA ExpireAtIsGood ==
  ASSUME NEW t \in Nat
  PROVE  /\ ExpireAt(t) \in Nat /\ ExpireAt(t) > t
         /\ t < Expiry => ExpireAt(t) <= Expiry
BY TimeAssumption DEF ExpireAt

LEMMA BestAsk ==
  ASSUME NEW b \in Books, NEW d \in Directions, b[d] # <<>>
  PROVE  b[d][1].price \in Tick .. One - Tick /\ b[d][1].price % Tick = 0
<1>1. IsSide(b[d])
  BY BooksAssumption
<1>2. 1 \in DOMAIN b[d]
  BY <1>1 DEF IsSide
<1> QED
  BY <1>1, <1>2 DEF IsSide

LEMMA FieldsAreGood ==
  ASSUME NEW d \in Directions, NEW asked \in Asked, NEW b \in Books, now \in Nat,
         b[d] # <<>>, SnapDown(asked, Lot) >= MinQuantity
  PROVE  /\ Fields(d, asked, b) \in OrderRecords
         /\ Fields(d, asked, b).pc = "prepared" /\ Fields(d, asked, b).filled = 0
         /\ Fields(d, asked, b).direction = d /\ Fields(d, asked, b).seen = b
         /\ Fields(d, asked, b).at = now /\ Fields(d, asked, b).expires = ExpireAt(now)
         /\ Fields(d, asked, b).price = CrossingPrice(d, b[d][1].price)
         /\ OnGrid(Fields(d, asked, b))
<1> DEFINE price == CrossingPrice(d, b[d][1].price)
<1>1. price \in Tick .. One - Tick /\ price % Tick = 0
  BY BestAsk, CrossingPriceIsGood
<1>2. SnapDown(asked, Lot) \in Nat /\ SnapDown(asked, Lot) % Lot = 0
  BY SnapDownMakesWhole, GridAssumption, AskedAssumption
<1> HIDE DEF price
<1>3. price \in Nat /\ ExpireAt(now) \in Nat
  <2>1. price \in Nat
    BY <1>1, GridAssumption
  <2>2. ExpireAt(now) \in Nat
    BY ExpireAtIsGood
  <2> QED
    BY <2>1, <2>2
<1>4. Fields(d, asked, b) =
        [pc |-> "prepared", direction |-> d, quantity |-> SnapDown(asked, Lot),
         price |-> price, expires |-> ExpireAt(now), at |-> now, seen |-> b,
         filled |-> 0]
  BY DEF Fields, price
<1>5. Fields(d, asked, b) \in OrderRecords
  BY <1>2, <1>3, <1>4 DEF OrderRecords, Steps
<1>6. OnGrid(Fields(d, asked, b))
  BY <1>1, <1>2, <1>4 DEF OnGrid
<1>7. /\ Fields(d, asked, b).pc = "prepared" /\ Fields(d, asked, b).filled = 0
      /\ Fields(d, asked, b).direction = d /\ Fields(d, asked, b).seen = b
      /\ Fields(d, asked, b).at = now /\ Fields(d, asked, b).expires = ExpireAt(now)
      /\ Fields(d, asked, b).price = CrossingPrice(d, b[d][1].price)
  BY <1>4 DEF price
<1> QED
  BY <1>5, <1>6, <1>7

----------------------------------------------------------------------------
\* The invariant, order by order.

\* What holds of an order once it is prepared.
WellPrepared(b) ==
  /\ OnGrid(b) /\ b.seen \in Books
  /\ Limit(b.direction, b.price) \in
       b.seen[b.direction][1].price .. b.seen[b.direction][1].price + Cross * Tick
  /\ b.at < Expiry => b.at < b.expires /\ b.expires <= Expiry

GoodOrders ==
  {b \in OrderRecords :
     /\ b.filled \in 0 .. b.quantity
     /\ b.pc \in Priced => WellPrepared(b)}

Proofs == [pc : {"balance", "indexer"}, receipt : Receipts] \cup {None}

Credits == [quantity : Nat, receipt : Receipts] \cup {None}

Inv ==
  /\ now \in Nat /\ book \in Books
  /\ order \in [Ids -> GoodOrders]
  /\ held \in [Directions -> Nat]
  /\ proof \in [Ids -> Proofs] /\ credit \in [Ids -> Credits]

\* Inv implies the properties of Orders.
LEMMA InvIs == Inv => TypeOK /\ PriceIsBounded /\ OrderOutlivesNothing
<1> SUFFICES ASSUME Inv PROVE TypeOK /\ PriceIsBounded /\ OrderOutlivesNothing
  OBVIOUS
<1>1. ASSUME NEW o \in Ids PROVE order[o] \in GoodOrders
  BY DEF Inv
<1>2. order \in [Ids -> OrderRecords]
  BY <1>1 DEF Inv, GoodOrders
<1>3. TypeOK
  BY <1>1, <1>2 DEF Inv, GoodOrders, WellPrepared, TypeOK, Proofs, Credits
<1>4. PriceIsBounded
  BY <1>1 DEF GoodOrders, WellPrepared, PriceIsBounded
<1>5. OrderOutlivesNothing
  BY <1>1 DEF GoodOrders, WellPrepared, OrderOutlivesNothing
<1> QED
  BY <1>3, <1>4, <1>5

LEMMA InvInit ==
  ASSUME Init
  PROVE  Inv
<1>1. NoOrder \in GoodOrders
  BY DEF NoOrder, GoodOrders, OrderRecords, Steps, Directions, Priced
<1>2. now \in Nat /\ book \in Books
  BY TimeAssumption DEF Init
<1> QED
  BY <1>1, <1>2 DEF Init, Inv, Proofs, Credits

----------------------------------------------------------------------------
\* The steps.

\* Only where the order stands changes.
LEMMA OrderGoes ==
  ASSUME Inv, UNCHANGED <<now, book, wallet>>,
         NEW o \in Ids, NEW pc \in Steps, Goes(o, pc),
         pc \in Priced => order[o].pc \in Priced
  PROVE  Inv'
<1> DEFINE b == [order[o] EXCEPT !.pc = pc]
<1>1. order[o] \in OrderRecords /\ order[o] \in GoodOrders
  BY DEF Inv, GoodOrders
<1>2. /\ b \in OrderRecords /\ b.pc = pc
      /\ b.direction = order[o].direction /\ b.quantity = order[o].quantity
      /\ b.price = order[o].price /\ b.expires = order[o].expires
      /\ b.at = order[o].at /\ b.seen = order[o].seen /\ b.filled = order[o].filled
  BY <1>1 DEF OrderRecords
<1>3. order' = [order EXCEPT ![o] = b]
  BY DEF Goes, Inv
<1> HIDE DEF b
<1>4. b \in GoodOrders
  BY <1>1, <1>2 DEF GoodOrders, WellPrepared, OnGrid
<1> QED
  BY <1>3, <1>4 DEF Inv, wallet

LEMMA PrepareStep ==
  ASSUME Inv, NEW o \in Ids, NEW d \in Directions, NEW asked \in Asked, Prepare(o, d, asked)
  PROVE  Inv'
<1> DEFINE b == Fields(d, asked, book)
<1>1. book \in Books /\ now \in Nat
  BY DEF Inv
<1>2. /\ b \in OrderRecords /\ b.pc = "prepared" /\ b.filled = 0
      /\ b.direction = d /\ b.seen = book /\ b.at = now /\ b.expires = ExpireAt(now)
      /\ b.price = CrossingPrice(d, book[d][1].price) /\ OnGrid(b)
  BY <1>1, FieldsAreGood DEF Prepare
<1>3. order' = [order EXCEPT ![o] = b] /\ book[d] # <<>> /\ UNCHANGED <<now, book, wallet>>
  BY DEF Prepare
<1> HIDE DEF b
<1>4. Limit(d, b.price) \in book[d][1].price .. book[d][1].price + Cross * Tick
  BY <1>1, <1>2, <1>3, BestAsk, CrossingPriceIsGood
<1>5. b.at < Expiry => b.at < b.expires /\ b.expires <= Expiry
  BY <1>1, <1>2, ExpireAtIsGood
<1>6. WellPrepared(b)
  BY <1>1, <1>2, <1>4, <1>5 DEF WellPrepared
<1>7. b.filled \in 0 .. b.quantity
  BY <1>2 DEF OrderRecords
<1>8. b \in GoodOrders
  BY <1>2, <1>6, <1>7 DEF GoodOrders
<1> QED
  BY <1>3, <1>8 DEF Inv, wallet

\* The pool adds what it sells to what is held.
LEMMA MineStep ==
  ASSUME Inv, NEW o \in Ids, Mine(o)
  PROVE  Inv'
<1> DEFINE d == order[o].direction
           bought == IF Depth(book[d], Limit(d, order[o].price)) < order[o].quantity
                     THEN Depth(book[d], Limit(d, order[o].price)) ELSE order[o].quantity
           b == [order[o] EXCEPT !.pc = "mined", !.filled = bought]
<1>1. /\ order[o] \in OrderRecords /\ order[o] \in GoodOrders
      /\ held \in [Directions -> Nat] /\ order[o].pc = "sent" /\ d \in Directions
  BY DEF Inv, Mine, OrderRecords, GoodOrders
<1>2. CASE Goes(o, "reverted") /\ UNCHANGED held
  BY <1>1, <1>2, OrderGoes DEF Mine, Steps, Priced, wallet
<1>3. CASE /\ bought \in 1 .. order[o].quantity
           /\ order' = [order EXCEPT ![o].pc = "mined", ![o].filled = bought]
           /\ held' = [held EXCEPT ![d] = @ + bought]
  <2>1. order' = [order EXCEPT ![o] = b]
    BY <1>3 DEF Inv
  <2>2. order[o].quantity \in Nat /\ held[d] \in Nat
    BY <1>1 DEF OrderRecords
  <2> HIDE DEF bought
  <2>3. bought \in Nat /\ bought <= order[o].quantity
    BY <1>3, <2>2
  <2>4. /\ b \in OrderRecords /\ b.pc = "mined" /\ b.filled = bought
        /\ b.direction = order[o].direction /\ b.quantity = order[o].quantity
        /\ b.price = order[o].price /\ b.expires = order[o].expires
        /\ b.at = order[o].at /\ b.seen = order[o].seen
    BY <1>1, <2>2, <2>3 DEF OrderRecords, Steps
  <2> HIDE DEF b
  <2>5. held' \in [Directions -> Nat]
    BY <1>1, <1>3, <2>2, <2>3
  <2>6. WellPrepared(b)
    BY <1>1, <2>4 DEF GoodOrders, WellPrepared, OnGrid, Priced, Steps
  <2>7. b.filled \in 0 .. b.quantity
    BY <2>2, <2>3, <2>4
  <2>8. b \in GoodOrders
    BY <2>4, <2>6, <2>7 DEF GoodOrders
  <2> QED
    BY <2>1, <2>5, <2>8 DEF Inv, Mine
<1> QED
  BY <1>2, <1>3 DEF Mine

\* Whatever a transaction is taken to prove, no order changes by it.
LEMMA VerifyStep ==
  ASSUME Inv, NEW o \in Ids, Verify(o)
  PROVE  Inv'
<1>1. ASSUME NEW to \in Proofs, Proceeds(o, to) PROVE Inv'
  BY <1>1 DEF Inv, Proceeds
<1>2. ASSUME NEW r \in Receipts, NEW n \in Nat, Credit(o, r, n) PROVE Inv'
  <2>1. [quantity |-> n, receipt |-> r] \in Credits /\ None \in Proofs
    BY DEF Credits, Proofs
  <2> QED
    BY <1>2, <2>1 DEF Inv, Credit
<1>3. Presented \subseteq Receipts
  <2>1. ASSUME NEW p \in Ids PROVE Receipt(p) \in Receipts
    BY DEF Inv, GoodOrders, OrderRecords, Receipt, Receipts
  <2> QED
    BY <2>1, WalletAssumption DEF Presented
<1>4. None \in Proofs
  BY DEF Proofs
<1>5. ASSUME NEW r \in Presented, NEW shown \in BOOLEAN, VerifyReceipt(o, r, shown) PROVE Inv'
  <2>1. r \in Receipts /\ r.filled \in Nat
    BY <1>3 DEF Receipts
  <2>2. [pc |-> "balance", receipt |-> r] \in Proofs
    BY <2>1 DEF Proofs
  <2>3. Credit(o, r, r.filled) \/ Proceeds(o, [pc |-> "balance", receipt |-> r])
    BY <1>5 DEF VerifyReceipt
  <2> QED
    BY <1>1, <1>2, <2>1, <2>2, <2>3
<1>6. ASSUME proof[o] # None
      PROVE  /\ proof[o] \in [pc : {"balance", "indexer"}, receipt : Receipts]
             /\ proof[o].receipt \in Receipts /\ proof[o].receipt.filled \in Nat
             /\ [proof[o] EXCEPT !.pc = "indexer"] \in Proofs
  <2>1. proof[o] \in [pc : {"balance", "indexer"}, receipt : Receipts]
    BY <1>6 DEF Inv, Proofs
  <2> QED
    BY <2>1 DEF Proofs, Receipts
<1>7. CASE VerifyBalance(o)
  <2>1. held[order[o].direction] \in Nat
    BY DEF Inv, GoodOrders, OrderRecords
  <2>2. \/ Credit(o, proof[o].receipt, held[order[o].direction])
        \/ Proceeds(o, [proof[o] EXCEPT !.pc = "indexer"])
    BY <1>7 DEF VerifyBalance
  <2>3. proof[o] # None
    BY <1>7 DEF VerifyBalance
  <2> QED
    BY <1>1, <1>2, <1>6, <2>1, <2>2, <2>3
<1>8. ASSUME NEW found \in BOOLEAN, VerifyIndexed(o, found) PROVE Inv'
  <2>1. proof[o] # None
        /\ (Credit(o, proof[o].receipt, proof[o].receipt.filled) \/ Proceeds(o, None))
    BY <1>8 DEF VerifyIndexed
  <2> QED
    BY <1>1, <1>2, <1>4, <1>6, <2>1
<1>9. CASE VerifyFails(o)
  BY <1>1, <1>4, <1>9 DEF VerifyFails
<1> QED
  BY <1>5, <1>7, <1>8, <1>9 DEF Verify

LEMMA InvStep ==
  ASSUME Inv, [Next]_vars
  PROVE  Inv'
<1>1. ASSUME NEW t \in Times, Pass(t) PROVE Inv'
  BY <1>1, TimeAssumption DEF Pass, Inv, wallet
<1>2. CASE BookMoves
  BY <1>2 DEF BookMoves, Inv, wallet
<1>3. ASSUME NEW d \in Directions, NEW n \in Balances, Trade(d, n) PROVE Inv'
  BY <1>3, WalletAssumption DEF Trade, Inv
<1>4. ASSUME NEW o \in Ids, CheckTradable(o) \/ Broadcast(o) PROVE Inv'
  <2>1. \/ order[o].pc = "none" /\ Goes(o, "checked")
        \/ order[o].pc = "prepared" /\ Goes(o, "sent")
    BY <1>4 DEF CheckTradable, Broadcast
  <2>2. UNCHANGED <<now, book, wallet>>
    BY <1>4 DEF CheckTradable, Broadcast
  <2> QED
    BY <2>1, <2>2, OrderGoes DEF Steps, Priced
<1>5. ASSUME NEW o \in Ids, NEW d \in Directions, NEW asked \in Asked, Refuse(o, d, asked)
      PROVE  Inv'
  <2>1. Goes(o, "none") /\ UNCHANGED <<now, book, wallet>>
    BY <1>5 DEF Refuse
  <2> QED
    BY <2>1, OrderGoes DEF Steps, Priced
<1>6. CASE UNCHANGED vars
  BY <1>6 DEF vars, wallet, Inv
<1> QED
  BY <1>1, <1>2, <1>3, <1>4, <1>5, <1>6, PrepareStep, MineStep, VerifyStep DEF Next

LEMMA InvCorrect == Spec => []Inv
<1> QED
  BY InvInit, InvStep, PTL DEF Spec

----------------------------------------------------------------------------
\* What a verification goes by.

\* Whatever is being verified was accepted for its prediction, and still would be.
ProofsHold ==
  \A o \in Ids : proof[o] # None => order[o].pc \in Priced /\ Accepts(o, proof[o].receipt)

\* No order that is being verified changes its side.
LEMMA PricedStay ==
  ASSUME Inv, ProofsHold, UNCHANGED proof,
         \A q \in Ids : order[q].pc \in Priced =>
           order'[q].pc \in Priced /\ order'[q].direction = order[q].direction
  PROVE  ProofsHold'
<1> QED
  BY DEF ProofsHold, Accepts

\* What a step of the verification of o does.
LEMMA VerifyDoes ==
  ASSUME Inv, ProofsHold, NEW o \in Ids, Verify(o)
  PROVE  /\ UNCHANGED <<order, held>>
         /\ \/ Proceeds(o, None)
            \/ \E r \in Receipts, pc \in {"balance", "indexer"} :
                 /\ order[o].pc \in Priced /\ Accepts(o, r)
                 /\ Proceeds(o, [pc |-> pc, receipt |-> r])
            \/ \E r \in Receipts, n \in Nat \ {0} :
                 /\ Accepts(o, r) /\ n \in {r.filled, held[order[o].direction]}
                 /\ Credit(o, r, n)
<1>1. Presented \subseteq Receipts
  <2>1. ASSUME NEW p \in Ids PROVE Receipt(p) \in Receipts
    BY DEF Inv, GoodOrders, OrderRecords, Receipt, Receipts
  <2> QED
    BY <2>1, WalletAssumption DEF Presented
<1>2. ASSUME NEW r \in Receipts PROVE r.filled \in Nat
  BY <1>2 DEF Receipts
<1>3. held[order[o].direction] \in Nat
  BY DEF Inv, GoodOrders, OrderRecords
<1>4. ASSUME NEW r \in Presented, NEW shown \in BOOLEAN, VerifyReceipt(o, r, shown)
      PROVE  /\ order[o].pc \in Priced /\ Accepts(o, r) /\ r \in Receipts
             /\ \/ r.filled # 0 /\ Credit(o, r, r.filled)
                \/ Proceeds(o, [pc |-> "balance", receipt |-> r])
  BY <1>1, <1>4 DEF VerifyReceipt
<1>5. ASSUME proof[o] # None
      PROVE  /\ proof[o].receipt \in Receipts
             /\ order[o].pc \in Priced /\ Accepts(o, proof[o].receipt)
             /\ [proof[o] EXCEPT !.pc = "indexer"] = [pc |-> "indexer", receipt |-> proof[o].receipt]
  <2>1. proof[o] \in [pc : {"balance", "indexer"}, receipt : Receipts]
    BY <1>5 DEF Inv, Proofs
  <2> QED
    BY <1>5, <2>1 DEF ProofsHold
<1>6. VerifyBalance(o) =>
        /\ proof[o] # None
        /\ \/ /\ held[order[o].direction] # 0
              /\ Credit(o, proof[o].receipt, held[order[o].direction])
           \/ Proceeds(o, [proof[o] EXCEPT !.pc = "indexer"])
  BY DEF VerifyBalance
<1>7. ASSUME NEW found \in BOOLEAN, VerifyIndexed(o, found)
      PROVE  /\ proof[o] # None
             /\ \/ proof[o].receipt.filled # 0 /\ Credit(o, proof[o].receipt, proof[o].receipt.filled)
                \/ Proceeds(o, None)
  BY <1>7 DEF VerifyIndexed
<1>8. \/ Proceeds(o, None)
      \/ \E r \in Receipts, pc \in {"balance", "indexer"} :
           /\ order[o].pc \in Priced /\ Accepts(o, r)
           /\ Proceeds(o, [pc |-> pc, receipt |-> r])
      \/ \E r \in Receipts, n \in Nat \ {0} :
           /\ Accepts(o, r) /\ n \in {r.filled, held[order[o].direction]}
           /\ Credit(o, r, n)
  <2>1. CASE \E r \in Presented, shown \in BOOLEAN : VerifyReceipt(o, r, shown)
    BY <1>2, <1>4, <2>1
  <2>2. CASE VerifyBalance(o)
    BY <1>3, <1>5, <1>6, <2>2
  <2>3. CASE \E found \in BOOLEAN : VerifyIndexed(o, found)
    BY <1>2, <1>5, <1>7, <2>3
  <2>4. CASE VerifyFails(o)
    BY <2>4 DEF VerifyFails
  <2> QED
    BY <2>1, <2>2, <2>3, <2>4 DEF Verify
<1> QED
  BY <1>8 DEF Proceeds, Credit

LEMMA ProofsStep ==
  ASSUME Inv, ProofsHold, [Next]_vars
  PROVE  ProofsHold'
<1>1. order \in [Ids -> GoodOrders] /\ proof \in [Ids -> Proofs]
  BY DEF Inv
<1>2. ASSUME UNCHANGED <<order, proof>> PROVE ProofsHold'
  BY <1>2, PricedStay
<1>3. ASSUME NEW o \in Ids, NEW pc \in Steps, Goes(o, pc), UNCHANGED proof,
             order[o].pc \in Priced => pc \in Priced
      PROVE  ProofsHold'
  <2>1. order' = [order EXCEPT ![o] = [order[o] EXCEPT !.pc = pc]]
    BY <1>1, <1>3 DEF Goes
  <2>2. order[o] \in OrderRecords
    BY <1>1 DEF GoodOrders
  <2> DEFINE b == [order[o] EXCEPT !.pc = pc]
  <2>3. b.pc = pc /\ b.direction = order[o].direction
    BY <2>2 DEF OrderRecords
  <2> HIDE DEF b
  <2>4. \A q \in Ids : order[q].pc \in Priced =>
          order'[q].pc \in Priced /\ order'[q].direction = order[q].direction
    BY <1>1, <1>3, <2>1, <2>3 DEF b
  <2> QED
    BY <1>3, <2>4, PricedStay
<1>4. ASSUME NEW o \in Ids, NEW d \in Directions, NEW asked \in Asked, Prepare(o, d, asked)
      PROVE  ProofsHold'
  <2>1. order[o].pc = "checked" /\ order' = [order EXCEPT ![o] = Fields(d, asked, book)]
    BY <1>4 DEF Prepare
  <2>2. \A q \in Ids : q # o => order'[q] = order[q]
    BY <1>1, <2>1
  <2> QED
    BY <1>4, <2>1, <2>2, PricedStay DEF Prepare, Priced, wallet
<1>5. ASSUME NEW o \in Ids, Mine(o) PROVE ProofsHold'
  <2>1. order[o].pc = "sent" /\ UNCHANGED proof
    BY <1>5 DEF Mine
  <2>2. order[o] \in OrderRecords
    BY <1>1 DEF GoodOrders
  <2>3. order'[o].direction = order[o].direction /\ order'[o].pc \in {"mined", "reverted"}
    BY <1>1, <1>5, <2>2 DEF Mine, Goes, OrderRecords
  <2>4. \A q \in Ids : q # o => order'[q] = order[q]
    BY <1>1, <1>5 DEF Mine, Goes
  <2> QED
    BY <2>1, <2>3, <2>4, PricedStay DEF Priced, Steps
<1>6. ASSUME NEW o \in Ids, Verify(o) PROVE ProofsHold'
  <2>1. UNCHANGED <<order, held>>
    BY <1>6, VerifyDoes
  <2>2. \A q \in Ids : q # o => proof'[q] = proof[q]
    BY <1>1, <1>6, VerifyDoes DEF Proceeds, Credit
  <2>3. proof'[o] # None => order[o].pc \in Priced /\ Accepts(o, proof'[o].receipt)
    BY <1>1, <1>6, VerifyDoes DEF Proceeds, Credit
  <2> QED
    BY <2>1, <2>2, <2>3 DEF ProofsHold, Accepts
<1>7. ASSUME NEW o \in Ids, NEW d \in Directions, NEW asked \in Asked, Refuse(o, d, asked)
      PROVE  ProofsHold'
  <2>1. order[o].pc = "checked" /\ Goes(o, "none") /\ UNCHANGED proof
    BY <1>7 DEF Refuse, wallet
  <2> QED
    BY <1>3, <2>1 DEF Steps, Priced
<1>8. ASSUME NEW o \in Ids, CheckTradable(o) \/ Broadcast(o) PROVE ProofsHold'
  <2>1. \/ order[o].pc = "none" /\ Goes(o, "checked")
        \/ order[o].pc = "prepared" /\ Goes(o, "sent")
    BY <1>8 DEF CheckTradable, Broadcast
  <2>2. UNCHANGED proof
    BY <1>8 DEF CheckTradable, Broadcast, wallet
  <2> QED
    BY <1>3, <2>1, <2>2 DEF Steps, Priced
<1>9. CASE \/ \E t \in Times : Pass(t)
           \/ BookMoves
           \/ \E d \in Directions, n \in Balances : Trade(d, n)
           \/ UNCHANGED vars
  BY <1>2, <1>9 DEF Pass, BookMoves, Trade, vars, wallet
<1> QED
  BY <1>4, <1>5, <1>6, <1>7, <1>8, <1>9 DEF Next

\* The step that credits a prediction is one of its own verification.
LEMMA BackedStep ==
  ASSUME Inv, ProofsHold, [Next]_vars, NEW o \in Ids, credit'[o] # credit[o]
  PROVE  /\ credit'[o].receipt.success /\ credit'[o].receipt.ours
         /\ credit'[o].receipt.kind \in {order[o].direction, None}
         /\ credit'[o].quantity \in {credit'[o].receipt.filled, held[order[o].direction]} \ {0}
<1>1. credit \in [Ids -> Credits]
  BY DEF Inv
<1>2. PICK p \in Ids : Verify(p)
  BY DEF Next, Pass, BookMoves, Trade, CheckTradable, Prepare, Refuse, Broadcast, Mine, vars, wallet
<1>3. PICK r \in Receipts, n \in Nat \ {0} :
        /\ Accepts(p, r) /\ n \in {r.filled, held[order[p].direction]}
        /\ Credit(p, r, n)
  BY <1>2, VerifyDoes DEF Proceeds
<1>4. p = o
  BY <1>1, <1>3 DEF Credit
<1>5. credit'[o] = [quantity |-> n, receipt |-> r]
  BY <1>1, <1>3, <1>4 DEF Credit
<1> QED
  BY <1>3, <1>4, <1>5 DEF Accepts

----------------------------------------------------------------------------
\* The theorems.

\* Every variable keeps its type, and every prepared order is whole ticks and
\* whole lots the pool accepts, whatever book it was priced against.
THEOREM TypeCorrect == Spec => []TypeOK
<1> QED
  BY InvCorrect, InvIs, PTL

\* Nobody pays more than Cross ticks over the best ask that was read, on
\* either side of the book, and after every rounding and clamping.
THEOREM PriceCorrect == Spec => []PriceIsBounded
<1> QED
  BY InvCorrect, InvIs, PTL

\* An order prepared before the market's end can be mined and expires by then.
THEOREM ExpiryCorrect == Spec => []OrderOutlivesNothing
<1> QED
  BY InvCorrect, InvIs, PTL

\* Whatever transaction a prediction is confirmed with, and whatever the wallet
\* does meanwhile, what it is credited is what an accepted transaction bought,
\* or the wallet has, on the prediction's side.
THEOREM CreditCorrect == Spec => CreditIsBacked
<1>1. Init => ProofsHold
  BY DEF Init, ProofsHold
<1>2. Inv /\ ProofsHold /\ [Next]_vars => ProofsHold'
  BY ProofsStep
<1>3. Inv /\ ProofsHold /\ [Next]_vars =>
        \A o \in Ids : credit'[o] # credit[o] =>
          LET c == credit'[o] IN
          /\ c.receipt.success /\ c.receipt.ours
          /\ c.receipt.kind \in {order[o].direction, None}
          /\ c.quantity \in {c.receipt.filled, held[order[o].direction]} \ {0}
  BY BackedStep
<1> QED
  BY <1>1, <1>2, <1>3, InvCorrect, PTL DEF Spec, CreditIsBacked
=============================================================================
