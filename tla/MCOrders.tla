------------------------------ MODULE MCOrders ------------------------------
(***************************************************************************)
(* Orders for TLC.  One = 100 and Tick = 2, so that 25 ticks reach from    *)
(* one end of the book to the middle; the books are empty, thin, split     *)
(* over levels within and beyond the limit, and at either end.             *)
(***************************************************************************)
EXTENDS Orders, TLC

At(price, quantity) == [price |-> price, quantity |-> quantity]

Book(up, down) == [UP |-> up, DOWN |-> down]

FewBooks ==
  {Book(<<At(48, 4), At(98, 20)>>, <<At(46, 4), At(60, 4)>>),
   Book(<<>>, <<At(98, 30)>>),
   Book(<<At(98, 9)>>, <<At(2, 3), At(50, 7), At(52, 9)>>)}

\* A purchase of the wallet in another market, whose receipt does not tell the
\* side; and what verifyFill refuses.
OtherMarket == [success |-> TRUE, ours |-> TRUE, placed |-> TRUE, kind |-> None, filled |-> 1, here |-> FALSE]

Refused == {[OtherMarket EXCEPT !.ours = FALSE], [OtherMarket EXCEPT !.placed = FALSE],
            [OtherMarket EXCEPT !.kind = "SELL"], [OtherMarket EXCEPT !.success = FALSE]}

Others == {OtherMarket} \cup Refused

----------------------------------------------------------------------------
Symmetry == Permutations(Ids)
=============================================================================
