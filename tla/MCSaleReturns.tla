---------------------------- MODULE MCSaleReturns ----------------------------
(* Two phones of a store.  Sale x1 has 4 units on line 1 and 2 on line 2,      *)
(* sale x2 has 2 units on line 3; the francs paid come from the allocation of  *)
(* a discounted total.  d1 and d2 return units of both sales in opposite order.*)
EXTENDS SaleReturns, TLC

CONSTANTS x1, x2, r1, r2, r3, r4, d1, d2, p1, p2

MCSaleLine == <<x1, x1, x2>>
MCSold     == <<4, 2, 2>>
MCProduct  == <<p1, p2, p2>>
\* x1: 1200 and 601 francs, 297 francs off: AllocatePaid shares 1504 francs out as
\* 1002 (not a multiple of the 4 units) and 502.  x2: 5 francs.
MCPaid     == <<1002, 502, 5>>

MCSaleOf == r1 :> x1 @@ r2 :> x2 @@ r3 :> x2 @@ r4 :> x1
MCQty    == r1 :> <<1, 0, 0>> @@ r2 :> <<0, 0, 1>> @@ r3 :> <<0, 0, 2>> @@ r4 :> <<1, 2, 0>>
MCResellable == r1 :> Lines @@ r2 :> Lines @@ r3 :> {} @@ r4 :> Lines

\* d2 knew of the unit of r1 when it wrote r4, the devices knew nothing else: r4 is
\* right after r1 and r1 is not after r4.
Unaware     == <<0, 0, 0>>
MCKnowledge == {r1 :> Unaware @@ r2 :> Unaware @@ r3 :> Unaware @@ r4 :> <<1, 0, 0>>}

MCOrigin   == r1 :> d1 @@ r2 :> d1 @@ r3 :> d2 @@ r4 :> d2
MCPosition == r1 :> 1 @@ r2 :> 2 @@ r3 :> 1 @@ r4 :> 2

=============================================================================
