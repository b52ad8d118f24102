----------------------------- MODULE MCSalePush -----------------------------
(* Two phones of a store; d1 has two sales to push, d2 one whose lines are in *)
(* the opposite order of the primary keys of the products.                    *)
EXTENDS SalePush, TLC

CONSTANTS x1, x2, x3, d1, d2, p1, p2

MCOrigin == x1 :> d1 @@ x2 :> d1 @@ x3 :> d2
MCItems  == x1 :> <<p1>> @@ x2 :> <<p2>> @@ x3 :> <<p2, p1>>
MCDetach == <<p1, p2>>

=============================================================================
