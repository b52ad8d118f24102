--------------------------- MODULE RefundSequence ---------------------------
(***************************************************************************)
(* Successive returns of one sale, one at a time: what the rules of        *)
(* RefundRules add up to, whatever the way the units come back.  The       *)
(* interleavings of concurrent returns are in SaleReturns, whose names are *)
(* not used here: the proofs about both are in one module.                 *)
(***************************************************************************)
EXTENDS RefundRules

CONSTANTS Items,       \* ids of the lines of the sale
          Amounts,     \* line totals to consider, in centimes
          Quantities,  \* sold quantities to consider
          Discounts    \* global discounts to consider, in centimes

\* Ids are ordered, a sold quantity is positive (SaleItemCreate), and amounts
\* are centimes.
ASSUME RefundAssumption ==
  /\ Items \subseteq Nat /\ IsFiniteSet(Items)
  /\ Amounts \subseteq Nat
  /\ Quantities \subseteq Nat \ {0}
  /\ Discounts \subseteq Nat

VARIABLES lineTotal,   \* sale_items.line_total
          sold,        \* sale_items.quantity
          total,       \* sales.total_amount
          paid,        \* francs each line paid, a function of the two above
          returned,    \* quantity returned of each line
          refunded     \* francs refunded for each line

sequenceVars == <<lineTotal, sold, total, paid, returned, refunded>>

\* validate_sale lets the total be one centime off the subtotal minus the
\* discount, either way.
Tolerance == 1

ValidTotal(t, d) == /\ d <= Subtotal(lineTotal)
                    /\ t \in Nat
                    /\ t - (Subtotal(lineTotal) - d) \in -Tolerance..Tolerance

SequenceInit ==
  /\ lineTotal \in [Items -> Amounts]
  /\ sold \in [Items -> Quantities]
  /\ \E d \in Discounts : \E off \in -Tolerance..Tolerance :
       /\ total = Subtotal(lineTotal) - d + off
       /\ ValidTotal(total, d)
  /\ paid = AllocatePaid(lineTotal, total)
  /\ returned = [l \in Items |-> 0]
  /\ refunded = [l \in Items |-> 0]

\* A return of q units of one line, accepted by create_return.
ReturnUnits(l, q) ==
  /\ returned[l] + q <= sold[l]
  /\ returned' = [returned EXCEPT ![l] = @ + q]
  /\ refunded' = [refunded EXCEPT ![l] = @ + RefundFor(paid[l], sold[l], returned[l], q)]
  /\ UNCHANGED <<lineTotal, sold, total, paid>>

SequenceNext == \E l \in Items : \E q \in 1..sold[l] : ReturnUnits(l, q)

SequenceSpec == SequenceInit /\ [][SequenceNext]_sequenceVars

-----------------------------------------------------------------------------

AllocationIsFair ==
  LET sub == Subtotal(lineTotal)
      francs == total \div Cents
  IN /\ \A l \in Items : paid[l] * sub - lineTotal[l] * francs \in -sub..sub
     /\ \A l, m \in Items : lineTotal[l] < lineTotal[m] => paid[l] <= paid[m]

\* However the units come back, a line never refunds more than it paid, and
\* exactly that once all its units are back (refund.py, rule 2); when the whole
\* sale has come back the shop has given back exactly what it collected.  What
\* a line paid is within one franc of its share and never less than what a
\* cheaper line paid (rule 1).
RefundsAddUp ==
  /\ AllocationIsFair
  /\ \A l \in Items : /\ refunded[l] \in 0..paid[l]
                      /\ returned[l] = sold[l] => refunded[l] = paid[l]
  /\ returned = sold => SumFunction(refunded) = total \div Cents

=============================================================================
