----------------------------- MODULE RefundRules -----------------------------
(***************************************************************************)
(* The arithmetic of a customer return (ADR-0010), which the app and the   *)
(* server must compute alike.  Amounts of a sale are in centimes, refunds  *)
(* in whole francs; lines are identified by naturals, whose order is the   *)
(* order of their ids.                                                     *)
(***************************************************************************)
EXTENDS Integers, FiniteSets, Functions

Cents == 100

Subtotal(lineTotal) == SumFunction(lineTotal)

\* The share of the collected total that line l paid, rounded down, and what
\* the rounding left, as numerators over the subtotal.
Floor(lineTotal, francs, l) == (lineTotal[l] * francs) \div Subtotal(lineTotal)
Remainder(lineTotal, francs, l) == (lineTotal[l] * francs) % Subtotal(lineTotal)

\* Lines served before l: a larger remainder, or the same one and a lower id.
Before(lineTotal, francs, l) ==
  {m \in DOMAIN lineTotal :
     LET rm == Remainder(lineTotal, francs, m)
         rl == Remainder(lineTotal, francs, l)
     IN rm > rl \/ (rm = rl /\ m < l)}

\* The francs that the shares rounded down leave to give out.
Leftover(lineTotal, francs) ==
  francs - SumFunction([l \in DOMAIN lineTotal |-> Floor(lineTotal, francs, l)])

\* What each line paid, in francs: the largest remainder method.  Mutant: the
\* francs left over go to the first lines of the sale.
AllocatePaid_FirstLines(lineTotal, total) ==
  LET francs == total \div Cents
  IN IF Subtotal(lineTotal) = 0
     THEN [l \in DOMAIN lineTotal |-> 0]
     ELSE [l \in DOMAIN lineTotal |->
             Floor(lineTotal, francs, l) + IF l <= Leftover(lineTotal, francs) THEN 1 ELSE 0]

AllocatePaid(lineTotal, total) ==
  LET francs == total \div Cents
  IN IF Subtotal(lineTotal) = 0
     THEN [l \in DOMAIN lineTotal |-> 0]
     ELSE [l \in DOMAIN lineTotal |->
             Floor(lineTotal, francs, l) +
             IF Cardinality(Before(lineTotal, francs, l)) < Leftover(lineTotal, francs)
             THEN 1 ELSE 0]

\* The francs of a line that paid `paid` for `sold` units that are due once n
\* of them are back.
Due(paid, sold, n) == (paid * n) \div sold

\* Refund for q more units.  Mutant: each return is rounded on its own.
RefundFor_RoundEach(paid, sold, already, q) == (2 * paid * q + sold) \div (2 * sold)

RefundFor(paid, sold, already, q) ==
  Due(paid, sold, already + q) - Due(paid, sold, already)

=============================================================================
