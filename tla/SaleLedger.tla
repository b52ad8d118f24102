----------------------------- MODULE SaleLedger -----------------------------
(***************************************************************************)
(* What the backend promises about the sales of a store (ADR-0003): an     *)
(* append-only ledger in which each sale appears once, under a receipt     *)
(* number that identifies it and that is higher than every number recorded *)
(* before it.  Several sales may be recorded at once (a batch).            *)
(***************************************************************************)
EXTENDS Naturals

CONSTANT Sales

VARIABLE ledger     \* the receipt number of each recorded sale, 0 if none

Recorded(x) == ledger[x] # 0

Init == ledger = [x \in Sales |-> 0]

Record ==
  /\ ledger' \in [Sales -> Nat]
  /\ \A x \in Sales : Recorded(x) => ledger'[x] = ledger[x]
  /\ \A x, y \in Sales : ledger'[x] # 0 /\ ledger'[x] = ledger'[y] => x = y
  /\ \A x, y \in Sales : Recorded(y) /\ ~Recorded(x) /\ ledger'[x] # 0
                           => ledger'[x] > ledger[y]

Spec == Init /\ [][Record]_ledger

=============================================================================
