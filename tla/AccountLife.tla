----------------------------- MODULE AccountLife ----------------------------
(***************************************************************************)
(* What the backend promises about the data of an account (ADR-0003,       *)
(* ADR-0011), without tables, transactions or locks: a sale is stored with *)
(* its lines and movements or not at all, beside everything it refers to;  *)
(* the deletion of the account takes all of it at once; what is gone stays *)
(* gone.                                                                   *)
(***************************************************************************)
CONSTANTS Established,  \* the rows of the account at the start
          Units,        \* the sets of rows that belong together
          Refs          \* the rows each row refers to

VARIABLE data           \* the rows of the account

Init == data = Established

\* A request stores some units (a batch).
Store ==
  /\ data # {}
  /\ \E units \in SUBSET Units :
        /\ data' = data \cup UNION units
        /\ \A r \in UNION units : Refs[r] \subseteq data'

Delete == data' = {}

Next == Store \/ Delete

Spec == Init /\ [][Next]_data

=============================================================================
