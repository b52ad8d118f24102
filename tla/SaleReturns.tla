----------------------------- MODULE SaleReturns -----------------------------
(***************************************************************************)
(* The push of customer returns, POST /sync/returns, for one store: the    *)
(* outboxes of the devices, the requests (one SAVEPOINT per return), the   *)
(* lock on the sale that serialises its returns, the checks of quantities  *)
(* and amounts, the return numbers and the movements that put the units    *)
(* back in stock.                                                          *)
(*                                                                         *)
(* Sessions, transactions, SAVEPOINTs and the commit that follows the      *)
(* response are those of SalePush.                                         *)
(***************************************************************************)
EXTENDS RefundRules, Sequences

CONSTANTS Returns,        \* ids of the returns recorded by the devices
          Sales,          \* ids of the sales they are about
          LateSales,      \* sales whose transaction may still be open
          Lines,          \* sale lines
          SaleLine,       \* the sale of a line
          Sold,           \* units sold on a line
          Paid,           \* francs paid for a line (AllocatePaid)
          Products,
          Product,        \* the product of a line
          SaleOf,         \* the sale a return is about
          Qty,            \* units of each line in a return, 0 if none
          Resellable,     \* the lines of a return in resellable condition
          Knowledge,      \* what the devices may have known when they wrote the
                          \* returns: units already back, per return and line
          Devices, Sessions,
          Origin,         \* the device a return was recorded on
          Position,       \* the order in which a device recorded its returns
          StoreRow,       \* the row of table stores (the return counter)
          None,           \* "no session"
          Deletable,      \* bound: the products an owner may delete
          MaxTimeouts,    \* bound: answers a device stops waiting for
          MaxCrashes,     \* bound: lost processes and lost connections
          MaxErrors,      \* bound: unexpected errors in a return
          MaxEvents       \* bound: all of these and deleted products together

ASSUME SaleReturnsAssumption ==
  /\ SaleLine \in [Lines -> Sales]
  /\ Sold \in [Lines -> Nat \ {0}]
  /\ Paid \in [Lines -> Nat]
  /\ Product \in [Lines -> Products]
  /\ SaleOf \in [Returns -> Sales]
  /\ Qty \in [Returns -> [Lines -> Nat]]
  /\ Resellable \in [Returns -> SUBSET Lines]
  /\ Knowledge \subseteq [Returns -> [Lines -> Nat]]
  /\ IsFiniteSet(Returns)
  /\ Origin \in [Returns -> Devices]
  /\ Position \in [Returns -> Nat]
  /\ StoreRow \notin Sales
  /\ None \notin Sessions
  /\ LateSales \subseteq Sales /\ Deletable \subseteq Products
  /\ MaxTimeouts \in Nat /\ MaxCrashes \in Nat /\ MaxErrors \in Nat
  /\ MaxEvents \in Nat

VARIABLES
  stored,    \* table sales: the sales that are committed
  number,    \* table sale_returns: return_number of each return, 0 if absent
  next,      \* stores.next_return_number
  totals,    \* per sale line, the sums of sale_return_items and of movements
  live,      \* products not soft-deleted
  pc,        \* where each session is
  job,       \* what each session works on
  txn,       \* uncommitted writes and row locks of each session
  saved,     \* txn at the last SAVEPOINT
  known,     \* units already back as the device knew them, fixed in the payload
  queue,     \* sync_queue of each device
  waiting,   \* the session whose answer a device waits for
  outcome,   \* what the device was told of a return
  faults     \* how many timeouts, crashes and errors have happened

db     == <<stored, number, next, totals, live>>
server == <<pc, job, txn, saved>>
client == <<known, queue, waiting, outcome>>
vars   == <<db, server, client, faults>>

\* What the returns of a line add up to: units returned, francs refunded, units
\* of the items marked restocked, units of the customer_return movements.
Sums == [units : Nat, francs : Int, marked : Nat, moved : Nat]
NoSums == [units |-> 0, francs |-> 0, marked |-> 0, moved |-> 0]
Plus(a, b) == [units  |-> a.units + b.units,   francs |-> a.francs + b.francs,
               marked |-> a.marked + b.marked, moved  |-> a.moved + b.moved]

Rows == Sales \cup {StoreRow}

Txn == [rows  : [Returns -> Nat],    \* returns inserted, with their number
        taken : Nat,                 \* numbers taken from the counter
        sums  : [Lines -> Sums],     \* items and movements inserted
        locks : SUBSET Rows]         \* row locks held until the end

NewTxn(rows, taken, sums, locks) ==
  [rows |-> rows, taken |-> taken, sums |-> sums, locks |-> locks]
NoWrites == NewTxn([r \in Returns |-> 0], 0, [l \in Lines |-> NoSums], {})

Refusals == {"sale_not_found", "item_not_in_sale", "quantity_exceeded",
             "amount_mismatch"}
Outcomes == {"pending", "stored"} \cup Refusals

Job == [batch   : Seq(Returns),      \* returns still to process
        restock : SUBSET Lines,      \* lines still to put back in stock
        results : SUBSET (Returns \X Outcomes)]   \* failed: no result

NewJob(batch, restock, results) ==
  [batch |-> batch, restock |-> restock, results |-> results]
NoJob == NewJob(<<>>, {}, {})

\* stores.next_return_number of a store.
FirstNumber_Zero == 0
FirstNumber == 1

Steps == {"idle", "look", "lock", "check", "insert", "restock", "respond", "commit"}

Faults == [timeout : 0..MaxTimeouts, crash : 0..MaxCrashes, error : 0..MaxErrors]

Events == faults.timeout + faults.crash + faults.error + Cardinality(Products \ live)

Init ==
  /\ stored = Sales \ LateSales
  /\ number = [r \in Returns |-> 0]
  /\ next = FirstNumber
  /\ totals = [l \in Lines |-> NoSums]
  /\ live = Products
  /\ pc = [s \in Sessions |-> "idle"]
  /\ job = [s \in Sessions |-> NoJob]
  /\ txn = [s \in Sessions |-> NoWrites]
  /\ saved = [s \in Sessions |-> NoWrites]
  /\ known \in Knowledge
  /\ queue = [d \in Devices |-> {r \in Returns : Origin[r] = d}]
  /\ waiting = [d \in Devices |-> None]
  /\ outcome = [r \in Returns |-> "pending"]
  /\ faults = [timeout |-> 0, crash |-> 0, error |-> 0]

-----------------------------------------------------------------------------
(* Devices *)

\* The contents of an outbox, in the order of recording.
Batches(S) == {b \in [1..Cardinality(S) -> S] :
                 \A i, j \in DOMAIN b : i < j => Position[b[i]] < Position[b[j]]}

\* The device sends its whole outbox.
Send(d, s) ==
  /\ waiting[d] = None
  /\ queue[d] # {}
  /\ pc[s] = "idle"
  /\ \E batch \in Batches(queue[d]) : job' = [job EXCEPT ![s] = NewJob(batch, {}, {})]
  /\ pc' = [pc EXCEPT ![s] = "look"]
  /\ waiting' = [waiting EXCEPT ![d] = s]
  /\ UNCHANGED <<db, txn, saved, known, queue, outcome, faults>>

\* The device stops waiting and may send the same returns again.
Timeout(d) ==
  /\ waiting[d] # None
  /\ faults.timeout < MaxTimeouts /\ Events < MaxEvents
  /\ waiting' = [waiting EXCEPT ![d] = None]
  /\ faults' = [faults EXCEPT !.timeout = @ + 1]
  /\ UNCHANGED <<db, server, known, queue, outcome>>

-----------------------------------------------------------------------------
(* What a session sees *)

Current(s) == Head(job[s].batch)

Seen(s, r) == IF txn[s].rows[r] # 0 THEN txn[s].rows[r] ELSE number[r]

\* returned_quantities: the units of line l already back.
Already(s, l) == totals[l].units + txn[s].sums[l].units

\* The amount the device computed with what it knew.
Asked(r, l) == RefundFor(Paid[l], Sold[l], known[r][l], Qty[r][l])

InReturn(r) == {l \in Lines : Qty[r][l] > 0}

\* Why line l of return r is refused when `already` of its units are back.
\* Mutant: only the units of this return are compared with the units sold.
LineRefusals_IgnoresPast(r, l, already) ==
  IF SaleLine[l] # SaleOf[r] THEN {"item_not_in_sale"}
  ELSE IF Qty[r][l] > Sold[l] THEN {"quantity_exceeded"}
  ELSE IF Asked(r, l) # RefundFor(Paid[l], Sold[l], already, Qty[r][l])
  THEN {"amount_mismatch"} ELSE {}

LineRefusals(r, l, already) ==
  IF SaleLine[l] # SaleOf[r] THEN {"item_not_in_sale"}
  ELSE IF already + Qty[r][l] > Sold[l] THEN {"quantity_exceeded"}
  ELSE IF Asked(r, l) # RefundFor(Paid[l], Sold[l], already, Qty[r][l])
  THEN {"amount_mismatch"} ELSE {}

\* No other session holds a lock on row x.
Free(s, x) == \A t \in Sessions \ {s} : x \notin txn[t].locks

\* The row a session's next statement locks.
Wanted(s) == {x \in Rows : \/ pc[s] = "lock" /\ x = SaleOf[Current(s)] /\ x \in stored
                           \/ pc[s] = "insert" /\ x = StoreRow}

Waits(s, t) == t # s /\ Wanted(s) \cap txn[t].locks # {}

\* Sessions that all wait for one another, and no smaller set of them does.
Circle(C) == C # {} /\ \A s \in C : \E t \in C : Waits(s, t)
Deadlocked(C) == Circle(C) /\ \A D \in SUBSET C : Circle(D) => D = C

-----------------------------------------------------------------------------
(* One return of a request: create_return inside its SAVEPOINT *)

\* The result of the current return is known: go on with the next one.
NextReturn(s, results) ==
  /\ job' = [job EXCEPT ![s] = NewJob(Tail(job[s].batch), {},
                                      job[s].results \cup results)]
  /\ pc' = [pc EXCEPT ![s] =
              IF Tail(job[s].batch) = <<>> THEN "respond" ELSE "look"]

\* already_exists, with what the transaction holds so far.
Exists(s) == NextReturn(s, {<<Current(s), "stored">>}) /\ UNCHANGED txn

\* An exception leaves the SAVEPOINT: its writes and its locks are gone, and the
\* numbers it took.  Mutant: numbers come from a sequence, never given back.
RollBack_Sequence(s) ==
  txn' = [txn EXCEPT ![s] = [saved[s] EXCEPT !.taken = txn[s].taken]]

RollBack(s) == txn' = [txn EXCEPT ![s] = saved[s]]

\* Any exception but ReturnRejectedError: `failed`, the device keeps the return.
FailReturn(s) == NextReturn(s, {}) /\ RollBack(s)

\* ReturnRejectedError: a final answer, with its code.  Mutant: answered like
\* any other error.
Refuse_AsFailed(s, code) == FailReturn(s)

Refuse(s, code) == NextReturn(s, {<<Current(s), code>>}) /\ RollBack(s)

\* SAVEPOINT, then get_by_id.
Look(s) ==
  /\ pc[s] = "look"
  /\ saved' = [saved EXCEPT ![s] = txn[s]]
  /\ IF Seen(s, Current(s)) # 0
     THEN Exists(s)
     ELSE pc' = [pc EXCEPT ![s] = "lock"] /\ UNCHANGED <<job, txn>>
  /\ UNCHANGED <<db, client, faults>>

\* SELECT ... FOR UPDATE on the sale, which waits for the sessions that process
\* a return of the same sale.  Mutant: without FOR UPDATE.
LockSale_PlainSelect(s) ==
  /\ pc[s] = "lock"
  /\ IF SaleOf[Current(s)] \notin stored
     THEN Refuse(s, "sale_not_found")
     ELSE pc' = [pc EXCEPT ![s] = "check"] /\ UNCHANGED <<job, txn>>
  /\ UNCHANGED <<db, saved, client, faults>>

LockSale(s) ==
  /\ pc[s] = "lock"
  /\ LET x == SaleOf[Current(s)] IN
       IF x \notin stored
       THEN Refuse(s, "sale_not_found")
       ELSE /\ Free(s, x)
            /\ txn' = [txn EXCEPT ![s] =
                 NewTxn(txn[s].rows, txn[s].taken, txn[s].sums, txn[s].locks \cup {x})]
            /\ pc' = [pc EXCEPT ![s] = "check"]
            /\ UNCHANGED job
  /\ UNCHANGED <<db, saved, client, faults>>

\* The return may have been stored while the session waited for the lock.  The
\* first line at fault decides the refusal; otherwise the resellable lines whose
\* product is still active will be restocked.  Mutant: no second look.
Check_NoSecondLook(s) ==
  /\ pc[s] = "check"
  /\ LET r == Current(s)
         faulty == {l \in InReturn(r) : LineRefusals(r, l, Already(s, l)) # {}}
     IN \/ \E l \in faulty : \E code \in LineRefusals(r, l, Already(s, l)) :
             Refuse(s, code)
        \/ /\ faulty = {}
           /\ pc' = [pc EXCEPT ![s] = "insert"]
           /\ job' = [job EXCEPT ![s] = NewJob(job[s].batch,
                {l \in InReturn(r) \cap Resellable[r] : Product[l] \in live},
                job[s].results)]
           /\ UNCHANGED txn
  /\ UNCHANGED <<db, saved, client, faults>>

Check(s) ==
  /\ pc[s] = "check"
  /\ LET r == Current(s)
         faulty == {l \in InReturn(r) : LineRefusals(r, l, Already(s, l)) # {}}
     IN \/ Seen(s, r) # 0 /\ Exists(s)
        \/ /\ Seen(s, r) = 0
           /\ \E l \in faulty : \E code \in LineRefusals(r, l, Already(s, l)) :
                Refuse(s, code)
        \/ /\ Seen(s, r) = 0
           /\ faulty = {}
           /\ pc' = [pc EXCEPT ![s] = "insert"]
           /\ job' = [job EXCEPT ![s] = NewJob(job[s].batch,
                {l \in InReturn(r) \cap Resellable[r] : Product[l] \in live},
                job[s].results)]
           /\ UNCHANGED txn
  /\ UNCHANGED <<db, saved, client, faults>>

\* The items of the current return, as they add to the sums of a line.
Item(s, l) ==
  LET r == Current(s)
      q == Qty[r][l]
  IN [units  |-> q,
      francs |-> RefundFor(Paid[l], Sold[l], Already(s, l), q),
      marked |-> IF l \in job[s].restock THEN q ELSE 0,
      moved  |-> 0]

\* The INSERT of the return and its items; its trigger takes a number from the
\* store row, which must be free.  That the primary key never refuses it, because
\* the return is not stored yet, is what BooksAgree shows.
\* Mutant: the trigger reads the counter and does not lock it.
InsertReturn_Unlocked(s) ==
  /\ pc[s] = "insert"
  /\ Free(s, StoreRow)
  /\ txn' = [txn EXCEPT ![s] =
       NewTxn([txn[s].rows EXCEPT ![Current(s)] = next + txn[s].taken],
              txn[s].taken + 1,
              [l \in Lines |-> Plus(txn[s].sums[l], Item(s, l))],
              txn[s].locks)]
  /\ pc' = [pc EXCEPT ![s] = "restock"]
  /\ UNCHANGED <<db, job, saved, client, faults>>

InsertReturn(s) ==
  /\ pc[s] = "insert"
  /\ Free(s, StoreRow)
  /\ txn' = [txn EXCEPT ![s] =
       NewTxn([txn[s].rows EXCEPT ![Current(s)] = next + txn[s].taken],
              txn[s].taken + 1,
              [l \in Lines |-> Plus(txn[s].sums[l], Item(s, l))],
              txn[s].locks \cup {StoreRow})]
  /\ pc' = [pc EXCEPT ![s] = "restock"]
  /\ UNCHANGED <<db, job, saved, client, faults>>

Movement(q) == [units |-> 0, francs |-> 0, marked |-> 0, moved |-> q]
WithMovement(s, l) == NewTxn(txn[s].rows, txn[s].taken,
  [m \in Lines |-> IF m = l THEN Plus(txn[s].sums[m], Movement(Qty[Current(s)][m]))
                            ELSE txn[s].sums[m]],
  txn[s].locks)
Restocked(s, l) == [job EXCEPT ![s] =
  NewJob(job[s].batch, job[s].restock \ {l}, job[s].results)]

\* record_return_movements for one line: a product gone since the check raises
\* and the return fails.  Mutant: the error is swallowed as it is for a sale.
Restock_Swallows(s, l) ==
  /\ pc[s] = "restock"
  /\ l \in job[s].restock
  /\ job' = Restocked(s, l)
  /\ IF Product[l] \in live
     THEN txn' = [txn EXCEPT ![s] = WithMovement(s, l)]
     ELSE UNCHANGED txn
  /\ UNCHANGED <<db, pc, saved, client, faults>>

Restock(s, l) ==
  /\ pc[s] = "restock"
  /\ l \in job[s].restock
  /\ IF Product[l] \in live
     THEN /\ txn' = [txn EXCEPT ![s] = WithMovement(s, l)]
          /\ job' = Restocked(s, l)
          /\ UNCHANGED pc
     ELSE FailReturn(s)
  /\ UNCHANGED <<db, saved, client, faults>>

\* The end of create_return: the SAVEPOINT is released.
FinishReturn(s) ==
  /\ pc[s] = "restock"
  /\ job[s].restock = {}
  /\ NextReturn(s, {<<Current(s), "stored">>})
  /\ UNCHANGED <<db, txn, saved, client, faults>>

\* An unexpected error in any statement of the return.
ErrorInReturn(s) ==
  /\ pc[s] \in {"look", "lock", "check", "insert", "restock"}
  /\ faults.error < MaxErrors /\ Events < MaxEvents
  /\ faults' = [faults EXCEPT !.error = @ + 1]
  /\ IF pc[s] = "look"
     THEN NextReturn(s, {}) /\ UNCHANGED txn
     ELSE FailReturn(s)
  /\ UNCHANGED <<db, saved, client>>

\* PostgreSQL breaks a deadlock by failing the statement of one of its sessions.
DeadlockFails(s) ==
  /\ \E C \in SUBSET Sessions : s \in C /\ Deadlocked(C)
  /\ FailReturn(s)
  /\ UNCHANGED <<db, saved, client, faults>>

-----------------------------------------------------------------------------
(* The end of a request *)

\* A return that has a result leaves the outbox, stored or refused.
Respond(s) ==
  /\ pc[s] = "respond"
  /\ pc' = [pc EXCEPT ![s] = "commit"]
  /\ LET heard == {d \in Devices : waiting[d] = s}
         answered == {a[1] : a \in job[s].results}
     IN /\ waiting' = [d \in Devices |-> IF d \in heard THEN None ELSE waiting[d]]
        /\ queue' = [d \in Devices |->
             IF d \in heard THEN queue[d] \ answered ELSE queue[d]]
        /\ outcome' = [r \in Returns |->
             IF heard # {} /\ r \in answered
             THEN (CHOOSE a \in job[s].results : a[1] = r)[2] ELSE outcome[r]]
  /\ UNCHANGED <<db, job, txn, saved, known, faults>>

Close(s) ==
  /\ pc' = [pc EXCEPT ![s] = "idle"]
  /\ job' = [job EXCEPT ![s] = NoJob]
  /\ txn' = [txn EXCEPT ![s] = NoWrites]
  /\ saved' = [saved EXCEPT ![s] = NoWrites]

Commit(s) ==
  /\ pc[s] = "commit"
  /\ number' = [r \in Returns |-> Seen(s, r)]
  /\ next' = next + txn[s].taken
  /\ totals' = [l \in Lines |-> Plus(totals[l], txn[s].sums[l])]
  /\ Close(s)
  /\ UNCHANGED <<stored, live, client, faults>>

\* The process dies, or the commit fails: nothing is stored, nobody is told.
Crash(s) ==
  /\ pc[s] # "idle"
  /\ faults.crash < MaxCrashes /\ Events < MaxEvents
  /\ faults' = [faults EXCEPT !.crash = @ + 1]
  /\ Close(s)
  /\ waiting' = [d \in Devices |-> IF waiting[d] = s THEN None ELSE waiting[d]]
  /\ UNCHANGED <<db, known, queue, outcome>>

\* The database connection is lost: this return and the following ones fail,
\* the results of the earlier ones are still sent.
LoseConnection(s) ==
  /\ pc[s] \in {"look", "lock", "check", "insert", "restock"}
  /\ faults.crash < MaxCrashes /\ Events < MaxEvents
  /\ faults' = [faults EXCEPT !.crash = @ + 1]
  /\ txn' = [txn EXCEPT ![s] = NoWrites]
  /\ saved' = [saved EXCEPT ![s] = NoWrites]
  /\ job' = [job EXCEPT ![s] = NewJob(<<>>, {}, job[s].results)]
  /\ pc' = [pc EXCEPT ![s] = "respond"]
  /\ UNCHANGED <<db, client>>

-----------------------------------------------------------------------------
(* The rest of the store's traffic, as far as it meets a return *)

\* A sale was acknowledged, so that the device may return it, before its
\* transaction commits (SalePush!Respond and SalePush!Commit).
SaleCommits(x) ==
  /\ x \in Sales \ stored
  /\ stored' = stored \cup {x}
  /\ UNCHANGED <<number, next, totals, live, server, client, faults>>

DeleteProduct(p) ==
  /\ p \in live \cap Deletable /\ Events < MaxEvents
  /\ live' = live \ {p}
  /\ UNCHANGED <<stored, number, next, totals, server, client, faults>>

-----------------------------------------------------------------------------

Progress(s) ==
  \/ Look(s) \/ LockSale(s) \/ Check(s) \/ InsertReturn(s)
  \/ (\E l \in Lines : Restock(s, l))
  \/ FinishReturn(s) \/ Respond(s) \/ Commit(s)

Next ==
  \/ \E d \in Devices : Timeout(d) \/ \E s \in Sessions : Send(d, s)
  \/ \E s \in Sessions : \/ Progress(s) \/ ErrorInReturn(s) \/ DeadlockFails(s)
                         \/ Crash(s) \/ LoseConnection(s)
  \/ \E x \in Sales : SaleCommits(x)
  \/ \E p \in Products : DeleteProduct(p)

Spec == Init /\ [][Next]_vars

\* A request runs to its end, PostgreSQL breaks deadlocks and gives a freed row
\* to the session that has been waiting for it, and a device whose outbox is not
\* empty tries again.
Fairness ==
  /\ \A s \in Sessions : /\ WF_vars(Progress(s)) /\ WF_vars(DeadlockFails(s))
                         /\ SF_vars(LockSale(s)) /\ SF_vars(InsertReturn(s))
  /\ \A d \in Devices : WF_vars(\E s \in Sessions : Send(d, s))

FairSpec == Spec /\ Fairness

-----------------------------------------------------------------------------
(* Properties *)

TypeOK ==
  /\ stored \subseteq Sales
  /\ number \in [Returns -> Nat]
  /\ next \in Nat \ {0}
  /\ totals \in [Lines -> Sums]
  /\ live \subseteq Products
  /\ pc \in [Sessions -> Steps]
  /\ job \in [Sessions -> Job]
  /\ txn \in [Sessions -> Txn]
  /\ saved \in [Sessions -> Txn]
  /\ known \in Knowledge
  /\ queue \in [Devices -> SUBSET Returns]
  /\ waiting \in [Devices -> Sessions \cup {None}]
  /\ outcome \in [Returns -> Outcomes]
  /\ faults \in Faults

\* Whatever returns are pushed by whatever devices at the same time, no more
\* units of a line come back than were sold, no more francs are refunded than
\* were paid, and a line entirely back is refunded exactly what it paid.
ReturnsWithinSale ==
  \A l \in Lines :
    /\ totals[l].units <= Sold[l]
    /\ totals[l].francs <= Paid[l]
    /\ totals[l].units = Sold[l] => totals[l].francs = Paid[l]

RestockTraced == \A l \in Lines : totals[l].marked = totals[l].moved

NumbersWithoutGap == {number[r] : r \in Returns} \ {0} = 1 .. (next - 1)

StoredReturnsCountOnce ==
  \A l \in Lines :
    totals[l].units = SumFunction([r \in Returns |-> IF number[r] # 0 THEN Qty[r][l] ELSE 0])

\* What the tables of returns say agrees, whatever was retried, rolled back or
\* lost: each unit stored as put back in stock has its movement and the reverse
\* (record_return_movements), the stored numbers are 1, 2, 3, ... without a hole,
\* and each stored return counts once in what its lines have had returned.
BooksAgree == RestockTraced /\ NumbersWithoutGap /\ StoredReturnsCountOnce

NotStored(r) == number[r] = 0 /\ \A s \in Sessions : txn[s].rows[r] = 0

\* A lost commit apart, what was back when a return was refused for its quantity
\* is or will be committed and nothing takes a return back: it would be refused
\* again, and no other request of the device has stored it.
QuantityRefusalIsFinal ==
  faults.crash = 0 =>
    \A r \in Returns : outcome[r] = "quantity_exceeded" =>
      /\ NotStored(r)
      /\ \E l \in InReturn(r) : \E back \in
           {totals[l].units} \cup {Already(s, l) : s \in {t \in Sessions : pc[t] = "commit"}} :
             back + Qty[r][l] > Sold[l]

\* The returns are an append-only ledger, like the sales (SaleLedger).
Ledger == INSTANCE SaleLedger WITH ledger <- number, Sales <- Returns
LedgerSpec == Ledger!Spec

\* Every return a device recorded is eventually answered for good.
ReturnsSettle == \A d \in Devices : <>(queue[d] = {})

=============================================================================
