------------------------------ MODULE SalePush ------------------------------
(***************************************************************************)
(* The push of offline sales: the devices' outboxes, the requests          *)
(* POST /sync/sales (one SAVEPOINT per sale) and POST /sales (one sale in  *)
(* the request's own transaction), and the PostgreSQL transactions they    *)
(* run in at READ COMMITTED, for one store.                                *)
(*                                                                         *)
(* A session is a server request with its database connection.  What it    *)
(* wrote and the row locks it took are in txn[s]; saved[s] is the          *)
(* transaction as it was at the last SAVEPOINT, to which a failed          *)
(* statement returns it (ROLLBACK TO SAVEPOINT also gives back the locks   *)
(* taken since).  Nothing is visible to other sessions before Commit, and  *)
(* Commit comes after the response: get_db commits in the code that        *)
(* follows its yield, which the framework runs once the response is sent.  *)
(***************************************************************************)
EXTENDS Integers, Sequences, FiniteSets, Functions

CONSTANTS Sales,          \* ids of the sales recorded offline
          Devices,        \* the phones of the store
          Sessions,       \* server requests that can be open at once
          Products,       \* products of the catalogue
          StoreRow,       \* the row of table stores (the receipt counter)
          None,           \* "no session"
          Origin,         \* the device a sale was recorded on
          Items,          \* the products of a sale's lines, in payload order
          DetachOrder,    \* products of a category, in primary key order
          Deletable,      \* bound: the products an owner may delete
          MaxTimeouts,    \* bound: answers a device stops waiting for
          MaxCrashes,     \* bound: lost processes and lost connections
          MaxDetaches,    \* bound: deletions of the category
          MaxFailures,    \* bound: sales that fail with an error
          MaxEvents       \* bound: all of these and deleted products together

ASSUME SalePushAssumption ==
  /\ IsFiniteSet(Sales)
  /\ Origin \in [Sales -> Devices]
  /\ Items \in [Sales -> Seq(Products)]
  /\ DetachOrder \in Seq(Products)
  /\ Deletable \subseteq Products
  /\ StoreRow \notin Products
  /\ None \notin Sessions
  /\ MaxTimeouts \in Nat /\ MaxCrashes \in Nat /\ MaxDetaches \in Nat
  /\ MaxFailures \in Nat /\ MaxEvents \in Nat

VARIABLES
  receipt,   \* table sales: receipt_number of each stored sale, 0 if absent
  next,      \* stores.next_receipt_number
  moved,     \* table stock_movements: rows recorded for each sale line
  live,      \* products not soft-deleted
  detach,    \* category deletion: rows it has updated, or -1 when none runs
  pc,        \* where each session is
  job,       \* what each session works on
  txn,       \* uncommitted writes and row locks of each session
  saved,     \* txn at the last SAVEPOINT
  queue,     \* sync_queue of each device
  waiting,   \* the session whose answer a device waits for
  told,      \* receipt number a device was given for a sale, 0 if none
  faults     \* how many timeouts, crashes, detaches and failed sales there were

db      == <<receipt, next, moved, live>>
server  == <<pc, job, txn, saved>>
client  == <<queue, waiting, told>>
vars    == <<db, detach, server, client, faults>>

Lines == UNION {{x} \X DOMAIN Items[x] : x \in Sales}
Rows  == Products \cup {StoreRow}

Txn == [rows  : [Sales -> Nat],      \* sales inserted, with their number
        taken : Nat,                 \* numbers taken from the counter
        moves : [Lines -> Nat],      \* stock movements inserted
        locks : SUBSET Rows]         \* row locks held until the end

NoWrites == [rows  |-> [x \in Sales |-> 0], taken |-> 0,
             moves |-> [l \in Lines |-> 0], locks |-> {}]

Job == [batch  : Seq(Sales),         \* sales still to process
        nested : BOOLEAN,            \* one SAVEPOINT per sale (sync/sales)
        lines  : SUBSET Nat,         \* resolved lines still to track
        dead   : BOOLEAN,            \* a failed flush rolled the sale back
        number : Nat,                \* receipt_number read after the insert
        acks   : SUBSET (Sales \X Nat)]  \* created / already_exists results

Faults == [timeout : 0..MaxTimeouts, crash : 0..MaxCrashes, detach : 0..MaxDetaches,
           failure : 0..MaxFailures]

Events == faults.timeout + faults.crash + faults.detach + faults.failure +
          Cardinality(Products \ live)

Steps == {"idle", "look", "insert", "track", "update", "respond", "commit"}

NewJob(batch, nested, acks) ==
  [batch |-> batch, nested |-> nested, lines |-> {}, dead |-> FALSE,
   number |-> 0, acks |-> acks]
NoJob == NewJob(<<>>, FALSE, {})

\* stores.next_receipt_number of a new store.
FirstReceipt_Zero == 0
FirstReceipt == 1

Init ==
  /\ receipt = [x \in Sales |-> 0]
  /\ next = FirstReceipt
  /\ moved = [l \in Lines |-> 0]
  /\ live = Products
  /\ detach = -1
  /\ pc = [s \in Sessions |-> "idle"]
  /\ job = [s \in Sessions |-> NoJob]
  /\ txn = [s \in Sessions |-> NoWrites]
  /\ saved = [s \in Sessions |-> NoWrites]
  /\ queue = [d \in Devices |-> {x \in Sales : Origin[x] = d}]
  /\ waiting = [d \in Devices |-> None]
  /\ told = [x \in Sales |-> 0]
  /\ faults = [timeout |-> 0, crash |-> 0, detach |-> 0, failure |-> 0]

-----------------------------------------------------------------------------
(* Row locks *)

DetachHeld == {DetachOrder[k] : k \in 1..detach}

\* No other transaction holds a lock on row r.
Free(s, r) == /\ \A t \in Sessions \ {s} : r \notin txn[t].locks
              /\ r \notin DetachHeld

\* The row the category deletion waits for, if it waits.
DetachWants(r) == /\ detach \in 0..(Len(DetachOrder) - 1)
                  /\ r = DetachOrder[detach + 1]

-----------------------------------------------------------------------------
(* Devices *)

Orders(S) == {b \in [1..Cardinality(S) -> S] : IsInjective(b)}

\* A device sends its whole outbox to sync/sales, or one sale to POST /sales.
Send(d, s) ==
  /\ waiting[d] = None
  /\ queue[d] # {}
  /\ pc[s] = "idle"
  /\ \E nested \in BOOLEAN :
       \E batch \in IF nested THEN Orders(queue[d])
                              ELSE {<<x>> : x \in queue[d]} :
         job' = [job EXCEPT ![s] = NewJob(batch, nested, {})]
  /\ pc' = [pc EXCEPT ![s] = "look"]
  /\ waiting' = [waiting EXCEPT ![d] = s]
  /\ UNCHANGED <<db, detach, txn, saved, queue, told, faults>>

\* The device stops waiting (network lost, client timeout) and may send the
\* same sales again; the request goes on at the server.
Timeout(d) ==
  /\ waiting[d] # None
  /\ faults.timeout < MaxTimeouts /\ Events < MaxEvents
  /\ waiting' = [waiting EXCEPT ![d] = None]
  /\ faults' = [faults EXCEPT !.timeout = @ + 1]
  /\ UNCHANGED <<db, detach, server, queue, told>>

-----------------------------------------------------------------------------
(* One sale of a request: create_sale inside its SAVEPOINT *)

Current(s) == Head(job[s].batch)

\* The sale as the session's own statements see it, 0 if absent.
Seen(s, x) == IF txn[s].rows[x] # 0 THEN txn[s].rows[x] ELSE receipt[x]

\* The result of the current sale is known: go on with the next one.
NextSale(s, acks) ==
  /\ job' = [job EXCEPT ![s] = NewJob(Tail(job[s].batch), job[s].nested,
                                      job[s].acks \cup acks)]
  /\ pc' = [pc EXCEPT ![s] =
              IF Tail(job[s].batch) = <<>> THEN "respond" ELSE "look"]

\* Mutant: a sale that exists is skipped without a result.
Look_SilentOnExisting(s) ==
  /\ pc[s] = "look"
  /\ saved' = [saved EXCEPT ![s] = txn[s]]
  /\ LET x == Current(s) IN
       IF Seen(s, x) # 0
       THEN NextSale(s, {})
       ELSE /\ pc' = [pc EXCEPT ![s] = "insert"]
            /\ job' = [job EXCEPT ![s].lines =
                              {i \in DOMAIN Items[x] : Items[x][i] \in live}]
  /\ UNCHANGED <<db, detach, txn, client, faults>>

\* SAVEPOINT, get_by_id, and the lines whose product is still active: the
\* others keep their snapshot but lose their product_id.
Look(s) ==
  /\ pc[s] = "look"
  /\ saved' = [saved EXCEPT ![s] = txn[s]]
  /\ LET x == Current(s) IN
       IF Seen(s, x) # 0
       THEN NextSale(s, {<<x, Seen(s, x)>>})
       ELSE /\ pc' = [pc EXCEPT ![s] = "insert"]
            /\ job' = [job EXCEPT ![s].lines =
                              {i \in DOMAIN Items[x] : Items[x][i] \in live}]
  /\ UNCHANGED <<db, detach, txn, client, faults>>

\* The number taken by the BEFORE INSERT trigger, and the lock on the store
\* row that comes with it; rows is what the transaction has inserted then.
\* Mutant: the counter is read and not locked.
Counted_Unlocked(s, rows) == [rows  |-> rows,
                              taken |-> txn[s].taken + 1,
                              moves |-> txn[s].moves,
                              locks |-> txn[s].locks]

Counted(s, rows) == [rows  |-> rows,
                     taken |-> txn[s].taken + 1,
                     moves |-> txn[s].moves,
                     locks |-> txn[s].locks \cup {StoreRow}]

WithRow(s, number) == [txn[s].rows EXCEPT ![Current(s)] = number]

\* The row was there: ON CONFLICT DO NOTHING, the stored sale is read again.
\* Mutants: the stock is moved again; the number just taken is answered; the
\* stored sale is overwritten (DO UPDATE).
OnConflict_MovesStock(s, number) ==
  /\ txn' = [txn EXCEPT ![s] = Counted(s, txn[s].rows)]
  /\ job' = [job EXCEPT ![s].number = receipt[Current(s)]]
  /\ pc' = [pc EXCEPT ![s] = "track"]

OnConflict_NewNumber(s, number) ==
  /\ txn' = [txn EXCEPT ![s] = Counted(s, txn[s].rows)]
  /\ NextSale(s, {<<Current(s), number>>})

OnConflict_Overwrites(s, number) ==
  /\ txn' = [txn EXCEPT ![s] = Counted(s, WithRow(s, number))]
  /\ NextSale(s, {<<Current(s), number>>})

OnConflict(s, number) ==
  /\ txn' = [txn EXCEPT ![s] = Counted(s, txn[s].rows)]
  /\ NextSale(s, {<<Current(s), receipt[Current(s)]>>})

\* The trigger runs first, whether or not the row is then inserted; only a
\* sale that was inserted goes on to its stock movements.
InsertSale(s) ==
  /\ pc[s] = "insert"
  /\ Free(s, StoreRow)
  /\ LET number == next + txn[s].taken IN
       IF receipt[Current(s)] # 0
       THEN OnConflict(s, number)
       ELSE /\ txn' = [txn EXCEPT ![s] = Counted(s, WithRow(s, number))]
            /\ job' = [job EXCEPT ![s].number = number]
            /\ pc' = [pc EXCEPT ![s] = "track"]
  /\ UNCHANGED <<db, detach, saved, client, faults>>

\* Rollback of a failed flush: to the SAVEPOINT, or the whole transaction of
\* POST /sales.  Mutant: the numbers come from a sequence, never given back.
RolledBack_Sequence(s) == [saved[s] EXCEPT !.taken = txn[s].taken]
RolledBack(s) == saved[s]

\* The INSERT of the sale or of its lines raises: back to the SAVEPOINT with
\* the number it took.  sync/sales reports this sale as failed and goes on;
\* POST /sales answers an error, with nothing to commit.
SaleFails(s) ==
  /\ pc[s] = "insert"
  /\ Free(s, StoreRow)
  /\ faults.failure < MaxFailures /\ Events < MaxEvents
  /\ faults' = [faults EXCEPT !.failure = @ + 1]
  /\ txn' = [txn EXCEPT ![s] = RolledBack(s)]
  /\ NextSale(s, {})
  /\ UNCHANGED <<db, detach, saved, client>>

\* Lines are tracked in payload order; this one is next.
IsNextLine(s, i) == /\ i \in job[s].lines
                    /\ \A j \in job[s].lines : i <= j

\* record_sale_movements reads the product of the next line.  A product gone
\* in the meantime, or a session whose transaction a failed flush has rolled
\* back, raises: the exception is swallowed and the line skipped.
TrackLine(s) ==
  /\ pc[s] = "track"
  /\ \E i \in job[s].lines :
       /\ IsNextLine(s, i)
       /\ IF ~job[s].dead /\ Items[Current(s)][i] \in live
          THEN pc' = [pc EXCEPT ![s] = "update"] /\ UNCHANGED job
          ELSE job' = [job EXCEPT ![s].lines = @ \ {i}] /\ UNCHANGED pc
  /\ UNCHANGED <<db, detach, txn, saved, client, faults>>

\* The UPDATE of the product's stock, once its row is free, and the movement.
UpdateStock(s) ==
  /\ pc[s] = "update"
  /\ \E i \in job[s].lines :
       LET p == Items[Current(s)][i] IN
         /\ IsNextLine(s, i)
         /\ Free(s, p)
         /\ txn' = [txn EXCEPT ![s] =
              [rows  |-> txn[s].rows,
               taken |-> txn[s].taken,
               moves |-> [txn[s].moves EXCEPT ![<<Current(s), i>>] = @ + 1],
               locks |-> txn[s].locks \cup {p}]]
         /\ job' = [job EXCEPT ![s].lines = @ \ {i}]
  /\ pc' = [pc EXCEPT ![s] = "track"]
  /\ UNCHANGED <<db, detach, saved, client, faults>>

\* The update waits for the category deletion, which waits for this session.
Deadlocked(s, i) ==
  /\ pc[s] = "update"
  /\ IsNextLine(s, i)
  /\ Items[Current(s)][i] \in DetachHeld
  /\ \E r \in txn[s].locks : DetachWants(r)

\* PostgreSQL breaks the deadlock by failing this UPDATE.  The rollback takes
\* place before the exception is swallowed like any other.
DeadlockFailsUpdate(s) ==
  /\ \E i \in job[s].lines : Deadlocked(s, i)
  /\ job' = [job EXCEPT ![s].dead = TRUE]
  /\ txn' = [txn EXCEPT ![s] = RolledBack(s)]
  /\ pc' = [pc EXCEPT ![s] = "track"]
  /\ UNCHANGED <<db, detach, saved, client, faults>>

\* The end of create_sale.  sync/sales leaves the SAVEPOINT, without an error
\* even if it is already rolled back, and reports the sale as created;
\* POST /sales cannot read the sale of a dead transaction and answers 500.
FinishSale(s) ==
  /\ pc[s] = "track"
  /\ job[s].lines = {}
  /\ NextSale(s, IF job[s].dead /\ ~job[s].nested
                 THEN {} ELSE {<<Current(s), job[s].number>>})
  /\ UNCHANGED <<db, detach, txn, saved, client, faults>>

-----------------------------------------------------------------------------
(* The end of a request *)

\* The response reaches the device if it still waits for it; the sales it
\* acknowledges leave the outbox.
Respond(s) ==
  /\ pc[s] = "respond"
  /\ pc' = [pc EXCEPT ![s] = "commit"]
  /\ LET heard == {d \in Devices : waiting[d] = s}
         acked == {a[1] : a \in job[s].acks}
     IN /\ waiting' = [d \in Devices |-> IF d \in heard THEN None ELSE waiting[d]]
        /\ queue' = [d \in Devices |->
                       IF d \in heard THEN queue[d] \ acked ELSE queue[d]]
        /\ told' = [x \in Sales |->
                      IF heard # {} /\ x \in acked
                      THEN (CHOOSE a \in job[s].acks : a[1] = x)[2] ELSE told[x]]
  /\ UNCHANGED <<db, detach, job, txn, saved, faults>>

Close(s) ==
  /\ pc' = [pc EXCEPT ![s] = "idle"]
  /\ job' = [job EXCEPT ![s] = NoJob]
  /\ txn' = [txn EXCEPT ![s] = NoWrites]
  /\ saved' = [saved EXCEPT ![s] = NoWrites]

\* get_db commits after its yield.
Commit(s) ==
  /\ pc[s] = "commit"
  /\ receipt' = [x \in Sales |-> Seen(s, x)]
  /\ next' = next + txn[s].taken
  /\ moved' = [l \in Lines |-> moved[l] + txn[s].moves[l]]
  /\ Close(s)
  /\ UNCHANGED <<live, detach, client, faults>>

\* The server process dies, or the commit fails: the transaction is rolled
\* back and nobody is told.  A device that still waits gets an error.
Crash(s) ==
  /\ pc[s] # "idle"
  /\ faults.crash < MaxCrashes /\ Events < MaxEvents
  /\ faults' = [faults EXCEPT !.crash = @ + 1]
  /\ Close(s)
  /\ waiting' = [d \in Devices |-> IF waiting[d] = s THEN None ELSE waiting[d]]
  /\ UNCHANGED <<db, detach, queue, told>>

\* What is said of the sale during which the connection is lost: a flush that
\* fails under record_sale_movements is swallowed like any of its errors, and
\* the SAVEPOINT it has rolled back is left in silence.
SaidOfBroken(s) ==
  IF job[s].nested /\ (pc[s] = "update" \/ job[s].dead)
  THEN {{}, {<<Current(s), job[s].number>>}} ELSE {{}}

\* The database connection is lost in the middle of a request.  POST /sales
\* fails; sync/sales reports the following sales as failed, and still reports
\* the earlier ones as created.
LoseConnection(s) ==
  /\ pc[s] \in {"look", "insert", "track", "update"}
  /\ faults.crash < MaxCrashes /\ Events < MaxEvents
  /\ faults' = [faults EXCEPT !.crash = @ + 1]
  /\ txn' = [txn EXCEPT ![s] = NoWrites]
  /\ saved' = [saved EXCEPT ![s] = NoWrites]
  /\ \E acks \in SaidOfBroken(s) :
       job' = [job EXCEPT ![s] = NewJob(<<>>, job[s].nested, job[s].acks \cup acks)]
  /\ pc' = [pc EXCEPT ![s] = "respond"]
  /\ UNCHANGED <<db, detach, client>>

-----------------------------------------------------------------------------
(* The rest of the store's catalogue traffic, as far as it meets a sale *)

\* Soft delete of one product (its own short transaction).
DeleteProduct(p) ==
  /\ p \in live \cap Deletable /\ Events < MaxEvents
  /\ \A s \in Sessions : p \notin txn[s].locks
  /\ p \notin DetachHeld
  /\ live' = live \ {p}
  /\ UNCHANGED <<receipt, next, moved, detach, server, client, faults>>

\* The deletion of a category updates its products in primary key order, in
\* one transaction, while sales update theirs in payload order.
DetachBegin ==
  /\ detach = -1
  /\ faults.detach < MaxDetaches /\ Events < MaxEvents
  /\ faults' = [faults EXCEPT !.detach = @ + 1]
  /\ detach' = 0
  /\ UNCHANGED <<db, server, client>>

DetachUpdate ==
  /\ \E p \in Products : /\ DetachWants(p)
                         /\ \A s \in Sessions : p \notin txn[s].locks
  /\ detach' = detach + 1
  /\ UNCHANGED <<db, server, client, faults>>

\* It ends when every product is updated, or as the victim of a deadlock.
DetachEnd ==
  /\ \/ detach = Len(DetachOrder)
     \/ \E s \in Sessions : \E i \in job[s].lines : Deadlocked(s, i)
  /\ detach' = -1
  /\ UNCHANGED <<db, server, client, faults>>

-----------------------------------------------------------------------------

Progress(s) ==
  \/ Look(s) \/ InsertSale(s) \/ TrackLine(s) \/ UpdateStock(s)
  \/ FinishSale(s) \/ Respond(s) \/ Commit(s)

Next ==
  \/ \E d \in Devices : Timeout(d) \/ \E s \in Sessions : Send(d, s)
  \/ \E s \in Sessions : \/ Progress(s) \/ DeadlockFailsUpdate(s)
                         \/ SaleFails(s) \/ Crash(s) \/ LoseConnection(s)
  \/ \E p \in Products : DeleteProduct(p)
  \/ DetachBegin \/ DetachUpdate \/ DetachEnd

Spec == Init /\ [][Next]_vars

\* A request runs to its end, PostgreSQL breaks deadlocks and gives a freed row
\* to the transaction that waits for it, and a device whose outbox is not empty
\* tries again.
Fairness ==
  /\ \A s \in Sessions : WF_vars(Progress(s)) /\ WF_vars(DeadlockFailsUpdate(s))
  /\ SF_vars(DetachUpdate) /\ WF_vars(DetachEnd)
  /\ \A d \in Devices : WF_vars(\E s \in Sessions : Send(d, s))

FairSpec == Spec /\ Fairness

-----------------------------------------------------------------------------
(* Properties *)

TypeOK ==
  /\ receipt \in [Sales -> Nat]
  /\ next \in Nat \ {0}
  /\ moved \in [Lines -> Nat]
  /\ live \subseteq Products
  /\ detach \in -1 .. Len(DetachOrder)
  /\ pc \in [Sessions -> Steps]
  /\ job \in [Sessions -> Job]
  /\ txn \in [Sessions -> Txn]
  /\ saved \in [Sessions -> Txn]
  /\ queue \in [Devices -> SUBSET Sales]
  /\ waiting \in [Devices -> Sessions \cup {None}]
  /\ told \in [Sales -> Nat]
  /\ faults \in Faults

\* Two stored sales never carry the same receipt number, and the counter is
\* ahead of every number given, whatever retries, rollbacks to a SAVEPOINT and
\* crashes did to the transactions that took numbers.
ReceiptsUnique ==
  /\ \A x, y \in Sales : receipt[x] # 0 /\ receipt[x] = receipt[y] => x = y
  /\ \A x \in Sales : receipt[x] < next

\* A sale and its stock movements are stored together: no line is counted
\* twice by a retry or a concurrent duplicate, none without its sale, and a
\* stored sale has moved the stock of every line whose product still exists.
SaleMovesStockOnce ==
  \A l \in Lines :
    /\ moved[l] <= 1
    /\ moved[l] = 1 => receipt[l[1]] # 0
    /\ receipt[l[1]] # 0 /\ Items[l[1]][l[2]] \in live => moved[l] = 1

\* A sale a device was told is recorded, and has therefore dropped from its
\* outbox, is stored under the number it was given, or about to be by the
\* session that answered.
AckedSaleIsKept ==
  \A x \in Sales :
    told[x] # 0 => \/ receipt[x] = told[x]
                  \/ \E s \in Sessions : pc[s] = "commit" /\ txn[s].rows[x] = told[x]

\* It takes a lost process, or a category deletion that deadlocks with the sale, to
\* lose an acknowledged sale: lost answers and concurrent duplicates never do.
AckedSaleIsKeptUnlessFailure ==
  faults.crash = 0 /\ faults.detach = 0 => AckedSaleIsKept

\* The stored receipt numbers are 1, 2, 3, ... without a hole.
ReceiptsWithoutGap == {receipt[x] : x \in Sales} \ {0} = 1 .. (next - 1)

\* As long as no device has repeated a sale while a request for it was open, the
\* numbers have no hole: crashes and rolled back SAVEPOINTs give theirs back.
GapsNeedRetries == faults.timeout = 0 => ReceiptsWithoutGap

\* What the store is promised (SaleLedger): each sale is recorded once, for
\* good, under a number higher than all the numbers recorded before.
Ledger == INSTANCE SaleLedger WITH ledger <- receipt
LedgerSpec == Ledger!Spec

\* Every sale leaves the outbox of its device, whatever timeouts, crashes and
\* deadlocks happen on the way, as long as they stop.
OutboxDrains == \A d \in Devices : <>(queue[d] = {})

=============================================================================
