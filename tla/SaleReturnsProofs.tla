-------------------------- MODULE SaleReturnsProofs --------------------------
(***************************************************************************)
(* Proofs about customer returns.  First SaleReturns, for any returns,     *)
(* sales, lines, devices and sessions and any bounds on the faults.  Then  *)
(* RefundSequence: what refund.py computes adds up, for every sale.  The   *)
(* largest remainder method gives out exactly the francs collected, within *)
(* one franc of each line's share and in the order of the lines' prices,   *)
(* and successive returns of a line never refund more than it paid.        *)
(***************************************************************************)
EXTENDS SaleReturns, RefundSequence, SumTheorems

Working == {"look", "lock", "check", "insert", "restock"}

\* While a return is processed there is a current return.
JobOK == \A s \in Sessions : pc[s] \in Working => job[s].batch # <<>>

TypeInv == TypeOK /\ JobOK

-----------------------------------------------------------------------------
(* Lemmas about the helpers *)

LEMMA PlusType ==
  ASSUME NEW a \in Sums, NEW b \in Sums
  PROVE  Plus(a, b) \in Sums
  BY DEF Plus, Sums

LEMMA NoSumsType == NoSums \in Sums
  BY DEF NoSums, Sums

LEMMA NewTxnType ==
  ASSUME NEW rows \in [Returns -> Nat], NEW taken \in Nat,
         NEW sums \in [Lines -> Sums], NEW locks \in SUBSET Rows
  PROVE  /\ NewTxn(rows, taken, sums, locks) \in Txn
         /\ NewTxn(rows, taken, sums, locks).rows = rows
         /\ NewTxn(rows, taken, sums, locks).taken = taken
         /\ NewTxn(rows, taken, sums, locks).sums = sums
         /\ NewTxn(rows, taken, sums, locks).locks = locks
  BY DEF NewTxn, Txn

LEMMA TxnFields ==
  ASSUME NEW t \in Txn
  PROVE  /\ t.rows \in [Returns -> Nat]
         /\ t.taken \in Nat
         /\ t.sums \in [Lines -> Sums]
         /\ t.locks \in SUBSET Rows
  BY DEF Txn

LEMMA NoWritesType == NoWrites \in Txn
  <1>1. [r \in Returns |-> 0] \in [Returns -> Nat] /\ [l \in Lines |-> NoSums] \in [Lines -> Sums]
    BY NoSumsType
  <1>. QED
    BY <1>1, NewTxnType DEF NoWrites

LEMMA NewJobType ==
  ASSUME NEW batch \in Seq(Returns), NEW restock \in SUBSET Lines,
         NEW results \in SUBSET (Returns \X Outcomes)
  PROVE  /\ NewJob(batch, restock, results) \in Job
         /\ NewJob(batch, restock, results).batch = batch
         /\ NewJob(batch, restock, results).restock = restock
  BY DEF NewJob, Job

LEMMA NoJobType == NoJob \in Job
  BY DEF NoJob, NewJob, Job

LEMMA JobFields ==
  ASSUME NEW j \in Job
  PROVE  /\ j.batch \in Seq(Returns)
         /\ j.restock \in SUBSET Lines
         /\ j.results \in SUBSET (Returns \X Outcomes)
  BY DEF Job

\* The batches of a non-empty outbox are non-empty sequences of its returns.
LEMMA BatchesType ==
  ASSUME NEW S \in SUBSET Returns, S # {}, NEW b \in Batches(S)
  PROVE  b \in Seq(Returns) /\ b # <<>>
  <1>1. IsFiniteSet(S)
    BY SaleReturnsAssumption, FS_Subset
  <1>2. Cardinality(S) \in Nat /\ Cardinality(S) # 0
    BY <1>1, FS_CardinalityType, FS_EmptySet
  <1>3. b \in [1..Cardinality(S) -> Returns]
    BY DEF Batches
  <1>4. b \in Seq(Returns) /\ Len(b) = Cardinality(S)
    BY <1>2, <1>3
  <1>. QED
    BY <1>2, <1>4

LEMMA CurrentType ==
  ASSUME NEW s \in Sessions, job \in [Sessions -> Job], job[s].batch # <<>>
  PROVE  Current(s) \in Returns /\ Tail(job[s].batch) \in Seq(Returns)
  BY DEF Current, Job

LEMMA DueType ==
  ASSUME NEW l \in Lines, NEW n \in Nat
  PROVE  Due(Paid[l], Sold[l], n) \in Int
  BY SaleReturnsAssumption DEF Due

LEMMA RefundType ==
  ASSUME NEW l \in Lines, NEW n \in Nat, NEW q \in Nat
  PROVE  RefundFor(Paid[l], Sold[l], n, q) \in Int
  <1>1. n + q \in Nat
    OBVIOUS
  <1>. QED
    BY <1>1, DueType DEF RefundFor

\* The quotient of the refund rule stays within what was paid, and is all of it
\* when every unit is back.
LEMMA DueBounds ==
  ASSUME NEW p \in Nat, NEW q \in Nat \ {0}, NEW n \in Nat, n <= q
  PROVE  Due(p, q, n) <= p /\ Due(p, q, q) = p
  <1>1. p * n <= p * q
    OBVIOUS
  <1>. QED
    BY <1>1 DEF Due

LEMMA DueNothing ==
  ASSUME NEW p \in Nat, NEW q \in Nat \ {0}
  PROVE  Due(p, q, 0) = 0
  BY DEF Due

\* Counting one more fault within its bound.
LEMMA FaultCounted ==
  ASSUME NEW f \in Faults
  PROVE  /\ f.timeout < MaxTimeouts => [f EXCEPT !.timeout = @ + 1] \in Faults
         /\ f.crash < MaxCrashes => [f EXCEPT !.crash = @ + 1] \in Faults
         /\ f.error < MaxErrors => [f EXCEPT !.error = @ + 1] \in Faults
  <1>1. /\ f.timeout < MaxTimeouts => f.timeout + 1 \in 0..MaxTimeouts
        /\ f.crash < MaxCrashes => f.crash + 1 \in 0..MaxCrashes
        /\ f.error < MaxErrors => f.error + 1 \in 0..MaxErrors
    BY SaleReturnsAssumption DEF Faults
  <1>. QED
    BY <1>1 DEF Faults

LEMMA SeenType ==
  ASSUME NEW s \in Sessions, NEW r \in Returns, TypeOK
  PROVE  Seen(s, r) \in Nat
  BY DEF Seen, TypeOK, Txn

LEMMA AlreadyType ==
  ASSUME NEW s \in Sessions, NEW l \in Lines, TypeOK
  PROVE  Already(s, l) \in Nat
  BY DEF Already, TypeOK, Txn, Sums

LEMMA ItemType ==
  ASSUME TypeOK, NEW s \in Sessions, job[s].batch # <<>>, NEW l \in Lines
  PROVE  Item(s, l) \in Sums
  <1>1. Qty[Current(s)][l] \in Nat
    BY CurrentType, SaleReturnsAssumption DEF TypeOK
  <1>2. RefundFor(Paid[l], Sold[l], Already(s, l), Qty[Current(s)][l]) \in Int
    BY <1>1, AlreadyType, RefundType
  <1>. QED
    BY <1>1, <1>2 DEF Item, Sums

LEMMA WithMovementType ==
  ASSUME TypeOK, NEW s \in Sessions, job[s].batch # <<>>, NEW l \in Lines
  PROVE  WithMovement(s, l) \in Txn
  <1>1. txn[s] \in Txn
    BY DEF TypeOK
  <1>2. \A m \in Lines : Movement(Qty[Current(s)][m]) \in Sums
    BY CurrentType, SaleReturnsAssumption DEF TypeOK, Movement, Sums
  <1>3. \A m \in Lines : Plus(txn[s].sums[m], Movement(Qty[Current(s)][m])) \in Sums
    BY <1>1, <1>2, TxnFields, PlusType
  <1>4. [m \in Lines |-> IF m = l THEN Plus(txn[s].sums[m], Movement(Qty[Current(s)][m]))
                                  ELSE txn[s].sums[m]] \in [Lines -> Sums]
    BY <1>1, <1>3, TxnFields
  <1>. QED
    BY <1>1, <1>4, TxnFields, NewTxnType DEF WithMovement

\* A session whose job and place change keeps the typing if it has a current
\* return wherever it needs one.
LEMMA JobKept ==
  ASSUME TypeInv, NEW s \in Sessions, NEW j \in Job, NEW step \in Steps,
         job' = [job EXCEPT ![s] = j], pc' = [pc EXCEPT ![s] = step],
         step \in Working => j.batch # <<>>
  PROVE  JobOK' /\ job' \in [Sessions -> Job] /\ pc' \in [Sessions -> Steps]
  <1>1. \A t \in Sessions \ {s} : job'[t] = job[t] /\ pc'[t] = pc[t]
    BY DEF TypeInv, TypeOK
  <1>2. job'[s] = j /\ pc'[s] = step
    BY DEF TypeInv, TypeOK
  <1>. QED
    BY <1>1, <1>2 DEF TypeInv, TypeOK, JobOK

LEMMA NextReturnType ==
  ASSUME TypeInv, NEW s \in Sessions, job[s].batch # <<>>,
         NEW results \in SUBSET (Returns \X Outcomes), NextReturn(s, results)
  PROVE  JobOK' /\ job' \in [Sessions -> Job] /\ pc' \in [Sessions -> Steps]
  <1> DEFINE j == NewJob(Tail(job[s].batch), {}, job[s].results \cup results)
             step == IF Tail(job[s].batch) = <<>> THEN "respond" ELSE "look"
  <1>1. job[s] \in Job /\ job \in [Sessions -> Job]
    BY DEF TypeInv, TypeOK
  <1>2. Tail(job[s].batch) \in Seq(Returns)
    BY <1>1, CurrentType
  <1>3. j \in Job /\ j.batch = Tail(job[s].batch)
    <2>1. job[s].results \cup results \in SUBSET (Returns \X Outcomes)
      BY <1>1, JobFields
    <2>2. {} \in SUBSET Lines
      OBVIOUS
    <2>. QED
      BY <1>2, <2>1, <2>2, NewJobType, ZenonT(30)
  <1>4. step \in Steps /\ (step \in Working => j.batch # <<>>)
    BY <1>3 DEF Steps, Working
  <1>5. job' = [job EXCEPT ![s] = j] /\ pc' = [pc EXCEPT ![s] = step]
    BY DEF NextReturn
  <1> HIDE DEF j, step
  <1>. QED
    BY <1>3, <1>4, <1>5, JobKept

\* The results a return can have.
LEMMA ResultType ==
  ASSUME TypeInv, NEW s \in Sessions, job[s].batch # <<>>, NEW o \in Outcomes
  PROVE  {<<Current(s), o>>} \in SUBSET (Returns \X Outcomes)
  BY CurrentType DEF TypeInv, TypeOK

LEMMA RefusalType ==
  ASSUME NEW r, NEW l, NEW n, NEW code \in LineRefusals(r, l, n)
  PROVE  code \in Outcomes
  BY DEF LineRefusals, Outcomes, Refusals

LEMMA RollBackType ==
  ASSUME TypeInv, NEW s \in Sessions, RollBack(s)
  PROVE  txn' \in [Sessions -> Txn]
  BY DEF TypeInv, TypeOK, RollBack

LEMMA FailReturnType ==
  ASSUME TypeInv, NEW s \in Sessions, job[s].batch # <<>>, FailReturn(s)
  PROVE  /\ JobOK' /\ job' \in [Sessions -> Job] /\ pc' \in [Sessions -> Steps]
         /\ txn' \in [Sessions -> Txn]
  BY NextReturnType, RollBackType DEF FailReturn

LEMMA RefuseType ==
  ASSUME TypeInv, NEW s \in Sessions, job[s].batch # <<>>,
         NEW code \in Outcomes, Refuse(s, code)
  PROVE  /\ JobOK' /\ job' \in [Sessions -> Job] /\ pc' \in [Sessions -> Steps]
         /\ txn' \in [Sessions -> Txn]
  BY NextReturnType, ResultType, RollBackType DEF Refuse

LEMMA ExistsType ==
  ASSUME TypeInv, NEW s \in Sessions, job[s].batch # <<>>, Exists(s)
  PROVE  /\ JobOK' /\ job' \in [Sessions -> Job] /\ pc' \in [Sessions -> Steps]
         /\ txn' \in [Sessions -> Txn]
  <1>1. "stored" \in Outcomes
    BY DEF Outcomes
  <1>. QED
    BY <1>1, NextReturnType, ResultType DEF Exists, TypeInv, TypeOK

-----------------------------------------------------------------------------
(* Type correctness *)

LEMMA TypeInit == Init => TypeInv
  <1>. SUFFICES ASSUME Init PROVE TypeInv
    OBVIOUS
  <1>1. /\ stored \subseteq Sales /\ number \in [Returns -> Nat] /\ next \in Nat \ {0}
        /\ totals \in [Lines -> Sums] /\ live \subseteq Products
        /\ known \in Knowledge
    BY NoSumsType DEF Init, FirstNumber
  <1>2. /\ pc \in [Sessions -> Steps] /\ job \in [Sessions -> Job]
        /\ txn \in [Sessions -> Txn] /\ saved \in [Sessions -> Txn]
    BY NoWritesType, NoJobType DEF Init, Steps
  <1>3. /\ queue \in [Devices -> SUBSET Returns]
        /\ waiting \in [Devices -> Sessions \cup {None}]
        /\ outcome \in [Returns -> Outcomes]
    BY DEF Init, Outcomes
  <1>4. faults \in Faults
    BY SaleReturnsAssumption DEF Init, Faults
  <1>5. JobOK
    BY DEF Init, JobOK, Working
  <1>. QED
    BY <1>1, <1>2, <1>3, <1>4, <1>5 DEF TypeInv, TypeOK

LEMMA TypeStep == TypeInv /\ [Next]_vars => TypeInv'
  <1>. SUFFICES ASSUME TypeInv, [Next]_vars PROVE TypeInv'
    OBVIOUS
  <1>. USE DEF TypeInv, db, server, client
  <1>0. /\ \A s \in Sessions : pc[s] \in Working => job[s].batch # <<>>
        /\ TypeOK
    BY DEF JobOK
  <1>1. ASSUME NEW d \in Devices, Timeout(d) PROVE TypeInv'
    BY <1>1, FaultCounted DEF Timeout, TypeOK, JobOK, Current
  <1>2. ASSUME NEW d \in Devices, NEW s \in Sessions, Send(d, s) PROVE TypeInv'
    <2>1. PICK batch \in Batches(queue[d]) :
            job' = [job EXCEPT ![s] = NewJob(batch, {}, {})]
      BY <1>2 DEF Send
    <2>2. batch \in Seq(Returns) /\ batch # <<>>
      BY <1>2, BatchesType DEF Send, TypeOK
    <2>3. NewJob(batch, {}, {}) \in Job /\ NewJob(batch, {}, {}).batch = batch
      BY <2>2 DEF NewJob, Job
    <2>4. JobOK' /\ job' \in [Sessions -> Job] /\ pc' \in [Sessions -> Steps]
      BY <1>2, <2>1, <2>2, <2>3, JobKept DEF Send, Steps
    <2>. QED
      BY <1>2, <2>4 DEF Send, TypeOK
  <1>3. ASSUME NEW s \in Sessions, Look(s) PROVE TypeInv'
    <2>1. job[s].batch # <<>>
      BY <1>0, <1>3 DEF Look, Working
    <2>2. saved' \in [Sessions -> Txn]
      BY <1>3 DEF Look, TypeOK
    <2>3. JobOK' /\ job' \in [Sessions -> Job] /\ pc' \in [Sessions -> Steps]
          /\ txn' \in [Sessions -> Txn]
      <3>1. CASE Seen(s, Current(s)) # 0
        BY <1>3, <2>1, <3>1, ExistsType DEF Look
      <3>2. CASE Seen(s, Current(s)) = 0
        BY <1>3, <2>1, <3>2 DEF Look, TypeOK, JobOK, Steps
      <3>. QED
        BY <3>1, <3>2
    <2>. QED
      BY <1>3, <2>2, <2>3 DEF Look, TypeOK
  <1>4. ASSUME NEW s \in Sessions, LockSale(s) PROVE TypeInv'
    <2>1. job[s].batch # <<>>
      BY <1>0, <1>4 DEF LockSale, Working
    <2>2. JobOK' /\ job' \in [Sessions -> Job] /\ pc' \in [Sessions -> Steps]
          /\ txn' \in [Sessions -> Txn]
      <3>1. CASE SaleOf[Current(s)] \notin stored
        <4>1. Refuse(s, "sale_not_found")
          BY <1>4, <3>1 DEF LockSale
        <4>2. "sale_not_found" \in Outcomes
          BY DEF Outcomes, Refusals
        <4>. QED
          BY <2>1, <4>1, <4>2, RefuseType
      <3>2. CASE SaleOf[Current(s)] \in stored
        <4> DEFINE t == NewTxn(txn[s].rows, txn[s].taken, txn[s].sums,
                               txn[s].locks \cup {SaleOf[Current(s)]})
        <4>1. txn[s] \in Txn
          BY DEF TypeOK
        <4>2. txn[s].locks \cup {SaleOf[Current(s)]} \in SUBSET Rows
          BY <3>2, <4>1, TxnFields DEF TypeOK, Rows
        <4>3. t \in Txn
          BY <4>1, <4>2, TxnFields, NewTxnType
        <4>4. txn' = [txn EXCEPT ![s] = t] /\ pc' = [pc EXCEPT ![s] = "check"] /\ job' = job
          BY <1>4, <3>2 DEF LockSale
        <4> HIDE DEF t
        <4>. QED
          BY <2>1, <4>3, <4>4 DEF TypeOK, JobOK, Steps
      <3>. QED
        BY <3>1, <3>2
    <2>. QED
      BY <1>4, <2>2 DEF LockSale, TypeOK
  <1>5. ASSUME NEW s \in Sessions, Check(s) PROVE TypeInv'
    <2>1. job[s].batch # <<>>
      BY <1>0, <1>5 DEF Check, Working
    <2>2. JobOK' /\ job' \in [Sessions -> Job] /\ pc' \in [Sessions -> Steps]
          /\ txn' \in [Sessions -> Txn]
      <3>1. CASE Exists(s)
        BY <2>1, <3>1, ExistsType
      <3>2. ASSUME NEW l, NEW code \in LineRefusals(Current(s), l, Already(s, l)),
                   Refuse(s, code)
            PROVE  JobOK' /\ job' \in [Sessions -> Job] /\ pc' \in [Sessions -> Steps]
                   /\ txn' \in [Sessions -> Txn]
        BY <2>1, <3>2, RefusalType, RefuseType
      <3>3. ASSUME NEW L \in SUBSET Lines, UNCHANGED txn,
                   job' = [job EXCEPT ![s] = NewJob(job[s].batch, L, job[s].results)],
                   pc' = [pc EXCEPT ![s] = "insert"]
            PROVE  JobOK' /\ job' \in [Sessions -> Job] /\ pc' \in [Sessions -> Steps]
                   /\ txn' \in [Sessions -> Txn]
        <4>1. job[s] \in Job
          BY DEF TypeOK
        <4>2. /\ NewJob(job[s].batch, L, job[s].results) \in Job
              /\ NewJob(job[s].batch, L, job[s].results).batch = job[s].batch
          BY <4>1, JobFields, NewJobType
        <4>. QED
          BY <2>1, <3>3, <4>2, JobKept DEF TypeOK, Steps
      <3>4. {l \in InReturn(Current(s)) \cap Resellable[Current(s)] : Product[l] \in live}
              \in SUBSET Lines
        BY DEF InReturn
      <3>. QED
        BY <1>5, <3>1, <3>2, <3>3, <3>4 DEF Check
    <2>. QED
      BY <1>5, <2>2 DEF Check, TypeOK
  <1>6. ASSUME NEW s \in Sessions, InsertReturn(s) PROVE TypeInv'
    <2>1. job[s].batch # <<>>
      BY <1>0, <1>6 DEF InsertReturn, Working
    <2>2. txn' \in [Sessions -> Txn]
      <3>1. txn[s] \in Txn /\ next + txn[s].taken \in Nat /\ txn[s].taken + 1 \in Nat
        BY TxnFields DEF TypeOK
      <3>2. [txn[s].rows EXCEPT ![Current(s)] = next + txn[s].taken] \in [Returns -> Nat]
        BY <3>1, TxnFields
      <3>3. \A l \in Lines : Plus(txn[s].sums[l], Item(s, l)) \in Sums
        BY <2>1, <3>1, TxnFields, ItemType, PlusType
      <3>4. [l \in Lines |-> Plus(txn[s].sums[l], Item(s, l))] \in [Lines -> Sums]
        BY <3>3
      <3>5. txn[s].locks \cup {StoreRow} \in SUBSET Rows
        BY <3>1, TxnFields DEF Rows
      <3>. QED
        BY <1>6, <3>1, <3>2, <3>4, <3>5, NewTxnType DEF InsertReturn, TypeOK
    <2>. QED
      BY <1>6, <2>1, <2>2 DEF InsertReturn, TypeOK, JobOK, Steps
  <1>7. ASSUME NEW s \in Sessions, NEW l \in Lines, Restock(s, l) PROVE TypeInv'
    <2>1. job[s].batch # <<>>
      BY <1>0, <1>7 DEF Restock, Working
    <2>2. JobOK' /\ job' \in [Sessions -> Job] /\ pc' \in [Sessions -> Steps]
          /\ txn' \in [Sessions -> Txn]
      <3>1. CASE Product[l] \in live
        <4> DEFINE j == NewJob(job[s].batch, job[s].restock \ {l}, job[s].results)
        <4>1. job[s] \in Job
          BY DEF TypeOK
        <4>2. j \in Job /\ j.batch = job[s].batch
          BY <4>1, JobFields, NewJobType
        <4>3. job' = [job EXCEPT ![s] = j] /\ pc' = [pc EXCEPT ![s] = pc[s]]
          BY <1>7, <3>1 DEF Restock, Restocked, TypeOK
        <4>4. txn' \in [Sessions -> Txn]
          BY <1>7, <2>1, <3>1, WithMovementType DEF Restock, TypeOK
        <4>5. pc[s] \in Steps
          BY DEF TypeOK
        <4> HIDE DEF j
        <4>. QED
          BY <2>1, <4>2, <4>3, <4>4, <4>5, JobKept
      <3>2. CASE Product[l] \notin live
        BY <1>7, <2>1, <3>2, FailReturnType DEF Restock
      <3>. QED
        BY <3>1, <3>2
    <2>. QED
      BY <1>7, <2>2 DEF Restock, TypeOK
  <1>8. ASSUME NEW s \in Sessions, FinishReturn(s) PROVE TypeInv'
    <2>1. job[s].batch # <<>>
      BY <1>0, <1>8 DEF FinishReturn, Working
    <2>2. "stored" \in Outcomes
      BY DEF Outcomes
    <2>3. JobOK' /\ job' \in [Sessions -> Job] /\ pc' \in [Sessions -> Steps]
      BY <1>8, <2>1, <2>2, ResultType, NextReturnType DEF FinishReturn
    <2>. QED
      BY <1>8, <2>3 DEF FinishReturn, TypeOK
  <1>9. ASSUME NEW s \in Sessions, ErrorInReturn(s) PROVE TypeInv'
    <2>1. job[s].batch # <<>>
      BY <1>0, <1>9 DEF ErrorInReturn, Working
    <2>2. JobOK' /\ job' \in [Sessions -> Job] /\ pc' \in [Sessions -> Steps]
          /\ txn' \in [Sessions -> Txn]
      <3>1. CASE pc[s] = "look"
        BY <1>9, <2>1, <3>1, NextReturnType DEF ErrorInReturn, TypeOK
      <3>2. CASE pc[s] # "look"
        BY <1>9, <2>1, <3>2, FailReturnType DEF ErrorInReturn
      <3>. QED
        BY <3>1, <3>2
    <2>. QED
      BY <1>9, <2>2, FaultCounted DEF ErrorInReturn, TypeOK
  <1>10. ASSUME NEW s \in Sessions, DeadlockFails(s) PROVE TypeInv'
    <2>1. pc[s] \in {"lock", "insert"}
      BY <1>10 DEF DeadlockFails, Deadlocked, Circle, Waits, Wanted
    <2>2. job[s].batch # <<>>
      BY <1>0, <2>1 DEF Working
    <2>. QED
      BY <1>10, <2>2, FailReturnType DEF DeadlockFails, TypeOK
  <1>11. ASSUME NEW s \in Sessions, Respond(s) PROVE TypeInv'
    <2>1. job[s].results \in SUBSET (Returns \X Outcomes)
      BY JobFields DEF TypeOK
    <2>2. outcome' \in [Returns -> Outcomes]
      <3>1. \A r \in Returns :
              r \in {a[1] : a \in job[s].results} =>
                (CHOOSE a \in job[s].results : a[1] = r)[2] \in Outcomes
        BY <2>1
      <3>. QED
        BY <1>11, <3>1 DEF Respond, TypeOK
    <2>3. queue' \in [Devices -> SUBSET Returns]
      BY <1>11 DEF Respond, TypeOK
    <2>4. waiting' \in [Devices -> Sessions \cup {None}]
      BY <1>11 DEF Respond, TypeOK
    <2>5. JobOK' /\ pc' \in [Sessions -> Steps]
      BY <1>11 DEF Respond, TypeOK, JobOK, Working, Steps
    <2>. QED
      BY <1>11, <2>2, <2>3, <2>4, <2>5 DEF Respond, TypeOK
  <1>12. ASSUME NEW s \in Sessions, Close(s)
         PROVE  JobOK' /\ job' \in [Sessions -> Job] /\ pc' \in [Sessions -> Steps]
                /\ txn' \in [Sessions -> Txn] /\ saved' \in [Sessions -> Txn]
    <2>1. JobOK' /\ job' \in [Sessions -> Job] /\ pc' \in [Sessions -> Steps]
      BY <1>12, NoJobType, JobKept DEF Close, Working, Steps
    <2>. QED
      BY <1>12, <2>1, NoWritesType DEF Close, TypeOK
  <1>13. ASSUME NEW s \in Sessions, Commit(s) PROVE TypeInv'
    <2>1. number' \in [Returns -> Nat]
      BY <1>13, SeenType DEF Commit
    <2>2. txn[s] \in Txn
      BY DEF TypeOK
    <2>3. next' \in Nat \ {0}
      BY <1>13, <2>2, TxnFields DEF Commit, TypeOK
    <2>4. \A l \in Lines : Plus(totals[l], txn[s].sums[l]) \in Sums
      BY <2>2, TxnFields, PlusType DEF TypeOK
    <2>5. totals' \in [Lines -> Sums]
      BY <1>13, <2>4 DEF Commit
    <2>. QED
      BY <1>12, <1>13, <2>1, <2>3, <2>5 DEF Commit, TypeOK
  <1>14. ASSUME NEW s \in Sessions, Crash(s) PROVE TypeInv'
    <2>1. faults' \in Faults
      BY <1>14, FaultCounted DEF Crash, TypeOK
    <2>2. waiting' \in [Devices -> Sessions \cup {None}]
      BY <1>14 DEF Crash, TypeOK
    <2>. QED
      BY <1>12, <1>14, <2>1, <2>2 DEF Crash, TypeOK
  <1>15. ASSUME NEW s \in Sessions, LoseConnection(s) PROVE TypeInv'
    <2>1. faults' \in Faults
      BY <1>15, FaultCounted DEF LoseConnection, TypeOK
    <2>2. NewJob(<<>>, {}, job[s].results) \in Job
      BY JobFields DEF NewJob, Job, TypeOK
    <2>3. JobOK' /\ job' \in [Sessions -> Job] /\ pc' \in [Sessions -> Steps]
      BY <1>15, <2>2, JobKept DEF LoseConnection, Working, Steps
    <2>4. txn' \in [Sessions -> Txn] /\ saved' \in [Sessions -> Txn]
      BY <1>15, NoWritesType DEF LoseConnection, TypeOK
    <2>. QED
      BY <1>15, <2>1, <2>3, <2>4 DEF LoseConnection, TypeOK
  <1>16. ASSUME NEW x \in Sales, SaleCommits(x) PROVE TypeInv'
    BY <1>16 DEF SaleCommits, TypeOK, JobOK
  <1>17. ASSUME NEW p \in Products, DeleteProduct(p) PROVE TypeInv'
    BY <1>17 DEF DeleteProduct, TypeOK, JobOK
  <1>18. CASE UNCHANGED vars
    BY <1>18 DEF vars, TypeOK, JobOK
  <1>. QED
    BY <1>1, <1>2, <1>3, <1>4, <1>5, <1>6, <1>7, <1>8, <1>9, <1>10, <1>11, <1>13,
       <1>14, <1>15, <1>16, <1>17, <1>18 DEF Next, Progress

\* Every variable keeps its type, and a session that processes a return has one
\* (the type invariant of the runs, for every value of the constants).
THEOREM TypeCorrect == Spec => [](TypeOK /\ JobOK)
  BY TypeInit, TypeStep, PTL DEF Spec, TypeInv

-----------------------------------------------------------------------------
(* The returns of a line stay within its sale *)

\* What the line would have back if transaction t were committed now is within
\* what was sold and refunded by the rule, and a transaction that adds to a line
\* holds its sale.
Within(t, l) ==
  /\ totals[l].units + t.sums[l].units <= Sold[l]
  /\ totals[l].francs + t.sums[l].francs =
       Due(Paid[l], Sold[l], totals[l].units + t.sums[l].units)
  /\ t.sums[l].units # 0 \/ t.sums[l].francs # 0 => SaleLine[l] \in t.locks

\* The checks of the current return of s still hold when it is inserted.
Accepted(s) ==
  LET r == Current(s) IN
    \A l \in InReturn(r) : /\ SaleLine[l] \in txn[s].locks
                           /\ Already(s, l) + Qty[r][l] <= Sold[l]

Stored(l) ==
  /\ totals[l].units <= Sold[l]
  /\ totals[l].francs = Due(Paid[l], Sold[l], totals[l].units)

\* The inductive invariant: a lock is held once, a SAVEPOINT holds no more than
\* its transaction, the committed sums and the open transactions are within the
\* sales, a session past its checks may insert.
Inv ==
  /\ TypeInv
  /\ \A s, t \in Sessions : s # t => txn[s].locks \cap txn[t].locks = {}
  /\ \A s \in Sessions : saved[s].locks \subseteq txn[s].locks
  /\ \A s \in Sessions : \A l \in Lines : Within(txn[s], l) /\ Within(saved[s], l)
  /\ \A l \in Lines : Stored(l)
  /\ \A s \in Sessions : pc[s] = "check" => SaleOf[Current(s)] \in txn[s].locks
  /\ \A s \in Sessions : pc[s] = "insert" => Accepted(s)

\* The parts of Inv that the transactions decide, without the sessions' places.
Ledgers ==
  /\ \A s, t \in Sessions : s # t => txn[s].locks \cap txn[t].locks = {}
  /\ \A s \in Sessions : saved[s].locks \subseteq txn[s].locks
  /\ \A s \in Sessions : \A l \in Lines : Within(txn[s], l) /\ Within(saved[s], l)
  /\ \A l \in Lines : Stored(l)

Places ==
  /\ \A s \in Sessions : pc[s] = "check" => SaleOf[Current(s)] \in txn[s].locks
  /\ \A s \in Sessions : pc[s] = "insert" => Accepted(s)

LEMMA InvParts == Inv <=> TypeInv /\ Ledgers /\ Places
  BY DEF Inv, Ledgers, Places

LEMMA NoWritesWithin ==
  ASSUME TypeOK, NEW l \in Lines, Stored(l)
  PROVE  Within(NoWrites, l)
  BY DEF Within, Stored, NoWrites, NewTxn, NoSums, TypeOK, Sums

\* A session whose transaction becomes t, at the same SAVEPOINT, keeps the
\* ledgers if t does.
LEMMA LedgersKept ==
  ASSUME TypeInv, Ledgers, NEW s \in Sessions, NEW t \in Txn,
         txn' = [txn EXCEPT ![s] = t], totals' = totals,
         \/ UNCHANGED saved
         \/ saved' = [saved EXCEPT ![s] = txn[s]] /\ t = txn[s]
         \/ saved' = [saved EXCEPT ![s] = t],
         UNCHANGED saved => saved[s].locks \subseteq t.locks,
         \A u \in Sessions \ {s} : t.locks \cap txn[u].locks = {},
         \A l \in Lines : Within(t, l)
  PROVE  Ledgers'
  <1>1. txn'[s] = t /\ \A u \in Sessions \ {s} : txn'[u] = txn[u]
    BY DEF TypeInv, TypeOK
  <1>2. \A u \in Sessions \ {s} : saved'[u] = saved[u]
    BY DEF TypeInv, TypeOK
  <1>3. saved'[s] = saved[s] \/ saved'[s] = t
    BY DEF TypeInv, TypeOK
  <1>5. \A l \in Lines : Stored(l)'
    BY DEF Ledgers, Stored
  <1>6. \A u \in Sessions : saved'[u].locks \subseteq txn'[u].locks
    BY <1>1, <1>2, <1>3 DEF Ledgers, TypeInv, TypeOK
  <1>7. \A u, v \in Sessions : u # v => txn'[u].locks \cap txn'[v].locks = {}
    BY <1>1 DEF Ledgers
  <1>8. \A u \in Sessions : \A l \in Lines : Within(txn[u], l)' /\ Within(saved[u], l)'
    BY <1>1, <1>2, <1>3 DEF Ledgers, Within
  <1>. QED
    BY <1>5, <1>6, <1>7, <1>8 DEF Ledgers

\* A session that ends a return, or begins one, is past no check.
LEMMA PlacesKept ==
  ASSUME TypeInv, Places, NEW s \in Sessions, totals' = totals,
         \A u \in Sessions \ {s} : /\ pc'[u] = pc[u] /\ job'[u] = job[u]
                                  /\ txn'[u] = txn[u],
         pc'[s] \notin {"check", "insert"}
  PROVE  Places'
  BY DEF Places, Accepted, Already, Current

LEMMA NextReturnPlaces ==
  ASSUME TypeInv, Places, NEW s \in Sessions, totals' = totals,
         NEW results, NextReturn(s, results),
         \A u \in Sessions \ {s} : txn'[u] = txn[u]
  PROVE  Places'
  <1>1. \A u \in Sessions \ {s} : pc'[u] = pc[u] /\ job'[u] = job[u]
    BY DEF NextReturn, TypeInv, TypeOK
  <1>2. pc'[s] \in {"respond", "look"}
    BY DEF NextReturn, TypeInv, TypeOK
  <1>. QED
    BY <1>1, <1>2, PlacesKept

LEMMA RollBackKept ==
  ASSUME TypeInv, Ledgers, NEW s \in Sessions, RollBack(s),
         UNCHANGED <<totals, saved>>
  PROVE  Ledgers' /\ \A u \in Sessions \ {s} : txn'[u] = txn[u]
  <1>1. txn' = [txn EXCEPT ![s] = saved[s]] /\ saved[s] \in Txn
    BY DEF RollBack, TypeInv, TypeOK
  <1>2. \A u \in Sessions \ {s} : saved[s].locks \cap txn[u].locks = {}
    BY DEF Ledgers
  <1>3. \A l \in Lines : Within(saved[s], l)
    BY DEF Ledgers
  <1>4. Ledgers'
    BY <1>1, <1>2, <1>3, LedgersKept
  <1>. QED
    BY <1>1, <1>4 DEF TypeInv, TypeOK

LEMMA FailReturnKept ==
  ASSUME Inv, NEW s \in Sessions, NEW results, NextReturn(s, results), RollBack(s),
         UNCHANGED <<totals, saved>>
  PROVE  Ledgers' /\ Places'
  BY InvParts, RollBackKept, NextReturnPlaces

LEMMA ExistsKept ==
  ASSUME Inv, NEW s \in Sessions, Exists(s), totals' = totals,
         UNCHANGED saved \/ saved' = [saved EXCEPT ![s] = txn[s]]
  PROVE  Ledgers' /\ Places'
  <1>1. txn[s] \in Txn /\ txn' = [txn EXCEPT ![s] = txn[s]] /\ txn' = txn
    BY InvParts DEF Exists, TypeInv, TypeOK
  <1>2. Ledgers'
    BY <1>1, InvParts, LedgersKept DEF Ledgers
  <1>3. Places'
    BY <1>1, InvParts, NextReturnPlaces DEF Exists
  <1>. QED
    BY <1>2, <1>3

\* A transaction given up, together with its SAVEPOINT.
LEMMA GivenUpKept ==
  ASSUME TypeInv, Ledgers, NEW s \in Sessions, totals' = totals,
         txn' = [txn EXCEPT ![s] = NoWrites], saved' = [saved EXCEPT ![s] = NoWrites]
  PROVE  Ledgers'
  <1>1. NoWrites \in Txn /\ NoWrites.locks = {}
    BY NoWritesType DEF NoWrites, NewTxn
  <1>2. \A l \in Lines : Within(NoWrites, l)
    BY NoWritesWithin DEF Ledgers, TypeInv
  <1>3. UNCHANGED saved => saved[s].locks \subseteq NoWrites.locks
    BY DEF TypeInv, TypeOK
  <1>. QED
    BY <1>1, <1>2, <1>3, LedgersKept

LEMMA InvInit == Init => Inv
  <1>. SUFFICES ASSUME Init PROVE Inv
    OBVIOUS
  <1>1. TypeInv
    BY TypeInit
  <1>2. \A l \in Lines : Stored(l)
    BY SaleReturnsAssumption, DueNothing DEF Init, Stored, NoSums
  <1>3. \A s \in Sessions : txn[s] = NoWrites /\ saved[s] = NoWrites
    BY DEF Init
  <1>4. NoWrites.locks = {}
    BY DEF NoWrites, NewTxn
  <1>5. \A l \in Lines : Within(NoWrites, l)
    BY <1>1, <1>2, NoWritesWithin DEF TypeInv
  <1>6. Ledgers
    BY <1>2, <1>3, <1>4, <1>5 DEF Ledgers
  <1>7. Places
    BY DEF Init, Places
  <1>. QED
    BY <1>1, <1>6, <1>7, InvParts

\* The lines of the transaction being committed keep no other session waiting
\* with writes of its own: only one of them holds the sale.
LEMMA CommitKept ==
  ASSUME Inv, NEW s \in Sessions, Commit(s)
  PROVE  Ledgers' /\ Places'
  <1> DEFINE a == txn[s]
  <1>. USE DEF TypeInv
  <1>1. /\ TypeOK /\ Ledgers /\ Places
    BY InvParts
  <1>2. /\ txn'[s] = NoWrites /\ saved'[s] = NoWrites
        /\ \A u \in Sessions \ {s} : /\ txn'[u] = txn[u] /\ saved'[u] = saved[u]
                                    /\ pc'[u] = pc[u] /\ job'[u] = job[u]
        /\ pc'[s] = "idle"
    BY <1>1 DEF Commit, Close, TypeOK
  <1>3. \A l \in Lines : /\ totals'[l].units = totals[l].units + a.sums[l].units
                        /\ totals'[l].francs = totals[l].francs + a.sums[l].francs
    BY <1>1 DEF Commit, Plus
  <1>4. \A l \in Lines : Stored(l)'
    BY <1>1, <1>3 DEF Ledgers, Within, Stored
  <1>5. \A l \in Lines : Within(NoWrites, l)'
    <2>1. NoWrites.sums = [l \in Lines |-> NoSums] /\ NoSums.units = 0 /\ NoSums.francs = 0
      BY DEF NoWrites, NewTxn, NoSums
    <2>2. \A l \in Lines : totals'[l].units \in Nat /\ totals'[l].francs \in Int
      <3>1. \A l \in Lines : a.sums[l] \in Sums /\ totals[l] \in Sums
        BY <1>1, TxnFields DEF TypeOK
      <3>. QED
        BY <1>3, <3>1 DEF Sums
    <2>3. \A l \in Lines : /\ NoWrites.sums[l].units = 0
                          /\ NoWrites.sums[l].francs = 0
      BY <2>1
    <2>. QED
      BY <1>4, <2>2, <2>3 DEF Within, Stored
  <1>6. ASSUME NEW u \in Sessions \ {s}, NEW l \in Lines, NEW t \in Txn,
               t.locks \subseteq txn[u].locks, Within(t, l)
        PROVE  Within(t, l)'
    <2>1. a.locks \cap t.locks = {}
      BY <1>1, <1>6 DEF Ledgers
    <2>2. Within(a, l)
      BY <1>1 DEF Ledgers
    <2>3. /\ a.sums[l] \in Sums /\ totals[l] \in Sums /\ t.sums[l] \in Sums
      BY <1>1, <1>6, TxnFields DEF TypeOK
    <2>4. CASE SaleLine[l] \in a.locks
      <3>1. t.sums[l].units = 0 /\ t.sums[l].francs = 0
        BY <1>6, <2>1, <2>4 DEF Within
      <3>. QED
        BY <1>3, <1>4, <2>3, <3>1 DEF Within, Stored, Sums
    <2>5. CASE SaleLine[l] \notin a.locks
      <3>1. a.sums[l].units = 0 /\ a.sums[l].francs = 0
        BY <2>2, <2>5 DEF Within
      <3>2. totals'[l].units = totals[l].units /\ totals'[l].francs = totals[l].francs
        BY <1>3, <2>3, <3>1 DEF Sums
      <3>. QED
        BY <1>6, <3>2 DEF Within
    <2>. QED
      BY <2>4, <2>5
  <1>7. \A u \in Sessions : \A l \in Lines : Within(txn[u], l)' /\ Within(saved[u], l)'
    <2>1. ASSUME NEW u \in Sessions, u = s, NEW l \in Lines
          PROVE  Within(txn[u], l)' /\ Within(saved[u], l)'
      BY <1>2, <1>5, <2>1 DEF Within
    <2>2. ASSUME NEW u \in Sessions \ {s}, NEW l \in Lines
          PROVE  Within(txn[u], l)' /\ Within(saved[u], l)'
      <3>1. /\ txn[u] \in Txn /\ saved[u] \in Txn
            /\ saved[u].locks \subseteq txn[u].locks
            /\ Within(txn[u], l) /\ Within(saved[u], l)
        BY <1>1 DEF Ledgers, TypeOK
      <3>2. \A t \in Txn : t.locks \subseteq txn[u].locks /\ Within(t, l) => Within(t, l)'
        BY <1>6
      <3>. QED
        BY <1>2, <3>1, <3>2 DEF Within
    <2>. QED
      BY <2>1, <2>2
  <1>8. Ledgers'
    <2>1. NoWrites.locks = {}
      BY DEF NoWrites, NewTxn
    <2>. QED
      BY <1>1, <1>2, <1>4, <1>7, <2>1 DEF Ledgers
  <1>9. Places'
    <2>1. ASSUME NEW u \in Sessions, pc'[u] = "check"
          PROVE  (SaleOf[Current(u)] \in txn[u].locks)'
      BY <1>1, <1>2, <2>1 DEF Places, Current
    <2>2. ASSUME NEW u \in Sessions, pc'[u] = "insert"
          PROVE  Accepted(u)'
      <3>1. u # s /\ Accepted(u) /\ Current(u)' = Current(u)
        BY <1>1, <1>2, <2>2 DEF Places, Current
      <3>2. ASSUME NEW l \in InReturn(Current(u))
            PROVE  SaleLine[l] \in txn[u].locks /\ Already(u, l)' + Qty[Current(u)][l] <= Sold[l]
        <4>1. l \in Lines /\ SaleLine[l] \in txn[u].locks
          BY <3>1, <3>2 DEF Accepted, InReturn
        <4>2. SaleLine[l] \notin a.locks
          BY <1>1, <3>1, <4>1 DEF Ledgers
        <4>3. a.sums[l].units = 0
          BY <1>1, <4>1, <4>2 DEF Ledgers, Within
        <4>4. a.sums[l] \in Sums /\ totals[l] \in Sums
          BY <1>1, <4>1, TxnFields DEF TypeOK
        <4>5. totals'[l].units = totals[l].units
          BY <1>3, <4>1, <4>3, <4>4 DEF Sums
        <4>6. Already(u, l)' = Already(u, l)
          BY <1>2, <3>1, <4>5 DEF Already
        <4>. QED
          BY <3>1, <3>2, <4>1, <4>6 DEF Accepted
      <3>. QED
        BY <1>2, <3>1, <3>2 DEF Accepted, InReturn
    <2>. QED
      BY <2>1, <2>2 DEF Places
  <1>. QED
    BY <1>8, <1>9

LEMMA InsertKept ==
  ASSUME Inv, NEW s \in Sessions, InsertReturn(s)
  PROVE  Ledgers' /\ Places'
  <1> DEFINE r == Current(s)
             w == [l \in Lines |-> Plus(txn[s].sums[l], Item(s, l))]
             t == NewTxn([txn[s].rows EXCEPT ![r] = next + txn[s].taken],
                         txn[s].taken + 1, w, txn[s].locks \cup {StoreRow})
  <1>. USE DEF TypeInv
  <1>1. TypeOK /\ Ledgers /\ Places /\ JobOK
    BY InvParts
  <1>2. job[s].batch # <<>> /\ r \in Returns /\ txn[s] \in Txn
    BY <1>1, CurrentType DEF InsertReturn, JobOK, Working, TypeOK
  <1>3. /\ \A l \in Lines : Item(s, l) \in Sums /\ txn[s].sums[l] \in Sums
        /\ w \in [Lines -> Sums]
    BY <1>1, <1>2, ItemType, PlusType, TxnFields
  <1>4. t \in Txn /\ t.sums = w /\ t.locks = txn[s].locks \cup {StoreRow}
    <2>1. [txn[s].rows EXCEPT ![r] = next + txn[s].taken] \in [Returns -> Nat]
      BY <1>1, <1>2, TxnFields DEF TypeOK
    <2>2. txn[s].taken + 1 \in Nat /\ txn[s].locks \cup {StoreRow} \in SUBSET Rows
      BY <1>2, TxnFields DEF Rows
    <2>. HIDE DEF w
    <2>. QED
      BY <1>3, <2>1, <2>2, NewTxnType
  <1>5. txn' = [txn EXCEPT ![s] = t] /\ totals' = totals /\ saved' = saved
        /\ pc' = [pc EXCEPT ![s] = "restock"] /\ job' = job
    BY DEF InsertReturn, db
  <1>6. ASSUME NEW l \in Lines PROVE Within(t, l)
    <2> DEFINE q == Qty[r][l]
               n == Already(s, l)
    <2>1. q \in Nat /\ n \in Nat
      BY <1>1, <1>2, AlreadyType, SaleReturnsAssumption
    <2>2. n + q <= Sold[l] /\ (q # 0 => SaleLine[l] \in txn[s].locks)
      <3>1. CASE q # 0
        <4>1. l \in InReturn(r)
          BY <2>1, <3>1 DEF InReturn
        <4>. QED
          BY <1>1, <4>1 DEF InsertReturn, Places, Accepted
      <3>2. CASE q = 0
        BY <1>1, <2>1, <3>2 DEF Ledgers, Within, Already
      <3>. QED
        BY <3>1, <3>2
    <2>3. /\ w[l].units = txn[s].sums[l].units + q
          /\ w[l].francs = txn[s].sums[l].francs + RefundFor(Paid[l], Sold[l], n, q)
      BY DEF Plus, Item
    <2>4. /\ totals[l].units \in Nat /\ totals[l].francs \in Int
          /\ txn[s].sums[l].units \in Nat /\ txn[s].sums[l].francs \in Int
      BY <1>1, <1>3 DEF TypeOK, Sums
    <2>5. totals[l].units + w[l].units = n + q
      BY <2>1, <2>3, <2>4 DEF Already
    <2>6. totals[l].francs + w[l].francs = Due(Paid[l], Sold[l], n + q)
      <3>1. totals[l].francs + txn[s].sums[l].francs = Due(Paid[l], Sold[l], n)
        BY <1>1 DEF Ledgers, Within, Already
      <3>2. /\ Due(Paid[l], Sold[l], n) \in Int
            /\ Due(Paid[l], Sold[l], n + q) \in Int
        BY <2>1, DueType
      <3>. QED
        BY <2>3, <2>4, <3>1, <3>2 DEF RefundFor
    <2>7. w[l].units # 0 \/ w[l].francs # 0 => SaleLine[l] \in txn[s].locks
      <3>1. CASE q # 0
        BY <2>2, <3>1
      <3>2. CASE q = 0
        <4>1. RefundFor(Paid[l], Sold[l], n, q) = 0
          BY <2>1, <3>2, DueType DEF RefundFor
        <4>2. w[l].units = txn[s].sums[l].units /\ w[l].francs = txn[s].sums[l].francs
          BY <2>3, <2>4, <3>2, <4>1
        <4>. QED
          BY <1>1, <4>2 DEF Ledgers, Within
      <3>. QED
        BY <3>1, <3>2
    <2>. HIDE DEF w, t, n, q
    <2>. QED
      BY <1>4, <2>2, <2>5, <2>6, <2>7 DEF Within
  <1>. HIDE DEF t, w
  <1>7. \A u \in Sessions \ {s} : t.locks \cap txn[u].locks = {}
    <2>1. ASSUME NEW u \in Sessions \ {s} PROVE t.locks \cap txn[u].locks = {}
      <3>1. StoreRow \notin txn[u].locks
        BY DEF InsertReturn, Free
      <3>2. txn[s].locks \cap txn[u].locks = {}
        BY <1>1 DEF Ledgers
      <3>. QED
        BY <1>4, <3>1, <3>2
    <2>. QED
      BY <2>1
  <1>8. saved[s].locks \subseteq t.locks
    BY <1>1, <1>4 DEF Ledgers
  <1>9. Ledgers'
    BY <1>1, <1>4, <1>5, <1>6, <1>7, <1>8, InvParts, LedgersKept
  <1>10. Places'
    <2>1. \A u \in Sessions \ {s} : pc'[u] = pc[u] /\ job'[u] = job[u] /\ txn'[u] = txn[u]
      BY <1>1, <1>5 DEF TypeOK
    <2>2. pc'[s] = "restock"
      BY <1>1, <1>5 DEF TypeOK
    <2>. QED
      BY <1>1, <1>5, <2>1, <2>2, PlacesKept
  <1>. QED
    BY <1>9, <1>10

LEMMA RestockKept ==
  ASSUME Inv, NEW s \in Sessions, NEW l \in Lines, Restock(s, l)
  PROVE  Ledgers' /\ Places'
  <1>. USE DEF TypeInv
  <1>1. TypeOK /\ Ledgers /\ Places /\ JobOK
    BY InvParts
  <1>2. job[s].batch # <<>> /\ Current(s) \in Returns /\ txn[s] \in Txn
    BY <1>1, CurrentType DEF Restock, JobOK, Working, TypeOK
  <1>3. CASE Product[l] \notin live
    BY <1>3, FailReturnKept DEF Restock, FailReturn, db
  <1>4. CASE Product[l] \in live
    <2> DEFINE t == WithMovement(s, l)
    <2>1. t \in Txn
      BY <1>1, <1>2, WithMovementType
    <2>2. t.locks = txn[s].locks
      BY DEF WithMovement, NewTxn
    <2>3. \A m \in Lines : /\ t.sums[m].units = txn[s].sums[m].units
                          /\ t.sums[m].francs = txn[s].sums[m].francs
      <3>1. \A m \in Lines : txn[s].sums[m].units \in Nat /\ txn[s].sums[m].francs \in Int
        BY <1>2, TxnFields DEF Sums
      <3>. QED
        BY <3>1 DEF WithMovement, NewTxn, Plus, Movement
    <2>4. txn' = [txn EXCEPT ![s] = t] /\ totals' = totals /\ saved' = saved /\ pc' = pc
          /\ job' = Restocked(s, l)
      BY <1>4 DEF Restock, db
    <2> HIDE DEF t
    <2>5. \A m \in Lines : Within(t, m)
      BY <1>1, <2>2, <2>3 DEF Ledgers, Within
    <2>6. Ledgers'
      <3>1. \A u \in Sessions \ {s} : t.locks \cap txn[u].locks = {}
        BY <1>1, <2>2 DEF Ledgers
      <3>2. saved[s].locks \subseteq t.locks
        BY <1>1, <2>2 DEF Ledgers
      <3>. QED
        BY <1>1, <2>1, <2>4, <2>5, <3>1, <3>2, InvParts, LedgersKept
    <2>7. \A u \in Sessions \ {s} : pc'[u] = pc[u] /\ job'[u] = job[u] /\ txn'[u] = txn[u]
      BY <1>1, <2>4 DEF TypeOK, Restocked
    <2>8. pc'[s] = "restock"
      BY <2>4 DEF Restock
    <2>. QED
      BY <1>1, <2>4, <2>6, <2>7, <2>8, PlacesKept
  <1>. QED
    BY <1>3, <1>4

LEMMA LockSaleKept ==
  ASSUME Inv, NEW s \in Sessions, LockSale(s)
  PROVE  Ledgers' /\ Places'
  <1> DEFINE x == SaleOf[Current(s)]
             t == NewTxn(txn[s].rows, txn[s].taken, txn[s].sums, txn[s].locks \cup {x})
  <1>. USE DEF TypeInv
  <1>1. TypeOK /\ Ledgers /\ Places
    BY InvParts
  <1>2. CASE x \notin stored
    BY <1>2, FailReturnKept DEF LockSale, Refuse, db
  <1>3. CASE x \in stored
    <2>1. txn[s] \in Txn /\ txn[s].locks \cup {x} \in SUBSET Rows
      BY <1>1, <1>3, TxnFields DEF TypeOK, Rows
    <2>2. /\ t \in Txn /\ t.sums = txn[s].sums /\ t.locks = txn[s].locks \cup {x}
      BY <2>1, TxnFields, NewTxnType
    <2>3. txn' = [txn EXCEPT ![s] = t] /\ totals' = totals /\ saved' = saved
          /\ pc' = [pc EXCEPT ![s] = "check"] /\ job' = job /\ Free(s, x)
      BY <1>3 DEF LockSale, db
    <2> HIDE DEF t, x
    <2>4. \A m \in Lines : Within(t, m)
      BY <1>1, <2>2 DEF Ledgers, Within
    <2>5. \A u \in Sessions \ {s} : t.locks \cap txn[u].locks = {}
      BY <1>1, <2>2, <2>3 DEF Ledgers, Free
    <2>6. Ledgers'
      <3>1. saved[s].locks \subseteq t.locks
        BY <1>1, <2>2 DEF Ledgers
      <3>. QED
        BY <1>1, <2>2, <2>3, <2>4, <2>5, <3>1, InvParts, LedgersKept
    <2>7. \A u \in Sessions : Current(u)' = Current(u)
      BY <2>3 DEF Current
    <2>8. /\ \A u \in Sessions \ {s} : pc'[u] = pc[u] /\ txn'[u] = txn[u]
          /\ pc'[s] = "check" /\ txn'[s] = t
      BY <1>1, <2>3 DEF TypeOK
    <2>9. Places'
      BY <1>1, <2>2, <2>3, <2>7, <2>8 DEF Places, Accepted, Already, x
    <2>. QED
      BY <2>6, <2>9
  <1>. QED
    BY <1>2, <1>3

LEMMA CheckKept ==
  ASSUME Inv, NEW s \in Sessions, Check(s)
  PROVE  Ledgers' /\ Places'
  <1> DEFINE r == Current(s)
             faulty == {l \in InReturn(r) : LineRefusals(r, l, Already(s, l)) # {}}
  <1>. USE DEF TypeInv
  <1>1. TypeOK /\ Ledgers /\ Places
    BY InvParts
  <1>2. CASE Exists(s)
    BY <1>2, ExistsKept DEF Check, db
  <1>3. ASSUME NEW code, Refuse(s, code) PROVE Ledgers' /\ Places'
    BY <1>3, FailReturnKept DEF Check, Refuse, db
  <1>4. CASE /\ faulty = {} /\ txn' = txn
             /\ pc' = [pc EXCEPT ![s] = "insert"]
             /\ job' = [job EXCEPT ![s] = NewJob(job[s].batch,
                  {l \in InReturn(r) \cap Resellable[r] : Product[l] \in live},
                  job[s].results)]
    <2>1. totals' = totals /\ saved' = saved
      BY DEF Check, db
    <2>2. Ledgers'
      BY <1>1, <1>4, <2>1 DEF Ledgers, Within, Stored
    <2>3. /\ \A u \in Sessions \ {s} : pc'[u] = pc[u] /\ job'[u] = job[u]
          /\ pc'[s] = "insert" /\ job'[s].batch = job[s].batch
      BY <1>1, <1>4 DEF TypeOK, NewJob
    <2>4. \A u \in Sessions : Current(u)' = Current(u) /\ \A l : Already(u, l)' = Already(u, l)
      BY <1>4, <2>1, <2>3 DEF Current, Already
    <2>5. Accepted(s)
      <3>1. ASSUME NEW l \in InReturn(r)
            PROVE  SaleLine[l] \in txn[s].locks /\ Already(s, l) + Qty[r][l] <= Sold[l]
        <4>1. LineRefusals(r, l, Already(s, l)) = {}
          BY <1>4, <3>1
        <4>2. SaleLine[l] = SaleOf[r] /\ ~(Already(s, l) + Qty[r][l] > Sold[l])
          BY <4>1 DEF LineRefusals
        <4>3. l \in Lines /\ Already(s, l) + Qty[r][l] \in Nat /\ Sold[l] \in Nat
          <5>1. l \in Lines /\ Qty[r][l] > 0
            BY <3>1 DEF InReturn
          <5>2. r \in Returns
            BY <1>1, CurrentType, InvParts DEF Check, JobOK, Working, TypeOK
          <5>. QED
            BY <1>1, <5>1, <5>2, AlreadyType, SaleReturnsAssumption
        <4>4. SaleOf[r] \in txn[s].locks
          BY <1>1 DEF Check, Places
        <4>. QED
          BY <4>2, <4>3, <4>4
      <3>. QED
        BY <3>1 DEF Accepted
    <2>6. \A u \in Sessions : Accepted(u)' <=> Accepted(u)
      BY <1>4, <2>4 DEF Accepted, InReturn
    <2>7. Places'
      BY <1>1, <1>4, <2>3, <2>4, <2>5, <2>6 DEF Places
    <2>. QED
      BY <2>2, <2>7
  <1>. QED
    BY <1>2, <1>3, <1>4 DEF Check

LEMMA InvStep == Inv /\ [Next]_vars => Inv'
  <1>. SUFFICES ASSUME Inv, [Next]_vars PROVE Ledgers' /\ Places'
    BY InvParts, TypeStep DEF Inv, Ledgers, Places
  <1>. USE DEF db, server, client
  <1>0. TypeInv /\ TypeOK /\ Ledgers /\ Places
    BY InvParts DEF TypeInv
  <1>1. CASE UNCHANGED <<totals, txn, saved, pc, job>>
    BY <1>0, <1>1 DEF Ledgers, Places, Within, Stored, Accepted, Already, Current
  <1>2. ASSUME NEW d \in Devices, NEW s \in Sessions, Send(d, s) PROVE Ledgers' /\ Places'
    <2>1. Ledgers'
      BY <1>0, <1>2 DEF Send, Ledgers, Within, Stored
    <2>2. /\ \A u \in Sessions \ {s} : pc'[u] = pc[u] /\ job'[u] = job[u] /\ txn'[u] = txn[u]
          /\ pc'[s] = "look" /\ totals' = totals
      BY <1>0, <1>2 DEF Send, TypeOK
    <2>. QED
      BY <1>0, <2>1, <2>2, PlacesKept
  <1>3. ASSUME NEW s \in Sessions, Look(s) PROVE Ledgers' /\ Places'
    <2>1. CASE Exists(s)
      BY <1>3, <2>1, ExistsKept DEF Look
    <2>2. CASE pc' = [pc EXCEPT ![s] = "lock"] /\ UNCHANGED <<job, txn>>
      <3>1. txn[s] \in Txn /\ txn' = [txn EXCEPT ![s] = txn[s]]
        BY <1>0, <2>2 DEF TypeOK
      <3>2. Ledgers'
        <4>1. saved' = [saved EXCEPT ![s] = txn[s]] /\ totals' = totals
          BY <1>3 DEF Look
        <4>2. \A l \in Lines : Within(txn[s], l)
          BY <1>0 DEF Ledgers
        <4>3. \A u \in Sessions \ {s} : txn[s].locks \cap txn[u].locks = {}
          BY <1>0 DEF Ledgers
        <4>4. saved[s].locks \subseteq txn[s].locks
          BY <1>0 DEF Ledgers
        <4>. QED
          BY <1>0, <3>1, <4>1, <4>2, <4>3, <4>4, LedgersKept
      <3>3. /\ \A u \in Sessions \ {s} : pc'[u] = pc[u] /\ job'[u] = job[u] /\ txn'[u] = txn[u]
            /\ pc'[s] = "lock" /\ totals' = totals
        BY <1>0, <1>3, <2>2 DEF Look, TypeOK
      <3>. QED
        BY <1>0, <3>2, <3>3, PlacesKept
    <2>. QED
      BY <1>3, <2>1, <2>2 DEF Look
  <1>4. ASSUME NEW s \in Sessions, FinishReturn(s) PROVE Ledgers' /\ Places'
    <2>1. Ledgers'
      BY <1>0, <1>4 DEF FinishReturn, Ledgers, Within, Stored
    <2>. QED
      BY <1>0, <1>4, <2>1, NextReturnPlaces DEF FinishReturn
  <1>5. ASSUME NEW s \in Sessions, ErrorInReturn(s) PROVE Ledgers' /\ Places'
    <2>1. CASE pc[s] = "look"
      <3>1. Ledgers'
        BY <1>0, <1>5, <2>1 DEF ErrorInReturn, Ledgers, Within, Stored
      <3>. QED
        BY <1>0, <1>5, <2>1, <3>1, NextReturnPlaces DEF ErrorInReturn
    <2>2. CASE pc[s] # "look"
      BY <1>5, <2>2, FailReturnKept DEF ErrorInReturn, FailReturn
    <2>. QED
      BY <2>1, <2>2
  <1>6. ASSUME NEW s \in Sessions, DeadlockFails(s) PROVE Ledgers' /\ Places'
    BY <1>6, FailReturnKept DEF DeadlockFails, FailReturn
  <1>7. ASSUME NEW s \in Sessions, Respond(s) PROVE Ledgers' /\ Places'
    <2>1. Ledgers'
      BY <1>0, <1>7 DEF Respond, Ledgers, Within, Stored
    <2>2. /\ \A u \in Sessions \ {s} : pc'[u] = pc[u] /\ job'[u] = job[u] /\ txn'[u] = txn[u]
          /\ pc'[s] = "commit" /\ totals' = totals
      BY <1>0, <1>7 DEF Respond, TypeOK
    <2>. QED
      BY <1>0, <2>1, <2>2, PlacesKept
  <1>8. ASSUME NEW s \in Sessions, Crash(s) \/ LoseConnection(s) PROVE Ledgers' /\ Places'
    <2>1. /\ txn' = [txn EXCEPT ![s] = NoWrites] /\ saved' = [saved EXCEPT ![s] = NoWrites]
          /\ totals' = totals
      BY <1>8 DEF Crash, LoseConnection, Close
    <2>2. Ledgers'
      BY <1>0, <2>1, GivenUpKept
    <2>3. /\ \A u \in Sessions \ {s} : pc'[u] = pc[u] /\ job'[u] = job[u] /\ txn'[u] = txn[u]
          /\ pc'[s] \in {"idle", "respond"}
      BY <1>0, <1>8 DEF Crash, LoseConnection, Close, TypeOK
    <2>. QED
      BY <1>0, <2>1, <2>2, <2>3, PlacesKept
  <1>9. ASSUME NEW d \in Devices, Timeout(d) PROVE Ledgers' /\ Places'
    BY <1>1, <1>9 DEF Timeout
  <1>10. ASSUME NEW x \in Sales, SaleCommits(x) PROVE Ledgers' /\ Places'
    BY <1>1, <1>10 DEF SaleCommits
  <1>11. ASSUME NEW p \in Products, DeleteProduct(p) PROVE Ledgers' /\ Places'
    BY <1>1, <1>11 DEF DeleteProduct
  <1>12. CASE UNCHANGED vars
    BY <1>1, <1>12 DEF vars
  <1>. QED
    BY <1>2, <1>3, <1>4, <1>5, <1>6, <1>7, <1>8, <1>9, <1>10, <1>11, <1>12,
       LockSaleKept, CheckKept, InsertKept, RestockKept, CommitKept DEF Next, Progress

\* The inductive invariant of the returns of a sale: uncommitted returns belong to
\* the session that holds the lock of create_return on the sale, and stored plus
\* uncommitted sums follow the cumulative formula of refund.py.
THEOREM InvCorrect == Spec => []Inv
  BY InvInit, InvStep, PTL DEF Spec

\* Whatever returns are pushed at once, no line has more units back than were
\* sold, nor more francs refunded than were paid, and a line entirely back is
\* refunded exactly what it paid (the rule of refund.py under the lock of
\* create_return).
THEOREM ReturnsCapped == Spec => []ReturnsWithinSale
  <1>1. ASSUME Inv PROVE ReturnsWithinSale
    <2>1. ASSUME NEW l \in Lines
          PROVE  /\ totals[l].units <= Sold[l]
                 /\ totals[l].francs <= Paid[l]
                 /\ totals[l].units = Sold[l] => totals[l].francs = Paid[l]
      <3>1. totals[l].units \in Nat /\ Sold[l] \in Nat \ {0} /\ Paid[l] \in Nat
        BY <1>1, SaleReturnsAssumption DEF Inv, TypeInv, TypeOK, Sums
      <3>2. /\ totals[l].units <= Sold[l]
            /\ totals[l].francs = Due(Paid[l], Sold[l], totals[l].units)
        BY <1>1 DEF Inv, Stored
      <3>3. /\ Due(Paid[l], Sold[l], totals[l].units) <= Paid[l]
            /\ Due(Paid[l], Sold[l], Sold[l]) = Paid[l]
        BY <3>1, <3>2, DueBounds
      <3>. QED
        BY <3>2, <3>3
    <2>. QED
      BY <2>1 DEF ReturnsWithinSale
  <1>. QED
    BY <1>1, InvCorrect, PTL

-----------------------------------------------------------------------------
(* The tables of returns agree *)

\* The units of line l in the returns that have a number in rows.
Counted(rows, l) == SumFunction([r \in Returns |-> IF rows[r] # 0 THEN Qty[r][l] ELSE 0])

\* What transaction t would add to the tables: numbers taken under the lock of
\* the store row, the next ones of the counter, one for each of its returns,
\* which are not stored and whose sales it has locked.
Kept(t) ==
  /\ StoreRow \notin t.locks => t.taken = 0
  /\ {t.rows[r] : r \in Returns} \ {0} = next .. (next + t.taken - 1)
  /\ \A r \in Returns : t.rows[r] # 0 => number[r] = 0 /\ SaleOf[r] \in t.locks
  /\ \A q, r \in Returns : t.rows[r] # 0 /\ t.rows[r] = t.rows[q] => r = q
  /\ \A l \in Lines : t.sums[l].units = Counted(t.rows, l)

NumbersOnce == \A q, r \in Returns : number[r] # 0 /\ number[r] = number[q] => r = q

Balanced(t) == \A l \in Lines : t.sums[l].marked = t.sums[l].moved

\* Units of line l that the return being inserted has still to put back.
Unmoved(s, l) == IF pc[s] = "restock" /\ l \in job[s].restock THEN Qty[Current(s)][l] ELSE 0

OpenMoves(s) ==
  /\ Balanced(saved[s])
  /\ \A l \in Lines : txn[s].sums[l].marked = txn[s].sums[l].moved + Unmoved(s, l)

Unstored(s) == Seen(s, Current(s)) = 0 /\ SaleOf[Current(s)] \in txn[s].locks

Books ==
  /\ NumbersWithoutGap /\ NumbersOnce /\ StoredReturnsCountOnce /\ RestockTraced
  /\ \A s \in Sessions : Kept(txn[s]) /\ Kept(saved[s])
  /\ \A s \in Sessions : OpenMoves(s)
  /\ \A s \in Sessions : pc[s] = "insert" => Unstored(s)

LEMMA CountedType ==
  ASSUME NEW rows, NEW l \in Lines
  PROVE  [r \in Returns |-> IF rows[r] # 0 THEN Qty[r][l] ELSE 0] \in [Returns -> Int]
         /\ Counted(rows, l) \in Int
  <1>1. [r \in Returns |-> IF rows[r] # 0 THEN Qty[r][l] ELSE 0] \in [Returns -> Int]
    BY SaleReturnsAssumption
  <1>. QED
    BY <1>1, SumType, SaleReturnsAssumption DEF Counted

\* One more return in rows counts for what it returns.
LEMMA CountedOneMore ==
  ASSUME NEW rows \in [Returns -> Nat], NEW r \in Returns, rows[r] = 0,
         NEW n \in Nat \ {0}, NEW l \in Lines
  PROVE  Counted([rows EXCEPT ![r] = n], l) = Counted(rows, l) + Qty[r][l]
  <1> DEFINE new == [q \in Returns |-> IF [rows EXCEPT ![r] = n][q] # 0 THEN Qty[q][l] ELSE 0]
             old == [q \in Returns |-> IF rows[q] # 0 THEN Qty[q][l] ELSE 0]
             one == [q \in Returns |-> IF q = r THEN Qty[r][l] ELSE 0]
  <1>1. /\ IsFiniteSet(Returns) /\ new \in [Returns -> Int] /\ old \in [Returns -> Int]
        /\ one \in [Returns -> Int]
    BY SaleReturnsAssumption
  <1>2. \A q \in Returns : new[q] = old[q] + one[q]
    BY SaleReturnsAssumption
  <1>3. one[r] = Qty[r][l] /\ \A q \in Returns \ {r} : one[q] = 0
    OBVIOUS
  <1> HIDE DEF new, old, one
  <1>4. SumFunction(one) = Qty[r][l]
    BY <1>1, <1>3, SumPoint
  <1>5. SumFunction(new) = SumFunction(old) + SumFunction(one)
    BY <1>1, <1>2, SumPlus
  <1>. QED
    BY <1>4, <1>5 DEF Counted, new, old

\* Returns numbered in one of two tables, never in both, count in one of them.
LEMMA CountedTogether ==
  ASSUME NEW a \in [Returns -> Nat], NEW b \in [Returns -> Nat],
         \A r \in Returns : a[r] = 0 \/ b[r] = 0,
         NEW c \in [Returns -> Nat],
         \A r \in Returns : c[r] = IF b[r] # 0 THEN b[r] ELSE a[r],
         NEW l \in Lines
  PROVE  Counted(c, l) = Counted(a, l) + Counted(b, l)
  <1> DEFINE both == [q \in Returns |-> IF c[q] # 0 THEN Qty[q][l] ELSE 0]
             fst  == [q \in Returns |-> IF a[q] # 0 THEN Qty[q][l] ELSE 0]
             snd  == [q \in Returns |-> IF b[q] # 0 THEN Qty[q][l] ELSE 0]
  <1>1. /\ IsFiniteSet(Returns) /\ both \in [Returns -> Int] /\ fst \in [Returns -> Int]
        /\ snd \in [Returns -> Int]
    BY SaleReturnsAssumption
  <1>2. \A q \in Returns : both[q] = fst[q] + snd[q]
    BY SaleReturnsAssumption
  <1> HIDE DEF both, fst, snd
  <1>3. SumFunction(both) = SumFunction(fst) + SumFunction(snd)
    BY <1>1, <1>2, SumPlus
  <1>. QED
    BY <1>3 DEF Counted, both, fst, snd

LEMMA CountedNone ==
  ASSUME NEW rows, \A r \in Returns : rows[r] = 0, NEW l \in Lines
  PROVE  Counted(rows, l) = 0
  <1>1. [r \in Returns |-> IF rows[r] # 0 THEN Qty[r][l] ELSE 0] = [r \in Returns |-> 0]
    OBVIOUS
  <1>. QED
    BY <1>1, SumZero, SaleReturnsAssumption DEF Counted

LEMMA NoWritesKept ==
  ASSUME TypeOK
  PROVE  Kept(NoWrites) /\ Balanced(NoWrites)
  <1>1. /\ NoWrites.taken = 0 /\ \A r \in Returns : NoWrites.rows[r] = 0
        /\ \A l \in Lines : NoWrites.sums[l] = NoSums
    BY DEF NoWrites, NewTxn
  <1>2. {NoWrites.rows[r] : r \in Returns} \ {0} = {}
    BY <1>1
  <1>3. next .. (next + NoWrites.taken - 1) = {}
    BY <1>1 DEF TypeOK
  <1>4. \A l \in Lines : NoWrites.sums[l].units = Counted(NoWrites.rows, l)
    BY <1>1, CountedNone DEF NoSums
  <1>5. Balanced(NoWrites)
    BY <1>1 DEF Balanced, NoSums
  <1>. QED
    BY <1>1, <1>2, <1>3, <1>4, <1>5 DEF Kept

\* Transactions are consistent with tables that do not change.
LEMMA KeptStable ==
  ASSUME NEW t, Kept(t), UNCHANGED <<number, next>>
  PROVE  Kept(t)'
  BY DEF Kept

LEMMA TablesStable ==
  ASSUME Books, UNCHANGED <<number, next, totals>>
  PROVE  (NumbersWithoutGap /\ NumbersOnce /\ StoredReturnsCountOnce /\ RestockTraced)'
  BY DEF Books, NumbersWithoutGap, NumbersOnce, StoredReturnsCountOnce, RestockTraced

\* The sessions that do not take the step.
Others(s) == \A u \in Sessions \ {s} : /\ txn'[u] = txn[u] /\ saved'[u] = saved[u]
                                      /\ pc'[u] = pc[u] /\ job'[u] = job[u]

\* A step of s that commits nothing keeps the books if it keeps those of s.
LEMMA BooksKept ==
  ASSUME Books, NEW s \in Sessions, UNCHANGED <<number, next, totals>>, Others(s),
         Kept(txn'[s]), Kept(saved'[s]), OpenMoves(s)',
         pc'[s] = "insert" => Unstored(s)'
  PROVE  Books'
  <1>1. ASSUME NEW u \in Sessions \ {s}
        PROVE  /\ Kept(txn'[u]) /\ Kept(saved'[u]) /\ OpenMoves(u)'
               /\ pc'[u] = "insert" => Unstored(u)'
    <2>1. txn'[u] = txn[u] /\ saved'[u] = saved[u] /\ pc'[u] = pc[u] /\ job'[u] = job[u]
      BY DEF Others
    <2>2. Kept(txn[u]) /\ Kept(saved[u]) /\ OpenMoves(u) /\ (pc[u] = "insert" => Unstored(u))
      BY DEF Books
    <2>3. Current(u)' = Current(u)
      BY <2>1 DEF Current
    <2>4. OpenMoves(u)'
      BY <2>1, <2>2, <2>3 DEF OpenMoves, Balanced, Unmoved
    <2>5. Unstored(u) => Unstored(u)'
      BY <2>1, <2>3 DEF Unstored, Seen
    <2>. QED
      BY <2>1, <2>2, <2>4, <2>5
  <1>2. \A u \in Sessions : Kept(txn'[u]) /\ Kept(saved'[u])
    BY <1>1
  <1>3. \A u \in Sessions : Kept(txn[u])' /\ Kept(saved[u])'
    BY <1>2 DEF Kept
  <1>4. \A u \in Sessions : OpenMoves(u)' /\ (pc'[u] = "insert" => Unstored(u)')
    BY <1>1
  <1>. QED
    BY <1>3, <1>4, TablesStable DEF Books

\* A step after which s has its transaction, its SAVEPOINT or nothing, and is
\* neither inserting nor restocking.
LEMMA BooksAfterReturn ==
  ASSUME TypeOK, TypeOK', Books, NEW s \in Sessions, UNCHANGED <<number, next, totals>>,
         Others(s),
         txn'[s] \in {txn[s], saved[s], NoWrites},
         saved'[s] \in {txn[s], saved[s], NoWrites},
         txn[s] \in {txn'[s], saved'[s]} => Balanced(txn[s]),
         pc'[s] \notin {"insert", "restock"}
  PROVE  Books'
  <1>1. Kept(txn[s]) /\ Kept(saved[s]) /\ Balanced(saved[s])
    BY DEF Books, OpenMoves
  <1>2. Kept(txn'[s]) /\ Kept(saved'[s])
    BY <1>1, NoWritesKept
  <1>3. Balanced(txn'[s]) /\ Balanced(saved'[s])
    BY <1>1, NoWritesKept
  <1>4. \A l \in Lines : Unmoved(s, l)' = 0 /\ txn'[s].sums[l].moved \in Nat
    BY DEF Unmoved, TypeOK, Txn, Sums
  <1>5. OpenMoves(s)'
    BY <1>3, <1>4 DEF OpenMoves, Balanced
  <1>. QED
    BY <1>2, <1>5, BooksKept

LEMMA NextReturnBooks ==
  ASSUME TypeOK, TypeOK', Books, NEW s \in Sessions, UNCHANGED <<number, next, totals>>,
         NEW results, NextReturn(s, results),
         \A u \in Sessions \ {s} : txn'[u] = txn[u] /\ saved'[u] = saved[u],
         txn'[s] \in {txn[s], saved[s], NoWrites},
         saved'[s] \in {txn[s], saved[s], NoWrites},
         txn[s] \in {txn'[s], saved'[s]} => Balanced(txn[s])
  PROVE  Books'
  <1>1. Others(s)
    BY DEF NextReturn, TypeOK, Others
  <1>2. pc'[s] \in {"respond", "look"}
    BY DEF NextReturn, TypeOK
  <1>. QED
    BY <1>1, <1>2, BooksAfterReturn

LEMMA FailReturnBooks ==
  ASSUME TypeOK, TypeOK', Books, NEW s \in Sessions, UNCHANGED <<number, next, totals, saved>>,
         NEW results, NextReturn(s, results), RollBack(s)
  PROVE  Books'
  <1>1. txn'[s] = saved[s] /\ \A u \in Sessions \ {s} : txn'[u] = txn[u] /\ saved'[u] = saved[u]
    BY DEF RollBack, TypeOK
  <1>2. Balanced(saved[s])
    BY DEF Books, OpenMoves
  <1>. QED
    BY <1>1, <1>2, NextReturnBooks

\* Outside the restocking of a return, what is marked is moved.
LEMMA BalancedTxn ==
  ASSUME TypeOK, Books, NEW s \in Sessions, pc[s] # "restock" \/ job[s].restock = {}
  PROVE  Balanced(txn[s])
  <1>1. \A l \in Lines : Unmoved(s, l) = 0 /\ txn[s].sums[l].moved \in Nat
    BY DEF Unmoved, TypeOK, Txn, Sums
  <1>. QED
    BY <1>1 DEF Books, OpenMoves, Balanced

LEMMA LookBooks ==
  ASSUME TypeOK, TypeOK', Books, NEW s \in Sessions, Look(s)
  PROVE  Books'
  <1>1. Balanced(txn[s])
    BY BalancedTxn DEF Look
  <1>2. /\ UNCHANGED <<number, next, totals, txn>>
        /\ saved'[s] = txn[s] /\ \A u \in Sessions \ {s} : saved'[u] = saved[u]
    BY DEF Look, Exists, TypeOK, db
  <1>3. CASE NextReturn(s, {<<Current(s), "stored">>})
    BY <1>1, <1>2, <1>3, NextReturnBooks
  <1>4. CASE pc' = [pc EXCEPT ![s] = "lock"] /\ UNCHANGED job
    <2>1. Others(s) /\ pc'[s] = "lock"
      BY <1>2, <1>4 DEF Others, TypeOK
    <2>. QED
      BY <1>1, <1>2, <2>1, BooksAfterReturn
  <1>. QED
    BY <1>3, <1>4 DEF Look, Exists

LEMMA LockSaleBooks ==
  ASSUME TypeOK, TypeOK', Books, NEW s \in Sessions, LockSale(s)
  PROVE  Books'
  <1> DEFINE x == SaleOf[Current(s)]
  <1>1. UNCHANGED <<number, next, totals, saved>>
    BY DEF LockSale, db
  <1>2. CASE x \notin stored
    BY <1>1, <1>2, FailReturnBooks DEF LockSale, Refuse
  <1>3. CASE x \in stored
    <2> DEFINE t == NewTxn(txn[s].rows, txn[s].taken, txn[s].sums, txn[s].locks \cup {x})
    <2>1. /\ txn' = [txn EXCEPT ![s] = t] /\ pc' = [pc EXCEPT ![s] = "check"] /\ job' = job
      BY <1>3 DEF LockSale
    <2>2. /\ t.rows = txn[s].rows /\ t.taken = txn[s].taken /\ t.sums = txn[s].sums
          /\ t.locks = txn[s].locks \cup {x}
      BY DEF NewTxn
    <2> HIDE DEF t, x
    <2>3. Others(s) /\ txn'[s] = t /\ pc'[s] = "check" /\ saved'[s] = saved[s]
      BY <1>1, <2>1 DEF Others, TypeOK
    <2>4. Kept(txn[s]) /\ Kept(saved[s]) /\ OpenMoves(s)
      BY DEF Books
    <2>5. Kept(t)
      BY <2>2, <2>4 DEF Kept
    <2>6. OpenMoves(s)'
      <3>1. \A l \in Lines : Unmoved(s, l) = 0 /\ Unmoved(s, l)' = 0
        BY <2>3 DEF Unmoved, LockSale
      <3>. QED
        BY <2>2, <2>3, <2>4, <3>1 DEF OpenMoves, Balanced
    <2>. QED
      BY <1>1, <2>3, <2>4, <2>5, <2>6, BooksKept
  <1>. QED
    BY <1>2, <1>3

LEMMA CheckBooks ==
  ASSUME Inv, TypeOK', Books, NEW s \in Sessions, Check(s)
  PROVE  Books'
  <1>0. TypeOK /\ pc[s] = "check"
    BY DEF Inv, TypeInv, Check
  <1>1. UNCHANGED <<number, next, totals, saved>>
    BY DEF Check, db
  <1>2. CASE Exists(s)
    <2>1. Balanced(txn[s]) /\ txn' = txn
      BY <1>0, <1>2, BalancedTxn DEF Exists
    <2>. QED
      BY <1>0, <1>1, <1>2, <2>1, NextReturnBooks DEF Exists
  <1>3. ASSUME NEW code, Refuse(s, code) PROVE Books'
    BY <1>0, <1>1, <1>3, FailReturnBooks DEF Refuse
  <1>4. ASSUME Seen(s, Current(s)) = 0, txn' = txn, pc' = [pc EXCEPT ![s] = "insert"],
               NEW L, job' = [job EXCEPT ![s] = NewJob(job[s].batch, L, job[s].results)]
        PROVE  Books'
    <2>1. Others(s) /\ pc'[s] = "insert" /\ job'[s].batch = job[s].batch
      BY <1>0, <1>1, <1>4 DEF Others, TypeOK, NewJob
    <2>2. Current(s)' = Current(s)
      BY <2>1 DEF Current
    <2>3. SaleOf[Current(s)] \in txn[s].locks
      BY <1>0 DEF Inv
    <2>4. Unstored(s)'
      BY <1>1, <1>4, <2>2, <2>3 DEF Unstored, Seen
    <2>5. Kept(txn[s]) /\ Kept(saved[s]) /\ OpenMoves(s)
      BY DEF Books
    <2>6. OpenMoves(s)'
      <3>1. \A l \in Lines : Unmoved(s, l) = 0 /\ Unmoved(s, l)' = 0
        BY <1>0, <2>1 DEF Unmoved
      <3>. QED
        BY <1>1, <1>4, <2>5, <3>1 DEF OpenMoves, Balanced
    <2>. QED
      BY <1>1, <1>4, <2>1, <2>4, <2>5, <2>6, BooksKept
  <1>. QED
    BY <1>2, <1>3, <1>4 DEF Check

\* The number taken is the next one, and the return is new.
LEMMA InsertBooks ==
  ASSUME Inv, TypeOK', Books, NEW s \in Sessions, InsertReturn(s)
  PROVE  Books'
  <1> DEFINE r == Current(s)
             n == next + txn[s].taken
             w == [l \in Lines |-> Plus(txn[s].sums[l], Item(s, l))]
             t == NewTxn([txn[s].rows EXCEPT ![r] = n], txn[s].taken + 1, w,
                         txn[s].locks \cup {StoreRow})
  <1>1. TypeOK /\ JobOK /\ r \in Returns /\ txn[s] \in Txn
    BY CurrentType DEF InsertReturn, JobOK, Working, TypeOK, Inv, TypeInv
  <1>2. /\ txn[s].rows \in [Returns -> Nat] /\ txn[s].taken \in Nat
        /\ txn[s].sums \in [Lines -> Sums] /\ n \in Nat \ {0} /\ next \in Nat \ {0}
    BY <1>1, TxnFields DEF TypeOK
  <1>3. /\ t.rows = [txn[s].rows EXCEPT ![r] = n] /\ t.taken = txn[s].taken + 1
        /\ t.sums = w /\ t.locks = txn[s].locks \cup {StoreRow}
    BY DEF NewTxn
  <1>4. /\ Kept(txn[s]) /\ Kept(saved[s]) /\ OpenMoves(s)
        /\ txn[s].rows[r] = 0 /\ number[r] = 0 /\ SaleOf[r] \in txn[s].locks
    BY <1>1 DEF InsertReturn, Books, Unstored, Seen
  <1>5. /\ Others(s) /\ UNCHANGED <<number, next, totals, saved, job>>
        /\ txn'[s] = t /\ saved'[s] = saved[s] /\ pc'[s] = "restock"
    BY <1>1 DEF InsertReturn, Others, TypeOK, db
  <1>6. Kept(t)
    <2>1. t.taken = txn[s].taken + 1 /\ StoreRow \in t.locks
      BY <1>3
    <2>2. \A q \in Returns : t.rows[q] = IF q = r THEN n ELSE txn[s].rows[q]
      BY <1>1, <1>2, <1>3
    <2>3. \A q \in Returns : txn[s].rows[q] # 0 => next <= txn[s].rows[q] /\ txn[s].rows[q] < n
      <3>1. \A q \in Returns : txn[s].rows[q] # 0 => txn[s].rows[q] \in next .. (next + txn[s].taken - 1)
        BY <1>4 DEF Kept
      <3>. QED
        BY <1>2, <3>1
    <2>4. {t.rows[q] : q \in Returns} \ {0} = ({txn[s].rows[q] : q \in Returns} \ {0}) \cup {n}
      BY <1>1, <1>2, <1>4, <2>2
    <2>5. {t.rows[q] : q \in Returns} \ {0} = next .. (next + t.taken - 1)
      <3>1. {txn[s].rows[q] : q \in Returns} \ {0} = next .. (next + txn[s].taken - 1)
        BY <1>4 DEF Kept
      <3>2. next .. (next + txn[s].taken) = (next .. (next + txn[s].taken - 1)) \cup {n}
        BY <1>2
      <3>3. next + t.taken - 1 = next + txn[s].taken
        BY <1>2, <2>1
      <3>. QED
        BY <2>4, <3>1, <3>2, <3>3
    <2>6. \A q \in Returns : t.rows[q] # 0 => number[q] = 0 /\ SaleOf[q] \in t.locks
      BY <1>3, <1>4, <2>2 DEF Kept
    <2>7. \A p, q \in Returns : t.rows[q] # 0 /\ t.rows[q] = t.rows[p] => q = p
      <3> SUFFICES ASSUME NEW p \in Returns, NEW q \in Returns,
                          t.rows[q] # 0, t.rows[q] = t.rows[p]
                   PROVE  q = p
        OBVIOUS
      <3> HIDE DEF t, n, w
      <3>1. CASE q = r \/ p = r
        <4>1. \A x \in Returns \ {r} : t.rows[x] # n
          BY <1>2, <2>2, <2>3
        <4>. QED
          BY <2>2, <3>1, <4>1
      <3>2. CASE q # r /\ p # r
        BY <1>4, <2>2, <3>2 DEF Kept
      <3>. QED
        BY <3>1, <3>2
    <2>8. ASSUME NEW l \in Lines PROVE t.sums[l].units = Counted(t.rows, l)
      <3>1. t.sums[l].units = txn[s].sums[l].units + Qty[r][l]
        <4>1. w[l].units = txn[s].sums[l].units + Qty[r][l]
          BY DEF Plus, Item
        <4>. HIDE DEF t, w
        <4>. QED
          BY <1>3, <4>1
      <3>2. Counted(t.rows, l) = Counted(txn[s].rows, l) + Qty[r][l]
        BY <1>1, <1>2, <1>3, <1>4, CountedOneMore
      <3>3. txn[s].sums[l].units = Counted(txn[s].rows, l)
        BY <1>4 DEF Kept
      <3>. QED
        BY <3>1, <3>2, <3>3
    <2> HIDE DEF t
    <2>. QED
      BY <2>1, <2>5, <2>6, <2>7, <2>8 DEF Kept
  <1>7. OpenMoves(s)'
    <2>1. ASSUME NEW l \in Lines
          PROVE  w[l].marked = w[l].moved + Unmoved(s, l)'
      <3>1. txn[s].sums[l].marked = txn[s].sums[l].moved
        <4>1. Unmoved(s, l) = 0 /\ txn[s].sums[l].moved \in Nat
          BY <1>2 DEF Unmoved, InsertReturn, Sums
        <4>. QED
          BY <1>4, <4>1 DEF OpenMoves
      <3>2. Unmoved(s, l)' = IF l \in job[s].restock THEN Qty[r][l] ELSE 0
        BY <1>5 DEF Unmoved, Current
      <3>3. /\ w[l].marked = txn[s].sums[l].marked + (IF l \in job[s].restock THEN Qty[r][l] ELSE 0)
            /\ w[l].moved = txn[s].sums[l].moved + 0
        BY DEF Plus, Item
      <3>4. txn[s].sums[l].moved \in Nat /\ Qty[r][l] \in Nat
        BY <1>1, <1>2, SaleReturnsAssumption DEF Sums
      <3>. QED
        BY <3>1, <3>2, <3>3, <3>4
    <2> HIDE DEF w, t
    <2>. QED
      BY <1>3, <1>4, <1>5, <2>1 DEF OpenMoves, Balanced
  <1> HIDE DEF t
  <1>. QED
    BY <1>4, <1>5, <1>6, <1>7, BooksKept

LEMMA RestockBooks ==
  ASSUME Inv, TypeOK', Books, NEW s \in Sessions, NEW l \in Lines, Restock(s, l)
  PROVE  Books'
  <1>1. TypeOK /\ JobOK /\ Current(s) \in Returns /\ txn[s] \in Txn /\ pc[s] = "restock"
        /\ l \in job[s].restock
    BY CurrentType DEF Restock, JobOK, Working, TypeOK, Inv, TypeInv
  <1>2. UNCHANGED <<number, next, totals, saved>>
    BY DEF Restock, db
  <1>3. CASE Product[l] \notin live
    BY <1>1, <1>2, <1>3, FailReturnBooks DEF Restock, FailReturn
  <1>4. CASE Product[l] \in live
    <2> DEFINE t == WithMovement(s, l)
               q(m) == Qty[Current(s)][m]
    <2>1. /\ txn' = [txn EXCEPT ![s] = t] /\ pc' = pc /\ job' = Restocked(s, l)
      BY <1>4 DEF Restock
    <2>2. /\ t.rows = txn[s].rows /\ t.taken = txn[s].taken /\ t.locks = txn[s].locks
          /\ \A m \in Lines : t.sums[m] =
               IF m = l THEN Plus(txn[s].sums[m], Movement(q(m))) ELSE txn[s].sums[m]
      BY DEF WithMovement, NewTxn
    <2>3. \A m \in Lines : /\ txn[s].sums[m].units \in Nat /\ txn[s].sums[m].marked \in Nat
                          /\ txn[s].sums[m].moved \in Nat /\ q(m) \in Nat
      BY <1>1, TxnFields, SaleReturnsAssumption DEF Sums
    <2>4. \A m \in Lines :
            /\ t.sums[m].units = txn[s].sums[m].units
            /\ t.sums[m].marked = txn[s].sums[m].marked
            /\ t.sums[m].moved = txn[s].sums[m].moved + (IF m = l THEN q(m) ELSE 0)
      <3>1. \A m \in Lines \ {l} : t.sums[m] = txn[s].sums[m]
        BY <2>2
      <3>2. t.sums[l] = Plus(txn[s].sums[l], Movement(q(l)))
        BY <1>1, <2>2, JobFields DEF TypeOK
      <3> HIDE DEF t, q
      <3>3. /\ t.sums[l].units = txn[s].sums[l].units
            /\ t.sums[l].marked = txn[s].sums[l].marked
            /\ t.sums[l].moved = txn[s].sums[l].moved + q(l)
        BY <2>3, <3>2 DEF Plus, Movement
      <3>. QED
        BY <2>3, <3>1, <3>3
    <2>5. /\ Others(s) /\ txn'[s] = t /\ saved'[s] = saved[s] /\ pc'[s] = "restock"
          /\ job'[s].batch = job[s].batch /\ job'[s].restock = job[s].restock \ {l}
      BY <1>1, <1>2, <2>1 DEF Others, TypeOK, Restocked, NewJob
    <2> HIDE DEF t
    <2>6. Kept(txn[s]) /\ Kept(saved[s]) /\ OpenMoves(s)
      BY DEF Books
    <2>7. Kept(t)
      BY <2>2, <2>4, <2>6 DEF Kept
    <2>8. ASSUME NEW m \in Lines
          PROVE  t.sums[m].marked = t.sums[m].moved + Unmoved(s, m)'
      <3>1. Unmoved(s, m)' = IF m \in job[s].restock \ {l} THEN q(m) ELSE 0
        BY <2>5 DEF Unmoved, Current
      <3>2. Unmoved(s, m) = IF m \in job[s].restock THEN q(m) ELSE 0
        BY <1>1 DEF Unmoved
      <3>3. txn[s].sums[m].marked = txn[s].sums[m].moved + Unmoved(s, m)
        BY <2>6 DEF OpenMoves
      <3> HIDE DEF q
      <3>. QED
        BY <1>1, <2>3, <2>4, <3>1, <3>2, <3>3
    <2>9. OpenMoves(s)'
      BY <2>5, <2>6, <2>8 DEF OpenMoves, Balanced
    <2>. QED
      BY <1>2, <2>5, <2>6, <2>7, <2>9, BooksKept
  <1>. QED
    BY <1>3, <1>4

\* A session that has taken no number has inserted no return.
LEMMA NoneTaken ==
  ASSUME TypeOK, NEW t \in Txn, Kept(t), StoreRow \notin t.locks
  PROVE  t.taken = 0 /\ \A r \in Returns : t.rows[r] = 0
  <1>1. t.taken = 0 /\ next \in Nat
    BY DEF Kept, TypeOK
  <1>2. next .. (next + t.taken - 1) = {}
    BY <1>1
  <1>. QED
    BY <1>1, <1>2 DEF Kept

LEMMA CommitTables ==
  ASSUME Inv, Books, NEW s \in Sessions, Commit(s)
  PROVE  /\ NumbersWithoutGap' /\ NumbersOnce' /\ StoredReturnsCountOnce' /\ RestockTraced'
         /\ Ledger!Record
  <1> DEFINE t == txn[s]
  <1>1. TypeOK /\ t \in Txn
    BY DEF Inv, TypeInv, TypeOK
  <1>2. /\ t.rows \in [Returns -> Nat] /\ t.taken \in Nat /\ t.sums \in [Lines -> Sums]
        /\ number \in [Returns -> Nat] /\ next \in Nat \ {0} /\ totals \in [Lines -> Sums]
    BY <1>1, TxnFields DEF TypeOK
  <1>3. Kept(t) /\ Balanced(t)
    BY <1>1, BalancedTxn DEF Books, Commit
  <1>4. /\ number' = [r \in Returns |-> IF t.rows[r] # 0 THEN t.rows[r] ELSE number[r]]
        /\ next' = next + t.taken
        /\ totals' = [l \in Lines |-> Plus(totals[l], t.sums[l])]
    BY DEF Commit, Seen
  <1> HIDE DEF t
  <1>5. \A r \in Returns : t.rows[r] # 0 => number[r] = 0 /\ next <= t.rows[r] /\ t.rows[r] < next'
    <2>1. \A r \in Returns : t.rows[r] # 0 => t.rows[r] \in next .. (next + t.taken - 1)
      BY <1>3 DEF Kept
    <2>. QED
      BY <1>2, <1>3, <1>4, <2>1 DEF Kept
  <1>6. \A r \in Returns : number[r] # 0 => t.rows[r] = 0 /\ number[r] < next
    <2>1. \A r \in Returns : number[r] # 0 => number[r] \in 1 .. (next - 1)
      BY DEF Books, NumbersWithoutGap
    <2>. QED
      BY <1>2, <1>3, <2>1 DEF Kept
  <1>7. NumbersWithoutGap'
    <2>1. {number'[r] : r \in Returns} \ {0} =
            ({number[r] : r \in Returns} \ {0}) \cup ({t.rows[r] : r \in Returns} \ {0})
      BY <1>4, <1>5, <1>6
    <2>2. {number[r] : r \in Returns} \ {0} = 1 .. (next - 1)
      BY DEF Books, NumbersWithoutGap
    <2>3. {t.rows[r] : r \in Returns} \ {0} = next .. (next + t.taken - 1)
      BY <1>3 DEF Kept
    <2>4. (1 .. (next - 1)) \cup (next .. (next + t.taken - 1)) = 1 .. (next + t.taken - 1)
      BY <1>2
    <2>5. next' - 1 = next + t.taken - 1
      BY <1>2, <1>4
    <2>6. {number'[r] : r \in Returns} \ {0} = 1 .. (next' - 1)
      BY <2>1, <2>2, <2>3, <2>4, <2>5
    <2>. QED
      BY <2>6 DEF NumbersWithoutGap
  <1>8. NumbersOnce'
    <2> SUFFICES ASSUME NEW q \in Returns, NEW r \in Returns,
                        number'[r] # 0, number'[r] = number'[q]
                 PROVE  r = q
      BY DEF NumbersOnce
    <2>1. CASE t.rows[r] # 0 /\ t.rows[q] # 0
      BY <1>3, <1>4, <2>1 DEF Kept
    <2>2. CASE t.rows[r] = 0 /\ t.rows[q] = 0
      BY <1>4, <2>2 DEF Books, NumbersOnce
    <2>3. CASE (t.rows[r] = 0) # (t.rows[q] = 0)
      BY <1>2, <1>4, <1>5, <1>6, <2>3
    <2>. QED
      BY <2>1, <2>2, <2>3
  <1>9. StoredReturnsCountOnce'
    <2>1. ASSUME NEW l \in Lines PROVE totals'[l].units = Counted(number', l)
      <3>1. totals'[l].units = totals[l].units + t.sums[l].units
        BY <1>4 DEF Plus
      <3>2. totals[l].units = Counted(number, l)
        BY DEF Books, StoredReturnsCountOnce, Counted
      <3>3. t.sums[l].units = Counted(t.rows, l)
        BY <1>3 DEF Kept
      <3>4. Counted(number', l) = Counted(number, l) + Counted(t.rows, l)
        <4>1. number' \in [Returns -> Nat]
          BY <1>2, <1>4
        <4>2. /\ \A r \in Returns : number[r] = 0 \/ t.rows[r] = 0
              /\ \A r \in Returns : number'[r] = IF t.rows[r] # 0 THEN t.rows[r] ELSE number[r]
          BY <1>4, <1>6
        <4>. QED
          BY <1>2, <4>1, <4>2, CountedTogether
      <3>. QED
        BY <3>1, <3>2, <3>3, <3>4
    <2>. QED
      BY <2>1 DEF StoredReturnsCountOnce, Counted
  <1>10. RestockTraced'
    <2>1. ASSUME NEW l \in Lines PROVE totals'[l].marked = totals'[l].moved
      <3>1. totals[l].marked = totals[l].moved /\ t.sums[l].marked = t.sums[l].moved
        BY <1>3 DEF Books, RestockTraced, Balanced
      <3>. QED
        BY <1>4, <3>1 DEF Plus
    <2>. QED
      BY <2>1 DEF RestockTraced
  <1>11. Ledger!Record
    <2>1. number' \in [Returns -> Nat]
      BY <1>2, <1>4
    <2>2. \A r \in Returns : number[r] # 0 => number'[r] = number[r]
      BY <1>4, <1>6
    <2>3. \A q, r \in Returns : number'[q] # 0 /\ number'[q] = number'[r] => q = r
      BY <1>8 DEF NumbersOnce
    <2>4. \A q, r \in Returns : number[r] # 0 /\ number[q] = 0 /\ number'[q] # 0
                                  => number'[q] > number[r]
      BY <1>2, <1>4, <1>5, <1>6
    <2>. QED
      BY <2>1, <2>2, <2>3, <2>4 DEF Ledger!Record, Ledger!Recorded
  <1>. QED
    BY <1>7, <1>8, <1>9, <1>10, <1>11

LEMMA CommitBooks ==
  ASSUME Inv, TypeOK', Books, NEW s \in Sessions, Commit(s)
  PROVE  Books'
  <1> DEFINE t == txn[s]
  <1>1. TypeOK /\ t \in Txn
    BY DEF Inv, TypeInv, TypeOK
  <1>2. /\ t.rows \in [Returns -> Nat] /\ t.taken \in Nat
        /\ number \in [Returns -> Nat] /\ next \in Nat \ {0}
    BY <1>1, TxnFields DEF TypeOK
  <1>3. /\ \A r \in Returns : number'[r] = IF t.rows[r] # 0 THEN t.rows[r] ELSE number[r]
        /\ next' = next + t.taken
    BY DEF Commit, Seen
  <1>4. Others(s) /\ txn'[s] = NoWrites /\ saved'[s] = NoWrites /\ pc'[s] = "idle"
    BY <1>1 DEF Commit, Close, Others, TypeOK
  <1>5. Kept(t)
    BY DEF Books
  <1> HIDE DEF t
  <1>6. ASSUME NEW u \in Sessions \ {s}, NEW v \in Txn, v.locks \subseteq txn[u].locks, Kept(v)
        PROVE  Kept(v)'
    <2>1. t.locks \cap v.locks = {}
      BY <1>6 DEF Inv, t
    <2>2. CASE StoreRow \in t.locks
      <3>1. v.taken = 0 /\ \A r \in Returns : v.rows[r] = 0
        BY <1>1, <1>6, <2>1, <2>2, NoneTaken
      <3>2. {v.rows[r] : r \in Returns} \ {0} = {} /\ next' .. (next' + v.taken - 1) = {}
        BY <1>2, <1>3, <3>1
      <3>. QED
        BY <1>6, <3>1, <3>2 DEF Kept
    <2>3. CASE StoreRow \notin t.locks
      <3>1. t.taken = 0 /\ \A r \in Returns : t.rows[r] = 0
        BY <1>1, <1>5, <2>3, NoneTaken
      <3>2. next' = next /\ \A r \in Returns : number'[r] = number[r]
        BY <1>2, <1>3, <3>1
      <3>. QED
        BY <1>6, <3>2 DEF Kept
    <2>. QED
      BY <2>2, <2>3
  <1>7. ASSUME NEW u \in Sessions \ {s}
        PROVE  Kept(txn[u])' /\ Kept(saved[u])' /\ OpenMoves(u)' /\ (pc'[u] = "insert" => Unstored(u)')
    <2>1. txn'[u] = txn[u] /\ saved'[u] = saved[u] /\ pc'[u] = pc[u] /\ job'[u] = job[u]
      BY <1>4 DEF Others
    <2>2. /\ txn[u] \in Txn /\ saved[u] \in Txn /\ saved[u].locks \subseteq txn[u].locks
          /\ txn[u].locks \subseteq txn[u].locks
          /\ Kept(txn[u]) /\ Kept(saved[u]) /\ OpenMoves(u) /\ (pc[u] = "insert" => Unstored(u))
      BY <1>1 DEF Inv, Books, TypeOK
    <2>3. \A v \in Txn : v.locks \subseteq txn[u].locks /\ Kept(v) => Kept(v)'
      BY <1>6
    <2>4. Kept(txn[u])' /\ Kept(saved[u])'
      BY <2>1, <2>2, <2>3 DEF Kept
    <2>5. Current(u)' = Current(u)
      BY <2>1 DEF Current
    <2>6. OpenMoves(u)'
      BY <2>1, <2>2, <2>5 DEF OpenMoves, Balanced, Unmoved
    <2>7. ASSUME pc[u] = "insert" PROVE Unstored(u)'
      <3>1. Current(u) \in Returns
        BY <1>1, <2>7, CurrentType DEF Inv, TypeInv, JobOK, Working, TypeOK
      <3>2. t.locks \cap txn[u].locks = {}
        BY DEF Inv, t
      <3>3. t.rows[Current(u)] = 0
        BY <1>5, <2>2, <2>7, <3>1, <3>2 DEF Kept, Unstored
      <3>4. number'[Current(u)] = number[Current(u)]
        BY <1>3, <3>1, <3>3
      <3>. QED
        BY <2>1, <2>2, <2>5, <2>7, <3>4 DEF Unstored, Seen
    <2>. QED
      BY <2>1, <2>4, <2>6, <2>7
  <1>8. Kept(txn[s])' /\ Kept(saved[s])' /\ OpenMoves(s)' /\ (pc'[s] = "insert" => Unstored(s)')
    <2>1. /\ NoWrites.taken = 0 /\ NoWrites.locks = {} /\ \A r \in Returns : NoWrites.rows[r] = 0
          /\ \A l \in Lines : NoWrites.sums[l] = NoSums
      BY DEF NoWrites, NewTxn
    <2>2. /\ {NoWrites.rows[r] : r \in Returns} \ {0} = {}
          /\ next' .. (next' + NoWrites.taken - 1) = {}
      BY <1>2, <1>3, <2>1
    <2>3. \A l \in Lines : NoWrites.sums[l].units = Counted(NoWrites.rows, l)
      BY <2>1, CountedNone DEF NoSums
    <2>4. \A l \in Lines : Unmoved(s, l)' = 0
      BY <1>4 DEF Unmoved
    <2>. QED
      BY <1>4, <2>1, <2>2, <2>3, <2>4 DEF Kept, OpenMoves, Balanced, NoSums
  <1>. QED
    BY <1>7, <1>8, CommitTables DEF Books

LEMMA BooksInit == Init => Books
  <1>. SUFFICES ASSUME Init PROVE Books
    OBVIOUS
  <1>1. TypeOK
    BY TypeInit DEF TypeInv
  <1>2. \A r \in Returns : number[r] = 0
    BY DEF Init
  <1>3. NumbersWithoutGap
    <2>1. {number[r] : r \in Returns} \ {0} = {}
      BY <1>2
    <2>2. 1 .. (next - 1) = {}
      BY DEF Init, FirstNumber
    <2>. QED
      BY <2>1, <2>2 DEF NumbersWithoutGap
  <1>4. NumbersOnce /\ RestockTraced
    <2>1. \A l \in Lines : totals[l].marked = 0 /\ totals[l].moved = 0
      BY DEF Init, NoSums
    <2>. QED
      BY <1>2, <2>1 DEF NumbersOnce, RestockTraced
  <1>5. StoredReturnsCountOnce
    <2>1. \A l \in Lines : totals[l].units = 0 /\ Counted(number, l) = 0
      BY <1>2, CountedNone DEF Init, NoSums
    <2>. QED
      BY <2>1 DEF StoredReturnsCountOnce, Counted
  <1>6. \A s \in Sessions : txn[s] = NoWrites /\ saved[s] = NoWrites /\ pc[s] = "idle"
    BY DEF Init
  <1>7. Kept(NoWrites) /\ Balanced(NoWrites)
    BY <1>1, NoWritesKept
  <1>8. \A s \in Sessions : OpenMoves(s)
    <2>1. \A l \in Lines : NoWrites.sums[l] = NoSums /\ NoSums.marked = 0 /\ NoSums.moved = 0
      BY DEF NoWrites, NewTxn, NoSums
    <2>. QED
      BY <1>6, <1>7, <2>1 DEF OpenMoves, Unmoved
  <1>. QED
    BY <1>3, <1>4, <1>5, <1>6, <1>7, <1>8 DEF Books

\* Every step keeps the books and is a step of the ledger or leaves it.
LEMMA BooksStep ==
  ASSUME Inv, TypeOK', Books, [Next]_vars
  PROVE  Books' /\ [Ledger!Record]_number
  <1>. USE DEF db, server, client
  <1>0. TypeInv /\ TypeOK
    BY DEF Inv, TypeInv
  <1>1. ASSUME NEW s \in Sessions, Commit(s) PROVE Books' /\ Ledger!Record
    BY <1>1, CommitBooks, CommitTables
  <1>2. ASSUME NEW s \in Sessions, Look(s) \/ LockSale(s) \/ Check(s) \/ InsertReturn(s)
        PROVE  Books' /\ number' = number
    BY <1>0, <1>2, LookBooks, LockSaleBooks, CheckBooks, InsertBooks
    DEF Look, LockSale, Check, InsertReturn
  <1>3. ASSUME NEW s \in Sessions, NEW l \in Lines, Restock(s, l)
        PROVE  Books' /\ number' = number
    BY <1>3, RestockBooks DEF Restock
  <1>4. ASSUME NEW s \in Sessions, FinishReturn(s) PROVE Books' /\ number' = number
    <2>1. Balanced(txn[s])
      BY <1>0, <1>4, BalancedTxn DEF FinishReturn
    <2>. QED
      BY <1>0, <1>4, <2>1, NextReturnBooks DEF FinishReturn
  <1>5. ASSUME NEW s \in Sessions, ErrorInReturn(s) PROVE Books' /\ number' = number
    <2>1. CASE pc[s] = "look"
      <3>1. Balanced(txn[s])
        BY <1>0, <2>1, BalancedTxn
      <3>. QED
        BY <1>0, <1>5, <2>1, <3>1, NextReturnBooks DEF ErrorInReturn
    <2>2. CASE pc[s] # "look"
      BY <1>0, <1>5, <2>2, FailReturnBooks DEF ErrorInReturn, FailReturn
    <2>. QED
      BY <2>1, <2>2
  <1>6. ASSUME NEW s \in Sessions, DeadlockFails(s) PROVE Books' /\ number' = number
    BY <1>0, <1>6, FailReturnBooks DEF DeadlockFails, FailReturn
  <1>7. ASSUME NEW s \in Sessions, Respond(s) \/ \E d \in Devices : Send(d, s)
        PROVE  Books' /\ number' = number
    <2>1. /\ Others(s) /\ UNCHANGED <<number, next, totals, txn, saved>>
          /\ pc[s] \in {"respond", "idle"} /\ pc'[s] \in {"commit", "look"}
      BY <1>0, <1>7 DEF Respond, Send, Others, TypeOK
    <2>2. Balanced(txn[s])
      BY <1>0, <2>1, BalancedTxn
    <2>. QED
      BY <1>0, <2>1, <2>2, BooksAfterReturn
  <1>8. ASSUME NEW s \in Sessions, Crash(s) \/ LoseConnection(s)
        PROVE  Books' /\ number' = number
    <2>1. /\ Others(s) /\ UNCHANGED <<number, next, totals>>
          /\ txn'[s] = NoWrites /\ saved'[s] = NoWrites /\ pc'[s] \in {"idle", "respond"}
      BY <1>0, <1>8 DEF Crash, LoseConnection, Close, Others, TypeOK
    <2>2. Balanced(NoWrites)
      BY <1>0, NoWritesKept
    <2>. QED
      BY <1>0, <2>1, <2>2, BooksAfterReturn
  <1>9. CASE UNCHANGED <<number, next, totals, txn, saved, pc, job>>
    <2>1. \A u \in Sessions : Others(u) /\ Current(u)' = Current(u)
      BY <1>9 DEF Others, Current
    <2>2. \A u \in Sessions : Kept(txn[u])' /\ Kept(saved[u])'
      BY <1>9 DEF Books, Kept
    <2>3. \A u \in Sessions : OpenMoves(u)' /\ (pc'[u] = "insert" => Unstored(u)')
      BY <1>9, <2>1 DEF Books, OpenMoves, Unstored, Balanced, Unmoved, Seen
    <2>. QED
      BY <1>9, <2>2, <2>3, TablesStable DEF Books
  <1>10. CASE \/ \E d \in Devices : Timeout(d)
              \/ \E x \in Sales : SaleCommits(x)
              \/ \E p \in Products : DeleteProduct(p)
              \/ UNCHANGED vars
    BY <1>9, <1>10 DEF Timeout, SaleCommits, DeleteProduct, vars
  <1>. QED
    BY <1>1, <1>2, <1>3, <1>4, <1>5, <1>6, <1>7, <1>8, <1>10 DEF Next, Progress

\* The inductive invariant of the return tables: what the tables say agrees, and
\* so would what any open transaction or SAVEPOINT would add to them.
THEOREM BooksCorrect == Spec => []Books
  <1>1. Init => Books
    BY BooksInit
  <1>2. Inv /\ TypeOK' /\ Books /\ [Next]_vars => Books'
    BY BooksStep
  <1>. QED
    BY <1>1, <1>2, InvCorrect, TypeCorrect, PTL DEF Spec

\* What the tables of returns say agrees after any retries, rollbacks and lost
\* connections: units marked as restocked have their movement and the reverse
\* (record_return_movements), return numbers are 1, 2, 3, ... without a hole (the
\* trigger on sale_returns), and each stored return counts once in what
\* returned_quantities reads.
THEOREM BooksAgreed == Spec => []BooksAgree
  <1>1. Books => BooksAgree
    BY DEF Books, BooksAgree
  <1>. QED
    BY <1>1, BooksCorrect, PTL

\* The push of returns implements the append-only ledger: a number once given to
\* a return is never changed or given again, and later commits give larger ones.
THEOREM ImplementsLedger == Spec => LedgerSpec
  <1>1. Init => Ledger!Init
    BY DEF Init, Ledger!Init
  <1>2. Inv /\ TypeOK' /\ Books /\ [Next]_vars => [Ledger!Record]_number
    BY BooksStep
  <1>. QED
    BY <1>1, <1>2, InvCorrect, TypeCorrect, BooksCorrect, PTL DEF Spec, LedgerSpec, Ledger!Spec

-----------------------------------------------------------------------------
(* A refusal for quantity is final *)

Exceeded == "quantity_exceeded"

\* With what transaction t has returned, return r asks for too many units of line l.
Beyond(t, r, l) == totals[l].units + t.sums[l].units + Qty[r][l] > Sold[l]

\* No table, transaction or SAVEPOINT holds the return.
Absent(r) == number[r] = 0 /\ \A u \in Sessions : txn[u].rows[r] = 0 /\ saved[u].rows[r] = 0

\* Session s cannot store r any more, even after a rollback to its SAVEPOINT.
BeyondSession(s, r) == \E l \in InReturn(r) : Beyond(txn[s], r, l) /\ Beyond(saved[s], r, l)

BeyondTold(r) ==
  \E l \in InReturn(r) : \/ totals[l].units + Qty[r][l] > Sold[l]
                         \/ \E s \in Sessions : pc[s] = "commit" /\ Beyond(txn[s], r, l)

\* Until a SAVEPOINT has writes of its own, it is the transaction that will be kept.
AtSavepoint(s) ==
  pc[s] \in {"lock", "check", "insert"} =>
    txn[s].rows = saved[s].rows /\ txn[s].sums = saved[s].sums

ResultsFinal ==
  \A s \in Sessions, r \in Returns :
    <<r, Exceeded>> \in job[s].results => Absent(r) /\ BeyondSession(s, r)

OutcomesFinal == \A r \in Returns : outcome[r] = Exceeded => Absent(r) /\ BeyondTold(r)

Refused ==
  /\ \A s \in Sessions : AtSavepoint(s)
  /\ faults.crash = 0 => ResultsFinal /\ OutcomesFinal

Units(t, l) == t.sums[l].units

LEMMA UnitsType ==
  ASSUME TypeOK, NEW s \in Sessions, NEW l \in Lines, NEW r \in Returns
  PROVE  /\ Units(txn[s], l) \in Nat /\ Units(saved[s], l) \in Nat
         /\ totals[l].units \in Nat /\ Qty[r][l] \in Nat /\ Sold[l] \in Nat
  BY SaleReturnsAssumption DEF Units, TypeOK, Txn, Sums

\* More units in the transaction are still too many.
LEMMA BeyondGrows ==
  ASSUME NEW t, NEW v, NEW r \in Returns, NEW l \in Lines, Beyond(t, r, l),
         Units(t, l) \in Nat, Units(v, l) \in Nat, Units(t, l) <= Units(v, l),
         totals[l].units \in Nat
  PROVE  Beyond(v, r, l)
  BY SaleReturnsAssumption DEF Beyond, Units

\* A step of s that commits nothing and loses nothing keeps what was refused, if
\* it stores no refused return, and refuses for good what it refuses.
LEMMA RefusedKept ==
  ASSUME TypeOK, TypeOK', Refused, NEW s \in Sessions,
         UNCHANGED <<number, totals, outcome>>, faults'.crash = faults.crash, Others(s),
         pc[s] # "commit",
         \A r \in Returns : Absent(r) /\ (BeyondSession(s, r) \/ BeyondTold(r)
                              \/ \E u \in Sessions : BeyondSession(u, r)) => Absent(r)',
         \A l \in Lines : \/ Units(txn[s], l) <= Units(txn'[s], l)
                          \/ Units(txn'[s], l) = Units(saved[s], l),
         \A l \in Lines : Units(saved'[s], l) \in {Units(txn[s], l), Units(saved[s], l)},
         faults.crash = 0 => \A r \in Returns :
           <<r, Exceeded>> \in job'[s].results =>
             <<r, Exceeded>> \in job[s].results \/ (Absent(r) /\ BeyondSession(s, r)),
         AtSavepoint(s)'
  PROVE  Refused'
  <1>1. \A u \in Sessions : AtSavepoint(u)'
    BY DEF Refused, AtSavepoint, Others
  <1> SUFFICES ASSUME faults.crash = 0 PROVE ResultsFinal' /\ OutcomesFinal'
    BY <1>1 DEF Refused
  <1>2. ResultsFinal /\ OutcomesFinal
    BY DEF Refused
  <1>3. ASSUME NEW r \in Returns, BeyondSession(s, r) PROVE BeyondSession(s, r)'
    <2>1. PICK l \in InReturn(r) : Beyond(txn[s], r, l) /\ Beyond(saved[s], r, l)
      BY <1>3 DEF BeyondSession
    <2>2. l \in Lines
      BY DEF InReturn
    <2>3. /\ Units(txn[s], l) \in Nat /\ Units(saved[s], l) \in Nat
          /\ Units(txn'[s], l) \in Nat /\ Units(saved'[s], l) \in Nat
          /\ totals[l].units \in Nat
      BY <2>2, UnitsType, SaleReturnsAssumption, SMTT(30) DEF Units, TypeOK, Txn, Sums
    <2>4. Beyond(txn'[s], r, l) /\ Beyond(saved'[s], r, l)
      BY <2>1, <2>2, <2>3, BeyondGrows
    <2>. QED
      BY <2>4 DEF BeyondSession, Beyond, InReturn
  <1>4. \A u \in Sessions \ {s} : \A r \in Returns : BeyondSession(u, r) => BeyondSession(u, r)'
    BY DEF Others, BeyondSession, Beyond
  <1>5. ResultsFinal'
    <2> SUFFICES ASSUME NEW u \in Sessions, NEW r \in Returns, <<r, Exceeded>> \in job'[u].results
                 PROVE  Absent(r)' /\ BeyondSession(u, r)'
      BY DEF ResultsFinal
    <2>1. Absent(r) /\ BeyondSession(u, r)
      BY <1>2 DEF ResultsFinal, Others
    <2>. QED
      BY <1>3, <1>4, <2>1
  <1>6. OutcomesFinal'
    <2> SUFFICES ASSUME NEW r \in Returns, outcome[r] = Exceeded
                 PROVE  Absent(r)' /\ BeyondTold(r)'
      BY DEF OutcomesFinal
    <2>1. Absent(r) /\ BeyondTold(r)
      BY <1>2 DEF OutcomesFinal
    <2>2. PICK l \in InReturn(r) : \/ totals[l].units + Qty[r][l] > Sold[l]
                                   \/ \E u \in Sessions : pc[u] = "commit" /\ Beyond(txn[u], r, l)
      BY <2>1 DEF BeyondTold
    <2>3. \A u \in Sessions : pc[u] = "commit" => pc'[u] = "commit" /\ txn'[u] = txn[u]
      BY DEF Others
    <2>4. BeyondTold(r)'
      BY <2>2, <2>3 DEF BeyondTold, Beyond
    <2>. QED
      BY <2>1, <2>4
  <1>. QED
    BY <1>5, <1>6

\* The same when the step inserts no return.
LEMMA RefusedAfterReturn ==
  ASSUME TypeOK, TypeOK', Refused, NEW s \in Sessions,
         UNCHANGED <<number, totals, outcome>>, faults'.crash = faults.crash, Others(s),
         pc[s] # "commit",
         txn'[s] \in {txn[s], saved[s]}, saved'[s] \in {txn[s], saved[s]},
         faults.crash = 0 => \A r \in Returns :
           <<r, Exceeded>> \in job'[s].results =>
             <<r, Exceeded>> \in job[s].results \/ (Absent(r) /\ BeyondSession(s, r)),
         AtSavepoint(s)'
  PROVE  Refused'
  <1>1. \A r \in Returns : Absent(r) => Absent(r)'
    BY DEF Absent, Others
  <1>2. \A l \in Lines : \/ Units(txn[s], l) <= Units(txn'[s], l)
                         \/ Units(txn'[s], l) = Units(saved[s], l)
    BY UnitsType DEF Units, TypeOK, Txn, Sums
  <1>3. \A l \in Lines : Units(saved'[s], l) \in {Units(txn[s], l), Units(saved[s], l)}
    OBVIOUS
  <1>. QED
    BY <1>1, <1>2, <1>3, RefusedKept

\* The end of a return: its result is not a refusal for quantity, or a final one.
LEMMA NextReturnRefused ==
  ASSUME TypeOK, TypeOK', Refused, NEW s \in Sessions, pc[s] # "commit",
         UNCHANGED <<number, totals, outcome>>, faults'.crash = faults.crash,
         NEW results, NextReturn(s, results),
         \A u \in Sessions \ {s} : txn'[u] = txn[u] /\ saved'[u] = saved[u],
         txn'[s] \in {txn[s], saved[s]}, saved'[s] \in {txn[s], saved[s]},
         faults.crash = 0 => \A r \in Returns :
           <<r, Exceeded>> \in results => Absent(r) /\ BeyondSession(s, r)
  PROVE  Refused'
  <1>1. Others(s) /\ job'[s].results = job[s].results \cup results
        /\ pc'[s] \in {"respond", "look"}
    BY DEF NextReturn, NewJob, Others, TypeOK
  <1>2. AtSavepoint(s)'
    BY <1>1 DEF AtSavepoint
  <1>. QED
    BY <1>1, <1>2, RefusedAfterReturn

LEMMA FailReturnRefused ==
  ASSUME TypeOK, TypeOK', Refused, NEW s \in Sessions, pc[s] # "commit",
         UNCHANGED <<number, totals, outcome, saved>>, faults'.crash = faults.crash,
         NEW results, NextReturn(s, results), RollBack(s),
         faults.crash = 0 => \A r \in Returns :
           <<r, Exceeded>> \in results => Absent(r) /\ BeyondSession(s, r)
  PROVE  Refused'
  <1>1. txn'[s] = saved[s] /\ \A u \in Sessions \ {s} : txn'[u] = txn[u] /\ saved'[u] = saved[u]
    BY DEF RollBack, TypeOK
  <1>. QED
    BY <1>1, NextReturnRefused

LEMMA LookRefused ==
  ASSUME TypeOK, TypeOK', Refused, NEW s \in Sessions, Look(s)
  PROVE  Refused'
  <1>1. /\ UNCHANGED <<number, totals, outcome, faults, txn>> /\ pc[s] = "look"
        /\ saved'[s] = txn[s] /\ \A u \in Sessions \ {s} : saved'[u] = saved[u]
    BY DEF Look, Exists, TypeOK, db, client
  <1>2. CASE NextReturn(s, {<<Current(s), "stored">>})
    BY <1>1, <1>2, NextReturnRefused DEF Exceeded
  <1>3. CASE pc' = [pc EXCEPT ![s] = "lock"] /\ UNCHANGED job
    <2>1. Others(s) /\ pc'[s] = "lock"
      BY <1>1, <1>3 DEF Others, TypeOK
    <2>2. AtSavepoint(s)'
      BY <1>1 DEF AtSavepoint
    <2>. QED
      BY <1>1, <1>3, <2>1, <2>2, RefusedAfterReturn
  <1>. QED
    BY <1>2, <1>3 DEF Look, Exists

LEMMA LockSaleRefused ==
  ASSUME TypeOK, TypeOK', Refused, NEW s \in Sessions, LockSale(s)
  PROVE  Refused'
  <1> DEFINE x == SaleOf[Current(s)]
  <1>1. UNCHANGED <<number, totals, outcome, faults, saved>> /\ pc[s] = "lock"
    BY DEF LockSale, db, client
  <1>2. CASE x \notin stored
    BY <1>1, <1>2, FailReturnRefused DEF LockSale, Refuse, Exceeded
  <1>3. CASE x \in stored
    <2> DEFINE t == NewTxn(txn[s].rows, txn[s].taken, txn[s].sums, txn[s].locks \cup {x})
    <2>1. /\ txn' = [txn EXCEPT ![s] = t] /\ pc' = [pc EXCEPT ![s] = "check"] /\ job' = job
      BY <1>3 DEF LockSale
    <2>2. t.rows = txn[s].rows /\ t.sums = txn[s].sums
      BY DEF NewTxn
    <2> HIDE DEF t, x
    <2>3. Others(s) /\ txn'[s] = t /\ pc'[s] = "check" /\ saved'[s] = saved[s]
      BY <1>1, <2>1 DEF Others, TypeOK
    <2>4. AtSavepoint(s)'
      BY <1>1, <2>2, <2>3 DEF Refused, AtSavepoint
    <2>5. \A r \in Returns : Absent(r) => Absent(r)'
      BY <1>1, <2>2, <2>3 DEF Absent, Others
    <2>6. \A l \in Lines : Units(txn[s], l) <= Units(txn'[s], l)
      BY <2>2, <2>3 DEF Units, TypeOK, Txn, Sums
    <2>7. \A l \in Lines : Units(saved'[s], l) = Units(saved[s], l)
      BY <2>3
    <2>. QED
      BY <1>1, <2>1, <2>3, <2>4, <2>5, <2>6, <2>7, RefusedKept
  <1>. QED
    BY <1>2, <1>3

\* The session holds the sale, so nobody else has returned the same units, and
\* nothing of the return is stored.
LEMMA CheckRefused ==
  ASSUME Inv, TypeOK', Books, Refused, NEW s \in Sessions, Check(s)
  PROVE  Refused'
  <1> DEFINE r == Current(s)
  <1>0. TypeOK /\ pc[s] = "check" /\ r \in Returns
    BY CurrentType DEF Inv, TypeInv, Check, JobOK, Working, TypeOK
  <1>1. UNCHANGED <<number, totals, outcome, faults, saved>>
    BY DEF Check, db, client
  <1>2. CASE Exists(s)
    BY <1>0, <1>1, <1>2, NextReturnRefused DEF Exists, Exceeded
  <1>3. ASSUME Seen(s, r) = 0,
               NEW l \in InReturn(r), NEW code \in LineRefusals(r, l, Already(s, l)),
               Refuse(s, code)
        PROVE  Refused'
    <2>1. txn[s].rows = saved[s].rows /\ txn[s].sums = saved[s].sums
      BY <1>0 DEF Refused, AtSavepoint
    <2>2. Absent(r)
      <3>1. number[r] = 0 /\ txn[s].rows[r] = 0 /\ saved[s].rows[r] = 0
        BY <1>3, <2>1 DEF Seen
      <3>2. ASSUME NEW u \in Sessions \ {s}
            PROVE  txn[u].rows[r] = 0 /\ saved[u].rows[r] = 0
        <4>1. SaleOf[r] \in txn[s].locks
          BY <1>0 DEF Inv
        <4>2. SaleOf[r] \notin txn[u].locks /\ SaleOf[r] \notin saved[u].locks
          BY <4>1 DEF Inv
        <4>3. Kept(txn[u]) /\ Kept(saved[u])
          BY DEF Books
        <4>. QED
          BY <1>0, <4>2, <4>3 DEF Kept
      <3>. QED
        BY <3>1, <3>2 DEF Absent
    <2>3. code = Exceeded => BeyondSession(s, r)
      <3> SUFFICES ASSUME code = Exceeded PROVE BeyondSession(s, r)
        OBVIOUS
      <3>1. Already(s, l) + Qty[r][l] > Sold[l]
        BY DEF LineRefusals, Exceeded
      <3>2. Beyond(txn[s], r, l) /\ Beyond(saved[s], r, l)
        BY <2>1, <3>1 DEF Beyond, Already
      <3>. QED
        BY <3>2 DEF BeyondSession
    <2>4. \A q \in Returns : <<q, Exceeded>> \in {<<r, code>>} => Absent(q) /\ BeyondSession(s, q)
      BY <2>2, <2>3
    <2>5. NextReturn(s, {<<r, code>>}) /\ RollBack(s)
      BY <1>3 DEF Refuse
    <2>. HIDE DEF r
    <2>. QED
      BY <1>0, <1>1, <2>4, <2>5, FailReturnRefused
  <1>4. ASSUME txn' = txn, pc' = [pc EXCEPT ![s] = "insert"],
               NEW L, job' = [job EXCEPT ![s] = NewJob(job[s].batch, L, job[s].results)]
        PROVE  Refused'
    <2>1. Others(s) /\ pc'[s] = "insert" /\ job'[s].results = job[s].results
      BY <1>0, <1>1, <1>4 DEF Others, TypeOK, NewJob
    <2>2. AtSavepoint(s)'
      BY <1>0, <1>1, <1>4 DEF Refused, AtSavepoint
    <2>. QED
      BY <1>0, <1>1, <1>4, <2>1, <2>2, RefusedAfterReturn
  <1>. QED
    BY <1>2, <1>3, <1>4 DEF Check, InReturn

\* A return that s may insert is refused by nobody: s holds its sale, so no other
\* session has units of its lines.
LEMMA AcceptedNotRefused ==
  ASSUME Inv, NEW s \in Sessions, pc[s] = "insert", NEW r \in Returns, r = Current(s)
  PROVE  ~BeyondTold(r) /\ \A u \in Sessions : ~BeyondSession(u, r)
  <1>0. TypeOK
    BY DEF Inv, TypeInv
  <1>1. ASSUME NEW l \in InReturn(r)
        PROVE  /\ ~(totals[l].units + Qty[r][l] > Sold[l])
               /\ \A u \in Sessions : ~Beyond(txn[u], r, l)
    <2>1. l \in Lines
      BY DEF InReturn
    <2>2. SaleLine[l] \in txn[s].locks /\ Already(s, l) + Qty[r][l] <= Sold[l]
      BY <1>1 DEF Inv, Accepted
    <2>3. /\ totals[l].units \in Nat /\ Qty[r][l] \in Nat /\ Sold[l] \in Nat
          /\ \A u \in Sessions : txn[u].sums[l].units \in Nat
      BY <1>0, <2>1, UnitsType DEF Units
    <2>4. \A u \in Sessions \ {s} : txn[u].sums[l].units = 0
      <3>1. \A u \in Sessions \ {s} : SaleLine[l] \notin txn[u].locks
        BY <2>2 DEF Inv
      <3>. QED
        BY <2>1, <3>1 DEF Inv, Within
    <2>. QED
      BY <2>2, <2>3, <2>4 DEF Already, Beyond
  <1>. QED
    BY <1>1 DEF BeyondTold, BeyondSession

LEMMA InsertRefused ==
  ASSUME Inv, TypeOK', Refused, NEW s \in Sessions, InsertReturn(s)
  PROVE  Refused'
  <1> DEFINE r == Current(s)
             w == [l \in Lines |-> Plus(txn[s].sums[l], Item(s, l))]
             t == NewTxn([txn[s].rows EXCEPT ![r] = next + txn[s].taken], txn[s].taken + 1, w,
                         txn[s].locks \cup {StoreRow})
  <1>1. TypeOK /\ r \in Returns /\ pc[s] = "insert"
    BY CurrentType DEF InsertReturn, JobOK, Working, TypeOK, Inv, TypeInv
  <1>2. /\ UNCHANGED <<number, totals, outcome, faults, saved, job>> /\ Others(s)
        /\ txn'[s] = t /\ saved'[s] = saved[s] /\ pc'[s] = "restock"
    BY <1>1 DEF InsertReturn, Others, TypeOK, db, client
  <1>3. t.rows = [txn[s].rows EXCEPT ![r] = next + txn[s].taken] /\ t.sums = w
    BY DEF NewTxn
  <1>4. ASSUME NEW q \in Returns, Absent(q),
               BeyondSession(s, q) \/ BeyondTold(q) \/ \E u \in Sessions : BeyondSession(u, q)
        PROVE  Absent(q)'
    <2>1. q # r
      BY <1>1, <1>4, AcceptedNotRefused
    <2>2. txn[s].rows \in [Returns -> Nat]
      BY <1>1 DEF TypeOK, Txn
    <2>3. t.rows[q] = 0
      BY <1>3, <1>4, <2>1, <2>2 DEF Absent
    <2> HIDE DEF t
    <2>. QED
      BY <1>2, <1>4, <2>3 DEF Absent, Others
  <1>5. ASSUME NEW l \in Lines PROVE Units(txn[s], l) <= Units(txn'[s], l)
    <2>1. w[l].units = txn[s].sums[l].units + Qty[r][l]
      BY DEF Plus, Item
    <2>2. txn[s].sums[l].units \in Nat /\ Qty[r][l] \in Nat
      BY <1>1, UnitsType DEF Units
    <2> HIDE DEF w, t
    <2>. QED
      BY <1>2, <1>3, <2>1, <2>2 DEF Units
  <1>6. AtSavepoint(s)'
    BY <1>2 DEF AtSavepoint
  <1> HIDE DEF t
  <1>. QED
    BY <1>1, <1>2, <1>4, <1>5, <1>6, RefusedKept

LEMMA RestockRefused ==
  ASSUME Inv, TypeOK', Refused, NEW s \in Sessions, NEW l \in Lines, Restock(s, l)
  PROVE  Refused'
  <1>1. TypeOK /\ pc[s] = "restock" /\ UNCHANGED <<number, totals, outcome, faults, saved>>
    BY DEF Restock, Inv, TypeInv, db, client
  <1>2. CASE Product[l] \notin live
    BY <1>1, <1>2, FailReturnRefused DEF Restock, FailReturn
  <1>3. CASE Product[l] \in live
    <2> DEFINE t == WithMovement(s, l)
    <2>1. txn' = [txn EXCEPT ![s] = t] /\ pc' = pc /\ job' = Restocked(s, l)
      BY <1>3 DEF Restock
    <2>2. /\ t.rows = txn[s].rows
          /\ \A m \in Lines : t.sums[m] =
               IF m = l THEN Plus(txn[s].sums[m], Movement(Qty[Current(s)][m]))
                        ELSE txn[s].sums[m]
      BY DEF WithMovement, NewTxn
    <2>3. \A m \in Lines : t.sums[m].units = txn[s].sums[m].units
      <3>1. \A m \in Lines : txn[s].sums[m].units \in Nat
        BY <1>1 DEF TypeOK, Txn, Sums
      <3>2. \A m \in Lines : Plus(txn[s].sums[m], Movement(Qty[Current(s)][m])).units
                               = txn[s].sums[m].units
        BY <3>1 DEF Plus, Movement
      <3> HIDE DEF t
      <3>. QED
        BY <2>2, <3>2
    <2> HIDE DEF t
    <2>4. /\ Others(s) /\ txn'[s] = t /\ saved'[s] = saved[s] /\ pc'[s] = "restock"
          /\ job'[s].results = job[s].results
      BY <1>1, <2>1 DEF Others, TypeOK, Restocked, NewJob
    <2>5. AtSavepoint(s)'
      BY <2>4 DEF AtSavepoint
    <2>6. \A r \in Returns : Absent(r) => Absent(r)'
      BY <1>1, <2>2, <2>4 DEF Absent, Others
    <2>7. \A m \in Lines : Units(txn[s], m) <= Units(txn'[s], m)
      BY <1>1, <2>3, <2>4 DEF Units, TypeOK, Txn, Sums
    <2>. QED
      BY <1>1, <2>4, <2>5, <2>6, <2>7, RefusedKept
  <1>. QED
    BY <1>2, <1>3

\* The device hears the results, and the session will commit what they rest on.
LEMMA RespondRefused ==
  ASSUME TypeOK, TypeOK', Refused, NEW s \in Sessions, Respond(s)
  PROVE  Refused'
  <1>1. /\ UNCHANGED <<number, totals, faults, job, txn, saved>> /\ pc[s] = "respond"
        /\ pc' = [pc EXCEPT ![s] = "commit"]
    BY DEF Respond, db
  <1>2. pc'[s] = "commit" /\ \A u \in Sessions \ {s} : pc'[u] = pc[u]
    BY <1>1 DEF TypeOK
  <1>3. \A u \in Sessions : AtSavepoint(u)'
    BY <1>1, <1>2 DEF Refused, AtSavepoint
  <1> SUFFICES ASSUME faults.crash = 0 PROVE ResultsFinal' /\ OutcomesFinal'
    BY <1>1, <1>3 DEF Refused
  <1>4. ResultsFinal /\ OutcomesFinal
    BY DEF Refused
  <1>5. \A r \in Returns : Absent(r)' = Absent(r)
    BY <1>1 DEF Absent
  <1>6. ResultsFinal'
    BY <1>1, <1>4, <1>5 DEF ResultsFinal, BeyondSession, Beyond
  <1>7. ASSUME NEW r \in Returns, outcome'[r] = Exceeded PROVE Absent(r) /\ BeyondTold(r)'
    <2>1. CASE outcome[r] = Exceeded
      <3>1. Absent(r) /\ BeyondTold(r)
        BY <1>4, <2>1 DEF OutcomesFinal
      <3>2. PICK l \in InReturn(r) : \/ totals[l].units + Qty[r][l] > Sold[l]
                                     \/ \E u \in Sessions : pc[u] = "commit" /\ Beyond(txn[u], r, l)
        BY <3>1 DEF BeyondTold
      <3>3. \A u \in Sessions : pc[u] = "commit" => pc'[u] = "commit"
        BY <1>2
      <3>. QED
        BY <1>1, <3>1, <3>2, <3>3 DEF BeyondTold, Beyond
    <2>2. CASE outcome[r] # Exceeded
      <3> DEFINE a == CHOOSE a \in job[s].results : a[1] = r
      <3>1. (\E b \in job[s].results : b[1] = r) /\ outcome'[r] = a[2]
        BY <1>7, <2>2 DEF Respond
      <3>2. a \in job[s].results /\ a[1] = r /\ a[2] = Exceeded
        BY <1>7, <3>1
      <3>3. <<r, Exceeded>> \in job[s].results
        <4> HIDE DEF a
        <4>1. job[s].results \in SUBSET (Returns \X Outcomes)
          BY JobFields DEF TypeOK
        <4>2. PICK q \in Returns, o \in Outcomes : a = <<q, o>>
          BY <3>2, <4>1
        <4>. QED
          BY <3>2, <4>2
      <3>4. Absent(r) /\ BeyondSession(s, r)
        BY <1>4, <3>3 DEF ResultsFinal
      <3>. QED
        BY <1>1, <1>2, <3>4 DEF BeyondTold, BeyondSession, Beyond
    <2>. QED
      BY <2>1, <2>2
  <1>8. OutcomesFinal'
    BY <1>5, <1>7 DEF OutcomesFinal
  <1>. QED
    BY <1>6, <1>8

\* What was refused because of what s would commit is refused because of what it
\* has committed.
LEMMA CommitRefused ==
  ASSUME Inv, Books, TypeOK', Refused, NEW s \in Sessions, Commit(s)
  PROVE  Refused'
  <1>1. TypeOK /\ pc[s] = "commit" /\ outcome' = outcome /\ faults' = faults
    BY DEF Inv, TypeInv, Commit, client
  <1>2. /\ Others(s) /\ txn'[s] = NoWrites /\ saved'[s] = NoWrites /\ pc'[s] = "idle"
        /\ job'[s] = NoJob
    BY <1>1 DEF Commit, Close, Others, TypeOK
  <1>3. /\ number' = [r \in Returns |-> Seen(s, r)]
        /\ \A l \in Lines : totals'[l].units = totals[l].units + txn[s].sums[l].units
    BY DEF Commit, Plus
  <1>4. \A u \in Sessions : AtSavepoint(u)'
    BY <1>2 DEF Refused, AtSavepoint, Others
  <1> SUFFICES ASSUME faults.crash = 0 PROVE ResultsFinal' /\ OutcomesFinal'
    BY <1>1, <1>4 DEF Refused
  <1>5. ResultsFinal /\ OutcomesFinal
    BY DEF Refused
  <1>6. ASSUME NEW r \in Returns, Absent(r) PROVE Absent(r)'
    <2>1. number'[r] = 0
      BY <1>3, <1>6 DEF Absent, Seen
    <2>2. \A u \in Sessions : txn'[u].rows[r] = 0 /\ saved'[u].rows[r] = 0
      BY <1>2, <1>6 DEF Absent, Others, NoWrites, NewTxn
    <2>. QED
      BY <2>1, <2>2 DEF Absent
  <1>7. ASSUME NEW u \in Sessions, NEW l \in Lines, NEW r \in Returns
        PROVE  /\ Units(txn[u], l) \in Nat /\ Units(saved[u], l) \in Nat
               /\ Units(txn'[u], l) \in Nat /\ Units(saved'[u], l) \in Nat
               /\ totals[l].units \in Nat /\ totals'[l].units \in Nat
               /\ totals[l].units <= totals'[l].units
               /\ Qty[r][l] \in Nat /\ Sold[l] \in Nat
    <2>1. \A v \in Sessions : Units(txn[v], l) \in Nat /\ Units(saved[v], l) \in Nat
          /\ totals[l].units \in Nat /\ Qty[r][l] \in Nat /\ Sold[l] \in Nat
      BY <1>1, UnitsType
    <2>2. Units(txn'[u], l) \in Nat /\ Units(saved'[u], l) \in Nat
      BY DEF Units, TypeOK, Txn, Sums
    <2>3. totals'[l].units = totals[l].units + Units(txn[s], l)
      BY <1>3 DEF Units
    <2>. QED
      BY <2>1, <2>2, <2>3
  <1>8. ResultsFinal'
    <2> SUFFICES ASSUME NEW u \in Sessions, NEW r \in Returns, <<r, Exceeded>> \in job'[u].results
                 PROVE  Absent(r)' /\ BeyondSession(u, r)'
      BY DEF ResultsFinal
    <2>1. u # s /\ job'[u] = job[u] /\ txn'[u] = txn[u] /\ saved'[u] = saved[u]
      BY <1>2 DEF Others, NoJob, NewJob
    <2>2. Absent(r) /\ BeyondSession(u, r)
      BY <1>5, <2>1 DEF ResultsFinal
    <2>3. PICK l \in InReturn(r) : Beyond(txn[u], r, l) /\ Beyond(saved[u], r, l)
      BY <2>2 DEF BeyondSession
    <2>4. l \in Lines
      BY DEF InReturn
    <2>5. Beyond(txn[u], r, l)' /\ Beyond(saved[u], r, l)'
      BY <1>7, <2>1, <2>3, <2>4 DEF Beyond, Units
    <2>. QED
      BY <1>6, <2>2, <2>5 DEF BeyondSession
  <1>9. OutcomesFinal'
    <2> SUFFICES ASSUME NEW r \in Returns, outcome[r] = Exceeded
                 PROVE  Absent(r)' /\ BeyondTold(r)'
      BY <1>1 DEF OutcomesFinal
    <2>1. Absent(r) /\ BeyondTold(r)
      BY <1>5 DEF OutcomesFinal
    <2>2. PICK l \in InReturn(r) : \/ totals[l].units + Qty[r][l] > Sold[l]
                                   \/ \E u \in Sessions : pc[u] = "commit" /\ Beyond(txn[u], r, l)
      BY <2>1 DEF BeyondTold
    <2>3. l \in Lines
      BY DEF InReturn
    <2>4. CASE totals[l].units + Qty[r][l] > Sold[l]
      <3>1. totals'[l].units + Qty[r][l] > Sold[l]
        BY <1>7, <2>3, <2>4
      <3>. QED
        BY <1>6, <2>1, <3>1 DEF BeyondTold
    <2>5. CASE Beyond(txn[s], r, l)
      <3>1. totals'[l].units + Qty[r][l] > Sold[l]
        BY <1>3, <2>3, <2>5 DEF Beyond
      <3>. QED
        BY <1>6, <2>1, <3>1 DEF BeyondTold
    <2>6. ASSUME NEW u \in Sessions \ {s}, pc[u] = "commit", Beyond(txn[u], r, l)
          PROVE  Absent(r)' /\ BeyondTold(r)'
      <3>1. pc'[u] = "commit" /\ txn'[u] = txn[u]
        BY <1>2, <2>6 DEF Others
      <3>2. Beyond(txn[u], r, l)'
        BY <1>7, <2>3, <2>6, <3>1 DEF Beyond, Units
      <3>. QED
        BY <1>6, <2>1, <3>1, <3>2 DEF BeyondTold
    <2>. QED
      BY <2>2, <2>4, <2>5, <2>6
  <1>. QED
    BY <1>8, <1>9

LEMMA RefusedInit == Init => Refused
  <1>. SUFFICES ASSUME Init PROVE Refused
    OBVIOUS
  <1>1. \A s \in Sessions : pc[s] = "idle" /\ job[s].results = {}
    BY DEF Init, NoJob, NewJob
  <1>2. \A r \in Returns : outcome[r] # Exceeded
    BY DEF Init, Exceeded
  <1>. QED
    BY <1>1, <1>2 DEF Refused, AtSavepoint, ResultsFinal, OutcomesFinal

LEMMA RefusedStep ==
  ASSUME Inv, TypeOK', Books, Refused, [Next]_vars
  PROVE  Refused'
  <1>. USE DEF db, client
  <1>0. TypeOK
    BY DEF Inv, TypeInv
  <1>1. ASSUME NEW s \in Sessions,
               Look(s) \/ LockSale(s) \/ Check(s) \/ InsertReturn(s) \/ Respond(s) \/ Commit(s)
        PROVE  Refused'
    BY <1>0, <1>1, LookRefused, LockSaleRefused, CheckRefused, InsertRefused, RespondRefused,
       CommitRefused
  <1>2. ASSUME NEW s \in Sessions, NEW l \in Lines, Restock(s, l) PROVE Refused'
    BY <1>2, RestockRefused
  <1>3. ASSUME NEW s \in Sessions, FinishReturn(s) PROVE Refused'
    <2>1. UNCHANGED <<number, totals, outcome, txn, saved, faults>> /\ pc[s] = "restock"
      BY <1>3 DEF FinishReturn
    <2>. QED
      BY <1>0, <1>3, <2>1, NextReturnRefused DEF FinishReturn, Exceeded
  <1>4. ASSUME NEW s \in Sessions, ErrorInReturn(s) PROVE Refused'
    <2>1. /\ UNCHANGED <<number, totals, outcome, saved>> /\ pc[s] # "commit"
          /\ faults'.crash = faults.crash
      BY <1>0, <1>4 DEF ErrorInReturn, TypeOK, Faults
    <2>2. CASE pc[s] = "look"
      BY <1>0, <1>4, <2>1, <2>2, NextReturnRefused DEF ErrorInReturn
    <2>3. CASE pc[s] # "look"
      BY <1>0, <1>4, <2>1, <2>3, FailReturnRefused DEF ErrorInReturn, FailReturn
    <2>. QED
      BY <2>2, <2>3
  <1>5. ASSUME NEW s \in Sessions, DeadlockFails(s) PROVE Refused'
    <2>1. PICK t \in Sessions : Waits(s, t)
      BY <1>5 DEF DeadlockFails, Deadlocked, Circle
    <2>2. pc[s] # "commit"
      BY <2>1 DEF Waits, Wanted
    <2>. QED
      BY <1>0, <1>5, <2>2, FailReturnRefused DEF DeadlockFails, FailReturn
  <1>6. ASSUME NEW s \in Sessions, NEW d \in Devices, Send(d, s) PROVE Refused'
    <2>1. /\ UNCHANGED <<number, totals, outcome, txn, saved, faults>> /\ pc[s] = "idle"
          /\ pc'[s] = "look" /\ job'[s].results = {} /\ Others(s)
      BY <1>0, <1>6 DEF Send, Others, TypeOK, NewJob
    <2>2. AtSavepoint(s)'
      BY <2>1 DEF AtSavepoint
    <2>. QED
      BY <1>0, <2>1, <2>2, RefusedAfterReturn
  <1>7. ASSUME NEW s \in Sessions, Crash(s) \/ LoseConnection(s) PROVE Refused'
    <2>1. Others(s) /\ pc'[s] \in {"idle", "respond"}
      BY <1>0, <1>7 DEF Crash, LoseConnection, Close, Others, TypeOK
    <2>2. faults'.crash # 0
      BY <1>0, <1>7 DEF Crash, LoseConnection, TypeOK, Faults
    <2>3. \A u \in Sessions : AtSavepoint(u)'
      BY <2>1 DEF Refused, AtSavepoint, Others
    <2>. QED
      BY <2>2, <2>3 DEF Refused
  <1>8. ASSUME UNCHANGED <<number, totals, outcome, txn, saved, pc, job>>,
               faults'.crash = faults.crash
        PROVE  Refused'
    <2>1. \A r \in Returns : Absent(r)' = Absent(r) /\ BeyondTold(r)' = BeyondTold(r)
      BY <1>8 DEF Absent, BeyondTold, Beyond
    <2>2. \A u \in Sessions : /\ AtSavepoint(u)' = AtSavepoint(u)
                              /\ \A r \in Returns : BeyondSession(u, r)' = BeyondSession(u, r)
      BY <1>8 DEF AtSavepoint, BeyondSession, Beyond
    <2>. QED
      BY <1>8, <2>1, <2>2 DEF Refused, ResultsFinal, OutcomesFinal
  <1>9. ASSUME NEW d \in Devices, Timeout(d) PROVE Refused'
    <2>1. faults'.crash = faults.crash
      BY <1>0, <1>9 DEF Timeout, TypeOK, Faults
    <2>. QED
      BY <1>8, <1>9, <2>1 DEF Timeout, server
  <1>10. CASE \/ \E x \in Sales : SaleCommits(x)
              \/ \E p \in Products : DeleteProduct(p)
              \/ UNCHANGED vars
    BY <1>8, <1>10 DEF SaleCommits, DeleteProduct, vars, server
  <1>. QED
    BY <1>1, <1>2, <1>3, <1>4, <1>5, <1>6, <1>7, <1>9, <1>10 DEF Next, Progress

\* The inductive invariant of the refusals: a session that has refused a return for
\* its quantity keeps the reason, in its transaction and in its SAVEPOINT, until it
\* has committed it.
THEOREM RefusedCorrect == Spec => []Refused
  <1>1. Init => Refused
    BY RefusedInit
  <1>2. Inv /\ TypeOK' /\ Books /\ Refused /\ [Next]_vars => Refused'
    BY RefusedStep
  <1>. QED
    BY <1>1, <1>2, InvCorrect, TypeCorrect, BooksCorrect, PTL DEF Spec

\* A return that create_return refused with quantity_exceeded is stored by no
\* other request, and would be refused again: unless a commit is lost, the units
\* that filled the line are committed or about to be, and nothing takes a return
\* back.
THEOREM RefusalFinal == Spec => []QuantityRefusalIsFinal
  <1>1. Refused => QuantityRefusalIsFinal
    <2> SUFFICES ASSUME Refused, faults.crash = 0, NEW r \in Returns,
                        outcome[r] = "quantity_exceeded"
                 PROVE  /\ NotStored(r)
                        /\ \E l \in InReturn(r) : \E back \in
                             {totals[l].units} \cup
                             {Already(s, l) : s \in {t \in Sessions : pc[t] = "commit"}} :
                               back + Qty[r][l] > Sold[l]
      BY DEF QuantityRefusalIsFinal
    <2>1. Absent(r) /\ BeyondTold(r)
      BY DEF Refused, OutcomesFinal, Exceeded
    <2>2. NotStored(r)
      BY <2>1 DEF Absent, NotStored
    <2>3. PICK l \in InReturn(r) : \/ totals[l].units + Qty[r][l] > Sold[l]
                                   \/ \E u \in Sessions : pc[u] = "commit" /\ Beyond(txn[u], r, l)
      BY <2>1 DEF BeyondTold
    <2>4. CASE totals[l].units + Qty[r][l] > Sold[l]
      BY <2>2, <2>4
    <2>5. ASSUME NEW u \in Sessions, pc[u] = "commit", Beyond(txn[u], r, l)
          PROVE  \E back \in {totals[l].units} \cup
                   {Already(s, l) : s \in {t \in Sessions : pc[t] = "commit"}} :
                     back + Qty[r][l] > Sold[l]
      BY <2>5 DEF Beyond, Already
    <2>. QED
      BY <2>2, <2>3, <2>4, <2>5
  <1>. QED
    BY <1>1, RefusedCorrect, PTL

-----------------------------------------------------------------------------
(* RefundSequence: arithmetic.                                             *)

\* Quotient and remainder, as `//` and `%` compute them.
LEMMA Division ==
  ASSUME NEW a \in Nat, NEW b \in Nat \ {0}
  PROVE  /\ a \div b \in Nat
         /\ a % b \in Nat /\ a % b < b
         /\ a = b * (a \div b) + (a % b)
  OBVIOUS

\* A quotient is found from its bounds.
LEMMA QuotientIs ==
  ASSUME NEW a \in Nat, NEW b \in Nat \ {0}, NEW q \in Int, b * q <= a, a < b * q + b
  PROVE  a \div b = q
  <1>1. a \div b \in Nat /\ b * (a \div b) <= a /\ a < b * (a \div b) + b
    BY Division
  <1>2. PICK d \in Nat : d = a \div b
    BY <1>1
  <1>3. b * d < b * (q + 1) /\ b * q < b * (d + 1)
    BY <1>1, <1>2
  <1>4. d < q + 1
    BY <1>3
  <1>5. q < d + 1
    BY <1>3
  <1> QED  BY <1>2, <1>4, <1>5

\* The quotient of a smaller number is no larger.
LEMMA QuotientLe ==
  ASSUME NEW a \in Nat, NEW c \in Nat, NEW b \in Nat \ {0}, a <= c
  PROVE  a \div b <= c \div b
  <1>1. PICK d, e \in Nat : d = a \div b /\ e = c \div b
    BY Division
  <1>2. b * d <= a /\ c < b * e + b
    BY <1>1, Division
  <1>3. b * d < b * (e + 1)
    BY <1>2
  <1>4. d < e + 1
    BY <1>3
  <1> QED  BY <1>1, <1>4

\* A multiple of s that lies between 0 and (s - 1) * n is at most n times s.
LEMMA MultipleBound ==
  ASSUME NEW s \in Nat \ {0}, NEW k \in Int, NEW n \in Nat,
         0 <= s * k, s * k <= (s - 1) * n
  PROVE  k \in 0 .. n
  <1>1. k >= 0
    <2>1. ASSUME k <= -1 PROVE FALSE
      <3>1. s * k <= s * (-1)
        BY <2>1
      <3> QED BY <3>1
    <2> QED BY <2>1
  <1>2. k <= n
    <2>1. ASSUME k >= n + 1 PROVE FALSE
      <3>1. s * k >= s * (n + 1)
        BY <2>1
      <3>2. s * (n + 1) = s * n + s /\ (s - 1) * n = s * n - n
        OBVIOUS
      <3>3. PICK z \in Int : z = s * n
        OBVIOUS
      <3> QED BY <3>1, <3>2, <3>3
    <2> QED BY <2>1
  <1> QED  BY <1>1, <1>2

\* The francs due for the units back are between nothing and what the line
\* paid, which they reach when all the units are back.
LEMMA DueBetween ==
  ASSUME NEW p \in Nat, NEW s \in Nat \ {0}, NEW n \in 0 .. s
  PROVE  /\ Due(p, s, n) \in 0 .. p
         /\ Due(p, s, s) = p
         /\ Due(p, s, 0) = 0
  <1>1. p * n \in Nat /\ p * s \in Nat /\ p * 0 = 0 /\ p * n <= p * s
    OBVIOUS
  <1>2. (p * s) \div s = p
    <2>1. s * p = p * s
      OBVIOUS
    <2> QED BY <1>1, <2>1, QuotientIs
  <1>3. (p * n) \div s <= p
    BY <1>1, <1>2, QuotientLe
  <1>4. (p * n) \div s \in Nat
    BY <1>1, Division
  <1>5. 0 \div s = 0
    BY QuotientIs
  <1> QED  BY <1>1, <1>2, <1>3, <1>4, <1>5 DEF Due

-----------------------------------------------------------------------------
(* Ranks.                                                                  *)

\* When a finite set is ordered, and B[x] is what comes before x, exactly k of
\* its elements have fewer than k before them: `by_remainder[:leftover]`.
LEMMA FirstOnes ==
  ASSUME NEW D, IsFiniteSet(D), NEW B \in [D -> SUBSET D],
         \A x \in D : x \notin B[x],
         \A x, y \in D : x # y => x \in B[y] \/ y \in B[x],
         \A x, y \in D : x \in B[y] => B[x] \subseteq B[y],
         NEW k \in 0 .. Cardinality(D)
  PROVE  Cardinality({x \in D : Cardinality(B[x]) < k}) = k
  <1>1. PICK n \in Nat : n = Cardinality(D)
    BY FS_CardinalityType
  <1>2. PICK rank : rank = [x \in D |-> Cardinality(B[x])]
    OBVIOUS
  <1>3. \A x \in D : IsFiniteSet(B[x]) /\ Cardinality(B[x]) \in Nat /\ Cardinality(B[x]) < n
    <2> SUFFICES ASSUME NEW x \in D
                 PROVE  IsFiniteSet(B[x]) /\ Cardinality(B[x]) \in Nat /\ Cardinality(B[x]) < n
      OBVIOUS
    <2>1. B[x] \in SUBSET D /\ B[x] # D
      OBVIOUS
    <2>2. IsFiniteSet(B[x]) /\ Cardinality(B[x]) <= n /\ Cardinality(B[x]) # n
      BY <2>1, <1>1, FS_Subset
    <2>3. Cardinality(B[x]) \in Nat
      BY <2>2, FS_CardinalityType
    <2> QED BY <2>2, <2>3
  <1>4. \A x, y \in D : x \in B[y] => Cardinality(B[x]) < Cardinality(B[y])
    <2> SUFFICES ASSUME NEW x \in D, NEW y \in D, x \in B[y]
                 PROVE  Cardinality(B[x]) < Cardinality(B[y])
      OBVIOUS
    <2>1. B[x] \in SUBSET B[y] /\ B[x] # B[y]
      OBVIOUS
    <2>2. Cardinality(B[x]) <= Cardinality(B[y]) /\ Cardinality(B[x]) # Cardinality(B[y])
      BY <2>1, <1>3, FS_Subset
    <2> QED BY <2>2, <1>3
  <1>5. \A x, y \in D : x # y => rank[x] # rank[y]
    <2> SUFFICES ASSUME NEW x \in D, NEW y \in D, x # y
                 PROVE  rank[x] # rank[y]
      OBVIOUS
    <2>1. CASE x \in B[y]
      BY <2>1, <1>2, <1>3, <1>4
    <2>2. CASE y \in B[x]
      BY <2>2, <1>2, <1>3, <1>4
    <2> QED BY <2>1, <2>2
  <1>6. rank \in [D -> 0 .. n - 1]
    BY <1>2, <1>3
  <1>7. rank \in Injection(D, 0 .. n - 1)
    BY <1>5, <1>6 DEF Injection, IsInjective
  <1>8. IsFiniteSet(0 .. n - 1) /\ Cardinality(0 .. n - 1) = n
    BY FS_Interval
  <1>9. rank \in Surjection(D, 0 .. n - 1)
    BY <1>1, <1>7, <1>8, FS_Injection
  <1>10. \A v \in 0 .. n - 1 : \E x \in D : rank[x] = v
    BY <1>9 DEF Surjection
  <1>11. PICK W : W = {x \in D : Cardinality(B[x]) < k}
    OBVIOUS
  <1>12. PICK r : r = [x \in W |-> rank[x]]
    OBVIOUS
  <1>13. r \in Bijection(W, 0 .. k - 1)
    <2>1. k \in Nat /\ k <= n
      BY <1>1
    <2>2. \A x \in W : x \in D /\ rank[x] = Cardinality(B[x]) /\ Cardinality(B[x]) < k
      BY <1>2, <1>11
    <2>3. r \in [W -> 0 .. k - 1]
      BY <2>1, <2>2, <1>3, <1>12
    <2>4. \A x, y \in W : r[x] = r[y] => x = y
      BY <2>2, <1>5, <1>12
    <2>5. \A v \in 0 .. k - 1 : \E x \in W : r[x] = v
      <3> SUFFICES ASSUME NEW v \in 0 .. k - 1
                   PROVE  \E x \in W : r[x] = v
        OBVIOUS
      <3>1. v \in 0 .. n - 1
        BY <2>1
      <3>2. PICK x \in D : rank[x] = v
        BY <3>1, <1>10
      <3>3. x \in W
        BY <3>2, <2>1, <1>2, <1>11
      <3> QED BY <3>2, <3>3, <1>12
    <2> QED BY <2>3, <2>4, <2>5 DEF Bijection, Injection, Surjection, IsInjective
  <1>14. IsFiniteSet(W)
    <2>1. W \in SUBSET D
      BY <1>11
    <2> QED BY <2>1, FS_Subset
  <1>15. Cardinality(0 .. k - 1) = Cardinality(W)
    BY <1>13, <1>14, FS_Bijection DEF ExistsBijection
  <1>16. Cardinality(0 .. k - 1) = k
    BY FS_Interval
  <1> QED  BY <1>11, <1>15, <1>16

-----------------------------------------------------------------------------
(* The largest remainder method.                                           *)

\* SumScale, quantified, which spares the provers the products of the others.
LEMMA Scaled ==
  ASSUME NEW D, IsFiniteSet(D)
  PROVE  \A f, h \in [D -> Int] : \A c \in Int :
           (\A x \in D : h[x] = c * f[x]) => SumFunction(h) = c * SumFunction(f)
  BY SumScale

\* For a sale with a positive subtotal, the francs that the shares rounded
\* down leave are at most one for each line, and the lines that get one are as
\* many as these francs.
LEMMA LeftoverFits ==
  ASSUME NEW D, IsFiniteSet(D), D \subseteq Nat, NEW lt \in [D -> Nat],
         NEW francs \in Nat, Subtotal(lt) # 0
  PROVE  /\ Leftover(lt, francs) \in 0 .. Cardinality(D)
         /\ Cardinality({l \in D : Cardinality(Before(lt, francs, l)) < Leftover(lt, francs)})
              = Leftover(lt, francs)
  <1>1. PICK s \in Nat \ {0} : s = Subtotal(lt)
    BY SumNat DEF Subtotal
  <1>2. PICK n \in Nat : n = Cardinality(D)
    BY FS_CardinalityType
  <1>3. PICK fl, rm, num, sfl, top :
          /\ fl = [l \in D |-> Floor(lt, francs, l)]
          /\ rm = [l \in D |-> Remainder(lt, francs, l)]
          /\ num = [l \in D |-> lt[l] * francs]
          /\ sfl = [l \in D |-> s * fl[l]]
          /\ top = [l \in D |-> s - 1]
    OBVIOUS
  <1>4. ASSUME NEW l \in D
        PROVE  /\ num[l] \in Nat /\ fl[l] \in Nat /\ rm[l] \in Nat /\ sfl[l] \in Int
               /\ rm[l] <= top[l] /\ top[l] = s - 1
               /\ num[l] = francs * lt[l]
               /\ sfl[l] = s * fl[l]
               /\ num[l] = sfl[l] + rm[l]
    <2>1. PICK a \in Nat : a = lt[l] * francs /\ a = francs * lt[l]
      OBVIOUS
    <2>2. fl[l] = a \div s /\ rm[l] = a % s
      BY <1>1, <1>3, <2>1 DEF Floor, Remainder
    <2>3. a \div s \in Nat /\ a % s \in Nat /\ a % s < s /\ a = s * (a \div s) + (a % s)
      BY Division
    <2>4. num[l] = a /\ sfl[l] = s * fl[l] /\ top[l] = s - 1
      BY <1>3, <2>1
    <2>5. PICK d, e \in Nat : d = a \div s /\ e = a % s
      BY <2>3
    <2>6. s * d \in Int /\ e <= s - 1 /\ a = s * d + e
      BY <2>3, <2>5
    <2> QED BY <2>1, <2>2, <2>4, <2>5, <2>6
  <1>5. /\ num \in [D -> Int] /\ fl \in [D -> Int] /\ rm \in [D -> Nat] /\ rm \in [D -> Int]
        /\ sfl \in [D -> Int] /\ top \in [D -> Int] /\ lt \in [D -> Int]
    BY <1>3, <1>4
  <1>6. \A f, h \in [D -> Int] : \A c \in Int :
          (\A x \in D : h[x] = c * f[x]) => SumFunction(h) = c * SumFunction(f)
    BY Scaled, ZenonT(30)
  <1>7. SumFunction(num) = francs * s /\ SumFunction(sfl) = s * SumFunction(fl)
    <2>1. /\ \A l \in D : num[l] = francs * lt[l]
          /\ \A l \in D : sfl[l] = s * fl[l]
          /\ s \in Int /\ francs \in Int
      BY <1>4
    <2>2. SumFunction(num) = francs * SumFunction(lt)
      BY <2>1, <1>5, <1>6, Zenon
    <2>3. SumFunction(sfl) = s * SumFunction(fl)
      BY <2>1, <1>5, <1>6, Zenon
    <2> QED BY <2>2, <2>3, <1>1 DEF Subtotal
  <1>8. SumFunction(num) = SumFunction(sfl) + SumFunction(rm)
    <2>1. \A l \in D : num[l] = sfl[l] + rm[l]
      BY <1>4
    <2>2. \A f, g, h \in [D -> Int] :
            (\A x \in D : h[x] = f[x] + g[x]) => SumFunction(h) = SumFunction(f) + SumFunction(g)
      BY SumPlus
    <2> QED BY <2>1, <2>2, <1>5, Zenon
  <1>9. SumFunction(rm) \in Nat /\ SumFunction(rm) <= (s - 1) * n
    <2>1. SumFunction(rm) <= SumFunction(top)
      BY <1>4, <1>5, SumLe
    <2>2. s - 1 \in Int /\ \A l \in D : top[l] = s - 1
      BY <1>4
    <2>3. SumFunction(top) = (s - 1) * n
      BY <1>2, <1>5, <2>2, SumConst
    <2>4. SumFunction(rm) \in Nat
      BY <1>5, SumNat
    <2> QED BY <2>1, <2>3, <2>4
  <1>10. PICK g \in Int : g = SumFunction(fl)
    BY <1>5, SumType
  <1>11. PICK k \in Int : k = Leftover(lt, francs) /\ k = francs - g
    <2>1. DOMAIN lt = D
      OBVIOUS
    <2>2. Leftover(lt, francs) = francs - g
      BY <2>1, <1>3, <1>10 DEF Leftover
    <2> QED BY <2>2
  <1>12. s * k = SumFunction(rm)
    <2>1. s * k = s * francs - s * g
      BY <1>11
    <2>2. PICK z, y, r \in Int : z = s * francs /\ z = francs * s /\ y = s * g /\ r = SumFunction(rm)
      BY <1>9
    <2> QED BY <1>7, <1>8, <1>10, <2>1, <2>2
  <1>13. k \in 0 .. n
    BY <1>9, <1>12, MultipleBound
  <1>14. PICK B : B = [l \in D |-> Before(lt, francs, l)]
    OBVIOUS
  <1>15. /\ B \in [D -> SUBSET D]
         /\ \A l \in D : B[l] = Before(lt, francs, l)
         /\ \A l, m \in D : m \in B[l] <=> rm[m] > rm[l] \/ (rm[m] = rm[l] /\ m < l)
    BY <1>3, <1>14 DEF Before
  <1>16. \A l \in D : rm[l] \in Nat /\ l \in Nat
    BY <1>4
  <1>17. \A l \in D : l \notin B[l]
    BY <1>15, <1>16
  <1>18. \A l, m \in D : l # m => l \in B[m] \/ m \in B[l]
    BY <1>15, <1>16
  <1>19. \A l, m \in D : l \in B[m] => B[l] \subseteq B[m]
    <2> SUFFICES ASSUME NEW l \in D, NEW m \in D, l \in B[m], NEW x \in B[l]
                 PROVE  x \in B[m]
      OBVIOUS
    <2>1. x \in D
      BY <1>15
    <2>2. rm[x] > rm[l] \/ (rm[x] = rm[l] /\ x < l)
      BY <2>1, <1>15
    <2>3. rm[l] > rm[m] \/ (rm[l] = rm[m] /\ l < m)
      BY <1>15
    <2>4. rm[x] > rm[m] \/ (rm[x] = rm[m] /\ x < m)
      <3>1. PICK a, b, c, i, j, k0 \in Nat :
              a = rm[x] /\ b = rm[l] /\ c = rm[m] /\ i = x /\ j = l /\ k0 = m
        BY <2>1, <1>16
      <3> QED BY <2>2, <2>3, <3>1
    <2> QED BY <2>1, <2>4, <1>15
  <1>20. Cardinality({l \in D : Cardinality(B[l]) < k}) = k
    BY <1>2, <1>13, <1>15, <1>17, <1>18, <1>19, FirstOnes, ZenonT(30)
  <1>21. {l \in D : Cardinality(B[l]) < k}
           = {l \in D : Cardinality(Before(lt, francs, l)) < Leftover(lt, francs)}
    BY <1>11, <1>15
  <1> QED  BY <1>2, <1>11, <1>13, <1>20, <1>21

\* What each line paid when the subtotal is positive.
Shares(lt, francs) ==
  [l \in DOMAIN lt |->
     Floor(lt, francs, l) +
     IF Cardinality(Before(lt, francs, l)) < Leftover(lt, francs) THEN 1 ELSE 0]

\* With a positive subtotal: what the lines paid adds up to the francs
\* collected, and no line is a franc away from its share.
LEMMA PaidAddsUp ==
  ASSUME NEW D, IsFiniteSet(D), D \subseteq Nat, NEW lt \in [D -> Nat],
         NEW francs \in Nat, Subtotal(lt) # 0
  PROVE  \E W \in SUBSET D :
           /\ W = {l \in D : Cardinality(Before(lt, francs, l)) < Leftover(lt, francs)}
           /\ Shares(lt, francs)
                = [l \in D |-> Floor(lt, francs, l) + IF l \in W THEN 1 ELSE 0]
           /\ SumFunction(Shares(lt, francs)) = francs
  <1>1. PICK W : W = {l \in D : Cardinality(Before(lt, francs, l)) < Leftover(lt, francs)}
    OBVIOUS
  <1>2. W \in SUBSET D
    BY <1>1
  <1>3. PICK fl, one, p :
          /\ fl = [l \in D |-> Floor(lt, francs, l)]
          /\ one = [l \in D |-> IF l \in W THEN 1 ELSE 0]
          /\ p = [l \in D |-> Floor(lt, francs, l) + IF l \in W THEN 1 ELSE 0]
    OBVIOUS
  <1>4. DOMAIN lt = D
    OBVIOUS
  <1>5. Shares(lt, francs) = p
    BY <1>1, <1>3, <1>4 DEF Shares
  <1>6. \A l \in D : fl[l] \in Int
    <2> SUFFICES ASSUME NEW l \in D PROVE fl[l] \in Int
      OBVIOUS
    <2>1. PICK a \in Nat : a = lt[l] * francs
      OBVIOUS
    <2>2. Subtotal(lt) \in Nat \ {0}
      BY SumNat DEF Subtotal
    <2>3. a \div Subtotal(lt) \in Nat
      BY <2>2, Division
    <2> QED BY <2>1, <2>3, <1>3 DEF Floor
  <1>7. /\ fl \in [D -> Int] /\ one \in [D -> Int] /\ p \in [D -> Int]
        /\ \A l \in D : p[l] = fl[l] + one[l]
        /\ \A l \in D : one[l] = IF l \in W THEN 1 ELSE 0
    <2>1. fl \in [D -> Int] /\ one \in [D -> Int]
      BY <1>3, <1>6
    <2>2. \A l \in D : p[l] = fl[l] + one[l] /\ one[l] \in Int /\ fl[l] \in Int
      BY <1>3, <1>6
    <2>3. p \in [D -> Int]
      BY <1>3, <2>2
    <2>4. \A l \in D : one[l] = IF l \in W THEN 1 ELSE 0
      BY <1>3
    <2> QED BY <2>1, <2>2, <2>3, <2>4
  <1>8. SumFunction(p) = SumFunction(fl) + SumFunction(one)
    <2>1. \A l \in D : p[l] = fl[l] + one[l]
      BY <1>7
    <2>2. \A f, g, h \in [D -> Int] :
            (\A x \in D : h[x] = f[x] + g[x]) => SumFunction(h) = SumFunction(f) + SumFunction(g)
      BY SumPlus
    <2> QED BY <2>1, <2>2, <1>7, Zenon
  <1>9. SumFunction(one) = Cardinality(W)
    <2>1. \A l \in D : one[l] = IF l \in W THEN 1 ELSE 0
      BY <1>7
    <2>2. one \in [D -> Int]
      BY <1>7
    <2> QED BY <2>1, <2>2, <1>2, SumIndicator, Zenon
  <1>11. Cardinality(W) = Leftover(lt, francs)
    BY <1>1, LeftoverFits, Zenon
  <1>12. Leftover(lt, francs) = francs - SumFunction(fl)
    BY <1>3, <1>4 DEF Leftover
  <1>13. SumFunction(fl) \in Int
    BY <1>7, SumType
  <1>14. SumFunction(p) = francs
    BY <1>8, <1>9, <1>11, <1>12, <1>13
  <1> QED  BY <1>1, <1>2, <1>3, <1>5, <1>14

\* Each line is within a franc of its share, and a dearer line does not pay
\* less than a cheaper one.
LEMMA SharesFair ==
  ASSUME NEW D, IsFiniteSet(D), D \subseteq Nat, NEW lt \in [D -> Nat],
         NEW francs \in Nat, Subtotal(lt) # 0
  PROVE  /\ Shares(lt, francs) \in [D -> Nat]
         /\ SumFunction(Shares(lt, francs)) = francs
         /\ \A l \in D :
              Shares(lt, francs)[l] * Subtotal(lt) - lt[l] * francs
                \in -Subtotal(lt) .. Subtotal(lt)
         /\ \A l, m \in D : lt[l] < lt[m] => Shares(lt, francs)[l] <= Shares(lt, francs)[m]
  <1>d. DOMAIN lt = D
    OBVIOUS
  <1>p. PICK p : p = Shares(lt, francs)
    OBVIOUS
  <1>s. PICK s \in Nat \ {0} : s = Subtotal(lt)
    BY SumNat DEF Subtotal
  <1>1. PICK W \in SUBSET D :
          /\ W = {l \in D : Cardinality(Before(lt, francs, l)) < Leftover(lt, francs)}
          /\ p = [l \in D |-> Floor(lt, francs, l) + IF l \in W THEN 1 ELSE 0]
          /\ SumFunction(p) = francs
    <2>1. \E W \in SUBSET D :
            /\ W = {l \in D : Cardinality(Before(lt, francs, l)) < Leftover(lt, francs)}
            /\ Shares(lt, francs) = [l \in D |-> Floor(lt, francs, l) + IF l \in W THEN 1 ELSE 0]
            /\ SumFunction(Shares(lt, francs)) = francs
      BY PaidAddsUp, Zenon
    <2> QED BY <2>1, <1>p, Zenon
  <1>2. PICK fl, rm : fl = [l \in D |-> Floor(lt, francs, l)]
                      /\ rm = [l \in D |-> Remainder(lt, francs, l)]
    OBVIOUS
  <1>3. ASSUME NEW l \in D
        PROVE  /\ fl[l] \in Nat /\ rm[l] \in Nat /\ rm[l] < s
               /\ lt[l] * francs = s * fl[l] + rm[l]
               /\ p[l] = fl[l] + IF l \in W THEN 1 ELSE 0
               /\ p[l] \in Nat
    <2>1. PICK a \in Nat : a = lt[l] * francs
      OBVIOUS
    <2>2. fl[l] = a \div s /\ rm[l] = a % s
      BY <1>s, <1>2, <2>1 DEF Floor, Remainder
    <2>3. a \div s \in Nat /\ a % s \in Nat /\ a % s < s /\ a = s * (a \div s) + (a % s)
      BY <1>s, Division
    <2>4. p[l] = fl[l] + IF l \in W THEN 1 ELSE 0
      BY <1>1, <1>2
    <2>5. PICK d \in Nat : d = fl[l]
      BY <2>2, <2>3
    <2>6. p[l] \in Nat
      BY <2>4, <2>5
    <2> QED BY <2>1, <2>2, <2>3, <2>4, <2>6
  <1>4. p \in [D -> Nat]
    BY <1>1, <1>3
  <1>5. ASSUME NEW l \in D
        PROVE  p[l] * s - lt[l] * francs \in -s .. s
    <2>1. PICK d, r, i \in Nat :
            d = fl[l] /\ r = rm[l] /\ i = (IF l \in W THEN 1 ELSE 0) /\ i \in 0 .. 1
      BY <1>3
    <2>2. p[l] = d + i /\ lt[l] * francs = s * d + r /\ r < s
      BY <1>3, <2>1
    <2>3. (d + i) * s = s * d + i * s
      OBVIOUS
    <2>4. p[l] * s - lt[l] * francs = i * s - r
      <3>1. PICK x, y \in Nat : x = s * d /\ y = i * s
        OBVIOUS
      <3> QED BY <2>2, <2>3, <3>1
    <2>5. i * s = 0 \/ i * s = s
      BY <2>1
    <2> QED BY <2>1, <2>2, <2>4, <2>5
  <1>6. ASSUME NEW l \in D, NEW m \in D, lt[l] < lt[m]
        PROVE  p[l] <= p[m]
    <2>1. PICK d, e, r, q \in Nat : d = fl[l] /\ e = fl[m] /\ r = rm[l] /\ q = rm[m]
      BY <1>3
    <2>2. /\ lt[l] * francs = s * d + r /\ r < s
          /\ lt[m] * francs = s * e + q /\ q < s
          /\ p[l] = d + IF l \in W THEN 1 ELSE 0
          /\ p[m] = e + IF m \in W THEN 1 ELSE 0
      BY <1>3, <2>1
    <2>3. lt[l] * francs <= lt[m] * francs
      BY <1>6
    <2>4. d <= e
      <3>1. s * d < s * (e + 1)
        <4>1. s * (e + 1) = s * e + s
          OBVIOUS
        <4>2. PICK x, y \in Nat : x = s * d /\ y = s * e
          OBVIOUS
        <4> QED BY <2>2, <2>3, <4>1, <4>2
      <3>2. d < e + 1
        BY <3>1
      <3> QED BY <3>2
    <2>5. CASE d < e
      BY <2>2, <2>5
    <2>6. CASE d = e /\ francs = 0
      <3>1. \A x \in D : fl[x] = 0
        <4> SUFFICES ASSUME NEW x \in D PROVE fl[x] = 0
          OBVIOUS
        <4>1. lt[x] * francs = 0
          BY <2>6
        <4>2. 0 \div s = 0
          BY <1>s, QuotientIs
        <4> QED BY <4>1, <4>2, <1>s, <1>2 DEF Floor
      <3>2. fl = [x \in D |-> 0]
        BY <1>2, <3>1
      <3>3. SumFunction(fl) = 0
        BY <3>2, SumZero
      <3>4. Leftover(lt, francs) = 0
        BY <1>d, <1>2, <2>6, <3>3 DEF Leftover
      <3>5. l \notin W
        <4>1. Cardinality(Before(lt, francs, l)) \in Nat
          <5>1. Before(lt, francs, l) \in SUBSET D
            BY <1>d DEF Before
          <5>2. IsFiniteSet(Before(lt, francs, l))
            BY <5>1, FS_Subset
          <5> QED BY <5>2, FS_CardinalityType
        <4> QED BY <1>1, <3>4, <4>1
      <3> QED BY <2>2, <2>6, <3>5
    <2>7. CASE d = e /\ francs # 0
      <3>1. lt[l] * francs < lt[m] * francs
        BY <1>6, <2>7
      <3>2. r < q
        BY <2>2, <2>7, <3>1
      <3>3. Before(lt, francs, m) \subseteq Before(lt, francs, l)
        <4> SUFFICES ASSUME NEW x \in Before(lt, francs, m)
                     PROVE  x \in Before(lt, francs, l)
          OBVIOUS
        <4>1. x \in D /\ (rm[x] > q \/ (rm[x] = q /\ x < m))
          BY <1>d, <1>2, <2>1 DEF Before
        <4>2. PICK c \in Nat : c = rm[x]
          BY <4>1, <1>3
        <4>3. rm[x] > r
          BY <3>2, <4>1, <4>2
        <4> QED BY <1>d, <1>2, <2>1, <4>1, <4>3 DEF Before
      <3>4. Cardinality(Before(lt, francs, m)) <= Cardinality(Before(lt, francs, l))
            /\ Cardinality(Before(lt, francs, m)) \in Nat
            /\ Cardinality(Before(lt, francs, l)) \in Nat
        <4>1. Before(lt, francs, l) \in SUBSET D
          BY <1>d DEF Before
        <4>2. IsFiniteSet(Before(lt, francs, l))
          BY <4>1, FS_Subset
        <4>3. Before(lt, francs, m) \in SUBSET Before(lt, francs, l)
          BY <3>3
        <4>4. IsFiniteSet(Before(lt, francs, m))
              /\ Cardinality(Before(lt, francs, m)) <= Cardinality(Before(lt, francs, l))
          BY <4>2, <4>3, FS_Subset
        <4> QED BY <4>2, <4>4, FS_CardinalityType
      <3>5. Leftover(lt, francs) \in Nat
        <4>2. Leftover(lt, francs) \in 0 .. Cardinality(D)
          BY LeftoverFits
        <4>3. Cardinality(D) \in Nat
          BY FS_CardinalityType
        <4> QED BY <4>2, <4>3
      <3>6. l \in W => m \in W
        <4>1. l \in W => Cardinality(Before(lt, francs, l)) < Leftover(lt, francs)
          BY <1>1
        <4>2. Cardinality(Before(lt, francs, m)) < Leftover(lt, francs) => m \in W
          BY <1>1
        <4> QED BY <3>4, <3>5, <4>1, <4>2
      <3> QED BY <2>2, <2>7, <3>6
    <2> QED BY <2>4, <2>5, <2>6, <2>7
  <1> QED BY <1>p, <1>s, <1>1, <1>4, <1>5, <1>6

\* The result of AllocatePaid, whatever the subtotal.
LEMMA AllocationCorrect ==
  ASSUME NEW D, IsFiniteSet(D), D \subseteq Nat, NEW lt \in [D -> Nat],
         NEW t \in Nat, Subtotal(lt) = 0 => t <= 1,
         NEW francs \in Nat, francs = t \div Cents,
         NEW s \in Nat, s = Subtotal(lt)
  PROVE  /\ AllocatePaid(lt, t) \in [D -> Nat]
         /\ SumFunction(AllocatePaid(lt, t)) = francs
         /\ \A l \in D : AllocatePaid(lt, t)[l] * s - lt[l] * francs \in -s .. s
         /\ \A l, m \in D : lt[l] < lt[m] => AllocatePaid(lt, t)[l] <= AllocatePaid(lt, t)[m]
  <1>0. DOMAIN lt = D
    OBVIOUS
  <1>1. PICK p : p = AllocatePaid(lt, t)
    OBVIOUS
  <1>2. CASE s = 0
    <2>1. p = [l \in D |-> 0]
      BY <1>0, <1>1, <1>2 DEF AllocatePaid
    <2>2. francs = 0
      <3>1. t <= 1
        BY <1>2
      <3>2. t \div Cents = 0
        BY <3>1, QuotientIs DEF Cents
      <3> QED BY <3>2
    <2>3. SumFunction(p) = 0
      BY <2>1, SumZero
    <2>4. \A l \in D : p[l] * s - lt[l] * francs \in -s .. s
      BY <1>2, <2>1, <2>2
    <2> QED BY <1>1, <2>1, <2>2, <2>3, <2>4
  <1>3. CASE s # 0
    <2>1. Subtotal(lt) # 0
      BY <1>3
    <2>2. p = Shares(lt, francs)
      BY <1>0, <1>1, <2>1 DEF AllocatePaid, Shares
    <2>3. /\ Shares(lt, francs) \in [D -> Nat]
          /\ SumFunction(Shares(lt, francs)) = francs
          /\ \A l \in D :
               Shares(lt, francs)[l] * Subtotal(lt) - lt[l] * francs
                 \in -Subtotal(lt) .. Subtotal(lt)
          /\ \A l, m \in D : lt[l] < lt[m] => Shares(lt, francs)[l] <= Shares(lt, francs)[m]
      BY <2>1, SharesFair
    <2> QED BY <1>1, <2>2, <2>3
  <1> QED  BY <1>2, <1>3

\* What the lines paid are francs.
LEMMA PaidType ==
  ASSUME NEW lt \in [Items -> Nat], NEW t \in Nat, Subtotal(lt) = 0 => t <= 1
  PROVE  AllocatePaid(lt, t) \in [Items -> Nat]
  <1>1. PICK francs \in Nat : francs = t \div Cents
    BY Division DEF Cents
  <1>2. PICK s \in Nat : s = Subtotal(lt)
    BY RefundAssumption, SumNat DEF Subtotal
  <1> QED  BY <1>1, <1>2, RefundAssumption, AllocationCorrect

-----------------------------------------------------------------------------
(* Sequences of returns.                                                   *)

\* The inductive invariant: what has been refunded for a line is what is due
\* for the units that are back, however they came back.
RefundInv ==
  /\ lineTotal \in [Items -> Nat] /\ sold \in [Items -> Nat \ {0}]
  /\ total \in Nat /\ (Subtotal(lineTotal) = 0 => total <= 1)
  /\ paid = AllocatePaid(lineTotal, total)
  /\ returned \in [Items -> Nat] /\ \A l \in Items : returned[l] <= sold[l]
  /\ refunded = [l \in Items |-> Due(paid[l], sold[l], returned[l])]

\* A sale that validate_sale lets in has a total that can be allocated.
LEMMA RefundInit == SequenceInit => RefundInv
  <1> SUFFICES ASSUME SequenceInit PROVE RefundInv
    OBVIOUS
  <1>1. lineTotal \in [Items -> Nat] /\ sold \in [Items -> Nat \ {0}]
    BY RefundAssumption DEF SequenceInit
  <1>2. PICK d \in Discounts, off \in -Tolerance .. Tolerance :
          total = Subtotal(lineTotal) - d + off /\ ValidTotal(total, d)
    BY DEF SequenceInit
  <1>3. total \in Nat /\ d \in Nat /\ d <= Subtotal(lineTotal) /\ off \in -1 .. 1
    BY <1>2, RefundAssumption DEF ValidTotal, Tolerance
  <1>4. Subtotal(lineTotal) = 0 => total <= 1
    BY <1>2, <1>3
  <1>5. paid = AllocatePaid(lineTotal, total) /\ returned = [l \in Items |-> 0]
        /\ refunded = [l \in Items |-> 0]
    BY DEF SequenceInit
  <1>6. returned \in [Items -> Nat] /\ \A l \in Items : returned[l] <= sold[l]
    BY <1>1, <1>5
  <1>7. paid \in [Items -> Nat]
    BY <1>1, <1>3, <1>4, <1>5, PaidType
  <1>8. \A l \in Items : Due(paid[l], sold[l], returned[l]) = 0
    BY <1>1, <1>5, <1>7, DueBetween
  <1>9. refunded = [l \in Items |-> Due(paid[l], sold[l], returned[l])]
    BY <1>5, <1>8
  <1> QED  BY <1>1, <1>3, <1>4, <1>5, <1>6, <1>9 DEF RefundInv

\* A return refunds what the units it brings back add to what is due.
LEMMA RefundStep == RefundInv /\ [SequenceNext]_sequenceVars => RefundInv'
  <1> SUFFICES ASSUME RefundInv, [SequenceNext]_sequenceVars PROVE RefundInv'
    OBVIOUS
  <1>1. CASE UNCHANGED sequenceVars
    BY <1>1 DEF RefundInv, sequenceVars
  <1>2. ASSUME NEW l \in Items, NEW q \in 1 .. sold[l], ReturnUnits(l, q)
        PROVE  RefundInv'
    <2>1. lineTotal' = lineTotal /\ sold' = sold /\ total' = total /\ paid' = paid
      BY <1>2 DEF ReturnUnits
    <2>2. /\ lineTotal \in [Items -> Nat] /\ sold \in [Items -> Nat \ {0}]
          /\ total \in Nat /\ (Subtotal(lineTotal) = 0 => total <= 1)
          /\ paid = AllocatePaid(lineTotal, total)
          /\ returned \in [Items -> Nat] /\ \A m \in Items : returned[m] <= sold[m]
          /\ refunded = [m \in Items |-> Due(paid[m], sold[m], returned[m])]
      BY DEF RefundInv
    <2>3. paid \in [Items -> Nat]
      BY <2>2, PaidType
    <2>4. PICK n : n = returned[l] + q
      OBVIOUS
    <2>5. n \in 0 .. sold[l] /\ n \in Nat
      BY <1>2, <2>2, <2>4 DEF ReturnUnits
    <2>6. returned' = [returned EXCEPT ![l] = n]
      BY <1>2, <2>4 DEF ReturnUnits
    <2>7. returned' \in [Items -> Nat] /\ \A m \in Items : returned'[m] <= sold[m]
      BY <2>2, <2>5, <2>6
    <2>8. PICK a, b, c \in Int :
            a = Due(paid[l], sold[l], returned[l]) /\ b = Due(paid[l], sold[l], n)
            /\ c = RefundFor(paid[l], sold[l], returned[l], q) /\ c = b - a
      <3>1. paid[l] \in Nat /\ sold[l] \in Nat \ {0} /\ returned[l] \in 0 .. sold[l]
        BY <2>2, <2>3
      <3>2. Due(paid[l], sold[l], returned[l]) \in Int /\ Due(paid[l], sold[l], n) \in Int
        <4>1. Due(paid[l], sold[l], returned[l]) \in 0 .. paid[l]
          BY <3>1, DueBetween
        <4>2. Due(paid[l], sold[l], n) \in 0 .. paid[l]
          BY <3>1, <2>5, DueBetween
        <4> QED BY <3>1, <4>1, <4>2
      <3>3. RefundFor(paid[l], sold[l], returned[l], q)
              = Due(paid[l], sold[l], n) - Due(paid[l], sold[l], returned[l])
        BY <2>4 DEF RefundFor
      <3> QED BY <3>2, <3>3
    <2>9. refunded[l] = a
      BY <2>2, <2>8
    <2>10. refunded' = [refunded EXCEPT ![l] = b]
      <3>1. refunded' = [refunded EXCEPT ![l] = refunded[l] + c]
        BY <1>2, <2>8 DEF ReturnUnits
      <3>2. a + c = b
        BY <2>8
      <3> QED BY <2>9, <3>1, <3>2
    <2>11. refunded' = [m \in Items |-> Due(paid[m], sold[m], returned'[m])]
      <3>1. returned'[l] = n /\ \A m \in Items \ {l} : returned'[m] = returned[m]
        BY <2>2, <2>6
      <3> QED BY <2>2, <2>8, <2>10, <3>1
    <2> QED BY <2>1, <2>2, <2>7, <2>11 DEF RefundInv
  <1> QED  BY <1>1, <1>2 DEF SequenceNext

\* The invariant gives every part of the property.
LEMMA RefundImplied == RefundInv => RefundsAddUp
  <1> SUFFICES ASSUME RefundInv PROVE RefundsAddUp
    OBVIOUS
  <1>1. /\ lineTotal \in [Items -> Nat] /\ sold \in [Items -> Nat \ {0}]
        /\ total \in Nat /\ (Subtotal(lineTotal) = 0 => total <= 1)
        /\ paid = AllocatePaid(lineTotal, total)
        /\ returned \in [Items -> Nat] /\ \A m \in Items : returned[m] <= sold[m]
        /\ refunded = [m \in Items |-> Due(paid[m], sold[m], returned[m])]
    BY DEF RefundInv
  <1>2. PICK francs \in Nat : francs = total \div Cents
    BY <1>1, Division DEF Cents
  <1>3. PICK s \in Nat : s = Subtotal(lineTotal)
    BY <1>1, RefundAssumption, SumNat DEF Subtotal
  <1>4. /\ paid \in [Items -> Nat]
        /\ SumFunction(paid) = francs
        /\ \A l \in Items : paid[l] * s - lineTotal[l] * francs \in -s .. s
        /\ \A l, m \in Items : lineTotal[l] < lineTotal[m] => paid[l] <= paid[m]
    BY <1>1, <1>2, <1>3, RefundAssumption, AllocationCorrect
  <1>5. AllocationIsFair
    BY <1>2, <1>3, <1>4 DEF AllocationIsFair
  <1>6. ASSUME NEW l \in Items
        PROVE  /\ refunded[l] \in 0 .. paid[l]
               /\ returned[l] = sold[l] => refunded[l] = paid[l]
    <2>1. paid[l] \in Nat /\ sold[l] \in Nat \ {0} /\ returned[l] \in 0 .. sold[l]
      BY <1>1, <1>4
    <2>2. refunded[l] = Due(paid[l], sold[l], returned[l])
      BY <1>1
    <2>3. Due(paid[l], sold[l], returned[l]) \in 0 .. paid[l]
          /\ Due(paid[l], sold[l], sold[l]) = paid[l]
      BY <2>1, DueBetween
    <2> QED BY <2>2, <2>3
  <1>7. returned = sold => SumFunction(refunded) = francs
    <2> SUFFICES ASSUME returned = sold PROVE SumFunction(refunded) = francs
      OBVIOUS
    <2>1. \A l \in Items : refunded[l] = paid[l]
      BY <1>6
    <2>2. refunded = paid
      BY <1>1, <1>4, <2>1
    <2> QED BY <1>4, <2>2
  <1> QED  BY <1>2, <1>5, <1>6, <1>7 DEF RefundsAddUp

\* What is refunded for a line is what is due for the units that are back, in
\* every state, so that the order and the size of the returns do not matter
\* (refund_for's cumulative formula).
THEOREM RefundsCorrect == SequenceSpec => []RefundInv
  <1> QED  BY RefundInit, RefundStep, PTL DEF SequenceSpec

\* refund.py, rules 1 and 2: the francs collected are shared out exactly, each
\* line within a franc of its share; a line never refunds more than it paid,
\* refunds all of it once all its units are back, and a sale that has come back
\* whole is refunded exactly what was collected.
THEOREM RefundsExact == SequenceSpec => []RefundsAddUp
  <1> QED  BY RefundsCorrect, RefundImplied, PTL
=============================================================================
