--------------------------- MODULE SalePushProofs ---------------------------
(***************************************************************************)
(* Proofs about SalePush, for any number of sales, devices, sessions and   *)
(* products and any bounds on the faults.                                  *)
(***************************************************************************)
EXTENDS SalePush, FiniteSetTheorems, TLAPS

\* While a sale is processed there is a current sale, and the lines still to
\* track are lines of that sale.
JobOK ==
  \A s \in Sessions :
    pc[s] \in {"look", "insert", "track", "update"} =>
      /\ job[s].batch # <<>>
      /\ pc[s] \in {"insert", "track", "update"} => job[s].lines \subseteq DOMAIN Items[Current(s)]

TypeInv == TypeOK /\ JobOK

-----------------------------------------------------------------------------
(* Lemmas about the helpers *)

LEMMA NoWritesType == NoWrites \in Txn
  BY DEF NoWrites, Txn

LEMMA NoJobType == NoJob \in Job
  BY DEF NoJob, NewJob, Job

\* A non-empty outbox has orders, all of them non-empty sequences of its sales.
LEMMA OrdersType ==
  ASSUME NEW S \in SUBSET Sales, S # {}, NEW b \in Orders(S)
  PROVE  b \in Seq(S) /\ b # <<>>
  <1>1. IsFiniteSet(S)
    BY SalePushAssumption, FS_Subset
  <1>2. Cardinality(S) \in Nat /\ Cardinality(S) # 0
    BY <1>1, FS_CardinalityType, FS_EmptySet
  <1>3. b \in [1..Cardinality(S) -> S]
    BY DEF Orders
  <1>4. b \in Seq(S) /\ Len(b) = Cardinality(S)
    BY <1>2, <1>3
  <1>. QED
    BY <1>2, <1>4

LEMMA CurrentType ==
  ASSUME NEW s \in Sessions, job \in [Sessions -> Job], job[s].batch # <<>>
  PROVE  Current(s) \in Sales /\ Tail(job[s].batch) \in Seq(Sales)
  BY DEF Current, Job

\* The updates of one field of a job.
LEMMA JobUpdate ==
  ASSUME NEW r \in Job, NEW n \in Nat, NEW L \in SUBSET Nat
  PROVE  /\ [r EXCEPT !.number = n] \in Job
         /\ [r EXCEPT !.number = n].batch = r.batch
         /\ [r EXCEPT !.number = n].lines = r.lines
         /\ [r EXCEPT !.lines = L] \in Job
         /\ [r EXCEPT !.lines = L].batch = r.batch
         /\ [r EXCEPT !.lines = L].lines = L
         /\ [r EXCEPT !.dead = TRUE] \in Job
         /\ [r EXCEPT !.dead = TRUE].batch = r.batch
         /\ [r EXCEPT !.dead = TRUE].lines = r.lines
  <1>1. /\ [r EXCEPT !.number = n] \in Job
        /\ [r EXCEPT !.lines = L] \in Job
        /\ [r EXCEPT !.dead = TRUE] \in Job
    BY DEF Job
  <1>. QED
    BY <1>1 DEF Job

\* A session whose job is replaced by one of the same batch keeps JobOK if the
\* lines of the new job are lines of its sale.
LEMMA JobKept ==
  ASSUME TypeInv, NEW s \in Sessions, job[s].batch # <<>>,
         NEW r \in Job, r.batch = job[s].batch, job' = [job EXCEPT ![s] = r],
         NEW step \in Steps, pc' = [pc EXCEPT ![s] = step],
         step \in {"insert", "track", "update"} => r.lines \subseteq DOMAIN Items[Current(s)]
  PROVE  JobOK' /\ job' \in [Sessions -> Job] /\ pc' \in [Sessions -> Steps]
  <1>1. \A t \in Sessions \ {s} : job'[t] = job[t] /\ pc'[t] = pc[t]
    BY DEF TypeInv, TypeOK
  <1>2. job'[s] = r /\ pc'[s] = step
    BY DEF TypeInv, TypeOK
  <1>3. \A t \in Sessions : job'[t].batch = job[t].batch
    BY <1>1, <1>2
  <1>. QED
    BY <1>1, <1>2, <1>3 DEF TypeInv, TypeOK, JobOK, Current

\* Giving the session other lines of its sale to track.
LEMMA LinesSet ==
  ASSUME TypeInv, NEW s \in Sessions, job[s].batch # <<>>,
         NEW L \in SUBSET Nat, L \subseteq DOMAIN Items[Current(s)],
         job' = [job EXCEPT ![s].lines = L],
         NEW step \in Steps, pc' = [pc EXCEPT ![s] = step]
  PROVE  JobOK' /\ job' \in [Sessions -> Job] /\ pc' \in [Sessions -> Steps]
  <1> DEFINE r == [job[s] EXCEPT !.lines = L]
  <1>1. job[s] \in Job
    BY DEF TypeInv, TypeOK
  <1>2. r \in Job /\ r.batch = job[s].batch /\ r.lines = L
    BY <1>1, JobUpdate
  <1>3. job' = [job EXCEPT ![s] = r]
    OBVIOUS
  <1> HIDE DEF r
  <1>. QED
    BY <1>2, <1>3, JobKept

LEMMA LineDropped ==
  ASSUME TypeInv, NEW s \in Sessions, job[s].batch # <<>>, NEW i,
         job' = [job EXCEPT ![s].lines = @ \ {i}], pc' = [pc EXCEPT ![s] = "track"],
         job[s].lines \subseteq DOMAIN Items[Current(s)]
  PROVE  JobOK' /\ job' \in [Sessions -> Job] /\ pc' \in [Sessions -> Steps]
  <1> DEFINE L == job[s].lines \ {i}
  <1>1. L \in SUBSET Nat /\ L \subseteq DOMAIN Items[Current(s)]
    BY DEF TypeInv, TypeOK, Job
  <1>2. job' = [job EXCEPT ![s].lines = L]
    OBVIOUS
  <1> HIDE DEF L
  <1>. QED
    BY <1>1, <1>2, LinesSet DEF Steps

LEMMA CountUp ==
  ASSUME NEW S, NEW f \in [S -> Nat], NEW e
  PROVE  [f EXCEPT ![e] = @ + 1] \in [S -> Nat]
  <1>1. CASE e \in S
    <2>1. f[e] + 1 \in Nat
      BY <1>1
    <2>. QED
      BY <2>1
  <1>2. CASE e \notin S
    <2>1. [f EXCEPT ![e] = @ + 1] = f
      BY <1>2, Zenon
    <2>. QED
      BY <2>1
  <1>. QED
    BY <1>1, <1>2

\* Counting one more fault within its bound.
LEMMA FaultCounted ==
  ASSUME NEW f \in Faults
  PROVE  /\ f.timeout < MaxTimeouts => [f EXCEPT !.timeout = @ + 1] \in Faults
         /\ f.crash < MaxCrashes => [f EXCEPT !.crash = @ + 1] \in Faults
         /\ f.detach < MaxDetaches => [f EXCEPT !.detach = @ + 1] \in Faults
         /\ f.failure < MaxFailures => [f EXCEPT !.failure = @ + 1] \in Faults
  <1>0. /\ f.timeout \in Nat /\ f.crash \in Nat /\ f.detach \in Nat /\ f.failure \in Nat
        /\ MaxTimeouts \in Nat /\ MaxCrashes \in Nat /\ MaxDetaches \in Nat
        /\ MaxFailures \in Nat
    BY SalePushAssumption DEF Faults
  <1>1. /\ f.timeout < MaxTimeouts => f.timeout + 1 \in 0..MaxTimeouts
        /\ f.crash < MaxCrashes => f.crash + 1 \in 0..MaxCrashes
        /\ f.detach < MaxDetaches => f.detach + 1 \in 0..MaxDetaches
        /\ f.failure < MaxFailures => f.failure + 1 \in 0..MaxFailures
    BY <1>0
  <1>2. /\ f.timeout < MaxTimeouts => [f EXCEPT !.timeout = @ + 1] \in Faults
        /\ f.crash < MaxCrashes => [f EXCEPT !.crash = @ + 1] \in Faults
    BY <1>1 DEF Faults
  <1>3. /\ f.detach < MaxDetaches => [f EXCEPT !.detach = @ + 1] \in Faults
        /\ f.failure < MaxFailures => [f EXCEPT !.failure = @ + 1] \in Faults
    BY <1>1 DEF Faults
  <1>. QED
    BY <1>2, <1>3

LEMMA CountedType ==
  ASSUME NEW s \in Sessions, txn \in [Sessions -> Txn], NEW rows \in [Sales -> Nat]
  PROVE  Counted(s, rows) \in Txn
  BY DEF Counted, Txn, Rows

LEMMA SeenType ==
  ASSUME NEW s \in Sessions, NEW x \in Sales, TypeOK
  PROVE  Seen(s, x) \in Nat
  BY DEF Seen, TypeOK, Txn

\* Going on with the next sale keeps the types.
LEMMA NextSaleType ==
  ASSUME TypeInv, NEW s \in Sessions, job[s].batch # <<>>,
         NEW acks \in SUBSET (Sales \X Nat), NextSale(s, acks)
  PROVE  /\ job' \in [Sessions -> Job]
         /\ pc' \in [Sessions -> Steps]
         /\ pc'[s] \in {"look", "respond"}
         /\ pc'[s] = "look" => job'[s].batch # <<>>
         /\ \A t \in Sessions \ {s} : pc'[t] = pc[t] /\ job'[t] = job[t]
  <1>1. Tail(job[s].batch) \in Seq(Sales)
    BY CurrentType DEF TypeInv, TypeOK
  <1>2. NewJob(Tail(job[s].batch), job[s].nested, job[s].acks \cup acks) \in Job
    BY <1>1 DEF TypeInv, TypeOK, NewJob, Job
  <1>. QED
    BY <1>1, <1>2 DEF TypeInv, TypeOK, NextSale, Steps, NewJob
-----------------------------------------------------------------------------
(* Type correctness *)

LEMMA InitType == Init => TypeInv
  BY NoWritesType, NoJobType, SalePushAssumption
  DEF Init, TypeInv, TypeOK, JobOK, Steps, Faults, FirstReceipt

\* The sale part of a request.
LEMMA SaleStepType ==
  ASSUME TypeInv, NEW s \in Sessions,
         \/ Look(s) \/ InsertSale(s) \/ TrackLine(s) \/ UpdateStock(s)
         \/ DeadlockFailsUpdate(s) \/ FinishSale(s)
  PROVE  TypeInv'
  <1> USE DEF TypeInv
  <1>0. pc[s] \in {"look", "insert", "track", "update"}
    BY DEF Look, InsertSale, TrackLine, UpdateStock, DeadlockFailsUpdate, Deadlocked, FinishSale
  <1>1. /\ job[s].batch # <<>>
        /\ job[s] \in Job
        /\ txn[s] \in Txn
        /\ Current(s) \in Sales
    BY <1>0, CurrentType DEF TypeOK, JobOK
  <1>2. CASE Look(s)
    <2>1. CASE Seen(s, Current(s)) # 0
      <3>1. NextSale(s, {<<Current(s), Seen(s, Current(s))>>})
        BY <1>2, <2>1 DEF Look
      <3>2. {<<Current(s), Seen(s, Current(s))>>} \in SUBSET (Sales \X Nat)
        BY <1>1, SeenType
      <3>. QED
        BY <1>0, <1>1, <1>2, <3>1, <3>2, NextSaleType, ZenonT(30)
        DEF Look, TypeOK, JobOK, Current, db, client
    <2>2. CASE Seen(s, Current(s)) = 0
      <3>1. Items[Current(s)] \in Seq(Products)
        BY <1>1, SalePushAssumption
      <3>2. {i \in DOMAIN Items[Current(s)] : Items[Current(s)][i] \in live} \in SUBSET Nat
        BY <3>1
      <3>3. job' = [job EXCEPT ![s].lines =
                      {i \in DOMAIN Items[Current(s)] : Items[Current(s)][i] \in live}]
        BY <1>2, <2>2 DEF Look
      <3>4. pc' = [pc EXCEPT ![s] = "insert"] /\ saved' = [saved EXCEPT ![s] = txn[s]]
        BY <1>2, <2>2 DEF Look
      <3>5. JobOK' /\ job' \in [Sessions -> Job] /\ pc' \in [Sessions -> Steps]
        <4> DEFINE L == {i \in DOMAIN Items[Current(s)] : Items[Current(s)][i] \in live}
        <4>1. L \subseteq DOMAIN Items[Current(s)] /\ L \in SUBSET Nat
          BY <3>2
        <4> HIDE DEF L
        <4>2. job' = [job EXCEPT ![s].lines = L]
          BY <3>3 DEF L
        <4>. QED
          BY <1>1, <3>4, <4>1, <4>2, LinesSet DEF Steps
      <3>. QED
        BY <1>1, <1>2, <3>4, <3>5 DEF Look, TypeOK, db, client
    <2>. QED
      BY <2>1, <2>2
  <1>3. CASE InsertSale(s)
    <2> DEFINE number == next + txn[s].taken
    <2>1. number \in Nat /\ WithRow(s, number) \in [Sales -> Nat] /\ txn[s].rows \in [Sales -> Nat]
      BY <1>1 DEF TypeOK, Txn, WithRow
    <2>2. UNCHANGED <<db, detach, saved, client, faults>>
      BY <1>3 DEF InsertSale
    <2>3. CASE receipt[Current(s)] # 0
      <3>1. NextSale(s, {<<Current(s), receipt[Current(s)]>>}) /\ txn' = [txn EXCEPT ![s] = Counted(s, txn[s].rows)]
        BY <1>3, <2>3 DEF InsertSale, OnConflict
      <3>2. {<<Current(s), receipt[Current(s)]>>} \in SUBSET (Sales \X Nat)
        BY <1>1 DEF TypeOK
      <3>3. txn' \in [Sessions -> Txn]
        BY <2>1, <3>1, CountedType DEF TypeOK
      <3>. QED
        BY <1>1, <2>2, <3>1, <3>2, <3>3, NextSaleType DEF TypeOK, JobOK, Current, db, client
    <2>4. CASE receipt[Current(s)] = 0
      <3>1. /\ txn' = [txn EXCEPT ![s] = Counted(s, WithRow(s, number))]
            /\ job' = [job EXCEPT ![s].number = number]
            /\ pc' = [pc EXCEPT ![s] = "track"]
        BY <1>3, <2>4 DEF InsertSale
      <3>2. txn' \in [Sessions -> Txn]
        BY <2>1, <3>1, CountedType DEF TypeOK
      <3>3. JobOK' /\ job' \in [Sessions -> Job] /\ pc' \in [Sessions -> Steps]
        <4>1. job[s].lines \in SUBSET Nat /\ job[s].lines \subseteq DOMAIN Items[Current(s)]
          BY <1>1, <1>3 DEF InsertSale, JobOK, Job
        <4> DEFINE r == [job[s] EXCEPT !.number = number]
        <4>2. r \in Job /\ r.batch = job[s].batch /\ r.lines = job[s].lines
          BY <1>1, <2>1, <4>1, JobUpdate
        <4>3. job' = [job EXCEPT ![s] = r]
          BY <3>1
        <4> HIDE DEF r
        <4>. QED
          BY <1>1, <3>1, <4>1, <4>2, <4>3, JobKept DEF Steps
      <3>. QED
        BY <2>2, <3>1, <3>2, <3>3 DEF TypeOK, db, client
    <2>. QED
      BY <2>3, <2>4
  <1>4. CASE TrackLine(s)
    <2>1. UNCHANGED <<db, detach, txn, saved, client, faults>>
      BY <1>4 DEF TrackLine
    <2>2. job[s].lines \in SUBSET Nat /\ job[s].lines \subseteq DOMAIN Items[Current(s)]
      BY <1>1, <1>4 DEF TrackLine, JobOK, Job
    <2>3. CASE pc' = [pc EXCEPT ![s] = "update"] /\ UNCHANGED job
      BY <1>1, <2>1, <2>2, <2>3 DEF TypeOK, JobOK, Current, Steps, db, client
    <2>4. ASSUME NEW i \in job[s].lines, job' = [job EXCEPT ![s].lines = @ \ {i}], UNCHANGED pc
          PROVE  TypeInv'
      <3>1. pc' = [pc EXCEPT ![s] = "track"]
        BY <1>4, <2>4 DEF TrackLine, TypeOK
      <3>2. JobOK' /\ job' \in [Sessions -> Job] /\ pc' \in [Sessions -> Steps]
        BY <1>1, <2>2, <2>4, <3>1, LineDropped
      <3>. QED
        BY <2>1, <3>2 DEF TypeOK, db, client
    <2>. QED
      BY <1>4, <2>3, <2>4 DEF TrackLine
  <1>5. CASE UpdateStock(s)
    <2>1. UNCHANGED <<db, detach, saved, client, faults>> /\ pc' = [pc EXCEPT ![s] = "track"]
      BY <1>5 DEF UpdateStock
    <2>2. PICK i \in job[s].lines :
            /\ txn' = [txn EXCEPT ![s] =
                 [rows  |-> txn[s].rows,
                  taken |-> txn[s].taken,
                  moves |-> [txn[s].moves EXCEPT ![<<Current(s), i>>] = @ + 1],
                  locks |-> txn[s].locks \cup {Items[Current(s)][i]}]]
            /\ job' = [job EXCEPT ![s].lines = @ \ {i}]
      BY <1>5 DEF UpdateStock
    <2>3. Items[Current(s)][i] \in Rows
      <3>1. i \in DOMAIN Items[Current(s)]
        BY <1>5, <2>2 DEF JobOK, UpdateStock
      <3>. QED
        BY <1>1, <3>1, SalePushAssumption DEF Rows
    <2>4. txn' \in [Sessions -> Txn]
      <3>1. [txn[s].moves EXCEPT ![<<Current(s), i>>] = @ + 1] \in [Lines -> Nat]
        <4>1. txn[s].moves \in [Lines -> Nat]
          BY <1>1 DEF Txn
        <4>. QED
          BY <4>1, CountUp
      <3>. QED
        BY <1>1, <2>2, <2>3, <3>1 DEF TypeOK, Txn
    <2>5. job[s].lines \subseteq DOMAIN Items[Current(s)]
      BY <1>5 DEF UpdateStock, JobOK
    <2>6. JobOK' /\ job' \in [Sessions -> Job] /\ pc' \in [Sessions -> Steps]
      BY <1>1, <2>1, <2>2, <2>5, LineDropped
    <2>. QED
      BY <2>1, <2>4, <2>6 DEF TypeOK, db, client
  <1>6. CASE DeadlockFailsUpdate(s)
    <2>1. /\ UNCHANGED <<db, detach, saved, client, faults>>
          /\ pc' = [pc EXCEPT ![s] = "track"]
          /\ pc[s] = "update"
          /\ txn' = [txn EXCEPT ![s] = saved[s]]
          /\ job' = [job EXCEPT ![s].dead = TRUE]
      BY <1>6 DEF DeadlockFailsUpdate, Deadlocked, RolledBack
    <2>2. job[s].lines \in SUBSET Nat /\ job[s].lines \subseteq DOMAIN Items[Current(s)]
      BY <1>1, <2>1 DEF JobOK, Job
    <2>3. JobOK' /\ job' \in [Sessions -> Job] /\ pc' \in [Sessions -> Steps]
      BY <1>1, <2>1, <2>2, JobUpdate, JobKept, ZenonT(30) DEF Steps
    <2>. QED
      BY <2>1, <2>3 DEF TypeOK, db, client
  <1>7. CASE FinishSale(s)
    <2>1. PICK acks \in SUBSET (Sales \X Nat) : NextSale(s, acks)
      <3>1. {<<Current(s), job[s].number>>} \in SUBSET (Sales \X Nat)
        BY <1>1 DEF Job
      <3>. QED
        BY <1>7, <3>1 DEF FinishSale
    <2>. QED
      BY <1>1, <1>7, <2>1, NextSaleType DEF FinishSale, TypeOK, JobOK, Current, db, client
  <1>. QED
    BY <1>2, <1>3, <1>4, <1>5, <1>6, <1>7

\* A sale that fails, and its batch that goes on.
LEMMA FailedSaleType ==
  ASSUME TypeInv, NEW s \in Sessions, SaleFails(s)
  PROVE  TypeInv'
  <1>1. /\ pc[s] = "insert" /\ UNCHANGED <<db, detach, saved, client>>
        /\ txn' = [txn EXCEPT ![s] = saved[s]] /\ NextSale(s, {})
    BY DEF SaleFails, RolledBack
  <1>2. faults' \in Faults
    BY FaultCounted DEF SaleFails, TypeInv, TypeOK
  <1>3. {} \in SUBSET (Sales \X Nat) /\ job[s].batch # <<>>
    BY <1>1 DEF TypeInv, JobOK
  <1>. QED
    BY <1>1, <1>2, <1>3, NextSaleType DEF TypeInv, TypeOK, JobOK, Current, db, client

\* Requests: sent, answered, committed, lost.
LEMMA RequestStepType ==
  ASSUME TypeInv, NEW s \in Sessions,
         \/ \E d \in Devices : Send(d, s)
         \/ Respond(s) \/ Commit(s) \/ Crash(s) \/ LoseConnection(s)
  PROVE  TypeInv'
  <1> USE DEF TypeInv
  <1>1. ASSUME NEW d \in Devices, Send(d, s)
        PROVE  TypeInv'
    <2>1. PICK nested \in BOOLEAN :
            \E batch \in IF nested THEN Orders(queue[d]) ELSE {<<x>> : x \in queue[d]} :
              job' = [job EXCEPT ![s] = NewJob(batch, nested, {})]
      BY <1>1 DEF Send
    <2>2. PICK batch \in IF nested THEN Orders(queue[d]) ELSE {<<x>> : x \in queue[d]} :
            job' = [job EXCEPT ![s] = NewJob(batch, nested, {})]
      BY <2>1
    <2>3. queue[d] \in SUBSET Sales /\ queue[d] # {}
      BY <1>1 DEF Send, TypeOK
    <2>4. batch \in Seq(Sales) /\ batch # <<>>
      <3>1. CASE nested
        <4>1. batch \in Seq(queue[d]) /\ batch # <<>>
          BY <2>3, <3>1, OrdersType
        <4>. QED
          BY <2>3, <4>1
      <3>2. CASE ~nested
        <4>1. PICK x \in queue[d] : batch = <<x>>
          BY <3>2
        <4>. QED
          BY <2>3, <4>1
      <3>. QED
        BY <3>1, <3>2
    <2>5. NewJob(batch, nested, {}) \in Job /\ NewJob(batch, nested, {}).batch = batch
      BY <2>4 DEF NewJob, Job
    <2>6. pc' = [pc EXCEPT ![s] = "look"]
      BY <1>1 DEF Send
    <2>7. job' \in [Sessions -> Job] /\ pc' \in [Sessions -> Steps]
      BY <2>2, <2>5, <2>6 DEF TypeOK, Steps
    <2>8. JobOK'
      BY <2>2, <2>4, <2>5, <2>6 DEF TypeOK, JobOK, Current
    <2>. QED
      BY <1>1, <2>7, <2>8 DEF Send, TypeOK, db
  <1>2. CASE Respond(s)
    <2> DEFINE acked == {a[1] : a \in job[s].acks}
               answer(x) == (CHOOSE a \in job[s].acks : a[1] = x)[2]
    <2>1. \A a \in job[s].acks : a[2] \in Nat
      BY DEF TypeOK, Job
    <2>2. \A x \in acked : answer(x) \in Nat
      BY <2>1
    <2>3. told' \in [Sales -> Nat]
      BY <1>2, <2>2 DEF Respond, TypeOK
    <2>4. queue' \in [Devices -> SUBSET Sales] /\ waiting' \in [Devices -> Sessions \cup {None}]
      BY <1>2 DEF Respond, TypeOK
    <2>5. pc' \in [Sessions -> Steps] /\ JobOK'
      BY <1>2 DEF Respond, TypeOK, JobOK, Current, Steps
    <2>. QED
      BY <1>2, <2>3, <2>4, <2>5 DEF Respond, TypeOK, db
  <1>3. ASSUME Close(s)
        PROVE  /\ pc' \in [Sessions -> Steps] /\ job' \in [Sessions -> Job] /\ JobOK'
               /\ txn' \in [Sessions -> Txn] /\ saved' \in [Sessions -> Txn]
    BY <1>3, NoJobType, NoWritesType DEF Close, TypeOK, JobOK, Current, Steps
  <1>4. CASE Commit(s)
    <2>1. receipt' \in [Sales -> Nat]
      BY <1>4, SeenType DEF Commit
    <2>2. next' \in Nat \ {0} /\ moved' \in [Lines -> Nat]
      BY <1>4 DEF Commit, TypeOK, Txn
    <2>. QED
      BY <1>3, <1>4, <2>1, <2>2 DEF Commit, TypeOK, client
  <1>5. CASE Crash(s)
    <2>1. faults' \in Faults
      BY <1>5, FaultCounted DEF Crash, TypeOK
    <2>. QED
      BY <1>3, <1>5, <2>1 DEF Crash, TypeOK, db
  <1>6. CASE LoseConnection(s)
    <2>1. faults' \in Faults
      BY <1>6, FaultCounted DEF LoseConnection, TypeOK
    <2>2. PICK acks \in SaidOfBroken(s) :
            job' = [job EXCEPT ![s] = NewJob(<<>>, job[s].nested, job[s].acks \cup acks)]
      BY <1>6 DEF LoseConnection
    <2>3. PICK r : r = NewJob(<<>>, job[s].nested, job[s].acks \cup acks)
      OBVIOUS
    <2>4. r \in Job
      <3>1. job[s] \in Job /\ job[s].batch # <<>>
        BY <1>6 DEF LoseConnection, TypeOK, JobOK
      <3>2. <<Current(s), job[s].number>> \in Sales \X Nat
        BY <3>1, CurrentType DEF TypeOK, Job
      <3>3. acks = {} \/ acks = {<<Current(s), job[s].number>>}
        BY <2>2 DEF SaidOfBroken
      <3>4. acks \in SUBSET (Sales \X Nat)
        BY <3>2, <3>3
      <3>. QED
        BY <2>3, <3>1, <3>4 DEF Job, NewJob
    <2>5. job' = [job EXCEPT ![s] = r] /\ pc' = [pc EXCEPT ![s] = "respond"]
      BY <1>6, <2>2, <2>3 DEF LoseConnection
    <2>6. job' \in [Sessions -> Job] /\ pc' \in [Sessions -> Steps] /\ JobOK'
      BY <2>4, <2>5 DEF TypeOK, JobOK, Current, Steps
    <2>7. txn' \in [Sessions -> Txn] /\ saved' \in [Sessions -> Txn]
      BY <1>6, NoWritesType DEF LoseConnection, TypeOK
    <2>. QED
      BY <1>6, <2>1, <2>6, <2>7 DEF LoseConnection, TypeOK, db, client
  <1>. QED
    BY <1>1, <1>2, <1>4, <1>5, <1>6

\* Devices giving up, and the catalogue traffic.
LEMMA OtherStepType ==
  ASSUME TypeInv,
         \/ \E d \in Devices : Timeout(d)
         \/ \E p \in Products : DeleteProduct(p)
         \/ DetachBegin \/ DetachUpdate \/ DetachEnd
  PROVE  TypeInv'
  <1> USE SalePushAssumption DEF TypeInv
  <1>1. CASE \E d \in Devices : Timeout(d)
    BY <1>1, FaultCounted DEF Timeout, TypeOK, JobOK, Current, db, server
  <1>2. CASE \E p \in Products : DeleteProduct(p)
    BY <1>2 DEF DeleteProduct, TypeOK, JobOK, Current, server, client
  <1>3. CASE DetachBegin
    <2>1. faults' \in Faults
      BY <1>3, FaultCounted DEF DetachBegin, TypeOK
    <2>2. detach' \in -1 .. Len(DetachOrder)
      BY <1>3 DEF DetachBegin, TypeOK
    <2>. QED
      BY <1>3, <2>1, <2>2 DEF DetachBegin, TypeOK, JobOK, Current, db, server, client
  <1>4. CASE DetachUpdate
    BY <1>4 DEF DetachUpdate, DetachWants, TypeOK, JobOK, Current, db, server, client
  <1>5. CASE DetachEnd
    BY <1>5 DEF DetachEnd, TypeOK, JobOK, Current, db, server, client
  <1>. QED
    BY <1>1, <1>2, <1>3, <1>4, <1>5

\* Every variable keeps its type, and a session that processes a sale has one
\* (the type invariant of the runs, for every value of the constants).
THEOREM TypeCorrect == Spec => [](TypeOK /\ JobOK)
  <1>1. TypeInv /\ [Next]_vars => TypeInv'
    <2> SUFFICES ASSUME TypeInv, [Next]_vars PROVE TypeInv'
      OBVIOUS
    <2>1. CASE UNCHANGED vars
      BY <2>1 DEF TypeInv, TypeOK, JobOK, Current, vars, db, server, client
    <2>2. CASE Next
      BY <2>2, SaleStepType, FailedSaleType, RequestStepType, OtherStepType DEF Next, Progress
    <2>. QED
      BY <2>1, <2>2
  <1>. QED
    BY <1>1, InitType, PTL DEF Spec, TypeInv

-----------------------------------------------------------------------------
(* Receipt numbers *)

\* What a transaction has written is consistent with the database: numbers are
\* taken under the lock on the store row, they are the next ones of the
\* counter, all different, and given to sales that are not stored yet.
Consistent(tx) ==
  /\ StoreRow \notin tx.locks => tx.taken = 0 /\ \A x \in Sales : tx.rows[x] = 0
  /\ \A x \in Sales : tx.rows[x] # 0 =>
       /\ next <= tx.rows[x] /\ tx.rows[x] < next + tx.taken
       /\ receipt[x] = 0
  /\ \A x, y \in Sales : tx.rows[x] # 0 /\ tx.rows[x] = tx.rows[y] => x = y

\* At most one session holds the store row, and what it would go back to on a
\* rollback to the SAVEPOINT is consistent too.
NumbersInv ==
  /\ ReceiptsUnique
  /\ \A s, t \in Sessions : StoreRow \in txn[s].locks /\ StoreRow \in txn[t].locks => s = t
  /\ \A s \in Sessions :
       /\ Consistent(txn[s])
       /\ Consistent(saved[s])
       /\ saved[s].locks \subseteq txn[s].locks

Inv == TypeOK /\ JobOK /\ NumbersInv

LEMMA NoWritesConsistent == Consistent(NoWrites) /\ NoWrites.locks = {}
  BY DEF Consistent, NoWrites

\* A step that leaves the stored sales and the counter alone keeps a
\* transaction consistent.
LEMMA ConsistentStable ==
  ASSUME NEW tx, Consistent(tx), UNCHANGED <<receipt, next>>
  PROVE  Consistent(tx)'
  BY DEF Consistent

\* A session that replaces its transaction by its savepoint, by nothing, or by
\* one that is consistent and no other session conflicts with, keeps the
\* invariant as long as nothing is committed.
LEMMA TxnReplaced ==
  ASSUME TypeOK, NumbersInv, NEW s \in Sessions, NEW tx \in Txn,
         Consistent(tx), saved[s].locks \subseteq tx.locks,
         StoreRow \in tx.locks => \A t \in Sessions \ {s} : StoreRow \notin txn[t].locks,
         txn' = [txn EXCEPT ![s] = tx],
         UNCHANGED <<receipt, next, saved>>
  PROVE  NumbersInv'
  <1>1. txn'[s] = tx /\ \A t \in Sessions \ {s} : txn'[t] = txn[t]
    BY DEF TypeOK
  <1>2. ReceiptsUnique'
    BY DEF NumbersInv, ReceiptsUnique
  <1>3. \A t, u \in Sessions : StoreRow \in txn'[t].locks /\ StoreRow \in txn'[u].locks => t = u
    BY <1>1 DEF NumbersInv
  <1>4. ASSUME NEW t \in Sessions
        PROVE  Consistent(txn[t])' /\ Consistent(saved[t])' /\ saved'[t].locks \subseteq txn'[t].locks
    BY <1>1 DEF NumbersInv, Consistent
  <1>. QED
    BY <1>2, <1>3, <1>4 DEF NumbersInv

LEMMA InsertNumbers ==
  ASSUME Inv, NEW s \in Sessions, InsertSale(s)
  PROVE  NumbersInv'
  <1> DEFINE number == next + txn[s].taken
  <1>1. /\ Current(s) \in Sales
        /\ txn[s] \in Txn
        /\ txn[s].rows \in [Sales -> Nat]
        /\ txn[s].taken \in Nat
        /\ next \in Nat \ {0}
    BY CurrentType DEF Inv, InsertSale, TypeOK, JobOK, Txn
  <1>2. Consistent(txn[s]) /\ saved[s].locks \subseteq txn[s].locks
    BY DEF Inv, NumbersInv
  <1>3. \A t \in Sessions \ {s} : StoreRow \notin txn[t].locks
    BY DEF InsertSale, Free
  <1>4. UNCHANGED <<receipt, next, saved>>
    BY DEF InsertSale, db
  <1>5. CASE receipt[Current(s)] # 0
    <2> DEFINE tx == Counted(s, txn[s].rows)
    <2>1. tx \in Txn /\ txn' = [txn EXCEPT ![s] = tx]
      BY <1>1, <1>5, CountedType DEF InsertSale, OnConflict, Inv, TypeOK
    <2>2. Consistent(tx) /\ saved[s].locks \subseteq tx.locks
      BY <1>1, <1>2 DEF Consistent, Counted
    <2> HIDE DEF tx
    <2>. QED
      BY <1>3, <1>4, <2>1, <2>2, TxnReplaced DEF Inv
  <1>6. CASE receipt[Current(s)] = 0
    <2> DEFINE tx == Counted(s, WithRow(s, number))
    <2>1. WithRow(s, number) \in [Sales -> Nat]
      BY <1>1 DEF WithRow
    <2>2. tx \in Txn /\ txn' = [txn EXCEPT ![s] = tx]
      BY <1>1, <1>6, <2>1, CountedType DEF InsertSale, Inv, TypeOK
    <2>3. saved[s].locks \subseteq tx.locks /\ StoreRow \in tx.locks
      BY <1>2 DEF Counted
    <2>4. /\ tx.taken = txn[s].taken + 1
          /\ \A x \in Sales : tx.rows[x] = IF x = Current(s) THEN number ELSE txn[s].rows[x]
      BY <1>1 DEF Counted, WithRow
    <2>5. Consistent(tx)
      <3> HIDE DEF tx
      <3>. QED
        BY <1>1, <1>2, <1>6, <2>3, <2>4 DEF Consistent
    <2> HIDE DEF tx
    <2>. QED
      BY <1>3, <1>4, <2>2, <2>3, <2>5, TxnReplaced DEF Inv
  <1>. QED
    BY <1>1, <1>5, <1>6 DEF Inv, TypeOK

\* Steps that touch neither the stored sales nor any transaction.
LEMMA NumbersUntouched ==
  ASSUME NumbersInv, UNCHANGED <<receipt, next, txn, saved>>
  PROVE  NumbersInv'
  BY DEF NumbersInv, ReceiptsUnique, Consistent

\* A new SAVEPOINT, one more product locked, and the rollbacks of one session.
LEMMA SavepointNumbers ==
  ASSUME Inv, NEW s \in Sessions,
         \/ Look(s) \/ UpdateStock(s) \/ DeadlockFailsUpdate(s) \/ SaleFails(s)
         \/ LoseConnection(s) \/ Crash(s)
  PROVE  NumbersInv'
  <1>1. /\ txn[s] \in Txn /\ saved[s] \in Txn
        /\ Consistent(txn[s]) /\ Consistent(saved[s])
        /\ saved[s].locks \subseteq txn[s].locks
    BY DEF Inv, TypeOK, NumbersInv
  <1>2. UNCHANGED <<receipt, next>>
    BY DEF Look, UpdateStock, DeadlockFailsUpdate, SaleFails, LoseConnection, Crash, db
  <1>3. StoreRow \in txn[s].locks => \A t \in Sessions \ {s} : StoreRow \notin txn[t].locks
    BY DEF Inv, NumbersInv
  <1>4. CASE Look(s)
    <2>1. saved' = [saved EXCEPT ![s] = txn[s]] /\ UNCHANGED txn
      BY <1>4 DEF Look
    <2>2. saved'[s] = txn[s] /\ \A t \in Sessions \ {s} : saved'[t] = saved[t]
      BY <2>1 DEF Inv, TypeOK
    <2>. QED
      BY <1>1, <1>2, <2>1, <2>2 DEF Inv, NumbersInv, ReceiptsUnique, Consistent
  <1>5. CASE UpdateStock(s)
    <2>1. PICK i \in job[s].lines :
            txn' = [txn EXCEPT ![s] =
                 [rows  |-> txn[s].rows,
                  taken |-> txn[s].taken,
                  moves |-> [txn[s].moves EXCEPT ![<<Current(s), i>>] = @ + 1],
                  locks |-> txn[s].locks \cup {Items[Current(s)][i]}]]
      BY <1>5 DEF UpdateStock
    <2> DEFINE tx == [rows  |-> txn[s].rows,
                      taken |-> txn[s].taken,
                      moves |-> [txn[s].moves EXCEPT ![<<Current(s), i>>] = @ + 1],
                      locks |-> txn[s].locks \cup {Items[Current(s)][i]}]
    <2>2. Items[Current(s)][i] \in Products
      <3>1. i \in DOMAIN Items[Current(s)] /\ Current(s) \in Sales
        BY <1>5, <2>1, CurrentType DEF Inv, TypeOK, JobOK, UpdateStock
      <3>. QED
        BY <3>1, SalePushAssumption
    <2>3. tx \in Txn
      <3>1. txn[s].moves \in [Lines -> Nat]
        BY <1>1 DEF Txn
      <3>2. [txn[s].moves EXCEPT ![<<Current(s), i>>] = @ + 1] \in [Lines -> Nat]
        BY <3>1, CountUp
      <3>. QED
        BY <1>1, <2>2, <3>2 DEF Txn, Rows
    <2>4. /\ tx.rows = txn[s].rows /\ tx.taken = txn[s].taken
          /\ StoreRow \in tx.locks <=> StoreRow \in txn[s].locks
          /\ txn[s].locks \subseteq tx.locks
      BY <2>2, SalePushAssumption
    <2> HIDE DEF tx
    <2>5. Consistent(tx)
      BY <1>1, <2>4 DEF Consistent
    <2>. QED
      BY <1>1, <1>2, <1>3, <1>5, <2>1, <2>3, <2>4, <2>5, TxnReplaced DEF Inv, UpdateStock, tx
  <1>6. CASE DeadlockFailsUpdate(s) \/ SaleFails(s)
    <2>1. txn' = [txn EXCEPT ![s] = saved[s]] /\ UNCHANGED saved
      BY <1>6 DEF DeadlockFailsUpdate, SaleFails, RolledBack
    <2>. QED
      BY <1>1, <1>2, <1>3, <2>1, TxnReplaced DEF Inv
  <1>7. CASE LoseConnection(s) \/ Crash(s)
    <2>1. txn' = [txn EXCEPT ![s] = NoWrites] /\ saved' = [saved EXCEPT ![s] = NoWrites]
      BY <1>7 DEF LoseConnection, Crash, Close
    <2>2. /\ txn'[s] = NoWrites /\ saved'[s] = NoWrites
          /\ \A t \in Sessions \ {s} : txn'[t] = txn[t] /\ saved'[t] = saved[t]
      BY <2>1 DEF Inv, TypeOK
    <2>3. ReceiptsUnique'
      BY <1>2 DEF Inv, NumbersInv, ReceiptsUnique
    <2>4. \A t, u \in Sessions : StoreRow \in txn'[t].locks /\ StoreRow \in txn'[u].locks => t = u
      BY <2>2, NoWritesConsistent DEF Inv, NumbersInv
    <2>5. ASSUME NEW t \in Sessions
          PROVE  Consistent(txn[t])' /\ Consistent(saved[t])' /\ saved'[t].locks \subseteq txn'[t].locks
      <3>1. CASE t = s
        BY <1>2, <2>2, <3>1, NoWritesConsistent DEF Consistent
      <3>2. CASE t # s
        BY <1>2, <2>2, <3>2 DEF Inv, NumbersInv, Consistent
      <3>. QED
        BY <3>1, <3>2
    <2>. QED
      BY <2>3, <2>4, <2>5 DEF NumbersInv
  <1>. QED
    BY <1>4, <1>5, <1>6, <1>7

\* A commit appends to the ledger: the numbers it brings are at or above the
\* counter, and every other transaction is empty if it brings any.
LEMMA CommitNumbers ==
  ASSUME Inv, NEW s \in Sessions, Commit(s)
  PROVE  NumbersInv' /\ Ledger!Record
  <1>1. /\ txn[s] \in Txn /\ next \in Nat /\ txn[s].taken \in Nat
        /\ \A x \in Sales : receipt[x] \in Nat /\ txn[s].rows[x] \in Nat
    BY DEF Inv, TypeOK, Txn
  <1>2. Consistent(txn[s]) /\ ReceiptsUnique
    BY DEF Inv, NumbersInv
  <1>3. /\ receipt' \in [Sales -> Nat]
        /\ \A x \in Sales : receipt'[x] = IF txn[s].rows[x] # 0 THEN txn[s].rows[x] ELSE receipt[x]
        /\ next' = next + txn[s].taken
    BY SeenType DEF Commit, Seen, Inv
  <1>4. ReceiptsUnique'
    BY <1>1, <1>2, <1>3 DEF ReceiptsUnique, Consistent
  <1>5. Ledger!Record
    <2>1. \A x \in Sales : receipt[x] # 0 => receipt'[x] = receipt[x]
      BY <1>2, <1>3 DEF Consistent
    <2>2. \A x, y \in Sales : receipt'[x] # 0 /\ receipt'[x] = receipt'[y] => x = y
      BY <1>4 DEF ReceiptsUnique
    <2>3. \A x, y \in Sales : receipt[y] # 0 /\ receipt[x] = 0 /\ receipt'[x] # 0
                                => receipt'[x] > receipt[y]
      BY <1>1, <1>2, <1>3 DEF Consistent, ReceiptsUnique
    <2>. QED
      BY <1>3, <2>1, <2>2, <2>3 DEF Ledger!Record, Ledger!Recorded
  <1>6. /\ txn'[s] = NoWrites /\ saved'[s] = NoWrites
        /\ \A t \in Sessions \ {s} : txn'[t] = txn[t] /\ saved'[t] = saved[t]
    BY DEF Commit, Close, Inv, TypeOK
  <1>7. \A t, u \in Sessions : StoreRow \in txn'[t].locks /\ StoreRow \in txn'[u].locks => t = u
    BY <1>6, NoWritesConsistent DEF Inv, NumbersInv
  <1>8. ASSUME NEW t \in Sessions
        PROVE  Consistent(txn[t])' /\ Consistent(saved[t])' /\ saved'[t].locks \subseteq txn'[t].locks
    <2>1. CASE t = s
      BY <1>6, <2>1, NoWritesConsistent DEF Consistent, NoWrites
    <2>2. CASE t # s /\ StoreRow \in txn[s].locks
      <3>1. StoreRow \notin txn[t].locks /\ StoreRow \notin saved[t].locks
        BY <2>2 DEF Inv, NumbersInv
      <3>2. /\ txn[t].taken = 0 /\ \A x \in Sales : txn[t].rows[x] = 0
            /\ saved[t].taken = 0 /\ \A x \in Sales : saved[t].rows[x] = 0
        BY <3>1 DEF Inv, NumbersInv, Consistent
      <3>. QED
        BY <1>6, <2>2, <3>1, <3>2 DEF Inv, NumbersInv, Consistent
    <2>3. CASE t # s /\ StoreRow \notin txn[s].locks
      <3>1. next' = next /\ \A x \in Sales : receipt'[x] = receipt[x]
        BY <1>1, <1>2, <1>3, <2>3 DEF Consistent
      <3>. QED
        BY <1>6, <2>3, <3>1 DEF Inv, NumbersInv, Consistent
    <2>. QED
      BY <2>1, <2>2, <2>3
  <1>. QED
    BY <1>4, <1>5, <1>7, <1>8 DEF NumbersInv

LEMMA InitNumbers == Init => NumbersInv
  <1> SUFFICES ASSUME Init PROVE NumbersInv
    OBVIOUS
  <1>1. ReceiptsUnique
    BY DEF Init, ReceiptsUnique, FirstReceipt
  <1>2. \A s \in Sessions : txn[s] = NoWrites /\ saved[s] = NoWrites
    BY DEF Init
  <1>. QED
    BY <1>1, <1>2, NoWritesConsistent DEF NumbersInv

\* Every step keeps the invariant and is a step of the ledger or leaves it.
LEMMA NextNumbers ==
  ASSUME Inv, [Next]_vars
  PROVE  NumbersInv' /\ [Ledger!Record]_receipt
  <1> USE DEF Inv
  <1>1. CASE \E s \in Sessions : InsertSale(s)
    BY <1>1, InsertNumbers DEF InsertSale, db
  <1>2. CASE \E s \in Sessions : \/ Look(s) \/ UpdateStock(s) \/ DeadlockFailsUpdate(s)
                                  \/ SaleFails(s) \/ LoseConnection(s) \/ Crash(s)
    BY <1>2, SavepointNumbers
    DEF Look, UpdateStock, DeadlockFailsUpdate, SaleFails, LoseConnection, Crash, db
  <1>3. CASE \E s \in Sessions : Commit(s)
    BY <1>3, CommitNumbers
  <1>4. CASE \/ \E s \in Sessions : TrackLine(s) \/ FinishSale(s) \/ Respond(s)
             \/ \E d \in Devices : Timeout(d) \/ \E s \in Sessions : Send(d, s)
             \/ \E p \in Products : DeleteProduct(p)
             \/ DetachBegin \/ DetachUpdate \/ DetachEnd
             \/ UNCHANGED vars
    <2>1. UNCHANGED <<receipt, next, txn, saved>>
      BY <1>4 DEF TrackLine, FinishSale, Respond, Timeout, Send, DeleteProduct,
                  DetachBegin, DetachUpdate, DetachEnd, vars, db, server
    <2>. QED
      BY <2>1, NumbersUntouched
  <1>. QED
    BY <1>1, <1>2, <1>3, <1>4 DEF Next, Progress

\* The inductive invariant of the receipt counter: numbers taken and not yet
\* committed belong to the one session that holds the row of the store
\* (generate_receipt_number).
THEOREM InvCorrect == Spec => []Inv
  <1>1. Init => NumbersInv
    BY InitNumbers
  <1>2. TypeOK /\ JobOK /\ NumbersInv /\ [Next]_vars => NumbersInv'
    BY NextNumbers DEF Inv
  <1>3. (TypeOK /\ JobOK /\ NumbersInv) <=> Inv
    BY DEF Inv
  <1>. QED
    BY <1>1, <1>2, <1>3, TypeCorrect, PTL DEF Spec

\* Two stored sales never share a receipt number, and the counter of the store is
\* above all of them (generate_receipt_number, for any number of requests).
THEOREM ReceiptsCorrect == Spec => []ReceiptsUnique
  <1>1. Inv => ReceiptsUnique
    BY DEF Inv, NumbersInv
  <1>. QED
    BY <1>1, InvCorrect, PTL

\* The table sales behaves as the append-only ledger: create_sale_atomic and the
\* commit of get_db add sales under higher numbers and change none.
THEOREM ImplementsLedger == Spec => LedgerSpec
  <1>1. Init => Ledger!Init
    BY DEF Init, Ledger!Init
  <1>2. Inv /\ [Next]_vars => [Ledger!Record]_receipt
    BY NextNumbers
  <1>. QED
    BY <1>1, <1>2, InvCorrect, PTL DEF Spec, LedgerSpec, Ledger!Spec

-----------------------------------------------------------------------------
(* Stock movements *)

\* A transaction moves no line twice, and none without its sale.
Once(tx) ==
  \A l \in Lines : tx.moves[l] <= 1 /\ (tx.moves[l] = 1 => tx.rows[l[1]] # 0)

\* It moves every line of the sale x it inserted, but those of deleted products.
Moved(tx, x) ==
  tx.rows[x] # 0 =>
    \A i \in DOMAIN Items[x] : Items[x][i] \in live => tx.moves[<<x, i>>] = 1

Whole(tx) == \A x \in Sales : Moved(tx, x)

\* The sale a session works on: not there at its SAVEPOINT, then inserted without
\* movements, then moved line by line; gone again after a rollback.
SaleInHand(s) ==
  /\ pc[s] \notin {"insert", "track", "update"} => Whole(txn[s])
  /\ job[s].dead => pc[s] = "track" /\ txn[s].rows[Current(s)] = 0
  /\ pc[s] \in {"insert", "track", "update"} =>
       /\ saved[s].rows[Current(s)] = 0
       /\ \A x \in Sales \ {Current(s)} : Moved(txn[s], x)
       /\ \A i \in job[s].lines : txn[s].moves[<<Current(s), i>>] = 0
  /\ pc[s] = "insert" =>
       /\ txn[s] = saved[s] /\ txn[s].rows[Current(s)] = 0
       /\ \A i \in DOMAIN Items[Current(s)] \ job[s].lines : Items[Current(s)][i] \notin live
  /\ pc[s] \in {"track", "update"} /\ ~job[s].dead =>
       /\ txn[s].rows[Current(s)] # 0
       /\ \A i \in DOMAIN Items[Current(s)] \ job[s].lines :
            Items[Current(s)][i] \in live => txn[s].moves[<<Current(s), i>>] = 1

SessionMoves(s) ==
  Once(txn[s]) /\ Once(saved[s]) /\ Whole(saved[s]) /\ SaleInHand(s)

MovesInv == SaleMovesStockOnce /\ \A s \in Sessions : SessionMoves(s)

LEMMA LineIs ==
  /\ \A x \in Sales : \A i \in DOMAIN Items[x] : <<x, i>> \in Lines
  /\ \A l \in Lines : /\ l[1] \in Sales /\ l[2] \in DOMAIN Items[l[1]]
                      /\ l = <<l[1], l[2]>>
  BY DEF Lines

LEMMA NoWritesMoves == Once(NoWrites) /\ Whole(NoWrites)
  <1>1. /\ \A l \in Lines : NoWrites.moves[l] = 0
        /\ \A x \in Sales : NoWrites.rows[x] = 0
    BY DEF NoWrites
  <1>. QED
    BY <1>1 DEF Once, Whole, Moved

\* What a session has in hand, in the steps that process a sale.
LEMMA InHandType ==
  ASSUME TypeOK, JobOK, NEW s \in Sessions,
         pc[s] \in {"look", "insert", "track", "update"}
  PROVE  /\ Current(s) \in Sales /\ job[s] \in Job
         /\ txn[s] \in Txn /\ txn[s].rows \in [Sales -> Nat] /\ txn[s].moves \in [Lines -> Nat]
         /\ saved[s] \in Txn /\ saved[s].rows \in [Sales -> Nat]
         /\ saved[s].moves \in [Lines -> Nat]
         /\ pc[s] # "look" => /\ job[s].lines \subseteq DOMAIN Items[Current(s)]
                              /\ \A i \in job[s].lines : <<Current(s), i>> \in Lines
  BY CurrentType, LineIs DEF TypeOK, JobOK, Txn

\* A session that does not move keeps its part of the invariant.
LEMMA SessionStays ==
  ASSUME NEW t \in Sessions, SessionMoves(t), UNCHANGED live,
         txn'[t] = txn[t], saved'[t] = saved[t], pc'[t] = pc[t], job'[t] = job[t]
  PROVE  SessionMoves(t)'
  <1>1. \A x \in Sales : /\ Moved(txn[t], x) => Moved(txn[t], x)'
                         /\ Moved(saved[t], x) => Moved(saved[t], x)'
    BY DEF Moved
  <1>2. Once(txn[t])' /\ Once(saved[t])' /\ Whole(saved[t])'
    BY <1>1 DEF SessionMoves, Whole, Once
  <1>3. SaleInHand(t)'
    BY <1>1 DEF SessionMoves, SaleInHand, Whole, Current
  <1>. QED
    BY <1>2, <1>3 DEF SessionMoves

\* Only session s moves, and nothing is committed: the other sessions and what is
\* stored stay as they were.
LEMMA OnlySession ==
  ASSUME MovesInv, NEW s \in Sessions,
         UNCHANGED <<receipt, moved, live>>,
         \A t \in Sessions \ {s} : /\ txn'[t] = txn[t] /\ saved'[t] = saved[t]
                                   /\ pc'[t] = pc[t] /\ job'[t] = job[t],
         SessionMoves(s)'
  PROVE  MovesInv'
  <1>1. SaleMovesStockOnce'
    BY DEF MovesInv, SaleMovesStockOnce
  <1>2. ASSUME NEW t \in Sessions \ {s} PROVE SessionMoves(t)'
    BY <1>2, SessionStays DEF MovesInv
  <1>. QED
    BY <1>1, <1>2 DEF MovesInv

\* The steps from one sale to the next leave the session with whole sales.
LEMMA NextSaleMoves ==
  ASSUME TypeOK, MovesInv, NEW s \in Sessions, NEW acks, NextSale(s, acks),
         UNCHANGED <<receipt, moved, live>>,
         \A t \in Sessions \ {s} : txn'[t] = txn[t] /\ saved'[t] = saved[t],
         Once(txn'[s]), Once(saved'[s]), Whole(saved'[s]), Whole(txn'[s])
  PROVE  MovesInv'
  <1>1. /\ \A t \in Sessions \ {s} : pc'[t] = pc[t] /\ job'[t] = job[t]
        /\ pc'[s] \in {"look", "respond"} /\ ~job'[s].dead
    BY DEF NextSale, NewJob, TypeOK
  <1>2. SessionMoves(s)'
    BY <1>1 DEF SessionMoves, SaleInHand, Once, Whole, Moved
  <1>. QED
    BY <1>1, <1>2, OnlySession

LEMMA LookMoves ==
  ASSUME Inv, MovesInv, NEW s \in Sessions, Look(s)
  PROVE  MovesInv'
  <1> USE DEF Inv
  <1>1. /\ pc[s] = "look" /\ saved' = [saved EXCEPT ![s] = txn[s]]
        /\ UNCHANGED <<receipt, moved, live, txn>>
    BY DEF Look, db
  <1>2. /\ saved'[s] = txn[s] /\ txn' = txn
        /\ \A t \in Sessions \ {s} : saved'[t] = saved[t]
    BY <1>1 DEF TypeOK
  <1>3. Once(txn[s]) /\ Whole(txn[s]) /\ ~job[s].dead
    BY <1>1 DEF MovesInv, SessionMoves, SaleInHand
  <1>4. /\ Current(s) \in Sales /\ job[s] \in Job /\ txn[s].rows \in [Sales -> Nat]
        /\ txn[s].moves \in [Lines -> Nat]
    BY <1>1, InHandType
  <1>5. CASE Seen(s, Current(s)) # 0
    <2>1. PICK acks : NextSale(s, acks)
      BY <1>5 DEF Look
    <2>. QED
      BY <1>1, <1>2, <1>3, <2>1, NextSaleMoves
  <1>6. CASE Seen(s, Current(s)) = 0
    <2>1. PICK L : L = {i \in DOMAIN Items[Current(s)] : Items[Current(s)][i] \in live}
      OBVIOUS
    <2>2. pc' = [pc EXCEPT ![s] = "insert"] /\ job' = [job EXCEPT ![s].lines = L]
      BY <1>6, <2>1 DEF Look
    <2>3. /\ pc'[s] = "insert" /\ job'[s] = [job[s] EXCEPT !.lines = L]
          /\ \A t \in Sessions \ {s} : pc'[t] = pc[t] /\ job'[t] = job[t]
      BY <2>2 DEF TypeOK
    <2>4. job'[s].lines = L /\ job'[s].batch = job[s].batch /\ job'[s].dead = job[s].dead
      BY <2>3, <1>4 DEF Job
    <2>5. Current(s)' = Current(s)
      BY <2>4 DEF Current
    <2>6. txn[s].rows[Current(s)] = 0
      BY <1>6 DEF Seen
    <2>7. \A i \in L : txn[s].moves[<<Current(s), i>>] = 0
      <3> SUFFICES ASSUME NEW i \in L PROVE txn[s].moves[<<Current(s), i>>] = 0
        OBVIOUS
      <3>1. <<Current(s), i>> \in Lines
        BY <1>4, <2>1, LineIs
      <3>2. txn[s].moves[<<Current(s), i>>] \in Nat
        BY <3>1, <1>4
      <3>3. txn[s].moves[<<Current(s), i>>] <= 1 /\ txn[s].moves[<<Current(s), i>>] # 1
        BY <3>1, <1>3, <2>6 DEF Once
      <3>. QED
        BY <3>2, <3>3
    <2>8. SaleInHand(s)'
      BY <1>1, <1>2, <1>3, <2>1, <2>3, <2>4, <2>5, <2>6, <2>7 DEF SaleInHand, Whole, Moved
    <2>9. SessionMoves(s)'
      BY <1>1, <1>2, <1>3, <2>8 DEF SessionMoves, Once, Whole, Moved
    <2>. QED
      BY <1>1, <1>2, <2>3, <2>9, OnlySession
  <1>. QED
    BY <1>4, <1>5, <1>6

LEMMA InsertMoves ==
  ASSUME Inv, MovesInv, NEW s \in Sessions, InsertSale(s)
  PROVE  MovesInv'
  <1> USE DEF Inv
  <1>1. /\ pc[s] = "insert"
        /\ UNCHANGED <<receipt, moved, live, saved>> /\ saved' = saved
    BY DEF InsertSale, db
  <1>2. /\ Current(s) \in Sales /\ job[s] \in Job /\ txn[s].rows \in [Sales -> Nat]
        /\ txn[s].moves \in [Lines -> Nat]
    BY <1>1, InHandType
  <1>3. SessionMoves(s) /\ SaleInHand(s)
    BY DEF MovesInv, SessionMoves
  <1>4. /\ Once(txn[s]) /\ Once(saved[s]) /\ Whole(saved[s]) /\ ~job[s].dead
        /\ txn[s].rows[Current(s)] = 0
    BY <1>1, <1>3 DEF SessionMoves, SaleInHand
  <1>5. CASE receipt[Current(s)] # 0
    <2>1. /\ txn' = [txn EXCEPT ![s] = Counted(s, txn[s].rows)]
          /\ \E acks : NextSale(s, acks)
      BY <1>5 DEF InsertSale, OnConflict
    <2>2. /\ txn'[s].rows = txn[s].rows /\ txn'[s].moves = txn[s].moves
          /\ \A t \in Sessions \ {s} : txn'[t] = txn[t]
      BY <2>1 DEF Counted, TypeOK
    <2>3. Whole(txn[s])
      BY <1>1, <1>3, <1>4 DEF SaleInHand, Whole, Moved
    <2>4. /\ Once(txn'[s]) /\ Whole(txn'[s]) /\ Once(saved'[s]) /\ Whole(saved'[s])
      BY <1>1, <1>4, <2>2, <2>3 DEF Once, Whole, Moved
    <2>. QED
      BY <1>1, <2>1, <2>2, <2>4, NextSaleMoves
  <1>6. CASE receipt[Current(s)] = 0
    <2>1. PICK number : number = next + txn[s].taken
      OBVIOUS
    <2>2. /\ txn' = [txn EXCEPT ![s] = Counted(s, WithRow(s, number))]
          /\ job' = [job EXCEPT ![s].number = number]
          /\ pc' = [pc EXCEPT ![s] = "track"]
      BY <1>6, <2>1 DEF InsertSale
    <2>3. number \in Nat \ {0}
      BY <2>1 DEF TypeOK, Txn
    <2>4. /\ txn'[s].rows = [txn[s].rows EXCEPT ![Current(s)] = number]
          /\ txn'[s].moves = txn[s].moves /\ pc'[s] = "track"
          /\ \A t \in Sessions \ {s} : txn'[t] = txn[t] /\ pc'[t] = pc[t] /\ job'[t] = job[t]
      BY <2>2 DEF Counted, WithRow, TypeOK
    <2>5. /\ job'[s] = [job[s] EXCEPT !.number = number]
          /\ job'[s].lines = job[s].lines /\ job'[s].batch = job[s].batch
          /\ job'[s].dead = job[s].dead
      BY <1>2, <2>2 DEF TypeOK, Job
    <2>6. Current(s)' = Current(s)
      BY <2>5 DEF Current
    <2>7. /\ txn'[s].rows[Current(s)] = number
          /\ \A x \in Sales \ {Current(s)} : txn'[s].rows[x] = txn[s].rows[x]
      BY <1>2, <2>4
    <2>8. Once(txn'[s])
      BY <1>4, <2>3, <2>4, <2>7, LineIs DEF Once
    <2>9. SaleInHand(s)'
      BY <1>1, <1>3, <1>4, <2>3, <2>4, <2>5, <2>6, <2>7 DEF SaleInHand, Moved
    <2>10. SessionMoves(s)'
      BY <1>1, <1>4, <2>8, <2>9 DEF SessionMoves, Once, Whole, Moved
    <2>. QED
      BY <1>1, <2>4, <2>10, OnlySession
  <1>. QED
    BY <1>2, <1>5, <1>6 DEF TypeOK

LEMMA TrackMoves ==
  ASSUME Inv, MovesInv, NEW s \in Sessions, TrackLine(s)
  PROVE  MovesInv'
  <1> USE DEF Inv
  <1>1. /\ pc[s] = "track" /\ UNCHANGED <<receipt, moved, live>>
        /\ saved' = saved /\ txn' = txn
    BY DEF TrackLine, db
  <1>2. Current(s) \in Sales /\ job[s] \in Job
    BY <1>1, InHandType
  <1>3. SessionMoves(s) /\ SaleInHand(s)
    BY DEF MovesInv, SessionMoves
  <1>4. PICK i \in job[s].lines :
          IF ~job[s].dead /\ Items[Current(s)][i] \in live
          THEN pc' = [pc EXCEPT ![s] = "update"] /\ UNCHANGED job
          ELSE job' = [job EXCEPT ![s].lines = @ \ {i}] /\ UNCHANGED pc
    BY DEF TrackLine
  <1>5. CASE ~job[s].dead /\ Items[Current(s)][i] \in live
    <2>1. /\ pc'[s] = "update" /\ job' = job
          /\ \A t \in Sessions \ {s} : pc'[t] = pc[t]
      BY <1>4, <1>5 DEF TypeOK
    <2>2. SaleInHand(s)'
      BY <1>1, <1>3, <1>5, <2>1 DEF SaleInHand, Moved, Current
    <2>3. SessionMoves(s)'
      BY <1>1, <1>3, <2>2 DEF SessionMoves, Once, Whole, Moved
    <2>. QED
      BY <1>1, <2>1, <2>3, OnlySession
  <1>6. CASE ~(~job[s].dead /\ Items[Current(s)][i] \in live)
    <2>1. /\ pc' = pc /\ job' = [job EXCEPT ![s].lines = @ \ {i}]
      BY <1>4, <1>6
    <2>2. /\ job'[s] = [job[s] EXCEPT !.lines = @ \ {i}]
          /\ \A t \in Sessions \ {s} : job'[t] = job[t]
      BY <2>1 DEF TypeOK
    <2>3. /\ job'[s].lines = job[s].lines \ {i} /\ job'[s].batch = job[s].batch
          /\ job'[s].dead = job[s].dead
      BY <1>2, <2>2 DEF Job
    <2>4. Current(s)' = Current(s)
      BY <2>3 DEF Current
    <2>5. SaleInHand(s)'
      BY <1>1, <1>3, <1>6, <2>1, <2>3, <2>4 DEF SaleInHand, Moved
    <2>6. SessionMoves(s)'
      BY <1>1, <1>3, <2>5 DEF SessionMoves, Once, Whole, Moved
    <2>. QED
      BY <1>1, <2>1, <2>2, <2>6, OnlySession
  <1>. QED
    BY <1>5, <1>6

LEMMA UpdateMoves ==
  ASSUME Inv, MovesInv, NEW s \in Sessions, UpdateStock(s)
  PROVE  MovesInv'
  <1> USE DEF Inv
  <1>1. /\ pc[s] = "update" /\ UNCHANGED <<receipt, moved, live>>
        /\ saved' = saved /\ pc' = [pc EXCEPT ![s] = "track"]
    BY DEF UpdateStock, db
  <1>2. /\ Current(s) \in Sales /\ job[s] \in Job /\ txn[s].moves \in [Lines -> Nat]
        /\ \A i \in job[s].lines : <<Current(s), i>> \in Lines
    BY <1>1, InHandType
  <1>3. SessionMoves(s) /\ SaleInHand(s) /\ ~job[s].dead
    BY <1>1 DEF MovesInv, SessionMoves, SaleInHand
  <1>4. PICK i \in job[s].lines :
          /\ txn' = [txn EXCEPT ![s] =
               [rows  |-> txn[s].rows,
                taken |-> txn[s].taken,
                moves |-> [txn[s].moves EXCEPT ![<<Current(s), i>>] = @ + 1],
                locks |-> txn[s].locks \cup {Items[Current(s)][i]}]]
          /\ job' = [job EXCEPT ![s].lines = @ \ {i}]
    BY DEF UpdateStock
  <1>5. /\ job'[s] = [job[s] EXCEPT !.lines = @ \ {i}] /\ pc'[s] = "track"
        /\ txn'[s].rows = txn[s].rows
        /\ txn'[s].moves = [txn[s].moves EXCEPT ![<<Current(s), i>>] = @ + 1]
        /\ \A t \in Sessions \ {s} : job'[t] = job[t] /\ pc'[t] = pc[t] /\ txn'[t] = txn[t]
    BY <1>1, <1>4 DEF TypeOK
  <1>6. /\ job'[s].lines = job[s].lines \ {i} /\ job'[s].batch = job[s].batch
        /\ job'[s].dead = job[s].dead
    BY <1>2, <1>5 DEF Job
  <1>7. Current(s)' = Current(s)
    BY <1>6 DEF Current
  <1>8. /\ txn[s].moves[<<Current(s), i>>] = 0 /\ <<Current(s), i>> \in Lines
        /\ txn[s].rows[Current(s)] # 0
    BY <1>1, <1>2, <1>3 DEF SaleInHand
  <1>9. /\ txn'[s].moves[<<Current(s), i>>] = 1
        /\ \A l \in Lines : l # <<Current(s), i>> => txn'[s].moves[l] = txn[s].moves[l]
    BY <1>2, <1>5, <1>8
  <1>10. Once(txn'[s])
    BY <1>3, <1>5, <1>8, <1>9 DEF SessionMoves, Once
  <1>11. \A j \in DOMAIN Items[Current(s)] \ {i} :
           txn'[s].moves[<<Current(s), j>>] = txn[s].moves[<<Current(s), j>>]
    BY <1>2, <1>9, LineIs
  <1>12. \A x \in Sales \ {Current(s)} : Moved(txn[s], x)'
    <2> SUFFICES ASSUME NEW x \in Sales \ {Current(s)}, txn[s].rows[x] # 0,
                        NEW j \in DOMAIN Items[x], Items[x][j] \in live
                 PROVE  txn'[s].moves[<<x, j>>] = 1
      BY <1>1, <1>5 DEF Moved
    <2>1. txn[s].moves[<<x, j>>] = 1
      BY <1>1, <1>3 DEF SaleInHand, Moved
    <2>2. <<x, j>> \in Lines /\ <<x, j>> # <<Current(s), i>>
      BY LineIs
    <2>. QED
      BY <1>9, <2>1, <2>2
  <1>13. SaleInHand(s)'
    <2>1. \A j \in job'[s].lines : txn'[s].moves[<<Current(s), j>>] = 0
      BY <1>1, <1>2, <1>3, <1>6, <1>9 DEF SaleInHand
    <2>2. \A j \in DOMAIN Items[Current(s)] \ job'[s].lines :
            Items[Current(s)][j] \in live => txn'[s].moves[<<Current(s), j>>] = 1
      BY <1>1, <1>3, <1>6, <1>9, <1>11 DEF SaleInHand
    <2>3. saved'[s].rows[Current(s)] = 0
      BY <1>1, <1>3 DEF SaleInHand
    <2>. QED
      BY <1>1, <1>3, <1>5, <1>6, <1>7, <1>8, <1>12, <2>1, <2>2, <2>3 DEF SaleInHand
  <1>14. SessionMoves(s)'
    BY <1>1, <1>3, <1>10, <1>13 DEF SessionMoves, Once, Whole, Moved
  <1>. QED
    BY <1>1, <1>5, <1>14, OnlySession

LEMMA DeadlockMoves ==
  ASSUME Inv, MovesInv, NEW s \in Sessions, DeadlockFailsUpdate(s)
  PROVE  MovesInv'
  <1> USE DEF Inv
  <1>1. /\ pc[s] = "update" /\ UNCHANGED <<receipt, moved, live>> /\ saved' = saved
        /\ pc' = [pc EXCEPT ![s] = "track"] /\ txn' = [txn EXCEPT ![s] = saved[s]]
        /\ job' = [job EXCEPT ![s].dead = TRUE]
    BY DEF DeadlockFailsUpdate, Deadlocked, RolledBack, db
  <1>2. /\ Current(s) \in Sales /\ job[s] \in Job /\ saved[s].moves \in [Lines -> Nat]
        /\ \A i \in job[s].lines : <<Current(s), i>> \in Lines
    BY <1>1, InHandType
  <1>3. SessionMoves(s) /\ SaleInHand(s)
    BY DEF MovesInv, SessionMoves
  <1>4. /\ job'[s] = [job[s] EXCEPT !.dead = TRUE] /\ pc'[s] = "track" /\ txn'[s] = saved[s]
        /\ \A t \in Sessions \ {s} : job'[t] = job[t] /\ pc'[t] = pc[t] /\ txn'[t] = txn[t]
    BY <1>1 DEF TypeOK
  <1>5. job'[s].lines = job[s].lines /\ job'[s].batch = job[s].batch /\ job'[s].dead
    BY <1>2, <1>4 DEF Job
  <1>6. Current(s)' = Current(s)
    BY <1>5 DEF Current
  <1>7. saved[s].rows[Current(s)] = 0
    BY <1>1, <1>3 DEF SaleInHand
  <1>8. \A i \in job[s].lines : saved[s].moves[<<Current(s), i>>] = 0
    <2> SUFFICES ASSUME NEW i \in job[s].lines PROVE saved[s].moves[<<Current(s), i>>] = 0
      OBVIOUS
    <2>1. /\ saved[s].moves[<<Current(s), i>>] \in Nat
          /\ saved[s].moves[<<Current(s), i>>] <= 1
          /\ saved[s].moves[<<Current(s), i>>] # 1
      BY <1>2, <1>3, <1>7 DEF SessionMoves, Once
    <2>. QED
      BY <2>1
  <1>9. SaleInHand(s)'
    BY <1>1, <1>3, <1>4, <1>5, <1>6, <1>7, <1>8 DEF SessionMoves, SaleInHand, Whole, Moved
  <1>10. SessionMoves(s)'
    BY <1>1, <1>3, <1>4, <1>9 DEF SessionMoves, Once, Whole, Moved
  <1>. QED
    BY <1>1, <1>4, <1>10, OnlySession

LEMMA FinishMoves ==
  ASSUME Inv, MovesInv, NEW s \in Sessions, FinishSale(s)
  PROVE  MovesInv'
  <1> USE DEF Inv
  <1>1. /\ pc[s] = "track" /\ job[s].lines = {} /\ UNCHANGED <<receipt, moved, live>>
        /\ saved' = saved /\ txn' = txn /\ \E acks : NextSale(s, acks)
    BY DEF FinishSale, db
  <1>2. Current(s) \in Sales
    BY <1>1, InHandType
  <1>3. SessionMoves(s) /\ SaleInHand(s)
    BY DEF MovesInv, SessionMoves
  <1>4. Whole(txn[s])
    BY <1>1, <1>3 DEF SaleInHand, Whole, Moved
  <1>5. Once(txn'[s]) /\ Once(saved'[s]) /\ Whole(saved'[s]) /\ Whole(txn'[s])
    BY <1>1, <1>3, <1>4 DEF SessionMoves, Once, Whole, Moved
  <1>. QED
    BY <1>1, <1>5, NextSaleMoves

LEMMA FailMoves ==
  ASSUME Inv, MovesInv, NEW s \in Sessions, SaleFails(s)
  PROVE  MovesInv'
  <1> USE DEF Inv
  <1>1. /\ UNCHANGED <<receipt, moved, live>> /\ saved' = saved
        /\ txn' = [txn EXCEPT ![s] = saved[s]] /\ NextSale(s, {})
    BY DEF SaleFails, RolledBack, db
  <1>2. txn'[s] = saved[s] /\ \A t \in Sessions \ {s} : txn'[t] = txn[t]
    BY <1>1 DEF TypeOK
  <1>3. Once(saved[s]) /\ Whole(saved[s])
    BY DEF MovesInv, SessionMoves
  <1>4. Once(txn'[s]) /\ Once(saved'[s]) /\ Whole(saved'[s]) /\ Whole(txn'[s])
    BY <1>1, <1>2, <1>3 DEF Once, Whole, Moved
  <1>. QED
    BY <1>1, <1>2, <1>4, NextSaleMoves

\* Requests: sent, answered, lost.
LEMMA RequestMoves ==
  ASSUME Inv, MovesInv, NEW s \in Sessions,
         (\E d \in Devices : Send(d, s)) \/ Respond(s) \/ Crash(s) \/ LoseConnection(s)
  PROVE  MovesInv'
  <1> USE DEF Inv
  <1>1. UNCHANGED <<receipt, moved, live>>
    BY DEF Send, Respond, Crash, LoseConnection, db
  <1>2. SessionMoves(s) /\ SaleInHand(s)
    BY DEF MovesInv, SessionMoves
  <1>3. CASE \E d \in Devices : Send(d, s)
    <2>1. /\ pc[s] = "idle" /\ pc' = [pc EXCEPT ![s] = "look"] /\ txn' = txn /\ saved' = saved
          /\ \E b, n : job' = [job EXCEPT ![s] = NewJob(b, n, {})]
      BY <1>3 DEF Send
    <2>2. /\ pc'[s] = "look" /\ ~job'[s].dead
          /\ \A t \in Sessions \ {s} : pc'[t] = pc[t] /\ job'[t] = job[t]
      BY <2>1 DEF TypeOK, NewJob
    <2>3. SessionMoves(s)'
      BY <1>1, <1>2, <2>1, <2>2 DEF SessionMoves, SaleInHand, Once, Whole, Moved
    <2>. QED
      BY <1>1, <2>1, <2>2, <2>3, OnlySession
  <1>4. CASE Respond(s)
    <2>1. /\ pc[s] = "respond" /\ pc' = [pc EXCEPT ![s] = "commit"]
          /\ txn' = txn /\ saved' = saved /\ job' = job
      BY <1>4 DEF Respond
    <2>2. pc'[s] = "commit" /\ \A t \in Sessions \ {s} : pc'[t] = pc[t]
      BY <2>1 DEF TypeOK
    <2>3. SessionMoves(s)'
      BY <1>1, <1>2, <2>1, <2>2 DEF SessionMoves, SaleInHand, Once, Whole, Moved
    <2>. QED
      BY <1>1, <2>1, <2>2, <2>3, OnlySession
  <1>5. CASE Crash(s) \/ LoseConnection(s)
    <2>1. /\ txn' = [txn EXCEPT ![s] = NoWrites] /\ saved' = [saved EXCEPT ![s] = NoWrites]
          /\ \/ pc' = [pc EXCEPT ![s] = "idle"]
             \/ pc' = [pc EXCEPT ![s] = "respond"]
          /\ \E b, n, a : job' = [job EXCEPT ![s] = NewJob(b, n, a)]
      <3>1. CASE Crash(s)
        <4>1. job' = [job EXCEPT ![s] = NewJob(<<>>, FALSE, {})]
          BY <3>1 DEF Crash, Close, NoJob
        <4>. QED
          BY <3>1, <4>1 DEF Crash, Close
      <3>2. CASE LoseConnection(s)
        <4>1. \E acks : job' = [job EXCEPT ![s] = NewJob(<<>>, job[s].nested, job[s].acks \cup acks)]
          BY <3>2 DEF LoseConnection
        <4>. QED
          BY <3>2, <4>1 DEF LoseConnection
      <3>. QED
        BY <1>5, <3>1, <3>2
    <2>2. /\ txn'[s] = NoWrites /\ saved'[s] = NoWrites /\ ~job'[s].dead
          /\ pc'[s] \in {"idle", "respond"}
          /\ \A t \in Sessions \ {s} : /\ txn'[t] = txn[t] /\ saved'[t] = saved[t]
                                       /\ pc'[t] = pc[t] /\ job'[t] = job[t]
      BY <2>1 DEF TypeOK, NewJob
    <2>3. Once(NoWrites) /\ Whole(NoWrites)'
      BY <1>1, NoWritesMoves DEF Whole, Moved
    <2>4. SessionMoves(s)'
      BY <2>2, <2>3 DEF SessionMoves, SaleInHand, Once, Whole, Moved
    <2>. QED
      BY <1>1, <2>2, <2>4, OnlySession
  <1>. QED
    BY <1>3, <1>4, <1>5

\* The sales of a commit were not stored before, and come with all their movements.
LEMMA CommitMoves ==
  ASSUME Inv, MovesInv, NEW s \in Sessions, Commit(s)
  PROVE  MovesInv'
  <1> USE DEF Inv
  <1>1. /\ pc[s] = "commit" /\ live' = live
        /\ receipt' = [x \in Sales |-> Seen(s, x)]
        /\ moved' = [l \in Lines |-> moved[l] + txn[s].moves[l]]
        /\ Close(s)
    BY DEF Commit
  <1>2. Once(txn[s]) /\ Whole(txn[s]) /\ Consistent(txn[s]) /\ SaleMovesStockOnce
    BY <1>1 DEF MovesInv, SessionMoves, SaleInHand, NumbersInv
  <1>3. /\ moved \in [Lines -> Nat] /\ txn[s].moves \in [Lines -> Nat]
        /\ receipt \in [Sales -> Nat] /\ txn[s].rows \in [Sales -> Nat]
    BY DEF TypeOK, Txn
  <1>4. SaleMovesStockOnce'
    <2> SUFFICES ASSUME NEW l \in Lines
                 PROVE  /\ moved'[l] <= 1
                        /\ moved'[l] = 1 => receipt'[l[1]] # 0
                        /\ receipt'[l[1]] # 0 /\ Items[l[1]][l[2]] \in live => moved'[l] = 1
      BY <1>1 DEF SaleMovesStockOnce
    <2>1. /\ l[1] \in Sales /\ l[2] \in DOMAIN Items[l[1]] /\ l = <<l[1], l[2]>>
          /\ moved[l] \in Nat /\ txn[s].moves[l] \in Nat
      BY <1>3, LineIs
    <2>2. /\ moved'[l] = moved[l] + txn[s].moves[l]
          /\ receipt'[l[1]] = IF txn[s].rows[l[1]] # 0 THEN txn[s].rows[l[1]]
                              ELSE receipt[l[1]]
      BY <1>1, <2>1 DEF Seen
    <2>3. /\ moved[l] <= 1 /\ (moved[l] = 1 => receipt[l[1]] # 0)
          /\ receipt[l[1]] # 0 /\ Items[l[1]][l[2]] \in live => moved[l] = 1
      BY <1>2 DEF SaleMovesStockOnce
    <2>4. txn[s].moves[l] <= 1 /\ (txn[s].moves[l] = 1 => txn[s].rows[l[1]] # 0)
      BY <1>2 DEF Once
    <2>5. txn[s].rows[l[1]] # 0 =>
            /\ receipt[l[1]] = 0
            /\ Items[l[1]][l[2]] \in live => txn[s].moves[l] = 1
      BY <1>2, <2>1 DEF Consistent, Whole, Moved
    <2>6. CASE txn[s].rows[l[1]] # 0
      <3>1. receipt[l[1]] = 0 /\ moved[l] = 0 /\ receipt'[l[1]] # 0
        BY <2>1, <2>2, <2>3, <2>5, <2>6
      <3>2. moved'[l] = txn[s].moves[l]
        BY <2>1, <2>2, <3>1
      <3>. QED
        BY <2>4, <2>5, <2>6, <3>1, <3>2
    <2>7. CASE txn[s].rows[l[1]] = 0
      <3>1. txn[s].moves[l] = 0 /\ receipt'[l[1]] = receipt[l[1]]
        BY <2>1, <2>2, <2>4, <2>7
      <3>2. moved'[l] = moved[l]
        BY <2>1, <2>2, <3>1
      <3>. QED
        BY <2>3, <3>1, <3>2
    <2>. QED
      BY <2>6, <2>7
  <1>5. /\ txn'[s] = NoWrites /\ saved'[s] = NoWrites /\ ~job'[s].dead /\ pc'[s] = "idle"
        /\ \A t \in Sessions \ {s} : /\ txn'[t] = txn[t] /\ saved'[t] = saved[t]
                                     /\ pc'[t] = pc[t] /\ job'[t] = job[t]
    BY <1>1 DEF Close, TypeOK, NoJob, NewJob
  <1>6. SessionMoves(s)'
    <2>1. Once(NoWrites) /\ Whole(NoWrites)'
      BY <1>1, NoWritesMoves DEF Whole, Moved
    <2>. QED
      BY <1>5, <2>1 DEF SessionMoves, SaleInHand, Once, Whole, Moved
  <1>7. ASSUME NEW t \in Sessions \ {s} PROVE SessionMoves(t)'
    BY <1>1, <1>5, <1>7, SessionStays DEF MovesInv
  <1>. QED
    BY <1>4, <1>6, <1>7 DEF MovesInv

\* A deleted product is owed no movement; the other steps touch no sale.
LEMMA OtherMoves ==
  ASSUME MovesInv, UNCHANGED <<receipt, moved, txn, saved, pc, job>>, live' \subseteq live
  PROVE  MovesInv'
  <1>1. SaleMovesStockOnce'
    BY DEF MovesInv, SaleMovesStockOnce
  <1>2. ASSUME NEW s \in Sessions PROVE SessionMoves(s)'
    <2>1. \A x \in Sales : Moved(txn[s], x) => Moved(txn[s], x)'
      BY DEF Moved
    <2>2. Whole(saved[s])' /\ Once(txn[s])' /\ Once(saved[s])'
      BY DEF MovesInv, SessionMoves, Whole, Moved, Once
    <2>3. SessionMoves(s) /\ SaleInHand(s)
      BY DEF MovesInv, SessionMoves
    <2>4. SaleInHand(s)'
      BY <2>1, <2>3 DEF SaleInHand, Whole, Current
    <2>. QED
      BY <2>2, <2>4 DEF SessionMoves
  <1>. QED
    BY <1>1, <1>2 DEF MovesInv

LEMMA InitMoves == Init => MovesInv
  <1> SUFFICES ASSUME Init PROVE MovesInv
    OBVIOUS
  <1>1. SaleMovesStockOnce
    BY LineIs DEF Init, SaleMovesStockOnce
  <1>2. ASSUME NEW s \in Sessions PROVE SessionMoves(s)
    <2>1. /\ txn[s] = NoWrites /\ saved[s] = NoWrites /\ pc[s] = "idle" /\ ~job[s].dead
      BY DEF Init, NoJob, NewJob
    <2>. QED
      BY <2>1, NoWritesMoves DEF SessionMoves, SaleInHand
  <1>. QED
    BY <1>1, <1>2 DEF MovesInv

LEMMA NextMoves ==
  ASSUME Inv, MovesInv, [Next]_vars
  PROVE  MovesInv'
  <1>1. CASE \E s \in Sessions : \/ Progress(s) \/ DeadlockFailsUpdate(s)
                                  \/ SaleFails(s) \/ Crash(s) \/ LoseConnection(s)
    BY <1>1, LookMoves, InsertMoves, TrackMoves, UpdateMoves, DeadlockMoves, FinishMoves,
       FailMoves, RequestMoves, CommitMoves DEF Progress
  <1>2. CASE \E d \in Devices : \E s \in Sessions : Send(d, s)
    BY <1>2, RequestMoves
  <1>3. CASE \/ \E d \in Devices : Timeout(d)
             \/ \E p \in Products : DeleteProduct(p)
             \/ DetachBegin \/ DetachUpdate \/ DetachEnd
             \/ UNCHANGED vars
    <2>1. UNCHANGED <<receipt, moved, txn, saved, pc, job>> /\ live' \subseteq live
      BY <1>3 DEF Timeout, DeleteProduct, DetachBegin, DetachUpdate, DetachEnd, vars, db, server
    <2>. QED
      BY <2>1, OtherMoves
  <1>. QED
    BY <1>1, <1>2, <1>3 DEF Next

\* In every transaction and in the tables, the movements of a sale come with it,
\* once each, and all of them once it is finished: the inductive invariant of
\* record_sale_movements inside create_sale_atomic.
THEOREM MovesCorrect == Spec => []MovesInv
  <1>1. Init => MovesInv
    BY InitMoves
  <1>2. Inv /\ MovesInv /\ [Next]_vars => MovesInv'
    BY NextMoves
  <1>. QED
    BY <1>1, <1>2, InvCorrect, PTL DEF Spec

\* A stored sale has moved the stock of every line whose product still exists, and
\* never twice, for any retries, duplicates, deadlocks and crashes
\* (SaleService.create_sale, InventoryService.record_sale_movements).
THEOREM StockMovesOnce == Spec => []SaleMovesStockOnce
  <1>1. MovesInv => SaleMovesStockOnce
    BY DEF MovesInv
  <1>. QED
    BY <1>1, MovesCorrect, PTL

-----------------------------------------------------------------------------
(* Acknowledgements *)

NoFailure == faults.crash = 0 /\ faults.detach = 0

\* Without a failure nothing is rolled back: what a session is about to answer is in
\* its transaction or stored.
SessionAcks(s) ==
  /\ ~job[s].dead
  /\ \A a \in job[s].acks : a[2] # 0 /\ (txn[s].rows[a[1]] = a[2] \/ receipt[a[1]] = a[2])
  /\ pc[s] \in {"track", "update"} =>
       job[s].number # 0 /\ txn[s].rows[Current(s)] = job[s].number

AcksInv ==
  NoFailure => /\ detach = -1
               /\ AckedSaleIsKept
               /\ \A s \in Sessions : SessionAcks(s)

\* Session s, which is not about to commit, is the only one to move.
LEMMA OnlyAcks ==
  ASSUME AcksInv, NoFailure, NEW s \in Sessions, pc[s] # "commit",
         UNCHANGED <<receipt, told, detach>>,
         \A t \in Sessions \ {s} : txn'[t] = txn[t] /\ pc'[t] = pc[t] /\ job'[t] = job[t],
         SessionAcks(s)'
  PROVE  AcksInv'
  <1>1. AckedSaleIsKept'
    BY DEF AcksInv, AckedSaleIsKept
  <1>2. ASSUME NEW t \in Sessions \ {s} PROVE SessionAcks(t)'
    BY <1>2 DEF AcksInv, SessionAcks, Current
  <1>. QED
    BY <1>1, <1>2 DEF AcksInv

\* The result of a sale is true, so are those before it.
LEMMA NextSaleAcks ==
  ASSUME TypeOK, AcksInv, NoFailure, NEW s \in Sessions, NEW acks, NextSale(s, acks),
         pc[s] # "commit", UNCHANGED <<receipt, told, detach>>,
         \A t \in Sessions \ {s} : txn'[t] = txn[t],
         \A x \in Sales : txn'[s].rows[x] = txn[s].rows[x],
         \A a \in acks : a[2] # 0 /\ (txn[s].rows[a[1]] = a[2] \/ receipt[a[1]] = a[2]),
         acks \subseteq Sales \X Nat
  PROVE  AcksInv'
  <1>1. /\ \A t \in Sessions \ {s} : pc'[t] = pc[t] /\ job'[t] = job[t]
        /\ pc'[s] \in {"look", "respond"} /\ ~job'[s].dead
        /\ job'[s].acks = job[s].acks \cup acks
    BY DEF NextSale, NewJob, TypeOK
  <1>2. SessionAcks(s) /\ job[s].acks \subseteq Sales \X Nat
    BY DEF AcksInv, TypeOK, Job
  <1>3. SessionAcks(s)'
    BY <1>1, <1>2 DEF SessionAcks
  <1>. QED
    BY <1>1, <1>3, OnlyAcks

LEMMA SaleAcks ==
  ASSUME Inv, MovesInv, AcksInv, NoFailure, NEW s \in Sessions,
         Look(s) \/ InsertSale(s) \/ TrackLine(s) \/ UpdateStock(s) \/ FinishSale(s)
  PROVE  AcksInv'
  <1> USE DEF Inv
  <1>1. /\ pc[s] \in {"look", "insert", "track", "update"}
        /\ UNCHANGED <<receipt, told, detach>>
    BY DEF Look, InsertSale, TrackLine, UpdateStock, FinishSale, db, client
  <1>2. /\ Current(s) \in Sales /\ job[s] \in Job /\ txn[s].rows \in [Sales -> Nat]
    BY <1>1, InHandType
  <1>3. SessionAcks(s) /\ SaleInHand(s) /\ job[s].acks \subseteq Sales \X Nat
    BY DEF AcksInv, MovesInv, SessionMoves, TypeOK, Job
  <1>4. CASE Look(s)
    <2>1. txn' = txn /\ pc[s] = "look"
      BY <1>4 DEF Look
    <2>2. CASE Seen(s, Current(s)) # 0
      <3>1. PICK acks : acks = {<<Current(s), Seen(s, Current(s))>>}
        OBVIOUS
      <3>2. NextSale(s, acks)
        BY <1>4, <2>2, <3>1 DEF Look
      <3>3. acks \subseteq Sales \X Nat
        BY <1>2, <3>1, SeenType
      <3>4. \A a \in acks : a[2] # 0 /\ (txn[s].rows[a[1]] = a[2] \/ receipt[a[1]] = a[2])
        BY <2>2, <3>1 DEF Seen
      <3>. QED
        BY <1>1, <2>1, <3>2, <3>3, <3>4, NextSaleAcks
    <2>3. CASE Seen(s, Current(s)) = 0
      <3>1. PICK L : job' = [job EXCEPT ![s].lines = L]
        BY <1>4, <2>3 DEF Look
      <3>2. pc' = [pc EXCEPT ![s] = "insert"]
        BY <1>4, <2>3 DEF Look
      <3>3. /\ pc'[s] = "insert" /\ job'[s] = [job[s] EXCEPT !.lines = L]
            /\ \A t \in Sessions \ {s} : pc'[t] = pc[t] /\ job'[t] = job[t]
        BY <3>1, <3>2 DEF TypeOK
      <3>4. job'[s].acks = job[s].acks /\ job'[s].dead = job[s].dead
        BY <1>2, <3>3 DEF Job
      <3>5. SessionAcks(s)'
        BY <1>1, <1>3, <2>1, <3>3, <3>4 DEF SessionAcks
      <3>. QED
        BY <1>1, <2>1, <3>3, <3>5, OnlyAcks
    <2>. QED
      BY <1>2, <2>2, <2>3, SeenType
  <1>5. CASE InsertSale(s)
    <2>1. pc[s] = "insert" /\ txn[s].rows[Current(s)] = 0
      BY <1>3, <1>5 DEF InsertSale, SaleInHand
    <2>2. CASE receipt[Current(s)] # 0
      <3>1. PICK acks : acks = {<<Current(s), receipt[Current(s)]>>}
        OBVIOUS
      <3>2. NextSale(s, acks) /\ txn' = [txn EXCEPT ![s] = Counted(s, txn[s].rows)]
        BY <1>5, <2>2, <3>1 DEF InsertSale, OnConflict
      <3>3. /\ txn'[s].rows = txn[s].rows
            /\ \A t \in Sessions \ {s} : txn'[t] = txn[t]
        BY <3>2 DEF Counted, TypeOK
      <3>4. acks \subseteq Sales \X Nat
        BY <1>2, <3>1 DEF TypeOK
      <3>5. \A a \in acks : a[2] # 0 /\ (txn[s].rows[a[1]] = a[2] \/ receipt[a[1]] = a[2])
        BY <2>2, <3>1
      <3>. QED
        BY <1>1, <2>1, <3>2, <3>3, <3>4, <3>5, NextSaleAcks
    <2>3. CASE receipt[Current(s)] = 0
      <3>1. PICK number : number = next + txn[s].taken
        OBVIOUS
      <3>2. /\ txn' = [txn EXCEPT ![s] = Counted(s, WithRow(s, number))]
            /\ job' = [job EXCEPT ![s].number = number]
            /\ pc' = [pc EXCEPT ![s] = "track"]
        BY <1>5, <2>3, <3>1 DEF InsertSale
      <3>3. number \in Nat \ {0}
        BY <3>1 DEF TypeOK, Txn
      <3>4. /\ txn'[s].rows = [txn[s].rows EXCEPT ![Current(s)] = number]
            /\ pc'[s] = "track"
            /\ \A t \in Sessions \ {s} : txn'[t] = txn[t] /\ pc'[t] = pc[t] /\ job'[t] = job[t]
        BY <3>2 DEF Counted, WithRow, TypeOK
      <3>5. /\ job'[s] = [job[s] EXCEPT !.number = number]
            /\ job'[s].number = number /\ job'[s].batch = job[s].batch
            /\ job'[s].dead = job[s].dead /\ job'[s].acks = job[s].acks
        BY <1>2, <3>2 DEF TypeOK, Job
      <3>6. Current(s)' = Current(s)
        BY <3>5 DEF Current
      <3>7. /\ txn'[s].rows[Current(s)] = number
            /\ \A x \in Sales \ {Current(s)} : txn'[s].rows[x] = txn[s].rows[x]
        BY <1>2, <3>4
      <3>8. \A a \in job[s].acks : a[2] # 0 /\ (txn'[s].rows[a[1]] = a[2] \/ receipt[a[1]] = a[2])
        BY <1>3, <2>1, <2>3, <3>7 DEF SessionAcks
      <3>9. SessionAcks(s)'
        BY <1>1, <1>3, <3>3, <3>5, <3>6, <3>7, <3>8 DEF SessionAcks
      <3>. QED
        BY <1>1, <3>4, <3>9, OnlyAcks
    <2>. QED
      BY <1>2, <2>2, <2>3 DEF TypeOK
  <1>6. CASE TrackLine(s) \/ UpdateStock(s)
    <2>1. /\ pc[s] \in {"track", "update"}
          /\ pc' = [pc EXCEPT ![s] = "track"] \/ pc' = [pc EXCEPT ![s] = "update"] \/ pc' = pc
          /\ job' = job \/ \E L : job' = [job EXCEPT ![s].lines = L]
      <3>1. CASE TrackLine(s)
        BY <3>1 DEF TrackLine
      <3>2. CASE UpdateStock(s)
        BY <3>2 DEF UpdateStock
      <3>. QED
        BY <1>6, <3>1, <3>2
    <2>2. /\ txn'[s].rows = txn[s].rows
          /\ \A t \in Sessions \ {s} : txn'[t] = txn[t]
      <3>1. CASE TrackLine(s)
        BY <3>1 DEF TrackLine
      <3>2. CASE UpdateStock(s)
        BY <3>2 DEF UpdateStock, TypeOK
      <3>. QED
        BY <1>6, <3>1, <3>2
    <2>3. /\ pc'[s] \in {"track", "update"}
          /\ \A t \in Sessions \ {s} : pc'[t] = pc[t] /\ job'[t] = job[t]
      BY <2>1 DEF TypeOK
    <2>4. /\ job'[s].number = job[s].number /\ job'[s].batch = job[s].batch
          /\ job'[s].dead = job[s].dead /\ job'[s].acks = job[s].acks
      <3>1. CASE job' = job
        BY <3>1
      <3>2. CASE \E L : job' = [job EXCEPT ![s].lines = L]
        <4>1. PICK L : job' = [job EXCEPT ![s].lines = L]
          BY <3>2
        <4>2. job'[s] = [job[s] EXCEPT !.lines = L]
          BY <4>1 DEF TypeOK
        <4>. QED
          BY <1>2, <4>2 DEF Job
      <3>. QED
        BY <2>1, <3>1, <3>2
    <2>5. Current(s)' = Current(s)
      BY <2>4 DEF Current
    <2>6. SessionAcks(s)'
      BY <1>1, <1>3, <2>1, <2>2, <2>3, <2>4, <2>5 DEF SessionAcks
    <2>. QED
      BY <1>1, <2>2, <2>3, <2>6, OnlyAcks
  <1>7. CASE FinishSale(s)
    <2>1. txn' = txn /\ pc[s] = "track"
      BY <1>7 DEF FinishSale
    <2>2. PICK acks : acks = {<<Current(s), job[s].number>>}
      OBVIOUS
    <2>3. NextSale(s, acks)
      BY <1>3, <1>7, <2>2 DEF FinishSale, SessionAcks
    <2>4. acks \subseteq Sales \X Nat
      BY <1>2, <2>2 DEF Job
    <2>5. \A a \in acks : a[2] # 0 /\ (txn[s].rows[a[1]] = a[2] \/ receipt[a[1]] = a[2])
      BY <1>3, <2>1, <2>2 DEF SessionAcks
    <2>. QED
      BY <1>1, <2>1, <2>3, <2>4, <2>5, NextSaleAcks
  <1>. QED
    BY <1>4, <1>5, <1>6, <1>7

\* A sale that fails takes nothing with it of what was answered before.
LEMMA FailAcks ==
  ASSUME Inv, MovesInv, AcksInv, NoFailure, NEW s \in Sessions, SaleFails(s)
  PROVE  AcksInv'
  <1> USE DEF Inv
  <1>1. /\ pc[s] = "insert" /\ UNCHANGED <<receipt, told, detach>> /\ NextSale(s, {})
        /\ txn' = [txn EXCEPT ![s] = saved[s]]
    BY DEF SaleFails, RolledBack, db, client
  <1>2. txn[s] = saved[s]
    BY <1>1 DEF MovesInv, SessionMoves, SaleInHand
  <1>3. txn'[s] = txn[s] /\ \A t \in Sessions \ {s} : txn'[t] = txn[t]
    BY <1>1, <1>2 DEF TypeOK
  <1>. QED
    BY <1>1, <1>3, NextSaleAcks

LEMMA FaultsGrow ==
  ASSUME TypeOK, [Next]_vars, NoFailure'
  PROVE  /\ NoFailure
         /\ \A s \in Sessions : ~Crash(s) /\ ~LoseConnection(s)
         /\ ~DetachBegin
  <1>1. faults \in Faults
    BY DEF TypeOK
  <1>2. \A s \in Sessions : ~Crash(s) /\ ~LoseConnection(s)
    <2> SUFFICES ASSUME NEW s \in Sessions, Crash(s) \/ LoseConnection(s) PROVE FALSE
      OBVIOUS
    <2>1. faults' = [faults EXCEPT !.crash = @ + 1]
      BY DEF Crash, LoseConnection
    <2>2. faults'.crash = faults.crash + 1 /\ faults.crash \in Nat
      BY <1>1, <2>1 DEF Faults
    <2>. QED
      BY <2>2 DEF NoFailure
  <1>3. ~DetachBegin
    <2> SUFFICES ASSUME DetachBegin PROVE FALSE
      OBVIOUS
    <2>1. faults' = [faults EXCEPT !.detach = @ + 1]
      BY DEF DetachBegin
    <2>2. faults'.detach = faults.detach + 1 /\ faults.detach \in Nat
      BY <1>1, <2>1 DEF Faults
    <2>. QED
      BY <2>2 DEF NoFailure
  <1>4. CASE \E d \in Devices : Timeout(d)
    <2>1. faults' = [faults EXCEPT !.timeout = @ + 1]
      BY <1>4 DEF Timeout
    <2>2. faults'.crash = faults.crash /\ faults'.detach = faults.detach
      BY <1>1, <2>1 DEF Faults
    <2>. QED
      BY <1>2, <1>3, <2>2 DEF NoFailure
  <1>5. CASE faults' = faults
    BY <1>2, <1>3, <1>5 DEF NoFailure
  <1>6. CASE \E s \in Sessions : SaleFails(s)
    <2>1. faults' = [faults EXCEPT !.failure = @ + 1]
      BY <1>6 DEF SaleFails
    <2>2. faults'.crash = faults.crash /\ faults'.detach = faults.detach
      BY <1>1, <2>1 DEF Faults
    <2>. QED
      BY <1>2, <1>3, <2>2 DEF NoFailure
  <1>7. \/ \E d \in Devices : Timeout(d)
        \/ \E s \in Sessions : SaleFails(s)
        \/ faults' = faults
    BY <1>2, <1>3 DEF Next, Progress, Send, Look, InsertSale, TrackLine, UpdateStock,
       FinishSale, Respond, Commit, DeadlockFailsUpdate, DeleteProduct, DetachUpdate,
       DetachEnd, vars
  <1>. QED
    BY <1>4, <1>5, <1>6, <1>7

\* What the device is told is what the session answers; it is stored by the commit.
LEMMA RespondAcks ==
  ASSUME Inv, AcksInv, NoFailure, NEW s \in Sessions, Respond(s)
  PROVE  AcksInv'
  <1> USE DEF Inv
  <1>1. /\ pc[s] = "respond" /\ txn' = txn /\ job' = job
        /\ UNCHANGED <<receipt, detach>> /\ pc' = [pc EXCEPT ![s] = "commit"]
    BY DEF Respond, db
  <1>2. /\ pc'[s] = "commit"
        /\ \A t \in Sessions \ {s} : pc'[t] = pc[t]
    BY <1>1 DEF TypeOK
  <1>3. \A t \in Sessions : SessionAcks(t)'
    BY <1>1, <1>2 DEF AcksInv, SessionAcks, Current
  <1>4. AckedSaleIsKept'
    <2> SUFFICES ASSUME NEW x \in Sales, told'[x] # 0
                 PROVE  \/ receipt[x] = told'[x]
                        \/ \E t \in Sessions : pc'[t] = "commit" /\ txn[t].rows[x] = told'[x]
      BY <1>1 DEF AckedSaleIsKept
    <2>1. CASE told'[x] = told[x]
      BY <1>1, <1>2, <2>1 DEF AcksInv, AckedSaleIsKept
    <2>2. CASE told'[x] # told[x]
      <3>1. PICK a \in job[s].acks : a[1] = x /\ told'[x] = a[2]
        <4>1. /\ x \in {a[1] : a \in job[s].acks}
              /\ told'[x] = (CHOOSE a \in job[s].acks : a[1] = x)[2]
          BY <2>2 DEF Respond
        <4>. QED
          BY <4>1
      <3>. QED
        BY <1>2, <3>1 DEF AcksInv, SessionAcks
    <2>. QED
      BY <2>1, <2>2
  <1>. QED
    BY <1>1, <1>3, <1>4 DEF AcksInv

LEMMA CommitAcks ==
  ASSUME Inv, AcksInv, NoFailure, NEW s \in Sessions, Commit(s)
  PROVE  AcksInv'
  <1> USE DEF Inv
  <1>1. /\ receipt' = [x \in Sales |-> Seen(s, x)] /\ Close(s)
        /\ told' = told /\ detach' = detach
    BY DEF Commit, client
  <1>2. /\ txn'[s] = NoWrites /\ pc'[s] = "idle" /\ job'[s] = NoJob
        /\ \A t \in Sessions \ {s} : txn'[t] = txn[t] /\ pc'[t] = pc[t] /\ job'[t] = job[t]
    BY <1>1 DEF Close, TypeOK
  <1>3. \A x \in Sales :
          /\ receipt[x] # 0 => receipt'[x] = receipt[x]
          /\ txn[s].rows[x] # 0 => receipt'[x] = txn[s].rows[x]
    BY <1>1 DEF Seen, NumbersInv, Consistent
  <1>4. AckedSaleIsKept'
    <2> SUFFICES ASSUME NEW x \in Sales, told[x] # 0
                 PROVE  \/ receipt'[x] = told[x]
                        \/ \E t \in Sessions : pc'[t] = "commit" /\ txn'[t].rows[x] = told[x]
      BY <1>1 DEF AckedSaleIsKept
    <2>1. \/ receipt[x] = told[x]
          \/ \E t \in Sessions : pc[t] = "commit" /\ txn[t].rows[x] = told[x]
      BY DEF AcksInv, AckedSaleIsKept
    <2>. QED
      BY <1>2, <1>3, <2>1
  <1>5. ASSUME NEW t \in Sessions PROVE SessionAcks(t)'
    <2>1. CASE t = s
      BY <1>2, <2>1 DEF SessionAcks, NoJob, NewJob
    <2>2. CASE t # s
      <3>1. \A a \in job[t].acks : a[1] \in Sales
        BY DEF TypeOK, Job
      <3>. QED
        BY <1>2, <1>3, <2>2, <3>1 DEF AcksInv, SessionAcks, Current
    <2>. QED
      BY <2>1, <2>2
  <1>. QED
    BY <1>1, <1>4, <1>5 DEF AcksInv

LEMMA NextAcks ==
  ASSUME Inv, MovesInv, AcksInv, [Next]_vars
  PROVE  AcksInv'
  <1> USE DEF Inv
  <1> SUFFICES ASSUME NoFailure' PROVE AcksInv'
    BY DEF AcksInv
  <1>1. /\ NoFailure /\ ~DetachBegin
        /\ \A s \in Sessions : ~Crash(s) /\ ~LoseConnection(s)
    BY FaultsGrow
  <1>2. detach = -1
    BY <1>1 DEF AcksInv
  <1>3. CASE \E s \in Sessions : Look(s) \/ InsertSale(s) \/ TrackLine(s) \/ UpdateStock(s)
                                 \/ FinishSale(s) \/ SaleFails(s) \/ Respond(s) \/ Commit(s)
    BY <1>1, <1>3, SaleAcks, FailAcks, RespondAcks, CommitAcks
  <1>4. CASE \E s \in Sessions : DeadlockFailsUpdate(s)
    \* No category is being deleted: there is nothing to wait for in a circle.
    BY <1>2, <1>4 DEF DeadlockFailsUpdate, Deadlocked, DetachHeld
  <1>5. CASE \E d \in Devices : \E s \in Sessions : Send(d, s)
    <2>1. PICK d \in Devices, s \in Sessions : Send(d, s)
      BY <1>5
    <2>2. PICK batch, nested : job' = [job EXCEPT ![s] = NewJob(batch, nested, {})]
      BY <2>1 DEF Send
    <2>3. /\ pc[s] = "idle" /\ pc'[s] = "look" /\ job'[s] = NewJob(batch, nested, {})
          /\ txn' = txn /\ UNCHANGED <<receipt, told, detach>>
          /\ \A t \in Sessions \ {s} : pc'[t] = pc[t] /\ job'[t] = job[t]
      BY <2>1, <2>2 DEF Send, TypeOK, db
    <2>4. SessionAcks(s)'
      BY <2>3 DEF SessionAcks, NewJob
    <2>. QED
      BY <1>1, <2>3, <2>4, OnlyAcks
  <1>6. CASE \/ \E d \in Devices : Timeout(d)
             \/ \E p \in Products : DeleteProduct(p)
             \/ DetachUpdate \/ DetachEnd
             \/ UNCHANGED vars
    <2>1. UNCHANGED <<receipt, told, txn, pc, job>>
      BY <1>6 DEF Timeout, DeleteProduct, DetachUpdate, DetachEnd, vars, db, server, client
    <2>2. ~DetachUpdate
      BY <1>2 DEF DetachUpdate, DetachWants
    <2>3. detach' = -1
      BY <1>2, <1>6, <2>2 DEF Timeout, DeleteProduct, DetachEnd, vars
    <2>. QED
      BY <1>1, <2>1, <2>3 DEF AcksInv, AckedSaleIsKept, SessionAcks, Current
  <1>. QED
    BY <1>1, <1>3, <1>4, <1>5, <1>6 DEF Next, Progress

\* Without a lost process or a category deletion, what the requests answer is in
\* their transactions or stored.
THEOREM AcksCorrect == Spec => []AcksInv
  <1>1. Init => AcksInv
    BY DEF Init, AcksInv, AckedSaleIsKept, SessionAcks, NoJob, NewJob
  <1>2. Inv /\ MovesInv /\ AcksInv /\ [Next]_vars => AcksInv'
    BY NextAcks
  <1>. QED
    BY <1>1, <1>2, InvCorrect, MovesCorrect, PTL DEF Spec

\* It takes a lost process or a category deletion to lose a sale that a device was
\* told is recorded: for any number of lost answers, retries and duplicates
\* (sync_sales answers before get_db commits).
THEOREM AckedSalesKept == Spec => []AckedSaleIsKeptUnlessFailure
  <1>1. AcksInv => AckedSaleIsKeptUnlessFailure
    BY DEF AcksInv, NoFailure, AckedSaleIsKeptUnlessFailure
  <1>. QED
    BY <1>1, AcksCorrect, PTL

-----------------------------------------------------------------------------
(* Receipt numbers without a hole *)

\* No device has stopped waiting for an answer, so none has repeated a sale.
NoRetry == faults.timeout = 0

\* The numbers of the sales a transaction inserted are the ones it took.
NoGap(tx) ==
  \A n \in Nat \ {0} :
    (\E x \in Sales : tx.rows[x] = n) <=> (next <= n /\ n < next + tx.taken)

\* A request that is not answered yet.
Active(s) == pc[s] \notin {"idle", "commit"}

Acked(s) == {a[1] : a \in job[s].acks}

\* Session s works for device d: the sales it still has to process are in the
\* outbox, each once, and not inserted; those it inserted are in the outbox until
\* the answer, which acknowledges them.
Serves(s, d) ==
  /\ Active(s)
  /\ \A k, m \in DOMAIN job[s].batch : job[s].batch[k] = job[s].batch[m] => k = m
  /\ \A k \in DOMAIN job[s].batch :
       /\ job[s].batch[k] \in queue[d]
       /\ saved[s].rows[job[s].batch[k]] = 0
       /\ k # 1 \/ pc[s] \notin {"track", "update"} => txn[s].rows[job[s].batch[k]] = 0
  /\ \A x \in Sales : txn[s].rows[x] # 0 =>
       /\ x \in queue[d]
       /\ x \in Acked(s) \/ (pc[s] \in {"track", "update"} /\ x = Current(s))
  /\ \A x \in Sales : saved[s].rows[x] # 0 => x \in queue[d] /\ x \in Acked(s)

SessionSent(s) ==
  /\ NoGap(txn[s]) /\ NoGap(saved[s])
  /\ pc[s] = "idle" => txn[s] = NoWrites /\ saved[s] = NoWrites
  /\ pc[s] = "commit" => \A x \in Sales : txn[s].rows[x] # 0 => x \notin queue[Origin[x]]
  /\ Active(s) => \E d \in Devices : waiting[d] = s
  /\ \A d \in Devices : waiting[d] = s => Serves(s, d)

\* What is in an outbox is not stored, and each device has its own request.
Outboxes ==
  /\ \A d \in Devices : \A x \in queue[d] : Origin[x] = d /\ receipt[x] = 0
  /\ \A c, d \in Devices : waiting[c] # None /\ waiting[c] = waiting[d] => c = d

SentInv ==
  NoRetry => /\ ReceiptsWithoutGap
             /\ Outboxes
             /\ \A s \in Sessions : SessionSent(s)

LEMMA NoWritesNoGap ==
  ASSUME next \in Nat PROVE NoGap(NoWrites)
  BY DEF NoGap, NoWrites

\* Only session s moves, it is still to answer, and nothing is stored or answered.
LEMMA OnlySent ==
  ASSUME SentInv, NoRetry, NEW s \in Sessions,
         UNCHANGED <<receipt, next, queue, waiting>>,
         \A t \in Sessions \ {s} : /\ txn'[t] = txn[t] /\ saved'[t] = saved[t]
                                   /\ pc'[t] = pc[t] /\ job'[t] = job[t],
         SessionSent(s)'
  PROVE  SentInv'
  <1>1. ReceiptsWithoutGap' /\ Outboxes'
    BY DEF SentInv, ReceiptsWithoutGap, Outboxes
  <1>2. ASSUME NEW t \in Sessions \ {s} PROVE SessionSent(t)'
    BY <1>2 DEF SentInv, SessionSent, NoGap, Active, Serves, Acked, Current
  <1>. QED
    BY <1>1, <1>2 DEF SentInv

\* A session that goes on with its request, for the device that waits for it: it is
\* enough to look at its own job and transaction.
LEMMA StillServes ==
  ASSUME SentInv, NoRetry, NEW s \in Sessions, Active(s), Active(s)',
         UNCHANGED <<receipt, next, queue, waiting>>,
         \A t \in Sessions \ {s} : /\ txn'[t] = txn[t] /\ saved'[t] = saved[t]
                                   /\ pc'[t] = pc[t] /\ job'[t] = job[t],
         NoGap(txn[s])', NoGap(saved[s])',
         \A d \in Devices : Serves(s, d) => Serves(s, d)'
  PROVE  SentInv'
  <1>1. SessionSent(s)'
    BY DEF SentInv, SessionSent, Active
  <1>. QED
    BY <1>1, OnlySent

\* The current sale is not stored: the device would have dropped it.
LEMMA CurrentIsNew ==
  ASSUME TypeOK, JobOK, SentInv, NoRetry, NEW s \in Sessions,
         pc[s] \in {"look", "insert", "track", "update"}
  PROVE  /\ 1 \in DOMAIN job[s].batch /\ Current(s) = job[s].batch[1]
         /\ receipt[Current(s)] = 0 /\ saved[s].rows[Current(s)] = 0
         /\ pc[s] \notin {"track", "update"} => txn[s].rows[Current(s)] = 0
  <1>1. job[s].batch \in Seq(Sales) /\ job[s].batch # <<>>
    BY DEF TypeOK, JobOK, Job
  <1>2. 1 \in DOMAIN job[s].batch /\ Current(s) = job[s].batch[1]
    BY <1>1 DEF Current
  <1>3. PICK d \in Devices : waiting[d] = s
    BY DEF SentInv, SessionSent, Active
  <1>4. Serves(s, d)
    BY <1>3 DEF SentInv, SessionSent
  <1>5. Current(s) \in queue[d]
    BY <1>2, <1>4 DEF Serves
  <1>. QED
    BY <1>2, <1>4, <1>5 DEF Serves, SentInv, Outboxes

LEMMA LookSent ==
  ASSUME Inv, SentInv, NoRetry, NEW s \in Sessions, Look(s)
  PROVE  SentInv'
  <1> USE DEF Inv
  <1>1. pc[s] = "look" /\ txn' = txn /\ saved' = [saved EXCEPT ![s] = txn[s]]
        /\ UNCHANGED <<receipt, next, queue, waiting>>
    BY DEF Look, db, client
  <1>2. Seen(s, Current(s)) = 0
    BY <1>1, CurrentIsNew DEF Seen
  <1>3. PICK L : job' = [job EXCEPT ![s].lines = L]
    BY <1>2 DEF Look
  <1>4. pc' = [pc EXCEPT ![s] = "insert"]
    BY <1>2 DEF Look
  <1>5. job[s] \in Job
    BY DEF TypeOK
  <1>6. /\ pc'[s] = "insert" /\ saved'[s] = txn[s] /\ txn'[s] = txn[s]
        /\ job'[s] = [job[s] EXCEPT !.lines = L]
        /\ \A t \in Sessions \ {s} : /\ txn'[t] = txn[t] /\ saved'[t] = saved[t]
                                     /\ pc'[t] = pc[t] /\ job'[t] = job[t]
    BY <1>1, <1>3, <1>4 DEF TypeOK
  <1>7. job'[s].batch = job[s].batch /\ job'[s].acks = job[s].acks
    BY <1>5, <1>6 DEF Job
  <1>8. Active(s) /\ Active(s)'
    BY <1>1, <1>6 DEF Active
  <1>9. NoGap(txn[s])' /\ NoGap(saved[s])'
    BY <1>1, <1>6 DEF SentInv, SessionSent, NoGap
  <1>10. ASSUME NEW d \in Devices, Serves(s, d) PROVE Serves(s, d)'
    BY <1>1, <1>6, <1>7, <1>8, <1>10 DEF Serves, Acked
  <1>. QED
    BY <1>1, <1>6, <1>8, <1>9, <1>10, StillServes

LEMMA InsertSent ==
  ASSUME Inv, SentInv, NoRetry, NEW s \in Sessions, InsertSale(s)
  PROVE  SentInv'
  <1> USE DEF Inv
  <1>1. pc[s] = "insert" /\ saved' = saved /\ UNCHANGED <<receipt, next, queue, waiting>>
    BY DEF InsertSale, db, client
  <1>2. /\ receipt[Current(s)] = 0 /\ txn[s].rows[Current(s)] = 0
        /\ 1 \in DOMAIN job[s].batch /\ Current(s) = job[s].batch[1]
    BY <1>1, CurrentIsNew
  <1>3. PICK number : number = next + txn[s].taken
    OBVIOUS
  <1>4. /\ txn' = [txn EXCEPT ![s] = Counted(s, WithRow(s, number))]
        /\ job' = [job EXCEPT ![s].number = number]
        /\ pc' = [pc EXCEPT ![s] = "track"]
    BY <1>2, <1>3 DEF InsertSale
  <1>5. /\ Current(s) \in Sales /\ job[s] \in Job /\ txn[s].rows \in [Sales -> Nat]
        /\ txn[s].taken \in Nat /\ next \in Nat \ {0}
    BY <1>1, InHandType DEF TypeOK, Txn
  <1>6. /\ pc'[s] = "track" /\ job'[s] = [job[s] EXCEPT !.number = number]
        /\ txn'[s].rows = [txn[s].rows EXCEPT ![Current(s)] = number]
        /\ txn'[s].taken = txn[s].taken + 1
        /\ \A t \in Sessions \ {s} : txn'[t] = txn[t] /\ pc'[t] = pc[t] /\ job'[t] = job[t]
    BY <1>4 DEF Counted, WithRow, TypeOK
  <1>7. job'[s].batch = job[s].batch /\ job'[s].acks = job[s].acks
    BY <1>5, <1>6 DEF Job
  <1>8. Active(s) /\ Active(s)'
    BY <1>1, <1>6 DEF Active
  <1>9. /\ txn'[s].rows[Current(s)] = number
        /\ \A x \in Sales \ {Current(s)} : txn'[s].rows[x] = txn[s].rows[x]
    BY <1>5, <1>6
  <1>10. Current(s)' = Current(s)
    BY <1>7 DEF Current
  <1>11. NoGap(saved[s])'
    BY <1>1 DEF SentInv, SessionSent, NoGap
  <1>12. NoGap(txn[s])'
    <2> SUFFICES ASSUME NEW n \in Nat \ {0}
                 PROVE  (\E x \in Sales : txn'[s].rows[x] = n)
                          <=> (next <= n /\ n < next + txn[s].taken + 1)
      BY <1>1, <1>5, <1>6 DEF NoGap
    <2>1. (\E x \in Sales : txn[s].rows[x] = n) <=> (next <= n /\ n < next + txn[s].taken)
      BY DEF SentInv, SessionSent, NoGap
    <2>2. CASE n = number
      BY <1>3, <1>5, <1>9, <2>2
    <2>3. CASE n # number
      <3>1. (\E x \in Sales : txn'[s].rows[x] = n) <=> (\E x \in Sales : txn[s].rows[x] = n)
        BY <1>2, <1>9, <2>3
      <3>. QED
        BY <1>3, <1>5, <2>1, <2>3, <3>1
    <2>. QED
      BY <2>2, <2>3
  <1>13. ASSUME NEW d \in Devices, Serves(s, d) PROVE Serves(s, d)'
    <2>1. job[s].batch \in Seq(Sales)
      BY <1>5 DEF Job
    <2>2. \A k \in DOMAIN job[s].batch : k # 1 => job[s].batch[k] \in Sales \ {Current(s)}
      BY <1>2, <1>13, <2>1 DEF Serves
    <2>3. \A k \in DOMAIN job[s].batch : k # 1 => txn'[s].rows[job[s].batch[k]] = 0
      BY <1>9, <1>13, <2>2 DEF Serves
    <2>4. Current(s) \in queue[d]
      BY <1>2, <1>13 DEF Serves
    <2>5. \A x \in Sales : txn'[s].rows[x] # 0 =>
            x \in queue[d] /\ (x \in Acked(s) \/ x = Current(s))
      BY <1>1, <1>9, <1>13, <2>4 DEF Serves
    <2>6. Acked(s)' = Acked(s)
      BY <1>7 DEF Acked
    <2>. QED
      BY <1>1, <1>6, <1>7, <1>8, <1>10, <1>13, <2>3, <2>5, <2>6 DEF Serves
  <1>. QED
    BY <1>1, <1>6, <1>8, <1>11, <1>12, <1>13, StillServes

LEMMA TrackSent ==
  ASSUME Inv, SentInv, NoRetry, NEW s \in Sessions, TrackLine(s) \/ UpdateStock(s)
  PROVE  SentInv'
  <1> USE DEF Inv
  <1>1. /\ pc[s] \in {"track", "update"} /\ saved' = saved
        /\ UNCHANGED <<receipt, next, queue, waiting>>
        /\ pc' = [pc EXCEPT ![s] = "track"] \/ pc' = [pc EXCEPT ![s] = "update"] \/ pc' = pc
        /\ job' = job \/ \E L : job' = [job EXCEPT ![s].lines = L]
    <2>1. CASE TrackLine(s)
      BY <2>1 DEF TrackLine, db, client
    <2>2. CASE UpdateStock(s)
      BY <2>2 DEF UpdateStock, db, client
    <2>. QED
      BY <2>1, <2>2
  <1>2. /\ txn'[s].rows = txn[s].rows /\ txn'[s].taken = txn[s].taken
        /\ \A t \in Sessions \ {s} : txn'[t] = txn[t]
    <2>1. CASE TrackLine(s)
      BY <2>1 DEF TrackLine
    <2>2. CASE UpdateStock(s)
      BY <2>2 DEF UpdateStock, TypeOK
    <2>. QED
      BY <2>1, <2>2
  <1>3. /\ pc'[s] \in {"track", "update"} /\ job[s] \in Job
        /\ \A t \in Sessions \ {s} : pc'[t] = pc[t] /\ job'[t] = job[t]
    BY <1>1 DEF TypeOK
  <1>4. job'[s].batch = job[s].batch /\ job'[s].acks = job[s].acks
    <2>1. CASE job' = job
      BY <2>1
    <2>2. CASE \E L : job' = [job EXCEPT ![s].lines = L]
      <3>1. PICK L : job' = [job EXCEPT ![s].lines = L]
        BY <2>2
      <3>2. job'[s] = [job[s] EXCEPT !.lines = L]
        BY <3>1 DEF TypeOK
      <3>. QED
        BY <1>3, <3>2 DEF Job
    <2>. QED
      BY <1>1, <2>1, <2>2
  <1>5. Current(s)' = Current(s) /\ Acked(s)' = Acked(s)
    BY <1>4 DEF Current, Acked
  <1>6. Active(s) /\ Active(s)'
    BY <1>1, <1>3 DEF Active
  <1>7. NoGap(txn[s])' /\ NoGap(saved[s])'
    BY <1>1, <1>2 DEF SentInv, SessionSent, NoGap
  <1>8. ASSUME NEW d \in Devices, Serves(s, d) PROVE Serves(s, d)'
    BY <1>1, <1>2, <1>3, <1>4, <1>5, <1>6, <1>8 DEF Serves
  <1>. QED
    BY <1>1, <1>2, <1>3, <1>6, <1>7, <1>8, StillServes

LEMMA DeadlockSent ==
  ASSUME Inv, SentInv, NoRetry, NEW s \in Sessions, DeadlockFailsUpdate(s)
  PROVE  SentInv'
  <1> USE DEF Inv
  <1>1. /\ pc[s] = "update" /\ saved' = saved /\ UNCHANGED <<receipt, next, queue, waiting>>
        /\ pc' = [pc EXCEPT ![s] = "track"] /\ txn' = [txn EXCEPT ![s] = saved[s]]
        /\ job' = [job EXCEPT ![s].dead = TRUE]
    BY DEF DeadlockFailsUpdate, Deadlocked, RolledBack, db, client
  <1>2. /\ pc'[s] = "track" /\ job[s] \in Job /\ txn'[s] = saved[s]
        /\ job'[s] = [job[s] EXCEPT !.dead = TRUE]
        /\ \A t \in Sessions \ {s} : txn'[t] = txn[t] /\ pc'[t] = pc[t] /\ job'[t] = job[t]
    BY <1>1 DEF TypeOK
  <1>3. job'[s].batch = job[s].batch /\ job'[s].acks = job[s].acks
    BY <1>2 DEF Job
  <1>4. Acked(s)' = Acked(s)
    BY <1>3 DEF Acked
  <1>5. Active(s) /\ Active(s)'
    BY <1>1, <1>2 DEF Active
  <1>6. NoGap(txn[s])' /\ NoGap(saved[s])'
    BY <1>1, <1>2 DEF SentInv, SessionSent, NoGap
  <1>7. ASSUME NEW d \in Devices, Serves(s, d) PROVE Serves(s, d)'
    BY <1>1, <1>2, <1>3, <1>4, <1>5, <1>7 DEF Serves
  <1>. QED
    BY <1>1, <1>2, <1>5, <1>6, <1>7, StillServes

\* The answer will acknowledge the sale, unless it is no longer there.
LEMMA FinishSent ==
  ASSUME Inv, MovesInv, SentInv, NoRetry, NEW s \in Sessions, FinishSale(s)
  PROVE  SentInv'
  <1> USE DEF Inv
  <1>1. /\ pc[s] = "track" /\ txn' = txn /\ saved' = saved
        /\ UNCHANGED <<receipt, next, queue, waiting>>
    BY DEF FinishSale, db, client
  <1>2. PICK acks : /\ NextSale(s, acks)
                    /\ acks = IF job[s].dead /\ ~job[s].nested
                              THEN {} ELSE {<<Current(s), job[s].number>>}
    BY DEF FinishSale
  <1>3. txn[s].rows[Current(s)] = 0 \/ Current(s) \in {a[1] : a \in acks}
    <2>1. CASE job[s].dead
      BY <2>1 DEF MovesInv, SessionMoves, SaleInHand
    <2>2. CASE ~job[s].dead
      <3>1. <<Current(s), job[s].number>> \in acks
        BY <1>2, <2>2
      <3>2. <<Current(s), job[s].number>>[1] = Current(s)
        OBVIOUS
      <3>. QED
        BY <3>1, <3>2
    <2>. QED
      BY <2>1, <2>2
  <1>4. /\ \A t \in Sessions \ {s} : pc'[t] = pc[t] /\ job'[t] = job[t]
        /\ pc'[s] \in {"look", "respond"}
        /\ job'[s].acks = job[s].acks \cup acks
        /\ job'[s].batch = Tail(job[s].batch)
    BY <1>2 DEF NextSale, NewJob, TypeOK
  <1>5. /\ job[s].batch \in Seq(Sales) /\ job[s].batch # <<>>
        /\ 1 \in DOMAIN job[s].batch /\ Current(s) = job[s].batch[1]
    BY <1>1, CurrentIsNew DEF TypeOK, JobOK, Job
  <1>6. \A k \in DOMAIN job'[s].batch :
          /\ k \in Nat /\ k # 0 /\ k + 1 \in DOMAIN job[s].batch
          /\ job'[s].batch[k] = job[s].batch[k + 1]
    BY <1>4, <1>5
  <1>7. Active(s) /\ Active(s)'
    BY <1>1, <1>4 DEF Active
  <1>8. NoGap(txn[s])' /\ NoGap(saved[s])'
    BY <1>1 DEF SentInv, SessionSent, NoGap
  <1>9. Acked(s)' = Acked(s) \cup {a[1] : a \in acks}
    BY <1>4 DEF Acked
  <1>10. ASSUME NEW d \in Devices, Serves(s, d) PROVE Serves(s, d)'
    <2>1. \A k, m \in DOMAIN job'[s].batch : job'[s].batch[k] = job'[s].batch[m] => k = m
      <3> SUFFICES ASSUME NEW k \in DOMAIN job'[s].batch, NEW m \in DOMAIN job'[s].batch,
                          job'[s].batch[k] = job'[s].batch[m]
                   PROVE  k = m
        OBVIOUS
      <3>1. k + 1 = m + 1
        BY <1>6, <1>10 DEF Serves
      <3>. QED
        BY <1>6, <3>1
    <2>2. \A k \in DOMAIN job'[s].batch :
            /\ job'[s].batch[k] \in queue[d]
            /\ saved[s].rows[job'[s].batch[k]] = 0
            /\ txn[s].rows[job'[s].batch[k]] = 0
      <3> SUFFICES ASSUME NEW k \in DOMAIN job'[s].batch
                   PROVE  /\ job[s].batch[k + 1] \in queue[d]
                          /\ saved[s].rows[job[s].batch[k + 1]] = 0
                          /\ txn[s].rows[job[s].batch[k + 1]] = 0
        BY <1>6
      <3>1. k + 1 \in DOMAIN job[s].batch /\ k + 1 # 1
        BY <1>6
      <3>. QED
        BY <1>10, <3>1 DEF Serves
    <2>3. \A x \in Sales : txn[s].rows[x] # 0 => x \in queue[d] /\ x \in Acked(s)'
      BY <1>3, <1>9, <1>10 DEF Serves
    <2>4. \A x \in Sales : saved[s].rows[x] # 0 => x \in queue[d] /\ x \in Acked(s)'
      BY <1>9, <1>10 DEF Serves
    <2>. QED
      BY <1>1, <1>7, <2>1, <2>2, <2>3, <2>4 DEF Serves
  <1>. QED
    BY <1>1, <1>4, <1>7, <1>8, <1>10, StillServes

\* A sale that fails is no longer to be processed, and nothing of it stays.
LEMMA FailSent ==
  ASSUME Inv, SentInv, NoRetry, NEW s \in Sessions, SaleFails(s)
  PROVE  SentInv'
  <1> USE DEF Inv
  <1>1. /\ pc[s] = "insert" /\ saved' = saved /\ UNCHANGED <<receipt, next, queue, waiting>>
        /\ txn' = [txn EXCEPT ![s] = saved[s]] /\ NextSale(s, {})
    BY DEF SaleFails, RolledBack, db, client
  <1>2. /\ txn'[s] = saved[s] /\ pc'[s] \in {"look", "respond"}
        /\ \A t \in Sessions \ {s} : txn'[t] = txn[t] /\ pc'[t] = pc[t] /\ job'[t] = job[t]
        /\ job'[s].acks = job[s].acks /\ job'[s].batch = Tail(job[s].batch)
    BY <1>1 DEF NextSale, NewJob, TypeOK
  <1>3. job[s].batch \in Seq(Sales) /\ job[s].batch # <<>>
    BY <1>1 DEF TypeOK, JobOK, Job
  <1>4. \A k \in DOMAIN job'[s].batch :
          /\ k \in Nat /\ k # 0 /\ k + 1 \in DOMAIN job[s].batch
          /\ job'[s].batch[k] = job[s].batch[k + 1]
    BY <1>2, <1>3
  <1>5. Active(s) /\ Active(s)'
    BY <1>1, <1>2 DEF Active
  <1>6. NoGap(txn[s])' /\ NoGap(saved[s])'
    BY <1>1, <1>2 DEF SentInv, SessionSent, NoGap
  <1>7. Acked(s)' = Acked(s)
    BY <1>2 DEF Acked
  <1>8. ASSUME NEW d \in Devices, Serves(s, d) PROVE Serves(s, d)'
    <2>1. \A k, m \in DOMAIN job'[s].batch : job'[s].batch[k] = job'[s].batch[m] => k = m
      <3> SUFFICES ASSUME NEW k \in DOMAIN job'[s].batch, NEW m \in DOMAIN job'[s].batch,
                          job'[s].batch[k] = job'[s].batch[m]
                   PROVE  k = m
        OBVIOUS
      <3>1. k + 1 = m + 1
        BY <1>4, <1>8 DEF Serves
      <3>. QED
        BY <1>4, <3>1
    <2>2. \A k \in DOMAIN job'[s].batch :
            job'[s].batch[k] \in queue[d] /\ saved[s].rows[job'[s].batch[k]] = 0
      BY <1>4, <1>8 DEF Serves
    <2>3. \A x \in Sales : saved[s].rows[x] # 0 => x \in queue[d] /\ x \in Acked(s)'
      BY <1>7, <1>8 DEF Serves
    <2>. QED
      BY <1>1, <1>2, <1>5, <2>1, <2>2, <2>3 DEF Serves
  <1>. QED
    BY <1>1, <1>2, <1>5, <1>6, <1>8, StillServes

LEMMA LostSent ==
  ASSUME Inv, SentInv, NoRetry, NEW s \in Sessions, LoseConnection(s)
  PROVE  SentInv'
  <1> USE DEF Inv
  <1>1. /\ pc[s] \in {"look", "insert", "track", "update"}
        /\ UNCHANGED <<receipt, next, queue, waiting>>
        /\ pc' = [pc EXCEPT ![s] = "respond"]
        /\ txn' = [txn EXCEPT ![s] = NoWrites] /\ saved' = [saved EXCEPT ![s] = NoWrites]
        /\ \E acks : job' = [job EXCEPT ![s] = NewJob(<<>>, job[s].nested, job[s].acks \cup acks)]
    BY DEF LoseConnection, db, client
  <1>2. /\ pc'[s] = "respond" /\ txn'[s] = NoWrites /\ saved'[s] = NoWrites
        /\ job'[s].batch = <<>>
        /\ \A t \in Sessions \ {s} : /\ txn'[t] = txn[t] /\ saved'[t] = saved[t]
                                     /\ pc'[t] = pc[t] /\ job'[t] = job[t]
    BY <1>1 DEF TypeOK, NewJob
  <1>3. \A x \in Sales : NoWrites.rows[x] = 0
    BY DEF NoWrites
  <1>4. Active(s) /\ Active(s)'
    BY <1>1, <1>2 DEF Active
  <1>5. NoGap(NoWrites)
    BY NoWritesNoGap DEF TypeOK
  <1>6. NoGap(txn[s])' /\ NoGap(saved[s])'
    BY <1>1, <1>2, <1>5 DEF NoGap
  <1>7. ASSUME NEW d \in Devices, Serves(s, d) PROVE Serves(s, d)'
    <2>1. DOMAIN job'[s].batch = {}
      BY <1>2
    <2>. QED
      BY <1>2, <1>3, <1>4, <2>1 DEF Serves
  <1>. QED
    BY <1>1, <1>2, <1>4, <1>6, <1>7, StillServes

\* A device sends what is in its outbox, each sale once; no request of its own is
\* open, and the session is new.
LEMMA SendSent ==
  ASSUME Inv, SentInv, NoRetry, NEW d \in Devices, NEW s \in Sessions, Send(d, s)
  PROVE  SentInv'
  <1> USE DEF Inv
  <1>1. /\ waiting[d] = None /\ pc[s] = "idle" /\ queue[d] # {}
        /\ UNCHANGED <<receipt, next, txn, saved, queue>>
        /\ pc' = [pc EXCEPT ![s] = "look"] /\ waiting' = [waiting EXCEPT ![d] = s]
    BY DEF Send, db
  <1>2. PICK nested \in BOOLEAN :
          \E b \in IF nested THEN Orders(queue[d]) ELSE {<<x>> : x \in queue[d]} :
            job' = [job EXCEPT ![s] = NewJob(b, nested, {})]
    BY DEF Send
  <1>3. PICK b \in IF nested THEN Orders(queue[d]) ELSE {<<x>> : x \in queue[d]} :
          job' = [job EXCEPT ![s] = NewJob(b, nested, {})]
    BY <1>2
  <1>4. queue[d] \in SUBSET Sales
    BY DEF TypeOK
  <1>5. /\ \A k, m \in DOMAIN b : b[k] = b[m] => k = m
        /\ \A k \in DOMAIN b : b[k] \in queue[d]
    <2>1. CASE nested
      <3>1. b \in [1..Cardinality(queue[d]) -> queue[d]] /\ IsInjective(b)
        BY <2>1 DEF Orders
      <3>. QED
        BY <3>1 DEF IsInjective
    <2>2. CASE ~nested
      <3>1. PICK x \in queue[d] : b = <<x>>
        BY <2>2
      <3>. QED
        BY <3>1
    <2>. QED
      BY <2>1, <2>2
  <1>6. /\ pc'[s] = "look" /\ job'[s].batch = b /\ waiting'[d] = s
        /\ \A t \in Sessions \ {s} : pc'[t] = pc[t] /\ job'[t] = job[t]
        /\ \A c \in Devices \ {d} : waiting'[c] = waiting[c]
    BY <1>1, <1>3 DEF TypeOK, NewJob
  <1>7. txn[s] = NoWrites /\ saved[s] = NoWrites
    BY <1>1 DEF SentInv, SessionSent
  <1>8. \A x \in Sales : NoWrites.rows[x] = 0
    BY DEF NoWrites
  <1>9. \A c \in Devices : waiting[c] # s
    BY <1>1 DEF SentInv, SessionSent, Serves, Active
  <1>10. ReceiptsWithoutGap' /\ Outboxes'
    BY <1>1, <1>6, <1>9 DEF SentInv, ReceiptsWithoutGap, Outboxes
  <1>11. Serves(s, d)'
    BY <1>1, <1>4, <1>5, <1>6, <1>7, <1>8 DEF Serves, Active
  <1>12. SessionSent(s)'
    BY <1>1, <1>6, <1>9, <1>11 DEF SentInv, SessionSent, NoGap
  <1>13. ASSUME NEW t \in Sessions \ {s} PROVE SessionSent(t)'
    <2>1. \A c \in Devices : waiting'[c] = t <=> waiting[c] = t
      BY <1>1, <1>6, SalePushAssumption
    <2>. QED
      BY <1>1, <1>6, <1>13, <2>1 DEF SentInv, SessionSent, NoGap, Active, Serves, Acked, Current
  <1>. QED
    BY <1>10, <1>12, <1>13 DEF SentInv

\* The device drops what the answer acknowledges: all that the session inserted.
LEMMA RespondSent ==
  ASSUME Inv, SentInv, NoRetry, NEW s \in Sessions, Respond(s)
  PROVE  SentInv'
  <1> USE DEF Inv
  <1>1. /\ pc[s] = "respond" /\ pc' = [pc EXCEPT ![s] = "commit"]
        /\ UNCHANGED <<receipt, next, job, txn, saved>>
        /\ waiting' = [c \in Devices |-> IF c \in {d \in Devices : waiting[d] = s} THEN None ELSE waiting[c]]
        /\ queue' = [c \in Devices |-> IF c \in {d \in Devices : waiting[d] = s}
                                       THEN queue[c] \ Acked(s) ELSE queue[c]]
    BY DEF Respond, db, Acked
  <1>2. PICK d \in Devices : waiting[d] = s
    BY <1>1 DEF SentInv, SessionSent, Active
  <1>3. Serves(s, d) /\ \A c \in Devices : waiting[c] = s <=> c = d
    BY <1>2, SalePushAssumption DEF SentInv, SessionSent, Outboxes
  <1>4. /\ waiting'[d] = None /\ queue'[d] = queue[d] \ Acked(s)
        /\ \A c \in Devices \ {d} : waiting'[c] = waiting[c] /\ queue'[c] = queue[c]
    BY <1>1, <1>3
  <1>5. pc'[s] = "commit" /\ \A t \in Sessions \ {s} : pc'[t] = pc[t]
    BY <1>1 DEF TypeOK
  <1>6. ReceiptsWithoutGap' /\ Outboxes'
    BY <1>1, <1>4 DEF SentInv, ReceiptsWithoutGap, Outboxes
  <1>7. SessionSent(s)'
    <2>1. ASSUME NEW x \in Sales, txn[s].rows[x] # 0 PROVE x \notin queue'[Origin[x]]
      <3>1. x \in queue[d] /\ x \in Acked(s)
        BY <1>1, <1>3, <2>1 DEF Serves
      <3>2. Origin[x] = d
        BY <3>1 DEF SentInv, Outboxes
      <3>. QED
        BY <1>4, <3>1, <3>2
    <2>2. \A c \in Devices : waiting'[c] # s
      BY <1>3, <1>4, SalePushAssumption
    <2>. QED
      BY <1>1, <1>5, <2>1, <2>2 DEF SentInv, SessionSent, NoGap, Active
  <1>8. ASSUME NEW t \in Sessions \ {s} PROVE SessionSent(t)'
    <2>1. \A c \in Devices : waiting'[c] = t <=> waiting[c] = t
      BY <1>3, <1>4, <1>8, SalePushAssumption
    <2>2. \A c \in Devices : waiting[c] = t => queue'[c] = queue[c]
      BY <1>3, <1>4, <1>8
    <2>3. \A x \in Sales : x \notin queue[Origin[x]] => x \notin queue'[Origin[x]]
      BY <1>4, SalePushAssumption
    <2>4. SessionSent(t)
      BY DEF SentInv
    <2>5. NoGap(txn[t])' /\ NoGap(saved[t])'
      BY <1>1, <2>4 DEF SessionSent, NoGap
    <2>6. ASSUME NEW c \in Devices, waiting[c] = t PROVE Serves(t, c)'
      <3>1. Serves(t, c) /\ queue'[c] = queue[c]
        BY <2>2, <2>4, <2>6 DEF SessionSent
      <3>. QED
        BY <1>1, <1>5, <1>8, <3>1 DEF Serves, Active, Acked, Current
    <2>. QED
      BY <1>1, <1>5, <1>8, <2>1, <2>3, <2>4, <2>5, <2>6 DEF SessionSent, Active
  <1>. QED
    BY <1>6, <1>7, <1>8 DEF SentInv

\* The numbers of the transaction follow the stored ones.  A session that took
\* numbers holds the store row: no other has taken any.
LEMMA CommitSent ==
  ASSUME Inv, SentInv, NoRetry, NEW s \in Sessions, Commit(s)
  PROVE  SentInv'
  <1> USE DEF Inv
  <1>1. /\ pc[s] = "commit" /\ receipt' = [x \in Sales |-> Seen(s, x)]
        /\ next' = next + txn[s].taken /\ Close(s) /\ UNCHANGED <<queue, waiting>>
    BY DEF Commit, client
  <1>2. /\ txn'[s] = NoWrites /\ saved'[s] = NoWrites /\ pc'[s] = "idle"
        /\ \A t \in Sessions \ {s} : /\ txn'[t] = txn[t] /\ saved'[t] = saved[t]
                                     /\ pc'[t] = pc[t] /\ job'[t] = job[t]
    BY <1>1 DEF Close, TypeOK
  <1>3. /\ next \in Nat \ {0} /\ txn[s].taken \in Nat /\ txn[s].rows \in [Sales -> Nat]
        /\ receipt \in [Sales -> Nat] /\ Consistent(txn[s]) /\ SessionSent(s)
    BY DEF TypeOK, Txn, NumbersInv, SentInv
  <1>4. \A x \in Sales : receipt'[x] = IF txn[s].rows[x] # 0 THEN txn[s].rows[x] ELSE receipt[x]
    BY <1>1 DEF Seen
  <1>5. ReceiptsWithoutGap'
    <2>1. \A n \in Nat \ {0} : (\E x \in Sales : receipt[x] = n) <=> n < next
      <3>1. {receipt[x] : x \in Sales} \ {0} = 1 .. (next - 1)
        BY DEF SentInv, ReceiptsWithoutGap
      <3> SUFFICES ASSUME NEW n \in Nat \ {0} PROVE (\E x \in Sales : receipt[x] = n) <=> n < next
        OBVIOUS
      <3>2. (\E x \in Sales : receipt[x] = n) <=> n \in {receipt[x] : x \in Sales} \ {0}
        OBVIOUS
      <3>. QED
        BY <1>3, <3>1, <3>2
    <2>2. \A n \in Nat \ {0} : (\E x \in Sales : receipt'[x] = n)
                                 <=> \/ \E x \in Sales : receipt[x] = n
                                     \/ \E x \in Sales : txn[s].rows[x] = n
      BY <1>3, <1>4 DEF Consistent
    <2>3. \A n \in Nat \ {0} : (\E x \in Sales : receipt'[x] = n) <=> n < next'
      BY <1>1, <1>3, <2>1, <2>2 DEF SessionSent, NoGap
    <2>4. \A n : n \in {receipt'[x] : x \in Sales} \ {0} <=> n \in 1 .. (next' - 1)
      <3>1. next' \in Nat \ {0} /\ \A x \in Sales : receipt'[x] \in Nat
        BY <1>1, <1>3, <1>4
      <3> SUFFICES ASSUME NEW n PROVE n \in {receipt'[x] : x \in Sales} \ {0} <=> n \in 1 .. (next' - 1)
        OBVIOUS
      <3>2. n \in {receipt'[x] : x \in Sales} \ {0} <=> n \in Nat \ {0} /\ \E x \in Sales : receipt'[x] = n
        BY <3>1
      <3>3. n \in 1 .. (next' - 1) <=> n \in Nat \ {0} /\ n < next'
        BY <3>1
      <3>. QED
        BY <2>3, <3>2, <3>3
    <2>. QED
      BY <2>4 DEF ReceiptsWithoutGap
  <1>6. \A d \in Devices : \A x \in queue[d] : Origin[x] = d /\ receipt'[x] = 0
    <2> SUFFICES ASSUME NEW d \in Devices, NEW x \in queue[d] PROVE Origin[x] = d /\ receipt'[x] = 0
      OBVIOUS
    <2>1. x \in Sales /\ Origin[x] = d /\ receipt[x] = 0
      BY DEF TypeOK, SentInv, Outboxes
    <2>. QED
      BY <1>1, <1>3, <1>4, <2>1 DEF SessionSent
  <1>7. Outboxes'
    BY <1>1, <1>6 DEF SentInv, Outboxes
  <1>8. next' \in Nat
    BY <1>1, <1>3
  <1>9. NoGap(NoWrites)'
    <2>1. \A x \in Sales : NoWrites.rows[x] = 0
      BY DEF NoWrites
    <2>2. NoWrites.taken = 0
      BY DEF NoWrites
    <2>. QED
      BY <1>8, <2>1, <2>2 DEF NoGap
  <1>10. SessionSent(s)'
    <2>1. \A d \in Devices : waiting[d] # s
      BY <1>1 DEF SentInv, SessionSent, Serves, Active
    <2>. QED
      BY <1>1, <1>2, <1>9, <2>1 DEF SessionSent, NoGap, Active
  <1>11. ASSUME NEW t \in Sessions \ {s} PROVE SessionSent(t)'
    <2>1. SessionSent(t) /\ Consistent(txn[t]) /\ Consistent(saved[t])
          /\ saved[t].locks \subseteq txn[t].locks /\ txn[t].taken \in Nat /\ saved[t].taken \in Nat
      BY DEF SentInv, NumbersInv, TypeOK, Txn
    <2>2. NoGap(txn[t])' /\ NoGap(saved[t])'
      <3>1. CASE txn[s].taken = 0
        <4>1. next' = next
          BY <1>1, <1>3, <3>1
        <4>. QED
          BY <1>2, <1>11, <2>1, <4>1 DEF SessionSent, NoGap
      <3>2. CASE txn[s].taken # 0
        <4>1. StoreRow \in txn[s].locks
          BY <1>3, <3>2 DEF Consistent
        <4>2. StoreRow \notin txn[t].locks /\ StoreRow \notin saved[t].locks
          BY <1>11, <2>1, <4>1 DEF NumbersInv
        <4>3. /\ txn[t].taken = 0 /\ \A x \in Sales : txn[t].rows[x] = 0
              /\ saved[t].taken = 0 /\ \A x \in Sales : saved[t].rows[x] = 0
          BY <2>1, <4>2 DEF Consistent
        <4>. QED
          BY <1>2, <1>8, <1>11, <4>3 DEF NoGap
      <3>. QED
        BY <3>1, <3>2
    <2>3. ASSUME NEW d \in Devices, waiting[d] = t PROVE Serves(t, d)'
      BY <1>1, <1>2, <1>11, <2>1, <2>3 DEF SessionSent, Serves, Active, Acked, Current
    <2>. QED
      BY <1>1, <1>2, <1>11, <2>1, <2>2, <2>3 DEF SessionSent, Active
  <1>. QED
    BY <1>5, <1>7, <1>10, <1>11 DEF SentInv

LEMMA CrashSent ==
  ASSUME Inv, SentInv, NoRetry, NEW s \in Sessions, Crash(s)
  PROVE  SentInv'
  <1> USE DEF Inv
  <1>1. /\ UNCHANGED <<receipt, next, queue>> /\ Close(s)
        /\ waiting' = [c \in Devices |-> IF waiting[c] = s THEN None ELSE waiting[c]]
    BY DEF Crash, db
  <1>2. /\ txn'[s] = NoWrites /\ saved'[s] = NoWrites /\ pc'[s] = "idle"
        /\ \A t \in Sessions \ {s} : /\ txn'[t] = txn[t] /\ saved'[t] = saved[t]
                                     /\ pc'[t] = pc[t] /\ job'[t] = job[t]
    BY <1>1 DEF Close, TypeOK
  <1>3. ReceiptsWithoutGap' /\ Outboxes'
    BY <1>1 DEF SentInv, ReceiptsWithoutGap, Outboxes
  <1>4. SessionSent(s)'
    <2>1. \A c \in Devices : waiting'[c] # s
      BY <1>1, SalePushAssumption
    <2>2. NoGap(NoWrites)
      BY NoWritesNoGap DEF TypeOK
    <2>. QED
      BY <1>1, <1>2, <2>1, <2>2 DEF SessionSent, NoGap, Active
  <1>5. ASSUME NEW t \in Sessions \ {s} PROVE SessionSent(t)'
    <2>1. \A c \in Devices : waiting'[c] = t <=> waiting[c] = t
      BY <1>1, <1>5, SalePushAssumption
    <2>. QED
      BY <1>1, <1>2, <1>5, <2>1 DEF SentInv, SessionSent, NoGap, Active, Serves, Acked, Current
  <1>. QED
    BY <1>3, <1>4, <1>5 DEF SentInv

\* A device that stops waiting is counted, for good.
LEMMA TimeoutsCounted ==
  ASSUME TypeOK, [Next]_vars, NoRetry'
  PROVE  NoRetry /\ \A d \in Devices : ~Timeout(d)
  <1>1. faults \in Faults
    BY DEF TypeOK
  <1>2. \A d \in Devices : ~Timeout(d)
    <2> SUFFICES ASSUME NEW d \in Devices, Timeout(d) PROVE FALSE
      OBVIOUS
    <2>1. faults' = [faults EXCEPT !.timeout = @ + 1]
      BY DEF Timeout
    <2>2. faults'.timeout = faults.timeout + 1 /\ faults.timeout \in Nat
      BY <1>1, <2>1 DEF Faults
    <2>. QED
      BY <2>2 DEF NoRetry
  <1>3. \/ faults' = faults
        \/ faults' = [faults EXCEPT !.crash = @ + 1]
        \/ faults' = [faults EXCEPT !.detach = @ + 1]
        \/ faults' = [faults EXCEPT !.failure = @ + 1]
    BY <1>2 DEF Next, Progress, Send, Look, InsertSale, TrackLine, UpdateStock, SaleFails,
       FinishSale, Respond, Commit, DeadlockFailsUpdate, Crash, LoseConnection,
       DeleteProduct, DetachBegin, DetachUpdate, DetachEnd, vars
  <1>4. faults'.timeout = faults.timeout
    BY <1>1, <1>3 DEF Faults
  <1>. QED
    BY <1>2, <1>4 DEF NoRetry

LEMMA NextSent ==
  ASSUME Inv, MovesInv, SentInv, [Next]_vars
  PROVE  SentInv'
  <1> SUFFICES ASSUME NoRetry' PROVE SentInv'
    BY DEF SentInv
  <1>1. NoRetry /\ \A d \in Devices : ~Timeout(d)
    BY TimeoutsCounted DEF Inv
  <1>2. CASE \E s \in Sessions : \/ Progress(s) \/ DeadlockFailsUpdate(s)
                                  \/ SaleFails(s) \/ Crash(s) \/ LoseConnection(s)
    BY <1>1, <1>2, LookSent, FailSent, InsertSent, TrackSent, FinishSent, RespondSent, CommitSent,
       DeadlockSent, CrashSent, LostSent DEF Progress
  <1>3. CASE \E d \in Devices : \E s \in Sessions : Send(d, s)
    BY <1>1, <1>3, SendSent
  <1>4. CASE \/ \E p \in Products : DeleteProduct(p)
             \/ DetachBegin \/ DetachUpdate \/ DetachEnd
             \/ UNCHANGED vars
    <2>1. UNCHANGED <<receipt, next, server, client>>
      BY <1>4 DEF DeleteProduct, DetachBegin, DetachUpdate, DetachEnd, vars, db
    <2>2. UNCHANGED <<receipt, next, pc, job, txn, saved, queue, waiting>>
      BY <2>1 DEF server, client
    <2>3. ReceiptsWithoutGap' /\ Outboxes'
      BY <1>1, <2>2 DEF SentInv, ReceiptsWithoutGap, Outboxes
    <2>4. ASSUME NEW t \in Sessions PROVE SessionSent(t)'
      BY <1>1, <2>2 DEF SentInv, SessionSent, NoGap, Active, Serves, Acked, Current
    <2>. QED
      BY <2>3, <2>4 DEF SentInv
  <1>. QED
    BY <1>1, <1>2, <1>3, <1>4 DEF Next

LEMMA InitSent == Init => SentInv
  <1> SUFFICES ASSUME Init PROVE SentInv
    OBVIOUS
  <1>1. /\ receipt = [x \in Sales |-> 0] /\ next = 1
        /\ \A s \in Sessions : txn[s] = NoWrites /\ saved[s] = NoWrites /\ pc[s] = "idle"
        /\ \A d \in Devices : waiting[d] = None /\ queue[d] = {x \in Sales : Origin[x] = d}
    BY DEF Init, FirstReceipt
  <1>2. NoGap(NoWrites)
    BY <1>1, NoWritesNoGap
  <1>3. ReceiptsWithoutGap
    <2>1. {receipt[x] : x \in Sales} \ {0} = {}
      BY <1>1
    <2>2. 1 .. (next - 1) = {}
      BY <1>1
    <2>. QED
      BY <2>1, <2>2 DEF ReceiptsWithoutGap
  <1>4. Outboxes
    BY <1>1 DEF Outboxes
  <1>5. ASSUME NEW s \in Sessions PROVE SessionSent(s)
    BY <1>1, <1>2, SalePushAssumption DEF SessionSent, Active
  <1>. QED
    BY <1>3, <1>4, <1>5 DEF SentInv

\* Until a device repeats a sale, what its request inserted stays in its outbox until
\* the answer, and each transaction inserts as many sales as it takes numbers.
THEOREM SentCorrect == Spec => []SentInv
  <1>1. Inv /\ MovesInv /\ SentInv /\ [Next]_vars => SentInv'
    BY NextSent
  <1>. QED
    BY <1>1, InitSent, InvCorrect, MovesCorrect, PTL DEF Spec

\* It takes a sale sent again while a request for it is open to leave a hole in the
\* receipt numbers: the trigger counts for a row that ON CONFLICT then drops.
\* Crashes, lost connections and rollbacks to a SAVEPOINT give the numbers back.
THEOREM NoGapWithoutRetry == Spec => []GapsNeedRetries
  <1>1. SentInv => GapsNeedRetries
    BY DEF SentInv, NoRetry, GapsNeedRetries
  <1>. QED
    BY <1>1, SentCorrect, PTL
=============================================================================
