-------------------------- MODULE StorePurgeProofs ---------------------------
(***************************************************************************)
(* Proofs about StorePurge, for any rows that follow the schema and any    *)
(* number of requests that write or delete: a deletion takes everything or *)
(* nothing, and an account refines AccountLife.                            *)
(***************************************************************************)
EXTENDS StorePurge, TLAPS

-----------------------------------------------------------------------------
(* The invariant *)

\* A unit a device sends: rows, none of them an account or a store.
Sendable(unit) ==
    unit # <<>> /\ \A i \in DOMAIN unit : Table[unit[i]] \notin {"users", "stores"}

Wrote(s) == tx[s].done \cup tx[s].unit

\* What a request has inserted lies in a store that is there.
WriterInv(s) ==
    tx[s] # None =>
        /\ \A k \in DOMAIN tx[s].todo : Sendable(tx[s].todo[k])
        /\ \A r \in Wrote(s) : /\ Table[r] \notin {"users", "stores"}
                               /\ \A p \in Refs[r] : Table[p] = "stores" => p \in rows

\* A deletion that has taken the store has taken all but the account, then all.
OwnerInv(s) ==
    tx[s] # None =>
        /\ tx[s].found # None => \A r \in tx[s].found : Table[r] = Deletes[tx[s].step]
        /\ tx[s].step > 10 => /\ \E r \in tx[s].gone : Table[r] = "stores"
                              /\ \A q \in rows : Table[q] # "users" => q \in tx[s].gone
        /\ tx[s].step = 11 /\ tx[s].found # None =>
              \A q \in rows : Table[q] = "users" => q \in tx[s].found
        /\ tx[s].step > 11 => rows \subseteq tx[s].gone

\* No one refers to, nor deletes, a row that a deletion has taken.
Apart == \A o \in Owners : \A s \in Sessions : s # o => Held(o) \cap Held(s) = {}

PurgeInv ==
    /\ TypeOK /\ tx \in [Sessions -> Purge \cup Work \cup {None}]
    /\ AllOrNothing
    /\ \A s \in Writers : WriterInv(s)
    /\ \A s \in Owners : OwnerInv(s)
    /\ Apart

-----------------------------------------------------------------------------
(* The schema *)

LEMMA Steps == Len(Deletes) = 11 /\ Deletes[10] = "stores" /\ Deletes[11] = "users"
  BY DEF Deletes

\* What lies in a store refers to it by a key that restricts or cascades.
LEMMA InStore ==
  ASSUME NEW q \in Rows, Table[q] # "users", NEW p \in Rows, Table[p] = "stores", q # p
  PROVE  /\ Table[q] \notin {"users", "stores"} /\ p \in Refs[q]
         /\ OnDelete[q][p] \in {"restrict", "cascade"}
  <1>1. Table[q] \notin {"users", "stores"}
    BY SchemaAssumption
  <1>2. PICK r \in Refs[q] : Table[r] = "stores"
    BY <1>1, SchemaAssumption
  <1>3. r = p
    BY <1>2, PurgeAssumption, SchemaAssumption
  <1>4. OnDelete[q][p] = ForeignKeys[Table[q]]["stores"]
    BY <1>2, <1>3 DEF OnDelete
  <1>5. Table[q] \in DOMAIN ForeignKeys
    BY SchemaAssumption
  <1>6. /\ LogoKeys["stores"] = "cascade" /\ CategoryKeys["stores"] = "restrict"
        /\ ProductKeys["stores"] = "restrict" /\ ImageKeys["stores"] = "restrict"
        /\ SaleKeys["stores"] = "restrict" /\ ItemKeys["stores"] = "restrict"
        /\ ReturnKeys["stores"] = "restrict" /\ ReturnItemKeys["stores"] = "restrict"
        /\ MovementKeys["stores"] = "restrict"
    BY DEF LogoKeys, CategoryKeys, ProductKeys, ImageKeys, SaleKeys, ItemKeys, ReturnKeys,
       ReturnItemKeys, MovementKeys
  <1>7. ForeignKeys[Table[q]] \in {LogoKeys, CategoryKeys, ProductKeys, ImageKeys, SaleKeys,
                                   ItemKeys, ReturnKeys, ReturnItemKeys, MovementKeys}
    BY <1>1, <1>5 DEF ForeignKeys
  <1>. QED
    BY <1>1, <1>2, <1>3, <1>4, <1>6, <1>7

\* What a deletion that begins, or goes on to the next table, is made of.
LEMMA PurgeIs ==
  ASSUME NEW step \in 1..12, NEW gone \in SUBSET Rows
  PROVE  LET t == [step |-> step, found |-> None, gone |-> gone]
         IN t \in Purge /\ t.step = step /\ t.found = None /\ t.gone = gone
  <1>1. Purge = [step: 1..12, found: (SUBSET Rows) \cup {None}, gone: SUBSET Rows]
    BY Steps DEF Purge
  <1>2. PICK found \in (SUBSET Rows) \cup {None} : found = None
    OBVIOUS
  <1>3. PICK t : t = [step |-> step, found |-> found, gone |-> gone]
    OBVIOUS
  <1>4. t \in Purge
    BY <1>1, <1>3
  <1>5. t.step = step /\ t.found = found /\ t.gone = gone
    BY <1>3
  <1>. QED
    BY <1>2, <1>3, <1>4, <1>5, Zenon

-----------------------------------------------------------------------------
(* Consequences of the invariant *)

LEMMA OwnerType ==
  ASSUME PurgeInv, NEW s \in Owners, tx[s] # None
  PROVE  /\ tx[s] \in Purge /\ tx[s].gone \subseteq rows /\ Held(s) = tx[s].gone
         /\ tx[s].step \in 1..12 /\ tx[s].found \in (SUBSET Rows) \cup {None}
         /\ tx[s].gone \in SUBSET Rows
  BY Steps DEF PurgeInv, TypeOK, Held, Purge

LEMMA WriterType ==
  ASSUME PurgeInv, NEW s \in Writers, tx[s] # None
  PROVE  /\ tx[s] \in Work /\ Held(s) = Referred(s)
         /\ tx[s].job \in Jobs /\ tx[s].todo \in Seq(Seq(Rows))
         /\ tx[s].unit \in SUBSET Rows /\ tx[s].done \in SUBSET Rows
  BY PurgeAssumption DEF PurgeInv, TypeOK, Held, Work

\* A request that inserted something holds the store.
LEMMA HoldsStore ==
  ASSUME PurgeInv, NEW s \in Writers, tx[s] # None, NEW r \in Wrote(s)
  PROVE  \E p \in Held(s) : Table[p] = "stores" /\ p \in rows
  <1>1. r \in Rows
    BY WriterType DEF Wrote
  <1>2. Table[r] \notin {"users", "stores"} /\ \A p \in Refs[r] : Table[p] = "stores" => p \in rows
    BY DEF PurgeInv, WriterInv
  <1>3. PICK p \in Refs[r] : Table[p] = "stores"
    BY <1>1, <1>2, SchemaAssumption
  <1>4. p \in Referred(s)
    BY <1>3 DEF Referred, Wrote
  <1>. QED
    BY <1>2, <1>3, <1>4, WriterType

\* So it has inserted nothing once a deletion has taken the store.
LEMMA TakenStore ==
  ASSUME PurgeInv, NEW s \in Writers, tx[s] # None,
         NEW o \in Owners, tx[o] # None, tx[o].step > 10
  PROVE  Wrote(s) = {}
  <1> SUFFICES ASSUME NEW r \in Wrote(s) PROVE FALSE
    OBVIOUS
  <1>1. PICK p \in Held(s) : Table[p] = "stores" /\ p \in rows
    BY HoldsStore
  <1>2. PICK g \in tx[o].gone : Table[g] = "stores"
    BY DEF PurgeInv, OwnerInv
  <1>3. g \in Rows /\ p \in Rows
    BY <1>1, <1>2, OwnerType DEF PurgeInv, TypeOK
  <1>4. g = p
    BY <1>1, <1>2, <1>3, SchemaAssumption
  <1>5. s # o /\ s \in Sessions
    BY PurgeAssumption DEF Sessions
  <1>. QED
    BY <1>1, <1>2, <1>4, <1>5, OwnerType DEF PurgeInv, Apart

\* A request whose transaction alone changes, to one as well formed, that holds
\* nothing a deletion has taken.
LEMMA WriterMoves ==
  ASSUME PurgeInv, NEW s \in Writers, NEW t \in Work \cup {None},
         tx' = [tx EXCEPT ![s] = t], UNCHANGED <<rows, stored>>,
         WriterInv(s)', \A o \in Owners : Held(o) \cap Held(s)' = {}
  PROVE  PurgeInv'
  <1>1. s \in Sessions /\ s \notin Owners
    BY PurgeAssumption DEF Sessions
  <1>2. tx'[s] = t /\ \A x \in Sessions \ {s} : tx'[x] = tx[x]
    BY <1>1 DEF PurgeInv
  <1>3. \A x \in Sessions \ {s} : Held(x)' = Held(x)
    BY <1>2 DEF Held, Referred
  <1>4. \A o \in Owners : o \in Sessions \ {s}
    BY <1>1 DEF Sessions
  <1>5. Apart'
    BY <1>3, <1>4 DEF Apart, PurgeInv
  <1>6. TypeOK'
    BY <1>1, <1>2, <1>4 DEF TypeOK, PurgeInv, Sessions
  <1>7. AllOrNothing' /\ tx' \in [Sessions -> Purge \cup Work \cup {None}]
    BY <1>1 DEF AllOrNothing, PurgeInv
  <1>8. \A o \in Owners : OwnerInv(o)'
    BY <1>2, <1>4 DEF OwnerInv, PurgeInv
  <1>9. ASSUME NEW w \in Writers PROVE WriterInv(w)'
    <2>1. CASE w # s
      <3>1. tx'[w] = tx[w]
        BY <1>2, <2>1 DEF Sessions
      <3>2. WriterInv(w)
        BY DEF PurgeInv
      <3>. QED
        BY <3>1, <3>2 DEF WriterInv, Wrote
    <2>. QED
      BY <2>1
  <1>. QED
    BY <1>5, <1>6, <1>7, <1>8, <1>9 DEF PurgeInv

\* The same for a deletion.
LEMMA OwnerMoves ==
  ASSUME PurgeInv, NEW s \in Owners, NEW t \in Purge \cup {None},
         tx' = [tx EXCEPT ![s] = t], UNCHANGED <<rows, stored>>,
         t # None => t.gone \subseteq rows,
         OwnerInv(s)', \A x \in Sessions : x # s => Held(x) \cap Held(s)' = {}
  PROVE  PurgeInv'
  <1>1. s \in Sessions /\ s \notin Writers
    BY PurgeAssumption DEF Sessions
  <1>2. tx'[s] = t /\ \A x \in Sessions \ {s} : tx'[x] = tx[x]
    BY <1>1 DEF PurgeInv
  <1>3. \A x \in Sessions \ {s} : Held(x)' = Held(x)
    BY <1>2 DEF Held, Referred
  <1>4. \A x \in Owners \cup Writers : x \in Sessions
    BY DEF Sessions
  <1>5. Apart'
    BY <1>1, <1>3, <1>4 DEF Apart, PurgeInv
  <1>6. TypeOK'
    BY <1>1, <1>2, <1>4 DEF TypeOK, PurgeInv
  <1>7. AllOrNothing' /\ tx' \in [Sessions -> Purge \cup Work \cup {None}]
    BY <1>1 DEF AllOrNothing, PurgeInv
  <1>8. \A w \in Writers : WriterInv(w)'
    BY <1>1, <1>2, <1>4 DEF WriterInv, Wrote, PurgeInv
  <1>9. ASSUME NEW o \in Owners PROVE OwnerInv(o)'
    <2>1. CASE o # s
      <3>1. tx'[o] = tx[o]
        BY <1>2, <1>4, <2>1
      <3>2. OwnerInv(o)
        BY DEF PurgeInv
      <3>. QED
        BY <3>1, <3>2 DEF OwnerInv
    <2>. QED
      BY <2>1
  <1>. QED
    BY <1>5, <1>6, <1>7, <1>8, <1>9 DEF PurgeInv

-----------------------------------------------------------------------------
(* Requests that write *)

LEMMA BeginWriteKeeps ==
  ASSUME PurgeInv, NEW s \in Writers, BeginWrite(s)
  PROVE  PurgeInv'
  <1>1. PICK job \in Jobs :
          tx' = [tx EXCEPT ![s] = [job |-> job, todo |-> job, unit |-> {}, done |-> {}]]
    BY DEF BeginWrite
  <1>2. PICK t : t = [job |-> job, todo |-> job, unit |-> {}, done |-> {}]
    OBVIOUS
  <1>3. job \in Seq(Seq(Rows)) /\ \A k \in DOMAIN job : Sendable(job[k])
    BY SchemaAssumption DEF Sendable
  <1>4. t \in Work /\ t.todo = job /\ t.unit = {} /\ t.done = {}
    BY <1>2, <1>3 DEF Work
  <1>5. tx'[s] = t /\ tx' = [tx EXCEPT ![s] = t]
    BY <1>1, <1>2 DEF PurgeInv, Sessions
  <1>6. WriterInv(s)' /\ Held(s)' = {}
    BY <1>3, <1>4, <1>5, PurgeAssumption DEF WriterInv, Wrote, Sendable, Held, Referred
  <1>. QED
    BY <1>4, <1>5, <1>6, WriterMoves DEF BeginWrite

\* Units that are finished, passed over or undone only make it hold less.
LEMMA TodoShrinks ==
  ASSUME PurgeInv, NEW s \in Writers, tx[s] # None, tx[s].todo # <<>>,
         NEW t \in Work, t.todo = Tail(tx[s].todo), t.done = tx[s].done,
         t.unit = {} \/ t.unit = tx[s].unit,
         tx' = [tx EXCEPT ![s] = t], UNCHANGED <<rows, stored>>
  PROVE  PurgeInv'
  <1>1. tx'[s] = t
    BY DEF PurgeInv, Sessions
  <1>2. /\ tx[s].todo \in Seq(Seq(Rows)) /\ WriterInv(s) /\ Held(s) = Referred(s)
    BY WriterType DEF PurgeInv
  <1>3. \A k \in DOMAIN Tail(tx[s].todo) : /\ k + 1 \in DOMAIN tx[s].todo
                                           /\ Tail(tx[s].todo)[k] = tx[s].todo[k + 1]
    BY <1>2
  <1>4. WriterInv(s)'
    <2>1. \A k \in DOMAIN t.todo : Sendable(t.todo[k])
      BY <1>2, <1>3 DEF WriterInv
    <2>2. \A r \in t.done \cup t.unit : r \in Wrote(s)
      BY DEF Wrote
    <2>. QED
      BY <1>1, <1>2, <2>1, <2>2 DEF WriterInv, Wrote, Sendable
  <1>5. Held(s)' \subseteq Held(s)
    <2>1. Held(s)' \subseteq UNION {Refs[r] : r \in t.done \cup t.unit}
      BY <1>1, PurgeAssumption DEF Held, Referred
    <2>. QED
      BY <1>2, <2>1 DEF Referred
  <1>6. \A o \in Owners : Held(o) \cap Held(s)' = {}
    BY <1>5, PurgeAssumption DEF PurgeInv, Apart, Sessions
  <1>. QED
    BY <1>4, <1>6, WriterMoves

LEMMA PassOverKeeps ==
  ASSUME PurgeInv, NEW s \in Writers, PassOver(s)
  PROVE  PurgeInv'
  <1>1. /\ tx[s] # None /\ tx[s].todo # <<>> /\ UNCHANGED <<rows, stored>>
        /\ tx' = [tx EXCEPT ![s].todo = Tail(@)]
    BY DEF PassOver, Writes
  <1>2. PICK t : t = [tx[s] EXCEPT !.todo = Tail(@)]
    OBVIOUS
  <1>3. tx[s] \in Work /\ Tail(tx[s].todo) \in Seq(Seq(Rows))
    BY <1>1, WriterType
  <1>4. t \in Work /\ t.todo = Tail(tx[s].todo) /\ t.unit = tx[s].unit /\ t.done = tx[s].done
    BY <1>2, <1>3 DEF Work
  <1>5. tx' = [tx EXCEPT ![s] = t]
    BY <1>1, <1>2
  <1>. QED
    BY <1>1, <1>4, <1>5, TodoShrinks

LEMMA UndoKeeps ==
  ASSUME PurgeInv, NEW s \in Writers, Writes(s), UndoUnit(s)
  PROVE  PurgeInv'
  <1>1. /\ tx[s] # None /\ tx[s].todo # <<>> /\ UNCHANGED <<rows, stored>>
        /\ tx' = [tx EXCEPT ![s].todo = Tail(@), ![s].unit = {}]
    BY DEF UndoUnit, Writes
  <1>2. PICK m : m = [tx[s] EXCEPT !.todo = Tail(@)]
    OBVIOUS
  <1>3. PICK t : t = [m EXCEPT !.unit = {}]
    OBVIOUS
  <1>4. tx[s] \in Work /\ Tail(tx[s].todo) \in Seq(Seq(Rows))
    BY <1>1, WriterType
  <1>5. m \in Work /\ m.todo = Tail(tx[s].todo) /\ m.unit = tx[s].unit /\ m.done = tx[s].done
    BY <1>2, <1>4 DEF Work
  <1>6. t \in Work /\ t.todo = m.todo /\ t.unit = {} /\ t.done = m.done
    BY <1>3, <1>5 DEF Work
  <1>7. tx' = [tx EXCEPT ![s] = t]
    <2>1. s \in DOMAIN tx
      BY DEF PurgeInv, Sessions
    <2>2. tx' = [[tx EXCEPT ![s].todo = Tail(@)] EXCEPT ![s].unit = {}]
      BY <1>1
    <2>3. [tx EXCEPT ![s].todo = Tail(@)] = [tx EXCEPT ![s] = m]
      BY <1>2
    <2>. QED
      BY <1>3, <2>1, <2>2, <2>3
  <1>. QED
    BY <1>1, <1>5, <1>6, <1>7, TodoShrinks, ZenonT(30)

\* An INSERT refers to rows that no deletion has taken, its store among them.
LEMMA InsertKeeps ==
  ASSUME PurgeInv, NEW s \in Writers, Insert(s)
  PROVE  PurgeInv'
  <1>1. /\ tx[s] # None /\ tx[s].todo # <<>> /\ UNCHANGED <<rows, stored>>
        /\ \A o \in Owners : Held(o) \cap Parents(s) = {}
        /\ Parents(s) \subseteq rows \cup tx[s].done \cup tx[s].unit
    BY DEF Insert, Writes
  <1>2. PICK more : more = tx[s].unit \cup {NextRow(s)}
    OBVIOUS
  <1>3. PICK unit : unit = IF Len(tx[s].todo[1]) = 1 THEN {} ELSE more
    OBVIOUS
  <1>4. PICK done : done = IF Len(tx[s].todo[1]) = 1 THEN tx[s].done \cup more ELSE tx[s].done
    OBVIOUS
  <1>5. PICK todo : todo = Remaining(tx[s].todo)
    OBVIOUS
  <1>6. tx' = [tx EXCEPT ![s].todo = todo, ![s].unit = unit, ![s].done = done]
    BY <1>2, <1>3, <1>4, <1>5 DEF Insert
  <1>7. /\ tx[s] \in Work /\ tx[s].todo \in Seq(Seq(Rows)) /\ WriterInv(s)
        /\ tx[s].unit \in SUBSET Rows /\ tx[s].done \in SUBSET Rows /\ Held(s) = Referred(s)
    BY <1>1, WriterType DEF PurgeInv
  <1>8. 1 \in DOMAIN tx[s].todo /\ tx[s].todo[1] \in Seq(Rows) /\ Sendable(tx[s].todo[1])
    BY <1>1, <1>7 DEF WriterInv
  <1>9. /\ NextRow(s) \in Rows /\ Table[NextRow(s)] \notin {"users", "stores"}
        /\ Tail(tx[s].todo) \in Seq(Seq(Rows)) /\ Tail(tx[s].todo[1]) \in Seq(Rows)
    BY <1>1, <1>7, <1>8 DEF NextRow, Sendable
  <1>10. todo \in Seq(Seq(Rows)) /\ \A k \in DOMAIN todo : Sendable(todo[k])
    <2>1. \A k \in DOMAIN Tail(tx[s].todo) : Sendable(Tail(tx[s].todo)[k])
      <3>1. \A k \in DOMAIN Tail(tx[s].todo) : /\ k + 1 \in DOMAIN tx[s].todo
                                               /\ Tail(tx[s].todo)[k] = tx[s].todo[k + 1]
        BY <1>7
      <3>. QED
        BY <1>1, <1>7, <3>1 DEF WriterInv
    <2>2. CASE Len(tx[s].todo[1]) = 1
      BY <1>5, <1>9, <2>1, <2>2 DEF Remaining
    <2>3. CASE Len(tx[s].todo[1]) # 1
      <3>1. PICK rest : rest = Tail(tx[s].todo[1])
        OBVIOUS
      <3>2. PICK after : after = Tail(tx[s].todo)
        OBVIOUS
      <3>3. rest \in Seq(Rows) /\ after \in Seq(Seq(Rows))
        BY <1>9, <3>1, <3>2
      <3>4. todo = <<rest>> \o after
        BY <1>5, <2>3, <3>1, <3>2 DEF Remaining
      <3>5. Sendable(rest)
        <4>1. rest # <<>>
          <5>1. tx[s].todo[1] # <<>> /\ Len(tx[s].todo[1]) \in Nat /\ Len(tx[s].todo[1]) # 0
            BY <1>8 DEF Sendable
          <5>2. Len(rest) = Len(tx[s].todo[1]) - 1
            BY <1>8, <3>1, <5>1
          <5>3. Len(rest) # 0
            BY <2>3, <5>1, <5>2
          <5>4. Len(<<>>) = 0
            OBVIOUS
          <5>. QED
            BY <5>3, <5>4, Zenon
        <4>2. \A i \in DOMAIN rest : i + 1 \in DOMAIN tx[s].todo[1] /\ rest[i] = tx[s].todo[1][i + 1]
          BY <1>8, <3>1
        <4>. QED
          BY <1>8, <4>1, <4>2 DEF Sendable
      <3>6. todo \in Seq(Seq(Rows))
        BY <3>3, <3>4
      <3>7. \A k \in DOMAIN todo : todo[k] = rest \/ \E m \in DOMAIN after : todo[k] = after[m]
        <4> SUFFICES ASSUME NEW k \in DOMAIN todo, k # 1
                     PROVE  k - 1 \in DOMAIN after /\ todo[k] = after[k - 1]
          BY <3>3, <3>4
        <4>. QED
          BY <3>3, <3>4
      <3>. QED
        BY <2>1, <3>2, <3>5, <3>6, <3>7
    <2>. QED
      BY <2>2, <2>3
  <1>11. /\ unit \in SUBSET Rows /\ done \in SUBSET Rows
         /\ done \cup unit = Wrote(s) \cup {NextRow(s)}
    BY <1>2, <1>3, <1>4, <1>7, <1>9 DEF Wrote
  <1>12. PICK m : m = [tx[s] EXCEPT !.todo = todo]
    OBVIOUS
  <1>13. PICK n : n = [m EXCEPT !.unit = unit]
    OBVIOUS
  <1>14. PICK t : t = [n EXCEPT !.done = done]
    OBVIOUS
  <1>15. m \in Work /\ m.todo = todo
    BY <1>7, <1>10, <1>12 DEF Work
  <1>16. n \in Work /\ n.todo = todo /\ n.unit = unit
    BY <1>11, <1>13, <1>15 DEF Work
  <1>17. t \in Work /\ t.todo = todo /\ t.unit = unit /\ t.done = done
    BY <1>11, <1>14, <1>16 DEF Work
  <1>18. tx' = [tx EXCEPT ![s] = t] /\ tx'[s] = t
    <2>1. s \in DOMAIN tx
      BY DEF PurgeInv, Sessions
    <2>2. tx' = [[[tx EXCEPT ![s].todo = todo] EXCEPT ![s].unit = unit] EXCEPT ![s].done = done]
      BY <1>6
    <2>3. [tx EXCEPT ![s].todo = todo] = [tx EXCEPT ![s] = m]
      BY <1>12
    <2>4. [[tx EXCEPT ![s] = m] EXCEPT ![s].unit = unit] = [tx EXCEPT ![s] = n]
      BY <1>13, <2>1
    <2>5. [[tx EXCEPT ![s] = n] EXCEPT ![s].done = done] = [tx EXCEPT ![s] = t]
      BY <1>14, <2>1
    <2>6. tx' = [tx EXCEPT ![s] = t]
      BY <2>2, <2>3, <2>4, <2>5, Zenon
    <2>. QED
      BY <2>1, <2>6
  <1>19. \A p \in Parents(s) : Table[p] = "stores" => p \in rows
    BY <1>1, <1>7 DEF WriterInv, Wrote
  <1>20. WriterInv(s)'
    <2>1. \A r \in done \cup unit :
            /\ Table[r] \notin {"users", "stores"}
            /\ \A p \in Refs[r] : Table[p] = "stores" => p \in rows
      BY <1>1, <1>7, <1>9, <1>11, <1>19 DEF WriterInv, Parents
    <2>. QED
      BY <1>1, <1>10, <1>17, <1>18, <2>1 DEF WriterInv, Wrote, Sendable
  <1>21. Held(s)' \subseteq Held(s) \cup Parents(s)
    <2>1. Held(s)' \subseteq UNION {Refs[r] : r \in done \cup unit}
      BY <1>17, <1>18, PurgeAssumption DEF Held, Referred
    <2>2. UNION {Refs[r] : r \in done \cup unit} \subseteq Referred(s) \cup Refs[NextRow(s)]
      BY <1>11 DEF Referred, Wrote
    <2>. QED
      BY <1>7, <2>1, <2>2 DEF Parents
  <1>22. \A o \in Owners : Held(o) \cap Held(s)' = {}
    BY <1>1, <1>21, PurgeAssumption DEF PurgeInv, Apart, Sessions
  <1>. QED
    BY <1>1, <1>17, <1>18, <1>20, <1>22, WriterMoves

\* A commit adds rows only to a store that no deletion has taken.
LEMMA CommitWriteKeeps ==
  ASSUME PurgeInv, NEW s \in Writers, CommitWrite(s)
  PROVE  PurgeInv'
  <1>1. /\ tx[s] # None /\ rows' = rows \cup tx[s].done /\ stored' = stored \cup tx[s].done
        /\ tx' = [tx EXCEPT ![s] = None]
    BY DEF CommitWrite, Close
  <1>2. tx[s].done \subseteq Rows
    BY <1>1, WriterType
  <1>3. s \in Sessions /\ s \notin Owners
    BY PurgeAssumption DEF Sessions
  <1>4. tx'[s] = None /\ \A x \in Sessions \ {s} : tx'[x] = tx[x]
    BY <1>1, <1>3 DEF PurgeInv
  <1>5. \A o \in Owners : o \in Sessions \ {s}
    BY <1>3 DEF Sessions
  <1>6. TypeOK'
    <2>1. rows' \subseteq stored' /\ stored' \subseteq Rows
      BY <1>1, <1>2 DEF PurgeInv, TypeOK
    <2>. QED
      BY <1>1, <1>3, <1>4, <1>5, <2>1 DEF PurgeInv, TypeOK, Sessions
  <1>7. tx' \in [Sessions -> Purge \cup Work \cup {None}]
    BY <1>1, <1>3 DEF PurgeInv
  <1>8. AllOrNothing'
    <2>1. CASE rows = {}
      <3>1. tx[s].done = {}
        BY <1>1, <2>1, HoldsStore DEF Wrote
      <3>. QED
        BY <1>1, <3>1 DEF PurgeInv, AllOrNothing
    <2>2. CASE rows = stored
      BY <1>1, <2>2 DEF AllOrNothing
    <2>. QED
      BY <2>1, <2>2 DEF PurgeInv, AllOrNothing
  <1>9. ASSUME NEW w \in Writers PROVE WriterInv(w)'
    <2>1. CASE w = s
      BY <1>4, <2>1 DEF WriterInv
    <2>2. CASE w # s
      <3>1. tx'[w] = tx[w] /\ WriterInv(w)
        BY <1>4, <2>2 DEF Sessions, PurgeInv
      <3>. QED
        BY <1>1, <3>1 DEF WriterInv, Wrote, Sendable
    <2>. QED
      BY <2>1, <2>2
  <1>10. ASSUME NEW o \in Owners PROVE OwnerInv(o)'
    <2>1. tx'[o] = tx[o] /\ OwnerInv(o)
      BY <1>4, <1>5 DEF PurgeInv
    <2>2. CASE tx[o] # None /\ tx[o].step > 10
      <3>1. rows' = rows
        BY <1>1, <2>2, TakenStore DEF Wrote
      <3>. QED
        BY <2>1, <3>1 DEF OwnerInv
    <2>3. CASE tx[o] # None /\ ~(tx[o].step > 10)
      <3>1. tx[o].step \in 1..12
        BY <2>3, OwnerType
      <3>. QED
        BY <2>1, <2>3, <3>1 DEF OwnerInv
    <2>4. CASE tx[o] = None
      BY <2>1, <2>4 DEF OwnerInv
    <2>. QED
      BY <2>2, <2>3, <2>4
  <1>11. Apart'
    <2>1. \A x \in Sessions \ {s} : Held(x)' = Held(x)
      BY <1>4 DEF Held, Referred
    <2>2. Held(s)' = {}
      BY <1>4 DEF Held
    <2>. QED
      BY <1>5, <2>1, <2>2 DEF PurgeInv, Apart
  <1>. QED
    BY <1>6, <1>7, <1>8, <1>9, <1>10, <1>11 DEF PurgeInv

-----------------------------------------------------------------------------
(* DELETE /users/me *)

LEMMA BeginPurgeKeeps ==
  ASSUME PurgeInv, NEW s \in Owners, BeginPurge(s)
  PROVE  PurgeInv'
  <1>0. PICK none \in SUBSET Rows : none = {}
    OBVIOUS
  <1>1. PICK t : t = [step |-> 1, found |-> None, gone |-> none]
    OBVIOUS
  <1>2. tx' = [tx EXCEPT ![s] = t] /\ UNCHANGED <<rows, stored>>
    BY <1>0, <1>1 DEF BeginPurge
  <1>3. t \in Purge /\ t.step = 1 /\ t.found = None /\ t.gone = {}
    BY <1>0, <1>1, PurgeIs
  <1>4. tx'[s] = t
    BY <1>2 DEF PurgeInv, Sessions
  <1>5. OwnerInv(s)' /\ Held(s)' = {}
    BY <1>3, <1>4 DEF OwnerInv, Held
  <1>. QED
    BY <1>2, <1>3, <1>5, OwnerMoves

LEMMA StartKeeps ==
  ASSUME PurgeInv, NEW s \in Owners, StartDelete(s)
  PROVE  PurgeInv'
  <1>1. PICK found : found = {r \in rows : Table[r] = Deletes[tx[s].step]}
    OBVIOUS
  <1>2. PICK t : t = [tx[s] EXCEPT !.found = found]
    OBVIOUS
  <1>3. tx[s] # None /\ tx' = [tx EXCEPT ![s] = t] /\ UNCHANGED <<rows, stored>>
    BY <1>1, <1>2 DEF StartDelete, Deleting
  <1>4. found \in SUBSET Rows
    BY <1>1 DEF PurgeInv, TypeOK
  <1>5. t \in Purge /\ t.step = tx[s].step /\ t.gone = tx[s].gone /\ t.found = found
    BY <1>2, <1>3, <1>4, OwnerType DEF Purge
  <1>6. tx'[s] = t /\ t.gone \subseteq rows /\ Held(s)' = Held(s)
    BY <1>3, <1>5, OwnerType, NoneAssumption DEF PurgeInv, Sessions, Held
  <1>7. OwnerInv(s)'
    BY <1>1, <1>3, <1>5, <1>6, Steps DEF OwnerInv, PurgeInv
  <1>8. \A x \in Sessions : x # s => Held(x) \cap Held(s)' = {}
    BY <1>6 DEF PurgeInv, Apart
  <1>. QED
    BY <1>3, <1>5, <1>6, <1>7, <1>8, OwnerMoves

LEMMA GiveUpKeeps ==
  ASSUME PurgeInv, NEW s \in Owners, GiveUp(s)
  PROVE  PurgeInv'
  <1>1. tx' = [tx EXCEPT ![s] = None] /\ UNCHANGED <<rows, stored>>
    BY DEF GiveUp, RolledBack, Close
  <1>2. tx'[s] = None
    BY <1>1 DEF PurgeInv, Sessions
  <1>3. OwnerInv(s)' /\ Held(s)' = {}
    BY <1>2 DEF OwnerInv, Held
  <1>. QED
    BY <1>1, <1>3, OwnerMoves

\* The DELETE of the store takes, or meets, whatever refers to the store: it is
\* refused unless all but the account is deleted already.
LEMMA FinishKeeps ==
  ASSUME PurgeInv, NEW s \in Owners, FinishDelete(s)
  PROVE  PurgeInv'
  <1>1. /\ tx[s] # None /\ tx[s].step <= 11 /\ tx[s].found # None
        /\ InTheWay(s) = {}
    BY Steps DEF FinishDelete, Deleting
  <1>2. CASE Refused(s)
    BY <1>2, GiveUpKeeps DEF FinishDelete
  <1>3. CASE ~Refused(s)
    <2>1. PICK doomed : doomed = Doomed(s)
      OBVIOUS
    <2>2. PICK step, gone : step = tx[s].step + 1 /\ gone = tx[s].gone \cup doomed
      OBVIOUS
    <2>21. PICK t : t = [step |-> step, found |-> None, gone |-> gone]
      OBVIOUS
    <2>3. tx' = [tx EXCEPT ![s] = t] /\ UNCHANGED <<rows, stored>>
      BY <1>3, <2>1, <2>2, <2>21 DEF FinishDelete
    <2>4. /\ tx[s].step \in 1..11 /\ tx[s].gone \subseteq rows /\ tx[s].found \in SUBSET Rows
          /\ rows \subseteq Rows /\ Held(s) = tx[s].gone /\ OwnerInv(s)
      <3>1. rows \subseteq Rows /\ OwnerInv(s)
        BY DEF PurgeInv, TypeOK
      <3>2. /\ tx[s].step \in 1..12 /\ tx[s].found \in (SUBSET Rows) \cup {None}
            /\ tx[s].gone \subseteq rows /\ Held(s) = tx[s].gone
        BY <1>1, OwnerType
      <3>3. tx[s].found \in SUBSET Rows
        BY <1>1, <3>2, Zenon
      <3>4. tx[s].step \in 1..11
        BY <1>1, <3>2
      <3>. QED
        BY <3>1, <3>2, <3>3, <3>4
    <2>5. doomed \subseteq rows /\ tx[s].found \cap rows \subseteq doomed
      BY <2>1 DEF Doomed, Targets
    <2>6. t \in Purge /\ t.step = tx[s].step + 1 /\ t.found = None /\ t.gone = tx[s].gone \cup doomed
      <3>1. step \in 1..12 /\ gone \in SUBSET Rows
        BY <2>2, <2>4, <2>5
      <3>. QED
        BY <2>2, <2>21, <3>1, PurgeIs
    <2>7. tx'[s] = t /\ t.gone \subseteq rows /\ Held(s)' = t.gone
      BY <2>3, <2>4, <2>5, <2>6, NoneAssumption DEF PurgeInv, Sessions, Held
    <2>8. ASSUME NEW x \in Sessions, x # s PROVE Held(x) \cap Held(s)' = {}
      <3>1. Held(x) \cap Held(s) = {}
        BY <2>8 DEF PurgeInv, Apart
      <3>2. Held(x) \cap doomed = {}
        BY <1>1, <2>1, <2>8 DEF InTheWay
      <3>. QED
        BY <2>4, <2>6, <2>7, <3>1, <3>2
    <2>9. CASE tx[s].step < 10
      <3>1. t.step \in 1..10
        BY <2>4, <2>6, <2>9
      <3>2. OwnerInv(s)'
        BY <2>6, <2>7, <3>1 DEF OwnerInv
      <3>. QED
        BY <2>3, <2>6, <2>7, <2>8, <3>2, OwnerMoves
    <2>10. CASE tx[s].step = 10
      <3>1. PICK p \in tx[s].found \cap rows : TRUE
        BY <1>3, <2>10, Steps DEF Refused, Targets
      <3>2. Table[p] = "stores" /\ p \in Rows /\ p \in doomed
        BY <1>1, <2>4, <2>5, <2>10, <3>1, Steps DEF OwnerInv
      <3>3. ASSUME NEW q \in rows, Table[q] # "users" PROVE q \in t.gone
        <4> SUFFICES ASSUME q \notin tx[s].gone, q \notin doomed PROVE FALSE
          BY <2>6
        <4>1. q \in Rows /\ q # p
          BY <2>4, <3>2
        <4>2. p \in Refs[q] /\ OnDelete[q][p] \in {"restrict", "cascade"}
          BY <3>2, <3>3, <4>1, InStore
        <4>3. OnDelete[q][p] # "cascade"
          BY <2>1, <3>1, <4>2 DEF Doomed, Targets
        <4>4. OnDelete[q][p] # "restrict"
          BY <1>3, <2>1, <3>2, <4>2 DEF Refused
        <4>. QED
          BY <4>2, <4>3, <4>4
      <3>4. OwnerInv(s)'
        BY <2>3, <2>6, <2>7, <2>10, <3>2, <3>3 DEF OwnerInv
      <3>. QED
        BY <2>3, <2>6, <2>7, <2>8, <3>4, OwnerMoves
    <2>11. CASE tx[s].step = 11
      <3>1. rows \subseteq t.gone
        BY <1>1, <2>4, <2>5, <2>6, <2>11 DEF OwnerInv
      <3>2. \E r \in t.gone : Table[r] = "stores"
        BY <1>1, <2>4, <2>6, <2>11 DEF OwnerInv
      <3>3. OwnerInv(s)'
        BY <2>3, <2>6, <2>7, <2>11, <3>1, <3>2 DEF OwnerInv
      <3>. QED
        BY <2>3, <2>6, <2>7, <2>8, <3>3, OwnerMoves
    <2>. QED
      BY <2>4, <2>9, <2>10, <2>11
  <1>. QED
    BY <1>2, <1>3

LEMMA CommitPurgeKeeps ==
  ASSUME PurgeInv, NEW s \in Owners, CommitPurge(s)
  PROVE  PurgeInv'
  <1>1. /\ tx[s] # None /\ tx[s].step > 11 /\ rows' = rows \ tx[s].gone /\ stored' = stored
        /\ tx' = [tx EXCEPT ![s] = None]
    BY Steps DEF CommitPurge, Close
  <1>2. tx[s].step > 10
    BY <1>1, OwnerType
  <1>3. rows \subseteq tx[s].gone /\ rows' = {}
    BY <1>1 DEF PurgeInv, OwnerInv
  <1>4. s \in Sessions /\ s \notin Writers
    BY PurgeAssumption DEF Sessions
  <1>5. tx'[s] = None /\ \A x \in Sessions \ {s} : tx'[x] = tx[x]
    BY <1>1, <1>4 DEF PurgeInv
  <1>6. ASSUME NEW o \in Owners, o # s, tx[o] # None PROVE tx[o].gone = {}
    <2>1. tx[o].gone \subseteq rows /\ Held(o) = tx[o].gone /\ Held(s) = tx[s].gone
      BY <1>1, <1>6, OwnerType
    <2>2. Held(s) \cap Held(o) = {}
      BY <1>6 DEF PurgeInv, Apart, Sessions
    <2>. QED
      BY <1>3, <2>1, <2>2
  <1>7. TypeOK'
    <2>1. \A o \in Owners : tx'[o] # None => tx'[o] \in Purge /\ tx'[o].gone \subseteq rows'
      <3> SUFFICES ASSUME NEW o \in Owners, tx'[o] # None
                   PROVE  tx'[o] \in Purge /\ tx'[o].gone \subseteq rows'
        OBVIOUS
      <3>1. o # s /\ tx'[o] = tx[o]
        BY <1>5 DEF Sessions
      <3>. QED
        BY <1>6, <3>1, OwnerType
    <2>2. \A w \in Writers : tx'[w] # None => tx'[w] \in Work
      BY <1>4, <1>5 DEF PurgeInv, TypeOK, Sessions
    <2>. QED
      BY <1>1, <1>3, <2>1, <2>2 DEF PurgeInv, TypeOK
  <1>8. tx' \in [Sessions -> Purge \cup Work \cup {None}] /\ AllOrNothing'
    BY <1>1, <1>3, <1>4 DEF PurgeInv, AllOrNothing
  <1>9. ASSUME NEW w \in Writers PROVE WriterInv(w)'
    <2>1. tx'[w] = tx[w] /\ WriterInv(w)
      BY <1>4, <1>5 DEF PurgeInv, Sessions
    <2>2. tx[w] # None => Wrote(w) = {}
      BY <1>1, <1>2, TakenStore
    <2>. QED
      BY <2>1, <2>2 DEF WriterInv, Wrote, Sendable
  <1>10. ASSUME NEW o \in Owners PROVE OwnerInv(o)'
    <2>1. CASE o = s
      BY <1>5, <2>1 DEF OwnerInv
    <2>2. CASE o # s
      <3>1. tx'[o] = tx[o] /\ OwnerInv(o)
        BY <1>5, <2>2 DEF PurgeInv, Sessions
      <3>. QED
        BY <1>3, <3>1 DEF OwnerInv
    <2>. QED
      BY <2>1, <2>2
  <1>11. Apart'
    <2>1. \A x \in Sessions \ {s} : Held(x)' = Held(x)
      BY <1>5 DEF Held, Referred
    <2>2. Held(s)' = {}
      BY <1>5 DEF Held
    <2>. QED
      BY <2>1, <2>2 DEF PurgeInv, Apart, Sessions
  <1>. QED
    BY <1>7, <1>8, <1>9, <1>10, <1>11 DEF PurgeInv

-----------------------------------------------------------------------------
(* The theorems *)

LEMMA InitPurge == Init => PurgeInv
  BY PurgeAssumption
  DEF Init, PurgeInv, TypeOK, AllOrNothing, WriterInv, OwnerInv, Apart, Held, Sessions

LEMMA NextPurge == PurgeInv /\ [Next]_vars => PurgeInv'
  <1> SUFFICES ASSUME PurgeInv, [Next]_vars PROVE PurgeInv'
    OBVIOUS
  <1>1. CASE \E s \in Writers : BeginWrite(s) \/ Write(s)
    <2>1. PICK s \in Writers : BeginWrite(s) \/ Write(s)
      BY <1>1
    <2>2. CASE InsertFails(s)
      BY <2>2, UndoKeeps DEF InsertFails
    <2>. QED
      BY <2>1, <2>2, BeginWriteKeeps, PassOverKeeps, InsertKeeps, CommitWriteKeeps DEF Write
  <1>2. CASE \E s \in Owners : BeginPurge(s) \/ Erase(s)
    BY <1>2, BeginPurgeKeeps, StartKeeps, FinishKeeps, CommitPurgeKeeps DEF Erase
  <1>3. CASE \E s \in Sessions : BreakDeadlock(s)
    <2>1. PICK s \in Sessions : BreakDeadlock(s)
      BY <1>3
    <2>2. CASE s \in Owners
      BY <2>1, <2>2, GiveUpKeeps DEF BreakDeadlock
    <2>3. CASE s \notin Owners
      <3>1. s \in Writers /\ UndoUnit(s) /\ WaitsFor(s) # {}
        BY <2>1, <2>3 DEF BreakDeadlock, Sessions, Deadlocked
      <3>2. Writes(s)
        BY <2>3, <3>1 DEF WaitsFor
      <3>. QED
        BY <3>1, <3>2, UndoKeeps
    <2>. QED
      BY <2>2, <2>3
  <1>4. CASE UNCHANGED vars
    BY <1>4 DEF vars, PurgeInv, TypeOK, AllOrNothing, WriterInv, OwnerInv, Apart, Held,
       Referred, Wrote, Sendable
  <1>. QED
    BY <1>1, <1>2, <1>3, <1>4 DEF Next

\* The bookkeeping of purge_store: which rows a deletion has taken when it reaches the
\* store and the account, and that nobody else refers to them.
THEOREM PurgeCorrect == Spec => []PurgeInv
  BY InitPurge, NextPurge, PTL DEF Spec

\* Transactions stay well formed, and a deletion only holds rows that exist: a row
\* that another deletion took meanwhile is passed over.
THEOREM PurgeTyped == Spec => []TypeOK
  <1>1. PurgeInv => TypeOK
    BY DEF PurgeInv
  <1>. QED
    BY <1>1, PurgeCorrect, PTL

\* DELETE /users/me leaves nothing or takes nothing (ADR-0011), for any rows that
\* follow the foreign keys of the migrations (SchemaAssumption), any requests that write
\* at the same time and any number of deletions at once.
THEOREM NothingHalfDone == Spec => []AllOrNothing
  <1>1. PurgeInv => AllOrNothing
    BY DEF PurgeInv
  <1>. QED
    BY <1>1, PurgeCorrect, PTL

\* Once the account is gone nothing that was still being pushed brings a row back: the
\* rows' store is gone and the foreign key refuses them.
THEOREM NothingComesBack == Spec => [][rows = {} => rows' = {}]_vars
  <1>1. PurgeInv /\ [Next]_vars => [rows = {} => rows' = {}]_vars
    <2> SUFFICES ASSUME PurgeInv, Next, rows = {} PROVE rows' = {}
      OBVIOUS
    <2>1. CASE \E s \in Writers : CommitWrite(s)
      <3>1. PICK s \in Writers : CommitWrite(s)
        BY <2>1
      <3>2. tx[s].done = {}
        BY <3>1, HoldsStore DEF CommitWrite, Wrote
      <3>. QED
        BY <3>1, <3>2 DEF CommitWrite
    <2>2. CASE \E s \in Owners : CommitPurge(s)
      BY <2>2 DEF CommitPurge
    <2>3. CASE rows' = rows
      BY <2>3
    <2>4. \/ \E s \in Writers : CommitWrite(s)
          \/ \E s \in Owners : CommitPurge(s)
          \/ rows' = rows
      BY DEF Next, BeginWrite, Write, PassOver, Insert, InsertFails, UndoUnit, BeginPurge, Erase,
         StartDelete, FinishDelete, GiveUp, RolledBack, BreakDeadlock
    <2>. QED
      BY <2>1, <2>2, <2>3, <2>4
  <1>. QED
    BY <1>1, PurgeCorrect, PTL DEF Spec

-----------------------------------------------------------------------------
(* Refinement of AccountLife *)

WholeUnits(done) == \E units \in SUBSET Units : done = UNION units

\* What a request has finished are whole units, and every row it has inserted refers to
\* rows that are stored or that it has inserted; of the units still to do only the first
\* may be begun.
UnitInv(s) ==
    tx[s] # None =>
        /\ WholeUnits(tx[s].done)
        /\ \A r \in tx[s].done : Refs[r] \subseteq rows \cup tx[s].done
        /\ \A r \in tx[s].unit : Refs[r] \subseteq rows \cup Wrote(s)
        /\ tx[s].todo = <<>> => tx[s].unit = {}
        /\ tx[s].todo # <<>> => tx[s].unit \cup RowsOf(tx[s].todo[1]) \in Units
        /\ \A k \in DOMAIN tx[s].todo : k > 1 => RowsOf(tx[s].todo[k]) \in Units

UnitsInv == \A s \in Writers : UnitInv(s)

LEMMA UnitsMove ==
  ASSUME UnitsInv, NEW s \in Writers, UNCHANGED rows,
         \A w \in Writers : w # s => tx'[w] = tx[w], UnitInv(s)'
  PROVE  UnitsInv'
  <1> SUFFICES ASSUME NEW w \in Writers, w # s PROVE UnitInv(w)'
    BY DEF UnitsInv
  <1>1. tx'[w] = tx[w] /\ UnitInv(w)
    BY DEF UnitsInv
  <1>. QED
    BY <1>1 DEF UnitInv, Wrote

LEMMA UnitsStay ==
  ASSUME UnitsInv, rows \subseteq rows',
         \A w \in Writers : tx'[w] # None => tx'[w] = tx[w]
  PROVE  UnitsInv'
  <1> SUFFICES ASSUME NEW w \in Writers, tx'[w] # None PROVE UnitInv(w)'
    BY DEF UnitsInv, UnitInv
  <1>1. tx'[w] = tx[w] /\ UnitInv(w)
    BY DEF UnitsInv
  <1>. QED
    BY <1>1 DEF UnitInv, Wrote

LEMMA OneUnitMore ==
  ASSUME NEW done, WholeUnits(done), NEW unit \in Units
  PROVE  WholeUnits(done \cup unit)
  <1>1. PICK units \in SUBSET Units : done = UNION units
    BY DEF WholeUnits
  <1>2. PICK more : more = units \cup {unit}
    OBVIOUS
  <1>3. more \in SUBSET Units
    BY <1>2
  <1>4. UNION more = done \cup unit
    BY <1>1, <1>2
  <1>. QED
    BY <1>3, <1>4 DEF WholeUnits

LEMMA BeginUnits ==
  ASSUME PurgeInv, UnitsInv, NEW s \in Writers, BeginWrite(s)
  PROVE  UnitsInv'
  <1>1. PICK job \in Jobs :
          tx' = [tx EXCEPT ![s] = [job |-> job, todo |-> job, unit |-> {}, done |-> {}]]
    BY DEF BeginWrite
  <1>2. s \in Sessions /\ \A w \in Writers : w \in Sessions
    BY DEF Sessions
  <1>3. /\ tx'[s].todo = job /\ tx'[s].unit = {} /\ tx'[s].done = {}
        /\ \A w \in Writers : w # s => tx'[w] = tx[w]
    BY <1>1, <1>2 DEF PurgeInv
  <1>4. \A k \in DOMAIN job : RowsOf(job[k]) \in Units
    BY DEF Units
  <1>5. job # <<>> => 1 \in DOMAIN job
    BY SchemaAssumption
  <1>6. WholeUnits({})
    <2>1. {} \in SUBSET Units /\ {} = UNION {}
      OBVIOUS
    <2>. QED
      BY <2>1 DEF WholeUnits
  <1>7. UnitInv(s)'
    BY <1>3, <1>4, <1>5, <1>6 DEF UnitInv
  <1>. QED
    BY <1>3, <1>7, UnitsMove DEF BeginWrite

\* A unit that is passed over or undone leaves nothing, and the next one is whole.
LEMMA NextUnit ==
  ASSUME PurgeInv, UnitsInv, NEW s \in Writers, Writes(s), UNCHANGED rows,
         tx'[s].todo = Tail(tx[s].todo), tx'[s].unit = {}, tx'[s].done = tx[s].done,
         \A w \in Writers : w # s => tx'[w] = tx[w]
  PROVE  UnitsInv'
  <1>1. tx[s] # None /\ tx[s].todo # <<>> /\ UnitInv(s) /\ tx[s].todo \in Seq(Seq(Rows))
    BY WriterType DEF Writes, UnitsInv
  <1>2. \A k \in DOMAIN Tail(tx[s].todo) : /\ k + 1 \in DOMAIN tx[s].todo /\ k + 1 > 1
                                           /\ Tail(tx[s].todo)[k] = tx[s].todo[k + 1]
    BY <1>1
  <1>3. \A k \in DOMAIN Tail(tx[s].todo) : RowsOf(Tail(tx[s].todo)[k]) \in Units
    BY <1>1, <1>2 DEF UnitInv
  <1>4. Tail(tx[s].todo) # <<>> => 1 \in DOMAIN Tail(tx[s].todo)
    BY <1>1
  <1>5. UnitInv(s)'
    BY <1>1, <1>3, <1>4 DEF UnitInv
  <1>. QED
    BY <1>5, UnitsMove

LEMMA PassOverUnits ==
  ASSUME PurgeInv, UnitsInv, NEW s \in Writers, PassOver(s)
  PROVE  UnitsInv'
  <1>1. /\ Writes(s) /\ tx[s].unit = {} /\ UNCHANGED rows
        /\ tx' = [tx EXCEPT ![s].todo = Tail(@)]
    BY DEF PassOver, Known
  <1>2. tx[s] \in Work /\ s \in Sessions /\ \A w \in Writers : w \in Sessions
    BY <1>1, WriterType DEF Writes, Sessions
  <1>3. tx'[s] = [tx[s] EXCEPT !.todo = Tail(@)] /\ \A w \in Writers : w # s => tx'[w] = tx[w]
    BY <1>1, <1>2 DEF PurgeInv
  <1>4. /\ tx'[s].todo = Tail(tx[s].todo) /\ tx'[s].unit = tx[s].unit
        /\ tx'[s].done = tx[s].done
    BY <1>2, <1>3 DEF Work
  <1>. QED
    BY <1>1, <1>3, <1>4, NextUnit

LEMMA UndoUnits ==
  ASSUME PurgeInv, UnitsInv, NEW s \in Writers, Writes(s), UndoUnit(s)
  PROVE  UnitsInv'
  <1>1. /\ UNCHANGED rows /\ tx' = [tx EXCEPT ![s].todo = Tail(@), ![s].unit = {}]
    BY DEF UndoUnit
  <1>2. tx[s] \in Work /\ s \in Sessions /\ \A w \in Writers : w \in Sessions
    BY WriterType DEF Writes, Sessions
  <1>3. /\ tx'[s] = [tx[s] EXCEPT !.todo = Tail(@), !.unit = {}]
        /\ \A w \in Writers : w # s => tx'[w] = tx[w]
    BY <1>1, <1>2 DEF PurgeInv
  <1>4. /\ tx'[s].todo = Tail(tx[s].todo) /\ tx'[s].unit = {} /\ tx'[s].done = tx[s].done
    BY <1>2, <1>3 DEF Work
  <1>. QED
    BY <1>1, <1>3, <1>4, NextUnit

\* The last row of a unit makes it whole.
LEMMA InsertUnits ==
  ASSUME PurgeInv, UnitsInv, NEW s \in Writers, Insert(s)
  PROVE  UnitsInv'
  <1> DEFINE ends == Len(tx[s].todo[1]) = 1
             more == tx[s].unit \cup {NextRow(s)}
  <1>1. /\ tx[s] # None /\ tx[s].todo # <<>> /\ UNCHANGED rows
        /\ Refs[NextRow(s)] \subseteq rows \cup Wrote(s)
        /\ tx' = [tx EXCEPT ![s].todo = Remaining(@), ![s].unit = IF ends THEN {} ELSE more,
                            ![s].done = IF ends THEN @ \cup more ELSE @]
    BY DEF Insert, Writes, Parents, Wrote
  <1>2. /\ tx[s] \in Work /\ s \in Sessions /\ \A w \in Writers : w \in Sessions
        /\ tx[s].todo \in Seq(Seq(Rows)) /\ UnitInv(s) /\ WriterInv(s)
    BY <1>1, WriterType DEF Sessions, UnitsInv, PurgeInv
  <1>3. /\ tx'[s] = [tx[s] EXCEPT !.todo = Remaining(@), !.unit = IF ends THEN {} ELSE more,
                                  !.done = IF ends THEN @ \cup more ELSE @]
        /\ \A w \in Writers : w # s => tx'[w] = tx[w]
    BY <1>1, <1>2 DEF PurgeInv
  <1>4. /\ tx'[s].todo = Remaining(tx[s].todo)
        /\ tx'[s].unit = IF ends THEN {} ELSE more
        /\ tx'[s].done = IF ends THEN tx[s].done \cup more ELSE tx[s].done
    BY <1>2, <1>3 DEF Work
  <1>5. PICK first : first = tx[s].todo[1]
    OBVIOUS
  <1>6. PICK after : after = Tail(tx[s].todo)
    OBVIOUS
  <1>7. /\ first \in Seq(Rows) /\ first # <<>> /\ Len(first) \in Nat \ {0} /\ NextRow(s) = first[1]
        /\ tx[s].unit \cup RowsOf(first) \in Units
    <2>1. 1 \in DOMAIN tx[s].todo /\ first \in Seq(Rows)
      BY <1>1, <1>2, <1>5
    <2>2. first # <<>>
      BY <1>1, <1>2, <1>5, <2>1 DEF WriterInv, Sendable
    <2>. QED
      BY <1>1, <1>2, <1>5, <2>1, <2>2 DEF NextRow, UnitInv
  <1>8. /\ after \in Seq(Seq(Rows)) /\ after # <<>> => 1 \in DOMAIN after
        /\ \A k \in DOMAIN after : RowsOf(after[k]) \in Units
    <2>1. \A k \in DOMAIN after : /\ k + 1 \in DOMAIN tx[s].todo /\ k + 1 > 1
                                  /\ after[k] = tx[s].todo[k + 1]
      BY <1>1, <1>2, <1>6
    <2>2. after \in Seq(Seq(Rows))
      BY <1>1, <1>2, <1>6
    <2>. QED
      BY <1>1, <1>2, <2>1, <2>2 DEF UnitInv
  <1>9. WholeUnits(tx[s].done)
    BY <1>1, <1>2 DEF UnitInv
  <1>10. CASE ends
    <2>1. tx'[s].todo = after /\ tx'[s].unit = {} /\ tx'[s].done = tx[s].done \cup more
      BY <1>4, <1>6, <1>10 DEF Remaining
    <2>2. RowsOf(first) = {NextRow(s)}
      <3>1. DOMAIN first = {1}
        BY <1>5, <1>7, <1>10
      <3>. QED
        BY <1>7, <3>1 DEF RowsOf
    <2>3. more \in Units
      BY <1>7, <2>2
    <2>4. WholeUnits(tx'[s].done)
      BY <1>9, <2>1, <2>3, OneUnitMore
    <2>5. \A r \in tx[s].done \cup more : Refs[r] \subseteq rows \cup tx[s].done \cup more
      BY <1>1, <1>2 DEF UnitInv, Wrote
    <2>6. \A r \in tx'[s].done : Refs[r] \subseteq rows' \cup tx'[s].done
      BY <1>1, <2>1, <2>5
    <2>7. after # <<>> => {} \cup RowsOf(after[1]) \in Units
      BY <1>8
    <2>8. UnitInv(s)'
      BY <1>8, <2>1, <2>4, <2>6, <2>7 DEF UnitInv
    <2>. QED
      BY <1>1, <1>3, <2>8, UnitsMove
  <1>11. CASE ~ends
    <2>1. /\ tx'[s].todo = <<Tail(first)>> \o after /\ tx'[s].unit = more
          /\ tx'[s].done = tx[s].done
      BY <1>4, <1>5, <1>6, <1>11 DEF Remaining
    <2>2. PICK rest : rest = Tail(first)
      OBVIOUS
    <2>3. rest \in Seq(Rows) /\ RowsOf(first) = {NextRow(s)} \cup RowsOf(rest)
      <3>1. /\ rest \in Seq(Rows) /\ DOMAIN first = 1..Len(first)
            /\ DOMAIN rest = 1..(Len(first) - 1)
            /\ \A i \in DOMAIN rest : rest[i] = first[i + 1]
        BY <1>7, <2>2
      <3>2. \A i \in DOMAIN first : i # 1 => i - 1 \in DOMAIN rest /\ first[i] = rest[i - 1]
        BY <1>7, <3>1
      <3>3. \A i \in DOMAIN rest : i + 1 \in DOMAIN first
        BY <1>7, <3>1
      <3>4. 1 \in DOMAIN first
        BY <1>7, <3>1
      <3>. QED
        BY <1>7, <3>1, <3>2, <3>3, <3>4 DEF RowsOf
    <2>4. more \cup RowsOf(rest) \in Units
      <3>1. more \cup RowsOf(rest) = tx[s].unit \cup RowsOf(first)
        BY <2>3
      <3>. QED
        BY <1>7, <3>1
    <2>5. PICK todo : todo = <<rest>> \o after
      OBVIOUS
    <2>6. /\ todo # <<>> /\ todo[1] = rest
          /\ \A k \in DOMAIN todo : k > 1 => k - 1 \in DOMAIN after /\ todo[k] = after[k - 1]
      BY <1>8, <2>3, <2>5
    <2>7. \A k \in DOMAIN todo : k > 1 => RowsOf(todo[k]) \in Units
      BY <1>8, <2>6
    <2>8. /\ \A r \in tx[s].done : Refs[r] \subseteq rows \cup tx[s].done
          /\ \A r \in more : Refs[r] \subseteq rows \cup tx[s].done \cup more
      BY <1>1, <1>2 DEF UnitInv, Wrote
    <2>9. UnitInv(s)'
      BY <1>1, <1>9, <2>1, <2>2, <2>4, <2>5, <2>6, <2>7, <2>8 DEF UnitInv, Wrote
    <2>. QED
      BY <1>1, <1>3, <2>9, UnitsMove
  <1>. QED
    BY <1>10, <1>11

\* When a deletion commits no request has inserted anything.
LEMMA CommitPurgeUnits ==
  ASSUME PurgeInv, UnitsInv, NEW s \in Owners, CommitPurge(s)
  PROVE  UnitsInv'
  <1>1. tx[s] # None /\ tx[s].step > 11 /\ tx' = [tx EXCEPT ![s] = None]
    BY Steps DEF CommitPurge, Close
  <1>2. tx[s].step > 10
    BY <1>1, OwnerType
  <1> SUFFICES ASSUME NEW w \in Writers, tx'[w] # None PROVE UnitInv(w)'
    BY DEF UnitsInv, UnitInv
  <1>3. tx'[w] = tx[w]
    BY <1>1, PurgeAssumption DEF PurgeInv, Sessions
  <1>4. tx[w].done = {} /\ tx[w].unit = {}
    BY <1>1, <1>2, <1>3, TakenStore DEF Wrote
  <1>. QED
    BY <1>3, <1>4 DEF UnitsInv, UnitInv

LEMMA NextUnits == PurgeInv /\ UnitsInv /\ [Next]_vars => UnitsInv'
  <1> SUFFICES ASSUME PurgeInv, UnitsInv, [Next]_vars PROVE UnitsInv'
    OBVIOUS
  <1>1. \A w \in Writers : w \in Sessions /\ w \notin Owners
    BY PurgeAssumption DEF Sessions
  <1>2. ASSUME NEW s \in Writers, BeginWrite(s) \/ Write(s) PROVE UnitsInv'
    <2>1. CASE InsertFails(s)
      BY <2>1, UndoUnits DEF InsertFails
    <2>2. CASE CommitWrite(s)
      <3>1. rows \subseteq rows' /\ tx' = [tx EXCEPT ![s] = None]
        BY <2>2 DEF CommitWrite, Close
      <3>2. \A w \in Writers : tx'[w] # None => tx'[w] = tx[w]
        BY <1>1, <3>1 DEF PurgeInv
      <3>. QED
        BY <3>1, <3>2, UnitsStay
    <2>. QED
      BY <1>2, <2>1, <2>2, BeginUnits, PassOverUnits, InsertUnits DEF Write
  <1>3. ASSUME NEW s \in Owners, BeginPurge(s) \/ StartDelete(s) \/ FinishDelete(s) \/ GiveUp(s)
        PROVE  UnitsInv'
    <2>1. rows' = rows
      BY <1>3 DEF BeginPurge, StartDelete, FinishDelete, GiveUp, RolledBack
    <2>2. \A w \in Writers : tx'[w] = tx[w]
      BY <1>1, <1>3 DEF BeginPurge, StartDelete, FinishDelete, GiveUp, Close, PurgeInv
    <2>. QED
      BY <2>1, <2>2, UnitsStay
  <1>4. ASSUME NEW s \in Sessions, BreakDeadlock(s) PROVE UnitsInv'
    <2>1. CASE s \in Owners
      BY <1>3, <1>4, <2>1 DEF BreakDeadlock
    <2>2. CASE s \notin Owners
      <3>1. s \in Writers /\ UndoUnit(s) /\ WaitsFor(s) # {}
        BY <1>4, <2>2 DEF BreakDeadlock, Sessions, Deadlocked
      <3>2. Writes(s)
        BY <2>2, <3>1 DEF WaitsFor
      <3>. QED
        BY <3>1, <3>2, UndoUnits
    <2>. QED
      BY <2>1, <2>2
  <1>5. CASE UNCHANGED vars
    BY <1>5, UnitsStay DEF vars
  <1>. QED
    BY <1>2, <1>3, <1>4, <1>5, CommitPurgeUnits DEF Next, Erase

\* The SAVEPOINT per unit and the foreign keys: what an open request would commit are
\* whole units, beside everything they refer to.
THEOREM UnitsCorrect == Spec => []UnitsInv
  <1>1. Init => UnitsInv
    BY DEF Init, UnitsInv, UnitInv, Sessions
  <1>. QED
    BY <1>1, NextUnits, PurgeCorrect, PTL DEF Spec

\* Table by table and row by row the backend implements AccountLife: only the commits of
\* a push and of a deletion change what is stored, the former by whole units whose
\* references exist, the latter by taking everything.
THEOREM ImplementsAccount == Spec => AccountSpec
  <1>1. Init => Account!Init
    BY DEF Init, Account!Init
  <1>2. PurgeInv /\ UnitsInv /\ [Next]_vars => [Account!Next]_rows
    <2> SUFFICES ASSUME PurgeInv, UnitsInv, Next, rows' # rows PROVE Account!Next
      BY DEF vars
    <2>1. CASE \E s \in Writers : CommitWrite(s)
      <3>1. PICK s \in Writers : CommitWrite(s)
        BY <2>1
      <3>2. tx[s] # None /\ rows' = rows \cup tx[s].done
        BY <3>1 DEF CommitWrite
      <3>3. rows # {}
        BY <2>1, <3>2, HoldsStore DEF Wrote
      <3>4. PICK units \in SUBSET Units : tx[s].done = UNION units
        BY <3>2 DEF UnitsInv, UnitInv, WholeUnits
      <3>5. \A r \in UNION units : Refs[r] \subseteq rows'
        BY <3>2, <3>4 DEF UnitsInv, UnitInv
      <3>. QED
        BY <3>2, <3>3, <3>4, <3>5 DEF Account!Next, Account!Store
    <2>2. CASE \E s \in Owners : CommitPurge(s)
      <3>1. PICK s \in Owners : CommitPurge(s)
        BY <2>2
      <3>2. tx[s] # None /\ tx[s].step > 11 /\ rows' = rows \ tx[s].gone
        BY <3>1, Steps DEF CommitPurge
      <3>3. rows \subseteq tx[s].gone
        BY <3>2 DEF PurgeInv, OwnerInv
      <3>. QED
        BY <3>2, <3>3 DEF Account!Next, Account!Delete
    <2>3. \/ \E s \in Writers : CommitWrite(s)
          \/ \E s \in Owners : CommitPurge(s)
          \/ rows' = rows
      BY DEF Next, BeginWrite, Write, PassOver, Insert, InsertFails, UndoUnit, BeginPurge, Erase,
         StartDelete, FinishDelete, GiveUp, RolledBack, BreakDeadlock
    <2>. QED
      BY <2>1, <2>2, <2>3
  <1>. QED
    BY <1>1, <1>2, PurgeCorrect, UnitsCorrect, PTL DEF Spec, AccountSpec, Account!Spec
==============================================================================
