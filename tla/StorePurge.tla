----------------------------- MODULE StorePurge ------------------------------
(***************************************************************************)
(* DELETE /users/me against requests that still write: purge_store deletes *)
(* the rows of a store table by table, then the store, and the service the *)
(* account.  Each DELETE finds the rows committed when it starts, waits    *)
(* for the transactions that hold some of them, and then meets the foreign *)
(* keys and the triggers that keep records immutable.                      *)
(*                                                                         *)
(* A row is an id with its table and the rows it refers to.  Inserting it  *)
(* takes a lock on those (FOR KEY SHARE; the store row and the product of  *)
(* a movement are even updated), which is what a DELETE waits for; two     *)
(* inserting requests do not wait for each other here.  All rows belong    *)
(* to one account and its store: a statement sees no other store.          *)
(***************************************************************************)
EXTENDS Naturals, Sequences

CONSTANTS Rows,         \* the ids of rows
          Table,        \* the table of each
          Refs,         \* the rows each refers to, its store among them
          Established,  \* the rows of Init
          Jobs,         \* what devices send: sequences of units, sequences of rows
          Owners,       \* sessions that serve DELETE /users/me
          Writers,      \* sessions that serve the other requests
          None

Sessions == Owners \cup Writers

ASSUME PurgeAssumption ==
    /\ Owners \cap Writers = {} /\ Established \subseteq Rows
    /\ \A r \in Rows : Refs[r] \subseteq Rows
    /\ \A r \in Established : Refs[r] \subseteq Established

VARIABLES rows,    \* the committed rows
          tx,      \* the open transaction of each session
          stored   \* history: every row that was ever committed

vars == <<rows, tx, stored>>

-----------------------------------------------------------------------------
(* The schema: the foreign keys of each table and their ON DELETE. *)

StoreKeys == [users |-> "restrict"]

LogoKeys == [stores |-> "cascade"]

CategoryKeys == [stores |-> "restrict"]

ProductKeys == [stores |-> "restrict", categories |-> "set null"]

ImageKeys == [stores |-> "restrict", products |-> "cascade"]

SaleKeys == [stores |-> "restrict", users |-> "set null"]

ItemKeys == [stores |-> "restrict", sales |-> "cascade", products |-> "set null"]

ReturnKeys == [stores |-> "restrict", sales |-> "restrict", users |-> "set null"]

ReturnItemKeys == [stores |-> "restrict", sale_returns |-> "cascade",
                   sale_items |-> "restrict", products |-> "set null"]

MovementKeys == [stores |-> "restrict", products |-> "restrict", sales |-> "set null",
                 sale_returns |-> "restrict", users |-> "set null"]

ForeignKeys ==
    [stores |-> StoreKeys, store_logos |-> LogoKeys, categories |-> CategoryKeys,
     products |-> ProductKeys, product_images |-> ImageKeys, sales |-> SaleKeys,
     sale_items |-> ItemKeys, sale_returns |-> ReturnKeys,
     sale_return_items |-> ReturnItemKeys, stock_movements |-> MovementKeys]

\* Rows follow the schema, there is one store and everything in it carries its
\* id, and no device sends accounts or stores.
ASSUME SchemaAssumption ==
    /\ \A r \in Rows : Table[r] = "users" \/ Table[r] \in DOMAIN ForeignKeys
    /\ \A q \in Rows : \A r \in Refs[q] :
          Table[q] # "users" /\ Table[r] \in DOMAIN ForeignKeys[Table[q]]
    /\ \A q, r \in Rows : Table[q] = "stores" /\ Table[r] = "stores" => q = r
    /\ \A q \in Rows : Table[q] \notin {"users", "stores"} =>
                        \E r \in Refs[q] : Table[r] = "stores"
    /\ Jobs \subseteq Seq(Seq(Rows))
    /\ \A job \in Jobs : \A k \in DOMAIN job :
          /\ job[k] # <<>>
          /\ \A i \in DOMAIN job[k] : Table[job[k][i]] \notin {"users", "stores"}

\* What happens to a row when one it refers to is deleted.
OnDelete == [q \in Rows |-> [r \in Refs[q] |-> ForeignKeys[Table[q]][Table[r]]]]

\* Tables whose triggers refuse every UPDATE.  They let a DELETE pass for the
\* store being purged.
Immutable == {"sales", "sale_returns", "sale_return_items", "stock_movements"}

\* purge_store, then the account.  Mutant: sales before what refers to them.
Deletes_SalesFirst ==
    <<"stock_movements", "sales", "sale_items", "sale_return_items", "sale_returns",
      "product_images", "products", "categories", "store_logos", "stores", "users">>

Deletes ==
    <<"stock_movements", "sale_return_items", "sale_returns", "sale_items", "sales",
      "product_images", "products", "categories", "store_logos", "stores", "users">>

-----------------------------------------------------------------------------
Purge == [step: 1..Len(Deletes) + 1, found: (SUBSET Rows) \cup {None}, gone: SUBSET Rows]

\* todo: the units not finished; unit: rows of the first one since its SAVEPOINT.
Work == [job: Jobs, todo: Seq(Seq(Rows)), unit: SUBSET Rows, done: SUBSET Rows]

ASSUME NoneAssumption == None \notin Purge \cup Work

\* Every transaction is well formed, and holds deleted rows that exist only.
TypeOK ==
    /\ rows \subseteq stored /\ stored \subseteq Rows
    /\ \A s \in Owners : tx[s] # None => tx[s] \in Purge /\ tx[s].gone \subseteq rows
    /\ \A s \in Writers : tx[s] # None => tx[s] \in Work

Init == rows = Established /\ stored = Established /\ tx = [s \in Sessions |-> None]

\* The rows a session keeps others from deleting, or from referring to.
Referred(s) == UNION {Refs[r] : r \in tx[s].done \cup tx[s].unit}

Held(s) == IF tx[s] = None THEN {} ELSE IF s \in Owners THEN tx[s].gone ELSE Referred(s)

Close(s) == tx' = [tx EXCEPT ![s] = None]

-----------------------------------------------------------------------------
(* Requests that write: a unit is a sale, a return, an image ... with the   *)
(* rows that come with it, one INSERT after the other.  An error undoes the   *)
(* unit, for a movement too, whose exception the service swallows.            *)

\* A device sends a job as long as some of it is not stored.
BeginWrite(s) ==
    /\ tx[s] = None
    /\ \E job \in Jobs :
          /\ \E k \in DOMAIN job : job[k][1] \notin stored
          /\ \A w \in Writers : tx[w] # None => tx[w].job # job
          /\ tx' = [tx EXCEPT ![s] = [job |-> job, todo |-> job, unit |-> {}, done |-> {}]]
    /\ UNCHANGED <<rows, stored>>

Writes(s) == tx[s] # None /\ tx[s].todo # <<>>

\* The next row to insert.
NextRow(s) == tx[s].todo[1][1]

Parents(s) == Refs[NextRow(s)]

\* What the unit still has to insert, or the units after it.
Remaining(todo) == IF Len(todo[1]) = 1 THEN Tail(todo) ELSE <<Tail(todo[1])>> \o Tail(todo)

\* A unit that is there already is passed over (already_exists).
Known(s) == tx[s].unit = {} /\ NextRow(s) \in rows

PassOver(s) ==
    /\ Writes(s) /\ Known(s)
    /\ tx' = [tx EXCEPT ![s].todo = Tail(@)]
    /\ UNCHANGED <<rows, stored>>

\* The INSERT waits for transactions that delete a parent, and finds it then.
Insert(s) ==
    /\ Writes(s) /\ ~Known(s) /\ \A o \in Owners : Held(o) \cap Parents(s) = {}
    /\ Parents(s) \subseteq rows \cup tx[s].done \cup tx[s].unit
    /\ LET unit == tx[s].unit \cup {NextRow(s)}
           ends == Len(tx[s].todo[1]) = 1
       IN tx' = [tx EXCEPT ![s].todo = Remaining(@), ![s].unit = IF ends THEN {} ELSE unit,
                           ![s].done = IF ends THEN @ \cup unit ELSE @]
    /\ UNCHANGED <<rows, stored>>

\* ROLLBACK TO SAVEPOINT: the unit is undone, the batch goes on.  Mutant: a
\* SAVEPOINT for each statement instead of one for the unit, so that what was
\* inserted before the error is committed with the rest.
UndoUnit_Keeps(s) ==
    /\ tx' = [tx EXCEPT ![s].todo = Tail(@), ![s].unit = {}, ![s].done = @ \cup tx[s].unit]
    /\ UNCHANGED <<rows, stored>>

UndoUnit(s) ==
    /\ tx' = [tx EXCEPT ![s].todo = Tail(@), ![s].unit = {}]
    /\ UNCHANGED <<rows, stored>>

\* A parent is gone: the foreign key refuses the row.
InsertFails(s) ==
    /\ Writes(s) /\ ~Known(s) /\ \A o \in Owners : Held(o) \cap Parents(s) = {}
    /\ ~(Parents(s) \subseteq rows \cup tx[s].done \cup tx[s].unit)
    /\ UndoUnit(s)

CommitWrite(s) ==
    /\ tx[s] # None /\ tx[s].todo = <<>>
    /\ rows' = rows \cup tx[s].done /\ stored' = stored \cup tx[s].done
    /\ Close(s)

-----------------------------------------------------------------------------
(* DELETE /users/me *)

\* The account and its store are read, the password is right.
BeginPurge(s) ==
    /\ tx[s] = None /\ \E r \in rows : Table[r] = "users"
    /\ tx' = [tx EXCEPT ![s] = [step |-> 1, found |-> None, gone |-> {}]]
    /\ UNCHANGED <<rows, stored>>

Deleting(s) == tx[s] # None /\ tx[s].step <= Len(Deletes)

\* A DELETE starts: it finds what is committed.
StartDelete(s) ==
    /\ Deleting(s) /\ tx[s].found = None
    /\ tx' = [tx EXCEPT ![s].found = {r \in rows : Table[r] = Deletes[tx[s].step]}]
    /\ UNCHANGED <<rows, stored>>

\* The rows it deletes once it has their locks: a row that another deletion
\* took meanwhile is passed over.
Targets(s) == tx[s].found \cap rows

\* With what refers to them by a key that cascades.
Doomed(s) ==
    LET targets == Targets(s)
    IN targets \cup {q \in rows \ tx[s].gone :
                         \E r \in Refs[q] \cap targets : OnDelete[q][r] = "cascade"}

\* A key restricts the deletion, or would update a record that is immutable;
\* the function raises when it has deleted no store.
Refused(s) ==
    LET doomed == Doomed(s)
    IN \/ Deletes[tx[s].step] = "stores" /\ Targets(s) = {}
       \/ \E q \in (rows \ tx[s].gone) \ doomed : \E r \in Refs[q] \cap doomed :
             \/ OnDelete[q][r] = "restrict"
             \/ OnDelete[q][r] = "set null" /\ Table[q] \in Immutable

InTheWay(s) == LET doomed == Doomed(s)
               IN {o \in Sessions \ {s} : Held(o) \cap doomed # {}}

\* The transaction is rolled back.  Mutant: what was deleted before stays so.
RolledBack_Kept(s) == rows \ tx[s].gone

RolledBack(s) == rows

GiveUp(s) == rows' = RolledBack(s) /\ Close(s) /\ UNCHANGED stored

FinishDelete(s) ==
    /\ Deleting(s) /\ tx[s].found # None /\ InTheWay(s) = {}
    /\ IF Refused(s) THEN GiveUp(s)
       ELSE /\ tx' = [tx EXCEPT ![s] = [step |-> @.step + 1, found |-> None,
                                         gone |-> @.gone \cup Doomed(s)]]
            /\ UNCHANGED <<rows, stored>>

CommitPurge(s) ==
    /\ tx[s] # None /\ tx[s].step > Len(Deletes)
    /\ rows' = rows \ tx[s].gone
    /\ Close(s) /\ UNCHANGED stored

-----------------------------------------------------------------------------
(* PostgreSQL breaks a circle of transactions that wait by failing one of   *)
(* them: a unit of a batch, or the purge.                                    *)

WaitsFor(s) ==
    IF s \in Owners
    THEN IF Deleting(s) /\ tx[s].found # None THEN InTheWay(s) ELSE {}
    ELSE IF Writes(s) /\ ~Known(s) THEN {o \in Owners : Held(o) \cap Parents(s) # {}} ELSE {}

Deadlocked(s) == \E o \in WaitsFor(s) :
    s \in WaitsFor(o) \/ \E x \in WaitsFor(o) : s \in WaitsFor(x)

BreakDeadlock(s) ==
    /\ Deadlocked(s)
    /\ IF s \in Owners THEN GiveUp(s) ELSE UndoUnit(s)

-----------------------------------------------------------------------------
Write(s) == PassOver(s) \/ Insert(s) \/ InsertFails(s) \/ CommitWrite(s)

Erase(s) == StartDelete(s) \/ FinishDelete(s) \/ CommitPurge(s)

Next ==
    \/ \E s \in Writers : BeginWrite(s) \/ Write(s)
    \/ \E s \in Owners : BeginPurge(s) \/ Erase(s)
    \/ \E s \in Sessions : BreakDeadlock(s)

Spec == Init /\ [][Next]_vars

\* Statements end, a freed row goes to the transaction that waits for it (a
\* queue in PostgreSQL), deadlocks are broken, and the owner asks until the
\* account is gone.  Nothing makes a device write.
FairSpec ==
    /\ Spec
    /\ \A s \in Writers : SF_vars(Write(s))
    /\ \A s \in Owners : SF_vars(Erase(s))
    /\ WF_vars(\E s \in Owners : BeginPurge(s))
    /\ WF_vars(\E s \in Sessions : BreakDeadlock(s))

-----------------------------------------------------------------------------
(* Properties *)

\* "Suppression definitive et immediate: boutique et toutes ses donnees, puis
\* l'utilisateur" (ADR-0011): a deletion leaves nothing, one that fails takes
\* nothing, and what devices push meanwhile neither outlives the store nor
\* is lost with a deletion that is undone.
AllOrNothing == rows \in {stored, {}}

\* The account as its owner sees it (AccountLife): the tables are purged one by
\* one and rows are inserted one by one, yet units are stored whole, with all that
\* they refer to, and all rows go at once.
RowsOf(unit) == {unit[i] : i \in DOMAIN unit}

Units == UNION {{RowsOf(job[k]) : k \in DOMAIN job} : job \in Jobs}

Account == INSTANCE AccountLife WITH data <- rows
AccountSpec == Account!Spec

\* An owner who keeps asking is rid of the account, whatever was pushed and
\* whichever deadlocks were broken on the way, unless devices push forever.
GoneAtLast ==
    <>(rows = {}) \/ []<><<\E s \in Writers : BeginWrite(s)>>_vars
==============================================================================
