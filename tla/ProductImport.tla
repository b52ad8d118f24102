---------------------------- MODULE ProductImport ----------------------------
(***************************************************************************)
(* POST /products/bulk and /products/bulk/file, statement by statement:    *)
(* many lines in one transaction, each in a SAVEPOINT of its own, while    *)
(* other imports and other devices write the same table.  (Catalogue takes *)
(* an import as one step among the other routes.)                          *)
(*                                                                         *)
(* app/modules/catalog/router.py, service.py and repository.py,            *)
(* inventory/service.py (record_catalog_update), core/db.py (get_db)       *)
(***************************************************************************)
EXTENDS Integers, Sequences, FiniteSetsExt

CONSTANTS Imports,      \* requests that import a file
          Others,       \* products that other routes create
          Barcodes, Categories,
          Files,        \* sequences of lines
          MaxStock,     \* the largest value of the column current_stock (INTEGER)
          Malformed,    \* a line of the file that is no product
          None

ASSUME StockAssumption == MaxStock \in Nat

Line == [barcode : Barcodes \cup {None}, category : Categories \cup {None},
         stock : Nat \cup {None}]

ASSUME FilesAssumption == \A file \in Files : file \in Seq(Line \cup {Malformed})

VARIABLES prod,   \* the committed rows of products with their stock movements
          cats,   \* the committed categories, deleted ones included
          run     \* the transactions of the imports: the file, the statement a
                  \* line is at (pc), the rows written (draft), those written
                  \* before the line (saved), and what was said of each line
                  \* ("taken": its barcode is another product's)

vars == <<prod, cats, run>>

-----------------------------------------------------------------------------
(* Rows and transactions *)

\* uuid4 draws an id for each line that reaches the INSERT.
Drawn == Imports \X (1 .. Max({Len(file) : file \in Files}))
Products == Drawn \cup Others

\* The line an import is at, and the product it makes of it.
At(i) == Len(run[i].results) + 1
Current(i) == run[i].file[At(i)]
Mine(i) == <<i, At(i)>>

Active(row) == row # None /\ ~row.deleted

\* The committed rows that the partial unique index holds for a barcode.
Stored(b) == {p \in Products : Active(prod[p]) /\ prod[p].barcode = b}

\* The rows of an open transaction with that barcode.
Drafted(i, b) == {d \in run[i].draft : d[2].barcode = b}

-----------------------------------------------------------------------------
(* begin_nested *)

Savepoint(r) == [r EXCEPT !.saved = r.draft, !.pc = "barcode"]

\* Bug: create_product and the stock would have a SAVEPOINT each, so that a
\* stock that fails leaves the product.
RolledBack_KeepsProduct(r) == r

\* ROLLBACK TO SAVEPOINT: everything the line wrote, and nothing else.
RolledBack(r) == [r EXCEPT !.draft = r.saved]

\* The line has its result; the next one, or the answer, which goes out before
\* get_db commits.
Told(r, verdict) ==
    LET results == Append(r.results, verdict)
    IN [r EXCEPT !.results = results,
                 !.pc = IF Len(results) = Len(r.file) THEN "answered" ELSE "line"]

\* _create_bulk_item never raises: whatever a line fails with is its result.
Fail(i, verdict) ==
    /\ run' = [run EXCEPT ![i] = Told(RolledBack(@), verdict)]
    /\ UNCHANGED <<prod, cats>>

Goes(i, pc) == run' = [run EXCEPT ![i].pc = pc] /\ UNCHANGED <<prod, cats>>

-----------------------------------------------------------------------------
(* A line *)

OpenLine(i) ==
    /\ run[i].pc = "line"
    /\ run' = [run EXCEPT ![i] =
                  IF Current(i) = Malformed THEN Told(@, "error") ELSE Savepoint(@)]
    /\ UNCHANGED <<prod, cats>>

\* get_active_by_barcode sees what is committed, and the lines before this one.
LookUpBarcode(i) ==
    LET b == Current(i).barcode IN
    /\ run[i].pc = "barcode"
    /\ IF b # None /\ Stored(b) \cup Drafted(i, b) # {} THEN Fail(i, "taken")
       ELSE Goes(i, "category")

\* resolve_for_product: a deleted category is none, one the store never had an error.
ResolveCategory(i) ==
    /\ run[i].pc = "category"
    /\ IF Current(i).category \in Categories \ cats THEN Fail(i, "unknown")
       ELSE Goes(i, "insert")

\* The INSERT waits for the transaction that holds its barcode uncommitted.
WaitsFor(i, j) ==
    /\ i # j
    /\ run[i] # None /\ run[i].pc = "insert" /\ Current(i).barcode # None
    /\ run[j] # None /\ Drafted(j, Current(i).barcode) # {}

InsertProduct(i) ==
    LET line == Current(i)
        row == [barcode |-> line.barcode, stock |-> None, moves |-> <<>>, deleted |-> FALSE]
    IN /\ run[i].pc = "insert"
       /\ \A j \in Imports : ~WaitsFor(i, j)
       /\ IF line.barcode # None /\ Stored(line.barcode) \cup Drafted(i, line.barcode) # {}
          THEN Fail(i, "taken")
          ELSE /\ run' = [run EXCEPT
                             ![i].draft = @ \cup {<<Mine(i), row>>},
                             ![i].pc = IF line.stock = None THEN "release" ELSE "stock"]
               /\ UNCHANGED <<prod, cats>>

\* Each waits for another of the set: PostgreSQL cancels a statement of one.
Deadlocked(set) ==
    \A i \in set : (\E j \in set : WaitsFor(i, j)) /\ (\E j \in set : WaitsFor(j, i))

DeadlockDetected(i) ==
    /\ run[i].pc = "insert"
    /\ \E set \in SUBSET Imports : i \in set /\ Deadlocked(set)
    /\ Fail(i, "error")

\* The row this line has inserted, and the draft with another in its place.
Own(i) == (CHOOSE d \in run[i].draft : d[1] = Mine(i))[2]

Rewritten(i, row) == {d \in run[i].draft : d[1] # Mine(i)} \cup {<<Mine(i), row>>}

\* record_catalog_update: the UPDATE; a value that INTEGER cannot hold fails it.
SetStock(i) ==
    LET s == Current(i).stock
    IN /\ run[i].pc = "stock"
       /\ IF s > MaxStock THEN Fail(i, "error")
          ELSE /\ run' = [run EXCEPT ![i].draft = Rewritten(i, [Own(i) EXCEPT !.stock = s]),
                                     ![i].pc = "movement"]
               /\ UNCHANGED <<prod, cats>>

\* The movement of the first stock: its delta counts from zero.
InsertMovement(i) ==
    LET row == [Own(i) EXCEPT !.moves = Append(@, Own(i).stock)]
    IN /\ run[i].pc = "movement"
       /\ run' = [run EXCEPT ![i].draft = Rewritten(i, row), ![i].pc = "release"]
       /\ UNCHANGED <<prod, cats>>

Release(i) ==
    /\ run[i].pc = "release"
    /\ run' = [run EXCEPT ![i] = Told(@, "created")]
    /\ UNCHANGED <<prod, cats>>

-----------------------------------------------------------------------------
(* The request *)

Open(i) == run[i] # None /\ run[i].pc \notin {"committed", "lost"}
Committed(i) == run[i] # None /\ run[i].pc = "committed"

Receive(i, file) ==
    /\ run[i] = None
    /\ run' = [run EXCEPT ![i] = [file |-> file, pc |-> "line", draft |-> {}, saved |-> {},
                                  results |-> <<>>]]
    /\ UNCHANGED <<prod, cats>>

\* get_db, once the answer is out.
Commit(i) ==
    /\ run[i].pc = "answered"
    /\ prod' = [p \in Products |->
                   IF \E d \in run[i].draft : d[1] = p
                   THEN (CHOOSE d \in run[i].draft : d[1] = p)[2]
                   ELSE prod[p]]
    /\ run' = [run EXCEPT ![i].pc = "committed", ![i].draft = {}, ![i].saved = {}]
    /\ UNCHANGED cats

\* The connection or the server fails: the transaction is gone, whatever was
\* or will be answered.
Lose(i) ==
    /\ Open(i)
    /\ run' = [run EXCEPT ![i].pc = "lost", ![i].draft = {}, ![i].saved = {}]
    /\ UNCHANGED <<prod, cats>>

Importing(i) ==
    /\ run[i] # None
    /\ \/ OpenLine(i) \/ LookUpBarcode(i) \/ ResolveCategory(i) \/ InsertProduct(i)
       \/ DeadlockDetected(i) \/ SetStock(i) \/ InsertMovement(i) \/ Release(i)
       \/ Commit(i) \/ Lose(i)

-----------------------------------------------------------------------------
(* The other routes, a transaction each *)

\* POST /products, or a product of a push; the index lets it wait for a draft.
OtherCreates(p, b) ==
    /\ prod[p] = None
    /\ Stored(b) = {}
    /\ \A i \in Imports : run[i] # None => Drafted(i, b) = {}
    /\ prod' = [prod EXCEPT ![p] = [barcode |-> b, stock |-> None, moves |-> <<>>,
                                    deleted |-> FALSE]]
    /\ UNCHANGED <<cats, run>>

OtherDeletes(p) ==
    /\ Active(prod[p])
    /\ prod' = [prod EXCEPT ![p].deleted = TRUE]
    /\ UNCHANGED <<cats, run>>

CategoryCreated(c) ==
    /\ c \notin cats
    /\ cats' = cats \cup {c}
    /\ UNCHANGED <<prod, run>>

Init ==
    /\ prod = [p \in Products |-> None]
    /\ cats = {}
    /\ run = [i \in Imports |-> None]

Next ==
    \/ \E i \in Imports : Importing(i) \/ \E file \in Files : Receive(i, file)
    \/ \E p \in Others, b \in Barcodes : OtherCreates(p, b)
    \/ \E p \in Products : OtherDeletes(p)
    \/ \E c \in Categories : CategoryCreated(c)

Spec == Init /\ [][Next]_vars

-----------------------------------------------------------------------------
(* Properties *)

\* The row of a line that was created: its barcode, its stock and one movement
\* that tells where the stock comes from.
AsAsked(row, line) ==
    /\ row.barcode = line.barcode
    /\ row.stock = line.stock
    /\ row.moves = IF line.stock = None THEN <<>> ELSE <<line.stock>>

\* Once an import is committed, its answer is what is stored: a line said to be
\* created is there with its stock and the movement of it, a line said to have
\* failed left nothing however far it came, and a line refused for its barcode
\* was refused for a product that is stored, never for a line undone since.
ImportTellsTruth ==
    \A i \in Imports : Committed(i) =>
        \A n \in DOMAIN run[i].file :
            LET said == run[i].results[n]
                row == prod[<<i, n>>]
                line == run[i].file[n]
            IN /\ said = "created" <=> row # None
               /\ said = "created" => AsAsked(row, line)
               /\ said = "taken" => \E p \in Products \ {<<i, n>>} :
                     prod[p] # None /\ prod[p].barcode = line.barcode
=============================================================================
