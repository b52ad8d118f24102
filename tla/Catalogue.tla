------------------------------ MODULE Catalogue ------------------------------
(***************************************************************************)
(* The catalogue of one store: products, categories, images and the ledger *)
(* of stock movements, written by the routes of catalog, inventory and by  *)
(* the state synchronisation (PUT /sync/products, PUT /sync/categories).   *)
(*                                                                         *)
(* A request is two steps.  Begin opens its transaction: the start time is *)
(* what now() and the updated_at triggers will write, and the rows are     *)
(* read without a lock.  The action of the route then runs its checks on   *)
(* what was read, writes, and commits.  Row locks are held from the write  *)
(* to the commit, so the second step is atomic; requests overlap between   *)
(* the two.  The rows read stay in the session (tx[w].prod ...): an UPDATE *)
(* only names the attributes that differ from what was read.  The routes   *)
(* of images have a step more: they read the row of product_images after   *)
(* the product, by a SELECT of its own (LoadImage).                        *)
(*                                                                         *)
(* A name stands for every attribute nothing is decided on (prices,        *)
(* thresholds).  A product of POST gets the id the server draws: it is in  *)
(* the request here, and Begin refuses an id already drawn.                *)
(***************************************************************************)
EXTENDS Integers, FiniteSets, SequencesExt

CONSTANTS Products, Categories,   \* the ids of rows
          Names, Barcodes, Shas,  \* values of the columns
          Requests,               \* the requests devices may send
          Workers,                \* requests served at the same time
          MaxSends,               \* bound: requests sent in a behaviour
          Tick,                   \* time between two transaction starts
          Tolerance,              \* _SYNC_TOLERANCE_MS
          None,                   \* NULL
          Malformed               \* a line of an import that does not parse, no image

ASSUME ClockAssumption == Tick \in Nat \ {0} /\ Tolerance \in Nat /\ MaxSends \in Nat

VARIABLES prod, cat, img,  \* the tables, by id
          moves,           \* stock_movements of each product, in commit order
          clock, sends,
          tx,              \* the open transaction of each worker
          by,              \* history: the request that last changed a product
          raced,           \* history: <<id, field>> written over an unseen change
          unforeseen       \* history: requests an index refused without a race

tables == <<prod, cat, img, moves>>
history == <<by, raced, unforeseen>>
vars == <<prod, cat, img, moves, clock, sends, tx, by, raced, unforeseen>>

ProductRow == [name: Names, barcode: Barcodes \cup {None}, stock: Int \cup {None},
               category: Categories \cup {None}, image: Shas \cup {None},
               deleted: BOOLEAN, updated: Nat]

CategoryRow == [name: Names, deleted: BOOLEAN, updated: Nat]

Movement == [delta: Int \cup {None}, result: Int \cup {None}]

\* image is what LoadImage has read: nothing yet, or the image, None if there is none.
Session == [req: Requests, at: Nat, prod: [Products -> ProductRow \cup {None}],
            cat: [Categories -> CategoryRow \cup {None}], image: SUBSET (Shas \cup {None})]

\* NULL is no value, no row and no session.
ASSUME NoneAssumption ==
    /\ None \notin Names \cup Barcodes \cup Shas \cup Categories
    /\ None \notin Int /\ None \notin ProductRow /\ None \notin CategoryRow
    /\ None \notin Session

TypeOK ==
    /\ prod \in [Products -> ProductRow \cup {None}]
    /\ cat \in [Categories -> CategoryRow \cup {None}]
    /\ img \in [Products -> Shas \cup {None}]
    /\ moves \in [Products -> Seq(Movement)]
    /\ clock \in Nat /\ sends \in 0..MaxSends
    /\ tx \in [Workers -> Session \cup {None}]

Init ==
    /\ prod = [p \in Products |-> None]
    /\ cat = [c \in Categories |-> None]
    /\ img = [p \in Products |-> None]
    /\ moves = [p \in Products |-> <<>>]
    /\ clock = 0 /\ sends = 0
    /\ tx = [w \in Workers |-> None]
    /\ by = [p \in Products |-> None]
    /\ raced = {} /\ unforeseen = {}

-----------------------------------------------------------------------------
(* Queries and the rules of the ORM *)

Live(row) == row # None /\ ~row.deleted

\* The active rows of the table that hold this value (a barcode, a name).
Holders(table, column, value) ==
    {o \in DOMAIN table : value # None /\ Live(table[o]) /\ table[o][column] = value}

\* The SELECT of a route before it writes: somebody else has this value.
\* Mutant: it is left to the index.
Taken_LeftToIndex(table, column, value, id) == FALSE

Taken(table, column, value, id) == Holders(table, column, value) \ {id} # {}

\* The rows a partial unique index, over the active rows, refuses.
Clashing(table, column) ==
    {k \in DOMAIN table : Live(table[k]) /\ Holders(table, column, table[k][column]) \ {k} # {}}

\* resolve_for_product: a category is optional in a payload; one the store
\* does not have is refused, a deleted one is as no category.  Mutant: a
\* deleted category is accepted.
UnknownCategory(table, fields) ==
    "category" \in DOMAIN fields /\ fields.category # None /\ table[fields.category] = None

ResolveForProduct_AnyCategory(table, fields) == fields

ResolveForProduct(table, fields) ==
    IF "category" \notin DOMAIN fields THEN fields
    ELSE [fields EXCEPT !.category = IF @ # None /\ Live(table[@]) THEN @ ELSE None]

\* Setting attributes of a loaded row; an attribute left out is untouched.
Assigned(row, fields) == [f \in DOMAIN row |->
    IF f \in DOMAIN fields THEN fields[f] ELSE row[f]]

Restored(fields) == [f \in DOMAIN fields \cup {"deleted"} |->
    IF f = "deleted" THEN FALSE ELSE fields[f]]

WithoutStock(fields) == [f \in DOMAIN fields \ {"stock"} |-> fields[f]]

\* The attributes an UPDATE names.  Mutant: image_version is not one of them.
Dirty_NoImage(seen, want) == {f \in DOMAIN seen \ {"updated", "image"} : want[f] # seen[f]}

Dirty(seen, want) == {f \in DOMAIN seen \ {"updated"} : want[f] # seen[f]}

\* flush: the UPDATE sets the dirty attributes, the trigger sets updated_at.
Flushed(row, seen, want, at) ==
    IF Dirty(seen, want) = {} THEN row
    ELSE [f \in DOMAIN row |-> IF f = "updated" THEN at
                               ELSE IF f \in Dirty(seen, want) THEN want[f] ELSE row[f]]

\* adjust_stock and set_stock_null, both from the stock held by the session.
StockSet(row, old, new, at) ==
    IF new = old THEN row ELSE [row EXCEPT !.stock = new, !.updated = at]

OrZero(stock) == IF stock = None THEN 0 ELSE stock

Recorded(p, delta, result) ==
    [moves EXCEPT ![p] = Append(@, [delta |-> delta, result |-> result])]

\* record_catalog_update: the movement of a stock given as a value.  Mutants:
\* the value is taken for a delta; a movement even when nothing changed.
CatalogUpdate_NotDelta(p, old, new) == IF new = old THEN moves ELSE Recorded(p, new, new)

CatalogUpdate_Always(p, old, new) ==
    Recorded(p, IF new = None THEN None ELSE new - OrZero(old), new)

CatalogUpdate(p, old, new) ==
    IF new = old THEN moves
    ELSE Recorded(p, IF new = None THEN None ELSE new - OrZero(old), new)

Members(table, c) == {p \in Products : table[p] # None /\ table[p].category = c}

-----------------------------------------------------------------------------
(* Transactions *)

\* The ids a POST draws; nobody else has them.
Drawn(r) == IF r.route \in {"create", "bulk"} THEN {i.id : i \in ToSet(r.items) \ {Malformed}}
            ELSE {}

\* What the schemas say of the requests (catalog/schemas.py, sync/schemas.py):
\* POST gives every field, PUT every field but the category, PATCH what changes.
Column == [name |-> Names, barcode |-> Barcodes \cup {None}, stock |-> Int \cup {None},
           category |-> Categories \cup {None}]

IsFields(x) == /\ DOMAIN x \subseteq DOMAIN Column
               /\ x = [f \in DOMAIN x |-> x[f]]
               /\ \A f \in DOMAIN x : x[f] \in Column[f]

IsLine(item) == /\ item.id \in Products /\ IsFields(item.fields)
                /\ DOMAIN item.fields = DOMAIN Column

\* The ids drawn by a POST differ, and no PUT has one of them.
ASSUME RequestsAssumption ==
    \A r \in Requests :
        /\ r.route \in {"create", "bulk"} =>
              /\ r.items = [k \in 1..Len(r.items) |-> r.items[k]] /\ Len(r.items) \in Nat
              /\ \A k \in 1..Len(r.items) : r.items[k] = Malformed \/ IsLine(r.items[k])
              /\ \A j, k \in 1..Len(r.items) : j # k =>
                    Malformed \in {r.items[j], r.items[k]} \/ r.items[j].id # r.items[k].id
        /\ r.route \in {"put", "patch", "delete", "image", "unimage", "adjust", "sale"} =>
              r.id \in Products
        /\ r.route \in {"put", "patch"} => IsFields(r.fields)
        /\ r.route = "put" => /\ {"name", "barcode", "stock"} \subseteq DOMAIN r.fields
                              /\ \A q \in Requests : r.id \notin Drawn(q)
        /\ r.route \in {"put", "putCategory"} => r.ts \in Nat /\ r.deleted \in BOOLEAN
        /\ r.route = "image" => r.sha \in Shas \cup {Malformed}
        /\ r.route \in {"adjust", "sale"} => r.delta \in Int
        /\ r.route \in {"newCategory", "rename", "dropCategory", "putCategory"} =>
              r.id \in Categories
        /\ r.route \in {"newCategory", "rename", "putCategory"} => r.name \in Names

Fresh(r) == \A p \in Drawn(r) :
    prod[p] = None /\ \A w \in Workers : tx[w] # None => p \notin Drawn(tx[w].req)

\* The session opens: start time of the transaction, rows read.
Begin(w, r) ==
    /\ tx[w] = None /\ sends < MaxSends /\ Fresh(r)
    /\ clock' = clock + Tick /\ sends' = sends + 1
    /\ tx' = [tx EXCEPT ![w] = [req |-> r, at |-> clock', prod |-> prod, cat |-> cat,
                               image |-> {}]]
    /\ UNCHANGED <<tables, history>>

Serves(w, route) == tx[w] # None /\ tx[w].req.route = route

Close(w) == tx' = [tx EXCEPT ![w] = None]

\* The answer of a request that writes nothing: refused, or nothing to do.
Answer(w) == Close(w) /\ UNCHANGED <<tables, clock, sends, history>>

\* What a commit wrote over a change its session had not seen, and the images
\* it changed when the two reads did not agree.
Overwrites(t, p, c, i, m) ==
    LET written == {j \in Products : p[j] # prod[j] \/ m[j] # moves[j]}
        stale == {j \in written : t.prod[j] # prod[j]}
        linked == {k \in Categories : c[k] # cat[k] \/ Members(p, k) # Members(prod, k)}
        drawn == {j \in Products : prod[j] # None
                                      /\ (i[j] # img[j] \/ p[j].image # prod[j].image)}
    IN {<<j, "row">> : j \in stale}
       \cup {<<j, "stock">> : j \in {x \in stale : t.prod[x].stock # prod[x].stock}}
       \cup {<<j, "image">> : j \in {x \in drawn : t.image # {t.prod[x].image}}}
       \cup {<<k, "members">> : k \in {x \in linked :
                \/ t.cat[x] # cat[x]
                \/ Members(t.prod, x) # Members(prod, x)}}

\* No row an index refuses has changed since the session read it.
NothingMoved(t, p, c) ==
    /\ \A j \in Clashing(p, "barcode") : t.prod[j] = prod[j]
    /\ \A k \in Clashing(c, "name") : t.cat[k] = cat[k]

\* flush and commit.  An index that refuses a row undoes the transaction.
Save(w, p, c, i, m) ==
    /\ IF Clashing(p, "barcode") = {} /\ Clashing(c, "name") = {}
       THEN /\ prod' = p /\ cat' = c /\ img' = i /\ moves' = m
            /\ by' = [k \in Products |->
                  IF p[k] # prod[k] THEN [req |-> tx[w].req, at |-> tx[w].at] ELSE by[k]]
            /\ raced' = raced \cup Overwrites(tx[w], p, c, i, m)
            /\ UNCHANGED unforeseen
       ELSE /\ unforeseen' = IF NothingMoved(tx[w], p, c) THEN unforeseen \cup {tx[w].req}
                             ELSE unforeseen
            /\ UNCHANGED <<tables, by, raced>>
    /\ Close(w)
    /\ UNCHANGED <<clock, sends>>

\* update of a product, then record_catalog_update when a stock is given.
\* update reads the row again (refresh).  After an UPDATE its lock keeps it the
\* row of now; without one it may have changed again since: the stock held is
\* that of now or an older one.  A product deleted meanwhile is not found.
SaveProduct(w, id, fields) ==
    LET t == tx[w]
        seen == t.prod[id]
        want == Assigned(seen, WithoutStock(fields))
        row == Flushed(prod[id], seen, want, t.at)
    IN IF "stock" \notin DOMAIN fields
       THEN Save(w, [prod EXCEPT ![id] = row], cat, img, moves)
       ELSE \E held \in {row} \cup (IF Dirty(seen, want) = {} THEN {seen} ELSE {}) :
              IF held.deleted THEN Answer(w)
              ELSE Save(w, [prod EXCEPT ![id] = StockSet(row, held.stock, fields.stock, t.at)],
                        cat, img, CatalogUpdate(id, held.stock, fields.stock))

-----------------------------------------------------------------------------
(* /products *)

\* The row a payload asks for: NULL where it says nothing, and no stock yet.
NewProduct(fields, updated) ==
    Assigned([name |-> None, barcode |-> None, stock |-> None, category |-> None,
              image |-> None, deleted |-> FALSE, updated |-> updated], WithoutStock(fields))

\* A line of the file gives a product, or the reason why it does not.
Parses(item) == item # Malformed

\* The row of a new product, and its stock when one is given.
Inserted(fields, updated, at) ==
    StockSet(NewProduct(fields, updated), None, fields.stock, at)

FirstMovements(stock) == IF stock = None THEN <<>> ELSE <<[delta |-> stock, result |-> stock]>>

\* A line that gives a product if no line before it has its barcode: the SELECT
\* of create_product sees what the session read, the index what is committed.
Usable(t, item) ==
    /\ Parses(item)
    /\ ~Taken(t.prod, "barcode", item.fields.barcode, item.id)
    /\ Holders(prod, "barcode", item.fields.barcode) = {}
    /\ ~UnknownCategory(t.cat, item.fields)

\* The lines of an import that become products, or the only one of POST
\* /products: a refused line leaves what the others wrote (the SAVEPOINTs,
\* statement by statement, are in ProductImport), and the file goes on.
Kept(t) ==
    LET items == t.req.items
        first(k) == \A j \in 1..(k - 1) :
            Usable(t, items[j]) => items[j].fields.barcode \notin {items[k].fields.barcode} \ {None}
    IN {items[k] : k \in {i \in DOMAIN items : Usable(t, items[i]) /\ first(i)}}

\* The tables after the import; LineOf is the line that drew the id of p.
LineOf(t, p) == CHOOSE item \in Kept(t) : item.id = p

Imported(t) ==
    LET new == {item.id : item \in Kept(t)}
        fields(p) == ResolveForProduct(t.cat, LineOf(t, p).fields)
    IN [prod |-> [p \in Products |-> IF p \in new THEN Inserted(fields(p), t.at, t.at) ELSE prod[p]],
        moves |-> [p \in Products |->
                      IF p \in new THEN FirstMovements(fields(p).stock) ELSE moves[p]]]

CreateProduct(w) ==
    /\ Serves(w, "create")
    /\ LET done == Imported(tx[w]) IN Save(w, done.prod, cat, img, done.moves)

CreateProductsBulk(w) ==
    /\ Serves(w, "bulk")
    /\ LET done == Imported(tx[w]) IN Save(w, done.prod, cat, img, done.moves)

\* PATCH: only the fields of the payload.
UpdateProduct(w) ==
    LET t == tx[w]
        fields == t.req.fields
        seen == t.prod[t.req.id]
    IN /\ Serves(w, "patch")
       /\ IF \/ ~Live(seen)
             \/ /\ "barcode" \in DOMAIN fields /\ fields.barcode # seen.barcode
                /\ Taken(t.prod, "barcode", fields.barcode, t.req.id)
             \/ UnknownCategory(t.cat, fields)
          THEN Answer(w)
          ELSE SaveProduct(w, t.req.id, ResolveForProduct(t.cat, fields))

DeleteProduct(w) ==
    /\ Serves(w, "delete")
    /\ IF Live(tx[w].prod[tx[w].req.id]) THEN SaveProduct(w, tx[w].req.id, [deleted |-> TRUE])
       ELSE Answer(w)

\* normalize_image: a file that is too large or no image is refused.
Decodes(sha) == sha # Malformed

\* A product of the store, and a payload that is an image.
TakesImage(t) == Live(t.prod[t.req.id]) /\ (t.req.route = "image" => Decodes(t.req.sha))

\* db.get of the image, after the product: what was committed in between is seen.
LoadImage(w) ==
    LET t == tx[w] IN
    /\ Serves(w, "image") \/ Serves(w, "unimage")
    /\ t.image = {} /\ TakesImage(t)
    /\ tx' = [tx EXCEPT ![w].image = {img[t.req.id]}]
    /\ UNCHANGED <<tables, clock, sends, history>>

\* PUT image: the row of product_images and image_version together.  A row
\* that went away since the read fails the UPDATE, one that appeared the INSERT.
UploadImage(w) ==
    LET t == tx[w]
        id == t.req.id
        sha == t.req.sha
        want == Assigned(t.prod[id], [image |-> sha])
    IN /\ Serves(w, "image")
       /\ \/ ~TakesImage(t) /\ Answer(w)
          \/ TakesImage(t) /\ \E was \in t.image :
               IF was # sha /\ (was = None) # (img[id] = None) THEN Answer(w)
               ELSE Save(w, [prod EXCEPT ![id] = Flushed(@, t.prod[id], want, t.at)], cat,
                         IF was = sha THEN img ELSE [img EXCEPT ![id] = sha], moves)

\* DELETE image: deleting a row that is gone is only a warning.
DeleteImage(w) ==
    LET t == tx[w]
        id == t.req.id
        want == Assigned(t.prod[id], [image |-> None])
    IN /\ Serves(w, "unimage")
       /\ \/ ~TakesImage(t) /\ Answer(w)
          \/ TakesImage(t) /\ \E was \in t.image :
               Save(w, [prod EXCEPT ![id] = Flushed(@, t.prod[id], want, t.at)], cat,
                    IF was = None THEN img ELSE [img EXCEPT ![id] = None], moves)

-----------------------------------------------------------------------------
(* /inventory/movements, and the movements of sales and returns *)

ManualAdjustment(w) ==
    LET t == tx[w]
        id == t.req.id
        new == OrZero(t.prod[id].stock) + t.req.delta
    IN /\ Serves(w, "adjust")
       /\ IF ~Live(t.prod[id]) THEN Answer(w)
          ELSE Save(w, [prod EXCEPT ![id] = [@ EXCEPT !.stock = new, !.updated = t.at]],
                    cat, img, Recorded(id, t.req.delta, new))

\* A sale or a return of a product that is not tracked leaves it so.
SoldOrReturned(w) ==
    LET t == tx[w]
        id == t.req.id
        old == t.prod[id].stock
        new == IF old = None THEN None ELSE old + t.req.delta
    IN /\ Serves(w, "sale")
       /\ IF ~Live(t.prod[id]) THEN Answer(w)
          ELSE Save(w, [prod EXCEPT ![id] = StockSet(@, old, new, t.at)], cat, img,
                    Recorded(id, t.req.delta, new))

-----------------------------------------------------------------------------
(* /categories *)

\* Mutant: updated_at is left to the client, which sends none.
InsertCategory_NoTime(t, id, name, updated) ==
    [cat EXCEPT ![id] = [name |-> name, deleted |-> FALSE, updated |-> None]]

InsertCategory(t, id, name, updated) ==
    [cat EXCEPT ![id] = [name |-> name, deleted |-> FALSE, updated |-> updated]]

\* soft_delete_and_detach_products: the products the session found in it.
DropCategory(w, id) ==
    LET t == tx[w] IN
    Save(w, [p \in Products |->
                IF p \notin Members(t.prod, id) THEN prod[p]
                ELSE Flushed(prod[p], t.prod[p], Assigned(t.prod[p], [category |-> None]), t.at)],
         [cat EXCEPT ![id] = Flushed(@, t.cat[id], Assigned(t.cat[id], [deleted |-> TRUE]), t.at)],
         img, moves)

SaveCategory(w, id, fields) ==
    LET t == tx[w] IN
    Save(w, prod,
         [cat EXCEPT ![id] = Flushed(@, t.cat[id], Assigned(t.cat[id], fields), t.at)], img, moves)

\* The id of a new category is drawn too: taken when the row exists.
CreateCategory(w) ==
    LET t == tx[w] IN
    /\ Serves(w, "newCategory")
    /\ IF Taken(t.cat, "name", t.req.name, t.req.id) \/ cat[t.req.id] # None THEN Answer(w)
       ELSE Save(w, prod, InsertCategory(t, t.req.id, t.req.name, t.at), img, moves)

RenameCategory(w) ==
    LET t == tx[w] IN
    /\ Serves(w, "rename")
    /\ IF ~Live(t.cat[t.req.id]) \/ Taken(t.cat, "name", t.req.name, t.req.id) THEN Answer(w)
       ELSE SaveCategory(w, t.req.id, [name |-> t.req.name])

DeleteCategory(w) ==
    /\ Serves(w, "dropCategory")
    /\ IF Live(tx[w].cat[tx[w].req.id]) THEN DropCategory(w, tx[w].req.id) ELSE Answer(w)

-----------------------------------------------------------------------------
(* PUT /sync/products and PUT /sync/categories: last write wins *)

\* Mutant: the first write is not protected from an older one.
ClientWins_Either(client, server) == client # server

ClientWins(client, server) == client - server > Tolerance

TsEqual(client, server) == client - server \in -Tolerance..Tolerance

\* The status a PUT is answered with, from the row its session read.
Verdict(row, r, taken) ==
    CASE row = None /\ r.deleted -> "no_change"
      [] row = None /\ ~r.deleted -> IF taken THEN "conflict" ELSE "created"
      [] OTHER ->
           IF (row.deleted /\ r.deleted) \/ TsEqual(r.ts, row.updated) THEN "no_change"
           ELSE IF ~ClientWins(r.ts, row.updated) THEN "conflict"
           ELSE IF r.deleted THEN "deleted"
           ELSE IF taken THEN "conflict" ELSE "updated"

\* An absent category is left alone (old versions of the application); the
\* other fields are always sent, and the row comes back if it was deleted.
SyncProductState(w) ==
    LET t == tx[w]
        r == t.req
        fields == ResolveForProduct(t.cat, r.fields)
        verdict == Verdict(t.prod[r.id], r, Taken(t.prod, "barcode", r.fields.barcode, r.id))
    IN /\ Serves(w, "put")
       /\ IF \/ verdict \in {"no_change", "conflict"}
             \/ verdict # "deleted" /\ UnknownCategory(t.cat, r.fields)
             \/ verdict = "created" /\ prod[r.id] # None
          THEN Answer(w)
          ELSE CASE verdict = "deleted" -> SaveProduct(w, r.id, [deleted |-> TRUE])
                 [] verdict = "updated" -> SaveProduct(w, r.id, Restored(fields))
                 [] verdict = "created" ->
                      Save(w, [prod EXCEPT ![r.id] = Inserted(fields, r.ts, t.at)],
                           cat, img, CatalogUpdate(r.id, None, fields.stock))

SyncCategoryState(w) ==
    LET t == tx[w]
        r == t.req
        verdict == Verdict(t.cat[r.id], r, Taken(t.cat, "name", r.name, r.id))
    IN /\ Serves(w, "putCategory")
       /\ IF verdict \in {"no_change", "conflict"} \/ (verdict = "created" /\ cat[r.id] # None)
          THEN Answer(w)
          ELSE CASE verdict = "deleted" -> DropCategory(w, r.id)
                 [] verdict = "updated" ->
                      SaveCategory(w, r.id, [name |-> r.name, deleted |-> FALSE])
                 [] verdict = "created" ->
                      Save(w, prod, InsertCategory(t, r.id, r.name, r.ts), img, moves)

-----------------------------------------------------------------------------
Next ==
    \E w \in Workers :
        \/ \E r \in Requests : Begin(w, r)
        \/ CreateProduct(w) \/ CreateProductsBulk(w) \/ UpdateProduct(w) \/ DeleteProduct(w)
        \/ LoadImage(w) \/ UploadImage(w) \/ DeleteImage(w)
        \/ ManualAdjustment(w) \/ SoldOrReturned(w)
        \/ CreateCategory(w) \/ RenameCategory(w) \/ DeleteCategory(w)
        \/ SyncProductState(w) \/ SyncCategoryState(w)

Spec == Init /\ [][Next]_vars

-----------------------------------------------------------------------------
(* Properties *)

\* The unique indexes are for races only: they refuse a request (which then
\* ends in error 500) only if a row in its way was changed between its check
\* and its write.  Otherwise the checks of the routes (create_product,
\* update_product, _apply_product_changes, _ensure_name_available) have
\* answered first, also for a row that comes back from its deletion.
IndexNeverSurprises == unforeseen = {}

\* The ledger explains the stock: it is the result of the last movement, and
\* each result follows from the one before it.  The code gives this up only
\* where a request wrote over a stock it had not seen (adjust_stock accepts
\* the lost update).
StockFollowsMovements ==
    \A p \in Products : prod[p] # None /\ <<p, "stock">> \notin raced =>
        LET m == moves[p]
            before(k) == IF k = 1 THEN 0 ELSE OrZero(m[k - 1].result)
        IN /\ prod[p].stock = IF m = <<>> THEN None ELSE m[Len(m)].result
           /\ \A k \in 1..Len(m) :
                  m[k].result # None => m[k].result = before(k) + m[k].delta

\* Deletion wins: no product is left in a deleted category, unless the link
\* was written without seeing the deletion, or the deletion without seeing it.
NoLinkToDeleted ==
    \A c \in Categories : cat[c] # None /\ cat[c].deleted /\ <<c, "members">> \notin raced =>
        Members(prod, c) = {}

\* image_version is the sha256 of the image that is stored, null without one:
\* what docs/adr/0008 and docs/api.md say of it.
VersionIsImage(p) == img[p] = IF prod[p] = None THEN None ELSE prod[p].image

VersionTellsImage == \A p \in Products : VersionIsImage(p)

\* The code keeps it so through overlapping uploads, deletions and edits, as
\* long as no request has read a product before a change of its image and the
\* image after it.
ImageMatchesVersion ==
    \A p \in Products : <<p, "image">> \notin raced => VersionIsImage(p)

Commits(w) == tx[w] # None /\ tx'[w] = None

Content(row) == IF row = None THEN None ELSE [row EXCEPT !.updated = 0]

Unlinked(row) == IF row = None THEN None ELSE [Content(row) EXCEPT !.category = None]

\* A PUT or PATCH sent again because its answer was lost changes nothing and
\* records no movement, as long as nobody else wrote the product and no two
\* requests on it overlapped: their attributes would be mixed, since each
\* UPDATE names only what its session changed.  (The link to a category
\* follows the categories of the moment.)
RetryIsQuiet ==
    [][\A w \in Workers : Commits(w) /\ tx[w].req.route \in {"put", "patch"} =>
         LET p == tx[w].req.id IN
         /\ by[p] # None /\ by[p].req = tx[w].req
         /\ tx[w].prod[p] = prod[p] /\ <<p, "row">> \notin raced
         => Unlinked(prod'[p]) = Unlinked(prod[p]) /\ moves'[p] = moves[p]]_vars

\* Last write wins: when the clocks were right, a PUT never replaces what a
\* later edit of another device has written, unless it had not seen it.
NewerEditWins ==
    [][\A w \in Workers : Commits(w) /\ tx[w].req.route = "put" =>
         LET p == tx[w].req.id IN
         /\ by[p] # None /\ by[p].req.route = "put" /\ by[p].req.ts <= by[p].at
         /\ tx[w].prod[p] = prod[p] /\ Content(prod'[p]) # Content(prod[p])
         => tx[w].req.ts > by[p].req.ts]_vars
==============================================================================
