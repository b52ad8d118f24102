--------------------------- MODULE CatalogueProofs ---------------------------
(***************************************************************************)
(* The catalogue keeps its word for any products, categories, requests and *)
(* sessions: what is proved of Catalogue beyond the instance TLC checks.   *)
(*                                                                         *)
(* Every route ends with an Answer, which writes nothing, or with a Save.  *)
(* The proofs say of each route what the tables it asks to save are like   *)
(* (Good), and of Save that it keeps the invariants when they are so.      *)
(***************************************************************************)
EXTENDS Catalogue, TLAPS

-----------------------------------------------------------------------------
(* Rows                                                                    *)

ProductColumn ==
    [name |-> Names, barcode |-> Barcodes \cup {None}, stock |-> Int \cup {None},
     category |-> Categories \cup {None}, image |-> Shas \cup {None},
     deleted |-> BOOLEAN, updated |-> Nat]

CategoryColumn == [name |-> Names, deleted |-> BOOLEAN, updated |-> Nat]

\* A row is a function of its columns, which the ORM goes through.
IsRow(row, column) ==
    /\ row = [f \in DOMAIN column |-> row[f]]
    /\ \A f \in DOMAIN column : row[f] \in column[f]

\* The rows of the two tables are the functions of their columns.
LEMMA ProductIsRow == \A row : row \in ProductRow <=> IsRow(row, ProductColumn)
  <1>1. ASSUME NEW row \in ProductRow PROVE IsRow(row, ProductColumn)
    BY DEF ProductRow, IsRow, ProductColumn
  <1>2. ASSUME NEW row, IsRow(row, ProductColumn) PROVE row \in ProductRow
    <2>1. row = [f \in DOMAIN ProductColumn |-> row[f]]
      BY <1>2 DEF IsRow
    <2>2. /\ row.name \in Names /\ row.barcode \in Barcodes \cup {None}
          /\ row.stock \in Int \cup {None} /\ row.category \in Categories \cup {None}
          /\ row.image \in Shas \cup {None} /\ row.deleted \in BOOLEAN
          /\ row.updated \in Nat
      BY <1>2 DEF IsRow, ProductColumn
    <2> QED BY <2>1, <2>2 DEF ProductRow, ProductColumn
  <1> QED  BY <1>1, <1>2

LEMMA CategoryIsRow == \A row : row \in CategoryRow <=> IsRow(row, CategoryColumn)
  <1>1. ASSUME NEW row \in CategoryRow PROVE IsRow(row, CategoryColumn)
    BY DEF CategoryRow, IsRow, CategoryColumn
  <1>2. ASSUME NEW row, IsRow(row, CategoryColumn) PROVE row \in CategoryRow
    <2>1. row = [f \in DOMAIN CategoryColumn |-> row[f]]
      BY <1>2 DEF IsRow
    <2>2. row.name \in Names /\ row.deleted \in BOOLEAN /\ row.updated \in Nat
      BY <1>2 DEF IsRow, CategoryColumn
    <2> QED BY <2>1, <2>2 DEF CategoryRow, CategoryColumn
  <1> QED  BY <1>1, <1>2

\* The names of the columns, and the type of the one the trigger writes.
LEMMA ColumnNames ==
  /\ DOMAIN ProductColumn = {"name", "barcode", "stock", "category", "image", "deleted", "updated"}
  /\ DOMAIN CategoryColumn = {"name", "deleted", "updated"}
  /\ ProductColumn["updated"] = Nat /\ CategoryColumn["updated"] = Nat
  BY DEF ProductColumn, CategoryColumn

\* Setting the attributes of a row.
LEMMA AssignedRow ==
  ASSUME NEW column, NEW row, IsRow(row, column), NEW fields,
         \A f \in DOMAIN fields : f \in DOMAIN column => fields[f] \in column[f]
  PROVE  /\ IsRow(Assigned(row, fields), column)
         /\ \A f \in DOMAIN column :
              Assigned(row, fields)[f] = IF f \in DOMAIN fields THEN fields[f] ELSE row[f]
  BY DEF IsRow, Assigned

\* What a flush makes of a row: the attributes that changed, and the time.
LEMMA FlushedRow ==
  ASSUME NEW column, NEW row, NEW seen, NEW want, NEW at, "updated" \in DOMAIN column,
         IsRow(row, column), IsRow(seen, column), IsRow(want, column), at \in column["updated"]
  PROVE  /\ IsRow(Flushed(row, seen, want, at), column)
         /\ \A f \in DOMAIN column \ {"updated"} :
              Flushed(row, seen, want, at)[f] = IF want[f] # seen[f] THEN want[f] ELSE row[f]
         /\ Flushed(row, seen, want, at) = row \/ Flushed(row, seen, want, at)["updated"] = at
         /\ Dirty(seen, want) = {} => Flushed(row, seen, want, at) = row
  <1>1. DOMAIN row = DOMAIN column /\ DOMAIN seen = DOMAIN column
    BY DEF IsRow
  <1>2. CASE Dirty(seen, want) = {}
    <2>1. \A f \in DOMAIN column \ {"updated"} : want[f] = seen[f]
      BY <1>1, <1>2 DEF Dirty
    <2> QED BY <1>2, <2>1 DEF Flushed
  <1>3. CASE Dirty(seen, want) # {}
    <2>1. PICK new : new = Flushed(row, seen, want, at)
      OBVIOUS
    <2>2. new = [f \in DOMAIN column |-> IF f = "updated" THEN at
                  ELSE IF f \in Dirty(seen, want) THEN want[f] ELSE row[f]]
      BY <1>1, <1>3, <2>1 DEF Flushed
    <2>3. \A f \in DOMAIN column \ {"updated"} : f \in Dirty(seen, want) <=> want[f] # seen[f]
      BY <1>1 DEF Dirty
    <2>4. \A f \in DOMAIN column \ {"updated"} :
            new[f] = IF want[f] # seen[f] THEN want[f] ELSE row[f]
      BY <2>2, <2>3
    <2>5. new["updated"] = at
      BY <2>2
    <2>6. IsRow(new, column)
      <3>1. \A f \in DOMAIN column : new[f] \in column[f]
        BY <2>4, <2>5 DEF IsRow
      <3>2. new = [f \in DOMAIN column |-> new[f]]
        BY <2>2
      <3> QED BY <3>1, <3>2 DEF IsRow
    <2> QED BY <1>3, <2>1, <2>4, <2>5, <2>6
  <1> QED  BY <1>2, <1>3

-----------------------------------------------------------------------------
(* What a commit is like                                                   *)

\* A movement recorded over the stock `old`, on the row that becomes `row`.
Explains(mv, old, before, row) ==
    /\ old = before.stock => row.stock = mv.result
    /\ mv.result # None => mv.delta \in Int /\ mv.result = OrZero(old) + mv.delta

\* The category a row is linked to is the one it had or one the session saw.
LinkGood(t, row, before, c) ==
    row.category # None =>
        \/ before # None /\ row.category = before.category
        \/ Live(t.cat[row.category]) /\ c[row.category] = cat[row.category]

\* A row nobody had: drawn by this request, or by none at all.
NewRow(t, q, p, c, i, m) ==
    /\ prod[q] = None /\ p[q] \in ProductRow /\ ~p[q].deleted
    /\ p[q].image = None /\ i[q] = None
    /\ m[q] = FirstMovements(p[q].stock)
    /\ LinkGood(t, p[q], None, c)
    /\ p[q].updated = t.at \/ (t.req.route = "put" /\ p[q].updated = t.req.ts)
    /\ q \in Drawn(t.req) \/ \A r \in Requests : q \notin Drawn(r)

\* The image and its version change together or not at all, unless the product
\* and its image were not read in the same state.
ImageGood(t, q, p, i) ==
    /\ i[q] \in Shas \cup {None}
    /\ \/ i[q] = p[q].image
       \/ i[q] = img[q] /\ p[q].image = prod[q].image
       \/ t.image # {t.prod[q].image}

\* A row the session had read.
EditedRow(t, q, p, c, i, m) ==
    /\ prod[q] # None /\ t.prod[q] # None /\ p[q] \in ProductRow
    /\ p[q] = prod[q] \/ p[q].updated = t.at
    /\ ImageGood(t, q, p, i)
    /\ LinkGood(t, p[q], prod[q], c)
    /\ \/ p[q].stock = prod[q].stock /\ m[q] = moves[q]
       \/ \E mv \in Movement, old \in {t.prod[q].stock, prod[q].stock} :
             m[q] = Append(moves[q], mv) /\ Explains(mv, old, prod[q], p[q])

SameRow(q, p, i, m) == p[q] = prod[q] /\ i[q] = img[q] /\ m[q] = moves[q]

\* A category that ends up deleted was, or the session took its members out.
CategoryGood(t, k, p, c) ==
    /\ c[k] \in CategoryRow \cup {None}
    /\ cat[k] # None => c[k] # None
    /\ c[k] # None /\ c[k].deleted =>
          \/ cat[k] # None /\ cat[k].deleted
          \/ \A q \in Members(t.prod, k) : p[q] # None /\ p[q].category = None

\* What the device asked for is in the row.
Applied(r, row) ==
    IF r.route = "put" /\ r.deleted THEN row.deleted
    ELSE /\ \A f \in DOMAIN r.fields \ {"category"} : row[f] = r.fields[f]
         /\ r.route = "put" => ~row.deleted

\* PUT and PATCH touch one product, and do as they are told.
RequestGood(t, p, m) ==
    t.req.route \in {"put", "patch"} =>
        LET r == t.req IN
        /\ \A q \in Products : q # r.id => p[q] = prod[q]
        /\ t.prod[r.id] = prod[r.id] /\ p[r.id] # prod[r.id] => Applied(r, p[r.id])
        /\ t.prod[r.id] = prod[r.id] /\ prod[r.id] # None /\ Applied(r, prod[r.id]) =>
              Unlinked(p[r.id]) = Unlinked(prod[r.id]) /\ m[r.id] = moves[r.id]
        /\ r.route = "put" /\ t.prod[r.id] = prod[r.id] /\ prod[r.id] # None
              /\ p[r.id] # prod[r.id] => r.ts > prod[r.id].updated

Good(t, p, c, i, m) ==
    /\ p = [q \in Products |-> p[q]]
    /\ c = [k \in Categories |-> c[k]]
    /\ i = [q \in Products |-> i[q]]
    /\ m = [q \in Products |-> m[q]]
    /\ \A q \in Products : SameRow(q, p, i, m) \/ NewRow(t, q, p, c, i, m)
                                \/ EditedRow(t, q, p, c, i, m)
    /\ \A k \in Categories : CategoryGood(t, k, p, c)
    /\ RequestGood(t, p, m)

-----------------------------------------------------------------------------
(* The inductive invariant                                                 *)

\* No movement and no image of a product that is not there.
MovesInv == \A q \in Products : prod[q] = None => moves[q] = <<>> /\ img[q] = None

\* Rows do not go away: what a session has read is still a row; and the ids it
\* has drawn are its own.
SessionInv ==
    \A w \in Workers : tx[w] # None =>
        /\ \A q \in Products : tx[w].prod[q] # None => prod[q] # None
        /\ \A k \in Categories : tx[w].cat[k] # None => cat[k] # None
        /\ \A q \in Drawn(tx[w].req) : prod[q] = None
        /\ \A v \in Workers \ {w} : tx[v] # None => Drawn(tx[v].req) \cap Drawn(tx[w].req) = {}

\* The row carries the time and the fields of the request that changed it last.
StampInv ==
    \A q \in Products : by[q] # None =>
        /\ by[q].req \in Requests /\ prod[q] # None
        /\ \/ prod[q].updated = by[q].at
           \/ by[q].req.route = "put" /\ prod[q].updated = by[q].req.ts
        /\ by[q].req.route \in {"put", "patch"} =>
              /\ by[q].req.id = q
              /\ <<q, "row">> \notin raced => Applied(by[q].req, prod[q])

CatalogueInv ==
    /\ TypeOK /\ MovesInv /\ SessionInv /\ StampInv
    /\ StockFollowsMovements /\ NoLinkToDeleted /\ ImageMatchesVersion

-----------------------------------------------------------------------------
(* Facts of the state                                                      *)

\* The columns of a row, which is never NULL.
LEMMA RowFields ==
  /\ \A row \in ProductRow :
        /\ row # None /\ row.name \in Names /\ row.barcode \in Barcodes \cup {None}
        /\ row.stock \in Int \cup {None} /\ row.category \in Categories \cup {None}
        /\ row.image \in Shas \cup {None} /\ row.deleted \in BOOLEAN /\ row.updated \in Nat
  /\ \A row \in CategoryRow :
        row # None /\ row.name \in Names /\ row.deleted \in BOOLEAN /\ row.updated \in Nat
  BY NoneAssumption DEF ProductRow, CategoryRow

\* What an open transaction holds.
LEMMA SessionFields ==
  ASSUME TypeOK, NEW w \in Workers, tx[w] # None
  PROVE  /\ tx[w].req \in Requests /\ tx[w].at \in Nat
         /\ tx[w].prod \in [Products -> ProductRow \cup {None}]
         /\ tx[w].cat \in [Categories -> CategoryRow \cup {None}]
         /\ tx[w].image \in SUBSET (Shas \cup {None})
         /\ tx[w] \in Session
  <1>1. tx[w] \in Session
    BY DEF TypeOK
  <1> QED  BY <1>1 DEF Session

\* A ledger that explains the stock of a row.
Explained(row, m) ==
    /\ row.stock = IF m = <<>> THEN None ELSE m[Len(m)].result
    /\ \A k \in 1..Len(m) :
          m[k].result # None =>
              m[k].result = (IF k = 1 THEN 0 ELSE OrZero(m[k - 1].result)) + m[k].delta

\* The property of the ledger, in terms of Explained.
LEMMA StockFollowsExplained ==
  StockFollowsMovements <=>
    \A p \in Products : prod[p] # None /\ <<p, "stock">> \notin raced =>
        Explained(prod[p], moves[p])
  BY DEF StockFollowsMovements, Explained

\* The first movement of a new product explains its stock.
LEMMA FirstExplained ==
  ASSUME NEW row, row.stock \in Int \cup {None}
  PROVE  /\ Explained(row, FirstMovements(row.stock))
         /\ FirstMovements(row.stock) \in Seq(Movement)
  <1>1. CASE row.stock = None
    BY <1>1 DEF Explained, FirstMovements
  <1>2. CASE row.stock # None
    <2>1. PICK mv : mv = [delta |-> row.stock, result |-> row.stock]
      OBVIOUS
    <2>2. mv \in Movement /\ mv.result = row.stock /\ mv.delta = row.stock
      BY <2>1 DEF Movement
    <2>3. FirstMovements(row.stock) = <<mv>>
      BY <1>2, <2>1 DEF FirstMovements
    <2>4. row.stock \in Int
      BY <1>2
    <2>5. Explained(row, <<mv>>)
      BY <2>2, <2>4 DEF Explained
    <2> QED BY <2>2, <2>3, <2>5
  <1> QED  BY <1>1, <1>2

\* One more movement, from the stock of before to the stock of now, explains it.
LEMMA AppendExplained ==
  ASSUME NEW before, NEW row, NEW m \in Seq(Movement), NEW mv \in Movement,
         Explained(before, m), row.stock = mv.result,
         mv.result # None => mv.result = OrZero(before.stock) + mv.delta
  PROVE  Explained(row, Append(m, mv))
  <1>1. PICK n : n = Append(m, mv)
    OBVIOUS
  <1>2. n \in Seq(Movement) /\ Len(n) = Len(m) + 1 /\ n[Len(n)] = mv /\ Len(m) \in Nat
        /\ \A k \in 1..Len(m) : n[k] = m[k]
    BY <1>1
  <1>3. n # <<>>
    BY <1>2
  <1>4. row.stock = IF n = <<>> THEN None ELSE n[Len(n)].result
    BY <1>2, <1>3
  <1>5. ASSUME NEW k \in 1..Len(n), n[k].result # None
        PROVE  n[k].result = (IF k = 1 THEN 0 ELSE OrZero(n[k - 1].result)) + n[k].delta
    <2>1. CASE k \in 1..Len(m)
      <3>1. n[k] = m[k] /\ (k # 1 => n[k - 1] = m[k - 1])
        BY <1>2, <2>1
      <3> QED BY <1>5, <2>1, <3>1 DEF Explained
    <2>2. CASE k = Len(m) + 1
      <3>1. n[k] = mv
        BY <1>2, <2>2
      <3>2. CASE m = <<>>
        <4>1. before.stock = None /\ k = 1
          BY <2>2, <3>2 DEF Explained
        <4> QED BY <1>5, <3>1, <4>1 DEF OrZero
      <3>3. CASE m # <<>>
        <4>1. k # 1 /\ k - 1 = Len(m) /\ k - 1 \in 1..Len(m)
          BY <1>2, <2>2, <3>3
        <4>2. before.stock = m[Len(m)].result /\ n[k - 1] = m[Len(m)]
          BY <1>2, <3>3, <4>1 DEF Explained
        <4> QED BY <1>5, <3>1, <4>1, <4>2
      <3> QED BY <3>2, <3>3
    <2> QED BY <1>2, <2>1, <2>2
  <1> QED  BY <1>1, <1>4, <1>5 DEF Explained

\* What a commit leaves out of raced, its session had seen.
LEMMA OverwritesSeen ==
  ASSUME NEW t, NEW p, NEW c, NEW i, NEW m
  PROVE  /\ \A q \in Products :
               p[q] # prod[q] \/ m[q] # moves[q] =>
                  /\ <<q, "row">> \notin Overwrites(t, p, c, i, m) => t.prod[q] = prod[q]
                  /\ <<q, "stock">> \notin Overwrites(t, p, c, i, m) => t.prod[q].stock = prod[q].stock
         /\ \A k \in Categories :
               c[k] # cat[k] \/ Members(p, k) # Members(prod, k) =>
                  (<<k, "members">> \notin Overwrites(t, p, c, i, m) =>
                      t.cat[k] = cat[k] /\ Members(t.prod, k) = Members(prod, k))
  <1>1. ASSUME NEW q \in Products, p[q] # prod[q] \/ m[q] # moves[q], t.prod[q] # prod[q]
        PROVE  <<q, "row">> \in Overwrites(t, p, c, i, m)
    BY <1>1 DEF Overwrites
  <1>2. ASSUME NEW q \in Products, p[q] # prod[q] \/ m[q] # moves[q],
               t.prod[q].stock # prod[q].stock
        PROVE  <<q, "stock">> \in Overwrites(t, p, c, i, m)
    <2>1. t.prod[q] # prod[q]
      BY <1>2
    <2> QED BY <1>2, <2>1 DEF Overwrites
  <1>3. ASSUME NEW k \in Categories, c[k] # cat[k] \/ Members(p, k) # Members(prod, k),
               t.cat[k] # cat[k] \/ Members(t.prod, k) # Members(prod, k)
        PROVE  <<k, "members">> \in Overwrites(t, p, c, i, m)
    BY <1>3 DEF Overwrites
  <1> QED  BY <1>1, <1>2, <1>3

\* Nor does it change an image on two reads that do not agree.
LEMMA ImagesSeen ==
  ASSUME NEW t, NEW p, NEW c, NEW i, NEW m, NEW q \in Products, prod[q] # None,
         i[q] # img[q] \/ p[q].image # prod[q].image,
         <<q, "image">> \notin Overwrites(t, p, c, i, m)
  PROVE  t.image = {t.prod[q].image}
  <1>1. ASSUME t.image # {t.prod[q].image}
        PROVE  <<q, "image">> \in Overwrites(t, p, c, i, m)
    BY <1>1 DEF Overwrites
  <1> QED  BY <1>1

-----------------------------------------------------------------------------
(* A commit keeps the invariant                                            *)

\* The session closes and nothing is written: refused, or undone by an index.
LEMMA ClosedKeeps ==
  ASSUME CatalogueInv, NEW w \in Workers, Close(w), UNCHANGED <<tables, clock, sends, by, raced>>
  PROVE  CatalogueInv'
  <1>1. /\ prod' = prod /\ cat' = cat /\ img' = img /\ moves' = moves /\ clock' = clock
        /\ sends' = sends /\ by' = by /\ raced' = raced
    BY DEF tables
  <1>2. /\ tx \in [Workers -> Session \cup {None}]
        /\ tx' \in [Workers -> Session \cup {None}]
        /\ \A v \in Workers : tx'[v] # None => v # w /\ tx'[v] = tx[v] /\ tx[v] # None
    <2>1. tx \in [Workers -> Session \cup {None}]
      BY DEF CatalogueInv, TypeOK
    <2> QED BY <2>1 DEF Close
  <1>3. TypeOK'
    <2>1. TypeOK
      BY DEF CatalogueInv
    <2> QED BY <1>1, <1>2, <2>1 DEF TypeOK
  <1>5. MovesInv'
    BY <1>1 DEF CatalogueInv, MovesInv
  <1>6. SessionInv'
    BY <1>1, <1>2, SMTT(30) DEF CatalogueInv, SessionInv
  <1>7. StampInv'
    BY <1>1 DEF CatalogueInv, StampInv
  <1>8. StockFollowsMovements' /\ NoLinkToDeleted' /\ ImageMatchesVersion'
    BY <1>1 DEF CatalogueInv, StockFollowsMovements, NoLinkToDeleted, ImageMatchesVersion,
       VersionIsImage, Members
  <1> QED  BY <1>3, <1>5, <1>6, <1>7, <1>8 DEF CatalogueInv

\* What every row of a good commit is like, and what it keeps of the row before.
RowFacts(t, q, p, c, i, m) ==
    /\ p[q] \in ProductRow \cup {None}
    /\ prod[q] # None => p[q] # None
    /\ i[q] \in Shas \cup {None} /\ m[q] \in Seq(Movement)
    /\ <<q, "image">> \notin raced \cup Overwrites(t, p, c, i, m) =>
          i[q] = IF p[q] = None THEN None ELSE p[q].image
    /\ p[q] = None => m[q] = <<>> /\ i[q] = None
    /\ prod[q] = None /\ p[q] # None =>
          q \in Drawn(t.req) \/ \A r \in Requests : q \notin Drawn(r)
    /\ p[q] # prod[q] =>
          /\ p[q] # None
          /\ p[q].updated = t.at \/ (t.req.route = "put" /\ p[q].updated = t.req.ts)
    /\ p[q] # None => LinkGood(t, p[q], prod[q], c)

LEMMA GoodRow ==
  ASSUME TypeOK, MovesInv, ImageMatchesVersion, NEW w \in Workers, tx[w] # None,
         NEW p, NEW c, NEW i, NEW m, Good(tx[w], p, c, i, m), NEW q \in Products
  PROVE  RowFacts(tx[w], q, p, c, i, m)
  <1>1. PICK t : t = tx[w]
    OBVIOUS
  <1>2. /\ prod[q] \in ProductRow \cup {None} /\ img[q] \in Shas \cup {None}
        /\ moves[q] \in Seq(Movement)
    BY DEF TypeOK
  <1>3. prod[q] = None => moves[q] = <<>> /\ img[q] = None
    BY DEF MovesInv
  <1>4. <<q, "image">> \notin raced => img[q] = IF prod[q] = None THEN None ELSE prod[q].image
    BY DEF ImageMatchesVersion, VersionIsImage
  <1>5. CASE SameRow(q, p, i, m)
    BY <1>1, <1>2, <1>3, <1>4, <1>5 DEF SameRow, LinkGood, RowFacts
  <1>6. CASE NewRow(t, q, p, c, i, m)
    <2>1. p[q] \in ProductRow /\ m[q] = FirstMovements(p[q].stock)
      BY <1>6 DEF NewRow
    <2>2. p[q].stock \in Int \cup {None} /\ p[q] # None
      BY <2>1, RowFields
    <2>3. m[q] \in Seq(Movement)
      BY <2>1, <2>2, FirstExplained
    <2>4. /\ p[q] \in ProductRow /\ prod[q] = None /\ p[q].image = None /\ i[q] = None
          /\ LinkGood(t, p[q], prod[q], c)
          /\ p[q].updated = t.at \/ (t.req.route = "put" /\ p[q].updated = t.req.ts)
          /\ q \in Drawn(t.req) \/ \A r \in Requests : q \notin Drawn(r)
      BY <1>6 DEF NewRow
    <2> QED BY <1>1, <2>2, <2>3, <2>4 DEF RowFacts
  <1>7. CASE EditedRow(t, q, p, c, i, m)
    <2>1. m[q] \in Seq(Movement)
      <3>1. m[q] = moves[q] \/ \E mv \in Movement : m[q] = Append(moves[q], mv)
        BY <1>7 DEF EditedRow
      <3> QED BY <1>2, <3>1
    <2>2. /\ p[q] \in ProductRow /\ prod[q] # None /\ i[q] \in Shas \cup {None}
          /\ LinkGood(t, p[q], prod[q], c)
          /\ p[q] = prod[q] \/ p[q].updated = t.at
      BY <1>7 DEF EditedRow, ImageGood
    <2>3. p[q] # None
      BY <2>2, RowFields
    <2>4. ASSUME <<q, "image">> \notin raced \cup Overwrites(t, p, c, i, m)
          PROVE  i[q] = p[q].image
      <3>1. CASE i[q] = img[q] /\ p[q].image = prod[q].image
        BY <1>4, <2>2, <2>4, <3>1
      <3>2. CASE i[q] # img[q] \/ p[q].image # prod[q].image
        <4>1. t.image = {t.prod[q].image}
          BY <2>2, <2>4, <3>2, ImagesSeen
        <4> QED BY <1>7, <3>2, <4>1 DEF EditedRow, ImageGood
      <3> QED BY <3>1, <3>2
    <2> QED BY <1>1, <2>1, <2>2, <2>3, <2>4 DEF RowFacts
  <1> QED  BY <1>1, <1>5, <1>6, <1>7 DEF Good

\* The ledger of a row after a good commit.
LEMMA GoodStock ==
  ASSUME TypeOK, MovesInv, StockFollowsMovements, NEW w \in Workers, tx[w] # None,
         NEW p, NEW c, NEW i, NEW m, Good(tx[w], p, c, i, m),
         NEW q \in Products, p[q] # None, <<q, "stock">> \notin raced,
         <<q, "stock">> \notin Overwrites(tx[w], p, c, i, m)
  PROVE  Explained(p[q], m[q])
  <1>1. PICK t : t = tx[w]
    OBVIOUS
  <1>2. moves[q] \in Seq(Movement)
    BY DEF TypeOK
  <1>3. prod[q] # None => Explained(prod[q], moves[q])
    BY StockFollowsExplained
  <1>4. CASE SameRow(q, p, i, m)
    BY <1>3, <1>4 DEF SameRow
  <1>5. CASE NewRow(t, q, p, c, i, m)
    <2>1. p[q] \in ProductRow /\ m[q] = FirstMovements(p[q].stock)
      BY <1>5 DEF NewRow
    <2>2. p[q].stock \in Int \cup {None}
      BY <2>1, RowFields
    <2> QED BY <2>1, <2>2, FirstExplained
  <1>6. CASE EditedRow(t, q, p, c, i, m)
    <2>1. Explained(prod[q], moves[q])
      BY <1>3, <1>6 DEF EditedRow
    <2>2. CASE p[q].stock = prod[q].stock /\ m[q] = moves[q]
      BY <2>1, <2>2 DEF Explained
    <2>3. ASSUME NEW mv \in Movement, NEW old \in {t.prod[q].stock, prod[q].stock},
                 m[q] = Append(moves[q], mv), Explains(mv, old, prod[q], p[q])
          PROVE  Explained(p[q], m[q])
      <3>1. m[q] # moves[q]
        <4>1. Len(Append(moves[q], mv)) = Len(moves[q]) + 1 /\ Len(moves[q]) \in Nat
          BY <1>2
        <4> QED BY <2>3, <4>1
      <3>2. t.prod[q].stock = prod[q].stock
        BY <1>1, <3>1, OverwritesSeen
      <3>3. old = prod[q].stock
        BY <3>2
      <3>4. p[q].stock = mv.result
        BY <2>3, <3>3 DEF Explains
      <3>5. mv.result # None => mv.result = OrZero(prod[q].stock) + mv.delta
        BY <2>3, <3>3 DEF Explains
      <3>6. Explained(p[q], Append(moves[q], mv))
        BY <1>2, <2>1, <3>4, <3>5, AppendExplained
      <3> QED BY <2>3, <3>6
    <2> QED BY <1>6, <2>2, <2>3 DEF EditedRow
  <1> QED  BY <1>1, <1>4, <1>5, <1>6 DEF Good

\* The members of a category after a good commit.
LEMMA GoodLinks ==
  ASSUME TypeOK, MovesInv, ImageMatchesVersion, NoLinkToDeleted, NEW w \in Workers, tx[w] # None,
         NEW p, NEW c, NEW i, NEW m, Good(tx[w], p, c, i, m),
         NEW k \in Categories, c[k] # None, c[k].deleted, <<k, "members">> \notin raced,
         <<k, "members">> \notin Overwrites(tx[w], p, c, i, m)
  PROVE  Members(p, k) = {}
  <1>1. PICK t : t = tx[w]
    OBVIOUS
  <1>2. cat[k] # None /\ cat[k].deleted => Members(prod, k) = {}
    BY DEF NoLinkToDeleted
  <1>3. CASE c[k] = cat[k] /\ Members(p, k) = Members(prod, k)
    BY <1>2, <1>3
  <1>4. CASE c[k] # cat[k] \/ Members(p, k) # Members(prod, k)
    <2>1. t.cat[k] = cat[k] /\ Members(t.prod, k) = Members(prod, k)
      BY <1>1, <1>4, OverwritesSeen
    <2>2. CategoryGood(t, k, p, c)
      BY <1>1 DEF Good
    <2>3. ASSUME NEW q \in Members(p, k)
          PROVE  FALSE
      <3>1. q \in Products /\ p[q] # None /\ p[q].category = k
        BY <2>3 DEF Members
      <3>2. k # None
        BY NoneAssumption
      <3>3. LinkGood(t, p[q], prod[q], c)
        BY <1>1, <3>1, GoodRow, ZenonT(30) DEF RowFacts
      <3>4. CASE Live(t.cat[k]) /\ c[k] = cat[k]
        BY <2>1, <3>4 DEF Live
      <3>5. CASE prod[q] # None /\ prod[q].category = k
        <4>1. q \in Members(prod, k)
          BY <3>1, <3>5 DEF Members
        <4>2. ~(cat[k] # None /\ cat[k].deleted)
          BY <1>2, <4>1
        <4>3. p[q].category = None
          BY <2>1, <2>2, <4>1, <4>2 DEF CategoryGood
        <4> QED BY <3>1, <3>2, <4>3
      <3> QED BY <3>1, <3>2, <3>3, <3>4, <3>5 DEF LinkGood
    <2> QED BY <2>3
  <1> QED  BY <1>3, <1>4

\* The ids a request draws are ids of products.
LEMMA DrawnProducts == \A r \in Requests : \A q \in Drawn(r) : q \in Products
  <1>1. ASSUME NEW r \in Requests, NEW q \in Drawn(r)
        PROVE  q \in Products
    <2>1. r.route \in {"create", "bulk"} /\ \E item \in ToSet(r.items) \ {Malformed} : item.id = q
      BY <1>1 DEF Drawn
    <2>2. PICK item \in ToSet(r.items) \ {Malformed} : item.id = q
      BY <2>1
    <2>3. /\ r.items = [k \in 1..Len(r.items) |-> r.items[k]] /\ Len(r.items) \in Nat
          /\ \A k \in 1..Len(r.items) : r.items[k] = Malformed \/ IsLine(r.items[k])
      BY <2>1, RequestsAssumption
    <2>4. DOMAIN r.items = 1..Len(r.items)
      BY <2>3
    <2>5. PICK k \in 1..Len(r.items) : item = r.items[k]
      BY <2>2, <2>4 DEF ToSet
    <2>6. IsLine(item)
      BY <2>2, <2>3, <2>5
    <2> QED BY <2>2, <2>6 DEF IsLine
  <1> QED  BY <1>1

\* A good commit keeps the invariant, whether the indexes accept it or not.
LEMMA SavedKeeps ==
  ASSUME CatalogueInv, NEW w \in Workers, tx[w] # None,
         NEW p, NEW c, NEW i, NEW m, Good(tx[w], p, c, i, m), Save(w, p, c, i, m)
  PROVE  CatalogueInv'
  <1>1. Close(w) /\ clock' = clock /\ sends' = sends
    BY DEF Save
  <1>2. CASE ~(Clashing(p, "barcode") = {} /\ Clashing(c, "name") = {})
    <2>1. UNCHANGED <<tables, clock, sends, by, raced>>
      BY <1>2 DEF Save, tables
    <2> QED BY <1>1, <2>1, ClosedKeeps
  <1>3. CASE Clashing(p, "barcode") = {} /\ Clashing(c, "name") = {}
    <2>1. /\ TypeOK /\ MovesInv /\ SessionInv /\ StampInv
          /\ StockFollowsMovements /\ NoLinkToDeleted /\ ImageMatchesVersion
      BY DEF CatalogueInv
    <2>2. /\ prod' = p /\ cat' = c /\ img' = i /\ moves' = m
          /\ by' = [k \in Products |->
               IF p[k] # prod[k] THEN [req |-> tx[w].req, at |-> tx[w].at] ELSE by[k]]
          /\ raced' = raced \cup Overwrites(tx[w], p, c, i, m)
      BY <1>3 DEF Save
    <2>3. PICK t : t = tx[w]
      OBVIOUS
    <2>4. Good(t, p, c, i, m)
      BY <2>3
    <2>5. /\ t.req \in Requests /\ t.at \in Nat /\ t.prod \in [Products -> ProductRow \cup {None}]
      BY <2>1, <2>3, SessionFields
    <2>6. /\ p = [q \in Products |-> p[q]] /\ c = [k \in Categories |-> c[k]]
          /\ i = [q \in Products |-> i[q]] /\ m = [q \in Products |-> m[q]]
      BY <2>4 DEF Good
    <2>7. \A q \in Products : RowFacts(t, q, p, c, i, m)
      BY <2>1, <2>3, GoodRow
    <2>8. \A k \in Categories :
            c[k] \in CategoryRow \cup {None} /\ (cat[k] # None => c[k] # None)
      BY <2>4 DEF Good, CategoryGood
    <2>9. /\ tx \in [Workers -> Session \cup {None}]
          /\ tx' \in [Workers -> Session \cup {None}]
          /\ \A v \in Workers : tx'[v] # None => v # w /\ tx'[v] = tx[v] /\ tx[v] # None
      <3>1. tx \in [Workers -> Session \cup {None}]
        BY <2>1 DEF TypeOK
      <3> QED BY <1>1, <3>1 DEF Close
    <2>10. TypeOK'
      <3>1. prod' \in [Products -> ProductRow \cup {None}]
        BY <2>2, <2>6, <2>7 DEF RowFacts
      <3>2. cat' \in [Categories -> CategoryRow \cup {None}]
        BY <2>2, <2>6, <2>8
      <3>3. img' \in [Products -> Shas \cup {None}]
        BY <2>2, <2>6, <2>7 DEF RowFacts
      <3>4. moves' \in [Products -> Seq(Movement)]
        BY <2>2, <2>6, <2>7 DEF RowFacts
      <3>5. clock' \in Nat /\ sends' \in 0..MaxSends
        BY <1>1, <2>1 DEF TypeOK
      <3> QED BY <2>9, <3>1, <3>2, <3>3, <3>4, <3>5 DEF TypeOK
    <2>12. MovesInv'
      BY <2>2, <2>7 DEF MovesInv, RowFacts
    <2>13. ImageMatchesVersion'
      BY <2>2, <2>3, <2>7 DEF ImageMatchesVersion, VersionIsImage, RowFacts
    <2>14. SessionInv'
      <3>1. ASSUME NEW v \in Workers, tx'[v] # None
            PROVE  /\ \A q \in Products : tx'[v].prod[q] # None => prod'[q] # None
                   /\ \A k \in Categories : tx'[v].cat[k] # None => cat'[k] # None
                   /\ \A q \in Drawn(tx'[v].req) : prod'[q] = None
                   /\ \A u \in Workers \ {v} : tx'[u] # None =>
                         Drawn(tx'[u].req) \cap Drawn(tx'[v].req) = {}
        <4>1. v # w /\ tx'[v] = tx[v] /\ tx[v] # None
          BY <2>9, <3>1
        <4>2. /\ \A q \in Products : tx[v].prod[q] # None => prod[q] # None
              /\ \A k \in Categories : tx[v].cat[k] # None => cat[k] # None
              /\ \A q \in Drawn(tx[v].req) : prod[q] = None
              /\ \A u \in Workers \ {v} : tx[u] # None =>
                    Drawn(tx[u].req) \cap Drawn(tx[v].req) = {}
          BY <2>1, <4>1 DEF SessionInv
        <4>3. \A q \in Products : tx'[v].prod[q] # None => prod'[q] # None
          BY <2>2, <2>7, <4>1, <4>2 DEF RowFacts
        <4>4. \A k \in Categories : tx'[v].cat[k] # None => cat'[k] # None
          BY <2>2, <2>8, <4>1, <4>2
        <4>5. ASSUME NEW q \in Drawn(tx[v].req)
              PROVE  p[q] = None
          <5>1. tx[v].req \in Requests
            BY <2>1, <4>1, SessionFields
          <5>2. q \notin Drawn(t.req)
            BY <2>3, <4>1, <4>2
          <5>3. q \in Products
            BY <4>5, <5>1, DrawnProducts
          <5> QED BY <2>7, <4>2, <5>1, <5>2, <5>3 DEF RowFacts
        <4>6. \A q \in Drawn(tx'[v].req) : prod'[q] = None
          BY <2>2, <4>1, <4>5
        <4>7. \A u \in Workers \ {v} : tx'[u] # None =>
                Drawn(tx'[u].req) \cap Drawn(tx'[v].req) = {}
          BY <2>9, <4>1, <4>2
        <4> QED BY <4>1, <4>2, <4>3, <4>4, <4>6, <4>7
      <3> QED BY <3>1 DEF SessionInv
    <2>15. StampInv'
      <3>1. ASSUME NEW q \in Products, by'[q] # None
            PROVE  /\ by'[q].req \in Requests /\ prod'[q] # None
                   /\ \/ prod'[q].updated = by'[q].at
                      \/ by'[q].req.route = "put" /\ prod'[q].updated = by'[q].req.ts
                   /\ by'[q].req.route \in {"put", "patch"} =>
                        /\ by'[q].req.id = q
                        /\ <<q, "row">> \notin raced' => Applied(by'[q].req, prod'[q])
        <4>1. CASE p[q] = prod[q]
          <5>1. by'[q] = by[q] /\ prod'[q] = prod[q] /\ raced \subseteq raced'
            BY <2>2, <4>1
          <5> QED BY <2>1, <3>1, <5>1 DEF StampInv
        <4>2. CASE p[q] # prod[q]
          <5>1. by'[q].req = t.req /\ by'[q].at = t.at /\ prod'[q] = p[q]
            BY <2>2, <2>3, <4>2
          <5>2. /\ p[q] # None
                /\ p[q].updated = t.at \/ (t.req.route = "put" /\ p[q].updated = t.req.ts)
            BY <2>7, <4>2 DEF RowFacts
          <5>3. ASSUME t.req.route \in {"put", "patch"}
                PROVE  t.req.id = q /\ (<<q, "row">> \notin raced' => Applied(t.req, p[q]))
            <6>1. RequestGood(t, p, m)
              BY <2>4 DEF Good
            <6>2. t.req.id = q
              BY <4>2, <5>3, <6>1 DEF RequestGood
            <6>3. <<q, "row">> \notin raced' => t.prod[q] = prod[q]
              BY <2>2, <2>3, <4>2, OverwritesSeen
            <6> QED BY <4>2, <5>3, <6>1, <6>2, <6>3 DEF RequestGood
          <5> QED BY <2>5, <5>1, <5>2, <5>3
        <4> QED BY <4>1, <4>2
      <3> QED BY <3>1 DEF StampInv
    <2>16. StockFollowsMovements'
      <3>1. ASSUME NEW q \in Products, p[q] # None, <<q, "stock">> \notin raced'
            PROVE  Explained(p[q], m[q])
        BY <2>1, <2>2, <3>1, GoodStock
      <3>2. ASSUME NEW q \in Products, prod'[q] # None, <<q, "stock">> \notin raced'
            PROVE  /\ prod'[q].stock =
                        IF moves'[q] = <<>> THEN None ELSE moves'[q][Len(moves'[q])].result
                   /\ \A k \in 1..Len(moves'[q]) : moves'[q][k].result # None =>
                        moves'[q][k].result =
                          (IF k = 1 THEN 0 ELSE OrZero(moves'[q][k - 1].result))
                          + moves'[q][k].delta
        BY <2>2, <3>1, <3>2 DEF Explained
      <3> QED BY <3>2 DEF StockFollowsMovements
    <2>17. NoLinkToDeleted'
      <3>1. ASSUME NEW k \in Categories, c[k] # None, c[k].deleted, <<k, "members">> \notin raced'
            PROVE  Members(p, k) = {}
        BY <2>1, <2>2, <3>1, GoodLinks
      <3> QED BY <2>2, <3>1 DEF NoLinkToDeleted, Members
    <2> QED BY <2>10, <2>12, <2>13, <2>14, <2>15, <2>16, <2>17 DEF CatalogueInv
  <1> QED  BY <1>2, <1>3

-----------------------------------------------------------------------------
(* What each route writes                                                  *)

Outcome(w) ==
    Answer(w) \/ \E p, c, i, m : Save(w, p, c, i, m) /\ Good(tx[w], p, c, i, m)

\* A route that touches one product and no category.
LEMMA OneProduct ==
  ASSUME TypeOK, NEW t, NEW p, NEW i, NEW m, NEW id \in Products,
         p = [q \in Products |-> p[q]], i = [q \in Products |-> i[q]],
         m = [q \in Products |-> m[q]],
         \A q \in Products : q # id => SameRow(q, p, i, m),
         SameRow(id, p, i, m) \/ NewRow(t, id, p, cat, i, m) \/ EditedRow(t, id, p, cat, i, m),
         RequestGood(t, p, m)
  PROVE  Good(t, p, cat, i, m)
  <1>1. cat = [k \in Categories |-> cat[k]]
    BY DEF TypeOK
  <1>2. \A k \in Categories : CategoryGood(t, k, p, cat)
    BY DEF TypeOK, CategoryGood
  <1> QED  BY <1>1, <1>2 DEF Good

\* The tables are functions of the ids.
LEMMA Tables ==
  ASSUME TypeOK
  PROVE  /\ prod = [q \in Products |-> prod[q]] /\ cat = [k \in Categories |-> cat[k]]
         /\ img = [q \in Products |-> img[q]] /\ moves = [q \in Products |-> moves[q]]
  BY DEF TypeOK

\* Rows that agree on these columns are the same but for the category and the time.
LEMMA UnlinkedSame ==
  ASSUME NEW a \in ProductRow, NEW b \in ProductRow,
         \A f \in {"name", "barcode", "stock", "image", "deleted"} : a[f] = b[f]
  PROVE  Unlinked(a) = Unlinked(b)
  <1>1. a # None /\ b # None
    BY RowFields
  <1>2. \A row \in ProductRow : row # None =>
          Unlinked(row) = [name |-> row.name, barcode |-> row.barcode, stock |-> row.stock,
                           category |-> None, image |-> row.image, deleted |-> row.deleted,
                           updated |-> 0]
    <2>1. ASSUME NEW row \in ProductRow, row # None
          PROVE  Unlinked(row) = [name |-> row.name, barcode |-> row.barcode,
                           stock |-> row.stock, category |-> None, image |-> row.image,
                           deleted |-> row.deleted, updated |-> 0]
      <3>1. PICK x : x = [row EXCEPT !.updated = 0]
        OBVIOUS
      <3>2. x = [name |-> row.name, barcode |-> row.barcode, stock |-> row.stock,
                 category |-> row.category, image |-> row.image, deleted |-> row.deleted,
                 updated |-> 0]
        BY <2>1, <3>1 DEF ProductRow
      <3>3. Unlinked(row) = [x EXCEPT !.category = None]
        BY <2>1, <3>1 DEF Unlinked, Content
      <3> QED BY <3>2, <3>3
    <2> QED BY <2>1
  <1>3. a.name = b.name /\ a.barcode = b.barcode /\ a.stock = b.stock /\ a.image = b.image
        /\ a.deleted = b.deleted
    OBVIOUS
  <1> QED  BY <1>1, <1>2, <1>3

\* StockSet on a row.
LEMMA StockSetRow ==
  ASSUME NEW row \in ProductRow, NEW old, NEW new \in Int \cup {None}, NEW at \in Nat
  PROVE  /\ StockSet(row, old, new, at) \in ProductRow
         /\ new = old => StockSet(row, old, new, at) = row
         /\ new # old => /\ StockSet(row, old, new, at).stock = new
                         /\ StockSet(row, old, new, at).updated = at
         /\ \A f \in {"name", "barcode", "category", "image", "deleted"} :
               StockSet(row, old, new, at)[f] = row[f]
  <1>1. CASE new = old
    BY <1>1 DEF StockSet
  <1>2. CASE new # old
    <2>1. PICK x : x = StockSet(row, old, new, at)
      OBVIOUS
    <2>2. x = [name |-> row.name, barcode |-> row.barcode, stock |-> new,
               category |-> row.category, image |-> row.image, deleted |-> row.deleted,
               updated |-> at]
      <3>1. PICK y : y = [row EXCEPT !.stock = new]
        OBVIOUS
      <3>2. y = [name |-> row.name, barcode |-> row.barcode, stock |-> new,
                 category |-> row.category, image |-> row.image, deleted |-> row.deleted,
                 updated |-> row.updated]
        BY <3>1 DEF ProductRow
      <3>3. x = [y EXCEPT !.updated = at]
        BY <1>2, <2>1, <3>1 DEF StockSet
      <3> QED BY <3>2, <3>3
    <2>3. x \in ProductRow
      BY <2>2, RowFields DEF ProductRow
    <2> QED BY <1>2, <2>1, <2>2, <2>3
  <1> QED  BY <1>1, <1>2

\* m are the movements once a stock went from old to new: one more when it changed.
TellsChange(id, old, new, m) ==
    /\ new = old => m = moves
    /\ m = [q \in Products |-> m[q]]
    /\ \A q \in Products : q # id => m[q] = moves[q]
    /\ new # old => \E mv \in Movement :
          /\ m[id] = Append(moves[id], mv)
          /\ mv.result = new
          /\ mv.result # None => mv.delta \in Int /\ mv.result = OrZero(old) + mv.delta

\* The movement of a stock given as a value.
LEMMA CatalogUpdateRecorded ==
  ASSUME TypeOK, NEW id \in Products, NEW old \in Int \cup {None}, NEW new \in Int \cup {None}
  PROVE  TellsChange(id, old, new, CatalogUpdate(id, old, new))
  <1>1. CASE new = old
    BY <1>1, Tables DEF CatalogUpdate, TellsChange
  <1>2. CASE new # old
    <2>1. PICK mv : mv = [delta |-> IF new = None THEN None ELSE new - OrZero(old),
                          result |-> new]
      OBVIOUS
    <2>2. OrZero(old) \in Int
      BY DEF OrZero
    <2>3. /\ mv \in Movement /\ mv.result = new
          /\ mv.result # None => mv.delta \in Int /\ mv.result = OrZero(old) + mv.delta
      <3>1. CASE new = None
        BY <2>1, <3>1 DEF Movement
      <3>2. CASE new # None
        <4>1. new \in Int /\ mv.delta = new - OrZero(old) /\ mv.result = new
          BY <2>1, <3>2
        <4>2. mv.delta \in Int /\ new = OrZero(old) + mv.delta
          BY <2>2, <4>1
        <4> QED BY <2>1, <4>1, <4>2 DEF Movement
      <3> QED BY <3>1, <3>2
    <2>4. CatalogUpdate(id, old, new) = [moves EXCEPT ![id] = Append(@, mv)]
      BY <1>2, <2>1 DEF CatalogUpdate, Recorded
    <2> QED BY <1>2, <2>3, <2>4 DEF TypeOK, TellsChange
  <1> QED  BY <1>1, <1>2

\* The fields of a payload that SaveProduct is given, with the category resolved.
Payload(t, fields) ==
    /\ DOMAIN fields \subseteq {"name", "barcode", "stock", "category", "deleted"}
    /\ \A f \in DOMAIN fields : fields[f] \in ProductColumn[f]
    /\ "category" \in DOMAIN fields =>
          fields["category"] = None \/ Live(t.cat[fields["category"]])

\* They are what the request asks for.
Asked(r, fields) ==
    r.route \in {"put", "patch"} =>
        \A row \in ProductRow :
            Applied(r, row) <=> \A f \in DOMAIN fields \ {"category"} : row[f] = fields[f]

\* update() of a product: the row after the flush.
LEMMA UpdatedRow ==
  ASSUME CatalogueInv, NEW w \in Workers, tx[w] # None, NEW id \in Products,
         tx[w].prod[id] # None, NEW fields, Payload(tx[w], fields), NEW row,
         row = Flushed(prod[id], tx[w].prod[id],
                       Assigned(tx[w].prod[id], WithoutStock(fields)), tx[w].at)
  PROVE  /\ prod[id] \in ProductRow /\ tx[w].prod[id] \in ProductRow /\ row \in ProductRow
         /\ row.stock = prod[id].stock /\ row.image = prod[id].image
         /\ row = prod[id] \/ row.updated = tx[w].at
         /\ LinkGood(tx[w], row, prod[id], cat)
         /\ Dirty(tx[w].prod[id], Assigned(tx[w].prod[id], WithoutStock(fields))) = {} =>
               row = prod[id]
         /\ \A f \in {"name", "barcode", "stock", "image", "deleted"} :
               \/ row[f] = prod[id][f]
               \/ f \in DOMAIN fields \ {"stock"} /\ row[f] = fields[f]
         /\ tx[w].prod[id] = prod[id] =>
               \A f \in DOMAIN fields \ {"stock"} : row[f] = fields[f]
  <1>1. PICK t : t = tx[w]
    OBVIOUS
  <1>2. PICK seen : seen = t.prod[id]
    OBVIOUS
  <1>3. PICK want : want = Assigned(seen, WithoutStock(fields))
    OBVIOUS
  <1>4. prod[id] \in ProductRow /\ seen \in ProductRow /\ t.at \in Nat
    <2>1. prod[id] # None
      BY DEF CatalogueInv, SessionInv
    <2>2. prod[id] \in ProductRow \cup {None}
      BY DEF CatalogueInv, TypeOK
    <2> QED BY <1>1, <1>2, <2>1, <2>2, SessionFields DEF CatalogueInv
  <1>5. IsRow(prod[id], ProductColumn) /\ IsRow(seen, ProductColumn)
    BY <1>4, ProductIsRow
  <1>6. DOMAIN WithoutStock(fields) = DOMAIN fields \ {"stock"}
        /\ \A f \in DOMAIN fields \ {"stock"} : WithoutStock(fields)[f] = fields[f]
    BY DEF WithoutStock
  <1>7. /\ IsRow(want, ProductColumn)
        /\ \A f \in DOMAIN ProductColumn :
             want[f] = IF f \in DOMAIN fields \ {"stock"} THEN fields[f] ELSE seen[f]
    <2>1. \A f \in DOMAIN WithoutStock(fields) :
            f \in DOMAIN ProductColumn => WithoutStock(fields)[f] \in ProductColumn[f]
      BY <1>6 DEF Payload
    <2> QED BY <1>3, <1>5, <1>6, <2>1, AssignedRow
  <1>8. /\ IsRow(row, ProductColumn)
        /\ \A f \in DOMAIN ProductColumn \ {"updated"} :
             row[f] = IF want[f] # seen[f] THEN want[f] ELSE prod[id][f]
        /\ row = prod[id] \/ row["updated"] = t.at
        /\ Dirty(seen, want) = {} => row = prod[id]
    <2>1. row = Flushed(prod[id], seen, want, t.at)
      BY <1>1, <1>2, <1>3
    <2>2. "updated" \in DOMAIN ProductColumn /\ t.at \in ProductColumn["updated"]
      BY <1>4, ColumnNames
    <2> QED BY <1>5, <1>7, <2>1, <2>2, FlushedRow
  <1>9. row \in ProductRow
    BY <1>8, ProductIsRow
  <1>10. \A f \in {"name", "barcode", "stock", "image", "deleted", "category"} :
           \/ row[f] = prod[id][f]
           \/ f \in DOMAIN fields \ {"stock"} /\ row[f] = fields[f]
    <2>1. ASSUME NEW f \in {"name", "barcode", "stock", "image", "deleted", "category"}
          PROVE  \/ row[f] = prod[id][f]
                 \/ f \in DOMAIN fields \ {"stock"} /\ row[f] = fields[f]
      <3>1. f \in DOMAIN ProductColumn \ {"updated"}
        BY ColumnNames
      <3>2. /\ row[f] = IF want[f] # seen[f] THEN want[f] ELSE prod[id][f]
            /\ want[f] = IF f \in DOMAIN fields \ {"stock"} THEN fields[f] ELSE seen[f]
        BY <1>7, <1>8, <3>1
      <3> QED BY <3>2
    <2> QED BY <2>1
  <1>11. "stock" \notin DOMAIN fields \ {"stock"} /\ "image" \notin DOMAIN fields \ {"stock"}
    BY DEF Payload
  <1>12. row.stock = prod[id].stock /\ row.image = prod[id].image
    BY <1>10, <1>11
  <1>14. LinkGood(t, row, prod[id], cat)
    <2>1. CASE row["category"] = prod[id]["category"]
      BY <1>4, <2>1, RowFields DEF LinkGood
    <2>2. CASE "category" \in DOMAIN fields /\ row["category"] = fields["category"]
      BY <1>1, <2>2 DEF LinkGood, Payload
    <2> QED BY <1>10, <2>1, <2>2
  <1>15. ASSUME seen = prod[id], NEW f \in DOMAIN fields \ {"stock"}
         PROVE  row[f] = fields[f]
    <2>1. f \in DOMAIN ProductColumn \ {"updated"}
      BY ColumnNames DEF Payload
    <2>2. /\ row[f] = IF want[f] # seen[f] THEN want[f] ELSE prod[id][f]
          /\ want[f] = fields[f]
      BY <1>7, <1>8, <2>1
    <2> QED BY <1>15, <2>2
  <1>16. row = prod[id] \/ row.updated = t.at
    BY <1>8
  <1>17. Dirty(seen, Assigned(seen, WithoutStock(fields))) = {} => row = prod[id]
    BY <1>3, <1>8
  <1> QED  BY <1>1, <1>2, <1>4, <1>9, <1>10, <1>12, <1>14, <1>15, <1>16, <1>17

\* update() and then the movement of the stock that is given: a good commit.
LEMMA SaveProductGood ==
  ASSUME CatalogueInv, NEW w \in Workers, tx[w] # None, NEW id \in Products,
         tx[w].prod[id] # None, NEW fields, Payload(tx[w], fields), Asked(tx[w].req, fields),
         tx[w].req.route \in {"put", "patch"} => tx[w].req.id = id,
         tx[w].req.route = "put" /\ tx[w].prod[id] = prod[id] =>
             tx[w].req.ts > prod[id].updated,
         SaveProduct(w, id, fields)
  PROVE  Outcome(w)
  <1>1. PICK t : t = tx[w]
    OBVIOUS
  <1>2. PICK seen : seen = t.prod[id]
    OBVIOUS
  <1>3. PICK want : want = Assigned(seen, WithoutStock(fields))
    OBVIOUS
  <1>4. PICK row : row = Flushed(prod[id], seen, want, t.at)
    OBVIOUS
  <1>6. /\ prod[id] \in ProductRow /\ seen \in ProductRow /\ row \in ProductRow
        /\ img[id] \in Shas \cup {None}
        /\ row.stock = prod[id].stock /\ row.image = prod[id].image
        /\ row = prod[id] \/ row.updated = t.at
        /\ LinkGood(t, row, prod[id], cat)
        /\ Dirty(seen, want) = {} => row = prod[id]
        /\ \A f \in {"name", "barcode", "stock", "image", "deleted"} :
              \/ row[f] = prod[id][f]
              \/ f \in DOMAIN fields \ {"stock"} /\ row[f] = fields[f]
        /\ seen = prod[id] =>
              \A f \in DOMAIN fields \ {"stock"} : row[f] = fields[f]
    <2>1. row = Flushed(prod[id], tx[w].prod[id],
                        Assigned(tx[w].prod[id], WithoutStock(fields)), tx[w].at)
      BY <1>1, <1>2, <1>3, <1>4
    <2>2. img[id] \in Shas \cup {None}
      BY DEF CatalogueInv, TypeOK
    <2> QED BY <1>1, <1>2, <1>3, <2>1, <2>2, UpdatedRow
  <1>7. /\ TypeOK /\ t.at \in Nat /\ prod[id] # None /\ seen # None /\ seen = tx[w].prod[id]
        /\ t.req.route \in {"put", "patch"} => t.req.id = id
        /\ t.req.route = "put" /\ seen = prod[id] => t.req.ts > prod[id].updated
        /\ Payload(t, fields) /\ Asked(t.req, fields)
    BY <1>1, <1>2, <1>6, SessionFields, RowFields DEF CatalogueInv
  <1>8. IF "stock" \notin DOMAIN fields
        THEN Save(w, [prod EXCEPT ![id] = row], cat, img, moves)
        ELSE \E held \in {row, seen} :
               IF held.deleted THEN Answer(w)
               ELSE Save(w, [prod EXCEPT ![id] = StockSet(row, held.stock, fields.stock, t.at)],
                         cat, img, CatalogUpdate(id, held.stock, fields.stock))
    BY <1>1, <1>2, <1>3, <1>4 DEF SaveProduct
  <1>9. CASE "stock" \notin DOMAIN fields
    <2>1. PICK p : p = [prod EXCEPT ![id] = row]
      OBVIOUS
    <2>2. /\ p = [q \in Products |-> p[q]] /\ p[id] = row
          /\ \A q \in Products : q # id => p[q] = prod[q]
      BY <1>7, <2>1 DEF TypeOK
    <2>3. EditedRow(t, id, p, cat, img, moves)
      BY <1>2, <1>6, <1>7, <2>2 DEF EditedRow, ImageGood
    <2>4. RequestGood(t, p, moves)
      <3>1. ASSUME t.req.route \in {"put", "patch"}, seen = prod[id]
            PROVE  Applied(t.req, row)
        <4>1. \A f \in DOMAIN fields \ {"category"} : row[f] = fields[f]
          BY <1>6, <1>9, <3>1
        <4> QED BY <1>6, <1>7, <3>1, <4>1 DEF Asked
      <3>2. ASSUME t.req.route \in {"put", "patch"}, Applied(t.req, prod[id])
            PROVE  Unlinked(row) = Unlinked(prod[id])
        <4>1. \A f \in DOMAIN fields \ {"category"} : prod[id][f] = fields[f]
          BY <1>6, <1>7, <3>2 DEF Asked
        <4>2. \A f \in {"name", "barcode", "stock", "image", "deleted"} : row[f] = prod[id][f]
          BY <1>6, <4>1
        <4> QED BY <1>6, <4>2, UnlinkedSame
      <3> QED BY <1>2, <1>7, <2>2, <3>1, <3>2 DEF RequestGood
    <2>5. Good(t, p, cat, img, moves)
      <3>1. \A q \in Products : q # id => SameRow(q, p, img, moves)
        BY <2>2 DEF SameRow
      <3>2. img = [q \in Products |-> img[q]] /\ moves = [q \in Products |-> moves[q]]
        BY <1>7, Tables
      <3> QED BY <1>7, <2>2, <2>3, <2>4, <3>1, <3>2, OneProduct
    <2>6. Save(w, p, cat, img, moves)
      BY <1>8, <1>9, <2>1
    <2> QED BY <1>1, <2>5, <2>6 DEF Outcome
  <1>10. ASSUME "stock" \in DOMAIN fields, NEW held \in {row, seen},
                Save(w, [prod EXCEPT ![id] = StockSet(row, held.stock, fields.stock, t.at)],
                     cat, img, CatalogUpdate(id, held.stock, fields.stock))
         PROVE  Outcome(w)
    <2>1. PICK new : new = fields["stock"]
      OBVIOUS
    <2>2. PICK old : old = held.stock
      OBVIOUS
    <2>3. /\ new \in Int \cup {None} /\ old \in {seen.stock, prod[id].stock}
          /\ old \in Int \cup {None}
      <3>1. new \in Int \cup {None}
        BY <1>7, <1>10, <2>1 DEF Payload, ProductColumn
      <3>2. old \in {seen.stock, prod[id].stock}
        BY <1>6, <1>10, <2>2
      <3> QED BY <1>6, <3>1, <3>2, RowFields
    <2>4. PICK p : p = [prod EXCEPT ![id] = StockSet(row, old, new, t.at)]
      OBVIOUS
    <2>5. PICK m : m = CatalogUpdate(id, old, new)
      OBVIOUS
    <2>6. /\ p = [q \in Products |-> p[q]] /\ p[id] = StockSet(row, old, new, t.at)
          /\ \A q \in Products : q # id => p[q] = prod[q]
      BY <1>7, <2>4 DEF TypeOK
    <2>7. /\ new = old => m = moves
          /\ m = [q \in Products |-> m[q]]
          /\ \A q \in Products : q # id => m[q] = moves[q]
          /\ new # old => \E mv \in Movement :
                /\ m[id] = Append(moves[id], mv) /\ mv.result = new
                /\ mv.result # None => mv.delta \in Int /\ mv.result = OrZero(old) + mv.delta
      <3>0. TypeOK /\ id \in Products /\ old \in Int \cup {None} /\ new \in Int \cup {None}
        BY <1>7, <2>3
      <3>1. TellsChange(id, old, new, CatalogUpdate(id, old, new))
        BY <3>0, CatalogUpdateRecorded
      <3>2. TellsChange(id, old, new, m)
        BY <2>5, <3>1
      <3> QED BY <3>2 DEF TellsChange
    <2>8. /\ p[id] \in ProductRow
          /\ new = old => p[id] = row
          /\ new # old => p[id].stock = new /\ p[id].updated = t.at
          /\ \A f \in {"name", "barcode", "category", "image", "deleted"} : p[id][f] = row[f]
      BY <1>6, <1>7, <2>3, <2>6, StockSetRow
    <2>9. EditedRow(t, id, p, cat, img, m)
      <3>1. p[id] = prod[id] \/ p[id].updated = t.at
        BY <1>6, <2>8
      <3>2. p[id].category = row.category /\ p[id].image = row.image
        BY <2>8
      <3>3. LinkGood(t, p[id], prod[id], cat)
        BY <1>6, <3>2 DEF LinkGood
      <3>4. \/ p[id].stock = prod[id].stock /\ m[id] = moves[id]
            \/ \E mv \in Movement, o \in {t.prod[id].stock, prod[id].stock} :
                  m[id] = Append(moves[id], mv) /\ Explains(mv, o, prod[id], p[id])
        <4>1. CASE new = old
          BY <1>6, <2>7, <2>8, <4>1
        <4>2. CASE new # old
          <5>1. PICK mv \in Movement :
                  /\ m[id] = Append(moves[id], mv) /\ mv.result = new
                  /\ mv.result # None => mv.delta \in Int /\ mv.result = OrZero(old) + mv.delta
            BY <2>7, <4>2
          <5>2. Explains(mv, old, prod[id], p[id])
            BY <2>8, <4>2, <5>1 DEF Explains
          <5>3. old \in {t.prod[id].stock, prod[id].stock}
            BY <1>2, <2>3
          <5> QED BY <5>1, <5>2, <5>3
        <4> QED BY <4>1, <4>2
      <3>5. ImageGood(t, id, p, img)
        BY <1>6, <3>2 DEF ImageGood
      <3> QED BY <1>2, <1>7, <2>8, <3>1, <3>3, <3>4, <3>5 DEF EditedRow
    <2>10. RequestGood(t, p, m)
      <3>1. ASSUME t.req.route \in {"put", "patch"}, seen = prod[id]
            PROVE  Applied(t.req, p[id])
        <4>1. old = prod[id].stock
          BY <2>3, <3>1
        <4>2. p[id]["stock"] = fields["stock"]
          BY <1>6, <2>1, <2>8, <4>1
        <4>3. \A f \in DOMAIN fields \ {"stock"} : row[f] = fields[f]
          BY <1>6, <3>1
        <4>4. \A f \in DOMAIN fields \ {"category"} : p[id][f] = fields[f]
          BY <1>7, <2>8, <4>2, <4>3 DEF Payload
        <4> QED BY <1>7, <2>8, <3>1, <4>4 DEF Asked
      <3>2. ASSUME t.req.route \in {"put", "patch"}, seen = prod[id], Applied(t.req, prod[id])
            PROVE  Unlinked(p[id]) = Unlinked(prod[id]) /\ m[id] = moves[id]
        <4>1. \A f \in DOMAIN fields \ {"category"} : prod[id][f] = fields[f]
          BY <1>6, <1>7, <3>2 DEF Asked
        <4>2. prod[id]["stock"] = new
          BY <1>10, <2>1, <4>1
        <4>3. old = new
          BY <2>3, <3>2, <4>2
        <4>4. \A f \in {"name", "barcode", "stock", "image", "deleted"} : row[f] = prod[id][f]
          BY <1>6, <4>1
        <4>5. p[id] = row /\ m = moves
          BY <2>7, <2>8, <4>3
        <4> QED BY <1>6, <4>4, <4>5, UnlinkedSame
      <3> QED BY <1>2, <1>7, <2>6, <3>1, <3>2 DEF RequestGood
    <2>11. Good(t, p, cat, img, m)
      <3>1. \A q \in Products : q # id => SameRow(q, p, img, m)
        BY <2>6, <2>7 DEF SameRow
      <3>2. img = [q \in Products |-> img[q]]
        BY <1>7, Tables
      <3> QED BY <1>7, <2>6, <2>7, <2>9, <2>10, <3>1, <3>2, OneProduct
    <2>12. Save(w, p, cat, img, m)
      BY <1>10, <2>1, <2>2, <2>4, <2>5
    <2> QED BY <1>1, <2>11, <2>12 DEF Outcome
  <1>11. CASE Answer(w)
    BY <1>11 DEF Outcome
  <1> QED  BY <1>8, <1>9, <1>10, <1>11

\* A payload with its category resolved: a member of the store's, or none.
LEMMA ResolvedPayload ==
  ASSUME TypeOK, NEW w \in Workers, tx[w] # None, NEW x, IsFields(x),
         NEW fields, fields = ResolveForProduct(tx[w].cat, x)
  PROVE  /\ Payload(tx[w], fields) /\ DOMAIN fields = DOMAIN x
         /\ fields = [f \in DOMAIN fields |-> fields[f]]
         /\ \A f \in DOMAIN x \ {"category"} : fields[f] = x[f]
         /\ "deleted" \notin DOMAIN x
  <1>1. /\ DOMAIN x \subseteq {"name", "barcode", "stock", "category"}
        /\ x = [f \in DOMAIN x |-> x[f]]
        /\ \A f \in DOMAIN x : x[f] \in ProductColumn[f]
    BY DEF IsFields, Column, ProductColumn
  <1>2. CASE "category" \notin DOMAIN x
    <2>1. fields = x
      BY <1>2 DEF ResolveForProduct
    <2> QED BY <1>1, <1>2, <2>1 DEF Payload
  <1>3. CASE "category" \in DOMAIN x
    <2>1. PICK c : c = IF x["category"] # None /\ Live(tx[w].cat[x["category"]])
                       THEN x["category"] ELSE None
      OBVIOUS
    <2>2. fields = [x EXCEPT !["category"] = c]
      BY <1>3, <2>1 DEF ResolveForProduct
    <2>3. fields = [f \in DOMAIN x |-> IF f = "category" THEN c ELSE x[f]]
      BY <1>1, <2>2
    <2>4. c \in ProductColumn["category"] /\ (c = None \/ Live(tx[w].cat[c]))
      <3>1. x["category"] \in ProductColumn["category"] /\ None \in ProductColumn["category"]
        BY <1>1, <1>3 DEF ProductColumn
      <3> QED BY <2>1, <3>1
    <2>5. \A f \in DOMAIN x : fields[f] = IF f = "category" THEN c ELSE x[f]
      BY <2>3
    <2>6. DOMAIN fields = DOMAIN x
      BY <2>3
    <2>7. Payload(tx[w], fields)
      BY <1>1, <1>3, <2>4, <2>5, <2>6 DEF Payload
    <2> QED BY <1>1, <2>3, <2>5, <2>6, <2>7
  <1> QED  BY <1>2, <1>3

\* The payload that marks a row deleted.
LEMMA DeletedPayload ==
  ASSUME NEW t, NEW fields, fields = [deleted |-> TRUE]
  PROVE  /\ Payload(t, fields) /\ DOMAIN fields = {"deleted"} /\ fields["deleted"] = TRUE
  <1>1. DOMAIN fields = {"deleted"} /\ fields["deleted"] = TRUE
    OBVIOUS
  <1>2. TRUE \in ProductColumn["deleted"]
    BY DEF ProductColumn
  <1> QED  BY <1>1, <1>2 DEF Payload

\* PATCH /products/{id}.
LEMMA UpdateProductGood ==
  ASSUME CatalogueInv, NEW w \in Workers, UpdateProduct(w)
  PROVE  Outcome(w)
  <1>1. PICK t : t = tx[w]
    OBVIOUS
  <1>2. PICK id : id = t.req.id
    OBVIOUS
  <1>3. tx[w] # None /\ t.req.route = "patch" /\ TypeOK
    BY <1>1 DEF UpdateProduct, Serves, CatalogueInv
  <1>4. t.req \in Requests
    BY <1>1, <1>3, SessionFields
  <1>5. id \in Products /\ IsFields(t.req.fields)
    BY <1>2, <1>3, <1>4, RequestsAssumption
  <1>6. PICK fields : fields = ResolveForProduct(t.cat, t.req.fields)
    OBVIOUS
  <1>7. \/ Answer(w)
        \/ Live(t.prod[id]) /\ SaveProduct(w, id, fields)
    BY <1>1, <1>2, <1>6 DEF UpdateProduct
  <1>8. CASE Answer(w)
    BY <1>8 DEF Outcome
  <1>9. CASE Live(t.prod[id]) /\ SaveProduct(w, id, fields)
    <2>1. /\ Payload(t, fields) /\ DOMAIN fields = DOMAIN t.req.fields
          /\ \A f \in DOMAIN t.req.fields \ {"category"} : fields[f] = t.req.fields[f]
      BY <1>1, <1>3, <1>5, <1>6, ResolvedPayload
    <2>2. Asked(t.req, fields)
      BY <1>3, <2>1 DEF Asked, Applied
    <2>3. tx[w].prod[id] # None
      BY <1>1, <1>9 DEF Live
    <2>4. tx[w].req.route \in {"put", "patch"} => tx[w].req.id = id
      BY <1>1, <1>2
    <2>5. tx[w].req.route # "put"
      BY <1>1, <1>3
    <2>6. Payload(tx[w], fields) /\ Asked(tx[w].req, fields)
      BY <1>1, <2>1, <2>2
    <2> QED BY <1>3, <1>5, <1>9, <2>3, <2>4, <2>5, <2>6, SaveProductGood
  <1> QED  BY <1>7, <1>8, <1>9

\* DELETE /products/{id}.
LEMMA DeleteProductGood ==
  ASSUME CatalogueInv, NEW w \in Workers, DeleteProduct(w)
  PROVE  Outcome(w)
  <1>1. PICK t : t = tx[w]
    OBVIOUS
  <1>2. PICK id : id = t.req.id
    OBVIOUS
  <1>3. tx[w] # None /\ t.req.route = "delete" /\ TypeOK
    BY <1>1 DEF DeleteProduct, Serves, CatalogueInv
  <1>4. t.req \in Requests
    BY <1>1, <1>3, SessionFields
  <1>5. id \in Products
    BY <1>2, <1>3, <1>4, RequestsAssumption
  <1>6. PICK fields : fields = [deleted |-> TRUE]
    OBVIOUS
  <1>7. Answer(w) \/ (Live(t.prod[id]) /\ SaveProduct(w, id, fields))
    BY <1>1, <1>2, <1>6 DEF DeleteProduct
  <1>8. CASE Answer(w)
    BY <1>8 DEF Outcome
  <1>9. CASE Live(t.prod[id]) /\ SaveProduct(w, id, fields)
    <2>1. Payload(tx[w], fields)
      BY <1>6, DeletedPayload
    <2>2. tx[w].req.route \notin {"put", "patch"}
      BY <1>1, <1>3
    <2>3. Asked(tx[w].req, fields)
      BY <2>2 DEF Asked
    <2>4. tx[w].prod[id] # None
      BY <1>1, <1>9 DEF Live
    <2> QED BY <1>3, <1>5, <1>9, <2>1, <2>2, <2>3, <2>4, SaveProductGood
  <1> QED  BY <1>7, <1>8, <1>9

\* The row of a new product.
IsNew(row, fields, updated, at) ==
    /\ row \in ProductRow /\ row.deleted = FALSE /\ row.image = None
    /\ row.name = fields["name"] /\ row.barcode = fields["barcode"]
    /\ row.stock = fields["stock"] /\ row.updated \in {updated, at}
    /\ row.category = IF "category" \in DOMAIN fields THEN fields["category"] ELSE None

LEMMA InsertedRow ==
  ASSUME NEW t, NEW fields, Payload(t, fields), "deleted" \notin DOMAIN fields,
         {"name", "barcode", "stock"} \subseteq DOMAIN fields,
         NEW updated \in Nat, NEW at \in Nat
  PROVE  IsNew(Inserted(fields, updated, at), fields, updated, at)
  <1>0. PICK row : row = Inserted(fields, updated, at)
    OBVIOUS
  <1>1. PICK x : x = [name |-> None, barcode |-> None, stock |-> None, category |-> None,
                      image |-> None, deleted |-> FALSE, updated |-> updated]
    OBVIOUS
  <1>2. PICK y : y = Assigned(x, WithoutStock(fields))
    OBVIOUS
  <1>3. /\ y = [f \in DOMAIN x |-> y[f]]
        /\ \A f \in DOMAIN x : y[f] = IF f \in DOMAIN fields \ {"stock"} THEN fields[f] ELSE x[f]
    BY <1>2 DEF Assigned, WithoutStock
  <1>4. DOMAIN x = DOMAIN ProductColumn
    BY <1>1 DEF ProductColumn
  <1>5. /\ y.name = fields["name"] /\ y.barcode = fields["barcode"] /\ y.stock = None
        /\ y.category = IF "category" \in DOMAIN fields THEN fields["category"] ELSE None
        /\ y.image = None /\ y.deleted = FALSE /\ y.updated = updated
    BY <1>1, <1>3 DEF Payload
  <1>6. IsRow(y, ProductColumn)
    <2>1. /\ fields["name"] \in Names /\ fields["barcode"] \in Barcodes \cup {None}
          /\ "category" \in DOMAIN fields => fields["category"] \in Categories \cup {None}
      BY DEF Payload, ProductColumn
    <2>2. \A f \in DOMAIN ProductColumn : y[f] \in ProductColumn[f]
      <3>1. y["name"] \in ProductColumn["name"] /\ y["barcode"] \in ProductColumn["barcode"]
        BY <1>5, <2>1 DEF ProductColumn
      <3>2. y["stock"] \in ProductColumn["stock"] /\ y["image"] \in ProductColumn["image"]
        BY <1>5 DEF ProductColumn
      <3>3. y["deleted"] \in ProductColumn["deleted"] /\ y["updated"] \in ProductColumn["updated"]
        BY <1>5 DEF ProductColumn
      <3>4. y["category"] \in ProductColumn["category"]
        BY <1>5, <2>1 DEF ProductColumn
      <3> QED BY <3>1, <3>2, <3>3, <3>4, ColumnNames
    <2> QED BY <1>3, <1>4, <2>2 DEF IsRow
  <1>7. y \in ProductRow
    BY <1>6, ProductIsRow
  <1>8. row = StockSet(y, None, fields["stock"], at)
    BY <1>0, <1>1, <1>2 DEF Inserted, NewProduct
  <1>9. fields["stock"] \in Int \cup {None}
    BY DEF Payload, ProductColumn
  <1>10. /\ row \in ProductRow
         /\ fields["stock"] = None => row = y
         /\ fields["stock"] # None => row.stock = fields["stock"] /\ row.updated = at
         /\ \A f \in {"name", "barcode", "category", "image", "deleted"} : row[f] = y[f]
    <2>1. PICK stock : stock = fields["stock"]
      OBVIOUS
    <2>2. row = StockSet(y, None, stock, at) /\ stock \in Int \cup {None}
      BY <1>8, <1>9, <2>1
    <2>3. /\ StockSet(y, None, stock, at) \in ProductRow
          /\ stock = None => StockSet(y, None, stock, at) = y
          /\ stock # None => /\ StockSet(y, None, stock, at).stock = stock
                             /\ StockSet(y, None, stock, at).updated = at
          /\ \A f \in {"name", "barcode", "category", "image", "deleted"} :
                StockSet(y, None, stock, at)[f] = y[f]
      BY <1>7, <2>2, StockSetRow
    <2> QED BY <2>1, <2>2, <2>3
  <1> QED  BY <1>0, <1>5, <1>10 DEF IsNew

\* The movements of a new product.
LEMMA FirstUpdate ==
  ASSUME TypeOK, NEW id \in Products, moves[id] = <<>>, NEW stock \in Int \cup {None}
  PROVE  CatalogUpdate(id, None, stock)[id] = FirstMovements(stock)
  <1>1. CASE stock = None
    BY <1>1 DEF CatalogUpdate, FirstMovements
  <1>2. CASE stock # None
    <2>1. stock \in Int /\ stock - 0 = stock
      BY <1>2
    <2>2. CatalogUpdate(id, None, stock) =
            [moves EXCEPT ![id] = Append(@, [delta |-> stock, result |-> stock])]
      BY <1>2, <2>1 DEF CatalogUpdate, Recorded, OrZero
    <2>3. CatalogUpdate(id, None, stock)[id] =
            Append(moves[id], [delta |-> stock, result |-> stock])
      BY <2>2 DEF TypeOK
    <2> QED BY <1>2, <2>3 DEF FirstMovements
  <1> QED  BY <1>1, <1>2

\* What a verdict says of the row that was read.
LEMMA VerdictMeans ==
  ASSUME NEW row, NEW r, NEW taken \in BOOLEAN, NEW verdict, verdict = Verdict(row, r, taken),
         r.deleted \in BOOLEAN
  PROVE  /\ verdict \in {"no_change", "conflict", "created", "updated", "deleted"}
         /\ verdict = "created" => row = None /\ ~r.deleted
         /\ verdict \in {"updated", "deleted"} => row # None /\ ClientWins(r.ts, row.updated)
         /\ verdict = "updated" => ~r.deleted
         /\ verdict = "deleted" => r.deleted
  <1>1. CASE row = None /\ r.deleted
    <2>1. verdict = "no_change"
      BY <1>1 DEF Verdict
    <2> QED BY <2>1
  <1>2. CASE row = None /\ ~r.deleted
    <2>1. verdict = IF taken THEN "conflict" ELSE "created"
      BY <1>2 DEF Verdict
    <2> QED BY <1>2, <2>1
  <1>3. CASE row # None
    <2>1. verdict =
            IF (row.deleted /\ r.deleted) \/ TsEqual(r.ts, row.updated) THEN "no_change"
            ELSE IF ~ClientWins(r.ts, row.updated) THEN "conflict"
            ELSE IF r.deleted THEN "deleted"
            ELSE IF taken THEN "conflict" ELSE "updated"
      BY <1>3 DEF Verdict
    <2> QED BY <1>3, <2>1
  <1> QED  BY <1>1, <1>2, <1>3

\* PUT /sync/products.
LEMMA SyncProductStateGood ==
  ASSUME CatalogueInv, NEW w \in Workers, SyncProductState(w)
  PROVE  Outcome(w)
  <1>1. PICK t : t = tx[w]
    OBVIOUS
  <1>2. PICK r : r = t.req
    OBVIOUS
  <1>3. tx[w] # None /\ r.route = "put" /\ TypeOK
    BY <1>1, <1>2 DEF SyncProductState, Serves, CatalogueInv
  <1>4. r \in Requests /\ t.at \in Nat /\ t.prod \in [Products -> ProductRow \cup {None}]
    BY <1>1, <1>2, <1>3, SessionFields
  <1>5. /\ r.id \in Products /\ IsFields(r.fields) /\ r.ts \in Nat /\ r.deleted \in BOOLEAN
        /\ {"name", "barcode", "stock"} \subseteq DOMAIN r.fields
        /\ \A q \in Requests : r.id \notin Drawn(q)
    BY <1>3, <1>4, RequestsAssumption
  <1>6. PICK fields : fields = ResolveForProduct(t.cat, r.fields)
    OBVIOUS
  <1>7. PICK verdict : verdict = Verdict(t.prod[r.id], r,
                                         Taken(t.prod, "barcode", r.fields.barcode, r.id))
    OBVIOUS
  <1>8. IF \/ verdict \in {"no_change", "conflict"}
           \/ verdict # "deleted" /\ UnknownCategory(t.cat, r.fields)
           \/ verdict = "created" /\ prod[r.id] # None
        THEN Answer(w)
        ELSE CASE verdict = "deleted" -> SaveProduct(w, r.id, [deleted |-> TRUE])
               [] verdict = "updated" -> SaveProduct(w, r.id, Restored(fields))
               [] verdict = "created" ->
                    Save(w, [prod EXCEPT ![r.id] = Inserted(fields, r.ts, t.at)],
                         cat, img, CatalogUpdate(r.id, None, fields.stock))
    BY <1>1, <1>2, <1>6, <1>7 DEF SyncProductState
  <1>9. /\ verdict \in {"no_change", "conflict", "created", "updated", "deleted"}
        /\ verdict = "created" => t.prod[r.id] = None /\ ~r.deleted
        /\ verdict \in {"updated", "deleted"} =>
              t.prod[r.id] # None /\ ClientWins(r.ts, t.prod[r.id].updated)
        /\ verdict = "updated" => ~r.deleted
        /\ verdict = "deleted" => r.deleted
    <2>1. Taken(t.prod, "barcode", r.fields.barcode, r.id) \in BOOLEAN
      BY DEF Taken
    <2> QED BY <1>5, <1>7, <2>1, VerdictMeans
  <1>10. /\ Payload(t, fields) /\ DOMAIN fields = DOMAIN r.fields
         /\ fields = [f \in DOMAIN fields |-> fields[f]]
         /\ \A f \in DOMAIN r.fields \ {"category"} : fields[f] = r.fields[f]
         /\ "deleted" \notin DOMAIN r.fields
    BY <1>1, <1>3, <1>5, <1>6, ResolvedPayload
  <1>11. ASSUME verdict \in {"updated", "deleted"}, t.prod[r.id] = prod[r.id]
         PROVE  r.ts > prod[r.id].updated
    <2>1. r.ts - prod[r.id].updated > Tolerance
      BY <1>9, <1>11 DEF ClientWins
    <2>2. prod[r.id].updated \in Nat
      BY <1>4, <1>5, <1>9, <1>11, RowFields
    <2> QED BY <1>5, <2>1, <2>2, ClockAssumption
  <1>12. CASE Answer(w)
    BY <1>12 DEF Outcome
  <1>13. CASE verdict = "deleted" /\ SaveProduct(w, r.id, [deleted |-> TRUE])
    <2>1. PICK gone : gone = [deleted |-> TRUE]
      OBVIOUS
    <2>2. Payload(tx[w], gone) /\ DOMAIN gone = {"deleted"} /\ gone["deleted"] = TRUE
      BY <2>1, DeletedPayload
    <2>3. Asked(r, gone)
      <3>1. \A row \in ProductRow : Applied(r, row) <=> row["deleted"] = TRUE
        BY <1>3, <1>9, <1>13, RowFields DEF Applied
      <3> QED BY <2>2, <3>1 DEF Asked
    <2>4. SaveProduct(w, r.id, gone)
      BY <1>13, <2>1
    <2>5. tx[w].req.id = r.id /\ tx[w].prod[r.id] # None /\ Asked(tx[w].req, gone)
      BY <1>1, <1>2, <1>9, <1>13, <2>3
    <2>6. tx[w].prod[r.id] = prod[r.id] => tx[w].req.ts > prod[r.id].updated
      BY <1>1, <1>2, <1>11, <1>13
    <2> QED BY <1>3, <1>5, <2>2, <2>4, <2>5, <2>6, SaveProductGood
  <1>14. CASE verdict = "updated" /\ SaveProduct(w, r.id, Restored(fields))
    <2>1. PICK back : back = Restored(fields)
      OBVIOUS
    <2>2. /\ DOMAIN back = DOMAIN fields \cup {"deleted"} /\ back["deleted"] = FALSE
          /\ \A f \in DOMAIN fields : back[f] = fields[f]
      BY <1>10, <2>1 DEF Restored
    <2>3. Payload(tx[w], back)
      <3>1. FALSE \in ProductColumn["deleted"]
        BY DEF ProductColumn
      <3> QED BY <1>1, <1>10, <2>2, <3>1 DEF Payload
    <2>4. Asked(r, back)
      <3>1. \A row \in ProductRow : Applied(r, row) <=>
              /\ \A f \in DOMAIN r.fields \ {"category"} : row[f] = r.fields[f]
              /\ row["deleted"] = FALSE
        BY <1>3, <1>9, <1>14, RowFields DEF Applied
      <3>2. \A row \in ProductRow : Applied(r, row) <=>
              \A f \in DOMAIN back \ {"category"} : row[f] = back[f]
        BY <1>10, <2>2, <3>1
      <3> QED BY <3>2 DEF Asked
    <2>5. SaveProduct(w, r.id, back)
      BY <1>14, <2>1
    <2>6. tx[w].req.id = r.id /\ tx[w].prod[r.id] # None /\ Asked(tx[w].req, back)
      BY <1>1, <1>2, <1>9, <1>14, <2>4
    <2>7. tx[w].prod[r.id] = prod[r.id] => tx[w].req.ts > prod[r.id].updated
      BY <1>1, <1>2, <1>11, <1>14
    <2> QED BY <1>3, <1>5, <2>3, <2>5, <2>6, <2>7, SaveProductGood
  <1>15. CASE /\ verdict = "created" /\ prod[r.id] = None
              /\ Save(w, [prod EXCEPT ![r.id] = Inserted(fields, r.ts, t.at)],
                      cat, img, CatalogUpdate(r.id, None, fields.stock))
    <2>1. PICK row : row = Inserted(fields, r.ts, t.at)
      OBVIOUS
    <2>2. PICK stock : stock = fields["stock"]
      OBVIOUS
    <2>3. PICK m : m = CatalogUpdate(r.id, None, stock)
      OBVIOUS
    <2>4. PICK p : p = [prod EXCEPT ![r.id] = row]
      OBVIOUS
    <2>5. /\ row \in ProductRow /\ row.deleted = FALSE /\ row.image = None
          /\ row.name = fields["name"] /\ row.barcode = fields["barcode"]
          /\ row.stock = stock /\ row.updated \in {r.ts, t.at}
          /\ row.category = IF "category" \in DOMAIN fields THEN fields["category"] ELSE None
      <3>1. IsNew(Inserted(fields, r.ts, t.at), fields, r.ts, t.at)
        BY <1>4, <1>5, <1>10, InsertedRow
      <3> QED BY <2>1, <2>2, <3>1 DEF IsNew
    <2>6. /\ p = [q \in Products |-> p[q]] /\ p[r.id] = row
          /\ \A q \in Products : q # r.id => p[q] = prod[q]
      BY <1>3, <1>5, <2>4 DEF TypeOK
    <2>7. stock \in Int \cup {None}
      BY <2>5, RowFields
    <2>8. /\ m = [q \in Products |-> m[q]]
          /\ \A q \in Products : q # r.id => m[q] = moves[q]
      <3>1. PICK id : id = r.id
        OBVIOUS
      <3>2. id \in Products /\ m = CatalogUpdate(id, None, stock)
        BY <1>5, <2>3, <3>1
      <3>3. TellsChange(id, None, stock, CatalogUpdate(id, None, stock))
        BY <1>3, <2>7, <3>2, CatalogUpdateRecorded
      <3>4. TellsChange(id, None, stock, m)
        BY <3>2, <3>3
      <3> QED BY <3>1, <3>4 DEF TellsChange
    <2>9. m[r.id] = FirstMovements(stock)
      <3>1. moves[r.id] = <<>>
        BY <1>5, <1>15 DEF CatalogueInv, MovesInv
      <3> QED BY <1>3, <1>5, <2>3, <2>7, <3>1, FirstUpdate
    <2>10. LinkGood(t, row, None, cat)
      BY <1>10, <2>5 DEF LinkGood, Payload
    <2>11. img[r.id] = None
      BY <1>5, <1>15 DEF CatalogueInv, MovesInv
    <2>12. NewRow(t, r.id, p, cat, img, m)
      BY <1>2, <1>3, <1>5, <1>15, <2>5, <2>6, <2>9, <2>10, <2>11 DEF NewRow
    <2>13. Applied(r, row)
      <3>1. \A f \in DOMAIN r.fields \ {"category"} : row[f] = r.fields[f]
        BY <1>10, <2>2, <2>5 DEF Payload
      <3> QED BY <1>9, <1>15, <2>5, <3>1 DEF Applied
    <2>14. RequestGood(t, p, m)
      BY <1>2, <1>15, <2>6, <2>13 DEF RequestGood
    <2>15. Good(t, p, cat, img, m)
      <3>1. \A q \in Products : q # r.id => SameRow(q, p, img, m)
        BY <2>6, <2>8 DEF SameRow
      <3>2. img = [q \in Products |-> img[q]]
        BY <1>3, Tables
      <3> QED BY <1>3, <1>5, <2>6, <2>8, <2>12, <2>14, <3>1, <3>2, OneProduct
    <2>16. Save(w, p, cat, img, m)
      BY <1>15, <2>1, <2>2, <2>3, <2>4
    <2> QED BY <1>1, <2>15, <2>16 DEF Outcome
  <1> QED  BY <1>8, <1>9, <1>12, <1>13, <1>14, <1>15

\* The row after a flush of its image_version alone.
LEMMA ImageRow ==
  ASSUME CatalogueInv, NEW w \in Workers, tx[w] # None, NEW id \in Products,
         tx[w].prod[id] # None, NEW sha \in Shas \cup {None}, NEW row,
         row = Flushed(prod[id], tx[w].prod[id],
                       Assigned(tx[w].prod[id], [image |-> sha]), tx[w].at)
  PROVE  /\ prod[id] \in ProductRow /\ row \in ProductRow
         /\ row = prod[id] \/ row.updated = tx[w].at
         /\ row.stock = prod[id].stock /\ row.category = prod[id].category
         /\ row.image = IF sha # tx[w].prod[id].image THEN sha ELSE prod[id].image
  <1>1. PICK t : t = tx[w]
    OBVIOUS
  <1>2. PICK seen : seen = t.prod[id]
    OBVIOUS
  <1>3. PICK fields : fields = [image |-> sha]
    OBVIOUS
  <1>4. PICK want : want = Assigned(seen, fields)
    OBVIOUS
  <1>5. prod[id] \in ProductRow /\ seen \in ProductRow /\ t.at \in Nat
    <2>1. prod[id] # None
      BY DEF CatalogueInv, SessionInv
    <2>2. prod[id] \in ProductRow \cup {None}
      BY DEF CatalogueInv, TypeOK
    <2> QED BY <1>1, <1>2, <2>1, <2>2, SessionFields DEF CatalogueInv
  <1>6. IsRow(prod[id], ProductColumn) /\ IsRow(seen, ProductColumn)
    BY <1>5, ProductIsRow
  <1>7. DOMAIN fields = {"image"} /\ fields["image"] = sha
    BY <1>3
  <1>8. /\ IsRow(want, ProductColumn)
        /\ \A f \in DOMAIN ProductColumn :
             want[f] = IF f \in DOMAIN fields THEN fields[f] ELSE seen[f]
    <2>1. \A f \in DOMAIN fields : f \in DOMAIN ProductColumn => fields[f] \in ProductColumn[f]
      BY <1>7 DEF ProductColumn
    <2> QED BY <1>4, <1>6, <2>1, AssignedRow
  <1>9. /\ IsRow(row, ProductColumn)
        /\ \A f \in DOMAIN ProductColumn \ {"updated"} :
             row[f] = IF want[f] # seen[f] THEN want[f] ELSE prod[id][f]
        /\ row = prod[id] \/ row["updated"] = t.at
    <2>1. row = Flushed(prod[id], seen, want, t.at)
      BY <1>1, <1>2, <1>3, <1>4
    <2>2. "updated" \in DOMAIN ProductColumn /\ t.at \in ProductColumn["updated"]
      BY <1>5, ColumnNames
    <2> QED BY <1>6, <1>8, <2>1, <2>2, FlushedRow
  <1>10. row \in ProductRow
    BY <1>9, ProductIsRow
  <1>11. row["stock"] = prod[id]["stock"] /\ row["category"] = prod[id]["category"]
         /\ row["image"] = IF sha # seen["image"] THEN sha ELSE prod[id]["image"]
    BY <1>7, <1>8, <1>9, ColumnNames
  <1> QED  BY <1>1, <1>2, <1>5, <1>9, <1>10, <1>11

\* A commit that writes the row and the image of one product.
LEMMA ImageSaved ==
  ASSUME CatalogueInv, NEW w \in Workers, tx[w] # None, NEW id \in Products,
         tx[w].prod[id] # None, tx[w].req.route \notin {"put", "patch"},
         NEW row \in ProductRow, prod[id] # None,
         row = prod[id] \/ row.updated = tx[w].at,
         row.stock = prod[id].stock, row.category = prod[id].category,
         NEW new \in Shas \cup {None},
         \/ new = row.image
         \/ new = img[id] /\ row.image = prod[id].image
         \/ tx[w].image # {tx[w].prod[id].image},
         NEW i, i = [img EXCEPT ![id] = new],
         Save(w, [prod EXCEPT ![id] = row], cat, i, moves)
  PROVE  Outcome(w)
  <1>1. PICK t : t = tx[w]
    OBVIOUS
  <1>2. PICK p : p = [prod EXCEPT ![id] = row]
    OBVIOUS
  <1>3. TypeOK /\ moves = [q \in Products |-> moves[q]]
    BY Tables DEF CatalogueInv
  <1>4. /\ p = [q \in Products |-> p[q]] /\ p[id] = row
        /\ \A q \in Products : q # id => p[q] = prod[q]
    BY <1>2, <1>3 DEF TypeOK
  <1>7. /\ i = [q \in Products |-> i[q]] /\ i[id] = new
        /\ \A q \in Products : q # id => i[q] = img[q]
    BY <1>3 DEF TypeOK
  <1>5. EditedRow(t, id, p, cat, i, moves)
    BY <1>1, <1>4, <1>7 DEF EditedRow, ImageGood, LinkGood
  <1>6. Good(t, p, cat, i, moves)
    <2>1. RequestGood(t, p, moves)
      BY <1>1 DEF RequestGood
    <2>2. \A q \in Products : q # id => SameRow(q, p, i, moves)
      BY <1>4, <1>7 DEF SameRow
    <2> QED BY <1>3, <1>4, <1>5, <1>7, <2>1, <2>2, OneProduct
  <1> QED  BY <1>1, <1>2, <1>6 DEF Outcome

\* An image is set, or taken away: the row of images follows what was read of it.
LEMMA ImageWritten ==
  ASSUME CatalogueInv, NEW w \in Workers, tx[w] # None, NEW id \in Products,
         tx[w].prod[id] # None, tx[w].req.route \notin {"put", "patch"},
         NEW sha \in Shas \cup {None}, NEW was \in tx[w].image,
         NEW row, row = Flushed(prod[id], tx[w].prod[id],
                                Assigned(tx[w].prod[id], [image |-> sha]), tx[w].at),
         NEW i, i = IF was = sha THEN img ELSE [img EXCEPT ![id] = sha],
         Save(w, [prod EXCEPT ![id] = row], cat, i, moves)
  PROVE  Outcome(w)
  <1>1. /\ prod[id] \in ProductRow /\ row \in ProductRow
        /\ row = prod[id] \/ row.updated = tx[w].at
        /\ row.stock = prod[id].stock /\ row.category = prod[id].category
        /\ row.image = IF sha # tx[w].prod[id].image THEN sha ELSE prod[id].image
    BY ImageRow
  <1>2. prod[id] # None
    BY <1>1, RowFields
  <1>3. img \in [Products -> Shas \cup {None}]
    BY DEF CatalogueInv, TypeOK
  <1>4. PICK new : new = IF was = sha THEN img[id] ELSE sha
    OBVIOUS
  <1>5. new \in Shas \cup {None} /\ i = [img EXCEPT ![id] = new]
    BY <1>3, <1>4
  <1>6. \/ new = row.image
        \/ new = img[id] /\ row.image = prod[id].image
        \/ tx[w].image # {tx[w].prod[id].image}
    <2>1. CASE tx[w].image = {tx[w].prod[id].image}
      <3>1. was = tx[w].prod[id].image
        BY <2>1
      <3>2. CASE was = sha
        BY <1>1, <1>4, <3>1, <3>2
      <3>3. CASE was # sha
        BY <1>1, <1>4, <3>1, <3>3
      <3> QED BY <3>2, <3>3
    <2> QED BY <2>1
  <1> QED  BY <1>1, <1>2, <1>5, <1>6, ImageSaved

\* PUT /products/{id}/image.
LEMMA UploadImageGood ==
  ASSUME CatalogueInv, NEW w \in Workers, UploadImage(w)
  PROVE  Outcome(w)
  <1>1. PICK id, sha, row : /\ id = tx[w].req.id /\ sha = tx[w].req.sha
                            /\ row = Flushed(prod[id], tx[w].prod[id],
                                    Assigned(tx[w].prod[id], [image |-> sha]), tx[w].at)
    OBVIOUS
  <1>2. tx[w] # None /\ tx[w].req.route = "image" /\ TypeOK
    BY DEF UploadImage, Serves, CatalogueInv
  <1>3. tx[w].req \in Requests
    BY <1>2, SessionFields
  <1>4. id \in Products /\ sha \in Shas \cup {Malformed}
    BY <1>1, <1>2, <1>3, RequestsAssumption
  <1>5. CASE Answer(w)
    BY <1>5 DEF Outcome
  <1>6. ASSUME TakesImage(tx[w]), NEW was \in tx[w].image,
               Save(w, [prod EXCEPT ![id] = row], cat,
                    IF was = sha THEN img ELSE [img EXCEPT ![id] = sha], moves)
        PROVE  Outcome(w)
    <2>1. sha \in Shas \cup {None} /\ tx[w].prod[id] # None
      BY <1>1, <1>2, <1>4, <1>6 DEF TakesImage, Decodes, Live
    <2>2. PICK i : i = IF was = sha THEN img ELSE [img EXCEPT ![id] = sha]
      OBVIOUS
    <2>3. Save(w, [prod EXCEPT ![id] = row], cat, i, moves)
      BY <1>6, <2>2
    <2> QED BY <1>1, <1>2, <1>4, <1>6, <2>1, <2>2, <2>3, ImageWritten
  <1>7. \/ Answer(w)
        \/ TakesImage(tx[w]) /\ \E was \in tx[w].image :
             Save(w, [prod EXCEPT ![id] = row], cat,
                  IF was = sha THEN img ELSE [img EXCEPT ![id] = sha], moves)
    <2>1. \/ Answer(w)
          \/ TakesImage(tx[w]) /\ \E was \in tx[w].image :
               Save(w, [prod EXCEPT ![tx[w].req.id] =
                          Flushed(prod[tx[w].req.id], tx[w].prod[tx[w].req.id],
                                  Assigned(tx[w].prod[tx[w].req.id], [image |-> tx[w].req.sha]),
                                  tx[w].at)], cat,
                    IF was = tx[w].req.sha THEN img
                    ELSE [img EXCEPT ![tx[w].req.id] = tx[w].req.sha], moves)
      BY DEF UploadImage
    <2> QED BY <1>1, <2>1
  <1> QED  BY <1>5, <1>6, <1>7

\* DELETE /products/{id}/image.
LEMMA DeleteImageGood ==
  ASSUME CatalogueInv, NEW w \in Workers, DeleteImage(w)
  PROVE  Outcome(w)
  <1>1. PICK id, sha, row : /\ id = tx[w].req.id /\ sha = None
                            /\ row = Flushed(prod[id], tx[w].prod[id],
                                    Assigned(tx[w].prod[id], [image |-> sha]), tx[w].at)
    OBVIOUS
  <1>2. tx[w] # None /\ tx[w].req.route = "unimage" /\ TypeOK
    BY DEF DeleteImage, Serves, CatalogueInv
  <1>3. tx[w].req \in Requests
    BY <1>2, SessionFields
  <1>4. id \in Products /\ sha \in Shas \cup {None}
    BY <1>1, <1>2, <1>3, RequestsAssumption
  <1>5. CASE Answer(w)
    BY <1>5 DEF Outcome
  <1>6. ASSUME TakesImage(tx[w]), NEW was \in tx[w].image,
               Save(w, [prod EXCEPT ![id] = row], cat,
                    IF was = sha THEN img ELSE [img EXCEPT ![id] = sha], moves)
        PROVE  Outcome(w)
    <2>1. tx[w].prod[id] # None
      BY <1>1, <1>6 DEF TakesImage, Live
    <2>2. PICK i : i = IF was = sha THEN img ELSE [img EXCEPT ![id] = sha]
      OBVIOUS
    <2>3. Save(w, [prod EXCEPT ![id] = row], cat, i, moves)
      BY <1>6, <2>2
    <2> QED BY <1>1, <1>2, <1>4, <1>6, <2>1, <2>2, <2>3, ImageWritten
  <1>7. \/ Answer(w)
        \/ TakesImage(tx[w]) /\ \E was \in tx[w].image :
             Save(w, [prod EXCEPT ![id] = row], cat,
                  IF was = sha THEN img ELSE [img EXCEPT ![id] = sha], moves)
    <2>1. \/ Answer(w)
          \/ TakesImage(tx[w]) /\ \E was \in tx[w].image :
               Save(w, [prod EXCEPT ![tx[w].req.id] =
                          Flushed(prod[tx[w].req.id], tx[w].prod[tx[w].req.id],
                                  Assigned(tx[w].prod[tx[w].req.id], [image |-> None]),
                                  tx[w].at)], cat,
                    IF was = None THEN img
                    ELSE [img EXCEPT ![tx[w].req.id] = None], moves)
      BY DEF DeleteImage
    <2> QED BY <1>1, <2>1
  <1> QED  BY <1>5, <1>6, <1>7

\* A commit that writes the stock of a product and records its movement.
LEMMA MovementSaved ==
  ASSUME CatalogueInv, NEW w \in Workers, tx[w] # None, NEW id \in Products,
         tx[w].prod[id] # None, tx[w].req.route \notin {"put", "patch"},
         NEW row \in ProductRow, prod[id] # None,
         row = prod[id] \/ row.updated = tx[w].at,
         row.category = prod[id].category, row.image = prod[id].image,
         NEW delta \in Int, NEW new \in Int \cup {None},
         tx[w].prod[id].stock = prod[id].stock => row.stock = new,
         new # None => new = OrZero(tx[w].prod[id].stock) + delta,
         Save(w, [prod EXCEPT ![id] = row], cat, img, Recorded(id, delta, new))
  PROVE  Outcome(w)
  <1>1. PICK t : t = tx[w]
    OBVIOUS
  <1>2. PICK p : p = [prod EXCEPT ![id] = row]
    OBVIOUS
  <1>3. PICK m : m = Recorded(id, delta, new)
    OBVIOUS
  <1>4. PICK mv : mv = [delta |-> delta, result |-> new]
    OBVIOUS
  <1>5. TypeOK /\ img = [q \in Products |-> img[q]]
    BY Tables DEF CatalogueInv
  <1>6. /\ p = [q \in Products |-> p[q]] /\ p[id] = row
        /\ \A q \in Products : q # id => p[q] = prod[q]
    BY <1>2, <1>5 DEF TypeOK
  <1>7. /\ m = [q \in Products |-> m[q]] /\ m[id] = Append(moves[id], mv)
        /\ \A q \in Products : q # id => m[q] = moves[q]
    <2>1. m = [moves EXCEPT ![id] = Append(@, mv)]
      BY <1>3, <1>4 DEF Recorded
    <2> QED BY <1>5, <2>1 DEF TypeOK
  <1>8. mv \in Movement /\ mv.delta = delta /\ mv.result = new
    BY <1>4 DEF Movement
  <1>9. Explains(mv, t.prod[id].stock, prod[id], row)
    BY <1>1, <1>8 DEF Explains
  <1>10. ImageGood(t, id, p, img)
    BY <1>5, <1>6 DEF ImageGood, TypeOK
  <1>11. LinkGood(t, p[id], prod[id], cat)
    BY <1>6 DEF LinkGood
  <1>12. EditedRow(t, id, p, cat, img, m)
    BY <1>1, <1>6, <1>7, <1>8, <1>9, <1>10, <1>11 DEF EditedRow
  <1>13. Good(t, p, cat, img, m)
    <2>1. RequestGood(t, p, m)
      BY <1>1 DEF RequestGood
    <2>2. \A q \in Products : q # id => SameRow(q, p, img, m)
      BY <1>6, <1>7 DEF SameRow
    <2> QED BY <1>5, <1>6, <1>7, <1>12, <2>1, <2>2, OneProduct
  <1> QED  BY <1>1, <1>2, <1>3, <1>13 DEF Outcome

\* What a route that moves the stock has read.
LEMMA ReadRow ==
  ASSUME CatalogueInv, NEW w \in Workers, tx[w] # None, NEW id \in Products, tx[w].prod[id] # None
  PROVE  /\ prod[id] \in ProductRow /\ prod[id] # None /\ tx[w].prod[id] \in ProductRow
         /\ tx[w].prod[id].stock \in Int \cup {None} /\ OrZero(tx[w].prod[id].stock) \in Int
         /\ tx[w].at \in Nat
  <1>1. prod[id] # None
    BY DEF CatalogueInv, SessionInv
  <1>2. prod[id] \in ProductRow \cup {None}
    BY DEF CatalogueInv, TypeOK
  <1>3. tx[w].prod \in [Products -> ProductRow \cup {None}] /\ tx[w].at \in Nat
    BY SessionFields DEF CatalogueInv
  <1>4. tx[w].prod[id] \in ProductRow
    BY <1>3
  <1>5. tx[w].prod[id].stock \in Int \cup {None}
    BY <1>4, RowFields
  <1>6. OrZero(tx[w].prod[id].stock) \in Int
    BY <1>5 DEF OrZero
  <1> QED  BY <1>1, <1>2, <1>3, <1>4, <1>5, <1>6

\* POST /inventory/movements.
LEMMA ManualAdjustmentGood ==
  ASSUME CatalogueInv, NEW w \in Workers, ManualAdjustment(w)
  PROVE  Outcome(w)
  <1>1. PICK t : t = tx[w]
    OBVIOUS
  <1>2. PICK id : id = t.req.id
    OBVIOUS
  <1>3. PICK delta : delta = t.req.delta
    OBVIOUS
  <1>4. PICK new : new = OrZero(t.prod[id].stock) + delta
    OBVIOUS
  <1>5. tx[w] # None /\ t.req.route = "adjust" /\ TypeOK
    BY <1>1 DEF ManualAdjustment, Serves, CatalogueInv
  <1>6. t.req \in Requests
    BY <1>1, <1>5, SessionFields
  <1>7. id \in Products /\ delta \in Int
    BY <1>2, <1>3, <1>5, <1>6, RequestsAssumption
  <1>8. \/ Answer(w)
        \/ /\ Live(t.prod[id])
           /\ Save(w, [prod EXCEPT ![id] = [@ EXCEPT !.stock = new, !.updated = t.at]],
                   cat, img, Recorded(id, delta, new))
    BY <1>1, <1>2, <1>3, <1>4 DEF ManualAdjustment
  <1>9. CASE Answer(w)
    BY <1>9 DEF Outcome
  <1>10. CASE /\ Live(t.prod[id])
              /\ Save(w, [prod EXCEPT ![id] = [@ EXCEPT !.stock = new, !.updated = t.at]],
                      cat, img, Recorded(id, delta, new))
    <2>1. /\ prod[id] \in ProductRow /\ prod[id] # None /\ t.prod[id] # None
          /\ OrZero(t.prod[id].stock) \in Int /\ t.at \in Nat
      <3>1. tx[w].prod[id] # None
        BY <1>1, <1>10 DEF Live
      <3> QED BY <1>1, <1>5, <1>7, <3>1, ReadRow
    <2>2. PICK row : row = [prod[id] EXCEPT !.stock = new, !.updated = t.at]
      OBVIOUS
    <2>3. new \in Int
      BY <1>4, <1>7, <2>1
    \* The UPDATE sets the stock even to what it was: as from another value.
    <2>4. row = StockSet(prod[id], new + 1, new, t.at)
      BY <2>2, <2>3 DEF StockSet
    <2>5. /\ row \in ProductRow /\ row.stock = new /\ row.updated = t.at
          /\ row.category = prod[id].category /\ row.image = prod[id].image
      <3>1. new # new + 1 /\ new \in Int \cup {None}
        BY <2>3
      <3> QED BY <2>1, <2>4, <3>1, StockSetRow
    <2>6. Save(w, [prod EXCEPT ![id] = row], cat, img, Recorded(id, delta, new))
      <3>1. [prod EXCEPT ![id] = [@ EXCEPT !.stock = new, !.updated = t.at]] =
              [prod EXCEPT ![id] = row]
        BY <2>2
      <3> QED BY <1>10, <3>1
    <2>7. /\ tx[w].prod[id] # None /\ tx[w].req.route \notin {"put", "patch"}
          /\ row.updated = tx[w].at /\ new = OrZero(tx[w].prod[id].stock) + delta
          /\ new \in Int \cup {None}
      BY <1>1, <1>4, <1>5, <2>1, <2>3, <2>5
    <2> QED BY <1>5, <1>7, <2>1, <2>5, <2>6, <2>7, MovementSaved
  <1> QED  BY <1>8, <1>9, <1>10

\* A line of a sale or of a return.
LEMMA SoldOrReturnedGood ==
  ASSUME CatalogueInv, NEW w \in Workers, SoldOrReturned(w)
  PROVE  Outcome(w)
  <1>1. PICK t : t = tx[w]
    OBVIOUS
  <1>2. PICK id : id = t.req.id
    OBVIOUS
  <1>3. PICK delta : delta = t.req.delta
    OBVIOUS
  <1>4. PICK old : old = t.prod[id].stock
    OBVIOUS
  <1>5. PICK new : new = IF old = None THEN None ELSE old + delta
    OBVIOUS
  <1>6. tx[w] # None /\ t.req.route = "sale" /\ TypeOK
    BY <1>1 DEF SoldOrReturned, Serves, CatalogueInv
  <1>7. t.req \in Requests
    BY <1>1, <1>6, SessionFields
  <1>8. id \in Products /\ delta \in Int
    BY <1>2, <1>3, <1>6, <1>7, RequestsAssumption
  <1>9. \/ Answer(w)
        \/ /\ Live(t.prod[id])
           /\ Save(w, [prod EXCEPT ![id] = StockSet(@, old, new, t.at)],
                   cat, img, Recorded(id, delta, new))
    BY <1>1, <1>2, <1>3, <1>4, <1>5 DEF SoldOrReturned
  <1>10. CASE Answer(w)
    BY <1>10 DEF Outcome
  <1>11. CASE /\ Live(t.prod[id])
              /\ Save(w, [prod EXCEPT ![id] = StockSet(@, old, new, t.at)],
                      cat, img, Recorded(id, delta, new))
    <2>1. /\ prod[id] \in ProductRow /\ prod[id] # None /\ t.prod[id] # None
          /\ old \in Int \cup {None} /\ t.at \in Nat
      <3>1. tx[w].prod[id] # None
        BY <1>1, <1>11 DEF Live
      <3> QED BY <1>1, <1>4, <1>6, <1>8, <3>1, ReadRow
    <2>2. PICK row : row = StockSet(prod[id], old, new, t.at)
      OBVIOUS
    <2>3. new \in Int \cup {None}
      <3>1. CASE old = None
        BY <1>5, <3>1
      <3>2. CASE old # None
        BY <1>5, <1>8, <2>1, <3>2
      <3> QED BY <3>1, <3>2
    <2>4. /\ row \in ProductRow
          /\ new = old => row = prod[id]
          /\ new # old => row.stock = new /\ row.updated = t.at
          /\ row.category = prod[id].category /\ row.image = prod[id].image
      BY <2>1, <2>2, <2>3, StockSetRow
    <2>5. Save(w, [prod EXCEPT ![id] = row], cat, img, Recorded(id, delta, new))
      <3>1. [prod EXCEPT ![id] = StockSet(@, old, new, t.at)] = [prod EXCEPT ![id] = row]
        BY <2>2
      <3> QED BY <1>11, <3>1
    <2>6. tx[w].prod[id].stock = prod[id].stock => row.stock = new
      BY <1>1, <1>4, <2>4
    <2>7. new # None => new = OrZero(tx[w].prod[id].stock) + delta
      <3>1. CASE old = None
        BY <1>5, <3>1
      <3>2. CASE old # None
        BY <1>1, <1>4, <1>5, <3>2 DEF OrZero
      <3> QED BY <3>1, <3>2
    <2>8. /\ tx[w].prod[id] # None /\ tx[w].req.route \notin {"put", "patch"}
          /\ row = prod[id] \/ row.updated = tx[w].at
      BY <1>1, <1>6, <2>1, <2>4
    <2> QED BY <1>6, <1>8, <2>1, <2>3, <2>4, <2>5, <2>6, <2>7, <2>8, MovementSaved
  <1> QED  BY <1>9, <1>10, <1>11

\* The row of a category after a flush.
LEMMA CategoryFlushed ==
  ASSUME CatalogueInv, NEW w \in Workers, tx[w] # None, NEW id \in Categories,
         tx[w].cat[id] # None, NEW fields, DOMAIN fields \subseteq {"name", "deleted"},
         \A f \in DOMAIN fields : fields[f] \in CategoryColumn[f], NEW row,
         row = Flushed(cat[id], tx[w].cat[id], Assigned(tx[w].cat[id], fields), tx[w].at)
  PROVE  /\ row \in CategoryRow /\ cat[id] \in CategoryRow /\ cat[id] # None
         /\ row.deleted =>
               cat[id].deleted \/ ("deleted" \in DOMAIN fields /\ fields["deleted"] = TRUE)
  <1>1. PICK t : t = tx[w]
    OBVIOUS
  <1>2. PICK seen : seen = t.cat[id]
    OBVIOUS
  <1>3. PICK want : want = Assigned(seen, fields)
    OBVIOUS
  <1>4. cat[id] \in CategoryRow /\ cat[id] # None /\ seen \in CategoryRow /\ t.at \in Nat
    <2>1. cat[id] # None
      BY DEF CatalogueInv, SessionInv
    <2>2. cat[id] \in CategoryRow \cup {None}
      BY DEF CatalogueInv, TypeOK
    <2>3. t.cat \in [Categories -> CategoryRow \cup {None}] /\ t.at \in Nat
      BY <1>1, SessionFields DEF CatalogueInv
    <2> QED BY <1>1, <1>2, <2>1, <2>2, <2>3
  <1>5. IsRow(cat[id], CategoryColumn) /\ IsRow(seen, CategoryColumn)
    BY <1>4, CategoryIsRow
  <1>6. /\ IsRow(want, CategoryColumn)
        /\ \A f \in DOMAIN CategoryColumn :
             want[f] = IF f \in DOMAIN fields THEN fields[f] ELSE seen[f]
    BY <1>3, <1>5, AssignedRow
  <1>7. /\ IsRow(row, CategoryColumn)
        /\ \A f \in DOMAIN CategoryColumn \ {"updated"} :
             row[f] = IF want[f] # seen[f] THEN want[f] ELSE cat[id][f]
    <2>1. row = Flushed(cat[id], seen, want, t.at)
      BY <1>1, <1>2, <1>3
    <2>2. "updated" \in DOMAIN CategoryColumn /\ t.at \in CategoryColumn["updated"]
      BY <1>4, ColumnNames
    <2> QED BY <1>5, <1>6, <2>1, <2>2, FlushedRow
  <1>8. row \in CategoryRow
    BY <1>7, CategoryIsRow
  <1>9. /\ row["deleted"] = IF want["deleted"] # seen["deleted"] THEN want["deleted"]
                            ELSE cat[id]["deleted"]
        /\ want["deleted"] =
             IF "deleted" \in DOMAIN fields THEN fields["deleted"] ELSE seen["deleted"]
    BY <1>6, <1>7, ColumnNames
  <1>10. row["deleted"] \in BOOLEAN
    BY <1>8, RowFields
  <1> QED  BY <1>4, <1>8, <1>9, <1>10

\* A commit that writes one category and no product.
LEMMA CategorySaved ==
  ASSUME CatalogueInv, NEW w \in Workers, tx[w] # None, tx[w].req.route \notin {"put", "patch"},
         NEW id \in Categories, NEW row \in CategoryRow,
         row.deleted => cat[id] # None /\ cat[id].deleted,
         Save(w, prod, [cat EXCEPT ![id] = row], img, moves)
  PROVE  Outcome(w)
  <1>1. PICK t : t = tx[w]
    OBVIOUS
  <1>2. PICK c : c = [cat EXCEPT ![id] = row]
    OBVIOUS
  <1>3. TypeOK
    BY DEF CatalogueInv
  <1>4. /\ c = [k \in Categories |-> c[k]] /\ c[id] = row
        /\ \A k \in Categories : k # id => c[k] = cat[k]
    BY <1>2, <1>3 DEF TypeOK
  <1>5. ASSUME NEW k \in Categories
        PROVE  CategoryGood(t, k, prod, c)
    <2>1. CASE k = id
      BY <1>4, <2>1, RowFields DEF CategoryGood
    <2>2. CASE k # id
      BY <1>3, <1>4, <2>2 DEF CategoryGood, TypeOK
    <2> QED BY <2>1, <2>2
  <1>6. \A q \in Products : SameRow(q, prod, img, moves)
    BY DEF SameRow
  <1>7. RequestGood(t, prod, moves)
    BY <1>1 DEF RequestGood
  <1>8. Good(t, prod, c, img, moves)
    BY <1>3, <1>4, <1>5, <1>6, <1>7, Tables DEF Good
  <1> QED  BY <1>1, <1>2, <1>8 DEF Outcome

\* A new category.
LEMMA CategoryInserted ==
  ASSUME CatalogueInv, NEW w \in Workers, tx[w] # None, tx[w].req.route \notin {"put", "patch"},
         NEW id \in Categories, NEW name \in Names, NEW updated \in Nat,
         Save(w, prod, InsertCategory(tx[w], id, name, updated), img, moves)
  PROVE  Outcome(w)
  <1>1. PICK row : row = [name |-> name, deleted |-> FALSE, updated |-> updated]
    OBVIOUS
  <1>2. row \in CategoryRow /\ ~row.deleted
    BY <1>1 DEF CategoryRow
  <1>3. Save(w, prod, [cat EXCEPT ![id] = row], img, moves)
    BY <1>1 DEF InsertCategory
  <1> QED  BY <1>2, <1>3, CategorySaved

\* update_fields of a category that is not deleted by it.
LEMMA SaveCategoryGood ==
  ASSUME CatalogueInv, NEW w \in Workers, tx[w] # None, tx[w].req.route \notin {"put", "patch"},
         NEW id \in Categories, tx[w].cat[id] # None, NEW fields,
         DOMAIN fields \subseteq {"name", "deleted"},
         \A f \in DOMAIN fields : fields[f] \in CategoryColumn[f],
         "deleted" \in DOMAIN fields => fields["deleted"] = FALSE,
         SaveCategory(w, id, fields)
  PROVE  Outcome(w)
  <1>1. PICK row : row = Flushed(cat[id], tx[w].cat[id], Assigned(tx[w].cat[id], fields), tx[w].at)
    OBVIOUS
  <1>2. /\ row \in CategoryRow /\ cat[id] \in CategoryRow /\ cat[id] # None
        /\ row.deleted =>
              cat[id].deleted \/ ("deleted" \in DOMAIN fields /\ fields["deleted"] = TRUE)
    BY <1>1, CategoryFlushed
  <1>3. Save(w, prod, [cat EXCEPT ![id] = row], img, moves)
    <2>1. [cat EXCEPT ![id] = Flushed(@, tx[w].cat[id], Assigned(tx[w].cat[id], fields), tx[w].at)]
            = [cat EXCEPT ![id] = row]
      BY <1>1
    <2> QED BY <2>1 DEF SaveCategory
  <1> QED  BY <1>2, <1>3, CategorySaved

\* The members the session found are taken out of the category.
LEMMA DropCategoryGood ==
  ASSUME CatalogueInv, NEW w \in Workers, tx[w] # None, tx[w].req.route \notin {"put", "patch"},
         NEW id \in Categories, tx[w].cat[id] # None, DropCategory(w, id)
  PROVE  Outcome(w)
  <1>1. PICK t : t = tx[w]
    OBVIOUS
  <1>2. PICK fields : fields = [category |-> None]
    OBVIOUS
  <1>3. PICK gone : gone = [deleted |-> TRUE]
    OBVIOUS
  <1>4. PICK row : row = Flushed(cat[id], t.cat[id], Assigned(t.cat[id], gone), t.at)
    OBVIOUS
  <1>5. PICK p : p = [q \in Products |->
                        IF q \notin Members(t.prod, id) THEN prod[q]
                        ELSE Flushed(prod[q], t.prod[q], Assigned(t.prod[q], fields), t.at)]
    OBVIOUS
  <1>6. PICK c : c = [cat EXCEPT ![id] = row]
    OBVIOUS
  <1>7. Save(w, p, c, img, moves)
    <2>1. [cat EXCEPT ![id] = Flushed(@, t.cat[id], Assigned(t.cat[id], [deleted |-> TRUE]), t.at)] = c
      BY <1>3, <1>4, <1>6
    <2>2. Save(w, [q \in Products |->
                     IF q \notin Members(t.prod, id) THEN prod[q]
                     ELSE Flushed(prod[q], t.prod[q], Assigned(t.prod[q], [category |-> None]), t.at)],
               [cat EXCEPT ![id] = Flushed(@, t.cat[id], Assigned(t.cat[id], [deleted |-> TRUE]), t.at)],
               img, moves)
      BY <1>1 DEF DropCategory
    <2> QED BY <1>2, <1>5, <2>1, <2>2
  <1>8. TypeOK /\ t.at \in Nat /\ t.prod \in [Products -> ProductRow \cup {None}]
    BY <1>1, SessionFields DEF CatalogueInv
  <1>9. row \in CategoryRow /\ row # None
    <2>1. DOMAIN gone = {"deleted"} /\ gone["deleted"] \in CategoryColumn["deleted"]
      BY <1>3 DEF CategoryColumn
    <2>2. DOMAIN gone \subseteq {"name", "deleted"} /\ \A f \in DOMAIN gone : gone[f] \in CategoryColumn[f]
      BY <2>1
    <2>3. row = Flushed(cat[id], tx[w].cat[id], Assigned(tx[w].cat[id], gone), tx[w].at)
      BY <1>1, <1>4
    <2>4. row \in CategoryRow
      BY <2>2, <2>3, CategoryFlushed
    <2> QED BY <2>4, RowFields
  <1>10. /\ c = [k \in Categories |-> c[k]] /\ c[id] = row
         /\ \A k \in Categories : k # id => c[k] = cat[k]
    BY <1>6, <1>8 DEF TypeOK
  <1>11. \A q \in Products : q \notin Members(t.prod, id) => p[q] = prod[q]
    BY <1>5
  <1>12. ASSUME NEW q \in Members(t.prod, id)
         PROVE  /\ EditedRow(t, q, p, c, img, moves)
                /\ p[q] # None /\ p[q].category = None
    <2>1. q \in Products /\ t.prod[q] # None /\ t.prod[q].category = id
      BY <1>12 DEF Members
    <2>2. t.prod[q] \in ProductRow
      BY <1>8, <2>1
    <2>3. prod[q] \in ProductRow /\ prod[q] # None /\ img[q] \in Shas \cup {None}
      <3>1. prod[q] # None
        BY <1>1, <2>1 DEF CatalogueInv, SessionInv
      <3> QED BY <1>8, <2>1, <3>1 DEF TypeOK
    <2>4. IsRow(prod[q], ProductColumn) /\ IsRow(t.prod[q], ProductColumn)
      BY <2>2, <2>3, ProductIsRow
    <2>5. PICK want : want = Assigned(t.prod[q], fields)
      OBVIOUS
    <2>6. /\ IsRow(want, ProductColumn)
          /\ \A f \in DOMAIN ProductColumn :
               want[f] = IF f \in DOMAIN fields THEN fields[f] ELSE t.prod[q][f]
      <3>1. \A f \in DOMAIN fields : f \in DOMAIN ProductColumn => fields[f] \in ProductColumn[f]
        BY <1>2 DEF ProductColumn
      <3> QED BY <2>4, <2>5, <3>1, AssignedRow
    <2>7. /\ IsRow(p[q], ProductColumn)
          /\ \A f \in DOMAIN ProductColumn \ {"updated"} :
               p[q][f] = IF want[f] # t.prod[q][f] THEN want[f] ELSE prod[q][f]
          /\ p[q] = prod[q] \/ p[q]["updated"] = t.at
      <3>1. PICK a, b, at : a = prod[q] /\ b = t.prod[q] /\ at = t.at
        OBVIOUS
      <3>2. p[q] = Flushed(a, b, want, at)
        BY <1>5, <1>12, <2>1, <2>5, <3>1
      <3>3. "updated" \in DOMAIN ProductColumn /\ at \in ProductColumn["updated"]
        BY <1>8, <3>1, ColumnNames
      <3>4. IsRow(a, ProductColumn) /\ IsRow(b, ProductColumn) /\ IsRow(want, ProductColumn)
        BY <2>4, <2>6, <3>1
      <3>5. /\ IsRow(p[q], ProductColumn)
            /\ \A f \in DOMAIN ProductColumn \ {"updated"} :
                 p[q][f] = IF want[f] # b[f] THEN want[f] ELSE a[f]
            /\ p[q] = a \/ p[q]["updated"] = at
        <4>1. PICK new : new = Flushed(a, b, want, at)
          OBVIOUS
        <4>2. /\ IsRow(new, ProductColumn)
              /\ \A f \in DOMAIN ProductColumn \ {"updated"} :
                   new[f] = IF want[f] # b[f] THEN want[f] ELSE a[f]
              /\ new = a \/ new["updated"] = at
          BY <3>3, <3>4, <4>1, FlushedRow
        <4> QED BY <3>2, <4>1, <4>2
      <3> QED BY <3>1, <3>5
    <2>8. p[q] \in ProductRow /\ p[q] # None
      BY <2>7, ProductIsRow, RowFields
    <2>9. DOMAIN fields = {"category"} /\ fields["category"] = None
      BY <1>2
    <2>10. p[q]["stock"] = prod[q]["stock"] /\ p[q]["image"] = prod[q]["image"]
      BY <2>6, <2>7, <2>9, ColumnNames
    <2>11. p[q]["category"] = None
      BY <2>1, <2>6, <2>7, <2>9, ColumnNames, NoneAssumption
    <2> QED BY <2>1, <2>3, <2>7, <2>8, <2>10, <2>11 DEF EditedRow, ImageGood, LinkGood
  <1>13. ASSUME NEW q \in Products
         PROVE  SameRow(q, p, img, moves) \/ EditedRow(t, q, p, c, img, moves)
    BY <1>11, <1>12 DEF SameRow
  <1>14. ASSUME NEW k \in Categories
         PROVE  CategoryGood(t, k, p, c)
    <2>1. CASE k = id
      BY <1>9, <1>10, <1>12, <2>1 DEF CategoryGood
    <2>2. CASE k # id
      BY <1>8, <1>10, <2>2 DEF CategoryGood, TypeOK
    <2> QED BY <2>1, <2>2
  <1>15. p = [q \in Products |-> p[q]]
    BY <1>5
  <1>16. RequestGood(t, p, moves)
    BY <1>1 DEF RequestGood
  <1>17. Good(t, p, c, img, moves)
    BY <1>8, <1>10, <1>13, <1>14, <1>15, <1>16, Tables DEF Good
  <1> QED  BY <1>1, <1>7, <1>17 DEF Outcome

\* The routes of /categories and PUT /sync/categories.
LEMMA CategoryRoutesGood ==
  ASSUME CatalogueInv, NEW w \in Workers,
         \/ CreateCategory(w) \/ RenameCategory(w) \/ DeleteCategory(w) \/ SyncCategoryState(w)
  PROVE  Outcome(w)
  <1>1. PICK t : t = tx[w]
    OBVIOUS
  <1>2. PICK r : r = t.req
    OBVIOUS
  <1>3. PICK id : id = r.id
    OBVIOUS
  <1>4. tx[w] # None /\ r.route \in {"newCategory", "rename", "dropCategory", "putCategory"}
    BY <1>1, <1>2 DEF CreateCategory, RenameCategory, DeleteCategory, SyncCategoryState, Serves
  <1>5. r \in Requests /\ t.at \in Nat /\ tx[w].req.route \notin {"put", "patch"}
    BY <1>1, <1>2, <1>4, SessionFields DEF CatalogueInv
  <1>6. id \in Categories
    BY <1>3, <1>4, <1>5, RequestsAssumption
  <1>7. CASE Answer(w)
    BY <1>7 DEF Outcome
  <1>8. CASE CreateCategory(w) /\ ~Answer(w)
    <2>1. r.name \in Names
      BY <1>1, <1>2, <1>5, <1>8, RequestsAssumption DEF CreateCategory, Serves
    <2>2. Save(w, prod, InsertCategory(tx[w], id, r.name, t.at), img, moves)
      BY <1>1, <1>2, <1>3, <1>8 DEF CreateCategory
    <2> QED BY <1>4, <1>5, <1>6, <2>1, <2>2, CategoryInserted
  <1>9. CASE RenameCategory(w) /\ ~Answer(w)
    <2>1. r.name \in Names
      BY <1>1, <1>2, <1>5, <1>9, RequestsAssumption DEF RenameCategory, Serves
    <2>2. PICK fields : fields = [name |-> r.name]
      OBVIOUS
    <2>3. SaveCategory(w, id, fields) /\ tx[w].cat[id] # None
      BY <1>1, <1>2, <1>3, <1>9, <2>2 DEF RenameCategory, Live
    <2>4. /\ DOMAIN fields = {"name"} /\ fields["name"] \in CategoryColumn["name"]
      BY <2>1, <2>2 DEF CategoryColumn
    <2>5. /\ DOMAIN fields \subseteq {"name", "deleted"} /\ "deleted" \notin DOMAIN fields
          /\ \A f \in DOMAIN fields : fields[f] \in CategoryColumn[f]
      BY <2>4
    <2> QED BY <1>4, <1>5, <1>6, <2>3, <2>5, SaveCategoryGood
  <1>10. CASE DeleteCategory(w) /\ ~Answer(w)
    <2>1. DropCategory(w, id) /\ tx[w].cat[id] # None
      BY <1>1, <1>2, <1>3, <1>10 DEF DeleteCategory, Live
    <2> QED BY <1>4, <1>5, <1>6, <2>1, DropCategoryGood
  <1>11. CASE SyncCategoryState(w) /\ ~Answer(w)
    <2>1. r.name \in Names /\ r.ts \in Nat /\ r.deleted \in BOOLEAN
      BY <1>1, <1>2, <1>5, <1>11, RequestsAssumption DEF SyncCategoryState, Serves
    <2>2. PICK verdict : verdict = Verdict(t.cat[id], r, Taken(t.cat, "name", r.name, id))
      OBVIOUS
    <2>3. /\ verdict \in {"no_change", "conflict", "created", "updated", "deleted"}
          /\ verdict \in {"updated", "deleted"} => t.cat[id] # None
      <3>1. Taken(t.cat, "name", r.name, id) \in BOOLEAN
        BY DEF Taken
      <3> QED BY <2>1, <2>2, <3>1, VerdictMeans
    <2>4. /\ verdict \notin {"no_change", "conflict"}
          /\ CASE verdict = "deleted" -> DropCategory(w, id)
               [] verdict = "updated" ->
                    SaveCategory(w, id, [name |-> r.name, deleted |-> FALSE])
               [] verdict = "created" ->
                    Save(w, prod, InsertCategory(t, id, r.name, r.ts), img, moves)
      BY <1>1, <1>2, <1>3, <1>11, <2>2 DEF SyncCategoryState
    <2>5. CASE verdict = "deleted"
      <3>1. DropCategory(w, id) /\ tx[w].cat[id] # None
        BY <1>1, <2>3, <2>4, <2>5
      <3> QED BY <1>4, <1>5, <1>6, <3>1, DropCategoryGood
    <2>6. CASE verdict = "updated"
      <3>1. PICK fields : fields = [name |-> r.name, deleted |-> FALSE]
        OBVIOUS
      <3>2. SaveCategory(w, id, fields) /\ tx[w].cat[id] # None
        BY <1>1, <2>3, <2>4, <2>6, <3>1
      <3>3. /\ DOMAIN fields = {"name", "deleted"} /\ fields["deleted"] = FALSE
            /\ fields["name"] \in CategoryColumn["name"]
            /\ fields["deleted"] \in CategoryColumn["deleted"]
        BY <2>1, <3>1 DEF CategoryColumn
      <3>4. \A f \in DOMAIN fields : fields[f] \in CategoryColumn[f]
        BY <3>3
      <3> QED BY <1>4, <1>5, <1>6, <3>2, <3>3, <3>4, SaveCategoryGood
    <2>7. CASE verdict = "created"
      <3>1. Save(w, prod, InsertCategory(tx[w], id, r.name, r.ts), img, moves)
        BY <1>1, <2>4, <2>7
      <3> QED BY <1>4, <1>5, <1>6, <2>1, <3>1, CategoryInserted
    <2> QED BY <2>3, <2>4, <2>5, <2>6, <2>7
  <1> QED  BY <1>7, <1>8, <1>9, <1>10, <1>11

\* The lines an import keeps: each has an id of its own, drawn by the request,
\* and a barcode of its own.
LEMMA KeptLines ==
  ASSUME CatalogueInv, NEW w \in Workers, tx[w] # None, NEW t, t = tx[w],
         t.req.route \in {"create", "bulk"}
  PROVE  /\ \A item \in Kept(t) :
               /\ IsLine(item) /\ Usable(t, item) /\ item.id \in Products
               /\ prod[item.id] = None /\ item.id \in Drawn(t.req)
         /\ \A a, b \in Kept(t) : a.id = b.id => a = b
         /\ \A a, b \in Kept(t) : a # b /\ a.fields.barcode # None =>
               a.fields.barcode # b.fields.barcode
  <1>1. PICK items : items = t.req.items
    OBVIOUS
  <1>2. t.req \in Requests
    BY SessionFields DEF CatalogueInv
  <1>3. /\ items = [k \in 1..Len(items) |-> items[k]] /\ Len(items) \in Nat
        /\ \A k \in 1..Len(items) : items[k] = Malformed \/ IsLine(items[k])
        /\ \A j, k \in 1..Len(items) : j # k =>
              Malformed \in {items[j], items[k]} \/ items[j].id # items[k].id
    BY <1>1, <1>2, RequestsAssumption
  <1>4. DOMAIN items = 1..Len(items)
    BY <1>3
  <1>5. ASSUME NEW item \in Kept(t)
        PROVE  \E k \in 1..Len(items) :
                  /\ items[k] = item /\ Usable(t, item)
                  /\ \A j \in 1..(k - 1) : Usable(t, items[j]) =>
                        items[j].fields.barcode \notin {item.fields.barcode} \ {None}
    BY <1>1, <1>4, <1>5 DEF Kept
  <1>6. ASSUME NEW item \in Kept(t)
        PROVE  /\ IsLine(item) /\ Usable(t, item) /\ item.id \in Products
               /\ prod[item.id] = None /\ item.id \in Drawn(t.req)
    <2>1. PICK k \in 1..Len(items) : items[k] = item /\ Usable(t, item)
      BY <1>5
    <2>2. item # Malformed
      BY <2>1 DEF Usable, Parses
    <2>3. IsLine(item)
      BY <1>3, <2>1, <2>2
    <2>4. item \in ToSet(t.req.items) \ {Malformed}
      BY <1>1, <1>4, <2>1, <2>2 DEF ToSet
    <2>5. item.id \in Drawn(t.req)
      BY <2>4 DEF Drawn
    <2>6. prod[item.id] = None
      BY <2>5 DEF CatalogueInv, SessionInv
    <2> QED BY <2>1, <2>3, <2>5, <2>6 DEF IsLine
  <1>7. ASSUME NEW a \in Kept(t), NEW b \in Kept(t), a.id = b.id
        PROVE  a = b
    <2>1. PICK j \in 1..Len(items) : items[j] = a /\ Usable(t, a)
      BY <1>5
    <2>2. PICK k \in 1..Len(items) : items[k] = b /\ Usable(t, b)
      BY <1>5
    <2>3. a # Malformed /\ b # Malformed
      BY <2>1, <2>2 DEF Usable, Parses
    <2> QED BY <1>3, <1>7, <2>1, <2>2, <2>3
  <1>8. ASSUME NEW a \in Kept(t), NEW b \in Kept(t), a # b, a.fields.barcode # None
        PROVE  a.fields.barcode # b.fields.barcode
    <2>1. PICK j \in 1..Len(items) :
            /\ items[j] = a /\ Usable(t, a)
            /\ \A x \in 1..(j - 1) : Usable(t, items[x]) =>
                  items[x].fields.barcode \notin {a.fields.barcode} \ {None}
      BY <1>5
    <2>2. PICK k \in 1..Len(items) :
            /\ items[k] = b /\ Usable(t, b)
            /\ \A x \in 1..(k - 1) : Usable(t, items[x]) =>
                  items[x].fields.barcode \notin {b.fields.barcode} \ {None}
      BY <1>5
    <2>3. j # k
      BY <1>8, <2>1, <2>2
    <2>4. CASE j < k
      <3>1. j \in 1..(k - 1)
        BY <1>3, <2>4
      <3> QED BY <1>8, <2>1, <2>2, <3>1
    <2>5. CASE k < j
      <3>1. k \in 1..(j - 1)
        BY <1>3, <2>5
      <3> QED BY <1>8, <2>1, <2>2, <3>1
    <2> QED BY <1>3, <2>3, <2>4, <2>5
  <1> QED  BY <1>6, <1>7, <1>8

\* The row of a kept line.
LEMMA ImportedRow ==
  ASSUME CatalogueInv, NEW w \in Workers, tx[w] # None, NEW t, t = tx[w],
         t.req.route \in {"create", "bulk"}, NEW item \in Kept(t), NEW row,
         row = Inserted(ResolveForProduct(t.cat, item.fields), t.at, t.at)
  PROVE  /\ LineOf(t, item.id) = item
         /\ Imported(t).prod[item.id] = row
         /\ Imported(t).moves[item.id] = FirstMovements(row.stock)
         /\ row \in ProductRow /\ ~row.deleted /\ row.image = None /\ row.updated = t.at
         /\ row.barcode = item.fields.barcode
         /\ LinkGood(t, row, None, cat)
  <1>1. /\ IsLine(item) /\ item.id \in Products
        /\ \A a, b \in Kept(t) : a.id = b.id => a = b
    BY KeptLines
  <1>2. LineOf(t, item.id) = item
    BY <1>1 DEF LineOf
  <1>3. PICK fields : fields = ResolveForProduct(t.cat, item.fields)
    OBVIOUS
  <1>4. TypeOK /\ t.at \in Nat
    BY SessionFields DEF CatalogueInv
  <1>5. IsFields(item.fields) /\ DOMAIN item.fields = {"name", "barcode", "stock", "category"}
    BY <1>1 DEF IsLine, Column
  <1>6. /\ Payload(t, fields) /\ DOMAIN fields = DOMAIN item.fields
        /\ \A f \in DOMAIN item.fields \ {"category"} : fields[f] = item.fields[f]
    BY <1>3, <1>4, <1>5, ResolvedPayload
  <1>7. IsNew(Inserted(fields, t.at, t.at), fields, t.at, t.at)
    BY <1>4, <1>5, <1>6, InsertedRow
  <1>8. /\ row \in ProductRow /\ row.deleted = FALSE /\ row.image = None
        /\ row.barcode = fields["barcode"] /\ row.stock = fields["stock"]
        /\ row.updated = t.at /\ row.category = fields["category"]
    BY <1>3, <1>5, <1>6, <1>7 DEF IsNew
  <1>9. LinkGood(t, row, None, cat)
    BY <1>5, <1>6, <1>8 DEF LinkGood, Payload
  <1>10. row.barcode = item.fields.barcode
    BY <1>5, <1>6, <1>8
  <1>11. item.id \in {x.id : x \in Kept(t)}
    OBVIOUS
  <1>12. Imported(t).prod[item.id] = row
    BY <1>1, <1>2, <1>11 DEF Imported
  <1>13. Imported(t).moves[item.id] = FirstMovements(row.stock)
    BY <1>1, <1>2, <1>3, <1>8, <1>11 DEF Imported
  <1> QED  BY <1>2, <1>8, <1>9, <1>10, <1>12, <1>13

\* Every row an import ends with: one of a kept line, or as it was.
LEMMA ImportedRows ==
  ASSUME NEW t
  PROVE  /\ Imported(t).prod = [q \in Products |-> Imported(t).prod[q]]
         /\ Imported(t).moves = [q \in Products |-> Imported(t).moves[q]]
         /\ \A q \in Products :
               \/ \E item \in Kept(t) : item.id = q
               \/ Imported(t).prod[q] = prod[q] /\ Imported(t).moves[q] = moves[q]
  BY DEF Imported

\* POST /products and the imports.
LEMMA ImportGood ==
  ASSUME CatalogueInv, NEW w \in Workers, CreateProduct(w) \/ CreateProductsBulk(w)
  PROVE  Outcome(w) /\ Good(tx[w], Imported(tx[w]).prod, cat, img, Imported(tx[w]).moves)
  <1>1. PICK t : t = tx[w]
    OBVIOUS
  <1>2. PICK p : p = Imported(t).prod
    OBVIOUS
  <1>3. PICK m : m = Imported(t).moves
    OBVIOUS
  <1>4. tx[w] # None /\ t.req.route \in {"create", "bulk"} /\ Save(w, p, cat, img, m)
    BY <1>1, <1>2, <1>3 DEF CreateProduct, CreateProductsBulk, Serves
  <1>5. /\ p = [q \in Products |-> p[q]] /\ m = [q \in Products |-> m[q]]
        /\ \A q \in Products :
              \/ \E item \in Kept(t) : item.id = q
              \/ p[q] = prod[q] /\ m[q] = moves[q]
    BY <1>2, <1>3, ImportedRows
  <1>6. ASSUME NEW q \in Products
        PROVE  SameRow(q, p, img, m) \/ NewRow(t, q, p, cat, img, m)
    <2>1. CASE p[q] = prod[q] /\ m[q] = moves[q]
      BY <2>1 DEF SameRow
    <2>2. ASSUME NEW item \in Kept(t), item.id = q
          PROVE  NewRow(t, q, p, cat, img, m)
      <3>1. prod[q] = None /\ q \in Drawn(t.req)
        BY <1>1, <1>4, <2>2, KeptLines
      <3>2. PICK row : row = Inserted(ResolveForProduct(t.cat, item.fields), t.at, t.at)
        OBVIOUS
      <3>3. /\ p[q] = row /\ m[q] = FirstMovements(row.stock)
            /\ row \in ProductRow /\ ~row.deleted /\ row.image = None /\ row.updated = t.at
            /\ LinkGood(t, row, None, cat)
        BY <1>1, <1>2, <1>3, <1>4, <2>2, <3>2, ImportedRow
      <3>4. img[q] = None
        BY <3>1 DEF CatalogueInv, MovesInv
      <3> QED BY <3>1, <3>3, <3>4 DEF NewRow
    <2> QED BY <1>5, <2>1, <2>2
  <1>7. \A k \in Categories : CategoryGood(t, k, p, cat)
    BY DEF CatalogueInv, TypeOK, CategoryGood
  <1>8. RequestGood(t, p, m)
    BY <1>4 DEF RequestGood
  <1>9. Good(t, p, cat, img, m)
    <2>1. cat = [k \in Categories |-> cat[k]] /\ img = [q \in Products |-> img[q]]
      BY Tables DEF CatalogueInv
    <2> QED BY <1>5, <1>6, <1>7, <1>8, <2>1 DEF Good
  <1> QED  BY <1>1, <1>2, <1>3, <1>4, <1>9 DEF Outcome

-----------------------------------------------------------------------------
(* The theorems                                                            *)

\* The empty catalogue satisfies the invariant.
LEMMA InitInv == Init => CatalogueInv
  <1> SUFFICES ASSUME Init
               PROVE  CatalogueInv
    OBVIOUS
  <1>1. TypeOK
    <2>1. moves \in [Products -> Seq(Movement)]
      BY DEF Init
    <2> QED BY <2>1, ClockAssumption DEF Init, TypeOK
  <1>3. MovesInv /\ SessionInv /\ StampInv
    BY DEF Init, MovesInv, SessionInv, StampInv
  <1>4. StockFollowsMovements /\ NoLinkToDeleted /\ ImageMatchesVersion
    BY DEF Init, StockFollowsMovements, NoLinkToDeleted, ImageMatchesVersion, VersionIsImage
  <1> QED  BY <1>1, <1>3, <1>4 DEF CatalogueInv

\* A transaction that opens sees rows that are there, and draws ids of its own.
LEMMA BeginKeeps ==
  ASSUME CatalogueInv, NEW w \in Workers, NEW r \in Requests, Begin(w, r)
  PROVE  CatalogueInv'
  <1>1. /\ prod' = prod /\ cat' = cat /\ img' = img /\ moves' = moves
        /\ by' = by /\ raced' = raced
        /\ clock' = clock + Tick /\ sends' = sends + 1 /\ sends < MaxSends
        /\ tx[w] = None /\ Fresh(r)
    BY DEF Begin, tables, history
  <1>2. PICK t : t = [req |-> r, at |-> clock', prod |-> prod, cat |-> cat, image |-> {}]
    OBVIOUS
  <1>3. TypeOK
    BY DEF CatalogueInv
  <1>4. clock' \in Nat
    BY <1>1, <1>3, ClockAssumption DEF TypeOK
  <1>5. t \in Session
    BY <1>2, <1>3, <1>4 DEF Session, TypeOK
  <1>6. /\ tx' = [tx EXCEPT ![w] = t]
        /\ t.req = r /\ t.prod = prod /\ t.cat = cat
    BY <1>2 DEF Begin
  <1>7. /\ tx' \in [Workers -> Session \cup {None}] /\ tx'[w] = t
        /\ \A v \in Workers : v # w => tx'[v] = tx[v]
    BY <1>3, <1>5, <1>6 DEF TypeOK
  <1>8. TypeOK'
    <2>1. sends' \in 0..MaxSends
      BY <1>1, <1>3, ClockAssumption DEF TypeOK
    <2> QED BY <1>1, <1>3, <1>4, <1>7, <2>1 DEF TypeOK
  <1>9. MovesInv'
    BY <1>1 DEF CatalogueInv, MovesInv
  <1>10. SessionInv'
    <2>1. ASSUME NEW v \in Workers, tx'[v] # None
          PROVE  /\ \A q \in Products : tx'[v].prod[q] # None => prod[q] # None
                 /\ \A k \in Categories : tx'[v].cat[k] # None => cat[k] # None
                 /\ \A q \in Drawn(tx'[v].req) : prod[q] = None
                 /\ \A u \in Workers \ {v} : tx'[u] # None =>
                       Drawn(tx'[u].req) \cap Drawn(tx'[v].req) = {}
      <3>1. CASE v = w
        <4>2. \A q \in Drawn(r) : prod[q] = None
          BY <1>1 DEF Fresh
        <4>3. \A u \in Workers \ {w} : tx'[u] # None => Drawn(tx'[u].req) \cap Drawn(r) = {}
          BY <1>1, <1>7 DEF Fresh
        <4> QED BY <1>6, <1>7, <3>1, <4>2, <4>3
      <3>2. CASE v # w
        <4>1. tx'[v] = tx[v] /\ tx[v] # None
          BY <1>7, <2>1, <3>2
        <4>2. /\ \A q \in Products : tx[v].prod[q] # None => prod[q] # None
              /\ \A k \in Categories : tx[v].cat[k] # None => cat[k] # None
              /\ \A q \in Drawn(tx[v].req) : prod[q] = None
              /\ \A u \in Workers \ {v} : tx[u] # None =>
                    Drawn(tx[u].req) \cap Drawn(tx[v].req) = {}
          BY <4>1 DEF CatalogueInv, SessionInv
        <4>3. ASSUME NEW u \in Workers \ {v}, tx'[u] # None
              PROVE  Drawn(tx'[u].req) \cap Drawn(tx[v].req) = {}
          <5>1. CASE u = w
            <6>1. Drawn(tx[v].req) \cap Drawn(r) = {}
              BY <1>1, <4>1 DEF Fresh
            <6> QED BY <1>6, <1>7, <5>1, <6>1
          <5>2. CASE u # w
            BY <1>7, <4>2, <4>3, <5>2
          <5> QED BY <5>1, <5>2
        <4> QED BY <4>1, <4>2, <4>3
      <3> QED BY <3>1, <3>2
    <2> QED BY <1>1, <2>1 DEF SessionInv
  <1>11. StampInv'
    BY <1>1 DEF CatalogueInv, StampInv
  <1>12. StockFollowsMovements' /\ NoLinkToDeleted' /\ ImageMatchesVersion'
    BY <1>1 DEF CatalogueInv, StockFollowsMovements, NoLinkToDeleted, ImageMatchesVersion,
       VersionIsImage, Members
  <1> QED  BY <1>8, <1>9, <1>10, <1>11, <1>12 DEF CatalogueInv

\* The image is read: only the session knows.
LEMMA LoadKeeps ==
  ASSUME CatalogueInv, NEW w \in Workers, LoadImage(w)
  PROVE  CatalogueInv' /\ \A v \in Workers : tx'[v] = None <=> tx[v] = None
  <1>1. /\ prod' = prod /\ cat' = cat /\ img' = img /\ moves' = moves /\ clock' = clock
        /\ sends' = sends /\ by' = by /\ raced' = raced
        /\ tx[w] # None /\ tx[w].req.route \in {"image", "unimage"}
        /\ tx' = [tx EXCEPT ![w].image = {img[tx[w].req.id]}]
    BY DEF LoadImage, Serves, tables, history
  <1>2. TypeOK
    BY DEF CatalogueInv
  <1>3. PICK t : t = [tx[w] EXCEPT !.image = {img[tx[w].req.id]}]
    OBVIOUS
  <1>4. img[tx[w].req.id] \in Shas \cup {None}
    <2>1. tx[w].req \in Requests
      BY <1>1, <1>2, SessionFields
    <2>2. tx[w].req.id \in Products
      BY <1>1, <2>1, RequestsAssumption
    <2> QED BY <1>2, <2>2 DEF TypeOK
  <1>5. /\ t \in Session
        /\ t.req = tx[w].req /\ t.prod = tx[w].prod /\ t.cat = tx[w].cat
    <2>1. tx[w] \in Session
      BY <1>1, <1>2, SessionFields
    <2> QED BY <1>3, <1>4, <2>1 DEF Session
  <1>6. t # None
    BY <1>5, NoneAssumption
  <1>7. /\ tx' \in [Workers -> Session \cup {None}] /\ tx'[w] = t
        /\ \A v \in Workers : v # w => tx'[v] = tx[v]
    BY <1>1, <1>2, <1>3, <1>5 DEF TypeOK
  <1>8. TypeOK'
    BY <1>1, <1>2, <1>7 DEF TypeOK
  <1>9. MovesInv' /\ StampInv'
    BY <1>1 DEF CatalogueInv, MovesInv, StampInv
  <1>10. SessionInv'
    <2>1. \A v \in Workers : tx'[v] # None =>
            /\ tx[v] # None /\ tx'[v].req = tx[v].req
            /\ tx'[v].prod = tx[v].prod /\ tx'[v].cat = tx[v].cat
      BY <1>1, <1>5, <1>7
    <2>2. SessionInv
      BY DEF CatalogueInv
    <2> QED BY <1>1, <2>1, <2>2, SMTT(30) DEF SessionInv
  <1>11. StockFollowsMovements' /\ NoLinkToDeleted' /\ ImageMatchesVersion'
    BY <1>1 DEF CatalogueInv, StockFollowsMovements, NoLinkToDeleted, ImageMatchesVersion,
       VersionIsImage, Members
  <1> QED  BY <1>1, <1>6, <1>7, <1>8, <1>9, <1>10, <1>11 DEF CatalogueInv

\* However a route ends, the invariant holds.
LEMMA OutcomeKeeps ==
  ASSUME CatalogueInv, NEW w \in Workers, tx[w] # None, Outcome(w)
  PROVE  CatalogueInv'
  <1>1. CASE Answer(w)
    BY <1>1, ClosedKeeps DEF Answer, history
  <1>2. CASE \E p, c, i, m : Save(w, p, c, i, m) /\ Good(tx[w], p, c, i, m)
    BY <1>2, SavedKeeps
  <1> QED  BY <1>1, <1>2 DEF Outcome

\* The steps of a session but Begin and LoadImage: a route.
Route(w) ==
    \/ CreateProduct(w) \/ CreateProductsBulk(w) \/ UpdateProduct(w) \/ DeleteProduct(w)
    \/ UploadImage(w) \/ DeleteImage(w) \/ ManualAdjustment(w) \/ SoldOrReturned(w)
    \/ CreateCategory(w) \/ RenameCategory(w) \/ DeleteCategory(w)
    \/ SyncProductState(w) \/ SyncCategoryState(w)

\* Every route refuses, or commits what is good.
LEMMA RouteGood ==
  ASSUME CatalogueInv, NEW w \in Workers, Route(w)
  PROVE  tx[w] # None /\ Outcome(w)
  <1>1. tx[w] # None
    BY DEF Route, Serves, CreateProduct, CreateProductsBulk, UpdateProduct, DeleteProduct,
       UploadImage, DeleteImage, ManualAdjustment, SoldOrReturned, CreateCategory,
       RenameCategory, DeleteCategory, SyncProductState, SyncCategoryState
  <1> QED  BY <1>1, ImportGood, UpdateProductGood, DeleteProductGood, UploadImageGood,
       DeleteImageGood, ManualAdjustmentGood, SoldOrReturnedGood, CategoryRoutesGood,
       SyncProductStateGood DEF Route

\* Every step keeps the invariant.
LEMMA NextKeeps == CatalogueInv /\ [Next]_vars => CatalogueInv'
  <1> SUFFICES ASSUME CatalogueInv, [Next]_vars
               PROVE  CatalogueInv'
    OBVIOUS
  <1>1. ASSUME NEW w \in Workers, NEW r \in Requests, Begin(w, r)
        PROVE  CatalogueInv'
    BY <1>1, BeginKeeps
  <1>2. ASSUME NEW w \in Workers, Route(w)
        PROVE  CatalogueInv'
    BY <1>2, RouteGood, OutcomeKeeps
  <1>4. ASSUME NEW w \in Workers, LoadImage(w)
        PROVE  CatalogueInv'
    BY <1>4, LoadKeeps
  <1>3. CASE UNCHANGED vars
    <2>1. /\ prod' = prod /\ cat' = cat /\ img' = img /\ moves' = moves /\ clock' = clock
          /\ sends' = sends /\ tx' = tx /\ by' = by /\ raced' = raced
      BY <1>3 DEF vars, tables
    <2>2. TypeOK' /\ MovesInv' /\ SessionInv' /\ StampInv'
      <3>1. TypeOK /\ MovesInv /\ SessionInv /\ StampInv
        BY DEF CatalogueInv
      <3>2. TypeOK'
        BY <2>1, <3>1 DEF TypeOK
      <3>3. MovesInv'
        BY <2>1, <3>1 DEF MovesInv
      <3>4. SessionInv'
        BY <2>1, <3>1 DEF SessionInv
      <3>5. StampInv'
        BY <2>1, <3>1 DEF StampInv
      <3> QED BY <3>2, <3>3, <3>4, <3>5
    <2>4. StockFollowsMovements' /\ NoLinkToDeleted' /\ ImageMatchesVersion'
      BY <2>1 DEF CatalogueInv, StockFollowsMovements, NoLinkToDeleted, Members,
         ImageMatchesVersion, VersionIsImage
    <2> QED BY <2>2, <2>4 DEF CatalogueInv
  <1> QED  BY <1>1, <1>2, <1>3, <1>4 DEF Next, Route

\* The inductive invariant: the types and the three invariants, with what they
\* rest on. Rows do not go away, the ids a session has drawn are its own, and a
\* row carries the time and the fields of its last request.
THEOREM CatalogueSafe == Spec => []CatalogueInv
  BY InitInv, NextKeeps, PTL DEF Spec

\* The invariant gives the properties TLC checks.
LEMMA InvImplies ==
  CatalogueInv => /\ TypeOK /\ StockFollowsMovements /\ NoLinkToDeleted
                  /\ ImageMatchesVersion
  BY DEF CatalogueInv

\* The tables hold rows of their columns, the ledger movements, and an open
\* transaction a request with the rows it has read, whatever is sent.
THEOREM CatalogueTyped == Spec => []TypeOK
  BY CatalogueSafe, InvImplies, PTL

\* The stock of a product is the result of its last movement and each result
\* follows from the one before, unless a request wrote over a stock it had not
\* seen (record_catalog_update, manual_adjustment, adjust_stock).
THEOREM StockExplained == Spec => []StockFollowsMovements
  BY CatalogueSafe, InvImplies, PTL

\* A deleted category has no product, unless the link and the deletion were
\* written without seeing each other (resolve_for_product,
\* soft_delete_and_detach_products).
THEOREM NoDeadLink == Spec => []NoLinkToDeleted
  BY CatalogueSafe, InvImplies, PTL

\* image_version is the version of the image that is stored, and empty when
\* there is none, as long as no request read the product before and its image
\* after a change of it (PUT and DELETE image: two SELECTs, one commit).
THEOREM ImagesMatch == Spec => []ImageMatchesVersion
  BY CatalogueSafe, InvImplies, PTL

-----------------------------------------------------------------------------
(* What a commit may never do                                              *)

\* A session that closes has run its route.
LEMMA CommitRoute ==
  ASSUME CatalogueInv, [Next]_vars, NEW w \in Workers, Commits(w)
  PROVE  Route(w) /\ Outcome(w) /\ tx[w] # None
  <1>1. tx[w] # None /\ tx'[w] = None /\ tx \in [Workers -> Session \cup {None}]
    BY DEF Commits, CatalogueInv, TypeOK
  <1>2. ASSUME NEW v \in Workers, NEW r \in Requests, Begin(v, r)
        PROVE  FALSE
    <2>1. v # w
      BY <1>1, <1>2 DEF Begin
    <2>2. tx'[w] = tx[w]
      BY <1>1, <1>2, <2>1 DEF Begin
    <2> QED BY <1>1, <2>2
  <1>3. ASSUME NEW v \in Workers, Route(v)
        PROVE  Route(w)
    <2>1. Close(v)
      BY <1>3, RouteGood DEF Outcome, Answer, Save
    <2>2. v # w => tx'[w] = tx[w]
      BY <1>1, <2>1 DEF Close
    <2> QED BY <1>1, <1>3, <2>2
  <1>4. ~UNCHANGED vars
    BY <1>1 DEF vars
  <1>6. ASSUME NEW v \in Workers, LoadImage(v)
        PROVE  FALSE
    BY <1>1, <1>6, LoadKeeps
  <1>5. Route(w)
    BY <1>2, <1>3, <1>4, <1>6 DEF Next, Route
  <1> QED  BY <1>1, <1>5, RouteGood

\* What it leaves of one product: the row as it was, or that of a good commit.
LEMMA CommitRow ==
  ASSUME CatalogueInv, NEW w \in Workers, Outcome(w)
  PROVE  \/ prod' = prod /\ moves' = moves
         \/ \E p, c, i, m : Good(tx[w], p, c, i, m) /\ prod' = p /\ moves' = m
  <1>1. CASE Answer(w)
    BY <1>1 DEF Answer, tables
  <1>2. CASE \E p, c, i, m : Save(w, p, c, i, m) /\ Good(tx[w], p, c, i, m)
    <2>1. PICK p, c, i, m : Save(w, p, c, i, m) /\ Good(tx[w], p, c, i, m)
      BY <1>2
    <2>2. (prod' = p /\ moves' = m) \/ (prod' = prod /\ moves' = moves)
      BY <2>1 DEF Save, tables
    <2> QED BY <2>1, <2>2
  <1> QED  BY <1>1, <1>2 DEF Outcome

\* Last write wins: a PUT that has seen the row replaces it only with a later
\* edit than the one it carries (sync service, _client_wins).
THEOREM LastWriteWins == Spec => NewerEditWins
  <1>1. ASSUME CatalogueInv, [Next]_vars, NEW w \in Workers, Commits(w),
               tx[w].req.route = "put", NEW q, q = tx[w].req.id,
               by[q] # None, by[q].req.route = "put", by[q].req.ts <= by[q].at,
               tx[w].prod[q] = prod[q], Content(prod'[q]) # Content(prod[q])
        PROVE  tx[w].req.ts > by[q].req.ts
    <2>1. Outcome(w) /\ tx[w] # None
      BY <1>1, CommitRoute
    <2>2. tx[w].req \in Requests
      BY <1>1, <2>1, SessionFields DEF CatalogueInv
    <2>3. q \in Products /\ tx[w].req.ts \in Nat
      BY <1>1, <2>2, RequestsAssumption
    <2>4. /\ by[q].req \in Requests /\ prod[q] # None
          /\ prod[q].updated = by[q].at \/ prod[q].updated = by[q].req.ts
      BY <1>1, <2>3 DEF CatalogueInv, StampInv
    <2>5. by[q].req.ts \in Nat
      BY <1>1, <2>4, RequestsAssumption
    <2>6. prod[q].updated \in Nat
      BY <1>1, <2>3, <2>4, RowFields DEF CatalogueInv, TypeOK
    <2>7. prod'[q] # prod[q]
      BY <1>1
    <2>8. PICK p, c, i, m : Good(tx[w], p, c, i, m) /\ prod' = p /\ moves' = m
      BY <1>1, <2>1, <2>7, CommitRow
    <2>9. RequestGood(tx[w], p, m)
      BY <2>8 DEF Good
    <2>10. tx[w].req.ts > prod[q].updated
      BY <1>1, <2>4, <2>7, <2>8, <2>9 DEF RequestGood
    <2>11. by[q].req.ts <= prod[q].updated
      BY <1>1, <2>4, <2>5
    <2> QED BY <2>3, <2>5, <2>6, <2>10, <2>11
  <1>2. ASSUME CatalogueInv, [Next]_vars
        PROVE  [\A w \in Workers : Commits(w) /\ tx[w].req.route = "put" =>
                 LET p == tx[w].req.id IN
                 /\ by[p] # None /\ by[p].req.route = "put" /\ by[p].req.ts <= by[p].at
                 /\ tx[w].prod[p] = prod[p] /\ Content(prod'[p]) # Content(prod[p])
                 => tx[w].req.ts > by[p].req.ts]_vars
    BY <1>1, <1>2
  <1> QED  BY <1>2, CatalogueSafe, PTL DEF Spec, NewerEditWins

\* A PUT or PATCH sent again because its answer was lost leaves the row as it
\* was, but for the link to a category, and records no movement, unless another
\* request has written the product or two on it overlapped.
THEOREM RetryQuiet == Spec => RetryIsQuiet
  <1>1. ASSUME CatalogueInv, [Next]_vars, NEW w \in Workers, Commits(w),
               tx[w].req.route \in {"put", "patch"}, NEW q, q = tx[w].req.id,
               by[q] # None, by[q].req = tx[w].req,
               tx[w].prod[q] = prod[q], <<q, "row">> \notin raced
        PROVE  Unlinked(prod'[q]) = Unlinked(prod[q]) /\ moves'[q] = moves[q]
    <2>1. Outcome(w) /\ tx[w] # None
      BY <1>1, CommitRoute
    <2>2. tx[w].req \in Requests
      BY <1>1, <2>1, SessionFields DEF CatalogueInv
    <2>3. q \in Products
      BY <1>1, <2>2, RequestsAssumption
    <2>4. prod[q] # None /\ Applied(tx[w].req, prod[q])
      BY <1>1, <2>3 DEF CatalogueInv, StampInv
    <2>5. CASE prod' = prod /\ moves' = moves
      BY <2>5
    <2>6. ASSUME NEW p, NEW c, NEW i, NEW m, Good(tx[w], p, c, i, m), prod' = p, moves' = m
          PROVE  Unlinked(prod'[q]) = Unlinked(prod[q]) /\ moves'[q] = moves[q]
      <3>1. RequestGood(tx[w], p, m)
        BY <2>6 DEF Good
      <3>2. Unlinked(p[q]) = Unlinked(prod[q]) /\ m[q] = moves[q]
        BY <1>1, <2>4, <3>1 DEF RequestGood
      <3> QED BY <2>6, <3>2
    <2> QED BY <1>1, <2>1, <2>5, <2>6, CommitRow
  <1>2. ASSUME CatalogueInv, [Next]_vars
        PROVE  [\A w \in Workers : Commits(w) /\ tx[w].req.route \in {"put", "patch"} =>
                 LET p == tx[w].req.id IN
                 /\ by[p] # None /\ by[p].req = tx[w].req
                 /\ tx[w].prod[p] = prod[p] /\ <<p, "row">> \notin raced
                 => Unlinked(prod'[p]) = Unlinked(prod[p]) /\ moves'[p] = moves[p]]_vars
    BY <1>1, <1>2
  <1> QED  BY <1>2, CatalogueSafe, PTL DEF Spec, RetryIsQuiet
==============================================================================
