----------------------------- MODULE ChangesPull -----------------------------
(***************************************************************************)
(* GET /sync/changes: a phone brings its copy of the store up to date while *)
(* other devices write.  A pull is a chain of pages, a page is one query    *)
(* per phase (categories, products, sales, returns) until it is full, and   *)
(* other transactions commit between two queries.                           *)
(*                                                                          *)
(* A row is sorted by updated_at or synced_at, which is the start of the    *)
(* transaction that wrote it, or the clock of a phone for a row a phone     *)
(* created (the triggers only stamp updates).  What the columns hold is     *)
(* `by', the transaction that wrote them last.                              *)
(***************************************************************************)
EXTENDS Integers, FiniteSets

CONSTANTS Categories, Products, Sales, Returns,  \* the ids of rows, numbers: they are compared
          Limit,        \* rows of a page
          PhoneTimes,   \* what the clock of a phone may say
          MaxWrites,    \* bound: writing transactions
          MaxLost,      \* bound: pages lost, pulls given up
          None

Rows == Categories \cup Products \cup Sales \cup Returns

VARIABLES db,                  \* the committed rows
          open,                \* the start times of the transactions that write
          clock,
          page,                \* the page the server is making, or None
          copy,                \* the phone: the rows it has
          since, first, cursor, \* the phone: last pull, server_time of this one, next page
          lost,
          late,                \* history: rows committed under a server_time already given
          fresh                \* history: rows committed after the pull asked for their phase

writing == <<db, open, clock>>
phone == <<copy, since, first, cursor>>
vars == <<db, open, clock, page, copy, since, first, cursor, lost, late, fresh>>

\* _PHASES: the order in which a pull asks.  Mutant: products before categories.
Phases_ProductsFirst == <<Products, Categories, Sales, Returns>>

Phases == <<Categories, Products, Sales, Returns>>

Row == [by: Nat, ts: Nat, gone: Nat \cup {None}, link: Rows \cup {None}]

Cursor == [phase: 1..4, after: (Nat \X Rows) \cup {None}]

Start == [phase |-> 1, after |-> None]

\* Ids are unique in the whole database (uuid4), and there are finitely many.
ASSUME PullAssumption ==
    /\ Rows \subseteq Nat /\ IsFiniteSet(Rows) /\ None \notin Nat \cup Cursor \cup Row
    /\ \A j, k \in 1..4 : j # k => Phases[j] \cap Phases[k] = {}
    /\ Limit \in Nat \ {0} /\ PhoneTimes \subseteq Nat
    /\ MaxWrites \in Nat /\ MaxLost \in Nat

TypeOK ==
    /\ db \in [Rows -> Row \cup {None}] /\ copy \in [Rows -> Row \cup {None}]
    /\ clock \in Nat /\ open \subseteq 1..clock
    /\ {since, first} \subseteq Nat \cup {None}
    /\ cursor \in Cursor /\ lost \in 0..MaxLost /\ late \subseteq Rows /\ fresh \subseteq Rows
    /\ page # None =>
          /\ page.at \in 0..clock /\ page.left \in 0..Limit
          /\ page.pos \in Cursor /\ page.next \in Cursor \cup {None}
          /\ \A r \in DOMAIN page.rows : r \in Rows /\ page.rows[r] \in Row

Init ==
    /\ db = [r \in Rows |-> None] /\ copy = [r \in Rows |-> None]
    /\ open = {} /\ clock = 0
    /\ page = None /\ since = None /\ first = None /\ cursor = Start
    /\ lost = 0 /\ late = {} /\ fresh = {}

-----------------------------------------------------------------------------
Only(r, row) == [q \in {r} |-> row]

\* What new says of a row, and else what old says.
Over(new, old) ==
    [r \in DOMAIN new \cup DOMAIN old |-> IF r \in DOMAIN new THEN new[r] ELSE old[r]]

-----------------------------------------------------------------------------
(* Writers *)

\* The filter on since, for a deleted row also by its deleted_at.
Changed(row, t) == t = None \/ row.ts > t \/ (row.gone # None /\ row.gone > t)

\* The latest time the phone may ask from once the pull under way is over.
Handed == IF first # None THEN first ELSE IF page # None THEN page.at ELSE since

Begin ==
    /\ clock < MaxWrites
    /\ clock' = clock + 1 /\ open' = open \cup {clock + 1}
    /\ UNCHANGED <<db, page, phone, lost, late, fresh>>

\* A pull that has come to pos, and to the rows of its phase if all, has asked
\* for r.
Asked(r, pos, all) ==
    \E k \in 1..4 : r \in Phases[k] /\ (k < pos.phase \/ (k = pos.phase /\ all))

AskedFor(r) ==
    \/ page # None /\ Asked(r, page.pos, page.done \/ page.pos.after # None)
    \/ first # None /\ Asked(r, cursor, cursor.after # None)

\* Transaction t commits the rows of new.
Commit(t, new) ==
    /\ db' = Over(new, db)
    /\ open' = open \ {t}
    /\ late' = (late \ DOMAIN new) \cup {r \in DOMAIN new : ~Changed(new[r], Handed)}
    /\ fresh' = fresh \cup {r \in DOMAIN new : AskedFor(r)}
    /\ UNCHANGED <<page, phone, lost>>

Live(r) == db[r] # None /\ db[r].gone = None

Written(t, ts, link) == [by |-> t, ts |-> ts, gone |-> None, link |-> link]

Homes == {c \in Categories : Live(c)} \cup {None}

\* A category or a product is created by a POST, or updated; an update of a
\* deleted row (PUT /sync) brings it back.  An import is one transaction, which
\* may write nothing.
SaveRow(t) ==
    /\ \/ \E c \in Categories : Commit(t, Only(c, Written(t, t, None)))
       \/ \E p \in Products, c \in Homes : Commit(t, Only(p, Written(t, t, c)))
       \/ \E import \in SUBSET {p \in Products : db[p] = None}, c \in Homes :
             Commit(t, [p \in import |-> Written(t, t, c)])
    /\ UNCHANGED clock

\* A PUT creates a row with the time of the phone that made it.
CreateFromPhone(t) ==
    /\ \E ts \in PhoneTimes :
          \/ \E c \in Categories : db[c] = None /\ Commit(t, Only(c, Written(t, ts, None)))
          \/ \E p \in Products, c \in Homes : db[p] = None /\ Commit(t, Only(p, Written(t, ts, c)))
    /\ UNCHANGED clock

\* deleted_at is the time of the statement, updated_at that of the transaction.
\* The products of a category leave it in the same transaction.
DeleteRow(t) ==
    \E r \in {q \in Categories \cup Products : Live(q)} :
        LET members == {p \in Products : db[p] # None /\ db[p].link = r}
        IN /\ clock' = clock + 1
           /\ Commit(t, Over(Only(r, [db[r] EXCEPT !.by = t, !.ts = t, !.gone = clock + 1]),
                             [p \in members |-> [db[p] EXCEPT !.by = t, !.ts = t, !.link = None]]))

\* A batch of sales is one transaction; a return follows its sale.
PushSales(t) ==
    /\ \E batch \in SUBSET {s \in Sales : db[s] = None} \ {{}} :
          Commit(t, [s \in batch |-> Written(t, t, None)])
    /\ UNCHANGED clock

PushReturn(t) ==
    /\ \E r \in Returns, s \in Sales :
          /\ db[r] = None /\ db[s] # None
          /\ Commit(t, Only(r, Written(t, t, s)))
    /\ UNCHANGED clock

Write == \E t \in open :
    SaveRow(t) \/ CreateFromPhone(t) \/ DeleteRow(t) \/ PushSales(t) \/ PushReturn(t)

-----------------------------------------------------------------------------
(* Pages *)

\* ORDER BY ts, id.
Before(p, q) == db[p].ts < db[q].ts \/ (db[p].ts = db[q].ts /\ p < q)

\* tuple_(ts, id) > (after_ts, after_id).  Mutant: the id is left out.
Beyond_TimeOnly(r, after) == after = None \/ db[r].ts > after[1]

Beyond(r, after) ==
    after = None \/ db[r].ts > after[1] \/ (db[r].ts = after[1] /\ r > after[2])

\* The rows a query of the phase finds, before its LIMIT.  Mutant: deleted_at
\* is not looked at.
Found_NotDeleted(pos) ==
    {r \in Phases[pos.phase] : /\ db[r] # None /\ (since = None \/ db[r].ts > since)
                               /\ Beyond(r, pos.after)}

Found(pos) ==
    {r \in Phases[pos.phase] : /\ db[r] # None /\ Changed(db[r], since)
                               /\ Beyond(r, pos.after)}

\* The first n of them, and the last one of those.  Mutant: the row that was
\* read to know whether there are more is kept.
Top_LimitPlusOne(found, n) == {r \in found : Cardinality({q \in found : Before(q, r)}) <= n}

Top(found, n) == {r \in found : Cardinality({q \in found : Before(q, r)}) < n}

Last(items) == CHOOSE r \in items : \A q \in items \ {r} : Before(q, r)

\* The request is read: server_time is taken before any query.
GetChanges ==
    /\ page = None
    /\ page' = [at |-> clock, pos |-> cursor, left |-> Limit, rows |-> <<>>,
                next |-> None, done |-> FALSE]
    /\ UNCHANGED <<writing, phone, lost, late, fresh>>

\* One query; limit + 1 rows tell whether there are more.  A page that is
\* full at the end of a phase points at the next one.
NextPhase(phase) == IF phase < 4 THEN [phase |-> phase + 1, after |-> None] ELSE None

ListPhase ==
    /\ page # None /\ ~page.done
    /\ LET found == Found(page.pos)
           items == Top(found, page.left)
           left == page.left - Cardinality(items)
           more == found # items
           following == NextPhase(page.pos.phase)
           read == [page EXCEPT !.rows = Over([r \in items |-> db[r]], @), !.left = left]
       IN page' =
            IF more
            THEN [read EXCEPT !.done = TRUE,
                              !.next = [phase |-> page.pos.phase,
                                        after |-> <<db[Last(items)].ts, Last(items)>>]]
            ELSE IF left = 0 \/ page.pos.phase = 4
            THEN [read EXCEPT !.done = TRUE, !.next = following]
            ELSE [read EXCEPT !.pos = [phase |-> page.pos.phase + 1, after |-> None]]
    /\ fresh' = fresh \ Found(page.pos)
    /\ UNCHANGED <<writing, phone, lost, late>>

-----------------------------------------------------------------------------
(* The phone.  A pull ends with the page that has no next one, and the next  *)
(* pull asks from the server_time of its first page.                         *)

KeptTime == IF first = None THEN page.at ELSE first

Receive ==
    /\ page # None /\ page.done
    /\ copy' = Over(page.rows, copy)
    /\ late' = late \ {r \in DOMAIN page.rows : page.rows[r] = db[r]}
    /\ IF page.next = None
       THEN since' = KeptTime /\ first' = None /\ cursor' = Start /\ fresh' = {}
       ELSE since' = since /\ first' = KeptTime /\ cursor' = page.next /\ fresh' = fresh
    /\ page' = None
    /\ UNCHANGED <<writing, lost>>

\* The answer does not arrive: the phone asks for the same page again.
LosePage ==
    /\ page # None /\ page.done /\ lost < MaxLost
    /\ page' = None /\ lost' = lost + 1
    /\ UNCHANGED <<writing, phone, late, fresh>>

\* The phone stops in the middle of a pull and starts it again.
GiveUp ==
    /\ first # None /\ page = None /\ lost < MaxLost
    /\ first' = None /\ cursor' = Start /\ lost' = lost + 1 /\ fresh' = {}
    /\ UNCHANGED <<writing, page, copy, since, late>>

Pull == GetChanges \/ ListPhase \/ Receive

Next == Begin \/ Write \/ Pull \/ LosePage \/ GiveUp

Spec == Init /\ [][Next]_vars

\* The phone goes on pulling and the server answers; nothing makes anyone write.
FairSpec == Spec /\ WF_vars(Pull)

-----------------------------------------------------------------------------
(* Properties *)

Resting == page = None /\ first = None

\* Between two pulls the phone has the row as it is, or will be told of it by
\* the next pull, unless it was committed under a server_time the phone
\* already had: whatever was written between two queries, two pages or two
\* attempts, and wherever a page ends.
NothingMissed ==
    Resting /\ since # None => \A r \in Rows :
        db[r] # None => copy[r] = db[r] \/ Changed(db[r], since) \/ r \in late

\* A row of a page never comes before the category or the sale it refers to: that
\* row is on the page or the phone has it, in the middle of a page as between two.
\* It may lack one that was committed after the pull had asked for its phase, or
\* under a server_time already given.
ParentsFirst ==
    page # None => \A r \in DOMAIN page.rows : LET parent == page.rows[r].link IN
        parent # None => \/ parent \in DOMAIN page.rows \/ copy[parent] # None
                         \/ parent \in fresh \cup late

\* "une categorie arrive toujours avant ses produits, une vente avant ses
\* retours" (service.py _PHASES), as it is written: without an exception.
AlwaysParentsFirst ==
    page # None => \A r \in DOMAIN page.rows : LET parent == page.rows[r].link IN
        parent # None => parent \in DOMAIN page.rows \/ copy[parent] # None

\* Once the writers stop, the pulls end with every row but those committed late.
PullConverges ==
    <>[](\A r \in Rows : db[r] # None => copy[r] = db[r] \/ r \in late)
==============================================================================
