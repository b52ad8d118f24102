------------------------- MODULE ChangesPullProofs -------------------------
(***************************************************************************)
(* What a phone has between two pulls, for any store, any size of page and *)
(* any number of writers, pages lost and pulls given up.                   *)
(***************************************************************************)
EXTENDS ChangesPull, SumTheorems

-----------------------------------------------------------------------------
(* The order of the rows of a query. *)

Dated(S) == S \subseteq Rows /\ \A r \in S : db[r].ts \in Nat

\* ORDER BY ts, id is a total order.
LEMMA BeforeOrders ==
  ASSUME NEW S, Dated(S)
  PROVE  /\ \A p, q \in S : p # q => Before(p, q) \/ Before(q, p)
         /\ \A p, q \in S : ~(Before(p, q) /\ Before(q, p))
         /\ \A p, q, r \in S : Before(p, q) /\ Before(q, r) => Before(p, r)
  <1>1. \A r \in S : r \in Nat /\ db[r].ts \in Nat
    BY PullAssumption DEF Dated
  <1> QED  BY <1>1 DEF Before

LEMMA DatedFinite ==
  ASSUME NEW S, Dated(S)
  PROVE  /\ IsFiniteSet(S) /\ Cardinality(S) \in Nat
         /\ \A A \in SUBSET S : Dated(A)
  BY PullAssumption, FS_Subset, FS_CardinalityType DEF Dated

\* A query that finds rows has a last one.
LEMMA LastExists ==
  ASSUME NEW S, Dated(S), S # {}
  PROVE  Last(S) \in S /\ \A r \in S \ {Last(S)} : Before(r, Last(S))
  <1> DEFINE Ends(A, m) == m \in A /\ \A r \in A \ {m} : Before(r, m)
             Bad == {A \in SUBSET S : A # {} /\ \A m : ~Ends(A, m)}
  <1>1. ASSUME Bad # {} PROVE FALSE
    <2>1. PICK A \in Bad : \A B \in Bad : B \subseteq A => B = A
      <3> Bad \in SUBSET SUBSET S
        OBVIOUS
      <3> HIDE DEF Bad
      <3> QED BY <1>1, MinimalSubset, DatedFinite
    <2>2. PICK x \in A : TRUE
      BY <2>1
    <2>3. A \ {x} # {}
      BY <2>1, <2>2
    <2>4. PICK m : Ends(A \ {x}, m)
      <3>1. A \ {x} \notin Bad
        <4> HIDE DEF Bad
        <4> QED BY <2>1, <2>2
      <3>2. A \ {x} \in SUBSET S
        BY <2>1
      <3> QED BY <3>1, <3>2, <2>3
    <2>5. Dated(A) /\ x \in A /\ m \in A /\ x # m
      BY <2>1, <2>2, <2>4, DatedFinite
    <2>6. Ends(A, x) \/ Ends(A, m)
      BY <2>4, <2>5, BeforeOrders
    <2> QED  BY <2>1, <2>6
  <1>2. \E m \in S : \A r \in S \ {m} : Before(r, m)
    BY <1>1
  <1> QED  BY <1>2 DEF Last

\* ... and a first one.
LEMMA FirstExists ==
  ASSUME NEW S, Dated(S), S # {}
  PROVE  \E f \in S : \A r \in S \ {f} : Before(f, r)
  <1> DEFINE Starts(A, m) == m \in A /\ \A r \in A \ {m} : Before(m, r)
             Bad == {A \in SUBSET S : A # {} /\ \A m : ~Starts(A, m)}
  <1>1. ASSUME Bad # {} PROVE FALSE
    <2>1. PICK A \in Bad : \A B \in Bad : B \subseteq A => B = A
      <3> Bad \in SUBSET SUBSET S
        OBVIOUS
      <3> HIDE DEF Bad
      <3> QED BY <1>1, MinimalSubset, DatedFinite
    <2>2. PICK x \in A : TRUE
      BY <2>1
    <2>3. A \ {x} # {}
      BY <2>1, <2>2
    <2>4. PICK m : Starts(A \ {x}, m)
      <3>1. A \ {x} \notin Bad
        <4> HIDE DEF Bad
        <4> QED BY <2>1, <2>2
      <3>2. A \ {x} \in SUBSET S
        BY <2>1
      <3> QED BY <3>1, <3>2, <2>3
    <2>5. Dated(A) /\ x \in A /\ m \in A /\ x # m
      BY <2>1, <2>2, <2>4, DatedFinite
    <2>6. Starts(A, x) \/ Starts(A, m)
      BY <2>4, <2>5, BeforeOrders
    <2> QED  BY <2>1, <2>6
  <1> QED  BY <1>1

\* LIMIT n keeps some of the rows, n at most.
LEMMA TopBounded ==
  ASSUME NEW S, Dated(S), NEW n \in Nat \ {0}
  PROVE  /\ Top(S, n) \subseteq S /\ Dated(Top(S, n))
         /\ Cardinality(Top(S, n)) \in 0..n
         /\ S # {} => Top(S, n) # {}
  <1>1. Top(S, n) \subseteq S
    BY DEF Top
  <1>2. Dated(Top(S, n)) /\ IsFiniteSet(Top(S, n)) /\ Cardinality(Top(S, n)) \in Nat
    BY <1>1, DatedFinite
  <1>3. S # {} => Top(S, n) # {}
    <2> SUFFICES ASSUME S # {} PROVE Top(S, n) # {}
      OBVIOUS
    <2>1. PICK f \in S : \A r \in S \ {f} : Before(f, r)
      BY FirstExists
    <2>2. {q \in S : Before(q, f)} = {}
      BY <2>1, BeforeOrders
    <2>3. Cardinality({q \in S : Before(q, f)}) < n
      BY <2>2, FS_EmptySet
    <2> QED  BY <2>3 DEF Top
  <1>4. CASE Top(S, n) = {}
    BY <1>1, <1>2, <1>3, <1>4, FS_EmptySet
  <1>5. CASE Top(S, n) # {}
    <2> DEFINE m == Last(Top(S, n))
               Earlier == {q \in S : Before(q, m)}
    <2>1. m \in Top(S, n) /\ \A r \in Top(S, n) \ {m} : Before(r, m)
      BY <1>2, <1>5, LastExists
    <2>2. Top(S, n) \ {m} \subseteq Earlier
      BY <2>1, <1>1
    <2>3. Cardinality(Earlier) < n
      BY <2>1 DEF Top
    <2>4. IsFiniteSet(Earlier) /\ Cardinality(Earlier) \in Nat
      BY DatedFinite, FS_Subset, FS_CardinalityType
    <2>5. Cardinality(Top(S, n) \ {m}) <= Cardinality(Earlier)
      BY <2>2, <2>4, FS_Subset
    <2>6. Cardinality(Top(S, n) \ {m}) = Cardinality(Top(S, n)) - 1
      BY <2>1, <1>2, FS_RemoveElement
    <2> QED  BY <1>1, <1>2, <1>3, <2>3, <2>4, <2>5, <2>6
  <1> QED  BY <1>4, <1>5

\* The rows that do not fit on the page come after its last one.
LEMMA TopLast ==
  ASSUME NEW S, Dated(S), NEW n \in Nat \ {0}, NEW r \in S \ Top(S, n)
  PROVE  /\ Last(Top(S, n)) \in Top(S, n)
         /\ Before(Last(Top(S, n)), r)
  <1> DEFINE m == Last(Top(S, n))
  <1>1. m \in Top(S, n) /\ m \in S /\ m # r
    BY TopBounded, LastExists
  <1>2. ASSUME ~Before(m, r) PROVE FALSE
    <2>1. Before(r, m)
      BY <1>1, <1>2, BeforeOrders
    <2> DEFINE Mine == {q \in S : Before(q, r)}
               Its == {q \in S : Before(q, m)}
    <2>2. Mine \subseteq Its
      BY <1>1, <2>1, BeforeOrders
    <2>3. IsFiniteSet(Its) /\ Cardinality(Its) \in Nat /\ Cardinality(Mine) \in Nat
      BY DatedFinite, FS_Subset, FS_CardinalityType
    <2>4. Cardinality(Mine) <= Cardinality(Its)
      BY <2>2, <2>3, FS_Subset
    <2>5. Cardinality(Its) < n
      BY <1>1 DEF Top
    <2>6. Cardinality(Mine) < n
      BY <2>3, <2>4, <2>5
    <2> QED  BY <2>6 DEF Top
  <1> QED  BY <1>1, <1>2

-----------------------------------------------------------------------------
(* The invariant.  A pull reads the rows that changed since the last one, in  *)
(* the order of the phases; what it has not come to is still ahead of it.     *)

\* A page is a record of six fields; one that is not done has room left.
PageShape ==
  page # None =>
    /\ page = [at |-> page.at, pos |-> page.pos, left |-> page.left,
               rows |-> page.rows, next |-> page.next, done |-> page.done]
    /\ page.done \in BOOLEAN
    /\ ~page.done => page.left > 0

\* The times the phone was given follow each other.
TimesInOrder ==
  /\ since # None => /\ since <= clock
                     /\ first # None => since <= first
                     /\ page # None => since <= page.at
  /\ first # None => first <= clock
  /\ first = None => cursor = Start

\* A query from pos on finds r, if r changed since the last pull.
Ahead(r, pos) ==
  \E k \in 1..4 : /\ r \in Phases[k]
                  /\ k > pos.phase \/ (k = pos.phase /\ Beyond(r, pos.after))

AheadOfPage(r) ==
  /\ page.done => page.next # None /\ Ahead(r, page.next)
  /\ ~page.done => Ahead(r, page.pos)

\* The row of the page, or else that of the phone.
AtHand(r) == IF r \in DOMAIN page.rows THEN page.rows[r] ELSE copy[r]

\* The next pull from t tells of r, or r was committed too late for that.
Excused(r, t) == Changed(db[r], t) \/ r \in late

\* What the phone lacks it can still ask for from its last pull on.
Kept ==
  since # None => \A r \in Rows :
    db[r] # None => copy[r] = db[r] \/ Excused(r, since)

\* In the middle of a pull it lacks what is ahead, or changed since it began.
Underway ==
  first # None => \A r \in Rows :
    db[r] # None => \/ copy[r] = db[r] \/ Excused(r, first)
                    \/ Changed(db[r], since) /\ Ahead(r, cursor)

\* So it does with the rows the server has put on the page it is making.
OnPage ==
  page # None => \A r \in Rows :
    db[r] # None => \/ AtHand(r) = db[r] \/ Excused(r, KeptTime)
                    \/ Changed(db[r], since) /\ AheadOfPage(r)

\* A row refers to one of an earlier phase, which stays in the store.
Refers(row, r) ==
  row.link # None => \E j, k \in 1..4 : /\ j < k /\ r \in Phases[k]
                                        /\ row.link \in Phases[j] /\ db[row.link] # None

LinksBack == \A r \in Rows : db[r] # None => Refers(db[r], r)

\* A page starts where the phone asks, and goes on phase by phase.
PageAhead ==
  page # None => /\ \/ page.pos = cursor
                    \/ page.pos.phase > cursor.phase /\ page.pos.after = None
                 /\ page.done /\ page.next = None => page.pos.phase = 4
                 /\ page.done /\ page.next # None =>
                      \/ page.next.phase = page.pos.phase
                      \/ page.next.phase = page.pos.phase + 1 /\ page.next.after = None

Had(r) == copy[r] # None \/ r \in fresh \cup late

HadOnPage(r) == r \in DOMAIN page.rows \/ Had(r)

\* What a pull under way has asked for the phone has, in some version, but for
\* what was committed after it was asked or too late for it.
Brought ==
  first # None => \A r \in Rows :
    db[r] # None => Had(r) \/ (Changed(db[r], since) /\ Ahead(r, cursor))

BroughtOnPage ==
  page # None => \A r \in Rows :
    db[r] # None => HadOnPage(r) \/ (Changed(db[r], since) /\ AheadOfPage(r))

\* The rows of a page refer to rows that were asked for before them.
ParentsAsked ==
  page # None => \A r \in DOMAIN page.rows : LET parent == page.rows[r].link IN
    parent # None => /\ \E j \in 1..4 : j < page.pos.phase /\ parent \in Phases[j]
                     /\ HadOnPage(parent)

Following == LinksBack /\ PageAhead /\ Brought /\ BroughtOnPage /\ ParentsAsked

PullInv == TypeOK /\ PageShape /\ TimesInOrder /\ Kept /\ Underway /\ OnPage /\ Following

-----------------------------------------------------------------------------
(* Lemmas about the operators. *)

\* Who asks from an earlier time is told of more.
LEMMA ChangedEarlier ==
  ASSUME NEW row \in Row, NEW t \in Nat, NEW s \in Nat \cup {None},
         s # None => s <= t, Changed(row, t)
  PROVE  Changed(row, s)
  BY PullAssumption DEF Changed, Row

LEMMA NoneIsNoTime == None \notin Nat /\ None \notin Cursor
  BY PullAssumption

\* Over replaces the rows of new and keeps the others.
LEMMA OverIs ==
  ASSUME NEW new, NEW old
  PROVE  /\ DOMAIN Over(new, old) = DOMAIN new \cup DOMAIN old
         /\ \A r \in DOMAIN new : Over(new, old)[r] = new[r]
         /\ \A r \in DOMAIN old \ DOMAIN new : Over(new, old)[r] = old[r]
  BY DEF Over

LEMMA SingleIs ==
  ASSUME NEW r, NEW row
  PROVE  DOMAIN Only(r, row) = {r} /\ Only(r, row)[r] = row
  BY DEF Only

LEMMA WrittenIsRow ==
  ASSUME NEW t \in Nat, NEW ts \in Nat, NEW link \in Rows \cup {None}
  PROVE  Written(t, ts, link) \in Row
  BY DEF Written, Row

LEMMA PhaseRows ==
  /\ \A k \in 1..4 : Phases[k] \subseteq Rows
  /\ \A r \in Rows : \E k \in 1..4 : r \in Phases[k]
  BY DEF Phases, Rows

LEMMA StartIs == Start \in Cursor /\ Start.phase = 1 /\ Start.after = None
  BY DEF Start, Cursor

\* Whatever is stored is ahead of a pull that starts.
LEMMA AllAheadOfStart ==
  ASSUME NEW r \in Rows
  PROVE  Ahead(r, Start)
  BY PhaseRows, StartIs DEF Ahead, Beyond

-----------------------------------------------------------------------------
(* Commits. *)

\* Rows of new are well formed and belong to the store.
Writable(new) ==
  DOMAIN new \subseteq Rows /\ \A r \in DOMAIN new : new[r] \in Row /\ Refers(new[r], r)

LEMMA CommitKeeps ==
  ASSUME PullInv, NEW t \in open, NEW new, Writable(new), Commit(t, new),
         clock' = clock \/ clock' = clock + 1
  PROVE  PullInv'
  <1> USE NoneIsNoTime
  <1>1. /\ clock \in Nat /\ clock' \in Nat /\ clock <= clock'
        /\ page' = page /\ copy' = copy /\ since' = since /\ first' = first
        /\ cursor' = cursor /\ lost' = lost
    BY DEF PullInv, TypeOK, Commit, phone
  <1>2. db \in [Rows -> Row \cup {None}]
    BY DEF PullInv, TypeOK
  <1>3. db' = [r \in Rows |-> IF r \in DOMAIN new THEN new[r] ELSE db[r]]
    <2>1. db' = Over(new, db) /\ DOMAIN db = Rows /\ DOMAIN new \cup Rows = Rows
      BY <1>2 DEF Commit, Writable
    <2> QED  BY <2>1 DEF Over
  <1>4. /\ \A r \in DOMAIN new : r \in Rows /\ db'[r] = new[r]
        /\ \A r \in Rows \ DOMAIN new : db'[r] = db[r]
    BY <1>3 DEF Writable
  <1>5. /\ late' \subseteq Rows /\ fresh' \subseteq Rows
        /\ \A r \in DOMAIN new : Changed(new[r], Handed) \/ r \in late'
        /\ \A r \in Rows \ DOMAIN new : r \in late => r \in late'
    BY DEF Commit, Writable, PullInv, TypeOK
  <1>6. /\ since \in Nat \cup {None} /\ first \in Nat \cup {None}
        /\ page # None => page.at \in Nat
    BY DEF PullInv, TypeOK
  <1>7. TypeOK'
    <2>1. db' \in [Rows -> Row \cup {None}]
      BY <1>2, <1>3 DEF Writable
    <2>2. open' \subseteq 1..clock'
      BY <1>1 DEF Commit, PullInv, TypeOK
    <2>3. page' # None => page'.at \in 0..clock'
      BY <1>1 DEF PullInv, TypeOK
    <2> QED  BY <1>1, <1>5, <2>1, <2>2, <2>3 DEF PullInv, TypeOK
  <1>8. PageShape'
    BY <1>1 DEF PullInv, PageShape
  <1>9. TimesInOrder'
    BY <1>1, <1>6 DEF PullInv, TimesInOrder
  \* A row of new is told of by a pull from any time the phone may ask from.
  <1>10. \A r \in DOMAIN new : \A s \in Nat \cup {None} :
           (s = Handed \/ (s = since /\ since # None)) => Excused(r, s)'
    <2> SUFFICES ASSUME NEW r \in DOMAIN new, NEW s \in Nat \cup {None},
                        s = Handed \/ (s = since /\ since # None), r \notin late'
                 PROVE  Changed(new[r], s)
      BY <1>4 DEF Excused
    <2>1. Changed(new[r], Handed)
      BY <1>5
    <2>2. CASE s = Handed
      BY <2>1, <2>2
    <2>3. CASE s = since /\ since # None
      <3>1. Handed \in Nat /\ since <= Handed
        BY <1>6, <2>3 DEF Handed, PullInv, TimesInOrder
      <3> QED BY <2>1, <2>3, <3>1, ChangedEarlier DEF Writable
    <2> QED BY <2>2, <2>3
  <1>11. \A r \in Rows \ DOMAIN new : \A s : Excused(r, s) => Excused(r, s)'
    BY <1>4, <1>5 DEF Excused
  <1>12. Kept'
    BY <1>1, <1>4, <1>6, <1>10, <1>11 DEF PullInv, Kept
  <1>13. \A r \in Rows \ DOMAIN new : \A pos : Ahead(r, pos)' <=> Ahead(r, pos)
    BY <1>4 DEF Ahead, Beyond
  <1>14. Underway'
    <2> SUFFICES ASSUME first # None, NEW r \in Rows, db'[r] # None
                 PROVE  \/ copy[r] = db'[r] \/ Excused(r, first)'
                        \/ Changed(db'[r], since) /\ Ahead(r, cursor)'
      BY <1>1 DEF Underway
    <2>1. CASE r \in DOMAIN new
      <3>1. first = Handed
        BY DEF Handed
      <3> QED BY <2>1, <3>1, <1>1, <1>6, <1>10
    <2>2. CASE r \notin DOMAIN new
      BY <2>2, <1>1, <1>4, <1>11, <1>13 DEF PullInv, Underway
    <2> QED BY <2>1, <2>2
  <1>15. OnPage'
    <2> SUFFICES ASSUME page # None, NEW r \in Rows, db'[r] # None
                 PROVE  \/ AtHand(r)' = db'[r] \/ Excused(r, KeptTime)'
                        \/ Changed(db'[r], since) /\ AheadOfPage(r)'
      BY <1>1 DEF OnPage
    <2>0. KeptTime' = KeptTime /\ KeptTime \in Nat
      BY <1>1, <1>6 DEF KeptTime
    <2>1. CASE r \in DOMAIN new
      <3>1. KeptTime = Handed
        BY DEF Handed, KeptTime
      <3> QED BY <2>0, <2>1, <3>1, <1>10
    <2>2. CASE r \notin DOMAIN new
      <3>1. AtHand(r)' = AtHand(r)
        BY <1>1 DEF AtHand
      <3>2. AheadOfPage(r) => AheadOfPage(r)'
        BY <2>2, <1>1, <1>13 DEF AheadOfPage
      <3> QED BY <2>0, <2>2, <3>1, <3>2, <1>4, <1>11 DEF PullInv, OnPage
    <2> QED BY <2>1, <2>2
  <1>16. LinksBack'
    <2>1. \A r \in Rows : db[r] # None => db'[r] # None
      <3>1. \A r \in DOMAIN new : new[r] # None
        BY PullAssumption DEF Writable, Row
      <3> QED  BY <1>4, <3>1
    <2>2. ASSUME NEW r \in Rows, NEW row, Refers(row, r) PROVE Refers(row, r)'
      <3> SUFFICES ASSUME row.link # None PROVE Refers(row, r)'
        BY DEF Refers
      <3>1. PICK j \in 1..4, k \in 1..4 : /\ j < k /\ r \in Phases[k]
                                         /\ row.link \in Phases[j] /\ db[row.link] # None
        BY <2>2 DEF Refers
      <3>2. db'[row.link] # None
        BY <3>1, <2>1, PhaseRows
      <3> QED  BY <3>1, <3>2 DEF Refers
    <2> SUFFICES ASSUME NEW r \in Rows, db'[r] # None PROVE Refers(db[r], r)'
      BY DEF LinksBack
    <2>3. PICK row : row = db'[r]
      OBVIOUS
    <2>4. Refers(row, r)
      BY <1>4, <2>3 DEF Writable, PullInv, Following, LinksBack
    <2>5. Refers(row, r)'
      BY <2>2, <2>4
    <2> QED  BY <2>3, <2>5 DEF Refers
  <1>17. PageAhead'
    BY <1>1 DEF PullInv, Following, PageAhead
  <1>18. /\ fresh' = fresh \cup {r \in DOMAIN new : AskedFor(r)}
         /\ \A r \in Rows \ DOMAIN new : Had(r) => Had(r)'
         /\ \A r \in DOMAIN new : AskedFor(r) => Had(r)'
         /\ \A r \in Rows \ DOMAIN new : HadOnPage(r) => HadOnPage(r)'
    <2>1. fresh' = fresh \cup {r \in DOMAIN new : AskedFor(r)}
      BY DEF Commit
    <2> QED  BY <1>1, <1>5, <2>1 DEF Had, HadOnPage
  \* A row that is written before it was asked for will be found.
  <1>19. ASSUME NEW r \in DOMAIN new, r \notin late', page # None \/ first # None
         PROVE  Changed(db'[r], since)
    <2>1. CASE since = None
      BY <2>1 DEF Changed
    <2>2. CASE since # None
      BY <1>6, <1>10, <1>19, <2>2 DEF Excused
    <2> QED  BY <2>1, <2>2
  <1>20. Brought'
    <2> SUFFICES ASSUME first # None, NEW r \in Rows, db'[r] # None, ~Had(r)'
                 PROVE  Changed(db'[r], since) /\ Ahead(r, cursor)'
      BY <1>1 DEF Brought
    <2>1. CASE r \in DOMAIN new
      <3>1. ~AskedFor(r) /\ r \notin late'
        BY <2>1, <1>18 DEF Had
      <3>3. Ahead(r, cursor)'
        <4>1. r \in Rows /\ cursor \in Cursor
          BY DEF PullInv, TypeOK
        <4>2. PICK k \in 1..4 : r \in Phases[k]
          BY <4>1, PhaseRows
        <4>3. k > cursor.phase \/ (k = cursor.phase /\ cursor.after = None)
          BY <3>1, <4>1, <4>2 DEF AskedFor, Asked, Cursor
        <4> QED  BY <1>1, <4>2, <4>3 DEF Ahead, Beyond
      <3> QED  BY <2>1, <3>1, <3>3, <1>19
    <2>2. CASE r \notin DOMAIN new
      BY <2>2, <1>1, <1>4, <1>13, <1>18 DEF PullInv, Following, Brought
    <2> QED  BY <2>1, <2>2
  <1>21. BroughtOnPage'
    <2> SUFFICES ASSUME page # None, NEW r \in Rows, db'[r] # None, ~HadOnPage(r)'
                 PROVE  Changed(db'[r], since) /\ AheadOfPage(r)'
      BY <1>1 DEF BroughtOnPage
    <2>1. CASE r \in DOMAIN new
      <3>1. ~AskedFor(r) /\ r \notin late'
        BY <2>1, <1>18 DEF Had, HadOnPage
      <3>2. page.pos \in Cursor /\ (page.done => page.next \in Cursor \cup {None})
        BY DEF PullInv, TypeOK
      <3>3. PICK k \in 1..4 : r \in Phases[k]
        BY PhaseRows
      <3>4. /\ k > page.pos.phase \/ (k = page.pos.phase /\ page.pos.after = None)
            /\ page.done => k > page.pos.phase
        BY <3>1, <3>2, <3>3 DEF AskedFor, Asked, Cursor
      <3>5. page.done => /\ page.next # None
                         /\ \/ k > page.next.phase
                            \/ k = page.next.phase /\ page.next.after = None
        BY <3>2, <3>3, <3>4 DEF PullInv, Following, PageAhead, Cursor
      <3>6. AheadOfPage(r)'
        BY <1>1, <3>3, <3>4, <3>5 DEF AheadOfPage, Ahead, Beyond
      <3> QED  BY <2>1, <3>1, <3>6, <1>19
    <2>2. CASE r \notin DOMAIN new
      <3>1. AheadOfPage(r) => AheadOfPage(r)'
        BY <2>2, <1>1, <1>13 DEF AheadOfPage
      <3> QED  BY <2>2, <3>1, <1>1, <1>4, <1>18 DEF PullInv, Following, BroughtOnPage
    <2> QED  BY <2>1, <2>2
  <1>22. ParentsAsked'
    <2> SUFFICES ASSUME page # None, NEW r \in DOMAIN page.rows, page.rows[r].link # None
                 PROVE  /\ \E j \in 1..4 : j < page.pos.phase /\ page.rows[r].link \in Phases[j]
                        /\ HadOnPage(page.rows[r].link)'
      BY <1>1 DEF ParentsAsked
    <2>1. PICK parent : parent = page.rows[r].link
      OBVIOUS
    <2>2. PICK j \in 1..4 : j < page.pos.phase /\ parent \in Phases[j]
      BY <2>1 DEF PullInv, Following, ParentsAsked
    <2>3. HadOnPage(parent) /\ parent \in Rows
      BY <2>1, <2>2, PhaseRows DEF PullInv, Following, ParentsAsked
    <2>4. parent \in DOMAIN new => AskedFor(parent)
      BY <2>2 DEF AskedFor, Asked
    <2>5. HadOnPage(parent)'
      BY <2>3, <2>4, <1>18 DEF HadOnPage
    <2>6. HadOnPage(page.rows[r].link)'
      BY <1>1, <2>1, <2>5 DEF HadOnPage, Had
    <2> QED  BY <2>1, <2>2, <2>6
  <1>23. Following'
    BY <1>16, <1>17, <1>20, <1>21, <1>22 DEF Following
  <1> QED  BY <1>7, <1>8, <1>9, <1>12, <1>14, <1>15, <1>23 DEF PullInv

\* One step of a writer commits well-formed rows of its own.
LEMMA WriteKeeps ==
  ASSUME PullInv, Write
  PROVE  PullInv'
  <1>1. PICK t \in open : \/ SaveRow(t) \/ CreateFromPhone(t) \/ DeleteRow(t)
                          \/ PushSales(t) \/ PushReturn(t)
    BY DEF Write
  <1>2. t \in Nat /\ clock \in Nat /\ db \in [Rows -> Row \cup {None}]
    <2>1. TypeOK
      BY DEF PullInv
    <2>2. clock \in Nat /\ open \subseteq 1..clock /\ db \in [Rows -> Row \cup {None}]
      BY <2>1 DEF TypeOK
    <2>. QED
      BY <2>2
  <1>3. Homes \subseteq Rows \cup {None}
    BY DEF Homes, Rows
  <1>4. ASSUME NEW r \in Rows, NEW row \in Row, Refers(row, r)
        PROVE  Writable(Only(r, row))
    BY <1>4 DEF Writable, Only
  <1>10. \A r, ts : Refers(Written(t, ts, None), r)
    BY DEF Refers, Written
  <1>11. \A p \in Products, c \in Homes, ts \in Nat : Refers(Written(t, ts, c), p)
    <2> SUFFICES ASSUME NEW p \in Products, NEW c \in Homes, c # None, NEW ts \in Nat
                 PROVE  \E j, k \in 1..4 : j < k /\ p \in Phases[k] /\ c \in Phases[j] /\ db[c] # None
      BY DEF Refers, Written
    <2>1. p \in Phases[2] /\ c \in Phases[1] /\ db[c] # None
      BY DEF Phases, Homes, Live
    <2> QED  BY <2>1
  <1>12. \A r \in Rows : db[r] # None => Refers(db[r], r)
    BY DEF PullInv, Following, LinksBack
  <1>5. CASE SaveRow(t)
    <2>1. clock' = clock
      BY <1>5 DEF SaveRow
    <2>2. \E new : Writable(new) /\ Commit(t, new)
      <3>1. CASE \E c \in Categories : Commit(t, Only(c, Written(t, t, None)))
        <4>1. PICK c \in Categories : Commit(t, Only(c, Written(t, t, None)))
          BY <3>1
        <4>2. c \in Rows /\ Written(t, t, None) \in Row
          BY <1>2, WrittenIsRow DEF Rows
        <4> QED BY <4>1, <4>2, <1>2, <1>4, <1>10, <1>11
      <3>2. CASE \E p \in Products, c \in Homes : Commit(t, Only(p, Written(t, t, c)))
        <4>1. PICK p \in Products, c \in Homes : Commit(t, Only(p, Written(t, t, c)))
          BY <3>2
        <4>2. p \in Rows /\ Written(t, t, c) \in Row
          BY <1>2, <1>3, WrittenIsRow DEF Rows
        <4> QED BY <4>1, <4>2, <1>2, <1>4, <1>10, <1>11
      <3>3. CASE \E import \in SUBSET {p \in Products : db[p] = None}, c \in Homes :
                    Commit(t, [p \in import |-> Written(t, t, c)])
        <4>1. PICK import \in SUBSET {p \in Products : db[p] = None}, c \in Homes :
                    Commit(t, [p \in import |-> Written(t, t, c)])
          BY <3>3
        <4>2. import \subseteq Rows /\ Written(t, t, c) \in Row
          BY <1>2, <1>3, WrittenIsRow DEF Rows
        <4>3. Writable([p \in import |-> Written(t, t, c)])
          BY <4>2, <1>2, <1>11 DEF Writable
        <4> QED BY <4>1, <4>3
      <3> QED BY <1>5, <3>1, <3>2, <3>3 DEF SaveRow
    <2> QED  BY <2>1, <2>2, CommitKeeps
  <1>6. CASE CreateFromPhone(t)
    <2>1. PICK ts \in PhoneTimes :
            \/ \E c \in Categories : db[c] = None /\ Commit(t, Only(c, Written(t, ts, None)))
            \/ \E p \in Products, c \in Homes :
                  db[p] = None /\ Commit(t, Only(p, Written(t, ts, c)))
      BY <1>6 DEF CreateFromPhone
    <2>2. clock' = clock /\ ts \in Nat
      BY <1>6, PullAssumption DEF CreateFromPhone
    <2>3. \E new : Writable(new) /\ Commit(t, new)
      <3>1. CASE \E c \in Categories : Commit(t, Only(c, Written(t, ts, None)))
        <4>1. PICK c \in Categories : Commit(t, Only(c, Written(t, ts, None)))
          BY <3>1
        <4>2. c \in Rows /\ Written(t, ts, None) \in Row
          BY <1>2, <2>2, WrittenIsRow DEF Rows
        <4> QED BY <4>1, <4>2, <1>2, <1>4, <1>10, <1>11
      <3>2. CASE \E p \in Products, c \in Homes : Commit(t, Only(p, Written(t, ts, c)))
        <4>1. PICK p \in Products, c \in Homes : Commit(t, Only(p, Written(t, ts, c)))
          BY <3>2
        <4>2. p \in Rows /\ Written(t, ts, c) \in Row
          BY <1>2, <2>2, <1>3, WrittenIsRow DEF Rows
        <4> QED BY <4>1, <4>2, <2>2, <1>4, <1>11
      <3> QED BY <2>1, <3>1, <3>2
    <2> QED  BY <2>2, <2>3, CommitKeeps
  <1>7. CASE DeleteRow(t)
    <2>1. PICK r \in {q \in Categories \cup Products : Live(q)} :
            /\ clock' = clock + 1
            /\ Commit(t, Over(Only(r, [db[r] EXCEPT !.by = t, !.ts = t, !.gone = clock + 1]),
                              [p \in {p \in Products : db[p] # None /\ db[p].link = r} |->
                                 [db[p] EXCEPT !.by = t, !.ts = t, !.link = None]]))
      BY <1>7 DEF DeleteRow
    <2> DEFINE members == {p \in Products : db[p] # None /\ db[p].link = r}
               freed == [p \in members |-> [db[p] EXCEPT !.by = t, !.ts = t, !.link = None]]
               dead == [db[r] EXCEPT !.by = t, !.ts = t, !.gone = clock + 1]
    <2>2. r \in Rows /\ dead \in Row
      <3>1. r \in Rows /\ db[r] \in Row
        BY <1>2 DEF Live, Rows
      <3>2. clock + 1 \in Nat
        BY <1>2
      <3> QED BY <3>1, <3>2, <1>2 DEF Row
    <2>3. DOMAIN freed = members /\ members \subseteq Rows
      BY DEF Rows
    <2>4. \A p \in members : freed[p] \in Row
      <3> SUFFICES ASSUME NEW p \in members PROVE freed[p] \in Row
        OBVIOUS
      <3>1. db[p] \in Row
        BY <1>2, <2>3
      <3> QED BY <3>1, <1>2 DEF Row
    <2>7. Refers(dead, r)
      <3>1. db[r] \in Row /\ db[r] # None
        BY <1>2 DEF Live, Rows
      <3>2. dead.link = db[r].link
        BY <3>1 DEF Row
      <3> HIDE DEF dead
      <3> QED  BY <3>1, <3>2, <2>2, <1>12 DEF Refers
    <2>8. \A p \in members : Refers(freed[p], p)
      <3> SUFFICES ASSUME NEW p \in members PROVE freed[p].link = None
        BY DEF Refers
      <3>1. db[p] \in Row
        BY <1>2, <2>3
      <3> QED BY <3>1 DEF Row
    <2>5. Writable(Over(Only(r, dead), freed))
      <3> HIDE DEF dead, freed, members
      <3>1. DOMAIN Only(r, dead) = {r} /\ Only(r, dead)[r] = dead
        BY SingleIs
      <3> QED BY <2>2, <2>3, <2>4, <2>7, <2>8, <3>1 DEF Writable, Over
    <2>6. Commit(t, Over(Only(r, dead), freed))
      BY <2>1
    <2> QED  BY <2>1, <2>5, <2>6, CommitKeeps
  <1>8. CASE PushSales(t)
    <2>1. PICK batch \in SUBSET {s \in Sales : db[s] = None} \ {{}} :
            Commit(t, [s \in batch |-> Written(t, t, None)])
      BY <1>8 DEF PushSales
    <2>2. batch \subseteq Rows /\ Written(t, t, None) \in Row /\ clock' = clock
      BY <1>2, <1>8, WrittenIsRow DEF Rows, PushSales
    <2>3. Writable([s \in batch |-> Written(t, t, None)])
      BY <2>2, <1>10 DEF Writable
    <2> QED  BY <2>1, <2>2, <2>3, CommitKeeps
  <1>9. CASE PushReturn(t)
    <2>1. PICK r \in Returns, s \in Sales :
            db[s] # None /\ Commit(t, Only(r, Written(t, t, s)))
      BY <1>9 DEF PushReturn
    <2>3. Refers(Written(t, t, s), r)
      <3>1. r \in Phases[4] /\ s \in Phases[3]
        BY DEF Phases
      <3> QED  BY <2>1, <3>1 DEF Refers, Written
    <2>2. r \in Rows /\ Written(t, t, s) \in Row /\ clock' = clock
      BY <1>2, <1>9, WrittenIsRow DEF Rows, PushReturn
    <2> QED  BY <2>1, <2>2, <2>3, <1>4, CommitKeeps
  <1> QED  BY <1>1, <1>5, <1>6, <1>7, <1>8, <1>9

-----------------------------------------------------------------------------
(* Pages and the phone. *)

LEMMA BeginKeeps ==
  ASSUME PullInv, Begin
  PROVE  PullInv'
  <1>1. /\ db' = db /\ page' = page /\ copy' = copy /\ since' = since /\ first' = first
        /\ cursor' = cursor /\ lost' = lost /\ late' = late /\ fresh' = fresh
        /\ clock \in Nat /\ clock' = clock + 1 /\ open' = open \cup {clock + 1}
    BY DEF Begin, phone, PullInv, TypeOK
  <1>2. TypeOK'
    <2>1. open' \subseteq 1..clock'
      BY <1>1 DEF PullInv, TypeOK
    <2>2. page # None => page.at \in 0..clock'
      BY <1>1 DEF PullInv, TypeOK
    <2> QED BY <1>1, <2>1, <2>2 DEF PullInv, TypeOK
  <1>3. PageShape' /\ Kept' /\ Underway' /\ OnPage'
    BY <1>1 DEF PullInv, PageShape, Kept, Underway, OnPage, Excused, Ahead, Beyond,
                AheadOfPage, AtHand, KeptTime
  <1>4. TimesInOrder'
    BY <1>1 DEF PullInv, TypeOK, TimesInOrder
  <1>5. Following'
    BY <1>1 DEF PullInv, Following, LinksBack, Refers, PageAhead, Brought, BroughtOnPage,
                ParentsAsked, Had, HadOnPage, Ahead, Beyond, AheadOfPage
  <1> QED  BY <1>2, <1>3, <1>4, <1>5 DEF PullInv

\* A page starts with what the phone has.
LEMMA GetChangesKeeps ==
  ASSUME PullInv, GetChanges
  PROVE  PullInv'
  <1>1. /\ db' = db /\ open' = open /\ clock' = clock /\ copy' = copy /\ since' = since
        /\ first' = first /\ cursor' = cursor /\ lost' = lost /\ late' = late /\ fresh' = fresh
        /\ page = None /\ clock \in Nat
    BY DEF GetChanges, writing, phone, PullInv, TypeOK
  <1>2. /\ page' = [at |-> clock, pos |-> cursor, left |-> Limit, rows |-> <<>>,
                    next |-> None, done |-> FALSE]
        /\ page'.at = clock /\ page'.pos = cursor /\ page'.left = Limit
        /\ page'.rows = <<>> /\ page'.next = None /\ page'.done = FALSE
    BY DEF GetChanges
  <1>3. DOMAIN (page'.rows) = {}
    BY <1>2
  <1>4. TypeOK'
    BY <1>1, <1>2, <1>3, PullAssumption DEF PullInv, TypeOK
  <1>5. PageShape'
    BY <1>2, PullAssumption DEF PageShape
  <1>6. TimesInOrder'
    BY <1>1, <1>2 DEF PullInv, TimesInOrder
  <1>7. Kept' /\ Underway'
    BY <1>1 DEF PullInv, Kept, Underway, Excused, Ahead, Beyond
  <1>8. OnPage'
    <2> SUFFICES ASSUME NEW r \in Rows, db[r] # None
                 PROVE  \/ AtHand(r)' = db[r] \/ Excused(r, KeptTime)'
                        \/ Changed(db[r], since) /\ AheadOfPage(r)'
      BY <1>1 DEF OnPage
    <2>1. AtHand(r)' = copy[r]
      BY <1>1, <1>3 DEF AtHand
    <2>2. AheadOfPage(r)' <=> Ahead(r, cursor)
      BY <1>1, <1>2 DEF AheadOfPage, Ahead, Beyond
    <2>3. CASE first # None
      <3>1. KeptTime' = first
        BY <1>1, <2>3 DEF KeptTime
      <3> QED BY <2>1, <2>2, <2>3, <3>1, <1>1 DEF PullInv, Underway, Excused
    <2>4. CASE first = None
      <3>1. Ahead(r, cursor)
        BY <2>4, AllAheadOfStart DEF PullInv, TimesInOrder
      <3>2. CASE since = None
        BY <2>2, <3>1, <3>2 DEF Changed
      <3>3. CASE since # None
        <4>1. copy[r] = db[r] \/ Changed(db[r], since) \/ r \in late
          BY <3>3 DEF PullInv, Kept, Excused
        <4> QED BY <4>1, <2>1, <2>2, <3>1, <1>1 DEF Excused
      <3> QED BY <3>2, <3>3
    <2> QED BY <2>3, <2>4
  <1>9. LinksBack' /\ PageAhead' /\ ParentsAsked'
    BY <1>1, <1>2, <1>3 DEF PullInv, Following, LinksBack, Refers, PageAhead, ParentsAsked
  <1>10. Brought'
    BY <1>1 DEF PullInv, Following, Brought, Had, Ahead, Beyond
  <1>11. BroughtOnPage'
    <2> SUFFICES ASSUME NEW r \in Rows, db[r] # None
                 PROVE  HadOnPage(r)' \/ (Changed(db[r], since) /\ AheadOfPage(r)')
      BY <1>1 DEF BroughtOnPage
    <2>1. HadOnPage(r)' <=> Had(r)
      BY <1>1, <1>3 DEF HadOnPage, Had
    <2>2. AheadOfPage(r)' <=> Ahead(r, cursor)
      BY <1>1, <1>2 DEF AheadOfPage, Ahead, Beyond
    <2>3. CASE first # None
      BY <2>1, <2>2, <2>3 DEF PullInv, Following, Brought
    <2>4. CASE first = None
      <3>1. Ahead(r, cursor)
        BY <2>4, AllAheadOfStart DEF PullInv, TimesInOrder
      <3>2. CASE since = None
        BY <2>2, <3>1, <3>2 DEF Changed
      <3>3. CASE since # None
        BY <2>1, <2>2, <3>1, <3>3 DEF PullInv, Kept, Excused, Had
      <3> QED BY <3>2, <3>3
    <2> QED BY <2>3, <2>4
  <1>12. Following'
    BY <1>9, <1>10, <1>11 DEF Following
  <1> QED  BY <1>4, <1>5, <1>6, <1>7, <1>8, <1>12 DEF PullInv

\* One query: what it finds is on the page or comes after its last row.
LEMMA ListPhaseKeeps ==
  ASSUME PullInv, ListPhase
  PROVE  PullInv'
  <1> USE NoneIsNoTime
  <1>1. /\ db' = db /\ open' = open /\ clock' = clock /\ copy' = copy /\ since' = since
        /\ first' = first /\ cursor' = cursor /\ lost' = lost /\ late' = late
        /\ fresh' = fresh \ Found(page.pos)
        /\ page # None /\ ~page.done
    BY DEF ListPhase, writing, phone
  <1>2. PICK at, pos, n, rows, next :
          /\ page = [at |-> at, pos |-> pos, left |-> n, rows |-> rows,
                     next |-> next, done |-> FALSE]
          /\ at \in 0..clock /\ pos \in Cursor /\ n \in 1..Limit
          /\ next \in Cursor \cup {None}
          /\ \A r \in DOMAIN rows : r \in Rows /\ rows[r] \in Row
    <2>1. /\ page = [at |-> page.at, pos |-> page.pos, left |-> page.left,
                     rows |-> page.rows, next |-> page.next, done |-> page.done]
          /\ page.done = FALSE /\ page.left > 0
      BY <1>1 DEF PullInv, PageShape
    <2>2. /\ page.at \in 0..clock /\ page.pos \in Cursor /\ page.left \in 0..Limit
          /\ page.next \in Cursor \cup {None}
          /\ \A r \in DOMAIN page.rows : r \in Rows /\ page.rows[r] \in Row
      BY <1>1 DEF PullInv, TypeOK
    <2>3. page.left \in 1..Limit
      BY <2>1, <2>2, PullAssumption
    <2>4. page = [at |-> page.at, pos |-> page.pos, left |-> page.left,
                  rows |-> page.rows, next |-> page.next, done |-> FALSE]
      BY <2>1
    <2> QED  BY <2>2, <2>3, <2>4
  <1>3. /\ pos.phase \in 1..4 /\ db \in [Rows -> Row \cup {None}]
        /\ n \in Nat \ {0} /\ clock \in Nat
        /\ pos = [phase |-> pos.phase, after |-> pos.after]
    BY <1>2, PullAssumption DEF Cursor, PullInv, TypeOK
  <1>4. PICK found : found = Found(pos)
    OBVIOUS
  <1>5. PICK items : items = Top(found, n)
    OBVIOUS
  <1>6. PICK left : left = n - Cardinality(items)
    OBVIOUS
  <1>7. PICK rows2 : rows2 = Over([r \in items |-> db[r]], rows)
    OBVIOUS
  <1>8. /\ \A r \in found : r \in Rows /\ r \in Phases[pos.phase] /\ db[r] \in Row
        /\ \A r \in Phases[pos.phase] :
             db[r] # None /\ Changed(db[r], since) /\ Beyond(r, pos.after) => r \in found
    <2>1. \A r \in found : r \in Phases[pos.phase] /\ db[r] # None
      BY <1>4 DEF Found
    <2> QED  BY <1>3, <1>4, <2>1, PhaseRows DEF Found
  <1>9. Dated(found)
    BY <1>8 DEF Dated, Row
  <1>10. /\ items \subseteq found /\ left \in 0..Limit
         /\ found # items => /\ Last(items) \in items
                             /\ \A r \in found \ items : Before(Last(items), r)
    <2>1. items \subseteq found /\ Cardinality(items) \in 0..n
      BY <1>3, <1>5, <1>9, TopBounded
    <2>2. \A r \in found \ items : Last(items) \in items /\ Before(Last(items), r)
      BY <1>3, <1>5, <1>9, TopLast
    <2>3. left \in 0..Limit
      BY <1>2, <1>6, <2>1, PullAssumption
    <2> QED  BY <2>1, <2>2, <2>3
  <1>11. /\ \A r \in DOMAIN rows2 : r \in Rows /\ rows2[r] \in Row
         /\ \A r \in items : r \in DOMAIN rows2 /\ rows2[r] = db[r]
         /\ \A r : r \notin items => (r \in DOMAIN rows2 <=> r \in DOMAIN rows)
         /\ \A r \in DOMAIN rows : r \notin items => rows2[r] = rows[r]
    BY <1>2, <1>7, <1>8, <1>10 DEF Over
  <1>12. PICK m : m = Last(items)
    OBVIOUS
  \* What the page still has to read, or where the next one goes on.
  <1>13. \E pos2, next2, done :
           /\ page' = [at |-> at, pos |-> pos2, left |-> left, rows |-> rows2,
                       next |-> next2, done |-> done]
           /\ pos2 \in Cursor /\ next2 \in Cursor \cup {None} /\ done \in BOOLEAN
           /\ ~done => left > 0
           /\ pos2 = pos \/ (pos2.phase = pos.phase + 1 /\ pos2.after = None)
           /\ done => IF next2 = None THEN pos2.phase = 4
                      ELSE \/ next2.phase = pos2.phase
                           \/ next2.phase = pos2.phase + 1 /\ next2.after = None
           /\ \A r \in Rows : db[r] # None /\ Changed(db[r], since) /\ Ahead(r, pos)
                 => r \in items \/ IF done THEN next2 # None /\ Ahead(r, next2)
                                   ELSE Ahead(r, pos2)
    <2> DEFINE read == [page EXCEPT !.rows = Over([r \in items |-> db[r]], @), !.left = left]
    <2>1. read = [at |-> at, pos |-> pos, left |-> left, rows |-> rows2,
                  next |-> next, done |-> FALSE]
      <3>1. read = [page EXCEPT !.rows = rows2, !.left = left]
        BY <1>2, <1>7
      <3>2. [page EXCEPT !.rows = rows2, !.left = left]
              = [at |-> at, pos |-> pos, left |-> left, rows |-> rows2,
                 next |-> next, done |-> FALSE]
        <4>0. PICK f : f = FALSE
          OBVIOUS
        <4>1. PICK mid : mid = [page EXCEPT !.rows = rows2]
          OBVIOUS
        <4>2. mid = [at |-> at, pos |-> pos, left |-> n, rows |-> rows2,
                     next |-> next, done |-> f]
          <5>1. page = [at |-> at, pos |-> pos, left |-> n, rows |-> rows,
                        next |-> next, done |-> f]
            BY <4>0, <1>2
          <5> QED  BY <4>1, <5>1
        <4>3. [mid EXCEPT !.left = left]
                = [at |-> at, pos |-> pos, left |-> left, rows |-> rows2,
                   next |-> next, done |-> f]
          BY <4>2
        <4>4. [page EXCEPT !.rows = rows2, !.left = left] = [mid EXCEPT !.left = left]
          BY <4>1, Zenon
        <4> QED  BY <4>0, <4>3, <4>4, Zenon
      <3> QED  BY <3>1, <3>2
    <2>2. page.pos = pos /\ page.left = n
      BY <1>2
    <2>3. page' = IF found # items
                  THEN [read EXCEPT !.done = TRUE,
                                    !.next = [phase |-> pos.phase, after |-> <<db[m].ts, m>>]]
                  ELSE IF left = 0 \/ pos.phase = 4
                  THEN [read EXCEPT !.done = TRUE, !.next = NextPhase(pos.phase)]
                  ELSE [read EXCEPT !.pos = [phase |-> pos.phase + 1, after |-> None]]
      BY <2>2, <1>4, <1>5, <1>6, <1>12 DEF ListPhase
    <2>4. ASSUME NEW r \in Rows, Ahead(r, pos), ~\E k \in 1..4 : k > pos.phase /\ r \in Phases[k]
          PROVE  r \in Phases[pos.phase] /\ Beyond(r, pos.after)
      BY <2>4 DEF Ahead
    <2>5. CASE found # items
      <3> DEFINE next2 == [phase |-> pos.phase, after |-> <<db[m].ts, m>>]
      <3>1. m \in items /\ m \in Rows /\ db[m].ts \in Nat
        BY <2>5, <1>8, <1>10, <1>12 DEF Row
      <3>2. next2 \in Cursor /\ next2.phase = pos.phase /\ next2.after = <<db[m].ts, m>>
        BY <3>1, <1>3 DEF Cursor
      <3>3. ASSUME NEW r \in Rows, db[r] # None, Changed(db[r], since), Ahead(r, pos),
                   r \notin items
            PROVE  Ahead(r, next2)
        <4>1. CASE \E k \in 1..4 : k > pos.phase /\ r \in Phases[k]
          BY <4>1, <3>2 DEF Ahead
        <4>2. CASE ~\E k \in 1..4 : k > pos.phase /\ r \in Phases[k]
          <5>1. r \in Phases[pos.phase] /\ r \in found
            BY <4>2, <3>3, <2>4, <1>8
          <5>2. Before(m, r)
            BY <5>1, <3>3, <2>5, <1>10, <1>12
          <5>3. Beyond(r, next2.after)
            <6>1. Beyond(r, <<db[m].ts, m>>)
              <7>1. r \in Nat /\ m \in Nat /\ db[r].ts \in Nat /\ db[m].ts \in Nat
                BY <3>1, <5>1, <1>8, PullAssumption DEF Row
              <7>2. \/ db[m].ts < db[r].ts
                    \/ db[m].ts = db[r].ts /\ m < r
                BY <5>2 DEF Before
              <7>3. <<db[m].ts, m>>[1] = db[m].ts /\ <<db[m].ts, m>>[2] = m
                OBVIOUS
              <7>4. \/ db[r].ts > db[m].ts
                    \/ db[r].ts = db[m].ts /\ r > m
                BY <7>1, <7>2
              <7> QED  BY <7>3, <7>4 DEF Beyond
            <6> QED  BY <6>1, <3>2
          <5> QED  BY <5>1, <5>3, <3>2, <1>3 DEF Ahead
        <4> QED  BY <4>1, <4>2
      <3>4. page' = [at |-> at, pos |-> pos, left |-> left, rows |-> rows2,
                     next |-> next2, done |-> TRUE]
        BY <2>1, <2>3, <2>5
      <3>5. next2 # None
        BY <3>2
      <3> HIDE DEF next2
      <3> QED  BY <1>2, <3>2, <3>3, <3>4, <3>5
    <2>6. CASE found = items /\ (left = 0 \/ pos.phase = 4)
      <3>1. PICK next2 : next2 = NextPhase(pos.phase)
        OBVIOUS
      <3>2. /\ next2 \in Cursor \cup {None}
            /\ pos.phase < 4 => next2 = [phase |-> pos.phase + 1, after |-> None]
            /\ next2 = None => pos.phase = 4
            /\ next2 # None => next2.phase = pos.phase + 1 /\ next2.after = None
        BY <3>1, <1>3 DEF NextPhase, Cursor
      <3>3. ASSUME NEW r \in Rows, db[r] # None, Changed(db[r], since), Ahead(r, pos),
                   r \notin items
            PROVE  next2 # None /\ Ahead(r, next2)
        <4>1. PICK k \in 1..4 : k > pos.phase /\ r \in Phases[k]
          BY <3>3, <2>4, <2>6, <1>8
        <4>2. next2 = [phase |-> pos.phase + 1, after |-> None] /\ k >= pos.phase + 1
          BY <4>1, <3>2, <1>3
        <4>3. next2.phase = pos.phase + 1 /\ next2.after = None
          BY <4>2
        <4>4. Ahead(r, next2)
          BY <4>1, <4>2, <4>3, <1>3 DEF Ahead, Beyond
        <4>5. next2 # None
          <5>1. pos.phase < 4
            BY <4>1, <1>3
          <5>2. next2 \in Cursor
            BY <5>1, <3>2, <1>3 DEF Cursor
          <5> QED  BY <5>2
        <4> QED  BY <4>4, <4>5
      <3>4. page' = [at |-> at, pos |-> pos, left |-> left, rows |-> rows2,
                     next |-> next2, done |-> TRUE]
        BY <2>1, <2>3, <2>6, <3>1
      <3> QED  BY <1>2, <3>2, <3>3, <3>4
    <2>7. CASE found = items /\ left # 0 /\ pos.phase # 4
      <3>1. PICK pos2 : pos2 = [phase |-> pos.phase + 1, after |-> None]
        OBVIOUS
      <3>2. pos2 \in Cursor /\ pos2.phase = pos.phase + 1 /\ pos2.after = None
        BY <3>1, <2>7, <1>3 DEF Cursor
      <3>3. ASSUME NEW r \in Rows, db[r] # None, Changed(db[r], since), Ahead(r, pos),
                   r \notin items
            PROVE  Ahead(r, pos2)
        <4>1. PICK k \in 1..4 : k > pos.phase /\ r \in Phases[k]
          BY <3>3, <2>4, <2>7, <1>8
        <4> QED  BY <4>1, <3>2, <1>3 DEF Ahead, Beyond
      <3>4. page' = [at |-> at, pos |-> pos2, left |-> left, rows |-> rows2,
                     next |-> next, done |-> FALSE]
        BY <2>1, <2>3, <2>7, <3>1
      <3>5. left > 0
        BY <2>7, <1>10
      <3> QED  BY <1>2, <3>2, <3>3, <3>4, <3>5
    <2> QED  BY <2>5, <2>6, <2>7
  <1>14. PICK pos2, next2, done :
           /\ page' = [at |-> at, pos |-> pos2, left |-> left, rows |-> rows2,
                       next |-> next2, done |-> done]
           /\ pos2 \in Cursor /\ next2 \in Cursor \cup {None} /\ done \in BOOLEAN
           /\ ~done => left > 0
           /\ pos2 = pos \/ (pos2.phase = pos.phase + 1 /\ pos2.after = None)
           /\ done => IF next2 = None THEN pos2.phase = 4
                      ELSE \/ next2.phase = pos2.phase
                           \/ next2.phase = pos2.phase + 1 /\ next2.after = None
           /\ \A r \in Rows : db[r] # None /\ Changed(db[r], since) /\ Ahead(r, pos)
                 => r \in items \/ IF done THEN next2 # None /\ Ahead(r, next2)
                                   ELSE Ahead(r, pos2)
    BY <1>13
  <1>15. /\ page'.at = at /\ page'.pos = pos2 /\ page'.left = left /\ page'.rows = rows2
         /\ page'.next = next2 /\ page'.done = done
         /\ page.at = at /\ page.pos = pos /\ page.rows = rows
    BY <1>2, <1>14
  <1>16. TypeOK'
    BY <1>1, <1>2, <1>10, <1>11, <1>14, <1>15 DEF PullInv, TypeOK
  <1>17. PageShape'
    BY <1>14, <1>15 DEF PageShape
  <1>18. TimesInOrder'
    BY <1>1, <1>15 DEF PullInv, TimesInOrder
  <1>19. Kept' /\ Underway'
    BY <1>1 DEF PullInv, Kept, Underway, Excused, Ahead, Beyond
  <1>20. OnPage'
    <2> SUFFICES ASSUME NEW r \in Rows, db[r] # None
                 PROVE  \/ AtHand(r)' = db[r] \/ Excused(r, KeptTime)'
                        \/ Changed(db[r], since) /\ AheadOfPage(r)'
      BY <1>1 DEF OnPage
    <2>1. KeptTime' = KeptTime
      BY <1>1, <1>15 DEF KeptTime
    <2>2. CASE r \in items
      BY <2>2, <1>11, <1>15 DEF AtHand
    <2>3. CASE r \notin items
      <3>1. AtHand(r)' = AtHand(r)
        BY <2>3, <1>1, <1>11, <1>15 DEF AtHand
      <3>2. AheadOfPage(r) <=> Ahead(r, pos)
        BY <1>1, <1>15 DEF AheadOfPage
      <3>3. \A q : Ahead(r, q)' <=> Ahead(r, q)
        BY <1>1 DEF Ahead, Beyond
      <3>4. Changed(db[r], since) /\ Ahead(r, pos) => AheadOfPage(r)'
        BY <2>3, <3>3, <1>14, <1>15 DEF AheadOfPage
      <3> QED  BY <2>1, <3>1, <3>2, <3>4, <1>1 DEF PullInv, OnPage, Excused
    <2> QED  BY <2>2, <2>3
  <1>21. LinksBack'
    BY <1>1 DEF PullInv, Following, LinksBack, Refers
  <1>22. PageAhead'
    <2>1. pos = cursor \/ (pos.phase > cursor.phase /\ pos.after = None)
      BY <1>1, <1>15 DEF PullInv, Following, PageAhead
    <2>2. cursor.phase \in 1..4
      BY DEF PullInv, TypeOK, Cursor
    <2>3. pos2 = cursor \/ (pos2.phase > cursor.phase /\ pos2.after = None)
      BY <1>3, <1>14, <2>1, <2>2
    <2> QED  BY <1>1, <1>14, <1>15, <2>3 DEF PageAhead
  <1>23. /\ fresh' = fresh \ found
         /\ \A r \in Rows : r \in found => Changed(db[r], since) /\ Ahead(r, pos)
    BY <1>1, <1>3, <1>4, <1>15 DEF Found, Ahead
  <1>24. \A r \in Rows : Ahead(r, pos) => Ahead(r, cursor)
    <2> SUFFICES ASSUME NEW r \in Rows, Ahead(r, pos), pos # cursor
                 PROVE  Ahead(r, cursor)
      OBVIOUS
    <2>1. pos.phase > cursor.phase /\ cursor.phase \in 1..4
      BY <1>1, <1>15 DEF PullInv, TypeOK, Cursor, Following, PageAhead
    <2>2. PICK k \in 1..4 : r \in Phases[k] /\ k >= pos.phase
      BY <1>3 DEF Ahead
    <2> QED  BY <1>3, <2>1, <2>2 DEF Ahead
  <1>25. \A r : \A q : Ahead(r, q)' <=> Ahead(r, q)
    BY <1>1 DEF Ahead, Beyond
  <1>26. Brought'
    <2> SUFFICES ASSUME first # None, NEW r \in Rows, db[r] # None, ~Had(r)'
                 PROVE  Changed(db[r], since) /\ Ahead(r, cursor)
      BY <1>1, <1>25 DEF Brought
    <2>1. CASE r \in found
      BY <2>1, <1>23, <1>24
    <2>2. CASE r \notin found
      BY <2>2, <1>1, <1>23 DEF PullInv, Following, Brought, Had
    <2> QED  BY <2>1, <2>2
  <1>27. \A r \in Rows \ found : HadOnPage(r) => HadOnPage(r)'
    BY <1>1, <1>10, <1>11, <1>15, <1>23 DEF HadOnPage, Had
  <1>28. BroughtOnPage'
    <2> SUFFICES ASSUME NEW r \in Rows, db[r] # None, ~HadOnPage(r)'
                 PROVE  Changed(db[r], since) /\ AheadOfPage(r)'
      BY <1>1 DEF BroughtOnPage
    <2>1. r \notin items
      BY <1>11, <1>15 DEF HadOnPage
    <2>2. Changed(db[r], since) /\ Ahead(r, pos)
      <3>1. CASE r \in found
        BY <3>1, <1>23
      <3>2. CASE r \notin found
        <4>1. ~HadOnPage(r)
          BY <3>2, <1>27
        <4> QED  BY <4>1, <1>1, <1>15 DEF PullInv, Following, BroughtOnPage, AheadOfPage
      <3> QED  BY <3>1, <3>2
    <2> QED  BY <2>1, <2>2, <1>14, <1>15, <1>25 DEF AheadOfPage
  <1>29. \A j \in 1..4 : j < pos.phase => Phases[j] \cap found = {}
    BY <1>3, <1>8, PullAssumption
  <1>30. ParentsAsked'
    <2> SUFFICES ASSUME NEW r \in DOMAIN rows2, rows2[r].link # None
                 PROVE  /\ \E j \in 1..4 : j < pos2.phase /\ rows2[r].link \in Phases[j]
                        /\ HadOnPage(rows2[r].link)'
      BY <1>1, <1>15 DEF ParentsAsked
    <2>1. PICK parent : parent = rows2[r].link
      OBVIOUS
    <2>2. ASSUME NEW j \in 1..4, j < pos.phase, parent \in Phases[j], HadOnPage(parent)
          PROVE  /\ \E i \in 1..4 : i < pos2.phase /\ parent \in Phases[i]
                 /\ HadOnPage(parent)'
      <3>1. j < pos2.phase
        BY <2>2, <1>3, <1>14
      <3>2. parent \in Rows \ found
        BY <2>2, <1>29, PhaseRows
      <3> QED  BY <2>2, <3>1, <3>2, <1>27
    <2>3. CASE r \in items
      <3>1. rows2[r] = db[r] /\ r \in Rows /\ r \in Phases[pos.phase] /\ db[r] \in Row
        BY <2>3, <1>8, <1>10, <1>11
      <3>2. db[r] # None /\ db[r].link = parent /\ parent # None
        BY <2>1, <3>1, PullAssumption
      <3>3. PICK j \in 1..4, k \in 1..4 : /\ j < k /\ r \in Phases[k]
                                         /\ parent \in Phases[j] /\ db[parent] # None
        BY <3>1, <3>2 DEF PullInv, Following, LinksBack, Refers
      <3>4. k = pos.phase
        BY <3>1, <3>3, <1>3, PullAssumption
      <3>5. ~Ahead(parent, pos) /\ parent \in Rows
        BY <3>3, <3>4, <1>3, PullAssumption, PhaseRows DEF Ahead
      <3>6. HadOnPage(parent)
        BY <3>3, <3>5, <1>1, <1>15 DEF PullInv, Following, BroughtOnPage, AheadOfPage
      <3> QED  BY <2>1, <2>2, <3>3, <3>4, <3>6
    <2>4. CASE r \notin items
      <3>1. r \in DOMAIN page.rows /\ page.rows[r].link = parent /\ parent # None
        BY <2>1, <2>4, <1>11, <1>15
      <3>2. PICK j \in 1..4 : j < pos.phase /\ parent \in Phases[j] /\ HadOnPage(parent)
        BY <3>1, <1>1, <1>15 DEF PullInv, Following, ParentsAsked
      <3> QED  BY <2>1, <2>2, <3>2
    <2> QED  BY <2>3, <2>4
  <1>31. Following'
    BY <1>21, <1>22, <1>26, <1>28, <1>30 DEF Following
  <1> QED  BY <1>16, <1>17, <1>18, <1>19, <1>20, <1>31 DEF PullInv

\* The phone takes the page: what the page lacks is ahead of the next one, and
\* nothing is ahead when there is no next one.
LEMMA ReceiveKeeps ==
  ASSUME PullInv, Receive
  PROVE  PullInv'
  <1> USE NoneIsNoTime
  <1>1. /\ db' = db /\ open' = open /\ clock' = clock /\ lost' = lost /\ page' = None
        /\ page # None /\ page.done /\ copy' = Over(page.rows, copy)
        /\ late' = late \ {r \in DOMAIN page.rows : page.rows[r] = db[r]}
    BY DEF Receive, writing
  <1>2. /\ db \in [Rows -> Row \cup {None}] /\ copy \in [Rows -> Row \cup {None}]
        /\ clock \in Nat /\ since \in Nat \cup {None} /\ first \in Nat \cup {None}
        /\ page.at \in 0..clock /\ page.next \in Cursor \cup {None} /\ late \subseteq Rows
        /\ \A r \in DOMAIN page.rows : r \in Rows /\ page.rows[r] \in Row
    BY <1>1 DEF PullInv, TypeOK
  <1>3. copy' \in [Rows -> Row \cup {None}] /\ \A r \in Rows : copy'[r] = AtHand(r)
    <2>1. copy' = [r \in Rows |-> AtHand(r)]
      <3>1. DOMAIN copy = Rows /\ DOMAIN page.rows \cup Rows = Rows
        BY <1>2
      <3> QED  BY <3>1, <1>1 DEF Over, AtHand
    <2>2. \A r \in Rows : AtHand(r) \in Row \cup {None}
      BY <1>2 DEF AtHand
    <2> QED  BY <2>1, <2>2
  <1>4. KeptTime \in Nat /\ KeptTime <= clock /\ (since # None => since <= KeptTime)
    BY <1>1, <1>2 DEF KeptTime, PullInv, TimesInOrder
  <1>5. \A r \in Rows : copy'[r] # db[r] /\ r \in late => r \in late'
    <2> SUFFICES ASSUME NEW r \in Rows, copy'[r] # db[r], r \in late PROVE r \in late'
      OBVIOUS
    <2>1. ~(r \in DOMAIN page.rows /\ page.rows[r] = db[r])
      BY <1>3 DEF AtHand
    <2> QED  BY <2>1, <1>1
  \* What a row of the store is once the page is taken.
  <1>6. \A r \in Rows : db[r] # None =>
           \/ copy'[r] = db[r] \/ Changed(db[r], KeptTime) \/ r \in late'
           \/ Changed(db[r], since) /\ page.next # None /\ Ahead(r, page.next)
    <2> SUFFICES ASSUME NEW r \in Rows, db[r] # None, copy'[r] # db[r]
                 PROVE  \/ Changed(db[r], KeptTime) \/ r \in late'
                        \/ Changed(db[r], since) /\ page.next # None /\ Ahead(r, page.next)
      OBVIOUS
    <2>1. AtHand(r) # db[r]
      BY <1>3
    <2>2. \/ Changed(db[r], KeptTime) \/ r \in late
          \/ Changed(db[r], since) /\ page.next # None /\ Ahead(r, page.next)
      BY <2>1, <1>1 DEF PullInv, OnPage, Excused, AheadOfPage
    <2> QED  BY <2>2, <1>5
  <1>7. Kept' \/ since' # since
    <2> SUFFICES ASSUME since' = since, since # None, NEW r \in Rows, db[r] # None,
                        copy'[r] # db[r]
                 PROVE  Changed(db[r], since) \/ r \in late'
      BY <1>1 DEF Kept, Excused
    <2>1. db[r] \in Row
      BY <1>2
    <2>2. Changed(db[r], KeptTime) => Changed(db[r], since)
      BY <2>1, <1>2, <1>4, ChangedEarlier
    <2> QED  BY <2>2, <1>6
  <1>8. late' \subseteq Rows /\ fresh' \subseteq Rows
    BY <1>1, <1>2 DEF Receive, PullInv, TypeOK
  <1>11. LinksBack'
    BY <1>1 DEF PullInv, Following, LinksBack, Refers
  <1>9. CASE page.next = None
    <2>1. since' = KeptTime /\ first' = None /\ cursor' = Start
      BY <1>9 DEF Receive
    <2>2. TypeOK'
      BY <1>1, <1>2, <1>3, <1>4, <1>8, <2>1, StartIs DEF PullInv, TypeOK
    <2>3. Kept'
      BY <1>1, <1>6, <1>9, <2>1 DEF Kept, Excused
    <2>4. TimesInOrder'
      BY <1>1, <1>4, <2>1 DEF TimesInOrder
    <2>5. Underway'
      BY <2>1 DEF Underway
    <2>6. Following'
      BY <1>1, <1>11, <2>1 DEF Following, PageAhead, Brought, BroughtOnPage, ParentsAsked
    <2> QED  BY <1>1, <2>2, <2>3, <2>4, <2>5, <2>6 DEF PullInv, PageShape, OnPage
  <1>10. CASE page.next # None
    <2>1. since' = since /\ first' = KeptTime /\ cursor' = page.next
      BY <1>10 DEF Receive
    <2>2. TypeOK'
      BY <1>1, <1>2, <1>3, <1>4, <1>8, <1>10, <2>1 DEF PullInv, TypeOK
    <2>3. Kept'
      BY <1>7, <2>1
    <2>4. TimesInOrder'
      BY <1>1, <1>2, <1>4, <2>1 DEF PullInv, TimesInOrder
    <2>5. \A r \in Rows : Ahead(r, page.next) => Ahead(r, cursor)'
      BY <1>1, <2>1 DEF Ahead, Beyond
    <2>6. Underway'
      BY <1>1, <1>6, <2>1, <2>5 DEF Underway, Excused
    <2>7. \A r \in Rows : db[r] # None /\ HadOnPage(r) => Had(r)'
      <3> SUFFICES ASSUME NEW r \in Rows, db[r] # None, HadOnPage(r), copy'[r] = None
                   PROVE  r \in fresh' \cup late'
        BY DEF Had
      <3>1. r \notin DOMAIN page.rows /\ copy[r] = None
        BY <1>2, <1>3, PullAssumption DEF AtHand
      <3>2. r \in fresh \cup late
        BY <3>1 DEF HadOnPage, Had
      <3>3. fresh' = fresh
        BY <1>10 DEF Receive
      <3> QED  BY <3>1, <3>2, <3>3, <1>1
    <2>8. Brought'
      <3> SUFFICES ASSUME NEW r \in Rows, db[r] # None, ~Had(r)'
                   PROVE  Changed(db[r], since) /\ Ahead(r, cursor)'
        BY <1>1, <2>1 DEF Brought
      <3>1. Changed(db[r], since) /\ AheadOfPage(r)
        BY <2>7, <1>1 DEF PullInv, Following, BroughtOnPage
      <3> QED  BY <3>1, <2>5, <1>1 DEF AheadOfPage
    <2>9. Following'
      BY <1>1, <1>11, <2>8 DEF Following, PageAhead, BroughtOnPage, ParentsAsked
    <2> QED  BY <1>1, <2>2, <2>3, <2>4, <2>6, <2>9 DEF PullInv, PageShape, OnPage
  <1> QED  BY <1>9, <1>10

\* Nothing of the phone changes when a page is lost.
LEMMA LosePageKeeps ==
  ASSUME PullInv, LosePage
  PROVE  PullInv'
  <1>1. /\ db' = db /\ open' = open /\ clock' = clock /\ copy' = copy /\ since' = since
        /\ first' = first /\ cursor' = cursor /\ late' = late /\ page' = None /\ fresh' = fresh
        /\ lost < MaxLost /\ lost' = lost + 1
    BY DEF LosePage, writing, phone
  <1>2. lost' \in 0..MaxLost
    BY <1>1, PullAssumption DEF PullInv, TypeOK
  <1>3. TypeOK'
    BY <1>1, <1>2 DEF PullInv, TypeOK
  <1>4. Following'
    BY <1>1 DEF PullInv, Following, LinksBack, Refers, PageAhead, Brought, BroughtOnPage,
                ParentsAsked, Had, Ahead, Beyond
  <1> QED  BY <1>1, <1>3, <1>4 DEF PullInv, PageShape, TimesInOrder, Kept, Underway, OnPage, Excused,
                             Ahead, Beyond

\* A pull given up leaves what the phone lacks to the next pull.
LEMMA GiveUpKeeps ==
  ASSUME PullInv, GiveUp
  PROVE  PullInv'
  <1>1. /\ db' = db /\ open' = open /\ clock' = clock /\ copy' = copy /\ since' = since
        /\ first' = None /\ cursor' = Start /\ late' = late /\ page' = page /\ page = None
        /\ fresh' = {} /\ lost < MaxLost /\ lost' = lost + 1
    BY DEF GiveUp, writing
  <1>2. lost' \in 0..MaxLost
    BY <1>1, PullAssumption DEF PullInv, TypeOK
  <1>3. TypeOK'
    BY <1>1, <1>2, StartIs DEF PullInv, TypeOK
  <1>4. Following'
    BY <1>1 DEF PullInv, Following, LinksBack, Refers, PageAhead, Brought, BroughtOnPage,
                ParentsAsked
  <1> QED  BY <1>1, <1>3, <1>4 DEF PullInv, PageShape, TimesInOrder, Kept, Underway, OnPage, Excused

-----------------------------------------------------------------------------
(* Theorems. *)

LEMMA PullInit ==
  ASSUME Init
  PROVE  PullInv
  <1>1. TypeOK
    BY StartIs, PullAssumption DEF Init, TypeOK
  <1> QED  BY <1>1 DEF Init, PullInv, PageShape, TimesInOrder, Kept, Underway, OnPage, Following,
              LinksBack, PageAhead, Brought, BroughtOnPage, ParentsAsked

LEMMA PullStep ==
  ASSUME PullInv, [Next]_vars
  PROVE  PullInv'
  <1>1. CASE Next
    BY <1>1, BeginKeeps, WriteKeeps, GetChangesKeeps, ListPhaseKeeps, ReceiveKeeps,
       LosePageKeeps, GiveUpKeeps DEF Next, Pull
  <1>2. CASE UNCHANGED vars
    BY <1>2 DEF vars, PullInv, TypeOK, PageShape, TimesInOrder, Kept, Underway, OnPage,
                Excused, AtHand, AheadOfPage, Ahead, Beyond, KeptTime, Following, LinksBack,
                Refers, PageAhead, Brought, BroughtOnPage, ParentsAsked, Had, HadOnPage
  <1> QED  BY <1>1, <1>2

\* Between two queries, two pages, two attempts or two pulls, what the phone lacks
\* is ahead of its pull, changed after the server_time the pull began with, or was
\* committed under a server_time already given (service.py list_changes).
THEOREM PullCorrect == Spec => []PullInv
  BY PullInit, PullStep, PTL DEF Spec

\* The types of the rows, pages and cursors of GET /sync/changes.
THEOREM PullTyped == Spec => []TypeOK
  <1>1. PullInv => TypeOK
    BY DEF PullInv
  <1> QED  BY <1>1, PullCorrect, PTL

\* A phone that rests has every row of the store as it is, or the next pull tells
\* of it, unless it was committed under a server_time the phone already had: for
\* any rows, size of page and interleaving with writers (repository.py
\* list_changed_since, service.py list_changes).
THEOREM PullMissesNothing == Spec => []NothingMissed
  <1>1. PullInv => NothingMissed
    BY DEF PullInv, Kept, NothingMissed, Excused
  <1> QED  BY <1>1, PullCorrect, PTL

\* A row of a page refers to a row that is on the page or that the phone has, but
\* for one committed after the pull had asked for its phase or under a server_time
\* already given: for any page size, any pages lost and wherever writers commit
\* between two queries (service.py _PHASES).
THEOREM ParentsComeFirst == Spec => []ParentsFirst
  <1>1. PullInv => ParentsFirst
    BY DEF PullInv, Following, ParentsAsked, ParentsFirst, HadOnPage, Had
  <1> QED  BY <1>1, PullCorrect, PTL
=============================================================================
