------------------------------ MODULE AdminDesk ------------------------------
(***************************************************************************)
(* The back office over the accounts: login of the administrator with its   *)
(* lock, suspension of stores, reset links of the support, the audit log    *)
(* and the lists read page by page with LIMIT and OFFSET.  Its requests are *)
(* transactions of Accounts.  The administrator has logged in before Init.  *)
(***************************************************************************)
EXTENDS Accounts

CONSTANTS DeskRequests,  \* the requests of the administrator
          MaxFailed,     \* MAX_FAILED_LOGINS
          Lists,         \* the lists that are read
          PageSize,      \* limit of a page
          Id             \* the ids of accounts and of stores, in order: they break a tie

ASSUME DeskAssumption ==
    /\ MaxFailed \in Nat \ {0} /\ PageSize \in Nat \ {0}
    /\ Lists \subseteq {"audit", "stores", "users"} /\ IsFiniteSet(Users)
    /\ Id \in [{"users", "stores"} -> [Users -> Nat]]
    /\ \A table \in DOMAIN Id, u, v \in Users : Id[table][u] = Id[table][v] => u = v
    /\ \A r \in DeskRequests :
          /\ r.route \in {"adminLogin", "suspend", "supportLink"}
          /\ r.route = "supportLink" => r.user \in Users
          /\ r.route = "suspend" => r.store \in Users /\ r.on \in BOOLEAN

VARIABLES admin,  \* failures and lock of the administrator
          seen,   \* the row of the administrator that each request has read
          audit,  \* admin_audit_log, in the order of the commits
          walk,   \* the list being read page by page, None before the first page
          early,  \* the logins open that began before the last lock ended
          wrong,  \* history: wrong passwords refused since a success or the end of a lock
          missed  \* history: those of them that no count was kept of

tries == <<early, wrong, missed>>
desk == <<admin, seen, audit, walk, tries>>
vars == <<accounts, desk>>

Admin == [failed: 0..MaxFailed, lock: {"none", "active", "expired"}]

Entry == [action: {"login", "store_suspended", "store_reactivated", "user_password_reset_link"},
          on: Users \cup {None}, at: Times]

\* owed: the rows the list had when the walk began and must show; a store
\* that sells leaves it, and everything when a row of the list is deleted.
Walk == [list: Lists, offset: Nat, over: BOOLEAN,
         shown: SUBSET (Users \cup Nat), owed: SUBSET (Users \cup Nat)]

\* Every table, open transaction and list is well formed.
TypeOK ==
    /\ AccountsTypeOK
    /\ admin \in Admin /\ \A w \in Workers : seen[w] \in Admin
    /\ audit \in Seq(Entry) /\ early \subseteq Workers /\ {wrong, missed} \subseteq Nat
    /\ walk # None => walk \in Walk

Unlocked == [failed |-> 0, lock |-> "none"]

DeskInit ==
    /\ Init
    /\ admin = Unlocked /\ seen = [w \in Workers |-> Unlocked]
    /\ early = {} /\ wrong = 0 /\ missed = 0
    /\ audit = <<[action |-> "login", on |-> None, at |-> 0]>>
    /\ walk = None

\* created_at is clock_timestamp(), the time of the INSERT.
\* Mutant: now(), the time the transaction began.
Stamp_Now(t) == t.at

Stamp(t) == clock

Logged(t, action, u) == audit' = Append(audit, [action |-> action, on |-> u, at |-> Stamp(t)])

-----------------------------------------------------------------------------
(* Login.  The row is read, its lock is compared with the clock of the        *)
(* application, then the password; the failure is counted by one UPDATE that *)
(* leaves an active lock alone and takes the start of the transaction for now. *)

DeskBegin(w) ==
    \E r \in DeskRequests :
        /\ Open(w, r)
        /\ seen' = [seen EXCEPT ![w] = admin]
        /\ UNCHANGED <<admin, audit, walk, tries>>

Failed(row) == IF row.lock = "expired" THEN 1 ELSE row.failed + 1

Count(row) == [failed |-> Failed(row),
               lock |-> IF Failed(row) >= MaxFailed THEN "active" ELSE "none"]

\* locked in service.py: a login that began before the lock it read ended may be
\* judged before that end or after it.
Judged(w) ==
    IF seen[w].lock # "active" THEN {FALSE} ELSE IF w \in early THEN BOOLEAN ELSE {TRUE}

\* locked_until > now() for the UPDATE, where now() is when the login began.
StillLocked(row, w) == row.lock = "active" \/ (row.lock = "expired" /\ w \in early)

\* register_failed_login.  Mutant: it counts from the row read first.
Counted_AsRead(row, w) == IF StillLocked(row, w) THEN row ELSE Count(seen[w])

\* Mutant: an active lock does not stop the UPDATE.
Counted_Locked(row, w) == Count(row)

Counted(row, w) == IF StillLocked(row, w) THEN row ELSE Count(row)

Logins == {w \in Workers : Serves(w, "adminLogin")}

Refused(w) ==
    /\ admin' = Counted(admin, w)
    /\ wrong' = wrong + 1
    /\ missed' = IF admin.lock = "expired" /\ w \in early THEN missed + 1 ELSE missed
    /\ early' = early \ {w}
    /\ UNCHANGED audit

\* register_successful_login; it lifts a lock that came after its SELECT.
Accepted(w) ==
    /\ admin' = Unlocked /\ wrong' = 0 /\ missed' = 0
    /\ early' = (IF admin.lock = "active" THEN Logins ELSE early) \ {w}
    /\ Logged(tx[w], "login", None)

AdminLogin(w) ==
    /\ Serves(w, "adminLogin") /\ Answer(w)
    /\ \E locked \in Judged(w) :
          IF locked THEN early' = early \ {w} /\ UNCHANGED <<admin, audit, wrong, missed>>
          ELSE IF tx[w].req.good THEN Accepted(w) ELSE Refused(w)
    /\ UNCHANGED <<seen, walk>>

\* locked_until, 15 minutes later.
LockExpires ==
    /\ admin.lock = "active"
    /\ admin' = [admin EXCEPT !.lock = "expired"]
    /\ early' = Logins /\ wrong' = 0 /\ missed' = 0
    /\ UNCHANGED <<accounts, seen, audit, walk>>

-----------------------------------------------------------------------------
(* Suspension and support.  The write and its entry are one transaction.     *)

SetSuspension(w) ==
    LET u == tx[w].req.store
        on == tx[w].req.on
    IN /\ Serves(w, "suspend")
       /\ IF stores[u] = None THEN Answer(w) /\ UNCHANGED audit
          ELSE /\ Save(w, users, [stores EXCEPT ![u] = [@ EXCEPT !.suspended = on]], links)
               /\ Logged(tx[w], IF on THEN "store_suspended" ELSE "store_reactivated", u)
               /\ UNCHANGED confirmed
       /\ UNCHANGED <<admin, seen, walk, tries>>

\* The link is given to the merchant on the phone; no address has to be verified.
SupportLink(w) ==
    LET u == tx[w].req.user
        new == Replaced(tx[w], "reset", u, None)
    IN /\ Ready(w, "supportLink")
       /\ Save(w, users, stores, new)
       /\ IF Consistent(users, stores, new) THEN Logged(tx[w], "user_password_reset_link", u)
          ELSE UNCHANGED audit
       /\ UNCHANGED <<confirmed, admin, seen, walk, tries>>

-----------------------------------------------------------------------------
(* Lists: ORDER BY ... DESC, id LIMIT :limit OFFSET :offset, one request a   *)
(* page.                                                                     *)

Accounts == {u \in Users : users[u] # None}
Shops == {u \in Users : stores[u] # None}

Listed(list) ==
    CASE list = "audit" -> DOMAIN audit
      [] list = "users" -> Accounts
      [] list = "stores" -> Shops

\* created_at DESC, id.
NewerRow(table, row, a, b) ==
    \/ row[a].created > row[b].created
    \/ row[a].created = row[b].created /\ Id[table][a] < Id[table][b]

\* list_audit: clock_timestamp() also orders the entries of one tick of this clock.
LaterEntry(a, b) == audit[a].at > audit[b].at \/ (audit[a].at = audit[b].at /\ a > b)

\* list_stores: the last to sell first, then the newest; stores that never
\* sold come last.  Mutant: the first to sell comes first.
SoldBefore_Oldest(a, b) == stores[a].sold < stores[b].sold

SoldBefore(a, b) ==
    \/ stores[a].sold > stores[b].sold
    \/ stores[a].sold = stores[b].sold /\ NewerRow("stores", stores, a, b)

\* The rows of a list that come before row r.
Above(list, r) ==
    {q \in Listed(list) :
        CASE list = "audit" -> LaterEntry(q, r)
          [] list = "users" -> NewerRow("users", users, q, r)
          [] list = "stores" -> SoldBefore(q, r)}

Page(list, offset) ==
    {r \in Listed(list) : Cardinality(Above(list, r)) \in offset..(offset + PageSize - 1)}

\* A page of a list; the reader goes on until a page is empty.
ListPage ==
    /\ \/ /\ walk = None
          /\ \E list \in Lists :
                walk' = [list |-> list, offset |-> PageSize, shown |-> Page(list, 0),
                         owed |-> Listed(list), over |-> Page(list, 0) = {}]
       \/ /\ walk # None /\ ~walk.over
          /\ LET page == Page(walk.list, walk.offset)
             IN walk' = [walk EXCEPT !.offset = @ + PageSize, !.shown = @ \cup page,
                                     !.over = page = {}]
    /\ UNCHANGED <<accounts, admin, seen, audit, tries>>

\* The rows still owed after a step of the merchants.
Owed ==
    LET sold == {u \in Shops : stores'[u] # None /\ stores'[u].sold # stores[u].sold}
        deleted == \E u \in Accounts : users'[u] = None
    IN IF walk.list = "audit" THEN walk.owed
       ELSE IF deleted THEN {}
       ELSE IF walk.list = "stores" THEN walk.owed \ sold ELSE walk.owed

Merchant(step) ==
    /\ step
    /\ walk' = IF walk = None THEN None ELSE [walk EXCEPT !.owed = Owed]
    /\ UNCHANGED <<admin, seen, audit, tries>>

-----------------------------------------------------------------------------
DeskNext ==
    \/ \E w \in Workers :
          \/ DeskBegin(w) \/ AdminLogin(w) \/ SetSuspension(w) \/ SupportLink(w)
          \/ Merchant(AccountSteps(w))
    \/ Merchant(\E l \in links : Expire(l))
    \/ LockExpires
    \/ ListPage

DeskSpec == DeskInit /\ [][DeskNext]_vars

-----------------------------------------------------------------------------
(* Properties *)

\* A burst of logins cannot get past the lock: after MaxFailed wrong passwords
\* in a row the account is locked, though every login of the burst read a row
\* without a lock.  Only a login that began before a lock ended and is judged
\* after that end is not counted, whatever others do meanwhile (service.py login,
\* repository.py register_failed_login).
LockIsFirm == wrong - missed >= MaxFailed => admin.lock = "active"

\* The entries of a store in the log: suspended or reactivated.
About(u) == {i \in DOMAIN audit : audit[i].on = u /\ audit[i].action # "user_password_reset_link"}

Newest(u) == CHOOSE i \in About(u) : \A j \in About(u) :
                 audit[j].at < audit[i].at \/ (audit[j].at = audit[i].at /\ j <= i)

\* The newest entry of a store in the log tells whether it is suspended,
\* whatever requests to suspend and to reactivate it overlapped
\* (set_store_suspension; the default of created_at is clock_timestamp()).
AuditTellsSuspension ==
    \A u \in Shops : stores[u].suspended <=>
        About(u) # {} /\ audit[Newest(u)].action = "store_suspended"

\* Once a suspension is committed, no request that begins later sells for the
\* store or gets a token for its account, whichever tokens were given out and
\* whenever they were (db.py get_tenant_db, service.py _active_store_id).
SuspendedIsOut ==
    [][\A u \in Shops, w \in Workers :
          /\ stores[u].suspended
          /\ tx[w] # None /\ tx'[w] = None /\ tx[w].at > audit[Newest(u)].at
          => /\ stores'[u] = None \/ stores'[u].sold # tx[w].at
             /\ \A s \in sessions' \ sessions : s.user # u]_vars

\* Reading a list page by page shows every row it had at first, except a store
\* that sold meanwhile, unless a row was deleted; the log never loses a row
\* (list_audit, list_users, list_stores with OFFSET).
WalkSkipsNothing == walk # None /\ walk.over => walk.owed \subseteq walk.shown
==============================================================================
