------------------------------ MODULE Accounts -------------------------------
(***************************************************************************)
(* The accounts of merchants, their stores and the links sent by e-mail:    *)
(* the routes of auth, users/me and stores.                                 *)
(*                                                                          *)
(* A request is a transaction.  Begin opens it and reads the rows without a *)
(* lock; where older links are invalidated, that UPDATE is a step of its    *)
(* own, since it only finds the links committed when it starts; the last    *)
(* step writes and commits.  A store is known by its owner, who has one at  *)
(* most; an account's id is drawn by the server and is in the request here. *)
(* The rows of all stores are visible to these routes: the login reads a    *)
(* store before any store is selected, which needs a role without RLS.      *)
(***************************************************************************)
EXTENDS Integers, FiniteSets, Sequences

CONSTANTS Users, Phones, Emails, Passwords,
          Established,   \* the accounts of Init, by id
          Requests,      \* the requests merchants may send
          Workers,       \* requests served at the same time
          MaxSends,      \* bound: requests sent in a behaviour
          None

ASSUME AccountsAssumption == MaxSends \in Nat

VARIABLES users, stores, links,  \* the tables
          sessions,  \* access and refresh tokens given out; nothing revokes them
          clock,     \* requests begun
          tx,        \* the open transaction of each worker: its request, when it
                     \* began, what it read, the account and kind of link it is
                     \* on, the links it invalidates (void, None before the UPDATE)
          confirmed, \* history: <<account, address>> whose link was opened
          raced      \* history: the accounts two overlapping requests worked on

tables == <<users, stores, links>>
accounts == <<users, stores, links, sessions, clock, tx, confirmed, raced>>

Times == 0..MaxSends

Kinds == {"reset", "verify"}

User == [phone: Phones, email: Emails \cup {None}, verified: BOOLEAN, password: Passwords,
         created: Times]

\* sold is the time of the last sale, 0 before the first one.
Store == [suspended: BOOLEAN, sold: Times, created: Times]

\* A reset or verification link, where it was sent and how often it worked.
Link == [id: Times, kind: Kinds, user: Users, to: Emails \cup {None},
         used: BOOLEAN, expired: BOOLEAN, worked: Nat]

AccountsTypeOK ==
    /\ users \in [Users -> User \cup {None}] /\ stores \in [Users -> Store \cup {None}]
    /\ \A l \in links : l \in Link
    /\ \A s \in sessions : s.user \in Users /\ s.tenant \in BOOLEAN
    /\ clock \in Times /\ raced \subseteq Users \X Kinds
    /\ \A w \in Workers : tx[w] # None =>
          tx[w].at \in 1..clock /\ (tx[w].void = None \/ tx[w].void \subseteq Times)

\* create_access_token and create_refresh_token; tenant: it names the store.
Token(u, tenant) == [user |-> u, tenant |-> tenant]

NewStore(time) == [suspended |-> FALSE, sold |-> 0, created |-> time]

Init ==
    /\ users = [u \in Users |-> IF u \in DOMAIN Established THEN Established[u].account ELSE None]
    /\ stores = [u \in Users |->
          IF u \in DOMAIN Established /\ Established[u].tenant THEN NewStore(0) ELSE None]
    /\ sessions = {Token(u, Established[u].tenant) : u \in DOMAIN Established}
    /\ links = {} /\ clock = 0 /\ tx = [w \in Workers |-> None]
    /\ confirmed = {<<u, Established[u].account.email>> :
                       u \in {v \in DOMAIN Established : Established[v].account.verified}}
    /\ raced = {}

-----------------------------------------------------------------------------
(* Transactions *)

\* The account with this phone number or address.
Holder(table, column, value) ==
    LET found == {u \in Users : table[u] # None /\ table[u][column] = value}
    IN IF value = None \/ found = {} THEN None ELSE CHOOSE u \in found : TRUE

Suspended(table, u) == table[u] # None /\ table[u].suspended

\* The account a request works on, and what it does with its links.
Concern(r) ==
    CASE r.route = "forgot" -> <<Holder(users, "email", r.email), "reset">>
      [] r.route = "supportLink" -> <<r.user, "reset">>
      [] r.route \in {"email", "resend"} -> <<r.user, "verify">>
      [] r.route = "verify" -> <<r.link.user, "verify">>
      [] OTHER -> <<None, "none">>

Open(w, r) ==
    /\ tx[w] = None /\ clock < MaxSends
    /\ clock' = clock + 1
    /\ tx' = [tx EXCEPT ![w] =
          [req |-> r, at |-> clock + 1, on |-> Concern(r), users |-> users, stores |-> stores,
           links |-> links, void |-> None]]
    /\ raced' = raced \cup {p \in {Concern(r)} \cap (Users \X Kinds) :
                               \E v \in Workers : tx[v] # None /\ tx[v].on = p}
    /\ UNCHANGED <<tables, sessions, confirmed>>

\* get_current_user_id and get_tenant_db: a token is enough, its store must
\* not be suspended, except to create a store; the routes of a store need a
\* token that names one.
\* Mutant: the store of the token is not looked at.
Authenticated_TokenOnly(r) ==
    \E s \in sessions : s.user = r.user /\ (r.route = "write" => s.tenant)

Authenticated(r) ==
    \E s \in sessions :
        /\ s.user = r.user
        /\ r.route = "write" => s.tenant
        /\ s.tenant /\ r.route # "open" => ~Suspended(stores, s.user)

Serves(w, route) == tx[w] # None /\ tx[w].req.route = route

UserRoutes == {"resend", "email", "write", "open", "delete"}

\* The rows of Init, which the unique indexes accept, and what the schemas of the
\* requests let through.
ASSUME RequestsAssumption ==
    /\ None \notin User \cup Store \cup Users /\ DOMAIN Established \subseteq Users
    /\ \A u \in DOMAIN Established :
          Established[u].account \in User /\ Established[u].tenant \in BOOLEAN
    /\ \A u, v \in DOMAIN Established : u # v =>
          LET a == Established[u].account
              b == Established[v].account
          IN a.phone # b.phone /\ (a.email = None \/ a.email # b.email)
    /\ \A r \in Requests :
          /\ r.route \in {"register", "login", "refresh", "forgot"} \cup UserRoutes
          /\ r.route \in UserRoutes \cup {"refresh"} => r.user \in Users
          /\ r.route = "email" => r.email \in Emails
          /\ r.route = "register" =>
                /\ r.id \in Users /\ r.phone \in Phones
                /\ r.email \in Emails /\ r.password \in Passwords

\* Fresh ids; tokens for what needs them; links that exist for what uses one.
Begin(w) ==
    \/ \E r \in Requests :
          /\ r.route \in UserRoutes => Authenticated(r)
          /\ r.route = "refresh" => \E s \in sessions : s.user = r.user
          /\ r.route = "register" =>
                /\ users[r.id] = None /\ \A s \in sessions : s.user # r.id
                /\ \A l \in links : l.user # r.id
                /\ \A v \in Workers : Serves(v, "register") => tx[v].req.id # r.id
          /\ Open(w, r)
    \/ \E l \in links, p \in Passwords :
          Open(w, [route |-> l.kind, link |-> l, password |-> p])

Close(w) == tx' = [tx EXCEPT ![w] = None]

\* Refused, or nothing to do: nothing is written.
Answer(w) == Close(w) /\ UNCHANGED <<tables, sessions, clock, confirmed, raced>>

\* The unique indexes on users and the foreign keys to it.
Consistent(u, s, l) ==
    /\ \A a, b \in Users : a # b /\ u[a] # None /\ u[b] # None =>
          u[a].phone # u[b].phone /\ (u[a].email = None \/ u[a].email # u[b].email)
    /\ \A a \in Users : u[a] = None => s[a] = None /\ \A k \in l : k.user # a

\* flush and commit; what the indexes or the keys refuse is undone.
Save(w, u, s, l) ==
    /\ IF Consistent(u, s, l) THEN users' = u /\ stores' = s /\ links' = l
       ELSE UNCHANGED tables
    /\ Close(w)
    /\ UNCHANGED <<sessions, clock, raced>>

-----------------------------------------------------------------------------
(* Links *)

\* invalidate_previous, invalidate_unused: the links the UPDATE finds.
\* Mutant: it looks for none.
Unused_None(u, kind) == {}

Unused(u, kind) == {l.id : l \in {k \in links : k.user = u /\ k.kind = kind /\ ~k.used}}

NewLink(t, kind, u, to) == [id |-> t.at, kind |-> kind, user |-> u, to |-> to,
                            used |-> FALSE, expired |-> FALSE, worked |-> 0]

UsedUp(ids) == {IF l.id \in ids THEN [l EXCEPT !.used = TRUE] ELSE l : l \in links}

\* The links after a new one: those found by the UPDATE no longer work.
Replaced(t, kind, u, to) == UsedUp(t.void) \cup {NewLink(t, kind, u, to)}

\* The account a link is issued to, None when the request is refused.
\* update_email asks for the password and an address not verified yet, which
\* nobody else has; a reset link is only sent to a verified address.
Issues(t) ==
    LET r == t.req
        row == t.users[r.user]
    IN CASE r.route = "forgot" ->
              LET u == Holder(t.users, "email", r.email)
              IN IF u = None \/ ~t.users[u].verified THEN None ELSE u
         [] r.route = "supportLink" -> IF row = None THEN None ELSE r.user
         [] r.route = "resend" ->
              IF row = None \/ row.email = None \/ row.verified THEN None ELSE r.user
         [] r.route = "email" ->
              IF \/ row = None \/ row.password # r.password \/ row.verified
                 \/ row.email # r.email /\ Holder(t.users, "email", r.email) # None
              THEN None ELSE r.user

LinkRoutes == {"forgot", "supportLink", "resend", "email"}

\* The UPDATE that invalidates the links the account already has.
Invalidate(w) ==
    /\ \E route \in LinkRoutes : Serves(w, route)
    /\ tx[w].void = None
    /\ IF Issues(tx[w]) = None THEN Answer(w)
       ELSE /\ tx' = [tx EXCEPT ![w].void = Unused(Issues(tx[w]), tx[w].on[2])]
            /\ UNCHANGED <<tables, sessions, clock, confirmed, raced>>

Ready(w, route) == Serves(w, route) /\ tx[w].void # None

SendPasswordReset(w) ==
    /\ Ready(w, "forgot")
    /\ LET u == Issues(tx[w])
       IN Save(w, users, stores, Replaced(tx[w], "reset", u, tx[w].users[u].email))
    /\ UNCHANGED confirmed

ResendVerification(w) ==
    /\ Ready(w, "resend")
    /\ LET u == tx[w].req.user
       IN Save(w, users, stores, Replaced(tx[w], "verify", u, tx[w].users[u].email))
    /\ UNCHANGED confirmed

\* update_email: email_verified_at is set to None on a row that was read with
\* None, so that the UPDATE does not name the column: only the address changes.
UpdateEmail(w) ==
    LET t == tx[w]
        u == t.req.user
        changed == IF t.users[u].email = t.req.email THEN users
                   ELSE [users EXCEPT ![u] = [@ EXCEPT !.email = t.req.email]]
    IN /\ Ready(w, "email")
       /\ IF users[u] = None THEN Answer(w)
          ELSE Save(w, changed, stores, Replaced(t, "verify", u, t.req.email))
               /\ UNCHANGED confirmed

\* verify_email: the link and the account as they were read.
VerifyEmail(w) ==
    LET t == tx[w]
        link == t.req.link
        read == {l \in t.links : l.id = link.id /\ l.kind = "verify"}
        row == t.users[link.user]
    IN /\ Serves(w, "verify")
       /\ IF \/ \A l \in read : l.used \/ l.expired
             \/ row = None \/ users[link.user] = None
          THEN Answer(w)
          ELSE /\ Save(w, IF row.verified THEN users
                          ELSE [users EXCEPT ![link.user] = [@ EXCEPT !.verified = TRUE]],
                       stores,
                       {IF l.id = link.id THEN [l EXCEPT !.used = TRUE, !.worked = @ + 1] ELSE l :
                           l \in links})
               /\ confirmed' = confirmed \cup {<<link.user, link.to>>}

\* consume: one UPDATE, so that the link is looked at when its row is locked.
\* Mutant: the link as it was read when the request began.
Consumed_AsRead(t, link) == {l \in t.links : l.id = link.id /\ l.kind = "reset" /\ ~l.used /\ ~l.expired}

Consumed(t, link) == {l \in links : l.id = link.id /\ l.kind = "reset" /\ ~l.used /\ ~l.expired}

\* The password changes and every other link of the account is used up.
ResetPassword(w) ==
    LET t == tx[w]
        link == t.req.link
        u == link.user
        spent == {IF l.id = link.id THEN [l EXCEPT !.worked = @ + 1] ELSE l :
                     l \in UsedUp(Unused(u, "reset") \cup {link.id})}
    IN /\ Serves(w, "reset")
       /\ IF Consumed(t, link) = {} \/ users[u] = None THEN Answer(w)
          ELSE Save(w, [users EXCEPT ![u] = [@ EXCEPT !.password = t.req.password]], stores, spent)
               /\ UNCHANGED confirmed

Expire(l) ==
    /\ l \in links /\ ~l.used /\ ~l.expired
    /\ links' = (links \ {l}) \cup {[l EXCEPT !.expired = TRUE]}
    /\ UNCHANGED <<users, stores, sessions, clock, tx, confirmed, raced>>

-----------------------------------------------------------------------------
(* Accounts, tokens and stores *)

Register(w) ==
    LET t == tx[w]
        r == t.req
        row == [phone |-> r.phone, email |-> r.email, verified |-> FALSE,
                password |-> r.password, created |-> t.at]
    IN /\ Serves(w, "register")
       /\ IF \/ Holder(t.users, "phone", r.phone) # None
             \/ Holder(t.users, "email", r.email) # None
          THEN Answer(w)
          ELSE Save(w, [users EXCEPT ![r.id] = row], [stores EXCEPT ![r.id] = NewStore(t.at)],
                    links \cup {NewLink(t, "verify", r.id, r.email)})
               /\ UNCHANGED confirmed

\* The account that logs in, or shows a refresh token.  No route clears
\* is_active.
Identified(t) ==
    IF t.req.route = "refresh" THEN t.req.user
    ELSE LET u == Holder(t.users, "phone", t.req.phone)
         IN IF u # None /\ t.users[u].password = t.req.password THEN u ELSE None

\* Tokens name the store the account has, which must not be suspended.
Grant(w) ==
    LET t == tx[w]
        u == Identified(t)
    IN /\ Serves(w, "login") \/ Serves(w, "refresh")
       /\ IF u = None THEN Answer(w)
          ELSE IF t.users[u] = None \/ Suspended(t.stores, u) THEN Answer(w)
          ELSE /\ sessions' = sessions \cup {Token(u, t.stores[u] # None)}
               /\ Close(w) /\ UNCHANGED <<tables, clock, confirmed, raced>>

CreateStore(w) ==
    LET t == tx[w]
        u == t.req.user
    IN /\ Serves(w, "open")
       /\ IF t.stores[u] # None \/ stores[u] # None THEN Answer(w)
          ELSE Save(w, users, [stores EXCEPT ![u] = NewStore(t.at)], links) /\ UNCHANGED confirmed

Later(a, b) == IF a < b THEN b ELSE a

\* A write of the routes of a store: the sale stands for all of them here.
TenantWrite(w) ==
    LET u == tx[w].req.user
    IN /\ Serves(w, "write")
       /\ IF stores[u] = None THEN Answer(w)
          ELSE Save(w, users, [stores EXCEPT ![u].sold = Later(@, tx[w].at)], links)
               /\ UNCHANGED confirmed

\* purge_store deletes what the store has, table by table, and then the store;
\* it raises when the store is gone, and may do so when the store was written
\* meanwhile: a sale that commits between two of its DELETEs keeps the store.
PurgeFails(t, u) == t.stores[u] # None /\ stores[u] = None

PurgeMayFail(t, u) == t.stores[u] # None /\ stores[u] # t.stores[u]

\* delete_me: the store is purged, then the account; its links go with it.
DeleteMe(w) ==
    LET t == tx[w]
        u == t.req.user
    IN /\ Serves(w, "delete")
       /\ IF t.users[u] = None THEN Answer(w)
          ELSE IF t.users[u].password # t.req.password \/ PurgeFails(t, u) THEN Answer(w)
          ELSE \/ /\ Save(w, [users EXCEPT ![u] = None],
                         IF t.stores[u] # None THEN [stores EXCEPT ![u] = None] ELSE stores,
                         {l \in links : l.user # u})
                  /\ UNCHANGED confirmed
               \/ PurgeMayFail(t, u) /\ Answer(w)

-----------------------------------------------------------------------------
AccountSteps(w) ==
    \/ Begin(w) \/ Invalidate(w)
    \/ SendPasswordReset(w) \/ ResendVerification(w) \/ UpdateEmail(w)
    \/ VerifyEmail(w) \/ ResetPassword(w)
    \/ Register(w) \/ Grant(w) \/ CreateStore(w) \/ TenantWrite(w) \/ DeleteMe(w)

Next == (\E w \in Workers : AccountSteps(w)) \/ (\E l \in links : Expire(l))

Spec == Init /\ [][Next]_accounts

-----------------------------------------------------------------------------
(* Properties *)

Working(u) == {l \in links : l.user = u /\ l.kind = "reset" /\ ~l.used}

\* "un seul lien valide a la fois" (service.py _issue_password_reset_token):
\* a reset link works once, whoever uses it at the same time, and an account
\* has one link that works at most, unless two requests for it overlapped.
OneLinkWorks ==
    /\ \A l \in links : l.kind = "reset" => l.worked <= 1
    /\ \A u \in Users : <<u, "reset">> \notin raced => Cardinality(Working(u)) <= 1

\* A verified address is one whose own link was opened, whichever addresses
\* the account had before, unless a verification overlapped a change.
VerifiedByItsOwner ==
    \A u \in Users : users[u] # None /\ users[u].verified /\ <<u, "verify">> \notin raced =>
        <<u, users[u].email>> \in confirmed

\* "la nouvelle adresse repart non verifiee" (repository.py update_email).
NewAddressUnverified ==
    [][\A u \in Users : users[u] # None /\ users'[u] # None /\ users'[u].email # users[u].email
         => ~users'[u].verified]_accounts
==============================================================================
