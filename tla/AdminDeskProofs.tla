--------------------------- MODULE AdminDeskProofs ---------------------------
(***************************************************************************)
(* Proofs about AdminDesk and the accounts it extends, for any users,      *)
(* addresses, requests and number of workers.                              *)
(***************************************************************************)
EXTENDS AdminDesk, SumTheorems

-----------------------------------------------------------------------------
(* The lock of the administrator *)

\* The inductive invariant: the count is never behind the wrong passwords it should have,
\* unless the account is locked, and the count that reaches the limit is what locks it.
\* Until a lock that has ended is met by a login that began after its end, every wrong
\* password is one that is not counted.
LockInv ==
    /\ admin.lock \in {"none", "active", "expired"}
    /\ admin = [failed |-> admin.failed, lock |-> admin.lock]
    /\ admin.failed \in Nat /\ wrong \in Nat /\ missed \in Nat /\ early \subseteq Workers
    /\ admin.lock = "none" => wrong - missed <= admin.failed /\ admin.failed < MaxFailed
    /\ admin.lock = "expired" => wrong = missed

\* One more failure keeps it, whatever the login read before and whenever it began.
LEMMA RefusedLock ==
    ASSUME LockInv, NEW w \in Workers, Refused(w)
    PROVE  LockInv'
  <1>1. /\ admin' = Counted(admin, w) /\ wrong' = wrong + 1 /\ early' = early \ {w}
        /\ missed' = IF admin.lock = "expired" /\ w \in early THEN missed + 1 ELSE missed
    BY DEF Refused
  <1>2. CASE StillLocked(admin, w)
    BY <1>1, <1>2 DEF LockInv, Counted, StillLocked
  <1>3. CASE ~StillLocked(admin, w)
    <2>1. admin' = Count(admin) /\ missed' = missed /\ admin.lock \in {"none", "expired"}
      BY <1>1, <1>3 DEF Counted, StillLocked, LockInv
    <2>2. CASE admin.lock = "none"
      BY <1>1, <2>1, <2>2, DeskAssumption DEF LockInv, Count, Failed
    <2>3. CASE admin.lock = "expired"
      BY <1>1, <2>1, <2>3, DeskAssumption DEF LockInv, Count, Failed
    <2>. QED
      BY <2>1, <2>2, <2>3
  <1>. QED
    BY <1>2, <1>3

LEMMA LockStep == LockInv /\ [DeskNext]_vars => LockInv'
  <1>. SUFFICES ASSUME LockInv, [DeskNext]_vars PROVE LockInv'
    OBVIOUS
  <1>1. ASSUME NEW w \in Workers, AdminLogin(w) PROVE LockInv'
    <2>1. CASE Accepted(w)
      BY <2>1, DeskAssumption DEF Accepted, LockInv, Unlocked, Logins
    <2>2. CASE Refused(w)
      BY <2>2, RefusedLock
    <2>3. CASE early' = early \ {w} /\ UNCHANGED <<admin, audit, wrong, missed>>
      BY <2>3 DEF LockInv
    <2>. QED
      BY <1>1, <2>1, <2>2, <2>3 DEF AdminLogin
  <1>2. CASE LockExpires
    BY <1>2 DEF LockInv, LockExpires, Logins
  <1>3. CASE UNCHANGED <<admin, tries>>
    BY <1>3 DEF LockInv, tries
  <1>4. ASSUME NEW w \in Workers,
               DeskBegin(w) \/ SetSuspension(w) \/ SupportLink(w) \/ Merchant(AccountSteps(w))
        PROVE  UNCHANGED <<admin, tries>>
    BY <1>4 DEF DeskBegin, SetSuspension, SupportLink, Merchant
  <1>5. Merchant(\E l \in links : Expire(l)) \/ ListPage \/ UNCHANGED vars
          => UNCHANGED <<admin, tries>>
    BY DEF Merchant, ListPage, vars, desk
  <1>. QED
    BY <1>1, <1>2, <1>3, <1>4, <1>5 DEF DeskNext

\* After MAX_FAILED_LOGINS wrong passwords in a row the administrator is locked, but for
\* those of logins that began before the last lock ended and were judged after it,
\* whatever logins overlapped and whatever each of them had read of the lock: the check
\* takes the time of the application, the count that of the start of the transaction
\* (service.py login, register_failed_login).
THEOREM LockFirm == DeskSpec => []LockIsFirm
  <1>1. DeskInit => LockInv
    BY DeskAssumption DEF DeskInit, LockInv, Unlocked
  <1>2. LockInv => LockIsFirm
    BY DeskAssumption DEF LockInv, LockIsFirm
  <1>. QED
    BY <1>1, <1>2, LockStep, PTL DEF DeskSpec

-----------------------------------------------------------------------------
(* Accounts, links and requests are well formed *)

Rows == [Users -> User \cup {None}]

Shelves == [Users -> Store \cup {None}]

\* Every request: sent by a merchant or by the administrator, or a link that is opened.
Asked == Requests \cup DeskRequests \cup [route: Kinds, link: Link, password: Passwords]

Live == {w \in Workers : tx[w] # None}

IsTx(t) ==
    /\ t = [req |-> t.req, at |-> t.at, on |-> t.on, users |-> t.users, stores |-> t.stores,
            links |-> t.links, void |-> t.void]
    /\ t.req \in Asked /\ t.at \in 1..clock
    /\ t.users \in Rows /\ t.stores \in Shelves /\ t.links \subseteq Link
    /\ t.void = None \/ t.void \subseteq Times
    /\ t.void # None => t.req.route \in LinkRoutes /\ Issues(t) # None

TypeInv ==
    /\ AccountsTypeOK
    /\ tx = [w \in Workers |-> tx[w]]
    /\ \A w \in Live : IsTx(tx[w])

\* What the schemas say of the fields of a request.
LEMMA RequestFields ==
    ASSUME NEW r \in Asked
    PROVE  /\ r.route \in {"resend", "email", "write", "open", "delete", "refresh", "supportLink"}
                => r.user \in Users
           /\ r.route = "email" => r.email \in Emails
           /\ r.route = "register" => /\ r.id \in Users /\ r.phone \in Phones
                                      /\ r.email \in Emails /\ r.password \in Passwords
           /\ r.route = "suspend" => r.store \in Users /\ r.on \in BOOLEAN
           /\ r.route \in Kinds => r.link \in Link /\ r.password \in Passwords
  BY RequestsAssumption, DeskAssumption DEF Asked, Kinds, UserRoutes

LEMMA HolderType ==
    ASSUME NEW table \in Rows, NEW column, NEW value, Holder(table, column, value) # None
    PROVE  /\ Holder(table, column, value) \in Users
           /\ table[Holder(table, column, value)] # None
  <1> DEFINE found == {u \in Users : table[u] # None /\ table[u][column] = value}
  <1>1. found # {} /\ Holder(table, column, value) = CHOOSE u \in found : TRUE
    BY DEF Holder
  <1>2. Holder(table, column, value) \in found
    BY <1>1
  <1>. QED
    BY <1>2

LEMMA IssuesType ==
    ASSUME NEW t, IsTx(t), t.req.route \in LinkRoutes, Issues(t) # None
    PROVE  /\ Issues(t) \in Users /\ t.users[Issues(t)] \in User
           /\ t.req.route # "forgot" => Issues(t) = t.req.user
           /\ t.req.route = "forgot" => Issues(t) = Holder(t.users, "email", t.req.email)
  <1>1. t.users \in Rows
    BY DEF IsTx
  <1>2. CASE t.req.route = "forgot"
    <2>1. Issues(t) = Holder(t.users, "email", t.req.email)
      BY <1>2 DEF Issues
    <2>2. Issues(t) \in Users /\ t.users[Issues(t)] # None
      BY <1>1, <2>1, HolderType
    <2>. QED
      BY <1>1, <1>2, <2>1, <2>2 DEF Rows
  <1>3. CASE t.req.route \in {"supportLink", "resend", "email"}
    <2>1. t.req.user \in Users
      BY <1>3, RequestFields DEF IsTx
    <2>2. Issues(t) = t.req.user /\ t.users[t.req.user] # None
      BY <1>3 DEF Issues
    <2>. QED
      BY <1>1, <1>3, <2>1, <2>2 DEF Rows
  <1>. QED
    BY <1>2, <1>3 DEF LinkRoutes

\* A request that is over leaves the others as they are.
LEMMA ClosedType ==
    ASSUME TypeInv, NEW w \in Workers, Close(w), clock' = clock, raced' = raced,
           users' \in Rows, stores' \in Shelves, links' \subseteq Link,
           \A s \in sessions' : s.user \in Users /\ s.tenant \in BOOLEAN
    PROVE  TypeInv'
  <1>1. /\ tx' = [v \in Workers |-> tx'[v]] /\ tx'[w] = None
        /\ \A v \in Workers \ {w} : tx'[v] = tx[v]
    BY DEF TypeInv, Close
  <1>2. \A v \in Live' : v \in Live /\ tx'[v] = tx[v]
    BY <1>1 DEF Live
  <1>3. \A v \in Live : IsTx(tx[v])
    BY DEF TypeInv
  <1>4. \A v \in Live' : IsTx(tx'[v])
    BY <1>2, <1>3
  <1>5. \A v \in Live' : IsTx(tx[v])'
    BY <1>4 DEF IsTx
  <1>6. AccountsTypeOK'
    BY <1>1, <1>2 DEF TypeInv, AccountsTypeOK, Rows, Shelves, Live
  <1>. QED
    BY <1>1, <1>5, <1>6 DEF TypeInv

LEMMA AnswerType ==
    ASSUME TypeInv, NEW w \in Workers, Answer(w)
    PROVE  TypeInv'
  <1>1. users \in Rows /\ stores \in Shelves /\ links \subseteq Link
        /\ \A s \in sessions : s.user \in Users /\ s.tenant \in BOOLEAN
    BY DEF TypeInv, AccountsTypeOK, Rows, Shelves
  <1>. QED
    BY <1>1, ClosedType DEF Answer, tables

LEMMA SaveType ==
    ASSUME TypeInv, NEW w \in Workers, NEW u \in Rows, NEW s \in Shelves, NEW l \in SUBSET Link,
           Save(w, u, s, l)
    PROVE  TypeInv'
  <1>1. users \in Rows /\ stores \in Shelves /\ links \subseteq Link
        /\ \A k \in sessions : k.user \in Users /\ k.tenant \in BOOLEAN
    BY DEF TypeInv, AccountsTypeOK, Rows, Shelves
  <1>2. users' \in Rows /\ stores' \in Shelves /\ links' \subseteq Link
    BY <1>1 DEF Save, tables
  <1>. QED
    BY <1>1, <1>2, ClosedType DEF Save

LEMMA UsedUpType ==
    ASSUME links \subseteq Link, NEW ids
    PROVE  UsedUp(ids) \subseteq Link
  BY DEF UsedUp, Link

LEMMA ReplacedType ==
    ASSUME TypeInv, NEW w \in Live, NEW kind \in Kinds, NEW u \in Users, NEW to \in Emails \cup {None}
    PROVE  Replaced(tx[w], kind, u, to) \subseteq Link
  <1>1. links \subseteq Link /\ tx[w].at \in Times
    BY AccountsAssumption DEF TypeInv, AccountsTypeOK, IsTx, Times, Live
  <1>2. NewLink(tx[w], kind, u, to) \in Link
    BY <1>1 DEF NewLink, Link
  <1>. QED
    BY <1>1, <1>2, UsedUpType DEF Replaced

\* Transactions that are open stay well formed while others begin.
LEMMA TxGrows ==
    ASSUME NEW t, IsTx(t), clock \in Times, clock' \in Times, clock <= clock'
    PROVE  IsTx(t)'
  BY AccountsAssumption DEF IsTx, Times

LEMMA OpenType ==
    ASSUME TypeInv, NEW w \in Workers, NEW r \in Asked, Open(w, r)
    PROVE  TypeInv'
  <1>1. /\ clock \in Times /\ clock' = clock + 1 /\ clock' \in Times /\ clock <= clock'
        /\ clock' \in 1..clock'
    BY AccountsAssumption DEF Open, TypeInv, AccountsTypeOK, Times
  <1>2. PICK t : t = [req |-> r, at |-> clock', on |-> Concern(r), users |-> users,
                      stores |-> stores, links |-> links, void |-> None]
    OBVIOUS
  <1>3. /\ tx' = [v \in Workers |-> tx'[v]] /\ tx'[w] = t
        /\ \A v \in Workers \ {w} : tx'[v] = tx[v]
    BY <1>1, <1>2 DEF TypeInv, Open
  <1>4. /\ t.req = r /\ t.at = clock' /\ t.users = users /\ t.stores = stores
        /\ t.links = links /\ t.void = None
        /\ t = [req |-> t.req, at |-> t.at, on |-> t.on, users |-> t.users,
                stores |-> t.stores, links |-> t.links, void |-> t.void]
    BY <1>2
  <1>5. IsTx(t)'
    BY <1>1, <1>4 DEF IsTx, TypeInv, AccountsTypeOK, Rows, Shelves
  <1>6. ASSUME NEW v \in Live' PROVE IsTx(tx[v])'
    <2>1. CASE v = w
      BY <1>3, <1>5, <2>1 DEF IsTx
    <2>2. CASE v # w
      <3>1. tx'[v] = tx[v] /\ IsTx(tx[v])
        BY <1>3, <1>6, <2>2 DEF Live, TypeInv
      <3>2. PICK x : x = tx[v]
        OBVIOUS
      <3>3. IsTx(x)'
        BY <1>1, <3>1, <3>2, TxGrows
      <3>. QED
        BY <3>1, <3>2, <3>3 DEF IsTx
    <2>. QED
      BY <2>1, <2>2
  <1>7. raced' \subseteq Users \X Kinds
    BY DEF Open, TypeInv, AccountsTypeOK
  <1>8. AccountsTypeOK'
    <2>1. UNCHANGED <<users, stores, links, sessions>>
      BY DEF Open, tables
    <2>2. \A v \in Workers : tx'[v] # None =>
            tx'[v].at \in 1..clock' /\ (tx'[v].void = None \/ tx'[v].void \subseteq Times)
      BY <1>6 DEF Live, IsTx
    <2>. QED
      BY <1>1, <1>7, <2>1, <2>2 DEF AccountsTypeOK, TypeInv
  <1>. QED
    BY <1>3, <1>6, <1>8 DEF TypeInv

LEMMA InvalidateType ==
    ASSUME TypeInv, NEW w \in Workers, Invalidate(w)
    PROVE  TypeInv'
  <1>1. CASE Answer(w)
    BY <1>1, AnswerType
  <1>2. CASE Issues(tx[w]) # None /\ ~Answer(w)
    <2> DEFINE t == [tx[w] EXCEPT !.void = Unused(Issues(tx[w]), tx[w].on[2])]
    <2>1. /\ w \in Live /\ tx[w].req.route \in LinkRoutes /\ IsTx(tx[w])
          /\ UNCHANGED <<users, stores, links, sessions, clock, raced>>
      BY <1>2 DEF Invalidate, Serves, Live, TypeInv, tables
    <2>2. /\ tx' = [v \in Workers |-> tx'[v]] /\ tx'[w] = t
          /\ \A v \in Workers \ {w} : tx'[v] = tx[v]
      BY <1>2, <2>1 DEF TypeInv, Invalidate, Live
    <2>3. Unused(Issues(tx[w]), tx[w].on[2]) \subseteq Times
      BY DEF Unused, TypeInv, AccountsTypeOK, Link
    <2>4. /\ t.req = tx[w].req /\ t.at = tx[w].at /\ t.users = tx[w].users
          /\ t.stores = tx[w].stores /\ t.links = tx[w].links /\ t.void \subseteq Times
          /\ t = [req |-> t.req, at |-> t.at, on |-> t.on, users |-> t.users,
                  stores |-> t.stores, links |-> t.links, void |-> t.void]
      BY <2>1, <2>3 DEF IsTx
    <2>5. Issues(t) = Issues(tx[w])
      BY <2>4 DEF Issues
    <2> HIDE DEF t
    <2>6. IsTx(t)
      BY <1>2, <2>1, <2>4, <2>5 DEF IsTx
    <2>7. \A v \in Live' : IsTx(tx[v])'
      BY <2>1, <2>2, <2>6 DEF TypeInv, Live, IsTx
    <2>8. AccountsTypeOK'
      BY <2>1, <2>7 DEF TypeInv, AccountsTypeOK, Live, IsTx
    <2>. QED
      BY <2>2, <2>7, <2>8 DEF TypeInv
  <1>. QED
    BY <1>1, <1>2 DEF Invalidate

\* The links after one of them was opened.
Opened(S, link) == {IF l.id = link.id THEN [l EXCEPT !.worked = @ + 1] ELSE l : l \in S}

OpenedUsed(link) ==
    {IF l.id = link.id THEN [l EXCEPT !.used = TRUE, !.worked = @ + 1] ELSE l : l \in links}

LEMMA OpenedType ==
    ASSUME NEW S \in SUBSET Link, links \subseteq Link, NEW link
    PROVE  Opened(S, link) \subseteq Link /\ OpenedUsed(link) \subseteq Link
  <1>1. ASSUME NEW l \in Link
        PROVE  /\ [l EXCEPT !.worked = @ + 1] \in Link
               /\ [l EXCEPT !.used = TRUE, !.worked = @ + 1] \in Link
    <2>1. PICK n \in Nat : n = l.worked + 1
      BY DEF Link
    <2>2. [l EXCEPT !.worked = n] \in Link
      BY DEF Link
    <2>3. [l EXCEPT !.used = TRUE, !.worked = n] \in Link
      BY DEF Link
    <2>. QED
      BY <2>1, <2>2, <2>3
  <1>. QED
    BY <1>1 DEF Opened, OpenedUsed

LEMMA AccountStepType ==
    ASSUME TypeInv, NEW w \in Workers, AccountSteps(w)
    PROVE  TypeInv'
  <1> DEFINE t == tx[w]
  <1>0. /\ users \in Rows /\ stores \in Shelves /\ links \in SUBSET Link
        /\ \A s \in sessions : s.user \in Users /\ s.tenant \in BOOLEAN
    BY DEF TypeInv, AccountsTypeOK, Rows, Shelves
  <1>1. ASSUME t # None
        PROVE  /\ w \in Live /\ IsTx(t) /\ t.at \in Times /\ t.users \in Rows /\ t.stores \in Shelves
               /\ t.req \in Asked
    BY <1>1, AccountsAssumption DEF Live, TypeInv, IsTx, AccountsTypeOK, Times
  <1>2. ASSUME t # None, t.void # None
        PROVE  /\ t.req.route \in LinkRoutes /\ Issues(t) \in Users
               /\ t.users[Issues(t)].email \in Emails \cup {None}
               /\ t.req.route # "forgot" => Issues(t) = t.req.user
    BY <1>1, <1>2, IssuesType DEF IsTx, User
  <1>3. CASE Begin(w)
    <2>1. ASSUME NEW r \in Requests, Open(w, r) PROVE TypeInv'
      BY <2>1, OpenType DEF Asked
    <2>2. ASSUME NEW l \in links, NEW p \in Passwords,
                 Open(w, [route |-> l.kind, link |-> l, password |-> p])
          PROVE  TypeInv'
      <3>1. [route |-> l.kind, link |-> l, password |-> p] \in Asked
        BY <1>0 DEF Asked, Link
      <3>. QED
        BY <2>2, <3>1, OpenType
    <2>. QED
      BY <1>3, <2>1, <2>2 DEF Begin
  <1>4. CASE Invalidate(w)
    BY <1>4, InvalidateType
  <1>5. CASE SendPasswordReset(w)
    <2>1. t # None /\ t.void # None /\ "reset" \in Kinds
      BY <1>5 DEF SendPasswordReset, Ready, Serves, Kinds
    <2>2. Replaced(t, "reset", Issues(t), t.users[Issues(t)].email) \subseteq Link
      BY <1>1, <1>2, <2>1, ReplacedType
    <2>. QED
      BY <1>0, <1>5, <2>2, SaveType DEF SendPasswordReset
  <1>6. CASE ResendVerification(w)
    <2>1. t # None /\ t.void # None /\ "verify" \in Kinds /\ t.req.route = "resend"
      BY <1>6 DEF ResendVerification, Ready, Serves, Kinds
    <2>2. Replaced(t, "verify", t.req.user, t.users[t.req.user].email) \subseteq Link
      BY <1>1, <1>2, <2>1, ReplacedType
    <2>. QED
      BY <1>0, <1>6, <2>2, SaveType DEF ResendVerification
  <1>7. CASE UpdateEmail(w)
    <2>1. t # None /\ t.void # None /\ "verify" \in Kinds /\ t.req.route = "email"
      BY <1>7 DEF UpdateEmail, Ready, Serves, Kinds
    <2>2. t.req.user \in Users /\ t.req.email \in Emails
      BY <1>1, <2>1, RequestFields
    <2>3. CASE Answer(w)
      BY <2>3, AnswerType
    <2>4. CASE users[t.req.user] # None /\ ~Answer(w)
      <3> DEFINE changed == IF t.users[t.req.user].email = t.req.email THEN users
                   ELSE [users EXCEPT ![t.req.user] = [@ EXCEPT !.email = t.req.email]]
      <3>1. changed \in Rows
        BY <1>0, <2>2, <2>4 DEF Rows, User
      <3>2. Replaced(t, "verify", t.req.user, t.req.email) \subseteq Link
        BY <1>1, <2>1, <2>2, ReplacedType
      <3> HIDE DEF changed
      <3>3. Save(w, changed, stores, Replaced(t, "verify", t.req.user, t.req.email))
        BY <1>7, <2>4 DEF UpdateEmail, changed
      <3>. QED
        BY <1>0, <3>1, <3>2, <3>3, SaveType
    <2>. QED
      BY <1>7, <2>3, <2>4 DEF UpdateEmail
  <1>8. CASE VerifyEmail(w)
    <2> DEFINE link == t.req.link
               new == IF t.users[link.user].verified THEN users
                      ELSE [users EXCEPT ![link.user] = [@ EXCEPT !.verified = TRUE]]
    <2>1. t # None /\ t.req.route = "verify" /\ link \in Link /\ link.user \in Users
      BY <1>1, <1>8, RequestFields DEF VerifyEmail, Serves, Kinds, Link
    <2>2. CASE Answer(w)
      BY <2>2, AnswerType
    <2>3. CASE users[link.user] # None /\ Save(w, new, stores, OpenedUsed(link))
      <3>1. new \in Rows
        BY <1>0, <2>1, <2>3 DEF Rows, User
      <3> HIDE DEF new
      <3>. QED
        BY <1>0, <2>3, <3>1, OpenedType, SaveType
    <2>. QED
      BY <1>8, <2>2, <2>3 DEF VerifyEmail, OpenedUsed
  <1>9. CASE ResetPassword(w)
    <2> DEFINE link == t.req.link
               new == [users EXCEPT ![link.user] = [@ EXCEPT !.password = t.req.password]]
               S == UsedUp(Unused(link.user, "reset") \cup {link.id})
    <2>1. t # None /\ link \in Link /\ link.user \in Users /\ t.req.password \in Passwords
      BY <1>1, <1>9, RequestFields DEF ResetPassword, Serves, Kinds, Link
    <2>2. CASE Answer(w)
      BY <2>2, AnswerType
    <2>3. CASE users[link.user] # None /\ Save(w, new, stores, Opened(S, link))
      <3>1. new \in Rows
        BY <1>0, <2>1, <2>3 DEF Rows, User
      <3>2. S \in SUBSET Link
        BY <1>0, UsedUpType
      <3> HIDE DEF new, S
      <3>. QED
        BY <1>0, <2>3, <3>1, <3>2, OpenedType, SaveType
    <2>. QED
      BY <1>9, <2>2, <2>3 DEF ResetPassword, Opened
  <1>10. CASE Register(w)
    <2> DEFINE r == t.req
               row == [phone |-> r.phone, email |-> r.email, verified |-> FALSE,
                       password |-> r.password, created |-> t.at]
               new == [users EXCEPT ![r.id] = row]
               open == [stores EXCEPT ![r.id] = NewStore(t.at)]
               more == links \cup {NewLink(t, "verify", r.id, r.email)}
    <2>1. /\ t # None /\ r.id \in Users /\ r.phone \in Phones /\ r.email \in Emails
          /\ r.password \in Passwords /\ t.at \in Times
      BY <1>1, <1>10, RequestFields DEF Register, Serves
    <2>2. CASE Answer(w)
      BY <2>2, AnswerType
    <2>3. CASE Save(w, new, open, more)
      <3>1. new \in Rows /\ open \in Shelves
        BY <1>0, <2>1, AccountsAssumption DEF Rows, Shelves, User, Store, NewStore, Times
      <3>2. more \subseteq Link
        <4>1. NewLink(t, "verify", r.id, r.email) \in Link
          BY <2>1 DEF NewLink, Link, Kinds
        <4>. QED
          BY <1>0, <4>1
      <3> HIDE DEF new, open, more
      <3>. QED
        BY <1>0, <2>3, <3>1, <3>2, SaveType
    <2>. QED
      BY <1>10, <2>2, <2>3 DEF Register
  <1>11. CASE Grant(w)
    <2>1. CASE Answer(w)
      BY <2>1, AnswerType
    <2>2. CASE ~Answer(w)
      <3> DEFINE u == Identified(t)
      <3>1. /\ t # None /\ u # None /\ t.req.route \in {"login", "refresh"}
            /\ sessions' = sessions \cup {Token(u, t.stores[u] # None)}
            /\ Close(w) /\ UNCHANGED <<users, stores, links, clock, raced>>
        BY <1>11, <2>2 DEF Grant, Serves, tables
      <3>2. u \in Users
        <4>1. CASE t.req.route = "refresh"
          BY <1>1, <3>1, <4>1, RequestFields DEF Identified
        <4>2. CASE t.req.route # "refresh"
          BY <1>1, <3>1, <4>2, HolderType DEF Identified
        <4>. QED
          BY <4>1, <4>2
      <3> HIDE DEF u
      <3>3. \A s \in sessions' : s.user \in Users /\ s.tenant \in BOOLEAN
        <4>1. PICK b \in BOOLEAN : b = (t.stores[u] # None)
          OBVIOUS
        <4>2. sessions' = sessions \cup {Token(u, b)}
          BY <3>1, <4>1
        <4>. QED
          BY <1>0, <3>2, <4>2 DEF Token
      <3>. QED
        BY <1>0, <3>1, <3>3, ClosedType
    <2>. QED
      BY <2>1, <2>2
  <1>12. CASE CreateStore(w)
    <2>1. t # None /\ t.at \in Times
      BY <1>1, <1>12 DEF CreateStore, Serves
    <2>2. CASE Answer(w)
      BY <2>2, AnswerType
    <2>3. CASE Save(w, users, [stores EXCEPT ![t.req.user] = NewStore(t.at)], links)
      <3>1. [stores EXCEPT ![t.req.user] = NewStore(t.at)] \in Shelves
        <4>1. NewStore(t.at) \in Store
          BY <2>1, AccountsAssumption DEF Store, NewStore, Times
        <4>. QED
          BY <1>0, <4>1 DEF Shelves
      <3>. QED
        BY <1>0, <2>3, <3>1, SaveType
    <2>. QED
      BY <1>12, <2>2, <2>3 DEF CreateStore
  <1>13. CASE TenantWrite(w)
    <2> DEFINE u == t.req.user
               sold == [stores EXCEPT ![u].sold = Later(@, t.at)]
    <2>1. t # None /\ t.at \in Times /\ u \in Users
      BY <1>1, <1>13, RequestFields DEF TenantWrite, Serves
    <2>2. CASE Answer(w)
      BY <2>2, AnswerType
    <2>3. CASE stores[u] # None /\ Save(w, users, sold, links)
      <3>1. stores[u] \in Store
        BY <1>0, <2>1, <2>3 DEF Shelves
      <3>2. [stores[u] EXCEPT !.sold = Later(@, t.at)] \in Store
        BY <2>1, <3>1 DEF Store, Later, Times
      <3>3. sold \in Shelves
        BY <1>0, <3>2 DEF Shelves
      <3> HIDE DEF sold
      <3>. QED
        BY <1>0, <2>3, <3>3, SaveType
    <2>. QED
      BY <1>13, <2>2, <2>3 DEF TenantWrite
  <1>14. CASE DeleteMe(w)
    <2> DEFINE u == t.req.user
               new == [users EXCEPT ![u] = None]
               left == IF t.stores[u] # None THEN [stores EXCEPT ![u] = None] ELSE stores
               kept == {l \in links : l.user # u}
    <2>1. CASE Answer(w)
      BY <2>1, AnswerType
    <2>2. CASE Save(w, new, left, kept)
      <3>1. new \in Rows /\ left \in Shelves /\ kept \subseteq Link
        BY <1>0 DEF Rows, Shelves
      <3> HIDE DEF new, left, kept
      <3>. QED
        BY <2>2, <3>1, SaveType
    <2>. QED
      BY <1>14, <2>1, <2>2 DEF DeleteMe
  <1>. QED
    BY <1>3, <1>4, <1>5, <1>6, <1>7, <1>8, <1>9, <1>10, <1>11, <1>12, <1>13, <1>14 DEF AccountSteps

LEMMA SetSuspensionType ==
    ASSUME TypeInv, NEW w \in Workers, SetSuspension(w)
    PROVE  TypeInv'
  <1> DEFINE u == tx[w].req.store
             new == [stores EXCEPT ![u] = [@ EXCEPT !.suspended = tx[w].req.on]]
  <1>1. tx[w] # None /\ tx[w].req \in Asked /\ tx[w].req.route = "suspend"
    BY DEF SetSuspension, Serves, TypeInv, Live, IsTx
  <1>2. u \in Users /\ tx[w].req.on \in BOOLEAN
    BY <1>1, RequestFields
  <1>3. users \in Rows /\ stores \in Shelves /\ links \in SUBSET Link
    BY DEF TypeInv, AccountsTypeOK, Rows, Shelves
  <1>4. CASE Answer(w)
    BY <1>4, AnswerType
  <1>5. CASE stores[u] # None /\ Save(w, users, new, links)
    <2>1. new \in Shelves
      BY <1>2, <1>3, <1>5 DEF Shelves, Store
    <2> HIDE DEF new
    <2>. QED
      BY <1>3, <1>5, <2>1, SaveType
  <1>. QED
    BY <1>4, <1>5 DEF SetSuspension

LEMMA SupportLinkType ==
    ASSUME TypeInv, NEW w \in Workers, SupportLink(w)
    PROVE  TypeInv'
  <1>1. w \in Live /\ tx[w].req \in Asked /\ tx[w].req.route = "supportLink" /\ "reset" \in Kinds
    BY DEF SupportLink, Ready, Serves, TypeInv, Live, IsTx, Kinds
  <1>2. tx[w].req.user \in Users
    BY <1>1, RequestFields
  <1>3. users \in Rows /\ stores \in Shelves /\ links \in SUBSET Link
    BY DEF TypeInv, AccountsTypeOK, Rows, Shelves
  <1>4. Replaced(tx[w], "reset", tx[w].req.user, None) \subseteq Link
    BY <1>1, <1>2, ReplacedType
  <1>. QED
    BY <1>3, <1>4, SaveType DEF SupportLink

\* A link expires, or nothing happens to the accounts.
LEMMA IdleType ==
    ASSUME TypeInv, UNCHANGED <<users, stores, sessions, clock, tx, raced>>, links' \subseteq Link
    PROVE  TypeInv'
  <1>1. \A w \in Live : IsTx(tx[w])'
    BY DEF TypeInv, IsTx, Live
  <1>. QED
    BY <1>1 DEF TypeInv, AccountsTypeOK, Live

LEMMA ExpireType ==
    ASSUME TypeInv, NEW l \in links, Expire(l)
    PROVE  TypeInv'
  <1>1. links \subseteq Link
    BY DEF TypeInv, AccountsTypeOK
  <1>2. [l EXCEPT !.expired = TRUE] \in Link
    BY <1>1 DEF Link
  <1>3. links' \subseteq Link
    BY <1>1, <1>2 DEF Expire
  <1>. QED
    BY <1>3, IdleType DEF Expire

LEMMA TypeStep == TypeInv /\ [DeskNext]_vars => TypeInv'
  <1>. SUFFICES ASSUME TypeInv, [DeskNext]_vars PROVE TypeInv'
    OBVIOUS
  <1>1. ASSUME NEW w \in Workers, DeskBegin(w) PROVE TypeInv'
    BY <1>1, OpenType DEF DeskBegin, Asked
  <1>2. ASSUME NEW w \in Workers, AdminLogin(w) PROVE TypeInv'
    BY <1>2, AnswerType DEF AdminLogin
  <1>3. ASSUME NEW w \in Workers, SetSuspension(w) \/ SupportLink(w) PROVE TypeInv'
    BY <1>3, SetSuspensionType, SupportLinkType
  <1>4. ASSUME NEW w \in Workers, Merchant(AccountSteps(w)) PROVE TypeInv'
    BY <1>4, AccountStepType DEF Merchant
  <1>5. CASE Merchant(\E l \in links : Expire(l))
    BY <1>5, ExpireType DEF Merchant
  <1>6. CASE LockExpires \/ ListPage \/ UNCHANGED vars
    <2>1. UNCHANGED <<users, stores, sessions, clock, tx, raced, links>>
      BY <1>6 DEF LockExpires, ListPage, vars, accounts
    <2>. QED
      BY <2>1, IdleType DEF TypeInv, AccountsTypeOK
  <1>. QED
    BY <1>1, <1>2, <1>3, <1>4, <1>5, <1>6 DEF DeskNext

LEMMA TypeInit == DeskInit => TypeInv
  <1>. SUFFICES ASSUME DeskInit PROVE TypeInv
    OBVIOUS
  <1>1. \A u \in DOMAIN Established : /\ u \in Users /\ Established[u].account \in User
                                     /\ Established[u].tenant \in BOOLEAN
    BY RequestsAssumption
  <1>2. users \in [Users -> User \cup {None}]
    BY <1>1 DEF DeskInit, Init
  <1>3. NewStore(0) \in Store
    BY AccountsAssumption DEF NewStore, Store, Times
  <1>4. stores \in [Users -> Store \cup {None}]
    BY <1>1, <1>3 DEF DeskInit, Init
  <1>5. \A s \in sessions : s.user \in Users /\ s.tenant \in BOOLEAN
    BY <1>1 DEF DeskInit, Init, Token
  <1>. QED
    BY <1>2, <1>4, <1>5, AccountsAssumption
    DEF DeskInit, Init, TypeInv, AccountsTypeOK, Live, Times

\* The tables of accounts, stores, links and tokens keep their types, and so do the
\* open requests (the part of TypeOK that Accounts defines).
THEOREM AccountsTyped == DeskSpec => []AccountsTypeOK
  <1>1. TypeInv => AccountsTypeOK
    BY DEF TypeInv
  <1>. QED
    BY <1>1, TypeInit, TypeStep, PTL DEF DeskSpec

-----------------------------------------------------------------------------
(* Links *)

\* The two rows are the same link, at two moments.
Same(l, m) == l.id = m.id /\ l.kind = m.kind /\ l.user = m.user /\ l.to = m.to

\* Row m is link l after a step: a link that was used stays so.
Kept(l, m) == Same(l, m) /\ (l.used => m.used)

\* A reset link has worked once at most, and not while it is unused.
Once(l) == l.kind = "reset" => IF l.used THEN l.worked <= 1 ELSE l.worked = 0

KindOf(route) == IF route \in {"forgot", "supportLink"} THEN "reset" ELSE "verify"

\* The account and the kind of link a request is on, when it issues one.
Concerned(t) ==
    t.req.route \in LinkRoutes =>
        /\ t.on[2] = KindOf(t.req.route)
        /\ Issues(t) # None => t.on = <<Issues(t), KindOf(t.req.route)>>

LinkRows ==
    /\ \A l \in links : Once(l) /\ l.id <= clock
    /\ \A l, m \in links : l.id = m.id => l = m

\* What a request has read of the links, and the id it may give to one.
LinksRead ==
    /\ \A w \in Live : Concerned(tx[w])
    /\ \A w \in Live : \A l \in links : l.id # tx[w].at
    /\ \A v, w \in Live : \A l \in tx[v].links : l.id # tx[w].at /\ l.id <= clock
    /\ \A w \in Live : \A l \in tx[w].links, m \in links : l.id = m.id => Same(l, m)

Overlaps ==
    /\ \A v, w \in Live : v # w => tx[v].at # tx[w].at
    /\ \A v, w \in Live : v # w /\ tx[v].on = tx[w].on /\ tx[v].on \in Users \X Kinds
                            => tx[v].on \in raced

\* An account that no two requests worked on at once has one reset link that works
\* at most, and a request that has invalidated its links has found that one.
OneEach ==
    \A u \in Users : <<u, "reset">> \notin raced =>
        /\ \A l, m \in Working(u) : l = m
        /\ \A w \in Live : tx[w].on = <<u, "reset">> /\ tx[w].void # None =>
              \A l \in Working(u) : l.id \in tx[w].void

LinksInv == LinkRows /\ LinksRead /\ Overlaps /\ OneEach

\* The links after request w: the ones there were, and a new one or none, with
\* which the older ones it found no longer work.
LinksAfter(w, new) ==
    /\ \A m \in links' : m \in Link /\ Once(m)
    /\ \A m \in links' : m \in new \/ \E l \in links : Kept(l, m)
    /\ \A l, m \in links' : l.id = m.id => l = m
    /\ \A m \in new : m.id = tx[w].at
    /\ \A m \in new : m.kind = "reset" =>
          /\ tx[w].on = <<m.user, "reset">> /\ tx[w].void # None
          /\ \A k \in links' \ new :
                k.kind = "reset" /\ k.user = m.user /\ k.id \in tx[w].void => k.used

LEMMA ClosedFrame ==
    ASSUME TypeInv, NEW w \in Workers, Close(w)
    PROVE  /\ tx'[w] = None /\ \A v \in Workers \ {w} : tx'[v] = tx[v]
           /\ Live' = Live \ {w}
  BY DEF TypeInv, Close, Live

\* A request that ends keeps the invariant of the links if it leaves them so.
LEMMA DoneLinks ==
    ASSUME TypeInv, LinksInv, NEW w \in Live, Close(w), clock' = clock, raced' = raced,
           NEW new, LinksAfter(w, new)
    PROVE  LinksInv'
  <1>1. /\ Live' = Live \ {w} /\ \A v \in Live' : tx'[v] = tx[v] /\ v \in Live
    BY ClosedFrame DEF Live
  <1>2. clock \in Nat /\ tx[w].at \in Nat /\ tx[w].at <= clock
    <2>1. clock \in Nat /\ IsTx(tx[w])
      BY AccountsAssumption DEF TypeInv, AccountsTypeOK, Times
    <2>. QED
      BY <2>1 DEF IsTx
  <1>3. LinkRows'
    BY <1>2 DEF LinksInv, LinkRows, LinksAfter, Kept, Same
  <1>4. LinksRead'
    <2>1. \A v \in Live' : Concerned(tx[v])'
      BY <1>1 DEF LinksInv, LinksRead, Concerned
    <2>2. ASSUME NEW v \in Live', NEW m \in links' PROVE m.id # tx'[v].at
      <3>1. CASE m \in new
        BY <1>1, <3>1 DEF LinksAfter, LinksInv, Overlaps
      <3>2. CASE m \notin new
        BY <1>1, <3>2 DEF LinksAfter, LinksInv, LinksRead, Kept, Same
      <3>. QED
        BY <3>1, <3>2
    <2>3. ASSUME NEW v \in Live', NEW l \in tx'[v].links, NEW m \in links', l.id = m.id
          PROVE  Same(l, m)
      <3>1. v \in Live /\ l \in tx[v].links
        BY <1>1, <2>3
      <3>2. m \notin new
        BY <2>3, <3>1 DEF LinksAfter, LinksInv, LinksRead
      <3>. QED
        BY <2>3, <3>1, <3>2 DEF LinksAfter, LinksInv, LinksRead, Kept, Same
    <2>4. \A v, u \in Live' : \A l \in tx'[v].links : l.id # tx'[u].at /\ l.id <= clock'
      BY <1>1 DEF LinksInv, LinksRead
    <2>. QED
      BY <2>1, <2>2, <2>3, <2>4 DEF LinksRead, Same
  <1>5. Overlaps'
    BY <1>1 DEF LinksInv, Overlaps
  <1>6. OneEach'
    <2> SUFFICES ASSUME NEW u \in Users, <<u, "reset">> \notin raced
                 PROVE  /\ \A l, m \in Working(u)' : l = m
                        /\ \A v \in Live' : tx'[v].on = <<u, "reset">> /\ tx'[v].void # None =>
                              \A l \in Working(u)' : l.id \in tx'[v].void
      BY DEF OneEach
    <2>1. ASSUME NEW m \in Working(u)', m \notin new
          PROVE  \E l \in Working(u) : l.id = m.id
      BY <2>1 DEF LinksAfter, Working, Kept, Same
    <2>2. ASSUME NEW m \in Working(u)', m \in new
          PROVE  /\ tx[w].on = <<u, "reset">> /\ tx[w].void # None
                 /\ Working(u)' \subseteq new
      <3>1. m \in links' /\ m.kind = "reset" /\ m.user = u /\ m \in Link
        BY DEF Working, LinksAfter
      <3>2. tx[w].on = <<u, "reset">> /\ tx[w].void # None
        BY <2>2, <3>1 DEF LinksAfter
      <3>3. ASSUME NEW k \in Working(u)', k \notin new PROVE FALSE
        <4>1. PICK l \in Working(u) : l.id = k.id
          BY <2>1, <3>3
        <4>2. k.id \in tx[w].void
          BY <3>2, <4>1 DEF LinksInv, OneEach
        <4>3. k \in links' /\ k.kind = "reset" /\ k.user = u /\ ~k.used
          BY DEF Working
        <4>. QED
          BY <2>2, <3>1, <3>3, <4>2, <4>3 DEF LinksAfter
      <3>. QED
        BY <3>2, <3>3
    <2>3. ASSUME NEW l \in Working(u)', NEW m \in Working(u)' PROVE l = m
      <3>0. l \in links' /\ m \in links'
        BY DEF Working
      <3>1. CASE l \in new \/ m \in new
        <4>1. l \in new /\ m \in new
          BY <2>2, <3>1
        <4>. QED
          BY <3>0, <4>1 DEF LinksAfter
      <3>2. CASE l \notin new /\ m \notin new
        <4>1. l.id = m.id
          BY <2>1, <3>2 DEF LinksInv, OneEach
        <4>. QED
          BY <3>0, <4>1 DEF LinksAfter
      <3>. QED
        BY <3>1, <3>2
    <2>4. ASSUME NEW v \in Live', tx'[v].on = <<u, "reset">>, tx'[v].void # None,
                 NEW l \in Working(u)'
          PROVE  l.id \in tx'[v].void
      <3>1. v \in Live /\ v # w /\ tx'[v] = tx[v]
        BY <1>1
      <3>2. l \notin new
        <4>1. <<u, "reset">> \in Users \X Kinds
          BY DEF Kinds
        <4>. QED
          BY <2>2, <2>4, <3>1, <4>1 DEF LinksInv, Overlaps
      <3>. QED
        BY <2>1, <2>4, <3>1, <3>2 DEF LinksInv, OneEach
    <2>. QED
      BY <2>3, <2>4
  <1>. QED
    BY <1>3, <1>4, <1>5, <1>6 DEF LinksInv

LEMMA SameLinksAfter ==
    ASSUME TypeInv, LinksInv, NEW w \in Live, links' \subseteq links
    PROVE  LinksAfter(w, {})
  <1>1. links \subseteq Link
    BY DEF TypeInv, AccountsTypeOK
  <1>. QED
    BY <1>1 DEF LinksAfter, LinksInv, LinkRows, Kept, Same

LEMMA AnswerLinks ==
    ASSUME TypeInv, LinksInv, NEW w \in Live, Answer(w)
    PROVE  LinksInv'
  BY SameLinksAfter, DoneLinks DEF Answer, tables

\* Each row after the UPDATE that uses links up is one of the rows before.
LEMMA UsedUpLinks ==
    ASSUME links \subseteq Link, \A l \in links : Once(l), NEW ids, NEW m \in UsedUp(ids)
    PROVE  \E l \in links : /\ m = IF l.id \in ids THEN [l EXCEPT !.used = TRUE] ELSE l
                            /\ m \in Link /\ Kept(l, m) /\ Once(m)
                            /\ l.id \in ids => m.used
  <1>1. PICK l \in links : m = IF l.id \in ids THEN [l EXCEPT !.used = TRUE] ELSE l
    BY DEF UsedUp
  <1>2. l \in Link /\ Once(l)
    OBVIOUS
  <1>3. CASE l.id \in ids
    <2>1. /\ m.id = l.id /\ m.kind = l.kind /\ m.user = l.user /\ m.to = l.to
          /\ m.worked = l.worked /\ m.used = TRUE /\ m \in Link
      BY <1>1, <1>2, <1>3 DEF Link
    <2>2. l.worked \in Nat
      BY <1>2 DEF Link
    <2>3. Once(m)
      BY <1>2, <2>1, <2>2 DEF Once
    <2>. QED
      BY <1>1, <2>1, <2>3 DEF Kept, Same
  <1>4. CASE l.id \notin ids
    BY <1>1, <1>2, <1>4 DEF Kept, Same
  <1>. QED
    BY <1>3, <1>4

LEMMA ReplacedLinks ==
    ASSUME TypeInv, LinksInv, NEW w \in Live, tx[w].void # None,
           NEW u \in Users, u = Issues(tx[w]), NEW kind, kind = KindOf(tx[w].req.route),
           NEW to \in Emails \cup {None},
           links' = Replaced(tx[w], kind, u, to)
    PROVE  LinksAfter(w, {NewLink(tx[w], kind, u, to)})
  <1> DEFINE n == NewLink(tx[w], kind, u, to)
  <1>1. links \subseteq Link /\ \A l \in links : Once(l)
    BY DEF TypeInv, AccountsTypeOK, LinksInv, LinkRows
  <1>2. /\ n.id = tx[w].at /\ n.kind = kind /\ n.user = u /\ Once(n)
    BY DEF NewLink, Once
  <1>3. kind \in Kinds
    BY DEF KindOf, Kinds
  <1>4. Replaced(tx[w], kind, u, to) \subseteq Link
    BY <1>3, ReplacedType
  <1>5. links' = UsedUp(tx[w].void) \cup {n}
    BY DEF Replaced
  <1> HIDE DEF n
  <1>6. ASSUME NEW m \in links', m \notin {n}
        PROVE  \E l \in links :
                 /\ m = IF l.id \in tx[w].void THEN [l EXCEPT !.used = TRUE] ELSE l
                 /\ Kept(l, m) /\ Once(m) /\ (l.id \in tx[w].void => m.used)
    BY <1>1, <1>5, <1>6, UsedUpLinks
  <1>7. \A m \in links' \ {n} : m.id # n.id
    BY <1>2, <1>6 DEF LinksInv, LinksRead, Kept, Same
  <1>8. \A l, m \in links' : l.id = m.id => l = m
    <2>1. ASSUME NEW l \in links' \ {n}, NEW m \in links' \ {n}, l.id = m.id PROVE l = m
      <3>1. PICK a \in links :
              l = (IF a.id \in tx[w].void THEN [a EXCEPT !.used = TRUE] ELSE a) /\ Kept(a, l)
        BY <1>6
      <3>2. PICK b \in links :
              m = (IF b.id \in tx[w].void THEN [b EXCEPT !.used = TRUE] ELSE b) /\ Kept(b, m)
        BY <1>6
      <3>3. a = b
        BY <2>1, <3>1, <3>2 DEF Kept, Same, LinksInv, LinkRows
      <3>. QED
        BY <3>1, <3>2, <3>3
    <2>. QED
      BY <1>7, <2>1
  <1>9. tx[w].on = <<u, kind>>
    <2>1. IsTx(tx[w])
      BY DEF TypeInv
    <2>. QED
      BY <2>1 DEF IsTx, LinksInv, LinksRead, Concerned
  <1>10. \A k \in links' \ {n} : k.id \in tx[w].void => k.used
    BY <1>6 DEF Kept, Same
  <1>11. \A m \in links' : m \in Link /\ Once(m)
    BY <1>2, <1>4, <1>6
  <1>12. \A m \in links' : m \in {n} \/ \E l \in links : Kept(l, m)
    BY <1>6
  <1>. QED
    BY <1>2, <1>8, <1>9, <1>10, <1>11, <1>12 DEF LinksAfter, n

LEMMA SaveLinks ==
    ASSUME TypeInv, LinksInv, NEW w \in Live, NEW u, NEW s, NEW l, Save(w, u, s, l),
           NEW new, links' = l => LinksAfter(w, new)
    PROVE  LinksInv'
  <1>1. CASE links' = l
    BY <1>1, DoneLinks DEF Save
  <1>2. CASE links' = links
    BY <1>2, SameLinksAfter, DoneLinks DEF Save
  <1>. QED
    BY <1>1, <1>2 DEF Save, tables

LEMMA ExpireLinks ==
    ASSUME TypeInv, LinksInv, NEW l \in links, Expire(l)
    PROVE  LinksInv'
  <1> DEFINE m == [l EXCEPT !.expired = TRUE]
  <1>1. /\ UNCHANGED <<clock, tx, raced>> /\ links' = (links \ {l}) \cup {m} /\ ~l.used
        /\ links \subseteq Link
    BY DEF Expire, TypeInv, AccountsTypeOK
  <1>2. /\ m.id = l.id /\ m.kind = l.kind /\ m.user = l.user /\ m.to = l.to
        /\ m.used = l.used /\ m.worked = l.worked
    BY <1>1 DEF Link
  <1> HIDE DEF m
  <1>3. \A k \in links' : \E j \in links : /\ Same(j, k) /\ (k.used <=> j.used) /\ Once(k)
                                          /\ k = IF j = l THEN m ELSE j
    BY <1>1, <1>2 DEF LinksInv, LinkRows, Once, Same
  <1>4. LinkRows'
    <2>1. \A k \in links' : Once(k) /\ k.id <= clock
      BY <1>3 DEF LinksInv, LinkRows, Same
    <2>2. \A j, k \in links' : j.id = k.id => j = k
      BY <1>3 DEF LinksInv, LinkRows, Same
    <2>. QED
      BY <1>1, <2>1, <2>2 DEF LinkRows
  <1>5. LinksRead'
    <2>1. Live' = Live
      BY <1>1 DEF Live
    <2>2. \A w \in Live : Concerned(tx[w])'
      BY <1>1 DEF LinksInv, LinksRead, Concerned
    <2>3. \A w \in Live : \A k \in links' : k.id # tx[w].at
      BY <1>3 DEF LinksInv, LinksRead, Same
    <2>4. \A w \in Live : \A j \in tx[w].links, k \in links' : j.id = k.id => Same(j, k)
      BY <1>3 DEF LinksInv, LinksRead, Same
    <2>. QED
      BY <1>1, <2>1, <2>2, <2>3, <2>4 DEF LinksInv, LinksRead, Same
  <1>6. Overlaps'
    BY <1>1 DEF LinksInv, Overlaps, Live
  <1>7. OneEach'
    <2>1. ASSUME NEW u \in Users, NEW k \in Working(u)'
          PROVE  \E j \in Working(u) : j.id = k.id /\ k = IF j = l THEN m ELSE j
      BY <1>3 DEF Working, Same
    <2>2. Live' = Live
      BY <1>1 DEF Live
    <2> SUFFICES ASSUME NEW u \in Users, <<u, "reset">> \notin raced
                 PROVE  /\ \A j, k \in Working(u)' : j = k
                        /\ \A v \in Live : tx[v].on = <<u, "reset">> /\ tx[v].void # None =>
                              \A j \in Working(u)' : j.id \in tx[v].void
      BY <1>1, <2>2 DEF OneEach
    <2>. QED
      BY <2>1 DEF LinksInv, OneEach
  <1>. QED
    BY <1>4, <1>5, <1>6, <1>7 DEF LinksInv

LEMMA OpenLinks ==
    ASSUME TypeInv, LinksInv, NEW w \in Workers, NEW r \in Asked, Open(w, r)
    PROVE  LinksInv'
  <1>1. PICK t : t = [req |-> r, at |-> clock + 1, on |-> Concern(r), users |-> users,
                      stores |-> stores, links |-> links, void |-> None]
    OBVIOUS
  <1>2. /\ tx'[w] = t /\ \A v \in Workers \ {w} : tx'[v] = tx[v]
        /\ UNCHANGED links /\ clock' = clock + 1 /\ clock \in Nat
        /\ \A v \in Live' : v = w \/ (v # w /\ v \in Live /\ tx'[v] = tx[v])
    BY <1>1, AccountsAssumption DEF Open, TypeInv, Live, tables, AccountsTypeOK, Times
  <1>3. /\ t.req = r /\ t.at = clock + 1 /\ t.users = users /\ t.links = links
        /\ t.on = Concern(r) /\ t.void = None
    BY <1>1
  <1>4. ASSUME NEW v \in Live
        PROVE  /\ tx[v].at \in Nat /\ tx[v].at <= clock
               /\ \A l \in tx[v].links : l.id \in Nat
    <2>1. IsTx(tx[v])
      BY DEF TypeInv
    <2>2. tx[v].at \in 1..clock /\ tx[v].links \subseteq Link
      BY <2>1 DEF IsTx
    <2>. QED
      BY <1>2, <2>2 DEF Link, Times
  <1>5. \A l \in links : l.id \in Nat /\ l.id <= clock
    BY DEF TypeInv, AccountsTypeOK, Link, Times, LinksInv, LinkRows
  <1>6. LinkRows'
    BY <1>2, <1>5 DEF LinksInv, LinkRows
  <1>7. Concerned(t)
    <2> SUFFICES ASSUME r.route \in LinkRoutes
                 PROVE  /\ t.on[2] = KindOf(r.route)
                        /\ Issues(t) # None => t.on = <<Issues(t), KindOf(r.route)>>
      BY <1>3 DEF Concerned
    <2>1. CASE r.route = "forgot"
      BY <1>3, <2>1 DEF Concern, Issues, KindOf
    <2>2. CASE r.route = "supportLink"
      BY <1>3, <2>2 DEF Concern, Issues, KindOf
    <2>3. CASE r.route \in {"resend", "email"}
      BY <1>3, <2>3 DEF Concern, Issues, KindOf
    <2>. QED
      BY <2>1, <2>2, <2>3 DEF LinkRoutes
  <1>8. LinksRead'
    <2>1. \A v \in Live' : Concerned(tx'[v])
      BY <1>2, <1>7 DEF LinksInv, LinksRead
    <2>2. \A v \in Live' : Concerned(tx[v])'
      BY <2>1 DEF Concerned
    <2>3. \A v \in Live' : \A l \in links : l.id # tx'[v].at
      BY <1>2, <1>3, <1>5 DEF LinksInv, LinksRead
    <2>4. \A v \in Live' : \A l \in tx'[v].links : l.id \in Nat /\ l.id <= clock
      <3>1. ASSUME NEW v \in Live, NEW l \in tx[v].links PROVE l.id \in Nat /\ l.id <= clock
        BY <1>4 DEF LinksInv, LinksRead
      <3>. QED
        BY <1>2, <1>3, <1>5, <3>1
    <2>5. ASSUME NEW v \in Live', NEW u \in Live', NEW l \in tx'[v].links
          PROVE  l.id # tx'[u].at /\ l.id <= clock'
      <3>1. CASE u = w
        BY <1>2, <1>3, <2>4, <3>1
      <3>2. CASE u # w /\ v = w
        BY <1>2, <1>3, <1>5, <3>2 DEF LinksInv, LinksRead
      <3>3. CASE u # w /\ v # w
        BY <1>2, <2>4, <3>3 DEF LinksInv, LinksRead
      <3>. QED
        BY <3>1, <3>2, <3>3
    <2>6. \A v \in Live' : \A l \in tx'[v].links, m \in links : l.id = m.id => Same(l, m)
      BY <1>2, <1>3 DEF LinksInv, LinksRead, LinkRows, Same
    <2>. QED
      BY <1>2, <2>2, <2>3, <2>5, <2>6 DEF LinksRead, Same
  <1>9. Overlaps'
    <2>1. \A v, u \in Live' : v # u => tx'[v].at # tx'[u].at
      BY <1>2, <1>3, <1>4 DEF LinksInv, Overlaps
    <2>2. ASSUME NEW v \in Live', NEW u \in Live', v # u, tx'[v].on = tx'[u].on,
                 tx'[v].on \in Users \X Kinds
          PROVE  tx'[v].on \in raced'
      <3>1. CASE v # w /\ u # w
        BY <1>2, <2>2, <3>1 DEF LinksInv, Overlaps, Open
      <3>2. CASE v = w \/ u = w
        <4>1. PICK x \in Live : tx[x].on = Concern(r) /\ Concern(r) = tx'[v].on
          BY <1>2, <1>3, <2>2, <3>2
        <4>. QED
          BY <2>2, <4>1 DEF Open, Live
      <3>. QED
        BY <3>1, <3>2
    <2>. QED
      BY <2>1, <2>2 DEF Overlaps
  <1>10. OneEach'
    <2>1. \A u \in Users : <<u, "reset">> \notin raced' => <<u, "reset">> \notin raced
      BY DEF Open
    <2>2. \A u \in Users : Working(u)' = Working(u)
      BY <1>2 DEF Working
    <2>3. \A v \in Live' : tx'[v].void # None => v \in Live /\ tx'[v] = tx[v]
      BY <1>2, <1>3
    <2>. QED
      BY <2>1, <2>2, <2>3 DEF LinksInv, OneEach
  <1>. QED
    BY <1>6, <1>8, <1>9, <1>10 DEF LinksInv

\* The UPDATE finds every reset link of the account that works.
LEMMA InvalidateLinks ==
    ASSUME TypeInv, LinksInv, NEW w \in Workers, Invalidate(w)
    PROVE  LinksInv'
  <1>0. w \in Live
    BY DEF Invalidate, Serves, Live
  <1>1. CASE Answer(w)
    BY <1>0, <1>1, AnswerLinks
  <1>2. CASE Issues(tx[w]) # None /\ ~Answer(w)
    <2> DEFINE found == Unused(Issues(tx[w]), tx[w].on[2])
    <2>1. PICK t : t = [tx[w] EXCEPT !.void = found]
      OBVIOUS
    <2>2. IsTx(tx[w]) /\ tx[w].req.route \in LinkRoutes
      BY <1>0, <1>2 DEF Invalidate, Serves, TypeInv
    <2>3. /\ t.req = tx[w].req /\ t.at = tx[w].at /\ t.on = tx[w].on /\ t.users = tx[w].users
          /\ t.links = tx[w].links /\ t.void = found
      BY <2>1, <2>2 DEF IsTx
    <2>4. /\ tx'[w] = t /\ \A v \in Workers \ {w} : tx'[v] = tx[v]
          /\ UNCHANGED <<links, clock, raced>>
      BY <1>2, <2>1 DEF Invalidate, TypeInv, tables
    <2>5. \A v \in Live' : v \in Live
      BY <1>0, <2>4 DEF Live
    <2>6. tx[w].on = <<Issues(tx[w]), KindOf(tx[w].req.route)>>
      BY <1>0, <1>2, <2>2 DEF LinksInv, LinksRead, Concerned
    <2>7. \A v \in Live : /\ tx'[v].at = tx[v].at /\ tx'[v].on = tx[v].on
                         /\ tx'[v].links = tx[v].links
      BY <2>3, <2>4 DEF Live
    <2>8. \A v \in Live' : Concerned(tx[v])'
      <3>1. \A v \in Live : Concerned(tx[v])
        BY DEF LinksInv, LinksRead
      <3>2. Issues(t) = Issues(tx[w])
        BY <2>3 DEF Issues
      <3>3. Concerned(t)
        BY <1>0, <2>3, <3>1, <3>2 DEF Concerned
      <3>4. \A v \in Live : Concerned(tx'[v])
        BY <2>4, <3>1, <3>3 DEF Live
      <3>. QED
        BY <2>5, <3>4 DEF Concerned
    <2>9. LinkRows' /\ LinksRead' /\ Overlaps'
      BY <2>4, <2>5, <2>7, <2>8 DEF LinksInv, LinkRows, LinksRead, Overlaps, Same, Once
    <2>10. OneEach'
      <3>1. ASSUME NEW u \in Users, tx[w].on = <<u, "reset">>, NEW l \in Working(u)
            PROVE  l.id \in found
        BY <2>6, <3>1 DEF Working, Unused
      <3>2. \A u \in Users : Working(u)' = Working(u)
        BY <2>4 DEF Working
      <3> HIDE DEF found
      <3>3. ASSUME NEW u \in Users, <<u, "reset">> \notin raced, NEW v \in Live,
                   tx'[v].on = <<u, "reset">>, tx'[v].void # None, NEW l \in Working(u)
            PROVE  l.id \in tx'[v].void
        <4>1. CASE v = w
          BY <2>3, <2>4, <3>1, <3>3, <4>1
        <4>2. CASE v # w
          BY <2>4, <3>3, <4>2 DEF LinksInv, OneEach, Live
        <4>. QED
          BY <4>1, <4>2
      <3>. QED
        BY <2>4, <2>5, <3>2, <3>3 DEF LinksInv, OneEach
    <2>. QED
      BY <2>9, <2>10 DEF LinksInv
  <1>. QED
    BY <1>1, <1>2 DEF Invalidate

\* A reset link that is consumed was unused: it has worked once, and is used up.
LEMMA ConsumedLinks ==
    ASSUME TypeInv, LinksInv, NEW w \in Live, NEW link, Consumed(tx[w], link) # {}, NEW ids,
           links' = Opened(UsedUp(ids \cup {link.id}), link)
    PROVE  LinksAfter(w, {})
  <1>1. links \subseteq Link /\ \A l \in links : Once(l)
    BY DEF TypeInv, AccountsTypeOK, LinksInv, LinkRows
  <1>2. PICK c \in links : c.id = link.id /\ c.kind = "reset" /\ ~c.used /\ c.worked = 0
    BY <1>1 DEF Consumed, Once
  <1>3. \A l \in links : l.id = link.id => l = c
    BY <1>2 DEF LinksInv, LinkRows
  <1>4. ASSUME NEW m \in links'
        PROVE  m \in Link /\ Once(m) /\ \E l \in links : Kept(l, m)
    <2>1. PICK k \in UsedUp(ids \cup {link.id}) :
            m = IF k.id = link.id THEN [k EXCEPT !.worked = @ + 1] ELSE k
      BY <1>4 DEF Opened
    <2>2. PICK l \in links :
            /\ k = IF l.id \in ids \cup {link.id} THEN [l EXCEPT !.used = TRUE] ELSE l
            /\ k \in Link /\ Kept(l, k) /\ Once(k)
            /\ l.id \in ids \cup {link.id} => k.used
      BY <1>1, UsedUpLinks
    <2>3. CASE k.id = link.id
      <3>1. l = c
        BY <1>3, <2>2, <2>3 DEF Kept, Same
      <3>2. k.used /\ k.worked = 0
        BY <1>1, <1>2, <2>2, <3>1 DEF Link
      <3>3. m = [k EXCEPT !.worked = 1]
        BY <2>1, <2>3, <3>2
      <3>4. /\ m \in Link /\ m.id = k.id /\ m.kind = k.kind /\ m.user = k.user /\ m.to = k.to
            /\ m.used = k.used /\ m.worked = 1
        BY <2>2, <3>3 DEF Link
      <3>. QED
        BY <2>2, <3>2, <3>4 DEF Kept, Same, Once
    <2>4. CASE k.id # link.id
      BY <2>1, <2>2, <2>4
    <2>. QED
      BY <2>3, <2>4
  <1>5. ASSUME NEW a \in links', NEW b \in links', a.id = b.id PROVE a = b
    <2> DEFINE U(l) == IF l.id \in ids \cup {link.id} THEN [l EXCEPT !.used = TRUE] ELSE l
               W(l) == IF l.id = link.id THEN [l EXCEPT !.worked = @ + 1] ELSE l
    <2>1. PICK x \in links : a = W(U(x))
      BY DEF Opened, UsedUp
    <2>2. PICK y \in links : b = W(U(y))
      BY DEF Opened, UsedUp
    <2>3. \A l \in Link : U(l).id = l.id /\ W(l).id = l.id /\ U(l) \in Link
      BY DEF Link
    <2> HIDE DEF U, W
    <2>4. x.id = y.id
      BY <1>1, <1>5, <2>1, <2>2, <2>3
    <2>5. x = y
      BY <2>4 DEF LinksInv, LinkRows
    <2>. QED
      BY <2>1, <2>2, <2>5
  <1>. QED
    BY <1>4, <1>5 DEF LinksAfter

\* Opening a verification link touches no reset link.
LEMMA VerifiedLinks ==
    ASSUME TypeInv, LinksInv, NEW w \in Live, NEW link,
           NEW r \in tx[w].links, r.id = link.id, r.kind = "verify",
           links' = OpenedUsed(link)
    PROVE  LinksAfter(w, {})
  <1>1. links \subseteq Link /\ \A l \in links : Once(l)
    BY DEF TypeInv, AccountsTypeOK, LinksInv, LinkRows
  <1>2. \A l \in links : l.id = link.id => l.kind = "verify"
    BY DEF LinksInv, LinksRead, Same
  <1> DEFINE W(l) == IF l.id = link.id THEN [l EXCEPT !.used = TRUE, !.worked = @ + 1] ELSE l
  <1>3. \A m \in links' : \E l \in links : m = W(l)
    BY DEF OpenedUsed
  <1>4. ASSUME NEW l \in links
        PROVE  Kept(l, W(l)) /\ Once(W(l))
    <2>1. CASE l.id = link.id
      <3>1. /\ W(l).id = l.id /\ W(l).kind = l.kind /\ W(l).user = l.user /\ W(l).to = l.to
            /\ W(l).used = TRUE
        BY <1>1, <2>1 DEF Link
      <3> HIDE DEF W
      <3>. QED
        BY <1>2, <2>1, <3>1 DEF Kept, Same, Once
    <2>2. CASE l.id # link.id
      BY <1>1, <2>2 DEF Kept, Same
    <2>. QED
      BY <2>1, <2>2
  <1>5. links' \subseteq Link
    BY <1>1, OpenedType
  <1> HIDE DEF W
  <1>6. \A a, b \in links' : a.id = b.id => a = b
    BY <1>3, <1>4 DEF Kept, Same, LinksInv, LinkRows
  <1>. QED
    BY <1>3, <1>4, <1>5, <1>6 DEF LinksAfter

LEMMA RegisterLinks ==
    ASSUME TypeInv, LinksInv, NEW w \in Live, NEW u \in Users, NEW to \in Emails,
           links' = links \cup {NewLink(tx[w], "verify", u, to)}
    PROVE  LinksAfter(w, {NewLink(tx[w], "verify", u, to)})
  <1> DEFINE n == NewLink(tx[w], "verify", u, to)
  <1>1. links \subseteq Link /\ tx[w].at \in Times
    <2>1. IsTx(tx[w]) /\ clock \in Times /\ links \subseteq Link
      BY DEF TypeInv, AccountsTypeOK
    <2>. QED
      BY <2>1, AccountsAssumption DEF IsTx, Times
  <1>2. n \in Link /\ n.id = tx[w].at /\ n.kind = "verify" /\ Once(n)
    BY <1>1 DEF NewLink, Link, Kinds, Once
  <1> HIDE DEF n
  <1>3. \A l \in links : l.id # n.id
    BY <1>2 DEF LinksInv, LinksRead
  <1>. QED
    BY <1>1, <1>2, <1>3 DEF LinksAfter, LinksInv, LinkRows, Kept, Same, n

\* A request for a link that commits.
LEMMA IssueLinks ==
    ASSUME TypeInv, LinksInv, NEW w \in Live, tx[w].void # None,
           NEW x \in Users, x = Issues(tx[w]), NEW kind, kind = KindOf(tx[w].req.route),
           NEW to \in Emails \cup {None}, NEW u, NEW s,
           Save(w, u, s, Replaced(tx[w], kind, x, to))
    PROVE  LinksInv'
  <1>1. PICK new : new = {NewLink(tx[w], kind, x, to)}
    OBVIOUS
  <1>2. PICK l : l = Replaced(tx[w], kind, x, to)
    OBVIOUS
  <1>3. links' = l => LinksAfter(w, new)
    BY <1>1, <1>2, ReplacedLinks
  <1>4. Save(w, u, s, l)
    BY <1>2
  <1>. QED
    BY <1>3, <1>4, SaveLinks

LEMMA AccountStepLinks ==
    ASSUME TypeInv, LinksInv, NEW w \in Workers, AccountSteps(w)
    PROVE  LinksInv'
  <1> DEFINE t == tx[w]
  <1>0. links \subseteq Link
    BY DEF TypeInv, AccountsTypeOK
  <1>1. ASSUME t # None
        PROVE  w \in Live /\ IsTx(t) /\ t.req \in Asked /\ t.users \in Rows
    BY <1>1 DEF Live, TypeInv, IsTx
  <1>2. ASSUME t # None, t.void # None
        PROVE  /\ Issues(t) \in Users /\ t.users[Issues(t)].email \in Emails \cup {None}
               /\ t.req.route # "forgot" => Issues(t) = t.req.user
    BY <1>1, <1>2, IssuesType DEF IsTx, User
  <1>3. CASE Begin(w)
    <2>1. ASSUME NEW r \in Requests, Open(w, r) PROVE LinksInv'
      BY <2>1, OpenLinks DEF Asked
    <2>2. ASSUME NEW l \in links, NEW p \in Passwords,
                 Open(w, [route |-> l.kind, link |-> l, password |-> p])
          PROVE  LinksInv'
      <3>1. [route |-> l.kind, link |-> l, password |-> p] \in Asked
        BY <1>0 DEF Asked, Link
      <3>. QED
        BY <2>2, <3>1, OpenLinks
    <2>. QED
      BY <1>3, <2>1, <2>2 DEF Begin
  <1>4. CASE Invalidate(w)
    BY <1>4, InvalidateLinks
  <1>5. CASE SendPasswordReset(w)
    <2>1. t # None /\ t.void # None /\ "reset" = KindOf(t.req.route)
      BY <1>5 DEF SendPasswordReset, Ready, Serves, KindOf
    <2>. QED
      BY <1>1, <1>2, <1>5, <2>1, IssueLinks DEF SendPasswordReset
  <1>6. CASE ResendVerification(w)
    <2>1. t # None /\ t.void # None /\ "verify" = KindOf(t.req.route) /\ t.req.route = "resend"
      BY <1>6 DEF ResendVerification, Ready, Serves, KindOf
    <2>. QED
      BY <1>1, <1>2, <1>6, <2>1, IssueLinks DEF ResendVerification
  <1>7. CASE UpdateEmail(w)
    <2>1. t # None /\ t.void # None /\ "verify" = KindOf(t.req.route) /\ t.req.route = "email"
      BY <1>7 DEF UpdateEmail, Ready, Serves, KindOf
    <2>2. t.req.user = Issues(t) /\ t.req.user \in Users /\ t.req.email \in Emails \cup {None}
      BY <1>1, <1>2, <2>1, RequestFields
    <2>3. CASE Answer(w)
      BY <1>1, <2>1, <2>3, AnswerLinks
    <2>4. CASE \E changed : Save(w, changed, stores, Replaced(t, "verify", t.req.user, t.req.email))
      BY <1>1, <2>1, <2>2, <2>4, IssueLinks
    <2>. QED
      BY <1>7, <2>3, <2>4 DEF UpdateEmail
  <1>8. CASE VerifyEmail(w)
    <2>1. t # None
      BY <1>8 DEF VerifyEmail, Serves
    <2>2. CASE Answer(w)
      BY <1>1, <2>1, <2>2, AnswerLinks
    <2>3. CASE ~Answer(w)
      <3>1. PICK r \in t.links : r.id = t.req.link.id /\ r.kind = "verify"
        BY <1>8, <2>3 DEF VerifyEmail
      <3>2. PICK u : Save(w, u, stores, OpenedUsed(t.req.link))
        BY <1>8, <2>3 DEF VerifyEmail, OpenedUsed
      <3>. QED
        BY <1>1, <2>1, <3>1, <3>2, VerifiedLinks, SaveLinks
    <2>. QED
      BY <2>2, <2>3
  <1>9. CASE ResetPassword(w)
    <2>1. t # None
      BY <1>9 DEF ResetPassword, Serves
    <2>2. CASE Answer(w)
      BY <1>1, <2>1, <2>2, AnswerLinks
    <2>3. CASE ~Answer(w)
      <3>1. Consumed(t, t.req.link) # {}
        BY <1>9, <2>3 DEF ResetPassword
      <3>2. PICK u, ids : Save(w, u, stores, Opened(UsedUp(ids \cup {t.req.link.id}), t.req.link))
        BY <1>9, <2>3 DEF ResetPassword, Opened
      <3>3. PICK l : l = Opened(UsedUp(ids \cup {t.req.link.id}), t.req.link)
        OBVIOUS
      <3>4. links' = l => LinksAfter(w, {})
        BY <1>1, <2>1, <3>1, <3>3, ConsumedLinks
      <3>. QED
        BY <1>1, <2>1, <3>2, <3>3, <3>4, SaveLinks
    <2>. QED
      BY <2>2, <2>3
  <1>10. CASE Register(w)
    <2>1. t # None /\ t.req.id \in Users /\ t.req.email \in Emails
      BY <1>1, <1>10, RequestFields DEF Register, Serves
    <2>2. CASE Answer(w)
      BY <1>1, <2>1, <2>2, AnswerLinks
    <2>3. CASE ~Answer(w)
      <3>1. PICK u, s : Save(w, u, s, links \cup {NewLink(t, "verify", t.req.id, t.req.email)})
        BY <1>10, <2>3 DEF Register
      <3>2. PICK new : new = {NewLink(t, "verify", t.req.id, t.req.email)}
        OBVIOUS
      <3>3. PICK l : l = links \cup new
        OBVIOUS
      <3>4. links' = l => LinksAfter(w, new)
        BY <1>1, <2>1, <3>2, <3>3, RegisterLinks
      <3>. QED
        BY <1>1, <2>1, <3>1, <3>2, <3>3, <3>4, SaveLinks
    <2>. QED
      BY <2>2, <2>3
  <1>11. CASE Grant(w)
    <2>1. t # None /\ Close(w) /\ UNCHANGED <<links, clock, raced>>
      BY <1>11 DEF Grant, Serves, Answer, tables
    <2>. QED
      BY <1>1, <2>1, SameLinksAfter, DoneLinks
  <1>12. CASE CreateStore(w) \/ TenantWrite(w)
    <2>1. t # None /\ (Answer(w) \/ \E s : Save(w, users, s, links))
      BY <1>12 DEF CreateStore, TenantWrite, Serves
    <2>. QED
      BY <1>1, <2>1, AnswerLinks, SameLinksAfter, SaveLinks
  <1>13. CASE DeleteMe(w)
    <2>1. t # None /\ (Answer(w) \/ \E u, s : Save(w, u, s, {l \in links : l.user # t.req.user}))
      BY <1>13 DEF DeleteMe, Serves
    <2>2. {l \in links : l.user # t.req.user} \subseteq links
      OBVIOUS
    <2>. QED
      BY <1>1, <2>1, <2>2, AnswerLinks, SameLinksAfter, SaveLinks
  <1>. QED
    BY <1>3, <1>4, <1>5, <1>6, <1>7, <1>8, <1>9, <1>10, <1>11, <1>12, <1>13 DEF AccountSteps

LEMMA LinksStep == TypeInv /\ LinksInv /\ [DeskNext]_vars => LinksInv'
  <1>. SUFFICES ASSUME TypeInv, LinksInv, [DeskNext]_vars PROVE LinksInv'
    OBVIOUS
  <1>1. ASSUME NEW w \in Workers, DeskBegin(w) PROVE LinksInv'
    BY <1>1, OpenLinks DEF DeskBegin, Asked
  <1>2. ASSUME NEW w \in Workers, AdminLogin(w) PROVE LinksInv'
    BY <1>2, AnswerLinks DEF AdminLogin, Serves, Live
  <1>3. ASSUME NEW w \in Workers, SetSuspension(w) PROVE LinksInv'
    <2>1. w \in Live /\ (Answer(w) \/ \E s : Save(w, users, s, links))
      BY <1>3 DEF SetSuspension, Serves, Live
    <2>. QED
      BY <2>1, AnswerLinks, SameLinksAfter, SaveLinks
  <1>4. ASSUME NEW w \in Workers, SupportLink(w) PROVE LinksInv'
    <2>1. /\ w \in Live /\ tx[w].void # None /\ "reset" = KindOf(tx[w].req.route)
          /\ IsTx(tx[w]) /\ tx[w].req.route = "supportLink"
      BY <1>4 DEF SupportLink, Ready, Serves, Live, KindOf, TypeInv
    <2>2. Issues(tx[w]) = tx[w].req.user /\ tx[w].req.user \in Users
      BY <2>1, IssuesType DEF IsTx
    <2>. QED
      BY <1>4, <2>1, <2>2, IssueLinks DEF SupportLink
  <1>5. ASSUME NEW w \in Workers, Merchant(AccountSteps(w)) PROVE LinksInv'
    BY <1>5, AccountStepLinks DEF Merchant
  <1>6. CASE Merchant(\E l \in links : Expire(l))
    BY <1>6, ExpireLinks DEF Merchant
  <1>7. CASE LockExpires \/ ListPage \/ UNCHANGED vars
    <2>1. UNCHANGED <<links, clock, tx, raced>>
      BY <1>7 DEF LockExpires, ListPage, vars, accounts
    <2>. QED
      BY <2>1 DEF LinksInv, LinkRows, LinksRead, Overlaps, OneEach, Live, Concerned, Working, Same, Once
  <1>. QED
    BY <1>1, <1>2, <1>3, <1>4, <1>5, <1>6, <1>7 DEF DeskNext

LEMMA LinksInit == DeskInit => LinksInv
  BY DEF DeskInit, Init, LinksInv, LinkRows, LinksRead, Overlaps, OneEach, Live, Working

LEMMA LinksOne == TypeInv /\ LinksInv => OneLinkWorks
  <1>. SUFFICES ASSUME TypeInv, LinksInv PROVE OneLinkWorks
    OBVIOUS
  <1>1. \A l \in links : l.kind = "reset" => l.worked <= 1
    BY DEF LinksInv, LinkRows, Once
  <1>2. ASSUME NEW u \in Users, <<u, "reset">> \notin raced PROVE Cardinality(Working(u)) <= 1
    <2>1. \A l, m \in Working(u) : l = m
      BY <1>2 DEF LinksInv, OneEach
    <2>2. CASE Working(u) = {}
      BY <2>2, FS_EmptySet
    <2>3. CASE Working(u) # {}
      <3>1. PICK l : Working(u) = {l}
        BY <2>1, <2>3
      <3>. QED
        BY <3>1, FS_Singleton
    <2>. QED
      BY <2>2, <2>3
  <1>. QED
    BY <1>1, <1>2 DEF OneLinkWorks

\* A password reset link works once, whichever requests use it at the same time, and an
\* account that no two requests for a link overlapped on has one link that works at
\* most (service.py _issue_password_reset_token, repository.py consume).
THEOREM OneLink == DeskSpec => []OneLinkWorks
  BY TypeInit, TypeStep, LinksInit, LinksStep, LinksOne, PTL DEF DeskSpec

-----------------------------------------------------------------------------
(* Accounts come and go *)

Has(u) == \E s \in sessions : s.user = u

Registering(t, u) == t.req.route = "register" /\ t.req.id = u

\* Nothing is left of an account that is gone; one that a request has read was there or
\* still has its tokens; an account being registered is new to everybody.
RowsInv ==
    /\ \A u \in Users : users[u] = None => stores[u] = None /\ \A l \in links : l.user # u
    /\ \A w \in Live, u \in Users : tx[w].users[u] # None => users[u] # None \/ Has(u)
    /\ \A w \in Live, u \in Users : tx[w].users[u] = None =>
          tx[w].stores[u] = None /\ \A l \in tx[w].links : l.user # u
    /\ \A w \in Live : tx[w].req.route = "delete" => Has(tx[w].req.user)
    /\ \A v \in Live, u \in Users : Registering(tx[v], u) =>
          /\ users[u] = None /\ ~Has(u)
          /\ \A w \in Live : tx[w].users[u] = None /\ (w # v => ~Registering(tx[w], u))

\* A request that ends adds the account it registers and deletes one that has tokens.
LEMMA DoneRows ==
    ASSUME TypeInv, RowsInv, NEW w \in Live, Close(w),
           \A u \in Users : users'[u] = None => stores'[u] = None /\ \A l \in links' : l.user # u,
           \A u \in Users : users[u] = None /\ users'[u] # None => Registering(tx[w], u),
           \A u \in Users : users[u] # None /\ users'[u] = None => Has(u),
           sessions \subseteq sessions',
           \A s \in sessions' : s \in sessions \/ tx[w].users[s.user] # None,
           \A s \in sessions' : s.user \in Users
    PROVE  RowsInv'
  <1>1. /\ Live' = Live \ {w} /\ \A v \in Live' : tx'[v] = tx[v] /\ v \in Live
    BY ClosedFrame DEF Live
  <1>2. \A u \in Users : Has(u) => Has(u)'
    BY DEF Has
  <1>3. \A v \in Live', u \in Users : tx'[v].users[u] # None => users'[u] # None \/ Has(u)'
    BY <1>1, <1>2 DEF RowsInv
  <1>4. \A v \in Live' : tx'[v].req.route = "delete" =>
          \E s \in sessions' : s.user = tx'[v].req.user
    BY <1>1 DEF RowsInv, Has
  <1>5. ASSUME NEW v \in Live', NEW u \in Users, Registering(tx'[v], u)
        PROVE  /\ users'[u] = None /\ ~Has(u)'
               /\ \A x \in Live' : tx'[x].users[u] = None /\ (x # v => ~Registering(tx'[x], u))
    <2>1. v \in Live /\ v # w /\ Registering(tx[v], u)
      BY <1>1, <1>5
    <2>2. /\ users[u] = None /\ ~Has(u) /\ tx[w].users[u] = None /\ ~Registering(tx[w], u)
      BY <2>1 DEF RowsInv
    <2>3. \A x \in Live : tx[x].users[u] = None /\ (x # v => ~Registering(tx[x], u))
      BY <2>1 DEF RowsInv
    <2>. QED
      BY <1>1, <2>2, <2>3 DEF Has
  <1>6. \A v \in Live', u \in Users : tx'[v].users[u] = None =>
          tx'[v].stores[u] = None /\ \A l \in tx'[v].links : l.user # u
    BY <1>1 DEF RowsInv
  <1>. QED
    BY <1>3, <1>4, <1>5, <1>6 DEF RowsInv, Registering, Has

LEMMA AnswerRows ==
    ASSUME TypeInv, RowsInv, NEW w \in Live, Answer(w)
    PROVE  RowsInv'
  <1>1. UNCHANGED <<users, stores, links, sessions>> /\ Close(w)
    BY DEF Answer, tables
  <1>2. \A s \in sessions : s.user \in Users
    BY DEF TypeInv, AccountsTypeOK
  <1>3. \A u \in Users : users'[u] = None => stores'[u] = None /\ \A l \in links' : l.user # u
    BY <1>1 DEF RowsInv
  <1>. QED
    BY <1>1, <1>2, <1>3, DoneRows

LEMMA SaveRows ==
    ASSUME TypeInv, RowsInv, NEW w \in Live, NEW n, NEW s, NEW l, Save(w, n, s, l),
           \A u \in Users : users[u] = None /\ n[u] # None => Registering(tx[w], u),
           \A u \in Users : users[u] # None /\ n[u] = None => Has(u)
    PROVE  RowsInv'
  <1>1. Close(w) /\ sessions' = sessions /\ \A k \in sessions : k.user \in Users
    BY DEF Save, TypeInv, AccountsTypeOK
  <1>2. CASE Consistent(n, s, l)
    <2>1. users' = n /\ stores' = s /\ links' = l
      BY <1>2 DEF Save
    <2>2. \A u \in Users : users'[u] = None => stores'[u] = None /\ \A k \in links' : k.user # u
      BY <1>2, <2>1 DEF Consistent
    <2>. QED
      BY <1>1, <2>1, <2>2, DoneRows
  <1>3. CASE ~Consistent(n, s, l)
    <2>1. UNCHANGED <<users, stores, links>>
      BY <1>3 DEF Save, tables
    <2>2. \A u \in Users : users'[u] = None => stores'[u] = None /\ \A k \in links' : k.user # u
      BY <2>1 DEF RowsInv
    <2>. QED
      BY <1>1, <2>1, <2>2, DoneRows
  <1>. QED
    BY <1>2, <1>3

LEMMA OpenRows ==
    ASSUME TypeInv, RowsInv, NEW w \in Workers, NEW r \in Asked, Open(w, r),
           r.route = "delete" => Has(r.user),
           r.route = "register" => /\ users[r.id] = None /\ ~Has(r.id)
                                   /\ \A v \in Live : ~Registering(tx[v], r.id)
    PROVE  RowsInv'
  <1>1. PICK t : t = [req |-> r, at |-> clock + 1, on |-> Concern(r), users |-> users,
                      stores |-> stores, links |-> links, void |-> None]
    OBVIOUS
  <1>2. /\ tx'[w] = t /\ \A v \in Workers \ {w} : tx'[v] = tx[v]
        /\ UNCHANGED <<users, stores, links, sessions>>
        /\ \A v \in Live' : v = w \/ (v # w /\ v \in Live /\ tx'[v] = tx[v])
    BY <1>1 DEF Open, TypeInv, Live, tables
  <1>3. t.req = r /\ t.users = users /\ t.stores = stores /\ t.links = links
    BY <1>1
  <1>4. \A u \in Users : Has(u)' <=> Has(u)
    BY <1>2 DEF Has
  <1>5. \A v \in Live', u \in Users : tx'[v].users[u] # None => users[u] # None \/ Has(u)
    BY <1>2, <1>3 DEF RowsInv
  <1>6. \A v \in Live' : tx'[v].req.route = "delete" => Has(tx'[v].req.user)
    BY <1>2, <1>3 DEF RowsInv
  <1>7. \A v \in Live', u \in Users : tx'[v].users[u] = None =>
          tx'[v].stores[u] = None /\ \A l \in tx'[v].links : l.user # u
    BY <1>2, <1>3 DEF RowsInv
  <1>8. ASSUME NEW v \in Live', NEW u \in Users, Registering(tx'[v], u)
        PROVE  /\ users[u] = None /\ ~Has(u)
               /\ \A x \in Live' : tx'[x].users[u] = None /\ (x # v => ~Registering(tx'[x], u))
    <2>1. users[u] = None /\ ~Has(u)
      BY <1>2, <1>3, <1>8 DEF RowsInv, Registering
    <2>2. \A x \in Live' : tx'[x].users[u] = None
      BY <1>5, <2>1
    <2>3. ASSUME NEW x \in Live', x # v PROVE ~Registering(tx'[x], u)
      BY <1>2, <1>3, <1>8, <2>1, <2>3 DEF RowsInv, Registering
    <2>. QED
      BY <2>1, <2>2, <2>3
  <1>9. \A u \in Users : users'[u] = None => stores'[u] = None /\ \A l \in links' : l.user # u
    BY <1>2 DEF RowsInv
  <1>. QED
    BY <1>2, <1>4, <1>5, <1>6, <1>7, <1>8, <1>9 DEF RowsInv, Registering, Has

\* Nothing of an account changes when the links it has are invalidated.
LEMMA InvalidateRows ==
    ASSUME TypeInv, RowsInv, NEW w \in Workers, Invalidate(w)
    PROVE  RowsInv'
  <1>0. w \in Live /\ IsTx(tx[w])
    BY DEF Invalidate, Serves, Live, TypeInv
  <1>1. CASE Answer(w)
    BY <1>0, <1>1, AnswerRows
  <1>2. CASE ~Answer(w)
    <2>1. PICK t : t = [tx[w] EXCEPT !.void = Unused(Issues(tx[w]), tx[w].on[2])]
      OBVIOUS
    <2>2. /\ t.req = tx[w].req /\ t.users = tx[w].users /\ t.stores = tx[w].stores
          /\ t.links = tx[w].links
      BY <1>0, <2>1 DEF IsTx
    <2>3. /\ tx'[w] = t /\ \A v \in Workers \ {w} : tx'[v] = tx[v]
          /\ UNCHANGED <<users, stores, links, sessions>>
      BY <1>2, <2>1 DEF Invalidate, TypeInv, tables
    <2>4. \A v \in Live' : /\ v \in Live /\ tx'[v].req = tx[v].req /\ tx'[v].users = tx[v].users
                          /\ tx'[v].stores = tx[v].stores /\ tx'[v].links = tx[v].links
      BY <1>0, <2>2, <2>3 DEF Live
    <2>. QED
      BY <2>3, <2>4 DEF RowsInv, Registering, Has
  <1>. QED
    BY <1>1, <1>2

LEMMA AccountStepRows ==
    ASSUME TypeInv, RowsInv, NEW w \in Workers, AccountSteps(w)
    PROVE  RowsInv'
  <1> DEFINE t == tx[w]
  <1>0. links \subseteq Link /\ users \in Rows /\ None \notin User
    BY RequestsAssumption DEF TypeInv, AccountsTypeOK, Rows
  <1>1. ASSUME t # None
        PROVE  w \in Live /\ IsTx(t) /\ t.req \in Asked /\ t.users \in Rows
    BY <1>1 DEF Live, TypeInv, IsTx
  <1>2. ASSUME NEW s, NEW l, Save(w, users, s, l), t # None PROVE RowsInv'
    BY <1>1, <1>2, SaveRows
  <1>3. CASE Begin(w)
    <2>1. ASSUME NEW r \in Requests, Open(w, r), r.route \in UserRoutes => Authenticated(r),
                 r.route = "register" =>
                    /\ users[r.id] = None /\ \A s \in sessions : s.user # r.id
                    /\ \A v \in Workers : Serves(v, "register") => tx[v].req.id # r.id
          PROVE  RowsInv'
      <3>1. r \in Asked
        BY DEF Asked
      <3>2. r.route = "delete" => Has(r.user)
        BY <2>1 DEF UserRoutes, Authenticated, Has
      <3>. QED
        BY <2>1, <3>1, <3>2, OpenRows DEF Has, Registering, Serves, Live
    <2>2. ASSUME NEW l \in links, NEW p \in Passwords,
                 Open(w, [route |-> l.kind, link |-> l, password |-> p])
          PROVE  RowsInv'
      <3>1. PICK r : r = [route |-> l.kind, link |-> l, password |-> p]
        OBVIOUS
      <3>2. r \in Asked /\ r.route \in Kinds
        BY <1>0, <3>1 DEF Asked, Link
      <3>3. r.route # "delete" /\ r.route # "register"
        BY <3>2 DEF Kinds
      <3>. QED
        BY <2>2, <3>1, <3>2, <3>3, OpenRows
    <2>. QED
      BY <1>3, <2>1, <2>2 DEF Begin
  <1>4. CASE Invalidate(w)
    BY <1>4, InvalidateRows
  <1>5. CASE SendPasswordReset(w) \/ ResendVerification(w) \/ CreateStore(w) \/ TenantWrite(w)
    <2>1. t # None /\ (Answer(w) \/ \E s, l : Save(w, users, s, l))
      BY <1>5 DEF SendPasswordReset, ResendVerification, CreateStore, TenantWrite, Ready, Serves
    <2>. QED
      BY <1>1, <1>2, <2>1, AnswerRows
  <1>6. ASSUME NEW n, NEW l, t # None, Save(w, n, stores, l),
               n = users \/ \E u, row : users[u] # None /\ n = [users EXCEPT ![u] = row] /\ row # None
        PROVE  RowsInv'
    <2>1. \A u \in Users : n[u] = None <=> users[u] = None
      BY <1>0, <1>6 DEF Rows
    <2>. QED
      BY <1>1, <1>6, <2>1, SaveRows
  <1>7. CASE UpdateEmail(w)
    <2>1. t # None /\ t.req.user \in Users /\ t.req.email \in Emails
      BY <1>1, <1>7, RequestFields DEF UpdateEmail, Ready, Serves
    <2>2. CASE Answer(w)
      BY <1>1, <2>1, <2>2, AnswerRows
    <2>3. CASE ~Answer(w)
      <3> DEFINE row == [users[t.req.user] EXCEPT !.email = t.req.email]
      <3>1. users[t.req.user] # None
        BY <1>7, <2>3 DEF UpdateEmail
      <3>2. row # None
        <4>1. row \in User
          BY <1>0, <2>1, <3>1 DEF Rows, User
        <4>. QED
          BY <1>0, <4>1
      <3>3. PICK n, l : /\ Save(w, n, stores, l)
                        /\ n = users \/ n = [users EXCEPT ![t.req.user] = row]
        BY <1>7, <2>3 DEF UpdateEmail
      <3> HIDE DEF row
      <3>. QED
        BY <1>6, <2>1, <3>1, <3>2, <3>3
    <2>. QED
      BY <2>2, <2>3
  <1>8. CASE VerifyEmail(w)
    <2>1. t # None /\ t.req.link.user \in Users
      BY <1>1, <1>8, RequestFields DEF VerifyEmail, Serves, Kinds, Link
    <2>2. CASE Answer(w)
      BY <1>1, <2>1, <2>2, AnswerRows
    <2>3. CASE ~Answer(w)
      <3> DEFINE row == [users[t.req.link.user] EXCEPT !.verified = TRUE]
      <3>1. users[t.req.link.user] # None
        BY <1>8, <2>3 DEF VerifyEmail
      <3>2. row # None
        <4>1. row \in User
          BY <1>0, <2>1, <3>1 DEF Rows, User
        <4>. QED
          BY <1>0, <4>1
      <3>3. PICK n, l : /\ Save(w, n, stores, l)
                        /\ n = users \/ n = [users EXCEPT ![t.req.link.user] = row]
        BY <1>8, <2>3 DEF VerifyEmail
      <3> HIDE DEF row
      <3>. QED
        BY <1>6, <2>1, <3>1, <3>2, <3>3
    <2>. QED
      BY <2>2, <2>3
  <1>9. CASE ResetPassword(w)
    <2>1. t # None /\ t.req.link.user \in Users /\ t.req.password \in Passwords
      BY <1>1, <1>9, RequestFields DEF ResetPassword, Serves, Kinds, Link
    <2>2. CASE Answer(w)
      BY <1>1, <2>1, <2>2, AnswerRows
    <2>3. CASE ~Answer(w)
      <3> DEFINE row == [users[t.req.link.user] EXCEPT !.password = t.req.password]
      <3>1. users[t.req.link.user] # None
        BY <1>9, <2>3 DEF ResetPassword
      <3>2. row # None
        <4>1. row \in User
          BY <1>0, <2>1, <3>1 DEF Rows, User
        <4>. QED
          BY <1>0, <4>1
      <3>3. PICK n, l : Save(w, n, stores, l) /\ n = [users EXCEPT ![t.req.link.user] = row]
        BY <1>9, <2>3 DEF ResetPassword
      <3> HIDE DEF row
      <3>. QED
        BY <1>6, <2>1, <3>1, <3>2, <3>3
    <2>. QED
      BY <2>2, <2>3
  <1>10. CASE Register(w)
    <2>1. t # None /\ t.req.id \in Users /\ t.req.route = "register"
      BY <1>1, <1>10, RequestFields DEF Register, Serves
    <2>2. CASE Answer(w)
      BY <1>1, <2>1, <2>2, AnswerRows
    <2>3. CASE ~Answer(w)
      <3>1. PICK row, s, l : Save(w, [users EXCEPT ![t.req.id] = row], s, l)
        BY <1>10, <2>3 DEF Register
      <3>2. PICK n : n = [users EXCEPT ![t.req.id] = row]
        OBVIOUS
      <3>3. users[t.req.id] = None
        BY <1>1, <2>1 DEF RowsInv, Registering
      <3>4. \A u \in Users : u # t.req.id => n[u] = users[u]
        BY <1>0, <3>2 DEF Rows
      <3>5. \A u \in Users : users[u] = None /\ n[u] # None => Registering(t, u)
        BY <2>1, <3>4 DEF Registering
      <3>6. \A u \in Users : users[u] # None => n[u] # None
        BY <3>3, <3>4
      <3>7. Save(w, n, s, l)
        BY <3>1, <3>2
      <3>. QED
        BY <1>1, <2>1, <3>5, <3>6, <3>7, SaveRows
    <2>. QED
      BY <2>2, <2>3
  <1>11. CASE Grant(w)
    <2>1. CASE Answer(w)
      BY <1>1, <1>11, <2>1, AnswerRows DEF Grant, Serves
    <2>2. CASE ~Answer(w)
      <3> DEFINE u == Identified(t)
      <3>1. /\ t # None /\ u # None /\ t.users[u] # None /\ t.req.route \in {"login", "refresh"}
            /\ sessions' = sessions \cup {Token(u, t.stores[u] # None)}
            /\ Close(w) /\ UNCHANGED <<users, stores, links>>
        BY <1>11, <2>2 DEF Grant, Serves, tables
      <3>2. u \in Users
        <4>1. CASE t.req.route = "refresh"
          BY <1>1, <3>1, <4>1, RequestFields DEF Identified
        <4>2. CASE t.req.route # "refresh"
          BY <1>1, <3>1, <4>2, HolderType DEF Identified
        <4>. QED
          BY <4>1, <4>2
      <3> HIDE DEF u
      <3>3. PICK b \in BOOLEAN : b = (t.stores[u] # None)
        OBVIOUS
      <3>4. sessions' = sessions \cup {Token(u, b)} /\ Token(u, b).user = u
        BY <3>1, <3>3 DEF Token
      <3>5. \A s \in sessions : s.user \in Users
        BY DEF TypeInv, AccountsTypeOK
      <3>6. \A a \in Users : users'[a] = None => stores'[a] = None /\ \A l \in links' : l.user # a
        BY <3>1 DEF RowsInv
      <3>. QED
        BY <1>1, <3>1, <3>2, <3>4, <3>5, <3>6, DoneRows
    <2>. QED
      BY <2>1, <2>2
  <1>12. CASE DeleteMe(w)
    <2>1. t # None /\ t.req.route = "delete" /\ t.req.user \in Users
      BY <1>1, <1>12, RequestFields DEF DeleteMe, Serves
    <2>2. CASE Answer(w)
      BY <1>1, <2>1, <2>2, AnswerRows
    <2>3. CASE ~Answer(w)
      <3>1. PICK s, l : Save(w, [users EXCEPT ![t.req.user] = None], s, l)
        BY <1>12, <2>3 DEF DeleteMe
      <3>2. PICK n : n = [users EXCEPT ![t.req.user] = None]
        OBVIOUS
      <3>3. Has(t.req.user)
        BY <1>1, <2>1 DEF RowsInv
      <3>4. \A u \in Users : n[u] = users[u] \/ (n[u] = None /\ u = t.req.user)
        BY <1>0, <3>2 DEF Rows
      <3>. QED
        BY <1>1, <2>1, <3>1, <3>2, <3>3, <3>4, SaveRows
    <2>. QED
      BY <2>2, <2>3
  <1>. QED
    BY <1>3, <1>4, <1>5, <1>7, <1>8, <1>9, <1>10, <1>11, <1>12 DEF AccountSteps

LEMMA IdleRows ==
    ASSUME RowsInv, UNCHANGED <<users, stores, sessions, tx>>,
           \A u \in Users : users'[u] = None => stores'[u] = None /\ \A m \in links' : m.user # u
    PROVE  RowsInv'
  <1>1. Live' = Live /\ \A u : Has(u)' <=> Has(u)
    BY DEF Live, Has
  <1>2. \A w \in Live : tx[w].req.route = "delete" => \E s \in sessions : s.user = tx[w].req.user
    BY DEF RowsInv, Has
  <1>. QED
    BY <1>1, <1>2 DEF RowsInv, Registering, Has

LEMMA RowsStep == TypeInv /\ RowsInv /\ [DeskNext]_vars => RowsInv'
  <1>. SUFFICES ASSUME TypeInv, RowsInv, [DeskNext]_vars PROVE RowsInv'
    OBVIOUS
  <1>1. ASSUME NEW w \in Workers, DeskBegin(w) PROVE RowsInv'
    <2>1. PICK r \in DeskRequests : Open(w, r)
      BY <1>1 DEF DeskBegin
    <2>2. r \in Asked /\ r.route # "delete" /\ r.route # "register"
      BY DeskAssumption DEF Asked
    <2>. QED
      BY <2>1, <2>2, OpenRows
  <1>2. ASSUME NEW w \in Workers, AdminLogin(w) PROVE RowsInv'
    BY <1>2, AnswerRows DEF AdminLogin, Serves, Live
  <1>3. ASSUME NEW w \in Workers, SetSuspension(w) \/ SupportLink(w) PROVE RowsInv'
    <2>1. w \in Live /\ (Answer(w) \/ \E s, l : Save(w, users, s, l))
      BY <1>3 DEF SetSuspension, SupportLink, Ready, Serves, Live
    <2>. QED
      BY <2>1, AnswerRows, SaveRows
  <1>4. ASSUME NEW w \in Workers, Merchant(AccountSteps(w)) PROVE RowsInv'
    BY <1>4, AccountStepRows DEF Merchant
  <1>5. ASSUME NEW l \in links, Expire(l) PROVE RowsInv'
    <2>1. /\ UNCHANGED <<users, stores, sessions, tx>> /\ links \subseteq Link
          /\ links' = (links \ {l}) \cup {[l EXCEPT !.expired = TRUE]}
      BY <1>5 DEF Expire, TypeInv, AccountsTypeOK
    <2>2. \A m \in links' : \E k \in links : k.user = m.user
      BY <2>1 DEF Link
    <2>3. \A u \in Users : users'[u] = None => stores'[u] = None /\ \A m \in links' : m.user # u
      BY <2>1, <2>2 DEF RowsInv
    <2>. QED
      BY <2>1, <2>3, IdleRows
  <1>6. CASE LockExpires \/ ListPage \/ UNCHANGED vars
    <2>1. UNCHANGED <<users, stores, links, sessions, tx>>
      BY <1>6 DEF LockExpires, ListPage, vars, accounts
    <2>2. \A u \in Users : users'[u] = None => stores'[u] = None /\ \A m \in links' : m.user # u
      BY <2>1 DEF RowsInv
    <2>. QED
      BY <2>1, <2>2, IdleRows
  <1>. QED
    BY <1>1, <1>2, <1>3, <1>4, <1>5, <1>6 DEF DeskNext, Merchant

LEMMA RowsInit == DeskInit => RowsInv
  BY RequestsAssumption DEF DeskInit, Init, RowsInv, Live, Registering

-----------------------------------------------------------------------------
(* Verified addresses *)

\* The verification links of an account that may still be opened.
Pending(u) == {l \in links : l.user = u /\ l.kind = "verify" /\ ~l.used}

\* The address of an account is verified by its own link, and the links that may
\* still be opened go to that address.
Settled(u) ==
    /\ users[u].verified => <<u, users[u].email>> \in confirmed
    /\ \A l \in Pending(u) : l.to = users[u].email

\* What a request has read of the address of an account is still so.
Knows(t, u) ==
    /\ t.users[u] # None => /\ t.users[u].email = users[u].email
                            /\ t.users[u].verified = users[u].verified
    /\ \A l \in t.links : l.user = u /\ l.kind = "verify" /\ ~l.used => l.to = users[u].email
    /\ t.void # None => \A l \in Pending(u) : l.id \in t.void

Opening(t) ==
    t.req.route = "verify" =>
        t.req.link \in t.links /\ t.req.link.kind = "verify" /\ t.on = <<t.req.link.user, "verify">>

VerifyInv ==
    /\ \A w \in Live : Opening(tx[w]) /\ \A l, m \in tx[w].links : l.id = m.id => l = m
    /\ \A u \in Users : users[u] # None /\ <<u, "verify">> \notin raced =>
          Settled(u) /\ \A w \in Live : tx[w].on = <<u, "verify">> => Knows(tx[w], u)

\* A step leaves the address of an account as it is, and adds no link to it.
Untouched(u) ==
    /\ users[u] # None
    /\ users'[u].email = users[u].email /\ users'[u].verified = users[u].verified
    /\ \A m \in Pending(u)' : \E l \in Pending(u) : l.id = m.id /\ l.to = m.to

Addressed(w) ==
    \A u \in Users : users'[u] # None /\ <<u, "verify">> \notin raced =>
        \/ Untouched(u)
        \/ Settled(u)' /\ (tx[w].on = <<u, "verify">> \/ Registering(tx[w], u))

\* Nobody else is on an account that is being registered, and nothing was read of it.
LEMMA KnowsNothing ==
    ASSUME TypeInv, LinksInv, RowsInv, NEW v \in Live, NEW u \in Users,
           tx[v].users[u] = None, tx[v].on = <<u, "verify">>
    PROVE  tx[v].void = None /\ \A l \in tx[v].links : l.user # u
  <1>1. IsTx(tx[v]) /\ \A l \in tx[v].links : l.user # u
    BY DEF TypeInv, RowsInv
  <1>2. ASSUME tx[v].void # None PROVE FALSE
    <2>1. tx[v].req.route \in LinkRoutes /\ Issues(tx[v]) # None
      BY <1>1, <1>2 DEF IsTx
    <2>2. Issues(tx[v]) = u
      BY <2>1 DEF LinksInv, LinksRead, Concerned
    <2>3. tx[v].users[u] \in User
      BY <1>1, <2>1, <2>2, IssuesType
    <2>. QED
      BY <2>3, RequestsAssumption
  <1>. QED
    BY <1>1, <1>2

LEMMA DoneVerify ==
    ASSUME TypeInv, LinksInv, RowsInv, VerifyInv, NEW w \in Live, Close(w), raced' = raced,
           confirmed \subseteq confirmed', Addressed(w)
    PROVE  VerifyInv'
  <1>1. /\ Live' = Live \ {w} /\ \A v \in Live' : tx'[v] = tx[v] /\ v \in Live /\ v # w
    BY ClosedFrame DEF Live
  <1>2. \A v \in Live' : Opening(tx'[v]) /\ \A l, m \in tx'[v].links : l.id = m.id => l = m
    BY <1>1 DEF VerifyInv
  <1>3. ASSUME NEW u \in Users, users'[u] # None, <<u, "verify">> \notin raced
        PROVE  /\ Settled(u)'
               /\ \A v \in Live' : tx[v].on = <<u, "verify">> => Knows(tx[v], u)'
    <2>1. CASE Untouched(u)
      <3>1. Settled(u) /\ \A v \in Live : tx[v].on = <<u, "verify">> => Knows(tx[v], u)
        BY <1>3, <2>1 DEF VerifyInv, Untouched
      <3>2. Settled(u)'
        BY <2>1, <3>1 DEF Settled, Untouched
      <3>3. ASSUME NEW v \in Live', tx[v].on = <<u, "verify">> PROVE Knows(tx[v], u)'
        <4>1. Knows(tx[v], u) /\ tx'[v] = tx[v]
          BY <1>1, <3>1, <3>3
        <4>. QED
          BY <2>1, <4>1 DEF Knows, Untouched
      <3>. QED
        BY <3>2, <3>3
    <2>2. CASE Settled(u)' /\ tx[w].on = <<u, "verify">>
      <3>1. <<u, "verify">> \in Users \X Kinds
        BY DEF Kinds
      <3>. QED
        BY <1>1, <1>3, <2>2, <3>1 DEF LinksInv, Overlaps
    <2>3. CASE Settled(u)' /\ Registering(tx[w], u)
      <3>1. ASSUME NEW v \in Live', tx[v].on = <<u, "verify">> PROVE Knows(tx[v], u)'
        <4>1. tx'[v] = tx[v] /\ v \in Live /\ tx[v].users[u] = None
          BY <1>1, <2>3 DEF RowsInv
        <4>2. tx[v].void = None /\ \A l \in tx[v].links : l.user # u
          BY <3>1, <4>1, KnowsNothing
        <4>. QED
          BY <4>1, <4>2 DEF Knows
      <3>. QED
        BY <2>3, <3>1
    <2>. QED
      BY <1>3, <2>1, <2>2, <2>3 DEF Addressed
  <1>4. \A u \in Users : users'[u] # None /\ <<u, "verify">> \notin raced =>
          \A v \in Live' : tx'[v].on = <<u, "verify">> => Knows(tx[v], u)'
    BY <1>1, <1>3
  <1>. QED
    BY <1>2, <1>3, <1>4 DEF VerifyInv, Opening

LEMMA IdleAddresses ==
    ASSUME NEW w, UNCHANGED <<users, links>>
    PROVE  Addressed(w)
  BY DEF Addressed, Untouched, Pending

LEMMA AnswerVerify ==
    ASSUME TypeInv, LinksInv, RowsInv, VerifyInv, NEW w \in Live, Answer(w)
    PROVE  VerifyInv'
  BY IdleAddresses, DoneVerify DEF Answer, tables

LEMMA SaveVerify ==
    ASSUME TypeInv, LinksInv, RowsInv, VerifyInv, NEW w \in Live, NEW n, NEW s, NEW l,
           Save(w, n, s, l), confirmed \subseteq confirmed',
           users' = n /\ links' = l => Addressed(w)
    PROVE  VerifyInv'
  <1>1. CASE users' = n /\ links' = l
    BY <1>1, DoneVerify DEF Save
  <1>2. CASE UNCHANGED <<users, links>>
    BY <1>2, IdleAddresses, DoneVerify DEF Save
  <1>. QED
    BY <1>1, <1>2 DEF Save, tables

\* The links that may be opened after a step are new ones or may have been before.
LEMMA PendingAfter ==
    ASSUME NEW w, NEW new, LinksAfter(w, new), NEW u, NEW m \in Pending(u)', m \notin new
    PROVE  \E l \in Pending(u) : l.id = m.id /\ l.to = m.to
  BY DEF LinksAfter, Pending, Kept, Same

\* A step that leaves the addresses and adds no verification link.
LEMMA SameAddresses ==
    ASSUME NEW w, NEW new, LinksAfter(w, new), \A m \in new : m.kind # "verify",
           \A u \in Users : users'[u] # None =>
              /\ users[u] # None /\ users'[u].email = users[u].email
              /\ users'[u].verified = users[u].verified
    PROVE  Addressed(w)
  <1>1. ASSUME NEW u \in Users, NEW m \in Pending(u)'
        PROVE  \E l \in Pending(u) : l.id = m.id /\ l.to = m.to
    <2>1. m.kind = "verify"
      BY DEF Pending
    <2>. QED
      BY <2>1, PendingAfter
  <1>. QED
    BY <1>1 DEF Addressed, Untouched

LEMMA OpenVerify ==
    ASSUME TypeInv, LinksInv, VerifyInv, NEW w \in Workers, NEW r \in Asked, Open(w, r),
           r.route = "verify" => r.link \in links /\ r.link.kind = "verify"
    PROVE  VerifyInv'
  <1>1. PICK t : t = [req |-> r, at |-> clock + 1, on |-> Concern(r), users |-> users,
                      stores |-> stores, links |-> links, void |-> None]
    OBVIOUS
  <1>2. /\ tx'[w] = t /\ \A v \in Workers \ {w} : tx'[v] = tx[v]
        /\ UNCHANGED <<users, links, confirmed>> /\ raced \subseteq raced'
        /\ \A v \in Live' : v = w \/ (v # w /\ v \in Live /\ tx'[v] = tx[v])
    BY <1>1 DEF Open, TypeInv, Live, tables
  <1>3. t.req = r /\ t.users = users /\ t.links = links /\ t.void = None /\ t.on = Concern(r)
    BY <1>1
  <1>4. Opening(t)
    BY <1>3 DEF Opening, Concern
  <1>5. \A v \in Live' : Opening(tx'[v]) /\ \A l, m \in tx'[v].links : l.id = m.id => l = m
    BY <1>2, <1>3, <1>4 DEF VerifyInv, LinksInv, LinkRows
  <1>6. ASSUME NEW u \in Users, users[u] # None, <<u, "verify">> \notin raced'
        PROVE  Settled(u) /\ \A v \in Live' : tx'[v].on = <<u, "verify">> => Knows(tx'[v], u)
    <2>1. Settled(u) /\ \A v \in Live : tx[v].on = <<u, "verify">> => Knows(tx[v], u)
      BY <1>2, <1>6 DEF VerifyInv
    <2>2. Knows(t, u)
      BY <1>3, <2>1 DEF Knows, Settled, Pending
    <2>. QED
      BY <1>2, <2>1, <2>2
  <1>7. ASSUME NEW u \in Users, users[u] # None, <<u, "verify">> \notin raced'
        PROVE  Settled(u)' /\ \A v \in Live' : tx'[v].on = <<u, "verify">> => Knows(tx[v], u)'
    <2>1. Settled(u)'
      BY <1>2, <1>6, <1>7 DEF Settled, Pending
    <2>2. ASSUME NEW v \in Live', tx'[v].on = <<u, "verify">> PROVE Knows(tx[v], u)'
      <3>1. Knows(tx'[v], u)
        BY <1>6, <1>7, <2>2
      <3>. QED
        BY <1>2, <3>1 DEF Knows, Pending
    <2>. QED
      BY <2>1, <2>2
  <1>. QED
    BY <1>2, <1>5, <1>7 DEF VerifyInv, Opening

LEMMA InvalidateVerify ==
    ASSUME TypeInv, LinksInv, RowsInv, VerifyInv, NEW w \in Workers, Invalidate(w)
    PROVE  VerifyInv'
  <1>0. w \in Live /\ IsTx(tx[w]) /\ tx[w].req.route \in LinkRoutes
    BY DEF Invalidate, Serves, Live, TypeInv
  <1>1. CASE Answer(w)
    BY <1>0, <1>1, AnswerVerify
  <1>2. CASE Issues(tx[w]) # None /\ ~Answer(w)
    <2>1. PICK found : found = Unused(Issues(tx[w]), tx[w].on[2])
      OBVIOUS
    <2>2. PICK t : t = [tx[w] EXCEPT !.void = found]
      OBVIOUS
    <2>3. /\ t.req = tx[w].req /\ t.users = tx[w].users /\ t.links = tx[w].links
          /\ t.on = tx[w].on /\ t.void = found
      BY <1>0, <2>2 DEF IsTx
    <2>4. /\ tx'[w] = t /\ \A v \in Workers \ {w} : tx'[v] = tx[v]
          /\ UNCHANGED <<users, links, confirmed, raced>>
      BY <1>2, <2>1, <2>2 DEF Invalidate, TypeInv, tables
    <2>5. \A v \in Live' : v \in Live
      BY <1>0, <2>4 DEF Live
    <2>6. tx[w].on = <<Issues(tx[w]), KindOf(tx[w].req.route)>>
      BY <1>0, <1>2 DEF LinksInv, LinksRead, Concerned
    <2>7. ASSUME NEW u \in Users, tx[w].on = <<u, "verify">>, NEW l \in Pending(u)
          PROVE  l.id \in found
      BY <2>1, <2>6, <2>7 DEF Pending, Unused
    <2>8. \A v \in Live' : Opening(tx'[v]) /\ \A l, m \in tx'[v].links : l.id = m.id => l = m
      <3>1. ASSUME NEW v \in Live'
            PROVE  /\ tx'[v].req = tx[v].req /\ tx'[v].links = tx[v].links
                   /\ tx'[v].on = tx[v].on /\ v \in Live
        BY <2>3, <2>4, <2>5 DEF Live
      <3>. QED
        BY <3>1 DEF VerifyInv, Opening
    <2>9. ASSUME NEW u \in Users, users[u] # None, <<u, "verify">> \notin raced
          PROVE  Settled(u)' /\ \A v \in Live' : tx'[v].on = <<u, "verify">> => Knows(tx[v], u)'
      <3>1. Settled(u) /\ \A v \in Live : tx[v].on = <<u, "verify">> => Knows(tx[v], u)
        BY <2>9 DEF VerifyInv
      <3>2. Settled(u)'
        BY <2>4, <3>1 DEF Settled, Pending
      <3>3. ASSUME NEW v \in Live', tx'[v].on = <<u, "verify">> PROVE Knows(tx[v], u)'
        <4>1. CASE v = w
          <5>1. Knows(tx[w], u) /\ tx[w].on = <<u, "verify">>
            BY <1>0, <2>3, <2>4, <3>1, <3>3, <4>1
          <5>2. Knows(t, u)
            BY <2>3, <2>7, <5>1 DEF Knows
          <5>. QED
            BY <2>4, <4>1, <5>2 DEF Knows, Pending
        <4>2. CASE v # w
          <5>1. Knows(tx[v], u) /\ tx'[v] = tx[v]
            BY <2>4, <2>5, <3>1, <3>3, <4>2 DEF Live
          <5>. QED
            BY <2>4, <5>1 DEF Knows, Pending
        <4>. QED
          BY <4>1, <4>2
      <3>. QED
        BY <3>2, <3>3
    <2>. QED
      BY <2>4, <2>8, <2>9 DEF VerifyInv, Opening
  <1>. QED
    BY <1>1, <1>2 DEF Invalidate

\* The address a link is sent to is the one the account has; the older links that
\* may be opened have been found.
LEMMA ReplacedVerify ==
    ASSUME TypeInv, LinksInv, RowsInv, VerifyInv, NEW w \in Live, tx[w].void # None,
           NEW u \in Users, u = Issues(tx[w]), "verify" = KindOf(tx[w].req.route),
           NEW to \in Emails \cup {None}, NEW n, NEW s,
           Save(w, n, s, Replaced(tx[w], "verify", u, to)), confirmed' = confirmed,
           \A a \in Users : a # u => n[a] = users[a],
           users[u] # None /\ <<u, "verify">> \notin raced /\ Knows(tx[w], u) /\ Settled(u) =>
              n[u].email = to /\ (n[u].verified => n[u] = users[u]),
           users[u] = None => n[u] = None
    PROVE  VerifyInv'
  <1> DEFINE new == {NewLink(tx[w], "verify", u, to)}
             l == Replaced(tx[w], "verify", u, to)
  <1>1. ASSUME users' = n, links' = l PROVE Addressed(w)
    <2>1. LinksAfter(w, new)
      BY <1>1, ReplacedLinks
    <2>2. \A m \in new : m.user = u /\ m.to = to
      BY DEF NewLink
    <2>3. tx[w].on = <<u, "verify">>
      <3>1. IsTx(tx[w])
        BY DEF TypeInv
      <3>. QED
        BY <3>1 DEF IsTx, LinksInv, LinksRead, Concerned
    <2>4. \A k \in links' : k \notin new => (k.id \in tx[w].void => k.used)
      <3>1. links \subseteq Link /\ \A k \in links : Once(k)
        BY DEF TypeInv, AccountsTypeOK, LinksInv, LinkRows
      <3>2. ASSUME NEW k \in UsedUp(tx[w].void), k.id \in tx[w].void PROVE k.used
        BY <3>1, <3>2, UsedUpLinks DEF Kept, Same
      <3>. QED
        BY <1>1, <3>2 DEF Replaced
    <2> HIDE DEF new
    <2>5. ASSUME NEW a \in Users, users'[a] # None, <<a, "verify">> \notin raced
          PROVE  Untouched(a) \/ (Settled(a)' /\ tx[w].on = <<a, "verify">>)
      <3>1. CASE a # u
        <4>1. \A m \in Pending(a)' : \E k \in Pending(a) : k.id = m.id /\ k.to = m.to
          <5>1. ASSUME NEW m \in Pending(a)' PROVE m \notin new
            BY <2>2, <3>1 DEF Pending
          <5>. QED
            BY <2>1, <5>1, PendingAfter
        <4>. QED
          BY <1>1, <2>5, <3>1, <4>1 DEF Untouched
      <3>2. CASE a = u
        <4>1. users[u] # None
          BY <1>1, <2>5, <3>2
        <4>2. Settled(u) /\ Knows(tx[w], u)
          BY <2>3, <2>5, <3>2, <4>1 DEF VerifyInv
        <4>3. n[u].email = to /\ (n[u].verified => n[u] = users[u])
          BY <2>5, <3>2, <4>1, <4>2
        <4>4. ASSUME NEW m \in Pending(u)' PROVE m.to = to
          <5>1. CASE m \in new
            BY <2>2, <5>1
          <5>2. CASE m \notin new
            <6>1. PICK k \in Pending(u) : k.id = m.id
              BY <2>1, <5>2, PendingAfter
            <6>2. m.id \in tx[w].void /\ m \in links' /\ ~m.used
              BY <4>2, <6>1 DEF Knows, Pending
            <6>. QED
              BY <2>4, <5>2, <6>2
          <5>. QED
            BY <5>1, <5>2
        <4>5. n[u].verified => <<u, n[u].email>> \in confirmed'
          BY <4>2, <4>3 DEF Settled
        <4>. QED
          BY <1>1, <2>3, <3>2, <4>3, <4>4, <4>5 DEF Settled
      <3>. QED
        BY <3>1, <3>2
    <2>. QED
      BY <2>5 DEF Addressed
  <1> HIDE DEF new, l
  <1>2. Save(w, n, s, l)
    BY DEF l
  <1>. QED
    BY <1>1, <1>2, SaveVerify

\* The link that is opened was sent to the address the account has.
LEMMA OpenedVerify ==
    ASSUME TypeInv, LinksInv, RowsInv, VerifyInv, NEW w \in Live, VerifyEmail(w), ~Answer(w)
    PROVE  VerifyInv'
  <1>0. PICK t, link, u : t = tx[w] /\ link = t.req.link /\ u = link.user
    OBVIOUS
  <1> DEFINE read == {l \in t.links : l.id = link.id /\ l.kind = "verify"}
             n == IF t.users[u].verified THEN users
                  ELSE [users EXCEPT ![u] = [@ EXCEPT !.verified = TRUE]]
  <1>1. /\ t.req.route = "verify" /\ t.users[u] # None /\ users[u] # None
        /\ Save(w, n, stores, OpenedUsed(link))
        /\ confirmed' = confirmed \cup {<<u, link.to>>}
    BY <1>0 DEF VerifyEmail, Serves, OpenedUsed
  <1>2. PICK r \in read : ~r.used
    BY <1>0 DEF VerifyEmail
  <1>3. /\ link \in t.links /\ link.kind = "verify" /\ t.on = <<u, "verify">>
        /\ \A l, m \in t.links : l.id = m.id => l = m
    BY <1>0, <1>1 DEF VerifyInv, Opening
  <1>4. ~link.used
    BY <1>2, <1>3
  <1>5. u \in Users /\ users \in Rows
    BY <1>0, <1>3 DEF TypeInv, IsTx, Link, Live, AccountsTypeOK, Rows
  <1>6. ASSUME users' = n, links' = OpenedUsed(link) PROVE Addressed(w)
    <2>1. LinksAfter(w, {})
      BY <1>0, <1>2, <1>6, VerifiedLinks
    <2>2. \A a \in Users : \A m \in Pending(a)' :
            \E l \in Pending(a) : l.id = m.id /\ l.to = m.to
      BY <2>1, PendingAfter
    <2>3. \A a \in Users : a # u => n[a] = users[a]
      BY <1>5 DEF Rows
    <2>4. n[u].email = users[u].email
      BY <1>1, <1>5 DEF Rows, User
    <2> HIDE DEF n
    <2>5. ASSUME NEW a \in Users, users'[a] # None, <<a, "verify">> \notin raced
          PROVE  Untouched(a) \/ (Settled(a)' /\ t.on = <<a, "verify">>)
      <3>1. CASE a # u
        BY <1>6, <2>2, <2>3, <2>5, <3>1 DEF Untouched
      <3>2. CASE a = u
        <4>1. Settled(u) /\ Knows(t, u)
          BY <1>0, <1>1, <1>3, <1>5, <2>5, <3>2 DEF VerifyInv
        <4>2. link.to = users[u].email
          BY <1>0, <1>3, <1>4, <4>1 DEF Knows
        <4>3. \A m \in Pending(u)' : m.to = users[u].email
          BY <1>5, <2>2, <4>1 DEF Settled
        <4>. QED
          BY <1>1, <1>3, <1>6, <2>4, <3>2, <4>2, <4>3 DEF Settled
      <3>. QED
        BY <3>1, <3>2
    <2>. QED
      BY <1>0, <2>5 DEF Addressed
  <1> HIDE DEF n
  <1>7. PICK l : l = OpenedUsed(link)
    OBVIOUS
  <1>8. confirmed \subseteq confirmed' /\ Save(w, n, stores, l)
    BY <1>1, <1>7
  <1>. QED
    BY <1>6, <1>7, <1>8, SaveVerify

\* The only link of a new account goes to the address it registered with.
LEMMA RegisterVerify ==
    ASSUME TypeInv, LinksInv, RowsInv, VerifyInv, NEW w \in Live, Register(w), ~Answer(w)
    PROVE  VerifyInv'
  <1>0. PICK t, u : t = tx[w] /\ u = t.req.id
    OBVIOUS
  <1> DEFINE row == [phone |-> t.req.phone, email |-> t.req.email, verified |-> FALSE,
                     password |-> t.req.password, created |-> t.at]
             n == [users EXCEPT ![u] = row]
             s == [stores EXCEPT ![u] = NewStore(t.at)]
             new == {NewLink(t, "verify", u, t.req.email)}
             l == links \cup new
  <1>1. t.req.route = "register" /\ Save(w, n, s, l) /\ confirmed' = confirmed
    BY <1>0 DEF Register, Serves
  <1>2. u \in Users /\ t.req.email \in Emails /\ users \in Rows
    BY <1>0, <1>1, RequestFields DEF TypeInv, IsTx, Live, AccountsTypeOK, Rows
  <1>3. /\ users[u] = None /\ Registering(t, u) /\ n[u] = row
        /\ \A a \in Users : a # u => n[a] = users[a]
    BY <1>0, <1>1, <1>2 DEF RowsInv, Registering, Rows
  <1>4. \A m \in new : m.user = u /\ m.to = t.req.email
    BY DEF NewLink
  <1>5. row.email = t.req.email /\ ~row.verified
    OBVIOUS
  <1>6. \A m \in links : m.user # u
    BY <1>2, <1>3 DEF RowsInv
  <1> HIDE DEF row, n
  <1>7. ASSUME users' = n, links' = l PROVE Addressed(w)
    <2>1. Settled(u)'
      BY <1>3, <1>4, <1>5, <1>6, <1>7 DEF Settled, Pending
    <2>2. ASSUME NEW a \in Users, a # u, users'[a] # None PROVE Untouched(a)
      <3>1. \A m \in Pending(a)' : m \in Pending(a)
        BY <1>4, <1>7, <2>2 DEF Pending
      <3>. QED
        BY <1>3, <1>7, <2>2, <3>1 DEF Untouched
    <2>. QED
      BY <1>0, <1>3, <2>1, <2>2 DEF Addressed
  <1> HIDE DEF s, new, l
  <1>. QED
    BY <1>1, <1>7, SaveVerify

\* A step that writes no address and no verification link.
LEMMA QuietVerify ==
    ASSUME TypeInv, LinksInv, RowsInv, VerifyInv, NEW w \in Live, NEW n, NEW s, NEW l,
           Save(w, n, s, l), confirmed' = confirmed,
           \A u \in Users : n[u] # None =>
              users[u] # None /\ n[u].email = users[u].email /\ n[u].verified = users[u].verified,
           NEW new, links' = l => LinksAfter(w, new), \A m \in new : m.kind # "verify"
    PROVE  VerifyInv'
  <1>1. users' = n /\ links' = l => Addressed(w)
    BY SameAddresses
  <1>. QED
    BY <1>1, SaveVerify

LEMMA AccountStepVerify ==
    ASSUME TypeInv, LinksInv, RowsInv, VerifyInv, NEW w \in Workers, AccountSteps(w)
    PROVE  VerifyInv'
  <1>0. links \subseteq Link /\ users \in Rows /\ None \notin User
    BY RequestsAssumption DEF TypeInv, AccountsTypeOK, Rows
  <1>1. PICK t : t = tx[w]
    OBVIOUS
  <1>2. ASSUME t # None
        PROVE  w \in Live /\ IsTx(t) /\ t.req \in Asked /\ t.users \in Rows
    BY <1>1, <1>2 DEF Live, TypeInv, IsTx
  <1>3. ASSUME t # None, t.void # None
        PROVE  /\ Issues(t) \in Users /\ t.users[Issues(t)] \in User
               /\ t.req.route # "forgot" => Issues(t) = t.req.user
    BY <1>2, <1>3, IssuesType DEF IsTx, User
  <1>4. CASE Begin(w)
    <2>1. ASSUME NEW r \in Requests, Open(w, r) PROVE VerifyInv'
      BY <2>1, OpenVerify, RequestsAssumption DEF Asked, UserRoutes
    <2>2. ASSUME NEW l \in links, NEW p \in Passwords,
                 Open(w, [route |-> l.kind, link |-> l, password |-> p])
          PROVE  VerifyInv'
      <3>1. PICK r : r = [route |-> l.kind, link |-> l, password |-> p]
        OBVIOUS
      <3>2. r \in Asked /\ r.route = l.kind /\ r.link = l
        BY <1>0, <3>1 DEF Asked, Link
      <3>. QED
        BY <2>2, <3>1, <3>2, OpenVerify
    <2>. QED
      BY <1>4, <2>1, <2>2 DEF Begin
  <1>5. CASE Invalidate(w)
    BY <1>5, InvalidateVerify
  <1>6. CASE Answer(w) /\ t # None
    BY <1>2, <1>6, AnswerVerify
  <1>7. CASE SendPasswordReset(w)
    <2>1. t # None /\ t.void # None /\ "reset" = KindOf(t.req.route) /\ confirmed' = confirmed
      BY <1>1, <1>7 DEF SendPasswordReset, Ready, Serves, KindOf
    <2>2. PICK u \in Users : u = Issues(t)
      BY <1>3, <2>1
    <2>3. PICK to \in Emails \cup {None} : to = t.users[u].email
      BY <1>3, <2>1, <2>2 DEF User
    <2>4. PICK l, new : /\ l = Replaced(tx[w], "reset", u, to)
                        /\ new = {NewLink(tx[w], "reset", u, to)}
      OBVIOUS
    <2>5. \A m \in new : m.kind # "verify"
      BY <2>4 DEF NewLink
    <2>6. links' = l => LinksAfter(w, new)
      BY <1>1, <1>2, <2>1, <2>2, <2>4, ReplacedLinks
    <2>7. Save(w, users, stores, l)
      BY <1>1, <1>7, <2>2, <2>3, <2>4 DEF SendPasswordReset
    <2>. QED
      BY <1>2, <2>1, <2>5, <2>6, <2>7, QuietVerify
  <1>8. CASE ResendVerification(w)
    <2>1. /\ t # None /\ t.void # None /\ "verify" = KindOf(t.req.route)
          /\ t.req.route = "resend" /\ confirmed' = confirmed
      BY <1>1, <1>8 DEF ResendVerification, Ready, Serves, KindOf
    <2>2. PICK u \in Users : u = Issues(t) /\ u = t.req.user
      BY <1>3, <2>1
    <2>3. PICK to \in Emails \cup {None} : to = t.users[u].email
      BY <1>3, <2>1, <2>2 DEF User
    <2>4. Save(w, users, stores, Replaced(tx[w], "verify", u, to))
      BY <1>1, <1>8, <2>2, <2>3 DEF ResendVerification
    <2>5. Knows(t, u) => users[u].email = to
      BY <1>0, <1>3, <2>1, <2>2, <2>3 DEF Knows
    <2>. QED
      BY <1>1, <1>2, <2>1, <2>2, <2>4, <2>5, ReplacedVerify
  <1>9. CASE UpdateEmail(w) /\ ~Answer(w)
    <2>1. /\ t # None /\ t.void # None /\ "verify" = KindOf(t.req.route)
          /\ t.req.route = "email" /\ confirmed' = confirmed
      BY <1>1, <1>9 DEF UpdateEmail, Ready, Serves, KindOf
    <2>2. PICK u \in Users : u = Issues(t) /\ u = t.req.user
      BY <1>3, <2>1
    <2>3. PICK to \in Emails \cup {None} : to = t.req.email
      BY <1>2, <2>1, RequestFields
    <2>4. PICK n : n = IF t.users[u].email = to THEN users
                       ELSE [users EXCEPT ![u] = [@ EXCEPT !.email = to]]
      OBVIOUS
    <2>5. users[u] # None /\ Save(w, n, stores, Replaced(tx[w], "verify", u, to))
      BY <1>1, <1>9, <2>2, <2>3, <2>4 DEF UpdateEmail
    <2>6. ~t.users[u].verified
      <3>1. Issues(t) # None
        BY <1>2, <2>1 DEF IsTx
      <3>. QED
        BY <2>1, <2>2, <3>1 DEF Issues
    <2>7. \A a \in Users : a # u => n[a] = users[a]
      BY <1>0, <2>4 DEF Rows
    <2>8. ASSUME Knows(t, u) PROVE n[u].email = to /\ ~n[u].verified
      <3>1. t.users[u] # None
        BY <1>0, <1>3, <2>1, <2>2
      <3>2. users[u].email = t.users[u].email /\ users[u].verified = t.users[u].verified
        BY <2>8, <3>1 DEF Knows
      <3>3. users[u] \in User
        BY <1>0, <2>5 DEF Rows
      <3>. QED
        BY <1>0, <2>4, <2>6, <3>2, <3>3 DEF Rows, User
    <2>. QED
      BY <1>1, <1>2, <2>1, <2>2, <2>5, <2>7, <2>8, ReplacedVerify, ZenonT(30)
  <1>10. CASE VerifyEmail(w) /\ ~Answer(w)
    BY <1>1, <1>2, <1>10, OpenedVerify DEF VerifyEmail, Serves
  <1>11. CASE ResetPassword(w) /\ ~Answer(w)
    <2>1. t # None /\ t.req.link.user \in Users /\ confirmed' = confirmed
      BY <1>1, <1>2, <1>11, RequestFields DEF ResetPassword, Serves, Kinds, Link
    <2>2. users[t.req.link.user] # None /\ Consumed(tx[w], t.req.link) # {}
      BY <1>1, <1>11 DEF ResetPassword
    <2>3. PICK ids, n : /\ ids = Unused(t.req.link.user, "reset")
                        /\ n = [users EXCEPT ![t.req.link.user] = [@ EXCEPT !.password = t.req.password]]
      OBVIOUS
    <2>4. PICK l : l = Opened(UsedUp(ids \cup {t.req.link.id}), t.req.link)
      OBVIOUS
    <2>5. links' = l => LinksAfter(w, {})
      BY <1>2, <2>1, <2>2, <2>4, ConsumedLinks
    <2>6. \A u \in Users : n[u] # None =>
            users[u] # None /\ n[u].email = users[u].email /\ n[u].verified = users[u].verified
      BY <1>0, <2>1, <2>2, <2>3 DEF Rows, User
    <2>7. Save(w, n, stores, l)
      BY <1>1, <1>11, <2>3, <2>4 DEF ResetPassword, Opened
    <2>. QED
      BY <1>2, <2>1, <2>5, <2>6, <2>7, QuietVerify
  <1>12. CASE Register(w) /\ ~Answer(w)
    BY <1>1, <1>2, <1>12, RegisterVerify DEF Register, Serves
  <1>13. CASE Grant(w) /\ ~Answer(w)
    <2>1. t # None /\ Close(w) /\ UNCHANGED <<users, links, raced, confirmed>>
      BY <1>1, <1>13 DEF Grant, Serves, tables
    <2>. QED
      BY <1>2, <2>1, IdleAddresses, DoneVerify
  <1>14. CASE (CreateStore(w) \/ TenantWrite(w)) /\ ~Answer(w)
    <2>1. t # None /\ confirmed' = confirmed /\ \E s : Save(w, users, s, links)
      BY <1>1, <1>14 DEF CreateStore, TenantWrite, Serves
    <2>2. links' = links => LinksAfter(w, {})
      BY <1>2, <2>1, SameLinksAfter
    <2>. QED
      BY <1>2, <2>1, <2>2, QuietVerify
  <1>15. CASE DeleteMe(w) /\ ~Answer(w)
    <2>1. PICK n, s, l : /\ t # None /\ confirmed' = confirmed /\ Save(w, n, s, l)
                         /\ n = [users EXCEPT ![t.req.user] = None] /\ l \subseteq links
      BY <1>1, <1>15 DEF DeleteMe, Serves
    <2>2. links' = l => LinksAfter(w, {})
      BY <1>2, <2>1, SameLinksAfter
    <2>3. \A u \in Users : n[u] # None =>
            users[u] # None /\ n[u].email = users[u].email /\ n[u].verified = users[u].verified
      BY <1>0, <2>1 DEF Rows
    <2>4. Save(w, n, s, l) /\ confirmed' = confirmed /\ w \in Live
      BY <1>2, <2>1
    <2>. QED
      BY <2>2, <2>3, <2>4, QuietVerify
  <1>16. t # None \/ Begin(w)
    BY <1>1 DEF AccountSteps, Invalidate, SendPasswordReset, ResendVerification, UpdateEmail,
                VerifyEmail, ResetPassword, Register, Grant, CreateStore, TenantWrite, DeleteMe,
                Ready, Serves
  <1>. QED
    BY <1>4, <1>5, <1>6, <1>7, <1>8, <1>9, <1>10, <1>11, <1>12, <1>13, <1>14, <1>15, <1>16
    DEF AccountSteps

LEMMA VerifyStep == TypeInv /\ LinksInv /\ RowsInv /\ VerifyInv /\ [DeskNext]_vars => VerifyInv'
  <1>. SUFFICES ASSUME TypeInv, LinksInv, RowsInv, VerifyInv, [DeskNext]_vars PROVE VerifyInv'
    OBVIOUS
  <1>1. ASSUME NEW w \in Workers, DeskBegin(w) PROVE VerifyInv'
    <2>1. PICK r \in DeskRequests : Open(w, r)
      BY <1>1 DEF DeskBegin
    <2>2. r \in Asked /\ r.route # "verify"
      BY DeskAssumption DEF Asked
    <2>. QED
      BY <2>1, <2>2, OpenVerify
  <1>2. ASSUME NEW w \in Workers, AdminLogin(w) PROVE VerifyInv'
    BY <1>2, AnswerVerify DEF AdminLogin, Serves, Live
  <1>3. ASSUME NEW w \in Workers, SetSuspension(w) PROVE VerifyInv'
    <2>1. w \in Live /\ (Answer(w) \/ (confirmed' = confirmed /\ \E s : Save(w, users, s, links)))
      BY <1>3 DEF SetSuspension, Serves, Live
    <2>2. links' = links => LinksAfter(w, {})
      BY <2>1, SameLinksAfter
    <2>. QED
      BY <2>1, <2>2, AnswerVerify, QuietVerify
  <1>4. ASSUME NEW w \in Workers, SupportLink(w) PROVE VerifyInv'
    <2>1. /\ w \in Live /\ tx[w].void # None /\ "reset" = KindOf(tx[w].req.route)
          /\ IsTx(tx[w]) /\ tx[w].req.route = "supportLink" /\ confirmed' = confirmed
      BY <1>4 DEF SupportLink, Ready, Serves, Live, KindOf, TypeInv
    <2>2. PICK u \in Users : u = Issues(tx[w]) /\ u = tx[w].req.user
      BY <2>1, IssuesType DEF IsTx
    <2>3. PICK l, new : /\ l = Replaced(tx[w], "reset", u, None)
                        /\ new = {NewLink(tx[w], "reset", u, None)}
      OBVIOUS
    <2>4. \A m \in new : m.kind # "verify"
      BY <2>3 DEF NewLink
    <2>5. links' = l => LinksAfter(w, new)
      BY <2>1, <2>2, <2>3, ReplacedLinks
    <2>6. Save(w, users, stores, l)
      BY <1>4, <2>2, <2>3 DEF SupportLink
    <2>. QED
      BY <2>1, <2>4, <2>5, <2>6, QuietVerify
  <1>5. ASSUME NEW w \in Workers, Merchant(AccountSteps(w)) PROVE VerifyInv'
    BY <1>5, AccountStepVerify DEF Merchant
  <1>6. CASE UNCHANGED <<users, tx, raced, confirmed>> /\
             \A u \in Users : \A m \in Pending(u)' : \E l \in Pending(u) : l.id = m.id /\ l.to = m.to
    <2>1. Live' = Live
      BY <1>6 DEF Live
    <2>2. ASSUME NEW u \in Users, users[u] # None, <<u, "verify">> \notin raced
          PROVE  Settled(u)' /\ \A w \in Live : tx[w].on = <<u, "verify">> => Knows(tx[w], u)'
      <3>1. Settled(u) /\ \A w \in Live : tx[w].on = <<u, "verify">> => Knows(tx[w], u)
        BY <2>2 DEF VerifyInv
      <3>. QED
        BY <1>6, <3>1 DEF Settled, Knows
    <2>. QED
      BY <1>6, <2>1, <2>2 DEF VerifyInv, Opening
  <1>7. ASSUME NEW l \in links, Expire(l) PROVE VerifyInv'
    <2>1. /\ links \subseteq Link /\ UNCHANGED <<users, tx, raced, confirmed>>
          /\ links' = (links \ {l}) \cup {[l EXCEPT !.expired = TRUE]}
      BY <1>7 DEF Expire, TypeInv, AccountsTypeOK
    <2>2. \A m \in links' : \E k \in links : /\ k.id = m.id /\ k.to = m.to /\ k.user = m.user
                                            /\ k.kind = m.kind /\ k.used = m.used
      BY <2>1 DEF Link
    <2>3. \A u \in Users : \A m \in Pending(u)' : \E k \in Pending(u) : k.id = m.id /\ k.to = m.to
      BY <2>2 DEF Pending
    <2>. QED
      BY <1>6, <2>1, <2>3
  <1>8. CASE LockExpires \/ ListPage \/ UNCHANGED vars
    <2>1. UNCHANGED <<users, links, tx, raced, confirmed>>
      BY <1>8 DEF LockExpires, ListPage, vars, accounts
    <2>. QED
      BY <1>6, <2>1 DEF Pending
  <1>. QED
    BY <1>1, <1>2, <1>3, <1>4, <1>5, <1>7, <1>8 DEF DeskNext, Merchant

LEMMA VerifyInit == DeskInit => VerifyInv
  <1>. SUFFICES ASSUME DeskInit PROVE VerifyInv
    OBVIOUS
  <1>1. Live = {} /\ links = {} /\ raced = {}
    BY DEF DeskInit, Init, Live
  <1>2. ASSUME NEW u \in Users, users[u] # None, users[u].verified
        PROVE  <<u, users[u].email>> \in confirmed
    BY <1>2 DEF DeskInit, Init
  <1>. QED
    BY <1>1, <1>2 DEF VerifyInv, Settled, Pending

\* An address is verified when a link that was sent to it is opened, and no address the
\* account had before verifies it, unless a verification overlapped a request that sends
\* a link (service.py verify_email and update_email).
THEOREM OwnersVerify == DeskSpec => []VerifiedByItsOwner
  <1>1. VerifyInv => VerifiedByItsOwner
    BY DEF VerifyInv, Settled, VerifiedByItsOwner
  <1>. QED
    BY <1>1, TypeInit, TypeStep, LinksInit, LinksStep, RowsInit, RowsStep, VerifyInit, VerifyStep,
       PTL DEF DeskSpec

-----------------------------------------------------------------------------
(* Suspension and the log *)

\* What request w may do to the store of an account: nothing, delete it with the account,
\* open it, or sell.
ShopStep(w, u) ==
    \/ stores'[u] = stores[u]
    \/ stores'[u] = None /\ users'[u] = None /\ Has(u)
    \/ /\ stores[u] = None /\ ~stores'[u].suspended /\ stores'[u].sold = 0
       /\ users[u] # None \/ ~Has(u)
    \/ /\ stores[u] # None /\ stores'[u] # None
       /\ stores'[u].suspended = stores[u].suspended
       /\ stores'[u].sold = Later(stores[u].sold, tx[w].at)
       /\ tx[w].req.route = "write" /\ tx[w].req.user = u

\* A request of a merchant ends.
Ends(w) ==
    /\ w \in Live /\ Close(w) /\ clock' = clock
    /\ sessions \subseteq sessions'
    /\ \A s \in sessions' \ sessions : ~Suspended(tx[w].stores, s.user)
    /\ \A u \in Users : ShopStep(w, u)
    /\ \A u \in Users : users[u] = None /\ users'[u] # None => Registering(tx[w], u)
    /\ users' = users \/ Consistent(users', stores', links')

\* A request goes on: what it has invalidated is all it has written.
GoesOn ==
    /\ UNCHANGED <<users, stores, sessions, clock>>
    /\ \A v \in Live' : /\ v \in Live /\ tx'[v].at = tx[v].at /\ tx'[v].stores = tx[v].stores
                       /\ tx'[v].req = tx[v].req

LEMMA AnswerEnds ==
    ASSUME NEW w \in Live, Answer(w)
    PROVE  Ends(w)
  BY DEF Answer, Ends, ShopStep, tables

LEMMA SaveEnds ==
    ASSUME NEW w \in Live, NEW n, NEW s, NEW l, Save(w, n, s, l),
           \A u \in Users : users[u] = None /\ n[u] # None => Registering(tx[w], u),
           users' = n /\ stores' = s /\ Consistent(n, s, l) => \A u \in Users : ShopStep(w, u)
    PROVE  Ends(w)
  <1>1. CASE Consistent(n, s, l)
    <2>1. users' = n /\ stores' = s /\ links' = l
      BY <1>1 DEF Save
    <2>2. Consistent(users', stores', links')
      BY <1>1, <2>1
    <2>. QED
      BY <1>1, <2>1, <2>2 DEF Save, Ends
  <1>2. CASE ~Consistent(n, s, l)
    BY <1>2 DEF Save, Ends, ShopStep, tables
  <1>. QED
    BY <1>1, <1>2

\* A new store is not suspended; it is opened for an account that is there or that
\* nobody has tokens for.
LEMMA OpeningShop ==
    ASSUME NEW w \in Live, NEW u \in Users, NEW time, stores \in Shelves, stores[u] = None,
           stores' = [stores EXCEPT ![u] = NewStore(time)], users[u] # None \/ ~Has(u)
    PROVE  \A a \in Users : ShopStep(w, a)
  <1>1. ~NewStore(time).suspended /\ NewStore(time).sold = 0
    BY DEF NewStore
  <1>. QED
    BY <1>1 DEF ShopStep, Shelves

LEMMA AccountEnds ==
    ASSUME TypeInv, RowsInv, NEW w \in Workers, AccountSteps(w)
    PROVE  Begin(w) \/ GoesOn \/ Ends(w)
  <1>0. users \in Rows /\ stores \in Shelves /\ None \notin User
    BY RequestsAssumption DEF TypeInv, AccountsTypeOK, Rows, Shelves
  <1>1. PICK t : t = tx[w]
    OBVIOUS
  <1>2. ASSUME t # None
        PROVE  w \in Live /\ IsTx(t) /\ t.req \in Asked /\ t.users \in Rows /\ t.stores \in Shelves
    BY <1>1, <1>2 DEF Live, TypeInv, IsTx
  <1>3. CASE Answer(w) /\ t # None
    BY <1>2, <1>3, AnswerEnds
  <1>4. CASE Invalidate(w) /\ ~Answer(w)
    <2>1. t # None /\ tx' = [tx EXCEPT ![w].void = Unused(Issues(t), t.on[2])]
          /\ UNCHANGED <<users, stores, sessions, clock>>
      BY <1>1, <1>4 DEF Invalidate, Serves, tables
    <2>2. PICK x : x = [t EXCEPT !.void = Unused(Issues(t), t.on[2])]
      OBVIOUS
    <2>3. x.at = t.at /\ x.stores = t.stores /\ x.req = t.req
      BY <1>2, <2>1, <2>2 DEF IsTx
    <2>4. tx'[w] = x /\ \A v \in Workers \ {w} : tx'[v] = tx[v]
      BY <1>1, <2>1, <2>2 DEF TypeInv
    <2>. QED
      BY <1>1, <1>2, <2>1, <2>3, <2>4 DEF GoesOn, Live
  <1>5. ASSUME NEW n, NEW l, Save(w, n, stores, l), t # None,
               \A u \in Users : users[u] = None => n[u] = None
        PROVE  Ends(w)
    BY <1>2, <1>5, SaveEnds DEF ShopStep
  <1>6. CASE (SendPasswordReset(w) \/ ResendVerification(w)) /\ ~Answer(w)
    <2>1. t # None /\ \E l : Save(w, users, stores, l)
      BY <1>1, <1>6 DEF SendPasswordReset, ResendVerification, Ready, Serves
    <2>. QED
      BY <1>5, <2>1
  <1>7. CASE UpdateEmail(w) /\ ~Answer(w)
    <2>1. PICK n, l, row : /\ t # None /\ users[t.req.user] # None /\ Save(w, n, stores, l)
                           /\ n = users \/ n = [users EXCEPT ![t.req.user] = row]
      BY <1>1, <1>7 DEF UpdateEmail, Ready, Serves
    <2>2. \A u \in Users : users[u] = None => n[u] = None
      BY <1>0, <2>1 DEF Rows
    <2>. QED
      BY <1>5, <2>1, <2>2
  <1>8. CASE VerifyEmail(w) /\ ~Answer(w)
    <2>1. PICK n, l, row : /\ t # None /\ users[t.req.link.user] # None /\ Save(w, n, stores, l)
                           /\ n = users \/ n = [users EXCEPT ![t.req.link.user] = row]
      BY <1>1, <1>8 DEF VerifyEmail, Serves
    <2>2. \A u \in Users : users[u] = None => n[u] = None
      BY <1>0, <2>1 DEF Rows
    <2>. QED
      BY <1>5, <2>1, <2>2
  <1>9. CASE ResetPassword(w) /\ ~Answer(w)
    <2>1. PICK n, l, row : /\ t # None /\ users[t.req.link.user] # None /\ Save(w, n, stores, l)
                           /\ n = [users EXCEPT ![t.req.link.user] = row]
      BY <1>1, <1>9 DEF ResetPassword, Serves
    <2>2. \A u \in Users : users[u] = None => n[u] = None
      BY <1>0, <2>1 DEF Rows
    <2>. QED
      BY <1>5, <2>1, <2>2
  <1>10. CASE Register(w) /\ ~Answer(w)
    <2>1. PICK n, s, l, row : /\ t # None /\ t.req.route = "register" /\ Save(w, n, s, l)
                              /\ n = [users EXCEPT ![t.req.id] = row]
                              /\ s = [stores EXCEPT ![t.req.id] = NewStore(t.at)]
      BY <1>1, <1>10 DEF Register, Serves
    <2>2. t.req.id \in Users
      BY <1>2, <2>1, RequestFields
    <2>3. users[t.req.id] = None /\ ~Has(t.req.id) /\ stores[t.req.id] = None
      BY <1>1, <1>2, <2>1, <2>2 DEF RowsInv, Registering
    <2>4. \A u \in Users : users[u] = None /\ n[u] # None => Registering(t, u)
      BY <1>0, <2>1 DEF Rows, Registering
    <2>5. stores' = s => \A u \in Users : ShopStep(w, u)
      BY <1>0, <1>2, <2>1, <2>2, <2>3, OpeningShop
    <2>. QED
      BY <1>1, <1>2, <2>1, <2>4, <2>5, SaveEnds
  <1>11. CASE Grant(w) /\ ~Answer(w)
    <2>1. /\ t # None /\ ~Suspended(t.stores, Identified(t))
          /\ sessions' = sessions \cup {Token(Identified(t), t.stores[Identified(t)] # None)}
          /\ Close(w) /\ UNCHANGED <<users, stores, links, clock>>
      BY <1>1, <1>11 DEF Grant, Serves, tables
    <2>2. \A s \in sessions' \ sessions : s.user = Identified(t)
      BY <2>1 DEF Token
    <2>3. \A s \in sessions' \ sessions : ~Suspended(tx[w].stores, s.user)
      BY <1>1, <2>1, <2>2
    <2>. QED
      BY <1>2, <2>1, <2>3 DEF Ends, ShopStep
  <1>12. CASE CreateStore(w) /\ ~Answer(w)
    <2>1. PICK u, s : /\ t # None /\ t.req.route = "open" /\ u = t.req.user /\ stores[u] = None
                      /\ s = [stores EXCEPT ![u] = NewStore(t.at)] /\ Save(w, users, s, links)
      BY <1>1, <1>12 DEF CreateStore, Serves
    <2>2. u \in Users
      BY <1>2, <2>1, RequestFields
    <2>3. ASSUME stores' = s, Consistent(users, s, links) PROVE \A a \in Users : ShopStep(w, a)
      <3>1. CASE NewStore(t.at) = None
        BY <1>0, <2>1, <2>2, <2>3, <3>1 DEF ShopStep, Shelves
      <3>2. CASE NewStore(t.at) # None
        <4>1. users[u] # None
          BY <1>0, <2>1, <2>2, <2>3, <3>2 DEF Consistent, Shelves
        <4>. QED
          BY <1>0, <1>2, <2>1, <2>2, <2>3, <4>1, OpeningShop
      <3>. QED
        BY <3>1, <3>2
    <2>. QED
      BY <1>2, <2>1, <2>3, SaveEnds
  <1>13. CASE TenantWrite(w) /\ ~Answer(w)
    <2>1. PICK u, s : /\ t # None /\ t.req.route = "write" /\ u = t.req.user /\ stores[u] # None
                      /\ s = [stores EXCEPT ![u].sold = Later(@, t.at)] /\ Save(w, users, s, links)
      BY <1>1, <1>13 DEF TenantWrite, Serves
    <2>2. u \in Users
      BY <1>2, <2>1, RequestFields
    <2>3. ASSUME stores' = s PROVE \A a \in Users : ShopStep(w, a)
      <3>1. stores[u] \in Store
        BY <1>0, <2>1, <2>2 DEF Shelves
      <3>2. s[u].suspended = stores[u].suspended /\ s[u].sold = Later(stores[u].sold, t.at)
            /\ \A a \in Users : a # u => s[a] = stores[a]
        BY <1>0, <2>1, <2>2, <3>1 DEF Shelves, Store
      <3>3. s[u] # None
        <4>1. t.at \in Times /\ stores[u].sold \in Times
          BY <1>2, <2>1, <3>1, AccountsAssumption DEF IsTx, TypeInv, AccountsTypeOK, Times, Store
        <4>2. Later(stores[u].sold, t.at) \in Times
          BY <4>1 DEF Later
        <4>3. s[u] \in Store
          BY <1>0, <2>1, <2>2, <3>1, <4>2 DEF Shelves, Store
        <4>. QED
          BY <4>3, RequestsAssumption
      <3>. QED
        BY <1>1, <2>1, <2>3, <3>2, <3>3 DEF ShopStep
    <2>. QED
      BY <1>2, <2>1, <2>3, SaveEnds
  <1>14. CASE DeleteMe(w) /\ ~Answer(w)
    <2>1. PICK u, n, s, l : /\ t # None /\ t.req.route = "delete" /\ u = t.req.user
                            /\ Save(w, n, s, l) /\ n = [users EXCEPT ![u] = None]
                            /\ s = (IF t.stores[u] # None THEN [stores EXCEPT ![u] = None]
                                    ELSE stores)
      BY <1>1, <1>14 DEF DeleteMe, Serves
    <2>2. u \in Users /\ Has(u)
      BY <1>1, <1>2, <2>1, RequestFields DEF RowsInv
    <2>3. n[u] = None /\ \A a \in Users : a # u => n[a] = users[a] /\ s[a] = stores[a]
      BY <1>0, <2>1, <2>2 DEF Rows, Shelves
    <2>4. ASSUME users' = n, stores' = s, Consistent(n, s, l)
          PROVE  \A a \in Users : ShopStep(w, a)
      <3>1. s[u] = None
        BY <2>2, <2>3, <2>4 DEF Consistent
      <3>. QED
        BY <2>2, <2>3, <2>4, <3>1 DEF ShopStep
    <2>5. \A a \in Users : users[a] = None => n[a] = None
      BY <2>3
    <2>. QED
      BY <1>2, <2>1, <2>4, <2>5, SaveEnds
  <1>15. t # None \/ Begin(w)
    BY <1>1 DEF AccountSteps, Invalidate, SendPasswordReset, ResendVerification, UpdateEmail,
                VerifyEmail, ResetPassword, Register, Grant, CreateStore, TenantWrite, DeleteMe,
                Ready, Serves
  <1>. QED
    BY <1>3, <1>4, <1>6, <1>7, <1>8, <1>9, <1>10, <1>11, <1>12, <1>13, <1>14, <1>15 DEF AccountSteps

IsNewest(u, i) == i \in About(u) /\ \A j \in About(u) : j <= i

\* The log tells whether the store of an account is suspended.
Tells(u) ==
    IF About(u) = {} THEN ~stores[u].suspended
    ELSE \E i \in About(u) :
            IsNewest(u, i) /\ (stores[u].suspended <=> audit[i].action = "store_suspended")

LogRows ==
    /\ audit \in Seq(Entry)
    /\ \A i, j \in DOMAIN audit : i <= j => audit[i].at <= audit[j].at
    /\ \A i \in DOMAIN audit : audit[i].at <= clock

Distinct(table) ==
    \A a, b \in Users : a # b /\ table[a] # None /\ table[b] # None =>
        /\ table[a].phone # table[b].phone
        /\ table[a].email = None \/ table[a].email # table[b].email

\* An account that may still open a store has no entry in the log.
AuditInv ==
    /\ LogRows /\ Distinct(users)
    /\ \A u \in Users : stores[u] = None /\ (users[u] # None \/ ~Has(u)) => About(u) = {}
    /\ \A u \in Users : stores[u] # None => Tells(u)

\* An open request that began after a suspension has read it, and does not sell.
OutInv ==
    /\ \A u \in Users : stores[u] # None => stores[u].sold <= clock
    /\ \A u \in Users, w \in Live : stores[u] # None => stores[u].sold # tx[w].at
    /\ \A u \in Users, w \in Live : \A i \in About(u) :
          Suspended(stores, u) /\ IsNewest(u, i) /\ tx[w].at > audit[i].at =>
              Suspended(tx[w].stores, u) /\ (tx[w].req.route = "write" => tx[w].req.user # u)

LEMMA EntryType ==
    ASSUME LogRows
    PROVE  \A i \in DOMAIN audit : i \in Nat /\ audit[i] \in Entry /\ audit[i].at \in Nat
  <1>1. \A i \in DOMAIN audit : i \in Nat /\ audit[i] \in Entry
    BY DEF LogRows
  <1>2. \A e \in Entry : e.at \in Nat
    BY AccountsAssumption DEF Entry, Times
  <1>. QED
    BY <1>1, <1>2

\* The entry that Newest chooses is the last one about the store.
LEMMA NewestIs ==
    ASSUME LogRows, NEW u, NEW i, IsNewest(u, i)
    PROVE  Newest(u) = i
  <1>1. About(u) \subseteq DOMAIN audit /\ DOMAIN audit \subseteq Nat
    BY DEF About, LogRows
  <1>2. \A j \in DOMAIN audit : audit[j].at \in Nat
    BY EntryType
  <1> DEFINE Top(k) == \A j \in About(u) :
                 audit[j].at < audit[k].at \/ (audit[j].at = audit[k].at /\ j <= k)
  <1>3. i \in About(u) /\ Top(i)
    <2>1. i \in About(u) /\ \A j \in About(u) : j <= i /\ audit[j].at <= audit[i].at
      BY <1>1 DEF IsNewest, LogRows
    <2>. QED
      BY <1>1, <1>2, <2>1
  <1>4. ASSUME NEW k \in About(u), Top(k) PROVE k = i
    <2>1. audit[i].at < audit[k].at \/ (audit[i].at = audit[k].at /\ i <= k)
      BY <1>3, <1>4
    <2>2. k <= i /\ audit[k].at <= audit[i].at
      BY <1>1, <1>4 DEF IsNewest, LogRows
    <2>. QED
      BY <1>1, <1>2, <1>3, <2>1, <2>2
  <1>5. Newest(u) = CHOOSE k \in About(u) : Top(k)
    BY DEF Newest
  <1> HIDE DEF Top
  <1>. QED
    BY <1>3, <1>4, <1>5

\* One more entry at the end of the log.
LEMMA LogGrows ==
    ASSUME LogRows, NEW e \in Entry, e.at = clock, clock \in Nat, clock' = clock,
           audit' = Append(audit, e)
    PROVE  /\ LogRows'
           /\ Len(audit) \in Nat /\ DOMAIN audit = 1..Len(audit)
           /\ DOMAIN audit' = 1..Len(audit) + 1 /\ audit'[Len(audit) + 1] = e
           /\ \A i \in DOMAIN audit : audit'[i] = audit[i]
  <1>1. /\ Len(audit) \in Nat /\ DOMAIN audit = 1..Len(audit)
        /\ DOMAIN audit' = 1..Len(audit) + 1 /\ audit'[Len(audit) + 1] = e
        /\ \A i \in DOMAIN audit : audit'[i] = audit[i]
        /\ audit' \in Seq(Entry)
    BY DEF LogRows
  <1>2. \A i \in DOMAIN audit' : i \in DOMAIN audit \/ i = Len(audit) + 1
    BY <1>1
  <1>3. \A i, j \in DOMAIN audit' : i <= j => audit'[i].at <= audit'[j].at
    BY <1>1, <1>2 DEF LogRows
  <1>4. \A i \in DOMAIN audit' : audit'[i].at <= clock
    BY <1>1, <1>2 DEF LogRows
  <1>. QED
    BY <1>1, <1>3, <1>4 DEF LogRows

\* The log grows by nothing about a store.
Aside ==
    \/ audit' = audit
    \/ \E e \in Entry : /\ audit' = Append(audit, e) /\ e.at = clock
                        /\ e.on = None \/ e.action = "user_password_reset_link"

LEMMA AsideAbout ==
    ASSUME LogRows, clock \in Nat, clock' >= clock, clock' \in Nat, Aside
    PROVE  /\ LogRows'
           /\ \A u \in Users : About(u)' = About(u) /\ \A i \in About(u) : audit'[i] = audit[i]
  <1>1. CASE audit' = audit
    <2>1. \A i \in DOMAIN audit : audit[i].at \in Nat /\ audit[i].at <= clock'
      BY EntryType DEF LogRows
    <2>. QED
      BY <1>1, <2>1 DEF LogRows, About
  <1>2. CASE audit' # audit
    <2>1. PICK e \in Entry : /\ audit' = Append(audit, e) /\ e.at = clock
                             /\ e.on = None \/ e.action = "user_password_reset_link"
      BY <1>2 DEF Aside
    <2>2. /\ audit' \in Seq(Entry)
          /\ Len(audit) \in Nat /\ DOMAIN audit = 1..Len(audit)
          /\ DOMAIN audit' = 1..Len(audit) + 1 /\ audit'[Len(audit) + 1] = e
          /\ \A i \in DOMAIN audit : audit'[i] = audit[i]
      BY <2>1 DEF LogRows
    <2>3. \A i \in DOMAIN audit' : i \in DOMAIN audit \/ i = Len(audit) + 1
      BY <2>2
    <2>4. \A i \in DOMAIN audit : audit[i].at \in Nat /\ audit[i].at <= clock'
      BY EntryType DEF LogRows
    <2>5. LogRows'
      BY <2>1, <2>2, <2>3, <2>4 DEF LogRows
    <2>6. \A u \in Users : About(u)' = About(u)
      BY <2>1, <2>2, <2>3, RequestsAssumption DEF About
    <2>7. \A u \in Users : About(u) \subseteq DOMAIN audit
      BY DEF About
    <2>. QED
      BY <2>2, <2>5, <2>6, <2>7
  <1>. QED
    BY <1>1, <1>2

\* A request that ends, and writes nothing in the log about a store.
LEMMA EndsAudit ==
    ASSUME TypeInv, LinksInv, RowsInv, AuditInv, OutInv, NEW w \in Workers, Ends(w), Aside
    PROVE  AuditInv' /\ OutInv'
  <1>0. clock \in Nat /\ clock' = clock /\ stores \in Shelves
    BY DEF Ends, TypeInv, AccountsTypeOK, Times, Shelves
  <1>1. LogRows' /\ \A u \in Users : About(u)' = About(u) /\ \A i \in About(u) : audit'[i] = audit[i]
    BY <1>0, AsideAbout DEF AuditInv
  <1>2. /\ Live' = Live \ {w} /\ \A v \in Live' : tx'[v] = tx[v] /\ v \in Live /\ v # w
    BY ClosedFrame DEF Live, Ends
  <1>3. \A u \in Users : Has(u) => Has(u)'
    BY DEF Has, Ends
  <1>4. \A u \in Users : ShopStep(w, u)
    BY DEF Ends
  <1>5. tx[w].at \in 1..clock
    <2>1. IsTx(tx[w])
      BY DEF Ends, TypeInv
    <2>. QED
      BY <2>1 DEF IsTx
  <1>6. ASSUME NEW u \in Users
        PROVE  /\ stores'[u] = None /\ (users'[u] # None \/ ~Has(u)') => About(u)' = {}
               /\ stores'[u] # None => Tells(u)'
    <2>1. CASE stores'[u] = stores[u]
      <3>1. users[u] = None /\ users'[u] # None => ~Has(u)
        BY DEF Ends, RowsInv
      <3>2. stores[u] # None => Tells(u)'
        BY <1>1, <2>1 DEF AuditInv, Tells, IsNewest
      <3>. QED
        BY <1>1, <1>3, <2>1, <3>1, <3>2 DEF AuditInv
    <2>2. CASE stores'[u] = None /\ users'[u] = None /\ Has(u)
      BY <1>3, <2>2
    <2>3. CASE stores[u] = None /\ ~stores'[u].suspended /\ (users[u] # None \/ ~Has(u))
      <3>1. About(u)' = {}
        BY <1>1, <2>3 DEF AuditInv
      <3>. QED
        BY <2>3, <3>1 DEF Tells
    <2>4. CASE stores[u] # None /\ stores'[u] # None /\ stores'[u].suspended = stores[u].suspended
      <3>1. Tells(u) /\ (users[u] # None)
        BY <2>4 DEF AuditInv, RowsInv
      <3>2. Tells(u)'
        BY <1>1, <2>4, <3>1 DEF Tells, IsNewest
      <3>. QED
        BY <2>4, <3>2
    <2>. QED
      BY <1>4, <2>1, <2>2, <2>3, <2>4 DEF ShopStep
  <1>7. Distinct(users)'
    BY DEF Ends, Consistent, AuditInv, Distinct
  <1>8. AuditInv'
    BY <1>1, <1>6, <1>7 DEF AuditInv
  <1>9. ASSUME NEW u \in Users, stores'[u] # None
        PROVE  /\ stores'[u].sold <= clock
               /\ \A v \in Live' : stores'[u].sold # tx[v].at
               /\ Suspended(stores', u) => Suspended(stores, u)
    <2>1. stores[u] # None => /\ stores[u].sold \in Nat /\ stores[u].sold <= clock
                              /\ \A v \in Live : stores[u].sold # tx[v].at
      <3>1. stores[u] # None => stores[u] \in Store
        BY <1>0 DEF Shelves
      <3>. QED
        BY <3>1, AccountsAssumption DEF OutInv, Store, Times
    <2>2. \A v \in Live' : tx[v].at # 0 /\ tx[v].at # tx[w].at
      <3>1. \A v \in Live : tx[v].at \in 1..clock
        <4>1. \A v \in Live : IsTx(tx[v])
          BY DEF TypeInv
        <4>. QED
          BY <4>1 DEF IsTx
      <3>. QED
        BY <1>2, <3>1 DEF LinksInv, Overlaps, Ends
    <2>3. CASE stores'[u] = stores[u]
      BY <1>2, <1>9, <2>1, <2>3 DEF Suspended
    <2>4. CASE ~stores'[u].suspended /\ stores'[u].sold = 0
      BY <1>0, <1>9, <2>2, <2>4 DEF Suspended
    <2>5. CASE /\ stores[u] # None /\ stores'[u].suspended = stores[u].suspended
               /\ stores'[u].sold = Later(stores[u].sold, tx[w].at)
      BY <1>2, <1>5, <1>9, <2>1, <2>2, <2>5 DEF Suspended, Later
    <2>. QED
      BY <1>4, <1>9, <2>3, <2>4, <2>5 DEF ShopStep
  <1>10. OutInv'
    <2>1. ASSUME NEW u \in Users, NEW v \in Live', NEW i \in About(u)', Suspended(stores', u),
                 IsNewest(u, i)', tx[v].at > audit'[i].at
          PROVE  Suspended(tx[v].stores, u) /\ (tx[v].req.route = "write" => tx[v].req.user # u)
      <3>1. i \in About(u) /\ IsNewest(u, i) /\ audit'[i] = audit[i] /\ v \in Live
        BY <1>1, <1>2, <2>1 DEF IsNewest
      <3>2. Suspended(stores, u)
        BY <1>9, <2>1 DEF Suspended
      <3>. QED
        BY <2>1, <3>1, <3>2 DEF OutInv
    <2>. QED
      BY <1>0, <1>2, <1>9, <2>1 DEF OutInv, Suspended
  <1>. QED
    BY <1>8, <1>10

LEMMA IdleAudit ==
    ASSUME AuditInv, OutInv, GoesOn, audit' = audit
    PROVE  AuditInv' /\ OutInv'
  <1>1. \A u : /\ About(u)' = About(u) /\ (Has(u)' <=> Has(u))
              /\ (Suspended(stores, u)' <=> Suspended(stores, u))
    BY DEF GoesOn, About, Has, Suspended
  <1>2. \A u : \A i : IsNewest(u, i)' <=> IsNewest(u, i)
    BY <1>1 DEF IsNewest
  <1>3. \A u : Tells(u)' <=> Tells(u)
    BY <1>1, <1>2 DEF Tells, GoesOn
  <1>4. LogRows' /\ Distinct(users)'
    BY DEF GoesOn, AuditInv, LogRows, Distinct
  <1>5. AuditInv'
    BY <1>1, <1>3, <1>4 DEF AuditInv, GoesOn
  <1>6. ASSUME NEW u \in Users, NEW v \in Live', NEW i \in About(u), Suspended(stores, u),
               IsNewest(u, i), tx'[v].at > audit[i].at
        PROVE  Suspended(tx'[v].stores, u) /\ (tx'[v].req.route = "write" => tx'[v].req.user # u)
    BY <1>6 DEF GoesOn, OutInv
  <1>7. OutInv'
    BY <1>1, <1>2, <1>6 DEF OutInv, GoesOn, Suspended
  <1>. QED
    BY <1>5, <1>7

\* A request that begins reads the suspensions, and does not sell for such a store.
LEMMA OpenAudit ==
    ASSUME TypeInv, AuditInv, OutInv, NEW w \in Workers, NEW r, Open(w, r), audit' = audit,
           r.route = "write" => ~Suspended(stores, r.user)
    PROVE  AuditInv' /\ OutInv'
  <1>1. PICK t : t = [req |-> r, at |-> clock + 1, on |-> Concern(r), users |-> users,
                      stores |-> stores, links |-> links, void |-> None]
    OBVIOUS
  <1>2. /\ tx'[w] = t /\ UNCHANGED <<users, stores, links, sessions>>
        /\ clock' = clock + 1 /\ clock \in Nat
        /\ \A v \in Live' : v = w \/ (v # w /\ v \in Live /\ tx'[v] = tx[v])
    BY <1>1, AccountsAssumption DEF Open, TypeInv, AccountsTypeOK, Times, Live, tables
  <1>3. t.req = r /\ t.at = clock + 1 /\ t.stores = stores
    BY <1>1
  <1>4. \A u : /\ About(u)' = About(u) /\ (Has(u)' <=> Has(u))
    BY <1>2 DEF About, Has
  <1>5. \A u : \A i : IsNewest(u, i)' <=> IsNewest(u, i)
    BY <1>4 DEF IsNewest
  <1>6. \A u : Tells(u)' <=> Tells(u)
    BY <1>2, <1>4, <1>5 DEF Tells
  <1>7. LogRows'
    BY <1>2, EntryType DEF AuditInv, LogRows
  <1>8. AuditInv'
    BY <1>2, <1>4, <1>6, <1>7 DEF AuditInv, Distinct
  <1>9. ASSUME NEW u \in Users, stores[u] # None
        PROVE  stores[u].sold \in Nat /\ stores[u].sold <= clock
    <2>1. stores[u] \in Store
      BY <1>9 DEF TypeInv, AccountsTypeOK
    <2>. QED
      BY <1>9, <2>1, AccountsAssumption DEF OutInv, Store, Times
  <1>10. ASSUME NEW u \in Users, NEW v \in Live', NEW i \in About(u), Suspended(stores, u),
                IsNewest(u, i), tx'[v].at > audit[i].at
         PROVE  Suspended(tx'[v].stores, u) /\ (tx'[v].req.route = "write" => tx'[v].req.user # u)
    BY <1>2, <1>3, <1>10 DEF OutInv
  <1>11. ASSUME NEW u \in Users, stores[u] # None, NEW v \in Live' PROVE stores[u].sold # tx'[v].at
    BY <1>2, <1>3, <1>9, <1>11 DEF OutInv
  <1>12. \A u : Suspended(stores', u) <=> Suspended(stores, u)
    BY <1>2 DEF Suspended
  <1>13. OutInv'
    BY <1>2, <1>4, <1>5, <1>9, <1>10, <1>11, <1>12 DEF OutInv, Suspended
  <1>. QED
    BY <1>8, <1>13

\* The suspension and its entry commit together.
LEMMA SuspensionSaved ==
    ASSUME TypeInv, RowsInv, AuditInv, NEW w \in Workers, SetSuspension(w),
           stores[tx[w].req.store] # None
    PROVE  \E u \in Users, on \in BOOLEAN, e \in Entry :
              /\ stores[u] # None /\ stores' = [stores EXCEPT ![u] = [@ EXCEPT !.suspended = on]]
              /\ stores'[u].suspended = on /\ stores'[u].sold = stores[u].sold
              /\ e.on = u /\ e.at = clock /\ audit' = Append(audit, e)
              /\ e.action = IF on THEN "store_suspended" ELSE "store_reactivated"
              /\ w \in Live /\ Close(w) /\ UNCHANGED <<users, links, sessions, clock>>
  <1>1. PICK t, u, on, s : /\ t = tx[w] /\ u = t.req.store /\ on = t.req.on
                           /\ s = [stores EXCEPT ![u] = [@ EXCEPT !.suspended = on]]
    OBVIOUS
  <1>2. /\ w \in Live /\ t.req.route = "suspend" /\ stores[u] # None /\ Save(w, users, s, links)
        /\ Logged(t, IF on THEN "store_suspended" ELSE "store_reactivated", u)
    BY <1>1 DEF SetSuspension, Serves, Live
  <1>3. u \in Users /\ on \in BOOLEAN
    <2>1. t.req \in Asked
      BY <1>1, <1>2 DEF TypeInv, IsTx
    <2>. QED
      BY <1>1, <1>2, <2>1, RequestFields
  <1>4. stores \in Shelves /\ clock \in Times
    BY DEF TypeInv, AccountsTypeOK, Shelves
  <1>5. Consistent(users, s, links)
    <2>1. users[u] # None
      BY <1>2, <1>3 DEF RowsInv
    <2>2. \A a \in Users : a # u => s[a] = stores[a]
      BY <1>1, <1>4 DEF Shelves
    <2>. QED
      BY <2>1, <2>2 DEF AuditInv, Distinct, RowsInv, Consistent
  <1>6. stores' = s /\ UNCHANGED <<users, links, sessions, clock>> /\ Close(w)
    BY <1>2, <1>5 DEF Save
  <1>7. s[u].suspended = on /\ s[u].sold = stores[u].sold
    <2>1. stores[u] \in Store
      BY <1>2, <1>3, <1>4 DEF Shelves
    <2>. QED
      BY <1>1, <1>3, <1>4, <2>1 DEF Shelves, Store
  <1>8. PICK e : e = [action |-> IF on THEN "store_suspended" ELSE "store_reactivated",
                      on |-> u, at |-> clock]
    OBVIOUS
  <1>9. /\ e \in Entry /\ e.on = u /\ e.at = clock
        /\ e.action = IF on THEN "store_suspended" ELSE "store_reactivated"
    BY <1>3, <1>4, <1>8 DEF Entry
  <1>10. audit' = Append(audit, e)
    BY <1>2, <1>8 DEF Logged, Stamp
  <1>. QED
    BY <1>1, <1>2, <1>3, <1>6, <1>7, <1>9, <1>10

LEMMA SuspensionAudit ==
    ASSUME TypeInv, LinksInv, RowsInv, AuditInv, OutInv, NEW w \in Workers, SetSuspension(w),
           stores[tx[w].req.store] # None
    PROVE  AuditInv' /\ OutInv'
  <1>1. PICK u \in Users, on \in BOOLEAN, e \in Entry :
              /\ stores[u] # None /\ stores' = [stores EXCEPT ![u] = [@ EXCEPT !.suspended = on]]
              /\ stores'[u].suspended = on /\ stores'[u].sold = stores[u].sold
              /\ e.on = u /\ e.at = clock /\ audit' = Append(audit, e)
              /\ e.action = IF on THEN "store_suspended" ELSE "store_reactivated"
              /\ w \in Live /\ Close(w) /\ UNCHANGED <<users, links, sessions, clock>>
    BY SuspensionSaved
  <1>2. stores \in Shelves /\ clock \in Nat
    BY DEF TypeInv, AccountsTypeOK, Shelves, Times
  <1>3. /\ Live' = Live \ {w} /\ \A v \in Live' : tx'[v] = tx[v] /\ v \in Live
    BY <1>1, ClosedFrame DEF Live
  <1>4. \A a \in Users : a # u => stores'[a] = stores[a]
    BY <1>1, <1>2 DEF Shelves
  <1>5. PICK n \in Nat : n = Len(audit)
    BY DEF AuditInv, LogRows
  <1>6. /\ LogRows' /\ DOMAIN audit = 1..n /\ DOMAIN audit' = 1..n + 1 /\ audit'[n + 1] = e
        /\ \A i \in DOMAIN audit : audit'[i] = audit[i]
    BY <1>1, <1>2, <1>5, LogGrows DEF AuditInv
  <1>7. \A a \in Users : About(a)' = IF a = u THEN About(a) \cup {n + 1} ELSE About(a)
    <2>1. \A i : i \in DOMAIN audit' <=> i \in DOMAIN audit \/ i = n + 1
      BY <1>6
    <2>2. e.action # "user_password_reset_link"
      BY <1>1
    <2>. QED
      BY <1>1, <1>6, <2>1, <2>2 DEF About
  <1>8. About(u) \subseteq 1..n /\ n + 1 \in About(u)'
    BY <1>6, <1>7 DEF About
  <1>9. IsNewest(u, n + 1)' /\ \A i : IsNewest(u, i)' => i = n + 1
    <2>1. n + 1 \in About(u)' /\ \A j \in About(u)' : j \in Nat /\ j <= n + 1
      BY <1>7, <1>8
    <2>2. IsNewest(u, n + 1)'
      BY <2>1 DEF IsNewest
    <2>3. ASSUME NEW i, IsNewest(u, i)' PROVE i = n + 1
      <3>1. i \in About(u)' /\ \A j \in About(u)' : j <= i
        BY <2>3 DEF IsNewest
      <3>. QED
        BY <2>1, <3>1
    <2>. QED
      BY <2>2, <2>3
  <1>10. ASSUME NEW a \in Users, a # u
         PROVE  /\ stores'[a] = stores[a] /\ About(a)' = About(a) /\ (Tells(a)' <=> Tells(a))
                /\ \A i \in About(a) : /\ audit'[i] = audit[i]
                                       /\ IsNewest(a, i)' <=> IsNewest(a, i)
    <2>1. \A i \in About(a) : audit'[i] = audit[i]
      BY <1>6 DEF About
    <2>. QED
      BY <1>4, <1>7, <1>10, <2>1 DEF Tells, IsNewest
  <1>11. Tells(u)'
    BY <1>1, <1>6, <1>8, <1>9 DEF Tells
  <1>12. \A a \in Users : (Has(a)' <=> Has(a)) /\ users'[a] = users[a]
    BY <1>1 DEF Has
  <1>13. \A a \in Users : stores'[a] # None => stores[a] # None
    BY <1>1, <1>4
  <1>14. stores'[u] # None
    <2>1. stores[u] \in Store
      BY <1>1, <1>2 DEF Shelves
    <2>2. stores'[u] \in Store
      BY <1>1, <1>2, <2>1 DEF Shelves, Store
    <2>. QED
      BY <2>2, RequestsAssumption
  <1>15. AuditInv'
    <2>1. Distinct(users)'
      BY <1>1 DEF AuditInv, Distinct
    <2>2. ASSUME NEW a \in Users
          PROVE  /\ stores'[a] = None /\ (users'[a] # None \/ ~Has(a)') => About(a)' = {}
                 /\ stores'[a] # None => Tells(a)'
      <3>1. CASE a = u
        BY <1>11, <1>14, <3>1
      <3>2. CASE a # u
        BY <1>10, <1>12, <3>2 DEF AuditInv
      <3>. QED
        BY <3>1, <3>2
    <2>. QED
      BY <1>6, <2>1, <2>2 DEF AuditInv
  <1>16. ASSUME NEW a \in Users, stores'[a] # None
         PROVE  stores'[a].sold <= clock /\ \A v \in Live' : stores'[a].sold # tx[v].at
    <2>1. stores[a] # None /\ stores'[a].sold = stores[a].sold
      BY <1>1, <1>4, <1>13, <1>16
    <2>. QED
      BY <1>3, <2>1 DEF OutInv
  <1>17. ASSUME NEW a \in Users, NEW v \in Live', NEW i \in About(a)', Suspended(stores', a),
                IsNewest(a, i)', tx[v].at > audit'[i].at
         PROVE  Suspended(tx[v].stores, a) /\ (tx[v].req.route = "write" => tx[v].req.user # a)
    <2>1. CASE a = u
      <3>1. i = n + 1 /\ audit'[i].at = clock
        BY <1>1, <1>6, <1>9, <1>17, <2>1
      <3>2. tx[v].at \in 1..clock
        <4>1. IsTx(tx[v])
          BY <1>3 DEF TypeInv
        <4>. QED
          BY <4>1 DEF IsTx
      <3>. QED
        BY <1>2, <1>17, <3>1, <3>2
    <2>2. CASE a # u
      <3>1. /\ i \in About(a) /\ IsNewest(a, i) /\ audit'[i] = audit[i] /\ stores'[a] = stores[a]
        BY <1>10, <1>17, <2>2
      <3>. QED
        BY <1>3, <1>17, <3>1 DEF OutInv, Suspended
    <2>. QED
      BY <2>1, <2>2
  <1>18. OutInv'
    <2>1. /\ clock' = clock /\ \A a \in Users : Suspended(stores, a)' <=> Suspended(stores', a)
          /\ \A v \in Live' : tx'[v] = tx[v]
      BY <1>1, <1>3 DEF Suspended
    <2>2. ASSUME NEW a \in Users, NEW v \in Live', NEW i \in About(a)', Suspended(stores', a),
                 IsNewest(a, i)', tx'[v].at > audit'[i].at
          PROVE  Suspended(tx'[v].stores, a) /\ (tx'[v].req.route = "write" => tx'[v].req.user # a)
      BY <1>17, <2>1, <2>2
    <2>3. \A a \in Users, v \in Live' : stores'[a] # None => stores'[a].sold # tx'[v].at
      BY <1>16, <2>1
    <2>. QED
      BY <1>16, <2>1, <2>2, <2>3 DEF OutInv, Suspended
  <1>. QED
    BY <1>15, <1>18

\* A step is one of these.
DeskStep(w) ==
    \/ GoesOn /\ audit' = audit
    \/ \E r : Open(w, r) /\ audit' = audit /\ (r.route = "write" => ~Suspended(stores, r.user))
    \/ Ends(w) /\ Aside
    \/ SetSuspension(w) /\ stores[tx[w].req.store] # None

LEMMA DeskSteps ==
    ASSUME TypeInv, RowsInv, [DeskNext]_vars
    PROVE  (GoesOn /\ audit' = audit) \/ \E w \in Workers : DeskStep(w)
  <1>0. clock \in Times
    BY DEF TypeInv, AccountsTypeOK
  <1>1. ASSUME NEW w \in Workers, DeskBegin(w) PROVE DeskStep(w)
    BY <1>1, DeskAssumption DEF DeskBegin, DeskStep
  <1>2. ASSUME NEW w \in Workers, AdminLogin(w) PROVE DeskStep(w)
    <2>1. Ends(w)
      BY <1>2, AnswerEnds DEF AdminLogin, Serves, Live
    <2>2. PICK e : e = [action |-> "login", on |-> None, at |-> clock]
      OBVIOUS
    <2>3. e \in Entry /\ e.on = None /\ e.at = clock
      BY <1>0, <2>2 DEF Entry
    <2>4. audit' = audit \/ audit' = Append(audit, e)
      BY <1>2, <2>2 DEF AdminLogin, Accepted, Refused, Logged, Stamp
    <2>. QED
      BY <2>1, <2>3, <2>4 DEF DeskStep, Aside
  <1>3. ASSUME NEW w \in Workers, SetSuspension(w) PROVE DeskStep(w)
    <2>1. CASE stores[tx[w].req.store] = None
      BY <1>3, <2>1, AnswerEnds DEF DeskStep, Aside, SetSuspension, Serves, Live
    <2>. QED
      BY <1>3, <2>1 DEF DeskStep
  <1>4. ASSUME NEW w \in Workers, SupportLink(w) PROVE DeskStep(w)
    <2>1. w \in Live /\ tx[w].req.route = "supportLink" /\ \E l : Save(w, users, stores, l)
      BY <1>4 DEF SupportLink, Ready, Serves, Live
    <2>2. Ends(w)
      BY <2>1, SaveEnds DEF ShopStep
    <2>3. tx[w].req.user \in Users
      BY <2>1, RequestFields DEF TypeInv, IsTx
    <2>4. PICK e : e = [action |-> "user_password_reset_link", on |-> tx[w].req.user, at |-> clock]
      OBVIOUS
    <2>5. e \in Entry /\ e.action = "user_password_reset_link" /\ e.at = clock
      BY <1>0, <2>3, <2>4 DEF Entry
    <2>6. audit' = audit \/ audit' = Append(audit, e)
      BY <1>4, <2>4 DEF SupportLink, Logged, Stamp
    <2>. QED
      BY <2>2, <2>5, <2>6 DEF DeskStep, Aside
  <1>5. ASSUME NEW w \in Workers, Merchant(AccountSteps(w)) PROVE DeskStep(w)
    <2>1. AccountSteps(w) /\ audit' = audit
      BY <1>5 DEF Merchant
    <2>2. CASE Begin(w)
      <3>1. ASSUME NEW r \in Requests, Open(w, r), r.route \in UserRoutes => Authenticated(r)
            PROVE  DeskStep(w)
        <4>1. r.route = "write" => ~Suspended(stores, r.user)
          BY <3>1 DEF UserRoutes, Authenticated
        <4>. QED
          BY <2>1, <3>1, <4>1 DEF DeskStep
      <3>2. ASSUME NEW l \in links, NEW p \in Passwords,
                   Open(w, [route |-> l.kind, link |-> l, password |-> p])
            PROVE  DeskStep(w)
        <4>1. PICK r : r = [route |-> l.kind, link |-> l, password |-> p]
          OBVIOUS
        <4>2. r.route # "write"
          BY <4>1 DEF TypeInv, AccountsTypeOK, Link, Kinds
        <4>. QED
          BY <2>1, <3>2, <4>1, <4>2 DEF DeskStep
      <3>. QED
        BY <2>2, <3>1, <3>2 DEF Begin
    <2>. QED
      BY <2>1, <2>2, AccountEnds DEF DeskStep, Aside
  <1>6. CASE Merchant(\E l \in links : Expire(l)) \/ LockExpires \/ ListPage \/ UNCHANGED vars
    <2>1. UNCHANGED <<users, stores, sessions, clock, tx, audit>>
      BY <1>6 DEF Merchant, Expire, LockExpires, ListPage, vars, accounts, desk
    <2>. QED
      BY <2>1 DEF GoesOn, Live
  <1>. QED
    BY <1>1, <1>2, <1>3, <1>4, <1>5, <1>6 DEF DeskNext

LEMMA AuditStep ==
    TypeInv /\ LinksInv /\ RowsInv /\ AuditInv /\ OutInv /\ [DeskNext]_vars => AuditInv' /\ OutInv'
  BY DeskSteps, IdleAudit, OpenAudit, EndsAudit, SuspensionAudit DEF DeskStep

LEMMA AuditInit == DeskInit => AuditInv /\ OutInv
  <1>. SUFFICES ASSUME DeskInit PROVE AuditInv /\ OutInv
    OBVIOUS
  <1>1. PICK e : e = [action |-> "login", on |-> None, at |-> 0]
    OBVIOUS
  <1>2. e \in Entry /\ e.on = None /\ e.at = 0
    BY <1>1, AccountsAssumption DEF Entry, Times
  <1>3. audit = <<e>> /\ clock = 0 /\ Live = {}
    BY <1>1 DEF DeskInit, Init, Live
  <1>4. LogRows
    BY <1>2, <1>3 DEF LogRows
  <1>5. \A u \in Users : About(u) = {}
    BY <1>2, <1>3, RequestsAssumption DEF About
  <1>6. \A u \in Users : stores[u] # None => stores[u] = NewStore(0)
    BY DEF DeskInit, Init
  <1>7. \A u \in Users : stores[u] # None => ~stores[u].suspended /\ stores[u].sold = 0
    BY <1>6 DEF NewStore
  <1>8. Distinct(users)
    BY RequestsAssumption DEF DeskInit, Init, Distinct
  <1>. QED
    BY <1>3, <1>4, <1>5, <1>7, <1>8 DEF AuditInv, OutInv, Tells, Suspended

\* The newest entry of a store in the audit log tells whether it is suspended, whichever
\* requests to suspend and to reactivate it overlapped (set_store_suspension writes the
\* store and the entry in one transaction, stamped by clock_timestamp()).
THEOREM AuditTells == DeskSpec => []AuditTellsSuspension
  <1>1. AuditInv => AuditTellsSuspension
    <2> SUFFICES ASSUME AuditInv, NEW u \in Shops
                 PROVE  stores[u].suspended <=>
                            About(u) # {} /\ audit[Newest(u)].action = "store_suspended"
      BY DEF AuditTellsSuspension
    <2>1. Tells(u) /\ LogRows
      BY DEF AuditInv, Shops
    <2>. QED
      BY <2>1, NewestIs DEF Tells
  <1>. QED
    BY <1>1, TypeInit, TypeStep, LinksInit, LinksStep, RowsInit, RowsStep, AuditInit, AuditStep,
       PTL DEF DeskSpec

LEMMA OutOfReach ==
    ASSUME TypeInv, RowsInv, AuditInv, OutInv, [DeskNext]_vars,
           NEW u \in Shops, NEW w \in Workers, stores[u].suspended,
           tx[w] # None, tx'[w] = None, tx[w].at > audit[Newest(u)].at
    PROVE  /\ stores'[u] = None \/ stores'[u].sold # tx[w].at
           /\ \A s \in sessions' \ sessions : s.user # u
  <1>1. u \in Users /\ w \in Live /\ stores[u] # None /\ Suspended(stores, u)
    BY DEF Shops, Live, Suspended
  <1>2. PICK i \in About(u) : IsNewest(u, i) /\ Newest(u) = i
    <2>1. Tells(u) /\ LogRows
      BY <1>1 DEF AuditInv
    <2>. QED
      BY <2>1, NewestIs DEF Tells
  <1>3. /\ Suspended(tx[w].stores, u) /\ (tx[w].req.route = "write" => tx[w].req.user # u)
        /\ stores[u].sold # tx[w].at
    BY <1>1, <1>2 DEF OutInv
  <1>4. CASE UNCHANGED <<stores, sessions>>
    BY <1>3, <1>4
  <1>5. ASSUME NEW v \in Workers, Ends(v)
        PROVE  /\ stores'[u] = None \/ stores'[u].sold # tx[w].at
               /\ \A s \in sessions' \ sessions : s.user # u
    <2>1. v = w
      BY <1>1, <1>5, ClosedFrame DEF Ends, Live
    <2>2. ShopStep(w, u) /\ \A s \in sessions' \ sessions : ~Suspended(tx[w].stores, s.user)
      BY <1>1, <1>5, <2>1 DEF Ends
    <2>. QED
      BY <1>1, <1>3, <2>2 DEF ShopStep
  <1>6. ASSUME NEW v \in Workers, SetSuspension(v), stores[tx[v].req.store] # None
        PROVE  stores'[u].sold = stores[u].sold /\ sessions' = sessions
    <2>1. PICK a \in Users, on \in BOOLEAN :
              /\ stores' = [stores EXCEPT ![a] = [@ EXCEPT !.suspended = on]]
              /\ stores'[a].sold = stores[a].sold /\ sessions' = sessions
      BY <1>6, SuspensionSaved
    <2>2. stores \in Shelves
      BY DEF TypeInv, AccountsTypeOK, Shelves
    <2>. QED
      BY <1>1, <2>1, <2>2 DEF Shelves
  <1>7. (GoesOn /\ audit' = audit) \/ \E v \in Workers : DeskStep(v)
    BY DeskSteps
  <1>8. GoesOn \/ (\E v \in Workers : \E r : Open(v, r)) => UNCHANGED <<stores, sessions>>
    BY DEF GoesOn, Open, tables
  <1>. QED
    BY <1>3, <1>4, <1>5, <1>6, <1>7, <1>8 DEF DeskStep

\* Once a suspension is committed, no request that begins later sells for the store or
\* gets a token for its account (db.py get_tenant_db, service.py _active_store_id).
THEOREM SuspendedOut == DeskSpec => SuspendedIsOut
  <1>1. /\ TypeInv /\ RowsInv /\ AuditInv /\ OutInv /\ [DeskNext]_vars
        => [\A u \in Shops, w \in Workers :
              /\ stores[u].suspended
              /\ tx[w] # None /\ tx'[w] = None /\ tx[w].at > audit[Newest(u)].at
              => /\ stores'[u] = None \/ stores'[u].sold # tx[w].at
                 /\ \A s \in sessions' \ sessions : s.user # u]_vars
    BY OutOfReach
  <1>. QED
    BY <1>1, TypeInit, TypeStep, LinksInit, LinksStep, RowsInit, RowsStep, AuditInit, AuditStep,
       PTL DEF DeskSpec, SuspendedIsOut

-----------------------------------------------------------------------------
(* The lists *)

\* above[r] are the rows before r in an order of L without ties.
Orders(L, above) ==
    /\ above = [r \in L |-> above[r]]
    /\ \A r \in L : above[r] \subseteq L /\ r \notin above[r]
    /\ \A q, r \in L : q \in above[r] => above[q] \subseteq above[r]
    /\ \A q, r \in L : q # r => q \in above[r] \/ r \in above[q]

\* A row with n rows before it, one of which is the last: that one has n - 1 before it.
LEMMA RowBefore ==
    ASSUME NEW L, IsFiniteSet(L), NEW above, Orders(L, above), NEW r \in L, above[r] # {}
    PROVE  \E p \in above[r] : Cardinality(above[p]) = Cardinality(above[r]) - 1
  <1> DEFINE rank(q) == Cardinality(above[q])
  <1>1. \A q \in L : IsFiniteSet(above[q]) /\ rank(q) \in Nat
    BY FS_Subset, FS_CardinalityType DEF Orders
  <1>2. \A q \in above[r] : q \in L /\ rank(r) - rank(q) \in Nat
    <2> SUFFICES ASSUME NEW q \in above[r] PROVE q \in L /\ rank(r) - rank(q) \in Nat
      OBVIOUS
    <2>1. q \in L /\ above[q] \subseteq above[r]
      BY DEF Orders
    <2>2. rank(q) <= rank(r)
      BY <1>1, <2>1, FS_Subset
    <2>. QED
      BY <1>1, <2>1, <2>2
  <1>3. PICK d \in {rank(r) - rank(q) : q \in above[r]} :
                 \A e \in {rank(r) - rank(q) : q \in above[r]} : d <= e
    <2>1. {rank(r) - rank(q) : q \in above[r]} \in SUBSET Nat
          /\ {rank(r) - rank(q) : q \in above[r]} # {}
      BY <1>2
    <2>. QED
      BY <2>1, LeastNatural
  <1>4. PICK p \in above[r] : d = rank(r) - rank(p)
    BY <1>3
  <1>5. \A q \in above[r] : rank(q) <= rank(p)
    <2> SUFFICES ASSUME NEW q \in above[r] PROVE rank(q) <= rank(p)
      OBVIOUS
    <2>1. rank(r) - rank(p) <= rank(r) - rank(q)
      BY <1>3, <1>4
    <2>. QED
      BY <1>1, <1>2, <2>1
  <1>6. ASSUME NEW q \in above[r], q # p PROVE q \in above[p]
    <2>1. CASE p \in above[q]
      <3>1. above[p] \subseteq above[q] /\ p \notin above[p]
        BY <1>2, <2>1 DEF Orders
      <3>2. rank(p) < rank(q)
        BY <1>1, <1>2, <2>1, <3>1, FS_Subset
      <3>. QED
        BY <1>1, <1>2, <1>5, <3>2
    <2>. QED
      BY <1>2, <1>6, <2>1 DEF Orders
  <1>7. above[p] = above[r] \ {p}
    <2>1. above[p] \subseteq above[r] /\ p \notin above[p]
      BY <1>2 DEF Orders
    <2>. QED
      BY <1>6, <2>1
  <1>8. Cardinality(above[r] \ {p}) = Cardinality(above[r]) - 1
    <2>1. IsFiniteSet(above[r]) /\ p \in above[r]
      BY <1>1
    <2>. QED
      BY <2>1, FS_RemoveElement
  <1>. QED
    BY <1>7, <1>8

\* Where a row has k rows before it or more, one has exactly k.
LEMMA RowAt ==
    ASSUME NEW L, IsFiniteSet(L), NEW above, Orders(L, above), NEW k \in Nat,
           NEW r \in L, k <= Cardinality(above[r])
    PROVE  \E p \in L : Cardinality(above[p]) = k
  <1> DEFINE ranks == {n \in Nat : k <= n /\ \E p \in L : Cardinality(above[p]) = n}
  <1>1. \A q \in L : IsFiniteSet(above[q]) /\ Cardinality(above[q]) \in Nat /\ above[q] \subseteq L
    BY FS_Subset, FS_CardinalityType DEF Orders
  <1>2. ranks \in SUBSET Nat /\ Cardinality(above[r]) \in ranks
    BY <1>1
  <1>3. PICK n \in ranks : \A m \in ranks : n <= m
    BY <1>2, LeastNatural
  <1>4. PICK p \in L : Cardinality(above[p]) = n
    BY <1>3
  <1>5. CASE n # k
    <2>1. above[p] # {}
      BY <1>3, <1>4, <1>5, FS_EmptySet
    <2>2. PICK q \in above[p] : Cardinality(above[q]) = n - 1
      BY <1>4, <2>1, RowBefore
    <2>3. n - 1 \in ranks
      BY <1>1, <1>3, <1>5, <2>2
    <2>. QED
      BY <1>3, <2>3
  <1>. QED
    BY <1>4, <1>5

Tables == {"audit", "users", "stores"}

\* The rows that a list orders, by time and then by id.
Dated(list, r) ==
    CASE list = "audit" -> audit[r].at \in Times /\ r \in Nat
      [] list = "users" -> users[r].created \in Times /\ r \in Users
      [] list = "stores" -> /\ stores[r].created \in Times /\ stores[r].sold \in Times
                            /\ r \in Users

LEMMA ListedDated ==
    ASSUME TypeInv, LogRows, NEW list \in Tables
    PROVE  /\ IsFiniteSet(Listed(list)) /\ \A r \in Listed(list) : Dated(list, r)
           /\ Listed(list) \subseteq Users \cup Nat
  <1>1. CASE list = "audit"
    <2>1. \A i \in DOMAIN audit : i \in Nat /\ audit[i] \in Entry /\ audit[i].at \in Times
      BY EntryType DEF Entry
    <2>2. audit \in Seq(Entry)
      BY DEF LogRows
    <2>3. DOMAIN audit = 1..Len(audit) /\ Len(audit) \in Nat
      BY <2>2
    <2>4. IsFiniteSet(DOMAIN audit)
      BY <2>3, FS_Interval
    <2>. QED
      BY <1>1, <2>1, <2>4 DEF Listed, Dated
  <1>2. CASE list = "users"
    <2>1. \A u \in Accounts : u \in Users /\ users[u] \in User
      BY DEF Accounts, TypeInv, AccountsTypeOK
    <2>2. IsFiniteSet(Accounts)
      BY DeskAssumption, FS_Subset DEF Accounts
    <2>. QED
      BY <1>2, <2>1, <2>2 DEF Listed, Dated, User
  <1>3. CASE list = "stores"
    <2>1. \A u \in Shops : u \in Users /\ stores[u] \in Store
      BY DEF Shops, TypeInv, AccountsTypeOK
    <2>2. IsFiniteSet(Shops)
      BY DeskAssumption, FS_Subset DEF Shops
    <2>. QED
      BY <1>3, <2>1, <2>2 DEF Listed, Dated, Store
  <1>. QED
    BY <1>1, <1>2, <1>3 DEF Tables

\* ORDER BY ..., id leaves no tie.
LEMMA ListedOrders ==
    ASSUME TypeInv, LogRows, NEW list \in Tables
    PROVE  Orders(Listed(list), [r \in Listed(list) |-> Above(list, r)])
  <1> DEFINE above == [r \in Listed(list) |-> Above(list, r)]
  <1>0. \A r \in Listed(list) : Dated(list, r) /\ above[r] = Above(list, r)
    BY ListedDated
  <1>1. \A n \in Times : n \in Int
    BY AccountsAssumption DEF Times
  <1>2. Id["users"] \in [Users -> Nat] /\ Id["stores"] \in [Users -> Nat]
        /\ \A u, v \in Users : u # v => Id["users"][u] # Id["users"][v]
                                        /\ Id["stores"][u] # Id["stores"][v]
    BY DeskAssumption
  <1>3. CASE list = "audit"
    <2>1. \A q, r \in Listed(list) : q \in Above(list, r) <=> LaterEntry(q, r)
      BY <1>3 DEF Above
    <2>2. \A q \in Listed(list) : audit[q].at \in Int /\ q \in Nat
      BY <1>0, <1>1, <1>3 DEF Dated
    <2>3. \A p, q, r \in Listed(list) :
             /\ ~LaterEntry(r, r)
             /\ LaterEntry(p, q) /\ LaterEntry(q, r) => LaterEntry(p, r)
             /\ q # r => LaterEntry(q, r) \/ LaterEntry(r, q)
      BY <2>2 DEF LaterEntry
    <2>. QED
      BY <1>0, <2>1, <2>3 DEF Orders, Above
  <1>4. CASE list = "users"
    <2>1. \A q, r \in Listed(list) : q \in Above(list, r) <=> NewerRow("users", users, q, r)
      BY <1>4 DEF Above
    <2>2. \A q \in Listed(list) : users[q].created \in Int /\ q \in Users /\ Id["users"][q] \in Nat
      BY <1>0, <1>1, <1>2, <1>4 DEF Dated
    <2>3. \A p, q, r \in Listed(list) :
             /\ ~NewerRow("users", users, r, r)
             /\ NewerRow("users", users, p, q) /\ NewerRow("users", users, q, r)
                   => NewerRow("users", users, p, r)
             /\ q # r => NewerRow("users", users, q, r) \/ NewerRow("users", users, r, q)
      BY <1>2, <2>2 DEF NewerRow
    <2>. QED
      BY <1>0, <2>1, <2>3 DEF Orders, Above
  <1>5. CASE list = "stores"
    <2>1. \A q, r \in Listed(list) : q \in Above(list, r) <=> SoldBefore(q, r)
      BY <1>5 DEF Above
    <2>2. \A q \in Listed(list) : /\ stores[q].created \in Int /\ stores[q].sold \in Int
                                  /\ q \in Users /\ Id["stores"][q] \in Nat
      BY <1>0, <1>1, <1>2, <1>5 DEF Dated
    <2>3. \A p, q, r \in Listed(list) :
             /\ ~SoldBefore(r, r)
             /\ SoldBefore(p, q) /\ SoldBefore(q, r) => SoldBefore(p, r)
             /\ q # r => SoldBefore(q, r) \/ SoldBefore(r, q)
      BY <1>2, <2>2 DEF SoldBefore, NewerRow
    <2>. QED
      BY <1>0, <2>1, <2>3 DEF Orders, Above
  <1>. QED
    BY <1>3, <1>4, <1>5 DEF Tables

\* How many rows of the list come before row r.
Rank(list, r) == Cardinality(Above(list, r))

LEMMA RankType ==
    ASSUME TypeInv, LogRows, NEW list \in Tables, NEW r
    PROVE  IsFiniteSet(Above(list, r)) /\ Rank(list, r) \in Nat
  BY ListedDated, FS_Subset, FS_CardinalityType DEF Above, Rank

\* In the next state as well.
ListsFinite ==
    \A list \in Tables : \A r : IsFiniteSet(Above(list, r)) /\ Rank(list, r) \in Nat

LEMMA RankNow == TypeInv /\ LogRows => ListsFinite
  BY RankType DEF ListsFinite

LEMMA RankNext == TypeInv' /\ LogRows' => ListsFinite'
  BY RankNow, PTL

\* A page without rows is past the end of the list.
LEMMA EmptyPage ==
    ASSUME TypeInv, LogRows, NEW list \in Tables, NEW offset \in Nat, Page(list, offset) = {},
           NEW r \in Listed(list)
    PROVE  Rank(list, r) < offset
  <1> SUFFICES ASSUME offset <= Rank(list, r) PROVE FALSE
    BY RankType
  <1> DEFINE above == [q \in Listed(list) |-> Above(list, q)]
  <1>1. \A q \in Listed(list) : above[q] = Above(list, q)
    OBVIOUS
  <1> HIDE DEF above
  <1>2. Orders(Listed(list), above) /\ IsFiniteSet(Listed(list))
    BY ListedOrders, ListedDated DEF above
  <1>3. PICK p \in Listed(list) : Cardinality(above[p]) = offset
    BY <1>1, <1>2, RowAt DEF Rank
  <1>4. offset \in offset..(offset + PageSize - 1)
    BY DeskAssumption
  <1>. QED
    BY <1>1, <1>3, <1>4 DEF Page

\* Tables n and s have the rows of now, as old and with sales no earlier, but for accounts
\* that are deleted with their store.
Ages(n, s) ==
    /\ \A u \in Accounts : n[u] # None => n[u].created = users[u].created
    /\ \A u \in Shops : IF s[u] = None THEN users[u] # None /\ n[u] = None
                        ELSE s[u].created = stores[u].created /\ stores[u].sold <= s[u].sold

LEMMA SameAges ==
    ASSUME TypeInv, NEW n,
           \A u \in Accounts : n[u] # None => n[u].created = users[u].created
    PROVE  Ages(n, stores)
  <1>1. \A u \in Shops : stores[u] # None /\ stores[u].sold \in Int
    BY AccountsAssumption DEF TypeInv, AccountsTypeOK, Shops, Store, Times
  <1>. QED
    BY <1>1 DEF Ages

\* An account that changes a column other than created.
LEMMA EditedAges ==
    ASSUME TypeInv, NEW a, NEW n, NEW row,
           users[a] # None => row.created = users[a].created,
           n = [users EXCEPT ![a] = row]
    PROVE  Ages(n, stores)
  <1>1. \A u \in Users : u # a => n[u] = users[u]
    BY DEF TypeInv, AccountsTypeOK
  <1>2. a \in Users => n[a] = users[a] \/ n[a] = row
    BY DEF TypeInv, AccountsTypeOK
  <1>3. \A u \in Accounts : n[u] # None => n[u].created = users[u].created
    BY <1>1, <1>2 DEF Accounts
  <1>. QED
    BY <1>3, SameAges

LEMMA SaveAges ==
    ASSUME TypeInv, NEW w, NEW n, NEW s, NEW l, Save(w, n, s, l), Ages(n, s)
    PROVE  Ages(users', stores')
  <1>1. Ages(users, stores)
    BY SameAges
  <1>. QED
    BY <1>1 DEF Save, tables

LEMMA AccountStepAges ==
    ASSUME TypeInv, RowsInv, NEW w \in Workers, AccountSteps(w)
    PROVE  Ages(users', stores')
  <1>0. /\ users \in Rows /\ stores \in Shelves /\ Ages(users, stores)
        /\ None \notin User /\ None \notin Store
    BY RequestsAssumption, SameAges DEF TypeInv, AccountsTypeOK, Rows, Shelves
  <1>1. PICK t : t = tx[w]
    OBVIOUS
  <1>2. ASSUME t # None
        PROVE  w \in Live /\ IsTx(t) /\ t.req \in Asked /\ t.at \in Times
    BY <1>1, <1>2, AccountsAssumption DEF Live, TypeInv, IsTx, AccountsTypeOK, Times
  <1>3. CASE UNCHANGED <<users, stores>>
    BY <1>0, <1>3
  <1>4. CASE Begin(w) \/ Invalidate(w) \/ Grant(w) \/ Answer(w)
    BY <1>3, <1>4 DEF Begin, Open, Invalidate, Grant, Answer, tables
  <1>5. ASSUME NEW l, Save(w, users, stores, l) PROVE Ages(users', stores')
    BY <1>0, <1>5, SaveAges
  <1>6. CASE (SendPasswordReset(w) \/ ResendVerification(w)) /\ ~Answer(w)
    BY <1>5, <1>6 DEF SendPasswordReset, ResendVerification
  <1>7. ASSUME NEW a, NEW n, NEW row, NEW l, Save(w, n, stores, l),
               users[a] # None => row.created = users[a].created,
               n = [users EXCEPT ![a] = row]
        PROVE  Ages(users', stores')
    BY <1>7, EditedAges, SaveAges
  <1>8. ASSUME NEW a \in Users, users[a] # None
        PROVE  /\ \A v : [users[a] EXCEPT !.email = v].created = users[a].created
               /\ \A v : [users[a] EXCEPT !.verified = v].created = users[a].created
               /\ \A v : [users[a] EXCEPT !.password = v].created = users[a].created
    <2>1. users[a] \in User
      BY <1>0, <1>8 DEF Rows
    <2>. QED
      BY <2>1 DEF User
  <1>9. CASE UpdateEmail(w) /\ ~Answer(w)
    <2>1. PICK a, n, l, row : /\ t # None /\ a = t.req.user /\ t.req.route = "email"
                              /\ users[a] # None /\ Save(w, n, stores, l)
                              /\ row = [users[a] EXCEPT !.email = t.req.email]
                              /\ n = users \/ n = [users EXCEPT ![a] = row]
      BY <1>1, <1>9 DEF UpdateEmail, Ready, Serves
    <2>2. a \in Users
      BY <1>2, <2>1, RequestFields
    <2>3. row.created = users[a].created
      BY <1>8, <2>1, <2>2
    <2>4. CASE n = users
      BY <1>5, <2>1, <2>4
    <2>. QED
      BY <1>7, <2>1, <2>3, <2>4
  <1>10. CASE VerifyEmail(w) /\ ~Answer(w)
    <2>1. PICK a, n, l, row : /\ t # None /\ a = t.req.link.user /\ t.req.route = "verify"
                              /\ users[a] # None /\ Save(w, n, stores, l)
                              /\ row = [users[a] EXCEPT !.verified = TRUE]
                              /\ n = users \/ n = [users EXCEPT ![a] = row]
      BY <1>1, <1>10 DEF VerifyEmail, Serves
    <2>2. a \in Users
      BY <1>2, <2>1, RequestFields DEF Kinds, Link
    <2>3. row.created = users[a].created
      BY <1>8, <2>1, <2>2
    <2>4. CASE n = users
      BY <1>5, <2>1, <2>4
    <2>. QED
      BY <1>7, <2>1, <2>3, <2>4
  <1>11. CASE ResetPassword(w) /\ ~Answer(w)
    <2>1. PICK a, n, l, row : /\ t # None /\ a = t.req.link.user /\ t.req.route = "reset"
                              /\ users[a] # None /\ Save(w, n, stores, l)
                              /\ row = [users[a] EXCEPT !.password = t.req.password]
                              /\ n = [users EXCEPT ![a] = row]
      BY <1>1, <1>11 DEF ResetPassword, Serves
    <2>2. a \in Users
      BY <1>2, <2>1, RequestFields DEF Kinds, Link
    <2>3. row.created = users[a].created
      BY <1>8, <2>1, <2>2
    <2>. QED
      BY <1>7, <2>1, <2>3
  <1>12. CASE Register(w) /\ ~Answer(w)
    <2>1. PICK n, s, l, row : /\ t # None /\ t.req.route = "register" /\ Save(w, n, s, l)
                              /\ n = [users EXCEPT ![t.req.id] = row]
                              /\ s = [stores EXCEPT ![t.req.id] = NewStore(t.at)]
      BY <1>1, <1>12 DEF Register, Serves
    <2>2. users[t.req.id] = None /\ stores[t.req.id] = None
      BY <1>1, <1>2, <2>1, RequestFields DEF RowsInv, Registering
    <2>3. /\ \A u \in Accounts : n[u] = users[u]
          /\ \A u \in Shops : s[u] = stores[u]
      BY <1>0, <2>1, <2>2 DEF Accounts, Shops, Rows, Shelves
    <2>4. Ages(n, s)
      BY <1>0, <2>3 DEF Ages, Shops
    <2>. QED
      BY <2>1, <2>4, SaveAges
  <1>13. CASE CreateStore(w) /\ ~Answer(w)
    <2>1. PICK u, s : /\ stores[u] = None /\ s = [stores EXCEPT ![u] = NewStore(t.at)]
                      /\ Save(w, users, s, links)
      BY <1>1, <1>13 DEF CreateStore, Serves
    <2>2. \A v \in Shops : s[v] = stores[v]
      BY <1>0, <2>1 DEF Shops, Shelves
    <2>3. Ages(users, s)
      BY <1>0, <2>2 DEF Ages, Shops
    <2>. QED
      BY <2>1, <2>3, SaveAges
  <1>14. CASE TenantWrite(w) /\ ~Answer(w)
    <2>1. PICK u, s, row : /\ t # None /\ t.req.route = "write" /\ u = t.req.user
                           /\ stores[u] # None
                           /\ row = [stores[u] EXCEPT !.sold = Later(@, t.at)]
                           /\ s = [stores EXCEPT ![u] = row] /\ Save(w, users, s, links)
      BY <1>1, <1>14 DEF TenantWrite, Serves
    <2>2. u \in Users
      BY <1>2, <2>1, RequestFields
    <2>3. stores[u] \in Store
      BY <1>0, <2>1, <2>2 DEF Shelves
    <2>4. row.sold = Later(stores[u].sold, t.at) /\ row.created = stores[u].created /\ row \in Store
      <3>1. Later(stores[u].sold, t.at) \in Times
        BY <1>2, <2>1, <2>3 DEF Later, Store
      <3>. QED
        BY <2>1, <2>3, <3>1 DEF Store
    <2>5. stores[u].sold <= row.sold
      BY <1>2, <2>1, <2>3, <2>4, AccountsAssumption DEF Later, Store, Times
    <2>6. s[u] = row /\ row # None /\ \A v \in Users : v # u => s[v] = stores[v]
      BY <1>0, <2>1, <2>2, <2>4 DEF Shelves
    <2>7. Ages(users, s)
      BY <1>0, <2>4, <2>5, <2>6 DEF Ages, Shops
    <2>. QED
      BY <2>1, <2>7, SaveAges
  <1>15. CASE DeleteMe(w) /\ ~Answer(w)
    <2>1. PICK u, n, s, l : /\ t # None /\ t.req.route = "delete" /\ u = t.req.user
                            /\ Save(w, n, s, l) /\ n = [users EXCEPT ![u] = None]
                            /\ s = (IF t.stores[u] # None THEN [stores EXCEPT ![u] = None]
                                    ELSE stores)
      BY <1>1, <1>15 DEF DeleteMe, Serves
    <2>2. u \in Users
      BY <1>2, <2>1, RequestFields
    <2>3. n[u] = None /\ s[u] \in {None, stores[u]}
          /\ \A v \in Users : v # u => n[v] = users[v] /\ s[v] = stores[v]
      BY <1>0, <2>1, <2>2 DEF Rows, Shelves
    <2>4. \A v \in Shops : users[v] # None
      BY DEF RowsInv, Shops
    <2>5. Ages(n, s)
      BY <1>0, <2>3, <2>4 DEF Ages, Shops, Accounts
    <2>. QED
      BY <2>1, <2>5, SaveAges
  <1>. QED
    BY <1>4, <1>6, <1>9, <1>10, <1>11, <1>12, <1>13, <1>14, <1>15 DEF AccountSteps

\* The log is the same or has one entry more.
LogExtends == audit' = audit \/ \E e : audit' = Append(audit, e)

\* A row that nothing moves to the front never has fewer rows before it.
LEMMA RanksGrow ==
    ASSUME TypeInv, LogRows, TypeInv', LogRows', Ages(users', stores'), LogExtends,
           NEW list \in Tables, NEW r \in Listed(list),
           list # "audit" => \A u \in Accounts : users'[u] # None,
           list = "stores" => stores'[r].sold = stores[r].sold
    PROVE  r \in Listed(list)' /\ Rank(list, r) <= Rank(list, r)'
  <1>0. \A n \in Times : n \in Int
    BY AccountsAssumption DEF Times
  <1>1. r \in Listed(list)' /\ Above(list, r) \subseteq Above(list, r)'
    <2>1. CASE list = "audit"
      <3>1. \A i \in DOMAIN audit : i \in DOMAIN audit' /\ audit'[i] = audit[i]
        BY DEF LogExtends, LogRows
      <3>2. \A q \in DOMAIN audit : LaterEntry(q, r) => LaterEntry(q, r)'
        BY <2>1, <3>1 DEF LaterEntry, Listed
      <3>. QED
        BY <2>1, <3>1, <3>2 DEF Listed, Above
    <2>2. CASE list = "users"
      <3>1. \A u \in Accounts : u \in Accounts' /\ users'[u].created = users[u].created
        BY <2>2 DEF Ages, Accounts
      <3>2. \A q \in Accounts : NewerRow("users", users, q, r) => NewerRow("users", users, q, r)'
        BY <2>2, <3>1 DEF NewerRow, Listed
      <3>. QED
        BY <2>2, <3>1, <3>2 DEF Listed, Above
    <2>3. CASE list = "stores"
      <3>1. \A u \in Shops : /\ u \in Shops' /\ stores'[u].created = stores[u].created
                             /\ stores[u].sold <= stores'[u].sold
        BY <2>3 DEF Ages, Accounts, Shops
      <3>2. \A u \in Shops : stores[u].sold \in Int /\ stores'[u].sold \in Int
        <4>1. \A u \in Shops : Dated(list, u)
          BY <2>3, ListedDated DEF Listed
        <4>2. \A u \in Shops' : stores'[u] \in Store
          BY DEF TypeInv, AccountsTypeOK, Shops
        <4>. QED
          BY <1>0, <2>3, <3>1, <4>1, <4>2 DEF Dated, Store
      <3>3. \A q \in Shops : SoldBefore(q, r) => SoldBefore(q, r)'
        BY <2>3, <3>1, <3>2 DEF SoldBefore, NewerRow, Listed
      <3>. QED
        BY <2>3, <3>1, <3>3 DEF Listed, Above
    <2>. QED
      BY <2>1, <2>2, <2>3 DEF Tables
  <1>2. IsFiniteSet(Above(list, r)')
    BY RankNext DEF ListsFinite
  <1>. QED
    BY <1>1, <1>2, FS_Subset DEF Rank

\* A row the list owes is on a page that was read, or has more rows before it than the
\* pages read had.
WalkInv ==
    walk # None =>
        /\ walk \in Walk
        /\ \A r \in walk.owed \ walk.shown :
              r \in Listed(walk.list) /\ walk.offset <= Rank(walk.list, r)
        /\ walk.over => walk.owed \subseteq walk.shown

\* A step that reads no page and still owes the rows O.
LEMMA WalkWaits ==
    ASSUME TypeInv, LogRows, TypeInv', LogRows', Ages(users', stores'), LogExtends, WalkInv,
           walk # None, NEW O, O \subseteq walk.owed, walk' = [walk EXCEPT !.owed = O],
           walk.list # "audit" /\ O # {} => \A u \in Accounts : users'[u] # None,
           walk.list = "stores" => \A r \in O \cap Shops : stores'[r].sold = stores[r].sold
    PROVE  WalkInv'
  <1>1. walk \in Walk /\ walk.list \in Tables
    BY DeskAssumption DEF WalkInv, Walk, Tables
  <1>2. /\ walk' \in Walk /\ walk'.owed = O /\ walk'.shown = walk.shown
        /\ walk'.list = walk.list /\ walk'.offset = walk.offset /\ walk'.over = walk.over
    BY <1>1 DEF Walk
  <1>3. ASSUME NEW r \in O \ walk.shown
        PROVE  r \in Listed(walk.list)' /\ walk.offset <= Rank(walk.list, r)'
    <2>0. r \in Listed(walk.list) /\ walk.offset <= Rank(walk.list, r)
      BY DEF WalkInv
    <2>1. PICK list \in Tables : list = walk.list
      BY <1>1
    <2>2. list = "stores" => stores'[r].sold = stores[r].sold
      BY <2>0, <2>1 DEF Listed
    <2>3. r \in Listed(list)' /\ Rank(list, r) <= Rank(list, r)'
      BY <2>0, <2>1, <2>2, RanksGrow
    <2>4. Rank(list, r) \in Nat
      BY RankType
    <2>5. Rank(list, r)' \in Nat
      BY RankNext DEF ListsFinite
    <2>6. walk.offset \in Nat
      BY <1>1 DEF Walk
    <2>7. walk.offset <= Rank(list, r)'
      BY <2>0, <2>1, <2>3, <2>4, <2>5, <2>6
    <2>8. list' = list /\ r' = r
      OBVIOUS
    <2>. QED
      BY <2>1, <2>3, <2>7
  <1>. QED
    BY <1>2, <1>3 DEF WalkInv

\* A page shows the rows that have as many rows before them as the pages before it had.
LEMMA PageRead ==
    ASSUME TypeInv, LogRows, WalkInv, ListPage
    PROVE  WalkInv'
  <1>0. UNCHANGED <<users, stores, audit>>
    BY DEF ListPage, accounts
  <1>1. \A list : Listed(list)' = Listed(list)
    BY <1>0 DEF Listed, Accounts, Shops
  <1>2. \A list \in Tables : \A r : Above(list, r)' = Above(list, r)
    <2>1. \A q, r : /\ LaterEntry(q, r)' <=> LaterEntry(q, r)
                    /\ SoldBefore(q, r)' <=> SoldBefore(q, r)
                    /\ NewerRow("users", users, q, r)' <=> NewerRow("users", users, q, r)
      BY <1>0 DEF LaterEntry, NewerRow, SoldBefore
    <2>. QED
      BY <1>1, <2>1 DEF Above, Tables
  <1>3. \A list \in Tables : \A r : Rank(list, r)' = Rank(list, r)
    BY <1>2 DEF Rank
  <1>4. ASSUME NEW list \in Tables, NEW offset \in Nat, NEW r \in Listed(list),
               offset <= Rank(list, r), r \notin Page(list, offset)
        PROVE  offset + PageSize <= Rank(list, r)
    <2>1. Rank(list, r) \in Nat
      BY RankType
    <2>2. ~(Rank(list, r) \in offset..(offset + PageSize - 1))
      BY <1>4 DEF Page, Rank
    <2>. QED
      BY <1>4, <2>1, <2>2, DeskAssumption
  <1>5. \A list \in Tables : \A offset : /\ Page(list, offset) \in SUBSET (Users \cup Nat)
                                         /\ Listed(list) \in SUBSET (Users \cup Nat)
    BY ListedDated DEF Page
  <1>6. CASE walk = None
    <2>1. PICK list \in Lists :
              walk' = [list |-> list, offset |-> PageSize, shown |-> Page(list, 0),
                       owed |-> Listed(list), over |-> Page(list, 0) = {}]
      BY <1>6 DEF ListPage
    <2>2. list \in Tables /\ PageSize \in Nat
      BY DeskAssumption DEF Tables
    <2>3. \A r \in Listed(list) : Rank(list, r) \in Nat /\ 0 <= Rank(list, r)
      BY <2>2, RankType
    <2>4. \A r \in Listed(list) \ Page(list, 0) : PageSize <= Rank(list, r)
      <3> SUFFICES ASSUME NEW r \in Listed(list) \ Page(list, 0) PROVE PageSize <= Rank(list, r)
        OBVIOUS
      <3>1. 0 + PageSize <= Rank(list, r)
        BY <1>4, <2>2, <2>3
      <3>. QED
        BY <2>2, <3>1
    <2>5. Page(list, 0) = {} => Listed(list) = {}
      <3>1. ASSUME Page(list, 0) = {}, NEW r \in Listed(list) PROVE FALSE
        <4>1. Rank(list, r) < 0
          BY <2>2, <3>1, EmptyPage
        <4>. QED
          BY <2>3, <4>1
      <3>. QED
        BY <3>1
    <2>6. walk' \in Walk
      BY <1>5, <2>1, <2>2 DEF Walk
    <2>7. /\ walk'.list = list /\ walk'.offset = PageSize /\ walk'.shown = Page(list, 0)
          /\ walk'.owed = Listed(list) /\ walk'.over = (Page(list, 0) = {})
      BY <2>1
    <2>. QED
      BY <1>1, <1>3, <2>2, <2>4, <2>5, <2>6, <2>7 DEF WalkInv
  <1>7. CASE walk # None
    <2>0. walk \in Walk /\ ~walk.over
      BY <1>7 DEF WalkInv, ListPage
    <2>1. PICK list \in Tables : list = walk.list
      BY <2>0, DeskAssumption DEF Walk, Tables
    <2>2. PICK offset \in Nat : offset = walk.offset
      BY <2>0 DEF Walk
    <2>3. PICK page : page = Page(list, offset)
      OBVIOUS
    <2>4. walk' = [walk EXCEPT !.offset = @ + PageSize, !.shown = @ \cup page, !.over = page = {}]
      BY <1>7, <2>1, <2>2, <2>3 DEF ListPage
    <2>5. /\ walk'.list = list /\ walk'.offset = offset + PageSize
          /\ walk'.shown = walk.shown \cup page /\ walk'.over = (page = {})
          /\ walk'.owed = walk.owed
      BY <2>0, <2>1, <2>2, <2>4 DEF Walk
    <2>6. walk' \in Walk
      <3>1. page \in SUBSET (Users \cup Nat) /\ offset + PageSize \in Nat
        BY <1>5, <2>3, DeskAssumption
      <3>. QED
        BY <2>0, <2>2, <2>4, <3>1 DEF Walk
    <2>7. ASSUME NEW r \in walk.owed \ (walk.shown \cup page)
          PROVE  r \in Listed(list) /\ offset + PageSize <= Rank(list, r)
      <3>1. r \in Listed(list) /\ offset <= Rank(list, r)
        BY <1>7, <2>1, <2>2 DEF WalkInv
      <3>. QED
        BY <1>4, <2>3, <3>1
    <2>8. page = {} => walk.owed \subseteq walk.shown
      <3> SUFFICES ASSUME page = {}, NEW r \in walk.owed \ walk.shown PROVE FALSE
        OBVIOUS
      <3>1. r \in Listed(list) /\ offset <= Rank(list, r)
        BY <1>7, <2>1, <2>2 DEF WalkInv
      <3>2. Rank(list, r) < offset /\ Rank(list, r) \in Nat
        BY <2>3, <3>1, EmptyPage, RankType
      <3>. QED
        BY <3>1, <3>2
    <2>. QED
      BY <1>1, <1>3, <2>5, <2>6, <2>7, <2>8 DEF WalkInv
  <1>. QED
    BY <1>6, <1>7

\* The merchants' requests: what they take out of the list is no longer owed.
LEMMA MerchantWalk ==
    ASSUME TypeInv, LogRows, TypeInv', LogRows', WalkInv, NEW step, Merchant(step),
           Ages(users', stores')
    PROVE  WalkInv'
  <1>1. LogExtends /\ walk' = IF walk = None THEN None ELSE [walk EXCEPT !.owed = Owed]
    BY DEF Merchant, LogExtends
  <1>2. CASE walk = None
    BY <1>1, <1>2 DEF WalkInv
  <1>3. CASE walk # None
    <2>1. Owed \subseteq walk.owed
      BY DEF Owed
    <2>2. walk.list # "audit" /\ Owed # {} => \A u \in Accounts : users'[u] # None
      BY DEF Owed
    <2>3. walk.list = "stores" => \A r \in Owed \cap Shops : stores'[r].sold = stores[r].sold
      <3> SUFFICES ASSUME walk.list = "stores", NEW r \in Owed \cap Shops
                   PROVE  stores'[r].sold = stores[r].sold
        OBVIOUS
      <3>1. \A u \in Accounts : users'[u] # None
        BY <2>2
      <3>2. stores'[r] # None
        BY <3>1 DEF Ages, Shops, Accounts
      <3>. QED
        BY <3>1, <3>2 DEF Owed
    <2>4. walk' = [walk EXCEPT !.owed = Owed]
      BY <1>1, <1>3
    <2>. QED
      BY <1>1, <1>3, <2>1, <2>2, <2>3, <2>4, WalkWaits
  <1>. QED
    BY <1>2, <1>3

\* The requests of the administrator move no row of a list.
LEMMA DeskWalk ==
    ASSUME TypeInv, LogRows, TypeInv', LogRows', WalkInv, users' = users, walk' = walk, LogExtends,
           \A u \in Shops : /\ stores'[u] # None /\ stores'[u].created = stores[u].created
                            /\ stores'[u].sold = stores[u].sold
    PROVE  WalkInv'
  <1>1. Ages(users', stores')
    <2>1. Ages(users, stores)
      BY SameAges
    <2>. QED
      BY <2>1 DEF Ages
  <1>2. CASE walk = None
    BY <1>2 DEF WalkInv
  <1>3. CASE walk # None
    <2>1. walk' = [walk EXCEPT !.owed = walk.owed]
      BY <1>3 DEF WalkInv, Walk
    <2>2. \A u \in Accounts : users'[u] # None
      BY DEF Accounts
    <2>. QED
      BY <1>1, <1>3, <2>1, <2>2, WalkWaits
  <1>. QED
    BY <1>2, <1>3

LEMMA WalkStep ==
    TypeInv /\ RowsInv /\ LogRows /\ TypeInv' /\ LogRows' /\ WalkInv /\ [DeskNext]_vars => WalkInv'
  <1>. SUFFICES ASSUME TypeInv, RowsInv, LogRows, TypeInv', LogRows', WalkInv, [DeskNext]_vars
                PROVE  WalkInv'
    OBVIOUS
  <1>1. ASSUME UNCHANGED <<users, stores, walk>>, LogExtends PROVE WalkInv'
    BY <1>1, DeskWalk DEF Shops
  <1>2. ASSUME NEW w \in Workers, DeskBegin(w) \/ AdminLogin(w) PROVE WalkInv'
    BY <1>1, <1>2 DEF DeskBegin, AdminLogin, Accepted, Refused, Open, Answer, Logged, LogExtends, tables
  <1>3. ASSUME NEW w \in Workers, SupportLink(w) PROVE WalkInv'
    <2>1. UNCHANGED <<users, stores, walk>>
      BY <1>3 DEF SupportLink, Save, tables
    <2>2. LogExtends
      BY <1>3 DEF SupportLink, Logged, LogExtends
    <2>. QED
      BY <1>1, <2>1, <2>2
  <1>4. ASSUME NEW w \in Workers, SetSuspension(w) PROVE WalkInv'
    <2> DEFINE u == tx[w].req.store
               row == [stores[u] EXCEPT !.suspended = tx[w].req.on]
    <2>1. walk' = walk /\ LogExtends
      BY <1>4 DEF SetSuspension, Logged, LogExtends
    <2>2. users' = users /\ (stores' = stores \/ stores' = [stores EXCEPT ![u] = row])
      BY <1>4 DEF SetSuspension, Answer, Save, tables
    <2>3. CASE stores' = stores
      BY <1>1, <2>1, <2>2, <2>3
    <2>4. CASE stores' = [stores EXCEPT ![u] = row]
      <3>1. \A v \in Shops : v \in Users /\ stores[v] \in Store
        BY DEF Shops, TypeInv, AccountsTypeOK
      <3>2. u \in Shops => /\ row.created = stores[u].created /\ row.sold = stores[u].sold
                           /\ stores'[u] = row
        BY <2>4, <3>1 DEF Store, TypeInv, AccountsTypeOK
      <3>3. \A v \in Shops : v # u => stores'[v] = stores[v]
        BY <2>4, <3>1 DEF TypeInv, AccountsTypeOK
      <3>4. u \in Shops => row # None
        <4>1. tx[w].req.on \in BOOLEAN
          BY <1>4, RequestFields DEF SetSuspension, Serves, TypeInv, Live, IsTx
        <4>2. u \in Shops => row \in Store
          BY <3>1, <4>1 DEF Store
        <4>. QED
          BY <4>2, RequestsAssumption
      <3>5. \A v \in Shops : /\ stores'[v] # None /\ stores'[v].created = stores[v].created
                             /\ stores'[v].sold = stores[v].sold
        BY <3>2, <3>3, <3>4 DEF Shops
      <3>. QED
        BY <2>1, <2>2, <3>5, DeskWalk
    <2>. QED
      BY <2>2, <2>3, <2>4
  <1>5. ASSUME NEW w \in Workers, Merchant(AccountSteps(w)) PROVE WalkInv'
    <2>1. Ages(users', stores')
      BY <1>5, AccountStepAges DEF Merchant
    <2>. QED
      BY <1>5, <2>1, MerchantWalk
  <1>6. CASE Merchant(\E l \in links : Expire(l))
    <2>1. users' = users /\ stores' = stores
      BY <1>6 DEF Merchant, Expire
    <2>2. Ages(users', stores')
      BY <2>1, SameAges
    <2>. QED
      BY <1>6, <2>2, MerchantWalk
  <1>7. CASE LockExpires \/ UNCHANGED vars
    BY <1>1, <1>7 DEF LockExpires, vars, accounts, desk, LogExtends
  <1>. QED
    BY <1>2, <1>3, <1>4, <1>5, <1>6, <1>7, PageRead DEF DeskNext

LEMMA WalkInit == DeskInit => WalkInv
  BY DEF DeskInit, WalkInv

\* The rows of the administrator, in the table and as requests have read them.
DeskTypes ==
    /\ admin \in Admin
    /\ seen = [w \in Workers |-> seen[w]] /\ \A w \in Workers : seen[w] \in Admin

LEMMA DeskTypesStep == LockInv /\ DeskTypes /\ [DeskNext]_vars => DeskTypes'
  <1>. SUFFICES ASSUME LockInv, DeskTypes, [DeskNext]_vars PROVE DeskTypes'
    OBVIOUS
  <1>1. ASSUME admin' \in Admin, seen' = seen PROVE DeskTypes'
    BY <1>1 DEF DeskTypes
  <1>2. ASSUME NEW w \in Workers, DeskBegin(w) PROVE DeskTypes'
    BY <1>2 DEF DeskBegin, DeskTypes
  <1>3. Unlocked \in Admin
    BY DeskAssumption DEF Unlocked, Admin
  <1>4. ASSUME NEW w PROVE Counted(admin, w) \in Admin
    <2>1. CASE StillLocked(admin, w)
      BY <2>1 DEF Counted, DeskTypes
    <2>2. CASE ~StillLocked(admin, w)
      <3>1. Failed(admin) \in 0..MaxFailed
        BY <2>2, DeskAssumption DEF LockInv, Failed, StillLocked
      <3>. QED
        BY <2>2, <3>1 DEF Counted, Count, Admin
    <2>. QED
      BY <2>1, <2>2
  <1>5. ASSUME NEW w \in Workers, AdminLogin(w) PROVE DeskTypes'
    BY <1>1, <1>3, <1>4, <1>5 DEF AdminLogin, Accepted, Refused, DeskTypes
  <1>6. ASSUME NEW w \in Workers, SetSuspension(w) \/ SupportLink(w) PROVE DeskTypes'
    BY <1>1, <1>6 DEF SetSuspension, SupportLink, DeskTypes
  <1>7. ASSUME NEW step, Merchant(step) PROVE DeskTypes'
    BY <1>1, <1>7 DEF Merchant, DeskTypes
  <1>8. CASE LockExpires
    <2>1. admin' \in Admin
      BY <1>8 DEF LockExpires, DeskTypes, Admin
    <2>. QED
      BY <1>1, <1>8, <2>1 DEF LockExpires
  <1>9. CASE ListPage \/ UNCHANGED vars
    BY <1>1, <1>9 DEF ListPage, vars, desk, DeskTypes
  <1>. QED
    BY <1>2, <1>5, <1>6, <1>7, <1>8, <1>9 DEF DeskNext

LEMMA DeskTypesInit == DeskInit => DeskTypes
  BY DeskAssumption DEF DeskInit, DeskTypes, Unlocked, Admin

\* The log has what WalkStep needs of it, before a step and after.
LEMMA AuditRows == AuditInv => LogRows
  BY DEF AuditInv

LEMMA TypeNow == TypeInv /\ DeskTypes /\ LogRows /\ LockInv /\ WalkInv => TypeOK
  BY DEF TypeInv, DeskTypes, LogRows, LockInv, WalkInv, TypeOK

\* Every table, open request, log entry and list stays well formed; that the count of
\* failures stays within MaxFailed needs the lock (register_failed_login).
THEOREM DeskTyped == DeskSpec => []TypeOK
  <1>1. DeskInit => LockInv
    BY DeskAssumption DEF DeskInit, LockInv, Unlocked
  <1>. QED
    BY <1>1, LockStep, TypeInit, TypeStep, LinksInit, LinksStep, RowsInit, RowsStep, AuditInit,
       AuditStep, AuditRows, DeskTypesInit, DeskTypesStep, WalkInit, WalkStep, TypeNow,
       PTL DEF DeskSpec

\* Reading a list page by page shows every row it had at first, but a store that sold
\* meanwhile and, once a row was deleted, any: rows move away from the reader only
\* (list_stores, list_users, list_audit with LIMIT and OFFSET).
THEOREM WalkComplete == DeskSpec => []WalkSkipsNothing
  <1>1. WalkInv => WalkSkipsNothing
    BY DEF WalkInv, WalkSkipsNothing
  <1>. QED
    BY <1>1, TypeInit, TypeStep, LinksInit, LinksStep, RowsInit, RowsStep, AuditInit, AuditStep,
       AuditRows, WalkInit, WalkStep, PTL DEF DeskSpec
=============================================================================
