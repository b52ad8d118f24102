---------------------------- MODULE MCBackOffice -----------------------------
(***************************************************************************)
(* u1 has a verified address and a store, u2 a store and an address that    *)
(* nobody verified, u3 comes from before default stores and addresses, u4   *)
(* registers.  u2 may take the address u4 registers with.                   *)
(***************************************************************************)
EXTENDS AdminDesk, TLC

CONSTANTS u1, u2, u3, u4, p1, p2, p3, p4, e1, e2, e4, x, y

Account(phone, email, verified) ==
    [phone |-> phone, email |-> email, verified |-> verified, password |-> x, created |-> 0]

Merchants ==
    u1 :> [account |-> Account(p1, e1, TRUE), tenant |-> TRUE] @@
    u2 :> [account |-> Account(p2, e2, FALSE), tenant |-> TRUE] @@
    u3 :> [account |-> Account(p3, None, FALSE), tenant |-> FALSE]

By(route, u) == [route |-> route, user |-> u]

Login(phone, password) == [route |-> "login", phone |-> phone, password |-> password]

Forgot(email) == [route |-> "forgot", email |-> email]

NewEmail(u, email) == [route |-> "email", user |-> u, email |-> email, password |-> x]

Registration == [route |-> "register", id |-> u4, phone |-> p4, email |-> e4, password |-> x]

Suspension(on) == [route |-> "suspend", store |-> u1, on |-> on]

Deletion == [route |-> "delete", user |-> u2, password |-> x]

\* What sends a link or changes an address.
LinkPool == {Forgot(e1), By("resend", u2), NewEmail(u2, e4), Registration, Deletion}

LinkDesk == {By("supportLink", u1)}

\* And what sells or asks for a token; suspensions, and logins of the administrator
\* or of who guesses his password.
MerchantPool == LinkPool \cup
    {Login(p1, x), By("refresh", u1), By("write", u1), By("open", u3)}

DeskPool == LinkDesk \cup {Suspension(TRUE), Suspension(FALSE)} \cup
    [route: {"adminLogin"}, good: BOOLEAN]

\* The ids are drawn: those of the stores are in another order.
Ids == [users |-> u1 :> 1 @@ u2 :> 2 @@ u3 :> 3 @@ u4 :> 4,
        stores |-> u1 :> 4 @@ u2 :> 3 @@ u3 :> 2 @@ u4 :> 1]

WorkerSymmetry == Permutations(Workers)
==============================================================================
