--------------------------- MODULE MCRateLimiter ---------------------------
(* Logins to one account from two addresses: each is counted on the pair of    *)
(* address and number and on the number.  A third key, with a limit of one, is *)
(* counted alone, over a shorter window, as the routes do with an address.     *)
EXTENDS RateLimiter

CONSTANTS ip, pairA, pairB, phone

MCRequests == {<<ip>>, <<pairA, phone>>, <<pairB, phone>>}
MCLogins   == {<<pairA, phone>>, <<pairB, phone>>}
MCLimit    == [k \in Keys |-> CASE k = ip -> 1 [] OTHER -> 2]
MCWindow   == [k \in Keys |-> IF k = ip THEN 2 ELSE 4]

=============================================================================
