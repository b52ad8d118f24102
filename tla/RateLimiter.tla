---------------------------- MODULE RateLimiter ----------------------------
(***************************************************************************)
(* The sliding-window limiter of core/rate_limit.py and its use by the     *)
(* routes of auth/router.py.                                               *)
(*                                                                         *)
(* A request is counted on one or several keys.  hit_many has no await     *)
(* between taking its lock and giving it back, so a call is one step of    *)
(* the event loop; inside it the keys are looked up in turn, and a lookup  *)
(* whose number is a multiple of SweepEvery first deletes the inactive     *)
(* keys, those of the same call included.  LookedUp is the table they      *)
(* leave, in closed form.  A login is counted before its password is       *)
(* verified; a success forgets the counters of the attempt.                *)
(*                                                                         *)
(* Time is counted in ticks, Second of them to a second: the clock reads   *)
(* fractions of a second, Retry-After is in whole ones.                    *)
(*                                                                         *)
(* The window of a key is a constant (each family of keys has its own), so *)
(* that _windows carries nothing beyond the keys of _hits.                 *)
(***************************************************************************)
EXTENDS Integers, FiniteSets, SequencesExt

CONSTANTS
  Keys,        \* keys the routes count on
  Requests,    \* sequences of keys that one call counts together
  Logins,      \* the requests whose success clears their keys
  Limit,       \* Limit[k]: requests allowed in a window
  Window,      \* Window[k]: its length in ticks of the clock
  Second,      \* ticks in a second
  SweepEvery,  \* lookups between two sweeps (_SWEEP_EVERY)
  MaxCalls,    \* bound: number of lookups
  MaxTime      \* bound: ticks of the clock

ASSUME RateLimiterAssumption ==
  /\ Requests \subseteq Seq(Keys)
  /\ \A r \in Requests : Len(r) > 0 /\ IsInjective(r)
  /\ Logins \subseteq Requests
  /\ Limit \in [Keys -> Nat \ {0}]
  /\ Window \in [Keys -> Nat \ {0}]
  /\ Second \in Nat \ {0} /\ SweepEvery \in Nat \ {0}
  /\ MaxCalls \in Nat /\ MaxTime \in Nat

VARIABLES
  now,         \* time.monotonic()
  hits,        \* _hits: times of the counted requests, by key, oldest first
  calls,       \* _calls: number of lookups
  pending,     \* logins counted whose password is being verified
  granted,     \* history: times of the requests let through, by key
  torn,        \* history: times of the requests let through during a sweep
  sweptAt,     \* history: time of the last sweep
  fresh,       \* history: keys looked up from the last sweep on
  retryAt      \* history: when the last refused caller of a key may retry

limiter == <<hits, calls>>
history == <<granted, torn, sweptAt, fresh, retryAt>>
vars == <<now, limiter, pending, history>>

None == [k \in {} |-> <<>>]

Init ==
  /\ now = 0
  /\ hits = None
  /\ calls = 0
  /\ pending = [r \in Logins |-> 0]
  /\ granted = [k \in Keys |-> <<>>]
  /\ torn = <<>>
  /\ sweptAt = 0
  /\ fresh = {}
  /\ retryAt = [k \in Keys |-> 0]

-----------------------------------------------------------------------------
(* The table of hits.                                                      *)

\* The hits that popleft removes: they have left the window that ends now, and
\* so have those before them.
Expired(s, k) == {i \in DOMAIN s : \A j \in 1 .. i : s[j] <= now - Window[k]}

Live(s, k) == SubSeq(s, Cardinality(Expired(s, k)) + 1, Len(s))

\* The deque that a lookup of k finds or makes; a sweep that comes before it in
\* the call takes only deques that the lookup would have emptied.
Found(k) == IF k \in DOMAIN hits THEN Live(hits[k], k) ELSE <<>>

\* Plausible bug: Sweeps forget the expired keys but not the empty ones.
Stale_KeepsEmpty(s, k) == s # <<>> /\ Last(s) <= now - Window[k]

Stale(s, k) == s = <<>> \/ Last(s) <= now - Window[k]

\* The lookups of a request that sweep, and the keys looked up from the i-th on.
SweptIn(r) == {i \in DOMAIN r : (calls + i) % SweepEvery = 0}
LookedUpFrom(r, i) == {r[j] : j \in i .. Len(r)}

\* The table after the lookups of a request: those keys have the deques found, and
\* a sweep has dropped what was stale and not looked up after it.
LookedUp(r) ==
  LET table == [k \in DOMAIN hits \cup Range(r) |->
                  IF k \in Range(r) THEN Found(k) ELSE hits[k]]
      Swept(k) == /\ Stale(table[k], k)
                  /\ \E i \in SweptIn(r) : k \notin LookedUpFrom(r, i)
  IN Restrict(table, {k \in DOMAIN table : ~Swept(k)})

\* Plausible bug: One request too many.
Full_OffByOne(r) == {i \in DOMAIN r : Len(Found(r[i])) > Limit[r[i]]}

\* The keys of a request that have no room, by their place in it.
Full(r) == {i \in DOMAIN r : Len(Found(r[i])) >= Limit[r[i]]}

\* Plausible bug: Hits are counted at the front of the deque.
Count_Front(table, r) ==
  [k \in DOMAIN table |-> IF k \in Range(r) THEN <<now>> \o table[k] ELSE table[k]]

\* The deques found are extended, those a sweep dropped from the table for nothing.
Count(table, r) ==
  [k \in DOMAIN table |-> IF k \in Range(r) THEN Append(table[k], now) ELSE table[k]]

\* Plausible bug: Retry-After rounded down instead of up.
RetryAfter_Floor(k) == Max({1, (Found(k)[1] + Window[k] - now) \div Second})

\* math.ceil(retry_after), in seconds.
RetryAfter(k) == Max({1, (Found(k)[1] + Window[k] - now + Second - 1) \div Second})

\* What every call does: number its lookups, sweep when it is time.
Look(r) ==
  /\ calls + Len(r) <= MaxCalls
  /\ calls' = calls + Len(r)
  /\ sweptAt' = IF SweptIn(r) = {} THEN sweptAt ELSE now
  /\ fresh' = {k \in Range(r) : \A i \in SweptIn(r) : k \in LookedUpFrom(r, i)}
              \cup IF SweptIn(r) = {} THEN fresh ELSE {}
  /\ UNCHANGED now

-----------------------------------------------------------------------------
(* The calls of the routes.                                                *)

\* hit_many: every key has room, the request is counted and goes on.
Grant(r) ==
  /\ Look(r)
  /\ Full(r) = {}
  /\ hits' = Count(LookedUp(r), r)
  /\ pending' = IF r \in Logins THEN [pending EXCEPT ![r] = @ + 1] ELSE pending
  /\ granted' = [k \in Keys |->
                   IF k \in Range(r) THEN Append(granted[k], now) ELSE granted[k]]
  /\ torn' = IF SweptIn(r) \subseteq {1} THEN torn ELSE Append(torn, now)
  /\ retryAt' = [k \in Keys |-> IF k \in Range(r) THEN 0 ELSE retryAt[k]]

\* hit_many: the first full key refuses the request with a Retry-After.
Refuse(r) ==
  /\ Look(r)
  /\ hits' = LookedUp(r)
  /\ \E i \in Full(r) :
       /\ \A j \in Full(r) : i <= j
       /\ retryAt' = [retryAt EXCEPT ![r[i]] = now + Second * RetryAfter(r[i])]
  /\ UNCHANGED <<pending, granted, torn>>

\* The password was right: clear forgets each key of the attempt.  The two
\* calls find the lock free, so nothing runs between them.
Succeed(r) ==
  /\ pending[r] > 0
  /\ pending' = [pending EXCEPT ![r] = @ - 1]
  /\ hits' = Restrict(hits, DOMAIN hits \ Range(r))
  /\ granted' = [k \in Keys |-> IF k \in Range(r) THEN <<>> ELSE granted[k]]
  /\ UNCHANGED <<now, calls, torn, sweptAt, fresh, retryAt>>

\* The password was wrong, or the verification failed: the attempt stays counted.
Fail(r) ==
  /\ pending[r] > 0
  /\ pending' = [pending EXCEPT ![r] = @ - 1]
  /\ UNCHANGED <<now, limiter, history>>

Tick ==
  /\ now < MaxTime
  /\ now' = now + 1
  /\ UNCHANGED <<limiter, pending, history>>

Next ==
  \/ \E r \in Requests : Grant(r) \/ Refuse(r)
  \/ \E r \in Logins : Succeed(r) \/ Fail(r)
  \/ Tick

Spec == Init /\ [][Next]_vars
-----------------------------------------------------------------------------
(* Properties.                                                             *)

\* The times in s after t.
After(s, t) == {i \in DOMAIN s : s[i] > t}

\* Requests of the window that ends now: those the limiter holds against k, those
\* it let through, and those it let through during a sweep.
Counted(k) == IF k \in DOMAIN hits THEN Cardinality(After(hits[k], now - Window[k])) ELSE 0
LetThrough(k) == Cardinality(After(granted[k], now - Window[k]))
Torn(k) == Cardinality(After(torn, now - Window[k]))

\* The type invariant.  Hits are in the order of time, which popleft needs.
TypeOK ==
  /\ now \in 0 .. MaxTime /\ calls \in 0 .. MaxCalls /\ sweptAt \in 0 .. now
  /\ DOMAIN hits \subseteq Keys
  /\ \A k \in DOMAIN hits :
       /\ hits[k] \in Seq(0 .. now)
       /\ \A i \in 2 .. Len(hits[k]) : hits[k][i - 1] <= hits[k][i]
  /\ pending \in [Logins -> Nat]
  /\ granted \in [Keys -> Seq(0 .. now)]
  /\ torn \in Seq(0 .. now)
  /\ fresh \subseteq Keys
  /\ retryAt \in [Keys -> Nat]

\* No window of a key lets through more requests than its limit, apart from
\* one for each request that a sweep fell into, and nothing is held against a
\* key but requests let through: those another key refused count nowhere
\* (rate_limit.py 41-58).
LimitHolds ==
  \A k \in Keys : /\ LetThrough(k) <= Limit[k] + Torn(k)
                  /\ Counted(k) <= LetThrough(k)

\* A caller who waits as long as Retry-After says finds room on the key that
\* refused it, unless others were let through since (_raise_if_full 77-81).
RetryAfterIsEnough ==
  \A k \in Keys : retryAt[k] # 0 /\ now >= retryAt[k] => Counted(k) < Limit[k]

\* "borne la mémoire" (line 19): a key that was inactive at the last sweep is
\* forgotten, unless it was looked up since, so that the table holds no more than
\* SweepEvery keys besides the active ones.
SweepForgets ==
  {k \in DOMAIN hits : hits[k] = <<>> \/ Last(hits[k]) <= sweptAt - Window[k]}
    \subseteq fresh

=============================================================================
