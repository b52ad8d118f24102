-------------------------- MODULE RateLimiterProofs --------------------------
(***************************************************************************)
(* Proofs about RateLimiter, for any keys, requests, limits, windows and   *)
(* any distance between two sweeps.                                        *)
(*                                                                         *)
(* The properties count the requests of the window that ends now.  The     *)
(* invariant counts those after any time not before that window: the       *)
(* window only moves forward, so that what it says stays said.             *)
(***************************************************************************)
EXTENDS RateLimiter, FiniteSetTheorems, SequenceTheorems, TLAPS

\* Times up to t, oldest first.
Times(t) == {s \in Seq(0 .. t) : \A i, j \in DOMAIN s : i <= j => s[i] <= s[j]}

\* The deque of k in a table.
Of(table, k) == IF k \in DOMAIN table THEN table[k] ELSE <<>>

LEMMA Constants ==
  /\ \A r \in Requests : /\ r \in Seq(Keys) /\ Len(r) > 0 /\ DOMAIN r = 1 .. Len(r)
                         /\ Range(r) = {r[i] : i \in 1 .. Len(r)} /\ Range(r) \subseteq Keys
                         /\ \A i, j \in 1 .. Len(r) : r[i] = r[j] => i = j
  /\ \A k \in Keys : Limit[k] \in Nat \ {0} /\ Window[k] \in Nat \ {0}
  /\ Second \in Nat \ {0}
  BY RateLimiterAssumption DEF Range, IsInjective

-----------------------------------------------------------------------------
(* Counting the times in a sequence.                                       *)

LEMMA UpTo ==
  ASSUME NEW n \in Nat
  PROVE  IsFiniteSet(1 .. n) /\ Cardinality(1 .. n) = n
  BY FS_Interval

LEMMA AfterFinite ==
  ASSUME NEW s \in Seq(Int), NEW t \in Int
  PROVE  /\ IsFiniteSet(After(s, t)) /\ After(s, t) \subseteq 1 .. Len(s)
         /\ Cardinality(After(s, t)) \in Nat
         /\ Cardinality(After(s, t)) <= Len(s)
  <1>1. After(s, t) \in SUBSET (1 .. Len(s))
    BY DEF After
  <1>2. PICK n \in Nat : n = Len(s)
    OBVIOUS
  <1>3. IsFiniteSet(1 .. n) /\ Cardinality(1 .. n) = n
    BY UpTo
  <1>4. IsFiniteSet(After(s, t)) /\ Cardinality(After(s, t)) <= n
    BY <1>1, <1>2, <1>3, FS_Subset
  <1> QED  BY <1>1, <1>2, <1>4, FS_CardinalityType

\* No time of the empty sequence is after t.
LEMMA AfterEmpty ==
  ASSUME NEW t \in Int
  PROVE  Cardinality(After(<<>>, t)) = 0
  <1>1. After(<<>>, t) = {}
    BY DEF After
  <1> QED  BY <1>1, FS_EmptySet

\* The later t, the fewer.
LEMMA AfterFewer ==
  ASSUME NEW s \in Seq(Int), NEW t \in Int, NEW u \in Int, t <= u
  PROVE  Cardinality(After(s, u)) <= Cardinality(After(s, t))
  <1>1. After(s, u) \in SUBSET After(s, t)
    BY DEF After
  <1> QED  BY <1>1, AfterFinite, FS_Subset

\* A time more, which counts if it is after t.
LEMMA AfterAppend ==
  ASSUME NEW s \in Seq(Int), NEW t \in Int, NEW u \in Int
  PROVE  Cardinality(After(Append(s, u), t))
           = Cardinality(After(s, t)) + (IF u > t THEN 1 ELSE 0)
  <1>1. PICK n \in Nat : n = Len(s)
    OBVIOUS
  <1>2. /\ Append(s, u) \in Seq(Int) /\ DOMAIN Append(s, u) = 1 .. (n + 1) /\ DOMAIN s = 1 .. n
        /\ Append(s, u)[n + 1] = u
        /\ \A i \in 1 .. n : Append(s, u)[i] = s[i]
    BY <1>1
  <1>3. n + 1 \notin After(s, t)
    BY <1>1, AfterFinite
  <1>4. CASE u > t
    <2>1. After(Append(s, u), t) = After(s, t) \cup {n + 1}
      BY <1>2, <1>4 DEF After
    <2> QED BY <1>3, <1>4, <2>1, AfterFinite, FS_AddElement
  <1>5. CASE ~(u > t)
    <2>1. After(Append(s, u), t) = After(s, t)
      BY <1>2, <1>5 DEF After
    <2> QED BY <1>5, <2>1, AfterFinite
  <1> QED  BY <1>4, <1>5

LEMMA InAfter ==
  ASSUME NEW s \in Seq(Int), NEW t \in Int, NEW i
  PROVE  i \in After(s, t) <=> i \in 1 .. Len(s) /\ s[i] > t
  <1>1. DOMAIN s = 1 .. Len(s)
    OBVIOUS
  <1> QED  BY <1>1 DEF After

\* All but the first of the times after t, when the first is not.
LEMMA AfterFirst ==
  ASSUME NEW s \in Seq(Int), NEW t \in Int, Len(s) > 0, s[1] <= t
  PROVE  Cardinality(After(s, t)) < Len(s)
  <1>1. PICK n \in Nat : n = Len(s)
    OBVIOUS
  <1>2. 1 \notin After(s, t) /\ After(s, t) \cup {1} \in SUBSET (1 .. n)
    BY <1>1 DEF After
  <1>3. IsFiniteSet(1 .. n) /\ Cardinality(1 .. n) = n
    BY UpTo
  <1>4. Cardinality(After(s, t) \cup {1}) <= n
    BY <1>2, <1>3, FS_Subset
  <1>5. Cardinality(After(s, t) \cup {1}) = Cardinality(After(s, t)) + 1
    BY <1>2, AfterFinite, FS_AddElement
  <1> QED  BY <1>1, <1>4, <1>5, AfterFinite

\* The times after t of a sequence and of what is left without its first n: no
\* more, and as many if those n are not after t.
LEMMA AfterSuffix ==
  ASSUME NEW s \in Seq(Int), NEW n \in 0 .. Len(s), NEW u \in Seq(Int),
         Len(u) = Len(s) - n, \A i \in 1 .. Len(u) : u[i] = s[n + i], NEW t \in Int
  PROVE  /\ Cardinality(After(u, t)) <= Cardinality(After(s, t))
         /\ (\A i \in 1 .. n : s[i] <= t) => Cardinality(After(u, t)) = Cardinality(After(s, t))
  <1> DEFINE kept == {i \in After(s, t) : i > n}
             shift == [i \in After(u, t) |-> n + i]
  <1>1. kept \in SUBSET After(s, t) /\ IsFiniteSet(kept)
    BY AfterFinite, FS_Subset
  <1>2. shift \in [After(u, t) -> kept]
    <2>1. ASSUME NEW i \in After(u, t) PROVE n + i \in kept
      <3>1. i \in 1 .. Len(u) /\ u[i] > t
        BY <2>1, InAfter, Zenon
      <3>2. PICK m \in Nat : m = Len(s)
        OBVIOUS
      <3>3. u[i] = s[n + i]
        BY <3>1
      <3>4. n + i \in 1 .. m /\ n + i > n
        BY <3>1, <3>2
      <3>5. n + i \in After(s, t)
        BY <3>1, <3>2, <3>3, <3>4, InAfter
      <3> QED BY <3>4, <3>5
    <2> QED BY <2>1
  <1>3. \A i, j \in After(u, t) : shift[i] = shift[j] => i = j
    BY DEF After
  <1>4. \A m \in kept : \E i \in After(u, t) : shift[i] = m
    <2> SUFFICES ASSUME NEW m \in kept PROVE \E i \in After(u, t) : shift[i] = m
      OBVIOUS
    <2>1. m \in 1 .. Len(s) /\ m > n /\ s[m] > t
      BY InAfter
    <2>2. PICK i \in Int : i = m - n
      BY <2>1
    <2>3. i \in 1 .. Len(u) /\ u[i] = s[m]
      BY <2>1, <2>2
    <2>4. i \in After(u, t)
      BY <2>1, <2>3, InAfter
    <2> QED BY <2>1, <2>2, <2>4
  <1>5. shift \in Bijection(After(u, t), kept)
    BY <1>2, <1>3, <1>4 DEF Bijection, Injection, Surjection, IsInjective
  <1>6. Cardinality(After(u, t)) = Cardinality(kept)
    BY <1>5, AfterFinite, FS_Bijection DEF ExistsBijection
  <1>7. Cardinality(kept) <= Cardinality(After(s, t))
    BY <1>1, AfterFinite, FS_Subset
  <1>8. (\A i \in 1 .. n : s[i] <= t) => kept = After(s, t)
    BY DEF After
  <1> QED  BY <1>6, <1>7, <1>8

-----------------------------------------------------------------------------
(* The deque of a key.                                                     *)

LEMMA TimesType ==
  ASSUME NEW t \in Nat, NEW s \in Times(t)
  PROVE  /\ s \in Seq(0 .. t) /\ s \in Seq(Int) /\ DOMAIN s = 1 .. Len(s) /\ Len(s) \in Nat
         /\ \A i \in 1 .. Len(s) : s[i] \in 0 .. t
         /\ \A i, j \in 1 .. Len(s) : i <= j => s[i] <= s[j]
  BY DEF Times

\* A deque whose times are in order stays in order when the clock moves, and when
\* the time of the clock is added.
LEMMA TimesGrow ==
  ASSUME NEW t \in Nat, NEW s \in Times(t)
  PROVE  s \in Times(t + 1) /\ Append(s, t) \in Times(t)
  <1>1. PICK n \in Nat : n = Len(s)
    BY TimesType
  <1>2. /\ s \in Seq(0 .. t) /\ DOMAIN s = 1 .. n
        /\ \A i \in 1 .. n : s[i] \in 0 .. t
        /\ \A i, j \in 1 .. n : i <= j => s[i] <= s[j]
    BY <1>1, TimesType
  <1>3. s \in Seq(0 .. t + 1)
    BY <1>1, <1>2
  <1>4. /\ Append(s, t) \in Seq(0 .. t) /\ DOMAIN Append(s, t) = 1 .. (n + 1)
        /\ \A i \in 1 .. n : Append(s, t)[i] = s[i]
        /\ Append(s, t)[n + 1] = t
    BY <1>1, <1>2
  <1>5. \A i, j \in 1 .. (n + 1) : i <= j => Append(s, t)[i] <= Append(s, t)[j]
    BY <1>2, <1>4
  <1> QED  BY <1>2, <1>3, <1>4, <1>5 DEF Times

LEMMA NoTimes ==
  ASSUME NEW t \in Nat
  PROVE  <<>> \in Times(t)
  BY DEF Times

\* popleft takes the hits that have left the window and no other: as the hits are
\* in order they are the first ones.
LEMMA LiveIs ==
  ASSUME now \in Nat, NEW k \in Keys, NEW s \in Times(now)
  PROVE  \E n \in 0 .. Len(s) :
           /\ Live(s, k) \in Times(now) /\ Len(Live(s, k)) = Len(s) - n
           /\ \A i \in 1 .. Len(s) - n : Live(s, k)[i] = s[n + i]
           /\ \A i \in 1 .. n : s[i] <= now - Window[k]
           /\ \A i \in (n + 1) .. Len(s) : s[i] > now - Window[k]
  <1>1. PICK m \in Nat : m = Len(s)
    BY TimesType
  <1>2. PICK w \in Int : w = now - Window[k]
    BY Constants
  <1>3. /\ s \in Seq(0 .. now) /\ DOMAIN s = 1 .. m
        /\ \A i \in 1 .. m : s[i] \in 0 .. now
        /\ \A i, j \in 1 .. m : i <= j => s[i] <= s[j]
    BY <1>1, TimesType
  <1>4. PICK E : E = Expired(s, k)
    OBVIOUS
  <1>5. E = {i \in 1 .. m : s[i] <= w}
    BY <1>2, <1>3, <1>4 DEF Expired
  <1>6. IsFiniteSet(1 .. m)
    BY UpTo
  <1>7. PICK n \in Nat : n = Cardinality(E)
    BY <1>5, <1>6, FS_Subset, FS_CardinalityType
  <1>8. E = 1 .. n
    <2>1. \A i \in E : i <= n
      <3> SUFFICES ASSUME NEW i \in E PROVE i <= n
        OBVIOUS
      <3>1. i \in Nat /\ 1 .. i \in SUBSET E
        BY <1>3, <1>5
      <3>2. IsFiniteSet(E)
        BY <1>5, <1>6, FS_Subset
      <3>3. Cardinality(1 .. i) = i
        BY <3>1, UpTo
      <3> QED BY <1>7, <3>1, <3>2, <3>3, FS_Subset
    <2>2. E \in SUBSET (1 .. n)
      BY <1>5, <2>1
    <2>3. IsFiniteSet(1 .. n) /\ Cardinality(1 .. n) = n
      BY UpTo
    <2> QED BY <1>7, <2>2, <2>3, FS_Subset
  <1>9. n \in 0 .. m /\ (\A i \in 1 .. n : s[i] <= w) /\ \A i \in (n + 1) .. m : s[i] > w
    <2>1. n \in 0 .. m
      <3>1. CASE n = 0
        BY <3>1
      <3>2. CASE n # 0
        <4>1. n \in E
          BY <1>8, <3>2
        <4> QED BY <1>5, <4>1
      <3> QED BY <3>1, <3>2
    <2>2. \A i \in 1 .. n : s[i] <= w
      BY <1>5, <1>8
    <2>3. ASSUME NEW i \in (n + 1) .. m PROVE s[i] > w
      <3>1. i \in 1 .. m /\ i \notin E
        BY <1>8, <2>1
      <3> QED BY <1>3, <1>5, <3>1
    <2> QED BY <2>1, <2>2, <2>3
  <1>10. Live(s, k) = SubSeq(s, n + 1, m)
    BY <1>1, <1>4, <1>7 DEF Live
  <1>11. PICK u : u = SubSeq(s, n + 1, m)
    OBVIOUS
  <1>12. u \in Seq(0 .. now) /\ Len(u) = m - n /\ \A i \in 1 .. m - n : u[i] = s[n + i]
    <2>1. \A i \in n + 1 .. m : s[i] \in 0 .. now
      BY <1>3, <1>9
    <2>2. /\ u \in Seq(0 .. now) /\ Len(u) = IF n + 1 <= m THEN m - (n + 1) + 1 ELSE 0
          /\ \A i \in 1 .. m - (n + 1) + 1 : u[i] = s[(n + 1) + i - 1]
      BY <1>11, <2>1, SubSeqProperties
    <2>3. Len(u) = m - n
      BY <1>9, <2>2
    <2>4. ASSUME NEW i \in 1 .. m - n PROVE u[i] = s[n + i]
      <3>1. n \in Int /\ m \in Int /\ i \in Int
        BY <1>9
      <3>2. i \in 1 .. m - (n + 1) + 1 /\ (n + 1) + i - 1 = n + i
        BY <3>1
      <3> QED BY <2>2, <3>2
    <2> QED BY <2>2, <2>3, <2>4
  <1>13. u \in Times(now)
    <2>1. DOMAIN u = 1 .. m - n
      BY <1>12
    <2>2. ASSUME NEW i \in 1 .. m - n, NEW j \in 1 .. m - n, i <= j PROVE u[i] <= u[j]
      <3>1. n + i \in 1 .. m /\ n + j \in 1 .. m /\ n + i <= n + j
        BY <1>9, <2>2
      <3> QED BY <1>3, <1>12, <3>1
    <2> QED BY <1>12, <2>1, <2>2 DEF Times
  <1> QED  BY <1>1, <1>2, <1>9, <1>10, <1>11, <1>12, <1>13

\* What a lookup leaves of a deque: no more hits after any time, as many after a
\* time of the window, all of them in the window.
LEMMA LiveCounts ==
  ASSUME now \in Nat, NEW k \in Keys, NEW s \in Times(now), NEW t \in Int
  PROVE  /\ Cardinality(After(Live(s, k), t)) <= Cardinality(After(s, t))
         /\ t >= now - Window[k] =>
              Cardinality(After(Live(s, k), t)) = Cardinality(After(s, t))
         /\ Cardinality(After(s, now - Window[k])) = Len(Live(s, k))
         /\ Live(s, k) \in Times(now)
         /\ \A i \in 1 .. Len(Live(s, k)) : Live(s, k)[i] > now - Window[k]
  <1>1. PICK u : u = Live(s, k)
    OBVIOUS
  <1>2. PICK w \in Int : w = now - Window[k]
    BY Constants
  <1>3. PICK n \in 0 .. Len(s) :
           /\ u \in Times(now) /\ Len(u) = Len(s) - n
           /\ \A i \in 1 .. Len(s) - n : u[i] = s[n + i]
           /\ \A i \in 1 .. n : s[i] <= w
           /\ \A i \in (n + 1) .. Len(s) : s[i] > w
    BY <1>1, <1>2, LiveIs
  <1>4. /\ s \in Seq(Int) /\ u \in Seq(Int) /\ Len(s) \in Nat /\ Len(u) \in Nat
        /\ DOMAIN u = 1 .. Len(u) /\ \A i \in 1 .. n : s[i] \in Int
    BY <1>3, TimesType
  <1>5. ASSUME NEW x \in Int
        PROVE  /\ Cardinality(After(u, x)) <= Cardinality(After(s, x))
               /\ x >= w => Cardinality(After(u, x)) = Cardinality(After(s, x))
    <2>1. x >= w => \A i \in 1 .. n : s[i] <= x
      BY <1>3, <1>4
    <2> QED BY <1>3, <1>4, <2>1, AfterSuffix
  <1>6. \A i \in 1 .. Len(u) : u[i] > w
    <2> SUFFICES ASSUME NEW i \in 1 .. Len(u) PROVE u[i] > w
      OBVIOUS
    <2>1. n + i \in (n + 1) .. Len(s) /\ i \in 1 .. Len(s) - n
      BY <1>3, <1>4
    <2> QED BY <1>3, <2>1
  <1>7. After(u, w) = 1 .. Len(u)
    BY <1>4, <1>6 DEF After
  <1>8. Cardinality(After(u, w)) = Len(u)
    BY <1>4, <1>7, UpTo
  <1>9. Cardinality(After(s, w)) = Len(u)
    BY <1>5, <1>8
  <1> QED  BY <1>1, <1>2, <1>3, <1>5, <1>6, <1>9

\* A deque that a sweep drops holds nothing against its key.
LEMMA StaleEmpty ==
  ASSUME now \in Nat, NEW k \in Keys, NEW s \in Times(now), Stale(s, k),
         NEW t \in Int, t >= now - Window[k]
  PROVE  Cardinality(After(s, t)) = 0
  <1>1. CASE s = <<>>
    BY <1>1, AfterEmpty
  <1>2. CASE s # <<>>
    <2>1. PICK n \in Nat : n = Len(s)
      BY TimesType
    <2>2. PICK w \in Int : w = now - Window[k]
      BY Constants
    <2>3. n \in 1 .. n /\ s[n] <= w
      <3>1. s \in Seq(Int) /\ n # 0
        BY <1>2, <2>1, TimesType
      <3>2. Last(s) = s[n]
        BY <2>1 DEF Last
      <3> QED BY <1>2, <2>1, <2>2, <3>1, <3>2 DEF Stale
    <2>4. ASSUME NEW i \in 1 .. n PROVE s[i] <= t
      <3>1. s[i] <= s[n] /\ s[i] \in Int /\ s[n] \in Int
        BY <2>1, <2>3, TimesType
      <3> QED BY <2>2, <2>3, <3>1
    <2>5. After(s, t) = {}
      <3>1. DOMAIN s = 1 .. n /\ \A i \in 1 .. n : s[i] \in Int
        BY <2>1, TimesType
      <3> QED BY <2>4, <3>1 DEF After
    <2> QED BY <2>5, FS_EmptySet
  <1> QED  BY <1>1, <1>2

-----------------------------------------------------------------------------
(* The invariant.                                                          *)

Held(k, t) == Cardinality(After(Of(hits, k), t))

Typed ==
  /\ now \in 0 .. MaxTime /\ calls \in 0 .. MaxCalls /\ sweptAt \in 0 .. now
  /\ DOMAIN hits \subseteq Keys
  /\ \A k \in DOMAIN hits : hits[k] \in Times(now)
  /\ pending \in [Logins -> Nat]
  /\ granted \in [Keys -> Times(now)]
  /\ torn \in Times(now)
  /\ fresh \subseteq Keys
  /\ retryAt \in [Keys -> Nat]

\* After any time of the window, what is held against a key was let through, and
\* what was let through is held against it or was torn by a sweep.
Tallied ==
  \A k \in Keys : \A t \in Int : t >= now - Window[k] =>
    /\ Held(k, t) <= Cardinality(After(granted[k], t))
    /\ Cardinality(After(granted[k], t)) <= Held(k, t) + Cardinality(After(torn, t))

\* What is held against a key is within its limit, now and, once the caller whom it
\* refused may come back, with room for him.
WithinLimit == \A k \in Keys : Held(k, now - Window[k]) <= Limit[k]

RoomLater == \A k \in Keys : retryAt[k] # 0 => Held(k, retryAt[k] - Window[k]) < Limit[k]

RateInv == Typed /\ Tallied /\ WithinLimit /\ RoomLater /\ SweepForgets

LEMMA OfType ==
  ASSUME Typed, NEW k \in Keys
  PROVE  Of(hits, k) \in Times(now) /\ now \in Nat
  BY NoTimes DEF Typed, Of

-----------------------------------------------------------------------------
(* The lookups of a call.                                                  *)

LEMMA FoundIs ==
  ASSUME Typed, NEW k \in Keys
  PROVE  /\ Found(k) \in Times(now)
         /\ Held(k, now - Window[k]) = Len(Found(k))
         /\ \A i \in 1 .. Len(Found(k)) : Found(k)[i] > now - Window[k]
         /\ \A t \in Int : /\ Cardinality(After(Found(k), t)) <= Held(k, t)
                           /\ t >= now - Window[k] => Cardinality(After(Found(k), t)) = Held(k, t)
  <1>1. now \in Nat /\ now - Window[k] \in Int
    BY OfType, Constants
  <1>2. CASE k \in DOMAIN hits
    <2>1. Found(k) = Live(hits[k], k) /\ Of(hits, k) = hits[k] /\ hits[k] \in Times(now)
      BY <1>2 DEF Found, Of, Typed
    <2> QED BY <1>1, <2>1, LiveCounts DEF Held
  <1>3. CASE k \notin DOMAIN hits
    <2>1. Found(k) = <<>> /\ Of(hits, k) = <<>>
      BY <1>3 DEF Found, Of
    <2>2. \A t \in Int : Cardinality(After(<<>>, t)) = 0
      BY AfterEmpty
    <2> QED BY <1>1, <2>1, <2>2, NoTimes DEF Held
  <1> QED  BY <1>2, <1>3

\* Some sweep of the call comes after the last lookup of k in it.
SweptAfter(r, k) == \E i \in SweptIn(r) : k \notin LookedUpFrom(r, i)

LEMMA LookedUpIs ==
  ASSUME Typed, NEW r \in Requests
  PROVE  /\ DOMAIN LookedUp(r) \subseteq DOMAIN hits \cup Range(r)
         /\ DOMAIN LookedUp(r) \subseteq Keys
         /\ \A k \in DOMAIN LookedUp(r) :
              /\ LookedUp(r)[k] = IF k \in Range(r) THEN Found(k) ELSE hits[k]
              /\ LookedUp(r)[k] \in Times(now)
              /\ SweptAfter(r, k) => ~Stale(LookedUp(r)[k], k)
         /\ \A k \in (DOMAIN hits \cup Range(r)) \ DOMAIN LookedUp(r) :
              /\ SweptAfter(r, k)
              /\ Stale(IF k \in Range(r) THEN Found(k) ELSE hits[k], k)
  <1> DEFINE table == [k \in DOMAIN hits \cup Range(r) |->
                         IF k \in Range(r) THEN Found(k) ELSE hits[k]]
             left == {k \in DOMAIN hits \cup Range(r) : ~(Stale(table[k], k) /\ SweptAfter(r, k))}
  <1>1. LookedUp(r) = [k \in left |-> table[k]]
    BY DEF LookedUp, Restrict, SweptAfter
  <1>2. DOMAIN hits \cup Range(r) \subseteq Keys
    BY Constants DEF Typed
  <1>3. ASSUME NEW k \in DOMAIN hits \cup Range(r) PROVE table[k] \in Times(now)
    BY <1>2, <1>3, FoundIs DEF Typed
  <1>4. DOMAIN LookedUp(r) = left /\ \A k \in left : LookedUp(r)[k] = table[k]
    BY <1>1
  <1> QED  BY <1>2, <1>3, <1>4

\* The lookups of a call change nothing in what is held against a key in its
\* window, and only take away from what was held before.
LEMMA LookupKeeps ==
  ASSUME Typed, NEW r \in Requests, NEW k \in Keys, NEW t \in Int
  PROVE  /\ Of(LookedUp(r), k) \in Times(now)
         /\ Cardinality(After(Of(LookedUp(r), k), t)) <= Held(k, t)
         /\ t >= now - Window[k] => Cardinality(After(Of(LookedUp(r), k), t)) = Held(k, t)
  <1>1. now \in Nat /\ Of(hits, k) \in Times(now) /\ Of(hits, k) \in Seq(Int) /\ now - Window[k] \in Int
    BY OfType, TimesType, Constants
  <1>2. Held(k, t) \in Nat
    BY <1>1, AfterFinite DEF Held
  <1>3. Cardinality(After(<<>>, t)) = 0 /\ <<>> \in Times(now)
    BY <1>1, AfterEmpty, NoTimes
  <1>4. CASE k \in DOMAIN LookedUp(r) /\ k \in Range(r)
    <2>1. Of(LookedUp(r), k) = Found(k)
      BY <1>4, LookedUpIs DEF Of
    <2> QED BY <2>1, FoundIs
  <1>5. CASE k \in DOMAIN LookedUp(r) /\ k \notin Range(r)
    <2>1. Of(LookedUp(r), k) = Of(hits, k)
      BY <1>5, LookedUpIs DEF Of
    <2> QED BY <1>1, <1>2, <2>1 DEF Held
  <1>6. CASE k \notin DOMAIN LookedUp(r) /\ k \in Range(r)
    <2>1. Of(LookedUp(r), k) = <<>> /\ Stale(Found(k), k)
      BY <1>6, LookedUpIs DEF Of
    <2>2. t >= now - Window[k] => Cardinality(After(Found(k), t)) = 0
      BY <1>1, <2>1, StaleEmpty, FoundIs
    <2> QED BY <1>2, <1>3, <2>1, <2>2, FoundIs
  <1>7. CASE k \notin DOMAIN LookedUp(r) /\ k \notin Range(r) /\ k \in DOMAIN hits
    <2>1. Of(LookedUp(r), k) = <<>> /\ Stale(Of(hits, k), k)
      BY <1>7, LookedUpIs DEF Of
    <2>2. t >= now - Window[k] => Held(k, t) = 0
      BY <1>1, <2>1, StaleEmpty DEF Held
    <2> QED BY <1>2, <1>3, <2>1, <2>2
  <1>8. CASE k \notin DOMAIN LookedUp(r) /\ k \notin DOMAIN hits
    <2>1. Of(LookedUp(r), k) = <<>> /\ Of(hits, k) = <<>>
      BY <1>8 DEF Of
    <2> QED BY <1>3, <2>1 DEF Held
  <1> QED  BY <1>4, <1>5, <1>6, <1>7, <1>8

\* The keys of a call that no sweep followed are fresh.
LEMMA LookIs ==
  ASSUME Typed, NEW r \in Requests, Look(r)
  PROVE  /\ now' = now /\ calls' \in 0 .. MaxCalls /\ sweptAt' \in 0 .. now
         /\ fresh' \subseteq Keys
         /\ \A k \in Range(r) : ~SweptAfter(r, k) => k \in fresh'
         /\ SweptIn(r) = {} => sweptAt' = sweptAt /\ fresh \subseteq fresh'
         /\ SweptIn(r) # {} => sweptAt' = now
  <1>1. now \in Nat /\ sweptAt \in 0 .. now /\ calls \in 0 .. MaxCalls /\ fresh \subseteq Keys
        /\ MaxCalls \in Nat
    BY RateLimiterAssumption DEF Typed
  <1>2. Len(r) \in Nat /\ Range(r) \subseteq Keys
    BY Constants
  <1>3. /\ now' = now /\ calls + Len(r) <= MaxCalls /\ calls' = calls + Len(r)
        /\ sweptAt' = IF SweptIn(r) = {} THEN sweptAt ELSE now
        /\ fresh' = {k \in Range(r) : \A i \in SweptIn(r) : k \in LookedUpFrom(r, i)}
                    \cup IF SweptIn(r) = {} THEN fresh ELSE {}
    BY DEF Look
  <1>4. \A k \in Range(r) : ~SweptAfter(r, k) => k \in fresh'
    BY <1>3 DEF SweptAfter
  <1> QED  BY <1>1, <1>2, <1>3, <1>4

\* A sweep forgets the inactive keys that it does not find looked up after it.
LEMMA LookForgets ==
  ASSUME Typed, SweepForgets, NEW r \in Requests, Look(r),
         NEW k \in DOMAIN LookedUp(r), k \notin fresh'
  PROVE  LookedUp(r)[k] # <<>> /\ ~(Last(LookedUp(r)[k]) <= sweptAt' - Window[k])
  <1>1. CASE SweptAfter(r, k)
    <2>1. ~Stale(LookedUp(r)[k], k)
      BY <1>1, LookedUpIs
    <2>2. sweptAt' = now
      BY <1>1, LookIs DEF SweptAfter
    <2> QED BY <2>1, <2>2 DEF Stale
  <1>2. CASE ~SweptAfter(r, k)
    <2>1. k \notin Range(r) /\ k \in DOMAIN hits /\ LookedUp(r)[k] = hits[k]
      BY <1>2, LookIs, LookedUpIs
    <2>2. SweptIn(r) = {}
      <3>1. \A i \in SweptIn(r) : k \notin LookedUpFrom(r, i)
        BY <2>1, Constants DEF SweptIn, LookedUpFrom
      <3> QED BY <1>2, <3>1 DEF SweptAfter
    <2>3. sweptAt' = sweptAt /\ k \notin fresh
      BY <2>2, LookIs
    <2> QED BY <2>1, <2>3 DEF SweepForgets
  <1> QED  BY <1>1, <1>2

\* What any call leaves of the invariant, besides what it counts: the tally of the
\* tables with the hits looked up.
LEMMA LookTallied ==
  ASSUME RateInv, NEW r \in Requests, NEW k \in Keys, NEW t \in Int
  PROVE  /\ t >= now - Window[k] =>
              /\ Cardinality(After(Of(LookedUp(r), k), t)) <= Cardinality(After(granted[k], t))
              /\ Cardinality(After(granted[k], t))
                   <= Cardinality(After(Of(LookedUp(r), k), t)) + Cardinality(After(torn, t))
         /\ retryAt[k] # 0 =>
              Cardinality(After(Of(LookedUp(r), k), retryAt[k] - Window[k])) < Limit[k]
         /\ Cardinality(After(Of(LookedUp(r), k), now - Window[k])) <= Limit[k]
         /\ Cardinality(After(Of(LookedUp(r), k), t)) \in Nat
  <1>1. Typed /\ Tallied /\ RoomLater /\ WithinLimit
    BY DEF RateInv
  <1>2. now \in Nat /\ now - Window[k] \in Int /\ retryAt[k] - Window[k] \in Int
    BY <1>1, OfType, Constants DEF Typed
  <1>3. \A x \in Int :
          /\ Cardinality(After(Of(LookedUp(r), k), x)) <= Held(k, x)
          /\ x >= now - Window[k] => Cardinality(After(Of(LookedUp(r), k), x)) = Held(k, x)
          /\ Held(k, x) \in Nat /\ Cardinality(After(Of(LookedUp(r), k), x)) \in Nat
    <2> SUFFICES ASSUME NEW x \in Int
                 PROVE  /\ Cardinality(After(Of(LookedUp(r), k), x)) <= Held(k, x)
                        /\ x >= now - Window[k] =>
                             Cardinality(After(Of(LookedUp(r), k), x)) = Held(k, x)
                        /\ Held(k, x) \in Nat
                        /\ Cardinality(After(Of(LookedUp(r), k), x)) \in Nat
      OBVIOUS
    <2>1. Of(LookedUp(r), k) \in Seq(Int) /\ Of(hits, k) \in Seq(Int)
      BY <1>1, <1>2, LookupKeeps, OfType, TimesType
    <2> QED BY <1>1, <2>1, LookupKeeps, AfterFinite DEF Held
  <1>4. Limit[k] \in Nat
    BY Constants
  <1>5. retryAt[k] # 0 => Held(k, retryAt[k] - Window[k]) < Limit[k]
    BY <1>1 DEF RoomLater
  <1>6. Held(k, now - Window[k]) <= Limit[k]
    BY <1>1 DEF WithinLimit
  <1>7. t >= now - Window[k] =>
          /\ Held(k, t) <= Cardinality(After(granted[k], t))
          /\ Cardinality(After(granted[k], t)) <= Held(k, t) + Cardinality(After(torn, t))
    BY <1>1 DEF Tallied
  <1> QED  BY <1>2, <1>3, <1>4, <1>5, <1>6, <1>7

-----------------------------------------------------------------------------
(* Each action keeps the invariant.                                        *)

\* math.ceil is not too early.
LEMMA Ceiling ==
  ASSUME NEW x \in Nat, NEW b \in Nat \ {0}
  PROVE  /\ Max({1, (x + b - 1) \div b}) \in Nat
         /\ x <= b * Max({1, (x + b - 1) \div b})
  <1>1. PICK y \in Nat : y = x + b - 1
    OBVIOUS
  <1>2. y \div b \in Nat /\ y % b \in Nat /\ y % b < b /\ y = b * (y \div b) + (y % b)
    OBVIOUS
  <1>3. PICK q \in Nat : q = y \div b
    BY <1>2
  <1>4. x <= b * q
    <2>1. b * q \in Nat
      BY <1>3
    <2> QED BY <1>1, <1>2, <1>3, <2>1
  <1>5. PICK m \in {1, q} : m >= 1 /\ m >= q /\ m = Max({1, q})
    <2>1. \E m \in {1, q} : \A z \in {1, q} : m >= z
      BY <1>3
    <2> QED BY <2>1 DEF Max
  <1>6. x <= b * m
    <2>1. CASE m = q
      BY <1>4, <2>1
    <2>2. CASE m = 1 /\ q = 0
      BY <1>4, <2>2
    <2> QED BY <1>3, <1>5, <2>1, <2>2
  <1> QED  BY <1>1, <1>3, <1>5, <1>6

\* A refusal: when the caller may come back, the oldest hit has left the window.
LEMMA RefusedRoom ==
  ASSUME RateInv, NEW r \in Requests, NEW i \in Full(r)
  PROVE  LET later == now + Second * RetryAfter(r[i])
         IN  /\ r[i] \in Keys /\ later \in Nat
             /\ Cardinality(After(Of(LookedUp(r), r[i]), later - Window[r[i]])) < Limit[r[i]]
  <1>1. Typed /\ WithinLimit
    BY DEF RateInv
  <1>2. PICK k \in Keys : k = r[i]
    BY Constants DEF Full
  <1>3. now \in Nat /\ Limit[k] \in Nat \ {0} /\ Window[k] \in Nat \ {0} /\ Second \in Nat \ {0}
    BY <1>1, OfType, Constants
  <1>4. PICK f : f = Found(k)
    OBVIOUS
  <1>5. f \in Times(now) /\ f \in Seq(Int) /\ Len(f) \in Nat
        /\ \A j \in 1 .. Len(f) : f[j] > now - Window[k] /\ f[j] \in 0 .. now
    BY <1>1, <1>3, <1>4, FoundIs, TimesType
  <1>6. Len(f) = Limit[k]
    <2>1. Len(f) >= Limit[k]
      BY <1>2, <1>4 DEF Full
    <2>2. Len(f) <= Limit[k]
      BY <1>1, <1>4, FoundIs DEF WithinLimit
    <2> QED BY <1>3, <1>5, <2>1, <2>2
  <1>7. f[1] > now - Window[k] /\ f[1] \in 0 .. now
    BY <1>3, <1>5, <1>6
  <1>8. PICK x \in Nat : x = f[1] + Window[k] - now
    BY <1>3, <1>7
  <1>9. RetryAfter(k) = Max({1, (x + Second - 1) \div Second})
    BY <1>4, <1>8 DEF RetryAfter
  <1>10. PICK later \in Nat : later = now + Second * RetryAfter(k) /\ later >= now + x
    <2>1. PICK m \in Nat : m = RetryAfter(k) /\ x <= Second * m
      BY <1>3, <1>9, Ceiling
    <2>2. PICK y \in Nat : y = Second * m
      BY <1>3
    <2> QED BY <1>3, <2>1, <2>2
  <1>11. PICK t \in Int : t = later - Window[k]
    BY <1>3, <1>10
  <1>12. f[1] <= t /\ t >= now - Window[k]
    BY <1>3, <1>7, <1>8, <1>10, <1>11
  <1>13. Cardinality(After(f, t)) < Len(f)
    BY <1>3, <1>5, <1>6, <1>12, AfterFirst
  <1>14. Cardinality(After(Of(LookedUp(r), k), t)) = Cardinality(After(f, t))
    BY <1>1, <1>4, <1>12, FoundIs, LookupKeeps
  <1> QED  BY <1>2, <1>6, <1>10, <1>11, <1>13, <1>14

LEMMA RefuseKeeps ==
  ASSUME RateInv, NEW r \in Requests, Refuse(r)
  PROVE  RateInv'
  <1>1. Typed /\ SweepForgets /\ Look(r)
    BY DEF RateInv, Refuse
  <1>2. hits' = LookedUp(r) /\ UNCHANGED <<pending, granted, torn>>
    BY DEF Refuse
  <1>3. PICK i \in Full(r) :
          retryAt' = [retryAt EXCEPT ![r[i]] = now + Second * RetryAfter(r[i])]
    BY Zenon DEF Refuse
  <1>4. PICK k0 \in Keys, later \in Nat :
          /\ k0 = r[i] /\ retryAt' = [retryAt EXCEPT ![k0] = later]
          /\ Cardinality(After(Of(LookedUp(r), k0), later - Window[k0])) < Limit[k0]
    BY <1>3, RefusedRoom
  <1>5. now' = now
    BY <1>1, LookIs
  <1>6. Typed'
    <2>1. DOMAIN hits' \subseteq Keys /\ \A k \in DOMAIN hits' : hits'[k] \in Times(now)
      BY <1>1, <1>2, LookedUpIs
    <2>2. retryAt' \in [Keys -> Nat]
      BY <1>1, <1>4 DEF Typed
    <2> QED BY <1>1, <1>2, <1>5, <2>1, <2>2, LookIs DEF Typed
  <1>7. \A k \in Keys, t \in Int : Held(k, t)' = Cardinality(After(Of(LookedUp(r), k), t))
    BY <1>2 DEF Held
  <1>8. Tallied'
    BY <1>2, <1>5, <1>7, LookTallied DEF Tallied
  <1>9. WithinLimit'
    <2>1. \A k \in Keys : now - Window[k] \in Int
      BY <1>1, OfType, Constants
    <2> QED BY <1>5, <1>7, <2>1, LookTallied DEF WithinLimit
  <1>10. RoomLater'
    <2> SUFFICES ASSUME NEW k \in Keys, retryAt'[k] # 0
                 PROVE  Cardinality(After(Of(LookedUp(r), k), retryAt'[k] - Window[k])) < Limit[k]
      <3>1. \A k \in Keys : retryAt'[k] - Window[k] \in Int
        BY <1>6, Constants DEF Typed
      <3> QED BY <1>7, <3>1 DEF RoomLater
    <2>1. CASE k = k0
      BY <1>1, <1>4, <2>1 DEF Typed
    <2>2. CASE k # k0
      <3>1. retryAt'[k] = retryAt[k]
        BY <1>1, <1>4, <2>2 DEF Typed
      <3>2. 0 \in Int
        OBVIOUS
      <3> QED BY <3>1, <3>2, LookTallied
    <2> QED BY <2>1, <2>2
  <1>11. SweepForgets'
    BY <1>1, <1>2, LookForgets DEF SweepForgets
  <1> QED  BY <1>6, <1>8, <1>9, <1>10, <1>11 DEF RateInv

\* The table once a request is counted.
LEMMA CountedTable ==
  ASSUME Typed, NEW r \in Requests, NEW k \in Keys
  PROVE  /\ DOMAIN Count(LookedUp(r), r) = DOMAIN LookedUp(r)
         /\ k \in Range(r) /\ k \in DOMAIN LookedUp(r) =>
              Of(Count(LookedUp(r), r), k) = Append(Of(LookedUp(r), k), now)
         /\ k \notin Range(r) \/ k \notin DOMAIN LookedUp(r) =>
              Of(Count(LookedUp(r), r), k) = Of(LookedUp(r), k)
         /\ Of(Count(LookedUp(r), r), k) \in Times(now)
  <1>1. /\ DOMAIN Count(LookedUp(r), r) = DOMAIN LookedUp(r)
        /\ k \in Range(r) /\ k \in DOMAIN LookedUp(r) =>
              Of(Count(LookedUp(r), r), k) = Append(Of(LookedUp(r), k), now)
        /\ k \notin Range(r) \/ k \notin DOMAIN LookedUp(r) =>
              Of(Count(LookedUp(r), r), k) = Of(LookedUp(r), k)
    BY DEF Count, Of
  <1>2. now \in Nat /\ Of(LookedUp(r), k) \in Times(now)
    <2>1. 0 \in Int
      OBVIOUS
    <2> QED BY <2>1, OfType, LookupKeeps
  <1>3. Append(Of(LookedUp(r), k), now) \in Times(now)
    BY <1>2, TimesGrow
  <1> QED  BY <1>1, <1>2, <1>3

\* A deque that a sweep took away from the call: the request is torn.
LEMMA TornCall ==
  ASSUME Typed, NEW r \in Requests, NEW k \in Range(r), k \notin DOMAIN LookedUp(r)
  PROVE  ~(SweptIn(r) \subseteq {1})
  <1>1. PICK i \in SweptIn(r) : k \notin LookedUpFrom(r, i)
    BY LookedUpIs DEF SweptAfter
  <1>2. i \in 1 .. Len(r) /\ k \in {r[j] : j \in 1 .. Len(r)}
    BY <1>1, Constants DEF SweptIn
  <1>3. i # 1
    BY <1>1, <1>2 DEF LookedUpFrom
  <1> QED  BY <1>1, <1>3

LEMMA GrantKeeps ==
  ASSUME RateInv, NEW r \in Requests, Grant(r)
  PROVE  RateInv'
  <1>1. Typed /\ SweepForgets /\ Look(r) /\ Full(r) = {}
    BY DEF RateInv, Grant
  <1>2. /\ hits' = Count(LookedUp(r), r)
        /\ pending' = IF r \in Logins THEN [pending EXCEPT ![r] = @ + 1] ELSE pending
        /\ granted' = [k \in Keys |->
                         IF k \in Range(r) THEN Append(granted[k], now) ELSE granted[k]]
        /\ torn' = IF SweptIn(r) \subseteq {1} THEN torn ELSE Append(torn, now)
        /\ retryAt' = [k \in Keys |-> IF k \in Range(r) THEN 0 ELSE retryAt[k]]
    BY DEF Grant
  <1>3. now' = now /\ now \in Nat /\ torn \in Times(now) /\ \A k \in Keys : granted[k] \in Times(now)
    BY <1>1, LookIs, RateLimiterAssumption DEF Typed
  <1>4. ASSUME NEW k \in Keys
        PROVE  /\ Of(LookedUp(r), k) \in Times(now) /\ Of(LookedUp(r), k) \in Seq(Int)
               /\ granted[k] \in Seq(Int) /\ torn \in Seq(Int)
               /\ now - Window[k] \in Int /\ now - Window[k] < now
               /\ retryAt[k] - Window[k] \in Int /\ Limit[k] \in Nat \ {0}
    <2>1. 0 \in Int
      OBVIOUS
    <2>2. now - Window[k] \in Int /\ now - Window[k] < now /\ Limit[k] \in Nat \ {0}
          /\ retryAt[k] - Window[k] \in Int
      BY <1>1, <1>3, Constants DEF Typed
    <2> QED BY <1>1, <1>3, <2>1, <2>2, LookupKeeps, TimesType
  <1>5. Typed'
    <2>1. DOMAIN hits' \subseteq Keys
      <3>1. CASE Keys = {}
        BY <1>1, <1>2, <3>1, LookedUpIs DEF Count
      <3>2. ASSUME NEW k \in Keys PROVE DOMAIN hits' \subseteq Keys
        BY <1>1, <1>2, CountedTable, LookedUpIs
      <3> QED BY <3>1, <3>2
    <2>2. \A k \in DOMAIN hits' : hits'[k] \in Times(now)
      BY <1>1, <1>2, <2>1, CountedTable DEF Of
    <2>3. pending' \in [Logins -> Nat]
      BY <1>1, <1>2 DEF Typed
    <2>4. \A s \in Times(now) : Append(s, now) \in Times(now)
      BY <1>3, TimesGrow
    <2>5. granted' \in [Keys -> Times(now)] /\ torn' \in Times(now)
      BY <1>2, <1>3, <2>4
    <2>6. retryAt' \in [Keys -> Nat]
      BY <1>1, <1>2 DEF Typed
    <2> QED BY <1>1, <1>3, <2>1, <2>2, <2>3, <2>5, <2>6, LookIs DEF Typed
  <1>6. ASSUME NEW k \in Keys, NEW t \in Int
        PROVE  /\ Held(k, t)' =
                    IF k \in Range(r) /\ k \in DOMAIN LookedUp(r)
                    THEN Cardinality(After(Of(LookedUp(r), k), t)) + (IF now > t THEN 1 ELSE 0)
                    ELSE Cardinality(After(Of(LookedUp(r), k), t))
               /\ Cardinality(After(granted'[k], t)) =
                    IF k \in Range(r)
                    THEN Cardinality(After(granted[k], t)) + (IF now > t THEN 1 ELSE 0)
                    ELSE Cardinality(After(granted[k], t))
               /\ Cardinality(After(torn', t)) =
                    IF SweptIn(r) \subseteq {1}
                    THEN Cardinality(After(torn, t))
                    ELSE Cardinality(After(torn, t)) + (IF now > t THEN 1 ELSE 0)
               /\ Cardinality(After(Of(LookedUp(r), k), t)) \in Nat
               /\ Cardinality(After(granted[k], t)) \in Nat /\ Cardinality(After(torn, t)) \in Nat
    <2>1. now \in Int
      BY <1>3
    <2>2. Held(k, t)' = Cardinality(After(Of(Count(LookedUp(r), r), k), t))
      BY <1>2 DEF Held
    <2>3. /\ Cardinality(After(Append(Of(LookedUp(r), k), now), t))
               = Cardinality(After(Of(LookedUp(r), k), t)) + (IF now > t THEN 1 ELSE 0)
          /\ Cardinality(After(Append(granted[k], now), t))
               = Cardinality(After(granted[k], t)) + (IF now > t THEN 1 ELSE 0)
          /\ Cardinality(After(Append(torn, now), t))
               = Cardinality(After(torn, t)) + (IF now > t THEN 1 ELSE 0)
      BY <1>4, <2>1, AfterAppend
    <2>4. granted'[k] = IF k \in Range(r) THEN Append(granted[k], now) ELSE granted[k]
      BY <1>2
    <2>5. CASE k \in Range(r) /\ k \in DOMAIN LookedUp(r)
      BY <1>1, <1>2, <1>4, <2>2, <2>3, <2>4, <2>5, CountedTable, AfterFinite
    <2>6. CASE ~(k \in Range(r) /\ k \in DOMAIN LookedUp(r))
      BY <1>1, <1>2, <1>4, <2>2, <2>3, <2>4, <2>6, CountedTable, AfterFinite
    <2> QED BY <2>5, <2>6
  <1>7. Tallied'
    <2> SUFFICES ASSUME NEW k \in Keys, NEW t \in Int, t >= now - Window[k]
                 PROVE  /\ Held(k, t)' <= Cardinality(After(granted'[k], t))
                        /\ Cardinality(After(granted'[k], t))
                             <= Held(k, t)' + Cardinality(After(torn', t))
      BY <1>3 DEF Tallied
    <2>1. /\ Cardinality(After(Of(LookedUp(r), k), t)) <= Cardinality(After(granted[k], t))
          /\ Cardinality(After(granted[k], t))
               <= Cardinality(After(Of(LookedUp(r), k), t)) + Cardinality(After(torn, t))
      BY LookTallied
    <2>2. k \in Range(r) /\ k \notin DOMAIN LookedUp(r) => ~(SweptIn(r) \subseteq {1})
      BY <1>1, TornCall
    <2>3. PICK one \in {0, 1} : one = IF now > t THEN 1 ELSE 0
      OBVIOUS
    <2>4. CASE k \in Range(r) /\ k \in DOMAIN LookedUp(r)
      BY <1>6, <2>1, <2>3, <2>4
    <2>5. CASE k \in Range(r) /\ k \notin DOMAIN LookedUp(r)
      BY <1>6, <2>1, <2>2, <2>3, <2>5
    <2>6. CASE k \notin Range(r)
      BY <1>6, <2>1, <2>3, <2>6
    <2> QED BY <2>4, <2>5, <2>6
  <1>8. WithinLimit'
    <2> SUFFICES ASSUME NEW k \in Keys
                 PROVE  Cardinality(After(Of(hits', k), now - Window[k])) <= Limit[k]
      BY <1>3 DEF WithinLimit, Held
    <2>1. PICK t \in Int : t = now - Window[k]
      BY <1>4
    <2>2. Cardinality(After(Of(LookedUp(r), k), t)) <= Limit[k]
      BY <2>1, LookTallied
    <2>3. CASE k \in Range(r)
      <3>1. PICK i \in DOMAIN r : k = r[i]
        BY <2>3 DEF Range
      <3>2. ~(Len(Found(k)) >= Limit[k])
        BY <1>1, <3>1 DEF Full
      <3>3. Cardinality(After(Of(LookedUp(r), k), t)) = Len(Found(k))
        <4>1. t >= now - Window[k]
          BY <2>1
        <4> QED BY <1>1, <2>1, <4>1, FoundIs, LookupKeeps
      <3>4. Cardinality(After(Of(LookedUp(r), k), t)) + 1 <= Limit[k]
        BY <1>4, <1>6, <3>2, <3>3
      <3>5. PICK a \in Nat : a = Cardinality(After(Of(LookedUp(r), k), t))
        BY LookTallied
      <3>6. PICK one \in {0, 1} : one = IF now > t THEN 1 ELSE 0
        OBVIOUS
      <3>7. Held(k, t)' = a + one \/ Held(k, t)' = a
        <4>1. CASE k \in DOMAIN LookedUp(r)
          BY <1>6, <2>3, <3>5, <3>6, <4>1
        <4>2. CASE k \notin DOMAIN LookedUp(r)
          BY <1>6, <3>5, <4>2
        <4> QED BY <4>1, <4>2
      <3>8. Held(k, t)' <= Limit[k]
        BY <1>4, <3>4, <3>5, <3>6, <3>7
      <3> QED BY <2>1, <3>8 DEF Held
    <2>4. CASE k \notin Range(r)
      <3>1. Cardinality(After(Of(hits', k), t)) = Cardinality(After(Of(LookedUp(r), k), t))
        BY <1>6, <2>4 DEF Held
      <3> QED BY <2>1, <2>2, <3>1
    <2> QED BY <2>3, <2>4
  <1>9. RoomLater'
    <2> SUFFICES ASSUME NEW k \in Keys, retryAt'[k] # 0
                 PROVE  Cardinality(After(Of(hits', k), retryAt'[k] - Window[k])) < Limit[k]
      BY DEF RoomLater, Held
    <2>1. k \notin Range(r) /\ retryAt'[k] = retryAt[k]
      BY <1>2
    <2>2. PICK t \in Int : t = retryAt[k] - Window[k]
      BY <1>4
    <2>3. Cardinality(After(Of(hits', k), t)) = Cardinality(After(Of(LookedUp(r), k), t))
      BY <1>6, <2>1 DEF Held
    <2> QED BY <2>1, <2>2, <2>3, LookTallied
  <1>10. SweepForgets'
    <2> SUFFICES ASSUME NEW k \in DOMAIN hits', k \notin fresh'
                 PROVE  hits'[k] # <<>> /\ ~(Last(hits'[k]) <= sweptAt' - Window[k])
      BY DEF SweepForgets
    <2>1. k \in Keys /\ k \in DOMAIN LookedUp(r)
      BY <1>1, <1>2, <1>5, CountedTable DEF Typed
    <2>2. CASE k \in Range(r)
      <3>1. PICK u \in Seq(Int) : u = LookedUp(r)[k]
        BY <1>4, <2>1 DEF Of
      <3>2. hits'[k] = Append(u, now)
        BY <1>2, <2>1, <2>2, <3>1 DEF Count
      <3>3. hits'[k] # <<>> /\ Last(hits'[k]) = now
        BY <1>3, <3>1, <3>2 DEF Last
      <3>4. sweptAt' \in 0 .. now
        BY <1>1, LookIs
      <3> QED BY <1>3, <1>4, <2>1, <3>3, <3>4, Constants, SMTT(30)
    <2>3. CASE k \notin Range(r)
      <3>1. hits'[k] = LookedUp(r)[k]
        BY <1>2, <2>1, <2>3 DEF Count
      <3> QED BY <1>1, <2>1, <3>1, LookForgets
    <2> QED BY <2>2, <2>3
  <1> QED  BY <1>5, <1>7, <1>8, <1>9, <1>10 DEF RateInv

\* A login that succeeds forgets what was let through on its keys, and what was
\* held against them.
LEMMA SucceedKeeps ==
  ASSUME RateInv, NEW r \in Logins, Succeed(r)
  PROVE  RateInv'
  <1>1. Typed /\ Tallied /\ WithinLimit /\ RoomLater /\ SweepForgets /\ r \in Requests
    BY RateLimiterAssumption DEF RateInv
  <1>2. /\ pending[r] > 0 /\ pending' = [pending EXCEPT ![r] = @ - 1]
        /\ hits' = [k \in DOMAIN hits \ Range(r) |-> hits[k]]
        /\ granted' = [k \in Keys |-> IF k \in Range(r) THEN <<>> ELSE granted[k]]
        /\ UNCHANGED <<now, calls, torn, sweptAt, fresh, retryAt>>
    BY Zenon DEF Succeed, Restrict
  <1>3. now \in Nat /\ <<>> \in Times(now)
    <2>1. now \in Nat
      BY <1>1 DEF Typed
    <2> QED BY <2>1, NoTimes
  <1>4. Typed'
    <2>1. pending' \in [Logins -> Nat]
      BY <1>1, <1>2 DEF Typed
    <2>2. granted' \in [Keys -> Times(now)]
      BY <1>1, <1>2, <1>3 DEF Typed
    <2>3. DOMAIN hits' \subseteq Keys /\ \A k \in DOMAIN hits' : hits'[k] \in Times(now)
      BY <1>1, <1>2 DEF Typed
    <2> QED BY <1>1, <1>2, <2>1, <2>2, <2>3 DEF Typed
  <1>5. ASSUME NEW k \in Keys
        PROVE  /\ k \in Range(r) => Of(hits', k) = <<>> /\ granted'[k] = <<>>
               /\ k \notin Range(r) => Of(hits', k) = Of(hits, k) /\ granted'[k] = granted[k]
    BY <1>2 DEF Of
  <1>6. \A k \in Keys : /\ now - Window[k] \in Int /\ retryAt[k] - Window[k] \in Int
                        /\ Limit[k] \in Nat \ {0}
    BY <1>1, <1>3, Constants DEF Typed
  <1>7. \A t \in Int : Cardinality(After(<<>>, t)) = 0 /\ Cardinality(After(torn, t)) \in Nat
    <2>1. torn \in Seq(Int)
      BY <1>1, <1>3, TimesType DEF Typed
    <2> QED BY <2>1, AfterEmpty, AfterFinite
  <1>8. Tallied'
    <2> SUFFICES ASSUME NEW k \in Keys, NEW t \in Int, t >= now - Window[k]
                 PROVE  /\ Cardinality(After(Of(hits', k), t)) <= Cardinality(After(granted'[k], t))
                        /\ Cardinality(After(granted'[k], t))
                             <= Cardinality(After(Of(hits', k), t)) + Cardinality(After(torn, t))
      BY <1>2 DEF Tallied, Held
    <2>1. CASE k \in Range(r)
      BY <1>5, <1>7, <2>1
    <2>2. CASE k \notin Range(r)
      BY <1>1, <1>5, <2>2 DEF Tallied, Held
    <2> QED BY <2>1, <2>2
  <1>9. WithinLimit'
    <2> SUFFICES ASSUME NEW k \in Keys
                 PROVE  Cardinality(After(Of(hits', k), now - Window[k])) <= Limit[k]
      BY <1>2 DEF WithinLimit, Held
    <2>1. CASE k \in Range(r)
      BY <1>5, <1>6, <1>7, <2>1
    <2>2. CASE k \notin Range(r)
      BY <1>1, <1>5, <2>2 DEF WithinLimit, Held
    <2> QED BY <2>1, <2>2
  <1>10. RoomLater'
    <2> SUFFICES ASSUME NEW k \in Keys, retryAt[k] # 0
                 PROVE  Cardinality(After(Of(hits', k), retryAt[k] - Window[k])) < Limit[k]
      BY <1>2 DEF RoomLater, Held
    <2>1. CASE k \in Range(r)
      BY <1>5, <1>6, <1>7, <2>1
    <2>2. CASE k \notin Range(r)
      BY <1>1, <1>5, <2>2 DEF RoomLater, Held
    <2> QED BY <2>1, <2>2
  <1>11. SweepForgets'
    BY <1>1, <1>2 DEF SweepForgets
  <1> QED  BY <1>4, <1>8, <1>9, <1>10, <1>11 DEF RateInv

\* The clock only moves the windows forward.
LEMMA TickKeeps ==
  ASSUME RateInv, Tick
  PROVE  RateInv'
  <1>1. Typed /\ Tallied /\ WithinLimit /\ RoomLater /\ SweepForgets
    BY DEF RateInv
  <1>2. now < MaxTime /\ now' = now + 1 /\ UNCHANGED <<limiter, pending, history>>
    BY DEF Tick
  <1>3. now \in Nat /\ MaxTime \in Nat
    BY <1>1, RateLimiterAssumption DEF Typed
  <1>4. UNCHANGED <<hits, calls, pending, granted, torn, sweptAt, fresh, retryAt>>
    BY <1>2 DEF limiter, history
  <1>5. \A s \in Times(now) : s \in Times(now + 1)
    BY <1>3, TimesGrow
  <1>6. Typed'
    <2>1. granted \in [Keys -> Times(now + 1)] /\ torn \in Times(now + 1)
          /\ \A k \in DOMAIN hits : hits[k] \in Times(now + 1)
      BY <1>1, <1>5 DEF Typed
    <2>2. now + 1 \in 0 .. MaxTime /\ sweptAt \in 0 .. now + 1
      BY <1>1, <1>2, <1>3 DEF Typed
    <2> QED BY <1>1, <1>2, <1>4, <2>1, <2>2 DEF Typed
  <1>7. \A k \in Keys : now - Window[k] \in Int /\ now + 1 - Window[k] \in Int
                        /\ now - Window[k] <= now + 1 - Window[k] /\ Limit[k] \in Nat
    BY <1>3, Constants
  <1>8. Tallied'
    <2> SUFFICES ASSUME NEW k \in Keys, NEW t \in Int, t >= now' - Window[k]
                 PROVE  /\ Held(k, t)' <= Cardinality(After(granted'[k], t))
                        /\ Cardinality(After(granted'[k], t))
                             <= Held(k, t)' + Cardinality(After(torn', t))
      BY DEF Tallied
    <2>1. t >= now - Window[k]
      <3>1. Window[k] \in Int /\ now' = now + 1
        BY <1>2, Constants
      <3> QED BY <1>3, <3>1
    <2>2. Held(k, t)' = Held(k, t)
      BY <1>4 DEF Held
    <2> QED BY <1>1, <1>4, <2>1, <2>2 DEF Tallied
  <1>9. WithinLimit'
    <2> SUFFICES ASSUME NEW k \in Keys
                 PROVE  Cardinality(After(Of(hits', k), now' - Window[k])) <= Limit[k]
      BY DEF WithinLimit, Held
    <2>1. PICK t, u \in Int : t = now - Window[k] /\ u = now + 1 - Window[k] /\ t <= u
      BY <1>7
    <2>2. Of(hits, k) \in Seq(Int)
      BY <1>1, OfType, TimesType
    <2>3. Held(k, u) <= Held(k, t) /\ Held(k, u) \in Nat /\ Held(k, t) \in Nat
      BY <2>1, <2>2, AfterFewer, AfterFinite DEF Held
    <2>4. Held(k, t) <= Limit[k]
      BY <1>1, <2>1 DEF WithinLimit
    <2>5. Held(k, u) <= Limit[k]
      BY <1>7, <2>3, <2>4
    <2>6. now' - Window[k] = u
      <3>1. now' = now + 1
        BY <1>2
      <3> QED BY <1>3, <2>1, <3>1, Constants
    <2>7. Of(hits', k) = Of(hits, k)
      BY <1>4
    <2> QED BY <2>5, <2>6, <2>7 DEF Held
  <1>10. RoomLater' /\ SweepForgets'
    BY <1>1, <1>4 DEF RoomLater, SweepForgets, Held
  <1> QED  BY <1>6, <1>8, <1>9, <1>10 DEF RateInv

LEMMA RateInit == Init => RateInv
  <1> SUFFICES ASSUME Init PROVE RateInv
    OBVIOUS
  <1>1. /\ now = 0 /\ hits = [k \in {} |-> <<>>] /\ calls = 0 /\ torn = <<>> /\ sweptAt = 0
        /\ fresh = {} /\ pending = [r \in Logins |-> 0] /\ granted = [k \in Keys |-> <<>>]
        /\ retryAt = [k \in Keys |-> 0]
    BY DEF Init, None
  <1>2. DOMAIN hits = {}
    BY <1>1
  <1>3. MaxTime \in Nat /\ MaxCalls \in Nat /\ <<>> \in Times(0)
    BY RateLimiterAssumption, NoTimes
  <1>4. Typed
    <2>1. granted \in [Keys -> Times(0)]
      BY <1>1, <1>3
    <2> QED BY <1>1, <1>2, <1>3, <2>1 DEF Typed
  <1>5. ASSUME NEW k \in Keys
        PROVE  Of(hits, k) = <<>> /\ granted[k] = <<>> /\ retryAt[k] = 0
               /\ now - Window[k] \in Int /\ Limit[k] \in Nat
    BY <1>1, <1>2, Constants DEF Of
  <1>6. \A t \in Int : Cardinality(After(<<>>, t)) = 0
    BY AfterEmpty
  <1>7. Tallied /\ WithinLimit /\ RoomLater
    BY <1>1, <1>5, <1>6 DEF Tallied, WithinLimit, RoomLater, Held
  <1>8. SweepForgets
    BY <1>2 DEF SweepForgets
  <1> QED  BY <1>4, <1>7, <1>8 DEF RateInv

LEMMA RateStep == RateInv /\ [Next]_vars => RateInv'
  <1> SUFFICES ASSUME RateInv, [Next]_vars PROVE RateInv'
    OBVIOUS
  <1>1. CASE \E r \in Requests : Grant(r)
    BY <1>1, GrantKeeps
  <1>2. CASE \E r \in Requests : Refuse(r)
    BY <1>2, RefuseKeeps
  <1>3. CASE \E r \in Logins : Succeed(r)
    BY <1>3, SucceedKeeps
  <1>4. ASSUME NEW r \in Logins, Fail(r) PROVE RateInv'
    <2>1. pending' = [pending EXCEPT ![r] = @ - 1] /\ pending[r] > 0
          /\ UNCHANGED <<now, hits, calls, granted, torn, sweptAt, fresh, retryAt>>
      BY <1>4 DEF Fail, limiter, history
    <2>2. pending' \in [Logins -> Nat]
      BY <2>1 DEF RateInv, Typed
    <2> QED BY <2>1, <2>2
            DEF RateInv, Typed, Tallied, WithinLimit, RoomLater, SweepForgets, Held
  <1>5. CASE Tick
    BY <1>5, TickKeeps
  <1>6. CASE UNCHANGED vars
    <2>1. UNCHANGED <<now, hits, calls, pending, granted, torn, sweptAt, fresh, retryAt>>
      BY <1>6 DEF vars, limiter, history
    <2> QED BY <2>1 DEF RateInv, Typed, Tallied, WithinLimit, RoomLater, SweepForgets, Held
  <1> QED  BY <1>1, <1>2, <1>3, <1>4, <1>5, <1>6 DEF Next

\* The invariant gives the properties.
LEMMA RateImplied == RateInv => TypeOK /\ LimitHolds /\ RetryAfterIsEnough
  <1> SUFFICES ASSUME RateInv PROVE TypeOK /\ LimitHolds /\ RetryAfterIsEnough
    OBVIOUS
  <1>1. Typed /\ Tallied /\ WithinLimit /\ RoomLater
    BY DEF RateInv
  <1>2. now \in Nat
    BY <1>1 DEF Typed
  <1>3. \A k \in Keys : Limit[k] \in Nat /\ now - Window[k] \in Int
    BY <1>2, Constants
  <1>4. TypeOK
    <2>1. ASSUME NEW s \in Times(now)
          PROVE  s \in Seq(0 .. now) /\ \A i \in 2 .. Len(s) : s[i - 1] <= s[i]
      BY <1>2, TimesType
    <2>2. granted \in [Keys -> Seq(0 .. now)]
      BY <1>1, <2>1 DEF Typed
    <2> QED BY <1>1, <2>1, <2>2 DEF Typed, TypeOK
  <1>5. ASSUME NEW k \in Keys
        PROVE  /\ Counted(k) = Held(k, now - Window[k]) /\ Counted(k) \in Nat
               /\ LetThrough(k) = Cardinality(After(granted[k], now - Window[k]))
               /\ LetThrough(k) \in Nat /\ Torn(k) \in Nat
               /\ Torn(k) = Cardinality(After(torn, now - Window[k]))
    <2>1. Of(hits, k) \in Seq(Int) /\ granted[k] \in Seq(Int) /\ torn \in Seq(Int)
      BY <1>1, <1>2, OfType, TimesType DEF Typed
    <2>2. Cardinality(After(<<>>, now - Window[k])) = 0
      BY <1>3, AfterEmpty
    <2>3. Counted(k) = Held(k, now - Window[k])
      BY <2>2 DEF Counted, Held, Of
    <2> QED BY <1>3, <2>1, <2>3, AfterFinite DEF Held, LetThrough, Torn
  <1>6. LimitHolds
    <2> SUFFICES ASSUME NEW k \in Keys
                 PROVE  LetThrough(k) <= Limit[k] + Torn(k) /\ Counted(k) <= LetThrough(k)
      BY DEF LimitHolds
    <2>1. now - Window[k] \in Int /\ now - Window[k] >= now - Window[k]
      BY <1>3
    <2>2. /\ Held(k, now - Window[k]) <= Cardinality(After(granted[k], now - Window[k]))
          /\ Cardinality(After(granted[k], now - Window[k]))
               <= Held(k, now - Window[k]) + Cardinality(After(torn, now - Window[k]))
      BY <1>1, <2>1 DEF Tallied
    <2>3. Held(k, now - Window[k]) <= Limit[k]
      BY <1>1 DEF WithinLimit
    <2> QED BY <1>3, <1>5, <2>2, <2>3
  <1>7. RetryAfterIsEnough
    <2> SUFFICES ASSUME NEW k \in Keys, retryAt[k] # 0, now >= retryAt[k]
                 PROVE  Counted(k) < Limit[k]
      BY DEF RetryAfterIsEnough
    <2>1. Held(k, retryAt[k] - Window[k]) < Limit[k]
      BY <1>1 DEF RoomLater
    <2>2. PICK t, u \in Int : t = retryAt[k] - Window[k] /\ u = now - Window[k] /\ t <= u
      <3>1. retryAt[k] \in Nat /\ Window[k] \in Nat
        BY <1>1, Constants DEF Typed
      <3> QED BY <1>2, <3>1
    <2>3. Of(hits, k) \in Seq(Int)
      BY <1>1, <1>2, OfType, TimesType
    <2>4. Held(k, u) <= Held(k, t) /\ Held(k, u) \in Nat /\ Held(k, t) \in Nat
      BY <2>2, <2>3, AfterFewer, AfterFinite DEF Held
    <2> QED BY <1>3, <1>5, <2>1, <2>2, <2>4
  <1> QED  BY <1>4, <1>6, <1>7

-----------------------------------------------------------------------------
(* Theorems.                                                               *)

\* The tally of each key, its order and its limit hold in every state.
THEOREM RateCorrect == Spec => []RateInv
  <1> QED  BY RateInit, RateStep, PTL DEF Spec

\* Types, and the deques in the order of time, on which popleft relies.
THEOREM RateTyped == Spec => []TypeOK
  <1> QED  BY RateCorrect, RateImplied, PTL

\* hit_many: no window lets through more than the limit of a key, but for the
\* requests a sweep fell into, and a request refused by one key is counted on none.
THEOREM LimitsHold == Spec => []LimitHolds
  <1> QED  BY RateCorrect, RateImplied, PTL

\* _raise_if_full: who waits as long as Retry-After says, in whole seconds, finds
\* room on the key that refused him unless others came first.
THEOREM WaitingIsEnough == Spec => []RetryAfterIsEnough
  <1> QED  BY RateCorrect, RateImplied, PTL

\* _sweep: the table holds no inactive key but those looked up since the last sweep.
THEOREM SweepsForget == Spec => []SweepForgets
  <1>1. RateInv => SweepForgets
    BY DEF RateInv
  <1> QED  BY <1>1, RateCorrect, PTL

=============================================================================
