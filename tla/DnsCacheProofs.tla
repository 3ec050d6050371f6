--------------------------- MODULE DnsCacheProofs ---------------------------
(***************************************************************************)
(* What holds of the response cache for every capacity, every TTL bound,   *)
(* every clock and every set of callers: theorems about DnsCache.          *)
(***************************************************************************)
EXTENDS DnsCache, FiniteSetTheorems, SequenceTheorems, WellFoundedInduction, TLAPS

-----------------------------------------------------------------------------
(* Lemmas about the operators                                              *)

\* A nonempty set of naturals has a least element: EffectiveTtl is defined.
LEMMA LeastExists ==
  ASSUME NEW S \in SUBSET Nat, S # {}
  PROVE  \E x \in S : \A y \in S : x <= y
<1> DEFINE R == OpToRel(<, Nat)
<1>1. IsWellFoundedOn(R, Nat)
  BY NatLessThanWellFounded, Zenon
<1>2. \A x, y \in Nat : x < y => <<x, y>> \in R
  BY Zenon DEF OpToRel
<1> HIDE DEF R
<1>3. \E x \in S : \A y \in S : ~ (<<y, x>> \in R)
  BY <1>1, WFMin, Zenon
<1>4. PICK x \in S : \A y \in S : ~ (<<y, x>> \in R)
  BY <1>3
<1>5. \A y \in S : ~ (y < x)
  BY <1>2, <1>4
<1>6. \A y \in S : x <= y
  BY <1>5
<1> QED BY <1>6

\* insert() gives every packet a lifetime within the configured bounds.
LEMMA EffectiveTtlBounds ==
  ASSUME NEW p \in Packets
  PROVE  /\ EffectiveTtl(p) \in Nat
         /\ MinTtl <= EffectiveTtl(p)
         /\ EffectiveTtl(p) <= MaxTtl
<1>1. p.ttls # {} => (CHOOSE t \in p.ttls : \A u \in p.ttls : t <= u) \in Nat
  <2> SUFFICES ASSUME p.ttls # {}
               PROVE  (CHOOSE t \in p.ttls : \A u \in p.ttls : t <= u) \in Nat
    OBVIOUS
  <2>1. p.ttls \in SUBSET Nat
    BY TtlAssumption DEF Packets
  <2>2. \E t \in p.ttls : \A u \in p.ttls : t <= u
    BY <2>1, LeastExists
  <2> QED BY <2>1, <2>2
<1>2. PICK raw \in Nat : EffectiveTtl(p) = Clamp(raw)
  BY <1>1, TtlAssumption DEF EffectiveTtl
<1> QED BY <1>2, TtlAssumption DEF Clamp

\* Whole seconds, in ticks, are ordered as the seconds are.
LEMMA SecondsToTicks ==
  ASSUME NEW a \in Nat, NEW b \in Nat, a <= b
  PROVE  /\ a * Second \in Nat
         /\ a * Second <= b * Second
BY TtlAssumption

\* What insert() stores is an entry, stored now, with a lifetime in bounds.
LEMMA CachedResponseEntry ==
  ASSUME NEW p \in Packets, now \in Nat
  PROVE  /\ CachedResponse(p) \in Entries
         /\ CachedResponse(p).created_at = now
         /\ CachedResponse(p).ttl >= MinTtl * Second
         /\ CachedResponse(p).ttl <= MaxTtl * Second
<1>1. /\ EffectiveTtl(p) \in Nat
      /\ MinTtl <= EffectiveTtl(p)
      /\ EffectiveTtl(p) <= MaxTtl
  BY EffectiveTtlBounds
<1>2. /\ EffectiveTtl(p) * Second \in Nat
      /\ MinTtl * Second <= EffectiveTtl(p) * Second
      /\ EffectiveTtl(p) * Second <= MaxTtl * Second
  BY <1>1, SecondsToTicks, TtlAssumption
<1>3. MinTtl * Second \in Nat /\ MaxTtl * Second \in Nat
  BY SecondsToTicks, TtlAssumption
<1> QED BY <1>2, <1>3 DEF CachedResponse, Entries

\* RemoveAt takes out one element and leaves the others in place.
LEMMA RemoveAtElements ==
  ASSUME NEW S, NEW s \in Seq(S), NEW i \in DOMAIN s
  PROVE  /\ RemoveAt(s, i) \in Seq(S)
         /\ Len(RemoveAt(s, i)) = Len(s) - 1
         /\ \A j \in 1 .. (Len(s) - 1) :
               RemoveAt(s, i)[j] = IF j < i THEN s[j] ELSE s[j + 1]
<1> DEFINE front == SubSeq(s, 1, i - 1)
           back  == SubSeq(s, i + 1, Len(s))
<1>1. /\ front \in Seq(S)
      /\ Len(front) = i - 1
      /\ \A j \in 1 .. (i - 1) : front[j] = s[j]
  <2>1. \A j \in 1 .. (i - 1) : s[j] \in S
    OBVIOUS
  <2> QED BY <2>1, SubSeqProperties
<1>2. /\ back \in Seq(S)
      /\ Len(back) = Len(s) - i
      /\ \A j \in 1 .. (Len(s) - i) : back[j] = s[j + i]
  <2>1. \A j \in (i + 1) .. Len(s) : s[j] \in S
    OBVIOUS
  <2>2. i + 1 \in Int /\ Len(s) \in Int
    OBVIOUS
  <2>3. /\ back \in Seq(S)
        /\ Len(back) = (IF i + 1 <= Len(s) THEN Len(s) - (i + 1) + 1 ELSE 0)
        /\ \A j \in 1 .. (Len(s) - (i + 1) + 1) : back[j] = s[(i + 1) + j - 1]
    BY <2>1, <2>2, SubSeqProperties
  <2> QED BY <2>3
<1>3. RemoveAt(s, i) = front \o back
  BY DEF RemoveAt
<1> HIDE DEF front, back
<1> QED BY <1>1, <1>2, <1>3, ConcatProperties

\* Taking a key out of an order without duplicates takes out just that key.
LEMMA WithoutKey ==
  ASSUME NEW s \in Seq(Keys), IsInjective(s), NEW k \in ToSet(s)
  PROVE  /\ Without(s, k) \in Seq(Keys)
         /\ IsInjective(Without(s, k))
         /\ ToSet(Without(s, k)) = ToSet(s) \ {k}
<1> DEFINE i == CHOOSE i \in DOMAIN s : s[i] = k
           w == RemoveAt(s, i)
<1>1. i \in DOMAIN s /\ s[i] = k
  BY DEF ToSet
<1>2. Without(s, k) = w
  BY DEF Without
<1> HIDE DEF i
<1>3. /\ w \in Seq(Keys)
      /\ Len(w) = Len(s) - 1
      /\ \A j \in 1 .. (Len(s) - 1) : w[j] = IF j < i THEN s[j] ELSE s[j + 1]
  BY <1>1, RemoveAtElements
<1> HIDE DEF w
<1>4. DOMAIN s = 1 .. Len(s) /\ DOMAIN w = 1 .. (Len(s) - 1)
  BY <1>3
<1>5. IsInjective(w)
  <2> SUFFICES ASSUME NEW a \in DOMAIN w, NEW b \in DOMAIN w, w[a] = w[b]
               PROVE  a = b
    BY DEF IsInjective
  <2> DEFINE from(j) == IF j < i THEN j ELSE j + 1
  <2>1. \A j \in DOMAIN w : from(j) \in DOMAIN s /\ w[j] = s[from(j)]
    BY <1>1, <1>3, <1>4
  <2>2. from(a) = from(b)
    BY <2>1 DEF IsInjective
  <2> QED BY <2>2, <1>1, <1>4
<1>6. ToSet(w) = ToSet(s) \ {k}
  <2>1. ASSUME NEW j \in DOMAIN w
        PROVE  w[j] \in ToSet(s) \ {k}
    <3> DEFINE m == IF j < i THEN j ELSE j + 1
    <3>1. m \in DOMAIN s /\ w[j] = s[m] /\ m # i
      BY <1>1, <1>3, <1>4
    <3>2. s[m] # k
      BY <3>1, <1>1 DEF IsInjective
    <3> QED BY <3>1, <3>2 DEF ToSet
  <2>2. ASSUME NEW m \in DOMAIN s, s[m] # k
        PROVE  s[m] \in ToSet(w)
    <3> DEFINE j == IF m < i THEN m ELSE m - 1
    <3>1. j \in DOMAIN w /\ w[j] = s[m]
      BY <2>2, <1>1, <1>3, <1>4
    <3> QED BY <3>1 DEF ToSet
  <2> QED BY <2>1, <2>2 DEF ToSet
<1> QED BY <1>2, <1>3, <1>5, <1>6

\* Appending a new key keeps an order without duplicates.
LEMMA AppendKey ==
  ASSUME NEW s \in Seq(Keys), IsInjective(s), NEW k \in Keys, k \notin ToSet(s)
  PROVE  /\ Append(s, k) \in Seq(Keys)
         /\ IsInjective(Append(s, k))
         /\ ToSet(Append(s, k)) = ToSet(s) \union {k}
<1> DEFINE w == Append(s, k)
<1>1. /\ w \in Seq(Keys)
      /\ DOMAIN w = 1 .. (Len(s) + 1)
      /\ DOMAIN s = 1 .. Len(s) /\ Len(s) \in Nat
      /\ w[Len(s) + 1] = k
      /\ \A j \in 1 .. Len(s) : w[j] = s[j]
  OBVIOUS
<1> HIDE DEF w
<1>2. IsInjective(w)
  <2> SUFFICES ASSUME NEW a \in DOMAIN w, NEW b \in DOMAIN w, w[a] = w[b]
               PROVE  a = b
    BY DEF IsInjective
  <2>1. \A j \in DOMAIN s : w[j] # k
    BY <1>1 DEF ToSet
  <2>2. CASE a \in DOMAIN s /\ b \in DOMAIN s
    BY <2>2, <1>1 DEF IsInjective
  <2>3. CASE a \notin DOMAIN s \/ b \notin DOMAIN s
    BY <2>1, <2>3, <1>1
  <2> QED BY <2>2, <2>3
<1>3. ToSet(w) = ToSet(s) \union {k}
  BY <1>1 DEF ToSet
<1> QED BY <1>1, <1>2, <1>3 DEF w

\* The key at the head of an order without duplicates is not in its tail.
LEMMA TailKey ==
  ASSUME NEW s \in Seq(Keys), IsInjective(s), s # <<>>
  PROVE  /\ Head(s) \in ToSet(s)
         /\ Tail(s) \in Seq(Keys)
         /\ IsInjective(Tail(s))
         /\ ToSet(Tail(s)) = ToSet(s) \ {Head(s)}
<1> DEFINE t == Tail(s)
<1>1. /\ t \in Seq(Keys)
      /\ DOMAIN s = 1 .. Len(s) /\ Len(s) \in Nat \ {0}
      /\ DOMAIN t = 1 .. (Len(s) - 1)
      /\ \A j \in DOMAIN t : t[j] = s[j + 1]
      /\ Head(s) = s[1]
  OBVIOUS
<1> HIDE DEF t
<1>2. IsInjective(t)
  BY <1>1 DEF IsInjective
<1>3. \A j \in DOMAIN t : t[j] \in ToSet(s) /\ t[j] # Head(s)
  BY <1>1 DEF IsInjective, ToSet
<1>4. \A x \in ToSet(s) \ {Head(s)} : x \in ToSet(t)
  <2> SUFFICES ASSUME NEW m \in DOMAIN s, s[m] # Head(s)
               PROVE  s[m] \in ToSet(t)
    BY DEF ToSet
  <2>1. m - 1 \in DOMAIN t /\ t[m - 1] = s[m]
    BY <1>1
  <2> QED BY <2>1 DEF ToSet
<1>5. ToSet(t) = ToSet(s) \ {Head(s)}
  BY <1>3, <1>4 DEF ToSet
<1>6. Head(s) \in ToSet(s)
  BY <1>1 DEF ToSet
<1> QED BY <1>1, <1>2, <1>5, <1>6 DEF t

-----------------------------------------------------------------------------
(* The inductive invariant, in four parts.  The capacity bound needs that  *)
(* the keys present are finitely many, the eviction that the order lists   *)
(* exactly the keys present; the properties follow from the parts.         *)

EntriesOK ==
    /\ now \in Nat
    /\ DOMAIN cache \subseteq Keys
    /\ \A k \in DOMAIN cache : cache[k] \in Entries
    /\ \A k \in DOMAIN cache : cache[k].created_at <= now
    /\ LifetimeWithinBounds

OrderOK ==
    /\ recency \in Seq(Keys)
    /\ IsInjective(recency)
    /\ ToSet(recency) = DOMAIN cache

SizeOK ==
    /\ IsFiniteSet(DOMAIN cache)
    /\ Cardinality(DOMAIN cache) <= Cap

StatsOK ==
    stats \in [hits : Nat, misses : Nat, evictions : Nat, expirations : Nat]

CacheInv == EntriesOK /\ OrderOK /\ SizeOK /\ StatsOK

\* The parts give the properties.
LEMMA CacheInvImplies ==
  CacheInv => CacheTypeOK /\ OrderMatchesMap /\ LifetimeWithinBounds
BY DEF CacheInv, EntriesOK, OrderOK, SizeOK, StatsOK, CacheTypeOK,
       OrderMatchesMap

\* The capacity in force is never zero.
LEMMA CapPositive == Cap \in Nat \ {0}
BY CapacityAssumption DEF Cap

\* Every name and type the callers use gives one of the keys.
LEMMA KeyOfKeys ==
  ASSUME NEW d \in Domains, NEW q \in QueryTypes
  PROVE  Key(d, q) \in Keys
BY DEF Keys

\* Entries stay good when each is an old one or was stored by this step, and
\* the clock does not run backwards.
LEMMA EntriesKept ==
  ASSUME EntriesOK, now' \in Nat, now <= now', DOMAIN cache' \subseteq Keys,
         \A j \in DOMAIN cache' :
            \/ j \in DOMAIN cache /\ cache'[j] = cache[j]
            \/ \E p \in Packets : cache'[j] = CachedResponse(p)
  PROVE  EntriesOK'
<1>1. SUFFICES ASSUME NEW j \in DOMAIN cache'
               PROVE  /\ cache'[j] \in Entries
                      /\ cache'[j].created_at <= now'
                      /\ cache'[j].ttl >= MinTtl * Second
                      /\ cache'[j].ttl <= MaxTtl * Second
  BY DEF EntriesOK, LifetimeWithinBounds
<1>2. CASE j \in DOMAIN cache /\ cache'[j] = cache[j]
  <2>1. /\ cache[j] \in Entries /\ cache[j].created_at <= now /\ now \in Nat
        /\ cache[j].ttl >= MinTtl * Second
        /\ cache[j].ttl <= MaxTtl * Second
    BY <1>2 DEF EntriesOK, LifetimeWithinBounds
  <2>2. cache[j].created_at \in Nat
    BY <2>1 DEF Entries
  <2> QED BY <1>2, <2>1, <2>2
<1>3. CASE \E p \in Packets : cache'[j] = CachedResponse(p)
  <2>1. PICK p \in Packets : cache'[j] = CachedResponse(p)
    BY <1>3
  <2>2. now \in Nat
    BY DEF EntriesOK
  <2>3. /\ cache'[j] \in Entries
        /\ cache'[j].created_at = now
        /\ cache'[j].ttl >= MinTtl * Second
        /\ cache'[j].ttl <= MaxTtl * Second
    BY <2>1, <2>2, CachedResponseEntry
  <2> QED BY <2>3
<1> QED BY <1>2, <1>3

\* Counting keeps the statistics natural numbers.
LEMMA CountType ==
  ASSUME StatsOK, NEW f \in {"hits", "misses", "evictions", "expirations"}
  PROVE  Count(f) \in
            [hits : Nat, misses : Nat, evictions : Nat, expirations : Nat]
BY DEF StatsOK, Count

\* Marking a key as the most recent permutes the order.
LEMMA MostRecentOrder ==
  ASSUME OrderOK, NEW k \in DOMAIN cache
  PROVE  /\ MostRecent(k) \in Seq(Keys)
         /\ IsInjective(MostRecent(k))
         /\ ToSet(MostRecent(k)) = DOMAIN cache
<1>1. /\ recency \in Seq(Keys) /\ IsInjective(recency)
      /\ k \in ToSet(recency)
      /\ ToSet(recency) = DOMAIN cache
  BY DEF OrderOK
<1>2. k \in Keys
  BY <1>1 DEF ToSet
<1>3. /\ Without(recency, k) \in Seq(Keys)
      /\ IsInjective(Without(recency, k))
      /\ ToSet(Without(recency, k)) = DOMAIN cache \ {k}
  BY <1>1, WithoutKey
<1>4. /\ MostRecent(k) \in Seq(Keys)
      /\ IsInjective(MostRecent(k))
      /\ ToSet(MostRecent(k)) = (DOMAIN cache \ {k}) \union {k}
  BY <1>2, <1>3, AppendKey DEF MostRecent
<1> QED BY <1>4

-----------------------------------------------------------------------------
(* One lemma for the initial state and one per action                      *)

\* A new cache is empty, its order too, and nothing is counted.
LEMMA CacheInitInv == CacheInit => CacheInv
<1> SUFFICES ASSUME CacheInit PROVE CacheInv
  OBVIOUS
<1>1. DOMAIN cache = {} /\ recency = <<>> /\ now = 0
  BY DEF CacheInit, Nothing
<1>2. StatsOK
  BY DEF CacheInit, StatsOK
<1>3. SizeOK
  BY <1>1, FS_EmptySet, CapPositive DEF SizeOK
<1>4. OrderOK
  BY <1>1 DEF OrderOK, ToSet, IsInjective
<1>5. EntriesOK
  BY <1>1 DEF EntriesOK, LifetimeWithinBounds
<1> QED BY <1>2, <1>3, <1>4, <1>5 DEF CacheInv

\* get() changes no entry, and takes the key it finds expired out of the map
\* and of the order.
LEMMA GetInv ==
  ASSUME CacheInv, NEW d \in Domains, NEW q \in QueryTypes,
         NEW later \in Instants, Get(d, q, later)
  PROVE  CacheInv'
<1> DEFINE k == Key(d, q)
<1>1. now' \in Nat /\ now <= now'
  BY InstantsAssumption DEF Get, CacheInv, EntriesOK
<1>2. EntriesOK /\ OrderOK /\ SizeOK /\ StatsOK /\ DOMAIN cache \subseteq Keys
  BY DEF CacheInv, EntriesOK
<1>3. GetAbsent(k) \/ GetExpired(k) \/ GetHit(k)
  BY DEF Get
<1> HIDE DEF k
<1>4. CASE GetAbsent(k)
  <2>1. cache' = cache /\ recency' = recency /\ stats' = Count("misses")
    BY <1>4 DEF GetAbsent
  <2>2. EntriesOK'
    BY <1>1, <1>2, <2>1, EntriesKept
  <2>3. OrderOK' /\ SizeOK'
    BY <1>2, <2>1 DEF OrderOK, SizeOK
  <2>4. StatsOK'
    BY <1>2, <2>1, CountType DEF StatsOK
  <2> QED BY <2>2, <2>3, <2>4 DEF CacheInv
<1>5. CASE GetHit(k)
  <2>1. /\ k \in DOMAIN cache /\ cache' = cache
        /\ recency' = MostRecent(k) /\ stats' = Count("hits")
    BY <1>5 DEF GetHit, Hit
  <2>2. EntriesOK'
    BY <1>1, <1>2, <2>1, EntriesKept
  <2>3. OrderOK'
    BY <1>2, <2>1, MostRecentOrder DEF OrderOK
  <2>4. SizeOK'
    BY <1>2, <2>1 DEF SizeOK
  <2>5. StatsOK'
    BY <1>2, <2>1, CountType DEF StatsOK
  <2> QED BY <2>2, <2>3, <2>4, <2>5 DEF CacheInv
<1>6. CASE GetExpired(k)
  <2>1. /\ k \in DOMAIN cache
        /\ DOMAIN cache' = DOMAIN cache \ {k}
        /\ \A j \in DOMAIN cache' : cache'[j] = cache[j]
        /\ recency' = Without(recency, k)
    BY <1>6 DEF GetExpired
  <2>2. EntriesOK'
    BY <1>1, <1>2, <2>1, EntriesKept
  <2>3. OrderOK'
    BY <1>2, <2>1, WithoutKey DEF OrderOK
  <2>4. SizeOK'
    <3>1. /\ IsFiniteSet(DOMAIN cache \ {k})
          /\ Cardinality(DOMAIN cache \ {k}) = Cardinality(DOMAIN cache) - 1
      BY <1>2, <2>1, FS_RemoveElement DEF SizeOK
    <3>2. Cardinality(DOMAIN cache) \in Nat
      BY <1>2, FS_CardinalityType DEF SizeOK
    <3> QED BY <1>2, <2>1, <3>1, <3>2, CapPositive DEF SizeOK
  <2>5. StatsOK'
    <3>1. stats' = [stats EXCEPT !.expirations = stats.expirations + 1,
                                 !.misses = stats.misses + 1]
      BY <1>6 DEF GetExpired
    <3>2. stats \in
             [hits : Nat, misses : Nat, evictions : Nat, expirations : Nat]
      BY <1>2 DEF StatsOK
    <3>3. stats.expirations + 1 \in Nat /\ stats.misses + 1 \in Nat
      BY <3>2
    <3> QED BY <3>1, <3>2, <3>3 DEF StatsOK
  <2> QED BY <2>2, <2>3, <2>4, <2>5 DEF CacheInv
<1> QED BY <1>3, <1>4, <1>5, <1>6

\* insert(): one key comes, at most one goes, and the entry stored has a
\* lifetime within the bounds.
LEMMA InsertInv ==
  ASSUME CacheInv, NEW d \in Domains, NEW q \in QueryTypes, NEW p \in Packets,
         Insert(d, q, p)
  PROVE  CacheInv'
<1> DEFINE k == Key(d, q)
           e == CachedResponse(p)
<1>1. k \in Keys
  BY KeyOfKeys
<1>2. /\ PutReplace(k, e) \/ PutAdd(k, e) \/ PutEvict(k, e)
      /\ stats' = IF Full THEN Count("evictions") ELSE stats
      /\ now' = now
  BY DEF Insert
<1>3. EntriesOK /\ OrderOK /\ SizeOK /\ StatsOK /\ DOMAIN cache \subseteq Keys
  BY DEF CacheInv, EntriesOK
<1>4. now' \in Nat /\ now <= now'
  BY <1>2, <1>3 DEF EntriesOK
<1>5. StatsOK'
  BY <1>2, <1>3, CountType DEF StatsOK
<1>6. Cardinality(DOMAIN cache) \in Nat
  BY <1>3, FS_CardinalityType DEF SizeOK
<1>7. e = CachedResponse(p)
  OBVIOUS
<1> HIDE DEF k, e
<1>8. CASE PutReplace(k, e)
  <2>1. /\ k \in DOMAIN cache
        /\ DOMAIN cache' = DOMAIN cache
        /\ \A j \in DOMAIN cache' : cache'[j] = IF j = k THEN e ELSE cache[j]
        /\ recency' = MostRecent(k)
    BY <1>8 DEF PutReplace
  <2>2. EntriesOK'
    BY <1>3, <1>4, <1>7, <2>1, EntriesKept
  <2>3. OrderOK'
    BY <1>3, <2>1, MostRecentOrder DEF OrderOK
  <2>4. SizeOK'
    BY <1>3, <2>1 DEF SizeOK
  <2> QED BY <1>5, <2>2, <2>3, <2>4 DEF CacheInv
<1>9. CASE PutAdd(k, e)
  <2>1. /\ k \notin DOMAIN cache
        /\ DOMAIN cache' = DOMAIN cache \union {k}
        /\ \A j \in DOMAIN cache' : cache'[j] = IF j = k THEN e ELSE cache[j]
        /\ recency' = Append(recency, k)
        /\ Cardinality(DOMAIN cache) # Cap
    BY <1>9 DEF PutAdd, Full
  <2>2. EntriesOK'
    BY <1>1, <1>3, <1>4, <1>7, <2>1, EntriesKept
  <2>3. OrderOK'
    BY <1>1, <1>3, <2>1, AppendKey DEF OrderOK
  <2>4. SizeOK'
    <3>1. /\ IsFiniteSet(DOMAIN cache \union {k})
          /\ Cardinality(DOMAIN cache \union {k}) = Cardinality(DOMAIN cache) + 1
      BY <1>3, <2>1, FS_AddElement DEF SizeOK
    <3> QED BY <1>3, <1>6, <2>1, <3>1, CapPositive DEF SizeOK
  <2> QED BY <1>5, <2>2, <2>3, <2>4 DEF CacheInv
<1>10. CASE PutEvict(k, e)
  <2> DEFINE rest == DOMAIN cache \ {Head(recency)}
  <2>1. /\ k \notin DOMAIN cache
        /\ DOMAIN cache' = rest \union {k}
        /\ \A j \in DOMAIN cache' : cache'[j] = IF j = k THEN e ELSE cache[j]
        /\ recency' = Append(Tail(recency), k)
        /\ Cardinality(DOMAIN cache) = Cap
    BY <1>10 DEF PutEvict, Full
  <2>2. recency # <<>>
    <3>1. DOMAIN cache # {}
      BY <2>1, FS_EmptySet, CapPositive
    <3> QED BY <1>3, <3>1 DEF OrderOK, ToSet
  <2>3. /\ Head(recency) \in DOMAIN cache
        /\ Tail(recency) \in Seq(Keys)
        /\ IsInjective(Tail(recency))
        /\ ToSet(Tail(recency)) = rest
    BY <1>3, <2>2, TailKey DEF OrderOK
  <2>4. EntriesOK'
    BY <1>1, <1>3, <1>4, <1>7, <2>1, EntriesKept
  <2>5. OrderOK'
    BY <1>1, <2>1, <2>3, AppendKey DEF OrderOK
  <2>6. SizeOK'
    <3>1. IsFiniteSet(rest) /\ Cardinality(rest) = Cap - 1
      BY <1>3, <2>1, <2>3, FS_RemoveElement DEF SizeOK
    <3>2. k \notin rest
      BY <2>1
    <3> HIDE DEF rest
    <3>3. /\ IsFiniteSet(rest \union {k})
          /\ Cardinality(rest \union {k}) = Cap
      BY <3>1, <3>2, FS_AddElement, CapPositive
    <3> QED BY <2>1, <3>3, CapPositive DEF SizeOK
  <2> QED BY <1>5, <2>4, <2>5, <2>6 DEF CacheInv
<1> QED BY <1>2, <1>8, <1>9, <1>10

\* clear() leaves an empty map with an empty order, and the statistics alone.
LEMMA ClearInv ==
  ASSUME CacheInv, Clear
  PROVE  CacheInv'
<1>1. /\ DOMAIN cache' = {} /\ recency' = <<>>
      /\ stats' = stats /\ now' = now
  BY DEF Clear, Nothing
<1>2. EntriesOK'
  BY <1>1 DEF CacheInv, EntriesOK, LifetimeWithinBounds
<1>3. OrderOK'
  BY <1>1 DEF OrderOK, ToSet, IsInjective
<1>4. SizeOK'
  BY <1>1, FS_EmptySet, CapPositive DEF SizeOK
<1>5. StatsOK'
  BY <1>1 DEF CacheInv, StatsOK
<1> QED BY <1>2, <1>3, <1>4, <1>5 DEF CacheInv

\* Time passes without touching an entry, and none is then of the future.
LEMMA TickInv ==
  ASSUME CacheInv, NEW t \in Instants, Tick(t)
  PROVE  CacheInv'
<1>1. /\ now' \in Nat /\ now <= now'
      /\ cache' = cache /\ recency' = recency /\ stats' = stats
  BY InstantsAssumption DEF Tick, CacheInv, EntriesOK
<1>2. EntriesOK'
  BY <1>1, EntriesKept DEF CacheInv, EntriesOK
<1>3. OrderOK' /\ SizeOK' /\ StatsOK'
  BY <1>1 DEF CacheInv, OrderOK, SizeOK, StatsOK
<1> QED BY <1>2, <1>3 DEF CacheInv

\* Every step of the cache preserves the invariant.
LEMMA CacheStepInv ==
  ASSUME CacheInv, [CacheNext]_cacheVars
  PROVE  CacheInv'
<1>1. CASE UNCHANGED cacheVars
  BY <1>1 DEF cacheVars, CacheInv, EntriesOK, LifetimeWithinBounds, OrderOK,
              SizeOK, StatsOK
<1>2. CASE \E d \in Domains, q \in QueryTypes, later \in Instants :
              Get(d, q, later)
  BY <1>2, GetInv
<1>3. CASE \E d \in Domains, q \in QueryTypes, p \in Packets : Insert(d, q, p)
  BY <1>3, InsertInv
<1>4. CASE Clear
  BY <1>4, ClearInv
<1>5. CASE \E t \in Instants : Tick(t)
  BY <1>5, TickInv
<1> QED BY <1>1, <1>2, <1>3, <1>4, <1>5 DEF CacheNext

\* The invariant holds from the first state on.
LEMMA CacheInvHolds == CacheSpec => []CacheInv
<1>1. CacheInv /\ [CacheNext]_cacheVars => CacheInv'
  BY CacheStepInv
<1> QED BY <1>1, CacheInitInv, PTL DEF CacheSpec

-----------------------------------------------------------------------------
(* The theorems                                                            *)

\* Whatever the callers do, entries stay well formed and none comes from the
\* future, so that elapsed() never runs backwards.
THEOREM CacheTypeCorrect == CacheSpec => []CacheTypeOK
BY CacheInvHolds, CacheInvImplies, PTL

\* The map and the LRU order never drift apart, and the cache never holds
\* more than the configured number of entries.
THEOREM CacheBounded == CacheSpec => []OrderMatchesMap
BY CacheInvHolds, CacheInvImplies, PTL

\* No entry is ever kept for less than min_ttl_secs or more than max_ttl_secs.
THEOREM CacheLifetimes == CacheSpec => []LifetimeWithinBounds
BY CacheInvHolds, CacheInvImplies, PTL
=============================================================================
