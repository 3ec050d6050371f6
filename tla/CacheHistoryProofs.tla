------------------------- MODULE CacheHistoryProofs -------------------------
(***************************************************************************)
(* What the cache does for its callers, for every capacity, TTL bound and  *)
(* clock: it keeps the promise of CachePromise, gives up only the key      *)
(* unused for longest, and its statistics account for every key.           *)
(***************************************************************************)
EXTENDS CacheHistory, DnsCacheProofs

-----------------------------------------------------------------------------
(* The inductive invariant: that of the cache, and what the history adds   *)

\* Keys later in an order were touched later.
Ordered(s, touched) ==
    \A i, j \in DOMAIN s : i < j => touched[s[i]] < touched[s[j]]

TouchesOK ==
    /\ ops \in Nat
    /\ lastTouch \in [Keys -> Nat]
    /\ \A k \in Keys : lastTouch[k] <= ops
    /\ Ordered(recency, lastTouch)

TallyOK ==
    /\ tally \in [lookups : Nat, entered : Nat, pushedOut : Nat, cleared : Nat]
    /\ BooksBalance

\* The lifetime of an entry is what its packet gives it.
LifetimesOK == \A k \in DOMAIN cache : cache[k].ttl = EffectiveTtl(cache[k].packet) * Second

HistoryInv == CacheInv /\ TouchesOK /\ TallyOK /\ LifetimesOK

-----------------------------------------------------------------------------
(* Orders of use                                                           *)

\* Taking a key out of an order leaves the others in theirs.
LEMMA WithoutOrdered ==
  ASSUME NEW s \in Seq(Keys), NEW f, Ordered(s, f), NEW k \in ToSet(s)
  PROVE  Ordered(Without(s, k), f)
<1> DEFINE i == CHOOSE i \in DOMAIN s : s[i] = k
           w == RemoveAt(s, i)
<1>1. i \in DOMAIN s
  BY DEF ToSet
<1>2. Without(s, k) = w
  BY DEF Without
<1> HIDE DEF i
<1>3. /\ w \in Seq(Keys)
      /\ Len(w) = Len(s) - 1
      /\ \A j \in 1 .. (Len(s) - 1) : w[j] = IF j < i THEN s[j] ELSE s[j + 1]
  BY <1>1, RemoveAtElements
<1> HIDE DEF w
<1>4. DOMAIN s = 1 .. Len(s) /\ DOMAIN w = 1 .. (Len(s) - 1) /\ Len(s) \in Nat
  BY <1>3
<1>5. SUFFICES ASSUME NEW a \in DOMAIN w, NEW b \in DOMAIN w, a < b
               PROVE  f[w[a]] < f[w[b]]
  BY <1>2 DEF Ordered
<1> DEFINE from(j) == IF j < i THEN j ELSE j + 1
<1>6. /\ from(a) \in DOMAIN s /\ w[a] = s[from(a)]
      /\ from(b) \in DOMAIN s /\ w[b] = s[from(b)]
      /\ from(a) < from(b)
  BY <1>1, <1>3, <1>4, <1>5
<1> QED BY <1>6 DEF Ordered

\* A key touched just now belongs at the end.
LEMMA AppendOrdered ==
  ASSUME NEW s \in Seq(Keys), NEW f \in [Keys -> Nat], Ordered(s, f),
         NEW k \in Keys, k \notin ToSet(s), NEW n \in Nat,
         \A j \in Keys : f[j] < n
  PROVE  Ordered(Append(s, k), [f EXCEPT ![k] = n])
<1> DEFINE w == Append(s, k)
           g == [f EXCEPT ![k] = n]
<1>1. /\ DOMAIN w = 1 .. (Len(s) + 1)
      /\ DOMAIN s = 1 .. Len(s) /\ Len(s) \in Nat
      /\ w[Len(s) + 1] = k
      /\ \A j \in 1 .. Len(s) : w[j] = s[j] /\ s[j] \in Keys
  OBVIOUS
<1>2. \A j \in Keys : g[j] = IF j = k THEN n ELSE f[j]
  OBVIOUS
<1>3. \A j \in 1 .. Len(s) : s[j] # k
  BY <1>1 DEF ToSet
<1> HIDE DEF w, g
<1>4. SUFFICES ASSUME NEW a \in DOMAIN w, NEW b \in DOMAIN w, a < b
               PROVE  g[w[a]] < g[w[b]]
  BY DEF Ordered, w, g
<1>5. a \in 1 .. Len(s) /\ g[w[a]] = f[s[a]] /\ f[s[a]] < n
  BY <1>1, <1>2, <1>3, <1>4
<1>6. CASE b = Len(s) + 1
  BY <1>1, <1>2, <1>5, <1>6
<1>7. CASE b \in 1 .. Len(s)
  <2>1. g[w[b]] = f[s[b]]
    BY <1>1, <1>2, <1>3, <1>7
  <2> QED BY <1>1, <1>4, <1>5, <1>7, <2>1 DEF Ordered
<1> QED BY <1>1, <1>6, <1>7

\* The order without its first key is in order.
LEMMA TailOrdered ==
  ASSUME NEW s \in Seq(Keys), NEW f, Ordered(s, f), s # <<>>
  PROVE  Ordered(Tail(s), f)
<1> DEFINE t == Tail(s)
<1>1. /\ DOMAIN s = 1 .. Len(s) /\ Len(s) \in Nat \ {0}
      /\ DOMAIN t = 1 .. (Len(s) - 1)
      /\ \A j \in DOMAIN t : t[j] = s[j + 1]
  OBVIOUS
<1> HIDE DEF t
<1>2. SUFFICES ASSUME NEW a \in DOMAIN t, NEW b \in DOMAIN t, a < b
               PROVE  f[t[a]] < f[t[b]]
  BY DEF Ordered, t
<1>3. /\ a + 1 \in DOMAIN s /\ b + 1 \in DOMAIN s /\ a + 1 < b + 1
      /\ t[a] = s[a + 1] /\ t[b] = s[b + 1]
  BY <1>1, <1>2
<1> QED BY <1>3 DEF Ordered

\* The first key of an order was touched before all others.
LEMMA HeadIsOldest ==
  ASSUME NEW s \in Seq(Keys), NEW f, Ordered(s, f), s # <<>>,
         NEW j \in ToSet(s), j # Head(s)
  PROVE  f[Head(s)] < f[j]
<1>1. PICK i \in DOMAIN s : s[i] = j
  BY DEF ToSet
<1>2. Head(s) = s[1] /\ 1 \in DOMAIN s /\ DOMAIN s = 1 .. Len(s) /\ Len(s) \in Nat
  OBVIOUS
<1>3. 1 < i
  BY <1>1, <1>2
<1> QED BY <1>1, <1>2, <1>3 DEF Ordered

-----------------------------------------------------------------------------
(* One lemma per part of the invariant and per action                      *)

\* Touching a key at this call keeps every stamp in the past of the next.
LEMMA TouchStamps ==
  ASSUME TouchesOK, NEW k \in Keys, Touch(k), ops' = ops + 1
  PROVE  /\ ops' \in Nat
         /\ lastTouch' \in [Keys -> Nat]
         /\ \A j \in Keys : lastTouch'[j] <= ops'
BY DEF TouchesOK, Touch

\* A key that is used, as an order of use records it: last, and touched last.
LEMMA UseOrdered ==
  ASSUME CacheInv, TouchesOK, NEW k \in DOMAIN cache, Touch(k)
  PROVE  Ordered(MostRecent(k), lastTouch')
<1>1. /\ recency \in Seq(Keys) /\ IsInjective(recency)
      /\ ToSet(recency) = DOMAIN cache /\ k \in ToSet(recency)
      /\ k \in Keys
  BY DEF CacheInv, OrderOK, EntriesOK
<1>2. /\ Without(recency, k) \in Seq(Keys)
      /\ k \notin ToSet(Without(recency, k))
  BY <1>1, WithoutKey
<1>3. Ordered(Without(recency, k), lastTouch)
  BY <1>1, WithoutOrdered DEF TouchesOK
<1>4. /\ lastTouch \in [Keys -> Nat] /\ ops + 1 \in Nat
      /\ \A j \in Keys : lastTouch[j] < ops + 1
  BY DEF TouchesOK
<1> QED BY <1>1, <1>2, <1>3, <1>4, AppendOrdered DEF MostRecent, Touch

\* A call of get() that hits uses the key; no other changes the stamps.
LEMMA GetTouches ==
  ASSUME HistoryInv, NEW d \in Domains, NEW q \in QueryTypes,
         NEW later \in Instants, CallGet(d, q, later), ops' = ops + 1
  PROVE  TouchesOK'
<1> DEFINE k == Key(d, q)
<1>1. /\ k \in Keys
      /\ GetAbsent(k) \/ GetExpired(k) \/ GetHit(k)
      /\ IF Hit(k) THEN Touch(k) ELSE lastTouch' = lastTouch
  BY KeyOfKeys DEF CallGet, Get
<1>2. CacheInv /\ TouchesOK
  BY DEF HistoryInv
<1> HIDE DEF k
<1>3. CASE GetHit(k)
  <2>1. Hit(k) /\ k \in DOMAIN cache /\ recency' = MostRecent(k) /\ Touch(k)
    BY <1>1, <1>3 DEF GetHit, Hit
  <2>2. Ordered(recency', lastTouch')
    BY <1>2, <2>1, UseOrdered
  <2> QED BY <1>1, <1>2, <2>1, <2>2, TouchStamps DEF TouchesOK
<1>4. CASE GetAbsent(k)
  BY <1>1, <1>2, <1>4 DEF GetAbsent, Hit, TouchesOK
<1>5. CASE GetExpired(k)
  <2>1. /\ lastTouch' = lastTouch /\ recency' = Without(recency, k)
        /\ k \in ToSet(recency) /\ recency \in Seq(Keys)
    BY <1>1, <1>2, <1>5 DEF GetExpired, Hit, CacheInv, OrderOK
  <2>2. Ordered(recency', lastTouch')
    BY <1>2, <2>1, WithoutOrdered DEF TouchesOK
  <2> QED BY <1>2, <2>1, <2>2 DEF TouchesOK
<1> QED BY <1>1, <1>3, <1>4, <1>5

\* A full cache has a first key in its order, and that key is in the map.
LEMMA EvictedKey ==
  ASSUME CacheInv, Full
  PROVE  /\ recency # <<>> /\ Head(recency) \in DOMAIN cache
         /\ Tail(recency) \in Seq(Keys)
         /\ ToSet(Tail(recency)) = DOMAIN cache \ {Head(recency)}
<1>1. DOMAIN cache # {}
  BY FS_EmptySet, CapPositive DEF Full
<1>2. recency # <<>>
  BY <1>1 DEF CacheInv, OrderOK, ToSet
<1> QED BY <1>2, TailKey DEF CacheInv, OrderOK

\* insert() puts its key last in the order, however it makes room.
LEMMA InsertTouches ==
  ASSUME HistoryInv, NEW d \in Domains, NEW q \in QueryTypes, NEW p \in Packets,
         CallInsert(d, q, p), ops' = ops + 1
  PROVE  TouchesOK'
<1> DEFINE k == Key(d, q)
           e == CachedResponse(p)
<1>1. /\ k \in Keys /\ Touch(k)
      /\ PutReplace(k, e) \/ PutAdd(k, e) \/ PutEvict(k, e)
  BY KeyOfKeys DEF CallInsert, Insert
<1>2. CacheInv /\ TouchesOK
  BY DEF HistoryInv
<1>3. /\ lastTouch \in [Keys -> Nat] /\ ops + 1 \in Nat
      /\ \A j \in Keys : lastTouch[j] < ops + 1
      /\ lastTouch' = [lastTouch EXCEPT ![k] = ops + 1]
      /\ recency \in Seq(Keys) /\ ToSet(recency) = DOMAIN cache
      /\ Ordered(recency, lastTouch)
  BY <1>1, <1>2 DEF TouchesOK, Touch, CacheInv, OrderOK
<1> HIDE DEF k, e
<1>4. Ordered(recency', lastTouch')
  <2>1. CASE PutReplace(k, e)
    BY <1>1, <1>2, <2>1, UseOrdered DEF PutReplace
  <2>2. CASE PutAdd(k, e)
    <3>1. k \notin ToSet(recency) /\ recency' = Append(recency, k)
      BY <1>3, <2>2 DEF PutAdd
    <3> QED BY <1>1, <1>3, <3>1, AppendOrdered
  <2>3. CASE PutEvict(k, e)
    <3>1. /\ k \notin DOMAIN cache /\ Full
          /\ recency' = Append(Tail(recency), k)
      BY <2>3 DEF PutEvict
    <3>2. /\ recency # <<>> /\ Tail(recency) \in Seq(Keys)
          /\ k \notin ToSet(Tail(recency))
      BY <1>2, <3>1, EvictedKey
    <3>3. Ordered(Tail(recency), lastTouch)
      BY <1>3, <3>2, TailOrdered
    <3> QED BY <1>1, <1>3, <3>1, <3>2, <3>3, AppendOrdered
  <2> QED BY <1>1, <2>1, <2>2, <2>3
<1> QED BY <1>1, <1>2, <1>4, TouchStamps DEF TouchesOK

\* Every lookup is a hit or a miss, and only one that finds its entry expired
\* takes a key off the map.
LEMMA GetTally ==
  ASSUME HistoryInv, NEW d \in Domains, NEW q \in QueryTypes,
         NEW later \in Instants, CallGet(d, q, later)
  PROVE  TallyOK'
<1> DEFINE k == Key(d, q)
<1>1. /\ GetAbsent(k) \/ GetExpired(k) \/ GetHit(k)
      /\ tally' = [tally EXCEPT !.lookups = tally.lookups + 1]
  BY DEF CallGet, Get
<1>2. /\ tally \in [lookups : Nat, entered : Nat, pushedOut : Nat, cleared : Nat]
      /\ stats \in [hits : Nat, misses : Nat, evictions : Nat, expirations : Nat]
      /\ BooksBalance
      /\ IsFiniteSet(DOMAIN cache) /\ Cardinality(DOMAIN cache) \in Nat
  BY FS_CardinalityType DEF HistoryInv, TallyOK, CacheInv, StatsOK, SizeOK
<1> HIDE DEF k
<1>3. CASE GetAbsent(k) \/ GetHit(k)
  <2>1. /\ DOMAIN cache' = DOMAIN cache
        /\ stats' = Count("misses") \/ stats' = Count("hits")
    BY <1>3 DEF GetAbsent, GetHit
  <2> QED BY <1>1, <1>2, <2>1 DEF TallyOK, BooksBalance, Count
<1>4. CASE GetExpired(k)
  <2>1. /\ k \in DOMAIN cache /\ DOMAIN cache' = DOMAIN cache \ {k}
        /\ stats' = [stats EXCEPT !.expirations = stats.expirations + 1,
                                  !.misses = stats.misses + 1]
    BY <1>4 DEF GetExpired
  <2>2. Cardinality(DOMAIN cache') = Cardinality(DOMAIN cache) - 1
    BY <1>2, <2>1, FS_RemoveElement
  <2> QED BY <1>1, <1>2, <2>1, <2>2 DEF TallyOK, BooksBalance
<1> QED BY <1>1, <1>3, <1>4

\* The keys that come and go with an insert, by the way it makes room.
LEMMA InsertKeys ==
  ASSUME CacheInv, NEW d \in Domains, NEW q \in QueryTypes, NEW p \in Packets,
         Insert(d, q, p)
  PROVE  LET k == Key(d, q)
             come == DOMAIN cache' \ DOMAIN cache
             go == DOMAIN cache \ DOMAIN cache'
         IN  \/ come = {} /\ go = {} /\ k \in DOMAIN cache
             \/ come = {k} /\ go = {} /\ k \notin DOMAIN cache /\ ~Full
             \/ /\ come = {k} /\ go = {Head(recency)}
                /\ k \notin DOMAIN cache /\ Full /\ Head(recency) \in DOMAIN cache
<1> DEFINE k == Key(d, q)
           e == CachedResponse(p)
<1>1. PutReplace(k, e) \/ PutAdd(k, e) \/ PutEvict(k, e)
  BY DEF Insert
<1> HIDE DEF k, e
<1>2. CASE PutReplace(k, e)
  <2>1. DOMAIN cache' = DOMAIN cache /\ k \in DOMAIN cache
    BY <1>2 DEF PutReplace
  <2> QED BY <2>1 DEF k
<1>3. CASE PutAdd(k, e)
  <2>1. DOMAIN cache' = DOMAIN cache \union {k} /\ k \notin DOMAIN cache /\ ~Full
    BY <1>3 DEF PutAdd
  <2> QED BY <2>1 DEF k
<1>4. CASE PutEvict(k, e)
  <2>1. /\ DOMAIN cache' = (DOMAIN cache \ {Head(recency)}) \union {k}
        /\ k \notin DOMAIN cache /\ Full
    BY <1>4 DEF PutEvict
  <2>2. Head(recency) \in DOMAIN cache
    BY <2>1, EvictedKey
  <2> QED BY <2>1, <2>2 DEF k
<1> QED BY <1>1, <1>2, <1>3, <1>4

\* The books after "in" keys came and "out" keys went, field by field.
LEMMA TallyMoves ==
  ASSUME tally \in [lookups : Nat, entered : Nat, pushedOut : Nat, cleared : Nat],
         NEW in \in Nat, NEW out \in Nat,
         tally' = [tally EXCEPT !.entered = tally.entered + in,
                                !.pushedOut = tally.pushedOut + out]
  PROVE  /\ tally' \in [lookups : Nat, entered : Nat, pushedOut : Nat, cleared : Nat]
         /\ tally'.lookups = tally.lookups
         /\ tally'.entered = tally.entered + in
         /\ tally'.pushedOut = tally.pushedOut + out
         /\ tally'.cleared = tally.cleared
<1>1. tally.entered + in \in Nat /\ tally.pushedOut + out \in Nat
  OBVIOUS
<1> QED BY <1>1

\* A key that enters is in the map afterwards, one that is pushed out was
\* counted as evicted.
LEMMA InsertTally ==
  ASSUME HistoryInv, NEW d \in Domains, NEW q \in QueryTypes, NEW p \in Packets,
         CallInsert(d, q, p)
  PROVE  TallyOK'
<1> DEFINE come == DOMAIN cache' \ DOMAIN cache
           go == DOMAIN cache \ DOMAIN cache'
           in == Cardinality(come)
           out == Cardinality(go)
           size == Cardinality(DOMAIN cache)
<1>1. /\ Insert(d, q, p)
      /\ stats' = IF Full THEN Count("evictions") ELSE stats
      /\ tally' = [tally EXCEPT !.entered = tally.entered + in,
                                !.pushedOut = tally.pushedOut + out]
  BY DEF CallInsert, Insert
<1>2. /\ tally \in [lookups : Nat, entered : Nat, pushedOut : Nat, cleared : Nat]
      /\ stats \in [hits : Nat, misses : Nat, evictions : Nat, expirations : Nat]
      /\ BooksBalance /\ CacheInv
      /\ IsFiniteSet(DOMAIN cache) /\ size \in Nat
  BY FS_CardinalityType DEF HistoryInv, TallyOK, CacheInv, StatsOK, SizeOK
<1>3. PICK k : \/ come = {} /\ go = {}
               \/ come = {k} /\ go = {} /\ k \notin DOMAIN cache
               \/ /\ come = {k} /\ go = {Head(recency)}
                  /\ k \notin DOMAIN cache /\ Full /\ Head(recency) \in DOMAIN cache
  BY <1>1, <1>2, InsertKeys
<1>4. DOMAIN cache' = (DOMAIN cache \ go) \union come
  OBVIOUS
<1> HIDE DEF come, go
<1>5. /\ in \in Nat /\ out \in Nat
      /\ Cardinality(DOMAIN cache') = size + in - out
      /\ out # 0 => out = 1 /\ Full
  <2>1. CASE come = {} /\ go = {}
    BY <1>2, <1>4, <2>1, FS_EmptySet
  <2>2. CASE come = {k} /\ go = {} /\ k \notin DOMAIN cache
    <3>1. DOMAIN cache' = DOMAIN cache \union {k} /\ in = 1 /\ out = 0
      BY <1>4, <2>2, FS_EmptySet, FS_Singleton
    <3> QED BY <1>2, <2>2, <3>1, FS_AddElement
  <2>3. CASE /\ come = {k} /\ go = {Head(recency)}
             /\ k \notin DOMAIN cache /\ Full /\ Head(recency) \in DOMAIN cache
    <3> DEFINE rest == DOMAIN cache \ {Head(recency)}
    <3>1. /\ DOMAIN cache' = rest \union {k} /\ k \notin rest
          /\ in = 1 /\ out = 1
      BY <1>4, <2>3, FS_Singleton
    <3>2. IsFiniteSet(rest) /\ Cardinality(rest) = size - 1
      BY <1>2, <2>3, FS_RemoveElement
    <3> HIDE DEF rest
    <3>3. Cardinality(DOMAIN cache') = size
      BY <1>2, <3>1, <3>2, FS_AddElement
    <3> QED BY <1>2, <2>3, <3>1, <3>3
  <2> QED BY <1>3, <2>1, <2>2, <2>3
<1> HIDE DEF in, out
<1>6. /\ tally' \in [lookups : Nat, entered : Nat, pushedOut : Nat, cleared : Nat]
      /\ tally'.lookups = tally.lookups
      /\ tally'.entered = tally.entered + in
      /\ tally'.pushedOut = tally.pushedOut + out
      /\ tally'.cleared = tally.cleared
  BY <1>1, <1>2, <1>5, TallyMoves
<1>7. /\ stats'.hits = stats.hits /\ stats'.misses = stats.misses
      /\ stats'.expirations = stats.expirations
      /\ stats'.evictions = IF Full THEN stats.evictions + 1 ELSE stats.evictions
  BY <1>1, <1>2 DEF Count
<1> QED BY <1>2, <1>5, <1>6, <1>7 DEF TallyOK, BooksBalance

\* Entries keep the lifetime they were stored with.
LEMMA LifetimesKept ==
  ASSUME LifetimesOK,
         \A j \in DOMAIN cache' :
            \/ j \in DOMAIN cache /\ cache'[j] = cache[j]
            \/ \E p \in Packets : cache'[j] = CachedResponse(p)
  PROVE  LifetimesOK'
<1> SUFFICES ASSUME NEW j \in DOMAIN cache'
             PROVE  cache'[j].ttl = EffectiveTtl(cache'[j].packet) * Second
  BY DEF LifetimesOK
<1>1. CASE j \in DOMAIN cache /\ cache'[j] = cache[j]
  BY <1>1 DEF LifetimesOK
<1>2. CASE \E p \in Packets : cache'[j] = CachedResponse(p)
  <2>1. PICK p \in Packets : cache'[j] = CachedResponse(p)
    BY <1>2
  <2> QED BY <2>1 DEF CachedResponse
<1> QED BY <1>1, <1>2

\* clear() takes every key off the map, and the books say so.
LEMMA ClearHistory ==
  ASSUME HistoryInv, CallClear, ops' = ops + 1
  PROVE  TouchesOK' /\ TallyOK' /\ LifetimesOK'
<1> DEFINE size == Cardinality(DOMAIN cache)
<1>1. /\ DOMAIN cache' = {} /\ recency' = <<>> /\ stats' = stats
      /\ lastTouch' = lastTouch
      /\ tally' = [tally EXCEPT !.cleared = tally.cleared + size]
  BY DEF CallClear, Clear, Nothing
<1>2. /\ tally \in [lookups : Nat, entered : Nat, pushedOut : Nat, cleared : Nat]
      /\ stats \in [hits : Nat, misses : Nat, evictions : Nat, expirations : Nat]
      /\ BooksBalance /\ TouchesOK
      /\ size \in Nat
  BY FS_CardinalityType DEF HistoryInv, TallyOK, CacheInv, StatsOK, SizeOK
<1>3. Cardinality(DOMAIN cache') = 0
  BY <1>1, FS_EmptySet
<1> HIDE DEF size
<1>4. TallyOK'
  <2>1. /\ tally' \in [lookups : Nat, entered : Nat, pushedOut : Nat, cleared : Nat]
        /\ tally'.lookups = tally.lookups
        /\ tally'.entered = tally.entered
        /\ tally'.pushedOut = tally.pushedOut
        /\ tally'.cleared = tally.cleared + size
    <3>1. tally.cleared + size \in Nat
      BY <1>2
    <3> QED BY <1>1, <1>2, <3>1
  <2>2. tally.entered = size + tally.pushedOut + tally.cleared + stats.expirations
    BY <1>2 DEF BooksBalance, size
  <2> QED BY <1>1, <1>2, <1>3, <2>1, <2>2 DEF TallyOK, BooksBalance
<1>5. TouchesOK'
  BY <1>1, <1>2 DEF TouchesOK, Ordered
<1> QED BY <1>1, <1>4, <1>5 DEF LifetimesOK

\* Time alone touches no key and moves no entry of the books.
LEMMA TickHistory ==
  ASSUME HistoryInv, NEW t \in Instants, TimePasses(t), ops' = ops + 1
  PROVE  TouchesOK' /\ TallyOK' /\ LifetimesOK'
<1>1. /\ cache' = cache /\ recency' = recency /\ stats' = stats
      /\ lastTouch' = lastTouch /\ tally' = tally
  BY DEF TimePasses, Tick
<1>2. TouchesOK /\ TallyOK /\ LifetimesOK
  BY DEF HistoryInv
<1> QED BY <1>1, <1>2 DEF TouchesOK, Ordered, TallyOK, BooksBalance, LifetimesOK

\* The history starts as the cache does.
LEMMA HistoryInit == Init => HistoryInv
<1> SUFFICES ASSUME Init PROVE HistoryInv
  OBVIOUS
<1>1. /\ CacheInit /\ ops = 0 /\ lastTouch = [k \in Keys |-> 0]
      /\ tally = [lookups |-> 0, entered |-> 0, pushedOut |-> 0, cleared |-> 0]
  BY DEF Init
<1>2. /\ DOMAIN cache = {} /\ recency = <<>>
      /\ stats = [hits |-> 0, misses |-> 0, evictions |-> 0, expirations |-> 0]
  BY <1>1 DEF CacheInit, Nothing
<1>3. CacheInv
  BY <1>1, CacheInitInv
<1>4. TouchesOK
  BY <1>1, <1>2 DEF TouchesOK, Ordered
<1>5. TallyOK
  <2>1. Cardinality(DOMAIN cache) = 0
    BY <1>2, FS_EmptySet
  <2> QED BY <1>1, <1>2, <2>1 DEF TallyOK, BooksBalance
<1> QED BY <1>2, <1>3, <1>4, <1>5 DEF HistoryInv, LifetimesOK

\* Every call preserves the invariant.
LEMMA HistoryStep ==
  ASSUME HistoryInv, [Next]_vars
  PROVE  HistoryInv'
<1> USE DEF HistoryInv
<1>1. CASE \E d \in Domains, q \in QueryTypes, later \in Instants :
              CallGet(d, q, later) /\ ops' = ops + 1
  <2>1. PICK d \in Domains, q \in QueryTypes, later \in Instants :
                CallGet(d, q, later) /\ ops' = ops + 1
    BY <1>1
  <2>2. Get(d, q, later)
    BY <2>1 DEF CallGet
  <2>3. \A j \in DOMAIN cache' : j \in DOMAIN cache /\ cache'[j] = cache[j]
    BY <2>2 DEF Get, GetAbsent, GetExpired, GetHit
  <2> QED BY <2>1, <2>2, <2>3, GetInv, GetTouches, GetTally, LifetimesKept
<1>2. CASE \E d \in Domains, q \in QueryTypes, p \in Packets :
              CallInsert(d, q, p) /\ ops' = ops + 1
  <2>1. PICK d \in Domains, q \in QueryTypes, p \in Packets :
                CallInsert(d, q, p) /\ ops' = ops + 1
    BY <1>2
  <2>2. Insert(d, q, p)
    BY <2>1 DEF CallInsert
  <2>3. \A j \in DOMAIN cache' : \/ j \in DOMAIN cache /\ cache'[j] = cache[j]
                                 \/ cache'[j] = CachedResponse(p)
    BY <2>2 DEF Insert, PutReplace, PutAdd, PutEvict
  <2> QED BY <2>1, <2>2, <2>3, InsertInv, InsertTouches, InsertTally, LifetimesKept
<1>3. CASE CallClear /\ ops' = ops + 1
  BY <1>3, ClearInv, ClearHistory DEF CallClear
<1>4. CASE \E t \in Instants : TimePasses(t) /\ ops' = ops + 1
  BY <1>4, TickInv, TickHistory DEF TimePasses
<1>5. CASE UNCHANGED vars
  <2>1. UNCHANGED <<cacheVars, ops, lastTouch, tally>>
    BY <1>5 DEF vars
  <2>2. UNCHANGED <<cache, recency, stats, now>>
    BY <2>1 DEF cacheVars
  <2>3. CacheInv'
    BY <2>1, CacheStepInv
  <2> QED BY <2>1, <2>2, <2>3 DEF TouchesOK, Ordered, TallyOK, BooksBalance, LifetimesOK
<1> QED BY <1>1, <1>2, <1>3, <1>4, <1>5 DEF Next

\* The invariant holds from the first state on.
LEMMA HistoryInvHolds == Spec => []HistoryInv
<1>1. HistoryInv /\ [Next]_vars => HistoryInv'
  BY HistoryStep
<1> QED BY <1>1, HistoryInit, PTL DEF Spec

\* The statistics account for every key and every lookup, whatever the calls,
\* their order and the capacity.
THEOREM CacheBooksBalance == Spec => []BooksBalance
<1>1. HistoryInv => BooksBalance
  BY DEF HistoryInv, TallyOK
<1> QED BY <1>1, HistoryInvHolds, PTL

\* A key that makes room for another is the one unused for longest.
LEMMA EvictedIsOldest ==
  ASSUME HistoryInv, Next, NEW k \in DOMAIN cache \ DOMAIN cache',
         reply'.kind = "none", DOMAIN cache' # {},
         NEW j \in DOMAIN cache \ {k}
  PROVE  lastTouch[k] < lastTouch[j]
<1>1. CASE \E d \in Domains, q \in QueryTypes, p \in Packets : CallInsert(d, q, p)
  <2>1. PICK d \in Domains, q \in QueryTypes, p \in Packets : Insert(d, q, p)
    BY <1>1 DEF CallInsert
  <2>2. CacheInv /\ TouchesOK
    BY DEF HistoryInv
  <2>3. k = Head(recency) /\ Full
    BY <2>1, <2>2, InsertKeys
  <2>4. /\ recency \in Seq(Keys) /\ recency # <<>>
        /\ Ordered(recency, lastTouch) /\ j \in ToSet(recency)
    BY <2>2, <2>3, EvictedKey DEF CacheInv, OrderOK, TouchesOK
  <2> QED BY <2>3, <2>4, HeadIsOldest
<1>2. CASE \E d \in Domains, q \in QueryTypes, later \in Instants :
              CallGet(d, q, later)
  BY <1>2 DEF CallGet, Outcome, Promise!Missing, Promise!Found
<1>3. CASE CallClear
  BY <1>3 DEF CallClear, Clear, Nothing
<1>4. CASE \E t \in Instants : TimePasses(t)
  BY <1>4 DEF TimePasses, Tick
<1> QED BY <1>1, <1>2, <1>3, <1>4 DEF Next

\* Only the least recently used key makes room, for every capacity: a hit is
\* a use, a miss is none, a replacement pushes nothing out.
THEOREM LeastRecentlyUsedGoes == Spec => EvictsLeastRecentlyUsed
<1> DEFINE OldestGoes == \A k \in DOMAIN cache \ DOMAIN cache' :
                      (reply'.kind = "none" /\ DOMAIN cache' # {}) =>
                          \A j \in DOMAIN cache \ {k} : lastTouch[k] < lastTouch[j]
<1>1. HistoryInv /\ Next => OldestGoes
  BY EvictedIsOldest
<1>2. HistoryInv /\ [Next]_vars => [OldestGoes]_vars
  BY <1>1
<1> QED BY <1>2, HistoryInvHolds, PTL DEF Spec, EvictsLeastRecentlyUsed

-----------------------------------------------------------------------------
(* The promise of CachePromise: first how long a packet may be used        *)

\* The TTLs a packet is held to, the default when it has no answer.
TtlsOf(p) == IF p.ttls = {} THEN {DefaultTtl} ELSE p.ttls

\* EffectiveTtl is the least of them, clamped.
LEMMA EffectiveIsLeast ==
  ASSUME NEW p \in Packets
  PROVE  \E l \in TtlsOf(p) : /\ TtlsOf(p) \subseteq Nat
                              /\ \A t \in TtlsOf(p) : l <= t
                              /\ EffectiveTtl(p) = Clamp(l)
<1>1. TtlsOf(p) \in SUBSET Nat /\ TtlsOf(p) # {}
  BY TtlAssumption DEF TtlsOf, Packets
<1>2. CASE p.ttls = {}
  BY <1>1, <1>2, TtlAssumption DEF TtlsOf, EffectiveTtl
<1>3. CASE p.ttls # {}
  <2> DEFINE l == CHOOSE t \in p.ttls : \A u \in p.ttls : t <= u
  <2>1. \E t \in p.ttls : \A u \in p.ttls : t <= u
    BY <1>1, <1>3, LeastExists DEF TtlsOf
  <2>2. l \in p.ttls /\ \A u \in p.ttls : l <= u
    BY <2>1
  <2>3. EffectiveTtl(p) = Clamp(l)
    BY <1>3 DEF EffectiveTtl
  <2> HIDE DEF l
  <2> QED BY <1>1, <1>3, <2>2, <2>3 DEF TtlsOf
<1> QED BY <1>2, <1>3

\* A packet may be used exactly while its effective TTL lasts.
LEMMA UsableIsLive ==
  ASSUME NEW p \in Packets, NEW age \in Nat
  PROVE  Promise!Usable(p, age) <=> age < EffectiveTtl(p) * Second
<1>1. PICK l \in TtlsOf(p) : /\ TtlsOf(p) \subseteq Nat
                             /\ \A t \in TtlsOf(p) : l <= t
                             /\ EffectiveTtl(p) = Clamp(l)
  BY EffectiveIsLeast
<1>2. /\ MinTtl * Second \in Nat /\ MaxTtl * Second \in Nat /\ l * Second \in Nat
      /\ MinTtl * Second <= MaxTtl * Second
      /\ l <= MinTtl => l * Second <= MinTtl * Second
      /\ MinTtl <= l => MinTtl * Second <= l * Second
      /\ l <= MaxTtl => l * Second <= MaxTtl * Second
      /\ MaxTtl <= l => MaxTtl * Second <= l * Second
  BY <1>1, SecondsToTicks, TtlAssumption
<1>3. (\A t \in TtlsOf(p) : age < t * Second) <=> age < l * Second
  <2>1. ASSUME age < l * Second, NEW t \in TtlsOf(p)
        PROVE  age < t * Second
    <3>1. l * Second <= t * Second /\ t * Second \in Nat
      BY <1>1, SecondsToTicks
    <3> QED BY <1>2, <2>1, <3>1
  <2> QED BY <1>1, <2>1
<1>4. Promise!Usable(p, age) <=> \/ age < MinTtl * Second
                                 \/ age < MaxTtl * Second /\ age < l * Second
  BY <1>3 DEF Promise!Usable, TtlsOf
<1>5. l \in Nat /\ MinTtl \in Nat /\ MaxTtl \in Nat
  BY <1>1, TtlAssumption
<1>6. CASE l < MinTtl
  BY <1>1, <1>2, <1>4, <1>5, <1>6 DEF Clamp
<1>7. CASE MinTtl <= l /\ l > MaxTtl
  BY <1>1, <1>2, <1>4, <1>5, <1>7 DEF Clamp
<1>8. CASE MinTtl <= l /\ l <= MaxTtl
  BY <1>1, <1>2, <1>4, <1>5, <1>8 DEF Clamp
<1> QED BY <1>5, <1>6, <1>7, <1>8

\* Whole seconds in a number of ticks.
LEMMA TicksToSeconds ==
  ASSUME NEW left \in Nat
  PROVE  /\ left \div Second \in Nat
         /\ (left \div Second) * Second <= left
         /\ left < ((left \div Second) + 1) * Second
BY TtlAssumption

\* The lifetime a reply is given is honest, because no TTL wraps in a u32.
LEMMA RemainingIsHonest ==
  ASSUME MaxTtl < U32, NEW e \in Entries, NEW later \in Nat,
         e.created_at <= later, e.ttl = EffectiveTtl(e.packet) * Second
  PROVE  /\ RemainingTtlSecs(e, later) \in 0 .. MaxTtl
         /\ Promise!HonestTtl(e.packet, later - e.created_at,
                              RemainingTtlSecs(e, later))
<1> DEFINE age == later - e.created_at
           life == EffectiveTtl(e.packet)
           left == e.ttl - age
           r == RemainingTtlSecs(e, later)
<1>1. /\ e.packet \in Packets /\ e.created_at \in Nat /\ e.ttl \in Nat
      /\ age \in Nat
  BY DEF Entries
<1>2. life \in Nat /\ life <= MaxTtl /\ MaxTtl \in Nat
      /\ Second \in Nat \ {0} /\ U32 \in Nat
  BY <1>1, EffectiveTtlBounds, TtlAssumption
<1>3. \A n \in Nat : Promise!Usable(e.packet, n) <=> n < e.ttl
  BY <1>1, UsableIsLive
<1>4. CASE IsExpired(e, later)
  <2>1. r = 0 /\ age >= e.ttl
    BY <1>4 DEF RemainingTtlSecs, IsExpired
  <2>2. age + (0 + 1) * Second \in Nat /\ ~(age + (0 + 1) * Second < e.ttl)
    BY <1>1, <1>2, <2>1
  <2> QED BY <1>2, <1>3, <2>1, <2>2 DEF Promise!HonestTtl
<1>5. CASE ~IsExpired(e, later)
  <2> DEFINE n == left \div Second
  <2>1. left \in Nat \ {0} /\ left <= e.ttl /\ age < e.ttl
    BY <1>1, <1>5 DEF IsExpired
  <2>2. r = n % U32
    BY <1>5 DEF RemainingTtlSecs
  <2>3. n \in Nat /\ n * Second <= left /\ left < (n + 1) * Second
    BY <2>1, TicksToSeconds
  <2> HIDE DEF n
  <2>4. n <= life
    <3>1. SUFFICES ASSUME life + 1 <= n
                   PROVE  FALSE
      BY <1>2, <2>3
    <3>2. (life + 1) * Second <= n * Second
      BY <1>2, <2>3, <3>1, SecondsToTicks
    <3>3. (life + 1) * Second = e.ttl + Second
      BY <1>2
    <3>4. n * Second \in Nat
      BY <1>2, <2>3
    <3> QED BY <1>1, <1>2, <2>1, <2>3, <3>2, <3>3, <3>4
  <2>5. r = n
    BY <1>2, <2>2, <2>3, <2>4
  <2>6. r > 0 => /\ age + r * Second - 1 \in Nat
                 /\ age + r * Second - 1 < e.ttl
    <3>1. r > 0 => n * Second >= 1
      BY <1>2, <2>3, <2>5
    <3>2. n * Second \in Nat /\ age + n * Second <= e.ttl
      BY <1>1, <1>2, <2>1, <2>3
    <3> QED BY <1>1, <2>5, <3>1, <3>2
  <2>7. /\ age + (r + 1) * Second \in Nat
        /\ ~(age + (r + 1) * Second < e.ttl)
    <3>1. (n + 1) * Second \in Nat
      BY <1>2, <2>3
    <3> QED BY <1>1, <2>1, <2>3, <2>5, <3>1
  <2>8. r \in 0 .. MaxTtl
    BY <1>2, <2>3, <2>4, <2>5
  <2> HIDE DEF age, r
  <2>9. Promise!HonestTtl(e.packet, age, r)
    BY <1>3, <2>6, <2>7 DEF Promise!HonestTtl
  <2> QED BY <2>8, <2>9 DEF age, r
<1> QED BY <1>4, <1>5

-----------------------------------------------------------------------------
(* ... then every call, as a step of the promise                           *)

\* The store of CachePromise, as the cache implements it.
Stored(c) == [k \in DOMAIN c |-> [packet |-> c[k].packet, since |-> c[k].created_at]]

\* Both modules count alike.
LEMMA SameCardinality ==
  ASSUME NEW S
  PROVE  Promise!Cardinality(S) = Cardinality(S)
BY DEF Promise!Cardinality, Cardinality

\* Whether an entry may be used is what IsExpired says of it.
LEMMA EntryUsable ==
  ASSUME HistoryInv, NEW k \in DOMAIN cache, NEW t \in Nat, now <= t
  PROVE  Promise!Usable(cache[k].packet, t - cache[k].created_at)
            <=> ~IsExpired(cache[k], t)
<1>1. /\ cache[k].packet \in Packets /\ t - cache[k].created_at \in Nat
      /\ cache[k].ttl = EffectiveTtl(cache[k].packet) * Second
      /\ cache[k].ttl \in Nat
  BY DEF HistoryInv, CacheInv, EntriesOK, Entries, LifetimesOK
<1> QED BY <1>1, UsableIsLive DEF IsExpired

\* A hit serves the packet stored last, with an honest lifetime.
LEMMA HitServes ==
  ASSUME MaxTtl < U32, HistoryInv, NEW k \in Keys, NEW later \in Instants,
         later >= now, now' = later, GetHit(k),
         reply' = Outcome(k, GetResult(k, later))
  PROVE  Promise!Serve(k, later)
<1> DEFINE e == cache[k]
           r == RemainingTtlSecs(e, later)
           ttls == {r : t \in e.packet.ttls}
<1>1. /\ now \in Nat /\ later \in Nat /\ k \in DOMAIN cache /\ ~IsExpired(e, now)
      /\ cache' = cache
  BY InstantsAssumption DEF GetHit, Hit, HistoryInv, CacheInv, EntriesOK
<1>2. /\ e \in Entries /\ e.created_at <= now
      /\ e.ttl = EffectiveTtl(e.packet) * Second
  BY <1>1 DEF HistoryInv, CacheInv, EntriesOK, LifetimesOK
<1>3. /\ e.created_at \in Nat /\ e.packet \in Packets
      /\ e.packet.ttls \in SUBSET AnswerTtls
  BY <1>2 DEF Entries, Packets
<1>4. r \in 0 .. MaxTtl /\ Promise!HonestTtl(e.packet, later - e.created_at, r)
  BY <1>1, <1>2, <1>3, RemainingIsHonest
<1>5. Promise!Usable(e.packet, now - e.created_at)
  BY <1>1, EntryUsable
<1>6. Cardinality(ttls) = IF e.packet.ttls = {} THEN 0 ELSE 1
  <2> HIDE DEF r
  <2>1. ttls = IF e.packet.ttls = {} THEN {} ELSE {r}
    OBVIOUS
  <2> QED BY <2>1, FS_EmptySet, FS_Singleton
<1>7. reply' = Promise!Found(k, e.packet.body, ttls)
  <2>1. GetResult(k, later) = [e.packet EXCEPT !.ttls = ttls]
    BY DEF GetResult, GetHit
  <2> HIDE DEF r, e
  <2>2. /\ GetResult(k, later).body = e.packet.body
        /\ GetResult(k, later).ttls = ttls
        /\ "ttls" \in DOMAIN GetResult(k, later)
    BY <1>3, <2>1 DEF Packets
  <2>3. GetResult(k, later) # NoPacket
    BY <2>2 DEF NoPacket
  <2> QED BY <2>2, <2>3 DEF Outcome
<1>8. /\ k \in DOMAIN Stored(cache)
      /\ Stored(cache)[k] = [packet |-> e.packet, since |-> e.created_at]
  BY <1>1 DEF Stored
<1> HIDE DEF e, r, ttls
<1>9. ttls \in SUBSET (0 .. MaxTtl) /\ \A x \in ttls : x = r
  BY <1>4 DEF ttls
<1>10. Promise!Cardinality(ttls) = Cardinality(ttls)
  BY SameCardinality
<1> QED BY <1>1, <1>4, <1>5, <1>6, <1>7, <1>8, <1>9, <1>10
        DEF Promise!Serve, Stored

\* A lookup of a key that is absent, or expired, is a miss.
LEMMA LookupMisses ==
  ASSUME HistoryInv, NEW k \in Keys, NEW later \in Instants,
         later >= now, now' = later, GetAbsent(k) \/ GetExpired(k),
         reply' = Outcome(k, GetResult(k, later))
  PROVE  Promise!Miss(k, later)
<1>1. reply' = Promise!Missing(k)
  BY DEF GetAbsent, GetExpired, GetResult, Hit, Outcome
<1>2. now \in Nat
  BY DEF HistoryInv, CacheInv, EntriesOK
<1>3. k \in DOMAIN cache =>
         ~Promise!Usable(cache[k].packet, now - cache[k].created_at)
  BY <1>2, EntryUsable DEF GetAbsent, GetExpired
<1>4. Stored(cache)' = [j \in DOMAIN Stored(cache) \ {k} |-> Stored(cache)[j]]
  <2>1. CASE GetAbsent(k)
    BY <2>1 DEF GetAbsent, Stored
  <2>2. CASE GetExpired(k)
    BY <2>2 DEF GetExpired, Stored
  <2> QED BY <2>1, <2>2
<1> QED BY <1>1, <1>3, <1>4 DEF Promise!Miss, Stored

\* An insert stores its packet and gives up one other packet only for a new
\* key in a full cache.
LEMMA InsertStores ==
  ASSUME HistoryInv, NEW d \in Domains, NEW q \in QueryTypes, NEW p \in Packets,
         CallInsert(d, q, p)
  PROVE  Promise!Store(Key(d, q), p)
<1> DEFINE k == Key(d, q)
           e == CachedResponse(p)
           lost == DOMAIN cache \ DOMAIN cache'
<1>1. /\ Insert(d, q, p) /\ reply' = Promise!NoReply /\ now' = now
      /\ PutReplace(k, e) \/ PutAdd(k, e) \/ PutEvict(k, e)
  BY DEF CallInsert, Insert
<1>2. CacheInv
  BY DEF HistoryInv
<1>3. \/ lost = {} /\ k \in DOMAIN cache
      \/ lost = {} /\ k \notin DOMAIN cache /\ ~Full
      \/ /\ lost = {Head(recency)} /\ k \notin DOMAIN cache /\ Full
         /\ Head(recency) \in DOMAIN cache
  BY <1>1, <1>2, InsertKeys
<1>4. Cardinality(lost) = IF k \notin DOMAIN cache /\ Full THEN 1 ELSE 0
  BY <1>3, FS_EmptySet, FS_Singleton
<1>5. lost \in SUBSET (DOMAIN cache \ {k})
  BY <1>3
<1>6. /\ DOMAIN cache' = (DOMAIN cache \ lost) \union {k}
      /\ \A j \in DOMAIN cache' : cache'[j] = IF j = k THEN e ELSE cache[j]
  <2> HIDE DEF k, e
  <2>1. CASE PutReplace(k, e)
    BY <2>1 DEF PutReplace
  <2>2. CASE PutAdd(k, e)
    BY <2>2 DEF PutAdd
  <2>3. CASE PutEvict(k, e)
    BY <2>3 DEF PutEvict
  <2> QED BY <1>1, <2>1, <2>2, <2>3
<1>7. e.packet = p /\ e.created_at = now
  BY DEF CachedResponse
<1> HIDE DEF k, e, lost
<1>8. Stored(cache)' = [j \in (DOMAIN Stored(cache) \ lost) \union {k} |->
                           IF j = k THEN [packet |-> p, since |-> now]
                                    ELSE Stored(cache)[j]]
  BY <1>6, <1>7 DEF Stored
<1>9. DOMAIN Stored(cache) = DOMAIN cache
  BY DEF Stored
<1>10. /\ Promise!Cardinality(lost) = Cardinality(lost)
       /\ Promise!Cardinality(DOMAIN cache) = Cardinality(DOMAIN cache)
  BY SameCardinality
<1> QED BY <1>1, <1>4, <1>5, <1>8, <1>9, <1>10
        DEF Promise!Store, Stored, Full, k

\* Every step of the cache is a step of its promise.
LEMMA StepKeepsPromise ==
  ASSUME MaxTtl < U32, HistoryInv, [Next]_vars
  PROVE  [Promise!Next]_(Promise!vars)
<1>1. CASE \E d \in Domains, q \in QueryTypes, later \in Instants :
              CallGet(d, q, later)
  <2>1. PICK d \in Domains, q \in QueryTypes, later \in Instants :
                CallGet(d, q, later)
    BY <1>1
  <2> DEFINE k == Key(d, q)
  <2>2. /\ k \in Keys /\ later >= now /\ now' = later
        /\ GetAbsent(k) \/ GetExpired(k) \/ GetHit(k)
        /\ reply' = Outcome(k, GetResult(k, later))
    BY <2>1, KeyOfKeys DEF CallGet, Get
  <2> HIDE DEF k
  <2>3. Promise!Serve(k, later) \/ Promise!Miss(k, later)
    BY <2>2, HitServes, LookupMisses
  <2> QED BY <2>2, <2>3 DEF Promise!Next
<1>2. CASE \E d \in Domains, q \in QueryTypes, p \in Packets : CallInsert(d, q, p)
  BY <1>2, InsertStores, KeyOfKeys DEF Promise!Next
<1>3. CASE CallClear
  <2>1. Stored(cache)' = [k \in {} |-> Promise!NoReply]
    BY <1>3 DEF CallClear, Clear, Nothing, Stored
  <2>2. Promise!Empty
    BY <1>3, <2>1 DEF CallClear, Clear, Promise!Empty, Stored
  <2> QED BY <2>2 DEF Promise!Next
<1>4. CASE \E t \in Instants : TimePasses(t)
  BY <1>4 DEF TimePasses, Tick, Promise!Pass, Promise!Next
<1>5. CASE UNCHANGED vars
  BY <1>5 DEF vars, cacheVars, Promise!vars
<1> QED BY <1>1, <1>2, <1>3, <1>4, <1>5 DEF Next

\* The cache keeps its promise to its callers, whatever they call and when,
\* for every capacity and every clock, provided max_ttl_secs fits in the u32
\* that remaining_ttl_secs casts to.
THEOREM CacheKeepsPromise ==
  ASSUME MaxTtl < U32
  PROVE  Spec => KeepsPromise
<1>1. Init => Promise!Init
  BY DEF Init, CacheInit, Nothing, Promise!Init
<1>2. HistoryInv /\ [Next]_vars => [Promise!Next]_(Promise!vars)
  BY StepKeepsPromise
<1> QED BY <1>1, <1>2, HistoryInvHolds, PTL DEF Spec, KeepsPromise, Promise!Spec
=============================================================================
