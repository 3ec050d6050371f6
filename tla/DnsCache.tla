------------------------------ MODULE DnsCache ------------------------------
(***************************************************************************)
(* The response cache of dns-core, dns-core/src/cache/lru_cache.rs: a      *)
(* bounded LRU map from (lower-cased name, query type) to the upstream     *)
(* packet, the instant it was stored and the lifetime it was given.        *)
(*                                                                         *)
(* One action per method that changes state.  The clock is the monotonic   *)
(* Instant of the code, in ticks of 1/Second second: get() reads it twice, *)
(* so the second reading is a parameter of the action and the clock may    *)
(* have moved between the two.                                             *)
(***************************************************************************)
EXTENDS Naturals, Sequences, FiniteSets, SequencesExt

CONSTANTS
    Domains,      \* spellings of names a caller may pass
    Lower,        \* [Domains -> Domains], what str::to_lowercase does to them
    QueryTypes,   \* record types
    Bodies,       \* what a packet says, the TTLs of its answers apart
    AnswerTtls,   \* TTLs, in seconds, an answer record may carry
    Capacity,     \* cache.capacity of the configuration
    MinTtl,       \* cache.min_ttl_secs
    MaxTtl,       \* cache.max_ttl_secs
    DefaultTtl,   \* TTL of a packet with no answer record (300 in the code)
    Second,       \* clock ticks in a second
    U32,          \* size of u32, 2^32 in the code
    Instants      \* readings of the clock that are considered

ASSUME LowerAssumption ==
    /\ Lower \in [Domains -> Domains]
    /\ \A d \in Domains : Lower[Lower[d]] = Lower[d]

\* What ServerConfig::validate lets through, and the widths of the code.
ASSUME TtlAssumption ==
    /\ AnswerTtls \subseteq Nat
    /\ MinTtl \in Nat /\ MaxTtl \in Nat /\ MinTtl <= MaxTtl
    /\ DefaultTtl \in Nat
    /\ Second \in Nat \ {0}
    /\ U32 \in Nat \ {0}

ASSUME CapacityAssumption == Capacity \in Nat

ASSUME InstantsAssumption == Instants \subseteq Nat /\ 0 \in Instants

VARIABLES
    cache,     \* the map of the LruCache: a function on the keys present
    recency,   \* its order of use, least recently used key first
    stats,     \* CacheStats
    now        \* the clock

cacheVars == <<cache, recency, stats, now>>

-----------------------------------------------------------------------------
(* Data                                                                    *)

Key(d, q) == <<Lower[d], q>>

Keys == {Key(d, q) : d \in Domains, q \in QueryTypes}

\* A packet: its answer records are known by the TTLs they carry.
Packets == [body : Bodies, ttls : SUBSET AnswerTtls]

Entries == [packet : Packets, created_at : Nat, ttl : Nat]

\* NonZeroUsize::new(capacity).unwrap_or(1024)
Cap == IF Capacity = 0 THEN 1024 ELSE Capacity

Full == Cardinality(DOMAIN cache) = Cap

\* Mistake: only the lower bound is applied.
ClampBelow(t) == IF t < MinTtl THEN MinTtl ELSE t

\* Duration::clamp
Clamp(t) == IF t < MinTtl THEN MinTtl ELSE IF t > MaxTtl THEN MaxTtl ELSE t

\* The least TTL of the answers, a default when there are none, clamped.
EffectiveTtl(p) ==
    Clamp(IF p.ttls = {} THEN DefaultTtl
                         ELSE CHOOSE t \in p.ttls : \A u \in p.ttls : t <= u)

\* Mistake: the instant it expires is kept for the instant it was stored.
CachedUntil(p) ==
    [packet |-> p, created_at |-> now + EffectiveTtl(p) * Second,
     ttl |-> EffectiveTtl(p) * Second]

CachedResponse(p) ==
    [packet |-> p, created_at |-> now, ttl |-> EffectiveTtl(p) * Second]

\* Mistake: an entry is good at the very instant its lifetime ends.
IsPastExpiry(e, t) == t - e.created_at > e.ttl

IsExpired(e, t) == t - e.created_at >= e.ttl

RemainingTtlSecs(e, t) ==
    IF IsExpired(e, t)
    THEN 0
    ELSE ((e.ttl - (t - e.created_at)) \div Second) % U32

\* The order with key k taken out.
Without(s, k) == RemoveAt(s, CHOOSE i \in DOMAIN s : s[i] = k)

MostRecent(k) == Append(Without(recency, k), k)

Count(field) == [stats EXCEPT ![field] = @ + 1]

-----------------------------------------------------------------------------
(* get()                                                                   *)

NoPacket == [body |-> "none"]

Hit(k) == k \in DOMAIN cache /\ ~IsExpired(cache[k], now)

\* What get() returns when its second reading of the clock is "later": the
\* packet stored, every answer given the lifetime that is left.
GetResult(k, later) ==
    IF Hit(k)
    THEN [cache[k].packet EXCEPT
             !.ttls = {RemainingTtlSecs(cache[k], later) : t \in @}]
    ELSE NoPacket

GetAbsent(k) ==
    /\ k \notin DOMAIN cache
    /\ stats' = Count("misses")
    /\ UNCHANGED <<cache, recency>>

\* Mistake: the entry goes without being counted.
GetDropped(k) ==
    /\ k \in DOMAIN cache
    /\ IsExpired(cache[k], now)
    /\ cache' = [j \in DOMAIN cache \ {k} |-> cache[j]]
    /\ recency' = Without(recency, k)
    /\ stats' = Count("misses")

GetExpired(k) ==
    /\ k \in DOMAIN cache
    /\ IsExpired(cache[k], now)
    /\ cache' = [j \in DOMAIN cache \ {k} |-> cache[j]]
    /\ recency' = Without(recency, k)
    /\ stats' = [stats EXCEPT !.expirations = @ + 1, !.misses = @ + 1]

\* Mistake: a hit is no use of the key (LruCache::peek for get).
GetPeeked(k) ==
    /\ Hit(k)
    /\ stats' = Count("hits")
    /\ UNCHANGED <<cache, recency>>

GetHit(k) ==
    /\ Hit(k)
    /\ recency' = MostRecent(k)
    /\ stats' = Count("hits")
    /\ UNCHANGED cache

Get(d, q, later) ==
    /\ later >= now
    /\ now' = later
    /\ GetAbsent(Key(d, q)) \/ GetExpired(Key(d, q)) \/ GetHit(Key(d, q))

-----------------------------------------------------------------------------
(* insert(): LruCache::put replaces, adds, or pushes out the oldest key.   *)

\* Mistake: a key that is there already is listed a second time.
PutAgain(k, e) ==
    /\ k \in DOMAIN cache
    /\ cache' = [cache EXCEPT ![k] = e]
    /\ recency' = Append(recency, k)

PutReplace(k, e) ==
    /\ k \in DOMAIN cache
    /\ cache' = [cache EXCEPT ![k] = e]
    /\ recency' = MostRecent(k)

PutAdd(k, e) ==
    /\ k \notin DOMAIN cache /\ ~Full
    /\ cache' = [j \in DOMAIN cache \union {k} |-> IF j = k THEN e ELSE cache[j]]
    /\ recency' = Append(recency, k)

PutEvict(k, e) ==
    /\ k \notin DOMAIN cache /\ Full
    /\ cache' = [j \in (DOMAIN cache \ {Head(recency)}) \union {k} |->
                    IF j = k THEN e ELSE cache[j]]
    /\ recency' = Append(Tail(recency), k)

\* evictions counts every insert that finds the cache full, a replacement too.
Insert(d, q, p) ==
    LET k == Key(d, q)
        e == CachedResponse(p)
    IN  /\ PutReplace(k, e) \/ PutAdd(k, e) \/ PutEvict(k, e)
        /\ stats' = IF Full THEN Count("evictions") ELSE stats
        /\ UNCHANGED now

(* clear()                                                                 *)

Nothing == [k \in {} |-> NoPacket]

Clear ==
    /\ cache' = Nothing
    /\ recency' = <<>>
    /\ UNCHANGED <<stats, now>>

Tick(t) ==
    /\ t > now
    /\ now' = t
    /\ UNCHANGED <<cache, recency, stats>>

-----------------------------------------------------------------------------
CacheInit ==
    /\ cache = Nothing
    /\ recency = <<>>
    /\ stats = [hits |-> 0, misses |-> 0, evictions |-> 0, expirations |-> 0]
    /\ now = 0

CacheNext ==
    \/ \E d \in Domains, q \in QueryTypes, later \in Instants : Get(d, q, later)
    \/ \E d \in Domains, q \in QueryTypes, p \in Packets : Insert(d, q, p)
    \/ Clear
    \/ \E t \in Instants : Tick(t)

CacheSpec == CacheInit /\ [][CacheNext]_cacheVars

-----------------------------------------------------------------------------
(* Properties                                                              *)

\* Types: entries are well formed and none was stored in the future.
CacheTypeOK ==
    /\ DOMAIN cache \subseteq Keys
    /\ \A k \in DOMAIN cache :
          cache[k] \in Entries /\ cache[k].created_at <= now
    /\ recency \in Seq(Keys)
    /\ stats \in [hits : Nat, misses : Nat, evictions : Nat, expirations : Nat]
    /\ now \in Nat

\* The order of use and the map of the LruCache list the same keys, each
\* once, and there are never more of them than the capacity configured.
OrderMatchesMap ==
    /\ ToSet(recency) = DOMAIN cache
    /\ IsInjective(recency)
    /\ Cardinality(DOMAIN cache) <= Cap

\* Whatever upstream says, an entry lives at least min_ttl_secs and at most
\* max_ttl_secs.
LifetimeWithinBounds ==
    \A k \in DOMAIN cache :
        /\ cache[k].ttl >= MinTtl * Second
        /\ cache[k].ttl <= MaxTtl * Second
=============================================================================
