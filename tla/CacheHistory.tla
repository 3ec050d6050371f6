---------------------------- MODULE CacheHistory ----------------------------
(***************************************************************************)
(* The response cache of module DnsCache under arbitrary callers, with     *)
(* history variables that remember what the code forgets: what the last    *)
(* call returned, when each key was last used, and how many keys came and  *)
(* went.  The properties here compare the state of the cache with that     *)
(* history.                                                                *)
(***************************************************************************)
EXTENDS DnsCache

CONSTANT MaxOps     \* bound: calls and ticks considered

ASSUME MaxOpsAssumption == MaxOps \in Nat

VARIABLES
    ops,         \* calls and ticks so far
    reply,       \* outcome of the last one, as in CachePromise
    lastTouch,   \* [Keys -> Nat]: the last call that stored or hit the key
    tally        \* keys that entered, were pushed out, were cleared; lookups

vars == <<cacheVars, ops, reply, lastTouch, tally>>

Promise == INSTANCE CachePromise WITH
    Limit <- Cap,
    store <- [k \in DOMAIN cache |->
                [packet |-> cache[k].packet, since |-> cache[k].created_at]]

Touch(k) == lastTouch' = [lastTouch EXCEPT ![k] = ops + 1]

Outcome(k, p) ==
    IF p = NoPacket THEN Promise!Missing(k) ELSE Promise!Found(k, p.body, p.ttls)

CallGet(d, q, later) ==
    LET k == Key(d, q)
    IN  /\ Get(d, q, later)
        /\ reply' = Outcome(k, GetResult(k, later))
        /\ IF Hit(k) THEN Touch(k) ELSE UNCHANGED lastTouch
        /\ tally' = [tally EXCEPT !.lookups = @ + 1]

CallInsert(d, q, p) ==
    LET k == Key(d, q)
    IN  /\ Insert(d, q, p)
        /\ reply' = Promise!NoReply
        /\ Touch(k)
        /\ tally' = [tally EXCEPT
              !.entered = @ + Cardinality(DOMAIN cache' \ DOMAIN cache),
              !.pushedOut = @ + Cardinality(DOMAIN cache \ DOMAIN cache')]

CallClear ==
    /\ Clear
    /\ reply' = Promise!NoReply
    /\ tally' = [tally EXCEPT !.cleared = @ + Cardinality(DOMAIN cache)]
    /\ UNCHANGED lastTouch

TimePasses(t) ==
    /\ Tick(t)
    /\ reply' = Promise!NoReply
    /\ UNCHANGED <<lastTouch, tally>>

Init ==
    /\ CacheInit
    /\ ops = 0
    /\ reply = Promise!NoReply
    /\ lastTouch = [k \in Keys |-> 0]
    /\ tally = [lookups |-> 0, entered |-> 0, pushedOut |-> 0, cleared |-> 0]

Next ==
    /\ ops < MaxOps
    /\ ops' = ops + 1
    /\ \/ \E d \in Domains, q \in QueryTypes, later \in Instants :
              CallGet(d, q, later)
       \/ \E d \in Domains, q \in QueryTypes, p \in Packets : CallInsert(d, q, p)
       \/ CallClear
       \/ \E t \in Instants : TimePasses(t)

Spec == Init /\ [][Next]_vars

-----------------------------------------------------------------------------
(* Properties                                                              *)

\* The cache does what its callers rely on: get() returns the packet inserted
\* last under the lower-cased name, while it is usable and with TTLs that
\* never let it be used longer; insert() gives up a packet only when it must.
KeepsPromise == Promise!Spec

\* Only the key that has gone unused for longest makes room for a new one:
\* a get() that hits counts as a use, one that misses does not.
EvictsLeastRecentlyUsed ==
    [][\A k \in DOMAIN cache \ DOMAIN cache' :
          (reply'.kind = "none" /\ DOMAIN cache' # {}) =>
              \A j \in DOMAIN cache \ {k} : lastTouch[k] < lastTouch[j]]_vars

\* No key is lost from the books: those that entered are in the cache, were
\* pushed out, cleared, or counted in stats.expirations; every lookup is
\* counted once, as a hit or as a miss.
BooksBalance ==
    /\ tally.entered = Cardinality(DOMAIN cache) + tally.pushedOut
                       + tally.cleared + stats.expirations
    /\ tally.lookups = stats.hits + stats.misses
    /\ stats.expirations <= stats.misses
    /\ tally.pushedOut <= stats.evictions
=============================================================================
