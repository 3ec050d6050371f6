---------------------------- MODULE CachePromise ----------------------------
(***************************************************************************)
(* What the rest of dns-core relies on when it talks to the response       *)
(* cache: a bounded store of upstream packets which answers a lookup with  *)
(* the packet stored last under that key while the packet may still be     *)
(* used, and only then.  How long that is, is said here without the        *)
(* arithmetic of the code: a packet is good for min_ttl seconds whatever   *)
(* it says, then for as long as each of its answers allows, and never      *)
(* for more than max_ttl seconds.                                          *)
(*                                                                         *)
(* Nothing is said of which packet goes when the store is full: that is    *)
(* the business of the LRU order of module DnsCache, which implements      *)
(* this one.                                                               *)
(***************************************************************************)
EXTENDS Naturals, FiniteSets

CONSTANTS Keys, Packets, Limit, MinTtl, MaxTtl, DefaultTtl, Second, Instants

VARIABLES
    store,   \* [key -> [packet, since]] for the keys present
    reply,   \* what the last step answered, NoReply when it was no lookup
    now

vars == <<store, reply, now>>

NoReply == [kind |-> "none"]
Missing(k) == [kind |-> "miss", key |-> k]
Found(k, body, ttls) == [kind |-> "hit", key |-> k, body |-> body, ttls |-> ttls]

\* May packet p be used when it is "age" ticks old?
Usable(p, age) ==
    \/ age < MinTtl * Second
    \/ /\ age < MaxTtl * Second
       /\ \A t \in (IF p.ttls = {} THEN {DefaultTtl} ELSE p.ttls) :
              age < t * Second

\* An answer handed out with lifetime r lets nobody use the packet for longer
\* than that, and shortens its life by less than two seconds.
HonestTtl(p, age, r) ==
    /\ r > 0 => Usable(p, age + r * Second - 1)
    /\ ~Usable(p, age + (r + 1) * Second)

Init == store = [k \in {} |-> NoReply] /\ reply = NoReply /\ now = 0

\* A full store gives up one other packet for a new key, nothing otherwise.
Store(k, p) ==
    /\ \E lost \in SUBSET (DOMAIN store \ {k}) :
          /\ Cardinality(lost) =
                IF k \notin DOMAIN store /\ Cardinality(DOMAIN store) = Limit
                THEN 1 ELSE 0
          /\ store' = [j \in (DOMAIN store \ lost) \union {k} |->
                          IF j = k THEN [packet |-> p, since |-> now]
                                   ELSE store[j]]
    /\ reply' = NoReply
    /\ UNCHANGED now

\* The age is that of the packet when the lookup ends, "later".
Serve(k, later) ==
    /\ later >= now /\ now' = later
    /\ k \in DOMAIN store
    /\ Usable(store[k].packet, now - store[k].since)
    /\ \E ttls \in SUBSET (0 .. MaxTtl) :
          /\ Cardinality(ttls) = (IF store[k].packet.ttls = {} THEN 0 ELSE 1)
          /\ \A r \in ttls : HonestTtl(store[k].packet, later - store[k].since, r)
          /\ reply' = Found(k, store[k].packet.body, ttls)
    /\ UNCHANGED store

Miss(k, later) ==
    /\ later >= now /\ now' = later
    /\ k \in DOMAIN store => ~Usable(store[k].packet, now - store[k].since)
    /\ store' = [j \in DOMAIN store \ {k} |-> store[j]]
    /\ reply' = Missing(k)

Empty ==
    /\ store' = [k \in {} |-> NoReply]
    /\ reply' = NoReply
    /\ UNCHANGED now

Pass(t) ==
    /\ t > now /\ now' = t
    /\ reply' = NoReply
    /\ UNCHANGED store

Next ==
    \/ \E k \in Keys, p \in Packets : Store(k, p)
    \/ \E k \in Keys, t \in Instants : Serve(k, t) \/ Miss(k, t)
    \/ Empty
    \/ \E t \in Instants : Pass(t)

Spec == Init /\ [][Next]_vars
=============================================================================
