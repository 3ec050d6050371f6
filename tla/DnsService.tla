----------------------------- MODULE DnsService -----------------------------
(***************************************************************************)
(* The query handlers of dns-core/src/main.rs over one shared cache: a     *)
(* task per UDP datagram (resolve_dns_query) and a task per TCP or TLS     *)
(* connection (serve_tcp_dns), each a copy of filter, cache, upstream.     *)
(*                                                                         *)
(* A step runs from one await to the next.  The cache sits behind an async *)
(* mutex.  A UDP task holds it for a single step; a connection that hits   *)
(* the cache holds it until its reply has been written to the socket       *)
(* (main.rs:470-477), so "lock" is part of the state.                      *)
(*                                                                         *)
(* Abstracted: names are model values that the parser has lower-cased, the *)
(* filter is its verdict on each name (module DomainFilter), the upstream  *)
(* chain is a number of attempts that fail or succeed.  A peer's socket is *)
(* a count of replies it has not read; writes wait when Window of them are *)
(* outstanding.                                                            *)
(***************************************************************************)
EXTENDS DnsCache

CONSTANTS
    Datagrams,      \* UDP tasks, one per datagram received
    Conns,          \* connections to the TCP and TLS listeners
    TlsConns,       \* those to the TLS listener
    Ids,            \* transaction ids
    Asks,           \* [handler -> queries its client may send]
    Verdict,        \* [Domains -> result of FilterEngine::evaluate]
    BlockedRcode,   \* "NXDomain" or "NoError", as block_mode says
    Upstreams,      \* length of the upstream chain
    UpstreamRcodes, \* response codes an upstream may answer with
    MaxQueries,     \* bound: queries on one connection
    Window,         \* replies a socket takes from us before the peer reads
    Nobody          \* not a connection: the lock is free

ASSUME ServiceAssumption ==
    /\ Verdict \in [Domains -> {"Allowed", "AllowListMatched", "Blocked"}]
    /\ Upstreams \in Nat /\ MaxQueries \in Nat /\ Window \in Nat \ {0}
    /\ Nobody \notin Conns
    /\ Datagrams \intersect Conns = {} /\ TlsConns \subseteq Conns
    /\ Asks \in [Datagrams \union Conns ->
                   SUBSET [id : Ids, name : Domains, qtype : QueryTypes]]

\* The parser lower-cases the names of a query (question.rs:151).
ASSUME ParsedNames ==
    \A h \in Datagrams \union Conns : \A q \in Asks[h] : Lower[q.name] = q.name

VARIABLES
    pc,         \* where each handler is
    query,      \* the query it is working on
    tried,      \* upstreams that failed it
    reply,      \* what it is about to write
    lock,       \* connection that holds the cache mutex across a write
    unread,     \* replies in the socket of a connection, not read by the peer
    gone,       \* connections whose peer has hung up
    broken,     \* connections on which a write has failed
    asked,      \* history: queries each handler has accepted
    sent,       \* history: replies each handler has written
    answers,    \* history: what the upstreams have answered
    stored,     \* history: what has been put in the cache
    forwarded   \* history: names that were sent to an upstream

Handlers == Datagrams \union Conns

taskVars == <<pc, query, tried, reply>>
peerVars == <<unread, gone, broken>>
history == <<asked, sent, answers, stored, forwarded>>
vars == <<cacheVars, taskVars, lock, peerVars, history>>

-----------------------------------------------------------------------------
(* Messages                                                                *)

Queries == [id : Ids, name : Domains, qtype : QueryTypes]

\* What a response says; ids and question are echoed by build_blocked_response,
\* by the SERVFAIL of a connection and by the upstreams.
ResponseTo(q, rcode) ==
    [id |-> q.id, name |-> q.name, qtype |-> q.qtype, rcode |-> rcode]

SameQuestion(body, q) == body.name = q.name /\ body.qtype = q.qtype

\* A response that DnsPacket::parse rejects: passed on, never cached.
Garbled == [id |-> "?", name |-> "?", qtype |-> "?", rcode |-> "?"]

Reply(source, body, ttls) == [source |-> source, body |-> body, ttls |-> ttls]

NoReply == Reply("none", Garbled, {})
NoQuery == [id |-> "?", name |-> "?", qtype |-> "?"]

BlockedReply(q) == Reply("blocked", ResponseTo(q, BlockedRcode), {})
ServfailReply(q) == Reply("servfail", ResponseTo(q, "ServFail"), {})
CachedReply(p) == Reply("cache", p.body, p.ttls)
UpstreamReply(p) == Reply("upstream", p.body, p.ttls)

PacketOf(r) == [body |-> r.body, ttls |-> r.ttls]

Parses(r) == r.body # Garbled

-----------------------------------------------------------------------------
(* Steps that UDP tasks and connections share                              *)

\* Mistake: the copy of the filter in serve_tcp_dns is forgotten.
RejectedOverUdp(h, q) == h \in Datagrams /\ Verdict[q.name] = "Blocked"

\* The filter is asked for every message.
Rejected(h, q) == Verdict[q.name] = "Blocked"

\* Parse the message, take the first question, ask the filter.  "toReply" is
\* where the handler goes to write a reply.
Accept(h, q, toReply) ==
    /\ query' = [query EXCEPT ![h] = q]
    /\ asked' = [asked EXCEPT ![h] = Append(@, q)]
    /\ IF Rejected(h, q)
       THEN /\ pc' = [pc EXCEPT ![h] = toReply]
            /\ reply' = [reply EXCEPT ![h] = BlockedReply(q)]
       ELSE /\ pc' = [pc EXCEPT ![h] = "lookup"]
            /\ UNCHANGED reply
    /\ UNCHANGED <<cacheVars, tried, lock, peerVars,
                   sent, answers, stored, forwarded>>

Found(h, later) == GetResult(Key(query[h].name, query[h].qtype), later)

\* The cache is consulted under the mutex; a miss goes to the first upstream.
LookUp(h, later, toReply) ==
    LET q == query[h]
        found == Found(h, later)
    IN  /\ pc[h] = "lookup"
        /\ lock = Nobody
        /\ Get(q.name, q.qtype, later)
        /\ IF found # NoPacket
           THEN /\ pc' = [pc EXCEPT ![h] = toReply]
                /\ reply' = [reply EXCEPT ![h] = CachedReply(found)]
                /\ UNCHANGED <<tried, forwarded>>
           ELSE /\ pc' = [pc EXCEPT ![h] = "forward"]
                /\ tried' = [tried EXCEPT ![h] = 0]
                /\ forwarded' = IF Upstreams = 0 THEN forwarded
                                ELSE forwarded \union {q.name}
                /\ UNCHANGED reply
        /\ UNCHANGED <<query, peerVars, asked, sent, answers, stored>>

\* Mistake: one failure too many.
UpstreamFailsAgain(h) ==
    /\ pc[h] = "forward" /\ tried[h] <= Upstreams
    /\ tried' = [tried EXCEPT ![h] = @ + 1]
    /\ UNCHANGED <<cacheVars, pc, query, reply, lock, peerVars, history>>

\* The upstream in turn times out or fails.
UpstreamFails(h) ==
    /\ pc[h] = "forward" /\ tried[h] < Upstreams
    /\ tried' = [tried EXCEPT ![h] = @ + 1]
    /\ UNCHANGED <<cacheVars, pc, query, reply, lock, peerVars, history>>

\* Mistake: handlers share a socket and take whichever answer comes.
AnswersSomebody(h, p) ==
    \E g \in Handlers, rc \in UpstreamRcodes : p.body = ResponseTo(query[g], rc)

\* Module UpstreamForwarder says when an answer is one to this query.
AnswersQuery(h, p) ==
    \/ p.body = Garbled /\ p.ttls = {}
    \/ \E rc \in UpstreamRcodes : p.body = ResponseTo(query[h], rc)

\* The upstream in turn answers: any bytes that arrive are a success.
UpstreamAnswers(h, p, onParsed, onGarbled) ==
    /\ pc[h] = "forward" /\ tried[h] < Upstreams
    /\ AnswersQuery(h, p)
    /\ reply' = [reply EXCEPT ![h] = UpstreamReply(p)]
    /\ answers' = answers \union {p.body}
    /\ pc' = [pc EXCEPT ![h] = IF p.body = Garbled THEN onGarbled ELSE onParsed]
    /\ UNCHANGED <<cacheVars, query, tried, lock, peerVars,
                   asked, sent, stored, forwarded>>

\* The answer goes into the cache, under the mutex and the question asked.
StoreAnswer(h, next) ==
    /\ pc[h] = "store"
    /\ lock = Nobody
    /\ Insert(query[h].name, query[h].qtype, PacketOf(reply[h]))
    /\ stored' = stored \union {reply[h].body}
    /\ pc' = [pc EXCEPT ![h] = next]
    /\ UNCHANGED <<query, tried, reply, lock, peerVars,
                   asked, sent, answers, forwarded>>

-----------------------------------------------------------------------------
(* resolve_dns_query and the UDP loop that spawns it                       *)

UdpReceive(u, q) == pc[u] = "idle" /\ Accept(u, q, "send")

\* No header, or no question: no reply.
UdpGarbage(u) ==
    /\ pc[u] = "idle"
    /\ pc' = [pc EXCEPT ![u] = "done"]
    /\ UNCHANGED <<cacheVars, query, tried, reply, lock, peerVars, history>>

UdpLookUp(u, later) == LookUp(u, later, "send") /\ UNCHANGED lock

\* Every upstream failed: the datagram is dropped without a reply.
UdpGivesUp(u) ==
    /\ pc[u] = "forward" /\ tried[u] = Upstreams
    /\ pc' = [pc EXCEPT ![u] = "done"]
    /\ UNCHANGED <<cacheVars, query, tried, reply, lock, peerVars, history>>

\* Mistake: reply first, cache never.
UdpRelayed(u, p) == UpstreamAnswers(u, p, "send", "send")

UdpAnswered(u, p) == UpstreamAnswers(u, p, "store", "send")

UdpStore(u) == StoreAnswer(u, "send")

UdpSend(u) ==
    /\ pc[u] = "send"
    /\ sent' = [sent EXCEPT ![u] = Append(@, reply[u])]
    /\ pc' = [pc EXCEPT ![u] = "done"]
    /\ UNCHANGED <<cacheVars, query, tried, reply, lock, peerVars,
                   asked, answers, stored, forwarded>>

UdpStep(u) ==
    \/ \E later \in Instants : UdpLookUp(u, later)
    \/ UpstreamFails(u) \/ UdpGivesUp(u)
    \/ \E p \in Packets : UdpAnswered(u, p)
    \/ UdpStore(u) \/ UdpSend(u)

-----------------------------------------------------------------------------
(* The accept loops, and serve_tcp_dns: one query after another until the  *)
(* peer hangs up.  A message that does not parse or asks nothing is        *)
(* skipped without a trace, which in this model is a stuttering step.      *)

\* A task for the connection; over TLS it begins with the handshake.
TcpAccept(c) ==
    /\ pc[c] = "new"
    /\ pc' = [pc EXCEPT ![c] = IF c \in TlsConns THEN "handshake" ELSE "read"]
    /\ UNCHANGED <<cacheVars, query, tried, reply, lock, peerVars, history>>

\* The handshake succeeds, or the task ends; nothing limits its time.
TlsHandshake(c) ==
    /\ pc[c] = "handshake"
    /\ \E next \in {"read", "closed"} : pc' = [pc EXCEPT ![c] = next]
    /\ UNCHANGED <<cacheVars, query, tried, reply, lock, peerVars, history>>

TcpRead(c, q) ==
    /\ pc[c] = "read" /\ Len(asked[c]) < MaxQueries
    /\ Accept(c, q, "write")

\* End of file, a message cut short, or a message of length zero.
TcpEnd(c) ==
    /\ pc[c] = "read"
    /\ pc' = [pc EXCEPT ![c] = "closed"]
    /\ UNCHANGED <<cacheVars, query, tried, reply, lock, peerVars, history>>

\* A hit keeps the mutex until the reply is written.
TcpLookUp(c, later) ==
    /\ LookUp(c, later, "write")
    /\ lock' = IF Hit(Key(query[c].name, query[c].qtype)) THEN c ELSE lock

\* Mistake: the connection waits for the next query without a SERVFAIL.
TcpSkips(c) ==
    /\ pc[c] = "forward" /\ tried[c] = Upstreams
    /\ pc' = [pc EXCEPT ![c] = "read"]
    /\ UNCHANGED <<cacheVars, query, tried, reply, lock, peerVars, history>>

\* Mistake: what is in the buffer from the query before is written again.
TcpRepeats(c) ==
    /\ pc[c] = "forward" /\ tried[c] = Upstreams
    /\ pc' = [pc EXCEPT ![c] = "write"]
    /\ UNCHANGED <<cacheVars, query, tried, reply, lock, peerVars, history>>

TcpGivesUp(c) ==
    /\ pc[c] = "forward" /\ tried[c] = Upstreams
    /\ pc' = [pc EXCEPT ![c] = "write"]
    /\ reply' = [reply EXCEPT ![c] = ServfailReply(query[c])]
    /\ UNCHANGED <<cacheVars, query, tried, lock, peerVars, history>>

TcpAnswered(c, p) == UpstreamAnswers(c, p, "write", "write")

\* Mistake: the mutex is not given back on the error path.
ReleaseWritten(c) ==
    lock' = IF lock = c /\ c \notin gone THEN Nobody ELSE lock

\* The guard of the mutex is dropped, whether the write went well or not.
Release(c) == lock' = IF lock = c THEN Nobody ELSE lock

\* write_all finds room in the socket.  An upstream's answer is cached only
\* after it has been written.
TcpWrite(c) ==
    /\ pc[c] = "write" /\ c \notin broken /\ unread[c] < Window
    /\ unread' = [unread EXCEPT ![c] = @ + 1]
    /\ sent' = [sent EXCEPT ![c] = Append(@, reply[c])]
    /\ pc' = [pc EXCEPT ![c] =
                 IF reply[c].source = "upstream" /\ Parses(reply[c])
                 THEN "store" ELSE "read"]
    /\ Release(c)
    /\ UNCHANGED <<cacheVars, query, tried, reply, gone, broken,
                   asked, answers, stored, forwarded>>

\* write_all fails once the peer is gone: the connection ends, except that the
\* error is ignored for a SERVFAIL, and queries received before are read on.
TcpWriteFails(c) ==
    /\ pc[c] = "write" /\ c \in gone
    /\ pc' = [pc EXCEPT ![c] =
                 IF reply[c].source = "servfail" THEN "read" ELSE "closed"]
    /\ broken' = broken \union {c}
    /\ Release(c)
    /\ UNCHANGED <<cacheVars, query, tried, reply, unread, gone, history>>

TcpStore(c) == StoreAnswer(c, "read")

TcpStep(c) ==
    \/ \E later \in Instants : TcpLookUp(c, later)
    \/ UpstreamFails(c) \/ TcpGivesUp(c)
    \/ \E p \in Packets : TcpAnswered(c, p)
    \/ TcpWrite(c) \/ TcpWriteFails(c) \/ TcpStore(c)

-----------------------------------------------------------------------------
(* The peer of a connection                                                *)

PeerReads(c) ==
    /\ unread[c] > 0 /\ c \notin gone
    /\ unread' = [unread EXCEPT ![c] = @ - 1]
    /\ UNCHANGED <<cacheVars, taskVars, lock, gone, broken, history>>

PeerHangsUp(c) ==
    /\ c \notin gone
    /\ gone' = gone \union {c}
    /\ UNCHANGED <<cacheVars, taskVars, lock, unread, broken, history>>

-----------------------------------------------------------------------------
Init ==
    /\ CacheInit
    /\ pc = [h \in Handlers |-> IF h \in Conns THEN "new" ELSE "idle"]
    /\ query = [h \in Handlers |-> NoQuery]
    /\ tried = [h \in Handlers |-> 0]
    /\ reply = [h \in Handlers |-> NoReply]
    /\ lock = Nobody
    /\ unread = [c \in Conns |-> 0]
    /\ gone = {}
    /\ broken = {}
    /\ asked = [h \in Handlers |-> <<>>]
    /\ sent = [h \in Handlers |-> <<>>]
    /\ answers = {}
    /\ stored = {}
    /\ forwarded = {}

Udp(u) == UdpStep(u) \/ UdpGarbage(u) \/ \E q \in Asks[u] : UdpReceive(u, q)
Tcp(c) ==
    \/ TcpAccept(c) \/ TlsHandshake(c) \/ TcpEnd(c)
    \/ \E q \in Asks[c] : TcpRead(c, q)
    \/ TcpStep(c)
Peer(c) == PeerReads(c) \/ PeerHangsUp(c)

Clock == \E t \in Instants : Tick(t) /\ UNCHANGED <<taskVars, lock, peerVars, history>>

\* Nothing is left to do: the bounds of the model, not a state of the code.
Finished ==
    /\ \A h \in Handlers : pc[h] \in {"done", "closed"}
    /\ UNCHANGED vars

Next ==
    \/ \E u \in Datagrams : Udp(u)
    \/ \E c \in Conns : Tcp(c)
    \/ \E c \in Conns : Peer(c)
    \/ Clock
    \/ Finished

Spec == Init /\ [][Next]_vars

\* Tokio runs every task that can run and hands the mutex out first come first
\* served: a task that can take the lock again and again gets it.
TasksRun ==
    /\ \A u \in Datagrams : SF_vars(UdpStep(u))
    /\ \A c \in Conns : SF_vars(TcpStep(c))

\* Peers read what they are sent.
PeersRead == \A c \in Conns : WF_vars(PeerReads(c))

LiveSpec == Spec /\ TasksRun /\ PeersRead

\* The server does its part, nothing is promised of the peers.
ServerOnlySpec == Spec /\ TasksRun

-----------------------------------------------------------------------------
(* Properties                                                              *)

\* Types: every handler is where its program may be, holds a query and a
\* reply of its own, and the mutex is held by a connection that is writing.
ServiceTypeOK ==
    /\ CacheTypeOK
    /\ \A u \in Datagrams :
          pc[u] \in {"idle", "lookup", "forward", "store", "send", "done"}
    /\ \A c \in Conns :
          pc[c] \in {"new", "handshake", "read", "lookup", "forward", "write", "store", "closed"}
    /\ query \in [Handlers -> Queries \union {NoQuery}]
    /\ tried \in [Handlers -> 0 .. Upstreams]
    /\ lock \in Conns \union {Nobody}
    /\ unread \in [Conns -> 0 .. Window]
    /\ gone \subseteq Conns /\ broken \subseteq gone

\* "Blocked Domain ... is never contacted" (docs/architecture.md:71-78), on
\* both copies of the handler: no upstream hears a blocked name, the cache
\* holds nothing about one, and nobody is answered about one from elsewhere
\* than the filter.
BlockedStaysLocal ==
    /\ \A n \in forwarded : Verdict[n] # "Blocked"
    /\ \A k \in DOMAIN cache : Verdict[k[1]] # "Blocked"
    /\ \A h \in Handlers : \A i \in DOMAIN sent[h] :
          sent[h][i].source = "blocked" <=> Verdict[asked[h][i].name] = "Blocked"

\* Handlers of all kinds fill the cache for each other: what is stored under
\* a key answers that key's question and was given by an upstream for it.
CacheAnswersItsKey ==
    \A k \in DOMAIN cache :
        /\ cache[k].packet.body \in answers
        /\ k = Key(cache[k].packet.body.name, cache[k].packet.body.qtype)

\* A connection is a sequence of questions and answers: no reply is lost,
\* doubled, out of order or for another question, a blocked or cached one
\* included, and it reads the next question only when it has answered the
\* last (until a write fails: then there is nobody to answer).
RepliesMatchQuestions ==
    \A h \in Handlers \ broken :
        /\ Len(sent[h]) \in {Len(asked[h]), Len(asked[h]) - 1}
        /\ pc[h] \in {"read", "store"} /\ h \in Conns => Len(sent[h]) = Len(asked[h])
        /\ \A i \in DOMAIN sent[h] :
              Parses(sent[h][i]) => SameQuestion(sent[h][i].body, asked[h][i])

\* "Update Cache & Return" (README.md:88), on UDP: an answer that has been
\* sent to a client was put in the cache before.
UdpAnswersAreStored ==
    \A u \in Datagrams : \A i \in DOMAIN sent[u] :
        sent[u][i].source = "upstream" /\ Parses(sent[u][i])
            => sent[u][i].body \in stored

\* The mutex kept over a write is always given back: a handler that waits for
\* the cache is never locked out for good while peers read or hang up.
EveryQueryEnds ==
    /\ \A u \in Datagrams : pc[u] # "idle" ~> pc[u] = "done"
    /\ \A c \in Conns :
          pc[c] \in {"lookup", "forward", "write", "store"} ~> pc[c] \in {"read", "closed"}

\* The clients see no more than QuerySpec allows.
Clients == INSTANCE QuerySpec WITH
    Bodies <- Bodies \union
        {ResponseTo(q, rc) : q \in Queries, rc \in {BlockedRcode, "ServFail"}},
    BlockedNames <- {n \in Domains : Verdict[n] = "Blocked"},
    sent <- [h \in Handlers |->
               [i \in DOMAIN sent[h] |->
                  [source |-> sent[h][i].source, body |-> sent[h][i].body]]],
    over <- broken \union {h \in Handlers : pc[h] \in {"done", "closed"}}

ImplementsQuerySpec == Clients!Spec

-----------------------------------------------------------------------------
(* What the documents say and the code does not do                         *)

\* A client gets the answer to its own query, transaction id included.
RepliesCarryTheQueryId ==
    \A h \in Handlers : \A i \in DOMAIN sent[h] :
        Parses(sent[h][i]) => sent[h][i].body.id = asked[h][i].id

\* "the DNS service continues serving cached responses rather than failing
\* entirely" (docs/architecture.md:11): whatever one client does, a query of
\* another gets past the cache.
LookUpsGetThrough ==
    \A u \in Datagrams : pc[u] = "lookup" ~> pc[u] # "lookup"
=============================================================================
