--------------------------- MODULE DnsServiceProofs ---------------------------
(***************************************************************************)
(* What holds of the query handlers for any number of UDP tasks and        *)
(* connections, any queries, any filter and any chain of upstreams:        *)
(* theorems about DnsService.  Those about the cache are used as they are: *)
(* the handlers call get() and insert(), whose lemmas say what they keep.  *)
(***************************************************************************)
EXTENDS DnsService, DnsCacheProofs

-----------------------------------------------------------------------------
(* The inductive invariant                                                 *)

AllBodies ==
    Bodies \union {Garbled} \union
        {ResponseTo(q, rc) : q \in Queries, rc \in {BlockedRcode, "ServFail"}}

AllReplies ==
    [source : {"none", "blocked", "cache", "upstream", "servfail"},
     body : AllBodies, ttls : SUBSET Nat]

UdpPlaces == {"idle", "lookup", "forward", "store", "send", "done"}

TcpPlaces ==
    {"new", "handshake", "read", "lookup", "forward", "write", "store", "closed"}

\* Where a handler has a query to work on.
Busy == {"lookup", "forward", "store", "send", "write"}

TypesOK ==
    /\ pc \in [Handlers -> UdpPlaces \union TcpPlaces]
    /\ \A u \in Datagrams : pc[u] \in UdpPlaces
    /\ \A c \in Conns : pc[c] \in TcpPlaces
    /\ query \in [Handlers -> Queries \union {NoQuery}]
    /\ tried \in [Handlers -> 0 .. Upstreams]
    /\ reply \in [Handlers -> AllReplies]
    /\ lock \in Conns \union {Nobody}
    /\ unread \in [Conns -> 0 .. Window]
    /\ gone \subseteq Conns /\ broken \subseteq gone
    /\ asked \in [Handlers -> Seq(Queries)]
    /\ sent \in [Handlers -> Seq(AllReplies)]
    /\ answers \subseteq Bodies

\* Reply r is one that handler h may give to query q when "said" is all that the
\* upstreams have answered.
Good(h, r, q, said) ==
    \/ /\ Verdict[q.name] = "Blocked"
       /\ r.source = "blocked" /\ r.body = ResponseTo(q, BlockedRcode)
    \/ /\ Verdict[q.name] # "Blocked"
       /\ \/ r.source = "cache" /\ r.body \in said /\ SameQuestion(r.body, q)
          \/ /\ r.source = "upstream" /\ r.body \in said
             /\ PacketOf(r) \in Packets
             /\ \/ r.body = Garbled
                \/ \E rc \in UpstreamRcodes : r.body = ResponseTo(q, rc)
          \/ /\ r.source = "servfail" /\ h \in Conns
             /\ r.body = ResponseTo(q, "ServFail")

\* What a UDP task relays is among what has been put in the cache.
Kept(h, r, put) ==
    h \in Datagrams /\ r.source = "upstream" /\ Parses(r) => r.body \in put

\* Replies never run ahead of questions, lag one behind while a handler is at
\* work, and for good once a write has failed.
LengthsOK(h) ==
    /\ Len(sent[h]) <= Len(asked[h])
    /\ pc[h] = "idle" => Len(asked[h]) = 0
    /\ h \in broken => Len(sent[h]) < Len(asked[h])
    /\ h \notin broken =>
          /\ pc[h] \in {"lookup", "forward", "send", "write"} =>
                Len(sent[h]) = Len(asked[h]) - 1
          /\ h \in Datagrams =>
                /\ pc[h] = "store" => Len(sent[h]) = Len(asked[h]) - 1
                /\ Len(sent[h]) >= Len(asked[h]) - 1
          /\ h \in Conns /\ pc[h] \notin {"lookup", "forward", "write"} =>
                Len(sent[h]) = Len(asked[h])

\* The query at work is the last one asked, and it has come this far by right.
WorkOK(h) ==
    pc[h] \in Busy =>
        /\ query[h] \in Queries /\ Lower[query[h].name] = query[h].name
        /\ Len(asked[h]) > 0 /\ query[h] = asked[h][Len(asked[h])]
        /\ pc[h] \in {"lookup", "forward", "store"} =>
              Verdict[query[h].name] # "Blocked"
        /\ pc[h] \in {"store", "send", "write"} => Good(h, reply[h], query[h], answers)
        /\ pc[h] = "store" => reply[h].source = "upstream" /\ Parses(reply[h])
        /\ pc[h] = "send" => Kept(h, reply[h], stored)

SentOK(h) ==
    \A i \in DOMAIN sent[h] :
        /\ Good(h, sent[h][i], asked[h][i], answers)
        /\ Kept(h, sent[h][i], stored)

HandlerOK(h) == LengthsOK(h) /\ WorkOK(h) /\ SentOK(h)

\* An entry is an upstream's answer to the question of its key.
CacheKnows ==
    \A k \in DOMAIN cache :
        LET b == cache[k].packet.body
        IN  /\ b \in answers
            /\ k = <<b.name, b.qtype>>
            /\ Lower[b.name] = b.name
            /\ Verdict[b.name] # "Blocked"

ServiceInv ==
    /\ CacheInv /\ CacheKnows
    /\ TypesOK
    /\ \A h \in Handlers : HandlerOK(h)
    /\ \A n \in forwarded : Verdict[n] # "Blocked"

-----------------------------------------------------------------------------
(* Lemmas: what carries over from one state to the next                    *)

\* Histories of the world only grow.
WorldGrows == answers \subseteq answers' /\ stored \subseteq stored'

\* A step of handler h alone.
OnlyMoves(h) ==
    /\ WorldGrows
    /\ \A g \in Handlers \ {h} :
          /\ pc'[g] = pc[g] /\ query'[g] = query[g] /\ reply'[g] = reply[g]
          /\ asked'[g] = asked[g] /\ sent'[g] = sent[g]
          /\ g \in broken' <=> g \in broken

\* A reply that was good stays good.
LEMMA GoodKept ==
  ASSUME WorldGrows, NEW h, NEW r, NEW q
  PROVE  /\ Good(h, r, q, answers) => Good(h, r, q, answers')
         /\ Kept(h, r, stored) => Kept(h, r, stored')
BY DEF WorldGrows, Good, Kept

\* A good reply is about the question asked.
LEMMA GoodAnswers ==
  ASSUME NEW h, NEW r, NEW q, Good(h, r, q, answers), Parses(r)
  PROVE  SameQuestion(r.body, q)
<1>1. ASSUME NEW rc PROVE SameQuestion(ResponseTo(q, rc), q)
  BY DEF SameQuestion, ResponseTo
<1> QED BY <1>1 DEF Good, Parses

\* Replies given stay right while nothing, or only a question, is added.
LEMMA SentKept ==
  ASSUME WorldGrows, NEW h \in Handlers, TypesOK, LengthsOK(h), SentOK(h),
         sent'[h] = sent[h],
         asked'[h] = asked[h] \/ \E q \in Queries : asked'[h] = Append(asked[h], q)
  PROVE  SentOK(h)'
<1>1. SUFFICES ASSUME NEW i \in DOMAIN sent[h]
               PROVE  /\ Good(h, sent'[h][i], asked'[h][i], answers')
                      /\ Kept(h, sent'[h][i], stored')
  BY DEF SentOK
<1>2. asked[h] \in Seq(Queries) /\ sent[h] \in Seq(AllReplies)
  BY DEF TypesOK
<1>3. i \in 1 .. Len(asked[h])
  BY <1>2 DEF LengthsOK
<1>4. asked'[h][i] = asked[h][i]
  BY <1>2, <1>3
<1>5. Good(h, sent[h][i], asked[h][i], answers) /\ Kept(h, sent[h][i], stored)
  BY DEF SentOK
<1> QED BY <1>4, <1>5, GoodKept

\* A handler that does nothing stays right.
LEMMA HandlerKept ==
  ASSUME WorldGrows, NEW g \in Handlers, TypesOK, HandlerOK(g),
         pc'[g] = pc[g], query'[g] = query[g], reply'[g] = reply[g],
         asked'[g] = asked[g], sent'[g] = sent[g],
         g \in broken' <=> g \in broken
  PROVE  HandlerOK(g)'
<1>1. SentOK(g)'
  BY SentKept DEF HandlerOK
<1>2. LengthsOK(g)'
  BY DEF HandlerOK, LengthsOK
<1>3. /\ Good(g, reply[g], query[g], answers) => Good(g, reply'[g], query'[g], answers')
      /\ Kept(g, reply[g], stored) => Kept(g, reply'[g], stored')
  BY GoodKept
<1>4. WorkOK(g)'
  BY <1>3 DEF HandlerOK, WorkOK
<1> QED BY <1>1, <1>2, <1>4 DEF HandlerOK

\* A handler goes where its program may be.
LEMMA PlaceMoves ==
  ASSUME TypesOK, NEW h \in Handlers, NEW next,
         \/ h \in Datagrams /\ next \in UdpPlaces
         \/ h \in Conns /\ next \in TcpPlaces,
         pc' = [pc EXCEPT ![h] = next]
  PROVE  /\ pc' \in [Handlers -> UdpPlaces \union TcpPlaces]
         /\ \A u \in Datagrams : pc'[u] \in UdpPlaces
         /\ \A c \in Conns : pc'[c] \in TcpPlaces
         /\ pc'[h] = next
<1>1. Datagrams \intersect Conns = {} /\ Handlers = Datagrams \union Conns
  BY ServiceAssumption DEF Handlers
<1> QED BY <1>1 DEF TypesOK

\* The cache knows what it knew, and what is added now.
LEMMA CacheKnowsKept ==
  ASSUME WorldGrows, CacheKnows, UNCHANGED cache
  PROVE  CacheKnows'
BY DEF WorldGrows, CacheKnows

\* A step of one handler that leaves the cache alone.
LEMMA QuietStep ==
  ASSUME ServiceInv, NEW h \in Handlers, OnlyMoves(h), TypesOK', HandlerOK(h)',
         UNCHANGED cacheVars, UNCHANGED forwarded
  PROVE  ServiceInv'
<1>1. \A g \in Handlers : HandlerOK(g)'
  BY HandlerKept DEF ServiceInv, OnlyMoves
<1>2. CacheInv'
  BY CacheStepInv DEF ServiceInv
<1>3. CacheKnows'
  BY CacheKnowsKept DEF ServiceInv, OnlyMoves, cacheVars
<1> QED BY <1>1, <1>2, <1>3 DEF ServiceInv

-----------------------------------------------------------------------------
(* The initial state, and one lemma per action                             *)

LEMMA ServiceInit == Init => ServiceInv
<1> SUFFICES ASSUME Init PROVE ServiceInv
  OBVIOUS
<1>1. CacheInv /\ DOMAIN cache = {}
  BY CacheInitInv DEF Init, CacheInit, Nothing
<1>2. TypesOK
  <2>1. NoReply \in AllReplies
    BY DEF NoReply, Reply, AllReplies, AllBodies
  <2> QED BY <2>1, ServiceAssumption
          DEF Init, TypesOK, Handlers, UdpPlaces, TcpPlaces
<1>3. ASSUME NEW h \in Handlers
      PROVE  HandlerOK(h)
  BY ServiceAssumption
     DEF Init, Handlers, HandlerOK, LengthsOK, WorkOK, SentOK, Busy
<1> QED BY <1>1, <1>2, <1>3 DEF ServiceInv, CacheKnows, Init

\* A handler that takes up no query and gives no reply just moves on.
LEMMA MovesOn ==
  ASSUME ServiceInv, NEW h \in Handlers, NEW next,
         next \in IF h \in Conns THEN TcpPlaces ELSE UdpPlaces,
         next \notin Busy \union {"idle"},
         h \in Conns => pc[h] \notin {"lookup", "forward", "write"},
         pc' = [pc EXCEPT ![h] = next],
         UNCHANGED <<cacheVars, query, tried, reply, lock, peerVars, history>>
  PROVE  ServiceInv'
<1>1. TypesOK /\ HandlerOK(h)
  BY DEF ServiceInv
<1>2. TypesOK'
  BY <1>1, ServiceAssumption DEF TypesOK, Handlers, peerVars, history
<1>3. OnlyMoves(h)
  BY <1>1 DEF OnlyMoves, WorldGrows, TypesOK, peerVars, history
<1>4. SentOK(h)'
  BY <1>1, <1>3, SentKept DEF OnlyMoves, HandlerOK, history
<1>5. pc'[h] = next
  BY <1>1 DEF TypesOK
<1>6. LengthsOK(h)'
  BY <1>1, <1>5, ServiceAssumption
     DEF HandlerOK, LengthsOK, Busy, peerVars, history, Handlers
<1>7. WorkOK(h)'
  BY <1>5 DEF WorkOK
<1> QED BY <1>2, <1>3, <1>4, <1>6, <1>7, QuietStep DEF HandlerOK, history

\* The filter decides where a query goes; the reply to a blocked one is right.
LEMMA AcceptInv ==
  ASSUME ServiceInv, NEW h \in Handlers, NEW q \in Asks[h], NEW toReply,
         \/ h \in Datagrams /\ pc[h] = "idle" /\ toReply = "send"
         \/ h \in Conns /\ pc[h] = "read" /\ toReply = "write",
         Accept(h, q, toReply)
  PROVE  ServiceInv'
<1>1. TypesOK /\ HandlerOK(h)
  BY DEF ServiceInv
<1>2. q \in Queries /\ Lower[q.name] = q.name
  BY ServiceAssumption, ParsedNames DEF Handlers, Queries
<1>3. /\ query' = [query EXCEPT ![h] = q]
      /\ asked' = [asked EXCEPT ![h] = Append(asked[h], q)]
      /\ \/ /\ Verdict[q.name] = "Blocked"
            /\ pc' = [pc EXCEPT ![h] = toReply]
            /\ reply' = [reply EXCEPT ![h] = BlockedReply(q)]
         \/ /\ Verdict[q.name] # "Blocked"
            /\ pc' = [pc EXCEPT ![h] = "lookup"]
            /\ reply' = reply
      /\ UNCHANGED <<cacheVars, tried, lock, peerVars, sent, answers, stored,
                     forwarded>>
  BY DEF Accept, Rejected
<1>4. BlockedReply(q) \in AllReplies
  BY <1>2 DEF BlockedReply, Reply, AllReplies, AllBodies
<1>5. asked[h] \in Seq(Queries) /\ asked' \in [Handlers -> Seq(Queries)]
  BY <1>1, <1>2, <1>3 DEF TypesOK
<1>6. TypesOK'
  <2>1. /\ query' \in [Handlers -> Queries \union {NoQuery}]
        /\ reply' \in [Handlers -> AllReplies]
    BY <1>1, <1>2, <1>3, <1>4 DEF TypesOK
  <2>2. /\ pc' \in [Handlers -> UdpPlaces \union TcpPlaces]
        /\ \A u \in Datagrams : pc'[u] \in UdpPlaces
        /\ \A c \in Conns : pc'[c] \in TcpPlaces
    <3>1. PICK next : /\ pc' = [pc EXCEPT ![h] = next]
                      /\ next \in {toReply, "lookup"}
      BY <1>3
    <3>2. \/ h \in Datagrams /\ next \in UdpPlaces
          \/ h \in Conns /\ next \in TcpPlaces
      BY <3>1 DEF UdpPlaces, TcpPlaces
    <3> QED BY <1>1, <3>1, <3>2, PlaceMoves
  <2> QED BY <1>1, <1>3, <1>5, <2>1, <2>2 DEF TypesOK, peerVars
<1>7. OnlyMoves(h)
  BY <1>1, <1>3 DEF OnlyMoves, WorldGrows, TypesOK, peerVars
<1>8. SentOK(h)'
  <2>1. asked'[h] = Append(asked[h], q) /\ sent'[h] = sent[h]
    BY <1>1, <1>3 DEF TypesOK
  <2> QED BY <1>1, <1>2, <1>7, <2>1, SentKept DEF OnlyMoves, HandlerOK
<1>9. /\ asked'[h] = Append(asked[h], q)
      /\ Len(asked'[h]) = Len(asked[h]) + 1 /\ Len(asked[h]) \in Nat
      /\ asked'[h][Len(asked[h]) + 1] = q
      /\ sent'[h] = sent[h] /\ query'[h] = q /\ Len(sent[h]) \in Nat
  BY <1>1, <1>3, <1>5 DEF TypesOK
<1>10. pc'[h] \in {toReply, "lookup"}
  BY <1>1, <1>3 DEF TypesOK
<1>11. LengthsOK(h)'
  <2>1. h \notin broken => Len(sent[h]) = Len(asked[h])
    BY <1>1, <1>9, ServiceAssumption DEF HandlerOK, LengthsOK
  <2> QED BY <1>1, <1>3, <1>9, <1>10, <2>1, ServiceAssumption
          DEF HandlerOK, LengthsOK, peerVars
<1>12. WorkOK(h)'
  <2>1. CASE Verdict[q.name] = "Blocked"
    <3>1. reply'[h] = BlockedReply(q) /\ pc'[h] = toReply
      BY <1>1, <1>3, <2>1 DEF TypesOK
    <3> QED BY <1>2, <1>9, <2>1, <3>1
            DEF WorkOK, Good, Kept, BlockedReply, Reply
  <2>2. CASE Verdict[q.name] # "Blocked"
    <3>1. pc'[h] = "lookup"
      BY <1>1, <1>3, <2>2 DEF TypesOK
    <3> QED BY <1>2, <1>9, <2>2, <3>1 DEF WorkOK
  <2> QED BY <2>1, <2>2
<1> QED BY <1>3, <1>6, <1>7, <1>8, <1>11, <1>12, QuietStep DEF HandlerOK

\* An upstream that fails is counted; there are never more failures than
\* upstreams.
LEMMA UpstreamFailsInv ==
  ASSUME ServiceInv, NEW h \in Handlers, UpstreamFails(h)
  PROVE  ServiceInv'
<1>1. TypesOK /\ HandlerOK(h)
  BY DEF ServiceInv
<1>2. TypesOK'
  BY <1>1, ServiceAssumption DEF TypesOK, UpstreamFails, peerVars, history
<1>3. OnlyMoves(h)
  BY DEF OnlyMoves, WorldGrows, UpstreamFails, peerVars, history
<1>4. HandlerOK(h)'
  BY <1>1, <1>3, HandlerKept DEF OnlyMoves, UpstreamFails, peerVars, history
<1> QED BY <1>2, <1>3, <1>4, QuietStep DEF UpstreamFails, history

\* An upstream's answer becomes the reply, and part of what upstreams said.
LEMMA UpstreamAnswersInv ==
  ASSUME ServiceInv, NEW h \in Handlers, NEW p \in Packets,
         NEW onParsed, NEW onGarbled,
         \/ h \in Datagrams /\ onParsed = "store" /\ onGarbled = "send"
         \/ h \in Conns /\ onParsed = "write" /\ onGarbled = "write",
         UpstreamAnswers(h, p, onParsed, onGarbled)
  PROVE  ServiceInv'
<1>1. TypesOK /\ HandlerOK(h)
  BY DEF ServiceInv
<1>2. /\ pc[h] = "forward" /\ AnswersQuery(h, p)
      /\ reply' = [reply EXCEPT ![h] = UpstreamReply(p)]
      /\ answers' = answers \union {p.body}
      /\ pc' = [pc EXCEPT ![h] = IF p.body = Garbled THEN onGarbled ELSE onParsed]
      /\ UNCHANGED <<cacheVars, query, tried, lock, peerVars, asked, sent,
                     stored, forwarded>>
  BY DEF UpstreamAnswers
<1>3. UpstreamReply(p) \in AllReplies
  <2>1. p.body \in Bodies /\ p.ttls \in SUBSET AnswerTtls
    BY DEF Packets
  <2>2. p.ttls \in SUBSET Nat
    BY <2>1, TtlAssumption
  <2>3. p.body \in AllBodies
    BY <2>1 DEF AllBodies
  <2> QED BY <2>2, <2>3 DEF UpstreamReply, Reply, AllReplies
<1>4. TypesOK'
  <2>1. reply' \in [Handlers -> AllReplies]
    BY <1>1, <1>2, <1>3 DEF TypesOK
  <2>2. /\ pc' \in [Handlers -> UdpPlaces \union TcpPlaces]
        /\ \A u \in Datagrams : pc'[u] \in UdpPlaces
        /\ \A c \in Conns : pc'[c] \in TcpPlaces
    <3>1. PICK next : /\ pc' = [pc EXCEPT ![h] = next]
                      /\ next \in {onParsed, onGarbled}
      BY <1>2
    <3>2. \/ h \in Datagrams /\ next \in UdpPlaces
          \/ h \in Conns /\ next \in TcpPlaces
      BY <3>1 DEF UdpPlaces, TcpPlaces
    <3> QED BY <1>1, <3>1, <3>2, PlaceMoves
  <2>3. answers' \subseteq Bodies
    BY <1>1, <1>2 DEF TypesOK, Packets
  <2> QED BY <1>1, <1>2, <2>1, <2>2, <2>3 DEF TypesOK, peerVars
<1>5. OnlyMoves(h)
  BY <1>1, <1>2 DEF OnlyMoves, WorldGrows, TypesOK, peerVars
<1>6. SentOK(h)'
  BY <1>1, <1>2, <1>5, SentKept DEF OnlyMoves, HandlerOK
<1>7. /\ reply'[h] = UpstreamReply(p)
      /\ pc'[h] = IF p.body = Garbled THEN onGarbled ELSE onParsed
  BY <1>1, <1>2 DEF TypesOK
<1>8. LengthsOK(h)'
  BY <1>1, <1>2, <1>7, ServiceAssumption DEF HandlerOK, LengthsOK, peerVars
<1>9. /\ query'[h] = query[h] /\ asked'[h] = asked[h]
      /\ query[h] \in Queries /\ Lower[query[h].name] = query[h].name
      /\ Len(asked[h]) > 0 /\ query[h] = asked[h][Len(asked[h])]
      /\ Verdict[query[h].name] # "Blocked"
  BY <1>1, <1>2 DEF HandlerOK, WorkOK, Busy
<1>10. Good(h, UpstreamReply(p), query[h], answers')
  <2>1. PacketOf(UpstreamReply(p)) = p
    BY DEF PacketOf, UpstreamReply, Reply, Packets
  <2> QED BY <1>2, <1>9, <2>1 DEF Good, UpstreamReply, Reply, AnswersQuery
<1>11. WorkOK(h)'
  BY <1>7, <1>9, <1>10, ServiceAssumption
     DEF WorkOK, Kept, Parses, UpstreamReply, Reply
<1> QED BY <1>2, <1>4, <1>5, <1>6, <1>8, <1>11, QuietStep DEF HandlerOK

\* A connection whose upstreams all failed says so.
LEMMA TcpGivesUpInv ==
  ASSUME ServiceInv, NEW c \in Conns, TcpGivesUp(c)
  PROVE  ServiceInv'
<1>1. TypesOK /\ HandlerOK(c) /\ c \in Handlers
  BY DEF ServiceInv, Handlers
<1>2. /\ pc[c] = "forward"
      /\ pc' = [pc EXCEPT ![c] = "write"]
      /\ reply' = [reply EXCEPT ![c] = ServfailReply(query[c])]
      /\ UNCHANGED <<cacheVars, query, tried, lock, peerVars, history>>
  BY DEF TcpGivesUp
<1>3. /\ query[c] \in Queries /\ Lower[query[c].name] = query[c].name
      /\ Len(asked[c]) > 0 /\ query[c] = asked[c][Len(asked[c])]
      /\ Verdict[query[c].name] # "Blocked"
  BY <1>1, <1>2 DEF HandlerOK, WorkOK, Busy
<1>4. ServfailReply(query[c]) \in AllReplies
  BY <1>3 DEF ServfailReply, Reply, AllReplies, AllBodies
<1>5. TypesOK'
  <2>1. reply' \in [Handlers -> AllReplies]
    BY <1>1, <1>2, <1>4 DEF TypesOK
  <2>2. /\ pc' \in [Handlers -> UdpPlaces \union TcpPlaces]
        /\ \A u \in Datagrams : pc'[u] \in UdpPlaces
        /\ \A d \in Conns : pc'[d] \in TcpPlaces
    BY <1>1, <1>2, ServiceAssumption DEF TypesOK, UdpPlaces, TcpPlaces, Handlers
  <2> QED BY <1>1, <1>2, <2>1, <2>2 DEF TypesOK, peerVars, history
<1>6. OnlyMoves(c)
  BY <1>1, <1>2 DEF OnlyMoves, WorldGrows, TypesOK, peerVars, history
<1>7. SentOK(c)'
  BY <1>1, <1>2, <1>6, SentKept DEF OnlyMoves, HandlerOK, history
<1>8. reply'[c] = ServfailReply(query[c]) /\ pc'[c] = "write"
  BY <1>1, <1>2 DEF TypesOK
<1>9. LengthsOK(c)'
  BY <1>1, <1>2, <1>8, ServiceAssumption
     DEF HandlerOK, LengthsOK, peerVars, history
<1>10. WorkOK(c)'
  BY <1>2, <1>3, <1>8 DEF WorkOK, Good, ServfailReply, Reply, history
<1> QED BY <1>1, <1>2, <1>5, <1>6, <1>7, <1>9, <1>10, QuietStep
        DEF HandlerOK, history

\* Giving a reply that is good, to the query that is at work.
LEMMA SentMore ==
  ASSUME TypesOK, NEW h \in Handlers, HandlerOK(h), h \notin broken,
         pc[h] \in {"send", "write"},
         sent' = [sent EXCEPT ![h] = Append(sent[h], reply[h])],
         UNCHANGED <<asked, answers, stored>>,
         Kept(h, reply[h], stored)
  PROVE  /\ SentOK(h)'
         /\ sent' \in [Handlers -> Seq(AllReplies)]
         /\ Len(sent'[h]) = Len(asked'[h]) /\ Len(asked'[h]) \in Nat \ {0}
<1>1. /\ sent[h] \in Seq(AllReplies) /\ reply[h] \in AllReplies
      /\ asked[h] \in Seq(Queries)
      /\ sent'[h] = Append(sent[h], reply[h])
      /\ sent' \in [Handlers -> Seq(AllReplies)]
  BY DEF TypesOK
<1>2. /\ Len(sent[h]) = Len(asked[h]) - 1
      /\ query[h] = asked[h][Len(asked[h])]
      /\ Good(h, reply[h], query[h], answers)
  BY DEF HandlerOK, LengthsOK, WorkOK, Busy
<1>3. SentOK(h)'
  <2>1. SUFFICES ASSUME NEW i \in DOMAIN sent'[h]
                 PROVE  /\ Good(h, sent'[h][i], asked[h][i], answers)
                        /\ Kept(h, sent'[h][i], stored)
    BY DEF SentOK
  <2>2. CASE i \in DOMAIN sent[h]
    BY <1>1, <2>2 DEF HandlerOK, SentOK
  <2>3. CASE i = Len(asked[h])
    <3>1. sent'[h][i] = reply[h]
      BY <1>1, <1>2, <2>3
    <3> QED BY <1>2, <2>3, <3>1
  <2> QED BY <1>1, <1>2, <2>1, <2>2, <2>3
<1> QED BY <1>1, <1>2, <1>3

\* The reply to a datagram goes out, and the task ends.
LEMMA UdpSendInv ==
  ASSUME ServiceInv, NEW u \in Datagrams, UdpSend(u)
  PROVE  ServiceInv'
<1>1. TypesOK /\ HandlerOK(u) /\ u \in Handlers /\ u \notin broken
  BY ServiceAssumption DEF ServiceInv, Handlers, TypesOK
<1>2. /\ pc[u] = "send"
      /\ sent' = [sent EXCEPT ![u] = Append(sent[u], reply[u])]
      /\ pc' = [pc EXCEPT ![u] = "done"]
      /\ UNCHANGED <<cacheVars, query, tried, reply, lock, peerVars,
                     asked, answers, stored, forwarded>>
  BY DEF UdpSend
<1>3. Kept(u, reply[u], stored)
  BY <1>1, <1>2 DEF HandlerOK, WorkOK, Busy
<1>4. /\ SentOK(u)' /\ sent' \in [Handlers -> Seq(AllReplies)]
      /\ Len(sent'[u]) = Len(asked'[u]) /\ Len(asked'[u]) \in Nat \ {0}
  BY <1>1, <1>2, <1>3, SentMore
<1>5. /\ pc' \in [Handlers -> UdpPlaces \union TcpPlaces]
      /\ \A v \in Datagrams : pc'[v] \in UdpPlaces
      /\ \A c \in Conns : pc'[c] \in TcpPlaces
      /\ pc'[u] = "done"
  BY <1>1, <1>2, PlaceMoves DEF UdpPlaces
<1>6. TypesOK'
  BY <1>1, <1>2, <1>4, <1>5 DEF TypesOK, peerVars
<1>7. OnlyMoves(u)
  BY <1>1, <1>2 DEF OnlyMoves, WorldGrows, TypesOK, peerVars
<1>8. LengthsOK(u)' /\ WorkOK(u)'
  BY <1>1, <1>2, <1>4, <1>5, ServiceAssumption
     DEF LengthsOK, WorkOK, Busy, peerVars
<1> QED BY <1>1, <1>2, <1>4, <1>6, <1>7, <1>8, QuietStep DEF HandlerOK

\* The reply to a connection goes out, and the next query may be read.
LEMMA TcpWriteInv ==
  ASSUME ServiceInv, NEW c \in Conns, TcpWrite(c)
  PROVE  ServiceInv'
<1>1. TypesOK /\ HandlerOK(c) /\ c \in Handlers /\ c \notin Datagrams
  BY ServiceAssumption DEF ServiceInv, Handlers
<1> DEFINE next == IF reply[c].source = "upstream" /\ Parses(reply[c])
                   THEN "store" ELSE "read"
<1>2. /\ pc[c] = "write" /\ c \notin broken /\ unread[c] < Window
      /\ unread' = [unread EXCEPT ![c] = unread[c] + 1]
      /\ sent' = [sent EXCEPT ![c] = Append(sent[c], reply[c])]
      /\ pc' = [pc EXCEPT ![c] = next]
      /\ lock' \in {lock, Nobody}
      /\ UNCHANGED <<cacheVars, query, tried, reply, gone, broken,
                     asked, answers, stored, forwarded>>
  BY DEF TcpWrite, Release
<1>3. next \in {"store", "read"}
      /\ (next = "store" => reply[c].source = "upstream" /\ Parses(reply[c]))
  OBVIOUS
<1> HIDE DEF next
<1>4. /\ SentOK(c)' /\ sent' \in [Handlers -> Seq(AllReplies)]
      /\ Len(sent'[c]) = Len(asked'[c]) /\ Len(asked'[c]) \in Nat \ {0}
  <2>1. Kept(c, reply[c], stored)
    BY <1>1 DEF Kept
  <2> QED BY <1>1, <1>2, <2>1, SentMore
<1>5. /\ pc' \in [Handlers -> UdpPlaces \union TcpPlaces]
      /\ \A v \in Datagrams : pc'[v] \in UdpPlaces
      /\ \A d \in Conns : pc'[d] \in TcpPlaces
      /\ pc'[c] = next
  BY <1>1, <1>2, <1>3, PlaceMoves DEF TcpPlaces
<1>6. TypesOK'
  <2>1. unread' \in [Conns -> 0 .. Window]
    BY <1>1, <1>2, ServiceAssumption DEF TypesOK
  <2> QED BY <1>1, <1>2, <1>4, <1>5, <2>1 DEF TypesOK
<1>7. OnlyMoves(c)
  BY <1>1, <1>2 DEF OnlyMoves, WorldGrows, TypesOK
<1>8. LengthsOK(c)'
  BY <1>1, <1>2, <1>3, <1>4, <1>5 DEF LengthsOK
<1>9. WorkOK(c)'
  <2>1. /\ query'[c] = query[c] /\ asked'[c] = asked[c]
        /\ reply'[c] = reply[c] /\ answers' = answers
        /\ query[c] \in Queries /\ Lower[query[c].name] = query[c].name
        /\ Len(asked[c]) > 0 /\ query[c] = asked[c][Len(asked[c])]
        /\ Good(c, reply[c], query[c], answers)
    BY <1>1, <1>2 DEF HandlerOK, WorkOK, Busy
  <2>2. next = "store" => Verdict[query[c].name] # "Blocked"
    BY <1>3, <2>1 DEF Good
  <2> QED BY <1>3, <1>5, <2>1, <2>2 DEF WorkOK, Busy
<1> QED BY <1>1, <1>2, <1>4, <1>6, <1>7, <1>8, <1>9, QuietStep DEF HandlerOK

\* A write that fails breaks the connection, and with it what it is owed.
LEMMA TcpWriteFailsInv ==
  ASSUME ServiceInv, NEW c \in Conns, TcpWriteFails(c)
  PROVE  ServiceInv'
<1>1. TypesOK /\ HandlerOK(c) /\ c \in Handlers
  BY DEF ServiceInv, Handlers
<1>2. PICK next \in {"read", "closed"} : pc' = [pc EXCEPT ![c] = next]
  BY DEF TcpWriteFails
<1>3. /\ c \in gone /\ broken' = broken \union {c} /\ lock' \in {lock, Nobody}
      /\ UNCHANGED <<cacheVars, query, tried, reply, unread, gone, history>>
  BY DEF TcpWriteFails, Release
<1>4. /\ pc' \in [Handlers -> UdpPlaces \union TcpPlaces]
      /\ \A v \in Datagrams : pc'[v] \in UdpPlaces
      /\ \A d \in Conns : pc'[d] \in TcpPlaces
      /\ pc'[c] = next
  BY <1>1, <1>2, PlaceMoves DEF TcpPlaces
<1>5. TypesOK'
  BY <1>1, <1>3, <1>4 DEF TypesOK, history
<1>6. OnlyMoves(c)
  BY <1>1, <1>2, <1>3 DEF OnlyMoves, WorldGrows, TypesOK, history
<1>7. SentOK(c)'
  BY <1>1, <1>3, <1>6, SentKept DEF OnlyMoves, HandlerOK, history
<1>8. Len(sent[c]) < Len(asked[c])
  <2>1. Len(sent[c]) \in Nat /\ Len(asked[c]) \in Nat /\ pc[c] = "write"
    BY <1>1 DEF TypesOK, TcpWriteFails
  <2> QED BY <1>1, <2>1 DEF HandlerOK, LengthsOK
<1>9. LengthsOK(c)' /\ WorkOK(c)'
  BY <1>1, <1>3, <1>4, <1>8 DEF HandlerOK, LengthsOK, WorkOK, Busy, history
<1> QED BY <1>1, <1>3, <1>5, <1>6, <1>7, <1>9, QuietStep DEF HandlerOK, history

\* What a peer does touches no handler and no entry.
LEMMA PeerInv ==
  ASSUME ServiceInv, NEW c \in Conns, Peer(c)
  PROVE  ServiceInv'
<1>1. TypesOK /\ HandlerOK(c) /\ c \in Handlers
  BY DEF ServiceInv, Handlers
<1>2. UNCHANGED <<cacheVars, taskVars, lock, broken, history>>
  BY DEF Peer, PeerReads, PeerHangsUp
<1>3. TypesOK'
  <2>1. unread' \in [Conns -> 0 .. Window]
    <3>1. unread \in [Conns -> 0 .. Window] /\ Window \in Nat
      BY <1>1, ServiceAssumption DEF TypesOK
    <3>2. CASE PeerReads(c)
      <4>1. unread' = [unread EXCEPT ![c] = unread[c] - 1] /\ unread[c] > 0
        BY <3>2 DEF PeerReads
      <4>2. unread[c] - 1 \in 0 .. Window
        BY <3>1, <4>1
      <4> QED BY <3>1, <4>1, <4>2
    <3> QED BY <3>1, <3>2 DEF Peer, PeerHangsUp
  <2>2. gone \subseteq gone' /\ gone' \subseteq Conns
    BY <1>1 DEF Peer, PeerReads, PeerHangsUp, TypesOK
  <2> QED BY <1>1, <1>2, <2>1, <2>2 DEF TypesOK, taskVars, history
<1>4. OnlyMoves(c)
  BY <1>2 DEF OnlyMoves, WorldGrows, taskVars, history
<1>5. HandlerOK(c)'
  BY <1>1, <1>2, <1>4, HandlerKept DEF OnlyMoves, taskVars, history
<1> QED BY <1>1, <1>2, <1>3, <1>4, <1>5, QuietStep DEF history

\* The clock touches nothing but the age of the entries.
LEMMA ClockInv ==
  ASSUME ServiceInv, Clock
  PROVE  ServiceInv'
<1>1. PICK t \in Instants : Tick(t)
  BY DEF Clock
<1>2. UNCHANGED <<taskVars, lock, peerVars, history>>
  BY DEF Clock
<1>3. CacheInv' /\ UNCHANGED cache
  BY <1>1, TickInv DEF ServiceInv, Tick
<1>4. WorldGrows
  BY <1>2 DEF WorldGrows, history
<1>5. CacheKnows'
  BY <1>3, <1>4, CacheKnowsKept DEF ServiceInv
<1>6. TypesOK'
  BY <1>2 DEF ServiceInv, TypesOK, taskVars, peerVars, history
<1>7. ASSUME NEW g \in Handlers PROVE HandlerOK(g)'
  BY <1>2, <1>4, HandlerKept DEF ServiceInv, taskVars, peerVars, history
<1> QED BY <1>2, <1>3, <1>5, <1>6, <1>7 DEF ServiceInv, history

\* The life left to an entry is a number of seconds.
LEMMA RemainingTtlType ==
  ASSUME NEW e \in Entries, NEW t \in Nat, e.created_at <= t
  PROVE  RemainingTtlSecs(e, t) \in Nat
<1>1. e.ttl \in Nat /\ e.created_at \in Nat
  BY DEF Entries
<1>2. CASE IsExpired(e, t)
  BY <1>2 DEF RemainingTtlSecs
<1>3. CASE ~IsExpired(e, t)
  <2> DEFINE left == e.ttl - (t - e.created_at)
  <2>1. left \in Nat
    BY <1>1, <1>3 DEF IsExpired
  <2> HIDE DEF left
  <2>2. left \div Second \in Nat
    BY <2>1, TtlAssumption
  <2>3. (left \div Second) % U32 \in Nat
    BY <2>2, TtlAssumption
  <2> QED BY <1>3, <2>3 DEF RemainingTtlSecs, left
<1> QED BY <1>2, <1>3

\* get() finds something exactly when there is a live entry, and then what
\* the entry says.
LEMMA FoundIsLive ==
  ASSUME CacheInv, NEW k, NEW later \in Nat, later >= now
  PROVE  /\ ~Hit(k) => GetResult(k, later) = NoPacket
         /\ Hit(k) => /\ GetResult(k, later) # NoPacket
                      /\ GetResult(k, later).body = cache[k].packet.body
                      /\ GetResult(k, later).body \in Bodies
                      /\ GetResult(k, later).ttls \in SUBSET Nat
<1>1. CASE ~Hit(k)
  BY <1>1 DEF GetResult
<1>2. CASE Hit(k)
  <2> DEFINE e == cache[k]
             ttls == {RemainingTtlSecs(e, later) : t \in e.packet.ttls}
  <2>1. /\ e \in Entries /\ e.created_at <= now /\ now \in Nat
        /\ e.packet \in Packets /\ e.created_at \in Nat
    BY <1>2 DEF Hit, CacheInv, EntriesOK, Entries
  <2>2. RemainingTtlSecs(e, later) \in Nat
    BY <2>1, RemainingTtlType
  <2>3. ttls \in SUBSET Nat
    BY <2>2
  <2>4. GetResult(k, later) = [e.packet EXCEPT !.ttls = ttls]
    BY <1>2 DEF GetResult
  <2> HIDE DEF e, ttls
  <2>5. /\ GetResult(k, later).body = e.packet.body
        /\ GetResult(k, later).ttls = ttls
        /\ "ttls" \in DOMAIN GetResult(k, later)
        /\ e.packet.body \in Bodies
    BY <2>1, <2>4 DEF Packets
  <2>6. GetResult(k, later) # NoPacket
    BY <2>5 DEF NoPacket
  <2> QED BY <1>2, <2>3, <2>5, <2>6 DEF e
<1> QED BY <1>1, <1>2

\* A lookup serves a live entry, which answers this very question, or goes
\* upstream with a name that is not blocked.
LEMMA LookUpInv ==
  ASSUME ServiceInv, NEW h \in Handlers, NEW later \in Instants, NEW toReply,
         \/ h \in Datagrams /\ toReply = "send"
         \/ h \in Conns /\ toReply = "write",
         LookUp(h, later, toReply), lock' \in Conns \union {Nobody}
  PROVE  ServiceInv'
<1> DEFINE q == query[h]
           k == Key(q.name, q.qtype)
           found == GetResult(k, later)
<1>1. TypesOK /\ HandlerOK(h) /\ CacheInv /\ CacheKnows
  BY DEF ServiceInv
<1>2. /\ pc[h] = "lookup" /\ Get(q.name, q.qtype, later)
      /\ \/ /\ found # NoPacket
            /\ pc' = [pc EXCEPT ![h] = toReply]
            /\ reply' = [reply EXCEPT ![h] = CachedReply(found)]
            /\ UNCHANGED <<tried, forwarded>>
         \/ /\ found = NoPacket
            /\ pc' = [pc EXCEPT ![h] = "forward"]
            /\ tried' = [tried EXCEPT ![h] = 0]
            /\ forwarded' \subseteq forwarded \union {q.name}
            /\ UNCHANGED reply
      /\ UNCHANGED <<query, peerVars, asked, sent, answers, stored>>
  BY DEF LookUp, Found
<1>3. /\ q \in Queries /\ Lower[q.name] = q.name
      /\ Len(asked[h]) > 0 /\ q = asked[h][Len(asked[h])]
      /\ Verdict[q.name] # "Blocked"
  BY <1>1, <1>2 DEF HandlerOK, WorkOK, Busy
<1>4. q.name \in Domains /\ q.qtype \in QueryTypes /\ k = <<q.name, q.qtype>>
  BY <1>3 DEF Queries, Key
<1>5. /\ later \in Nat /\ later >= now
      /\ \A j \in DOMAIN cache' : j \in DOMAIN cache /\ cache'[j] = cache[j]
  BY <1>2, InstantsAssumption DEF Get, GetAbsent, GetExpired, GetHit
<1>6. CacheInv'
  BY <1>1, <1>2, <1>4, GetInv
<1>7. CacheKnows'
  BY <1>1, <1>2, <1>5 DEF CacheKnows
<1>8. found # NoPacket =>
         /\ CachedReply(found) \in AllReplies
         /\ Good(h, CachedReply(found), q, answers)
  <2>1. SUFFICES ASSUME found # NoPacket
                 PROVE  /\ CachedReply(found) \in AllReplies
                        /\ Good(h, CachedReply(found), q, answers)
    OBVIOUS
  <2>2. /\ Hit(k) /\ found.body = cache[k].packet.body
        /\ found.body \in Bodies /\ found.ttls \in SUBSET Nat
    BY <1>1, <1>5, <2>1, FoundIsLive
  <2>3. CachedReply(found) \in AllReplies
    <3> HIDE DEF found
    <3> QED BY <2>2 DEF CachedReply, Reply, AllReplies, AllBodies
  <2>4. found.body \in answers /\ k = <<found.body.name, found.body.qtype>>
    BY <1>1, <2>2 DEF CacheKnows, Hit
  <2>5. SameQuestion(found.body, q)
    <3> HIDE DEF found, q, k
    <3> QED BY <1>4, <2>4 DEF SameQuestion
  <2> HIDE DEF found, q
  <2> QED BY <1>3, <2>3, <2>4, <2>5 DEF Good, CachedReply, Reply
<1> HIDE DEF found, k
<1>9. PICK next \in {toReply, "forward"} :
          /\ pc' = [pc EXCEPT ![h] = next]
          /\ next = "forward" => found = NoPacket
          /\ next = toReply => found # NoPacket
  BY <1>2
<1>10. /\ pc' \in [Handlers -> UdpPlaces \union TcpPlaces]
       /\ \A u \in Datagrams : pc'[u] \in UdpPlaces
       /\ \A c \in Conns : pc'[c] \in TcpPlaces
       /\ pc'[h] = next
  <2>1. \/ h \in Datagrams /\ next \in UdpPlaces
        \/ h \in Conns /\ next \in TcpPlaces
    BY <1>9 DEF UdpPlaces, TcpPlaces
  <2> QED BY <1>1, <1>9, <2>1, PlaceMoves
<1>11. TypesOK'
  <2>1. reply' \in [Handlers -> AllReplies]
    BY <1>1, <1>2, <1>8 DEF TypesOK
  <2>2. tried' \in [Handlers -> 0 .. Upstreams]
    <3>1. tried \in [Handlers -> 0 .. Upstreams] /\ 0 \in 0 .. Upstreams
      BY <1>1, ServiceAssumption DEF TypesOK
    <3>2. tried' = tried \/ tried' = [tried EXCEPT ![h] = 0]
      BY <1>2
    <3> QED BY <3>1, <3>2
  <2> QED BY <1>1, <1>2, <1>10, <2>1, <2>2 DEF TypesOK, peerVars
<1>12. OnlyMoves(h)
  BY <1>1, <1>2 DEF OnlyMoves, WorldGrows, TypesOK, peerVars
<1>13. SentOK(h)'
  BY <1>1, <1>2, <1>12, SentKept DEF OnlyMoves, HandlerOK
<1>14. LengthsOK(h)'
  BY <1>1, <1>2, <1>9, <1>10, ServiceAssumption DEF HandlerOK, LengthsOK, peerVars
<1>15. WorkOK(h)'
  <2>1. query'[h] = q /\ asked'[h] = asked[h] /\ answers' = answers
    BY <1>2
  <2> HIDE DEF q
  <2>2. CASE next = "forward"
    BY <1>3, <1>10, <2>1, <2>2 DEF WorkOK
  <2>3. CASE next = toReply
    <3>1. reply'[h] = CachedReply(found)
      BY <1>1, <1>2, <1>9, <2>3 DEF TypesOK
    <3>2. Kept(h, CachedReply(found), stored')
      BY DEF Kept, CachedReply, Reply
    <3> QED BY <1>3, <1>8, <1>9, <1>10, <2>1, <2>3, <3>1, <3>2 DEF WorkOK
  <2> QED BY <1>9, <2>2, <2>3
<1>16. \A g \in Handlers : HandlerOK(g)'
  BY <1>12, <1>13, <1>14, <1>15, HandlerKept DEF ServiceInv, OnlyMoves, HandlerOK
<1>17. \A n \in forwarded' : Verdict[n] # "Blocked"
  BY <1>2, <1>3 DEF ServiceInv
<1> QED BY <1>6, <1>7, <1>11, <1>16, <1>17 DEF ServiceInv

\* What is stored is an upstream's answer to the question of its key.
LEMMA StoreAnswerInv ==
  ASSUME ServiceInv, NEW h \in Handlers, NEW next,
         \/ h \in Datagrams /\ next = "send"
         \/ h \in Conns /\ next = "read",
         StoreAnswer(h, next)
  PROVE  ServiceInv'
<1> DEFINE q == query[h]
           p == PacketOf(reply[h])
           k == Key(q.name, q.qtype)
<1>1. TypesOK /\ HandlerOK(h) /\ CacheInv /\ CacheKnows
  BY DEF ServiceInv
<1>2. /\ pc[h] = "store" /\ Insert(q.name, q.qtype, p)
      /\ stored' = stored \union {reply[h].body}
      /\ pc' = [pc EXCEPT ![h] = next]
      /\ UNCHANGED <<query, tried, reply, lock, peerVars,
                     asked, sent, answers, forwarded>>
  BY DEF StoreAnswer
<1>3. /\ q \in Queries /\ Lower[q.name] = q.name
      /\ Len(asked[h]) > 0 /\ q = asked[h][Len(asked[h])]
      /\ Verdict[q.name] # "Blocked"
      /\ reply[h].source = "upstream" /\ Parses(reply[h])
      /\ Good(h, reply[h], q, answers)
  BY <1>1, <1>2 DEF HandlerOK, WorkOK, Busy
<1>4. q.name \in Domains /\ q.qtype \in QueryTypes /\ k = <<q.name, q.qtype>>
  BY <1>3 DEF Queries, Key
<1>5. /\ p \in Packets /\ p.body \in answers
      /\ p.body.name = q.name /\ p.body.qtype = q.qtype
  <2>1. /\ p \in Packets /\ reply[h].body \in answers
        /\ \E rc \in UpstreamRcodes : reply[h].body = ResponseTo(q, rc)
    BY <1>3 DEF Good, Parses
  <2> QED BY <2>1 DEF PacketOf, ResponseTo
<1>6. CacheInv'
  BY <1>1, <1>2, <1>4, <1>5, InsertInv
<1>7. \A j \in DOMAIN cache' :
         \/ j = k /\ cache'[j].packet = p
         \/ j \in DOMAIN cache /\ cache'[j] = cache[j]
  <2> DEFINE e == CachedResponse(p)
  <2>1. PutReplace(k, e) \/ PutAdd(k, e) \/ PutEvict(k, e)
    BY <1>2 DEF Insert
  <2>2. e.packet = p
    BY DEF CachedResponse
  <2> HIDE DEF k, e, p
  <2> QED BY <2>1, <2>2 DEF PutReplace, PutAdd, PutEvict
<1> HIDE DEF k, p
<1>8. CacheKnows'
  <2>1. answers' = answers
    BY <1>2
  <2>2. SUFFICES ASSUME NEW j \in DOMAIN cache'
                 PROVE  LET b == cache'[j].packet.body
                        IN  /\ b \in answers /\ j = <<b.name, b.qtype>>
                            /\ Lower[b.name] = b.name /\ Verdict[b.name] # "Blocked"
    BY <2>1 DEF CacheKnows
  <2>3. CASE j = k /\ cache'[j].packet = p
    BY <1>3, <1>4, <1>5, <2>3
  <2>4. CASE j \in DOMAIN cache /\ cache'[j] = cache[j]
    BY <1>1, <2>4 DEF CacheKnows
  <2> QED BY <1>7, <2>3, <2>4
<1>9. /\ pc' \in [Handlers -> UdpPlaces \union TcpPlaces]
      /\ \A u \in Datagrams : pc'[u] \in UdpPlaces
      /\ \A c \in Conns : pc'[c] \in TcpPlaces
      /\ pc'[h] = next
  <2>1. \/ h \in Datagrams /\ next \in UdpPlaces
        \/ h \in Conns /\ next \in TcpPlaces
    BY DEF UdpPlaces, TcpPlaces
  <2> QED BY <1>1, <1>2, <2>1, PlaceMoves
<1>10. TypesOK'
  BY <1>1, <1>2, <1>9 DEF TypesOK, peerVars
<1>11. OnlyMoves(h)
  BY <1>1, <1>2 DEF OnlyMoves, WorldGrows, TypesOK, peerVars
<1>12. SentOK(h)'
  BY <1>1, <1>2, <1>11, SentKept DEF OnlyMoves, HandlerOK
<1>13. LengthsOK(h)'
  BY <1>1, <1>2, <1>9, ServiceAssumption DEF HandlerOK, LengthsOK, peerVars
<1>14. WorkOK(h)'
  BY <1>2, <1>3, <1>9 DEF WorkOK, Kept, Busy
<1>15. \A g \in Handlers : HandlerOK(g)'
  BY <1>11, <1>12, <1>13, <1>14, HandlerKept DEF ServiceInv, OnlyMoves, HandlerOK
<1> QED BY <1>2, <1>6, <1>8, <1>10, <1>15 DEF ServiceInv

-----------------------------------------------------------------------------
(* The invariant                                                           *)

LEMMA UdpStepInv ==
  ASSUME ServiceInv, NEW u \in Datagrams, Udp(u)
  PROVE  ServiceInv'
<1>1. u \in Handlers /\ u \notin Conns /\ TypesOK
  BY ServiceAssumption DEF ServiceInv, Handlers
<1>2. CASE \E later \in Instants : UdpLookUp(u, later)
  <2>1. PICK later \in Instants : UdpLookUp(u, later)
    BY <1>2
  <2> QED BY <1>1, <2>1, LookUpInv DEF UdpLookUp, TypesOK
<1>3. CASE UpstreamFails(u)
  BY <1>1, <1>3, UpstreamFailsInv
<1>4. CASE UdpGivesUp(u) \/ UdpGarbage(u)
  <2>1. /\ pc' = [pc EXCEPT ![u] = "done"]
        /\ UNCHANGED <<cacheVars, query, tried, reply, lock, peerVars, history>>
    BY <1>4 DEF UdpGivesUp, UdpGarbage
  <2>2. "done" \in UdpPlaces /\ "done" \notin Busy \union {"idle"}
    BY DEF UdpPlaces, Busy
  <2> QED BY <1>1, <2>1, <2>2, MovesOn
<1>5. CASE \E p \in Packets : UdpAnswered(u, p)
  BY <1>1, <1>5, UpstreamAnswersInv DEF UdpAnswered
<1>6. CASE UdpStore(u)
  BY <1>1, <1>6, StoreAnswerInv DEF UdpStore
<1>7. CASE UdpSend(u)
  BY <1>7, UdpSendInv
<1>8. CASE \E q \in Asks[u] : UdpReceive(u, q)
  BY <1>1, <1>8, AcceptInv DEF UdpReceive
<1> QED BY <1>2, <1>3, <1>4, <1>5, <1>6, <1>7, <1>8 DEF Udp, UdpStep

LEMMA TcpStepInv ==
  ASSUME ServiceInv, NEW c \in Conns, Tcp(c)
  PROVE  ServiceInv'
<1>1. c \in Handlers /\ TypesOK
  BY DEF ServiceInv, Handlers
<1>2. CASE TcpAccept(c) \/ TlsHandshake(c) \/ TcpEnd(c)
  <2>1. PICK next \in {"handshake", "read", "closed"} :
                /\ pc' = [pc EXCEPT ![c] = next]
                /\ pc[c] \notin {"lookup", "forward", "write"}
                /\ UNCHANGED <<cacheVars, query, tried, reply, lock, peerVars,
                               history>>
    BY <1>2 DEF TcpAccept, TlsHandshake, TcpEnd
  <2>2. next \in TcpPlaces /\ next \notin Busy \union {"idle"}
    BY DEF TcpPlaces, Busy
  <2> QED BY <1>1, <2>1, <2>2, MovesOn
<1>3. CASE \E q \in Asks[c] : TcpRead(c, q)
  BY <1>1, <1>3, AcceptInv DEF TcpRead
<1>4. CASE \E later \in Instants : TcpLookUp(c, later)
  <2>1. PICK later \in Instants : TcpLookUp(c, later)
    BY <1>4
  <2>2. LookUp(c, later, "write") /\ lock' \in Conns \union {Nobody}
    BY <1>1, <2>1 DEF TcpLookUp, TypesOK
  <2> QED BY <1>1, <2>2, LookUpInv
<1>5. CASE UpstreamFails(c)
  BY <1>1, <1>5, UpstreamFailsInv
<1>6. CASE TcpGivesUp(c)
  BY <1>6, TcpGivesUpInv
<1>7. CASE \E p \in Packets : TcpAnswered(c, p)
  BY <1>1, <1>7, UpstreamAnswersInv DEF TcpAnswered
<1>8. CASE TcpWrite(c)
  BY <1>8, TcpWriteInv
<1>9. CASE TcpWriteFails(c)
  BY <1>9, TcpWriteFailsInv
<1>10. CASE TcpStore(c)
  BY <1>1, <1>10, StoreAnswerInv DEF TcpStore
<1> QED BY <1>2, <1>3, <1>4, <1>5, <1>6, <1>7, <1>8, <1>9, <1>10
        DEF Tcp, TcpStep

\* A step in which nothing happens.
LEMMA IdleInv ==
  ASSUME ServiceInv, UNCHANGED vars
  PROVE  ServiceInv'
<1>1. UNCHANGED <<cacheVars, taskVars, lock, peerVars, history>>
  BY DEF vars
<1>2. CacheInv' /\ UNCHANGED cache
  BY <1>1, CacheStepInv DEF ServiceInv, cacheVars
<1>3. WorldGrows
  BY <1>1 DEF WorldGrows, history
<1>4. CacheKnows'
  BY <1>2, <1>3, CacheKnowsKept DEF ServiceInv
<1>5. TypesOK'
  BY <1>1 DEF ServiceInv, TypesOK, taskVars, peerVars, history
<1>6. ASSUME NEW g \in Handlers PROVE HandlerOK(g)'
  BY <1>1, <1>3, HandlerKept DEF ServiceInv, taskVars, peerVars, history
<1> QED BY <1>1, <1>2, <1>4, <1>5, <1>6 DEF ServiceInv, history

LEMMA ServiceStepInv ==
  ASSUME ServiceInv, [Next]_vars
  PROVE  ServiceInv'
<1>1. CASE \E u \in Datagrams : Udp(u)
  BY <1>1, UdpStepInv
<1>2. CASE \E c \in Conns : Tcp(c)
  BY <1>2, TcpStepInv
<1>3. CASE \E c \in Conns : Peer(c)
  BY <1>3, PeerInv
<1>4. CASE Clock
  BY <1>4, ClockInv
<1>5. CASE UNCHANGED vars \/ Finished
  BY <1>5, IdleInv DEF Finished
<1> QED BY <1>1, <1>2, <1>3, <1>4, <1>5 DEF Next

LEMMA ServiceInvHolds == Spec => []ServiceInv
<1>1. ServiceInv /\ [Next]_vars => ServiceInv'
  BY ServiceStepInv
<1> QED BY <1>1, ServiceInit, PTL DEF Spec

-----------------------------------------------------------------------------
(* The theorems                                                            *)

\* Every handler is where its program may be and works on a query of its own.
THEOREM ServiceTypesCorrect == Spec => []ServiceTypeOK
<1>1. ServiceInv => ServiceTypeOK
  BY CacheInvImplies
     DEF ServiceInv, TypesOK, ServiceTypeOK, UdpPlaces, TcpPlaces
<1> QED BY <1>1, ServiceInvHolds, PTL

\* However the handlers interleave, a blocked name stays inside the server: no
\* upstream hears it, the cache holds nothing about it, and all it ever gets
\* is the blocked reply.
THEOREM BlockedNamesStayLocal == Spec => []BlockedStaysLocal
<1>1. ASSUME ServiceInv PROVE BlockedStaysLocal
  <2>1. ASSUME NEW k \in DOMAIN cache PROVE Verdict[k[1]] # "Blocked"
    <3> DEFINE b == cache[k].packet.body
    <3>1. k = <<b.name, b.qtype>> /\ Verdict[b.name] # "Blocked"
      BY <1>1 DEF ServiceInv, CacheKnows
    <3> HIDE DEF b
    <3> QED BY <3>1
  <2>2. ASSUME NEW h \in Handlers, NEW i \in DOMAIN sent[h]
        PROVE  sent[h][i].source = "blocked" <=> Verdict[asked[h][i].name] = "Blocked"
    <3>1. Good(h, sent[h][i], asked[h][i], answers)
      BY <1>1 DEF ServiceInv, HandlerOK, SentOK
    <3> QED BY <3>1 DEF Good
  <2> QED BY <1>1, <2>1, <2>2 DEF ServiceInv, BlockedStaysLocal
<1> QED BY <1>1, ServiceInvHolds, PTL

\* Racing handlers fill the cache for each other, and what they leave under a
\* key is always an upstream's answer to that key's question.
THEOREM CacheAnswersItsKeys == Spec => []CacheAnswersItsKey
<1>1. ASSUME ServiceInv, NEW k \in DOMAIN cache
      PROVE  /\ cache[k].packet.body \in answers
             /\ k = Key(cache[k].packet.body.name, cache[k].packet.body.qtype)
  BY <1>1 DEF ServiceInv, CacheKnows, Key
<1>2. ServiceInv => CacheAnswersItsKey
  BY <1>1 DEF CacheAnswersItsKey
<1> QED BY <1>2, ServiceInvHolds, PTL

\* On every connection, and for every datagram, replies line up with the
\* questions asked.
THEOREM RepliesLineUp == Spec => []RepliesMatchQuestions
<1>1. ASSUME ServiceInv PROVE RepliesMatchQuestions
  <2>1. SUFFICES ASSUME NEW h \in Handlers, h \notin broken
                 PROVE  /\ Len(sent[h]) \in {Len(asked[h]), Len(asked[h]) - 1}
                        /\ pc[h] \in {"read", "store"} /\ h \in Conns =>
                              Len(sent[h]) = Len(asked[h])
                        /\ \A i \in DOMAIN sent[h] :
                              Parses(sent[h][i]) =>
                                 SameQuestion(sent[h][i].body, asked[h][i])
    BY DEF RepliesMatchQuestions
  <2>2. LengthsOK(h) /\ SentOK(h)
    BY <1>1 DEF ServiceInv, HandlerOK
  <2>3. Len(sent[h]) \in Nat /\ Len(asked[h]) \in Nat
    BY <1>1 DEF ServiceInv, TypesOK
  <2>4. h \in Datagrams \/ h \in Conns
    BY DEF Handlers
  <2>5. Len(sent[h]) \in {Len(asked[h]), Len(asked[h]) - 1}
    BY <2>1, <2>2, <2>3, <2>4 DEF LengthsOK
  <2>6. ASSUME NEW i \in DOMAIN sent[h], Parses(sent[h][i])
        PROVE  SameQuestion(sent[h][i].body, asked[h][i])
    BY <2>2, <2>6, GoodAnswers DEF SentOK
  <2> QED BY <2>1, <2>2, <2>5, <2>6 DEF LengthsOK
<1> QED BY <1>1, ServiceInvHolds, PTL

\* A UDP client never gets an upstream's answer that was not cached first.
THEOREM UdpStoresFirst == Spec => []UdpAnswersAreStored
<1>1. ASSUME ServiceInv, NEW u \in Datagrams, NEW i \in DOMAIN sent[u],
             sent[u][i].source = "upstream", Parses(sent[u][i])
      PROVE  sent[u][i].body \in stored
  BY <1>1 DEF ServiceInv, HandlerOK, SentOK, Kept, Handlers
<1>2. ServiceInv => UdpAnswersAreStored
  BY <1>1 DEF UdpAnswersAreStored
<1> QED BY <1>2, ServiceInvHolds, PTL

-----------------------------------------------------------------------------
(* The handlers implement QuerySpec: what each state and each step looks   *)
(* like to the clients                                                     *)

Ended == {"done", "closed"}

Over == broken \union {h \in Handlers : pc[h] \in Ended}

\* What a client sees of a reply, and of all of them.
SeenReply(r) == [source |-> r.source, body |-> r.body]
SeenBy(s) == [i \in DOMAIN s |-> SeenReply(s[i])]
Seen == [h \in Handlers |-> SeenBy(sent[h])]

\* One reply more is seen as one reply more.
LEMMA SeenMore ==
  ASSUME NEW s \in Seq(AllReplies), NEW r \in AllReplies
  PROVE  SeenBy(Append(s, r)) = Append(SeenBy(s), SeenReply(r))
<1> DEFINE t == Append(s, r)
           w == SeenBy(s)
<1>1. /\ Len(s) \in Nat /\ DOMAIN s = 1 .. Len(s)
      /\ DOMAIN t = 1 .. (Len(s) + 1)
      /\ t[Len(s) + 1] = r
      /\ \A i \in 1 .. Len(s) : t[i] = s[i]
  OBVIOUS
<1>2. w = [i \in 1 .. Len(s) |-> SeenReply(s[i])]
  BY <1>1 DEF SeenBy
<1>3. w \in Seq({SeenReply(x) : x \in AllReplies}) /\ Len(w) = Len(s)
  <2>1. \A i \in 1 .. Len(s) : SeenReply(s[i]) \in {SeenReply(x) : x \in AllReplies}
    BY <1>1
  <2> QED BY <1>1, <1>2, <2>1
<1> HIDE DEF t, w
<1>4. Append(w, SeenReply(r)) = [i \in 1 .. (Len(s) + 1) |-> SeenReply(t[i])]
  BY <1>1, <1>2, <1>3
<1> QED BY <1>1, <1>4 DEF SeenBy, t, w

\* A question is outstanding for whoever is at work for a client that is not
\* over, and it is the query at work.
LEMMA QuestionOutstanding ==
  ASSUME ServiceInv, NEW h \in Handlers,
         pc[h] \in {"lookup", "forward", "send", "write"}
  PROVE  /\ Len(SeenBy(sent[h])) < Len(asked[h])
         /\ Last(asked[h]) = query[h]
<1>1. TypesOK /\ LengthsOK(h) /\ WorkOK(h)
  BY DEF ServiceInv, HandlerOK
<1>2. /\ asked[h] \in Seq(Queries) /\ sent[h] \in Seq(AllReplies)
      /\ Len(asked[h]) \in Nat /\ Len(sent[h]) \in Nat
  BY <1>1 DEF TypesOK
<1>3. Len(SeenBy(sent[h])) = Len(sent[h])
  BY <1>2 DEF SeenBy
<1>4. Len(sent[h]) < Len(asked[h])
  BY <1>1, <1>2 DEF LengthsOK
<1> QED BY <1>1, <1>3, <1>4 DEF WorkOK, Busy, Last

\* Where a handler goes decides whether its client is done with.
LEMMA OverMoves ==
  ASSUME TypesOK, NEW h \in Handlers, NEW next, pc[h] \notin Ended,
         pc' = [pc EXCEPT ![h] = next], broken' = broken
  PROVE  Over' = IF next \in Ended THEN Over \union {h} ELSE Over
<1>1. \A g \in Handlers : pc'[g] = IF g = h THEN next ELSE pc[g]
  BY DEF TypesOK
<1> QED BY <1>1 DEF Over

\* Nothing that a client could see.
LEMMA Unseen ==
  ASSUME Over' = Over, UNCHANGED <<asked, sent, answers>>
  PROVE  UNCHANGED Clients!vars
BY DEF Clients!vars, Over, Ended

\* A handler stops, or goes on for a client that is over anyway.
LEMMA Stops ==
  ASSUME ServiceInv, NEW h \in Handlers, Over' = Over \union {h},
         UNCHANGED <<asked, sent, answers>>
  PROVE  [Clients!Next]_(Clients!vars)
<1>1. CASE h \in Over
  <2>1. Over' = Over
    BY <1>1
  <2> QED BY <2>1, Unseen
<1>2. CASE h \notin Over
  <2>1. Clients!Stop(h)
    BY <1>2 DEF Clients!Stop, Over, Ended
  <2> QED BY <2>1 DEF Clients!Next, Clients!Clients, Handlers
<1> QED BY <1>1, <1>2

\* Taking up a query is asking it.
LEMMA AcceptAsks ==
  ASSUME ServiceInv, NEW h \in Handlers, NEW q \in Asks[h], NEW toReply,
         \/ h \in Datagrams /\ pc[h] = "idle" /\ toReply = "send"
         \/ h \in Conns /\ pc[h] = "read" /\ toReply = "write",
         Accept(h, q, toReply)
  PROVE  Clients!Ask(h, q)
<1>1. TypesOK /\ LengthsOK(h)
  BY DEF ServiceInv, HandlerOK
<1>2. /\ asked' = [asked EXCEPT ![h] = Append(asked[h], q)]
      /\ \E next \in {toReply, "lookup"} : pc' = [pc EXCEPT ![h] = next]
      /\ UNCHANGED <<sent, answers, broken>>
  BY DEF Accept, peerVars
<1>3. Over' = Over
  <2>1. pc[h] \notin Ended /\ {toReply, "lookup"} \intersect Ended = {}
    BY DEF Ended
  <2> QED BY <1>1, <1>2, <2>1, OverMoves
<1>4. /\ asked[h] \in Seq(Queries) /\ Len(SeenBy(sent[h])) = Len(sent[h])
      /\ Len(asked[h]) \in Nat /\ Len(sent[h]) \in Nat
  BY <1>1 DEF TypesOK, SeenBy
<1>5. h \in Datagrams => asked[h] = <<>>
  BY <1>1, <1>4, ServiceAssumption DEF LengthsOK
<1>6. h \in Over \/ ~(Len(SeenBy(sent[h])) < Len(asked[h]))
  <2>1. CASE h \in Conns
    BY <1>1, <1>4, <2>1, ServiceAssumption DEF LengthsOK, Over
  <2>2. CASE h \in Datagrams
    BY <1>1, <1>4, <2>2, ServiceAssumption DEF LengthsOK
  <2> QED BY <2>1, <2>2
<1>7. Seen' = Seen /\ Seen[h] = SeenBy(sent[h])
  BY <1>2 DEF Seen
<1> HIDE DEF Seen, Over
<1> QED BY <1>2, <1>3, <1>5, <1>6, <1>7
        DEF Clients!Ask, Clients!Outstanding, Seen, SeenBy, SeenReply, Over, Ended

\* An upstream that answers hears an outstanding question, of a name that is
\* not blocked.
LEMMA AnswerLearns ==
  ASSUME ServiceInv, NEW h \in Handlers, NEW p \in Packets,
         NEW onParsed \in {"store", "write"}, NEW onGarbled \in {"send", "write"},
         UpstreamAnswers(h, p, onParsed, onGarbled)
  PROVE  Clients!Learn(h, p.body)
<1>1. TypesOK /\ WorkOK(h)
  BY DEF ServiceInv, HandlerOK
<1>2. /\ pc[h] = "forward" /\ AnswersQuery(h, p)
      /\ \E next \in {onGarbled, onParsed} : pc' = [pc EXCEPT ![h] = next]
      /\ answers' = answers \union {p.body}
      /\ UNCHANGED <<asked, sent, broken>>
  BY DEF UpstreamAnswers, peerVars
<1>3. Over' = Over
  <2>1. pc[h] \notin Ended /\ {onGarbled, onParsed} \intersect Ended = {}
    BY <1>2 DEF Ended
  <2> QED BY <1>1, <1>2, <2>1, OverMoves
<1>4. /\ Len(SeenBy(sent[h])) < Len(asked[h]) /\ Last(asked[h]) = query[h]
      /\ Verdict[query[h].name] # "Blocked"
  BY <1>1, <1>2, QuestionOutstanding DEF WorkOK, Busy
<1>5. \/ p.body = Garbled
      \/ /\ p.body.name = query[h].name /\ p.body.qtype = query[h].qtype
         /\ p.body.id = query[h].id
  <2>1. \A rc : LET r == ResponseTo(query[h], rc)
               IN  r.name = query[h].name /\ r.qtype = query[h].qtype /\ r.id = query[h].id
    BY DEF ResponseTo
  <2> QED BY <1>2, <2>1 DEF AnswersQuery
<1>6. Seen' = Seen /\ Seen[h] = SeenBy(sent[h])
  BY <1>2 DEF Seen
<1>7. Clients!Outstanding(h)
  BY <1>4, <1>6 DEF Clients!Outstanding, Seen, SeenBy, SeenReply
<1>8. Clients!Question(h) = query[h]
  BY <1>4 DEF Clients!Question, Clients!Last, Last
<1>9. ~Clients!Blocked(query[h].name)
  BY <1>4 DEF Clients!Blocked
<1>10. \/ p.body = Garbled
       \/ Clients!Answers(p.body, query[h]) /\ p.body.id = query[h].id
  BY <1>5 DEF Clients!Answers
<1> HIDE DEF Seen, Over
<1> QED BY <1>2, <1>3, <1>6, <1>7, <1>8, <1>9, <1>10
        DEF Clients!Learn, Seen, SeenBy, SeenReply, Over, Ended

\* A good reply is one that a client may be given.
LEMMA GoodPermitted ==
  ASSUME ServiceInv, NEW h \in Handlers, pc[h] \in {"send", "write"}
  PROVE  /\ Clients!Permitted(h, SeenReply(reply[h]))
         /\ SeenReply(reply[h]) \in Clients!Replies
<1> DEFINE q == query[h]
           r == reply[h]
<1>1. TypesOK /\ WorkOK(h)
  BY DEF ServiceInv, HandlerOK
<1>2. /\ q \in Queries /\ Good(h, r, q, answers) /\ r \in AllReplies
      /\ answers \subseteq Bodies
  BY <1>1 DEF WorkOK, Busy, TypesOK
<1>3. Clients!Question(h) = q
  BY QuestionOutstanding DEF Clients!Question, Clients!Last, Last
<1>4. Clients!Blocked(q.name) <=> Verdict[q.name] = "Blocked"
  BY <1>2 DEF Clients!Blocked, Queries
<1> HIDE DEF q, r
<1>5. \A rc : /\ Clients!Answers(ResponseTo(q, rc), q)
              /\ ResponseTo(q, rc).id = q.id
              /\ ResponseTo(q, rc).rcode = rc
  BY DEF Clients!Answers, ResponseTo
<1>6. CASE r.source = "blocked" /\ Verdict[q.name] = "Blocked"
  <2>1. r.body = ResponseTo(q, BlockedRcode)
    BY <1>2, <1>6 DEF Good
  <2>2. SeenReply(r) \in Clients!Replies
    BY <1>2, <1>6, <2>1 DEF SeenReply, Clients!Replies
  <2>3. Clients!Permitted(h, SeenReply(r))
    BY <1>3, <1>4, <1>5, <1>6, <2>1 DEF Clients!Permitted, SeenReply
  <2> QED BY <2>2, <2>3 DEF r
<1>7. CASE Verdict[q.name] # "Blocked" /\ r.source = "cache"
  <2>1. r.body \in answers /\ SameQuestion(r.body, q)
    BY <1>2, <1>7 DEF Good
  <2>2. SeenReply(r) \in Clients!Replies
    BY <1>2, <1>7, <2>1 DEF SeenReply, Clients!Replies
  <2>3. Clients!Permitted(h, SeenReply(r))
    BY <1>3, <1>4, <1>7, <2>1
       DEF Clients!Permitted, Clients!Answers, SeenReply, SameQuestion
  <2> QED BY <2>2, <2>3 DEF r
<1>8. CASE Verdict[q.name] # "Blocked" /\ r.source = "upstream"
  <2>1. /\ r.body \in answers
        /\ r.body = Garbled \/ \E rc \in UpstreamRcodes : r.body = ResponseTo(q, rc)
    BY <1>2, <1>8 DEF Good
  <2>2. SeenReply(r) \in Clients!Replies
    BY <1>2, <1>8, <2>1 DEF SeenReply, Clients!Replies
  <2>3. Clients!Permitted(h, SeenReply(r))
    BY <1>3, <1>4, <1>5, <1>8, <2>1 DEF Clients!Permitted, SeenReply
  <2> QED BY <2>2, <2>3 DEF r
<1>9. CASE Verdict[q.name] # "Blocked" /\ r.source = "servfail"
  <2>1. r.body = ResponseTo(q, "ServFail") /\ h \in Conns
    BY <1>2, <1>9 DEF Good
  <2>2. SeenReply(r) \in Clients!Replies
    BY <1>2, <1>9, <2>1 DEF SeenReply, Clients!Replies
  <2>3. Clients!Permitted(h, SeenReply(r))
    BY <1>3, <1>4, <1>5, <1>9, <2>1 DEF Clients!Permitted, SeenReply
  <2> QED BY <2>2, <2>3 DEF r
<1> QED BY <1>2, <1>6, <1>7, <1>8, <1>9 DEF Good

\* A reply that goes out is given.
LEMMA SendGives ==
  ASSUME ServiceInv, NEW h \in Handlers, h \notin broken,
         pc[h] \in {"send", "write"},
         sent' = [sent EXCEPT ![h] = Append(sent[h], reply[h])],
         UNCHANGED <<asked, answers>>,
         Over' = IF h \in Datagrams THEN Over \union {h} ELSE Over
  PROVE  \E r \in Clients!Replies : Clients!Give(h, r)
<1> PICK r \in Clients!Replies : r = SeenReply(reply[h])
  BY GoodPermitted
<1>1. sent \in [Handlers -> Seq(AllReplies)] /\ reply[h] \in AllReplies
  BY DEF ServiceInv, TypesOK
<1>2. Seen' = [Seen EXCEPT ![h] = Append(Seen[h], r)]
  <2>1. SeenBy(sent'[h]) = Append(SeenBy(sent[h]), SeenReply(reply[h]))
    BY <1>1, SeenMore
  <2> QED BY <1>1, <2>1 DEF Seen
<1>3. h \notin Over
  BY DEF Over, Ended
<1>4. Clients!Outstanding(h)
  BY QuestionOutstanding DEF Clients!Outstanding, Seen, SeenBy, SeenReply
<1>5. Clients!Permitted(h, r)
  BY GoodPermitted
<1>6. Clients!Give(h, r)
  BY <1>2, <1>3, <1>4, <1>5
     DEF Clients!Give, Seen, SeenBy, SeenReply, Over, Ended
<1> QED BY <1>6

\* What a UDP task does is a step for its client, or nothing it sees.
LEMMA UdpImplements ==
  ASSUME ServiceInv, NEW u \in Datagrams, Udp(u)
  PROVE  [Clients!Next]_(Clients!vars)
<1>1. TypesOK /\ u \in Handlers /\ u \notin Conns /\ u \notin broken
  BY ServiceAssumption DEF ServiceInv, Handlers, TypesOK
<1>2. CASE \E later \in Instants : UdpLookUp(u, later)
  <2>1. PICK next \in {"send", "forward"} : pc' = [pc EXCEPT ![u] = next]
    BY <1>2 DEF UdpLookUp, LookUp
  <2>2. UNCHANGED <<asked, sent, answers, broken>> /\ pc[u] = "lookup"
    BY <1>2 DEF UdpLookUp, LookUp, peerVars
  <2>3. Over' = Over
    <3>1. pc[u] \notin Ended /\ next \notin Ended
      BY <2>1, <2>2 DEF Ended
    <3> QED BY <1>1, <2>1, <2>2, <3>1, OverMoves
  <2> QED BY <2>2, <2>3, Unseen
<1>3. CASE UpstreamFails(u)
  <2>1. UNCHANGED <<pc, asked, sent, answers, broken>>
    BY <1>3 DEF UpstreamFails, history, peerVars
  <2> QED BY <2>1, Unseen DEF Over
<1>4. CASE UdpGivesUp(u) \/ UdpGarbage(u)
  <2>1. /\ pc' = [pc EXCEPT ![u] = "done"] /\ pc[u] \in {"forward", "idle"}
        /\ UNCHANGED <<asked, sent, answers, broken>>
    BY <1>4 DEF UdpGivesUp, UdpGarbage, history, peerVars
  <2>2. Over' = Over \union {u}
    BY <1>1, <2>1, OverMoves DEF Ended
  <2> QED BY <1>1, <2>1, <2>2, Stops
<1>5. CASE \E p \in Packets : UdpAnswered(u, p)
  <2>1. PICK p \in Packets : UdpAnswered(u, p)
    BY <1>5
  <2>2. Clients!Learn(u, p.body) /\ p.body \in Bodies
    BY <1>1, <2>1, AnswerLearns DEF UdpAnswered, Packets
  <2> QED BY <1>1, <2>2 DEF Clients!Next, Clients!Clients, Handlers
<1>6. CASE UdpStore(u)
  <2>1. /\ pc' = [pc EXCEPT ![u] = "send"] /\ pc[u] = "store"
        /\ UNCHANGED <<asked, sent, answers, broken>>
    BY <1>6 DEF UdpStore, StoreAnswer, peerVars
  <2>2. "send" \notin Ended /\ pc[u] \notin Ended
    BY <2>1 DEF Ended
  <2>3. Over' = Over
    BY <1>1, <2>1, <2>2, OverMoves
  <2> QED BY <2>1, <2>3, Unseen
<1>7. CASE UdpSend(u)
  <2>1. /\ pc' = [pc EXCEPT ![u] = "done"] /\ pc[u] = "send"
        /\ sent' = [sent EXCEPT ![u] = Append(sent[u], reply[u])]
        /\ UNCHANGED <<asked, answers, broken>>
    BY <1>7 DEF UdpSend, peerVars
  <2>2. Over' = Over \union {u}
    BY <1>1, <2>1, OverMoves DEF Ended
  <2>3. \E r \in Clients!Replies : Clients!Give(u, r)
    BY <1>1, <2>1, <2>2, SendGives
  <2> QED BY <1>1, <2>3 DEF Clients!Next, Clients!Clients, Handlers
<1>8. CASE \E q \in Asks[u] : UdpReceive(u, q)
  <2>1. PICK q \in Asks[u] : UdpReceive(u, q)
    BY <1>8
  <2>2. Clients!Ask(u, q) /\ q \in Queries
    BY <1>1, <2>1, AcceptAsks, ServiceAssumption DEF UdpReceive, Queries
  <2> QED BY <1>1, <2>2 DEF Clients!Next, Clients!Clients, Handlers
<1> QED BY <1>2, <1>3, <1>4, <1>5, <1>6, <1>7, <1>8 DEF Udp, UdpStep

\* What the task of a connection does is a step for its client, or nothing it
\* sees.
LEMMA TcpImplements ==
  ASSUME ServiceInv, NEW c \in Conns, Tcp(c)
  PROVE  [Clients!Next]_(Clients!vars)
<1>1. TypesOK /\ c \in Handlers /\ c \notin Datagrams
  BY ServiceAssumption DEF ServiceInv, Handlers
<1>2. CASE TcpAccept(c) \/ TlsHandshake(c) \/ TcpEnd(c)
  <2>1. PICK next \in {"handshake", "read", "closed"} :
                /\ pc' = [pc EXCEPT ![c] = next]
                /\ pc[c] \in {"new", "handshake", "read"}
                /\ UNCHANGED <<asked, sent, answers, broken>>
    BY <1>2 DEF TcpAccept, TlsHandshake, TcpEnd, history, peerVars
  <2>2. Over' = Over \/ Over' = Over \union {c}
    BY <1>1, <2>1, OverMoves DEF Ended
  <2> QED BY <1>1, <2>1, <2>2, Unseen, Stops
<1>3. CASE \E q \in Asks[c] : TcpRead(c, q)
  <2>1. PICK q \in Asks[c] : TcpRead(c, q)
    BY <1>3
  <2>2. Clients!Ask(c, q) /\ q \in Queries
    BY <1>1, <2>1, AcceptAsks, ServiceAssumption DEF TcpRead, Queries
  <2> QED BY <1>1, <2>2 DEF Clients!Next, Clients!Clients, Handlers
<1>4. CASE \E later \in Instants : TcpLookUp(c, later)
  <2>1. PICK next \in {"write", "forward"} : pc' = [pc EXCEPT ![c] = next]
    BY <1>4 DEF TcpLookUp, LookUp
  <2>2. UNCHANGED <<asked, sent, answers, broken>> /\ pc[c] = "lookup"
    BY <1>4 DEF TcpLookUp, LookUp, peerVars
  <2>3. Over' = Over
    <3>1. pc[c] \notin Ended /\ next \notin Ended
      BY <2>1, <2>2 DEF Ended
    <3> QED BY <1>1, <2>1, <2>2, <3>1, OverMoves
  <2> QED BY <2>2, <2>3, Unseen
<1>5. CASE UpstreamFails(c)
  <2>1. UNCHANGED <<pc, asked, sent, answers, broken>>
    BY <1>5 DEF UpstreamFails, history, peerVars
  <2> QED BY <2>1, Unseen DEF Over
<1>6. CASE TcpGivesUp(c)
  <2>1. /\ pc' = [pc EXCEPT ![c] = "write"] /\ pc[c] = "forward"
        /\ UNCHANGED <<asked, sent, answers, broken>>
    BY <1>6 DEF TcpGivesUp, history, peerVars
  <2>2. Over' = Over
    <3>1. pc[c] \notin Ended /\ "write" \notin Ended
      BY <2>1 DEF Ended
    <3> QED BY <1>1, <2>1, <3>1, OverMoves
  <2> QED BY <2>1, <2>2, Unseen
<1>7. CASE \E p \in Packets : TcpAnswered(c, p)
  <2>1. PICK p \in Packets : TcpAnswered(c, p)
    BY <1>7
  <2>2. Clients!Learn(c, p.body) /\ p.body \in Bodies
    BY <1>1, <2>1, AnswerLearns DEF TcpAnswered, Packets
  <2> QED BY <1>1, <2>2 DEF Clients!Next, Clients!Clients, Handlers
<1>8. CASE TcpWrite(c)
  <2>1. PICK next \in {"store", "read"} :
                /\ pc' = [pc EXCEPT ![c] = next] /\ pc[c] = "write"
                /\ sent' = [sent EXCEPT ![c] = Append(sent[c], reply[c])]
                /\ c \notin broken
                /\ UNCHANGED <<asked, answers, broken>>
    BY <1>8 DEF TcpWrite
  <2>2. Over' = Over
    BY <1>1, <2>1, OverMoves DEF Ended
  <2>3. \E r \in Clients!Replies : Clients!Give(c, r)
    BY <1>1, <2>1, <2>2, SendGives
  <2> QED BY <1>1, <2>3 DEF Clients!Next, Clients!Clients, Handlers
<1>9. CASE TcpWriteFails(c)
  <2>1. PICK next \in {"read", "closed"} :
                /\ pc' = [pc EXCEPT ![c] = next] /\ pc[c] = "write"
                /\ broken' = broken \union {c}
                /\ UNCHANGED <<asked, sent, answers>>
    BY <1>9 DEF TcpWriteFails, history
  <2>2. Over' = Over \union {c}
    <3>1. \A g \in Handlers : pc'[g] = IF g = c THEN next ELSE pc[g]
      BY <1>1, <2>1 DEF TypesOK
    <3> QED BY <1>1, <2>1, <3>1 DEF Over, Ended
  <2> QED BY <1>1, <2>1, <2>2, Stops
<1>10. CASE TcpStore(c)
  <2>1. /\ pc' = [pc EXCEPT ![c] = "read"] /\ pc[c] = "store"
        /\ UNCHANGED <<asked, sent, answers, broken>>
    BY <1>10 DEF TcpStore, StoreAnswer, peerVars
  <2>2. Over' = Over
    <3>1. pc[c] \notin Ended /\ "read" \notin Ended
      BY <2>1 DEF Ended
    <3> QED BY <1>1, <2>1, <3>1, OverMoves
  <2> QED BY <2>1, <2>2, Unseen
<1> QED BY <1>2, <1>3, <1>4, <1>5, <1>6, <1>7, <1>8, <1>9, <1>10
        DEF Tcp, TcpStep

LEMMA StepImplements ==
  ASSUME ServiceInv, [Next]_vars
  PROVE  [Clients!Next]_(Clients!vars)
<1>1. CASE \E u \in Datagrams : Udp(u)
  BY <1>1, UdpImplements
<1>2. CASE \E c \in Conns : Tcp(c)
  BY <1>2, TcpImplements
<1>3. CASE (\E c \in Conns : Peer(c)) \/ Clock \/ Finished \/ UNCHANGED vars
  <2>1. UNCHANGED <<pc, asked, sent, answers, broken>>
    BY <1>3 DEF Peer, PeerReads, PeerHangsUp, Clock, Finished, vars, taskVars,
                peerVars, history
  <2> QED BY <2>1, Unseen DEF Over
<1> QED BY <1>1, <1>2, <1>3 DEF Next

\* However the tasks interleave over the cache, the mutex and the upstreams,
\* clients see no more than QuerySpec allows: one reply per question, in order,
\* to the question asked, blocked or from an upstream, or none.
THEOREM ClientsSeeQuerySpec == Spec => ImplementsQuerySpec
<1>1. Init => Clients!Init
  <2>1. SUFFICES ASSUME Init PROVE Clients!Init
    OBVIOUS
  <2>2. Over = {}
    BY <2>1 DEF Init, Over, Ended
  <2>3. Seen = [h \in Handlers |-> <<>>]
    BY <2>1 DEF Init, Seen, SeenBy
  <2> QED BY <2>1, <2>2, <2>3
          DEF Init, Clients!Init, Clients!Clients, Handlers, Over, Ended,
              Seen, SeenBy, SeenReply
<1>2. ServiceInv /\ [Next]_vars => [Clients!Next]_(Clients!vars)
  BY StepImplements
<1> QED BY <1>1, <1>2, ServiceInvHolds, PTL
        DEF Spec, ImplementsQuerySpec, Clients!Spec

=============================================================================
