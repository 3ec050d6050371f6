----------------------------- MODULE QuerySpec ------------------------------
(***************************************************************************)
(* What the clients of dns-core may observe, whatever the handlers, the    *)
(* cache and the upstreams do behind the socket: queries go in, and each   *)
(* gets at most one reply, in the order asked, that answers the question   *)
(* asked.  A blocked name gets the blocked reply and nothing else; any     *)
(* other name gets something an upstream has said of that very question,   *)
(* now or before, or over a connection an admission of failure, or no      *)
(* reply at all.                                                           *)
(***************************************************************************)
EXTENDS Naturals, Sequences, SequencesExt

CONSTANTS
    Datagrams, Conns,
    Queries, Bodies,
    Garbled,               \* bytes of an upstream that do not parse
    BlockedNames,          \* the names the filter blocks
    BlockedRcode

VARIABLES
    asked, sent,  \* what each client asked, what it was sent
    answers,      \* all that the upstreams have answered
    over          \* clients that will get no more replies

vars == <<asked, sent, answers, over>>

Clients == Datagrams \union Conns

\* A reply, the TTLs of its answers apart.
Replies == [source : {"blocked", "cache", "upstream", "servfail"}, body : Bodies]

\* One question at a time: the last one asked is the one to be answered.
Outstanding(c) == Len(sent[c]) < Len(asked[c])
Question(c) == Last(asked[c])
Blocked(n) == n \in BlockedNames
Answers(body, q) == body.name = q.name /\ body.qtype = q.qtype

Init ==
    /\ asked = [c \in Clients |-> <<>>]
    /\ sent = [c \in Clients |-> <<>>]
    /\ answers = {}
    /\ over = {}

\* A datagram is one query; a connection asks again when it has its reply, or
\* in vain when it will get none.
Ask(c, q) ==
    /\ c \in over \/ ~Outstanding(c)
    /\ c \in Datagrams => asked[c] = <<>>
    /\ asked' = [asked EXCEPT ![c] = Append(@, q)]
    /\ UNCHANGED <<sent, answers, over>>

\* An upstream only ever hears outstanding questions about names that are not
\* blocked.
Learn(c, body) ==
    /\ Outstanding(c) /\ ~Blocked(Question(c).name)
    /\ body = Garbled \/ (Answers(body, Question(c)) /\ body.id = Question(c).id)
    /\ answers' = answers \union {body}
    /\ UNCHANGED <<asked, sent, over>>

Permitted(c, r) ==
    LET q == Question(c)
    IN  \/ /\ Blocked(q.name) /\ r.source = "blocked"
           /\ Answers(r.body, q) /\ r.body.id = q.id
           /\ r.body.rcode = BlockedRcode
        \/ /\ ~Blocked(q.name) /\ r.source = "cache"
           /\ r.body \in answers /\ Answers(r.body, q)
        \/ /\ ~Blocked(q.name) /\ r.source = "upstream"
           /\ r.body \in answers
           /\ r.body = Garbled \/ (Answers(r.body, q) /\ r.body.id = q.id)
        \/ /\ ~Blocked(q.name) /\ r.source = "servfail" /\ c \in Conns
           /\ Answers(r.body, q) /\ r.body.id = q.id
           /\ r.body.rcode = "ServFail"

Give(c, r) ==
    /\ c \notin over /\ Outstanding(c) /\ Permitted(c, r)
    /\ sent' = [sent EXCEPT ![c] = Append(@, r)]
    /\ over' = IF c \in Datagrams THEN over \union {c} ELSE over
    /\ UNCHANGED <<asked, answers>>

\* No reply: the datagram is dropped, the connection ends.
Stop(c) ==
    /\ c \notin over
    /\ over' = over \union {c}
    /\ UNCHANGED <<asked, sent, answers>>

Next ==
    \E c \in Clients :
        \/ \E q \in Queries : Ask(c, q)
        \/ \E body \in Bodies : Learn(c, body)
        \/ \E r \in Replies : Give(c, r)
        \/ Stop(c)

Spec == Init /\ [][Next]_vars
=============================================================================
