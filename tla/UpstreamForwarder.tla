------------------------- MODULE UpstreamForwarder --------------------------
(***************************************************************************)
(* The upstream chain of dns-core (resolver/forwarder.rs): concurrent      *)
(* calls of forward_raw, each trying the upstreams in order until one      *)
(* answers, with a timeout on every wait.                                  *)
(*                                                                         *)
(* Time is discrete.  A timer fires when it has run out and no later: time *)
(* does not pass while a task has something due.  Bind, connect and send   *)
(* of a UDP socket do not wait.  The network loses, delays and reorders    *)
(* datagrams; the upstreams are external and answer a query they get or    *)
(* do not.  A socket that has been connected takes datagrams from its peer *)
(* only, whatever they are about: nothing compares an answer with the      *)
(* query.  Ports of sockets that were closed are used again.               *)
(***************************************************************************)
EXTENDS Naturals, Sequences, FiniteSets, SequencesExt

CONSTANTS
    Calls,       \* calls of forward_raw, each with a query of its own
    Chain,       \* the upstreams: a sequence of [addr, transport]
    Timeout,     \* timeout_duration
    Ports,       \* local ports UDP sockets are given
    PortsRest    \* does the system keep a port unused while datagrams to or
                 \* from it are under way?

NoPort == "none"
NoResult == "none"

ASSUME ForwarderAssumption ==
    /\ Chain \in Seq(ToSet(Chain))
    /\ \A i \in DOMAIN Chain : Chain[i].transport \in {"udp", "tcp"}
    /\ Timeout \in Nat \ {0}
    /\ NoPort \notin Ports
    /\ PortsRest \in BOOLEAN

VARIABLES
    pc,       \* where each call is
    at,       \* the upstream it is trying
    left,     \* what is left of its timeout
    port,     \* port of its UDP socket, while open
    result,   \* the call whose query it got an answer to
    net,      \* datagrams under way
    elapsed   \* history: time since the call began

vars == <<pc, at, left, port, result, net, elapsed>>

Waiting == {"receiving", "connecting", "exchanging"}
Ended == {"answered", "failed"}

Datagram(kind, addr, p, c) == [kind |-> kind, addr |-> addr, port |-> p, about |-> c]

Open == {port[c] : c \in Calls} \ {NoPort}

-----------------------------------------------------------------------------
(* forward_raw                                                             *)

\* An empty chain fails at once.
Begin(c) ==
    /\ pc[c] = "idle"
    /\ pc' = [pc EXCEPT ![c] = IF Chain = <<>> THEN "failed" ELSE "trying"]
    /\ at' = [at EXCEPT ![c] = 1]
    /\ UNCHANGED <<left, port, result, net, elapsed>>

\* Mistake: the last upstream is never tried.
TryNextButLast(c) ==
    /\ IF at[c] < Len(Chain) - 1
       THEN pc' = [pc EXCEPT ![c] = "trying"] /\ at' = [at EXCEPT ![c] = @ + 1]
       ELSE pc' = [pc EXCEPT ![c] = "failed"] /\ UNCHANGED at
    /\ port' = [port EXCEPT ![c] = NoPort]
    /\ UNCHANGED <<left, result, net, elapsed>>

\* Mistake: the socket of the attempt before stays open.
TryNextLeaking(c) ==
    /\ IF at[c] < Len(Chain)
       THEN pc' = [pc EXCEPT ![c] = "trying"] /\ at' = [at EXCEPT ![c] = @ + 1]
       ELSE pc' = [pc EXCEPT ![c] = "failed"] /\ UNCHANGED at
    /\ UNCHANGED <<left, port, result, net, elapsed>>

\* Any error or timeout: on to the next upstream, the socket is closed.
TryNext(c) ==
    /\ IF at[c] < Len(Chain)
       THEN pc' = [pc EXCEPT ![c] = "trying"] /\ at' = [at EXCEPT ![c] = @ + 1]
       ELSE pc' = [pc EXCEPT ![c] = "failed"] /\ UNCHANGED at
    /\ port' = [port EXCEPT ![c] = NoPort]
    /\ UNCHANGED <<left, result, net, elapsed>>

\* The first success ends the call.
Succeed(c, about) ==
    /\ pc' = [pc EXCEPT ![c] = "answered"]
    /\ result' = [result EXCEPT ![c] = about]
    /\ port' = [port EXCEPT ![c] = NoPort]
    /\ UNCHANGED <<at, left, elapsed>>

Wait(c, state) ==
    /\ pc' = [pc EXCEPT ![c] = state]
    /\ left' = [left EXCEPT ![c] = Timeout]

\* Mistake: a connection that is not made in time is tried once more.
TimesOutRetrying(c) ==
    /\ pc[c] \in Waiting /\ left[c] = 0
    /\ IF pc[c] = "connecting"
       THEN Wait(c, "connecting") /\ UNCHANGED <<at, port, result, net, elapsed>>
       ELSE TryNext(c)

\* Mistake: no timeout on the exchange over TCP.
TimesOutEarly(c) == pc[c] \in {"receiving", "connecting"} /\ left[c] = 0 /\ TryNext(c)

TimesOut(c) == pc[c] \in Waiting /\ left[c] = 0 /\ TryNext(c)

\* bind, connect, send, recv, read or write fails, an answer over TCP has the
\* length zero or is cut short.
Errs(c) == pc[c] \in Waiting \union {"trying"} /\ TryNext(c)

-----------------------------------------------------------------------------
(* forward_udp                                                             *)

UdpSend(c, p) ==
    /\ pc[c] = "trying" /\ Chain[at[c]].transport = "udp"
    /\ p \notin Open
    /\ PortsRest => \A d \in net : d.port # p
    /\ port' = [port EXCEPT ![c] = p]
    /\ net' = net \union {Datagram("query", Chain[at[c]].addr, p, c)}
    /\ Wait(c, "receiving")
    /\ UNCHANGED <<at, result, elapsed>>

\* Mistake: one socket for all calls.
UdpReceiveShared(c, d) ==
    /\ pc[c] = "receiving"
    /\ d.kind = "answer" /\ d.addr = Chain[at[c]].addr
    /\ Succeed(c, d.about)
    /\ net' = net \ {d}

UdpReceive(c, d) ==
    /\ pc[c] = "receiving"
    /\ d.kind = "answer" /\ d.port = port[c] /\ d.addr = Chain[at[c]].addr
    /\ Succeed(c, d.about)
    /\ net' = net \ {d}

-----------------------------------------------------------------------------
(* forward_tcp: one timeout to connect, another for query and answer, both *)
(* on a connection that carries nothing else.                              *)

TcpConnect(c) ==
    /\ pc[c] = "trying" /\ Chain[at[c]].transport = "tcp"
    /\ Wait(c, "connecting")
    /\ UNCHANGED <<at, port, result, net, elapsed>>

TcpConnected(c) ==
    /\ pc[c] = "connecting"
    /\ Wait(c, "exchanging")
    /\ UNCHANGED <<at, port, result, net, elapsed>>

TcpReceive(c) ==
    /\ pc[c] = "exchanging"
    /\ Succeed(c, c)
    /\ UNCHANGED net

-----------------------------------------------------------------------------
(* The network, the upstreams and time                                     *)

UpstreamAnswers(d) ==
    /\ d.kind = "query"
    /\ net' = (net \ {d}) \union {[d EXCEPT !.kind = "answer"]}
    /\ UNCHANGED <<pc, at, left, port, result, elapsed>>

Lose(d) ==
    /\ net' = net \ {d}
    /\ UNCHANGED <<pc, at, left, port, result, elapsed>>

Tick ==
    /\ \E c \in Calls : pc[c] \in Waiting
    /\ \A c \in Calls : pc[c] # "trying" /\ (pc[c] \in Waiting => left[c] > 0)
    /\ left' = [c \in Calls |-> IF pc[c] \in Waiting THEN left[c] - 1 ELSE left[c]]
    /\ elapsed' = [c \in Calls |->
                     IF pc[c] \in Waiting THEN elapsed[c] + 1 ELSE elapsed[c]]
    /\ UNCHANGED <<pc, at, port, result, net>>

\* The bounds of the model: no further calls.
Finished == (\A c \in Calls : pc[c] \in Ended) /\ UNCHANGED vars

Init ==
    /\ pc = [c \in Calls |-> "idle"]
    /\ at = [c \in Calls |-> 1]
    /\ left = [c \in Calls |-> 0]
    /\ port = [c \in Calls |-> NoPort]
    /\ result = [c \in Calls |-> NoResult]
    /\ net = {}
    /\ elapsed = [c \in Calls |-> 0]

\* What the task does of itself, and what happens to it.
Proceed(c) ==
    \/ TimesOut(c)
    \/ \E p \in Ports : UdpSend(c, p)
    \/ TcpConnect(c)

Happens(c) ==
    \/ Errs(c)
    \/ \E d \in net : UdpReceive(c, d)
    \/ TcpConnected(c)
    \/ TcpReceive(c)

Next ==
    \/ \E c \in Calls : Begin(c) \/ Proceed(c) \/ Happens(c)
    \/ \E d \in net : UpstreamAnswers(d) \/ Lose(d)
    \/ Tick
    \/ Finished

Spec == Init /\ [][Next]_vars

\* Tasks run, timers fire, time passes.  Nothing is asked of the network or
\* the upstreams: not even an error need ever be reported.
LiveSpec == Spec /\ WF_vars(Tick) /\ \A c \in Calls : WF_vars(Proceed(c))

-----------------------------------------------------------------------------
(* Properties                                                              *)

\* Types: a call has a socket of its own exactly while it waits for a datagram.
ForwarderTypeOK ==
    /\ pc \in [Calls -> {"idle", "trying"} \union Waiting \union Ended]
    /\ \A c \in Calls : pc[c] \in Waiting => at[c] \in DOMAIN Chain
    /\ left \in [Calls -> 0 .. Timeout]
    /\ \A c \in Calls : pc[c] = "receiving" <=> port[c] # NoPort
    /\ \A c, d \in Calls : port[c] = port[d] /\ port[c] # NoPort => c = d
    /\ result \in [Calls -> Calls \union {NoResult}]

\* The longest upstreams 1 to n may take together: one timeout for each, and a
\* second for those over TCP.
BudgetTo(n) == Timeout * (n + Cardinality({i \in 1 .. n : Chain[i].transport = "tcp"}))

\* How long a client may be kept waiting: a call that is trying an upstream
\* has used no more than the budgets up to that one, whatever mix of errors,
\* refusals and timeouts it has met.
EndsOnTime ==
    \A c \in Calls :
        /\ elapsed[c] <= BudgetTo(Len(Chain))
        /\ pc[c] = "trying" => elapsed[c] <= BudgetTo(at[c] - 1)
        /\ pc[c] \in Waiting =>
              elapsed[c] + left[c] + (IF pc[c] = "connecting" THEN Timeout ELSE 0)
                  <= BudgetTo(at[c])

\* Late answers go nowhere: whatever was lost, late or out of order, the answer
\* a call returns is an answer to its own query, provided no port is used again
\* while datagrams for it are under way.
AnswersAreOwn ==
    PortsRest => \A c \in Calls : pc[c] = "answered" => result[c] = c

\* Handlers see no more of the chain than ForwardSpec says.
Contract == INSTANCE ForwardSpec WITH
    Upstreams <- Len(Chain),
    tried <- [c \in Calls |-> IF pc[c] = "failed" THEN Len(Chain) ELSE at[c] - 1],
    outcome <- [c \in Calls |->
                  IF pc[c] \in {"idle", "answered"} THEN pc[c] ELSE "begun"]

ImplementsContract == Contract!Spec

\* Every call ends, answered or failed, even if upstreams and network are dead
\* silent: no wait of the chain is without a timeout.
CallsEnd == \A c \in Calls : pc[c] = "trying" ~> pc[c] \in Ended
=============================================================================
