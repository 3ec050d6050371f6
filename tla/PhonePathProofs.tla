-------------------------- MODULE PhonePathProofs --------------------------
(***************************************************************************)
(* What the upstream chain does for every set of calls, every chain, every *)
(* timeout and every set of ports: each call keeps to its time, returns an *)
(* answer to its own query while ports rest, and handlers see no more of   *)
(* it than ForwardSpec says.  Then what a client of the phone's forwarder  *)
(* may rely on, for every set of datagrams, every chain behind the server  *)
(* and every pair of timeouts.                                             *)
(***************************************************************************)
EXTENDS PhonePath, FiniteSetTheorems, TLAPS

-----------------------------------------------------------------------------
(* The chain: the inductive invariant                                      *)

States == {"idle", "trying"} \union Waiting \union Ended

\* A call that is not over has an upstream to try, and a socket exactly while it
\* waits for a datagram.
Placed(state, upstream, socket) ==
    /\ state \in {"trying"} \union Waiting => upstream \in 1 .. Len(Chain)
    /\ state = "idle" => upstream = 1
    /\ upstream \in 1 .. Len(Chain) + 1
    /\ state = "receiving" <=> socket # NoPort

\* What a call has used of its time and what it may still use before it turns to
\* the next upstream.
InTime(state, upstream, rest, used) ==
    /\ used <= BudgetTo(Len(Chain))
    /\ state = "idle" => used = 0
    /\ state = "trying" => used <= BudgetTo(upstream - 1)
    /\ state \in Waiting =>
          used + rest + (IF state = "connecting" THEN Timeout ELSE 0) <= BudgetTo(upstream)

TypesOK ==
    /\ pc \in [Calls -> States]
    /\ at \in [Calls -> Nat]
    /\ left \in [Calls -> 0 .. Timeout]
    /\ port \in [Calls -> Ports \union {NoPort}]
    /\ result \in [Calls -> Calls \union {NoResult}]
    /\ elapsed \in [Calls -> Nat]

CallsOK ==
    \A c \in Calls : Placed(pc[c], at[c], port[c]) /\ InTime(pc[c], at[c], left[c], elapsed[c])

\* What is under way, and what it tells a call that takes it: open sockets have
\* ports of their own, and while ports rest what reaches a socket is about the
\* query of the call that opened it.
Datagrams == [kind : {"query", "answer"}, addr : {up.addr : up \in ToSet(Chain)},
              port : Ports, about : Calls]

SocketsOK ==
    /\ \A c, d \in Calls : port[c] = port[d] /\ port[c] # NoPort => c = d
    /\ net \subseteq Datagrams
    /\ PortsRest => \A c \in Calls, d \in net : port[c] = d.port => d.about = c

ForwarderInv == TypesOK /\ CallsOK /\ SocketsOK /\ AnswersAreOwn

-----------------------------------------------------------------------------
(* Budgets                                                                 *)

\* The upstreams over TCP among the first n.
OverTcp(n) == {i \in 1 .. n : Chain[i].transport = "tcp"}

\* The chain is a sequence of upstreams with one of two transports.
LEMMA ChainFacts ==
  /\ Len(Chain) \in Nat
  /\ DOMAIN Chain = 1 .. Len(Chain)
  /\ Chain = <<>> <=> Len(Chain) = 0
  /\ \A i \in 1 .. Len(Chain) : Chain[i] \in ToSet(Chain)
BY ForwarderAssumption DEF ToSet

\* How many of the first n upstreams there are over TCP is a number.
LEMMA OverTcpFinite ==
  ASSUME NEW n \in Nat
  PROVE  IsFiniteSet(OverTcp(n)) /\ Cardinality(OverTcp(n)) \in Nat
<1>1. IsFiniteSet(1 .. n)
  BY FS_Interval
<1>2. OverTcp(n) \in SUBSET (1 .. n)
  BY DEF OverTcp
<1>3. IsFiniteSet(OverTcp(n))
  BY <1>1, <1>2, FS_Subset
<1> QED BY <1>3, FS_CardinalityType

\* The budget of one more upstream: a timeout, or two over TCP.
LEMMA BudgetGrows ==
  ASSUME NEW n \in Nat
  PROVE  /\ BudgetTo(n) \in Nat
         /\ BudgetTo(n + 1) = BudgetTo(n) + (IF Chain[n + 1].transport = "tcp"
                                            THEN 2 * Timeout ELSE Timeout)
<1> DEFINE k == Cardinality(OverTcp(n))
           l == Cardinality(OverTcp(n + 1))
<1>1. IsFiniteSet(OverTcp(n)) /\ k \in Nat
  BY OverTcpFinite
<1>2. n + 1 \notin OverTcp(n)
  BY DEF OverTcp
<1>3. OverTcp(n + 1) = IF Chain[n + 1].transport = "tcp"
                       THEN OverTcp(n) \union {n + 1} ELSE OverTcp(n)
  BY DEF OverTcp
<1>4. l = IF Chain[n + 1].transport = "tcp" THEN k + 1 ELSE k
  BY <1>1, <1>2, <1>3, FS_AddElement
<1>5. BudgetTo(n) = Timeout * (n + k) /\ BudgetTo(n + 1) = Timeout * (n + 1 + l)
  BY DEF BudgetTo, OverTcp
<1>6. Timeout \in Nat
  BY ForwarderAssumption
<1> HIDE DEF k, l
<1>7. /\ Timeout * (n + k) \in Nat
      /\ Timeout * (n + 1 + k) = Timeout * (n + k) + Timeout
      /\ Timeout * (n + 1 + (k + 1)) = Timeout * (n + k) + 2 * Timeout
  BY <1>1, <1>6
<1> QED BY <1>4, <1>5, <1>7

\* No upstream has more than the whole chain.
LEMMA BudgetOfChain ==
  ASSUME NEW n \in 0 .. Len(Chain)
  PROVE  BudgetTo(n) <= BudgetTo(Len(Chain))
<1> DEFINE m == Len(Chain)
           k == Cardinality(OverTcp(n))
           l == Cardinality(OverTcp(m))
<1>1. n \in Nat /\ m \in Nat /\ n <= m
  BY ChainFacts
<1>2. k \in Nat /\ l \in Nat /\ IsFiniteSet(OverTcp(m))
  BY <1>1, OverTcpFinite
<1>3. OverTcp(n) \in SUBSET OverTcp(m)
  BY <1>1 DEF OverTcp
<1>4. k <= l
  BY <1>2, <1>3, FS_Subset
<1>5. BudgetTo(n) = Timeout * (n + k) /\ BudgetTo(m) = Timeout * (m + l)
  BY DEF BudgetTo, OverTcp
<1>6. Timeout \in Nat
  BY ForwarderAssumption
<1> HIDE DEF k, l, m
<1>7. \A a, b, t \in Nat : a <= b => t * a <= t * b
  OBVIOUS
<1>8. n + k \in Nat /\ m + l \in Nat /\ n + k <= m + l
  BY <1>1, <1>2, <1>4
<1> QED BY <1>5, <1>6, <1>7, <1>8 DEF m

\* The same for an upstream and those before it.
LEMMA BudgetOf ==
  ASSUME NEW n \in 1 .. Len(Chain)
  PROVE  /\ BudgetTo(n) \in Nat /\ BudgetTo(n - 1) \in Nat
         /\ BudgetTo(n - 1) <= BudgetTo(n)
         /\ Chain[n].transport = "tcp" => BudgetTo(n) = BudgetTo(n - 1) + 2 * Timeout
         /\ Chain[n].transport = "udp" => BudgetTo(n) = BudgetTo(n - 1) + Timeout
         /\ BudgetTo(n) <= BudgetTo(Len(Chain))
<1> DEFINE m == n - 1
<1>1. m \in Nat /\ m + 1 = n /\ n \in Nat /\ Timeout \in Nat
  BY ChainFacts, ForwarderAssumption
<1> HIDE DEF m
<1>2. /\ BudgetTo(m) \in Nat /\ BudgetTo(m + 1) \in Nat
      /\ BudgetTo(m + 1) = BudgetTo(m) + (IF Chain[m + 1].transport = "tcp"
                                          THEN 2 * Timeout ELSE Timeout)
  BY <1>1, BudgetGrows
<1>3. /\ BudgetTo(n) \in Nat /\ BudgetTo(m) \in Nat
      /\ BudgetTo(n) = BudgetTo(m) + (IF Chain[n].transport = "tcp"
                                      THEN 2 * Timeout ELSE Timeout)
  BY <1>1, <1>2
<1>4. n \in 0 .. Len(Chain)
  BY ChainFacts
<1>5. BudgetTo(n) <= BudgetTo(Len(Chain))
  BY <1>4, BudgetOfChain
<1> QED BY <1>1, <1>3, <1>5 DEF m

-----------------------------------------------------------------------------
(* Steps of a call                                                         *)

\* The invariant of calls and of sockets when one call moves.
LEMMA CallMoves ==
  ASSUME TypesOK, CallsOK, NEW c \in Calls,
         NEW p \in States, NEW a \in Nat, NEW l \in 0 .. Timeout,
         NEW o \in Ports \union {NoPort}, NEW r \in Calls \union {NoResult},
         pc' = [pc EXCEPT ![c] = p], at' = [at EXCEPT ![c] = a],
         left' = [left EXCEPT ![c] = l], port' = [port EXCEPT ![c] = o],
         result' = [result EXCEPT ![c] = r], UNCHANGED elapsed,
         Placed(p, a, o), InTime(p, a, l, elapsed[c])
  PROVE  TypesOK' /\ CallsOK'
<1>1. TypesOK'
  BY DEF TypesOK
<1>2. \A d \in Calls \ {c} : /\ pc'[d] = pc[d] /\ at'[d] = at[d] /\ left'[d] = left[d]
                             /\ port'[d] = port[d] /\ elapsed'[d] = elapsed[d]
  BY DEF TypesOK
<1>3. /\ pc'[c] = p /\ at'[c] = a /\ left'[c] = l /\ port'[c] = o
      /\ elapsed'[c] = elapsed[c]
  BY DEF TypesOK
<1>4. CallsOK'
  <2>1. SUFFICES ASSUME NEW d \in Calls
                 PROVE  /\ Placed(pc'[d], at'[d], port'[d])
                        /\ InTime(pc'[d], at'[d], left'[d], elapsed'[d])
    BY DEF CallsOK, Placed, InTime
  <2> QED BY <1>2, <1>3 DEF CallsOK
<1> QED BY <1>1, <1>4

\* Closing a socket, or leaving it as it is, and losing datagrams disturb no
\* other call.
LEMMA SocketCloses ==
  ASSUME TypesOK, SocketsOK, NEW c \in Calls,
         port' = [port EXCEPT ![c] = NoPort] \/ port' = port, net' \subseteq net
  PROVE  SocketsOK'
<1>1. \A d \in Calls : port'[d] \in {port[d], NoPort}
  BY DEF TypesOK
<1>2. \A d \in net' : d.port # NoPort
  BY ForwarderAssumption DEF SocketsOK, Datagrams
<1> QED BY <1>1, <1>2 DEF SocketsOK

\* Only the answer a call takes decides whether it is its own.
LEMMA NoNewResult ==
  ASSUME TypesOK, AnswersAreOwn, NEW c \in Calls, NEW p \in States \ {"answered"},
         pc' = [pc EXCEPT ![c] = p], UNCHANGED result
  PROVE  AnswersAreOwn'
BY DEF TypesOK, AnswersAreOwn

\* On to the next upstream.
LEMMA TryNextKeeps ==
  ASSUME ForwarderInv, NEW c \in Calls, pc[c] \in Waiting \union {"trying"}, TryNext(c)
  PROVE  ForwarderInv'
<1>1. at[c] \in 1 .. Len(Chain) /\ at[c] \in Nat /\ Len(Chain) \in Nat /\ elapsed[c] \in Nat
      /\ left[c] \in Nat /\ Timeout \in Nat
  BY ChainFacts, ForwarderAssumption DEF ForwarderInv, TypesOK, CallsOK, Placed
<1>2. /\ BudgetTo(at[c]) \in Nat /\ BudgetTo(at[c] - 1) \in Nat
      /\ BudgetTo(at[c] - 1) <= BudgetTo(at[c]) /\ BudgetTo(at[c]) <= BudgetTo(Len(Chain))
  BY <1>1, BudgetOf
<1>3. elapsed[c] <= BudgetTo(at[c]) /\ elapsed[c] <= BudgetTo(Len(Chain))
  BY <1>1, <1>2 DEF ForwarderInv, CallsOK, InTime
<1>4. PICK p \in {"trying", "failed"}, a \in Nat :
            /\ pc' = [pc EXCEPT ![c] = p] /\ at' = [at EXCEPT ![c] = a]
            /\ \/ p = "trying" /\ at[c] < Len(Chain) /\ a = at[c] + 1
               \/ p = "failed" /\ a = at[c]
  <2>1. CASE at[c] < Len(Chain)
    <3>1. pc' = [pc EXCEPT ![c] = "trying"] /\ at' = [at EXCEPT ![c] = at[c] + 1]
      BY <2>1 DEF TryNext
    <3>2. at[c] + 1 \in Nat
      BY <1>1
    <3> QED BY <2>1, <3>1, <3>2
  <2>2. CASE ~ (at[c] < Len(Chain))
    <3>1. pc' = [pc EXCEPT ![c] = "failed"] /\ at' = [at EXCEPT ![c] = at[c]]
      BY <2>2 DEF TryNext, ForwarderInv, TypesOK
    <3> QED BY <1>1, <3>1
  <2> QED BY <2>1, <2>2
<1>5. /\ port' = [port EXCEPT ![c] = NoPort]
      /\ left' = [left EXCEPT ![c] = left[c]]
      /\ result' = [result EXCEPT ![c] = result[c]]
      /\ UNCHANGED <<result, net, elapsed>>
  BY DEF TryNext, ForwarderInv, TypesOK
<1>6. Placed(p, a, NoPort)
  BY <1>1, <1>4 DEF Placed, Waiting
<1>7. InTime(p, a, left[c], elapsed[c])
  <2>1. p = "trying" => a - 1 = at[c]
    BY <1>1, <1>4
  <2> QED BY <1>3, <1>4, <2>1 DEF InTime, Waiting
<1>8. p \in States /\ left[c] \in 0 .. Timeout /\ result[c] \in Calls \union {NoResult}
  BY <1>4 DEF ForwarderInv, TypesOK, States, Ended
<1>9. TypesOK' /\ CallsOK'
  BY <1>4, <1>5, <1>6, <1>7, <1>8, CallMoves DEF ForwarderInv
<1>10. SocketsOK' /\ AnswersAreOwn'
  BY <1>4, <1>5, <1>8, SocketCloses, NoNewResult DEF ForwarderInv
<1> QED BY <1>9, <1>10 DEF ForwarderInv

\* An answer ends a call.
LEMMA SucceedKeeps ==
  ASSUME ForwarderInv, NEW c \in Calls, pc[c] \in Waiting, NEW about \in Calls,
         PortsRest => about = c, Succeed(c, about), net' \subseteq net
  PROVE  ForwarderInv'
<1>1. /\ pc' = [pc EXCEPT ![c] = "answered"]
      /\ at' = [at EXCEPT ![c] = at[c]]
      /\ left' = [left EXCEPT ![c] = left[c]]
      /\ port' = [port EXCEPT ![c] = NoPort]
      /\ result' = [result EXCEPT ![c] = about]
      /\ UNCHANGED elapsed
  BY DEF Succeed, ForwarderInv, TypesOK
<1>2. /\ "answered" \in States /\ at[c] \in Nat /\ left[c] \in 0 .. Timeout
      /\ about \in Calls \union {NoResult}
  BY DEF ForwarderInv, TypesOK, States, Ended
<1>3. Placed("answered", at[c], NoPort) /\ InTime("answered", at[c], left[c], elapsed[c])
  BY DEF ForwarderInv, CallsOK, Placed, InTime, Waiting
<1>4. TypesOK' /\ CallsOK'
  BY <1>1, <1>2, <1>3, CallMoves DEF ForwarderInv
<1>5. SocketsOK'
  BY <1>1, SocketCloses DEF ForwarderInv
<1>6. AnswersAreOwn'
  BY <1>1 DEF ForwarderInv, AnswersAreOwn, TypesOK
<1> QED BY <1>4, <1>5, <1>6 DEF ForwarderInv

\* A wait begins, with all of a timeout left.
LEMMA WaitKeeps ==
  ASSUME ForwarderInv, NEW c \in Calls, NEW state \in Waiting, Wait(c, state),
         pc[c] \in Waiting \union {"trying"},
         NEW o \in Ports \union {NoPort}, port' = [port EXCEPT ![c] = o],
         state = "receiving" <=> o # NoPort,
         elapsed[c] + Timeout + (IF state = "connecting" THEN Timeout ELSE 0)
             <= BudgetTo(at[c]),
         UNCHANGED <<at, result, elapsed>>
  PROVE  TypesOK' /\ CallsOK' /\ AnswersAreOwn'
<1>1. /\ pc' = [pc EXCEPT ![c] = state]
      /\ at' = [at EXCEPT ![c] = at[c]]
      /\ left' = [left EXCEPT ![c] = Timeout]
      /\ result' = [result EXCEPT ![c] = result[c]]
      /\ UNCHANGED elapsed
  BY DEF Wait, ForwarderInv, TypesOK
<1>2. /\ state \in States \ {"answered"} /\ at[c] \in Nat /\ Timeout \in 0 .. Timeout
      /\ result[c] \in Calls \union {NoResult}
  BY ForwarderAssumption DEF ForwarderInv, TypesOK, States, Waiting, Ended
<1>3. Placed(state, at[c], o) /\ InTime(state, at[c], Timeout, elapsed[c])
  BY DEF ForwarderInv, CallsOK, Placed, InTime, Waiting
<1>4. TypesOK' /\ CallsOK'
  BY <1>1, <1>2, <1>3, CallMoves DEF ForwarderInv
<1>5. AnswersAreOwn'
  BY <1>1, <1>2, NoNewResult DEF ForwarderInv
<1> QED BY <1>4, <1>5

\* A call that turns to an upstream has the time for it.
LEMMA TimeToTry ==
  ASSUME ForwarderInv, NEW c \in Calls, pc[c] = "trying"
  PROVE  /\ at[c] \in DOMAIN Chain
         /\ Chain[at[c]].transport = "udp" => elapsed[c] + Timeout <= BudgetTo(at[c])
         /\ Chain[at[c]].transport = "tcp" => elapsed[c] + Timeout + Timeout <= BudgetTo(at[c])
<1>1. at[c] \in 1 .. Len(Chain) /\ elapsed[c] \in Nat /\ Timeout \in Nat
  BY ForwarderAssumption DEF ForwarderInv, TypesOK, CallsOK, Placed
<1>2. elapsed[c] <= BudgetTo(at[c] - 1)
  BY DEF ForwarderInv, CallsOK, InTime
<1> QED BY <1>1, <1>2, BudgetOf, ChainFacts

\* A query is sent over UDP, from a port nobody has.
LEMMA UdpSendKeeps ==
  ASSUME ForwarderInv, NEW c \in Calls, NEW p \in Ports, UdpSend(c, p)
  PROVE  ForwarderInv'
<1> DEFINE new == Datagram("query", Chain[at[c]].addr, p, c)
<1>1. /\ pc[c] = "trying" /\ Chain[at[c]].transport = "udp" /\ p \notin Open
      /\ PortsRest => \A d \in net : d.port # p
      /\ port' = [port EXCEPT ![c] = p]
      /\ net' = net \union {new}
      /\ UNCHANGED <<at, result, elapsed>>
  BY DEF UdpSend
<1>2. /\ "receiving" \in Waiting /\ Wait(c, "receiving") /\ p # NoPort
      /\ p \in Ports \union {NoPort}
  BY ForwarderAssumption DEF UdpSend, Waiting
<1>3. at[c] \in DOMAIN Chain /\ elapsed[c] + Timeout <= BudgetTo(at[c])
  BY <1>1, TimeToTry
<1>4. elapsed[c] \in Nat /\ Timeout \in Nat
  BY ForwarderAssumption DEF ForwarderInv, TypesOK
<1>5. elapsed[c] + Timeout + (IF "receiving" = "connecting" THEN Timeout ELSE 0)
          <= BudgetTo(at[c])
  BY <1>3, <1>4
<1>6. TypesOK' /\ CallsOK' /\ AnswersAreOwn'
  BY <1>1, <1>2, <1>5, WaitKeeps
<1>7. new \in Datagrams
  BY <1>3 DEF Datagrams, Datagram, ToSet
<1>8. new.port = p /\ new.about = c
  BY DEF Datagram
<1> HIDE DEF new
<1>9. \A d \in Calls : port'[d] = IF d = c THEN p ELSE port[d]
  BY <1>1 DEF ForwarderInv, TypesOK
<1>10. \A d \in Calls : port[d] # p
  BY <1>1, <1>2 DEF Open
<1>11. SocketsOK'
  <2>1. \A d, e \in Calls : port'[d] = port'[e] /\ port'[d] # NoPort => d = e
    BY <1>9, <1>10 DEF ForwarderInv, SocketsOK
  <2>2. net' \subseteq Datagrams
    BY <1>1, <1>7 DEF ForwarderInv, SocketsOK
  <2>3. ASSUME PortsRest, NEW d \in Calls, NEW g \in net', port'[d] = g.port
        PROVE  g.about = d
    BY <1>1, <1>8, <1>9, <1>10, <2>3 DEF ForwarderInv, SocketsOK
  <2> QED BY <2>1, <2>2, <2>3 DEF SocketsOK, Datagrams
<1> QED BY <1>6, <1>11 DEF ForwarderInv

\* An answer over UDP is taken from the socket of the call.
LEMMA UdpReceiveKeeps ==
  ASSUME ForwarderInv, NEW c \in Calls, NEW d \in net, UdpReceive(c, d)
  PROVE  ForwarderInv'
<1>1. /\ pc[c] \in Waiting /\ d.port = port[c] /\ Succeed(c, d.about) /\ net' \subseteq net
  BY DEF UdpReceive, Waiting
<1>2. d.about \in Calls /\ (PortsRest => d.about = c)
  BY <1>1 DEF ForwarderInv, SocketsOK, Datagrams
<1> QED BY <1>1, <1>2, SucceedKeeps

\* A connection is asked for, made, and carries the answer.
LEMMA TcpKeeps ==
  ASSUME ForwarderInv, NEW c \in Calls,
         TcpConnect(c) \/ TcpConnected(c) \/ TcpReceive(c)
  PROVE  ForwarderInv'
<1>1. /\ elapsed[c] \in Nat /\ left[c] \in Nat /\ Timeout \in Nat /\ NoPort \in Ports \union {NoPort}
      /\ "connecting" \in Waiting /\ "exchanging" \in Waiting
  BY ForwarderAssumption DEF ForwarderInv, TypesOK, Waiting
<1>2. port[c] = NoPort => port = [port EXCEPT ![c] = NoPort]
  BY DEF ForwarderInv, TypesOK
<1>3. CASE TcpConnect(c)
  <2>1. pc[c] = "trying" /\ Chain[at[c]].transport = "tcp" /\ Wait(c, "connecting")
        /\ UNCHANGED <<at, port, result, net, elapsed>>
    BY <1>3 DEF TcpConnect
  <2>2. port[c] = NoPort
    BY <2>1 DEF ForwarderInv, CallsOK, Placed
  <2>3. elapsed[c] + Timeout + (IF "connecting" = "connecting" THEN Timeout ELSE 0)
            <= BudgetTo(at[c])
    BY <2>1, TimeToTry
  <2>4. TypesOK' /\ CallsOK' /\ AnswersAreOwn'
    BY <1>1, <1>2, <2>1, <2>2, <2>3, WaitKeeps
  <2> QED BY <2>1, <2>4, SocketCloses DEF ForwarderInv
<1>4. CASE TcpConnected(c)
  <2>1. pc[c] = "connecting" /\ Wait(c, "exchanging")
        /\ UNCHANGED <<at, port, result, net, elapsed>>
    BY <1>4 DEF TcpConnected
  <2>2. port[c] = NoPort
    BY <2>1 DEF ForwarderInv, CallsOK, Placed
  <2>3. elapsed[c] + left[c] + Timeout <= BudgetTo(at[c]) /\ BudgetTo(at[c]) \in Nat
    <3>1. at[c] \in 1 .. Len(Chain)
      BY <1>1, <2>1 DEF ForwarderInv, CallsOK, Placed
    <3>2. BudgetTo(at[c]) \in Nat
      BY <3>1, BudgetOf
    <3> QED BY <1>1, <2>1, <3>2 DEF ForwarderInv, CallsOK, InTime
  <2>4. elapsed[c] + Timeout + (IF "exchanging" = "connecting" THEN Timeout ELSE 0)
            <= BudgetTo(at[c])
    BY <1>1, <2>3
  <2>5. TypesOK' /\ CallsOK' /\ AnswersAreOwn'
    BY <1>1, <1>2, <2>1, <2>2, <2>4, WaitKeeps
  <2> QED BY <2>1, <2>5, SocketCloses DEF ForwarderInv
<1>5. CASE TcpReceive(c)
  <2>1. pc[c] \in Waiting /\ Succeed(c, c) /\ net' = net
    BY <1>5 DEF TcpReceive, Waiting
  <2> QED BY <2>1, SucceedKeeps
<1> QED BY <1>3, <1>4, <1>5

\* A call begins, with an upstream to try if there is one.
LEMMA BeginKeeps ==
  ASSUME ForwarderInv, NEW c \in Calls, Begin(c)
  PROVE  ForwarderInv'
<1>1. PICK p \in {"failed", "trying"} :
            pc' = [pc EXCEPT ![c] = p] /\ (p = "failed" <=> Chain = <<>>)
  BY DEF Begin
<1>2. /\ at' = [at EXCEPT ![c] = 1]
      /\ left' = [left EXCEPT ![c] = left[c]]
      /\ port' = [port EXCEPT ![c] = port[c]]
      /\ result' = [result EXCEPT ![c] = result[c]]
      /\ UNCHANGED <<result, port, net, elapsed>>
  BY DEF Begin, ForwarderInv, TypesOK
<1>3. pc[c] = "idle" /\ elapsed[c] = 0 /\ at[c] = 1 /\ port[c] = NoPort
  BY DEF Begin, ForwarderInv, CallsOK, Placed, InTime
<1>4. Placed(p, 1, port[c])
  <2>1. p = "trying" => 1 \in 1 .. Len(Chain)
    BY <1>1, ChainFacts
  <2>2. 1 \in 1 .. Len(Chain) + 1
    BY ChainFacts
  <2> QED BY <1>1, <1>3, <2>1, <2>2 DEF Placed, Waiting
<1>5. BudgetTo(0) \in Nat /\ BudgetTo(Len(Chain)) \in Nat
  BY BudgetGrows, ChainFacts
<1>6. InTime(p, 1, left[c], elapsed[c])
  <2>1. 1 - 1 = 0
    OBVIOUS
  <2> QED BY <1>1, <1>3, <1>5, <2>1 DEF InTime, Waiting
<1>7. /\ p \in States \ {"answered"} /\ 1 \in Nat /\ left[c] \in 0 .. Timeout
      /\ port[c] \in Ports \union {NoPort} /\ result[c] \in Calls \union {NoResult}
  BY <1>1 DEF ForwarderInv, TypesOK, States, Ended
<1>8. TypesOK' /\ CallsOK'
  BY <1>1, <1>2, <1>4, <1>6, <1>7, CallMoves DEF ForwarderInv
<1>9. SocketsOK' /\ AnswersAreOwn'
  BY <1>1, <1>2, <1>7, SocketCloses, NoNewResult DEF ForwarderInv
<1> QED BY <1>8, <1>9 DEF ForwarderInv

-----------------------------------------------------------------------------
(* Steps of the network and of time                                        *)

LEMMA NetworkKeeps ==
  ASSUME ForwarderInv, NEW d \in net, UpstreamAnswers(d) \/ Lose(d)
  PROVE  ForwarderInv'
<1>1. UNCHANGED <<pc, at, left, port, result, elapsed>>
  BY DEF UpstreamAnswers, Lose
<1>2. \A e \in net' : e \in Datagrams /\ \E f \in net : e.port = f.port /\ e.about = f.about
  <2>1. CASE UpstreamAnswers(d)
    <3>1. d \in Datagrams
      BY DEF ForwarderInv, SocketsOK
    <3> DEFINE answer == [d EXCEPT !.kind = "answer"]
    <3>2. answer \in Datagrams /\ answer.port = d.port /\ answer.about = d.about
      BY <3>1 DEF Datagrams
    <3>3. net' = (net \ {d}) \union {answer}
      BY <2>1 DEF UpstreamAnswers
    <3> HIDE DEF answer
    <3> QED BY <3>2, <3>3 DEF ForwarderInv, SocketsOK
  <2>2. CASE Lose(d)
    BY <2>2 DEF Lose, ForwarderInv, SocketsOK
  <2> QED BY <2>1, <2>2
<1>3. SocketsOK'
  BY <1>1, <1>2 DEF ForwarderInv, SocketsOK, Datagrams
<1>4. TypesOK' /\ CallsOK' /\ AnswersAreOwn'
  BY <1>1 DEF ForwarderInv, TypesOK, CallsOK, Placed, InTime, AnswersAreOwn
<1> QED BY <1>3, <1>4 DEF ForwarderInv

LEMMA TickKeeps ==
  ASSUME ForwarderInv, Tick
  PROVE  ForwarderInv'
<1>1. UNCHANGED <<pc, at, port, result, net>>
  BY DEF Tick
<1>2. \A c \in Calls : pc[c] # "trying" /\ (pc[c] \in Waiting => left[c] > 0)
  BY DEF Tick
<1>3. /\ left' = [c \in Calls |-> IF pc[c] \in Waiting THEN left[c] - 1 ELSE left[c]]
      /\ elapsed' = [c \in Calls |-> IF pc[c] \in Waiting THEN elapsed[c] + 1 ELSE elapsed[c]]
  BY DEF Tick
<1>4. Timeout \in Nat
  BY ForwarderAssumption
<1>5. TypesOK'
  <2>1. left' \in [Calls -> 0 .. Timeout]
    BY <1>2, <1>3, <1>4 DEF ForwarderInv, TypesOK
  <2>2. elapsed' \in [Calls -> Nat]
    BY <1>3 DEF ForwarderInv, TypesOK
  <2> QED BY <1>1, <2>1, <2>2 DEF ForwarderInv, TypesOK
<1>6. CallsOK'
  <2>1. SUFFICES ASSUME NEW c \in Calls
                 PROVE  /\ Placed(pc[c], at[c], port[c])
                        /\ InTime(pc[c], at[c], left'[c], elapsed'[c])
    BY <1>1 DEF CallsOK, Placed, InTime
  <2>2. Placed(pc[c], at[c], port[c]) /\ InTime(pc[c], at[c], left[c], elapsed[c])
    BY DEF ForwarderInv, CallsOK
  <2>3. CASE pc[c] \in Waiting
    <3>1. left'[c] = left[c] - 1 /\ elapsed'[c] = elapsed[c] + 1
      BY <1>3, <2>3
    <3>2. left[c] \in Nat /\ elapsed[c] \in Nat /\ left[c] > 0
      BY <1>2, <1>4, <2>3 DEF ForwarderInv, TypesOK
    <3>3. at[c] \in 1 .. Len(Chain)
      BY <2>2, <2>3 DEF Placed
    <3>4. BudgetTo(at[c]) \in Nat /\ BudgetTo(at[c]) <= BudgetTo(Len(Chain))
      BY <3>3, BudgetOf
    <3>5. BudgetTo(Len(Chain)) \in Nat
      BY BudgetGrows, ChainFacts
    <3>6. pc[c] # "idle" /\ pc[c] # "trying"
      BY <2>3 DEF Waiting
    <3> QED BY <1>4, <2>2, <2>3, <3>1, <3>2, <3>4, <3>5, <3>6 DEF InTime
  <2>4. CASE pc[c] \notin Waiting
    <3>1. left'[c] = left[c] /\ elapsed'[c] = elapsed[c]
      BY <1>3, <2>4
    <3> QED BY <2>2, <3>1
  <2> QED BY <2>3, <2>4
<1>7. SocketsOK' /\ AnswersAreOwn'
  BY <1>1 DEF ForwarderInv, SocketsOK, AnswersAreOwn
<1> QED BY <1>5, <1>6, <1>7 DEF ForwarderInv

-----------------------------------------------------------------------------
(* Theorems                                                                *)

LEMMA ForwarderInvInit == Init => ForwarderInv
<1> SUFFICES ASSUME Init PROVE ForwarderInv
  OBVIOUS
<1>1. Timeout \in Nat /\ 1 \in 1 .. Len(Chain) + 1 /\ BudgetTo(Len(Chain)) \in Nat
  BY ForwarderAssumption, ChainFacts, BudgetGrows
<1>2. TypesOK
  BY <1>1 DEF Init, TypesOK, States
<1>3. CallsOK
  BY <1>1 DEF Init, CallsOK, Placed, InTime, Waiting
<1>4. SocketsOK /\ AnswersAreOwn
  BY DEF Init, SocketsOK, AnswersAreOwn
<1> QED BY <1>2, <1>3, <1>4 DEF ForwarderInv

LEMMA ForwarderInvNext == ForwarderInv /\ [Next]_vars => ForwarderInv'
<1> SUFFICES ASSUME ForwarderInv, [Next]_vars PROVE ForwarderInv'
  OBVIOUS
<1>1. ASSUME NEW c \in Calls, Begin(c) PROVE ForwarderInv'
  BY <1>1, BeginKeeps
<1>2. ASSUME NEW c \in Calls, Proceed(c) PROVE ForwarderInv'
  BY <1>2, TryNextKeeps, UdpSendKeeps, TcpKeeps DEF Proceed, TimesOut
<1>3. ASSUME NEW c \in Calls, Happens(c) PROVE ForwarderInv'
  BY <1>3, TryNextKeeps, UdpReceiveKeeps, TcpKeeps DEF Happens, Errs
<1>4. ASSUME NEW d \in net, UpstreamAnswers(d) \/ Lose(d) PROVE ForwarderInv'
  BY <1>4, NetworkKeeps
<1>5. CASE Tick
  BY <1>5, TickKeeps
<1>6. CASE UNCHANGED vars
  BY <1>6 DEF vars, ForwarderInv, TypesOK, CallsOK, Placed, InTime, SocketsOK, AnswersAreOwn
<1> QED BY <1>1, <1>2, <1>3, <1>4, <1>5, <1>6 DEF Next, Finished

\* What the invariant gives.
LEMMA ForwarderInvImplies ==
  ForwarderInv => ForwarderTypeOK /\ EndsOnTime /\ AnswersAreOwn
<1> SUFFICES ASSUME ForwarderInv PROVE ForwarderTypeOK /\ EndsOnTime
  BY DEF ForwarderInv
<1>1. ForwarderTypeOK
  BY ChainFacts DEF ForwarderInv, TypesOK, CallsOK, Placed, SocketsOK, ForwarderTypeOK, States
<1>2. EndsOnTime
  BY DEF ForwarderInv, CallsOK, InTime, EndsOnTime
<1> QED BY <1>1, <1>2

LEMMA ForwarderInvariant == Spec => []ForwarderInv
BY ForwarderInvInit, ForwarderInvNext, PTL DEF Spec

\* Types; and a call has a socket of its own exactly while it waits for a
\* datagram (bind and drop in forward_udp).
THEOREM ForwarderTypes == Spec => []ForwarderTypeOK
BY ForwarderInvariant, ForwarderInvImplies, PTL

\* No call of forward_raw takes longer than the timeouts of its upstreams
\* together, two for one over TCP, whatever errors and timeouts it meets.
THEOREM CallsKeepToTheirTime == Spec => []EndsOnTime
BY ForwarderInvariant, ForwarderInvImplies, PTL

\* As long as a port is not given out again while datagrams to or from it are
\* under way, forward_raw returns an answer to the query it was called with.
THEOREM CallsGetTheirAnswer == Spec => []AnswersAreOwn
BY ForwarderInvariant, ForwarderInvImplies, PTL

-----------------------------------------------------------------------------
(* The contract of ForwardSpec                                             *)

\* How many upstreams have failed a call, and how it stands, as its caller sees
\* it.
TriedBy(c) == IF pc[c] = "failed" THEN Len(Chain) ELSE at[c] - 1
OutcomeOf(c) == IF pc[c] \in {"idle", "answered"} THEN pc[c] ELSE "begun"

\* A step that changes neither.
LEMMA Unnoticed ==
  ASSUME \A c \in Calls : TriedBy(c)' = TriedBy(c) /\ OutcomeOf(c)' = OutcomeOf(c)
  PROVE  UNCHANGED Contract!vars
BY DEF Contract!vars, TriedBy, OutcomeOf

\* What a caller sees when its own call moves.
LEMMA CallSeen ==
  ASSUME TypesOK, NEW c \in Calls, NEW p, NEW a,
         pc' = [pc EXCEPT ![c] = p], at' = [at EXCEPT ![c] = a]
  PROVE  /\ \A d \in Calls \ {c} : TriedBy(d)' = TriedBy(d) /\ OutcomeOf(d)' = OutcomeOf(d)
         /\ TriedBy(c)' = IF p = "failed" THEN Len(Chain) ELSE a - 1
         /\ OutcomeOf(c)' = IF p \in {"idle", "answered"} THEN p ELSE "begun"
BY DEF TypesOK, TriedBy, OutcomeOf

\* A call that has an upstream left has not failed.
LEMMA NotFailed ==
  ASSUME ForwarderInv, NEW c \in Calls, pc[c] \in Waiting \union {"trying"}
  PROVE  /\ OutcomeOf(c) = "begun" /\ TriedBy(c) = at[c] - 1
         /\ at[c] \in 1 .. Len(Chain) /\ TriedBy(c) # Len(Chain)
<1>1. at[c] \in 1 .. Len(Chain) /\ pc[c] \notin {"idle", "answered", "failed"}
  BY DEF ForwarderInv, CallsOK, Placed, Waiting
<1> QED BY <1>1, ChainFacts DEF OutcomeOf, TriedBy

LEMMA BeginSeen ==
  ASSUME ForwarderInv, NEW c \in Calls, Begin(c)
  PROVE  Contract!Begin(c)
<1>1. PICK p \in {"failed", "trying"} :
            pc' = [pc EXCEPT ![c] = p] /\ (p = "failed" => Len(Chain) = 0)
  BY ChainFacts DEF Begin
<1>2. at' = [at EXCEPT ![c] = 1] /\ pc[c] = "idle" /\ at[c] = 1
  BY DEF Begin, ForwarderInv, CallsOK, Placed
<1>3. /\ \A d \in Calls \ {c} : TriedBy(d)' = TriedBy(d) /\ OutcomeOf(d)' = OutcomeOf(d)
      /\ TriedBy(c)' = IF p = "failed" THEN Len(Chain) ELSE 1 - 1
      /\ OutcomeOf(c)' = "begun"
  BY <1>1, <1>2, CallSeen DEF ForwarderInv
<1>4. OutcomeOf(c) = "idle" /\ TriedBy(c) = 0 /\ TriedBy(c)' = 0
  BY <1>1, <1>2, <1>3 DEF OutcomeOf, TriedBy
<1> QED BY <1>3, <1>4 DEF Contract!Begin, TriedBy, OutcomeOf

LEMMA TryNextSeen ==
  ASSUME ForwarderInv, NEW c \in Calls, pc[c] \in Waiting \union {"trying"}, TryNext(c)
  PROVE  Contract!UpstreamFails(c)
<1>1. /\ OutcomeOf(c) = "begun" /\ TriedBy(c) = at[c] - 1
      /\ at[c] \in 1 .. Len(Chain) /\ TriedBy(c) # Len(Chain) /\ Len(Chain) \in Nat
  BY NotFailed, ChainFacts
<1>2. PICK p \in {"trying", "failed"}, a \in {at[c], at[c] + 1} :
            /\ pc' = [pc EXCEPT ![c] = p] /\ at' = [at EXCEPT ![c] = a]
            /\ \/ p = "trying" /\ a = at[c] + 1
               \/ p = "failed" /\ at[c] = Len(Chain)
  <2>1. CASE at[c] < Len(Chain)
    BY <2>1 DEF TryNext
  <2>2. CASE ~ (at[c] < Len(Chain))
    <3>1. pc' = [pc EXCEPT ![c] = "failed"] /\ at' = [at EXCEPT ![c] = at[c]]
      BY <2>2 DEF TryNext, ForwarderInv, TypesOK
    <3>2. at[c] = Len(Chain)
      BY <1>1, <2>2
    <3> QED BY <3>1, <3>2
  <2> QED BY <2>1, <2>2
<1>3. /\ \A d \in Calls \ {c} : TriedBy(d)' = TriedBy(d) /\ OutcomeOf(d)' = OutcomeOf(d)
      /\ TriedBy(c)' = IF p = "failed" THEN Len(Chain) ELSE a - 1
      /\ OutcomeOf(c)' = "begun"
  BY <1>2, CallSeen DEF ForwarderInv
<1>4. TriedBy(c)' = TriedBy(c) + 1
  BY <1>1, <1>2, <1>3
<1> QED BY <1>1, <1>3, <1>4 DEF Contract!UpstreamFails, Contract!Failed, TriedBy, OutcomeOf

LEMMA SucceedSeen ==
  ASSUME ForwarderInv, NEW c \in Calls, pc[c] \in Waiting, NEW about, Succeed(c, about)
  PROVE  Contract!UpstreamAnswers(c)
<1>1. OutcomeOf(c) = "begun" /\ TriedBy(c) = at[c] - 1 /\ TriedBy(c) # Len(Chain)
  BY NotFailed
<1>2. pc' = [pc EXCEPT ![c] = "answered"] /\ at' = [at EXCEPT ![c] = at[c]]
  BY DEF Succeed, ForwarderInv, TypesOK
<1>3. /\ \A d \in Calls \ {c} : TriedBy(d)' = TriedBy(d) /\ OutcomeOf(d)' = OutcomeOf(d)
      /\ TriedBy(c)' = at[c] - 1
      /\ OutcomeOf(c)' = "answered"
  BY <1>2, CallSeen DEF ForwarderInv
<1> QED BY <1>1, <1>3 DEF Contract!UpstreamAnswers, Contract!Failed, TriedBy, OutcomeOf

\* Turning to an upstream, or from its connection to the exchange.
LEMMA WaitUnseen ==
  ASSUME ForwarderInv, NEW c \in Calls, NEW state \in Waiting, Wait(c, state),
         pc[c] \in Waiting \union {"trying"}, at' = at
  PROVE  UNCHANGED Contract!vars
<1>1. OutcomeOf(c) = "begun" /\ TriedBy(c) = at[c] - 1
  BY NotFailed
<1>2. pc' = [pc EXCEPT ![c] = state] /\ at' = [at EXCEPT ![c] = at[c]]
  BY DEF Wait, ForwarderInv, TypesOK
<1>3. /\ \A d \in Calls \ {c} : TriedBy(d)' = TriedBy(d) /\ OutcomeOf(d)' = OutcomeOf(d)
      /\ TriedBy(c)' = at[c] - 1 /\ OutcomeOf(c)' = "begun"
  BY <1>2, CallSeen DEF ForwarderInv, Waiting
<1> QED BY <1>1, <1>3, Unnoticed

LEMMA NextSeen ==
  ForwarderInv /\ [Next]_vars => [Contract!Next]_(Contract!vars)
<1> SUFFICES ASSUME ForwarderInv, [Next]_vars
             PROVE  [Contract!Next]_(Contract!vars)
  OBVIOUS
<1>1. ASSUME NEW c \in Calls, Begin(c) PROVE Contract!Next
  BY <1>1, BeginSeen DEF Contract!Next
<1>2. ASSUME NEW c \in Calls, TimesOut(c) \/ Errs(c) PROVE Contract!Next
  BY <1>2, TryNextSeen DEF Contract!Next, TimesOut, Errs
<1>3. ASSUME NEW c \in Calls, (\E d \in net : UdpReceive(c, d)) \/ TcpReceive(c)
      PROVE  Contract!Next
  <2>1. PICK about : Succeed(c, about)
    BY <1>3 DEF UdpReceive, TcpReceive
  <2>2. pc[c] \in Waiting
    BY <1>3 DEF UdpReceive, TcpReceive, Waiting
  <2> QED BY <2>1, <2>2, SucceedSeen DEF Contract!Next
<1>4. ASSUME NEW c \in Calls, (\E p \in Ports : UdpSend(c, p)) \/ TcpConnect(c) \/ TcpConnected(c)
      PROVE  UNCHANGED Contract!vars
  <2>1. PICK state \in Waiting : Wait(c, state)
    BY <1>4 DEF UdpSend, TcpConnect, TcpConnected, Waiting
  <2>2. pc[c] \in Waiting \union {"trying"} /\ at' = at
    BY <1>4 DEF UdpSend, TcpConnect, TcpConnected, Waiting
  <2> QED BY <2>1, <2>2, WaitUnseen
<1>5. ASSUME UNCHANGED <<pc, at>> PROVE UNCHANGED Contract!vars
  BY <1>5 DEF Contract!vars
<1>6. ASSUME NEW d \in net, UpstreamAnswers(d) \/ Lose(d) PROVE UNCHANGED <<pc, at>>
  BY <1>6 DEF UpstreamAnswers, Lose
<1>7. Tick \/ UNCHANGED vars => UNCHANGED <<pc, at>>
  BY DEF Tick, vars
<1> QED BY <1>1, <1>2, <1>3, <1>4, <1>5, <1>6, <1>7 DEF Next, Proceed, Happens, Finished

\* The chain keeps the contract the query handlers rely on: each upstream is
\* tried at most once and in order, the first to answer ends the call, and the
\* call fails when every one has failed it and only then.
THEOREM ChainKeepsContract == Spec => ImplementsContract
<1>1. Init => Contract!Init
  BY DEF Init, Contract!Init
<1> QED BY <1>1, ForwarderInvariant, NextSeen, PTL DEF Spec, ImplementsContract, Contract!Spec

-----------------------------------------------------------------------------
(* The path: the inductive invariant                                       *)

ThreadsOK ==
    /\ thread \in [Calls -> {"idle", "waiting", "relayed", "dropped"}]
    /\ patience \in [Calls -> 0 .. PhoneWait]
    /\ served \subseteq Calls /\ parsed \subseteq served
    /\ cached = {NameOf[c] : c \in parsed}

\* A thread, the call made for it, its time and the time of the call: while
\* both go on, what one has left is what the other has not used, so that a
\* thread that gave up did so after PhoneWait of the call's time.
Together(t, state, done, rest, used) ==
    /\ t = "idle" => state = "idle"
    /\ state = "idle" => t \in {"idle", "relayed"}
    /\ t = "relayed" => done
    /\ t \in {"idle", "waiting"} => ~ done
    /\ done => state = "answered" \/ (state = "idle" /\ t = "relayed")
    /\ t = "waiting" /\ state # "failed" => used + rest = PhoneWait
    /\ t = "dropped" /\ state # "failed" => used >= PhoneWait

PairsOK ==
    \A c \in Calls : Together(thread[c], pc[c], c \in served, patience[c], elapsed[c])

PathInv == ForwarderInv /\ ThreadsOK /\ PairsOK

-----------------------------------------------------------------------------
(* The steps of the path are steps of the chain, or nothing it sees.       *)

LEMMA PathStepsTheChain == [PathNext]_pathVars => [Next]_vars
<1> SUFFICES ASSUME [PathNext]_pathVars PROVE [Next]_vars
  OBVIOUS
<1>1. ASSUME NEW c \in Calls, Handle(c) PROVE [Next]_vars
  BY <1>1 DEF Handle, Next
<1>2. ASSUME NEW c \in Calls, GivesUp(c) \/ Replies(c) PROVE UNCHANGED vars
  BY <1>2 DEF GivesUp, Replies
<1>3. ASSUME NEW c \in Calls, Forwards(c) PROVE Next
  BY <1>3 DEF Forwards, Next
<1>4. ASSUME NEW d \in net, UpstreamAnswers(d) \/ Lose(d) PROVE Next
  BY <1>4 DEF Next
<1>5. PhoneTick => [Next]_vars
  BY DEF PhoneTick, Next
<1>6. UNCHANGED pathVars => UNCHANGED vars
  BY DEF pathVars
<1> QED BY <1>1, <1>2, <1>3, <1>4, <1>5, <1>6 DEF PathNext, PathFinished

\* What one call does is not seen by another, takes no time and ends at most
\* itself.
LEMMA ForwardMoves ==
  ASSUME ForwarderInv, NEW c \in Calls, Proceed(c) \/ Happens(c), NEW d \in Calls
  PROVE  /\ elapsed' = elapsed
         /\ pc'[d] = pc[d] \/ (pc[d] \in {"trying"} \union Waiting /\ pc'[d] # "idle")
<1>1. PICK next \in States \ {"idle"} : pc' = [pc EXCEPT ![c] = next]
  <2>1. CASE TimesOut(c) \/ Errs(c)
    BY <2>1 DEF TimesOut, Errs, TryNext, States, Ended
  <2>2. CASE (\E p \in Ports : UdpSend(c, p)) \/ TcpConnect(c) \/ TcpConnected(c)
    BY <2>2 DEF UdpSend, TcpConnect, TcpConnected, Wait, States, Waiting
  <2>3. CASE (\E g \in net : UdpReceive(c, g)) \/ TcpReceive(c)
    BY <2>3 DEF UdpReceive, TcpReceive, Succeed, States, Ended
  <2> QED BY <2>1, <2>2, <2>3 DEF Proceed, Happens
<1>2. pc[c] \in {"trying"} \union Waiting /\ elapsed' = elapsed
  <2>1. CASE TimesOut(c) \/ Errs(c)
    BY <2>1 DEF TimesOut, Errs, TryNext
  <2>2. CASE (\E p \in Ports : UdpSend(c, p)) \/ TcpConnect(c) \/ TcpConnected(c)
    BY <2>2 DEF UdpSend, TcpConnect, TcpConnected, Waiting
  <2>3. CASE (\E g \in net : UdpReceive(c, g)) \/ TcpReceive(c)
    BY <2>3 DEF UdpReceive, TcpReceive, Succeed, Waiting
  <2> QED BY <2>1, <2>2, <2>3 DEF Proceed, Happens
<1> QED BY <1>1, <1>2 DEF ForwarderInv, TypesOK

-----------------------------------------------------------------------------
(* Steps                                                                   *)

LEMMA HandleKeeps ==
  ASSUME PathInv, NEW c \in Calls, Handle(c)
  PROVE  ThreadsOK' /\ PairsOK'
<1>1. /\ thread[c] = "idle" /\ pc[c] = "idle" /\ elapsed[c] = 0 /\ c \notin served
      /\ PhoneWait \in Nat
  BY PhoneAssumption
     DEF Handle, PathInv, PairsOK, Together, ForwarderInv, CallsOK, InTime
<1>2. patience' = [patience EXCEPT ![c] = PhoneWait] /\ UNCHANGED <<elapsed, cached, parsed>>
  BY DEF Handle, Begin, vars
<1>3. \A d \in Calls : patience'[d] = IF d = c THEN PhoneWait ELSE patience[d]
  BY <1>2 DEF PathInv, ThreadsOK
<1>4. CASE NameOf[c] \in cached /\ thread' = [thread EXCEPT ![c] = "relayed"]
           /\ served' = served \union {c} /\ UNCHANGED vars
  <2>1. ThreadsOK'
    BY <1>1, <1>2, <1>4 DEF PathInv, ThreadsOK
  <2>2. \A d \in Calls : thread'[d] = IF d = c THEN "relayed" ELSE thread[d]
    BY <1>4 DEF PathInv, ThreadsOK
  <2>3. pc' = pc /\ served' = served \union {c}
    BY <1>4 DEF vars
  <2>4. ASSUME NEW d \in Calls
        PROVE  Together(thread'[d], pc'[d], d \in served', patience'[d], elapsed'[d])
    <3>1. CASE d = c
      BY <1>1, <1>2, <2>2, <2>3, <3>1 DEF Together
    <3>2. CASE d # c
      <4>1. /\ thread'[d] = thread[d] /\ pc'[d] = pc[d] /\ (d \in served' <=> d \in served)
            /\ patience'[d] = patience[d] /\ elapsed'[d] = elapsed[d]
        BY <1>2, <1>3, <2>2, <2>3, <3>2
      <4> QED BY <4>1 DEF PathInv, PairsOK, Together
    <3> QED BY <3>1, <3>2
  <2> QED BY <2>1, <2>4 DEF PairsOK, Together
<1>5. CASE thread' = [thread EXCEPT ![c] = "waiting"] /\ Begin(c) /\ UNCHANGED served
  <2>1. ThreadsOK'
    BY <1>1, <1>2, <1>5 DEF PathInv, ThreadsOK
  <2>2. \A d \in Calls : thread'[d] = IF d = c THEN "waiting" ELSE thread[d]
    BY <1>5 DEF PathInv, ThreadsOK
  <2>3. PICK p \in {"failed", "trying"} : pc' = [pc EXCEPT ![c] = p]
    BY <1>5 DEF Begin
  <2>4. \A d \in Calls : pc'[d] = IF d = c THEN p ELSE pc[d]
    BY <2>3 DEF PathInv, ForwarderInv, TypesOK
  <2>5. ASSUME NEW d \in Calls
        PROVE  Together(thread'[d], pc'[d], d \in served', patience'[d], elapsed'[d])
    <3>1. CASE d = c
      BY <1>1, <1>2, <1>3, <1>5, <2>2, <2>4, <3>1 DEF Together
    <3>2. CASE d # c
      <4>1. /\ thread'[d] = thread[d] /\ pc'[d] = pc[d] /\ served' = served
            /\ patience'[d] = patience[d] /\ elapsed'[d] = elapsed[d]
        BY <1>2, <1>3, <1>5, <2>2, <2>4, <3>2
      <4> QED BY <4>1 DEF PathInv, PairsOK, Together
    <3> QED BY <3>1, <3>2
  <2> QED BY <2>1, <2>5 DEF PairsOK, Together
<1> QED BY <1>4, <1>5 DEF Handle

LEMMA ThreadKeeps ==
  ASSUME PathInv, NEW c \in Calls, GivesUp(c) \/ Replies(c)
  PROVE  ThreadsOK' /\ PairsOK'
<1>1. UNCHANGED vars /\ UNCHANGED patience
  BY DEF GivesUp, Replies
<1>2. PhoneWait \in Nat /\ elapsed[c] \in Nat
  BY PhoneAssumption DEF PathInv, ForwarderInv, TypesOK
<1>3. CASE GivesUp(c)
  <2>1. /\ thread[c] = "waiting" /\ patience[c] = 0 /\ UNCHANGED <<cached, served, parsed>>
        /\ thread' = [thread EXCEPT ![c] = "dropped"]
    BY <1>3 DEF GivesUp
  <2>2. ThreadsOK'
    BY <1>1, <2>1 DEF PathInv, ThreadsOK
  <2>3. \A d \in Calls : thread'[d] = IF d = c THEN "dropped" ELSE thread[d]
    BY <2>1 DEF PathInv, ThreadsOK
  <2>4. PairsOK'
    BY <1>1, <1>2, <2>1, <2>3 DEF PathInv, PairsOK, Together, vars
  <2> QED BY <2>2, <2>4
<1>4. CASE Replies(c)
  <2>1. /\ pc[c] = "answered" /\ c \notin served
        /\ \/ cached' = cached \union {NameOf[c]} /\ parsed' = parsed \union {c}
           \/ UNCHANGED <<cached, parsed>>
        /\ served' = served \union {c}
        /\ thread' = [thread EXCEPT ![c] = IF thread[c] = "waiting" THEN "relayed" ELSE thread[c]]
    BY <1>4 DEF Replies, Stored
  <2>2. ThreadsOK'
    BY <1>1, <2>1 DEF PathInv, ThreadsOK
  <2>3. \A d \in Calls : thread'[d] = IF d = c /\ thread[c] = "waiting" THEN "relayed" ELSE thread[d]
    BY <2>1 DEF PathInv, ThreadsOK
  <2>4. thread[c] \in {"waiting", "dropped"}
    BY <2>1 DEF PathInv, ThreadsOK, PairsOK, Together
  <2>5. PairsOK'
    BY <1>1, <2>1, <2>3, <2>4 DEF PathInv, PairsOK, Together, vars
  <2> QED BY <2>2, <2>5
<1> QED BY <1>3, <1>4

LEMMA ForwardsKeeps ==
  ASSUME PathInv, NEW c \in Calls, Forwards(c)
  PROVE  ThreadsOK' /\ PairsOK'
<1>1. UNCHANGED <<thread, patience, cached, served, parsed>>
  BY DEF Forwards, phoneVars
<1>2. /\ elapsed' = elapsed
      /\ \A d \in Calls :
            pc'[d] = pc[d] \/ (pc[d] \in {"trying"} \union Waiting /\ pc'[d] # "idle")
  BY ForwardMoves DEF Forwards, PathInv
<1>3. ThreadsOK'
  BY <1>1 DEF PathInv, ThreadsOK
<1>4. ASSUME NEW d \in Calls
      PROVE  Together(thread[d], pc'[d], d \in served, patience[d], elapsed[d])
  <2>1. Together(thread[d], pc[d], d \in served, patience[d], elapsed[d])
    BY DEF PathInv, PairsOK
  <2> QED BY <1>2, <2>1 DEF Together, Waiting
<1>5. PairsOK'
  BY <1>1, <1>2, <1>4 DEF PairsOK, Together
<1> QED BY <1>3, <1>5

LEMMA PhoneTickKeeps ==
  ASSUME PathInv, PhoneTick
  PROVE  ThreadsOK' /\ PairsOK'
<1>1. /\ \A c \in Calls : /\ thread[c] = "waiting" => patience[c] > 0
                          /\ pc[c] = "answered" => c \in served
      /\ UNCHANGED <<thread, cached, served, parsed, pc>>
  BY DEF PhoneTick, Tick, vars
<1>2. patience' =
        [c \in Calls |-> IF thread[c] = "waiting" THEN patience[c] - 1 ELSE patience[c]]
  BY DEF PhoneTick
<1>3. \/ /\ \A c \in Calls : pc[c] # "trying"
         /\ elapsed' = [c \in Calls |-> IF pc[c] \in Waiting THEN elapsed[c] + 1 ELSE elapsed[c]]
      \/ /\ \A c \in Calls : pc[c] \notin Waiting \union {"trying"}
         /\ elapsed' = elapsed
  BY DEF PhoneTick, Tick, vars
<1>4. PhoneWait \in Nat
  BY PhoneAssumption
<1>5. ThreadsOK'
  <2>1. patience' \in [Calls -> 0 .. PhoneWait]
    BY <1>1, <1>2, <1>4 DEF PathInv, ThreadsOK
  <2> QED BY <1>1, <2>1 DEF PathInv, ThreadsOK
<1>6. ASSUME NEW c \in Calls
      PROVE  Together(thread[c], pc[c], c \in served, patience'[c], elapsed'[c])
  <2>1. Together(thread[c], pc[c], c \in served, patience[c], elapsed[c])
    BY DEF PathInv, PairsOK
  <2>2. elapsed[c] \in Nat /\ patience[c] \in Nat /\ pc[c] \in States
    BY <1>4 DEF PathInv, ForwarderInv, TypesOK, ThreadsOK
  <2>3. elapsed'[c] = IF pc[c] \in Waiting THEN elapsed[c] + 1 ELSE elapsed[c]
    BY <1>3
  <2>4. CASE thread[c] = "waiting" /\ pc[c] # "failed"
    <3>1. pc[c] \in Waiting
      BY <1>1, <1>3, <2>1, <2>2, <2>4 DEF Together, States, Ended
    <3>2. elapsed'[c] = elapsed[c] + 1 /\ patience'[c] = patience[c] - 1
      BY <1>2, <2>3, <2>4, <3>1
    <3> QED BY <1>4, <2>1, <2>2, <2>4, <3>2 DEF Together
  <2>5. CASE thread[c] = "waiting" /\ pc[c] = "failed"
    BY <2>1, <2>5 DEF Together
  <2>6. CASE thread[c] # "waiting"
    BY <1>4, <2>1, <2>2, <2>3, <2>6 DEF Together
  <2> QED BY <2>4, <2>5, <2>6
<1>7. PairsOK'
  BY <1>1, <1>6 DEF PairsOK, Together
<1> QED BY <1>5, <1>7

-----------------------------------------------------------------------------
(* Theorems                                                                *)

LEMMA PathInvInit == PathInit => PathInv
<1> SUFFICES ASSUME PathInit PROVE PathInv
  OBVIOUS
<1>1. ForwarderInv
  BY ForwarderInvInit DEF PathInit
<1>2. ThreadsOK
  BY PhoneAssumption DEF PathInit, ThreadsOK
<1>3. PairsOK
  BY DEF PathInit, Init, PairsOK, Together
<1> QED BY <1>1, <1>2, <1>3 DEF PathInv

LEMMA PathInvNext == PathInv /\ [PathNext]_pathVars => PathInv'
<1> SUFFICES ASSUME PathInv, [PathNext]_pathVars PROVE PathInv'
  OBVIOUS
<1>1. ForwarderInv'
  BY PathStepsTheChain, ForwarderInvNext DEF PathInv
<1>2. ASSUME UNCHANGED <<pc, elapsed, phoneVars>> PROVE ThreadsOK' /\ PairsOK'
  BY <1>2 DEF PathInv, ThreadsOK, PairsOK, Together, phoneVars
<1>3. ASSUME NEW d \in net, UpstreamAnswers(d) \/ Lose(d), UNCHANGED phoneVars
      PROVE  UNCHANGED <<pc, elapsed, phoneVars>>
  BY <1>3 DEF UpstreamAnswers, Lose
<1>4. UNCHANGED pathVars => UNCHANGED <<pc, elapsed, phoneVars>>
  BY DEF pathVars, vars
<1>5. ThreadsOK' /\ PairsOK'
  BY <1>2, <1>3, <1>4, HandleKeeps, ThreadKeeps, ForwardsKeeps, PhoneTickKeeps
     DEF PathNext, PathFinished
<1> QED BY <1>1, <1>5 DEF PathInv

LEMMA PathInvariant == PathSpec => []PathInv
BY PathInvInit, PathInvNext, PTL DEF PathSpec

\* The server of the phone calls the chain as module UpstreamForwarder says, so
\* that what is proved of the chain holds of the path.
THEOREM PathRunsTheChain == PathSpec => Spec
BY PathStepsTheChain, PTL DEF PathSpec, PathInit, Spec

\* On the phone's path too a call keeps to its time, gets its own answer while
\* ports rest, and keeps the contract of ForwardSpec.
COROLLARY PathKeepsTheChain ==
  PathSpec => []EndsOnTime /\ []AnswersAreOwn /\ ImplementsContract
BY PathRunsTheChain, CallsKeepToTheirTime, CallsGetTheirAnswer, ChainKeepsContract, PTL

\* Types; and the cache of the server knows the name of every datagram for which
\* it could parse an answer, whether or not the phone took the reply.
THEOREM PathTypes == PathSpec => []PathTypeOK
<1>1. PathInv => PathTypeOK
  BY ForwarderInvImplies DEF PathInv, ThreadsOK, PathTypeOK
<1> QED BY <1>1, PathInvariant, PTL

\* No answer the chain has before the thread's timeout is dropped on the phone
\* (dns-udp-forwarder.py:21-24).
THEOREM AnswersInTimeGetThrough == PathSpec => []AnswersInTimeAreRelayed
<1>1. PathInv => AnswersInTimeAreRelayed
  <2> SUFFICES ASSUME PathInv, NEW c \in served, elapsed[c] < PhoneWait
               PROVE  thread[c] = "relayed"
    BY DEF AnswersInTimeAreRelayed
  <2> QED BY PhoneAssumption
       DEF PathInv, ForwarderInv, TypesOK, ThreadsOK, PairsOK, Together
<1> QED BY <1>1, PathInvariant, PTL

\* A client that asks again once any earlier query for the name has had an
\* answer that can be parsed, heard or not, is answered at once
\* (main.rs:389-393, 267).
THEOREM RetriesGetAnswers == PathSpec => RetriesAreAnswered
<1> DEFINE Retry == \A c \in Calls :
                      /\ thread[c] = "idle" /\ thread'[c] # "idle"
                      /\ \E d \in parsed : NameOf[d] = NameOf[c]
                      => thread'[c] = "relayed"
<1>1. PathInv /\ [PathNext]_pathVars => Retry
  <2> SUFFICES ASSUME PathInv, [PathNext]_pathVars, NEW c \in Calls,
                      thread[c] = "idle", thread'[c] # "idle",
                      NEW d \in parsed, NameOf[d] = NameOf[c]
               PROVE  thread'[c] = "relayed"
    OBVIOUS
  <2>1. NameOf[c] \in cached
    BY DEF PathInv, ThreadsOK
  <2>2. ASSUME NEW e \in Calls, Handle(e) PROVE thread'[c] = "relayed"
    BY <2>1, <2>2 DEF Handle, PathInv, ThreadsOK
  <2>3. ASSUME NEW e \in Calls, GivesUp(e) \/ Replies(e) PROVE thread'[c] = thread[c]
    <3>1. thread[e] # "idle"
      BY <2>3 DEF GivesUp, Replies, PathInv, PairsOK, Together
    <3>2. e # c
      BY <3>1
    <3> QED BY <2>3, <3>2 DEF GivesUp, Replies, PathInv, ThreadsOK
  <2>4. ~ UNCHANGED phoneVars /\ ~ UNCHANGED pathVars /\ ~ PhoneTick
    BY DEF phoneVars, pathVars, PhoneTick
  <2> QED BY <2>2, <2>3, <2>4 DEF PathNext, PathFinished, Forwards
<1>2. PathInv /\ [PathNext]_pathVars => [Retry]_pathVars
  BY <1>1
<1> QED BY <1>2, PathInvariant, PTL DEF PathSpec, RetriesAreAnswered
=============================================================================
