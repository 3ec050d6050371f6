------------------------ MODULE ServerStartupProofs ------------------------
(***************************************************************************)
(* What a start of the server comes to, for every file, environment, disk  *)
(* and set of sockets that are refused.                                    *)
(***************************************************************************)
EXTENDS ServerStartup, DomainFilterProofs, FiniteSetTheorems

-----------------------------------------------------------------------------
(* Configurations                                                          *)

\* What the rest of the server relies on.
Sound(c) ==
    /\ c.cache_capacity > 0
    /\ c.min_ttl_secs <= c.max_ttl_secs
    /\ c.tls_enabled => c.tls_cert_path # None /\ c.tls_key_path # None

Listed(c) ==
    /\ DOMAIN c = DOMAIN Default
    /\ Sequential(c.blocklist_paths) /\ Sequential(c.allowlist_paths)
    /\ Sequential(c.upstreams)

LEMMA DefaultIsSound == Sound(Default) /\ Listed(Default)
<1>1. Sequential(<<>>)
  BY DEF Sequential
<1> QED BY <1>1 DEF Sound, Listed, Default, None

\* What a file comes to before the environment.
LEMMA CompletedIs ==
  ASSUME NEW s \in Scenarios
  PROVE  LET c == Completed(s.file)
         IN  /\ c = [f \in DOMAIN Default |-> c[f]]
             /\ c.cache_capacity \in Nat
             /\ Sequential(c.blocklist_paths) /\ Sequential(c.allowlist_paths)
             /\ Sequential(c.upstreams)
<1> DEFINE c == Completed(s.file)
           given == s.file.given
<1>1. c = [f \in DOMAIN Default |-> IF f \in DOMAIN given THEN given[f] ELSE Default[f]]
  BY DEF Completed
<1>2. /\ \A f \in {"blocklist_paths", "allowlist_paths", "upstreams"} \intersect DOMAIN given :
            Sequential(given[f])
      /\ "cache_capacity" \in DOMAIN given => given["cache_capacity"] \in Nat
  BY ScenariosAssumption
<1>3. {"cache_capacity", "blocklist_paths", "allowlist_paths", "upstreams"} \subseteq DOMAIN Default
  BY DEF Default
<1>4. /\ Default["cache_capacity"] \in Nat /\ Sequential(Default["blocklist_paths"])
      /\ Sequential(Default["allowlist_paths"]) /\ Sequential(Default["upstreams"])
  BY DEF Default, Sequential
<1> HIDE DEF given
<1>5. c["cache_capacity"] \in Nat
  BY <1>1, <1>2, <1>3, <1>4
<1>6. \A f \in {"blocklist_paths", "allowlist_paths", "upstreams"} : Sequential(c[f])
  BY <1>1, <1>2, <1>3, <1>4
<1>7. c = [f \in DOMAIN Default |-> c[f]]
  BY <1>1
<1> HIDE DEF c
<1> QED BY <1>5, <1>6, <1>7 DEF c

\* What the environment adds.
LEMMA OverriddenIs ==
  ASSUME NEW s \in Scenarios
  PROVE  LET c == Completed(s.file)
             d == ApplyTlsEnvOverrides(c, s.env)
         IN  /\ Listed(d)
             /\ d.cache_capacity = c.cache_capacity
             /\ "TLS_CERT_PATH" \in DOMAIN s.env => d.tls_cert_path # None
             /\ "TLS_KEY_PATH" \in DOMAIN s.env => d.tls_key_path # None
<1> DEFINE c == Completed(s.file)
           d == ApplyTlsEnvOverrides(c, s.env)
           cert == Variable(s.env, "TLS_CERT_PATH", Variable(s.env, "TLS_CERT", c.tls_cert_path))
           key == Variable(s.env, "TLS_KEY_PATH", Variable(s.env, "TLS_KEY", c.tls_key_path))
           ups == Variable(s.env, "VANTA_DNS_UPSTREAMS", c.upstreams)
           ready == cert # None /\ key # None
           plain == c.tcp_enabled \/ (ready /\ ~ c.tls_enabled)
           secure == c.tls_enabled \/ ready
<1>1. /\ c = [f \in DOMAIN Default |-> c[f]]
      /\ Sequential(c.blocklist_paths) /\ Sequential(c.allowlist_paths)
      /\ Sequential(c.upstreams)
  BY CompletedIs
<1>2. d = [c EXCEPT !.tls_cert_path = cert, !.tls_key_path = key, !.upstreams = ups,
                    !.tcp_enabled = plain, !.tls_enabled = secure]
  BY DEF ApplyTlsEnvOverrides
<1>3. {"tls_cert_path", "tls_key_path", "upstreams", "tcp_enabled", "tls_enabled",
       "cache_capacity", "blocklist_paths", "allowlist_paths"} \subseteq DOMAIN Default
  BY DEF Default
<1>4. Sequential(ups)
  BY <1>1, ScenariosAssumption DEF Variable
<1>5. /\ "TLS_CERT_PATH" \in DOMAIN s.env => cert # None
      /\ "TLS_KEY_PATH" \in DOMAIN s.env => key # None
  BY ScenariosAssumption DEF Variable
<1> HIDE DEF c, cert, key, ups, plain, secure
<1>6. /\ DOMAIN d = DOMAIN Default /\ d.tls_cert_path = cert /\ d.tls_key_path = key
      /\ d.upstreams = ups /\ d.cache_capacity = c.cache_capacity
      /\ d.blocklist_paths = c.blocklist_paths /\ d.allowlist_paths = c.allowlist_paths
  BY <1>1, <1>2, <1>3
<1> HIDE DEF d
<1> QED BY <1>1, <1>4, <1>5, <1>6 DEF Listed, d, c

\* What the server runs with is sound, whatever it is given.
LEMMA LoadIsSound ==
  ASSUME NEW s \in Scenarios
  PROVE  Sound(Load(s.file, s.env)) /\ Listed(Load(s.file, s.env))
<1> DEFINE c == Completed(s.file)
           d == ApplyTlsEnvOverrides(c, s.env)
<1>1. /\ c.cache_capacity \in Nat /\ Listed(d) /\ d.cache_capacity = c.cache_capacity
      /\ "TLS_CERT_PATH" \in DOMAIN s.env => d.tls_cert_path # None
      /\ "TLS_KEY_PATH" \in DOMAIN s.env => d.tls_key_path # None
  BY CompletedIs, OverriddenIs
<1>2. Load(s.file, s.env) = IF Parses(s.file) /\ Validate(d, s.env) THEN d ELSE Default
  BY DEF Load
<1> HIDE DEF d, c
<1>3. Validate(d, s.env) => Sound(d)
  BY <1>1 DEF Validate, Sound
<1> QED BY <1>1, <1>2, <1>3, DefaultIsSound

\* t has the elements of s at the places of a set, each once and in order.
Takes(t, s, places) ==
    LET all == 1 .. Cardinality(places)
    IN  /\ DOMAIN t = all
        /\ \E from \in [all -> places] :
              /\ \A n \in all : t[n] = s[from[n]]
              /\ \A i \in places : \E n \in all : from[n] = i
              /\ \A n, o \in all : n < o => from[n] < from[o]

LEMMA KeptIs ==
  ASSUME NEW m \in Nat, NEW places \in SUBSET (1 .. m), NEW s
  PROVE  Takes(Kept(s, places), s, places)
<1> DEFINE size == Cardinality(places)
           upto(i) == {j \in places : j <= i}
           rank == [i \in places |-> Cardinality(upto(i))]
           from == [n \in 1 .. size |-> CHOOSE i \in places : Cardinality(upto(i)) = n]
<1>0. places \subseteq Int
  OBVIOUS
<1>1. IsFiniteSet(places) /\ size \in Nat
  <2>1. IsFiniteSet(1 .. m)
    BY FS_Interval
  <2> QED BY <2>1, FS_Subset, FS_CardinalityType
<1>2. ASSUME NEW i \in places
      PROVE  IsFiniteSet(upto(i)) /\ Cardinality(upto(i)) \in 1 .. size
  <2>1. upto(i) \in SUBSET places
    OBVIOUS
  <2>2. IsFiniteSet(upto(i)) /\ Cardinality(upto(i)) <= size
    BY <1>1, <2>1, FS_Subset
  <2>3. i \in upto(i)
    OBVIOUS
  <2>4. Cardinality(upto(i)) # 0 /\ Cardinality(upto(i)) \in Nat
    BY <2>2, <2>3, FS_EmptySet, FS_CardinalityType
  <2> QED BY <1>1, <2>2, <2>4
<1>3. ASSUME NEW i \in places, NEW h \in places, i < h
      PROVE  Cardinality(upto(i)) < Cardinality(upto(h))
  <2>1. upto(i) \in SUBSET upto(h)
    <3>1. ASSUME NEW j \in places, j <= i PROVE j <= h
      <4>1. j \in Int /\ i \in Int /\ h \in Int
        BY <1>0
      <4> QED BY <1>3, <3>1, <4>1
    <3> QED BY <3>1
  <2>2. h \in upto(h) /\ h \notin upto(i)
    BY <1>0, <1>3
  <2>3. upto(h) # upto(i)
    BY <2>2
  <2>4. IsFiniteSet(upto(h))
    BY <1>2
  <2> HIDE DEF upto
  <2>5. /\ Cardinality(upto(i)) <= Cardinality(upto(h))
        /\ Cardinality(upto(h)) = Cardinality(upto(i)) => upto(h) = upto(i)
    BY <2>1, <2>4, FS_Subset
  <2>6. Cardinality(upto(i)) \in Int /\ Cardinality(upto(h)) \in Int
    BY <1>2
  <2> QED BY <2>3, <2>5, <2>6
<1> HIDE DEF upto
<1>4. rank \in Injection(places, 1 .. size)
  <2>1. rank \in [places -> 1 .. size]
    BY <1>2
  <2>2. ASSUME NEW i \in places, NEW h \in places, rank[i] = rank[h] PROVE i = h
    BY <1>2, <1>3, <2>2
  <2> HIDE DEF rank
  <2> QED BY <2>1, <2>2 DEF Injection, IsInjective
<1>5. IsFiniteSet(1 .. size) /\ Cardinality(1 .. size) = size
  BY <1>1, FS_Interval
<1>6. \A n \in 1 .. size : \E i \in places : Cardinality(upto(i)) = n
  <2>1. rank \in Surjection(places, 1 .. size)
    <3> HIDE DEF rank
    <3> QED BY <1>4, <1>5, FS_Injection
  <2> QED BY <2>1 DEF Surjection
<1>7. from \in [1 .. size -> places] /\ \A n \in 1 .. size : Cardinality(upto(from[n])) = n
  BY <1>6
<1>8. Kept(s, places) = [n \in 1 .. size |-> s[from[n]]]
  BY DEF Kept, upto
<1> HIDE DEF from, size
<1>9. \A i \in places : \E n \in 1 .. size : from[n] = i
  <2> TAKE i \in places
  <2> DEFINE n == Cardinality(upto(i))
  <2>1. n \in 1 .. size /\ from[n] \in places /\ Cardinality(upto(from[n])) = n
    BY <1>2, <1>7
  <2>2. \A h \in places : h < i \/ i < h => Cardinality(upto(h)) # n
    BY <1>2, <1>3
  <2>3. i \in Int /\ from[n] \in Int
    BY <1>0, <2>1
  <2>4. ~ (from[n] < i) /\ ~ (i < from[n])
    BY <2>1, <2>2
  <2>5. from[n] = i
    BY <2>3, <2>4
  <2> QED BY <2>1, <2>5
<1>10. ASSUME NEW n \in 1 .. size, NEW o \in 1 .. size, n < o PROVE from[n] < from[o]
  <2>1. from[n] \in places /\ from[o] \in places
        /\ Cardinality(upto(from[n])) = n /\ Cardinality(upto(from[o])) = o
    BY <1>7
  <2>2. from[n] \in Int /\ from[o] \in Int
    BY <1>0, <2>1
  <2>3. from[o] < from[n] => o < n
    BY <1>3, <2>1
  <2>4. n \in Int /\ o \in Int
    BY <1>1
  <2>5. from[n] # from[o] /\ ~ (from[o] < from[n])
    BY <1>10, <2>1, <2>3, <2>4
  <2> QED BY <2>2, <2>5
<1>11. DOMAIN Kept(s, places) = 1 .. size /\ \A n \in 1 .. size : Kept(s, places)[n] = s[from[n]]
  BY <1>8
<1> QED BY <1>7, <1>9, <1>10, <1>11 DEF size, Takes

-----------------------------------------------------------------------------
(* Lists that are to be read                                               *)

Resolved(s, path) ==
    IF path[1] = "$HOME" THEN <<Variable(s.env, "HOME", "/tmp"), path[2]>> ELSE path

\* The lines of a list that can be read.
Content(s, path) ==
    IF Resolved(s, path) \in DOMAIN s.disk THEN s.disk[Resolved(s, path)] ELSE {}

\* The lines of all lists of a configuration, and of those of a kind that have
\* not been read yet.
AllOf(s, paths) == UNION {Content(s, paths[i]) : i \in DOMAIN paths}
Pending(s, lists, kind) ==
    UNION {Content(s, lists[i][2]) : i \in {j \in DOMAIN lists : lists[j][1] = kind}}

Kinds == {"block", "allow"}

\* The lists of a configuration, as LoadConfig puts them into todo.
ListsOf(c) ==
    [i \in DOMAIN c.blocklist_paths |-> <<"block", c.blocklist_paths[i]>>]
    \o [i \in DOMAIN c.allowlist_paths |-> <<"allow", c.allowlist_paths[i]>>]

PathsOf(c) == ToSet(c.blocklist_paths) \union ToSet(c.allowlist_paths)

LEMMA ListsOfIs ==
  ASSUME NEW c, Listed(c), NEW s
  PROVE  /\ ListsOf(c) \in Seq(Kinds \X PathsOf(c))
         /\ Pending(s, ListsOf(c), "block") = AllOf(s, c.blocklist_paths)
         /\ Pending(s, ListsOf(c), "allow") = AllOf(s, c.allowlist_paths)
<1> DEFINE b == c.blocklist_paths
           a == c.allowlist_paths
           x == [i \in DOMAIN b |-> <<"block", b[i]>>]
           y == [i \in DOMAIN a |-> <<"allow", a[i]>>]
           P == Kinds \X PathsOf(c)
           f == ListsOf(c)
<1>1. /\ b \in Seq(ToSet(b)) /\ Len(b) \in Nat /\ DOMAIN b = 1 .. Len(b)
      /\ a \in Seq(ToSet(a)) /\ Len(a) \in Nat /\ DOMAIN a = 1 .. Len(a)
  BY LenProperties DEF Listed, Sequential
<1>2. /\ \A i \in DOMAIN b : b[i] \in PathsOf(c)
      /\ \A i \in DOMAIN a : a[i] \in PathsOf(c)
  BY DEF PathsOf, ToSet
<1>3. x \in Seq(P) /\ y \in Seq(P) /\ Len(x) = Len(b) /\ Len(y) = Len(a)
  <2>1. \A i \in 1 .. Len(b) : <<"block", b[i]>> \in P
    BY <1>1, <1>2 DEF Kinds
  <2>2. \A i \in 1 .. Len(a) : <<"allow", a[i]>> \in P
    BY <1>1, <1>2 DEF Kinds
  <2> QED BY <1>1, <2>1, <2>2
<1>4. f = x \o y
  BY DEF ListsOf
<1>5. \A i \in DOMAIN x : x[i][1] = "block" /\ x[i][2] = b[i]
  OBVIOUS
<1>6. \A i \in DOMAIN y : y[i][1] = "allow" /\ y[i][2] = a[i]
  OBVIOUS
<1> HIDE DEF x, y, P, f, a, b
<1>7. /\ f \in Seq(P) /\ Len(f) = Len(b) + Len(a) /\ DOMAIN f = 1 .. Len(b) + Len(a)
      /\ \A i \in 1 .. Len(b) : f[i] = x[i]
      /\ \A i \in 1 .. Len(a) : f[Len(b) + i] = y[i]
      /\ DOMAIN x = 1 .. Len(b) /\ DOMAIN y = 1 .. Len(a)
  <2>1. DOMAIN x = 1 .. Len(b) /\ DOMAIN y = 1 .. Len(a)
    BY <1>3, LenProperties
  <2>2. /\ x \o y \in Seq(P) /\ Len(x \o y) = Len(x) + Len(y)
        /\ \A i \in 1 .. Len(x) + Len(y) :
              (x \o y)[i] = IF i <= Len(x) THEN x[i] ELSE y[i - Len(x)]
    BY <1>3, ConcatProperties
  <2>3. f \in Seq(P) /\ Len(f) = Len(b) + Len(a) /\ DOMAIN f = 1 .. Len(b) + Len(a)
    BY <1>3, <1>4, <2>2, LenProperties
  <2>4. ASSUME NEW i \in 1 .. Len(b) PROVE f[i] = x[i]
    BY <1>1, <1>3, <1>4, <2>2
  <2>5. ASSUME NEW i \in 1 .. Len(a) PROVE f[Len(b) + i] = y[i]
    <3>1. Len(b) + i \in 1 .. Len(b) + Len(a) /\ ~ (Len(b) + i <= Len(b)) /\ (Len(b) + i) - Len(b) = i
      BY <1>1
    <3> QED BY <1>3, <1>4, <2>2, <3>1
  <2> QED BY <2>1, <2>3, <2>4, <2>5
<1>8. /\ \A i \in 1 .. Len(b) : f[i][1] = "block" /\ f[i][2] = b[i]
      /\ \A i \in 1 .. Len(a) : f[Len(b) + i][1] = "allow" /\ f[Len(b) + i][2] = a[i]
  <2>1. ASSUME NEW i \in 1 .. Len(b) PROVE f[i][1] = "block" /\ f[i][2] = b[i]
    <3>1. i \in DOMAIN x /\ f[i] = x[i]
      BY <1>7
    <3> QED BY <1>5, <3>1
  <2>2. ASSUME NEW i \in 1 .. Len(a)
        PROVE  f[Len(b) + i][1] = "allow" /\ f[Len(b) + i][2] = a[i]
    <3>1. i \in DOMAIN y /\ f[Len(b) + i] = y[i]
      BY <1>7
    <3> QED BY <1>6, <3>1
  <2> QED BY <2>1, <2>2
<1>9. \A i \in DOMAIN f : i \in 1 .. Len(b) \/ \E j \in 1 .. Len(a) : i = Len(b) + j
  <2> SUFFICES ASSUME NEW i \in DOMAIN f, i \notin 1 .. Len(b)
               PROVE  \E j \in 1 .. Len(a) : i = Len(b) + j
    OBVIOUS
  <2>1. i - Len(b) \in 1 .. Len(a) /\ i = Len(b) + (i - Len(b))
    BY <1>1, <1>7
  <2> QED BY <2>1
<1>10. /\ \A i \in 1 .. Len(b) : i \in DOMAIN f
       /\ \A i \in 1 .. Len(a) : Len(b) + i \in DOMAIN f
  BY <1>1, <1>7
<1>11. Pending(s, f, "block") = AllOf(s, b)
  <2>1. ASSUME NEW i \in DOMAIN f, f[i][1] = "block"
        PROVE  i \in DOMAIN b /\ f[i][2] = b[i]
    BY <1>1, <1>8, <1>9, <2>1
  <2>2. ASSUME NEW i \in DOMAIN b
        PROVE  i \in DOMAIN f /\ f[i][1] = "block" /\ f[i][2] = b[i]
    BY <1>1, <1>8, <1>10
  <2> QED BY <2>1, <2>2 DEF Pending, AllOf
<1>12. Pending(s, f, "allow") = AllOf(s, a)
  <2>1. ASSUME NEW i \in DOMAIN f, f[i][1] = "allow"
        PROVE  \E j \in DOMAIN a : f[i][2] = a[j]
    BY <1>1, <1>8, <1>9, <2>1
  <2>2. ASSUME NEW j \in DOMAIN a
        PROVE  \E i \in DOMAIN f : f[i][1] = "allow" /\ f[i][2] = a[j]
    BY <1>1, <1>8, <1>10
  <2> QED BY <2>1, <2>2 DEF Pending, AllOf
<1> QED BY <1>7, <1>11, <1>12 DEF f, P, a, b

\* Of a kind, what is pending is what the first list has and what is left then.
FirstAndRest(s, lists, kind) ==
    Pending(s, lists, kind) =
       Pending(s, Tail(lists), kind)
       \union (IF Head(lists)[1] = kind THEN Content(s, Head(lists)[2]) ELSE {})

LEMMA PendingTail ==
  ASSUME NEW S, NEW lists \in Seq(Kinds \X S), lists # <<>>, NEW s
  PROVE  /\ Tail(lists) \in Seq(Kinds \X S) /\ Head(lists) \in Kinds \X S
         /\ \A kind \in Kinds : FirstAndRest(s, lists, kind)
<1> DEFINE t == Tail(lists)
<1>1. /\ t \in Seq(Kinds \X S) /\ Head(lists) \in Kinds \X S /\ Len(t) = Len(lists) - 1
      /\ \A i \in 1 .. Len(t) : t[i] = lists[i + 1]
      /\ Len(lists) \in Nat /\ Len(lists) # 0 /\ Head(lists) = lists[1]
      /\ DOMAIN lists = 1 .. Len(lists) /\ DOMAIN t = 1 .. Len(t)
  BY HeadTailProperties, EmptySeq, LenProperties
<1> HIDE DEF t
<1>2. ASSUME NEW i \in DOMAIN lists
      PROVE  i = 1 \/ (i - 1 \in DOMAIN t /\ t[i - 1] = lists[i])
  <2>1. i # 1 => i - 1 \in 1 .. Len(t) /\ (i - 1) + 1 = i
    BY <1>1
  <2> QED BY <1>1, <2>1
<1>3. ASSUME NEW i \in DOMAIN t
      PROVE  i + 1 \in DOMAIN lists /\ lists[i + 1] = t[i]
  BY <1>1
<1>4. 1 \in DOMAIN lists
  BY <1>1
<1>5. ASSUME NEW kind \in Kinds
      PROVE  FirstAndRest(s, lists, kind)
  <2>1. Pending(s, lists, kind) =
          Pending(s, t, kind) \union (IF lists[1][1] = kind THEN Content(s, lists[1][2]) ELSE {})
    BY <1>2, <1>3, <1>4 DEF Pending
  <2> QED BY <1>1, <2>1 DEF FirstAndRest, t
<1> QED BY <1>1, <1>5 DEF t

\* The lines of the lists that can be read.
LEMMA AllOfIs ==
  ASSUME NEW paths
  PROVE  UNION {scenario.disk[p] : p \in ReadableLists(paths)} = AllOf(scenario, paths)
<1>1. \A path : ResolvePath(path) = Resolved(scenario, path)
  BY DEF ResolvePath, Resolved
<1> QED BY <1>1 DEF ReadableLists, AllOf, Content

-----------------------------------------------------------------------------
(* The inductive invariant                                                 *)

Stages == {"config", "lists", "udp", "tcp", "acceptor", "online", "running", "ended"}

ConfigOK ==
    /\ Sound(config) /\ Listed(config)
    /\ config = IF stage = "config" THEN Default ELSE Load(scenario.file, scenario.env)

\* What has been read and what is still to be read are all the lists there are.
ListsOK ==
    /\ todo \in Seq(Kinds \X PathsOf(config))
    /\ stage = "config" => todo = <<>> /\ read.block = {} /\ read.allow = {}
    /\ stage # "config" =>
          /\ read.block \union Pending(scenario, todo, "block")
                = AllOf(scenario, config.blocklist_paths)
          /\ read.allow \union Pending(scenario, todo, "allow")
                = AllOf(scenario, config.allowlist_paths)
    /\ stage \notin {"config", "lists"} => todo = <<>>

ChainOK ==
    IF stage \in {"config", "lists"} THEN chain = <<>> ELSE chain = ResolveUpstreams(config)

\* The sockets that a start has when it is about to bind the next.
UdpBound == {UdpSocket}
TcpBound == UdpBound \union (IF config.tcp_enabled THEN {TcpSocket} ELSE {})

\* Each stage has the sockets of those before it, none of which was refused; and
\* a start that ends had a reason.
SocketsOK ==
    /\ stage \in Stages
    /\ stage \in {"config", "lists", "udp", "ended"} => listening = {}
    /\ stage = "tcp" => listening = UdpBound
    /\ stage \in {"acceptor", "online"} => listening = TcpBound
    /\ stage = "running" => listening = Wanted
    /\ stage \in {"online", "running"} => (config.tls_enabled => PairAccepted)
    /\ stage = "ended" =>
          \/ Wanted \intersect scenario.refused # {}
          \/ config.tls_enabled /\ ~ PairAccepted
          \/ config.tls_enabled /\ config.tcp_enabled /\ TlsSocket = TcpSocket

StartupInv ==
    /\ scenario \in Scenarios
    /\ FilterInv /\ ConfigOK /\ ListsOK /\ ChainOK /\ SocketsOK

-----------------------------------------------------------------------------
(* Steps                                                                   *)

LEMMA StartupInvInit == Init => StartupInv
<1> SUFFICES ASSUME Init PROVE StartupInv
  OBVIOUS
<1>1. FilterInv /\ read.block = {} /\ read.allow = {}
  BY FilterInvInit DEF Init, FilterInit
<1>2. ConfigOK /\ scenario \in Scenarios
  BY DefaultIsSound DEF Init, ConfigOK
<1>3. ListsOK
  BY <1>1 DEF Init, ListsOK
<1>4. ChainOK /\ SocketsOK
  BY DEF Init, ChainOK, SocketsOK, Stages
<1> QED BY <1>1, <1>2, <1>3, <1>4 DEF StartupInv

LEMMA LoadConfigKeeps ==
  ASSUME StartupInv, LoadConfig
  PROVE  StartupInv'
<1>1. /\ stage = "config" /\ stage' = "lists" /\ config' = Load(scenario.file, scenario.env)
      /\ UNCHANGED <<filterVars, scenario, chain, listening>>
  BY DEF LoadConfig
<1>2. todo' = ListsOf(config')
  BY DEF LoadConfig, ListsOf
<1>3. Sound(config') /\ Listed(config')
  BY <1>1, LoadIsSound DEF StartupInv
<1>4. ConfigOK'
  BY <1>1, <1>3 DEF ConfigOK
<1>5. /\ todo' \in Seq(Kinds \X PathsOf(config'))
      /\ Pending(scenario, todo', "block") = AllOf(scenario, config'.blocklist_paths)
      /\ Pending(scenario, todo', "allow") = AllOf(scenario, config'.allowlist_paths)
  BY <1>2, <1>3, ListsOfIs
<1>6. read' = read /\ read.block = {} /\ read.allow = {}
  BY <1>1 DEF StartupInv, ListsOK, filterVars
<1>7. ListsOK'
  BY <1>1, <1>5, <1>6 DEF ListsOK
<1>8. FilterInv'
  BY <1>1, FilterInvNext DEF StartupInv
<1>9. ChainOK' /\ SocketsOK'
  BY <1>1 DEF StartupInv, ChainOK, SocketsOK, Stages
<1> QED BY <1>1, <1>4, <1>7, <1>8, <1>9 DEF StartupInv

LEMMA ReadListKeeps ==
  ASSUME StartupInv, ReadList
  PROVE  StartupInv' /\ [FilterNext]_filterVars
<1> DEFINE path == Head(todo)[2]
           lines == Content(scenario, path)
<1>1. /\ stage = "lists" /\ todo # <<>> /\ todo' = Tail(todo)
      /\ UNCHANGED <<scenario, stage, config, chain, listening>>
  BY DEF ReadList, Left
<1>2. \/ Head(todo)[1] = "block" /\ lines \in SUBSET Lines /\ LoadBlocklistContent(lines)
      \/ Head(todo)[1] = "allow" /\ lines \in SUBSET Lines /\ LoadAllowlistContent(lines)
      \/ lines = {} /\ UNCHANGED filterVars
  <2>1. ResolvePath(path) = Resolved(scenario, path)
    BY DEF ResolvePath, Resolved
  <2>2. Resolved(scenario, path) \in DOMAIN scenario.disk =>
           lines = scenario.disk[Resolved(scenario, path)] /\ lines \in SUBSET Lines
    BY ScenariosAssumption DEF StartupInv, Content
  <2>3. Resolved(scenario, path) \notin DOMAIN scenario.disk => lines = {}
    BY DEF Content
  <2> HIDE DEF lines
  <2> QED BY <2>1, <2>2, <2>3 DEF ReadList
<1>3. todo \in Seq(Kinds \X PathsOf(config))
  BY DEF StartupInv, ListsOK
<1>4. Head(todo)[1] \in Kinds
  BY <1>1, <1>3, PendingTail
<1>5. /\ todo' \in Seq(Kinds \X PathsOf(config))
      /\ \A kind \in Kinds :
            Pending(scenario, todo, kind) =
               Pending(scenario, todo', kind)
               \union (IF Head(todo)[1] = kind THEN lines ELSE {})
  <2>1. todo' \in Seq(Kinds \X PathsOf(config))
    BY <1>1, <1>3, PendingTail
  <2>2. ASSUME NEW kind \in Kinds
        PROVE  Pending(scenario, todo, kind) =
                  Pending(scenario, Tail(todo), kind)
                  \union (IF Head(todo)[1] = kind THEN lines ELSE {})
    <3>1. FirstAndRest(scenario, todo, kind)
      BY <1>1, <1>3, PendingTail
    <3> QED BY <3>1, Zenon DEF FirstAndRest
  <2> HIDE DEF lines, path
  <2> QED BY <1>1, <2>1, <2>2
<1> HIDE DEF lines, path
<1>6. [FilterNext]_filterVars
  BY <1>2 DEF FilterNext
<1>7. FilterInv'
  BY <1>6, FilterInvNext DEF StartupInv
<1>8. /\ read'.block = read.block \union (IF Head(todo)[1] = "block" THEN lines ELSE {})
      /\ read'.allow = read.allow \union (IF Head(todo)[1] = "allow" THEN lines ELSE {})
  <2>1. read \in [block : SUBSET Lines, allow : SUBSET Lines]
    BY DEF StartupInv, FilterInv
  <2>2. CASE Head(todo)[1] = "block" /\ LoadBlocklistContent(lines)
    BY <2>1, <2>2 DEF LoadBlocklistContent
  <2>3. CASE Head(todo)[1] = "allow" /\ LoadAllowlistContent(lines)
    BY <2>1, <2>3 DEF LoadAllowlistContent
  <2>4. CASE lines = {} /\ UNCHANGED filterVars
    BY <2>4 DEF filterVars
  <2> QED BY <1>2, <2>2, <2>3, <2>4
<1>9. ListsOK'
  <2>1. /\ read.block \union Pending(scenario, todo, "block")
             = AllOf(scenario, config.blocklist_paths)
        /\ read.allow \union Pending(scenario, todo, "allow")
             = AllOf(scenario, config.allowlist_paths)
    BY <1>1 DEF StartupInv, ListsOK
  <2>2. /\ Pending(scenario, todo, "block") = Pending(scenario, todo', "block")
             \union (IF Head(todo)[1] = "block" THEN lines ELSE {})
        /\ Pending(scenario, todo, "allow") = Pending(scenario, todo', "allow")
             \union (IF Head(todo)[1] = "allow" THEN lines ELSE {})
    BY <1>5 DEF Kinds
  <2>3. /\ read'.block \union Pending(scenario, todo', "block")
             = AllOf(scenario, config.blocklist_paths)
        /\ read'.allow \union Pending(scenario, todo', "allow")
             = AllOf(scenario, config.allowlist_paths)
    BY <1>8, <2>1, <2>2
  <2> QED BY <1>1, <1>5, <2>3 DEF ListsOK
<1>10. ConfigOK' /\ ChainOK' /\ SocketsOK'
  BY <1>1 DEF StartupInv, ConfigOK, ChainOK, SocketsOK
<1> QED BY <1>1, <1>6, <1>7, <1>9, <1>10 DEF StartupInv

\* From Share on nothing is read and nothing changes in the configuration.
LEMMA LaterKeeps ==
  ASSUME StartupInv, UNCHANGED <<filterVars, scenario, config, todo>>,
         stage \notin {"config", "lists"} \/ todo = <<>>, stage # "config",
         stage' \notin {"config", "lists"}
  PROVE  FilterInv' /\ ConfigOK' /\ ListsOK' /\ scenario' \in Scenarios
<1>1. read' = read
  BY DEF filterVars
<1>2. FilterInv'
  BY FilterInvNext DEF StartupInv
<1> QED BY <1>1, <1>2 DEF StartupInv, ConfigOK, ListsOK

LEMMA ShareKeeps ==
  ASSUME StartupInv, Share
  PROVE  StartupInv'
<1>1. /\ stage = "lists" /\ todo = <<>> /\ stage' = "udp" /\ chain' = ResolveUpstreams(config)
      /\ UNCHANGED <<filterVars, scenario, config, todo, listening>>
  BY DEF Share
<1>2. FilterInv' /\ ConfigOK' /\ ListsOK' /\ scenario' \in Scenarios
  BY <1>1, LaterKeeps
<1>3. ChainOK' /\ SocketsOK'
  BY <1>1 DEF StartupInv, ChainOK, SocketsOK, Stages
<1> QED BY <1>2, <1>3 DEF StartupInv

\* A step of the sockets: to a stage with the sockets it should have.
LEMMA SocketsKeep ==
  ASSUME StartupInv, UNCHANGED <<filterVars, scenario, config, todo, chain>>,
         stage \in Stages \ {"config", "lists"}, stage' \in Stages \ {"config", "lists"},
         SocketsOK'
  PROVE  StartupInv'
<1>1. FilterInv' /\ ConfigOK' /\ ListsOK' /\ scenario' \in Scenarios
  BY LaterKeeps
<1>2. ChainOK'
  BY DEF StartupInv, ChainOK
<1> QED BY <1>1, <1>2 DEF StartupInv

\* An error ends the server, if there is a reason.
LEMMA EndKeeps ==
  ASSUME StartupInv, stage \in Stages \ {"config", "lists"}, End,
         \/ Wanted \intersect scenario.refused # {}
         \/ config.tls_enabled /\ ~ PairAccepted
         \/ config.tls_enabled /\ config.tcp_enabled /\ TlsSocket = TcpSocket
  PROVE  StartupInv'
<1>1. /\ stage' = "ended" /\ listening' = {}
      /\ UNCHANGED <<filterVars, scenario, config, todo, chain>>
  BY DEF End
<1>2. /\ Wanted' = Wanted /\ PairAccepted' = PairAccepted /\ TlsSocket' = TlsSocket
      /\ TcpSocket' = TcpSocket
  BY <1>1 DEF Wanted, PairAccepted, UdpSocket, TcpSocket, TlsSocket
<1>3. SocketsOK'
  BY <1>1, <1>2 DEF SocketsOK, Stages
<1> QED BY <1>1, <1>3, SocketsKeep DEF Stages

LEMMA BindKeeps ==
  ASSUME StartupInv, BindUdp \/ BindTcp \/ GoOnline \/ BindTls
  PROVE  StartupInv'
<1> DEFINE unchanged == UNCHANGED <<filterVars, scenario, config, todo, chain>>
<1>1. unchanged => /\ Wanted' = Wanted /\ (PairAccepted <=> PairAccepted')
                   /\ UdpBound' = UdpBound /\ TcpBound' = TcpBound
  BY DEF Wanted, PairAccepted, UdpBound, TcpBound, UdpSocket, TcpSocket, TlsSocket
<1>2. SocketsOK
  BY DEF StartupInv
<1>3. UdpSocket # TcpSocket /\ UdpSocket # TlsSocket
  BY DEF UdpSocket, TcpSocket, TlsSocket
<1>4. CASE BindUdp
  <2>1. stage = "udp" /\ listening = {}
    BY <1>2, <1>4 DEF BindUdp, SocketsOK
  <2>2. CASE Bind(UdpSocket, "tcp")
    <3>1. listening' = UdpBound /\ stage' = "tcp" /\ unchanged
      BY <2>1, <2>2 DEF Bind, UdpBound
    <3> HIDE DEF unchanged
    <3>2. SocketsOK'
      BY <1>1, <3>1 DEF SocketsOK, Stages
    <3> QED BY <2>1, <3>1, <3>2, SocketsKeep DEF Stages, unchanged
  <2>3. CASE ~ Free(UdpSocket) /\ End
    <3>1. UdpSocket \in scenario.refused
      BY <2>1, <2>3 DEF Free
    <3>2. Wanted \intersect scenario.refused # {}
      BY <3>1 DEF Wanted
    <3> QED BY <2>1, <2>3, <3>2, EndKeeps DEF Stages
  <2> QED BY <1>4, <2>2, <2>3 DEF BindUdp
<1>5. CASE BindTcp
  <2>1. stage = "tcp" /\ listening = UdpBound
    BY <1>2, <1>5 DEF BindTcp, SocketsOK
  <2>2. CASE config.tcp_enabled /\ Bind(TcpSocket, "acceptor")
    <3>1. listening' = TcpBound /\ stage' = "acceptor" /\ unchanged
      BY <2>1, <2>2 DEF Bind, TcpBound
    <3> HIDE DEF unchanged
    <3>2. SocketsOK'
      BY <1>1, <3>1 DEF SocketsOK, Stages
    <3> QED BY <2>1, <3>1, <3>2, SocketsKeep DEF Stages, unchanged
  <2>3. CASE config.tcp_enabled /\ ~ Free(TcpSocket) /\ End
    <3>1. TcpSocket \in scenario.refused
      BY <1>3, <2>1, <2>3 DEF Free, UdpBound
    <3>2. Wanted \intersect scenario.refused # {}
      BY <2>3, <3>1 DEF Wanted
    <3> QED BY <2>1, <2>3, <3>2, EndKeeps DEF Stages
  <2>4. CASE ~ config.tcp_enabled /\ Pass("acceptor")
    <3>1. listening' = TcpBound /\ stage' = "acceptor" /\ unchanged
      BY <2>1, <2>4 DEF Pass, TcpBound
    <3> HIDE DEF unchanged
    <3>2. SocketsOK'
      BY <1>1, <3>1 DEF SocketsOK, Stages
    <3> QED BY <2>1, <3>1, <3>2, SocketsKeep DEF Stages, unchanged
  <2> QED BY <1>5, <2>2, <2>3, <2>4 DEF BindTcp
<1>6. CASE GoOnline
  <2>1. stage = "acceptor" /\ listening = TcpBound
    BY <1>2, <1>6 DEF GoOnline, SocketsOK
  <2>2. CASE (config.tls_enabled => PairAccepted) /\ Pass("online")
    <3>1. listening' = TcpBound /\ stage' = "online" /\ unchanged
      BY <2>1, <2>2 DEF Pass
    <3>2. config' = config
      BY <3>1
    <3> HIDE DEF unchanged
    <3>3. SocketsOK'
      BY <1>1, <2>2, <3>1, <3>2 DEF SocketsOK, Stages
    <3> QED BY <2>1, <3>1, <3>3, SocketsKeep DEF Stages, unchanged
  <2>3. CASE config.tls_enabled /\ ~ PairAccepted /\ End
    BY <2>1, <2>3, EndKeeps DEF Stages
  <2> QED BY <1>6, <2>2, <2>3 DEF GoOnline
<1>7. CASE BindTls
  <2>1. /\ stage = "online" /\ listening = TcpBound
        /\ config.tls_enabled => PairAccepted
    BY <1>2, <1>7 DEF BindTls, SocketsOK
  <2>2. CASE config.tls_enabled /\ Bind(TlsSocket, "running")
    <3>1. listening' = Wanted /\ stage' = "running" /\ unchanged
      BY <2>1, <2>2 DEF Bind, TcpBound, UdpBound, Wanted
    <3>2. config' = config
      BY <3>1
    <3> HIDE DEF unchanged
    <3>3. SocketsOK'
      BY <1>1, <2>1, <3>1, <3>2 DEF SocketsOK, Stages
    <3> QED BY <2>1, <3>1, <3>3, SocketsKeep DEF Stages, unchanged
  <2>3. CASE config.tls_enabled /\ ~ Free(TlsSocket) /\ End
    <3>1. \/ TlsSocket \in scenario.refused
          \/ config.tcp_enabled /\ TlsSocket = TcpSocket
      BY <1>3, <2>1, <2>3 DEF Free, TcpBound, UdpBound
    <3>2. TlsSocket \in Wanted
      BY <2>3 DEF Wanted
    <3> QED BY <2>1, <2>3, <3>1, <3>2, EndKeeps DEF Stages
  <2>4. CASE ~ config.tls_enabled /\ Pass("running")
    <3>1. listening' = Wanted /\ stage' = "running" /\ unchanged
      BY <2>1, <2>4 DEF Pass, TcpBound, UdpBound, Wanted
    <3>2. config' = config
      BY <3>1
    <3> HIDE DEF unchanged
    <3>3. SocketsOK'
      BY <1>1, <2>1, <3>1, <3>2 DEF SocketsOK, Stages
    <3> QED BY <2>1, <3>1, <3>3, SocketsKeep DEF Stages, unchanged
  <2> QED BY <1>7, <2>2, <2>3, <2>4 DEF BindTls
<1> QED BY <1>4, <1>5, <1>6, <1>7

LEMMA StartupInvNext ==
  StartupInv /\ [Next]_vars => StartupInv' /\ [FilterNext]_filterVars
<1> SUFFICES ASSUME StartupInv, [Next]_vars
             PROVE  StartupInv' /\ [FilterNext]_filterVars
  OBVIOUS
<1>1. CASE LoadConfig
  BY <1>1, LoadConfigKeeps DEF LoadConfig
<1>2. CASE ReadList
  BY <1>2, ReadListKeeps
<1>3. CASE Share
  BY <1>3, ShareKeeps DEF Share
<1>4. CASE BindUdp \/ BindTcp \/ GoOnline \/ BindTls
  <2>1. UNCHANGED filterVars
    BY <1>4 DEF BindUdp, BindTcp, GoOnline, BindTls, Bind, Pass, End
  <2> QED BY <1>4, <2>1, BindKeeps
<1>5. CASE UNCHANGED vars
  <2>1. UNCHANGED <<filterVars, scenario, stage, config, todo, chain, listening>>
    BY <1>5 DEF vars, startVars
  <2>2. read' = read /\ [FilterNext]_filterVars
    BY <2>1 DEF filterVars
  <2>3. FilterInv'
    BY <2>2, FilterInvNext DEF StartupInv
  <2>4. ConfigOK' /\ ListsOK' /\ ChainOK'
    BY <2>1, <2>2 DEF StartupInv, ConfigOK, ListsOK, ChainOK
  <2>5. SocketsOK'
    BY <2>1 DEF StartupInv, SocketsOK, UdpBound, TcpBound, Wanted, PairAccepted,
                UdpSocket, TcpSocket, TlsSocket
  <2> QED BY <2>1, <2>2, <2>3, <2>4, <2>5 DEF StartupInv
<1> QED BY <1>1, <1>2, <1>3, <1>4, <1>5 DEF Next

LEMMA StartupInvariant == Spec => []StartupInv
BY StartupInvInit, StartupInvNext, PTL DEF Spec

-----------------------------------------------------------------------------
(* What the invariant gives                                                *)

\* The upstreams of a configuration are those its list names rightly, in order,
\* or the legacy address.
Chosen(ups, legacy, chosen) ==
    LET Is(i, e) == /\ ups[i].rest = e.addr
                    /\ (ups[i].prefix = "tcp") = (e.transport = "Tcp")
        right == {i \in DOMAIN ups : ups[i].rest \in Addresses}
    IN  IF ups = <<>> THEN chosen = <<[addr |-> legacy, transport |-> "Udp"]>>
        ELSE /\ \A i \in right : \E e \in DOMAIN chosen : Is(i, chosen[e])
             /\ \A e \in DOMAIN chosen : \E i \in right : Is(i, chosen[e])
             /\ \A e, f \in DOMAIN chosen : e < f =>
                   \E i, j \in right : i < j /\ Is(i, chosen[e]) /\ Is(j, chosen[f])

LEMMA ChainOfConfig ==
  ASSUME NEW c, Listed(c)
  PROVE  /\ Chosen(c.upstreams, c.upstream_addr, ResolveUpstreams(c))
         /\ \A e \in DOMAIN ResolveUpstreams(c) :
               ResolveUpstreams(c)[e].transport \in {"Udp", "Tcp"}
<1> DEFINE chosen == ResolveUpstreams(c)
           ups == c.upstreams
           Is(i, e) == /\ ups[i].rest = e.addr
                       /\ (ups[i].prefix = "tcp") = (e.transport = "Tcp")
           right == {i \in DOMAIN ups : ups[i].rest \in Addresses}
<1>1. CASE ups = <<>>
  <2>1. chosen = <<[addr |-> c.upstream_addr, transport |-> "Udp"]>>
    BY <1>1 DEF ResolveUpstreams
  <2>2. \A e \in DOMAIN chosen : chosen[e].transport \in {"Udp", "Tcp"}
    <3> HIDE DEF chosen
    <3>1. DOMAIN chosen = {1} /\ chosen[1].transport = "Udp"
      BY <2>1
    <3> QED BY <3>1
  <2> QED BY <1>1, <2>1, <2>2 DEF Chosen
<1>2. CASE ups # <<>>
  <2>1. ups \in Seq(ToSet(ups)) /\ Len(ups) \in Nat /\ DOMAIN ups = 1 .. Len(ups)
    BY LenProperties DEF Listed, Sequential
  <2>2. right \in SUBSET (1 .. Len(ups))
    BY <2>1
  <2> DEFINE kept == Kept(ups, right)
             size == Cardinality(right)
  <2> HIDE DEF right, ups
  <2>3. /\ DOMAIN kept = 1 .. size
        /\ \E from \in [1 .. size -> right] :
               /\ \A n \in 1 .. size : kept[n] = ups[from[n]]
               /\ \A i \in right : \E n \in 1 .. size : from[n] = i
               /\ \A n, o \in 1 .. size : n < o => from[n] < from[o]
    <3>1. Takes(Kept(ups, right), ups, right)
      BY <2>1, <2>2, KeptIs
    <3> QED BY <3>1, Zenon DEF Takes, kept, size
  <2>4. PICK from \in [1 .. size -> right] :
               /\ \A n \in 1 .. size : kept[n] = ups[from[n]]
               /\ \A i \in right : \E n \in 1 .. size : from[n] = i
               /\ \A n, o \in 1 .. size : n < o => from[n] < from[o]
    BY <2>3
  <2>5. chosen = [i \in DOMAIN kept |->
                     [addr |-> kept[i].rest,
                      transport |-> IF kept[i].prefix = "tcp" THEN "Tcp" ELSE "Udp"]]
    BY <1>2 DEF ResolveUpstreams, Parsed, right, ups
  <2> HIDE DEF kept, size
  <2>6. DOMAIN chosen = 1 .. size
    BY <2>3, <2>5
  <2>7. ASSUME NEW n \in 1 .. size
        PROVE  /\ from[n] \in right /\ chosen[n].transport \in {"Udp", "Tcp"}
               /\ Is(from[n], chosen[n])
    <3>1. chosen[n] = [addr |-> kept[n].rest,
                       transport |-> IF kept[n].prefix = "tcp" THEN "Tcp" ELSE "Udp"]
      BY <2>3, <2>5
    <3>2. kept[n] = ups[from[n]] /\ from[n] \in right
      BY <2>4
    <3> HIDE DEF chosen
    <3> QED BY <3>1, <3>2
  <2> HIDE DEF chosen, Is
  <2>8. /\ \A i \in right : \E e \in DOMAIN chosen : Is(i, chosen[e])
        /\ \A e \in DOMAIN chosen : \E i \in right : Is(i, chosen[e])
        /\ \A e, f \in DOMAIN chosen : e < f =>
              \E i, j \in right : i < j /\ Is(i, chosen[e]) /\ Is(j, chosen[f])
        /\ \A e \in DOMAIN chosen : chosen[e].transport \in {"Udp", "Tcp"}
    BY <2>4, <2>6, <2>7
  <2> QED BY <1>2, <2>8, Zenon DEF Chosen, Is, chosen, right, ups
<1> QED BY <1>1, <1>2

\* The list of upstreams in force is the one somebody named.
LEMMA NamedIs ==
  ASSUME NEW s \in Scenarios, NEW c, c = Load(s.file, s.env)
  PROVE  c.upstreams =
           IF c = Default THEN <<>>
           ELSE IF "VANTA_DNS_UPSTREAMS" \in DOMAIN s.env THEN s.env.VANTA_DNS_UPSTREAMS
           ELSE IF "upstreams" \in DOMAIN s.file.given THEN s.file.given.upstreams ELSE <<>>
<1>1. CASE c = Default
  BY <1>1 DEF Default
<1>2. CASE c # Default
  <2> DEFINE d == Completed(s.file)
  <2>1. c = ApplyTlsEnvOverrides(d, s.env)
    BY <1>2, Zenon DEF Load
  <2>2. "upstreams" \in DOMAIN Default /\ Default["upstreams"] = <<>>
    BY DEF Default
  <2>3. d = [f \in DOMAIN Default |->
               IF f \in DOMAIN s.file.given THEN s.file.given[f] ELSE Default[f]]
    BY DEF Completed
  <2> HIDE DEF d
  <2>4. d["upstreams"] = IF "upstreams" \in DOMAIN s.file.given
                         THEN s.file.given["upstreams"] ELSE <<>>
    BY <2>2, <2>3
  <2>5. "upstreams" \in DOMAIN d
    BY <2>2, <2>3
  <2>6. c["upstreams"] = Variable(s.env, "VANTA_DNS_UPSTREAMS", d["upstreams"])
    BY <2>1, <2>5 DEF ApplyTlsEnvOverrides
  <2> QED BY <1>2, <2>4, <2>6 DEF Variable
<1> QED BY <1>1, <1>2

\* A start does to the filter only what its interface allows, so that what is
\* proved of the filter holds of the server's.
THEOREM StartupLoadsTheFilter == Spec => FilterSpec
<1>1. Init => FilterInit
  BY DEF Init
<1> QED BY <1>1, StartupInvInit, StartupInvNext, PTL DEF Spec, FilterSpec

\* Verdicts of the server's filter follow the lists, and exceptions stand.
THEOREM StartupKeepsTheLists ==
  ASSUME NamesArePlain
  PROVE  Spec => []VerdictsFollowTheLists /\ ExceptionsStand
BY StartupLoadsTheFilter, VerdictsAreRight, ExceptionsAreKept, PTL

\* The types of the start-up, and which stages come with which sockets.
THEOREM StartupTypes == Spec => []StartupTypeOK
<1>1. StartupInv => StartupTypeOK
  <2> SUFFICES ASSUME StartupInv PROVE StartupTypeOK
    OBVIOUS
  <2>1. FilterTypeOK /\ DOMAIN config = DOMAIN Default /\ stage \in Stages
    BY FilterInvTypes DEF StartupInv, ConfigOK, Listed, SocketsOK
  <2>2. \A e \in DOMAIN chain : chain[e].transport \in {"Udp", "Tcp"}
    BY ChainOfConfig DEF StartupInv, ChainOK, ConfigOK
  <2>3. stage \in {"config", "lists", "udp", "ended"} <=> listening = {}
    BY DEF StartupInv, SocketsOK, Stages, UdpBound, TcpBound, Wanted
  <2> QED BY <2>1, <2>2, <2>3 DEF StartupTypeOK, Stages
<1> QED BY <1>1, StartupInvariant, PTL

\* The cache in force has room and its bounds are in order, and TLS has files,
\* whatever the file and the environment say.
THEOREM ConfigsAreSound == Spec => []ConfigIsSound
<1>1. StartupInv => ConfigIsSound
  BY DEF StartupInv, ConfigOK, Sound, ConfigIsSound
<1> QED BY <1>1, StartupInvariant, PTL

\* Queries go to the upstreams that were named, and to no other.
THEOREM NamedUpstreamsAreAsked == Spec => []UpstreamsAreChosen
<1>1. StartupInv => UpstreamsAreChosen
  <2> SUFFICES ASSUME StartupInv, Answering PROVE UpstreamsAreChosen
    BY DEF UpstreamsAreChosen
  <2>1. /\ chain = ResolveUpstreams(config) /\ Listed(config) /\ scenario \in Scenarios
        /\ config = Load(scenario.file, scenario.env)
    BY DEF Answering, StartupInv, ChainOK, ConfigOK
  <2>2. config.upstreams = Named
    BY <2>1, NamedIs, Zenon DEF Named
  <2>3. Chosen(Named, config.upstream_addr, chain)
    BY <2>1, <2>2, ChainOfConfig
  <2> QED BY <2>3, Zenon DEF Chosen, UpstreamsAreChosen
<1> QED BY <1>1, StartupInvariant, PTL

\* Every list that can be read has been, before a query is answered.
THEOREM ListsComeFirst == Spec => []AnswersKnowTheLists
<1>1. StartupInv => AnswersKnowTheLists
  <2> SUFFICES ASSUME StartupInv, Answering PROVE AnswersKnowTheLists
    BY DEF AnswersKnowTheLists
  <2>1. todo = <<>>
    BY DEF Answering, StartupInv, ListsOK
  <2>2. \A kind : Pending(scenario, <<>>, kind) = {}
    BY DEF Pending
  <2>3. /\ read.block = AllOf(scenario, config.blocklist_paths)
        /\ read.allow = AllOf(scenario, config.allowlist_paths)
    BY <2>1, <2>2 DEF Answering, StartupInv, ListsOK
  <2> QED BY <2>3, AllOfIs DEF AnswersKnowTheLists
<1> QED BY <1>1, StartupInvariant, PTL

\* A server that stays up has all its sockets; one that ends had a reason.
THEOREM StartsAreWhole == Spec => []AllOrNothing
<1>1. StartupInv => AllOrNothing
  BY DEF StartupInv, SocketsOK, AllOrNothing
<1> QED BY <1>1, StartupInvariant, PTL
=============================================================================
