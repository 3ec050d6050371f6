--------------------------- MODULE ServerStartup ---------------------------
(***************************************************************************)
(* run_server (main.rs:132-333) from its first line to the loop that keeps *)
(* it alive: configuration, lists, sockets, and what it does when one of   *)
(* them cannot be had.  A scenario is all a start depends on: the file and *)
(* the environment (ServerConfig), the files on disk with their lines      *)
(* (DomainFilter), the sockets the system refuses, being in use or         *)
(* privileged, and the pairs of certificate and key that rustls accepts.   *)
(***************************************************************************)
EXTENDS DomainFilter, ServerConfig

CONSTANT Scenarios  \* [file, env, disk, refused, pairs]

\* A sequence, of whatever.
Sequential(s) == s \in Seq(ToSet(s))

\* Files and the environment hold texts, numbers and lists; None is no text.
ASSUME ScenariosAssumption ==
    \A s \in Scenarios :
        LET given == s.file.given
            texts == {"TLS_CERT", "TLS_CERT_PATH", "TLS_KEY", "TLS_KEY_PATH"}
        IN  /\ \A path \in DOMAIN s.disk : s.disk[path] \subseteq Lines
            /\ \A f \in DOMAIN given \intersect {"blocklist_paths", "allowlist_paths", "upstreams"} :
                  Sequential(given[f])
            /\ "cache_capacity" \in DOMAIN given => given.cache_capacity \in Nat
            /\ "VANTA_DNS_UPSTREAMS" \in DOMAIN s.env => Sequential(s.env.VANTA_DNS_UPSTREAMS)
            /\ \A v \in DOMAIN s.env \intersect texts : s.env[v] # None

VARIABLES
    scenario,
    stage,      \* how far run_server has come
    config,     \* the configuration in force
    todo,       \* lists that are still to be read, as <<kind, path>>
    chain,      \* the upstreams of the forwarder
    listening   \* sockets that are bound, as [protocol, ip, port]

startVars == <<scenario, stage, config, todo, chain, listening>>
vars == <<filterVars, startVars>>

\* From here on the spawned loops answer queries (main.rs:243-293).
Answering == stage \in {"online", "running"}

-----------------------------------------------------------------------------
(* Configuration and lists                                                 *)

Init ==
    /\ scenario \in Scenarios /\ stage = "config"
    /\ config = Default /\ todo = <<>> /\ chain = <<>> /\ listening = {}
    /\ FilterInit

LoadConfig ==
    /\ stage = "config" /\ stage' = "lists"
    /\ LET c == Load(scenario.file, scenario.env)
       IN  /\ config' = c
           /\ todo' = [i \in DOMAIN c.blocklist_paths |-> <<"block", c.blocklist_paths[i]>>]
                      \o [i \in DOMAIN c.allowlist_paths |-> <<"allow", c.allowlist_paths[i]>>]
    /\ UNCHANGED <<filterVars, scenario, chain, listening>>

\* A path is <<directory, file>>.
ResolvePath(path) ==
    IF path[1] = "$HOME" THEN <<Variable(scenario.env, "HOME", "/tmp"), path[2]>> ELSE path

\* Mistake: a list that cannot be read is the last.
LeftOrNone(path) == IF path \in DOMAIN scenario.disk THEN Tail(todo) ELSE <<>>

Left(path) == Tail(todo)

\* A list that cannot be read is passed over with a warning.
ReadList ==
    /\ stage = "lists" /\ todo # <<>>
    /\ LET path == ResolvePath(Head(todo)[2])
       IN  /\ todo' = Left(path)
           /\ \/ /\ path \in DOMAIN scenario.disk /\ Head(todo)[1] = "block"
                 /\ LoadBlocklistContent(scenario.disk[path])
              \/ /\ path \in DOMAIN scenario.disk /\ Head(todo)[1] = "allow"
                 /\ LoadAllowlistContent(scenario.disk[path])
              \/ path \notin DOMAIN scenario.disk /\ UNCHANGED filterVars
    /\ UNCHANGED <<scenario, stage, config, chain, listening>>

\* The cache, the forwarder and the shared filter.
Share ==
    /\ stage = "lists" /\ todo = <<>>
    /\ chain' = ResolveUpstreams(config) /\ stage' = "udp"
    /\ UNCHANGED <<filterVars, scenario, config, todo, listening>>

-----------------------------------------------------------------------------
(* Sockets                                                                 *)

UdpSocket == [protocol |-> "udp", ip |-> config.bind_addr.ip, port |-> config.bind_addr.port]
TcpSocket == [protocol |-> "tcp", ip |-> config.bind_addr.ip, port |-> config.bind_addr.port]
TlsSocket == [protocol |-> "tcp", ip |-> config.bind_addr.ip, port |-> config.tls_port]

Free(socket) == socket \notin scenario.refused \union listening

Bind(socket, next) ==
    /\ Free(socket)
    /\ listening' = listening \union {socket} /\ stage' = next
    /\ UNCHANGED <<filterVars, scenario, config, todo, chain>>

Pass(next) ==
    /\ stage' = next
    /\ UNCHANGED <<filterVars, scenario, config, todo, chain, listening>>

\* run_server returns its error: the process ends, and its tasks with it.
End ==
    /\ stage' = "ended" /\ listening' = {}
    /\ UNCHANGED <<filterVars, scenario, config, todo, chain>>

BindUdp ==
    stage = "udp" /\ (Bind(UdpSocket, "tcp") \/ (~Free(UdpSocket) /\ End))

\* Mistake: the server goes on without its TCP listener.
BindTcpIfFree ==
    /\ stage = "tcp"
    /\ \/ config.tcp_enabled /\ Bind(TcpSocket, "acceptor")
       \/ ~(config.tcp_enabled /\ Free(TcpSocket)) /\ Pass("acceptor")

BindTcp ==
    /\ stage = "tcp"
    /\ \/ config.tcp_enabled /\ Bind(TcpSocket, "acceptor")
       \/ config.tcp_enabled /\ ~Free(TcpSocket) /\ End
       \/ ~config.tcp_enabled /\ Pass("acceptor")

PairAccepted == <<config.tls_cert_path, config.tls_key_path>> \in scenario.pairs

\* build_tls_acceptor(), then "ONLINE" and the UDP and TCP loops.
GoOnline ==
    /\ stage = "acceptor"
    /\ \/ (config.tls_enabled => PairAccepted) /\ Pass("online")
       \/ config.tls_enabled /\ ~PairAccepted /\ End

BindTls ==
    /\ stage = "online"
    /\ \/ config.tls_enabled /\ Bind(TlsSocket, "running")
       \/ config.tls_enabled /\ ~Free(TlsSocket) /\ End
       \/ ~config.tls_enabled /\ Pass("running")

Next ==
    \/ LoadConfig \/ ReadList \/ Share
    \/ BindUdp \/ BindTcp \/ GoOnline \/ BindTls

Spec == Init /\ [][Next]_vars

-----------------------------------------------------------------------------
(* Properties                                                              *)

\* Types of the start-up, and which stages come with which sockets.
StartupTypeOK ==
    /\ FilterTypeOK
    /\ stage \in {"config", "lists", "udp", "tcp", "acceptor", "online", "running", "ended"}
    /\ DOMAIN config = DOMAIN Default
    /\ \A e \in DOMAIN chain : chain[e].transport \in {"Udp", "Tcp"}
    /\ stage \in {"config", "lists", "udp", "ended"} <=> listening = {}

\* Whatever file and environment the server is given, the cache it runs
\* with has room for an entry and its bounds are in order (clamp panics
\* otherwise), and TLS has its files.
ConfigIsSound ==
    /\ config.cache_capacity > 0
    /\ config.min_ttl_secs <= config.max_ttl_secs
    /\ config.tls_enabled => config.tls_cert_path # None /\ config.tls_key_path # None

\* The upstreams somebody named for this start: in the environment, or else
\* in the file, or else in the legacy field; if the file is of no use, nobody.
Named ==
    LET given == scenario.file.given
    IN  IF config = Default THEN <<>>
        ELSE IF "VANTA_DNS_UPSTREAMS" \in DOMAIN scenario.env
        THEN scenario.env.VANTA_DNS_UPSTREAMS
        ELSE IF "upstreams" \in DOMAIN given THEN given.upstreams ELSE <<>>

\* Queries go to the resolvers the operator named, all those that are spelled
\* rightly, in the order given and over the transport given, and to nobody
\* else; the legacy address is asked only where no list is given.
UpstreamsAreChosen ==
    LET Names1(i, e) == /\ Named[i].rest = e.addr
                        /\ (Named[i].prefix = "tcp") = (e.transport = "Tcp")
        right == {i \in DOMAIN Named : Named[i].rest \in Addresses}
    IN  Answering =>
          IF Named = <<>>
          THEN chain = <<[addr |-> config.upstream_addr, transport |-> "Udp"]>>
          ELSE /\ \A i \in right : \E e \in DOMAIN chain : Names1(i, chain[e])
               /\ \A e \in DOMAIN chain : \E i \in right : Names1(i, chain[e])
               /\ \A e, f \in DOMAIN chain : e < f =>
                      \E i, j \in right : i < j /\ Names1(i, chain[e]) /\ Names1(j, chain[f])

ReadableLists(paths) ==
    {ResolvePath(paths[i]) : i \in DOMAIN paths} \intersect DOMAIN scenario.disk

\* No query is answered before every list that can be read has been: a
\* blocked name never gets through because the server was quick, or because
\* another list was missing.
AnswersKnowTheLists ==
    Answering =>
        /\ read.block = UNION {scenario.disk[p] : p \in ReadableLists(config.blocklist_paths)}
        /\ read.allow = UNION {scenario.disk[p] : p \in ReadableLists(config.allowlist_paths)}

Wanted ==
    {UdpSocket}
    \union (IF config.tcp_enabled THEN {TcpSocket} ELSE {})
    \union (IF config.tls_enabled THEN {TlsSocket} ELSE {})

\* A server that stays up listens wherever it was configured to, and one that
\* ends had a reason: a socket it could not have, a certificate it could not
\* use, or TLS on the port of its own TCP listener.  Missing files end nothing.
AllOrNothing ==
    /\ stage = "running" =>
          listening = Wanted /\ (config.tls_enabled => PairAccepted)
    /\ stage = "ended" =>
          \/ Wanted \intersect scenario.refused # {}
          \/ config.tls_enabled /\ ~PairAccepted
          \/ config.tls_enabled /\ config.tcp_enabled /\ TlsSocket = TcpSocket

\* docker-vanta-dns.toml:5 says "TLS_CERT/TLS_KEY env vars enable the
\* standalone app-terminated DoT listener": with a file that says nothing of
\* TLS, a good pair in these two and all ports free, the server stays up.
EnvironmentEnablesTls ==
    (/\ config.tls_enabled /\ PairAccepted /\ scenario.refused = {}
     /\ DOMAIN scenario.env = {"TLS_CERT", "TLS_KEY"}
     /\ DOMAIN scenario.file.given \intersect {"tls_enabled", "tls_port"} = {})
    => stage # "ended"
=============================================================================
