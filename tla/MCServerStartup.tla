-------------------------- MODULE MCServerStartup --------------------------
(***************************************************************************)
(* Starts of the server for TLC.                                           *)
(***************************************************************************)
EXTENDS ServerStartup

\* A domain, one below it, one below that, a neighbour whose last label only
\* resembles it, and the top-level domain.
MCNames == {<<"com">>, <<"ads", "com">>, <<"x", "ads", "com">>,
            <<"y", "x", "ads", "com">>, <<"bads", "com">>, <<>>}

MCLabels == {"com", "ads", "bads", "x", "y", "*"}

MCLines ==
    [exception : BOOLEAN, comment : {FALSE}, marker : Markers,
     name : {<<"ads", "com">>, <<"*", "x", "ads", "com">>},
     tail : Tails]
    \union
    [exception : BOOLEAN, comment : {TRUE}, marker : {"none"},
     name : {<<"ads", "com">>}, tail : {""}]
    \union
    [exception : BOOLEAN, comment : {FALSE}, marker : {"||"},
     name : {<<>>}, tail : {"^"}]

MCAddresses == {"1.1.1.1:53", "8.8.8.8:53", "127.0.0.1:5335"}

Up(prefix, rest) == [prefix |-> prefix, rest |-> rest]
MCLists == {<<>>, <<Up("", "")>>,
            <<Up("tcp", "1.1.1.1:53"), Up("tcp", "8.8.8.8:53"), Up("udp", "1.1.1.1:53")>>,
            <<Up("", "8.8.8.8:53"), Up("https", "1.1.1.1"), Up("udp", "1.1.1.1:53")>>}

\* config/vanta-dns.toml and config/docker-vanta-dns.toml
Lists == [blocklist_paths |-> << <<"/data", "b1">>, <<"$HOME", "b2">> >>,
          allowlist_paths |-> << <<"/data", "a1">> >>]
Local == [bind_addr |-> [ip |-> "127.0.0.1", port |-> 5353],
          upstream_addr |-> "127.0.0.1:5335", block_mode |-> Mode("nxdomain"),
          cache_capacity |-> 10000, min_ttl_secs |-> 60, max_ttl_secs |-> 86400] @@ Lists
Docker == [bind_addr |-> [ip |-> "0.0.0.0", port |-> 853],
           upstreams |-> <<Up("tcp", "1.1.1.1:53"), Up("udp", "1.1.1.1:53")>>,
           tcp_enabled |-> TRUE] @@ Local

\* What an operator may write differently, rightly or wrongly.
Changes ==
    {[cache_capacity |-> 0], [min_ttl_secs |-> 86401], [min_ttl_secs |-> 86400],
     [block_mode |-> [word |-> "zero_ip", lower |-> FALSE]],
     [block_mode |-> [word |-> "nxdomain", lower |-> FALSE]], [block_mode |-> Mode("refuse")],
     [tcp_enabled |-> TRUE, tls_enabled |-> TRUE], [tls_enabled |-> TRUE, tls_port |-> 8853],
     [tls_cert_path |-> "cert", tls_key_path |-> "key"],
     [tls_cert_path |-> "cert"], [logging_enabled |-> TRUE]}
    \union {[upstreams |-> l] : l \in MCLists}

\* TOML cannot write None.
Written(given) ==
    [f \in DOMAIN given \ {p \in {"tls_cert_path", "tls_key_path"} : given[p] = None} |-> given[f]]

File(format, given) == [format |-> format, given |-> given]
Files ==
    {File("missing", <<>>), File("garbage", Local), File("flat", Local)}
    \union {File("table", g) : g \in {Local, Docker} \union {c @@ g : c \in Changes, g \in {Local, Docker}}}
    \union {File("flat", Written(c @@ Docker @@ Default)) : c \in Changes}

Environments ==
    {[HOME |-> "/home"], [x \in {} |-> ""],
     [TLS_CERT |-> "cert", TLS_KEY |-> "key"],
     [TLS_CERT |-> "cert", TLS_KEY |-> "key", TLS_KEY_PATH |-> "other"],
     [TLS_KEY_PATH |-> "key"]}
    \union {[VANTA_DNS_UPSTREAMS |-> l] : l \in MCLists \ {<<>>}}

On(protocol, ip, port) == [protocol |-> protocol, ip |-> ip, port |-> port]
Refusals == {{}, {On("udp", "127.0.0.1", 5353)}, {On("tcp", "127.0.0.1", 5353)},
             {On("tcp", "127.0.0.1", 853)}, {On("udp", "0.0.0.0", 853)}}

ALine == [exception |-> FALSE, comment |-> FALSE, marker |-> "||",
          name |-> <<"ads", "com">>, tail |-> "^"]
Places == {<<"/data", "b1">>, <<"/home", "b2">>, <<"/data", "a1">>}

\* Every start, with small lists of which some are missing.
Starts ==
    [file : Files, env : Environments, refused : Refusals, pairs : {{<<"cert", "key">>}},
     disk : UNION {[S -> {{ALine}}] : S \in {{<<"/data", "b1">>}, {<<"/tmp", "b2">>, <<"/data", "a1">>}}}]

\* One start, with all lists that have two lines between them.
Readings ==
    [file : {File("table", Local)}, env : {[HOME |-> "/home"]}, refused : {{}}, pairs : {{}},
     disk : {[p \in Places |-> {l[2] : l \in {k \in {one, other} : k[1] = p}}] :
                one, other \in Places \X MCLines}]

MCScenarios == Starts \union Readings
=============================================================================
