---------------------------- MODULE ServerConfig ----------------------------
(***************************************************************************)
(* How the server comes by its configuration (config.rs): a TOML file in   *)
(* one of two formats, the defaults of fields it leaves out, the           *)
(* environment above both, validation, and the built-in configuration when *)
(* any of it fails (main.rs:134-141).                                      *)
(*                                                                         *)
(* A file is [format, given]: "table" and "flat" are the two formats,      *)
(* "garbage" is TOML of neither and "missing" cannot be read; given holds  *)
(* the fields that are written in it.  An environment is a record of the   *)
(* variables that are set.  An entry of the list of upstreams is           *)
(* [prefix, rest]: "tcp", "udp" or "" and what follows.  A block mode is   *)
(* [word, lower]: the word, whatever the case of its letters, and whether  *)
(* all of them are small.                                                  *)
(***************************************************************************)
EXTENDS Naturals, Sequences, FiniteSets

CONSTANT Addresses  \* the texts that parse as a socket address

None == "none"      \* Option::None

\* A mode in small letters.
Mode(word) == [word |-> word, lower |-> TRUE]

Default ==
    [bind_addr |-> [ip |-> "127.0.0.1", port |-> 5353],
     upstream_addr |-> "127.0.0.1:5335", upstreams |-> <<>>,
     tcp_enabled |-> FALSE, tls_enabled |-> FALSE,
     tls_cert_path |-> None, tls_key_path |-> None, tls_port |-> 853,
     block_mode |-> Mode("nxdomain"), cache_capacity |-> 10000,
     min_ttl_secs |-> 60, max_ttl_secs |-> 86400,
     blocklist_paths |-> <<>>, allowlist_paths |-> <<>>, logging_enabled |-> FALSE]

\* What a file may leave out: in the flat format only the two paths.
Optional(format) ==
    IF format = "flat" THEN {"tls_cert_path", "tls_key_path"}
    ELSE DOMAIN Default \ {"bind_addr", "block_mode", "cache_capacity",
                           "min_ttl_secs", "max_ttl_secs"}

Parses(file) ==
    /\ file.format \in {"table", "flat"}
    /\ DOMAIN Default \ Optional(file.format) \subseteq DOMAIN file.given

\* The defaults of serde are those of Default; it ignores what it does not know.
Completed(file) ==
    [f \in DOMAIN Default |-> IF f \in DOMAIN file.given THEN file.given[f] ELSE Default[f]]

\* std::env::var()
Variable(env, name, otherwise) ==
    IF name \in DOMAIN env THEN env[name] ELSE otherwise

\* apply_tls_env_overrides()
ApplyTlsEnvOverrides(c, env) ==
    LET cert == Variable(env, "TLS_CERT_PATH", Variable(env, "TLS_CERT", c.tls_cert_path))
        key == Variable(env, "TLS_KEY_PATH", Variable(env, "TLS_KEY", c.tls_key_path))
        ready == cert # None /\ key # None
    IN  [c EXCEPT !.tls_cert_path = cert, !.tls_key_path = key,
                  !.upstreams = Variable(env, "VANTA_DNS_UPSTREAMS", @),
                  !.tcp_enabled = @ \/ (ready /\ ~c.tls_enabled),
                  !.tls_enabled = @ \/ ready]

\* to_lowercase(); what it returns is checked and not kept.
LowerCaseMode(mode) == [mode EXCEPT !.lower = TRUE]

\* validate()
Validate(c, env) ==
    /\ c.cache_capacity # 0
    /\ c.min_ttl_secs <= c.max_ttl_secs
    /\ LowerCaseMode(c.block_mode) \in {Mode("nxdomain"), Mode("zero_ip")}
    /\ c.tls_enabled =>
          /\ c.tls_cert_path # None \/ "TLS_CERT_PATH" \in DOMAIN env
          /\ c.tls_key_path # None \/ "TLS_KEY_PATH" \in DOMAIN env

\* Mistake: the flat format is not validated.
LoadFlatUnchecked(file, env) ==
    LET c == ApplyTlsEnvOverrides(Completed(file), env)
    IN  IF Parses(file) /\ (Validate(c, env) \/ file.format = "flat") THEN c ELSE Default

\* load_from_file(), and what run_server makes of an error: the defaults, with
\* no override of the environment.
Load(file, env) ==
    LET c == ApplyTlsEnvOverrides(Completed(file), env)
    IN  IF Parses(file) /\ Validate(c, env) THEN c ELSE Default

\* What a loop collects that passes the other entries over: the elements of a
\* sequence at the places of a set, in order.
Kept(s, places) ==
    [n \in 1 .. Cardinality(places) |->
        s[CHOOSE i \in places : Cardinality({j \in places : j <= i}) = n]]

\* Mistake: an entry without a prefix is dropped.
ParsedWithPrefix(c) ==
    Kept(c.upstreams, {i \in DOMAIN c.upstreams : /\ c.upstreams[i].rest \in Addresses
                                                  /\ c.upstreams[i].prefix # ""})

\* An entry that does not parse is passed over.
Parsed(c) ==
    Kept(c.upstreams, {i \in DOMAIN c.upstreams : c.upstreams[i].rest \in Addresses})

\* resolve_upstreams(): a bare address is UDP, and the legacy address stands
\* in for a list that is empty, not for one without a usable entry.
ResolveUpstreams(c) ==
    IF c.upstreams = <<>>
    THEN <<[addr |-> c.upstream_addr, transport |-> "Udp"]>>
    ELSE [i \in DOMAIN Parsed(c) |->
             [addr |-> Parsed(c)[i].rest,
              transport |-> IF Parsed(c)[i].prefix = "tcp" THEN "Tcp" ELSE "Udp"]]
=============================================================================
