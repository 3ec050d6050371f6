# A verification project for VantaDNS

VantaDNS is a personal filtering DNS server. Its program is `dns-core`, a Rust
server on tokio that answers DNS over UDP, TCP and TLS: it blocks names that are
on block lists, answers from a response cache, and forwards the rest to a chain
of upstream resolvers. Around it stand shell scripts that run it on an Android
phone, and PowerShell scripts that set up other people's programs (AdGuard Home,
Unbound) on Windows.

This directory holds TLA+ modules that model the server, TLC configurations
that check them on small instances, and proofs that TLAPS checks for every
instance. Paths below are relative to the repository.

## The system

| Part | Source | State it keeps | Operations |
|------|--------|----------------|------------|
| Response cache | `dns-core/src/cache/lru_cache.rs` | LRU map (lower-cased name, type) to packet, instant stored, lifetime; statistics | `get`, `insert`, `clear`, readers |
| Query handlers | `dns-core/src/main.rs` | per task: the query, the reply, where it waits; shared: the cache behind an async mutex | `resolve_dns_query`, `serve_tcp_dns`, the UDP, TCP and TLS loops |
| Upstream forwarder | `dns-core/src/resolver/forwarder.rs` | the chain; per call: a socket, a timer | `forward_raw`, `forward_udp`, `forward_tcp` |
| Domain filter | `dns-core/src/filter/{trie,engine}.rs` | two sets of names, block and allow | `insert_rule`, `load_*`, `evaluate` |
| Configuration, start-up | `dns-core/src/config.rs`, `main.rs` | `ServerConfig`; how far `run_server` has come, sockets | load, environment overrides, validate, `resolve_upstreams`, lists, binding, `build_tls_acceptor` |
| Message codec | `dns-core/src/protocol/*.rs` | none | `parse`, `to_bytes`, `build_blocked_response` |
| Phone service | `phone/*.sh`, `phone/*_vantadns` | PID files, processes, list files | start, stop, status, toggle, update lists |
| Phone forwarder | `phone/dns-udp-forwarder.py` | a thread per datagram | relay with a 5 s timeout |
| Health types, CLI | `dns-core/src/health`, `main.rs` | none | formatting, self-test, benchmark |
| Windows Stage 1 | `scripts/*.ps1` | none of its own | installs and checks external services |

How they interact. Every datagram gets a task, every connection a task that
serves one query after another. A task asks the filter (immutable once the
server listens), then takes the mutex and asks the cache, then calls the
forwarder, which opens a socket of its own per attempt. Answers go into the
cache under the mutex: on UDP before the reply is sent, on a connection after
it has been written. A connection that hits the cache keeps the mutex until the
reply is written to its socket. On the phone a Python script stands in front of
the server: a thread per datagram, which gives up after a time of its own.

What is hard here: tasks interleave at every `await`; state is read under one lock and
acted on under a later one; the mutex is held across a socket write; answers arrive
late, out of order or not at all; peers stop reading or hang up; entries expire
between two readings of the clock; two copies of the query logic have to agree; a
start may fail half-way, with some of its sockets bound; two timeouts stand behind
each other and know nothing of one another. `PROJECT.json` lists these hazards line by
line, with the properties that watch them.

What makes each part correct:

- *cache*: a lookup returns what was stored last under that name and type, while
  it may be used and not a moment longer, with TTLs that do not stretch it; it
  holds no more than its capacity and gives up the key unused for longest;
- *handlers*: a query gets at most one reply, to its own question; a blocked name
  leaves the process on no transport; what is cached is an answer to its key; every
  query comes to an end;
- *forwarder*: each upstream is tried once, in order, within its budget; a call
  ends; an answer belongs to its query;
- *filter*: the verdict is what the lists mean, exceptions first, in any order;
- *configuration, start-up*: the server runs with what the operator wrote, or with
  its defaults, never with something in between; it knows its lists before it
  answers; it listens everywhere or not at all;
- *codec*: a message says the same before it is cached and after, flags included; a
  reply made from a query is a valid response; a message has the length that stands
  before it;
- *phone forwarder*: what comes in time is relayed, what comes late helps the next
  query if the server can parse it, and no thread waits for ever;
- *phone service*: nothing runs twice, nothing runs after OFF, and after ON whatever
  runs is what the PID files lead to.

## The modules

| Module | Models | Kind |
|--------|--------|------|
| `DnsCache` | `lru_cache.rs`: `Get` (absent, expired, hit), `Insert` (replace, add, evict), `Clear`, the clock | component |
| `CachePromise` | what callers of the cache rely on: a bounded store with a TTL rule stated without the code's arithmetic | abstract |
| `CacheHistory` | `DnsCache` with history (last reply, last use of a key, keys that came and went) and the refinement to `CachePromise` | composition |
| `DnsService` | `main.rs`: all handlers over one cache, the mutex, peers of connections | composition with `DnsCache` |
| `QuerySpec` | what clients may observe of the server | abstract |
| `DomainFilter` | `trie.rs`, `engine.rs`: lines into tries, names against tries | component |
| `ServerConfig` | `config.rs`: both file formats, defaults, environment, `validate`, `resolve_upstreams`, as operators | component |
| `ServerStartup` | `run_server`: configuration, lists, sockets, TLS, and how each may fail | composition of `DomainFilter` and `ServerConfig` |
| `UpstreamForwarder` | `forwarder.rs` with time, ports and a lossy network | component |
| `ForwardSpec` | what handlers rely on of `forward_raw` | abstract |
| `PhonePath` | `dns-udp-forwarder.py`, the server's UDP task and its cache, in front of the chain | composition with `UpstreamForwarder` |
| `PacketCodec` | `protocol/*.rs`: flags, names, questions, records and packets, read from and written to octets, the blocked reply, the length before a message | component |
| `CodecReference` | what a message says by RFC 1035, and the codec's properties against it | reference |
| `PhoneService` | `vanta-vpn.sh`, its launchers, `update-blocklists.sh`, as scripts over processes and PID files | component |
| `DnsCacheProofs`, `CacheHistoryProofs`, `DnsServiceProofs`, `PhonePathProofs`, `DomainFilterProofs`, `ServerStartupProofs`, `PhoneServiceProofs`, `CodecProofs` | theorems about the module of that name; `PhonePathProofs` has those of `UpstreamForwarder` too, `CodecProofs` those of `CodecReference` | proofs |
| `MCDnsCache`, `MCDnsService`, `MCServerStartup`, `MCPhonePath`, `MCPacketCodec`, `MCPhoneService` | values for TLC | instances |

Beside the definitions stand a few whose comment begins "Mistake:". They are
plausible wrong versions of the definition that follows; nothing uses them, they
exist to show that a property notices when the code is changed that way
(`PROJECT.json`, "mutants").

### DnsCache

`cache` is the map of the `LruCache` as a function on the keys present,
`recency` its internal list, least recently used first, `stats` the
`CacheStats`, `now` the monotonic clock in ticks of 1/`Second` second. `Get`
takes a second clock reading as a parameter, because `get()` reads the clock
once to decide on expiry and again for the TTL it hands out. `Insert` counts an
eviction whenever the cache is full, as the code does. An expired entry is
popped by the lookup that finds it and by nothing else. A packet is what it says
plus the set of TTLs of its answers: `insert` uses their minimum, `get`
overwrites them all. The seconds of `remaining_ttl_secs` are truncated and
narrowed to `U32` as in the code; in the instance the longest lifetime is the last
one below that width.

### DnsService

Each handler has a program counter, one step per stretch between two awaits:

    UDP:         idle -> lookup -> forward -> store -> send -> done
    connection:  new -> [handshake] -> read -> lookup -> forward -> write -> store
                 -> read ... closed

`Accept` is parse, first question and filter; a blocked query goes straight to its
reply. `LookUp` and `StoreAnswer` need the mutex, held for one step, except that
`TcpLookUp` keeps it (`lock`) on a hit until `TcpWrite` or `TcpWriteFails`.
`UpstreamFails` and `UpstreamAnswers` are the calls into the chain: any bytes count as
an answer, bytes that do not parse are passed on and not cached. The socket of a
connection is the number of replies its peer has not read; a write waits when `Window`
are outstanding and fails once the peer has gone. A failed write ends the connection,
except for a SERVFAIL, whose error the code ignores. `TcpAccept` is what the accept
loops do before they spawn the task; a TLS connection has a handshake first, which the
peer may leave hanging or spoil. An unparsable message on a connection is skipped, a
stuttering step here. `asked`, `sent`, `answers`, `stored` and `forwarded` are
history.

Abstracted: names are what the parser yields, lower-cased; `Verdict` is `evaluate` of
`DomainFilter`, constant because the lists are loaded before the sockets are bound
(`AnswersKnowTheLists` of `ServerStartup`); the length prefix and the message are one
write; an upstream answers the question it was asked (`UpstreamForwarder` says when
that is so).

### DomainFilter

A name is a sequence of labels. A line is known by what `insert_rule` looks at:
"@@", the marker (`||`, an address, none), the name, what follows it. Text that
stays glued to a name ("com^" on a raw line) makes a name no query can have and
is kept as one more label. Two tails stand for what keeps a line out of the tries:
"=text" for a "=" in what is taken for the rule (`trie.rs:54`), " words" on a line that
is not a hosts line. Of a hosts line only the first name is read; a second one is among
its " words". `exact_matches` and `wildcard_matches` always hold the
same names and are one set. The reference (`WellFormed`, `Covers`) says what
lines of the documented forms mean, without looking at the code's parse. A rule
such as `||*.example.com^` is taken for none of the documented forms; the code
keeps it as a literal name, which never matches. The module has no instance of its
own: `ServerStartup` drives it, a list at a time as `run_server` does.

### ServerConfig and ServerStartup

A file is its format and the fields written in it; `Parses` asks for the fields that
have no serde default, which are all but two in the flat format. `Load` is
`load_from_file` together with what `run_server` makes of its error: the built-in
configuration, on which no override is applied. A block mode is a word and
whether it is written in small letters: `validate` (`LowerCaseMode`) takes it in any
case, the handlers know one spelling (below). `ServerStartup` goes through
`run_server` a step per thing that may fail: `LoadConfig`, `ReadList` for each path
in turn, `Share`, `BindUdp`, `BindTcp`, `GoOnline` (the acceptor, then the message
ONLINE and the UDP and TCP loops), `BindTls`. What a start depends on is its
`scenario`: file, environment, files on disk, the sockets the system refuses, the
pairs of certificate and key that rustls takes. An error ends the process and closes
what was bound. That the sockets are bound one after another, the TLS one when
queries are already answered, is what `AllOrNothing` is about. The reference
(`Named`, `Wanted`) says what the operator asked for, without the order in which the
code overrides one by the other.

### UpstreamForwarder

A call walks the chain. Each wait has a timer (`left`); time passes (`Tick`) only
when nothing is due, so a timer fires exactly when it has run out, and may lose
or win the race with an answer that comes at that instant. Datagrams carry the
call they are about; the network loses and delays them in any order. A UDP
socket takes a datagram from its port and its upstream whatever it is about: the
code compares no ids. With `PortsRest` the system gives a port out again only
when no datagram of its former owner is under way. A TCP attempt has two timers,
one to connect and one for the exchange, as in `forward_tcp`. The module is run as
part of `PhonePath`, whose steps are its own steps or leave it alone.

### PhonePath

A datagram is a thread of the phone's forwarder (`thread`, `patience`), a UDP task of
the server, and that task's call of the chain, all under one name. `Handle` sends it
on and the server finds it in `cached` or begins a call; `Replies` caches the answer
if the server can parse it, which may or may not be so (`main.rs:389`), and sends it as
it came, as `resolve_dns_query` and its caller do in that order, whether or not
the thread still waits; `parsed` is history: the datagrams whose answer was parsed.
`GivesUp` is `recvfrom` timing out. Time is the chain's, with
the thread's timer beside it. Abstracted: the server itself takes no time and the
loopback loses nothing; the cache has room and nothing in it expires. The socket of a
thread is not connected: a late reply to a port that another thread has been given
would be relayed to the wrong client. The model does not have it, as ports of the
loopback rest.

### PacketCodec

`Parse` and `Serialise` are what the server does to a message it answers from the
cache, `BuildBlockedResponse` and `BuildFailure` what it does to a query it answers
itself. Reading and writing are recursive functions over the octets of `message`
and an offset, the code's `Cursor`; their results are a value and the next
offset, an error, or a panic (`get_u8` and `copy_to_slice` of a TXT record past
the end of the message; every other read is guarded). `ReadName` leaves the
offset where the last pointer led, as the code does. The layout is the code's on a
smaller scale: 16 values to an octet in the instance, two bits of it for pointers,
a header of three counts (authorities and additionals, read and written by the same
code one after the other, are one section), one octet for each fixed field. The flags
are the word of 16 bits of the real format. The length before a message on a
connection is the length modulo `Frame`. A message in `DnsService` is
its question, its response code and its TTLs; `FirstQuestionIsRight` says that
the question survives parsing whatever follows it. The records of a compressed
answer do not (`packet_pointers`), their TTLs included, which `DnsService` takes as
they come: any packet, with any TTLs, may be an upstream's. That a panic ends the
handler's task is not modelled there.

### PhoneService

A script is a list of calls of `vanta-vpn.sh` (and, in an update, the downloads);
each call walks over the two services, a step per access to a PID file or a
process: `StartCheck`, `Spawn`, `Record`; `StopLook`, `Kill`, `Forget`. A process
is started before its id is written, and a server loads its lists ("booting")
before it binds the port, which only one can; the forwarder binds with
`SO_REUSEADDR` and always can. `Dies` and `Reboot` may come at any step; a reboot
ends every script and process and leaves the PID files. `Alive` is `kill -0`: any
process under that id will do. `said` is history. Abstracted: the binary is
installed; what the downloads write; the delays of the launchers; `kill` takes
effect at once.

A process may end at any step, and its id may then go to anything: another program of
the user (`OtherStarts`), the other service, or the same one. What holds of a start
that has said ON is therefore `OnUnlessTaken`: everything of VantaDNS that runs is in
its PID file, and a service is missing only where a live process of another kind has
the id. That both services run after ON does not hold.

## What the runs check

| Run | Bounds | Shows |
|-----|--------|-------|
| `cache_calls` | 4 spellings of 3 names, capacity 2, answer TTLs 0 and 2 and the default 3 against bounds 1..2, half-second ticks, 5 calls | types; lifetimes within bounds; order and map agree; only the key unused longest is evicted; the books balance; the cache implements `CachePromise` |
| `service` | a datagram and a TLS connection with 2 queries, 2 names and a blocked one, capacity 1, a peer that stalls or leaves, expiry | racing misses; cached answers belong to their key; blocked names stay local; replies match questions; every query ends; `QuerySpec` is implemented |
| `startup` | 50 files in both formats, 8 environments, 5 sets of refused sockets, lists that are missing; one start over all lists with two lines of 88 between three files | room in the cache, TTL bounds and TLS files in order; chosen upstreams; lists before answers; all sockets or none; verdicts are what the lists mean; exceptions stand |
| `phone_path` | 2 datagrams for one name, a UDP and a TCP upstream with timeouts of 2, a thread that waits 2, 2 ports | on time; own answers; `ForwardSpec`; calls and threads end; what comes in time is relayed; a retry finds what came late, if it could be parsed |
| `packet_codec` | every form of a question's name, of a record's and of data, 5 types, one record or two in two sections, whole or cut off by up to 4 octets, as query and as response; every word of flags; 2 jumps | counts; names as RFC 1035 reads them; plain messages and flags survive the cache; blocked replies are right; every reply is framed by its length; the first question is right |
| `phone_scripts` | 3 scripts one after another, any commands, 4 process ids | types; one process of each kind; OFF means off; ON leaves nothing outside the PID files, and nothing missing whose id is not taken |
| `service_id`, `service_stall`, `startup_tls`, `packet_pointers`, `phone_off`, `phone_update` | small | the findings below |

Bounds. Capacity 1 and 2 make eviction, replacement and re-insertion happen
within a few calls; three keys are what it takes for the wrong key to be evicted
of two. TTLs lie below, inside and above the bounds, and two ticks to a second
make truncation visible. Two handlers are what it takes to race on the mutex and
on a key; a connection with two queries reaches the second one through a hit,
a miss, a failure and a stall, and the two handlers are the two copies of the query
logic. `Window = 1` makes one unread reply enough to block a write. `MaxOps` and
`MaxQueries` are the only bounds on counters.

In `startup` each field is written rightly and wrongly, one (or one pair) at a time,
in the configuration files the repository ships and in the flat format, against
every environment and every refusal; the environments set the TLS variables in both
spellings and the upstreams. Lists get two lines between them because a verdict
depends on one line that blocks and one that excepts, in the same file or another.

In `phone_path` a UDP and a TCP upstream have between them the three waits of the
forwarder. Timeouts of two ticks leave room for an answer before the last moment, at
it, and after it; the thread waits as long as the first upstream may take, as in the
code (5 seconds each). Two ports are one for each UDP attempt, whatever is still under
way to the other.

In `packet_codec` pointers lead to the question, into it, to themselves and past the
end; two jumps are enough for a chain and for a loop to be cut off. `Frame` (20) is
less than the longest message, so that the longest replies do not fit one: the
property asks for room for the reply, the record of an added address included
(`Growth`), and that it fits is what is checked. Messages with pointers, which grow
when they are written out, are not plain; neither is text that is not UTF-8, which
grows by its U+FFFD. Such messages no longer say the same (`packet_pointers`, and
below), framed rightly or not.
`phone_scripts` runs one script at a time (`AtOnce`); `phone_off` shows what two at
once do. Four ids are enough for two services, a process on its way and another
program. Three scripts reach a
start after a stop after a start, each cut short or over dead processes.
Deadlock is checked except where the bound itself stops the model (`MaxOps`,
`Scripts`), where a start has come to its end, and where a message has been written.

Fairness. `LiveSpec` of `DnsService` assumes that tokio runs each task that can
run and that its mutex, which is first come first served, is had by every task
that keeps asking (strong fairness per handler), and that peers read what they
are sent or hang up. Nothing is assumed of clients' queries or of the clock.
`ServerOnlySpec` drops the assumption on peers. `LiveSpec` of
`UpstreamForwarder` assumes that time passes and that tasks act on what is due;
of the network and the upstreams nothing, not even an error. `PathLiveSpec` is the
same with the threads of the phone beside it: a `recvfrom` whose timeout is over
returns, and an answer the chain has given is sent.

## What the runs found

- `service_stall`: a connection that hits the cache holds the cache mutex while it
  writes (`main.rs:470-477`). A peer that does not read keeps it for ever and with
  it every query on every transport, against `docs/architecture.md:11`.
- `service_id`: a cached packet is sent with the transaction id it was stored with
  (`main.rs:380-382`, `471-475`), so that its client discards it, where
  `docs/architecture.md:88-90` has a hit answered from the cache.
- `startup_tls`: `config/docker-vanta-dns.toml` binds TCP to port 853 and says that
  `TLS_CERT` and `TLS_KEY` enable the TLS listener, whose port is 853 unless another
  is written. With both set, the server says ONLINE, starts its loops, cannot bind
  port 853 a second time (`main.rs:302`) and ends.
- `packet_pointers`: `read_domain_name` does not come back from a pointer
  (`question.rs:135`, against the comment at 104). Nearly every answer of a real
  resolver names its records by a pointer to the question: such a record is parsed
  from the question's type and class on, its TTL is made of the pointer, and a hit
  sends it to clients in that shape. Only the first reply, relayed as it came, is
  right.
- `phone_off`: a PID file is written after its process has been started, under no
  lock; a stop in between finds nothing, says "VantaDNS is OFF." and leaves the
  process running (`vanta-vpn.sh:69-70`, `88-89`).
- `phone_update`: the updater stops the server and, under `set -e`, ends at a first
  list that cannot be fetched (`update-blocklists.sh:91-92`) without starting it
  again.

Seen on the way, without a run of their own: on UDP the query is dropped when all
upstreams have failed (`main.rs:395-398`, where `docs/architecture.md:104-106` has
SERVFAIL, which connections get); a start takes any live process under an id on file for the service
(`vanta-vpn.sh:57`, `83`), and no file is removed when a process dies, so that after a
reboot it may say "VantaDNS is ON on your phone." (line 107) with a service missing,
its id now another program's or the other service's (`OnUnlessTaken` leaves exactly
this open); a TXT string that overruns its message panics
(`rr.rs:74-78`); label lengths the RFC reserves (64 to 191) are taken for labels
(`question.rs:137`); `insert` counts an eviction also when
it replaces a key of a full cache (`lru_cache.rs:102`; `BooksBalance` therefore
bounds the counter from below only); a connection writes the reply first and caches
the answer after it, so that a failed write loses it (`main.rs:481-488`, where
`README.md:88` has "Update Cache & Return"); `README.md:80-88` draws the cache
before the filter, the code asks the filter first.

In configuration and start-up: the `Dockerfile` runs
`/data/docker-vanta-dns.toml` and copies no file there, so that a container without a
mount runs on the built-in configuration, to which `VANTA_DNS_UPSTREAMS` and the TLS
variables are not applied, with no lists; `block_mode` is validated in any case of
letters (`config.rs:168`) but compared exactly (`main.rs:366`, `458`), so that
"NXDOMAIN" is accepted, printed as the mode (`main.rs:152`), and acts as `zero_ip`
(`ConfigIsSound` says nothing of the mode); `tls_enabled = false` cannot be told from its absence,
so that "TLS isn't disabled explicitly" (`config.rs:206-207`) is never the case; a
list of upstreams of which none parses makes an empty chain, not the legacy one.

In messages: strings that are not UTF-8 come out of the cache with U+FFFD in them;
truncated UDP answers are cached and served on connections too; hits and blocked
replies on a connection are written without the flush that other replies get
(`main.rs:462`, `476`).

## What is proved

TLAPS proves the safety properties of the passing runs for every value of the
constants: any number of names, keys, handlers, upstreams, lines, files, scripts and
processes, messages of any length, any capacity, TTL and timeout.

| Module | Theorems | Inductive invariant |
|--------|----------|---------------------|
| `DnsCacheProofs` | `CacheTypeCorrect`, `CacheBounded`, `CacheLifetimes` | `CacheInv` |
| `CacheHistoryProofs` | `CacheBooksBalance`, `LeastRecentlyUsedGoes`, `CacheKeepsPromise` | `HistoryInv` |
| `DnsServiceProofs` | `ServiceTypesCorrect`, `BlockedNamesStayLocal`, `CacheAnswersItsKeys`, `RepliesLineUp`, `UdpStoresFirst`, `ClientsSeeQuerySpec` | `ServiceInv` |
| `PhonePathProofs` (the chain) | `ForwarderTypes`, `CallsKeepToTheirTime`, `CallsGetTheirAnswer`, `ChainKeepsContract` | `ForwarderInv` |
| `PhonePathProofs` (the path) | `PathRunsTheChain`, `PathKeepsTheChain`, `PathTypes`, `AnswersInTimeGetThrough`, `RetriesGetAnswers` | `PathInv` |
| `DomainFilterProofs` | `TriesHoldNames`, `VerdictsAreRight`, `ExceptionsAreKept` | `FilterInv` |
| `ServerStartupProofs` | `StartupLoadsTheFilter`, `StartupKeepsTheLists`, `StartupTypes`, `ConfigsAreSound`, `NamedUpstreamsAreAsked`, `ListsComeFirst`, `StartsAreWhole` | `StartupInv` |
| `PhoneServiceProofs` | `PhoneTypes`, `NothingRunsTwice`, `OffIsOff`, `OnUnlessIdTaken` | `ScriptsOK`, `PhoneInv` |
| `CodecProofs` | `CodecTyped`, `NamesHold`, `FirstQuestionHolds`, `FlagsHold`, `PlainMessagesHold`, `FramesHold`, `BlockedRepliesHold` | `CodecInv` |

Each module has an invariant, a lemma per action that the action keeps it, and
theorems that read the properties off it. No property is inductive as it stands:

- *cache*. `CacheInv`: entries are well formed, of the past and within the bounds, the
  order of use is an injective sequence of exactly the keys present, the map is
  finite and within capacity. That the key pushed out is a key of the map, and that
  pushing it out makes room for exactly one, needs order and map to match.
- *cache with history*. `HistoryInv` adds that the order of use is the order of the
  last touches, from which the oldest key goes first; that arrivals, departures and
  statistics add up; and that every entry has the lifetime the promise computes.
  `CacheKeepsPromise` goes step by step: each operation maps to the operation of
  `CachePromise` of that name or to a stutter.
- *handlers*. `ServiceInv` says of each handler, by its place, what its reply may be
  (`Good`: blocked, of the cache, of an upstream, a failure, each to its own query)
  and how far its replies lag behind its questions (`LengthsOK`), and of the cache
  that what is under a key answers it and has come from an upstream. A step of one
  handler leaves what is said of another in place because the histories only grow.
  The lemmas of `DnsCacheProofs` on `get` and `insert` are used as they are.
- *chain*. `ForwarderInv` bounds the time of a call by the budget of the upstreams
  before the one it is at and what its timer has left (`CallsOK`), and says that a
  port is held by one call and that datagrams to it are that call's (`SocketsOK`).
- *phone's path*. Its steps are steps of the chain or leave the chain alone, so that
  its theorems hold on the path; `PathInv` adds that a thread and its call keep the
  same time while both run, and that the cache knows exactly the names of the answers
  that were parsed.
- *filter*. `FilterInv`: the tries hold the rules of the lines read, no more and no
  less. The work is in the lemmas that a name matches what a line inserts exactly
  when the line covers it, form by form.
- *start*. `StartupInv`: what has been read and what is still to be read are together
  all the lists of the configuration; each stage has the sockets of those before it;
  the configuration is `Load` of the scenario. `KeptIs` says what the loop of
  `resolve_upstreams` collects.
- *phone's scripts*. With one script at a time `PhoneInv` says what is true at each
  step of it (`Alone`): nothing of a service runs but what its PID file names, or the
  one process whose id is about to be written; in a start, a service that was found or
  recorded has an id that is alive. What else has that id is left open. `phone_off` shows that it is false of
  two. `ScriptsOK`, the types, needs no such bound.
- *codec*. `CodecInv` ties packet and reply to the message: the packet is what
  `ReadPacket` gives, the reply what `ToBytes` makes of it. The work is in the
  functions. Readers are recursive functions over places in a message, and the prover
  knows nothing of a recursive function but its `CHOOSE`. So each is first shown to
  exist and to satisfy its equation: `Recursion` does this for any function whose value
  at a place depends on places of smaller measure only (`Local`), and `Induction`
  proves what all places have in common. The measure of a place is the octets that are
  left and, for names, the pointers that may still be followed: every step of
  `read_domain_name` moves on or spends a pointer. `NamesHold` is one such induction
  over both readers at once (`Agrees`). The round trip is proved from the inside
  out: octets *carry* a value if the reference reads it wherever they stand
  (`NameCarries`, ..., `SectionCarries`), what is written of a label carries it, and so
  on for names, strings, data, questions, records, sections and messages. For
  `FramesHold` the octets of each reply are counted: those of a plain message are as
  many as were read, a failure's are fewer, and the reply with an address has those of
  its record more (`AddedLength`).

Assumptions. They are those named in the modules, which TLC evaluates on every run:
`Lower` is idempotent, TTLs and instants are naturals, `MinTtl <= MaxTtl` (what
`validate` lets through); queries have lower-cased names (`ParsedNames`: the parser
makes them, `question.rs:151`); timeouts are positive, a chain is a sequence of UDP
and TCP upstreams, "no port" is no port (`ForwarderAssumption`); names and lines are
made of labels; fields of files and variables have the types `config.rs` gives them
(`ScenariosAssumption`). In the codec an octet has at least four values and octets are
lower-cased to octets (`CodecAssumption`); lower case is idempotent, never turns text
into what is no text, and the sign for what is no text is made of octets
(`TextAssumption`); the five types of records are different octets
(`RecordAssumption`); a message has octets, a word of 16 bits, and less than five
octets per record a count can announce, so that one answer more can still be counted
(`MessageAssumption`; of the code, a message of at most 65535 octets, where a question
takes five octets and a record more). A few theorems have a hypothesis of their own:
`CacheKeepsPromise` wants `MaxTtl < U32`, beyond which `remaining_ttl_secs`
truncates; `VerdictsAreRight` and `StartupKeepsTheLists` want that the names asked
for have no label that is a star or has rule syntax glued to it (`NamesArePlain`):
such a name would match a line that is in none of the documented forms;
`NothingRunsTwice`, `OffIsOff` and `OnUnlessIdTaken` want `AtOnce = 1`.
`CallsGetTheirAnswer` is about ports that rest, as the property says.

Only model-checked:

- liveness (`EveryQueryEnds`, `CallsEnd`, `ThreadsEnd`), which the prover cannot do;
- that the properties of the violation runs fail, for which an instance is enough.

## Not modelled

- The text of names: dots inside a label and letters outside ASCII. A name is its
  labels, in the codec as in the filter.
- What a TOML file or a PEM file is made of; `ServerConfig` has the fields,
  `ServerStartup` the pairs that are accepted.
- The flush of a TLS stream and partial writes: a write and its flush are one step.
- The health types (`health/state.rs`): data and a formatter that nothing sets.
- The subcommands of the command line (self-test, benchmark, print the
  configuration), which keep no state, and logging.
- What the downloads of the updater write and what the installer fetches.
- The PowerShell scripts, which drive programs outside the repository.
- The instant an answer arrived, as against the instant it is stored: on a connection
  the TTL clock starts when the peer has taken the reply. Nothing in the code bounds
  how much later that is, and no document promises a bound.
- TTLs of 2^32 seconds and more, which the configuration allows.

## Plan

The model covers every part of the server that keeps state, and the scripts around
it; what it promises of safety is proved. What would come next:

1. `UpstreamForwarder` in place of the chain of `DnsService`, if the instances can
   carry it: today `ForwardSpec`, which `ChainKeepsContract` proves of the forwarder,
   stands for it there;
2. the text of names, with dots inside labels and letters outside ASCII.
