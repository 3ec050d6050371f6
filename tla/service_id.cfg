SPECIFICATION Spec
CONSTANTS
    Domains = {"a", "b"}
    Lower <- LowerCase
    QueryTypes = {"A"}
    Bodies <- MCBodies
    AnswerTtls = {1}
    Capacity = 1
    MinTtl = 1
    MaxTtl = 2
    DefaultTtl = 2
    Second = 1
    U32 = 8
    Instants = {0, 1}
    Datagrams = {u1, u2}
    Conns = {}
    TlsConns = {}
    Asks <- AnyAsks
    Ids = {"i", "j"}
    Verdict <- MCVerdict
    BlockedRcode = "NXDomain"
    Upstreams = 1
    UpstreamRcodes = {"NoError"}
    MaxQueries = 1
    Window = 1
    Nobody = Nobody
INVARIANTS
    RepliesCarryTheQueryId
