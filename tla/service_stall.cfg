SPECIFICATION ServerOnlySpec
CONSTANTS
    Domains = {"a"}
    Lower <- LowerCase
    QueryTypes = {"A"}
    Bodies <- MCBodies
    AnswerTtls = {1}
    Capacity = 1
    MinTtl = 1
    MaxTtl = 2
    DefaultTtl = 2
    Second = 1
    U32 = 8
    Instants = {0, 1}
    Datagrams = {u1}
    Conns = {c1}
    TlsConns = {}
    Asks <- AnyAsks
    Ids = {"i"}
    Verdict <- MCVerdict
    BlockedRcode = "NXDomain"
    Upstreams = 1
    UpstreamRcodes = {"NoError"}
    MaxQueries = 2
    Window = 1
    Nobody = Nobody
PROPERTIES
    LookUpsGetThrough
