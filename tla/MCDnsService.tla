---------------------------- MODULE MCDnsService ----------------------------
(***************************************************************************)
(* Instances of DnsService for TLC.                                        *)
(***************************************************************************)
EXTENDS DnsService

LowerCase == [d \in Domains |-> d]

MCVerdict == [d \in Domains |-> IF d = "ads" THEN "Blocked" ELSE "Allowed"]

\* Datagrams and connections use ids of their own.
MCAsks ==
    [h \in Datagrams \union Conns |->
        [id : {IF h \in Conns THEN "j" ELSE "i"}, name : Domains, qtype : QueryTypes]]

\* Every client uses every id.
AnyAsks == [h \in Datagrams \union Conns |-> [id : Ids, name : Domains, qtype : QueryTypes]]

MCBodies ==
    {Garbled} \union [id : Ids, name : Domains \ {"ads"}, qtype : QueryTypes,
                      rcode : UpstreamRcodes]
=============================================================================
