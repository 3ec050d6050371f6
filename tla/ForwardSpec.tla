---------------------------- MODULE ForwardSpec -----------------------------
(***************************************************************************)
(* What a query handler of dns-core relies on when it calls the upstream   *)
(* forwarder, and what module DnsService takes it to do: the upstreams of  *)
(* the chain are tried one after the other, each at most once; the first   *)
(* to answer ends the call; the call fails when every one has failed it,   *)
(* and only then.                                                          *)
(***************************************************************************)
EXTENDS Naturals

CONSTANTS Calls, Upstreams   \* calls of forward_raw; length of the chain

VARIABLES tried, outcome     \* upstreams that failed the call; how it stands

vars == <<tried, outcome>>

Failed(c) == outcome[c] = "begun" /\ tried[c] = Upstreams

Init ==
    /\ tried = [c \in Calls |-> 0]
    /\ outcome = [c \in Calls |-> "idle"]

Begin(c) ==
    /\ outcome[c] = "idle"
    /\ outcome' = [outcome EXCEPT ![c] = "begun"]
    /\ UNCHANGED tried

UpstreamFails(c) ==
    /\ outcome[c] = "begun" /\ ~Failed(c)
    /\ tried' = [tried EXCEPT ![c] = @ + 1]
    /\ UNCHANGED outcome

UpstreamAnswers(c) ==
    /\ outcome[c] = "begun" /\ ~Failed(c)
    /\ outcome' = [outcome EXCEPT ![c] = "answered"]
    /\ UNCHANGED tried

Next == \E c \in Calls : Begin(c) \/ UpstreamFails(c) \/ UpstreamAnswers(c)

Spec == Init /\ [][Next]_vars
=============================================================================
