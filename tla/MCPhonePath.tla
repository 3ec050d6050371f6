---------------------------- MODULE MCPhonePath ----------------------------
(***************************************************************************)
(* Instances of PhonePath for TLC.                                         *)
(***************************************************************************)
EXTENDS PhonePath

\* A resolver over UDP, then one over TCP.
MCChain == <<[addr |-> "r1", transport |-> "udp"], [addr |-> "r2", transport |-> "tcp"]>>

\* Every datagram asks for the same name.
MCNameOf == [c \in Calls |-> "n"]
=============================================================================
