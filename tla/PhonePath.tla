----------------------------- MODULE PhonePath -----------------------------
(***************************************************************************)
(* The way of a query on the phone: a thread of dns-udp-forwarder.py per   *)
(* datagram, the UDP task of the server it asks, and that task's call of   *)
(* forward_raw (module UpstreamForwarder).  The thread has a timeout of    *)
(* its own and knows nothing of the chain's: the server goes on when it    *)
(* has given up.  A client that hears nothing asks again, with a datagram  *)
(* of its own.                                                             *)
(*                                                                         *)
(* The server and the phone's loopback take no time and lose nothing, a    *)
(* port of a thread is not used again while a reply to it is due, and the  *)
(* cache is the set of names it has a live entry for.                      *)
(***************************************************************************)
EXTENDS UpstreamForwarder

CONSTANTS
    NameOf,     \* [Calls -> the name a datagram asks for]
    PhoneWait   \* TIMEOUT of the thread

ASSUME PhoneAssumption == PhoneWait \in Nat \ {0}

VARIABLES
    thread,     \* where the thread of each datagram is
    patience,   \* what is left of its timeout
    cached,     \* names in the cache of the server
    served,     \* datagrams the server is done with
    parsed      \* history: those whose answer from upstream it could parse

phoneVars == <<thread, patience, cached, served, parsed>>
pathVars == <<vars, phoneVars>>

\* A thread sends its datagram on; the server finds the name in its cache and
\* replies, or calls the chain.
Handle(c) ==
    /\ thread[c] = "idle"
    /\ patience' = [patience EXCEPT ![c] = PhoneWait]
    /\ \/ /\ NameOf[c] \in cached
          /\ thread' = [thread EXCEPT ![c] = "relayed"]
          /\ served' = served \union {c}
          /\ UNCHANGED <<vars, cached, parsed>>
       \/ /\ NameOf[c] \notin cached
          /\ thread' = [thread EXCEPT ![c] = "waiting"]
          /\ Begin(c)
          /\ UNCHANGED <<cached, served, parsed>>

\* Mistake: the thread waits for one tick less.
GivesUpEarly(c) ==
    /\ thread[c] = "waiting" /\ patience[c] <= 1
    /\ thread' = [thread EXCEPT ![c] = "dropped"]
    /\ UNCHANGED <<vars, patience, cached, served, parsed>>

\* Mistake: recvfrom is called again after a timeout.
GivesUpRetrying(c) ==
    /\ thread[c] = "waiting" /\ patience[c] = 0
    /\ patience' = [patience EXCEPT ![c] = PhoneWait]
    /\ UNCHANGED <<vars, thread, cached, served, parsed>>

\* recvfrom times out: the datagram is dropped.
GivesUp(c) ==
    /\ thread[c] = "waiting" /\ patience[c] = 0
    /\ thread' = [thread EXCEPT ![c] = "dropped"]
    /\ UNCHANGED <<vars, patience, cached, served, parsed>>

\* Mistake: an answer is cached only if its reply is taken, as on a connection.
StoredIfHeard(c) == IF thread[c] = "waiting" THEN {NameOf[c]} ELSE {}

Stored(c) == {NameOf[c]}

\* The UDP task of the server caches the answer if it can parse it, then sends
\* it as it came; a thread that has not given up relays it.
Replies(c) ==
    /\ pc[c] = "answered" /\ c \notin served
    /\ \/ cached' = cached \union Stored(c) /\ parsed' = parsed \union {c}
       \/ UNCHANGED <<cached, parsed>>
    /\ served' = served \union {c}
    /\ thread' = [thread EXCEPT ![c] = IF @ = "waiting" THEN "relayed" ELSE @]
    /\ UNCHANGED <<vars, patience>>

\* Time passes for the chain's calls, if there are any, and for the threads.
PhoneTick ==
    /\ \A c \in Calls : /\ thread[c] = "waiting" => patience[c] > 0
                        /\ pc[c] = "answered" => c \in served
    /\ \/ Tick
       \/ /\ \E c \in Calls : thread[c] = "waiting"
          /\ \A c \in Calls : pc[c] \notin Waiting \union {"trying"}
          /\ UNCHANGED vars
    /\ patience' =
          [c \in Calls |-> IF thread[c] = "waiting" THEN patience[c] - 1 ELSE patience[c]]
    /\ UNCHANGED <<thread, cached, served, parsed>>

PathInit ==
    /\ Init
    /\ thread = [c \in Calls |-> "idle"] /\ patience = [c \in Calls |-> 0]
    /\ cached = {} /\ served = {} /\ parsed = {}

\* The bounds of the model: no further datagrams.
PathFinished ==
    /\ \A c \in Calls : thread[c] \in {"relayed", "dropped"}
                        /\ pc[c] \in Ended \union {"idle"}
                        /\ (pc[c] = "answered" => c \in served)
    /\ UNCHANGED pathVars

Forwards(c) == (Proceed(c) \/ Happens(c)) /\ UNCHANGED phoneVars

PathNext ==
    \/ \E c \in Calls : Handle(c) \/ GivesUp(c) \/ Replies(c) \/ Forwards(c)
    \/ \E d \in net : (UpstreamAnswers(d) \/ Lose(d)) /\ UNCHANGED phoneVars
    \/ PhoneTick
    \/ PathFinished

PathSpec == PathInit /\ [][PathNext]_pathVars

\* As in UpstreamForwarder: tasks and threads run, timers fire, time passes.
PathLiveSpec ==
    /\ PathSpec /\ WF_pathVars(PhoneTick)
    /\ \A c \in Calls :
          WF_pathVars(Proceed(c) /\ UNCHANGED phoneVars) /\ WF_pathVars(GivesUp(c) \/ Replies(c))

-----------------------------------------------------------------------------
(* Properties                                                              *)

\* Types, and the cache knows the name of every datagram for which the server
\* could parse an answer, whether or not anybody took the reply.
PathTypeOK ==
    /\ ForwarderTypeOK
    /\ thread \in [Calls -> {"idle", "waiting", "relayed", "dropped"}]
    /\ patience \in [Calls -> 0 .. PhoneWait]
    /\ parsed \subseteq served
    /\ cached = {NameOf[c] : c \in parsed}

\* No answer that comes before the thread's timeout is dropped on the phone,
\* however many upstreams it took (dns-udp-forwarder.py:21-24).
AnswersInTimeAreRelayed ==
    \A c \in served : elapsed[c] < PhoneWait => thread[c] = "relayed"

\* The phone gives up as soon as a single upstream has been silent for the
\* time both allow: what makes it work is that the server goes on and caches
\* before it sends (main.rs:389-393, 267), so that a client that asks again
\* once any earlier call has had an answer that can be parsed, heard or not, is
\* answered at once.  One that cannot be parsed is relayed and leaves nothing.
RetriesAreAnswered ==
    [][\A c \in Calls :
          /\ thread[c] = "idle" /\ thread'[c] # "idle"
          /\ \E d \in parsed : NameOf[d] = NameOf[c]
          => thread'[c] = "relayed"]_pathVars

\* Every thread ends, though the server says nothing when its chain has
\* failed: no thread is left behind by a dead network.
ThreadsEnd == \A c \in Calls : thread[c] = "waiting" ~> thread[c] \in {"relayed", "dropped"}
=============================================================================
