---------------------------- MODULE PhoneService ----------------------------
(***************************************************************************)
(* VantaDNS on a phone: the scripts that start, stop, toggle and update    *)
(* the server and its UDP forwarder (phone/vanta-vpn.sh, the launchers     *)
(* beside it, update-blocklists.sh), and the processes they know only by   *)
(* PID files.                                                              *)
(*                                                                         *)
(* A step of a script is what it does to a file or a process; scripts      *)
(* started by a tap, a shell or the boot hook interleave.  Android may     *)
(* kill a process at any time and reboot takes all of them; PID files      *)
(* survive both.  The system gives any free id to a new process, so that   *)
(* an id a PID file still names may come to belong to the other service or *)
(* to another process of the same user, which kill -0 takes for the        *)
(* service.                                                                *)
(***************************************************************************)
EXTENDS Naturals, Sequences, FiniteSets

CONSTANTS
    Scripts,      \* invocations considered, each runs one command
    Pids,         \* process ids
    AtOnce,       \* bound: scripts that run at the same time
    NoPid

ASSUME PhoneAssumption ==
    /\ AtOnce \in Nat
    /\ NoPid \notin Pids

VARIABLES
    process,   \* [Pids -> what runs under it]: "other" is a process of the
               \* user that has nothing to do with VantaDNS
    pidfile,   \* [Services -> Pids or NoPid]: vantadns.pid, vantadns-forwarder.pid
    command,   \* [Scripts -> the command the script was started with]
    pc,        \* [Scripts -> where it is]
    calls,     \* [Scripts -> calls of vanta-vpn.sh and downloads left to do]
    service,   \* [Scripts -> the service it is at]
    child,     \* [Scripts -> $!, the process it has just started]
    said       \* history: "ON" or "OFF" as the last call logged, the last
               \* command that ended, and whether a process has died of itself
               \* since the last script was started

vars == <<process, pidfile, command, pc, calls, service, child, said>>

Services == {"server", "forwarder"}
Commands == {"start", "stop", "toggle", "update"}

\* A server loads its lists before it binds its port: it is "booting".
Runs(sv) == IF sv = "server" THEN {"booting", "server"} ELSE {"forwarder"}

Of(sv) == {p \in Pids : process[p] \in Runs(sv)}

\* kill -0: some process of the user has the id
Alive(p) == p # NoPid /\ process[p] # "free"

Running(s) == pc[s] \notin {"idle", "ended"}
Quiet == \A s \in Scripts : ~Running(s)

-----------------------------------------------------------------------------
(* Scripts as lists of calls                                               *)

\* start_vantadns and the boot hook are "start", stop_vantadns is "stop".
CallsOf ==
    [start |-> <<"start">>, stop |-> <<"stop">>, toggle |-> <<"status">>,
     update |-> <<"stop", "download", "start">>]

FirstStep ==
    [start |-> "check", stop |-> "look", status |-> "status", download |-> "download"]

\* start sees to the server first, stop to the forwarder.
FirstService(call) == IF call = "stop" THEN "forwarder" ELSE "server"

\* Script s goes on with the calls in todo.
Goes(s, todo) ==
    /\ calls' = [calls EXCEPT ![s] = todo]
    /\ pc' = [pc EXCEPT ![s] = IF todo = <<>> THEN "ended" ELSE FirstStep[Head(todo)]]
    /\ service' = [service EXCEPT ![s] =
                     IF todo = <<>> THEN @ ELSE FirstService(Head(todo))]

\* A call has logged that VantaDNS is ON or OFF and returns.
Returns(s, what) ==
    /\ Goes(s, Tail(calls[s]))
    /\ said' = [said EXCEPT !.what = what,
                            !.last = IF Len(calls[s]) = 1 THEN command[s] ELSE @]

At(s, step) ==
    /\ pc' = [pc EXCEPT ![s] = step]
    /\ UNCHANGED <<calls, service, said>>

Launch(s, cmd) ==
    /\ pc[s] = "idle"
    /\ Cardinality({t \in Scripts : Running(t)}) < AtOnce
    /\ command' = [command EXCEPT ![s] = cmd]
    /\ Goes(s, CallsOf[cmd])
    /\ said' = [said EXCEPT !.died = FALSE]
    /\ UNCHANGED <<process, pidfile, child>>

-----------------------------------------------------------------------------
(* vanta-vpn.sh start: start_server, then start_forwarder                  *)

\* The service that is seen to next, or the end of the call.
StartNext(s) ==
    IF service[s] = "server"
    THEN /\ service' = [service EXCEPT ![s] = "forwarder"]
         /\ pc' = [pc EXCEPT ![s] = "check"]
         /\ UNCHANGED <<calls, said>>
    ELSE Returns(s, "ON")

\* Mistake: a PID file is proof enough.
TrustsPidFile(s) == pidfile[service[s]] # NoPid

\* Mistake: nobody looks.
TrustsNothing(s) == FALSE

\* The PID file is there and its process answers.
AlreadyRunning(s) == Alive(pidfile[service[s]])

StartCheck(s) ==
    /\ pc[s] = "check"
    /\ IF AlreadyRunning(s) THEN StartNext(s) ELSE At(s, "spawn")
    /\ UNCHANGED <<process, pidfile, command, child>>

\* Mistake: the id of the new process is not kept.
SpawnForgotten(s, p) ==
    /\ pc[s] = "spawn"
    /\ process[p] = "free"
    /\ process' = [process EXCEPT ![p] =
                     IF service[s] = "server" THEN "booting" ELSE "forwarder"]
    /\ At(s, "record")
    /\ UNCHANGED <<pidfile, command, child>>

\* nohup ... &: the process runs before its id is written anywhere.
Spawn(s, p) ==
    /\ pc[s] = "spawn"
    /\ process[p] = "free"
    /\ process' = [process EXCEPT ![p] =
                     IF service[s] = "server" THEN "booting" ELSE "forwarder"]
    /\ child' = [child EXCEPT ![s] = p]
    /\ At(s, "record")
    /\ UNCHANGED <<pidfile, command>>

Record(s) ==
    /\ pc[s] = "record"
    /\ pidfile' = [pidfile EXCEPT ![service[s]] = child[s]]
    /\ StartNext(s)
    /\ UNCHANGED <<process, command, child>>

-----------------------------------------------------------------------------
(* vanta-vpn.sh stop: stop_forwarder, then stop_server                     *)

StopNext(s) ==
    IF service[s] = "forwarder"
    THEN /\ service' = [service EXCEPT ![s] = "server"]
         /\ pc' = [pc EXCEPT ![s] = "look"]
         /\ UNCHANGED <<calls, said>>
    ELSE Returns(s, "OFF")

StopLook(s) ==
    /\ pc[s] = "look"
    /\ IF pidfile[service[s]] = NoPid THEN StopNext(s) ELSE At(s, "kill")
    /\ UNCHANGED <<process, pidfile, command, child>>

\* Mistake: only a server that listens is killed, not one that loads its lists.
KillListening(s) ==
    /\ pc[s] = "kill"
    /\ LET p == pidfile[service[s]]
       IN  process' = IF Alive(p) /\ process[p] # "booting"
                      THEN [process EXCEPT ![p] = "free"] ELSE process
    /\ At(s, "forget")
    /\ UNCHANGED <<pidfile, command, child>>

\* Whatever the PID file names by now; an error is ignored.
Kill(s) ==
    /\ pc[s] = "kill"
    /\ LET p == pidfile[service[s]]
       IN  process' = IF Alive(p) THEN [process EXCEPT ![p] = "free"] ELSE process
    /\ At(s, "forget")
    /\ UNCHANGED <<pidfile, command, child>>

Forget(s) ==
    /\ pc[s] = "forget"
    /\ pidfile' = [pidfile EXCEPT ![service[s]] = NoPid]
    /\ StopNext(s)
    /\ UNCHANGED <<process, command, child>>

-----------------------------------------------------------------------------
(* toggle_vantadns and update-blocklists.sh                                *)

\* Stop if anything is RUNNING, start otherwise.
Toggle(s) ==
    /\ pc[s] = "status"
    /\ Goes(s, IF \E sv \in Services : Alive(pidfile[sv])
               THEN <<"stop">> ELSE <<"start">>)
    /\ UNCHANGED <<process, pidfile, command, child, said>>

\* The downloads that must succeed have, the others may have failed.
Downloaded(s) ==
    /\ pc[s] = "download"
    /\ Goes(s, Tail(calls[s]))
    /\ UNCHANGED <<process, pidfile, command, child, said>>

\* The first list cannot be fetched: set -e ends the script.
DownloadFails(s) ==
    /\ pc[s] = "download"
    /\ Goes(s, <<>>)
    /\ said' = [said EXCEPT !.last = command[s]]
    /\ UNCHANGED <<process, pidfile, command, child>>

-----------------------------------------------------------------------------
(* Processes                                                               *)

Becomes(p, what) ==
    /\ process' = [process EXCEPT ![p] = what]
    /\ UNCHANGED <<pidfile, command, pc, calls, service, child>>

\* Only one server can bind 127.0.0.1:8533; another one ends with an error.
\* The forwarder sets SO_REUSEADDR and always binds.
Bind(p) ==
    /\ process[p] = "booting"
    /\ Becomes(p, IF \E q \in Pids : process[q] = "server" THEN "free" ELSE "server")
    /\ UNCHANGED said

\* Another program is started.
OtherStarts(p) ==
    /\ process[p] = "free"
    /\ Becomes(p, "other")
    /\ UNCHANGED said

\* Android kills a background process, it crashes, or another program ends.
Dies(p) ==
    /\ process[p] # "free"
    /\ Becomes(p, "free")
    /\ said' = [said EXCEPT !.died = TRUE]

\* The phone restarts.
Reboot ==
    /\ \E p \in Pids : process[p] # "free"
    /\ process' = [p \in Pids |-> "free"]
    /\ pc' = [s \in Scripts |-> IF Running(s) THEN "ended" ELSE pc[s]]
    /\ said' = [said EXCEPT !.last = "reboot", !.died = TRUE]
    /\ UNCHANGED <<pidfile, command, calls, service, child>>

Init ==
    /\ process = [p \in Pids |-> "free"]
    /\ pidfile = [sv \in Services |-> NoPid]
    /\ command = [s \in Scripts |-> "none"]
    /\ pc = [s \in Scripts |-> "idle"]
    /\ calls = [s \in Scripts |-> <<>>]
    /\ service = [s \in Scripts |-> "server"]
    /\ child = [s \in Scripts |-> NoPid]
    /\ said = [what |-> "OFF", last |-> "none", died |-> FALSE]

Script(s) ==
    \/ \E cmd \in Commands : Launch(s, cmd)
    \/ StartCheck(s)
    \/ \E p \in Pids : Spawn(s, p)
    \/ Record(s)
    \/ StopLook(s)
    \/ Kill(s)
    \/ Forget(s)
    \/ Toggle(s)
    \/ Downloaded(s)
    \/ DownloadFails(s)

Next ==
    \/ \E s \in Scripts : Script(s)
    \/ \E p \in Pids : Bind(p) \/ OtherStarts(p) \/ Dies(p)
    \/ Reboot

Spec == Init /\ [][Next]_vars

-----------------------------------------------------------------------------
(* Properties                                                              *)

\* Types: a script that runs has a call to do, and one that has spawned a
\* service has its id.
PhoneTypeOK ==
    /\ process \in [Pids -> {"free", "booting", "server", "forwarder", "other"}]
    /\ pidfile \in [Services -> Pids \union {NoPid}]
    /\ \A s \in Scripts : Running(s) => calls[s] # <<>>
    /\ \A s \in Scripts : pc[s] = "record" => child[s] \in Pids

\* Two of a kind never run: a second server has no port, a second forwarder
\* takes datagrams from the first and is known to no PID file.
OneOfEach == \A sv \in Services : Cardinality(Of(sv)) <= 1

\* "VantaDNS is OFF." (vanta-vpn.sh:113): once a stop has said so and until
\* somebody starts it again, nothing of it runs.
OffMeansOff == Quiet /\ said.what = "OFF" => \A sv \in Services : Of(sv) = {}

\* What "VantaDNS is ON on your phone." (vanta-vpn.sh:107) is worth, after any
\* deaths, reboots and stale PID files: nothing of VantaDNS runs that the next
\* stop would not find in its PID file, and each PID file names a live process,
\* which is the service unless another one has taken the id (lines 57, 83).  Not
\* if a process has died in the meantime.
OnUnlessTaken ==
    Quiet /\ said.what = "ON" /\ ~said.died =>
        \A sv \in Services : Of(sv) \subseteq {pidfile[sv]} /\ Alive(pidfile[sv])

\* "Then reloads the server." (update-blocklists.sh:5): an update that has
\* ended leaves the server running.
UpdateReloads == Quiet /\ said.last = "update" => said.what # "OFF"
=============================================================================
