------------------------- MODULE PhoneServiceProofs -------------------------
(***************************************************************************)
(* What the scripts of the phone come to for any number of commands and of *)
(* processes: the types for scripts that interleave as they like, the rest *)
(* for scripts that run one at a time, which is all that is true of them   *)
(* (run phone_off).                                                        *)
(***************************************************************************)
EXTENDS PhoneService, SequenceTheorems, FiniteSetTheorems, TLAPS

-----------------------------------------------------------------------------
(* The inductive invariant                                                 *)

StartSteps == {"check", "spawn", "record"}
StopSteps == {"look", "kill", "forget"}
Steps == StartSteps \union StopSteps \union {"status", "download", "idle", "ended"}

\* What a script may have left to do: a start is always its last call.
CallLists ==
    {<<>>, <<"start">>, <<"stop">>, <<"status">>, <<"download", "start">>,
     <<"stop", "download", "start">>}

\* Types, and the calls that go with a step.
ScriptsOK ==
    /\ process \in [Pids -> {"free", "booting", "server", "forwarder", "other"}]
    /\ pidfile \in [Services -> Pids \union {NoPid}]
    /\ pc \in [Scripts -> Steps]
    /\ calls \in [Scripts -> CallLists]
    /\ service \in [Scripts -> Services]
    /\ child \in [Scripts -> Pids \union {NoPid}]
    /\ DOMAIN said = {"what", "last", "died"} /\ said.what \in {"ON", "OFF"}
    /\ \A s \in Scripts :
          /\ pc[s] \in StartSteps => calls[s] = <<"start">>
          /\ pc[s] \in StopSteps => calls[s] \in {<<"stop">>, <<"stop", "download", "start">>}
          /\ pc[s] = "status" => calls[s] = <<"status">>
          /\ pc[s] = "download" => calls[s] = <<"download", "start">>
          /\ pc[s] = "record" => child[s] \in Pids

OneAtATime == \A s, t \in Scripts : Running(s) /\ Running(t) => s = t

\* Nothing of a service runs but what its PID file names, or what a script has
\* just started and is about to write there.
KnownOK ==
    \A sv \in Services :
        /\ (\A s \in Scripts : ~ (pc[s] = "record" /\ service[s] = sv))
           => Of(sv) \subseteq {pidfile[sv]}
        /\ \A s \in Scripts : service[s] = sv =>
              /\ pc[s] \in {"spawn", "forget"} => Of(sv) = {}
              /\ pc[s] = "record" =>
                    Of(sv) \subseteq {child[s]} /\ (~ said.died => Alive(child[s]))

\* How far a start or a stop has come.
ProgressOK ==
    \A s \in Scripts :
        /\ pc[s] \in StopSteps /\ service[s] = "server" => Of("forwarder") = {}
        /\ pc[s] = "download" => said.what = "OFF" /\ \A sv \in Services : Of(sv) = {}
        /\ pc[s] \in StartSteps /\ service[s] = "forwarder" /\ ~ said.died =>
              Alive(pidfile["server"])

PhoneInv ==
    /\ ScriptsOK /\ OneAtATime /\ KnownOK /\ ProgressOK
    /\ OffMeansOff /\ OnUnlessTaken

-----------------------------------------------------------------------------
(* How a script moves                                                      *)

LEMMA HeadsAndTails ==
  /\ Head(<<"start">>) = "start" /\ Tail(<<"start">>) = <<>>
  /\ Head(<<"stop">>) = "stop" /\ Tail(<<"stop">>) = <<>>
  /\ Head(<<"status">>) = "status"
  /\ Head(<<"download", "start">>) = "download"
  /\ Tail(<<"download", "start">>) = <<"start">>
  /\ Head(<<"stop", "download", "start">>) = "stop"
  /\ Tail(<<"stop", "download", "start">>) = <<"download", "start">>
  /\ <<"start">> # <<>> /\ <<"stop">> # <<>> /\ <<"status">> # <<>>
  /\ <<"download", "start">> # <<>> /\ <<"stop", "download", "start">> # <<>>
OBVIOUS

\* Script s is at a step for a service, with calls to do.
Moves(s, step, sv, todo) ==
    /\ pc' = [pc EXCEPT ![s] = step]
    /\ service' = [service EXCEPT ![s] = sv]
    /\ calls' = [calls EXCEPT ![s] = todo]

LEMMA GoesIs ==
  ASSUME ScriptsOK, NEW s \in Scripts, NEW todo, Goes(s, todo)
  PROVE  /\ todo = <<>> => Moves(s, "ended", service[s], todo)
         /\ todo = <<"start">> => Moves(s, "check", "server", todo)
         /\ todo \in {<<"stop">>, <<"stop", "download", "start">>} =>
               Moves(s, "look", "forwarder", todo)
         /\ todo = <<"status">> => Moves(s, "status", "server", todo)
         /\ todo = <<"download", "start">> => Moves(s, "download", "server", todo)
<1>1. /\ FirstStep["start"] = "check" /\ FirstStep["stop"] = "look"
      /\ FirstStep["status"] = "status" /\ FirstStep["download"] = "download"
  BY DEF FirstStep
<1>2. /\ FirstService("start") = "server" /\ FirstService("stop") = "forwarder"
      /\ FirstService("status") = "server" /\ FirstService("download") = "server"
  BY DEF FirstService
<1>3. /\ calls' = [calls EXCEPT ![s] = todo]
      /\ pc' = [pc EXCEPT ![s] = IF todo = <<>> THEN "ended" ELSE FirstStep[Head(todo)]]
      /\ service' = [service EXCEPT ![s] = IF todo = <<>> THEN service[s]
                                          ELSE FirstService(Head(todo))]
  BY DEF Goes, ScriptsOK
<1>4. CASE todo = <<>>
  BY <1>3, <1>4, HeadsAndTails DEF Moves
<1>5. CASE todo = <<"start">>
  BY <1>1, <1>2, <1>3, <1>5, HeadsAndTails DEF Moves
<1>6. CASE todo = <<"stop">>
  BY <1>1, <1>2, <1>3, <1>6, HeadsAndTails DEF Moves
<1>7. CASE todo = <<"stop", "download", "start">>
  BY <1>1, <1>2, <1>3, <1>7, HeadsAndTails DEF Moves
<1>8. CASE todo = <<"status">>
  BY <1>1, <1>2, <1>3, <1>8, HeadsAndTails DEF Moves
<1>9. CASE todo = <<"download", "start">>
  BY <1>1, <1>2, <1>3, <1>9, HeadsAndTails DEF Moves
<1> QED BY <1>4, <1>5, <1>6, <1>7, <1>8, <1>9

LEMMA LaunchIs ==
  ASSUME ScriptsOK, NEW s \in Scripts, NEW cmd \in Commands, Launch(s, cmd)
  PROVE  /\ \/ Moves(s, "check", "server", <<"start">>)
            \/ Moves(s, "look", "forwarder", <<"stop">>)
            \/ Moves(s, "look", "forwarder", <<"stop", "download", "start">>)
            \/ Moves(s, "status", "server", <<"status">>)
         /\ said'.what = said.what /\ said'.died = FALSE
         /\ DOMAIN said' = DOMAIN said
         /\ UNCHANGED <<process, pidfile, child>>
<1>1. /\ Goes(s, CallsOf[cmd]) /\ said' = [said EXCEPT !.died = FALSE]
      /\ UNCHANGED <<process, pidfile, child>>
  BY DEF Launch
<1>2. CallsOf[cmd] \in {<<"start">>, <<"stop">>, <<"status">>, <<"stop", "download", "start">>}
  BY DEF CallsOf, Commands
<1>3. \/ Moves(s, "check", "server", <<"start">>)
      \/ Moves(s, "look", "forwarder", <<"stop">>)
      \/ Moves(s, "look", "forwarder", <<"stop", "download", "start">>)
      \/ Moves(s, "status", "server", <<"status">>)
  <2> DEFINE todo == CallsOf[cmd]
  <2>1. /\ todo = <<"start">> => Moves(s, "check", "server", todo)
        /\ todo \in {<<"stop">>, <<"stop", "download", "start">>} =>
               Moves(s, "look", "forwarder", todo)
        /\ todo = <<"status">> => Moves(s, "status", "server", todo)
    BY <1>1, GoesIs
  <2> QED BY <1>2, <2>1
<1> QED BY <1>1, <1>3 DEF ScriptsOK

\* After the server the forwarder, and after that the call is over.
LEMMA StartNextIs ==
  ASSUME ScriptsOK, NEW s \in Scripts, pc[s] \in StartSteps, StartNext(s)
  PROVE  /\ service[s] = "server" =>
               Moves(s, "check", "forwarder", <<"start">>) /\ UNCHANGED said
         /\ service[s] = "forwarder" =>
               /\ Moves(s, "ended", "forwarder", <<>>)
               /\ said'.what = "ON" /\ said'.died = said.died /\ DOMAIN said' = DOMAIN said
<1>1. calls[s] = <<"start">>
  BY DEF ScriptsOK
<1>2. CASE service[s] = "server"
  <2>1. /\ service' = [service EXCEPT ![s] = "forwarder"] /\ pc' = [pc EXCEPT ![s] = "check"]
        /\ calls' = calls /\ said' = said
    BY <1>2 DEF StartNext
  <2>2. calls = [calls EXCEPT ![s] = <<"start">>]
    BY <1>1 DEF ScriptsOK
  <2> QED BY <1>2, <2>1, <2>2 DEF Moves
<1>3. CASE service[s] = "forwarder"
  <2>1. Returns(s, "ON")
    BY <1>3 DEF StartNext
  <2>2. Goes(s, <<>>)
    BY <1>1, <2>1, HeadsAndTails DEF Returns
  <2>3. Moves(s, "ended", "forwarder", <<>>)
    BY <1>3, <2>2, GoesIs
  <2>4. said'.what = "ON" /\ said'.died = said.died /\ DOMAIN said' = DOMAIN said
    BY <2>1 DEF Returns, ScriptsOK
  <2> QED BY <1>3, <2>3, <2>4
<1> QED BY <1>2, <1>3 DEF ScriptsOK, Services

\* After the forwarder the server, and after that the call is over: a stop
\* ends, an update goes on to its downloads.
LEMMA StopNextIs ==
  ASSUME ScriptsOK, NEW s \in Scripts, pc[s] \in StopSteps, StopNext(s)
  PROVE  /\ service[s] = "forwarder" =>
               Moves(s, "look", "server", calls[s]) /\ UNCHANGED said
         /\ service[s] = "server" =>
               /\ \/ Moves(s, "ended", "server", <<>>)
                  \/ Moves(s, "download", "server", <<"download", "start">>)
               /\ said'.what = "OFF" /\ said'.died = said.died /\ DOMAIN said' = DOMAIN said
<1>1. calls[s] = <<"stop">> \/ calls[s] = <<"stop", "download", "start">>
  BY DEF ScriptsOK
<1>2. CASE service[s] = "forwarder"
  <2>1. /\ service' = [service EXCEPT ![s] = "server"] /\ pc' = [pc EXCEPT ![s] = "look"]
        /\ calls' = calls /\ said' = said
    BY <1>2 DEF StopNext
  <2>2. calls = [calls EXCEPT ![s] = calls[s]]
    BY DEF ScriptsOK
  <2> QED BY <1>2, <2>1, <2>2 DEF Moves
<1>3. CASE service[s] = "server"
  <2>1. Returns(s, "OFF")
    BY <1>3 DEF StopNext
  <2>2. Goes(s, Tail(calls[s]))
    BY <2>1 DEF Returns
  <2>3. Tail(calls[s]) = <<>> \/ Tail(calls[s]) = <<"download", "start">>
    BY <1>1, HeadsAndTails
  <2>4. \/ Moves(s, "ended", "server", <<>>)
        \/ Moves(s, "download", "server", <<"download", "start">>)
    BY <1>3, <2>2, <2>3, GoesIs
  <2>5. said'.what = "OFF" /\ said'.died = said.died /\ DOMAIN said' = DOMAIN said
    BY <2>1 DEF Returns, ScriptsOK
  <2> QED BY <1>3, <2>4, <2>5
<1> QED BY <1>2, <1>3 DEF ScriptsOK, Services

LEMMA AtIs ==
  ASSUME ScriptsOK, NEW s \in Scripts, NEW step, At(s, step)
  PROVE  Moves(s, step, service[s], calls[s]) /\ UNCHANGED said
BY DEF At, Moves, ScriptsOK

LEMMA ToggleIs ==
  ASSUME ScriptsOK, NEW s \in Scripts, Toggle(s)
  PROVE  /\ \/ Moves(s, "look", "forwarder", <<"stop">>)
            \/ Moves(s, "check", "server", <<"start">>)
         /\ UNCHANGED <<process, pidfile, child, said>>
<1>1. Goes(s, <<"stop">>) \/ Goes(s, <<"start">>)
  BY Zenon DEF Toggle
<1> QED BY <1>1, GoesIs DEF Toggle

LEMMA DownloadIs ==
  ASSUME ScriptsOK, NEW s \in Scripts, Downloaded(s) \/ DownloadFails(s)
  PROVE  /\ \/ Moves(s, "check", "server", <<"start">>)
            \/ Moves(s, "ended", service[s], <<>>)
         /\ said'.what = said.what /\ said'.died = said.died /\ DOMAIN said' = DOMAIN said
         /\ UNCHANGED <<process, pidfile, child>>
<1>1. CASE Downloaded(s)
  <2>1. calls[s] = <<"download", "start">>
    BY <1>1 DEF Downloaded, ScriptsOK
  <2>2. Goes(s, <<"start">>)
    BY <1>1, <2>1, HeadsAndTails DEF Downloaded
  <2> QED BY <1>1, <2>2, GoesIs DEF Downloaded
<1>2. CASE DownloadFails(s)
  <2>1. Goes(s, <<>>)
    BY <1>2 DEF DownloadFails
  <2>2. said'.what = said.what /\ said'.died = said.died /\ DOMAIN said' = DOMAIN said
    BY <1>2 DEF DownloadFails, ScriptsOK
  <2> QED BY <1>2, <2>1, <2>2, GoesIs DEF DownloadFails
<1> QED BY <1>1, <1>2

-----------------------------------------------------------------------------
(* Types                                                                   *)

\* The calls that go with a step.
Fits(step, todo) ==
    /\ step \in StartSteps => todo = <<"start">>
    /\ step \in StopSteps => todo \in {<<"stop">>, <<"stop", "download", "start">>}
    /\ step = "status" => todo = <<"status">>
    /\ step = "download" => todo = <<"download", "start">>

ProcessesOK ==
    /\ process \in [Pids -> {"free", "booting", "server", "forwarder", "other"}]
    /\ pidfile \in [Services -> Pids \union {NoPid}]
    /\ child \in [Scripts -> Pids \union {NoPid}]
    /\ DOMAIN said = {"what", "last", "died"} /\ said.what \in {"ON", "OFF"}

LEMMA MoveKeepsTypes ==
  ASSUME ScriptsOK, NEW s \in Scripts, NEW step \in Steps, NEW sv \in Services,
         NEW todo \in CallLists, Fits(step, todo), Moves(s, step, sv, todo), ProcessesOK',
         \A t \in Scripts \ {s} : child'[t] = child[t],
         step = "record" => child'[s] \in Pids
  PROVE  ScriptsOK'
<1>1. /\ pc' \in [Scripts -> Steps] /\ calls' \in [Scripts -> CallLists]
      /\ service' \in [Scripts -> Services]
  BY DEF ScriptsOK, Moves
<1>2. /\ pc'[s] = step /\ calls'[s] = todo
      /\ \A t \in Scripts \ {s} : pc'[t] = pc[t] /\ calls'[t] = calls[t]
  BY DEF ScriptsOK, Moves
<1>3. ASSUME NEW t \in Scripts
      PROVE  Fits(pc'[t], calls'[t]) /\ (pc'[t] = "record" => child'[t] \in Pids)
  BY <1>2 DEF ScriptsOK, Fits
<1> QED BY <1>1, <1>3 DEF ScriptsOK, ProcessesOK, Fits

LEMMA ScriptKeepsTypes ==
  ASSUME PhoneAssumption, ScriptsOK, NEW s \in Scripts, Script(s)
  PROVE  ScriptsOK'
<1>0. /\ Fits("check", <<"start">>) /\ Fits("look", <<"stop">>)
      /\ Fits("look", <<"stop", "download", "start">>) /\ Fits("status", <<"status">>)
      /\ Fits("download", <<"download", "start">>) /\ Fits("ended", <<>>)
      /\ {"check", "look", "status", "download", "ended", "spawn", "record", "kill", "forget"}
            \subseteq Steps
      /\ "server" \in Services /\ "forwarder" \in Services
      /\ {<<"start">>, <<"stop">>, <<"stop", "download", "start">>, <<"status">>,
          <<"download", "start">>, <<>>} \subseteq CallLists
  BY DEF Fits, StartSteps, StopSteps, Steps, Services, CallLists
<1>1. ProcessesOK /\ calls[s] \in CallLists /\ service[s] \in Services
  BY DEF ProcessesOK, ScriptsOK
<1>2. UNCHANGED <<process, pidfile, child>> /\ DOMAIN said' = DOMAIN said
         /\ said'.what \in {"ON", "OFF"} => ProcessesOK'
  BY <1>1 DEF ProcessesOK
<1>3. ASSUME NEW cmd \in Commands, Launch(s, cmd) PROVE ScriptsOK'
  <2>1. ProcessesOK' /\ child' = child
    BY <1>1, <1>2, <1>3, LaunchIs DEF ProcessesOK
  <2> QED BY <1>0, <1>3, <2>1, LaunchIs, MoveKeepsTypes
<1>4. CASE StartCheck(s)
  <2>1. pc[s] = "check" /\ pc[s] \in StartSteps /\ UNCHANGED <<process, pidfile, child>>
    BY <1>4 DEF StartCheck, StartSteps
  <2>2. CASE StartNext(s)
    <3>1. ProcessesOK'
      BY <1>1, <1>2, <2>1, <2>2, StartNextIs DEF ProcessesOK, Services
    <3> QED BY <1>0, <1>1, <2>1, <2>2, <3>1, StartNextIs, MoveKeepsTypes DEF Services
  <2>3. CASE At(s, "spawn")
    <3>1. Moves(s, "spawn", service[s], calls[s]) /\ UNCHANGED said
      BY <2>3, AtIs
    <3>2. ProcessesOK'
      BY <1>1, <1>2, <2>1, <3>1 DEF ProcessesOK
    <3>3. Fits("spawn", calls[s])
      BY <2>1 DEF ScriptsOK, Fits, StartSteps, StopSteps
    <3> QED BY <1>0, <1>1, <2>1, <3>1, <3>2, <3>3, MoveKeepsTypes
  <2> QED BY <1>4, <2>2, <2>3 DEF StartCheck
<1>5. ASSUME NEW p \in Pids, Spawn(s, p) PROVE ScriptsOK'
  <2>1. /\ pc[s] = "spawn" /\ At(s, "record") /\ pidfile' = pidfile
        /\ child' = [child EXCEPT ![s] = p]
        /\ process' = [process EXCEPT ![p] = IF service[s] = "server" THEN "booting"
                                             ELSE "forwarder"]
    BY <1>5 DEF Spawn
  <2>2. Moves(s, "record", service[s], calls[s]) /\ UNCHANGED said
    BY <2>1, AtIs
  <2>3. ProcessesOK' /\ child'[s] = p /\ \A t \in Scripts \ {s} : child'[t] = child[t]
    BY <1>1, <2>1, <2>2 DEF ProcessesOK
  <2>4. Fits("record", calls[s])
    BY <2>1 DEF ScriptsOK, Fits, StartSteps, StopSteps
  <2> QED BY <1>0, <1>1, <2>2, <2>3, <2>4, MoveKeepsTypes
<1>6. CASE Record(s)
  <2>1. /\ pc[s] = "record" /\ pc[s] \in StartSteps /\ StartNext(s)
        /\ UNCHANGED <<process, child>>
        /\ pidfile' = [pidfile EXCEPT ![service[s]] = child[s]]
    BY <1>6 DEF Record, StartSteps
  <2>2. ProcessesOK'
    <3>1. child[s] \in Pids
      BY <2>1 DEF ScriptsOK
    <3>2. DOMAIN said' = DOMAIN said /\ said'.what \in {"ON", "OFF"}
      BY <1>1, <2>1, StartNextIs DEF ProcessesOK, Services
    <3> QED BY <1>1, <2>1, <3>1, <3>2 DEF ProcessesOK
  <2> QED BY <1>0, <1>1, <2>1, <2>2, StartNextIs, MoveKeepsTypes DEF Services
<1>7. CASE StopLook(s)
  <2>1. pc[s] = "look" /\ pc[s] \in StopSteps /\ UNCHANGED <<process, pidfile, child>>
    BY <1>7 DEF StopLook, StopSteps
  <2>2. CASE StopNext(s)
    <3>1. ProcessesOK'
      BY <1>1, <1>2, <2>1, <2>2, StopNextIs DEF ProcessesOK, Services
    <3>2. Fits("look", calls[s])
      BY <2>1 DEF ScriptsOK, Fits, StartSteps, StopSteps
    <3> QED BY <1>0, <1>1, <2>1, <2>2, <3>1, <3>2, StopNextIs, MoveKeepsTypes DEF Services
  <2>3. CASE At(s, "kill")
    <3>1. Moves(s, "kill", service[s], calls[s]) /\ UNCHANGED said
      BY <2>3, AtIs
    <3>2. ProcessesOK'
      BY <1>1, <1>2, <2>1, <3>1 DEF ProcessesOK
    <3>3. Fits("kill", calls[s])
      BY <2>1 DEF ScriptsOK, Fits, StartSteps, StopSteps
    <3> QED BY <1>0, <1>1, <2>1, <3>1, <3>2, <3>3, MoveKeepsTypes
  <2> QED BY <1>7, <2>2, <2>3 DEF StopLook
<1>8. CASE Kill(s)
  <2>1. /\ pc[s] = "kill" /\ At(s, "forget") /\ UNCHANGED <<pidfile, child>>
        /\ process' = IF Alive(pidfile[service[s]])
                      THEN [process EXCEPT ![pidfile[service[s]]] = "free"] ELSE process
    BY <1>8 DEF Kill
  <2>2. Moves(s, "forget", service[s], calls[s]) /\ UNCHANGED said
    BY <2>1, AtIs
  <2>3. process' \in [Pids -> {"free", "booting", "server", "forwarder", "other"}]
    BY <1>1, <2>1 DEF ProcessesOK
  <2>4. ProcessesOK'
    BY <1>1, <2>1, <2>2, <2>3 DEF ProcessesOK
  <2>5. Fits("forget", calls[s])
    BY <2>1 DEF ScriptsOK, Fits, StartSteps, StopSteps
  <2> QED BY <1>0, <1>1, <2>1, <2>2, <2>4, <2>5, MoveKeepsTypes
<1>9. CASE Forget(s)
  <2>1. /\ pc[s] = "forget" /\ pc[s] \in StopSteps /\ StopNext(s)
        /\ UNCHANGED <<process, child>>
        /\ pidfile' = [pidfile EXCEPT ![service[s]] = NoPid]
    BY <1>9 DEF Forget, StopSteps
  <2>2. ProcessesOK'
    <3>1. DOMAIN said' = DOMAIN said /\ said'.what \in {"ON", "OFF"}
      BY <1>1, <2>1, StopNextIs DEF ProcessesOK, Services
    <3> QED BY <1>1, <2>1, <3>1 DEF ProcessesOK
  <2>3. Fits("look", calls[s])
    BY <2>1 DEF ScriptsOK, Fits, StartSteps, StopSteps
  <2> QED BY <1>0, <1>1, <2>1, <2>2, <2>3, StopNextIs, MoveKeepsTypes DEF Services
<1>10. CASE Toggle(s)
  <2>1. ProcessesOK' /\ child' = child
    BY <1>1, <1>2, <1>10, ToggleIs DEF ProcessesOK
  <2> QED BY <1>0, <1>10, <2>1, ToggleIs, MoveKeepsTypes
<1>11. CASE Downloaded(s) \/ DownloadFails(s)
  <2>1. ProcessesOK' /\ child' = child
    BY <1>1, <1>2, <1>11, DownloadIs DEF ProcessesOK
  <2> QED BY <1>0, <1>1, <1>11, <2>1, DownloadIs, MoveKeepsTypes
<1> QED BY <1>3, <1>4, <1>5, <1>6, <1>7, <1>8, <1>9, <1>10, <1>11 DEF Script

\* Bind, OtherStarts, Dies and Reboot.
ProcessStep ==
    \/ \E p \in Pids : Bind(p) \/ OtherStarts(p) \/ Dies(p)
    \/ Reboot

LEMMA ProcessesKeepTypes ==
  ASSUME ScriptsOK, ProcessStep
  PROVE  ScriptsOK'
<1>1. CASE \E p \in Pids : Bind(p) \/ OtherStarts(p) \/ Dies(p)
  <2> PICK p \in Pids : Bind(p) \/ OtherStarts(p) \/ Dies(p)
    BY <1>1
  <2>1. UNCHANGED <<pidfile, command, pc, calls, service, child>>
    BY DEF Bind, OtherStarts, Dies, Becomes
  <2>2. process' \in [Pids -> {"free", "booting", "server", "forwarder", "other"}]
    BY DEF Bind, OtherStarts, Dies, Becomes, ScriptsOK
  <2>3. DOMAIN said' = DOMAIN said /\ said'.what = said.what
    BY DEF Bind, OtherStarts, Dies, ScriptsOK
  <2> QED BY <2>1, <2>2, <2>3 DEF ScriptsOK
<1>2. CASE Reboot
  <2>1. /\ process' = [p \in Pids |-> "free"]
        /\ pc' = [s \in Scripts |-> IF Running(s) THEN "ended" ELSE pc[s]]
        /\ said' = [said EXCEPT !.last = "reboot", !.died = TRUE]
        /\ UNCHANGED <<pidfile, command, calls, service, child>>
    BY <1>2 DEF Reboot
  <2>2. pc' \in [Scripts -> Steps] /\ \A s \in Scripts : pc'[s] = pc[s] \/ pc'[s] = "ended"
    BY <2>1 DEF ScriptsOK, Steps
  <2>3. DOMAIN said' = DOMAIN said /\ said'.what = said.what
    BY <2>1 DEF ScriptsOK
  <2>4. process' \in [Pids -> {"free", "booting", "server", "forwarder", "other"}]
    BY <2>1
  <2> QED BY <2>1, <2>2, <2>3, <2>4 DEF ScriptsOK, StartSteps, StopSteps
<1> QED BY <1>1, <1>2 DEF ProcessStep

LEMMA TypesNext == ScriptsOK /\ [Next]_vars => ScriptsOK'
<1>1. ScriptsOK /\ UNCHANGED vars => ScriptsOK'
  BY DEF vars, ScriptsOK
<1> QED BY <1>1, ScriptKeepsTypes, ProcessesKeepTypes, PhoneAssumption DEF Next, ProcessStep

LEMMA TypesInit == Init => ScriptsOK
BY DEF Init, ScriptsOK, Steps, StartSteps, StopSteps, CallLists, Services

\* Whatever scripts run at the same time: one that runs has a call to do, and
\* one that has started a process has its id.
THEOREM PhoneTypes == Spec => []PhoneTypeOK
<1>1. ScriptsOK => PhoneTypeOK
  BY HeadsAndTails DEF ScriptsOK, PhoneTypeOK, Running, Steps, StartSteps, StopSteps
<1> QED BY <1>1, TypesInit, TypesNext, PTL DEF Spec

-----------------------------------------------------------------------------
(* One script at a time                                                    *)

\* What the invariant asks of the only script s that runs, at a step for sv.
Alone(s, step, sv) ==
    /\ \A v \in Services : ~ (step = "record" /\ sv = v) => Of(v) \subseteq {pidfile[v]}
    /\ step \in {"spawn", "forget"} => Of(sv) = {}
    /\ step = "record" =>
          Of(sv) \subseteq {child[s]} /\ (~ said.died => Alive(child[s]))
    /\ step \in StopSteps /\ sv = "server" => Of("forwarder") = {}
    /\ step = "download" => said.what = "OFF" /\ \A v \in Services : Of(v) = {}
    /\ step \in StartSteps /\ sv = "forwarder" /\ ~ said.died =>
          Alive(pidfile["server"])
    /\ step = "ended" =>
          /\ said.what = "OFF" => \A v \in Services : Of(v) = {}
          /\ said.what = "ON" /\ ~ said.died => \A v \in Services : Alive(pidfile[v])

LEMMA AloneNow ==
  ASSUME PhoneInv, NEW s \in Scripts, Running(s), NEW step, NEW sv,
         pc[s] = step, service[s] = sv
  PROVE  Alone(s, step, sv) /\ \A t \in Scripts \ {s} : ~ Running(t)
<1>1. \A t \in Scripts \ {s} : ~ Running(t)
  BY DEF PhoneInv, OneAtATime
<1>2. \A t \in Scripts \ {s} : pc[t] \in {"idle", "ended"}
  BY <1>1 DEF Running
<1>3. sv \in Services
  BY DEF PhoneInv, ScriptsOK
<1>4. \A v \in Services : ~ (step = "record" /\ sv = v) => Of(v) \subseteq {pidfile[v]}
  <2> SUFFICES ASSUME NEW v \in Services, ~ (step = "record" /\ sv = v)
               PROVE  Of(v) \subseteq {pidfile[v]}
    OBVIOUS
  <2>1. \A t \in Scripts : ~ (pc[t] = "record" /\ service[t] = v)
    BY <1>2
  <2> QED BY <2>1 DEF PhoneInv, KnownOK
<1> QED BY <1>1, <1>3, <1>4 DEF Alone, PhoneInv, KnownOK, ProgressOK, Running

\* And in a state where nobody else runs, that is all of it.
LEMMA AloneIsKept ==
  ASSUME ScriptsOK, ScriptsOK', NEW s \in Scripts, NEW step, step # "idle",
         NEW sv \in Services, NEW todo,
         Moves(s, step, sv, todo), \A t \in Scripts \ {s} : ~ Running(t),
         Alone(s, step, sv)'
  PROVE  PhoneInv'
<1>1. /\ pc'[s] = step /\ service'[s] = sv
      /\ \A t \in Scripts \ {s} : pc'[t] \in {"idle", "ended"}
  BY DEF Moves, ScriptsOK, Running
<1>2. OneAtATime'
  BY <1>1 DEF OneAtATime, Running
<1>3. Quiet' => step = "ended"
  BY <1>1 DEF Quiet, Running
<1>4. KnownOK'
  <2>1. ASSUME NEW v \in Services, NEW t \in Scripts, service'[t] = v,
               pc'[t] \in {"spawn", "forget", "record"}
        PROVE  t = s /\ v = sv
    BY <1>1, <2>1
  <2>2. ASSUME NEW v \in Services,
               \A t \in Scripts : ~ (pc'[t] = "record" /\ service'[t] = v)
        PROVE  ~ (step = "record" /\ sv = v)
    BY <1>1, <2>2
  <2> QED BY <1>1, <2>1, <2>2 DEF KnownOK, Alone
<1>5. ProgressOK'
  BY <1>1 DEF ProgressOK, StopSteps, StartSteps, Alone
<1>6. OffMeansOff' /\ OnUnlessTaken'
  BY <1>3 DEF OffMeansOff, OnUnlessTaken, Alone
<1> QED BY <1>2, <1>4, <1>5, <1>6 DEF PhoneInv

\* A process of a service is no free one, and no process is of two services.
LEMMA RunsAre ==
  /\ Services = {"server", "forwarder"} /\ "server" # "forwarder"
  /\ Runs("server") = {"booting", "server"} /\ Runs("forwarder") = {"forwarder"}
  /\ \A sv \in Services : "free" \notin Runs(sv)
BY DEF Services, Runs

\* If no process has the id on file, nothing of the service runs.
LEMMA AliveIs ==
  ASSUME PhoneAssumption, NEW sv \in Services,
         ~ Alive(pidfile[sv]), Of(sv) \subseteq {pidfile[sv]}
  PROVE  Of(sv) = {}
BY RunsAre DEF PhoneAssumption, Alive, Of

\* Steps that touch neither a process nor a file.
LEMMA Untouched ==
  ASSUME UNCHANGED <<process, pidfile, child>>
  PROVE  /\ \A sv : Of(sv)' = Of(sv)
         /\ \A p : Alive(p)' <=> Alive(p)
BY DEF Of, Alive

LEMMA LaunchKeeps ==
  ASSUME PhoneAssumption, AtOnce = 1, PhoneInv, ScriptsOK',
         NEW s \in Scripts, NEW cmd \in Commands, Launch(s, cmd)
  PROVE  PhoneInv'
<1>1. \A t \in Scripts : ~ Running(t)
  <2> DEFINE running == {t \in Scripts : Running(t)}
  <2>1. Cardinality(running) < 1
    BY DEF Launch
  <2>2. \A t, u \in running : t = u
    BY DEF PhoneInv, OneAtATime
  <2> SUFFICES ASSUME NEW t \in running PROVE FALSE
    OBVIOUS
  <2> HIDE DEF running
  <2>3. running = {t}
    BY <2>2
  <2>4. Cardinality({t}) = 1
    BY FS_Singleton
  <2> QED BY <2>1, <2>3, <2>4
<1>2. \A v \in Services : Of(v) \subseteq {pidfile[v]}
  BY <1>1 DEF PhoneInv, KnownOK, Running
<1>3. /\ UNCHANGED <<process, pidfile, child>>
      /\ \A v \in Services : Of(v)' \subseteq {pidfile'[v]}
  BY <1>2, LaunchIs, Untouched DEF PhoneInv
<1>4. /\ Alone(s, "check", "server")' /\ Alone(s, "look", "forwarder")'
      /\ Alone(s, "status", "server")'
  BY <1>3, RunsAre DEF Alone, StartSteps, StopSteps
<1> QED BY <1>1, <1>3, <1>4, LaunchIs, AloneIsKept, RunsAre DEF PhoneInv

LEMMA StartKeeps ==
  ASSUME PhoneAssumption, PhoneInv, ScriptsOK', NEW s \in Scripts,
         StartCheck(s) \/ (\E p \in Pids : Spawn(s, p)) \/ Record(s)
  PROVE  PhoneInv'
<1> PICK sv \in Services : sv = service[s]
  BY DEF PhoneInv, ScriptsOK
<1>1. pc[s] \in StartSteps
  BY DEF StartCheck, Spawn, Record, StartSteps
<1>2. Alone(s, pc[s], sv) /\ \A t \in Scripts \ {s} : ~ Running(t)
  BY <1>1, AloneNow DEF Running, StartSteps
<1>3. sv = "server" \/ sv = "forwarder"
  BY RunsAre DEF PhoneInv, ScriptsOK
<1>4. CASE StartCheck(s)
  <2>1. /\ pc[s] = "check" /\ UNCHANGED <<process, pidfile, child>>
        /\ IF Alive(pidfile[sv]) THEN StartNext(s) ELSE At(s, "spawn")
    BY <1>4 DEF StartCheck, AlreadyRunning
  <2>2. /\ \A v \in Services : Of(v)' = Of(v)
        /\ \A v \in Services : Alive(pidfile[v])' <=> Alive(pidfile[v])
    BY <2>1, Untouched
  <2>3. \A v \in Services : Of(v) \subseteq {pidfile[v]}
    BY <1>2, <2>1 DEF Alone
  <2>4. CASE Alive(pidfile[sv])
    <3>1. StartNext(s)
      BY <2>1, <2>4
    <3>2. CASE sv = "server"
      <4>1. Moves(s, "check", "forwarder", <<"start">>) /\ UNCHANGED said
        BY <1>1, <3>1, <3>2, StartNextIs DEF PhoneInv
      <4>2. Alone(s, "check", "forwarder")'
        BY <2>1, <2>2, <2>3, <2>4, <3>2, RunsAre DEF Alone, StartSteps, StopSteps
      <4> QED BY <1>2, <4>1, <4>2, AloneIsKept, RunsAre DEF PhoneInv
    <3>3. CASE sv = "forwarder"
      <4>1. /\ Moves(s, "ended", "forwarder", <<>>)
            /\ said'.what = "ON" /\ said'.died = said.died
        BY <1>1, <3>1, <3>3, StartNextIs DEF PhoneInv
      <4>2. ~ said.died => Alive(pidfile["server"])
        BY <1>1, <1>2, <3>3 DEF Alone
      <4>3. Alone(s, "ended", "forwarder")'
        BY <2>1, <2>2, <2>3, <2>4, <3>3, <4>1, <4>2, RunsAre DEF Alone, StartSteps, StopSteps
      <4> QED BY <1>2, <2>2, <4>1, <4>3, AloneIsKept, RunsAre DEF PhoneInv
    <3> QED BY <1>3, <3>2, <3>3
  <2>5. CASE ~ Alive(pidfile[sv])
    <3>1. Of(sv) = {}
      BY <1>3, <2>3, <2>5, AliveIs, RunsAre DEF PhoneInv
    <3>2. Moves(s, "spawn", sv, calls[s]) /\ UNCHANGED said
      BY <2>1, <2>5, AtIs DEF PhoneInv
    <3>3. sv = "forwarder" /\ ~ said.died => Alive(pidfile["server"])
      BY <1>1, <1>2 DEF Alone
    <3>4. Alone(s, "spawn", sv)'
      BY <1>3, <2>1, <2>2, <2>3, <3>1, <3>2, <3>3, RunsAre DEF Alone, StartSteps, StopSteps
    <3> QED BY <1>2, <1>3, <2>2, <3>2, <3>4, AloneIsKept, RunsAre DEF PhoneInv
  <2> QED BY <2>4, <2>5
<1>5. ASSUME NEW p \in Pids, Spawn(s, p) PROVE PhoneInv'
  <2>1. /\ pc[s] = "spawn" /\ process[p] = "free"
        /\ process' = [process EXCEPT ![p] = IF sv = "server" THEN "booting" ELSE "forwarder"]
        /\ child' = [child EXCEPT ![s] = p] /\ pidfile' = pidfile /\ At(s, "record")
    BY <1>5 DEF Spawn
  <2>2. Moves(s, "record", sv, calls[s]) /\ UNCHANGED said
    BY <2>1, AtIs DEF PhoneInv
  <2>3. /\ \A v \in Services : v # sv => Of(v) \subseteq {pidfile[v]}
        /\ Of(sv) = {}
        /\ sv = "forwarder" /\ ~ said.died => Alive(pidfile["server"])
    BY <1>1, <1>2, <2>1 DEF Alone
  <2>4. process'[p] \in Runs(sv) /\ \A q \in Pids \ {p} : process'[q] = process[q]
    BY <1>3, <2>1, RunsAre DEF PhoneInv, ScriptsOK
  <2>5. Of(sv)' = {p} /\ \A v \in Services : v # sv => Of(v)' = Of(v)
    BY <1>3, <2>1, <2>3, <2>4, RunsAre DEF Of
  <2>6. \A q : Alive(q) /\ q \in Pids => Alive(q)'
    BY <1>3, <2>4, RunsAre DEF Alive
  <2>7. child'[s] = p /\ Alive(p)'
    BY <1>3, <2>1, <2>4, RunsAre DEF PhoneInv, ScriptsOK, PhoneAssumption, Alive
  <2>8. Alive(pidfile["server"]) => Alive(pidfile["server"])'
    BY <2>1, <2>6, RunsAre DEF PhoneInv, ScriptsOK, Alive
  <2>9. Alone(s, "record", sv)'
    BY <1>3, <2>1, <2>2, <2>3, <2>4, <2>5, <2>6, <2>7, <2>8, RunsAre DEF Alone, StartSteps, StopSteps
  <2> QED BY <1>2, <1>3, <2>2, <2>9, AloneIsKept, RunsAre DEF PhoneInv
<1>6. CASE Record(s)
  <2>1. /\ pc[s] = "record" /\ pidfile' = [pidfile EXCEPT ![sv] = child[s]] /\ StartNext(s)
        /\ UNCHANGED <<process, child>>
    BY <1>6 DEF Record
  <2>2. /\ \A v \in Services : v # sv => Of(v) \subseteq {pidfile[v]}
        /\ Of(sv) \subseteq {child[s]} /\ (~ said.died => Alive(child[s]))
        /\ sv = "forwarder" /\ ~ said.died => Alive(pidfile["server"])
    BY <1>1, <1>2, <2>1 DEF Alone
  <2>3. \A v \in Services : pidfile'[v] = IF v = sv THEN child[s] ELSE pidfile[v]
    BY <2>1 DEF PhoneInv, ScriptsOK
  <2>4. \A v \in Services : Of(v)' = Of(v)
    BY <2>1 DEF Of
  <2>5. /\ ~ said.died => Alive(pidfile[sv])'
        /\ \A v \in Services : v # sv /\ Alive(pidfile[v]) => Alive(pidfile[v])'
    BY <1>3, <2>1, <2>2, <2>3, RunsAre DEF Alive
  <2>6. CASE sv = "server"
    <3>1. Moves(s, "check", "forwarder", <<"start">>) /\ UNCHANGED said
      BY <1>1, <2>1, <2>6, StartNextIs DEF PhoneInv
    <3>2. Alone(s, "check", "forwarder")'
      BY <2>2, <2>3, <2>4, <2>5, <2>6, <3>1, RunsAre DEF Alone, StartSteps, StopSteps
    <3> QED BY <1>2, <3>1, <3>2, AloneIsKept, RunsAre DEF PhoneInv
  <2>7. CASE sv = "forwarder"
    <3>1. /\ Moves(s, "ended", "forwarder", <<>>)
          /\ said'.what = "ON" /\ said'.died = said.died
      BY <1>1, <2>1, <2>7, StartNextIs DEF PhoneInv
    <3>2. Alone(s, "ended", "forwarder")'
      BY <2>2, <2>3, <2>4, <2>5, <2>7, <3>1, RunsAre DEF Alone, StartSteps, StopSteps
    <3> QED BY <1>2, <3>1, <3>2, AloneIsKept, RunsAre DEF PhoneInv
  <2> QED BY <1>3, <2>6, <2>7
<1> QED BY <1>4, <1>5, <1>6

LEMMA StopKeeps ==
  ASSUME PhoneAssumption, PhoneInv, ScriptsOK', NEW s \in Scripts,
         StopLook(s) \/ Kill(s) \/ Forget(s)
  PROVE  PhoneInv'
<1> PICK sv \in Services : sv = service[s]
  BY DEF PhoneInv, ScriptsOK
<1>1. pc[s] \in StopSteps
  BY DEF StopLook, Kill, Forget, StopSteps
<1>2. Alone(s, pc[s], sv) /\ \A t \in Scripts \ {s} : ~ Running(t)
  BY <1>1, AloneNow DEF Running, StopSteps
<1>3. sv = "server" \/ sv = "forwarder"
  BY RunsAre DEF PhoneInv, ScriptsOK
<1>4. /\ \A v \in Services : Of(v) \subseteq {pidfile[v]}
      /\ sv = "server" => Of("forwarder") = {}
  BY <1>1, <1>2 DEF Alone, StopSteps
\* When nothing of the service runs any more, its file is empty and the others
\* are as they were.
<1>5. ASSUME StopNext(s), UNCHANGED <<process, child>>, Of(sv) = {},
             \A v \in Services : pidfile'[v] = IF v = sv THEN NoPid ELSE pidfile[v]
      PROVE  PhoneInv'
  <2>1. \A v \in Services : Of(v)' = Of(v)
    BY <1>5 DEF Of
  <2>3. \A v \in Services : Of(v)' \subseteq {pidfile'[v]}
    BY <1>4, <1>5, <2>1
  <2>4. CASE sv = "forwarder"
    <3>1. Moves(s, "look", "server", calls[s]) /\ UNCHANGED said
      BY <1>1, <1>5, <2>4, StopNextIs DEF PhoneInv
    <3>2. Alone(s, "look", "server")'
      BY <1>5, <2>1, <2>3, <2>4, RunsAre DEF Alone, StartSteps, StopSteps
    <3> QED BY <1>2, <3>1, <3>2, AloneIsKept, RunsAre DEF PhoneInv
  <2>5. CASE sv = "server"
    <3>1. /\ \/ Moves(s, "ended", "server", <<>>)
             \/ Moves(s, "download", "server", <<"download", "start">>)
          /\ said'.what = "OFF" /\ said'.died = said.died
      BY <1>1, <1>5, <2>5, StopNextIs DEF PhoneInv
    <3>2. \A v \in Services : Of(v)' = {}
      BY <1>4, <1>5, <2>1, <2>5, RunsAre
    <3>3. Alone(s, "ended", "server")' /\ Alone(s, "download", "server")'
      BY <3>1, <3>2, RunsAre DEF Alone, StartSteps, StopSteps
    <3> QED BY <1>2, <3>1, <3>3, AloneIsKept, RunsAre DEF PhoneInv
  <2> QED BY <1>3, <2>4, <2>5
<1>6. CASE StopLook(s)
  <2>1. /\ UNCHANGED <<process, pidfile, child>>
        /\ IF pidfile[sv] = NoPid THEN StopNext(s) ELSE At(s, "kill")
    BY <1>6 DEF StopLook
  <2>2. CASE pidfile[sv] = NoPid
    <3>1. Of(sv) = {}
      BY <1>3, <1>4, <2>2, AliveIs, RunsAre DEF Alive
    <3>2. \A v \in Services : pidfile'[v] = IF v = sv THEN NoPid ELSE pidfile[v]
      BY <2>1, <2>2
    <3> QED BY <1>5, <2>1, <2>2, <3>1, <3>2
  <2>3. CASE pidfile[sv] # NoPid
    <3>1. Moves(s, "kill", sv, calls[s]) /\ UNCHANGED said
      BY <2>1, <2>3, AtIs DEF PhoneInv
    <3>2. \A v \in Services : Of(v)' = Of(v)
      BY <2>1, Untouched
    <3>3. Alone(s, "kill", sv)'
      BY <1>3, <1>4, <2>1, <3>2, RunsAre DEF Alone, StartSteps, StopSteps
    <3> QED BY <1>2, <1>3, <3>1, <3>3, AloneIsKept, RunsAre DEF PhoneInv
  <2> QED BY <2>2, <2>3
<1>7. CASE Kill(s)
  <2> DEFINE p == pidfile[sv]
  <2>1. /\ process' = IF Alive(p) THEN [process EXCEPT ![p] = "free"] ELSE process
        /\ UNCHANGED <<pidfile, child>> /\ At(s, "forget")
    BY <1>7 DEF Kill
  <2>2. Moves(s, "forget", sv, calls[s]) /\ UNCHANGED said
    BY <2>1, AtIs DEF PhoneInv
  <2>3. Of(sv) \subseteq {p}
    BY <1>3, <1>4, RunsAre
  <2>4. ~ Alive(p) => Of(sv) = {}
    BY <1>3, <2>3, AliveIs, RunsAre DEF PhoneInv
  <2>5. \A q \in Pids : process'[q] = IF Alive(p) /\ q = p THEN "free" ELSE process[q]
    BY <2>1 DEF PhoneInv, ScriptsOK
  <2> HIDE DEF p
  <2>6. \A v \in Services : Of(v)' \subseteq Of(v)
    BY <2>5, RunsAre DEF Of
  <2>7. Of(sv)' = {}
    BY <1>3, <2>3, <2>4, <2>5, <2>6, RunsAre DEF Of
  <2>8. Alone(s, "forget", sv)'
    BY <1>3, <1>4, <2>1, <2>6, <2>7, RunsAre DEF Alone, StartSteps, StopSteps
  <2> QED BY <1>2, <1>3, <2>2, <2>8, AloneIsKept, RunsAre DEF PhoneInv
<1>8. CASE Forget(s)
  <2>1. /\ pc[s] = "forget" /\ StopNext(s) /\ UNCHANGED <<process, child>>
        /\ pidfile' = [pidfile EXCEPT ![sv] = NoPid]
    BY <1>8 DEF Forget
  <2>2. Of(sv) = {}
    BY <1>2, <2>1 DEF Alone
  <2>3. \A v \in Services : pidfile'[v] = IF v = sv THEN NoPid ELSE pidfile[v]
    BY <2>1 DEF PhoneInv, ScriptsOK
  <2> QED BY <1>5, <2>1, <2>2, <2>3
<1> QED BY <1>6, <1>7, <1>8

LEMMA ToggleKeeps ==
  ASSUME PhoneInv, ScriptsOK', NEW s \in Scripts,
         Toggle(s) \/ Downloaded(s) \/ DownloadFails(s)
  PROVE  PhoneInv'
<1> PICK sv \in Services : sv = service[s]
  BY DEF PhoneInv, ScriptsOK
<1>1. pc[s] \in {"status", "download"}
  BY DEF Toggle, Downloaded, DownloadFails
<1>2. Alone(s, pc[s], sv) /\ \A t \in Scripts \ {s} : ~ Running(t)
  BY <1>1, AloneNow DEF Running
<1>3. \A v \in Services : Of(v) \subseteq {pidfile[v]}
  BY <1>1, <1>2 DEF Alone
<1>4. UNCHANGED <<process, pidfile, child>>
  BY ToggleIs, DownloadIs DEF PhoneInv
<1>5. \A v \in Services : Of(v)' = Of(v)
  BY <1>4, Untouched
<1>6. Alone(s, "look", "forwarder")' /\ Alone(s, "check", "server")'
  BY <1>3, <1>4, <1>5, RunsAre DEF Alone, StartSteps, StopSteps
<1>7. CASE Toggle(s)
  BY <1>2, <1>6, <1>7, ToggleIs, AloneIsKept, RunsAre DEF PhoneInv
<1>8. CASE Downloaded(s) \/ DownloadFails(s)
  <2>1. said.what = "OFF" /\ \A v \in Services : Of(v) = {}
    BY <1>2, <1>8 DEF Downloaded, DownloadFails, Alone
  <2>2. /\ \/ Moves(s, "check", "server", <<"start">>)
           \/ Moves(s, "ended", sv, <<>>)
        /\ said'.what = said.what /\ said'.died = said.died
    BY <1>8, DownloadIs DEF PhoneInv
  <2>3. Alone(s, "ended", sv)'
    BY <1>3, <1>4, <1>5, <2>1, <2>2, RunsAre DEF Alone, StartSteps, StopSteps
  <2> QED BY <1>2, <1>6, <2>2, <2>3, AloneIsKept, RunsAre DEF PhoneInv
<1> QED BY <1>7, <1>8

-----------------------------------------------------------------------------
(* Processes that die, and one that gets its port                          *)

LEMMA OneAtMost ==
  ASSUME PhoneInv, NEW sv \in Services
  PROVE  \E p : Of(sv) \subseteq {p}
BY DEF PhoneInv, KnownOK

\* A process that begins, or changes, without anything of VantaDNS starting or
\* ending, disturbs nothing.
LEMMA SameRunsKeep ==
  ASSUME PhoneInv, ScriptsOK', UNCHANGED <<pidfile, pc, service, child, said>>,
         \A sv \in Services : Of(sv)' = Of(sv),
         \A p \in Pids : Alive(p) => Alive(p)'
  PROVE  PhoneInv'
<1>1. /\ \A sv \in Services : Alive(pidfile[sv]) => Alive(pidfile[sv])'
      /\ \A s \in Scripts : Alive(child[s]) => Alive(child[s])'
  BY DEF PhoneInv, ScriptsOK, Alive
<1>2. KnownOK'
  BY <1>1 DEF PhoneInv, KnownOK
<1>3. ProgressOK' /\ OneAtATime'
  BY <1>1, RunsAre DEF PhoneInv, ProgressOK, OneAtATime, Running
<1>4. OffMeansOff' /\ OnUnlessTaken'
  BY <1>1 DEF PhoneInv, OffMeansOff, OnUnlessTaken, Quiet, Running
<1> QED BY <1>2, <1>3, <1>4 DEF PhoneInv

LEMMA BindKeeps ==
  ASSUME PhoneInv, ScriptsOK', NEW p \in Pids, Bind(p)
  PROVE  PhoneInv'
<1>1. process[p] = "booting" /\ UNCHANGED <<pidfile, command, pc, calls, service, child, said>>
  BY DEF Bind, Becomes
<1>2. ~ \E q \in Pids : process[q] = "server"
  <2> SUFFICES ASSUME NEW q \in Pids, process[q] = "server" PROVE FALSE
    OBVIOUS
  <2>1. p \in Of("server") /\ q \in Of("server")
    BY <1>1, RunsAre DEF Of
  <2>2. p = q
    BY <2>1, OneAtMost, RunsAre
  <2> QED BY <1>1, <2>2
<1>3. process' = [process EXCEPT ![p] = "server"]
  BY <1>2 DEF Bind, Becomes
<1>4. \A q \in Pids : process'[q] = IF q = p THEN "server" ELSE process[q]
  BY <1>3 DEF PhoneInv, ScriptsOK
<1>5. \A sv \in Services : Of(sv)' = Of(sv)
  BY <1>1, <1>4, RunsAre DEF Of
<1>6. \A q \in Pids : Alive(q) => Alive(q)'
  BY <1>4 DEF Alive
<1> QED BY <1>1, <1>5, <1>6, SameRunsKeep

LEMMA OtherStartsKeeps ==
  ASSUME PhoneInv, ScriptsOK', NEW p \in Pids, OtherStarts(p)
  PROVE  PhoneInv'
<1>1. process[p] = "free" /\ UNCHANGED <<pidfile, command, pc, calls, service, child, said>>
  BY DEF OtherStarts, Becomes
<1>2. \A q \in Pids : process'[q] = IF q = p THEN "other" ELSE process[q]
  BY DEF OtherStarts, Becomes, PhoneInv, ScriptsOK
<1>3. \A sv \in Services : Of(sv)' = Of(sv)
  BY <1>1, <1>2, RunsAre DEF Of
<1>4. \A q \in Pids : Alive(q) => Alive(q)'
  BY <1>2 DEF Alive
<1> QED BY <1>1, <1>3, <1>4, SameRunsKeep

LEMMA DiesKeeps ==
  ASSUME PhoneInv, ScriptsOK', NEW p \in Pids, Dies(p)
  PROVE  PhoneInv'
<1>1. UNCHANGED <<pidfile, command, pc, calls, service, child>>
  BY DEF Dies, Becomes
<1>2. said'.died /\ said'.what = said.what
  BY DEF Dies, PhoneInv, ScriptsOK
<1>3. \A q \in Pids : process'[q] = IF q = p THEN "free" ELSE process[q]
  BY DEF Dies, Becomes, PhoneInv, ScriptsOK
<1>4. \A sv \in Services : Of(sv)' \subseteq Of(sv)
  BY <1>3, RunsAre DEF Of
<1>5. KnownOK'
  BY <1>1, <1>2, <1>4 DEF PhoneInv, KnownOK, ScriptsOK
<1>6. ProgressOK' /\ OneAtATime' /\ OffMeansOff' /\ OnUnlessTaken'
  BY <1>1, <1>2, <1>4, RunsAre
     DEF PhoneInv, ProgressOK, OneAtATime, OffMeansOff, OnUnlessTaken, Quiet, Running
<1> QED BY <1>5, <1>6 DEF PhoneInv

LEMMA RebootKeeps ==
  ASSUME PhoneAssumption, PhoneInv, ScriptsOK', Reboot
  PROVE  PhoneInv'
<1>1. UNCHANGED <<pidfile, command, calls, service, child>>
  BY DEF Reboot
<1>2. said'.died /\ said'.what = said.what
  BY DEF Reboot, PhoneInv, ScriptsOK
<1>3. \A q \in Pids : process'[q] = "free"
  BY DEF Reboot
<1>4. \A s \in Scripts : pc'[s] \in {"idle", "ended"}
  BY DEF Reboot, Running
<1>5. \A sv \in Services : Of(sv)' = {}
  BY <1>3, RunsAre DEF Of
<1>6. KnownOK' /\ ProgressOK' /\ OneAtATime' /\ OffMeansOff' /\ OnUnlessTaken'
  BY <1>2, <1>4, <1>5 DEF KnownOK, ProgressOK, OneAtATime, OffMeansOff, OnUnlessTaken, Running,
                          StartSteps, StopSteps
<1> QED BY <1>6 DEF PhoneInv

LEMMA PhoneInvInit == PhoneAssumption /\ Init => PhoneInv
<1> SUFFICES ASSUME PhoneAssumption, Init PROVE PhoneInv
  OBVIOUS
<1>1. ScriptsOK
  BY TypesInit
<1>2. \A sv \in Services : Of(sv) = {}
  BY RunsAre DEF Init, Of
<1>3. \A s \in Scripts : pc[s] = "idle" /\ ~ Running(s)
  BY DEF Init, Running
<1> QED BY <1>1, <1>2, <1>3 DEF Init, PhoneInv, OneAtATime, KnownOK, ProgressOK,
          OffMeansOff, OnUnlessTaken, StartSteps, StopSteps

LEMMA PhoneInvNext ==
  ASSUME PhoneAssumption, AtOnce = 1
  PROVE  PhoneInv /\ [Next]_vars => PhoneInv'
<1> SUFFICES ASSUME PhoneInv, [Next]_vars PROVE PhoneInv'
  OBVIOUS
<1>1. ScriptsOK'
  BY TypesNext DEF PhoneInv
<1>2. ASSUME NEW s \in Scripts, Script(s) PROVE PhoneInv'
  BY <1>1, <1>2, LaunchKeeps, StartKeeps, StopKeeps, ToggleKeeps DEF Script
<1>3. ASSUME NEW p \in Pids, Bind(p) \/ OtherStarts(p) \/ Dies(p) PROVE PhoneInv'
  BY <1>1, <1>3, BindKeeps, OtherStartsKeeps, DiesKeeps
<1>4. CASE Reboot
  BY <1>1, <1>4, RebootKeeps
<1>5. CASE UNCHANGED vars
  BY <1>5 DEF vars, PhoneInv, ScriptsOK, OneAtATime, KnownOK, ProgressOK, OffMeansOff,
              OnUnlessTaken, Quiet, Running, Of, Alive
<1> QED BY <1>2, <1>3, <1>4, <1>5 DEF Next

LEMMA PhoneInvariant ==
  ASSUME AtOnce = 1
  PROVE  Spec => []PhoneInv
<1>1. Init => PhoneInv
  BY PhoneInvInit, PhoneAssumption
<1>2. PhoneInv /\ [Next]_vars => PhoneInv'
  BY PhoneInvNext, PhoneAssumption
<1> QED BY <1>1, <1>2, PTL DEF Spec

\* Scripts that do not overlap never start a service twice, whichever processes
\* die and whenever the phone restarts.
THEOREM NothingRunsTwice ==
  ASSUME AtOnce = 1
  PROVE  Spec => []OneOfEach
<1>1. PhoneInv => OneOfEach
  <2> SUFFICES ASSUME PhoneInv, NEW sv \in Services PROVE Cardinality(Of(sv)) <= 1
    BY DEF OneOfEach
  <2> PICK p : Of(sv) \subseteq {p}
    BY OneAtMost
  <2>1. Of(sv) = {} \/ Of(sv) = {p}
    OBVIOUS
  <2>2. Cardinality({}) = 0 /\ Cardinality({p}) = 1
    BY FS_EmptySet, FS_Singleton
  <2> QED BY <2>1, <2>2
<1> QED BY <1>1, PhoneInvariant, PTL

\* Once the last of them has said OFF, nothing runs.
THEOREM OffIsOff ==
  ASSUME AtOnce = 1
  PROVE  Spec => []OffMeansOff
<1>1. PhoneInv => OffMeansOff
  BY DEF PhoneInv
<1> QED BY <1>1, PhoneInvariant, PTL

\* Once the last of them has said ON, whatever ids the system has given to
\* whom, everything of VantaDNS that runs is in its PID file, and a service is
\* missing only if a live process of another kind has its id, or a process has
\* died since.
THEOREM OnUnlessIdTaken ==
  ASSUME AtOnce = 1
  PROVE  Spec => []OnUnlessTaken
<1>1. PhoneInv => OnUnlessTaken
  BY DEF PhoneInv
<1> QED BY <1>1, PhoneInvariant, PTL
=============================================================================
