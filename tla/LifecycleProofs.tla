-------------------------- MODULE LifecycleProofs --------------------------
(***************************************************************************)
(* Proofs about Lifecycle, for every number of clients, every device and   *)
(* every timeout: the process runs the poller as Poller has it, so what is *)
(* proved of Poller holds in the process; its exit code and what a clean   *)
(* exit leaves behind are as Lifecycle states.                             *)
(***************************************************************************)
EXTENDS Lifecycle, PromiseProofs

-----------------------------------------------------------------------------
(* Why the properties hold: with LifeTypeOK and DiscoveryStatusIsTrue      *)
(* these are inductive.                                                    *)

RestartNoted ==
  /\ first = "restart" \/ web["restart"] \in {"stored", "done"}
       => restartRequested
  /\ exit # None /\ restartRequested => exit = 1

(* What has returned stays so; before "go" nothing runs.                   *)
Quiet ==
  /\ run \in {"starting", "failed"} => responder = "bind" /\ pc[Loop] = "lock"
  /\ run = "returned" => pc[Loop] = "stopped" /\ responder = "done"
  /\ responder = "bind" => socket = "none"
  /\ responder = "done" => socket \in {"none", "closed"}
  /\ exit = 0 => Returned

(* An undisturbed stop takes no time: there is always a next step.         *)
Prompt ==
  /\ main # "service" => ctxDone
  /\ main = "service" => ~disturbed
  /\ (main = "exit") <=> (exit # None)
  /\ main = "stop" => stopAt \in Int
  /\ main = "stop" /\ ~disturbed => ~Refreshing /\ now = stopAt

-----------------------------------------------------------------------------
(* The poller in the process *)

LEMMA LifeStepIsStep == [LifeNext]_lifeVars => [Next]_vars
<1> SUFFICES ASSUME [LifeNext]_lifeVars PROVE [Next]_vars
  OBVIOUS
<1>1. CASE PollerStep
  BY <1>1 DEF PollerStep, Next, Environment
<1>2. ASSUME NEW c \in Clients, Refresh(c) PROVE Next
  BY <1>2 DEF Refresh, Next
<1>3. CASE CallStop
  BY <1>3 DEF CallStop, Next, Environment
<1>4. CASE \/ StartFails \/ StartServes \/ ServeFails \/ Shutdown
           \/ ShutdownEnds \/ RunReturns
  BY <1>4 DEF StartFails, StartServes, ServeFails, Shutdown, ShutdownEnds,
              RunReturns
<1>5. CASE \/ \E b \in Buttons : PressButton(b) \/ CallbackStops(b)
           \/ StoreRestart \/ ManagerStops \/ StopSucceeds \/ StopTimesOut
           \/ DiscoveryStep
  BY <1>5 DEF PressButton, CallbackStops, StoreRestart, ManagerStops,
              StopSucceeds, StopTimesOut, DiscoveryStep
<1>6. CASE UNCHANGED lifeVars
  BY <1>6 DEF lifeVars
<1> QED
  BY <1>1, <1>2, <1>3, <1>4, <1>5, <1>6 DEF LifeNext

(* What the poller does in the process, start-up and shutdown included, is *)
(* what Poller has it do on its own (main.go 174-178).                     *)
THEOREM ProcessRunsPoller == LifeSpec => Spec
<1>1. LifeInit => Init
  BY DEF LifeInit
<1> QED
  BY <1>1, LifeStepIsStep, PTL DEF LifeSpec, Spec

(* So the process polls one at a time.                                     *)
THEOREM ProcessPollsOneAtATime == LifeSpec => []TypeOK
  BY ProcessRunsPoller, TypeCorrect, PTL

(* From the first request served to the last poll of a process that is     *)
(* stopping, with users saving, storing thresholds in place, connecting    *)
(* and setting the clock throughout, its verdicts are those SafetyPromise  *)
(* allows, in order.                                                       *)
THEOREM ProcessKeepsPromise == LifeSpec => KeepsPromise /\ PublishInOrder
  BY ProcessRunsPoller, Refinement, Ordered

(* Until it is asked to stop, the process never leaves clients with an old *)
(* verdict or one by a configuration long replaced: neither its start-up   *)
(* nor what its other goroutines do, nor, beyond what Setback allows for,  *)
(* a clock that is set back.                                               *)
THEOREM ProcessIsTimely ==
  LifeSpec => [](PollsKeepComing /\ VerdictFresh /\ ConfigAdopted)
<1>1. LifeSpec => []PollsKeepComing
  BY ProcessRunsPoller, Polling
<1>2. LifeSpec => []VerdictFresh
  BY ProcessRunsPoller, Freshness
<1>3. LifeSpec => []ConfigAdopted
  BY ProcessRunsPoller, Adoption
<1> QED
  BY <1>1, <1>2, <1>3, PTL

-----------------------------------------------------------------------------
(* Types, and the status of the responder *)

LEMMA DiscoveryInit ==
  ASSUME Init, D!Init
  PROVE  D!TypeOK /\ D!StatusIsTrue
<1>1. ctxDone \in BOOLEAN
  BY DEF Init
<1>2. 0 \in 0..MaxProbes
  BY StopAssumption
<1> QED
  BY <1>1, <1>2 DEF D!Init, D!TypeOK, D!StatusIsTrue, D!Status

LEMMA DiscoveryNext ==
  ASSUME D!TypeOK, D!StatusIsTrue, D!Next
  PROVE  (D!TypeOK /\ D!StatusIsTrue)'
<1> USE StopAssumption DEF D!TypeOK, D!StatusIsTrue
<1>1. status \in D!Status
  OBVIOUS
<1>2. /\ status.request \in Nat /\ status.request <= MaxProbes
      /\ status.response \in Nat /\ status.response <= MaxProbes
      /\ status.count \in Nat
  BY <1>1 DEF D!Status
<1>3. CASE D!Bind
  BY <1>1, <1>3 DEF D!Bind, D!Status
<1>4. CASE D!BindFails
  BY <1>1, <1>4 DEF D!BindFails, D!Status
<1>5. CASE D!CloseSocket
  BY <1>5 DEF D!CloseSocket
<1>6. CASE D!SocketBreaks
  BY <1>6 DEF D!SocketBreaks
<1>7. CASE D!ReadProbe
  BY <1>1, <1>2, <1>7 DEF D!ReadProbe, D!Status
<1>8. CASE D!Reply
  <2>1. status' = [running |-> status.running, healthy |-> status.healthy,
                   error |-> status.error, request |-> status.request,
                   response |-> status.request, count |-> status.count + 1]
    BY <1>1, <1>8 DEF D!Reply, D!Status
  <2>2. status.count + 1 = status.request
    BY <1>2, <1>8 DEF D!Reply
  <2>3. status' \in D!Status
    BY <1>1, <1>2, <2>1, <2>2 DEF D!Status
  <2> QED
    BY <1>2, <1>8, <2>1, <2>2, <2>3 DEF D!Reply
<1>9. CASE D!ReadFails
  BY <1>1, <1>9 DEF D!ReadFails, D!discoveryVars, D!Status
<1> QED
  BY <1>3, <1>4, <1>5, <1>6, <1>7, <1>8, <1>9 DEF D!Next

LEMMA LifeTypeInit == LifeInit => LifeTypeOK /\ D!StatusIsTrue
<1> SUFFICES ASSUME LifeInit PROVE LifeTypeOK /\ D!StatusIsTrue
  OBVIOUS
<1>1. TypeOK
  BY TypeInit DEF LifeInit
<1>2. D!TypeOK /\ D!StatusIsTrue
  BY DiscoveryInit DEF LifeInit
<1> QED
  BY <1>1, <1>2 DEF LifeInit, LifeTypeOK, Optional

LEMMA LifeTypeNext ==
  ASSUME LifeTypeOK, D!StatusIsTrue, [LifeNext]_lifeVars
  PROVE  (LifeTypeOK /\ D!StatusIsTrue)'
<1>1. TypeOK'
  BY TypeNext, LifeStepIsStep DEF LifeTypeOK
<1>2. now \in Int /\ ctxDone' \in BOOLEAN
  BY <1>1 DEF LifeTypeOK, TypeOK
<1>3. (D!TypeOK /\ D!StatusIsTrue)'
  <2>1. CASE DiscoveryStep
    BY <2>1, DiscoveryNext DEF DiscoveryStep, LifeTypeOK
  <2>2. CASE UNCHANGED discovery
    BY <1>2, <2>2 DEF discovery, LifeTypeOK, D!TypeOK, D!StatusIsTrue
  <2>3. DiscoveryStep \/ UNCHANGED discovery
    BY DEF LifeNext, StartFails, StartServes, ServeFails, Shutdown,
           ShutdownEnds, RunReturns, PressButton, CallbackStops,
           StoreRestart, ManagerStops, CallStop, StopSucceeds, StopTimesOut,
           PollerStep, Refresh, lifeVars
  <2> QED
    BY <2>1, <2>2, <2>3
<1>4. CASE \/ StartFails \/ StartServes \/ ServeFails \/ Shutdown
           \/ ShutdownEnds \/ RunReturns
  <2>1. UNCHANGED control /\ UNCHANGED disturbed
    BY <1>4 DEF StartFails, StartServes, ServeFails, Shutdown, ShutdownEnds,
                RunReturns
  <2>2. /\ run' \in {"starting", "failed", "serving", "shutdown", "wait",
                     "returned"}
        /\ http' \in BOOLEAN
        /\ http' => run' = "serving"
    <3>1. http \in BOOLEAN /\ (http => run = "serving")
      BY DEF LifeTypeOK
    <3>2. CASE StartFails \/ ShutdownEnds \/ RunReturns
      BY <3>1, <3>2 DEF StartFails, ShutdownEnds, RunReturns
    <3>3. CASE StartServes
      BY <3>3 DEF StartServes
    <3>4. CASE ServeFails \/ Shutdown
      BY <3>4 DEF ServeFails, Shutdown
    <3> QED
      BY <1>4, <3>2, <3>3, <3>4
  <2>3. shutAt' \in Optional(Int)
    BY <1>2, <1>4 DEF StartFails, StartServes, ServeFails, Shutdown,
                      ShutdownEnds, RunReturns, LifeTypeOK, Optional
  <2> QED
    BY <1>1, <1>3, <2>1, <2>2, <2>3 DEF LifeTypeOK, control
<1>5. ASSUME NEW b \in Buttons, PressButton(b) \/ CallbackStops(b)
      PROVE  LifeTypeOK'
  <2>1. UNCHANGED <<process, main, stopAt, restartRequested, exit, disturbed>>
    BY <1>5 DEF PressButton, CallbackStops
  <2>2. web' \in [Buttons -> {"none", "answered", "stored", "done"}]
    BY <1>5 DEF PressButton, CallbackStops, LifeTypeOK
  <2>3. stopAsked' \in BOOLEAN
    BY <1>5 DEF PressButton, CallbackStops, AskStop, LifeTypeOK
  <2>4. first' \in Buttons \cup {"manager", "nobody"}
    BY <1>5 DEF PressButton, CallbackStops, AskStop, LifeTypeOK
  <2> QED
    BY <1>1, <1>3, <2>1, <2>2, <2>3, <2>4 DEF LifeTypeOK, process
<1>6. CASE StoreRestart \/ ManagerStops
  <2>1. UNCHANGED <<process, main, stopAt, exit, disturbed>>
    BY <1>6 DEF StoreRestart, ManagerStops
  <2>2. web' \in [Buttons -> {"none", "answered", "stored", "done"}]
    BY <1>6 DEF StoreRestart, ManagerStops, LifeTypeOK
  <2>3. stopAsked' \in BOOLEAN /\ restartRequested' \in BOOLEAN
    BY <1>6 DEF StoreRestart, ManagerStops, AskStop, LifeTypeOK
  <2>4. first' \in Buttons \cup {"manager", "nobody"}
    BY <1>6 DEF StoreRestart, ManagerStops, AskStop, LifeTypeOK
  <2> QED
    BY <1>1, <1>3, <2>1, <2>2, <2>3, <2>4 DEF LifeTypeOK, process
<1>7. CASE CallStop \/ StopSucceeds \/ StopTimesOut
  <2>1. UNCHANGED <<process, stopAsked, restartRequested, web, first>>
    BY <1>7 DEF CallStop, StopSucceeds, StopTimesOut
  <2>2. main' \in {"service", "stop", "exit"} /\ exit' \in {None, 0, 1}
    BY <1>7 DEF CallStop, StopSucceeds, StopTimesOut, LifeTypeOK
  <2>3. stopAt' \in Optional(Int)
    BY <1>2, <1>7 DEF CallStop, StopSucceeds, StopTimesOut, LifeTypeOK,
                      Optional
  <2>4. disturbed' \in BOOLEAN
    BY <1>7 DEF CallStop, StopSucceeds, StopTimesOut, LifeTypeOK, Refreshing
  <2> QED
    BY <1>1, <1>3, <2>1, <2>2, <2>3, <2>4 DEF LifeTypeOK, process
<1>8. CASE PollerStep \/ DiscoveryStep \/ UNCHANGED lifeVars
  BY <1>1, <1>3, <1>8
     DEF LifeTypeOK, PollerStep, DiscoveryStep, lifeVars, process, control
<1>9. ASSUME NEW c \in Clients, Refresh(c) PROVE LifeTypeOK'
  BY <1>1, <1>3, <1>9 DEF LifeTypeOK, Refresh, process, control
<1> QED
  BY <1>3, <1>4, <1>5, <1>6, <1>7, <1>8, <1>9 DEF LifeNext

(* Types; requests come in only while run serves them.                     *)
THEOREM LifeTypeCorrect == LifeSpec => []LifeTypeOK
<1>1. LifeTypeOK /\ D!StatusIsTrue /\ [LifeNext]_lifeVars
        => (LifeTypeOK /\ D!StatusIsTrue)'
  BY LifeTypeNext
<1> QED
  BY <1>1, LifeTypeInit, PTL DEF LifeSpec

(* What the dashboard says of discovery is true of its goroutine, whatever *)
(* fails and whenever it is stopped.                                       *)
THEOREM TrueStatus == LifeSpec => []DiscoveryStatusIsTrue
<1>1. LifeTypeOK /\ D!StatusIsTrue /\ [LifeNext]_lifeVars
        => (LifeTypeOK /\ D!StatusIsTrue)'
  BY LifeTypeNext
<1>2. D!StatusIsTrue <=> DiscoveryStatusIsTrue
  BY DEF DiscoveryStatusIsTrue
<1> QED
  BY <1>1, <1>2, LifeTypeInit, PTL DEF LifeSpec

-----------------------------------------------------------------------------
(* The exit code *)

LEMMA RestartNext ==
  ASSUME LifeTypeOK, RestartNoted, [LifeNext]_lifeVars
  PROVE  RestartNoted'
<1> USE NoneAssumption
<1>1. CASE \/ StartFails \/ StartServes \/ ServeFails \/ Shutdown
           \/ ShutdownEnds \/ RunReturns \/ PollerStep \/ DiscoveryStep
           \/ (\E c \in Clients : Refresh(c)) \/ UNCHANGED lifeVars
  <2>1. UNCHANGED control
    BY <1>1 DEF StartFails, StartServes, ServeFails, Shutdown, ShutdownEnds,
                RunReturns, PollerStep, DiscoveryStep, Refresh, lifeVars
  <2> QED
    BY <2>1 DEF RestartNoted, control
<1>2. ASSUME NEW b \in Buttons, PressButton(b) PROVE RestartNoted'
  BY <1>2 DEF PressButton, RestartNoted, LifeTypeOK, Buttons
<1>3. ASSUME exit = None, StoreRestart PROVE RestartNoted'
  BY <1>3 DEF StoreRestart, RestartNoted
<1>4. ASSUME NEW b \in Buttons, CallbackStops(b) PROVE RestartNoted'
  <2>1. web["restart"] = "stored" \/ b = "stop"
    BY <1>4 DEF CallbackStops, Buttons
  <2>2. first' = "restart" => first = "restart" \/ b = "restart"
    BY <1>4 DEF CallbackStops, AskStop
  <2>3. web'["restart"] \in {"stored", "done"}
          => web["restart"] \in {"stored", "done"}
    BY <1>4, <2>1 DEF CallbackStops, LifeTypeOK, Buttons
  <2> QED
    BY <1>4, <2>1, <2>2, <2>3 DEF CallbackStops, RestartNoted
<1>5. CASE ManagerStops
  <2>1. first' \in {first, "manager"}
    BY <1>5 DEF ManagerStops, AskStop
  <2> QED
    BY <1>5, <2>1 DEF ManagerStops, RestartNoted
<1>6. CASE CallStop \/ StopSucceeds \/ StopTimesOut
  BY <1>6 DEF CallStop, StopSucceeds, StopTimesOut, RestartNoted
<1> QED
  BY <1>1, <1>2, <1>3, <1>4, <1>5, <1>6 DEF LifeNext

(* The restart is noted before the stop is asked for, so the exit code     *)
(* that main computes after the stop always sees it.                       *)
THEOREM RestartIsSeen == LifeSpec => []RestartExitsWithOne
<1>1. LifeInit => RestartNoted
  BY NoneAssumption DEF LifeInit, RestartNoted, Buttons
<1>2. LifeTypeOK /\ RestartNoted /\ [LifeNext]_lifeVars => RestartNoted'
  BY RestartNext
<1>3. RestartNoted => RestartExitsWithOne
  BY DEF RestartNoted, RestartExitsWithOne
<1> QED
  BY <1>1, <1>2, <1>3, LifeTypeCorrect, PTL DEF LifeSpec

-----------------------------------------------------------------------------
(* What a clean exit leaves behind *)

LEMMA QuietNext ==
  ASSUME LifeTypeOK, Quiet, [LifeNext]_lifeVars
  PROVE  Quiet'
<1> USE NoneAssumption
<1>1. /\ run \in {"starting", "failed"}
           => responder = "bind" /\ pc[Loop] = "lock"
      /\ run = "returned" => pc[Loop] = "stopped" /\ responder = "done"
      /\ responder = "bind" => socket = "none"
      /\ responder = "done" => socket \in {"none", "closed"}
      /\ exit = 0 => Returned
  BY DEF Quiet
<1>2. CASE \/ StartFails \/ StartServes \/ ServeFails \/ Shutdown
           \/ ShutdownEnds \/ RunReturns
  <2>1. UNCHANGED <<pc, responder, socket, exit>>
    BY <1>2 DEF StartFails, StartServes, ServeFails, Shutdown, ShutdownEnds,
                RunReturns, vars, discovery, control
  <2>2. CASE StartFails
    BY <1>1, <2>1, <2>2 DEF StartFails, Quiet, Returned
  <2>3. CASE StartServes \/ ServeFails \/ Shutdown \/ ShutdownEnds
    <3>1. run' \in {"serving", "shutdown", "wait"} /\ ~Returned
      BY <2>3 DEF StartServes, ServeFails, Shutdown, ShutdownEnds, Returned
    <3> QED
      BY <1>1, <2>1, <3>1 DEF Quiet
  <2>4. CASE RunReturns
    BY <1>1, <2>1, <2>4 DEF RunReturns, Quiet, Returned
  <2> QED
    BY <1>2, <2>2, <2>3, <2>4
<1>3. ASSUME NEW b \in Buttons, PressButton(b) \/ CallbackStops(b)
      PROVE  Quiet'
  <2>1. UNCHANGED <<pc, run, responder, socket, exit>>
    BY <1>3 DEF PressButton, CallbackStops, vars, discovery, process
  <2> QED
    BY <2>1 DEF Quiet, Returned
<1>4. CASE StoreRestart \/ ManagerStops \/ CallStop \/ UNCHANGED lifeVars
  <2>1. UNCHANGED <<pc, run, responder, socket, exit>>
    BY <1>4 DEF StoreRestart, ManagerStops, CallStop, Cancel, lifeVars, vars,
                discovery, process, control
  <2> QED
    BY <2>1 DEF Quiet, Returned
<1>5. CASE StopSucceeds \/ StopTimesOut
  <2>1. UNCHANGED <<pc, run, responder, socket>>
    BY <1>5 DEF StopSucceeds, StopTimesOut, vars, discovery, process
  <2>2. exit' = 0 => Returned
    BY <1>5 DEF StopSucceeds, StopTimesOut
  <2> QED
    BY <2>1, <2>2 DEF Quiet, Returned
<1>6. CASE PollerStep
  <2>1. UNCHANGED <<run, responder, socket, exit>> /\ Started
    BY <1>6 DEF PollerStep, discovery, process, control
  <2>2. pc[Loop] = "stopped" => pc'[Loop] = "stopped"
    BY <1>6, AgentAssumption
       DEF PollerStep, Outside, PutInPlace, Tick, ClockStep, SetConnected,
           SaveConfig, StoreThreshold, LoopTick, LoopStop, PollStep,
           PollBegin, FetchOk, FetchFail, Publish, LifeTypeOK, TypeOK, Agents
  <2> QED
    BY <1>1, <2>1, <2>2 DEF Quiet, Returned, Started
<1>7. ASSUME NEW c \in Clients, Refresh(c) PROVE Quiet'
  <2>1. UNCHANGED <<run, responder, socket, exit>>
    BY <1>7 DEF Refresh, discovery, process, control
  <2>2. pc'[Loop] = pc[Loop]
    BY <1>7, AgentAssumption DEF Refresh, CallPollNow, LifeTypeOK, TypeOK
  <2> QED
    BY <2>1, <2>2 DEF Quiet, Returned
<1>8. CASE DiscoveryStep
  <2>1. UNCHANGED <<run, pc, exit>> /\ Started
    BY <1>8 DEF DiscoveryStep, vars, process, control
  <2>2. /\ responder = "done" => responder' = "done"
        /\ responder' = "bind" => responder = "bind" /\ socket' = socket
        /\ responder' = "done" => socket' \in {"none", "closed"}
    BY <1>1, <1>8
       DEF DiscoveryStep, D!Next, D!Bind, D!BindFails, D!CloseSocket,
           D!SocketBreaks, D!ReadProbe, D!Reply, D!ReadFails,
           D!discoveryVars
  <2> QED
    BY <1>1, <2>1, <2>2 DEF Quiet, Returned, Started
<1> QED
  BY <1>2, <1>3, <1>4, <1>5, <1>6, <1>7, <1>8 DEF LifeNext

(* An exit with 0 finds the loop and the responder returned and the socket *)
(* closed, or nothing of this ever started.                                *)
THEOREM NothingLeftBehind == LifeSpec => []CleanExitIsQuiet
<1>1. LifeInit => Quiet
  BY NoneAssumption DEF LifeInit, Init, D!Init, Quiet, Agents
<1>2. LifeTypeOK /\ Quiet /\ [LifeNext]_lifeVars => Quiet'
  BY QuietNext
<1>3. Quiet => CleanExitIsQuiet
  BY DEF Quiet, CleanExitIsQuiet, Returned
<1> QED
  BY <1>1, <1>2, <1>3, LifeTypeCorrect, PTL DEF LifeSpec

-----------------------------------------------------------------------------
(* How long a stop takes *)

(* When a stop is under way and no refresh is, somebody always has a step  *)
(* to take that waits for nothing: the mutex is free or the loop's own,    *)
(* and the cancelled context ends the loop's fetch and closes the socket.  *)
LEMMA StopNeedsNoTime ==
  ASSUME LifeTypeOK, Quiet, ctxDone, ~Refreshing, main = "stop", Started
  PROVE  LifeRunnable
<1>1. TypeOK /\ D!TypeOK
  BY DEF LifeTypeOK
<1>2. CASE run = "serving" \/ run = "returned" \/ run = "shutdown"
  BY <1>2 DEF LifeRunnable, Returned
<1>3. CASE run = "wait"
  <2>1. CASE responder # "done"
    <3>1. D!Runnable
      BY <1>1, <2>1 DEF D!TypeOK, D!Runnable
    <3> QED
      BY <3>1 DEF LifeRunnable
  <2>2. CASE responder = "done" /\ pc[Loop] = "stopped"
    BY <1>3, <2>2 DEF LifeRunnable
  <2>3. CASE pc[Loop] # "stopped"
    <3>1. pc[Loop] \in {"select", "lock", "fetch", "publish"}
      BY <1>1, <2>3 DEF TypeOK, LoopPC
    <3>2. pc[Loop] = "lock" => mu = None
      <4>1. SUFFICES ASSUME pc[Loop] = "lock", mu # None PROVE FALSE
        OBVIOUS
      <4>2. mu \in Agents /\ InPoll(mu)
        BY <1>1, <4>1, Numbers
      <4>3. mu \in Clients
        BY <4>1, <4>2 DEF Agents, InPoll
      <4> QED
        BY <4>2, <4>3 DEF Refreshing, InPoll
    <3>3. Loop \in Agents
      BY DEF Agents
    <3>4. Runnable
      BY <3>1, <3>2, <3>3 DEF Runnable
    <3> QED
      BY <3>4 DEF LifeRunnable
  <2> QED
    BY <2>1, <2>2, <2>3
<1> QED
  BY <1>2, <1>3 DEF Started

LEMMA PromptNext ==
  ASSUME LifeTypeOK, Quiet, Prompt, exit = None, LifeNext
  PROVE  Prompt'
<1> USE NoneAssumption
<1>1. /\ main # "service" => ctxDone
      /\ main = "service" => ~disturbed
      /\ main # "exit"
      /\ main = "stop" => stopAt \in Int
      /\ main = "stop" /\ ~disturbed => ~Refreshing /\ now = stopAt
  BY DEF Prompt
<1>2. now \in Int /\ Loop \notin Clients
  BY AgentAssumption DEF LifeTypeOK, TypeOK
<1>3. CASE \/ StartFails \/ StartServes \/ ServeFails \/ Shutdown
           \/ ShutdownEnds \/ RunReturns \/ StoreRestart \/ ManagerStops
           \/ DiscoveryStep \/ \E b \in Buttons : PressButton(b)
           \/ \E b \in Buttons : CallbackStops(b)
  <2>1. UNCHANGED <<now, pc, ctxDone, main, stopAt, exit, disturbed>>
    BY <1>3
       DEF StartFails, StartServes, ServeFails, Shutdown, ShutdownEnds,
           RunReturns, StoreRestart, ManagerStops, DiscoveryStep,
           PressButton, CallbackStops, vars, clock, control
  <2> QED
    BY <2>1 DEF Prompt, Refreshing
<1>4. CASE CallStop
  <2>1. /\ ctxDone' /\ main' = "stop" /\ stopAt' = now
        /\ disturbed' = Refreshing /\ exit' = exit
        /\ pc' = pc /\ now' = now
    BY <1>4 DEF CallStop, Cancel, clock
  <2>2. Refreshing' = Refreshing
    BY <2>1 DEF Refreshing
  <2> QED
    BY <1>2, <2>1, <2>2 DEF Prompt
<1>5. CASE StopSucceeds \/ StopTimesOut
  <2>1. main' = "exit" /\ exit' # None /\ ctxDone' = ctxDone
    BY <1>5 DEF StopSucceeds, StopTimesOut, vars
  <2>2. ctxDone
    BY <1>1, <1>5 DEF StopSucceeds, StopTimesOut, StopExpired
  <2> QED
    BY <2>1, <2>2 DEF Prompt
<1>6. CASE PollerStep
  <2>1. UNCHANGED <<main, stopAt, exit, disturbed>> /\ Started
    BY <1>6 DEF PollerStep, control
  <2>2. ctxDone => ctxDone'
    BY <1>6 DEF PollerStep, Outside, PutInPlace, Tick, ClockStep,
                SetConnected, SaveConfig, StoreThreshold, LoopTick, LoopStop,
                PollStep, PollBegin, FetchOk, FetchFail, Publish
  <2>3. main = "stop" /\ ~disturbed => now' = now
    <3>1. SUFFICES ASSUME main = "stop", ~disturbed PROVE now' = now
      OBVIOUS
    <3>2. LifeRunnable
      BY <1>1, <2>1, <3>1, StopNeedsNoTime
    <3> QED
      BY <1>6, <3>2
         DEF PollerStep, Outside, PutInPlace, ClockStep, SetConnected,
             SaveConfig, StoreThreshold, LoopTick, LoopStop, PollStep,
             PollBegin, FetchOk, FetchFail, Publish, clock
  <2>4. ~Refreshing => ~Refreshing'
    <3>1. SUFFICES ASSUME ~Refreshing, NEW c \in Clients
                   PROVE  pc'[c] = "idle"
      BY DEF Refreshing
    <3>2. pc[c] = "idle" /\ c # Loop
      BY <1>2, <3>1 DEF Refreshing
    <3>3. pc \in [Agents -> ClientPC \cup LoopPC] /\ c \in Agents
      BY DEF LifeTypeOK, TypeOK, Agents
    <3> QED
      BY <1>6, <3>2, <3>3
         DEF PollerStep, Outside, PutInPlace, Tick, ClockStep, SetConnected,
             SaveConfig, StoreThreshold, LoopTick, LoopStop, PollStep,
             PollBegin, FetchOk, FetchFail, Publish
  <2> QED
    BY <1>1, <2>1, <2>2, <2>3, <2>4 DEF Prompt
<1>7. ASSUME NEW c \in Clients, Refresh(c) PROVE Prompt'
  <2>1. UNCHANGED <<now, ctxDone, main, stopAt, exit>>
    BY <1>7 DEF Refresh, CallPollNow, clock, control
  <2>2. disturbed' = (disturbed \/ main = "stop")
    BY <1>7 DEF Refresh
  <2> QED
    BY <1>1, <2>1, <2>2 DEF Prompt
<1> QED
  BY <1>3, <1>4, <1>5, <1>6, <1>7 DEF LifeNext

LifeInv == /\ LifeTypeOK
           /\ D!StatusIsTrue
           /\ Quiet
           /\ Prompt
           /\ UndisturbedStopIsClean

LEMMA LifeInvNext == LifeInv /\ [LifeNext]_lifeVars => LifeInv'
<1> SUFFICES ASSUME LifeInv, [LifeNext]_lifeVars PROVE LifeInv'
  OBVIOUS
<1> USE NoneAssumption, StopAssumption DEF LifeInv
<1>1. (LifeTypeOK /\ D!StatusIsTrue)' /\ Quiet'
  BY LifeTypeNext, QuietNext
<1>2. CASE UNCHANGED lifeVars
  <2>1. UNCHANGED <<now, pc, ctxDone, main, stopAt, restartRequested, exit,
                    disturbed>>
    BY <1>2 DEF lifeVars, vars, clock, control
  <2>2. Prompt' /\ UndisturbedStopIsClean'
    BY <2>1 DEF Prompt, Refreshing, UndisturbedStopIsClean
  <2> QED
    BY <1>1, <2>2
<1>3. CASE exit = None /\ LifeNext
  <2>1. Prompt'
    BY <1>3, PromptNext
  <2>2. UndisturbedStopIsClean'
    <3>1. CASE StopSucceeds
      BY <3>1 DEF StopSucceeds, UndisturbedStopIsClean
    <3>2. CASE StopTimesOut
      <4>1. main = "stop" /\ now >= stopAt + StopTimeout /\ stopAt \in Int
        BY <3>2 DEF StopTimesOut, StopExpired, Prompt
      <4>2. disturbed
        BY <4>1 DEF Prompt
      <4> QED
        BY <3>2, <4>2 DEF StopTimesOut, UndisturbedStopIsClean
    <3>3. CASE ~StopSucceeds /\ ~StopTimesOut
      <4>1. exit' = None
        BY <1>3, <3>3
           DEF LifeNext, StartFails, StartServes, ServeFails, Shutdown,
               ShutdownEnds, RunReturns, StoreRestart, ManagerStops,
               DiscoveryStep, PressButton, CallbackStops, CallStop,
               PollerStep, Refresh, control
      <4> QED
        BY <4>1 DEF UndisturbedStopIsClean
    <3> QED
      BY <3>1, <3>2, <3>3
  <2> QED
    BY <1>1, <2>1, <2>2
<1> QED
  BY <1>2, <1>3 DEF LifeNext

LEMMA LifeInvariant == LifeSpec => []LifeInv
<1>1. LifeInit => LifeInv
  <2>1. ASSUME LifeInit PROVE Quiet /\ Prompt
    BY <2>1, NoneAssumption, AgentAssumption
       DEF LifeInit, Init, D!Init, Quiet, Prompt, Agents
  <2>2. ASSUME LifeInit PROVE UndisturbedStopIsClean
    BY <2>2 DEF LifeInit, UndisturbedStopIsClean
  <2> QED
    BY <2>1, <2>2, LifeTypeInit DEF LifeInv
<1> QED
  BY <1>1, LifeInvNext, PTL DEF LifeSpec

(* A stop that no refresh disturbs always exits with the code of a clean   *)
(* stop, whatever the poll of the loop and discovery were doing.           *)
THEOREM CleanStop == LifeSpec => []UndisturbedStopIsClean
<1>1. LifeInv => UndisturbedStopIsClean
  BY DEF LifeInv
<1> QED
  BY <1>1, LifeInvariant, PTL
=============================================================================
