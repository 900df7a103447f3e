-------------------------- MODULE PollOrderProofs --------------------------
(***************************************************************************)
(* Proofs about Poller that need nothing of its clocks: in which order     *)
(* verdicts appear, and what a verdict without an error or without a       *)
(* reading rests on, whatever the wall clock reads.                        *)
(***************************************************************************)
EXTENDS PollerProofs

LEMMA PollOrderInit == Init => PollOrder
  BY DEF Init, PollOrder

(* What PollOrder says of the poll under way it says of any steps that     *)
(* leave it its URL, its stamps and one value for what it shares.          *)
LEMMA PollOrderKept ==
  ASSUME TypeOK, PollOrder,
         UNCHANGED <<mu, poller>>, now' \in Int, now' >= now,
         mu # None => /\ pc'[mu] = pc[mu]
                      /\ local'[mu].start = local[mu].start
                      /\ local'[mu].at = local[mu].at
                      /\ local'[mu].cfg.url = local[mu].cfg.url
                      /\ \A t \in local'[mu].shares :
                           local'[mu].cfg[t] = cfg'[t],
         ghost'.begun = ghost.begun, ghost'.success = ghost.success,
         ghost'.basis = ghost.basis, ghost'.pubStart = ghost.pubStart
  PROVE  PollOrder'
<1> USE Numbers
<1> QED
  BY DEF PollOrder

(* The steps that poll nothing.                                            *)
LEMMA PollOrderOther ==
  ASSUME TypeOK, PollOrder,
         \/ Tick
         \/ \E d \in ClockSteps : ClockStep(d)
         \/ \E v \in BOOLEAN : SetConnected(v)
         \/ Cancel
         \/ LoopTick
         \/ LoopStop
         \/ \E c \in Clients : CallPollNow(c)
         \/ UNCHANGED vars
  PROVE  PollOrder'
<1> USE Numbers
<1>1. /\ UNCHANGED <<mu, poller, local, cfg, ghost>>
      /\ now' \in Int /\ now' >= now
  BY DEF Tick, ClockStep, SetConnected, Cancel, LoopTick, LoopStop,
         CallPollNow, vars, clock, shared
<1>2. mu # None => pc'[mu] = pc[mu]
  <2>1. SUFFICES ASSUME mu # None PROVE pc'[mu] = pc[mu]
    OBVIOUS
  <2>2. mu \in Agents /\ pc[mu] \in {"fetch", "publish"}
    BY <2>1 DEF InPoll
  <2>3. \/ UNCHANGED pc
        \/ pc[Loop] = "select" /\ \E x : pc' = [pc EXCEPT ![Loop] = x]
        \/ \E c \in Clients :
             pc[c] = "idle" /\ \E x : pc' = [pc EXCEPT ![c] = x]
    BY DEF Tick, ClockStep, SetConnected, Cancel, LoopTick, LoopStop,
           CallPollNow, vars
  <2> QED
    BY <2>2, <2>3 DEF TypeOK
<1>3. mu # None => \A t \in local[mu].shares : local[mu].cfg[t] = cfg[t]
  BY DEF PollOrder
<1> QED
  BY <1>1, <1>2, <1>3, PollOrderKept

LEMMA PollOrderSave ==
  ASSUME TypeOK, PollOrder, NEW c \in Configs, SaveConfig(c)
  PROVE  PollOrder'
<1>1. /\ ghost'.begun = ghost.begun /\ ghost'.success = ghost.success
      /\ ghost'.basis = ghost.basis /\ ghost'.pubStart = ghost.pubStart
  BY DEF SaveConfig, TypeOK, Ghost
<1>2. now' \in Int /\ now' >= now
  BY SaveEffect, Numbers
<1>3. mu # None => mu \in Agents
  BY DEF TypeOK, Optional
<1> QED
  BY <1>1, <1>2, <1>3, SaveEffect, PollOrderKept

LEMMA PollOrderStore ==
  ASSUME TypeOK, PollOrder, NEW t \in Thresholds, NEW n \in StoredThresholds,
         StoreThreshold(t, n)
  PROVE  PollOrder'
<1>1. /\ ghost'.begun = ghost.begun /\ ghost'.success = ghost.success
      /\ ghost'.basis = ghost.basis /\ ghost'.pubStart = ghost.pubStart
  BY StoreEffect DEF TypeOK, Ghost
<1>2. now' \in Int /\ now' >= now
  BY StoreEffect, Numbers
<1>3. mu # None => mu \in Agents
  BY DEF TypeOK, Optional
<1>4. mu # None => \A s \in local'[mu].shares : local'[mu].cfg[s] = cfg'[s]
  BY <1>3, StoreEffect DEF PollOrder
<1> QED
  BY <1>1, <1>2, <1>3, <1>4, StoreEffect, PollOrderKept

LEMMA PollOrderBegin ==
  ASSUME TypeOK, PollOrder, NEW a \in Agents, PollBegin(a)
  PROVE  PollOrder'
<1> USE Numbers
<1>1. /\ ghost'.begun = now /\ ghost'.success = ghost.success
      /\ ghost'.basis = ghost.basis /\ ghost'.pubStart = ghost.pubStart
  BY DEF PollBegin, TypeOK, Ghost
<1>2. /\ mu' = a /\ now' = now /\ pc'[a] = "fetch"
      /\ local'[a].start = now /\ local'[a].cfg = cfg /\ cfg' = cfg
      /\ local'[a].shares = Pointed(cfg)
  BY DEF PollBegin, TypeOK, clock, shared
<1>3. /\ poller'.url = cfg.url
      /\ poller'.hasData = poller.hasData
      /\ poller'.sensors = poller.sensors
  BY DEF PollBegin, TypeOK, PollerFields
<1> QED
  BY <1>1, <1>2, <1>3 DEF PollOrder

LEMMA PollOrderFetch ==
  ASSUME TypeOK, PollOrder, NEW a \in Agents, FetchOk(a) \/ FetchFail(a)
  PROVE  PollOrder'
<1> USE Numbers
<1>1. mu = a /\ mu # None /\ mu' = mu /\ now' = now /\ cfg' = cfg
  BY AgentAssumption
     DEF FetchOk, FetchFail, InPoll, TypeOK, Agents, clock, shared
<1>2. /\ ghost'.begun = ghost.begun
      /\ ghost'.basis = ghost.basis /\ ghost'.pubStart = ghost.pubStart
      /\ ghost'.success = ghost.success \/ ghost'.success = local[a].start
  BY DEF FetchOk, FetchFail, TypeOK, Ghost
<1>3. /\ local'[a].start = local[a].start /\ local'[a].cfg = local[a].cfg
      /\ local'[a].at = local[a].at /\ local'[a].shares = local[a].shares
  <2>1. local'[a] = [local[a] EXCEPT !.connected = connected]
    BY DEF FetchOk, FetchFail, TypeOK
  <2> QED
    BY <2>1 DEF TypeOK, Locals
<1>4. \/ /\ poller'.lastError = TRUE /\ poller'.url = poller.url
         /\ poller'.hasData = poller.hasData
         /\ poller'.sensors = poller.sensors
      \/ /\ poller'.url = poller.url
         /\ poller'.lastSuccess = local[a].at
         /\ poller'.sensors \in Device[poller.url]
         /\ poller'.sensors # None /\ poller'.hasData
  <2>1. CASE FetchFail(a)
    BY <2>1 DEF FetchFail, TypeOK, PollerFields
  <2>2. CASE FetchOk(a)
    <3>1. PICK r \in Device[poller.url] :
            poller' = [poller EXCEPT !.lastError = FALSE, !.hasData = TRUE,
                         !.sensors = r, !.lastSuccess = local[a].at]
      BY <2>2 DEF FetchOk
    <3>2. poller.url \in URLs
      BY DEF TypeOK, PollerFields
    <3>3. r # None
      BY <3>2, DeviceAssumption
    <3> QED
      BY <3>1, <3>3 DEF TypeOK, PollerFields
  <2> QED
    BY <2>1, <2>2
<1>5. ghost.begun = local[a].start /\ poller.url = local[a].cfg.url
  BY <1>1 DEF PollOrder
<1> QED
  BY <1>1, <1>2, <1>3, <1>4, <1>5 DEF PollOrder

LEMMA PollOrderPublish ==
  ASSUME TypeOK, PollOrder, NEW a \in Agents, Publish(a)
  PROVE  PollOrder'
<1> USE Numbers
<1>1. mu = a /\ mu # None /\ mu' = None /\ now' = now /\ poller' = poller
  BY AgentAssumption DEF Publish, InPoll, TypeOK, Agents, clock
<1>2. /\ ghost'.begun = ghost.begun /\ ghost'.success = ghost.success
      /\ ghost'.basis = ghost.success /\ ghost'.pubStart = local[a].start
  BY DEF Publish, TypeOK, Ghost
<1>3. ghost.begun = local[a].start
  BY <1>1 DEF PollOrder
<1> QED
  BY <1>1, <1>2, <1>3 DEF PollOrder

LEMMA PollOrderNext == TypeOK /\ PollOrder /\ [Next]_vars => PollOrder'
  BY PollOrderOther, PollOrderSave, PollOrderStore, PollOrderBegin,
     PollOrderFetch, PollOrderPublish
     DEF Next, Environment, Outside, PutInPlace, PollStep

THEOREM PollOrderInvariant == Spec => []PollOrder
  BY PollOrderInit, PollOrderNext, TypeCorrect, PTL DEF Spec

-----------------------------------------------------------------------------
(* However the loop and any number of refreshes meet, a verdict is never   *)
(* overwritten by that of an earlier poll, nor one resting on older data.  *)
THEOREM Ordered == Spec => PublishInOrder
<1> DEFINE InOrder == /\ ghost'.pubStart >= ghost.pubStart
                      /\ ghost'.basis >= ghost.basis
<1>1. TypeOK /\ PollOrder /\ [Next]_vars => [InOrder]_vars
  <2> USE Numbers
  <2> SUFFICES ASSUME TypeOK, PollOrder, Next PROVE InOrder
    BY DEF vars
  <2>1. ASSUME NEW a \in Agents, Publish(a) PROVE InOrder
    <3>1. mu = a /\ mu # None
      BY <2>1, AgentAssumption DEF Publish, InPoll, TypeOK, Agents
    <3>2. ghost'.basis = ghost.success /\ ghost'.pubStart = local[a].start
      BY <2>1 DEF Publish, TypeOK, Ghost
    <3> QED
      BY <3>1, <3>2 DEF PollOrder
  <2>2. ASSUME NEW a \in Agents, PollBegin(a) \/ FetchOk(a) \/ FetchFail(a)
        PROVE  InOrder
    <3>1. ghost'.basis = ghost.basis /\ ghost'.pubStart = ghost.pubStart
      BY <2>2 DEF PollBegin, FetchOk, FetchFail, TypeOK, Ghost
    <3> QED
      BY <3>1
  <2>3. ASSUME NEW c \in Configs, SaveConfig(c) PROVE InOrder
    BY <2>3 DEF SaveConfig, TypeOK, Ghost
  <2>6. ASSUME NEW t \in Thresholds, NEW n \in StoredThresholds,
               StoreThreshold(t, n)
        PROVE  InOrder
    BY <2>6, StoreEffect DEF TypeOK, Ghost
  <2>4. CASE UNCHANGED ghost
    BY <2>4
  <2>5. \/ UNCHANGED ghost
        \/ \E c \in Configs : SaveConfig(c)
        \/ PutInPlace
        \/ \E a \in Agents : \/ PollBegin(a) \/ FetchOk(a) \/ FetchFail(a)
                             \/ Publish(a)
    BY DEF Next, Environment, Outside, PollStep, Tick, ClockStep,
           SetConnected, Cancel, LoopTick, LoopStop, CallPollNow
  <2> QED
    BY <2>1, <2>2, <2>3, <2>4, <2>5, <2>6 DEF PutInPlace
<1> QED
  BY <1>1, PollOrderInvariant, TypeCorrect, PTL DEF Spec, PublishInOrder

-----------------------------------------------------------------------------
(* Only Publish changes the verdict and what the history says of it.       *)
LEMMA VerdictKept ==
  ASSUME TypeOK, [Next]_vars, \A a \in Agents : ~Publish(a)
  PROVE  ev' = ev /\ ghost'.pubCfg = ghost.pubCfg
<1>1. ev' = ev
  BY DEF Next, Environment, Outside, PutInPlace, PollStep, Tick, ClockStep,
         SetConnected, SaveConfig, StoreThreshold, Cancel, LoopTick,
         LoopStop, CallPollNow, PollBegin, FetchOk, FetchFail, vars
<1>2. \/ UNCHANGED ghost
      \/ \E c \in Configs : SaveConfig(c)
      \/ PutInPlace
      \/ \E a \in Agents : PollBegin(a) \/ FetchOk(a) \/ FetchFail(a)
  BY DEF Next, Environment, Outside, PollStep, Tick, ClockStep,
         SetConnected, Cancel, LoopTick, LoopStop, CallPollNow, vars
<1>3. PutInPlace => ghost'.pubCfg = ghost.pubCfg
  BY StoreEffect DEF PutInPlace, TypeOK, Ghost
<1>4. ghost'.pubCfg = ghost.pubCfg
  BY <1>2, <1>3 DEF SaveConfig, PollBegin, FetchOk, FetchFail, TypeOK, Ghost
<1> QED
  BY <1>1, <1>4

(* A verdict without an error text is that of its own poll: the reading is *)
(* one of the device whose URL the configuration judged by names.          *)
THEOREM CleanVerdict == Spec => []CleanVerdictIsCurrent
<1>1. Init => CleanVerdictIsCurrent
  BY DEF Init, CleanVerdictIsCurrent, InitialState
<1>2. /\ TypeOK /\ PollOrder /\ CleanVerdictIsCurrent /\ [Next]_vars
      => CleanVerdictIsCurrent'
  <2> SUFFICES ASSUME TypeOK, PollOrder, CleanVerdictIsCurrent, [Next]_vars
               PROVE  CleanVerdictIsCurrent'
    OBVIOUS
  <2>1. ASSUME NEW a \in Agents, Publish(a) PROVE CleanVerdictIsCurrent'
    <3>1. mu = a /\ mu # None /\ pc[a] = "publish"
      BY <2>1, AgentAssumption DEF Publish, InPoll, TypeOK, Agents
    <3>2. /\ ev'.lastPoll = local[a].at
          /\ ev'.lastSuccess = poller.lastSuccess
          /\ ev'.lastError = poller.lastError
          /\ ev'.raw = poller.sensors
      BY <2>1 DEF Publish, Evaluate, PollInput
    <3>3. ghost'.pubCfg = local[a].cfg
      BY <2>1 DEF Publish, TypeOK, Ghost
    <3> QED
      BY <3>1, <3>2, <3>3 DEF PollOrder, CleanVerdictIsCurrent
  <2>2. CASE \A a \in Agents : ~Publish(a)
    BY <2>2, VerdictKept DEF CleanVerdictIsCurrent
  <2> QED
    BY <2>1, <2>2
<1> QED
  BY <1>1, <1>2, PollOrderInvariant, TypeCorrect, PTL DEF Spec

(* Before a first reading no verdict is safe, whatever is reconnected,     *)
(* saved or forced, unless the configuration failed open.                  *)
THEOREM Justified == Spec => []SafeIsJustified
<1>1. Init => SafeIsJustified
  BY DEF Init, SafeIsJustified, InitialState
<1>2. /\ TypeOK /\ PollOrder /\ SafeIsJustified /\ [Next]_vars
      => SafeIsJustified'
  <2> SUFFICES ASSUME TypeOK, PollOrder, SafeIsJustified, [Next]_vars
               PROVE  SafeIsJustified'
    OBVIOUS
  <2>1. ASSUME NEW a \in Agents, Publish(a) PROVE SafeIsJustified'
    <3> DEFINE in == PollInput(a)
               c == local[a].cfg
    <3>1. SUFFICES ASSUME ev'.isSafe, ev'.raw = None, c.failClosed
                   PROVE  FALSE
      <4>1. ghost'.pubCfg = c
        BY <2>1 DEF Publish, TypeOK, Ghost
      <4> QED
        BY <4>1 DEF SafeIsJustified
    <3>2. ev' = Evaluate(c, in, wall)
      BY <2>1 DEF Publish
    <3>3. \A why \in Reasons : ~Gives(c, in, wall, why)
      BY <3>1, <3>2 DEF Evaluate, ReasonsFor
    <3>4. in.sensors = None /\ ~in.hasData
      BY <3>1, <3>2 DEF Evaluate, PollInput, PollOrder
    <3>5. c.override \in Overrides
      BY ConfigFacts DEF TypeOK, Locals, Config
    <3>6. Stage(c, in) \in {"disconnected", "force_unsafe", "force_safe",
                            "no data"}
      BY <3>4, <3>5 DEF Stage, Overrides
    <3>7. \E why \in Reasons : Gives(c, in, wall, why)
      <4>1. \/ Gives(c, in, wall, "not connected")
            \/ Gives(c, in, wall, "force_unsafe")
            \/ Gives(c, in, wall, "no data")
        BY <3>1, <3>4, <3>6 DEF Gives
      <4> QED
        BY <4>1 DEF Reasons
    <3> QED
      BY <3>3, <3>7
  <2>2. CASE \A a \in Agents : ~Publish(a)
    BY <2>2, VerdictKept DEF SafeIsJustified
  <2> QED
    BY <2>1, <2>2
<1> QED
  BY <1>1, <1>2, PollOrderInvariant, TypeCorrect, PTL DEF Spec
=============================================================================
