--------------------------- MODULE PromiseProofs ---------------------------
(***************************************************************************)
(* Poller implements SafetyPromise: every step of its goroutines is a step *)
(* of the one abstract poll, or none of its business.                      *)
(***************************************************************************)
EXTENDS PollOrderProofs

(* The abstract variables, as the mapping of Poller defines them.          *)
PromisePoll == IF mu = None
               THEN [cfg |-> None, at |-> None, connected |-> FALSE,
                     stage |-> "idle"]
               ELSE [cfg |-> local[mu].cfg, at |-> local[mu].at,
                     connected |-> local[mu].connected, stage |-> pc[mu]]
PromiseEvidence == [reading |-> poller.sensors, at |-> poller.lastSuccess,
                    failed |-> poller.lastError]

LEMMA PromiseInit == Init => Promise!Init
  BY ConfigAssumption
  DEF Init, Promise!Init, Promise!NoEvidence, Promise!NoPoll

(* Nothing the others do touches the poll under way or what is known.      *)
LEMMA OthersKeepPoll ==
  ASSUME TypeOK,
         \/ Environment
         \/ LoopTick
         \/ LoopStop
         \/ \E c \in Clients : CallPollNow(c)
  PROVE  UNCHANGED <<ev, PromisePoll, PromiseEvidence>>
<1>1. UNCHANGED <<ev, mu, poller>>
  BY DEF Environment, Outside, Tick, ClockStep, SetConnected, SaveConfig,
         Cancel, LoopTick, LoopStop, CallPollNow
<1>3. mu # None => /\ local'[mu].cfg = local[mu].cfg
                   /\ local'[mu].at = local[mu].at
                   /\ local'[mu].connected = local[mu].connected
  <2>1. \/ UNCHANGED local
        \/ \E c \in Configs : SaveConfig(c)
    BY DEF Environment, Outside, Tick, ClockStep, SetConnected, Cancel,
           LoopTick, LoopStop, CallPollNow
  <2>2. mu # None => mu \in Agents
    BY DEF TypeOK, Optional
  <2> QED
    BY <2>1, <2>2, SaveEffect
<1>2. mu # None => pc'[mu] = pc[mu]
  <2>1. SUFFICES ASSUME mu # None PROVE pc'[mu] = pc[mu]
    OBVIOUS
  <2>2. mu \in Agents /\ pc[mu] \in {"fetch", "publish"}
    BY <2>1 DEF InPoll, TypeOK, Optional
  <2>3. \/ UNCHANGED pc
        \/ pc[Loop] = "select" /\ \E x : pc' = [pc EXCEPT ![Loop] = x]
        \/ \E c \in Clients :
             pc[c] = "idle" /\ \E x : pc' = [pc EXCEPT ![c] = x]
    BY DEF Environment, Outside, Tick, ClockStep, SetConnected, SaveConfig,
           Cancel, LoopTick, LoopStop, CallPollNow
  <2> QED
    BY <2>2, <2>3 DEF TypeOK
<1> QED
  BY <1>1, <1>2, <1>3 DEF PromisePoll, PromiseEvidence

LEMMA OthersAreOthers ==
  ASSUME TypeOK,
         \/ Environment
         \/ LoopTick
         \/ LoopStop
         \/ \E c \in Clients : CallPollNow(c)
  PROVE  Promise!Others
<1> USE Numbers
<1>1. UNCHANGED <<ev, PromisePoll, PromiseEvidence>>
  BY OthersKeepPoll
<1>2. \/ wall' \in Int /\ UNCHANGED <<cfg, connected>>
      \/ cfg' \in Configs /\ UNCHANGED <<wall, connected>>
      \/ connected' \in BOOLEAN /\ UNCHANGED <<wall, cfg>>
  <2>1. CASE Tick \/ \E d \in ClockSteps : ClockStep(d)
    BY <2>1, TimeAssumption DEF Tick, ClockStep, TypeOK, shared
  <2>2. CASE \E v \in BOOLEAN : SetConnected(v)
    BY <2>2 DEF SetConnected, clock
  <2>3. CASE \E c \in Configs : SaveConfig(c)
    BY <2>3 DEF SaveConfig, clock
  <2>4. CASE \/ Cancel \/ LoopTick \/ LoopStop
             \/ \E c \in Clients : CallPollNow(c)
    BY <2>4 DEF Cancel, LoopTick, LoopStop, CallPollNow, clock, shared, TypeOK
  <2> QED
    BY <2>1, <2>2, <2>3, <2>4 DEF Environment, Outside
<1> QED
  BY <1>1, <1>2 DEF Promise!Others, PromisePoll, PromiseEvidence

LEMMA StoreIsOverwrite ==
  ASSUME TypeOK, NEW t \in Thresholds, NEW n \in StoredThresholds,
         StoreThreshold(t, n)
  PROVE  Promise!Overwrite
<1>1. UNCHANGED <<wall, connected, ev, mu, poller, pc>>
  BY StoreEffect
<1>2. cfg' \in Promise!Overwritten(cfg)
  BY StoreEffect DEF Promise!Overwritten
<1>3. UNCHANGED PromiseEvidence
  BY <1>1 DEF PromiseEvidence
<1>4. \/ PromisePoll' = PromisePoll
      \/ /\ PromisePoll.stage # "idle"
         /\ \E d \in Promise!Overwritten(PromisePoll.cfg) :
              PromisePoll' = [PromisePoll EXCEPT !.cfg = d]
  <2>1. CASE mu = None
    BY <1>1, <2>1 DEF PromisePoll
  <2>2. CASE mu # None
    <3>1. mu \in Agents /\ pc[mu] # "idle"
      BY <2>2 DEF TypeOK, Optional, InPoll
    <3>2. /\ PromisePoll.stage # "idle"
          /\ PromisePoll.cfg = local[mu].cfg
      BY <2>2, <3>1 DEF PromisePoll
    <3>3. PromisePoll' = [PromisePoll EXCEPT !.cfg = local'[mu].cfg]
      BY <1>1, <2>2, <3>1, StoreEffect DEF PromisePoll
    <3>4. local'[mu].cfg \in Promise!Overwritten(PromisePoll.cfg)
      BY <3>1, <3>2, StoreEffect DEF Promise!Overwritten, Locals
    <3> QED
      BY <3>2, <3>3, <3>4
  <2> QED
    BY <2>1, <2>2
<1> QED
  BY <1>1, <1>2, <1>3, <1>4
     DEF Promise!Overwrite, PromisePoll, PromiseEvidence

LEMMA BeginIsBegin ==
  ASSUME TypeOK, NEW a \in Agents, PollBegin(a)
  PROVE  Promise!Begin
<1>1. /\ mu = None /\ mu' = a /\ a # None
      /\ UNCHANGED <<wall, cfg, connected, ev>>
  BY AgentAssumption DEF PollBegin, Agents, clock, shared
<1>2. /\ local'[a] = [cfg |-> cfg, shares |-> Pointed(cfg), at |-> wall,
                      start |-> now, connected |-> FALSE]
      /\ pc'[a] = "fetch"
  BY DEF PollBegin, TypeOK
<1>3. PromisePoll.stage = "idle"
  BY <1>1 DEF PromisePoll
<1>4. PromisePoll' = [cfg |-> cfg, at |-> wall, connected |-> FALSE,
                      stage |-> "fetch"]
  BY <1>1, <1>2 DEF PromisePoll
<1>5. UNCHANGED PromiseEvidence
  BY DEF PollBegin, TypeOK, PollerFields, PromiseEvidence
<1> QED
  BY <1>1, <1>3, <1>4, <1>5
     DEF Promise!Begin, PromisePoll, PromiseEvidence

LEMMA FetchIsLearn ==
  ASSUME TypeOK, PollOrder, NEW a \in Agents, FetchOk(a) \/ FetchFail(a)
  PROVE  Promise!Learn
<1>1. /\ mu = a /\ mu' = a /\ a # None /\ pc[a] = "fetch"
      /\ UNCHANGED <<wall, cfg, connected, ev>>
  BY AgentAssumption
     DEF FetchOk, FetchFail, InPoll, TypeOK, Agents, clock, shared
<1>2. /\ pc'[a] = "publish"
      /\ local'[a] = [local[a] EXCEPT !.connected = connected]
  BY DEF FetchOk, FetchFail, TypeOK
<1>3. local[a] \in Locals
  BY DEF TypeOK
<1>4. PromisePoll = [cfg |-> local[a].cfg, at |-> local[a].at,
                     connected |-> local[a].connected, stage |-> "fetch"]
  BY <1>1 DEF PromisePoll
<1>5. PromisePoll' = [cfg |-> local[a].cfg, at |-> local[a].at,
                      connected |-> connected, stage |-> "publish"]
  BY <1>1, <1>2, <1>3 DEF PromisePoll, Locals
<1>6. \/ \E r \in Device[local[a].cfg.url] :
           PromiseEvidence' = [reading |-> r, at |-> local[a].at,
                               failed |-> FALSE]
      \/ PromiseEvidence' = [reading |-> poller.sensors,
                              at |-> poller.lastSuccess, failed |-> TRUE]
  <2>1. CASE FetchOk(a)
    <3>1. poller.url = local[a].cfg.url
      BY <1>1 DEF PollOrder
    <3>2. PICK r \in Device[poller.url] :
            poller' = [poller EXCEPT !.lastError = FALSE, !.hasData = TRUE,
                         !.sensors = r, !.lastSuccess = local[a].at]
      BY <2>1 DEF FetchOk
    <3>3. PromiseEvidence' = [reading |-> r, at |-> local[a].at,
                              failed |-> FALSE]
      BY <3>2 DEF TypeOK, PollerFields, PromiseEvidence
    <3> QED
      BY <3>1, <3>3
  <2>2. CASE FetchFail(a)
    BY <2>2 DEF FetchFail, TypeOK, PollerFields, PromiseEvidence
  <2> QED
    BY <2>1, <2>2
<1>7. /\ PromisePoll.stage = "fetch" /\ PromisePoll.at = local[a].at
      /\ PromisePoll.cfg = local[a].cfg
      /\ PromiseEvidence.reading = poller.sensors
      /\ PromiseEvidence.at = poller.lastSuccess
  BY <1>4 DEF PromiseEvidence
<1> QED
  BY <1>1, <1>5, <1>6, <1>7
     DEF Promise!Learn, PromisePoll, PromiseEvidence

LEMMA PublishIsConclude ==
  ASSUME TypeOK, PollOrder, NEW a \in Agents, Publish(a)
  PROVE  Promise!Conclude
<1>1. /\ mu = a /\ mu' = None /\ a # None /\ pc[a] = "publish"
      /\ UNCHANGED <<wall, cfg, connected, poller>>
      /\ ev' = Evaluate(local[a].cfg, PollInput(a), wall)
  BY AgentAssumption DEF Publish, InPoll, TypeOK, Agents, clock, shared
<1>2. PromisePoll = [cfg |-> local[a].cfg, at |-> local[a].at,
                     connected |-> local[a].connected, stage |-> "publish"]
  BY <1>1 DEF PromisePoll
<1>3. PromisePoll' = Promise!NoPoll
  BY <1>1 DEF PromisePoll, Promise!NoPoll
<1>4. PollInput(a) = Promise!Known
  <2>1. poller.hasData = (poller.sensors # None)
    BY DEF PollOrder, TypeOK, PollerFields
  <2> QED
    BY <1>1, <2>1 DEF PollInput, Promise!Known
<1> QED
  BY <1>1, <1>2, <1>3, <1>4
     DEF Promise!Conclude, PromisePoll, PromiseEvidence

LEMMA PromiseNext ==
  TypeOK /\ PollOrder /\ [Next]_vars => [Promise!Next]_(Promise!vars)
<1> SUFFICES ASSUME TypeOK, PollOrder, [Next]_vars
             PROVE  [Promise!Next]_(Promise!vars)
  OBVIOUS
<1>1. CASE Environment \/ LoopTick \/ LoopStop
           \/ \E c \in Clients : CallPollNow(c)
  BY <1>1, OthersAreOthers DEF Promise!Next
<1>2. ASSUME NEW a \in Agents, PollStep(a) PROVE Promise!Next
  BY <1>2, BeginIsBegin, FetchIsLearn, PublishIsConclude
     DEF PollStep, Promise!Next
<1>3. CASE UNCHANGED vars
  BY <1>3 DEF vars, clock, shared, Promise!vars
<1>4. CASE PutInPlace
  BY <1>4, StoreIsOverwrite DEF PutInPlace, Promise!Next
<1> QED
  BY <1>1, <1>2, <1>3, <1>4 DEF Next

(* Readers of the verdict cannot tell the loop and any number of           *)
(* concurrent refreshes, over any changes of clock, configuration and      *)
(* connection, from one poller that takes one poll at a time and judges by *)
(* the configuration the poll began with, in all but the numbers that a    *)
(* PUT stores in its thresholds: those it judges by as they have become.   *)
THEOREM Refinement == Spec => KeepsPromise
  BY PromiseInit, PromiseNext, TypeCorrect, PollOrderInvariant, PTL
     DEF Spec, KeepsPromise, Promise!Spec
=============================================================================
