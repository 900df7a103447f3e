--------------------------- MODULE MonitorProofs ---------------------------
(***************************************************************************)
(* Proofs about SafetyMonitor, for every number of clients, every set of   *)
(* requests and every device: the poller under the handlers is Poller's, a *)
(* refresh answers with a poll of its own and with the settings it was     *)
(* judged by, a sensor value answered without an error is one the device   *)
(* has sent, and so is the reading behind an answer "safe".                *)
(***************************************************************************)
EXTENDS SafetyMonitor, PromiseProofs, AnswerProofs

-----------------------------------------------------------------------------
(* Why the properties hold: together these are inductive                   *)

(* Where a handler may be in its script.                                   *)
RefreshRest == {<<"config", "poll", "state", "connected">>,
                <<"poll", "state", "connected">>,
                <<"state", "connected">>, <<"connected">>, <<>>}

OtherRest == {<<"config", "state", "connected">>,
              <<"state", "config", "connected">>, <<"config", "connected">>,
              <<"connected", "state">>, <<"state", "connected">>,
              <<"connected">>, <<"state">>, <<>>}

InScript ==
  \A c \in Clients :
    \/ req[c].op = "refresh" /\ req[c].todo \in RefreshRest
    \/ req[c].op = "ocrefresh" /\ req[c].todo \in {<<"poll">>, <<>>}
    \/ /\ req[c].op \notin {"refresh", "ocrefresh"}
       /\ req[c].todo \in OtherRest

(* Once its own poll has begun, each poll that begins does so after the    *)
(* request came in; once it is over, so did the last one published.        *)
RefreshOrder ==
  \A c \in Clients : req[c].op = "refresh" =>
    /\ pc[c] # "idle" => req[c].todo = <<"state", "connected">>
    /\ InPoll(c) => c \in order.begun[c]
    /\ pc[c] = "idle" /\ req[c].todo = <<"state", "connected">> =>
         /\ c \in order.published
         /\ \A a \in Agents : InPoll(a) => c \in order.begun[a]
    /\ req[c].todo \in {<<"connected">>, <<>>} => req[c].own

(* Of a client without a request the history knows nothing.                *)
OnlyActive ==
  \A c \in Clients : ~Active(c) =>
    c \notin order.published /\ \A a \in Agents : c \notin order.begun[a]

(* While no save comes in after a request, every poll that begins after it *)
(* judges by the configuration the request finds, but for thresholds that  *)
(* are stored in place.                                                    *)
SteadyConfig ==
  \A c \in order.steady :
    /\ \A a \in Agents : InPoll(a) /\ c \in order.begun[a] =>
                           Plain(local[a].cfg) = Plain(cfg)
    /\ c \in order.published => Plain(ghost.pubCfg) = Plain(cfg)
    /\ req[c].op = "refresh" =>
         /\ req[c].todo # <<"config", "poll", "state", "connected">> =>
              Plain(req[c].cfg) = Plain(cfg)
         /\ req[c].todo \in {<<"connected">>, <<>>} =>
              Plain(req[c].judged) = Plain(cfg)

(* What holds of a verdict and the configuration it was judged by: the     *)
(* rows of the dashboard are its reasons, and no rule is broken behind     *)
(* one that is safe.                                                       *)
RowsFit(c, state) ==
  state.raw # None /\ ByTheRules(state) =>
    FailingRows(c, state) = ReasonsWithRow(state)

Backed(c, state) ==
  state.isSafe /\ "force_safe" \notin state.warnings =>
    \/ state.raw = None /\ ~c.failClosed
    \/ /\ state.raw # None
       /\ \A why \in Reasons : ~Breaks(c, state.raw, why)

Founded(c, state) == RowsFit(c, state) /\ Backed(c, state)

VerdictsAreFounded ==
  /\ Founded(ghost.pubCfg, ev)
  /\ \A c \in Clients : Founded(req[c].judged, req[c].ev)

(* A reading comes from a device, and Values from that reading.            *)
IsReal(state) ==
  state.raw # None =>
    /\ \E u \in URLs : state.raw \in Device[u]
    /\ ByTheRules(state) => state.values = ValuesOf(state.raw)

ReadingsAreReal ==
  /\ poller.sensors # None => \E u \in URLs : poller.sensors \in Device[u]
  /\ IsReal(ev)
  /\ \A c \in Clients : IsReal(req[c].ev)

-----------------------------------------------------------------------------
(* The poller under the handlers *)

LEMMA MonitorStepIsStep == [MonitorNext]_monitorVars => [Next]_vars
<1> SUFFICES ASSUME [MonitorNext]_monitorVars PROVE [Next]_vars
  OBVIOUS
<1>1. CASE PollerStep
  BY <1>1 DEF PollerStep, Next, PollStep
<1>2. ASSUME NEW c \in Clients, CallRefresh(c) PROVE Next
  BY <1>2 DEF CallRefresh, Next
<1>3. ASSUME NEW c \in Clients,
             \/ ReadConnected(c) \/ ReadState(c) \/ ReadConfig(c)
             \/ Return(c) \/ \E op \in Operations : Arrive(c, op)
      PROVE  UNCHANGED vars
  BY <1>3 DEF ReadConnected, ReadState, ReadConfig, Return, Arrive
<1>4. CASE UNCHANGED monitorVars
  BY <1>4 DEF monitorVars
<1>5. ASSUME NEW t \in Thresholds, NEW n \in StoredThresholds,
             StoreUnderPages(t, n)
      PROVE  Next
  BY <1>5 DEF StoreUnderPages, PutInPlace, Next
<1> QED
  BY <1>1, <1>2, <1>3, <1>4, <1>5 DEF MonitorNext, HandlerStep

(* Whatever requests come in, the poller behaves as Poller has it, so what *)
(* is proved of its verdicts holds of those the handlers read.             *)
THEOREM MonitorRunsPoller == MonitorSpec => Spec
<1>1. MonitorInit => Init
  BY DEF MonitorInit
<1> QED
  BY <1>1, MonitorStepIsStep, PTL DEF MonitorSpec, Spec

(* In particular, what clients read under all these requests is what       *)
(* SafetyPromise says: one poll at a time decides, in order, by its own    *)
(* configuration in all but the thresholds stored in place meanwhile.      *)
THEOREM BridgeKeepsPromise == MonitorSpec => KeepsPromise /\ PublishInOrder
  BY MonitorRunsPoller, Refinement, Ordered

(* The schedule withstands them as well: however many requests come in     *)
(* between, verdicts keep coming, are fresh, and follow what was saved.    *)
THEOREM BridgeIsTimely ==
  MonitorSpec => [](PollsKeepComing /\ VerdictFresh /\ ConfigAdopted)
<1>1. MonitorSpec => []PollsKeepComing
  BY MonitorRunsPoller, Polling
<1>2. MonitorSpec => []VerdictFresh
  BY MonitorRunsPoller, Freshness
<1>3. MonitorSpec => []ConfigAdopted
  BY MonitorRunsPoller, Adoption
<1> QED
  BY <1>1, <1>2, <1>3, PTL

-----------------------------------------------------------------------------
(* Types *)

LEMMA ScriptOf ==
  ASSUME NEW op \in Endpoints
  PROVE  \/ op = "refresh"
            /\ Script(op) = <<"config", "poll", "state", "connected">>
         \/ op = "ocrefresh" /\ Script(op) = <<"poll">>
         \/ /\ op \notin {"refresh", "ocrefresh"}
            /\ \/ Script(op) = <<"connected", "state">>
               \/ Script(op) = <<"state">>
               \/ Script(op) = <<"state", "connected">>
               \/ Script(op) = <<"config", "state", "connected">>
               \/ Script(op) = <<"state", "config", "connected">>
<1> USE DEF Script, DeviceScript
<1>1. CASE op = "refresh"
  BY <1>1
<1>2. CASE op = "issafe"
  BY <1>2
<1>3. CASE op = "devicestate"
  BY <1>3
<1>4. CASE op = "status"
  BY <1>4
<1>5. CASE op \in Sensors
  <2>1. op \notin {"refresh", "issafe", "devicestate", "status", "ocrefresh"}
    BY <1>5 DEF Sensors, StatusField
  <2> QED
    BY <1>5, <2>1 DEF SensorScript
<1>6. CASE op \in {"timesince", "ocrefresh"}
  <2>1. op \notin DOMAIN SensorScript
    BY <1>6 DEF SensorScript, Sensors, StatusField
  <2> QED
    BY <1>6, <2>1 DEF ConditionsScript
<1>7. CASE op \in {"health", "statusjson"}
  <2>1. op \notin DOMAIN SensorScript
    BY <1>7 DEF SensorScript, Sensors, StatusField
  <2>2. CASE op = "health"
    BY <2>1, <2>2 DEF ConditionsScript, StatusScript
  <2>3. CASE op = "statusjson"
    BY <2>1, <2>3 DEF ConditionsScript, StatusScript
  <2> QED
    BY <1>7, <2>2, <2>3
<1>8. CASE op = "dashboard"
  <2>1. op \notin DOMAIN SensorScript
    BY <1>8 DEF SensorScript, Sensors, StatusField
  <2> QED
    BY <1>8, <2>1 DEF ConditionsScript, StatusScript, PageScript
<1> QED
  BY <1>1, <1>2, <1>3, <1>4, <1>5, <1>6, <1>7, <1>8
     DEF Endpoints, ConditionsScript, StatusScript, PageScript

LEMMA ScriptRest ==
  ASSUME NEW op \in Endpoints
  PROVE  /\ op = "refresh" => Script(op) \in RefreshRest
         /\ op = "ocrefresh" => Script(op) = <<"poll">>
         /\ op \notin {"refresh", "ocrefresh"} => Script(op) \in OtherRest
  BY ScriptOf DEF RefreshRest, OtherRest

(* Sequences of at most four steps.                                        *)
LEMMA ShortScripts ==
  ASSUME NEW a \in Steps, NEW b \in Steps, NEW x \in Steps, NEW y \in Steps
  PROVE  /\ <<>> \in Seq(Steps) /\ <<a>> \in Seq(Steps)
         /\ <<a, b>> \in Seq(Steps) /\ <<a, b, x>> \in Seq(Steps)
         /\ <<a, b, x, y>> \in Seq(Steps)
  OBVIOUS

LEMMA RestType ==
  RefreshRest \cup OtherRest \cup {<<"poll">>, <<>>} \subseteq Seq(Steps)
<1>1. /\ "connected" \in Steps /\ "state" \in Steps /\ "config" \in Steps
      /\ "poll" \in Steps
  BY DEF Steps
<1>2. RefreshRest \subseteq Seq(Steps)
  BY <1>1, ShortScripts DEF RefreshRest
<1>3. OtherRest \subseteq Seq(Steps)
  BY <1>1, ShortScripts DEF OtherRest
<1> QED
  BY <1>1, <1>2, <1>3, ShortScripts

LEMMA TailsOfRests ==
  /\ \A s \in RefreshRest : s # <<>> => Tail(s) \in RefreshRest
  /\ \A s \in OtherRest : s # <<>> => /\ Tail(s) \in OtherRest
                                       /\ Head(s) # "poll"
  /\ Tail(<<"poll">>) = <<>>
  BY DEF RefreshRest, OtherRest

(* What each step of a handler does to the request, field by field.        *)
LEMMA RequestKept ==
  ASSUME MonitorTypeOK, NEW c \in Clients,
         \/ ReadConnected(c) \/ ReadState(c) \/ ReadConfig(c)
         \/ CallRefresh(c)
  PROVE  /\ req' \in [Clients -> [op : Optional(Endpoints), todo : Seq(Steps),
                                 cfg : Configs, ev : EvaluatedState,
                                 connected : BOOLEAN, own : BOOLEAN,
                                 judged : Configs]]
         /\ req'[c].op = req[c].op
         /\ req[c].todo # <<>> /\ pc[c] = "idle" /\ order' = order
         /\ \/ req'[c].todo = Tail(req[c].todo)
            \/ req'[c].todo = <<>> /\ req[c].op \in Sensors \cup {"issafe"}
         /\ \A d \in Clients : d # c => req'[d] = req[d]
<1>1. /\ req \in [Clients -> Request] /\ req[c] \in Request
      /\ ev \in EvaluatedState /\ cfg \in Configs /\ connected \in BOOLEAN
      /\ ghost.pubCfg \in Configs
  BY DEF MonitorTypeOK, TypeOK, Ghost
<1>2. <<>> \in Seq(Steps)
  OBVIOUS
<1>3. req[c].todo # <<>> => Tail(req[c].todo) \in Seq(Steps)
  BY <1>1 DEF Request
<1>4. CASE ReadConnected(c)
  <2>1. /\ req' = [req EXCEPT ![c] = [req[c] EXCEPT
                     !.connected = connected, !.todo = req'[c].todo]]
        /\ \/ req'[c].todo = Tail(req[c].todo)
           \/ req'[c].todo = <<>> /\ req[c].op \in Sensors \cup {"issafe"}
    BY <1>1, <1>4 DEF ReadConnected, Request
  <2> QED
    BY <1>1, <1>2, <1>3, <1>4, <2>1 DEF ReadConnected, AtStep, Request
<1>5. CASE ReadState(c)
  BY <1>1, <1>3, <1>5 DEF ReadState, AtStep, Request
<1>6. CASE ReadConfig(c)
  BY <1>1, <1>3, <1>6 DEF ReadConfig, AtStep, Request
<1>7. CASE CallRefresh(c)
  BY <1>1, <1>3, <1>7 DEF CallRefresh, AtStep, Request
<1> QED
  BY <1>4, <1>5, <1>6, <1>7

LEMMA ArriveKept ==
  ASSUME MonitorTypeOK, NEW c \in Clients, NEW op \in Operations,
         Arrive(c, op)
  PROVE  /\ req' \in [Clients -> Request]
         /\ req'[c].op = op /\ req'[c].todo = Script(op)
         /\ req'[c].ev = InitialState /\ op \in Endpoints
         /\ \A d \in Clients : d # c => req'[d] = req[d]
         /\ order' = [order EXCEPT !.steady = @ \cup {c}]
         /\ order' \in [begun : [Agents -> SUBSET Clients],
                       published : SUBSET Clients, steady : SUBSET Clients]
<1>1. op \in Endpoints /\ Script(op) \in Seq(Steps)
  BY OperationAssumption, ScriptRest, RestType
<1>2. InitialState \in EvaluatedState /\ InitConfig \in Configs
  BY InitialStateType, ConfigAssumption
<1> DEFINE new == [NoRequest EXCEPT !.op = op, !.todo = Script(op)]
<1>3. /\ new \in Request /\ new.op = op /\ new.todo = Script(op)
      /\ new.ev = InitialState
  BY <1>1, <1>2 DEF NoRequest, Request, Optional
<1>4. req \in [Clients -> Request] /\ req' = [req EXCEPT ![c] = new]
  BY DEF Arrive, MonitorTypeOK
<1>5. order' = [order EXCEPT !.steady = @ \cup {c}]
  BY DEF Arrive
<1>6. order \in [begun : [Agents -> SUBSET Clients],
                published : SUBSET Clients, steady : SUBSET Clients]
  BY DEF MonitorTypeOK
<1> HIDE DEF new
<1>7. /\ req' \in [Clients -> Request] /\ req'[c] = new
      /\ \A d \in Clients : d # c => req'[d] = req[d]
  BY <1>3, <1>4
<1> QED
  BY <1>1, <1>3, <1>5, <1>6, <1>7

LEMMA ReturnKept ==
  ASSUME MonitorTypeOK, NEW c \in Clients, Return(c)
  PROVE  /\ req' \in [Clients -> Request]
         /\ req'[c] = NoRequest
         /\ \A d \in Clients : d # c => req'[d] = req[d]
         /\ \A a \in Agents : order'.begun[a] = order.begun[a] \ {c}
         /\ order'.published = order.published \ {c}
         /\ order'.steady = order.steady \ {c}
         /\ order' \in [begun : [Agents -> SUBSET Clients],
                       published : SUBSET Clients, steady : SUBSET Clients]
         /\ pc[c] = "idle"
<1>1. <<>> \in Seq(Steps)
  OBVIOUS
<1>2. NoRequest \in Request
  BY <1>1, InitialStateType, ConfigAssumption
     DEF NoRequest, Request, Optional
<1> QED
  BY <1>2 DEF Return, Answered, MonitorTypeOK

(* What polls leave of the requests and of who is inside PollNow.          *)
LEMMA PollerStepKept ==
  ASSUME MonitorTypeOK, PollerStep
  PROVE  /\ req' = req
         /\ order' \in [begun : [Agents -> SUBSET Clients],
                       published : SUBSET Clients, steady : SUBSET Clients]
         /\ \A c \in Clients : pc[c] = "idle" => pc'[c] = "idle"
<1>1. order \in [begun : [Agents -> SUBSET Clients],
                published : SUBSET Clients, steady : SUBSET Clients]
  BY DEF MonitorTypeOK
<1>2. order' \in [begun : [Agents -> SUBSET Clients],
                 published : SUBSET Clients, steady : SUBSET Clients]
  BY <1>1 DEF PollerStep
<1>3. \A c \in Clients : pc[c] = "idle" => pc'[c] = "idle"
  <2> SUFFICES ASSUME NEW c \in Clients, pc[c] = "idle"
               PROVE  pc'[c] = "idle"
    OBVIOUS
  <2>1. c # Loop /\ pc \in [Agents -> ClientPC \cup LoopPC] /\ c \in Agents
    BY AgentAssumption DEF MonitorTypeOK, TypeOK, Agents
  <2>2. \/ UNCHANGED pc
        \/ \E x : pc' = [pc EXCEPT ![Loop] = x]
        \/ \E a \in Agents : /\ pc[a] # "idle"
                            /\ \E x : pc' = [pc EXCEPT ![a] = x]
    BY DEF PollerStep, Environment, Outside, Tick, ClockStep, SetConnected,
           SaveConfig, Cancel, LoopTick, LoopStop, PollBegin, FetchOk,
           FetchFail, Publish
  <2> QED
    BY <2>1, <2>2
<1> QED
  BY <1>2, <1>3 DEF PollerStep

(* A threshold stored in place can be seen by a page of the dashboard, and *)
(* in nothing but numbers.                                                 *)
LEMMA StoreKept ==
  ASSUME MonitorTypeOK, NEW t \in Thresholds, NEW n \in StoredThresholds,
         StoreUnderPages(t, n)
  PROVE  /\ UNCHANGED <<pc, mu, ev, poller, order>>
         /\ ghost'.pubCfg = ghost.pubCfg
         /\ Plain(cfg') = Plain(cfg)
         /\ \A a \in Agents : Plain(local'[a].cfg) = Plain(local[a].cfg)
         /\ req' \in [Clients -> Request]
         /\ \A d \in Clients :
              /\ req'[d].op = req[d].op /\ req'[d].todo = req[d].todo
              /\ req'[d].ev = req[d].ev /\ req'[d].own = req[d].own
              /\ req'[d].judged = req[d].judged
              /\ req[d].op # "dashboard" => req'[d] = req[d]
<1>1. TypeOK /\ StoreThreshold(t, n)
  BY DEF MonitorTypeOK, StoreUnderPages
<1>2. /\ UNCHANGED <<pc, mu, ev, poller, order>>
      /\ Plain(cfg') = Plain(cfg)
      /\ \A a \in Agents : Plain(local'[a].cfg) = Plain(local[a].cfg)
  BY <1>1, StoreEffect DEF Alike, StoreUnderPages
<1>3. ghost'.pubCfg = ghost.pubCfg
  BY <1>1, StoreEffect DEF TypeOK, Ghost
<1>4. PICK pages \in SUBSET {c \in Clients :
                               HasPage(c) /\ req[c].cfg[t] # None} :
        req' = [c \in Clients |-> IF c \in pages
                  THEN [req[c] EXCEPT !.cfg = Stored(req[c].cfg, t, n)]
                  ELSE req[c]]
  BY DEF StoreUnderPages, Stored
<1>5. ASSUME NEW d \in Clients, d \in pages
      PROVE  /\ Stored(req[d].cfg, t, n) \in Configs
             /\ req[d].op = "dashboard"
  <2>1. req[d].cfg \in Configs /\ t \in Pointed(req[d].cfg)
    BY <1>5 DEF MonitorTypeOK, Request, Pointed
  <2> QED
    BY <1>5, <2>1, StoredConfig DEF HasPage
<1>6. \A d \in Clients : req[d] \in Request
  BY DEF MonitorTypeOK
<1>7. ASSUME NEW d \in Clients
      PROVE  /\ req'[d] \in Request
             /\ req'[d].op = req[d].op /\ req'[d].todo = req[d].todo
             /\ req'[d].ev = req[d].ev /\ req'[d].own = req[d].own
             /\ req'[d].judged = req[d].judged
             /\ req[d].op # "dashboard" => req'[d] = req[d]
  BY <1>4, <1>5, <1>6 DEF Request
<1>8. req' \in [Clients -> Request]
  BY <1>4, <1>7
<1> QED
  BY <1>2, <1>3, <1>7, <1>8

LEMMA MonitorTypeInit == MonitorInit => MonitorTypeOK /\ InScript
<1> SUFFICES ASSUME MonitorInit PROVE MonitorTypeOK /\ InScript
  OBVIOUS
<1>1. TypeOK
  BY TypeInit DEF MonitorInit
<1>2. <<>> \in Seq(Steps)
  OBVIOUS
<1>3. NoRequest \in Request
  BY <1>2, InitialStateType, ConfigAssumption DEF NoRequest, Request, Optional
<1>4. \A c \in Clients : pc[c] = "idle"
  BY AgentAssumption DEF MonitorInit, Init, Agents
<1>5. None \notin {"refresh", "ocrefresh"}
  BY OperationAssumption
     DEF Endpoints, DeviceScript, ConditionsScript
<1> QED
  BY <1>1, <1>3, <1>4, <1>5
     DEF MonitorInit, MonitorTypeOK, InScript, NoRequest, OtherRest

LEMMA MonitorTypeNext ==
  ASSUME MonitorTypeOK, InScript, [MonitorNext]_monitorVars
  PROVE  (MonitorTypeOK /\ InScript)'
<1>1. TypeOK'
  BY TypeNext, MonitorStepIsStep DEF MonitorTypeOK
<1>2. None \notin {"refresh", "ocrefresh"} \cup Sensors \cup {"issafe"}
  BY OperationAssumption
     DEF Endpoints, DeviceScript, ConditionsScript
<1>3. CASE PollerStep
  BY <1>1, <1>3, PollerStepKept DEF MonitorTypeOK, InScript
<1>4. ASSUME NEW c \in Clients, HandlerStep(c)
      PROVE  (MonitorTypeOK /\ InScript)'
  <2>1. /\ req' \in [Clients -> Request]
        /\ req'[c].op = req[c].op
        /\ req[c].todo # <<>> /\ pc[c] = "idle" /\ order' = order
        /\ \/ req'[c].todo = Tail(req[c].todo)
           \/ req'[c].todo = <<>> /\ req[c].op \in Sensors \cup {"issafe"}
        /\ \A d \in Clients : d # c => req'[d] = req[d]
    BY <1>4, RequestKept DEF HandlerStep, Request
  <2>2. "refresh" \notin Sensors /\ "ocrefresh" \notin Sensors
    BY DEF Sensors, StatusField
  <2>3. <<>> \in OtherRest /\ Tail(<<"poll">>) = <<>>
    BY DEF OtherRest
  <2>4. InScript'
    BY <2>1, <2>2, <2>3, TailsOfRests DEF InScript
  <2>5. \A d \in Clients :
          pc'[d] # "idle" => req'[d].op \in {"refresh", "ocrefresh"}
    <3>1. CASE pc' = pc
      BY <2>1, <3>1 DEF MonitorTypeOK
    <3>2. CASE CallRefresh(c)
      <4>1. Head(req[c].todo) = "poll"
        BY <3>2 DEF CallRefresh, AtStep
      <4>2. req[c].op \in {"refresh", "ocrefresh"}
        BY <2>1, <4>1, TailsOfRests DEF InScript
      <4>3. \A d \in Clients : d # c => pc'[d] = pc[d]
        BY <3>2, AgentAssumption
           DEF CallRefresh, CallPollNow, MonitorTypeOK, TypeOK, Agents
      <4> QED
        BY <2>1, <4>2, <4>3 DEF MonitorTypeOK
    <3> QED
      BY <1>4, <3>1, <3>2
         DEF HandlerStep, ReadConnected, ReadState, ReadConfig, vars
  <2> QED
    BY <1>1, <2>1, <2>4, <2>5 DEF MonitorTypeOK
<1>5. ASSUME NEW c \in Clients, NEW op \in Operations, Arrive(c, op)
      PROVE  (MonitorTypeOK /\ InScript)'
  <2>1. pc' = pc /\ req[c].op = None
    BY <1>5 DEF Arrive, Active, vars
  <2>2. pc[c] = "idle"
    BY <1>2, <2>1 DEF MonitorTypeOK
  <2>3. InScript'
    BY <1>5, ArriveKept, ScriptRest DEF InScript
  <2> QED
    BY <1>1, <1>5, <2>1, <2>2, <2>3, ArriveKept DEF MonitorTypeOK
<1>6. ASSUME NEW c \in Clients, Return(c)
      PROVE  (MonitorTypeOK /\ InScript)'
  <2>1. pc' = pc
    BY <1>6 DEF Return, vars
  <2>2. InScript'
    BY <1>2, <1>6, ReturnKept DEF InScript, NoRequest, OtherRest
  <2> QED
    BY <1>1, <1>6, <2>1, <2>2, ReturnKept DEF MonitorTypeOK
<1>7. CASE UNCHANGED monitorVars
  BY <1>1, <1>7 DEF monitorVars, vars, MonitorTypeOK, InScript
<1>8. ASSUME NEW t \in Thresholds, NEW n \in StoredThresholds,
             StoreUnderPages(t, n)
      PROVE  (MonitorTypeOK /\ InScript)'
  BY <1>1, <1>8, StoreKept DEF MonitorTypeOK, InScript
<1> QED
  BY <1>3, <1>4, <1>5, <1>6, <1>7, <1>8 DEF MonitorNext

(* Every request keeps its type, and a client that is inside PollNow is    *)
(* one of the two refreshes.                                               *)
THEOREM MonitorTypeCorrect == MonitorSpec => []MonitorTypeOK
  BY MonitorTypeInit, MonitorTypeNext, PTL DEF MonitorSpec

-----------------------------------------------------------------------------
(* Refreshes *)

LEMMA RefreshOrderPoller ==
  ASSUME MonitorTypeOK, RefreshOrder, PollerStep
  PROVE  RefreshOrder'
<1>1. req' = req
  BY PollerStepKept
<1>2. /\ pc \in [Agents -> ClientPC \cup LoopPC] /\ Loop \notin Clients
      /\ Clients \subseteq Agents /\ Loop \in Agents
      /\ \A a \in Agents : InPoll(a) <=> mu = a
  BY AgentAssumption DEF MonitorTypeOK, TypeOK, Agents
<1>3. /\ order.begun \in [Agents -> SUBSET Clients]
      /\ order = [begun |-> order.begun, published |-> order.published,
                  steady |-> order.steady]
  BY DEF MonitorTypeOK
<1>4. \A c \in Clients : req[c].op = "refresh" => Active(c)
  BY OperationAssumption DEF Active, Endpoints, DeviceScript
<1>5. CASE /\ Environment \/ LoopTick \/ LoopStop
           /\ order'.begun = order.begun
           /\ order'.published = order.published
  <2>1. \A c \in Clients : pc'[c] = pc[c]
    BY <1>2, <1>5 DEF Environment, Outside, Tick, ClockStep, SetConnected,
                      SaveConfig, Cancel, LoopTick, LoopStop
  <2>2. \A a \in Agents : InPoll(a)' => InPoll(a)
    BY <1>2, <1>5 DEF Environment, Outside, Tick, ClockStep, SetConnected,
                      SaveConfig, Cancel, LoopTick, LoopStop, InPoll
  <2> QED
    BY <1>1, <1>2, <1>5, <2>1, <2>2 DEF RefreshOrder
<1>6. ASSUME NEW a \in Agents, FetchOk(a) \/ FetchFail(a),
             order'.begun = order.begun, order'.published = order.published
      PROVE  RefreshOrder'
  <2>1. pc[a] = "fetch" /\ pc' = [pc EXCEPT ![a] = "publish"]
    BY <1>6 DEF FetchOk, FetchFail
  <2>2. \A c \in Clients : pc'[c] = "idle" <=> pc[c] = "idle"
    BY <1>2, <2>1
  <2>3. \A b \in Agents : InPoll(b)' <=> InPoll(b)
    BY <1>2, <2>1 DEF InPoll
  <2> QED
    BY <1>1, <1>2, <1>6, <2>2, <2>3 DEF RefreshOrder
<1>7. ASSUME NEW a \in Agents, PollBegin(a),
             order' = [order EXCEPT !.begun[a] = {c \in Clients : Active(c)}]
      PROVE  RefreshOrder'
  <2>1. pc[a] = "lock" /\ pc' = [pc EXCEPT ![a] = "fetch"]
    BY <1>7 DEF PollBegin
  <2>2. /\ order'.published = order.published
        /\ order'.begun[a] = {c \in Clients : Active(c)}
        /\ \A b \in Agents : b # a => order'.begun[b] = order.begun[b]
    BY <1>3, <1>7
  <2>3. \A c \in Clients : pc'[c] = "idle" <=> pc[c] = "idle"
    BY <1>2, <2>1
  <2>4. \A b \in Agents : b # a => (InPoll(b)' <=> InPoll(b))
    BY <1>2, <2>1 DEF InPoll
  <2> QED
    BY <1>1, <1>2, <1>4, <2>2, <2>3, <2>4 DEF RefreshOrder
<1>8. ASSUME NEW a \in Agents, Publish(a),
             order' = [order EXCEPT !.published = order.begun[a]]
      PROVE  RefreshOrder'
  <2>1. /\ pc[a] = "publish" /\ mu = a
        /\ pc' = [pc EXCEPT ![a] = IF a = Loop THEN "select" ELSE "idle"]
    BY <1>2, <1>8 DEF Publish, InPoll
  <2>2. order'.published = order.begun[a] /\ order'.begun = order.begun
    BY <1>3, <1>8
  <2>3. \A b \in Agents : ~InPoll(b)'
    BY <1>2, <2>1 DEF InPoll
  <2>4. \A c \in Clients : c # a => pc'[c] = pc[c]
    BY <1>2, <2>1
  <2>5. InPoll(a)
    BY <2>1 DEF InPoll
  <2>6. a \in Clients => pc[a] # "idle" /\ pc'[a] = "idle"
    BY <1>2, <2>1
  <2> QED
    BY <1>1, <1>2, <2>2, <2>3, <2>4, <2>5, <2>6 DEF RefreshOrder
<1>9. order' = [order EXCEPT !.steady = {c \in @ : cfg' = cfg}] =>
        order'.begun = order.begun /\ order'.published = order.published
  BY <1>3
<1> QED
  BY <1>5, <1>6, <1>7, <1>8, <1>9 DEF PollerStep

LEMMA RefreshOrderHandler ==
  ASSUME MonitorTypeOK, InScript, RefreshOrder, NEW c \in Clients,
         HandlerStep(c)
  PROVE  RefreshOrder'
<1>1. /\ req'[c].op = req[c].op
      /\ req[c].todo # <<>> /\ pc[c] = "idle" /\ order' = order
      /\ \/ req'[c].todo = Tail(req[c].todo)
         \/ req'[c].todo = <<>> /\ req[c].op \in Sensors \cup {"issafe"}
      /\ \A d \in Clients : d # c => req'[d] = req[d]
  BY RequestKept DEF HandlerStep
<1>2. "refresh" \notin Sensors \cup {"issafe"}
  BY DEF Sensors, StatusField
<1>3. /\ pc \in [Agents -> ClientPC \cup LoopPC] /\ c \in Agents
      /\ Clients \subseteq Agents
  BY DEF MonitorTypeOK, TypeOK, Agents
<1>4. \A d \in Clients : d # c => pc'[d] = pc[d]
  BY <1>3 DEF HandlerStep, ReadConnected, ReadState, ReadConfig,
              CallRefresh, CallPollNow, vars
<1>5. \A a \in Agents : InPoll(a)' => InPoll(a)
  BY <1>1, <1>3 DEF HandlerStep, ReadConnected, ReadState, ReadConfig,
                    CallRefresh, CallPollNow, vars, InPoll
<1>6. ~InPoll(c)
  BY <1>1 DEF InPoll
<1>7. ASSUME req[c].op = "refresh"
      PROVE  /\ pc'[c] # "idle" => req'[c].todo = <<"state", "connected">>
             /\ pc'[c] = "idle" => req'[c].todo # <<"state", "connected">>
             /\ req'[c].todo \in {<<"connected">>, <<>>} => req'[c].own
  <2>1. req[c].todo \in RefreshRest /\ req'[c].todo = Tail(req[c].todo)
    BY <1>1, <1>2, <1>7 DEF InScript
  <2>2. CASE req[c].todo = <<"config", "poll", "state", "connected">>
    <3>1. req'[c].todo = <<"poll", "state", "connected">>
      BY <2>1, <2>2
    <3>2. ReadConfig(c)
      BY <2>2 DEF HandlerStep, ReadConnected, ReadState, CallRefresh, AtStep
    <3> QED
      BY <1>1, <3>1, <3>2 DEF ReadConfig, vars
  <2>3. CASE req[c].todo = <<"poll", "state", "connected">>
    <3>1. req'[c].todo = <<"state", "connected">>
      BY <2>1, <2>3
    <3>2. CallRefresh(c)
      BY <2>3 DEF HandlerStep, ReadConnected, ReadState, ReadConfig, AtStep
    <3>3. pc'[c] = "lock"
      BY <1>3, <3>2 DEF CallRefresh, CallPollNow
    <3> QED
      BY <3>1, <3>3
  <2>4. CASE req[c].todo = <<"state", "connected">>
    <3>1. req'[c].todo = <<"connected">>
      BY <2>1, <2>4
    <3>2. ReadState(c)
      BY <2>4 DEF HandlerStep, ReadConnected, CallRefresh, ReadConfig, AtStep
    <3>3. c \in order.published
      BY <1>1, <1>7, <2>4 DEF RefreshOrder
    <3>4. req'[c].own = (c \in order.published)
      BY <3>2 DEF ReadState, MonitorTypeOK, Request
    <3>5. pc' = pc
      BY <3>2 DEF ReadState, vars
    <3>6. req'[c].todo # <<"state", "connected">>
      BY <3>1
    <3> QED
      BY <1>1, <3>3, <3>4, <3>5, <3>6
  <2>5. CASE req[c].todo = <<"connected">>
    <3>1. req'[c].todo = <<>>
      BY <2>1, <2>5
    <3>2. ReadConnected(c)
      BY <2>5 DEF HandlerStep, ReadState, CallRefresh, ReadConfig, AtStep
    <3>3. req[c].own
      BY <1>7, <2>5 DEF RefreshOrder
    <3>4. req'[c].own = req[c].own
      BY <3>2 DEF ReadConnected, MonitorTypeOK, Request
    <3>5. pc' = pc
      BY <3>2 DEF ReadConnected, vars
    <3>6. req'[c].todo # <<"state", "connected">>
      BY <3>1
    <3> QED
      BY <1>1, <3>3, <3>4, <3>5, <3>6
  <2> QED
    BY <1>1, <2>1, <2>2, <2>3, <2>4, <2>5 DEF RefreshRest
<1> QED
  BY <1>1, <1>3, <1>4, <1>5, <1>6, <1>7 DEF RefreshOrder

LEMMA RefreshOrderNext ==
  ASSUME MonitorTypeOK, InScript, RefreshOrder, [MonitorNext]_monitorVars
  PROVE  RefreshOrder'
<1>1. \A c \in Clients, op \in Operations : Arrive(c, op) => pc[c] = "idle"
  <2>1. None \notin {"refresh", "ocrefresh"}
    BY OperationAssumption DEF Endpoints, DeviceScript, ConditionsScript
  <2> QED
    BY <2>1 DEF Arrive, Active, MonitorTypeOK
<1>2. ASSUME NEW c \in Clients, NEW op \in Operations, Arrive(c, op)
      PROVE  RefreshOrder'
  <2>1. op = "refresh" =>
          /\ req'[c].todo = <<"config", "poll", "state", "connected">>
          /\ pc[c] = "idle"
    BY <1>1, <1>2, ArriveKept, ScriptOf
  <2>2. pc' = pc
    BY <1>2 DEF Arrive, vars
  <2>3. Clients \subseteq Agents
    BY DEF Agents
  <2>4. /\ req'[c].op = op
        /\ \A d \in Clients : d # c => req'[d] = req[d]
        /\ order'.begun = order.begun
        /\ order'.published = order.published
    BY <1>2, ArriveKept DEF MonitorTypeOK
  <2> QED
    BY <2>1, <2>2, <2>3, <2>4 DEF RefreshOrder, InPoll
<1>3. ASSUME NEW c \in Clients, Return(c) PROVE RefreshOrder'
  <2>1. req'[c].op # "refresh"
    BY <1>3, ReturnKept, OperationAssumption
       DEF NoRequest, Endpoints, DeviceScript
  <2>2. pc' = pc /\ Clients \subseteq Agents
    BY <1>3 DEF Return, vars, Agents
  <2>3. /\ \A d \in Clients : d # c => req'[d] = req[d]
        /\ \A a \in Agents : order'.begun[a] = order.begun[a] \ {c}
        /\ order'.published = order.published \ {c}
    BY <1>3, ReturnKept
  <2> QED
    BY <2>1, <2>2, <2>3 DEF RefreshOrder, InPoll
<1>4. CASE UNCHANGED monitorVars
  BY <1>4 DEF monitorVars, vars, RefreshOrder, InPoll
<1>5. ASSUME NEW t \in Thresholds, NEW n \in StoredThresholds,
             StoreUnderPages(t, n)
      PROVE  RefreshOrder'
  BY <1>5, StoreKept DEF RefreshOrder, InPoll
<1> QED
  BY <1>2, <1>3, <1>4, <1>5, RefreshOrderPoller, RefreshOrderHandler
     DEF MonitorNext

(* A refresh answers with a poll that began after the request came in,     *)
(* however many others queue before it, overtake it or publish between its *)
(* own poll and its look at the verdict.                                   *)
THEOREM Refreshed == MonitorSpec => []RefreshShowsNewPoll
<1>1. MonitorInit => RefreshOrder
  <2>1. None # "refresh"
    BY OperationAssumption DEF Endpoints, DeviceScript
  <2> QED
    BY <2>1 DEF MonitorInit, RefreshOrder, NoRequest
<1>2. RefreshOrder => RefreshShowsNewPoll
  BY DEF RefreshOrder, RefreshShowsNewPoll, Answered
<1> QED
  BY <1>1, <1>2, MonitorTypeInit, MonitorTypeNext, RefreshOrderNext, PTL
     DEF MonitorSpec

-----------------------------------------------------------------------------
(* Which configuration a refresh shows *)

LEMMA OnlyActiveNext ==
  ASSUME MonitorTypeOK, OnlyActive, [MonitorNext]_monitorVars
  PROVE  OnlyActive'
<1>1. order \in [begun : [Agents -> SUBSET Clients],
                published : SUBSET Clients, steady : SUBSET Clients]
  BY DEF MonitorTypeOK
<1>2. CASE PollerStep
  <2>1. req' = req
    BY <1>2, PollerStepKept
  <2>2. CASE \/ /\ order'.begun = order.begun
                /\ order'.published = order.published
             \/ \E a \in Agents :
                  /\ order' = [order EXCEPT !.begun[a] =
                                 {c \in Clients : Active(c)}]
             \/ \E a \in Agents :
                  order' = [order EXCEPT !.published = order.begun[a]]
    BY <1>1, <2>1, <2>2 DEF OnlyActive, Active
  <2>3. order' = [order EXCEPT !.steady = {c \in @ : cfg' = cfg}] =>
          order'.begun = order.begun /\ order'.published = order.published
    BY <1>1
  <2> QED
    BY <1>2, <2>2, <2>3 DEF PollerStep
<1>3. ASSUME NEW c \in Clients, HandlerStep(c) PROVE OnlyActive'
  BY <1>3, RequestKept DEF HandlerStep, OnlyActive, Active
<1>4. ASSUME NEW c \in Clients, NEW op \in Operations, Arrive(c, op)
      PROVE  OnlyActive'
  <2>1. op # None
    BY OperationAssumption
  <2> QED
    BY <1>1, <1>4, <2>1, ArriveKept DEF OnlyActive, Active
<1>5. ASSUME NEW c \in Clients, Return(c) PROVE OnlyActive'
  BY <1>1, <1>5, ReturnKept DEF OnlyActive, Active
<1>6. CASE UNCHANGED monitorVars
  BY <1>6 DEF monitorVars, OnlyActive, Active
<1>7. ASSUME NEW t \in Thresholds, NEW n \in StoredThresholds,
             StoreUnderPages(t, n)
      PROVE  OnlyActive'
  BY <1>7, StoreKept DEF OnlyActive, Active
<1> QED
  BY <1>2, <1>3, <1>4, <1>5, <1>6, <1>7 DEF MonitorNext

LEMMA SteadyPoller ==
  ASSUME MonitorTypeOK, SteadyConfig, PollerStep
  PROVE  SteadyConfig'
<1>1. req' = req
  BY PollerStepKept
<1>2. /\ pc \in [Agents -> ClientPC \cup LoopPC]
      /\ local \in [Agents -> Locals] /\ ghost \in Ghost
      /\ \A a \in Agents : InPoll(a) <=> mu = a
      /\ order \in [begun : [Agents -> SUBSET Clients],
                   published : SUBSET Clients, steady : SUBSET Clients]
  BY DEF MonitorTypeOK, TypeOK
<1>3. TypeOK /\ [Next]_vars
  BY MonitorStepIsStep DEF MonitorTypeOK, MonitorNext
<1>4. CASE /\ \/ Environment \/ LoopTick \/ LoopStop
              \/ \E a \in Agents : FetchOk(a) \/ FetchFail(a)
           /\ order' = [order EXCEPT !.steady = {c \in @ : cfg' = cfg}]
  <2>1. /\ order'.begun = order.begun /\ order'.published = order.published
        /\ order'.steady = {c \in order.steady : cfg' = cfg}
    BY <1>2, <1>4
  <2>2. \A a \in Agents : InPoll(a)' => InPoll(a)
    BY <1>2, <1>4 DEF Environment, Outside, Tick, ClockStep, SetConnected,
                      SaveConfig, Cancel, LoopTick, LoopStop, FetchOk,
                      FetchFail, InPoll
  <2>3. \A a \in Agents : local'[a].cfg = local[a].cfg
    <3>1. ASSUME NEW a \in Agents, FetchOk(a) \/ FetchFail(a)
          PROVE  \A b \in Agents : local'[b].cfg = local[b].cfg
      <4>1. local' = [local EXCEPT ![a].connected = connected]
        BY <3>1 DEF FetchOk, FetchFail
      <4> QED
        BY <1>2, <4>1 DEF Locals
    <3>2. CASE UNCHANGED local
      BY <3>2
    <3>3. CASE \E c \in Configs : SaveConfig(c)
      BY <1>3, <3>3, SaveEffect
    <3>4. Environment \/ LoopTick \/ LoopStop =>
            UNCHANGED local \/ \E c \in Configs : SaveConfig(c)
      BY DEF Environment, Outside, Tick, ClockStep, SetConnected, Cancel,
             LoopTick, LoopStop
    <3> QED
      BY <1>4, <3>1, <3>2, <3>3, <3>4
  <2>4. \A a \in Agents : ~Publish(a)
    BY <1>2, <1>4 DEF Environment, Outside, Tick, ClockStep, SetConnected,
                      SaveConfig, Cancel, LoopTick, LoopStop, FetchOk,
                      FetchFail, Publish
  <2>5. ghost'.pubCfg = ghost.pubCfg
    BY <1>3, <2>4, VerdictKept
  <2> QED
    BY <1>1, <2>1, <2>2, <2>3, <2>5 DEF SteadyConfig
<1>5. ASSUME NEW a \in Agents, PollBegin(a),
             order' = [order EXCEPT !.begun[a] = {c \in Clients : Active(c)}]
      PROVE  SteadyConfig'
  <2>1. /\ order'.published = order.published /\ order'.steady = order.steady
        /\ \A b \in Agents : b # a => order'.begun[b] = order.begun[b]
    BY <1>2, <1>5
  <2>2. /\ cfg' = cfg /\ ghost'.pubCfg = ghost.pubCfg
        /\ local'[a].cfg = cfg
        /\ \A b \in Agents : b # a => local'[b] = local[b] /\ pc'[b] = pc[b]
    BY <1>2, <1>5 DEF PollBegin, Ghost, shared
  <2> QED
    BY <1>1, <2>1, <2>2 DEF SteadyConfig, InPoll
<1>6. ASSUME NEW a \in Agents, Publish(a),
             order' = [order EXCEPT !.published = order.begun[a]]
      PROVE  SteadyConfig'
  <2>1. order'.published = order.begun[a] /\ order'.steady = order.steady
    BY <1>2, <1>6
  <2>2. /\ pc[a] = "publish" /\ mu = a /\ InPoll(a)
        /\ pc' = [pc EXCEPT ![a] = IF a = Loop THEN "select" ELSE "idle"]
    BY <1>2, <1>6 DEF Publish, InPoll
  <2>3. \A b \in Agents : ~InPoll(b)'
    BY <1>2, <2>2 DEF InPoll
  <2>4. cfg' = cfg /\ ghost'.pubCfg = local[a].cfg
    BY <1>2, <1>6 DEF Publish, Ghost, shared
  <2> QED
    BY <1>1, <2>1, <2>2, <2>3, <2>4 DEF SteadyConfig
<1> QED
  BY <1>4, <1>5, <1>6 DEF PollerStep

LEMMA SteadyHandler ==
  ASSUME MonitorTypeOK, InScript, RefreshOrder, SteadyConfig,
         NEW c \in Clients, HandlerStep(c)
  PROVE  SteadyConfig'
<1>1. /\ req'[c].op = req[c].op
      /\ req[c].todo # <<>> /\ pc[c] = "idle" /\ order' = order
      /\ \/ req'[c].todo = Tail(req[c].todo)
         \/ req'[c].todo = <<>> /\ req[c].op \in Sensors \cup {"issafe"}
      /\ \A d \in Clients : d # c => req'[d] = req[d]
  BY RequestKept DEF HandlerStep
<1>2. "refresh" \notin Sensors \cup {"issafe"}
  BY DEF Sensors, StatusField
<1>3. /\ pc \in [Agents -> ClientPC \cup LoopPC]
      /\ order.steady \subseteq Clients /\ Clients \subseteq Agents
      /\ req \in [Clients -> Request]
  BY DEF MonitorTypeOK, TypeOK, Agents
<1>4. cfg' = cfg /\ ghost' = ghost /\ local' = local
  BY DEF HandlerStep, ReadConnected, ReadState, ReadConfig, CallRefresh,
         CallPollNow, vars, shared
<1>5. \A a \in Agents : InPoll(a)' => InPoll(a)
  BY <1>3 DEF HandlerStep, ReadConnected, ReadState, ReadConfig,
              CallRefresh, CallPollNow, vars, InPoll
<1>6. ASSUME req[c].op = "refresh", c \in order.steady
      PROVE  /\ Plain(req'[c].cfg) = Plain(cfg)
             /\ req'[c].todo \in {<<"connected">>, <<>>} =>
                  Plain(req'[c].judged) = Plain(cfg)
  <2>1. req[c].todo \in RefreshRest /\ req'[c].todo = Tail(req[c].todo)
    BY <1>1, <1>2, <1>6 DEF InScript
  <2>2. CASE req[c].todo = <<"config", "poll", "state", "connected">>
    <3>1. req'[c].todo = <<"poll", "state", "connected">>
      BY <2>1, <2>2
    <3>2. ReadConfig(c)
      BY <2>2 DEF HandlerStep, ReadConnected, ReadState, CallRefresh, AtStep
    <3>3. req'[c].cfg = cfg
      BY <1>3, <3>2 DEF ReadConfig, Request
    <3>4. req'[c].todo \notin {<<"connected">>, <<>>}
      BY <3>1
    <3> QED
      BY <3>3, <3>4
  <2>3. CASE req[c].todo = <<"poll", "state", "connected">>
    <3>1. req'[c].todo = <<"state", "connected">>
      BY <2>1, <2>3
    <3>2. CallRefresh(c)
      BY <2>3 DEF HandlerStep, ReadConnected, ReadState, ReadConfig, AtStep
    <3>3. req'[c].cfg = req[c].cfg
      BY <1>3, <3>2 DEF CallRefresh, Request
    <3>4. Plain(req[c].cfg) = Plain(cfg)
      BY <1>6, <2>3 DEF SteadyConfig
    <3>5. req'[c].todo \notin {<<"connected">>, <<>>}
      BY <3>1
    <3> QED
      BY <3>3, <3>4, <3>5
  <2>4. CASE req[c].todo = <<"state", "connected">>
    <3>1. ReadState(c)
      BY <2>4 DEF HandlerStep, ReadConnected, CallRefresh, ReadConfig, AtStep
    <3>2. c \in order.published
      BY <1>1, <1>6, <2>4 DEF RefreshOrder
    <3>3. /\ Plain(ghost.pubCfg) = Plain(cfg)
          /\ Plain(req[c].cfg) = Plain(cfg)
      BY <1>6, <2>4, <3>2 DEF SteadyConfig
    <3>4. req'[c].judged = ghost.pubCfg /\ req'[c].cfg = req[c].cfg
      BY <1>3, <3>1 DEF ReadState, Request
    <3> QED
      BY <3>3, <3>4
  <2>5. CASE req[c].todo = <<"connected">>
    <3>1. ReadConnected(c)
      BY <2>5 DEF HandlerStep, ReadState, CallRefresh, ReadConfig, AtStep
    <3>2. /\ Plain(req[c].judged) = Plain(cfg)
          /\ Plain(req[c].cfg) = Plain(cfg)
      <4>1. <<"connected">> # <<"config", "poll", "state", "connected">>
        OBVIOUS
      <4> QED
        BY <1>6, <2>5, <4>1 DEF SteadyConfig
    <3>3. req'[c].judged = req[c].judged /\ req'[c].cfg = req[c].cfg
      BY <1>3, <3>1 DEF ReadConnected, Request
    <3> QED
      BY <3>2, <3>3
  <2> QED
    BY <1>1, <2>1, <2>2, <2>3, <2>4, <2>5 DEF RefreshRest
<1> QED
  BY <1>1, <1>3, <1>4, <1>5, <1>6 DEF SteadyConfig

LEMMA SteadyNext ==
  ASSUME MonitorTypeOK, InScript, RefreshOrder, OnlyActive, SteadyConfig,
         [MonitorNext]_monitorVars
  PROVE  SteadyConfig'
<1>1. /\ order.steady \subseteq Clients
      /\ order \in [begun : [Agents -> SUBSET Clients],
                   published : SUBSET Clients, steady : SUBSET Clients]
  BY DEF MonitorTypeOK
<1>2. ASSUME NEW c \in Clients, NEW op \in Operations, Arrive(c, op)
      PROVE  SteadyConfig'
  <2>1. UNCHANGED <<pc, local, cfg, ghost>>
    BY <1>2 DEF Arrive, vars, shared
  <2>2. ~Active(c)
    BY <1>2 DEF Arrive
  <2>3. /\ req'[c].op = op /\ req'[c].todo = Script(op) /\ op \in Endpoints
        /\ \A d \in Clients : d # c => req'[d] = req[d]
        /\ order' = [order EXCEPT !.steady = @ \cup {c}]
    BY <1>2, ArriveKept
  <2>4. /\ order'.begun = order.begun /\ order'.published = order.published
        /\ order'.steady = order.steady \cup {c}
    BY <1>1, <2>3
  <2>5. /\ c \notin order.published
        /\ \A a \in Agents : c \notin order.begun[a]
    BY <2>2 DEF OnlyActive
  <2>6. op = "refresh" =>
          req'[c].todo = <<"config", "poll", "state", "connected">>
    BY <2>3, ScriptOf
  <2>7. <<"config", "poll", "state", "connected">>
          \notin {<<"connected">>, <<>>}
    OBVIOUS
  <2> QED
    BY <1>1, <2>1, <2>3, <2>4, <2>5, <2>6, <2>7 DEF SteadyConfig, InPoll
<1>3. ASSUME NEW c \in Clients, Return(c) PROVE SteadyConfig'
  <2>1. UNCHANGED <<pc, local, cfg, ghost>>
    BY <1>3 DEF Return, vars, shared
  <2>2. /\ \A d \in Clients : d # c => req'[d] = req[d]
        /\ \A a \in Agents : order'.begun[a] = order.begun[a] \ {c}
        /\ order'.published = order.published \ {c}
        /\ order'.steady = order.steady \ {c}
    BY <1>3, ReturnKept
  <2> QED
    BY <1>1, <2>1, <2>2 DEF SteadyConfig, InPoll
<1>4. CASE UNCHANGED monitorVars
  BY <1>4 DEF monitorVars, vars, shared, SteadyConfig, InPoll
<1>5. ASSUME NEW t \in Thresholds, NEW n \in StoredThresholds,
             StoreUnderPages(t, n)
      PROVE  SteadyConfig'
  <2>1. "refresh" # "dashboard"
    OBVIOUS
  <2> QED
    BY <1>1, <1>5, <2>1, StoreKept DEF SteadyConfig, InPoll
<1> QED
  BY <1>2, <1>3, <1>4, <1>5, SteadyPoller, SteadyHandler DEF MonitorNext

(* The override a refresh reports is the one its verdict was judged with,  *)
(* unless a save came in while it ran; polls of others may begin, queue    *)
(* and publish as they like.                                               *)
THEOREM Consistent == MonitorSpec => []RefreshIsConsistent
<1>1. MonitorInit => RefreshOrder /\ OnlyActive /\ SteadyConfig
  <2>1. None # "refresh"
    BY OperationAssumption DEF Endpoints, DeviceScript
  <2> QED
    BY <2>1 DEF MonitorInit, RefreshOrder, NoRequest, OnlyActive, SteadyConfig
<1>2. SteadyConfig => RefreshIsConsistent
  <2>1. <<>> # <<"config", "poll", "state", "connected">>
    OBVIOUS
  <2> QED
    BY <2>1 DEF SteadyConfig, RefreshIsConsistent, Answered
<1> QED
  BY <1>1, <1>2, MonitorTypeInit, MonitorTypeNext, RefreshOrderNext,
     OnlyActiveNext, SteadyNext, PTL DEF MonitorSpec

-----------------------------------------------------------------------------
(* Sensor values *)

LEMMA EvaluateReal ==
  ASSUME TypeOK, NEW a \in Agents, poller.hasData <=> poller.sensors # None,
         poller.sensors # None =>
           \E u \in URLs : poller.sensors \in Device[u]
  PROVE  IsReal(Evaluate(local[a].cfg, PollInput(a), wall))
<1> DEFINE state == Evaluate(local[a].cfg, PollInput(a), wall)
<1>1. state.raw = poller.sensors
  BY DEF Evaluate, PollInput
<1>2. local[a].cfg \in Config
  BY ConfigFacts DEF TypeOK, Locals
<1>3. PollInput(a) \in Input
  BY PollInputType
<1>4. /\ PollInput(a).sensors = poller.sensors
      /\ PollInput(a).hasData = poller.hasData
  BY DEF PollInput
<1>5. ASSUME state.raw # None, ByTheRules(state)
      PROVE  state.values = ValuesOf(state.raw)
  BY <1>1, <1>2, <1>3, <1>4, <1>5, ValuesAreOfTheReading
<1> HIDE DEF state
<1>6. IsReal(state)
  BY <1>1, <1>5 DEF IsReal
<1> QED
  BY <1>6 DEF state

LEMMA RealNext ==
  ASSUME MonitorTypeOK, PollOrder, ReadingsAreReal,
         [MonitorNext]_monitorVars
  PROVE  ReadingsAreReal'
<1>1. TypeOK
  BY DEF MonitorTypeOK
<1>2. [Next]_vars
  BY MonitorStepIsStep
<1>3. poller'.sensors # None => \E u \in URLs : poller'.sensors \in Device[u]
  <2>1. ASSUME NEW a \in Agents, FetchOk(a)
        PROVE  poller'.sensors \in Device[poller.url]
    BY <1>1, <2>1 DEF FetchOk, TypeOK, PollerFields
  <2>2. poller.url \in URLs
    BY <1>1 DEF TypeOK, PollerFields
  <2>3. ASSUME NEW a \in Agents, PollBegin(a) \/ FetchFail(a) \/ Publish(a)
        PROVE  poller'.sensors = poller.sensors
    BY <1>1, <2>3 DEF PollBegin, FetchFail, Publish, TypeOK, PollerFields
  <2>4. CASE poller' = poller
    BY <2>4 DEF ReadingsAreReal
  <2>5. \/ poller' = poller
        \/ \E a \in Agents : \/ PollBegin(a) \/ FetchFail(a) \/ Publish(a)
                             \/ FetchOk(a)
    BY <1>2 DEF Next, Environment, Outside, PutInPlace, PollStep, Tick,
                ClockStep, SetConnected, SaveConfig, StoreThreshold, Cancel,
                LoopTick, LoopStop, CallPollNow, vars
  <2> QED
    BY <2>1, <2>2, <2>3, <2>4, <2>5 DEF ReadingsAreReal
<1>4. IsReal(ev')
  <2>1. ASSUME NEW a \in Agents, Publish(a) PROVE IsReal(ev')
    BY <1>1, <2>1, EvaluateReal DEF Publish, PollOrder, ReadingsAreReal
  <2>2. CASE \A a \in Agents : ~Publish(a)
    BY <1>1, <1>2, <2>2, VerdictKept DEF ReadingsAreReal
  <2> QED
    BY <2>1, <2>2
<1>5. ASSUME NEW d \in Clients PROVE IsReal(req'[d].ev)
  <2>1. IsReal(req[d].ev) /\ IsReal(ev)
    BY DEF ReadingsAreReal
  <2>2. IsReal(InitialState)
    BY DEF IsReal, InitialState
  <2>3. CASE req'[d] = req[d]
    BY <2>1, <2>3
  <2>4. ASSUME NEW c \in Clients, HandlerStep(c)
        PROVE  req'[d].ev \in {req[d].ev, ev}
    BY <2>4 DEF HandlerStep, ReadConnected, ReadState, ReadConfig,
                CallRefresh, MonitorTypeOK, Request
  <2>5. ASSUME NEW c \in Clients, NEW op \in Operations, Arrive(c, op)
        PROVE  req'[d].ev \in {req[d].ev, InitialState}
    BY <2>5, ArriveKept
  <2>6. ASSUME NEW c \in Clients, Return(c)
        PROVE  req'[d].ev \in {req[d].ev, InitialState}
    BY <2>6, ReturnKept DEF NoRequest
  <2>7. CASE PollerStep \/ UNCHANGED monitorVars
    BY <2>1, <2>7 DEF PollerStep, monitorVars
  <2>8. ASSUME NEW t \in Thresholds, NEW n \in StoredThresholds,
               StoreUnderPages(t, n)
        PROVE  req'[d].ev = req[d].ev
    BY <2>8, StoreKept
  <2> QED
    BY <2>1, <2>2, <2>4, <2>5, <2>6, <2>7, <2>8 DEF MonitorNext
<1> QED
  BY <1>3, <1>4, <1>5 DEF ReadingsAreReal

LEMMA RealInvariant == MonitorSpec => []ReadingsAreReal
<1>1. MonitorInit => ReadingsAreReal
  BY DEF MonitorInit, Init, ReadingsAreReal, IsReal, InitialState, NoRequest
<1> QED
  BY <1>1, RealNext, MonitorTypeCorrect, MonitorRunsPoller,
     PollOrderInvariant, PTL DEF MonitorSpec

(* What a sensor property answers without an error, the device has         *)
(* measured with that sensor healthy, provided the verdict was reached by  *)
(* the rules or the property is served from the raw reading.               *)
THEOREM RealValues == MonitorSpec => []SensorValueIsReal
<1>1. MonitorTypeOK /\ ReadingsAreReal => SensorValueIsReal
  <2> SUFFICES ASSUME MonitorTypeOK, ReadingsAreReal,
                      NEW c \in Clients, req[c].op \in Sensors,
                      ~SensorFails(req[c].op, req[c].ev),
                      req[c].op \in ReadRaw \/ ByTheRules(req[c].ev)
               PROVE  \E u \in URLs : \E reading \in Device[u] :
                        /\ reading[StatusField[req[c].op]] = 0
                        /\ SensorValue(req[c].op, req[c].ev) =
                             reading[ValueField[req[c].op]]
    BY DEF SensorValueIsReal, AnswersError
  <2> DEFINE p == req[c].op
             state == req[c].ev
  <2>1. state.raw # None /\ state.raw[StatusField[p]] = 0
    BY DEF SensorFails
  <2>2. /\ \E u \in URLs : state.raw \in Device[u]
        /\ ByTheRules(state) => state.values = ValuesOf(state.raw)
    BY <2>1 DEF ReadingsAreReal, IsReal
  <2>3. SensorValue(p, state) = state.raw[ValueField[p]]
    <3>1. CASE p \in ReadRaw
      BY <3>1 DEF SensorValue
    <3>2. CASE p \notin ReadRaw
      <4>1. state.values = ValuesOf(state.raw)
        BY <2>2, <3>2
      <4>2. p \in {"cloudcover", "dewpoint", "humidity", "skyquality",
                   "temperature"}
        BY <3>2 DEF Sensors, StatusField, ReadRaw
      <4>3. ValueField[p] \in {"cloud", "dew", "hum", "sqm", "temp"}
        BY <4>2 DEF ValueField
      <4>4. ValuesOf(state.raw)[ValueField[p]] = state.raw[ValueField[p]]
        BY <4>3 DEF ValuesOf
      <4> QED
        BY <3>2, <4>1, <4>4 DEF SensorValue
    <3> QED
      BY <3>1, <3>2
  <2> QED
    BY <2>1, <2>2, <2>3
<1> QED
  BY <1>1, RealInvariant, MonitorTypeCorrect, PTL

-----------------------------------------------------------------------------
(* Verdicts and the configuration they were judged by *)

LEMMA FoundedNext ==
  ASSUME MonitorTypeOK, PollOrder, VerdictsAreFounded,
         [MonitorNext]_monitorVars
  PROVE  VerdictsAreFounded'
<1>1. TypeOK /\ [Next]_vars
  BY MonitorStepIsStep DEF MonitorTypeOK
<1>2. Founded(ghost'.pubCfg, ev')
  <2>1. ASSUME NEW a \in Agents, Publish(a)
        PROVE  Founded(ghost'.pubCfg, ev')
    <3>1. /\ ev' = Evaluate(local[a].cfg, PollInput(a), wall)
          /\ ghost'.pubCfg = local[a].cfg
      BY <1>1, <2>1 DEF Publish, TypeOK, Ghost
    <3>2. local[a].cfg \in Config
      BY <1>1, ConfigFacts DEF TypeOK, Locals
    <3>3. PollInput(a) \in Input
      BY <1>1, PollInputType
    <3>4. PollInput(a).hasData <=> PollInput(a).sensors # None
      BY DEF PollInput, PollOrder
    <3>5. RowsFit(local[a].cfg, Evaluate(local[a].cfg, PollInput(a), wall))
      BY <3>2, <3>3, <3>4, TableRepeatsVerdict DEF RowsFit
    <3>6. Evaluate(local[a].cfg, PollInput(a), wall).raw =
            PollInput(a).sensors
      BY DEF Evaluate
    <3>7. Backed(local[a].cfg, Evaluate(local[a].cfg, PollInput(a), wall))
      BY <3>2, <3>3, <3>4, <3>6, SafeHasNoBrokenRule DEF Backed
    <3> QED
      BY <3>1, <3>5, <3>7 DEF Founded
  <2>2. CASE \A a \in Agents : ~Publish(a)
    <3>1. ev' = ev /\ ghost'.pubCfg = ghost.pubCfg
      BY <1>1, <2>2, VerdictKept
    <3> QED
      BY <3>1 DEF VerdictsAreFounded
  <2> QED
    BY <2>1, <2>2
<1>3. ASSUME NEW d \in Clients PROVE Founded(req'[d].judged, req'[d].ev)
  <2>1. Founded(req[d].judged, req[d].ev) /\ Founded(ghost.pubCfg, ev)
    BY DEF VerdictsAreFounded
  <2>2. \A c : Founded(c, InitialState)
    BY DEF Founded, RowsFit, Backed, InitialState
  <2>3. ASSUME NEW c \in Clients, HandlerStep(c)
        PROVE  \/ /\ req'[d].judged = req[d].judged
                  /\ req'[d].ev = req[d].ev
               \/ req'[d].judged = ghost.pubCfg /\ req'[d].ev = ev
    <3>1. req \in [Clients -> Request]
      BY DEF MonitorTypeOK
    <3>2. CASE ReadState(c)
      BY <3>1, <3>2 DEF ReadState, Request
    <3>3. CASE ReadConnected(c) \/ ReadConfig(c) \/ CallRefresh(c)
      BY <3>1, <3>3 DEF ReadConnected, ReadConfig, CallRefresh, Request
    <3> QED
      BY <2>3, <3>2, <3>3 DEF HandlerStep
  <2>4. ASSUME NEW c \in Clients, NEW op \in Operations, Arrive(c, op)
        PROVE  req'[d] = req[d] \/ req'[d].ev = InitialState
    BY <2>4, ArriveKept
  <2>5. ASSUME NEW c \in Clients, Return(c)
        PROVE  req'[d] = req[d] \/ req'[d].ev = InitialState
    BY <2>5, ReturnKept DEF NoRequest
  <2>6. CASE PollerStep \/ UNCHANGED monitorVars
    BY <2>1, <2>6 DEF PollerStep, monitorVars
  <2>7. ASSUME NEW t \in Thresholds, NEW n \in StoredThresholds,
               StoreUnderPages(t, n)
        PROVE  req'[d].ev = req[d].ev /\ req'[d].judged = req[d].judged
    BY <2>7, StoreKept
  <2> QED
    BY <2>1, <2>2, <2>3, <2>4, <2>5, <2>6, <2>7 DEF MonitorNext
<1> QED
  BY <1>2, <1>3 DEF VerdictsAreFounded

LEMMA FoundedInvariant == MonitorSpec => []VerdictsAreFounded
<1>1. MonitorInit => VerdictsAreFounded
  BY DEF MonitorInit, Init, VerdictsAreFounded, Founded, RowsFit, Backed,
         InitialState, NoRequest
<1> QED
  BY <1>1, FoundedNext, MonitorTypeCorrect, MonitorRunsPoller,
     PollOrderInvariant, PTL DEF MonitorSpec

(* The page and the verdict on it never contradict each other when both    *)
(* come from one configuration: every verdict doPoll publishes, from any   *)
(* mixture of old reading and new settings, is one its rows repeat.        *)
THEOREM DashboardTable == MonitorSpec => []DashboardAgrees
<1>1. VerdictsAreFounded => DashboardAgrees
  BY DEF VerdictsAreFounded, Founded, RowsFit, DashboardAgrees
<1> QED
  BY <1>1, FoundedInvariant, PTL

(* A dome that opens on this answer opens on a reading that some device    *)
(* sent and that was judged good, whatever was polled, saved or            *)
(* disconnected between the poll, the two reads and the answer.            *)
THEOREM SafeAnswers == MonitorSpec => []SafeAnswerIsBacked
<1>1. VerdictsAreFounded /\ ReadingsAreReal => SafeAnswerIsBacked
  BY DEF VerdictsAreFounded, Founded, Backed, ReadingsAreReal, IsReal,
         SafeAnswerIsBacked
<1> QED
  BY <1>1, FoundedInvariant, RealInvariant, PTL
=============================================================================
