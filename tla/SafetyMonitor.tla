--------------------------- MODULE SafetyMonitor ---------------------------
(***************************************************************************)
(* The HTTP side of the bridge on top of Poller: the two Alpaca devices    *)
(* (internal/alpaca, SafetyMonitor and ObservingConditions) and the pages  *)
(* of internal/web that show their state.                                  *)
(*                                                                         *)
(* net/http runs every request in a goroutine of its own.  A handler is a  *)
(* sequence of reads of the two holders, each under its own short lock,    *)
(* and perhaps a refresh in between; polls, saves and disconnections may   *)
(* fall between any two of them.  Script gives each handler's reads in the *)
(* order of the code; what it answers is a function of what it has read.   *)
(* Requests that change state in one step (PUT connected, connect,         *)
(* disconnect; the swap that ends a save; a threshold stored in place) are *)
(* SetConnected, SaveConfig and StoreThreshold of Poller.  Endpoints that  *)
(* return constants, and the transaction ids, are left out.                *)
(***************************************************************************)
EXTENDS Poller, Answers, Sequences

CONSTANT Operations       \* the requests clients send, a subset of Endpoints

VARIABLES req,            \* each client's request and what it has read
          order           \* history: how polls and saves fell among them

(* What each handler reads, in its order; "poll" is a call of PollNow.     *)
(* SafetyMonitor: issafe, devicestate and the two actions.                 *)
DeviceScript == [issafe      |-> <<"connected", "state">>,
                 devicestate |-> <<"state">>,
                 status      |-> <<"config", "state", "connected">>,
                 refresh     |-> <<"config", "poll", "state", "connected">>]

(* ObservingConditions: the sensors, timesincemeasurement and refresh.      *)
SensorScript == [p \in Sensors |-> <<"connected", "state">>]

ConditionsScript == [timesince |-> <<"state">>, ocrefresh |-> <<"poll">>]

(* internal/web: /health and /status.json; the dashboard.                  *)
StatusScript == [health     |-> <<"state", "connected">>,
                 statusjson |-> <<"state", "config", "connected">>]

PageScript == [dashboard |-> <<"state", "config", "connected">>]

Endpoints == DOMAIN DeviceScript \cup Sensors \cup DOMAIN ConditionsScript
               \cup DOMAIN StatusScript \cup DOMAIN PageScript

Script(op) ==
  IF op \in DOMAIN DeviceScript          THEN DeviceScript[op]
  ELSE IF op \in DOMAIN SensorScript     THEN SensorScript[op]
  ELSE IF op \in DOMAIN ConditionsScript THEN ConditionsScript[op]
  ELSE IF op \in DOMAIN StatusScript     THEN StatusScript[op]
  ELSE                                        PageScript[op]

ASSUME OperationAssumption == /\ Operations \subseteq Endpoints
                              /\ None \notin Endpoints

Steps == {"connected", "state", "config", "poll"}

(* op: None between requests.  todo: the reads still to come.  cfg, ev and *)
(* connected: what has been read.  Of the verdict read the history has own: *)
(* its poll began after the request came in, and judged: its configuration. *)
NoRequest == [op |-> None, todo |-> <<>>, cfg |-> InitConfig,
              ev |-> InitialState, connected |-> FALSE, own |-> FALSE,
              judged |-> InitConfig]

Active(c) == req[c].op # None
Answered(c) == Active(c) /\ req[c].todo = <<>> /\ pc[c] = "idle"

(* The next thing c's handler does is step.                                *)
AtStep(c, step) == /\ pc[c] = "idle"
                   /\ req[c].todo # <<>>
                   /\ Head(req[c].todo) = step

-----------------------------------------------------------------------------
(* What the handlers answer *)

(* issafe and the sensors refuse a device not connected,                   *)
(* timesincemeasurement an answer before the first success.                 *)
AnswersError(r) ==
  \/ r.op \in Sensors \cup {"issafe"} /\ ~r.connected
  \/ r.op \in Sensors /\ SensorFails(r.op, r.ev)
  \/ r.op = "timesince" /\ r.ev.lastSuccess = None

-----------------------------------------------------------------------------
MonitorInit ==
  /\ Init
  /\ req = [c \in Clients |-> NoRequest]
  /\ order = [begun |-> [a \in Agents |-> {}], published |-> {},
              steady |-> {}]

Arrive(c, op) ==
  /\ ~Active(c)
  /\ req' = [req EXCEPT ![c] = [NoRequest EXCEPT !.op = op,
                                                 !.todo = Script(op)]]
  /\ order' = [order EXCEPT !.steady = @ \cup {c}]
  /\ UNCHANGED vars

(* state.Holder.IsConnected; without it issafe and the sensors answer at   *)
(* once.                                                                   *)
ReadConnected(c) ==
  /\ AtStep(c, "connected")
  /\ LET refused == ~connected /\ req[c].op \in Sensors \cup {"issafe"}
     IN req' = [req EXCEPT ![c].connected = connected,
                           ![c].todo = IF refused THEN <<>> ELSE Tail(@)]
  /\ UNCHANGED <<vars, order>>

(* state.Holder.Get: one snapshot, never half of two verdicts.             *)
ReadState(c) ==
  /\ AtStep(c, "state")
  /\ req' = [req EXCEPT ![c].ev = ev, ![c].own = c \in order.published,
                        ![c].judged = ghost.pubCfg, ![c].todo = Tail(@)]
  /\ UNCHANGED <<vars, order>>

(* config.Holder.Get                                                       *)
ReadConfig(c) ==
  /\ AtStep(c, "config")
  /\ req' = [req EXCEPT ![c].cfg = cfg, ![c].todo = Tail(@)]
  /\ UNCHANGED <<vars, order>>

(* Mutant: a poll under way is taken for the refresh.                      *)
CallRefresh_TryLock(c) ==
  /\ AtStep(c, "poll")
  /\ IF mu = None THEN CallPollNow(c) ELSE UNCHANGED vars
  /\ req' = [req EXCEPT ![c].todo = Tail(@)]
  /\ UNCHANGED order

(* refreshFn(r.Context()): the handler goes on when its own poll is over.  *)
CallRefresh(c) ==
  /\ AtStep(c, "poll")
  /\ CallPollNow(c)
  /\ req' = [req EXCEPT ![c].todo = Tail(@)]
  /\ UNCHANGED order

(* The response has been written.                                          *)
Return(c) ==
  /\ Answered(c)
  /\ req' = [req EXCEPT ![c] = NoRequest]
  /\ order' = [begun |-> [a \in Agents |-> order.begun[a] \ {c}],
               published |-> order.published \ {c},
               steady |-> order.steady \ {c}]
  /\ UNCHANGED vars

(* The steps of Poller, StoreThreshold apart.  The history notes a poll's  *)
(* begin and end, and since which requests came in nobody has saved        *)
(* another configuration.                                                  *)
PollerStep ==
  /\ \/ /\ \/ Environment
           \/ LoopTick
           \/ LoopStop
           \/ \E a \in Agents : FetchOk(a) \/ FetchFail(a)
        /\ order' = [order EXCEPT !.steady = {c \in @ : cfg' = cfg}]
     \/ \E a \in Agents :
          /\ PollBegin(a)
          /\ order' = [order EXCEPT !.begun[a] =
                         {c \in Clients : Active(c)}]
     \/ \E a \in Agents :
          /\ Publish(a)
          /\ order' = [order EXCEPT !.published = order.begun[a]]
  /\ UNCHANGED req

(* The dashboard has the configuration it will show the thresholds of.     *)
HasPage(c) == req[c].op = "dashboard" /\ Len(req[c].todo) < 2

(* The page holds a pointer as well, and looks at the thresholds when it   *)
(* is written.  Which pages share the variable that is stored to is left   *)
(* open.                                                                   *)
StoreUnderPages(t, n) ==
  /\ StoreThreshold(t, n)
  /\ \E pages \in SUBSET {c \in Clients : HasPage(c) /\ req[c].cfg[t] # None} :
       req' = [c \in Clients |-> IF c \in pages
                 THEN [req[c] EXCEPT !.cfg[t] = n] ELSE req[c]]
  /\ UNCHANGED order

HandlerStep(c) ==
  ReadConnected(c) \/ ReadState(c) \/ ReadConfig(c) \/ CallRefresh(c)

MonitorNext ==
  \/ PollerStep
  \/ \E t \in Thresholds : \E n \in StoredThresholds : StoreUnderPages(t, n)
  \/ \E c \in Clients : \/ \E op \in Operations : Arrive(c, op)
                        \/ HandlerStep(c)
                        \/ Return(c)

monitorVars == <<vars, req, order>>

MonitorSpec == MonitorInit /\ [][MonitorNext]_monitorVars

-----------------------------------------------------------------------------
(* Properties *)

Request == [op : Optional(Endpoints), todo : Seq(Steps), cfg : Configs,
            ev : EvaluatedState, connected : BOOLEAN, own : BOOLEAN,
            judged : Configs]

(* Types; a client inside PollNow is a request at that point of its        *)
(* handler.                                                                *)
MonitorTypeOK ==
  /\ TypeOK
  /\ req \in [Clients -> Request]
  /\ order \in [begun : [Agents -> SUBSET Clients],
               published : SUBSET Clients, steady : SUBSET Clients]
  /\ \A c \in Clients :
       pc[c] # "idle" => req[c].op \in {"refresh", "ocrefresh"}

(* The answer to a refresh shows a poll that began after the request came  *)
(* in, even if other polls were queued before it or overtake it: never the *)
(* verdict the caller wanted replaced (handlers.go 312-318).               *)
RefreshShowsNewPoll ==
  \A c \in Clients : Answered(c) /\ req[c].op = "refresh" => req[c].own

(* Its two halves fit: PutAction reads manualOverride before the refresh   *)
(* and the verdict after it, yet unless a save came in between, the        *)
(* verdict is one that this very configuration was judged by, but for the  *)
(* thresholds, which it does not show.                                     *)
RefreshIsConsistent ==
  \A c \in Clients :
    Answered(c) /\ req[c].op = "refresh" /\ c \in order.steady
      => Plain(req[c].judged) = Plain(req[c].cfg)

(* A sensor value that is answered without an error is a value of the      *)
(* device, from a sensor that said it was healthy, whenever the verdict it *)
(* is served from was reached by the rules.                                *)
SensorValueIsReal ==
  \A c \in Clients :
    LET r == req[c]
    IN /\ Answered(c) /\ r.op \in Sensors /\ ~AnswersError(r)
       /\ r.op \in ReadRaw \/ ByTheRules(r.ev)
       => \E u \in URLs : \E reading \in Device[u] :
            /\ reading[StatusField[r.op]] = 0
            /\ SensorValue(r.op, r.ev) = reading[ValueField[r.op]]

(* Behind an answer "safe" of issafe that is not forced by the override    *)
(* there is a reading a device did send and that breaks no rule of the     *)
(* configuration its poll judged by, or none yet and FAIL_CLOSED=false     *)
(* (handlers.go 263-271).                                                  *)
SafeAnswerIsBacked ==
  \A c \in Clients :
    LET r == req[c]
    IN /\ Answered(c) /\ r.op = "issafe" /\ ~AnswersError(r)
       /\ r.ev.isSafe /\ "force_safe" \notin r.ev.warnings
       => \/ r.ev.raw = None /\ ~r.judged.failClosed
          \/ /\ \E u \in URLs : r.ev.raw \in Device[u]
             /\ \A why \in Reasons : ~Breaks(r.judged, r.ev.raw, why)

(* The Safety Rules table of the dashboard applies the thresholds of the   *)
(* configuration to the verdict's values once more, after reads of two     *)
(* holders.  When the verdict was judged by that configuration, the rows   *)
(* that fail are its reasons (handlers.go 159-162, 314-431).                *)
DashboardAgrees ==
  \A c \in Clients :
    LET r == req[c]
    IN /\ Answered(c) /\ r.op = "dashboard" /\ r.judged = r.cfg
       /\ r.ev.raw # None /\ ByTheRules(r.ev)
       => FailingRows(r.cfg, r.ev) = ReasonsWithRow(r.ev)

-----------------------------------------------------------------------------
(* What the documentation says and the code does not do *)

(* docs/nina-alpaca-discovery.md:152-156: /health returns isSafe false "if *)
(* the device is disconnected or reporting unsafe".                        *)
DisconnectedHealthIsUnsafe ==
  \A c \in Clients :
    Answered(c) /\ req[c].op = "health" /\ ~req[c].connected
      => ~req[c].ev.isSafe

(* README.md:106: "When a sensor is temporarily unavailable (hardware      *)
(* error, stale data), the property returns an Alpaca error 0x04FF [...]   *)
(* rather than a silently wrong value."  Read as: whatever keeps a value   *)
(* from the verdict, what is answered without an error is the reading's.   *)
NoSilentlyWrongValue ==
  \A c \in Clients :
    LET r == req[c]
    IN Answered(c) /\ r.op \in Sensors /\ ~AnswersError(r)
         => SensorValue(r.op, r.ev) = r.ev.raw[ValueField[r.op]]

=============================================================================
