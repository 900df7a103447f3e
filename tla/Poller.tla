------------------------------ MODULE Poller ------------------------------
(***************************************************************************)
(* The polling core: internal/poller, internal/state, the fetch of         *)
(* internal/sqmclient and the in-memory half of config.Holder.             *)
(*                                                                         *)
(* One goroutine, Loop, runs Poller.Run: it polls once, then looks at its  *)
(* one-second ticker.  Clients are HTTP requests whose handler calls the   *)
(* "refresh" function, Poller.PollNow.  A poll holds the poller's mutex    *)
(* from its first statement to its last, network included.  Its steps are  *)
(* the places where another goroutine can come in between:                 *)
(*   PollBegin           take the mutex, the configuration, a time stamp   *)
(*   FetchOk, FetchFail  the answer of the device, then IsConnected        *)
(*   Publish             Evaluate, state.Holder.Update, release the mutex  *)
(* SetConnected, SaveConfig and StoreThreshold may happen between any two  *)
(* of them.                                                                *)
(*                                                                         *)
(* Time.  "now" is real time, "wall" what time.Now().UTC() reads: UTC()    *)
(* strips the monotonic reading, so staleness and interval are computed    *)
(* from the wall clock, which ClockStep may move.  Steps that wait for     *)
(* nothing are instantaneous: Tick waits for them.  A fetch takes from 0   *)
(* to FetchTimeout.                                                        *)
(***************************************************************************)
EXTENDS SafetyRules

CONSTANTS Clients,        \* HTTP requests that ask for a refresh
          Loop,           \* the goroutine of Poller.Run
          Configs,        \* the configurations a user may save
          InitConfig,     \* the one the process starts with
          StoredThresholds, \* numbers a PUT may store in place
          Device,         \* Device[u]: the readings the device at u may return
          FetchTimeout,   \* http.Client.Timeout: 10 s
          MaxPoll,        \* largest POLL_INTERVAL_SECONDS, in time units
          MaxStale,       \* largest STALE_AFTER_SECONDS, in time units
          ClockSteps,     \* the adjustments the wall clock may see
          MaxAhead,       \* bound: largest wall - now
          MaxBehind,      \* bound: largest now - wall
          MaxTime         \* bound: the clock stops here

ASSUME AgentAssumption == /\ Loop \notin Clients
                          /\ None \notin Clients \cup {Loop}
ASSUME ConfigAssumption ==
  /\ InitConfig \in Configs
  /\ \A c \in Configs : /\ c \in Config
                        /\ Valid(c)
                        /\ c.poll * Second <= MaxPoll
                        /\ c.stale * Second <= MaxStale
(* What json.Unmarshal stores in place is a number; validate looks at none *)
(* of the thresholds, so a configuration stays one.                        *)
ASSUME StoreAssumption ==
  /\ StoredThresholds \subseteq Int
  /\ \A c \in Configs, n \in StoredThresholds :
       \A t \in Pointed(c) : [c EXCEPT ![t] = n] \in Configs
(* json.Decode fills a struct; it never returns none.                      *)
ASSUME DeviceAssumption == \A u \in URLs : Device[u] \subseteq Reading \ {None}
ASSUME TimeAssumption == /\ FetchTimeout \in Nat
                         /\ MaxPoll \in Nat
                         /\ MaxStale \in Nat
                         /\ MaxAhead \in Nat
                         /\ MaxBehind \in Nat
                         /\ MaxTime \in Nat
                         /\ ClockSteps \subseteq Int

VARIABLES
  now,        \* real time
  wall,       \* the wall clock
  cfg,        \* config.Holder.cfg
  connected,  \* state.Holder.connected
  ev,         \* state.Holder.ev
  mu,         \* who holds Poller.mu, or None
  poller,     \* the fields of Poller that mu protects
  local,      \* the local variables of each goroutine's doPoll
  pc,         \* where each goroutine is
  tick,       \* a tick waits in the ticker's channel
  nextTick,   \* when the ticker fires next; None before it exists
  ctxDone,    \* the context of Poller.Run is cancelled
  ghost       \* history: what happened when in real time; never read

clock == <<now, wall>>
shared == <<cfg, connected>>
ticker == <<tick, nextTick>>
vars == <<clock, shared, ev, mu, poller, local, pc, ticker, ctxDone, ghost>>

Agents == Clients \cup {Loop}

(* "lock": PollNow is waiting for the mutex; "fetch": the HTTP request to  *)
(* the device; "publish": the fetch has been answered.                     *)
ClientPC == {"idle", "lock", "fetch", "publish"}
LoopPC == {"select", "lock", "fetch", "publish", "stopped"}

InPoll(a) == pc[a] \in {"fetch", "publish"}

PollerFields == [url : URLs, lastPoll : Optional(Int), hasData : BOOLEAN,
                 sensors : Optional(Reading), lastSuccess : Optional(Int),
                 lastError : BOOLEAN]

(* cfg, at ("now" in the code) and connected are what doPoll holds on to;  *)
(* start is the real time at which the poll began.  cfg is a pointer to a  *)
(* struct nobody writes, but its thresholds point to numbers: those in     *)
(* shares are the live configuration's as well, so that storing one stores *)
(* the other.                                                              *)
Locals == [cfg : Configs, shares : SUBSET Thresholds, at : Int, start : Int,
           connected : BOOLEAN]

(* begun, success: start of the last poll, of the last one that succeeded. *)
(* pubCfg, pubStart, pubAt, basis: of the published verdict, the           *)
(* configuration, the start and the end of its poll, and "success" as it   *)
(* was then.  cfgAt: when the configuration, or that of a poll, last       *)
(* changed.                                                                *)
Ghost == [begun : Int, success : Int, pubCfg : Configs, pubStart : Int,
          pubAt : Int, basis : Int, cfgAt : Int]

(* Outside doPoll there are no such variables: any value will do.          *)
NoLocals == [cfg |-> InitConfig, shares |-> {}, at |-> 0, start |-> 0,
             connected |-> FALSE]

-----------------------------------------------------------------------------
Init ==
  /\ now = 0
  /\ wall = 0
  /\ cfg = InitConfig
  /\ connected \in BOOLEAN       \* CONNECTED_ON_STARTUP
  /\ ev = InitialState
  /\ mu = None
  /\ poller = [url |-> InitConfig.url, lastPoll |-> None, hasData |-> FALSE,
               sensors |-> None, lastSuccess |-> None, lastError |-> FALSE]
  /\ local = [a \in Agents |-> NoLocals]
  /\ pc = [a \in Agents |-> IF a = Loop THEN "lock" ELSE "idle"]
  /\ tick = FALSE
  /\ nextTick = None
  /\ ctxDone = FALSE
  /\ ghost = [begun |-> 0, success |-> 0, pubCfg |-> InitConfig,
              pubStart |-> 0, pubAt |-> 0, basis |-> 0, cfgAt |-> 0]

-----------------------------------------------------------------------------
(* Time *)

(* Mutant: the loop's fetch does not end when the context does.            *)
Runnable_NoContext ==
  \/ pc[Loop] = "select" /\ (tick \/ ctxDone)
  \/ \E a \in Agents : \/ pc[a] = "lock" /\ mu = None
                       \/ pc[a] = "publish"
                       \/ /\ pc[a] = "fetch"
                          /\ now >= local[a].start + FetchTimeout

(* Some goroutine has a step to take that waits for nothing.               *)
Runnable ==
  \/ pc[Loop] = "select" /\ (tick \/ ctxDone)
  \/ pc[Loop] = "fetch" /\ ctxDone
  \/ \E a \in Agents : \/ pc[a] = "lock" /\ mu = None
                       \/ pc[a] = "publish"
                       \/ /\ pc[a] = "fetch"
                          /\ now >= local[a].start + FetchTimeout

(* Real time passes.  The ticker drops a tick nobody has received yet.     *)
Tick ==
  /\ ~Runnable
  /\ now < MaxTime
  /\ now' = now + 1
  /\ wall' = wall + 1
  /\ IF nextTick = now + 1
       THEN /\ tick' = TRUE
            /\ nextTick' = nextTick + Second
       ELSE UNCHANGED ticker
  /\ UNCHANGED <<shared, ev, mu, poller, local, pc, ctxDone, ghost>>

(* A reading of the wall clock and the real time it was read at.           *)
Apart(read, real) == read - real \in -MaxBehind..MaxAhead

(* The operator or NTP moves the system clock, forward or back.            *)
ClockStep(d) ==
  /\ Apart(wall + d, now)
  /\ wall' = wall + d
  /\ UNCHANGED <<now, shared, ev, mu, poller, local, pc, ticker, ctxDone,
                 ghost>>

-----------------------------------------------------------------------------
(* Poller.Run and the callers of PollNow *)

(* Mutant: an interval must be exceeded, not reached.                      *)
Due_Exceeded == \/ poller.lastPoll = None
                \/ wall - poller.lastPoll > Duration(cfg.poll)

(* Is the next scheduled poll due?  Read without the mutex.                *)
Due == \/ poller.lastPoll = None
       \/ wall - poller.lastPoll >= Duration(cfg.poll)

(* case <-ticker.C                                                         *)
LoopTick ==
  /\ pc[Loop] = "select"
  /\ tick
  /\ tick' = FALSE
  /\ pc' = IF Due THEN [pc EXCEPT ![Loop] = "lock"] ELSE pc
  /\ UNCHANGED <<clock, shared, ev, mu, poller, local, nextTick, ctxDone,
                 ghost>>

(* case <-ctx.Done(): Run returns and stops its ticker                     *)
LoopStop ==
  /\ pc[Loop] = "select"
  /\ ctxDone
  /\ pc' = [pc EXCEPT ![Loop] = "stopped"]
  /\ tick' = FALSE
  /\ nextTick' = None
  /\ UNCHANGED <<clock, shared, ev, mu, poller, local, ctxDone, ghost>>

(* A request handler calls PollNow.                                        *)
CallPollNow(c) ==
  /\ pc[c] = "idle"
  /\ pc' = [pc EXCEPT ![c] = "lock"]
  /\ UNCHANGED <<clock, shared, ev, mu, poller, local, ticker, ctxDone,
                 ghost>>

-----------------------------------------------------------------------------
(* Poller.PollNow and doPoll *)

(* Mutant: doPoll without the mutex.                                       *)
PollBegin_NoLock(a) ==
  /\ pc[a] = "lock"
  /\ mu' = a
  /\ pc' = [pc EXCEPT ![a] = "fetch"]
  /\ local' = [local EXCEPT ![a] = [cfg |-> cfg, shares |-> Pointed(cfg),
                                    at |-> wall, start |-> now,
                                    connected |-> FALSE]]
  /\ poller' = [poller EXCEPT !.url = cfg.url, !.lastPoll = wall]
  /\ ghost' = [ghost EXCEPT !.begun = now]
  /\ UNCHANGED <<clock, shared, ev, ticker, ctxDone>>

(* Mutant: the configuration is the one Poller was created with.           *)
PollBegin_ConfigOnce(a) ==
  /\ pc[a] = "lock"
  /\ mu = None
  /\ mu' = a
  /\ pc' = [pc EXCEPT ![a] = "fetch"]
  /\ local' = [local EXCEPT ![a] = [cfg |-> InitConfig, shares |-> {},
                                    at |-> wall, start |-> now,
                                    connected |-> FALSE]]
  /\ poller' = [poller EXCEPT !.lastPoll = wall]
  /\ ghost' = [ghost EXCEPT !.begun = now]
  /\ UNCHANGED <<clock, shared, ev, ticker, ctxDone>>

(* Mutant: the client is not rebuilt when the URL has changed.             *)
PollBegin_OldURL(a) ==
  /\ pc[a] = "lock"
  /\ mu = None
  /\ mu' = a
  /\ pc' = [pc EXCEPT ![a] = "fetch"]
  /\ local' = [local EXCEPT ![a] = [cfg |-> cfg, shares |-> Pointed(cfg),
                                    at |-> wall, start |-> now,
                                    connected |-> FALSE]]
  /\ poller' = [poller EXCEPT !.lastPoll = wall]
  /\ ghost' = [ghost EXCEPT !.begun = now]
  /\ UNCHANGED <<clock, shared, ev, ticker, ctxDone>>

PollBegin(a) ==
  /\ pc[a] = "lock"
  /\ mu = None
  /\ mu' = a
  /\ pc' = [pc EXCEPT ![a] = "fetch"]
  /\ local' = [local EXCEPT ![a] = [cfg |-> cfg, shares |-> Pointed(cfg),
                                    at |-> wall, start |-> now,
                                    connected |-> FALSE]]
  /\ poller' = [poller EXCEPT !.url = cfg.url, !.lastPoll = wall]
  /\ ghost' = [ghost EXCEPT !.begun = now]
  /\ UNCHANGED <<clock, shared, ev, ticker, ctxDone>>

(* Mutant: the time of success is taken when the answer arrives.           *)
FetchOk_StampedLate(a) ==
  /\ pc[a] = "fetch"
  /\ ~(a = Loop /\ ctxDone)
  /\ \E r \in Device[poller.url] :
       poller' = [poller EXCEPT !.lastError = FALSE, !.hasData = TRUE,
                                !.sensors = r, !.lastSuccess = wall]
  /\ pc' = [pc EXCEPT ![a] = "publish"]
  /\ local' = [local EXCEPT ![a].connected = connected]
  /\ ghost' = [ghost EXCEPT !.success = local[a].start]
  /\ UNCHANGED <<clock, shared, ev, mu, ticker, ctxDone>>

(* The device answers 200 with a JSON body within the timeout.  Run's own  *)
(* poll uses Run's context, so it cannot succeed once that is cancelled.   *)
FetchOk(a) ==
  /\ pc[a] = "fetch"
  /\ ~(a = Loop /\ ctxDone)
  /\ \E r \in Device[poller.url] :
       poller' = [poller EXCEPT !.lastError = FALSE, !.hasData = TRUE,
                                !.sensors = r, !.lastSuccess = local[a].at]
  /\ pc' = [pc EXCEPT ![a] = "publish"]
  /\ local' = [local EXCEPT ![a].connected = connected]
  /\ ghost' = [ghost EXCEPT !.success = local[a].start]
  /\ UNCHANGED <<clock, shared, ev, mu, ticker, ctxDone>>

(* The request fails: no connection, a status other than 200, no JSON, the *)
(* timeout, or the caller's context is cancelled.                          *)
FetchFail(a) ==
  /\ pc[a] = "fetch"
  /\ poller' = [poller EXCEPT !.lastError = TRUE]
  /\ pc' = [pc EXCEPT ![a] = "publish"]
  /\ local' = [local EXCEPT ![a].connected = connected]
  /\ UNCHANGED <<clock, shared, ev, mu, ticker, ctxDone, ghost>>

(* safety.Input as doPoll fills it.                                        *)
PollInput(a) ==
  [connected |-> local[a].connected, hasData |-> poller.hasData,
   sensors |-> poller.sensors, lastSuccess |-> poller.lastSuccess,
   lastPoll |-> local[a].at, lastError |-> poller.lastError]

(* Mutant: a failed poll returns without unlocking.                        *)
Publish_LeaksLock(a) ==
  /\ pc[a] = "publish"
  /\ ev' = Evaluate(local[a].cfg, PollInput(a), wall)
  /\ mu' = IF poller.lastError THEN mu ELSE None
  /\ pc' = [pc EXCEPT ![a] = IF a = Loop THEN "select" ELSE "idle"]
  /\ nextTick' = IF a = Loop /\ nextTick = None THEN now + Second
                                                ELSE nextTick
  /\ UNCHANGED <<clock, shared, poller, local, tick, ctxDone, ghost>>

(* Mutant: a failed poll is tried again at once.                           *)
Publish_Retries(a) ==
  /\ pc[a] = "publish"
  /\ ev' = Evaluate(local[a].cfg, PollInput(a), wall)
  /\ mu' = None
  /\ pc' = [pc EXCEPT ![a] = IF poller.lastError THEN "lock"
                             ELSE IF a = Loop THEN "select" ELSE "idle"]
  /\ nextTick' = IF a = Loop /\ nextTick = None THEN now + Second
                                                ELSE nextTick
  /\ local' = [local EXCEPT ![a] = NoLocals]
  /\ UNCHANGED <<clock, shared, poller, tick, ctxDone, ghost>>

(* Mutant: the configuration is looked up again after the fetch.           *)
Publish_LiveConfig(a) ==
  /\ pc[a] = "publish"
  /\ ev' = Evaluate(cfg, PollInput(a), wall)
  /\ mu' = None
  /\ pc' = [pc EXCEPT ![a] = IF a = Loop THEN "select" ELSE "idle"]
  /\ nextTick' = IF a = Loop /\ nextTick = None THEN now + Second
                                                ELSE nextTick
  /\ ghost' = [ghost EXCEPT !.pubCfg = local[a].cfg, !.pubAt = now,
                            !.pubStart = local[a].start,
                            !.basis = ghost.success]
  /\ local' = [local EXCEPT ![a] = NoLocals]
  /\ UNCHANGED <<clock, shared, poller, tick, ctxDone>>

(* Evaluate, Update, and the deferred Unlock.  After its first poll Run    *)
(* creates its ticker.                                                     *)
Publish(a) ==
  /\ pc[a] = "publish"
  /\ ev' = Evaluate(local[a].cfg, PollInput(a), wall)
  /\ mu' = None
  /\ pc' = [pc EXCEPT ![a] = IF a = Loop THEN "select" ELSE "idle"]
  /\ nextTick' = IF a = Loop /\ nextTick = None THEN now + Second
                                                ELSE nextTick
  /\ ghost' = [ghost EXCEPT !.pubCfg = local[a].cfg, !.pubAt = now,
                            !.pubStart = local[a].start,
                            !.basis = ghost.success]
  /\ local' = [local EXCEPT ![a] = NoLocals]
  /\ UNCHANGED <<clock, shared, poller, tick, ctxDone>>

-----------------------------------------------------------------------------
(* The rest of the process, as the poller sees it *)

(* state.Holder.SetConnected, called by the Alpaca handlers.               *)
SetConnected(v) ==
  /\ connected' = v
  /\ UNCHANGED <<clock, cfg, ev, mu, poller, local, pc, ticker, ctxDone,
                 ghost>>

(* The swap that ends config.Holder.Update.  The new struct began as a     *)
(* copy of the one that was live when the request came in, which may be    *)
(* that of the poll under way: it shares with it the thresholds that the   *)
(* request has not given variables of their own (a form gives each one     *)
(* that it fills in, JSON those that were nil).                            *)
SaveConfig(c) ==
  /\ cfg' = c
  /\ IF mu = None
       THEN UNCHANGED local
       ELSE \E kept \in SUBSET {t \in Pointed(c) : c[t] = local[mu].cfg[t]} :
              local' = [local EXCEPT ![mu].shares = kept]
  /\ ghost' = [ghost EXCEPT !.cfgAt = IF c = cfg THEN @ ELSE now]
  /\ UNCHANGED <<clock, connected, ev, mu, poller, pc, ticker, ctxDone>>

(* A PUT of the configuration, refused later or not: json.Unmarshal into   *)
(* its copy stores a threshold through the pointer of the configuration    *)
(* copied, which is the live one or, if another save has swapped since,    *)
(* that of the poll under way.                                             *)
StoreThreshold(t, n) ==
  /\ \/ /\ t \in Pointed(cfg)
        /\ cfg' = [cfg EXCEPT ![t] = n]
        /\ local' = IF mu # None /\ t \in local[mu].shares
                      THEN [local EXCEPT ![mu].cfg[t] = n] ELSE local
     \/ /\ mu # None
        /\ t \in Pointed(local[mu].cfg) \ local[mu].shares
        /\ cfg' = cfg
        /\ local' = [local EXCEPT ![mu].cfg[t] = n]
  /\ ghost' = [ghost EXCEPT !.cfgAt =
                  IF UNCHANGED <<cfg, local>> THEN @ ELSE now]
  /\ UNCHANGED <<clock, connected, ev, mu, poller, pc, ticker, ctxDone>>

(* The service is asked to stop: the context of Run is cancelled.          *)
Cancel ==
  /\ ~ctxDone
  /\ ctxDone' = TRUE
  /\ UNCHANGED <<clock, shared, ev, mu, poller, local, pc, ticker, ghost>>

-----------------------------------------------------------------------------
PollStep(a) == PollBegin(a) \/ FetchOk(a) \/ FetchFail(a) \/ Publish(a)

PutInPlace ==
  \E t \in Thresholds : \E n \in StoredThresholds : StoreThreshold(t, n)

Outside ==
  \/ \E d \in ClockSteps : ClockStep(d)
  \/ \E v \in BOOLEAN : SetConnected(v)
  \/ \E c \in Configs : SaveConfig(c)

Environment == Tick \/ Outside \/ Cancel

Next ==
  \/ Environment
  \/ PutInPlace
  \/ LoopTick
  \/ LoopStop
  \/ \E c \in Clients : CallPollNow(c)
  \/ \E a \in Agents : PollStep(a)

Spec == Init /\ [][Next]_vars

(* A fetch ends (the HTTP client has a timeout) and what follows it takes  *)
(* no lock but the short ones.  sync.Mutex hands itself to a goroutine     *)
(* that has waited for more than 1 ms, so no caller of PollNow starves.    *)
(* A select with two ready cases takes one at random, so Run cannot miss   *)
(* ctx.Done for ever.                                                      *)
Fairness ==
  /\ WF_vars(LoopTick)
  /\ SF_vars(LoopStop)
  /\ \A a \in Agents : /\ SF_vars(PollBegin(a))
                       /\ WF_vars(FetchOk(a) \/ FetchFail(a))
                       /\ WF_vars(Publish(a))

FairSpec == Spec /\ Fairness

-----------------------------------------------------------------------------
(* Properties *)

(* Every variable keeps its type, what a poll shares it has, and the mutex *)
(* and the program counters agree: whoever is inside doPoll holds          *)
(* Poller.mu.                                                              *)
TypeOK ==
  /\ now \in Nat
  /\ wall \in Int
  /\ cfg \in Configs
  /\ connected \in BOOLEAN
  /\ ev \in EvaluatedState
  /\ mu \in Optional(Agents)
  /\ poller \in PollerFields
  /\ local \in [Agents -> Locals]
  /\ \A a \in Agents : local[a].shares \subseteq Pointed(local[a].cfg)
  /\ pc \in [Agents -> ClientPC \cup LoopPC]
  /\ pc[Loop] \in LoopPC
  /\ \A c \in Clients : pc[c] \in ClientPC
  /\ \A a \in Agents : InPoll(a) <=> mu = a
  /\ tick \in BOOLEAN
  /\ nextTick \in Optional(Int)
  /\ ctxDone \in BOOLEAN
  /\ ghost \in Ghost

(* However refreshes, overrunning fetches and dropped ticks fall, two      *)
(* verdicts are never further apart than one interval plus a tick period,  *)
(* the time of the fetch aside (poller.go: Run's ticker and PollNow's      *)
(* shared time stamp).  A wall clock that is set back delays the next poll *)
(* by as much, once: by its range, however often it is moved.              *)
Setback == IF ClockSteps \subseteq Nat THEN 0 ELSE MaxAhead + MaxBehind

Cadence == Second - 1 + MaxPoll + Setback

PollsKeepComing ==
  ~ctxDone => /\ mu = None => now <= ghost.pubAt + Cadence
              /\ mu # None => now <= ghost.pubAt + Cadence + FetchTimeout

(* A verdict "safe" that clients can read, unless forced by the override,  *)
(* never rests on a reading requested longer ago than the stale threshold  *)
(* plus the time a next verdict may take.  A clock that is set back makes  *)
(* the reading look as much younger, and delays the next verdict.          *)
VerdictFresh ==
  /\ ~ctxDone
  /\ ev.isSafe
  /\ ev.raw # None
  /\ "force_safe" \notin ev.warnings
  => now - ghost.basis <= MaxStale + Setback + Cadence + FetchTimeout

(* A configuration saved, or changed in place, decides the verdict clients *)
(* read after at most the poll that was under way, one interval and one    *)
(* more poll.                                                              *)
ConfigAdopted ==
  /\ ~ctxDone
  /\ ghost.pubCfg # cfg
  => now <= ghost.cfgAt + Cadence + 2 * FetchTimeout

(* A verdict without an error text comes from its own poll: its reading is *)
(* from the device at the URL of the configuration it was judged by, and   *)
(* was received by the poll its time stamp names (poller.go 82-105).       *)
CleanVerdictIsCurrent ==
  /\ ev.lastPoll # None
  /\ ~ev.lastError
  => /\ ev.lastSuccess = ev.lastPoll
     /\ ev.raw \in Device[ghost.pubCfg.url]

(* No schedule of polls, saves and reconnections makes a verdict "safe"    *)
(* before a first reading, unless the configuration its poll began with    *)
(* said FAIL_CLOSED=false.                                                 *)
SafeIsJustified == ev.isSafe /\ ev.raw = None => ~ghost.pubCfg.failClosed

(* Verdicts are published in the order of their polls: a slow poll never   *)
(* overwrites the verdict of a later one, nor goes back to older data.     *)
PublishInOrder == [][/\ ghost'.pubStart >= ghost.pubStart
                     /\ ghost'.basis >= ghost.basis]_vars

(* Every refresh returns, however many queue for the poller's mutex.       *)
RefreshReturns == \A c \in Clients : pc[c] = "lock" ~> pc[c] = "idle"

(* Once its context is cancelled Run returns, even from a queue of         *)
(* refreshes or with a tick always ready.                                  *)
LoopStops == ctxDone ~> pc[Loop] = "stopped"

(* Whatever goroutines poll, they do it as if there were one poll at a     *)
(* time and nothing else: Poller implements SafetyPromise (poller.go       *)
(* 71-122).  The poll under way is that of the goroutine with the mutex;   *)
(* the configuration it judges by is the one it began with in every field  *)
(* but the numbers its thresholds point to, which are read when it judges. *)
Promise == INSTANCE SafetyPromise WITH
  Alike <- Alike,
  FirstVerdict <- InitialState,
  Judge <- Evaluate,
  verdict <- ev,
  poll <- IF mu = None
          THEN [cfg |-> None, at |-> None, connected |-> FALSE,
                stage |-> "idle"]
          ELSE [cfg |-> local[mu].cfg, at |-> local[mu].at,
                connected |-> local[mu].connected, stage |-> pc[mu]],
  evidence <- [reading |-> poller.sensors, at |-> poller.lastSuccess,
               failed |-> poller.lastError]

KeepsPromise == Promise!Spec

-----------------------------------------------------------------------------
(* Why the properties above hold: together with TypeOK, Clockwork is       *)
(* inductive (module PollerProofs).                                        *)

(* What happened, happened in this order.                                  *)
EventOrder ==
  /\ ghost.pubStart <= ghost.pubAt /\ ghost.pubAt <= now
  /\ ghost.pubAt <= ghost.pubStart + FetchTimeout
  /\ ghost.pubStart <= ghost.begun /\ ghost.begun <= now
  /\ ghost.basis <= ghost.success /\ ghost.success <= ghost.begun
  /\ ghost.cfgAt <= now

(* A poll under way is the last one begun and has not timed out; with none *)
(* under way the last one begun has published.                             *)
MutexOrder ==
  /\ mu = None => ghost.begun <= ghost.pubAt
  /\ mu # None => /\ local[mu].start = ghost.begun
                  /\ now <= ghost.begun + FetchTimeout

(* While Run waits for its ticker, the next tick comes early enough.       *)
TickInTime ==
  /\ nextTick # None => now < nextTick /\ nextTick <= now + Second
  /\ pc[Loop] = "select" => nextTick # None
  /\ pc[Loop] = "stopped" => ctxDone
  /\ ~ctxDone /\ pc[Loop] = "select" /\ ~tick =>
       \/ nextTick <= ghost.begun + Cadence
       \/ nextTick <= ghost.pubAt + Cadence

NextPollInTime ==
  ~ctxDone => /\ mu = None => now <= ghost.pubAt + Cadence
              /\ mu # None => ghost.begun <= ghost.pubAt + Cadence

(* Every time stamp was read from a clock within its range.                *)
StampsInRange ==
  /\ Apart(wall, now)
  /\ poller.lastPoll # None => Apart(poller.lastPoll, ghost.begun)
  /\ poller.lastSuccess # None => Apart(poller.lastSuccess, ghost.success)
  /\ mu # None => Apart(local[mu].at, local[mu].start)

(* The wall clock underestimates an age by no more than it was set back.   *)
AgesInRange ==
  /\ poller.lastPoll # None =>
       now - ghost.begun <= wall - poller.lastPoll + Setback
  /\ poller.lastSuccess # None =>
       now - ghost.success <= wall - poller.lastSuccess + Setback
  /\ mu # None => now - local[mu].start <= wall - local[mu].at + Setback
  /\ poller.sensors # None => poller.hasData /\ poller.lastSuccess # None

(* The two verdicts that could still rest on the previous configuration.   *)
ConfigLag ==
  /\ ghost.pubCfg # cfg => ghost.pubStart <= ghost.cfgAt
  /\ mu # None /\ local[mu].cfg # cfg => local[mu].start <= ghost.cfgAt

FreshWhenPublished ==
  ev.isSafe /\ ev.raw # None /\ "force_safe" \notin ev.warnings
    => ghost.pubAt - ghost.basis <= MaxStale + Setback

Clockwork == /\ EventOrder
             /\ MutexOrder
             /\ TickInTime
             /\ NextPollInTime
             /\ StampsInRange
             /\ AgesInRange
             /\ ConfigLag
             /\ FreshWhenPublished

-----------------------------------------------------------------------------
(* The same for the properties that do not depend on time: PollOrder, the  *)
(* bookkeeping of doPoll, is inductive together with TypeOK.               *)

(* A poll judges by the configuration whose URL it asked, and what it has  *)
(* fetched without an error is its own; a reading once had is never lost.  *)
(* A threshold shared with the live configuration has one value.           *)
PollOrder ==
  /\ ghost.basis <= ghost.success /\ ghost.success <= ghost.begun
  /\ ghost.pubStart <= ghost.begun /\ ghost.begun <= now
  /\ mu # None => /\ local[mu].start = ghost.begun
                  /\ poller.url = local[mu].cfg.url
                  /\ \A t \in local[mu].shares : local[mu].cfg[t] = cfg[t]
                  /\ pc[mu] = "publish" /\ ~poller.lastError =>
                       /\ poller.lastSuccess = local[mu].at
                       /\ poller.sensors \in Device[poller.url]
  /\ poller.hasData <=> poller.sensors # None
=============================================================================
