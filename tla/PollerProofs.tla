---------------------------- MODULE PollerProofs ----------------------------
(***************************************************************************)
(* Proofs about SafetyRules and Poller, for every set of clients, devices  *)
(* and configurations and every bound: the verdict has its type, verdicts  *)
(* are published in order and, within what the wall clock is set back by,  *)
(* keep coming, are fresh, and follow the saved configuration.             *)
(***************************************************************************)
EXTENDS Poller, TLAPS

-----------------------------------------------------------------------------
(* The rules *)

LEMMA Modulo ==
  ASSUME NEW x \in Nat, NEW m \in Nat \ {0}
  PROVE  x % m \in Int /\ x % m <= x
  BY SMT

(* Overflow of time.Duration can only make an interval or a threshold      *)
(* shorter, never longer.                                                  *)
LEMMA DurationBound ==
  ASSUME NEW n \in Nat
  PROVE  Duration(n) \in Int /\ Duration(n) <= n * Second
<1>1. n * Second + DurationLimit \in Nat /\ 2 * DurationLimit \in Nat \ {0}
  BY DurationAssumption
<1> QED
  BY <1>1, Modulo, DurationAssumption DEF Duration

LEMMA EvaluateType ==
  ASSUME NEW c \in Config, NEW in \in Input, NEW clk \in Int
  PROVE  Evaluate(c, in, clk) \in EvaluatedState
<1>1. WarningsFor(c, in) \subseteq Warnings
  BY DEF WarningsFor, Warnings
<1>2. ASSUME Stage(c, in) = "rules"
      PROVE  ValuesOf(in.sensors) \in Values
  <2>1. in.sensors \in Reading
    BY <1>2 DEF Stage, Input, Optional, Config, Overrides
  <2> QED
    BY <2>1 DEF ValuesOf, Values, Reading
<1>3. ZeroValues \in Values
  BY DEF ZeroValues, Values
<1> QED
  BY <1>1, <1>2, <1>3 DEF Evaluate, EvaluatedState, Input, ReasonsFor

(* What a "safe" that no override forced says about the age of its data.   *)
LEMMA SafeIsNotStale ==
  ASSUME NEW c \in Config, NEW in \in Input, NEW clk \in Int,
         in.sensors # None => in.hasData,
         Evaluate(c, in, clk).isSafe,
         Evaluate(c, in, clk).raw # None,
         "force_safe" \notin Evaluate(c, in, clk).warnings,
         in.lastSuccess # None
  PROVE  ~(clk - in.lastSuccess > Duration(c.stale))
<1>1. \A why \in Reasons : ~Gives(c, in, clk, why)
  BY DEF Evaluate, ReasonsFor
<1>2. in.sensors # None /\ in.hasData
  BY DEF Evaluate
<1>3. Stage(c, in) # "force_safe"
  BY <1>2 DEF Evaluate, WarningsFor
<1>4. Stage(c, in) \in {"disconnected", "force_unsafe", "rules"}
  BY <1>2, <1>3 DEF Stage, Config, Overrides
<1>5. Stage(c, in) = "rules"
  BY <1>1, <1>4 DEF Gives, Reasons
<1> QED
  BY <1>1, <1>5 DEF Gives, Reasons, Stale

-----------------------------------------------------------------------------
(* Types and mutual exclusion *)

(* What every configuration the poller can see satisfies.                  *)
LEMMA ConfigFacts ==
  ASSUME NEW c \in Configs
  PROVE  /\ c \in Config
         /\ c.url \in URLs
         /\ c.poll \in Nat /\ Duration(c.poll) \in Int
         /\ Duration(c.poll) <= MaxPoll
         /\ c.stale \in Nat /\ Duration(c.stale) \in Int
         /\ Duration(c.stale) <= MaxStale
<1>1. /\ c \in Config /\ Valid(c)
      /\ c.poll * Second <= MaxPoll /\ c.stale * Second <= MaxStale
  BY ConfigAssumption
<1>2. c.url \in URLs
  BY <1>1 DEF Config, Valid
<1>3. c.poll \in Nat /\ c.stale \in Nat
  BY <1>1 DEF Config, Valid
<1>4. c.poll * Second \in Int /\ c.stale * Second \in Int
  BY <1>3, DurationAssumption
<1>5. Duration(c.poll) \in Int /\ Duration(c.poll) <= c.poll * Second
  BY <1>3, DurationBound
<1>6. Duration(c.stale) \in Int /\ Duration(c.stale) <= c.stale * Second
  BY <1>3, DurationBound
<1> QED
  BY <1>1, <1>2, <1>3, <1>4, <1>5, <1>6, TimeAssumption

LEMMA InitialStateType == InitialState \in EvaluatedState
<1>1. ZeroValues \in Values
  BY DEF ZeroValues, Values
<1> QED
  BY <1>1 DEF InitialState, EvaluatedState, Optional

LEMMA PollInputType ==
  ASSUME TypeOK, NEW a \in Agents
  PROVE  PollInput(a) \in Input
<1>1. poller \in PollerFields /\ local[a] \in Locals
  BY DEF TypeOK
<1> QED
  BY <1>1 DEF PollInput, PollerFields, Locals, Input, Optional

LEMMA NoLocalsType == NoLocals \in Locals
<1>1. InitConfig \in Configs
  BY ConfigAssumption
<1> QED
  BY <1>1 DEF NoLocals, Locals

Stored(c, t, n) == [c EXCEPT ![t] = n]

(* A number stored in place leaves a configuration that differs in nothing *)
(* else.                                                                   *)
LEMMA StoredConfig ==
  ASSUME NEW c \in Configs, NEW t \in Pointed(c), NEW n \in StoredThresholds
  PROVE  /\ Stored(c, t, n) \in Configs
         /\ Alike(c, Stored(c, t, n))
         /\ Stored(c, t, n).url = c.url
         /\ Stored(c, t, n)[t] = n
         /\ \A s \in Thresholds \ {t} : Stored(c, t, n)[s] = c[s]
<1> DEFINE d == Stored(c, t, n)
<1>1. c \in Config /\ t \in Thresholds /\ c[t] # None /\ n \in Int
  BY ConfigAssumption, StoreAssumption DEF Pointed
<1>2. d \in Configs
  BY StoreAssumption DEF Stored
<1>3. Plain(d) = Plain(c)
  BY <1>1 DEF Config, Thresholds, Optional, Plain, Stored
<1>4. Pointed(d) = Pointed(c)
  BY <1>1, NoneAssumption DEF Config, Thresholds, Optional, Pointed, Stored
<1>5. /\ d.url = c.url
      /\ d[t] = n
      /\ \A s \in Thresholds \ {t} : d[s] = c[s]
  BY <1>1 DEF Config, Thresholds, Optional, Stored
<1> QED
  BY <1>2, <1>3, <1>4, <1>5 DEF Alike

(* A save leaves the poll under way its configuration.                     *)
LEMMA SaveEffect ==
  ASSUME TypeOK, NEW c \in Configs, SaveConfig(c)
  PROVE  /\ UNCHANGED <<now, wall, connected, ev, mu, poller, pc, tick,
                        nextTick, ctxDone>>
         /\ cfg' = c
         /\ local' \in [Agents -> Locals]
         /\ \A a \in Agents :
              /\ local'[a].cfg = local[a].cfg
              /\ local'[a].at = local[a].at
              /\ local'[a].start = local[a].start
              /\ local'[a].connected = local[a].connected
              /\ local'[a].shares \subseteq Pointed(local[a].cfg)
         /\ mu # None => \A t \in local'[mu].shares : local[mu].cfg[t] = c[t]
<1>1. /\ UNCHANGED <<now, wall, connected, ev, mu, poller, pc, tick,
                     nextTick, ctxDone>>
      /\ cfg' = c
  BY DEF SaveConfig, clock, ticker
<1>2. \A a \in Agents : local[a] \in Locals
                        /\ local[a].shares \subseteq Pointed(local[a].cfg)
  BY DEF TypeOK
<1>3. CASE mu = None
  BY <1>1, <1>2, <1>3 DEF SaveConfig, TypeOK
<1>4. CASE mu # None
  <2>1. mu \in Agents
    BY <1>4 DEF TypeOK, Optional
  <2>2. PICK kept \in SUBSET {t \in Pointed(c) : c[t] = local[mu].cfg[t]} :
          local' = [local EXCEPT ![mu].shares = kept]
    BY <1>4 DEF SaveConfig
  <2>3. /\ kept \subseteq Thresholds
        /\ kept \subseteq Pointed(local[mu].cfg)
        /\ \A t \in kept : local[mu].cfg[t] = c[t]
    BY <2>2 DEF Pointed
  <2>4. local' \in [Agents -> Locals]
    BY <1>2, <2>1, <2>2, <2>3 DEF TypeOK, Locals
  <2>5. /\ local'[mu] = [local[mu] EXCEPT !.shares = kept]
        /\ \A a \in Agents \ {mu} : local'[a] = local[a]
    BY <2>1, <2>2 DEF TypeOK
  <2> QED
    BY <1>1, <1>2, <2>1, <2>3, <2>4, <2>5 DEF Locals
<1> QED
  BY <1>3, <1>4

(* A threshold stored in place, in one configuration or in both.           *)
LEMMA StoreEffect ==
  ASSUME TypeOK, NEW t \in Thresholds, NEW n \in StoredThresholds,
         StoreThreshold(t, n)
  PROVE  /\ UNCHANGED <<now, wall, connected, ev, mu, poller, pc, tick,
                        nextTick, ctxDone>>
         /\ cfg' \in Configs /\ Alike(cfg, cfg') /\ cfg'.url = cfg.url
         /\ local' \in [Agents -> Locals]
         /\ \A a \in Agents :
              /\ Alike(local[a].cfg, local'[a].cfg)
              /\ local'[a].cfg.url = local[a].cfg.url
              /\ local'[a].at = local[a].at
              /\ local'[a].start = local[a].start
              /\ local'[a].connected = local[a].connected
              /\ local'[a].shares = local[a].shares
              /\ a # mu => local'[a] = local[a]
         /\ \/ UNCHANGED <<cfg, local, ghost>>
            \/ ghost' = [ghost EXCEPT !.cfgAt = now]
         /\ mu # None =>
              \A s \in local[mu].shares :
                local[mu].cfg[s] = cfg[s] => local'[mu].cfg[s] = cfg'[s]
<1>1. /\ UNCHANGED <<now, wall, connected, ev, mu, poller, pc, tick,
                     nextTick, ctxDone>>
  BY DEF StoreThreshold, clock, ticker
<1>2. \A a \in Agents : /\ local[a] \in Locals /\ local[a].cfg \in Configs
                        /\ local[a].shares \subseteq Pointed(local[a].cfg)
  BY DEF TypeOK, Locals
<1>3. cfg \in Configs
  BY DEF TypeOK
<1>4. \/ UNCHANGED <<cfg, local, ghost>>
      \/ ghost' = [ghost EXCEPT !.cfgAt = now]
  BY DEF StoreThreshold, TypeOK, Ghost
<1>5. /\ cfg' \in Configs /\ Alike(cfg, cfg') /\ cfg'.url = cfg.url
      /\ \A s \in Thresholds \ {t} : cfg'[s] = cfg[s]
  <2>1. CASE cfg' = cfg
    BY <1>3, <2>1 DEF Alike
  <2>2. CASE t \in Pointed(cfg) /\ cfg' = Stored(cfg, t, n)
    BY <1>3, <2>2, StoredConfig
  <2> QED
    BY <2>1, <2>2 DEF StoreThreshold, Stored
<1>6. CASE local' = local /\ (mu # None => t \notin local[mu].shares)
  <2>1. mu # None => mu \in Agents /\ local[mu].shares \subseteq Thresholds
    BY <1>2 DEF TypeOK, Optional, Pointed
  <2> QED
    BY <1>1, <1>2, <1>4, <1>5, <1>6, <2>1 DEF TypeOK, Alike
<1>7. CASE /\ mu # None /\ t \in Pointed(local[mu].cfg)
           /\ local' = [local EXCEPT ![mu].cfg = Stored(local[mu].cfg, t, n)]
           /\ \/ t \in local[mu].shares /\ cfg' = Stored(cfg, t, n)
                                        /\ t \in Pointed(cfg)
              \/ t \notin local[mu].shares /\ cfg' = cfg
  <2>1. mu \in Agents
    BY <1>7 DEF TypeOK, Optional
  <2> DEFINE d == Stored(local[mu].cfg, t, n)
  <2>2. /\ d \in Configs /\ Alike(local[mu].cfg, d)
        /\ d.url = local[mu].cfg.url /\ d[t] = n
        /\ \A s \in Thresholds \ {t} : d[s] = local[mu].cfg[s]
    BY <1>2, <1>7, <2>1, StoredConfig
  <2>3. /\ local'[mu] = [local[mu] EXCEPT !.cfg = d]
        /\ \A a \in Agents \ {mu} : local'[a] = local[a]
    BY <1>7, <2>1 DEF TypeOK
  <2>4. local[mu].shares \subseteq Thresholds
    BY <1>2, <2>1 DEF Pointed
  <2>5. local'[mu].cfg = d /\ local'[mu].shares = local[mu].shares
        /\ local'[mu].at = local[mu].at /\ local'[mu].start = local[mu].start
        /\ local'[mu].connected = local[mu].connected
    BY <1>2, <2>1, <2>3 DEF Locals
  <2>6. local' \in [Agents -> Locals]
    BY <1>2, <1>7, <2>1, <2>2 DEF TypeOK, Locals
  <2>7. t \in local[mu].shares => cfg'[t] = n
    BY <1>3, <1>7, StoredConfig
  <2>8. \A a \in Agents : Alike(local[a].cfg, local'[a].cfg)
    BY <2>2, <2>3, <2>5 DEF Alike
  <2> QED
    BY <1>1, <1>4, <1>5, <2>1, <2>2, <2>3, <2>4, <2>5, <2>6, <2>7, <2>8
<1> QED
  <2>1. mu # None /\ t \in local[mu].shares => t \in Pointed(local[mu].cfg)
    BY <1>2 DEF TypeOK, Optional
  <2> QED
    BY <1>6, <1>7, <2>1 DEF StoreThreshold, Stored

LEMMA TypeInit == Init => TypeOK
<1> SUFFICES ASSUME Init PROVE TypeOK
  OBVIOUS
<1>1. InitConfig \in Configs /\ InitConfig.url \in URLs
  BY ConfigAssumption, ConfigFacts
<1>2. /\ local \in [Agents -> Locals]
      /\ \A a \in Agents : local[a].shares \subseteq Pointed(local[a].cfg)
  BY NoLocalsType DEF Init, NoLocals
<1>3. poller \in PollerFields
  BY <1>1 DEF Init, PollerFields, Optional
<1>4. ghost \in Ghost
  BY <1>1 DEF Init, Ghost
<1>5. \A a \in Agents : InPoll(a) <=> mu = a
  BY AgentAssumption DEF Init, InPoll, Agents
<1>6. /\ pc \in [Agents -> ClientPC \cup LoopPC]
      /\ pc[Loop] \in LoopPC
      /\ \A c \in Clients : pc[c] \in ClientPC
  BY AgentAssumption DEF Init, Agents, ClientPC, LoopPC
<1>7. ev \in EvaluatedState
  BY InitialStateType DEF Init
<1>8. /\ mu \in Optional(Agents) /\ nextTick \in Optional(Int)
      /\ now \in Nat /\ wall \in Int /\ cfg \in Configs
  BY <1>1 DEF Init, Optional
<1>9. connected \in BOOLEAN /\ tick \in BOOLEAN /\ ctxDone \in BOOLEAN
  BY DEF Init
<1> QED
  BY <1>2, <1>3, <1>4, <1>5, <1>6, <1>7, <1>8, <1>9 DEF TypeOK

LEMMA TypeNext == TypeOK /\ [Next]_vars => TypeOK'
<1> SUFFICES ASSUME TypeOK, [Next]_vars PROVE TypeOK'
  OBVIOUS
<1> USE DEF TypeOK
<1>1. CASE Tick
  <2>1. now' \in Nat /\ wall' \in Int
    BY <1>1 DEF Tick
  <2>2. tick' \in BOOLEAN /\ nextTick' \in Optional(Int)
    <3>1. CASE nextTick = now + 1
      <4>1. nextTick + Second \in Int
        BY <3>1, DurationAssumption
      <4> QED
        BY <1>1, <3>1, <4>1 DEF Tick, Optional
    <3>2. CASE nextTick # now + 1
      BY <1>1, <3>2 DEF Tick, ticker
    <3> QED
      BY <3>1, <3>2
  <2> QED
    BY <1>1, <2>1, <2>2 DEF Tick, shared, InPoll
<1>2. ASSUME NEW d \in ClockSteps, ClockStep(d) PROVE TypeOK'
  BY <1>2, TimeAssumption DEF ClockStep, shared, ticker, InPoll
<1>3. ASSUME NEW v \in BOOLEAN, SetConnected(v) PROVE TypeOK'
  BY <1>3 DEF SetConnected, clock, ticker, InPoll
<1>4. ASSUME NEW c \in Configs, SaveConfig(c) PROVE TypeOK'
  <2>1. ghost' \in Ghost
    BY <1>4 DEF SaveConfig, Ghost
  <2>2. \A a \in Agents : local'[a].shares \subseteq Pointed(local'[a].cfg)
    BY <1>4, SaveEffect
  <2> QED
    BY <1>4, <2>1, <2>2, SaveEffect DEF InPoll
<1>13. ASSUME NEW t \in Thresholds, NEW n \in StoredThresholds,
              StoreThreshold(t, n)
       PROVE  TypeOK'
  <2>1. ghost' \in Ghost
    <3>1. ghost \in Ghost /\ now \in Int
      OBVIOUS
    <3>2. ghost' = ghost \/ ghost' = [ghost EXCEPT !.cfgAt = now]
      BY <1>13, StoreEffect
    <3> QED
      BY <3>1, <3>2 DEF Ghost
  <2>2. \A a \in Agents : local'[a].shares \subseteq Pointed(local'[a].cfg)
    BY <1>13, StoreEffect DEF Alike
  <2> QED
    BY <1>13, <2>1, <2>2, StoreEffect DEF InPoll
<1>5. CASE Cancel
  BY <1>5 DEF Cancel, clock, shared, ticker, InPoll
<1>6. CASE LoopTick
  <2>1. pc' = [pc EXCEPT ![Loop] = "lock"] \/ pc' = pc
    BY <1>6 DEF LoopTick
  <2> QED
    BY <1>6, <2>1, AgentAssumption
       DEF LoopTick, clock, shared, InPoll, Agents, LoopPC
<1>7. CASE LoopStop
  BY <1>7, AgentAssumption
     DEF LoopStop, clock, shared, InPoll, Agents, LoopPC, Optional
<1>8. ASSUME NEW c \in Clients, CallPollNow(c) PROVE TypeOK'
  BY <1>8, AgentAssumption
     DEF CallPollNow, clock, shared, ticker, InPoll, Agents, ClientPC
<1>9. ASSUME NEW a \in Agents, PollBegin(a) PROVE TypeOK'
  <2>1. cfg.url \in URLs
    BY ConfigFacts
  <2>2. poller' \in PollerFields
    BY <1>9, <2>1 DEF PollBegin, PollerFields, Optional
  <2>3. /\ local' \in [Agents -> Locals]
        /\ \A b \in Agents : local'[b].shares \subseteq Pointed(local'[b].cfg)
    <3>1. Pointed(cfg) \subseteq Thresholds
      BY DEF Pointed
    <3> QED
      BY <1>9, <3>1 DEF PollBegin, Locals
  <2>4. ghost' \in Ghost
    BY <1>9 DEF PollBegin, Ghost
  <2>5. /\ mu' \in Optional(Agents)
        /\ \A b \in Agents : InPoll(b)' <=> mu' = b
    BY <1>9, AgentAssumption DEF PollBegin, InPoll, Agents, Optional
  <2>6. /\ pc' \in [Agents -> ClientPC \cup LoopPC]
        /\ pc'[Loop] \in LoopPC
        /\ \A c \in Clients : pc'[c] \in ClientPC
    BY <1>9, AgentAssumption DEF PollBegin, Agents, ClientPC, LoopPC
  <2> QED
    BY <1>9, <2>2, <2>3, <2>4, <2>5, <2>6
       DEF PollBegin, clock, shared, ticker
<1>10. ASSUME NEW a \in Agents, FetchOk(a) \/ FetchFail(a) PROVE TypeOK'
  <2>1. poller' \in PollerFields
    <3>1. CASE FetchFail(a)
      BY <3>1 DEF FetchFail, PollerFields
    <3>2. CASE FetchOk(a)
      <4>1. PICK r \in Device[poller.url] :
              poller' = [poller EXCEPT !.lastError = FALSE, !.hasData = TRUE,
                           !.sensors = r, !.lastSuccess = local[a].at]
        BY <3>2 DEF FetchOk
      <4>2. r \in Reading /\ local[a].at \in Int
        BY DeviceAssumption DEF PollerFields, Locals
      <4> QED
        BY <4>1, <4>2 DEF PollerFields, Optional
    <3> QED
      BY <1>10, <3>1, <3>2
  <2>2. /\ local' \in [Agents -> Locals]
        /\ \A b \in Agents : local'[b].shares \subseteq Pointed(local'[b].cfg)
    <3>1. local' = [local EXCEPT ![a].connected = connected]
      BY <1>10 DEF FetchOk, FetchFail
    <3>2. local' \in [Agents -> Locals]
      BY <3>1 DEF Locals
    <3>3. \A b \in Agents : /\ local'[b].shares = local[b].shares
                            /\ local'[b].cfg = local[b].cfg
      BY <3>1 DEF Locals
    <3> QED
      BY <3>2, <3>3
  <2>3. ghost' \in Ghost
    BY <1>10 DEF FetchOk, FetchFail, Ghost, Locals
  <2>4. \A b \in Agents : InPoll(b)' <=> mu' = b
    BY <1>10 DEF FetchOk, FetchFail, InPoll
  <2>5. /\ pc' \in [Agents -> ClientPC \cup LoopPC]
        /\ pc'[Loop] \in LoopPC
        /\ \A c \in Clients : pc'[c] \in ClientPC
    BY <1>10, AgentAssumption
       DEF FetchOk, FetchFail, Agents, ClientPC, LoopPC
  <2> QED
    BY <1>10, <2>1, <2>2, <2>3, <2>4, <2>5
       DEF FetchOk, FetchFail, clock, shared, ticker
<1>11. ASSUME NEW a \in Agents, Publish(a) PROVE TypeOK'
  <2>1. ev' \in EvaluatedState
    <3>1. local[a].cfg \in Config
      BY ConfigFacts DEF Locals
    <3> QED
      BY <1>11, <3>1, PollInputType, EvaluateType DEF Publish
  <2>2. /\ local' \in [Agents -> Locals]
        /\ \A b \in Agents : local'[b].shares \subseteq Pointed(local'[b].cfg)
    BY <1>11, NoLocalsType DEF Publish, NoLocals
  <2>3. ghost' \in Ghost
    <3>1. local[a] \in Locals /\ now \in Int
      OBVIOUS
    <3> QED
      BY <1>11, <3>1 DEF Publish, Ghost, Locals
  <2>4. /\ mu' \in Optional(Agents)
        /\ \A b \in Agents : InPoll(b)' <=> mu' = b
    BY <1>11, AgentAssumption DEF Publish, InPoll, Agents, Optional
  <2>5. /\ pc' \in [Agents -> ClientPC \cup LoopPC]
        /\ pc'[Loop] \in LoopPC
        /\ \A c \in Clients : pc'[c] \in ClientPC
    BY <1>11, AgentAssumption DEF Publish, Agents, ClientPC, LoopPC
  <2>6. nextTick' \in Optional(Int)
    BY <1>11, DurationAssumption DEF Publish, Optional
  <2> QED
    BY <1>11, <2>1, <2>2, <2>3, <2>4, <2>5, <2>6 DEF Publish, clock, shared
<1>12. CASE UNCHANGED vars
  BY <1>12 DEF vars, clock, shared, ticker, InPoll
<1> QED
  BY <1>1, <1>2, <1>3, <1>4, <1>5, <1>6, <1>7, <1>8, <1>9, <1>10, <1>11,
     <1>12, <1>13 DEF Next, Environment, Outside, PutInPlace, PollStep

(* Types, and Poller.mu protects doPoll: at most one poll is under way.    *)
THEOREM TypeCorrect == Spec => []TypeOK
<1> QED
  BY TypeInit, TypeNext, PTL DEF Spec

-----------------------------------------------------------------------------
(* Time *)

LEMMA Bounds ==
  /\ Second \in Nat /\ Second >= 1
  /\ Setback \in Nat /\ Cadence \in Nat /\ Cadence >= Second
  /\ Cadence = Second - 1 + MaxPoll + Setback /\ MaxPoll \in Nat
  /\ MaxAhead \in Nat /\ MaxBehind \in Nat
  /\ FetchTimeout \in Nat /\ MaxStale \in Nat
<1>1. PICK c \in Configs : c.poll \in Nat /\ c.poll >= 1
                           /\ c.poll * Second <= MaxPoll
  BY ConfigAssumption, ConfigFacts DEF Valid
<1>2. c.poll * Second \in Nat /\ c.poll * Second >= 1
  BY <1>1, DurationAssumption
<1> QED
  BY <1>1, <1>2, DurationAssumption, TimeAssumption DEF Cadence, Setback

LEMMA Numbers ==
  ASSUME TypeOK
  PROVE  /\ now \in Int /\ wall \in Int
         /\ ghost.begun \in Int /\ ghost.success \in Int
         /\ ghost.pubStart \in Int /\ ghost.pubAt \in Int
         /\ ghost.basis \in Int /\ ghost.cfgAt \in Int
         /\ \A a \in Agents : local[a].at \in Int /\ local[a].start \in Int
         /\ nextTick # None => nextTick \in Int
         /\ poller.lastPoll # None => poller.lastPoll \in Int
         /\ poller.lastSuccess # None => poller.lastSuccess \in Int
         /\ mu # None => mu \in Agents /\ InPoll(mu)
         /\ Loop \in Agents /\ (InPoll(Loop) <=> mu = Loop)
<1>1. ghost \in Ghost /\ poller \in PollerFields
  BY DEF TypeOK
<1>2. \A a \in Agents : local[a] \in Locals
  BY DEF TypeOK
<1>3. mu \in Optional(Agents) /\ nextTick \in Optional(Int)
      /\ now \in Int /\ wall \in Int
      /\ \A a \in Agents : InPoll(a) <=> mu = a
  BY DEF TypeOK
<1> QED
  BY <1>1, <1>2, <1>3 DEF Ghost, PollerFields, Locals, Optional, Agents

LEMMA ClockworkInit == Init => Clockwork
<1> SUFFICES ASSUME Init PROVE Clockwork
  OBVIOUS
<1>1. EventOrder /\ MutexOrder
  BY Bounds DEF Init, EventOrder, MutexOrder
<1>2. TickInTime
  BY AgentAssumption DEF Init, TickInTime, Agents
<1>3. NextPollInTime
  BY Bounds DEF Init, NextPollInTime
<1>4. StampsInRange /\ AgesInRange
  BY Bounds DEF Init, StampsInRange, AgesInRange, Apart
<1>5. ConfigLag
  BY DEF Init, ConfigLag
<1>6. FreshWhenPublished
  BY DEF Init, FreshWhenPublished, InitialState
<1> QED
  BY <1>1, <1>2, <1>3, <1>4, <1>5, <1>6 DEF Clockwork

(* Time passes only when nobody is about to act: the loop waits for a tick *)
(* that is still to come, or the poll under way may still be answered.     *)
LEMMA ClockworkTick ==
  ASSUME TypeOK, Clockwork, Tick
  PROVE  Clockwork'
<1> USE Numbers, Bounds
<1>1. now' = now + 1 /\ wall' = wall + 1 /\ ~Runnable
  BY DEF Tick
<1>2. UNCHANGED <<cfg, ev, mu, poller, local, pc, ctxDone, ghost>>
  BY DEF Tick, shared
<1>3. mu # None => now < local[mu].start + FetchTimeout
  <2>1. SUFFICES ASSUME mu # None
                 PROVE  now < local[mu].start + FetchTimeout
    OBVIOUS
  <2>2. pc[mu] = "fetch" \/ pc[mu] = "publish"
    BY <2>1 DEF InPoll
  <2> QED
    BY <1>1, <2>1, <2>2 DEF Runnable
<1>4. EventOrder'
  BY <1>1, <1>2 DEF Clockwork, EventOrder
<1>5. MutexOrder'
  BY <1>1, <1>2, <1>3 DEF Clockwork, MutexOrder
<1>6. TickInTime'
  <2>1. CASE nextTick = now + 1
    <3>1. tick' = TRUE /\ nextTick' = nextTick + Second
      BY <2>1 DEF Tick
    <3>2. nextTick # None /\ nextTick' # None /\ nextTick' \in Int
      BY <2>1, <3>1, NoneAssumption
    <3> QED
      BY <1>1, <1>2, <2>1, <3>1, <3>2 DEF Clockwork, TickInTime
  <2>2. CASE nextTick # now + 1
    <3>1. tick' = tick /\ nextTick' = nextTick
      BY <2>2 DEF Tick, ticker
    <3> QED
      BY <1>1, <1>2, <2>2, <3>1 DEF Clockwork, TickInTime
  <2> QED
    BY <2>1, <2>2
<1>7. NextPollInTime'
  <2>1. SUFFICES ASSUME ~ctxDone, mu = None
                 PROVE  now + 1 <= ghost.pubAt + Cadence
    BY <1>1, <1>2 DEF Clockwork, NextPollInTime
  <2>2. pc[Loop] = "select" /\ ~tick
    <3>1. pc[Loop] \in {"select", "lock", "fetch", "publish", "stopped"}
      BY DEF TypeOK, LoopPC
    <3>2. pc[Loop] # "fetch" /\ pc[Loop] # "publish"
      BY <2>1, AgentAssumption DEF InPoll
    <3>3. pc[Loop] # "lock"
      BY <1>1, <2>1 DEF Runnable
    <3>4. pc[Loop] # "stopped"
      BY <2>1 DEF Clockwork, TickInTime
    <3>5. pc[Loop] = "select"
      BY <3>1, <3>2, <3>3, <3>4
    <3> QED
      BY <1>1, <3>5 DEF Runnable
  <2>3. /\ now < nextTick /\ nextTick \in Int
        /\ \/ nextTick <= ghost.begun + Cadence
           \/ nextTick <= ghost.pubAt + Cadence
    BY <2>1, <2>2 DEF Clockwork, TickInTime
  <2>4. ghost.begun <= ghost.pubAt
    BY <2>1 DEF Clockwork, MutexOrder
  <2> QED
    BY <2>3, <2>4
<1>8. StampsInRange' /\ AgesInRange'
  BY <1>1, <1>2 DEF Clockwork, StampsInRange, AgesInRange, Apart
<1>9. ConfigLag' /\ FreshWhenPublished'
  BY <1>2 DEF Clockwork, ConfigLag, FreshWhenPublished
<1> QED
  BY <1>4, <1>5, <1>6, <1>7, <1>8, <1>9 DEF Clockwork

(* The loop goes back to waiting only if its next poll is not yet due, by  *)
(* a wall clock that underestimates the time since the last one by no more *)
(* than it was set back.                                                   *)
LEMMA ClockworkLoopTick ==
  ASSUME TypeOK, Clockwork, LoopTick
  PROVE  Clockwork'
<1> USE Numbers, Bounds
<1>1. UNCHANGED <<now, wall, cfg, ev, mu, poller, local, nextTick, ctxDone,
                  ghost>>
  BY DEF LoopTick, clock, shared
<1>2. TickInTime'
  <2>1. CASE Due
    <3>1. pc' = [pc EXCEPT ![Loop] = "lock"]
      BY <2>1 DEF LoopTick
    <3>2. pc'[Loop] = "lock"
      BY <3>1 DEF TypeOK
    <3> QED
      BY <1>1, <3>2 DEF Clockwork, TickInTime
  <2>2. CASE ~Due
    <3>1. pc' = pc /\ pc[Loop] = "select"
      BY <2>2 DEF LoopTick
    <3>2. /\ poller.lastPoll # None
          /\ wall - poller.lastPoll < Duration(cfg.poll)
      BY <2>2, ConfigFacts DEF Due, TypeOK
    <3>3. Duration(cfg.poll) \in Int /\ Duration(cfg.poll) <= MaxPoll
      BY ConfigFacts DEF TypeOK
    <3>4. now - ghost.begun <= wall - poller.lastPoll + Setback
      BY <3>2 DEF Clockwork, AgesInRange
    <3>5. now - ghost.begun < MaxPoll + Setback
      BY <3>2, <3>3, <3>4
    <3>6. nextTick \in Int /\ nextTick <= now + Second
      BY <3>1 DEF Clockwork, TickInTime
    <3>7. nextTick <= ghost.begun + Cadence
      BY <3>5, <3>6
    <3> QED
      BY <1>1, <3>1, <3>7 DEF Clockwork, TickInTime
  <2> QED
    BY <2>1, <2>2
<1>3. EventOrder' /\ MutexOrder' /\ NextPollInTime'
  BY <1>1 DEF Clockwork, EventOrder, MutexOrder, NextPollInTime
<1>4. StampsInRange' /\ AgesInRange'
  BY <1>1 DEF Clockwork, StampsInRange, AgesInRange
<1>5. ConfigLag' /\ FreshWhenPublished'
  BY <1>1 DEF Clockwork, ConfigLag, FreshWhenPublished
<1> QED
  BY <1>2, <1>3, <1>4, <1>5 DEF Clockwork

LEMMA ClockworkPollBegin ==
  ASSUME TypeOK, Clockwork, NEW a \in Agents, PollBegin(a)
  PROVE  Clockwork'
<1> USE Numbers, Bounds
<1>1. UNCHANGED <<now, wall, cfg, ev, tick, nextTick, ctxDone>>
  BY DEF PollBegin, clock, shared, ticker
<1>2. /\ mu = None /\ mu' = a /\ mu' # None
      /\ local'[a].cfg = cfg /\ local'[a].at = wall
      /\ local'[a].start = now
  BY AgentAssumption DEF PollBegin, Agents, TypeOK
<1>3. /\ poller'.lastPoll = wall
      /\ poller'.lastSuccess = poller.lastSuccess
      /\ poller'.sensors = poller.sensors
      /\ poller'.hasData = poller.hasData
  BY DEF PollBegin, TypeOK, PollerFields
<1>4. /\ ghost'.begun = now /\ ghost'.success = ghost.success
      /\ ghost'.pubCfg = ghost.pubCfg /\ ghost'.pubStart = ghost.pubStart
      /\ ghost'.pubAt = ghost.pubAt /\ ghost'.basis = ghost.basis
      /\ ghost'.cfgAt = ghost.cfgAt
  BY DEF PollBegin, TypeOK, Ghost
<1>5. EventOrder'
  BY <1>1, <1>4 DEF Clockwork, EventOrder
<1>6. MutexOrder'
  BY <1>1, <1>2, <1>4 DEF MutexOrder
<1>7. TickInTime'
  <2>1. pc'[Loop] = pc[Loop] \/ pc'[Loop] = "fetch"
    BY DEF PollBegin, TypeOK
  <2>2. ghost.begun <= now
    BY DEF Clockwork, EventOrder
  <2> QED
    BY <1>1, <1>4, <2>1, <2>2 DEF Clockwork, TickInTime
<1>8. NextPollInTime'
  BY <1>1, <1>2, <1>4 DEF Clockwork, NextPollInTime
<1>9. StampsInRange' /\ AgesInRange'
  BY <1>1, <1>2, <1>3, <1>4
     DEF Clockwork, StampsInRange, AgesInRange, Apart
<1>10. ConfigLag'
  BY <1>1, <1>2, <1>4 DEF Clockwork, ConfigLag
<1>11. FreshWhenPublished'
  BY <1>1, <1>4 DEF Clockwork, FreshWhenPublished
<1> QED
  BY <1>5, <1>6, <1>7, <1>8, <1>9, <1>10, <1>11 DEF Clockwork

LEMMA ClockworkFetch ==
  ASSUME TypeOK, Clockwork, NEW a \in Agents, FetchOk(a) \/ FetchFail(a)
  PROVE  Clockwork'
<1> USE Numbers, Bounds
<1>1. UNCHANGED <<now, wall, cfg, ev, mu, tick, nextTick, ctxDone>>
  BY DEF FetchOk, FetchFail, clock, shared, ticker
<1>2. mu = a /\ mu # None
  BY AgentAssumption DEF FetchOk, FetchFail, InPoll, TypeOK, Agents
<1>3. /\ local'[a].cfg = local[a].cfg
      /\ local'[a].at = local[a].at /\ local'[a].start = local[a].start
  <2>1. local'[a] = [local[a] EXCEPT !.connected = connected]
    BY DEF FetchOk, FetchFail, TypeOK
  <2> QED
    BY <2>1 DEF TypeOK, Locals
<1>4. /\ ghost'.begun = ghost.begun
      /\ ghost'.pubCfg = ghost.pubCfg /\ ghost'.pubStart = ghost.pubStart
      /\ ghost'.pubAt = ghost.pubAt /\ ghost'.basis = ghost.basis
      /\ ghost'.cfgAt = ghost.cfgAt
  BY DEF FetchOk, FetchFail, TypeOK, Ghost
<1>5. \/ /\ ghost'.success = ghost.success
         /\ poller'.lastSuccess = poller.lastSuccess
         /\ poller'.sensors = poller.sensors
         /\ poller'.hasData = poller.hasData
      \/ /\ ghost'.success = local[a].start
         /\ poller'.lastSuccess = local[a].at
         /\ poller'.hasData
  BY DEF FetchOk, FetchFail, TypeOK, Ghost, PollerFields
<1>6. poller'.lastPoll = poller.lastPoll
  BY DEF FetchOk, FetchFail, TypeOK, PollerFields
<1>7. local[a].start = ghost.begun
  BY <1>2 DEF Clockwork, MutexOrder
<1>8. EventOrder'
  BY <1>1, <1>4, <1>5, <1>7 DEF Clockwork, EventOrder
<1>9. MutexOrder'
  BY <1>1, <1>2, <1>3, <1>4 DEF Clockwork, MutexOrder
<1>10. TickInTime'
  <2>1. pc'[Loop] = pc[Loop] \/ pc'[Loop] = "publish"
    BY DEF FetchOk, FetchFail, TypeOK
  <2> QED
    BY <1>1, <1>4, <2>1 DEF Clockwork, TickInTime
<1>11. NextPollInTime'
  BY <1>1, <1>4 DEF Clockwork, NextPollInTime
<1>12. StampsInRange' /\ AgesInRange'
  <2>1. local[a].at # None
    BY NoneAssumption
  <2>2. StampsInRange'
    BY <1>1, <1>2, <1>3, <1>4, <1>5, <1>6, <2>1
       DEF Clockwork, StampsInRange, Apart
  <2>3. AgesInRange'
    BY <1>1, <1>2, <1>3, <1>4, <1>5, <1>6, <2>1 DEF Clockwork, AgesInRange
  <2> QED
    BY <2>2, <2>3
<1>13. ConfigLag'
  BY <1>1, <1>2, <1>3, <1>4 DEF Clockwork, ConfigLag
<1>14. FreshWhenPublished'
  BY <1>1, <1>4 DEF Clockwork, FreshWhenPublished
<1> QED
  BY <1>8, <1>9, <1>10, <1>11, <1>12, <1>13, <1>14 DEF Clockwork

(* Evaluate compares the wall clock's age with the threshold, and the wall *)
(* clock underestimates it by no more than it was set back.                *)
LEMMA ClockworkPublish ==
  ASSUME TypeOK, Clockwork, NEW a \in Agents, Publish(a)
  PROVE  Clockwork'
<1> USE Numbers, Bounds
<1>1. UNCHANGED <<now, wall, cfg, poller, tick, ctxDone>>
  BY DEF Publish, clock, shared
<1>2. mu = a /\ mu # None /\ mu' = None
  BY AgentAssumption DEF Publish, InPoll, TypeOK, Agents
<1>3. /\ ghost'.begun = ghost.begun /\ ghost'.success = ghost.success
      /\ ghost'.pubCfg = local[a].cfg /\ ghost'.pubStart = local[a].start
      /\ ghost'.pubAt = now /\ ghost'.basis = ghost.success
      /\ ghost'.cfgAt = ghost.cfgAt
  BY DEF Publish, TypeOK, Ghost
<1>4. local[a].start = ghost.begun /\ now <= ghost.begun + FetchTimeout
  BY <1>2 DEF Clockwork, MutexOrder
<1>5. EventOrder'
  BY <1>1, <1>3, <1>4 DEF Clockwork, EventOrder
<1>6. MutexOrder'
  BY <1>1, <1>2, <1>3 DEF Clockwork, EventOrder, MutexOrder
<1>7. TickInTime'
  <2>1. CASE a = Loop
    <3>1. pc'[Loop] = "select"
      BY <2>1 DEF Publish, TypeOK
    <3>2. \/ nextTick = None /\ nextTick' = now + Second
          \/ nextTick # None /\ nextTick' = nextTick
      BY <2>1 DEF Publish
    <3>3. nextTick' # None /\ now < nextTick' /\ nextTick' <= now + Second
      BY <3>2, NoneAssumption DEF Clockwork, TickInTime
    <3>4. nextTick' <= ghost'.pubAt + Cadence
      BY <1>3, <3>2, <3>3 DEF Clockwork, TickInTime
    <3> QED
      BY <1>1, <3>1, <3>3, <3>4 DEF TickInTime
  <2>2. CASE a # Loop
    <3>1. pc'[Loop] = pc[Loop] /\ nextTick' = nextTick
      BY <2>2 DEF Publish, TypeOK
    <3>2. ghost.pubAt <= now
      BY DEF Clockwork, EventOrder
    <3> QED
      BY <1>1, <1>3, <3>1, <3>2 DEF Clockwork, TickInTime
  <2> QED
    BY <2>1, <2>2
<1>8. NextPollInTime'
  BY <1>1, <1>2, <1>3 DEF NextPollInTime
<1>9. StampsInRange' /\ AgesInRange'
  BY <1>1, <1>2, <1>3 DEF Clockwork, StampsInRange, AgesInRange
<1>10. ConfigLag'
  BY <1>1, <1>2, <1>3 DEF Clockwork, ConfigLag
<1>11. FreshWhenPublished'
  <2> DEFINE in == PollInput(a)
  <2>1. SUFFICES ASSUME ev'.isSafe, ev'.raw # None,
                        "force_safe" \notin ev'.warnings
                 PROVE  now - ghost.success <= MaxStale + Setback
    BY <1>1, <1>3 DEF FreshWhenPublished
  <2>2. ev' = Evaluate(local[a].cfg, in, wall)
    BY DEF Publish
  <2>3. in.sensors # None => in.hasData /\ in.lastSuccess # None
    BY DEF Clockwork, AgesInRange, PollInput
  <2>4. ev'.raw = in.sensors
    BY <2>2 DEF Evaluate
  <2>5. local[a].cfg \in Configs
    BY DEF TypeOK, Locals
  <2>6. ~(wall - in.lastSuccess > Duration(local[a].cfg.stale))
    BY <2>1, <2>2, <2>3, <2>4, <2>5, ConfigFacts, PollInputType,
       SafeIsNotStale
  <2>7. in.lastSuccess = poller.lastSuccess /\ poller.lastSuccess # None
    BY <2>1, <2>3, <2>4 DEF PollInput
  <2>8. now - ghost.success <= wall - poller.lastSuccess + Setback
    BY <2>7 DEF Clockwork, AgesInRange
  <2>9. /\ Duration(local[a].cfg.stale) \in Int
        /\ Duration(local[a].cfg.stale) <= MaxStale
    BY <2>5, ConfigFacts
  <2> HIDE DEF in
  <2> QED
    BY <2>6, <2>7, <2>8, <2>9
<1> QED
  BY <1>5, <1>6, <1>7, <1>8, <1>9, <1>10, <1>11 DEF Clockwork

(* If the clock only ever moves forward every age grows with it; if not,   *)
(* two stamps within the range differ from real time by at most the range. *)
LEMMA ClockworkClockStep ==
  ASSUME TypeOK, Clockwork, NEW d \in ClockSteps, ClockStep(d)
  PROVE  Clockwork'
<1> USE Numbers, Bounds
<1>1. wall' = wall + d /\ Apart(wall', now) /\ d \in Int
  BY TimeAssumption DEF ClockStep
<1>2. UNCHANGED <<now, cfg, ev, mu, poller, local, pc, tick, nextTick,
                  ctxDone, ghost>>
  BY DEF ClockStep, shared, ticker
<1>3. StampsInRange'
  BY <1>1, <1>2 DEF Clockwork, StampsInRange, Apart
<1>4. AgesInRange'
  <2>1. CASE ClockSteps \subseteq Nat
    <3>1. wall <= wall'
      BY <1>1, <2>1
    <3> QED
      BY <1>1, <1>2, <3>1 DEF Clockwork, AgesInRange
  <2>2. CASE ~(ClockSteps \subseteq Nat)
    <3>1. Setback = MaxAhead + MaxBehind
      BY <2>2 DEF Setback
    <3>2. poller.sensors # None =>
            poller.hasData /\ poller.lastSuccess # None
      BY DEF Clockwork, AgesInRange
    <3> QED
      BY <1>1, <1>2, <1>3, <3>1, <3>2 DEF StampsInRange, AgesInRange, Apart
  <2> QED
    BY <2>1, <2>2
<1>5. EventOrder' /\ MutexOrder' /\ TickInTime' /\ NextPollInTime'
  BY <1>2 DEF Clockwork, EventOrder, MutexOrder, TickInTime, NextPollInTime
<1>6. ConfigLag' /\ FreshWhenPublished'
  BY <1>2 DEF Clockwork, ConfigLag, FreshWhenPublished
<1> QED
  BY <1>3, <1>4, <1>5, <1>6 DEF Clockwork

(* Another configuration, or other numbers in one: the verdicts that may   *)
(* still rest on what was before began before now.                         *)
LEMMA ClockworkConfig ==
  ASSUME TypeOK, Clockwork,
         UNCHANGED <<now, wall, ev, mu, poller, pc, tick, nextTick, ctxDone>>,
         \A a \in Agents : /\ local'[a].at = local[a].at
                           /\ local'[a].start = local[a].start,
         ghost'.begun = ghost.begun, ghost'.success = ghost.success,
         ghost'.pubCfg = ghost.pubCfg, ghost'.pubStart = ghost.pubStart,
         ghost'.pubAt = ghost.pubAt, ghost'.basis = ghost.basis,
         \/ /\ cfg' = cfg /\ ghost'.cfgAt = ghost.cfgAt
            /\ \A a \in Agents : local'[a].cfg = local[a].cfg
         \/ ghost'.cfgAt = now
  PROVE  Clockwork'
<1> USE Numbers, Bounds
<1>1. EventOrder'
  BY DEF Clockwork, EventOrder
<1>2. ConfigLag'
  <2>1. ghost.pubStart <= now /\ (mu # None => local[mu].start <= now)
    BY DEF Clockwork, EventOrder, MutexOrder
  <2> QED
    BY <2>1 DEF Clockwork, ConfigLag
<1>3. MutexOrder' /\ TickInTime' /\ NextPollInTime'
  BY DEF Clockwork, MutexOrder, TickInTime, NextPollInTime
<1>4. StampsInRange' /\ AgesInRange' /\ FreshWhenPublished'
  BY DEF Clockwork, StampsInRange, AgesInRange, FreshWhenPublished
<1> QED
  BY <1>1, <1>2, <1>3, <1>4 DEF Clockwork

LEMMA ClockworkNext == TypeOK /\ Clockwork /\ [Next]_vars => Clockwork'
<1> SUFFICES ASSUME TypeOK, Clockwork, [Next]_vars PROVE Clockwork'
  OBVIOUS
<1> USE Numbers, Bounds
<1>2. ASSUME NEW c \in Configs, SaveConfig(c) PROVE Clockwork'
  <2>1. /\ ghost'.begun = ghost.begun /\ ghost'.success = ghost.success
        /\ ghost'.pubCfg = ghost.pubCfg /\ ghost'.pubStart = ghost.pubStart
        /\ ghost'.pubAt = ghost.pubAt /\ ghost'.basis = ghost.basis
        /\ ghost'.cfgAt = IF c = cfg THEN ghost.cfgAt ELSE now
    BY <1>2 DEF SaveConfig, TypeOK, Ghost
  <2> QED
    BY <1>2, <2>1, SaveEffect, ClockworkConfig
<1>7. ASSUME NEW t \in Thresholds, NEW n \in StoredThresholds,
             StoreThreshold(t, n)
      PROVE  Clockwork'
  <2>1. /\ ghost'.begun = ghost.begun /\ ghost'.success = ghost.success
        /\ ghost'.pubCfg = ghost.pubCfg /\ ghost'.pubStart = ghost.pubStart
        /\ ghost'.pubAt = ghost.pubAt /\ ghost'.basis = ghost.basis
    BY <1>7, StoreEffect DEF TypeOK, Ghost
  <2>2. \/ UNCHANGED <<cfg, local, ghost>>
        \/ ghost'.cfgAt = now
    BY <1>7, StoreEffect DEF TypeOK, Ghost
  <2> QED
    BY <1>7, <2>1, <2>2, StoreEffect, ClockworkConfig
<1>3. ASSUME NEW v \in BOOLEAN, SetConnected(v) PROVE Clockwork'
  <2>1. UNCHANGED <<now, wall, cfg, ev, mu, poller, local, pc, tick,
                    nextTick, ctxDone, ghost>>
    BY <1>3 DEF SetConnected, clock, ticker
  <2> QED
    BY <2>1 DEF Clockwork, EventOrder, MutexOrder, TickInTime,
                NextPollInTime, StampsInRange, AgesInRange, ConfigLag,
                FreshWhenPublished
<1>4. ASSUME Cancel \/ LoopStop PROVE Clockwork'
  <2>1. UNCHANGED <<now, wall, cfg, ev, mu, poller, local, ghost>>
    BY <1>4 DEF Cancel, LoopStop, clock, shared
  <2>2. ctxDone'
    BY <1>4 DEF Cancel, LoopStop
  <2>3. TickInTime'
    <3>1. CASE Cancel
      BY <2>1, <2>2, <3>1 DEF Cancel, Clockwork, TickInTime, ticker
    <3>2. CASE LoopStop
      <4>1. nextTick' = None /\ pc'[Loop] = "stopped"
        BY <3>2 DEF LoopStop, TypeOK
      <4> QED
        BY <2>2, <4>1 DEF TickInTime
    <3> QED
      BY <1>4, <3>1, <3>2
  <2>4. EventOrder' /\ MutexOrder' /\ NextPollInTime'
    BY <2>1, <2>2 DEF Clockwork, EventOrder, MutexOrder, NextPollInTime
  <2>5. StampsInRange' /\ AgesInRange' /\ ConfigLag' /\ FreshWhenPublished'
    BY <2>1 DEF Clockwork, StampsInRange, AgesInRange, ConfigLag,
                FreshWhenPublished
  <2> QED
    BY <2>3, <2>4, <2>5 DEF Clockwork
<1>5. ASSUME NEW c \in Clients, CallPollNow(c) PROVE Clockwork'
  <2>1. UNCHANGED <<now, wall, cfg, ev, mu, poller, local, tick, nextTick,
                    ctxDone, ghost>>
    BY <1>5 DEF CallPollNow, clock, shared, ticker
  <2>2. pc'[Loop] = pc[Loop]
    BY <1>5, AgentAssumption DEF CallPollNow, TypeOK
  <2>3. TickInTime'
    BY <2>1, <2>2 DEF Clockwork, TickInTime
  <2>4. EventOrder' /\ MutexOrder' /\ NextPollInTime'
    BY <2>1 DEF Clockwork, EventOrder, MutexOrder, NextPollInTime
  <2>5. StampsInRange' /\ AgesInRange' /\ ConfigLag' /\ FreshWhenPublished'
    BY <2>1 DEF Clockwork, StampsInRange, AgesInRange, ConfigLag,
                FreshWhenPublished
  <2> QED
    BY <2>3, <2>4, <2>5 DEF Clockwork
<1>6. CASE UNCHANGED vars
  BY <1>6 DEF vars, clock, shared, ticker, Clockwork, EventOrder, MutexOrder,
              TickInTime, NextPollInTime, StampsInRange, AgesInRange,
              ConfigLag, FreshWhenPublished
<1> QED
  BY <1>2, <1>3, <1>4, <1>5, <1>6, <1>7, ClockworkTick, ClockworkClockStep,
     ClockworkLoopTick, ClockworkPollBegin, ClockworkFetch, ClockworkPublish
     DEF Next, Environment, Outside, PutInPlace, PollStep

THEOREM ClockworkInvariant == Spec => []Clockwork
<1>1. Init => TypeOK /\ Clockwork
  BY TypeInit, ClockworkInit
<1>2. TypeOK /\ Clockwork /\ [Next]_vars => (TypeOK /\ Clockwork)'
  BY TypeNext, ClockworkNext
<1> QED
  BY <1>1, <1>2, PTL DEF Spec

(* However polls, refreshes, saves and clock adjustments fall: the next    *)
(* verdict comes within an interval and a tick period of the last, and     *)
(* what the clock was set back by.                                         *)
THEOREM Polling == Spec => []PollsKeepComing
<1>1. TypeOK /\ Clockwork => PollsKeepComing
  <2> USE Numbers, Bounds
  <2> QED
    BY DEF Clockwork, MutexOrder, NextPollInTime, PollsKeepComing
<1> QED
  BY <1>1, TypeCorrect, ClockworkInvariant, PTL

(* The verdict clients read never calls safe what the last reading was     *)
(* taken too long ago to tell.                                             *)
THEOREM Freshness == Spec => []VerdictFresh
<1>1. TypeOK /\ Clockwork => VerdictFresh
  <2> USE Numbers, Bounds
  <2> SUFFICES ASSUME TypeOK, Clockwork, ~ctxDone, ev.isSafe, ev.raw # None,
                      "force_safe" \notin ev.warnings
               PROVE  now - ghost.basis
                        <= MaxStale + Setback + Cadence + FetchTimeout
    BY DEF VerdictFresh
  <2>1. ghost.pubAt - ghost.basis <= MaxStale + Setback
    BY DEF Clockwork, FreshWhenPublished
  <2>2. now <= ghost.pubAt + Cadence + FetchTimeout
    BY DEF Clockwork, MutexOrder, NextPollInTime
  <2> QED
    BY <2>1, <2>2
<1> QED
  BY <1>1, TypeCorrect, ClockworkInvariant, PTL

(* A configuration saved or changed in place is the one clients are judged *)
(* by within the poll under way, one interval and one more poll.           *)
THEOREM Adoption == Spec => []ConfigAdopted
<1>1. TypeOK /\ Clockwork => ConfigAdopted
  <2> USE Numbers, Bounds
  <2> SUFFICES ASSUME TypeOK, Clockwork, ~ctxDone, ghost.pubCfg # cfg
               PROVE  now <= ghost.cfgAt + Cadence + 2 * FetchTimeout
    BY DEF ConfigAdopted
  <2>1. ghost.pubAt <= ghost.cfgAt + FetchTimeout
    BY DEF Clockwork, ConfigLag, EventOrder
  <2>2. now <= ghost.pubAt + Cadence + FetchTimeout
    BY DEF Clockwork, MutexOrder, NextPollInTime
  <2> QED
    BY <2>1, <2>2
<1> QED
  BY <1>1, TypeCorrect, ClockworkInvariant, PTL
=============================================================================
