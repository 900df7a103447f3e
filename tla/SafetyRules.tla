---------------------------- MODULE SafetyRules ----------------------------
(***************************************************************************)
(* The safety rules of the bridge: what internal/safety/evaluator.go       *)
(* decides from one configuration, one sensor reading and one clock value, *)
(* with the data types of internal/config, internal/state and              *)
(* internal/sqmclient that it reads and writes.  Nothing here has state:   *)
(* the modules that do (Poller, SafetyMonitor, ConfigStore) extend it.     *)
(*                                                                         *)
(* Abstractions.  Readings and thresholds are integers (the code has       *)
(* float64; only their order matters, JSON cannot carry a NaN).  A reason  *)
(* or a warning is named by the rule that gives it, so the two lists are   *)
(* sets.  An error text is the Boolean "lastError # empty".  Points in time *)
(* are whole numbers of a unit of which a second holds Second.             *)
(***************************************************************************)
EXTENDS Integers

CONSTANTS None,           \* a Go nil pointer, or the zero time.Time
          URLs,           \* the base URLs a SQMeter may be reached at
          NoURL,          \* the empty SQMETER_BASE_URL
          Second,         \* time units in a second
          DurationLimit   \* 2^63 ns in time units: where time.Duration wraps

ASSUME DurationAssumption == /\ Second \in Nat \ {0}
                             /\ DurationLimit \in Nat \ {0}
ASSUME URLAssumption == NoURL \notin URLs
ASSUME NoneAssumption == None \notin Int

-----------------------------------------------------------------------------
(* Data types *)

Optional(S) == S \cup {None}

(* sqmclient.SensorsResponse, flattened to the fields the bridge serves.   *)
Reading == [sqm : Int, lux : Int, light : Int,
            temp : Int, hum : Int, dew : Int, pressure : Int, env : Int,
            sky : Int, ir : Int,
            cloud : Int]

Overrides == {"auto", "force_safe", "force_unsafe"}

(* The hot-reloadable fields of config.Config.                             *)
Config == [url : URLs \cup {NoURL}, override : Overrides,
           failClosed : BOOLEAN, poll : Int, stale : Int,
           cloudUnsafe : Int, cloudCaution : Int,
           requireLight : BOOLEAN, requireEnv : BOOLEAN, requireIR : BOOLEAN,
           sqmMin : Optional(Int), humMax : Optional(Int),
           dewMin : Optional(Int)]

(* The fields that are *float64: a copy of a Config shares with it the      *)
(* numbers they point to, nil apart.                                       *)
Thresholds == {"sqmMin", "humMax", "dewMin"}

Pointed(c) == {t \in Thresholds : c[t] # None}

(* The fields a copy has for itself.                                       *)
Plain(c) == [c EXCEPT !.sqmMin = None, !.humMax = None, !.dewMin = None]

(* They can differ only in numbers stored through a pointer.               *)
Alike(c, d) == Plain(c) = Plain(d) /\ Pointed(c) = Pointed(d)

(* config.validate, for the fields of Config.                              *)
Valid(c) == /\ c.url # NoURL
            /\ c.poll >= 1
            /\ c.stale >= c.poll

(* state.Values, and the zero value of the struct.                         *)
Values == [sqm : Int, temp : Int, hum : Int, dew : Int, cloud : Int]

ZeroValues == [sqm |-> 0, temp |-> 0, hum |-> 0, dew |-> 0, cloud |-> 0]

ValuesOf(r) == [sqm |-> r.sqm, temp |-> r.temp, hum |-> r.hum,
                dew |-> r.dew, cloud |-> r.cloud]

Reasons == {"not connected", "force_unsafe", "no data", "stale",
            "nil sensors", "light", "env", "ir", "cloud", "sqm", "humidity",
            "dew point"}

Warnings == {"force_safe", "cloud caution"}

EvaluatedState ==
  [isSafe : BOOLEAN, reasons : SUBSET Reasons, warnings : SUBSET Warnings,
   lastPoll : Optional(Int), lastSuccess : Optional(Int),
   lastError : BOOLEAN, raw : Optional(Reading), values : Values]

(* The EvaluatedState a state.Holder is created with: no verdict yet.      *)
InitialState ==
  [isSafe |-> FALSE, reasons |-> {}, warnings |-> {}, lastPoll |-> None,
   lastSuccess |-> None, lastError |-> FALSE, raw |-> None,
   values |-> ZeroValues]

(* safety.Input *)
Input == [connected : BOOLEAN, hasData : BOOLEAN,
          sensors : Optional(Reading), lastSuccess : Optional(Int),
          lastPoll : Optional(Int), lastError : BOOLEAN]

(* time.Duration(n) * time.Second: a signed 64-bit count of nanoseconds,   *)
(* so a large n wraps round to a negative duration.                        *)
Duration(n) ==
  ((n * Second + DurationLimit) % (2 * DurationLimit)) - DurationLimit

-----------------------------------------------------------------------------
(* The rules *)

(* How far Evaluate gets before it returns.                                *)
Stage(c, in) ==
  IF ~in.connected            THEN "disconnected"
  ELSE IF c.override # "auto" THEN c.override
  ELSE IF ~in.hasData         THEN "no data"
  ELSE IF in.sensors = None   THEN "nil sensors"
  ELSE                             "rules"

(* Mutant: the age of the last poll, not of the last success.              *)
Stale_ByPoll(c, in, clock) ==
  /\ in.lastPoll # None
  /\ clock - in.lastPoll > Duration(c.stale)

Stale(c, in, clock) ==
  /\ in.lastSuccess # None
  /\ clock - in.lastSuccess > Duration(c.stale)

(* Mutant: the humidity rule compares with the wrong sign.                 *)
Breaks_Humidity(c, r, why) ==
  \/ why = "light"     /\ c.requireLight /\ r.light # 0
  \/ why = "env"       /\ c.requireEnv   /\ r.env # 0
  \/ why = "ir"        /\ c.requireIR    /\ r.ir # 0
  \/ why = "cloud"     /\ r.cloud >= c.cloudUnsafe
  \/ why = "sqm"       /\ c.sqmMin # None /\ r.sqm < c.sqmMin
  \/ why = "humidity"  /\ c.humMax # None /\ r.hum < c.humMax
  \/ why = "dew point" /\ c.dewMin # None /\ r.temp - r.dew < c.dewMin

(* The rules on the reading itself, each an independent "if" of the code.  *)
Breaks(c, r, why) ==
  \/ why = "light"     /\ c.requireLight /\ r.light # 0
  \/ why = "env"       /\ c.requireEnv   /\ r.env # 0
  \/ why = "ir"        /\ c.requireIR    /\ r.ir # 0
  \/ why = "cloud"     /\ r.cloud >= c.cloudUnsafe
  \/ why = "sqm"       /\ c.sqmMin # None /\ r.sqm < c.sqmMin
  \/ why = "humidity"  /\ c.humMax # None /\ r.hum > c.humMax
  \/ why = "dew point" /\ c.dewMin # None /\ r.temp - r.dew < c.dewMin

(* Mutant: no data is no reason.                                           *)
Gives_NoDataIsSafe(c, in, clock, why) ==
  LET stage == Stage(c, in)
  IN \/ stage = "disconnected" /\ why = "not connected"
     \/ stage = "force_unsafe" /\ why = "force_unsafe"
     \/ /\ stage = "rules"
        /\ \/ why = "stale" /\ Stale(c, in, clock)
           \/ Breaks(c, in.sensors, why)

(* Mutant: after a failed poll old data are judged by their age alone.     *)
Gives_OnlyStale(c, in, clock, why) ==
  LET stage == Stage(c, in)
  IN \/ stage = "disconnected" /\ why = "not connected"
     \/ stage = "force_unsafe" /\ why = "force_unsafe"
     \/ /\ stage \in {"force_safe", "no data"} /\ why = "no data"
        /\ ~in.hasData /\ c.failClosed
     \/ /\ stage = "rules"
        /\ \/ why = "stale" /\ Stale(c, in, clock)
           \/ ~in.lastError /\ Breaks(c, in.sensors, why)

(* The reasons Evaluate appends before it returns.                         *)
Gives(c, in, clock, why) ==
  LET stage == Stage(c, in)
  IN \/ stage = "disconnected" /\ why = "not connected"
     \/ stage = "force_unsafe" /\ why = "force_unsafe"
     \/ /\ stage \in {"force_safe", "no data"} /\ why = "no data"
        /\ ~in.hasData /\ c.failClosed
     \/ stage = "nil sensors" /\ why = "nil sensors" /\ c.failClosed
     \/ /\ stage \in {"nil sensors", "rules"} /\ why = "stale"
        /\ Stale(c, in, clock)
     \/ stage = "rules" /\ Breaks(c, in.sensors, why)

ReasonsFor(c, in, clock) == {why \in Reasons : Gives(c, in, clock, why)}

WarningsFor(c, in) ==
  LET stage == Stage(c, in)
      caution == /\ stage = "rules"
                 /\ in.sensors.cloud < c.cloudUnsafe
                 /\ in.sensors.cloud >= c.cloudCaution
      forced == stage = "force_safe" /\ (in.hasData \/ ~c.failClosed)
  IN (IF caution THEN {"cloud caution"} ELSE {})
       \cup (IF forced THEN {"force_safe"} ELSE {})

(* safety.Evaluate.  The code starts from IsSafe = true and clears it with *)
(* every reason it appends; the raw reading is copied whatever the stage,  *)
(* Values only when the rules are reached.                                 *)
Evaluate(c, in, clock) ==
  [isSafe      |-> ReasonsFor(c, in, clock) = {},
   reasons     |-> ReasonsFor(c, in, clock),
   warnings    |-> WarningsFor(c, in),
   lastPoll    |-> in.lastPoll,
   lastSuccess |-> in.lastSuccess,
   lastError   |-> in.lastError,
   raw         |-> in.sensors,
   values      |-> IF Stage(c, in) = "rules" THEN ValuesOf(in.sensors)
                                             ELSE ZeroValues]
=============================================================================
