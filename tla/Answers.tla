------------------------------ MODULE Answers ------------------------------
(***************************************************************************)
(* What a handler answers once it has a verdict (an EvaluatedState): the   *)
(* sensor properties of ObservingConditions, and the two tables of the     *)
(* dashboard, which repeat those decisions and the evaluator's.            *)
(***************************************************************************)
EXTENDS SafetyRules

(* The ObservingConditions properties, the sensor whose status decides     *)
(* whether each is available, and the field each is read from.             *)
StatusField ==
  [cloudcover |-> "ir", dewpoint |-> "env", humidity |-> "env",
   pressure |-> "env", skybrightness |-> "light", skyquality |-> "light",
   skytemperature |-> "ir", temperature |-> "env"]

Sensors == DOMAIN StatusField

ValueField ==
  [cloudcover |-> "cloud", dewpoint |-> "dew", humidity |-> "hum",
   pressure |-> "pressure", skybrightness |-> "lux", skyquality |-> "sqm",
   skytemperature |-> "sky", temperature |-> "temp"]

(* These three are read from RawSensors, the others from Values.           *)
ReadRaw == {"pressure", "skybrightness", "skytemperature"}

-----------------------------------------------------------------------------
(* Mutant: the status of the sensor is not looked at.                      *)
SensorFails_NoStatus(p, state) == state.raw = None

(* A sensor is refused without a reading or with a status other than 0.    *)
SensorFails(p, state) == \/ state.raw = None
                         \/ state.raw[StatusField[p]] # 0

SensorValue(p, state) ==
  IF p \in ReadRaw THEN state.raw[ValueField[p]]
                   ELSE state.values[ValueField[p]]

(* The verdict was reached by the rules, so that Values has been filled.   *)
ByTheRules(state) == /\ state.reasons \cap {"not connected", "force_unsafe",
                                            "no data"} = {}
                     /\ "force_safe" \notin state.warnings

-----------------------------------------------------------------------------
(* The Observing Conditions table of the dashboard: available or missing.  *)
PageShows(p, state) ==
  LET healthy(sensor) == state.raw # None /\ state.raw[sensor] = 0
  IN CASE p \in {"cloudcover", "skytemperature"}  -> healthy("ir")
       [] p \in {"skybrightness", "skyquality"}   -> healthy("light")
       [] p \in {"dewpoint", "humidity", "pressure", "temperature"} ->
            healthy("env")

(* Mutant: the rows of the required sensors are always enabled.            *)
FailingRows_AllEnabled(c, state) ==
  LET v == state.values
      healthy(sensor) == state.raw # None /\ state.raw[sensor] = 0
      sick(sensor) == state.raw # None /\ state.raw[sensor] # 0
      fails(row) ==
        \/ row = "cloud" /\ healthy("ir") /\ v.cloud >= c.cloudUnsafe
        \/ row \in {"light", "env", "ir"} /\ sick(row)
        \/ /\ row = "sqm" /\ healthy("light")
           /\ c.sqmMin # None /\ v.sqm < c.sqmMin
        \/ /\ row = "humidity" /\ healthy("env")
           /\ c.humMax # None /\ v.hum > c.humMax
        \/ /\ row = "dew point" /\ healthy("env")
           /\ c.dewMin # None /\ v.temp - v.dew < c.dewMin
  IN {row \in Reasons : fails(row)}

(* The Safety Rules table: the enabled rows that say "fail".  The page     *)
(* applies the thresholds again, to Values and to the saved configuration, *)
(* and leaves out a row whose sensor is not healthy ("n/a").               *)
FailingRows(c, state) ==
  LET v == state.values
      healthy(sensor) == state.raw # None /\ state.raw[sensor] = 0
      sick(sensor) == state.raw # None /\ state.raw[sensor] # 0
      fails(row) ==
        \/ row = "cloud" /\ healthy("ir") /\ v.cloud >= c.cloudUnsafe
        \/ row = "light" /\ c.requireLight /\ sick("light")
        \/ row = "env" /\ c.requireEnv /\ sick("env")
        \/ row = "ir" /\ c.requireIR /\ sick("ir")
        \/ /\ row = "sqm" /\ healthy("light")
           /\ c.sqmMin # None /\ v.sqm < c.sqmMin
        \/ /\ row = "humidity" /\ healthy("env")
           /\ c.humMax # None /\ v.hum > c.humMax
        \/ /\ row = "dew point" /\ healthy("env")
           /\ c.dewMin # None /\ v.temp - v.dew < c.dewMin
  IN {row \in Reasons : fails(row)}

(* The reasons of a verdict that have a row which says "fail": there is    *)
(* none for stale data, and those of an unhealthy sensor are left out.     *)
ReasonsWithRow(state) ==
  {why \in state.reasons \ {"stale"} :
     \/ why \in {"light", "env", "ir"}
     \/ why = "cloud" /\ state.raw.ir = 0
     \/ why = "sqm" /\ state.raw.light = 0
     \/ why \in {"humidity", "dew point"} /\ state.raw.env = 0}
=============================================================================
