---------------------------- MODULE AnswerProofs ----------------------------
(***************************************************************************)
(* Lemmas about Answers: when a verdict was reached by the rules, and what *)
(* the tables of the dashboard then show.  RuleProofs and MonitorProofs    *)
(* rest on them.                                                           *)
(***************************************************************************)
EXTENDS Answers, TLAPS

(* With a reading, ByTheRules tells the stages of Evaluate apart: reasons  *)
(* and warnings betray every early return.                                 *)
LEMMA RulesReached ==
  ASSUME NEW e \in Config, NEW i \in Input, NEW t,
         i.sensors # None, i.hasData, ByTheRules(Evaluate(e, i, t))
  PROVE  Stage(e, i) = "rules"
<1>1. e.override \in Overrides
  BY DEF Config
<1>2. \A why \in Reasons :
        Gives(e, i, t, why) => why \in Evaluate(e, i, t).reasons
  BY DEF Evaluate, ReasonsFor
<1>3. Stage(e, i) # "disconnected"
  BY <1>2 DEF ByTheRules, Gives, Reasons
<1>4. Stage(e, i) # "force_unsafe"
  BY <1>2 DEF ByTheRules, Gives, Reasons
<1>5. Stage(e, i) # "force_safe"
  BY DEF ByTheRules, Evaluate, WarningsFor
<1> QED
  BY <1>1, <1>3, <1>4, <1>5 DEF Stage, Overrides

(* Values is then the reading that RawSensors is.                          *)
LEMMA ValuesAreOfTheReading ==
  ASSUME NEW e \in Config, NEW i \in Input, NEW t,
         i.sensors # None, i.hasData, ByTheRules(Evaluate(e, i, t))
  PROVE  Evaluate(e, i, t).values = ValuesOf(Evaluate(e, i, t).raw)
  BY RulesReached DEF Evaluate

(* The page and the API look at the same status of the same sensor.        *)
LEMMA SameSensor ==
  ASSUME NEW state, NEW p \in Sensors
  PROVE  PageShows(p, state) <=> ~SensorFails(p, state)
<1>1. Sensors = {"cloudcover", "dewpoint", "humidity", "pressure",
                 "skybrightness", "skyquality", "skytemperature",
                 "temperature"}
  BY DEF Sensors, StatusField
<1>2. CASE p \in {"cloudcover", "skytemperature"}
  <2>1. StatusField[p] = "ir"
    BY <1>2 DEF StatusField
  <2> QED
    BY <1>2, <2>1 DEF PageShows, SensorFails
<1>3. CASE p \in {"skybrightness", "skyquality"}
  <2>1. StatusField[p] = "light"
    BY <1>3 DEF StatusField
  <2> QED
    BY <1>3, <2>1 DEF PageShows, SensorFails
<1>4. CASE p \in {"dewpoint", "humidity", "pressure", "temperature"}
  <2>1. StatusField[p] = "env"
    BY <1>4 DEF StatusField
  <2> QED
    BY <1>4, <2>1 DEF PageShows, SensorFails
<1> QED
  BY <1>1, <1>2, <1>3, <1>4

(* The rows that fail, rule by rule, for the values of a reading.          *)
LEMMA RowsOfReading ==
  ASSUME NEW e \in Config, NEW state, state.raw \in Reading,
         state.raw # None, state.values = ValuesOf(state.raw)
  PROVE  FailingRows(e, state) =
           {row \in Reasons :
              /\ Breaks(e, state.raw, row)
              /\ \/ row \in {"light", "env", "ir"}
                 \/ row = "cloud" /\ state.raw.ir = 0
                 \/ row = "sqm" /\ state.raw.light = 0
                 \/ row \in {"humidity", "dew point"} /\ state.raw.env = 0}
<1>1. /\ state.values.cloud = state.raw.cloud
      /\ state.values.sqm = state.raw.sqm
      /\ state.values.hum = state.raw.hum
      /\ state.values.temp = state.raw.temp
      /\ state.values.dew = state.raw.dew
  BY DEF ValuesOf
<1> QED
  BY <1>1 DEF FailingRows, Breaks, Reasons

(* The reasons of a verdict reached by the rules.                          *)
LEMMA ReasonsOfRules ==
  ASSUME NEW e \in Config, NEW i \in Input, NEW t, NEW why \in Reasons,
         Stage(e, i) = "rules"
  PROVE  why \in Evaluate(e, i, t).reasons <=>
           \/ why = "stale" /\ Stale(e, i, t)
           \/ Breaks(e, i.sensors, why)
  BY DEF Evaluate, ReasonsFor, Gives

(* The rows that fail are the reasons that have one, for any verdict that  *)
(* was reached with a reading.                                             *)
LEMMA TableRepeatsVerdict ==
  ASSUME NEW e \in Config, NEW i \in Input, NEW t,
         i.sensors # None => i.hasData,
         Evaluate(e, i, t).raw # None, ByTheRules(Evaluate(e, i, t))
  PROVE  FailingRows(e, Evaluate(e, i, t)) =
           ReasonsWithRow(Evaluate(e, i, t))
<1> DEFINE verdict == Evaluate(e, i, t)
           raw == verdict.raw
           shown(why) == \/ why \in {"light", "env", "ir"}
                         \/ why = "cloud" /\ raw.ir = 0
                         \/ why = "sqm" /\ raw.light = 0
                         \/ why \in {"humidity", "dew point"} /\ raw.env = 0
<1>1. raw = i.sensors
  BY DEF Evaluate
<1>2. raw \in Reading /\ raw # None /\ i.hasData
  BY <1>1 DEF Input, Optional
<1>3. Stage(e, i) = "rules" /\ verdict.values = ValuesOf(raw)
  BY <1>1, <1>2, RulesReached, ValuesAreOfTheReading
<1>4. FailingRows(e, verdict) =
        {row \in Reasons : Breaks(e, raw, row) /\ shown(row)}
  <2> HIDE DEF verdict
  <2> QED
    BY <1>2, <1>3, RowsOfReading
<1>5. verdict.reasons \subseteq Reasons
  BY DEF Evaluate, ReasonsFor
<1>6. \A why \in Reasons :
        why \in verdict.reasons /\ why # "stale" <=> Breaks(e, raw, why)
  <2>1. ~Breaks(e, raw, "stale")
    BY DEF Breaks
  <2>2. \A why \in Reasons :
          why \in verdict.reasons <=> \/ why = "stale" /\ Stale(e, i, t)
                                     \/ Breaks(e, raw, why)
    BY <1>1, <1>3, ReasonsOfRules
  <2> QED
    BY <2>1, <2>2
<1>7. ReasonsWithRow(verdict) =
        {why \in verdict.reasons \ {"stale"} : shown(why)}
  BY DEF ReasonsWithRow
<1> HIDE DEF verdict, raw, shown
<1>8. FailingRows(e, verdict) = ReasonsWithRow(verdict)
  BY <1>4, <1>5, <1>6, <1>7
<1> QED
  BY <1>8 DEF verdict

(* A verdict that is safe without being forced has no broken rule behind   *)
(* it, or no reading at all.                                               *)
LEMMA SafeHasNoBrokenRule ==
  ASSUME NEW e \in Config, NEW i \in Input, NEW t,
         i.hasData <=> i.sensors # None,
         Evaluate(e, i, t).isSafe,
         "force_safe" \notin Evaluate(e, i, t).warnings
  PROVE  \/ i.sensors = None /\ ~e.failClosed
         \/ /\ i.sensors # None
            /\ \A why \in Reasons : ~Breaks(e, i.sensors, why)
<1>1. \A why \in Reasons : ~Gives(e, i, t, why)
  BY DEF Evaluate, ReasonsFor
<1>2. ~(Stage(e, i) = "force_safe" /\ (i.hasData \/ ~e.failClosed))
  BY DEF Evaluate, WarningsFor
<1>3. e.override \in Overrides
  BY DEF Config
<1>4. Stage(e, i) \notin {"disconnected", "force_unsafe", "force_safe"}
  BY <1>1, <1>2 DEF Gives, Reasons
<1>5. CASE Stage(e, i) = "rules"
  <2>1. i.sensors # None
    BY <1>3, <1>5 DEF Stage, Overrides
  <2> QED
    BY <1>1, <1>5, <2>1 DEF Gives
<1>6. CASE Stage(e, i) = "no data"
  <2>1. ~i.hasData
    BY <1>3, <1>6 DEF Stage, Overrides
  <2> QED
    BY <1>1, <1>6, <2>1 DEF Gives, Reasons
<1>7. Stage(e, i) # "nil sensors"
  BY <1>3 DEF Stage, Overrides
<1> QED
  BY <1>3, <1>4, <1>5, <1>6, <1>7 DEF Stage, Overrides
=============================================================================
