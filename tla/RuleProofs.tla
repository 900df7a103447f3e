----------------------------- MODULE RuleProofs -----------------------------
(***************************************************************************)
(* Proofs that the safety rules are monotone and that the tables of the    *)
(* dashboard agree with them, for all settings, readings and clock values  *)
(* that RuleOrder compares.                                                *)
(***************************************************************************)
EXTENDS RuleOrder, AnswerProofs

(* Within 63 bits a Duration is the number of seconds it is made of.       *)
LEMMA Remainder ==
  ASSUME NEW x \in Nat, NEW m \in Nat \ {0}, x < m
  PROVE  x % m = x
  BY SMT

LEMMA DurationExact ==
  ASSUME NEW n \in Nat, n * Second < DurationLimit
  PROVE  Duration(n) = n * Second
<1>1. /\ n * Second + DurationLimit \in Nat
      /\ 2 * DurationLimit \in Nat \ {0}
      /\ n * Second + DurationLimit < 2 * DurationLimit
      /\ n * Second \in Int
  BY DurationAssumption
<1> QED
  BY <1>1, Remainder, DurationAssumption DEF Duration

LEMMA Product ==
  ASSUME NEW m \in Nat, NEW n \in Nat, m <= n, NEW k \in Nat
  PROVE  m * k <= n * k
  BY SMT

LEMMA UnsafeMeans ==
  ASSUME NEW e, NEW i, NEW t
  PROVE  ~Evaluate(e, i, t).isSafe <=> \E why \in Reasons : Gives(e, i, t, why)
  BY DEF Evaluate, ReasonsFor

(* A setting of the module, and what its durations are.                    *)
LEMMA SettingFacts ==
  ASSUME NEW e \in Settings
  PROVE  /\ e \in Config /\ e.stale \in Nat
         /\ e.stale * Second < DurationLimit
         /\ Duration(e.stale) = e.stale * Second
<1>1. e \in Config /\ e.stale >= 0 /\ e.stale * Second < DurationLimit
  BY CaseAssumption
<1>2. e.stale \in Nat
  BY <1>1 DEF Config
<1> QED
  BY <1>1, <1>2, DurationExact

(* The rules on a reading are monotone in the settings and the reading.    *)
LEMMA BreaksMonotone ==
  ASSUME NEW e \in Config, NEW d \in Config, Stricter(e, d),
         NEW r \in Reading, NEW s \in Reading, WorseReading(r, s),
         NEW why \in Reasons, Breaks(e, r, why)
  PROVE  Breaks(d, s, why)
<1>1. CASE why \in {"light", "env", "ir"}
  BY <1>1 DEF Breaks, Stricter, WorseReading
<1>2. CASE why = "cloud"
  BY <1>2 DEF Breaks, Stricter, WorseReading, Config, Reading
<1>3. CASE why = "sqm"
  BY <1>3, NoneAssumption
     DEF Breaks, Stricter, WorseReading, Config, Reading, Optional, NoLower
<1>4. CASE why = "humidity"
  BY <1>4, NoneAssumption
     DEF Breaks, Stricter, WorseReading, Config, Reading, Optional, NoHigher
<1>5. CASE why = "dew point"
  <2>1. e.dewMin # None /\ r.temp - r.dew < e.dewMin
    BY <1>5 DEF Breaks
  <2>2. d.dewMin # None /\ d.dewMin >= e.dewMin
    BY <2>1 DEF Stricter, NoLower
  <2>3. e.dewMin \in Int /\ d.dewMin \in Int
    BY <2>1, <2>2 DEF Config, Optional
  <2>4. r.temp \in Int /\ r.dew \in Int /\ s.temp \in Int /\ s.dew \in Int
    BY DEF Reading
  <2>5. s.temp - s.dew <= r.temp - r.dew
    BY DEF WorseReading
  <2>6. s.temp - s.dew < d.dewMin
    BY <2>1, <2>2, <2>3, <2>4, <2>5
  <2> QED
    BY <1>5, <2>2, <2>6 DEF Breaks
<1> QED
  BY <1>1, <1>2, <1>3, <1>4, <1>5 DEF Reasons, Breaks

(* Stricter settings, a worse input or a later clock, or all at once: the  *)
(* verdict does not turn safe.                                             *)
LEMMA Monotone ==
  ASSUME NEW e \in Settings, NEW d \in Settings, Stricter(e, d),
         NEW i \in Inputs, NEW j \in Inputs, WorseInput(i, j),
         NEW t \in Int, NEW u \in Int, t <= u,
         NEW why \in Reasons, Gives(e, i, t, why)
  PROVE  \E y \in Reasons : Gives(d, j, u, y)
<1>1. /\ e \in Config /\ d \in Config /\ i \in Input /\ j \in Input
      /\ e.override \in Overrides /\ d.override \in Overrides
  BY CaseAssumption, SettingFacts DEF Config
<1>2. CASE ~j.connected
  <2>1. Gives(d, j, u, "not connected")
    BY <1>2 DEF Gives, Stage
  <2> QED
    BY <2>1 DEF Reasons
<1>3. CASE j.connected /\ d.override = "force_unsafe"
  <2>1. Gives(d, j, u, "force_unsafe")
    BY <1>3 DEF Gives, Stage
  <2> QED
    BY <2>1 DEF Reasons
<1>4. CASE j.connected /\ d.override # "force_unsafe"
  <2>1. i.connected /\ i.hasData = j.hasData
    BY <1>4 DEF WorseInput
  <2>2. e.override # "force_unsafe"
    BY <1>4 DEF Stricter, StricterOverride
  <2>3. CASE ~j.hasData /\ d.failClosed
    <3>1. Gives(d, j, u, "no data")
      BY <1>1, <1>4, <2>3 DEF Gives, Stage, Overrides
    <3> QED
      BY <3>1 DEF Reasons
  <2>4. CASE j.hasData \/ ~d.failClosed
    <3>1. Stage(e, i) \in {"nil sensors", "rules"}
      BY <1>1, <2>1, <2>2, <2>4 DEF Gives, Stage, Overrides, Stricter
    <3>2. e.override = "auto" /\ i.hasData
      BY <1>1, <2>1, <2>2, <3>1 DEF Stage, Overrides
    <3>3. d.override = "auto" /\ j.hasData
      BY <1>4, <2>1, <3>2 DEF Stricter, StricterOverride
    <3>4. /\ i.sensors = None <=> j.sensors = None
          /\ Stage(e, i) = "nil sensors" <=> i.sensors = None
          /\ Stage(d, j) = "nil sensors" <=> j.sensors = None
          /\ Stage(d, j) \in {"nil sensors", "rules"}
      BY <1>4, <2>1, <3>2, <3>3 DEF Stage, WorseInput
    <3>5. Gives(d, j, u, why)
      <4>1. CASE why = "stale"
        <5>1. Stale(e, i, t)
          BY <3>1, <4>1 DEF Gives, Breaks
        <5>2. /\ i.lastSuccess # None /\ j.lastSuccess # None
              /\ i.lastSuccess \in Int /\ j.lastSuccess \in Int
              /\ j.lastSuccess <= i.lastSuccess
          BY <1>1, <5>1 DEF Stale, WorseInput, Input, Optional
        <5>3. /\ Duration(d.stale) <= Duration(e.stale)
              /\ Duration(d.stale) \in Int /\ Duration(e.stale) \in Int
          <6>1. d.stale <= e.stale /\ d.stale \in Nat /\ e.stale \in Nat
            BY SettingFacts DEF Stricter
          <6>2. Second \in Nat
            BY DurationAssumption
          <6>3. d.stale * Second <= e.stale * Second
            BY <6>1, <6>2, Product
          <6> QED
            BY <6>1, <6>2, <6>3, SettingFacts
        <5>4. Stale(d, j, u)
          BY <5>1, <5>2, <5>3 DEF Stale
        <5> QED
          BY <3>4, <4>1, <5>4 DEF Gives
      <4>2. CASE why = "nil sensors" /\ Stage(e, i) = "nil sensors"
        BY <3>1, <3>4, <4>2 DEF Gives, Stricter
      <4>3. CASE Stage(e, i) = "rules" /\ Breaks(e, i.sensors, why)
        <5>1. /\ i.sensors # None /\ j.sensors # None
              /\ i.sensors \in Reading /\ j.sensors \in Reading
              /\ WorseReading(i.sensors, j.sensors)
          BY <1>1, <3>4, <4>3 DEF WorseInput, Input, Optional
        <5>2. Breaks(d, j.sensors, why)
          BY <1>1, <4>3, <5>1, BreaksMonotone
        <5> QED
          BY <3>4, <5>1, <5>2 DEF Gives
      <4> QED
        BY <3>1, <4>1, <4>2, <4>3 DEF Gives
    <3> QED
      BY <3>5
  <2> QED
    BY <2>3, <2>4
<1> QED
  BY <1>2, <1>3, <1>4

(* Nothing is worse or stricter than itself by less than itself.           *)
LEMMA Reflexive ==
  /\ \A e \in Settings : Stricter(e, e)
  /\ \A i \in Inputs : WorseInput(i, i)
<1>1. ASSUME NEW e \in Settings PROVE Stricter(e, e)
  <2>1. e \in Config
    BY SettingFacts
  <2> QED
    BY <2>1 DEF Stricter, StricterOverride, NoLower, NoHigher, Config,
                Optional
<1>2. ASSUME NEW i \in Inputs PROVE WorseInput(i, i)
  <2>1. i \in Input
    BY CaseAssumption
  <2>2. i.sensors # None => WorseReading(i.sensors, i.sensors)
    BY <2>1 DEF Input, Optional, WorseReading, Reading
  <2> QED
    BY <2>1, <2>2 DEF WorseInput, Input, Optional
<1> QED
  BY <1>1, <1>2

Cases == c \in Settings /\ in \in Inputs /\ clock \in Clocks

LEMMA CasesInvariant == RulesSpec => []Cases
<1>1. RulesInit => Cases
  BY DEF RulesInit, Cases
<1>2. Cases /\ [RulesNext]_vars => Cases'
  BY DEF Cases, RulesNext, Tighten, Worsen, Wait, vars
<1> QED
  BY <1>1, <1>2, PTL DEF RulesSpec

(* No rule of Evaluate masks another: while settings only get stricter,    *)
(* readings worse and data older, an unsafe verdict stays unsafe, in       *)
(* whatever order this happens (evaluator.go 35-157).                      *)
THEOREM RulesMonotone == RulesSpec => NeverSaferWhenWorse
<1>1. Cases /\ Cases' /\ [RulesNext]_vars => [Unsafe => Unsafe']_vars
  <2> SUFFICES ASSUME Cases, Cases', RulesNext, Unsafe PROVE Unsafe'
    OBVIOUS
  <2>1. PICK why \in Reasons : Gives(c, in, clock, why)
    BY UnsafeMeans DEF Unsafe
  <2>2. Stricter(c, c') /\ WorseInput(in, in') /\ clock <= clock'
    BY Reflexive, CaseAssumption
       DEF Cases, RulesNext, Tighten, Worsen, Wait
  <2>3. \E y \in Reasons : Gives(c', in', clock', y)
    BY <2>1, <2>2, Monotone, CaseAssumption DEF Cases
  <2> QED
    BY <2>3, UnsafeMeans DEF Unsafe
<1> QED
  BY <1>1, CasesInvariant, PTL DEF RulesSpec, NeverSaferWhenWorse

-----------------------------------------------------------------------------
(* The tables of the dashboard never contradict the verdict they are shown *)
(* with: the rows that fail are its reasons, and a sensor has a value in   *)
(* the table exactly if the API would answer one.  The poller keeps        *)
(* hasData true once it has a reading (PollOrder), as is assumed here.     *)
THEOREM PagesAgree ==
  ASSUME \A i \in Inputs : i.sensors # None => i.hasData
  PROVE  RulesSpec => []PageAgreesWithVerdict
<1>1. Cases => PageAgreesWithVerdict
  <2> SUFFICES ASSUME Cases PROVE PageAgreesWithVerdict
    OBVIOUS
  <2>1. c \in Config /\ in \in Input /\ (in.sensors # None => in.hasData)
    BY SettingFacts, CaseAssumption DEF Cases
  <2>2. \A p \in Sensors : PageShows(p, Evaluate(c, in, clock)) <=>
                           ~SensorFails(p, Evaluate(c, in, clock))
    BY SameSensor
  <2> QED
    BY <2>1, <2>2, TableRepeatsVerdict DEF PageAgreesWithVerdict
<1> QED
  BY <1>1, CasesInvariant, PTL
=============================================================================
