----------------------------- MODULE RuleOrder -----------------------------
(***************************************************************************)
(* The safety rules are monotone: whatever gets worse around a verdict, it *)
(* does not turn from unsafe to safe.  A step makes the settings stricter, *)
(* or the weather, the sensors, the connection or the age of the data      *)
(* worse; the rules are those of SafetyRules.  In every situation that is  *)
(* met on the way the tables of the dashboard are compared with the rules. *)
(*                                                                         *)
(* Two directions that look like "worse" are left out because the rules    *)
(* are not monotone in them: losing the data altogether, which with        *)
(* FAIL_CLOSED=false turns a bad reading into "safe" (the poller never     *)
(* forgets a reading), and a STALE_AFTER_SECONDS whose nanoseconds do not  *)
(* fit 63 bits, which wraps round to a shorter one.                        *)
(***************************************************************************)
EXTENDS Answers

CONSTANTS Settings,   \* configurations to compare
          Inputs,     \* inputs of Evaluate to compare
          Clocks      \* values of time.Now() to compare

ASSUME CaseAssumption ==
  /\ Settings \subseteq {c \in Config : /\ c.stale >= 0
                                        /\ c.stale * Second < DurationLimit}
  /\ Inputs \subseteq Input
  /\ Clocks \subseteq Int

VARIABLES c, in, clock

vars == <<c, in, clock>>

-----------------------------------------------------------------------------
(* A threshold that is absent holds for everything.                        *)
NoLower(a, b) == a # None => b # None /\ b >= a
NoHigher(a, b) == a # None => b # None /\ b <= a

(* From force_safe over auto to force_unsafe.                              *)
StricterOverride(o, p) == \/ o = p
                          \/ o = "force_safe"
                          \/ p = "force_unsafe"

(* Settings d refuse what settings e refuse.                               *)
Stricter(e, d) ==
  /\ StricterOverride(e.override, d.override)
  /\ e.failClosed => d.failClosed
  /\ e.requireLight => d.requireLight
  /\ e.requireEnv => d.requireEnv
  /\ e.requireIR => d.requireIR
  /\ d.stale <= e.stale
  /\ d.cloudUnsafe <= e.cloudUnsafe
  /\ NoLower(e.sqmMin, d.sqmMin)
  /\ NoHigher(e.humMax, d.humMax)
  /\ NoLower(e.dewMin, d.dewMin)

(* A sensor does not get well, the sky not darker or clearer, the air not  *)
(* drier.                                                                  *)
WorseReading(r, s) ==
  /\ r.light # 0 => s.light # 0
  /\ r.env # 0 => s.env # 0
  /\ r.ir # 0 => s.ir # 0
  /\ s.cloud >= r.cloud
  /\ s.sqm <= r.sqm
  /\ s.hum >= r.hum
  /\ s.temp - s.dew <= r.temp - r.dew

(* The connection is lost, the reading worse, the last success older.      *)
WorseInput(i, j) ==
  /\ j.connected => i.connected
  /\ i.hasData = j.hasData
  /\ \/ i.sensors = None /\ j.sensors = None
     \/ i.sensors # None /\ j.sensors # None
        /\ WorseReading(i.sensors, j.sensors)
  /\ \/ i.lastSuccess = None
     \/ i.lastSuccess # None /\ j.lastSuccess # None
        /\ j.lastSuccess <= i.lastSuccess

-----------------------------------------------------------------------------
RulesInit == c \in Settings /\ in \in Inputs /\ clock \in Clocks

Tighten == /\ c' \in {d \in Settings : Stricter(c, d)}
           /\ UNCHANGED <<in, clock>>

Worsen == /\ in' \in {j \in Inputs : WorseInput(in, j)}
          /\ UNCHANGED <<c, clock>>

Wait == /\ clock' \in {t \in Clocks : t >= clock}
        /\ UNCHANGED <<c, in>>

RulesNext == Tighten \/ Worsen \/ Wait

RulesSpec == RulesInit /\ [][RulesNext]_vars

(* A verdict that is unsafe stays unsafe while things only get worse: no   *)
(* rule of Evaluate masks another (evaluator.go 35-157), in whatever order *)
(* the settings, the readings and the clock change.                        *)
Unsafe == ~Evaluate(c, in, clock).isSafe

NeverSaferWhenWorse == [][Unsafe => Unsafe']_vars

(* The two tables of the dashboard repeat what the evaluator and the API   *)
(* decide elsewhere, and agree with them: the Safety Rules table fails the *)
(* rules that made the verdict unsafe, those of unhealthy sensors aside,   *)
(* and the Observing Conditions table has a value for the properties the   *)
(* API would answer.                                                       *)
PageAgreesWithVerdict ==
  LET verdict == Evaluate(c, in, clock)
  IN /\ \A p \in Sensors : PageShows(p, verdict) <=> ~SensorFails(p, verdict)
     /\ ByTheRules(verdict) /\ verdict.raw # None =>
          FailingRows(c, verdict) = ReasonsWithRow(verdict)
=============================================================================
