----------------------------- MODULE MCRuleOrder -----------------------------
(* A small instance of RuleOrder for TLC: each rule is met by a reading on  *)
(* either side of its threshold and by a setting that has it and one that   *)
(* has not.                                                                 *)
EXTENDS RuleOrder

CONSTANT u1

Clear == [sqm |-> 21, lux |-> 2, light |-> 0, temp |-> 5, hum |-> 50,
          dew |-> 1, pressure |-> 1000, env |-> 0, sky |-> -20, ir |-> 0,
          cloud |-> 10]

Readings == {Clear, [Clear EXCEPT !.cloud = 80], [Clear EXCEPT !.cloud = 90],
             [Clear EXCEPT !.sqm = 18], [Clear EXCEPT !.sqm = 15],
             [Clear EXCEPT !.hum = 90], [Clear EXCEPT !.hum = 95],
             [Clear EXCEPT !.dew = 3], [Clear EXCEPT !.dew = 4],
             [Clear EXCEPT !.light = 1], [Clear EXCEPT !.env = 1],
             [Clear EXCEPT !.ir = 1],
             [Clear EXCEPT !.cloud = 90, !.sqm = 15, !.hum = 95, !.dew = 4,
                           !.light = 1, !.env = 1, !.ir = 1]}

Auto == [url |-> u1, override |-> "auto", failClosed |-> FALSE, poll |-> 1,
         stale |-> 2, cloudUnsafe |-> 85, cloudCaution |-> 50,
         requireLight |-> FALSE, requireEnv |-> FALSE, requireIR |-> FALSE,
         sqmMin |-> None, humMax |-> None, dewMin |-> None]
Strict == [Auto EXCEPT !.sqmMin = 16, !.humMax = 92, !.dewMin = 2]
Stricter2 == [Strict EXCEPT !.sqmMin = 18, !.humMax = 85, !.dewMin = 3,
                            !.cloudUnsafe = 80, !.stale = 1]

AllSettings ==
  { [[s EXCEPT !.failClosed = f, !.override = o] EXCEPT
       !.requireLight = q, !.requireEnv = q, !.requireIR = q] :
      s \in {Auto, Strict, Stricter2}, f \in BOOLEAN, o \in Overrides,
      q \in BOOLEAN }

AllInputs ==
  { [connected |-> v, hasData |-> TRUE, sensors |-> r, lastSuccess |-> t,
     lastPoll |-> 0, lastError |-> FALSE] :
      v \in BOOLEAN, r \in Readings, t \in {0, 1} }
  \cup
  { [connected |-> v, hasData |-> d, sensors |-> None, lastSuccess |-> t,
     lastPoll |-> 0, lastError |-> TRUE] :
      v \in BOOLEAN, d \in BOOLEAN, t \in {None, 0} }
=============================================================================
