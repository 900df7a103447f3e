--------------------------- MODULE MCSafetyMonitor ---------------------------
(* Small instances of SafetyMonitor for TLC.  Configurations and readings   *)
(* are told apart by what one handler or one rule sees.                     *)
EXTENDS SafetyMonitor, TLC

CONSTANTS c1, c2, loop, u1, u2

Clear == [sqm |-> 21, lux |-> 2, light |-> 0, temp |-> 5, hum |-> 50,
          dew |-> 1, pressure |-> 1000, env |-> 0, sky |-> -20, ir |-> 0,
          cloud |-> 10]
Sick == [Clear EXCEPT !.sqm = 15, !.temp = -40, !.pressure = 0, !.env = 2]
Warm == [Clear EXCEPT !.temp = 7, !.pressure = 990]

OneReading == u1 :> {Clear}
NoAnswer == u1 :> {}
FewReadings == u1 :> {Sick} @@ u2 :> {Warm}

Auto == [url |-> u1, override |-> "auto", failClosed |-> TRUE, poll |-> 1,
         stale |-> 1, cloudUnsafe |-> 80, cloudCaution |-> 50,
         requireLight |-> TRUE, requireEnv |-> TRUE, requireIR |-> TRUE,
         sqmMin |-> None, humMax |-> None, dewMin |-> None]
Forced == [Auto EXCEPT !.override = "force_unsafe"]
ForcedSafe == [Auto EXCEPT !.override = "force_safe"]
Elsewhere == [Auto EXCEPT !.url = u2, !.failClosed = FALSE, !.sqmMin = 16]
Brighter == [Elsewhere EXCEPT !.sqmMin = 22]

OneConfig == {Auto}
TwoConfigs == {Auto, ForcedSafe}
OverrideConfigs == {Auto, Forced, ForcedSafe}
UrlConfigs == {Auto, Elsewhere, Brighter}

NoStep == {}
Forward == {1}

(* Bound: the device is connected.                                          *)
Connected == connected

(* Bound on the states explored: what happens before the process stops.    *)
Running == ~ctxDone

AnyClient == Permutations({c1, c2})
=============================================================================
