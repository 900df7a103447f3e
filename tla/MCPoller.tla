------------------------------ MODULE MCPoller ------------------------------
(* Small instances of Poller for TLC: one device; its readings are good.     *)
EXTENDS Poller, TLC

CONSTANTS c1, c2, loop, u1

Clear == [sqm |-> 21, lux |-> 1, light |-> 0, temp |-> 5, hum |-> 50,
          dew |-> 1, pressure |-> 1000, env |-> 0, sky |-> 1, ir |-> 0,
          cloud |-> 10]

OneReading == u1 :> {Clear}

Auto == [url |-> u1, override |-> "auto", failClosed |-> TRUE, poll |-> 1,
         stale |-> 2, cloudUnsafe |-> 80, cloudCaution |-> 50,
         requireLight |-> TRUE, requireEnv |-> TRUE, requireIR |-> TRUE,
         sqmMin |-> None, humMax |-> None, dewMin |-> None]
Early == [Auto EXCEPT !.stale = 1]
Slow == [Auto EXCEPT !.poll = 2, !.sqmMin = 16]

OneConfig == {Auto}
TwoIntervals == {Early, Slow}

Forward == {1}
Back == {-1}
NoStep == {}

(* Bound: the device is connected.  A poll takes as long if it is not.      *)
Connected == connected

(* Bound: what happens before the process stops.                           *)
Running == ~ctxDone
=============================================================================
