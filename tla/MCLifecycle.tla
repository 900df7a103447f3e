----------------------------- MODULE MCLifecycle -----------------------------
(* Small instances of Lifecycle for TLC: one configuration and a device that *)
(* does not answer.  What it answers makes no difference to a stop, how long *)
(* it takes does.                                                            *)
EXTENDS Lifecycle, TLC

CONSTANTS c1, c2, loop, u1

NoAnswer == u1 :> {}

Auto == [url |-> u1, override |-> "auto", failClosed |-> TRUE, poll |-> 1,
         stale |-> 1, cloudUnsafe |-> 80, cloudCaution |-> 50,
         requireLight |-> TRUE, requireEnv |-> TRUE, requireIR |-> TRUE,
         sqmMin |-> 16, humMax |-> None, dewMin |-> None]

OneConfig == {Auto}

NoStep == {}

(* Bound: the device is connected.  A poll takes as long if it is not.       *)
Connected == connected

AnyClient == Permutations(Clients)
=============================================================================
