--------------------------- MODULE SafetyPromise ---------------------------
(***************************************************************************)
(* What whoever reads a verdict of the bridge may rely on, without the     *)
(* goroutines, the mutex, the ticker and the requests that bring it about: *)
(* there is never more than one poll, it judges by the configuration it    *)
(* began with, on what the device of that configuration answered, or, if   *)
(* it did not answer, on what is known from before; and nothing but the    *)
(* end of a poll changes the verdict.  Poller implements this.             *)
(*                                                                         *)
(* Not every part of a configuration can be held on to: some numbers may   *)
(* be overwritten where they stand, in the live configuration and in that  *)
(* of the poll.  Alike says which two configurations differ in those only. *)
(***************************************************************************)
EXTENDS Integers

CONSTANTS None,
          Configs,            \* the configurations a user may save
          Device,             \* Device[u]: what the device at u may answer
          FirstVerdict,       \* before any poll has ended
          Judge(_, _, _),     \* configuration, input, time: the verdict
          Alike(_, _)         \* differ in nothing but overwritable numbers

VARIABLES wall,               \* the system clock
          cfg, connected,     \* what users and clients set
          verdict,            \* what clients read
          poll,               \* the poll under way, or NoPoll
          evidence            \* the last reading, and how the last poll went

vars == <<wall, cfg, connected, verdict, poll, evidence>>

NoPoll == [cfg |-> None, at |-> None, connected |-> FALSE, stage |-> "idle"]
NoEvidence == [reading |-> None, at |-> None, failed |-> FALSE]

Init ==
  /\ wall \in Int
  /\ cfg \in Configs
  /\ connected \in BOOLEAN
  /\ verdict = FirstVerdict
  /\ poll = NoPoll
  /\ evidence = NoEvidence

(* Someone, the schedule or a client, has the device asked.                *)
Begin ==
  /\ poll.stage = "idle"
  /\ poll' = [cfg |-> cfg, at |-> wall, connected |-> FALSE,
              stage |-> "fetch"]
  /\ UNCHANGED <<wall, cfg, connected, verdict, evidence>>

(* The device has answered, or has not.                                    *)
Learn ==
  /\ poll.stage = "fetch"
  /\ poll' = [cfg |-> poll.cfg, at |-> poll.at, connected |-> connected,
              stage |-> "publish"]
  /\ \/ \E r \in Device[poll.cfg.url] :
          evidence' = [reading |-> r, at |-> poll.at, failed |-> FALSE]
     \/ evidence' = [reading |-> evidence.reading, at |-> evidence.at,
                     failed |-> TRUE]
  /\ UNCHANGED <<wall, cfg, connected, verdict>>

(* safety.Input                                                            *)
Known == [connected |-> poll.connected, hasData |-> evidence.reading # None,
          sensors |-> evidence.reading, lastSuccess |-> evidence.at,
          lastPoll |-> poll.at, lastError |-> evidence.failed]

Conclude ==
  /\ poll.stage = "publish"
  /\ poll' = NoPoll
  /\ verdict' = Judge(poll.cfg, Known, wall)
  /\ UNCHANGED <<wall, cfg, connected, evidence>>

(* Meanwhile the clock moves, and users and clients do as they like.       *)
Others ==
  /\ \/ wall' \in Int /\ UNCHANGED <<cfg, connected>>
     \/ cfg' \in Configs /\ UNCHANGED <<wall, connected>>
     \/ connected' \in BOOLEAN /\ UNCHANGED <<wall, cfg>>
  /\ UNCHANGED <<verdict, poll, evidence>>

Overwritten(c) == {d \in Configs : Alike(c, d)}

(* Numbers are overwritten, in one of the configurations or in both.       *)
Overwrite ==
  /\ cfg' \in Overwritten(cfg)
  /\ \/ poll' = poll
     \/ /\ poll.stage # "idle"
        /\ \E d \in Overwritten(poll.cfg) : poll' = [poll EXCEPT !.cfg = d]
  /\ UNCHANGED <<wall, connected, verdict, evidence>>

Next == Begin \/ Learn \/ Conclude \/ Others \/ Overwrite

Spec == Init /\ [][Next]_vars
=============================================================================
