----------------------------- MODULE Lifecycle -----------------------------
(***************************************************************************)
(* The life of the process, cmd/sqmeter-ascom-alpaca, around the poller    *)
(* and the discovery responder: start-up, the buttons Restart and Stop of  *)
(* the dashboard, the shutdown and the exit code, by which a service       *)
(* manager decides whether to start the process again.                     *)
(*                                                                         *)
(* Goroutines: main, inside service.Run and then program.Stop; run, which  *)
(* starts the others and waits for them; the poller's Loop; the responder; *)
(* HTTP requests.  The service library is external: Run blocks until       *)
(* somebody has asked for a stop, then calls program.Stop and returns its  *)
(* error.                                                                  *)
(*                                                                         *)
(* Of the requests only refreshes (Clients) and the two buttons matter to  *)
(* a shutdown.  Those that connect, save or store a threshold take no time *)
(* and may come in, like adjustments of the clock, at any moment: the      *)
(* handlers of those accepted go on during the shutdown.                   *)
(***************************************************************************)
EXTENDS Poller

CONSTANTS ShutdownTimeout,  \* of http.Server.Shutdown: 5 s
          StopTimeout,      \* of program.Stop: 10 s
          MaxProbes         \* bound: how many discovery probes are read

ASSUME StopAssumption == /\ ShutdownTimeout \in Nat
                         /\ StopTimeout \in Nat \ {0}
                         /\ MaxProbes \in Nat

VARIABLES
  run,               \* where program.run is
  shutAt,            \* when it called Shutdown
  http,              \* the HTTP server accepts connections
  main,              \* where main is: "service", "stop", "exit"
  stopAt,            \* when program.Stop was called
  stopAsked,         \* service.Stop has been called, or a signal come in
  restartRequested,  \* program.restartRequested
  web,               \* where the goroutine each button has started is
  exit,              \* the exit code
  responder, socket, status,  \* the discovery responder, see Discovery
  first,             \* history: who was the first to ask for the stop
  disturbed          \* history: a refresh was under way during the stop

D == INSTANCE Discovery

discovery == <<responder, socket, status>>
process == <<run, shutAt, http>>
control == <<main, stopAt, stopAsked, restartRequested, web, exit, first>>
lifeVars == <<vars, discovery, process, control, disturbed>>

Buttons == {"restart", "stop"}

(* run has reached its "go" statements.                                    *)
Started == run \in {"serving", "shutdown", "wait", "returned"}

(* run has returned and closed the channel "stopped".                      *)
Returned == run \in {"failed", "returned"}

Refreshing == \E c \in Clients : pc[c] # "idle"

LifeInit ==
  /\ Init
  /\ D!Init
  /\ run = "starting"
  /\ shutAt = None
  /\ http = FALSE
  /\ main = "service"
  /\ stopAt = None
  /\ stopAsked = FALSE
  /\ restartRequested = FALSE
  /\ web = [b \in Buttons |-> "none"]
  /\ exit = None
  /\ first = "nobody"
  /\ disturbed = FALSE

-----------------------------------------------------------------------------
(* program.run *)

(* config.Load, web.New or net.Listen fails: run returns.  main does not   *)
(* notice, and the process stays.                                          *)
StartFails ==
  /\ run = "starting"
  /\ run' = "failed"
  /\ UNCHANGED <<vars, discovery, shutAt, http, control, disturbed>>

(* net.Listen, then the three goroutines.                                  *)
StartServes ==
  /\ run = "starting"
  /\ run' = "serving"
  /\ http' = TRUE
  /\ UNCHANGED <<vars, discovery, shutAt, control, disturbed>>

(* Serve returns an error of the listener; it is logged.                   *)
ServeFails ==
  /\ run = "serving"
  /\ http
  /\ http' = FALSE
  /\ UNCHANGED <<vars, discovery, run, shutAt, control, disturbed>>

(* Mutant: the server is not shut down.                                    *)
Shutdown_KeepsServing ==
  /\ run = "serving"
  /\ ctxDone
  /\ run' = "shutdown"
  /\ shutAt' = now
  /\ UNCHANGED <<vars, discovery, http, control, disturbed>>

(* <-ctx.Done(); Shutdown closes the listener, ...                         *)
Shutdown ==
  /\ run = "serving"
  /\ ctxDone
  /\ run' = "shutdown"
  /\ shutAt' = now
  /\ http' = FALSE
  /\ UNCHANGED <<vars, discovery, control, disturbed>>

(* ... and waits for the requests under way, but not for ever.             *)
ShutdownEnds ==
  /\ run = "shutdown"
  /\ ~Refreshing \/ now >= shutAt + ShutdownTimeout
  /\ run' = "wait"
  /\ UNCHANGED <<vars, discovery, shutAt, http, control, disturbed>>

(* Mutant: the responder is not in the wait group.                         *)
RunReturns_NoResponder ==
  /\ run = "wait"
  /\ pc[Loop] = "stopped"
  /\ run' = "returned"
  /\ UNCHANGED <<vars, discovery, shutAt, http, control, disturbed>>

(* wg.Wait; the deferred close of "stopped"                                *)
RunReturns ==
  /\ run = "wait"
  /\ pc[Loop] = "stopped"
  /\ responder = "done"
  /\ run' = "returned"
  /\ UNCHANGED <<vars, discovery, shutAt, http, control, disturbed>>

-----------------------------------------------------------------------------
(* The two buttons, ServiceRestart and ServiceStop *)

(* The handler answers and starts a goroutine, which sleeps for 200 ms:    *)
(* less than a time unit.                                                  *)
PressButton(b) ==
  /\ http
  /\ web[b] = "none"
  /\ web' = [web EXCEPT ![b] = "answered"]
  /\ UNCHANGED <<vars, discovery, process, main, stopAt, stopAsked,
                 restartRequested, exit, first, disturbed>>

(* service.Stop: whoever comes first has the stop begin.                   *)
AskStop(who) ==
  /\ stopAsked' = TRUE
  /\ first' = IF stopAsked THEN first ELSE who

(* Mutant: the stop is asked for first, and then the restart noted.        *)
StoreRestart_Late ==
  /\ web["restart"] = "answered"
  /\ IF stopAsked
       THEN /\ web' = [web EXCEPT !["restart"] = "done"]
            /\ restartRequested' = TRUE
            /\ UNCHANGED <<stopAsked, first>>
       ELSE AskStop("restart") /\ UNCHANGED <<web, restartRequested>>
  /\ UNCHANGED <<vars, discovery, process, main, stopAt, exit, disturbed>>

(* p.restartRequested.Store(true)                                          *)
StoreRestart ==
  /\ web["restart"] = "answered"
  /\ web' = [web EXCEPT !["restart"] = "stored"]
  /\ restartRequested' = TRUE
  /\ UNCHANGED <<vars, discovery, process, main, stopAt, stopAsked, exit,
                 first, disturbed>>

(* p.svc.Stop(), of either callback                                        *)
CallbackStops(b) ==
  /\ web[b] = IF b = "restart" THEN "stored" ELSE "answered"
  /\ web' = [web EXCEPT ![b] = "done"]
  /\ AskStop(b)
  /\ UNCHANGED <<vars, discovery, process, main, stopAt, restartRequested,
                 exit, disturbed>>

(* A signal, or the service manager.                                       *)
ManagerStops ==
  /\ ~stopAsked
  /\ AskStop("manager")
  /\ UNCHANGED <<vars, discovery, process, main, stopAt, restartRequested,
                 web, exit, disturbed>>

-----------------------------------------------------------------------------
(* main *)

(* service.Run calls program.Stop, which cancels the context.              *)
CallStop ==
  /\ main = "service"
  /\ stopAsked
  /\ Cancel
  /\ main' = "stop"
  /\ stopAt' = now
  /\ disturbed' = Refreshing
  /\ UNCHANGED <<discovery, process, stopAsked, restartRequested, web, exit,
                 first>>

(* Stop returns nil in time; main looks whether a restart was requested.   *)
StopSucceeds ==
  /\ main = "stop"
  /\ Returned
  /\ main' = "exit"
  /\ exit' = IF restartRequested THEN 1 ELSE 0
  /\ UNCHANGED <<vars, discovery, process, stopAt, stopAsked,
                 restartRequested, web, first, disturbed>>

(* <-time.After(10 * time.Second)                                          *)
StopExpired == main = "stop" /\ now >= stopAt + StopTimeout

(* Stop gives up: Run returns its error, and main exits with 1.            *)
StopTimesOut ==
  /\ StopExpired
  /\ main' = "exit"
  /\ exit' = 1
  /\ UNCHANGED <<vars, discovery, process, stopAt, stopAsked,
                 restartRequested, web, first, disturbed>>

-----------------------------------------------------------------------------
(* The others, while the process lives *)

(* Time waits for every step that waits for nothing.                       *)
LifeRunnable ==
  \/ Runnable
  \/ D!Runnable
  \/ \E b \in Buttons : web[b] \in {"answered", "stored"}
  \/ main = "service" /\ stopAsked
  \/ main = "stop" /\ Returned
  \/ StopExpired
  \/ run = "serving" /\ ctxDone
  \/ /\ run = "shutdown"
     /\ ~Refreshing \/ now >= shutAt + ShutdownTimeout
  \/ run = "wait" /\ pc[Loop] = "stopped" /\ responder = "done"

PollerStep ==
  /\ Started
  /\ \/ ~LifeRunnable /\ Tick
     \/ Outside
     \/ PutInPlace
     \/ LoopTick
     \/ LoopStop
     \/ \E a \in Agents : PollStep(a)
  /\ UNCHANGED <<discovery, process, control, disturbed>>

(* A request comes in whose handler refreshes.                             *)
Refresh(c) ==
  /\ http
  /\ CallPollNow(c)
  /\ disturbed' = (disturbed \/ main = "stop")
  /\ UNCHANGED <<discovery, process, control>>

DiscoveryStep ==
  /\ Started
  /\ D!Next
  /\ UNCHANGED <<vars, process, control, disturbed>>

LifeNext ==
  /\ exit = None
  /\ \/ StartFails
     \/ StartServes
     \/ ServeFails
     \/ Shutdown
     \/ ShutdownEnds
     \/ RunReturns
     \/ \E b \in Buttons : PressButton(b)
     \/ StoreRestart
     \/ \E b \in Buttons : CallbackStops(b)
     \/ ManagerStops
     \/ CallStop
     \/ StopSucceeds
     \/ StopTimesOut
     \/ PollerStep
     \/ \E c \in Clients : Refresh(c)
     \/ DiscoveryStep

LifeSpec == LifeInit /\ [][LifeNext]_lifeVars

-----------------------------------------------------------------------------
(* Properties *)

(* Types; and the server accepts requests only while run serves them.      *)
LifeTypeOK ==
  /\ TypeOK
  /\ D!TypeOK
  /\ run \in {"starting", "failed", "serving", "shutdown", "wait",
              "returned"}
  /\ shutAt \in Optional(Int)
  /\ http \in BOOLEAN
  /\ http => run = "serving"
  /\ main \in {"service", "stop", "exit"}
  /\ stopAt \in Optional(Int)
  /\ stopAsked \in BOOLEAN
  /\ restartRequested \in BOOLEAN
  /\ web \in [Buttons -> {"none", "answered", "stored", "done"}]
  /\ exit \in {None, 0, 1}
  /\ first \in Buttons \cup {"manager", "nobody"}
  /\ disturbed \in BOOLEAN

(* A restart that is the first to ask for the stop always ends with the    *)
(* code that has the service manager start the process again, whatever is  *)
(* pressed or stopped besides (main.go 131-135, 338).                      *)
RestartExitsWithOne == first = "restart" /\ exit # None => exit = 1

(* An exit with 0 leaves nothing half way: the loop and the responder have *)
(* returned and the socket is closed, or nothing was ever started.         *)
CleanExitIsQuiet ==
  exit = 0 => \/ run = "failed" /\ responder = "bind" /\ pc[Loop] = "lock"
              \/ /\ pc[Loop] = "stopped"
                 /\ responder = "done"
                 /\ socket \in {"none", "closed"}

(* If no refresh is under way while it stops, a process that nobody asked  *)
(* to restart exits with 0: neither the poll of the loop, wherever it is,  *)
(* nor discovery, nor a failed start can make Stop run into its timeout.   *)
UndisturbedStopIsClean ==
  exit # None /\ ~disturbed /\ ~restartRequested => exit = 0

DiscoveryStatusIsTrue == D!StatusIsTrue

-----------------------------------------------------------------------------
(* What the documentation says and the code does not do *)

(* docs/windows-service.md:49: "Stop - the process exits cleanly (code 0)  *)
(* and stays stopped until manually restarted"; main.go:337.               *)
PlainStopExitsWithZero == exit # None /\ ~restartRequested => exit = 0
=============================================================================
