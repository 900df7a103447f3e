# Verification of sqmeter-ascom-alpaca

The program is a bridge: it polls a SQMeter (a sky-quality sensor with an HTTP
API), judges the readings by a set of safety rules, and answers ASCOM Alpaca
clients - an observatory's automation - that ask whether it is safe to keep the
roof open. This directory holds TLA+ models of it, the TLC runs that check them
and proofs for TLAPS. `PROJECT.json` lists runs, findings, hazards, theorems and
which lines of the source each definition translates.

## The system

| Component | Source | State | Operations | Hard about it | Correct means |
|---|---|---|---|---|---|
| Safety rules | `internal/safety` | none | `Evaluate(cfg, input)` | early returns next to accumulating rules; ages from a wall clock; `time.Duration` overflow | no rule masks another; "safe" only with a reason to be |
| Poller | `internal/poller` | last poll, last success, last reading, last error, client; one mutex | `Run` (one goroutine, one-second ticker), `PollNow` (request goroutines) | mutex held over a 10 s fetch; configuration read before, connection read after it; time stamp shared between schedule and refreshes | polls keep coming, verdicts appear in order, age of the data behind "safe" bounded |
| State holder | `internal/state` | connected flag, verdict | `SetConnected`, `IsConnected`, `Update`, `Get` | readers take flag and verdict under two locks | a verdict is read whole |
| SQMeter client | `internal/sqmclient` | none | `FetchSensors` | timeout, cancellation, odd bodies | an error, or a reading of this URL |
| Configuration | `internal/config` | live pointer, file, backups | `Load`, `Holder.Get`, `Holder.Update`, migration | non-atomic file writes, concurrent saves, shared `*float64`, crashes | what is saved is what a restart loads; nothing refused has an effect |
| SafetyMonitor device | `internal/alpaca/handlers.go` | transaction counter | `issafe`, `devicestate`, `connected`, `action` | several reads per request, polls in between | answers the verdict; a refresh answers a new one |
| ObservingConditions device | `internal/alpaca/observingconditions.go` | transaction counter | thirteen properties, `timesincemeasurement`, `refresh` | availability from one part of the verdict, value from another | an answered value was measured |
| Web pages | `internal/web` | none | dashboard, `/health`, `/status.json`, setup, config API, diagnostics, service control | rules repeated for the page; copy-and-save of the configuration | pages agree with the API |
| Discovery | `internal/discovery` | status record | UDP responder | error paths of the read loop | status tells the truth |
| Process | `cmd/sqmeter-ascom-alpaca` | context, restart flag | start, stop, restart | shutdown against a poll or a save under way | stops in time; restarts only when asked |

They interact by calls. `main` loads the configuration and starts three
goroutines: the poller, discovery and the HTTP server, which runs each request
in a goroutine of its own. Requests reach the poller only through the callback
`PollNow`; everything else goes through the two holders.

## The modules

| Module | Models | Extends |
|---|---|---|
| `SafetyRules` | the rules and the data types, as operators | |
| `Answers` | what handlers and dashboard tables make of a verdict, as operators | `SafetyRules` |
| `RuleOrder` | the rules under change: everything that can get worse | `Answers` |
| `SafetyPromise` | abstract: what whoever reads a verdict may rely on | |
| `Poller` | poller, state holder, fetch, live configuration, clocks; its refinement of `SafetyPromise` | `SafetyRules` |
| `SafetyMonitor` | the two Alpaca devices and the status pages: their requests | `Poller`, `Answers` |
| `Discovery` | the discovery responder and its status | |
| `Lifecycle` | the process: start-up, buttons, signals, shutdown, exit code, around poller and responder | `Poller`, an instance of `Discovery` |
| `ConfigStore` | configuration in memory and on disk, start-up, saves, crashes | |
| `AnswerProofs` | lemmas about `Answers` | `Answers` |
| `RuleProofs` | the rules are monotone, the pages agree with them | `RuleOrder`, `AnswerProofs` |
| `PollerProofs` | theorems about `Poller`: types, mutual exclusion, time | `Poller` |
| `PollOrderProofs` | theorems about `Poller` that need no clock | `PollerProofs` |
| `PromiseProofs` | `Poller` implements `SafetyPromise` | `PollOrderProofs` |
| `MonitorProofs` | theorems about the requests | `SafetyMonitor`, `PromiseProofs`, `AnswerProofs` |
| `LifecycleProofs` | theorems about the process | `Lifecycle`, `PromiseProofs` |
| `ConfigProofs` | theorems about the configuration | `ConfigStore` |
| `MC...` | small instances for TLC | the module of the name |

### SafetyRules

`Evaluate(c, in, clock)` is `safety.Evaluate`. `Stage` is how far the function
gets before it returns; `Gives` the reasons appended on the way; `Breaks` the
seven rules on a reading. Readings and thresholds are integers, since the rules
only compare them and subtract one from another; a reason is named by its rule,
so the lists of reasons and warnings are sets. `Duration` wraps like a signed
64-bit number of nanoseconds, with the limit a constant. `Thresholds` are the three
fields that are pointers to a number. `Plain` is what of a configuration a copy of the
struct has for itself; two configurations are `Alike` if they differ in nothing but
numbers that can be stored through such pointers.

### Poller

One action per stretch of code that no other goroutine can come into:

| Action | Code |
|---|---|
| `LoopTick`, `LoopStop` | the two cases of `Run`'s `select`; `Due` is read without the mutex |
| `CallPollNow` | a handler calls `PollNow` and waits for the mutex |
| `PollBegin` | `Lock`, the configuration, the client of a new URL, the time stamps |
| `FetchOk`, `FetchFail` | the answer, the poller's fields, and `IsConnected` |
| `Publish` | `Evaluate`, `Update`, the deferred `Unlock`; `Run`'s ticker after its first poll |
| `SetConnected`, `SaveConfig`, `Cancel` | what handlers and `main` may do between any two of them |
| `StoreThreshold` | `json.Unmarshal` of a PUT, accepted later or not, stores a threshold through a shared pointer |
| `Tick`, `ClockStep` | real time; the wall clock |

`now` is real time, `wall` is what `time.Now().UTC()` gives, which has no
monotonic part. Both advance with `Tick`, which waits for every step that waits
for nothing (`Runnable`), so all code but the fetch takes no time; a fetch takes
from 0 to `FetchTimeout`. A second holds `Second` time units: with more than one,
ticks and polls fall between the ticks of the code's one-second ticker. `ghost`
records when things happened in real time and is never read by an action.

`doPoll` holds on to a pointer to the configuration (poller.go:79) and reads the
thresholds through it when it judges (poller.go:111). Nobody writes the struct, but a
PUT writes the numbers its thresholds point to, before it knows whether it will be
refused. So a poll has its configuration in `local` and, in `shares`, the thresholds
whose variables are the live configuration's as well. `SaveConfig` leaves any of those
shared that have the same value, since the new struct is a copy of the live one, or of
an earlier one, with some pointers replaced; `StoreThreshold` stores into the live
configuration, that of the poll under way, or both. That `Evaluate` reads its three
thresholds one after the other is taken as one step; each read is of one word on the
platforms the project builds for.

`ClockStep` moves the wall clock by any member of `ClockSteps`, as long as it stays
within `MaxBehind` and `MaxAhead` of real time. `Setback`, what it may fall back by
altogether, is zero if all steps are forward, and otherwise the width of that range.

### SafetyPromise

The same bridge without goroutines, mutex, ticker or requests: one poll at a time
(`Begin`, `Learn`, `Conclude`), which judges by the configuration it began with, on
what the device of that configuration answered or on what is known from before; and
whatever else happens (`Others`) leaves the verdict and the poll alone. The one
exception is named: numbers that are stored in place (`Overwrite`) may change in the
configuration of the poll as in the live one. URL, override, FAIL_CLOSED, the required
sensors, the cloud limits, the times, and whether there is a threshold at all, are those
the poll began with. `Promise` in `Poller` is
the refinement mapping: the poll under way is that of the goroutine that holds the
mutex, what is known is in the fields of `Poller`. `PollBegin` is a `Begin`,
`FetchOk` and `FetchFail` are a `Learn`, `Publish` is a `Conclude`, saves, connection
changes and the clock are `Others`, `StoreThreshold` is an `Overwrite`; everything else (waiting, ticks, the stop)
stutters.

### Answers and SafetyMonitor

A handler is a sequence of reads of the two holders and at most one refresh
(`DeviceScript`, `SensorScript`, ...), each a step of its own; its answer is an
operator of what it has read (`AnswersError`; in `Answers`, `SensorFails` and
`SensorValue`). `PageShows` and `FailingRows`, also in `Answers`, are the two
tables of the dashboard, which repeat decisions of the API and of the evaluator.
`order` records which requests a poll began after (`begun`, `published`) and which have
seen no save since they came in (`steady`); `judged`, in a request, is the
configuration the verdict it read was judged by. Neither is read by an action.
The dashboard, too, keeps a pointer to the configuration until its page is written:
`StoreUnderPages` is a `StoreThreshold` that may change the thresholds of such pages.

### Discovery and Lifecycle

`Discovery` is `Responder.Run` and the goroutine that closes its socket. A read may
fail at any time; a socket may break, so that no read succeeds any more. The record
`status` changes as a whole, since each change and `GetStatus` take its lock; the
time stamps in it are the numbers of the probes they were taken for.

`Lifecycle` is everything else that decides how the process ends:

| Action | Code |
|---|---|
| `StartFails`, `StartServes` | `run` up to its `go` statements |
| `ServeFails` | the listener breaks; the error is logged |
| `Shutdown`, `ShutdownEnds`, `RunReturns` | `<-ctx.Done()`, `Server.Shutdown` and its 5 s, `wg.Wait`, the close of `stopped` |
| `PressButton` | `ServiceRestart`, `ServiceStop`: the answer and the goroutine with its delay |
| `StoreRestart`, `CallbackStops` | the callbacks: the flag, and then `svc.Stop` |
| `ManagerStops` | a signal or the service manager |
| `CallStop`, `StopSucceeds`, `StopTimesOut` | `program.Stop` with its 10 s and the end of `main` |
| `PollerStep` | the poller, and what may happen to it at any moment: saves, thresholds stored in place, connections, adjustments of the clock |
| `Refresh`, `DiscoveryStep` | the other goroutines, while the process lives |

The service library is external: its `Run` blocks until somebody asks for a stop,
then calls `program.Stop`. Of the requests only refreshes matter to a stop, because
only they hold the poller's mutex; those that save or connect take no time. That no
stop takes longer than the ten seconds of `Stop` is its `select`, and not stated as a
property; what is one is how the process ends within them. Time waits here too for every step that waits for
nothing (`LifeRunnable`). `first` and `disturbed` are history.

### ConfigStore

`Start` is `Load` and the version check; `BackupOpen` ... `RewriteWrite` the
migration, each step of which may be the last (`Crash`) or fail
(`MigrationFails`). A save is `PutConfigJSON` or `PostSetup` (the copy of the live
struct, up to `validate`), `SaveOpen` (marshal, truncate), `SaveWrite`, `Swap`, or
`SaveFails`. The struct has one threshold, a pointer into `heap`, and `base`, all
other fields together; what a PUT or a form may contain is a set of bodies. `BodyCell`
and `FormCell` are where each handler puts a threshold: in the variable that is there,
which the live configuration may share, or in one of its own. `ask`, history, is what a
request asked for, until another one comes into its middle.
The file is a document, nothing (`Empty`), or unreadable (`Torn`): a write over
longer bytes leaves their end behind the new document, which JSON does not allow.
`Network` is the part of the plain fields that is used at start-up only (bind address
and ports): `bound` is what the process listens with, `announced` that one of its
answers has listed them as needing a restart.
Losing bytes the operating system has accepted (a power cut) is not modelled.

## What is checked

Passing runs:

| Run | Question | Bounds |
|---|---|---|
| `rule_order` | `NeverSaferWhenWorse`: settings stricter, reading worse, connection lost, time passing - never from unsafe to safe. `PageAgreesWithVerdict` in each situation on the way | each rule met on both sides of its threshold, with the setting on and off; 6480 cases |
| `poller_time` | `TypeOK` (the mutex protects doPoll), `ConfigAdopted`, `PollsKeepComing`, `VerdictFresh` and the invariant of the proofs (`Clockwork`) | intervals 1 and 2, saved at any moment; the clock is set back by 1 at any moment; one client and the loop; 8 s, one more than the longest of the bounds |
| `poller_live` | `PublishInOrder`, `RefreshReturns`, `LoopStops` | two clients and the loop in the mutex's queue; the wall clock may jump ahead |
| `monitor_refresh` | `MonitorTypeOK`, `RefreshShowsNewPoll`, `RefreshIsConsistent` (thresholds aside, which the answer does not show) | two clients, refreshes of both devices, the loop; two configurations, with and without an override, saved at any moment; clients are symmetric |
| `monitor_answers` | of answers: `SensorValueIsReal`, `DashboardAgrees`, `SafeAnswerIsBacked`; of verdicts: `SafeIsJustified`, `CleanVerdictIsCurrent`, and `PollOrder`, the invariant of their proofs; `KeepsPromise`: all of it implements `SafetyPromise` | `issafe`, the dashboard, a refresh and a sensor served from each of the two sources; healthy and sick readings; three configurations: no threshold; another URL, a threshold of 16 and FAIL_CLOSED=false; the same with 22, which the good reading breaks; both numbers stored in place at any moment, the fetch included; no time passes, and the clock may be set forward once, also in the middle of a poll (no reading gets stale: that is for `poller_time`): polls, saves and stores are not limited |
| `store_start` | `TypeOK`, `ReadableFileLoads`, `MigrationKeepsSettings`, `RestartKeepsConfig`, `RestartAnnounced`, `SaveDoesAsAsked` | version-0 file, two requests, a version from the future, two kinds of ports, two crashes, any write failing |
| `life_stop` | `LifeTypeOK`, `RestartExitsWithOne`, `CleanExitIsQuiet`, `UndisturbedStopIsClean`, `DiscoveryStatusIsTrue` | stop or restart at any moment; two refreshes and the loop; one probe; fetch 2, shutdown 1, stop 2, time up to 3 |

Time is bounded by `MaxTime`; each bound lets every period that a run's properties
add up (interval, ticker, two fetches) pass once and end. Two clients suffice for
queues: with the loop, the mutex then has a holder and two in its queue.
`life_stop` keeps the order of the code's timeouts, a shutdown shorter than a fetch
and a fetch as long as the stop (5, 10 and 10 s): a refresh outlives the shutdown, and
a stop runs out with one fetch under way or queued. In `doc_stop` the stop is longer
than a fetch, to show that the queue, not one slow fetch, is enough.
`poller_time` and `monitor_answers` look at the process before it stops (the constraint
`Running`); `poller_live` covers the stop. In `poller_time`, `monitor_refresh`,
`life_stop` and `doc_stop` the device is connected (`Connected`), as a poll takes the
same time, and answers the same settings, if it is not. In `poller_time` and `life_stop`
a threshold is only stored at the value it has: with other values the time of a run does
not allow it, and `monitor_answers` has those, while that `ConfigAdopted` holds for them
too is left to the proof. The runs of the process have one configuration and no
adjustments of the clock, since their properties do not look at what those change; the
theorems about the process have both. `DurationLimit` is 100 in all runs, above every
duration in them: the overflow of `time.Duration` is covered by the proofs alone.
Seconds are whole in the runs, and the clock of `poller_time` is set back once: half
seconds and clocks that go back and forth are left to the proofs, which hold for any
`Second` and any adjustments. `RestartKeepsConfig` speaks of rest, no write having
failed half way, and no race (`raced`): the races are the subject of `store_race` and
`store_mutated`. Deadlock is checked in all runs but `life_stop` and `doc_stop`, in
which the process exits and nothing more happens.

Violations show where a doc or a comment and the code part (`findings`):
`/health` mixes the connection of now with the verdict of then (`doc_health`); under
an override some sensors answer zeros (`doc_silent_value`); a plain stop exits with
1 when refreshes wait for the poller's mutex, so that a service manager starts the
process again (`doc_stop`: docs/windows-service.md:49, main.go:69 and 337). Of the
configuration: overlapping saves leave memory and disk apart (`store_race`), and a
PUT that is refused, for another of its fields or for a wrong type, has changed the live
threshold by then (`store_mutated`: the property allows for saves that begin, and looks
at requests that have nothing left to do). `doc_silent_value` reads README.md:106, "When a
sensor is temporarily unavailable", as: whenever the verdict has no value to serve.

Other places where code and documentation differ, seen in the model but without a
run of their own:

* README.md:72 makes data older than `STALE_AFTER_SECONDS` unsafe; the verdict is
  judged when a poll ends and served until the next, so `issafe` may be an interval
  and a fetch behind. `VerdictFresh` states what does hold.
* docs/configuration.md:71 has `force_unsafe` applied immediately; it waits for the
  next poll. `ConfigAdopted` states how long.
* README.md:79 says that the pages always show a reason for an unsafe state; before
  the first poll has ended there is none (state.go:44).
* docs/configuration.md:59 gives the interval in seconds; it is measured on the wall
  clock (poller.go:62), so no scheduled poll comes after the clock was set back,
  until it has caught up. `PollsKeepComing` and `VerdictFresh` say how much that adds
  (`Setback`).
* docs/nina.md:78 has ObservingConditions answer errors when the SQMeter is
  unreachable; the sensors answer the last reading, however old
  (observingconditions.go:213).
* README.md:70 makes an unreachable device unsafe; a failed poll is judged on the last
  reading, and is unsafe only once that is stale (evaluator.go:66).
* A PUT may send a `config_version`; it is accepted and written as it is
  (holder.go:36), and a number above the current one (config.go:42) is refused at the
  next start. `ReadableFileLoads` and `RestartKeepsConfig` name the exception
  (`SentNewer`): a version above the current one that some PUT has sent.
* `discovery.healthy` stays true while every read fails (discovery.go:93), and a probe
  counts as answered although the write failed (discovery.go:106).
* A start that fails after the service has begun (main.go:81-172) leaves a process
  that serves nothing, and that a service manager takes for running.
* A restart pressed while a plain stop is under way still turns its exit code into 1
  (main.go:133): the last button wins.
* A UUID file that cannot be written is ignored (main.go:356), although the caller has
  a warning for that case (main.go:145).
* A saved port that goes back to what the process listens with is also answered with
  "restart required" (config.go:139 compares with the configuration before).

### Fairness

`FairSpec` assumes that the loop takes a tick that waits, that a fetch ends, since the
HTTP client has a timeout, and that the poll is then published, since the code after the
fetch waits for short locks only. `PollBegin` is strongly fair because a Go mutex passes
to a goroutine that has waited for a millisecond; `LoopStop` because a `select` with two
ready cases picks one at random. No fairness is assumed of clients, of the device, of
saves or of time. Only `poller_live` uses it.

## What is proved

`PollerProofs` proves, for any clients, configurations, devices, timeouts and
time unit that satisfy the assumptions of `SafetyRules` and `Poller`:

* `TypeCorrect`: `Spec => []TypeOK`. Besides types it holds the mutual exclusion:
  a goroutine is inside `doPoll` exactly if it holds the mutex.
* `ClockworkInvariant`: `Clockwork` is inductive together with `TypeOK`. Nothing is
  assumed of the wall clock but its range.
* `Polling`, `Freshness`, `Adoption`: `PollsKeepComing`, `VerdictFresh` and
  `ConfigAdopted` follow from it.

Why the invariant is what it is. That polls keep coming is a fact about the next tick of
the loop: `TickInTime` says that it falls within an interval and a tick of the last
begun poll or the last published one, `NextPollInTime` that the time since the last
verdict is covered. Both compare the loop's wall-clock test with real time, for which
`AgesInRange` says that ages on the wall clock are not below the real ones by more than
`Setback`. That alone is not inductive when the clock may be set back again and again;
`StampsInRange` is what is: each stamp differs from the real time it was taken at by no
more than the clock's range, so an age does by no more than its width. If the clock only
moves forward, `Setback` is zero, and `AgesInRange` holds because ages only grow.
`MutexOrder` ties the poll under way to the history, `EventOrder` orders the history. A
fresh verdict is fresh when it is published (`FreshWhenPublished`) and is replaced in
time. `ConfigLag`: only the verdict published and the poll under way can rest on an
older configuration. What a store in place changes is in the lemma `StoreEffect`, what
a save does to the poll under way in `SaveEffect`.

A saved interval that overflows `time.Duration` needs no assumption: it wraps to
something not above its true value (`DurationBound`), so polls come more often and
data is stale earlier.

`PollOrderProofs` proves what does not depend on time. `PollOrder` is inductive together
with `TypeOK`: a poll under way is the last one begun, asks the URL of the configuration
it will judge by, shares a threshold with the live configuration only at one value, and
holds, once fetched without an error, a reading of its own; a reading once had is never
lost. From it follow `Ordered` (`PublishInOrder`),
`CleanVerdict` (`CleanVerdictIsCurrent`) and `Justified` (`SafeIsJustified`); for these
only `Publish` matters (`VerdictKept`).

`PromiseProofs` proves `Refinement`: `Spec => KeepsPromise`. Initial states map to
initial states (`PromiseInit`); a lemma per action of `SafetyPromise` says which
actions of `Poller` are that action (`BeginIsBegin`, `FetchIsLearn`,
`PublishIsConclude`, `OthersAreOthers`, `StoreIsOverwrite`), the rest keep the mapped
variables (`OthersKeepPoll`). That a store in place is an `Overwrite`, and no more, is
the point of `Alike`: the configuration of the poll remains one that could be saved
(`StoreAssumption`), and the same in every plain field. It needs `TypeOK`, for who holds the mutex, and `PollOrder`, for
the URL that is asked.

`RuleProofs` proves `RulesMonotone`: `NeverSaferWhenWorse` for all settings, inputs
and clock values. The lemma `Monotone` goes through the stages of `Evaluate`: either
the worse situation stops at a stage that gives a reason of its own, or both reach
the same stage, where each rule is monotone (`BreaksMonotone`). The assumption that
`STALE_AFTER_SECONDS` does not overflow is needed for `DurationExact`. `PagesAgree` is
`PageAgreesWithVerdict` for all settings and readings, for inputs that have data
whenever they have sensors: `PollOrder` shows that the inputs of `doPoll` are such, and
`DashboardTable` (below) uses it, without a hypothesis.
The proofs of answers and pages share the lemmas of `AnswerProofs`: what a verdict by
the rules says of the reading it rests on (`TableRepeatsVerdict`, `SafeHasNoBrokenRule`).

`MonitorProofs` first shows that the requests leave the poller to its own specification
(`MonitorRunsPoller`), so that every theorem about `Spec` holds of the verdicts the
handlers read: `BridgeKeepsPromise`, the refinement and the order of verdicts, and
`BridgeIsTimely`, the three bounds on time. The inductive invariants of this module
stand at its top. `MonitorTypeCorrect` needs `InScript`, where a handler may be in its
script. `Refreshed` (`RefreshShowsNewPoll`) rests on `RefreshOrder`: once the handler's
own poll has begun, every later poll begins after the request came in; hence so did
whichever was published last when the handler looks. `RealValues` (`SensorValueIsReal`)
rests on `ReadingsAreReal`, which follows a reading from the device through the poller's
fields and the verdict to what a request has read. `Consistent` (`RefreshIsConsistent`)
needs two more: `OnlyActive`, a client without a request has left nothing in the
history, and `SteadyConfig`: while no save comes in, every poll that begins after the
request, the handler's own among them, judges by the plain fields of the configuration
the handler has read or will read; so does whichever was published last when it looks. `DashboardTable`
(`DashboardAgrees`) and `SafeAnswers` (`SafeAnswerIsBacked`) follow from
`VerdictsAreFounded`: what `Publish` computes fits the configuration it was computed by,
and each copy in a request keeps that configuration beside it.

`LifecycleProofs` does the same for the process: `ProcessRunsPoller` (each step of the
process is one of `Poller` or leaves it alone), and with it `ProcessPollsOneAtATime`,
`ProcessKeepsPromise` and `ProcessIsTimely`: saves, stores in place, connections and
adjustments of the clock are steps of the process, at any moment of its life. `LifeTypeCorrect` and `TrueStatus` are
about types and the discovery status. `RestartIsSeen` (`RestartExitsWithOne`) follows
from `RestartNoted`: the flag is stored before the stop is asked for.
`NothingLeftBehind` (`CleanExitIsQuiet`) follows from `Quiet`: what has returned stays
so. `CleanStop` (`UndisturbedStopIsClean`) follows from `Prompt`, whose heart is the lemma
`StopNeedsNoTime`: as long as a stop that no refresh disturbs is not over, some
goroutine has a step that waits for nothing, so the time-out cannot come up.

`ConfigProofs` takes any number of requests, bodies, thresholds and crashes. `Basic` is
`TypeOK` and `MigratesLoaded`. `SavedFileLoads` (`ReadableFileLoads`) adds
`OnlySoundIsSaved`, `MigrationIsSafe` (`MigrationKeepsSettings`) `MigrationOrder`,
`RestartIsAnnounced` `OldIsAnnounced`, and `MemoryAgreesWithDisk` (`RestartKeepsConfig`)
`OneSave`. None of them assumes anything of the first file or of what requests send.
`NoLostUpdate` (`SaveDoesAsAsked`) follows a request from its copy to its swap: as long
as nobody comes into its middle, the struct it holds is the live one with what it asked
for, cell by cell of the heap, also when it shares a cell with the live configuration.
`CellAssumption` says that there is always memory for another number, without which
`Fresh` would mean nothing.

Only model-checked: the liveness properties `RefreshReturns` and `LoopStops` (the
provers have no `ENABLED`). The runs that expect a violation show what fails, and so
have nothing to prove.

## Not modelled

* Device UUIDs: read or created before anything else runs; nothing interleaves with
  that, and only answers contain them.
* One-shot command-line options and `service.Control`, which run no bridge;
  configuration paths, which are functions of the platform.
* Diagnostics, the connection test, GET of the configuration and of the setup page:
  they change no state of the bridge, and put side by side what other endpoints
  answer.
* Parsing of requests, transaction ids, the Alpaca management API, unsupported sensors
  and descriptions (constants), templates, formatting, the installer.
* NaN, which a form can send, has no place among the integers; such a configuration
  cannot be saved, since JSON has no NaN.
* Bytes the operating system has accepted and loses in a power cut.

## Plan

Done: the core (`SafetyRules`, `Answers`, `RuleOrder`, `Poller`, `SafetyMonitor`,
`ConfigStore`), the process around it (`Discovery`, `Lifecycle`), the abstract
specification and its refinement (`SafetyPromise`), and proofs of every safety
property that a passing run checks.

Left, in this order:

1. `ConfigStore` as an implementation of what `Poller` assumes of `SaveConfig` and
   `StoreThreshold`: that between them they are all that changes the live configuration,
   and that a configuration a save leaves behind shares with an older one only thresholds
   that have one value.
2. `manualOverride` beside `isSafe` in `/status.json` and the action `status`, which
   read the two without a poll in between.
3. A run of `poller_time` with half seconds, if the time of a run allows it.
