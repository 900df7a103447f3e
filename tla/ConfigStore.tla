---------------------------- MODULE ConfigStore ----------------------------
(***************************************************************************)
(* The configuration, in memory and on disk: config.Load at start-up with  *)
(* its migration, config.Holder, and the two handlers that save, POST      *)
(* /setup and PUT /api/config.                                             *)
(*                                                                         *)
(* A Config has three parts here: its version, its plain fields taken      *)
(* together (base), and one optional threshold.  The threshold is a Go     *)
(* *float64: a cell of the heap, which a copy of the struct shares with    *)
(* the original.  On disk it is a number.                                  *)
(*                                                                         *)
(* os.WriteFile truncates the file and then writes it, so another request  *)
(* or the end of the process may come in between.  A write puts its bytes  *)
(* over the beginning of what the file then holds; what a longer file has  *)
(* left at its end makes it unreadable.  The process may end at any time;  *)
(* the disk keeps what was written.                                        *)
(***************************************************************************)
EXTENDS Integers

CONSTANTS None,                 \* a nil pointer, an absent JSON key
          Absent, Empty, Torn,  \* no file; nothing, or no JSON, in it
          Writers,              \* the HTTP requests that save
          Bases, ValidBases,    \* the plain fields, those validate accepts
          DefaultBase,          \* those of Defaults()
          Network,              \* Network[b]: the bind address and ports in b
          Thresholds,           \* the numbers a threshold may be
          Null, NoNumber,       \* a JSON null; a form value not a number
          Cells,                \* addresses of float64 variables
          CurrentVersion,       \* CurrentConfigVersion: 1
          Puts,                 \* the bodies PUT /api/config may be sent
          Forms,                \* the forms POST /setup may be sent
          FirstFile,            \* what is on disk before the first start
          MaxCrashes            \* bound: how often the process ends

Optional(S) == S \cup {None}

Networks == {Network[b] : b \in Bases}

(* config.Config in memory and its JSON form.                              *)
Struct == [version : Int, base : Bases, opt : Optional(Cells)]
Document == [version : Int, base : Bases, opt : Optional(Thresholds)]

Files == Document \cup {Absent, Empty, Torn}

(* A key that is absent leaves the field alone; "null" clears a pointer.   *)
(* typeError: some other key has a value of the wrong type.                *)
Put == [version : Optional(Int), base : Optional(Bases),
        opt : Thresholds \cup {None, Null}, typeError : BOOLEAN]

(* An empty threshold, None, clears it; NoNumber leaves it alone.          *)
Form == [base : Bases, opt : Thresholds \cup {None, NoNumber}]

(* For the history: what a request wants of the next configuration, in the *)
(* terms of a Put.                                                         *)
Asked == [version : Optional(Int), base : Optional(Bases),
          opt : Thresholds \cup {None, Null}]
BodyAsks(body) == [version |-> body.version, base |-> body.base,
                   opt |-> body.opt]
FormAsks(form) == [version |-> None, base |-> form.base,
                   opt |-> CASE form.opt = None     -> Null
                             [] form.opt = NoNumber -> None
                             [] OTHER               -> form.opt]

ASSUME StoreAssumption ==
  /\ ValidBases \subseteq Bases /\ DefaultBase \in ValidBases
  /\ Puts \subseteq Put /\ Forms \subseteq Form
  /\ FirstFile \in Document \cup {Absent}
  /\ CurrentVersion \in Int /\ MaxCrashes \in Nat
  /\ {Absent, Empty, Torn} \cap Document = {}
  /\ {None, Null, NoNumber} \cap Thresholds = {}
  /\ None # Null /\ None # NoNumber /\ None \notin Bases

(* There is always memory for another number.                              *)
ASSUME CellAssumption ==
  /\ None \notin Cells
  /\ \A used \in [Writers -> Optional(Cells)], x \in Optional(Cells) :
       \E y \in Cells : y # x /\ \A w \in Writers : y # used[w]

VARIABLES
  main,     \* where the process is in its life
  live,     \* *config.Holder.cfg
  heap,     \* the float64 variables
  file,     \* the configuration file
  backups,  \* the contents of its .bak siblings
  pc,       \* where each request is in Holder.Update
  local,    \* its "updated" struct, the bytes it is to write, and the
            \* network settings of "old"; history: what it asks for, as
            \* long as no other request to save has come in since
  bound,    \* the network settings the process listens with
  crashes,  \* how often the process has ended
  saved,    \* history: a request has opened the file
  failed,   \* history: the last write of the file failed
  raced,    \* history: two saves overlapped, or a PUT stored a threshold
            \* in the live configuration's variable
  announced \* history: this process has answered "restart required"

memory == <<live, heap>>
disk == <<file, backups>>
history == <<saved, failed, raced>>
service == <<bound, announced>>
vars == <<main, memory, disk, pc, local, crashes, history, service>>

Idle == [w \in Writers |-> "idle"]
Local == [cfg : Optional(Struct), bytes : Optional(Document),
          net : Networks, ask : Optional(Asked)]
NoLocal == [cfg |-> None, bytes |-> None, net |-> Network[DefaultBase],
            ask |-> None]
NoLocals == [w \in Writers |-> NoLocal]

Defaults == [version |-> CurrentVersion, base |-> DefaultBase, opt |-> None]

(* json.Marshal of a struct, through its pointer.                          *)
Marshal(s) == [s EXCEPT !.opt = IF s.opt = None THEN None ELSE heap[s.opt]]

Pointed(x) == \/ x = live.opt
              \/ \E w \in Writers : pc[w] # "idle" /\ x = local[w].cfg.opt

(* A variable nothing points to; nobody can tell what is left in those.    *)
Fresh == CHOOSE x \in Cells : ~Pointed(x)

Collected == [x \in Cells |-> IF Pointed(x) THEN heap[x] ELSE None]

Init ==
  /\ main = "down"
  /\ live = Defaults
  /\ heap = [x \in Cells |-> None]
  /\ file = FirstFile
  /\ backups = {}
  /\ pc = Idle
  /\ local = NoLocals
  /\ crashes = 0
  /\ saved = FALSE
  /\ failed = FALSE
  /\ raced = FALSE
  /\ bound = Network[DefaultBase]
  /\ announced = FALSE

-----------------------------------------------------------------------------
(* Start-up *)

(* config.Load returns no error.                                           *)
Loads(f) == \/ f = Absent
            \/ /\ f \notin {Absent, Empty, Torn}
               /\ f.version <= CurrentVersion
               /\ f.base \in ValidBases

(* What it returns, as a document.                                         *)
Loaded(f) == IF f = Absent THEN Defaults
                           ELSE [f EXCEPT !.version = CurrentVersion]

(* run: Load, and a look at the version for PersistMigrationIfNeeded.  The *)
(* server and the responder are told the network settings only here.  When *)
(* Load fails run returns; the process serves nothing and waits for a stop *)
(* and the next start.                                                     *)
Start ==
  /\ main \in {"down", "refused"}
  /\ IF Loads(file)
       THEN LET doc == Loaded(file)
                cell == CHOOSE x \in Cells : TRUE
            IN /\ live' = [doc EXCEPT !.opt = IF @ = None THEN None ELSE cell]
               /\ heap' = IF doc.opt = None THEN heap
                          ELSE [heap EXCEPT ![cell] = doc.opt]
               /\ main' = IF file # Absent /\ file.version < CurrentVersion
                            THEN "backup" ELSE "run"
               /\ bound' = Network[doc.base]
       ELSE main' = "refused" /\ UNCHANGED <<memory, bound>>
  /\ UNCHANGED <<disk, pc, local, crashes, history, announced>>

(* Mutant: the backup is made of what the rewrite leaves.                  *)
BackupOpen_AfterTruncate ==
  /\ main = "backup"
  /\ backups' = backups \cup {Empty}
  /\ file' = Empty
  /\ main' = "backup write"
  /\ UNCHANGED <<memory, pc, local, crashes, history, service>>

(* BackupConfigFile: open the backup, which may be one of the same second. *)
BackupOpen ==
  /\ main = "backup"
  /\ \E same \in SUBSET backups :
       backups' = (backups \ same) \cup {Empty}
  /\ main' = "backup write"
  /\ UNCHANGED <<memory, file, pc, local, crashes, history, service>>

BackupWrite ==
  /\ main = "backup write"
  /\ backups' = (backups \ {Empty}) \cup {file}
  /\ main' = "rewrite"
  /\ UNCHANGED <<memory, file, pc, local, crashes, history, service>>

(* Any step of the migration may fail; the service starts all the same.    *)
MigrationFails ==
  /\ main \in {"backup", "backup write", "rewrite", "rewrite write"}
  /\ main' = "run"
  /\ failed' = (failed \/ main = "rewrite write")
  /\ UNCHANGED <<memory, disk, pc, local, crashes, saved, raced, service>>

(* saveToFile of the migrated configuration                                *)
RewriteOpen ==
  /\ main = "rewrite"
  /\ file' = Empty
  /\ main' = "rewrite write"
  /\ UNCHANGED <<memory, backups, pc, local, crashes, history, service>>

RewriteWrite ==
  /\ main = "rewrite write"
  /\ file' = Marshal(live)
  /\ main' = "run"
  /\ UNCHANGED <<memory, backups, pc, local, crashes, history, service>>

(* The process ends, killed or by os.Exit, at any point.                   *)
Crash ==
  /\ main \notin {"down", "refused"}
  /\ crashes < MaxCrashes
  /\ crashes' = crashes + 1
  /\ main' = "down"
  /\ live' = Defaults
  /\ heap' = [x \in Cells |-> None]
  /\ pc' = Idle
  /\ local' = NoLocals
  /\ raced' = FALSE
  /\ bound' = Network[DefaultBase]
  /\ announced' = FALSE
  /\ UNCHANGED <<disk, saved, failed>>

-----------------------------------------------------------------------------
(* Saving *)

(* The other requests under way are no longer alone.                       *)
Joined == [w \in Writers |-> [local[w] EXCEPT !.ask = None]]

(* The handler's struct passes validate and goes on to be saved, or the    *)
(* request is answered with an error.                                      *)
Update(w, updated, ok, ask) ==
  IF ok /\ updated.base \in ValidBases
    THEN /\ pc' = [pc EXCEPT ![w] = "open"]
         /\ local' = [Joined EXCEPT ![w] =
              [cfg |-> updated, bytes |-> None, net |-> Network[live.base],
               ask |-> IF pc = Idle THEN ask ELSE None]]
    ELSE UNCHANGED pc /\ local' = Joined

(* For the history: the request overlaps a save, or stores a threshold in  *)
(* a variable of the live configuration.                                   *)
Races(shares) == raced' = (raced \/ pc # Idle \/ shares)

(* json.Unmarshal: a threshold that is set is written through the pointer  *)
(* that is there.                                                          *)
BodyCell(body) == CASE body.opt = Null -> None
                    [] body.opt \in Thresholds /\ live.opt = None -> Fresh
                    [] OTHER -> live.opt

(* Mutant: a threshold is stored where the pointer points.                 *)
FormCell_InPlace(form) ==
  CASE form.opt = None -> None
    [] form.opt \in Thresholds /\ live.opt = None -> Fresh
    [] OTHER -> live.opt

(* Mutant: what is not a number clears the threshold.                      *)
FormCell_BadClears(form) ==
  IF form.opt \in Thresholds THEN Fresh ELSE None

(* formOptFloat: a threshold is stored in a variable of its own.           *)
FormCell(form) == CASE form.opt = None          -> None
                    [] form.opt \in Thresholds -> Fresh
                    [] OTHER                    -> live.opt

Stores(cell, opt) ==
  heap' = IF opt \in Thresholds THEN [Collected EXCEPT ![cell] = opt]
                                ELSE Collected

(* PutConfigJSON copies the live struct and unmarshals the body over the   *)
(* copy.  A wrong type is reported after all the other keys have been      *)
(* stored.                                                                 *)
PutConfigJSON(w, body) ==
  /\ main = "run"
  /\ pc[w] = "idle"
  /\ Stores(BodyCell(body), body.opt)
  /\ LET updated ==
           [version |-> IF body.version = None THEN live.version
                                               ELSE body.version,
            base |-> IF body.base = None THEN live.base ELSE body.base,
            opt |-> BodyCell(body)]
     IN Update(w, updated, ~body.typeError, BodyAsks(body))
  /\ Races(body.opt \in Thresholds /\ live.opt # None)
  /\ UNCHANGED <<main, live, disk, crashes, saved, failed, service>>

(* Mutant: the form is not validated.                                      *)
PostSetup_NotValidated(w, form) ==
  /\ main = "run"
  /\ pc[w] = "idle"
  /\ pc' = [pc EXCEPT ![w] = "open"]
  /\ local' = [local EXCEPT ![w] =
                 [NoLocal EXCEPT !.cfg = [live EXCEPT !.base = form.base],
                                 !.net = Network[live.base]]]
  /\ Races(FALSE)
  /\ UNCHANGED <<main, memory, disk, crashes, saved, failed, service>>

PostSetup(w, form) ==
  /\ main = "run"
  /\ pc[w] = "idle"
  /\ Stores(FormCell(form), form.opt)
  /\ Update(w, [live EXCEPT !.base = form.base, !.opt = FormCell(form)], TRUE,
            FormAsks(form))
  /\ Races(FALSE)
  /\ UNCHANGED <<main, live, disk, crashes, saved, failed, service>>

(* saveToFile: json.Marshal, then os.WriteFile opens and truncates.        *)
SaveOpen(w) ==
  /\ pc[w] = "open"
  /\ file' = Empty
  /\ local' = [local EXCEPT ![w].bytes = Marshal(local[w].cfg)]
  /\ pc' = [pc EXCEPT ![w] = "write"]
  /\ saved' = TRUE
  /\ UNCHANGED <<main, memory, backups, crashes, failed, raced, service>>

(* Over other bytes the result may be unreadable, see above.               *)
SaveWrite(w) ==
  /\ pc[w] = "write"
  /\ LET bytes == local[w].bytes
     IN \/ file' = bytes
        \/ file \notin {Empty, bytes} /\ file' = Torn
  /\ pc' = [pc EXCEPT ![w] = "swap"]
  /\ failed' = (failed /\ file' # local[w].bytes)
  /\ UNCHANGED <<main, memory, backups, local, crashes, saved, raced, service>>

(* MkdirAll, Marshal or the open fails; or the write, half way.  The       *)
(* request is answered with the error.                                     *)
SaveFails(w) ==
  /\ \/ pc[w] = "open" /\ UNCHANGED <<file, failed>>
     \/ pc[w] = "write" /\ file' \in {file, Torn} /\ failed' = TRUE
  /\ pc' = [pc EXCEPT ![w] = "idle"]
  /\ local' = [local EXCEPT ![w] = NoLocal]
  /\ UNCHANGED <<main, memory, backups, crashes, saved, raced, service>>

(* Mutant: "old" is read after the swap.                                   *)
Swap_OldIsNew(w) ==
  /\ pc[w] = "swap"
  /\ live' = local[w].cfg
  /\ announced' = (announced \/ Network[local[w].cfg.base]
                                # Network[live'.base])
  /\ pc' = [pc EXCEPT ![w] = "idle"]
  /\ local' = [local EXCEPT ![w] = NoLocal]
  /\ UNCHANGED <<main, heap, disk, crashes, history, bound>>

(* The end of Holder.Update.  The request is answered, with the network    *)
(* settings in which "updated" differs from "old".                         *)
Swap(w) ==
  /\ pc[w] = "swap"
  /\ live' = local[w].cfg
  /\ announced' = (announced \/ Network[local[w].cfg.base] # local[w].net)
  /\ pc' = [pc EXCEPT ![w] = "idle"]
  /\ local' = [local EXCEPT ![w] = NoLocal]
  /\ UNCHANGED <<main, heap, disk, crashes, history, bound>>

-----------------------------------------------------------------------------
Next ==
  \/ Start
  \/ BackupOpen
  \/ BackupWrite
  \/ RewriteOpen
  \/ RewriteWrite
  \/ MigrationFails
  \/ Crash
  \/ \E w \in Writers : \/ \E body \in Puts : PutConfigJSON(w, body)
                        \/ \E form \in Forms : PostSetup(w, form)
                        \/ SaveOpen(w)
                        \/ SaveWrite(w)
                        \/ SaveFails(w)
                        \/ Swap(w)

Spec == Init /\ [][Next]_vars

-----------------------------------------------------------------------------
(* Properties *)

(* Types; the live configuration is one validate accepts, and requests are *)
(* served by a running process only.                                       *)
TypeOK ==
  /\ main \in {"down", "refused", "backup", "backup write", "rewrite",
               "rewrite write", "run"}
  /\ live \in Struct
  /\ live.base \in ValidBases
  /\ heap \in [Cells -> Optional(Thresholds)]
  /\ file \in Files
  /\ backups \subseteq Document \cup {Empty}
  /\ pc \in [Writers -> {"idle", "open", "write", "swap"}]
  /\ local \in [Writers -> Local]
  /\ \A w \in Writers :
       /\ pc[w] # "idle" => /\ local[w].cfg \in Struct
                            /\ local[w].cfg.base \in ValidBases
       /\ pc[w] = "write" => local[w].bytes \in Document
  /\ main # "run" => pc = Idle
  /\ crashes \in 0..MaxCrashes
  /\ saved \in BOOLEAN
  /\ failed \in BOOLEAN
  /\ raced \in BOOLEAN
  /\ bound \in Networks
  /\ announced \in BOOLEAN

Readable(f) == f \notin {Absent, Empty, Torn}

SameSettings(d, e) == d.base = e.base /\ d.opt = e.opt

(* A version that some PUT body sends and this program does not know: the  *)
(* handler saves it, see holder.go 36 and config.go 114-137.               *)
SentNewer(c) == /\ c.version > CurrentVersion
                /\ \E body \in Puts : body.version = c.version

(* Whatever is saved, by however many requests, with crashes in between: a *)
(* file that is JSON at all is one the next start accepts, unless it was   *)
(* there before or a PUT asked for a newer config_version.                 *)
ReadableFileLoads ==
  Readable(file) => Loads(file) \/ file = FirstFile \/ SentNewer(file)

(* The migration never loses the user's settings: until a request saves,   *)
(* the first file's are in the file or in a backup, wherever the process   *)
(* crashes or a write fails (docs/upgrading.md 39-42).                     *)
MigrationKeepsSettings ==
  ~saved /\ FirstFile # Absent =>
    \E d \in backups \cup {file} : Readable(d) /\ SameSettings(d, FirstFile)

(* A restart would load the settings the process runs with.                *)
RestartLoadsLive == Loads(file) /\ SameSettings(Loaded(file), Marshal(live))

(* While nothing is being saved, memory and disk agree, whatever was saved *)
(* or refused before, whichever saves failed before they opened the file   *)
(* and wherever the process crashed (holder.go 33-51).  Left out: a write  *)
(* that failed half way, a version this program does not know, and the two *)
(* races that HolderIsThreadSafe and LiveIsNotMutated show: overlapping    *)
(* saves, and a PUT that changes the live threshold in place.              *)
RestartKeepsConfig ==
  main = "run" /\ pc = Idle /\ ~failed /\ ~raced /\ ~SentNewer(live)
    => RestartLoadsLive

(* The next configuration, as documents, is the one before with what was   *)
(* asked for in place of what it had, and nothing else.                    *)
Obeys(old, new, ask) ==
  /\ new.version = IF ask.version = None THEN old.version ELSE ask.version
  /\ new.base = IF ask.base = None THEN old.base ELSE ask.base
  /\ new.opt = CASE ask.opt = None -> old.opt
                 [] ask.opt = Null -> None
                 [] OTHER          -> ask.opt

(* A request that no other one to save came into the middle of does what   *)
(* it asks and loses nothing of the configuration it replaces, whatever    *)
(* has raced, failed or crashed before it: only a request that overlaps    *)
(* can make it lose an update (handlers.go 483-484, 536-542, holder.go     *)
(* 35-51).                                                                 *)
SaveDoesAsAsked ==
  [][\A w \in Writers :
       /\ pc[w] = "swap" /\ local[w].ask # None
       /\ pc'[w] = "idle" /\ main' = main
       => Obeys(Marshal(live), Marshal(live)', local[w].ask)]_vars

(* A process that does not listen where its configuration says has told    *)
(* somebody that a restart is required, however the saves of several       *)
(* requests overlap, fail or undo each other (docs/configuration.md 75-79, *)
(* config.go 138-153).                                                     *)
RestartAnnounced ==
  main = "run" /\ Network[live.base] # bound => announced

-----------------------------------------------------------------------------
(* What the comments say and the code does not do *)

(* holder.go:11: "Holder is a thread-safe, persistent wrapper around       *)
(* Config."  Overlapping saves are no exception.                           *)
HolderIsThreadSafe ==
  main = "run" /\ pc = Idle /\ ~failed /\ ~SentNewer(live)
    => RestartLoadsLive

(* holder.go:26: "The returned pointer must not be mutated."  A request    *)
(* that is refused, one that has nothing go on to be saved, must leave the *)
(* live settings alone.                                                    *)
LiveIsNotMutated ==
  [][live' = live /\ main' = main /\ pc' = pc
       => Marshal(live)' = Marshal(live)]_vars
=============================================================================
