---------------------------- MODULE ConfigProofs ----------------------------
(***************************************************************************)
(* Proofs about ConfigStore, for any number of requests that save, any     *)
(* files, forms and bodies, and any number of crashes.                     *)
(***************************************************************************)
EXTENDS ConfigStore, TLAPS

-----------------------------------------------------------------------------
(* Why the properties hold: with TypeOK and ReadableFileLoads these are    *)
(* inductive.                                                              *)

Migrating == main \in {"backup", "backup write", "rewrite"}

(* While it is migrated the file is the one that was loaded.               *)
MigratesLoaded == Migrating => file # Absent /\ RestartLoadsLive

(* In memory and on its way out: no version is newer than this program's,  *)
(* unless it was sent.                                                     *)
Sound(c) == /\ c.version <= CurrentVersion \/ SentNewer(c)
            /\ c.base \in ValidBases

OnlySoundIsSaved ==
  /\ Sound(live)
  /\ \A w \in Writers :
       /\ pc[w] # "idle" => Sound(local[w].cfg)
       /\ pc[w] = "write" => Sound(local[w].bytes)

(* Until a request saves, the file is the first or the truncated one, and  *)
(* it is not truncated before there is a backup.                           *)
KeepsFirst(d) == Readable(d) /\ SameSettings(d, FirstFile)

MigrationOrder ==
  /\ \A w \in Writers : pc[w] \in {"write", "swap"} => saved
  /\ ~saved /\ FirstFile # Absent =>
       /\ KeepsFirst(file) \/ file = Empty
       /\ (file = Empty \/ main = "rewrite")
            => \E d \in backups : KeepsFirst(d)
       /\ main = "rewrite write" => SameSettings(Marshal(live), FirstFile)

NoneWrites ==
  main = "run" /\ \A w \in Writers : pc[w] \in {"idle", "open"}

(* A save that nothing overlaps goes from the live configuration to the    *)
(* file and from there to the next live one.                               *)
OneSave ==
  ~raced =>
    /\ \A v, w \in Writers : pc[v] # "idle" /\ pc[w] # "idle" => v = w
    /\ \A w \in Writers :
         /\ pc[w] = "write" =>
              file = Empty /\ local[w].bytes = Marshal(local[w].cfg)
         /\ pc[w] = "swap" /\ ~failed => file = Marshal(local[w].cfg)
    /\ ~failed /\ NoneWrites /\ ~SentNewer(live) => RestartLoadsLive

(* A request that is alone holds the live configuration, changed as asked, *)
(* and has it to itself.                                                   *)
AloneObeys ==
  \A w \in Writers : pc[w] # "idle" /\ local[w].ask # None =>
    /\ \A v \in Writers : v # w => pc[v] = "idle"
    /\ Obeys(Marshal(live), Marshal(local[w].cfg), local[w].ask)

(* What is compared with "old" is compared with what is listened to.       *)
OldIsAnnounced ==
  /\ main \in {"down", "refused"} \/ Network[live.base] = bound \/ announced
  /\ \A w \in Writers :
       pc[w] # "idle" /\ local[w].net # bound => announced

-----------------------------------------------------------------------------
(* The heap *)

LEMMA FreshIsFree ==
  ASSUME TypeOK
  PROVE  Fresh \in Cells /\ ~Pointed(Fresh)
<1> DEFINE used == [w \in Writers |-> IF pc[w] = "idle" THEN None
                                      ELSE local[w].cfg.opt]
<1>1. used \in [Writers -> Optional(Cells)] /\ live.opt \in Optional(Cells)
  BY DEF TypeOK, Struct, Optional
<1>2. PICK y \in Cells : y # live.opt /\ \A w \in Writers : y # used[w]
  BY <1>1, CellAssumption
<1>3. ~Pointed(y)
  BY <1>2 DEF Pointed
<1> QED
  BY <1>2, <1>3 DEF Fresh

LEMMA MarshalType ==
  ASSUME TypeOK, NEW s \in Struct
  PROVE  /\ Marshal(s) \in Document
         /\ Marshal(s).version = s.version
         /\ Marshal(s).base = s.base
<1>1. s.opt # None => heap[s.opt] \in Optional(Thresholds)
  BY DEF TypeOK, Struct, Optional
<1> QED
  BY <1>1 DEF Marshal, Struct, Document, Optional

(* What Marshal writes depends on the variable its struct points to only.  *)
LEMMA MarshalKeeps ==
  ASSUME NEW s \in Struct, s.opt # None => heap'[s.opt] = heap[s.opt]
  PROVE  [s EXCEPT !.opt = IF s.opt = None THEN None ELSE heap'[s.opt]]
           = Marshal(s)
  BY DEF Marshal, Struct

-----------------------------------------------------------------------------
(* What a call of either handler does *)

LEMMA JoinedKeeps ==
  ASSUME TypeOK
  PROVE  /\ Joined \in [Writers -> Local]
         /\ \A w \in Writers : /\ Joined[w].cfg = local[w].cfg
                               /\ Joined[w].bytes = local[w].bytes
                               /\ Joined[w].net = local[w].net
                               /\ Joined[w].ask = None
  BY DEF TypeOK, Joined, Local, Optional

(* The handler refuses the request, or goes on with a struct of its own.   *)
Refuses == pc' = pc /\ local' = Joined

Accepts(w) ==
  \E s \in Struct, ask \in Asked :
    /\ s.base \in ValidBases
    /\ s.version = live.version \/ \E body \in Puts : body.version = s.version
    /\ Obeys(Marshal(live)', Marshal(s)', ask)
    /\ pc' = [pc EXCEPT ![w] = "open"]
    /\ local' = [Joined EXCEPT ![w] =
                  [cfg |-> s, bytes |-> None, net |-> Network[live.base],
                   ask |-> IF pc = Idle THEN ask ELSE None]]

Called(w) ==
  /\ main = "run"
  /\ pc[w] = "idle"
  /\ UNCHANGED <<main, live, disk, crashes, saved, failed, service>>
  /\ heap' \in [Cells -> Optional(Thresholds)]
  /\ Refuses \/ Accepts(w)
  /\ raced' \in BOOLEAN
  /\ ~raced' => /\ ~raced
                /\ pc = Idle
                /\ live.opt # None => heap'[live.opt] = heap[live.opt]

(* What a threshold leaves of the heap: the variables something points to, *)
(* but for the one it is stored in.                                        *)
LEMMA StoresKeeps ==
  ASSUME TypeOK, NEW cell \in Optional(Cells), NEW opt, Stores(cell, opt),
         opt \in Thresholds => cell \in Cells
  PROVE  /\ heap' \in [Cells -> Optional(Thresholds)]
         /\ opt \in Thresholds => heap'[cell] = opt
         /\ \A x \in Cells :
              /\ Pointed(x)
              /\ opt \notin Thresholds \/ x # cell
              => heap'[x] = heap[x]
<1>1. Collected \in [Cells -> Optional(Thresholds)]
  BY DEF TypeOK, Collected, Optional
<1>2. \A x \in Cells : Pointed(x) => Collected[x] = heap[x]
  BY DEF Collected
<1> HIDE DEF Collected
<1> QED
  BY <1>1, <1>2 DEF Stores, Optional

LEMMA PutIsCall ==
  ASSUME TypeOK, NEW w \in Writers, NEW body \in Puts, PutConfigJSON(w, body)
  PROVE  Called(w)
<1> DEFINE cell == BodyCell(body)
           updated ==
             [version |-> IF body.version = None THEN live.version
                                                 ELSE body.version,
              base |-> IF body.base = None THEN live.base ELSE body.base,
              opt |-> cell]
           ask == BodyAsks(body)
<1>1. /\ Stores(cell, body.opt)
      /\ Update(w, updated, ~body.typeError, ask)
      /\ Races(body.opt \in Thresholds /\ live.opt # None)
      /\ main = "run" /\ pc[w] = "idle"
      /\ UNCHANGED <<main, live, disk, crashes, saved, failed, service>>
  BY DEF PutConfigJSON
<1>2. body \in Put /\ live \in Struct /\ raced \in BOOLEAN
  BY StoreAssumption DEF TypeOK
<1>3. Null \notin Thresholds /\ None \notin Thresholds /\ None # Null
  BY StoreAssumption
<1>4. /\ body.opt = Null => cell = None
      /\ body.opt \in Thresholds =>
           cell = IF live.opt = None THEN Fresh ELSE live.opt
      /\ body.opt = None => cell = live.opt
      /\ body.opt \in Thresholds \cup {None, Null}
  BY <1>2, <1>3 DEF BodyCell, Put
<1>5. live.opt \in Optional(Cells) /\ Fresh \in Cells
  BY <1>2, FreshIsFree DEF Struct
<1>6. cell \in Optional(Cells) /\ (body.opt \in Thresholds => cell \in Cells)
  BY <1>4, <1>5 DEF Optional
<1> HIDE DEF cell
<1>7. updated \in Struct
  <2>1. updated.version \in Int /\ updated.base \in Bases
    BY <1>2 DEF Put, Struct, Optional
  <2> QED
    BY <1>6, <2>1 DEF Struct
<1>8. /\ heap' \in [Cells -> Optional(Thresholds)]
      /\ body.opt \in Thresholds => heap'[cell] = body.opt
      /\ \A x \in Cells :
           Pointed(x) /\ (body.opt \notin Thresholds \/ x # cell)
             => heap'[x] = heap[x]
  BY <1>1, <1>6, StoresKeeps
<1>9. raced' = (raced \/ pc # Idle \/ (body.opt \in Thresholds
                                        /\ live.opt # None))
  BY <1>1 DEF Races
<1>10. ~raced' /\ live.opt # None => heap'[live.opt] = heap[live.opt]
  BY <1>5, <1>8, <1>9 DEF Pointed, Optional
<1>11. ask \in Asked
  BY <1>2 DEF BodyAsks, Asked, Put
<1>12. PICK s \in Struct : s = updated
  BY <1>7
<1>13. Obeys(Marshal(live)', Marshal(s)', ask)
  <2>1. /\ Marshal(s)'.version = updated.version
        /\ Marshal(s)'.base = updated.base
        /\ Marshal(s)'.opt = IF cell = None THEN None ELSE heap'[cell]
    BY <1>12 DEF Marshal, Struct
  <2>2. /\ Marshal(live)'.version = live.version
        /\ Marshal(live)'.base = live.base
        /\ Marshal(live)'.opt = IF live.opt = None THEN None
                                ELSE heap'[live.opt]
    BY <1>1, <1>2 DEF Marshal, Struct
  <2>3. /\ updated.version = IF body.version = None THEN live.version
                                                    ELSE body.version
        /\ updated.base = IF body.base = None THEN live.base ELSE body.base
    OBVIOUS
  <2>4. body.opt \in Thresholds => cell # None
    BY <1>6, CellAssumption
  <2> HIDE DEF updated
  <2> QED
    BY <1>3, <1>4, <1>8, <2>1, <2>2, <2>3, <2>4 DEF Obeys, BodyAsks
<1>14. s.version = live.version \/ s.version = body.version
  BY <1>12
<1>15. Refuses \/ Accepts(w)
  <2>1. CASE ~body.typeError /\ updated.base \in ValidBases
    <3>1. /\ pc' = [pc EXCEPT ![w] = "open"]
          /\ local' = [Joined EXCEPT ![w] =
               [cfg |-> s, bytes |-> None, net |-> Network[live.base],
                ask |-> IF pc = Idle THEN ask ELSE None]]
      BY <1>1, <1>12, <2>1 DEF Update
    <3> HIDE DEF updated, ask
    <3> QED
      BY <1>11, <1>12, <1>13, <1>14, <2>1, <3>1 DEF Accepts
  <2>2. CASE ~(~body.typeError /\ updated.base \in ValidBases)
    BY <1>1, <2>2 DEF Update, Refuses
  <2> QED
    BY <2>1, <2>2
<1> QED
  BY <1>1, <1>2, <1>8, <1>9, <1>10, <1>15 DEF Called

LEMMA PostIsCall ==
  ASSUME TypeOK, NEW w \in Writers, NEW form \in Forms, PostSetup(w, form)
  PROVE  Called(w)
<1> DEFINE cell == FormCell(form)
           updated == [live EXCEPT !.base = form.base, !.opt = cell]
           ask == FormAsks(form)
<1>1. /\ Stores(cell, form.opt)
      /\ Update(w, updated, TRUE, ask)
      /\ Races(FALSE)
      /\ main = "run" /\ pc[w] = "idle"
      /\ UNCHANGED <<main, live, disk, crashes, saved, failed, service>>
  BY DEF PostSetup
<1>2. form \in Form /\ live \in Struct /\ raced \in BOOLEAN
  BY StoreAssumption DEF TypeOK
<1>3. /\ {None, Null, NoNumber} \cap Thresholds = {}
      /\ None # Null /\ None # NoNumber
  BY StoreAssumption
<1>4. /\ form.opt = None => cell = None
      /\ form.opt \in Thresholds => cell = Fresh
      /\ form.opt = NoNumber => cell = live.opt
      /\ form.opt \in Thresholds \cup {None, NoNumber}
  BY <1>2, <1>3 DEF FormCell, Form
<1>5. /\ live.opt \in Optional(Cells)
      /\ Fresh \in Cells /\ Fresh # live.opt
  BY <1>2, FreshIsFree DEF Struct, Pointed
<1>6. cell \in Optional(Cells) /\ (form.opt \in Thresholds => cell \in Cells)
  BY <1>4, <1>5 DEF Optional
<1> HIDE DEF cell
<1>7. /\ updated \in Struct
      /\ updated.version = live.version
      /\ updated.base = form.base
      /\ updated.opt = cell
  BY <1>2, <1>6 DEF Struct, Form
<1>8. /\ heap' \in [Cells -> Optional(Thresholds)]
      /\ form.opt \in Thresholds => heap'[cell] = form.opt
      /\ \A x \in Cells :
           Pointed(x) /\ (form.opt \notin Thresholds \/ x # cell)
             => heap'[x] = heap[x]
  BY <1>1, <1>6, StoresKeeps
<1>9. raced' = (raced \/ pc # Idle)
  BY <1>1 DEF Races
<1>10. live.opt # None => heap'[live.opt] = heap[live.opt]
  BY <1>4, <1>5, <1>8 DEF Pointed, Optional
<1>11. ask \in Asked
  BY <1>2 DEF FormAsks, Asked, Form, Optional
<1> HIDE DEF updated
<1>12. PICK s \in Struct : s = updated
  BY <1>7
<1>13. Obeys(Marshal(live)', Marshal(s)', ask)
  <2>1. /\ Marshal(s)'.version = live.version
        /\ Marshal(s)'.base = form.base
        /\ Marshal(s)'.opt = IF cell = None THEN None ELSE heap'[cell]
    BY <1>7, <1>12 DEF Marshal, Struct
  <2>2. /\ Marshal(live)'.version = live.version
        /\ Marshal(live)'.opt = IF live.opt = None THEN None
                                ELSE heap'[live.opt]
    BY <1>1, <1>2 DEF Marshal, Struct
  <2>3. form.opt \in Thresholds => cell # None
    BY <1>6, CellAssumption
  <2>4. /\ ask.version = None
        /\ ask.base = form.base
        /\ form.opt = None => ask.opt = Null
        /\ form.opt = NoNumber => ask.opt = None
        /\ form.opt \in Thresholds => ask.opt = form.opt
    BY <1>3 DEF FormAsks
  <2>5. form.base # None
    BY <1>2, StoreAssumption DEF Form
  <2> QED
    BY <1>3, <1>4, <1>8, <2>1, <2>2, <2>3, <2>4, <2>5 DEF Obeys
<1>14. Refuses \/ Accepts(w)
  <2>1. CASE updated.base \in ValidBases
    <3>1. /\ pc' = [pc EXCEPT ![w] = "open"]
          /\ local' = [Joined EXCEPT ![w] =
               [cfg |-> s, bytes |-> None, net |-> Network[live.base],
                ask |-> IF pc = Idle THEN ask ELSE None]]
      BY <1>1, <1>12, <2>1 DEF Update
    <3> HIDE DEF ask
    <3> QED
      BY <1>7, <1>11, <1>12, <1>13, <2>1, <3>1 DEF Accepts
  <2>2. CASE updated.base \notin ValidBases
    BY <1>1, <2>2 DEF Update, Refuses
  <2> QED
    BY <2>1, <2>2
<1> QED
  BY <1>1, <1>2, <1>8, <1>9, <1>10, <1>14 DEF Called

-----------------------------------------------------------------------------
(* Types *)

LEMMA Stored ==
  ASSUME TypeOK, Loads(file), file # Absent
  PROVE  file \in Document
  BY DEF TypeOK, Loads, Files

LEMMA LoadedType ==
  ASSUME TypeOK, Loads(file)
  PROVE  /\ Loaded(file) \in Document
         /\ Loaded(file).version <= CurrentVersion
         /\ Loaded(file).base \in ValidBases
<1>1. CASE file = Absent
  BY <1>1, StoreAssumption DEF Loaded, Defaults, Document, Optional
<1>2. CASE file # Absent
  BY <1>2, Stored, StoreAssumption DEF Loaded, Document, Loads
<1> QED
  BY <1>1, <1>2

(* A start that succeeds runs with what it has loaded.                     *)
LEMMA StartRuns ==
  ASSUME TypeOK, Start, Loads(file)
  PROVE  /\ live' \in Struct
         /\ heap' \in [Cells -> Optional(Thresholds)]
         /\ Sound(live)'
         /\ SameSettings(Loaded(file), Marshal(live)')
         /\ bound' = Network[live'.base]
         /\ main' \in {"backup", "run"}
         /\ main' = "backup" => file # Absent
<1> DEFINE doc == Loaded(file)
           cell == CHOOSE x \in Cells : TRUE
<1>1. doc \in Document /\ doc.version <= CurrentVersion
      /\ doc.base \in ValidBases
  BY LoadedType
<1>2. /\ live' = [doc EXCEPT !.opt = IF @ = None THEN None ELSE cell]
      /\ heap' = IF doc.opt = None THEN heap
                                   ELSE [heap EXCEPT ![cell] = doc.opt]
      /\ bound' = Network[doc.base]
      /\ main' = IF file # Absent /\ file.version < CurrentVersion
                   THEN "backup" ELSE "run"
  BY DEF Start
<1>3. cell \in Cells /\ cell # None
  BY FreshIsFree, CellAssumption
<1>4. heap \in [Cells -> Optional(Thresholds)]
  BY DEF TypeOK
<1> HIDE DEF doc, cell
<1>5. live' = [version |-> doc.version, base |-> doc.base,
               opt |-> IF doc.opt = None THEN None ELSE cell]
  BY <1>1, <1>2 DEF Document
<1>6. live' \in Struct /\ Sound(live)' /\ live'.base = doc.base
  BY <1>1, <1>3, <1>5 DEF Struct, Document, Optional, Sound
<1>7. heap' \in [Cells -> Optional(Thresholds)]
  BY <1>1, <1>2, <1>3, <1>4 DEF Document
<1>8. doc.opt # None => heap'[cell] = doc.opt
  BY <1>2, <1>3, <1>4
<1>9. Marshal(live)' = [version |-> doc.version, base |-> doc.base,
                        opt |-> doc.opt]
  BY <1>3, <1>5, <1>8 DEF Marshal
<1>10. SameSettings(doc, Marshal(live)')
  BY <1>9 DEF SameSettings
<1> QED
  BY <1>2, <1>6, <1>7, <1>10 DEF doc

(* A start that fails, or a step of a process that is not starting.        *)
LEMMA NotStarted ==
  ASSUME Start, ~Loads(file)
  PROVE  /\ main' = "refused"
         /\ UNCHANGED <<memory, bound>>
  BY DEF Start

Basic == TypeOK /\ MigratesLoaded

LEMMA BasicInit == Init => Basic
<1> SUFFICES ASSUME Init PROVE Basic
  OBVIOUS
<1>1. live \in Struct /\ live.base \in ValidBases
  BY StoreAssumption DEF Init, Defaults, Struct, Optional
<1>2. /\ file \in Files
      /\ local \in [Writers -> Local]
      /\ bound \in Networks
  BY StoreAssumption
     DEF Init, Files, NoLocals, NoLocal, Local, Networks, Optional
<1>3. /\ heap \in [Cells -> Optional(Thresholds)]
      /\ pc \in [Writers -> {"idle", "open", "write", "swap"}]
      /\ \A w \in Writers : pc[w] = "idle"
      /\ crashes \in 0..MaxCrashes
  BY StoreAssumption DEF Init, Idle, Optional
<1>4. TypeOK
  BY <1>1, <1>2, <1>3 DEF Init, TypeOK
<1> QED
  BY <1>4 DEF Init, Basic, MigratesLoaded, Migrating

LEMMA TypeNext == ASSUME Basic, [Next]_vars PROVE TypeOK'
<1> USE DEF Basic
<1>1. CASE Start
  <2>1. UNCHANGED <<file, backups, pc, local, crashes, saved, failed, raced,
                    announced>>
    BY <1>1 DEF Start, disk, history
  <2>2. pc = Idle
    BY <1>1 DEF Start, TypeOK
  <2>3. CASE Loads(file)
    <3>1. /\ live' \in Struct /\ live'.base \in ValidBases
          /\ heap' \in [Cells -> Optional(Thresholds)]
          /\ main' \in {"backup", "run"}
      BY <1>1, <2>3, StartRuns DEF Sound
    <3>2. bound' \in Networks
      BY <1>1, <2>3, StartRuns DEF Networks, Struct
    <3> QED
      BY <2>1, <2>2, <3>1, <3>2 DEF TypeOK
  <2>4. CASE ~Loads(file)
    <3>1. main' = "refused" /\ UNCHANGED <<live, heap, bound>>
      BY <1>1, <2>4, NotStarted DEF memory
    <3> QED
      BY <2>1, <2>2, <3>1 DEF TypeOK
  <2> QED
    BY <2>3, <2>4
<1>2. CASE BackupOpen \/ BackupWrite \/ RewriteOpen
  <2>1. /\ UNCHANGED <<live, heap, pc, local, crashes, saved, failed, raced,
                       bound, announced>>
        /\ main \in {"backup", "backup write", "rewrite"}
        /\ main' \in {"backup write", "rewrite", "rewrite write"}
    BY <1>2 DEF BackupOpen, BackupWrite, RewriteOpen, memory, history,
                service
  <2>2. file \in Document
    BY <2>1, Stored DEF MigratesLoaded, Migrating, RestartLoadsLive
  <2>3. file' \in Files /\ backups' \subseteq Document \cup {Empty}
    BY <1>2, <2>2 DEF BackupOpen, BackupWrite, RewriteOpen, TypeOK, Files
  <2> QED
    BY <2>1, <2>3 DEF TypeOK
<1>3. CASE RewriteWrite
  <2>1. Marshal(live) \in Document
    BY MarshalType DEF TypeOK
  <2>2. /\ UNCHANGED <<live, heap, backups, pc, local, crashes, saved, failed,
                       raced, bound, announced>>
        /\ main' = "run" /\ file' = Marshal(live)
    BY <1>3 DEF RewriteWrite, memory, history, service
  <2> QED
    BY <2>1, <2>2 DEF TypeOK, Files
<1>4. CASE MigrationFails
  BY <1>4 DEF MigrationFails, TypeOK, memory, disk, service
<1>5. CASE Crash
  <2>1. /\ UNCHANGED <<file, backups, saved, failed>>
        /\ main' = "down" /\ pc' = Idle /\ local' = NoLocals
        /\ live' = Defaults /\ heap' = [x \in Cells |-> None]
        /\ raced' = FALSE /\ announced' = FALSE
        /\ bound' = Network[DefaultBase]
        /\ crashes' = crashes + 1 /\ crashes < MaxCrashes
    BY <1>5 DEF Crash, disk
  <2>2. live' \in Struct /\ live'.base \in ValidBases
    BY <2>1, StoreAssumption DEF Defaults, Struct, Optional
  <2>3. /\ local' \in [Writers -> Local]
        /\ bound' \in Networks
    BY <2>1, StoreAssumption DEF NoLocals, NoLocal, Local, Networks, Optional
  <2>4. crashes' \in 0..MaxCrashes
    <3>1. MaxCrashes \in Nat /\ crashes \in 0..MaxCrashes
      BY StoreAssumption DEF TypeOK
    <3> QED
      BY <2>1, <3>1
  <2>5. /\ heap' \in [Cells -> Optional(Thresholds)]
        /\ pc' \in [Writers -> {"idle", "open", "write", "swap"}]
        /\ \A w \in Writers : pc'[w] = "idle"
    BY <2>1 DEF Idle, Optional
  <2> QED
    BY <2>1, <2>2, <2>3, <2>4, <2>5 DEF TypeOK
<1>6. ASSUME NEW w \in Writers, Called(w) PROVE TypeOK'
  <2>1. /\ UNCHANGED <<main, live, file, backups, crashes, saved, failed,
                       bound, announced>>
        /\ main = "run" /\ raced' \in BOOLEAN
        /\ heap' \in [Cells -> Optional(Thresholds)]
    BY <1>6 DEF Called, disk, service
  <2>2. CASE Refuses
    BY <2>1, <2>2, JoinedKeeps DEF TypeOK, Refuses
  <2>3. CASE Accepts(w)
    <3>1. PICK s \in Struct, ask \in Asked :
            /\ s.base \in ValidBases
            /\ pc' = [pc EXCEPT ![w] = "open"]
            /\ local' = [Joined EXCEPT ![w] =
                  [cfg |-> s, bytes |-> None, net |-> Network[live.base],
                   ask |-> IF pc = Idle THEN ask ELSE None]]
      BY <2>3 DEF Accepts
    <3>2. Network[live.base] \in Networks
      BY DEF TypeOK, Struct, Networks
    <3>3. local' \in [Writers -> Local] /\ local'[w].cfg = s
          /\ \A v \in Writers : v # w => local'[v] = Joined[v]
      BY <3>1, <3>2, JoinedKeeps DEF Local, Optional
    <3>4. \A v \in Writers : v # w => pc'[v] = pc[v]
      BY <3>1 DEF TypeOK
    <3>5. pc' \in [Writers -> {"idle", "open", "write", "swap"}]
          /\ pc'[w] = "open"
      BY <3>1 DEF TypeOK
    <3> QED
      BY <2>1, <3>1, <3>3, <3>4, <3>5, JoinedKeeps DEF TypeOK
  <2> QED
    BY <1>6, <2>2, <2>3 DEF Called
<1>7. ASSUME NEW w \in Writers, SaveOpen(w) PROVE TypeOK'
  <2>1. Marshal(local[w].cfg) \in Document
    BY <1>7, MarshalType DEF SaveOpen, TypeOK
  <2>2. /\ UNCHANGED <<main, live, heap, backups, crashes, failed, raced,
                       bound, announced>>
        /\ file' = Empty /\ saved' = TRUE
        /\ pc[w] = "open" /\ pc' = [pc EXCEPT ![w] = "write"]
        /\ local' = [local EXCEPT ![w].bytes = Marshal(local[w].cfg)]
    BY <1>7 DEF SaveOpen, memory, service
  <2>3. /\ local' \in [Writers -> Local]
        /\ local'[w].bytes \in Document
        /\ local'[w].cfg = local[w].cfg
    BY <2>1, <2>2 DEF TypeOK, Local, Optional
  <2>4. main = "run"
    BY <2>2 DEF TypeOK, Idle
  <2> QED
    BY <2>2, <2>3, <2>4 DEF TypeOK, Files
<1>8. ASSUME NEW w \in Writers, SaveWrite(w) PROVE TypeOK'
  <2>1. /\ UNCHANGED <<main, live, heap, backups, local, crashes, saved,
                       raced, bound, announced>>
        /\ pc[w] = "write" /\ pc' = [pc EXCEPT ![w] = "swap"]
        /\ file' \in {local[w].bytes, Torn}
        /\ failed' \in BOOLEAN
    BY <1>8 DEF SaveWrite, memory, service, TypeOK
  <2>2. main = "run" /\ local[w].bytes \in Document
    BY <2>1 DEF TypeOK, Idle
  <2> QED
    BY <2>1, <2>2 DEF TypeOK, Files
<1>9. ASSUME NEW w \in Writers, SaveFails(w) \/ Swap(w) PROVE TypeOK'
  <2>1. /\ UNCHANGED <<main, heap, backups, crashes, saved, raced, bound>>
        /\ pc[w] # "idle"
        /\ pc' = [pc EXCEPT ![w] = "idle"]
        /\ local' = [local EXCEPT ![w] = NoLocal]
        /\ live' \in {live, local[w].cfg}
        /\ failed' \in BOOLEAN /\ announced' \in BOOLEAN
        /\ file' \in {file, Torn}
    BY <1>9 DEF SaveFails, Swap, memory, disk, history, service, TypeOK
  <2>2. local' \in [Writers -> Local]
    BY <2>1, StoreAssumption DEF TypeOK, NoLocal, Local, Networks, Optional
  <2>3. main = "run" /\ live' \in Struct /\ live'.base \in ValidBases
    BY <2>1 DEF TypeOK, Idle
  <2> QED
    BY <2>1, <2>2, <2>3 DEF TypeOK, Files
<1>10. CASE UNCHANGED vars
  BY <1>10 DEF vars, memory, disk, history, service, TypeOK
<1> QED
  BY <1>1, <1>2, <1>3, <1>4, <1>5, <1>6, <1>7, <1>8, <1>9, <1>10, PutIsCall,
     PostIsCall DEF Next

LEMMA LoadsTheSame ==
  ASSUME UNCHANGED <<file, live, heap>>
  PROVE  RestartLoadsLive' = RestartLoadsLive
  BY DEF RestartLoadsLive, Loads, Loaded, SameSettings, Marshal

LEMMA StartLoadsLive ==
  ASSUME TypeOK, Start, Loads(file)
  PROVE  RestartLoadsLive'
<1>1. file' = file
  BY DEF Start, disk
<1>2. Loads(file)' /\ Loaded(file)' = Loaded(file)
  BY <1>1 DEF Loads, Loaded
<1>3. SameSettings(Loaded(file), Marshal(live)')
  BY StartRuns
<1> QED
  BY <1>2, <1>3 DEF RestartLoadsLive, SameSettings

LEMMA MigratesNext == ASSUME Basic, [Next]_vars PROVE MigratesLoaded'
<1> USE DEF Basic
<1>1. CASE Start
  <2>1. CASE Loads(file)
    <3>1. main' \in {"backup", "run"} /\ (main' = "backup" => file' # Absent)
      BY <1>1, <2>1, StartRuns DEF Start, disk
    <3>2. RestartLoadsLive'
      BY <1>1, <2>1, StartLoadsLive
    <3> QED
      BY <3>1, <3>2 DEF MigratesLoaded, Migrating
  <2>2. CASE ~Loads(file)
    BY <1>1, <2>2, NotStarted DEF MigratesLoaded, Migrating
  <2> QED
    BY <2>1, <2>2
<1>2. CASE BackupOpen \/ BackupWrite
  <2>1. Migrating /\ UNCHANGED <<file, live, heap>>
    BY <1>2 DEF BackupOpen, BackupWrite, memory, Migrating
  <2> QED
    BY <2>1, LoadsTheSame DEF MigratesLoaded
<1>3. CASE RewriteOpen \/ RewriteWrite \/ MigrationFails \/ Crash
  BY <1>3 DEF RewriteOpen, RewriteWrite, MigrationFails, Crash,
              MigratesLoaded, Migrating
<1>4. ASSUME NEW w \in Writers,
             \/ Called(w) \/ SaveOpen(w) \/ SaveWrite(w)
             \/ SaveFails(w) \/ Swap(w)
      PROVE  MigratesLoaded'
  <2>1. main = "run" /\ main' = main
    BY <1>4 DEF Called, SaveOpen, SaveWrite, SaveFails, Swap, TypeOK, Idle
  <2> QED
    BY <2>1 DEF MigratesLoaded, Migrating
<1>5. CASE UNCHANGED vars
  <2>1. UNCHANGED <<file, live, heap, main>>
    BY <1>5 DEF vars, disk, memory
  <2> QED
    BY <2>1, LoadsTheSame DEF MigratesLoaded, Migrating
<1> QED
  BY <1>1, <1>2, <1>3, <1>4, <1>5, PutIsCall, PostIsCall DEF Next

LEMMA BasicNext == Basic /\ [Next]_vars => Basic'
  BY TypeNext, MigratesNext DEF Basic

LEMMA BasicInvariant == Spec => []Basic
<1> QED
  BY BasicInit, BasicNext, PTL DEF Spec

(* Types; the live configuration is always one that validate accepts.      *)
THEOREM TypeCorrect == Spec => []TypeOK
<1>1. Basic => TypeOK
  BY DEF Basic
<1> QED
  BY <1>1, BasicInvariant, PTL

-----------------------------------------------------------------------------
(* What is saved can be loaded *)

Saved == /\ OnlySoundIsSaved
         /\ ReadableFileLoads

LEMMA SoundLoads ==
  ASSUME NEW d \in Document, Sound(d)
  PROVE  Loads(d) \/ SentNewer(d)
<1>1. d \notin {Absent, Empty, Torn}
  BY StoreAssumption
<1> QED
  BY <1>1 DEF Loads, Sound

LEMMA MarshalSound ==
  ASSUME TypeOK, NEW c \in Struct, Sound(c)
  PROVE  /\ Sound(Marshal(c))
         /\ Loads(Marshal(c)) \/ SentNewer(Marshal(c))
<1>1. Marshal(c) \in Document /\ Sound(Marshal(c))
  BY MarshalType DEF Sound, SentNewer
<1> QED
  BY <1>1, SoundLoads

LEMMA SavedNext ==
  ASSUME Basic, Saved, [Next]_vars
  PROVE  Saved'
<1> USE DEF Basic, Saved
<1>1. CASE Start
  <2>1. UNCHANGED <<file, pc, local>>
    BY <1>1 DEF Start, disk
  <2>2. Sound(live)'
    <3>1. CASE Loads(file)
      BY <1>1, <3>1, StartRuns
    <3>2. CASE ~Loads(file)
      BY <1>1, <3>2, NotStarted DEF memory, OnlySoundIsSaved, Sound
    <3> QED
      BY <3>1, <3>2
  <2> QED
    BY <2>1, <2>2 DEF OnlySoundIsSaved, Sound, SentNewer,
       ReadableFileLoads, Loads, Readable
<1>2. CASE BackupOpen \/ BackupWrite \/ RewriteOpen \/ MigrationFails
  <2>1. UNCHANGED <<live, pc, local>> /\ file' \in {file, Empty}
    BY <1>2 DEF BackupOpen, BackupWrite, RewriteOpen, MigrationFails, memory,
                disk
  <2> QED
    BY <2>1 DEF OnlySoundIsSaved, Sound, SentNewer,
       ReadableFileLoads, Loads, Readable
<1>3. CASE RewriteWrite
  <2>1. UNCHANGED <<live, pc, local>> /\ file' = Marshal(live)
    BY <1>3 DEF RewriteWrite, memory
  <2>2. Loads(Marshal(live)) \/ SentNewer(Marshal(live))
    BY MarshalSound DEF OnlySoundIsSaved, TypeOK
  <2> QED
    BY <2>1, <2>2 DEF OnlySoundIsSaved, Sound, SentNewer,
       ReadableFileLoads, Loads, Readable
<1>4. CASE Crash
  <2>1. live' = Defaults /\ pc' = Idle /\ file' = file
    BY <1>4 DEF Crash, disk
  <2>2. Sound(live)'
    BY <2>1, StoreAssumption DEF Defaults, Sound
  <2> QED
    BY <2>1, <2>2 DEF OnlySoundIsSaved, Idle, ReadableFileLoads, Loads,
                      Readable
<1>5. ASSUME NEW w \in Writers, Called(w) PROVE Saved'
  <2>1. UNCHANGED <<live, file>>
    BY <1>5 DEF Called, disk
  <2>2. \A v \in Writers : /\ Joined[v].cfg = local[v].cfg
                           /\ Joined[v].bytes = local[v].bytes
    BY JoinedKeeps
  <2>3. CASE Refuses
    BY <2>1, <2>2, <2>3 DEF Refuses, OnlySoundIsSaved, Sound, SentNewer,
       ReadableFileLoads, Loads, Readable
  <2>4. CASE Accepts(w)
    <3>1. PICK s \in Struct, ask \in Asked :
            /\ s.base \in ValidBases
            /\ \/ s.version = live.version
               \/ \E body \in Puts : body.version = s.version
            /\ pc' = [pc EXCEPT ![w] = "open"]
            /\ local' = [Joined EXCEPT ![w] =
                  [cfg |-> s, bytes |-> None, net |-> Network[live.base],
                   ask |-> IF pc = Idle THEN ask ELSE None]]
      BY <2>4 DEF Accepts
    <3>2. /\ local'[w].cfg = s /\ pc'[w] = "open"
          /\ \A v \in Writers : v # w => /\ local'[v] = Joined[v]
                                        /\ pc'[v] = pc[v]
      BY <3>1, JoinedKeeps DEF TypeOK
    <3>3. Sound(s)
      BY <3>1, StoreAssumption DEF OnlySoundIsSaved, Sound, SentNewer, Struct
    <3> QED
      BY <2>1, <2>2, <3>2, <3>3 DEF OnlySoundIsSaved, Sound, SentNewer,
         ReadableFileLoads, Loads, Readable
  <2> QED
    BY <1>5, <2>3, <2>4 DEF Called
<1>6. ASSUME NEW w \in Writers, SaveOpen(w) PROVE Saved'
  <2>1. /\ file' = Empty /\ live' = live
        /\ pc[w] = "open" /\ pc' = [pc EXCEPT ![w] = "write"]
        /\ local' = [local EXCEPT ![w].bytes = Marshal(local[w].cfg)]
    BY <1>6 DEF SaveOpen, memory
  <2>2. Sound(Marshal(local[w].cfg))
    BY <2>1, MarshalSound DEF OnlySoundIsSaved, TypeOK
  <2>3. local'[w].cfg = local[w].cfg
        /\ local'[w].bytes = Marshal(local[w].cfg)
    BY <2>1 DEF TypeOK, Local
  <2>4. \A v \in Writers : v # w => local'[v] = local[v] /\ pc'[v] = pc[v]
    BY <2>1 DEF TypeOK
  <2> QED
    BY <2>1, <2>2, <2>3, <2>4 DEF OnlySoundIsSaved, Sound, ReadableFileLoads,
                                  Readable
<1>7. ASSUME NEW w \in Writers, SaveWrite(w) PROVE Saved'
  <2>1. /\ UNCHANGED <<live, local>>
        /\ pc[w] = "write" /\ pc' = [pc EXCEPT ![w] = "swap"]
        /\ file' \in {local[w].bytes, Torn}
    BY <1>7 DEF SaveWrite, memory
  <2>2. \A v \in Writers : /\ pc'[v] # "idle" => pc[v] # "idle"
                           /\ pc'[v] = "write" => pc[v] = "write"
    BY <2>1 DEF TypeOK
  <2> QED
    BY <2>1, <2>2 DEF OnlySoundIsSaved, Sound, SentNewer,
       ReadableFileLoads, Loads, Readable
<1>8. ASSUME NEW w \in Writers, SaveFails(w) \/ Swap(w) PROVE Saved'
  <2>1. /\ pc[w] # "idle"
        /\ pc' = [pc EXCEPT ![w] = "idle"]
        /\ local' = [local EXCEPT ![w] = NoLocal]
        /\ live' \in {live, local[w].cfg}
        /\ file' \in {file, Torn}
    BY <1>8 DEF SaveFails, Swap, memory, disk
  <2>2. \A v \in Writers : v # w => local'[v] = local[v] /\ pc'[v] = pc[v]
    BY <2>1 DEF TypeOK
  <2>3. pc'[w] = "idle"
    BY <2>1 DEF TypeOK
  <2> QED
    BY <2>1, <2>2, <2>3 DEF OnlySoundIsSaved, Sound, ReadableFileLoads,
                            Loads, Readable
<1>9. CASE UNCHANGED vars
  BY <1>9 DEF vars, memory, disk, OnlySoundIsSaved, Sound, ReadableFileLoads,
              Loads, Readable
<1> QED
  BY <1>1, <1>2, <1>3, <1>4, <1>5, <1>6, <1>7, <1>8, <1>9, PutIsCall,
     PostIsCall DEF Next

LEMMA SavedInvariant == Spec => []Saved
<1>1. Init => Saved
  BY StoreAssumption DEF Init, Saved, OnlySoundIsSaved, Sound, Defaults, Idle,
     ReadableFileLoads
<1>2. Basic /\ Saved /\ [Next]_vars => Saved'
  BY SavedNext
<1> QED
  BY <1>1, <1>2, BasicInvariant, PTL DEF Spec

(* Whatever is saved while whatever crashes: a file that is JSON at all is *)
(* one the next start accepts, unless it was there before or a PUT asked   *)
(* for a version that is newer than the program's.                         *)
THEOREM SavedFileLoads == Spec => []ReadableFileLoads
<1>1. Saved => ReadableFileLoads
  BY DEF Saved
<1> QED
  BY <1>1, SavedInvariant, PTL

-----------------------------------------------------------------------------
(* The migration *)

LEMMA MigrationNext ==
  ASSUME Basic, MigrationOrder, [Next]_vars
  PROVE  MigrationOrder'
<1> USE DEF Basic
<1> DEFINE Kept == \E d \in backups : KeepsFirst(d)
           First == /\ KeepsFirst(file) \/ file = Empty
                    /\ (file = Empty \/ main = "rewrite") => Kept
                    /\ main = "rewrite write"
                         => SameSettings(Marshal(live), FirstFile)
           Writing == \A w \in Writers : pc[w] \in {"write", "swap"} => saved
<1>0. MigrationOrder <=> Writing /\ (~saved /\ FirstFile # Absent => First)
  BY DEF MigrationOrder
<1>1. CASE Start
  <2>1. UNCHANGED <<file, backups, pc, saved>>
    BY <1>1 DEF Start, disk, history
  <2>2. main' \in {"backup", "run", "refused"}
    BY <1>1, StartRuns, NotStarted
  <2> QED
    BY <2>1, <2>2 DEF MigrationOrder, KeepsFirst, Readable, SameSettings
<1>2. CASE BackupOpen
  <2>1. /\ UNCHANGED <<file, pc, saved>>
        /\ main = "backup" /\ main' = "backup write"
    BY <1>2 DEF BackupOpen, history
  <2>2. file # Empty
    BY <2>1 DEF MigratesLoaded, Migrating, RestartLoadsLive, Loads
  <2> QED
    BY <2>1, <2>2 DEF MigrationOrder, KeepsFirst, Readable, SameSettings
<1>3. CASE BackupWrite
  <2>1. /\ UNCHANGED <<file, pc, saved>>
        /\ main = "backup write" /\ main' = "rewrite"
        /\ file \in backups'
    BY <1>3 DEF BackupWrite, history
  <2>2. file # Empty
    BY <2>1 DEF MigratesLoaded, Migrating, RestartLoadsLive, Loads
  <2> QED
    BY <2>1, <2>2 DEF MigrationOrder, KeepsFirst, Readable, SameSettings
<1>4. CASE RewriteOpen
  <2>1. /\ UNCHANGED <<live, heap, backups, pc, saved>>
        /\ main = "rewrite" /\ main' = "rewrite write" /\ file' = Empty
    BY <1>4 DEF RewriteOpen, memory, history
  <2>2. ~saved /\ FirstFile # Absent
          => SameSettings(Marshal(live), FirstFile)
    <3>1. SUFFICES ASSUME ~saved, FirstFile # Absent
                   PROVE  SameSettings(Marshal(live), FirstFile)
      OBVIOUS
    <3>2. /\ file # Absent /\ file # Empty
          /\ SameSettings(Loaded(file), Marshal(live))
          /\ file \in Document
      BY <2>1, Stored
         DEF MigratesLoaded, Migrating, RestartLoadsLive, Loads
    <3>3. SameSettings(file, FirstFile)
      BY <3>1, <3>2 DEF MigrationOrder, KeepsFirst
    <3>4. Loaded(file).base = file.base /\ Loaded(file).opt = file.opt
      BY <3>2 DEF Loaded, Document
    <3> QED
      BY <3>2, <3>3, <3>4 DEF SameSettings
  <2>3. SameSettings(Marshal(live), FirstFile)
          => SameSettings(Marshal(live)', FirstFile)
    BY <2>1 DEF Marshal, SameSettings
  <2>4. Kept => Kept'
    BY <2>1 DEF KeepsFirst, Readable, SameSettings
  <2>5. ~saved /\ FirstFile # Absent => Kept
    BY <1>0, <2>1
  <2>6. (~saved /\ FirstFile # Absent => First)'
    BY <2>1, <2>2, <2>3, <2>4, <2>5
  <2>7. Writing'
    BY <2>1 DEF MigrationOrder
  <2> QED
    BY <2>6, <2>7 DEF MigrationOrder
<1>5. CASE RewriteWrite
  <2>1. /\ UNCHANGED <<backups, pc, saved>>
        /\ main = "rewrite write" /\ main' = "run" /\ file' = Marshal(live)
    BY <1>5 DEF RewriteWrite, history
  <2>2. Marshal(live) \notin {Absent, Empty, Torn}
    BY MarshalType, StoreAssumption DEF TypeOK
  <2> QED
    BY <2>1, <2>2 DEF MigrationOrder, KeepsFirst, Readable, SameSettings
<1>6. CASE MigrationFails \/ Crash
  <2>1. /\ UNCHANGED <<file, backups, saved>>
        /\ main' \in {"run", "down"}
        /\ pc' \in {pc, Idle}
    BY <1>6 DEF MigrationFails, Crash, disk
  <2> QED
    BY <2>1 DEF MigrationOrder, KeepsFirst, Readable, SameSettings, Idle
<1>7. ASSUME NEW w \in Writers, Called(w) PROVE MigrationOrder'
  <2>1. /\ UNCHANGED <<file, backups, saved, main>> /\ main = "run"
        /\ pc' = pc \/ pc' = [pc EXCEPT ![w] = "open"]
    BY <1>7 DEF Called, Refuses, Accepts, disk
  <2>2. \A v \in Writers : pc'[v] \in {"write", "swap"} => pc'[v] = pc[v]
    BY <2>1 DEF TypeOK
  <2> QED
    BY <2>1, <2>2 DEF MigrationOrder, KeepsFirst, Readable, SameSettings
<1>8. ASSUME NEW w \in Writers,
             SaveOpen(w) \/ SaveWrite(w) \/ Swap(w)
             \/ (SaveFails(w) /\ pc[w] = "write")
      PROVE  MigrationOrder'
  <2>1. saved'
    <3>1. CASE SaveOpen(w)
      BY <3>1 DEF SaveOpen
    <3>2. CASE ~SaveOpen(w)
      <4>1. pc[w] \in {"write", "swap"} /\ saved' = saved
        BY <1>8, <3>2 DEF SaveWrite, Swap, SaveFails, history
      <4> QED
        BY <4>1 DEF MigrationOrder
    <3> QED
      BY <3>1, <3>2
  <2> QED
    BY <2>1 DEF MigrationOrder
<1>9. ASSUME NEW w \in Writers, SaveFails(w), pc[w] = "open"
      PROVE  MigrationOrder'
  <2>1. /\ UNCHANGED <<main, file, backups, saved>>
        /\ pc' = [pc EXCEPT ![w] = "idle"]
    BY <1>9 DEF SaveFails
  <2>2. \A v \in Writers : pc'[v] \in {"write", "swap"} => pc'[v] = pc[v]
    BY <2>1 DEF TypeOK
  <2>3. main = "run"
    BY <1>9 DEF TypeOK, Idle
  <2> QED
    BY <2>1, <2>2, <2>3 DEF MigrationOrder, KeepsFirst, Readable,
                            SameSettings
<1>10. CASE UNCHANGED vars
  <2>1. UNCHANGED <<main, file, backups, saved, pc, live, heap>>
    BY <1>10 DEF vars, disk, history, memory
  <2> QED
    BY <2>1 DEF MigrationOrder, KeepsFirst, Readable, SameSettings, Marshal
<1>11. ASSUME NEW w \in Writers, SaveFails(w)
       PROVE  pc[w] \in {"open", "write"}
  BY <1>11 DEF SaveFails
<1> QED
  BY <1>1, <1>2, <1>3, <1>4, <1>5, <1>6, <1>7, <1>8, <1>9, <1>10, <1>11,
     PutIsCall, PostIsCall DEF Next

(* Wherever a crash or a failing write stops the migration, the user's     *)
(* settings are still on disk.                                             *)
THEOREM MigrationIsSafe == Spec => []MigrationKeepsSettings
<1>1. Init => MigrationOrder
  BY StoreAssumption DEF Init, MigrationOrder, Idle, KeepsFirst, Readable,
     SameSettings
<1>2. Basic /\ MigrationOrder /\ [Next]_vars => MigrationOrder'
  BY MigrationNext
<1>3. MigrationOrder => MigrationKeepsSettings
  BY DEF MigrationOrder, MigrationKeepsSettings, KeepsFirst
<1> QED
  BY <1>1, <1>2, <1>3, BasicInvariant, PTL DEF Spec

-----------------------------------------------------------------------------
(* What a save announces *)

LEMMA AnnouncedNext ==
  ASSUME Basic, OldIsAnnounced, [Next]_vars
  PROVE  OldIsAnnounced'
<1> USE DEF Basic
<1>1. CASE Start
  <2>1. UNCHANGED <<pc, announced>> /\ pc = Idle
    BY <1>1 DEF Start, TypeOK
  <2>2. main' = "refused" \/ Network[live.base]' = bound'
    BY <1>1, StartRuns, NotStarted
  <2> QED
    BY <2>1, <2>2 DEF OldIsAnnounced, Idle
<1>2. CASE \/ BackupOpen \/ BackupWrite \/ RewriteOpen \/ RewriteWrite
           \/ MigrationFails
  <2>1. /\ UNCHANGED <<live, pc, local, bound, announced>>
        /\ main \notin {"down", "refused"}
    BY <1>2 DEF BackupOpen, BackupWrite, RewriteOpen, RewriteWrite,
                MigrationFails, memory, service
  <2> QED
    BY <2>1 DEF OldIsAnnounced
<1>3. CASE Crash
  BY <1>3 DEF Crash, OldIsAnnounced, Idle
<1>4. ASSUME NEW w \in Writers, Called(w) PROVE OldIsAnnounced'
  <2>1. UNCHANGED <<main, live, bound, announced>> /\ main = "run"
    BY <1>4 DEF Called, service
  <2>2. \A v \in Writers : Joined[v].net = local[v].net
    BY JoinedKeeps
  <2>3. CASE Refuses
    BY <2>1, <2>2, <2>3 DEF Refuses, OldIsAnnounced
  <2>4. CASE Accepts(w)
    <3>1. PICK s \in Struct, ask \in Asked :
            /\ pc' = [pc EXCEPT ![w] = "open"]
            /\ local' = [Joined EXCEPT ![w] =
                  [cfg |-> s, bytes |-> None, net |-> Network[live.base],
                   ask |-> IF pc = Idle THEN ask ELSE None]]
      BY <2>4 DEF Accepts
    <3>2. /\ local'[w].net = Network[live.base]
          /\ \A v \in Writers : v # w => /\ local'[v] = Joined[v]
                                        /\ pc'[v] = pc[v]
      BY <3>1, JoinedKeeps DEF TypeOK
    <3> QED
      BY <2>1, <2>2, <3>2 DEF OldIsAnnounced
  <2> QED
    BY <1>4, <2>3, <2>4 DEF Called
<1>5. ASSUME NEW w \in Writers, SaveOpen(w) \/ SaveWrite(w)
      PROVE  OldIsAnnounced'
  <2>1. /\ UNCHANGED <<main, live, bound, announced>>
        /\ pc[w] # "idle"
        /\ pc' \in {[pc EXCEPT ![w] = "write"], [pc EXCEPT ![w] = "swap"]}
    BY <1>5 DEF SaveOpen, SaveWrite, memory, service
  <2>2. \A v \in Writers : local'[v].net = local[v].net
    <3>1. CASE SaveOpen(w)
      <4>1. \A v \in Writers : local[v] \in Local
        BY DEF TypeOK
      <4>2. PICK b :
              local' = [local EXCEPT ![w] = [local[w] EXCEPT !.bytes = b]]
        BY <3>1 DEF SaveOpen
      <4>3. local'[w] = [local[w] EXCEPT !.bytes = b]
        BY <4>2 DEF TypeOK
      <4>4. \A v \in Writers : v # w => local'[v] = local[v]
        BY <4>2 DEF TypeOK
      <4> QED
        BY <4>1, <4>3, <4>4 DEF Local
    <3>2. CASE SaveWrite(w)
      BY <3>2 DEF SaveWrite
    <3> QED
      BY <1>5, <3>1, <3>2
  <2>3. \A v \in Writers : pc'[v] # "idle" => pc[v] # "idle"
    BY <2>1 DEF TypeOK
  <2> QED
    BY <2>1, <2>2, <2>3 DEF OldIsAnnounced
<1>6. ASSUME NEW w \in Writers, SaveFails(w) PROVE OldIsAnnounced'
  <2>1. /\ UNCHANGED <<main, live, bound, announced>>
        /\ pc' = [pc EXCEPT ![w] = "idle"]
        /\ local' = [local EXCEPT ![w] = NoLocal]
    BY <1>6 DEF SaveFails, memory, service
  <2>2. \A v \in Writers : pc'[v] # "idle" =>
                             pc[v] # "idle" /\ local'[v] = local[v]
    BY <2>1 DEF TypeOK
  <2> QED
    BY <2>1, <2>2 DEF OldIsAnnounced
<1>7. ASSUME NEW w \in Writers, Swap(w) PROVE OldIsAnnounced'
  <2>1. /\ UNCHANGED <<main, bound>>
        /\ live' = local[w].cfg /\ pc[w] = "swap"
        /\ announced' = (announced \/ Network[live'.base] # local[w].net)
        /\ pc' = [pc EXCEPT ![w] = "idle"]
        /\ local' = [local EXCEPT ![w] = NoLocal]
    BY <1>7 DEF Swap
  <2>2. \A v \in Writers : pc'[v] # "idle" =>
                             pc[v] # "idle" /\ local'[v] = local[v]
    BY <2>1 DEF TypeOK
  <2>3. Network[live'.base] = bound \/ announced'
    BY <2>1 DEF OldIsAnnounced
  <2> QED
    BY <2>1, <2>2, <2>3 DEF OldIsAnnounced
<1>8. CASE UNCHANGED vars
  BY <1>8 DEF vars, memory, service, OldIsAnnounced
<1> QED
  BY <1>1, <1>2, <1>3, <1>4, <1>5, <1>6, <1>7, <1>8, PutIsCall, PostIsCall
     DEF Next

(* However saves overlap: a process that does not listen where its         *)
(* configuration says has answered "restart required".                     *)
THEOREM RestartIsAnnounced == Spec => []RestartAnnounced
<1>1. Init => OldIsAnnounced
  BY DEF Init, OldIsAnnounced, Idle
<1>2. Basic /\ OldIsAnnounced /\ [Next]_vars => OldIsAnnounced'
  BY AnnouncedNext
<1>3. OldIsAnnounced => RestartAnnounced
  BY DEF OldIsAnnounced, RestartAnnounced
<1> QED
  BY <1>1, <1>2, <1>3, BasicInvariant, PTL DEF Spec

-----------------------------------------------------------------------------
(* Memory and disk *)

LEMMA WrittenIsLive ==
  ASSUME TypeOK, NEW s \in Struct, Sound(s), file' = Marshal(s), live' = s,
         heap' = heap, ~SentNewer(s)
  PROVE  RestartLoadsLive'
<1>1. Marshal(s) \in Document /\ Loads(Marshal(s))
  BY MarshalSound, MarshalType DEF SentNewer
<1>2. Marshal(s) # Absent
  BY <1>1, StoreAssumption
<1>3. Loads(file)'
  BY <1>1 DEF Loads
<1>4. Loaded(file)' = [Marshal(s) EXCEPT !.version = CurrentVersion]
  BY <1>2 DEF Loaded
<1>5. Marshal(live)' = Marshal(s)
  BY DEF Marshal
<1>6. /\ Loaded(file)'.base = Marshal(s).base
      /\ Loaded(file)'.opt = Marshal(s).opt
  BY <1>1, <1>4 DEF Document
<1> QED
  BY <1>3, <1>5, <1>6 DEF RestartLoadsLive, SameSettings

LEMMA OneSaveNext ==
  ASSUME Basic, Saved, OneSave, [Next]_vars
  PROVE  OneSave'
<1> USE DEF Basic
<1> DEFINE Alone == \A v, w \in Writers :
                      pc[v] # "idle" /\ pc[w] # "idle" => v = w
           Steps == \A w \in Writers :
                      /\ pc[w] = "write" =>
                           /\ file = Empty
                           /\ local[w].bytes = Marshal(local[w].cfg)
                      /\ pc[w] = "swap" /\ ~failed
                           => file = Marshal(local[w].cfg)
           Agree == ~failed /\ NoneWrites /\ ~SentNewer(live)
                      => RestartLoadsLive
<1>0. OneSave <=> (~raced => Alone /\ Steps /\ Agree)
  BY DEF OneSave
<1>a. ASSUME ~raced' => (Alone /\ Steps /\ Agree)' PROVE OneSave'
  BY <1>a DEF OneSave
<1>1. CASE Start
  <2>1. pc' = Idle /\ main' \in {"backup", "run", "refused"}
    BY <1>1, StartRuns, NotStarted DEF Start, TypeOK
  <2>2. main' = "run" => RestartLoadsLive'
    BY <1>1, StartLoadsLive, NotStarted
  <2> QED
    BY <1>a, <2>1, <2>2 DEF Idle, NoneWrites
<1>2. CASE BackupOpen \/ BackupWrite \/ RewriteOpen \/ Crash
  <2>1. main' # "run" /\ pc' = Idle
    BY <1>2 DEF BackupOpen, BackupWrite, RewriteOpen, Crash, TypeOK
  <2> QED
    BY <1>a, <2>1 DEF Idle, NoneWrites
<1>3. CASE RewriteWrite
  <2>1. /\ UNCHANGED <<live, heap, pc>> /\ file' = Marshal(live)
        /\ pc = Idle
    BY <1>3 DEF RewriteWrite, memory, TypeOK
  <2>2. ~SentNewer(live)' => RestartLoadsLive'
    BY <2>1, WrittenIsLive DEF Saved, OnlySoundIsSaved, TypeOK, SentNewer
  <2> QED
    BY <1>a, <2>1, <2>2 DEF Idle
<1>4. CASE MigrationFails
  <2>1. /\ UNCHANGED <<live, heap, file, pc>>
        /\ pc = Idle
        /\ Migrating \/ failed'
    BY <1>4 DEF MigrationFails, memory, disk, TypeOK, Migrating
  <2>2. Migrating => RestartLoadsLive'
    BY <2>1, LoadsTheSame DEF MigratesLoaded
  <2> QED
    BY <1>a, <2>1, <2>2 DEF Idle
<1>5. ASSUME NEW w \in Writers, Called(w) PROVE OneSave'
  <2> SUFFICES ASSUME ~raced' PROVE (Alone /\ Steps /\ Agree)'
    BY <1>a
  <2>1. /\ UNCHANGED <<main, live, file, failed>> /\ main = "run"
        /\ ~raced /\ pc = Idle
        /\ live.opt # None => heap'[live.opt] = heap[live.opt]
    BY <1>5 DEF Called, disk
  <2>2. pc' = pc \/ pc' = [pc EXCEPT ![w] = "open"]
    BY <1>5 DEF Called, Refuses, Accepts
  <2>3. \A v \in Writers : /\ pc'[v] \in {"idle", "open"}
                           /\ pc'[v] # "idle" => v = w
    BY <2>1, <2>2 DEF Idle
  <2>4. Marshal(live)' = Marshal(live)
    BY <2>1, MarshalKeeps DEF Marshal, TypeOK
  <2>5. NoneWrites
    BY <2>1 DEF NoneWrites, Idle
  <2>6. ~failed /\ ~SentNewer(live)' => RestartLoadsLive'
    BY <1>0, <2>1, <2>4, <2>5 DEF RestartLoadsLive, Loads, Loaded,
                                  SameSettings, SentNewer
  <2> QED
    BY <2>1, <2>3, <2>6
<1>6. ASSUME NEW w \in Writers, SaveOpen(w) PROVE OneSave'
  <2> SUFFICES ASSUME ~raced' PROVE (Alone /\ Steps /\ Agree)'
    BY <1>a
  <2>1. /\ UNCHANGED <<live, heap, failed>> /\ ~raced /\ file' = Empty
        /\ pc[w] = "open" /\ pc' = [pc EXCEPT ![w] = "write"]
        /\ local' = [local EXCEPT ![w].bytes = Marshal(local[w].cfg)]
    BY <1>6 DEF SaveOpen, memory
  <2>2. \A v \in Writers : v # w => pc[v] = "idle" /\ pc'[v] = "idle"
    BY <1>0, <2>1 DEF TypeOK
  <2>3. pc'[w] = "write"
    BY <2>1 DEF TypeOK
  <2>4. /\ local'[w].bytes = Marshal(local[w].cfg)
        /\ local'[w].cfg = local[w].cfg
    BY <2>1 DEF TypeOK, Local
  <2>5. Marshal(local[w].cfg)' = Marshal(local[w].cfg)
    BY <2>1, <2>4 DEF Marshal
  <2> QED
    BY <2>1, <2>2, <2>3, <2>4, <2>5 DEF NoneWrites
<1>7. ASSUME NEW w \in Writers, SaveWrite(w) PROVE OneSave'
  <2> SUFFICES ASSUME ~raced' PROVE (Alone /\ Steps /\ Agree)'
    BY <1>a
  <2>1. /\ UNCHANGED <<live, heap, local>> /\ ~raced
        /\ pc[w] = "write" /\ pc' = [pc EXCEPT ![w] = "swap"]
        /\ file = Empty => file' = local[w].bytes
    BY <1>7 DEF SaveWrite, memory
  <2>2. \A v \in Writers : v # w => pc[v] = "idle" /\ pc'[v] = "idle"
    BY <1>0, <2>1 DEF TypeOK
  <2>3. pc'[w] = "swap"
    BY <2>1 DEF TypeOK
  <2>4. file' = Marshal(local[w].cfg)
    BY <1>0, <2>1
  <2>5. Marshal(local[w].cfg)' = Marshal(local[w].cfg)
    BY <2>1 DEF Marshal
  <2> QED
    BY <2>1, <2>2, <2>3, <2>4, <2>5 DEF NoneWrites
<1>8. ASSUME NEW w \in Writers, SaveFails(w) PROVE OneSave'
  <2> SUFFICES ASSUME ~raced' PROVE (Alone /\ Steps /\ Agree)'
    BY <1>a
  <2>1. /\ UNCHANGED <<main, live, heap>> /\ ~raced
        /\ pc[w] # "idle" /\ pc' = [pc EXCEPT ![w] = "idle"]
        /\ \/ pc[w] = "open" /\ UNCHANGED <<file, failed>>
           \/ failed'
    BY <1>8 DEF SaveFails, memory
  <2>2. \A v \in Writers : pc'[v] = "idle" /\ (v # w => pc[v] = "idle")
    BY <1>0, <2>1 DEF TypeOK
  <2>3. ASSUME ~failed', ~SentNewer(live)' PROVE RestartLoadsLive'
    <3>1. pc[w] = "open" /\ UNCHANGED <<file, failed>> /\ main = "run"
      BY <2>1, <2>3 DEF TypeOK, Idle
    <3>2. NoneWrites /\ ~failed /\ ~SentNewer(live)
      BY <2>1, <2>2, <2>3, <3>1 DEF NoneWrites, SentNewer
    <3> QED
      BY <1>0, <2>1, <3>1, <3>2, LoadsTheSame
  <2> QED
    BY <2>2, <2>3
<1>9. ASSUME NEW w \in Writers, Swap(w) PROVE OneSave'
  <2> SUFFICES ASSUME ~raced' PROVE (Alone /\ Steps /\ Agree)'
    BY <1>a
  <2>1. /\ UNCHANGED <<main, heap, file, failed>> /\ ~raced
        /\ live' = local[w].cfg
        /\ pc[w] = "swap" /\ pc' = [pc EXCEPT ![w] = "idle"]
    BY <1>9 DEF Swap, disk, history
  <2>2. \A v \in Writers : pc'[v] = "idle"
    BY <1>0, <2>1 DEF TypeOK
  <2>3. local[w].cfg \in Struct /\ Sound(local[w].cfg)
    BY <2>1 DEF TypeOK, Saved, OnlySoundIsSaved
  <2>4. ~failed /\ ~SentNewer(live)' => RestartLoadsLive'
    BY <1>0, <2>1, <2>3, WrittenIsLive DEF SentNewer
  <2> QED
    BY <2>1, <2>2, <2>4
<1>10. CASE UNCHANGED vars
  <2>1. UNCHANGED <<main, live, heap, file, pc, local, failed, raced>>
    BY <1>10 DEF vars, memory, disk, history
  <2>2. RestartLoadsLive' = RestartLoadsLive
    BY <2>1, LoadsTheSame
  <2>3. NoneWrites' = NoneWrites /\ SentNewer(live)' = SentNewer(live)
    BY <2>1 DEF NoneWrites, SentNewer
  <2>4. Steps' = Steps
    BY <2>1 DEF Marshal
  <2> QED
    BY <1>0, <1>a, <2>1, <2>2, <2>3, <2>4
<1> QED
  BY <1>1, <1>2, <1>3, <1>4, <1>5, <1>6, <1>7, <1>8, <1>9, <1>10, PutIsCall,
     PostIsCall DEF Next

(* While nothing is being saved, a restart would load what the process     *)
(* runs with; except after a write that failed half way, one of the races  *)
(* named at RestartKeepsConfig, or a PUT of a version that is newer.       *)
THEOREM MemoryAgreesWithDisk == Spec => []RestartKeepsConfig
<1>1. Init => OneSave
  BY DEF Init, OneSave, Idle, NoneWrites
<1>2. Basic /\ Saved /\ OneSave /\ [Next]_vars => OneSave'
  BY OneSaveNext
<1>3. OneSave => RestartKeepsConfig
  BY DEF OneSave, RestartKeepsConfig, NoneWrites, Idle
<1> QED
  BY <1>1, <1>2, <1>3, BasicInvariant, SavedInvariant, PTL DEF Spec
-----------------------------------------------------------------------------
(* What a save does *)

LEMMA AloneNext ==
  ASSUME Basic, AloneObeys, [Next]_vars
  PROVE  AloneObeys'
<1> USE DEF Basic
<1>1. CASE \/ Start \/ BackupOpen \/ BackupWrite \/ RewriteOpen
           \/ RewriteWrite \/ MigrationFails \/ Crash
  <2>1. pc' = Idle
    BY <1>1 DEF Start, BackupOpen, BackupWrite, RewriteOpen, RewriteWrite,
                MigrationFails, Crash, TypeOK
  <2> QED
    BY <2>1 DEF AloneObeys, Idle
<1>2. ASSUME NEW w \in Writers, Called(w) PROVE AloneObeys'
  <2>1. CASE Refuses
    BY <2>1, JoinedKeeps DEF Refuses, AloneObeys
  <2>2. CASE Accepts(w)
    <3>1. PICK s \in Struct, ask \in Asked :
            /\ Obeys(Marshal(live)', Marshal(s)', ask)
            /\ pc' = [pc EXCEPT ![w] = "open"]
            /\ local' = [Joined EXCEPT ![w] =
                  [cfg |-> s, bytes |-> None, net |-> Network[live.base],
                   ask |-> IF pc = Idle THEN ask ELSE None]]
      BY <2>2 DEF Accepts
    <3>2. /\ local'[w].cfg = s
          /\ local'[w].ask = IF pc = Idle THEN ask ELSE None
          /\ \A v \in Writers : v # w => /\ local'[v].ask = None
                                        /\ pc'[v] = pc[v]
      BY <3>1, JoinedKeeps DEF TypeOK
    <3>3. pc = Idle => \A v \in Writers : v # w => pc'[v] = "idle"
      BY <3>2 DEF Idle
    <3>4. Marshal(local[w].cfg)' = Marshal(s)'
      BY <3>2 DEF Marshal
    <3> QED
      BY <3>1, <3>2, <3>3, <3>4 DEF AloneObeys
  <2> QED
    BY <1>2, <2>1, <2>2 DEF Called
<1>3. ASSUME NEW w \in Writers, SaveOpen(w) \/ SaveWrite(w)
      PROVE  AloneObeys'
  <2>1. /\ UNCHANGED <<live, heap>>
        /\ pc[w] # "idle"
        /\ pc' \in {[pc EXCEPT ![w] = "write"], [pc EXCEPT ![w] = "swap"]}
        /\ \/ local' = local
           \/ local' = [local EXCEPT ![w].bytes = Marshal(local[w].cfg)]
    BY <1>3 DEF SaveOpen, SaveWrite, memory
  <2>2. \A v \in Writers : /\ local'[v].cfg = local[v].cfg
                           /\ local'[v].ask = local[v].ask
    <3>1. CASE local' = local
      BY <3>1
    <3>2. CASE local' = [local EXCEPT ![w].bytes = Marshal(local[w].cfg)]
      <4>1. local \in [Writers -> Local] /\ local[w] \in Local
        BY DEF TypeOK
      <4>2. \A v \in Writers : v # w => local'[v] = local[v]
        BY <3>2, <4>1
      <4>3. local'[w].cfg = local[w].cfg /\ local'[w].ask = local[w].ask
        BY <3>2, <4>1 DEF Local
      <4> QED
        BY <4>2, <4>3
    <3> QED
      BY <2>1, <3>1, <3>2
  <2>5. \A v \in Writers : pc'[v] = "idle" <=> pc[v] = "idle"
    BY <2>1 DEF TypeOK
  <2>3. \A v \in Writers : Marshal(local[v].cfg)' = Marshal(local[v].cfg)
    BY <2>1, <2>2 DEF Marshal
  <2>4. Marshal(live)' = Marshal(live)
    BY <2>1 DEF Marshal
  <2> QED
    BY <2>2, <2>3, <2>4, <2>5 DEF AloneObeys
<1>4. ASSUME NEW w \in Writers, SaveFails(w) \/ Swap(w)
      PROVE  AloneObeys'
  <2>1. /\ UNCHANGED heap /\ pc[w] # "idle"
        /\ live' = live \/ Swap(w)
        /\ pc' = [pc EXCEPT ![w] = "idle"]
        /\ local' = [local EXCEPT ![w] = NoLocal]
    BY <1>4 DEF SaveFails, Swap, memory
  <2>2. /\ pc'[w] = "idle"
        /\ \A v \in Writers : v # w => /\ local'[v] = local[v]
                                      /\ pc'[v] = pc[v]
    BY <2>1 DEF TypeOK
  <2>3. \A v \in Writers : v # w /\ pc[v] # "idle" => local[v].ask = None
    BY <2>1 DEF AloneObeys
  <2> QED
    BY <2>2, <2>3 DEF AloneObeys
<1>5. CASE UNCHANGED vars
  <2>1. UNCHANGED <<live, heap, pc, local>>
    BY <1>5 DEF vars, memory
  <2> QED
    BY <2>1 DEF AloneObeys, Marshal
<1> QED
  BY <1>1, <1>2, <1>3, <1>4, <1>5, PutIsCall, PostIsCall DEF Next

(* A save nobody overlaps changes what its request names and keeps the     *)
(* rest of what it replaces; an update can be lost to an overlap only.     *)
THEOREM NoLostUpdate == Spec => SaveDoesAsAsked
<1> DEFINE Done == \A w \in Writers :
                     /\ pc[w] = "swap" /\ local[w].ask # None
                     /\ pc'[w] = "idle" /\ main' = main
                     => Obeys(Marshal(live), Marshal(live)', local[w].ask)
<1>1. Init => AloneObeys
  BY DEF Init, AloneObeys, Idle
<1>2. Basic /\ AloneObeys /\ [Next]_vars => AloneObeys'
  BY AloneNext
<1>3. Basic /\ AloneObeys /\ [Next]_vars => [Done]_vars
  <2> USE DEF Basic
  <2> SUFFICES ASSUME Basic, AloneObeys, Next,
                      NEW w \in Writers, pc[w] = "swap",
                      local[w].ask # None, pc'[w] = "idle", main' = main
               PROVE  Obeys(Marshal(live), Marshal(live)', local[w].ask)
    BY DEF vars
  <2>1. main = "run"
    BY DEF TypeOK, Idle
  <2>2. Swap(w)
    <3>1. ASSUME NEW v \in Writers, v # w,
                 SaveOpen(v) \/ SaveWrite(v) \/ SaveFails(v) \/ Swap(v)
          PROVE  FALSE
      BY <3>1 DEF SaveOpen, SaveWrite, SaveFails, Swap, TypeOK
    <3>2. ASSUME NEW v \in Writers, Called(v) PROVE FALSE
      BY <3>2 DEF Called, Refuses, Accepts, TypeOK
    <3>3. ~SaveOpen(w) /\ ~SaveWrite(w) /\ ~SaveFails(w)
      BY DEF SaveOpen, SaveWrite, SaveFails
    <3>4. /\ ~Start /\ ~BackupOpen /\ ~BackupWrite /\ ~RewriteOpen
          /\ ~RewriteWrite /\ ~MigrationFails /\ ~Crash
      BY <2>1 DEF Start, BackupOpen, BackupWrite, RewriteOpen, RewriteWrite,
                  MigrationFails, Crash
    <3> QED
      BY <3>1, <3>2, <3>3, <3>4, PutIsCall, PostIsCall DEF Next
  <2>3. Marshal(live)' = Marshal(local[w].cfg)
    BY <2>2 DEF Swap, Marshal
  <2> QED
    BY <2>3 DEF AloneObeys
<1> QED
  BY <1>1, <1>2, <1>3, BasicInvariant, PTL DEF Spec, SaveDoesAsAsked
=============================================================================
