---------------------------- MODULE Shell_proofs ----------------------------
(***************************************************************************)
(* Proofs about the window, for any set of keys and preferences, any range *)
(* of the clock and any number of mishaps.                                 *)
(***************************************************************************)
EXTENDS Shell, TLAPS

USE GateAssumption, StoreAssumption

(***************************************************************************)
(* Values that the model keeps apart.                                      *)
(***************************************************************************)

LEMMA NothingIsNoSettings == Nothing \notin Settings
BY DEF Nothing, Settings

LEMMA DefaultsAreSettings == Defaults \in Settings /\ Defaults.key = NoKey
                             /\ Defaults.revoked = {} /\ ~Defaults.protected
<1>1. (CHOOSE p \in Prefs : TRUE) \in Prefs
  OBVIOUS
<1> QED
  BY <1>1 DEF Defaults, Settings

LEMMA WrittenIsGood == ASSUME NEW s \in Settings
                       PROVE  /\ Written(s) \in Files
                              /\ Written(s) \notin Broken
                              /\ Written(s) # Absent
                              /\ Written(s).kind = "good"
                              /\ Stored(Written(s)) = s.revoked
                              /\ Live(Written(s)) = ConfiguredKey(s)
BY DEF Written, Settings, Files, Good, Broken, Absent, Stored, Live, ConfiguredKey

LEMMA FilesApart == ASSUME NEW f \in Files
                    PROVE  /\ f.kind = "good" => f.settings \in Settings /\ ~f.settings.protected
                           /\ f.kind = "good" <=> f \in Good
                           /\ f.kind = "absent" <=> f = Absent
                           /\ f \in Broken <=> f.kind \in {"malformed", "torn", "unreadable"}
                           /\ f \in Broken \cup {Absent} => Stored(f) = {} /\ Live(f) = {}
BY DEF Files, Good, Broken, Absent, Stored, Live

(***************************************************************************)
(* The type invariant, with what it rests on: the draft carries the        *)
(* identity and the protection of the settings in memory, and only a       *)
(* running studio has a handler to finish.                                 *)
(***************************************************************************)
SameIdentity ==
    /\ (memory = Nothing) <=> (draft = Nothing)
    /\ memory # Nothing => /\ draft.key = memory.key
                           /\ draft.revoked = memory.revoked
                           /\ draft.protected = memory.protected
    /\ task # NoTask => memory # Nothing

TasksAreDrawn == task # NoTask => phase = "draw"

Inv == TypeOK /\ SameIdentity /\ TasksAreDrawn

LEMMA InitType == Init => Inv
<1> SUFFICES ASSUME Init PROVE Inv
  OBVIOUS
<1>1. GateTypeOK
  BY DEF Init, GateInit, GateTypeOK, FreshGate, Times
<1>2. StoreTypeOK
  BY DEF Init, StoreInit, StoreTypeOK, Disks, Files, Broken, Tasks
<1> QED
  BY <1>1, <1>2 DEF Init, StoreInit, Inv, TypeOK, SameIdentity, TasksAreDrawn, Times, Running

LEMMA WrittenFacts == ASSUME NEW s \in Settings, NEW d \in Disks
                      PROVE  [d EXCEPT !.file = Written(s)] \in Disks
BY WrittenIsGood DEF Disks

\* The handlers of the settings leave well-typed state, and the draft keeps
\* the identity of the settings.
LEMMA HandleType == Inv /\ Handle => StoreTypeOK' /\ SameIdentity'
<1> SUFFICES ASSUME Inv, Handle PROVE StoreTypeOK' /\ SameIdentity'
  OBVIOUS
<1> USE NothingIsNoSettings DEF Inv, TypeOK, SameIdentity, StoreTypeOK
<1>a. ASSUME Free
      PROVE  /\ memory \in Settings /\ draft \in Settings /\ task = NoTask
             /\ disk \in Disks
  BY <1>a DEF Free, Running
<1>s. ASSUME NEW s \in Settings, SaveOk(s)
      PROVE  disk' \in Disks /\ mishaps' \in 0..MaxMishaps
  BY <1>s, WrittenFacts DEF SaveOk
<1>f. ASSUME NEW s, SaveFails(s)
      PROVE  disk' \in Disks /\ mishaps' \in 0..MaxMishaps
  BY <1>f DEF SaveFails
<1>1. CASE Edit
  BY <1>1, <1>a DEF Edit, storage, history, Settings
<1>2. CASE RestoreDefaults
  BY <1>2, <1>a, DefaultsAreSettings DEF RestoreDefaults, RestoredDefaults, storage, history, Settings
<1>3. CASE Save
  BY <1>3, <1>a, <1>s, <1>f DEF Save, history
<1>4. CASE PersistModelDefault
  <2>1. memory' \in Settings /\ memory'.key = memory.key /\ memory'.revoked = memory.revoked
        /\ draft' = memory'
    BY <1>4, <1>a DEF PersistModelDefault, Settings
  <2> QED
    BY <1>4, <2>1, <1>a, <1>s, <1>f DEF PersistModelDefault, history
<1>5. CASE SavePreset
  <2>1. /\ memory' \in Settings /\ memory'.key = memory.key
        /\ memory'.revoked = memory.revoked /\ memory'.protected = memory.protected
    BY <1>5, <1>a DEF SavePreset, Settings
  <2>2. /\ draft' \in Settings /\ draft'.key = draft.key
        /\ draft'.revoked = draft.revoked /\ draft'.protected = draft.protected
    BY <1>5, <1>a DEF SavePreset, Settings
  <2> QED
    BY <1>5, <2>1, <2>2, <1>a, <1>s, <1>f DEF SavePreset, history
<1>6. CASE SaveTemplate
  <2> PICK p \in Prefs :
        LET candidate == [memory EXCEPT !.pref = p]
        IN  \/ /\ SaveOk(candidate)
               /\ memory' = candidate
               /\ \E q \in Prefs : draft' = [draft EXCEPT !.pref = q]
            \/ SaveFails(candidate) /\ UNCHANGED <<memory, draft>>
    BY <1>6 DEF SaveTemplate
  <2> DEFINE candidate == [memory EXCEPT !.pref = p]
  <2>1. /\ candidate \in Settings /\ candidate.key = memory.key
        /\ candidate.revoked = memory.revoked /\ candidate.protected = memory.protected
    BY <1>6, <1>a DEF SaveTemplate, Settings
  <2>2. \A q \in Prefs : LET e == [draft EXCEPT !.pref = q]
                         IN  /\ e \in Settings /\ e.key = draft.key
                             /\ e.revoked = draft.revoked /\ e.protected = draft.protected
    BY <1>6, <1>a DEF SaveTemplate, Settings
  <2> HIDE DEF candidate
  <2>3. \/ SaveOk(candidate) /\ memory' = candidate
           /\ \E q \in Prefs : draft' = [draft EXCEPT !.pref = q]
        \/ SaveFails(candidate) /\ UNCHANGED <<memory, draft>>
    BY DEF candidate
  <2>4. task = NoTask /\ UNCHANGED <<settled, keychain, task, history>>
    BY <1>6, <1>a DEF SaveTemplate
  <2>5. acked' = acked /\ undone' = undone /\ used' = used /\ found' = found
    BY <2>4 DEF history
  <2>6. CASE SaveFails(candidate) /\ UNCHANGED <<memory, draft>>
    BY <2>4, <2>5, <2>6, <1>f
  <2>7. CASE SaveOk(candidate) /\ memory' = candidate
             /\ \E q \in Prefs : draft' = [draft EXCEPT !.pref = q]
    <3> PICK q \in Prefs : draft' = [draft EXCEPT !.pref = q]
      BY <2>7
    <3>1. /\ draft' \in Settings /\ draft'.key = draft.key
          /\ draft'.revoked = draft.revoked /\ draft'.protected = draft.protected
      BY <2>2
    <3>2. draft # Nothing /\ memory # Nothing
      BY <1>6, <1>a DEF SaveTemplate
    <3> QED
      BY <2>1, <2>4, <2>5, <2>7, <3>1, <3>2, <1>s
  <2> QED
    BY <2>3, <2>6, <2>7
<1>7. CASE CreateKey
  BY <1>7, <1>a DEF CreateKey, Tasks
<1>8. CASE RecordKey
  <2> DEFINE candidate == [memory EXCEPT !.key = task.key]
  <2>1. memory \in Settings /\ task.key \in Keys
    BY <1>8 DEF RecordKey, Tasks, NoTask, Cleanup, Recording
  <2>2. candidate \in Settings
    BY <2>1 DEF Settings
  <2>3. Cleanup(task.key) \in Tasks /\ NoTask \in Tasks
    BY <2>1 DEF Tasks
  <2> HIDE DEF candidate
  <2>4. \/ SaveOk(candidate) /\ memory' = candidate /\ draft' = candidate /\ task' = NoTask
        \/ SaveFails(candidate) /\ task' = Cleanup(task.key) /\ UNCHANGED <<memory, draft>>
    BY <1>8 DEF RecordKey, candidate
  <2> QED
    BY <1>8, <2>1, <2>2, <2>3, <2>4, <1>s, <1>f DEF RecordKey, history
<1>9. CASE RevokeKey
  <2> DEFINE candidate == [memory EXCEPT !.revoked = @ \cup ({memory.key} \ {NoKey})]
  <2>1. memory.key \in Keys
    BY <1>9, <1>a DEF RevokeKey, Settings
  <2>2. candidate \in Settings /\ candidate.revoked \subseteq Keys
    BY <2>1, <1>9, <1>a DEF Settings, RevokeKey
  <2>3. Cleanup(memory.key) \in Tasks
    BY <2>1 DEF Tasks
  <2> HIDE DEF candidate
  <2>4. \/ /\ SaveOk(candidate) /\ memory' = candidate /\ draft' = candidate
           /\ acked' = acked \cup (candidate.revoked \ memory.revoked)
           /\ task' = Cleanup(memory.key)
        \/ SaveFails(candidate) /\ UNCHANGED <<memory, draft, acked, task>>
    BY <1>9 DEF RevokeKey, candidate
  <2> QED
    BY <1>9, <1>a, <2>2, <2>3, <2>4, <1>s, <1>f DEF RevokeKey
<1>10. CASE DeleteKey
  BY <1>10 DEF DeleteKey, history, Tasks
<1> QED
  BY <1>1, <1>2, <1>3, <1>4, <1>5, <1>6, <1>7, <1>8, <1>9, <1>10 DEF Handle

\* A load, and what ends the studio or happens around it.
LEMMA LoadedType == ASSUME NEW f \in Files, NEW kept \in BOOLEAN
                    PROVE  /\ Loaded(f, kept) \in Settings
                           /\ Loaded(f, kept).revoked = Stored(f)
                           /\ ConfiguredKey(Loaded(f, kept)) = Live(f)
                           /\ f \in Broken /\ kept => Loaded(f, kept).protected
<1>1. CASE f.kind = "good"
  BY <1>1, FilesApart DEF Loaded, Stored, Live, ConfiguredKey
<1>2. CASE f.kind # "good"
  <2>1. Loaded(f, kept) = [Defaults EXCEPT !.protected = f.kind # "absent" /\ kept]
    BY <1>2 DEF Loaded
  <2> QED
    BY <1>2, <2>1, DefaultsAreSettings, FilesApart DEF Settings, Stored, Live, ConfiguredKey
<1> QED
  BY <1>1, <1>2

LEMMA LoadType == Inv /\ Load => StoreTypeOK' /\ SameIdentity'
<1> SUFFICES ASSUME Inv, Load PROVE StoreTypeOK' /\ SameIdentity'
  OBVIOUS
<1> USE NothingIsNoSettings DEF Inv, TypeOK, SameIdentity, StoreTypeOK
<1>1. disk.file \in Files /\ disk.quarantine \subseteq Broken
  BY DEF Disks
<1>2. memory' \in Settings /\ draft' = memory'
  BY <1>1, LoadedType DEF Load
<1>3. found' \subseteq Broken /\ task = NoTask
  BY DEF Load, Running
<1>4. disk' \in Disks /\ mishaps' \in 0..MaxMishaps
  <2>1. disk.file.kind \in {"malformed", "torn"} => disk.file \in Broken
    BY <1>1, FilesApart
  <2>2. disk.file.kind \in {"malformed", "torn"} => Quarantine(disk) \in Disks
    BY <1>1, <2>1 DEF Quarantine, Disks, Files
  <2>3. \/ /\ disk.file.kind \in {"malformed", "torn"}
           /\ disk' = Quarantine(disk) /\ mishaps' = mishaps
        \/ disk' = disk /\ mishaps < MaxMishaps /\ mishaps' = mishaps + 1
        \/ disk' = disk /\ mishaps' = mishaps
    BY DEF Load
  <2> QED
    BY <2>2, <2>3
<1> QED
  BY <1>2, <1>3, <1>4 DEF Load

LEMMA AroundType ==
  Inv /\ ((task = NoTask /\ Drop) \/ Settle \/ CrashStore \/ PowerLossStore \/ ChangeFile)
     => StoreTypeOK' /\ SameIdentity'
<1> SUFFICES ASSUME Inv, (task = NoTask /\ Drop) \/ Settle \/ CrashStore \/ PowerLossStore \/ ChangeFile
             PROVE  StoreTypeOK' /\ SameIdentity'
  OBVIOUS
<1> USE DEF Inv, TypeOK, SameIdentity, StoreTypeOK
<1>0. Nothing \in Settings \cup {Nothing} /\ NoTask \in Tasks
  BY DEF Tasks
<1>1. CASE task = NoTask /\ Drop
  <2>1. task' = task /\ mishaps' = mishaps
    BY <1>1 DEF Drop
  <2> QED
    BY <1>1, <1>0 DEF Drop, storage, history
<1>4. CASE Settle
  BY <1>4 DEF Settle, history, running
<1>5. CASE CrashStore
  BY <1>5, <1>0 DEF CrashStore, storage, history
<1>2. CASE PowerLossStore
  <2> PICK d \in {settled} \cup
                (IF disk.file.kind = "good" /\ disk # settled
                 THEN {[disk EXCEPT !.file = Torn]} ELSE {}) :
         /\ disk' = d /\ settled' = d
         /\ undone' = undone \cup (Stored(disk.file) \ Stored(d.file))
                              \cup {k \in acked : k \notin Stored(d.file)}
                              \cup {k \in Live(d.file) : k \notin Live(disk.file)}
    BY <1>2 DEF PowerLossStore
  <2>1. d \in Disks /\ d.file \in Files /\ disk.file \in Files
    BY DEF Disks, Torn, Files, Broken
  <2>2. ASSUME NEW f \in Files PROVE Stored(f) \subseteq Keys /\ Live(f) \subseteq Keys
    BY <2>2, FilesApart DEF Stored, Live, ConfiguredKey, Settings
  <2> QED
    BY <1>2, <2>1, <2>2 DEF PowerLossStore, Tasks
<1>3. CASE ChangeFile
  <2>1. disk' \in Disks
    BY <1>3 DEF ChangeFile, Disks, Files, Broken
  <2>2. Stored(disk.file) \subseteq Keys
    BY FilesApart DEF Stored, Settings, Disks
  <2> QED
    BY <1>3, <2>1, <2>2 DEF ChangeFile, running
<1> QED
  BY <1>1, <1>2, <1>3, <1>4, <1>5

LEMMA NextType == Inv /\ [Next]_vars => Inv'
<1> SUFFICES ASSUME Inv, [Next]_vars PROVE Inv'
  OBVIOUS
<1> USE DEF Inv, TypeOK, TasksAreDrawn
<1>p. ASSUME NEW now
      PROVE  /\ Polled(gate, now) \in {Ready, Checking, Failed} \cup {Granted(e) : e \in Expiries}
             /\ Expired(Polled(gate, now), now)
                  \in {Ready, Checking, Failed} \cup {Granted(e) : e \in Expiries}
             /\ Taken \in {Idle, Asked, Refused} \cup {Session(e) : e \in Expiries}
  <2>1. Answered /\ pending.step = "session" => pending.expires \in Expiries
    BY DEF GateTypeOK, Answered, Idle, Asked, Refused, Session
  <2> QED
    BY <2>1 DEF GateTypeOK, Polled, Expired, Taken
<1>1. CASE BeginFrame
  BY <1>1, <1>p DEF BeginFrame, GateTypeOK, Readings, storeVars, storage, running, history,
     StoreTypeOK, SameIdentity
<1>2. CASE Lifecycle
  <2>1. StoreTypeOK' /\ SameIdentity'
    BY <1>2, LoadType, AroundType DEF Lifecycle, storeVars, storage, running, history,
       StoreTypeOK, SameIdentity
  <2>2. task' = task
    BY <1>2 DEF Lifecycle, Load, Drop, storeVars, running
  <2> QED
    BY <1>2, <2>1, <2>2 DEF Lifecycle, gateVars, GateTypeOK
<1>3. CASE Use
  BY <1>3, HandleType DEF Use, gateVars, GateTypeOK
<1>4. CASE DrawGate
  <2>1. GateTypeOK'
    <3>1. CASE \E now \in Readings : gate' = Polled(gate, now) /\ pending' = Taken
      BY <3>1, <1>4, <1>p DEF DrawGate, GateTypeOK
    <3>2. CASE \E now \in Readings : Submit(Polled(gate, now))
      BY <3>2, <1>4 DEF DrawGate, Submit, GateTypeOK
    <3> QED
      BY <3>1, <3>2, <1>4 DEF DrawGate
  <2>2. StoreTypeOK' /\ SameIdentity' /\ task' = task /\ ~Running
    BY <1>4 DEF DrawGate, storeVars, storage, running, history, StoreTypeOK, SameIdentity
  <2>3. task = NoTask
    BY <2>2 DEF SameIdentity, Running
  <2> QED
    BY <1>4, <2>1, <2>2, <2>3 DEF DrawGate
<1>5. CASE EndFrame
  BY <1>5 DEF EndFrame, gateVars, GateTypeOK, storeVars, storage, running, history,
     StoreTypeOK, SameIdentity
<1>6. CASE Crash \/ PowerLoss
  BY <1>6, AroundType DEF Crash, PowerLoss, CrashStore, PowerLossStore, Fresh, FreshGate, GateTypeOK
<1>7. CASE Around
  <2>1. CASE (Answer \/ SetClock) /\ UNCHANGED storeVars
    <3>1. GateTypeOK'
      BY <2>1 DEF Answer, SetClock, GateTypeOK
    <3>2. StoreTypeOK' /\ SameIdentity' /\ task' = task
      BY <2>1 DEF storeVars, storage, running, history, StoreTypeOK, SameIdentity
    <3> QED
      BY <1>7, <3>1, <3>2 DEF Around
  <2>2. CASE (Settle \/ ChangeFile) /\ UNCHANGED gateVars
    <3>1. StoreTypeOK' /\ SameIdentity' /\ task' = task
      BY <2>2, AroundType DEF Settle, ChangeFile, running
    <3> QED
      BY <1>7, <2>2, <3>1 DEF Around, gateVars, GateTypeOK
  <2> QED
    BY <1>7, <2>1, <2>2 DEF Around
<1>8. CASE UNCHANGED vars
  BY <1>8 DEF vars, gateVars, GateTypeOK, storeVars, storage, running, history,
     StoreTypeOK, SameIdentity
<1> QED
  BY <1>1, <1>2, <1>3, <1>4, <1>5, <1>6, <1>7, <1>8 DEF Next

\* Every state of the window, its gate and its settings is well typed.
THEOREM TypeCorrect == Spec => []TypeOK
<1>1. Inv => TypeOK
  BY DEF Inv
<1> QED
  BY <1>1, InitType, NextType, PTL DEF Spec

THEOREM InvHolds == Spec => []Inv
BY InitType, NextType, PTL DEF Spec

(***************************************************************************)
(* The gate: past the start of a frame a granted session is one that was   *)
(* valid then, and the gate does not move while the studio is on screen.   *)
(***************************************************************************)
ValidInFrame ==
    /\ phase = "lifecycle" => (IsGranted(gate) => ValidAt(gate.expires, reading))
    /\ StudioNeedsSession

LEMMA NextValid == Inv /\ ValidInFrame /\ [Next]_vars => ValidInFrame'
<1> SUFFICES ASSUME Inv, ValidInFrame, [Next]_vars PROVE ValidInFrame'
  OBVIOUS
<1> USE DEF ValidInFrame, StudioNeedsSession
<1>1. CASE BeginFrame
  <2>1. IsGranted(gate') => ValidAt(gate'.expires, reading')
    BY <1>1 DEF BeginFrame, Expired, IsGranted, Failed
  <2> QED
    BY <1>1, <2>1 DEF BeginFrame
<1>2. CASE Lifecycle
  <2>1. Required /\ Running' => MayRun
    BY <1>2, NothingIsNoSettings DEF Lifecycle, Drop, Running, storeVars, running
  <2> QED
    BY <1>2, <2>1 DEF Lifecycle, MayRun, gateVars
<1>3. CASE Use
  <2>1. Running /\ UNCHANGED <<gate, reading, phase>>
    BY <1>3 DEF Use, gateVars
  <2> QED
    BY <1>3, <2>1 DEF Use
<1>4. CASE DrawGate \/ EndFrame \/ Crash \/ PowerLoss
  BY <1>4 DEF DrawGate, EndFrame, Crash, PowerLoss, Fresh
<1>5. CASE Around
  <2>1. UNCHANGED <<gate, reading, phase, memory>>
    BY <1>5 DEF Around, Answer, SetClock, Settle, ChangeFile, gateVars, storeVars, running
  <2> QED
    BY <2>1 DEF Running
<1>6. CASE UNCHANGED vars
  BY <1>6 DEF vars, gateVars, storeVars, running, Running
<1> QED
  BY <1>1, <1>2, <1>3, <1>4, <1>5, <1>6 DEF Next

\* The studio is on the screen of a gated build only under a session that
\* was valid when the frame read the clock, for any clock and any answers.
THEOREM SessionNeeded == Spec => []StudioNeedsSession
<1>1. Init => ValidInFrame
  BY DEF Init, ValidInFrame, StudioNeedsSession
<1>2. ValidInFrame => StudioNeedsSession
  BY DEF ValidInFrame
<1> QED
  BY <1>1, <1>2, NextValid, InvHolds, PTL DEF Spec

(***************************************************************************)
(* Files that could not be used. While one stands at its path and nowhere  *)
(* else, the running studio is protected from saving over it; the disk is  *)
(* then settled, and what is settled keeps every such file as well.        *)
(***************************************************************************)
KeptOn(d) == found \subseteq {d.file} \cup d.quarantine

KeptInv ==
    /\ FoundIsKept
    /\ KeptOn(settled)
    /\ disk.file \in Broken => settled = disk
    /\ memory # Nothing /\ disk.file \in found \ disk.quarantine => memory.protected

\* A save keeps what was found.
LEMMA SaveKeeps ==
  ASSUME Inv, KeptInv, NEW s \in Settings, memory # Nothing,
         s.protected = memory.protected,
         SaveOk(s) \/ SaveFails(s),
         memory' # Nothing => memory'.protected = memory.protected,
         found' = found, settled' = settled
  PROVE  KeptInv'
<1> USE DEF KeptInv, FoundIsKept, KeptOn
<1>1. CASE SaveFails(s)
  BY <1>1 DEF SaveFails
<1>2. CASE SaveOk(s)
  <2>1. /\ disk'.file = Written(s) /\ disk'.quarantine = disk.quarantine
    BY <1>2 DEF SaveOk, Inv, TypeOK, StoreTypeOK, Disks
  <2>2. Written(s) \notin Broken
    BY WrittenIsGood
  <2>3. disk.file \in found => disk.file \in disk.quarantine
    <3>1. found \subseteq Broken
      BY DEF Inv, TypeOK, StoreTypeOK
    <3>2. Absent \notin Broken
      BY DEF Absent, Broken
    <3> QED
      BY <1>2, <3>1, <3>2 DEF SaveOk, MaySave
  <2>4. found \subseteq Broken
    BY DEF Inv, TypeOK, StoreTypeOK
  <2> QED
    BY <2>1, <2>2, <2>3, <2>4
<1> QED
  BY <1>1, <1>2

\* What a handler does to the protection and the disk.
LEMMA HandleKeeps == Inv /\ KeptInv /\ Handle => KeptInv'
<1> SUFFICES ASSUME Inv, KeptInv, Handle PROVE KeptInv'
  OBVIOUS
<1>m. memory # Nothing => memory \in Settings /\ draft \in Settings
                          /\ draft.protected = memory.protected
  BY DEF Inv, TypeOK, StoreTypeOK, SameIdentity
<1>1. CASE Edit \/ RestoreDefaults
  BY <1>1 DEF Edit, RestoreDefaults, storage, history, KeptInv, FoundIsKept, KeptOn
<1>2. CASE Save
  BY <1>2, <1>m, SaveKeeps DEF Save, Free, Running, history
<1>3. CASE PersistModelDefault
  <2>1. memory' \in Settings /\ memory'.protected = memory.protected
    BY <1>3, <1>m DEF PersistModelDefault, Free, Running, Settings
  <2> QED
    BY <1>3, <2>1, <1>m, SaveKeeps DEF PersistModelDefault, Free, Running, history
<1>4. CASE SavePreset
  <2>1. memory' \in Settings /\ memory'.protected = memory.protected
    BY <1>4, <1>m DEF SavePreset, Free, Running, Settings
  <2> QED
    BY <1>4, <2>1, <1>m, SaveKeeps DEF SavePreset, Free, Running, history
<1>5. CASE SaveTemplate
  <2> PICK p \in Prefs :
        LET candidate == [memory EXCEPT !.pref = p]
        IN  \/ SaveOk(candidate) /\ memory' = candidate
            \/ SaveFails(candidate) /\ UNCHANGED memory
    BY <1>5 DEF SaveTemplate
  <2> DEFINE candidate == [memory EXCEPT !.pref = p]
  <2>1. candidate \in Settings /\ candidate.protected = memory.protected
    BY <1>5, <1>m DEF SaveTemplate, Free, Running, Settings
  <2> HIDE DEF candidate
  <2>2. (SaveOk(candidate) /\ memory' = candidate) \/ (SaveFails(candidate) /\ UNCHANGED memory)
    BY DEF candidate
  <2> QED
    BY <1>5, <2>1, <2>2, SaveKeeps DEF SaveTemplate, Free, Running, history
<1>6. CASE CreateKey \/ DeleteKey
  BY <1>6 DEF CreateKey, DeleteKey, history, KeptInv, FoundIsKept, KeptOn
<1>7. CASE RecordKey
  <2> DEFINE candidate == [memory EXCEPT !.key = task.key]
  <2>1. memory # Nothing /\ task.key \in Keys
    BY <1>7 DEF RecordKey, Inv, TypeOK, StoreTypeOK, SameIdentity, Tasks, NoTask, Cleanup, Recording
  <2>2. candidate \in Settings /\ candidate.protected = memory.protected
    BY <2>1, <1>m DEF Settings
  <2> HIDE DEF candidate
  <2>3. (SaveOk(candidate) /\ memory' = candidate) \/ (SaveFails(candidate) /\ UNCHANGED memory)
    BY <1>7 DEF RecordKey, candidate
  <2> QED
    BY <1>7, <2>1, <2>2, <2>3, SaveKeeps DEF RecordKey, history
<1>8. CASE RevokeKey
  <2> DEFINE candidate == [memory EXCEPT !.revoked = @ \cup ({memory.key} \ {NoKey})]
  <2>1. memory # Nothing
    BY <1>8 DEF RevokeKey, Free, Running
  <2>2. candidate \in Settings /\ candidate.protected = memory.protected
    BY <2>1, <1>m DEF Settings
  <2> HIDE DEF candidate
  <2>3. (SaveOk(candidate) /\ memory' = candidate) \/ (SaveFails(candidate) /\ UNCHANGED memory)
    BY <1>8 DEF RevokeKey, candidate
  <2> QED
    BY <1>8, <2>1, <2>2, <2>3, SaveKeeps DEF RevokeKey
<1> QED
  BY <1>1, <1>2, <1>3, <1>4, <1>5, <1>6, <1>7, <1>8 DEF Handle

LEMMA LoadKeeps == Inv /\ KeptInv /\ Load => KeptInv'
<1> SUFFICES ASSUME Inv, KeptInv, Load PROVE KeptInv'
  OBVIOUS
<1> USE DEF KeptInv, FoundIsKept, KeptOn
<1>1. disk.file \in Files /\ disk \in Disks /\ found \subseteq Broken
  BY DEF Inv, TypeOK, StoreTypeOK, Disks
<1>2. found' = found \cup ({disk.file} \cap Broken) /\ settled' = settled
  BY DEF Load
<1>3. CASE disk' = disk /\ memory' = Loaded(disk.file, TRUE)
  BY <1>1, <1>2, <1>3, LoadedType
<1>4. CASE disk' = Quarantine(disk) /\ disk.file.kind \in {"malformed", "torn"}
  <2>1. disk'.file = Absent /\ disk'.quarantine = disk.quarantine \cup {disk.file}
    BY <1>4 DEF Quarantine
  <2>2. Absent \notin Broken /\ disk.file \in Broken
    BY <1>1, <1>4, FilesApart DEF Absent, Broken
  <2> QED
    BY <1>1, <1>2, <2>1, <2>2
<1> QED
  BY <1>3, <1>4 DEF Load

LEMMA NextKeeps == Inv /\ KeptInv /\ [Next]_vars => KeptInv'
<1> SUFFICES ASSUME Inv, KeptInv, [Next]_vars PROVE KeptInv'
  OBVIOUS
<1>u. ASSUME UNCHANGED storeVars PROVE KeptInv'
  BY <1>u DEF storeVars, storage, running, history, KeptInv, FoundIsKept, KeptOn
<1>1. CASE BeginFrame \/ DrawGate \/ EndFrame \/ UNCHANGED vars
  BY <1>1, <1>u DEF BeginFrame, DrawGate, EndFrame, vars
<1>2. CASE Lifecycle
  <2>1. CASE Drop
    BY <2>1 DEF Drop, storage, history, KeptInv, FoundIsKept, KeptOn
  <2> QED
    BY <1>2, <2>1, <1>u, LoadKeeps DEF Lifecycle
<1>3. CASE Use
  BY <1>3, HandleKeeps DEF Use
<1>4. CASE Crash
  BY <1>4 DEF Crash, CrashStore, storage, history, KeptInv, FoundIsKept, KeptOn
<1>5. CASE PowerLoss
  <2>1. disk \in Disks /\ found \subseteq Broken
    BY DEF Inv, TypeOK, StoreTypeOK
  <2>2. disk.file.kind = "good" => disk.file \notin Broken
    BY <2>1, FilesApart DEF Disks
  <2>3. \/ disk' = settled
        \/ disk.file.kind = "good" /\ disk' = [disk EXCEPT !.file = Torn]
    BY <1>5 DEF PowerLoss, PowerLossStore
  <2>4. settled' = disk' /\ memory' = Nothing /\ found' = found
    BY <1>5 DEF PowerLoss, PowerLossStore
  <2>5. disk.file.kind = "good" => found \subseteq disk.quarantine
    BY <2>2, <2>1 DEF KeptInv, FoundIsKept
  <2>6. disk' = [disk EXCEPT !.file = Torn] => disk'.quarantine = disk.quarantine
    BY <2>1 DEF Disks
  <2> QED
    BY <2>3, <2>4, <2>5, <2>6 DEF KeptInv, FoundIsKept, KeptOn
<1>6. CASE Around
  <2>1. CASE Settle
    BY <2>1 DEF Settle, running, history, KeptInv, FoundIsKept, KeptOn
  <2>2. CASE ChangeFile
    <3>1. disk'.quarantine = disk.quarantine /\ settled' = disk'
      BY <2>2 DEF ChangeFile, Inv, TypeOK, StoreTypeOK, Disks
    <3>2. found' = found \cap disk.quarantine
      BY <2>2 DEF ChangeFile
    <3> QED
      BY <3>1, <3>2 DEF KeptInv, FoundIsKept, KeptOn
  <2> QED
    BY <1>6, <2>1, <2>2, <1>u DEF Around
<1> QED
  BY <1>1, <1>2, <1>3, <1>4, <1>5, <1>6 DEF Next

\* No save, load, crash or power loss destroys a settings file that a load
\* could not use.
THEOREM BrokenFilesKept == Spec => []FoundIsKept
<1>1. Init => KeptInv
  BY DEF Init, StoreInit, KeptInv, FoundIsKept, KeptOn
<1>2. KeptInv => FoundIsKept
  BY DEF KeptInv
<1> QED
  BY <1>1, <1>2, NextKeeps, InvHolds, PTL DEF Spec

(***************************************************************************)
(* The identity. Every key that may sign was once made; the key a handler  *)
(* still has to record is in the keychain; and the key of an unfinished    *)
(* handler is not one that may sign, so removing it harms nothing.         *)
(***************************************************************************)
MemoryLive == IF memory = Nothing THEN {} ELSE ConfiguredKey(memory)

IdentityInv ==
    /\ \A k \in acked \ undone :
          k \in Stored(disk.file) /\ (memory # Nothing => k \in memory.revoked)
    /\ (Live(disk.file) \cup MemoryLive) \ undone \subseteq keychain
    /\ Live(disk.file) \cup Live(settled.file) \cup MemoryLive \subseteq used
    /\ task # NoTask => /\ task.key \in used
                        /\ task.key \notin Live(disk.file) \cup MemoryLive
    /\ task.step = "record" => task.key \in keychain

LEMMA IdentityFollows == Inv /\ IdentityInv => IdentityIsSound
<1> SUFFICES ASSUME Inv, IdentityInv PROVE IdentityIsSound
  OBVIOUS
<1>1. ASSUME NEW s \in Bearers
      PROVE  memory # Nothing /\ s.revoked = memory.revoked /\ ConfiguredKey(s) = MemoryLive
  BY <1>1 DEF Bearers, Inv, SameIdentity, ConfiguredKey, MemoryLive
<1>2. RevocationsStand
  BY <1>1 DEF RevocationsStand, IdentityInv
<1>3. LiveKeysSign
  BY <1>1 DEF LiveKeysSign, IdentityInv
<1> QED
  BY <1>2, <1>3 DEF IdentityIsSound

\* A save of the identity that is in memory changes nothing about it.
LEMMA SaveSameIdentity ==
  ASSUME Inv, IdentityInv, NEW s \in Settings, memory # Nothing,
         s.key = memory.key, s.revoked = memory.revoked,
         SaveOk(s) \/ SaveFails(s),
         memory' # Nothing, memory'.key = memory.key, memory'.revoked = memory.revoked,
         UNCHANGED <<settled, keychain, task, used, acked, undone>>
  PROVE  IdentityInv'
<1>1. ConfiguredKey(s) = MemoryLive /\ MemoryLive' = MemoryLive
  BY DEF ConfiguredKey, MemoryLive
<1>2. CASE SaveFails(s)
  BY <1>1, <1>2 DEF SaveFails, IdentityInv
<1>3. CASE SaveOk(s)
  <2>1. disk'.file = Written(s)
    BY <1>3 DEF SaveOk, Inv, TypeOK, StoreTypeOK, Disks
  <2>2. Stored(disk'.file) = memory.revoked /\ Live(disk'.file) = MemoryLive
    BY <1>1, <2>1, WrittenIsGood
  <2> QED
    BY <1>1, <2>2 DEF IdentityInv
<1> QED
  BY <1>2, <1>3

LEMMA HandleIdentity == Inv /\ IdentityInv /\ Handle => IdentityInv'
<1> SUFFICES ASSUME Inv, IdentityInv, Handle PROVE IdentityInv'
  OBVIOUS
<1>m. memory # Nothing => /\ memory \in Settings /\ draft \in Settings
                          /\ draft.key = memory.key /\ draft.revoked = memory.revoked
  BY DEF Inv, TypeOK, StoreTypeOK, SameIdentity
<1>1. CASE Edit \/ RestoreDefaults
  BY <1>1 DEF Edit, RestoreDefaults, storage, history, IdentityInv, MemoryLive
<1>2. CASE Save
  BY <1>2, <1>m, NothingIsNoSettings, SaveSameIdentity DEF Save, Free, Running, history
<1>3. CASE PersistModelDefault
  <2>1. memory' \in Settings /\ memory'.key = memory.key /\ memory'.revoked = memory.revoked
    BY <1>3, <1>m DEF PersistModelDefault, Free, Running, Settings
  <2> QED
    BY <1>3, <2>1, <1>m, NothingIsNoSettings, SaveSameIdentity DEF PersistModelDefault, Free, Running, history
<1>4. CASE SavePreset
  <2>1. memory' \in Settings /\ memory'.key = memory.key /\ memory'.revoked = memory.revoked
    BY <1>4, <1>m DEF SavePreset, Free, Running, Settings
  <2> QED
    BY <1>4, <2>1, <1>m, NothingIsNoSettings, SaveSameIdentity DEF SavePreset, Free, Running, history
<1>5. CASE SaveTemplate
  <2> PICK p \in Prefs :
        LET candidate == [memory EXCEPT !.pref = p]
        IN  \/ SaveOk(candidate) /\ memory' = candidate
            \/ SaveFails(candidate) /\ UNCHANGED memory
    BY <1>5 DEF SaveTemplate
  <2> DEFINE candidate == [memory EXCEPT !.pref = p]
  <2>1. /\ candidate \in Settings /\ candidate.key = memory.key
        /\ candidate.revoked = memory.revoked
    BY <1>5, <1>m DEF SaveTemplate, Free, Running, Settings
  <2> HIDE DEF candidate
  <2>2. (SaveOk(candidate) /\ memory' = candidate) \/ (SaveFails(candidate) /\ UNCHANGED memory)
    BY DEF candidate
  <2> QED
    BY <1>5, <1>m, NothingIsNoSettings, <2>1, <2>2, SaveSameIdentity DEF SaveTemplate, Free, Running, history
<1>6. CASE CreateKey
  <2> PICK k \in Keys \ used : /\ keychain' = keychain \cup {k} /\ used' = used \cup {k}
                               /\ task' = Recording(k)
    BY <1>6 DEF CreateKey
  <2>1. task'.key = k /\ k \notin Live(disk.file) \cup MemoryLive
    BY DEF Recording, IdentityInv
  <2>2. UNCHANGED <<disk, settled, memory, acked, undone>> /\ MemoryLive' = MemoryLive
    BY <1>6 DEF CreateKey, MemoryLive
  <2> QED
    BY <2>1, <2>2 DEF IdentityInv
<1>7. CASE RecordKey
  <2> DEFINE candidate == [memory EXCEPT !.key = task.key]
  <2>1. memory # Nothing /\ task.key \in Keys /\ task # NoTask
    BY <1>7 DEF RecordKey, Inv, TypeOK, StoreTypeOK, SameIdentity, Tasks, NoTask, Cleanup, Recording
  <2>2. /\ candidate \in Settings /\ candidate.key = task.key
        /\ candidate.revoked = memory.revoked
    BY <2>1, <1>m DEF Settings
  <2> HIDE DEF candidate
  <2>3. UNCHANGED <<settled, keychain, used, acked, undone>>
    BY <1>7 DEF RecordKey, history
  <2>4. CASE SaveOk(candidate) /\ memory' = candidate /\ task' = NoTask
    <3>1. disk'.file = Written(candidate)
      BY <2>4 DEF SaveOk, Inv, TypeOK, StoreTypeOK, Disks
    <3>2. /\ Stored(disk'.file) = memory.revoked
          /\ Live(disk'.file) = ConfiguredKey(candidate)
      BY <2>2, <3>1, WrittenIsGood
    <3>3. MemoryLive' = ConfiguredKey(candidate)
      BY <2>2, <2>4, NothingIsNoSettings DEF MemoryLive
    <3>4. ConfiguredKey(candidate) \subseteq {task.key}
      BY <2>2 DEF ConfiguredKey
    <3>5. task.key \in keychain /\ task.key \in used /\ task'.step # "record"
      BY <1>7, <2>1, <2>4 DEF RecordKey, IdentityInv, NoTask
    <3> QED
      BY <2>1, <2>2, <2>3, <2>4, <3>2, <3>3, <3>4, <3>5 DEF IdentityInv
  <2>5. CASE SaveFails(candidate) /\ task' = Cleanup(task.key) /\ UNCHANGED memory
    <3>1. disk' = disk /\ MemoryLive' = MemoryLive
      BY <2>5 DEF SaveFails, MemoryLive
    <3>2. task'.key = task.key /\ task'.step # "record"
      BY <2>5 DEF Cleanup
    <3> QED
      BY <2>1, <2>3, <2>5, <3>1, <3>2 DEF IdentityInv
  <2> QED
    BY <1>7, <2>4, <2>5 DEF RecordKey, candidate
<1>8. CASE RevokeKey
  <2> DEFINE candidate == [memory EXCEPT !.revoked = @ \cup ({memory.key} \ {NoKey})]
  <2>1. memory # Nothing /\ memory.key \in Keys /\ memory.key # NoKey
        /\ memory.key \notin memory.revoked /\ task = NoTask
    BY <1>8, <1>m DEF RevokeKey, Free, Running, Settings
  <2>2. /\ candidate \in Settings /\ candidate.key = memory.key
        /\ candidate.revoked = memory.revoked \cup {memory.key}
    BY <2>1, <1>m DEF Settings
  <2> HIDE DEF candidate
  <2>3. UNCHANGED <<settled, keychain, used, undone>>
    BY <1>8 DEF RevokeKey
  <2>4. CASE /\ SaveOk(candidate) /\ memory' = candidate
             /\ acked' = acked \cup (candidate.revoked \ memory.revoked)
             /\ task' = Cleanup(memory.key)
    <3>1. disk'.file = Written(candidate)
      BY <2>4 DEF SaveOk, Inv, TypeOK, StoreTypeOK, Disks
    <3>2. ConfiguredKey(candidate) = {}
      BY <2>2 DEF ConfiguredKey
    <3>3. /\ Stored(disk'.file) = memory.revoked \cup {memory.key}
          /\ Live(disk'.file) = {}
      BY <2>2, <3>1, <3>2, WrittenIsGood
    <3>4. MemoryLive' = {}
      BY <2>2, <2>4, <3>2 DEF MemoryLive
    <3>5. memory.key \in used /\ task'.key = memory.key /\ task'.step # "record"
      BY <2>1, <2>4 DEF IdentityInv, MemoryLive, ConfiguredKey, Cleanup
    <3> QED
      BY <2>1, <2>2, <2>3, <2>4, <3>3, <3>4, <3>5 DEF IdentityInv
  <2>5. CASE SaveFails(candidate) /\ UNCHANGED <<memory, acked, task>>
    BY <2>3, <2>5 DEF SaveFails, IdentityInv, MemoryLive
  <2> QED
    BY <1>8, <2>4, <2>5 DEF RevokeKey, candidate
<1>9. CASE DeleteKey
  <2>1. keychain \ {task.key} \subseteq keychain' /\ task' = NoTask
    BY <1>9 DEF DeleteKey
  <2>2. UNCHANGED <<disk, settled, memory, used, acked, undone>> /\ MemoryLive' = MemoryLive
    BY <1>9 DEF DeleteKey, history, MemoryLive
  <2>3. task # NoTask
    BY <1>9 DEF DeleteKey, NoTask
  <2>4. NoTask.step # "record"
    BY DEF NoTask
  <2> QED
    BY <2>1, <2>2, <2>3, <2>4 DEF IdentityInv
<1> QED
  BY <1>1, <1>2, <1>3, <1>4, <1>5, <1>6, <1>7, <1>8, <1>9 DEF Handle

LEMMA NextIdentity == Inv /\ IdentityInv /\ [Next]_vars => IdentityInv'
<1> SUFFICES ASSUME Inv, IdentityInv, [Next]_vars PROVE IdentityInv'
  OBVIOUS
<1>u. ASSUME UNCHANGED <<disk, settled, keychain, memory, task, used, acked, undone>>
      PROVE  IdentityInv'
  BY <1>u DEF IdentityInv, MemoryLive
<1>t. disk \in Disks /\ settled \in Disks /\ disk.file \in Files /\ settled.file \in Files
  BY DEF Inv, TypeOK, StoreTypeOK, Disks
<1>n. NoTask.step # "record"
  BY DEF NoTask
<1>1. CASE BeginFrame \/ DrawGate \/ EndFrame \/ UNCHANGED vars
  BY <1>1, <1>u DEF BeginFrame, DrawGate, EndFrame, vars, storeVars, storage, running, history
<1>2. CASE Lifecycle
  <2>1. CASE Drop
    <3>1. MemoryLive' = {} /\ memory' = Nothing
      BY <2>1 DEF Drop, MemoryLive
    <3> QED
      BY <2>1, <3>1 DEF Drop, storage, history, IdentityInv
  <2>2. CASE Load
    <3>1. task = NoTask /\ UNCHANGED <<settled, keychain, task, used, acked, undone>>
      BY <2>2 DEF Load, Running, Inv, SameIdentity
    <3>2. PICK kept \in BOOLEAN : memory' = Loaded(disk.file, kept)
      BY <2>2 DEF Load
    <3>3. memory'.revoked = Stored(disk.file) /\ MemoryLive' = Live(disk.file)
      BY <1>t, <3>2, LoadedType, NothingIsNoSettings DEF MemoryLive
    <3>4. Stored(disk'.file) = Stored(disk.file) /\ Live(disk'.file) = Live(disk.file)
      <4>1. CASE disk' = disk
        BY <4>1
      <4>2. CASE disk' = Quarantine(disk) /\ disk.file.kind \in {"malformed", "torn"}
        <5>1. disk'.file = Absent /\ Absent \in Files
          BY <4>2 DEF Quarantine, Files
        <5> QED
          BY <1>t, <4>2, <5>1, FilesApart
      <4> QED
        BY <2>2, <4>1, <4>2 DEF Load
    <3> QED
      BY <1>n, <3>1, <3>3, <3>4 DEF IdentityInv
  <2> QED
    BY <1>2, <2>1, <2>2, <1>u DEF Lifecycle, storeVars, storage, running, history
<1>3. CASE Use
  BY <1>3, HandleIdentity DEF Use
<1>4. CASE Crash
  <2>1. MemoryLive' = {} /\ memory' = Nothing /\ task' = NoTask
    BY <1>4 DEF Crash, CrashStore, MemoryLive
  <2> QED
    BY <1>4, <1>n, <2>1 DEF Crash, CrashStore, storage, history, IdentityInv
<1>5. CASE PowerLoss
  <2> PICK d \in {settled} \cup
                (IF disk.file.kind = "good" /\ disk # settled
                 THEN {[disk EXCEPT !.file = Torn]} ELSE {}) :
         /\ disk' = d /\ settled' = d
         /\ undone' = undone \cup (Stored(disk.file) \ Stored(d.file))
                              \cup {k \in acked : k \notin Stored(d.file)}
                              \cup {k \in Live(d.file) : k \notin Live(disk.file)}
    BY <1>5 DEF PowerLoss, PowerLossStore
  <2>1. /\ MemoryLive' = {} /\ memory' = Nothing /\ task' = NoTask
        /\ UNCHANGED <<keychain, used, acked>>
    BY <1>5 DEF PowerLoss, PowerLossStore, MemoryLive
  <2>2. Live(d.file) \subseteq used
    <3>1. d = settled \/ d = [disk EXCEPT !.file = Torn]
      OBVIOUS
    <3>2. Live([disk EXCEPT !.file = Torn].file) = {}
      BY <1>t DEF Disks, Live, Torn
    <3> QED
      BY <3>1, <3>2 DEF IdentityInv
  <2> QED
    BY <1>n, <2>1, <2>2 DEF IdentityInv
<1>6. CASE Around
  <2>1. CASE Settle
    BY <2>1 DEF Settle, running, history, IdentityInv, MemoryLive
  <2>2. CASE ChangeFile
    <3>1. /\ MemoryLive' = MemoryLive /\ acked \subseteq undone' /\ undone \subseteq undone'
          /\ UNCHANGED <<keychain, memory, task, used, acked>>
      BY <2>2 DEF ChangeFile, running, MemoryLive
    <3>2. Live(disk'.file) = {} /\ settled' = disk'
      BY <1>t, <2>2 DEF ChangeFile, Disks, Live, Absent
    <3> QED
      BY <3>1, <3>2 DEF IdentityInv
  <2>3. CASE UNCHANGED storeVars
    BY <2>3, <1>u DEF storeVars, storage, running, history
  <2> QED
    BY <1>6, <2>1, <2>2, <2>3 DEF Around
<1> QED
  BY <1>1, <1>2, <1>3, <1>4, <1>5, <1>6 DEF Next

\* Revocations that were reported stand, and a key that may sign has its
\* private half, for any keys and any order of failures, crashes, power
\* losses and outside changes but those that take the record itself away.
THEOREM IdentitySound == Spec => []IdentityIsSound
<1>1. Init => IdentityInv
  <2> SUFFICES ASSUME Init PROVE IdentityInv
    OBVIOUS
  <2>1. Live(disk.file) = {} /\ MemoryLive = {} /\ settled = disk
    BY DEF Init, StoreInit, Live, Absent, MemoryLive
  <2> QED
    BY <2>1 DEF Init, StoreInit, IdentityInv, NoTask
<1> QED
  BY <1>1, IdentityFollows, NextIdentity, InvHolds, PTL DEF Spec

=============================================================================
