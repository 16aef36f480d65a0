--------------------------- MODULE SettingsStore ---------------------------
(***************************************************************************)
(* The settings of the app (settings.rs, and the handlers of app.rs that   *)
(* change them): one JSON document that is loaded when the studio starts,  *)
(* a copy in memory, a draft that the settings screen edits, and the       *)
(* identity of the signing key, whose private half is in the keychain.     *)
(*                                                                         *)
(* A preference stands for everything that is not identity. The directory  *)
(* holds settings.json and what was quarantined; a save writes a temporary *)
(* file and renames it over settings.json without a sync, so a power loss  *)
(* can take the rename back or keep it without the bytes. One process runs *)
(* at a time.                                                              *)
(*                                                                         *)
(* The module has no specification of its own: Shell runs its operations   *)
(* in the frames of the window.                                            *)
(***************************************************************************)
EXTENDS Naturals

CONSTANTS
    Prefs,          \* values of the preferences
    Keys,           \* signing keys, by fingerprint
    MaxMishaps      \* bound on failed calls, crashes and outside changes

\* No signing key is configured.
NoKey == [none |-> "key"]

ASSUME StoreAssumption ==
    Prefs # {} /\ NoKey \notin Keys /\ MaxMishaps \in Nat

VARIABLES
    disk,           \* settings.json and the quarantined files, as programs see them
    settled,        \* the same as a power loss would leave it
    keychain,       \* keys whose private half the keychain holds
    memory,         \* settings of the running studio, or Nothing
    draft,          \* settings_draft
    task,           \* what is left to do of a handler that is not finished
    used,           \* history: keys that were ever made
    acked,          \* history: keys the operator was told are revoked
    undone,         \* history: keys whose record was lost outside the app
    found,          \* history: broken files that a load came across
    mishaps         \* mishaps so far

running == <<memory, draft, task>>
storage == <<disk, settled, keychain>>
history == <<used, acked, undone, found>>
storeVars == <<storage, running, history, mishaps>>

Nothing == [none |-> TRUE]
NoTask == [step |-> "none"]

\* The private half of key k is still to be removed.
Cleanup(k) == [step |-> "delete", key |-> k]
\* Key k is in the keychain, its settings are not saved.
Recording(k) == [step |-> "record", key |-> k]

Settings ==
    [pref : Prefs, key : Keys \cup {NoKey}, revoked : SUBSET Keys, protected : BOOLEAN]

\* protected_malformed_settings_path is not written to the file.
Written(s) == [kind |-> "good", settings |-> [s EXCEPT !.protected = FALSE]]
Absent == [kind |-> "absent"]
Broken == {[kind |-> "malformed"], [kind |-> "unreadable"], [kind |-> "torn"]}
Torn == [kind |-> "torn"]

Good == [kind : {"good"}, settings : {s \in Settings : ~s.protected}]
Files == {Absent} \cup Broken \cup Good
Disks == [file : Files, quarantine : SUBSET Broken]
Tasks == {NoTask} \cup {Cleanup(k) : k \in Keys} \cup {Recording(k) : k \in Keys}

StoreTypeOK ==
    /\ disk \in Disks /\ settled \in Disks
    /\ keychain \subseteq Keys
    /\ memory \in Settings \cup {Nothing} /\ draft \in Settings \cup {Nothing}
    /\ task \in Tasks
    /\ used \subseteq Keys /\ acked \subseteq Keys /\ undone \subseteq Keys
    /\ found \subseteq Broken
    /\ mishaps \in 0..MaxMishaps

Defaults == [pref |-> CHOOSE p \in Prefs : TRUE, key |-> NoKey, revoked |-> {},
             protected |-> FALSE]

StoreInit ==
    /\ disk \in {[file |-> f, quarantine |-> {}] :
                    f \in {Absent, [kind |-> "malformed"], [kind |-> "unreadable"]}}
    /\ settled = disk
    /\ keychain = {} /\ used = {} /\ acked = {} /\ undone = {} /\ found = {}
    /\ memory = Nothing /\ draft = Nothing /\ task = NoTask
    /\ mishaps = 0

Running == memory # Nothing

\* configured_signing_key: the key that may sign, as a set of at most one.
ConfiguredKey(s) == IF s.key = NoKey \/ s.key \in s.revoked THEN {} ELSE {s.key}

Stored(f) == IF f.kind = "good" THEN f.settings.revoked ELSE {}
Live(f) == IF f.kind = "good" THEN ConfiguredKey(f.settings) ELSE {}

(***************************************************************************)
(* Loading, when the studio starts.                                        *)
(***************************************************************************)

\* What a load makes of the settings, given the file and whether it still
\* stands at its path afterwards.
Loaded(f, kept) ==
    IF f.kind = "good" THEN f.settings
    ELSE [Defaults EXCEPT !.protected = f.kind # "absent" /\ kept]

\* Mutant: what was quarantined before is written over.
QuarantineLatest(d) == [file |-> Absent, quarantine |-> {d.file}]

\* The malformed file is moved to a name that is free.
Quarantine(d) == [file |-> Absent, quarantine |-> d.quarantine \cup {d.file}]

Load ==
    /\ ~Running
    /\ found' = found \cup ({disk.file} \cap Broken)
    /\ \/ /\ disk.file.kind \in {"malformed", "torn"}
          /\ disk' = Quarantine(disk)
          /\ memory' = Loaded(disk.file, FALSE)
          /\ UNCHANGED mishaps
       \/ /\ disk.file.kind \in {"malformed", "torn"}
          /\ mishaps < MaxMishaps /\ mishaps' = mishaps + 1
          /\ memory' = Loaded(disk.file, TRUE)
          /\ UNCHANGED disk
       \/ /\ disk.file.kind \notin {"malformed", "torn"}
          /\ memory' = Loaded(disk.file, TRUE)
          /\ UNCHANGED <<disk, mishaps>>
    /\ draft' = memory'
    /\ UNCHANGED <<settled, keychain, task, used, acked, undone>>

\* ReynApp is dropped with the draft; the file stays.
Drop ==
    /\ Running
    /\ memory' = Nothing /\ draft' = Nothing
    /\ UNCHANGED <<storage, task, history, mishaps>>

(***************************************************************************)
(* Saving. SaveOk(s) writes settings s, SaveFails leaves the file alone.   *)
(***************************************************************************)

\* Mutant: a file that could not be read does not stop a save.
MaySaveAnyway(s) == TRUE

MaySave(s) == ~(s.protected /\ disk.file # Absent)

SaveOk(s) ==
    /\ MaySave(s)
    /\ disk' = [disk EXCEPT !.file = Written(s)]
    /\ UNCHANGED mishaps

SaveFails(s) ==
    /\ \/ ~MaySave(s) /\ UNCHANGED mishaps
       \/ MaySave(s) /\ mishaps < MaxMishaps /\ mishaps' = mishaps + 1
    /\ UNCHANGED disk

Free == Running /\ task = NoTask

Edit ==
    /\ Free
    /\ \E p \in Prefs \ {draft.pref} : draft' = [draft EXCEPT !.pref = p]
    /\ UNCHANGED <<storage, memory, task, history, mishaps>>

\* Mutant: the reset takes the identity along.
FreshDefaults(s) == [Defaults EXCEPT !.protected = s.protected]

\* Preferences are reset; identity and protection are kept.
RestoredDefaults(s) == [s EXCEPT !.pref = Defaults.pref]

RestoreDefaults ==
    /\ Free
    /\ draft' = RestoredDefaults(memory)
    /\ UNCHANGED <<storage, memory, task, history, mishaps>>

\* The Save button, enabled when the draft differs.
Save ==
    /\ Free /\ draft # memory
    /\ \/ SaveOk(draft) /\ memory' = draft
       \/ SaveFails(draft) /\ UNCHANGED memory
    /\ UNCHANGED <<settled, keychain, draft, task, history>>

\* persist_model_default, and with it the draft is replaced; the change
\* stays in memory when the save fails.
PersistModelDefault ==
    /\ Free
    /\ \E p \in Prefs : memory' = [memory EXCEPT !.pref = p]
    /\ draft' = memory'
    /\ SaveOk(memory') \/ SaveFails(memory')
    /\ UNCHANGED <<settled, keychain, task, history>>

\* The presets of the draft are replaced, the rest of it stays staged.
SavePreset ==
    /\ Free
    /\ \E p \in Prefs : memory' = [memory EXCEPT !.pref = p]
    /\ \E p \in Prefs : draft' = [draft EXCEPT !.pref = p]
    /\ SaveOk(memory') \/ SaveFails(memory')
    /\ UNCHANGED <<settled, keychain, task, history>>

\* As SavePreset, but nothing changes unless the candidate is saved.
SaveTemplate ==
    /\ Free
    /\ \E p \in Prefs :
         LET candidate == [memory EXCEPT !.pref = p]
         IN  \/ /\ SaveOk(candidate)
                /\ memory' = candidate
                /\ \E q \in Prefs : draft' = [draft EXCEPT !.pref = q]
             \/ SaveFails(candidate) /\ UNCHANGED <<memory, draft>>
    /\ UNCHANGED <<settled, keychain, task, history>>

(***************************************************************************)
(* The signing key.                                                        *)
(***************************************************************************)

\* Create local key: the private half goes to the keychain first.
CreateKey ==
    /\ Free /\ draft.key = NoKey
    /\ \E k \in Keys \ used :
         /\ keychain' = keychain \cup {k}
         /\ used' = used \cup {k}
         /\ task' = Recording(k)
    /\ UNCHANGED <<disk, settled, memory, draft, acked, undone, found, mishaps>>

\* Then the settings name it; if they cannot be saved the item is removed.
RecordKey ==
    /\ task.step = "record"
    /\ LET candidate == [memory EXCEPT !.key = task.key]
       IN  \/ /\ SaveOk(candidate)
              /\ memory' = candidate /\ draft' = candidate
              /\ task' = NoTask
           \/ /\ SaveFails(candidate)
              /\ task' = Cleanup(task.key)
              /\ UNCHANGED <<memory, draft>>
    /\ UNCHANGED <<settled, keychain, history>>

\* Mutant: the private half is removed before the settings are saved.
RevokeKeyItemFirst ==
    /\ Free /\ draft.key # NoKey /\ draft.key \notin draft.revoked
    /\ keychain' = keychain \ {memory.key}
    /\ LET candidate == [memory EXCEPT !.revoked = @ \cup ({memory.key} \ {NoKey})]
       IN  \/ /\ SaveOk(candidate)
              /\ memory' = candidate /\ draft' = candidate
              /\ acked' = acked \cup (candidate.revoked \ memory.revoked)
           \/ /\ SaveFails(candidate)
              /\ UNCHANGED <<memory, draft, acked>>
    /\ UNCHANGED <<settled, task, used, undone, found>>

\* Confirm revoke: the settings first, then the private half.
RevokeKey ==
    /\ Free /\ draft.key # NoKey /\ draft.key \notin draft.revoked
    /\ LET candidate == [memory EXCEPT !.revoked = @ \cup ({memory.key} \ {NoKey})]
       IN  \/ /\ SaveOk(candidate)
              /\ memory' = candidate /\ draft' = candidate
              /\ acked' = acked \cup (candidate.revoked \ memory.revoked)
              /\ task' = Cleanup(memory.key)
           \/ /\ SaveFails(candidate)
              /\ UNCHANGED <<memory, draft, acked, task>>
    /\ UNCHANGED <<settled, keychain, used, undone, found>>

\* The keychain may refuse; the handler reports it and ends all the same.
DeleteKey ==
    /\ task.step = "delete"
    /\ task' = NoTask
    /\ \/ keychain' = keychain \ {task.key} /\ UNCHANGED mishaps
       \/ mishaps < MaxMishaps /\ mishaps' = mishaps + 1 /\ UNCHANGED keychain
    /\ UNCHANGED <<disk, settled, memory, draft, history>>

\* One handler of the settings, or one step of it, in a frame of the studio.
Handle ==
    \/ Edit \/ RestoreDefaults \/ Save
    \/ PersistModelDefault \/ SavePreset \/ SaveTemplate
    \/ CreateKey \/ RecordKey \/ RevokeKey \/ DeleteKey

(***************************************************************************)
(* Around the program.                                                     *)
(***************************************************************************)

\* The system writes the directory back to the disk.
Settle ==
    /\ settled # disk
    /\ settled' = disk
    /\ UNCHANGED <<disk, keychain, running, history, mishaps>>

\* The process dies between two steps.
CrashStore ==
    /\ Running /\ mishaps < MaxMishaps
    /\ memory' = Nothing /\ draft' = Nothing /\ task' = NoTask
    /\ mishaps' = mishaps + 1
    /\ UNCHANGED <<storage, history>>

\* Power fails: the directory is as it was settled, or it names the file
\* last saved, whose bytes never reached the disk. The keychain is durable.
PowerLossStore ==
    /\ mishaps < MaxMishaps
    /\ \E d \in {settled} \cup
                (IF disk.file.kind = "good" /\ disk # settled
                 THEN {[disk EXCEPT !.file = Torn]} ELSE {}) :
         /\ disk' = d /\ settled' = d
         /\ undone' = undone \cup (Stored(disk.file) \ Stored(d.file))
                              \cup {k \in acked : k \notin Stored(d.file)}
                              \cup {k \in Live(d.file) : k \notin Live(disk.file)}
    /\ memory' = Nothing /\ draft' = Nothing /\ task' = NoTask
    /\ mishaps' = mishaps + 1
    /\ UNCHANGED <<keychain, used, acked, found>>

\* The user, or a tool of his, replaces or removes the settings file. What a
\* load had found in it is then his own to keep.
ChangeFile ==
    /\ mishaps < MaxMishaps /\ mishaps' = mishaps + 1
    /\ \E f \in {Absent, [kind |-> "malformed"], [kind |-> "unreadable"]} \ {disk.file} :
         /\ disk' = [disk EXCEPT !.file = f]
         /\ settled' = disk'
    /\ found' = found \cap disk.quarantine
    /\ undone' = undone \cup Stored(disk.file) \cup acked
    /\ UNCHANGED <<keychain, running, used, acked>>

(***************************************************************************)
(* Properties                                                              *)
(***************************************************************************)

Bearers == {s \in {memory, draft} : s # Nothing}

\* A revocation the operator was told of stands: the file lists it, and so
\* do the settings in memory and the draft that a later save would write,
\* through resets, failed saves, crashes and new sessions.
RevocationsStand ==
    \A k \in acked \ undone :
       k \in Stored(disk.file) /\ \A s \in Bearers : k \in s.revoked

\* A key that may sign has its private half, in the file and in memory: no
\* order of a failed save, a crash and a keychain call leaves a reference
\* that looks ready and cannot sign.
LiveKeysSign ==
    \A k \in (Live(disk.file) \cup UNION {ConfiguredKey(s) : s \in Bearers}) \ undone :
       k \in keychain

\* The identity of the organization is sound: both of the above.
IdentityIsSound == RevocationsStand /\ LiveKeysSign

\* A settings file that a load could not use is never destroyed by the app:
\* it stands at its path or among the quarantined files, through later
\* saves, restarts, crashes and power losses.
FoundIsKept == found \subseteq {disk.file} \cup disk.quarantine

=============================================================================
