---------------------------- MODULE SdCardProofs ----------------------------
(***************************************************************************)
(* The files on the SD card, proved for any credentials or faces and any   *)
(* number of switch-offs and failing calls.                                *)
(***************************************************************************)
EXTENDS SdCard, TLAPS

\* The steps of a save, and of a clear
Saving == {"open", "write", "drop_temporary", "drop_backup", "keep", "replace",
           "restore", "cleanup"}
Clearing == {"clear_credential", "clear_temporary", "clear_backup"}

\* The steps at which no file is being exchanged
Quiet == {"idle", "open", "write", "drop_temporary", "drop_backup", "keep"}

(***************************************************************************)
(* What is saved is in the temporary file from the step that wrote it to   *)
(* the one that puts it in place, and neither the file nor the backup ever *)
(* holds anything unreadable.                                              *)
(***************************************************************************)
SaveInv ==
    /\ {files["file"], files["backup"]} \subseteq Contents \cup {Absent}
    /\ pc \in Saving => body \in Contents /\ body \in current
    /\ pc \in {"drop_unreadable", "promote", "parse"} => body \in Contents
    /\ pc \in {"drop_backup", "keep", "replace"} => files["temporary"] = body
    /\ pc = "keep" /\ failures = 0 => files["backup"] = Absent
    /\ pc = "replace" /\ failures = 0 => files["file"] = Absent
    /\ pc = "restore" => failures # 0
    /\ pc = "cleanup" => files["file"] = body
    /\ answer = "saved" /\ pc = "idle" => files["file"] \in current

ClearInv ==
    /\ pc \in Clearing => None \in current
    /\ failures = 0 /\ pc \in {"clear_temporary", "clear_backup"} => files["file"] = Absent
    /\ failures = 0 /\ pc = "clear_backup" => files["temporary"] = Absent
    /\ ClearLeavesNothing

(***************************************************************************)
(* AlwaysACopy alone does not say which file holds the copy.  Between two  *)
(* calls it is the file itself: a backup beside a missing file is only     *)
(* left by a switch-off, which is followed by a load, which repairs it.    *)
(***************************************************************************)
Orderly ==
    /\ failures = 0 \/ (failures = 1 /\ crashes = 0)
    /\ store = "faces" => crashes = 0

BackupInv ==
    crashes = 0 /\ failures <= 1 =>
        /\ failures = 0 /\ pc \notin {"replace", "restore", "cleanup"} =>
               files["backup"] = Absent
        /\ pc \in Quiet \cup {"read", "parse"} =>
               files["file"] \in Contents \/ files["backup"] = Absent
        /\ pc = "read_backup" => files["backup"] = Absent

RepairInv ==
    /\ Orderly /\ pc \in {"drop_unreadable", "promote"} =>
           /\ crashes # 0
           /\ files["backup"] = body
           /\ files["file"] = Absent
    /\ Orderly /\ pc = "read_backup" /\ crashes # 0 => files["file"] = Absent
    /\ Orderly /\ pc = "parse" => files["file"] = body

CopyInv ==
    Orderly /\ None \notin current =>
        /\ pc \in Quiet => files["file"] \in current
        /\ pc \in {"replace", "restore", "read", "read_backup"} =>
               \/ files["file"] \in current
               \/ files["file"] = Absent /\ files["backup"] \in current
        /\ pc \in {"read", "read_backup"} /\ crashes = 0 => files["file"] \in current
        /\ pc \in {"drop_unreadable", "promote", "parse"} => body \in current

(***************************************************************************)
(* What a load would find is what the calls so far allow, unless a switch- *)
(* off has already left a backup that a save or a clear is getting rid of. *)
(***************************************************************************)
Loading == {"read", "read_backup", "drop_unreadable", "promote", "parse"}

Loadable ==
    IF files["file"] \in Contents THEN files["file"]
    ELSE IF files["backup"] \in Contents THEN files["backup"] ELSE None

LoadInv ==
    failures = 0 =>
        /\ crashes = 0 \/ (crashes = 1 /\ pc \in Loading \cup {"idle"}) => Loadable \in current
        /\ pc \in {"drop_unreadable", "promote", "parse"} => body = Loadable
        /\ pc = "read_backup" => files["file"] \notin Contents
        /\ pc # "drop_temporary"

IInv == TypeOK /\ SaveInv /\ ClearInv /\ BackupInv /\ RepairInv /\ CopyInv /\ LoadInv

LEMMA IInvInductive == Spec => []IInv
<1> USE FileConstants DEF FileConstants
<1>1. Init => IInv
  BY DEF Init, IInv, TypeOK, SaveInv, ClearInv, ClearLeavesNothing, BackupInv, RepairInv,
         CopyInv, LoadInv, Loading, Loadable, Orderly, Saving, Clearing, Quiet, File
<1>2. IInv /\ [Next]_vars => IInv'
  <2> SUFFICES ASSUME IInv, [Next]_vars PROVE IInv'
    OBVIOUS
  <2> USE DEF IInv, TypeOK, SaveInv, ClearInv, ClearLeavesNothing, BackupInv, RepairInv,
              CopyInv, LoadInv, Loading, Loadable, Orderly, Saving, Clearing, Quiet, File,
              Unchanged, Becomes, FailsAfter, Fails, Delete, CanRename, Renamed, TryRename,
              Readable, Then, Return, fs
  <2>1. CASE OpenTemporary /\ UNCHANGED store
    BY <2>1 DEF OpenTemporary
  <2>2. CASE WriteTemporary /\ UNCHANGED store
    BY <2>2 DEF WriteTemporary
  <2>3. CASE DropTemporary /\ UNCHANGED store
    BY <2>3 DEF DropTemporary
  <2>4. CASE DropBackup /\ UNCHANGED store
    BY <2>4 DEF DropBackup
  <2>5. CASE KeepOld /\ UNCHANGED store
    BY <2>5 DEF KeepOld
  <2>6. CASE Replace /\ UNCHANGED store
    BY <2>6 DEF Replace
  <2>7. CASE Restore /\ UNCHANGED store
    BY <2>7 DEF Restore
  <2>8. CASE Cleanup /\ UNCHANGED store
    BY <2>8 DEF Cleanup
  <2>9. CASE Read /\ UNCHANGED store
    BY <2>9 DEF Read, ReadAs
  <2>10. CASE SaveCredential /\ UNCHANGED store
    BY <2>10 DEF SaveCredential, MayCall, StartSave
  <2>11. CASE LoadCredential /\ UNCHANGED store
    BY <2>11 DEF LoadCredential, MayCall, BeginLoad
  <2>12. CASE ReadBackup /\ UNCHANGED store
    <3>1. CASE /\ files["backup"] \in Contents /\ Unchanged
               /\ pc' = "drop_unreadable" /\ body' = files["backup"]
               /\ UNCHANGED <<answer, expired, crashes, current>>
      BY <2>12, <3>1 DEF ReadBackup
    <3>2. CASE files["backup"] \notin Contents /\ Unchanged /\ NothingFound
      BY <2>12, <3>2 DEF ReadBackup, NothingFound
    <3>3. CASE Fails /\ NothingFound
      BY <2>12, <3>3 DEF ReadBackup, NothingFound
    <3> QED
      BY <2>12, <3>1, <3>2, <3>3 DEF ReadBackup, ReadAs
  <2>13. CASE store = "credential" /\ DropUnreadable /\ UNCHANGED store
    BY <2>13 DEF DropUnreadable
  <2>14. CASE Promote /\ UNCHANGED store
    BY <2>14 DEF Promote
  <2>15. CASE ParseCredential /\ UNCHANGED store
    BY <2>15 DEF ParseCredential
  <2>16. CASE BeginClear /\ UNCHANGED store
    BY <2>16 DEF BeginClear
  <2>17. CASE ClearCredential /\ UNCHANGED store
    BY <2>17 DEF ClearCredential
  <2>18. CASE ClearTemporary /\ UNCHANGED store
    BY <2>18 DEF ClearTemporary
  <2>19. CASE ClearBackup /\ UNCHANGED store
    BY <2>19 DEF ClearBackup
  <2>20. CASE SaveFaces /\ UNCHANGED store
    BY <2>20 DEF SaveFaces, StartSave
  <2>21. CASE LoadFaces /\ UNCHANGED store
    BY <2>21 DEF LoadFaces, BeginLoad
  <2>22. CASE store = "faces" /\ ReadOldFaces /\ UNCHANGED store
    <3>1. CASE /\ files["backup"] \in Contents /\ Unchanged
               /\ pc' = "parse" /\ body' = files["backup"]
               /\ UNCHANGED <<answer, expired, crashes, current>>
      BY <2>22, <3>1 DEF ReadOldFaces
    <3>2. CASE files["backup"] \notin Contents /\ Unchanged /\ NothingFound
      BY <2>22, <3>2 DEF ReadOldFaces, NothingFound
    <3>3. CASE Fails /\ NothingFound
      BY <2>22, <3>3 DEF ReadOldFaces, NothingFound
    <3> QED
      BY <2>22, <3>1, <3>2, <3>3 DEF ReadOldFaces, ReadAs
  <2>23. CASE ParseFaces /\ UNCHANGED store
    BY <2>23 DEF ParseFaces
  <2>24. CASE Crash
    BY <2>24 DEF Crash
  <2>25. CASE Expire
    BY <2>25 DEF Expire
  <2>26. CASE UNCHANGED vars
    BY <2>26 DEF vars
  <2> QED
    BY <2>1, <2>2, <2>3, <2>4, <2>5, <2>6, <2>7, <2>8, <2>9, <2>10, <2>11, <2>12,
       <2>13, <2>14, <2>15, <2>16, <2>17, <2>18, <2>19, <2>20, <2>21, <2>22, <2>23,
       <2>24, <2>25, <2>26 DEF Next, Call, SaveStep, CredentialStep, FacesStep
<1> QED
  BY <1>1, <1>2, PTL DEF Spec

(***************************************************************************)
(* What the runs of MCSdCard check, for every instance.                    *)
(***************************************************************************)

\* The store never leaves its states: the type invariant.
THEOREM SdCardTypeCorrect == Spec => []TypeOK
<1>1. IInv => TypeOK
  BY DEF IInv
<1> QED
  BY <1>1, IInvInductive, PTL

\* A save that says it succeeded has put its content in place, however many
\* calls of the file system failed and however often the console was switched
\* off.
THEOREM SavedIsAlwaysThere == Spec => []SavedIsThere
<1>1. IInv => SavedIsThere
  BY DEF IInv, SaveInv, SavedIsThere
<1> QED
  BY <1>1, IInvInductive, PTL

\* Once a session has been deleted, no file keeps a credential, whatever
\* interrupted saves had left.
THEOREM ClearAlwaysLeavesNothing == Spec => []ClearLeavesNothing
<1>1. IInv => ClearLeavesNothing
  BY DEF IInv, ClearInv
<1> QED
  BY <1>1, IInvInductive, PTL

\* A saved credential that nobody cleared is at all times in a file that a load
\* would read, however often the console is switched off.
THEOREM ThereIsAlwaysACopy == Spec => []AlwaysACopy
<1>1. IInv => AlwaysACopy
  <2> SUFFICES ASSUME IInv, None \notin current, Orderly
               PROVE  \E f \in {"file", "backup"} : files[f] \in current
    BY DEF AlwaysACopy, Orderly
  <2> QED
    BY FileConstants DEF IInv, TypeOK, SaveInv, ClearInv, BackupInv, RepairInv, CopyInv,
       Saving, Clearing, Quiet, Orderly
<1> QED
  BY <1>1, IInvInductive, PTL

\* A call that has failed is never forgotten.
LEMMA FailuresAreCounted ==
    ASSUME TypeOK, Next, failures' = 0
    PROVE  failures = 0
<1> USE DEF Unchanged, Becomes, FailsAfter, Fails, Delete, TryRename, ReadAs, fs, TypeOK
<1>1. CASE SaveStep
  BY <1>1 DEF SaveStep, OpenTemporary, WriteTemporary, DropTemporary, DropBackup, KeepOld,
              Replace, Restore, Cleanup
<1>2. CASE CredentialStep
  BY <1>2 DEF CredentialStep, SaveCredential, LoadCredential, BeginLoad, ReadBackup,
              DropUnreadable, Promote, ParseCredential, BeginClear, ClearCredential,
              ClearTemporary, ClearBackup
<1>3. CASE Read \/ FacesStep
  BY <1>3 DEF Read, FacesStep, SaveFaces, LoadFaces, BeginLoad, ReadOldFaces, ParseFaces
<1> QED
  BY <1>1, <1>2, <1>3 DEF Next, Call, Crash, Expire

\* A load returns what the last save or clear left, and after one that was cut
\* short, what was there before it or what it was to leave.
THEOREM LoadIsAlwaysCurrent == Spec => LoadIsCurrent
<1>1. IInv /\ [Next]_vars =>
          [pc' = "idle" /\ pc \in {"read_backup", "parse"} /\ crashes <= 1 /\ failures' = 0
               => answer' \in current \/ (store = "faces" /\ body \in current \cap expired)]_vars
  <2> SUFFICES ASSUME IInv, Next, pc' = "idle", pc \in {"read_backup", "parse"},
                      crashes <= 1, failures' = 0
               PROVE  answer' \in current \/ (store = "faces" /\ body \in current \cap expired)
    BY DEF vars
  <2> USE FileConstants DEF FileConstants, Return
  <2>1. crashes = 0 \/ crashes = 1
    BY DEF IInv, TypeOK
  <2>2. failures = 0
    BY FailuresAreCounted DEF IInv
  <2>3. CASE pc = "parse"
    <3>1. body \in current
      BY <2>1, <2>2, <2>3 DEF IInv, LoadInv, Loading
    <3>2. (store = "credential" /\ ParseCredential) \/ (store = "faces" /\ ParseFaces)
      BY <2>3 DEF Next, Call, SaveStep, OpenTemporary, WriteTemporary, DropTemporary, DropBackup,
             KeepOld, Replace, Restore, Cleanup, Read, CredentialStep, SaveCredential, MayCall,
             LoadCredential, ReadBackup, DropUnreadable, Promote, BeginClear, ClearCredential,
             ClearTemporary, ClearBackup, FacesStep, SaveFaces, LoadFaces, ReadOldFaces, Crash,
             Expire
    <3> QED
      BY <3>1, <3>2 DEF ParseCredential, ParseFaces
  <2>4. CASE pc = "read_backup"
    <3>1. ReadBackup \/ ReadOldFaces
      BY <2>4 DEF Next, Call, SaveStep, OpenTemporary, WriteTemporary, DropTemporary, DropBackup,
             KeepOld, Replace, Restore, Cleanup, Read, CredentialStep, SaveCredential, MayCall,
             LoadCredential, DropUnreadable, Promote, ParseCredential, BeginClear,
             ClearCredential, ClearTemporary, ClearBackup, FacesStep, SaveFaces, LoadFaces,
             ParseFaces, Crash, Expire
    <3>2. files["backup"] \notin Contents /\ answer' = None
      BY <3>1, <2>2 DEF ReadBackup, ReadOldFaces, ReadAs, Readable, NothingFound, Fails, FailsAfter
    <3> QED
      BY <2>1, <2>2, <2>4, <3>2 DEF IInv, LoadInv, Loading, Loadable
  <2> QED
    BY <2>3, <2>4
<1> QED
  BY <1>1, IInvInductive, PTL DEF Spec, LoadIsCurrent

-----------------------------------------------------------------------------
(***************************************************************************)
(* The credential store as the slot of which the product session thinks.   *)
(***************************************************************************)

\* The credential that an interrupted save left behind the file
Replaced ==
    IF {files["file"], files["backup"]} \subseteq Contents THEN files["backup"] ELSE None

BeingSaved == IF pc \in Saving THEN body ELSE None

Slot == INSTANCE CredentialSlot
            WITH kept <- Loadable,
                 older <- Replaced,
                 saving <- BeingSaved,
                 clearing <- pc \in Clearing

\* The card works, and holds credentials.
Works == store = "credential" /\ failures = 0

\* A switch-off may leave a backup beside a missing file; a load comes next and
\* puts it back before another call can take that backup away.
RepairedInv ==
    Works /\ pc \in Quiet => files["file"] \in Contents \/ files["backup"] = Absent

SlotInv == IInv /\ RepairedInv

LEMMA RepairedInductive ==
    ASSUME IInv, RepairedInv, [Next]_vars
    PROVE  RepairedInv'
<1> SUFFICES ASSUME Works', pc' \in Quiet
             PROVE  files'["file"] \in Contents \/ files'["backup"] = Absent
  BY DEF RepairedInv
<1> USE FileConstants
        DEF FileConstants, IInv, TypeOK, SaveInv, ClearInv, RepairInv, LoadInv, Orderly,
            RepairedInv, Works, Saving, Clearing, Quiet, Loading, File, Unchanged, Becomes,
            FailsAfter, Fails, Delete, CanRename, Renamed, TryRename, Readable, ReadAs, Then,
            Return, fs
<1>1. CASE UNCHANGED vars
  BY <1>1 DEF vars
<1>2. CASE Next
  <2>1. Works
    BY <1>2, FailuresAreCounted DEF Next, Call, Crash, Expire
  <2>2. CASE SaveStep
    BY <2>1, <2>2 DEF SaveStep, OpenTemporary, WriteTemporary, DropTemporary, DropBackup,
                      KeepOld, Replace, Restore, Cleanup
  <2>3. CASE SaveCredential \/ LoadCredential \/ BeginClear
    BY <2>1, <2>3 DEF SaveCredential, StartSave, LoadCredential, MayCall, BeginLoad, BeginClear
  <2>4. CASE Read \/ DropUnreadable
    BY <2>1, <2>4 DEF Read, DropUnreadable
  <2>5. CASE ReadBackup
    BY <2>1, <2>5 DEF ReadBackup, NothingFound
  <2>6. CASE Promote \/ ParseCredential
    BY <2>1, <2>6 DEF Promote, ParseCredential
  <2>7. CASE ClearCredential \/ ClearTemporary \/ ClearBackup
    BY <2>1, <2>7 DEF ClearCredential, ClearTemporary, ClearBackup
  <2>8. CASE Crash \/ Expire
    BY <2>1, <2>8 DEF Crash, Expire
  <2> QED
    BY <1>2, <2>1, <2>2, <2>3, <2>4, <2>5, <2>6, <2>7, <2>8 DEF Next, Call, CredentialStep
<1> QED
  BY <1>1, <1>2

LEMMA SlotStep ==
    ASSUME SlotInv, SlotInv', [Next]_vars, Works'
    PROVE  [Slot!Next]_(Slot!vars)
<1> USE FileConstants
        DEF FileConstants, SlotInv, IInv, TypeOK, SaveInv, ClearInv, RepairInv, LoadInv,
            Orderly, RepairedInv, Works, Saving, Clearing, Quiet, Loading, Loadable, Replaced,
            BeingSaved, File, Unchanged, Becomes, FailsAfter, Fails, Delete, CanRename, Renamed, TryRename,
            Readable, ReadAs, Then, Return, fs, Slot!vars
<1>1. CASE UNCHANGED vars
  BY <1>1 DEF vars
<1>2. CASE Next
  <2>1. Works
    BY <1>2, FailuresAreCounted DEF Next, Call, Crash, Expire
  \* save
  <2>2. CASE SaveCredential
    BY <2>1, <2>2 DEF SaveCredential, StartSave, MayCall, Slot!Next, Slot!Refuse,
                      Slot!BeginSave, Slot!Idle
  <2>3. CASE OpenTemporary \/ WriteTemporary \/ KeepOld
    BY <2>1, <2>3 DEF OpenTemporary, WriteTemporary, KeepOld
  <2>4. CASE DropBackup
    BY <2>1, <2>4 DEF DropBackup, Slot!Next, Slot!DropOlder
  <2>5. CASE Replace
    BY <2>1, <2>5 DEF Replace, Slot!Next, Slot!Replace
  <2>6. CASE Cleanup
    <3>1. files' = [files EXCEPT !["backup"] = Absent] /\ files["file"] = body
      BY <2>1, <2>6 DEF Cleanup
    <3>2. Loadable = body /\ Loadable' = body /\ Replaced' = None
      BY <2>6, <3>1 DEF Cleanup
    <3> QED
      BY <2>1, <2>6, <3>2 DEF Cleanup, Slot!Next, Slot!EndSave
  <2>7. CASE DropTemporary \/ Restore
    BY <2>1, <2>7 DEF DropTemporary, Restore
  \* load
  <2>8. CASE LoadCredential \/ Read \/ DropUnreadable \/ Promote
    BY <2>1, <2>8 DEF LoadCredential, MayCall, BeginLoad, Read, DropUnreadable, Promote
  <2>9. CASE ReadBackup
    BY <2>1, <2>9 DEF ReadBackup, NothingFound, Slot!Next, Slot!Load, Slot!Idle
  <2>10. CASE ParseCredential
    BY <2>1, <2>10 DEF ParseCredential, Slot!Next, Slot!Load, Slot!BeginClear, Slot!Idle
  \* clear
  <2>11. CASE BeginClear
    BY <2>1, <2>11 DEF BeginClear, Slot!Next, Slot!BeginClear, Slot!Idle
  <2>12. CASE ClearCredential \/ ClearTemporary
    BY <2>1, <2>12 DEF ClearCredential, ClearTemporary, Slot!Next, Slot!Uncover
  <2>13. CASE ClearBackup
    <3>1. files' = [files EXCEPT !["backup"] = Absent] /\ files["file"] = Absent
      BY <2>1, <2>13 DEF ClearBackup
    <3>2. Loadable' = None /\ Replaced' = None
      BY <3>1
    <3> QED
      BY <2>1, <2>13, <3>2 DEF ClearBackup, Slot!Next, Slot!EndClear
  <2>14. CASE Crash
    BY <2>1, <2>14 DEF Crash, Slot!Next, Slot!SwitchOff
  <2>15. CASE Expire
    BY <2>1, <2>15 DEF Expire
  <2> QED
    BY <1>2, <2>1, <2>2, <2>3, <2>4, <2>5, <2>6, <2>7, <2>8, <2>9, <2>10, <2>11, <2>12,
       <2>13, <2>14, <2>15 DEF Next, Call, SaveStep, CredentialStep
<1> QED
  BY <1>1, <1>2

\* While no call of the file system fails, SdCredentialStore is a slot that is
\* replaced and emptied at once, however often the console is switched off and
\* in whatever step.  The product session takes its store for such a slot, with
\* nothing behind it.
THEOREM StoreKeepsSlot == Spec /\ []Works => Slot!Spec
<1>1. Init /\ Works => Slot!Init
  BY FileConstants DEF Init, Works, FileConstants, Slot!Init, Loadable, Replaced, BeingSaved,
                       Saving, Clearing, File
<1>2. Init => RepairedInv
  BY DEF Init, RepairedInv, File
<1>3. Spec => []SlotInv
  BY <1>2, RepairedInductive, IInvInductive, PTL DEF Spec, SlotInv
<1> QED
  BY <1>1, <1>3, SlotStep, PTL DEF Spec, Slot!Spec

(***************************************************************************)
(* What the slot comes to, from CredentialSlot alone.                      *)
(***************************************************************************)

\* The store neither holds c nor is given it.
Gone(c) == Loadable # c /\ Replaced # c /\ BeingSaved # c

\* When a save has returned "saved", only its credential is left; when a clear
\* has returned, none.
Settles ==
    /\ BeingSaved # None /\ BeingSaved' = None /\ answer' = "saved" =>
           \A c \in Contents \ {BeingSaved} : Gone(c)'
    /\ pc \in Clearing /\ pc' \notin Clearing /\ answer' = "cleared" =>
           \A c \in Contents : Gone(c)'

THEOREM CompletedCallSettles == Slot!Spec => [][Settles]_(Slot!vars)
<1> DEFINE OneCall == BeingSaved = None \/ pc \notin Clearing
<1> USE FileConstants DEF FileConstants
<1>1. Slot!Init => OneCall
  BY DEF Slot!Init
<1>2. OneCall /\ [Slot!Next]_(Slot!vars) => OneCall'
  BY DEF Slot!Next, Slot!vars, Slot!Load, Slot!Refuse, Slot!BeginSave, Slot!Replace,
         Slot!DropOlder, Slot!EndSave, Slot!BeginClear, Slot!Uncover, Slot!EndClear,
         Slot!SwitchOff, Slot!Idle
<1>3. OneCall /\ [Slot!Next]_(Slot!vars) => [Settles]_(Slot!vars)
  BY DEF Settles, Gone, Slot!Next, Slot!vars, Slot!Load, Slot!Refuse, Slot!BeginSave,
         Slot!Replace, Slot!DropOlder, Slot!EndSave, Slot!BeginClear, Slot!Uncover,
         Slot!EndClear, Slot!SwitchOff, Slot!Idle
<1> QED
  BY <1>1, <1>2, <1>3, PTL DEF Slot!Spec

\* A credential that is gone stays gone until it is saved again: no load
\* answers it, however often the console is switched off in between.
THEOREM GoneStaysGone ==
    ASSUME NEW c \in Contents
    PROVE  Slot!Spec => [](Gone(c) /\ [][BeingSaved' # c]_(Slot!vars) =>
                               []Gone(c) /\ [][answer' = c => answer = c]_(Slot!vars))
<1> USE FileConstants DEF FileConstants
<1>1. Gone(c) /\ [Slot!Next]_(Slot!vars) /\ [BeingSaved' # c]_(Slot!vars) => Gone(c)'
  BY DEF Gone, Slot!Next, Slot!vars, Slot!Load, Slot!Refuse, Slot!BeginSave, Slot!Replace,
         Slot!DropOlder, Slot!EndSave, Slot!BeginClear, Slot!Uncover, Slot!EndClear,
         Slot!SwitchOff, Slot!Idle
<1>2. Gone(c) /\ [Slot!Next]_(Slot!vars) => [answer' = c => answer = c]_(Slot!vars)
  BY DEF Gone, Slot!Next, Slot!vars, Slot!Load, Slot!Refuse, Slot!BeginSave, Slot!Replace,
         Slot!DropOlder, Slot!EndSave, Slot!BeginClear, Slot!Uncover, Slot!EndClear,
         Slot!SwitchOff, Slot!Idle
<1> QED
  BY <1>1, <1>2, PTL DEF Slot!Spec

\* So on a card that works, a deleted session cannot be resumed, nor a replaced
\* credential, after whatever switch-offs.
THEOREM DeletedStaysDeleted ==
    ASSUME NEW c \in Contents
    PROVE  Spec /\ []Works =>
               /\ [][Settles]_(Slot!vars)
               /\ [](Gone(c) /\ [][BeingSaved' # c]_(Slot!vars) =>
                         []Gone(c) /\ [][answer' = c => answer = c]_(Slot!vars))
  BY StoreKeepsSlot, CompletedCallSettles, GoneStaysGone, PTL

\* No switch-off cuts a save short between the exchange and the end.
NoneCutShort == Slot!SwitchOff => Replaced = None

\* What a load would find changes only to what is being saved, or to nothing
\* while a deletion is under way, and a load answers it.
IsACell ==
    /\ Loadable' # Loadable =>
           \/ BeingSaved # None /\ Loadable' = BeingSaved
           \/ pc \in Clearing /\ Loadable' = None
    /\ answer' # answer /\ answer' \in Contents => answer' = Loadable /\ Loadable' = Loadable

\* Unless a save was cut short, nothing is behind the slot between two calls,
\* and it changes as the store does that the product session is modelled with:
\* a deletion that is cut short has happened or has not.
THEOREM SlotIsACell ==
    Slot!Spec /\ [][NoneCutShort]_(Slot!vars) =>
        [](BeingSaved = None => Replaced = None) /\ [][IsACell]_(Slot!vars)
<1> DEFINE Behind == /\ BeingSaved = None \/ pc \notin Clearing
                     /\ BeingSaved = None => Replaced = None
<1> USE FileConstants DEF FileConstants
<1>1. Slot!Init => Behind
  BY DEF Slot!Init
<1>2. Behind /\ [Slot!Next]_(Slot!vars) /\ [NoneCutShort]_(Slot!vars) => Behind'
  BY DEF NoneCutShort, Slot!Next, Slot!vars, Slot!Load, Slot!Refuse, Slot!BeginSave,
         Slot!Replace, Slot!DropOlder, Slot!EndSave, Slot!BeginClear, Slot!Uncover,
         Slot!EndClear, Slot!SwitchOff, Slot!Idle
<1>3. Behind /\ [Slot!Next]_(Slot!vars) => [IsACell]_(Slot!vars)
  BY DEF IsACell, Slot!Next, Slot!vars, Slot!Load, Slot!Refuse, Slot!BeginSave,
         Slot!Replace, Slot!DropOlder, Slot!EndSave, Slot!BeginClear, Slot!Uncover,
         Slot!EndClear, Slot!SwitchOff, Slot!Idle
<1> QED
  BY <1>1, <1>2, <1>3, PTL DEF Slot!Spec

\* So it is with the credential store on a card that works.
THEOREM StoreIsACell ==
    Spec /\ []Works /\ [][NoneCutShort]_(Slot!vars) => [][IsACell]_(Slot!vars)
  BY StoreKeepsSlot, SlotIsACell, PTL

=============================================================================
