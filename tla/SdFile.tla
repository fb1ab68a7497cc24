-------------------------------- MODULE SdFile --------------------------------
(***************************************************************************)
(* How the console replaces a file on its SD card.  The credential store   *)
(* and the avatar cache save in the same steps: a temporary file is        *)
(* written, the old file becomes the backup, the temporary file takes its  *)
(* place, and the backup goes.                                             *)
(*                                                                         *)
(* Every call of the file system is a step of its own, after which the     *)
(* console may be switched off, and may fail; the code ignores the failure *)
(* of most of them.  The next start finds the files as they were.  A file  *)
(* that was opened for writing and not written holds nothing readable.     *)
(***************************************************************************)
EXTENDS Naturals

CONSTANTS
    Contents,         \* the credentials, or the faces of a cache
    Absent,           \* no such file
    Unreadable,       \* a file that is not complete
    None,             \* nothing found
    MaxCrashes,       \* bound: how often the console is switched off in a call
    MaxFailures       \* bound: how many calls of the file system fail

ASSUME FileConstants ==
    /\ MaxCrashes \in Nat
    /\ MaxFailures \in Nat
    /\ Absent # Unreadable
    /\ \A c \in Contents : c # Absent /\ c # Unreadable /\ c # None
    /\ \A c \in Contents \cup {None} : c # "saved" /\ c # "not_saved" /\ c # "cleared"

File == {"file", "temporary", "backup"}

VARIABLES
    store,      \* which of the two stores the files are those of
    files,      \* what each file holds
    pc,         \* the next step of the call in progress
    body,       \* what is being saved or loaded
    answer,     \* what the last call returned
    expired,    \* the contents that are no longer usable
    crashes,    \* how often the console was switched off in a call
    failures,   \* how many calls of the file system have failed
    current     \* history: what a load may find, by the calls made so far

fs == <<files, failures>>

-----------------------------------------------------------------------------
(* The file system *)

Unchanged == UNCHANGED fs

\* A call that does what it is asked to
Becomes(new) == files' = new /\ UNCHANGED failures

\* A call that fails, and may have come as far as new
FailsAfter(new) ==
    /\ failures < MaxFailures
    /\ failures' = failures + 1
    /\ files' \in {files, new}

Fails == FailsAfter(files)

\* FSUSER_DeleteFile, whose result is never looked at
Delete(f) == Becomes([files EXCEPT ![f] = Absent]) \/ Fails

CanRename(from, to) == files[from] # Absent /\ files[to] = Absent

Renamed(from, to) == [files EXCEPT ![to] = files[from], ![from] = Absent]

\* FSUSER_RenameFile where its result is not looked at
TryRename(from, to) ==
    \/ CanRename(from, to) /\ Becomes(Renamed(from, to))
    \/ ~CanRename(from, to) /\ Unchanged
    \/ CanRename(from, to) /\ Fails

Readable(f) == files[f] \in Contents

\* The next step of the call
Then(step) ==
    /\ pc' = step
    /\ UNCHANGED <<body, answer, expired, crashes, current>>

Return(value, found) ==
    /\ pc' = "idle"
    /\ body' = None
    /\ answer' = value
    /\ current' = found
    /\ UNCHANGED <<expired, crashes>>

-----------------------------------------------------------------------------
(* save *)

StartSave(c) ==
    /\ pc' = "open"
    /\ body' = c
    /\ current' = current \cup {c}
    /\ UNCHANGED <<answer, expired, crashes>>

OpenTemporary ==
    LET emptied == [files EXCEPT !["temporary"] = Unreadable]
    IN  /\ pc = "open"
        /\ \/ Becomes(emptied) /\ Then("write")
           \/ FailsAfter(emptied) /\ Return("not_saved", current)

WriteTemporary ==
    /\ pc = "write"
    /\ \/ Becomes([files EXCEPT !["temporary"] = body]) /\ Then("drop_backup")
       \/ Fails /\ Then("drop_temporary")

DropTemporary ==
    /\ pc = "drop_temporary"
    /\ Delete("temporary")
    /\ Return("not_saved", current)

DropBackup ==
    /\ pc = "drop_backup"
    /\ Delete("backup")
    /\ Then("keep")

\* Fault: the old file is deleted where it should be kept as the backup.
KeepOld_Deleted ==
    /\ pc = "keep"
    /\ Delete("file")
    /\ Then("replace")

KeepOld ==
    /\ pc = "keep"
    /\ TryRename("file", "backup")
    /\ Then("replace")

\* Fault: the result of the renaming is not looked at.
Replace_Unchecked ==
    /\ pc = "replace"
    /\ TryRename("temporary", "file")
    /\ Then("cleanup")

Replace ==
    /\ pc = "replace"
    /\ \/ /\ CanRename("temporary", "file")
          /\ Becomes(Renamed("temporary", "file"))
          /\ Then("cleanup")
       \/ /\ IF CanRename("temporary", "file") THEN Fails ELSE Unchanged
          /\ Then("restore")

\* Only the avatar cache then deletes the temporary file.
Restore ==
    /\ pc = "restore"
    /\ TryRename("backup", "file")
    /\ IF store = "faces" THEN Then("drop_temporary") ELSE Return("not_saved", current)

Cleanup ==
    /\ pc = "cleanup"
    /\ Delete("backup")
    /\ Return("saved", {body})

SaveStep ==
    OpenTemporary \/ WriteTemporary \/ DropTemporary \/ DropBackup
        \/ KeepOld \/ Replace \/ Restore \/ Cleanup

-----------------------------------------------------------------------------
(* load *)

ReadAs(f, step, otherwise) ==
    \/ /\ Readable(f)
       /\ Unchanged
       /\ pc' = step
       /\ body' = files[f]
       /\ UNCHANGED <<answer, expired, crashes, current>>
    \/ (IF Readable(f) THEN Fails ELSE Unchanged) /\ otherwise

BeginLoad ==
    /\ Unchanged
    /\ Then("read")

Read ==
    /\ pc = "read"
    /\ ReadAs("file", "parse", Then("read_backup"))

\* What a failed read did not find may be found again.
NothingFound == Return(None, IF failures' = 0 THEN {None} ELSE current \cup {None})

=============================================================================
