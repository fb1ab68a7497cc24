-------------------------- MODULE SdCredentialStore --------------------------
(***************************************************************************)
(* platform_3ds::SdCredentialStore: the bearer credential on the SD card.  *)
(* A load that finds only the backup puts it back in place, one that finds *)
(* an expired credential deletes everything, as a deleted session does.    *)
(***************************************************************************)
EXTENDS SdFile

\* The session calls nothing but clear after a save that failed.
MayCall == pc = "idle" /\ answer # "not_saved"

-----------------------------------------------------------------------------
(* save, load *)

SaveCredential ==
    /\ MayCall
    /\ Unchanged
    /\ \E c \in Contents :
           IF c \in expired THEN Return("not_saved", current) ELSE StartSave(c)

LoadCredential ==
    /\ MayCall
    /\ BeginLoad

ReadBackup ==
    /\ pc = "read_backup"
    /\ ReadAs("backup", "drop_unreadable", NothingFound)

DropUnreadable ==
    /\ pc = "drop_unreadable"
    /\ Delete("file")
    /\ Then("promote")

Promote ==
    /\ pc = "promote"
    /\ TryRename("backup", "file")
    /\ Then("parse")

\* An expired credential is cleared, and not returned.
ParseCredential ==
    /\ pc = "parse"
    /\ Unchanged
    /\ IF body \in expired
       THEN /\ pc' = "clear_credential"
            /\ current' = current \cup {None}
            /\ UNCHANGED <<body, answer, expired, crashes>>
       ELSE Return(body, {body})

-----------------------------------------------------------------------------
(* clear *)

BeginClear ==
    /\ pc = "idle"
    /\ Unchanged
    /\ pc' = "clear_credential"
    /\ current' = current \cup {None}
    /\ UNCHANGED <<body, answer, expired, crashes>>

\* Fault: the temporary file is forgotten.
ClearCredential_OnlyTwo ==
    /\ pc = "clear_credential"
    /\ Delete("file")
    /\ Then("clear_backup")

ClearCredential ==
    /\ pc = "clear_credential"
    /\ Delete("file")
    /\ Then("clear_temporary")

ClearTemporary ==
    /\ pc = "clear_temporary"
    /\ Delete("temporary")
    /\ Then("clear_backup")

\* load, if it is the caller, returns nothing.
ClearBackup ==
    /\ pc = "clear_backup"
    /\ Delete("backup")
    /\ Return(IF body = None THEN "cleared" ELSE None, {None})

CredentialStep ==
    \/ SaveCredential
    \/ LoadCredential \/ ReadBackup \/ DropUnreadable \/ Promote \/ ParseCredential
    \/ BeginClear \/ ClearCredential \/ ClearTemporary \/ ClearBackup

=============================================================================
