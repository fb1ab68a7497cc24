-------------------------------- MODULE SdCard --------------------------------
(***************************************************************************)
(* The two stores on the SD card.  They have different files, so that no   *)
(* step of one touches what is the other's: a behaviour is one of the      *)
(* credential store or one of the avatar cache.                            *)
(***************************************************************************)
EXTENDS SdCredentialStore, AvatarCacheStore

vars == <<store, fs, pc, body, answer, expired, crashes, current>>

TypeOK ==
    /\ store \in {"credential", "faces"}
    /\ files \in [File -> Contents \cup {Absent, Unreadable}]
    /\ pc \in {"idle", "open", "write", "drop_temporary", "drop_backup",
               "keep", "replace", "restore", "cleanup", "read", "read_backup",
               "drop_unreadable", "promote", "parse",
               "clear_credential", "clear_temporary", "clear_backup"}
    /\ body \in Contents \cup {None}
    /\ answer \in Contents \cup {None, "saved", "not_saved", "cleared"}
    /\ expired \subseteq Contents
    /\ crashes \in 0 .. MaxCrashes
    /\ failures \in 0 .. MaxFailures
    /\ current \subseteq Contents \cup {None}

Init ==
    /\ store \in {"credential", "faces"}
    /\ files = [f \in File |-> Absent]
    /\ pc = "idle"
    /\ body = None
    /\ answer = None
    /\ expired = {}
    /\ crashes = 0
    /\ failures = 0
    /\ current = {None}

Call ==
    /\ \/ SaveStep
       \/ Read
       \/ store = "credential" /\ CredentialStep
       \/ store = "faces" /\ FacesStep
    /\ UNCHANGED store

-----------------------------------------------------------------------------
(* The environment *)

\* The console is switched off in the middle of a call; the first call of the
\* next program is a load.
Crash ==
    /\ pc # "idle"
    /\ crashes < MaxCrashes
    /\ crashes' = crashes + 1
    /\ pc' = "read"
    /\ body' = None
    /\ answer' = None
    /\ UNCHANGED <<store, fs, expired, current>>

Expire ==
    /\ pc = "idle"
    /\ \E c \in Contents : expired' = expired \cup {c}
    /\ UNCHANGED <<store, fs, pc, body, answer, crashes, current>>

Next == Call \/ Crash \/ Expire

Spec == Init /\ [][Next]_vars

-----------------------------------------------------------------------------
(* Properties *)

\* A load returns what the last save or clear left, and after one that was cut
\* short, what was there before it or what it was to leave: switching the
\* console off once neither loses, mixes nor revives a credential or a cache.
\* Faces that are too old count as none.
LoadIsCurrent ==
    [][pc' = "idle" /\ pc \in {"read_backup", "parse"} /\ crashes <= 1 /\ failures' = 0
           => answer' \in current \/ (store = "faces" /\ body \in current \cap expired)]_vars

\* Once a session has been deleted, no file keeps a credential, whatever
\* interrupted saves had left, unless the card itself failed.
ClearLeavesNothing ==
    failures = 0 /\ pc = "idle" /\ answer = "cleared" =>
        \A f \in File : files[f] = Absent

\* While the card works, a saved credential that nobody cleared is at all times
\* in a file that a load would read, however often the console is switched off
\* in a save or in the repair of one; and one failing call does not lose it.
\* The cache, whose load repairs nothing, is in no such file for a while when it
\* is saved after a save that was cut short.
AlwaysACopy ==
    /\ None \notin current
    /\ failures = 0 \/ (failures = 1 /\ crashes = 0)
    /\ store = "faces" => crashes = 0
    => \E f \in {"file", "backup"} : files[f] \in current

\* A save that says it succeeded has put its content in place, whichever calls
\* of the file system failed before or during it.
SavedIsThere ==
    /\ answer = "saved" /\ pc = "idle" => files["file"] \in current
    /\ pc = "cleanup" => files["file"] = body

=============================================================================
