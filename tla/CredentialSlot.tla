---------------------------- MODULE CredentialSlot ----------------------------
(***************************************************************************)
(* What the credential store promises while the card works, however often  *)
(* the console is switched off: a slot with one credential in it, which    *)
(* changes at once and only for a call that asks for it, and is what a     *)
(* load returns.  Behind it may lie the credential that a save replaced,   *)
(* if the save was cut short; a deletion uncovers it before it deletes it  *)
(* as well, so that one which is cut short in turn leaves that.            *)
(***************************************************************************)
CONSTANTS
    Contents,   \* the credentials
    None        \* no credential

VARIABLES
    kept,       \* the credential in the slot
    older,      \* the one it replaced
    saving,     \* the credential that is being saved
    clearing,   \* whether a deletion is under way
    answer      \* what the last call returned

vars == <<kept, older, saving, clearing, answer>>

Init ==
    /\ kept = None
    /\ older = None
    /\ saving = None
    /\ clearing = FALSE
    /\ answer = None

Idle == saving = None /\ ~clearing

Load ==
    /\ Idle
    /\ answer' = kept
    /\ UNCHANGED <<kept, older, saving, clearing>>

\* An expired credential is not saved.
Refuse ==
    /\ Idle
    /\ answer' = "not_saved"
    /\ UNCHANGED <<kept, older, saving, clearing>>

BeginSave ==
    /\ Idle
    /\ saving' \in Contents
    /\ UNCHANGED <<kept, older, clearing, answer>>

Replace ==
    /\ saving # None
    /\ kept' = saving
    /\ older' = kept
    /\ UNCHANGED <<saving, clearing, answer>>

DropOlder ==
    /\ saving # None
    /\ older' = None
    /\ UNCHANGED <<kept, saving, clearing, answer>>

EndSave ==
    /\ saving # None
    /\ kept = saving
    /\ saving' = None
    /\ older' = None
    /\ answer' = "saved"
    /\ UNCHANGED <<kept, clearing>>

\* Asked for, or by a load that finds an expired credential
BeginClear ==
    /\ Idle
    /\ clearing' = TRUE
    /\ UNCHANGED <<kept, older, saving, answer>>

Uncover ==
    /\ clearing
    /\ kept' = older
    /\ older' = None
    /\ UNCHANGED <<saving, clearing, answer>>

EndClear ==
    /\ clearing
    /\ kept' = None
    /\ older' = None
    /\ clearing' = FALSE
    /\ answer' \in {"cleared", None}
    /\ UNCHANGED saving

SwitchOff ==
    /\ saving' = None
    /\ clearing' = FALSE
    /\ answer' = None
    /\ UNCHANGED <<kept, older>>

Next ==
    \/ Load \/ Refuse
    \/ BeginSave \/ Replace \/ DropOlder \/ EndSave
    \/ BeginClear \/ Uncover \/ EndClear
    \/ SwitchOff

Spec == Init /\ [][Next]_vars

=============================================================================
