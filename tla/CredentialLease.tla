-------------------------- MODULE CredentialLease --------------------------
(***************************************************************************)
(* What the console promises about the bearer credential, without saying   *)
(* how: the credential it works with is the one it has persisted, it is    *)
(* given out only while usable, a new one enters only when it is kept, and *)
(* giving one up for good takes it out of memory and storage together.     *)
(***************************************************************************)
EXTENDS CredentialBundle

CONSTANTS Credentials, Times

VARIABLES
    lease,   \* the credential the console is working with
    kept,    \* the credential a restart would find
    used,    \* the credential the last step put on the wire
    now

vars == <<lease, kept, used, now>>

Init ==
    /\ lease = None
    /\ kept \in Credentials \cup {None}
    /\ used = None
    /\ now \in Times

\* A step may use the lease it starts with, if that is still usable.
MayUse ==
    \/ used' = None
    \/ /\ lease # None
       /\ IsCredentialUsable(lease, now)
       /\ used' = lease

Grant(c) ==
    /\ IsCredentialUsable(c, now)
    /\ lease' = c
    /\ kept' = c

Recall ==
    /\ kept # None
    /\ IsCredentialUsable(kept, now)
    /\ lease' = kept
    /\ UNCHANGED kept

Suspend ==
    /\ lease' = None
    /\ UNCHANGED kept

Forget ==
    /\ lease' = None
    /\ kept' = None

Next ==
    \/ /\ MayUse
       /\ \/ \E c \in Credentials : Grant(c)
          \/ Recall
          \/ Suspend
          \/ Forget
          \/ UNCHANGED <<lease, kept>>
       /\ UNCHANGED now
    \/ /\ now' \in Times
       /\ used' = None
       /\ UNCHANGED <<lease, kept>>

Spec == Init /\ [][Next]_vars

=============================================================================
