--------------------------- MODULE PairingSession ---------------------------
(***************************************************************************)
(* bridge::PairingSession: the one pending offer of the pairing bridge.    *)
(* Its methods are operators from the pending offer, what the caller       *)
(* passes and the clock to the pending offer they leave, so that a handler *)
(* can be one step however many of them it calls.                          *)
(*                                                                         *)
(* An offer's QR secret and its pairing code are drawn together and die    *)
(* together, and each is only compared with its own kind: both are the     *)
(* offer's id here.  Random material is never drawn twice.                 *)
(***************************************************************************)
EXTENDS Integers

CONSTANTS
    None,                   \* no pending offer
    MaximumLifetime,        \* kMaximumLifetime
    MaximumFailedAttempts   \* kMaximumFailedAttempts

ASSUME PairingConstants ==
    /\ MaximumLifetime \in Nat \ {0}
    /\ MaximumFailedAttempts \in Nat \ {0}
    /\ None \notin [id : Nat, expires_at : Int, failed_attempts : Nat]
    /\ None \notin [id : Nat, expires_at : Int]

\* create_offer's guards on its arguments; the port is bound by then
CanOffer(host_is_local, lifetime) ==
    host_is_local /\ 0 < lifetime /\ lifetime <= MaximumLifetime

Pending(id, t, lifetime) ==
    [id |-> id, expires_at |-> t + lifetime, failed_attempts |-> 0]

is_available(pending, t) == pending # None /\ t < pending.expires_at

\* what is_available leaves pending
Checked(pending, t) == IF is_available(pending, t) THEN pending ELSE None

\* whether consume returns true for the material of offer id
Matches(pending, id, t) == is_available(pending, t) /\ pending.id = id

\* Fault: the accepted offer stays pending.
Consumed_Reusable(pending, id, t) ==
    IF ~is_available(pending, t) THEN None
    ELSE IF pending.id = id THEN pending
    ELSE IF pending.failed_attempts + 1 >= MaximumFailedAttempts THEN None
    ELSE [pending EXCEPT !.failed_attempts = @ + 1]

\* what consume leaves pending
Consumed(pending, id, t) ==
    IF \/ ~is_available(pending, t)
       \/ pending.id = id
       \/ pending.failed_attempts + 1 >= MaximumFailedAttempts
    THEN None
    ELSE [pending EXCEPT !.failed_attempts = @ + 1]

=============================================================================
