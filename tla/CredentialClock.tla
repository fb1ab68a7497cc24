-------------------------- MODULE CredentialClock --------------------------
(***************************************************************************)
(* How the console learns when its credential ends although its clock may  *)
(* show local time.  bridge/credential_claim.cpp puts the bridge's epoch   *)
(* into the claim it issues; the console subtracts its own epoch when the  *)
(* claim arrives and keeps the difference with the credential.  The two    *)
(* clocks run at the same rate with any constant difference; the claim may *)
(* take any time, or be lost.                                              *)
(***************************************************************************)
EXTENDS CredentialBundle

CONSTANTS
    Bundle,     \* the credential the bridge was started with
    MaxTime     \* bound: the last reading of the bridge's clock

ASSUME ClockConstants ==
    /\ Bundle \in [token : ValidTokens, expires_at : Int64, clock_offset : {0}]
    /\ MaxTime \in 1 .. MaxInt

VARIABLES
    server,    \* the bridge's clock
    device,    \* the console's clock
    message,   \* the server_epoch of the claim under way
    held,      \* the credential the console keeps
    delay      \* history: how long the accepted claim was under way

vars == <<server, device, message, held, delay>>

Offsets == -MaxInt .. MaxInt

TypeOK ==
    /\ server \in 1 .. MaxTime
    /\ device \in Int64
    /\ message \in 1 .. MaxTime \cup {None}
    /\ held \in [token : ValidTokens, expires_at : Int64, clock_offset : Offsets]
                    \cup {None}
    /\ delay \in 0 .. MaxTime

Init ==
    /\ server \in 1 .. MaxTime
    /\ device \in Int64
    /\ message = None
    /\ held = None
    /\ delay = 0

Tick ==
    /\ server < MaxTime /\ device < MaxInt
    /\ server' = server + 1
    /\ device' = device + 1
    /\ UNCHANGED <<message, held, delay>>

\* serialize_claim_credential: an expired credential is not issued.
Issue ==
    /\ message = None
    /\ IsCredentialUsable(Bundle, server)
    /\ message' = server
    /\ UNCHANGED <<server, device, held, delay>>

Lose ==
    /\ message # None
    /\ message' = None
    /\ UNCHANGED <<server, device, held, delay>>

Received(epoch) ==
    [token |-> Bundle.token, expires_at |-> Bundle.expires_at,
     clock_offset |-> epoch - device]

\* parse_claim_credential: both epochs must be positive, and the credential
\* usable on the device's clock.
Accept ==
    /\ message # None
    /\ device > 0
    /\ IsCredentialUsable(Received(message), device)
    /\ held' = Received(message)
    /\ delay' = server - message
    /\ message' = None
    /\ UNCHANGED <<server, device>>

Discard ==
    /\ message # None
    /\ device <= 0 \/ ~IsCredentialUsable(Received(message), device)
    /\ message' = None
    /\ UNCHANGED <<server, device, held, delay>>

Next == Tick \/ Issue \/ Lose \/ Accept \/ Discard

Spec == Init /\ [][Next]_vars

-----------------------------------------------------------------------------
(* Properties *)

\* Whatever the difference between the clocks, the console treats its
\* credential as usable until the backend's expiry, late by exactly the time
\* the claim was under way and never early, and its expiry on the device's
\* clock is a value of its integer type: the guards reject every offset whose
\* subtraction would overflow (credential_bundle.cpp).
LifetimeFollowsServer ==
    held # None =>
        /\ DeviceExpiry(held) \in Int64
        /\ IsCredentialUsable(held, device) <=> server < Bundle.expires_at + delay

=============================================================================
