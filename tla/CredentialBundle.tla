------------------------- MODULE CredentialBundle -------------------------
(***************************************************************************)
(* The credential value that the bridge hands to the console and that the  *)
(* console keeps: a bearer token, the expiry the backend set and the       *)
(* offset between the server's clock and the device's clock.               *)
(* core/credential_bundle.cpp decides when such a value is usable, and     *)
(* platform/credential.cpp classifies it.  The times are std::int64_t in   *)
(* the code; their range is a parameter here, so that TLC can reach the    *)
(* ends of it.                                                             *)
(***************************************************************************)
EXTENDS Integers

CONSTANTS
    MinInt, MaxInt,   \* the range of std::int64_t
    ValidTokens,      \* tokens that are not empty, not too long, printable
    None              \* std::nullopt, and a null pointer

ASSUME IntWidth == MaxInt \in Nat \ {0} /\ MinInt = -MaxInt - 1
ASSUME NoneIsNoInteger == None \notin Int

Int64 == MinInt .. MaxInt

\* Fault: only one end of the range is guarded.
OffsetGuardRejects_OneEnd(c) ==
    c.clock_offset > 0 /\ c.expires_at < MinInt + c.clock_offset

(***************************************************************************)
(* credential_device_expiry_epoch_seconds: the expiry on the device's      *)
(* clock.  The two guards exist because expires_at - clock_offset is a     *)
(* signed subtraction, undefined when it leaves the range.                 *)
(***************************************************************************)
OffsetGuardRejects(c) ==
    \/ c.clock_offset > 0 /\ c.expires_at < MinInt + c.clock_offset
    \/ c.clock_offset < 0 /\ c.expires_at > MaxInt + c.clock_offset

DeviceExpiry(c) ==
    IF OffsetGuardRejects(c) THEN None ELSE c.expires_at - c.clock_offset

IsCredentialUsable(c, now) ==
    /\ c.token \in ValidTokens
    /\ DeviceExpiry(c) # None
    /\ DeviceExpiry(c) > now

\* CredentialPolicy::evaluate
Evaluate(c, now) ==
    IF c.token \notin ValidTokens \/ c.expires_at <= 0 THEN "invalid"
    ELSE IF IsCredentialUsable(c, now) THEN "usable"
    ELSE "expired"

=============================================================================
