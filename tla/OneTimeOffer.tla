---------------------------- MODULE OneTimeOffer ----------------------------
(***************************************************************************)
(* What the pairing bridge promises about its offers, whatever its pages   *)
(* and handlers do: at any time at most one offer can be taken; an offer   *)
(* is taken at most once, before it expires, while the bearer credential   *)
(* it hands out is good, and after fewer wrong guesses than the limit; an  *)
(* offer that was replaced, taken or withdrawn never comes back.           *)
(***************************************************************************)
EXTENDS Integers

CONSTANTS
    NoOffer, MaximumLifetime, GuessLimit,
    CredentialExpiry,   \* when the credential the offers hand out expires
    MaxOffers           \* bound: the offers ever drawn

VARIABLES
    live,     \* the offer that can be taken: its id, deadline and wrong guesses
    drawn,    \* the number of offers drawn so far; their ids are 1 .. drawn
    taken,    \* how often each offer was taken
    now

vars == <<live, drawn, taken, now>>

Init ==
    /\ live = NoOffer
    /\ drawn = 0
    /\ taken = [id \in 1 .. MaxOffers |-> 0]
    /\ now \in Int

\* A new offer replaces whatever was live.
Issue ==
    /\ drawn < MaxOffers
    /\ drawn' = drawn + 1
    /\ \E span \in 1 .. MaximumLifetime :
           live' = [id |-> drawn + 1, expires_at |-> now + span, failed_attempts |-> 0]
    /\ now < CredentialExpiry
    /\ UNCHANGED <<taken, now>>

Withdraw ==
    /\ live' = NoOffer
    /\ UNCHANGED <<drawn, taken, now>>

Guess ==
    /\ live # NoOffer
    /\ now < live.expires_at
    /\ live.failed_attempts + 1 < GuessLimit
    /\ live' = [live EXCEPT !.failed_attempts = @ + 1]
    /\ UNCHANGED <<drawn, taken, now>>

Take ==
    /\ live # NoOffer
    /\ now < live.expires_at
    /\ now < CredentialExpiry
    /\ taken' = [taken EXCEPT ![live.id] = @ + 1]
    /\ live' = NoOffer
    /\ UNCHANGED <<drawn, now>>

SetClock ==
    /\ now' \in Int
    /\ UNCHANGED <<live, drawn, taken>>

Next == Issue \/ Withdraw \/ Guess \/ Take \/ SetClock

Spec == Init /\ [][Next]_vars

\* What the promise comes to: no offer hands out the credential twice.
AtMostOnce == \A id \in 1 .. MaxOffers : taken[id] <= 1

=============================================================================
