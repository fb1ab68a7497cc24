---------------------------- MODULE ClaimServer -----------------------------
(***************************************************************************)
(* bridge_host::CredentialClaimServer: the bridge process that holds the   *)
(* bearer credential, shows one pairing offer on a browser page and hands  *)
(* the credential to whoever presents the offer's secret or code.          *)
(*                                                                         *)
(* Every handler runs under the server's one mutex from its first read of  *)
(* the state to its last write, so a handler is one action; what the order *)
(* of requests is, and what they carry, is the environment's choice.  The  *)
(* host's clock may be set either way between two requests.                *)
(***************************************************************************)
EXTENDS PairingSession

CONSTANTS
    CredentialExpiry,   \* expires_at of the configured credential
    Times,              \* the readings of the host's clock
    Lifetimes,          \* what begin_pairing is asked for
    MaxOffers           \* bound: the offers drawn, over all restarts

ASSUME ServerConstants ==
    /\ CredentialExpiry \in Int
    /\ Times \subseteq Int
    /\ Lifetimes \subseteq Int
    /\ MaxOffers \in Nat \ {0}

VARIABLES
    running,           \* whether the process is up
    bound,             \* whether bound_port_ is set
    session,           \* session_'s pending offer
    offer,             \* offer_: what the page shows
    reset_token,       \* reset_token_, 0 while empty
    claimed,           \* offer_claimed_
    claim_status,      \* claim_status_
    advertised,        \* whether advertised_host_ is a local IPv4 address
    lifetime,          \* pairing_lifetime_
    now,               \* the host's clock
    drawn,             \* the number of offers drawn so far
    taken,             \* history: how often each offer handed out the credential
    split,             \* history: a renewal failed after it had drawn an offer
    answer             \* the last handler's response

config == <<advertised, lifetime>>
vars == <<running, bound, session, offer, reset_token, claimed, claim_status,
          config, now, drawn, taken, split, answer>>

Ids == 1 .. MaxOffers
Status == {"not_started", "ready", "invalid_request", "unavailable",
           "credential_expired", "rejected", "protection_failed", "completed"}
Answer == [op : {"none", "begin", "page", "health", "reset", "claim"},
           status : {0, 200, 303, 400, 401, 403, 410, 500, 503},
           available : BOOLEAN, offer : 0 .. MaxOffers]

Reply(op, status, available, id) ==
    [op |-> op, status |-> status, available |-> available, offer |-> id]

TypeOK ==
    /\ running \in BOOLEAN
    /\ bound \in BOOLEAN
    /\ session \in [id : Ids, expires_at : Int,
                    failed_attempts : 0 .. MaximumFailedAttempts - 1] \cup {None}
    /\ offer \in [id : Ids, expires_at : Int] \cup {None}
    /\ reset_token \in 0 .. MaxOffers
    /\ claimed \in BOOLEAN
    /\ claim_status \in Status
    /\ advertised \in BOOLEAN
    /\ lifetime \in Lifetimes \cup {0}
    /\ now \in Times
    /\ drawn \in 0 .. MaxOffers
    /\ taken \in [Ids -> Nat]
    /\ split \in BOOLEAN
    /\ answer \in Answer

Init ==
    /\ running = FALSE
    /\ bound = FALSE
    /\ session = None
    /\ offer = None
    /\ reset_token = 0
    /\ claimed = FALSE
    /\ claim_status = "not_started"
    /\ advertised = FALSE
    /\ lifetime = 0
    /\ now \in Times
    /\ drawn = 0
    /\ taken = [id \in Ids |-> 0]
    /\ split = FALSE
    /\ answer = Reply("none", 0, FALSE, 0)

\* is_credential_usable: the credential file carries no clock offset.
credential_usable == now < CredentialExpiry

-----------------------------------------------------------------------------
(* renew_pairing_locked, with advertised_host_ and pairing_lifetime_ as the *)
(* caller left them and kept the pending offer its checks left behind       *)

CanRenew(local, span) == credential_usable /\ CanOffer(local, span)

\* Fault: the mark of a claimed offer passes to the next one.
RenewSucceeds_StaysClaimed(local, span) ==
    /\ CanRenew(local, span)
    /\ drawn < MaxOffers
    /\ drawn' = drawn + 1
    /\ session' = Pending(drawn + 1, now, span)
    /\ offer' = [id |-> drawn + 1, expires_at |-> now + span]
    /\ reset_token' = drawn + 1
    /\ claim_status' = "ready"
    /\ split' = FALSE
    /\ UNCHANGED claimed

RenewSucceeds(local, span) ==
    /\ CanRenew(local, span)
    /\ drawn < MaxOffers
    /\ drawn' = drawn + 1
    /\ session' = Pending(drawn + 1, now, span)
    /\ offer' = [id |-> drawn + 1, expires_at |-> now + span]
    /\ reset_token' = drawn + 1
    /\ claimed' = FALSE
    /\ claim_status' = "ready"
    /\ split' = FALSE

\* The offer could not be drawn, or it could but not its reset token: by then
\* the pending offer has been replaced.
RenewFails(local, span, kept) ==
    /\ \/ /\ session' = kept
          /\ UNCHANGED <<drawn, split>>
       \/ /\ CanRenew(local, span)
          /\ drawn < MaxOffers
          /\ drawn' = drawn + 1
          /\ session' = Pending(drawn + 1, now, span)
          /\ split' = TRUE
    /\ UNCHANGED <<offer, reset_token, claimed, claim_status>>

-----------------------------------------------------------------------------
(* The handlers *)

BeginPairing(local, span) ==
    /\ running
    /\ \/ /\ ~bound                       \* the address could not be bound
          /\ answer' = Reply("begin", 0, FALSE, 0)
          /\ UNCHANGED <<bound, session, offer, reset_token, claimed,
                         claim_status, config, drawn, split>>
       \/ /\ bound' = TRUE
          /\ ~credential_usable
          /\ answer' = Reply("begin", 0, FALSE, 0)
          /\ UNCHANGED <<session, offer, reset_token, claimed, claim_status,
                         config, drawn, split>>
       \/ /\ bound' = TRUE
          /\ credential_usable
          /\ advertised' = local
          /\ lifetime' = span
          /\ \/ /\ RenewSucceeds(local, span)
                /\ answer' = Reply("begin", 0, TRUE, drawn + 1)
             \/ /\ RenewFails(local, span, session)
                /\ answer' = Reply("begin", 0, FALSE, 0)
    /\ UNCHANGED <<running, now, taken>>

\* Get("/") before begin_pairing
PageNotStarted ==
    /\ offer = None
    /\ answer' = Reply("page", 503, FALSE, 0)
    /\ UNCHANGED <<session, offer, reset_token, claimed, claim_status, drawn, split>>

\* Fault: the last second of an offer counts as part of its time.
NeedsRotation_OneLate ==
    /\ ~is_available(session, now) /\ ~claimed /\ credential_usable
    /\ now > offer.expires_at

\* An offer nobody took is rotated once its time is over.
NeedsRotation ==
    /\ ~is_available(session, now) /\ ~claimed /\ credential_usable
    /\ now >= offer.expires_at

\* Get("/")
GetPage ==
    /\ running /\ bound
    /\ \/ PageNotStarted
       \/ /\ offer # None
          /\ ~NeedsRotation
          /\ session' = Checked(session, now)
          /\ answer' = Reply("page", 200,
                             is_available(session, now) /\ credential_usable, offer.id)
          /\ UNCHANGED <<offer, reset_token, claimed, claim_status, drawn, split>>
       \/ /\ offer # None
          /\ NeedsRotation
          /\ \/ /\ RenewSucceeds(advertised, lifetime)
                /\ answer' = Reply("page", 200, TRUE, drawn + 1)
             \/ /\ RenewFails(advertised, lifetime, None)
                /\ answer' = Reply("page", 200, FALSE, offer.id)
    /\ UNCHANGED <<running, bound, config, now, taken>>

\* Get("/health")
GetHealth ==
    /\ running /\ bound
    /\ session' = Checked(session, now)
    /\ answer' = Reply("health", 200, is_available(session, now) /\ credential_usable, 0)
    /\ UNCHANGED <<running, bound, offer, reset_token, claimed, claim_status,
                   config, now, drawn, split, taken>>

\* Post("/reset"); token is None when the form carries no csrf_token
reset_pairing(token) ==
    /\ running /\ bound
    /\ \/ /\ token # reset_token
          /\ answer' = Reply("reset", 403, FALSE, 0)
          /\ UNCHANGED <<session, offer, reset_token, claimed, claim_status, drawn, split>>
       \/ /\ token = reset_token
          /\ \/ /\ RenewSucceeds(advertised, lifetime)
                /\ answer' = Reply("reset", 303, FALSE, 0)
             \/ /\ RenewFails(advertised, lifetime, session)
                /\ answer' = Reply("reset", 410, FALSE, 0)
    /\ UNCHANGED <<running, bound, config, now, taken>>

\* Post("/v2/claim") with a body that is not a claim
MalformedClaim ==
    /\ running /\ bound
    /\ claim_status' = "invalid_request"
    /\ answer' = Reply("claim", 400, FALSE, 0)
    /\ UNCHANGED <<running, bound, session, offer, reset_token, claimed,
                   config, now, drawn, split, taken>>

ClaimTooLate ==
    /\ ~is_available(session, now)
    /\ session' = None
    /\ claim_status' = "unavailable"
    /\ answer' = Reply("claim", 401, FALSE, 0)
    /\ UNCHANGED <<claimed, taken>>

ClaimAfterExpiry ==
    /\ is_available(session, now)
    /\ ~credential_usable
    /\ session' = None
    /\ claim_status' = "credential_expired"
    /\ answer' = Reply("claim", 410, FALSE, 0)
    /\ UNCHANGED <<claimed, taken>>

ClaimMismatch(material) ==
    /\ is_available(session, now)
    /\ credential_usable
    /\ ~Matches(session, material, now)
    /\ session' = Consumed(session, material, now)
    /\ claim_status' = "rejected"
    /\ answer' = Reply("claim", 401, FALSE, 0)
    /\ UNCHANGED <<claimed, taken>>

\* The offer is spent, and then the credential may turn out not to be
\* protectable: no randomness, encryption or serialization failed.
ClaimMatch(material) ==
    /\ credential_usable
    /\ Matches(session, material, now)
    /\ session' = Consumed(session, material, now)
    /\ \/ /\ claim_status' = "protection_failed"
          /\ answer' = Reply("claim", 500, FALSE, 0)
          /\ UNCHANGED <<claimed, taken>>
       \/ /\ claim_status' = "completed"
          /\ claimed' = TRUE
          /\ taken' = [taken EXCEPT ![material] = @ + 1]
          /\ answer' = Reply("claim", 200, TRUE, material)

\* Post("/v2/claim") with the material of an offer, or with material of none
claim(material) ==
    /\ running /\ bound
    /\ ClaimTooLate \/ ClaimAfterExpiry \/ ClaimMismatch(material) \/ ClaimMatch(material)
    /\ UNCHANGED <<running, bound, offer, reset_token, config, now, drawn, split>>

-----------------------------------------------------------------------------
(* The process and its clock *)

\* listen binds the address unless begin_pairing did.
Listen ==
    /\ running /\ ~bound
    /\ bound' = TRUE
    /\ answer' = Reply("none", 0, FALSE, 0)
    /\ UNCHANGED <<running, session, offer, reset_token, claimed, claim_status,
                   config, now, drawn, split, taken>>

\* main constructs the server, which throws unless the credential is usable.
Start ==
    /\ ~running
    /\ credential_usable
    /\ running' = TRUE
    /\ bound' = FALSE
    /\ session' = None
    /\ offer' = None
    /\ reset_token' = 0
    /\ claimed' = FALSE
    /\ claim_status' = "not_started"
    /\ advertised' = FALSE
    /\ lifetime' = 0
    /\ split' = FALSE
    /\ answer' = Reply("none", 0, FALSE, 0)
    /\ UNCHANGED <<now, drawn, taken>>

\* The process ends, orderly or not; the destructor invalidates the offer.
Stop ==
    /\ running
    /\ running' = FALSE
    /\ session' = None
    /\ answer' = Reply("none", 0, FALSE, 0)
    /\ UNCHANGED <<bound, offer, reset_token, claimed, claim_status, config,
                   now, drawn, split, taken>>

SetClock ==
    /\ now' \in Times
    /\ answer' = Reply("none", 0, FALSE, 0)
    /\ UNCHANGED <<running, bound, session, offer, reset_token, claimed,
                   claim_status, config, drawn, split, taken>>

Handler ==
    \/ \E local \in BOOLEAN, span \in Lifetimes : BeginPairing(local, span)
    \/ GetPage
    \/ GetHealth
    \/ \E token \in 0 .. MaxOffers \cup {None} : reset_pairing(token)
    \/ MalformedClaim
    \/ \E material \in 0 .. MaxOffers : claim(material)

Next == Handler \/ Listen \/ Start \/ Stop \/ SetClock

Spec == Init /\ [][Next]_vars

\* The status page reloads itself every second, and the random source does not
\* fail for ever.
WatchedSpec == Spec /\ WF_vars(GetPage) /\ WF_vars(GetPage /\ drawn' # drawn)

-----------------------------------------------------------------------------
(* Properties *)

\* "WHEN the bridge creates an active pairing offer THEN the operator can view
\* its QR and pairing code in the browser status page": a page that offers
\* pairing shows material the session accepts (GET /, renew_pairing_locked).
PageShowsTheOffer ==
    answer.op = "page" /\ answer.available =>
        session # None /\ session.id = answer.offer

\* What can be claimed is what the page shows, with the deadline it counts down
\* to: no renewal, manual or automatic, leaves the two apart.
PageMatchesSession ==
    session # None =>
        offer # None /\ session.id = offer.id /\ session.expires_at = offer.expires_at

\* Completion is reported exactly for an offer that handed out the credential,
\* and such an offer is not pending any more.
ClaimedIsTruthful ==
    offer # None =>
        /\ claimed <=> taken[offer.id] # 0
        /\ claimed => session = None

\* Unless a renewal failed half way, the page tells the truth about the offer
\* it shows: that it can be taken, and that it was taken; and the next renewal
\* that succeeds restores the truth (renew_pairing_locked, claim, GET /).
PageIsTruthful == ~split => PageMatchesSession /\ ClaimedIsTruthful

\* The bridge keeps the promise of OneTimeOffer: an offer is taken at most
\* once, in time, under the guess limit, and never again once it was replaced,
\* also across failed renewals, clock changes and restarts.
Offers == INSTANCE OneTimeOffer
              WITH live <- session, NoOffer <- None,
                   GuessLimit <- MaximumFailedAttempts
KeepsOfferPromise == Offers!Spec

\* While its page is open and the credential is good, an offer whose time is
\* over does not stay on show: it was claimed, or another takes its place.
ExpiredOfferOnShow ==
    /\ running /\ bound /\ offer # None /\ ~claimed /\ ~split
    /\ credential_usable /\ now >= offer.expires_at
    /\ CanOffer(advertised, lifetime) /\ drawn < MaxOffers
ExpiredOfferRotates == ExpiredOfferOnShow ~> ~ExpiredOfferOnShow

=============================================================================
