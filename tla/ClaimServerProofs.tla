-------------------------- MODULE ClaimServerProofs --------------------------
(***************************************************************************)
(* Proofs about ClaimServer, for every clock, lifetime, limit and number   *)
(* of offers: its types, what its page shows, and that it implements       *)
(* OneTimeOffer.                                                           *)
(***************************************************************************)
EXTENDS ClaimServer, TLAPS

Pendings == [id : Ids, expires_at : Int, failed_attempts : 0 .. MaximumFailedAttempts - 1]

\* The operators of PairingSession keep a pending offer's type.
LEMMA PendingTypes ==
    /\ \A id \in Ids, t \in Int, span \in Int : Pending(id, t, span) \in Pendings
    /\ \A p \in Pendings \cup {None}, t \in Int :
          /\ Checked(p, t) \in Pendings \cup {None}
          /\ \A id \in 0 .. MaxOffers : Consumed(p, id, t) \in Pendings \cup {None}
<1>1. ASSUME NEW id \in Ids, NEW t \in Int, NEW span \in Int
      PROVE  Pending(id, t, span) \in Pendings
    BY PairingConstants DEF Pending, Pendings
<1>2. ASSUME NEW p \in Pendings \cup {None}, NEW t \in Int, NEW id \in 0 .. MaxOffers
      PROVE  Consumed(p, id, t) \in Pendings \cup {None}
  <2>1. CASE p = None
    BY <2>1 DEF Consumed, is_available
  <2>2. CASE p \in Pendings /\ p.failed_attempts + 1 >= MaximumFailedAttempts
    BY <2>2 DEF Consumed
  <2>3. CASE p \in Pendings /\ ~(p.failed_attempts + 1 >= MaximumFailedAttempts)
    <3>1. [p EXCEPT !.failed_attempts = @ + 1] \in Pendings
        BY <2>3, PairingConstants DEF Pendings
    <3> QED BY <3>1 DEF Consumed
  <2> QED BY <2>1, <2>2, <2>3
<1>3. ASSUME NEW p \in Pendings \cup {None}, NEW t \in Int
      PROVE  Checked(p, t) \in Pendings \cup {None}
    BY DEF Checked
<1> QED BY <1>1, <1>2, <1>3

\* The part of the types the renewals change.
OfferTypes ==
    /\ session \in Pendings \cup {None}
    /\ offer \in [id : Ids, expires_at : Int] \cup {None}
    /\ reset_token \in 0 .. MaxOffers
    /\ claimed \in BOOLEAN
    /\ claim_status \in Status
    /\ drawn \in 0 .. MaxOffers
    /\ split \in BOOLEAN

\* A renewal that succeeds, or fails half way, keeps the types.
LEMMA RenewTypes ==
    ASSUME TypeOK, NEW local, NEW span \in Int, NEW kept \in Pendings \cup {None},
           \/ RenewSucceeds(local, span)
           \/ RenewFails(local, span, kept)
    PROVE  OfferTypes'
<1>1. drawn < MaxOffers => drawn + 1 \in Ids
    BY ServerConstants DEF TypeOK, Ids
<1>2. now \in Int
    BY ServerConstants DEF TypeOK
<1>3. drawn < MaxOffers => Pending(drawn + 1, now, span) \in Pendings
    BY <1>1, <1>2, PendingTypes
<1>4. CASE RenewSucceeds(local, span)
  <2>1. session' \in Pendings /\ drawn' \in Ids /\ reset_token' \in Ids
    BY <1>1, <1>3, <1>4 DEF RenewSucceeds
  <2>2. now + span \in Int
    BY <1>2
  <2>3. offer' \in [id : Ids, expires_at : Int]
    BY <1>1, <1>4, <2>2 DEF RenewSucceeds
  <2>4. Ids \subseteq 0 .. MaxOffers
    BY ServerConstants DEF Ids
  <2> QED BY <1>4, <2>1, <2>3, <2>4 DEF RenewSucceeds, OfferTypes, Status
<1>5. CASE RenewFails(local, span, kept)
  <2>1. session' \in Pendings \cup {None} /\ drawn' \in 0 .. MaxOffers
    BY <1>1, <1>3, <1>5, ServerConstants DEF RenewFails, TypeOK
  <2>2. split' \in BOOLEAN
    BY <1>5, Zenon DEF RenewFails, TypeOK
  <2>3. UNCHANGED <<offer, reset_token, claimed, claim_status>>
    BY <1>5 DEF RenewFails
  <2> QED BY <2>1, <2>2, <2>3 DEF OfferTypes, TypeOK
<1> QED BY <1>4, <1>5

\* The answer between two requests.
LEMMA NoReply ==
    Reply("none", 0, FALSE, 0) \in Answer
BY ServerConstants DEF Reply, Answer

LEMMA TypeStep == TypeOK /\ [Next]_vars => TypeOK'
<1> SUFFICES ASSUME TypeOK, [Next]_vars PROVE TypeOK'
    OBVIOUS
<1> USE DEF config
<1>a. /\ now \in Int /\ lifetime \in Int /\ \A span \in Lifetimes : span \in Int
      /\ session \in Pendings \cup {None}
      /\ None \in Pendings \cup {None}
    BY ServerConstants DEF TypeOK, Pendings
<1>b. \A t \in Int : Checked(session, t) \in Pendings \cup {None}
    BY <1>a, PendingTypes
<1>c. drawn < MaxOffers => drawn + 1 \in 0 .. MaxOffers
    BY ServerConstants DEF TypeOK
<1>1. ASSUME NEW local \in BOOLEAN, NEW span \in Lifetimes, BeginPairing(local, span)
      PROVE  TypeOK'
  <2>1. OfferTypes'
    <3>1. CASE RenewSucceeds(local, span) \/ RenewFails(local, span, session)
        BY <3>1, <1>a, RenewTypes
    <3>2. CASE UNCHANGED <<session, offer, reset_token, claimed, claim_status, drawn, split>>
        BY <3>2 DEF TypeOK, OfferTypes, Pendings
    <3> QED BY <3>1, <3>2, <1>1 DEF BeginPairing
  <2>2. answer' \in Answer
    <3>1. Reply("begin", 0, FALSE, 0) \in Answer
        BY ServerConstants DEF Reply, Answer
    <3>2. RenewSucceeds(local, span) => Reply("begin", 0, TRUE, drawn + 1) \in Answer
        BY <1>c DEF RenewSucceeds, Reply, Answer
    <3> QED BY <3>1, <3>2, <1>1 DEF BeginPairing
  <2> QED BY <2>1, <2>2, <1>1 DEF BeginPairing, TypeOK, OfferTypes, Pendings
<1>2. CASE GetPage
  <2>1. OfferTypes'
    <3>1. CASE RenewSucceeds(advertised, lifetime) \/ RenewFails(advertised, lifetime, None)
        BY <3>1, <1>a, RenewTypes
    <3>2. CASE /\ session' = Checked(session, now) \/ UNCHANGED session
               /\ UNCHANGED <<offer, reset_token, claimed, claim_status, drawn, split>>
        BY <3>2, <1>a, <1>b DEF TypeOK, OfferTypes, Pendings
    <3> QED BY <3>1, <3>2, <1>2 DEF GetPage, PageNotStarted
  <2>2. answer' \in Answer
    <3>1. Reply("page", 503, FALSE, 0) \in Answer
        BY ServerConstants DEF Reply, Answer
    <3>2. offer # None => offer.id \in 0 .. MaxOffers
        BY DEF TypeOK, Ids
    <3>3. (is_available(session, now) /\ credential_usable) \in BOOLEAN
        BY DEF is_available, credential_usable
    <3>4. offer # None =>
              /\ Reply("page", 200, FALSE, offer.id) \in Answer
              /\ Reply("page", 200, is_available(session, now) /\ credential_usable, offer.id)
                     \in Answer
        BY <3>2, <3>3 DEF Reply, Answer
    <3>5. RenewSucceeds(advertised, lifetime) => Reply("page", 200, TRUE, drawn + 1) \in Answer
        BY <1>c DEF RenewSucceeds, Reply, Answer
    <3> QED BY <3>1, <3>4, <3>5, <1>2 DEF GetPage, PageNotStarted
  <2> QED BY <2>1, <2>2, <1>2 DEF GetPage, TypeOK, OfferTypes, Pendings
<1>3. CASE GetHealth
  <2>1. OfferTypes'
    BY <1>3, <1>a, <1>b DEF GetHealth, TypeOK, OfferTypes, Pendings
  <2>2. (is_available(session, now) /\ credential_usable) \in BOOLEAN
    BY DEF is_available, credential_usable
  <2>3. answer' \in Answer
    BY <1>3, <2>2, ServerConstants DEF GetHealth, Reply, Answer
  <2> QED BY <2>1, <2>3, <1>3 DEF GetHealth, TypeOK, OfferTypes, Pendings
<1>4. ASSUME NEW token, reset_pairing(token) PROVE TypeOK'
  <2>1. OfferTypes'
    <3>1. CASE RenewSucceeds(advertised, lifetime) \/ RenewFails(advertised, lifetime, session)
        BY <3>1, <1>a, RenewTypes
    <3>2. CASE UNCHANGED <<session, offer, reset_token, claimed, claim_status, drawn, split>>
        BY <3>2 DEF TypeOK, OfferTypes, Pendings
    <3> QED BY <3>1, <3>2, <1>4 DEF reset_pairing
  <2>2. answer' \in Answer
    <3>1. \/ answer' = Reply("reset", 403, FALSE, 0)
          \/ answer' = Reply("reset", 303, FALSE, 0)
          \/ answer' = Reply("reset", 410, FALSE, 0)
        BY <1>4, Zenon DEF reset_pairing
    <3>2. CASE answer' = Reply("reset", 403, FALSE, 0)
        BY <3>2, ServerConstants DEF Reply, Answer
    <3>3. CASE answer' = Reply("reset", 303, FALSE, 0)
        BY <3>3, ServerConstants DEF Reply, Answer
    <3>4. CASE answer' = Reply("reset", 410, FALSE, 0)
        BY <3>4, ServerConstants DEF Reply, Answer
    <3> QED BY <3>1, <3>2, <3>3, <3>4, Zenon
  <2> QED BY <2>1, <2>2, <1>4 DEF reset_pairing, TypeOK, OfferTypes, Pendings
<1>5. CASE MalformedClaim
  <2>1. answer' \in Answer
    BY <1>5, ServerConstants DEF MalformedClaim, Reply, Answer
  <2> QED BY <2>1, <1>5 DEF MalformedClaim, TypeOK, Status
<1>6. ASSUME NEW material \in 0 .. MaxOffers, claim(material) PROVE TypeOK'
  <2>1. Consumed(session, material, now) \in Pendings \cup {None}
    BY <1>a, PendingTypes
  <2>2. answer' \in Answer
    <3>1. \/ answer' = Reply("claim", 401, FALSE, 0)
          \/ answer' = Reply("claim", 410, FALSE, 0)
          \/ answer' = Reply("claim", 500, FALSE, 0)
          \/ answer' = Reply("claim", 200, TRUE, material)
        BY <1>6, Zenon DEF claim, ClaimTooLate, ClaimAfterExpiry, ClaimMismatch, ClaimMatch
    <3>2. CASE answer' = Reply("claim", 401, FALSE, 0)
        BY <3>2, ServerConstants DEF Reply, Answer
    <3>3. CASE answer' = Reply("claim", 410, FALSE, 0)
        BY <3>3, ServerConstants DEF Reply, Answer
    <3>4. CASE answer' = Reply("claim", 500, FALSE, 0)
        BY <3>4, ServerConstants DEF Reply, Answer
    <3>5. CASE answer' = Reply("claim", 200, TRUE, material)
        BY <3>5, ServerConstants DEF Reply, Answer
    <3> QED BY <3>1, <3>2, <3>3, <3>4, <3>5, Zenon
  <2>3. session' \in Pendings \cup {None}
    BY <2>1, <1>6 DEF claim, ClaimTooLate, ClaimAfterExpiry, ClaimMismatch, ClaimMatch
  <2>4. taken' \in [Ids -> Nat]
    <3>1. taken \in [Ids -> Nat]
        BY DEF TypeOK
    <3>2. CASE material \in Ids
      <4>1. [taken EXCEPT ![material] = @ + 1] \in [Ids -> Nat]
        BY <3>1, <3>2
      <4> QED BY <3>1, <4>1, <1>6
              DEF claim, ClaimTooLate, ClaimAfterExpiry, ClaimMismatch, ClaimMatch
    <3>3. CASE material \notin Ids
        BY <3>1, <3>3, <1>6
           DEF claim, ClaimTooLate, ClaimAfterExpiry, ClaimMismatch, ClaimMatch,
               Matches, TypeOK, is_available
    <3> QED BY <3>2, <3>3
  <2>5. claimed' \in BOOLEAN /\ claim_status' \in Status
    BY <1>6 DEF claim, ClaimTooLate, ClaimAfterExpiry, ClaimMismatch, ClaimMatch,
                TypeOK, Status
  <2> QED BY <2>2, <2>3, <2>4, <2>5, <1>6 DEF claim, TypeOK, Pendings
<1>7. CASE Listen \/ Start \/ Stop \/ SetClock
  <2>1. answer' \in Answer
    BY <1>7, NoReply DEF Listen, Start, Stop, SetClock, Reply
  <2>2. CASE Listen \/ Stop \/ SetClock
    BY <2>1, <2>2 DEF Listen, Stop, SetClock, TypeOK, Reply
  <2>3. CASE Start
    <3>1. 0 \in 0 .. MaxOffers
        BY ServerConstants
    <3>2. UNCHANGED <<now, drawn, taken>> /\ session' = None /\ offer' = None
        BY <2>3 DEF Start
    <3> QED BY <2>1, <2>3, <3>1, <3>2, Zenon DEF Start, TypeOK, Status
  <2> QED BY <1>7, <2>2, <2>3
<1>8. CASE UNCHANGED vars
    BY <1>8 DEF vars, TypeOK
<1> QED BY <1>1, <1>2, <1>3, <1>4, <1>5, <1>6, <1>7, <1>8 DEF Next, Handler

LEMMA TypeInit == Init => TypeOK
<1> SUFFICES ASSUME Init PROVE TypeOK
    OBVIOUS
<1>1. answer \in Answer
    BY NoReply DEF Init
<1>2. taken \in [Ids -> Nat]
    BY DEF Init
<1>3. claim_status \in Status
    BY DEF Init, Status
<1>4. drawn \in 0 .. MaxOffers /\ reset_token \in 0 .. MaxOffers
    BY ServerConstants DEF Init
<1> QED BY <1>1, <1>2, <1>3, <1>4, Zenon DEF Init, TypeOK

\* The server's variables keep their types, whatever requests arrive: the
\* counter of wrong guesses stays under the limit (PairingSession::consume).
THEOREM ServerTypeCorrect == Spec => []TypeOK
BY TypeInit, TypeStep, PTL DEF Spec

-----------------------------------------------------------------------------
(* The page and the session, unless a renewal failed half way *)

\* Material not yet drawn was not taken, and what is pending is on the page
\* and unclaimed: without the first, a new offer might be born claimed.
PageInv ==
    /\ \A id \in Ids : id > drawn => taken[id] = 0
    /\ session # None => session.id <= drawn
    /\ ~split /\ session # None =>
           /\ offer # None /\ ~claimed
           /\ session.id = offer.id /\ session.expires_at = offer.expires_at
    /\ offer # None => offer.id <= drawn
    /\ ~split /\ offer # None => (claimed <=> taken[offer.id] # 0)

\* A renewal keeps it, whichever way it ends.
LEMMA RenewKeepsPage ==
    ASSUME TypeOK, PageInv, NEW local, NEW span \in Int, NEW kept \in {session, None},
           \/ RenewSucceeds(local, span)
           \/ RenewFails(local, span, kept),
           UNCHANGED taken
    PROVE  PageInv'
<1>a. ASSUME drawn < MaxOffers, drawn' = drawn + 1
      PROVE  \A id \in Ids : id > drawn' => taken'[id] = 0
    BY <1>a, ServerConstants DEF PageInv, Ids, TypeOK
<1>1. CASE RenewSucceeds(local, span)
  <2>1. drawn \in 0 .. MaxOffers /\ drawn < MaxOffers /\ drawn' = drawn + 1
    BY <1>1 DEF RenewSucceeds, TypeOK
  <2>2. drawn + 1 \in Ids
    BY <2>1, ServerConstants DEF Ids
  <2>3. taken[drawn + 1] = 0
    BY <2>1, <2>2 DEF PageInv
  <2>4. /\ session'.id = drawn + 1 /\ session'.expires_at = now + span
        /\ offer'.id = drawn + 1 /\ offer'.expires_at = now + span
        /\ claimed' = FALSE
    BY <1>1 DEF RenewSucceeds, Pending
  <2>5. offer' \in [id : Nat, expires_at : Int]
    BY <1>1, <2>1, ServerConstants DEF RenewSucceeds, TypeOK
  <2>6. offer' # None
    BY <2>5, PairingConstants
  <2> QED BY <1>a, <2>1, <2>3, <2>4, <2>6 DEF PageInv
<1>2. CASE RenewFails(local, span, kept) /\ session' = kept /\ UNCHANGED <<drawn, split>>
    BY <1>2 DEF RenewFails, PageInv
<1>3. CASE /\ RenewFails(local, span, kept)
           /\ drawn < MaxOffers /\ drawn' = drawn + 1
           /\ session' = Pending(drawn + 1, now, span)
           /\ split' = TRUE
  <2>1. drawn \in Nat /\ drawn' = drawn + 1 /\ session'.id = drawn + 1
    BY <1>3, ServerConstants DEF Pending, TypeOK
  <2>2. offer # None => offer.id \in Int
    BY DEF TypeOK, Ids
  <2>3. UNCHANGED <<offer, claimed>>
    BY <1>3 DEF RenewFails
  <2> QED BY <1>3, <1>a, <2>1, <2>2, <2>3 DEF PageInv
<1> QED BY <1>1, <1>2, <1>3 DEF RenewFails

LEMMA PageStep == TypeOK /\ PageInv /\ [Next]_vars => PageInv'
<1> SUFFICES ASSUME TypeOK, PageInv, [Next]_vars PROVE PageInv'
    OBVIOUS
<1>a. lifetime \in Int /\ \A span \in Lifetimes : span \in Int
    BY ServerConstants DEF TypeOK
\* What only drops the pending offer, or leaves the variables alone, keeps it.
<1>b. ASSUME session' \in {session, None}, UNCHANGED <<offer, claimed, drawn, taken, split>>
      PROVE  PageInv'
    BY <1>b DEF PageInv
<1>1. ASSUME NEW local \in BOOLEAN, NEW span \in Lifetimes, BeginPairing(local, span)
      PROVE  PageInv'
  <2>1. UNCHANGED taken
    BY <1>1 DEF BeginPairing
  <2>2. CASE RenewSucceeds(local, span) \/ RenewFails(local, span, session)
    BY <2>1, <2>2, <1>a, RenewKeepsPage
  <2>3. CASE UNCHANGED <<session, offer, claimed, drawn, split>>
    BY <2>1, <2>3, <1>b
  <2> QED BY <2>2, <2>3, <1>1 DEF BeginPairing
<1>2. CASE GetPage
  <2>1. UNCHANGED taken
    BY <1>2 DEF GetPage
  <2>2. CASE RenewSucceeds(advertised, lifetime) \/ RenewFails(advertised, lifetime, None)
    BY <2>1, <2>2, <1>a, RenewKeepsPage
  <2>3. CASE /\ session' = Checked(session, now) \/ UNCHANGED session
             /\ UNCHANGED <<offer, claimed, drawn, split>>
    BY <2>1, <2>3, <1>b DEF Checked
  <2> QED BY <2>2, <2>3, <1>2 DEF GetPage, PageNotStarted
<1>3. CASE GetHealth
    BY <1>3, <1>b DEF GetHealth, Checked
<1>4. ASSUME NEW token, reset_pairing(token) PROVE PageInv'
  <2>1. UNCHANGED taken
    BY <1>4 DEF reset_pairing
  <2>2. CASE RenewSucceeds(advertised, lifetime) \/ RenewFails(advertised, lifetime, session)
    BY <2>1, <2>2, <1>a, RenewKeepsPage
  <2>3. CASE UNCHANGED <<session, offer, claimed, drawn, split>>
    BY <2>1, <2>3, <1>b
  <2> QED BY <2>2, <2>3, <1>4 DEF reset_pairing
<1>5. CASE MalformedClaim
    BY <1>5, <1>b DEF MalformedClaim
<1>6. ASSUME NEW material \in 0 .. MaxOffers, claim(material) PROVE PageInv'
  <2>1. UNCHANGED <<offer, drawn, split>>
    BY <1>6 DEF claim
  <2>2. CASE ClaimTooLate \/ ClaimAfterExpiry
    BY <2>1, <2>2, <1>b DEF ClaimTooLate, ClaimAfterExpiry
  <2>3. CASE ClaimMismatch(material)
    <3>1. \/ session' \in {session, None}
          \/ session' = [session EXCEPT !.failed_attempts = @ + 1]
        BY <2>3 DEF ClaimMismatch, Consumed
    <3>2. /\ session # None
          /\ UNCHANGED <<claimed, taken>>
        BY <2>3 DEF ClaimMismatch, is_available
    <3>3. session \in Pendings
        BY <3>2 DEF TypeOK, Pendings
    <3>4. session' # None => session'.id = session.id /\ session'.expires_at = session.expires_at
        BY <3>1, <3>3 DEF Pendings
    <3> QED BY <2>1, <3>2, <3>4 DEF PageInv
  <2>4. CASE ClaimMatch(material)
    <3>1. session # None /\ session.id = material /\ session' = None
        BY <2>4 DEF ClaimMatch, Matches, is_available, Consumed
    <3>2. material \in Ids
        BY <3>1 DEF TypeOK
    <3>3. CASE UNCHANGED <<claimed, taken>>
        BY <2>1, <3>1, <3>3, <1>b
    <3>4. CASE /\ claimed' = TRUE
               /\ taken' = [taken EXCEPT ![material] = @ + 1]
      <4>1. taken \in [Ids -> Nat]
        BY DEF TypeOK
      <4>2. /\ taken'[material] = taken[material] + 1
            /\ \A id \in Ids : id # material => taken'[id] = taken[id]
        BY <3>2, <3>4, <4>1
      <4>3. taken'[material] # 0
        BY <3>2, <4>1, <4>2
      <4> QED BY <2>1, <3>1, <3>2, <3>4, <4>2, <4>3 DEF PageInv, TypeOK
    <3> QED BY <2>4, <3>3, <3>4 DEF ClaimMatch
  <2> QED BY <2>2, <2>3, <2>4, <1>6 DEF claim
<1>7. CASE Start
    BY <1>7 DEF Start, PageInv
<1>8. CASE Listen \/ Stop \/ SetClock \/ UNCHANGED vars
    BY <1>8, <1>b DEF Listen, Stop, SetClock, vars
<1> QED BY <1>1, <1>2, <1>3, <1>4, <1>5, <1>6, <1>7, <1>8 DEF Next, Handler

THEOREM PageInvariant == Spec => []PageInv
<1>1. Init => PageInv
    BY DEF Init, PageInv
<1> QED BY <1>1, PageStep, ServerTypeCorrect, PTL DEF Spec

\* Unless a renewal failed half way, whatever can be claimed is what the page
\* shows, with its own deadline, and the page reports completion exactly for an
\* offer that was taken (renew_pairing_locked, claim, GET /).
THEOREM PageAlwaysTruthful == Spec => []PageIsTruthful
<1>1. PageInv => PageIsTruthful
  <2>1. PageInv /\ ~split => PageMatchesSession
    BY DEF PageInv, PageMatchesSession
  <2>2. PageInv /\ ~split => ClaimedIsTruthful
    BY DEF PageInv, ClaimedIsTruthful
  <2> QED BY <2>1, <2>2 DEF PageIsTruthful
<1> QED BY <1>1, PageInvariant, PTL

-----------------------------------------------------------------------------
(* The promise of OneTimeOffer *)

\* Every step of the server is a step of OneTimeOffer or changes none of its
\* variables.
LEMMA OfferStep == TypeOK /\ TypeOK' /\ [Next]_vars => [Offers!Next]_(Offers!vars)
<1> SUFFICES ASSUME TypeOK, TypeOK', [Next]_vars PROVE [Offers!Next]_(Offers!vars)
    OBVIOUS
<1> USE DEF Offers!vars
<1>a. ASSUME session' \in {session, None}, UNCHANGED <<drawn, taken, now>>
      PROVE  Offers!Withdraw \/ UNCHANGED Offers!vars
    BY <1>a DEF Offers!Withdraw
<1>b. ASSUME NEW local, NEW span \in Lifetimes \cup {0}, NEW kept \in {session, None},
             RenewSucceeds(local, span) \/ RenewFails(local, span, kept),
             UNCHANGED <<taken, now>>
      PROVE  Offers!Next \/ UNCHANGED Offers!vars
  <2>1. CASE /\ CanRenew(local, span) /\ drawn < MaxOffers /\ drawn' = drawn + 1
             /\ session' = Pending(drawn + 1, now, span)
    <3>1. span \in 1 .. MaximumLifetime
        BY <2>1, ServerConstants, PairingConstants DEF CanRenew, CanOffer
    <3>2. Offers!Issue
        BY <2>1, <3>1, <1>b DEF Offers!Issue, CanRenew, Pending, credential_usable
    <3> QED BY <3>2 DEF Offers!Next
  <2>2. CASE session' = kept /\ UNCHANGED drawn
    BY <2>2, <1>a, <1>b DEF Offers!Next
  <2> QED BY <2>1, <2>2, <1>b DEF RenewSucceeds, RenewFails
<1>1. ASSUME NEW local \in BOOLEAN, NEW span \in Lifetimes, BeginPairing(local, span)
      PROVE  Offers!Next \/ UNCHANGED Offers!vars
  <2>1. CASE RenewSucceeds(local, span) \/ RenewFails(local, span, session)
    BY <2>1, <1>1, <1>b DEF BeginPairing
  <2>2. CASE UNCHANGED <<session, drawn>>
    BY <2>2, <1>1 DEF BeginPairing
  <2> QED BY <2>1, <2>2, <1>1 DEF BeginPairing
<1>2. CASE GetPage
  <2>1. CASE RenewSucceeds(advertised, lifetime) \/ RenewFails(advertised, lifetime, None)
    BY <2>1, <1>2, <1>b DEF GetPage, TypeOK
  <2>2. CASE (session' = Checked(session, now) \/ UNCHANGED session) /\ UNCHANGED drawn
    BY <2>2, <1>2, <1>a DEF GetPage, Checked, Offers!Next
  <2> QED BY <2>1, <2>2, <1>2 DEF GetPage, PageNotStarted
<1>3. CASE GetHealth
    BY <1>3, <1>a DEF GetHealth, Checked, Offers!Next
<1>4. ASSUME NEW token, reset_pairing(token)
      PROVE  Offers!Next \/ UNCHANGED Offers!vars
  <2>1. CASE RenewSucceeds(advertised, lifetime) \/ RenewFails(advertised, lifetime, session)
    BY <2>1, <1>4, <1>b DEF reset_pairing, TypeOK
  <2>2. CASE UNCHANGED <<session, drawn>>
    BY <2>2, <1>4 DEF reset_pairing
  <2> QED BY <2>1, <2>2, <1>4 DEF reset_pairing
<1>5. CASE MalformedClaim
    BY <1>5 DEF MalformedClaim
<1>6. ASSUME NEW material \in 0 .. MaxOffers, claim(material)
      PROVE  Offers!Next \/ UNCHANGED Offers!vars
  <2>1. UNCHANGED <<drawn, now>>
    BY <1>6 DEF claim
  <2>2. CASE ClaimTooLate \/ ClaimAfterExpiry
    BY <2>1, <2>2, <1>a DEF ClaimTooLate, ClaimAfterExpiry, Offers!Next
  <2>3. CASE ClaimMismatch(material)
    <3>1. CASE session' = None
        BY <2>1, <2>3, <3>1, <1>a DEF ClaimMismatch, Offers!Next
    <3>2. CASE session' # None
      <4>1. /\ session # None /\ now < session.expires_at
            /\ ~(session.failed_attempts + 1 >= MaximumFailedAttempts)
            /\ session' = [session EXCEPT !.failed_attempts = @ + 1]
        BY <2>3, <3>2 DEF ClaimMismatch, Consumed, is_available, Matches
      <4>2. session.failed_attempts \in Int /\ MaximumFailedAttempts \in Int
        BY <4>1, PairingConstants DEF TypeOK
      <4>3. Offers!Guess
        BY <2>1, <2>3, <4>1, <4>2 DEF ClaimMismatch, Offers!Guess
      <4> QED BY <4>3 DEF Offers!Next
    <3> QED BY <3>1, <3>2
  <2>4. CASE ClaimMatch(material)
    <3>1. /\ session # None /\ now < session.expires_at
          /\ session.id = material /\ session' = None
        BY <2>4 DEF ClaimMatch, Matches, is_available, Consumed
    <3>2. CASE UNCHANGED taken
        BY <2>1, <3>1, <3>2, <1>a DEF Offers!Next
    <3>3. CASE taken' = [taken EXCEPT ![material] = @ + 1]
      <4>1. Offers!Take
        BY <2>1, <2>4, <3>1, <3>3 DEF ClaimMatch, Offers!Take, credential_usable
      <4> QED BY <4>1 DEF Offers!Next
    <3> QED BY <2>4, <3>2, <3>3 DEF ClaimMatch
  <2> QED BY <2>2, <2>3, <2>4, <1>6 DEF claim
<1>7. CASE Listen \/ Start \/ Stop
    BY <1>7, <1>a DEF Listen, Start, Stop, Offers!Next
<1>8. CASE SetClock
    BY <1>8, ServerConstants DEF SetClock, Offers!Next, Offers!SetClock, TypeOK
<1>9. CASE UNCHANGED vars
    BY <1>9 DEF vars
<1> QED BY <1>1, <1>2, <1>3, <1>4, <1>5, <1>6, <1>7, <1>8, <1>9 DEF Next, Handler

\* The server implements OneTimeOffer: what is pending is what can be taken.
THEOREM ServerKeepsOfferPromise == Spec => KeepsOfferPromise
<1>1. Init => Offers!Init
    BY ServerConstants DEF Init, Offers!Init, Ids
<1> QED BY <1>1, OfferStep, ServerTypeCorrect, PTL DEF Spec, KeepsOfferPromise, Offers!Spec

\* The live offer was drawn and not yet taken, and no offer that was not drawn
\* was taken.
OfferInv ==
    /\ drawn \in 0 .. MaxOffers
    /\ now \in Int
    /\ taken \in [1 .. MaxOffers -> 0 .. 1]
    /\ session # None =>
           /\ session \in [id : 1 .. drawn, expires_at : Int, failed_attempts : Nat]
           /\ taken[session.id] = 0
    /\ \A id \in 1 .. MaxOffers : id > drawn => taken[id] = 0

LEMMA OfferInvStep ==
    ASSUME OfferInv, [Offers!Next]_(Offers!vars)
    PROVE  OfferInv'
<1> USE ServerConstants
<1>1. CASE Offers!Issue
  <2>1. PICK span \in 1 .. MaximumLifetime :
            session' = [id |-> drawn + 1, expires_at |-> now + span, failed_attempts |-> 0]
      BY <1>1 DEF Offers!Issue
  <2>2. /\ session' \in [id : 1 .. drawn', expires_at : Int, failed_attempts : Nat]
        /\ session'.id = drawn + 1 /\ drawn + 1 \in 1 .. MaxOffers /\ drawn' = drawn + 1
      BY <1>1, <2>1 DEF Offers!Issue, OfferInv
  <2>3. UNCHANGED <<taken, now>> /\ taken[drawn + 1] = 0
      BY <1>1, <2>2 DEF Offers!Issue, OfferInv
  <2> QED BY <2>2, <2>3 DEF OfferInv
<1>2. CASE Offers!Withdraw
    BY <1>2 DEF Offers!Withdraw, OfferInv
<1>3. CASE Offers!Guess
  <2>1. /\ session'.id = session.id
        /\ session' \in [id : 1 .. drawn', expires_at : Int, failed_attempts : Nat]
      BY <1>3 DEF Offers!Guess, OfferInv
  <2> QED BY <1>3, <2>1 DEF Offers!Guess, OfferInv
<1>4. CASE Offers!Take
  <2>1. /\ session.id \in 1 .. MaxOffers /\ session.id <= drawn
        /\ taken[session.id] = 0
        /\ session' = None /\ drawn' = drawn /\ now' = now
        /\ taken' = [taken EXCEPT ![session.id] = @ + 1]
      BY <1>4 DEF Offers!Take, OfferInv
  <2>2. taken' \in [1 .. MaxOffers -> 0 .. 1]
      BY <2>1 DEF OfferInv
  <2>3. \A id \in 1 .. MaxOffers : id > drawn => taken'[id] = 0
      BY <2>1 DEF OfferInv
  <2> QED BY <2>1, <2>2, <2>3 DEF OfferInv
<1>5. CASE Offers!SetClock \/ UNCHANGED Offers!vars
    BY <1>5 DEF Offers!SetClock, Offers!vars, OfferInv
<1> QED BY <1>1, <1>2, <1>3, <1>4, <1>5 DEF Offers!Next

LEMMA OfferInvInductive == Offers!Spec => []OfferInv
<1>1. Offers!Init => OfferInv
    BY ServerConstants DEF Offers!Init, OfferInv
<1> QED BY <1>1, OfferInvStep, PTL DEF Offers!Spec

\* No offer hands out the credential twice, however it was replaced, guessed
\* at or withdrawn in between: it follows from the promise alone.
THEOREM OfferTakenOnce == Offers!Spec => []Offers!AtMostOnce
<1>1. OfferInv => Offers!AtMostOnce
    BY DEF OfferInv, Offers!AtMostOnce
<1> QED BY <1>1, OfferInvInductive, PTL

\* An offer was drawn, and can be taken no more.
Over(id) == id \in 1 .. drawn /\ (session = None \/ session.id # id)

\* What is live gives way to a later offer, or keeps its deadline and the wrong
\* guesses against it.
OnlyWears ==
    session # None /\ session' # None =>
        \/ session'.id > session.id
        \/ /\ session'.id = session.id
           /\ session'.expires_at = session.expires_at
           /\ session'.failed_attempts >= session.failed_attempts

LEMMA LiveStep ==
    ASSUME OfferInv, [Offers!Next]_(Offers!vars)
    PROVE  /\ OnlyWears
           /\ \A id \in 1 .. MaxOffers : Over(id) => Over(id)' /\ taken'[id] = taken[id]
<1> USE ServerConstants
<1>1. CASE Offers!Issue
  <2>1. PICK span \in 1 .. MaximumLifetime :
            session' = [id |-> drawn + 1, expires_at |-> now + span, failed_attempts |-> 0]
      BY <1>1 DEF Offers!Issue
  <2>2. session'.id = drawn + 1 /\ drawn' = drawn + 1 /\ taken' = taken /\ drawn \in Int
      BY <1>1, <2>1 DEF Offers!Issue, OfferInv
  <2> QED BY <2>2 DEF OfferInv, OnlyWears, Over
<1>2. CASE Offers!Withdraw
    BY <1>2 DEF Offers!Withdraw, OnlyWears, Over
<1>3. CASE Offers!Guess
  <2>1. /\ session'.id = session.id /\ session'.expires_at = session.expires_at
        /\ session'.failed_attempts >= session.failed_attempts
        /\ UNCHANGED <<taken, drawn>> /\ session # None
      BY <1>3 DEF Offers!Guess, OfferInv
  <2> QED BY <2>1 DEF OnlyWears, Over
<1>4. CASE Offers!Take
  <2>1. /\ session # None /\ session' = None /\ drawn' = drawn
        /\ taken' = [taken EXCEPT ![session.id] = @ + 1]
      BY <1>4 DEF Offers!Take
  <2> QED BY <2>1 DEF OfferInv, OnlyWears, Over
<1>5. CASE Offers!SetClock \/ UNCHANGED Offers!vars
  <2>1. UNCHANGED <<session, drawn, taken>>
      BY <1>5 DEF Offers!SetClock, Offers!vars
  <2> QED BY <2>1 DEF OfferInv, OnlyWears, Over
<1> QED BY <1>1, <1>2, <1>3, <1>4, <1>5 DEF Offers!Next

\* The server never makes an offer last longer, forgets no wrong guess, and an
\* offer that was replaced, withdrawn, run out or taken never comes back
\* (create_offer, consume, renew_pairing_locked), across restarts of the bridge
\* and whatever its clock does.
THEOREM OfferNeverReturns ==
    ASSUME NEW id \in 1 .. MaxOffers
    PROVE  Spec => /\ [][OnlyWears]_(Offers!vars)
                   /\ [](Over(id) => []Over(id) /\ [][taken'[id] = taken[id]]_(Offers!vars))
<1>1. OfferInv /\ [Offers!Next]_(Offers!vars) => [OnlyWears]_(Offers!vars)
    BY LiveStep
<1>2. OfferInv /\ [Offers!Next]_(Offers!vars) /\ Over(id) => Over(id)'
    BY LiveStep
<1>3. OfferInv /\ [Offers!Next]_(Offers!vars) /\ Over(id) =>
          [taken'[id] = taken[id]]_(Offers!vars)
    BY LiveStep
<1> QED
    BY <1>1, <1>2, <1>3, OfferInvInductive, ServerKeepsOfferPromise, PTL
       DEF KeepsOfferPromise, Offers!Spec

=============================================================================
