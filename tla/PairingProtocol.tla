--------------------------- MODULE PairingProtocol ---------------------------
(***************************************************************************)
(* Pairing from both ends: the bridge with its pending offer, several      *)
(* consoles whose BridgeClaimSource sends one request each time they claim,*)
(* and the network between them.  A console waits ten seconds for the      *)
(* answer and then gives up; its request may arrive all the same.  Either  *)
(* message may be lost.                                                    *)
(*                                                                         *)
(* What a claim does to the clocks and to the credential of one console,   *)
(* Mine, is CredentialClock's, whose actions are conjoined here.           *)
(***************************************************************************)
EXTENDS CredentialClock

CONSTANTS
    Consoles, Mine,
    MaximumLifetime, MaximumFailedAttempts,
    Lifetime,      \* the lifetime the bridge gives its offers
    MaxOffers,     \* bound: the offers drawn
    MaxPolls       \* bound: the claims of all consoles

ASSUME ProtocolConstants ==
    /\ Mine \in Consoles
    /\ Lifetime \in 1 .. MaximumLifetime
    /\ {MaximumFailedAttempts, MaxOffers, MaxPolls} \subseteq Nat \ {0}

INSTANCE PairingSession

VARIABLES
    pending,   \* session_'s pending offer
    drawn,     \* the number of offers drawn so far
    polls,     \* the claims, numbered in the order in which they were begun
    spentOn    \* history: the claims each offer was consumed for

bridge == <<pending, drawn, spentOn>>
protocolVars == <<vars, bridge, polls>>

Ids == 1 .. MaxOffers
PollIds == 1 .. MaxPolls

\* 0 is material of no offer.  A request is sent until it arrives or is lost;
\* code is the status of the answer under way, 0 if there is none.
Polls ==
    [console : Consoles, material : 0 .. MaxOffers, request : {"sent", "gone"},
     code : {0, 200, 401, 410, 500},
     outcome : {"pending", "accepted", "rejected", "unavailable", "invalid_response"}]

ASSUME NoneIsNoClaim == None \notin Polls

ProtocolTypeOK ==
    /\ TypeOK
    /\ pending \in [id : Ids, expires_at : Int,
                    failed_attempts : 0 .. MaximumFailedAttempts - 1] \cup {None}
    /\ drawn \in 0 .. MaxOffers
    /\ polls \in [PollIds -> Polls \cup {None}]
    /\ spentOn \in [Ids -> SUBSET PollIds]

ProtocolInit ==
    /\ Init
    /\ pending = None
    /\ drawn = 0
    /\ polls = [i \in PollIds |-> None]
    /\ spentOn = [o \in Ids |-> {}]

Begun(i) == polls[i] # None

Waiting(i) == Begun(i) /\ polls[i].outcome = "pending"

-----------------------------------------------------------------------------
(* BridgeClaimSource *)

\* poll draws its key pair and sends the request, or fails before it is sent.
\* The material is that of any offer so far, or of none.
Poll(i, c) ==
    /\ ~Begun(i)
    /\ \A j \in 1 .. i - 1 : Begun(j)
    /\ \A j \in PollIds : Waiting(j) => polls[j].console # c
    /\ \E material \in 0 .. drawn, request \in {"sent", "gone"} :
           polls' = [polls EXCEPT ![i] =
               [console |-> c, material |-> material, request |-> request, code |-> 0,
                outcome |-> IF request = "sent" THEN "pending" ELSE "unavailable"]]
    /\ UNCHANGED <<vars, bridge>>

Ends(i, outcome) ==
    polls' = [polls EXCEPT ![i] = [@ EXCEPT !.outcome = outcome, !.code = 0]]

\* Fault: every answer but 200 is taken for a refusal.
Refused_NoCredential(i) == polls[i].code \notin {0, 200}

Refused(i) == polls[i].code = 401

\* poll's verdict on an answer without a credential
PollRefused(i) ==
    /\ Waiting(i) /\ polls[i].code \notin {0, 200}
    /\ Ends(i, IF Refused(i) THEN "rejected" ELSE "unavailable")
    /\ UNCHANGED <<vars, bridge>>

\* poll's verdict on an answer with one, after decryption
PollAnswered(i) ==
    /\ Waiting(i) /\ polls[i].code = 200
    /\ IF polls[i].console = Mine
       THEN \/ Accept /\ Ends(i, "accepted")
            \/ Discard /\ Ends(i, "invalid_response")
       ELSE /\ \E outcome \in {"accepted", "invalid_response"} : Ends(i, outcome)
            /\ UNCHANGED vars
    /\ UNCHANGED bridge

\* request_claim runs into its timeout, or an answer cannot be read.
PollFails(i) ==
    /\ Waiting(i)
    /\ Ends(i, "unavailable")
    /\ IF polls[i].console = Mine /\ message # None THEN Lose ELSE UNCHANGED vars
    /\ UNCHANGED bridge

\* The request never arrives.
LoseRequest(i) ==
    /\ Begun(i) /\ polls[i].request = "sent"
    /\ polls' = [polls EXCEPT ![i].request = "gone"]
    /\ UNCHANGED <<vars, bridge>>

-----------------------------------------------------------------------------
(* The bridge *)

\* An offer is drawn when the bridge starts, when the last one has run out on
\* the page, or on the operator's demand.
Renew ==
    /\ drawn < MaxOffers
    /\ IsCredentialUsable(Bundle, server)
    /\ drawn' = drawn + 1
    /\ pending' = Pending(drawn + 1, server, Lifetime)
    /\ UNCHANGED <<vars, polls, spentOn>>

Stop ==
    /\ pending # None
    /\ pending' = None
    /\ UNCHANGED <<vars, polls, drawn, spentOn>>

\* The answer is under way to whoever still waits for it.
Answered(i, code) ==
    polls' = [polls EXCEPT ![i] =
                  [@ EXCEPT !.request = "gone", !.code = IF Waiting(i) THEN code ELSE 0]]

ClaimTooLate(i) ==
    /\ ~is_available(pending, server)
    /\ Answered(i, 401)
    /\ pending' = None
    /\ UNCHANGED <<vars, spentOn>>

ClaimAfterExpiry(i) ==
    /\ is_available(pending, server)
    /\ ~IsCredentialUsable(Bundle, server)
    /\ Answered(i, 410)
    /\ pending' = None
    /\ UNCHANGED <<vars, spentOn>>

ClaimMismatch(i) ==
    /\ is_available(pending, server)
    /\ IsCredentialUsable(Bundle, server)
    /\ ~Matches(pending, polls[i].material, server)
    /\ Answered(i, 401)
    /\ pending' = Consumed(pending, polls[i].material, server)
    /\ UNCHANGED <<vars, spentOn>>

\* The offer is consumed before the credential is protected, which may fail,
\* and before the answer is sent, which may be lost.
ClaimMatch(i) ==
    /\ IsCredentialUsable(Bundle, server)
    /\ Matches(pending, polls[i].material, server)
    /\ pending' = Consumed(pending, polls[i].material, server)
    /\ spentOn' = [spentOn EXCEPT ![polls[i].material] = @ \cup {i}]
    /\ \/ Answered(i, 500) /\ UNCHANGED vars
       \/ /\ Answered(i, 200)
          /\ IF Waiting(i) /\ polls[i].console = Mine THEN Issue ELSE UNCHANGED vars

Claim(i) ==
    /\ Begun(i) /\ polls[i].request = "sent"
    /\ ClaimTooLate(i) \/ ClaimAfterExpiry(i) \/ ClaimMismatch(i) \/ ClaimMatch(i)
    /\ UNCHANGED drawn

-----------------------------------------------------------------------------

TimePasses == Tick /\ UNCHANGED <<bridge, polls>>

ProtocolNext ==
    \/ \E i \in PollIds :
           \/ \E c \in Consoles : Poll(i, c)
           \/ PollRefused(i) \/ PollAnswered(i) \/ PollFails(i)
           \/ LoseRequest(i) \/ Claim(i)
    \/ Renew \/ Stop \/ TimePasses

ProtocolSpec == ProtocolInit /\ [][ProtocolNext]_protocolVars

-----------------------------------------------------------------------------
(* Properties *)

\* Of all consoles that present an offer, in whatever order their requests
\* arrive and whoever has given up by then, at most one is served: an offer is
\* consumed for one claim, and a console has a credential only from an offer
\* that was consumed for its own (consume, poll).
OfferServesOneClaim ==
    /\ \A o \in Ids : \A i, j \in spentOn[o] : i = j
    /\ \A i \in PollIds :
           Begun(i) /\ polls[i].outcome = "accepted" => i \in spentOn[polls[i].material]

\* A console that is told "rejected" has not used up its offer: one whose
\* answer was lost, came too late or could not be protected is told that the
\* bridge is unavailable (poll, claim).
RejectedSpentNothing ==
    \A i \in PollIds :
        Begun(i) /\ polls[i].outcome = "rejected" => \A o \in Ids : i \notin spentOn[o]

=============================================================================
