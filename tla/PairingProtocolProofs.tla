------------------------ MODULE PairingProtocolProofs ------------------------
(***************************************************************************)
(* Pairing from both ends, proved for any number of consoles, claims and   *)
(* offers, any lifetime and guess limit, and integers of any width.  The   *)
(* clocks come first: what is proved of CredentialClock, for every expiry  *)
(* and every difference between them, the protocol inherits.               *)
(***************************************************************************)
EXTENDS PairingProtocol, FiniteSetTheorems, TLAPS

-----------------------------------------------------------------------------
(* The clocks of CredentialClock *)

\* The two guards of credential_device_expiry_epoch_seconds are exact: they
\* reject an offset precisely when the subtraction would leave the range, and
\* their own additions never leave it.
THEOREM OffsetGuardIsExact ==
    ASSUME NEW c, c.expires_at \in Int64, c.clock_offset \in Int64
    PROVE  /\ OffsetGuardRejects(c) <=> c.expires_at - c.clock_offset \notin Int64
           /\ c.clock_offset > 0 => MinInt + c.clock_offset \in Int64
           /\ c.clock_offset < 0 => MaxInt + c.clock_offset \in Int64
  BY IntWidth DEF OffsetGuardRejects, Int64

\* A usable credential has a device expiry, and it is a representable value.
LEMMA UsableHasExpiry ==
    ASSUME NEW c, c.expires_at \in Int64, c.clock_offset \in Int64,
           NEW t \in Int64, IsCredentialUsable(c, t)
    PROVE  /\ DeviceExpiry(c) = c.expires_at - c.clock_offset
           /\ DeviceExpiry(c) \in Int64
  BY OffsetGuardIsExact DEF IsCredentialUsable, DeviceExpiry

(***************************************************************************)
(* Neither TypeOK nor LifetimeFollowsServer is inductive: they do not say  *)
(* what relates the offset to the clocks.  The invariant adds that a claim *)
(* under way was not issued after the bridge's present time, and that      *)
(* offset and delay together are still the difference between the clocks.  *)
(***************************************************************************)
IInv ==
    /\ TypeOK
    /\ message # None => message <= server
    /\ held # None =>
          /\ held.token \in ValidTokens
          /\ held.expires_at = Bundle.expires_at
          /\ held.clock_offset + delay = server - device
          /\ DeviceExpiry(held) = held.expires_at - held.clock_offset
          /\ DeviceExpiry(held) \in Int64

LEMMA IInvInductive == Spec => []IInv
<1> USE IntWidth, NoneIsNoInteger, ClockConstants
<1>1. Init => IInv
  BY DEF Init, IInv, TypeOK, Int64
<1>2. IInv /\ [Next]_vars => IInv'
  <2> SUFFICES ASSUME IInv, [Next]_vars PROVE IInv'
    OBVIOUS
  <2> USE DEF IInv
  <2>1. CASE Tick
    BY <2>1 DEF Tick, TypeOK, Int64, Offsets
  <2>2. CASE Issue
    BY <2>2 DEF Issue, TypeOK, Int64
  <2>3. CASE Lose
    BY <2>3 DEF Lose, TypeOK
  <2>4. CASE Accept
    <3> DEFINE c == Received(message)
    <3>1. message \in Nat \ {0} /\ device \in Int64 /\ device > 0 /\ message <= MaxInt
      BY <2>4 DEF Accept, TypeOK
    <3>2. /\ c.token = Bundle.token
          /\ c.expires_at = Bundle.expires_at
          /\ c.clock_offset = message - device
      BY DEF Received
    <3>3. c.expires_at \in Int64 /\ c.clock_offset \in Int64
      BY <3>1, <3>2 DEF Int64
    <3>4. IsCredentialUsable(c, device)
      BY <2>4 DEF Accept
    <3>5. DeviceExpiry(c) = c.expires_at - c.clock_offset /\ DeviceExpiry(c) \in Int64
      BY <3>1, <3>3, <3>4, UsableHasExpiry
    <3>6. held' = c /\ delay' = server - message /\ message' = None
          /\ server' = server /\ device' = device
      BY <2>4 DEF Accept
    <3>7. c.clock_offset + delay' = server - device
      BY <3>1, <3>2, <3>6 DEF TypeOK, Int64
    <3>8. TypeOK'
      BY <2>4, <3>1, <3>6 DEF TypeOK, Received, Int64, Offsets
    <3> HIDE DEF c
    <3> QED
      BY <3>2, <3>4, <3>5, <3>6, <3>7, <3>8 DEF IsCredentialUsable
  <2>5. CASE Discard
    BY <2>5 DEF Discard, TypeOK
  <2>6. CASE UNCHANGED vars
    BY <2>6 DEF vars, TypeOK
  <2> QED
    BY <2>1, <2>2, <2>3, <2>4, <2>5, <2>6 DEF Next
<1> QED
  BY <1>1, <1>2, PTL DEF Spec

\* The types hold in every reachable state; in particular no claim arrives
\* before it was issued.
THEOREM ClockTypeCorrect == Spec => []TypeOK
<1>1. IInv => TypeOK
  BY DEF IInv
<1> QED
  BY <1>1, IInvInductive, PTL

\* The console's credential ends when the backend's does, late by exactly the
\* time its claim was under way, and its expiry on the device's clock never
\* overflows.
THEOREM LifetimeIsTheServers == Spec => []LifetimeFollowsServer
<1>1. IInv => LifetimeFollowsServer
  BY IntWidth, NoneIsNoInteger, ClockConstants
     DEF IInv, LifetimeFollowsServer, IsCredentialUsable, TypeOK, Int64, Offsets
<1> QED
  BY <1>1, IInvInductive, PTL

-----------------------------------------------------------------------------
(* The protocol *)

\* What the protocol does to the clocks and to the credential of one console
\* is what CredentialClock allows: the composition adds nothing to it.
THEOREM ProtocolKeepsClock == ProtocolSpec => Spec
<1>1. ProtocolInit => Init
  BY DEF ProtocolInit
<1>2. [ProtocolNext]_protocolVars => [Next]_vars
  <2> SUFFICES ASSUME [ProtocolNext]_protocolVars PROVE [Next]_vars
    OBVIOUS
  <2>1. CASE \E i \in PollIds : PollAnswered(i)
    BY <2>1 DEF PollAnswered, Next
  <2>2. CASE \E i \in PollIds : PollFails(i)
    BY <2>2 DEF PollFails, Next
  <2>3. CASE \E i \in PollIds : Claim(i)
    BY <2>3 DEF Claim, ClaimTooLate, ClaimAfterExpiry, ClaimMismatch, ClaimMatch, Next
  <2>4. CASE TimePasses
    BY <2>4 DEF TimePasses, Next
  <2>5. CASE \/ \E i \in PollIds : \/ \E c \in Consoles : Poll(i, c)
                                   \/ PollRefused(i) \/ LoseRequest(i)
             \/ Renew \/ Stop \/ UNCHANGED protocolVars
    BY <2>5 DEF Poll, PollRefused, LoseRequest, Renew, Stop, protocolVars
  <2> QED
    BY <2>1, <2>2, <2>3, <2>4, <2>5 DEF ProtocolNext
<1> QED
  BY <1>1, <1>2, PTL DEF ProtocolSpec, Spec

\* Among several consoles and over a network that loses messages, the one whose
\* clock is watched still has its credential for the backend's time.
THEOREM ProtocolKeepsLifetime == ProtocolSpec => []LifetimeFollowsServer
  BY ProtocolKeepsClock, LifetimeIsTheServers, PTL

-----------------------------------------------------------------------------
(* What the bridge leaves pending *)

PendingOffers ==
    [id : Ids, expires_at : Int, failed_attempts : 0 .. MaximumFailedAttempts - 1]

\* consume keeps the offer it does not accept, with one guess more, or drops it.
LEMMA ConsumedKeepsOffer ==
    ASSUME pending \in PendingOffers \cup {None}, NEW m, NEW t
    PROVE  \/ Consumed(pending, m, t) = None
           \/ /\ pending # None
              /\ Consumed(pending, m, t) \in PendingOffers
              /\ Consumed(pending, m, t).id = pending.id
<1> SUFFICES ASSUME ~(~is_available(pending, t) \/ pending.id = m
                        \/ pending.failed_attempts + 1 >= MaximumFailedAttempts)
    PROVE  /\ pending # None
           /\ [pending EXCEPT !.failed_attempts = @ + 1] \in PendingOffers
           /\ [pending EXCEPT !.failed_attempts = @ + 1].id = pending.id
  BY DEF Consumed
<1>1. pending \in PendingOffers
  BY DEF is_available
<1> QED
  BY <1>1, ProtocolConstants DEF PendingOffers, is_available

-----------------------------------------------------------------------------

(***************************************************************************)
(* That an offer serves one claim is not inductive.  The invariant adds    *)
(* what an offer's being spent means at the bridge (it is not pending) and *)
(* at the console it was spent on (its request is not under way any more,  *)
(* and no refusal is), and that only an offer spent on it is behind an     *)
(* answer with a credential, and that a request under way has no answer.   *)
(***************************************************************************)
PollTypeOK ==
    /\ pending \in PendingOffers \cup {None}
    /\ drawn \in 0 .. MaxOffers
    /\ polls \in [PollIds -> Polls \cup {None}]
    /\ spentOn \in [Ids -> SUBSET PollIds]

UnspentInv ==
    /\ \A o \in Ids : o > drawn => spentOn[o] = {}
    /\ pending # None => pending.id <= drawn /\ spentOn[pending.id] = {}

SpentInv ==
    \A o \in Ids : \A i \in spentOn[o] :
        /\ \A j \in spentOn[o] : i = j
        /\ Begun(i)
        /\ polls[i].request = "gone"
        /\ polls[i].material = o
        /\ polls[i].code # 401
        /\ polls[i].outcome # "rejected"

ServedInv ==
    \A i \in PollIds :
        Begun(i) /\ (polls[i].code = 200 \/ polls[i].outcome = "accepted") =>
            polls[i].material \in Ids /\ i \in spentOn[polls[i].material]

AskedInv ==
    \A i \in PollIds :
        Begun(i) /\ polls[i].request = "sent" =>
            polls[i].code = 0 /\ polls[i].outcome \in {"pending", "unavailable"}

PInv == PollTypeOK /\ UnspentInv /\ SpentInv /\ ServedInv /\ AskedInv

Ended(q, outcome) == [q EXCEPT !.outcome = outcome, !.code = 0]

\* A poll that ends differs from what it was in its outcome and its answer.
LEMMA EndedPoll ==
    ASSUME NEW q \in Polls,
           NEW outcome \in {"accepted", "rejected", "unavailable", "invalid_response"}
    PROVE  /\ Ended(q, outcome) \in Polls
           /\ Ended(q, outcome).material = q.material
           /\ Ended(q, outcome).request = q.request
           /\ Ended(q, outcome).code = 0
           /\ Ended(q, outcome).outcome = outcome
<1> DEFINE r == [q EXCEPT !.outcome = outcome]
<1>1. Ended(q, outcome) = [r EXCEPT !.code = 0]
  BY DEF Ended
<1>2. r \in Polls /\ r.material = q.material /\ r.request = q.request /\ r.outcome = outcome
  BY DEF Polls
<1> HIDE DEF r
<1> QED
  BY <1>1, <1>2 DEF Polls

\* A step in which only claim i changes, and the bridge does not, keeps the
\* invariant if it takes no served claim's offer away and refuses no spent one.
LEMMA OneClaimChanges ==
    ASSUME PInv, NEW i \in PollIds, Begun(i), NEW p \in Polls,
           polls' = [polls EXCEPT ![i] = p], UNCHANGED bridge,
           p.material = polls[i].material,
           p.request = "sent" => polls[i].request = "sent",
           p.code \in {0, polls[i].code},
           \/ p.outcome \in {polls[i].outcome, "unavailable"}
           \/ p.outcome = "rejected" /\ polls[i].code = 401
           \/ p.outcome \in {"accepted", "invalid_response"} /\ polls[i].code = 200
    PROVE  PInv'
<1>1. PollTypeOK' /\ UnspentInv'
  BY DEF PInv, PollTypeOK, UnspentInv, bridge
<1>2. /\ polls'[i] = p
      /\ \A j \in PollIds : j # i => polls'[j] = polls[j]
      /\ spentOn' = spentOn
      /\ spentOn \in [Ids -> SUBSET PollIds]
      /\ polls[i] \in Polls
  BY DEF PInv, PollTypeOK, bridge, Begun
<1>3. p # None
  BY NoneIsNoClaim
<1>4. SpentInv'
  BY <1>2, <1>3, ProtocolConstants DEF PInv, SpentInv, Begun, Polls
<1>5. ServedInv'
  BY <1>2, <1>3 DEF PInv, ServedInv, Begun, Polls
<1>6. AskedInv'
  BY <1>2, <1>3 DEF PInv, AskedInv, Begun, Polls
<1> QED
  BY <1>1, <1>4, <1>5, <1>6 DEF PInv

LEMMA PInvInductive == ProtocolSpec => []PInv
<1>1. ProtocolInit => PInv
  BY ProtocolConstants, NoneIsNoClaim
     DEF ProtocolInit, PInv, PollTypeOK, UnspentInv, SpentInv, ServedInv, AskedInv, Begun
<1>2. TypeOK /\ PInv /\ [ProtocolNext]_protocolVars => PInv'
  <2> SUFFICES ASSUME TypeOK, PInv, [ProtocolNext]_protocolVars PROVE PInv'
    OBVIOUS
  <2> USE DEF PInv
  <2>1. ASSUME NEW i \in PollIds, NEW c \in Consoles, Poll(i, c) PROVE PInv'
    <3>1. PICK material \in 0 .. drawn, request \in {"sent", "gone"} :
              polls' = [polls EXCEPT ![i] =
                  [console |-> c, material |-> material, request |-> request, code |-> 0,
                   outcome |-> IF request = "sent" THEN "pending" ELSE "unavailable"]]
      BY <2>1 DEF Poll
    <3> DEFINE p == [console |-> c, material |-> material, request |-> request, code |-> 0,
                     outcome |-> IF request = "sent" THEN "pending" ELSE "unavailable"]
    <3>2. p \in Polls
      BY ProtocolConstants DEF Polls, PollTypeOK
    <3>3. /\ polls'[i] = p
          /\ \A j \in PollIds : j # i => polls'[j] = polls[j]
          /\ UNCHANGED bridge
          /\ ~Begun(i)
      BY <2>1, <3>1 DEF Poll, PollTypeOK
    <3>4. p.code = 0 /\ p.outcome \in {"pending", "unavailable"}
      OBVIOUS
    <3>5. PollTypeOK' /\ UnspentInv'
      BY <3>1, <3>2, <3>3 DEF PollTypeOK, UnspentInv, bridge
    <3> HIDE DEF p
    <3>6. SpentInv'
      BY <3>3 DEF PollTypeOK, SpentInv, Begun, bridge
    <3>7. ServedInv'
      BY <3>3, <3>4 DEF PollTypeOK, ServedInv, Begun, bridge
    <3>8. AskedInv'
      BY <3>3, <3>4 DEF PollTypeOK, AskedInv, Begun, bridge
    <3> QED
      BY <3>5, <3>6, <3>7, <3>8
  <2>2. ASSUME NEW i \in PollIds, PollRefused(i) PROVE PInv'
    <3>1. polls[i] \in Polls /\ Begun(i)
      BY <2>2 DEF PollRefused, Waiting, Begun, PollTypeOK
    <3>2. PICK outcome \in {"rejected", "unavailable"} :
              Ends(i, outcome) /\ (outcome = "rejected" => polls[i].code = 401)
      BY <2>2 DEF PollRefused, Refused
    <3> DEFINE p == Ended(polls[i], outcome)
    <3>3. polls' = [polls EXCEPT ![i] = p] /\ UNCHANGED bridge
      BY <2>2, <3>2 DEF PollRefused, Ends, Ended
    <3>4. /\ p \in Polls /\ p.material = polls[i].material /\ p.request = polls[i].request
          /\ p.code = 0 /\ p.outcome = outcome
      BY <3>1, EndedPoll
    <3> HIDE DEF p
    <3> QED
      BY <3>1, <3>2, <3>3, <3>4, OneClaimChanges
  <2>3. ASSUME NEW i \in PollIds, PollAnswered(i) PROVE PInv'
    <3>1. polls[i] \in Polls /\ Begun(i) /\ polls[i].code = 200
      BY <2>3 DEF PollAnswered, Waiting, Begun, PollTypeOK
    <3>2. PICK outcome \in {"accepted", "invalid_response"} : Ends(i, outcome)
      BY <2>3 DEF PollAnswered
    <3> DEFINE p == Ended(polls[i], outcome)
    <3>3. polls' = [polls EXCEPT ![i] = p] /\ UNCHANGED bridge
      BY <2>3, <3>2 DEF PollAnswered, Ends, Ended
    <3>4. /\ p \in Polls /\ p.material = polls[i].material /\ p.request = polls[i].request
          /\ p.code = 0 /\ p.outcome \in {"accepted", "invalid_response"}
      BY <3>1, EndedPoll
    <3> HIDE DEF p
    <3> QED
      BY <3>1, <3>3, <3>4, OneClaimChanges
  <2>4. ASSUME NEW i \in PollIds, PollFails(i) PROVE PInv'
    <3> DEFINE p == Ended(polls[i], "unavailable")
    <3>1. polls[i] \in Polls /\ Begun(i)
      BY <2>4 DEF PollFails, Waiting, Begun, PollTypeOK
    <3>2. polls' = [polls EXCEPT ![i] = p] /\ UNCHANGED bridge
      BY <2>4 DEF PollFails, Ends, Ended
    <3>3. /\ p \in Polls /\ p.material = polls[i].material /\ p.request = polls[i].request
          /\ p.code = 0 /\ p.outcome = "unavailable"
      BY <3>1, EndedPoll
    <3> HIDE DEF p
    <3> QED
      BY <3>1, <3>2, <3>3, OneClaimChanges
  <2>5. ASSUME NEW i \in PollIds, LoseRequest(i) PROVE PInv'
    <3> DEFINE p == [polls[i] EXCEPT !.request = "gone"]
    <3>1. polls[i] \in Polls /\ Begun(i)
      BY <2>5 DEF LoseRequest, Begun, PollTypeOK
    <3>2. polls' = [polls EXCEPT ![i] = p] /\ UNCHANGED bridge
      BY <2>5 DEF LoseRequest
    <3>3. p \in Polls
      BY <3>1 DEF Polls
    <3>4. /\ p.material = polls[i].material /\ p.request = "gone"
          /\ p.code = polls[i].code /\ p.outcome = polls[i].outcome
      BY <3>1 DEF Polls
    <3> HIDE DEF p
    <3> QED
      BY <3>1, <3>2, <3>3, <3>4, OneClaimChanges
  <2>6. ASSUME NEW i \in PollIds, Claim(i) PROVE PInv'
    <3>1. polls[i] \in Polls /\ Begun(i) /\ polls[i].request = "sent"
      BY <2>6 DEF Claim, Begun, PollTypeOK
    <3>2. \A o \in Ids : i \notin spentOn[o]
      BY <3>1 DEF SpentInv
    <3>3. PICK code \in {200, 401, 410, 500} :
              /\ Answered(i, code)
              /\ \/ /\ code # 200
                    /\ UNCHANGED spentOn
                    /\ pending' = None \/ pending' = Consumed(pending, polls[i].material, server)
                 \/ /\ code \in {200, 500}
                    /\ Matches(pending, polls[i].material, server)
                    /\ pending' = Consumed(pending, polls[i].material, server)
                    /\ spentOn' = [spentOn EXCEPT ![polls[i].material] = @ \cup {i}]
      BY <2>6 DEF Claim, ClaimTooLate, ClaimAfterExpiry, ClaimMismatch, ClaimMatch
    <3>4. PICK c \in {0, 200, 401, 410, 500} : c = IF Waiting(i) THEN code ELSE 0
      OBVIOUS
    <3> DEFINE p == [polls[i] EXCEPT !.request = "gone", !.code = c]
    <3>5. /\ p \in Polls /\ p.material = polls[i].material /\ p.request = "gone"
          /\ p.code \in {0, code} /\ p.outcome = polls[i].outcome
      <4> DEFINE r == [polls[i] EXCEPT !.request = "gone"]
      <4>1. p = [r EXCEPT !.code = c]
        OBVIOUS
      <4>2. r \in Polls
        BY <3>1 DEF Polls
      <4> HIDE DEF r
      <4>3. [r EXCEPT !.code = c] \in Polls
        BY <4>2 DEF Polls
      <4>4. p \in Polls
        BY <4>1, <4>3
      <4> QED
        BY <3>1, <3>4, <4>4 DEF Polls
    <3>5a. polls' = [polls EXCEPT ![i] = p]
      BY <3>3, <3>4 DEF Answered
    <3> HIDE DEF p
    <3>6. p # None
      BY <3>5, NoneIsNoClaim
    <3>7. /\ polls'[i] = p
          /\ \A j \in PollIds : j # i => polls'[j] = polls[j]
          /\ polls' \in [PollIds -> Polls \cup {None}]
      BY <3>5a, <3>5 DEF PollTypeOK
    <3>8. drawn' = drawn
      BY <2>6 DEF Claim
    <3>9. \/ pending' = None
          \/ pending # None /\ pending' \in PendingOffers /\ pending'.id = pending.id
      BY <3>3, ConsumedKeepsOffer DEF PollTypeOK
    <3>10. p.outcome \in {"pending", "unavailable"}
      BY <3>1, <3>5 DEF AskedInv
    <3>11. AskedInv'
      BY <3>5, <3>7 DEF AskedInv, Begun
    <3>12. CASE /\ code # 200
                /\ UNCHANGED spentOn
                /\ pending' = None \/ pending' = Consumed(pending, polls[i].material, server)
      <4>1. PollTypeOK' /\ UnspentInv'
        BY <3>7, <3>8, <3>9, <3>12 DEF PollTypeOK, UnspentInv
      <4>2. SpentInv'
        BY <3>2, <3>7, <3>12 DEF PollTypeOK, SpentInv, Begun
      <4>3. ServedInv'
        BY <3>1, <3>5, <3>7, <3>10, <3>12 DEF PollTypeOK, ServedInv, Begun
      <4> QED
        BY <3>11, <4>1, <4>2, <4>3
    <3>13. CASE /\ code \in {200, 500}
                /\ Matches(pending, polls[i].material, server)
                /\ pending' = Consumed(pending, polls[i].material, server)
                /\ spentOn' = [spentOn EXCEPT ![polls[i].material] = @ \cup {i}]
      <4> DEFINE m == polls[i].material
      <4>1. /\ pending # None /\ pending.id = m /\ m \in Ids /\ m <= drawn
            /\ spentOn[m] = {}
        BY <3>13 DEF Matches, is_available, PollTypeOK, PendingOffers, UnspentInv
      <4>2. pending' = None
        BY <3>13, <4>1 DEF Consumed
      <4>3. /\ spentOn'[m] = {i}
            /\ \A o \in Ids : o # m => spentOn'[o] = spentOn[o]
            /\ spentOn' \in [Ids -> SUBSET PollIds]
        BY <3>13, <4>1 DEF PollTypeOK
      <4> HIDE DEF m
      <4>4. PollTypeOK' /\ UnspentInv'
        BY <3>7, <3>8, <4>1, <4>2, <4>3 DEF PollTypeOK, UnspentInv, Ids
      <4>5. p.material = m /\ p.code # 401
        BY <3>5, <3>13 DEF m
      <4>7. SpentInv'
        BY <3>2, <3>5, <3>6, <3>7, <3>10, <4>3, <4>5 DEF SpentInv, Begun
      <4>8. ASSUME NEW j \in PollIds, Begun(j)',
                   polls'[j].code = 200 \/ polls'[j].outcome = "accepted"
            PROVE  polls'[j].material \in Ids /\ j \in spentOn'[polls'[j].material]
        <5>1. CASE j = i
          BY <3>7, <4>1, <4>3, <4>5, <5>1
        <5>2. CASE j # i
          <6>1. polls[j].material \in Ids /\ j \in spentOn[polls[j].material]
            BY <3>7, <4>8, <5>2 DEF ServedInv, Begun
          <6>2. polls[j].material # m
            BY <4>1, <6>1
          <6> QED
            BY <3>7, <4>3, <5>2, <6>1, <6>2
        <5> QED
          BY <5>1, <5>2
      <4>9. ServedInv'
        BY <4>8 DEF ServedInv
      <4> QED
        BY <3>11, <4>4, <4>7, <4>9
    <3> QED
      BY <3>3, <3>12, <3>13
  <2>7. CASE Renew
    <3>1. /\ drawn' = drawn + 1 /\ drawn' \in 0 .. MaxOffers
          /\ pending' = [id |-> drawn + 1, expires_at |-> server + Lifetime,
                         failed_attempts |-> 0]
          /\ UNCHANGED <<polls, spentOn>>
      BY <2>7, ProtocolConstants DEF Renew, Pending, PollTypeOK
    <3>2. pending' \in PendingOffers
      BY <3>1, ProtocolConstants DEF PendingOffers, PollTypeOK, Ids, TypeOK
    <3> QED
      BY <3>1, <3>2 DEF PollTypeOK, UnspentInv, SpentInv, ServedInv, AskedInv, Begun, Ids
  <2>8. CASE Stop \/ TimePasses \/ UNCHANGED protocolVars
    BY <2>8 DEF Stop, TimePasses, protocolVars, bridge,
                PollTypeOK, UnspentInv, SpentInv, ServedInv, AskedInv, Begun
  <2> QED
    BY <2>1, <2>2, <2>3, <2>4, <2>5, <2>6, <2>7, <2>8 DEF ProtocolNext
<1>3. ProtocolSpec => []TypeOK
  BY ProtocolKeepsClock, ClockTypeCorrect, PTL
<1> QED
  BY <1>1, <1>2, <1>3, PTL DEF ProtocolSpec

-----------------------------------------------------------------------------

\* The types of both ends hold in every reachable state; the count of wrong
\* guesses stays under the limit.
THEOREM ProtocolTypeCorrect == ProtocolSpec => []ProtocolTypeOK
<1>1. TypeOK /\ PInv => ProtocolTypeOK
  BY DEF PInv, PollTypeOK, PendingOffers, ProtocolTypeOK
<1>2. ProtocolSpec => []TypeOK
  BY ProtocolKeepsClock, ClockTypeCorrect, PTL
<1> QED
  BY <1>1, <1>2, PInvInductive, PTL

\* However many consoles present an offer, and whoever has given up when its
\* request arrives, one is served.
THEOREM OfferAlwaysServesOneClaim == ProtocolSpec => []OfferServesOneClaim
<1>1. PInv => OfferServesOneClaim
  BY DEF PInv, SpentInv, ServedInv, OfferServesOneClaim
<1> QED
  BY <1>1, PInvInductive, PTL

\* No console is told "rejected" by a claim that used its offer up.
THEOREM RejectedAlwaysSpentNothing == ProtocolSpec => []RejectedSpentNothing
<1>1. PInv => RejectedSpentNothing
  BY DEF PInv, SpentInv, RejectedSpentNothing
<1> QED
  BY <1>1, PInvInductive, PTL

-----------------------------------------------------------------------------
(***************************************************************************)
(* The bridge of the protocol keeps the promise of OneTimeOffer, whatever  *)
(* the consoles and the network do: a claim takes its offer when consume   *)
(* accepts it, and that of a console that has given up takes it as well.   *)
(***************************************************************************)

Offers == INSTANCE OneTimeOffer
             WITH live <- pending,
                  taken <- [o \in Ids |-> Cardinality(spentOn[o])],
                  now <- server,
                  NoOffer <- None,
                  GuessLimit <- MaximumFailedAttempts,
                  CredentialExpiry <- Bundle.expires_at

LEMMA BundleUsable ==
    ASSUME NEW t \in Int
    PROVE  IsCredentialUsable(Bundle, t) <=> t < Bundle.expires_at
<1>1. /\ Bundle.token \in ValidTokens /\ Bundle.expires_at \in Int64
      /\ Bundle.clock_offset = 0
  BY ClockConstants
<1>2. Bundle.expires_at \in Int /\ Bundle.expires_at # None
  BY <1>1, IntWidth, NoneIsNoInteger DEF Int64
<1>3. DeviceExpiry(Bundle) = Bundle.expires_at
  BY <1>1, <1>2 DEF DeviceExpiry, OffsetGuardRejects
<1> QED
  BY <1>1, <1>2, <1>3 DEF IsCredentialUsable

LEMMA ClaimKeepsPromise ==
    ASSUME TypeOK, PInv, NEW i \in PollIds, Claim(i)
    PROVE  [Offers!Next]_(Offers!vars)
<1>1. /\ server \in Int /\ server' = server /\ drawn' = drawn
      /\ pending \in PendingOffers \cup {None}
  <2>1. server' = server
    BY DEF Claim, ClaimTooLate, ClaimAfterExpiry, ClaimMismatch, ClaimMatch, vars, Issue
  <2> QED
    BY <2>1 DEF TypeOK, PInv, PollTypeOK, Claim
<1>2. spentOn' = spentOn /\ pending' = None => Offers!Withdraw
  BY <1>1 DEF Offers!Withdraw
<1>3. CASE ClaimTooLate(i) \/ ClaimAfterExpiry(i)
  BY <1>2, <1>3 DEF ClaimTooLate, ClaimAfterExpiry, Offers!Next
<1>4. CASE ClaimMismatch(i)
  <2>1. CASE pending' = None
    BY <1>2, <1>4, <2>1 DEF ClaimMismatch, Offers!Next
  <2>2. CASE pending' # None
    <3>1. /\ pending # None /\ server < pending.expires_at
          /\ ~(pending.failed_attempts + 1 >= MaximumFailedAttempts)
          /\ pending' = [pending EXCEPT !.failed_attempts = @ + 1]
      BY <1>4, <2>2 DEF ClaimMismatch, Consumed, is_available
    <3>2. pending.failed_attempts \in Int /\ MaximumFailedAttempts \in Int
      BY <1>1, <3>1, ProtocolConstants DEF PendingOffers
    <3>3. Offers!Guess
      BY <1>1, <1>4, <3>1, <3>2 DEF ClaimMismatch, Offers!Guess
    <3> QED BY <3>3 DEF Offers!Next
  <2> QED BY <2>1, <2>2
<1>5. CASE ClaimMatch(i)
  <2> DEFINE o == polls[i].material
  <2>1. /\ pending # None /\ server < pending.expires_at /\ pending.id = o
        /\ pending' = None /\ server < Bundle.expires_at
        /\ spentOn' = [spentOn EXCEPT ![o] = @ \cup {i}]
    BY <1>1, <1>5, BundleUsable DEF ClaimMatch, Matches, is_available, Consumed
  <2>2. o \in Ids /\ spentOn[o] = {} /\ spentOn \in [Ids -> SUBSET PollIds]
    BY <1>1, <2>1 DEF PInv, PollTypeOK, UnspentInv, PendingOffers
  <2> HIDE DEF o
  <2>3. Cardinality(spentOn[o] \cup {i}) = Cardinality(spentOn[o]) + 1
    <3>1. Cardinality({}) = 0
      BY FS_EmptySet
    <3>2. Cardinality({i}) = 1
      BY FS_Singleton
    <3>3. spentOn[o] \cup {i} = {i}
      BY <2>2
    <3> QED BY <2>2, <3>1, <3>2, <3>3
  <2>4. [q \in Ids |-> Cardinality(spentOn'[q])] =
            [[q \in Ids |-> Cardinality(spentOn[q])] EXCEPT ![o] = @ + 1]
    BY <2>1, <2>2, <2>3
  <2>5. Offers!Take
    BY <1>1, <2>1, <2>4 DEF Offers!Take
  <2> QED BY <2>5 DEF Offers!Next
<1> QED
  BY <1>3, <1>4, <1>5 DEF Claim

LEMMA PromiseStep ==
    ASSUME TypeOK, PInv, [ProtocolNext]_protocolVars
    PROVE  [Offers!Next]_(Offers!vars)
<1>1. ASSUME NEW i \in PollIds, Claim(i) PROVE [Offers!Next]_(Offers!vars)
  BY <1>1, ClaimKeepsPromise
<1>2. ASSUME NEW i \in PollIds,
             \/ \E c \in Consoles : Poll(i, c)
             \/ PollRefused(i) \/ PollAnswered(i) \/ PollFails(i) \/ LoseRequest(i)
      PROVE  UNCHANGED <<pending, drawn, spentOn, server>>
  BY <1>2 DEF Poll, PollRefused, PollAnswered, PollFails, LoseRequest, vars, bridge, Accept,
              Discard, Lose
<1>3. CASE Renew
  <2>1. server \in Int /\ Lifetime \in 1 .. MaximumLifetime
    BY ProtocolConstants DEF TypeOK
  <2>2. Offers!Issue
    BY <1>3, <2>1, BundleUsable DEF Renew, Offers!Issue, Pending, vars
  <2> QED BY <2>2 DEF Offers!Next
<1>4. CASE Stop
  BY <1>4 DEF Stop, vars, Offers!Next, Offers!Withdraw
<1>5. CASE TimePasses
  <2>1. server' \in Int /\ UNCHANGED <<pending, drawn, spentOn>>
    BY <1>5 DEF TimePasses, Tick, TypeOK, bridge
  <2>2. Offers!SetClock
    BY <2>1 DEF Offers!SetClock
  <2> QED BY <2>2 DEF Offers!Next
<1>6. CASE UNCHANGED protocolVars
  BY <1>6 DEF protocolVars, bridge, vars, Offers!vars
<1> QED
  BY <1>1, <1>2, <1>3, <1>4, <1>5, <1>6 DEF ProtocolNext, Offers!vars

\* The bridge implements OneTimeOffer among several consoles and over a network
\* that loses messages, with the claims an offer was consumed for as its takers.
THEOREM ProtocolKeepsOfferPromise == ProtocolSpec => Offers!Spec
<1>1. ProtocolInit => Offers!Init
  <2> SUFFICES ASSUME ProtocolInit PROVE Offers!Init
    OBVIOUS
  <2>1. [o \in Ids |-> Cardinality(spentOn[o])] = [o \in 1 .. MaxOffers |-> 0]
    BY FS_EmptySet DEF ProtocolInit, Ids
  <2> QED
    BY <2>1 DEF ProtocolInit, Init, Offers!Init
<1>2. ProtocolSpec => []TypeOK
  BY ProtocolKeepsClock, ClockTypeCorrect, PTL
<1> QED
  BY <1>1, <1>2, PInvInductive, PromiseStep, PTL DEF ProtocolSpec, Offers!Spec

=============================================================================
