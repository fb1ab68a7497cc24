-------------------------- MODULE ConsoleAppProofs --------------------------
(***************************************************************************)
(* The session, then the program around it, proved for any credentials,    *)
(* claim sources and clock readings, any number of operations of a load,   *)
(* and a store whose clear() may or may not fail.  The program uses the    *)
(* session only through its operations, so whatever is proved of the       *)
(* session holds in it; what the screens need on top is an invariant of    *)
(* its own.                                                                *)
(***************************************************************************)
EXTENDS ConsoleApp, TLAPS

-----------------------------------------------------------------------------
(* The session *)

\* What Evaluate and DeviceExpiry say of a usable credential.
LEMMA UsableCredential ==
    ASSUME NEW c \in Credentials, NEW t, Evaluate(c, t) = "usable"
    PROVE  /\ c.token \in ValidTokens
           /\ DeviceExpiry(c) # None
           /\ DeviceExpiry(c) \in Int
           /\ IsCredentialUsable(c, t)
  BY SessionConstants, IntWidth
     DEF Evaluate, IsCredentialUsable, DeviceExpiry, Int64

LEMMA EvaluateRange ==
    \A c, t : Evaluate(c, t) \in {"invalid", "usable", "expired"}
  BY DEF Evaluate

\* Every private helper keeps the types of the variables it assigns.
LEMMA SettledType ==
    ASSUME TypeOK, NEW f \in Fate
    PROVE  Settled(f) \in [Sources -> Fate]
  BY DEF TypeOK, Settled

LEMMA ClearStoreType ==
    ASSUME NEW had \in Credentials \cup {None}, ClearStore(had)
    PROVE  store' \in Credentials \cup {None}
  BY DEF ClearStore

-----------------------------------------------------------------------------

\* The types hold in every reachable state.
THEOREM SessionTypeCorrect == Spec => []TypeOK
<1> USE SessionConstants
<1>1. Init => TypeOK
  BY IntWidth DEF Init, TypeOK, SessionState, Fate, Result
<1>2. TypeOK /\ [Next]_vars => TypeOK'
  <2> SUFFICES ASSUME TypeOK, [Next]_vars PROVE TypeOK'
    OBVIOUS
  <2> USE DEF SessionState, Result
  <2>a. ASSUME NEW r \in Result, Refuse(r) PROVE TypeOK'
    BY <2>a DEF Refuse, TypeOK, owned
  <2>b. /\ Settled("cancelled") \in [Sources -> Fate]
        /\ Settled("spent") \in [Sources -> Fate]
        /\ Settled("lost") \in [Sources -> Fate]
    BY SettledType DEF Fate
  <2>c. ASSUME NEW s \in SessionState, expire_credential(s)
        PROVE  /\ state' \in SessionState
               /\ claim' \in Sources \cup {None}
               /\ client' \in Credentials \cup {None}
               /\ expiry' \in Int
               /\ load' \in 0 .. Stages - 1 \cup {None}
               /\ store' \in Credentials \cup {None}
               /\ fate' \in [Sources -> Fate]
    BY <2>b, <2>c, ClearStoreType
       DEF expire_credential, cancel_claim, DropClient, TypeOK
  <2>d. ASSUME FindExpired PROVE TypeOK'
    BY <2>c, <2>d DEF FindExpired, TypeOK
  <2>1. CASE Resume
    <3>1. CASE state = "stopped"
      BY <2>1, <2>a, <3>1 DEF Resume
    <3>2. CASE state # "stopped" /\ store # None /\ result' = Evaluate(store, now)
      <4>1. store \in Credentials /\ now \in Int64
        BY <3>2 DEF TypeOK
      <4>2. result' \in {"invalid", "usable", "expired"}
        BY <3>2, EvaluateRange
      <4>3. CASE Evaluate(store, now) = "usable" /\ activate_credential(store) /\ UNCHANGED store
        BY <2>1, <2>b, <3>2, <4>1, <4>2, <4>3, UsableCredential
           DEF Resume, Refuse, cancel_claim, activate_credential, TypeOK
      <4>4. CASE DropClient /\ ClearStore(store) /\ state' \in {"expired", "unpaired"}
        BY <2>1, <2>b, <3>2, <4>1, <4>2, <4>4, ClearStoreType
           DEF Resume, Refuse, cancel_claim, DropClient, TypeOK
      <4>5. CASE DropClient /\ UNCHANGED store /\ state' \in {"offline", "unpaired"}
        BY <2>1, <2>b, <3>2, <4>1, <4>2, <4>5
           DEF Resume, Refuse, cancel_claim, DropClient, TypeOK
      <4> QED
        BY <2>1, <3>2, <4>3, <4>4, <4>5 DEF Resume
    <3>3. CASE state # "stopped" /\ DropClient /\ UNCHANGED store
               /\ state' \in {"offline", "unpaired"} /\ result' \in {"unavailable", "missing"}
      BY <2>1, <2>b, <3>3 DEF Resume, Refuse, cancel_claim, DropClient, TypeOK
    <3> QED
      BY <2>1, <3>1, <3>2, <3>3 DEF Resume
  <2>2. ASSUME NEW s \in Sources \cup {None}, BeginCredentialClaim(s) PROVE TypeOK'
    <3>1. CASE Refuse("false")
      BY <2>a, <3>1
    <3>2. CASE ~Refuse("false")
      BY <2>2, <2>b, <3>2 DEF BeginCredentialClaim, DropClient, TypeOK, Fate
    <3> QED
      BY <3>1, <3>2
  <2>3. CASE AdvanceCredentialClaim
    <3>1. CASE Refuse("invalid_response") \/ PollPending
      BY <2>a, <3>1 DEF PollPending
    <3>2. CASE SettleClaim
      <4> USE <2>b, <3>2 DEF SettleClaim, TypeOK
      <4>1. CASE ClaimFails
        BY <4>1 DEF ClaimFails
      <4>2. ASSUME NEW c \in Credentials, ClaimUnusable(c) PROVE TypeOK'
        BY <4>2 DEF ClaimUnusable, DropClient
      <4>3. ASSUME NEW c \in Credentials, ClaimGranted(c) PROVE TypeOK'
        BY <4>3, UsableCredential DEF ClaimGranted, activate_credential
      <4>4. ASSUME NEW c \in Credentials, ClaimNotSaved(c) PROVE TypeOK'
        <5>1. store' \in Credentials \cup {None}
          BY <4>4, ClearStoreType DEF ClaimNotSaved
        <5> QED
          BY <4>4, <5>1 DEF ClaimNotSaved, DropClient
      <4> QED
        BY <4>1, <4>2, <4>3, <4>4
    <3> QED
      BY <2>3, <3>1, <3>2 DEF AdvanceCredentialClaim
  <2>4. CASE BeginDashboardLoad
    <3>1. CASE Refuse("invalid_response") \/ Refuse("unauthorized") \/ FindExpired
      BY <2>a, <2>d, <3>1
    <3>2. CASE ~(Refuse("invalid_response") \/ Refuse("unauthorized") \/ FindExpired)
      BY <2>4, <3>2 DEF BeginDashboardLoad, TypeOK
    <3> QED
      BY <3>1, <3>2
  <2>e. ASSUME BackendRefuses, client # None, request' = client, UNCHANGED <<adapter, now>>
        PROVE  TypeOK'
    BY <2>c, <2>e DEF BackendRefuses, TypeOK
  <2>5. CASE AdvanceDashboardLoad
    <3>1. CASE Refuse("invalid_response") \/ FindExpired
      BY <2>a, <2>d, <3>1
    <3>2. CASE BackendRefuses /\ client # None /\ request' = client /\ UNCHANGED <<adapter, now>>
      BY <2>e, <3>2
    <3>3. CASE ~(Refuse("invalid_response") \/ FindExpired) /\ ~BackendRefuses
      BY <2>5, <3>3 DEF AdvanceDashboardLoad, LoadAnswers, TypeOK
    <3> QED
      BY <2>5, <3>1, <3>2, <3>3 DEF AdvanceDashboardLoad, credential_usable
  <2>6. CASE SendRecognition
    <3>1. CASE Refuse("invalid_response") \/ Refuse("unauthorized") \/ FindExpired
      BY <2>a, <2>d, <3>1
    <3>2. CASE BackendRefuses /\ client # None /\ request' = client /\ UNCHANGED <<adapter, now>>
      BY <2>e, <3>2
    <3>3. CASE ~(Refuse("invalid_response") \/ Refuse("unauthorized") \/ FindExpired)
               /\ ~BackendRefuses
      BY <2>6, <3>3 DEF SendRecognition, TypeOK
    <3> QED
      BY <2>6, <3>1, <3>2, <3>3 DEF SendRecognition, credential_usable
  <2>7. CASE ClearCredential
    <3>1. CASE Refuse("none")
      BY <2>a, <3>1
    <3>2. CASE ~Refuse("none")
      BY <2>7, <2>c, <3>2 DEF ClearCredential, TypeOK
    <3> QED
      BY <3>1, <3>2
  <2>8. CASE Shutdown
    <3>1. CASE state = "stopped"
      BY <2>8, <2>a, <3>1 DEF Shutdown
    <3>2. CASE state # "stopped"
      <4>1. adapter' \in BOOLEAN
        BY <2>8, <3>2 DEF Shutdown
      <4> QED
        BY <2>8, <2>b, <3>2, <4>1 DEF Shutdown, cancel_claim, DropClient, TypeOK
    <3> QED
      BY <3>1, <3>2
  <2>9. CASE Restart
    BY <2>9, <2>b DEF Restart, DropClient, TypeOK
  <2>10. CASE SetClock
    BY <2>10 DEF SetClock, owned, TypeOK
  <2>11. CASE UNCHANGED vars
    BY <2>11 DEF vars, owned, TypeOK
  <2> QED
    BY <2>1, <2>2, <2>3, <2>4, <2>5, <2>6, <2>7, <2>8, <2>9, <2>10, <2>11
       DEF Next, Operation
<1> QED
  BY <1>1, <1>2, PTL DEF Spec

-----------------------------------------------------------------------------
(***************************************************************************)
(* The safety properties need each other.  BearerOnlyWhileUsable speaks of *)
(* the credential itself while the code compares a cached expiry, so it    *)
(* needs ClientIsPersisted; that in turn survives a claim only because the *)
(* client is dropped when claiming starts (HandlesMatchState); and nothing *)
(* says that the client's token is a valid one until ClientIsValid does.   *)
(***************************************************************************)
ClientIsValid ==
    client # None => client.token \in ValidTokens /\ DeviceExpiry(client) # None

IInv ==
    /\ TypeOK
    /\ HandlesMatchState
    /\ ClientIsPersisted
    /\ ClientIsValid
    /\ SourcesAreSettled
    /\ RefusedStaysDead
    /\ BearerOnlyWhileUsable

\* The comparison credential_usable makes with the cached expiry is the one
\* the credential itself would answer.
LEMMA CachedExpiryIsCurrent ==
    ASSUME ClientIsPersisted, ClientIsValid, credential_usable
    PROVE  client # None /\ IsCredentialUsable(client, now)
  BY DEF ClientIsPersisted, ClientIsValid, credential_usable, IsCredentialUsable

\* A refused call disturbs nothing.
LEMMA RefuseKeeps ==
    ASSUME IInv, TypeOK', NEW r, Refuse(r)
    PROVE  IInv'
  BY DEF IInv, Refuse, owned, HandlesMatchState, ClientIsPersisted, ClientIsValid,
         SourcesAreSettled, RefusedStaysDead, BearerOnlyWhileUsable

\* expire_credential establishes the invariant in any state without a client,
\* provided every bearer token just sent was usable.
LEMMA ExpireKeeps ==
    ASSUME IInv, TypeOK', NEW s \in {"expired", "unpaired"}, expire_credential(s),
           UNCHANGED adapter, state # "stopped",
           rejected' \subseteq rejected \cup {client},
           now' = now, request' = None \/ (request' = client /\ credential_usable)
    PROVE  IInv'
<1>1. HandlesMatchState'
  BY DEF IInv, HandlesMatchState, expire_credential, cancel_claim, DropClient
<1>2. ClientIsPersisted' /\ ClientIsValid'
  BY DEF expire_credential, DropClient, ClientIsPersisted, ClientIsValid
<1>3. SourcesAreSettled'
  BY SessionConstants
     DEF IInv, TypeOK, expire_credential, cancel_claim, Settled, SourcesAreSettled
<1>4. RefusedStaysDead'
  BY SessionConstants
     DEF IInv, TypeOK, expire_credential, DropClient, ClearStore, RefusedStaysDead
<1>5. BearerOnlyWhileUsable'
  BY CachedExpiryIsCurrent DEF IInv, BearerOnlyWhileUsable
<1> QED
  BY <1>1, <1>2, <1>3, <1>4, <1>5 DEF IInv

LEMMA ResumeKeeps ==
    ASSUME IInv, TypeOK', Resume
    PROVE  IInv'
<1>1. CASE state = "stopped"
  BY <1>1, RefuseKeeps DEF Resume
<1>2. CASE state # "stopped"
  <2> USE <1>2 DEF IInv, Resume, Refuse
  <2>1. claim' = None /\ load' = None /\ request' = None /\ adapter' = adapter
        /\ rejected' = rejected /\ now' = now /\ fate' = Settled("cancelled")
    BY DEF cancel_claim
  <2>2. \/ /\ store # None
           /\ Evaluate(store, now) = "usable"
           /\ activate_credential(store)
           /\ store' = store
        \/ /\ DropClient
           /\ store' \in {store, None}
           /\ state' \in {"offline", "unpaired", "expired"}
    BY DEF ClearStore
  <2>3. HandlesMatchState'
    BY <2>1, <2>2 DEF HandlesMatchState, activate_credential, DropClient
  <2>4. ClientIsPersisted' /\ ClientIsValid'
    BY <2>2, UsableCredential
       DEF TypeOK, ClientIsPersisted, ClientIsValid, activate_credential, DropClient
  <2>5. SourcesAreSettled'
    BY <2>1, SessionConstants DEF TypeOK, Settled, SourcesAreSettled
  <2>6. RefusedStaysDead'
    BY <2>1, <2>2, SessionConstants
       DEF TypeOK, RefusedStaysDead, activate_credential, DropClient
  <2>7. BearerOnlyWhileUsable'
    BY <2>1 DEF BearerOnlyWhileUsable
  <2> QED
    BY <2>3, <2>4, <2>5, <2>6, <2>7
<1> QED
  BY <1>1, <1>2

LEMMA BeginClaimKeeps ==
    ASSUME IInv, TypeOK', NEW s \in Sources \cup {None}, BeginCredentialClaim(s)
    PROVE  IInv'
<1>1. CASE Refuse("false")
  BY <1>1, RefuseKeeps
<1>2. CASE ~Refuse("false")
  <2> USE <1>2 DEF IInv, BeginCredentialClaim
  <2>1. /\ s \in Sources
        /\ claim' = s
        /\ fate' = [Settled("cancelled") EXCEPT ![s] = "held"]
        /\ load' = None /\ client' = None /\ expiry' = 0
        /\ state' = "claiming" /\ state # "stopped"
        /\ request' = None
        /\ UNCHANGED <<adapter, store, now, rejected>>
    BY DEF DropClient
  <2>2. HandlesMatchState'
    BY <2>1, SessionConstants DEF HandlesMatchState
  <2>3. SourcesAreSettled'
    BY <2>1, SessionConstants DEF TypeOK, Settled, SourcesAreSettled
  <2>4. RefusedStaysDead'
    BY <2>1, SessionConstants DEF TypeOK, RefusedStaysDead
  <2> QED
    BY <2>1, <2>2, <2>3, <2>4
       DEF ClientIsPersisted, ClientIsValid, BearerOnlyWhileUsable
<1> QED
  BY <1>1, <1>2

LEMMA AdvanceClaimKeeps ==
    ASSUME IInv, TypeOK', AdvanceCredentialClaim
    PROVE  IInv'
<1>1. CASE Refuse("invalid_response") \/ PollPending
  BY <1>1, RefuseKeeps DEF PollPending
<1>2. CASE SettleClaim
  <2> USE <1>2 DEF IInv, SettleClaim
  <2>1. /\ state = "claiming" /\ claim # None /\ claim' = None /\ request' = None
        /\ adapter /\ adapter' = adapter /\ now' = now
        /\ client = None /\ expiry = 0 /\ load = None
    BY DEF HandlesMatchState
  <2>2. SourcesAreSettled'
    <3>1. \E f \in {"spent", "cancelled"} : fate' = Settled(f)
      BY DEF ClaimFails, ClaimUnusable, ClaimGranted, ClaimNotSaved
    <3> QED
      BY <2>1, <3>1, SessionConstants DEF TypeOK, Settled, SourcesAreSettled
  <2>3. BearerOnlyWhileUsable'
    BY <2>1 DEF BearerOnlyWhileUsable
  <2>4. CASE ClaimFails
    BY <2>1, <2>2, <2>3, <2>4
       DEF ClaimFails, HandlesMatchState, ClientIsPersisted, ClientIsValid, RefusedStaysDead
  <2>5. ASSUME NEW c \in Credentials, ClaimUnusable(c) PROVE IInv'
    BY <2>1, <2>2, <2>3, <2>5
       DEF ClaimUnusable, DropClient, HandlesMatchState, ClientIsPersisted, ClientIsValid,
           RefusedStaysDead
  <2>6. ASSUME NEW c \in Credentials, ClaimGranted(c) PROVE IInv'
    <3>1. /\ client' = c /\ expiry' = DeviceExpiry(c) /\ state' = "ready" /\ store' = c
          /\ load' = None /\ rejected' = rejected \ {c} /\ c # None
      BY <2>1, <2>6, SessionConstants DEF ClaimGranted, activate_credential
    <3>2. c.token \in ValidTokens /\ DeviceExpiry(c) # None
      BY <2>6, UsableCredential DEF ClaimGranted
    <3> QED
      BY <2>1, <2>2, <2>3, <3>1, <3>2
         DEF HandlesMatchState, ClientIsPersisted, ClientIsValid, RefusedStaysDead
  <2>7. ASSUME NEW c \in Credentials, ClaimNotSaved(c) PROVE IInv'
    <3>1. ~ClearMayFail => store' = None
      BY <2>7 DEF ClaimNotSaved, ClearStore
    <3> QED
      BY <2>1, <2>2, <2>3, <2>7, <3>1, SessionConstants
         DEF ClaimNotSaved, DropClient, TypeOK, HandlesMatchState, ClientIsPersisted,
             ClientIsValid, RefusedStaysDead
  <2> QED
    BY <2>4, <2>5, <2>6, <2>7
<1> QED
  BY <1>1, <1>2 DEF AdvanceCredentialClaim

LEMMA FindExpiredKeeps ==
    ASSUME IInv, TypeOK', FindExpired, state # "stopped"
    PROVE  IInv'
  BY ExpireKeeps DEF FindExpired

LEMMA BackendRefusesKeeps ==
    ASSUME IInv, TypeOK', BackendRefuses, state # "stopped", credential_usable,
           request' = client, UNCHANGED <<adapter, now>>
    PROVE  IInv'
  BY ExpireKeeps DEF BackendRefuses

\* A step that keeps claim, client and store only has to keep the load and the
\* state in agreement.
LEMMA AnswerKeeps ==
    ASSUME IInv, TypeOK', state # "stopped", state # "claiming", credential_usable,
           UNCHANGED <<adapter, claim, client, expiry, store, now, fate, rejected>>,
           request' \in {None, client},
           state' \in {"loading", "offline", "current"},
           state' = "loading" <=> load' # None
    PROVE  IInv'
<1> USE DEF IInv
<1>1. client # None /\ IsCredentialUsable(client, now)
  BY CachedExpiryIsCurrent
<1>2. HandlesMatchState'
  BY <1>1 DEF HandlesMatchState
<1>3. BearerOnlyWhileUsable'
  BY <1>1 DEF BearerOnlyWhileUsable
<1> QED
  BY <1>2, <1>3
     DEF ClientIsPersisted, ClientIsValid, SourcesAreSettled, RefusedStaysDead

LEMMA BeginLoadKeeps ==
    ASSUME IInv, TypeOK', BeginDashboardLoad
    PROVE  IInv'
<1>1. CASE Refuse("invalid_response") \/ Refuse("unauthorized")
  BY <1>1, RefuseKeeps
<1>2. CASE FindExpired /\ state # "stopped"
  BY <1>2, FindExpiredKeeps
<1>3. CASE /\ state \in {"ready", "current", "offline"}
           /\ credential_usable
           /\ \/ load' = 0 /\ state' = "loading"
              \/ load' = None /\ state' = "offline"
           /\ request' = None
           /\ UNCHANGED <<adapter, claim, client, expiry, store, now, fate, rejected>>
  <2>1. 0 # None
    BY NoneIsNoInteger
  <2> QED
    BY <1>3, <2>1, AnswerKeeps
<1> QED
  BY <1>1, <1>2, <1>3 DEF BeginDashboardLoad

LEMMA AdvanceLoadKeeps ==
    ASSUME IInv, TypeOK', AdvanceDashboardLoad
    PROVE  IInv'
<1>1. CASE Refuse("invalid_response")
  BY <1>1, RefuseKeeps
<1>2. CASE FindExpired /\ state # "stopped"
  BY <1>2, FindExpiredKeeps
<1>3. CASE /\ state = "loading" /\ load # None
           /\ credential_usable
           /\ request' = client
           /\ LoadAnswers
           /\ UNCHANGED <<adapter, now>>
  <2>1. CASE BackendRefuses
    BY <1>3, <2>1, BackendRefusesKeeps
  <2>2. CASE ~BackendRefuses
    <3>1. load + 1 # None
      BY <1>3, NoneIsNoInteger DEF IInv, TypeOK
    <3> QED
      BY <1>3, <2>2, <3>1, AnswerKeeps DEF LoadAnswers
  <2> QED
    BY <2>1, <2>2
<1> QED
  BY <1>1, <1>2, <1>3 DEF AdvanceDashboardLoad

LEMMA SendKeeps ==
    ASSUME IInv, TypeOK', SendRecognition
    PROVE  IInv'
<1>1. CASE Refuse("invalid_response") \/ Refuse("unauthorized")
  BY <1>1, RefuseKeeps
<1>2. CASE FindExpired /\ state # "stopped"
  BY <1>2, FindExpiredKeeps
<1>3. CASE /\ state = "current" /\ credential_usable /\ request' = client
           /\ BackendRefuses /\ UNCHANGED <<adapter, now>>
  BY <1>3, BackendRefusesKeeps
<1>4. CASE /\ state = "current" /\ credential_usable /\ request' = client
           /\ state' \in {"offline", "current"}
           /\ UNCHANGED <<adapter, claim, client, expiry, load, store, now, fate, rejected>>
  BY <1>4, AnswerKeeps DEF IInv, HandlesMatchState
<1> QED
  BY <1>1, <1>2, <1>3, <1>4 DEF SendRecognition

LEMMA ClearKeeps ==
    ASSUME IInv, TypeOK', ClearCredential
    PROVE  IInv'
<1>1. CASE state = "stopped"
  BY <1>1, RefuseKeeps DEF ClearCredential
<1>2. CASE state # "stopped"
  BY <1>2, ExpireKeeps DEF ClearCredential, Refuse
<1> QED
  BY <1>1, <1>2

LEMMA ShutdownKeeps ==
    ASSUME IInv, TypeOK', Shutdown \/ Restart
    PROVE  IInv'
<1>1. CASE Shutdown /\ state = "stopped"
  BY <1>1, RefuseKeeps DEF Shutdown
<1>2. CASE (Shutdown /\ state # "stopped") \/ Restart
  <2> USE <1>2 DEF IInv
  <2>1. /\ claim' = None /\ load' = None /\ client' = None /\ expiry' = 0
        /\ request' = None /\ state' \in {"stopped", "unpaired"}
        /\ UNCHANGED <<store, now, rejected>>
        /\ \E f \in {"cancelled", "lost"} : fate' = Settled(f)
    BY DEF Shutdown, Restart, cancel_claim, DropClient
  <2>2. adapter' <=> state' # "stopped"
    BY DEF Shutdown, Restart
  <2>3. HandlesMatchState'
    BY <2>1, <2>2 DEF HandlesMatchState
  <2>4. SourcesAreSettled'
    BY <2>1, SessionConstants DEF TypeOK, Settled, SourcesAreSettled
  <2>5. RefusedStaysDead'
    BY <2>1, SessionConstants DEF TypeOK, RefusedStaysDead
  <2> QED
    BY <2>1, <2>3, <2>4, <2>5
       DEF ClientIsPersisted, ClientIsValid, BearerOnlyWhileUsable
<1> QED
  BY <1>1, <1>2

LEMMA IInvInductive == Spec => []IInv
<1>1. Init => IInv
  <2> SUFFICES ASSUME Init PROVE IInv
    OBVIOUS
  <2>1. TypeOK
    BY SessionConstants, IntWidth DEF Init, TypeOK, SessionState, Fate, Result
  <2> QED
    BY <2>1, SessionConstants
       DEF Init, IInv, HandlesMatchState, ClientIsPersisted, ClientIsValid,
           SourcesAreSettled, RefusedStaysDead, BearerOnlyWhileUsable
<1>2. IInv /\ TypeOK' /\ [Next]_vars => IInv'
  <2> SUFFICES ASSUME IInv, TypeOK', [Next]_vars PROVE IInv'
    OBVIOUS
  <2>1. CASE Operation
    BY <2>1, ResumeKeeps, BeginClaimKeeps, AdvanceClaimKeeps, BeginLoadKeeps,
       AdvanceLoadKeeps, SendKeeps, ClearKeeps, ShutdownKeeps DEF Operation
  <2>2. CASE Restart
    BY <2>2, ShutdownKeeps
  <2>3. CASE SetClock
    BY <2>3 DEF SetClock, owned, IInv, HandlesMatchState, ClientIsPersisted,
                ClientIsValid, SourcesAreSettled, RefusedStaysDead, BearerOnlyWhileUsable
  <2>4. CASE UNCHANGED vars
    BY <2>4 DEF vars, owned, IInv, HandlesMatchState, ClientIsPersisted,
                ClientIsValid, SourcesAreSettled, RefusedStaysDead, BearerOnlyWhileUsable
  <2> QED
    BY <2>1, <2>2, <2>3, <2>4 DEF Next
<1> QED
  BY <1>1, <1>2, SessionTypeCorrect, PTL DEF Spec

-----------------------------------------------------------------------------
(* The results *)

\* What the session holds always agrees with the state it reports.
THEOREM HandlesAlwaysMatch == Spec => []HandlesMatchState
<1>1. IInv => HandlesMatchState
  BY DEF IInv
<1> QED
  BY <1>1, IInvInductive, PTL

\* The credential in use is always the persisted one.
THEOREM ClientAlwaysPersisted == Spec => []ClientIsPersisted
<1>1. IInv => ClientIsPersisted
  BY DEF IInv
<1> QED
  BY <1>1, IInvInductive, PTL

\* No expired bearer token is ever put on the wire.
THEOREM BearerNeverExpired == Spec => []BearerOnlyWhileUsable
<1>1. IInv => BearerOnlyWhileUsable
  BY DEF IInv
<1> QED
  BY <1>1, IInvInductive, PTL

\* No claim source is abandoned before it was cancelled or spent.
THEOREM SourcesAlwaysSettled == Spec => []SourcesAreSettled
<1>1. IInv => SourcesAreSettled
  BY DEF IInv
<1> QED
  BY <1>1, IInvInductive, PTL

\* With a store that can delete, a refused credential is gone for good.
THEOREM RefusedCredentialGone == Spec => []RefusedStaysDead
<1>1. IInv => RefusedStaysDead
  BY DEF IInv
<1> QED
  BY <1>1, IInvInductive, PTL

(***************************************************************************)
(* The refinement: with a store that can delete, every behaviour of the    *)
(* session is a behaviour of CredentialLease.  Each operation maps to one  *)
(* of Grant, Recall, Suspend and Forget, or leaves lease and kept alone.   *)
(***************************************************************************)
LEMMA SameUsable ==
    \A c, t : Lease!IsCredentialUsable(c, t) <=> IsCredentialUsable(c, t)
  BY DEF Lease!IsCredentialUsable, Lease!DeviceExpiry, Lease!OffsetGuardRejects,
         IsCredentialUsable, DeviceExpiry, OffsetGuardRejects

LEMMA NoBearerMoves ==
    ASSUME request' = None, UNCHANGED now,
           \/ \E c \in Credentials : Lease!Grant(c)
           \/ Lease!Recall
           \/ Lease!Suspend
           \/ Lease!Forget
           \/ UNCHANGED <<client, store>>
    PROVE  Lease!Next
  BY DEF Lease!Next, Lease!MayUse

LEMMA BearerMoves ==
    ASSUME IInv, credential_usable, request' = client, UNCHANGED now,
           Lease!Forget \/ UNCHANGED <<client, store>>
    PROVE  Lease!Next
  BY CachedExpiryIsCurrent, SameUsable DEF IInv, Lease!Next, Lease!MayUse

LEMMA RefuseMapsToStutter ==
    ASSUME NEW r, Refuse(r)
    PROVE  Lease!Next
  BY NoBearerMoves DEF Refuse, owned

LEMMA ExpireMapsToForget ==
    ASSUME ~ClearMayFail, NEW s, expire_credential(s)
    PROVE  Lease!Forget
  BY DEF expire_credential, DropClient, ClearStore, Lease!Forget

LEMMA ResumeMaps ==
    ASSUME IInv, ~ClearMayFail, Resume
    PROVE  Lease!Next
<1>1. CASE state = "stopped"
  BY <1>1, RefuseMapsToStutter DEF Resume
<1>2. CASE state # "stopped"
  <2>1. request' = None /\ now' = now
    BY <1>2 DEF Resume
  <2>2. \/ /\ store # None
           /\ Evaluate(store, now) = "usable"
           /\ client' = store /\ store' = store
        \/ client' = None /\ store' = store
        \/ client' = None /\ store' = None
    BY <1>2 DEF Resume, activate_credential, DropClient, ClearStore
  <2>3. CASE store # None /\ Evaluate(store, now) = "usable"
             /\ client' = store /\ store' = store
    <3>1. store \in Credentials
      BY <2>3 DEF IInv, TypeOK
    <3>2. Lease!Recall
      BY <2>3, <3>1, UsableCredential, SameUsable DEF Lease!Recall
    <3> QED
      BY <2>1, <3>2, NoBearerMoves
  <2>4. CASE client' = None /\ store' = store
    BY <2>1, <2>4, NoBearerMoves DEF Lease!Suspend
  <2>5. CASE client' = None /\ store' = None
    BY <2>1, <2>5, NoBearerMoves DEF Lease!Forget
  <2> QED
    BY <2>2, <2>3, <2>4, <2>5
<1> QED
  BY <1>1, <1>2

LEMMA AdvanceClaimMaps ==
    ASSUME IInv, ~ClearMayFail, AdvanceCredentialClaim
    PROVE  Lease!Next
<1>1. CASE Refuse("invalid_response") \/ PollPending
  BY <1>1, RefuseMapsToStutter DEF PollPending
<1>2. CASE SettleClaim
  <2>1. request' = None /\ now' = now
    BY <1>2 DEF SettleClaim
  <2>2. CASE ClaimFails
    BY <2>1, <2>2, NoBearerMoves DEF ClaimFails
  <2>3. ASSUME NEW c \in Credentials, ClaimUnusable(c) PROVE Lease!Next
    BY <2>1, <2>3, NoBearerMoves DEF ClaimUnusable, DropClient, Lease!Suspend
  <2>4. ASSUME NEW c \in Credentials, ClaimGranted(c) PROVE Lease!Next
    <3>1. Lease!Grant(c)
      BY <2>4, UsableCredential, SameUsable
         DEF ClaimGranted, activate_credential, Lease!Grant
    <3> QED
      BY <2>1, <3>1, NoBearerMoves
  <2>5. ASSUME NEW c \in Credentials, ClaimNotSaved(c) PROVE Lease!Next
    <3>1. Lease!Forget
      BY <2>5 DEF ClaimNotSaved, DropClient, ClearStore, Lease!Forget
    <3> QED
      BY <2>1, <3>1, NoBearerMoves
  <2> QED
    BY <1>2, <2>2, <2>3, <2>4, <2>5 DEF SettleClaim
<1> QED
  BY <1>1, <1>2 DEF AdvanceCredentialClaim

LEMMA FindExpiredMaps ==
    ASSUME ~ClearMayFail, FindExpired
    PROVE  Lease!Next
  BY ExpireMapsToForget, NoBearerMoves DEF FindExpired

LEMMA OperationMaps ==
    ASSUME IInv, ~ClearMayFail, Operation
    PROVE  Lease!Next
<1>1. CASE Resume
  BY <1>1, ResumeMaps
<1>2. ASSUME NEW s \in Sources \cup {None}, BeginCredentialClaim(s) PROVE Lease!Next
  <2>1. CASE Refuse("false")
    BY <2>1, RefuseMapsToStutter
  <2>2. CASE ~Refuse("false")
    BY <1>2, <2>2, NoBearerMoves DEF BeginCredentialClaim, DropClient, Lease!Suspend
  <2> QED
    BY <2>1, <2>2
<1>3. CASE AdvanceCredentialClaim
  BY <1>3, AdvanceClaimMaps
<1>4. CASE BeginDashboardLoad
  <2>1. CASE Refuse("invalid_response") \/ Refuse("unauthorized")
    BY <2>1, RefuseMapsToStutter
  <2>2. CASE FindExpired
    BY <2>2, FindExpiredMaps
  <2>3. CASE request' = None /\ UNCHANGED <<client, store, now>>
    BY <2>3, NoBearerMoves
  <2> QED
    BY <1>4, <2>1, <2>2, <2>3 DEF BeginDashboardLoad
<1>5. CASE AdvanceDashboardLoad
  <2>1. CASE Refuse("invalid_response")
    BY <2>1, RefuseMapsToStutter
  <2>2. CASE FindExpired
    BY <2>2, FindExpiredMaps
  <2>3. CASE credential_usable /\ request' = client /\ now' = now /\ LoadAnswers
    BY <2>3, BearerMoves, ExpireMapsToForget DEF LoadAnswers, BackendRefuses
  <2> QED
    BY <1>5, <2>1, <2>2, <2>3 DEF AdvanceDashboardLoad
<1>6. CASE SendRecognition
  <2>1. CASE Refuse("invalid_response") \/ Refuse("unauthorized")
    BY <2>1, RefuseMapsToStutter
  <2>2. CASE FindExpired
    BY <2>2, FindExpiredMaps
  <2>3. CASE /\ credential_usable /\ request' = client /\ now' = now
             /\ BackendRefuses \/ UNCHANGED <<client, store>>
    BY <2>3, BearerMoves, ExpireMapsToForget DEF BackendRefuses
  <2> QED
    BY <1>6, <2>1, <2>2, <2>3 DEF SendRecognition
<1>7. CASE ClearCredential
  <2>1. CASE Refuse("none")
    BY <2>1, RefuseMapsToStutter
  <2>2. CASE ~Refuse("none")
    BY <1>7, <2>2, ExpireMapsToForget, NoBearerMoves DEF ClearCredential
  <2> QED
    BY <2>1, <2>2
<1>8. CASE Shutdown
  <2>1. CASE Refuse("none")
    BY <2>1, RefuseMapsToStutter
  <2>2. CASE ~Refuse("none")
    BY <1>8, <2>2, NoBearerMoves DEF Shutdown, DropClient, Lease!Suspend
  <2> QED
    BY <2>1, <2>2
<1> QED
  BY <1>1, <1>2, <1>3, <1>4, <1>5, <1>6, <1>7, <1>8 DEF Operation

\* With a store that can delete, the session implements CredentialLease.
THEOREM SessionKeepsLease ==
    ASSUME ~ClearMayFail
    PROVE  Spec => KeepsLease
<1>1. Init => Lease!Init
  BY DEF Init, Lease!Init
<1>2. IInv /\ [Next]_vars => [Lease!Next]_(Lease!vars)
  <2> SUFFICES ASSUME IInv, [Next]_vars PROVE [Lease!Next]_(Lease!vars)
    OBVIOUS
  <2>1. CASE Operation
    BY <2>1, OperationMaps
  <2>2. CASE Restart
    BY <2>2, NoBearerMoves DEF Restart, DropClient, Lease!Suspend
  <2>3. CASE SetClock
    BY <2>3 DEF SetClock, owned, Lease!Next
  <2>4. CASE UNCHANGED vars
    BY <2>4 DEF vars, owned, Lease!vars
  <2> QED
    BY <2>1, <2>2, <2>3, <2>4 DEF Next
<1> QED
  BY <1>1, <1>2, IInvInductive, PTL DEF Spec, KeepsLease, Lease!Spec

(***************************************************************************)
(* What the promise comes to, from CredentialLease alone.                  *)
(***************************************************************************)

\* The console works with what a restart would find.
LeaseIsKept == client # None => store = client

\* What goes on the wire is the persisted credential, and usable at that time.
WireIsKept == request' # None => /\ request' = store
                                 /\ IsCredentialUsable(store, now)

THEOREM LeaseOnlyOfKept ==
    Lease!Spec => []LeaseIsKept /\ [][WireIsKept]_(Lease!vars)
<1>1. Lease!Init => LeaseIsKept
  BY DEF Lease!Init, LeaseIsKept
<1>2. LeaseIsKept /\ [Lease!Next]_(Lease!vars) => LeaseIsKept'
  BY DEF LeaseIsKept, Lease!Next, Lease!vars, Lease!Grant, Lease!Recall, Lease!Suspend,
         Lease!Forget
<1>3. LeaseIsKept /\ [Lease!Next]_(Lease!vars) => [WireIsKept]_(Lease!vars)
  BY SameUsable DEF LeaseIsKept, WireIsKept, Lease!Next, Lease!vars, Lease!MayUse
<1> QED
  BY <1>1, <1>2, <1>3, PTL DEF Lease!Spec

\* c is neither worked with nor persisted.
GivenUp(c) == client # c /\ store # c

\* A credential that is neither, as after a logout or a refusal, is not
\* worked with, persisted or put on the wire again unless it is granted anew.
THEOREM GivenUpStaysAway ==
    ASSUME NEW c \in Credentials
    PROVE  Lease!Spec => [](GivenUp(c) /\ [][~Lease!Grant(c)]_(Lease!vars) =>
                                []GivenUp(c) /\ [][request' # c]_(Lease!vars))
<1> USE SessionConstants
<1>1. GivenUp(c) /\ [Lease!Next]_(Lease!vars) /\ [~Lease!Grant(c)]_(Lease!vars) => GivenUp(c)'
  BY DEF GivenUp, Lease!Next, Lease!vars, Lease!Grant, Lease!Recall, Lease!Suspend,
         Lease!Forget
<1>2. GivenUp(c) /\ [Lease!Next]_(Lease!vars) => [request' # c]_(Lease!vars)
  BY DEF GivenUp, Lease!Next, Lease!vars, Lease!MayUse
<1> QED
  BY <1>1, <1>2, PTL DEF Lease!Spec

-----------------------------------------------------------------------------
(* The session in the program *)

LEMMA OperationsKeepClock == Operation \/ Restart => now' = now
  BY DEF Operation, Restart, Resume, Refuse, BeginCredentialClaim, AdvanceCredentialClaim,
         PollPending, SettleClaim, BeginDashboardLoad, FindExpired, AdvanceDashboardLoad,
         SendRecognition, ClearCredential, Shutdown

\* A step of the program that calls no operation is like a clock that is set
\* to the time it shows.
LEMMA FrameIsAnOperation ==
    ASSUME now \in Times, [AppNext]_appVars
    PROVE  [Next]_vars
<1>1. CASE NoCall
  BY <1>1 DEF NoCall, Refuse, Next, SetClock
<1>2. CASE Operation
  BY <1>2 DEF Next
<1>3. CASE AppNext
  <2>2. CASE StartUp
    BY <1>2, <2>2 DEF StartUp, Operation
  <2>3. CASE AdvanceClaim
    BY <1>2, <2>3 DEF AdvanceClaim, Operation
  <2>4. CASE BeginClaimedLoad
    BY <1>2, <2>4 DEF BeginClaimedLoad, start_dashboard_load, Operation
  <2>5. CASE AdvanceLoad
    BY <1>2, <2>5 DEF AdvanceLoad, Operation
  <2>6. CASE AdvanceNothing
    BY <1>1, <2>6 DEF AdvanceNothing
  <2>7. CASE NoInput
    BY <1>1, <2>7 DEF NoInput
  <2>8. CASE DeleteSession
    BY <1>2, <2>8 DEF DeleteSession, Operation
  <2>9. CASE OpenOffice
    BY <1>1, <1>2, <2>9 DEF OpenOffice, start_dashboard_load, Operation
  <2>10. CASE StartScan
    BY <1>1, <2>10 DEF StartScan
  <2>11. CASE ScanEnds
    BY <1>1, <1>2, <2>11 DEF ScanEnds, BeginPairing, RefuseEntry, Operation
  <2>12. CASE Accept
    BY <1>1, <1>2, <2>12 DEF Accept, BeginPairing, RefuseEntry, Operation
  <2>13. CASE CancelLogin
    BY <1>1, <2>13 DEF CancelLogin
  <2>14. CASE Retry
    BY <1>2, <2>14 DEF Retry, start_dashboard_load, Operation
  <2>15. CASE LeaveUnavailable
    BY <1>1, <2>15 DEF LeaveUnavailable
  <2>16. CASE GoHome
    BY <1>1, <2>16 DEF GoHome
  <2>17. CASE Refresh
    BY <1>2, <2>17 DEF Refresh, start_dashboard_load, Operation
  <2>18. CASE SendSelected
    BY <1>2, <2>18 DEF SendSelected, Operation
  <2>19. CASE Exit
    BY <1>2, <2>19 DEF Exit, Operation
  <2>20. CASE Relaunch
    BY <2>20 DEF Relaunch, Next
  <2>21. CASE ClockMoves
    BY <2>21 DEF ClockMoves, Next
  <2> QED
    BY <1>3, <2>2, <2>3, <2>4, <2>5, <2>6, <2>7, <2>8, <2>9, <2>10, <2>11, <2>12, <2>13,
       <2>14, <2>15, <2>16, <2>17, <2>18, <2>19, <2>20, <2>21 DEF AppNext, Frame, Input
<1>4. CASE UNCHANGED appVars
  BY <1>4 DEF appVars
<1> QED
  BY <1>3, <1>4

\* The program implements ProductSession: it is one of the callers for which
\* the session's promises are stated.
THEOREM ProgramKeepsToOperations == AppSpec => Spec
<1>1. AppInit => Init /\ now \in Times
  BY DEF AppInit, Init
<1>2. now \in Times /\ [AppNext]_appVars => [Next]_vars
  BY FrameIsAnOperation
<1>3. now \in Times /\ [Next]_vars => (now \in Times)'
  BY OperationsKeepClock DEF Next, SetClock, vars
<1> QED
  BY <1>1, <1>2, <1>3, PTL DEF AppSpec, Spec

\* With a store that can delete, the whole program keeps the promise of
\* CredentialLease, whatever is pressed.
THEOREM ProgramKeepsLease ==
    ASSUME ~ClearMayFail
    PROVE  AppSpec => KeepsLease
  BY ProgramKeepsToOperations, SessionKeepsLease, PTL

\* Whatever the user does after giving a credential up, no screen brings it
\* back: only a bridge that grants it anew does.
THEOREM ProgramLeavesGivenUp ==
    ASSUME ~ClearMayFail, NEW c \in Credentials
    PROVE  AppSpec => [](GivenUp(c) /\ [][~Lease!Grant(c)]_(Lease!vars) =>
                             []GivenUp(c) /\ [][request' # c]_(Lease!vars))
  BY ProgramKeepsLease, GivenUpStaysAway, PTL DEF KeepsLease

\* What is proved of the session holds in the program, such as that no expired
\* bearer token is put on the wire by any screen.
THEOREM ProgramSendsNoExpiredBearer == AppSpec => []BearerOnlyWhileUsable
  BY ProgramKeepsToOperations, BearerNeverExpired, PTL

-----------------------------------------------------------------------------
(* What the operations answer, as far as the screens depend on it *)

Busy == {"claiming", "loading"}

LEMMA ResumeAnswers ==
    ASSUME Resume, state # "stopped"
    PROVE  /\ state' \notin Busy \cup {"stopped"}
           /\ result' # "usable" => client' = None
  BY DEF Resume, Busy, DropClient, activate_credential

LEMMA BeginClaimAnswers ==
    ASSUME NEW s, BeginCredentialClaim(s)
    PROVE  \/ result' = "true" /\ state' = "claiming" /\ client' = None /\ load' = None
           \/ result' = "false" /\ state' = state /\ client' = client /\ load' = load
  BY DEF BeginCredentialClaim, Refuse, owned, DropClient

LEMMA ClaimAnswers ==
    ASSUME HandlesMatchState, state = "claiming", AdvanceCredentialClaim
    PROVE  \/ result' = "pending" /\ state' = "claiming" /\ client' = client
           \/ result' = "accepted" /\ state' = "ready"
           \/ /\ result' \notin {"pending", "accepted"}
              /\ state' \notin Busy \cup {"stopped"} /\ client' = None
  BY EvaluateRange
     DEF AdvanceCredentialClaim, PollPending, SettleClaim, Refuse, owned, ClaimFails,
         ClaimUnusable, ClaimGranted, ClaimNotSaved, HandlesMatchState, Busy, DropClient,
         activate_credential

LEMMA BeginLoadAnswers ==
    ASSUME HandlesMatchState, state \notin Busy \cup {"stopped"}, BeginDashboardLoad
    PROVE  \/ result' = "ok" /\ state' = "loading" /\ load' = 0 /\ client' = client
           \/ /\ result' # "ok" /\ state' \notin Busy \cup {"stopped"}
              /\ client' \in {client, None}
  BY DEF BeginDashboardLoad, FindExpired, Refuse, owned, expire_credential, DropClient, Busy,
         HandlesMatchState

LEMMA LoadAnswer ==
    ASSUME TypeOK, HandlesMatchState, state = "loading", AdvanceDashboardLoad
    PROVE  \/ /\ result' = "progress" /\ state' = "loading" /\ client' = client
              /\ load + 1 < Stages /\ load' = load + 1
           \/ result' = "loaded" /\ state' = "current" /\ client' = client
           \/ result' = "unauthorized" /\ state' = "expired" /\ client' = None
           \/ /\ result' \in {"unavailable", "invalid_response"} /\ state' = "offline"
              /\ client' = client
  BY DEF AdvanceDashboardLoad, FindExpired, LoadAnswers, BackendRefuses, expire_credential,
         DropClient, HandlesMatchState

LEMMA SendAnswers ==
    ASSUME HandlesMatchState, state \notin Busy \cup {"stopped"}, SendRecognition
    PROVE  /\ state' \notin Busy \cup {"stopped"}
           /\ client' \in {client, None}
  BY DEF SendRecognition, FindExpired, BackendRefuses, Refuse, owned, expire_credential,
         DropClient, Busy, HandlesMatchState

LEMMA ClearAnswers ==
    ASSUME state # "stopped", ClearCredential
    PROVE  state' = "unpaired" /\ client' = None
  BY DEF ClearCredential, expire_credential, DropClient

LEMMA NoCallAnswers ==
    ASSUME NoCall
    PROVE  state' = state /\ client' = client /\ load' = load
  BY DEF NoCall, Refuse, owned

-----------------------------------------------------------------------------
(* What the methods of the flow leave of it *)

LEMMA FlowShown ==
    ASSUME NEW f \in Flows(Stages), NEW m \in LoginMessage
    PROVE  /\ ShowPrelogin(f) \in Flows(Stages)
           /\ ShowPrelogin(f).view = "prelogin"
           /\ ShowLogin(f, m) \in Flows(Stages)
           /\ ShowLogin(f, m).view = "login" /\ ShowLogin(f, m).login_message = m
           /\ ShowDashboard(f) \in Flows(Stages)
           /\ ShowDashboard(f).view = "dashboard"
           /\ ShowLoadingUnavailable(f) \in Flows(Stages)
           /\ ShowLoadingUnavailable(f).view = "loading"
           /\ ShowLoadingUnavailable(f).loading_state = "unavailable"
           /\ ShowLoadingUnavailable(f).loading_context = f.loading_context
  BY DEF Flows, ShowPrelogin, ShowLogin, ShowDashboard, ShowLoadingUnavailable, ClientView

LEMMA FlowLoading ==
    ASSUME NEW f \in Flows(Stages), NEW c \in LoadingContext
    PROVE  LET g == StartLoading(f, c, Stages)
           IN  /\ g \in Flows(Stages)
               /\ IsLoading(g)
               /\ g.loading_context = c
               /\ g.completed = 0
               /\ g.total = Stages + Claiming(c)
<1> DEFINE total == Stages + Claiming(c)
           g == [f EXCEPT !.view = "loading", !.loading_state = "loading",
                          !.loading_context = c, !.completed = 0, !.total = total]
<1>1. DOMAIN f = {"view", "login_message", "loading_state", "loading_context",
                  "completed", "total"}
  BY DEF Flows
<1>2. /\ g.view = "loading" /\ g.loading_state = "loading" /\ g.loading_context = c
      /\ g.completed = 0 /\ g.total = total /\ g.login_message = f.login_message
  BY <1>1, Zenon
<1>3. total \in Stages .. Stages + 1
  BY SessionConstants DEF Claiming
<1>4. g = [field \in DOMAIN f |-> g[field]]
  BY Zenon
<1> HIDE DEF g
<1>5. g = [view |-> "loading", login_message |-> f.login_message, loading_state |-> "loading",
           loading_context |-> c, completed |-> 0, total |-> total]
  <2> HIDE DEF total
  <2> QED
    BY <1>1, <1>2, <1>4
<1>6. f.login_message \in LoginMessage /\ 0 \in 0 .. Stages + 1
  BY SessionConstants DEF Flows
<1>7. g \in Flows(Stages)
  <2> HIDE DEF total
  <2> QED
    BY <1>3, <1>5, <1>6 DEF Flows, ClientView
<1>8. StartLoading(f, c, Stages) = g
  BY Zenon DEF StartLoading, g
<1> QED
  BY <1>2, <1>7, <1>8 DEF IsLoading

LEMMA FlowProgress ==
    ASSUME NEW f \in Flows(Stages), NEW n \in Nat, NEW t
    PROVE  LET g == SetLoadingProgress(f, n, t)
           IN  /\ g \in Flows(Stages)
               /\ g.view = f.view /\ g.loading_state = f.loading_state
               /\ g.loading_context = f.loading_context
               /\ g.login_message = f.login_message
               /\ g.total = f.total
               /\ g.completed = IF ProgressAccepted(f, n, t) THEN n ELSE f.completed
  BY SessionConstants DEF Flows, SetLoadingProgress, ProgressAccepted

-----------------------------------------------------------------------------
(***************************************************************************)
(* The screens.  WorkIsShown says nothing of the middle of a frame, where  *)
(* a claim has been accepted and its load has not begun; BoardIsOwn says   *)
(* nothing of a refresh, from which the program may come back to the old   *)
(* dashboard; and that a board is only loaded for a saved session needs    *)
(* that nothing is loaded, or offered to be loaded again, without one.     *)
(***************************************************************************)
ProgramInv ==
    /\ pc = "resume" => state = "unpaired" /\ flow.view = "prelogin" /\ snapshot = None
    /\ pc = "begin" => state = "ready" /\ IsLoading(flow) /\ has_saved_session
    /\ pc = "exited" <=> state = "stopped"
    /\ WorkIsShown

BoardInv ==
    /\ \/ flow.view = "dashboard"
       \/ flow.view = "loading" /\ flow.loading_context = "refresh"
       => snapshot # None /\ client \in {snapshot, None}
    /\ state = "claiming" => flow.loading_context = "pairing"
    /\ pc = "begin" => flow.loading_context = "pairing"
    /\ \/ state = "loading"
       \/ flow.view = "loading" /\ flow.loading_state = "unavailable"
       => has_saved_session
    /\ BoardIsOwn

AppInv == AppTypeOK /\ ProgramInv /\ BoardInv /\ LoginIsUsable /\ ProgressIsTrue

LEMMA AppInvInductive ==
    ASSUME IInv, AppInv, [AppNext]_appVars
    PROVE  AppInv'
<1> USE DEF AppInv, AppTypeOK, ProgramInv, BoardInv, LoginIsUsable, ProgressIsTrue,
            WorkIsShown, BoardIsOwn, IsLoading, Busy
<1>1. /\ TypeOK /\ HandlesMatchState
      /\ \A c \in Credentials : c # None
  BY SessionConstants DEF IInv
<1>2. {"enter_pairing_details", "invalid_pairing_details", "pairing_rejected",
       "pairing_unavailable", "session_expired", "camera_unavailable", "scanning_qr",
       "invalid_qr_payload"} \subseteq LoginMessage
  BY DEF LoginMessage
<1>3. /\ flow.view \in ClientView /\ flow.loading_state \in {"loading", "unavailable"}
      /\ flow.loading_context \in LoadingContext
  BY DEF Flows
<1>4. CASE StartUp
  <2>1. state' \notin Busy \cup {"stopped"} /\ (result' # "usable" => client' = None)
    BY <1>4, ResumeAnswers DEF StartUp
  <2>2. flow' \in Flows(Stages) /\ flow'.view = "prelogin"
    BY <1>2, <1>4, FlowShown DEF StartUp
  <2> QED
    BY <1>4, <2>1, <2>2 DEF StartUp, login, board
<1>5. CASE AdvanceNothing
  BY <1>1, <1>5, NoCallAnswers DEF AdvanceNothing, Advancing, login, board
<1>6. CASE NoInput
  BY <1>1, <1>6, NoCallAnswers DEF NoInput, EndFrame, login, board
<1>7. CASE DeleteSession
  <2>1. state' = "unpaired" /\ client' = None
    BY <1>7, ClearAnswers DEF DeleteSession, On
  <2>2. flow' \in Flows(Stages) /\ flow'.view = "prelogin"
    BY <1>2, <1>7, FlowShown DEF DeleteSession
  <2> QED
    BY <1>7, <2>1, <2>2 DEF DeleteSession, On, EndFrame, ForgetBoard, login
<1>8. CASE StartScan
  <2>1. /\ flow' \in Flows(Stages) /\ flow'.view = "login"
        /\ \/ scanner_active' = TRUE /\ flow'.login_message = "scanning_qr"
           \/ scanner_active' = FALSE /\ flow'.login_message = "camera_unavailable"
    BY <1>2, <1>8, FlowShown DEF StartScan
  <2> QED
    BY <1>8, <2>1, NoCallAnswers DEF StartScan, On, EndFrame, board
<1>9. CASE CancelLogin
  <2>1. flow' \in Flows(Stages) /\ flow'.view = "prelogin"
    BY <1>2, <1>9, FlowShown DEF CancelLogin
  <2> QED
    BY <1>9, <2>1, NoCallAnswers DEF CancelLogin, On, EndFrame, board
<1>10. CASE GoHome
  <2>1. flow' \in Flows(Stages) /\ flow'.view = "prelogin"
    BY <1>2, <1>10, FlowShown DEF GoHome
  <2> QED
    BY <1>10, <2>1, NoCallAnswers DEF GoHome, On, EndFrame, board, login
<1>11. CASE LeaveUnavailable
  <2>1. state \notin Busy /\ pc' = "advance" /\ UNCHANGED <<has_saved_session, board>>
    BY <1>11 DEF LeaveUnavailable, On, EndFrame
  <2>2. CASE flow' = ShowDashboard(flow) /\ UNCHANGED login
    <3>1. flow' \in Flows(Stages) /\ flow'.view = "dashboard"
      BY <1>2, <2>2, FlowShown
    <3>2. flow.loading_context = "refresh"
      BY <1>2, <1>11, <2>2, <3>1, FlowShown DEF LeaveUnavailable, open_login
    <3> QED
      BY <1>11, <2>1, <2>2, <3>1, <3>2, NoCallAnswers
         DEF LeaveUnavailable, On, EndFrame, board, login
  <2>3. CASE open_login("enter_pairing_details")
    <3>1. /\ flow' \in Flows(Stages) /\ flow'.view = "login"
          /\ flow'.login_message = "enter_pairing_details"
      BY <1>2, <2>3, FlowShown DEF open_login
    <3> QED
      BY <1>11, <2>1, <2>3, <3>1, NoCallAnswers
         DEF LeaveUnavailable, On, EndFrame, board, open_login
  <2> QED
    BY <1>11, <2>2, <2>3 DEF LeaveUnavailable
<1>12. CASE UNCHANGED appVars
  BY <1>12 DEF appVars, vars, owned, app, login, board
<1>13. CASE ClockMoves
  BY <1>13 DEF ClockMoves, SetClock, owned, app, login, board
<1>14. CASE Relaunch
  <2>1. state' = "unpaired" /\ client' = None
    BY <1>14 DEF Relaunch, Restart, DropClient
  <2>2. flow' \in Flows(Stages) /\ flow'.view = "prelogin" /\ pc' = "resume"
    BY <1>14, SessionConstants
       DEF Relaunch, Fresh, InitialFlow, Flows, ClientView, LoginMessage, LoadingContext
  <2> QED
    BY <1>14, <2>1, <2>2 DEF Relaunch, Fresh
<1>15. CASE Exit
  <2>1. state' = "stopped" /\ client' = None
    BY <1>15 DEF Exit, Shutdown, DropClient
  <2> QED
    BY <1>15, <2>1 DEF Exit, board
<1>16. CASE AdvanceClaim
  <2>1. /\ pc = "advance" /\ IsLoading(flow) /\ state = "claiming"
        /\ loading_rendered' = FALSE /\ UNCHANGED board
    BY <1>16 DEF AdvanceClaim, Advancing
  <2>2. \/ result' = "pending" /\ state' = "claiming" /\ client' = client
        \/ result' = "accepted" /\ state' = "ready"
        \/ /\ result' \notin {"pending", "accepted"}
           /\ state' \notin Busy \cup {"stopped"} /\ client' = None
    BY <1>1, <1>16, ClaimAnswers DEF AdvanceClaim
  <2>3. CASE result' = "accepted"
    <3>1. has_saved_session' = TRUE /\ pc' = "begin" /\ UNCHANGED <<flow, login>>
      BY <1>16, <2>3 DEF AdvanceClaim
    <3> QED
      BY <2>1, <2>2, <2>3, <3>1 DEF board, login
  <2>4. CASE result' = "pending"
    <3>1. pc' = "input" /\ UNCHANGED <<flow, has_saved_session, login>>
      BY <1>16, <2>4 DEF AdvanceClaim
    <3> QED
      BY <2>1, <2>2, <2>4, <3>1 DEF board, login
  <2>5. CASE result' \notin {"accepted", "pending"}
    <3>1. /\ \E m \in {"pairing_rejected", "pairing_unavailable"} : open_login(m)
          /\ pc' = "input" /\ UNCHANGED has_saved_session
      BY <1>16, <2>5 DEF AdvanceClaim
    <3>2. PICK m \in {"pairing_rejected", "pairing_unavailable"} : open_login(m)
      BY <3>1
    <3>3. /\ flow' \in Flows(Stages) /\ flow'.view = "login" /\ flow'.login_message = m
          /\ entry_open' = TRUE /\ scanner_active' = scanner_active
      BY <1>2, <3>2, FlowShown DEF open_login
    <3>4. state' \notin Busy \cup {"stopped"} /\ client' = None
      BY <2>2, <2>5
    <3> QED
      BY <2>1, <3>1, <3>3, <3>4 DEF board
  <2> QED
    BY <2>3, <2>4, <2>5
<1>17. ASSUME NEW c \in LoadingContext, start_dashboard_load(c),
              state \notin Busy \cup {"stopped"}
       PROVE  /\ flow' \in Flows(Stages) /\ flow'.view = "loading"
              /\ flow'.loading_context = c
              /\ \/ /\ state' = "loading" /\ load' = 0 /\ client' = client
                    /\ flow'.loading_state = "loading" /\ flow'.completed = 0
                    /\ flow'.total = Stages + Claiming(c)
                 \/ /\ state' \notin Busy \cup {"stopped"} /\ client' \in {client, None}
                    /\ flow'.loading_state = "unavailable"
  <2> DEFINE g == StartLoading(flow, c, Stages)
  <2>1. /\ g \in Flows(Stages) /\ g.view = "loading" /\ g.loading_state = "loading"
        /\ g.loading_context = c /\ g.completed = 0 /\ g.total = Stages + Claiming(c)
    BY <1>17, FlowLoading
  <2>2. /\ ShowLoadingUnavailable(g) \in Flows(Stages)
        /\ ShowLoadingUnavailable(g).view = "loading"
        /\ ShowLoadingUnavailable(g).loading_state = "unavailable"
        /\ ShowLoadingUnavailable(g).loading_context = c
    BY <1>2, <2>1, FlowShown
  <2>3. BeginDashboardLoad /\ flow' = IF result' = "ok" THEN g ELSE ShowLoadingUnavailable(g)
    BY <1>17 DEF start_dashboard_load
  <2> HIDE DEF g
  <2> QED
    BY <1>1, <1>17, <2>1, <2>2, <2>3, BeginLoadAnswers
<1>18. CASE BeginClaimedLoad
  <2>1. start_dashboard_load("pairing") /\ "pairing" \in LoadingContext
    BY <1>18 DEF BeginClaimedLoad, LoadingContext
  <2> QED
    BY <1>17, <1>18, <2>1 DEF BeginClaimedLoad, board, login
<1>19. CASE OpenOffice
  <2>1. CASE has_saved_session
    <3>1. start_dashboard_load("resume") /\ "resume" \in LoadingContext /\ UNCHANGED login
      BY <1>19, <2>1 DEF OpenOffice, LoadingContext
    <3> QED
      BY <1>17, <1>19, <2>1, <3>1 DEF OpenOffice, On, EndFrame, board, login
  <2>2. CASE ~has_saved_session
    <3>1. /\ flow' \in Flows(Stages) /\ flow'.view = "login"
          /\ flow'.login_message = "enter_pairing_details"
      BY <1>2, <1>19, <2>2, FlowShown DEF OpenOffice
    <3> QED
      BY <1>19, <2>2, <3>1, NoCallAnswers DEF OpenOffice, On, EndFrame, board
  <2> QED
    BY <2>1, <2>2
<1>20. CASE Retry
  <2>1. PICK c \in LoadingContext : /\ start_dashboard_load(c)
                                    /\ c = "refresh" => flow.loading_context = "refresh"
    BY <1>3, <1>20 DEF Retry, LoadingContext
  <2> QED
    BY <1>17, <1>20, <2>1 DEF Retry, On, EndFrame, board, login
<1>21. CASE Refresh
  <2>1. start_dashboard_load("refresh") /\ "refresh" \in LoadingContext
    BY <1>21 DEF Refresh, LoadingContext
  <2> QED
    BY <1>17, <1>21, <2>1 DEF Refresh, On, EndFrame, board, login
<1>22. ASSUME BeginPairing, state \notin Busy \cup {"stopped"}, flow.view = "login"
       PROVE  /\ flow' \in Flows(Stages)
              /\ \/ /\ state' = "claiming" /\ client' = None /\ flow'.view = "loading"
                    /\ flow'.loading_state = "loading" /\ flow'.loading_context = "pairing"
                    /\ entry_open' = entry_open
                 \/ /\ state' = state /\ client' = client /\ flow'.view = "login"
                    /\ flow'.login_message = "pairing_unavailable" /\ entry_open' = TRUE
  <2>1. \/ result' = "true" /\ state' = "claiming" /\ client' = None
        \/ result' = "false" /\ state' = state /\ client' = client
    BY <1>22, BeginClaimAnswers DEF BeginPairing
  <2>2. CASE result' = "true"
    <3>1. flow' = StartLoading(flow, "pairing", Stages) /\ entry_open' = entry_open
      BY <1>22, <2>2 DEF BeginPairing
    <3> QED
      BY <2>1, <2>2, <3>1, FlowLoading DEF LoadingContext
  <2>3. CASE result' = "false"
    <3>1. flow' = ShowLogin(flow, "pairing_unavailable") /\ entry_open' = TRUE
      BY <1>22, <2>3 DEF BeginPairing
    <3> QED
      BY <1>2, <2>1, <2>3, <3>1, FlowShown
  <2> QED
    BY <2>1, <2>2, <2>3
<1>23. ASSUME NEW m \in LoginMessage \ {"scanning_qr"}, RefuseEntry(m)
       PROVE  /\ state' = state /\ client' = client /\ entry_open' = entry_open
              /\ flow' \in Flows(Stages) /\ flow'.view = "login" /\ flow'.login_message = m
  BY <1>23, FlowShown, NoCallAnswers DEF RefuseEntry
<1>24. CASE ScanEnds
  <2>1. /\ pc = "input" /\ flow.view = "login" /\ state \notin Busy \cup {"stopped"}
        /\ scanner_active' = FALSE /\ pc' = "advance" /\ UNCHANGED <<has_saved_session, board>>
        /\ loading_rendered' = IsLoading(flow')
    BY <1>24 DEF ScanEnds, On, EndFrame
  <2>2. CASE BeginPairing
    BY <1>22, <2>1, <2>2 DEF board
  <2>3. ASSUME NEW m \in LoginMessage \ {"scanning_qr"}, RefuseEntry(m) PROVE AppInv'
    BY <1>23, <2>1, <2>3 DEF board
  <2> QED
    BY <1>24, <2>2, <2>3 DEF ScanEnds, LoginMessage
<1>25. CASE Accept
  <2>1. /\ pc = "input" /\ flow.view = "login" /\ state \notin Busy \cup {"stopped"}
        /\ scanner_active = FALSE /\ scanner_active' = FALSE
        /\ pc' = "advance" /\ UNCHANGED <<has_saved_session, board>>
        /\ loading_rendered' = IsLoading(flow')
    BY <1>25 DEF Accept, On, EndFrame
  <2>2. CASE BeginPairing
    BY <1>22, <2>1, <2>2 DEF board
  <2>3. ASSUME NEW m \in LoginMessage \ {"scanning_qr"}, RefuseEntry(m) PROVE AppInv'
    BY <1>23, <2>1, <2>3 DEF board
  <2> QED
    BY <1>25, <2>2, <2>3 DEF Accept, LoginMessage
<1>26. CASE SendSelected
  <2>1. /\ pc = "input" /\ flow.view = "dashboard" /\ state \notin Busy \cup {"stopped"}
        /\ pc' = "advance" /\ loading_rendered' = IsLoading(flow')
    BY <1>26 DEF SendSelected, On, EndFrame
  <2>2. state' \notin Busy \cup {"stopped"} /\ client' \in {client, None}
    BY <1>1, <1>26, <2>1, SendAnswers DEF SendSelected
  <2>3. CASE UNCHANGED <<flow, has_saved_session, login, board>>
    BY <2>1, <2>2, <2>3 DEF login, board
  <2>4. CASE /\ has_saved_session' = FALSE /\ ForgetBoard /\ open_login("session_expired")
             /\ result' = "unauthorized"
    <3>1. /\ flow' \in Flows(Stages) /\ flow'.view = "login"
          /\ flow'.login_message = "session_expired"
          /\ entry_open' = TRUE /\ scanner_active' = scanner_active
      BY <1>2, <2>4, FlowShown DEF open_login
    <3> QED
      BY <2>1, <2>2, <2>4, <3>1 DEF ForgetBoard
  <2> QED
    BY <1>26, <2>3, <2>4 DEF SendSelected
<1>27. CASE AdvanceLoad
  <2> DEFINE offset == Claiming(flow.loading_context)
  <2>1. /\ pc = "advance" /\ IsLoading(flow) /\ state = "loading" /\ has_saved_session
        /\ loading_rendered' = FALSE /\ pc' = "input" /\ scanner_active = FALSE
    BY <1>27 DEF AdvanceLoad, Advancing
  <2>2. /\ flow.total = Stages + offset /\ offset \in {0, 1}
        /\ flow.completed = IF load = 0 THEN 0 ELSE load + offset
        /\ load \in 0 .. Stages - 1 /\ Stages \in Nat \ {0}
    BY <1>1, <2>1, SessionConstants DEF Claiming, TypeOK, HandlesMatchState
  <2>3. ASSUME NEW n \in Nat
        PROVE  /\ Progress(n) \in Flows(Stages)
               /\ Progress(n).view = flow.view /\ Progress(n).loading_state = flow.loading_state
               /\ Progress(n).loading_context = flow.loading_context
               /\ Progress(n).total = flow.total
               /\ n > load /\ n <= Stages => Progress(n).completed = n + offset
    <3>1. Progress(n) = SetLoadingProgress(flow, n + offset, Stages + offset)
      BY DEF Progress
    <3>2. n + offset \in Nat
      BY <2>2
    <3>3. n > load /\ n <= Stages => ProgressAccepted(flow, n + offset, Stages + offset)
      BY <2>1, <2>2 DEF ProgressAccepted
    <3> HIDE DEF offset
    <3> QED
      BY <3>1, <3>2, <3>3, FlowProgress
  <2>4. \/ /\ result' = "progress" /\ state' = "loading" /\ client' = client
           /\ load + 1 < Stages /\ load' = load + 1
        \/ result' = "loaded" /\ state' = "current" /\ client' = client
        \/ result' = "unauthorized" /\ state' = "expired" /\ client' = None
        \/ /\ result' \in {"unavailable", "invalid_response"} /\ state' = "offline"
           /\ client' = client
    BY <1>1, <1>27, <2>1, LoadAnswer DEF AdvanceLoad
  <2>5. CASE result' = "progress"
    <3>1. flow' = Progress(load') /\ UNCHANGED <<has_saved_session, login, board>>
      BY <1>27, <2>5 DEF AdvanceLoad
    <3>2. load' \in Nat /\ load' > load /\ load' <= Stages /\ load' # 0
      BY <2>2, <2>4, <2>5
    <3> HIDE DEF offset
    <3>3. /\ flow' \in Flows(Stages)
          /\ flow'.view = flow.view /\ flow'.loading_state = flow.loading_state
          /\ flow'.loading_context = flow.loading_context
          /\ flow'.total = flow.total
          /\ flow'.completed = load' + offset
      BY <2>3, <3>1, <3>2
    <3> QED
      BY <2>1, <2>2, <2>4, <2>5, <3>1, <3>2, <3>3 DEF login, board, offset
  <2>6. CASE result' = "loaded"
    <3>1. /\ flow' = ShowDashboard(Progress(Stages))
          /\ snapshot' = client /\ avatars' = client /\ connection' = "current"
          /\ UNCHANGED <<has_saved_session, login>>
      BY <1>27, <2>6 DEF AdvanceLoad
    <3>2. Stages \in Nat
      BY <2>2
    <3>3. flow' \in Flows(Stages) /\ flow'.view = "dashboard"
      BY <1>2, <2>3, <3>1, <3>2, FlowShown
    <3>4. client # None /\ client \in Credentials
      BY <1>1, <2>1 DEF HandlesMatchState, TypeOK
    <3> QED
      BY <2>1, <2>4, <2>6, <3>1, <3>3, <3>4 DEF login
  <2>7. CASE result' = "unauthorized"
    <3>1. has_saved_session' = FALSE /\ ForgetBoard /\ open_login("session_expired")
      BY <1>27, <2>7 DEF AdvanceLoad
    <3>2. /\ flow' \in Flows(Stages) /\ flow'.view = "login"
          /\ flow'.login_message = "session_expired"
          /\ entry_open' = TRUE /\ scanner_active' = scanner_active
      BY <1>2, <3>1, FlowShown DEF open_login
    <3> QED
      BY <2>1, <2>4, <2>7, <3>1, <3>2 DEF ForgetBoard
  <2>8. CASE result' \in {"unavailable", "invalid_response"}
    <3>1. /\ connection' = "offline"
          /\ UNCHANGED <<has_saved_session, login, snapshot, avatars>>
          /\ \E n \in {0, load} : flow' = ShowLoadingUnavailable(Progress(n))
      BY <1>27, <2>8 DEF AdvanceLoad
    <3>2. PICK n \in {0, load} : flow' = ShowLoadingUnavailable(Progress(n))
      BY <3>1
    <3>3. n \in Nat
      BY <2>2
    <3>4. /\ flow' \in Flows(Stages) /\ flow'.view = "loading"
          /\ flow'.loading_state = "unavailable"
          /\ flow'.loading_context = flow.loading_context
      BY <1>2, <2>3, <3>2, <3>3, FlowShown
    <3> QED
      BY <2>1, <2>4, <2>8, <3>1, <3>4 DEF login
  <2> QED
    BY <2>4, <2>5, <2>6, <2>7, <2>8
<1> QED
  BY <1>4, <1>5, <1>6, <1>7, <1>8, <1>9, <1>10, <1>11, <1>12, <1>13, <1>14, <1>15, <1>16,
     <1>18, <1>19, <1>20, <1>21, <1>24, <1>25, <1>26, <1>27 DEF AppNext, Frame, Input

LEMMA AppInvAlways == AppSpec => []AppInv
<1>1. AppInit => AppInv
  <2> SUFFICES ASSUME AppInit PROVE AppInv
    OBVIOUS
  <2>1. /\ flow = InitialFlow(Stages) /\ pc = "resume" /\ loading_rendered = FALSE
        /\ has_saved_session = FALSE /\ entry_open = FALSE /\ scanner_active = FALSE
        /\ snapshot = None /\ connection = "unpaired" /\ avatars = None
        /\ state = "unpaired" /\ client = None
    BY DEF AppInit, Fresh, Init
  <2>2. flow \in Flows(Stages) /\ flow.view = "prelogin"
    BY <2>1, SessionConstants
       DEF InitialFlow, Flows, ClientView, LoginMessage, LoadingContext
  <2> QED
    BY <2>1, <2>2
       DEF AppInv, AppTypeOK, ProgramInv, BoardInv, LoginIsUsable, ProgressIsTrue,
           WorkIsShown, BoardIsOwn, IsLoading
<1>2. IInv /\ AppInv /\ [AppNext]_appVars => AppInv'
  BY AppInvInductive
<1> QED
  BY <1>1, <1>2, ProgramKeepsToOperations, IInvInductive, PTL DEF AppSpec

-----------------------------------------------------------------------------
(* What the runs of MCConsoleApp check, for every instance *)

\* The program's own variables, the screen among them, keep their types.
THEOREM ProgramTypeCorrect == AppSpec => []AppTypeOK
<1>1. AppInv => AppTypeOK
  BY DEF AppInv
<1> QED
  BY <1>1, AppInvAlways, PTL

\* Between frames, the loading screen is shown exactly while a claim or a load
\* is in flight.
THEOREM WorkIsAlwaysShown == AppSpec => []WorkIsShown
<1>1. AppInv => WorkIsShown
  BY DEF AppInv, ProgramInv
<1> QED
  BY <1>1, AppInvAlways, PTL

\* No screen shows one account's data under another account's credential.
THEOREM BoardIsAlwaysOwn == AppSpec => []BoardIsOwn
<1>1. AppInv => BoardIsOwn
  BY DEF AppInv, BoardInv
<1> QED
  BY <1>1, AppInvAlways, PTL

\* The login screen reacts to keys, and the camera runs only there.
THEOREM LoginIsAlwaysUsable == AppSpec => []LoginIsUsable
<1>1. AppInv => LoginIsUsable
  BY DEF AppInv
<1> QED
  BY <1>1, AppInvAlways, PTL

\* The bar shows what the load has completed, however many operations it has.
THEOREM ProgressIsAlwaysTrue == AppSpec => []ProgressIsTrue
<1>1. AppInv => ProgressIsTrue
  BY DEF AppInv
<1> QED
  BY <1>1, AppInvAlways, PTL

-----------------------------------------------------------------------------
(***************************************************************************)
(* The loading screen ends if the loop keeps running and the source of the *)
(* claim answers, which is a matter of fairness.  That nothing else is     *)
(* needed is not: but for a clock that is set and a claim that is still    *)
(* pending, each step of the program brings it closer to its end.          *)
(***************************************************************************)

\* Where the frame is: after the step that advances a claim or a load there is
\* the input, and the drawing, without which nothing is advanced.
FramePlace ==
    IF pc = "begin" THEN 0
    ELSE IF pc = "input" THEN 2
    ELSE IF loading_rendered THEN 1
    ELSE 3

\* How many answers are still to come
AnswersLeft ==
    IF pc = "begin" THEN Stages + 1
    ELSE IF state = "claiming" THEN Stages + 2
    ELSE IF state = "loading" THEN Stages - load
    ELSE 0

LoadingDistance == 4 * AnswersLeft + FramePlace

ComesCloser ==
    IsLoading(flow) =>
        \/ ~IsLoading(flow') \/ pc' = "exited"
        \/ LoadingDistance' < LoadingDistance
        \/ ClockMoves /\ LoadingDistance' = LoadingDistance
        \/ AdvanceClaim /\ result' = "pending"

LEMMA DistanceIsNatural == IInv /\ AppInv => LoadingDistance \in Nat
<1> SUFFICES ASSUME IInv, AppInv PROVE LoadingDistance \in Nat
  OBVIOUS
<1>1. Stages \in Nat \ {0}
  BY SessionConstants
<1>2. state = "loading" => load \in 0 .. Stages - 1
  BY DEF IInv, TypeOK, HandlesMatchState
<1>3. AnswersLeft \in Nat
  BY <1>1, <1>2 DEF AnswersLeft
<1>4. FramePlace \in Nat
  BY DEF FramePlace
<1> QED
  BY <1>3, <1>4 DEF LoadingDistance

LEMMA CloserStep ==
    ASSUME IInv, AppInv, [AppNext]_appVars
    PROVE  [ComesCloser]_appVars
<1> SUFFICES ASSUME AppNext, IsLoading(flow), IsLoading(flow'), pc' # "exited"
             PROVE  \/ LoadingDistance' < LoadingDistance
                    \/ ClockMoves /\ LoadingDistance' = LoadingDistance
                    \/ AdvanceClaim /\ result' = "pending"
  BY DEF ComesCloser
<1>1. Stages \in Nat \ {0}
  BY SessionConstants
<1>2. /\ TypeOK /\ HandlesMatchState /\ AppTypeOK
      /\ pc \in {"advance", "input"} => state \in Busy
      /\ pc = "resume" => ~IsLoading(flow)
      /\ pc = "begin" => state = "ready"
  BY DEF IInv, AppInv, ProgramInv, WorkIsShown, Busy, IsLoading
<1>3. state = "loading" => load \in 0 .. Stages - 1
  BY <1>2 DEF TypeOK, HandlesMatchState
<1>0. AnswersLeft \in Nat
  BY <1>1, <1>3 DEF AnswersLeft
<1> USE DEF LoadingDistance
<1>4. CASE AdvanceClaim
  <2>1. pc = "advance" /\ loading_rendered /\ state = "claiming"
    BY <1>4 DEF AdvanceClaim, Advancing
  <2>2. result' \notin {"accepted", "pending"} => ~IsLoading(flow')
    <3> SUFFICES ASSUME result' \notin {"accepted", "pending"} PROVE ~IsLoading(flow')
      OBVIOUS
    <3>1. PICK m \in {"pairing_rejected", "pairing_unavailable"} : open_login(m)
      BY <1>4 DEF AdvanceClaim
    <3> QED
      BY <1>2, <3>1, FlowShown DEF open_login, IsLoading, LoginMessage, AppTypeOK
  <2>3. CASE result' = "accepted"
    <3>1. pc' = "begin"
      BY <1>4, <2>3 DEF AdvanceClaim
    <3>2. /\ AnswersLeft = Stages + 2 /\ AnswersLeft' = Stages + 1
          /\ FramePlace = 1 /\ FramePlace' = 0
      BY <2>1, <3>1 DEF AnswersLeft, FramePlace
    <3> QED
      BY <1>1, <3>2
  <2> QED
    BY <1>4, <2>2, <2>3
<1>5. CASE BeginClaimedLoad
  <2>1. /\ pc = "begin" /\ pc' = "input"
        /\ BeginDashboardLoad
        /\ result' # "ok" => flow' = ShowLoadingUnavailable(StartLoading(flow, "pairing", Stages))
    BY <1>5 DEF BeginClaimedLoad, start_dashboard_load
  <2>2. result' = "ok"
    <3>1. StartLoading(flow, "pairing", Stages) \in Flows(Stages)
      BY <1>2, FlowLoading DEF AppTypeOK, LoadingContext
    <3> QED
      BY <2>1, <3>1, FlowShown DEF IsLoading, LoginMessage
  <2>3. state' = "loading" /\ load' = 0
    BY <1>2, <2>1, <2>2, BeginLoadAnswers DEF Busy
  <2>4. /\ AnswersLeft = Stages + 1 /\ AnswersLeft' = Stages - 0
        /\ FramePlace = 0 /\ FramePlace' = 2
    BY <2>1, <2>3 DEF AnswersLeft, FramePlace
  <2> QED
    BY <1>1, <2>4
<1>6. CASE AdvanceLoad
  <2>1. /\ pc = "advance" /\ loading_rendered /\ state = "loading"
        /\ AdvanceDashboardLoad /\ pc' = "input"
    BY <1>6 DEF AdvanceLoad, Advancing
  <2>2. result' = "progress"
    <3>1. CASE result' = "loaded"
      <4>1. flow' = ShowDashboard(Progress(Stages))
        BY <1>6, <3>1 DEF AdvanceLoad
      <4>2. Progress(Stages) \in Flows(Stages)
        BY <1>1, <1>2, FlowProgress DEF Progress, Claiming, AppTypeOK
      <4> QED
        BY <4>1, <4>2, FlowShown DEF IsLoading, LoginMessage
    <3>2. CASE result' = "unauthorized"
      <4>1. open_login("session_expired")
        BY <1>6, <3>2 DEF AdvanceLoad
      <4> QED
        BY <1>2, <4>1, FlowShown DEF open_login, IsLoading, LoginMessage, AppTypeOK
    <3>3. CASE result' \in {"unavailable", "invalid_response"}
      <4>1. PICK n \in {0, load} : flow' = ShowLoadingUnavailable(Progress(n))
        BY <1>6, <3>3 DEF AdvanceLoad
      <4>2. Progress(n) \in Flows(Stages)
        BY <1>2, <1>3, <2>1, FlowProgress DEF Progress, Claiming, AppTypeOK
      <4> QED
        BY <4>1, <4>2, FlowShown DEF IsLoading, LoginMessage
    <3> QED
      BY <1>2, <2>1, <3>1, <3>2, <3>3, LoadAnswer
  <2>3. state' = "loading" /\ load' = load + 1
    BY <1>2, <2>1, <2>2, LoadAnswer
  <2>4. /\ AnswersLeft = Stages - load /\ AnswersLeft' = Stages - (load + 1)
        /\ FramePlace = 1 /\ FramePlace' = 2
    BY <2>1, <2>3 DEF AnswersLeft, FramePlace
  <2> QED
    BY <1>1, <1>3, <2>1, <2>4
<1>7. CASE AdvanceNothing
  <2>1. /\ pc = "advance" /\ pc' = "input" /\ ~loading_rendered
        /\ state' = state /\ load' = load
    BY <1>2, <1>7, NoCallAnswers DEF AdvanceNothing, Advancing, Busy, AppTypeOK
  <2>2. AnswersLeft' = AnswersLeft /\ FramePlace = 3 /\ FramePlace' = 2
    BY <2>1 DEF AnswersLeft, FramePlace
  <2> QED
    BY <1>0, <2>2
<1>8. CASE NoInput
  <2>1. /\ pc = "input" /\ pc' = "advance" /\ loading_rendered' = TRUE
        /\ state' = state /\ load' = load
    BY <1>8, NoCallAnswers DEF NoInput, EndFrame
  <2>2. AnswersLeft' = AnswersLeft /\ FramePlace = 2 /\ FramePlace' = 1
    BY <2>1 DEF AnswersLeft, FramePlace
  <2> QED
    BY <1>0, <2>2
<1>9. CASE ClockMoves
  <2>1. UNCHANGED <<pc, loading_rendered, state, load>>
    BY <1>9 DEF ClockMoves, SetClock, owned, app
  <2>2. AnswersLeft' = AnswersLeft /\ FramePlace' = FramePlace
    BY <2>1 DEF AnswersLeft, FramePlace
  <2> QED
    BY <1>9, <2>2
<1>10. ~Relaunch
  BY DEF Relaunch, Fresh, InitialFlow, IsLoading
<1>11. ~StartUp /\ ~Exit
  BY <1>2 DEF StartUp, Exit
<1>12. ~DeleteSession /\ ~OpenOffice /\ ~StartScan /\ ~ScanEnds /\ ~Accept /\ ~CancelLogin
       /\ ~Retry /\ ~LeaveUnavailable /\ ~GoHome /\ ~Refresh /\ ~SendSelected
  BY DEF DeleteSession, OpenOffice, StartScan, ScanEnds, Accept, CancelLogin, Retry,
         LeaveUnavailable, GoHome, Refresh, SendSelected, On, IsLoading
<1> QED
  BY <1>4, <1>5, <1>6, <1>7, <1>8, <1>9, <1>10, <1>11, <1>12 DEF AppNext, Frame, Input

\* While a claim or a load is shown, only so many steps can follow before the
\* screen changes: no input, answer or redraw puts its end off (the loop of
\* main.cpp).
THEOREM LoadingComesCloser ==
    AppSpec => [](IsLoading(flow) => LoadingDistance \in Nat) /\ [][ComesCloser]_appVars
<1>1. AppSpec => []IInv
  BY ProgramKeepsToOperations, IInvInductive, PTL
<1> QED
  BY <1>1, AppInvAlways, DistanceIsNatural, CloserStep, PTL DEF AppSpec

=============================================================================
