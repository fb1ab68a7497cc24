--------------------------- MODULE ProductSession ---------------------------
(***************************************************************************)
(* platform::ProductSession: the console's one owner of the bearer         *)
(* credential.  It resumes a stored credential, claims a new one from the  *)
(* pairing bridge, runs dashboard loads, sends recognitions, and forgets   *)
(* the credential when it is no longer good.  There is one action per      *)
(* public operation, called one at a time by the application's loop.       *)
(*                                                                         *)
(* The store, the claim source, the adapter and the HTTP transport are     *)
(* interfaces: each call of one of them is a choice over everything the    *)
(* interface allows it to answer, exceptions included.  The device's clock *)
(* is set by its user and may jump either way between two calls.           *)
(***************************************************************************)
EXTENDS CredentialBundle

CONSTANTS
    Credentials,     \* the credentials a bridge may hand out
    Sources,         \* the claim sources the application may hand over
    Times,           \* the readings of the device's clock
    Stages,          \* the operations one dashboard load performs
    ClearMayFail     \* whether the store's clear() may silently do nothing

ASSUME SessionConstants ==
    /\ Credentials \subseteq [token : ValidTokens \cup {None},
                              expires_at : Int64, clock_offset : Int64]
    /\ None \notin Credentials \cup Sources
    /\ Times \subseteq Int64
    /\ Stages \in Nat \ {0}
    /\ ClearMayFail \in BOOLEAN

VARIABLES
    state,     \* state_
    adapter,   \* whether adapter_ is still held
    claim,     \* claim_source_
    client,    \* direct_client_: the credential it was built with
    expiry,    \* device_expiry_epoch_seconds_
    load,      \* dashboard_load_: the operations it has completed
    store,     \* what the CredentialStore holds
    now,       \* the device's clock
    fate,      \* what has become of each claim source
    request,   \* the credential the last operation put on the wire
    result,    \* what the last operation returned
    rejected   \* history: credentials the backend refused since granted

owned == <<adapter, claim, client, expiry, load>>
vars == <<state, owned, store, now, fate, request, result, rejected>>

SessionState == {"unpaired", "claiming", "ready", "loading", "current",
                 "offline", "expired", "stopped"}
Fate == {"unused", "held", "cancelled", "spent", "lost"}
Result == {"none", "true", "false", "ok", "progress", "loaded", "usable", "missing",
           "expired", "invalid", "unavailable", "pending", "accepted",
           "rejected", "invalid_response", "unauthorized"}

TypeOK ==
    /\ state \in SessionState
    /\ adapter \in BOOLEAN
    /\ claim \in Sources \cup {None}
    /\ client \in Credentials \cup {None}
    /\ expiry \in Int
    /\ load \in 0 .. Stages - 1 \cup {None}
    /\ store \in Credentials \cup {None}
    /\ now \in Times
    /\ fate \in [Sources -> Fate]
    /\ request \in Credentials \cup {None}
    /\ result \in Result
    /\ rejected \subseteq Credentials

Init ==
    /\ state = "unpaired"
    /\ adapter = TRUE
    /\ claim = None
    /\ client = None
    /\ expiry = 0
    /\ load = None
    /\ store \in Credentials \cup {None}
    /\ now \in Times
    /\ fate = [s \in Sources |-> "unused"]
    /\ request = None
    /\ result = "none"
    /\ rejected = {}

-----------------------------------------------------------------------------
(* The private helpers *)

\* A call that changes nothing and sends nothing.
Refuse(answer) ==
    /\ result' = answer
    /\ request' = None
    /\ UNCHANGED <<state, owned, store, now, fate, rejected>>

\* fate after cancel_claim, or after the source answered f
Settled(f) == [s \in Sources |-> IF s = claim THEN f ELSE fate[s]]

cancel_claim ==
    /\ claim' = None
    /\ fate' = Settled("cancelled")

DropClient ==
    /\ client' = None
    /\ expiry' = 0

\* activate_credential once CredentialPolicy::evaluate found c usable
activate_credential(c) ==
    /\ client' = c
    /\ expiry' = DeviceExpiry(c)
    /\ state' = "ready"

\* CredentialStore::clear is noexcept and returns nothing: had is what the
\* store holds if the deletion silently failed.
ClearStore(had) ==
    \/ store' = None
    \/ ClearMayFail /\ store' = had

\* expire_credential, with the state its caller leaves behind
expire_credential(s) ==
    /\ cancel_claim
    /\ load' = None
    /\ DropClient
    /\ ClearStore(store)
    /\ state' = s

\* Fault: the credential is used in the second in which it expires.
credential_usable_Inclusive == client # None /\ expiry >= now

credential_usable == client # None /\ expiry > now

-----------------------------------------------------------------------------
(* The public operations *)

Resume ==
    \/ state = "stopped" /\ Refuse("unavailable")
    \/ /\ state # "stopped"
       /\ cancel_claim
       /\ load' = None
       /\ request' = None
       /\ \/ /\ result' = "unavailable"          \* the store threw
             /\ DropClient
             /\ state' = "offline"
             /\ UNCHANGED store
          \/ /\ store = None
             /\ result' = "missing"
             /\ DropClient
             /\ state' = "unpaired"
             /\ UNCHANGED store
          \/ /\ store # None
             /\ result' = Evaluate(store, now)
             /\ IF Evaluate(store, now) = "usable"
                THEN activate_credential(store) /\ UNCHANGED store
                ELSE /\ DropClient
                     /\ ClearStore(store)
                     /\ state' = IF Evaluate(store, now) = "expired"
                                 THEN "expired" ELSE "unpaired"
       /\ UNCHANGED <<adapter, now, rejected>>

\* Fault: a load under way survives the beginning of a claim.
BeginCredentialClaim_KeepsLoad(s) ==
    \/ (state = "stopped" \/ s = None) /\ Refuse("false")
    \/ /\ state # "stopped"
       /\ s # None
       /\ fate[s] = "unused"
       /\ claim' = s
       /\ fate' = [Settled("cancelled") EXCEPT ![s] = "held"]
       /\ DropClient
       /\ state' = "claiming"
       /\ result' = "true"
       /\ request' = None
       /\ UNCHANGED <<adapter, load, store, now, rejected>>

\* The persisted credential stays where it is until the claim is accepted.
BeginCredentialClaim(s) ==
    \/ (state = "stopped" \/ s = None) /\ Refuse("false")
    \/ /\ state # "stopped"
       /\ s # None
       /\ fate[s] = "unused"
       /\ claim' = s
       /\ fate' = [Settled("cancelled") EXCEPT ![s] = "held"]
       /\ load' = None
       /\ DropClient
       /\ state' = "claiming"
       /\ result' = "true"
       /\ request' = None
       /\ UNCHANGED <<adapter, store, now, rejected>>

\* The source answered without a credential, or threw.
ClaimFails ==
    \E answer \in {"rejected", "unavailable", "invalid_response", "accepted"} :
        /\ fate' = Settled(IF answer = "accepted" THEN "spent" ELSE "cancelled")
        /\ state' = IF answer = "unavailable" THEN "offline" ELSE "unpaired"
        /\ result' = IF answer = "accepted" THEN "invalid_response" ELSE answer
        /\ UNCHANGED <<client, expiry, load, store, rejected>>

\* The source handed over c, which is not usable on this device.
ClaimUnusable(c) ==
    /\ Evaluate(c, now) # "usable"
    /\ fate' = Settled("spent")
    /\ DropClient
    /\ state' = IF Evaluate(c, now) = "expired" THEN "expired" ELSE "unpaired"
    /\ result' = "invalid_response"
    /\ UNCHANGED <<load, store, rejected>>

\* Fault: the credential is used without having been saved.
ClaimGranted_Unsaved(c) ==
    /\ Evaluate(c, now) = "usable"
    /\ fate' = Settled("spent")
    /\ activate_credential(c)
    /\ result' = "accepted"
    /\ rejected' = rejected \ {c}
    /\ UNCHANGED <<load, store>>

\* The source handed over c and the store kept it.
ClaimGranted(c) ==
    /\ Evaluate(c, now) = "usable"
    /\ fate' = Settled("spent")
    /\ activate_credential(c)
    /\ store' = c
    /\ result' = "accepted"
    /\ rejected' = rejected \ {c}
    /\ UNCHANGED load

\* Fault: what a failed save left behind is not cleared.
ClaimNotSaved_LeavesFile(c) ==
    /\ Evaluate(c, now) = "usable"
    /\ fate' = Settled("spent")
    /\ load' = None
    /\ DropClient
    /\ store' \in {store, c, None}
    /\ state' = "offline"
    /\ result' = "unavailable"
    /\ rejected' = rejected \ {c}

\* The source handed over c and save() returned false or threw, having left
\* the store as it was, with c, or with nothing.
ClaimNotSaved(c) ==
    /\ Evaluate(c, now) = "usable"
    /\ fate' = Settled("spent")
    /\ load' = None
    /\ DropClient
    /\ \E left \in {store, c, None} : ClearStore(left)
    /\ state' = "offline"
    /\ result' = "unavailable"
    /\ rejected' = rejected \ {c}

PollPending ==
    /\ state = "claiming" /\ claim # None
    /\ Refuse("pending")

SettleClaim ==
    /\ state = "claiming" /\ claim # None
    /\ claim' = None
    /\ request' = None
    /\ \/ ClaimFails
       \/ \E c \in Credentials :
              ClaimUnusable(c) \/ ClaimGranted(c) \/ ClaimNotSaved(c)
    /\ UNCHANGED <<adapter, now>>

AdvanceCredentialClaim ==
    \/ (state # "claiming" \/ claim = None) /\ Refuse("invalid_response")
    \/ PollPending
    \/ SettleClaim

\* The operation found no client, or one whose expiry has passed.
FindExpired ==
    /\ ~credential_usable
    /\ expire_credential("expired")
    /\ result' = "unauthorized"
    /\ request' = None
    /\ UNCHANGED <<adapter, now, rejected>>

\* Fault: the refused credential stays in the store.
BackendRefuses_KeepsStore ==
    /\ cancel_claim
    /\ load' = None
    /\ DropClient
    /\ state' = "expired"
    /\ result' = "unauthorized"
    /\ rejected' = rejected \cup {client}
    /\ UNCHANGED store

\* The backend refused the bearer token.
BackendRefuses ==
    /\ expire_credential("expired")
    /\ result' = "unauthorized"
    /\ rejected' = rejected \cup {client}

BeginDashboardLoad ==
    \/ (state = "stopped" \/ ~adapter) /\ Refuse("invalid_response")
    \/ /\ state \notin {"stopped", "ready", "current", "offline"} /\ adapter
       /\ Refuse("unauthorized")
    \/ /\ state \in {"ready", "current", "offline"} /\ adapter
       /\ \/ FindExpired
          \/ /\ credential_usable
             /\ \/ load' = 0 /\ state' = "loading" /\ result' = "ok"
                \/ /\ load' = None              \* the adapter returned null
                   /\ state' = "offline"
                   /\ result' = "invalid_response"
             /\ request' = None
             /\ UNCHANGED <<adapter, claim, client, expiry, store, now, fate, rejected>>

\* One operation of the load ran on the client.
LoadAnswers ==
    \/ BackendRefuses
    \/ /\ \/ load' = None /\ state' = "offline"
             /\ result' \in {"unavailable", "invalid_response"}
          \/ /\ load + 1 < Stages
             /\ load' = load + 1
             /\ result' = "progress"
             /\ UNCHANGED state
          \/ load' = None /\ state' = "current" /\ result' = "loaded"
       /\ UNCHANGED <<claim, client, expiry, store, fate, rejected>>

AdvanceDashboardLoad ==
    \/ /\ state # "loading" \/ load = None \/ ~adapter
       /\ Refuse("invalid_response")
    \/ /\ state = "loading" /\ load # None /\ adapter
       /\ \/ FindExpired
          \/ /\ credential_usable
             /\ request' = client
             /\ LoadAnswers
             /\ UNCHANGED <<adapter, now>>

SendRecognition ==
    \/ (state = "stopped" \/ ~adapter) /\ Refuse("invalid_response")
    \/ state \notin {"stopped", "current"} /\ adapter /\ Refuse("unauthorized")
    \/ /\ state = "current" /\ adapter
       /\ \/ FindExpired
          \/ /\ credential_usable
             /\ request' = client
             /\ \/ BackendRefuses
                \/ /\ \/ /\ state' = "offline"   \* no answer, or an exception
                         /\ result' \in {"unavailable", "invalid_response"}
                      \/ /\ result' \in {"ok", "invalid_response"}
                         /\ UNCHANGED state
                   /\ UNCHANGED <<claim, client, expiry, load, store, fate, rejected>>
             /\ UNCHANGED <<adapter, now>>

ClearCredential ==
    \/ state = "stopped" /\ Refuse("none")
    \/ /\ state # "stopped"
       /\ expire_credential("unpaired")
       /\ result' = "none"
       /\ request' = None
       /\ UNCHANGED <<adapter, now, rejected>>

Shutdown ==
    \/ state = "stopped" /\ Refuse("none")
    \/ /\ state # "stopped"
       /\ cancel_claim
       /\ load' = None
       /\ DropClient
       /\ adapter' = FALSE
       /\ state' = "stopped"
       /\ result' = "none"
       /\ request' = None
       /\ UNCHANGED <<store, now, rejected>>

-----------------------------------------------------------------------------
(* The environment *)

\* The process ends at any point, orderly or not, and a new one constructs a
\* session on what the store still holds.
Restart ==
    /\ state' = "unpaired"
    /\ adapter' = TRUE
    /\ claim' = None
    /\ fate' = Settled("lost")
    /\ load' = None
    /\ DropClient
    /\ result' = "none"
    /\ request' = None
    /\ UNCHANGED <<store, now, rejected>>

SetClock ==
    /\ now' \in Times
    /\ result' = "none"
    /\ request' = None
    /\ UNCHANGED <<state, owned, store, fate, rejected>>

Operation ==
    \/ Resume
    \/ \E s \in Sources \cup {None} : BeginCredentialClaim(s)
    \/ AdvanceCredentialClaim
    \/ BeginDashboardLoad
    \/ AdvanceDashboardLoad
    \/ SendRecognition
    \/ ClearCredential
    \/ Shutdown

Next == Operation \/ Restart \/ SetClock

Spec == Init /\ [][Next]_vars

-----------------------------------------------------------------------------
(* Properties *)

\* What the session holds agrees with the state it reports, after every
\* sequence of calls and answers (session.cpp): a claim source exactly while
\* claiming, a load exactly while loading, a client whenever the state lets
\* one be used and none once the credential is given up.
HandlesMatchState ==
    /\ state = "claiming" <=> claim # None
    /\ state = "loading" <=> load # None
    /\ state \in {"ready", "loading", "current"} => client # None
    /\ state \in {"unpaired", "claiming", "expired", "stopped"} => client = None
    /\ client = None => expiry = 0
    /\ adapter <=> state # "stopped"

\* A client exists only for the persisted credential, and the expiry cached
\* with it is that credential's own: a restart finds what was being used.
ClientIsPersisted ==
    client # None => store = client /\ expiry = DeviceExpiry(client)

\* No bearer token leaves the console once its credential has expired on the
\* device's clock, whatever was checked or cached before (credential_usable).
BearerOnlyWhileUsable ==
    request # None => IsCredentialUsable(request, now)

\* Every claim source handed over is the one still polled, or was cancelled or
\* had given up its secret: none is dropped with its pairing material intact.
SourcesAreSettled ==
    \A s \in Sources : fate[s] = "held" <=> s = claim

\* With a store whose clear() works, a credential the backend refused is never
\* used again nor found by a restart, unless a bridge grants it anew.
RefusedStaysDead ==
    ~ClearMayFail => client \notin rejected /\ store \notin rejected

\* With a store whose clear() works, the session keeps the promise of
\* CredentialLease: client is the lease, the store's content is what is kept.
Lease == INSTANCE CredentialLease
             WITH lease <- client, kept <- store, used <- request
KeepsLease == Lease!Spec

=============================================================================
