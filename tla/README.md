# Verification of office-3ds

office-3ds is a compact office dashboard for the Nintendo 3DS. A console pairs
with a bridge program on a PC, receives a bearer credential over a single-use
encrypted claim, keeps it on its SD card, and from then on talks to the API
directly. This directory models that program in TLA+: TLC checks the models on
small instances, TLAPS proves the central ones for every value of their
constants. Paths below are relative to the repository's root.

## The system

| component | state it keeps | operations | interacts with |
|---|---|---|---|
| credential bundle and policy (`src/core/credential_bundle.cpp`, `src/platform/credential.cpp`) | none | device expiry, usability, classification | called by session, claim source, store, bridge |
| product session (`src/platform/session.cpp`) | state, client, cached expiry, claim source, load | resume, begin/advance claim, begin/advance load, send recognition, clear, shutdown | calls the credential store, the claim source, the adapter and through it the transport |
| application flow (`src/core/application_flow.cpp`) | screen, message, loading context and progress | show_*, start_loading, set_loading_progress | driven by the main loop |
| console main loop (`src/platform_3ds/main.cpp`) | has_saved_session, loading_rendered | one frame after another: advance the session, handle one input, draw | drives everything on the console |
| pairing entry, login controls (`src/core/pairing_entry.cpp`, `src/app/login_controls.cpp`) | typed and scanned texts, field; focus | open, cancel, append, erase, scan, submit; move, touch | main loop's login branch |
| QR scanner (`src/platform_3ds/qr_scanner.cpp`) | what it holds of camera, decoder, events and memory; two flags | start, update, stop | main loop's login branch, the camera service |
| dashboard state and view (`src/core/dashboard_state.cpp`, `src/app/dashboard_app.cpp`) | snapshot, connection, selections, outcome | set_snapshot, mark_*, move_*, begin/mark recognition | main loop's dashboard branch |
| SD credential store (`src/platform_3ds/credential_store.cpp`) | credential, temporary and backup file | load, save, clear | called by the session; survives power loss |
| avatar store (`src/platform_3ds/avatar_store.cpp`) | two queues, a semaphore, two workers, textures, generation | load, update, clear, shutdown; the workers' loop | main loop and two download threads |
| avatar cache store (`src/platform_3ds/avatar_cache_store.cpp`) | cache, temporary and backup file | load, save | called by the avatar store; survives power loss |
| bridge claim source (`src/platform_3ds/bridge_claim_source.cpp`) | finished flag, pairing material | poll, cancel | one HTTP request to the bridge |
| bridge pairing session (`src/bridge/pairing_session.cpp`) | the pending offer and its wrong guesses | create_offer, is_available, consume, invalidate | owned by the claim server |
| bridge claim server (`src/bridge_host/server.cpp`) and program (`main.cpp`) | offer on show, reset token, claimed flag, status | begin_pairing, listen, GET /, GET /health, POST /reset, POST /v2/claim | browsers and consoles, on a pool of threads under one mutex |
| claim codec, credential source, pairing codec (`src/bridge`, `src/bridge_host/credential_source.cpp`) | none | issue, receive, parse | bridge and console |
| product code generator (`src/product_codegen`) | none | accept or refuse a product package | build time; what it accepts the adapter has to build |
| generated adapter, direct API client (`src/generated_adapter`, `src/api`) | the stage of a load and its documents | factory, begin/advance load, send recognition | session and transport |
| demo service (`src/demo_server`) | a SQLite database shared by its processes | serve, reset, issue-token; migration at start; POST /v1/recognitions | consoles, the operator |
| HTTP, audio, rendering | devices | | |

What is hard here, and what the properties are for:

* **Order of calls and answers.** The session has eight states and eight
  operations; each of its four collaborators can fail in several ways at every
  call, and the clock may move between two of them.
* **Messages lost or late.** A console gives up on a claim that the bridge then
  serves; a recognition whose answer was lost is sent again.
* **Several views of one fact.** Whether the console has a session is known to
  the session, the store, `has_saved_session`, the screen, the dashboard and
  the avatar store; which offer can be taken is known to the pairing session,
  the page and the claimed flag; how deep a mapping may be is known to the
  generator and to the console.
* **Power loss and failing files** between any two calls of the file system.
* **Time**: expiries compared on two clocks that disagree, offers that run out
  on show, clocks set back.
* **Stale selections**: a refresh under a selection, an outcome beside another
  event, a scanned secret beside edited text.
* **Threads and processes**: the avatar workers, the claim server's pool,
  several programs on one database.
* **Steps of which one fails**: the camera's eight resources, a renewal without a
  random token, a migration, a token file without its token.

`PROJECT.json` lists each hazard at its line with the properties aimed at it.

## Modules

| module | models | role |
|---|---|---|
| `CredentialBundle` | `credential_bundle.cpp`, `credential.cpp` | operators on credentials; integers of a bounded width |
| `CredentialLease` | what the session promises about a credential | abstract specification |
| `ProductSession` | `session.cpp`, every public operation | component |
| `CredentialClock` | the clock offset from issue to expiry | two clocks and a message; specification that `PairingProtocol` implements |
| `PairingSession` | `pairing_session.cpp` | operators on the pending offer |
| `PairingProtocol` | `bridge_claim_source.cpp`, the claim handler, the network | composes `PairingSession` and `CredentialClock` |
| `OneTimeOffer` | what the bridge promises about offers | abstract specification |
| `ClaimServer` | `server.cpp`, and the calls of `bridge_host/main.cpp` | component over `PairingSession` |
| `ApplicationFlow` | `application_flow.cpp` | operators on the screen |
| `ConsoleApp` | `platform_3ds/main.cpp` | composes `ProductSession` and `ApplicationFlow` |
| `LoginControls`, `PairingEntry`, `QrScanner` | the files of these names | operators on focus, entry and camera |
| `LoginScreen` | the login branch of `main.cpp` | composes the three |
| `DashboardNavigation` | `dashboard_state.cpp` | operators on the selections |
| `DashboardScreen` | the dashboard branch of `main.cpp` and `DashboardApp`'s state | composes it |
| `ConsoleScreens` | the ways between the screens | composes `LoginScreen` and `DashboardScreen` |
| `SdFile` | how both stores replace a file | a file system that fails and is cut short |
| `SdCredentialStore`, `AvatarCacheStore` | `credential_store.cpp`, `avatar_cache_store.cpp` | the stores' own steps |
| `SdCard` | both | composes them; their properties |
| `CredentialSlot` | what the credential store promises while the card works | abstract specification |
| `AvatarStore` | `avatar_store.cpp` | component of the main thread and the workers |
| `DemoService` | `demo_service.cpp`, `demo_server/main.cpp` | component of several processes on one database |
| `ProductMapping` | the mapping language, in the generator and in the adapter | operators on JSON values: what each recursive function does with a node |
| `MappingEvaluator` | the same | the recursive functions themselves |
| `GeneratedAdapter` | `lua_product_loader.cpp`, `generated_adapter.cpp`, `direct_api_client.cpp` | a product's way to a running console |
| `*Proofs` | | theorems about the module of that name; `ConsoleAppProofs` also has `ProductSession`'s, `PairingProtocolProofs` also `CredentialClock`'s |
| `MC*` | | values of the constants for TLC |

An operator called `X_...` with a comment that begins with `Fault:` is a
plausible mistake in the definition `X` beneath it. It is not part of the model:
`PROJECT.json` pairs it with the property that notices it.

### ProductSession

`state`, `client` (`direct_client_`), `expiry` (the cached device expiry),
`claim` (`claim_source_`), `load` (`dashboard_load_`, as the number of completed
operations) and `adapter` are the class's members. `store` is the credential in
the `CredentialStore`, `fate` what became of each claim source handed over,
`rejected` (history) the credentials a backend refused, and `request` the
credential the last call put on the wire. Each public method is one action, from
its guards to its return value in `result`. The collaborators answer anything
their interfaces allow: a claim pending, granted with any credential, rejected,
failed or thrown; a load step that progresses, completes, is refused, fails or
throws; a save that fails; and, if `ClearMayFail`, a `clear` that leaves the
credential. `Restart` ends the process at any point and builds a new session on
what the store holds; `SetClock` moves the clock either way.

`CredentialLease` says in three variables what this is for: a credential comes
into use only after it was kept, leaves use when it is refused, deleted or
expired, and what is refused is not kept.

### CredentialClock and PairingProtocol

`CredentialClock` is a bridge's clock and a console's clock with any constant
difference, a claim that takes any time or is lost, and the credential the
console ends up with. Integers are `MinInt .. MaxInt`, so that the overflow
guards of `credential_device_expiry_epoch_seconds` matter.

`PairingProtocol` puts the whole exchange around it. `polls` holds the claims of
all consoles in the order in which they were begun: whether the request is still
under way, the status of the answer under way, and what `poll` told the session.
A console that gives up (`PollFails`) leaves its request in the network, which
may deliver it later; requests and answers may be lost. The bridge's claim
handler is split by its outcome, with the order of its checks in the guards
(`ClaimTooLate`, `ClaimAfterExpiry`, `ClaimMismatch`, `ClaimMatch`); a match
spends the offer before the answer is protected, and that may fail. `Renew` and
`Stop` are the rest of the bridge. `spentOn` (history) says which claims an
offer was consumed for. What happens to the clocks and to the credential of one
console is `CredentialClock`'s: its actions are conjoined, and
`ProtocolKeepsClock` proves that this is an implementation of it.

A claim whose answer is lost leaves the offer spent and the page at "Pairing
completed" while the console has nothing; only a reset of the page helps. The
model has this, and the two properties say what holds all the same.

### ClaimServer

`session` is the pairing session's pending offer with its count of wrong
guesses, `offer`, `reset_token`, `claimed` and `claim_status` the server's
members, `config` the advertised host (present or not) and the lifetime. Each
HTTP handler is one action, since each runs under the server's mutex; the
configuration that `begin_pairing` sets and the process's `Start`, `Stop` and
`Listen` complete it. Secrets and codes are the numbers of the offers they
belong to (`drawn` counts them) and are never drawn twice; `taken` (history)
counts how often each offer handed out the credential. The random source may
fail at any draw. In the code's order the reset token is drawn after the offer
was replaced, so that a failure there leaves a new offer under an old page;
`split` (history) marks that, and the property that the code keeps only
otherwise names it. `OneTimeOffer` is the promise: an offer is taken at most
once, in its time, under the limit on guesses, and never after it was replaced.

### ConsoleApp

One step per half of a frame: `now_seconds()` is read anew for every call of
the session, so the clock may move between the two calls that a frame with an
accepted claim makes. `pc` says which half is next. `StartUp`, `AdvanceClaim`,
`AdvanceLoad` and `AdvanceNothing` are the first half, the actions of `Input`
the second. They conjoin `ProductSession`'s actions, so that whatever the
session may answer happens here too. The pairing entry is open or not, the
camera runs or not; snapshot and faces are the credential they were loaded with.
`AdvanceLoad` follows the adapter's contract that a load that ended well has a
snapshot (`generated_adapter.cpp:484`).

### The screens

`ConsoleScreens` has the inputs that `ConsoleApp` abstracts to "no change", and
lets a claim, a load or a recognition end in any way while the screen waits for
one. What belongs to a screen outlives it, so that a second visit meets what the
first left: the entry that paired a console is still there when its session is
lost, the selection when the user went home. `LoginControls` has the real
rectangles, because where a direction key leads is decided by their centres; the
touch of a control is a touch of its middle. In `PairingEntry` a text is a
sequence of `d` and `.`: the digits' values decide nothing but which texts are
addresses and ports, and that is a constant. `DashboardNavigation` counts indices
from 0 as the code does; a snapshot is the lengths of two lists and, for each
event, the values it allows and whether it is complete.

`QrScanner` has `start`'s eight steps, each of which may fail, `update` with the
recovery after a buffer overrun, and `stop`, which gives back what its flags tell
it to. A scanner is what is held of the system at that moment, so that a path on
which `stop` would give back less, or twice, shows.

### The SD card

Each call of the file system is one step; `pc` names the next. A step may fail
(`Fails`, at most `MaxFailures` times) and the console may be switched off
before any step (`Crash`, at most `MaxCrashes` times), after which the next call
is a load, as `main.cpp` begins with one. A file holds a content, nothing, or
something unreadable. `current` (history) is what a load may find by the calls
made so far. `SdFile` has the steps that both stores share. They differ in what
`Restore` does after a failed exchange, in `load` (the credential store repairs
and clears, the cache does neither) and in who deletes: the avatar cache is
never deleted. Their files are different ones, so a behaviour of `SdCard` is one
of either store, chosen by `store`.

Two limits of the code are in the wording of the properties. A cache saved after
a save that was cut short is for a moment in no file that a load would read
(`DropBackup` with only the backup there), so `AlwaysACopy` speaks of faces only
while the console was not switched off. And a read that fails for a moment makes
`load` prefer an old backup, so `LoadIsCurrent` speaks of reads that work.

`CredentialSlot` is the credential store without its files: a slot that a save
replaces at once, a deletion empties and a load returns. One thing about the
files has to stay in it. A save that was cut short after the exchange leaves the
credential it replaced behind the new one; the next load does not remove it; and
`clear` deletes the file before the backup. A deletion that is cut short in its
turn uncovers that older credential (`Uncover`), and the next start finds it.
`LoadIsCurrent` therefore speaks of one switch-off.

### AvatarStore

Two download threads share two queues with the main thread under one lock, and a
counting semaphore that wakes them. A section under that lock, or a call of the
semaphore, is one action. `call` says where the main thread is in `load` or
`update` and `due` how many permits it is about to release; `worker` and `job`
say the same of each worker, whose loop is `Acquire`, `Take`, `Finish` and
`WorkerRelease`. The semaphore stops counting at its maximum. `Initialize` may
fail to create a thread and then joins those it has. `pending` is a set: the
order of downloads is left out, and any image may fail to download, to decode or
to become a texture. `update` runs only while the dashboard is on screen, as
`main.cpp` calls it, so a snapshot is there. `shown` and `given_up` (history)
are the faces asked for and those that will not come until the next refresh.

### DemoService

Any number of serving processes, `reset` and `issue-token` on one SQLite
database. A process works on one request at a time, so what interleaves are
statements of different processes. `db` is the committed database, `writer` who
has the write lock; a transaction is one step from the moment it has the lock to
its COMMIT, since nobody sees what is between. A statement that is left open
keeps its process on the database it began with (`reads`): in `createRecognition`
both lookups are still open when the insert begins, which SQLite answers with
BUSY once another process has committed, and the server with 500. Every program
migrates the database first, from the schemas of versions 0, 1 and 2, and leaves
one of a newer version alone. A process may be killed between any two steps, a
commit may fail, an answer may be lost, a token may expire.

The properties record what `products/demo/server/README.md` promises ("retries are
idempotent"; `reset` revokes "all issued credentials") in the form the code
keeps. An identical submission gets the stored row and 200. A server that had
authorised a submission before a reset may store it after, at most one per
server: `RevokedStoresAtMostOne`. Two more facts are outside these properties:
the console draws a new `request_id` at each press (`main.cpp:430`), so that
pressing again after a lost answer stores a second recognition; and the openspec
text (`demo-backend/spec.md:27`) has duplicates rejected where the code answers
them.

### ProductMapping and GeneratedAdapter

A JSON value is a record with its type. `validate_mapping` and `canonical_value`
are what the generator lets through, `parse_json` and `evaluate` what the
adapter makes of it; both sides' depth counters are kept, because they count
from different places. What a recursive function does with one node is an
operator of `ProductMapping` that takes the function for the nodes inside as a
parameter (`ValidNode`, `CanonicalNode`, `ParseNode`, `EvaluateNode`, and its
parts `evaluate_object`, `evaluate_list` and `Applied`); `MappingEvaluator` ties
each to itself, and TLC evaluates these. To `GeneratedAdapter` they are
constants, so that it can be reasoned about.

`GeneratedAdapter` follows a package: accepted or refused, built into an adapter
or not, the four stages of a load, a recognition, and what their outcome does to
the session. `AcceptedProductBuilds` says exactly which accepted products have
an adapter on the console: those whose descriptors hold, at no depth, a number
that is not finite (`Float("inf")`) or a text or name that is no UTF-8
(`NotUtf8`). The generator looks for neither and `Json::parse` throws on both;
all else that the factory asks of a product, the generator has asked before.
`atoms` collects those words, so that the property does not repeat the parser.
`Evaluate` is the code's evaluator within its depth;
`EvaluatorHasTheDepth` compares it with one that has twice the depth.
`SnapshotIsWhole` counts the entries of the lists that a mapping makes of a
document's items (`ListsItems`), as all three lists of the demo product are.

What the translation shows about the two sides, and the instances cover: the
generator accepts numbers that are not finite and bytes that are not UTF-8
(`json_string` and `cpp_string` copy them), and a product with either builds
into a program that runs without an adapter; a list without a mapping of its own
costs the evaluator a level more than the generator counted; a list literal such
as `{1, 3, 5}` becomes an object with numeric keys, which evaluates to an empty
one; a nested `office.request` and a `_kind` that is no string are accepted;
`get<int32_t>()` narrows an allowed value, so that 2^32+5 passes as 5;
`expected_minutes` out of the range of an `int32_t` counts as 0, but 1441 is
refused; the adapter asks in its own order whatever `depends_on` says; and a
header or a path that the loader accepts and `DirectApiClient` throws on leaves
the session offline with an invalid response.

## Runs

| run | what it asks | bounds |
|---|---|---|
| `session` | Do handles, store, wire and reported state agree over every order of calls, and does the session implement `CredentialLease`? | two usable credentials, one malformed, one whose expiry overflows; three readings of the clock; two claim sources; loads of two operations; a store that deletes |
| `pairing_protocol` | Does an offer serve one claim, is nobody told "rejected" by a claim that spent its offer, and does the credential end when the backend's does, for every difference of the clocks? | two consoles, three claims, two offers, two wrong guesses; 3-bit integers: every sign and size of the offset, and both ends of the range |
| `claim_server` | Does the server keep the promise of `OneTimeOffer` although its random source may fail? Do page and pairing session agree while it does not, and does a watched page rotate an expired offer? | three offers, two wrong guesses, four readings of the clock, lifetimes 0 to 3 with the limit at 2 |
| `claim_server_stale_page` | Does a page that offers pairing show material that works? (violated) | the same, with `begin_pairing` called once as `main.cpp` does |
| `console_app` | Do screen, work in flight, data on show, entry, camera and progress bar agree, and does the loading screen come to an end? | two credentials, a clock before and at their expiry, two pairings, loads of two operations, a store that may fail to delete |
| `console_ready` | Does "session ready" mean that one is saved? (violated) | the same with a store that deletes |
| `console_expired` | Does "session expired" mean that it has? (violated) | the same with a store that deletes |
| `console_screens` | Can a secret and typed text be mixed up, is every control in reach, is the camera given back whole, do selection, snapshot and outcome belong together? | the real controls and the camera's real steps; a code of two digits, addresses of up to two characters, two QR codes; two snapshots, each without what the other has two of, one event without values |
| `sd_card` | Is a credential or a cache lost, revived, mixed or wrongly reported as saved? | three contents, two switch-offs and two failures, in any order |
| `avatar_store` | Over every interleaving of the three threads: is a wake-up lost, a face of an old snapshot shown, one forgotten, and do the queues drain and `shutdown` return? | the code's two workers and two prepared images; a limit of three faces and three permits; three snapshots, of which one exceeds the limit, one overlaps it and one is empty; two loads |
| `demo_service` | Are answers true and submissions stored once, are ids reused, do migrations lose anything, do token files work, what can a revoked token still do? | two servers, `reset`, `issue-token`; two tokens, one reset, one trouble; four submissions of which two share a request id; databases of every version |
| `product_adapter` | Does what the generator accepts build and evaluate on the console, is a snapshot whole, what costs the credential? | the demo product of the repository and 26 variations of it, among them a number that is not finite and a header, a name and a path that are no UTF-8; nesting limited to 8 for 24; answers that are missing, broken, partial, refusing or out of range |

Why these bounds are enough to be interesting: a second credential, source or
offer is what can be confused with the first, and a third is what meets two
left-overs; a load of two operations has a first, a middle and a last report;
clock readings before, at and after an expiry are all that comparisons can tell
apart. A third claim can arrive after the second has replaced or spent what the
first asked for. A second load is what old downloads can outlive, and the four
faces of one snapshot keep both queues, both workers and the face limit full at
once. Two servers are what it takes for one to commit between the other's
statements. The nesting limit is a number that both sides share, so a smaller one
reaches its boundary with smaller mappings; an `int32_t` of 4096 values still
holds the minutes of a day and wraps where the real one does.

Symmetry is used where the values are interchangeable and no property is temporal
beyond a single step: the contents in `sd_card`, the two QR secrets in
`console_screens`, the servers in `demo_service`. Deadlock is checked in every
run but `pairing_protocol`, where the claims run out by their bound.

### Disagreements found

* `claim_server_stale_page`: `renew_pairing_locked` (`server.cpp:210`) replaces
  the pending offer before it draws the reset token. If that draw fails, GET /
  goes on showing the old QR code as available, and the bridge rejects it.
* `console_ready`: `start_dashboard_load` (`main.cpp:186`) treats an expired
  session like an unreachable backend. The store has been emptied, but back
  home the screen still says "SESSION READY".
* `console_expired`: `send_recognition` (`session.cpp:210`) answers
  unauthorized in every state but `current`. After a refresh that could not
  reach the API, trying to send makes `main.cpp:438` drop the dashboard and say
  "SESSION EXPIRED - PAIR AGAIN" although the saved credential is good, and the
  program no longer offers it until it is restarted.

Not disagreements with a run of their own, but worth knowing. The clock offset
is taken when a claim arrives (`credential_claim.cpp:143`), so the console's
credential outlives the backend's by exactly the time the claim was under way:
`LifetimeFollowsServer` says so, and is proved. A worker may be woken by a permit
left over from before and finish an image for which there is no place any more;
`workerLoop` drops it (`avatar_store.cpp:464`), and that face shows no picture
until the next refresh; nothing in the repository promises more, and
`EveryFaceAccountedFor` counts it as given up. And a load that fails from the
first screen, followed by B, leads to the login screen with an older snapshot
still held; nothing shows it there.

### Fairness

`console_app` runs under `FairAppSpec`. Weak fairness of `Frame`: the loop of
`main.cpp` runs every frame and waits for nothing but the display. Strong
fairness of `ClaimAnswered`: `BridgeClaimSource::poll` returns an answer that is
never "pending" at its only call. The connection and the status of that request
time out after ten seconds, but `httpcDownloadData` reads the body without a time
limit (`bridge_claim_source.cpp:58`), so that the assumption includes that a
bridge that has begun to answer goes on. An interface that allows "pending" is
what the session is modelled with.
`claim_server` assumes weak fairness of `GetPage`, because the page reloads
itself every second and only a watched page rotates its offer, and that the
random source does not fail for ever. `avatar_store` assumes that threads that
can run do run, that downloads end (they have a timeout), that the dashboard
stays on screen while its faces are awaited, and that the card can be written to
now and then (strong fairness of `SaveCache`). Nothing is assumed about users,
claims, the network or the clock.

## Proofs

The main theorems are listed in `PROJECT.json`; the `...Proofs` modules also
prove that the types are correct (`GeneratedAdapterProofs` apart, whose
invariants name the types they need) and the lemmas these theorems rest on. None
assumes a size: the constants' assumptions are those named in the modules
(`None` is no credential, integers have some width, the guess limit is positive,
a content is none of the marks for a missing file, and so on), and where a
theorem needs more, it says so.

* **ProductSession.** `TypeOK`, `HandlesMatchState`, `ClientIsPersisted`,
  `SourcesAreSettled` and the facts below are inductive only together: that a
  refused credential stays dead needs that the client is the persisted one,
  which needs that a client exists only in the states that may use it. The
  inductive invariant is their conjunction, `IInv` of `ConsoleAppProofs`; the
  proof has one step per operation. `BearerOnlyWhileUsable` follows from it, because
  the cached expiry is the client's own. `SessionKeepsLease` maps each action to
  a step of `CredentialLease` or a stutter, using the same invariant. What that
  promise means is proved from `CredentialLease` alone: only a persisted
  credential is worked with and only a usable one goes on the wire
  (`LeaseOnlyOfKept`), and one that was given up stays away until it is granted
  anew (`GivenUpStaysAway`).
* **CredentialClock.** `OffsetGuardIsExact`: the guards reject exactly the
  subtractions that leave the range, and their own arithmetic does not. With
  it, the invariant that the offset plus the delay is the difference of the
  clocks gives `LifetimeIsTheServers`.
* **PairingProtocol.** For any number of consoles, claims, offers and guesses.
  `ProtocolKeepsClock`: each step is a step of `CredentialClock` or leaves its
  variables, so that its theorem carries over. The other two rest on one
  invariant: an offer that is spent is not pending any more, and the claim it
  was spent on has no request under way, no refusal on its way and was told none;
  an offer that is not yet spent is the pending one or was never taken; and an
  answer with a credential belongs to a claim its offer was consumed for.
  `ProtocolKeepsOfferPromise` is the same refinement of `OneTimeOffer` that the
  server has, among several consoles and over a network that loses messages: an
  offer is taken as often as there are claims it was spent on. It is only proved.
* **ClaimServer.** The invariant ties the pending offer, the offer on show, the
  numbers drawn so far and the history `taken`; `ServerKeepsOfferPromise` is
  the refinement of `OneTimeOffer`, with failing randomness included, and
  `OfferTakenOnce` says that the promise means what its name says.
  `OfferNeverReturns` adds that no step gives an offer more time or more guesses,
  and that one which was replaced, withdrawn, taken or has run out never comes
  back.
* **SdCard.** For any contents and any number of switch-offs and failures. What
  the properties say of any moment is too weak to be inductive: the invariant
  says, for each step of a call, in which file the content is. `SaveInv` follows
  a save, `ClearInv` a deletion; `BackupInv` and `RepairInv` say that a backup
  beside a missing file is only left by a switch-off, after which a load comes
  first; `CopyInv` names the file of the last copy; and `LoadInv` says that what
  a load would find is allowed, until a switch-off leaves a backup that the next
  save or clear is still getting rid of. TLC checked it before it was proved.
  All four properties of `sd_card` follow. `StoreKeepsSlot` maps the steps of
  the credential store to `CredentialSlot`, for any number of switch-offs but
  only while no call fails (`Works`): the slot holds what a load would find, and
  changes in the step that exchanges the files. It needs one more invariant,
  `RepairedInv`: the load after a switch-off has put a backup back in place
  before a save may drop it. No run has this refinement among its properties,
  because it is one of a part of the behaviours. What it is good for is proved
  of the slot alone and then of the store: a deletion or a save that was reported
  leaves no other credential behind (`CompletedCallSettles`), what is gone is
  loaded by no later start (`GoneStaysGone`, `DeletedStaysDeleted`), and unless a
  save was cut short after its exchange, nothing is behind the slot and it
  changes as the one-credential store of `ProductSession` does (`SlotIsACell`,
  `StoreIsACell`).
* **AvatarStore.** For any number of workers, faces, prepared images and
  permits. `NoLostWakeup` is inductive once the busy counter is known to be the
  number of workers at a download. That only the snapshot's faces are shown
  needs that whatever carries the current generation is one of its faces, and
  that nothing carries a later one. On that rest `NoLoadFetchesTwice` (a load
  downloads each of its faces at most once, and no two workers, those at
  superseded downloads included, have the same one; a later load may ask for a
  face again while a superseded download of it still runs, whose image is dropped),
  `ShownFacesAreCached` (the cache holds what is wanted and no more, so its
  limit turns no face away) and `FacesAreAccountedFor`. The safety half of
  `ShutdownEnds` is proved as well: while `shutdown` waits, there are permits for
  all workers that still need one (`JoiningInv`), so each can go on
  (`ShutdownLeavesNoneAsleep`), and each step brings one of them closer to
  leaving (`ShutdownComesCloser`). Both need that the semaphore's maximum, 8 in
  the code, is not below the number of workers, 2.
* **ConsoleApp.** `ProgramKeepsToOperations`: each step of the program is an
  operation of `ProductSession`, an event of its environment, or a step that
  calls nothing, which is like a clock set to the time it shows; the session's
  theorems therefore hold in the program, among them the lease
  (`ProgramKeepsLease`, `ProgramLeavesGivenUp`). The screens need a further
  invariant.
  `ProgramInv` follows the middle of a frame, between an accepted claim and the
  load it begins; `BoardInv` says that a refresh, from which the user may come
  back to the old dashboard, runs for the account of that dashboard, and that
  nothing is loaded without a saved session. What each operation may answer is
  stated in lemmas of its own, as is what each method leaves of the flow.
  `LoadingComesCloser` is the safety half of `LoadingScreenEnds`: a distance, made
  of the answers still to come and the place in the frame, that every step
  shortens while the loading screen is shown, but for a set clock, which leaves
  it, and a claim that is still pending, which is asked again.
* **DemoService.** For any number of servers, tokens, submissions, resets and
  kills, and any database that satisfies the keys of its schema (`Consistent`).
  That a request id is stored once rests on those keys, so the lemmas on
  `Migrated`, `Inserted` and `Reset` show that they survive each commit, the
  copies of the migrations included. `AnswerInv` adds that an answer under way
  is true, `TokenInv` ties the history of the tokens to their table and to the
  file, and `RevokedInv` says that a server that has stored something for a
  revoked token works on with tokens that are not revoked. `InitialInv` keeps
  what was there before a migration. `IdInv` speaks of every id ever named to a
  console, and not only of stored rows, because a reset deletes the rows and
  only the counter remembers them. `WriterInv` and `CheckedInv` carry what the
  lookups found into the transaction that comes after them: a process that
  looked before another's commit cannot begin to write, so what it found is
  still true when it can. What `Consistent` asks of a database are SQLite's own
  constraints, with foreign keys on.
* **ConsoleScreens.** The login screen and the dashboard each have an invariant of
  their own. `LoginInv` adds that the entry is open whenever the login screen is
  shown, that a scanned secret is the text in its field, and that the camera is
  held whole or not at all and only on that screen. What each key and touch does
  to the entry is a lemma (`AppendedKeepsScan`, `ErasedIsEntry`, ...), and so is
  what the camera's steps leave after any failure (`StartsWholeOrGone`) and what
  `stop` gives back (`StopGivesAllBack`). `BoardInv` adds that a dashboard has a
  snapshot, without which a selection would be in none, and that no status of a
  recognition under way stays behind. `EveryControlAlwaysReachable` is about the
  rectangles of the code. A move goes to the control with the least score, so a
  table of the centres shows where each move leads (`MovesAreBest`, `OneMove`);
  one closed tour through all 17 controls (`TourMoves`) then connects every pair.
* **GeneratedAdapter.** `RefusalAloneForgets` needs only what the actions do
  with answers (`RefusalInv`). `AcceptedAlwaysBuilds`,
  `EvaluatorAlwaysHasTheDepth` and `SnapshotAlwaysWhole` depend on what the
  recursive functions do and have `ReadsNodewise` or `EvaluatesNodewise` as
  hypothesis: the equations that define these functions in `MappingEvaluator`,
  which are RECURSIVE operators and as such invisible to the prover.
  `AcceptedAlwaysBuilds` combines what `parse_product` has looked at (`BuiltInv`)
  with an induction on the levels that `canonical_value` allows below a node
  (`ReadableUnlessWords`): a descriptor of any depth can be read again exactly
  when each of its words can.
  `EvaluatorAlwaysHasTheDepth` is an induction on the levels that may still
  follow a node: a mapping that the generator accepts from level 1 has one level
  to spare, and each list without a mapping of its own inside another takes one,
  so at most one of them may be on any way down. The induction is over natural
  numbers and goes through the least counterexample (`LeastNatural`, from the
  library's `WFMin`). `SnapshotAlwaysWhole` follows a list from the document
  through the evaluator (`ListKeepsItems`) into the snapshot (`WholeInv`).
  `LoadedHasSnapshot` is what the program relies on when it takes the snapshot of
  a finished load without asking, and `AdapterKeepsToSession` what makes this
  model one of the session's: each of its steps is a load or a recognition of
  `ProductSession`, for a credential that is usable (`HeldIsUsable`).

Some proved facts are checked by no run of their own, because a theorem says
more: the type invariants, `SourcesAlwaysSettled`, `ShownFacesAreCached` and
`NoLoadFetchesTwice`.

Only model-checked: the liveness properties `FacesSettle`, `ShutdownEnds`,
`ExpiredOfferRotates` and `LoadingScreenEnds`, which are out of the prover's reach
(of two of them the safety half is proved, see above), and the runs that end in a
counterexample.

## Not modelled

* Rendering, fonts, themes, the two scenes and the drawing in `DashboardApp` and
  `session_views.cpp` describe what the other models decide and change nothing.
  The largest file of the repository, `neutral_office_mesh.hpp`, is 20,491 lines
  of generated vertices: two thirds of all lines of the implementation. Of the
  remaining 10,894 the map covers three in ten.
* HTTP, curl, audio and the camera's registers are I/O whose outcomes the models
  choose from.
* JSON, ciphers, QR decoding, PNG and JPEG decoding, hashing and texture layout
  are functions on bytes that no property here tells apart; so are the parsing of
  addresses and of token files, and the demo JSON codec, which the declarative
  adapter does not call. Lengths are abstracted with them. One fact about them:
  a token may have 16 KiB, its JSON form 20 KiB (`credential_bundle.cpp:12`,
  `credential_claim.cpp:16`), so a token of full length in which more than about
  4,000 characters need an escape is accepted by the bridge, and each of its
  claims ends in 500 after its offer was spent.
* The resource owner is a stack of callbacks that the console's `main` does not
  use.
* Of the code generator, the run of the Lua script, identity, presentation and
  the writing of the sources. Of the demo service, its GET requests, which read
  one statement each and change nothing.

In the models, credentials, secrets and messages are values that can only be
compared.

## Plan

What is left, most important first:

1. `ProductSession` over a `CredentialSlot` instead of a store that holds one
   credential: what a session may resume after a save and then a deletion were
   both cut short. Unless a save was, the two stores are the same
   (`StoreIsACell`).
2. The limits along a credential's way, from the bridge's file through the claim
   to the saved file, as functions on lengths.
3. A console that repeats a recognition, composed with `DemoService`.
