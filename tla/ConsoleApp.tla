----------------------------- MODULE ConsoleApp -----------------------------
(***************************************************************************)
(* The console program, platform_3ds/main.cpp: a loop that once per frame  *)
(* advances whatever the session has in flight, handles at most one input  *)
(* of the user on the screen it then finds, and draws the screen.  It      *)
(* composes ProductSession, whose operations its steps call, with          *)
(* ApplicationFlow, the pairing entry, the camera, the dashboard and the   *)
(* avatars.                                                                *)
(*                                                                         *)
(* now_seconds() is read anew for every call of the session, so the clock  *)
(* may have moved between the two calls a frame can make: a step of the    *)
(* program calls the session at most once, and pc says what comes next.    *)
(* What the user types, scans or selects is a choice; the dashboard and    *)
(* the avatars are abstracted to the credential they were loaded with.     *)
(***************************************************************************)
EXTENDS ProductSession, ApplicationFlow

VARIABLES
    pc,                  \* what the program does next
    flow,                \* the screen
    loading_rendered,    \* the loading screen has been drawn since it changed
    has_saved_session,
    entry_open,          \* whether the pairing entry is open
    scanner_active,      \* whether the camera is running
    snapshot,            \* the credential that loaded the dashboard's snapshot
    connection,          \* the connection state the dashboard shows
    avatars              \* the credential whose faces the avatar store holds

login == <<entry_open, scanner_active>>
board == <<snapshot, connection, avatars>>
app == <<pc, flow, loading_rendered, has_saved_session, login, board>>
appVars == <<vars, app>>

AppTypeOK ==
    /\ pc \in {"resume", "advance", "begin", "input", "exited"}
    /\ flow \in Flows(Stages)
    /\ loading_rendered \in BOOLEAN
    /\ has_saved_session \in BOOLEAN
    /\ entry_open \in BOOLEAN
    /\ scanner_active \in BOOLEAN
    /\ snapshot \in Credentials \cup {None}
    /\ connection \in {"unpaired", "current", "offline"}
    /\ avatars \in Credentials \cup {None}

\* The program's own variables when it starts.
Fresh(p, f, rendered, saved, open, scanning, shown, label, faces) ==
    /\ p = "resume"
    /\ f = InitialFlow(Stages)
    /\ rendered = FALSE /\ saved = FALSE
    /\ open = FALSE /\ scanning = FALSE
    /\ shown = None /\ label = "unpaired" /\ faces = None

AppInit ==
    /\ Init
    /\ Fresh(pc, flow, loading_rendered, has_saved_session, entry_open,
             scanner_active, snapshot, connection, avatars)

-----------------------------------------------------------------------------
(* What the handlers share *)

\* A step that calls no operation of the session
NoCall == Refuse("none")

\* Fault: the login screen is shown without opening the entry.
open_login_Closed(message) ==
    /\ flow' = ShowLogin(flow, message)
    /\ UNCHANGED login

open_login(message) ==
    /\ entry_open' = TRUE
    /\ flow' = ShowLogin(flow, message)
    /\ UNCHANGED scanner_active

\* Fault: a load that could not begin leaves the loading screen as it is.
start_dashboard_load_Silent(context) ==
    /\ BeginDashboardLoad
    /\ flow' = StartLoading(flow, context, Stages)

start_dashboard_load(context) ==
    /\ BeginDashboardLoad
    /\ flow' = IF result' = "ok" THEN StartLoading(flow, context, Stages)
               ELSE ShowLoadingUnavailable(StartLoading(flow, context, Stages))

\* Fault: the loaded faces are kept.
ForgetBoard_KeepsFaces ==
    /\ snapshot' = None
    /\ connection' = "unpaired"
    /\ UNCHANGED avatars

\* mark_unpaired and AvatarStore::clear
ForgetBoard ==
    /\ snapshot' = None
    /\ connection' = "unpaired"
    /\ avatars' = None

\* Fault: that the loading screen has been drawn is not noted.
EndFrame_NotDrawn ==
    /\ pc' = "advance"
    /\ loading_rendered' = FALSE

\* The frame ends once the input is handled; the screen it leaves is drawn.
EndFrame ==
    /\ pc' = "advance"
    /\ loading_rendered' = IsLoading(flow')

-----------------------------------------------------------------------------
(* Start-up, and the work a frame advances *)

StartUp ==
    /\ pc = "resume"
    /\ Resume
    /\ has_saved_session' = (result' = "usable")
    /\ flow' = ShowPrelogin(flow)
    /\ pc' = "advance"
    /\ UNCHANGED <<loading_rendered, login, board>>

\* Nothing is advanced before the loading screen has been drawn once.
Advancing == pc = "advance" /\ IsLoading(flow) /\ loading_rendered

AdvanceClaim ==
    /\ Advancing
    /\ state = "claiming"
    /\ AdvanceCredentialClaim
    /\ loading_rendered' = FALSE
    /\ \/ /\ result' = "accepted"
          /\ has_saved_session' = TRUE
          /\ pc' = "begin"
          /\ UNCHANGED <<flow, login>>
       \/ /\ result' = "pending"
          /\ pc' = "input"
          /\ UNCHANGED <<flow, has_saved_session, login>>
       \/ /\ result' \notin {"accepted", "pending"}
          /\ open_login(IF result' = "rejected" THEN "pairing_rejected"
                        ELSE "pairing_unavailable")
          /\ pc' = "input"
          /\ UNCHANGED has_saved_session
    /\ UNCHANGED board

\* The second half of the frame in which the claim was accepted.
BeginClaimedLoad ==
    /\ pc = "begin"
    /\ start_dashboard_load("pairing")
    /\ pc' = "input"
    /\ UNCHANGED <<loading_rendered, has_saved_session, login, board>>

\* Fault: the claim's step is not counted while a pairing loads.
Progress_WithoutClaim(n) == SetLoadingProgress(flow, n, flow.total)

\* The loading screen after an update that says n operations are completed
Progress(n) ==
    LET offset == Claiming(flow.loading_context)
    IN  SetLoadingProgress(flow, n + offset, Stages + offset)

AdvanceLoad ==
    /\ Advancing
    /\ state = "loading"
    /\ AdvanceDashboardLoad
    /\ loading_rendered' = FALSE
    /\ pc' = "input"
    /\ \/ /\ result' = "progress"
          /\ flow' = Progress(load')
          /\ UNCHANGED <<has_saved_session, login, board>>
       \/ /\ result' = "loaded"
          /\ flow' = ShowDashboard(Progress(Stages))
          /\ snapshot' = client
          /\ avatars' = client
          /\ connection' = "current"
          /\ UNCHANGED <<has_saved_session, login>>
       \/ /\ result' = "unauthorized"
          /\ has_saved_session' = FALSE
          /\ ForgetBoard
          /\ open_login("session_expired")
       \/ /\ result' \in {"unavailable", "invalid_response"}
          /\ \E n \in {0, load} : flow' = ShowLoadingUnavailable(Progress(n))
          /\ connection' = "offline"
          /\ UNCHANGED <<has_saved_session, login, snapshot, avatars>>

\* No loading screen to advance, or none drawn yet.
AdvanceNothing ==
    /\ pc = "advance"
    /\ ~(Advancing /\ state \in {"claiming", "loading"})
    /\ pc' = "input"
    /\ loading_rendered' = IF Advancing THEN FALSE ELSE loading_rendered
    /\ NoCall
    /\ UNCHANGED <<flow, has_saved_session, login, board>>

-----------------------------------------------------------------------------
(* The user's input, by the screen it meets *)

On(view) == pc = "input" /\ flow.view = view

\* No input, or one that changes nothing modelled here: moves of the focus
\* and the selection, typing, keys the screen does not use.
NoInput ==
    /\ pc = "input"
    /\ NoCall
    /\ UNCHANGED <<flow, has_saved_session, login, board>>
    /\ EndFrame

DeleteSession ==
    /\ On("prelogin")
    /\ has_saved_session
    /\ ClearCredential
    /\ ForgetBoard
    /\ has_saved_session' = FALSE
    /\ flow' = ShowPrelogin(flow)
    /\ EndFrame
    /\ UNCHANGED login

OpenOffice ==
    /\ On("prelogin")
    /\ IF has_saved_session
       THEN start_dashboard_load("resume") /\ UNCHANGED login
       ELSE /\ entry_open' = TRUE
            /\ flow' = ShowLogin(flow, "enter_pairing_details")
            /\ NoCall
            /\ UNCHANGED <<scanner_active>>
    /\ EndFrame
    /\ UNCHANGED <<has_saved_session, board>>

\* begin_pairing with an entry that can be submitted
BeginPairing ==
    /\ \E s \in Sources : BeginCredentialClaim(s)
    /\ IF result' = "true"
       THEN flow' = StartLoading(flow, "pairing", Stages) /\ UNCHANGED entry_open
       ELSE /\ flow' = ShowLogin(flow, "pairing_unavailable")
            /\ entry_open' = TRUE

\* begin_pairing with an entry that cannot
RefuseEntry(message) ==
    /\ flow' = ShowLogin(flow, message)
    /\ NoCall
    /\ UNCHANGED <<entry_open>>

StartScan ==
    /\ On("login") /\ ~scanner_active
    /\ \/ scanner_active' = TRUE /\ flow' = ShowLogin(flow, "scanning_qr")
       \/ scanner_active' = FALSE /\ flow' = ShowLogin(flow, "camera_unavailable")
    /\ EndFrame
    /\ NoCall
    /\ UNCHANGED <<has_saved_session, entry_open, board>>

\* The camera decoded a picture or failed, or the user pressed B; in each
\* case it has been stopped.
ScanEnds ==
    /\ On("login") /\ scanner_active
    /\ scanner_active' = FALSE
    /\ \/ BeginPairing
       \/ \E message \in {"invalid_pairing_details", "invalid_qr_payload",
                          "camera_unavailable", "enter_pairing_details"} :
              RefuseEntry(message)
    /\ EndFrame
    /\ UNCHANGED <<has_saved_session, board>>

Accept ==
    /\ On("login") /\ ~scanner_active
    /\ BeginPairing \/ RefuseEntry("invalid_pairing_details")
    /\ EndFrame
    /\ UNCHANGED <<has_saved_session, scanner_active, board>>

CancelLogin ==
    /\ On("login") /\ ~scanner_active
    /\ entry_open' = FALSE
    /\ flow' = ShowPrelogin(flow)
    /\ EndFrame
    /\ NoCall
    /\ UNCHANGED <<has_saved_session, scanner_active, board>>

\* A on the unavailable screen
Retry ==
    /\ On("loading") /\ flow.loading_state = "unavailable"
    /\ start_dashboard_load(IF flow.loading_context = "pairing" THEN "resume"
                            ELSE flow.loading_context)
    /\ EndFrame
    /\ UNCHANGED <<has_saved_session, login, board>>

\* B on the unavailable screen
LeaveUnavailable ==
    /\ On("loading") /\ flow.loading_state = "unavailable"
    /\ IF flow.loading_context = "refresh" /\ snapshot # None
       THEN flow' = ShowDashboard(flow) /\ UNCHANGED login
       ELSE open_login("enter_pairing_details")
    /\ EndFrame
    /\ NoCall
    /\ UNCHANGED <<has_saved_session, board>>

GoHome ==
    /\ On("dashboard")
    /\ flow' = ShowPrelogin(flow)
    /\ EndFrame
    /\ NoCall
    /\ UNCHANGED <<has_saved_session, login, board>>

Refresh ==
    /\ On("dashboard")
    /\ start_dashboard_load("refresh")
    /\ EndFrame
    /\ UNCHANGED <<has_saved_session, login, board>>

\* A with an event and a value selected
SendSelected ==
    /\ On("dashboard")
    /\ SendRecognition
    /\ IF result' = "unauthorized"
       THEN /\ has_saved_session' = FALSE
            /\ ForgetBoard
            /\ open_login("session_expired")
       ELSE UNCHANGED <<flow, has_saved_session, login, board>>
    /\ EndFrame

\* aptMainLoop or START ends the loop; the camera is stopped and the session
\* shut down.
Exit ==
    /\ pc \in {"advance", "input"}
    /\ Shutdown
    /\ scanner_active' = FALSE
    /\ pc' = "exited"
    /\ UNCHANGED <<flow, loading_rendered, has_saved_session, entry_open, board>>

-----------------------------------------------------------------------------
(* The environment, and the specification *)

\* The console is switched off, or the program is started again.
Relaunch ==
    /\ Restart
    /\ Fresh(pc', flow', loading_rendered', has_saved_session', entry_open',
             scanner_active', snapshot', connection', avatars')

ClockMoves ==
    /\ SetClock
    /\ UNCHANGED app

Input ==
    \/ NoInput
    \/ DeleteSession
    \/ OpenOffice
    \/ StartScan
    \/ ScanEnds
    \/ Accept
    \/ CancelLogin
    \/ Retry
    \/ LeaveUnavailable
    \/ GoHome
    \/ Refresh
    \/ SendSelected
    \/ Exit

Frame ==
    \/ StartUp
    \/ AdvanceClaim
    \/ BeginClaimedLoad
    \/ AdvanceLoad
    \/ AdvanceNothing
    \/ Input

AppNext ==
    \/ Frame
    \/ Relaunch
    \/ ClockMoves

AppSpec == AppInit /\ [][AppNext]_appVars

\* A frame in which the claim's source answered
ClaimAnswered == AdvanceClaim /\ result' # "pending"

\* The loop keeps running, and BridgeClaimSource answers the poll that finds
\* it: its request has ended, one way or the other, when poll returns.
FairAppSpec == AppSpec /\ WF_appVars(Frame) /\ SF_appVars(ClaimAnswered)

-----------------------------------------------------------------------------
(* Properties *)

\* Between frames, the loading screen is shown exactly while the session has
\* a claim or a load in flight: nothing runs behind another screen, and the
\* loading screen never waits for nothing (main.cpp's loop advances only what
\* that screen shows).
WorkIsShown ==
    pc \in {"advance", "input"} =>
        (IsLoading(flow) <=> state \in {"claiming", "loading"})

\* The dashboard is drawn with a snapshot, of the session that is open, and
\* with that session's faces: no screen shows one account's data under
\* another account's credential.  Once the program no longer counts on a saved
\* session, neither is kept.
BoardIsOwn ==
    /\ flow.view = "dashboard" =>
           snapshot # None /\ (client # None => snapshot = client)
    /\ avatars = snapshot
    /\ ~has_saved_session => snapshot = None

\* The login screen always has an open entry, without which it ignores every
\* key, and the camera runs only there, and only while the screen says so.
LoginIsUsable ==
    /\ flow.view = "login" => entry_open
    /\ pc # "exited" =>
           (scanner_active <=> flow.view = "login" /\ flow.login_message = "scanning_qr")

\* While a load is under way the bar shows the operations it has completed,
\* with the claim as the first of them when it began with pairing.
ProgressIsTrue ==
    pc # "exited" /\ state = "loading" =>
        /\ flow.total = Stages + Claiming(flow.loading_context)
        /\ flow.completed = IF load = 0 THEN 0
                            ELSE load + Claiming(flow.loading_context)

\* With a store that can delete, the prelogin screen offers a saved session
\* only while there is one, as its text says (session_views.cpp:113, "SESSION
\* READY").
ReadyMeansSaved ==
    flow.view = "prelogin" /\ has_saved_session => store # None

\* With a store that can delete, the user is told that the session expired
\* (session_views.cpp:78) only when the console has no usable session left to
\* come back to.
ExpiredMeansExpired ==
    flow.view = "login" /\ flow.login_message = "session_expired" =>
        store = None \/ store \in rejected \/ Evaluate(store, now) # "usable"

\* The loading screen does not stay: each claim and each load ends in another
\* screen, in the offer to retry, or in the user leaving the program.
LoadingScreenEnds == IsLoading(flow) ~> ~IsLoading(flow) \/ pc = "exited"

=============================================================================
