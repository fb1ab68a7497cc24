----------------------------- MODULE LoginScreen -----------------------------
(***************************************************************************)
(* The login screen of the console: the pairing entry, the focus on the    *)
(* touch controls and the camera, as main.cpp's login branch drives them.  *)
(* The entry is the same object while other screens are shown; how those   *)
(* lead here is ConsoleScreens'.                                           *)
(***************************************************************************)
EXTENDS LoginControls, PairingEntry, QrScanner, SequencesExt

CONSTANT Nothing    \* no endpoint scanned yet

ASSUME NothingIsNoEndpoint == Nothing \notin Endpoints

VARIABLES
    view,        \* the screen shown; of a load, whether it is still under way
    context,     \* what the loading screen is shown for; "none" on the others,
                 \* which do not read it
    entry,       \* pairing_entry
    focus,       \* login_navigation
    scanner,     \* the camera
    scanned      \* history: the endpoint scanned last

loginVars == <<entry, focus, scanner, scanned>>

LoginTypeOK ==
    /\ view \in {"prelogin", "login", "loading", "unavailable", "dashboard"}
    /\ context \in {"none", "resume", "pairing", "refresh"}
    /\ entry \in Entries
    /\ Fits(entry)
    /\ focus \in Control
    /\ scanner \in Scanners
    /\ scanned \in Endpoints \cup {Nothing}

LoginInit ==
    /\ view = "prelogin"
    /\ context = "none"
    /\ entry = Emptied(FALSE, "code")
    /\ focus = FirstControl
    /\ scanner = Off
    /\ scanned = Nothing

-----------------------------------------------------------------------------
(* The way to the login screen *)

Show(screen) == view' = screen /\ context' = "none"

\* "Open office" without a saved session
OpenEntry ==
    /\ Show("login")
    /\ entry' = Opened
    /\ focus' = FirstControl
    /\ UNCHANGED <<scanner, scanned>>

\* Pairing failed, the session was lost, or a load was given up.
open_login ==
    /\ Show("login")
    /\ entry' = IF entry.open THEN entry ELSE Opened
    /\ focus' = FirstControl
    /\ UNCHANGED <<scanner, scanned>>

-----------------------------------------------------------------------------
(* The login screen *)

\* begin_pairing with the entry as it will be; the session of a running console
\* refuses no claim.
BeginPairing(e) ==
    IF CanSubmit(e) THEN view' = "loading" /\ context' = "pairing"
    ELSE view' = "login" /\ UNCHANGED context

StartScan ==
    /\ scanner' \in Starts(scanner)
    /\ UNCHANGED <<view, context, entry>>

Activate(c) ==
    \/ /\ c \in FieldControls
       /\ entry' = Selected(entry, Field[c])
       /\ UNCHANGED <<view, context, scanner>>
    \/ /\ c \in KeyControls
       /\ entry' = Appended(entry, IF c = DotKey THEN "." ELSE "d")
       /\ UNCHANGED <<view, context, scanner>>
    \/ /\ c = EraseControl
       /\ entry' = Erased(entry)
       /\ UNCHANGED <<view, context, scanner>>
    \/ /\ c = QrControl
       /\ StartScan
    \/ /\ c = AcceptControl
       /\ BeginPairing(entry)
       /\ UNCHANGED <<entry, scanner>>

\* The keys reach the controls only while the camera is off.
AtControls == view = "login" /\ ~scanner.active
AtCamera == view = "login" /\ scanner.active

\* A picture without a code
ScanContinues ==
    /\ AtCamera
    /\ scanner' \in Continues(scanner)
    /\ UNCHANGED <<view, context, entry, focus, scanned>>

ScanDecoded ==
    /\ AtCamera
    /\ scanner' = Decodes(scanner)
    /\ \E endpoint \in Endpoints :
           /\ scanned' = endpoint
           /\ entry' = Scanned(entry, endpoint)
           /\ focus' = FirstControl
           /\ BeginPairing(entry')

\* Not a pairing QR code, a failed camera, or B
ScanEnds ==
    /\ AtCamera
    /\ scanner' \in {Decodes(scanner), Stopped(scanner)} \cup Fails(scanner)
    /\ UNCHANGED <<view, context, entry, focus, scanned>>

PressX ==
    /\ AtControls
    /\ StartScan
    /\ UNCHANGED <<focus, scanned>>

PressB ==
    /\ AtControls
    /\ IF selected_value_empty(entry)
       THEN /\ entry' = Cancelled(entry)
            /\ view' = "prelogin"
            /\ focus' = FirstControl
       ELSE /\ entry' = Erased(entry)
            /\ UNCHANGED <<view, focus>>
    /\ UNCHANGED <<context, scanner, scanned>>

PressDirection ==
    /\ AtControls
    /\ \E direction \in LoginDirection : focus' = MovedFocus(focus, direction)
    /\ entry' = IF focus' # focus /\ focus' \in FieldControls
                THEN Selected(entry, Field[focus']) ELSE entry
    /\ UNCHANGED <<view, context, scanner, scanned>>

PressA ==
    /\ AtControls
    /\ Activate(focus)
    /\ UNCHANGED <<focus, scanned>>

\* The controls that a touch in the middle of a control may reach
TouchTargets ==
    UNION {login_control_at(box.left + box.width \div 2, box.top + box.height \div 2) :
               box \in {kLoginControls[c] : c \in Control}}

Touch ==
    /\ AtControls
    /\ focus' \in TouchTargets
    /\ Activate(focus')
    /\ UNCHANGED scanned

LoginStep ==
    \/ ScanContinues
    \/ ScanDecoded
    \/ ScanEnds
    \/ PressX
    \/ PressB
    \/ PressDirection
    \/ PressA
    \/ Touch

-----------------------------------------------------------------------------
(* Properties *)

\* A scanned secret is in force only while no code has been typed since, and
\* only for an address that the user has at most added characters to: it is
\* never mixed with a typed code nor sent to an address erased and retyped.
SecretKeepsItsScan ==
    entry.secret # NoSecret =>
        /\ scanned # Nothing
        /\ entry.secret = scanned.secret
        /\ entry.code = <<>>
        /\ IsPrefix(scanned.host, entry.ip)
        /\ IsPrefix(scanned.port, entry.port)

\* The direction keys alone can bring the focus to any control, from wherever
\* it is: no part of the login screen needs a touch.
EveryControlReachable == \A c \in Control : <<focus, c>> \in LeadsTo

\* The camera is whole or gone: while it scans everything its frames need is
\* held, and a scan that ended in whatever way, a start that failed at whatever
\* step, has given all of it back and lost no handle.  It runs on the login
\* screen only.
CameraIsWholeOrGone ==
    /\ ~scanner.leaked
    /\ IF scanner.active THEN scanner.held = AllResources /\ view = "login"
       ELSE scanner = Off

=============================================================================
