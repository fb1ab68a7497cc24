---------------------------- MODULE ConsoleScreens ----------------------------
(***************************************************************************)
(* The screens of the console together: LoginScreen and DashboardScreen,   *)
(* and the ways between them through the prelogin and the loading screen.  *)
(* All of it outlives its screen: the entry that paired a console is still *)
(* there when its session is lost, the selection when the user went home.  *)
(*                                                                         *)
(* What the session does is ConsoleApp's; here a load, a claim or a        *)
(* recognition may end in any way, whenever the screen waits for one.      *)
(***************************************************************************)
EXTENDS LoginScreen, DashboardScreen

vars == <<view, context, loginVars, dashboardVars>>

TypeOK == LoginTypeOK /\ DashboardTypeOK

Init == LoginInit /\ DashboardInit

\* start_dashboard_load; a session without a client starts none.
start_dashboard_load(why) ==
    /\ view' \in {"loading", "unavailable"}
    /\ context' = why
    /\ UNCHANGED loginVars

-----------------------------------------------------------------------------
(* The prelogin screen *)

\* Without a saved session, the first screen leads to the login screen.
OpenOffice ==
    /\ view = "prelogin"
    /\ \/ start_dashboard_load("resume")
       \/ OpenEntry
    /\ UNCHANGED dashboardVars

DeleteSession ==
    /\ view = "prelogin"
    /\ mark_unpaired
    /\ UNCHANGED <<view, context, loginVars, nav>>

-----------------------------------------------------------------------------
(* The login screen *)

Login ==
    /\ LoginStep
    /\ UNCHANGED dashboardVars

-----------------------------------------------------------------------------
(* The loading screen *)

ClaimFails ==
    /\ view = "loading" /\ context = "pairing"
    /\ open_login
    /\ UNCHANGED dashboardVars

LoadEnds ==
    /\ view = "loading"
    /\ \/ /\ \E s \in Snapshots : set_snapshot(s)
          /\ Show("dashboard")
          /\ UNCHANGED loginVars
       \/ /\ mark_unpaired
          /\ open_login
          /\ UNCHANGED nav
       \/ /\ mark_offline
          /\ view' = "unavailable"
          /\ UNCHANGED <<context, loginVars>>

\* A: the claim of a pairing is not repeated.
Retry ==
    /\ view = "unavailable"
    /\ start_dashboard_load(IF context = "pairing" THEN "resume" ELSE context)
    /\ UNCHANGED dashboardVars

\* B
GiveUp ==
    /\ view = "unavailable"
    /\ IF context = "refresh" /\ snapshot # None
       THEN Show("dashboard") /\ UNCHANGED loginVars
       ELSE open_login
    /\ UNCHANGED dashboardVars

-----------------------------------------------------------------------------
(* The dashboard *)

GoHome ==
    /\ view = "dashboard"
    /\ Show("prelogin")
    /\ UNCHANGED <<loginVars, dashboardVars>>

ChangeSubview ==
    /\ view = "dashboard"
    /\ \E offset \in {-1, 1} : move_subview(offset)
    /\ UNCHANGED <<view, context, loginVars>>

\* The directions of a frame, then what else was pressed in it
DashboardFrame ==
    /\ view = "dashboard"
    /\ \E horizontal, vertical \in {-1, 0, 1} :
           LET moved == Moved(horizontal, vertical)
           IN  \/ /\ NavigationBecomes(moved)
                  /\ UNCHANGED <<view, context, loginVars>>
               \/ /\ NavigationBecomes(moved)
                  /\ start_dashboard_load("refresh")
               \/ /\ \E outcome \in {"success", "failure"} : Answered(moved, outcome)
                  /\ UNCHANGED <<view, context, loginVars>>
               \/ /\ AnsweredUnauthorized(moved)
                  /\ open_login
               \/ /\ CannotSend(moved)
                  /\ UNCHANGED <<view, context, loginVars>>
               \/ /\ handle_touch(moved)
                  /\ UNCHANGED <<view, context, loginVars>>

Next ==
    \/ OpenOffice
    \/ DeleteSession
    \/ Login
    \/ ClaimFails
    \/ LoadEnds
    \/ Retry
    \/ GiveUp
    \/ GoHome
    \/ ChangeSubview
    \/ DashboardFrame

Spec == Init /\ [][Next]_vars

=============================================================================
