--------------------------- MODULE ApplicationFlow ---------------------------
(***************************************************************************)
(* core::ApplicationFlow: which of the console's four screens is shown and *)
(* what the loading screen says.  A flow is a record; each operator is the *)
(* effect of one method on it.  stages is the number of operations of a    *)
(* dashboard load; pairing puts one more step, the claim, in front of them.*)
(***************************************************************************)
EXTENDS Naturals

ClientView == {"prelogin", "login", "loading", "dashboard"}
LoginMessage == {"enter_pairing_details", "invalid_pairing_details",
                 "pairing_rejected", "pairing_unavailable", "session_expired",
                 "camera_unavailable", "scanning_qr", "invalid_qr_payload"}
LoadingContext == {"resume", "pairing", "refresh"}

Flows(stages) ==
    [view : ClientView, login_message : LoginMessage,
     loading_state : {"loading", "unavailable"},
     loading_context : LoadingContext,
     completed : 0 .. stages + 1, total : stages .. stages + 1]

InitialFlow(stages) ==
    [view |-> "prelogin", login_message |-> "enter_pairing_details",
     loading_state |-> "loading", loading_context |-> "resume",
     completed |-> 0, total |-> stages]

Claiming(context) == IF context = "pairing" THEN 1 ELSE 0

ShowPrelogin(flow) ==
    [flow EXCEPT !.view = "prelogin", !.loading_state = "loading"]

ShowLogin(flow, message) ==
    [flow EXCEPT !.view = "login", !.login_message = message,
                 !.loading_state = "loading"]

StartLoading(flow, context, stages) ==
    [flow EXCEPT !.view = "loading", !.loading_state = "loading",
                 !.loading_context = context, !.completed = 0,
                 !.total = stages + Claiming(context)]

IsLoading(flow) == flow.view = "loading" /\ flow.loading_state = "loading"

\* An update of another load, or one that would move the bar back, is refused.
ProgressAccepted(flow, completed, total) ==
    /\ IsLoading(flow)
    /\ total = flow.total
    /\ flow.completed <= completed /\ completed <= total

SetLoadingProgress(flow, completed, total) ==
    IF ProgressAccepted(flow, completed, total)
    THEN [flow EXCEPT !.completed = completed] ELSE flow

ShowLoadingUnavailable(flow) ==
    [flow EXCEPT !.view = "loading", !.loading_state = "unavailable"]

ShowDashboard(flow) ==
    [flow EXCEPT !.view = "dashboard", !.loading_state = "loading"]

=============================================================================
