--------------------------- MODULE DashboardScreen ---------------------------
(***************************************************************************)
(* The dashboard: app::DashboardApp with its DashboardNavigation and its   *)
(* DashboardState, and what a frame's input does to them in main.cpp's     *)
(* dashboard branch.  One frame may carry a direction and another key: the *)
(* selection moves first, and the key acts on the one it moved to, before  *)
(* that has been drawn.                                                    *)
(***************************************************************************)
EXTENDS DashboardNavigation

CONSTANTS Snapshots, None

ASSUME SnapshotsType ==
    /\ \A s \in Snapshots :
           /\ s.worklog \in Nat /\ s.absences \in Nat
           /\ s.activity \in Seq([values : Seq(Int), complete : BOOLEAN])
    /\ None \notin Snapshots

VARIABLES
    nav,         \* navigation_
    snapshot,    \* state_.snapshot_
    connection,  \* state_.connection_state_
    sent         \* history: the event and the value of the outcome that is shown

dashboardVars == <<nav, snapshot, connection, sent>>

DashboardTypeOK ==
    /\ nav \in Navigations
    /\ snapshot \in Snapshots \cup {None}
    /\ connection \in {"unpaired", "current", "offline"}
    /\ sent \in (Nat \X Nat) \cup {None}

DashboardInit ==
    /\ nav = InitialNavigation
    /\ snapshot = None
    /\ connection = "unpaired"
    /\ sent = None

-----------------------------------------------------------------------------
(* What the session's news do *)

\* A load or a refresh ended.
set_snapshot(s) ==
    /\ nav' = IF snapshot # None THEN ReconcileSnapshot(nav, s) ELSE ResetForSnapshot(nav, s)
    /\ snapshot' = s
    /\ connection' = "current"
    /\ sent' = None

\* The session was deleted or lost.
mark_unpaired ==
    /\ snapshot' = None
    /\ connection' = "unpaired"
    /\ sent' = None

\* A load failed.
mark_offline ==
    /\ connection' = "offline"
    /\ UNCHANGED <<nav, snapshot, sent>>

-----------------------------------------------------------------------------
(* What a frame's input does *)

\* Only the navigation changes.
NavigationBecomes(n) ==
    /\ nav' = n
    /\ sent' = IF n.status = "idle" THEN None ELSE sent
    /\ UNCHANGED <<snapshot, connection>>

\* L, R
move_subview(offset) == NavigationBecomes(MoveSubview(nav, offset))

\* Left and right walk the worklog, up and down the absences and the events,
\* left and right the values of an event; up and down go first.
Moved(horizontal, vertical) ==
    CASE nav.subview = "worklog" /\ horizontal # 0 ->
            MoveSelection(nav, horizontal, snapshot)
      [] nav.subview \in {"absences", "activity"} /\ vertical # 0 ->
            MoveSelection(nav, vertical, snapshot)
      [] nav.subview = "activity" /\ vertical = 0 /\ horizontal # 0 ->
            MoveRecognition(nav, horizontal, snapshot)
      [] OTHER -> nav

\* A with the selection the frame's directions led to: what is sent is the event
\* and the value that are selected now.
begin_recognition(moved) ==
    /\ CanRecognize(moved, snapshot)
    /\ sent' = <<moved.activity, moved.recognition>>

\* Fault: the outcome goes to the selection as it was drawn.
Answered_Drawn(moved, outcome) ==
    /\ begin_recognition(moved)
    /\ nav' = MarkRecognition(BeginRecognition(nav), outcome)
    /\ UNCHANGED <<snapshot, connection>>

\* The session answered within the frame.
Answered(moved, outcome) ==
    /\ begin_recognition(moved)
    /\ nav' = MarkRecognition(BeginRecognition(moved), outcome)
    /\ UNCHANGED <<snapshot, connection>>

\* The session lost its credential by it.
AnsweredUnauthorized(moved) ==
    /\ CanRecognize(moved, snapshot)
    /\ nav' = MarkRecognition(BeginRecognition(moved), "failure")
    /\ mark_unpaired

\* Nothing can be sent.
CannotSend(moved) ==
    /\ moved.subview = "activity" /\ ~CanRecognize(moved, snapshot)
    /\ NavigationBecomes(moved)

\* A touch on one of the tabs
handle_touch(moved) ==
    \E i \in DOMAIN Subview : NavigationBecomes(SelectSubview(moved, Subview[i]))

-----------------------------------------------------------------------------
(* Properties *)

Within(index, count) == index < count \/ (count = 0 /\ index = 0)

\* Whatever a refresh brought, each selection is an index into the snapshot
\* that is drawn, or 0 where there is nothing to select.
SelectionIsInSnapshot ==
    snapshot # None =>
        /\ Within(nav.worklog, snapshot.worklog)
        /\ Within(nav.absences, snapshot.absences)
        /\ Within(nav.activity, Len(snapshot.activity))
        /\ Within(nav.recognition, ValueCount(nav, snapshot))

\* The outcome on the screen is that of the event and the value selected on
\* it: "sent" is never shown beside something that was not, and no failure
\* leaves the selection locked in "pending".
OutcomeIsOfSelection ==
    snapshot # None =>
        /\ nav.status # "pending"
        /\ nav.status \in {"success", "failure"} =>
               sent = <<nav.activity, nav.recognition>>

=============================================================================
