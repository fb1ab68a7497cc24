------------------------- MODULE DashboardNavigation -------------------------
(***************************************************************************)
(* core::DashboardNavigation: what is selected on each of the dashboard's  *)
(* three subviews, and how the last recognition went.  A navigation is a   *)
(* record; each operator is the effect of one method on it.  A snapshot    *)
(* has the lengths of its worklog and its absences, and its events, each   *)
(* with the recognition values it allows and whether it names the event,   *)
(* the recipient and the message that a recognition needs.  Indices count  *)
(* from 0, as in the code.                                                 *)
(***************************************************************************)
EXTENDS Integers, Sequences

Subview == <<"worklog", "absences", "activity">>

Navigations ==
    [subview : {"worklog", "absences", "activity"},
     worklog : Nat, absences : Nat, activity : Nat, recognition : Nat,
     status : {"idle", "pending", "success", "failure"}]

InitialNavigation ==
    [subview |-> "worklog", worklog |-> 0, absences |-> 0, activity |-> 0,
     recognition |-> 0, status |-> "idle"]

clamped_index(index, offset, count) ==
    IF count = 0 \/ index + offset < 0 THEN 0
    ELSE IF index + offset > count - 1 THEN count - 1 ELSE index + offset

HasEvent(nav, snapshot) == nav.activity < Len(snapshot.activity)

SelectedEvent(nav, snapshot) == snapshot.activity[nav.activity + 1]

\* How many values there are to choose from; none without an event
ValueCount(nav, snapshot) ==
    IF HasEvent(nav, snapshot) THEN Len(SelectedEvent(nav, snapshot).values) ELSE 0

HasValue(nav, snapshot) == nav.recognition < ValueCount(nav, snapshot)

SelectedValue(nav, snapshot) ==
    SelectedEvent(nav, snapshot).values[nav.recognition + 1]

ResetForSnapshot(nav, snapshot) ==
    [nav EXCEPT !.worklog = IF snapshot.worklog = 0 THEN 0 ELSE snapshot.worklog - 1,
                !.absences = 0, !.activity = 0, !.recognition = 0, !.status = "idle"]

\* Fault: the indices are kept as they were for the older snapshot.
ReconcileSnapshot_Unclamped(nav, snapshot) == [nav EXCEPT !.status = "idle"]

ReconcileSnapshot(nav, snapshot) ==
    LET clamped ==
            [nav EXCEPT
                !.worklog = clamped_index(@, 0, snapshot.worklog),
                !.absences = clamped_index(@, 0, snapshot.absences),
                !.activity = clamped_index(@, 0, Len(snapshot.activity))]
    IN  [clamped EXCEPT
            !.recognition = clamped_index(@, 0, ValueCount(clamped, snapshot)),
            !.status = "idle"]

SelectSubview(nav, subview) ==
    [nav EXCEPT !.subview = subview, !.status = "idle"]

MoveSubview(nav, offset) ==
    LET index == CHOOSE i \in 1..3 : Subview[i] = nav.subview
    IN  SelectSubview(nav, Subview[((index + offset + 2) % 3) + 1])

MoveSelection(nav, offset, snapshot) ==
    CASE nav.subview = "worklog" ->
            [nav EXCEPT !.worklog = clamped_index(@, offset, snapshot.worklog)]
      [] nav.subview = "absences" ->
            [nav EXCEPT !.absences = clamped_index(@, offset, snapshot.absences)]
      [] nav.subview = "activity" ->
            [nav EXCEPT !.activity = clamped_index(@, offset, Len(snapshot.activity)),
                        !.recognition = 0, !.status = "idle"]

MoveRecognition(nav, offset, snapshot) ==
    IF nav.subview # "activity" \/ nav.status = "pending" THEN nav
    ELSE [nav EXCEPT
            !.recognition = clamped_index(@, offset, ValueCount(nav, snapshot)),
            !.status = "idle"]

\* Whether begin_recognition returns a request; the id the program makes for
\* it is never empty.
CanRecognize(nav, snapshot) ==
    /\ nav.subview = "activity"
    /\ nav.status # "pending"
    /\ HasEvent(nav, snapshot)
    /\ SelectedEvent(nav, snapshot).complete
    /\ HasValue(nav, snapshot)

BeginRecognition(nav) == [nav EXCEPT !.status = "pending"]

MarkRecognition(nav, outcome) ==
    IF nav.status = "pending" THEN [nav EXCEPT !.status = outcome] ELSE nav

=============================================================================
