---------------------------- MODULE LoginControls ----------------------------
(***************************************************************************)
(* app/login_controls: the seventeen touch controls of the login screen    *)
(* and the focus that the direction keys move between them.  A control is  *)
(* its place in kLoginControls; the rectangles are those the code draws,   *)
(* because where a move leads is decided by their centres.                 *)
(***************************************************************************)
EXTENDS Integers, Sequences

Box(left, top, width, height) ==
    [left |-> left, top |-> top, width |-> width, height |-> height]

kLoginFieldTabs == [i \in 1..3 |-> Box(104 * i - 96, 8, 96, 28)]

kLoginKeyBounds ==
    [i \in 1..9 |-> Box(68 * ((i - 1) % 3) + 8, 34 * ((i - 1) \div 3) + 48, 58, 28)]
        \o <<Box(8, 150, 58, 28), Box(76, 150, 126, 28)>>

kLoginEraseButton == Box(212, 48, 100, 28)
kLoginQrButton == Box(212, 82, 100, 28)
kLoginAcceptButton == Box(212, 116, 100, 62)

\* login_control_bounds, by the control's place
kLoginControls ==
    kLoginFieldTabs \o kLoginKeyBounds
        \o <<kLoginEraseButton, kLoginQrButton, kLoginAcceptButton>>

Control == DOMAIN kLoginControls
FieldControls == 1..3
KeyControls == 4..14
EraseControl == 15
QrControl == 16
AcceptControl == 17

DotKey == 13    \* the key whose value is '.', the others being digits

Field == <<"code", "ip", "port">>

\* focus_ after LoginNavigation::reset
FirstControl == 1

contains(box, x, y) ==
    /\ box.left <= x /\ x < box.left + box.width
    /\ box.top <= y /\ y < box.top + box.height

\* The first control that contains the point, if any does
login_control_at(x, y) ==
    {c \in Control : /\ contains(kLoginControls[c], x, y)
                     /\ \A d \in 1 .. c - 1 : ~contains(kLoginControls[d], x, y)}

-----------------------------------------------------------------------------
(* LoginNavigation::move *)

LoginDirection == {"left", "right", "up", "down"}

AbsoluteValue(n) == IF n < 0 THEN -n ELSE n

\* Twice the distance between the centres of two controls
DeltaX(from, to) ==
    2 * kLoginControls[to].left + kLoginControls[to].width
        - 2 * kLoginControls[from].left - kLoginControls[from].width
DeltaY(from, to) ==
    2 * kLoginControls[to].top + kLoginControls[to].height
        - 2 * kLoginControls[from].top - kLoginControls[from].height

Primary(from, to, direction) ==
    CASE direction = "left"  -> -DeltaX(from, to)
      [] direction = "right" -> DeltaX(from, to)
      [] direction = "up"    -> -DeltaY(from, to)
      [] direction = "down"  -> DeltaY(from, to)

Secondary(from, to, direction) ==
    IF direction \in {"left", "right"} THEN AbsoluteValue(DeltaY(from, to))
    ELSE AbsoluteValue(DeltaX(from, to))

\* Fault: the distance off the direction's line counts for nothing.
Score_Straight(from, to, direction) == Primary(from, to, direction)

Score(from, to, direction) ==
    Primary(from, to, direction) + 3 * Secondary(from, to, direction)

\* a is a better destination than b, of those in the direction; kLoginControls
\* is searched in order, so equals go to the earlier one.
Better(from, direction, a, b) ==
    LET score(c) == Score(from, c, direction)
        secondary(c) == Secondary(from, c, direction)
    IN  \/ score(a) < score(b)
        \/ score(a) = score(b) /\ secondary(a) < secondary(b)
        \/ score(a) = score(b) /\ secondary(a) = secondary(b) /\ a < b

Ahead(from, direction) ==
    {c \in Control \ {from} : Primary(from, c, direction) > 0}

\* The moves that leave a control, each with the control it leads to
Moves ==
    UNION {{<<from, direction, to>> : to \in
                {c \in Ahead(from, direction) :
                    \A d \in Ahead(from, direction) \ {c} : Better(from, direction, c, d)}} :
           from \in Control, direction \in LoginDirection}

\* Where the focus goes: nowhere else when nothing lies in the direction
MovedFocus(from, direction) ==
    LET to == {c \in Control : <<from, direction, c>> \in Moves}
    IN  IF to = {} THEN from ELSE CHOOSE c \in to : TRUE

\* The pairs of controls of which the first leads to the second, in a number
\* of moves that doubles up to more than there are controls
LeadsTo ==
    LET paths[n \in 0..5] ==
            IF n = 0 THEN {<<move[1], move[3]>> : move \in Moves} \cup {<<c, c>> : c \in Control}
            ELSE LET half == paths[n - 1]
                 IN  UNION {{<<first[1], second[2]>> :
                                second \in {p \in half : p[1] = first[2]}} : first \in half}
    IN  paths[5]

=============================================================================
