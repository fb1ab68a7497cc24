------------------------------ MODULE QrScanner ------------------------------
(***************************************************************************)
(* platform_3ds::QrScanner: the camera, and everything it needs.  A        *)
(* scanner is a record: what it holds of the system, the two flags the     *)
(* code keeps, and whether a handle was overwritten while still open.      *)
(* Each step of start may fail, whatever it has taken by then is what stop *)
(* has to give back.  Pictures are abstracted to whether one holds a code. *)
(***************************************************************************)
EXTENDS Naturals, Sequences

\* What start takes, in its order; "sensor" is the activated camera
Resources == <<"decoder", "buffer", "texture", "camera", "sensor",
               "buffer_error_event", "receive_event", "capture">>

AllResources == {Resources[i] : i \in DOMAIN Resources}

\* What the code keeps of the camera; the handles and flags of what it holds are
\* one set
Scanners ==
    [active : BOOLEAN, capturing : BOOLEAN, held : SUBSET AllResources, leaked : BOOLEAN]

Off == [active |-> FALSE, capturing |-> FALSE, held |-> {}, leaked |-> FALSE]

\* Fault: what a start that failed has taken is only given back once it captures.
Stopped_IfCapturing(scanner) == IF scanner.capturing THEN Off ELSE scanner

\* Only an initialised camera is deactivated, and only a capture noted as such
\* is stopped.
Stopped(scanner) ==
    LET camera == "camera" \in scanner.held
    IN  [scanner EXCEPT
            !.active = FALSE,
            !.capturing = @ /\ ~camera,
            !.held = @ \ ({"receive_event", "buffer_error_event", "buffer", "decoder", "texture"}
                          \cup (IF camera THEN {"camera", "sensor"} ELSE {})
                          \cup (IF camera /\ scanner.capturing THEN {"capture"} ELSE {}))]

\* start has done the first k of its steps.
After(scanner, k) == [scanner EXCEPT !.held = @ \cup {Resources[i] : i \in 1..k}]

\* The scanners that start may leave behind
Starts(scanner) ==
    {Stopped(After(Stopped(scanner), k)) : k \in 0 .. Len(Resources) - 1} \cup
    {[After(Stopped(scanner), Len(Resources)) EXCEPT !.active = TRUE, !.capturing = TRUE]}

EventClosed(scanner) == [scanner EXCEPT !.held = @ \ {"receive_event"}]

queue_frame(scanner) ==
    [scanner EXCEPT !.leaked = @ \/ "receive_event" \in scanner.held,
                    !.held = @ \cup {"receive_event"}]

\* The scanners that recover_capture may leave behind if it succeeds, and if not
recover_capture(scanner) == queue_frame(EventClosed(scanner))
RecoveryFails(scanner) == {EventClosed(scanner), queue_frame(EventClosed(scanner))}

\* update found nothing to decode: no frame yet, one without a code, or one that
\* overran the buffer.
Continues(scanner) == {scanner, queue_frame(EventClosed(scanner)), recover_capture(scanner)}

Decodes(scanner) == Stopped(EventClosed(scanner))

\* update failed to recover, or to queue the next frame.
Fails(scanner) == {Stopped(s) : s \in RecoveryFails(scanner) \cup {EventClosed(scanner)}}

=============================================================================
