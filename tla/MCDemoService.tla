---------------------------- MODULE MCDemoService ----------------------------
(***************************************************************************)
(* A small instance of DemoService: submissions of which two share a       *)
(* request id, one is for an event that a reset removes and one is too     *)
(* long; databases without tables, of the first and the second schema with *)
(* recognitions that can and cannot be carried over, and of the current    *)
(* schema.                                                                 *)
(***************************************************************************)
EXTENDS DemoService

CONSTANTS s1, s2, t1, t2

Submission(request, event, value, comment) ==
    [size |-> 1, json |-> TRUE, typed |-> TRUE, request |-> request, event |-> event,
     recipient |-> "alex", value |-> value, comment |-> comment]

MCRequests == {Submission("a", 1, 5, 0), Submission("b", 2, 1, 0),
               Submission("b", 3, 1, 0), Submission("b", 1, 1, 2)}

MCSeed == [profiles |-> {"alex"}, events |-> {1, 2}]

Empty == [version |-> 0, profiles |-> {}, events |-> {}, rows |-> {}, sequence |-> 0, tokens |-> {}]

MCDatabases ==
    {Empty,
     [Empty EXCEPT !.version = 1, !.profiles = {"alex"}, !.events = {1}, !.tokens = {t1},
         !.sequence = 4,
         !.rows = {[id |-> 2, recipient |-> "alex", comment |-> 1],
                   [id |-> 3, recipient |-> "sam", comment |-> 1],
                   [id |-> 4, recipient |-> "alex", comment |-> 2]}],
     [Empty EXCEPT !.version = 2, !.profiles = {"alex", "sam"}, !.events = {1, 3}, !.tokens = {t1},
         !.sequence = 3,
         !.rows = {[id |-> 2, request |-> "a", event |-> 1, recipient |-> "alex",
                    value |-> "great_work", comment |-> 0]}],
     [Empty EXCEPT !.version = 3, !.profiles = {"alex"}, !.events = {1, 2, 3}, !.tokens = {t1}],
     [Empty EXCEPT !.version = 4]}

Symmetry == Permutations(Servers)

=============================================================================
