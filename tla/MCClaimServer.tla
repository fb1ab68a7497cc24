--------------------------- MODULE MCClaimServer ----------------------------
(* ClaimServer on a small instance: three offers, a clock of four readings, *)
(* a credential that expires at the third of them, and an offer that dies   *)
(* of its second wrong guess.                                               *)
EXTENDS ClaimServer

MCTimes == 0 .. 3
\* zero, good ones, and one above the limit of 2
MCLifetimes == {0, 1, 2, 3}

\* main calls begin_pairing once, before it listens.
MainSpec == Init /\ [][Next /\ (answer'.op = "begin" => ~bound)]_vars

=============================================================================
