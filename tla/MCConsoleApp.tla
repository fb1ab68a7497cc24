----------------------------- MODULE MCConsoleApp -----------------------------
(***************************************************************************)
(* A small instance of ConsoleApp: two credentials, a clock with a reading *)
(* before and at their expiry, and two pairings, the second of which can   *)
(* meet what the first left behind.                                        *)
(***************************************************************************)
EXTENDS ConsoleApp

MCMaxInt == 7
MCMinInt == -8

MCCredentials ==
    { [token |-> "t1", expires_at |-> 2, clock_offset |-> 0],
      [token |-> "t2", expires_at |-> 2, clock_offset |-> 0] }

MCTimes == {1, 2}

=============================================================================
