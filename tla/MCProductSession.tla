-------------------------- MODULE MCProductSession --------------------------
(***************************************************************************)
(* A small instance of ProductSession: two usable credentials, one of them *)
(* with a clock offset, one that is malformed and one whose device expiry  *)
(* leaves the range of the integers; a clock with readings before, at and  *)
(* after their expiries.                                                   *)
(***************************************************************************)
EXTENDS ProductSession

MCMaxInt == 7
MCMinInt == -8

MCCredentials ==
    { [token |-> "t1", expires_at |-> 2, clock_offset |-> 0],
      [token |-> "t2", expires_at |-> 2, clock_offset |-> -1],
      [token |-> None, expires_at |-> 2, clock_offset |-> 0],
      [token |-> "t1", expires_at |-> 7, clock_offset |-> -1] }

MCTimes == {1, 2, 3}

=============================================================================
