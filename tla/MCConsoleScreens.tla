--------------------------- MODULE MCConsoleScreens ---------------------------
(***************************************************************************)
(* A small instance of ConsoleScreens: a code of two digits, addresses of  *)
(* up to two characters, two QR codes, and two snapshots, either without   *)
(* what the other has two of; one of the events allows no recognition.     *)
(***************************************************************************)
EXTENDS ConsoleScreens

MCHosts == {<<"d">>}
MCPorts == {<<"d">>}

Event(values, complete) == [values |-> values, complete |-> complete]

MCSnapshots ==
    {[worklog |-> 2, absences |-> 0,
      activity |-> <<Event(<<1, 2>>, TRUE), Event(<<>>, TRUE)>>],
     [worklog |-> 0, absences |-> 2, activity |-> <<>>]}

MCSymmetry == Permutations(Secrets)

=============================================================================
