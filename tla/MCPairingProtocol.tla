-------------------------- MODULE MCPairingProtocol --------------------------
(***************************************************************************)
(* A three-bit instance of PairingProtocol: every difference between the   *)
(* clocks that three bits allow, so that the ends of the range are reached.*)
(***************************************************************************)
EXTENDS PairingProtocol

MCMaxInt == 3
MCMinInt == -4
MCBundle == [token |-> "t1", expires_at |-> 3, clock_offset |-> 0]

=============================================================================
