------------------------------- MODULE MCPacing -------------------------------
(* A clock of 12 ms, waits that a sleep's cap cuts and waits it does not,    *)
(* zero included.                                                            *)
EXTENDS Pacing

MCWaits == {0, 1, 4}
=============================================================================
