------------------------------- MODULE MCSerial -------------------------------
(* A ring of three slots, lines of at most two bytes; seven bytes hold an    *)
(* over-long line, its end, and a line after it.                             *)
EXTENDS SerialLink

CONSTANTS nl, cr, x
=============================================================================
