------------------------------ MODULE MCSteering ------------------------------
(* The camera of MCCamera under a loop of three instructions with four steps *)
(* to a tick, which ends in another place of the loop each time, as 64 steps *)
(* do in a loop of any length that does not divide 64.                       *)
EXTENDS Steering

MCPlaces == {<<0, 3>>, <<3, 1>>}
=============================================================================
