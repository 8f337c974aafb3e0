------------------------------- MODULE MCCamera -------------------------------
(* A frame of 3 pixels read by 2: two polls, the last one short.  A camera   *)
(* may hold a pixel less or one more than a frame.  Two classes of target,   *)
(* seen near at the left and far at the right.                               *)
EXTENDS Camera

MCFifoSizes == {2, 3, 4}
MCClasses == 0 .. 2
MCPlaces == {<<0, 3>>, <<3, 1>>}
=============================================================================
