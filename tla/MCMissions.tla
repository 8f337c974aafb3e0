------------------------------ MODULE MCMissions ------------------------------
(* A millisecond clock of 14, which wraps.  Two traffic lights, one with a   *)
(* walk request, one without, whose minimum is longer than its green and     *)
(* which keeps the pins of the last; two pianos, one that plays by itself    *)
(* and one by its button on the second buzzer.                               *)
EXTENDS Missions

MCPins(buzzer, button) ==
  [green |-> "g", yellow |-> "y", red |-> "r", buzzer |-> buzzer, button |-> button]
Light(pins, green, minGreen, beep, button) ==
  [id |-> "SEMAFORO", pins |-> pins, green |-> green, minGreen |-> minGreen, yellow |-> 1,
   red |-> 2, beep |-> beep, button |-> button]
Piano(pins, note, auto) ==
  [id |-> "PIANOLA", pins |-> pins, note |-> note, auto |-> auto, scale |-> 3]

MCBuiltWith == MCPins("main", "b")
MCCalls ==
  { Light(MCPins("main", "b"), 4, 2, 1, TRUE), Light(NoPins, 2, 3, 1, FALSE),
    Piano(MCPins("main", "b"), 4, TRUE), Piano(MCPins("second", "b"), 4, FALSE) }
=============================================================================
