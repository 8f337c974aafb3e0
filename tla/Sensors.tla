-------------------------------- MODULE Sensors --------------------------------
(***************************************************************************)
(* SENSE: a sensor of the board's overlay behind hal::sense                *)
(* (zephyr/src/hal_zephyr.cpp), sampled at most once a period and cached;  *)
(* a fetch may fail, and so may the reading of any of its channels.        *)
(***************************************************************************)
EXTENDS Integers, Sequences

CONSTANTS
  Period,    \* periodMs
  Channels,  \* the device's channels, in the order of its table
  Readings   \* what a channel may measure, in the unit a maker reads

Named == {Channels[i] : i \in DOMAIN Channels}
ASSUME SensorsAssumption ==
  Period \in Nat \ {0} /\ Channels \in Seq(Named) /\ Readings \subseteq Int \ {0}

VARIABLES
  cache,   \* the SenseDevice: [age, ok, v], age = now - lastMs up to Period
  sensed,  \* what the last SENSE pushed, and its history
  truth    \* history, what the last fetch measured and its age: [v, age]

(* sensed is [value, measured, age]: measured and age say what the last    *)
(* fetch measured of the channel and when it was asked for it (Unmeasured  *)
(* for a channel the device does not have).                                *)

sensorVars == <<cache, sensed, truth>>

Unknown == "other"
Unmeasured == 0
Capped(ms) == IF ms < Period THEN ms ELSE Period

SensorsInit ==
  /\ cache = [age |-> Period, ok |-> FALSE, v |-> [c \in Named |-> 0]]
  /\ truth = [v |-> [c \in Named |-> 0], age |-> Period]
  /\ sensed = [value |-> 0, measured |-> Unmeasured, age |-> 0]

(* The first n channels of a measurement m were read, the next was not.    *)
LastDecides(n) == n # Len(Channels) - 1
AllRead(n) == n = Len(Channels)
ReadOf(m, n) ==
  [c \in Named |-> IF \E i \in 1 .. n : Channels[i] = c THEN m[c] ELSE cache.v[c]]

Fetches ==
  \/ cache' = [cache EXCEPT !.age = 0, !.ok = FALSE] /\ UNCHANGED truth
  \/ \E m \in [Named -> Readings], n \in 0 .. Len(Channels) :
       /\ cache' = [age |-> 0, ok |-> AllRead(n), v |-> ReadOf(m, n)]
       /\ truth' = [v |-> m, age |-> 0]

Sense(channel) ==
  /\ IF cache.age >= Period THEN Fetches ELSE UNCHANGED <<cache, truth>>
  /\ sensed' = [value |-> IF cache'.ok /\ channel \in Named THEN cache'.v[channel] ELSE 0,
                measured |-> IF channel \in Named THEN truth'.v[channel] ELSE Unmeasured,
                age |-> truth'.age]

Elapses(ms) ==
  /\ cache' = [cache EXCEPT !.age = Capped(@ + ms)]
  /\ truth' = [truth EXCEPT !.age = Capped(@ + ms)]
  /\ UNCHANGED sensed

SensorStep ==
  \/ \E channel \in Named \cup {Unknown} : Sense(channel)
  \/ \E ms \in 1 .. Period : Elapses(ms)
-----------------------------------------------------------------------------
(* A program reads a measurement of the sensor's, not older than a period  *)
(* and every channel of one fetch with the others, or reads 0: never what  *)
(* a channel kept from before a failure.                                   *)
SenseFresh ==
  sensed.value # 0 => sensed.value = sensed.measured /\ sensed.age < Period
=============================================================================
