------------------------------- MODULE Missions -------------------------------
(***************************************************************************)
(* The native missions, the traffic light (src/semaforo.h) and the piano   *)
(* (src/pianola.h), as a CALL finds them in the registry (src/registry.cpp)*)
(* and the VM ticks them, with the buzzers and lamps they drive and the    *)
(* millisecond clock, which wraps.                                         *)
(*                                                                         *)
(* Both objects are static: a CALL configures, sets and begins the one it  *)
(* names, also by OVERRIDE while a mission runs.  What setParams reads is  *)
(* any of the settings of Calls; tunes are left out but for their length.  *)
(***************************************************************************)
EXTENDS Integers

CONSTANTS
  Wrap,     \* 2^32 ms
  PassMs,   \* the longest time between two ticks
  BlinkMs,  \* 250
  Lamps,    \* pads of lamps
  Buttons,  \* pads of buttons
  Calls,    \* [id, pins, green, minGreen, yellow, red, beep, button] or
            \* [id, pins, note, auto, scale]; pins: [green, yellow, red, buzzer, button]
  BuiltWith, \* the pins of an object no CALL configured yet
  NoPins,   \* a CALL of fewer than five pins
  MaxCalls  \* bound on the CALLs of a behaviour

Buzzers == {"main", "second"}
Pins == [green : Lamps, yellow : Lamps, red : Lamps, buzzer : Buzzers, button : Buttons]

ASSUME ClockAssumption ==
  /\ Wrap \in Nat \ {0} /\ PassMs \in Nat \ {0} /\ 2 * PassMs < Wrap /\ 4 < Wrap
  /\ BlinkMs \in Nat \ {0}
ASSUME CallsAssumption ==
  /\ MaxCalls \in Nat /\ BuiltWith \in Pins /\ NoPins \notin Pins
  /\ \A c \in Calls :
       /\ c.pins \in Pins \cup {NoPins}
       /\ \/ /\ c.id = "SEMAFORO" /\ c.button \in BOOLEAN /\ c.beep \in Nat
             /\ {c.green, c.minGreen, c.yellow, c.red} \subseteq 1 .. Wrap - 2 * PassMs
          \/ /\ c.id = "PIANOLA" /\ c.auto \in BOOLEAN /\ c.scale \in Nat \ {0}
             /\ c.note \in 4 .. Wrap - 2 * PassMs

VARIABLES
  clock,    \* hal::nowMs()
  current,  \* the VM's currentMission
  sem,      \* the Semaforo object
  pia,      \* the Pianola object
  leds,     \* the lamps that are lit
  tones,    \* the buzzers that sound
  down,     \* the buttons held down
  calls     \* how many CALLs there were

(* History: the true age of the phase and of the note (up to Wrap), and    *)
(* the buzzers a CALL found sounding and did not own.                      *)
VARIABLES age, noteAge, carried

objects == <<current, sem, pia>>
history == <<age, noteAge, carried>>
vars == <<clock, objects, leds, tones, down, calls, history>>

None == "none"

Elapsed(from, t) == (t - from) % Wrap
PassedDeadline(from, ms, t) == t >= (from + ms) % Wrap
PassedUnwrapped(from, ms, t) == t >= from + ms
Passed(from, ms, t) == Elapsed(from, t) >= ms

Older(a, d) == IF a + d < Wrap THEN a + d ELSE Wrap
Least(m, n) == IF m < n THEN m ELSE n
-----------------------------------------------------------------------------
(* The traffic light.                                                      *)
Unlit(p) == leds \ {p.green, p.yellow, p.red}
PhaseLamp(p, phase) ==
  CASE phase = "GREEN" -> p.green [] phase = "YELLOW" -> p.yellow [] phase = "RED" -> p.red

(* enter() reads the clock again: it may have moved to t since the tick's  *)
(* own reading.                                                            *)
Entered(s, phase, t) ==
  IF phase = "GREEN"
  THEN [s EXCEPT !.phase = phase, !.phaseStart = t, !.requested = FALSE,
                 !.greenLit = TRUE, !.blinkAt = t]
  ELSE IF phase = "RED"
  THEN [s EXCEPT !.phase = phase, !.phaseStart = t, !.beepAt = t, !.beepOn = FALSE]
  ELSE [s EXCEPT !.phase = phase, !.phaseStart = t]
Enter(s, phase, t) ==
  /\ sem' = Entered(s, phase, t)
  /\ leds' = Unlit(s.pins) \cup {PhaseLamp(s.pins, phase)}
  /\ clock' = t /\ age' = 0

(* GREEN: a press is taken note of and blinks the lamp; the phase is over  *)
(* at its end, or after the minimum once a press asked.                    *)
Noticed(s, now) ==
  LET asked == s.requested \/ (s.set.button /\ s.pins.button \in down)
      blink == asked /\ Passed(s.blinkAt, BlinkMs, now)
  IN  [s EXCEPT !.requested = asked,
                !.blinkAt = IF blink THEN now ELSE @,
                !.greenLit = IF blink THEN ~@ ELSE @]
GreenOver(s, now) ==
  \/ Passed(s.phaseStart, s.set.green, now)
  \/ s.requested /\ Passed(s.phaseStart, s.set.minGreen, now)
Green(now, later) ==
  LET s == Noticed(sem, now)
  IN  /\ sem.phase = "GREEN" /\ UNCHANGED <<tones, carried>>
      /\ IF GreenOver(s, now) THEN Enter(s, "YELLOW", later)
         ELSE /\ sem' = s /\ clock' = now /\ age' = Older(age, Elapsed(clock, now))
              /\ leds' = IF s.greenLit = sem.greenLit THEN leds
                         ELSE IF s.greenLit THEN leds \cup {s.pins.green}
                         ELSE leds \ {s.pins.green}

Yellow(now, later) ==
  /\ sem.phase = "YELLOW" /\ UNCHANGED <<tones, carried>>
  /\ IF Passed(sem.phaseStart, sem.set.yellow, now) THEN Enter(sem, "RED", later)
     ELSE /\ UNCHANGED <<sem, leds>>
          /\ clock' = now /\ age' = Older(age, Elapsed(clock, now))

(* RED: the walk beep, then green, silent.                                 *)
Beeped(s, now) ==
  IF s.set.beep # 0 /\ Passed(s.beepAt, s.set.beep, now)
  THEN [s EXCEPT !.beepAt = now, !.beepOn = ~@] ELSE s
Red(now, later) ==
  LET s == Beeped(sem, now)  own == sem.pins.buzzer
  IN  /\ sem.phase = "RED" /\ UNCHANGED carried
      /\ IF Passed(s.phaseStart, s.set.red, now)
         THEN Enter(s, "GREEN", later) /\ tones' = tones \ {own}
         ELSE /\ sem' = s /\ clock' = now /\ age' = Older(age, Elapsed(clock, now))
              /\ UNCHANGED leds
              /\ tones' = IF s.beepOn = sem.beepOn THEN tones
                          ELSE IF s.beepOn THEN tones \cup {own} ELSE tones \ {own}

SemaforoTick(now, later) ==
  /\ current = "SEMAFORO"
  /\ Green(now, later) \/ Yellow(now, later) \/ Red(now, later)
  /\ UNCHANGED <<current, pia, down, calls, noteAge>>
-----------------------------------------------------------------------------
(* The piano: at a press, or by itself, a note and one of the three lamps. *)
(* Its times are compared, not subtracted.                                 *)
NoteOverLate(p, now) == now > p.noteOffAt
NoteOver(p, now) == now >= p.noteOffAt

NextOf(i, n) == (i + 1) % n

Lamp(p, i) == CASE i % 3 = 0 -> p.green [] i % 3 = 1 -> p.yellow [] i % 3 = 2 -> p.red
Sings(p, now) ==
  [p EXCEPT !.playing = TRUE, !.noteOffAt = (now + p.set.note) % Wrap, !.idx = NextOf(@, p.set.scale)]

PianolaTick(now) ==
  LET own  == pia.pins.buzzer
      ends == pia.playing /\ NoteOver(pia, now)
      held == pia.pins.button \in down
      rest == [pia EXCEPT !.playing = @ /\ ~ends]
      play == IF pia.set.auto THEN ~rest.playing /\ now >= pia.nextAt
              ELSE held /\ ~pia.held
      sung == IF play THEN Sings(rest, now) ELSE rest
      dark == IF ends THEN Unlit(pia.pins) ELSE leds
  IN  /\ current = "PIANOLA"
      /\ pia' = IF pia.set.auto
                THEN [sung EXCEPT !.nextAt =
                        IF play THEN (sung.noteOffAt + pia.set.note \div 4) % Wrap ELSE @]
                ELSE [sung EXCEPT !.held = held]
      /\ leds' = IF play THEN Unlit(pia.pins) \cup {Lamp(pia.pins, pia.idx)} ELSE dark
      /\ tones' = IF play THEN tones \cup {own} ELSE IF ends THEN tones \ {own} ELSE tones
      /\ noteAge' = IF play THEN 0 ELSE Older(noteAge, Elapsed(clock, now))
      /\ clock' = now
      /\ UNCHANGED <<current, sem, down, calls, age, carried>>
-----------------------------------------------------------------------------
(* CALL: the registry configures the object when five pins are given, sets *)
(* its parameters; the VM begins it.  Of an object whose mission is over   *)
(* only the pins are kept here: begin() and enter() set all the rest before*)
(* it is read again.                                                       *)
Configured(old, pins) == IF pins = NoPins THEN old ELSE pins
SemAtRest(pins) ==
  [pins |-> pins,
   set |-> [green |-> 1, minGreen |-> 1, yellow |-> 1, red |-> 1, beep |-> 1, button |-> TRUE],
   phase |-> "GREEN", phaseStart |-> 0, beepAt |-> 0, beepOn |-> FALSE, requested |-> FALSE,
   blinkAt |-> 0, greenLit |-> TRUE]
PiaAtRest(pins) ==
  [pins |-> pins, set |-> [note |-> 4, auto |-> FALSE, scale |-> 8], idx |-> 0,
   playing |-> FALSE, noteOffAt |-> 0, nextAt |-> 0, held |-> FALSE]
SetOf(c) ==
  [green |-> c.green, minGreen |-> Least(c.minGreen, c.green), yellow |-> c.yellow,
   red |-> c.red, beep |-> c.beep, button |-> c.button]
LeftSounding(buzzer) == tones
Hushed(buzzer) == tones \ {buzzer}

BeginSemaforo(c, later) ==
  LET s == [SemAtRest(Configured(sem.pins, c.pins)) EXCEPT !.set = SetOf(c)]
  IN  /\ Enter(s, "GREEN", later)
      /\ tones' = Hushed(s.pins.buzzer) /\ carried' = tones \ {s.pins.buzzer}
      /\ pia' = PiaAtRest(pia.pins) /\ noteAge' = 0

BeginPianola(c, later) ==
  LET pins == Configured(pia.pins, c.pins)
  IN  /\ pia' = [PiaAtRest(pins) EXCEPT
                   !.set = [note |-> c.note, auto |-> c.auto, scale |-> c.scale], !.nextAt = later]
      /\ leds' = Unlit(pins)
      /\ tones' = Hushed(pins.buzzer) /\ carried' = tones \ {pins.buzzer}
      /\ clock' = later /\ noteAge' = 0
      /\ sem' = SemAtRest(sem.pins) /\ age' = 0

Call(c, later) ==
  /\ calls < MaxCalls /\ calls' = calls + 1
  /\ current' = c.id
  /\ \/ c.id = "SEMAFORO" /\ BeginSemaforo(c, later)
     \/ c.id = "PIANOLA" /\ BeginPianola(c, later)
  /\ UNCHANGED down

(* STOP, LOAD: every buzzer is silenced, the lamps stay as they are.       *)
Stop ==
  /\ current # None
  /\ current' = None /\ tones' = {} /\ carried' = {}
  /\ sem' = SemAtRest(sem.pins) /\ pia' = PiaAtRest(pia.pins) /\ age' = 0 /\ noteAge' = 0
  /\ UNCHANGED <<clock, leds, down, calls>>

Press(b) ==
  /\ down' = IF b \in down THEN down \ {b} ELSE down \cup {b}
  /\ UNCHANGED <<clock, objects, leds, tones, calls, history>>

(* A pass of the loop ticks the mission, some time after the last.         *)
Tick ==
  \E d \in 1 .. PassMs, e \in 0 .. 1 :
    LET now == (clock + d) % Wrap  later == (now + e) % Wrap
    IN  SemaforoTick(now, later) \/ (e = 0 /\ PianolaTick(now))
CallSome == \E c \in Calls, e \in 0 .. 1 : Call(c, (clock + e) % Wrap)

Init ==
  /\ clock \in 0 .. Wrap - 1
  /\ sem = SemAtRest(BuiltWith) /\ pia = PiaAtRest(BuiltWith)
  /\ current = None /\ leds = {} /\ tones = {} /\ down = {} /\ calls = 0
  /\ age = 0 /\ noteAge = 0 /\ carried = {}

Next == Tick \/ CallSome \/ Stop \/ (\E b \in Buttons : Press(b))
Spec == Init /\ [][Next]_vars
(* The loop ticks for ever.                                                *)
FairSpec == Spec /\ WF_vars(Tick)
-----------------------------------------------------------------------------
Colours == {"GREEN", "YELLOW", "RED"}
Times == 0 .. Wrap - 1
Settings ==
  [green : Nat, minGreen : Nat, yellow : Nat, red : Nat, beep : Nat, button : BOOLEAN]
Semaforo ==
  [pins : Pins, set : Settings, phase : Colours, phaseStart : Times, beepAt : Times,
   beepOn : BOOLEAN, requested : BOOLEAN, blinkAt : Times, greenLit : BOOLEAN]
Pianola ==
  [pins : Pins, set : [note : 1 .. Wrap - 1, auto : BOOLEAN, scale : Nat \ {0}], idx : Nat,
   playing : BOOLEAN, noteOffAt : Times, nextAt : Times, held : BOOLEAN]

TypeOK ==
  /\ clock \in Times /\ current \in {None, "SEMAFORO", "PIANOLA"}
  /\ sem \in Semaforo /\ pia \in Pianola /\ pia.idx < pia.set.scale
  /\ leds \subseteq Lamps /\ tones \subseteq Buzzers /\ carried \subseteq Buzzers
  /\ down \subseteq Buttons /\ calls \in 0 .. MaxCalls
  /\ age \in 0 .. Wrap /\ noteAge \in 0 .. Wrap

(* "A press can't cut green below minGreen": green lasts its minimum or    *)
(* its whole time, however the presses fall, also over the clock's wrap    *)
(* and when the minimum asked for was longer than the green.               *)
GreenKept ==
  [][current = "SEMAFORO" /\ sem.phase = "GREEN" /\ sem'.phase = "YELLOW"
       => age + Elapsed(clock, clock') >= Least(sem.set.minGreen, sem.set.green)]_vars

(* "Beep only on red": while the light runs, a buzzer that some program    *)
(* before it did not leave on another pad sounds on red only.              *)
BeepOnlyOnRed ==
  current = "SEMAFORO" /\ sem.phase # "RED" => tones \subseteq carried

(* Who asks to cross gets red, if the light is not called again or stopped.*)
CrossingServed ==
  \A n \in 1 .. MaxCalls :
    (current = "SEMAFORO" /\ sem.requested /\ calls = n)
      ~> (sem.phase = "RED" \/ current # "SEMAFORO" \/ calls # n)

GoesOn == pia'.playing /\ pia'.noteOffAt = pia.noteOffAt

(* "Silence the current note after its length": the first tick after it    *)
(* does, and none before, unless a press begins another.  Two things the   *)
(* wrap does to an end that is compared, and no more: a note may be cut    *)
(* only if it ends beyond the wrap, and outlive its length only if it ends *)
(* less than a pass before the wrap, where the ticks may miss it.          *)
NoteOnTime ==
  [][current = "PIANOLA" /\ current' = current /\ calls' = calls /\ pia.playing
       => /\ GoesOn => noteAge' < pia.set.note \/ Wrap - pia.noteOffAt < PassMs
          /\ ~pia'.playing =>
               noteAge + Elapsed(clock, clock') >= pia.set.note \/ pia.noteOffAt < pia.set.note]_vars
=============================================================================
