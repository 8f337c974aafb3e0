---------------------------- MODULE MissionsProofs ----------------------------
(***************************************************************************)
(* Proofs about Missions, for every width of the clock, every setting of   *)
(* the lights and the pianos and any number of CALLs.                      *)
(***************************************************************************)
EXTENDS Missions, TLAPS

USE ClockAssumption

(* The clock's arithmetic without %.                                       *)
LEMMA ModOnce ==
  ASSUME NEW n \in Nat \ {0}, NEW a \in 0 .. 2 * n - 1
  PROVE  a % n = IF a < n THEN a ELSE a - n
  OBVIOUS

LEMMA ModBelow ==
  ASSUME NEW n \in Nat \ {0}, NEW a \in -n .. -1
  PROVE  a % n = a + n
  OBVIOUS

LEMMA SumIs ==
  ASSUME NEW t \in Times, NEW d \in 0 .. Wrap - 1
  PROVE  /\ (t + d) % Wrap \in Times
         /\ (t + d) % Wrap = IF t + d < Wrap THEN t + d ELSE t + d - Wrap
<1> DEFINE a == t + d
<1>1. a \in 0 .. 2 * Wrap - 1 /\ Wrap \in Nat \ {0}
  BY DEF Times
<1> HIDE DEF a
<1>2. a % Wrap = IF a < Wrap THEN a ELSE a - Wrap
  BY <1>1, ModOnce, Zenon
<1> QED
  BY <1>1, <1>2 DEF a, Times

LEMMA ElapsedIs ==
  ASSUME NEW from \in Times, NEW t \in Times
  PROVE  /\ Elapsed(from, t) \in Times
         /\ Elapsed(from, t) = IF from <= t THEN t - from ELSE t - from + Wrap
<1> DEFINE a == t - from
<1>1. a \in Int /\ Wrap \in Nat \ {0} /\ -Wrap < a /\ a < Wrap
  BY DEF Times
<1> HIDE DEF a
<1>2. ASSUME a >= 0 PROVE a % Wrap = a
  <2>1. a \in 0 .. 2 * Wrap - 1 /\ a < Wrap
    BY <1>1, <1>2
  <2> QED
    BY <1>1, <2>1, ModOnce, Zenon
<1>3. ASSUME a < 0 PROVE a % Wrap = a + Wrap
  <2>1. a \in -Wrap .. -1
    BY <1>1, <1>3
  <2> QED
    BY <1>1, <2>1, ModBelow, Zenon
<1> QED
  BY <1>1, <1>2, <1>3 DEF a, Elapsed, Times

(* The true age of a phase, as a tick keeps it, is no less than what its   *)
(* clock says, and over d the two grow alike.                              *)
LEMMA Elapses ==
  ASSUME NEW from \in Times, NEW t \in Times, NEW d \in 0 .. Wrap - 1, NEW a \in 0 .. Wrap,
         Elapsed(from, t) <= a
  PROVE  /\ Elapsed(t, (t + d) % Wrap) = d
         /\ Elapsed(from, (t + d) % Wrap) <= a + d
         /\ Elapsed(from, (t + d) % Wrap) <= Older(a, d)
<1>1. PICK now \in Times : /\ now = (t + d) % Wrap
                           /\ now = IF t + d < Wrap THEN t + d ELSE t + d - Wrap
  BY SumIs
<1>2. /\ Elapsed(t, now) = IF t <= now THEN now - t ELSE now - t + Wrap
      /\ Elapsed(from, now) = IF from <= now THEN now - from ELSE now - from + Wrap
      /\ Elapsed(from, t) = IF from <= t THEN t - from ELSE t - from + Wrap
      /\ Elapsed(from, now) \in Times
  BY ElapsedIs
<1>3. Elapsed(t, now) = d /\ Elapsed(from, now) <= a + d
  BY <1>1, <1>2 DEF Times
<1>4. Elapsed(from, now) <= Older(a, d)
  BY <1>2, <1>3 DEF Older, Times
<1> QED
  BY <1>1, <1>3, <1>4
-----------------------------------------------------------------------------
(* The light by its own clock is no older than it is.                      *)
PhaseAge == current = "SEMAFORO" => Elapsed(sem.phaseStart, clock) <= age

(* What the light sounds is its own buzzer.                                *)
BeepsOwn == current = "SEMAFORO" => tones \subseteq carried \cup {sem.pins.buzzer}

(* Of a note that sounds: as a rule its end is as far as its age says; one *)
(* that has just begun may end beyond the wrap; and one whose end ticks    *)
(* may miss before the wrap is at least as old as its end says.            *)
NoteAhead == clock < pia.noteOffAt /\ noteAge = clock + pia.set.note - pia.noteOffAt
NoteAcross == noteAge = 0 /\ pia.noteOffAt = clock + pia.set.note - Wrap
NoteMissed == Wrap - pia.noteOffAt < PassMs /\ noteAge >= clock + pia.set.note - pia.noteOffAt
NoteTimes == current = "PIANOLA" /\ pia.playing => NoteAhead \/ NoteAcross \/ NoteMissed

MissionsInv == TypeOK /\ PhaseAge /\ BeepsOwn /\ BeepOnlyOnRed /\ NoteTimes

GreenStep ==
  current = "SEMAFORO" /\ sem.phase = "GREEN" /\ sem'.phase = "YELLOW"
    => age + Elapsed(clock, clock') >= Least(sem.set.minGreen, sem.set.green)
NoteStep ==
  current = "PIANOLA" /\ current' = current /\ calls' = calls /\ pia.playing
    => /\ GoesOn => noteAge' < pia.set.note \/ Wrap - pia.noteOffAt < PassMs
       /\ ~pia'.playing =>
            noteAge + Elapsed(clock, clock') >= pia.set.note \/ pia.noteOffAt < pia.set.note
-----------------------------------------------------------------------------
LEMMA OlderType ==
  ASSUME NEW a \in 0 .. Wrap, NEW d \in Nat
  PROVE  Older(a, d) \in 0 .. Wrap
  BY DEF Older

LEMMA EnteredIs ==
  ASSUME NEW s \in Semaforo, NEW phase \in Colours, NEW t \in Times
  PROVE  /\ Entered(s, phase, t) \in Semaforo
         /\ Entered(s, phase, t).phase = phase /\ Entered(s, phase, t).phaseStart = t
         /\ Entered(s, phase, t).pins = s.pins /\ Entered(s, phase, t).set = s.set
  BY DEF Entered, Semaforo

LEMMA NoticedIs ==
  ASSUME NEW s \in Semaforo, NEW now \in Times
  PROVE  /\ Noticed(s, now) \in Semaforo
         /\ Noticed(s, now).phase = s.phase /\ Noticed(s, now).phaseStart = s.phaseStart
         /\ Noticed(s, now).pins = s.pins /\ Noticed(s, now).set = s.set
  BY DEF Noticed, Semaforo, Settings

LEMMA BeepedIs ==
  ASSUME NEW s \in Semaforo, NEW now \in Times
  PROVE  /\ Beeped(s, now) \in Semaforo
         /\ Beeped(s, now).phase = s.phase /\ Beeped(s, now).phaseStart = s.phaseStart
         /\ Beeped(s, now).pins = s.pins /\ Beeped(s, now).set = s.set
  BY DEF Beeped, Semaforo

LEMMA LampsType ==
  ASSUME leds \subseteq Lamps, NEW p \in Pins, NEW phase \in Colours
  PROVE  /\ Unlit(p) \subseteq Lamps /\ PhaseLamp(p, phase) \in Lamps /\ p.buzzer \in Buzzers
         /\ {p.green, p.yellow, p.red} \subseteq Lamps
  BY DEF Unlit, PhaseLamp, Pins, Colours

(* What a phase begins with.                                               *)
LEMMA EnterInv ==
  ASSUME TypeOK, NEW s \in Semaforo, NEW phase \in Colours, NEW t \in Times, Enter(s, phase, t)
  PROVE  /\ sem' \in Semaforo /\ sem'.phase = phase /\ sem'.pins = s.pins
         /\ leds' \subseteq Lamps /\ clock' \in Times /\ age' \in 0 .. Wrap
         /\ PhaseAge'
<1>1. sem' \in Semaforo /\ sem'.phase = phase /\ sem'.pins = s.pins /\ sem'.phaseStart = t
  BY EnteredIs DEF Enter
<1>2. leds' \subseteq Lamps
  BY LampsType DEF Enter, TypeOK, Semaforo
<1>3. clock' = t /\ age' = 0 /\ Elapsed(t, t) = 0
  BY ElapsedIs DEF Enter, Times
<1> QED
  BY <1>1, <1>2, <1>3 DEF PhaseAge

(* The clock as a tick finds it.                                           *)
LEMMA TickClock ==
  ASSUME TypeOK, NEW d \in 1 .. PassMs, NEW e \in 0 .. 1, NEW now, NEW later,
         now = (clock + d) % Wrap, later = (now + e) % Wrap
  PROVE  /\ now \in Times /\ later \in Times /\ d \in 0 .. Wrap - 1
         /\ Elapsed(clock, now) = d
         /\ Elapsed(clock, later) = d + e
<1>1. d \in 0 .. Wrap - 1 /\ e \in 0 .. Wrap - 1 /\ d + e < Wrap /\ clock \in Times
  BY DEF TypeOK
<1>2. now \in Times /\ now = IF clock + d < Wrap THEN clock + d ELSE clock + d - Wrap
  BY <1>1, SumIs
<1>3. later \in Times /\ later = IF now + e < Wrap THEN now + e ELSE now + e - Wrap
  BY <1>1, <1>2, SumIs
<1>4. /\ Elapsed(clock, now) = IF clock <= now THEN now - clock ELSE now - clock + Wrap
      /\ Elapsed(clock, later) = IF clock <= later THEN later - clock ELSE later - clock + Wrap
  BY <1>1, <1>2, <1>3, ElapsedIs
<1> QED
  BY <1>1, <1>2, <1>3, <1>4 DEF Times

LEMMA GreenInv ==
  ASSUME MissionsInv, current = "SEMAFORO", current' = current, pia' = pia,
         NEW d \in 1 .. PassMs, NEW e \in 0 .. 1, NEW now, NEW later,
         now = (clock + d) % Wrap, later = (now + e) % Wrap, Green(now, later)
  PROVE  /\ sem' \in Semaforo /\ leds' \subseteq Lamps /\ clock' \in Times /\ age' \in 0 .. Wrap
         /\ tones' = tones /\ carried' = carried /\ sem'.pins = sem.pins
         /\ PhaseAge' /\ GreenStep
<1> DEFINE s == Noticed(sem, now)
<1>1. /\ now \in Times /\ later \in Times /\ d \in 0 .. Wrap - 1
      /\ Elapsed(clock, now) = d /\ Elapsed(clock, later) = d + e
  BY TickClock DEF MissionsInv
<1>2. /\ s \in Semaforo /\ s.phase = sem.phase /\ s.phaseStart = sem.phaseStart
      /\ s.pins = sem.pins /\ s.set = sem.set
  BY <1>1, NoticedIs DEF MissionsInv, TypeOK
<1>3. sem.phaseStart \in Times /\ clock \in Times /\ age \in 0 .. Wrap /\ sem.set \in Settings
  BY DEF MissionsInv, TypeOK, Semaforo
<1>4. /\ Elapsed(sem.phaseStart, now) <= age + d
      /\ Elapsed(sem.phaseStart, now) <= Older(age, d)
      /\ Elapsed(sem.phaseStart, now) \in Nat
  <2>1. Elapsed(sem.phaseStart, clock) <= age
    BY DEF MissionsInv, PhaseAge
  <2>2. Elapsed(sem.phaseStart, now) \in Times
    BY <1>1, <1>3, ElapsedIs
  <2>3. /\ Elapsed(sem.phaseStart, (clock + d) % Wrap) <= age + d
        /\ Elapsed(sem.phaseStart, (clock + d) % Wrap) <= Older(age, d)
    BY <1>1, <1>3, <2>1, Elapses
  <2> QED
    BY <2>2, <2>3 DEF Times
<1> HIDE DEF s
<1>5. CASE GreenOver(s, now)
  <2>1. Enter(s, "YELLOW", later) /\ UNCHANGED <<tones, carried>>
    BY <1>5 DEF Green, s
  <2>2. /\ sem' \in Semaforo /\ sem'.phase = "YELLOW" /\ sem'.pins = s.pins
        /\ leds' \subseteq Lamps /\ clock' \in Times /\ age' \in 0 .. Wrap /\ PhaseAge'
    BY <1>1, <1>2, <2>1, EnterInv DEF MissionsInv, Colours
  <2>3. clock' = later
    BY <2>1 DEF Enter
  <2>4. \/ Elapsed(sem.phaseStart, now) >= sem.set.green
        \/ Elapsed(sem.phaseStart, now) >= sem.set.minGreen
    BY <1>2, <1>5 DEF GreenOver, Passed
  <2>5. age + Elapsed(clock, clock') >= Least(sem.set.minGreen, sem.set.green)
    BY <1>1, <1>3, <1>4, <2>3, <2>4 DEF Least, Settings
  <2> QED
    BY <1>2, <2>1, <2>2, <2>5 DEF GreenStep
<1>6. CASE ~GreenOver(s, now)
  <2>1. /\ sem' = s /\ clock' = now /\ age' = Older(age, Elapsed(clock, now))
        /\ leds' = IF s.greenLit = sem.greenLit THEN leds
                   ELSE IF s.greenLit THEN leds \cup {s.pins.green} ELSE leds \ {s.pins.green}
        /\ tones' = tones /\ carried' = carried /\ sem.phase = "GREEN"
    BY <1>6 DEF Green, s
  <2>2. leds' \subseteq Lamps
    BY <1>2, <2>1 DEF MissionsInv, TypeOK, Semaforo, Pins
  <2>3. age' \in 0 .. Wrap
    BY <1>1, <1>3, <2>1, OlderType DEF Times
  <2>4. PhaseAge'
    BY <1>1, <1>2, <1>4, <2>1 DEF PhaseAge
  <2>5. GreenStep
    BY <1>2, <2>1 DEF GreenStep
  <2> QED
    BY <1>1, <1>2, <2>1, <2>2, <2>3, <2>4, <2>5
<1> QED
  BY <1>5, <1>6

LEMMA YellowInv ==
  ASSUME MissionsInv, current = "SEMAFORO", current' = current, pia' = pia,
         NEW d \in 1 .. PassMs, NEW e \in 0 .. 1, NEW now, NEW later,
         now = (clock + d) % Wrap, later = (now + e) % Wrap, Yellow(now, later)
  PROVE  /\ sem' \in Semaforo /\ leds' \subseteq Lamps /\ clock' \in Times /\ age' \in 0 .. Wrap
         /\ tones' = tones /\ carried' = carried /\ sem'.pins = sem.pins
         /\ PhaseAge' /\ GreenStep
<1>1. /\ now \in Times /\ later \in Times /\ d \in 0 .. Wrap - 1 /\ Elapsed(clock, now) = d
  BY TickClock DEF MissionsInv
<1>2. sem \in Semaforo /\ sem.phaseStart \in Times /\ clock \in Times /\ age \in 0 .. Wrap
  BY DEF MissionsInv, TypeOK, Semaforo
<1>3. GreenStep
  BY DEF GreenStep, Yellow
<1>4. CASE Passed(sem.phaseStart, sem.set.yellow, now)
  <2>1. Enter(sem, "RED", later) /\ UNCHANGED <<tones, carried>>
    BY <1>4 DEF Yellow
  <2> QED
    BY <1>1, <1>2, <1>3, <2>1, EnterInv DEF MissionsInv, Colours
<1>5. CASE ~Passed(sem.phaseStart, sem.set.yellow, now)
  <2>1. /\ sem' = sem /\ leds' = leds /\ clock' = now /\ age' = Older(age, d)
        /\ tones' = tones /\ carried' = carried
    BY <1>1, <1>5 DEF Yellow
  <2>2. age' \in 0 .. Wrap
    BY <1>1, <1>2, <2>1, OlderType
  <2>3. Elapsed(sem.phaseStart, now) <= Older(age, d)
    BY <1>1, <1>2, Elapses DEF MissionsInv, PhaseAge
  <2> QED
    BY <1>1, <1>2, <1>3, <2>1, <2>2, <2>3 DEF MissionsInv, TypeOK, PhaseAge
<1> QED
  BY <1>4, <1>5

LEMMA RedInv ==
  ASSUME MissionsInv, current = "SEMAFORO", current' = current, pia' = pia,
         NEW d \in 1 .. PassMs, NEW e \in 0 .. 1, NEW now, NEW later,
         now = (clock + d) % Wrap, later = (now + e) % Wrap, Red(now, later)
  PROVE  /\ sem' \in Semaforo /\ leds' \subseteq Lamps /\ clock' \in Times /\ age' \in 0 .. Wrap
         /\ tones' \subseteq Buzzers /\ carried' = carried
         /\ PhaseAge' /\ GreenStep /\ BeepsOwn' /\ BeepOnlyOnRed'
<1> DEFINE s == Beeped(sem, now)
<1>1. /\ now \in Times /\ later \in Times /\ d \in 0 .. Wrap - 1 /\ Elapsed(clock, now) = d
  BY TickClock DEF MissionsInv
<1>2. /\ s \in Semaforo /\ s.phase = sem.phase /\ s.phaseStart = sem.phaseStart
      /\ s.pins = sem.pins /\ s.set = sem.set
  BY <1>1, BeepedIs DEF MissionsInv, TypeOK
<1>3. /\ sem.phaseStart \in Times /\ clock \in Times /\ age \in 0 .. Wrap
      /\ sem.pins.buzzer \in Buzzers /\ tones \subseteq Buzzers /\ leds \subseteq Lamps
      /\ tones \subseteq carried \cup {sem.pins.buzzer}
  BY DEF MissionsInv, TypeOK, Semaforo, Pins, BeepsOwn
<1>4. GreenStep
  BY DEF GreenStep, Red
<1> HIDE DEF s
<1>5. CASE Passed(s.phaseStart, s.set.red, now)
  <2>1. /\ Enter(s, "GREEN", later) /\ tones' = tones \ {sem.pins.buzzer} /\ carried' = carried
    BY <1>5 DEF Red, s
  <2>2. /\ sem' \in Semaforo /\ sem'.phase = "GREEN" /\ sem'.pins = s.pins
        /\ leds' \subseteq Lamps /\ clock' \in Times /\ age' \in 0 .. Wrap /\ PhaseAge'
    BY <1>1, <1>2, <2>1, EnterInv DEF MissionsInv, Colours
  <2> QED
    BY <1>3, <1>4, <2>1, <2>2 DEF BeepsOwn, BeepOnlyOnRed
<1>6. CASE ~Passed(s.phaseStart, s.set.red, now)
  <2>1. /\ sem' = s /\ clock' = now /\ age' = Older(age, d) /\ leds' = leds /\ carried' = carried
        /\ tones' = IF s.beepOn = sem.beepOn THEN tones
                    ELSE IF s.beepOn THEN tones \cup {sem.pins.buzzer}
                    ELSE tones \ {sem.pins.buzzer}
        /\ sem.phase = "RED"
    BY <1>1, <1>6 DEF Red, s
  <2>2. age' \in 0 .. Wrap
    BY <1>1, <1>3, <2>1, OlderType
  <2>3. PhaseAge'
    BY <1>1, <1>2, <1>3, <2>1, Elapses DEF MissionsInv, PhaseAge
  <2>4. tones' \subseteq Buzzers /\ tones' \subseteq carried \cup {sem.pins.buzzer}
    BY <1>3, <2>1
  <2> QED
    BY <1>1, <1>2, <1>3, <1>4, <2>1, <2>2, <2>3, <2>4 DEF BeepsOwn, BeepOnlyOnRed
<1> QED
  BY <1>5, <1>6

LEMMA SemaforoInv ==
  ASSUME MissionsInv,
         NEW d \in 1 .. PassMs, NEW e \in 0 .. 1, NEW now, NEW later,
         now = (clock + d) % Wrap, later = (now + e) % Wrap, SemaforoTick(now, later)
  PROVE  MissionsInv' /\ GreenStep /\ NoteStep
<1>1. current = "SEMAFORO" /\ UNCHANGED <<current, pia, down, calls, noteAge>>
  BY DEF SemaforoTick
<1>2. NoteStep /\ NoteTimes'
  BY <1>1 DEF NoteStep, NoteTimes
<1>3. /\ sem' \in Semaforo /\ leds' \subseteq Lamps /\ clock' \in Times /\ age' \in 0 .. Wrap
      /\ tones' \subseteq Buzzers /\ carried' \subseteq Buzzers
      /\ PhaseAge' /\ GreenStep /\ BeepsOwn' /\ BeepOnlyOnRed'
  <2>1. CASE Green(now, later)
    <3>1. /\ sem' \in Semaforo /\ leds' \subseteq Lamps /\ clock' \in Times /\ age' \in 0 .. Wrap
          /\ tones' = tones /\ carried' = carried /\ sem'.pins = sem.pins
          /\ PhaseAge' /\ GreenStep
      BY <1>1, <2>1, GreenInv
    <3>2. tones \subseteq carried
      BY <1>1, <2>1 DEF MissionsInv, BeepOnlyOnRed, Green
    <3> QED
      BY <3>1, <3>2 DEF MissionsInv, TypeOK, BeepsOwn, BeepOnlyOnRed
  <2>2. CASE Yellow(now, later)
    <3>1. /\ sem' \in Semaforo /\ leds' \subseteq Lamps /\ clock' \in Times /\ age' \in 0 .. Wrap
          /\ tones' = tones /\ carried' = carried /\ sem'.pins = sem.pins
          /\ PhaseAge' /\ GreenStep
      BY <1>1, <2>2, YellowInv
    <3>2. tones \subseteq carried
      BY <1>1, <2>2 DEF MissionsInv, BeepOnlyOnRed, Yellow
    <3> QED
      BY <3>1, <3>2 DEF MissionsInv, TypeOK, BeepsOwn, BeepOnlyOnRed
  <2>3. CASE Red(now, later)
    BY <1>1, <2>3, RedInv DEF MissionsInv, TypeOK
  <2> QED
    BY <2>1, <2>2, <2>3 DEF SemaforoTick
<1>4. TypeOK'
  BY <1>1, <1>3 DEF MissionsInv, TypeOK
<1> QED
  BY <1>2, <1>3, <1>4 DEF MissionsInv
-----------------------------------------------------------------------------
LEMMA SingsIs ==
  ASSUME NEW p \in Pianola, NEW now \in Times
  PROVE  /\ Sings(p, now) \in Pianola /\ Sings(p, now).playing /\ Sings(p, now).set = p.set
         /\ Sings(p, now).pins = p.pins /\ Sings(p, now).idx < p.set.scale
         /\ \/ Sings(p, now).noteOffAt = now + p.set.note
            \/ Sings(p, now).noteOffAt = now + p.set.note - Wrap
<1>1. p.set.note \in 0 .. Wrap - 1 /\ p.set.scale \in Nat \ {0} /\ p.idx + 1 \in Nat
  BY DEF Pianola
<1>2. /\ (now + p.set.note) % Wrap \in Times
      /\ \/ (now + p.set.note) % Wrap = now + p.set.note
         \/ (now + p.set.note) % Wrap = now + p.set.note - Wrap
  BY <1>1, SumIs
<1>3. NextOf(p.idx, p.set.scale) \in 0 .. p.set.scale - 1
  BY <1>1 DEF NextOf
<1>4. PICK off \in Times : /\ off = (now + p.set.note) % Wrap
                           /\ \/ off = now + p.set.note
                              \/ off = now + p.set.note - Wrap
  BY <1>2
<1>5. PICK next \in Nat : next = NextOf(p.idx, p.set.scale) /\ next < p.set.scale
  BY <1>1, <1>3
<1>6. Sings(p, now) = [p EXCEPT !.playing = TRUE, !.noteOffAt = off, !.idx = next]
  BY <1>4, <1>5 DEF Sings
<1> QED
  BY <1>4, <1>5, <1>6 DEF Pianola

LEMMA PianolaInv ==
  ASSUME MissionsInv, NEW d \in 1 .. PassMs, NEW now, now = (clock + d) % Wrap, PianolaTick(now)
  PROVE  MissionsInv' /\ GreenStep /\ NoteStep
<1> DEFINE ends == pia.playing /\ NoteOver(pia, now)
           held == pia.pins.button \in down
           rest == [pia EXCEPT !.playing = @ /\ ~ends]
           play == IF pia.set.auto THEN ~rest.playing /\ now >= pia.nextAt
                   ELSE held /\ ~pia.held
           sung == IF play THEN Sings(rest, now) ELSE rest
           dark == IF ends THEN Unlit(pia.pins) ELSE leds
           own  == pia.pins.buzzer
<1>1. /\ current = "PIANOLA" /\ current' = current /\ clock' = now
      /\ UNCHANGED <<sem, down, calls, age, carried>>
      /\ pia' = IF pia.set.auto
                THEN [sung EXCEPT !.nextAt =
                        IF play THEN (sung.noteOffAt + pia.set.note \div 4) % Wrap ELSE @]
                ELSE [sung EXCEPT !.held = held]
      /\ leds' = IF play THEN Unlit(pia.pins) \cup {Lamp(pia.pins, pia.idx)} ELSE dark
      /\ tones' = IF play THEN tones \cup {own} ELSE IF ends THEN tones \ {own} ELSE tones
      /\ noteAge' = IF play THEN 0 ELSE Older(noteAge, Elapsed(clock, now))
  BY DEF PianolaTick
<1>2. /\ now \in Times /\ d \in 0 .. Wrap - 1 /\ Elapsed(clock, now) = d /\ clock \in Times
      /\ now = IF clock + d < Wrap THEN clock + d ELSE clock + d - Wrap
  <2>1. now \in Times /\ d \in 0 .. Wrap - 1 /\ Elapsed(clock, now) = d /\ clock \in Times
    <3>1. \A later : later = (now + 0) % Wrap => now \in Times /\ d \in 0 .. Wrap - 1
                                                  /\ Elapsed(clock, now) = d
      BY TickClock DEF MissionsInv
    <3> QED
      BY <3>1 DEF MissionsInv, TypeOK
  <2> QED
    BY <2>1, SumIs
<1>3. /\ pia \in Pianola /\ noteAge \in 0 .. Wrap /\ pia.idx < pia.set.scale
      /\ leds \subseteq Lamps /\ tones \subseteq Buzzers
  BY DEF MissionsInv, TypeOK
<1>4. /\ rest \in Pianola /\ rest.set = pia.set /\ rest.pins = pia.pins /\ rest.idx = pia.idx
      /\ rest.noteOffAt = pia.noteOffAt /\ (rest.playing <=> pia.playing /\ ~ends)
  BY <1>3 DEF Pianola
<1>5. (ends <=> pia.playing /\ now >= pia.noteOffAt) /\ held \in BOOLEAN
  BY DEF NoteOver
<1>6. dark \subseteq Lamps /\ own \in Buzzers
  BY <1>3 DEF Unlit, Pianola, Pins
<1> HIDE DEF ends, held, rest, play, dark
<1>7. /\ sung \in Pianola /\ sung.set = pia.set /\ sung.pins = pia.pins /\ sung.idx < pia.set.scale
      /\ play => /\ sung.playing
                 /\ \/ sung.noteOffAt = now + pia.set.note
                    \/ sung.noteOffAt = now + pia.set.note - Wrap
      /\ ~play => /\ sung.noteOffAt = pia.noteOffAt
                  /\ sung.playing <=> pia.playing /\ ~ends
  <2>1. CASE play
    BY <1>2, <1>4, <2>1, SingsIs
  <2>2. CASE ~play
    BY <1>3, <1>4, <2>2
  <2> QED
    BY <2>1, <2>2
<1> HIDE DEF sung
<1>8. /\ pia' \in Pianola /\ pia'.set = pia.set /\ pia'.idx < pia.set.scale
      /\ pia'.playing = sung.playing /\ pia'.noteOffAt = sung.noteOffAt
  <2>1. pia.set.note \div 4 \in 0 .. Wrap - 1 /\ sung.noteOffAt \in Times
    BY <1>3, <1>7 DEF Pianola
  <2>2. (sung.noteOffAt + pia.set.note \div 4) % Wrap \in Times
    BY <2>1, SumIs
  <2> QED
    BY <1>1, <1>5, <1>7, <2>2 DEF Pianola
<1>9. TypeOK'
  <2>1. leds' \subseteq Lamps /\ tones' \subseteq Buzzers
    BY <1>1, <1>3, <1>6 DEF Unlit, Lamp, Pianola, Pins
  <2>2. noteAge' \in 0 .. Wrap
    BY <1>1, <1>2, <1>3, OlderType
  <2> QED
    BY <1>1, <1>2, <1>8, <2>1, <2>2 DEF MissionsInv, TypeOK
<1>10. CASE play
  <2>1. noteAge' = 0 /\ pia.set.note \in Nat \ {0}
    BY <1>1, <1>3, <1>10 DEF Pianola
  <2> QED
    BY <1>1, <1>2, <1>7, <1>8, <1>9, <1>10, <2>1
       DEF MissionsInv, PhaseAge, BeepsOwn, BeepOnlyOnRed, NoteTimes, NoteAhead, NoteAcross,
           GreenStep, NoteStep, GoesOn, Times
<1>11. CASE ~play
  <2>1. /\ noteAge' = Older(noteAge, d) /\ pia.set.note \in Nat \ {0} /\ clock' = now
        /\ pia'.playing <=> pia.playing /\ ~(now >= pia.noteOffAt)
        /\ pia'.noteOffAt = pia.noteOffAt /\ pia'.set = pia.set
    BY <1>1, <1>2, <1>3, <1>5, <1>7, <1>8, <1>11 DEF Pianola
  <2>2. NoteTimes' /\ NoteStep
    <3>1. CASE ~pia.playing
      BY <1>1, <2>1, <3>1 DEF NoteTimes, NoteStep
    <3>2. CASE pia.playing /\ NoteAhead
      <4>1. pia.playing /\ clock < pia.noteOffAt /\ noteAge = clock + pia.set.note - pia.noteOffAt
        BY <3>2 DEF NoteAhead
      <4>2. pia'.playing => /\ now < clock => Wrap - pia.noteOffAt < PassMs
                            /\ noteAge' >= now + pia.set.note - pia.noteOffAt
                            /\ now >= clock => noteAge' = now + pia.set.note - pia.noteOffAt
        BY <1>2, <1>3, <2>1, <4>1 DEF Older, Times, Pianola
      <4> QED
        BY <1>1, <1>2, <1>3, <2>1, <4>1, <4>2
           DEF NoteTimes, NoteAhead, NoteMissed, NoteStep, GoesOn, Times, Pianola
    <3>3. CASE pia.playing /\ NoteAcross
      <4>1. pia.playing /\ noteAge = 0 /\ pia.noteOffAt = clock + pia.set.note - Wrap
        BY <3>3 DEF NoteAcross
      <4>2. pia'.playing => noteAge' = d /\ now = clock + d - Wrap
        BY <1>2, <1>3, <2>1, <4>1 DEF Older, Times, Pianola
      <4> QED
        BY <1>1, <1>2, <1>3, <2>1, <4>1, <4>2
           DEF NoteTimes, NoteAhead, NoteStep, GoesOn, Times, Pianola
    <3>4. CASE pia.playing /\ NoteMissed
      <4>1. /\ pia.playing /\ Wrap - pia.noteOffAt < PassMs
            /\ noteAge >= clock + pia.set.note - pia.noteOffAt
        BY <3>4 DEF NoteMissed
      <4>2. pia'.playing => noteAge' >= now + pia.set.note - pia.noteOffAt
        BY <1>2, <1>3, <2>1, <4>1 DEF Older, Times, Pianola
      <4> QED
        BY <1>1, <1>2, <1>3, <2>1, <4>1, <4>2
           DEF NoteTimes, NoteMissed, NoteStep, GoesOn, Times, Pianola
    <3> QED
      BY <1>1, <3>1, <3>2, <3>3, <3>4 DEF MissionsInv, NoteTimes
  <2> QED
    BY <1>1, <1>9, <2>2
       DEF MissionsInv, PhaseAge, BeepsOwn, BeepOnlyOnRed, GreenStep
<1> QED
  BY <1>10, <1>11
-----------------------------------------------------------------------------
LEMMA CallIs ==
  ASSUME NEW c \in Calls, NEW old \in Pins
  PROVE  /\ Configured(old, c.pins) \in Pins
         /\ c.id = "SEMAFORO" => SetOf(c) \in Settings
         /\ c.id = "PIANOLA" =>
              c.note \in 1 .. Wrap - 1 /\ c.auto \in BOOLEAN /\ c.scale \in Nat \ {0}
<1>1. Configured(old, c.pins) \in Pins
  BY CallsAssumption DEF Configured
<1>2. ASSUME c.id = "SEMAFORO" PROVE SetOf(c) \in Settings
  <2>1. /\ c.green \in Nat /\ c.minGreen \in Nat /\ c.yellow \in Nat /\ c.red \in Nat
        /\ c.button \in BOOLEAN /\ c.beep \in Nat
    BY <1>2, CallsAssumption
  <2> QED
    BY <2>1 DEF SetOf, Settings, Least
<1>3. ASSUME c.id = "PIANOLA"
      PROVE  c.note \in 1 .. Wrap - 1 /\ c.auto \in BOOLEAN /\ c.scale \in Nat \ {0}
  BY <1>3, CallsAssumption
<1> QED
  BY <1>1, <1>2, <1>3

LEMMA AtRestIs ==
  ASSUME NEW pins \in Pins
  PROVE  /\ SemAtRest(pins) \in Semaforo /\ SemAtRest(pins).phase = "GREEN"
         /\ SemAtRest(pins).pins = pins
         /\ PiaAtRest(pins) \in Pianola /\ PiaAtRest(pins).idx < PiaAtRest(pins).set.scale
         /\ ~PiaAtRest(pins).playing /\ PiaAtRest(pins).idx = 0
  BY DEF SemAtRest, PiaAtRest, Semaforo, Pianola, Settings, Colours, Times

(* A CALL of the light: green, with its own buzzer silent.                 *)
LEMMA BeginSemaforoInv ==
  ASSUME MissionsInv, NEW c \in Calls, c.id = "SEMAFORO", NEW later \in Times,
         BeginSemaforo(c, later), current' = "SEMAFORO", calls' \in 0 .. MaxCalls, down' = down
  PROVE  MissionsInv' /\ sem'.phase = "GREEN"
<1> DEFINE s == [SemAtRest(Configured(sem.pins, c.pins)) EXCEPT !.set = SetOf(c)]
<1>1. sem.pins \in Pins /\ pia.pins \in Pins /\ tones \subseteq Buzzers
  BY DEF MissionsInv, TypeOK, Semaforo, Pianola
<1>2. Configured(sem.pins, c.pins) \in Pins /\ SetOf(c) \in Settings
  BY <1>1, CallIs
<1>3. s \in Semaforo
  BY <1>2, AtRestIs DEF Semaforo
<1>4. /\ Enter(s, "GREEN", later)
      /\ tones' = tones \ {s.pins.buzzer} /\ carried' = tones \ {s.pins.buzzer}
      /\ pia' = PiaAtRest(pia.pins) /\ noteAge' = 0
  BY DEF BeginSemaforo, Hushed
<1> HIDE DEF s
<1>5. /\ sem' \in Semaforo /\ sem'.phase = "GREEN" /\ leds' \subseteq Lamps /\ clock' \in Times
      /\ age' \in 0 .. Wrap /\ PhaseAge'
  BY <1>3, <1>4, EnterInv DEF MissionsInv, Colours
<1>6. pia' \in Pianola /\ pia'.idx < pia'.set.scale /\ ~pia'.playing
  BY <1>1, <1>4, AtRestIs
<1>7. TypeOK'
  BY <1>1, <1>4, <1>5, <1>6 DEF MissionsInv, TypeOK
<1> QED
  BY <1>4, <1>5, <1>6, <1>7 DEF MissionsInv, BeepsOwn, BeepOnlyOnRed, NoteTimes

LEMMA BeginPianolaInv ==
  ASSUME MissionsInv, NEW c \in Calls, c.id = "PIANOLA", NEW later \in Times,
         BeginPianola(c, later), current' = "PIANOLA", calls' \in 0 .. MaxCalls, down' = down
  PROVE  MissionsInv' /\ sem'.phase = "GREEN"
<1> DEFINE pins == Configured(pia.pins, c.pins)
<1>1. sem.pins \in Pins /\ pia.pins \in Pins /\ tones \subseteq Buzzers /\ leds \subseteq Lamps
  BY DEF MissionsInv, TypeOK, Semaforo, Pianola
<1>2. /\ pins \in Pins /\ c.note \in 1 .. Wrap - 1 /\ c.auto \in BOOLEAN /\ c.scale \in Nat \ {0}
  BY <1>1, CallIs
<1>3. /\ pia' = [PiaAtRest(pins) EXCEPT
                   !.set = [note |-> c.note, auto |-> c.auto, scale |-> c.scale], !.nextAt = later]
      /\ leds' = Unlit(pins)
      /\ tones' = tones \ {pins.buzzer} /\ carried' = tones \ {pins.buzzer}
      /\ clock' = later /\ noteAge' = 0
      /\ sem' = SemAtRest(sem.pins) /\ age' = 0
  BY DEF BeginPianola, Hushed
<1> HIDE DEF pins
<1>4. pia' \in Pianola /\ pia'.idx < pia'.set.scale /\ ~pia'.playing
  <2>1. PiaAtRest(pins) \in Pianola /\ PiaAtRest(pins).idx = 0 /\ ~PiaAtRest(pins).playing
    BY <1>2, AtRestIs
  <2>2. [note |-> c.note, auto |-> c.auto, scale |-> c.scale]
          \in [note : 1 .. Wrap - 1, auto : BOOLEAN, scale : Nat \ {0}]
    BY <1>2
  <2>3. pia' \in Pianola
    BY <1>3, <2>1, <2>2 DEF Pianola
  <2>4. pia'.idx = 0 /\ ~pia'.playing /\ pia'.set.scale \in Nat \ {0}
    BY <1>3, <2>1, <2>3 DEF Pianola
  <2> QED
    BY <2>3, <2>4
<1>5. sem' \in Semaforo /\ sem'.phase = "GREEN"
  BY <1>1, <1>3, AtRestIs
<1>6. TypeOK'
  BY <1>1, <1>3, <1>4, <1>5 DEF MissionsInv, TypeOK, Unlit
<1> QED
  BY <1>4, <1>5, <1>6 DEF MissionsInv, PhaseAge, BeepsOwn, BeepOnlyOnRed, NoteTimes

LEMMA CallInv ==
  ASSUME MissionsInv, NEW c \in Calls, NEW e \in 0 .. 1, Call(c, (clock + e) % Wrap)
  PROVE  MissionsInv' /\ GreenStep /\ NoteStep
<1>1. (clock + e) % Wrap \in Times
  BY SumIs DEF MissionsInv, TypeOK
<1>2. calls' \in 0 .. MaxCalls /\ calls' # calls /\ down' = down /\ current' = c.id
  BY CallsAssumption DEF MissionsInv, TypeOK, Call
<1>3. MissionsInv' /\ sem'.phase = "GREEN"
  <2>1. CASE c.id = "SEMAFORO" /\ BeginSemaforo(c, (clock + e) % Wrap)
    BY <1>1, <1>2, <2>1, BeginSemaforoInv
  <2>2. CASE c.id = "PIANOLA" /\ BeginPianola(c, (clock + e) % Wrap)
    BY <1>1, <1>2, <2>2, BeginPianolaInv
  <2> QED
    BY <2>1, <2>2 DEF Call
<1> QED
  BY <1>2, <1>3 DEF GreenStep, NoteStep

LEMMA StopInv ==
  ASSUME MissionsInv, Stop
  PROVE  MissionsInv' /\ GreenStep /\ NoteStep
<1>1. /\ current # None /\ current' = None /\ tones' = {} /\ carried' = {}
      /\ sem' = SemAtRest(sem.pins) /\ pia' = PiaAtRest(pia.pins) /\ age' = 0 /\ noteAge' = 0
      /\ UNCHANGED <<clock, leds, down, calls>>
  BY DEF Stop
<1>2. sem.pins \in Pins /\ pia.pins \in Pins
  BY DEF MissionsInv, TypeOK, Semaforo, Pianola
<1>3. TypeOK' /\ sem'.phase = "GREEN"
  BY <1>1, <1>2, AtRestIs DEF MissionsInv, TypeOK
<1> QED
  BY <1>1, <1>3
     DEF MissionsInv, PhaseAge, BeepsOwn, BeepOnlyOnRed, NoteTimes, GreenStep, NoteStep, None

(* A note is no older for a step that takes no time.                       *)
LEMMA NoteStays ==
  ASSUME MissionsInv, UNCHANGED <<pia, noteAge>>
  PROVE  NoteStep
<1>1. clock \in Nat /\ noteAge \in Nat /\ pia.set.note \in Nat \ {0} /\ pia.noteOffAt \in Nat
  BY DEF MissionsInv, TypeOK, Pianola, Times
<1>2. current = "PIANOLA" /\ pia.playing => NoteAhead \/ NoteAcross \/ NoteMissed
  BY DEF MissionsInv, NoteTimes
<1> QED
  BY <1>1, <1>2 DEF NoteStep, NoteAhead, NoteAcross, NoteMissed

LEMMA PressInv ==
  ASSUME MissionsInv, NEW b \in Buttons, Press(b)
  PROVE  MissionsInv' /\ GreenStep /\ NoteStep
<1>1. /\ down' \subseteq Buttons
      /\ UNCHANGED <<clock, current, sem, pia, leds, tones, calls, age, noteAge, carried>>
  BY DEF Press, MissionsInv, TypeOK, objects, history
<1>2. TypeOK'
  BY <1>1 DEF MissionsInv, TypeOK
<1>3. PhaseAge' /\ BeepsOwn' /\ BeepOnlyOnRed'
  BY <1>1 DEF MissionsInv, PhaseAge, BeepsOwn, BeepOnlyOnRed
<1>4. NoteTimes'
  BY <1>1 DEF MissionsInv, NoteTimes, NoteAhead, NoteAcross, NoteMissed
<1>5. GreenStep /\ NoteStep
  BY <1>1, NoteStays DEF GreenStep
<1> QED
  BY <1>2, <1>3, <1>4, <1>5 DEF MissionsInv
-----------------------------------------------------------------------------
LEMMA MissionsStart == Init => MissionsInv
<1> SUFFICES ASSUME Init PROVE MissionsInv
  OBVIOUS
<1>1. TypeOK
  BY AtRestIs, CallsAssumption DEF Init, TypeOK, Times
<1> QED
  BY <1>1 DEF Init, MissionsInv, PhaseAge, BeepsOwn, BeepOnlyOnRed, NoteTimes, None

LEMMA MissionsStep == MissionsInv /\ [Next]_vars => MissionsInv' /\ (Next => GreenStep /\ NoteStep)
<1> SUFFICES ASSUME MissionsInv, [Next]_vars
             PROVE  MissionsInv' /\ (Next => GreenStep /\ NoteStep)
  OBVIOUS
<1>1. CASE Tick
  <2>1. PICK d \in 1 .. PassMs, e \in 0 .. 1 :
          LET now == (clock + d) % Wrap  later == (now + e) % Wrap
          IN  SemaforoTick(now, later) \/ (e = 0 /\ PianolaTick(now))
    BY <1>1 DEF Tick
  <2>2. PICK now : now = (clock + d) % Wrap
    OBVIOUS
  <2>3. PICK later : later = (now + e) % Wrap
    OBVIOUS
  <2>4. SemaforoTick(now, later) \/ PianolaTick(now)
    BY <2>1, <2>2, <2>3
  <2> QED
    BY <2>2, <2>3, <2>4, SemaforoInv, PianolaInv
<1>2. CASE CallSome
  BY <1>2, CallInv DEF CallSome
<1>3. CASE Stop
  BY <1>3, StopInv
<1>4. CASE \E b \in Buttons : Press(b)
  BY <1>4, PressInv
<1>5. CASE UNCHANGED vars
  <2>1. UNCHANGED <<clock, current, sem, pia, leds, tones, down, calls, age, noteAge, carried>>
    BY <1>5 DEF vars, objects, history
  <2>2. TypeOK' /\ PhaseAge' /\ BeepsOwn' /\ BeepOnlyOnRed'
    BY <2>1 DEF MissionsInv, TypeOK, PhaseAge, BeepsOwn, BeepOnlyOnRed
  <2>3. NoteTimes' /\ GreenStep /\ NoteStep
    BY <2>1, NoteStays DEF MissionsInv, NoteTimes, NoteAhead, NoteAcross, NoteMissed, GreenStep
  <2> QED
    BY <2>2, <2>3 DEF MissionsInv
<1> QED
  BY <1>1, <1>2, <1>3, <1>4, <1>5 DEF Next

LEMMA MissionsInvariance == Spec => []MissionsInv
  BY MissionsStart, MissionsStep, PTL DEF Spec

(* Both objects, the lamps and the buzzers keep their types: an index into *)
(* the tune, a time on the clock (Semaforo, Pianola).                      *)
THEOREM MissionsType == Spec => []TypeOK
<1>1. MissionsInv => TypeOK
  BY DEF MissionsInv
<1> QED
  BY <1>1, MissionsInvariance, PTL

(* Whatever light follows whatever light or piano, with other pins and     *)
(* another buzzer, it beeps on red only (Semaforo::walkBeep, begin).       *)
THEOREM BeepsOnRed == Spec => []BeepOnlyOnRed
<1>1. MissionsInv => BeepOnlyOnRed
  BY DEF MissionsInv
<1> QED
  BY <1>1, MissionsInvariance, PTL

(* For every width of the clock and every setting, green lasts its minimum *)
(* (Semaforo::tick): its times are subtracted, and so survive the wrap.    *)
THEOREM GreenLasts == Spec => GreenKept
<1>1. MissionsInv /\ [Next]_vars =>
        [current = "SEMAFORO" /\ sem.phase = "GREEN" /\ sem'.phase = "YELLOW"
           => age + Elapsed(clock, clock') >= Least(sem.set.minGreen, sem.set.green)]_vars
  BY MissionsStep DEF GreenStep
<1> QED
  BY <1>1, MissionsInvariance, PTL DEF Spec, GreenKept

(* A note is silenced by the first tick after its length and not before,   *)
(* but for the two that the clock's wrap harms: the one that ends beyond   *)
(* it, the one that ends less than a pass before it (Pianola::tick).       *)
THEOREM NotesEnd == Spec => NoteOnTime
<1>1. MissionsInv /\ [Next]_vars =>
        [current = "PIANOLA" /\ current' = current /\ calls' = calls /\ pia.playing
           => /\ GoesOn => noteAge' < pia.set.note \/ Wrap - pia.noteOffAt < PassMs
              /\ ~pia'.playing =>
                   noteAge + Elapsed(clock, clock') >= pia.set.note
                     \/ pia.noteOffAt < pia.set.note]_vars
  BY MissionsStep DEF NoteStep
<1> QED
  BY <1>1, MissionsInvariance, PTL DEF Spec, NoteOnTime
=============================================================================
