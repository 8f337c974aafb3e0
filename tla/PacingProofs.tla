----------------------------- MODULE PacingProofs -----------------------------
(***************************************************************************)
(* Proofs about Pacing, for every width of the clock, cap of the sleep,    *)
(* length of a pass and set of waits.  PacingInv says how late a WAIT and  *)
(* how old a command may be at each stage of a pass.                       *)
(***************************************************************************)
EXTENDS Pacing, TLAPS

USE PacingAssumption

(* Until the clock wraps, the resume time and the time left agree, and the *)
(* sleep asked for ends with the WAIT unless it is the floor of 1 ms.      *)
TimeLeft ==
  state = "WAITING" /\ ~wrapped =>
    /\ resumeAt = clock + left
    /\ left >= CASE stage = "idle"  -> 1 - PassMs
                 [] stage = "sleep" -> 1 - 2 * PassMs
                 [] stage = "pump"  -> -(2 * PassMs) - Slack
                 [] stage = "tick"  -> -(3 * PassMs) - Slack
    /\ stage = "sleep" => nap = 1 \/ nap <= left

CommandAge ==
  pending => age <= CASE stage = "tick"  -> 0
                      [] stage = "idle"  -> PassMs
                      [] stage = "sleep" -> 2 * PassMs
                      [] stage = "pump"  -> 2 * PassMs + Chunk + Slack

PacingInv == TypeOK /\ TimeLeft /\ CommandAge

LEMMA WrappedType ==
  ASSUME NEW n \in Nat, n < 2 * Wrap
  PROVE  /\ Wrapped(n) \in 0 .. Wrap - 1
         /\ n < Wrap => Wrapped(n) = n
  BY DEF Wrapped

LEMMA ClockSum ==
  ASSUME NEW c \in 0 .. Wrap - 1, NEW n \in 0 .. Wrap - 1
  PROVE  /\ c + n \in Nat /\ c + n < 2 * Wrap
         /\ ~(c + n >= Wrap) => c + n < Wrap
  OBVIOUS

LEMMA PassesType ==
  ASSUME TypeOK, NEW d \in 0 .. Wrap - 1, Passes(d)
  PROVE  /\ clock' \in 0 .. Wrap - 1 /\ pending' \in BOOLEAN /\ age' \in Nat
         /\ clock + d < Wrap => clock' = clock + d
         /\ pending' => pending /\ age' = age + d
<1>1. clock + d \in Nat /\ clock + d < 2 * Wrap
  BY DEF TypeOK
<1>2. clock' \in 0 .. Wrap - 1 /\ (clock + d < Wrap => clock' = clock + d)
  BY <1>1, WrappedType DEF Passes
<1>3. age' \in Nat /\ (pending => age' = age + d)
  BY DEF Passes, TypeOK
<1>4. pending' = pending /\ pending \in BOOLEAN
  BY DEF Passes, TypeOK
<1> QED
  BY <1>2, <1>3, <1>4

(* The WAIT while d milliseconds pass and its registers stay.              *)
LEMMA StillWaitsType ==
  ASSUME TypeOK, NEW d \in Nat, StillWaits(d)
  PROVE  /\ left' \in Int /\ wrapped' \in BOOLEAN
         /\ (state = "WAITING" /\ ~wrapped') =>
              ~wrapped /\ clock + d < Wrap /\ left' = left - d
<1>1. wrapped' \in BOOLEAN
  BY DEF StillWaits
<1>2. (state = "WAITING" /\ ~wrapped') => ~wrapped /\ ~(clock + d >= Wrap) /\ left' = left - d
  BY DEF StillWaits
<1>3. left' \in Int
  BY DEF StillWaits, TypeOK
<1>4. ~(clock + d >= Wrap) => clock + d < Wrap
  BY DEF TypeOK
<1> QED
  BY <1>1, <1>2, <1>3, <1>4

LEMMA WaitForType ==
  ASSUME clock' \in 0 .. Wrap - 1, NEW ms \in Waits, WaitFor(ms)
  PROVE  /\ resumeAt' \in 0 .. Wrap - 1 /\ left' \in Int /\ wrapped' \in BOOLEAN
         /\ state' = "WAITING"
         /\ ~wrapped' => resumeAt' = clock' + left' /\ left' >= 0
<1>1. ms \in 0 .. Wrap - 1
  OBVIOUS
<1>2. clock' + ms \in Nat /\ clock' + ms < 2 * Wrap
  BY <1>1, ClockSum
<1>3. resumeAt' \in 0 .. Wrap - 1 /\ (clock' + ms < Wrap => resumeAt' = clock' + ms)
  BY <1>2, WrappedType DEF WaitFor
<1>4. wrapped' \in BOOLEAN /\ state' = "WAITING"
  BY DEF WaitFor
<1>5. left' \in Int
  BY <1>1 DEF WaitFor
<1>6. ~wrapped' => ~(clock' + ms >= Wrap) /\ left' = ms
  BY DEF WaitFor
<1>7. ~(clock' + ms >= Wrap) => clock' + ms < Wrap
  BY <1>1, ClockSum
<1>8. ~wrapped' => resumeAt' = clock' + left' /\ left' >= 0
  BY <1>1, <1>3, <1>6, <1>7
<1> QED
  BY <1>3, <1>4, <1>5, <1>8

LEMMA NapType ==
  ASSUME TypeOK, NEW now \in 0 .. Wrap - 1
  PROVE  /\ Nap(now) \in 1 .. Chunk
         /\ Nap(now) > 1 => state = "WAITING" /\ Nap(now) <= resumeAt - now
<1>1. /\ IdleForMs(now) \in Nat
      /\ IdleForMs(now) > 0 => state = "WAITING" /\ IdleForMs(now) = resumeAt - now
  BY DEF IdleForMs, TypeOK
<1> DEFINE idle == IF loading \/ services THEN 0 ELSE IdleForMs(now)
           capped == IF idle > Chunk THEN Chunk ELSE idle
<1>2. idle \in Nat /\ idle <= IdleForMs(now)
  BY <1>1
<1>3. capped \in 0 .. Chunk /\ capped <= idle
  BY <1>2
<1>4. Nap(now) = IF capped > 0 THEN capped ELSE 1
  BY DEF Nap
<1> HIDE DEF idle, capped
<1> QED
  BY <1>1, <1>2, <1>3, <1>4 DEF TypeOK

LEMMA PacingInit == Init => PacingInv
<1> SUFFICES ASSUME Init PROVE PacingInv
  OBVIOUS
<1>1. 0 \in 0 .. Wrap - 1 /\ 1 \in 1 .. Chunk
  OBVIOUS
<1>2. /\ loading \in BOOLEAN /\ wanted \in BOOLEAN /\ services \in BOOLEAN
      /\ wrapped \in BOOLEAN /\ pending \in BOOLEAN
  BY DEF Init
<1>3. TypeOK
  BY <1>1, <1>2 DEF Init, TypeOK
<1> QED
  BY <1>3 DEF Init, PacingInv, TimeLeft, CommandAge

(* Commands change the WAIT only to end it or to begin one, in the pump.   *)
LEMMA ServeStep == PacingInv /\ Serve => PacingInv'
<1> SUFFICES ASSUME TypeOK, TimeLeft, CommandAge, Serve
             PROVE  TypeOK' /\ TimeLeft' /\ CommandAge'
  BY DEF PacingInv
<1>1. /\ stage = "pump" /\ stage' = "pump" /\ pending' = FALSE /\ age' = 0
      /\ clock' = clock /\ services' = services /\ nap' = nap
      /\ deaf' \in Nat
  BY DEF Serve, TypeOK
<1>2. CommandAge'
  BY <1>1 DEF CommandAge
<1>3. CASE Stop \/ Run \/ Load
  <2>1. left' = 0 /\ wrapped' = FALSE /\ state' \in {"STOPPED", "RUNNING", "IDLE"}
    BY <1>3 DEF Stop, Run, Load, NoWait
  <2>2. loading' \in BOOLEAN /\ wanted' \in BOOLEAN
    BY <1>3 DEF Stop, Run, Load, TypeOK
  <2>3. 0 \in 0 .. Wrap - 1
    OBVIOUS
  <2>4. resumeAt' \in 0 .. Wrap - 1
    BY <1>3, <2>3 DEF Stop, Run, Load, TypeOK
  <2>5. left' \in Int /\ age' \in Nat
    BY <1>1, <2>1
  <2>6. TypeOK'
    <3>1. wrapped' \in BOOLEAN /\ pending' \in BOOLEAN
      BY <1>1, <2>1
    <3> QED
      BY <1>1, <2>1, <2>2, <2>4, <2>5, <3>1 DEF TypeOK
  <2> QED
    BY <1>2, <2>1, <2>6 DEF TimeLeft
<1>4. CASE EndLoad \/ InferNow \/ Other
  <2>1. /\ StillWaits(0) /\ resumeAt' = resumeAt /\ state' = state
        /\ loading' \in BOOLEAN /\ wanted' \in BOOLEAN
    BY <1>4 DEF EndLoad, InferNow, Other, TypeOK
  <2>2. /\ left' \in Int /\ wrapped' \in BOOLEAN
        /\ (state = "WAITING" /\ ~wrapped') => ~wrapped /\ left' = left
    BY <2>1, StillWaitsType DEF TypeOK
  <2>3. TypeOK'
    BY <1>1, <2>1, <2>2 DEF TypeOK
  <2>4. TimeLeft'
    BY <1>1, <2>1, <2>2 DEF TimeLeft
  <2> QED
    BY <1>2, <2>3, <2>4
<1>5. CASE WaitNow
  <2>1. PICK ms \in Waits : WaitFor(ms)
    BY <1>5 DEF WaitNow
  <2>2. /\ resumeAt' \in 0 .. Wrap - 1 /\ left' \in Int /\ wrapped' \in BOOLEAN
        /\ state' = "WAITING"
        /\ ~wrapped' => resumeAt' = clock' + left' /\ left' >= 0
    BY <1>1, <2>1, WaitForType DEF TypeOK
  <2>3. loading' = loading /\ wanted' = wanted
    BY <1>5 DEF WaitNow
  <2>4. TypeOK'
    BY <1>1, <2>2, <2>3 DEF TypeOK
  <2>5. TimeLeft'
    BY <1>1, <2>2 DEF TimeLeft
  <2> QED
    BY <1>2, <2>4, <2>5
<1> QED
  BY <1>3, <1>4, <1>5 DEF Serve

(* A pass of d milliseconds in which the VM's registers stay.              *)
LEMMA StayStep ==
  ASSUME PacingInv, NEW d \in Durations \cup (1 .. Chunk + Slack),
         Passes(d), StillWaits(d), state' = state, resumeAt' = resumeAt
  PROVE  /\ clock' \in 0 .. Wrap - 1 /\ pending' \in BOOLEAN /\ age' \in Nat
         /\ left' \in Int /\ wrapped' \in BOOLEAN
         /\ pending' => pending /\ age' = age + d
         /\ (state' = "WAITING" /\ ~wrapped') =>
              /\ state = "WAITING" /\ ~wrapped
              /\ left' = left - d /\ resumeAt' = clock' + left'
<1>1. d \in 0 .. Wrap - 1 /\ d \in Nat
  BY DEF Durations
<1> QED
  BY <1>1, PassesType, StillWaitsType DEF PacingInv, TimeLeft, TypeOK

LEMMA PumpStep == \A d \in Durations : PacingInv /\ Pump(d) => PacingInv'
<1> SUFFICES ASSUME NEW d \in Durations, PacingInv, Pump(d)
             PROVE  TypeOK' /\ TimeLeft' /\ CommandAge'
  BY DEF PacingInv
<1>1. /\ stage = "pump" /\ stage' = "tick" /\ ~pending
      /\ services' = wanted /\ Passes(d) /\ StillWaits(d)
      /\ UNCHANGED <<state, resumeAt, loading, wanted, nap, deaf>>
  BY DEF Pump
<1>2. /\ clock' \in 0 .. Wrap - 1 /\ pending' \in BOOLEAN /\ age' \in Nat
      /\ left' \in Int /\ wrapped' \in BOOLEAN /\ ~pending'
      /\ (state' = "WAITING" /\ ~wrapped') =>
           /\ state = "WAITING" /\ ~wrapped
           /\ left' = left - d /\ resumeAt' = clock' + left'
  BY <1>1, StayStep
<1>3. TypeOK'
  BY <1>1, <1>2 DEF PacingInv, TypeOK
<1>4. TimeLeft'
  BY <1>1, <1>2 DEF PacingInv, TimeLeft, TypeOK, Durations
<1> QED
  BY <1>2, <1>3, <1>4 DEF CommandAge

(* What a WAIT that goes on has left after d more milliseconds.            *)
LEMMA TickStaysStep == \A d \in Durations : PacingInv /\ TickStays(d) => PacingInv'
<1> SUFFICES ASSUME NEW d \in Durations, PacingInv, TickStays(d)
             PROVE  TypeOK' /\ TimeLeft' /\ CommandAge'
  BY DEF PacingInv
<1>1. /\ stage = "tick" /\ stage' = "idle" /\ Passes(d) /\ StillWaits(d)
      /\ UNCHANGED <<state, resumeAt, loading, wanted, services, nap, deaf>>
      /\ state = "WAITING" => clock < resumeAt
  BY DEF TickStays, vm, Due
<1>2. /\ clock' \in 0 .. Wrap - 1 /\ pending' \in BOOLEAN /\ age' \in Nat
      /\ left' \in Int /\ wrapped' \in BOOLEAN
      /\ pending' => pending /\ age' = age + d
      /\ (state' = "WAITING" /\ ~wrapped') =>
           /\ state = "WAITING" /\ ~wrapped
           /\ left' = left - d /\ resumeAt' = clock' + left'
  BY <1>1, StayStep
<1>3. TypeOK'
  BY <1>1, <1>2 DEF PacingInv, TypeOK
<1>4. TimeLeft'
  BY <1>1, <1>2 DEF PacingInv, TimeLeft, TypeOK, Durations
<1>5. CommandAge'
  BY <1>1, <1>2 DEF PacingInv, CommandAge, TypeOK, Durations
<1> QED
  BY <1>3, <1>4, <1>5

LEMMA TickStepsStep == \A d \in Durations : PacingInv /\ TickSteps(d) => PacingInv'
<1> SUFFICES ASSUME NEW d \in Durations, PacingInv, TickSteps(d)
             PROVE  TypeOK' /\ TimeLeft' /\ CommandAge'
  BY DEF PacingInv
<1>1. /\ stage = "tick" /\ stage' = "idle" /\ Passes(d)
      /\ UNCHANGED <<loading, services, nap, deaf>>
  BY DEF TickSteps
<1>2. d \in 0 .. Wrap - 1
  BY DEF Durations
<1>3. /\ clock' \in 0 .. Wrap - 1 /\ pending' \in BOOLEAN /\ age' \in Nat
      /\ pending' => pending /\ age' = age + d
  BY <1>1, <1>2, PassesType DEF PacingInv
<1>4. wanted' \in BOOLEAN
  BY DEF TickSteps, PacingInv, TypeOK
<1>5. CommandAge'
  BY <1>1, <1>3 DEF PacingInv, CommandAge, TypeOK, Durations
<1>6. CASE \E ms \in Waits : WaitFor(ms)
  <2>1. PICK ms \in Waits : WaitFor(ms)
    BY <1>6
  <2>2. /\ resumeAt' \in 0 .. Wrap - 1 /\ left' \in Int /\ wrapped' \in BOOLEAN
        /\ state' = "WAITING"
        /\ ~wrapped' => resumeAt' = clock' + left' /\ left' >= 0
    BY <1>3, <2>1, WaitForType
  <2>3. TypeOK'
    BY <1>1, <1>3, <1>4, <2>2 DEF PacingInv, TypeOK
  <2>4. TimeLeft'
    BY <1>1, <2>2 DEF TimeLeft
  <2> QED
    BY <1>5, <2>3, <2>4
<1>7. CASE /\ state' \in {"RUNNING", "STOPPED", "RUNNING_MISSION"}
           /\ NoWait /\ UNCHANGED resumeAt
  <2>0. wrapped' \in BOOLEAN
    BY <1>7 DEF NoWait
  <2>1. left' \in Int
    BY <1>7 DEF NoWait
  <2>2. TypeOK'
    BY <1>1, <1>3, <1>4, <1>7, <2>0, <2>1 DEF PacingInv, TypeOK
  <2>3. TimeLeft'
    BY <1>7 DEF TimeLeft
  <2> QED
    BY <1>5, <2>2, <2>3
<1> QED
  BY <1>6, <1>7 DEF TickSteps

LEMMA IdleStep == \A d \in Durations : PacingInv /\ Idle(d) => PacingInv'
<1> SUFFICES ASSUME NEW d \in Durations, PacingInv, Idle(d)
             PROVE  TypeOK' /\ TimeLeft' /\ CommandAge'
  BY DEF PacingInv
<1>1. /\ stage = "idle" /\ stage' = "sleep" /\ Passes(d) /\ StillWaits(d)
      /\ nap' = Nap(clock')
      /\ UNCHANGED <<state, resumeAt, loading, wanted, services>>
  BY DEF Idle, vm
<1>2. /\ clock' \in 0 .. Wrap - 1 /\ pending' \in BOOLEAN /\ age' \in Nat
      /\ left' \in Int /\ wrapped' \in BOOLEAN
      /\ pending' => pending /\ age' = age + d
      /\ (state' = "WAITING" /\ ~wrapped') =>
           /\ state = "WAITING" /\ ~wrapped
           /\ left' = left - d /\ resumeAt' = clock' + left'
  BY <1>1, StayStep
<1>3. /\ nap' \in 1 .. Chunk
      /\ nap' > 1 => nap' <= resumeAt - clock'
  BY <1>1, <1>2, NapType DEF PacingInv
<1>4. deaf' \in Nat
  BY DEF Idle, PacingInv, TypeOK
<1>5. TypeOK'
  BY <1>1, <1>2, <1>3, <1>4 DEF PacingInv, TypeOK
<1>6. TimeLeft'
  <2>1. (state' = "WAITING" /\ ~wrapped') => left' >= 1 - 2 * PassMs
    BY <1>1, <1>2 DEF PacingInv, TimeLeft, TypeOK, Durations
  <2>2. (state' = "WAITING" /\ ~wrapped') => nap' = 1 \/ nap' <= left'
    BY <1>1, <1>2, <1>3
  <2> QED
    BY <1>1, <1>2, <2>1, <2>2 DEF TimeLeft
<1>7. CommandAge'
  BY <1>1, <1>2 DEF PacingInv, CommandAge, TypeOK, Durations
<1> QED
  BY <1>5, <1>6, <1>7

LEMMA SleepStep == \A late \in 0 .. Slack : PacingInv /\ Sleep(late) => PacingInv'
<1> SUFFICES ASSUME NEW late \in 0 .. Slack, PacingInv, Sleep(late)
             PROVE  TypeOK' /\ TimeLeft' /\ CommandAge'
  BY DEF PacingInv
<1> DEFINE d == nap + late
<1>1. /\ stage = "sleep" /\ stage' = "pump" /\ Passes(d) /\ StillWaits(d)
      /\ UNCHANGED <<state, resumeAt, loading, wanted, services, nap, deaf>>
  BY DEF Sleep, vm
<1>2. d \in 1 .. Chunk + Slack /\ d <= nap + Slack
  BY DEF PacingInv, TypeOK
<1> HIDE DEF d
<1>3. /\ clock' \in 0 .. Wrap - 1 /\ pending' \in BOOLEAN /\ age' \in Nat
      /\ left' \in Int /\ wrapped' \in BOOLEAN
      /\ pending' => pending /\ age' = age + d
      /\ (state' = "WAITING" /\ ~wrapped') =>
           /\ state = "WAITING" /\ ~wrapped
           /\ left' = left - d /\ resumeAt' = clock' + left'
  BY <1>1, <1>2, StayStep
<1>4. TypeOK'
  BY <1>1, <1>3 DEF PacingInv, TypeOK
<1>5. TimeLeft'
  BY <1>1, <1>2, <1>3 DEF PacingInv, TimeLeft, TypeOK
<1>6. CommandAge'
  BY <1>1, <1>2, <1>3 DEF PacingInv, CommandAge, TypeOK
<1> QED
  BY <1>4, <1>5, <1>6

LEMMA PacingStep == PacingInv /\ [Next]_vars => PacingInv'
<1>1. PacingInv /\ Arrive => PacingInv'
  <2> SUFFICES ASSUME PacingInv, Arrive PROVE PacingInv'
    OBVIOUS
  <2>1. /\ pending' = TRUE /\ age' = 0
        /\ UNCHANGED <<clock, state, resumeAt, loading, wanted, services, stage, nap,
                       left, wrapped, deaf>>
    BY DEF Arrive, vm
  <2>2. CommandAge'
    BY <2>1 DEF PacingInv, CommandAge, TypeOK
  <2> QED
    BY <2>1, <2>2 DEF PacingInv, TypeOK, TimeLeft
<1>2. PacingInv /\ UNCHANGED vars => PacingInv'
  BY DEF vars, vm, PacingInv, TypeOK, TimeLeft, CommandAge
<1> QED
  BY <1>1, <1>2, ServeStep, PumpStep, TickStaysStep, TickStepsStep, IdleStep, SleepStep
  DEF Next

LEMMA PacingInvariance == Spec => []PacingInv
  BY PacingInit, PacingStep, PTL DEF Spec

(* A WAIT the clock does not wrap in is noticed at most a pass and the     *)
(* scheduler's slack after its time, at every setting.                     *)
THEOREM NotLate == Spec => []WaitNotLate
<1>1. PacingInv => WaitNotLate
  BY DEF PacingInv, TypeOK, TimeLeft, WaitNotLate, LateBy
<1> QED
  BY <1>1, PacingInvariance, PTL

(* VM::tick cuts no WAIT short the clock does not wrap in.                 *)
THEOREM NotEarly == Spec => WaitNotEarly
<1>1. PacingInv /\ [Next]_vars =>
        [(stage = "tick" /\ state = "WAITING" /\ ~wrapped /\ left > 0)
           => state' = "WAITING" /\ resumeAt' = resumeAt]_vars
  <2> SUFFICES ASSUME PacingInv, Next, stage = "tick", state = "WAITING", ~wrapped,
                      left > 0
               PROVE  state' = "WAITING" /\ resumeAt' = resumeAt
    BY DEF vars, vm
  <2>1. clock < resumeAt
    BY DEF PacingInv, TimeLeft, TypeOK
  <2>2. ~(\E d \in Durations : TickSteps(d))
    BY <2>1 DEF TickSteps, Due
  <2>3. CASE \E d \in Durations : TickStays(d)
    BY <2>3 DEF TickStays, vm
  <2>4. CASE Arrive
    BY <2>4 DEF Arrive, vm
  <2> QED
    BY <2>2, <2>3, <2>4 DEF Next, Serve, Pump, Idle, Sleep
<1> QED
  BY <1>1, PacingInvariance, PTL DEF Spec, WaitNotEarly

(* However long the WAIT, a command waits for the sleep's cap, the slack   *)
(* and two parts of a pass at most.                                        *)
THEOREM ServedSoon == Spec => []CommandServedSoon
<1>1. PacingInv => CommandServedSoon
  BY DEF PacingInv, TypeOK, CommandAge, CommandServedSoon
<1> QED
  BY <1>1, PacingInvariance, PTL

(* The one long sleep of a program that wants a model is behind it, or the *)
(* next tick starts the services.                                          *)
HeardOf ==
  /\ deaf <= 1
  /\ ~wanted => deaf = 0
  /\ deaf > 0 /\ stage \in {"tick", "idle"} => services

LEMMA NapListening == \A now : services => Nap(now) = 1
  BY DEF Nap

LEMMA HeardStep == PacingInv /\ HeardOf /\ [Next]_vars => HeardOf'
<1> SUFFICES ASSUME PacingInv, HeardOf, [Next]_vars PROVE HeardOf'
  OBVIOUS
<1>0. deaf \in Nat /\ wanted \in BOOLEAN /\ services \in BOOLEAN
  BY DEF PacingInv, TypeOK
<1>1. CASE Arrive
  BY <1>1 DEF Arrive, vm, HeardOf
<1>2. CASE Serve
  BY <1>0, <1>2 DEF Serve, HeardOf
<1>3. ASSUME NEW d \in Durations, Pump(d) PROVE HeardOf'
  <2>1. deaf' = deaf /\ wanted' = wanted /\ services' = wanted
    BY <1>3 DEF Pump
  <2>2. deaf > 0 => wanted
    BY <1>0 DEF HeardOf
  <2> QED
    BY <2>1, <2>2 DEF HeardOf
<1>4. ASSUME NEW d \in Durations, TickStays(d) PROVE HeardOf'
  BY <1>0, <1>4 DEF TickStays, vm, HeardOf
<1>5. ASSUME NEW d \in Durations, TickSteps(d) PROVE HeardOf'
  <2>1. deaf' = deaf /\ services' = services /\ stage = "tick" /\ wanted' \in {wanted, TRUE}
    BY <1>5 DEF TickSteps
  <2>2. wanted => wanted'
    BY <2>1, Zenon
  <2> QED
    BY <2>1, <2>2 DEF HeardOf
<1>6. ASSUME NEW d \in Durations, Idle(d) PROVE HeardOf'
  <2>1. /\ stage = "idle" /\ stage' = "sleep" /\ wanted' = wanted
        /\ nap' = Nap(clock')
        /\ deaf' = IF wanted /\ nap' > 1 THEN deaf + 1 ELSE deaf
    BY <1>6 DEF Idle, vm
  <2>2. CASE deaf = 0
    BY <2>1, <2>2 DEF HeardOf
  <2>3. CASE deaf > 0
    <3>1. nap' = 1
      BY <2>1, <2>3, NapListening DEF HeardOf
    <3> QED
      BY <2>1, <3>1 DEF HeardOf
  <2> QED
    BY <1>0, <2>2, <2>3
<1>7. ASSUME NEW late \in 0 .. Slack, Sleep(late) PROVE HeardOf'
  BY <1>0, <1>7 DEF Sleep, vm, HeardOf
<1>8. CASE UNCHANGED vars
  BY <1>8 DEF vars, vm, HeardOf
<1> QED
  BY <1>1, <1>2, <1>3, <1>4, <1>5, <1>6, <1>7, <1>8 DEF Next

(* A program that wants a model oversleeps the microphone or the camera at *)
(* most once.                                                              *)
THEOREM OversleepsOnce == Spec => []DeafOnce
<1>1. Init => HeardOf
  BY DEF Init, HeardOf
<1>2. HeardOf => DeafOnce
  BY DEF HeardOf, DeafOnce
<1> QED
  BY <1>1, <1>2, HeardStep, PacingInvariance, PTL DEF Spec
=============================================================================
