------------------------------- MODULE Pacing -------------------------------
(***************************************************************************)
(* The pace of the main loop (zephyr/src/main.cpp): pump the serial link,  *)
(* tick, sleep for as long as the VM declares itself idle.  The clock is a *)
(* register of the board that wraps; a WAIT compares it with the resume    *)
(* time it computed (VM::tick, VM::idleForMs).                             *)
(*                                                                         *)
(* Time is milliseconds.  Every part of a pass takes 0 to PassMs of it,    *)
(* k_msleep what it is asked and up to Slack more.  Of the VM only what    *)
(* decides its idle time is kept; Runtime.tla has the rest.                *)
(***************************************************************************)
EXTENDS Integers

CONSTANTS
  Wrap,    \* the clock counts 0 .. Wrap - 1 (2^32 on the boards)
  Chunk,   \* IDLE_CHUNK_MS
  PassMs,  \* bound of the model: what one part of a pass may take
  Slack,   \* what a sleep may take beyond what was asked
  Waits    \* the WAIT times programs use

ASSUME PacingAssumption ==
  /\ Wrap \in Nat /\ Chunk \in Nat \ {0} /\ PassMs \in Nat \ {0} /\ Slack \in Nat
  /\ Waits \subseteq 0 .. Wrap - 1
  /\ 3 * PassMs + Chunk + Slack < Wrap

VARIABLES
  clock,     \* hal::nowMs()
  state,     \* VmState
  resumeAt,  \* the clock at which the WAIT is over
  loading,   \* a LOAD streams lines
  wanted,    \* aiActive or visionActive
  services,  \* aiRunning or visionRunning
  stage,     \* where the loop is: "pump", "tick", "idle", "sleep"
  nap        \* the milliseconds the next k_msleep is asked

(* History: what no code keeps.                                            *)
VARIABLES
  left,     \* true milliseconds until the WAIT is over, negative when late
  wrapped,  \* the clock wraps within the WAIT
  pending,  \* a command's line waits in the link
  age,      \* for how long
  deaf      \* sleeps longer than the floor since the program wants a model

vm == <<state, resumeAt, loading, wanted, services>>
vars == <<clock, vm, stage, nap, left, wrapped, pending, age, deaf>>

Wrapped(n) == IF n < Wrap THEN n ELSE n - Wrap
Durations == 0 .. PassMs

Init ==
  /\ clock = 0 /\ state = "IDLE" /\ resumeAt = 0 /\ loading = FALSE
  /\ wanted = FALSE /\ services = FALSE
  /\ stage = "pump" /\ nap = 1
  /\ left = 0 /\ wrapped = FALSE /\ pending = FALSE /\ age = 0 /\ deaf = 0

(* d milliseconds pass; what they do to a WAIT that goes on.               *)
Passes(d) ==
  /\ clock' = Wrapped(clock + d)
  /\ pending' = pending
  /\ age' = IF pending THEN age + d ELSE 0
StillWaits(d) ==
  /\ wrapped' = (state = "WAITING" /\ (wrapped \/ clock + d >= Wrap))
  /\ left' = IF state = "WAITING" /\ ~wrapped' THEN left - d ELSE 0
NoWait == left' = 0 /\ wrapped' = FALSE

(* OP_WAIT, at the clock the step leaves.                                  *)
WaitFor(ms) ==
  /\ resumeAt' = Wrapped(clock' + ms)
  /\ state' = "WAITING"
  /\ wrapped' = (clock' + ms >= Wrap)
  /\ left' = IF wrapped' THEN 0 ELSE ms
-----------------------------------------------------------------------------
(* A line arrives, at any time.                                            *)
Arrive ==
  /\ ~pending
  /\ pending' = TRUE /\ age' = 0
  /\ UNCHANGED <<clock, vm, stage, nap, left, wrapped, deaf>>

(* pumpSerial: the pending command is handled.                             *)
Stop     == ~loading /\ state' = "STOPPED" /\ wanted' = FALSE /\ NoWait
            /\ UNCHANGED <<resumeAt, loading>>
Run      == ~loading /\ state' = "RUNNING" /\ NoWait
            /\ UNCHANGED <<resumeAt, loading, wanted>>
Load     == ~loading /\ state' = "IDLE" /\ wanted' = FALSE /\ loading' = TRUE
            /\ resumeAt' = 0 /\ NoWait
EndLoad  == loading /\ loading' = FALSE /\ StillWaits(0)
            /\ UNCHANGED <<state, resumeAt, wanted>>
WaitNow  == ~loading /\ (\E ms \in Waits : WaitFor(ms)) /\ UNCHANGED <<loading, wanted>>
InferNow == ~loading /\ wanted' = TRUE /\ StillWaits(0)
            /\ UNCHANGED <<state, resumeAt, loading>>
Other    == StillWaits(0) /\ UNCHANGED <<state, resumeAt, loading, wanted>>

Serve ==
  /\ stage = "pump" /\ pending
  /\ pending' = FALSE /\ age' = 0 /\ clock' = clock
  /\ Stop \/ Run \/ Load \/ EndLoad \/ WaitNow \/ InferNow \/ Other
  /\ UNCHANGED <<services, stage, nap>>
  /\ deaf' = IF wanted' THEN deaf ELSE 0

(* The pump found nothing more; then runtime::tick polls the services a    *)
(* program wants, up to the clock VM::tick reads.                          *)
Pump(d) ==
  /\ stage = "pump" /\ ~pending
  /\ stage' = "tick"
  /\ services' = wanted
  /\ Passes(d) /\ StillWaits(d)
  /\ UNCHANGED <<state, resumeAt, loading, wanted, nap, deaf>>

DueWithin == clock + 1 >= resumeAt
Due == ~(clock < resumeAt)

(* VM::tick of a WAIT not due, of a mission, of a VM at rest.              *)
TickStays(d) ==
  /\ stage = "tick"
  /\ \/ state = "WAITING" /\ ~Due
     \/ state \in {"IDLE", "STOPPED", "RUNNING_MISSION"}
  /\ stage' = "idle"
  /\ Passes(d) /\ StillWaits(d)
  /\ UNCHANGED <<vm, nap, deaf>>

(* VM::tick into the step loop: the program uses up its budget, ends, or   *)
(* stops stepping at a WAIT or a mission; it may have executed an INFER.   *)
TickSteps(d) ==
  /\ stage = "tick"
  /\ state = "RUNNING" \/ (state = "WAITING" /\ Due)
  /\ stage' = "idle"
  /\ Passes(d)
  /\ \/ \E ms \in Waits : WaitFor(ms)
     \/ state' \in {"RUNNING", "STOPPED", "RUNNING_MISSION"} /\ NoWait /\ UNCHANGED resumeAt
  /\ wanted' \in {wanted, TRUE}
  /\ UNCHANGED <<loading, services, nap, deaf>>

(* VM::idleForMs, runtime::idleMs and the cap of main().                   *)
IdleForMs(now) == IF state = "WAITING" /\ resumeAt > now THEN resumeAt - now ELSE 0
NapEvenListening(now) ==
  LET idle == IF loading THEN 0 ELSE IdleForMs(now)
      capped == IF idle > Chunk THEN Chunk ELSE idle
  IN  IF capped > 0 THEN capped ELSE 1
NapUncapped(now) ==
  LET idle == IF loading \/ services THEN 0 ELSE IdleForMs(now)
  IN  IF idle > 0 THEN idle ELSE 1
NapAChunk(now) ==
  IF state = "WAITING" /\ ~loading /\ ~services THEN Chunk ELSE 1
Nap(now) ==
  LET idle == IF loading \/ services THEN 0 ELSE IdleForMs(now)
      capped == IF idle > Chunk THEN Chunk ELSE idle
  IN  IF capped > 0 THEN capped ELSE 1

Idle(d) ==
  /\ stage = "idle"
  /\ Passes(d) /\ StillWaits(d)
  /\ nap' = Nap(clock')
  /\ stage' = "sleep"
  /\ deaf' = IF wanted /\ nap' > 1 THEN deaf + 1 ELSE deaf
  /\ UNCHANGED vm

Sleep(late) ==
  /\ stage = "sleep"
  /\ Passes(nap + late) /\ StillWaits(nap + late)
  /\ stage' = "pump"
  /\ UNCHANGED <<vm, nap, deaf>>

Next ==
  \/ Arrive
  \/ Serve
  \/ \E d \in Durations : Pump(d) \/ TickStays(d) \/ TickSteps(d) \/ Idle(d)
  \/ \E late \in 0 .. Slack : Sleep(late)

Spec == Init /\ [][Next]_vars
-----------------------------------------------------------------------------
TypeOK ==
  /\ clock \in 0 .. Wrap - 1
  /\ state \in {"IDLE", "RUNNING", "WAITING", "RUNNING_MISSION", "STOPPED"}
  /\ resumeAt \in 0 .. Wrap - 1
  /\ loading \in BOOLEAN /\ wanted \in BOOLEAN /\ services \in BOOLEAN
  /\ stage \in {"pump", "tick", "idle", "sleep"}
  /\ nap \in 1 .. Chunk
  /\ left \in Int /\ wrapped \in BOOLEAN
  /\ pending \in BOOLEAN /\ age \in Nat /\ deaf \in Nat

(* The sleeps cost a WAIT nothing: one the clock does not wrap in is over  *)
(* when VM::tick next looks, at most a pass and the slack of a sleep after *)
(* its time (idleForMs: a sleep ends with the WAIT, or is 1 ms).           *)
LateBy == 3 * PassMs + Slack
WaitNotLate == state = "WAITING" /\ ~wrapped => left >= -LateBy

(* A WAIT the clock does not wrap in is never cut short by a tick.         *)
WaitNotEarly ==
  [][(stage = "tick" /\ state = "WAITING" /\ ~wrapped /\ left > 0)
       => state' = "WAITING" /\ resumeAt' = resumeAt]_vars

(* The latency of a serial command: however long the WAIT, a command is    *)
(* taken within one sleep's cap and a pass (main.cpp 7-10).                *)
CommandServedSoon == pending => age <= Chunk + Slack + 2 * PassMs

(* A program that wants a model oversleeps the mic or the camera once, in  *)
(* the pass of its first INFER: from the next pass on it never idles       *)
(* (runtime.cpp idleMs; aiRunning is set a tick after aiActive).           *)
DeafOnce == deaf <= 1
=============================================================================
