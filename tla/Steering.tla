------------------------------- MODULE Steering -------------------------------
(***************************************************************************)
(* A program that looks and steers by what it sees: it reads the class     *)
(* with SEE() (INFER vision), where that is with SEEX() (INFER visionx),   *)
(* does something with both and jumps back.  Each pass of the loop polls   *)
(* the camera (Camera.tla), which may write the registers, and then gives  *)
(* the VM its budget of steps (VM::tick), which may end anywhere.          *)
(*                                                                         *)
(* Composes Camera's tick with the VM's step loop; the program runs all    *)
(* the time and no bench command comes.                                    *)
(***************************************************************************)
EXTENDS Camera

CONSTANTS
  StepsPerTick,  \* STEPS_PER_TICK
  LoopSteps      \* instructions of the program's loop

VARIABLES
  pc,    \* 0 at INFER vision, 1 at INFER visionx, then the rest of the loop
  left,  \* steps the tick may still execute
  read,  \* the pair the program holds: [cls, x]
  shown  \* history: the pairs the registers have held together

program == <<pc, left, read, shown>>

Held == [cls |-> seen.cls, x |-> seen.x]

SteerInit ==
  /\ Init
  /\ pc = 0 /\ left = 0 /\ read = Held /\ shown = {Held}

Pass ==
  /\ left = 0 /\ left' = StepsPerTick
  /\ Tick
  /\ shown' = shown \cup {Held'}
  /\ UNCHANGED <<pc, read>>

ReadSee == pc = 0 /\ read' = [read EXCEPT !.cls = seen.cls] /\ wanted' = TRUE
ReadSeeX == pc = 1 /\ read' = [read EXCEPT !.x = seen.x] /\ wanted' = TRUE
DoRest == pc > 1 /\ UNCHANGED <<read, wanted>>

Step ==
  /\ left > 0 /\ left' = left - 1
  /\ ReadSee \/ ReadSeeX \/ DoRest
  /\ pc' = (pc + 1) % LoopSteps
  /\ UNCHANGED <<cam, svc, running, bench, seen, sights, disturbed, shown>>

SteerNext == Pass \/ Step
SteerSpec == SteerInit /\ [][SteerNext]_<<vars, program>>
-----------------------------------------------------------------------------
(* Claimed, and not so: class and place "always describe the same frame"   *)
(* (SPEC.md 198-199).  They are written together, but read one by one, and *)
(* a tick whose budget ends between the two reads lets the next frame in:  *)
(* the program acts on a pair that was in no frame.                        *)
ReadsDescribeOneFrame == pc # 1 => read \in shown
=============================================================================
