--------------------------------- MODULE VM ---------------------------------
(***************************************************************************)
(* The tick-based bytecode VM (src/src/vm.cpp, src/src/vm.h): what a       *)
(* loaded program does to the VM's registers and to the actuators a stop   *)
(* must make safe.  Addresses are 0-based, as in the code: program[pc + 1] *)
(* is the instruction at pc.                                               *)
(*                                                                         *)
(* Data are abstracted to what the properties tell apart: of the value     *)
(* stack its depth, of the variables a..z the set of those written since   *)
(* the program was cleared, of a clock reading only whether a WAIT is due  *)
(* (Pacing.tla has the arithmetic of that test).                        *)
(***************************************************************************)
EXTENDS Integers, Sequences, FiniteSets

CONSTANTS
  Missions,        \* ids of the mission registry
  MaxProgram,      \* instructions a program may hold
  StepsPerTick,    \* instructions one tick may execute
  ValueStackSize,  \* depth of the value stack
  CallStackSize    \* depth of the call stack

ASSUME SizesAssumption ==
  /\ MaxProgram \in Nat \ {0}
  /\ StepsPerTick \in Nat \ {0}
  /\ ValueStackSize \in Nat \ {0}
  /\ CallStackSize \in Nat \ {0}

VARIABLES
  program,    \* the instructions, count = Len(program)
  pc,         \* address of the next instruction, any integer after a JMP
  state,      \* VmState
  vsp,        \* depth of the value stack
  stored,     \* the variables a STORE wrote since clearProgram
  callStack,  \* return addresses
  mission,    \* currentMission, an id, or NoMission for nullptr
  active,     \* the models wanted: "voice" is aiActive, "vision" visionActive
  motors,     \* the speed the motors are driven at
  tones       \* the buzzers that sound

vmVars == <<program, pc, state, vsp, stored, callStack, mission, active>>
actuators == <<motors, tones>>

Models == {"voice", "vision"}
NoMission == "nullptr"
ASSUME MissionsAssumption == NoMission \notin Missions

(* The board's buzzers: the overlay's own and the ESP32-S3's second one.   *)
Buzzers == {"main", "second"}
(* padOf's -1: the operand names no pad.                                   *)
NoPad == "none"

Parked == state \in {"IDLE", "STOPPED"}

-----------------------------------------------------------------------------
(* Opcodes by their effect on the value stack: how many values an opcode   *)
(* pops and whether it pushes one.                                         *)
PushOps   == {"PUSH", "LOAD", "READ", "TIME", "AREAD", "DIST", "SENSE"}
UnaryOps  == {"NOT", "ABS"}
BinaryOps == {"ADD", "SUB", "MUL", "DIV", "GT", "LT", "EQ", "AND"}
DropOps   == {"DNUM"}
PixelOps  == {"PIX"}
QuietOps  == {"NOP", "MODE", "SET", "SERVO", "RPIN", "PIXN", "DCLR", "DTEXT"}
DataOps   == PushOps \cup UnaryOps \cup BinaryOps \cup DropOps \cup PixelOps
               \cup QuietOps
ControlOps == {"WAIT", "JMP", "JZ", "HALT", "CALL", "GOSUB", "RET", "STORE",
               "TONE", "MOVE", "AISTART", "INFER"}

(* An instruction: a is its number (address, speed, frequency, variable)   *)
(* and name its mission, model or buzzer.                                  *)
Instruction == [op : DataOps \cup ControlOps, a : Int,
                name : STRING]

(* push drops a value the full stack has no room for, pop on an empty      *)
(* stack yields 0 and removes nothing.                                     *)
Pushed(d) == IF d < ValueStackSize THEN d + 1 ELSE d
Popped(d) == IF d > 0 THEN d - 1 ELSE d

StackAfter(op, d) ==
  CASE op \in PushOps   -> Pushed(d)
    [] op \in UnaryOps  -> Pushed(Popped(d))
    [] op \in BinaryOps -> Pushed(Popped(Popped(d)))
    [] op \in DropOps   -> Popped(d)
    [] op \in PixelOps  -> Popped(Popped(d))
    [] OTHER            -> d

(* stopActuators: the motors to zero and every buzzer silent.              *)
StopActuators == motors' = 0 /\ tones' = {}

(* hal::tone on the buzzer a pad stands for; the board's own for no pad.   *)
ToneOn(name) == tones \cup {IF name = "second" THEN "second" ELSE "main"}
(* hal::toneOff: a negative pin silences every buzzer.                     *)
ToneOff(name) == IF name = NoPad THEN {}
                 ELSE tones \ {IF name = "second" THEN "second" ELSE "main"}
-----------------------------------------------------------------------------
(* VM::clearProgram: the VM as a new program finds it.                     *)
ClearProgramLeaky ==
  /\ program' = << >>
  /\ pc' = 0
  /\ state' = "IDLE"
  /\ mission' = NoMission
  /\ active' = {}
  /\ UNCHANGED <<vsp, stored, callStack>>

ClearProgram ==
  /\ program' = << >>
  /\ pc' = 0
  /\ state' = "IDLE"
  /\ vsp' = 0
  /\ stored' = {}
  /\ callStack' = << >>
  /\ mission' = NoMission
  /\ active' = {}

(* VM::start.  Neither the stacks nor the variables are cleared here.      *)
Start ==
  /\ pc' = 0
  /\ state' = "RUNNING"
  /\ UNCHANGED <<program, vsp, stored, callStack, mission, active, motors, tones>>

(* VM::stop, minus the actuators: the services are released.               *)
StopVM ==
  /\ state' = "STOPPED"
  /\ active' = {}
  /\ StopActuators
  /\ UNCHANGED <<program, pc, vsp, stored, callStack, mission>>
-----------------------------------------------------------------------------
(* VM::step, one action per kind of opcode.  `next` is the pc the          *)
(* instruction runs with: pc + 1 in a tick, pc itself for an OVERRIDE.     *)
ExecData(in, next) ==
  /\ in.op \in DataOps
  /\ vsp' = StackAfter(in.op, vsp)
  /\ pc' = next
  /\ UNCHANGED <<program, state, stored, callStack, mission, active, motors, tones>>

ExecStore(in, next) ==
  /\ in.op = "STORE"
  /\ vsp' = Popped(vsp)
  /\ stored' = stored \cup {in.a}
  /\ pc' = next
  /\ UNCHANGED <<program, state, callStack, mission, active, motors, tones>>

ExecMove(in, next) ==
  /\ in.op = "MOVE"
  /\ motors' = in.a
  /\ pc' = next
  /\ UNCHANGED <<program, state, vsp, stored, callStack, mission, active, tones>>

ExecTone(in, next) ==
  /\ in.op = "TONE"
  /\ tones' = IF in.a > 0 THEN ToneOn(in.name) ELSE ToneOff(in.name)
  /\ pc' = next
  /\ UNCHANGED <<program, state, vsp, stored, callStack, mission, active, motors>>

ExecWait(in, next) ==
  /\ in.op = "WAIT"
  /\ state' = "WAITING"
  /\ pc' = next
  /\ UNCHANGED <<program, vsp, stored, callStack, mission, active, motors, tones>>

ExecJmp(in) ==
  /\ in.op = "JMP"
  /\ pc' = in.a
  /\ UNCHANGED <<program, state, vsp, stored, callStack, mission, active, motors, tones>>

(* pop() of an empty stack is 0, so JZ on one always jumps.                *)
ExecJz(in, next) ==
  /\ in.op = "JZ"
  /\ vsp' = Popped(vsp)
  /\ \/ pc' = in.a
     \/ vsp > 0 /\ pc' = next
  /\ UNCHANGED <<program, state, stored, callStack, mission, active, motors, tones>>

(* HALT stops the actuators but, unlike stop(), releases no service.       *)
ExecHaltRolling(in, next) ==
  /\ in.op = "HALT"
  /\ state' = "STOPPED"
  /\ pc' = next
  /\ UNCHANGED <<program, vsp, stored, callStack, mission, active, motors, tones>>

ExecHalt(in, next) ==
  /\ in.op = "HALT"
  /\ state' = "STOPPED"
  /\ StopActuators
  /\ pc' = next
  /\ UNCHANGED <<program, vsp, stored, callStack, mission, active>>

(* What a mission may do to the buzzers through the pad its CALL names.    *)
Silenced == {tones \ {b} : b \in Buzzers} \cup {{}}
Sounded  == {tones \cup {b} : b \in Buzzers}

(* CALL: an id the registry knows begins its mission, which first silences *)
(* its buzzer; another leaves the state and forgets the current mission.   *)
ExecCall(in, next) ==
  /\ in.op = "CALL"
  /\ \/ /\ in.name \in Missions
        /\ mission' = in.name
        /\ state' = "RUNNING_MISSION"
        /\ tones' \in Silenced
     \/ /\ in.name \notin Missions
        /\ mission' = NoMission
        /\ UNCHANGED <<state, tones>>
  /\ pc' = next
  /\ UNCHANGED <<program, vsp, stored, callStack, active, motors>>

(* GOSUB on a full call stack stops the program instead of jumping.        *)
ExecGosubUnbounded(in, next) ==
  /\ in.op = "GOSUB"
  /\ callStack' = Append(callStack, next)
  /\ pc' = in.a
  /\ UNCHANGED <<program, vsp, stored, mission, active, state, motors, tones>>

ExecGosubItself(in, next) ==
  /\ in.op = "GOSUB"
  /\ \/ /\ Len(callStack) < CallStackSize
        /\ callStack' = Append(callStack, next - 1)
        /\ pc' = in.a
        /\ UNCHANGED <<state, motors, tones>>
     \/ /\ Len(callStack) >= CallStackSize
        /\ state' = "STOPPED"
        /\ StopActuators
        /\ pc' = next
        /\ UNCHANGED callStack
  /\ UNCHANGED <<program, vsp, stored, mission, active>>

ExecGosub(in, next) ==
  /\ in.op = "GOSUB"
  /\ \/ /\ Len(callStack) < CallStackSize
        /\ callStack' = Append(callStack, next)
        /\ pc' = in.a
        /\ UNCHANGED <<state, motors, tones>>
     \/ /\ Len(callStack) >= CallStackSize
        /\ state' = "STOPPED"
        /\ StopActuators
        /\ pc' = next
        /\ UNCHANGED callStack
  /\ UNCHANGED <<program, vsp, stored, mission, active>>

ExecRet(in, next) ==
  /\ in.op = "RET"
  /\ \/ /\ callStack # << >>
        /\ pc' = callStack[Len(callStack)]
        /\ callStack' = SubSeq(callStack, 1, Len(callStack) - 1)
     \/ /\ callStack = << >>
        /\ pc' = next
        /\ UNCHANGED callStack
  /\ UNCHANGED <<program, state, vsp, stored, mission, active, motors, tones>>

(* The class registers' models; visionx and visionsize arm the camera too. *)
ModelOf(name) ==
  IF name \in {"vision", "visionx", "visionsize"} THEN "vision" ELSE "voice"

(* AISTART knows only the name "vision"; INFER also pushes the register.   *)
ExecModel(in, next) ==
  /\ in.op \in {"AISTART", "INFER"}
  /\ active' = active \cup
       {IF in.op = "INFER" THEN ModelOf(in.name)
        ELSE IF in.name = "vision" THEN "vision" ELSE "voice"}
  /\ vsp' = IF in.op = "INFER" THEN Pushed(vsp) ELSE vsp
  /\ pc' = next
  /\ UNCHANGED <<program, state, stored, callStack, mission, motors, tones>>

Exec(in, next) ==
  \/ ExecData(in, next)
  \/ ExecStore(in, next)
  \/ ExecMove(in, next)
  \/ ExecTone(in, next)
  \/ ExecWait(in, next)
  \/ ExecJmp(in)
  \/ ExecJz(in, next)
  \/ ExecHalt(in, next)
  \/ ExecCall(in, next)
  \/ ExecGosub(in, next)
  \/ ExecRet(in, next)
  \/ ExecModel(in, next)
-----------------------------------------------------------------------------
(* The tick loop leaves the program at its end: the actuators stop.        *)
AtEnd == pc < 0 \/ pc >= Len(program)

RunOffEnd ==
  /\ AtEnd
  /\ state' = "STOPPED"
  /\ StopActuators
  /\ UNCHANGED <<program, pc, vsp, stored, callStack, mission, active>>

(* One instruction of the loop: fetch, advance, execute.                   *)
StepProgram == ~AtEnd /\ Exec(program[pc + 1], pc + 1)

(* A mission's tick may start or stop its buzzer and is never done.        *)
MissionTick ==
  /\ tones' \in {tones} \cup Sounded \cup Silenced
  /\ UNCHANGED <<motors, program, pc, state, vsp, stored, callStack, mission, active>>
=============================================================================
