------------------------------- MODULE Runtime -------------------------------
(***************************************************************************)
(* The protocol loop (src/src/runtime.cpp) around the VM: serial commands, *)
(* line-by-line loading, the one-slot program store with its autorun, and  *)
(* the loop of zephyr/src/main.cpp that pumps the serial link and then     *)
(* ticks the VM.  The loop is the only thread, so commands come between    *)
(* ticks; power may go at any time.                                        *)
(*                                                                         *)
(* A line of a program is an instruction, a header line (CONTRACT, RES)    *)
(* that is accepted or refused, or junk no parser takes.  VM::check is the *)
(* parameter Checks, a function of the accepted text.                      *)
(***************************************************************************)
EXTENDS VM

CONSTANTS
  Instructions,  \* the instructions a program's lines may hold
  Overrides,     \* those an OVERRIDE command may hold
  GoodHeaders,   \* header lines setContract / addResource accept
  BadHeaders,    \* header lines they refuse, or that do not parse
  JunkLines,     \* lines no parser accepts: the line is lost with an ERROR
  Checks(_),     \* VM::check of a program text: TRUE when it may run
  StoreSize,     \* lines the store holds; storeSave refuses a longer text
  MaxText        \* bound of the model: lines a text may reach

ASSUME LinesAssumption ==
  /\ Instructions \subseteq Instruction /\ Overrides \subseteq Instruction
  /\ Instructions \cap (GoodHeaders \cup BadHeaders \cup JunkLines) = {}
  /\ GoodHeaders \cap (BadHeaders \cup JunkLines) = {}
VARIABLES
  loading,      \* between LOAD and "."
  headerError,  \* a header line of this load was refused
  programText,  \* the accepted lines of the loaded program
  saved,        \* the store's one slot, << >> when empty
  replay,       \* lines of the saved text the boot has still to load
  services,     \* the services the loop drives: aiRunning, visionRunning
  phase,        \* "boot", "pump" between ticks, "steps" in the step loop
  budget        \* steps the running tick may still execute

(* History variables: nothing in the code, only what properties speak of.  *)
VARIABLES
  manual,    \* an OVERRIDE acted on a parked VM since the last stop
  intruded   \* an OVERRIDE ran since the program was cleared

loadVars == <<loading, headerError, programText, replay>>
loopVars == <<services, phase, budget>>
history  == <<manual, intruded>>
vars == <<vmVars, actuators, loadVars, saved, loopVars, history>>

Lines == Instructions \cup GoodHeaders \cup BadHeaders \cup JunkLines

IsInstruction(line) == line \in Instructions
-----------------------------------------------------------------------------
(* Power-on: RAM is zero, the pins are off, and init() has yet to replay   *)
(* the saved text.                                                         *)
Init ==
  /\ program = << >> /\ pc = 0 /\ state = "IDLE" /\ vsp = 0 /\ stored = {}
  /\ callStack = << >> /\ mission = NoMission /\ active = {}
  /\ motors = 0 /\ tones = {}
  /\ loading = FALSE /\ headerError = FALSE /\ programText = << >>
  /\ saved = << >> /\ replay = << >>
  /\ services = {} /\ phase = "boot" /\ budget = 0
  /\ manual = FALSE /\ intruded = FALSE

PowerCycle ==
  /\ ClearProgram
  /\ StopActuators
  /\ loading' = FALSE /\ headerError' = FALSE /\ programText' = << >>
  /\ replay' = saved /\ UNCHANGED saved
  /\ services' = {} /\ phase' = "boot" /\ budget' = 0
  /\ manual' = FALSE /\ intruded' = FALSE
-----------------------------------------------------------------------------
(* LOAD: stop what runs, clear it, take lines.                             *)
LoadKeepingText ==
  /\ phase = "pump" /\ ~loading
  /\ StopActuators
  /\ ClearProgram
  /\ loading' = TRUE /\ headerError' = FALSE
  /\ UNCHANGED <<replay, programText>>
  /\ manual' = FALSE /\ intruded' = FALSE
  /\ UNCHANGED <<saved, loopVars>>

Load ==
  /\ phase = "pump" /\ ~loading
  /\ StopActuators
  /\ ClearProgram
  /\ loading' = TRUE /\ headerError' = FALSE /\ programText' = << >>
  /\ UNCHANGED replay
  /\ manual' = FALSE /\ intruded' = FALSE
  /\ UNCHANGED <<saved, loopVars>>

(* programLine: the three ways a line can go.                              *)
Accepted(line) ==
  /\ \/ /\ IsInstruction(line)
        /\ Len(program) < MaxProgram
        /\ program' = Append(program, line)
     \/ line \in GoodHeaders /\ UNCHANGED program
  /\ programText' = Append(programText, line)
  /\ UNCHANGED headerError

RefusedHeader(line) ==
  /\ line \in BadHeaders
  /\ headerError' = TRUE
  /\ UNCHANGED <<program, programText>>

(* A junk line, or an instruction the full program has no room for.        *)
LostLine(line) ==
  /\ \/ line \in JunkLines
     \/ IsInstruction(line) /\ Len(program) >= MaxProgram
  /\ UNCHANGED <<program, programText, headerError>>

TakeLine(line) ==
  /\ \/ Accepted(line)
     \/ RefusedHeader(line)
     \/ LostLine(line)
  /\ UNCHANGED <<pc, state, vsp, stored, callStack, mission, active, actuators,
                 loading, saved, loopVars, manual, intruded>>

ProgramLine(line) ==
  /\ phase = "pump" /\ loading /\ Len(programText) < MaxText
  /\ TakeLine(line)
  /\ UNCHANGED replay

(* ".": a program whose header or check fails is not kept.                 *)
RefuseKeepingText ==
  /\ ClearProgram
  /\ UNCHANGED programText

RefuseProgram ==
  /\ ClearProgram
  /\ programText' = << >>

MayRun == ~headerError /\ Checks(programText)

EndLoad ==
  /\ phase = "pump" /\ loading
  /\ loading' = FALSE /\ headerError' = FALSE
  /\ \/ MayRun /\ UNCHANGED <<vmVars, programText>>
     \/ ~MayRun /\ RefuseProgram
  /\ UNCHANGED <<actuators, saved, replay, loopVars, manual, intruded>>

(* loadProgramText: the saved text goes through the same lines and the     *)
(* same check; then a program that has instructions starts.                *)
BootLine ==
  /\ phase = "boot" /\ replay # << >>
  /\ TakeLine(Head(replay))
  /\ replay' = Tail(replay)

BootEnd ==
  /\ phase = "boot" /\ replay = << >>
  /\ headerError' = FALSE /\ phase' = "pump"
  /\ \/ /\ MayRun /\ program # << >>
        /\ Start
        /\ UNCHANGED programText
     \/ /\ MayRun /\ program = << >>
        /\ UNCHANGED <<vmVars, actuators, programText>>
     \/ /\ ~MayRun
        /\ RefuseProgram
        /\ UNCHANGED actuators
  /\ UNCHANGED <<loading, saved, replay, services, budget, manual, intruded>>

Run ==
  /\ phase = "pump" /\ ~loading
  /\ Start
  /\ UNCHANGED <<loadVars, saved, loopVars, history>>

(* STOP, and OVERRIDE STOP.                                                *)
Stop ==
  /\ phase = "pump" /\ ~loading
  /\ StopVM
  /\ manual' = FALSE
  /\ UNCHANGED <<loadVars, saved, loopVars, intruded>>

(* SAVE writes the slot; one with nothing to save, or whose write fails,   *)
(* answers an ERROR and changes nothing.                                   *)
Save ==
  /\ phase = "pump" /\ ~loading
  /\ programText # << >> /\ Len(programText) <= StoreSize
  /\ saved' = programText
  /\ UNCHANGED <<vmVars, actuators, loadVars, loopVars, history>>

Clear ==
  /\ phase = "pump" /\ ~loading
  /\ saved' = << >>
  /\ UNCHANGED <<vmVars, actuators, loadVars, loopVars, history>>

(* OVERRIDE <instr>: one instruction now, whatever the VM is doing.        *)
Override(in) ==
  /\ phase = "pump" /\ ~loading
  /\ Exec(in, pc)
  /\ manual' = (in.op # "HALT" /\ (manual \/ (Parked /\ in.op \in {"MOVE", "TONE"})))
  /\ intruded' = TRUE
  /\ UNCHANGED <<loadVars, saved, loopVars>>
-----------------------------------------------------------------------------
(* runtime::tick: drive the services a program wants, then VM::tick up to  *)
(* the step loop.  A due WAIT and a mission without an object go on to it. *)
ResumesUnlessMission == state \in {"RUNNING", "WAITING"}
Resumes == \/ state = "RUNNING"
           \/ state = "WAITING"
           \/ state = "RUNNING_MISSION" /\ mission = NoMission

TickToSteps ==
  /\ phase = "pump" /\ Resumes
  /\ state' = "RUNNING"
  /\ phase' = "steps" /\ budget' = StepsPerTick
  /\ services' = active
  /\ UNCHANGED <<program, pc, vsp, stored, callStack, mission, active, actuators,
                 loadVars, saved, history>>

(* A tick that stays out of the step loop: a WAIT not due, a VM at rest.   *)
TickIdle ==
  /\ phase = "pump" /\ state \in {"WAITING", "IDLE", "STOPPED"}
  /\ services' = active
  /\ UNCHANGED <<vmVars, actuators, loadVars, saved, phase, budget, history>>

TickMission ==
  /\ phase = "pump" /\ state = "RUNNING_MISSION" /\ mission # NoMission
  /\ MissionTick
  /\ services' = active
  /\ UNCHANGED <<loadVars, saved, phase, budget, history>>

(* One turn of the step loop, which ends at its budget or when the program *)
(* no longer runs.                                                         *)
StepForever ==
  /\ phase = "steps" /\ budget > 0
  /\ RunOffEnd \/ StepProgram
  /\ IF state' = "RUNNING" THEN UNCHANGED <<phase, budget>>
     ELSE phase' = "pump" /\ budget' = 0
  /\ manual' = (manual /\ ~(state' = "STOPPED"))
  /\ UNCHANGED <<loadVars, saved, services, intruded>>

StepTick ==
  /\ phase = "steps" /\ budget > 0
  /\ RunOffEnd \/ StepProgram
  /\ IF budget > 1 /\ state' = "RUNNING"
     THEN phase' = "steps" /\ budget' = budget - 1
     ELSE phase' = "pump" /\ budget' = 0
  /\ manual' = (manual /\ ~(state' = "STOPPED"))
  /\ UNCHANGED <<loadVars, saved, services, intruded>>
-----------------------------------------------------------------------------
Command ==
  \/ Load
  \/ \E line \in Lines : ProgramLine(line)
  \/ EndLoad
  \/ Run
  \/ Stop
  \/ Save
  \/ Clear
  \/ \E in \in Overrides : Override(in)

Tick == TickToSteps \/ TickIdle \/ TickMission \/ StepTick

Next == Command \/ Tick \/ BootLine \/ BootEnd \/ PowerCycle

Spec == Init /\ [][Next]_vars

(* The loop is the only thread, never blocks on the VM and ticks it again  *)
(* and again.  Whether a WAIT is due TickToSteps leaves open, so of the    *)
(* waiting VM nothing is asked.                                            *)
Fairness == WF_vars(StepTick) /\ WF_vars(TickToSteps /\ state # "WAITING")
FairSpec == Spec /\ Fairness
-----------------------------------------------------------------------------
(* The shape of the state: the VM's stacks stay within their arrays and    *)
(* its registers within their domains, whatever a program or an OVERRIDE   *)
(* does (vm.cpp's push, pop and GOSUB bounds).                             *)
TypeOK ==
  /\ program \in Seq(Instructions) /\ Len(program) <= MaxProgram
  /\ pc \in Int
  /\ state \in {"IDLE", "RUNNING", "WAITING", "RUNNING_MISSION", "STOPPED"}
  /\ vsp \in 0 .. ValueStackSize
  /\ stored \subseteq Int
  /\ callStack \in Seq(Int) /\ Len(callStack) <= CallStackSize
  /\ mission \in Missions \cup {NoMission}
  /\ active \subseteq Models
  /\ motors \in Int
  /\ tones \subseteq Buzzers
  /\ loading \in BOOLEAN /\ headerError \in BOOLEAN
  /\ programText \in Seq(Instructions \cup GoodHeaders)
  /\ saved \in Seq(Instructions \cup GoodHeaders)
  /\ replay \in Seq(Instructions \cup GoodHeaders)
  /\ services \subseteq Models
  /\ phase \in {"boot", "pump", "steps"}
  /\ budget \in 0 .. StepsPerTick
  /\ manual \in BOOLEAN /\ intruded \in BOOLEAN

(* A VM that does not run drives nothing: however the program ended (STOP, *)
(* LOAD, HALT, the end of the program, a full call stack), the motors are  *)
(* at zero and every buzzer is silent, unless an OVERRIDE has since driven *)
(* one on the parked VM (vm.cpp stopActuators and its callers).            *)
ParkedIsQuiet == Parked /\ ~manual => motors = 0 /\ tones = {}

(* A load in progress, by LOAD or by the autorun, finds the VM as a new    *)
(* one: idle, quiet, no mission, no service wanted, no value, variable or  *)
(* return address of the last program (LOAD and init in runtime.cpp,       *)
(* VM::clearProgram).                                                      *)
LoadingIsFresh ==
  loading \/ phase = "boot" =>
    /\ state = "IDLE" /\ pc = 0 /\ motors = 0 /\ tones = {}
    /\ vsp = 0 /\ stored = {} /\ callStack = << >>
    /\ mission = NoMission /\ active = {} /\ ~intruded

(* Outside a load the text of accepted lines is empty or passed the check, *)
(* and so did the text in the store (runtime.cpp "." and SAVE).  A line of *)
(* the load that no parser took is not in either.                          *)
OnlyCheckedKept ==
  /\ ~loading /\ phase # "boot" /\ programText # << >> => Checks(programText)
  /\ saved # << >> => Checks(saved)

(* The autorun reruns what was saved: the boot takes every line of the     *)
(* stored text again, whatever loads, refusals and power cuts came before  *)
(* the SAVE, so it starts the saved program whole (loadProgramText).       *)
AutorunReplaysSaved ==
  phase = "boot" => programText \o replay = saved /\ ~headerError

(* Return addresses are call sites: without OVERRIDEs each entry of the    *)
(* call stack follows a GOSUB of the program loaded now, across STOP and   *)
(* RUN, which leave the call stack as it is (vm.cpp GOSUB, RET).           *)
ReturnsToCallSites ==
  ~intruded => \A i \in 1 .. Len(callStack) :
                 /\ callStack[i] \in 1 .. Len(program)
                 /\ program[callStack[i]].op = "GOSUB"

(* Without OVERRIDEs a VM in a mission has one, the one the CALL just      *)
(* before pc names (vm.cpp CALL and the mission branch of VM::tick).       *)
MissionRunsItsCall ==
  ~intruded /\ state = "RUNNING_MISSION" =>
    /\ mission \in Missions
    /\ pc \in 1 .. Len(program)
    /\ program[pc].op = "CALL" /\ program[pc].name = mission

(* A mission that is forgotten ends: an OVERRIDE CALL of an unknown id     *)
(* takes the VM's mission away while the program is in it; the program is  *)
(* not left in a mission for ever (vm.cpp CALL, and the nullptr test of    *)
(* VM::tick).                                                              *)
LostMissionEnds ==
  (state = "RUNNING_MISSION" /\ mission = NoMission)
    ~> (state # "RUNNING_MISSION" \/ mission # NoMission)

(* The step loop always gives the loop back: no program, not even one that *)
(* jumps to itself, keeps the VM from the serial link (STEPS_PER_TICK).    *)
TickEnds == phase = "steps" ~> phase # "steps"

(* Claimed, and not so: a program that has ended holds no service          *)
(* (runtime.cpp 379-380 "while a running program wants the model").        *)
EndedProgramHoldsNoService == Parked /\ ~intruded => active = {}
=============================================================================
