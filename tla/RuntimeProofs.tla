---------------------------- MODULE RuntimeProofs ----------------------------
(***************************************************************************)
(* Proofs about Runtime, for every program, board and size of the stacks.  *)
(* TypeOK is inductive as it stands.  The other invariants need each other *)
(* and one more fact, StepsRun: the step loop only turns while the VM      *)
(* runs.  Inv is their conjunction.                                        *)
(***************************************************************************)
EXTENDS Runtime, FiniteSetTheorems, SequenceTheorems, TLAPS

USE SizesAssumption, MissionsAssumption, LinesAssumption

(* TypeOK in the parts a step may disturb separately.                      *)
VMType ==
  /\ program \in Seq(Instructions) /\ Len(program) <= MaxProgram
  /\ pc \in Int
  /\ state \in {"IDLE", "RUNNING", "WAITING", "RUNNING_MISSION", "STOPPED"}
  /\ vsp \in 0 .. ValueStackSize
  /\ stored \subseteq Int
  /\ callStack \in Seq(Int) /\ Len(callStack) <= CallStackSize
  /\ mission \in Missions \cup {NoMission}
  /\ active \subseteq Models
ActuatorType == motors \in Int /\ tones \subseteq Buzzers
TextType ==
  /\ programText \in Seq(Instructions \cup GoodHeaders)
  /\ saved \in Seq(Instructions \cup GoodHeaders)
  /\ replay \in Seq(Instructions \cup GoodHeaders)
LoopType ==
  /\ services \subseteq Models
  /\ phase \in {"boot", "pump", "steps"}
  /\ budget \in 0 .. StepsPerTick
FlagType ==
  /\ loading \in BOOLEAN /\ headerError \in BOOLEAN
  /\ manual \in BOOLEAN /\ intruded \in BOOLEAN

AllTyped == VMType /\ ActuatorType /\ TextType /\ LoopType /\ FlagType

LEMMA TypeParts == (TypeOK <=> AllTyped) /\ (TypeOK' <=> AllTyped')
  BY DEF TypeOK, AllTyped, VMType, ActuatorType, TextType, LoopType, FlagType

LEMMA StackAfterType ==
  ASSUME NEW op, NEW d \in 0 .. ValueStackSize
  PROVE  StackAfter(op, d) \in 0 .. ValueStackSize
<1>1. \A e \in 0 .. ValueStackSize : /\ Pushed(e) \in 0 .. ValueStackSize
                                     /\ Popped(e) \in 0 .. ValueStackSize
  BY DEF Pushed, Popped
<1> QED
  BY <1>1 DEF StackAfter

LEMMA ToneType ==
  ASSUME ActuatorType
  PROVE  /\ \A name : ToneOn(name) \subseteq Buzzers /\ ToneOff(name) \subseteq Buzzers
         /\ \A t \in Silenced \cup Sounded : t \subseteq Buzzers
  BY DEF ActuatorType, ToneOn, ToneOff, Silenced, Sounded, Buzzers

(* What GOSUB and RET make of the call stack.                              *)
LEMMA Pushing ==
  ASSUME NEW S, NEW s \in Seq(S), NEW e \in S, Len(s) < CallStackSize
  PROVE  Append(s, e) \in Seq(S) /\ Len(Append(s, e)) <= CallStackSize
<1>1. Append(s, e) \in Seq(S) /\ Len(Append(s, e)) = Len(s) + 1 /\ Len(s) \in Nat
  BY AppendProperties, LenProperties
<1> QED
  BY <1>1, SizesAssumption

LEMMA Popping ==
  ASSUME NEW S, NEW s \in Seq(S), Len(s) \in Nat \ {0}
  PROVE  /\ SubSeq(s, 1, Len(s) - 1) \in Seq(S)
         /\ Len(SubSeq(s, 1, Len(s) - 1)) = Len(s) - 1
         /\ \A i \in 1 .. Len(s) - 1 : SubSeq(s, 1, Len(s) - 1)[i] = s[i]
<1>1. \A i \in 1 .. Len(s) - 1 : s[i] \in S
  BY ElementOfSeq
<1>2. PICK n \in Nat : n = Len(s) - 1
  OBVIOUS
<1>3. /\ SubSeq(s, 1, n) \in Seq(S)
      /\ Len(SubSeq(s, 1, n)) = n
      /\ \A i \in 1 .. n : SubSeq(s, 1, n)[i] = s[i]
  BY <1>1, <1>2, SubSeqProperties
<1> QED
  BY <1>2, <1>3, Zenon

(* One instruction keeps the VM's registers within their arrays.           *)
LEMMA ExecType ==
  ASSUME VMType, ActuatorType, NEW in \in Instruction, NEW next \in Int,
         Exec(in, next)
  PROVE  VMType' /\ ActuatorType'
<1> USE DEF VMType, ActuatorType
<1>0. in.a \in Int
  BY DEF Instruction
<1>1. CASE ExecData(in, next)
  BY <1>1, StackAfterType DEF ExecData
<1>2. CASE ExecStore(in, next)
  <2>1. stored' \subseteq Int
    BY <1>2, <1>0 DEF ExecStore
  <2> QED
    BY <2>1, <1>2 DEF ExecStore, Popped
<1>3. CASE ExecMove(in, next)
  BY <1>3, <1>0 DEF ExecMove
<1>4. CASE ExecTone(in, next)
  BY <1>4, ToneType DEF ExecTone
<1>5. CASE ExecWait(in, next)
  BY <1>5 DEF ExecWait
<1>6. CASE ExecJmp(in)
  BY <1>6, <1>0 DEF ExecJmp
<1>7. CASE ExecJz(in, next)
  BY <1>7, <1>0 DEF ExecJz, Popped
<1>8. CASE ExecHalt(in, next)
  BY <1>8 DEF ExecHalt, StopActuators
<1>9. CASE ExecCall(in, next)
  BY <1>9, ToneType DEF ExecCall
<1>10. CASE ExecGosub(in, next)
  <2>1. callStack' \in Seq(Int) /\ Len(callStack') <= CallStackSize
    <3>1. \/ callStack' = callStack
          \/ Len(callStack) < CallStackSize /\ callStack' = Append(callStack, next)
      BY <1>10 DEF ExecGosub
    <3>2. callStack \in Seq(Int) /\ Len(callStack) <= CallStackSize
      OBVIOUS
    <3>3. Len(callStack) < CallStackSize =>
            Append(callStack, next) \in Seq(Int) /\ Len(Append(callStack, next)) <= CallStackSize
      BY <3>2, Pushing
    <3> QED
      BY <3>1, <3>2, <3>3, Zenon
  <2> QED
    BY <2>1, <1>10, <1>0 DEF ExecGosub, StopActuators
<1>11. CASE ExecRet(in, next)
  <2>1. CASE callStack # << >>
    <3>1. Len(callStack) \in 1 .. CallStackSize
      BY <2>1, EmptySeq, LenProperties
    <3>2. callStack[Len(callStack)] \in Int
      BY <3>1, ElementOfSeq
    <3>3. callStack' = SubSeq(callStack, 1, Len(callStack) - 1)
      BY <1>11, <2>1 DEF ExecRet
    <3>4. callStack' \in Seq(Int) /\ Len(callStack') = Len(callStack) - 1
      BY <3>1, <3>3, Popping
    <3> QED
      BY <1>11, <2>1, <3>1, <3>2, <3>4 DEF ExecRet
  <2>2. CASE callStack = << >>
    BY <1>11, <2>2 DEF ExecRet
  <2> QED
    BY <2>1, <2>2
<1>12. CASE ExecModel(in, next)
  <2>1. active' \subseteq Models
    BY <1>12 DEF ExecModel, ModelOf, Models
  <2> QED
    BY <2>1, <1>12 DEF ExecModel, Pushed
<1> QED
  BY <1>1, <1>2, <1>3, <1>4, <1>5, <1>6, <1>7, <1>8, <1>9, <1>10, <1>11, <1>12
  DEF Exec
-----------------------------------------------------------------------------
LEMMA InitType == Init => TypeOK
<1> SUFFICES ASSUME Init PROVE AllTyped
  BY TypeParts
<1>1. /\ << >> \in Seq(Instructions) /\ << >> \in Seq(Int)
      /\ << >> \in Seq(Instructions \cup GoodHeaders) /\ Len(<< >>) = 0
  BY EmptySeq
<1>2. VMType /\ ActuatorType /\ TextType
  BY <1>1 DEF Init, VMType, ActuatorType, TextType
<1>3. LoopType
  BY DEF Init, LoopType
<1>4. FlagType
  BY DEF Init, FlagType
<1> QED
  BY <1>2, <1>3, <1>4 DEF AllTyped

LEMMA ClearedType ==
  ASSUME ClearProgram PROVE VMType'
<1>1. << >> \in Seq(Instructions) /\ << >> \in Seq(Int) /\ Len(<< >>) = 0
  BY EmptySeq
<1> QED
  BY <1>1 DEF VMType, ClearProgram

LEMMA QuietType ==
  ASSUME StopActuators PROVE ActuatorType'
  BY DEF StopActuators, ActuatorType

LEMMA SameVM ==
  ASSUME VMType, UNCHANGED vmVars PROVE VMType'
  BY DEF VMType, vmVars

LEMMA SameActuators ==
  ASSUME ActuatorType, UNCHANGED actuators PROVE ActuatorType'
  BY DEF ActuatorType, actuators

LEMMA StartType ==
  ASSUME VMType, ActuatorType, Start PROVE VMType' /\ ActuatorType'
  BY DEF VMType, ActuatorType, Start

(* A line that is accepted is an instruction or a good header.             *)
LEMMA LineType ==
  ASSUME AllTyped, NEW line \in Lines, TakeLine(line)
  PROVE  /\ VMType' /\ ActuatorType' /\ FlagType'
         /\ programText' \in Seq(Instructions \cup GoodHeaders)
<1>1. ActuatorType' /\ FlagType'
  BY DEF AllTyped, ActuatorType, FlagType, actuators, TakeLine, Accepted,
         RefusedHeader, LostLine
<1>2. /\ program' \in Seq(Instructions) /\ Len(program') <= MaxProgram
      /\ programText' \in Seq(Instructions \cup GoodHeaders)
  <2>1. CASE Accepted(line) /\ IsInstruction(line) /\ Len(program) < MaxProgram
                            /\ program' = Append(program, line)
    <3>1. line \in Instructions /\ line \in Instructions \cup GoodHeaders
      BY <2>1 DEF IsInstruction
    <3>2. programText' \in Seq(Instructions \cup GoodHeaders)
      BY <2>1, <3>1, AppendProperties DEF Accepted, AllTyped, TextType
    <3>3. program' \in Seq(Instructions) /\ Len(program') = Len(program) + 1
      BY <2>1, <3>1, AppendProperties DEF AllTyped, VMType
    <3> QED
      BY <2>1, <3>2, <3>3 DEF AllTyped, VMType
  <2>2. CASE Accepted(line) /\ line \in GoodHeaders /\ program' = program
    <3>1. line \in Instructions \cup GoodHeaders
      BY <2>2
    <3> QED
      BY <2>2, <3>1, AppendProperties DEF Accepted, AllTyped, TextType, VMType
  <2>3. CASE RefusedHeader(line) \/ LostLine(line)
    BY <2>3 DEF RefusedHeader, LostLine, AllTyped, VMType, TextType
  <2> QED
    BY <2>1, <2>2, <2>3 DEF TakeLine, Accepted
<1> QED
  BY <1>1, <1>2 DEF AllTyped, VMType, TakeLine

LEMMA CommandType == TypeOK /\ Command => TypeOK'
<1> SUFFICES ASSUME AllTyped, Command PROVE AllTyped'
  BY TypeParts
<1> USE DEF AllTyped
<1>0. << >> \in Seq(Instructions \cup GoodHeaders)
  BY EmptySeq
<1>1. CASE Load
  BY <1>1, <1>0, ClearedType, QuietType DEF Load, TextType, LoopType, FlagType, loopVars
<1>2. CASE \E line \in Lines : ProgramLine(line)
  <2>1. PICK line \in Lines : ProgramLine(line)
    BY <1>2
  <2>2. VMType' /\ ActuatorType' /\ FlagType'
        /\ programText' \in Seq(Instructions \cup GoodHeaders)
    BY <2>1, LineType DEF ProgramLine
  <2> QED
    BY <2>1, <2>2 DEF ProgramLine, TakeLine, TextType, LoopType, loopVars
<1>3. CASE EndLoad
  <2>1. VMType'
    BY <1>3, ClearedType, SameVM DEF EndLoad, RefuseProgram
  <2>2. FlagType'
    BY <1>3 DEF EndLoad, RefuseProgram, FlagType
  <2>3. TextType'
    BY <1>3, <1>0 DEF EndLoad, RefuseProgram, TextType
  <2> QED
    BY <1>3, <2>1, <2>2, <2>3, SameActuators DEF EndLoad, LoopType, loopVars
<1>4. CASE Run
  BY <1>4, StartType DEF Run, TextType, LoopType, FlagType, loadVars, loopVars, history
<1>5. CASE Stop
  <2>1. VMType' /\ ActuatorType'
    BY <1>5, QuietType DEF Stop, StopVM, VMType
  <2> QED
    BY <1>5, <2>1 DEF Stop, TextType, LoopType, FlagType, loadVars, loopVars
<1>6. CASE Save \/ Clear
  <2>1. VMType' /\ ActuatorType'
    BY <1>6, SameVM, SameActuators DEF Save, Clear
  <2> QED
    BY <1>6, <2>1, <1>0
    DEF Save, Clear, TextType, LoopType, FlagType, loadVars, loopVars, history
<1>7. CASE \E in \in Overrides : Override(in)
  <2>1. PICK in \in Overrides : Override(in)
    BY <1>7
  <2>2. VMType' /\ ActuatorType'
    BY <2>1, ExecType DEF Override, VMType
  <2>3. FlagType'
    BY <2>1, Zenon DEF Override, FlagType, loadVars
  <2> QED
    BY <2>1, <2>2, <2>3 DEF Override, TextType, LoopType, loadVars, loopVars
<1> QED
  BY <1>1, <1>2, <1>3, <1>4, <1>5, <1>6, <1>7 DEF Command

LEMMA FetchType ==
  ASSUME VMType, ~AtEnd
  PROVE  /\ pc + 1 \in 1 .. Len(program)
         /\ program[pc + 1] \in Instructions
<1>1. pc + 1 \in 1 .. Len(program)
  BY LenProperties DEF VMType, AtEnd
<1> QED
  BY <1>1, ElementOfSeq DEF VMType

LEMMA TickType == TypeOK /\ Tick => TypeOK'
<1> SUFFICES ASSUME AllTyped, Tick PROVE AllTyped'
  BY TypeParts
<1> USE DEF AllTyped
<1>1. CASE TickToSteps
  BY <1>1, SameActuators
  DEF TickToSteps, VMType, TextType, LoopType, FlagType, loadVars, history
<1>2. CASE TickIdle
  BY <1>2, SameVM, SameActuators
  DEF TickIdle, VMType, TextType, LoopType, FlagType, loadVars, history
<1>3. CASE TickMission
  <2>1. VMType' /\ ActuatorType'
    BY <1>3, ToneType DEF TickMission, MissionTick, VMType, ActuatorType
  <2> QED
    BY <1>3, <2>1 DEF TickMission, VMType, TextType, LoopType, FlagType, loadVars, history
<1>4. CASE StepTick
  <2>1. VMType' /\ ActuatorType'
    <3>1. CASE RunOffEnd
      BY <3>1, QuietType DEF RunOffEnd, VMType
    <3>2. CASE StepProgram
      <4>1. program[pc + 1] \in Instruction /\ pc + 1 \in Int
        BY <3>2, FetchType DEF StepProgram, VMType
      <4> QED
        BY <3>2, <4>1, ExecType DEF StepProgram
    <3> QED
      BY <1>4, <3>1, <3>2 DEF StepTick
  <2>2. phase' \in {"boot", "pump", "steps"} /\ budget' \in 0 .. StepsPerTick
    BY <1>4 DEF StepTick, LoopType
  <2>3. FlagType'
    BY <1>4, Zenon DEF StepTick, FlagType, loadVars
  <2> QED
    BY <1>4, <2>1, <2>2, <2>3 DEF StepTick, TextType, LoopType, loadVars
<1> QED
  BY <1>1, <1>2, <1>3, <1>4 DEF Tick

LEMMA BootType == TypeOK /\ (BootLine \/ BootEnd \/ PowerCycle) => TypeOK'
<1> SUFFICES ASSUME AllTyped, BootLine \/ BootEnd \/ PowerCycle PROVE AllTyped'
  BY TypeParts
<1> USE DEF AllTyped
<1>0. << >> \in Seq(Instructions \cup GoodHeaders)
  BY EmptySeq
<1>1. CASE BootLine
  <2>1. /\ Head(replay) \in Instructions \cup GoodHeaders
        /\ Tail(replay) \in Seq(Instructions \cup GoodHeaders)
    BY <1>1, HeadTailProperties DEF BootLine, TextType
  <2>2. Head(replay) \in Lines
    BY <2>1 DEF Lines
  <2>3. VMType' /\ ActuatorType' /\ FlagType'
        /\ programText' \in Seq(Instructions \cup GoodHeaders)
    BY <1>1, <2>2, LineType DEF BootLine
  <2> QED
    BY <1>1, <2>1, <2>3 DEF BootLine, TakeLine, TextType, LoopType, loopVars
<1>2. CASE BootEnd
  <2>1. VMType' /\ ActuatorType'
    <3>1. CASE Start
      BY <3>1, StartType
    <3>2. CASE UNCHANGED <<vmVars, actuators>>
      BY <3>2, SameVM, SameActuators
    <3>3. CASE RefuseProgram /\ UNCHANGED actuators
      BY <3>3, ClearedType, SameActuators DEF RefuseProgram
    <3> QED
      BY <1>2, <3>1, <3>2, <3>3 DEF BootEnd
  <2>2. TextType' /\ FlagType'
    BY <1>2, <1>0 DEF BootEnd, RefuseProgram, TextType, FlagType
  <2> QED
    BY <1>2, <2>1, <2>2 DEF BootEnd, LoopType
<1>3. CASE PowerCycle
  <2>1. VMType' /\ ActuatorType'
    BY <1>3, ClearedType, QuietType DEF PowerCycle
  <2>2. FlagType'
    BY <1>3 DEF PowerCycle, FlagType
  <2> QED
    BY <1>3, <1>0, <2>1, <2>2 DEF PowerCycle, TextType, LoopType
<1> QED
  BY <1>1, <1>2, <1>3

LEMMA TypeStep == TypeOK /\ [Next]_vars => TypeOK'
<1>1. TypeOK /\ UNCHANGED vars => TypeOK'
  BY DEF TypeOK, vars, vmVars, actuators, loadVars, loopVars, history
<1> QED
  BY <1>1, CommandType, TickType, BootType DEF Next

(* Whatever programs, OVERRIDEs and power cuts do, the VM's stacks stay    *)
(* within their arrays, its registers in their domains, and the text and   *)
(* the store hold accepted lines only (vm.cpp push, pop, GOSUB, RET).      *)
THEOREM TypeCorrect == Spec => []TypeOK
  BY InitType, TypeStep, PTL DEF Spec
-----------------------------------------------------------------------------
(* The step loop turns only while the VM runs: what makes the quiet of a   *)
(* parked VM inductive, since an instruction of the loop may drive a motor.*)
(* And the boot is over before a LOAD can come.                            *)
StepsRun == /\ phase = "steps" => state = "RUNNING"
            /\ phase = "boot" => ~loading

Inv == /\ TypeOK
       /\ StepsRun
       /\ LoadingIsFresh
       /\ ParkedIsQuiet
       /\ ReturnsToCallSites
       /\ MissionRunsItsCall

(* What one instruction does to the state of the VM and its actuators.     *)
LEMMA ExecParks ==
  ASSUME NEW in, NEW next, Exec(in, next)
  PROVE  \/ motors' = 0 /\ tones' = {}
         \/ state' = "WAITING"
         \/ state' = "RUNNING_MISSION"
         \/ state' = state /\ motors' = motors /\ tones' = tones
         \/ state' = state /\ in.op \in {"MOVE", "TONE"}
<1>1. CASE ExecData(in, next) \/ ExecStore(in, next) \/ ExecMove(in, next)
           \/ ExecTone(in, next) \/ ExecWait(in, next) \/ ExecJmp(in)
  BY <1>1 DEF ExecData, ExecStore, ExecMove, ExecTone, ExecWait, ExecJmp
<1>2. CASE ExecJz(in, next) \/ ExecHalt(in, next) \/ ExecCall(in, next)
           \/ ExecGosub(in, next) \/ ExecRet(in, next) \/ ExecModel(in, next)
  BY <1>2 DEF ExecJz, ExecHalt, ExecCall, ExecGosub, ExecRet, ExecModel, StopActuators
<1> QED
  BY <1>1, <1>2 DEF Exec

(* Only a CALL of a known mission puts the VM in a mission.                *)
LEMMA ExecCalls ==
  ASSUME NEW in, NEW next, Exec(in, next), state = "RUNNING",
         state' = "RUNNING_MISSION"
  PROVE  in.op = "CALL" /\ in.name \in Missions /\ mission' = in.name /\ pc' = next
<1>1. ExecCall(in, next)
  BY DEF Exec, ExecData, ExecStore, ExecMove, ExecTone, ExecWait, ExecJmp, ExecJz,
         ExecHalt, ExecGosub, ExecRet, ExecModel
<1> QED
  BY <1>1 DEF ExecCall

(* What one instruction does to the call stack.                            *)
LEMMA ExecStacks ==
  ASSUME NEW in, NEW next, Exec(in, next)
  PROVE  /\ program' = program
         /\ \/ callStack' = callStack
            \/ in.op = "GOSUB" /\ callStack' = Append(callStack, next)
            \/ /\ callStack # << >>
               /\ callStack' = SubSeq(callStack, 1, Len(callStack) - 1)
<1>1. CASE ExecData(in, next) \/ ExecStore(in, next) \/ ExecMove(in, next)
           \/ ExecTone(in, next) \/ ExecWait(in, next) \/ ExecJmp(in)
  BY <1>1 DEF ExecData, ExecStore, ExecMove, ExecTone, ExecWait, ExecJmp
<1>2. CASE ExecJz(in, next) \/ ExecHalt(in, next) \/ ExecCall(in, next)
           \/ ExecGosub(in, next) \/ ExecRet(in, next) \/ ExecModel(in, next)
  BY <1>2 DEF ExecJz, ExecHalt, ExecCall, ExecGosub, ExecRet, ExecModel
<1> QED
  BY <1>1, <1>2 DEF Exec

LEMMA StepsRunStep == Inv /\ [Next]_vars => StepsRun'
<1> SUFFICES ASSUME Inv, [Next]_vars PROVE StepsRun'
  OBVIOUS
<1>1. CASE StepTick \/ TickToSteps
  BY <1>1 DEF StepTick, TickToSteps, StepsRun
<1>2. CASE phase' = "pump"
  BY <1>2 DEF StepsRun
<1>3. CASE UNCHANGED vars
  BY <1>3 DEF vars, vmVars, loopVars, loadVars, StepsRun, Inv
<1>4. Command => phase = "pump" /\ phase' = phase
  BY DEF Command, Load, ProgramLine, TakeLine, EndLoad, Run, Stop, Save, Clear,
         Override, loopVars
<1>5. TickIdle \/ TickMission \/ BootEnd => phase' = "pump"
  BY DEF TickIdle, TickMission, BootEnd
<1>6. CASE BootLine \/ PowerCycle
  BY <1>6 DEF BootLine, TakeLine, PowerCycle, loopVars, StepsRun, Inv
<1> QED
  BY <1>1, <1>2, <1>3, <1>4, <1>5, <1>6 DEF Next, Tick

LEMMA FreshStep == Inv /\ [Next]_vars => LoadingIsFresh'
<1> SUFFICES ASSUME Inv, [Next]_vars PROVE LoadingIsFresh'
  OBVIOUS
<1> USE DEF LoadingIsFresh
<1>1. CASE UNCHANGED vars
  BY <1>1 DEF vars, vmVars, actuators, loadVars, loopVars, history, Inv
<1>2. CASE Load \/ PowerCycle
  BY <1>2 DEF Load, PowerCycle, ClearProgram, StopActuators
<1>3. CASE BootLine \/ \E line \in Lines : ProgramLine(line)
  BY <1>3 DEF BootLine, ProgramLine, TakeLine, actuators, loopVars, Inv
<1>4. CASE EndLoad \/ BootEnd
  <2>1. ~loading' /\ phase' = "pump"
    BY <1>4 DEF EndLoad, BootEnd, loopVars, Inv, StepsRun
  <2> QED
    BY <2>1
<1>5. CASE ~loading' /\ phase' # "boot"
  BY <1>5
<1>6. Run \/ Stop \/ Save \/ Clear \/ (\E in \in Overrides : Override(in))
        => ~loading' /\ phase' = "pump"
  BY DEF Run, Stop, Save, Clear, Override, loadVars, loopVars
<1>7. Tick /\ ~loading => ~loading' /\ phase' # "boot"
  BY DEF Tick, TickToSteps, TickIdle, TickMission, StepTick, loadVars
<1>8. CASE Tick /\ loading
  <2>1. state = "IDLE" /\ phase # "steps"
    BY <1>8 DEF Inv, StepsRun
  <2> QED
    BY <1>8, <2>1
    DEF Tick, TickToSteps, TickIdle, TickMission, StepTick, Resumes, vmVars,
        actuators, loadVars, history, Inv
<1> QED
  BY <1>1, <1>2, <1>3, <1>4, <1>5, <1>6, <1>7, <1>8 DEF Next, Command

LEMMA QuietStep == Inv /\ [Next]_vars => ParkedIsQuiet'
<1> SUFFICES ASSUME Inv, [Next]_vars PROVE ParkedIsQuiet'
  OBVIOUS
<1> USE DEF ParkedIsQuiet, Parked
<1>1. CASE UNCHANGED vars
  BY <1>1 DEF vars, vmVars, actuators, history, Inv
<1>2. CASE Load \/ PowerCycle \/ Stop
  BY <1>2 DEF Load, PowerCycle, Stop, StopVM, StopActuators
<1>3. CASE BootLine \/ \E line \in Lines : ProgramLine(line)
  BY <1>3 DEF BootLine, ProgramLine, TakeLine, actuators, Inv
<1>4. CASE EndLoad \/ BootEnd
  <2>1. motors = 0 /\ tones = {}
    BY <1>4 DEF EndLoad, BootEnd, LoadingIsFresh, Inv
  <2> QED
    BY <1>4, <2>1 DEF EndLoad, BootEnd, Start, actuators
<1>5. CASE Run \/ TickToSteps
  BY <1>5 DEF Run, Start, TickToSteps
<1>6. CASE Save \/ Clear \/ TickIdle
  BY <1>6 DEF Save, Clear, TickIdle, vmVars, actuators, history, Inv
<1>7. CASE \E in \in Overrides : Override(in)
  <2>1. PICK in \in Overrides : Override(in)
    BY <1>7
  <2>2. CASE motors' = 0 /\ tones' = {}
    BY <2>2
  <2>3. CASE state' = "WAITING" \/ state' = "RUNNING_MISSION"
    BY <2>3
  <2>4. CASE state' = state /\ in.op \in {"MOVE", "TONE"}
    BY <2>1, <2>4 DEF Override
  <2>5. CASE state' = state /\ motors' = motors /\ tones' = tones
    <3>1. Exec(in, pc) /\ (manual /\ in.op # "HALT" => manual')
      BY <2>1 DEF Override
    <3>2. CASE in.op = "HALT"
      BY <2>1, <3>2 DEF Override, Exec, ExecData, DataOps, PushOps, UnaryOps,
        BinaryOps, DropOps, PixelOps, QuietOps, ExecStore, ExecMove, ExecTone, ExecWait,
        ExecJmp, ExecJz, ExecHalt, ExecCall, ExecGosub, ExecRet, ExecModel, StopActuators
    <3> QED
      BY <2>5, <3>1, <3>2 DEF Inv
  <2> QED
    BY <2>1, <2>2, <2>3, <2>4, <2>5, ExecParks DEF Override
<1>8. CASE TickMission
  BY <1>8 DEF TickMission, MissionTick
<1>9. CASE StepTick
  <2>1. state = "RUNNING" /\ (RunOffEnd \/ Exec(program[pc + 1], pc + 1))
    BY <1>9 DEF StepTick, StepProgram, Inv, StepsRun
  <2>2. CASE RunOffEnd
    BY <2>2 DEF RunOffEnd, StopActuators
  <2>3. CASE Exec(program[pc + 1], pc + 1)
    BY <2>1, <2>3, ExecParks
  <2> QED
    BY <2>1, <2>2, <2>3
<1> QED
  BY <1>1, <1>2, <1>3, <1>4, <1>5, <1>6, <1>7, <1>8, <1>9 DEF Next, Command, Tick

(* The call stack and the program change together only where the call      *)
(* stack is empty: lines are taken while the VM is fresh.                  *)
LEMMA ReturnsStep == Inv /\ [Next]_vars => ReturnsToCallSites'
<1> SUFFICES ASSUME Inv, [Next]_vars PROVE ReturnsToCallSites'
  OBVIOUS
<1> DEFINE Same == program' = program /\ callStack' = callStack /\ intruded' = intruded
<1>1. CASE Same
  BY <1>1 DEF ReturnsToCallSites, Inv
<1>2. CASE callStack' = << >>
  BY <1>2, EmptySeq DEF ReturnsToCallSites
<1>3. CASE UNCHANGED vars
  BY <1>1, <1>3 DEF vars, vmVars, history
<1>4. CASE Load \/ PowerCycle
  BY <1>2, <1>4 DEF Load, PowerCycle, ClearProgram
<1>5. CASE BootLine \/ \E line \in Lines : ProgramLine(line)
  BY <1>2, <1>5 DEF BootLine, ProgramLine, TakeLine, LoadingIsFresh, Inv
<1>6. CASE EndLoad \/ BootEnd
  BY <1>1, <1>2, <1>6
  DEF EndLoad, BootEnd, RefuseProgram, ClearProgram, Start, vmVars
<1>7. CASE Run \/ Stop \/ Save \/ Clear
  BY <1>1, <1>7 DEF Run, Start, Stop, StopVM, Save, Clear, vmVars, history
<1>8. CASE \E in \in Overrides : Override(in)
  BY <1>8 DEF Override, ReturnsToCallSites
<1>9. CASE TickToSteps \/ TickIdle \/ TickMission
  BY <1>1, <1>9 DEF TickToSteps, TickIdle, TickMission, MissionTick, vmVars, history
<1>10. CASE StepTick
  <2>1. CASE RunOffEnd
    BY <1>1, <1>10, <2>1 DEF StepTick, RunOffEnd
  <2>2. CASE StepProgram
    <3> DEFINE in == program[pc + 1]
    <3>1. /\ program' = program /\ intruded' = intruded
          /\ pc + 1 \in 1 .. Len(program)
          /\ callStack \in Seq(Int)
      BY <1>10, <2>2, FetchType, ExecStacks, TypeParts
      DEF StepTick, StepProgram, Inv, AllTyped, VMType
    <3>2. CASE callStack' = callStack
      BY <1>1, <3>1, <3>2
    <3>3. CASE in.op = "GOSUB" /\ callStack' = Append(callStack, pc + 1)
      <4>1. /\ Len(callStack') = Len(callStack) + 1
            /\ \A i \in 1 .. Len(callStack) : callStack'[i] = callStack[i]
            /\ callStack'[Len(callStack) + 1] = pc + 1
        BY <3>1, <3>3, AppendProperties
      <4>2. ASSUME ~intruded', NEW i \in 1 .. Len(callStack')
            PROVE  /\ callStack'[i] \in 1 .. Len(program')
                   /\ program'[callStack'[i]].op = "GOSUB"
        <5>1. CASE i = Len(callStack) + 1
          BY <3>1, <3>3, <4>1, <5>1
        <5>2. CASE i \in 1 .. Len(callStack)
          BY <3>1, <4>1, <4>2, <5>2 DEF ReturnsToCallSites, Inv
        <5> QED
          BY <3>1, <4>1, <5>1, <5>2, LenProperties
      <4> QED
        BY <4>2 DEF ReturnsToCallSites
    <3>4. CASE /\ callStack # << >>
               /\ callStack' = SubSeq(callStack, 1, Len(callStack) - 1)
      <4>1. Len(callStack) \in Nat \ {0}
        BY <3>1, <3>4, EmptySeq
      <4>2. /\ Len(callStack') = Len(callStack) - 1
            /\ \A i \in 1 .. Len(callStack) - 1 : callStack'[i] = callStack[i]
        BY <3>1, <3>4, <4>1, Popping
      <4> QED
        BY <3>1, <4>1, <4>2 DEF ReturnsToCallSites, Inv
    <3> QED
      BY <2>2, <3>2, <3>3, <3>4, ExecStacks DEF StepProgram
  <2> QED
    BY <1>10, <2>1, <2>2 DEF StepTick
<1> QED
  BY <1>3, <1>4, <1>5, <1>6, <1>7, <1>8, <1>9, <1>10 DEF Next, Command, Tick

LEMMA MissionStep == Inv /\ [Next]_vars => MissionRunsItsCall'
<1> SUFFICES ASSUME Inv, [Next]_vars PROVE MissionRunsItsCall'
  OBVIOUS
<1>1. CASE UNCHANGED <<program, pc, state, mission, intruded>>
  BY <1>1 DEF MissionRunsItsCall, Inv
<1>2. CASE state' \in {"IDLE", "RUNNING", "STOPPED"}
  BY <1>2 DEF MissionRunsItsCall
<1>3. CASE UNCHANGED vars
  BY <1>1, <1>3 DEF vars, vmVars, history
<1>4. CASE Load \/ PowerCycle \/ Run \/ Stop \/ TickToSteps
  BY <1>2, <1>4
  DEF Load, PowerCycle, ClearProgram, Run, Start, Stop, StopVM, TickToSteps
<1>5. CASE BootLine \/ \E line \in Lines : ProgramLine(line)
  BY <1>2, <1>5 DEF BootLine, ProgramLine, TakeLine, LoadingIsFresh, Inv
<1>6. CASE EndLoad \/ BootEnd
  BY <1>1, <1>2, <1>6
  DEF EndLoad, BootEnd, RefuseProgram, ClearProgram, Start, vmVars
<1>7. CASE Save \/ Clear \/ TickIdle \/ TickMission
  BY <1>1, <1>7 DEF Save, Clear, TickIdle, TickMission, MissionTick, vmVars, history
<1>8. CASE \E in \in Overrides : Override(in)
  BY <1>8 DEF Override, MissionRunsItsCall
<1>9. CASE StepTick
  <2>1. state = "RUNNING"
    BY <1>9 DEF StepTick, Inv, StepsRun
  <2>2. CASE RunOffEnd
    BY <1>2, <2>2 DEF RunOffEnd
  <2>3. CASE StepProgram /\ state' = "RUNNING_MISSION"
    <3>1. /\ program' = program
          /\ pc + 1 \in 1 .. Len(program)
      BY <2>3, FetchType, ExecStacks, TypeParts DEF StepProgram, Inv, AllTyped
    <3>2. /\ program[pc + 1].op = "CALL" /\ program[pc + 1].name \in Missions
          /\ mission' = program[pc + 1].name /\ pc' = pc + 1
      BY <2>1, <2>3, ExecCalls DEF StepProgram
    <3> QED
      BY <3>1, <3>2 DEF MissionRunsItsCall
  <2>4. CASE state' # "RUNNING_MISSION"
    BY <2>4 DEF MissionRunsItsCall
  <2> QED
    BY <1>9, <2>2, <2>3, <2>4 DEF StepTick
<1> QED
  BY <1>3, <1>4, <1>5, <1>6, <1>7, <1>8, <1>9 DEF Next, Command, Tick

LEMMA Invariance == Spec => []Inv
<1>1. Init => Inv
  BY InitType, EmptySeq DEF Init, Inv, StepsRun, LoadingIsFresh, ParkedIsQuiet,
     ReturnsToCallSites, MissionRunsItsCall
<1>2. Inv /\ [Next]_vars => Inv'
  BY TypeStep, StepsRunStep, FreshStep, QuietStep, ReturnsStep, MissionStep DEF Inv
<1> QED
  BY <1>1, <1>2, PTL DEF Spec

(* However a program ends, the motors are at zero and the buzzers silent   *)
(* until an OVERRIDE drives one (vm.cpp stopActuators and its callers).    *)
THEOREM Quiet == Spec => []ParkedIsQuiet
<1>1. Inv => ParkedIsQuiet
  BY DEF Inv
<1> QED
  BY Invariance, <1>1, PTL

(* A load always finds a fresh VM, and takes its lines before the program  *)
(* can run (runtime.cpp LOAD and init, VM::clearProgram).                  *)
THEOREM Fresh == Spec => []LoadingIsFresh
<1>1. Inv => LoadingIsFresh
  BY DEF Inv
<1> QED
  BY Invariance, <1>1, PTL

(* Without OVERRIDEs a RET returns after a GOSUB of the loaded program,    *)
(* whatever STOPs and RUNs came between (vm.cpp GOSUB and RET).            *)
THEOREM Returns == Spec => []ReturnsToCallSites
<1>1. Inv => ReturnsToCallSites
  BY DEF Inv
<1> QED
  BY Invariance, <1>1, PTL

(* Without OVERRIDEs the VM is in the mission of the CALL just before pc   *)
(* (vm.cpp CALL and the mission branch of VM::tick).                       *)
THEOREM MissionCalled == Spec => []MissionRunsItsCall
<1>1. Inv => MissionRunsItsCall
  BY DEF Inv
<1> QED
  BY Invariance, <1>1, PTL

(* No half program is kept, none is persisted: by "." and at boot only a   *)
(* checked text stays, and SAVE comes after (runtime.cpp "." and SAVE).    *)
THEOREM Checked == Spec => []OnlyCheckedKept
<1>1. Init => OnlyCheckedKept
  BY DEF Init, OnlyCheckedKept
<1>2. OnlyCheckedKept /\ [Next]_vars => OnlyCheckedKept'
  <2> SUFFICES ASSUME OnlyCheckedKept, [Next]_vars PROVE OnlyCheckedKept'
    OBVIOUS
  <2> USE DEF OnlyCheckedKept
  <2>1. CASE UNCHANGED <<loading, phase, programText, saved>>
    BY <2>1
  <2>2. CASE Load \/ PowerCycle \/ BootLine
    BY <2>2 DEF Load, PowerCycle, BootLine, TakeLine, loopVars
  <2>3. CASE \E line \in Lines : ProgramLine(line)
    BY <2>3 DEF ProgramLine, TakeLine, loopVars
  <2>4. CASE EndLoad \/ BootEnd
    BY <2>4 DEF EndLoad, BootEnd, MayRun, RefuseProgram
  <2>5. CASE Save
    BY <2>5 DEF Save, loadVars, loopVars
  <2>6. CASE Clear
    BY <2>6 DEF Clear, loadVars, loopVars
  <2>7. CASE Run \/ Stop \/ (\E in \in Overrides : Override(in)) \/ UNCHANGED vars
    BY <2>1, <2>7 DEF Run, Stop, Override, vars, loadVars, loopVars
  <2>8. CASE Tick
    BY <2>8 DEF Tick, TickToSteps, TickIdle, TickMission, StepTick, loadVars
  <2> QED
    BY <2>2, <2>3, <2>4, <2>5, <2>6, <2>7, <2>8 DEF Next, Command
<1> QED
  BY <1>1, <1>2, PTL DEF Spec
(* The places of a text that hold instructions: the boot has room for the  *)
(* saved ones since they all fitted the program they were saved from, and  *)
(* while it replays them the program holds those of the lines taken.       *)
InstructionsIn(text) == {i \in 1 .. Len(text) : text[i] \in Instructions}
Fits ==
  /\ Len(program) = Cardinality(InstructionsIn(programText))
  /\ Cardinality(InstructionsIn(saved)) <= MaxProgram
Replays == TypeOK /\ Fits /\ AutorunReplaysSaved

LEMMA InstructionsFinite ==
  ASSUME NEW S, NEW text \in Seq(S)
  PROVE  /\ IsFiniteSet(InstructionsIn(text))
         /\ Cardinality(InstructionsIn(text)) \in Nat
<1>1. Len(text) \in Nat
  BY LenProperties
<1>2. IsFiniteSet(1 .. Len(text))
  BY <1>1, FS_Interval
<1>3. InstructionsIn(text) \in SUBSET (1 .. Len(text))
  BY DEF InstructionsIn
<1>4. IsFiniteSet(InstructionsIn(text))
  BY <1>2, <1>3, FS_Subset
<1> QED
  BY <1>4, FS_CardinalityType

LEMMA InstructionsOfEmpty == Cardinality(InstructionsIn(<< >>)) = 0
<1>1. InstructionsIn(<< >>) = {}
  BY EmptySeq DEF InstructionsIn
<1> QED
  BY <1>1, FS_EmptySet

(* A line more is an instruction more when it is one.                      *)
LEMMA InstructionsOfMore ==
  ASSUME NEW S, NEW text \in Seq(S), NEW line \in S
  PROVE  Cardinality(InstructionsIn(Append(text, line)))
           = Cardinality(InstructionsIn(text)) + (IF line \in Instructions THEN 1 ELSE 0)
<1> DEFINE n == Len(text) + 1  more == Append(text, line)
<1>1. /\ Len(text) \in Nat /\ Len(more) = n /\ more[n] = line
      /\ \A i \in 1 .. Len(text) : more[i] = text[i]
  BY LenProperties, AppendProperties
<1>2. n \notin InstructionsIn(text)
  BY <1>1 DEF InstructionsIn
<1>3. IsFiniteSet(InstructionsIn(text)) /\ Cardinality(InstructionsIn(text)) \in Nat
  BY InstructionsFinite
<1>4. CASE line \in Instructions
  <2>1. InstructionsIn(more) = InstructionsIn(text) \cup {n}
    BY <1>1, <1>4 DEF InstructionsIn
  <2> QED
    BY <1>2, <1>3, <1>4, <2>1, FS_AddElement
<1>5. CASE line \notin Instructions
  <2>1. InstructionsIn(more) = InstructionsIn(text)
    BY <1>1, <1>5 DEF InstructionsIn
  <2> QED
    BY <1>3, <1>5, <2>1
<1> QED
  BY <1>4, <1>5

(* The lines taken before an instruction of a text hold fewer than it.     *)
LEMMA InstructionsBefore ==
  ASSUME NEW S, NEW text \in Seq(S), NEW rest \in Seq(S), rest # << >>,
         Head(rest) \in Instructions
  PROVE  Cardinality(InstructionsIn(text)) < Cardinality(InstructionsIn(text \o rest))
<1> DEFINE n == Len(text) + 1  whole == text \o rest
<1>1. /\ Len(text) \in Nat /\ Len(rest) \in Nat \ {0}
      /\ Head(rest) = rest[1]
  BY LenProperties, EmptySeq, HeadTailProperties
<1>2. /\ whole \in Seq(S) /\ Len(whole) = Len(text) + Len(rest)
      /\ \A i \in 1 .. Len(text) : whole[i] = text[i]
      /\ whole[n] = Head(rest)
  BY <1>1, ConcatProperties
<1>3. /\ InstructionsIn(text) \in SUBSET InstructionsIn(whole)
      /\ n \in InstructionsIn(whole) /\ n \notin InstructionsIn(text)
  BY <1>1, <1>2 DEF InstructionsIn
<1>4. /\ IsFiniteSet(InstructionsIn(whole)) /\ Cardinality(InstructionsIn(whole)) \in Nat
      /\ Cardinality(InstructionsIn(text)) \in Nat
  BY <1>2, InstructionsFinite
<1> QED
  BY <1>3, <1>4, FS_Subset

LEMMA TakesLine ==
  ASSUME TypeOK, Fits, NEW line \in Lines, TakeLine(line)
  PROVE  Len(program') = Cardinality(InstructionsIn(programText'))
<1>1. /\ program \in Seq(Instructions) /\ Len(program) \in Nat
      /\ programText \in Seq(Instructions \cup GoodHeaders)
  BY LenProperties DEF TypeOK
<1>2. CASE UNCHANGED <<program, programText>>
  BY <1>2 DEF Fits
<1>3. CASE Accepted(line)
  <2>1. line \in Instructions \cup GoodHeaders /\ programText' = Append(programText, line)
    BY <1>3 DEF Accepted, IsInstruction
  <2>2. Len(program') = Len(program) + (IF line \in Instructions THEN 1 ELSE 0)
    BY <1>1, <1>3, AppendProperties DEF Accepted, IsInstruction
  <2> QED
    BY <1>1, <2>1, <2>2, InstructionsOfMore DEF Fits
<1> QED
  BY <1>2, <1>3 DEF TakeLine, RefusedHeader, LostLine

(* The next saved line is one that was accepted, and is accepted again.    *)
LEMMA BootTakesAll ==
  ASSUME Replays, BootLine
  PROVE  Accepted(Head(replay)) /\ Head(replay) \in Lines
<1> DEFINE line == Head(replay)
<1>1. /\ replay \in Seq(Instructions \cup GoodHeaders) /\ replay # << >>
      /\ programText \in Seq(Instructions \cup GoodHeaders)
      /\ program \in Seq(Instructions) /\ Len(program) \in Nat
      /\ Len(program) = Cardinality(InstructionsIn(programText))
      /\ Cardinality(InstructionsIn(saved)) <= MaxProgram
      /\ programText \o replay = saved
  BY LenProperties DEF Replays, TypeOK, Fits, AutorunReplaysSaved, BootLine
<1>2. line \in Instructions \cup GoodHeaders
  BY <1>1, HeadTailProperties
<1>3. ~RefusedHeader(line)
  BY <1>2 DEF RefusedHeader
<1>4. ~LostLine(line)
  <2>1. CASE line \in Instructions
    <3>1. Cardinality(InstructionsIn(programText)) < Cardinality(InstructionsIn(saved))
      BY <1>1, <2>1, InstructionsBefore
    <3>2. /\ Cardinality(InstructionsIn(saved)) \in Nat /\ MaxProgram \in Nat
      <4>1. saved \in Seq(Instructions \cup GoodHeaders)
        BY DEF Replays, TypeOK
      <4> QED
        BY <4>1, InstructionsFinite DEF SizesAssumption
    <3>3. Len(program) < MaxProgram
      BY <1>1, <3>1, <3>2
    <3> QED
      BY <1>1, <2>1, <3>2, <3>3 DEF LostLine, IsInstruction
  <2>2. CASE line \notin Instructions
    BY <1>2, <2>2 DEF LostLine, IsInstruction
  <2> QED
    BY <2>1, <2>2
<1> QED
  BY <1>2, <1>3, <1>4 DEF BootLine, TakeLine, Lines

(* A text and what follows it are the same wherever the cut is.            *)
LEMMA CutMoves ==
  ASSUME NEW S, NEW text \in Seq(S), NEW rest \in Seq(S), rest # << >>
  PROVE  Append(text, Head(rest)) \o Tail(rest) = text \o rest
<1>1. /\ Head(rest) \in S /\ Tail(rest) \in Seq(S)
      /\ Len(text) \in Nat /\ Len(rest) \in Nat \ {0}
  BY LenProperties, EmptySeq, HeadTailProperties
<1>2. /\ Append(text, Head(rest)) = text \o <<Head(rest)>> /\ <<Head(rest)>> \in Seq(S)
      /\ <<Head(rest)>> \o Tail(rest) = rest
  <2>1. rest = SubSeq(rest, 1, Len(rest)) /\ Tail(rest) = SubSeq(rest, 2, Len(rest))
    BY SubSeqFull, TailIsSubSeq
  <2>2. SubSeq(rest, 1, Len(rest)) = <<rest[1]>> \o SubSeq(rest, 2, Len(rest))
    BY <1>1, SubSeqRecursiveFirst
  <2> QED
    BY <1>1, <2>1, <2>2, AppendIsConcat
<1> QED
  BY <1>1, <1>2, ConcatAssociative

LEMMA FitsStep == Replays /\ [Next]_vars => Fits'
<1> SUFFICES ASSUME Replays, [Next]_vars PROVE Fits'
  OBVIOUS
<1> USE DEF Replays
<1>1. CASE UNCHANGED <<program, programText, saved>>
  BY <1>1 DEF Fits
<1>2. CASE program' = << >> /\ programText' = << >> /\ saved' = saved
  BY <1>2, InstructionsOfEmpty, EmptySeq DEF Fits
<1>3. CASE UNCHANGED vars
  BY <1>1, <1>3 DEF vars, vmVars, loadVars
<1>4. CASE Load \/ PowerCycle
  BY <1>2, <1>4 DEF Load, PowerCycle, ClearProgram
<1>5. CASE \E line \in Lines : ProgramLine(line)
  BY <1>5, TakesLine DEF ProgramLine, TakeLine, Fits
<1>6. CASE BootLine
  BY <1>6, BootTakesAll, TakesLine DEF BootLine, TakeLine, Fits
<1>7. CASE EndLoad \/ BootEnd
  BY <1>1, <1>2, <1>7
  DEF EndLoad, BootEnd, RefuseProgram, ClearProgram, Start, vmVars
<1>8. CASE Run \/ Stop \/ (\E in \in Overrides : Override(in))
  <2>1. UNCHANGED <<program, programText, saved>>
    BY <1>8, ExecStacks DEF Run, Stop, Override, Start, StopVM, loadVars
  <2> QED
    BY <1>1, <2>1
<1>9. CASE Save
  <2>1. Cardinality(InstructionsIn(programText)) <= MaxProgram
    BY DEF Fits, TypeOK
  <2> QED
    BY <1>9, <2>1 DEF Save, Fits, vmVars, loadVars
<1>10. CASE Clear
  <2>1. 0 <= MaxProgram
    BY DEF SizesAssumption
  <2> QED
    BY <1>10, <2>1, InstructionsOfEmpty DEF Clear, Fits, vmVars, loadVars
<1>11. CASE Tick
  <2>1. UNCHANGED <<program, programText, saved>>
    BY <1>11, ExecStacks
    DEF Tick, TickToSteps, TickIdle, TickMission, MissionTick, StepTick, RunOffEnd,
        StepProgram, vmVars, loadVars
  <2> QED
    BY <1>1, <2>1
<1> QED
  BY <1>3, <1>4, <1>5, <1>6, <1>7, <1>8, <1>9, <1>10, <1>11 DEF Next, Command

LEMMA ReplayStep == Replays /\ [Next]_vars => AutorunReplaysSaved'
<1> SUFFICES ASSUME Replays, [Next]_vars PROVE AutorunReplaysSaved'
  OBVIOUS
<1>1. CASE phase' # "boot"
  BY <1>1 DEF AutorunReplaysSaved
<1>2. CASE UNCHANGED vars
  BY <1>2 DEF AutorunReplaysSaved, Replays, vars, loadVars, loopVars
<1>3. CASE PowerCycle
  <2>1. saved \in Seq(Instructions \cup GoodHeaders)
    BY DEF Replays, TypeOK
  <2> QED
    BY <1>3, <2>1, ConcatEmptySeq DEF PowerCycle, AutorunReplaysSaved
<1>4. CASE BootLine
  <2>1. /\ programText \in Seq(Instructions \cup GoodHeaders)
        /\ replay \in Seq(Instructions \cup GoodHeaders) /\ replay # << >>
        /\ programText \o replay = saved /\ ~headerError
    BY <1>4 DEF Replays, TypeOK, AutorunReplaysSaved, BootLine
  <2>2. /\ programText' = Append(programText, Head(replay))
        /\ replay' = Tail(replay) /\ saved' = saved /\ headerError' = headerError
    BY <1>4, BootTakesAll DEF BootLine, TakeLine, Accepted, RefusedHeader, LostLine
  <2>3. Append(programText, Head(replay)) \o Tail(replay) = programText \o replay
    BY <2>1, CutMoves
  <2> QED
    BY <2>1, <2>2, <2>3 DEF AutorunReplaysSaved
<1>5. CASE Command \/ Tick \/ BootEnd
  BY <1>1, <1>5
  DEF Command, Load, ProgramLine, TakeLine, EndLoad, Run, Stop, Save, Clear, Override,
      Tick, TickToSteps, TickIdle, TickMission, StepTick, BootEnd, loopVars
<1> QED
  BY <1>2, <1>3, <1>4, <1>5 DEF Next

(* The boot takes every line of the stored text again and refuses none: a  *)
(* text that fitted when it was saved fits a fresh VM, whatever loads,     *)
(* refused lines and power cuts came between (loadProgramText).            *)
THEOREM Autoruns == Spec => []AutorunReplaysSaved
<1>1. Init => Replays
  <2> SUFFICES ASSUME Init PROVE Replays
    OBVIOUS
  <2>1. AutorunReplaysSaved
    BY DEF Init, AutorunReplaysSaved
  <2>2. Fits
    BY InstructionsOfEmpty, EmptySeq DEF Init, Fits, SizesAssumption
  <2> QED
    BY <2>1, <2>2, InitType DEF Replays
<1>2. Replays /\ [Next]_vars => Replays'
  BY FitsStep, ReplayStep, TypeStep DEF Replays
<1>3. Replays => AutorunReplaysSaved
  BY DEF Replays
<1> QED
  BY <1>1, <1>2, <1>3, PTL DEF Spec
=============================================================================
