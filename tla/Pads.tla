--------------------------------- MODULE Pads ---------------------------------
(***************************************************************************)
(* A program on its way from the wire to the pads: LOAD and its lines, one *)
(* of which may be lost on the link, the check at ".", SAVE, CLEAR, the    *)
(* power and the boot's load of what the store holds, and the instructions *)
(* that drive the pads (src/runtime.cpp, src/vm.cpp, hal_zephyr.cpp).      *)
(*                                                                         *)
(* Control flow is VM.tla's: here the instructions of a running program    *)
(* execute in any order, and it may run off its end, or find the call      *)
(* stack full, at any time.  No text has a CALL (Missions.tla).            *)
(***************************************************************************)
EXTENDS Pins, Store

CONSTANTS
  Texts,      \* board -> what an IDE sends it
  Overrides,  \* instructions an OVERRIDE may hold
  MaxCuts,    \* bound on the SAVEs that power cuts
  MaxLoads    \* bound on the LOADs

ASSUME TextsAssumption == Texts \in [Boards -> SUBSET Seq(Token)]
ASSUME NoCallAssumption ==
  /\ \A b \in Boards : \A text \in Texts[b] : \A i \in DOMAIN text : text[i][1] # "CALL"
  /\ \A in \in Overrides : in.op # "CALL"

VARIABLES
  loaded,   \* the VM's program, table and text, as Contract.tla has them
  loading,  \* between LOAD and "."
  running,  \* the VM runs the program
  hal,      \* the pads

  todo,     \* lines the IDE has still to send
  sent,     \* history: the text the program came from
  cuts,     \* how many SAVEs were cut
  loads     \* how many LOADs there were

vars == <<storeVars, loaded, loading, running, hal, todo, sent, cuts, loads>>

untouched == <<storeVars, cuts, loads>>
Quiet == writing = Idle  \* storeSave returns before the next line is read

Accepts(p) == ~p.headerError /\ Check(board, p)
Settle(p) == IF Accepts(p) THEN p ELSE Empty

(* LOAD, and what will reach the board: every line but perhaps the k-th.   *)
Load(text, k) ==
  LET lines == LinesOf(text)
  IN  /\ Quiet /\ ~loading
      /\ loaded' = Empty /\ loading' = TRUE /\ running' = FALSE
      /\ hal' = StopActuators(board, hal)
      /\ todo' = SubSeq(lines, 1, k - 1) \o SubSeq(lines, k + 1, Len(lines)) /\ sent' = text
      /\ loads' = loads + 1 /\ UNCHANGED <<storeVars, cuts>>
LoadSome == loads < MaxLoads /\ \E text \in Texts[board] : \E k \in 0 .. Len(LinesOf(text)) : Load(text, k)

Line ==
  /\ loading /\ todo # << >>
  /\ loaded' = ProgramLine(board, loaded, Head(todo)) /\ todo' = Tail(todo)
  /\ UNCHANGED <<untouched, loading, running, hal, sent>>

Dot ==
  /\ loading /\ todo = << >>
  /\ loading' = FALSE /\ loaded' = Settle(loaded)
  /\ UNCHANGED <<untouched, running, hal, todo, sent>>

Run ==
  /\ Quiet /\ ~loading /\ running' = TRUE
  /\ UNCHANGED <<untouched, loaded, loading, hal, todo, sent>>
Stop ==
  /\ Quiet /\ ~loading /\ running' = FALSE /\ hal' = StopActuators(board, hal)
  /\ UNCHANGED <<untouched, loaded, loading, todo, sent>>

(* VM::step: HALT ends the program, WAIT resumes even one that has ended,  *)
(* and GOSUB ends it when the call stack is full.                          *)
Halts == hal' = StopActuators(board, hal) /\ running' = FALSE
Executes(in) ==
  \/ /\ hal' = Exec(board, loaded, hal, in)
     /\ running' = CASE in.op = "HALT" -> FALSE [] in.op = "WAIT" -> TRUE [] OTHER -> running
  \/ in.op = "GOSUB" /\ Halts

Step(in) ==
  /\ Quiet /\ running /\ Executes(in)
  /\ UNCHANGED <<untouched, loaded, loading, todo, sent>>
StepSome == \E i \in 1 .. Len(loaded.program) : Step(loaded.program[i])
RunOffEnd ==
  /\ Quiet /\ running /\ Halts
  /\ UNCHANGED <<untouched, loaded, loading, todo, sent>>

Override(in) ==
  /\ Quiet /\ ~loading /\ Executes(in)
  /\ UNCHANGED <<untouched, loaded, loading, todo, sent>>

Save ==
  /\ Quiet /\ ~loading /\ loaded.text # << >>
  /\ SaveWhole(loaded.text) \/ SaveBegins(loaded.text)
  /\ UNCHANGED <<loaded, loading, running, hal, todo, sent, cuts, loads>>
Saving == WriteBlock /\ UNCHANGED <<loaded, loading, running, hal, todo, sent, cuts, loads>>
Forget ==
  /\ ~loading /\ Clear /\ UNCHANGED <<loaded, loading, running, hal, todo, sent, cuts, loads>>

(* Power goes and comes back: runtime::init.                               *)
PowerCycle ==
  /\ cuts' = cuts + (IF Quiet THEN 0 ELSE 1) /\ cuts' <= MaxCuts
  /\ writing' = Idle /\ UNCHANGED <<board, flash, settled, cut>>
  /\ loaded' = Settle(Replayed(board, Loaded))
  /\ running' = (loaded'.program # << >>)
  /\ loading' = FALSE /\ hal' = AtReset /\ todo' = << >> /\ sent' = Loaded
  /\ UNCHANGED loads

Init ==
  /\ StoreInit /\ loaded = Empty /\ loading = FALSE /\ running = FALSE /\ hal = AtReset
  /\ todo = << >> /\ sent = << >> /\ cuts = 0 /\ loads = 0

Next ==
  \/ LoadSome \/ Line \/ Dot \/ Run \/ Stop \/ StepSome \/ RunOffEnd
  \/ Save \/ Saving \/ Forget \/ PowerCycle
  \/ \E in \in Overrides : Override(in)
Spec == Init /\ [][Next]_vars
-----------------------------------------------------------------------------
(* The pads a text's RES lines give to the resource of an operand.         *)
NamedPads(a) ==
  LET lines == LinesOf(sent)
  IN  { ByName(board, lines[i][4]) :
          i \in { k \in 1 .. Len(lines) : IsRes(lines[k]) /\ ResRef + lines[k][2][2] = a } }

(* What is wired for an instruction that names no pad, and the "L" that    *)
(* mirrors the UNO R4's red lamp.  An end of the program, by HALT or GOSUB,*)
(* reaches the motors and the buzzers.                                     *)
Peripheral(in) ==
  CASE in.op = "MOVE" -> MotorPads(board)
    [] in.op = "DIST" -> {Trig(board), Echo(board)}
    [] in.op \in {"HALT", "GOSUB"} -> StopPads(board)
    [] OTHER -> {}
Mirror(ps) == UNION { Mirrored(board, p) : p \in ps }
PadsOf(in) == IF UsesPin(in.op) THEN Mirror(NamedPads(in.a)) ELSE Peripheral(in)

(* An instruction of a contract-3 program that works on a resource changes *)
(* no pad but the one its text names for that resource, and none a program *)
(* may not use, whatever lines were lost on the link and wherever a SAVE of*)
(* it, or over it, was cut.  MOVE and DIST change the pads of the motors   *)
(* and of the sensor.  The ends of a program (HALT, off its end, a full    *)
(* call stack) are exempt: they make the motors' pads low outputs and      *)
(* silence the buzzers', whatever the text names those pads for, and change*)
(* no other.                                                               *)
OnlyOwnPads ==
  [][loaded.contract = 3 =>
       /\ \A i \in 1 .. Len(loaded.program) :
            LET in == loaded.program[i]
            IN  Step(in) =>
                  /\ Changed(board, hal, hal') \subseteq PadsOf(in)
                  /\ UsesPin(in.op) => Changed(board, hal, hal') \cap Reserved(board) = {}
       /\ RunOffEnd => Changed(board, hal, hal') \subseteq StopPads(board)]_vars
=============================================================================
