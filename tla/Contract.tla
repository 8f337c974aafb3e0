------------------------------- MODULE Contract -------------------------------
(***************************************************************************)
(* What a board makes of a program's lines: the parser of header lines and *)
(* of the instructions that name a pin (src/isa.cpp), the boards' pads     *)
(* (src/pads.cpp), the resource table and its check (src/vm.cpp), and      *)
(* programLine (src/runtime.cpp) over them.                                *)
(*                                                                         *)
(* A text is a sequence of tokens <<word, number>>: <<"RES", 0>>, <<"#", 4>>*)
(* for a number, <<"R", 0>> for a resource, <<"GPIO", 4>>, <<"P", 126>> for*)
(* P1.26, <<"D", 4>>, <<"A", 0>>, and Newline at the end of each line.  The*)
(* other operands are told by what their place takes: <<"VAR", 0>> for a   *)
(* word whose first letter is a, <<"TEXT", 0>> for up to 21 printable      *)
(* characters in quotes, <<"WORD", 0>> for up to 16 letters and digits.    *)
(***************************************************************************)
EXTENDS Integers, SequencesExt

CONSTANTS
  MaxProgram,    \* instructions a program may have
  MaxResources   \* resources its table may have

ASSUME ContractAssumption == MaxProgram \in Nat \ {0} /\ MaxResources \in Nat \ {0}

Token == STRING \X Int
Newline == <<"EOL", 0>>
Boards == {"ESP32S3", "NRF54LM20", "UNOR4"}
Kinds == {"DOUT", "DIN", "TONE", "SERVO", "ADC"}
NoPad == -1
-----------------------------------------------------------------------------
(* The pads: a pad is the board's own GPIO index.                          *)
ByName(board, t) ==
  CASE board = "ESP32S3" /\ t[1] = "GPIO" /\ t[2] \in 0 .. 48 -> t[2]
    [] board = "NRF54LM20" /\ t[1] = "P" /\ (t[2] \div 100) \in 0 .. 3 /\ (t[2] % 100) \in 0 .. 31
         -> 32 * (t[2] \div 100) + (t[2] % 100)
    [] board = "UNOR4" /\ t[1] = "D" /\ t[2] \in 0 .. 13 -> t[2]
    [] board = "UNOR4" /\ t[1] = "A" /\ t[2] \in 0 .. 5 -> 14 + t[2]
    [] OTHER -> NoPad

Reserved(board) ==
  CASE board = "ESP32S3" -> {0, 45, 19, 20, 43, 44} \cup 26 .. 37 \cup 15 .. 17
    [] board = "NRF54LM20" -> {33, 34, 55, 46, 63, 42, 35, 36, 100, 43, 44} \cup 64 .. 69
    [] board = "UNOR4" -> {10, 11}

(* Where the buzzer, the servo and the analog input are wired.             *)
Wired ==
  [ESP32S3 |-> [TONE |-> 5, SERVO |-> 8, ADC |-> 9],
   NRF54LM20 |-> [TONE |-> 45, SERVO |-> 97, ADC |-> 3],
   UNOR4 |-> [TONE |-> 5, SERVO |-> 6, ADC |-> 14]]
FixedPad(board, kind) == IF kind \in {"TONE", "SERVO", "ADC"} THEN Wired[board][kind] ELSE NoPad
SecondPad(board, kind) ==
  IF board # "ESP32S3" THEN NoPad
  ELSE IF kind = "TONE" THEN 42 ELSE IF kind = "SERVO" THEN 47 ELSE NoPad

(* Contract 2: the logical pins of the lamps, the buzzer, the servo, the   *)
(* motors, ...                                                             *)
DKMap ==
  4 :> 54 @@ 2 :> 57 @@ 1 :> 59 @@ 18 :> 60 @@ 5 :> 45 @@ 6 :> 58 @@ 7 :> 96 @@ 8 :> 97 @@
  9 :> 3 @@ 10 :> 98 @@ 11 :> 99 @@ 12 :> 39 @@ 13 :> 101 @@ 14 :> 37 @@ 21 :> 38 @@
  38 :> 103 @@ 39 :> 104 @@ 40 :> 105 @@ 41 :> 106 @@ 42 :> 4 @@
  47 :> NoPad @@ 3 :> NoPad @@ 46 :> NoPad
UnoMap ==
  1 :> 2 @@ 2 :> 3 @@ 4 :> 4 @@ 18 :> 18 @@ 5 :> 5 @@ 6 :> 7 @@ 7 :> 8 @@ 8 :> 6 @@ 9 :> 14 @@
  38 :> 15 @@ 39 :> 16 @@ 40 :> 17 @@ 41 :> 12 @@ 42 :> 9 @@ 47 :> 0 @@ 3 :> 1 @@ 46 :> 19
LegacyPad(board, n) ==
  CASE board = "NRF54LM20" -> IF n \in DOMAIN DKMap THEN DKMap[n] ELSE n
    [] board = "UNOR4" -> IF n \in DOMAIN UnoMap THEN UnoMap[n] ELSE NoPad
    [] OTHER -> n
-----------------------------------------------------------------------------
(* The parser.                                                             *)
ResRef == 2 ^ 24
IsResRef(a) == a >= ResRef

IsNumber(t) == t[1] = "#" /\ t[2] >= 0
ToLong(t) == IF t[1] = "#" THEN t[2] ELSE 0
PinOperand(t) == IF t[1] = "R" THEN ResRef + t[2] ELSE ToLong(t)

IsHeader(line) == line[1][1] \in {"CONTRACT", "RES"}
IsContract(line) == line[1][1] = "CONTRACT" /\ Len(line) = 2 /\ IsNumber(line[2])
IsRes(line) ==
  /\ line[1][1] = "RES" /\ Len(line) \in {4, 5} /\ IsNumber(line[2])
  /\ Len(line) = 5 => line[5][1] \in {"PULL=UP", "PULL=DOWN"}
Pull(line) == IF Len(line) = 5 /\ line[5][1] = "PULL=DOWN" THEN 2 ELSE 0

PinWrites == {"SET", "TONE", "SERVO"}
PinReads == {"READ", "RPIN", "AREAD"}
UsesPin(op) == op = "MODE" \/ op \in PinWrites \/ op \in PinReads
Opcodes ==
  {"NOP", "MODE", "WAIT", "JMP", "CALL", "HALT", "PUSH", "LOAD", "STORE", "ADD", "SUB", "MUL",
   "DIV", "GT", "LT", "EQ", "AND", "NOT", "ABS", "JZ", "GOSUB", "RET", "MOVE", "DIST", "AISTART",
   "INFER", "SENSE", "PIXN", "PIX", "DCLR", "DTEXT", "DNUM", "TIME"} \cup PinWrites \cup PinReads

(* A missing operand is the empty string, which reads as zero.             *)
Operand(line, k) == IF k <= Len(line) THEN line[k] ELSE <<"", 0>>
Direction(line) ==
  IF Len(line) # 3 THEN 0
  ELSE IF line[3][1] = "OUT" THEN 1 ELSE IF line[3][1] = "INPD" THEN 2 ELSE 0
TakesVariable(op) == op \in {"LOAD", "STORE"}
TakesNumber(op) ==
  op \in {"MOVE", "WAIT", "JMP", "JZ", "GOSUB", "PUSH", "PIXN", "DTEXT", "DNUM"}
Parses(line) ==
  LET op == line[1][1]
      Is(k, word) == Operand(line, k)[1] = word
  IN  /\ op \in Opcodes
      /\ TakesVariable(op) => Is(2, "VAR") /\ Operand(line, 2)[2] \in 0 .. 25
      /\ op = "DTEXT" => Is(3, "TEXT")
      /\ op = "SENSE" => Is(2, "WORD") /\ Is(3, "WORD")
Number(op, t) ==
  CASE UsesPin(op) -> PinOperand(t)
    [] TakesVariable(op) -> t[2]
    [] TakesNumber(op) -> ToLong(t)
    [] OTHER -> 0
Parsed(line) ==
  LET op == line[1][1]
  IN  [op |-> op,
       a |-> Number(op, Operand(line, 2)),
       b |-> IF op = "MODE" THEN Direction(line)
             ELSE IF op \in PinWrites \cup {"MOVE"} THEN ToLong(Operand(line, 3)) ELSE 0]
-----------------------------------------------------------------------------
(* The VM's program: contract, table, instructions; the text that was      *)
(* accepted, and whether a header line was refused.                        *)
Empty == [contract |-> 2, res |-> << >>, program |-> << >>, text |-> << >>, headerError |-> FALSE]

Supported(n) == n \in 2 .. 3
AddsResource(board, p, line) ==
  /\ line[2][2] = Len(p.res) /\ Len(p.res) < MaxResources
  /\ line[3][1] \in Kinds /\ ByName(board, line[4]) # NoPad
Resource(board, line) ==
  [pad |-> ByName(board, line[4]), kind |-> line[3][1], pull |-> Pull(line)]

Kept(p, line) == [p EXCEPT !.text = @ \o line \o <<Newline>>]
ProgramLine(board, p, line) ==
  IF IsHeader(line)
  THEN IF IsContract(line) /\ Supported(line[2][2])
       THEN [Kept(p, line) EXCEPT !.contract = line[2][2]]
       ELSE IF IsRes(line) /\ AddsResource(board, p, line)
       THEN [Kept(p, line) EXCEPT !.res = Append(@, Resource(board, line)), !.contract = 3]
       ELSE [p EXCEPT !.headerError = TRUE]
  ELSE IF Parses(line) /\ Len(p.program) < MaxProgram
       THEN [Kept(p, line) EXCEPT !.program = Append(@, Parsed(line))]
       ELSE p

(* loadProgramText: the lines of a saved text, one after another.          *)
Lines(cut) == IF cut.last = << >> THEN cut.lines ELSE Append(cut.lines, cut.last)
CutAt(cut, t) ==
  IF t = Newline THEN [lines |-> Lines(cut), last |-> << >>]
  ELSE [cut EXCEPT !.last = Append(@, t)]
LinesOf(text) ==
  LET cut[i \in 0 .. Len(text)] ==
        IF i = 0 THEN [lines |-> << >>, last |-> << >>] ELSE CutAt(cut[i - 1], text[i])
  IN  Lines(cut[Len(text)])
ReplayedLines(board, lines) ==
  LET from[k \in 0 .. Len(lines)] ==
        IF k = 0 THEN Empty ELSE ProgramLine(board, from[k - 1], lines[k])
  IN  from[Len(lines)]
Replayed(board, text) == ReplayedLines(board, LinesOf(text))
-----------------------------------------------------------------------------
(* VM::check.                                                              *)
ResourceOf(p, a) == p.res[a - ResRef + 1]
PadOf(board, p, a) ==
  IF IsResRef(a) THEN IF a - ResRef < Len(p.res) THEN ResourceOf(p, a).pad ELSE NoPad
  ELSE LegacyPad(board, a)

AnyPad(board, r) == TRUE
RightPad(board, r) ==
  FixedPad(board, r.kind) # NoPad =>
    r.pad \in {FixedPad(board, r.kind), SecondPad(board, r.kind)}
GoodTable(board, res) ==
  \A i \in 1 .. Len(res) :
    /\ res[i].pad \notin Reserved(board)
    /\ \A j \in 1 .. i - 1 : res[j].pad # res[i].pad
    /\ RightPad(board, res[i])

RightKind(in, r) ==
  CASE in.op = "SET" -> r.kind = "DOUT"
    [] in.op = "MODE" -> IF in.b = 1 THEN r.kind = "DOUT" ELSE r.kind = "DIN" /\ r.pull = in.b
    [] in.op = "READ" -> r.kind \in {"DIN", "DOUT"}
    [] in.op \in {"TONE", "SERVO"} -> r.kind = in.op
    [] in.op = "AREAD" -> r.kind = "ADC"
    [] OTHER -> TRUE
Declared(p, a) == a - ResRef < Len(p.res)
GoodInstruction(p, in) ==
  IF ~IsResRef(in.a) THEN p.contract < 3 ELSE Declared(p, in.a) /\ RightKind(in, ResourceOf(p, in.a))

Check(board, p) ==
  /\ GoodTable(board, p.res)
  /\ \A i \in 1 .. Len(p.program) : UsesPin(p.program[i].op) => GoodInstruction(p, p.program[i])
=============================================================================
