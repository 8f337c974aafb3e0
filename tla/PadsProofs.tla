------------------------------ MODULE PadsProofs ------------------------------
(***************************************************************************)
(* Proofs about Pads: what a boot loads is what was saved, for every store *)
(* and text, and a contract-3 program drives its own pads only, for every  *)
(* program.                                                                *)
(*                                                                         *)
(* A text is cut into lines, and lines are replayed into a program, by     *)
(* functions on 0 .. n defined by recursion: RecursionOn gives them.       *)
(***************************************************************************)
EXTENDS Pads, SequenceTheorems, WellFoundedInduction, TLAPS

LEMMA LeastNat ==
  ASSUME NEW T, T \subseteq Nat, T # {}
  PROVE  \E m \in T : \A k \in T : m <= k
<1> DEFINE R == OpToRel(<, Nat)
<1>1. \A k, m \in Nat : <<k, m>> \in R <=> k < m
  BY DEF OpToRel
<1>2. IsWellFoundedOn(R, Nat)
  BY NatLessThanWellFounded
<1> HIDE DEF R
<1>3. \E m \in T : \A k \in T : ~(<<k, m>> \in R)
  BY <1>2, WFMin, Zenon
<1>4. PICK m \in T : \A k \in T : ~(<<k, m>> \in R)
  BY <1>3
<1>5. m \in Nat /\ \A k \in T : k \in Nat /\ ~(k < m)
  BY <1>1, <1>4
<1> QED
  BY <1>5

(* What the first value has and every step keeps, all values have.         *)
LEMMA KeptBySteps ==
  ASSUME NEW n \in Nat, NEW A, NEW f, f[0] \in A, \A k \in 1 .. n : f[k - 1] \in A => f[k] \in A
  PROVE  \A k \in 0 .. n : f[k] \in A
<1> DEFINE Bad == { k \in 0 .. n : f[k] \notin A }
<1>1. CASE Bad # {}
  <2>1. Bad \subseteq Nat
    OBVIOUS
  <2>2. PICK m \in Bad : \A k \in Bad : m <= k
    <3> HIDE DEF Bad
    <3> QED
      BY <1>1, <2>1, LeastNat
  <2>3. m \in 1 .. n /\ m - 1 \in 0 .. n /\ m - 1 \notin Bad
    BY <2>2
  <2>4. f[m - 1] \in A
    BY <2>3
  <2> QED
    BY <2>2, <2>3, <2>4
<1> QED
  BY <1>1

(* A function on 0 .. n from its first value and a step.                   *)
Recursion(n, A, a, G) ==
  \E f \in [0 .. n -> A] : f[0] = a /\ \A k \in 1 .. n : f[k] = G[<<k, f[k - 1]>>]

LEMMA RecursionOn ==
  ASSUME NEW n \in Nat, NEW A, NEW a \in A, NEW G \in [(1 .. n) \X A -> A]
  PROVE  Recursion(n, A, a, G)
<1> DEFINE Begins(m) ==
             \E f \in [0 .. m -> A] : f[0] = a /\ \A k \in 1 .. m : f[k] = G[<<k, f[k - 1]>>]
           Fails == { m \in 0 .. n : ~Begins(m) }
<1>1. Begins(0)
  <2> DEFINE f == [i \in 0 .. 0 |-> a]
  <2>1. f \in [0 .. 0 -> A] /\ f[0] = a
    OBVIOUS
  <2> HIDE DEF f
  <2>2. \A k \in 1 .. 0 : f[k] = G[<<k, f[k - 1]>>]
    OBVIOUS
  <2> QED
    BY <2>1, <2>2
<1>2. ASSUME NEW m \in 1 .. n, Begins(m - 1) PROVE Begins(m)
  <2>1. PICK f \in [0 .. m - 1 -> A] :
          f[0] = a /\ \A k \in 1 .. m - 1 : f[k] = G[<<k, f[k - 1]>>]
    BY <1>2
  <2> DEFINE g == [i \in 0 .. m |-> IF i = m THEN G[<<m, f[m - 1]>>] ELSE f[i]]
  <2>2. m - 1 \in 0 .. m - 1 /\ <<m, f[m - 1]>> \in (1 .. n) \X A
    OBVIOUS
  <2>3. G[<<m, f[m - 1]>>] \in A
    BY <2>2
  <2>4. g \in [0 .. m -> A]
    BY <2>3
  <2>5. \A i \in 0 .. m - 1 : g[i] = f[i]
    OBVIOUS
  <2>6. g[m] = G[<<m, f[m - 1]>>]
    OBVIOUS
  <2> HIDE DEF g
  <2>7. ASSUME NEW k \in 1 .. m PROVE g[k] = G[<<k, g[k - 1]>>]
    <3>1. k - 1 \in 0 .. m - 1 /\ g[k - 1] = f[k - 1]
      BY <2>5
    <3>2. CASE k = m
      BY <2>6, <3>1, <3>2
    <3>3. CASE k # m
      <4>1. k \in 1 .. m - 1 /\ k \in 0 .. m - 1
        BY <3>3
      <4> QED
        BY <2>1, <2>5, <3>1, <4>1
    <3> QED
      BY <3>2, <3>3
  <2>8. g[0] = a
    BY <2>1, <2>5
  <2> QED
    BY <2>4, <2>7, <2>8
<1> HIDE DEF Begins
<1>3. CASE Fails # {}
  <2> Fails \subseteq Nat
    OBVIOUS
  <2>1. PICK m \in Fails : \A k \in Fails : m <= k
    <3> HIDE DEF Fails
    <3> QED
      BY <1>3, LeastNat, Zenon
  <2>2. m \in 0 .. n /\ ~Begins(m)
    OBVIOUS
  <2>3. m # 0
    BY <1>1, <2>2
  <2>4. m - 1 \in 0 .. n /\ m - 1 \notin Fails
    BY <2>1, <2>2, <2>3
  <2>5. Begins(m - 1)
    BY <2>4
  <2> QED
    BY <1>2, <2>2, <2>3, <2>5
<1>4. CASE Fails = {}
  <2>1. Begins(n)
    BY <1>4
  <2> QED
    BY <2>1 DEF Begins, Recursion
<1> QED
  BY <1>3, <1>4
-----------------------------------------------------------------------------
(* Newline and Erased are tokens, but no prover here knows that a word is  *)
(* a string.                                                               *)
Cell == Token \cup {Newline, Erased}

LEMMA CellParts == ASSUME NEW t \in Cell PROVE t[2] \in Int
<1>1. CASE t \in Token
  <2>1. t[1] \in STRING /\ t[2] \in Int
    BY <1>1, Zenon DEF Token
  <2> QED
    BY <2>1
<1>2. CASE t \in {Newline, Erased}
  BY <1>2 DEF Newline, Erased
<1> QED
  BY <1>1, <1>2 DEF Cell

(* The lines of a text.                                                    *)
Cuts == [lines : Seq(Seq(Cell)), last : Seq(Cell)]

LEMMA LinesType == ASSUME NEW c \in Cuts PROVE Lines(c) \in Seq(Seq(Cell))
  BY AppendProperties DEF Lines, Cuts

LEMMA CutType == ASSUME NEW c \in Cuts, NEW t \in Cell PROVE CutAt(c, t) \in Cuts
<1>1. Append(c.last, t) \in Seq(Cell) /\ Lines(c) \in Seq(Seq(Cell)) /\ << >> \in Seq(Cell)
  BY LinesType, AppendProperties, EmptySeq DEF Cuts
<1> QED
  BY <1>1 DEF CutAt, Cuts

LEMMA LinesOfType == ASSUME NEW text \in Seq(Cell) PROVE LinesOf(text) \in Seq(Seq(Cell))
<1> DEFINE n == Len(text)
           none == [lines |-> << >>, last |-> << >>]
           G == [q \in (1 .. n) \X Cuts |-> CutAt(q[2], text[q[1]])]
<1>1. n \in Nat /\ \A i \in 1 .. n : text[i] \in Cell
  OBVIOUS
<1>2. none \in Cuts
  BY EmptySeq DEF Cuts
<1>3. G \in [(1 .. n) \X Cuts -> Cuts]
  BY <1>1, CutType
<1>4. \A k \in 1 .. n : \A c \in Cuts : G[<<k, c>>] = CutAt(c, text[k])
  OBVIOUS
<1> HIDE DEF n, none, G
<1>5. PICK f \in [0 .. n -> Cuts] : f[0] = none /\ \A k \in 1 .. n : f[k] = G[<<k, f[k - 1]>>]
  <2>1. Recursion(n, Cuts, none, G)
    BY <1>1, <1>2, <1>3, RecursionOn
  <2> QED
    BY <2>1 DEF Recursion
<1>6. \A k \in 1 .. n : f[k] = CutAt(f[k - 1], text[k])
  <2> SUFFICES ASSUME NEW k \in 1 .. n PROVE f[k] = CutAt(f[k - 1], text[k])
    OBVIOUS
  <2>1. f[k - 1] \in Cuts
    BY <1>1
  <2> QED
    BY <1>4, <1>5, <2>1
<1> DEFINE parts == CHOOSE c : c = [i \in 0 .. n |-> IF i = 0 THEN none ELSE CutAt(c[i - 1], text[i])]
<1>7. f = [i \in 0 .. n |-> IF i = 0 THEN none ELSE CutAt(f[i - 1], text[i])]
  BY <1>1, <1>5, <1>6
<1>8. parts = [i \in 0 .. n |-> IF i = 0 THEN none ELSE CutAt(parts[i - 1], text[i])]
  BY <1>7
<1> HIDE DEF parts
<1>9. \A i \in 0 .. n : parts[i] \in Cuts
  <2>1. parts[0] \in Cuts
    BY <1>1, <1>2, <1>8
  <2>2. ASSUME NEW k \in 1 .. n, parts[k - 1] \in Cuts PROVE parts[k] \in Cuts
    BY <1>1, <1>8, <2>2, CutType
  <2> QED
    BY <1>1, <2>1, <2>2, KeptBySteps
<1>10. LinesOf(text) = Lines(parts[n])
  BY DEF LinesOf, parts, none, n
<1> QED
  BY <1>1, <1>9, <1>10, LinesType
-----------------------------------------------------------------------------
(* Programs, and where their resources come from: RES lines of the text.   *)
ResourceType == [pad : Nat, kind : Kinds, pull : 0 .. 2]
InstructionType == [op : Opcodes, a : Int, b : Int]
ProgramType ==
  [contract : 2 .. 3, res : Seq(ResourceType), program : Seq(InstructionType),
   text : Seq(Cell), headerError : BOOLEAN]

Names(b, line, n, pad) == IsRes(line) /\ line[2][2] = n - 1 /\ pad = ByName(b, line[4])
Named(b, p, lines) ==
  \A n \in 1 .. Len(p.res) : \E i \in 1 .. Len(lines) : Names(b, lines[i], n, p.res[n].pad)

SentLines(text) == { LinesOf(text)[i] : i \in 1 .. Len(LinesOf(text)) }

(* What a step keeps of the program and of the pads.                       *)
ProgramInv ==
  /\ board \in Boards /\ loaded \in ProgramType /\ sent \in Seq(Cell)
  /\ todo \in Seq(SentLines(sent))
  /\ Named(board, loaded, LinesOf(sent))
  /\ IF loading THEN ~running ELSE Check(board, loaded)
IsHal(h) == DOMAIN h = {"out", "high", "on", "routed"}
HalInv == IsHal(hal)

(* What a step keeps of the store: up to the block that is written next    *)
(* the flash holds the text of the SAVE, and from there what it held.      *)
FlashType == [magic : BOOLEAN, len : Nat, cells : [1 .. Cap -> Cell]]
Writing ==
  /\ Blob /\ writing \in [text : Seq(Cell), at : Nat]
  /\ Len(writing.text) <= Cap /\ writing.at <= Len(writing.text)
  /\ cut.text = writing.text /\ cut.cells \in [1 .. Cap -> Cell]
  /\ Erases => cut.cells = Blank.cells
  /\ IF writing.at = 0 THEN Loaded = (IF Erases THEN << >> ELSE cut.before)
     ELSE flash.magic /\ flash.len = Len(writing.text)
  /\ \A i \in 1 .. Cap :
       flash.cells[i] = IF i < writing.at THEN writing.text[i] ELSE cut.cells[i]
StoreInv ==
  /\ board \in Boards /\ flash \in FlashType /\ settled \in Seq(Cell)
  /\ IF writing = Idle THEN BootsWhatWasSaved ELSE Writing
-----------------------------------------------------------------------------
(* A line of the text and the program it makes.                            *)
LEMMA PadOfName ==
  ASSUME NEW b \in Boards, NEW t \in Cell, ByName(b, t) # NoPad
  PROVE  ByName(b, t) \in Nat
<1>1. t[2] \in Int
  BY CellParts
<1>2. CASE b = "ESP32S3"
  BY <1>1, <1>2 DEF ByName, NoPad
<1>3. CASE b = "UNOR4"
  BY <1>1, <1>3 DEF ByName, NoPad
<1>4. CASE b = "NRF54LM20"
  <2>1. t[2] \div 100 \in Int /\ t[2] % 100 \in Int
    BY <1>1
  <2> QED
    BY <1>4, <2>1 DEF ByName, NoPad
<1> QED
  BY <1>2, <1>3, <1>4 DEF Boards

LEMMA KeptType ==
  ASSUME NEW p \in ProgramType, NEW line \in Seq(Cell)
  PROVE  Kept(p, line) = [p EXCEPT !.text = p.text \o line \o <<Newline>>]
         /\ Kept(p, line) \in ProgramType
<1>1. <<Newline>> \in Seq(Cell)
  BY DEF Cell
<1>2. p.text \o line \o <<Newline>> \in Seq(Cell)
  BY <1>1, ConcatProperties DEF ProgramType
<1> QED
  BY <1>2 DEF Kept, ProgramType

LEMMA ParsedType == ASSUME NEW line \in Seq(Cell), Parses(line) PROVE Parsed(line) \in InstructionType
<1>1. \A k \in Nat \ {0} : Operand(line, k)[2] \in Int
  <2> SUFFICES ASSUME NEW k \in Nat \ {0} PROVE Operand(line, k)[2] \in Int
    OBVIOUS
  <2>1. CASE k <= Len(line)
    <3>1. line[k] \in Cell
      BY <2>1
    <3> QED
      BY <2>1, <3>1, CellParts DEF Operand
  <2>2. CASE ~(k <= Len(line))
    BY <2>2 DEF Operand
  <2> QED
    BY <2>1, <2>2
<1>2. \A k \in Nat \ {0} :
        ToLong(Operand(line, k)) \in Int /\ PinOperand(Operand(line, k)) \in Int
  <2>1. ResRef \in Int
    BY DEF ResRef
  <2> QED
    BY <1>1, <2>1 DEF ToLong, PinOperand
<1>3. Direction(line) \in Int
  BY DEF Direction
<1>4. Number(line[1][1], Operand(line, 2)) \in Int /\ ToLong(Operand(line, 3)) \in Int
  BY <1>1, <1>2 DEF Number
<1> QED
  BY <1>3, <1>4 DEF Parsed, Parses, InstructionType

(* A line keeps the program's form, and a resource it adds is its own.     *)
LEMMA LineGood ==
  ASSUME NEW b \in Boards, NEW p \in ProgramType, NEW lines \in Seq(Seq(Cell)),
         NEW k \in 1 .. Len(lines), Named(b, p, lines)
  PROVE  ProgramLine(b, p, lines[k]) \in ProgramType /\ Named(b, ProgramLine(b, p, lines[k]), lines)
<1> DEFINE line == lines[k]
           q == ProgramLine(b, p, line)
<1>1. line \in Seq(Cell)
  OBVIOUS
<1>2. Kept(p, line) \in ProgramType /\ Kept(p, line).res = p.res
  <2>1. Kept(p, line) = [p EXCEPT !.text = p.text \o line \o <<Newline>>]
    BY <1>1, KeptType
  <2> QED
    BY <1>1, <2>1, KeptType DEF ProgramType
<1> HIDE DEF line
<1>3. CASE IsHeader(line) /\ IsContract(line) /\ Supported(line[2][2])
  <2>1. q = [Kept(p, line) EXCEPT !.contract = line[2][2]]
    BY <1>3 DEF ProgramLine
  <2> QED
    BY <1>2, <1>3, <2>1 DEF Supported, ProgramType, Named, line
<1>4. CASE /\ IsHeader(line) /\ ~(IsContract(line) /\ Supported(line[2][2]))
           /\ IsRes(line) /\ AddsResource(b, p, line)
  <2> DEFINE r == Resource(b, line)
             K == Kept(p, line)
  <2>1. q = [K EXCEPT !.res = Append(K.res, r), !.contract = 3]
    BY <1>4 DEF ProgramLine
  <2>2. r \in ResourceType /\ r.pad = ByName(b, line[4])
    <3>1. line[4] \in Cell
      BY <1>1, <1>4 DEF IsRes
    <3> QED
      BY <1>4, <3>1, PadOfName DEF AddsResource, Resource, ResourceType, Pull
  <2>3. /\ p.res \in Seq(ResourceType) /\ Append(p.res, r) \in Seq(ResourceType)
        /\ Len(Append(p.res, r)) = Len(p.res) + 1
        /\ \A i \in 1 .. Len(p.res) : Append(p.res, r)[i] = p.res[i]
        /\ Append(p.res, r)[Len(p.res) + 1] = r
    BY <2>2, AppendProperties DEF ProgramType
  <2>4. q \in ProgramType /\ q.res = Append(p.res, r)
    <3> K \in ProgramType /\ K.res = p.res
      BY <1>2
    <3> DEFINE more == Append(p.res, r)
    <3>1. q = [K EXCEPT !.res = more, !.contract = 3] /\ more \in Seq(ResourceType)
      BY <2>1, <2>3
    <3> HIDE DEF K, q, r, more
    <3>2. q = [contract |-> 3, res |-> more, program |-> K.program, text |-> K.text,
               headerError |-> K.headerError]
      BY <3>1 DEF ProgramType
    <3>3. q.res = more /\ q \in ProgramType
      BY <3>1, <3>2 DEF ProgramType
    <3> QED
      BY <3>3 DEF more
  <2>5. Names(b, lines[k], Len(p.res) + 1, r.pad)
    BY <1>4, <2>2, <2>3 DEF Names, AddsResource, line
  <2>6. ASSUME NEW n \in 1 .. Len(q.res) PROVE \E i \in 1 .. Len(lines) : Names(b, lines[i], n, q.res[n].pad)
    <3>1. CASE n = Len(p.res) + 1
      BY <2>3, <2>4, <2>5, <3>1
    <3>2. CASE n \in 1 .. Len(p.res)
      BY <2>3, <2>4, <3>2 DEF Named
    <3> QED
      BY <2>3, <2>4, <3>1, <3>2
  <2> QED
    BY <2>4, <2>6 DEF Named, line
<1>5. CASE /\ IsHeader(line) /\ ~(IsContract(line) /\ Supported(line[2][2]))
           /\ ~(IsRes(line) /\ AddsResource(b, p, line))
  <2>1. q = [p EXCEPT !.headerError = TRUE]
    BY <1>5 DEF ProgramLine
  <2> QED
    BY <2>1 DEF ProgramType, Named, line
<1>6. CASE ~IsHeader(line)
  <2>1. CASE Parses(line) /\ Len(p.program) < MaxProgram
    <3>1. q = [Kept(p, line) EXCEPT !.program = Append(Kept(p, line).program, Parsed(line))]
      BY <1>6, <2>1 DEF ProgramLine
    <3>2. Append(Kept(p, line).program, Parsed(line)) \in Seq(InstructionType)
      BY <1>1, <1>2, <2>1, ParsedType, AppendProperties DEF ProgramType
    <3> QED
      BY <1>2, <3>1, <3>2 DEF ProgramType, Named, line
  <2>2. CASE ~(Parses(line) /\ Len(p.program) < MaxProgram)
    BY <1>6, <2>2 DEF ProgramLine, line
  <2> QED
    BY <2>1, <2>2
<1> QED
  BY <1>3, <1>4, <1>5, <1>6

LEMMA EmptyType ==
  ASSUME NEW b \in Boards, NEW lines
  PROVE  Empty \in ProgramType /\ Check(b, Empty) /\ Named(b, Empty, lines)
  BY EmptySeq DEF Empty, ProgramType, Check, GoodTable, Named

(* A saved text replays into a program whose resources it names.           *)
LEMMA ReplayGood ==
  ASSUME NEW b \in Boards, NEW lines \in Seq(Seq(Cell))
  PROVE  ReplayedLines(b, lines) \in ProgramType /\ Named(b, ReplayedLines(b, lines), lines)
<1> DEFINE n == Len(lines)
           A == { p \in ProgramType : Named(b, p, lines) }
           G == [q \in (1 .. n) \X A |-> ProgramLine(b, q[2], lines[q[1]])]
           Then(p, k) == ProgramLine(b, p, lines[k])
<1>1. n \in Nat /\ Empty \in A
  BY EmptyType
<1>2. \A k \in 1 .. n : \A p \in A : Then(p, k) \in A
  BY LineGood
<1>3. G \in [(1 .. n) \X A -> A] /\ \A k \in 1 .. n : \A p \in A : G[<<k, p>>] = Then(p, k)
  BY <1>2
<1>4. \A p \in A : p \in ProgramType /\ Named(b, p, lines)
  OBVIOUS
<1> DEFINE from == CHOOSE f : f = [k \in 0 .. n |-> IF k = 0 THEN Empty ELSE Then(f[k - 1], k)]
<1>5. ReplayedLines(b, lines) = from[n]
  BY DEF ReplayedLines
<1> HIDE DEF n, A, G, Then
<1>6. PICK f \in [0 .. n -> A] : f[0] = Empty /\ \A k \in 1 .. n : f[k] = G[<<k, f[k - 1]>>]
  <2>1. Recursion(n, A, Empty, G)
    BY <1>1, <1>3, RecursionOn
  <2> QED
    BY <2>1 DEF Recursion
<1>7. \A k \in 1 .. n : f[k] = Then(f[k - 1], k)
  <2> SUFFICES ASSUME NEW k \in 1 .. n PROVE f[k] = Then(f[k - 1], k)
    OBVIOUS
  <2>1. f[k - 1] \in A
    BY <1>1
  <2> QED
    BY <1>3, <1>6, <2>1
<1>8. f = [k \in 0 .. n |-> IF k = 0 THEN Empty ELSE Then(f[k - 1], k)]
  BY <1>1, <1>6, <1>7
<1>9. from = [k \in 0 .. n |-> IF k = 0 THEN Empty ELSE Then(from[k - 1], k)]
  BY <1>8
<1> HIDE DEF from
<1>10. from[n] \in A
  <2>1. from[0] \in A
    BY <1>1, <1>9
  <2>2. ASSUME NEW k \in 1 .. n, from[k - 1] \in A PROVE from[k] \in A
    <3>1. from[k] = Then(from[k - 1], k)
      BY <1>1, <1>9
    <3> QED
      BY <1>2, <2>2, <3>1
  <2>3. \A k \in 0 .. n : from[k] \in A
    BY <1>1, <2>1, <2>2, KeptBySteps
  <2> QED
    BY <1>1, <2>3
<1> QED
  BY <1>4, <1>5, <1>10
-----------------------------------------------------------------------------
(* The program a board holds.                                              *)
LEMMA LoadedType == ASSUME flash \in FlashType PROVE Loaded \in Seq(Cell)
<1>1. CASE flash.magic /\ flash.len \in 1 .. Cap
  <2>1. flash.cells \in Seq(Cell) /\ Len(flash.cells) = Cap
    BY StoreAssumption DEF FlashType
  <2> QED
    BY <1>1, <2>1, SubSeqProperties DEF Loaded
<1>2. CASE ~(flash.magic /\ flash.len \in 1 .. Cap)
  BY <1>2, EmptySeq DEF Loaded
<1> QED
  BY <1>1, <1>2

LEMMA TextIsCells == ASSUME NEW text \in Seq(Token) PROVE text \in Seq(Cell)
  BY DEF Cell

LEMMA ProgramStart == Init => ProgramInv
<1> SUFFICES ASSUME Init PROVE ProgramInv
  OBVIOUS
<1>1. board \in Boards /\ loaded = Empty /\ ~loading /\ sent = << >> /\ todo = << >>
  BY DEF Init, StoreInit
<1>2. << >> \in Seq(Cell) /\ << >> \in Seq(SentLines(sent))
  BY EmptySeq
<1> QED
  BY <1>1, <1>2, EmptyType DEF ProgramInv

LEMMA SettleType ==
  ASSUME board \in Boards, NEW p \in ProgramType, NEW lines, Named(board, p, lines)
  PROVE  Settle(p) \in ProgramType /\ Named(board, Settle(p), lines) /\ Check(board, Settle(p))
  BY EmptyType DEF Settle, Accepts

LEMMA LoadKeeps ==
  ASSUME ProgramInv, NEW text \in Texts[board], NEW k \in 0 .. Len(LinesOf(text)), Load(text, k)
  PROVE  ProgramInv'
<1> DEFINE lines == LinesOf(text)
           first == SubSeq(lines, 1, k - 1)
           rest == SubSeq(lines, k + 1, Len(lines))
<1>1. /\ board \in Boards /\ board' = board /\ sent' = text
      /\ loaded' = Empty /\ loading' /\ ~running' /\ todo' = first \o rest
  BY DEF ProgramInv, Load, storeVars
<1>2. text \in Seq(Cell)
  BY <1>1, TextsAssumption, TextIsCells
<1>3. Len(lines) \in Nat
  BY <1>2, LinesOfType
<1>4. \A i \in 1 .. Len(lines) : lines[i] \in SentLines(text)
  BY DEF SentLines
<1> HIDE DEF lines
<1>5. first \in Seq(SentLines(text))
  <2>1. \A i \in 1 .. k - 1 : lines[i] \in SentLines(text)
    BY <1>3, <1>4 DEF lines
  <2> QED
    BY <2>1, SubSeqProperties
<1>6. rest \in Seq(SentLines(text))
  <2>1. \A i \in k + 1 .. Len(lines) : lines[i] \in SentLines(text)
    BY <1>3, <1>4
  <2> QED
    BY <1>3, <2>1, SubSeqProperties
<1>7. todo' \in Seq(SentLines(text))
  <2> HIDE DEF first, rest
  <2> QED
    BY <1>1, <1>5, <1>6, ConcatProperties
<1>8. Named(board, Empty, LinesOf(text)) /\ Empty \in ProgramType
  BY <1>1, EmptyType
<1> QED
  BY <1>1, <1>2, <1>7, <1>8 DEF ProgramInv

LEMMA LineKeeps == ASSUME ProgramInv, Line PROVE ProgramInv'
<1>1. /\ board' = board /\ sent' = sent /\ loading' /\ ~running' /\ loading
      /\ todo # << >> /\ todo' = Tail(todo) /\ loaded' = ProgramLine(board, loaded, Head(todo))
  BY DEF ProgramInv, Line, untouched, storeVars
<1>2. Head(todo) \in SentLines(sent) /\ Tail(todo) \in Seq(SentLines(sent))
  BY <1>1, HeadTailProperties DEF ProgramInv
<1>3. PICK k \in 1 .. Len(LinesOf(sent)) : Head(todo) = LinesOf(sent)[k]
  BY <1>2 DEF SentLines
<1>4. loaded' \in ProgramType /\ Named(board, loaded', LinesOf(sent))
  BY <1>1, <1>3, LinesOfType, LineGood DEF ProgramInv
<1> QED
  BY <1>1, <1>2, <1>4 DEF ProgramInv

LEMMA DotKeeps == ASSUME ProgramInv, Dot PROVE ProgramInv'
<1>1. /\ board' = board /\ sent' = sent /\ ~loading' /\ todo' = todo /\ loaded' = Settle(loaded)
  BY DEF ProgramInv, Dot, untouched, storeVars
<1> QED
  BY <1>1, SettleType DEF ProgramInv

LEMMA PowerKeeps == ASSUME ProgramInv, flash \in FlashType, PowerCycle PROVE ProgramInv'
<1>1. /\ board' = board /\ board \in Boards /\ sent' = Loaded /\ ~loading' /\ todo' = << >>
      /\ loaded' = Settle(ReplayedLines(board, LinesOf(Loaded)))
  BY DEF ProgramInv, PowerCycle, Replayed
<1>2. Loaded \in Seq(Cell) /\ LinesOf(Loaded) \in Seq(Seq(Cell))
  BY LoadedType, LinesOfType
<1>3. todo' \in Seq(SentLines(sent'))
  BY <1>1, EmptySeq
<1>4. /\ loaded' \in ProgramType /\ Named(board, loaded', LinesOf(Loaded))
      /\ Check(board, loaded')
  BY <1>1, <1>2, ReplayGood, SettleType
<1> QED
  BY <1>1, <1>2, <1>3, <1>4 DEF ProgramInv

LEMMA ProgramStep == ProgramInv /\ flash \in FlashType /\ [Next]_vars => ProgramInv'
<1> SUFFICES ASSUME ProgramInv, flash \in FlashType, [Next]_vars PROVE ProgramInv'
  OBVIOUS
<1>1. CASE LoadSome
  BY <1>1, LoadKeeps DEF LoadSome
<1>2. CASE Line
  BY <1>2, LineKeeps
<1>3. CASE Dot
  BY <1>3, DotKeeps
<1>4. CASE PowerCycle
  BY <1>4, PowerKeeps
<1>5. CASE Run
  BY <1>5 DEF ProgramInv, Run, untouched, storeVars
<1>6. CASE UNCHANGED <<board, loaded, loading, todo, sent>> /\ (~loading \/ UNCHANGED running)
  BY <1>6 DEF ProgramInv
<1>7. loading => ~running
  BY DEF ProgramInv
<1>8. Stop \/ StepSome \/ RunOffEnd \/ Save \/ Saving \/ Forget
        \/ (\E in \in Overrides : Override(in)) \/ UNCHANGED vars
      => UNCHANGED <<board, loaded, loading, todo, sent>> /\ (~loading \/ UNCHANGED running)
  BY <1>7 DEF Stop, StepSome, Step, RunOffEnd, Save, SaveWhole, SaveBegins, Saving, WriteBlock,
         Forget, Clear, Override, untouched, storeVars, vars
<1> QED
  BY <1>1, <1>2, <1>3, <1>4, <1>5, <1>6, <1>8 DEF Next
-----------------------------------------------------------------------------
(* The store.  What the flash reads as when its first cells are a text, or *)
(* one up to block k and older cells from there.                           *)
LEMMA ReadsSpliced ==
  ASSUME NEW cells \in [1 .. Cap -> Cell], NEW old \in [1 .. Cap -> Cell],
         NEW text \in Seq(Cell), Len(text) <= Cap, NEW k \in 0 .. Len(text),
         \A i \in 1 .. Len(text) : cells[i] = IF i <= k THEN text[i] ELSE old[i]
  PROVE  SubSeq(cells, 1, Len(text)) = Spliced(text, old, k)
<1> DEFINE n == Len(text)
           t == Spliced(text, old, k)
           s == SubSeq(cells, 1, n)
<1>1. n \in Nat /\ n <= Cap /\ \A i \in 1 .. n : i \in 1 .. Cap
  BY StoreAssumption
<1>2. /\ t \in Seq(Cell) /\ Len(t) = n
      /\ \A i \in 1 .. n : t[i] = IF i <= k THEN text[i] ELSE old[i]
  BY <1>1 DEF Spliced
<1>3. s \in Seq(Cell) /\ Len(s) = n /\ \A i \in 1 .. n : s[i] = cells[i]
  <2>1. \A i \in 1 .. n : cells[i] \in Cell
    BY <1>1
  <2> QED
    BY <1>1, <2>1, SubSeqProperties
<1> HIDE DEF t, s, n
<1>4. \A i \in 1 .. n : s[i] = t[i]
  BY <1>2, <1>3 DEF n
<1>5. s = t
  BY <1>2, <1>3, <1>4, SeqEqual
<1> QED
  BY <1>5 DEF s, t, n

LEMMA SplicedWhole == ASSUME NEW text \in Seq(Cell), NEW old PROVE Spliced(text, old, Len(text)) = text
<1>1. /\ Spliced(text, old, Len(text)) \in Seq(Cell)
      /\ Len(Spliced(text, old, Len(text))) = Len(text)
      /\ \A i \in 1 .. Len(text) : Spliced(text, old, Len(text))[i] = text[i]
  BY DEF Spliced
<1> QED
  BY <1>1, SeqEqual

LEMMA ReadsText ==
  ASSUME NEW cells \in [1 .. Cap -> Cell], NEW text \in Seq(Cell), Len(text) <= Cap,
         \A i \in 1 .. Len(text) : cells[i] = text[i]
  PROVE  SubSeq(cells, 1, Len(text)) = text
<1>1. /\ Len(text) \in 0 .. Len(text)
      /\ \A i \in 1 .. Len(text) : cells[i] = IF i <= Len(text) THEN text[i] ELSE cells[i]
  OBVIOUS
<1>2. SubSeq(cells, 1, Len(text)) = Spliced(text, cells, Len(text))
  BY <1>1, ReadsSpliced, Zenon
<1> QED
  BY <1>2, SplicedWhole

LEMMA BlankType == Blank \in FlashType /\ Blank.cells \in [1 .. Cap -> Cell]
  BY DEF Blank, FlashType, Cell

(* A SAVE that is cut leaves one of the three.                             *)
LEMMA CutBoots == ASSUME flash \in FlashType, Writing PROVE BootsWhatWasSaved
<1>1. /\ flash.cells \in [1 .. Cap -> Cell] /\ cut.cells \in [1 .. Cap -> Cell]
      /\ writing.text \in Seq(Cell) /\ Len(writing.text) <= Cap
      /\ cut.text = writing.text /\ writing.at \in 0 .. Len(writing.text)
  BY DEF Writing, FlashType
<1>2. cut # Whole
  <2>1. 1 \in DOMAIN cut.cells
    BY <1>1, StoreAssumption
  <2>2. DOMAIN Whole.cells = {}
    BY DEF Whole
  <2> QED
    BY <2>1, <2>2
<1>3. CASE writing.at = 0
  BY <1>2, <1>3 DEF Writing, BootsWhatWasSaved
<1>4. CASE writing.at # 0
  <2>1. /\ flash.magic /\ flash.len = Len(writing.text) /\ flash.len \in 1 .. Cap
        /\ writing.at - 1 \in 0 .. Len(writing.text)
    BY <1>1, <1>4 DEF Writing
  <2>2. \A i \in 1 .. Len(writing.text) :
          flash.cells[i] = IF i <= writing.at - 1 THEN writing.text[i] ELSE cut.cells[i]
    BY <1>1, StoreAssumption DEF Writing
  <2>3. Loaded = SubSeq(flash.cells, 1, Len(writing.text))
    BY <2>1 DEF Loaded
  <2>4. Loaded = Spliced(writing.text, cut.cells, writing.at - 1)
    <3>1. SubSeq(flash.cells, 1, Len(writing.text))
            = Spliced(writing.text, cut.cells, writing.at - 1)
      BY <1>1, <2>1, <2>2, ReadsSpliced, Zenon
    <3> QED
      BY <2>3, <3>1
  <2>5. Erases => cut.cells = Blank.cells
    BY DEF Writing
  <2> QED
    BY <1>1, <1>2, <2>1, <2>4, <2>5 DEF Writing, BootsWhatWasSaved
<1> QED
  BY <1>3, <1>4

LEMMA StoreStart == Init => StoreInv
<1> SUFFICES ASSUME Init PROVE StoreInv
  OBVIOUS
<1>1. flash = Blank /\ writing = Idle /\ settled = << >> /\ board \in Boards
  BY DEF Init, StoreInit
<1>2. Loaded = settled
  BY <1>1 DEF Loaded, Blank
<1> QED
  BY <1>1, <1>2, BlankType, EmptySeq DEF StoreInv, BootsWhatWasSaved

LEMMA SavesWhole ==
  ASSUME StoreInv, NEW text \in Seq(Cell), writing = Idle, SaveWhole(text)
  PROVE  StoreInv'
<1> DEFINE cells == [i \in 1 .. Cap |-> IF i <= Len(text) THEN text[i] ELSE Erased]
<1>1. /\ Len(text) <= Cap /\ settled' = text /\ board' = board /\ writing' = Idle
      /\ flash' = [magic |-> TRUE, len |-> Len(text), cells |-> cells]
  BY DEF SaveWhole, Written
<1>2. /\ cells \in [1 .. Cap -> Cell]
      /\ \A i \in 1 .. Len(text) : cells[i] = text[i]
  BY <1>1, StoreAssumption DEF Cell
<1> HIDE DEF cells
<1>3. Loaded' = text
  <2>1. CASE text = << >>
    BY <1>1, <2>1 DEF Loaded
  <2>2. CASE text # << >>
    <3>1. Len(text) \in 1 .. Cap
      BY <1>1, <2>2, EmptySeq, StoreAssumption
    <3> QED
      BY <1>1, <1>2, <3>1, ReadsText DEF Loaded
  <2> QED
    BY <2>1, <2>2
<1> QED
  BY <1>1, <1>2, <1>3 DEF StoreInv, BootsWhatWasSaved, FlashType

LEMMA SaveStarts ==
  ASSUME StoreInv, NEW text \in Seq(Cell), writing = Idle, SaveBegins(text)
  PROVE  StoreInv'
<1>1. /\ Blob /\ Len(text) <= Cap /\ writing' = [text |-> text, at |-> 0] /\ board' = board
      /\ flash' = IF Erases THEN Blank ELSE flash
      /\ cut' = [text |-> text, before |-> Loaded, cells |-> flash'.cells] /\ settled' = settled
  BY DEF SaveBegins, Erasing
<1>2. flash' \in FlashType
  BY <1>1, BlankType DEF StoreInv
<1>3. Loaded' = IF Erases THEN << >> ELSE Loaded
  BY <1>1 DEF Loaded, Blank
<1>4. writing' # Idle
  BY <1>1 DEF Idle
<1>5. Writing'
  BY <1>1, <1>2, <1>3 DEF Writing, FlashType, Blob, Erases
<1> QED
  BY <1>1, <1>2, <1>4, <1>5 DEF StoreInv

LEMMA BlockKeeps == ASSUME StoreInv, WriteBlock PROVE StoreInv'
<1> DEFINE text == writing.text
           n == Len(text)
           k == writing.at
<1>1. /\ writing # Idle /\ Writing /\ board' = board
      /\ flash' = IF k = 0 THEN HeaderBlock ELSE TextBlock(k)
      /\ IF k = n THEN writing' = Idle /\ settled' = text
         ELSE writing' = [writing EXCEPT !.at = k + 1] /\ settled' = settled /\ cut' = cut
  BY DEF StoreInv, WriteBlock
<1>2. /\ text \in Seq(Cell) /\ n \in Nat /\ n <= Cap /\ k \in 0 .. n
      /\ writing \in [text : Seq(Cell), at : Nat]
  BY <1>1 DEF Writing
<1>3. /\ flash' \in FlashType /\ flash'.magic /\ flash'.len = n
      /\ \A i \in 1 .. Cap : flash'.cells[i] = IF i < k + 1 THEN text[i] ELSE cut.cells[i]
  <2>1. CASE k = 0
    <3>1. flash' = [flash EXCEPT !.magic = TRUE, !.len = n]
      BY <1>1, <2>1 DEF HeaderBlock
    <3>2. flash' \in FlashType /\ flash'.magic /\ flash'.len = n /\ flash'.cells = flash.cells
      BY <1>2, <3>1 DEF StoreInv, FlashType
    <3> QED
      BY <1>1, <2>1, <3>2 DEF Writing
  <2>2. CASE k # 0
    <3>1. k \in 1 .. n /\ k \in 1 .. Cap /\ text[k] \in Cell
      BY <1>2, <2>2, StoreAssumption
    <3>2. flash' = [flash EXCEPT !.cells = [flash.cells EXCEPT ![k] = text[k]]]
      BY <1>1, <2>2 DEF TextBlock, StoreInv, FlashType
    <3>3. /\ flash' \in FlashType /\ flash'.magic = flash.magic /\ flash'.len = flash.len
          /\ flash'.cells = [flash.cells EXCEPT ![k] = text[k]]
      BY <3>1, <3>2 DEF StoreInv, FlashType
    <3>4. \A i \in 1 .. Cap : flash'.cells[i] = IF i = k THEN text[i] ELSE flash.cells[i]
      BY <3>1, <3>3 DEF StoreInv, FlashType
    <3>5. flash.magic /\ flash.len = n
      BY <1>1, <2>2 DEF Writing
    <3>6. \A i \in 1 .. Cap : flash.cells[i] = IF i < k THEN text[i] ELSE cut.cells[i]
      BY <1>1 DEF Writing
    <3> QED
      BY <3>1, <3>3, <3>4, <3>5, <3>6
  <2> QED
    BY <2>1, <2>2
<1>4. CASE k = n
  <2>1. writing' = Idle /\ settled' = text
    BY <1>1, <1>4
  <2>2. Loaded' = text
    <3>1. CASE n = 0
      BY <1>2, <1>3, <3>1, EmptySeq DEF Loaded
    <3>2. CASE n # 0
      <4>1. n \in 1 .. Cap /\ \A i \in 1 .. n : flash'.cells[i] = text[i]
        BY <1>2, <1>3, <1>4, <3>2, StoreAssumption
      <4>2. flash'.cells \in [1 .. Cap -> Cell]
        BY <1>3 DEF FlashType
      <4>3. SubSeq(flash'.cells, 1, n) = text
        BY <1>2, <4>1, <4>2, ReadsText
      <4> QED
        BY <1>3, <4>1, <4>3 DEF Loaded
    <3> QED
      BY <3>1, <3>2
  <2> QED
    BY <1>1, <1>2, <1>3, <2>1, <2>2 DEF StoreInv, BootsWhatWasSaved
<1>5. CASE k # n
  <2>1. writing' = [text |-> text, at |-> k + 1] /\ settled' = settled /\ cut' = cut
    BY <1>1, <1>2, <1>5
  <2>2. writing' # Idle /\ k + 1 \in 1 .. n
    BY <1>2, <1>5, <2>1 DEF Idle
  <2>3. Writing'
    BY <1>1, <1>2, <1>3, <2>1, <2>2 DEF Writing, Blob, Erases
  <2> QED
    BY <1>1, <1>3, <2>1, <2>2, <2>3 DEF StoreInv
<1> QED
  BY <1>4, <1>5

LEMMA ClearKeeps == ASSUME StoreInv, Clear PROVE StoreInv'
<1>1. /\ writing' = Idle /\ flash' = Cleared /\ settled' = << >> /\ board' = board
  BY DEF Clear
<1>2. flash' \in FlashType /\ ~flash'.magic
  BY <1>1, BlankType DEF Cleared, StoreInv, FlashType, Blank
<1> QED
  BY <1>1, <1>2, EmptySeq DEF StoreInv, BootsWhatWasSaved, Loaded

LEMMA StoreStep == StoreInv /\ ProgramInv /\ [Next]_vars => StoreInv'
<1> SUFFICES ASSUME StoreInv, ProgramInv, [Next]_vars PROVE StoreInv'
  OBVIOUS
<1>1. CASE Save
  <2>1. writing = Idle /\ loaded.text \in Seq(Cell)
    BY <1>1 DEF Save, Quiet, ProgramInv, ProgramType
  <2> QED
    BY <1>1, <2>1, SavesWhole, SaveStarts DEF Save
<1>2. CASE Saving
  BY <1>2, BlockKeeps DEF Saving
<1>3. CASE Forget
  BY <1>3, ClearKeeps DEF Forget
<1>4. CASE PowerCycle
  <2>1. writing' = Idle /\ UNCHANGED <<board, flash, settled, cut>>
    BY <1>4 DEF PowerCycle
  <2>2. BootsWhatWasSaved
    BY CutBoots DEF StoreInv
  <2>3. BootsWhatWasSaved'
    BY <2>1, <2>2 DEF BootsWhatWasSaved, Loaded, Erases, Blob
  <2> QED
    BY <2>1, <2>3 DEF StoreInv
<1>5. CASE UNCHANGED storeVars
  BY <1>5 DEF storeVars, StoreInv, Writing, BootsWhatWasSaved, Loaded, Erases, Blob
<1>6. LoadSome \/ Line \/ Dot \/ Run \/ Stop \/ StepSome \/ RunOffEnd
        \/ (\E in \in Overrides : Override(in)) \/ UNCHANGED vars
      => UNCHANGED storeVars
  BY DEF LoadSome, Load, Line, Dot, Run, Stop, StepSome, Step, RunOffEnd, Override, untouched, vars
<1> QED
  BY <1>1, <1>2, <1>3, <1>4, <1>5, <1>6 DEF Next

(* What the next boot loads is what was saved, wherever power cut a SAVE:  *)
(* the code of storeSave, storeClear and storeLoad under runtime::init.    *)
THEOREM Boots == Spec => []BootsWhatWasSaved
<1>1. Init => ProgramInv /\ StoreInv
  BY ProgramStart, StoreStart
<1>2. StoreInv => flash \in FlashType
  BY DEF StoreInv
<1>3. StoreInv => BootsWhatWasSaved
  BY CutBoots DEF StoreInv
<1> QED
  BY <1>1, <1>2, <1>3, ProgramStep, StoreStep, PTL DEF Spec
-----------------------------------------------------------------------------
(* The pads.  From h to g nothing but the pads ps and the channels cs      *)
(* changes.                                                                *)
Touches(h, g, ps, cs) ==
  /\ IsHal(g)
  /\ SymDiff(h.out, g.out) \subseteq ps /\ SymDiff(h.high, g.high) \subseteq ps
  /\ SymDiff(h.routed, g.routed) \subseteq ps /\ SymDiff(h.on, g.on) \subseteq cs

LEMMA TouchThen ==
  ASSUME NEW h, NEW g, NEW k, NEW ps, NEW qs, NEW cs, NEW ds,
         Touches(h, g, ps, cs), Touches(g, k, qs, ds)
  PROVE  Touches(h, k, ps \cup qs, cs \cup ds)
<1>1. \A A, B, C, X, Y : SymDiff(A, B) \subseteq X /\ SymDiff(B, C) \subseteq Y
        => SymDiff(A, C) \subseteq X \cup Y
  BY Zenon DEF SymDiff
<1>2. /\ SymDiff(h.out, k.out) \subseteq ps \cup qs /\ SymDiff(h.high, k.high) \subseteq ps \cup qs
      /\ SymDiff(h.routed, k.routed) \subseteq ps \cup qs
  BY <1>1 DEF Touches
<1>3. SymDiff(h.on, k.on) \subseteq cs \cup ds
  BY <1>1 DEF Touches
<1> QED
  BY <1>2, <1>3 DEF Touches

LEMMA TouchNothing == ASSUME NEW h, IsHal(h), NEW ps, NEW cs PROVE Touches(h, h, ps, cs)
<1>1. \A A, X : SymDiff(A, A) \subseteq X
  BY DEF SymDiff
<1> QED
  BY <1>1 DEF Touches

LEMMA TouchMore ==
  ASSUME NEW h, NEW g, NEW ps, NEW qs, NEW cs, NEW ds, Touches(h, g, ps, cs),
         ps \subseteq qs, cs \subseteq ds
  PROVE  Touches(h, g, qs, ds)
  BY DEF Touches

LEMMA ModeTouches ==
  ASSUME NEW b, NEW h, IsHal(h), NEW p, NEW mode
  PROVE  Touches(h, PinMode(b, h, p, mode), Mirrored(b, p), {})
<1> DEFINE ps == IF mode = 1 THEN Mirrored(b, p) ELSE {p}
           out == IF mode = 1 THEN h.out \cup ps ELSE h.out \ ps
           g == [h EXCEPT !.out = out, !.high = h.high \ ps, !.routed = h.routed \ ps]
<1>1. PinMode(b, h, p, mode) = IF ~PadOk(b, p) THEN h ELSE g
  BY DEF PinMode
<1>2. ps \subseteq Mirrored(b, p)
  BY DEF Mirrored
<1>3. SymDiff(h.out, out) \subseteq ps
  BY DEF SymDiff
<1> HIDE DEF ps, out
<1>4. IsHal(g) /\ g.out = out /\ g.high = h.high \ ps /\ g.routed = h.routed \ ps /\ g.on = h.on
  BY DEF IsHal
<1> HIDE DEF g
<1>5. Touches(h, g, Mirrored(b, p), {})
  BY <1>2, <1>3, <1>4 DEF Touches, SymDiff
<1> QED
  BY <1>1, <1>5, TouchNothing

LEMMA WriteTouches ==
  ASSUME NEW b, NEW h, IsHal(h), NEW p, NEW level
  PROVE  Touches(h, PinWrite(b, h, p, level), Mirrored(b, p), {})
<1> DEFINE ps == Mirrored(b, p)
           high == IF level # 0 THEN h.high \cup ps ELSE h.high \ ps
           g == [h EXCEPT !.high = high]
<1>1. PinWrite(b, h, p, level) = IF ~PadOk(b, p) THEN h ELSE g
  BY DEF PinWrite
<1> HIDE DEF ps
<1>2. SymDiff(h.high, high) \subseteq ps
  BY DEF SymDiff
<1> HIDE DEF high
<1>3. IsHal(g) /\ g.high = high /\ g.out = h.out /\ g.routed = h.routed /\ g.on = h.on
  BY DEF IsHal
<1> HIDE DEF g
<1>4. Touches(h, g, ps, {})
  BY <1>2, <1>3 DEF Touches, SymDiff
<1> QED
  BY <1>1, <1>4, TouchNothing DEF ps

(* A channel goes on or off.                                               *)
LEMMA DutyTouches ==
  ASSUME NEW h, IsHal(h), NEW on, NEW ps, NEW cs, SymDiff(h.on, on) \subseteq cs
  PROVE  Touches(h, [h EXCEPT !.on = on], ps, cs)
<1> DEFINE g == [h EXCEPT !.on = on]
<1>1. IsHal(g) /\ g.on = on /\ g.out = h.out /\ g.routed = h.routed /\ g.high = h.high
  BY DEF IsHal
<1> HIDE DEF g
<1>2. \A A, X : SymDiff(A, A) \subseteq X
  BY DEF SymDiff
<1>3. Touches(h, g, ps, cs)
  BY <1>1, <1>2 DEF Touches
<1> QED
  BY <1>3 DEF g

LEMMA DutyOn ==
  ASSUME NEW h, IsHal(h), NEW ps, NEW c
  PROVE  Touches(h, [h EXCEPT !.on = @ \cup {c}], ps, {c})
<1>1. SymDiff(h.on, h.on \cup {c}) \subseteq {c}
  BY DEF SymDiff
<1> QED
  BY <1>1, DutyTouches

LEMMA DutyOff ==
  ASSUME NEW h, IsHal(h), NEW ps, NEW cs
  PROVE  Touches(h, [h EXCEPT !.on = @ \ cs], ps, cs)
<1>1. SymDiff(h.on, h.on \ cs) \subseteq cs
  BY DEF SymDiff
<1> QED
  BY <1>1, DutyTouches

LEMMA RouteTouches ==
  ASSUME NEW b, NEW h, IsHal(h), NEW p
  PROVE  Touches(h, RouteLedc(b, h, p), Mirrored(b, p), {})
<1> DEFINE m == PinMode(b, h, p, 1)
           g == [m EXCEPT !.routed = m.routed \cup {p}]
<1>1. Touches(h, m, Mirrored(b, p), {}) /\ IsHal(m)
  BY ModeTouches DEF Touches
<1>2. RouteLedc(b, h, p) = g
  BY DEF RouteLedc
<1> HIDE DEF m
<1>3. /\ IsHal(g) /\ g.on = m.on /\ g.out = m.out /\ g.high = m.high
      /\ g.routed = m.routed \cup {p}
  BY <1>1 DEF IsHal
<1> HIDE DEF g
<1>4. p \in Mirrored(b, p)
  BY DEF Mirrored
<1>5. Touches(m, g, Mirrored(b, p), {})
  BY <1>3, <1>4 DEF Touches, SymDiff
<1>6. Touches(h, g, Mirrored(b, p) \cup Mirrored(b, p), {} \cup {})
  BY <1>1, <1>5, TouchThen
<1> QED
  BY <1>2, <1>6, TouchMore

(* TONE and SERVO: the pad, and its own channel.                           *)
ToneChannel(b, p) == IF IsSecond(b, p, "TONE") THEN "tone2" ELSE "tone"
ServoChannel(b, p) == IF IsSecond(b, p, "SERVO") THEN "servo2" ELSE "servo"

LEMMA RoutedOn ==
  ASSUME NEW b, NEW h, IsHal(h), NEW p, NEW c
  PROVE  Touches(h, [RouteLedc(b, h, p) EXCEPT !.on = @ \cup {c}], Mirrored(b, p), {c})
<1> DEFINE m == RouteLedc(b, h, p)
           g == [m EXCEPT !.on = @ \cup {c}]
<1>1. Touches(h, m, Mirrored(b, p), {}) /\ IsHal(m)
  BY RouteTouches DEF Touches
<1>2. Touches(m, g, {}, {c})
  <2> HIDE DEF m
  <2> QED
    BY <1>1, DutyOn
<1> HIDE DEF m, g
<1>3. Touches(h, g, Mirrored(b, p) \cup {}, {} \cup {c})
  BY <1>1, <1>2, TouchThen
<1>4. Touches(h, g, Mirrored(b, p), {c})
  BY <1>3, TouchMore
<1> QED
  BY <1>4 DEF g, m

LEMMA ToneTouches ==
  ASSUME NEW b, NEW h, IsHal(h), NEW p, NEW hz
  PROVE  Touches(h, Tone(b, h, p, hz), Mirrored(b, p), {ToneChannel(b, p)})
<1>1. Touches(h, h, Mirrored(b, p), {ToneChannel(b, p)})
  BY TouchNothing
<1>2. Touches(h, [RouteLedc(b, h, p) EXCEPT !.on = @ \cup {"tone2"}], Mirrored(b, p), {"tone2"})
  BY RoutedOn
<1>3. Touches(h, [h EXCEPT !.on = @ \cup {"tone"}], Mirrored(b, p), {"tone"})
  BY DutyOn
<1> QED
  BY <1>1, <1>2, <1>3 DEF Tone, ToneChannel

LEMMA SilenceTouches ==
  ASSUME NEW b, NEW h, IsHal(h), NEW p \in Nat
  PROVE  Touches(h, ToneOff(b, h, p), Mirrored(b, p), {ToneChannel(b, p)})
<1>1. /\ Touches(h, [h EXCEPT !.on = @ \ {"tone2"}], Mirrored(b, p), {"tone2"})
      /\ Touches(h, [h EXCEPT !.on = @ \ {"tone"}], Mirrored(b, p), {"tone"})
  BY DutyOff
<1> QED
  BY <1>1 DEF ToneOff, ToneChannel

LEMMA ServoTouches ==
  ASSUME NEW b, NEW h, IsHal(h), NEW p
  PROVE  Touches(h, Servo(b, h, p), Mirrored(b, p), {ServoChannel(b, p)})
<1>1. Touches(h, [RouteLedc(b, h, p) EXCEPT !.on = @ \cup {"servo2"}], Mirrored(b, p), {"servo2"})
  BY RoutedOn
<1>2. Touches(h, [h EXCEPT !.on = @ \cup {"servo"}], Mirrored(b, p), {"servo"})
  BY DutyOn
<1> QED
  BY <1>1, <1>2 DEF Servo, ServoChannel

(* MOVE: the motors' pads and channels.                                    *)
LEMMA DriveTouches ==
  ASSUME NEW b, HasMotors(b), NEW h, IsHal(h), NEW in1, NEW in2, NEW c, NEW v
  PROVE  Touches(h, DriveMotor(b, h, in1, in2, c, v), {LegacyPad(b, in1), LegacyPad(b, in2)}, {c})
<1> DEFINE p1 == LegacyPad(b, in1)
           p2 == LegacyPad(b, in2)
           ps == {p1, p2}
           m1 == PinMode(b, h, p1, 1)
           m2 == PinMode(b, m1, p2, 1)
           w1 == PinWrite(b, m2, p1, IF v > 0 THEN 1 ELSE 0)
           w2 == PinWrite(b, w1, p2, IF v < 0 THEN 1 ELSE 0)
           g == [w2 EXCEPT !.on = IF v # 0 THEN @ \cup {c} ELSE @ \ {c}]
<1>1. DriveMotor(b, h, in1, in2, c, v) = g
  BY DEF DriveMotor
<1> HIDE DEF p1, p2
<1>2. Mirrored(b, p1) \subseteq ps /\ Mirrored(b, p2) \subseteq ps
  BY DEF Mirrored, HasMotors
<1> HIDE DEF ps
<1>3. Touches(h, m1, ps, {}) /\ IsHal(m1)
  BY <1>2, ModeTouches, TouchMore DEF Touches
<1>4. Touches(m1, m2, ps, {}) /\ IsHal(m2)
  <2> HIDE DEF m1
  <2> QED
    BY <1>2, <1>3, ModeTouches, TouchMore DEF Touches
<1>5. Touches(m2, w1, ps, {}) /\ IsHal(w1)
  <2> HIDE DEF m2
  <2> QED
    BY <1>2, <1>4, WriteTouches, TouchMore DEF Touches
<1>6. Touches(w1, w2, ps, {}) /\ IsHal(w2)
  <2> HIDE DEF w1
  <2> QED
    BY <1>2, <1>5, WriteTouches, TouchMore DEF Touches
<1>7. Touches(w2, g, {}, {c})
  <2> HIDE DEF w2
  <2>1. SymDiff(w2.on, IF v # 0 THEN w2.on \cup {c} ELSE w2.on \ {c}) \subseteq {c}
    BY DEF SymDiff
  <2> QED
    BY <1>6, <2>1, DutyTouches
<1> HIDE DEF m1, m2, w1, w2, g
<1>8. Touches(h, m2, ps \cup ps, {} \cup {})
  BY <1>3, <1>4, TouchThen
<1>9. Touches(m2, w2, ps \cup ps, {} \cup {})
  BY <1>5, <1>6, TouchThen
<1>10. Touches(m2, g, (ps \cup ps) \cup {}, ({} \cup {}) \cup {c})
  BY <1>7, <1>9, TouchThen
<1>11. Touches(h, g, (ps \cup ps) \cup ((ps \cup ps) \cup {}), ({} \cup {}) \cup (({} \cup {}) \cup {c}))
  BY <1>8, <1>10, TouchThen
<1>12. Touches(h, g, ps, {c})
  BY <1>11, TouchMore
<1> QED
  BY <1>1, <1>12 DEF ps, p1, p2

LEMMA MoveTouches ==
  ASSUME NEW b, NEW h, IsHal(h), NEW left, NEW right
  PROVE  /\ Touches(h, Move(b, h, left, right), MotorPads(b), {"motorL", "motorR"})
         /\ ~HasMotors(b) => Move(b, h, left, right) = h
<1>1. CASE ~HasMotors(b)
  BY <1>1, TouchNothing DEF Move
<1>2. CASE HasMotors(b)
  <2> DEFINE m == DriveMotor(b, h, 10, 11, "motorL", left)
             g == DriveMotor(b, m, 13, 14, "motorR", right)
             P(n) == LegacyPad(b, n)
  <2>1. Touches(h, m, {P(10), P(11)}, {"motorL"}) /\ IsHal(m)
    BY <1>2, DriveTouches DEF Touches
  <2>2. Touches(m, g, {P(13), P(14)}, {"motorR"})
    <3> HIDE DEF m
    <3> QED
      BY <1>2, <2>1, DriveTouches
  <2>3. Move(b, h, left, right) = g
    BY <1>2 DEF Move
  <2> HIDE DEF m, g
  <2>4. Touches(h, g, {P(10), P(11)} \cup {P(13), P(14)}, {"motorL"} \cup {"motorR"})
    BY <2>1, <2>2, TouchThen
  <2>5. {P(10), P(11)} \cup {P(13), P(14)} \subseteq MotorPads(b)
    BY <1>2 DEF MotorPads
  <2> QED
    BY <1>2, <2>3, <2>4, <2>5, TouchMore
<1> QED
  BY <1>1, <1>2

LEMMA DistanceTouches ==
  ASSUME NEW b, NEW h, IsHal(h)
  PROVE  Touches(h, Distance(b, h), {Trig(b), Echo(b)}, {})
<1> DEFINE t == Trig(b)
           e == Echo(b)
           g == [h EXCEPT !.out = (h.out \cup {t}) \ {e}, !.high = h.high \ {t},
                          !.routed = h.routed \ {t, e}]
<1>1. Distance(b, h) = g
  BY DEF Distance
<1> HIDE DEF t, e
<1>2. /\ IsHal(g) /\ g.out = (h.out \cup {t}) \ {e} /\ g.high = h.high \ {t}
      /\ g.routed = h.routed \ {t, e} /\ g.on = h.on
  BY DEF IsHal
<1> HIDE DEF g
<1>3. Touches(h, g, {t, e}, {})
  BY <1>2 DEF Touches, SymDiff
<1> QED
  BY <1>1, <1>3 DEF t, e

LEMMA ToneOffHal == ASSUME NEW b, NEW h, IsHal(h), NEW p PROVE IsHal(ToneOff(b, h, p))
  BY DEF ToneOff, IsHal

(* An end of the program: the motors' pads and channels, and the buzzers'. *)
LEMMA StopTouches ==
  ASSUME NEW b, NEW h, IsHal(h)
  PROVE  Touches(h, StopActuators(b, h), MotorPads(b),
                 (IF HasMotors(b) THEN {"motorL", "motorR"} ELSE {}) \cup {"tone", "tone2"})
<1> DEFINE m == Move(b, h, 0, 0)
           g == [m EXCEPT !.on = m.on \ {"tone", "tone2"}]
           cs == IF HasMotors(b) THEN {"motorL", "motorR"} ELSE {}
<1>1. Touches(h, m, MotorPads(b), cs) /\ IsHal(m)
  <2>1. Touches(h, m, MotorPads(b), {"motorL", "motorR"}) /\ (~HasMotors(b) => m = h)
    BY MoveTouches
  <2>2. Touches(h, h, MotorPads(b), {})
    BY TouchNothing
  <2> HIDE DEF m
  <2> QED
    BY <2>1, <2>2 DEF Touches
<1>2. StopActuators(b, h) = g
  BY DEF StopActuators, ToneOff, IsSecond, NoPad
<1> HIDE DEF m
<1>3. Touches(m, g, {}, {"tone", "tone2"})
  BY <1>1, DutyOff
<1> HIDE DEF g, cs
<1>4. Touches(h, g, MotorPads(b) \cup {}, cs \cup {"tone", "tone2"})
  BY <1>1, <1>3, TouchThen
<1>5. Touches(h, g, MotorPads(b), cs \cup {"tone", "tone2"})
  BY <1>4, TouchMore
<1> QED
  BY <1>2, <1>5 DEF cs

LEMMA StoppedHal == ASSUME NEW b, NEW h, IsHal(h) PROVE IsHal(StopActuators(b, h))
  BY StopTouches DEF Touches

LEMMA ExecHal == ASSUME NEW b, NEW p, NEW h, IsHal(h), NEW in PROVE IsHal(Exec(b, p, h, in))
<1> DEFINE pad == PadOf(b, p, in.a)
<1>1. /\ IsHal(PinMode(b, h, pad, in.b)) /\ IsHal(PinWrite(b, h, pad, in.b))
      /\ IsHal(Tone(b, h, pad, in.b)) /\ IsHal(Servo(b, h, pad))
      /\ IsHal(Move(b, h, in.a, in.b)) /\ IsHal(Distance(b, h)) /\ IsHal(ToneOff(b, h, pad))
      /\ IsHal(StopActuators(b, h))
  BY ModeTouches, WriteTouches, ToneTouches, ServoTouches, MoveTouches, DistanceTouches, ToneOffHal,
     StoppedHal
  DEF Touches
<1> HIDE DEF pad
<1> QED
  BY <1>1 DEF Exec, pad

LEMMA HalStep == HalInv /\ [Next]_vars => HalInv'
<1> SUFFICES ASSUME HalInv, [Next]_vars PROVE HalInv'
  OBVIOUS
<1>1. CASE LoadSome \/ Stop
  BY <1>1, StoppedHal DEF LoadSome, Load, Stop, HalInv
<1>2. CASE StepSome \/ \E in \in Overrides : Override(in)
  <2>1. ASSUME NEW in, Executes(in) PROVE IsHal(hal')
    BY <2>1, ExecHal, StoppedHal DEF Executes, Halts, HalInv
  <2> QED
    BY <1>2, <2>1 DEF StepSome, Step, Override, HalInv
<1>3. CASE PowerCycle
  BY <1>3 DEF PowerCycle, AtReset, HalInv, IsHal
<1>4. CASE RunOffEnd
  BY <1>4, StoppedHal DEF RunOffEnd, Halts, HalInv
<1>5. CASE UNCHANGED hal
  BY <1>5 DEF HalInv
<1>6. Line \/ Dot \/ Run \/ Save \/ Saving \/ Forget \/ UNCHANGED vars => UNCHANGED hal
  BY DEF Line, Dot, Run, Save, Saving, Forget, vars
<1> QED
  BY <1>1, <1>2, <1>3, <1>4, <1>5, <1>6 DEF Next

(* What is changed lies on the touched pads and the touched channels'.     *)
LEMMA ChangedIn ==
  ASSUME NEW b, NEW h, NEW g, NEW ps, NEW cs, Touches(h, g, ps, cs), NEW qs, ps \subseteq qs,
         \A c \in cs : ChannelPad(b, c) \in qs
  PROVE  Changed(b, h, g) \subseteq qs
<1>1. { ChannelPad(b, c) : c \in SymDiff(h.on, g.on) } \subseteq qs
  BY DEF Touches
<1> QED
  BY <1>1 DEF Touches, Changed

LEMMA ChangedAtEnd ==
  ASSUME NEW b, NEW h, IsHal(h)
  PROVE  Changed(b, h, StopActuators(b, h)) \subseteq StopPads(b)
<1> DEFINE cs == (IF HasMotors(b) THEN {"motorL", "motorR"} ELSE {}) \cup {"tone", "tone2"}
<1>1. \A c \in cs : ChannelPad(b, c) \in StopPads(b)
  BY DEF ChannelPad, StopPads, MotorPads
<1>2. Touches(h, StopActuators(b, h), MotorPads(b), cs) /\ MotorPads(b) \subseteq StopPads(b)
  BY StopTouches DEF StopPads
<1> HIDE DEF cs
<1> QED
  BY <1>1, <1>2, ChangedIn

LEMMA ChangedOnly ==
  ASSUME NEW b, NEW h, NEW g, NEW ps, Touches(h, g, ps, {})
  PROVE  Changed(b, h, g) \subseteq ps
  BY ChangedIn

(* The pad of a checked contract-3 instruction.                            *)
LEMMA OwnPad ==
  ASSUME ProgramInv, running, loaded.contract = 3, NEW i \in 1 .. Len(loaded.program),
         NEW in, in = loaded.program[i], UsesPin(in.op)
  PROVE  LET pad == PadOf(board, loaded, in.a)
         IN  /\ pad \in Nat /\ pad \in NamedPads(in.a) /\ pad \notin Reserved(board)
             /\ in.op \in {"TONE", "SERVO"} =>
                  pad = FixedPad(board, in.op) \/ pad = SecondPad(board, in.op)
<1> DEFINE n == in.a - ResRef + 1
           r == loaded.res[n]
           lines == LinesOf(sent)
<1>1. /\ board \in Boards /\ loaded \in ProgramType /\ Named(board, loaded, lines)
      /\ Check(board, loaded)
  BY DEF ProgramInv
<1>2. in \in InstructionType /\ in.a \in Int /\ ResRef \in Int
  <2>1. in \in InstructionType
    BY <1>1 DEF ProgramType
  <2>2. in.a \in Int
    BY <2>1 DEF InstructionType
  <2> QED
    BY <2>1, <2>2 DEF ResRef
<1>3. GoodInstruction(loaded, in)
  BY <1>1 DEF Check
<1>4. IsResRef(in.a) /\ Declared(loaded, in.a) /\ RightKind(in, r)
  BY <1>3 DEF GoodInstruction, ResourceOf
<1>5. n \in 1 .. Len(loaded.res) /\ Len(loaded.res) \in Nat
  BY <1>1, <1>2, <1>4 DEF IsResRef, Declared, ProgramType
<1>6. r \in ResourceType
  BY <1>1, <1>5 DEF ProgramType
<1>7. PadOf(board, loaded, in.a) = r.pad
  BY <1>4 DEF PadOf, Declared, ResourceOf
<1>8. r.pad \notin Reserved(board) /\ RightPad(board, r)
  BY <1>1, <1>5 DEF Check, GoodTable
<1>9. r.pad \in NamedPads(in.a)
  <2>1. PICK k \in 1 .. Len(lines) : Names(board, lines[k], n, r.pad)
    BY <1>1, <1>5 DEF Named
  <2>2. IsRes(lines[k]) /\ lines[k][2][2] = n - 1 /\ r.pad = ByName(board, lines[k][4])
    BY <2>1 DEF Names
  <2>3. ResRef + lines[k][2][2] = in.a
    BY <1>2, <2>2
  <2> QED
    BY <2>2, <2>3 DEF NamedPads
<1>10. ASSUME in.op \in {"TONE", "SERVO"}
       PROVE  r.pad = FixedPad(board, in.op) \/ r.pad = SecondPad(board, in.op)
  <2>1. r.kind = in.op
    BY <1>4, <1>10 DEF RightKind
  <2>2. FixedPad(board, in.op) # NoPad
    BY <1>1, <1>10 DEF FixedPad, Wired, Boards, NoPad
  <2> QED
    BY <1>8, <2>1, <2>2 DEF RightPad
<1> QED
  BY <1>6, <1>7, <1>8, <1>9, <1>10 DEF ResourceType

(* A pad's mirror is reserved only if the pad is.                          *)
LEMMA MirrorFree ==
  ASSUME NEW b \in Boards, NEW p, p \notin Reserved(b)
  PROVE  Mirrored(b, p) \cap Reserved(b) = {} /\ p \in Mirrored(b, p)
  BY DEF Boards, Mirrored, Reserved

LEMMA StepOwnPads ==
  ASSUME ProgramInv, HalInv, running, loaded.contract = 3,
         NEW i \in 1 .. Len(loaded.program), NEW in, in = loaded.program[i], Step(in)
  PROVE  /\ Changed(board, hal, hal') \subseteq PadsOf(in)
         /\ UsesPin(in.op) => Changed(board, hal, hal') \cap Reserved(board) = {}
<1> DEFINE pad == PadOf(board, loaded, in.a)
           ps == Mirrored(board, pad)
           D == Changed(board, hal, hal')
<1>1. /\ board \in Boards /\ IsHal(hal)
      /\ \/ hal' = Exec(board, loaded, hal, in)
         \/ in.op = "GOSUB" /\ hal' = StopActuators(board, hal)
  BY DEF ProgramInv, HalInv, Step, Executes, Halts
<1>2. in \in InstructionType
  BY DEF ProgramInv, ProgramType
<1>3. in.op \in Opcodes /\ in.b \in Int
  BY <1>2 DEF InstructionType
<1>4. CASE UsesPin(in.op)
  <2> hal' = Exec(board, loaded, hal, in)
    BY <1>1, <1>4 DEF UsesPin, PinWrites, PinReads
  <2>1. /\ pad \in Nat /\ pad \in NamedPads(in.a) /\ pad \notin Reserved(board)
        /\ in.op \in {"TONE", "SERVO"} =>
             pad = FixedPad(board, in.op) \/ pad = SecondPad(board, in.op)
    BY <1>4, OwnPad
  <2>2. ps \cap Reserved(board) = {} /\ pad \in ps /\ ps \subseteq Mirror(NamedPads(in.a))
    BY <1>1, <2>1, MirrorFree DEF Mirror
  <2>3. in.op = "MODE" => D \subseteq ps
    <3>1. in.op = "MODE" => hal' = PinMode(board, hal, pad, in.b)
      BY <1>1, <2>1 DEF Exec
    <3>2. Touches(hal, PinMode(board, hal, pad, in.b), ps, {})
      BY <1>1, ModeTouches
    <3>3. Changed(board, hal, PinMode(board, hal, pad, in.b)) \subseteq ps
      BY <3>2, ChangedOnly
    <3> QED
      BY <3>1, <3>3
  <2>4. in.op = "SET" => D \subseteq ps
    <3>1. in.op = "SET" => hal' = PinWrite(board, hal, pad, in.b)
      BY <1>1, <2>1 DEF Exec
    <3>2. Touches(hal, PinWrite(board, hal, pad, in.b), ps, {})
      BY <1>1, WriteTouches
    <3>3. Changed(board, hal, PinWrite(board, hal, pad, in.b)) \subseteq ps
      BY <3>2, ChangedOnly
    <3> QED
      BY <3>1, <3>3
  <2>5. in.op = "TONE" => D \subseteq ps
    <3>1. in.op = "TONE" => hal' = IF in.b > 0 THEN Tone(board, hal, pad, in.b) ELSE ToneOff(board, hal, pad)
      BY <1>1 DEF Exec
    <3>2. /\ Touches(hal, Tone(board, hal, pad, in.b), ps, {ToneChannel(board, pad)})
          /\ Touches(hal, ToneOff(board, hal, pad), ps, {ToneChannel(board, pad)})
      BY <1>1, <2>1, ToneTouches, SilenceTouches
    <3>3. in.op = "TONE" => ChannelPad(board, ToneChannel(board, pad)) = pad
      BY <2>1 DEF ChannelPad, ToneChannel, IsSecond
    <3> HIDE DEF ps, pad
    <3> QED
      BY <2>2, <3>1, <3>2, <3>3, ChangedIn
  <2>6. in.op = "SERVO" => D \subseteq ps
    <3>1. in.op = "SERVO" => hal' = Servo(board, hal, pad)
      BY <1>1 DEF Exec
    <3>2. Touches(hal, Servo(board, hal, pad), ps, {ServoChannel(board, pad)})
      BY <1>1, ServoTouches
    <3>3. in.op = "SERVO" => ChannelPad(board, ServoChannel(board, pad)) = pad
      BY <2>1 DEF ChannelPad, ServoChannel, IsSecond
    <3> HIDE DEF ps, pad
    <3> QED
      BY <2>2, <3>1, <3>2, <3>3, ChangedIn
  <2>7. in.op \notin {"MODE", "SET", "TONE", "SERVO"} => D \subseteq ps
    <3>1. in.op \notin {"MODE", "SET", "TONE", "SERVO"} => hal' = hal
      BY <1>1, <1>4 DEF Exec, UsesPin, PinWrites, PinReads
    <3>2. Touches(hal, hal, ps, {})
      BY <1>1, TouchNothing
    <3>3. Changed(board, hal, hal) \subseteq ps
      BY <3>2, ChangedOnly
    <3> QED
      BY <3>1, <3>3
  <2>8. D \subseteq ps
    BY <2>3, <2>4, <2>5, <2>6, <2>7
  <2> HIDE DEF D, ps
  <2>9. D \subseteq Mirror(NamedPads(in.a)) /\ D \cap Reserved(board) = {}
    BY <2>2, <2>8
  <2> QED
    BY <1>4, <2>9 DEF D, PadsOf
<1>5. CASE ~UsesPin(in.op)
  <2>1. in.op \notin {"MODE", "SET", "TONE", "SERVO"}
    BY <1>5 DEF UsesPin, PinWrites
  <2>2. in.op = "MOVE" => D \subseteq MotorPads(board)
    <3>1. in.op = "MOVE" => hal' = Move(board, hal, in.a, in.b)
      BY <1>1 DEF Exec
    <3>2. CASE HasMotors(board)
      <4>1. Touches(hal, Move(board, hal, in.a, in.b), MotorPads(board), {"motorL", "motorR"})
        BY <1>1, MoveTouches
      <4>2. ChannelPad(board, "motorL") \in MotorPads(board) /\ ChannelPad(board, "motorR") \in MotorPads(board)
        BY <3>2 DEF ChannelPad, MotorPads
      <4> QED
        BY <3>1, <4>1, <4>2, ChangedIn
    <3>3. CASE ~HasMotors(board)
      <4>1. Touches(hal, Move(board, hal, in.a, in.b), MotorPads(board), {})
        BY <1>1, <3>3, MoveTouches, TouchNothing
      <4> QED
        BY <3>1, <4>1, ChangedIn
    <3> QED
      BY <3>2, <3>3
  <2>3. in.op = "DIST" => D \subseteq {Trig(board), Echo(board)}
    <3>1. in.op = "DIST" => hal' = Distance(board, hal)
      BY <1>1 DEF Exec
    <3>2. Touches(hal, Distance(board, hal), {Trig(board), Echo(board)}, {})
      BY <1>1, DistanceTouches
    <3>3. Changed(board, hal, Distance(board, hal)) \subseteq {Trig(board), Echo(board)}
      BY <3>2, ChangedOnly
    <3> QED
      BY <3>1, <3>3
  <2>4. in.op \in {"HALT", "GOSUB"} => D \subseteq StopPads(board)
    <3>1. in.op \in {"HALT", "GOSUB"} => hal' = StopActuators(board, hal) \/ hal' = hal
      BY <1>1 DEF Exec
    <3>2. Changed(board, hal, StopActuators(board, hal)) \subseteq StopPads(board)
      BY <1>1, ChangedAtEnd
    <3>3. Changed(board, hal, hal) \subseteq StopPads(board)
      BY <1>1, TouchNothing, ChangedOnly
    <3> QED
      BY <3>1, <3>2, <3>3
  <2>5. in.op \notin {"MOVE", "DIST", "HALT", "GOSUB"} => D \subseteq {}
    <3>1. in.op \notin {"MOVE", "DIST", "HALT", "GOSUB"} => hal' = hal
      BY <1>1, <2>1 DEF Exec
    <3>2. Touches(hal, hal, {}, {})
      BY <1>1, TouchNothing
    <3>3. Changed(board, hal, hal) \subseteq {}
      BY <3>2, ChangedOnly
    <3> QED
      BY <3>1, <3>3
  <2> HIDE DEF D
  <2>6. D \subseteq Peripheral(in)
    BY <2>2, <2>3, <2>4, <2>5 DEF Peripheral
  <2> QED
    BY <1>5, <2>6 DEF D, PadsOf
<1> QED
  BY <1>4, <1>5

(* An instruction of a contract-3 program drives the pad its text names for*)
(* its resource, none of them reserved, or the motors' or the sensor's:    *)
(* what VM::check is for, of the program parsed, saved, cut and replayed.  *)
(* A program's end drives the motors' pads and the buzzers', no other.     *)
THEOREM OwnPads == Spec => OnlyOwnPads
<1>1. Init => ProgramInv /\ StoreInv /\ HalInv
  BY ProgramStart, StoreStart DEF Init, HalInv, IsHal, AtReset
<1>2. ProgramInv /\ StoreInv /\ HalInv /\ [Next]_vars => ProgramInv' /\ StoreInv' /\ HalInv'
  BY ProgramStep, StoreStep, HalStep DEF StoreInv
<1>3. ProgramInv /\ HalInv =>
        (loaded.contract = 3 =>
           /\ \A i \in 1 .. Len(loaded.program) :
                LET in == loaded.program[i]
                IN  Step(in) =>
                      /\ Changed(board, hal, hal') \subseteq PadsOf(in)
                      /\ UsesPin(in.op) => Changed(board, hal, hal') \cap Reserved(board) = {}
           /\ RunOffEnd => Changed(board, hal, hal') \subseteq StopPads(board))
  <2> SUFFICES ASSUME ProgramInv, HalInv, loaded.contract = 3
               PROVE  /\ \A i \in 1 .. Len(loaded.program) :
                           LET in == loaded.program[i]
                           IN  Step(in) =>
                                 /\ Changed(board, hal, hal') \subseteq PadsOf(in)
                                 /\ UsesPin(in.op) =>
                                      Changed(board, hal, hal') \cap Reserved(board) = {}
                      /\ RunOffEnd => Changed(board, hal, hal') \subseteq StopPads(board)
    OBVIOUS
  <2>1. ASSUME NEW i \in 1 .. Len(loaded.program), NEW in, in = loaded.program[i], Step(in)
        PROVE  /\ Changed(board, hal, hal') \subseteq PadsOf(in)
               /\ UsesPin(in.op) => Changed(board, hal, hal') \cap Reserved(board) = {}
    <3>1. running
      BY <2>1 DEF Step
    <3> QED
      BY <2>1, <3>1, StepOwnPads
  <2>2. RunOffEnd => Changed(board, hal, hal') \subseteq StopPads(board)
    BY ChangedAtEnd DEF HalInv, RunOffEnd, Halts
  <2> QED
    BY <2>1, <2>2
<1> QED
  BY <1>1, <1>2, <1>3, PTL DEF Spec, OnlyOwnPads
=============================================================================
