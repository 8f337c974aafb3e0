----------------------------- MODULE ColorProofs -----------------------------
(***************************************************************************)
(* Proofs about the colour detector, for every frame and every threshold:  *)
(* what SEE() is told is the best object of the picture.  The flood fill   *)
(* pops a region pixel by pixel; the invariant keeps, of the region being  *)
(* filled, the pixels popped (P), of the scan, the pixels of the regions   *)
(* judged (O), and ties the code's sums and bounds to them.  With the      *)
(* other services' invariants it gives the types of Senses.                *)
(***************************************************************************)
EXTENDS SensesProofs, FiniteSetTheorems, SequenceTheorems

(* A frame has a column and a row (FramesAssumption).                      *)
Framed(f) == f.w \in Nat \ {0} /\ f.h \in Nat \ {0}

(* Integers: a least one, and quotient and remainder by a width.           *)
LEMMA LeastNat ==
  ASSUME NEW T, T \subseteq Nat, T # {}
  PROVE  \E m \in T : \A k \in T : m <= k
<1> DEFINE R == OpToRel(<, Nat)
<1>1. \A k, m \in Nat : <<k, m>> \in R <=> k < m
  BY DEF OpToRel
<1>2. IsWellFoundedOn(R, Nat)
  BY NatLessThanWellFounded
<1> HIDE DEF R
<1>3. \E m \in T : \A k \in T : ~(<<k, m>> \in R)
  BY <1>2, WFMin, Zenon
<1>4. PICK m \in T : \A k \in T : ~(<<k, m>> \in R)
  BY <1>3
<1>5. m \in Nat /\ \A k \in T : k \in Nat /\ ~(k < m)
  BY <1>1, <1>4
<1> QED
  BY <1>5

LEMMA DivModIs ==
  ASSUME NEW w \in Nat \ {0}, NEW i \in Nat
  PROVE  /\ i \div w \in Nat /\ i % w \in 0 .. w - 1
         /\ i = w * (i \div w) + (i % w)
  OBVIOUS

LEMMA RowsApart ==
  ASSUME NEW w \in Nat \ {0}, NEW a \in Nat, NEW b \in Nat, a < b
  PROVE  w * a + w <= w * b
<1>1. PICK d \in Nat : b = a + 1 + d
  <2>1. b - a - 1 \in Nat /\ b = a + 1 + (b - a - 1)
    OBVIOUS
  <2> QED
    BY <2>1
<1>2. w * b = w * a + w + w * d /\ w * d \in Nat
  BY <1>1
<1> QED
  BY <1>2

LEMMA DivModOf ==
  ASSUME NEW w \in Nat \ {0}, NEW q \in Nat, NEW c \in 0 .. w - 1
  PROVE  (w * q + c) \div w = q /\ (w * q + c) % w = c
<1> DEFINE i == w * q + c
<1>1. w * q \in Nat /\ i \in Nat
  OBVIOUS
<1> HIDE DEF i
<1>2. PICK d \in Nat, r \in 0 .. w - 1 : d = i \div w /\ r = i % w /\ i = w * d + r
  BY <1>1, DivModIs
<1>3. w * d \in Nat /\ w * q + c = w * d + r
  BY <1>2 DEF i
<1>4. ~(d < q)
  BY <1>1, <1>2, <1>3, RowsApart
<1>5. ~(q < d)
  BY <1>1, <1>2, <1>3, RowsApart
<1>6. d = q /\ r = c
  BY <1>1, <1>3, <1>4, <1>5
<1> QED
  BY <1>2, <1>6 DEF i

(* A pixel and its column and row name each other.                         *)
LEMMA PlaceIs ==
  ASSUME NEW f, Framed(f), NEW i \in Indices(f)
  PROVE  /\ i \in Nat /\ Column(f, i) \in 0 .. f.w - 1 /\ Row(f, i) \in 0 .. f.h - 1
         /\ i = f.w * Row(f, i) + Column(f, i)
<1>1. f.w \in Nat \ {0} /\ f.h \in Nat \ {0} /\ f.w * f.h \in Nat
  BY DEF Framed
<1>2. i \in Nat /\ i < f.w * f.h
  BY <1>1 DEF Indices, Size
<1>3. PICK d \in Nat, r \in 0 .. f.w - 1 :
        d = i \div f.w /\ r = i % f.w /\ i = f.w * d + r
  BY <1>1, <1>2, DivModIs
<1>4. d # f.h
  BY <1>1, <1>2, <1>3
<1>5. ~(f.h < d)
  <2>1. ASSUME f.h < d PROVE f.w * f.h + f.w <= f.w * d
    BY <1>1, <2>1, RowsApart
  <2>2. f.w * d \in Nat /\ ~(f.w * f.h + f.w <= f.w * d)
    <3>1. f.w * d \in Nat /\ i = f.w * d + r /\ r \in Nat
      BY <1>1, <1>3
    <3> QED
      BY <1>1, <1>2, <3>1
  <2> QED
    BY <2>1, <2>2
<1>6. d \in 0 .. f.h - 1
  BY <1>1, <1>4, <1>5
<1> QED
  BY <1>2, <1>3, <1>6 DEF Column, Row

(* Every column and row in the frame has a pixel.                          *)
LEMMA PixelAt ==
  ASSUME NEW f, Framed(f), NEW y \in 0 .. f.h - 1, NEW x \in 0 .. f.w - 1
  PROVE  /\ f.w * y + x \in Indices(f)
         /\ Column(f, f.w * y + x) = x /\ Row(f, f.w * y + x) = y
<1>1. f.w \in Nat \ {0} /\ f.h \in Nat \ {0} /\ f.w * f.h \in Nat /\ f.w * y \in Nat
  BY DEF Framed
<1>2. f.w * y + f.w <= f.w * f.h
  BY <1>1, RowsApart
<1>3. f.w * y + x \in Indices(f)
  BY <1>1, <1>2 DEF Indices, Size
<1>4. (f.w * y + x) \div f.w = y /\ (f.w * y + x) % f.w = x
  <2>1. y \in Nat
    BY <1>1
  <2> QED
    BY <1>1, <2>1, DivModOf, Zenon
<1> QED
  BY <1>3, <1>4 DEF Column, Row

(* The pixels the code tries are the ones beside, above and below.         *)
LEMMA SidesAre ==
  ASSUME NEW f, Framed(f), NEW i \in Indices(f)
  PROVE  /\ HasLeft(f, i) => i - 1 \in Indices(f) /\ Adjacent(f, i, i - 1)
         /\ HasRight(f, i) => i + 1 \in Indices(f) /\ Adjacent(f, i, i + 1)
         /\ HasUp(f, i) => i - f.w \in Indices(f) /\ Adjacent(f, i, i - f.w)
         /\ HasDown(f, i) => i + f.w \in Indices(f) /\ Adjacent(f, i, i + f.w)
         /\ \A j \in Indices(f) : Adjacent(f, i, j) =>
              \/ HasLeft(f, i) /\ j = i - 1
              \/ HasRight(f, i) /\ j = i + 1
              \/ HasUp(f, i) /\ j = i - f.w
              \/ HasDown(f, i) /\ j = i + f.w
<1>1. f.w \in Nat \ {0} /\ f.h \in Nat \ {0}
  BY DEF Framed
<1>2. PICK x \in 0 .. f.w - 1, y \in 0 .. f.h - 1 :
        x = Column(f, i) /\ y = Row(f, i) /\ i = f.w * y + x
  BY PlaceIs
<1>3. ASSUME HasLeft(f, i) PROVE i - 1 \in Indices(f) /\ Adjacent(f, i, i - 1)
  <2>1. x - 1 \in 0 .. f.w - 1 /\ i - 1 = f.w * y + (x - 1)
    BY <1>1, <1>2, <1>3 DEF HasLeft
  <2>2. i - 1 \in Indices(f) /\ Column(f, i - 1) = x - 1 /\ Row(f, i - 1) = y
    BY <2>1, PixelAt
  <2> QED
    BY <1>2, <2>2 DEF Adjacent
<1>4. ASSUME HasRight(f, i) PROVE i + 1 \in Indices(f) /\ Adjacent(f, i, i + 1)
  <2>1. x + 1 \in 0 .. f.w - 1 /\ i + 1 = f.w * y + (x + 1)
    BY <1>1, <1>2, <1>4 DEF HasRight
  <2>2. i + 1 \in Indices(f) /\ Column(f, i + 1) = x + 1 /\ Row(f, i + 1) = y
    BY <2>1, PixelAt
  <2> QED
    BY <1>2, <2>2 DEF Adjacent
<1>5. ASSUME HasUp(f, i) PROVE i - f.w \in Indices(f) /\ Adjacent(f, i, i - f.w)
  <2>1. y - 1 \in 0 .. f.h - 1 /\ i - f.w = f.w * (y - 1) + x
    <3>1. y > 0
      BY <1>2, <1>5 DEF HasUp
    <3>2. f.w * (y - 1) = f.w * y - f.w /\ f.w * y \in Nat
      BY <1>1
    <3> QED
      BY <1>1, <1>2, <3>1, <3>2
  <2>2. i - f.w \in Indices(f) /\ Column(f, i - f.w) = x /\ Row(f, i - f.w) = y - 1
    BY <2>1, PixelAt
  <2> QED
    BY <1>2, <2>2 DEF Adjacent
<1>6. ASSUME HasDown(f, i) PROVE i + f.w \in Indices(f) /\ Adjacent(f, i, i + f.w)
  <2>1. y + 1 \in 0 .. f.h - 1 /\ i + f.w = f.w * (y + 1) + x
    BY <1>1, <1>2, <1>6 DEF HasDown
  <2>2. i + f.w \in Indices(f) /\ Column(f, i + f.w) = x /\ Row(f, i + f.w) = y + 1
    BY <2>1, PixelAt
  <2> QED
    BY <1>2, <2>2 DEF Adjacent
<1>7. ASSUME NEW j \in Indices(f), Adjacent(f, i, j)
      PROVE  \/ HasLeft(f, i) /\ j = i - 1
             \/ HasRight(f, i) /\ j = i + 1
             \/ HasUp(f, i) /\ j = i - f.w
             \/ HasDown(f, i) /\ j = i + f.w
  <2>1. PICK u \in 0 .. f.w - 1, v \in 0 .. f.h - 1 :
          u = Column(f, j) /\ v = Row(f, j) /\ j = f.w * v + u
    BY PlaceIs
  <2>2. \/ y = v /\ x = u + 1
        \/ y = v /\ u = x + 1
        \/ x = u /\ y = v + 1
        \/ x = u /\ v = y + 1
    BY <1>1, <1>2, <1>7, <2>1 DEF Adjacent
  <2>3. CASE y = v /\ x = u + 1
    BY <1>1, <1>2, <2>1, <2>3 DEF HasLeft
  <2>4. CASE y = v /\ u = x + 1
    BY <1>1, <1>2, <2>1, <2>4 DEF HasRight
  <2>5. CASE x = u /\ y = v + 1
    <3>1. \A n \in Nat \ {0}, a \in Nat :
            n * (a + 1) = n * a + n /\ n * a \in Nat /\ n * (a + 1) \in Nat
      OBVIOUS
    <3>2. y = v + 1
      BY <2>5
    <3>3. v \in Nat
      BY <1>1
    <3>4. f.w * y = f.w * v + f.w /\ f.w * v \in Nat /\ f.w * y \in Nat
      BY <1>1, <3>1, <3>2, <3>3, Zenon
    <3> QED
      BY <1>1, <1>2, <2>1, <2>5, <3>4 DEF HasUp
  <2>6. CASE x = u /\ v = y + 1
    <3>1. f.w * v = f.w * y + f.w /\ f.w * v \in Nat /\ f.w * y \in Nat
      BY <1>1, <2>6
    <3> QED
      BY <1>1, <1>2, <2>1, <2>6, <3>1 DEF HasDown
  <2> QED
    BY <2>2, <2>3, <2>4, <2>5, <2>6
<1> QED
  BY <1>3, <1>4, <1>5, <1>6, <1>7

(* What is beside a pixel has it beside.                                   *)
LEMMA AdjacentBack ==
  ASSUME NEW f, Framed(f), NEW i \in Indices(f), NEW j \in Indices(f), Adjacent(f, i, j)
  PROVE  Adjacent(f, j, i)
<1>1. PICK x \in Int, y \in Int, u \in Int, v \in Int :
        x = Column(f, i) /\ y = Row(f, i) /\ u = Column(f, j) /\ v = Row(f, j)
  <2>1. \A k \in Indices(f) : Column(f, k) \in Int /\ Row(f, k) \in Int
    <3>1. f.w \in Nat /\ f.h \in Nat
      BY DEF Framed
    <3>2. \A n \in Nat : \A k \in 0 .. n - 1 : k \in Int
      OBVIOUS
    <3> QED
      BY <3>1, <3>2, PlaceIs, Zenon
  <2> QED
    BY <2>1, Zenon
<1> QED
  BY <1>1 DEF Adjacent
-----------------------------------------------------------------------------
(* Whole sets meet, leave and make whole sets; regions do not overlap.     *)
LEMMA WholesAre ==
  ASSUME NEW f, Framed(f), NEW m, NEW a \in SUBSET Indices(f), NEW b \in SUBSET Indices(f),
         Whole(f, m, a), Whole(f, m, b)
  PROVE  Whole(f, m, a \cap b) /\ Whole(f, m, a \ b) /\ Whole(f, m, a \cup b)
<1> DEFINE I == Indices(f)
<1>1. /\ \A i \in a, j \in I \ a : m[i] = m[j] => ~Adjacent(f, i, j)
      /\ \A i \in b, j \in I \ b : m[i] = m[j] => ~Adjacent(f, i, j)
  BY DEF Whole
<1>2. \A i, j \in I : Adjacent(f, i, j) => Adjacent(f, j, i)
  BY AdjacentBack
<1>3. ASSUME NEW i \in a \cap b, NEW j \in I \ (a \cap b), m[i] = m[j]
      PROVE  ~Adjacent(f, i, j)
  BY <1>1, <1>3
<1>4. ASSUME NEW i \in a \ b, NEW j \in I \ (a \ b), m[i] = m[j]
      PROVE  ~Adjacent(f, i, j)
  BY <1>1, <1>2, <1>4
<1>5. ASSUME NEW i \in a \cup b, NEW j \in I \ (a \cup b), m[i] = m[j]
      PROVE  ~Adjacent(f, i, j)
  BY <1>1, <1>5
<1> QED
  BY <1>3, <1>4, <1>5 DEF Whole

(* A region has one colour and holds no smaller whole set; two regions     *)
(* that meet are one.                                                      *)
LEMMA RegionFields ==
  ASSUME NEW f, NEW m, NEW r \in Regions(f, m)
  PROVE  /\ r \in SUBSET Indices(f) /\ r # {} /\ Whole(f, m, r)
         /\ \A s \in SUBSET r : Whole(f, m, s) => s \in {{}, r}
         /\ \E c \in DOMAIN Bands : r \subseteq OfColor(f, m, c)
  BY DEF Regions, OfColor

LEMMA RegionsApart ==
  ASSUME NEW f, Framed(f), NEW m, NEW q \in Regions(f, m), NEW r \in Regions(f, m),
         q \cap r # {}
  PROVE  q = r
<1>1. /\ q \in SUBSET Indices(f) /\ Whole(f, m, q)
      /\ \A s \in SUBSET q : Whole(f, m, s) => s \in {{}, q}
  BY RegionFields
<1>2. /\ r \in SUBSET Indices(f) /\ Whole(f, m, r)
      /\ \A s \in SUBSET r : Whole(f, m, s) => s \in {{}, r}
  BY RegionFields
<1>3. Whole(f, m, q \cap r)
  BY <1>1, <1>2, WholesAre
<1>4. q \cap r = q /\ q \cap r = r
  BY <1>1, <1>2, <1>3
<1> QED
  BY <1>4
-----------------------------------------------------------------------------
(* The flood fill: P are the pixels popped of the region, O those of the   *)
(* regions judged.                                                         *)
Hues == DOMAIN Bands \cup {NoColor}
Region == [n : Nat, sumx : Nat, centre : Nat, minx : Int, maxx : Int, miny : Int, maxy : Int]
FillType(f) ==
  [next : 0 .. Size(f), seen : SUBSET Indices(f), stack : Seq(Indices(f)), color : Hues,
   region : Region]
Elements(stack) == {stack[k] : k \in 1 .. Len(stack)}
Distinct(stack) == \A k, l \in 1 .. Len(stack) : stack[k] = stack[l] => k = l

Parts(f, s, P, O) ==
  /\ s \in FillType(f) /\ Distinct(s.stack)
  /\ P \in SUBSET Indices(f) /\ O \in SUBSET Indices(f)
  /\ s.seen = O \cup P \cup Elements(s.stack)
  /\ O \cap P = {} /\ O \cap Elements(s.stack) = {} /\ P \cap Elements(s.stack) = {}
Flood(f, m, s, P, O) ==
  /\ Parts(f, s, P, O) /\ Whole(f, m, O)
  /\ s.color # NoColor /\ P \cup Elements(s.stack) \subseteq OfColor(f, m, s.color)
  /\ s.next # 0 /\ s.next - 1 \in P \cup Elements(s.stack)
  /\ \A t \in SUBSET Indices(f) :
       Whole(f, m, t) /\ s.next - 1 \in t => P \cup Elements(s.stack) \subseteq t
Hemmed(f, m, C, s, P) ==
  \A i \in C, j \in Indices(f) :
    m[i] = m[j] /\ Adjacent(f, i, j) => j \in P \cup Elements(s.stack)

LEMMA AppendIs ==
  ASSUME NEW S, NEW stack \in Seq(S), NEW j \in S
  PROVE  /\ Append(stack, j) \in Seq(S)
         /\ Elements(Append(stack, j)) = Elements(stack) \cup {j}
         /\ Distinct(stack) /\ j \notin Elements(stack) => Distinct(Append(stack, j))
<1> DEFINE n == Len(stack)
           r == Append(stack, j)
<1>1. n \in Nat /\ r \in Seq(S) /\ Len(r) = n + 1
  OBVIOUS
<1>2. \A k \in 1 .. n : r[k] = stack[k]
  OBVIOUS
<1>3. r[n + 1] = j
  OBVIOUS
<1> HIDE DEF r
<1>4. 1 .. n + 1 = (1 .. n) \cup {n + 1}
  BY <1>1
<1>5. Elements(r) = Elements(stack) \cup {j}
  BY <1>1, <1>2, <1>3, <1>4 DEF Elements
<1>6. ASSUME Distinct(stack), j \notin Elements(stack) PROVE Distinct(r)
  <2>1. \A k, l \in 1 .. n : stack[k] = stack[l] => k = l
    BY <1>6 DEF Distinct
  <2>2. \A k \in 1 .. n : stack[k] # j
    BY <1>6 DEF Elements
  <2> QED
    BY <1>1, <1>2, <1>3, <1>4, <2>1, <2>2 DEF Distinct
<1> QED
  BY <1>1, <1>5, <1>6 DEF r

LEMMA PopIs ==
  ASSUME NEW S, NEW stack \in Seq(S), stack # << >>, Distinct(stack)
  PROVE  LET n == Len(stack)  rest == SubSeq(stack, 1, n - 1) IN
         /\ rest \in Seq(S) /\ stack[n] \in S /\ Distinct(rest)
         /\ Elements(stack) = Elements(rest) \cup {stack[n]} /\ stack[n] \notin Elements(rest)
<1> DEFINE n == Len(stack)
           r == SubSeq(stack, 1, n - 1)
<1>1. n \in Nat /\ n > 0 /\ \A k \in 1 .. n : stack[k] \in S
  BY EmptySeq, LenProperties
<1>2. r \in Seq(S) /\ Len(r) = n - 1 /\ \A k \in 1 .. n - 1 : r[k] = stack[k]
  <2>1. PICK e \in Nat : e = n - 1 /\ n = e + 1
    BY <1>1
  <2>2. \A k \in 1 .. e : stack[k] \in S /\ 1 + k - 1 = k
    BY <1>1, <2>1
  <2>3. (IF 1 <= e THEN e - 1 + 1 ELSE 0) = e /\ e - 1 + 1 = e
    BY <2>1
  <2>4. SubSeq(stack, 1, e) \in Seq(S)
    BY <2>1, <2>2, SubSeqProperties
  <2>5. Len(SubSeq(stack, 1, e)) = e
    BY <2>1, <2>2, <2>3, SubSeqProperties
  <2>6. \A k \in 1 .. e : SubSeq(stack, 1, e)[k] = stack[k]
    BY <2>1, <2>2, <2>3, SubSeqProperties
  <2> QED
    BY <2>1, <2>4, <2>5, <2>6
<1> HIDE DEF r
<1>3. 1 .. n = (1 .. n - 1) \cup {n} /\ n \notin 1 .. n - 1
  BY <1>1
<1>4. Elements(stack) = Elements(r) \cup {stack[n]}
  BY <1>2, <1>3 DEF Elements
<1>5. Distinct(r) /\ stack[n] \notin Elements(r)
  BY <1>1, <1>2, <1>3 DEF Distinct, Elements
<1> QED
  BY <1>1, <1>2, <1>4, <1>5 DEF r

(* One neighbour tried: it is pushed, or of the region already.            *)
Takes(m, s, r, P, has, j) ==
  /\ r.region = s.region /\ r.next = s.next /\ r.color = s.color
  /\ Elements(s.stack) \subseteq Elements(r.stack)
  /\ has /\ m[j] = s.color => j \in P \cup Elements(r.stack)

LEMMA TriedIs ==
  ASSUME NEW f, Framed(f), NEW m, NEW s, NEW P, NEW O, Flood(f, m, s, P, O),
         NEW top \in P, NEW has, NEW j, has => j \in Indices(f) /\ Adjacent(f, top, j)
  PROVE  LET r == Tried(s, m, has, j) IN
         Flood(f, m, r, P, O) /\ Takes(m, s, r, P, has, j)
<1> DEFINE I == Indices(f)
           r == Tried(s, m, has, j)
           G == P \cup Elements(s.stack)
<1>1. /\ s \in FillType(f) /\ Distinct(s.stack)
      /\ P \in SUBSET I /\ O \in SUBSET I
      /\ s.seen = O \cup P \cup Elements(s.stack)
      /\ O \cap P = {} /\ O \cap Elements(s.stack) = {} /\ P \cap Elements(s.stack) = {}
  BY DEF Flood, Parts
<1>2. /\ Whole(f, m, O) /\ s.color # NoColor /\ G \subseteq OfColor(f, m, s.color)
      /\ s.next # 0 /\ s.next - 1 \in G
      /\ \A t \in SUBSET I : Whole(f, m, t) /\ s.next - 1 \in t => G \subseteq t
  BY DEF Flood
<1>3. top \in I /\ m[top] = s.color
  BY <1>1, <1>2 DEF OfColor
<1>4. s.stack \in Seq(I) /\ s.seen \in SUBSET I
  BY <1>1 DEF FillType
<1>5. CASE has /\ m[j] = s.color /\ j \notin s.seen
  <2>1. r = [s EXCEPT !.stack = Append(s.stack, j), !.seen = s.seen \cup {j}] /\ j \in I
    BY <1>5 DEF Tried, Pushed
  <2>2. PICK stack, seen : stack = Append(s.stack, j) /\ seen = s.seen \cup {j}
    OBVIOUS
  <2>3. /\ stack \in Seq(I) /\ Elements(stack) = Elements(s.stack) \cup {j} /\ Distinct(stack)
    <3>1. j \notin Elements(s.stack)
      BY <1>1, <1>5
    <3> QED
      BY <1>1, <1>4, <2>1, <2>2, <3>1, AppendIs
  <2>4. /\ r.stack = stack /\ r.seen = seen /\ r.region = s.region /\ r.next = s.next
        /\ r.color = s.color /\ r \in FillType(f)
    <3>1. r = [s EXCEPT !.stack = stack, !.seen = seen] /\ seen \in SUBSET I
      BY <1>4, <2>1, <2>2
    <3> HIDE DEF r
    <3> QED
      BY <1>1, <2>3, <3>1 DEF FillType
  <2> HIDE DEF r
  <2>5. Parts(f, r, P, O)
    <3>1. j \notin O /\ j \notin P
      BY <1>1, <1>5
    <3>2. r.seen = O \cup P \cup Elements(r.stack)
      BY <1>1, <2>2, <2>3, <2>4
    <3>3. O \cap Elements(r.stack) = {} /\ P \cap Elements(r.stack) = {} /\ Distinct(r.stack)
      BY <1>1, <2>3, <2>4, <3>1
    <3> QED
      BY <1>1, <2>4, <3>2, <3>3 DEF Parts
  <2>6. ASSUME NEW t \in SUBSET I, Whole(f, m, t), s.next - 1 \in t
        PROVE  P \cup Elements(r.stack) \subseteq t
    <3>1. G \subseteq t
      BY <1>2, <2>6
    <3>2. j \in t
      BY <1>3, <1>5, <2>1, <2>6, <3>1 DEF Whole
    <3> QED
      BY <2>3, <2>4, <3>1, <3>2
  <2>7. P \cup Elements(r.stack) \subseteq OfColor(f, m, s.color)
    BY <1>2, <1>5, <2>1, <2>3, <2>4 DEF OfColor
  <2>8. r.next - 1 \in P \cup Elements(r.stack)
    BY <1>2, <2>3, <2>4
  <2>9. Flood(f, m, r, P, O)
    BY <1>2, <2>4, <2>5, <2>6, <2>7, <2>8 DEF Flood
  <2>10. Takes(m, s, r, P, has, j)
    BY <2>3, <2>4 DEF Takes
  <2> QED
    BY <2>9, <2>10 DEF r
<1>6. CASE ~(has /\ m[j] = s.color /\ j \notin s.seen)
  <2>1. r = s
    BY <1>6 DEF Tried
  <2>2. ASSUME has, m[j] = s.color PROVE j \in G
    <3>1. j \in s.seen /\ j \in I /\ Adjacent(f, j, top)
      BY <1>3, <1>6, <2>2, AdjacentBack
    <3>2. j \notin O
      BY <1>1, <1>2, <1>3, <2>2, <3>1 DEF Whole
    <3> QED
      BY <1>1, <3>1, <3>2
  <2>3. Takes(m, s, s, P, has, j)
    BY <2>2 DEF Takes
  <2> QED
    BY <2>1, <2>3
<1> QED
  BY <1>5, <1>6

LEMMA NeighboursIn ==
  ASSUME NEW f, Framed(f), NEW m, NEW s, NEW P, NEW O, Flood(f, m, s, P, O), NEW top \in P
  PROVE  LET r == PushNeighbours(s, f, m, top) IN
         /\ Flood(f, m, r, P, O)
         /\ r.region = s.region /\ r.next = s.next /\ r.color = s.color
         /\ Elements(s.stack) \subseteq Elements(r.stack)
         /\ Hemmed(f, m, {top}, r, P)
<1> DEFINE left  == Tried(s, m, HasLeft(f, top), top - 1)
           right == Tried(left, m, HasRight(f, top), top + 1)
           up    == Tried(right, m, HasUp(f, top), top - f.w)
           down  == Tried(up, m, HasDown(f, top), top + f.w)
<1>1. top \in Indices(f) /\ m[top] = s.color
  BY DEF Flood, Parts, OfColor
<1>3. Flood(f, m, left, P, O) /\ Takes(m, s, left, P, HasLeft(f, top), top - 1)
  <2>1. HasLeft(f, top) => top - 1 \in Indices(f) /\ Adjacent(f, top, top - 1)
    BY <1>1, SidesAre
  <2> QED
    BY <2>1, TriedIs
<1> HIDE DEF left
<1>4. Flood(f, m, right, P, O) /\ Takes(m, left, right, P, HasRight(f, top), top + 1)
  <2>1. HasRight(f, top) => top + 1 \in Indices(f) /\ Adjacent(f, top, top + 1)
    BY <1>1, SidesAre
  <2> QED
    BY <1>3, <2>1, TriedIs
<1> HIDE DEF right
<1>5. Flood(f, m, up, P, O) /\ Takes(m, right, up, P, HasUp(f, top), top - f.w)
  <2>1. HasUp(f, top) => top - f.w \in Indices(f) /\ Adjacent(f, top, top - f.w)
    BY <1>1, SidesAre
  <2> QED
    BY <1>4, <2>1, TriedIs
<1> HIDE DEF up
<1>6. Flood(f, m, down, P, O) /\ Takes(m, up, down, P, HasDown(f, top), top + f.w)
  <2>1. HasDown(f, top) => top + f.w \in Indices(f) /\ Adjacent(f, top, top + f.w)
    BY <1>1, SidesAre
  <2> QED
    BY <1>5, <2>1, TriedIs
<1> HIDE DEF down
<1>7. ASSUME NEW j \in Indices(f), m[top] = m[j], Adjacent(f, top, j)
      PROVE  j \in P \cup Elements(down.stack)
  <2>1. \/ HasLeft(f, top) /\ j = top - 1
        \/ HasRight(f, top) /\ j = top + 1
        \/ HasUp(f, top) /\ j = top - f.w
        \/ HasDown(f, top) /\ j = top + f.w
    BY <1>1, <1>7, SidesAre
  <2> QED
    BY <1>1, <1>3, <1>4, <1>5, <1>6, <1>7, <2>1 DEF Takes
<1>8. Hemmed(f, m, {top}, down, P)
  BY <1>7 DEF Hemmed
<1> QED
  BY <1>3, <1>4, <1>5, <1>6, <1>8 DEF Takes, left, right, up, down, PushNeighbours
-----------------------------------------------------------------------------
(* What is measured of a region is true of the pixels popped so far.       *)
Measures(f, P, r) ==
  /\ r \in Region /\ r.n = Cardinality(P) /\ r.sumx = LeftOf(f, P)
  /\ r.centre = Cardinality({i \in P : InCentre(f, i)})
  /\ r.sumx <= r.n * (f.w - 1)
Boxed(f, P, r) ==
  /\ \A i \in P : /\ r.minx <= Column(f, i) /\ Column(f, i) <= r.maxx
                  /\ r.miny <= Row(f, i) /\ Row(f, i) <= r.maxy
  /\ P # {} => /\ r.minx \in Columns(f, P) /\ r.maxx \in Columns(f, P)
               /\ r.miny \in Rows(f, P) /\ r.maxy \in Rows(f, P)
  /\ P = {} => r.minx = f.w /\ r.maxx = -1 /\ r.miny = f.h /\ r.maxy = -1

LEMMA PixelsFinite ==
  ASSUME NEW f, Framed(f), NEW P \in SUBSET Indices(f)
  PROVE  /\ IsFiniteSet(P) /\ Cardinality(P) \in Nat /\ Cardinality(P) <= Size(f)
         /\ Size(f) \in Nat \ {0}
<1>1. Size(f) \in Nat \ {0}
  BY DEF Framed, Size
<1>2. IsFiniteSet(0 .. Size(f) - 1) /\ Cardinality(0 .. Size(f) - 1) = Size(f)
  <2>1. 0 \in Int /\ Size(f) - 1 \in Int /\ ~(0 > Size(f) - 1) /\ Size(f) - 1 - 0 + 1 = Size(f)
    BY <1>1
  <2> QED
    BY <2>1, FS_Interval
<1> QED
  BY <1>1, <1>2, FS_Subset, FS_CardinalityType DEF Indices

LEMMA LeftOfIs ==
  ASSUME NEW f, Framed(f), NEW P \in SUBSET Indices(f), NEW i \in Indices(f), i \notin P
  PROVE  LeftOf(f, P) \in Nat /\ LeftOf(f, P \cup {i}) = LeftOf(f, P) + Column(f, i)
<1> DEFINE C == 0 .. f.w
           L(s) == {m \in s \X C : m[2] < Column(f, m[1])}
           x == Column(f, i)
<1>1. f.w \in Nat \ {0} /\ x \in 0 .. f.w - 1 /\ x \in Nat
  BY PlaceIs DEF Framed
<1>2. IsFiniteSet(C) /\ IsFiniteSet(P)
  <2>1. 0 \in Int /\ f.w \in Int
    BY <1>1
  <2> QED
    BY <2>1, FS_Interval, PixelsFinite
<1>3. IsFiniteSet(L(P))
  <2>1. IsFiniteSet(P \X C)
    BY <1>2, FS_Product
  <2>2. L(P) \in SUBSET (P \X C)
    OBVIOUS
  <2> QED
    BY <2>1, <2>2, FS_Subset
<1>4. IsFiniteSet({i} \X (0 .. x - 1)) /\ Cardinality({i} \X (0 .. x - 1)) = x
  <2>1. IsFiniteSet(0 .. x - 1) /\ Cardinality(0 .. x - 1) = x
    <3>1. 0 \in Int /\ x - 1 \in Int /\ (IF 0 > x - 1 THEN 0 ELSE x - 1 - 0 + 1) = x
      BY <1>1
    <3> QED
      BY <3>1, FS_Interval
  <2>2. IsFiniteSet({i}) /\ Cardinality({i}) = 1
    BY FS_Singleton
  <2>3. /\ IsFiniteSet({i} \X (0 .. x - 1))
        /\ Cardinality({i} \X (0 .. x - 1)) = Cardinality({i}) * Cardinality(0 .. x - 1)
    BY <2>1, <2>2, FS_Product, Zenon
  <2>4. 1 * x = x
    BY <1>1
  <2> QED
    BY <2>1, <2>2, <2>3, <2>4
<1>5. L(P \cup {i}) = L(P) \cup ({i} \X (0 .. x - 1))
  <2>1. ASSUME NEW e \in L(P \cup {i}) PROVE e \in L(P) \cup ({i} \X (0 .. x - 1))
    BY <1>1, <2>1
  <2>2. ASSUME NEW e \in {i} \X (0 .. x - 1) PROVE e \in L(P \cup {i})
    BY <1>1, <2>2
  <2> QED
    BY <2>1, <2>2
<1>6. L(P) \cap ({i} \X (0 .. x - 1)) = {}
  OBVIOUS
<1> HIDE DEF L
<1>7. Cardinality(L(P)) \in Nat
  BY <1>3, FS_CardinalityType
<1>8. Cardinality(L(P \cup {i})) = Cardinality(L(P)) + x
  <2>1. Cardinality({}) = 0
    BY FS_EmptySet
  <2>2. Cardinality(L(P) \cup ({i} \X (0 .. x - 1))) =
          Cardinality(L(P)) + Cardinality({i} \X (0 .. x - 1))
            - Cardinality(L(P) \cap ({i} \X (0 .. x - 1)))
    BY <1>3, <1>4, FS_Union
  <2>3. Cardinality(L(P) \cup ({i} \X (0 .. x - 1))) = Cardinality(L(P)) + x - 0
    BY <1>4, <1>6, <2>1, <2>2
  <2>4. Cardinality(L(P)) + x - 0 = Cardinality(L(P)) + x
    BY <1>1, <1>7
  <2> QED
    BY <1>5, <2>3, <2>4, Zenon
<1> QED
  BY <1>7, <1>8 DEF L, LeftOf

LEMMA MeasuresNothing ==
  ASSUME NEW f, Framed(f)
  PROVE  Measures(f, {}, NewRegion(f)) /\ Boxed(f, {}, NewRegion(f))
<1> DEFINE r == NewRegion(f)
<1>1. f.w \in Nat \ {0} /\ f.h \in Nat \ {0}
  BY DEF Framed
<1>2. /\ r \in Region /\ r.n = 0 /\ r.sumx = 0 /\ r.centre = 0
      /\ r.minx = f.w /\ r.maxx = -1 /\ r.miny = f.h /\ r.maxy = -1
  BY <1>1 DEF NewRegion, Region
<1> HIDE DEF r
<1>3. Cardinality({}) = 0 /\ {i \in {} : InCentre(f, i)} = {} /\ LeftOf(f, {}) = 0
  <2>1. {m \in {} \X (0 .. f.w) : m[2] < Column(f, m[1])} = {}
    OBVIOUS
  <2> QED
    BY <2>1, FS_EmptySet DEF LeftOf
<1>4. 0 <= 0 * (f.w - 1)
  BY <1>1
<1> QED
  BY <1>2, <1>3, <1>4 DEF Measures, Boxed, r

LEMMA GrownIs ==
  ASSUME Framed(frame), NEW P \in SUBSET Indices(frame), NEW i \in Indices(frame), i \notin P,
         NEW r, Measures(frame, P, r), Boxed(frame, P, r)
  PROVE  /\ Measures(frame, P \cup {i}, Grown(r, i))
         /\ Boxed(frame, P \cup {i}, Grown(r, i))
<1> DEFINE f == frame
           x == Column(f, i)
           y == Row(f, i)
           g == Grown(r, i)
           C(s) == {k \in s : InCentre(f, k)}
<1>1. /\ f.w \in Nat \ {0} /\ f.h \in Nat \ {0}
      /\ x \in 0 .. f.w - 1 /\ y \in 0 .. f.h - 1
  BY PlaceIs DEF Framed
<1>2. /\ r \in Region /\ r.n = Cardinality(P) /\ r.sumx = LeftOf(f, P)
      /\ r.centre = Cardinality(C(P)) /\ r.sumx <= r.n * (f.w - 1)
  BY DEF Measures
<1>3. /\ r.n \in Nat /\ r.sumx \in Nat /\ r.centre \in Nat
      /\ r.minx \in Int /\ r.maxx \in Int /\ r.miny \in Int /\ r.maxy \in Int
  BY <1>2 DEF Region
<1>4. /\ g.n = r.n + 1 /\ g.sumx = r.sumx + x
      /\ g.centre = r.centre + (IF InCentre(f, i) THEN 1 ELSE 0)
      /\ g.minx = Small(r.minx, x) /\ g.maxx = Great(r.maxx, x)
      /\ g.miny = Small(r.miny, y) /\ g.maxy = Great(r.maxy, y)
      /\ g = [n |-> g.n, sumx |-> g.sumx, centre |-> g.centre, minx |-> g.minx,
              maxx |-> g.maxx, miny |-> g.miny, maxy |-> g.maxy]
  BY DEF Grown
<1> HIDE DEF g
<1>5. /\ g.minx \in Int /\ g.maxx \in Int /\ g.miny \in Int /\ g.maxy \in Int
      /\ g.minx \in {r.minx, x} /\ g.minx <= r.minx /\ g.minx <= x
      /\ g.maxx \in {r.maxx, x} /\ g.maxx >= r.maxx /\ g.maxx >= x
      /\ g.miny \in {r.miny, y} /\ g.miny <= r.miny /\ g.miny <= y
      /\ g.maxy \in {r.maxy, y} /\ g.maxy >= r.maxy /\ g.maxy >= y
  <2> HIDE DEF x, y
  <2> QED
    BY <1>1, <1>3, <1>4 DEF Small, Great
<1>6. g \in Region
  <2>1. g.n \in Nat /\ g.sumx \in Nat /\ g.centre \in Nat
    BY <1>1, <1>3, <1>4
  <2> QED
    BY <1>4, <1>5, <2>1 DEF Region
<1>7. g.n = Cardinality(P \cup {i})
  BY <1>2, <1>4, PixelsFinite, FS_AddElement
<1>8. g.sumx = LeftOf(f, P \cup {i})
  BY <1>2, <1>4, LeftOfIs
<1>9. g.centre = Cardinality(C(P \cup {i}))
  <2>1. C(P) \in SUBSET Indices(f) /\ IsFiniteSet(C(P)) /\ i \notin C(P)
    BY PixelsFinite
  <2>2. CASE InCentre(f, i)
    <3>1. C(P \cup {i}) = C(P) \cup {i}
      BY <2>2
    <3> HIDE DEF C
    <3> QED
      <4>1. Cardinality(C(P) \cup {i}) = Cardinality(C(P)) + 1
        BY <2>1, FS_AddElement
      <4>2. g.centre = Cardinality(C(P)) + 1
        BY <1>2, <1>4, <2>2
      <4> QED
        BY <3>1, <4>1, <4>2
  <2>3. CASE ~InCentre(f, i)
    <3>1. C(P \cup {i}) = C(P)
      BY <2>3
    <3> HIDE DEF C
    <3> QED
      BY <1>2, <1>3, <1>4, <2>3, <3>1
  <2> QED
    BY <2>2, <2>3
<1>10. g.sumx <= g.n * (f.w - 1)
  <2>1. (r.n + 1) * (f.w - 1) = r.n * (f.w - 1) + (f.w - 1) /\ r.n * (f.w - 1) \in Int
    <3>1. \A a, b \in Nat : (a + 1) * b = a * b + b /\ a * b \in Int
      OBVIOUS
    <3>2. f.w - 1 \in Nat
      BY <1>1
    <3> QED
      BY <1>3, <3>1, <3>2, Zenon
  <2> QED
    BY <1>1, <1>2, <1>3, <1>4, <2>1
<1>11. Measures(f, P \cup {i}, g)
  BY <1>6, <1>7, <1>8, <1>9, <1>10 DEF Measures
<1>12. \A k \in P \cup {i} : /\ g.minx <= Column(f, k) /\ Column(f, k) <= g.maxx
                             /\ g.miny <= Row(f, k) /\ Row(f, k) <= g.maxy
  <2>1. \A k \in P : /\ Column(f, k) \in Int /\ Row(f, k) \in Int
                     /\ r.minx <= Column(f, k) /\ Column(f, k) <= r.maxx
                     /\ r.miny <= Row(f, k) /\ Row(f, k) <= r.maxy
    BY <1>1, PlaceIs DEF Boxed
  <2> QED
    BY <1>1, <1>3, <1>5, <2>1
<1>13. /\ g.minx \in Columns(f, P \cup {i}) /\ g.maxx \in Columns(f, P \cup {i})
       /\ g.miny \in Rows(f, P \cup {i}) /\ g.maxy \in Rows(f, P \cup {i})
  <2>1. /\ Columns(f, P \cup {i}) = Columns(f, P) \cup {x}
        /\ Rows(f, P \cup {i}) = Rows(f, P) \cup {y}
    BY DEF Columns, Rows
  <2>2. CASE P # {}
    <3>1. /\ r.minx \in Columns(f, P) /\ r.maxx \in Columns(f, P)
          /\ r.miny \in Rows(f, P) /\ r.maxy \in Rows(f, P)
      BY <2>2 DEF Boxed
    <3> HIDE DEF x, y
    <3> QED
      BY <1>5, <2>1, <3>1
  <2>3. CASE P = {}
    <3>1. r.minx = f.w /\ r.maxx = -1 /\ r.miny = f.h /\ r.maxy = -1
      BY <2>3 DEF Boxed
    <3> HIDE DEF x, y
    <3>2. g.minx = x /\ g.maxx = x /\ g.miny = y /\ g.maxy = y
      BY <1>1, <1>5, <3>1
    <3> QED
      BY <2>1, <3>2
  <2> QED
    BY <2>2, <2>3
<1>14. Boxed(f, P \cup {i}, g)
  BY <1>12, <1>13 DEF Boxed
<1> QED
  BY <1>11, <1>14 DEF g
-----------------------------------------------------------------------------
(* The invariant of a scan.  Swept: the scan has passed no pixel of some   *)
(* colour unseen.  Leads: no object judged outweighs the best, which is    *)
(* one of them.                                                            *)
Swept(f, m, s) == \A k \in Indices(f) : k < s.next /\ m[k] # NoColor => k \in s.seen
Over(f, s) ==
  /\ s \in FillType(f) /\ s.color = NoColor /\ s.stack = << >> /\ s.next = Size(f)
  /\ s.region.n = 0

Filled(f, m, s, P, O) ==
  \/ /\ Flood(f, m, s, P, O) /\ Hemmed(f, m, P, s, P)
     /\ Measures(f, P, s.region) /\ Boxed(f, P, s.region)
  \/ Over(f, s) /\ P = {} /\ O = s.seen /\ Whole(f, m, O)

Ranks(f, m, b, q) ==
  /\ b.score = Weighs(f, q) /\ b.n = Cardinality(q) /\ b.sumx = LeftOf(f, q)
  /\ b.sumx <= b.n * (f.w - 1) /\ q \subseteq OfColor(f, m, b.color)
Leads(f, m, b, O) ==
  /\ b \in [color : Hues, n : Nat, sumx : Nat, score : Nat]
  /\ \A q \in Objects(f, m) : q \subseteq O => Weighs(f, q) <= b.score
  /\ b.color = NoColor => b.score = 0
  /\ b.color # NoColor => \E q \in Objects(f, m) : Ranks(f, m, b, q)

ColorInv ==
  /\ Framed(frame) /\ mask \in [Indices(frame) -> Hues]
  /\ Swept(frame, mask, fill)
  /\ \E P, O \in SUBSET Indices(frame) :
       Filled(frame, mask, fill, P, O) /\ Leads(frame, mask, best, O)
  /\ blob.x \in 0 .. 100 /\ blob.size \in 0 .. 100 /\ BlobIsBest

(* A region begins at the next pixel of some colour nobody has seen.       *)
LEMMA StartedIs ==
  ASSUME NEW f, Framed(f), NEW m \in [Indices(f) -> Hues], NEW seen \in SUBSET Indices(f),
         Whole(f, m, seen), NEW i \in 0 .. Size(f),
         \A k \in Indices(f) : k < i /\ m[k] # NoColor => k \in seen
  PROVE  LET s == Started(f, m, seen, i) IN
         /\ Swept(f, m, s)
         /\ \/ Filled(f, m, s, {}, seen)
            \/ Over(f, s) /\ s.seen = seen
<1> DEFINE I == Indices(f)
           rest == {j \in I : j >= i /\ j \notin seen /\ m[j] # NoColor}
           j == StartFrom(f, m, seen, i)
           s == Started(f, m, seen, i)
<1>1. Size(f) \in Nat \ {0} /\ I = 0 .. Size(f) - 1 /\ NewRegion(f) \in Region
  BY PixelsFinite, MeasuresNothing DEF Indices, Measures
<1>2. CASE rest = {}
  <2>1. j = Size(f)
    BY <1>2 DEF StartFrom
  <2>2. s = [next |-> Size(f), seen |-> seen, stack |-> << >>, color |-> NoColor,
             region |-> NewRegion(f)]
    BY <2>1 DEF Started
  <2> HIDE DEF s, j
  <2>3. Over(f, s) /\ s.seen = seen
    <3>1. /\ << >> \in Seq(I) /\ NoColor \in Hues /\ Size(f) \in 0 .. Size(f)
          /\ NewRegion(f).n = 0
      BY <1>1 DEF Hues, NewRegion
    <3> QED
      BY <1>1, <2>2, <3>1 DEF Over, FillType
  <2>4. Swept(f, m, s)
    <3>1. ASSUME NEW k \in I, m[k] # NoColor PROVE k \in seen
      BY <1>1, <1>2, <3>1
    <3> QED
      BY <2>2, <3>1 DEF Swept
  <2> QED
    BY <2>3, <2>4 DEF s
<1>3. CASE rest # {}
  <2>1. j \in rest /\ \A k \in rest : j <= k
    <3>1. rest \subseteq Nat
      BY <1>1
    <3>2. \E l \in rest : \A k \in rest : l <= k
      BY <1>3, <3>1, LeastNat
    <3>3. j = CHOOSE l \in rest : \A k \in rest : l <= k
      BY <1>3 DEF StartFrom
    <3> HIDE DEF rest, j
    <3> QED
      BY <3>2, <3>3
  <2>2. j \in I /\ j \notin seen /\ m[j] # NoColor /\ j \in 0 .. Size(f) - 1 /\ j # Size(f)
    BY <1>1, <2>1
  <2>3. s = [next |-> j + 1, seen |-> seen \cup {j}, stack |-> << j >>, color |-> m[j],
             region |-> NewRegion(f)]
    BY <2>2 DEF Started
  <2> HIDE DEF s
  <2>4. Swept(f, m, s)
    <3>1. ASSUME NEW k \in I, k < j + 1, m[k] # NoColor PROVE k \in seen \cup {j}
      <4>1. k \in rest => j <= k
        BY <2>1
      <4> HIDE DEF j
      <4> QED
        BY <1>1, <2>2, <3>1, <4>1
    <3> QED
      BY <2>3, <3>1 DEF Swept
  <2> HIDE DEF rest, j
  <2>5. /\ << j >> \in Seq(I) /\ Elements(<< j >>) = {j} /\ Distinct(<< j >>)
    <3>1. Len(<< j >>) = 1 /\ << j >>[1] = j /\ 1 .. 1 = {1}
      OBVIOUS
    <3> QED
      BY <2>2, <3>1 DEF Elements, Distinct
  <2>6. s \in FillType(f)
    <3>1. j + 1 \in 0 .. Size(f) /\ seen \cup {j} \in SUBSET I /\ m[j] \in Hues
      BY <1>1, <2>2
    <3> QED
      BY <1>1, <2>3, <2>5, <3>1 DEF FillType
  <2>7. Parts(f, s, {}, seen)
    BY <2>2, <2>3, <2>5, <2>6 DEF Parts
  <2>8. s.next # 0 /\ s.next - 1 = j
    BY <1>1, <2>2, <2>3
  <2>9. Flood(f, m, s, {}, seen)
    <3>1. {j} \subseteq OfColor(f, m, s.color) /\ s.color # NoColor
      BY <2>2, <2>3 DEF OfColor
    <3> QED
      BY <2>3, <2>5, <2>7, <2>8, <3>1 DEF Flood
  <2>10. Filled(f, m, s, {}, seen)
    BY <2>3, <2>9, MeasuresNothing DEF Filled, Hemmed
  <2> QED
    BY <2>4, <2>10 DEF s
<1> QED
  BY <1>2, <1>3
-----------------------------------------------------------------------------
(* A pixel popped: it is measured and its neighbours are in.               *)
LEMMA PopKeeps ==
  ASSUME Framed(frame), Swept(frame, mask, fill), NEW P \in SUBSET Indices(frame),
         NEW O \in SUBSET Indices(frame), Filled(frame, mask, fill, P, O), Pop
  PROVE  /\ Swept(frame, mask, fill')
         /\ \E Q \in SUBSET Indices(frame) : Filled(frame, mask, fill', Q, O)
<1> DEFINE I    == Indices(frame)
           n    == Len(fill.stack)
           top  == fill.stack[n]
           down == SubSeq(fill.stack, 1, n - 1)
           rest == [fill EXCEPT !.stack = down, !.region = Grown(fill.region, top)]
           Q    == P \cup {top}
<1>1. /\ Flood(frame, mask, fill, P, O) /\ Hemmed(frame, mask, P, fill, P)
      /\ Measures(frame, P, fill.region) /\ Boxed(frame, P, fill.region)
      /\ fill.stack # << >>
  BY DEF Filled, Over, Pop
<1>2. fill' = PushNeighbours(rest, frame, mask, top)
  BY DEF Pop
<1>3. /\ fill \in FillType(frame) /\ Distinct(fill.stack)
      /\ fill.seen = O \cup P \cup Elements(fill.stack)
      /\ O \cap P = {} /\ O \cap Elements(fill.stack) = {} /\ P \cap Elements(fill.stack) = {}
  BY <1>1 DEF Flood, Parts
<1>4. fill.stack \in Seq(I)
  BY <1>3 DEF FillType
<1>5. /\ down \in Seq(I) /\ top \in I /\ Distinct(down)
      /\ Elements(fill.stack) = Elements(down) \cup {top} /\ top \notin Elements(down)
  BY <1>1, <1>3, <1>4, PopIs
<1>6. top \notin P /\ Q \in SUBSET I
  BY <1>3, <1>5
<1>7. /\ Measures(frame, Q, Grown(fill.region, top))
      /\ Boxed(frame, Q, Grown(fill.region, top))
  BY <1>1, <1>5, <1>6, GrownIs
<1>8. /\ rest \in FillType(frame) /\ rest.stack = down /\ rest.seen = fill.seen
      /\ rest.next = fill.next /\ rest.color = fill.color
      /\ rest.region = Grown(fill.region, top)
  <2>1. PICK g : g = Grown(fill.region, top)
    OBVIOUS
  <2>2. g \in Region
    BY <1>7, <2>1 DEF Measures
  <2>3. rest = [fill EXCEPT !.stack = down, !.region = g]
    BY <2>1
  <2> HIDE DEF rest, down
  <2> QED
    BY <1>3, <1>5, <2>1, <2>2, <2>3 DEF FillType
<1> HIDE DEF rest, down, top
<1>9. Parts(frame, rest, Q, O)
  BY <1>3, <1>5, <1>6, <1>8 DEF Parts
<1>10. Q \cup Elements(rest.stack) = P \cup Elements(fill.stack)
  BY <1>5, <1>8
<1>11. Flood(frame, mask, rest, Q, O)
  BY <1>1, <1>8, <1>9, <1>10 DEF Flood
<1> HIDE DEF Q
<1>12. /\ Flood(frame, mask, fill', Q, O)
       /\ fill'.region = rest.region /\ fill'.next = rest.next
       /\ Elements(rest.stack) \subseteq Elements(fill'.stack)
       /\ Hemmed(frame, mask, {top}, fill', Q)
  <2>1. top \in Q
    BY DEF Q
  <2> QED
    BY <1>2, <1>11, <2>1, NeighboursIn
<1>13. Hemmed(frame, mask, Q, fill', Q)
  <2>1. ASSUME NEW i \in P, NEW j \in I, mask[i] = mask[j], Adjacent(frame, i, j)
        PROVE  j \in Q \cup Elements(fill'.stack)
    BY <1>1, <1>10, <1>12, <2>1 DEF Hemmed
  <2> QED
    BY <1>12, <2>1 DEF Hemmed, Q
<1>14. Swept(frame, mask, fill')
  <2>1. fill'.seen = O \cup Q \cup Elements(fill'.stack)
    BY <1>12 DEF Flood, Parts
  <2>2. fill.seen \subseteq fill'.seen
    BY <1>3, <1>10, <1>12, <2>1
  <2> QED
    BY <1>8, <1>12, <2>2 DEF Swept
<1> QED
  BY <1>6, <1>7, <1>8, <1>12, <1>13, <1>14 DEF Filled, Q
-----------------------------------------------------------------------------
(* A region filled is an object of the picture when the code says so.      *)
LEMMA TimesMore ==
  ASSUME NEW k \in Nat, NEW a \in Nat, NEW b \in Nat, a <= b
  PROVE  k * a <= k * b /\ k * a \in Nat /\ k * b \in Nat /\ a * k = k * a
<1>1. PICK d \in Nat : b = a + d
  <2>1. b - a \in Nat /\ b = a + (b - a)
    OBVIOUS
  <2> QED
    BY <2>1
<1>2. k * b = k * a + k * d /\ k * a \in Nat /\ k * d \in Nat
  BY <1>1
<1> QED
  BY <1>2

LEMMA BoxIs ==
  ASSUME NEW f, Framed(f), NEW P \in SUBSET Indices(f), P # {}, NEW r \in Region, Boxed(f, P, r)
  PROVE  /\ r.maxx - r.minx + 1 \in 1 .. f.w /\ r.maxy - r.miny + 1 \in 1 .. f.h
         /\ \A k \in Nat : Spans(Columns(f, P), k) <=> r.maxx - r.minx + 1 <= k
         /\ \A k \in Nat : Spans(Rows(f, P), k) <=> r.maxy - r.miny + 1 <= k
<1>1. f.w \in Nat \ {0} /\ f.h \in Nat \ {0}
  BY DEF Framed
<1>2. /\ r.minx \in Columns(f, P) /\ r.maxx \in Columns(f, P)
      /\ r.miny \in Rows(f, P) /\ r.maxy \in Rows(f, P)
  BY DEF Boxed
<1>3. \A c \in Columns(f, P) : c \in 0 .. f.w - 1 /\ r.minx <= c /\ c <= r.maxx
  BY PlaceIs DEF Columns, Boxed
<1>4. \A c \in Rows(f, P) : c \in 0 .. f.h - 1 /\ r.miny <= c /\ c <= r.maxy
  BY PlaceIs DEF Rows, Boxed
<1>5. /\ r.maxx - r.minx + 1 \in 1 .. f.w /\ r.maxy - r.miny + 1 \in 1 .. f.h
  BY <1>1, <1>2, <1>3, <1>4
<1>6. ASSUME NEW k \in Nat
      PROVE  Spans(Columns(f, P), k) <=> r.maxx - r.minx + 1 <= k
  BY <1>1, <1>2, <1>3 DEF Spans
<1>7. ASSUME NEW k \in Nat
      PROVE  Spans(Rows(f, P), k) <=> r.maxy - r.miny + 1 <= k
  BY <1>1, <1>2, <1>4 DEF Spans
<1> QED
  BY <1>5, <1>6, <1>7

LEMMA FillingIs ==
  ASSUME NEW f, Framed(f), NEW P \in SUBSET Indices(f), P # {}, NEW r, Measures(f, P, r),
         Boxed(f, P, r)
  PROVE  Filling(f, P) <=> 100 * r.n >= FillMin * Box(r)
<1> DEFINE bw == r.maxx - r.minx + 1
           bh == r.maxy - r.miny + 1
<1>1. r \in Region /\ r.n = Cardinality(P) /\ r.n \in Nat
  BY DEF Measures, Region
<1>2. /\ bw \in 1 .. f.w /\ bh \in 1 .. f.h
      /\ \A k \in Nat : Spans(Columns(f, P), k) <=> bw <= k
      /\ \A k \in Nat : Spans(Rows(f, P), k) <=> bh <= k
  BY <1>1, BoxIs
<1>3. f.w \in Nat /\ f.h \in Nat /\ FillMin \in Nat
  BY ShareAssumption DEF Framed
<1>4. Box(r) = bw * bh
  BY DEF Box
<1> HIDE DEF bw, bh
<1>5. ASSUME 100 * r.n >= FillMin * (bw * bh) PROVE Filling(f, P)
  <2>1. Spans(Columns(f, P), bw) /\ Spans(Rows(f, P), bh)
    BY <1>2, <1>3
  <2> QED
    BY <1>1, <1>2, <1>5, <2>1 DEF Filling
<1>6. ASSUME Filling(f, P) PROVE 100 * r.n >= FillMin * (bw * bh)
  <2>1. PICK w \in 1 .. f.w, h \in 1 .. f.h :
          Spans(Columns(f, P), w) /\ Spans(Rows(f, P), h) /\ 100 * r.n >= FillMin * (w * h)
    BY <1>1, <1>6 DEF Filling
  <2>2. bw \in Nat /\ bh \in Nat /\ w \in Nat /\ h \in Nat /\ bw <= w /\ bh <= h
    BY <1>2, <1>3, <2>1
  <2>3. bw * bh <= bw * h /\ h * bw <= h * w
    BY <2>2, TimesMore
  <2>4. h * bw = bw * h /\ h * w = w * h /\ bw * bh \in Nat /\ bw * h \in Nat /\ w * h \in Nat
    BY <2>2
  <2>5. bw * bh <= w * h
    BY <2>3, <2>4
  <2>6. FillMin * (bw * bh) <= FillMin * (w * h)
        /\ FillMin * (bw * bh) \in Nat /\ FillMin * (w * h) \in Nat
    BY <1>3, <2>4, <2>5, TimesMore
  <2> QED
    BY <1>1, <2>1, <2>6
<1> QED
  BY <1>4, <1>5, <1>6

LEMMA FilledIsRegion ==
  ASSUME NEW f, Framed(f), NEW m \in [Indices(f) -> Hues], NEW s, NEW P, NEW O,
         Flood(f, m, s, P, O), Hemmed(f, m, P, s, P), s.stack = << >>
  PROVE  /\ P \in Regions(f, m) /\ P \subseteq OfColor(f, m, s.color)
         /\ s.seen = O \cup P /\ O \cap P = {}
<1> DEFINE I == Indices(f)
           start == s.next - 1
<1>1. Elements(s.stack) = {}
  BY DEF Elements
<1>2. /\ s \in FillType(f) /\ P \in SUBSET I /\ s.seen = O \cup P /\ O \cap P = {}
      /\ s.color # NoColor /\ P \subseteq OfColor(f, m, s.color) /\ start \in P
      /\ \A t \in SUBSET I : Whole(f, m, t) /\ start \in t => P \subseteq t
  BY <1>1 DEF Flood, Parts
<1>3. Whole(f, m, P)
  BY <1>1, <1>2 DEF Hemmed, Whole
<1>4. ASSUME NEW t \in SUBSET P, Whole(f, m, t) PROVE t \in {{}, P}
  <2>1. CASE start \in t
    BY <1>2, <1>4, <2>1
  <2>2. CASE start \notin t
    <3>1. Whole(f, m, P \ t)
      BY <1>2, <1>3, <1>4, WholesAre
    <3>2. P \subseteq P \ t
      BY <1>2, <2>2, <3>1
    <3> QED
      BY <3>2
  <2> QED
    BY <2>1, <2>2
<1>5. s.color \in DOMAIN Bands /\ P # {}
  BY <1>2 DEF FillType, Hues
<1>6. P \in Regions(f, m)
  BY <1>2, <1>3, <1>4, <1>5 DEF Regions
<1> QED
  BY <1>2, <1>6

LEMMA WeighsIs ==
  ASSUME NEW f, Framed(f), NEW q \in SUBSET Indices(f), q # {}
  PROVE  Weighs(f, q) \in Nat \ {0} /\ Cardinality(q) \in Nat \ {0}
<1>1. IsFiniteSet(q) /\ Cardinality(q) \in Nat
  BY PixelsFinite
<1>2. Cardinality(q) # 0
  BY <1>1, FS_EmptySet
<1>3. Cardinality({i \in q : InCentre(f, i)}) \in Nat
  <2>1. {i \in q : InCentre(f, i)} \in SUBSET Indices(f)
    OBVIOUS
  <2> QED
    BY <2>1, PixelsFinite
<1> QED
  BY <1>1, <1>2, <1>3 DEF Weighs

(* A region judged: the best of those before and of it.                    *)
LEMMA JudgeKeeps ==
  ASSUME Framed(frame), mask \in [Indices(frame) -> Hues], Swept(frame, mask, fill),
         NEW P \in SUBSET Indices(frame), NEW O \in SUBSET Indices(frame),
         Filled(frame, mask, fill, P, O), Leads(frame, mask, best, O), Judge
  PROVE  /\ Swept(frame, mask, fill')
         /\ \E Q, R \in SUBSET Indices(frame) :
              Filled(frame, mask, fill', Q, R) /\ Leads(frame, mask, best', R)
<1> DEFINE I == Indices(frame)
           r == fill.region
           N == O \cup P
<1>1. /\ Flood(frame, mask, fill, P, O) /\ Hemmed(frame, mask, P, fill, P)
      /\ Measures(frame, P, r) /\ Boxed(frame, P, r)
      /\ fill.stack = << >> /\ fill.color # NoColor
  BY DEF Filled, Over, Judge
<1>2. /\ P \in Regions(frame, mask) /\ P \subseteq OfColor(frame, mask, fill.color)
      /\ fill.seen = N /\ O \cap P = {}
  BY <1>1, FilledIsRegion
<1>3. /\ P # {} /\ Whole(frame, mask, P) /\ Whole(frame, mask, O)
      /\ fill \in FillType(frame)
  BY <1>1, <1>2, RegionFields DEF Flood, Parts
<1>4. Whole(frame, mask, N)
  BY <1>3, WholesAre
<1>5. /\ r.n = Cardinality(P) /\ r.sumx = LeftOf(frame, P) /\ Score(r) = Weighs(frame, P)
      /\ r.sumx <= r.n * (frame.w - 1) /\ r.n \in Nat /\ r.sumx \in Nat /\ Score(r) \in Nat \ {0}
  <2>1. Weighs(frame, P) \in Nat \ {0}
    BY <1>3, WeighsIs
  <2> QED
    BY <1>1, <2>1 DEF Measures, Region, Score, Weighs
<1>6. IsObject(r) <=> P \in Objects(frame, mask)
  <2>1. Filling(frame, P) <=> 100 * r.n >= FillMin * Box(r)
    BY <1>1, <1>3, FillingIs
  <2> QED
    BY <1>2, <1>5, <2>1 DEF IsObject, Objects
<1>7. /\ best \in [color : Hues, n : Nat, sumx : Nat, score : Nat] /\ best.score \in Nat
      /\ \A q \in Objects(frame, mask) : q \subseteq O => Weighs(frame, q) <= best.score
      /\ best.color = NoColor => best.score = 0
      /\ best.color # NoColor => \E q \in Objects(frame, mask) : Ranks(frame, mask, best, q)
  BY DEF Leads
<1>8. ASSUME NEW q \in Objects(frame, mask), q \subseteq N
      PROVE  q = P \/ q \subseteq O
  <2>1. q \in Regions(frame, mask)
    BY DEF Objects
  <2>2. CASE q \cap P = {}
    BY <1>8, <2>2
  <2>3. CASE q \cap P # {}
    BY <1>2, <2>1, <2>3, RegionsApart
  <2> QED
    BY <2>2, <2>3
<1>9. \A q \in Objects(frame, mask) : Weighs(frame, q) \in Nat
  BY RegionFields, WeighsIs DEF Objects
<1>10. Leads(frame, mask, best', N)
  <2>1. CASE IsObject(r) /\ Score(r) > best.score
    <3>1. best' = [color |-> fill.color, n |-> r.n, sumx |-> r.sumx, score |-> Score(r)]
      BY <2>1 DEF Judge
    <3>2. /\ best' \in [color : Hues, n : Nat, sumx : Nat, score : Nat]
          /\ best'.score = Score(r) /\ best'.color = fill.color /\ best'.n = r.n
          /\ best'.sumx = r.sumx
      BY <1>3, <1>5, <3>1 DEF FillType
    <3>3. Ranks(frame, mask, best', P) /\ P \in Objects(frame, mask)
      BY <1>2, <1>5, <1>6, <2>1, <3>2 DEF Ranks
    <3>4. ASSUME NEW q \in Objects(frame, mask), q \subseteq N
          PROVE  Weighs(frame, q) <= best'.score
      <4>1. CASE q = P
        BY <1>5, <3>2, <4>1
      <4>2. CASE q \subseteq O
        BY <1>5, <1>7, <1>9, <2>1, <3>2, <4>2
      <4> QED
        BY <1>8, <3>4, <4>1, <4>2
    <3> QED
      BY <1>1, <3>2, <3>3, <3>4 DEF Leads
  <2>2. CASE ~(IsObject(r) /\ Score(r) > best.score)
    <3>1. best' = best
      BY <2>2 DEF Judge
    <3>2. ASSUME NEW q \in Objects(frame, mask), q \subseteq N
          PROVE  Weighs(frame, q) <= best.score
      <4>1. CASE q = P
        BY <1>5, <1>6, <1>7, <2>2, <3>2, <4>1
      <4>2. CASE q \subseteq O
        BY <1>7, <4>2
      <4> QED
        BY <1>8, <3>2, <4>1, <4>2
    <3> QED
      BY <1>7, <3>1, <3>2 DEF Leads
  <2> QED
    BY <2>1, <2>2
<1>11. fill' = Started(frame, mask, N, fill.next)
  BY <1>2 DEF Judge
<1>12. /\ Swept(frame, mask, fill')
       /\ \/ Filled(frame, mask, fill', {}, N)
          \/ Over(frame, fill') /\ fill'.seen = N
  <2>1. N \in SUBSET I /\ fill.next \in 0 .. Size(frame)
    BY <1>3 DEF FillType
  <2>2. \A k \in I : k < fill.next /\ mask[k] # NoColor => k \in N
    BY <1>2 DEF Swept
  <2> HIDE DEF N
  <2> QED
    BY <1>4, <1>11, <2>1, <2>2, StartedIs
<1>13. Filled(frame, mask, fill', {}, N)
  BY <1>4, <1>12 DEF Filled
<1> QED
  BY <1>10, <1>12, <1>13
-----------------------------------------------------------------------------
(* The answer's arithmetic.                                                *)
PlaceOf(w, n, sum) == ((sum \div n) * 100) \div (w - 1)
InPlace(w, n, sum, x) ==
  LET off == 100 * sum - x * n * (w - 1)
  IN  x \in 0 .. 100 /\ 0 <= off /\ off < n * (100 + w)

LEMMA OffIs ==
  ASSUME NEW w \in Nat, w > 1, NEW n \in Nat \ {0}, NEW sum \in Nat, sum <= n * (w - 1)
  PROVE  InPlace(w, n, sum, PlaceOf(w, n, sum))
<1> DEFINE v == w - 1
<1>1. v \in Nat \ {0}
  OBVIOUS
<1>2. PICK q \in Nat, r \in 0 .. n - 1 : q = sum \div n /\ sum = n * q + r
  BY DivModIs
<1> HIDE DEF v
<1>3. PICK x \in Nat, t \in 0 .. v - 1 : x = (q * 100) \div v /\ q * 100 = v * x + t
  <2>1. PICK p \in Nat : p = q * 100
    OBVIOUS
  <2>2. p \div v \in Nat /\ p % v \in 0 .. v - 1 /\ p = v * (p \div v) + (p % v)
    BY <1>1, DivModIs
  <2> QED
    BY <2>1, <2>2, Zenon
<1>4. q <= v
  <2>1. n * q \in Nat /\ n * v \in Nat /\ sum <= n * v
    BY <1>1 DEF v
  <2>2. ~(v < q)
    <3>1. ASSUME v < q PROVE n * v + n <= n * q
      BY <1>1, <3>1, RowsApart
    <3> QED
      BY <1>2, <2>1, <3>1
  <2> QED
    BY <1>1, <2>2
<1>5. x <= 100
  <2>1. ASSUME 100 < x PROVE v * 100 + v <= v * x
    BY <1>1, <2>1, RowsApart
  <2>2. v * x \in Nat /\ v * 100 \in Nat
    BY <1>1
  <2> QED
    BY <1>1, <1>3, <1>4, <2>1, <2>2
<1>6. 100 * sum = n * (q * 100) + 100 * r
  BY <1>2
<1>7. n * (q * 100) = n * (v * x) + n * t
  BY <1>1, <1>3
<1>8. x * n * v = n * (v * x)
  BY <1>1
<1>9. n * t \in Nat /\ n * (v * x) \in Nat /\ n * t <= n * v
  BY <1>1, TimesMore
<1>10. n * (100 + w) = 100 * n + n * v + n /\ n * v \in Nat
  BY <1>1 DEF v
<1>11. 0 <= 100 * sum - x * n * v /\ 100 * sum - x * n * v < n * (100 + w)
  BY <1>6, <1>7, <1>8, <1>9, <1>10
<1>12. PlaceOf(w, n, sum) = x
  BY <1>2, <1>3, Zenon DEF v, PlaceOf
<1>13. x \in 0 .. 100
  BY <1>5
<1>14. InPlace(w, n, sum, x)
  BY <1>11, <1>13, Zenon DEF v, InPlace
<1> QED
  BY <1>12, <1>14, Zenon

LEMMA ShareIs ==
  ASSUME NEW N \in Nat \ {0}, NEW n \in Nat, n <= N, 100 * n >= N
  PROVE  LET p == (n * 100 + N \div 2) \div N
         IN  p \in 1 .. 100 /\ 2 * (p * N - 100 * n) \in -N .. N
<1>1. PICK h \in Nat : h = N \div 2 /\ 2 * h <= N /\ N <= 2 * h + 1
  <2>1. N \div 2 \in Nat /\ 2 * (N \div 2) <= N /\ N <= 2 * (N \div 2) + 1
    OBVIOUS
  <2> QED
    BY <2>1
<1>2. PICK p \in Nat, r \in 0 .. N - 1 :
        p = (n * 100 + h) \div N /\ n * 100 + h = N * p + r
  <2>1. n * 100 + h \in Nat
    BY <1>1
  <2> QED
    BY <2>1, DivModIs
<1>3. N * p \in Nat /\ p * N = N * p
  OBVIOUS
<1>4. p # 0
  BY <1>1, <1>2
<1>5. p <= 100
  <2>1. ASSUME 100 < p PROVE N * 100 + N <= N * p
    BY <2>1, RowsApart
  <2> QED
    BY <1>1, <1>2, <1>3, <2>1
<1>6. 2 * (p * N - 100 * n) \in -N .. N
  BY <1>1, <1>2, <1>3
<1> QED
  BY <1>1, <1>2, <1>4, <1>5, <1>6

(* The answer is the best of all objects: the scan has seen every pixel.   *)
LEMMA AnswerKeeps ==
  ASSUME ColorInv, Answer
  PROVE  blob'.x \in 0 .. 100 /\ blob'.size \in 0 .. 100 /\ IsBest(frame, mask, blob')
<1> DEFINE f == frame
           m == mask
           b == best
<1>1. /\ Framed(f) /\ m \in [Indices(f) -> Hues] /\ Swept(f, m, fill)
      /\ fill.stack = << >> /\ fill.color = NoColor
      /\ f' = f /\ m' = m
      /\ blob' = IF b.color = NoColor THEN [cls |-> 0, x |-> 0, size |-> 0]
                 ELSE [cls |-> ClassOfColor[b.color],
                       x |-> IF f.w > 1 THEN ((b.sumx \div b.n) * 100) \div (f.w - 1) ELSE 50,
                       size |-> Small(Great(Percent(b.n), 1), 100)]
  BY DEF ColorInv, Answer
<1>2. PICK P \in SUBSET Indices(f), O \in SUBSET Indices(f) :
        Filled(f, m, fill, P, O) /\ Leads(f, m, b, O)
  BY DEF ColorInv
<1>3. Over(f, fill) /\ O = fill.seen
  BY <1>1, <1>2 DEF Filled, Flood
<1>4. \A q \in Objects(f, m) : q \subseteq O /\ q \in SUBSET Indices(f) /\ q # {}
                               /\ 100 * Cardinality(q) >= CoverMin * Size(f)
  <2>1. ASSUME NEW q \in Objects(f, m) PROVE q \subseteq O
    <3>1. q \in Regions(f, m)
      BY DEF Objects
    <3>2. PICK c \in DOMAIN Bands : q \subseteq OfColor(f, m, c)
      BY <3>1, RegionFields
    <3>3. c # NoColor
      BY DEF Bands, NoColor
    <3>4. \A k \in q : k \in Indices(f) /\ m[k] # NoColor
      BY <3>2, <3>3 DEF OfColor
    <3>5. Size(f) \in Nat /\ fill.next = Size(f)
      BY <1>1, <1>3, PixelsFinite DEF Over
    <3>6. \A k \in Indices(f) : k < fill.next
      BY <3>5 DEF Indices
    <3> QED
      BY <1>1, <1>3, <3>4, <3>6 DEF Swept
  <2> QED
    BY <2>1, RegionFields DEF Objects
<1>5. /\ b \in [color : Hues, n : Nat, sumx : Nat, score : Nat]
      /\ \A q \in Objects(f, m) : Weighs(f, q) <= b.score
      /\ b.color = NoColor => b.score = 0
      /\ b.color # NoColor => \E q \in Objects(f, m) : Ranks(f, m, b, q)
  BY <1>2, <1>4 DEF Leads
<1>6. CASE b.color = NoColor
  <2>1. Objects(f, m) = {}
    BY <1>1, <1>4, <1>5, <1>6, WeighsIs
  <2>2. blob' = [cls |-> 0, x |-> 0, size |-> 0]
    BY <1>1, <1>6
  <2> QED
    BY <2>1, <2>2 DEF IsBest
<1>7. CASE b.color # NoColor
  <2>1. PICK r \in Objects(f, m) : Ranks(f, m, b, r)
    BY <1>5, <1>7
  <2> DEFINE n   == Cardinality(r)
             sum == LeftOf(f, r)
             N   == Size(f)
             x   == IF f.w > 1 THEN ((sum \div n) * 100) \div (f.w - 1) ELSE 50
             p   == (n * 100 + N \div 2) \div N
             off == 100 * sum - x * n * (f.w - 1)
  <2>2. /\ b.n = n /\ b.sumx = sum /\ b.score = Weighs(f, r) /\ sum \in Nat
        /\ sum <= n * (f.w - 1) /\ r \subseteq OfColor(f, m, b.color)
    BY <1>5, <2>1 DEF Ranks
  <2>3. n \in Nat \ {0} /\ n <= N /\ N \in Nat \ {0} /\ f.w \in Nat \ {0}
    BY <1>1, <1>4, WeighsIs, PixelsFinite DEF Framed
  <2>4. 100 * n >= N
    <3>1. N * 1 <= N * CoverMin /\ N * CoverMin = CoverMin * N
      BY <2>3, ShareAssumption, TimesMore
    <3>2. 100 * n >= CoverMin * N /\ N * 1 = N /\ CoverMin * N \in Nat
      BY <1>4, <2>3, ShareAssumption
    <3> HIDE DEF n, N
    <3> QED
      BY <2>3, <3>1, <3>2
  <2>5. p \in 1 .. 100 /\ 2 * (p * N - 100 * n) \in -N .. N
    BY <2>3, <2>4, ShareIs
  <2>6. x \in 0 .. 100 /\ (f.w > 1 => 0 <= off /\ off < n * (100 + f.w))
    <3>1. CASE f.w > 1
      <4>1. x = PlaceOf(f.w, n, sum)
        BY <3>1, Zenon DEF PlaceOf
      <4> HIDE DEF n, sum, x
      <4>2. InPlace(f.w, n, sum, x)
        BY <2>2, <2>3, <3>1, <4>1, OffIs
      <4> QED
        BY <4>2, Zenon DEF InPlace
    <3>2. CASE ~(f.w > 1)
      BY <3>2
    <3> QED
      BY <3>1, <3>2
  <2>7. blob' = [cls |-> ClassOfColor[b.color], x |-> x, size |-> p]
    <3>1. Percent(b.n) = p
      BY <2>2 DEF Percent
    <3>2. Small(Great(p, 1), 100) = p
      <4> HIDE DEF p
      <4> QED
        BY <2>5 DEF Small, Great
    <3> QED
      BY <1>1, <1>7, <2>2, <3>1, <3>2
  <2>8. \E i \in r : blob'.cls = ClassOfColor[m[i]]
    BY <1>4, <2>2, <2>7 DEF OfColor
  <2>9. \A q \in Objects(f, m) : Weighs(f, q) <= Weighs(f, r)
    BY <1>5, <2>2
  <2> HIDE DEF n, sum, N, x, p
  <2>10. blob'.x = x /\ blob'.size = p
    BY <2>7
  <2> QED
    BY <2>5, <2>6, <2>8, <2>9, <2>10 DEF IsBest, n, sum, N
<1> QED
  BY <1>6, <1>7
-----------------------------------------------------------------------------
LEMMA ColorStart == Init => ColorInv
<1> SUFFICES ASSUME Init PROVE ColorInv
  OBVIOUS
<1>1. PICK f \in Frames \cup {Blank} : ColorInit(f)
  BY DEF Init
<1> DEFINE I == Indices(f)
           m == mask
<1>2. Framed(f) /\ f.px \in [I -> Level \X Level \X Level]
  <2>1. Framed(Blank) /\ Blank.px \in [Indices(Blank) -> Level \X Level \X Level]
    BY DEF Blank, Indices, Size, Level, Framed
  <2> QED
    BY <2>1, FramesAssumption DEF Framed
<1>3. /\ frame = f /\ m = [i \in I |-> ColorOf(f.px[i])] /\ fill = Started(f, m, {}, 0)
      /\ best = [color |-> NoColor, n |-> 0, sumx |-> 0, score |-> 0]
      /\ blob = NoBlob
  BY <1>1 DEF ColorInit
<1>4. m \in [I -> Hues]
  <2>1. \A p : ColorOf(p) \in Hues
    <3>1. \A p : Colors(p) \subseteq DOMAIN Bands
      BY DEF Colors, Bands
    <3> QED
      BY <3>1 DEF ColorOf, Hues
  <2> QED
    BY <1>3, <2>1
<1>5. Whole(f, m, {})
  BY DEF Whole
<1>6. /\ Swept(f, m, fill)
      /\ Filled(f, m, fill, {}, {}) \/ (Over(f, fill) /\ fill.seen = {})
  <2>1. 0 \in 0 .. Size(f) /\ \A k \in I : ~(k < 0)
    BY <1>2, PixelsFinite DEF Indices
  <2> HIDE DEF m
  <2>2. LET s == Started(f, m, {}, 0) IN
        Swept(f, m, s) /\ (Filled(f, m, s, {}, {}) \/ (Over(f, s) /\ s.seen = {}))
    BY <1>2, <1>4, <1>5, <2>1, StartedIs
  <2> QED
    BY <1>3, <2>2
<1>7. Filled(f, m, fill, {}, {})
  BY <1>5, <1>6 DEF Filled
<1>8. Leads(f, m, best, {})
  <2>1. \A q \in Objects(f, m) : q # {}
    BY RegionFields DEF Objects
  <2>2. best \in [color : Hues, n : Nat, sumx : Nat, score : Nat] /\ best.color = NoColor
        /\ best.score = 0
    BY <1>3 DEF Hues
  <2> QED
    BY <2>1, <2>2 DEF Leads
<1>9. blob.x \in 0 .. 100 /\ blob.size \in 0 .. 100 /\ BlobIsBest
  BY <1>3 DEF NoBlob, BlobIsBest
<1> QED
  BY <1>2, <1>3, <1>4, <1>6, <1>7, <1>8, <1>9 DEF ColorInv

LEMMA ColorStep == ColorInv /\ [Next]_vars => ColorInv'
<1> SUFFICES ASSUME ColorInv, [Next]_vars PROVE ColorInv'
  OBVIOUS
<1>1. (Pop \/ Judge \/ Answer) \/ UNCHANGED <<frame, mask, fill, best, blob>>
  BY DEF Next, vars, colors, VoiceTick, EdgeTick, EyeTick, SeePolls, EyePollsOn, NpuThread,
         EyeOnly, See, Wants, TickPauses, Moves, Detects, Detect, Sensed, Drawn
<1>2. PICK P \in SUBSET Indices(frame), O \in SUBSET Indices(frame) :
        Filled(frame, mask, fill, P, O) /\ Leads(frame, mask, best, O)
  BY DEF ColorInv
<1>3. CASE Pop
  <2>1. UNCHANGED <<frame, mask, best, blob>>
    BY <1>3 DEF Pop
  <2>2. /\ Swept(frame, mask, fill')
        /\ \E Q \in SUBSET Indices(frame) : Filled(frame, mask, fill', Q, O)
    BY <1>2, <1>3, PopKeeps DEF ColorInv
  <2> QED
    BY <1>2, <2>1, <2>2 DEF ColorInv, BlobIsBest
<1>4. CASE Judge
  <2>1. UNCHANGED <<frame, mask, blob>>
    BY <1>4 DEF Judge
  <2>2. /\ Swept(frame, mask, fill')
        /\ \E Q, R \in SUBSET Indices(frame) :
             Filled(frame, mask, fill', Q, R) /\ Leads(frame, mask, best', R)
    BY <1>2, <1>4, JudgeKeeps DEF ColorInv
  <2> QED
    BY <2>1, <2>2 DEF ColorInv, BlobIsBest
<1>5. CASE Answer
  <2>1. UNCHANGED <<frame, mask, fill, best>>
    BY <1>5 DEF Answer
  <2>2. blob'.x \in 0 .. 100 /\ blob'.size \in 0 .. 100 /\ IsBest(frame, mask, blob')
    BY <1>5, AnswerKeeps
  <2> QED
    BY <2>1, <2>2 DEF ColorInv, BlobIsBest
<1>6. CASE UNCHANGED <<frame, mask, fill, best, blob>>
  BY <1>6 DEF ColorInv, BlobIsBest
<1> QED
  BY <1>1, <1>3, <1>4, <1>5, <1>6

(* What SEE() is told is an object of the picture, for every frame: a      *)
(* whole region of one colour, big and dense enough, that no other         *)
(* outweighs, with its column and its coverage, and nothing exactly when   *)
(* there is none (tc_detect_color_blob).                                   *)
THEOREM BestSeen == Spec => []BlobIsBest
<1>1. ColorInv => BlobIsBest
  BY DEF ColorInv
<1> QED
  BY <1>1, ColorStart, ColorStep, PTL DEF Spec
-----------------------------------------------------------------------------
(* The eye's frame has room for what a poll drains: only a frame that is   *)
(* not full is drained into.                                               *)
Room ==
  /\ npu.pixels <= CamPixels + CamChunk
  /\ npu.ready = FALSE \/ at = "drain" => npu.pixels < CamPixels

LEMMA RoomStep == EyeInv /\ Room /\ [Next]_vars => Room'
<1> SUFFICES ASSUME EyeInv, Room, [Next]_vars PROVE Room'
  OBVIOUS
<1>1. /\ npu \in [state : {"uninit", "failed", "run"}, pixels : Nat, ready : BOOLEAN,
                  pending : BOOLEAN, done : BOOLEAN, ok : BOOLEAN]
      /\ npu.pixels \in Nat /\ EyeType /\ Handed
      /\ CamPixels \in Nat \ {0} /\ CamChunk \in Nat \ {0}
  BY NpuAssumption DEF EyeInv, EyeType
<1>2. CASE npu'.pixels = 0
  BY <1>1, <1>2 DEF Room
<1>3. CASE /\ npu'.pixels = npu.pixels /\ npu'.ready = npu.ready
           /\ at' = "drain" => at = "drain" \/ npu.ready = FALSE
  BY <1>3 DEF Room
<1>4. CASE DrainCamera
  <2>1. PICK px \in 0 .. CamChunk :
          /\ npu' = [npu EXCEPT !.pixels = npu.pixels + px,
                                !.ready = npu.pixels + px >= CamPixels /\ px > 0]
          /\ at' \in {"submit", "out"}
    BY <1>4 DEF DrainCamera, Waits
  <2>2. /\ npu'.pixels = npu.pixels + px /\ npu'.ready = (npu.pixels + px >= CamPixels /\ px > 0)
        /\ at' # "drain" /\ px \in Nat /\ px <= CamChunk
    BY <1>1, <2>1
  <2>3. npu.pixels < CamPixels
    BY <1>4 DEF DrainCamera, Room
  <2>4. CASE npu.pixels + px >= CamPixels /\ px > 0
    <3>1. npu'.ready = TRUE
      BY <2>2, <2>4
    <3> QED
      BY <1>1, <2>2, <2>3, <3>1 DEF Room
  <2>5. CASE ~(npu.pixels + px >= CamPixels /\ px > 0)
    BY <1>1, <2>2, <2>3, <2>5 DEF Room
  <2> QED
    BY <2>4, <2>5
<1>5. CASE \E e : BeginPoll(e)
  <2>1. PICK e : BeginPoll(e)
    BY <1>5
  <2>2. CASE FailedPoll(e) \/ AwaitsNpu(e)
    BY <1>3, <2>2 DEF FailedPoll, AwaitsNpu, Answers, Waits
  <2>3. CASE FirstPoll(e)
    <3>1. npu.pixels = 0
      BY <1>1, <2>3 DEF FirstPoll, Handed
    <3>2. \E state : npu' = [npu EXCEPT !.state = state]
      BY <2>3 DEF FirstPoll
    <3> QED
      BY <1>1, <1>2, <3>1, <3>2
  <2>4. CASE TakesResult(e)
    BY <1>1, <1>2, <2>4, DroppedIs DEF TakesResult
  <2>5. CASE TakesFrame(e)
    <3>1. npu.ready \in BOOLEAN /\ npu' = npu
      BY <1>1, <2>5 DEF TakesFrame
    <3>2. at' = "drain" => npu.ready = FALSE
      BY <2>5, <3>1 DEF TakesFrame
    <3> QED
      BY <1>3, <3>1, <3>2
  <2> QED
    BY <2>1, <2>2, <2>3, <2>4, <2>5 DEF BeginPoll
<1>6. CASE ClearDone \/ AskDriver \/ Asked
  <2>1. CASE ClearDone
    BY <1>1, <1>3, <2>1 DEF ClearDone
  <2>2. CASE AskDriver
    <3>1. CASE npu' = npu
      BY <1>3, <2>2, <3>1 DEF AskDriver, Waits, Answers
    <3>2. CASE npu' = Dropped
      BY <1>1, <1>2, <3>2, DroppedIs
    <3> QED
      BY <2>2, <3>1, <3>2 DEF AskDriver
  <2>3. CASE Asked
    BY <1>1, <1>3, <2>3 DEF Asked, MarkPending, Waits
  <2> QED
    BY <1>6, <2>1, <2>2, <2>3
<1>7. CASE DriverStep
  <2>1. npu' = npu \/ (\E ok : npu' = [npu EXCEPT !.ok = ok])
                   \/ npu' = [npu EXCEPT !.done = TRUE]
    BY <1>7 DEF DriverStep, DriverRuns, DriverResult, DriverDone
  <2>2. npu'.pixels = npu.pixels /\ npu'.ready = npu.ready /\ at' = at
    BY <1>1, <1>7, <2>1 DEF DriverStep
  <2> QED
    BY <1>3, <2>2
<1>8. CASE UNCHANGED <<npu, at, driver>>
  BY <1>3, <1>8
<1>9. \/ \E e : BeginPoll(e)
      \/ PollsOn
      \/ DriverStep
      \/ UNCHANGED <<npu, at, driver>>
  BY DEF Next, vars, eyes, EyeTick, SeePolls, EyePollsOn, NpuThread, See, VoiceTick, EdgeTick,
         Wants, TickPauses, Moves, Detects, Sensed, Drawn
<1> QED
  BY <1>4, <1>5, <1>6, <1>7, <1>8, <1>9 DEF PollsOn

(* What the loop keeps of a service: classes are told, never Nothing.      *)
LoopType ==
  /\ build \in Builds /\ wanted \in BOOLEAN /\ running \in BOOLEAN /\ bench \in BOOLEAN
  /\ register \in Nat /\ moving \in BOOLEAN

LEMMA LoopStep ==
  LoopType /\ VoiceInv' /\ EdgeInv' /\ EyeInv' /\ [Next]_vars => LoopType'
<1> SUFFICES ASSUME LoopType, VoiceInv', EdgeInv', EyeInv', [Next]_vars PROVE LoopType'
  OBVIOUS
<1>1. ASSUME NEW said \in Int, Tells(said) PROVE register' \in Nat
  BY <1>1 DEF Tells, LoopType
<1>2. voice'.said \in Int
  <2>1. voice'.said \in Heard \cup {-1}
    BY Windows DEF VoiceInv, Listening, Listener
  <2>2. \A said \in Heard : said \in Int
    BY Windows
  <2> QED
    BY <2>1, <2>2
<1>3. edge'.said \in Int
  <2>1. edge'.said \in {-1, 0} \cup {ClassOf[l] : l \in Labels}
    BY DEF EdgeInv, Service
  <2> QED
    BY <2>1, EdgeAssumption
<1>4. eye'.said \in Int
  BY DEF EyeInv, Verdict
<1>5. CASE VoiceTick
  BY <1>1, <1>2, <1>5 DEF VoiceTick, LoopType
<1>6. CASE EdgeTick
  BY <1>1, <1>3, <1>6 DEF EdgeTick, ears, LoopType
<1>7. ASSUME Returns PROVE register' \in Nat /\ bench' \in BOOLEAN
  BY <1>1, <1>4, <1>7 DEF Returns, LoopType
<1>8. CASE EyeTick \/ SeePolls \/ EyePollsOn
  BY <1>7, <1>8 DEF EyeTick, SeePolls, EyePollsOn, EyeOnly, ears, LoopType
<1>9. CASE NpuThread \/ See \/ Wants \/ TickPauses \/ Moves
  BY <1>9 DEF NpuThread, See, Wants, TickPauses, Moves, EyeOnly, ears, loop, LoopType
<1>10. CASE Detects \/ Sensed \/ Drawn \/ UNCHANGED vars
  BY <1>10 DEF Detects, Sensed, Drawn, vars, ears, loop, LoopType
<1> QED
  BY <1>5, <1>6, <1>8, <1>9, <1>10 DEF Next

LEMMA ColorTypes == ColorInv => ColorTypeOK
<1> SUFFICES ASSUME ColorInv PROVE ColorTypeOK
  OBVIOUS
<1>1. PICK P \in SUBSET Indices(frame), O \in SUBSET Indices(frame) :
        Framed(frame) /\ Filled(frame, mask, fill, P, O)
  BY DEF ColorInv
<1>2. /\ fill \in FillType(frame) /\ Distinct(fill.stack)
      /\ fill.region.n = Cardinality(P) \/ fill.region.n = 0
  BY <1>1 DEF Filled, Flood, Parts, Measures, Over, Distinct
<1>3. /\ fill.stack \in Seq(Indices(frame)) /\ fill.next \in 0 .. Size(frame)
      /\ fill.seen \subseteq Indices(frame)
  BY <1>2 DEF FillType
<1>4. Cardinality(P) \in 0 .. Size(frame) /\ Size(frame) \in Nat
  BY <1>1, PixelsFinite
<1>5. Len(fill.stack) <= Size(frame)
  <2> DEFINE n == Len(fill.stack)
  <2>1. n \in Nat /\ fill.stack \in Injection(1 .. n, Indices(frame))
    BY <1>2, <1>3 DEF Distinct, Injection, IsInjective
  <2>2. /\ IsFiniteSet(Indices(frame)) /\ Cardinality(Indices(frame)) <= Size(frame)
        /\ Cardinality(Indices(frame)) \in Nat
    BY <1>1, PixelsFinite
  <2>3. Cardinality(1 .. n) <= Cardinality(Indices(frame))
    BY <2>1, <2>2, FS_Injection
  <2>4. Cardinality(1 .. n) = n
    <3>1. 1 \in Int /\ n \in Int /\ (IF 1 > n THEN 0 ELSE n - 1 + 1) = n
      BY <2>1
    <3> QED
      BY <3>1, FS_Interval
  <2> HIDE DEF n
  <2>5. n <= Size(frame)
    BY <1>4, <2>1, <2>2, <2>3, <2>4
  <2> QED
    BY <2>5 DEF n
<1>6. fill.region.n \in 0 .. Size(frame)
  BY <1>2, <1>4
<1> QED
  BY <1>3, <1>5, <1>6 DEF ColorTypeOK, ColorInv

(* Every value the services and the detector keep is in its type: the      *)
(* window's fill, the candidate, the counts of blocks, the eye's frame,    *)
(* and the flood fill's stack, an array of as many pixels as the frame.    *)
THEOREM SensesType == Spec => []TypeOK
<1> DEFINE Inv == LoopType /\ VoiceInv /\ EdgeInv /\ EyeInv /\ Room /\ ColorInv
<1>1. Init => Inv
  <2>1. Init => LoopType
    <3> SUFFICES ASSUME Init PROVE LoopType
      OBVIOUS
    <3>1. register \in Nat
      BY DEF Init
    <3>2. /\ build \in Builds /\ wanted \in BOOLEAN /\ running \in BOOLEAN /\ bench \in BOOLEAN
          /\ moving \in BOOLEAN
      BY Zenon DEF Init
    <3> QED
      BY <3>1, <3>2 DEF LoopType
  <2>2. Init => Room
    BY NpuAssumption DEF Init, NpuInit, Room
  <2> QED
    BY <2>1, <2>2, VoiceInit, EdgeStart, EyeStart, ColorStart
<1>2. Inv /\ [Next]_vars => Inv'
  BY LoopStep, VoiceStep, EdgeStep, EyeStep, RoomStep, ColorStep
<1>3. Inv => TypeOK
  <2> SUFFICES ASSUME Inv PROVE TypeOK
    OBVIOUS
  <2>1. VoiceTypeOK
    <3>1. Rings = {<<>>} \cup Posteriors \X Posteriors \X Posteriors
                    \cup Posteriors \X Posteriors \cup {<<p>> : p \in Posteriors}
      BY DEF Rings
    <3> QED
      BY <3>1 DEF VoiceInv, Listening, Listener, VoiceTypeOK, LoopType
  <2>2. EdgeTypeOK
    BY DEF EdgeInv, Service, Kept, Smoother, EdgeTypeOK
  <2>3. NpuTypeOK
    <3>1. npu.pixels \in 0 .. CamPixels + CamChunk
      BY NpuAssumption DEF EyeInv, EyeType, Room
    <3>2. npu \in [state : {"uninit", "failed", "run"}, pixels : 0 .. CamPixels + CamChunk,
                   ready : BOOLEAN, pending : BOOLEAN, done : BOOLEAN, ok : BOOLEAN]
      BY <3>1 DEF EyeInv, EyeType
    <3> QED
      BY <3>2 DEF EyeInv, EyeType, Verdict, NpuTypeOK
  <2> QED
    BY <2>1, <2>2, <2>3, ColorTypes DEF TypeOK, LoopType
<1> QED
  BY <1>1, <1>2, <1>3, PTL DEF Spec
=============================================================================
