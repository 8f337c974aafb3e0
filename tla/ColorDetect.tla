------------------------------ MODULE ColorDetect ------------------------------
(***************************************************************************)
(* The colour detector (src/ai/color_detect.c): every pixel gets a colour  *)
(* by its hue, regions of one colour are flood-filled with a stack of      *)
(* pixel indices, and the region that scores best is the answer.  One step *)
(* takes one pixel off the stack, or judges a filled region and begins the *)
(* next.                                                                   *)
(*                                                                         *)
(* Hues and shares are compared by integers, exactly, where the code does  *)
(* it in floats.                                                           *)
(***************************************************************************)
EXTENDS Integers, Sequences, FiniteSets

CONSTANTS
  Frames,    \* [w, h, px]: width, height, the <<r, g, b>> of each index
  Border,    \* columns and rows on each side that are not the centre
  CoverMin,  \* COVER_MIN, in percent
  FillMin    \* FILL_MIN, in percent

VARIABLES
  frame,
  mask,    \* g_mask: the colour of each pixel
  fill,    \* the scan: [next, seen, stack, color] and the region so far
  best,    \* the best region so far: [color, n, sumx, score]
  blob     \* the answer, once the scan is over: [cls, x, size]

Size(f) == f.w * f.h
Indices(f) == 0 .. Size(f) - 1

Level == 0 .. 255
ASSUME FramesAssumption ==
  \A f \in Frames : /\ f.w \in Nat \ {0} /\ f.h \in Nat \ {0}
                    /\ f.px \in [Indices(f) -> Level \X Level \X Level]
ASSUME ShareAssumption == CoverMin \in Nat \ {0} /\ FillMin \in Nat /\ Border \in Nat

Great(m, n) == IF m > n THEN m ELSE n
Small(m, n) == IF m < n THEN m ELSE n
-----------------------------------------------------------------------------
(* The colour of a pixel, 0 for none: too dark, too grey, or violet.       *)
Brightest(p) == Great(Great(p[1], p[2]), p[3])
Spread(p) == Brightest(p) - Small(Small(p[1], p[2]), p[3])
TooDark(p) == 100 * Brightest(p) < 13 * 255
TooGrey(p) == 100 * Spread(p) < 28 * Brightest(p)

(* The hue in degrees, times Spread.                                       *)
Hue(p) ==
  LET d == Spread(p)
      h == IF Brightest(p) = p[1] THEN 60 * (p[2] - p[3])
           ELSE IF Brightest(p) = p[2] THEN 60 * (p[3] - p[1]) + 120 * d
           ELSE 60 * (p[1] - p[2]) + 240 * d
  IN  IF h < 0 THEN h + 360 * d ELSE h

Within(p, from, to) == from * Spread(p) <= Hue(p) /\ Hue(p) < to * Spread(p)

Bands == [yellow |-> <<40, 80>>, red |-> <<0, 20>>, green |-> <<80, 175>>,
          blue |-> <<175, 255>>, orange |-> <<20, 40>>, pink |-> <<285, 345>>]
ColorsNarrow(p) == {c \in DOMAIN Bands : Within(p, Bands[c][1], Bands[c][2])}
Colors(p) ==
  {c \in DOMAIN Bands : Within(p, Bands[c][1], Bands[c][2])}
    \cup (IF Within(p, 345, 361) THEN {"red"} ELSE {})

NoColor == "none"
ColorOf(p) ==
  IF TooDark(p) \/ TooGrey(p) \/ Colors(p) = {} THEN NoColor
  ELSE CHOOSE c \in Colors(p) : TRUE

ClassOfColor == [yellow |-> 4, red |-> 5, green |-> 6, blue |-> 7, orange |-> 8, pink |-> 9]

(* tc_color_stats: why pixels count for nothing, by bands of its own.      *)
Violet(p) == Within(p, 255, 285)
CountedByStats(p) == ~TooDark(p) /\ ~TooGrey(p) /\ ~Violet(p)
-----------------------------------------------------------------------------
Column(f, i) == i % f.w
Row(f, i) == i \div f.w
InCentre(f, i) == /\ Border <= Column(f, i) /\ Column(f, i) < f.w - Border
                  /\ Border <= Row(f, i) /\ Row(f, i) < f.h - Border

(* Where a pixel has a neighbour on each side.                             *)
HasLeftByIndex(f, i) == i > 0
HasLeft(f, i) == Column(f, i) > 0
HasRight(f, i) == Column(f, i) + 1 < f.w
HasUp(f, i) == Row(f, i) > 0
HasDown(f, i) == Row(f, i) + 1 < f.h

NewRegion(f) ==
  [n |-> 0, sumx |-> 0, centre |-> 0, minx |-> f.w, maxx |-> -1, miny |-> f.h, maxy |-> -1]

(* The next pixel of some colour nobody has seen starts a region; Size(f)  *)
(* when there is none.                                                     *)
StartFrom(f, m, seen, i) ==
  LET rest == {j \in Indices(f) : j >= i /\ j \notin seen /\ m[j] # NoColor}
  IN  IF rest = {} THEN Size(f) ELSE CHOOSE j \in rest : \A k \in rest : j <= k
Started(f, m, seen, i) ==
  LET j == StartFrom(f, m, seen, i)
  IN  IF j = Size(f)
      THEN [next |-> j, seen |-> seen, stack |-> <<>>, color |-> NoColor, region |-> NewRegion(f)]
      ELSE [next |-> j + 1, seen |-> seen \cup {j}, stack |-> <<j>>, color |-> m[j],
            region |-> NewRegion(f)]

NoBlob == [cls |-> -1, x |-> 0, size |-> 0]

ColorInit(f) ==
  /\ frame = f
  /\ mask = [i \in Indices(f) |-> ColorOf(f.px[i])]
  /\ fill = Started(f, mask, {}, 0)
  /\ best = [color |-> NoColor, n |-> 0, sumx |-> 0, score |-> 0]
  /\ blob = NoBlob

(* Pop: count the pixel, push its neighbours of the colour, seen from now. *)
Grown(r, i) ==
  LET x == Column(frame, i)  y == Row(frame, i)
  IN  [n |-> r.n + 1, sumx |-> r.sumx + x,
       centre |-> r.centre + (IF InCentre(frame, i) THEN 1 ELSE 0),
       minx |-> Small(r.minx, x), maxx |-> Great(r.maxx, x),
       miny |-> Small(r.miny, y), maxy |-> Great(r.maxy, y)]
PushedUnmarked(s, j) == [s EXCEPT !.stack = Append(@, j)]
Pushed(s, j) == [s EXCEPT !.stack = Append(@, j), !.seen = @ \cup {j}]
Tried(s, m, has, j) ==
  IF has /\ m[j] = s.color /\ j \notin s.seen THEN Pushed(s, j) ELSE s
PushNeighbours(s, f, m, i) ==
  LET left  == Tried(s, m, HasLeft(f, i), i - 1)
      right == Tried(left, m, HasRight(f, i), i + 1)
      up    == Tried(right, m, HasUp(f, i), i - f.w)
  IN  Tried(up, m, HasDown(f, i), i + f.w)
Pop ==
  /\ fill.stack # <<>>
  /\ LET top  == fill.stack[Len(fill.stack)]
         rest == [fill EXCEPT !.stack = SubSeq(@, 1, Len(@) - 1), !.region = Grown(@, top)]
     IN  fill' = PushNeighbours(rest, frame, mask, top)
  /\ UNCHANGED <<frame, mask, best, blob>>

(* Judge: the noise floor, the share of the bounding box, the score.       *)
Box(r) == (r.maxx - r.minx + 1) * (r.maxy - r.miny + 1)
IsObject(r) == 100 * r.n >= CoverMin * Size(frame) /\ 100 * r.n >= FillMin * Box(r)
Score(r) == r.n + r.centre

Judge ==
  /\ fill.stack = <<>> /\ fill.color # NoColor
  /\ best' = IF IsObject(fill.region) /\ Score(fill.region) > best.score
             THEN [color |-> fill.color, n |-> fill.region.n, sumx |-> fill.region.sumx,
                   score |-> Score(fill.region)]
             ELSE best
  /\ fill' = Started(frame, mask, fill.seen, fill.next)
  /\ UNCHANGED <<frame, mask, blob>>

Percent(n) == (n * 100 + Size(frame) \div 2) \div Size(frame)
Answer ==
  /\ fill.stack = <<>> /\ fill.color = NoColor /\ blob = NoBlob
  /\ blob' = IF best.color = NoColor THEN [cls |-> 0, x |-> 0, size |-> 0]
             ELSE [cls |-> ClassOfColor[best.color],
                   x |-> IF frame.w > 1 THEN ((best.sumx \div best.n) * 100) \div (frame.w - 1)
                         ELSE 50,
                   size |-> Small(Great(Percent(best.n), 1), 100)]
  /\ UNCHANGED <<frame, mask, fill, best>>

Detect == Pop \/ Judge \/ Answer
-----------------------------------------------------------------------------
ColorTypeOK ==
  /\ fill.next \in 0 .. Size(frame) /\ fill.seen \subseteq Indices(frame)
  /\ Len(fill.stack) <= Size(frame)  \* the stack is an array of MAX_PIXELS
  /\ fill.region.n \in 0 .. Size(frame)
  /\ blob.x \in 0 .. 100 /\ blob.size \in 0 .. 100

(* Reference: no pixel beside, above or below a whole set has the colour   *)
(* of its neighbour in it, and a region is a whole set of one colour with  *)
(* no smaller one in it.                                                   *)
Adjacent(f, i, j) ==
  \/ Row(f, i) = Row(f, j) /\ Column(f, i) - Column(f, j) \in {-1, 1}
  \/ Column(f, i) = Column(f, j) /\ Row(f, i) - Row(f, j) \in {-1, 1}
Whole(f, m, s) ==
  \A i \in s, j \in Indices(f) \ s : m[i] = m[j] => ~Adjacent(f, i, j)
OfColor(f, m, c) == {i \in Indices(f) : m[i] = c}
Regions(f, m) ==
  {r \in UNION {SUBSET OfColor(f, m, c) : c \in DOMAIN Bands} :
     r # {} /\ Whole(f, m, r) /\ \A s \in SUBSET r : Whole(f, m, s) => s \in {{}, r}}

Columns(f, r) == {Column(f, i) : i \in r}
Rows(f, r) == {Row(f, i) : i \in r}
Spans(s, k) == \A a, b \in s : a - b <= k - 1
Filling(f, r) ==
  \E w \in 1 .. f.w, h \in 1 .. f.h :
    Spans(Columns(f, r), w) /\ Spans(Rows(f, r), h) /\ 100 * Cardinality(r) >= FillMin * (w * h)
Objects(f, m) ==
  {r \in Regions(f, m) : 100 * Cardinality(r) >= CoverMin * Size(f) /\ Filling(f, r)}
Weighs(f, r) == Cardinality(r) + Cardinality({i \in r : InCentre(f, i)})
LeftOf(f, r) == Cardinality({m \in r \X (0 .. f.w) : m[2] < Column(f, m[1])})

(* The answer b is an object none outweighs, or that there is none: x is   *)
(* at most a column left of its centroid, size its share to the nearest    *)
(* percent.                                                                *)
IsBest(f, m, b) ==
  LET objects == Objects(f, m) IN
  IF objects = {} THEN b = [cls |-> 0, x |-> 0, size |-> 0]
  ELSE \E r \in objects :
         /\ \A q \in objects : Weighs(f, q) <= Weighs(f, r)
         /\ \E i \in r : b.cls = ClassOfColor[m[i]]
         /\ LET n   == Cardinality(r)
                off == 100 * LeftOf(f, r) - b.x * n * (f.w - 1)
            IN  /\ f.w > 1 => 0 <= off /\ off < n * (100 + f.w)
                /\ b.size \in 1 .. 100
                /\ 2 * (b.size * Size(f) - 100 * n) \in -Size(f) .. Size(f)

(* What SEE() is told is an object of the picture: a whole region of one   *)
(* colour, big and dense enough, that no other outweighs, with its column  *)
(* and its coverage; it is nothing exactly when there is no such region    *)
(* (tc_detect_color_blob).  Not to be outweighed is enough, however near   *)
(* the runner-up: see WinnerBeatsRunnerUp.                                 *)
BlobIsBest == blob # NoBlob => IsBest(frame, mask, blob)

(* The two copies of the thresholds agree: what the CAM report counts as   *)
(* coloured is what the detector sees a colour in.                         *)
StatsAgree == \A i \in Indices(frame) :
  CountedByStats(frame.px[i]) <=> mask[i] # NoColor

(* Claimed, and not so: the object SEE() is told weighs 1.3 times (MARGIN) *)
(* what any object of another colour in the picture weighs.                *)
WinnerBeatsRunnerUp ==
  blob # NoBlob /\ blob.cls > 0 =>
    LET objects == Objects(frame, mask)
        Class(r) == ClassOfColor[mask[CHOOSE i \in r : TRUE]]
    IN  \E r \in objects :
          /\ Class(r) = blob.cls
          /\ \A q \in objects :
               Class(q) # blob.cls => 10 * Weighs(frame, r) >= 13 * Weighs(frame, q)
=============================================================================
