----------------------------- MODULE SerialProofs -----------------------------
(***************************************************************************)
(* The ring of SerialLink implements BytePipe, for every size of the ring  *)
(* and every set of bytes.                                                 *)
(***************************************************************************)
EXTENDS SerialLink, FiniteSetTheorems, SequenceTheorems, TLAPS

LEMMA ModOnce ==
  ASSUME NEW n \in Nat \ {0}, NEW a \in 0 .. 2 * n - 1
  PROVE  a % n = IF a < n THEN a ELSE a - n
  OBVIOUS

(* The ring's index arithmetic without %.                                  *)
LEMMA AfterIs ==
  ASSUME NEW slot \in Slots
  PROVE  After(slot) \in Slots
         /\ After(slot) = IF slot + 1 = RingSize THEN 0 ELSE slot + 1
<1> DEFINE a == slot + 1
<1>1. RingSize \in Nat \ {0} /\ a \in 0 .. 2 * RingSize - 1
  BY LinkAssumption DEF Slots
<1> HIDE DEF a
<1>2. a % RingSize = IF a < RingSize THEN a ELSE a - RingSize
  BY <1>1, ModOnce, Zenon
<1> QED
  BY <1>1, <1>2 DEF a, After, Slots

LEMMA BeforeIs ==
  ASSUME NEW slot \in Slots
  PROVE  (slot + RingSize - 1) % RingSize = IF slot = 0 THEN RingSize - 1 ELSE slot - 1
<1> DEFINE a == slot + RingSize - 1
<1>1. RingSize \in Nat \ {0} /\ a \in 0 .. 2 * RingSize - 1
  BY LinkAssumption DEF Slots
<1> HIDE DEF a
<1>2. a % RingSize = IF a < RingSize THEN a ELSE a - RingSize
  BY <1>1, ModOnce, Zenon
<1> QED
  BY <1>1, <1>2 DEF a, Slots

(* The unread bytes of a ring r with head h and tail t.                    *)
Count(h, t) == (h + RingSize - t) % RingSize
UnreadOf(r, h, t) == [i \in 1 .. Count(h, t) |-> r[(t + i - 1) % RingSize]]

LEMMA CountIs ==
  ASSUME NEW h \in Slots, NEW t \in Slots
  PROVE  Count(h, t) \in Slots
         /\ Count(h, t) = IF h >= t THEN h - t ELSE h + RingSize - t
<1> DEFINE a == h + RingSize - t
<1>1. RingSize \in Nat \ {0} /\ a \in 0 .. 2 * RingSize - 1
  BY LinkAssumption DEF Slots
<1> HIDE DEF a
<1>2. a % RingSize = IF a < RingSize THEN a ELSE a - RingSize
  BY <1>1, ModOnce, Zenon
<1> QED
  BY <1>1, <1>2 DEF a, Count, Slots

LEMMA PlaceIs ==
  ASSUME NEW t \in Slots, NEW i \in 1 .. RingSize
  PROVE  (t + i - 1) % RingSize \in Slots
         /\ (t + i - 1) % RingSize =
              IF t + i - 1 < RingSize THEN t + i - 1 ELSE t + i - 1 - RingSize
<1> DEFINE a == t + i - 1
<1>1. RingSize \in Nat \ {0} /\ a \in 0 .. 2 * RingSize - 1
  BY LinkAssumption DEF Slots
<1> HIDE DEF a
<1>2. a % RingSize = IF a < RingSize THEN a ELSE a - RingSize
  BY <1>1, ModOnce, Zenon
<1> QED
  BY <1>1, <1>2 DEF a, Slots

LEMMA UnreadSeq ==
  ASSUME NEW r \in [Slots -> Bytes], NEW h \in Slots, NEW t \in Slots
  PROVE  UnreadOf(r, h, t) \in Seq(Bytes) /\ Len(UnreadOf(r, h, t)) = Count(h, t)
<1>1. Count(h, t) \in Slots /\ RingSize \in Nat
  BY CountIs, LinkAssumption
<1>2. \A i \in 1 .. Count(h, t) : r[(t + i - 1) % RingSize] \in Bytes
  <2> SUFFICES ASSUME NEW i \in 1 .. Count(h, t)
               PROVE  r[(t + i - 1) % RingSize] \in Bytes
    OBVIOUS
  <2>1. i \in 1 .. RingSize
    BY <1>1 DEF Slots
  <2> QED
    BY <2>1, PlaceIs
<1>3. UnreadOf(r, h, t) \in [1 .. Count(h, t) -> Bytes]
  BY <1>2 DEF UnreadOf
<1>4. Count(h, t) \in Nat
  BY <1>1 DEF Slots
<1> QED
  BY <1>3, <1>4

(* A byte stored at a head that does not meet the tail is the last of the  *)
(* queue, which had room; a head that would meet it has a full queue.      *)
LEMMA KeepUnread ==
  ASSUME NEW r \in [Slots -> Bytes], NEW h \in Slots, NEW t \in Slots,
         NEW b \in Bytes, After(h) # t
  PROVE  /\ Len(UnreadOf(r, h, t)) < RingSize - 1
         /\ UnreadOf([r EXCEPT ![h] = b], After(h), t) = Append(UnreadOf(r, h, t), b)
<1> DEFINE q == UnreadOf(r, h, t)
           n == UnreadOf([r EXCEPT ![h] = b], After(h), t)
<1>1. RingSize \in Nat \ {0} /\ After(h) \in Slots
      /\ After(h) = IF h + 1 = RingSize THEN 0 ELSE h + 1
  BY AfterIs, LinkAssumption
<1>2. Count(h, t) = IF h >= t THEN h - t ELSE h + RingSize - t
  BY CountIs
<1>3. Count(After(h), t) = IF After(h) >= t THEN After(h) - t ELSE After(h) + RingSize - t
  BY <1>1, CountIs
<1>4. Count(h, t) \in Nat /\ Count(h, t) < RingSize - 1
      /\ Count(After(h), t) = Count(h, t) + 1
  BY <1>1, <1>2, <1>3 DEF Slots
<1>5. q \in Seq(Bytes) /\ Len(q) = Count(h, t)
  BY UnreadSeq
<1>6. [r EXCEPT ![h] = b] \in [Slots -> Bytes]
  OBVIOUS
<1>7. n \in Seq(Bytes) /\ Len(n) = Count(h, t) + 1
  BY <1>1, <1>4, <1>6, UnreadSeq
<1>8. ASSUME NEW i \in 1 .. Count(h, t)
      PROVE  n[i] = q[i]
  <2> i \in 1 .. RingSize
    BY <1>1, <1>4
  <2>1. (t + i - 1) % RingSize \in Slots
        /\ (t + i - 1) % RingSize =
             IF t + i - 1 < RingSize THEN t + i - 1 ELSE t + i - 1 - RingSize
    BY PlaceIs
  <2>2. (t + i - 1) % RingSize # h
    BY <1>1, <1>2, <1>4, <2>1 DEF Slots
  <2>3. [r EXCEPT ![h] = b][(t + i - 1) % RingSize] = r[(t + i - 1) % RingSize]
    BY <2>1, <2>2
  <2>4. i \in 1 .. Count(After(h), t)
    BY <1>4
  <2> QED
    BY <2>3, <2>4 DEF UnreadOf
<1>9. n[Count(h, t) + 1] = b
  <2> DEFINE i == Count(h, t) + 1
  <2>1. i \in 1 .. RingSize /\ i \in 1 .. Count(After(h), t)
    BY <1>1, <1>4
  <2>2. (t + i - 1) % RingSize =
          IF t + i - 1 < RingSize THEN t + i - 1 ELSE t + i - 1 - RingSize
    BY <2>1, PlaceIs
  <2>3. (t + i - 1) % RingSize = h
    BY <1>1, <1>2, <1>4, <2>2 DEF Slots
  <2>4. n[i] = [r EXCEPT ![h] = b][(t + i - 1) % RingSize]
    BY <2>1 DEF UnreadOf
  <2> QED
    BY <2>3, <2>4
<1> HIDE DEF q, n
<1>10. n = Append(q, b)
  BY <1>4, <1>5, <1>7, <1>8, <1>9
<1> QED
  BY <1>4, <1>5, <1>10 DEF q, n

LEMMA FullUnread ==
  ASSUME NEW r \in [Slots -> Bytes], NEW h \in Slots, NEW t \in Slots, After(h) = t
  PROVE  Len(UnreadOf(r, h, t)) = RingSize - 1
<1>1. RingSize \in Nat \ {0} /\ t = IF h + 1 = RingSize THEN 0 ELSE h + 1
  BY AfterIs, LinkAssumption
<1>2. Count(h, t) = IF h >= t THEN h - t ELSE h + RingSize - t
  BY CountIs
<1>3. Count(h, t) = RingSize - 1
  BY <1>1, <1>2 DEF Slots
<1> QED
  BY <1>3, UnreadSeq

(* Moving the tail past its slot takes the first of the queue.             *)
LEMMA PopUnread ==
  ASSUME NEW r \in [Slots -> Bytes], NEW h \in Slots, NEW t \in Slots, t # h
  PROVE  /\ UnreadOf(r, h, t) # << >> /\ Head(UnreadOf(r, h, t)) = r[t]
         /\ UnreadOf(r, h, After(t)) = Tail(UnreadOf(r, h, t))
<1> DEFINE q == UnreadOf(r, h, t)
           n == UnreadOf(r, h, After(t))
<1>1. RingSize \in Nat \ {0} /\ After(t) \in Slots
      /\ After(t) = IF t + 1 = RingSize THEN 0 ELSE t + 1
  BY AfterIs, LinkAssumption
<1>2. Count(h, t) = IF h >= t THEN h - t ELSE h + RingSize - t
  BY CountIs
<1>3. Count(h, After(t)) = IF h >= After(t) THEN h - After(t) ELSE h + RingSize - After(t)
  BY <1>1, CountIs
<1>4. Count(h, t) \in 1 .. RingSize - 1 /\ Count(h, After(t)) = Count(h, t) - 1
  BY <1>1, <1>2, <1>3 DEF Slots
<1>5. q \in Seq(Bytes) /\ Len(q) = Count(h, t)
  BY UnreadSeq
<1>6. n \in Seq(Bytes) /\ Len(n) = Count(h, t) - 1
  BY <1>1, <1>4, UnreadSeq
<1>7. q[1] = r[t]
  <2>1. (t + 1 - 1) % RingSize = t
    BY <1>1, PlaceIs DEF Slots
  <2> QED
    BY <1>4, <2>1 DEF UnreadOf
<1>8. ASSUME NEW i \in 1 .. Count(h, t) - 1
      PROVE  n[i] = q[i + 1]
  <2>1. i \in 1 .. RingSize /\ i + 1 \in 1 .. RingSize
    BY <1>1, <1>4
  <2>2. (After(t) + i - 1) % RingSize =
          IF After(t) + i - 1 < RingSize THEN After(t) + i - 1
          ELSE After(t) + i - 1 - RingSize
    BY <1>1, <2>1, PlaceIs
  <2>3. (t + (i + 1) - 1) % RingSize =
          IF t + (i + 1) - 1 < RingSize THEN t + (i + 1) - 1
          ELSE t + (i + 1) - 1 - RingSize
    BY <2>1, PlaceIs
  <2>4. (After(t) + i - 1) % RingSize = (t + (i + 1) - 1) % RingSize
    BY <1>1, <2>1, <2>2, <2>3 DEF Slots
  <2>5. i \in 1 .. Count(h, After(t)) /\ i + 1 \in 1 .. Count(h, t)
    BY <1>4
  <2> QED
    BY <2>4, <2>5 DEF UnreadOf
<1> HIDE DEF q, n
<1>9. q # << >> /\ Head(q) = r[t]
  BY <1>4, <1>5, <1>7
<1>10. Tail(q) \in Seq(Bytes) /\ Len(Tail(q)) = Count(h, t) - 1
       /\ \A i \in 1 .. Count(h, t) - 1 : Tail(q)[i] = q[i + 1]
  BY <1>4, <1>5, <1>9
<1>11. n = Tail(q)
  BY <1>4, <1>6, <1>8, <1>10
<1> QED
  BY <1>9, <1>11 DEF q, n
-----------------------------------------------------------------------------
(* What holds of ring and pop whatever interrupts it: a pop has a byte to  *)
(* pop until its tail moves, and a byte loaded early is the tail's.        *)
RingInv ==
  /\ rx_ring \in [Slots -> Bytes] /\ rx_head \in Slots /\ rx_tail \in Slots
  /\ byte \in Bytes /\ handed \in Seq(Bytes) /\ dropped \in Nat
  /\ reader # "pop" => done = {}
  /\ reader = "pop" /\ "move" \notin done => rx_tail # rx_head
  /\ "load" \in done /\ "move" \notin done => byte = rx_ring[rx_tail]

LEMMA RingStart == Init => RingInv
<1> SUFFICES ASSUME Init
             PROVE  RingInv
  OBVIOUS
<1>1. NL \in Bytes /\ 0 \in Slots
  BY LinkAssumption DEF Slots
<1>2. rx_ring \in [Slots -> Bytes]
  BY <1>1 DEF Init
<1> QED
  BY <1>1, <1>2 DEF Init, RingInv

LEMMA ReceiveRing ==
  ASSUME RingInv, NEW b \in Bytes, Receive(b)
  PROVE  RingInv'
<1>1. CASE /\ After(rx_head) # rx_tail
           /\ rx_ring' = [rx_ring EXCEPT ![rx_head] = b]
           /\ rx_head' = After(rx_head)
           /\ UNCHANGED dropped
  <2>1. rx_ring' \in [Slots -> Bytes] /\ rx_head' \in Slots
    BY <1>1, AfterIs DEF RingInv
  <2>2. rx_tail # rx_head => rx_ring'[rx_tail] = rx_ring[rx_tail]
    BY <1>1 DEF RingInv
  <2>3. UNCHANGED <<rx_tail, reader, done, byte, handed>>
    BY DEF Receive, popVars, lineVars
  <2>4. "load" \in done /\ "move" \notin done => reader = "pop"
    BY DEF RingInv
  <2> QED
    BY <1>1, <2>1, <2>2, <2>3, <2>4 DEF RingInv
<1>2. CASE dropped' = dropped + 1 /\ UNCHANGED <<rx_ring, rx_head>>
  BY <1>2 DEF Receive, popVars, lineVars, RingInv
<1> QED
  BY <1>1, <1>2 DEF Receive

LEMMA LoopRing ==
  ASSUME RingInv, Loop
  PROVE  RingInv'
<1>1. CASE Pump
  BY <1>1 DEF Pump, RingInv, ringVars, lineVars
<1>2. CASE Look
  BY <1>2 DEF Look, RingInv, ringVars, lineVars
<1>3. CASE LoadByte
  <2>1. byte' = rx_ring[Popped]
    BY <1>3 DEF LoadByte
  <2>2. Popped \in Slots
    BY BeforeIs, LinkAssumption DEF Popped, RingInv, Slots
  <2>3. byte' \in Bytes
    BY <2>1, <2>2 DEF RingInv
  <2>4. "move" \notin done => Popped = rx_tail
    BY DEF Popped
  <2> QED
    BY <1>3, <2>1, <2>3, <2>4 DEF LoadByte, RingInv, ringVars, lineVars
<1>4. CASE MoveTail
  <2>1. rx_tail' \in Slots
    BY <1>4, AfterIs DEF MoveTail, RingInv
  <2> QED
    BY <1>4, <2>1 DEF MoveTail, RingInv, lineVars
<1>5. CASE TakeByte
  BY <1>5 DEF TakeByte, RingInv, ringVars
<1> QED
  BY <1>1, <1>2, <1>3, <1>4, <1>5 DEF Loop

LEMMA RingStep == RingInv /\ [Next]_vars => RingInv'
<1> SUFFICES ASSUME RingInv, [Next]_vars
             PROVE  RingInv'
  OBVIOUS
<1>1. CASE UNCHANGED vars
  BY <1>1 DEF vars, ringVars, popVars, lineVars, RingInv
<1> QED
  BY <1>1, LoopRing, ReceiveRing DEF Next
-----------------------------------------------------------------------------
(* The mapping in terms of UnreadOf.                                       *)
LEMMA UnreadIs == Unread = UnreadOf(rx_ring, rx_head, rx_tail)
  BY DEF Unread, UnreadOf, Count

LEMMA UnreadIsNext == Unread' = UnreadOf(rx_ring', rx_head', rx_tail')
  BY DEF Unread, UnreadOf, Count

LEMMA PipeStart == Init => Pipe!Init
<1> SUFFICES ASSUME Init
             PROVE  Pipe!Init
  OBVIOUS
<1>1. Count(0, 0) = 0
  BY CountIs, LinkAssumption DEF Slots
<1>2. Unread = << >>
  BY <1>1, UnreadIs DEF Init, UnreadOf
<1>3. handed \o InHand = << >>
  BY DEF Init, InHand
<1> QED
  BY <1>2, <1>3 DEF Init, Pipe!Init

LEMMA ReceivePipe ==
  ASSUME RingInv, NEW b \in Bytes, Receive(b)
  PROVE  Pipe!Keep(b) \/ Pipe!Lose
<1>1. UNCHANGED <<rx_tail, reader, done, byte, handed>>
  BY DEF Receive, popVars, lineVars
<1>2. CASE /\ After(rx_head) # rx_tail
           /\ rx_ring' = [rx_ring EXCEPT ![rx_head] = b]
           /\ rx_head' = After(rx_head)
           /\ UNCHANGED dropped
  <2>1. Len(Unread) < RingSize - 1 /\ Unread' = Append(Unread, b)
    BY <1>1, <1>2, KeepUnread, UnreadIs, UnreadIsNext DEF RingInv
  <2>2. Popped \in Slots /\ ("move" \in done => Popped # rx_head)
    <3>1. Popped = IF "move" \in done
                   THEN IF rx_tail = 0 THEN RingSize - 1 ELSE rx_tail - 1 ELSE rx_tail
      BY BeforeIs DEF Popped, RingInv
    <3>2. After(rx_head) = IF rx_head + 1 = RingSize THEN 0 ELSE rx_head + 1
      BY AfterIs DEF RingInv
    <3> QED
      BY <1>2, <3>1, <3>2, LinkAssumption DEF Slots, RingInv
  <2>3. "move" \in done => rx_ring'[Popped] = rx_ring[Popped]
    BY <1>2, <2>2 DEF RingInv
  <2>4. Popped' = Popped
    BY <1>1 DEF Popped
  <2>5. InHand' = InHand
    BY <1>1, <2>3, <2>4 DEF InHand
  <2> QED
    BY <1>1, <1>2, <2>1, <2>5 DEF Pipe!Keep
<1>3. CASE /\ After(rx_head) = rx_tail
           /\ dropped' = dropped + 1
           /\ UNCHANGED <<rx_ring, rx_head>>
  <2>1. Len(Unread) = RingSize - 1
    BY <1>3, FullUnread, UnreadIs DEF RingInv
  <2>2. Unread' = Unread /\ InHand' = InHand
    BY <1>1, <1>3 DEF Unread, InHand, Popped
  <2>3. Len(Unread) >= RingSize - 1
    BY <2>1, LinkAssumption
  <2> QED
    BY <1>1, <1>3, <2>2, <2>3 DEF Pipe!Lose
<1> QED
  BY <1>2, <1>3 DEF Receive

LEMMA LoopPipe ==
  ASSUME RingInv, Loop
  PROVE  Pipe!Take \/ UNCHANGED Pipe!pipe
<1>1. CASE Pump \/ Look
  <2>1. done = {} /\ done' = {}
    BY <1>1 DEF Pump, Look, RingInv
  <2>2. UNCHANGED <<rx_ring, rx_head, rx_tail, handed, dropped>>
    BY <1>1 DEF Pump, Look, ringVars, lineVars
  <2> QED
    BY <2>1, <2>2 DEF Pipe!pipe, Unread, InHand
<1>2. CASE LoadByte
  <2>1. /\ UNCHANGED <<rx_ring, rx_head, rx_tail, handed, dropped>>
        /\ "load" \notin done /\ done' = done \cup {"load"} /\ byte' = rx_ring[Popped]
    BY <1>2 DEF LoadByte, ringVars, lineVars
  <2>2. InHand' = InHand
    BY <2>1 DEF InHand
  <2> QED
    BY <2>1, <2>2 DEF Pipe!pipe, Unread
<1>3. CASE MoveTail
  <2>1. /\ UNCHANGED <<rx_ring, rx_head, byte, handed, dropped>>
        /\ "move" \notin done /\ done' = done \cup {"move"} /\ rx_tail' = After(rx_tail)
        /\ rx_tail # rx_head
    BY <1>3 DEF MoveTail, lineVars, RingInv
  <2>2. /\ Unread # << >> /\ Head(Unread) = rx_ring[rx_tail]
        /\ Unread' = Tail(Unread)
    BY <2>1, PopUnread, UnreadIs, UnreadIsNext DEF RingInv
  <2>3. Popped' = rx_tail
    <3>1. After(rx_tail) \in Slots
          /\ After(rx_tail) = IF rx_tail + 1 = RingSize THEN 0 ELSE rx_tail + 1
      BY AfterIs DEF RingInv
    <3>2. (After(rx_tail) + RingSize - 1) % RingSize =
            IF After(rx_tail) = 0 THEN RingSize - 1 ELSE After(rx_tail) - 1
      BY <3>1, BeforeIs
    <3>3. (After(rx_tail) + RingSize - 1) % RingSize = rx_tail
      BY <3>1, <3>2, LinkAssumption DEF RingInv, Slots
    <3> QED
      BY <2>1, <3>3 DEF Popped
  <2>4. InHand = << >> /\ InHand' = <<rx_ring[rx_tail]>>
    BY <2>1, <2>3 DEF InHand, RingInv
  <2>5. rx_ring[rx_tail] \in Bytes
    BY DEF RingInv
  <2>6. handed' \o InHand' = Append(handed \o InHand, Head(Unread))
    BY <2>1, <2>2, <2>4, <2>5 DEF RingInv
  <2> QED
    BY <2>1, <2>2, <2>6 DEF Pipe!Take
<1>4. CASE TakeByte
  <2>1. /\ UNCHANGED <<rx_ring, rx_head, rx_tail, dropped>>
        /\ done = {"load", "move"} /\ done' = {} /\ handed' = Append(handed, byte)
    BY <1>4 DEF TakeByte, ringVars
  <2>2. InHand = <<byte>> /\ InHand' = << >>
    BY <2>1 DEF InHand
  <2>3. handed' \o InHand' = handed \o InHand
    BY <2>1, <2>2 DEF RingInv
  <2> QED
    BY <2>1, <2>3 DEF Pipe!pipe, Unread
<1> QED
  BY <1>1, <1>2, <1>3, <1>4 DEF Loop

LEMMA PipeStep == RingInv /\ [Next]_vars => [Pipe!Next]_Pipe!pipe
<1> SUFFICES ASSUME RingInv, [Next]_vars
             PROVE  [Pipe!Next]_Pipe!pipe
  OBVIOUS
<1>1. CASE Loop
  BY <1>1, LoopPipe DEF Pipe!Next
<1>2. ASSUME NEW b \in Bytes, Receive(b)
      PROVE  [Pipe!Next]_Pipe!pipe
  BY <1>2, ReceivePipe DEF Pipe!Next
<1>3. CASE UNCHANGED vars
  BY <1>3 DEF vars, ringVars, popVars, lineVars, Pipe!pipe, Unread, InHand, Popped
<1> QED
  BY <1>1, <1>2, <1>3 DEF Next

(* The unlocked ring is a queue of RingSize - 1 bytes: none is reordered,  *)
(* damaged or taken twice, and none is lost while there is room.           *)
THEOREM RingImplementsPipe == Spec => RingIsAPipe
<1>1. Init => RingInv
  BY RingStart
<1>2. RingInv /\ [Next]_vars => RingInv'
  BY RingStep
<1> QED
  BY <1>1, <1>2, PipeStart, PipeStep, PTL DEF Spec, Pipe!Spec, RingIsAPipe
-----------------------------------------------------------------------------
(* The line being cut, apart from the ring it comes from.                  *)
LineType ==
  /\ inbuf \in Seq(Bytes \ {NL, CR}) /\ Len(inbuf) <= MaxLine
  /\ lineOverflow \in BOOLEAN /\ kept \in Seq(Bytes)
  /\ reader \in {"away", "look", "pop"} /\ done \subseteq {"load", "move"}

LEMMA LineStep == RingInv /\ LineType /\ [Next]_vars => LineType'
<1> SUFFICES ASSUME RingInv, LineType, [Next]_vars PROVE LineType'
  OBVIOUS
<1>0. byte \in Bytes /\ MaxLine \in Nat
  BY LinkAssumption DEF RingInv
<1>1. ASSUME NEW b \in Bytes, Receive(b) PROVE LineType'
  <2>1. kept' \in {kept, Append(kept, b)}
    BY <1>1 DEF Receive
  <2>2. kept' \in Seq(Bytes)
    BY <2>1 DEF LineType
  <2>3. UNCHANGED <<inbuf, lineOverflow, reader, done>>
    BY <1>1 DEF Receive, popVars, lineVars
  <2>4. inbuf' \in Seq(Bytes \ {NL, CR}) /\ Len(inbuf') <= MaxLine
    BY <2>3 DEF LineType
  <2>5. lineOverflow' \in BOOLEAN
    BY <2>3 DEF LineType
  <2>6. reader' \in {"away", "look", "pop"} /\ done' \subseteq {"load", "move"}
    BY <2>3 DEF LineType
  <2> QED
    BY <2>2, <2>4, <2>5, <2>6 DEF LineType
<1>2. CASE Pump \/ Look \/ LoadByte \/ MoveTail
  BY <1>2 DEF Pump, Look, LoadByte, MoveTail, lineVars, ringVars, LineType
<1>3. CASE TakeByte
  <2>1. UNCHANGED kept /\ reader' = "look" /\ done' = {}
    BY <1>3 DEF TakeByte
  <2>2. CASE EndLine
    <3>1. inbuf' = << >> /\ lineOverflow' = FALSE
      BY <2>2 DEF EndLine
    <3>2. inbuf' \in Seq(Bytes \ {NL, CR}) /\ Len(inbuf') <= MaxLine
      BY <1>0, <3>1
    <3>3. lineOverflow' \in BOOLEAN /\ kept' \in Seq(Bytes)
      BY <2>1, <3>1 DEF LineType
    <3> QED
      BY <2>1, <3>2, <3>3 DEF LineType
  <2>3. CASE GrowLine
    <3>1. byte \in Bytes \ {NL, CR}
      BY <1>0, <2>3 DEF GrowLine
    <3>2. CASE Len(inbuf) < MaxLine /\ inbuf' = Append(inbuf, byte) /\ UNCHANGED lineOverflow
      <4>1. inbuf' \in Seq(Bytes \ {NL, CR}) /\ Len(inbuf') = Len(inbuf) + 1
        BY <3>1, <3>2 DEF LineType
      <4> QED
        BY <1>0, <2>1, <3>2, <4>1 DEF LineType
    <3>3. CASE UNCHANGED <<inbuf, lineOverflow>>
      BY <2>1, <3>3 DEF LineType
    <3>4. CASE inbuf' = << >> /\ lineOverflow' = TRUE
      BY <1>0, <2>1, <3>4 DEF LineType
    <3> QED
      BY <2>3, <3>2, <3>3, <3>4 DEF GrowLine
  <2>4. CASE SkipByte
    BY <2>1, <2>4 DEF SkipByte, LineType
  <2> QED
    BY <1>3, <2>2, <2>3, <2>4 DEF TakeByte
<1>4. CASE UNCHANGED vars
  BY <1>4 DEF vars, popVars, lineVars, LineType
<1> QED
  BY <1>1, <1>2, <1>3, <1>4 DEF Next, Loop

LEMMA LineTypeStart == Init => LineType
<1>1. /\ << >> \in Seq(Bytes \ {NL, CR}) /\ << >> \in Seq(Bytes) /\ Len(<< >>) = 0
      /\ MaxLine \in Nat
  BY LinkAssumption
<1>2. Init => /\ inbuf = << >> /\ kept = << >> /\ lineOverflow = FALSE
              /\ reader = "away" /\ done = {}
  BY DEF Init
<1> SUFFICES ASSUME Init PROVE LineType
  OBVIOUS
<1>4. inbuf \in Seq(Bytes \ {NL, CR}) /\ Len(inbuf) <= MaxLine
  BY <1>1, <1>2
<1>5. lineOverflow \in BOOLEAN /\ kept \in Seq(Bytes)
  BY <1>1, <1>2
<1>6. reader \in {"away", "look", "pop"} /\ done \subseteq {"load", "move"}
  BY <1>2
<1> QED
  BY <1>4, <1>5, <1>6 DEF LineType

(* The link keeps its types: no slot outside the ring, no line longer than *)
(* MAX_LINE (pumpSerial in runtime.cpp).                                   *)
THEOREM LinkType == Spec => []TypeOK
<1>1. Init => LineType
  BY LineTypeStart
<1>2. RingInv /\ LineType => TypeOK
  BY DEF RingInv, LineType, TypeOK
<1> QED
  BY <1>1, <1>2, RingStart, RingStep, LineStep, PTL DEF Spec
-----------------------------------------------------------------------------
(* Places of a text, and the rank of a place among them.                   *)
LEMMA PlacesCount ==
  ASSUME NEW n \in Nat, NEW places \in SUBSET (1 .. n)
  PROVE  /\ IsFiniteSet(places) /\ Cardinality(places) \in Nat
         /\ \A i \in places : Rank(places, i) \in 1 .. Cardinality(places)
<1>1. IsFiniteSet(1 .. n)
  BY FS_Interval
<1>2. IsFiniteSet(places) /\ Cardinality(places) \in Nat
  BY <1>1, FS_Subset, FS_CardinalityType
<1>3. ASSUME NEW i \in places PROVE Rank(places, i) \in 1 .. Cardinality(places)
  <2> DEFINE upto == {j \in places : j <= i}
  <2>1. upto \in SUBSET places /\ i \in upto
    OBVIOUS
  <2>2. IsFiniteSet(upto) /\ Cardinality(upto) \in Nat /\ Cardinality(upto) <= Cardinality(places)
    BY <1>2, <2>1, FS_Subset, FS_CardinalityType
  <2>3. Cardinality(upto) # 0
    BY <2>1, <2>2, FS_EmptySet
  <2> QED
    BY <1>2, <2>2, <2>3 DEF Rank
<1> QED
  BY <1>2, <1>3

(* A place after all others is the last; the others keep their ranks.      *)
LEMMA PlacesMore ==
  ASSUME NEW n \in Nat, NEW places \in SUBSET (1 .. n)
  PROVE  /\ Cardinality(places \cup {n + 1}) = Cardinality(places) + 1
         /\ Rank(places \cup {n + 1}, n + 1) = Cardinality(places) + 1
         /\ \A i \in places : Rank(places \cup {n + 1}, i) = Rank(places, i)
<1>1. IsFiniteSet(places) /\ \A j \in places : j \in Nat /\ j <= n
  BY PlacesCount
<1>2. Cardinality(places \cup {n + 1}) = Cardinality(places) + 1
  BY <1>1, FS_AddElement
<1>3. {j \in places \cup {n + 1} : j <= n + 1} = places \cup {n + 1}
  <2>1. \A j \in places \cup {n + 1} : j <= n + 1
    BY <1>1
  <2> QED
    BY <2>1
<1>4. \A i \in places : {j \in places \cup {n + 1} : j <= i} = {j \in places : j <= i}
  BY <1>1
<1> QED
  BY <1>2, <1>3, <1>4 DEF Rank

(* What a byte more changes of the places of a text.                       *)
LEMMA MoreText ==
  ASSUME NEW text \in Seq(Bytes), NEW b \in Bytes
  PROVE  LET n == Len(text)  more == Append(text, b)
         IN  /\ n \in Nat /\ Len(more) = n + 1
             /\ \A i \in 1 .. n : more[i] = text[i]
             /\ more[n + 1] = b
             /\ Ends(text) \in SUBSET (1 .. n)
             /\ Ends(more) = IF b = NL THEN Ends(text) \cup {n + 1} ELSE Ends(text)
             /\ \A e \in 1 .. n + 1 : /\ LineBefore(text, e) \in SUBSET (1 .. n)
                                      /\ LineBefore(more, e) = LineBefore(text, e)
             /\ b = NL => LineBefore(more, n + 2) = {}
             /\ b = CR => LineBefore(more, n + 2) = LineBefore(text, n + 1)
             /\ b \notin {NL, CR} =>
                  LineBefore(more, n + 2) = LineBefore(text, n + 1) \cup {n + 1}
<1> DEFINE n == Len(text)  more == Append(text, b)
<1>1. /\ n \in Nat /\ Len(more) = n + 1
      /\ \A i \in 1 .. n : more[i] = text[i]
      /\ more[n + 1] = b
  BY LenProperties, AppendProperties
<1> HIDE DEF n, more
<1>2. Ends(text) \in SUBSET (1 .. n)
  BY DEF Ends, n
<1>3. Ends(more) = IF b = NL THEN Ends(text) \cup {n + 1} ELSE Ends(text)
  <2>1. 1 .. n + 1 = (1 .. n) \cup {n + 1}
    BY <1>1
  <2>2. Ends(text) = {i \in 1 .. n : text[i] = NL} /\ Ends(more) = {i \in 1 .. n + 1 : more[i] = NL}
    BY <1>1 DEF Ends, n
  <2> QED
    BY <1>1, <2>1, <2>2
<1>4. ASSUME NEW e \in 1 .. n + 1
      PROVE  /\ LineBefore(text, e) \in SUBSET (1 .. n)
             /\ LineBefore(more, e) = LineBefore(text, e)
  BY <1>1, <1>4 DEF LineBefore
<1>5. b = NL => LineBefore(more, n + 2) = {}
  BY <1>1 DEF LineBefore
<1>6. ASSUME NEW i \in 1 .. n, b # NL
      PROVE  (\A k \in i .. n + 1 : more[k] # NL) <=> (\A k \in i .. n : text[k] # NL)
  BY <1>1, <1>6
<1>7. b = CR => LineBefore(more, n + 2) = LineBefore(text, n + 1)
  BY <1>1, <1>6, LinkAssumption DEF LineBefore
<1>8. b \notin {NL, CR} => LineBefore(more, n + 2) = LineBefore(text, n + 1) \cup {n + 1}
  <2> SUFFICES ASSUME b \notin {NL, CR}
               PROVE  LineBefore(more, n + 2) = LineBefore(text, n + 1) \cup {n + 1}
    OBVIOUS
  <2>1. n + 1 \in LineBefore(more, n + 2)
    BY <1>1 DEF LineBefore
  <2>2. \A i \in 1 .. n : i \in LineBefore(more, n + 2) <=> i \in LineBefore(text, n + 1)
    BY <1>1, <1>6 DEF LineBefore
  <2>3. LineBefore(more, n + 2) \subseteq 1 .. n + 1 /\ LineBefore(text, n + 1) \subseteq 1 .. n
    BY <1>1 DEF LineBefore
  <2> QED
    BY <1>1, <2>1, <2>2, <2>3
<1> QED
  BY <1>1, <1>2, <1>3, <1>4, <1>5, <1>7, <1>8 DEF n, more
-----------------------------------------------------------------------------
(* The line being cut is what the handed bytes spell since the last line   *)
(* end, or they spell too much.                                            *)
Begun == LineBefore(handed, Len(handed) + 1)
Cut ==
  IF lineOverflow THEN inbuf = << >> /\ Cardinality(Begun) > MaxLine
  ELSE Cardinality(Begun) <= MaxLine /\ Spells(inbuf, handed, Begun)
AnswersType == answers \in Seq(Seq(Bytes \ {NL, CR}) \cup {TooLong})
LineInv == RingInv /\ LineType /\ AnswersType /\ Cut /\ LinesAsSent

LEMMA HandedType == RingInv => handed \in Seq(Bytes) /\ byte \in Bytes
  BY DEF RingInv

LEMMA LineTaken ==
  ASSUME LineInv, TakeByte
  PROVE  AnswersType' /\ Cut' /\ LinesAsSent'
<1> DEFINE n == Len(handed)  begun == LineBefore(handed, n + 1)
<1>1. /\ handed \in Seq(Bytes) /\ byte \in Bytes /\ handed' = Append(handed, byte)
      /\ inbuf \in Seq(Bytes \ {NL, CR}) /\ lineOverflow \in BOOLEAN /\ MaxLine \in Nat
      /\ answers \in Seq(Seq(Bytes \ {NL, CR}) \cup {TooLong})
  BY HandedType, LinkAssumption DEF LineInv, LineType, AnswersType, TakeByte
<1>2. /\ n \in Nat /\ Len(handed') = n + 1
      /\ \A i \in 1 .. n : handed'[i] = handed[i]
      /\ handed'[n + 1] = byte
      /\ Ends(handed) \in SUBSET (1 .. n)
      /\ Ends(handed') = IF byte = NL THEN Ends(handed) \cup {n + 1} ELSE Ends(handed)
      /\ \A e \in 1 .. n + 1 : /\ LineBefore(handed, e) \in SUBSET (1 .. n)
                               /\ LineBefore(handed', e) = LineBefore(handed, e)
      /\ byte = NL => LineBefore(handed', n + 2) = {}
      /\ byte = CR => LineBefore(handed', n + 2) = begun
      /\ byte \notin {NL, CR} => LineBefore(handed', n + 2) = begun \cup {n + 1}
  BY <1>1, MoreText
<1>3. /\ begun \in SUBSET (1 .. n) /\ Cardinality(begun) \in Nat
      /\ Begun = begun /\ Begun' = LineBefore(handed', n + 2)
  <2>1. n + 1 \in 1 .. n + 1 /\ (n + 1) + 1 = n + 2
    BY <1>2
  <2>2. begun \in SUBSET (1 .. n)
    BY <1>2, <2>1
  <2>3. Begun' = LineBefore(handed', Len(handed') + 1)
    BY DEF Begun
  <2>4. Begun' = LineBefore(handed', n + 2)
    BY <1>2, <2>1, <2>3
  <2>5. Cardinality(begun) \in Nat
    BY <1>2, <2>2, PlacesCount
  <2> QED
    BY <2>2, <2>4, <2>5 DEF Begun
<1> HIDE DEF n, begun
<1>4. ASSUME NEW line, NEW places \in SUBSET (1 .. n)
      PROVE  Spells(line, handed', places) <=> Spells(line, handed, places)
  BY <1>2 DEF Spells
(* The lines before stay answered, each at its place.                      *)
<1>5. ASSUME NEW e \in Ends(handed)
      PROVE  /\ Rank(Ends(handed), e) \in 1 .. Len(answers)
             /\ Answers(answers[Rank(Ends(handed), e)], handed', LineBefore(handed', e))
  <2>1. Answers(answers[Rank(Ends(handed), e)], handed, LineBefore(handed, e))
    BY DEF LineInv, LinesAsSent
  <2>2. /\ e \in 1 .. n + 1 /\ LineBefore(handed', e) = LineBefore(handed, e)
        /\ LineBefore(handed, e) \in SUBSET (1 .. n)
    BY <1>2
  <2>3. Rank(Ends(handed), e) \in 1 .. Len(answers)
    BY <1>2, PlacesCount DEF LineInv, LinesAsSent
  <2> QED
    BY <1>4, <2>1, <2>2, <2>3 DEF Answers
<1>6. CASE EndLine
  <2> DEFINE answer == IF lineOverflow THEN TooLong ELSE inbuf
  <2>1. /\ byte = NL /\ answers' = Append(answers, answer)
        /\ inbuf' = << >> /\ lineOverflow' = FALSE
    BY <1>6 DEF EndLine
  <2>2. answer \in Seq(Bytes \ {NL, CR}) \cup {TooLong}
    BY <1>1
  <2>3. /\ AnswersType' /\ Len(answers) \in Nat /\ Len(answers') = Len(answers) + 1
        /\ answers'[Len(answers) + 1] = answer
        /\ \A i \in 1 .. Len(answers) : answers'[i] = answers[i]
    <3> HIDE DEF answer
    <3> QED
      BY <1>1, <2>1, <2>2, LenProperties, AppendProperties DEF AnswersType
  <2>4. Cut'
    <3>1. Begun' = {} /\ Cardinality({}) = 0 /\ Len(<< >>) = 0
      BY <1>2, <1>3, <2>1, FS_EmptySet
    <3> QED
      BY <1>1, <2>1, <3>1 DEF Cut, Spells
  <2>5. /\ Ends(handed') = Ends(handed) \cup {n + 1}
        /\ Len(answers) = Cardinality(Ends(handed))
        /\ Cardinality(Ends(handed')) = Len(answers) + 1
        /\ Rank(Ends(handed'), n + 1) = Len(answers) + 1
        /\ \A e \in Ends(handed) : Rank(Ends(handed'), e) = Rank(Ends(handed), e)
    <3>1. Ends(handed') = Ends(handed) \cup {n + 1} /\ Len(answers) = Cardinality(Ends(handed))
      BY <1>2, <2>1 DEF LineInv, LinesAsSent
    <3>2. n \in Nat /\ Ends(handed) \in SUBSET (1 .. n)
      BY <1>2
    <3> DEFINE ends == Ends(handed)
    <3>3. ends \in SUBSET (1 .. n) /\ n \in Nat
      BY <3>2
    <3> HIDE DEF ends
    <3>4. /\ Cardinality(ends \cup {n + 1}) = Cardinality(ends) + 1
          /\ Rank(ends \cup {n + 1}, n + 1) = Cardinality(ends) + 1
          /\ \A e \in ends : Rank(ends \cup {n + 1}, e) = Rank(ends, e)
      BY <3>3, PlacesMore
    <3> QED
      BY <3>1, <3>4 DEF ends
  <2>6. Answers(answer, handed', LineBefore(handed', n + 1))
    <3>1. LineBefore(handed', n + 1) = begun
      BY <1>2 DEF begun
    <3>2. Cut
      BY DEF LineInv
    <3> QED
      BY <1>1, <1>3, <1>4, <3>1, <3>2 DEF Cut, Answers
  <2>7. LinesAsSent'
    <3> SUFFICES ASSUME NEW e \in Ends(handed')
                 PROVE  Answers(answers'[Rank(Ends(handed'), e)], handed', LineBefore(handed', e))
      BY <2>3, <2>5 DEF LinesAsSent
    <3>1. CASE e = n + 1
      BY <2>3, <2>5, <2>6, <3>1
    <3>2. CASE e \in Ends(handed)
      BY <1>5, <2>3, <2>5, <3>2
    <3> QED
      BY <2>5, <3>1, <3>2
  <2> QED
    BY <2>3, <2>4, <2>7
<1>7. CASE byte # NL /\ UNCHANGED answers
  <2>1. AnswersType'
    BY <1>1, <1>7 DEF AnswersType
  <2>2. Ends(handed') = Ends(handed) /\ Len(answers) = Cardinality(Ends(handed))
    BY <1>2, <1>7 DEF LineInv, LinesAsSent
  <2>3. LinesAsSent'
    BY <1>5, <1>7, <2>2 DEF LinesAsSent
  <2> QED
    <3>1. CASE SkipByte
      <4>1. Begun' = Begun /\ UNCHANGED <<inbuf, lineOverflow>>
        BY <1>2, <1>3, <3>1 DEF SkipByte
      <4>2. Cut'
        BY <1>3, <1>4, <4>1 DEF Cut, LineInv
      <4> QED
        BY <2>1, <2>3, <4>2
    <3>2. CASE GrowLine
      <4>1. /\ Begun' = begun \cup {n + 1} /\ Cardinality(Begun') = Cardinality(begun) + 1
            /\ Rank(Begun', n + 1) = Cardinality(begun) + 1
            /\ \A i \in begun : /\ Rank(Begun', i) = Rank(begun, i)
                                /\ Rank(begun, i) \in 1 .. Cardinality(begun)
        <5>1. n \in Nat /\ begun \in SUBSET (1 .. n) /\ Begun' = begun \cup {n + 1}
          BY <1>2, <1>3, <3>2 DEF GrowLine
        <5> QED
          BY <5>1, PlacesMore, PlacesCount
      <4>2. CASE lineOverflow /\ UNCHANGED <<inbuf, lineOverflow>>
        <5>1. inbuf = << >> /\ Cardinality(begun) > MaxLine
          BY <1>3, <4>2 DEF Cut, LineInv
        <5>2. Cut'
          BY <1>1, <1>3, <4>1, <4>2, <5>1 DEF Cut
        <5> QED
          BY <2>1, <2>3, <5>2
      <4>3. CASE ~lineOverflow /\ Len(inbuf) >= MaxLine /\ inbuf' = << >> /\ lineOverflow' = TRUE
        <5>1. Len(inbuf) = Cardinality(begun)
          BY <1>3, <4>3 DEF Cut, Spells, LineInv
        <5>2. Cut'
          BY <1>1, <1>3, <4>1, <4>3, <5>1 DEF Cut
        <5> QED
          BY <2>1, <2>3, <5>2
      <4>4. CASE /\ ~lineOverflow /\ Len(inbuf) < MaxLine
                 /\ inbuf' = Append(inbuf, byte) /\ UNCHANGED lineOverflow
        <5>1. Len(inbuf) = Cardinality(begun) /\ \A i \in begun : inbuf[Rank(begun, i)] = handed[i]
          BY <1>3, <4>4 DEF Cut, Spells, LineInv
        <5>2. byte \in Bytes \ {NL, CR}
          BY <1>1, <3>2 DEF GrowLine
        <5>3. /\ Len(inbuf') = Len(inbuf) + 1 /\ inbuf'[Len(inbuf) + 1] = byte
              /\ \A i \in 1 .. Len(inbuf) : inbuf'[i] = inbuf[i]
          BY <1>1, <4>4, <5>2, AppendProperties
        <5>4. Spells(inbuf', handed', Begun')
          BY <1>2, <1>3, <4>1, <5>1, <5>3 DEF Spells
        <5>5. Cut'
          BY <1>1, <1>3, <4>1, <4>4, <5>1, <5>4 DEF Cut
        <5> QED
          BY <2>1, <2>3, <5>5
      <4> QED
        BY <3>2, <4>2, <4>3, <4>4 DEF GrowLine
    <3> QED
      BY <1>7, <3>1, <3>2, <1>6 DEF LineInv, TakeByte, EndLine
<1>8. EndLine \/ (byte # NL /\ UNCHANGED answers)
  BY LinkAssumption DEF TakeByte, GrowLine, SkipByte
<1> QED
  BY <1>6, <1>7, <1>8

LEMMA LinesStep == LineInv /\ [Next]_vars => LineInv'
<1> SUFFICES ASSUME LineInv, [Next]_vars PROVE LineInv'
  OBVIOUS
<1>1. RingInv' /\ LineType'
  BY RingStep, LineStep DEF LineInv
<1>2. CASE TakeByte
  BY <1>1, <1>2, LineTaken DEF LineInv
<1>3. CASE UNCHANGED lineVars
  BY <1>1, <1>3 DEF LineInv, AnswersType, Cut, Begun, LinesAsSent, lineVars
<1>4. [Next]_vars => TakeByte \/ UNCHANGED lineVars
  BY DEF Next, Loop, Pump, Look, LoadByte, MoveTail, Receive, vars
<1> QED
  BY <1>2, <1>3, <1>4

(* The lines that are answered are those the handed bytes spell, each once *)
(* and in order; an over-long one costs itself alone (pumpSerial).         *)
THEOREM LinesSpelled == Spec => []LinesAsSent
<1>1. Init => LineType
  BY LineTypeStart
<1>2. Init => AnswersType /\ Cut /\ LinesAsSent
  <2> SUFFICES ASSUME Init PROVE AnswersType /\ Cut /\ LinesAsSent
    OBVIOUS
  <2>1. /\ handed = << >> /\ answers = << >> /\ inbuf = << >> /\ ~lineOverflow
        /\ Len(<< >>) = 0 /\ MaxLine \in Nat
    BY LinkAssumption DEF Init
  <2>2. Ends(handed) = {} /\ Begun = {} /\ Cardinality({}) = 0
    BY <2>1, FS_EmptySet DEF Ends, Begun, LineBefore
  <2>3. AnswersType
    BY <2>1, EmptySeq DEF AnswersType
  <2>4. Cut
    BY <2>1, <2>2 DEF Cut, Spells
  <2>5. LinesAsSent
    BY <2>1, <2>2 DEF LinesAsSent
  <2> QED
    BY <2>3, <2>4, <2>5
<1>3. LineInv => LinesAsSent
  BY DEF LineInv
<1> QED
  BY <1>1, <1>2, <1>3, RingStart, LinesStep, PTL DEF Spec, LineInv
=============================================================================
