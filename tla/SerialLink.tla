------------------------------ MODULE SerialLink ------------------------------
(***************************************************************************)
(* The serial link into the protocol loop: the UART's interrupt handler    *)
(* fills a ring (zephyr/src/hal_zephyr.cpp, on the boards with             *)
(* TC_UART_IRQ_RX), pumpSerial empties it and cuts lines (runtime.cpp).    *)
(* No lock guards the ring: an interrupt may come between any two accesses *)
(* of the loop to it, while the loop never runs inside the handler.  Only  *)
(* head and tail are volatile, so the compiler may move the load of the    *)
(* byte past the store of the tail: both orders are behaviours here.       *)
(*                                                                         *)
(* What feedLine does with a line is Runtime's; here a line is answered by *)
(* itself, an over-long one by TooLong.                                    *)
(***************************************************************************)
EXTENDS Integers, Sequences, FiniteSets

CONSTANTS
  Bytes,     \* what comes over the wire, NL and CR among it
  NL, CR,
  RingSize,  \* sizeof(rx_ring)
  MaxLine,   \* MAX_LINE
  MaxSent    \* bound of the model: the bytes the wire carries

ASSUME LinkAssumption ==
  /\ {NL, CR} \subseteq Bytes /\ NL # CR
  /\ RingSize \in Nat \ {0, 1} /\ MaxLine \in Nat /\ MaxSent \in Nat

VARIABLES
  rx_ring, rx_head, rx_tail,
  reader,        \* the loop: "away" (tick, sleep), "look" or "pop"
  done,          \* of a pop, what is done: "load", "move"
  byte,          \* the byte a pop loaded
  inbuf,         \* the line so far
  lineOverflow   \* the rest of an over-long line is swallowed

(* History: bytes kept by the handler and dropped, bytes handed to         *)
(* pumpSerial, the answers it gave.                                        *)
VARIABLES kept, dropped, handed, answers

ringVars == <<rx_ring, rx_head, rx_tail>>
popVars  == <<reader, done, byte>>
lineVars == <<inbuf, lineOverflow, handed, answers>>
vars == <<ringVars, popVars, lineVars, kept, dropped>>

Slots == 0 .. RingSize - 1
After(slot) == (slot + 1) % RingSize
TooLong == <<"ERROR: line too long">>

Init ==
  /\ rx_ring = [slot \in Slots |-> NL] /\ rx_head = 0 /\ rx_tail = 0
  /\ reader = "away" /\ done = {} /\ byte = NL
  /\ inbuf = << >> /\ lineOverflow = FALSE
  /\ kept = << >> /\ dropped = 0 /\ handed = << >> /\ answers = << >>
-----------------------------------------------------------------------------
(* uart_rx_isr: one byte of its drain loop; a full ring drops the newest.  *)
ReceiveUnguarded(b) ==
  /\ Len(kept) + dropped < MaxSent
  /\ rx_ring' = [rx_ring EXCEPT ![rx_head] = b]
  /\ rx_head' = After(rx_head)
  /\ kept' = Append(kept, b)
  /\ UNCHANGED <<rx_tail, popVars, lineVars, dropped>>

Receive(b) ==
  /\ Len(kept) + dropped < MaxSent
  /\ \/ /\ After(rx_head) # rx_tail
        /\ rx_ring' = [rx_ring EXCEPT ![rx_head] = b]
        /\ rx_head' = After(rx_head)
        /\ kept' = Append(kept, b)
        /\ UNCHANGED dropped
     \/ /\ After(rx_head) = rx_tail
        /\ dropped' = dropped + 1
        /\ UNCHANGED <<rx_ring, rx_head, kept>>
  /\ UNCHANGED <<rx_tail, popVars, lineVars>>

(* serialReadChar, access by access; pumpSerial calls it until it finds    *)
(* the ring empty.                                                         *)
Pump ==
  /\ reader = "away"
  /\ reader' = "look"
  /\ UNCHANGED <<ringVars, done, byte, lineVars, kept, dropped>>

LookOneShort ==
  /\ reader = "look"
  /\ reader' = IF rx_head \in {rx_tail, After(rx_tail)} THEN "away" ELSE "pop"
  /\ done' = {}
  /\ UNCHANGED <<ringVars, byte, lineVars, kept, dropped>>

Look ==
  /\ reader = "look"
  /\ reader' = IF rx_tail = rx_head THEN "away" ELSE "pop"
  /\ done' = {}
  /\ UNCHANGED <<ringVars, byte, lineVars, kept, dropped>>

(* The slot of the pop: the tail, or the one before once it has moved.     *)
Popped == IF "move" \in done THEN (rx_tail + RingSize - 1) % RingSize ELSE rx_tail

LoadByte ==
  /\ reader = "pop" /\ "load" \notin done
  /\ byte' = rx_ring[Popped]
  /\ done' = done \cup {"load"}
  /\ UNCHANGED <<ringVars, reader, lineVars, kept, dropped>>

MoveTail ==
  /\ reader = "pop" /\ "move" \notin done
  /\ rx_tail' = After(rx_tail)
  /\ done' = done \cup {"move"}
  /\ UNCHANGED <<rx_ring, rx_head, reader, byte, lineVars, kept, dropped>>

(* pumpSerial with the byte in hand.                                       *)
EndLine ==
  /\ byte = NL
  /\ answers' = Append(answers, IF lineOverflow THEN TooLong ELSE inbuf)
  /\ inbuf' = << >> /\ lineOverflow' = FALSE

GrowLineAgain ==
  /\ byte \notin {NL, CR}
  /\ IF Len(inbuf) >= MaxLine
     THEN inbuf' = << >> /\ lineOverflow' = TRUE
     ELSE inbuf' = Append(inbuf, byte) /\ lineOverflow' = FALSE
  /\ UNCHANGED answers

GrowLineLonger ==
  /\ byte \notin {NL, CR}
  /\ \/ lineOverflow /\ UNCHANGED <<inbuf, lineOverflow>>
     \/ /\ ~lineOverflow /\ Len(inbuf) > MaxLine
        /\ inbuf' = << >> /\ lineOverflow' = TRUE
     \/ /\ ~lineOverflow /\ Len(inbuf) <= MaxLine
        /\ inbuf' = Append(inbuf, byte) /\ UNCHANGED lineOverflow
  /\ UNCHANGED answers

GrowLine ==
  /\ byte \notin {NL, CR}
  /\ \/ lineOverflow /\ UNCHANGED <<inbuf, lineOverflow>>
     \/ /\ ~lineOverflow /\ Len(inbuf) >= MaxLine
        /\ inbuf' = << >> /\ lineOverflow' = TRUE
     \/ /\ ~lineOverflow /\ Len(inbuf) < MaxLine
        /\ inbuf' = Append(inbuf, byte) /\ UNCHANGED lineOverflow
  /\ UNCHANGED answers

SkipByte == byte = CR /\ UNCHANGED <<inbuf, lineOverflow, answers>>

TakeByte ==
  /\ reader = "pop" /\ done = {"load", "move"}
  /\ EndLine \/ GrowLine \/ SkipByte
  /\ handed' = Append(handed, byte)
  /\ reader' = "look" /\ done' = {}
  /\ UNCHANGED <<ringVars, byte, kept, dropped>>

Loop == Pump \/ Look \/ LoadByte \/ MoveTail \/ TakeByte
Next == Loop \/ \E b \in Bytes : Receive(b)

Spec == Init /\ [][Next]_vars
(* The loop always goes on: it pumps again after every tick and sleep.     *)
FairSpec == Spec /\ WF_vars(Loop)
-----------------------------------------------------------------------------
TypeOK ==
  /\ rx_ring \in [Slots -> Bytes] /\ rx_head \in Slots /\ rx_tail \in Slots
  /\ reader \in {"away", "look", "pop"} /\ done \subseteq {"load", "move"}
  /\ byte \in Bytes
  /\ inbuf \in Seq(Bytes \ {NL, CR}) /\ Len(inbuf) <= MaxLine
  /\ lineOverflow \in BOOLEAN
  /\ kept \in Seq(Bytes) /\ handed \in Seq(Bytes) /\ dropped \in Nat

(* The lines of a text by places: where it has line ends; of the line that *)
(* place e would end, the places of its bytes, without carriage returns.   *)
Ends(text) == {i \in 1 .. Len(text) : text[i] = NL}
LineBefore(text, e) ==
  {i \in 1 .. e - 1 : text[i] # CR /\ \A k \in i .. e - 1 : text[k] # NL}
Rank(places, i) == Cardinality({j \in places : j <= i})
Spells(line, text, places) ==
  /\ Len(line) = Cardinality(places)
  /\ \A i \in places : line[Rank(places, i)] = text[i]
Answers(answer, text, places) ==
  IF Cardinality(places) > MaxLine THEN answer = TooLong ELSE Spells(answer, text, places)

(* No line is cut, joined or answered twice: what feedLine is given is     *)
(* line by line what the kept bytes spell, and an over-long line costs     *)
(* itself and nothing of the next (runtime.cpp pumpSerial).                *)
LinesAsSent ==
  /\ Len(answers) = Cardinality(Ends(handed))
  /\ \A e \in Ends(handed) :
       Answers(answers[Rank(Ends(handed), e)], handed, LineBefore(handed, e))

(* The ring and its three unlocked accesses are a queue of RingSize - 1    *)
(* bytes, which an interrupt anywhere in a pop, before or after a load the *)
(* compiler moved, does not break (hal_zephyr.cpp rx_ring).                *)
Unread == [i \in 1 .. (rx_head + RingSize - rx_tail) % RingSize |->
             rx_ring[(rx_tail + i - 1) % RingSize]]
InHand == IF "move" \notin done THEN << >>
          ELSE IF "load" \in done THEN <<byte>> ELSE <<rx_ring[Popped]>>
Pipe == INSTANCE BytePipe WITH
          Capacity <- RingSize - 1, queue <- Unread, taken <- handed \o InHand,
          lost <- dropped
RingIsAPipe == Pipe!Spec

(* Every kept byte reaches pumpSerial, also the last before a silence      *)
(* (pumpSerial's loop, serialReadChar's test for an empty ring).           *)
EveryByteTaken ==
  \A n \in 1 .. MaxSent : Len(kept) >= n ~> Len(handed) >= n
=============================================================================
