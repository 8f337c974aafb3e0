------------------------------- MODULE BytePipe -------------------------------
(***************************************************************************)
(* What the receiving side of the serial link promises the protocol loop:  *)
(* a queue of bytes.  A byte is kept or, only when the queue holds all it  *)
(* can, lost; the kept ones are taken once each and in order.              *)
(***************************************************************************)
EXTENDS Naturals, Sequences

CONSTANTS Bytes, Capacity

VARIABLES queue, taken, lost

pipe == <<queue, taken, lost>>

Init == queue = << >> /\ taken = << >> /\ lost = 0

Keep(b) ==
  /\ Len(queue) < Capacity
  /\ queue' = Append(queue, b)
  /\ UNCHANGED <<taken, lost>>

Lose ==
  /\ Len(queue) >= Capacity
  /\ lost' = lost + 1
  /\ UNCHANGED <<queue, taken>>

Take ==
  /\ queue # << >>
  /\ taken' = Append(taken, Head(queue))
  /\ queue' = Tail(queue)
  /\ UNCHANGED lost

Next == (\E b \in Bytes : Keep(b)) \/ Lose \/ Take

Spec == Init /\ [][Next]_pipe
=============================================================================
