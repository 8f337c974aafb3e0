-------------------------------- MODULE Voice --------------------------------
(***************************************************************************)
(* VOICE() on the boards with the MFCC network (src/ai/ai_service.cpp): a  *)
(* sliding window of audio, the network's posteriors of each window, and   *)
(* what decides that a word was said: a moving average, a confidence gate, *)
(* a debounce, a refractory period and, while the robot drives, a low bar  *)
(* for "stop".                                                             *)
(*                                                                         *)
(* Audio is counted, not kept: what the network says of a window is any    *)
(* vector of Posteriors, each of whole units that sum to Unit.  A share of *)
(* an average over n windows is compared as a sum with n times the share.  *)
(***************************************************************************)
EXTENDS Integers, Sequences

CONSTANTS
  Window,      \* g_win: samples of an analysis window
  Chunk,       \* kChunk: samples drained per poll
  StopClass,   \* kStopClass, the last class of the model
  Unit,        \* a posterior of 1.0
  Gate,        \* kMinConfidence
  Strong,      \* kStrongConfidence
  MovingGate,  \* kMovingStopConfidence
  Refractory,  \* kRefractoryInferences
  Posteriors   \* what the network may say of a window

Heard == 0 .. StopClass

ASSUME VoiceAssumption ==
  /\ Window \in Nat \ {0} /\ Chunk \in 1 .. Window - 1
  /\ StopClass \in Nat \ {0} /\ Refractory \in Nat \ {0}
  /\ Unit \in Nat /\ Gate \in Nat /\ Strong \in Nat /\ MovingGate \in Nat
  /\ Gate <= Strong /\ 3 * Gate > Unit      \* 0.45 of three windows
  /\ Strong <= 2 * Gate                     \* 0.75 and twice 0.45
  /\ 3 * Strong > 3 * (Unit - MovingGate)   \* 0.75 > 1 - 0.30
  /\ Posteriors \subseteq [Heard -> 0 .. Unit]
  /\ \A p \in Posteriors, c, d \in Heard : c # d => p[c] + p[d] <= Unit

VARIABLES
  voice,  \* [have, ring, candidate, refractory, said, since, unheeded]
  moving  \* hal::isMoving

(* said is what the last poll returned.  Two histories: since counts the   *)
(* windows since a word was said, unheeded those in a row in which the     *)
(* driving robot could have heard "stop" and did not.                      *)
Nothing == -1
Smooth == 3

ResetVoice ==
  [have |-> 0, ring |-> <<>>, candidate |-> 0, refractory |-> 0,
   said |-> Nothing, since |-> Refractory, unheeded |-> 0]

Smaller(m, n) == IF m < n THEN m ELSE n
Hop == IF Window \div 4 < 1 THEN 1 ELSE Window \div 4

(* The posteriors of the last kSmooth windows, the newest first.           *)
Slide(ring, p) ==
  IF Len(ring) = 0 THEN <<p>>
  ELSE IF Len(ring) = 1 THEN <<p, ring[1]>>
  ELSE <<p, ring[1], ring[2]>>

WeightNewest(ring, c) == ring[1][c] * Len(ring)
Weight(ring, c) ==
  ring[1][c] + (IF Len(ring) > 1 THEN ring[2][c] ELSE 0)
             + (IF Len(ring) > 2 THEN ring[3][c] ELSE 0)

(* The first of the classes with the greatest share.                       *)
IsTop(ring, top) ==
  \A c \in Heard : /\ Weight(ring, c) <= Weight(ring, top)
                   /\ c < top => Weight(ring, c) < Weight(ring, top)

Gated(ring, top) ==
  IF top > 0 /\ Weight(ring, top) >= Gate * Len(ring) THEN top ELSE 0

(* A strong word fires at once, a weak one when the window before agrees.  *)
WordAtOnce(ring, gated, candidate) == gated
Word(ring, gated, candidate) ==
  IF gated > 0 /\ (Weight(ring, gated) >= Strong * Len(ring) \/ gated = candidate)
  THEN gated ELSE 0

(* A decision locked out leaves no candidate behind.                       *)
CandidateKept(locked, gated) == gated
NextCandidate(locked, gated) == IF locked THEN 0 ELSE gated

RearmedShort(said, left) == IF said > 0 THEN Refractory - 1 ELSE left
Rearmed(said, left) == IF said > 0 THEN Refractory ELSE left

StopsDriving(p) == moving /\ p[StopClass] >= MovingGate
Exempt(cls) == cls = StopClass /\ moving

(* The decision on a full window of posteriors p, from the state s; the    *)
(* window then slides by a hop.                                            *)
Decided(s, p, top) ==
  LET ring   == Slide(s.ring, p)
      gated  == Gated(ring, top)
      word   == Word(ring, gated, s.candidate)
      cls    == IF word = 0 /\ StopsDriving(p) THEN StopClass ELSE word
      locked == s.refractory > 0 /\ ~Exempt(cls)
      said   == IF locked THEN 0 ELSE cls
      left   == IF s.refractory > 0 THEN s.refractory - 1 ELSE 0
  IN  [have |-> Window - Hop, ring |-> ring, said |-> said,
       candidate |-> NextCandidate(locked, gated), refractory |-> Rearmed(said, left),
       since |-> IF said > 0 THEN 0 ELSE Smaller(s.since + 1, Refractory),
       unheeded |-> IF StopsDriving(p) /\ said # StopClass
                    THEN Smaller(s.unheeded + 1, Smooth + 1) ELSE 0]

Listens(s, got) ==
  /\ s.have + got < Window
  /\ voice' = [s EXCEPT !.have = @ + got, !.said = Nothing]

(* No features or no model: an answer of "none" that decides nothing.      *)
Fumbles(s, got) ==
  /\ s.have + got >= Window
  /\ voice' = [s EXCEPT !.have = Window - Hop, !.said = 0]

Classifies(s, got) ==
  /\ s.have + got >= Window
  /\ \E p \in Posteriors, top \in Heard :
       IsTop(Slide(s.ring, p), top) /\ voice' = Decided(s, p, top)

(* ai_service::poll from the service state s.  The microphone gives what   *)
(* it has, at most what is asked.                                          *)
VoicePoll(s) ==
  \E got \in 0 .. Smaller(Window - s.have, Chunk) :
    Listens(s, got) \/ Fumbles(s, got) \/ Classifies(s, got)
-----------------------------------------------------------------------------
VoiceTypeOK ==
  /\ voice \in [have : 0 .. Window - 1,
                ring : {<<>>} \cup Posteriors \X Posteriors \X Posteriors
                         \cup Posteriors \X Posteriors \cup {<<p>> : p \in Posteriors},
                candidate : Heard, refractory : 0 .. Refractory,
                said : Heard \cup {Nothing}, since : 0 .. Refractory, unheeded : 0 .. Smooth + 1]
  /\ moving \in BOOLEAN

(* After a word the tail of the utterance and its echo say nothing:        *)
(* kRefractoryInferences windows lie between it and the next, a "stop" of  *)
(* the driving robot excepted (ai_service.cpp, refractory).                *)
RefractoryHolds ==
  [][voice'.said > 0 /\ ~Exempt(voice'.said) => voice.since >= Refractory]_voice

(* One window cannot say a word on its own, whatever its posteriors: at    *)
(* least two of those averaged gave it some weight.  The average is over   *)
(* the windows there are: right after a reset, before the third, one may   *)
(* do, but then it is strong itself, not merely over the gate.             *)
SpokenTwice(ring, word) ==
  \E i, j \in 1 .. Len(ring) : i # j /\ ring[i][word] > 0 /\ ring[j][word] > 0
SpokenStrongly(ring, word) == \E i \in 1 .. Len(ring) : ring[i][word] >= Strong
LoneWindowSilent ==
  [][LET ring == voice'.ring  word == voice'.said
     IN  word > 0 /\ ~Exempt(word) =>
           SpokenTwice(ring, word) \/ (Len(ring) < Smooth /\ SpokenStrongly(ring, word))]_voice

(* A driving robot that is told to stop stops: a word that lingers in the  *)
(* average, its lockout or its debounce hide "stop" for three windows at   *)
(* most, however the lockout and the debounce fall.                        *)
StopHeardSoon == voice.unheeded <= Smooth
=============================================================================
