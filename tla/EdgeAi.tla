-------------------------------- MODULE EdgeAi --------------------------------
(***************************************************************************)
(* VOICE() on the nRF boards (src/ai/ai_nrf_edgeai.cpp), behind the same   *)
(* interface as Voice: blocks of audio, the class the Edge AI model        *)
(* predicts of each, and what counts a run of blocks up to a word and      *)
(* locks it out afterwards.                                                *)
(***************************************************************************)
EXTENDS Integers, Sequences

CONSTANTS
  Block,       \* kBlock: samples the model takes
  Drained,     \* samples drained per poll
  Labels,      \* classes of the model
  FirstLabel,  \* the class of index 0
  ClassOf,     \* our_class: a label's class of ours, 0 for all others
  Scale,       \* a probability of 1.0
  Probs,       \* what the predicted class may score
  Alpha,       \* kEmaAlpha, in percent
  Threshold,   \* kThreshold
  NumInRow,    \* kNumInRow
  SkipBlocks,  \* kSkipBlocks
  IdleReport   \* kIdleReportEvery

ASSUME EdgeAssumption ==
  /\ Block \in Nat \ {0} /\ Drained \in 1 .. 2 * Block - 1
  /\ FirstLabel \in Labels /\ ClassOf \in [Labels -> Nat]
  /\ Scale \in Nat /\ Probs \subseteq 0 .. Scale /\ Alpha \in 0 .. 100 /\ Threshold \in Nat
  /\ NumInRow \in Nat \ {0} /\ SkipBlocks \in Nat \ {0} /\ IdleReport \in Nat \ {0}

VARIABLES
  edge,  \* the service: [started, fill, idle, said]
  kws    \* the smoother: [last, count, ema] and its history

(* kws.since counts blocks since a word was said, unbroken says that no    *)
(* other class came since; gap and was are the two as the last word found  *)
(* them.                                                                   *)
LongAgo == NumInRow + SkipBlocks

ResetSmoother ==
  [last |-> FirstLabel, count |-> 0, ema |-> 0, fired |-> 0,
   since |-> LongAgo, unbroken |-> FALSE, gap |-> LongAgo, was |-> FALSE]

Reset(started) == [started |-> started, fill |-> 0, idle |-> 0, said |-> -1]

Lower(m, n) == IF m < n THEN m ELSE n
Smoothed(old, prob) == (Alpha * prob + (100 - Alpha) * old) \div 100

Unlocked(count) == 0
AfterFire(count) == -SkipBlocks

(* process_block.  A count past NumInRow is as good as NumInRow.           *)
Heeds(s, label) ==
  IF label = s.last THEN s
  ELSE [s EXCEPT !.last = label, !.count = 0, !.ema = 0, !.unbroken = FALSE]
Counted(s, prob) ==
  [s EXCEPT !.count = Lower(@ + 1, NumInRow), !.ema = Smoothed(@, prob),
            !.since = Lower(@ + 1, LongAgo)]
Spotted(s, cls) ==
  IF s.count >= NumInRow /\ s.ema >= Threshold
  THEN [s EXCEPT !.count = AfterFire(@), !.ema = 0, !.fired = cls,
                 !.since = 0, !.unbroken = TRUE, !.gap = s.since, !.was = s.unbroken]
  ELSE s
Quieted(s) ==
  [s EXCEPT !.count = 0, !.ema = 0, !.unbroken = FALSE, !.since = Lower(@ + 1, LongAgo)]

Processed(s, b) ==
  IF ClassOf[b.label] = 0 THEN Quieted(s)
  ELSE Spotted(Counted(Heeds(s, b.label), b.prob), ClassOf[b.label])

Blocks == [label : Labels, prob : Probs]

(* At most two blocks end within one poll; the last word of them is told.  *)
ProcessedAll(s, bs) ==
  LET quiet == [s EXCEPT !.fired = 0]
  IN  IF Len(bs) = 0 THEN quiet
      ELSE IF Len(bs) = 1 THEN Processed(quiet, bs[1])
      ELSE Processed(Processed(quiet, bs[1]), bs[2])

(* What a poll tells of the word fired, when some block ended: the word at *)
(* once, "none" every IdleReport polls.                                    *)
Told(e, fired) ==
  IF fired > 0 THEN [e EXCEPT !.idle = 0, !.said = fired]
  ELSE IF e.idle + 1 >= IdleReport THEN [e EXCEPT !.idle = 0, !.said = 0]
  ELSE [e EXCEPT !.idle = @ + 1, !.said = -1]

(* ai_service::poll from the states e and s.                               *)
Hears(e, s, got) ==
  LET n    == (e.fill + got) \div Block
      rest == [e EXCEPT !.fill = (e.fill + got) % Block]
  IN  \E bs \in [1 .. n -> Blocks] :
        /\ kws' = ProcessedAll(s, bs)
        /\ edge' = IF n > 0 THEN Told(rest, kws'.fired) ELSE [rest EXCEPT !.said = -1]

(* The model is tried again at every reset and poll until it starts.       *)
EdgePoll(e, s) ==
  \/ ~e.started /\ edge' = Reset(FALSE) /\ kws' = ResetSmoother
  \/ \E got \in 0 .. Drained :
       IF e.started THEN Hears(e, s, got) ELSE Hears(Reset(TRUE), ResetSmoother, got)
-----------------------------------------------------------------------------
EdgeTypeOK ==
  /\ edge \in [started : BOOLEAN, fill : 0 .. Block - 1, idle : 0 .. IdleReport - 1,
               said : {-1, 0} \cup {ClassOf[l] : l \in Labels}]
  /\ kws \in [last : Labels, count : -SkipBlocks .. NumInRow, ema : Nat,
              fired : {0} \cup {ClassOf[l] : l \in Labels},
              since : 0 .. LongAgo, unbroken : BOOLEAN, gap : 0 .. LongAgo, was : BOOLEAN]

(* One word spoken is not two: between two words there are NumInRow blocks *)
(* whatever is said, and SkipBlocks more while nothing but the word itself *)
(* is heard.  Background or another word ends the lockout: it is no more   *)
(* than a negative count (process_block).                                  *)
LockoutHolds == kws.gap >= (IF kws.was THEN NumInRow + SkipBlocks ELSE NumInRow)
=============================================================================
