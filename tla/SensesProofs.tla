----------------------------- MODULE SensesProofs -----------------------------
(***************************************************************************)
(* Proofs about Senses, for every window and block, every threshold, every *)
(* posterior, strip, screen and sensor.  Each service and part has its own *)
(* invariant and its own step; what the others do leaves it alone.         *)
(***************************************************************************)
EXTENDS Senses, TLAPS

(* The Edge AI build: the count is behind the blocks since a word, by the  *)
(* lockout as well while nothing else was heard.                           *)
Smoother ==
  [last : Labels, count : -SkipBlocks .. NumInRow, ema : Nat,
   fired : {0} \cup {ClassOf[l] : l \in Labels},
   since : 0 .. LongAgo, unbroken : BOOLEAN, gap : 0 .. LongAgo, was : BOOLEAN]
Behind(s) == s.count + (IF s.unbroken THEN SkipBlocks ELSE 0) <= s.since
Locked(s) == s.gap >= (IF s.was THEN NumInRow + SkipBlocks ELSE NumInRow)
Kept(s) == s \in Smoother /\ Behind(s) /\ Locked(s)

LEMMA SmoothedType ==
  ASSUME NEW old \in Nat, NEW prob \in Nat
  PROVE  Smoothed(old, prob) \in Nat
<1> DEFINE a == Alpha * prob
           b == (100 - Alpha) * old
<1>1. Alpha \in Nat /\ 100 - Alpha \in Nat
  BY EdgeAssumption
<1>2. a \in Nat /\ b \in Nat
  BY <1>1
<1> HIDE DEF a, b
<1>3. (a + b) \div 100 \in Nat
  BY <1>2
<1> QED
  BY <1>3 DEF a, b, Smoothed

LEMMA Runs == NumInRow \in Nat \ {0} /\ SkipBlocks \in Nat \ {0} /\ LongAgo = NumInRow + SkipBlocks
  BY EdgeAssumption DEF LongAgo

LEMMA ProbsNat == \A p \in Probs : p \in Nat
<1>1. Probs \subseteq 0 .. Scale /\ Scale \in Nat
  BY EdgeAssumption
<1>2. \A p \in 0 .. Scale : p \in Nat
  BY <1>1
<1> QED
  BY <1>1, <1>2, Zenon

LEMMA FieldsOf ==
  ASSUME NEW s \in Smoother
  PROVE  /\ s.last \in Labels /\ s.count \in -SkipBlocks .. NumInRow /\ s.ema \in Nat
         /\ s.fired \in {0} \cup {ClassOf[l] : l \in Labels}
         /\ s.since \in 0 .. LongAgo /\ s.unbroken \in BOOLEAN
         /\ s.gap \in 0 .. LongAgo /\ s.was \in BOOLEAN
  BY DEF Smoother

LEMMA CountedIs ==
  ASSUME NEW s, Kept(s), NEW prob \in Nat
  PROVE  Kept(Counted(s, prob))
<1> DEFINE r == Counted(s, prob)
<1>1. Smoothed(s.ema, prob) \in Nat
  BY SmoothedType DEF Kept, Smoother
<1>2. /\ s \in Smoother /\ s.count \in -SkipBlocks .. NumInRow /\ s.since \in 0 .. LongAgo
  BY FieldsOf DEF Kept
<1>3. PICK c, t : /\ c = Lower(s.count + 1, NumInRow) /\ t = Lower(s.since + 1, LongAgo)
  OBVIOUS
<1>4. c \in -SkipBlocks .. NumInRow /\ t \in 0 .. LongAgo /\ c <= s.count + 1
      /\ (t = s.since + 1 \/ t = LongAgo)
  BY <1>2, <1>3, Runs DEF Lower
<1>5. r = [s EXCEPT !.count = c, !.ema = Smoothed(s.ema, prob), !.since = t]
  BY <1>3 DEF Counted
<1>6. r \in Smoother /\ r.count = c /\ r.since = t
      /\ r.unbroken = s.unbroken /\ r.gap = s.gap /\ r.was = s.was
  BY <1>1, <1>2, <1>4, <1>5 DEF Smoother
<1> HIDE DEF r
<1>7. Behind(r)
  BY <1>2, <1>4, <1>6, Runs DEF Kept, Behind
<1>8. Locked(r)
  BY <1>6 DEF Kept, Locked
<1> QED
  BY <1>6, <1>7, <1>8 DEF Kept, r

LEMMA HeedsIs ==
  ASSUME NEW s, Kept(s), NEW label \in Labels
  PROVE  Kept(Heeds(s, label))
<1> DEFINE r == [s EXCEPT !.last = label, !.count = 0, !.ema = 0, !.unbroken = FALSE]
<1>1. s \in Smoother /\ s.since \in 0 .. LongAgo
  BY FieldsOf DEF Kept
<1>2. 0 \in -SkipBlocks .. NumInRow /\ 0 \in Nat
  BY Runs
<1>3. /\ r \in Smoother /\ r.count = 0 /\ r.since = s.since /\ r.unbroken = FALSE
      /\ r.gap = s.gap /\ r.was = s.was
  BY <1>1, <1>2 DEF Smoother
<1> HIDE DEF r
<1>4. Kept(r)
  BY <1>1, <1>3, Runs DEF Kept, Behind, Locked
<1> QED
  BY <1>4 DEF Heeds, r

LEMMA QuietedIs ==
  ASSUME NEW s, Kept(s)
  PROVE  Kept(Quieted(s))
<1> DEFINE r == Quieted(s)
<1>1. s \in Smoother /\ s.since \in 0 .. LongAgo
  BY FieldsOf DEF Kept
<1>2. Lower(s.since + 1, LongAgo) \in 0 .. LongAgo
  BY <1>1, Runs DEF Lower
<1>3. 0 \in -SkipBlocks .. NumInRow /\ 0 \in Nat
  BY Runs
<1>4. /\ r \in Smoother /\ r.count = 0 /\ r.since \in 0 .. LongAgo /\ r.unbroken = FALSE
      /\ r.gap = s.gap /\ r.was = s.was
  BY <1>1, <1>2, <1>3 DEF Smoother, Quieted
<1> HIDE DEF r
<1>5. Kept(r)
  BY <1>1, <1>4, Runs DEF Kept, Behind, Locked
<1> QED
  BY <1>5 DEF r

LEMMA SpottedIs ==
  ASSUME NEW s, Kept(s), NEW label \in Labels
  PROVE  Kept(Spotted(s, ClassOf[label]))
<1> DEFINE r == [s EXCEPT !.count = -SkipBlocks, !.ema = 0, !.fired = ClassOf[label],
                          !.since = 0, !.unbroken = TRUE, !.gap = s.since, !.was = s.unbroken]
<1>1. /\ s \in Smoother /\ s.since \in 0 .. LongAgo /\ s.count \in -SkipBlocks .. NumInRow
      /\ s.unbroken \in BOOLEAN
  BY FieldsOf DEF Kept
<1>2. CASE s.count >= NumInRow /\ s.ema >= Threshold
  <2> PICK low : low = -SkipBlocks
    OBVIOUS
  <2>0. /\ low \in -SkipBlocks .. NumInRow /\ 0 \in 0 .. LongAgo /\ 0 \in Nat
        /\ ClassOf[label] \in {0} \cup {ClassOf[l] : l \in Labels}
    BY Runs
  <2>1. /\ r \in Smoother /\ r.count = low /\ r.since = 0 /\ r.unbroken = TRUE
        /\ r.gap = s.since /\ r.was = s.unbroken
    BY <1>1, <2>0 DEF Smoother
  <2> HIDE DEF r
  <2>2. Behind(r) /\ Locked(r)
    BY <1>1, <1>2, <2>1, Runs DEF Kept, Behind, Locked
  <2>3. Kept(r)
    BY <2>1, <2>2 DEF Kept
  <2> QED
    BY <1>2, <2>3 DEF Spotted, AfterFire, r
<1>3. CASE ~(s.count >= NumInRow /\ s.ema >= Threshold)
  BY <1>3 DEF Spotted
<1> QED
  BY <1>2, <1>3

LEMMA ProcessedIs ==
  ASSUME NEW s, Kept(s), NEW b \in Blocks
  PROVE  Kept(Processed(s, b))
<1>1. b.label \in Labels /\ b.prob \in Probs
  BY DEF Blocks
<1>2. Kept(Quieted(s)) /\ Kept(Heeds(s, b.label))
  BY <1>1, QuietedIs, HeedsIs
<1>3. Kept(Counted(Heeds(s, b.label), b.prob))
  <2>1. b.prob \in Nat
    BY <1>1, ProbsNat
  <2> QED
    BY <1>2, <2>1, CountedIs
<1>4. Kept(Spotted(Counted(Heeds(s, b.label), b.prob), ClassOf[b.label]))
  BY <1>1, <1>3, SpottedIs
<1> QED
  BY <1>2, <1>4 DEF Processed

LEMMA ProcessedAllIs ==
  ASSUME NEW s, Kept(s), NEW n \in Nat, NEW bs \in [1 .. n -> Blocks]
  PROVE  Kept(ProcessedAll(s, bs))
<1> DEFINE quiet == [s EXCEPT !.fired = 0]
<1>1. Kept(quiet)
  BY DEF Kept, Smoother, Behind, Locked
<1>2. Len(bs) = n
  OBVIOUS
<1> HIDE DEF quiet
<1>3. CASE n = 0
  BY <1>1, <1>2, <1>3 DEF ProcessedAll, quiet
<1>4. CASE n = 1
  BY <1>1, <1>2, <1>4, ProcessedIs DEF ProcessedAll, quiet
<1>5. CASE n > 1
  <2>1. bs[1] \in Blocks /\ bs[2] \in Blocks
    BY <1>5
  <2>2. Kept(Processed(Processed(quiet, bs[1]), bs[2]))
    BY <1>1, <2>1, ProcessedIs
  <2> QED
    BY <1>2, <1>5, <2>2 DEF ProcessedAll, quiet
<1> QED
  BY <1>3, <1>4, <1>5

Service ==
  [started : BOOLEAN, fill : 0 .. Block - 1, idle : 0 .. IdleReport - 1,
   said : {-1, 0} \cup {ClassOf[l] : l \in Labels}]

LEMMA ResetIs ==
  /\ \A started \in BOOLEAN : Reset(started) \in Service
  /\ Kept(ResetSmoother)
<1>1. ASSUME NEW started \in BOOLEAN PROVE Reset(started) \in Service
  <2>1. 0 \in 0 .. Block - 1 /\ 0 \in 0 .. IdleReport - 1
    BY EdgeAssumption
  <2> QED
    BY <2>1 DEF Reset, Service
<1>2. ResetSmoother \in Smoother
  <2>1. /\ FirstLabel \in Labels /\ 0 \in -SkipBlocks .. NumInRow /\ 0 \in Nat
        /\ LongAgo \in 0 .. LongAgo
    BY EdgeAssumption, Runs
  <2> QED
    BY <2>1 DEF ResetSmoother, Smoother
<1>3. Behind(ResetSmoother) /\ Locked(ResetSmoother)
  BY Runs DEF ResetSmoother, Behind, Locked
<1> QED
  BY <1>1, <1>2, <1>3 DEF Kept

LEMMA HearsIs ==
  ASSUME NEW e \in Service, NEW s, Kept(s), NEW got \in 0 .. Drained, Hears(e, s, got)
  PROVE  edge' \in Service /\ Kept(kws')
<1> DEFINE n    == (e.fill + got) \div Block
           rest == [e EXCEPT !.fill = (e.fill + got) % Block]
<1>1. Block \in Nat \ {0} /\ IdleReport \in Nat \ {0} /\ e.fill + got \in Nat
  BY EdgeAssumption DEF Service
<1>2. n \in Nat /\ (e.fill + got) % Block \in 0 .. Block - 1
  BY <1>1
<1>3. rest \in Service
  BY <1>2 DEF Service
<1>4. PICK bs \in [1 .. n -> Blocks] :
        /\ kws' = ProcessedAll(s, bs)
        /\ edge' = IF n > 0 THEN Told(rest, kws'.fired) ELSE [rest EXCEPT !.said = -1]
  BY DEF Hears
<1> HIDE DEF n, rest
<1>5. Kept(kws')
  BY <1>2, <1>4, ProcessedAllIs
<1>6. kws'.fired \in {0} \cup {ClassOf[l] : l \in Labels}
  BY <1>5, FieldsOf DEF Kept
<1>7. [rest EXCEPT !.said = -1] \in Service
  BY <1>3 DEF Service
<1>8. Told(rest, kws'.fired) \in Service
  <2>1. 0 \in 0 .. IdleReport - 1 /\ rest.idle \in 0 .. IdleReport - 1
    BY <1>1, <1>3 DEF Service
  <2>2. CASE kws'.fired > 0
    BY <1>3, <1>6, <2>1, <2>2 DEF Told, Service
  <2>3. CASE ~(kws'.fired > 0) /\ rest.idle + 1 >= IdleReport
    BY <1>3, <2>1, <2>3 DEF Told, Service
  <2>4. CASE ~(kws'.fired > 0) /\ ~(rest.idle + 1 >= IdleReport)
    <3>1. rest.idle + 1 \in 0 .. IdleReport - 1
      BY <1>1, <2>1, <2>4
    <3> QED
      BY <1>3, <2>4, <3>1 DEF Told, Service
  <2> QED
    BY <2>2, <2>3, <2>4
<1> QED
  BY <1>4, <1>5, <1>7, <1>8

EdgeInv == edge \in Service /\ Kept(kws)

LEMMA EdgeStart == Init => EdgeInv
  BY ResetIs DEF Init, EdgeInv

LEMMA EdgeStep == EdgeInv /\ [Next]_vars => EdgeInv'
<1> SUFFICES ASSUME EdgeInv, [Next]_vars PROVE EdgeInv'
  OBVIOUS
<1>1. ASSUME NEW e \in Service, NEW s, Kept(s), EdgePoll(e, s) PROVE EdgeInv'
  <2>1. CASE ~e.started /\ edge' = Reset(FALSE) /\ kws' = ResetSmoother
    BY <2>1, ResetIs DEF EdgeInv
  <2>2. CASE \E got \in 0 .. Drained :
               IF e.started THEN Hears(e, s, got) ELSE Hears(Reset(TRUE), ResetSmoother, got)
    BY <1>1, <2>2, HearsIs, ResetIs DEF EdgeInv
  <2> QED
    BY <1>1, <2>1, <2>2 DEF EdgePoll
<1>2. CASE EdgeTick
  <2>1. edge \in Service /\ Kept(kws) /\ edge.started \in BOOLEAN
    BY DEF EdgeInv, Service
  <2> QED
    BY <1>1, <1>2, <2>1, ResetIs DEF EdgeTick
<1>3. CASE UNCHANGED edges
  BY <1>3 DEF edges, EdgeInv
<1> QED
  BY <1>2, <1>3
     DEF Next, vars, VoiceTick, EyeTick, SeePolls, EyePollsOn, NpuThread, EyeOnly, See, Wants,
         TickPauses, Moves, Detects, Sensed, Drawn

(* One word spoken is not two: between two words of the Edge AI service    *)
(* there are NumInRow blocks whatever is said, and SkipBlocks more while   *)
(* nothing but the word itself is heard (process_block in                  *)
(* src/ai/ai_nrf_edgeai.cpp).                                              *)
THEOREM LockedOut == Spec => []LockoutHolds
<1>1. EdgeInv => LockoutHolds
  BY DEF EdgeInv, Kept, Locked, LockoutHolds
<1> QED
  BY <1>1, EdgeStart, EdgeStep, PTL DEF Spec
-----------------------------------------------------------------------------
(* The MFCC service: what is left of the lockout and the windows since the *)
(* last word make up the refractory period.                                *)
Rings == {<<>>} \cup {<<p>> : p \in Posteriors} \cup Posteriors \X Posteriors
           \cup Posteriors \X Posteriors \X Posteriors
Listener ==
  [have : 0 .. Window - 1, ring : Rings, candidate : Heard, refractory : 0 .. Refractory,
   said : Heard \cup {Nothing}, since : 0 .. Refractory, unheeded : 0 .. Smooth + 1]
Due(s) == s.refractory + s.since >= Refractory
Listening(s) == s \in Listener /\ Due(s)

LEMMA Windows ==
  /\ Window \in Nat \ {0} /\ Chunk \in 1 .. Window - 1 /\ Refractory \in Nat \ {0}
  /\ StopClass \in Heard /\ 0 \in Heard /\ Heard \subseteq Nat /\ Smooth = 3 /\ Nothing = -1
  /\ Window - Hop \in 0 .. Window - 1
<1>1. Window \in Nat \ {0} /\ Chunk \in 1 .. Window - 1 /\ Refractory \in Nat \ {0}
      /\ StopClass \in Nat \ {0}
  BY VoiceAssumption
<1>2. Window - Hop \in 0 .. Window - 1
  BY <1>1 DEF Hop
<1> QED
  BY <1>1, <1>2 DEF Heard, Smooth, Nothing

LEMMA ListeningStart == Listening(ResetVoice)
<1>1. ResetVoice \in Listener
  <2>1. /\ 0 \in 0 .. Window - 1 /\ <<>> \in Rings /\ 0 \in Heard /\ 0 \in 0 .. Refractory
        /\ Refractory \in 0 .. Refractory /\ 0 \in 0 .. Smooth + 1
    BY Windows DEF Rings
  <2> QED
    BY <2>1 DEF ResetVoice, Listener
<1> QED
  BY <1>1, Windows DEF Listening, Due, ResetVoice

LEMMA SlideIs ==
  ASSUME NEW ring \in Rings, NEW p \in Posteriors
  PROVE  Slide(ring, p) \in Rings
<1>1. CASE ring = <<>>
  BY <1>1 DEF Slide, Rings
<1>2. CASE \E q \in Posteriors : ring = <<q>>
  BY <1>2 DEF Slide, Rings
<1>3. CASE ring \in Posteriors \X Posteriors
  BY <1>3 DEF Slide, Rings
<1>4. CASE ring \in Posteriors \X Posteriors \X Posteriors
  BY <1>4 DEF Slide, Rings
<1> QED
  BY <1>1, <1>2, <1>3, <1>4 DEF Rings

LEMMA DecidedIs ==
  ASSUME NEW s, Listening(s), NEW p \in Posteriors, NEW top \in Heard
  PROVE  /\ Listening(Decided(s, p, top))
         /\ LET d == Decided(s, p, top)
            IN  d.said > 0 /\ ~Exempt(d.said) => s.since >= Refractory
<1> DEFINE ring   == Slide(s.ring, p)
           gated  == Gated(ring, top)
           word   == Word(ring, gated, s.candidate)
           cls    == IF word = 0 /\ StopsDriving(p) THEN StopClass ELSE word
           locked == s.refractory > 0 /\ ~Exempt(cls)
           said   == IF locked THEN 0 ELSE cls
           left   == IF s.refractory > 0 THEN s.refractory - 1 ELSE 0
           since  == IF said > 0 THEN 0 ELSE Smaller(s.since + 1, Refractory)
           deaf   == IF StopsDriving(p) /\ said # StopClass
                     THEN Smaller(s.unheeded + 1, Smooth + 1) ELSE 0
<1>0. /\ s.ring \in Rings /\ s.refractory \in 0 .. Refractory /\ s.since \in 0 .. Refractory
      /\ s.unheeded \in 0 .. Smooth + 1 /\ s.refractory + s.since >= Refractory
  BY DEF Listening, Listener, Due
<1>1. Decided(s, p, top) =
        [have |-> Window - Hop, ring |-> ring, said |-> said,
         candidate |-> NextCandidate(locked, gated), refractory |-> Rearmed(said, left),
         since |-> since, unheeded |-> deaf]
  BY DEF Decided
<1>2. gated \in Heard /\ said \in Heard
  BY Windows DEF Gated, Word
<1>3. ring \in Rings /\ NextCandidate(locked, gated) \in Heard
  BY <1>0, <1>2, SlideIs, Windows DEF NextCandidate
<1>4. left \in 0 .. Refractory /\ since \in 0 .. Refractory /\ deaf \in 0 .. Smooth + 1
      /\ Rearmed(said, left) \in 0 .. Refractory
  BY <1>0, Windows DEF Smaller, Rearmed
<1>5. Rearmed(said, left) + since >= Refractory
  <2>1. left = IF s.refractory > 0 THEN s.refractory - 1 ELSE 0
    OBVIOUS
  <2>2. since = IF said > 0 THEN 0 ELSE Smaller(s.since + 1, Refractory)
    OBVIOUS
  <2> HIDE DEF left, since, said
  <2> QED
    BY <1>0, <2>1, <2>2, Windows DEF Smaller, Rearmed
<1>6. said > 0 /\ ~Exempt(said) => s.since >= Refractory
  <2>1. CASE locked
    BY <2>1
  <2>2. CASE ~locked /\ s.refractory = 0
    BY <1>0, <2>2, Windows
  <2>3. CASE ~locked /\ s.refractory > 0
    <3>1. said = cls /\ Exempt(cls)
      BY <2>3
    <3> QED
      BY <3>1
  <2>4. s.refractory = 0 \/ s.refractory > 0
    BY <1>0, Windows
  <2> QED
    BY <2>1, <2>2, <2>3, <2>4
<1> HIDE DEF ring, gated, said, left, since, deaf, locked
<1>7. Decided(s, p, top) \in Listener
  <2>1. said \in Heard \cup {Nothing} /\ Window - Hop \in 0 .. Window - 1
    BY <1>2, Windows
  <2> QED
    BY <1>1, <1>3, <1>4, <2>1 DEF Listener
<1>8. Due(Decided(s, p, top)) /\ Decided(s, p, top).said = said
  BY <1>1, <1>5 DEF Due
<1> QED
  BY <1>6, <1>7, <1>8 DEF Listening

LEMMA SlideAt ==
  ASSUME NEW ring \in Rings, NEW p \in Posteriors
  PROVE  /\ 1 <= Len(Slide(ring, p)) /\ Slide(ring, p)[1] = p
         /\ 1 <= Len(ring) => 2 <= Len(Slide(ring, p)) /\ Slide(ring, p)[2] = ring[1]
         /\ 2 <= Len(ring) => /\ Slide(ring, p) \in Posteriors \X Posteriors \X Posteriors
                              /\ Len(Slide(ring, p)) = 3 /\ Slide(ring, p)[3] = ring[2]
<1>1. CASE ring = <<>>
  <2>1. Slide(ring, p) = <<p>> /\ Len(ring) = 0
    BY <1>1 DEF Slide
  <2> QED
    BY <2>1
<1>2. CASE \E q \in Posteriors : ring = <<q>>
  <2>1. PICK q \in Posteriors : ring = <<q>>
    BY <1>2
  <2>2. Slide(ring, p) = <<p, q>> /\ Len(ring) = 1 /\ ring[1] = q
    BY <2>1 DEF Slide
  <2> QED
    BY <2>2
<1>3. CASE ring \in Posteriors \X Posteriors \cup Posteriors \X Posteriors \X Posteriors
  <2>1. Len(ring) \in {2, 3} /\ ring[1] \in Posteriors /\ ring[2] \in Posteriors
    BY <1>3
  <2>2. Slide(ring, p) = <<p, ring[1], ring[2]>>
    BY <2>1 DEF Slide
  <2> QED
    BY <2>1, <2>2
<1> QED
  BY <1>1, <1>2, <1>3 DEF Rings

Agreed(s) ==
  s.said > 0 /\ ~Exempt(s.said) =>
    SpokenTwice(s.ring, s.said) \/ (Len(s.ring) < Smooth /\ SpokenStrongly(s.ring, s.said))

(* Before the first window there is nothing to agree with.                 *)
Unproposed(s) == s.ring = <<>> => s.candidate = 0

LEMMA DecidedProposes ==
  ASSUME NEW s, Listening(s), NEW p \in Posteriors, NEW top
  PROVE  Unproposed(Decided(s, p, top))
<1>1. Decided(s, p, top).ring = Slide(s.ring, p)
  BY DEF Decided
<1>2. 1 <= Len(Slide(s.ring, p))
  BY SlideAt DEF Listening, Listener
<1>3. Slide(s.ring, p) # <<>>
  BY <1>2
<1> QED
  BY <1>1, <1>3 DEF Unproposed

(* What the smoothing and the debounce let pass.  Gate in the average of   *)
(* three is more than one window can give; twice Gate, in two of which one *)
(* gives nothing, is Strong; the first window has no candidate to agree    *)
(* with.                                                                   *)
LEMMA LoneIs ==
  ASSUME NEW s, Listening(s), Unproposed(s), NEW p \in Posteriors, NEW top \in Heard
  PROVE  Agreed(Decided(s, p, top))
<1> DEFINE ring  == Slide(s.ring, p)
           gated == Gated(ring, top)
           word  == Word(ring, gated, s.candidate)
           said  == Decided(s, p, top).said
<1>0. Decided(s, p, top).ring = ring
  BY DEF Decided
<1>1. \/ said = 0
      \/ said = word
      \/ said = StopClass /\ StopsDriving(p)
  BY DEF Decided
<1>2. ring \in Rings
  BY SlideIs DEF Listening, Listener
<1>3. word > 0 => /\ word = top /\ Weight(ring, word) >= Gate * Len(ring)
                  /\ Weight(ring, word) >= Strong * Len(ring) \/ word = s.candidate
  BY DEF Word, Gated
<1>4. Len(ring) = 1 => s.candidate = 0
  <2>1. 1 <= Len(s.ring) => 2 <= Len(ring)
    BY SlideAt DEF Listening, Listener
  <2>2. s.ring # <<>> => 1 <= Len(s.ring)
    BY DEF Listening, Listener, Rings
  <2> QED
    BY <2>1, <2>2 DEF Unproposed
<1> HIDE DEF ring, word, said
<1>5. SUFFICES ASSUME said > 0, ~Exempt(said)
               PROVE  SpokenTwice(ring, said) \/ (Len(ring) < Smooth /\ SpokenStrongly(ring, said))
  BY <1>0 DEF said, Agreed
<1>6. said = word /\ word > 0 /\ word \in Heard
  BY <1>1, <1>3, <1>5 DEF Exempt, StopsDriving
<1>7. Weight(ring, word) >= Gate * Len(ring)
      /\ (Weight(ring, word) >= Strong * Len(ring) \/ word = s.candidate)
  BY <1>3, <1>6
<1>8. /\ Gate \in Nat /\ Unit \in Nat /\ Strong \in Nat
      /\ 3 * Gate > Unit /\ Strong <= 2 * Gate /\ Gate <= Strong
  BY VoiceAssumption
<1>9. ASSUME NEW q \in Posteriors PROVE q[word] \in 0 .. Unit
  BY <1>6, <1>9, VoiceAssumption
<1>10. CASE ring \in Posteriors \X Posteriors \X Posteriors
  <2>1. Len(ring) = 3
    BY <1>10
  <2>2. PICK a \in 0 .. Unit, b \in 0 .. Unit, c \in 0 .. Unit :
          ring[1][word] = a /\ ring[2][word] = b /\ ring[3][word] = c
    BY <1>9, <1>10
  <2>3. a + b + c >= Gate * 3
    BY <1>7, <2>1, <2>2 DEF Weight
  <2>4. (a > 0 /\ b > 0) \/ (a > 0 /\ c > 0) \/ (b > 0 /\ c > 0)
    BY <1>8, <2>3
  <2>5. SpokenTwice(ring, word)
    BY <2>1, <2>2, <2>4 DEF SpokenTwice
  <2> QED
    BY <1>6, <2>5
<1>11. CASE ring \in Posteriors \X Posteriors
  <2>1. Len(ring) = 2 /\ Len(ring) < Smooth
    BY <1>11 DEF Smooth
  <2>2. PICK a \in 0 .. Unit, b \in 0 .. Unit : ring[1][word] = a /\ ring[2][word] = b
    BY <1>9, <1>11
  <2>3. a + b >= Gate * 2
    BY <1>7, <2>1, <2>2 DEF Weight
  <2>4. (a > 0 /\ b > 0) \/ a >= Strong \/ b >= Strong
    BY <1>8, <2>3
  <2>5. SpokenTwice(ring, word) \/ SpokenStrongly(ring, word)
    BY <2>1, <2>2, <2>4 DEF SpokenTwice, SpokenStrongly
  <2> QED
    BY <1>6, <2>1, <2>5
<1>12. CASE \E q \in Posteriors : ring = <<q>>
  <2>1. PICK q \in Posteriors : ring = <<q>>
    BY <1>12
  <2>2. Len(ring) = 1 /\ Len(ring) < Smooth /\ ring[1] = q
    BY <2>1 DEF Smooth
  <2>3. Weight(ring, word) = q[word]
    <3>1. Weight(ring, word) = q[word] + 0 + 0
      BY <2>2 DEF Weight
    <3> QED
      BY <1>9, <3>1
  <2>4. q[word] >= Strong
    BY <1>4, <1>6, <1>7, <1>8, <2>2, <2>3
  <2>5. SpokenStrongly(ring, word)
    BY <2>2, <2>4 DEF SpokenStrongly
  <2> QED
    BY <1>6, <2>2, <2>5
<1>13. ring # <<>>
  <2>1. 1 <= Len(ring)
    BY SlideAt DEF Listening, Listener, ring
  <2> QED
    BY <2>1
<1> QED
  BY <1>2, <1>10, <1>11, <1>12, <1>13 DEF Rings

(* "Stop" unheeded: the newest windows all heard it, and what hid it holds *)
(* a lockout or has left no candidate.                                     *)
HearsStop(ring, k) == k <= Len(ring) /\ ring[k][StopClass] >= MovingGate
Unheard(s) ==
  /\ s.unheeded <= Smooth
  /\ s.unheeded >= 1 => HearsStop(s.ring, 1) /\ (s.candidate = 0 \/ s.refractory > 0)
  /\ s.unheeded >= 2 => HearsStop(s.ring, 2)
  /\ s.unheeded >= Smooth => s.candidate = 0

(* Three windows that heard "stop" leave no other word to be strong.       *)
LEMMA WeakIs ==
  ASSUME NEW r \in Posteriors \X Posteriors \X Posteriors, Len(r) = 3,
         r[1][StopClass] >= MovingGate, r[2][StopClass] >= MovingGate,
         r[3][StopClass] >= MovingGate, NEW c \in Heard, c # StopClass
  PROVE  Weight(r, c) < Strong * Len(r)
<1>1. /\ Unit \in Nat /\ Strong \in Nat /\ MovingGate \in Nat
      /\ 3 * Strong > 3 * (Unit - MovingGate)
  BY VoiceAssumption
<1>2. ASSUME NEW k \in 1 .. 3 PROVE r[k][c] \in Nat /\ r[k][c] <= Unit - MovingGate
  <2>1. r[k] \in Posteriors /\ r[k][StopClass] >= MovingGate
    BY <1>2
  <2>2. r[k][c] \in 0 .. Unit /\ r[k][StopClass] \in 0 .. Unit
    BY <2>1, Windows, VoiceAssumption
  <2>3. r[k][c] + r[k][StopClass] <= Unit
    BY <2>1, Windows, VoiceAssumption
  <2> QED
    BY <1>1, <2>1, <2>2, <2>3
<1>3. Weight(r, c) = r[1][c] + r[2][c] + r[3][c]
  BY DEF Weight
<1>4. /\ r[1][c] \in Nat /\ r[1][c] <= Unit - MovingGate
      /\ r[2][c] \in Nat /\ r[2][c] <= Unit - MovingGate
      /\ r[3][c] \in Nat /\ r[3][c] <= Unit - MovingGate
  BY <1>2
<1> QED
  BY <1>1, <1>3, <1>4

LEMMA UnheardIs ==
  ASSUME NEW s, Listening(s), Unheard(s), NEW p \in Posteriors, NEW top \in Heard
  PROVE  Unheard(Decided(s, p, top))
<1> DEFINE ring   == Slide(s.ring, p)
           gated  == Gated(ring, top)
           word   == Word(ring, gated, s.candidate)
           cls    == IF word = 0 /\ StopsDriving(p) THEN StopClass ELSE word
           locked == s.refractory > 0 /\ ~Exempt(cls)
           said   == IF locked THEN 0 ELSE cls
           left   == IF s.refractory > 0 THEN s.refractory - 1 ELSE 0
           hidden == StopsDriving(p) /\ said # StopClass
           d      == Decided(s, p, top)
<1>0. /\ s.ring \in Rings /\ s.refractory \in 0 .. Refractory
      /\ s.unheeded \in 0 .. 3 /\ s.candidate \in Heard /\ Smooth = 3
  BY Windows DEF Listening, Listener, Unheard
<1>1. /\ d.ring = ring /\ d.candidate = NextCandidate(locked, gated)
      /\ d.refractory = Rearmed(said, left)
      /\ d.unheeded = IF hidden THEN Smaller(s.unheeded + 1, Smooth + 1) ELSE 0
  BY DEF Decided
<1>2. CASE ~hidden
  <2>1. d.unheeded = 0
    BY <1>1, <1>2
  <2> HIDE DEF d
  <2> QED
    BY <1>0, <2>1 DEF Unheard, d
<1>3. CASE hidden
  <2>1. p[StopClass] >= MovingGate /\ Exempt(StopClass)
    BY <1>3 DEF StopsDriving, Exempt
  <2>2. word # 0 /\ word # StopClass
    BY <1>3, <2>1
  <2>3. cls = word /\ word = gated /\ gated \in Heard /\ gated > 0 /\ gated # StopClass
        /\ (Weight(ring, gated) >= Strong * Len(ring) \/ gated = s.candidate)
    BY <2>2, Windows DEF Word, Gated
  <2>4. ~Exempt(cls) /\ (locked <=> s.refractory > 0)
    BY <2>3 DEF Exempt
  <2>5. d.candidate = 0 \/ d.refractory > 0
    BY <1>1, <2>3, Windows DEF NextCandidate, Rearmed
  <2>6. s.refractory > 0 => d.candidate = 0
    BY <1>1, <2>4 DEF NextCandidate
  <2>7. HearsStop(d.ring, 1)
    BY <1>0, <1>1, <2>1, SlideAt DEF HearsStop
  <2>8. s.unheeded >= 1 => HearsStop(d.ring, 2)
    BY <1>0, <1>1, SlideAt DEF HearsStop, Unheard
  <2>9. s.unheeded >= 2 => gated = s.candidate
    <3> SUFFICES ASSUME s.unheeded >= 2 PROVE gated = s.candidate
      OBVIOUS
    <3>1. HearsStop(s.ring, 1) /\ HearsStop(s.ring, 2)
      BY <1>0 DEF Unheard
    <3>2. /\ ring \in Posteriors \X Posteriors \X Posteriors /\ Len(ring) = 3
          /\ ring[1] = p /\ ring[2] = s.ring[1] /\ ring[3] = s.ring[2]
      BY <1>0, <3>1, SlideAt DEF HearsStop
    <3> HIDE DEF ring
    <3>3. Weight(ring, gated) < Strong * Len(ring)
      BY <2>1, <2>3, <3>1, <3>2, WeakIs DEF HearsStop
    <3>4. Weight(ring, gated) \in Int /\ Strong * Len(ring) \in Int
      <4>1. ring[1][gated] \in Nat /\ ring[2][gated] \in Nat /\ ring[3][gated] \in Nat
        BY <2>3, <3>2, VoiceAssumption
      <4>2. Strong \in Nat
        BY VoiceAssumption
      <4> QED
        BY <3>2, <4>1, <4>2 DEF Weight
    <3> QED
      BY <2>3, <3>3, <3>4
  <2>10. s.unheeded # 3
    BY <1>0, <2>3, <2>9 DEF Unheard
  <2>11. s.unheeded = 2 => d.candidate = 0
    BY <1>0, <2>3, <2>6, <2>9 DEF Unheard
  <2>12. d.unheeded = s.unheeded + 1 /\ s.unheeded \in 0 .. 2
    BY <1>0, <1>1, <1>3, <2>10 DEF Smaller
  <2> HIDE DEF d
  <2> QED
    BY <1>0, <2>5, <2>7, <2>8, <2>11, <2>12 DEF Unheard, d
<1> QED
  BY <1>2, <1>3

LEMMA VoicePollIs ==
  ASSUME NEW s, Listening(s), Unproposed(s), Unheard(s), VoicePoll(s)
  PROVE  /\ Listening(voice') /\ Unproposed(voice') /\ Unheard(voice') /\ Agreed(voice')
         /\ voice'.said > 0 /\ ~Exempt(voice'.said) => s.since >= Refractory
         /\ s.have = 0 => ~(voice'.said > 0)
<1>1. PICK got \in 0 .. Smaller(Window - s.have, Chunk) :
        Listens(s, got) \/ Fumbles(s, got) \/ Classifies(s, got)
  BY DEF VoicePoll
<1>2. s \in Listener /\ s.have \in 0 .. Window - 1 /\ got \in Nat /\ got <= Chunk
  BY <1>1, Windows DEF Listening, Listener, Smaller
<1>3. CASE Classifies(s, got)
  <2>1. PICK p \in Posteriors, top \in Heard : voice' = Decided(s, p, top)
    BY <1>3 DEF Classifies
  <2>2. s.have # 0
    BY <1>2, <1>3, Windows DEF Classifies
  <2> QED
    BY <2>1, <2>2, DecidedIs, DecidedProposes, LoneIs, UnheardIs
<1>4. CASE Fumbles(s, got) \/ Listens(s, got)
  <2>0. /\ Window - Hop \in 0 .. Window - 1
        /\ s.have + got < Window => s.have + got \in 0 .. Window - 1
    BY <1>2, Windows
  <2>1. PICK have \in 0 .. Window - 1, said \in {Nothing, 0} :
          voice' = [s EXCEPT !.have = have, !.said = said]
    <3>1. CASE Fumbles(s, got)
      BY <2>0, <3>1 DEF Fumbles
    <3>2. CASE Listens(s, got)
      BY <2>0, <3>2 DEF Listens
    <3> QED
      BY <1>4, <3>1, <3>2
  <2>2. said \in Heard \cup {Nothing}
    BY Windows
  <2>3. /\ voice' \in Listener /\ voice'.said = said
        /\ voice'.refractory = s.refractory /\ voice'.since = s.since
        /\ voice'.ring = s.ring /\ voice'.candidate = s.candidate
        /\ voice'.unheeded = s.unheeded
    BY <1>2, <2>1, <2>2 DEF Listener
  <2>4. Unheard(voice')
    BY <2>3 DEF Unheard
  <2> QED
    BY <2>3, <2>4, Windows DEF Listening, Due, Agreed, Unproposed
<1> QED
  BY <1>1, <1>3, <1>4

VoiceInv == Listening(voice) /\ Unproposed(voice) /\ Unheard(voice)

LEMMA VoiceStart == Listening(ResetVoice) /\ Unproposed(ResetVoice) /\ Unheard(ResetVoice)
  BY ListeningStart, Windows DEF ResetVoice, Unproposed, Unheard

LEMMA VoiceStep ==
  VoiceInv /\ [Next]_vars =>
    /\ VoiceInv'
    /\ [voice'.said > 0 /\ ~Exempt(voice'.said) => voice.since >= Refractory]_voice
    /\ [Agreed(voice')]_voice
<1> SUFFICES ASSUME VoiceInv, [Next]_vars
             PROVE  /\ VoiceInv'
                    /\ [voice'.said > 0 /\ ~Exempt(voice'.said)
                           => voice.since >= Refractory]_voice
                    /\ [Agreed(voice')]_voice
  OBVIOUS
<1>1. CASE VoiceTick
  <2>1. CASE running
    BY <1>1, <2>1, VoicePollIs DEF VoiceTick, VoiceInv
  <2>2. CASE ~running
    <3>1. VoicePoll(ResetVoice) /\ ResetVoice.have = 0
      BY <1>1, <2>2 DEF VoiceTick, ResetVoice
    <3> QED
      BY <3>1, VoiceStart, VoicePollIs DEF VoiceInv
  <2> QED
    BY <2>1, <2>2
<1>2. CASE UNCHANGED voice
  BY <1>2 DEF VoiceInv, Listening, Due, Unproposed, Unheard
<1> QED
  BY <1>1, <1>2
     DEF Next, vars, ears, EdgeTick, EyeTick, SeePolls, EyePollsOn, NpuThread, EyeOnly, See,
         Wants, TickPauses, Moves, Detects, Sensed, Drawn

LEMMA VoiceInit == Init => VoiceInv
  BY VoiceStart DEF Init, VoiceInv

(* After a word kRefractoryInferences windows pass before the MFCC service *)
(* says the next, a "stop" of the driving robot excepted, also where the   *)
(* program stops and starts it again (ai_service.cpp, refractory).         *)
THEOREM WordsApart == Spec => RefractoryHolds
  BY VoiceInit, VoiceStep, PTL DEF Spec, RefractoryHolds

(* One window cannot say a word on its own: kMinConfidence is more of the  *)
(* average of three than one window can give, and before the third, right  *)
(* after a reset, the debounce lets only a strong one pass                 *)
(* (ai_service.cpp, the smoothing and the debounce).                       *)
THEOREM NoLoneWindow == Spec => LoneWindowSilent
<1>1. LoneWindowSilent <=> [][Agreed(voice')]_voice
  BY DEF LoneWindowSilent, Agreed
<1> QED
  BY <1>1, VoiceInit, VoiceStep, PTL DEF Spec

(* A driving robot hears a "stop" that lasts within four windows, whatever *)
(* the average, the debounce and the lockout hold of the words before it   *)
(* (ai_service.cpp, kMovingStopConfidence).                                *)
THEOREM StopHeard == Spec => []StopHeardSoon
<1>1. VoiceInv => StopHeardSoon
  BY DEF VoiceInv, Unheard, StopHeardSoon
<1> QED
  BY <1>1, VoiceInit, VoiceStep, PTL DEF Spec
-----------------------------------------------------------------------------
(* The sensors: a cache that is good holds the last measurement, whole.    *)
SensorType ==
  /\ cache \in [age : 0 .. Period, ok : BOOLEAN, v : [Named -> Int]]
  /\ truth \in [v : [Named -> Int], age : 0 .. Period]
CacheTrue == cache.ok => cache.v = truth.v /\ cache.age = truth.age
SensorInv == SensorType /\ CacheTrue /\ SenseFresh

LEMMA FetchesIs ==
  ASSUME SensorType, Fetches
  PROVE  SensorType' /\ CacheTrue' /\ (cache'.ok => truth'.age < Period)
<1>1. Period \in Nat \ {0} /\ Readings \subseteq Int /\ Channels \in Seq(Named)
  BY SensorsAssumption
<1>2. CASE cache' = [cache EXCEPT !.age = 0, !.ok = FALSE] /\ UNCHANGED truth
  <2>1. 0 \in 0 .. Period /\ FALSE \in BOOLEAN
    BY <1>1
  <2>2. cache' = [age |-> 0, ok |-> FALSE, v |-> cache.v] /\ cache.v \in [Named -> Int]
    BY <1>2 DEF SensorType
  <2>3. cache' \in [age : 0 .. Period, ok : BOOLEAN, v : [Named -> Int]]
    BY <2>1, <2>2
  <2> QED
    BY <1>2, <2>2, <2>3 DEF SensorType, CacheTrue
<1>3. ASSUME NEW m \in [Named -> Readings], NEW n \in 0 .. Len(Channels),
             cache' = [age |-> 0, ok |-> AllRead(n), v |-> ReadOf(m, n)],
             truth' = [v |-> m, age |-> 0]
      PROVE  SensorType' /\ CacheTrue' /\ (cache'.ok => truth'.age < Period)
  <2>1. m \in [Named -> Int] /\ ReadOf(m, n) \in [Named -> Int]
    BY <1>1 DEF ReadOf, SensorType
  <2>2. AllRead(n) \in BOOLEAN /\ 0 \in 0 .. Period
    BY <1>1 DEF AllRead
  <2>3. SensorType'
    BY <1>3, <2>1, <2>2 DEF SensorType
  <2>4. ASSUME AllRead(n) PROVE ReadOf(m, n) = m
    <3>1. \A c \in Named : \E i \in 1 .. n : Channels[i] = c
      BY <1>1, <2>4 DEF AllRead, Named
    <3> QED
      BY <2>1, <3>1 DEF ReadOf
  <2> QED
    BY <1>1, <1>3, <2>3, <2>4 DEF CacheTrue
<1> QED
  BY <1>2, <1>3 DEF Fetches

LEMMA SensorInvStep == SensorInv /\ [Next]_vars => SensorInv'
<1> SUFFICES ASSUME SensorInv, [Next]_vars PROVE SensorInv'
  OBVIOUS
<1>0. Period \in Nat \ {0} /\ Readings \subseteq Int \ {0}
  BY SensorsAssumption
<1>1. ASSUME NEW channel \in Named \cup {Unknown}, Sense(channel) PROVE SensorInv'
  <2>1. SensorType' /\ CacheTrue' /\ (cache'.ok => truth'.age < Period)
    <3>1. CASE cache.age >= Period
      BY <1>1, <3>1, FetchesIs DEF Sense, SensorInv
    <3>2. CASE ~(cache.age >= Period)
      BY <1>0, <1>1, <3>2 DEF Sense, SensorInv, SensorType, CacheTrue
    <3> QED
      BY <3>1, <3>2
  <2>2. SenseFresh'
    BY <1>1, <2>1 DEF Sense, SenseFresh, CacheTrue
  <2> QED
    BY <2>1, <2>2 DEF SensorInv
<1>2. ASSUME NEW ms \in 1 .. Period, Elapses(ms) PROVE SensorInv'
  BY <1>0, <1>2 DEF Elapses, Capped, SensorInv, SensorType, CacheTrue, SenseFresh
<1>3. CASE UNCHANGED sensorVars
  BY <1>3 DEF sensorVars, SensorInv, SensorType, CacheTrue, SenseFresh
<1> QED
  BY <1>1, <1>2, <1>3
     DEF Next, vars, parts, VoiceTick, EdgeTick, EyeTick, SeePolls, EyePollsOn, NpuThread,
         EyeOnly, See, Wants, TickPauses, Moves, Detects, Sensed, SensorStep, Drawn

(* What SENSE pushes is what the last fetch measured of that channel, not  *)
(* older than a period, or 0: never what a channel kept from before a      *)
(* failure (hal::sense in zephyr/src/hal_zephyr.cpp).                      *)
THEOREM SenseTrue == Spec => []SenseFresh
<1>1. Init => SensorInv
  <2> SUFFICES ASSUME Init PROVE SensorInv
    OBVIOUS
  <2>1. Period \in Nat
    BY SensorsAssumption
  <2> QED
    BY <2>1 DEF Init, SensorsInit, SensorInv, SensorType, CacheTrue, SenseFresh
<1> QED
  BY <1>1, SensorInvStep, PTL DEF Spec, SensorInv
-----------------------------------------------------------------------------
(* The eye: the driver has g_input from the moment it is asked until its   *)
(* answer is flagged, and g_inferDone is down all that while.              *)
EyeType ==
  /\ npu \in [state : {"uninit", "failed", "run"}, pixels : Nat, ready : BOOLEAN,
              pending : BOOLEAN, done : BOOLEAN, ok : BOOLEAN]
  /\ at \in {"out", "drain", "submit", "ask", "asked"}
  /\ driver \in {"idle", "queued", "running", "result"}
Handed ==
  /\ driver # "idle" => (npu.pending = TRUE \/ at = "asked") /\ npu.done = FALSE
  /\ at = "ask" => npu.done = FALSE
  /\ at # "out" => npu.pending = FALSE /\ npu.state = "run"
  /\ npu.state # "run" => npu.pixels = 0 /\ npu.pending = FALSE

(* No verdict since the reset, while there are pixels from before it.      *)
Verdict(e) ==
  /\ e \in [confirmed : {0, 1}, lastRaw : {-1, 0, 1}, said : {-1, 0, 1}, old : BOOLEAN,
            verdicts : 0 .. 2, stale : BOOLEAN]
  /\ e.old = TRUE => e.verdicts = 0
  /\ e.stale = TRUE => e.verdicts = 1
EyeInv == EyeType /\ Handed /\ Verdict(eye)

LEMMA ResetEyeIs == EyeType => Verdict(ResetEye)
  BY DEF EyeType, Verdict, ResetEye, FreshEye

LEMMA ConfirmsIs ==
  ASSUME NEW e, Verdict(e), NEW raw \in {0, 1}, npu'.pixels = 0, Confirms(e, raw)
  PROVE  Verdict(eye')
<1> DEFINE confirmed == IF e.lastRaw < 0 \/ raw = e.lastRaw THEN raw ELSE e.confirmed
           verdicts  == IF e.verdicts = 0 THEN 1 ELSE 2
<1>1. /\ confirmed \in {0, 1} /\ verdicts \in 0 .. 2 /\ e.old \in BOOLEAN
      /\ e.old = TRUE => verdicts = 1
  BY DEF Verdict
<1>2. eye' = [confirmed |-> confirmed, said |-> confirmed, lastRaw |-> raw,
              old |-> FALSE, stale |-> e.old, verdicts |-> verdicts]
  <2>1. (e.old /\ npu'.pixels > 0) = FALSE
    OBVIOUS
  <2> QED
    BY <2>1 DEF Confirms
<1> HIDE DEF confirmed, verdicts
<1> QED
  BY <1>1, <1>2 DEF Verdict

LEMMA WaitsIs ==
  ASSUME NEW e, Verdict(e), Waits(e)
  PROVE  Verdict(eye')
  BY DEF Verdict, Waits

LEMMA DroppedIs ==
  ASSUME EyeType, npu' = Dropped
  PROVE  /\ npu' = [state |-> npu.state, pixels |-> 0, ready |-> FALSE, pending |-> FALSE,
                    done |-> npu.done, ok |-> npu.ok]
  BY DEF EyeType, Dropped

LEMMA BeginPollIs ==
  ASSUME EyeType, Handed, NEW e, Verdict(e), BeginPoll(e)
  PROVE  EyeInv' /\ ~(npu'.pixels > npu.pixels)
<1>0. at = "out" /\ driver' = driver /\ npu.pixels \in Nat
  BY DEF BeginPoll, EyeType
<1>1. CASE FailedPoll(e)
  <2>1. npu' = npu /\ at' = "out" /\ npu.pixels = 0 /\ Confirms(e, 0)
    BY <1>1 DEF FailedPoll, Answers, Handed
  <2>2. Verdict(eye')
    BY <2>1, ConfirmsIs
  <2> QED
    BY <1>0, <2>1, <2>2 DEF EyeInv, EyeType, Handed
<1>2. CASE FirstPoll(e)
  <2>1. npu.pixels = 0 /\ npu.pending = FALSE
    BY <1>2 DEF FirstPoll, Handed
  <2>2. CASE npu' = [npu EXCEPT !.state = "failed"] /\ Answers(e, 0)
    <3>1. npu' = [state |-> "failed", pixels |-> 0, ready |-> npu.ready,
                  pending |-> npu.pending, done |-> npu.done, ok |-> npu.ok]
      BY <2>1, <2>2 DEF EyeType
    <3>2. at' = "out" /\ Verdict(eye')
      BY <2>2, <3>1, ConfirmsIs DEF Answers
    <3>3. EyeType'
      BY <1>0, <3>1, <3>2 DEF EyeType
    <3>4. Handed' /\ npu'.pixels = 0
      BY <1>0, <2>1, <3>1, <3>2 DEF Handed
    <3>5. ~(npu'.pixels > npu.pixels)
      BY <1>0, <2>1, <3>4
    <3> QED
      BY <3>2, <3>3, <3>4, <3>5 DEF EyeInv
  <2>3. CASE npu' = [npu EXCEPT !.state = "run"] /\ at' = "drain" /\ eye' = e
    <3>1. npu' = [state |-> "run", pixels |-> 0, ready |-> npu.ready,
                  pending |-> npu.pending, done |-> npu.done, ok |-> npu.ok]
      BY <2>1, <2>3 DEF EyeType
    <3>2. EyeType'
      BY <1>0, <2>1, <2>3, <3>1 DEF EyeType
    <3>3. npu.pending = FALSE /\ driver = "idle"
      BY <1>0, <1>2 DEF FirstPoll, Handed, EyeType
    <3>4. Handed' /\ npu'.pixels = 0
      BY <1>0, <2>3, <3>1, <3>3 DEF Handed
    <3> QED
      BY <2>1, <2>3, <3>2, <3>4 DEF EyeInv
  <2> QED
    BY <1>2, <2>2, <2>3 DEF FirstPoll
<1>3. CASE AwaitsNpu(e)
  <2>1. Verdict(eye') /\ npu' = npu /\ at' = "out"
    BY <1>3, WaitsIs DEF AwaitsNpu, Waits
  <2> QED
    BY <1>0, <2>1 DEF EyeInv, EyeType, Handed
<1>4. CASE TakesResult(e)
  <2>1. npu.pending = TRUE /\ npu.done = TRUE /\ npu' = Dropped
    BY <1>4 DEF TakesResult, StillPending, EyeType
  <2>2. driver = "idle"
    BY <2>1 DEF Handed
  <2>3. at' = "out" /\ Verdict(eye')
    BY <1>4, <2>1, DroppedIs, ConfirmsIs DEF TakesResult, Answers
  <2>4. npu' = [state |-> npu.state, pixels |-> 0, ready |-> FALSE, pending |-> FALSE,
                done |-> npu.done, ok |-> npu.ok]
    BY <2>1, DroppedIs
  <2>5. EyeType'
    BY <1>0, <2>3, <2>4 DEF EyeType
  <2>6. Handed' /\ npu'.pixels = 0
    BY <1>0, <2>2, <2>3, <2>4 DEF Handed
  <2> QED
    BY <1>0, <2>3, <2>5, <2>6 DEF EyeInv
<1>5. CASE TakesFrame(e)
  <2>1. npu.state = "run" /\ npu.pending = FALSE /\ npu' = npu /\ eye' = e
        /\ at' \in {"submit", "drain"}
    BY <1>5 DEF TakesFrame, EyeType
  <2> QED
    BY <1>0, <2>1 DEF EyeInv, EyeType, Handed
<1> QED
  BY <1>1, <1>2, <1>3, <1>4, <1>5 DEF BeginPoll

LEMMA PollsOnIs ==
  ASSUME EyeInv, PollsOn
  PROVE  EyeInv' /\ (npu'.pixels > npu.pixels => driver = "idle")
<1>0. /\ npu.pixels \in Nat /\ npu.done \in BOOLEAN /\ Verdict(eye)
      /\ at # "out" => npu.pending = FALSE /\ npu.state = "run"
      /\ at \notin {"out", "asked"} => driver = "idle"
  BY DEF EyeInv, EyeType, Handed
<1>1. CASE DrainCamera
  <2>1. PICK px \in 0 .. CamChunk, full \in BOOLEAN :
          /\ npu' = [npu EXCEPT !.pixels = npu.pixels + px, !.ready = full]
          /\ IF full THEN at' = "submit" /\ eye' = eye ELSE Waits(eye)
    BY <1>1 DEF DrainCamera
  <2>2. npu.pixels + px \in Nat
    BY <1>0, NpuAssumption
  <2>3. /\ at = "drain" /\ driver = "idle" /\ driver' = driver
        /\ Verdict(eye') /\ at' \in {"submit", "out"}
    BY <1>0, <1>1, <2>1, WaitsIs DEF DrainCamera, Waits
  <2>4. npu' = [state |-> "run", pixels |-> npu.pixels + px, ready |-> full,
                pending |-> FALSE, done |-> npu.done, ok |-> npu.ok]
    BY <1>0, <2>1, <2>3 DEF EyeInv, EyeType
  <2> QED
    BY <1>0, <2>1, <2>2, <2>3, <2>4 DEF EyeInv, EyeType, Handed
<1>2. CASE ClearDone
  <2>1. at' = "ask" /\ driver = "idle" /\ driver' = driver /\ eye' = eye
    BY <1>0, <1>2 DEF ClearDone
  <2>2. npu' = [state |-> "run", pixels |-> npu.pixels, ready |-> npu.ready,
                pending |-> FALSE, done |-> FALSE, ok |-> npu.ok]
    BY <1>0, <1>2 DEF ClearDone, EyeInv, EyeType
  <2> QED
    BY <1>0, <2>1, <2>2 DEF EyeInv, EyeType, Handed
<1>3. CASE AskDriver
  <2>0. at = "ask" /\ driver = "idle" /\ npu.done = FALSE
    BY <1>0, <1>3 DEF AskDriver, EyeInv, Handed
  <2>1. CASE driver' = "queued" /\ at' = "asked" /\ UNCHANGED <<npu, eye>>
    BY <1>0, <2>0, <2>1 DEF EyeInv, EyeType, Handed
  <2>2. CASE Waits(eye) /\ UNCHANGED <<npu, driver>>
    <3>1. Verdict(eye') /\ at' = "out"
      BY <1>0, <2>2, WaitsIs DEF Waits
    <3> QED
      BY <1>0, <2>0, <2>2, <3>1 DEF EyeInv, EyeType, Handed
  <2>3. CASE npu' = Dropped /\ Answers(eye, 0) /\ UNCHANGED driver
    <3>1. EyeType
      BY DEF EyeInv
    <3>2. Verdict(eye') /\ at' = "out"
      BY <1>0, <2>3, <3>1, DroppedIs, ConfirmsIs DEF Answers
    <3>3. npu' = [state |-> npu.state, pixels |-> 0, ready |-> FALSE, pending |-> FALSE,
                  done |-> npu.done, ok |-> npu.ok]
      BY <2>3, <3>1, DroppedIs
    <3>4. EyeType'
      BY <2>0, <2>3, <3>1, <3>2, <3>3 DEF EyeType
    <3>5. Handed' /\ npu'.pixels = 0
      BY <2>0, <2>3, <3>2, <3>3 DEF Handed
    <3> QED
      BY <1>0, <3>2, <3>4, <3>5 DEF EyeInv
  <2> QED
    BY <1>3, <2>1, <2>2, <2>3 DEF AskDriver
<1>4. CASE Asked
  <2>1. npu' = [state |-> "run", pixels |-> npu.pixels, ready |-> npu.ready,
                pending |-> TRUE, done |-> npu.done, ok |-> npu.ok]
    BY <1>0, <1>4 DEF Asked, MarkPending, EyeInv, EyeType
  <2>2. Verdict(eye') /\ at = "asked" /\ at' = "out" /\ driver' = driver
    BY <1>0, <1>4, WaitsIs DEF Asked, Waits
  <2> QED
    BY <1>0, <2>1, <2>2 DEF EyeInv, EyeType, Handed
<1> QED
  BY <1>1, <1>2, <1>3, <1>4 DEF PollsOn

LEMMA DriverStepIs ==
  ASSUME EyeInv, DriverStep
  PROVE  EyeInv' /\ ~(npu'.pixels > npu.pixels)
<1>0. /\ npu.pixels \in Nat /\ Verdict(eye) /\ at' = at /\ eye' = eye
  BY DEF EyeInv, EyeType, DriverStep
<1>1. CASE DriverRuns
  BY <1>0, <1>1 DEF DriverRuns, EyeInv, EyeType, Handed
<1>2. CASE DriverResult
  <2>1. PICK ok \in BOOLEAN :
          npu' = [state |-> npu.state, pixels |-> npu.pixels, ready |-> npu.ready,
                  pending |-> npu.pending, done |-> npu.done, ok |-> ok]
    BY <1>2 DEF DriverResult, EyeInv, EyeType
  <2> QED
    BY <1>0, <1>2, <2>1 DEF DriverResult, EyeInv, EyeType, Handed
<1>3. CASE DriverDone
  <2>1. npu' = [state |-> npu.state, pixels |-> npu.pixels, ready |-> npu.ready,
                pending |-> npu.pending, done |-> TRUE, ok |-> npu.ok]
    BY <1>3 DEF DriverDone, EyeInv, EyeType
  <2>2. at # "ask"
    BY <1>3 DEF DriverDone, EyeInv, Handed
  <2>3. EyeType'
    BY <1>0, <1>3, <2>1 DEF DriverDone, EyeInv, EyeType
  <2>4. Handed' /\ npu'.pixels = npu.pixels
    BY <1>0, <1>3, <2>1, <2>2 DEF DriverDone, EyeInv, Handed
  <2> QED
    BY <1>0, <1>3, <2>1, <2>2, <2>3, <2>4 DEF EyeInv
<1> QED
  BY <1>1, <1>2, <1>3 DEF DriverStep

LEMMA EyeStart == Init => EyeInv
<1> SUFFICES ASSUME Init PROVE EyeInv
  OBVIOUS
<1>1. EyeType /\ Handed
  BY DEF Init, NpuInit, EyeType, Handed
<1>2. Verdict(eye)
  BY DEF Init, NpuInit, FreshEye, Verdict
<1> QED
  BY <1>1, <1>2 DEF EyeInv

LEMMA EyeStep ==
  EyeInv /\ [Next]_vars =>
    EyeInv' /\ [npu'.pixels > npu.pixels => driver = "idle"]_npu
<1> SUFFICES ASSUME EyeInv, [Next]_vars
             PROVE  EyeInv' /\ [npu'.pixels > npu.pixels => driver = "idle"]_npu
  OBVIOUS
<1>1. CASE EyeTick \/ SeePolls
  <2>1. PICK e : Verdict(e) /\ BeginPoll(e)
    BY <1>1, ResetEyeIs DEF EyeTick, SeePolls, EyeInv
  <2> QED
    BY <2>1, BeginPollIs DEF EyeInv
<1>2. CASE EyePollsOn
  BY <1>2, PollsOnIs DEF EyePollsOn
<1>3. CASE NpuThread
  BY <1>3, DriverStepIs DEF NpuThread
<1>4. CASE See
  <2>1. Verdict(eye') /\ UNCHANGED <<npu, at, driver>>
    BY <1>4, ResetEyeIs DEF See, EyeInv
  <2> QED
    BY <2>1 DEF EyeInv, EyeType, Handed
<1>5. CASE UNCHANGED eyes
  BY <1>5 DEF eyes, EyeInv, EyeType, Handed, Verdict
<1> QED
  BY <1>1, <1>2, <1>3, <1>4, <1>5
     DEF Next, vars, VoiceTick, EdgeTick, Wants, TickPauses, Moves, Detects, Sensed, Drawn

(* Until the driver's thread has answered, no pixel of the next frame is   *)
(* written into the g_input it reads, wherever it runs between the steps   *)
(* of a poll (ai_vision_npu.cpp, "g_input must not be touched").           *)
THEOREM InputsKept == Spec => InputKept
  BY EyeStart, EyeStep, PTL DEF Spec, InputKept

(* After a reset at most the first verdict is of a frame from before it    *)
(* (vision_service.cpp, reset; ai_vision_npu.cpp keeps its frame).         *)
THEOREM OneStale == Spec => []OnlyFirstStale
<1>1. EyeInv => OnlyFirstStale
  BY DEF EyeInv, Verdict, OnlyFirstStale
<1> QED
  BY <1>1, EyeStart, EyeStep, PTL DEF Spec
-----------------------------------------------------------------------------
(* The strip and the screen, side by side with the host's.                 *)
StripType ==
  /\ strip \in [ready : BOOLEAN, count : 0 .. StripMax, frame : [Index -> Nat],
                dirty : BOOLEAN, lit : [Index -> Nat]]
  /\ host.pixels \in [1 .. strip.count -> Nat]
HostFields ==
  host = [pixels |-> host.pixels, dirty |-> host.dirty, shown |-> host.shown,
          rows |-> host.rows, rowsDirty |-> host.rowsDirty, drawn |-> host.drawn]
ScreenFields ==
  screen = [up |-> screen.up, rows |-> screen.rows, dirty |-> screen.dirty,
            drawn |-> screen.drawn]
Same(lit, pixels) ==
  \A i \in Index : lit[i] = IF i + 1 \in DOMAIN pixels THEN Rgb(pixels[i + 1]) ELSE 0
StripInv ==
  /\ HostFields /\ StripType /\ Same(strip.frame, host.pixels)
  /\ strip.ready = TRUE => strip.dirty = host.dirty /\ Same(strip.lit, host.shown)

(* A screen that never came up is behind by what it was not sent.          *)
ScreenInv ==
  /\ HostFields /\ ScreenFields /\ screen.rows = host.rows
  /\ host.rowsDirty = FALSE => host.drawn = host.rows
  /\ screen.up = TRUE => screen.dirty = host.rowsDirty /\ screen.drawn = host.drawn
  /\ screen.up \in BOOLEAN /\ screen.dirty \in BOOLEAN /\ host.rowsDirty \in BOOLEAN
  /\ host.rowsDirty = TRUE => screen.dirty = TRUE

LEMMA RgbIs == \A colour \in Nat : Rgb(colour) \in Nat
  BY DEF Rgb

LEMMA PixnIs ==
  ASSUME StripInv, NEW n \in Int, Pixn(n)
  PROVE  StripInv'
<1> DEFINE k == InStrip(n)
<1>1. k \in 0 .. StripMax
  BY PanelsAssumption DEF InStrip
<1>2. Pixn(n) <=> /\ strip' = [strip EXCEPT !.count = k, !.frame = Dark, !.dirty = TRUE]
                  /\ host' = [host EXCEPT !.pixels = [i \in 1 .. k |-> 0], !.dirty = TRUE]
                  /\ UNCHANGED screen
  BY DEF Pixn, DarkFor
<1> HIDE DEF k
<1>3. Dark \in [Index -> Nat] /\ \A i \in Index : Dark[i] = 0
  BY DEF Dark
<1>4. strip' = [ready |-> strip.ready, count |-> k, frame |-> Dark, dirty |-> TRUE,
                lit |-> strip.lit]
  BY <1>2 DEF StripInv, StripType
<1>5. host' = [pixels |-> [i \in 1 .. k |-> 0], dirty |-> TRUE, shown |-> host.shown,
               rows |-> host.rows, rowsDirty |-> host.rowsDirty, drawn |-> host.drawn]
  BY <1>2 DEF StripInv, HostFields
<1>6. HostFields' /\ StripType'
  BY <1>1, <1>3, <1>4, <1>5 DEF StripInv, StripType, HostFields
<1>7. Same(strip'.frame, host'.pixels)
  <2>1. \A c \in {0} : Rgb(c) = 0
    BY DEF Rgb
  <2> QED
    BY <1>3, <1>4, <1>5, <2>1 DEF Same
<1> QED
  BY <1>4, <1>5, <1>6, <1>7 DEF StripInv

LEMMA PixIs ==
  ASSUME StripInv, NEW i \in Int, NEW colour \in Nat, Pix(i, colour)
  PROVE  StripInv'
<1>1. strip.count \in 0 .. StripMax /\ StripMax \in Nat /\ DOMAIN host.pixels = 1 .. strip.count
  BY PanelsAssumption DEF StripInv, StripType
<1>2. CASE i = -1 \/ i \in 0 .. strip.count - 1
  <2> DEFINE frame1  == [j \in Index |-> IF j \in Touched(i) THEN Rgb(colour) ELSE strip.frame[j]]
             pixels1 == [j \in 1 .. strip.count |-> IF i \in {-1, j - 1} THEN colour
                                                    ELSE host.pixels[j]]
  <2>1. strip' = [ready |-> strip.ready, count |-> strip.count, frame |-> frame1,
                  dirty |-> TRUE, lit |-> strip.lit]
    <3>1. strip' = [strip EXCEPT !.frame = frame1, !.dirty = TRUE]
      BY <1>2 DEF Pix
    <3> HIDE DEF frame1
    <3> QED
      BY <3>1 DEF StripInv, StripType
  <2>2. host' = [pixels |-> pixels1, dirty |-> TRUE, shown |-> host.shown,
                 rows |-> host.rows, rowsDirty |-> host.rowsDirty, drawn |-> host.drawn]
    <3>1. host' = [host EXCEPT !.pixels = pixels1, !.dirty = TRUE]
      BY <1>1, <1>2 DEF Pix
    <3> HIDE DEF pixels1
    <3> QED
      BY <3>1 DEF StripInv, HostFields
  <2>3. frame1 \in [Index -> Nat] /\ pixels1 \in [1 .. strip.count -> Nat]
    BY RgbIs DEF StripInv, StripType
  <2>4. Same(frame1, pixels1)
    <3>1. Same(strip.frame, host.pixels)
      BY DEF StripInv
    <3>2. ASSUME NEW j \in Index
          PROVE  frame1[j] = IF j + 1 \in DOMAIN pixels1 THEN Rgb(pixels1[j + 1]) ELSE 0
      <4>1. j \in Nat /\ (j + 1 \in 1 .. strip.count <=> j \in 0 .. strip.count - 1)
        BY <1>1 DEF Index
      <4>2. j \in Touched(i) => j + 1 \in 1 .. strip.count /\ i \in {-1, j}
        BY <1>1, <1>2, <4>1 DEF Touched
      <4>3. j + 1 \in 1 .. strip.count /\ i \in {-1, j} => j \in Touched(i)
        BY <1>1, <1>2, <4>1 DEF Touched
      <4>4. strip.frame[j] = IF j + 1 \in 1 .. strip.count THEN Rgb(host.pixels[j + 1]) ELSE 0
        BY <1>1, <3>1 DEF Same
      <4>5. CASE j \in Touched(i)
        BY <4>1, <4>2, <4>5
      <4>6. CASE j \notin Touched(i)
        BY <4>1, <4>3, <4>4, <4>6
      <4> QED
        BY <4>5, <4>6
    <3> QED
      BY <3>2 DEF Same
  <2> HIDE DEF frame1, pixels1
  <2> QED
    BY <2>1, <2>2, <2>3, <2>4 DEF StripInv, StripType, HostFields
<1>3. CASE ~(i = -1 \/ i \in 0 .. strip.count - 1)
  <2>1. i + 1 \notin DOMAIN host.pixels
    BY <1>1, <1>3
  <2>2. UNCHANGED <<strip, host>>
    BY <1>3, <2>1 DEF Pix
  <2> QED
    BY <2>2 DEF StripInv, StripType, HostFields
<1> QED
  BY <1>2, <1>3

LEMMA StripShown ==
  ASSUME StripInv, Shown
  PROVE  StripInv'
<1>1. strip' = IF strip.dirty /\ strip.ready
               THEN [strip EXCEPT !.dirty = FALSE, !.lit = strip.frame] ELSE strip
  BY DEF Shown
<1>2. \E drawn :
        host' = [pixels |-> host.pixels, dirty |-> FALSE,
                 shown |-> IF host.dirty THEN host.pixels ELSE host.shown,
                 rows |-> host.rows, rowsDirty |-> FALSE, drawn |-> drawn]
  BY DEF Shown, StripInv, HostFields
<1>3. HostFields' /\ host'.pixels = host.pixels /\ host'.dirty = FALSE
      /\ host'.shown = IF host.dirty THEN host.pixels ELSE host.shown
  BY <1>2 DEF HostFields
<1>4. CASE strip.dirty /\ strip.ready
  <2>1. strip' = [ready |-> TRUE, count |-> strip.count, frame |-> strip.frame,
                  dirty |-> FALSE, lit |-> strip.frame]
    BY <1>1, <1>4 DEF StripInv, StripType
  <2>2. host'.shown = host.pixels
    BY <1>3, <1>4 DEF StripInv, StripType
  <2> QED
    BY <1>3, <2>1, <2>2 DEF StripInv, StripType
<1>5. CASE ~(strip.dirty /\ strip.ready)
  <2>1. strip' = strip
    BY <1>1, <1>5
  <2>2. strip.ready = TRUE => strip.dirty = FALSE /\ host.dirty = FALSE
    BY <1>5 DEF StripInv, StripType
  <2> QED
    BY <1>3, <2>1, <2>2 DEF StripInv, StripType
<1> QED
  BY <1>4, <1>5

(* DCLR and DTEXT give both screens the same rows.                         *)
LEMMA RowsIs ==
  ASSUME ScreenInv, NEW rows,
         screen' = [screen EXCEPT !.rows = rows, !.dirty = TRUE],
         host' = [host EXCEPT !.rows = rows, !.rowsDirty = TRUE]
  PROVE  ScreenInv' /\ host'.pixels = host.pixels /\ host'.dirty = host.dirty
         /\ host'.shown = host.shown
<1>1. screen' = [up |-> screen.up, rows |-> rows, dirty |-> TRUE, drawn |-> screen.drawn]
  BY DEF ScreenInv, ScreenFields
<1>2. host' = [pixels |-> host.pixels, dirty |-> host.dirty, shown |-> host.shown,
               rows |-> rows, rowsDirty |-> TRUE, drawn |-> host.drawn]
  BY DEF ScreenInv, HostFields
<1> QED
  BY <1>1, <1>2 DEF ScreenInv, ScreenFields, HostFields

LEMMA DtextIs ==
  ASSUME ScreenInv, NEW row, NEW text, NEW append \in BOOLEAN, Dtext(row, text, append)
  PROVE  ScreenInv' /\ host'.pixels = host.pixels /\ host'.dirty = host.dirty
         /\ host'.shown = host.shown
<1>1. CASE row \in TextRow
  <2> DEFINE rows == [screen.rows EXCEPT ![row] = (IF append THEN @ ELSE << >>) \o <<text>>]
  <2>1. screen.rows = host.rows
    BY DEF ScreenInv
  <2>2. screen' = [screen EXCEPT !.rows = rows, !.dirty = TRUE]
    BY <1>1 DEF Dtext, ScreenInv, ScreenFields
  <2>3. host' = [host EXCEPT !.rows = rows, !.rowsDirty = TRUE]
    BY <1>1, <2>1 DEF Dtext, ScreenInv, HostFields
  <2> QED
    BY <2>2, <2>3, RowsIs
<1>2. CASE row \notin TextRow
  BY <1>2 DEF Dtext, ScreenInv, ScreenFields, HostFields
<1> QED
  BY <1>1, <1>2

LEMMA ScreenShown ==
  ASSUME ScreenInv, Shown
  PROVE  ScreenInv'
<1>1. \E shown :
        host' = [pixels |-> host.pixels, dirty |-> FALSE, shown |-> shown,
                 rows |-> host.rows, rowsDirty |-> FALSE,
                 drawn |-> IF host.rowsDirty THEN host.rows ELSE host.drawn]
  BY DEF Shown, ScreenInv, HostFields
<1>2. HostFields' /\ host'.rows = host.rows /\ host'.rowsDirty = FALSE
      /\ host'.drawn = host.rows
  BY <1>1 DEF ScreenInv, HostFields
<1>3. CASE screen' = screen /\ (screen.dirty = TRUE => screen.up = FALSE)
  BY <1>2, <1>3 DEF ScreenInv, ScreenFields
<1>4. CASE screen' = [screen EXCEPT !.up = TRUE, !.dirty = FALSE, !.drawn = screen.rows]
  <2>1. screen' = [up |-> TRUE, rows |-> screen.rows, dirty |-> FALSE, drawn |-> screen.rows]
    BY <1>4 DEF ScreenInv, ScreenFields
  <2> QED
    BY <1>2, <2>1 DEF ScreenInv, ScreenFields
<1>5. \/ screen' = screen /\ (screen.dirty = TRUE => screen.up = FALSE)
      \/ screen' = [screen EXCEPT !.up = TRUE, !.dirty = FALSE, !.drawn = screen.rows]
  <2>1. screen.up \in BOOLEAN /\ screen.dirty \in BOOLEAN
    BY DEF ScreenInv
  <2> QED
    BY <2>1 DEF Shown
<1> QED
  BY <1>3, <1>4, <1>5

PanelInv == StripInv /\ ScreenInv

LEMMA PanelStep == PanelInv /\ [Next]_vars => PanelInv'
<1> SUFFICES ASSUME PanelInv, [Next]_vars PROVE PanelInv'
  OBVIOUS
<1>0. StripInv /\ ScreenInv /\ -1 \in Int /\ StripMax \in Nat
      /\ Counts \subseteq Int /\ Colours \subseteq Nat
  BY PanelsAssumption DEF PanelInv
<1>1. ASSUME NEW n \in Counts, Pixn(n) PROVE PanelInv'
  <2>1. n \in Int
    BY <1>0
  <2>2. ScreenInv'
    BY <1>0, <1>1 DEF Pixn, ScreenInv, ScreenFields, HostFields
  <2> QED
    BY <1>0, <1>1, <2>1, <2>2, PixnIs DEF PanelInv
<1>2. ASSUME NEW i \in -2 .. StripMax, NEW colour \in Colours, Pix(i, colour) PROVE PanelInv'
  <2>1. i \in Int /\ colour \in Nat
    BY <1>0
  <2>2. ScreenInv'
    BY <1>0, <1>2 DEF Pix, ScreenInv, ScreenFields, HostFields
  <2> QED
    BY <1>0, <1>2, <2>1, <2>2, PixIs DEF PanelInv
<1>3. CASE Shown
  BY <1>0, <1>3, StripShown, ScreenShown DEF PanelInv
<1>4. ASSUME ScreenInv', UNCHANGED strip, host'.pixels = host.pixels,
             host'.dirty = host.dirty, host'.shown = host.shown
      PROVE  PanelInv'
  BY <1>0, <1>4 DEF PanelInv, StripInv, StripType, ScreenInv
<1>5. CASE Dclr
  BY <1>0, <1>4, <1>5, RowsIs DEF Dclr
<1>6. ASSUME NEW row, NEW text, Dtext(row, text, text = "number") PROVE PanelInv'
  <2>1. (text = "number") \in BOOLEAN /\ UNCHANGED strip
    BY <1>6 DEF Dtext
  <2> QED
    BY <1>0, <1>4, <1>6, <2>1, DtextIs
<1>7. CASE UNCHANGED panels
  BY <1>0, <1>7 DEF panels, PanelInv, StripInv, StripType, ScreenInv, ScreenFields, HostFields
<1> QED
  BY <1>1, <1>2, <1>3, <1>5, <1>6, <1>7
     DEF Next, vars, parts, VoiceTick, EdgeTick, EyeTick, SeePolls, EyePollsOn, NpuThread,
         EyeOnly, See, Wants, TickPauses, Moves, Detects, Sensed, Drawn, StripStep, ScreenStep

(* What the host's strip and screen show is what the board's show, colours *)
(* to 24 bits and dark past the program's pixels (pixelsShow, displayShow  *)
(* in zephyr/src/hal_zephyr.cpp and host/hal_host.cpp).                    *)
THEOREM HostShowsBoard == Spec => []ShownAsOnHost
<1>1. Init => PanelInv
  <2> SUFFICES ASSUME Init PROVE PanelInv
    OBVIOUS
  <2>1. PICK ready \in BOOLEAN : PanelsInit(ready)
    BY DEF Init
  <2>2. StripMax \in Nat /\ Dark \in [Index -> Nat] /\ \A i \in Index : Dark[i] = 0
    BY PanelsAssumption DEF Dark
  <2>3. host.pixels = << >> /\ DOMAIN host.pixels = {} /\ 1 .. 0 = {}
    BY <2>1 DEF PanelsInit
  <2>4. host.pixels \in [1 .. 0 -> Nat]
    BY <2>3
  <2>5. HostFields /\ ScreenFields
    BY <2>1 DEF PanelsInit, HostFields, ScreenFields
  <2>6. StripType
    BY <2>1, <2>2, <2>4 DEF PanelsInit, StripType
  <2>7. StripInv
    BY <2>1, <2>2, <2>3, <2>5, <2>6 DEF PanelsInit, StripInv, Same
  <2>8. ScreenInv
    BY <2>1, <2>5 DEF PanelsInit, ScreenInv
  <2> QED
    BY <2>7, <2>8 DEF PanelInv
<1>2. PanelInv => ShownAsOnHost
  BY DEF PanelInv, StripInv, StripType, ScreenInv, Same, ShownAsOnHost
<1> QED
  BY <1>1, <1>2, PanelStep, PTL DEF Spec
-----------------------------------------------------------------------------
(* The colours of the detector and its report, pixel by pixel.             *)
LEMMA HueIs ==
  ASSUME NEW p \in Level \X Level \X Level, ~TooDark(p), ~TooGrey(p)
  PROVE  /\ Spread(p) \in Nat /\ Spread(p) > 0
         /\ Hue(p) \in Nat /\ Hue(p) < 360 * Spread(p)
<1>1. PICK r \in 0 .. 255, g \in 0 .. 255, b \in 0 .. 255 :
        p[1] = r /\ p[2] = g /\ p[3] = b
  BY DEF Level
<1> DEFINE low == Small(Small(p[1], p[2]), p[3])
<1>2. /\ Brightest(p) \in {r, g, b}
      /\ r <= Brightest(p) /\ g <= Brightest(p) /\ b <= Brightest(p)
  BY <1>1 DEF Brightest, Great
<1>3. low \in {r, g, b} /\ low <= r /\ low <= g /\ low <= b /\ Spread(p) = Brightest(p) - low
  BY <1>1 DEF Small, Spread
<1> HIDE DEF low
<1>4. Brightest(p) \in 0 .. 255 /\ low \in 0 .. 255
  BY <1>2, <1>3
<1>5. 100 * Brightest(p) >= 13 * 255 /\ 100 * Spread(p) >= 28 * Brightest(p)
  BY <1>3, <1>4 DEF TooDark, TooGrey
<1>6. /\ Brightest(p) > 0 /\ Spread(p) \in Nat /\ Spread(p) > 0
      /\ r - g <= Spread(p) /\ r - b <= Spread(p) /\ g - r <= Spread(p)
      /\ g - b <= Spread(p) /\ b - r <= Spread(p) /\ b - g <= Spread(p)
  BY <1>1, <1>2, <1>3, <1>4, <1>5
<1> DEFINE d == Spread(p)
           h == IF Brightest(p) = p[1] THEN 60 * (p[2] - p[3])
                ELSE IF Brightest(p) = p[2] THEN 60 * (p[3] - p[1]) + 120 * d
                ELSE 60 * (p[1] - p[2]) + 240 * d
<1>7. Hue(p) = IF h < 0 THEN h + 360 * d ELSE h
  BY DEF Hue
<1>8. h \in Int /\ -60 * d <= h /\ h < 360 * d
  BY <1>1, <1>2, <1>6
<1> HIDE DEF h
<1> QED
  BY <1>6, <1>7, <1>8

LEMMA SomeColor ==
  ASSUME NEW p \in Level \X Level \X Level, ~TooDark(p), ~TooGrey(p)
  PROVE  Colors(p) = {} <=> Violet(p)
<1> DEFINE d == Spread(p)
           h == Hue(p)
<1>1. d \in Nat /\ d > 0 /\ h \in Nat /\ h < 360 * d
  BY HueIs
<1>2. Colors(p) = {} <=>
        ~ (\/ 40 * d <= h /\ h < 80 * d
           \/ 0 * d <= h /\ h < 20 * d
           \/ 80 * d <= h /\ h < 175 * d
           \/ 175 * d <= h /\ h < 255 * d
           \/ 20 * d <= h /\ h < 40 * d
           \/ 285 * d <= h /\ h < 345 * d
           \/ 345 * d <= h /\ h < 361 * d)
  <2> DEFINE In(c) == Within(p, Bands[c][1], Bands[c][2])
  <2>1. Colors(p) = {} <=> (\A c \in DOMAIN Bands : ~In(c)) /\ ~Within(p, 345, 361)
    BY DEF Colors
  <2>2. DOMAIN Bands = {"yellow", "red", "green", "blue", "orange", "pink"}
    BY DEF Bands
  <2>3. /\ In("yellow") <=> 40 * d <= h /\ h < 80 * d
        /\ In("red") <=> 0 * d <= h /\ h < 20 * d
        /\ In("green") <=> 80 * d <= h /\ h < 175 * d
        /\ In("blue") <=> 175 * d <= h /\ h < 255 * d
        /\ In("orange") <=> 20 * d <= h /\ h < 40 * d
        /\ In("pink") <=> 285 * d <= h /\ h < 345 * d
        /\ Within(p, 345, 361) <=> 345 * d <= h /\ h < 361 * d
    BY DEF Bands, Within
  <2> HIDE DEF In, d, h
  <2>4. (\A c \in DOMAIN Bands : ~In(c)) <=>
          ~ (In("yellow") \/ In("red") \/ In("green") \/ In("blue") \/ In("orange") \/ In("pink"))
    BY <2>2
  <2> QED
    BY <2>1, <2>3, <2>4
<1>3. Violet(p) <=> 255 * d <= h /\ h < 285 * d
  BY DEF Violet, Within
<1> HIDE DEF d, h
<1> QED
  BY <1>1, <1>2, <1>3

LEMMA ColorIs ==
  ASSUME NEW p \in Level \X Level \X Level
  PROVE  CountedByStats(p) <=> ColorOf(p) # NoColor
<1>1. CASE TooDark(p) \/ TooGrey(p)
  BY <1>1 DEF CountedByStats, ColorOf
<1>2. CASE ~TooDark(p) /\ ~TooGrey(p) /\ Violet(p)
  BY <1>2, SomeColor DEF CountedByStats, ColorOf
<1>3. CASE ~TooDark(p) /\ ~TooGrey(p) /\ ~Violet(p)
  <2>1. Colors(p) # {} /\ NoColor \notin Colors(p)
    BY <1>3, SomeColor DEF Colors, Bands, NoColor
  <2> QED
    BY <1>3, <2>1 DEF CountedByStats, ColorOf
<1> QED
  BY <1>1, <1>2, <1>3

(* What the CAM report counts as coloured is what the detector sees a      *)
(* colour in: the bands of the two copies leave the same violet out        *)
(* (color_detect.c).                                                       *)
THEOREM ReportAgrees == Spec => []StatsAgree
<1>1. Init => StatsAgree
  <2> SUFFICES ASSUME Init PROVE StatsAgree
    OBVIOUS
  <2>1. PICK f \in Frames \cup {Blank} : ColorInit(f)
    BY DEF Init
  <2>2. f.px \in [Indices(f) -> Level \X Level \X Level]
    <3>1. Blank.px \in [Indices(Blank) -> Level \X Level \X Level]
      BY DEF Blank, Indices, Size, Level
    <3> QED
      BY <3>1, FramesAssumption
  <2>3. frame = f /\ mask = [i \in Indices(f) |-> ColorOf(f.px[i])]
    BY <2>1 DEF ColorInit
  <2> QED
    BY <2>2, <2>3, ColorIs DEF StatsAgree
<1>2. StatsAgree /\ [Next]_vars => StatsAgree'
  <2>1. [Next]_vars => UNCHANGED <<frame, mask>>
    BY DEF Next, vars, colors, VoiceTick, EdgeTick, EyeTick, SeePolls, EyePollsOn, NpuThread,
           EyeOnly, See, Wants, TickPauses, Moves, Detects, Detect, Pop, Judge, Answer, Sensed,
           Drawn
  <2> QED
    BY <2>1 DEF StatsAgree, Indices, Size
<1> QED
  BY <1>1, <1>2, PTL DEF Spec
=============================================================================
