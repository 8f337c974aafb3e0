----------------------------- MODULE CameraProofs -----------------------------
(***************************************************************************)
(* Proofs about Camera, for every size of a frame, of the two chunks and   *)
(* of the FIFO, and every set of classes and places.                       *)
(***************************************************************************)
EXTENDS Camera, TLAPS

USE CameraAssumption

(* The average lies between the old value and the new one ...              *)
LEMMA EmaHull ==
  ASSUME NEW l \in Nat, NEW h \in Nat, NEW old \in l .. h, NEW new \in l .. h
  PROVE  Ema(old, new) \in l .. h
  BY DEF Ema

(* ... and stops short of a steady target: what it settles on is 1 below   *)
(* to 2 above the true position, never nearer by itself.                   *)
THEOREM EmaSettles ==
  ASSUME NEW old \in Nat, NEW new \in Nat
  PROVE  Ema(old, new) = old <=> old \in new - 1 .. new + 2
  BY DEF Ema

CamType ==
  cam \in [state : {"uninit", "failed", "idle", "capturing", "reading"},
           fifo : Nat, given : 0 .. Pixels, waited : 0 .. Timeout + 1]
SvcType(s) ==
  s \in [have : 0 .. Pixels - 1, confirmed : Classes,
         lastRaw : Classes \cup {NoVerdict}, ema : BOOLEAN, x : Nat, size : Nat]

LEMMA WantType ==
  ASSUME CamType, NEW max \in Nat
  PROVE  Want(max) <= max /\ Want(max) <= Pixels - cam.given /\ Want(max) \in Int
  BY DEF CamType, Want, Least

(* One poll of the driver hands over no more than it is asked for, and its *)
(* count of the frame follows unless it drops the frame.                   *)
LEMMA CaptureStep ==
  ASSUME CamType, NEW max \in Nat, NEW k \in 0 .. Pixels, CaptureRgb(max, k)
  PROVE  /\ CamType' /\ k <= max
         /\ \/ /\ cam.state = "reading" /\ k > 0
               /\ cam.given + k <= Pixels
               /\ IF cam.given + k = Pixels THEN cam'.state = "idle"
                  ELSE cam'.state = "reading" /\ cam'.given = cam.given + k
            \/ /\ k = 0 /\ cam.state = "reading" /\ cam'.state = "idle"
            \/ /\ k = 0 /\ cam.state # "reading"
               /\ cam'.state = "reading" => cam'.given = 0
<1>1. CASE k = 0 /\ (Idles \/ SetsUp \/ Fails)
  BY <1>1 DEF Idles, SetsUp, Fails, To, StartCapture, CamType
<1>2. CASE k = 0 /\ Exposes
  BY <1>2 DEF Exposes, To, CamType
<1>3. CASE k = 0 /\ Ready
  BY <1>3 DEF Ready, To, CamType
<1>4. CASE k = 0 /\ Drops
  BY <1>4 DEF Drops, To, CamType
<1>5. CASE Reads(max, k)
  <2>1. k <= max /\ k <= Pixels - cam.given /\ k <= cam.fifo
    BY <1>5, WantType DEF Reads, Want, Least, CamType
  <2>2. CASE cam.given + k >= Pixels
    <3>1. cam.given + k = Pixels
      BY <2>1, <2>2 DEF CamType
    <3> QED
      BY <1>5, <2>1, <2>2, <3>1 DEF Reads, To, CamType
  <2>3. CASE ~(cam.given + k >= Pixels)
    <3>1. /\ cam.given + k \in 0 .. Pixels /\ cam.given + k < Pixels
          /\ cam.fifo - k \in Nat
      BY <2>1, <2>3 DEF CamType
    <3>2. cam' = [cam EXCEPT !.fifo = @ - k, !.given = @ + k]
      BY <1>5, <2>3 DEF Reads
    <3>3. CamType' /\ cam'.state = "reading" /\ cam'.given = cam.given + k
      BY <1>5, <3>1, <3>2 DEF CamType, Reads
    <3> QED
      BY <1>5, <2>1, <3>1, <3>3 DEF Reads
  <2> QED
    BY <2>2, <2>3
<1> QED
  BY <1>1, <1>2, <1>3, <1>4, <1>5 DEF CaptureRgb
-----------------------------------------------------------------------------
(* What the history says of a state of the service.                        *)
Sight(s) ==
  /\ s.lastRaw # NoVerdict => s.confirmed \in twice \cup {first}
  /\ s.ema => s.x \in lo .. hi
HistoryType == /\ first \in Classes \cup {NoVerdict} /\ twice \subseteq Classes
               /\ lo \in Nat /\ hi \in Nat
FlagsType ==
  /\ wanted \in BOOLEAN /\ running \in BOOLEAN /\ bench \in 0 .. SeePolls
  /\ seen \in [cls : Classes, x : Nat, size : Nat]
  /\ disturbed \in BOOLEAN

CameraInv == /\ CamType /\ SvcType(svc) /\ HistoryType /\ FlagsType
             /\ Sight(svc) /\ CountsInStep

LEMMA ResetType == SvcType(ResetService) /\ Sight(ResetService)
  BY DEF SvcType, ResetService, Sight, NoVerdict

LEMMA ConfirmedType ==
  ASSUME NEW s, SvcType(s), NEW raw \in Classes
  PROVE  /\ SvcType(Confirmed(s, raw))
         /\ Confirmed(s, raw).have = 0 /\ Confirmed(s, raw).lastRaw = raw
         /\ Confirmed(s, raw).confirmed =
              IF s.lastRaw < 0 \/ raw = s.lastRaw THEN raw ELSE s.confirmed
         /\ Confirmed(s, raw).ema = s.ema /\ Confirmed(s, raw).x = s.x
<1> DEFINE c == IF s.lastRaw < 0 \/ raw = s.lastRaw THEN raw ELSE s.confirmed
<1>1. c \in Classes
  BY DEF SvcType
<1>2. Confirmed(s, raw) = [s EXCEPT !.have = 0, !.confirmed = c, !.lastRaw = raw]
  BY DEF Confirmed, SvcType
<1> HIDE DEF c
<1>3. 0 \in 0 .. Pixels - 1 /\ raw \in Classes \cup {NoVerdict}
  OBVIOUS
<1>4. SvcType([s EXCEPT !.have = 0, !.confirmed = c, !.lastRaw = raw])
  BY <1>1, <1>3, Zenon DEF SvcType
<1> QED
  BY <1>1, <1>2, <1>4 DEF c, SvcType

LEMMA EmaType ==
  ASSUME NEW old \in Nat, NEW new \in Nat
  PROVE  Ema(old, new) \in Nat
  BY DEF Ema

LEMMA GeometryType ==
  ASSUME NEW s, SvcType(s), NEW raw \in Classes, NEW place \in Places
  PROVE  LET g == Geometry(s, raw, place)
             sample == raw = s.confirmed /\ s.confirmed # 0
         IN  /\ SvcType(g)
             /\ g.have = s.have /\ g.lastRaw = s.lastRaw /\ g.confirmed = s.confirmed
             /\ sample => g.x = IF s.ema THEN Ema(s.x, place[1]) ELSE place[1]
             /\ ~sample /\ g.ema => s.ema /\ g.x = s.x
<1>1. place[1] \in Nat /\ place[2] \in Nat
  OBVIOUS
<1>2. Ema(s.x, place[1]) \in Nat /\ Ema(s.size, place[2]) \in Nat
  BY <1>1, EmaType DEF SvcType
<1>3. CASE raw = s.confirmed /\ s.confirmed # 0 /\ s.ema
  BY <1>1, <1>2, <1>3 DEF Geometry, SvcType
<1>4. CASE raw = s.confirmed /\ s.confirmed # 0 /\ ~s.ema
  BY <1>1, <1>4 DEF Geometry, SvcType
<1>5. CASE ~(raw = s.confirmed /\ s.confirmed # 0)
  BY <1>5 DEF Geometry, SvcType
<1> QED
  BY <1>3, <1>4, <1>5

(* A poll from a state of the service the history vouches for.             *)
LEMMA PollStep ==
  ASSUME CameraInv, NEW s, s \in {svc, ResetService}, NEW answers \in BOOLEAN,
         Poll(s, answers)
  PROVE  /\ CamType' /\ SvcType(svc)' /\ HistoryType' /\ Sight(svc)'
         /\ CountsInStep' /\ disturbed' \in BOOLEAN
<1>1. SvcType(s) /\ Sight(s)
  BY ResetType DEF CameraInv
<1> DEFINE max == Least(Pixels - s.have, ServiceChunk)
<1>2. max \in Nat /\ max <= Pixels - s.have /\ s.have \in 0 .. Pixels - 1
  BY <1>1 DEF SvcType, Least
<1> HIDE DEF max
<1>3. PICK k \in 0 .. Pixels :
        /\ CaptureRgb(max, k)
        /\ answers = (s.have + k = Pixels)
        /\ IF answers
           THEN \E raw \in Classes, place \in Places :
                  /\ svc' = Geometry(Confirmed(s, raw), raw, place)
                  /\ Remember(s, raw, place[1])
           ELSE svc' = [s EXCEPT !.have = @ + k] /\ UNCHANGED sights
        /\ disturbed' = (disturbed \/ (MidFrame /\ (k = 0 \/ s # svc)))
  BY DEF Poll, max
<1>4. /\ CamType' /\ k <= max
      /\ \/ /\ cam.state = "reading" /\ k > 0
            /\ cam.given + k <= Pixels
            /\ IF cam.given + k = Pixels THEN cam'.state = "idle"
               ELSE cam'.state = "reading" /\ cam'.given = cam.given + k
         \/ /\ k = 0 /\ cam.state = "reading" /\ cam'.state = "idle"
         \/ /\ k = 0 /\ cam.state # "reading"
            /\ cam'.state = "reading" => cam'.given = 0
  BY <1>2, <1>3, CaptureStep DEF CameraInv
<1>5. s.have + k <= Pixels /\ (~answers => s.have + k < Pixels)
  <2>1. k <= max
    BY <1>4
  <2>2. s.have + k <= Pixels
    BY <1>2, <2>1
  <2>3. ~answers => s.have + k # Pixels
    BY <1>3, Zenon
  <2>4. s.have + k # Pixels => s.have + k < Pixels
    BY <1>2, <2>2
  <2> QED
    BY <2>2, <2>3, <2>4, Zenon
<1>6. /\ SvcType(svc)' /\ HistoryType' /\ Sight(svc)'
      /\ svc'.have = IF answers THEN 0 ELSE s.have + k
  <2>1. CASE answers
    <3>1. PICK raw \in Classes, place \in Places :
            /\ svc' = Geometry(Confirmed(s, raw), raw, place)
            /\ Remember(s, raw, place[1])
      BY <1>3, <2>1
    <3> DEFINE c == Confirmed(s, raw)
               sample == raw # 0 /\ raw = c.confirmed
    <3>2. /\ SvcType(c) /\ c.have = 0 /\ c.lastRaw = raw
          /\ c.confirmed = IF s.lastRaw < 0 \/ raw = s.lastRaw THEN raw ELSE s.confirmed
          /\ c.ema = s.ema /\ c.x = s.x
      BY <1>1, ConfirmedType
    <3> HIDE DEF c
    <3>3. /\ SvcType(svc') /\ svc'.have = 0 /\ svc'.lastRaw = raw
          /\ svc'.confirmed = c.confirmed
          /\ sample => svc'.x = IF s.ema THEN Ema(s.x, place[1]) ELSE place[1]
          /\ ~sample /\ svc'.ema => s.ema /\ svc'.x = s.x
      <4>1. svc' = Geometry(c, raw, place)
        BY <3>1 DEF c
      <4>2. LET g == Geometry(c, raw, place)
                again == raw = c.confirmed /\ c.confirmed # 0
            IN  /\ SvcType(g)
                /\ g.have = c.have /\ g.lastRaw = c.lastRaw /\ g.confirmed = c.confirmed
                /\ again => g.x = IF c.ema THEN Ema(c.x, place[1]) ELSE place[1]
                /\ ~again /\ g.ema => c.ema /\ g.x = c.x
        <5> HIDE DEF sample
        <5>1. SvcType(c)
          BY <3>2
        <5> QED
          BY <5>1, GeometryType
      <4>3. sample <=> (raw = c.confirmed /\ c.confirmed # 0)
        OBVIOUS
      <4> HIDE DEF sample
      <4> QED
        BY <3>2, <4>1, <4>2, <4>3
    <3>4. place[1] \in Nat
      OBVIOUS
    <3>5. /\ first' = IF s.lastRaw < 0 THEN raw ELSE first
          /\ twice' = (IF s.lastRaw < 0 THEN {} ELSE twice)
                        \cup (IF raw = s.lastRaw THEN {raw} ELSE {})
          /\ lo' = IF sample /\ (~s.ema \/ place[1] < lo) THEN place[1] ELSE lo
          /\ hi' = IF sample /\ (~s.ema \/ place[1] > hi) THEN place[1] ELSE hi
      BY <3>1 DEF Remember, c
    <3>6. HistoryType'
      BY <3>4, <3>5 DEF HistoryType, CameraInv
    <3>7. s.lastRaw < 0 <=> s.lastRaw = NoVerdict
      <4>1. s.lastRaw \in Classes \cup {NoVerdict}
        BY <1>1 DEF SvcType
      <4>2. \A n \in Classes : ~(n < 0) /\ n # NoVerdict
        BY DEF NoVerdict
      <4>3. NoVerdict < 0
        BY DEF NoVerdict
      <4> QED
        BY <4>1, <4>2, <4>3, Zenon
    <3>8. svc'.confirmed \in twice' \cup {first'}
      BY <1>1, <3>2, <3>3, <3>5, <3>7 DEF Sight
    <3>9. svc'.ema => svc'.x \in lo' .. hi'
      <4>1. CASE sample /\ s.ema
        <5>1. /\ lo' \in Nat /\ hi' \in Nat /\ lo' <= lo /\ hi <= hi'
              /\ place[1] \in lo' .. hi' /\ s.x \in lo .. hi
          BY <1>1, <3>4, <3>5, <4>1 DEF HistoryType, CameraInv, Sight
        <5>2. s.x \in lo' .. hi'
          BY <5>1 DEF HistoryType, CameraInv
        <5>3. Ema(s.x, place[1]) \in lo' .. hi'
          BY <5>1, <5>2, EmaHull
        <5> QED
          BY <3>3, <4>1, <5>3
      <4>2. CASE sample /\ ~s.ema
        BY <3>3, <3>4, <3>5, <4>2
      <4>3. CASE ~sample
        BY <1>1, <3>3, <3>5, <4>3 DEF Sight
      <4> QED
        BY <4>1, <4>2, <4>3
    <3> QED
      BY <2>1, <3>3, <3>6, <3>8, <3>9 DEF SvcType, Sight
  <2>2. CASE ~answers
    <3>1. svc' = [s EXCEPT !.have = @ + k] /\ UNCHANGED sights
      BY <1>3, <2>2
    <3>2. s.have + k \in 0 .. Pixels - 1
      BY <1>2, <1>5, <2>2
    <3> QED
      BY <1>1, <2>2, <3>1, <3>2 DEF SvcType, Sight, HistoryType, sights, CameraInv
  <2> QED
    BY <2>1, <2>2
<1>7. disturbed' \in BOOLEAN
  BY <1>3 DEF CameraInv, FlagsType
<1>8. CountsInStep'
  <2> SUFFICES ASSUME ~disturbed'
               PROVE  svc'.have = IF cam'.state = "reading" THEN cam'.given ELSE 0
    BY DEF CountsInStep
  <2>1. ~disturbed /\ ~(MidFrame /\ k = 0) /\ ~(MidFrame /\ s # svc)
    BY <1>3
  <2>2. svc.have = IF cam.state = "reading" THEN cam.given ELSE 0
    BY <2>1 DEF CameraInv, CountsInStep
  <2>3. s.have = IF cam.state = "reading" THEN cam.given ELSE 0
    <3>1. CASE s = svc
      BY <2>2, <3>1
    <3>2. CASE s # svc
      <4>1. s.have = 0
        BY <3>2 DEF ResetService
      <4> QED
        BY <2>1, <3>2, <4>1 DEF MidFrame, CameraInv, CamType
    <3> QED
      BY <3>1, <3>2
  <2>4. cam.given \in 0 .. Pixels
    BY DEF CameraInv, CamType
  <2>5. answers => s.have + k = Pixels
    BY <1>3, Zenon
  <2>6. svc'.have = IF answers THEN 0 ELSE s.have + k
    BY <1>6
  <2>7. CASE /\ cam.state = "reading" /\ k > 0
             /\ IF cam.given + k = Pixels THEN cam'.state = "idle"
                ELSE cam'.state = "reading" /\ cam'.given = cam.given + k
    <3>1. s.have + k = cam.given + k
      BY <2>3, <2>7
    <3>2. CASE answers
      BY <2>5, <2>6, <2>7, <3>1, <3>2
    <3>3. CASE ~answers
      <4>1. cam.given + k # Pixels
        BY <1>5, <2>4, <3>1, <3>3
      <4> QED
        BY <2>6, <2>7, <3>1, <3>3, <4>1
    <3> QED
      BY <3>2, <3>3
  <2>8. CASE k = 0 /\ cam.state = "reading" /\ cam'.state = "idle"
    <3>1. cam.given = 0
      BY <2>1, <2>4, <2>8 DEF MidFrame
    <3>2. ~answers /\ s.have + k = 0
      BY <2>3, <2>5, <2>8, <3>1
    <3> QED
      BY <2>6, <2>8, <3>2
  <2>9. CASE /\ k = 0 /\ cam.state # "reading"
             /\ cam'.state = "reading" => cam'.given = 0
    <3>1. ~answers /\ s.have + k = 0
      BY <2>3, <2>5, <2>9
    <3> QED
      BY <2>6, <2>9, <3>1
  <2> QED
    BY <1>4, <2>7, <2>8, <2>9
<1> QED
  BY <1>4, <1>6, <1>7, <1>8
-----------------------------------------------------------------------------
LEMMA CameraInit == Init => CameraInv
<1> SUFFICES ASSUME Init
             PROVE  CameraInv
  OBVIOUS
<1>1. CamType
  BY DEF Init, To, CamType
<1>2. SvcType(svc) /\ Sight(svc)
  BY ResetType DEF Init
<1>3. HistoryType
  BY DEF Init, HistoryType
<1>4. 0 \in 0 .. SeePolls /\ 0 \in Classes /\ 0 \in Nat
  OBVIOUS
<1>5. FlagsType
  BY <1>4, Zenon DEF Init, FlagsType
<1>6. CountsInStep
  BY DEF Init, To, ResetService, CountsInStep
<1> QED
  BY <1>1, <1>2, <1>3, <1>5, <1>6 DEF CameraInv

(* A service or a driver that is set back is counted as a disturbance when *)
(* a frame is half read.                                                   *)
LEMMA ResetStep ==
  ASSUME CameraInv, svc' = ResetService, UNCHANGED <<cam, sights>>,
         disturbed' = (disturbed \/ MidFrame)
  PROVE  /\ CamType' /\ SvcType(svc)' /\ HistoryType' /\ Sight(svc)'
         /\ CountsInStep' /\ disturbed' \in BOOLEAN
<1>1. CamType' /\ HistoryType'
  BY DEF CameraInv, CamType, HistoryType, sights
<1>2. SvcType(svc') /\ svc'.lastRaw = NoVerdict /\ ~svc'.ema /\ svc'.have = 0
  BY ResetType DEF ResetService
<1>3. disturbed' \in BOOLEAN
  BY DEF CameraInv, FlagsType
<1>4. ~disturbed' => (cam.state = "reading" => cam.given = 0)
  <2>1. cam.given \in 0 .. Pixels
    BY DEF CameraInv, CamType
  <2>2. ~disturbed' => ~MidFrame
    BY Zenon
  <2> QED
    BY <2>1, <2>2 DEF MidFrame
<1>5. CountsInStep'
  BY <1>2, <1>4 DEF CountsInStep
<1> QED
  BY <1>1, <1>2, <1>3, <1>5 DEF SvcType, Sight

LEMMA CamStep ==
  ASSUME CameraInv, Cam
  PROVE  CameraInv'
<1>1. cam' \in {To("failed"), To("idle")}
  BY DEF Cam
<1>2. CamType' /\ cam'.state # "reading"
  BY <1>1 DEF To, CamType
<1>3. disturbed' = (disturbed \/ MidFrame)
      /\ UNCHANGED <<svc, wanted, running, bench, seen, sights>>
  BY DEF Cam
<1>4. FlagsType' /\ HistoryType' /\ SvcType(svc)' /\ Sight(svc)'
  BY <1>3 DEF CameraInv, FlagsType, HistoryType, SvcType, Sight, sights
<1>5. ~disturbed' => svc'.have = 0
  <2>1. cam.given \in 0 .. Pixels
    BY DEF CameraInv, CamType
  <2>2. ~disturbed' => ~disturbed /\ ~MidFrame /\ svc' = svc
    BY <1>3, Zenon
  <2>3. ~disturbed => svc.have = IF cam.state = "reading" THEN cam.given ELSE 0
    BY DEF CameraInv, CountsInStep
  <2> QED
    BY <2>1, <2>2, <2>3 DEF MidFrame
<1> QED
  BY <1>2, <1>4, <1>5 DEF CameraInv, CountsInStep

LEMMA TickStep ==
  ASSUME CameraInv, Tick
  PROVE  CameraInv'
<1>1. UNCHANGED <<wanted, bench>>
  BY DEF Tick
<1>2. CASE wanted
  <2>1. PICK answers \in BOOLEAN :
          /\ Poll(IF running THEN svc ELSE ResetService, answers)
          /\ running' = TRUE
          /\ seen' = IF answers
                     THEN [cls |-> svc'.confirmed, x |-> svc'.x, size |-> svc'.size]
                     ELSE seen
    BY <1>2 DEF Tick
  <2>2. /\ CamType' /\ SvcType(svc)' /\ HistoryType' /\ Sight(svc)'
        /\ CountsInStep' /\ disturbed' \in BOOLEAN
    <3>1. CASE running
      BY <2>1, <3>1, PollStep
    <3>2. CASE ~running
      BY <2>1, <3>2, PollStep
    <3> QED
      BY <3>1, <3>2
  <2>3. seen' \in [cls : Classes, x : Nat, size : Nat]
    BY <2>1, <2>2 DEF SvcType, CameraInv, FlagsType
  <2> QED
    BY <1>1, <2>1, <2>2, <2>3 DEF CameraInv, FlagsType
<1>3. CASE ~wanted
  BY <1>1, <1>3 DEF Tick, CameraInv, CamType, SvcType, HistoryType, FlagsType, Sight,
     CountsInStep, sights
<1> QED
  BY <1>2, <1>3

LEMMA BenchStep ==
  ASSUME CameraInv, See \/ SeePoll
  PROVE  CameraInv'
<1>1. bench' \in 0 .. SeePolls
  <2>1. SeePolls \in Nat /\ bench \in 0 .. SeePolls
    BY DEF CameraInv, FlagsType
  <2> QED
    BY <2>1 DEF See, SeePoll
<1>2. UNCHANGED <<wanted, running, seen>>
  BY DEF See, SeePoll
<1>3. /\ CamType' /\ SvcType(svc)' /\ HistoryType' /\ Sight(svc)'
      /\ CountsInStep' /\ disturbed' \in BOOLEAN
  <2>1. CASE See
    BY <2>1, ResetStep DEF See
  <2>2. CASE SeePoll
    BY <2>2, PollStep DEF SeePoll
  <2> QED
    BY <2>1, <2>2
<1> QED
  BY <1>1, <1>2, <1>3 DEF CameraInv, FlagsType

LEMMA CameraStep == CameraInv /\ [Next]_vars => CameraInv'
<1> SUFFICES ASSUME CameraInv, [Next]_vars
             PROVE  CameraInv'
  OBVIOUS
<1>1. CASE Tick
  BY <1>1, TickStep
<1>2. ASSUME NEW want \in BOOLEAN, Wants(want)
      PROVE  CameraInv'
  BY <1>2 DEF Wants, CameraInv, CamType, SvcType, HistoryType, FlagsType, Sight,
     CountsInStep, sights
<1>3. CASE See \/ SeePoll
  BY <1>3, BenchStep
<1>4. CASE Cam
  BY <1>4, CamStep
<1>5. CASE UNCHANGED vars
  BY <1>5 DEF vars, CameraInv, CamType, SvcType, HistoryType, FlagsType, Sight,
     CountsInStep, sights
<1> QED
  BY <1>1, <1>2, <1>3, <1>4, <1>5 DEF Next

LEMMA CameraAlways == Spec => []CameraInv
  BY CameraInit, CameraStep, PTL DEF Spec

LEMMA CameraParts ==
  CameraInv => TypeOK /\ ConfirmedBySight /\ PlaceWasSeen /\ CountsInStep
<1> SUFFICES ASSUME CameraInv
             PROVE  TypeOK /\ ConfirmedBySight /\ PlaceWasSeen /\ CountsInStep
  OBVIOUS
<1>1. TypeOK
  BY DEF CameraInv, TypeOK, CamType, SvcType, HistoryType, FlagsType
<1>2. ConfirmedBySight /\ CountsInStep
  BY DEF CameraInv, Sight, ConfirmedBySight
<1>3. PlaceWasSeen
  BY DEF CameraInv, Sight, PlaceWasSeen, SvcType, HistoryType
<1> QED
  BY <1>1, <1>2, <1>3

(* The state of driver, service and commands keeps its type.               *)
THEOREM CameraType == Spec => []TypeOK
  BY CameraAlways, CameraParts, PTL

(* What a program sees was the first verdict or came twice in a row.       *)
THEOREM Confirms == Spec => []ConfirmedBySight
  BY CameraAlways, CameraParts, PTL

(* The smoothed position never leaves the span of the places seen.         *)
THEOREM SeesPlaces == Spec => []PlaceWasSeen
  BY CameraAlways, CameraParts, PTL

(* Undisturbed, driver and service hold the same count of the same frame.  *)
THEOREM InStep == Spec => []CountsInStep
  BY CameraAlways, CameraParts, PTL

(* What is kept of a place is kept of a class: the answer that ends in     *)
(* "nothing" zeroes both, whatever the service held before.                *)
LEMMA NothingIsNowhere ==
  ASSUME NEW s, SvcType(s), NEW raw \in Classes, NEW place \in Places
  PROVE  LET g == Geometry(Confirmed(s, raw), raw, place)
         IN  g.confirmed = 0 => g.x = 0 /\ g.size = 0
<1> DEFINE c == Confirmed(s, raw)
<1>1. SvcType(c)
  BY ConfirmedType
<1> HIDE DEF c
<1>2. Geometry(c, raw, place).confirmed = c.confirmed
  BY <1>1, GeometryType
<1>3. CASE c.confirmed = 0
  <2>1. Geometry(c, raw, place) = [c EXCEPT !.x = 0, !.size = 0, !.ema = FALSE]
    BY <1>3 DEF Geometry
  <2> QED
    BY <1>1, <2>1 DEF SvcType, c
<1>4. CASE c.confirmed # 0
  BY <1>2, <1>4 DEF c
<1> QED
  BY <1>3, <1>4

(* A program that reads "nothing" reads neither a place nor a size.        *)
THEOREM NothingNowhere == Spec => []NothingHasNoPlace
<1>1. Init => NothingHasNoPlace
  BY DEF Init, NothingHasNoPlace
<1>2. CameraInv /\ NothingHasNoPlace /\ [Next]_vars => NothingHasNoPlace'
  <2> SUFFICES ASSUME CameraInv, NothingHasNoPlace, [Next]_vars
               PROVE  NothingHasNoPlace'
    OBVIOUS
  <2>1. CASE UNCHANGED seen
    BY <2>1 DEF NothingHasNoPlace
  <2>2. CASE Tick /\ wanted
    <3> DEFINE s == IF running THEN svc ELSE ResetService
    <3>1. PICK answers \in BOOLEAN :
            /\ Poll(s, answers)
            /\ seen' = IF answers
                       THEN [cls |-> svc'.confirmed, x |-> svc'.x, size |-> svc'.size]
                       ELSE seen
      BY <2>2 DEF Tick
    <3>2. SvcType(s)
      BY ResetType DEF CameraInv
    <3> HIDE DEF s
    <3>3. CASE answers
      <4>1. PICK raw \in Classes, place \in Places :
              svc' = Geometry(Confirmed(s, raw), raw, place)
        BY <3>1, <3>3 DEF Poll
      <4>2. svc'.confirmed = 0 => svc'.x = 0 /\ svc'.size = 0
        BY <3>2, <4>1, NothingIsNowhere
      <4> QED
        BY <3>1, <3>3, <4>2 DEF NothingHasNoPlace
    <3>4. CASE ~answers
      BY <3>1, <3>4, <2>1
    <3> QED
      BY <3>3, <3>4
  <2> QED
    BY <2>1, <2>2 DEF Next, Tick, Wants, See, SeePoll, Cam, vars
<1> QED
  BY <1>1, <1>2, CameraAlways, PTL DEF Spec
=============================================================================
