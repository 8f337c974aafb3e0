-------------------------------- MODULE Camera --------------------------------
(***************************************************************************)
(* Seeing: the Arducam driver (zephyr/src/arducam_mega.cpp) hands a frame  *)
(* over in chunks, the vision service (src/ai/vision_service.cpp) collects *)
(* a whole frame, classifies and confirms it, and runtime::tick copies the *)
(* answer to the VM's registers.  Driver and service each keep their own   *)
(* count of the frame's pixels; nothing but the polls keeps them in step.  *)
(*                                                                         *)
(* A pixel is a position in its frame: of the bytes only the count is      *)
(* kept.  What the detector says of a frame is any class with any place.   *)
(***************************************************************************)
EXTENDS Integers

CONSTANTS
  Pixels,        \* of a frame: kPixels, kFrameBytes / 3
  CameraChunk,   \* pixels the driver reads per poll (kScratch / 2)
  ServiceChunk,  \* pixels the service asks for per poll (kChunk / 3)
  FifoSizes,     \* pixels the camera may report for a frame
  Timeout,       \* polls of a capture before it is given up
  SeePolls,      \* polls a SEE command waits for its frame
  Classes,       \* what a detector may see, 0 is nothing
  Places         \* where a detector may see it: <<x, size>>

ASSUME CameraAssumption ==
  /\ Pixels \in Nat \ {0} /\ CameraChunk \in Nat \ {0} /\ ServiceChunk \in Nat \ {0}
  /\ FifoSizes \subseteq Nat \ {0} /\ Timeout \in Nat
  /\ SeePolls \in Nat \ (0 .. Timeout + 1)  \* 4 s against 1 s
  /\ Classes \subseteq Nat /\ 0 \in Classes /\ Places \subseteq Nat \X Nat

VARIABLES
  cam,      \* the driver: [state, fifo, given, waited]
  svc,      \* the service: [have, confirmed, lastRaw, ema, x, size]
  wanted,   \* visionActive
  running,  \* visionRunning
  bench,    \* polls a SEE or SNAP command has still to wait for its frame
  seen      \* the VM's registers: [cls, x, size]

(* History of what the service saw since its last reset: the first verdict,*)
(* the classes two frames in a row gave, the least and greatest position   *)
(* since the target appeared; and whether anything came between the two    *)
(* counts of a frame's pixels since power-on.                              *)
VARIABLES first, twice, lo, hi, disturbed

sights == <<first, twice, lo, hi>>
vars == <<cam, svc, wanted, running, bench, seen, sights, disturbed>>

(* The counts of a frame matter only while it is read: 0 in other states.  *)
To(state) == [state |-> state, fifo |-> 0, given |-> 0, waited |-> 0]
StartCapture == To("capturing")

NoVerdict == -1
ResetService == [have |-> 0, confirmed |-> 0, lastRaw |-> NoVerdict, ema |-> FALSE,
                 x |-> 0, size |-> 0]

Init ==
  /\ cam = To("uninit") /\ svc = ResetService
  /\ wanted = FALSE /\ running = FALSE /\ bench = 0
  /\ seen = [cls |-> 0, x |-> 0, size |-> 0]
  /\ first = NoVerdict /\ twice = {} /\ lo = 0 /\ hi = 0
  /\ disturbed = FALSE
-----------------------------------------------------------------------------
(* captureCore: one poll of the driver, which hands over k pixels.         *)
Idles == cam.state = "idle" /\ cam' = StartCapture
SetsUp == cam.state = "uninit" /\ cam' \in {StartCapture, To("failed")}
Fails == cam.state = "failed" /\ cam' = cam

ExposesForever == cam.state = "capturing" /\ cam' = cam
ExposesOn == cam.state = "capturing" /\ cam' = [cam EXCEPT !.waited = @ + 1]
Exposes ==
  /\ cam.state = "capturing"
  /\ cam' = IF cam.waited > Timeout THEN To("idle") ELSE [cam EXCEPT !.waited = @ + 1]
(* The frame is there; one of no pixels, or whose size cannot be read, is  *)
(* given up.                                                               *)
Ready ==
  /\ cam.state = "capturing"
  /\ \/ cam' = To("idle")
     \/ \E n \in FifoSizes : cam' = [To("reading") EXCEPT !.fifo = n]

Least(m, n) == IF m < n THEN m ELSE n
Want(max) == Least(Least(Least(max, CameraChunk), cam.fifo), Pixels - cam.given)

(* The burst read fails, or the camera ran dry: the next frame.            *)
Drops ==
  /\ cam.state = "reading"
  /\ cam' = To("idle")

ReadsOn(max, k) ==
  /\ cam.state = "reading" /\ k = Want(max) /\ k > 0
  /\ cam' = IF cam.given + k > Pixels THEN To("idle")
            ELSE [cam EXCEPT !.fifo = @ - k, !.given = @ + k]

Reads(max, k) ==
  /\ cam.state = "reading" /\ k = Want(max) /\ k > 0
  /\ cam' = IF cam.given + k >= Pixels THEN To("idle")
            ELSE [cam EXCEPT !.fifo = @ - k, !.given = @ + k]

CaptureRgb(max, k) ==
  \/ k = 0 /\ (Idles \/ SetsUp \/ Fails \/ Exposes \/ Ready \/ Drops)
  \/ Reads(max, k)
-----------------------------------------------------------------------------
(* applyGeometry: exponential averages of the confirmed class's place.     *)
EmaRoundingUp(old, new) == (old * 3 + new + 4) \div 4
Ema(old, new) == (old * 3 + new + 2) \div 4

GeometryUnzeroed(s, raw, place) ==
  IF raw = s.confirmed /\ s.confirmed # 0
    THEN IF s.ema THEN [s EXCEPT !.x = Ema(@, place[1]), !.size = Ema(@, place[2])]
                  ELSE [s EXCEPT !.x = place[1], !.size = place[2], !.ema = TRUE]
  ELSE s

Geometry(s, raw, place) ==
  IF raw = s.confirmed /\ s.confirmed # 0
    THEN IF s.ema THEN [s EXCEPT !.x = Ema(@, place[1]), !.size = Ema(@, place[2])]
                  ELSE [s EXCEPT !.x = place[1], !.size = place[2], !.ema = TRUE]
  ELSE IF s.confirmed = 0 THEN [s EXCEPT !.x = 0, !.size = 0, !.ema = FALSE]
  ELSE s

(* A whole frame: two frames in a row, or the first since the reset,       *)
(* confirm a class.                                                        *)
ConfirmedOnce(s, raw) == [s EXCEPT !.have = 0, !.confirmed = raw, !.lastRaw = raw]
Confirmed(s, raw) ==
  [s EXCEPT !.have = 0,
            !.confirmed = IF s.lastRaw < 0 \/ raw = s.lastRaw THEN raw ELSE @,
            !.lastRaw = raw]

(* What the history keeps of a verdict.                                    *)
Remember(s, raw, nx) ==
  LET sample == raw # 0 /\ raw = Confirmed(s, raw).confirmed
  IN  /\ first' = IF s.lastRaw < 0 THEN raw ELSE first
      /\ twice' = (IF s.lastRaw < 0 THEN {} ELSE twice)
                    \cup (IF raw = s.lastRaw THEN {raw} ELSE {})
      /\ lo' = IF sample /\ (~s.ema \/ nx < lo) THEN nx ELSE lo
      /\ hi' = IF sample /\ (~s.ema \/ nx > hi) THEN nx ELSE hi

MidFrame == cam.state = "reading" /\ cam.given > 0

(* vision_service::poll from the service state s: it answers when the      *)
(* chunk completes a frame.                                                *)
Poll(s, answers) ==
  \E k \in 0 .. Pixels :
    /\ CaptureRgb(Least(Pixels - s.have, ServiceChunk), k)
    /\ answers = (s.have + k = Pixels)
    /\ IF answers
       THEN \E raw \in Classes, place \in Places :
              /\ svc' = Geometry(Confirmed(s, raw), raw, place)
              /\ Remember(s, raw, place[1])
       ELSE svc' = [s EXCEPT !.have = @ + k] /\ UNCHANGED sights
    /\ disturbed' = (disturbed \/ (MidFrame /\ (k = 0 \/ s # svc)))
-----------------------------------------------------------------------------
(* runtime::tick's vision part: a service that was not running starts      *)
(* from its reset; an answer goes to the registers.                        *)
Tick ==
  /\ bench = 0
  /\ IF wanted
     THEN \E answers \in BOOLEAN :
            /\ Poll(IF running THEN svc ELSE ResetService, answers)
            /\ running' = TRUE
            /\ seen' = IF answers
                       THEN [cls |-> svc'.confirmed, x |-> svc'.x, size |-> svc'.size]
                       ELSE seen
     ELSE running' = FALSE /\ UNCHANGED <<cam, svc, seen, sights, disturbed>>
  /\ UNCHANGED <<wanted, bench>>

(* INFER and AISTART of the running program; STOP.                         *)
Wants(want) ==
  /\ bench = 0 /\ wanted' = want
  /\ UNCHANGED <<cam, svc, running, bench, seen, sights, disturbed>>

(* SEE, SNAP: reset the service, poll until it answers or for 4 s.         *)
See ==
  /\ bench = 0
  /\ bench' = SeePolls /\ svc' = ResetService
  /\ disturbed' = (disturbed \/ MidFrame)
  /\ UNCHANGED <<cam, wanted, running, seen, sights>>
SeePoll ==
  /\ bench > 0
  /\ \E answers \in BOOLEAN :
       Poll(svc, answers) /\ bench' = IF answers THEN 0 ELSE bench - 1
  /\ UNCHANGED <<wanted, running, seen>>

(* CAM: a capture of its own, dropped; no camera found is found no more.   *)
Cam ==
  /\ bench = 0
  /\ cam' \in (IF cam.state \in {"uninit", "failed"} THEN {To("failed")} ELSE {})
         \cup (IF cam.state # "failed" THEN {To("idle")} ELSE {})
  /\ disturbed' = (disturbed \/ MidFrame)
  /\ UNCHANGED <<svc, wanted, running, bench, seen, sights>>

Next == Tick \/ (\E want \in BOOLEAN : Wants(want)) \/ See \/ SeePoll \/ Cam

Spec == Init /\ [][Next]_vars
(* The main loop ticks forever; a bench command polls until it ends.       *)
Fairness == WF_vars(Tick) /\ WF_vars(SeePoll)
FairSpec == Spec /\ Fairness
-----------------------------------------------------------------------------
TypeOK ==
  /\ cam \in [state : {"uninit", "failed", "idle", "capturing", "reading"},
              fifo : Nat, given : 0 .. Pixels, waited : 0 .. Timeout + 1]
  /\ svc \in [have : 0 .. Pixels - 1, confirmed : Classes,
              lastRaw : Classes \cup {NoVerdict}, ema : BOOLEAN, x : Nat, size : Nat]
  /\ wanted \in BOOLEAN /\ running \in BOOLEAN /\ bench \in 0 .. SeePolls
  /\ seen \in [cls : Classes, x : Nat, size : Nat]
  /\ first \in Classes \cup {NoVerdict} /\ twice \subseteq Classes
  /\ lo \in Nat /\ hi \in Nat /\ disturbed \in BOOLEAN

(* One frame's flicker changes nothing: the class SEE() reads is the first *)
(* verdict since the reset or one that two frames in a row gave            *)
(* (vision_service.cpp, temporal confirmation).                            *)
ConfirmedBySight == svc.lastRaw # NoVerdict => svc.confirmed \in twice \cup {first}

(* The smoothed position lies where the target was seen, whatever the      *)
(* jitter and the rounding of the average (applyGeometry).                 *)
PlaceWasSeen == svc.ema => lo <= svc.x /\ svc.x <= hi

(* A program that reads "nothing" reads no place and no size of a target   *)
(* that is gone, through restarts of the service and bench commands.       *)
NothingHasNoPlace == seen.cls = 0 => seen.x = 0 /\ seen.size = 0

(* Driver and service count the same pixels of the same frame, whatever    *)
(* sizes they read by, as long as nothing comes between in mid-frame: a    *)
(* read that fails, a camera that runs dry, a reset, a bench command.      *)
CountsInStep ==
  ~disturbed => svc.have = (IF cam.state = "reading" THEN cam.given ELSE 0)

(* A capture that never ends does not wedge the eye: while it is polled    *)
(* the driver leaves it (arducam_mega.cpp 79-82).                          *)
NeverWedged == cam.state = "capturing" ~> (cam.state # "capturing" \/ ~(wanted \/ bench > 0))

(* Claimed, and not so: a camera frame is captured whole, then classified  *)
(* (vision_service.cpp 13-15).  A reset or a failed read in mid-frame      *)
(* leaves the two counts apart, and every later frame is the end of one    *)
(* picture and the beginning of the next.                                  *)
FrameIsWhole ==
  [][(svc.have > 0 /\ svc'.have = 0 /\ svc'.lastRaw # NoVerdict)
       => cam.given = svc.have]_vars
=============================================================================
