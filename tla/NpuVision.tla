------------------------------- MODULE NpuVision -------------------------------
(***************************************************************************)
(* SEE() on the boards with an NPU: npu_vision_poll                        *)
(* (zephyr/src/ai_vision_npu.cpp) collects a camera frame in g_input and   *)
(* hands it to the Axon driver, whose own thread runs the inference and    *)
(* calls back; the vision service (src/ai/vision_service.cpp) confirms     *)
(* what comes out of it.  The driver thread may run between any two steps  *)
(* of a poll.  Pixels are counted; a detector sees a person or does not.   *)
(***************************************************************************)
EXTENDS Integers

CONSTANTS
  CamPixels,  \* kCamPixels
  CamChunk    \* pixels of g_chunk

ASSUME NpuAssumption == CamPixels \in Nat \ {0} /\ CamChunk \in Nat \ {0}

VARIABLES
  npu,     \* the poll's globals: [state, pixels, ready, pending, done, ok]
  at,      \* where the main thread is in npu_vision_poll
  driver,  \* the driver's thread: idle, or what it does with g_input
  eye      \* the service: [confirmed, lastRaw, said] and its history

(* said is what the last poll returned.  History: old says that g_input    *)
(* holds pixels from before the service's last reset, verdicts counts      *)
(* those since (up to 2), stale is old as the last verdict found it.       *)
FreshEye(old) == [confirmed |-> 0, lastRaw |-> -1, said |-> -1, old |-> old,
                  verdicts |-> 0, stale |-> FALSE]
ResetEye == FreshEye(npu.pixels > 0)

NpuInit ==
  /\ npu = [state |-> "uninit", pixels |-> 0, ready |-> FALSE, pending |-> FALSE,
            done |-> FALSE, ok |-> TRUE]
  /\ at = "out" /\ driver = "idle"
  /\ eye = FreshEye(FALSE)
-----------------------------------------------------------------------------
(* vision_service::poll: temporal confirmation of a verdict.               *)
Confirms(e, raw) ==
  LET confirmed == IF e.lastRaw < 0 \/ raw = e.lastRaw THEN raw ELSE e.confirmed IN
  eye' = [confirmed |-> confirmed, said |-> confirmed, lastRaw |-> raw,
          old |-> e.old /\ npu'.pixels > 0, stale |-> e.old,
          verdicts |-> IF e.verdicts = 0 THEN 1 ELSE 2]

Answers(e, raw) == at' = "out" /\ Confirms(e, raw)
Waits(e) == at' = "out" /\ eye' = [e EXCEPT !.said = -1]

(* A frame given up or judged: the next begins from nothing.               *)
DroppedFlag == [npu EXCEPT !.ready = FALSE, !.pending = FALSE]
Dropped == [npu EXCEPT !.ready = FALSE, !.pixels = 0, !.pending = FALSE]

(* The poll is entered with the service in state e.                        *)
FailedPoll(e) ==
  npu.state = "failed" /\ Answers(e, 0) /\ UNCHANGED npu
FirstPoll(e) ==
  /\ npu.state = "uninit"
  /\ \/ npu' = [npu EXCEPT !.state = "failed"] /\ Answers(e, 0)
     \/ npu' = [npu EXCEPT !.state = "run"] /\ at' = "drain" /\ eye' = e
PendingIgnored == FALSE
StillPending == npu.pending /\ ~npu.done
AwaitsNpu(e) ==
  StillPending /\ Waits(e) /\ UNCHANGED npu
TakesResult(e) ==
  /\ npu.pending /\ ~StillPending
  /\ npu' = Dropped
  /\ \E raw \in (IF npu.ok THEN {0, 1} ELSE {0}) : Answers(e, raw)
TakesFrame(e) ==
  /\ npu.state = "run" /\ ~npu.pending
  /\ at' = (IF npu.ready THEN "submit" ELSE "drain")
  /\ eye' = e /\ UNCHANGED npu
BeginPoll(e) ==
  /\ at = "out"
  /\ FailedPoll(e) \/ FirstPoll(e) \/ AwaitsNpu(e) \/ TakesResult(e) \/ TakesFrame(e)
  /\ UNCHANGED driver

(* The camera gives nothing, or some pixels, and the poll returns -1; the  *)
(* last ones of a frame go on to the driver in the same poll.              *)
DrainCamera ==
  /\ at = "drain"
  /\ \E px \in 0 .. CamChunk :
       LET full == npu.pixels + px >= CamPixels /\ px > 0
       IN  /\ npu' = [npu EXCEPT !.pixels = @ + px, !.ready = full]
           /\ IF full THEN at' = "submit" /\ eye' = eye ELSE Waits(eye)
  /\ UNCHANGED driver

(* g_inferDone is cleared before the driver is asked: from then on its     *)
(* thread may answer at any time.                                          *)
ClearDone ==
  /\ at = "submit"
  /\ npu' = [npu EXCEPT !.done = FALSE] /\ at' = "ask"
  /\ UNCHANGED <<driver, eye>>

LateClear == [npu EXCEPT !.pending = TRUE, !.done = FALSE]
MarkPending == [npu EXCEPT !.pending = TRUE]

(* nrf_axon_nn_model_infer_async: queued, busy with another model, or no.  *)
AskDriver ==
  /\ at = "ask"
  /\ \/ driver' = "queued" /\ at' = "asked" /\ UNCHANGED <<npu, eye>>
     \/ Waits(eye) /\ UNCHANGED <<npu, driver>>
     \/ npu' = Dropped /\ Answers(eye, 0) /\ UNCHANGED driver
Asked ==
  /\ at = "asked"
  /\ npu' = MarkPending /\ Waits(eye)
  /\ UNCHANGED driver

PollsOn == DrainCamera \/ ClearDone \/ AskDriver \/ Asked
-----------------------------------------------------------------------------
(* The driver's thread: the model's turn comes, the NPU is done with       *)
(* g_input, inferDoneCb stores the result and then the flag.               *)
DriverRuns ==
  /\ driver = "queued" /\ driver' = "running" /\ UNCHANGED npu
DriverResult ==
  /\ driver = "running" /\ driver' = "result"
  /\ \E ok \in BOOLEAN : npu' = [npu EXCEPT !.ok = ok]
DriverDone ==
  /\ driver = "result" /\ driver' = "idle"
  /\ npu' = [npu EXCEPT !.done = TRUE]
DriverStep == (DriverRuns \/ DriverResult \/ DriverDone) /\ UNCHANGED <<at, eye>>
-----------------------------------------------------------------------------
NpuTypeOK ==
  /\ npu \in [state : {"uninit", "failed", "run"}, pixels : 0 .. CamPixels + CamChunk,
              ready : BOOLEAN, pending : BOOLEAN, done : BOOLEAN, ok : BOOLEAN]
  /\ at \in {"out", "drain", "submit", "ask", "asked"}
  /\ driver \in {"idle", "queued", "running", "result"}
  /\ eye \in [confirmed : {0, 1}, lastRaw : {-1, 0, 1}, said : {-1, 0, 1}, old : BOOLEAN,
              verdicts : 0 .. 2, stale : BOOLEAN]

(* The driver's thread reads g_input when the model's turn comes: until it *)
(* has answered no pixel of the next frame is written over what it reads   *)
(* (ai_vision_npu.cpp, "g_input must not be touched").                     *)
InputKept == [][npu'.pixels > npu.pixels => driver = "idle"]_npu

(* A frame begun before a reset of the service may still be judged after   *)
(* it, but only the first verdict can be of such a frame: from the second  *)
(* on, no pixel the detector was handed in g_input is from before the      *)
(* reset.                                                                  *)
OnlyFirstStale == eye.stale => eye.verdicts = 1
=============================================================================
