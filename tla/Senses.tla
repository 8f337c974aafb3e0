-------------------------------- MODULE Senses --------------------------------
(***************************************************************************)
(* The background services of runtime::tick (src/runtime.cpp): while the   *)
(* program wants a model, its service is polled between the VM's ticks and *)
(* what it answers goes to the VM's register; and the parts a program      *)
(* reads and draws on in a tick.  They share nothing, so a behaviour       *)
(* follows one: one of the two implementations of ai_service.h, the vision *)
(* service on the NPU, one call of the colour detector (the camera's       *)
(* service is module Camera), a sensor, or the strip and the screen.       *)
(***************************************************************************)
EXTENDS Voice, EdgeAi, NpuVision, ColorDetect, Sensors, Panels

VARIABLES
  build,     \* the service or the part that is followed
  wanted,    \* vm.aiRequested(), vm.visionRequested()
  running,   \* aiRunning, visionRunning
  register,  \* aiClass, visionClass
  bench      \* a SEE or SNAP command is polling for its frame

ears == <<voice, moving>>
edges == <<edge, kws>>
eyes == <<npu, at, driver, eye>>
colors == <<frame, mask, fill, best, blob>>
parts == <<sensorVars, panels>>
loop == <<wanted, running, register, bench>>
vars == <<ears, edges, eyes, colors, parts, loop, build>>

Builds == {"mfcc", "edgeai", "npu", "color", "sensor", "strip", "screen"}
Blank == [w |-> 1, h |-> 1, px |-> [i \in {0} |-> <<0, 0, 0>>]]

Init ==
  /\ build \in Builds
  /\ voice = ResetVoice /\ moving = FALSE
  /\ edge = Reset(FALSE) /\ kws = ResetSmoother
  /\ NpuInit
  /\ \E f \in (IF build = "color" THEN Frames ELSE {Blank}) : ColorInit(f)
  /\ SensorsInit /\ \E ready \in {TRUE, build # "strip"} : PanelsInit(ready)
  /\ wanted = FALSE /\ running = FALSE /\ register = 0 /\ bench = FALSE
-----------------------------------------------------------------------------
Tells(said) == register' = IF said >= 0 THEN said ELSE register

(* The voice part of a tick.  A service that was not running begins with a *)
(* reset, which on the Edge AI build also tries to start the model.        *)
VoiceTick ==
  /\ build = "mfcc" /\ wanted
  /\ VoicePoll(IF running THEN voice ELSE ResetVoice)
  /\ running' = TRUE /\ Tells(voice'.said)
  /\ UNCHANGED <<build, moving, edges, eyes, colors, parts, wanted, bench>>

EdgeTick ==
  /\ build = "edgeai" /\ wanted
  /\ IF running THEN EdgePoll(edge, kws) ELSE EdgePoll(Reset(edge.started), ResetSmoother)
  /\ running' = TRUE /\ Tells(edge'.said)
  /\ UNCHANGED <<build, ears, eyes, colors, parts, wanted, bench>>

(* One step of the vision part, or of the polls of a SEE or SNAP command:  *)
(* where the poll returns, the tick takes its answer to the register, the  *)
(* command ends, or gives up after four seconds.                           *)
Returns ==
  IF at' # "out" THEN UNCHANGED <<register, bench>>
  ELSE IF bench THEN bench' \in (IF eye'.said >= 0 THEN {FALSE} ELSE BOOLEAN)
                     /\ UNCHANGED register
  ELSE Tells(eye'.said) /\ UNCHANGED bench

EyeOnly == UNCHANGED <<build, ears, edges, colors, parts, wanted>>
EyeTick ==
  /\ build = "npu" /\ wanted /\ ~bench
  /\ BeginPoll(IF running THEN eye ELSE ResetEye)
  /\ running' = TRUE /\ Returns /\ EyeOnly
SeePolls == build = "npu" /\ bench /\ BeginPoll(eye) /\ UNCHANGED running /\ Returns /\ EyeOnly
EyePollsOn == build = "npu" /\ PollsOn /\ UNCHANGED running /\ Returns /\ EyeOnly
NpuThread == build = "npu" /\ DriverStep /\ UNCHANGED <<running, register, bench>> /\ EyeOnly

See ==
  /\ build = "npu" /\ ~bench /\ at = "out"
  /\ bench' = TRUE /\ eye' = ResetEye
  /\ UNCHANGED <<npu, at, driver, running, register>> /\ EyeOnly

(* The program executes AISTART or an INFER; it stops or is replaced, and  *)
(* the next tick pauses the service.  The registers stay.                  *)
Wants ==
  /\ build \in {"mfcc", "edgeai", "npu"} /\ at = "out" /\ ~bench
  /\ wanted' = ~wanted
  /\ UNCHANGED <<build, ears, edges, eyes, colors, parts, running, register, bench>>
TickPauses ==
  /\ at = "out" /\ ~bench /\ ~wanted /\ running
  /\ running' = FALSE
  /\ UNCHANGED <<build, ears, edges, eyes, colors, parts, wanted, register, bench>>

(* The program or a bench command starts and stops the wheels.             *)
Moves ==
  /\ build = "mfcc"
  /\ moving' = ~moving
  /\ UNCHANGED <<build, voice, edges, eyes, colors, parts, loop>>

Detects == build = "color" /\ Detect /\ UNCHANGED <<build, ears, edges, eyes, parts, loop>>

Sensed == build = "sensor" /\ SensorStep /\ UNCHANGED <<build, ears, edges, eyes, colors, panels, loop>>
Drawn ==
  /\ (build = "strip" /\ StripStep) \/ (build = "screen" /\ ScreenStep)
  /\ UNCHANGED <<build, ears, edges, eyes, colors, sensorVars, loop>>

Next ==
  \/ VoiceTick \/ EdgeTick \/ EyeTick \/ SeePolls \/ EyePollsOn \/ NpuThread
  \/ See \/ Wants \/ TickPauses \/ Moves \/ Detects \/ Sensed \/ Drawn

Spec == Init /\ [][Next]_vars

(* The loop ticks forever and a poll it has begun returns; the driver's    *)
(* thread runs whenever it has work.                                       *)
Fairness == WF_vars(EyeTick \/ SeePolls) /\ WF_vars(EyePollsOn) /\ WF_vars(NpuThread)
FairSpec == Spec /\ Fairness
-----------------------------------------------------------------------------
TypeOK ==
  /\ build \in Builds
  /\ wanted \in BOOLEAN /\ running \in BOOLEAN /\ bench \in BOOLEAN /\ register \in Nat
  /\ VoiceTypeOK /\ EdgeTypeOK /\ NpuTypeOK /\ ColorTypeOK

(* An inference handed to the NPU never wedges the eye: while somebody     *)
(* polls, its answer is taken, wherever the driver's thread runs between   *)
(* the steps of a poll (g_inferDone, g_pending).                           *)
InferenceEnds == npu.pending ~> (~npu.pending \/ ~(wanted \/ bench))
=============================================================================
