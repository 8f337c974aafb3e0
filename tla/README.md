# Text to Chip runtime: TLA+ models, checks and proofs

The repository holds the firmware that turns a microcontroller board into a
target of the Text to Chip IDE. The IDE sends a program as lines of textual
bytecode over a serial link; the firmware checks it, keeps it, and runs it on a
small cooperative VM that drives motors, buzzers, displays, a microphone and a
camera. This directory models the parts of it that carry state from one event
to the next, checks them with TLC and proves the most important results with
TLAPS.

File paths below are relative to the repository.

## 1. The system

One thread runs everything: the loop of `zephyr/src/main.cpp` pumps the serial
link, ticks the runtime (which drives the voice and vision services and then the
VM), and sleeps for `min(idleMs, 50)` ms, at least 1. What can come between its
steps is

* the UART's receive interrupt, which fills a 512-byte ring without a lock,
* the camera and the microphone, which are ready when they are ready,
* the IDE, whose commands arrive in any order and at any time,
* on the NPU build, the driver's thread that completes an inference,
* the clock, a 32-bit millisecond counter that wraps, and
* the power, which may go at any moment; one program slot in flash survives it.

| component | code | state it keeps | operations | talks to |
|---|---|---|---|---|
| protocol runtime | `src/runtime.cpp` | loading, headerError, programText, aiRunning, visionRunning | LOAD and lines, `.`, RUN, STOP, SAVE, CLEAR, OVERRIDE, autorun, tick | VM, store, services, serial link |
| bytecode VM | `src/vm.cpp`, `src/vm.h` | program, pc, state, value stack, variables, call stack, mission, aiActive, visionActive, resumeAt | addInstruction, check, start, stop, clearProgram, tick, execOne, 39 opcodes | actuators, missions, services' registers |
| contract and pads | `src/vm.cpp`, `src/pads.cpp` | contract number, resource table | setContract, addResource, check, padOf | VM |
| main loop and clock | `zephyr/src/main.cpp`, `runtime::idleMs`, `VM::idleForMs` | the clock, resumeAt | pump, tick, sleep | everything |
| serial link | `zephyr/src/hal_zephyr.cpp`, `pumpSerial` | ring, head, tail, inbuf, lineOverflow | interrupt handler, serialReadChar, line assembler | IDE, protocol runtime |
| camera driver | `zephyr/src/arducam_mega.cpp` | capture state, fifo left, pixels given, start time | captureRgb, probe | vision service |
| vision service | `src/ai/vision_service.cpp` | have, confirmed, lastRaw, smoothed place | reset, poll | camera, VM registers |
| voice service | `src/ai/ai_service.cpp` | window, averaged scores, debounce, refractory time | reset, poll | microphone, VM register |
| voice, nRF Edge AI | `src/ai/ai_nrf_edgeai.cpp` | averages, counts in a row | reset, poll | microphone |
| NPU vision | `zephyr/src/ai_vision_npu.cpp` | in-flight flag, done flag, input buffer | reset, poll, callback | NPU driver's thread |
| missions | `src/semaforo.h`, `src/pianola.h`, `src/registry.cpp` | phase, times, button edge, note | begin, tick | VM, pins, clock |
| program store | `zephyr/src/hal_zephyr.cpp` | one slot in flash or NVS | storeSave, storeLoad, storeClear | protocol runtime |
| colour detector | `src/ai/color_detect.c` | mask, fill stack, best region, of one call | tc_detect_color_blob, tc_color_stats | vision service |
| sensors | `zephyr/src/hal_zephyr.cpp` | a cached measurement per device | sense | VM (SENSE) |
| strip and screen | `zephyr/src/hal_zephyr.cpp`, `host/hal_host.cpp` | a frame, rows of text, dirty flags | pixelsBegin, pixelSet, pixelsShow, displayClear, displayText, displayShow | VM, end of the tick |
| pads of the HAL | `zephyr/src/hal_zephyr.cpp`, `src/pads.cpp` | directions, levels, PWM channels | pinMode, pinWrite, tone, toneOff, servo, move, distanceCm | VM |
| parser, features, other drivers, host tools | see `PROJECT.json` | little or none | | |

What is hard in this code, and so what the properties are about:

* **Ends and beginnings.** A program ends in five ways and begins in three, with
  commands, OVERRIDEs and missions between; what it leaves in the registers or on
  the actuators is seen only after a particular history.
* **Loading piece by piece.** A program is accepted line by line, checked at the
  end, persisted as text and reloaded at boot through the same lines. A refused
  line, a refused whole and a power cut all fall into the middle of it.
* **Interrupts.** The ring is shared between the interrupt handler and the loop,
  and only head and tail are volatile.
* **Pace.** A loop that sleeps must not be late for a WAIT, deaf to a command or
  deaf to a microphone, on a clock that wraps.
* **Two counts of one thing.** Driver and service both count the pixels of a
  frame, by different chunk sizes, and each can be reset alone.
* **Writes that power cuts.** A SAVE is one call to the protocol and many blocks
  to the flash, and the boot checks nothing but a magic and a length.
* **Another thread.** The NPU's driver reads the frame buffer and sets a flag
  whenever its turn comes, also between two statements of the poll.
* **Filters over time.** Confirmation, smoothing and lockouts turn a stream of
  verdicts into one register that a program reads at any moment.

`PROJECT.json` lists every hazard with its line and the properties that cover
it, or why none does yet.

## 2. What each module models

### VM.tla and Runtime.tla: the VM and the protocol loop

`VM` holds the registers and one action per kind of opcode (`ExecData`,
`ExecMove`, `ExecWait`, `ExecGosub`, ...), `ClearProgram`, `Start`, `StopVM`,
`RunOffEnd` and `MissionTick`. `Runtime` extends it with the commands
(`Load`, `ProgramLine`, `EndLoad`, `Run`, `Stop`, `Save`, `Clear`, `Override`),
the boot (`BootLine`, `BootEnd`), the tick (`TickToSteps`, `TickIdle`,
`TickMission`, `StepTick`) and `PowerCycle`, enabled in every state.

| in the model | in the code |
|---|---|
| `program`, `pc`, `state`, `callStack`, `mission` | the VM's members; `pc` may be any integer after a JMP, `program[pc + 1]` is the instruction at `pc` |
| `vsp`, `stored` | the depth of the value stack; the variables written since `clearProgram` |
| `active`, `services` | `aiActive`/`visionActive`; `aiRunning`/`visionRunning` |
| `motors`, `tones` | what the motor driver and the buzzers do |
| `replay` | the lines of the saved text `loadProgramText` has still to feed |
| `phase`, `budget` | where the loop is: booting, between ticks, in the step loop with so many steps left |
| `manual`, `intruded` | nothing: histories of OVERRIDEs that properties speak of |

Abstractions. Values are not computed, so `JZ` goes either way unless its stack
is empty, when `pop` gives 0 and it jumps. Pins, servos, pixels and displays
are opcodes that only move the stack: no stop resets them in the code. A line is
an instruction, an accepted or a refused header or junk. `VM::check` is
the CONSTANT operator `Checks`, any function of the text, so what is shown or
proved holds for every contract and resource rule. A WAIT may be due or not at
any tick; `Pacing` has the clock. Commands come between ticks, as the one thread
makes them; the steps of one tick are separate steps of the model, among which
only power can go.

### Pacing.tla: the main loop against the clock

One action per part of a pass (`Serve`, `Pump`, `TickStays`, `TickSteps`, `Idle`,
`Sleep`), each taking a nondeterministic time of up to `PassMs`; a sleep
takes what it is asked and up to `Slack` more. `clock` wraps at `Wrap`.
`resumeAt`, `IdleForMs` and `Nap` are the code's arithmetic. `left` keeps the
true remaining time of a WAIT, `wrapped` whether the clock wraps within it,
`age` how long a command has waited and `deaf` how often the board overslept a
model the program wants.

### SerialLink.tla and BytePipe.tla: from the wire to lines

`BytePipe` is the abstract link: a queue of `Capacity` bytes that drops the
newest byte when full. `SerialLink` is the code: `Receive` is one byte of
`uart_rx_isr`, `Look`, `LoadByte`, `MoveTail` are the accesses of
`serialReadChar`, `TakeByte` is the line assembler of `pumpSerial`. `Receive`
may come between any two of them; nothing of the loop comes inside `Receive`,
which is an interrupt handler. `rx_ring` is not volatile, so the compiler may move its load
past the store of `rx_tail`; `LoadByte` and `MoveTail` come in either order.
`RingIsAPipe` is the refinement, with the byte in hand counted as taken once
the tail has moved. Boards without `TC_UART_IRQ_RX` poll the UART's own register
and have no ring.

### Camera.tla: driver, service and registers

`cam` is the driver's state machine (`captureCore`: set up, idle, capturing,
reading), `svc` the vision service. Each `Tick` is one `runtime::tick` part:
it resets a service that was not running, polls it, and copies an answer to the
registers `seen`. `See`/`SeePoll` are the SEE and SNAP commands, which block the loop and
poll until the service answers or for 4 s; `Cam` is the CAM probe, which
takes the driver away from the service. Of a frame only the count of pixels is
kept; the detector may say any class at any place. Times of the driver and of
SEE are counted in polls. `first`, `twice`, `lo`, `hi` are histories of what the
service saw and `disturbed` says whether anything came between the two counts.
The model is the colour build; the NPU's is in `NpuVision`.

`Steering` puts a program over it: a loop that reads SEE() and SEEX() and does something
else. `Pass` is a pass of the main loop, which ticks the camera and gives the VM its
budget; `Step` is one instruction. `read` is the pair of values the program holds, `shown` the
history of the pairs the registers have held.

### Senses.tla over Voice, EdgeAi, NpuVision, ColorDetect, Sensors, Panels

`Senses` is the part of `runtime::tick` that starts, polls and pauses a
background service and copies its answer to a register of the VM (`Wants`,
`VoiceTick`, `EdgeTick`, `EyeTick`, `TickPauses`, `Tells`), SEE and SNAP on the
NPU (`See`, `SeePolls`), and the parts a program reads and draws on. The parts share nothing
with one another, so `build` chooses one per behaviour; each has its state
and operators in a module of its own:

| module | code | state | what a step is | abstracted |
|---|---|---|---|---|
| `Voice` | `ai_service.cpp` | `voice`: samples had, ring of posteriors, candidate, refractory | `VoicePoll`: some samples, and when the window is full the decision (`Decided`: average, gate, debounce, moving stop, refractory) | conditioning, MFCC and network: any posterior of a given set |
| `EdgeAi` | `ai_nrf_edgeai.cpp` | `edge`: started, fill, idle; `kws`: last class, count, EMA | `EdgePoll`: up to two blocks through `Processed` | the network: any class and score |
| `NpuVision` | `ai_vision_npu.cpp`, `vision_service.cpp` | `npu`: pixels, ready, pending, done; `driver`: the other thread; `eye`: confirmation | each access of the poll around the driver's call (`DrainCamera`, `ClearDone`, `AskDriver`, `Asked`), `DriverStep` between any two | pixels counted, geometry left out |
| `ColorDetect` | `color_detect.c` | `mask`, `fill` (stack, sums), `best`, `blob` | of one call: `Pop` (a pixel off the stack, its neighbours on it by `PushNeighbours`), `Judge` (a region filled; `Started` finds the next), `Answer` | hues as exact fractions, not floats |
| `Sensors` | `hal::sense` | `cache`: age, ok, values | `Sense`, with a fetch that may fail at any channel; `Elapses` | conversion to integers |
| `Panels` | the HAL's and the host's strip and screen | `strip`, `screen`, `host` | `Pixn`, `Pix`, `Dclr`, `Dtext`, `Shown` on both at once | fonts, the bus |

Histories: `voice.since`, `voice.unheeded`, `kws.gap`, `kws.was`, `eye.old`,
`eye.stale`, `truth`, `sensed` say what happened, not what the code keeps.

### Missions.tla: the traffic light and the piano

`sem` and `pia` are the two static objects, with every member that decides
something; `SemaforoTick` and `PianolaTick` are their `tick`, `BeginSemaforo`
and `BeginPianola` what a CALL does to them through `missionFor` and `begin`,
`Stop` what STOP, LOAD and the program's end do. Buttons go up and down at any
time and the clock wraps at `Wrap`. Each method reads the clock once or twice;
the second reading may be a millisecond later. The second buzzer and
the case of two objects after one another are there, as an OVERRIDE makes them.
`VM.tla` keeps only which mission runs.

### Contract.tla, Pins.tla, Store.tla, Pads.tla: from the wire to a pad

`Contract` is pure: header lines and instructions as tokens (`Parsed`,
`IsRes`), the boards' pad tables (`ByName`, `Reserved`, `Wired`, `LegacyPad`),
`ProgramLine`, `Replayed` (the boot's `loadProgramText`) and `Check`. `Pins` is
what `pinMode`, `pinWrite`, `tone`, `servo`, `move` and `distanceCm` do to
the pads of each of the three boards, with the pad each PWM channel comes out of.
`Store` is the flash: NVS on the ESP32-S3, written whole; on the nRF54LM20-DK a
blob overwritten in place; on the UNO R4 the same after an erase; `WriteBlock` is one
block. `Pads` joins them: `Load` of a text of which the link may lose a
line, `Line`, `Dot`, `Run`, `Step`, `Override`, `Save`, `Saving`, `Forget`
and `PowerCycle`, also in mid-save. Control flow is `VM`'s: here any instruction
of a running program may be next, and it may run off its end (`RunOffEnd`) or find the call stack full
at a GOSUB at any time; HALT and these ends reach the motors' and buzzers' pads (`Pins`' `StopActuators`).
Left out are CALL, whose mission's pins are `Missions`', and the buses of strip, screen, sensor,
microphone and camera, whose pads belong to their drivers.

## 3. What is checked

| run | instance | states | what it shows |
|---|---|---|---|
| `runtime` | every program of two out of eleven instructions, texts up to three lines, two steps a tick, stacks of one and two | 348,594 | a parked VM is quiet (`ParkedIsQuiet`), return addresses are call sites (`ReturnsToCallSites`), stacks stay in their arrays, also under OVERRIDE GOSUBs (`TypeOK`) |
| `boot` | five instructions, OVERRIDEs of CALL and HALT, a store of three lines, SAVE, CLEAR, power cuts | 360,419 | only checked text is kept (`OnlyCheckedKept`), a load starts fresh (`LoadingIsFresh`), the autorun replays the saved program (`AutorunReplaysSaved`), a tick ends (`TickEnds`), a mission that an OVERRIDE CALL of an unknown id takes away ends (`LostMissionEnds`) |
| `pacing` | a clock of 12 ms, naps of 2, WAITs of 0, 1 and 4 | 39,640 | a WAIT is neither cut short (`WaitNotEarly`) nor late (`WaitNotLate`), a command is served soon (`CommandServedSoon`), a listening board oversleeps once at most (`DeafOnce`) |
| `serial` | a ring of three slots, lines of two bytes, seven bytes sent | 78,065 | the ring is a queue (`RingIsAPipe`), lines are what was kept (`LinesAsSent`), every kept byte arrives (`EveryByteTaken`) |
| `camera` | frames of three pixels, driver chunks of two, service chunks of three, FIFOs shorter and longer than a frame | 145,860 | a class was confirmed (`ConfirmedBySight`), a place was seen (`PlaceWasSeen`), nothing has no place (`NothingHasNoPlace`), the two counts agree (`CountsInStep`), a capture never wedges the eye (`NeverWedged`) |
| `senses` | every build in turn: windows of four samples, seven posteriors; runs of three blocks; frames of three pixels; every 3x3 picture of three colours and every pixel of six levels a channel; two channels; two pixels and two rows | 392,748 | "stop" reaches a moving robot within three windows (`StopHeardSoon`), a word is not said twice (`RefractoryHolds`, `LockoutHolds`), one window says nothing alone, unless it is strong and three are not in yet (`LoneWindowSilent`), only the first verdict after a reset may be of an older frame (`OnlyFirstStale`), the NPU's input is not overwritten (`InputKept`), an inference ends (`InferenceEnds`), SEE() is told of the best region (`BlobIsBest`, `StatsAgree`), a sensor's value is one measurement's (`SenseFresh`), the board shows what the host does (`ShownAsOnHost`) |
| `missions` | a clock of 14 ms, two lights, two pianos, two CALLs | 222,198 | a press cannot cut green short (`GreenKept`), the light beeps on red only (`BeepOnlyOnRed`), who asks to cross gets red (`CrossingServed`), a note ends on time, but for those the wrap harms (`NoteOnTime`) |
| `pads` | seven texts for three boards, any line of them lost, two LOADs, one cut SAVE | 1,426,093 | an instruction of a contract-3 program changes only the pads its text names, the ends of the program also those of motors and buzzers (`OnlyOwnPads`), a boot finds what was saved, or what a cut leaves (`BootsWhatWasSaved`) |
| `ended` | as `runtime`, shorter texts | violated | a program that ends by HALT or off its end keeps its services |
| `frames` | as `camera` | violated | frames are joined from two pictures after a reset or a failed read in mid-frame |
| `margin` | as `senses` | violated | a region is told that beats the other by less than `MARGIN` |
| `steer` | the camera of `camera`, a loop of three instructions, four steps a tick | violated | a program holds SEE()'s class of one frame and SEEX()'s place of the next |

The last four are disagreements between the code and its own comments and
documents; each is quoted under `findings` in `PROJECT.json`. `steer` holds instead
when the loop's length divides the steps of a tick, as both reads then always fall into one tick
(a loop of three with three steps passes); a program with anything before its
loop loses that, too.

**Bounds and why they are enough.** The interesting cases of `Runtime` are a jump
out of the program, GOSUB on a full stack, RET on an empty one, a CALL of an
unknown mission and the end of the program: each happens with two instructions
and stacks of one and two. A tick of two steps can end by its budget or before.
`MaxText` (the lines a text may reach) only cuts off longer loads; text
outgrows the program by headers, which the third line allows. `StoreSize` is 0
in the runs that are not about the store (SAVE then always fails, so the state
does not grow). In `pacing` a WAIT may be shorter than, equal to and longer
than a nap, and the clock wraps about every pass or two; the durations satisfy
`PacingAssumption` as 50 ms naps and a 2^32 clock do with room to spare.
In `serial` the ring wraps twice and overflows, and a line may be at its limit,
over it, or end in CR. In `camera` frames need two polls on the driver's
side and the service's chunk is larger than the driver's, so every kind of cut
through a frame occurs; `Timeout` 0 gives up on the second poll. `MaxSent` bounds
only the wire, and `MaxText` only the IDE: no code has them.
In `senses` the posteriors lie on both sides of each of the code's three
thresholds; a refractory time of five windows outlasts the average of three; a poll
may end two blocks, and the EMA needs more blocks than a run has; a
camera's chunk does not divide a frame; a 3x3 picture has rows to run over and
regions to join by a corner; colours differ above bit 24. `Smooth` (3) is the
code's own. `RowMax` bounds the texts appended to a row, for which the code has no
bound. In `missions` phases last two to four milliseconds of a clock that wraps at
14, a minimum is shorter and longer than its green, and a second CALL comes upon the
first with other pins, the same object or the other one. In `pads` the texts have both
buzzers, wired pads, reserved pads, a resource out of the table, bare pins, and
CONTRACT lines whose loss changes the contract; `Cap` is below the longest text,
so a SAVE may fail; `MaxCuts` and `MaxLoads` bound the environment only.

**Deadlock** is checked in every run but `senses` and `margin`, whose colour build is one call of the
detector and ends with its answer; nothing else here may stop.

**Fairness.**
`LostMissionEnds` assumes that the loop ticks a VM that goes on at once
(`WF(TickToSteps /\ state # "WAITING")`): nothing in the loop waits for the VM. Of a WAIT
nothing is assumed, as `Runtime` has no clock to say when it is due.
`TickEnds` assumes that the step loop continues (`WF(StepTick)`), since nothing can
block it but a power cut, which ends the tick as well. `EveryByteTaken` assumes
the loop comes round (`WF(Loop)`): a pass ends, and its sleep is capped.
`NeverWedged` assumes the loop ticks and a bench command polls
(`WF(Tick)`, `WF(SeePoll)`): both are unconditional in the code. `InferenceEnds`
assumes the same of the NPU's polls (`WF(EyeTick \/ SeePolls)`, and
`WF(EyePollsOn)`: a poll begun goes on) and that the driver's thread runs
(`WF(NpuThread)`): the driver promises a callback for every request it accepts.
`CrossingServed` assumes the loop ticks (`WF(Tick)`). Nothing is assumed
of the IDE, the wire, the camera, the detector, buttons or power.

**Left out of a property.** The WAIT properties exclude WAITs within which the
clock wraps (`wrapped`): the code compares times rather than subtracting them,
and such a WAIT may end at once or, if the deadline is missed just before the
wrap, 49 days late. `ReturnsToCallSites`, and `MissionRunsItsCall`,
which is proved only, exclude programs an OVERRIDE has intruded into, and `ParkedIsQuiet` excludes what an
OVERRIDE switched on after the stop: that is what OVERRIDE is for.
`NoteOnTime` lets a note be cut
that ends beyond the clock's wrap, and outlive its length when it ends less than a pass before it: the
code compares these times, and both happen in `missions`. `BeepOnlyOnRed` excludes a buzzer on another pad that a program left sounding before its
CALL. `OnlyOwnPads` speaks of contract 3, since contract 2 names pins
directly, and of what the running program does, not an OVERRIDE. It lets the three ends of a
program reach the motors' and buzzers' pads (`StopPads`): `stopActuators` is `move(0, 0)`, which makes
direction pads of the motors low outputs even when a RES line declares one of them DIN. No text
of `Pads` has a CALL (`NoCallAssumption`): a mission's pins are `Missions`'. `LoneWindowSilent` lets one
strong window speak while there are less than three. `ConfirmedBySight` lets the first verdict after a
reset confirm by itself, as the code does.
`CountsInStep` excludes a disturbed frame, which `frames` shows to be a real
exception.

## 4. What is proved

The theorems hold for every value of the constants under the modules' named
assumptions (`SizesAssumption`, `MissionsAssumption`, `LinesAssumption`,
`PacingAssumption`, `LinkAssumption`, `CameraAssumption`, `ClockAssumption`,
`CallsAssumption`, `ContractAssumption`, `StoreAssumption`, `TextsAssumption`, and those of
the modules under Senses, `FramesAssumption` and `ShareAssumption` among them). In the code, the
constants are the sizes of its arrays and its thresholds. `TextsAssumption` says no more
than that a text is a sequence of tokens, `NoCallAssumption` that none has a CALL. `ClockAssumption`
keeps a pass shorter than half the clock's wrap, and `CallsAssumption` a phase or a note
a pass shorter than the wrap. `VoiceAssumption` has the inequalities of the real numbers: 3 x 0.45 > 1,
0.75 > 1 - 0.30, 0.75 <= 2 x 0.45, and that two posteriors of a window sum to one at most.

* **RuntimeProofs**: `TypeCorrect`, `Quiet`, `Fresh`, `Returns`, `MissionCalled`,
  `Checked`, `Autoruns`. One inductive invariant carries the first five:
  `TypeOK /\ StepsRun /\ LoadingIsFresh /\ ParkedIsQuiet /\ ReturnsToCallSites /\
  MissionRunsItsCall`. `StepsRun` (in the step loop the state is RUNNING, and a boot is
  not a LOAD) is what the named properties lack: without it a step of
  the loop could be taken by a parked VM, and drive a motor there.
  `LoadingIsFresh` is needed by `ReturnsToCallSites`: a line that is appended
  while return addresses are on the stack would be one no GOSUB precedes.
  The proof goes by the opcodes, then by the actions. `OnlyCheckedKept` is
  inductive with the types alone. `AutorunReplaysSaved` needs `Fits`: the program has one
  instruction for each place of `programText` that holds one, and the saved text has `MaxProgram` such
  places at most; so a boot, which replays it line by line into an array of that size,
  drops none of it.
* **PacingProofs**: `NotLate`, `NotEarly`, `ServedSoon`, `OversleepsOnce`. `TimeLeft` ties the true
  time left to the two clocks (`left = resumeAt - clock` in an unwrapped WAIT)
  and bounds, for each stage of the pass, how late a WAIT may be by then and how
  the nap relates to it; `CommandAge` does the same for a pending command.
  `HeardOf` says that after the one long sleep the services run before the next nap
  is computed.
* **SerialProofs**: `RingImplementsPipe`, that the ring and the three accesses of
  a pop are a queue of `RingSize - 1` bytes for every ring size. `RingInv`
  says the types, that a pop in progress finds the ring non-empty and, once
  the tail has moved, that the slot it has left is not yet the handler's: that is
  the one slot a full ring leaves free, and why the compiler's order of load and
  store does no harm. Lemmas give the modular arithmetic of head and tail.
  `LinkType` adds the line being cut, which never grows past `MAX_LINE`.
  `LinesSpelled` ties each line to the places its bytes have in what the ring kept
  (`LineBefore`, `Rank`): `Cut` says the same of the line being assembled: what the bytes
  since the last line end spell, or, once `lineOverflow` is up, that they are more than `MaxLine`.
* **CameraProofs**: `CameraType`, `Confirms`, `SeesPlaces`, `InStep`, `NothingNowhere`, and two facts
  about the integer average, `EmaHull` (it stays between its arguments) and
  `EmaSettles` (it rests anywhere from one below to two above a steady target, so
  a smoothed position may stay off by two for ever). `CameraInv` is the types,
  `Sight` (what the history says of the service) and `CountsInStep`.

* **MissionsProofs**: `MissionsType`, `GreenLasts`, `BeepsOnRed`, `NotesEnd`, by
  `MissionsInv`. The history `age` measures the phase in true time; `PhaseAge`
  ties it to the wrapping clock: `now - phaseStart`, modulo the wrap, is never more
  than the true age, so a test that says a time is over is right. `BeepsOwn` is what
  `BeepOnlyOnRed` lacks: a phase change silences the mission's own buzzer, which is
  enough only when nothing else of its making sounds. `NoteTimes` says what the true age of a
  sounding note and its end have to do with each other: as a rule the end is ahead by what is
  left of the length (`NoteAhead`); a note that has just begun may end beyond the wrap
  (`NoteAcross`) and is cut if the next tick comes before the wrap; one whose end the ticks may
  miss lies within a pass of the wrap and is at least as old as its end says (`NoteMissed`). The three are
  closed under ticks, and `NotesEnd` follows.
* **SensesProofs**: one invariant per service, which every step of the others
  leaves alone.
  * MFCC voice (`WordsApart`, `NoLoneWindow`, `StopHeard`): `VoiceInv` says that
    the lockout left and the windows since the last word make up the
    refractory period (`Due`), and, of a "stop" that goes unheeded, that the newest windows all
    heard it and that what hid it has left a lockout or no candidate (`Unheard`).
    With three such windows no other word can be strong, without a
    candidate none can be weak, and the lockout of the word that hid it
    clears the candidate: so the fourth window says "stop". A word that is not strong needs a
    candidate, which a window before has put up (`Unproposed`).
  * Edge AI (`LockedOut`): `Kept` relates the run's count to the blocks since the last
    word; a negative count is the lockout that remains.
  * The NPU's eye (`InputsKept`, `OneStale`): `Handed` says that the driver's
    thread is busy only between the request and its flag, that the flag is
    down all that while, and that the poll writes pixels only when nothing is
    pending. It is inductive at every point of a poll, which is where the
    driver's thread may run.
  * Sensors (`SenseTrue`): a good cache holds the last fetch, whole.
  * Strip and screen (`HostShowsBoard`): frames and flags agree pixel by pixel
    and row by row, and a screen that is not up yet is still dirty when the host's is.
  * Colours (`ReportAgrees`): every hue lies in one of the detector's bands or in
    the violet that the report's bands leave out; decided by arithmetic over all 24-bit pixels.
* **PadsProofs**: `Boots`, `OwnPads`, for every text without a CALL, board and flash.
  Lines and programs are made by recursive functions (`LinesOf`, `ReplayedLines`);
  `RecursionOn` shows once that such a function exists and has the type
  its steps keep, from the well-founded order of the naturals.
  * `Boots`: `Writing` says of a SAVE in progress that the flash holds its text up to the next
    block and from there what it held before (`cut.cells`), so that a power cut at any block leaves
    a text that `BootsWhatWasSaved` allows.
  * `OwnPads`: `Named` says that every entry of the resource table comes from a RES line of the
    text that was sent or loaded, at that place in the table; `ProgramInv` adds that
    outside a LOAD the program has passed `Check`. `Touches` is a calculus of the pads and
    PWM channels that a HAL call changes, one lemma a call, from which each instruction's follows, and that of the
    program's ends (`StopTouches`).
* **ColorProofs**: `BestSeen`, `SensesType`, over every frame, mask and threshold. `ColorInv` speaks
  of two sets that the code does not keep: the pixels popped of the region being filled, and those
  of the regions judged.
  * `Flood`: the pixels seen are those judged, those popped and those on the stack, all apart, and
    no pixel is on the stack twice. Every whole set that holds the region's first pixel holds
    all that was popped or pushed of it, so the region is no larger than it should be.
  * `Hemmed`: the neighbours of what was popped, of its colour, are popped or on the stack; when the
    stack is empty the region is whole, so it is no smaller than it should be either.
  * `Measures`, `Boxed`: count, sum, share of the centre and bounds are those of the popped pixels.
  * `Swept`, `Leads`: no coloured pixel behind the scan is unseen, and no object among those judged
    outweighs the best. When the scan is over every object has been judged, since a region
    lies in the judged pixels or apart from them.
  * `Answer`'s divisions are bounded by hand (`OffIs`, `ShareIs`): column times count is non-linear and out of the
    solver's reach.
  * `SensesType` puts the invariants of all services together. The stack stays in its array
    because its entries are distinct pixels; the eye's frame because it is drained into only
    when it is not full (`Room`).

**Only model-checked.** Liveness (`TickEnds`, `EveryByteTaken`, `NeverWedged`,
`InferenceEnds`, `CrossingServed`), which is out of the prover's reach, and the four properties
the code violates. Every safety invariant and action property that a passing run checks is
proved as well.

## 5. Not modelled, and what the models say besides

**Not modelled.**

* MFCC features and the network (`features.c`, `ai_host.cpp`) are floating-point
  arithmetic over buffers; `model.h` and `voice_test_samples.h`, half of the
  repository's lines, are their tables of weights and recorded samples.
* The I2S microphone: its start, the search for a sane bit alignment and the
  re-arm after an overrun depend on the I2S driver's own states, which are not in the
  repository. One thing to know of it: after a PREPARE that succeeds and
  a START that fails, every later PREPARE is refused, and the microphone stays
  silent until a reboot.
* Probes, CAPS, VER, the face on the LVGL panel, the rail's voltage: they print or draw and
  keep no state that anything else reads.
* The split of a line into tokens, and two lines the link has joined into one: the models
  lose a line whole.
* The hazards without a property, each with its note in `PROJECT.json`.

**Disagreements with documents that no run shows.** Each is one assignment or test, read off the code; the
models have it as it is.

* OVERRIDE goes through `VM::step`, whose WAIT sets the state to WAITING whatever it was
  (`vm.cpp:196`): on a stopped VM the next due tick runs the program on from its pc. `SPEC.md:230`
  says "execute one instruction immediately", and `vm.h:47` "run one instruction now".
* A line of a LOAD that is answered with an ERROR, for a bad operand or because the program is full,
  sets no `headerError` (`runtime.cpp:43`); the rest loads, runs and saves. `runtime.cpp:93-94`
  says of '.' that what is refused is not kept because "RUN or SAVE would run or persist half a
  program", and `SPEC.md:254` that SAVE persists exactly the bytecode received; `SPEC.md:208` does
  allow a receiver to ignore unknown opcodes.
* `addResource` sets contract 3 (`vm.cpp:72`), a later CONTRACT 2 sets it back (`vm.cpp:54-60`), and
  the check then lets bare pins pass next to the table. `SPEC.md:66` says that a RES line alone makes
  a program contract 3, and `SPEC.md:79` that a bare pin in such a program is refused.
* A note of the piano that ends beyond the clock's wrap is cut at the next tick (`pianola.h:67`);
  the comment above it says "after its length". `NoteOnTime` says which notes this can be.

**Observations.** Things the models settle, or that modelling showed, which no
doc or comment of the repository contradicts and so are no findings:

* "Stop" to a moving robot may be hidden for three windows, by a word that
  lingers in the average while its lockout runs; three is also the bound
  (`StopHeardSoon`).
* The Edge AI lockout is a negative count: a block of background ends it early, so it
  protects against the tail of a word and not against its echo
  (`LockoutHolds` says exactly what remains). `kIdleReportEvery` counts polls in which a block
  ended.
* After a reset of the NPU's eye the first verdict may be of a frame from before it,
  and confirms at once; no later one is (`OnlyFirstStale`).
* `tc_detect_color` hands its frame on as n x 1, so its class depends on a geometry the
  frame does not have.
* On the UNO R4 a write to D4 also drives D13, which `reserved` leaves to
  programs (`Mirror` in `OnlyOwnPads`). The pins of a CALL are not checked in
  either contract: a CALL names logical pins also in a contract-3 program. A TONE on a pad that is not the second buzzer sounds the first.
* STOP, LOAD, HALT, the end of a program and a full call stack make the motors' direction pads low
  outputs, also for a program that never used the motors or that reads one of these pads as
  DIN: `StopActuators` is `move(0, 0)`. No document says that a RES line keeps a pad from
  it; `OnlyOwnPads` names the exemption.
* A SAVE cut by power boots a prefix of the new program on the UNO R4, and
  on the DK the new program's beginning with the old one's end, if what comes
  out passes the check (`BootsWhatWasSaved`, `Spliced`); such a program still keeps to
  its own pads (`OnlyOwnPads`).
* The host keeps a pixel's colour unmasked and the board masks it to 24 bits.
  A sensor's reading of 0 and a failed sensor are one to a program. DNUM without DTEXT
  makes a row longer with every call.

## 6. Plan

In order of what matters, and of what is done:

1. VM and Runtime, with proofs (done).
2. Pacing, SerialLink over BytePipe, Camera, with proofs (done).
3. Voice, EdgeAi, NpuVision, ColorDetect, Sensors, Panels under Senses (done).
4. Missions (done).
5. Contract, Pins, Store, and Pads over them (done).
6. Theorems: every safety property of the passing runs (done).
7. Left: `Check` of `Contract` as `Checks` of `Runtime` in one instance; lines the link joins;
   the pins of a CALL in `Pads`.
