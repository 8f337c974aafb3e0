--------------------------------- MODULE Pins ---------------------------------
(***************************************************************************)
(* The pads as the HAL drives them (zephyr/src/hal_zephyr.cpp): GPIO, the  *)
(* PWM channels of buzzers, servos and motors with the pads they come out  *)
(* of, the ultrasonic sensor.  An operator takes the board and the state of*)
(* its pads and gives their next state; levels other than high and low, and*)
(* the PWM's periods, are left out, and the buses of the strip, the screen,*)
(* the sensor, the microphone and the camera, whose pads their drivers own.*)
(***************************************************************************)
EXTENDS Contract

(* out: pads that are outputs; high: pads set high; on: channels with a    *)
(* duty; routed: second pads the LEDC drives.                              *)
AtReset == [out |-> {}, high |-> {}, on |-> {}, routed |-> {}]

PadOk(board, p) == p >= 0 /\ p < (IF board = "UNOR4" THEN 20 ELSE 128)

(* The UNO R4's red lamp is shown on the board's own "L" too.              *)
Mirrored(board, p) == IF board = "UNOR4" /\ p = 4 THEN {4, 13} ELSE {p}

PinMode(board, h, p, mode) ==
  LET ps == IF mode = 1 THEN Mirrored(board, p) ELSE {p}
  IN  IF ~PadOk(board, p) THEN h
      ELSE [h EXCEPT !.out = IF mode = 1 THEN @ \cup ps ELSE @ \ ps,
                     !.high = @ \ ps, !.routed = @ \ ps]
PinWrite(board, h, p, level) ==
  LET ps == Mirrored(board, p)
  IN  IF ~PadOk(board, p) THEN h
      ELSE [h EXCEPT !.high = IF level # 0 THEN @ \cup ps ELSE @ \ ps]

(* The second buzzer and the second servo of the ESP32-S3.                 *)
IsSecond(board, p, kind) == p >= 0 /\ p = SecondPad(board, kind)
RouteLedc(board, h, p) == [PinMode(board, h, p, 1) EXCEPT !.routed = @ \cup {p}]

Tone(board, h, p, hz) ==
  IF hz <= 0 THEN h
  ELSE IF IsSecond(board, p, "TONE")
  THEN [RouteLedc(board, h, p) EXCEPT !.on = @ \cup {"tone2"}]
  ELSE [h EXCEPT !.on = @ \cup {"tone"}]
(* No pad (-1) silences both.                                              *)
ToneOff(board, h, p) ==
  IF IsSecond(board, p, "TONE") THEN [h EXCEPT !.on = @ \ {"tone2"}]
  ELSE IF p < 0 THEN [h EXCEPT !.on = @ \ {"tone", "tone2"}]
  ELSE [h EXCEPT !.on = @ \ {"tone"}]
Servo(board, h, p) ==
  IF IsSecond(board, p, "SERVO")
  THEN [RouteLedc(board, h, p) EXCEPT !.on = @ \cup {"servo2"}]
  ELSE [h EXCEPT !.on = @ \cup {"servo"}]

HasMotors(board) == board # "UNOR4"
DriveMotor(board, h, in1, in2, channel, v) ==
  LET p1 == LegacyPad(board, in1)
      p2 == LegacyPad(board, in2)
      outputs == PinMode(board, PinMode(board, h, p1, 1), p2, 1)
      way == PinWrite(board, PinWrite(board, outputs, p1, IF v > 0 THEN 1 ELSE 0),
                      p2, IF v < 0 THEN 1 ELSE 0)
  IN  [way EXCEPT !.on = IF v # 0 THEN @ \cup {channel} ELSE @ \ {channel}]
Move(board, h, left, right) ==
  IF ~HasMotors(board) THEN h
  ELSE DriveMotor(board, DriveMotor(board, h, 10, 11, "motorL", left), 13, 14, "motorR", right)
MotorPads(board) ==
  IF HasMotors(board) THEN { LegacyPad(board, n) : n \in {10, 11, 12, 13, 14, 21} } ELSE {}

(* DIST: trigger and echo are configured on every read.                    *)
Trig(board) == CASE board = "ESP32S3" -> 3 [] board = "NRF54LM20" -> 43 [] board = "UNOR4" -> 10
Echo(board) == CASE board = "ESP32S3" -> 46 [] board = "NRF54LM20" -> 44 [] board = "UNOR4" -> 11
Distance(board, h) ==
  [h EXCEPT !.out = (@ \cup {Trig(board)}) \ {Echo(board)},
            !.high = @ \ {Trig(board)}, !.routed = @ \ {Trig(board), Echo(board)}]

(* The pad a channel's wave comes out of.                                  *)
ChannelPad(board, c) ==
  CASE c = "tone" -> FixedPad(board, "TONE") [] c = "tone2" -> SecondPad(board, "TONE")
    [] c = "servo" -> FixedPad(board, "SERVO") [] c = "servo2" -> SecondPad(board, "SERVO")
    [] c = "motorL" -> LegacyPad(board, 12) [] c = "motorR" -> LegacyPad(board, 21)

(* stopActuators, and the pads it reaches: the motors' become outputs.     *)
StopActuators(board, h) == ToneOff(board, Move(board, h, 0, 0), NoPad)
StopPads(board) == MotorPads(board) \cup {FixedPad(board, "TONE"), SecondPad(board, "TONE")}

(* VM::step, for the instructions that touch a pad; what a full call stack *)
(* makes of GOSUB is Pads.tla's, the pads of a CALL's mission are          *)
(* Missions.tla's.                                                         *)
Exec(board, p, h, in) ==
  LET pad == PadOf(board, p, in.a)
  IN  CASE in.op = "MODE" -> IF pad >= 0 THEN PinMode(board, h, pad, in.b) ELSE h
        [] in.op = "SET" -> IF pad >= 0 THEN PinWrite(board, h, pad, in.b) ELSE h
        [] in.op = "TONE" -> IF in.b > 0 THEN Tone(board, h, pad, in.b) ELSE ToneOff(board, h, pad)
        [] in.op = "SERVO" -> Servo(board, h, pad)
        [] in.op = "MOVE" -> Move(board, h, in.a, in.b)
        [] in.op = "DIST" -> Distance(board, h)
        [] in.op = "HALT" -> StopActuators(board, h)
        [] OTHER -> h

(* The pads whose state differs.                                           *)
Changed(board, h, g) ==
  SymDiff(h.out, g.out) \cup SymDiff(h.high, g.high) \cup SymDiff(h.routed, g.routed)
    \cup { ChannelPad(board, c) : c \in SymDiff(h.on, g.on) }
=============================================================================
