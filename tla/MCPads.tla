-------------------------------- MODULE MCPads --------------------------------
(* Texts of up to three resources and four instructions: for the ESP32-S3,    *)
(* for the DK, for the UNO R4, of contract 2; some that no board may keep.    *)
EXTENDS Pads

W(w) == <<w, 0>>
N(n) == <<"#", n>>
R(n) == <<"R", n>>
Res(n, kind, pad) == <<W("RES"), N(n), W(kind), pad, Newline>>
Contract3 == <<W("CONTRACT"), N(3), Newline>>
Ins(op, x, y) == <<W(op), x, y, Newline>>

(* Both buzzers, in either order; a lamp and a buzzer; a servo off its pad. *)
Buzzers2 ==
  Contract3 \o Res(0, "TONE", <<"GPIO", 42>>) \o Res(1, "TONE", <<"GPIO", 5>>)
    \o Ins("TONE", R(0), N(440)) \o Ins("TONE", R(1), N(0))
LampFor(pad, buzzer) ==
  Res(0, "DOUT", pad) \o Res(1, "TONE", buzzer)
    \o Ins("MODE", R(0), W("OUT")) \o Ins("SET", R(0), N(1)) \o Ins("TONE", R(1), N(440))
(* A button, on a pad that may be a motor's; the program ends either way.   *)
Button(pad) ==
  Res(0, "DIN", pad) \o Ins("MODE", R(0), W("IN")) \o Ins("GOSUB", N(0), N(0))
    \o <<W("HALT"), Newline>>
ServoAt(pad) == Res(0, "SERVO", pad) \o Ins("SERVO", R(0), N(90))
Beyond(pad) == Res(0, "DOUT", pad) \o Ins("TONE", R(1), N(440))
Bare == Ins("MODE", N(4), W("OUT")) \o Ins("SET", N(4), N(1)) \o Ins("TONE", N(5), N(440))
Robot(pad) ==
  Res(0, "DOUT", pad) \o Ins("MODE", R(0), W("OUT")) \o Ins("MOVE", N(100), N(-100)) \o Ins("DIST", N(0), N(0))

MCTexts ==
  [ESP32S3 |-> { Buzzers2, ServoAt(<<"GPIO", 7>>) },
   NRF54LM20 |-> { Robot(<<"P", 122>>), Button(<<"P", 302>>) },
   UNOR4 |-> { LampFor(<<"D", 4>>, <<"D", 5>>), Beyond(<<"D", 2>>), Bare }]

MCOverrides ==
  { [op |-> "TONE", a |-> ResRef + 5, b |-> 440], [op |-> "WAIT", a |-> 100, b |-> 0] }
=============================================================================
