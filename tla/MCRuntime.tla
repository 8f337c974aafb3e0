------------------------------ MODULE MCRuntime ------------------------------
(* Small instances of Runtime: one or two instructions of each control kind. *)
EXTENDS Runtime

CONSTANTS hdr, badhdr, junk

I(o, n, s) == [op |-> o, a |-> n, name |-> s]

MCMissions == {"SEMAFORO"}
(* A jump out of the program, a mission the registry does not know.        *)
MCInstructions ==
  { I("MOVE", 1, ""), I("TONE", 440, "main"), I("WAIT", 5, ""), I("JMP", 9, ""),
    I("JZ", 0, ""), I("HALT", 0, ""), I("CALL", 0, "SEMAFORO"),
    I("CALL", 0, "OTHER"), I("GOSUB", 0, ""), I("RET", 0, ""),
    I("INFER", 0, "voice") }
MCOverrides ==
  { I("MOVE", 1, ""), I("WAIT", 5, ""), I("CALL", 0, "OTHER"), I("GOSUB", 0, "") }

(* For the run about the store and the stop: what stays on the stacks and  *)
(* in the variables, a program that jumps to itself, a sounding buzzer, a  *)
(* mission that an OVERRIDE takes away or ends.                            *)
BootInstructions ==
  { I("PUSH", 1, ""), I("STORE", 0, ""), I("JMP", 0, ""), I("TONE", 440, "main"),
    I("CALL", 0, "SEMAFORO") }
BootOverrides == { I("CALL", 0, "OTHER"), I("HALT", 0, "") }

(* check() refuses a text whose bare-pin TONE meets a contract-3 header.   *)
Has(text, line) == \E i \in 1 .. Len(text) : text[i] = line
MCChecks(text) == ~(Has(text, hdr) /\ Has(text, I("TONE", 440, "main")))
=============================================================================
