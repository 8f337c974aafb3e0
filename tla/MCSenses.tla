------------------------------- MODULE MCSenses -------------------------------
(* Voice: windows of four samples read by two; shares in twentieths, as the  *)
(* code's thresholds have them.  The vectors are background, a strong and a  *)
(* weak word, stop at both sides of its low bar, alone and under a word.     *)
(* Edge AI: runs of three blocks, an average that needs five.  The eye:      *)
(* frames of three pixels by two.  Frames: any three by three of grey and    *)
(* two colours, of which a swap makes an orange corner red, and one pixel of *)
(* any of six levels per channel.  A sensor of two channels; a strip of two  *)
(* pixels and a screen of two rows.                                          *)
EXTENDS Senses

Says(background, go, stop) ==
  [c \in 0 .. 2 |-> IF c = 0 THEN background ELSE IF c = 1 THEN go ELSE stop]
MCPosteriors ==
  { Says(20, 0, 0), Says(0, 20, 0), Says(11, 9, 0), Says(0, 14, 6),
    Says(14, 0, 6), Says(15, 0, 5), Says(4, 0, 16) }

MCLabels == {"silence", "go", "stop"}
MCClassOf == [l \in MCLabels |-> IF l = "go" THEN 1 ELSE IF l = "stop" THEN 4 ELSE 0]
MCProbs == {100, 60}

MCChannels == <<"temp", "hum">>
MCCounts == {-1, 1, 3}

Levels == {0, 32, 70, 128, 200, 255}
Pixel == {[w |-> 1, h |-> 1, px |-> [i \in {0} |-> p]] : p \in Levels \X Levels \X Levels}
Orange == <<240, 120, 10>>
Palette == {<<90, 90, 90>>, <<200, 20, 20>>, Orange}
Picture ==
  {[w |-> 3, h |-> 3, px |-> px] : px \in {q \in [0 .. 8 -> Palette] : q[0] # Orange}}
MCFrames == Pixel \cup Picture
=============================================================================
