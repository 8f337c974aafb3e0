-------------------------------- MODULE Panels --------------------------------
(***************************************************************************)
(* PIXELS and DISPLAY: the strip's frame and the screen's rows, kept by    *)
(* the HAL and sent at most once a tick, when the program changed them, on *)
(* the board (zephyr/src/hal_zephyr.cpp) and on the host that stands in    *)
(* for it in the tests (host/hal_host.cpp).  What a row shows is left out: *)
(* fonts, and where the board's screen breaks a text that is longer than   *)
(* its twelve characters a row.                                            *)
(***************************************************************************)
EXTENDS Integers, Sequences

CONSTANTS
  StripMax,  \* kStripMax: pixels of the strip, on the host too
  TextRows,  \* rows of the screen
  Counts,    \* what a PIXN may ask for
  Colours,   \* colours a PIX may pop
  RowMax     \* bound on the texts a program appends to a row

ASSUME PanelsAssumption ==
  /\ StripMax \in Nat \ {0} /\ TextRows \in Nat \ {0} /\ RowMax \in Nat \ {0}
  /\ Counts \subseteq Int /\ Colours \subseteq Nat

VARIABLES
  strip,   \* the board's: [ready, count, frame, dirty, lit]
  screen,  \* the board's: [up, rows, dirty, drawn]
  host     \* the host's: [pixels, dirty, shown, rows, rowsDirty, drawn]

panels == <<strip, screen, host>>

Index == 0 .. StripMax - 1
TextRow == 0 .. TextRows - 1
Dark == [i \in Index |-> 0]
NoText == [r \in TextRow |-> << >>]
Rgb(colour) == colour % 16777216

PanelsInit(ready) ==
  /\ strip = [ready |-> ready, count |-> 0, frame |-> Dark, dirty |-> FALSE, lit |-> Dark]
  /\ screen = [up |-> FALSE, rows |-> NoText, dirty |-> FALSE, drawn |-> NoText]
  /\ host = [pixels |-> << >>, dirty |-> FALSE, shown |-> << >>,
             rows |-> NoText, rowsDirty |-> FALSE, drawn |-> NoText]

(* PIXN: all off, and the pixels a longer program lit too.                 *)
InStrip(n) == IF n < 0 THEN 0 ELSE IF n > StripMax THEN StripMax ELSE n
DarkUpTo(n) == [i \in Index |-> IF i < n THEN 0 ELSE strip.frame[i]]
DarkFor(n) == Dark
Pixn(n) ==
  /\ strip' = [strip EXCEPT !.count = InStrip(n), !.frame = DarkFor(InStrip(n)), !.dirty = TRUE]
  /\ host' = [host EXCEPT !.pixels = [i \in 1 .. InStrip(n) |-> 0], !.dirty = TRUE]
  /\ UNCHANGED screen

(* PIX: one pixel, or all of the program's at -1; no other index.          *)
Touched(i) == IF i = -1 THEN 0 .. strip.count - 1 ELSE {i}
Pix(i, colour) ==
  /\ IF i = -1 \/ i \in 0 .. strip.count - 1
     THEN strip' = [strip EXCEPT
            !.frame = [j \in Index |-> IF j \in Touched(i) THEN Rgb(colour) ELSE @[j]],
            !.dirty = TRUE]
     ELSE UNCHANGED strip
  /\ IF i = -1 \/ i + 1 \in DOMAIN host.pixels
     THEN host' = [host EXCEPT
            !.pixels = [j \in DOMAIN @ |-> IF i \in {-1, j - 1} THEN colour ELSE @[j]],
            !.dirty = TRUE]
     ELSE UNCHANGED host
  /\ UNCHANGED screen

(* DCLR, DTEXT, DNUM.                                                      *)
Dclr ==
  /\ screen' = [screen EXCEPT !.rows = NoText, !.dirty = TRUE]
  /\ host' = [host EXCEPT !.rows = NoText, !.rowsDirty = TRUE]
  /\ UNCHANGED strip
Dtext(row, text, append) ==
  /\ row \in TextRow => Len(screen.rows[row]) < RowMax \/ ~append
  /\ IF row \in TextRow
     THEN /\ screen' = [screen EXCEPT !.dirty = TRUE,
                          !.rows[row] = (IF append THEN @ ELSE << >>) \o <<text>>]
          /\ host' = [host EXCEPT !.rowsDirty = TRUE,
                          !.rows[row] = (IF append THEN @ ELSE << >>) \o <<text>>]
     ELSE UNCHANGED <<screen, host>>
  /\ UNCHANGED strip

(* The end of runtime::tick: pixelsShow, displayShow.  The screen is tried *)
(* until it comes up, and only when there is something to draw.            *)
Shown ==
  /\ strip' = IF strip.dirty /\ strip.ready
              THEN [strip EXCEPT !.dirty = FALSE, !.lit = strip.frame] ELSE strip
  /\ IF screen.dirty
     THEN \E up \in (IF screen.up THEN {TRUE} ELSE BOOLEAN) :
            screen' = IF up THEN [screen EXCEPT !.up = TRUE, !.dirty = FALSE, !.drawn = screen.rows]
                      ELSE screen
     ELSE UNCHANGED screen
  /\ host' = [host EXCEPT !.dirty = FALSE, !.shown = IF host.dirty THEN host.pixels ELSE @,
                          !.rowsDirty = FALSE, !.drawn = IF host.rowsDirty THEN host.rows ELSE @]

StripStep ==
  \/ \E n \in Counts : Pixn(n)
  \/ \E i \in -2 .. StripMax, colour \in Colours : Pix(i, colour)
  \/ Shown
ScreenStep ==
  \/ Dclr
  \/ \E row \in -1 .. TextRows, text \in {"label", "number"} : Dtext(row, text, text = "number")
  \/ Shown
-----------------------------------------------------------------------------
(* The host stands in for the board: a strip that is ready shows, and a    *)
(* screen that came up draws, what the host's shows, colours to 24 bits    *)
(* and dark past the program's pixels.                                     *)
ShownAsOnHost ==
  /\ strip.ready => \A i \in Index :
       strip.lit[i] = IF i + 1 \in DOMAIN host.shown THEN Rgb(host.shown[i + 1]) ELSE 0
  /\ screen.up => screen.drawn = host.drawn
=============================================================================
