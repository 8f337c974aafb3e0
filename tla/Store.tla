-------------------------------- MODULE Store --------------------------------
(***************************************************************************)
(* The one-program store under SAVE, CLEAR and the boot's load             *)
(* (zephyr/src/hal_zephyr.cpp): on the ESP32-S3 a record of NVS, written   *)
(* whole or not at all; on the other two a header (magic, length) and the  *)
(* text, written block by block from the start of a flash area, which the  *)
(* UNO R4 erases first.  A block holds the header or one token, and power  *)
(* may go between any two.                                                 *)
(***************************************************************************)
EXTENDS Contract

CONSTANT Cap  \* tokens the store has room for
ASSUME StoreAssumption == Cap \in Nat \ {0}

VARIABLES
  board,    \* the board this build is for
  flash,    \* [magic, len, cells]: the blob, or the record of NVS
  writing   \* [text, at]: the SAVE under way and its next block; Idle

(* History: the text that was last saved whole ( << >> when cleared), and  *)
(* what the flash held before a SAVE that was cut, with that SAVE's text.  *)
VARIABLES settled, cut

storeVars == <<board, flash, writing, settled, cut>>

Erased == <<"erased", 0>>   \* what an erased block reads as
Blank == [magic |-> FALSE, len |-> 0, cells |-> [i \in 1 .. Cap |-> Erased]]
Idle == [text |-> << >>, at |-> -1]
Whole == [text |-> << >>, before |-> << >>, cells |-> << >>]

Erases == board = "UNOR4"
Blob == board # "ESP32S3"

Unerased(f) == f
Erasing(f) == Blank
Written(text) ==
  [magic |-> TRUE, len |-> Len(text),
   cells |-> [i \in 1 .. Cap |-> IF i <= Len(text) THEN text[i] ELSE Erased]]

(* storeLoad: nothing but the magic and the length is checked.             *)
Loaded ==
  IF flash.magic /\ flash.len \in 1 .. Cap THEN SubSeq(flash.cells, 1, flash.len) ELSE << >>

(* storeSave: NVS at once, the blob's erase and then its blocks.           *)
SaveWhole(text) ==
  /\ ~Blob /\ Len(text) <= Cap
  /\ flash' = Written(text)
  /\ settled' = text /\ cut' = Whole /\ UNCHANGED <<board, writing>>
SaveBegins(text) ==
  /\ Blob /\ Len(text) <= Cap
  /\ flash' = IF Erases THEN Erasing(flash) ELSE flash
  /\ writing' = [text |-> text, at |-> 0]
  /\ cut' = [text |-> text, before |-> Loaded, cells |-> flash'.cells] /\ UNCHANGED <<board, settled>>

HeaderBlock == [flash EXCEPT !.magic = TRUE, !.len = Len(writing.text)]
TextBlock(i) == [flash EXCEPT !.cells[i] = writing.text[i]]
WriteBlock ==
  /\ writing # Idle
  /\ flash' = IF writing.at = 0 THEN HeaderBlock ELSE TextBlock(writing.at)
  /\ IF writing.at = Len(writing.text)
     THEN writing' = Idle /\ settled' = writing.text /\ cut' = Whole
     ELSE writing' = [writing EXCEPT !.at = @ + 1] /\ UNCHANGED <<settled, cut>>
  /\ UNCHANGED board

(* storeClear.                                                             *)
Cleared == IF Erases \/ ~Blob THEN Blank ELSE [flash EXCEPT !.magic = FALSE, !.len = 0]
Clear ==
  /\ writing = Idle /\ flash' = Cleared
  /\ settled' = << >> /\ cut' = Whole /\ UNCHANGED <<board, writing>>

StoreInit ==
  /\ board \in Boards /\ flash = Blank /\ writing = Idle
  /\ settled = << >> /\ cut = Whole
-----------------------------------------------------------------------------
(* What the next boot would load is the text last saved whole, or nothing  *)
(* after a CLEAR.  Since a SAVE that power cut, it may also be what it was *)
(* before, or the tokens that SAVE had written and, up to its length, what *)
(* the flash held there before: on the UNO R4 nothing or only erased blocks*)
(* there, never a token of an older program.  NVS is never cut.            *)
Spliced(text, cells, k) ==
  [i \in 1 .. Len(text) |-> IF i <= k THEN text[i] ELSE cells[i]]
BootsWhatWasSaved ==
  \/ Loaded = settled
  \/ /\ cut # Whole /\ Blob
     /\ \/ Loaded = IF Erases THEN << >> ELSE cut.before
        \/ \E k \in 0 .. Len(cut.text) :
             Loaded = Spliced(cut.text, IF Erases THEN Blank.cells ELSE cut.cells, k)
=============================================================================
