----------------------------- MODULE HalConsole -----------------------------
(***************************************************************************)
(* The console drivers of hal/aur64/hal_aur64.c as operators on their      *)
(* state: the framebuffer text display and the PS/2 keyboard decoder.      *)
(*                                                                         *)
(* The framebuffer is fb[y][c]: what pixel row y shows in text column c,   *)
(* Background or row r of the glyph of a character, <<ch, r>>.  Height     *)
(* need not be a multiple of CellHeight, as on real screens.               *)
(*                                                                         *)
(* A scan code is <<key, broken>>; the prefixes E0 and E1 are written as   *)
(* keys that are never broken.  Keys stand for classes of the 128 codes:   *)
(* a letter, a key with two symbols, Enter (also the code of the keypad's  *)
(* Enter after E0), Backspace, the shift keys, Caps Lock, and a key        *)
(* without a character.                                                    *)
(***************************************************************************)
EXTENDS Naturals, Sequences, SequencesExt

CONSTANTS
  CellHeight,   \* HALP_CONSOLE_CELL_H
  Height,       \* gHalFbHeight, in pixel rows
  Cols          \* gHalFbCols

ASSUME ConsoleConstants ==
  /\ {CellHeight, Height, Cols} \subseteq Nat \ {0}
  /\ Height > CellHeight

Rows == Height \div CellHeight          \* gHalFbRows
PixelRows == 0 .. Height - 1
Columns == 0 .. Cols - 1
Background == <<>>

(* Characters with a meaning of their own; any other printable character   *)
(* is a glyph.                                                             *)
Newline == "nl"
Return == "cr"
Backspace == "bs"
Delete == "del"
Space == "sp"
Unprintable == {Delete, "tab"}

(* Glyph rows of a cell; the glyph of a space is all background. *)
Glyph(ch, r) == IF ch = Space THEN Background ELSE <<ch, r>>

-----------------------------------------------------------------------------
HalpFbFill(fb, c, y, rows) ==
  [p \in PixelRows |-> IF p \in y .. y + rows - 1 THEN [fb[p] EXCEPT ![c] = Background] ELSE fb[p]]

BlankRow == [c \in Columns |-> Background]

HalpFbClear == [fb |-> [p \in PixelRows |-> BlankRow], x |-> 0, y |-> 0]

FillFromText(fb) ==                          \* mutant: the fill starts below the text rows
  [p \in PixelRows |-> IF p >= Rows * CellHeight THEN BlankRow
                       ELSE IF p + CellHeight < Height THEN fb[p + CellHeight] ELSE fb[p]]

(* Everything moves up one text row; the last CellHeight pixel rows are    *)
(* cleared.                                                                *)
HalpFbScroll(fb) ==
  [p \in PixelRows |-> IF p >= Height - CellHeight THEN BlankRow ELSE fb[p + CellHeight]]

ScrolledInto(d) ==
  IF d.y >= Rows THEN [d EXCEPT !.fb = HalpFbScroll(d.fb), !.y = Rows - 1] ELSE d

BackInRow(d) ==                              \* mutant: no step back to the row above
  IF d.x > 0 THEN [d EXCEPT !.x = @ - 1] ELSE d
StepBack(d) ==
  IF d.x > 0 THEN [d EXCEPT !.x = @ - 1]
  ELSE IF d.y > 0 THEN [d EXCEPT !.y = @ - 1, !.x = Cols - 1]
  ELSE d

ClearCell(d) == [d EXCEPT !.fb = HalpFbFill(d.fb, d.x, d.y * CellHeight, CellHeight)]

DrawGlyph(d, ch) ==
  [d EXCEPT !.fb = [p \in PixelRows |->
                      IF p \div CellHeight = d.y
                      THEN [d.fb[p] EXCEPT ![d.x] = Glyph(ch, p % CellHeight)]
                      ELSE d.fb[p]],
            !.x = @ + 1]

(* The row is left only when the next character needs room. *)
HalpFbPutChar(d, ch) ==
  CASE ch = Return -> [d EXCEPT !.x = 0]
    [] ch = Newline -> ScrolledInto([d EXCEPT !.x = 0, !.y = @ + 1])
    [] ch = Backspace -> IF d.x = 0 /\ d.y = 0 THEN d ELSE ClearCell(StepBack(d))
    [] OTHER ->
         LET wrapped == IF d.x >= Cols THEN [d EXCEPT !.x = 0, !.y = @ + 1] ELSE d
         IN  DrawGlyph(ScrolledInto(wrapped), IF ch \in Unprintable THEN "?" ELSE ch)

HalWriteDebugString(d, s) ==
  LET after[n \in 0 .. Len(s)] == IF n = 0 THEN d ELSE HalpFbPutChar(after[n - 1], s[n])
  IN  after[Len(s)]

-----------------------------------------------------------------------------
Keys == {"letter", "symbol", "enter", "backspace", "shiftLeft", "shiftRight", "caps", "dead"}
NoChar == "none"

gHalPs2Map == [k \in Keys |->
  CASE k = "letter" -> "a" [] k = "symbol" -> "1" [] k = "enter" -> Newline
    [] k = "backspace" -> Backspace [] OTHER -> NoChar]
gHalPs2MapShift == [gHalPs2Map EXCEPT !["letter"] = "A", !["symbol"] = "!"]

Typeable == {"a", "A", "1", "!"}            \* the glyphs among them

KeyboardReset == [left |-> FALSE, right |-> FALSE, caps |-> FALSE, extended |-> FALSE]

PrefixSurvives(k) == k                       \* mutant: a release keeps gHalPs2Extended
PrefixUsed(k) == [k EXCEPT !.extended = FALSE]

MapKey(k, key) ==
  LET shifted == k.left \/ k.right
      ch == IF shifted THEN gHalPs2MapShift[key] ELSE gHalPs2Map[key]
  IN  IF key = "letter" /\ k.caps THEN (IF shifted THEN "a" ELSE "A") ELSE ch

(* One byte from the keyboard: the new state of the decoder and the        *)
(* character it gives, if any.                                             *)
HalpPs2TryReadChar(k, code) ==
  LET Quiet(state) == [state |-> state, ch |-> NoChar]
      key == code[1]
      made == ~code[2]
      plain == key \notin {"E0", "E1", "shiftLeft", "shiftRight"}
  IN
  CASE key = "E0" -> Quiet([k EXCEPT !.extended = TRUE])
    [] key = "E1" -> Quiet([k EXCEPT !.extended = FALSE])
    [] key = "shiftLeft" -> Quiet([k EXCEPT !.left = made, !.extended = FALSE])
    [] key = "shiftRight" -> Quiet([k EXCEPT !.right = made, !.extended = FALSE])
    [] key = "caps" /\ made -> Quiet([k EXCEPT !.caps = ~@, !.extended = FALSE])
    [] plain /\ ~made -> Quiet(PrefixUsed(k))
    [] plain /\ made /\ key # "caps" /\ k.extended ->
         [state |-> [k EXCEPT !.extended = FALSE],
          ch |-> IF key = "enter" THEN Newline ELSE NoChar]
    [] OTHER -> [state |-> k, ch |-> MapKey(k, key)]
=============================================================================
