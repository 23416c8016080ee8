---------------------------- MODULE InitConsole ----------------------------
(***************************************************************************)
(* The command line of user/init/init.c on the console drivers of          *)
(* HalConsole, with a keyboard and a serial line that deliver bytes at any *)
(* time and other threads that print while init yields.                    *)
(*                                                                         *)
(* One turn of init's loop is one action: its system calls are not         *)
(* interrupted by other threads, and a byte that arrives during a turn is  *)
(* seen by this turn or by the next.                                       *)
(***************************************************************************)
EXTENDS HalConsole

CONSTANTS
  LineMax,            \* sizeof(Line) - 1
  SerialChars,        \* bytes that arrive on the serial line
  EarlierText,        \* what is printed between HalClearDisplay and init's first turn
  Texts,              \* texts that other threads print
  CommandOutput(_),   \* what KipSysDebugPrint prints after a text it takes as a command
  MaxEvents,          \* bound on keys, serial bytes and prints of other threads
  MaxPending          \* bound on bytes waiting in the keyboard controller

VARIABLES
  display,      \* gHalFb, gHalFbCursorX and gHalFbCursorY
  keyboard,     \* gHalPs2ShiftLeft, ShiftRight, CapsLock and Extended
  codes,        \* bytes waiting at the PS/2 data port
  serial,       \* bytes waiting at COM1
  line,         \* Line and LineLen
  promptShown,
  cursorShown,
  yielded,      \* init is in NkSysYield
  pressed,      \* the keys that are held down, and the lock the user sees
  capsOn,
  typed,        \* ghost: characters of the keys pressed, not yet read
  disturbed,    \* ghost: another thread has printed since the prompt
  events        \* ghost: how many keys, serial bytes and prints there were

vars == <<display, keyboard, codes, serial, line, promptShown, cursorShown, yielded, pressed,
          capsOn, typed, disturbed, events>>

Prompt == <<">">>
CursorOn == <<"underscore">>
CursorOff == <<Backspace, Space, Backspace>>
Banner == <<"i", Newline>>
Hint == <<"h", Newline>>

(* The text, then the output of the command it begins with, if any. *)
KipSysDebugPrint(d, s) == HalWriteDebugString(d, s \o CommandOutput(s))

Printable(ch) == ch \notin {Newline, Return, Backspace} \cup Unprintable

(* The characters a line may hold, and every text that is given to         *)
(* KipSysDebugPrint.                                                       *)
LineChars == {ch \in SerialChars \cup Typeable : Printable(ch)}
Printed == {Prompt, CursorOn, CursorOff, Banner, Hint, <<Newline>>}
             \cup Texts \cup SeqOf(LineChars, LineMax)

(* No text of the kernel or of init holds a carriage return, and every     *)
(* command has at least two characters, so that neither the prompt, the    *)
(* cursor nor the echo of a character is one.                              *)
OutputChars == STRING \ {Return}

ASSUME TextAssumption ==
  /\ SerialChars \subseteq STRING
  /\ EarlierText \in Seq(OutputChars) /\ Texts \subseteq Seq(OutputChars)
  /\ \A s \in Printed : CommandOutput(s) \in Seq(OutputChars)
  /\ \A s \in {Prompt, CursorOn, CursorOff} : CommandOutput(s) = <<>>
  /\ \A ch \in LineChars : CommandOutput(<<ch>>) = <<>>

(* The longest line fits the screen with its prompt and its cursor, after  *)
(* a scroll too.                                                           *)
ASSUME LineAssumption ==
  /\ {LineMax, MaxEvents, MaxPending} \subseteq Nat \ {0}
  /\ LineMax + 1 <= (Rows - 1) * Cols

-----------------------------------------------------------------------------
(* KiLaunchInitProcess clears the display; the kernel's validation suite   *)
(* has printed something before init first runs.                           *)
Init ==
  /\ LET before == HalWriteDebugString(HalpFbClear, EarlierText)
     IN  display = KipSysDebugPrint(KipSysDebugPrint(before, Banner), Hint)
  /\ keyboard = KeyboardReset
  /\ codes = <<>> /\ serial = <<>>
  /\ line = <<>>
  /\ promptShown = FALSE /\ cursorShown = FALSE
  /\ yielded = FALSE
  /\ pressed = {} /\ capsOn = FALSE
  /\ typed = <<>> /\ disturbed = FALSE
  /\ events = 0

(* HalTryReadConsoleChar, as KipSysReadConsole calls it for one byte: the  *)
(* serial line first.                                                      *)
HalTryReadConsoleChar ==
  IF serial # <<>> THEN Head(serial)
  ELSE IF codes # <<>> THEN HalpPs2TryReadChar(keyboard, Head(codes)).ch
  ELSE NoChar

TakeByte ==
  IF serial # <<>>
  THEN serial' = Tail(serial) /\ UNCHANGED <<codes, keyboard, typed>>
  ELSE IF codes # <<>>
  THEN LET read == HalpPs2TryReadChar(keyboard, Head(codes)) IN
       /\ codes' = Tail(codes)
       /\ keyboard' = read.state
       /\ typed' = IF read.ch = NoChar \/ typed = <<>> THEN typed ELSE Tail(typed)
       /\ UNCHANGED serial
  ELSE UNCHANGED <<codes, keyboard, serial, typed>>

(* The top of the loop: the prompt of a new line, then the cursor. *)
NewLine == line = <<>> /\ ~promptShown
Prompted == promptShown \/ NewLine
Ready ==
  LET d == IF NewLine THEN KipSysDebugPrint(display, Prompt) ELSE display
  IN  IF Prompted /\ ~cursorShown THEN KipSysDebugPrint(d, CursorOn) ELSE d
Erased == IF cursorShown \/ Prompted THEN KipSysDebugPrint(Ready, CursorOff) ELSE Ready

Nothing ==
  /\ HalTryReadConsoleChar = NoChar
  /\ display' = Ready
  /\ cursorShown' = (cursorShown \/ Prompted)
  /\ promptShown' = Prompted
  /\ yielded' = TRUE
  /\ UNCHANGED line

Enter ==
  /\ HalTryReadConsoleChar \in {Newline, Return}
  /\ LET d == KipSysDebugPrint(Erased, <<Newline>>) IN
     display' = IF line = <<>> THEN d
                ELSE KipSysDebugPrint(KipSysDebugPrint(d, line), <<Newline>>)
  /\ line' = <<>>
  /\ promptShown' = FALSE /\ cursorShown' = FALSE
  /\ yielded' = FALSE

Rubout ==
  /\ HalTryReadConsoleChar \in {Backspace, Delete}
  /\ line # <<>>
  /\ line' = Front(line)
  /\ display' = KipSysDebugPrint(Erased, CursorOff)
  /\ promptShown' = Prompted /\ cursorShown' = FALSE
  /\ yielded' = FALSE

(* Any other byte: echoed if it is printable and there is room. *)
OtherByte ==
  LET ch == HalTryReadConsoleChar
      keep == Len(line) < LineMax /\ Printable(ch)
      d == IF keep THEN KipSysDebugPrint(Erased, <<ch>>) ELSE Erased
  IN
  /\ ch \notin {NoChar, Newline, Return}
  /\ ch \in {Backspace, Delete} => line = <<>>
  /\ line' = IF keep THEN Append(line, ch) ELSE line
  /\ display' = IF Prompted THEN KipSysDebugPrint(d, CursorOn) ELSE d
  /\ promptShown' = Prompted /\ cursorShown' = Prompted
  /\ yielded' = FALSE

Turn ==
  /\ Nothing \/ Enter \/ Rubout \/ OtherByte
  /\ TakeByte
  /\ disturbed' = (disturbed /\ ~NewLine)
  /\ UNCHANGED <<pressed, capsOn, events>>

(* Another thread prints before init gets the CPU back. *)
OtherPrints(s) ==
  /\ yielded
  /\ events < MaxEvents
  /\ display' = KipSysDebugPrint(display, s)
  /\ disturbed' = TRUE
  /\ events' = events + 1
  /\ UNCHANGED <<keyboard, codes, serial, line, promptShown, cursorShown, yielded, pressed,
                 capsOn, typed>>

SerialByte(ch) ==
  /\ events < MaxEvents
  /\ serial' = Append(serial, ch)
  /\ events' = events + 1
  /\ UNCHANGED <<display, keyboard, codes, line, promptShown, cursorShown, yielded, pressed,
                 capsOn, typed, disturbed>>

-----------------------------------------------------------------------------
(* The keyboard: what a key sends, and the character the user expects. *)
PhysicalKeys == (Keys \ {"dead"}) \cup {"keypadEnter", "arrow", "pause"}
CodesOf(k, broken) ==
  CASE k = "keypadEnter" -> <<<<"E0", FALSE>>, <<"enter", broken>>>>
    [] k = "arrow" -> <<<<"E0", FALSE>>, <<"symbol", broken>>>>
    [] k = "pause" -> <<<<"E1", FALSE>>, <<"dead", broken>>>>
    [] OTHER -> <<<<k, broken>>>>

ShiftHeld == pressed \cap {"shiftLeft", "shiftRight"} # {}
Meant(k) ==
  CASE k = "letter" -> IF ShiftHeld # capsOn THEN <<"A">> ELSE <<"a">>
    [] k = "symbol" -> IF ShiftHeld THEN <<"!">> ELSE <<"1">>
    [] k \in {"enter", "keypadEnter"} -> <<Newline>>
    [] k = "backspace" -> <<Backspace>>
    [] OTHER -> <<>>

Sends(c) ==
  /\ events < MaxEvents
  /\ Len(codes) + Len(c) <= MaxPending
  /\ codes' = codes \o c
  /\ events' = events + 1
  /\ UNCHANGED <<display, keyboard, serial, line, promptShown, cursorShown, yielded, disturbed>>

(* A key that is held repeats, Caps Lock excepted. *)
Press(k) ==
  /\ k \in pressed => k # "caps"
  /\ Sends(CodesOf(k, FALSE))
  /\ typed' = typed \o Meant(k)
  /\ pressed' = pressed \cup {k}
  /\ capsOn' = (capsOn # (k = "caps"))

Release(k) ==
  /\ k \in pressed
  /\ Sends(CodesOf(k, TRUE))
  /\ pressed' = pressed \ {k}
  /\ UNCHANGED <<typed, capsOn>>

Next ==
  \/ Turn
  \/ \E s \in Texts : OtherPrints(s)
  \/ \E ch \in SerialChars : SerialByte(ch)
  \/ \E k \in PhysicalKeys : Press(k) \/ Release(k)

Spec == Init /\ [][Next]_vars

-----------------------------------------------------------------------------
DecodeNext(r, code) ==
  LET read == HalpPs2TryReadChar(r.state, code)
  IN  [state |-> read.state, text |-> IF read.ch = NoChar THEN r.text ELSE Append(r.text, read.ch)]
Decode(k, s) ==
  LET after[n \in 0 .. Len(s)] ==
        IF n = 0 THEN [state |-> k, text |-> <<>>] ELSE DecodeNext(after[n - 1], s[n])
  IN  after[Len(s)]

(* The bytes that wait at the keyboard port, decoded from the state the    *)
(* driver is in, give exactly the characters of the keys that were         *)
(* pressed, with the shift keys and the lock as they were at that moment,  *)
(* however reads, serial bytes and releases fall between the bytes of one  *)
(* key.                                                                    *)
KeysDecodeAsTyped == Decode(keyboard, codes).text = typed

Position(d) == d.y * Cols + d.x
CharAt(d, i) ==
  LET pixel == d.fb[(i \div Cols) * CellHeight][i % Cols]
  IN  IF pixel = Background THEN Space ELSE pixel[1]

(* The cells before the cursor read text. *)
Shows(d, text) ==
  \A i \in 1 .. Len(text) : CharAt(d, Position(d) - Len(text) + i - 1) = text[i]

(* While init waits, the cells before the cursor read the prompt, the line *)
(* as it will be submitted, and the cursor mark, across wrapped rows,      *)
(* scrolling and rubout, unless another thread has printed since.          *)
EchoShowsLine ==
  yielded /\ ~disturbed => Shows(display, Prompt \o line \o CursorOn)

CellRows(r) == r * CellHeight .. r * CellHeight + CellHeight - 1

Intact(d) ==
  /\ d.x \in 0 .. Cols /\ d.y \in 0 .. Rows - 1
  /\ \A r \in 0 .. Rows - 1, c \in Columns :
       LET top == d.fb[r * CellHeight][c] IN
       \A p \in CellRows(r) :
         d.fb[p][c] = IF top = Background THEN Background ELSE <<top[1], p % CellHeight>>
  /\ \A p \in Rows * CellHeight .. Height - 1 : d.fb[p] = BlankRow
  /\ \A i \in Position(d) .. Rows * Cols - 1 : CharAt(d, i) = Space

(* Every cell of the display is blank or shows one whole glyph, the pixel  *)
(* rows below the last text row are blank, and so is all text behind the   *)
(* cursor.                                                                 *)
ScreenIntact == Intact(display)
=============================================================================
