------------------------ MODULE InitConsole_proofs ------------------------
(***************************************************************************)
(* Proofs about the console: for every screen, line length, text and       *)
(* amount of input, the keyboard decoder gives what was typed, the display *)
(* shows whole characters, and what is read before init's cursor is the    *)
(* line it will submit.                                                    *)
(*                                                                         *)
(* The framebuffer is reasoned about through a grid of characters, one per *)
(* cell and one row more for the pixel rows below the last text row: each  *)
(* operation of the display is an operation on the grid it is drawn from.  *)
(***************************************************************************)
EXTENDS InitConsole, NaturalsInduction, WellFoundedInduction, TLAPS

-----------------------------------------------------------------------------
(***************************************************************************)
(* Induction and arithmetic.                                               *)
(***************************************************************************)

(* Well-ordering, from the library's theorem on the natural numbers. *)
LEMMA SmallestMember ==
  ASSUME NEW S, S \subseteq Nat, S # {}
  PROVE  \E p \in S : \A q \in S : p <= q
<1> DEFINE R == {ss \in Nat \X Nat : ss[1] < ss[2]}
<1>1. IsWellFoundedOn(R, Nat)
  <2>1. OpToRel(<, Nat) = R
    BY Zenon DEF OpToRel
  <2> QED BY <2>1, NatLessThanWellFounded, Zenon
<1>2. PICK p \in S : \A q \in S : ~ (<<q, p>> \in R)
  <2> HIDE DEF R
  <2> QED BY <1>1, WFMin
<1>3. ASSUME NEW r \in S PROVE p <= r
  <2>1. r \in Nat /\ p \in Nat /\ ~ (<<r, p>> \in R)
    BY <1>2
  <2>2. ~ (r < p)
    BY <2>1
  <2> QED BY <2>1, <2>2
<1> QED BY <1>3

(* A loop that keeps a property at every turn has it at the end. *)
LEMMA Iteration ==
  ASSUME NEW n \in Nat, NEW S, 0 \in S, \A k \in 1 .. n : k - 1 \in S => k \in S
  PROVE  \A k \in 0 .. n : k \in S
<1> DEFINE D == {k \in 0 .. n : k \notin S}
<1> SUFFICES ASSUME D # {} PROVE FALSE
  OBVIOUS
<1>1. D \subseteq Nat
  OBVIOUS
<1>2. PICK m \in D : \A q \in D : m <= q
  <2> HIDE DEF D
  <2> QED BY <1>1, SmallestMember
<1>3. m \in 1 .. n /\ m - 1 \in 0 .. n /\ m - 1 < m
  BY <1>2
<1>4. m - 1 \in S
  BY <1>2, <1>3
<1> QED BY <1>2, <1>3, <1>4

(* Products of ordered factors are ordered. *)
LEMMA Products ==
  ASSUME NEW a \in Nat, NEW b \in Nat, NEW n \in Nat
  PROVE  /\ a * n \in Nat
         /\ a < b => a * n + n <= b * n
         /\ a <= b => a * n <= b * n
         /\ (a + 1) * n = a * n + n
<1>1. a * n \in Nat /\ b * n \in Nat
  OBVIOUS
<1>2. (a + 1) * n = a * n + n
  OBVIOUS
<1>3. ASSUME a <= b PROVE a * n <= b * n
  <2> DEFINE e == b - a
  <2>1. e \in Nat /\ b = a + e
    BY <1>3
  <2>2. e * n \in Nat
    BY <2>1
  <2>3. (a + e) * n = a * n + e * n
    BY <2>1
  <2> HIDE DEF e
  <2> QED BY <1>1, <2>1, <2>2, <2>3
<1>4. ASSUME a < b PROVE a * n + n <= b * n
  <2> DEFINE e == b - (a + 1)
  <2>1. e \in Nat /\ b = (a + 1) + e
    BY <1>4
  <2>2. e * n \in Nat
    BY <2>1
  <2>3. ((a + 1) + e) * n = (a + 1) * n + e * n
    BY <2>1
  <2> HIDE DEF e
  <2> QED BY <1>1, <1>2, <2>1, <2>2, <2>3
<1> QED BY <1>1, <1>2, <1>3, <1>4

(* Division with remainder. *)
LEMMA Division ==
  ASSUME NEW p \in Nat, NEW n \in Nat \ {0}
  PROVE  /\ p \div n \in Nat /\ p % n \in 0 .. n - 1
         /\ p = (p \div n) * n + (p % n)
<1>1. p \div n \in Nat
  OBVIOUS
<1>2. p % n \in 0 .. n - 1
  OBVIOUS
<1>3. p % n = p - n * (p \div n)
  OBVIOUS
<1>4. p = (p \div n) * n + (p % n)
  <2> DEFINE q == p \div n
             r == p % n
  <2>1. q \in Nat /\ r \in Nat /\ r = p - n * q
    BY <1>1, <1>2, <1>3
  <2> HIDE DEF q, r
  <2>2. p = q * n + r
    BY <2>1
  <2> QED BY <2>2, Zenon DEF q, r
<1> QED BY <1>1, <1>2, <1>4

(* Quotient and remainder are determined by what they add up to. *)
LEMMA DivisionUnique ==
  ASSUME NEW n \in Nat \ {0}, NEW q \in Nat, NEW r \in 0 .. n - 1
  PROVE  (q * n + r) \div n = q /\ (q * n + r) % n = r
<1> DEFINE p == q * n + r
           a == p \div n
           b == p % n
<1>1. q * n \in Nat /\ p \in Nat
  OBVIOUS
<1>2. a \in Nat /\ b \in 0 .. n - 1 /\ p = a * n + b
  BY <1>1, Division
<1>3. (a < q => a * n + n <= q * n) /\ (q < a => q * n + n <= a * n)
  BY <1>2, Products
<1>4. a * n \in Nat
  BY <1>2
<1>5. p = q * n + r
  OBVIOUS
<1> HIDE DEF p, a, b
<1>6. ~ (a < q) /\ ~ (q < a)
  <2> DEFINE u == q * n
             v == a * n
  <2>1. u \in Nat /\ v \in Nat /\ p = u + r /\ p = v + b
    BY <1>1, <1>2, <1>4, <1>5
  <2>2. (a < q => v + n <= u) /\ (q < a => u + n <= v)
    BY <1>3
  <2> HIDE DEF u, v
  <2> QED BY <1>2, <2>1, <2>2
<1>7. a = q
  BY <1>2, <1>6
<1>8. b = r
  BY <1>1, <1>2, <1>5, <1>7
<1> QED BY <1>7, <1>8 DEF p, a, b

(* A number lies in the q-th interval of length n iff its quotient is q. *)
LEMMA QuotientIs ==
  ASSUME NEW p \in Nat, NEW n \in Nat \ {0}, NEW q \in Nat
  PROVE  p \div n = q <=> p \in q * n .. q * n + n - 1
<1>1. q * n \in Nat
  OBVIOUS
<1>2. ASSUME p \div n = q PROVE p \in q * n .. q * n + n - 1
  <2> DEFINE u == q * n
             b == p % n
  <2>1. u \in Nat /\ b \in 0 .. n - 1 /\ p = u + b
    BY <1>1, <1>2, Division
  <2> HIDE DEF b
  <2>2. p \in u .. u + n - 1
    <3> HIDE DEF u
    <3> QED BY <2>1
  <2> QED BY <2>2
<1>3. ASSUME p \in q * n .. q * n + n - 1 PROVE p \div n = q
  <2> DEFINE u == q * n
             r == p - u
  <2>1. r \in 0 .. n - 1 /\ p = u + r
    BY <1>1, <1>3
  <2> HIDE DEF r
  <2> QED BY <2>1, DivisionUnique
<1> QED BY <1>2, <1>3

(* One interval further on, the quotient is one more. *)
LEMMA NextInterval ==
  ASSUME NEW p \in Nat, NEW n \in Nat \ {0}
  PROVE  (p + n) \div n = (p \div n) + 1 /\ (p + n) % n = p % n
<1> DEFINE q == p \div n
           r == p % n
<1>1. q \in Nat /\ r \in 0 .. n - 1 /\ p = q * n + r
  BY Division
<1> HIDE DEF q, r
<1>2. (q + 1) * n = q * n + n /\ q * n \in Nat
  BY <1>1
<1>3. ((q + 1) * n + r) \div n = q + 1 /\ ((q + 1) * n + r) % n = r
  BY <1>1, DivisionUnique
<1>4. p + n = (q + 1) * n + r
  BY <1>1, <1>2
<1> QED BY <1>3, <1>4 DEF q, r

-----------------------------------------------------------------------------
(***************************************************************************)
(* The display.  A screen is drawn from a grid of characters, one for each *)
(* cell; the pixel rows below the last text row count as one more row of   *)
(* the grid, which is always blank.  Every operation on the framebuffer is *)
(* shown to be an operation on the grid.                                   *)
(***************************************************************************)
(* The provers do not know that a literal is a string. *)
Chars == OutputChars \cup {Newline, Backspace, Delete, Space, "tab", "?", ">", "underscore", "i", "h"}
                     \cup Typeable

Pixels == {Background} \cup (Chars \X Nat)
Framebuffers == [PixelRows -> [Columns -> Pixels]]
GridRows == 0 .. Rows
Grids == [GridRows -> [Columns -> Chars]]

(* d is a display, its cursor still to be scrolled into the last row. *)
Displays == [fb : Framebuffers, x : 0 .. Cols, y : GridRows]

Drawn(fb, g) ==
  /\ g \in Grids
  /\ \A c \in Columns : g[Rows][c] = Space
  /\ \A p \in PixelRows, c \in Columns : fb[p][c] = Glyph(g[p \div CellHeight][c], p % CellHeight)

(* Nothing is drawn behind position (x, y). *)
BlankBehind(g, x, y) ==
  \A r \in GridRows, c \in Columns : (r > y \/ (r = y /\ c >= x)) => g[r][c] = Space

(* The constants of the display and the size of its grid. *)
LEMMA Sizes ==
  /\ CellHeight \in Nat \ {0} /\ Height \in Nat \ {0} /\ Cols \in Nat \ {0}
  /\ Rows \in Nat \ {0} /\ Rows * CellHeight \in Nat
  /\ Rows * CellHeight <= Height /\ Height < Rows * CellHeight + CellHeight
  /\ Height > CellHeight
<1>1. CellHeight \in Nat \ {0} /\ Height \in Nat \ {0} /\ Cols \in Nat \ {0} /\ Height > CellHeight
  BY ConsoleConstants
<1>2. Rows \in Nat /\ Height \in Rows * CellHeight .. Rows * CellHeight + CellHeight - 1
  <2>1. Rows \in Nat
    BY <1>1, Division DEF Rows
  <2> QED BY <1>1, <2>1, QuotientIs DEF Rows
<1>3. Rows * CellHeight \in Nat
  BY <1>1, <1>2
<1>4. Rows # 0
  BY <1>1, <1>2
<1> QED BY <1>1, <1>2, <1>3, <1>4

(* The grid row of a pixel row, and of the pixel row one cell below. *)
LEMMA PixelRowFacts ==
  ASSUME NEW p \in PixelRows
  PROVE  /\ p \in Nat /\ p \div CellHeight \in GridRows /\ p % CellHeight \in Nat
         /\ p < Height - CellHeight =>
              /\ p + CellHeight \in PixelRows /\ (p \div CellHeight) + 1 \in GridRows
              /\ (p + CellHeight) \div CellHeight = (p \div CellHeight) + 1
              /\ (p + CellHeight) % CellHeight = p % CellHeight
         /\ p >= Height - CellHeight => p \div CellHeight >= Rows - 1
<1>1. p \in Nat /\ p < Height
  BY Sizes DEF PixelRows
<1>2. \A q \in PixelRows : q \div CellHeight \in GridRows
  <2> SUFFICES ASSUME NEW q \in PixelRows PROVE q \div CellHeight \in GridRows
    OBVIOUS
  <2> DEFINE r == q \div CellHeight
  <2>1. q \in Nat /\ q < Height
    BY Sizes DEF PixelRows
  <2>2. r \in Nat /\ q \in r * CellHeight .. r * CellHeight + CellHeight - 1
    <3>1. r \in Nat
      BY <2>1, Sizes, Division
    <3> QED BY <2>1, <3>1, Sizes, QuotientIs
  <2>3. Rows < r => Rows * CellHeight + CellHeight <= r * CellHeight
    BY <2>2, Sizes, Products
  <2>4. r * CellHeight \in Nat
    BY <2>2, Sizes
  <2> HIDE DEF r
  <2>5. r <= Rows
    BY <2>1, <2>2, <2>3, <2>4, Sizes
  <2> QED BY <2>2, <2>5, Sizes DEF GridRows, r
<1>3. p % CellHeight \in Nat
  BY <1>1, Sizes, Division
<1>4. ASSUME p < Height - CellHeight
      PROVE  /\ p + CellHeight \in PixelRows /\ (p \div CellHeight) + 1 \in GridRows
             /\ (p + CellHeight) \div CellHeight = (p \div CellHeight) + 1
             /\ (p + CellHeight) % CellHeight = p % CellHeight
  <2>1. p + CellHeight \in PixelRows
    BY <1>1, <1>4, Sizes DEF PixelRows
  <2>2. /\ (p + CellHeight) \div CellHeight = (p \div CellHeight) + 1
        /\ (p + CellHeight) % CellHeight = p % CellHeight
    BY <1>1, Sizes, NextInterval
  <2> QED BY <1>2, <2>1, <2>2
<1>5. ASSUME p >= Height - CellHeight PROVE p \div CellHeight >= Rows - 1
  <2> DEFINE r == p \div CellHeight
  <2>1. r \in Nat /\ p \in r * CellHeight .. r * CellHeight + CellHeight - 1
    <3>1. r \in Nat
      BY <1>1, Sizes, Division
    <3> QED BY <1>1, <3>1, Sizes, QuotientIs
  <2>2. r + 1 < Rows => (r + 1) * CellHeight + CellHeight <= Rows * CellHeight
    BY <2>1, Sizes, Products
  <2>3. r * CellHeight \in Nat /\ (r + 1) * CellHeight = r * CellHeight + CellHeight
    BY <2>1, Sizes
  <2> HIDE DEF r
  <2>4. ~ (r + 1 < Rows)
    BY <1>1, <1>5, <2>1, <2>2, <2>3, Sizes
  <2>5. r >= Rows - 1
    BY <2>1, <2>4, Sizes
  <2> QED BY <2>5 DEF r
<1> QED BY <1>1, <1>2, <1>3, <1>4, <1>5

(* The characters that the programs name. *)
LEMMA CharFacts ==
  /\ Newline \in Chars /\ Backspace \in Chars /\ Space \in Chars /\ "?" \in Chars
  /\ ">" \in Chars /\ "underscore" \in Chars /\ "i" \in Chars /\ "h" \in Chars
  /\ Return \notin Chars
  /\ LineChars \subseteq Chars
<1>1. Return \notin Chars
  BY DEF Chars, OutputChars, Newline, Return, Backspace, Delete, Space, Typeable
<1>2. LineChars \subseteq Chars
  BY TextAssumption DEF LineChars, Printable, Chars, OutputChars
<1> QED BY <1>1, <1>2 DEF Chars

(* Every glyph row is a pixel value; a space draws background, anything    *)
(* else something that is not and that begins with its character.          *)
LEMMA GlyphFacts ==
  ASSUME NEW ch \in Chars, NEW r \in Nat
  PROVE  /\ Glyph(ch, r) \in Pixels
         /\ ch = Space => Glyph(ch, r) = Background
         /\ ch # Space => Glyph(ch, r) = <<ch, r>> /\ Glyph(ch, r) # Background /\ Glyph(ch, r)[1] = ch
<1>1. ch # Space => Glyph(ch, r) = <<ch, r>>
  BY DEF Glyph
<1>2. <<ch, r>> # Background /\ <<ch, r>>[1] = ch /\ <<ch, r>> \in Chars \X Nat
  BY DEF Background
<1>3. ch = Space => Glyph(ch, r) = Background
  BY DEF Glyph
<1> QED BY <1>1, <1>2, <1>3 DEF Pixels

(* Clearing the display draws the blank grid. *)
LEMMA ClearDraws ==
  /\ HalpFbClear \in Displays /\ HalpFbClear.x = 0 /\ HalpFbClear.y = 0
  /\ Drawn(HalpFbClear.fb, [r \in GridRows |-> [c \in Columns |-> Space]])
<1> DEFINE g == [r \in GridRows |-> [c \in Columns |-> Space]]
<1>1. g \in Grids
  BY CharFacts DEF Grids
<1>2. HalpFbClear.x = 0 /\ HalpFbClear.y = 0 /\ HalpFbClear.fb = [p \in PixelRows |-> BlankRow]
  BY DEF HalpFbClear
<1>3. HalpFbClear.fb \in Framebuffers
  BY <1>2 DEF Framebuffers, BlankRow, Pixels
<1>4. HalpFbClear \in Displays
  BY <1>2, <1>3, Sizes DEF Displays, GridRows, HalpFbClear
<1>5. \A p \in PixelRows, c \in Columns :
        HalpFbClear.fb[p][c] = Glyph(g[p \div CellHeight][c], p % CellHeight)
  <2> SUFFICES ASSUME NEW p \in PixelRows, NEW c \in Columns
               PROVE  HalpFbClear.fb[p][c] = Glyph(g[p \div CellHeight][c], p % CellHeight)
    OBVIOUS
  <2>1. g[p \div CellHeight][c] = Space
    BY PixelRowFacts
  <2>2. HalpFbClear.fb[p][c] = Background
    BY <1>2 DEF BlankRow
  <2> HIDE DEF g
  <2> QED BY <2>1, <2>2 DEF Glyph
<1>6. \A c \in Columns : g[Rows][c] = Space
  BY Sizes DEF GridRows
<1> HIDE DEF g
<1> QED BY <1>1, <1>2, <1>4, <1>5, <1>6 DEF Drawn, g

ScrolledGrid(g) ==
  [r \in GridRows |-> IF r < Rows - 1 THEN g[r + 1] ELSE [c \in Columns |-> Space]]

(* Scrolling the pixels scrolls the grid. *)
LEMMA ScrollDraws ==
  ASSUME NEW fb \in Framebuffers, NEW g, Drawn(fb, g)
  PROVE  HalpFbScroll(fb) \in Framebuffers /\ Drawn(HalpFbScroll(fb), ScrolledGrid(g))
<1> DEFINE n == HalpFbScroll(fb)
           h == ScrolledGrid(g)
<1>1. g \in Grids /\ Rows \in Nat \ {0}
  BY Sizes DEF Drawn
<1>2. h \in Grids
  <2>1. ASSUME NEW r \in GridRows
        PROVE  (IF r < Rows - 1 THEN g[r + 1] ELSE [c \in Columns |-> Space]) \in [Columns -> Chars]
    <3>1. r < Rows - 1 => r + 1 \in GridRows
      BY <1>1 DEF GridRows
    <3> QED BY <1>1, <3>1, CharFacts DEF Grids
  <2> QED BY <2>1 DEF Grids, ScrolledGrid
<1>3. n \in Framebuffers
  <2>1. ASSUME NEW p \in PixelRows
        PROVE  (IF p >= Height - CellHeight THEN BlankRow ELSE fb[p + CellHeight]) \in [Columns -> Pixels]
    <3>1. BlankRow \in [Columns -> Pixels]
      BY DEF BlankRow, Pixels
    <3>2. ~ (p >= Height - CellHeight) => p + CellHeight \in PixelRows
      BY Sizes, PixelRowFacts
    <3> QED BY <3>1, <3>2 DEF Framebuffers
  <2> QED BY <2>1 DEF Framebuffers, HalpFbScroll
<1>4. ASSUME NEW p \in PixelRows, NEW c \in Columns
      PROVE  n[p][c] = Glyph(h[p \div CellHeight][c], p % CellHeight)
  <2>1. p \in Nat /\ p \div CellHeight \in GridRows
    BY PixelRowFacts
  <2>2. CASE p >= Height - CellHeight
    <3>1. n[p][c] = Background
      BY <2>2 DEF HalpFbScroll, BlankRow
    <3>2. p \div CellHeight >= Rows - 1
      BY <2>2, PixelRowFacts
    <3>3. h[p \div CellHeight][c] = Space
      BY <1>1, <2>1, <3>2 DEF ScrolledGrid, GridRows
    <3> HIDE DEF n, h
    <3> QED BY <3>1, <3>3 DEF Glyph
  <2>3. CASE p < Height - CellHeight
    <3> DEFINE q == p + CellHeight
               r == p \div CellHeight
    <3>1. q \in PixelRows /\ r + 1 \in GridRows /\ q \div CellHeight = r + 1
            /\ q % CellHeight = p % CellHeight
      BY <2>3, PixelRowFacts
    <3>2. n[p][c] = fb[q][c]
      <4>1. ~ (p >= Height - CellHeight)
        BY <2>1, <2>3, Sizes
      <4> QED BY <4>1 DEF HalpFbScroll
    <3>3. fb[q][c] = Glyph(g[r + 1][c], p % CellHeight)
      <4> HIDE DEF q, r
      <4> QED BY <3>1 DEF Drawn
    <3>4. h[r][c] = g[r + 1][c]
      <4>1. r \in GridRows /\ (r < Rows - 1 \/ r + 1 = Rows)
        BY <1>1, <2>1, <3>1 DEF GridRows
      <4> HIDE DEF r
      <4>2. CASE r < Rows - 1
        BY <4>1, <4>2 DEF ScrolledGrid
      <4>3. CASE r + 1 = Rows
        <5>1. ~ (r < Rows - 1)
          BY <1>1, <4>1, <4>3 DEF GridRows
        <5> QED BY <4>1, <4>3, <5>1 DEF ScrolledGrid, Drawn
      <4> QED BY <4>1, <4>2, <4>3
    <3> HIDE DEF n, h, q
    <3> QED BY <3>2, <3>3, <3>4
  <2> QED BY <2>1, <2>2, <2>3, Sizes
<1>5. \A c \in Columns : h[Rows][c] = Space
  BY <1>1 DEF ScrolledGrid, GridRows
<1> HIDE DEF n, h
<1> QED BY <1>2, <1>3, <1>4, <1>5 DEF Drawn, n, h

PutInGrid(g, x, y, ch) ==
  [r \in GridRows |-> [c \in Columns |-> IF r = y /\ c = x THEN ch ELSE g[r][c]]]

(* Changing one cell of a grid gives a grid. *)
LEMMA PutInGridFacts ==
  ASSUME NEW g \in Grids, NEW x \in Columns, NEW y \in 0 .. Rows - 1, NEW ch \in Chars,
         \A c \in Columns : g[Rows][c] = Space
  PROVE  /\ PutInGrid(g, x, y, ch) \in Grids
         /\ \A r \in GridRows, c \in Columns :
              PutInGrid(g, x, y, ch)[r][c] = IF r = y /\ c = x THEN ch ELSE g[r][c]
         /\ \A c \in Columns : PutInGrid(g, x, y, ch)[Rows][c] = Space
<1>1. \A r \in GridRows, c \in Columns :
        PutInGrid(g, x, y, ch)[r][c] = IF r = y /\ c = x THEN ch ELSE g[r][c]
  BY DEF PutInGrid
<1>2. PutInGrid(g, x, y, ch) \in Grids
  BY DEF PutInGrid, Grids
<1>3. Rows \in GridRows /\ Rows # y
  BY Sizes DEF GridRows
<1> QED BY <1>1, <1>2, <1>3

(* Filling a cell with background draws a space there. *)
LEMMA FillDraws ==
  ASSUME NEW fb \in Framebuffers, NEW g, Drawn(fb, g), NEW x \in Columns, NEW y \in 0 .. Rows - 1
  PROVE  /\ HalpFbFill(fb, x, y * CellHeight, CellHeight) \in Framebuffers
         /\ Drawn(HalpFbFill(fb, x, y * CellHeight, CellHeight), PutInGrid(g, x, y, Space))
<1> DEFINE n == HalpFbFill(fb, x, y * CellHeight, CellHeight)
           h == PutInGrid(g, x, y, Space)
<1>1. g \in Grids /\ Space \in Chars /\ \A c \in Columns : g[Rows][c] = Space
  BY CharFacts DEF Drawn
<1>2. /\ h \in Grids /\ \A c \in Columns : h[Rows][c] = Space
      /\ \A r \in GridRows, c \in Columns : h[r][c] = IF r = y /\ c = x THEN Space ELSE g[r][c]
  BY <1>1, PutInGridFacts
<1>3. ASSUME NEW p \in PixelRows
      PROVE  p \in y * CellHeight .. y * CellHeight + CellHeight - 1 <=> p \div CellHeight = y
  BY Sizes, PixelRowFacts, QuotientIs
<1>4. n = [p \in PixelRows |-> IF p \div CellHeight = y THEN [fb[p] EXCEPT ![x] = Background] ELSE fb[p]]
  BY <1>3 DEF HalpFbFill
<1>5. n \in Framebuffers
  BY <1>4 DEF Framebuffers, Pixels
<1>6. ASSUME NEW p \in PixelRows, NEW c \in Columns
      PROVE  n[p][c] = Glyph(h[p \div CellHeight][c], p % CellHeight)
  <2>1. n[p][c] = IF p \div CellHeight = y /\ c = x THEN Background ELSE fb[p][c]
    BY <1>4 DEF Framebuffers
  <2>2. fb[p][c] = Glyph(g[p \div CellHeight][c], p % CellHeight) /\ p \div CellHeight \in GridRows
    BY PixelRowFacts DEF Drawn
  <2>3. h[p \div CellHeight][c] = IF p \div CellHeight = y /\ c = x THEN Space ELSE g[p \div CellHeight][c]
    BY <1>2, <2>2
  <2> HIDE DEF n, h
  <2> QED BY <2>1, <2>2, <2>3 DEF Glyph
<1> HIDE DEF n, h
<1> QED BY <1>2, <1>5, <1>6 DEF Drawn, n, h

(* The grid of a display whose cursor is at most one row too low. *)
Holds(d, g) == d \in Displays /\ Drawn(d.fb, g) /\ BlankBehind(g, d.x, d.y)

(* Scrolling brings the cursor into the last row. *)
LEMMA ScrolledIntoHolds ==
  ASSUME NEW d, NEW g, Holds(d, g)
  PROVE  /\ Holds(ScrolledInto(d), IF d.y = Rows THEN ScrolledGrid(g) ELSE g)
         /\ ScrolledInto(d).x = d.x
         /\ ScrolledInto(d).y = IF d.y = Rows THEN Rows - 1 ELSE d.y
<1>1. /\ d \in Displays /\ d.y \in GridRows /\ d.x \in 0 .. Cols /\ d.fb \in Framebuffers
      /\ Drawn(d.fb, g) /\ BlankBehind(g, d.x, d.y) /\ Rows \in Nat \ {0}
  BY Sizes DEF Holds, Displays
<1>2. CASE d.y # Rows
  <2>1. ~ (d.y >= Rows)
    BY <1>1, <1>2 DEF GridRows
  <2> QED BY <1>2, <2>1 DEF ScrolledInto
<1>3. CASE d.y = Rows
  <2> DEFINE e == ScrolledInto(d)
             h == ScrolledGrid(g)
  <2>1. e = [d EXCEPT !.fb = HalpFbScroll(d.fb), !.y = Rows - 1]
    BY <1>1, <1>3 DEF ScrolledInto
  <2>2. e.x = d.x /\ e.y = Rows - 1 /\ e.fb = HalpFbScroll(d.fb)
    BY <1>1, <2>1 DEF Displays
  <2>3. HalpFbScroll(d.fb) \in Framebuffers /\ Drawn(HalpFbScroll(d.fb), h)
    BY <1>1, ScrollDraws
  <2>4. Rows - 1 \in GridRows
    BY <1>1 DEF GridRows
  <2>5. e \in Displays
    <3> HIDE DEF e
    <3> QED BY <1>1, <2>1, <2>3, <2>4 DEF Displays
  <2>6. BlankBehind(h, e.x, e.y)
    <3> SUFFICES ASSUME NEW r \in GridRows, NEW c \in Columns, r > Rows - 1 \/ (r = Rows - 1 /\ c >= d.x)
                 PROVE  h[r][c] = Space
      BY <2>2 DEF BlankBehind
    <3>1. ~ (r < Rows - 1)
      BY <1>1 DEF GridRows
    <3> QED BY <3>1 DEF ScrolledGrid
  <2> HIDE DEF e, h
  <2>7. Holds(e, h)
    BY <2>2, <2>3, <2>5, <2>6 DEF Holds
  <2> QED BY <1>3, <2>2, <2>7 DEF e, h
<1> QED BY <1>2, <1>3

-----------------------------------------------------------------------------
(***************************************************************************)
(* The cells in reading order: At(g, i) is the i-th character of the grid. *)
(***************************************************************************)
At(g, i) == g[i \div Cols][i % Cols]
Cells == 0 .. Rows * Cols - 1

(* The row and the column of a cell. *)
LEMMA CellFacts ==
  ASSUME NEW i \in Cells
  PROVE  /\ i \in Nat /\ i \div Cols \in 0 .. Rows - 1 /\ i % Cols \in Columns
         /\ i = (i \div Cols) * Cols + (i % Cols)
<1>0. Cols \in Nat \ {0} /\ Rows \in Nat \ {0}
  BY Sizes
<1>1. i \in Nat /\ i < Rows * Cols /\ Rows * Cols \in Nat
  BY <1>0 DEF Cells
<1> DEFINE r == i \div Cols
           c == i % Cols
<1>2. r \in Nat /\ c \in 0 .. Cols - 1 /\ i = r * Cols + c
  BY <1>0, <1>1, Division
<1> HIDE DEF r, c
<1>3. Rows <= r => Rows * Cols <= r * Cols
  BY <1>0, <1>2, Products
<1>4. r * Cols \in Nat
  BY <1>0, <1>2
<1>5. r < Rows
  BY <1>0, <1>1, <1>2, <1>3, <1>4
<1>6. r \in 0 .. Rows - 1 /\ c \in Columns
  BY <1>0, <1>2, <1>5 DEF Columns
<1> QED BY <1>1, <1>2, <1>6 DEF r, c

(* The cell at a row and a column. *)
LEMMA CellOf ==
  ASSUME NEW r \in 0 .. Rows - 1, NEW c \in Columns
  PROVE  /\ r * Cols + c \in Cells
         /\ (r * Cols + c) \div Cols = r /\ (r * Cols + c) % Cols = c
<1>0. Cols \in Nat \ {0} /\ Rows \in Nat \ {0}
  BY Sizes
<1>1. r \in Nat /\ r < Rows /\ c \in 0 .. Cols - 1
  BY <1>0 DEF Columns
<1>2. r * Cols \in Nat /\ Rows * Cols \in Nat /\ r * Cols + Cols <= Rows * Cols
  BY <1>0, <1>1, Products
<1>3. r * Cols + c \in Cells
  BY <1>0, <1>1, <1>2 DEF Cells
<1> QED BY <1>0, <1>1, <1>3, DivisionUnique

(* Changing a cell leaves the others. *)
LEMMA PutAt ==
  ASSUME NEW g \in Grids, NEW x \in Columns, NEW y \in 0 .. Rows - 1, NEW ch, NEW i \in Cells
  PROVE  At(PutInGrid(g, x, y, ch), i) = IF i = y * Cols + x THEN ch ELSE At(g, i)
<1> DEFINE r == i \div Cols
           c == i % Cols
<1>1. r \in 0 .. Rows - 1 /\ c \in Columns /\ i = r * Cols + c
  BY CellFacts
<1>2. r \in GridRows
  BY <1>1, Sizes DEF GridRows
<1>3. (r = y /\ c = x) <=> i = y * Cols + x
  BY <1>1, CellOf
<1> HIDE DEF r, c
<1>4. PutInGrid(g, x, y, ch)[r][c] = IF r = y /\ c = x THEN ch ELSE g[r][c]
  BY <1>1, <1>2 DEF PutInGrid
<1>5. At(g, i) = g[r][c] /\ At(PutInGrid(g, x, y, ch), i) = PutInGrid(g, x, y, ch)[r][c]
  BY DEF At, r, c
<1> QED BY <1>3, <1>4, <1>5

(* Scrolling moves every cell one row up. *)
LEMMA ScrolledAt ==
  ASSUME NEW g \in Grids, NEW i \in Nat, i + Cols \in Cells
  PROVE  At(ScrolledGrid(g), i) = At(g, i + Cols)
<1> DEFINE r == i \div Cols
           c == i % Cols
<1>0. Cols \in Nat \ {0} /\ Rows \in Nat \ {0}
  BY Sizes
<1>1. r \in Nat /\ c \in Columns
  BY <1>0, Division DEF Columns
<1>2. (i + Cols) \div Cols = r + 1 /\ (i + Cols) % Cols = c
  BY <1>0, NextInterval
<1>3. r + 1 \in 0 .. Rows - 1
  BY <1>2, CellFacts
<1> HIDE DEF r, c
<1>4. r \in GridRows /\ r < Rows - 1
  BY <1>0, <1>1, <1>3 DEF GridRows
<1>5. ScrolledGrid(g)[r] = g[r + 1]
  BY <1>4 DEF ScrolledGrid
<1>6. At(ScrolledGrid(g), i) = ScrolledGrid(g)[r][c] /\ At(g, i + Cols) = g[r + 1][c]
  BY <1>2 DEF At, r, c
<1> QED BY <1>5, <1>6

(* What is drawn in a cell is what CharAt reads there. *)
LEMMA CharAtReads ==
  ASSUME NEW d, NEW g, d.fb \in Framebuffers, Drawn(d.fb, g), NEW i \in Cells
  PROVE  CharAt(d, i) = At(g, i)
<1> DEFINE r == i \div Cols
           c == i % Cols
           p == r * CellHeight
<1>0. CellHeight \in Nat \ {0} /\ Rows \in Nat \ {0} /\ g \in Grids
  BY Sizes DEF Drawn
<1>1. r \in 0 .. Rows - 1 /\ c \in Columns
  BY CellFacts
<1>2. p \in Nat /\ p + CellHeight <= Rows * CellHeight
  <2> HIDE DEF r
  <2> QED BY <1>0, <1>1, Products
<1>3. p \in PixelRows
  <2> HIDE DEF p
  <2> QED BY <1>2, Sizes DEF PixelRows
<1>4. p \div CellHeight = r /\ p % CellHeight = 0
  <2>1. r \in Nat /\ 0 \in 0 .. CellHeight - 1
    BY <1>0, <1>1
  <2> HIDE DEF r
  <2>2. (r * CellHeight + 0) \div CellHeight = r /\ (r * CellHeight + 0) % CellHeight = 0
    BY <1>0, <2>1, DivisionUnique
  <2>3. r * CellHeight + 0 = r * CellHeight
    BY <1>0, <2>1
  <2> QED BY <2>2, <2>3
<1> HIDE DEF r, c, p
<1>5. d.fb[p][c] = Glyph(g[r][c], 0)
  BY <1>1, <1>3, <1>4 DEF Drawn
<1>6. g[r][c] \in Chars
  BY <1>0, <1>1 DEF Grids, GridRows
<1>7. (IF d.fb[p][c] = Background THEN Space ELSE d.fb[p][c][1]) = g[r][c]
  BY <1>5, <1>6, GlyphFacts
<1>8. CharAt(d, i) = (IF d.fb[p][c] = Background THEN Space ELSE d.fb[p][c][1]) /\ At(g, i) = g[r][c]
  BY DEF CharAt, At, r, c, p
<1> QED BY <1>7, <1>8

(* A display with its cursor on the screen. *)
Seated(d, g) == Holds(d, g) /\ d.y # Rows

(* The fields of a seated display and the range of its position. *)
LEMMA SeatedFacts ==
  ASSUME NEW d, NEW g, Seated(d, g)
  PROVE  /\ d \in Displays /\ d.fb \in Framebuffers /\ Drawn(d.fb, g) /\ g \in Grids
         /\ BlankBehind(g, d.x, d.y)
         /\ d.x \in 0 .. Cols /\ d.y \in 0 .. Rows - 1
         /\ Position(d) \in 0 .. Rows * Cols /\ Rows * Cols \in Nat
         /\ Position(d) = d.y * Cols + d.x
         /\ d.y * Cols \in Nat
<1>0. Cols \in Nat \ {0} /\ Rows \in Nat \ {0}
  BY Sizes
<1>1. /\ d \in Displays /\ d.fb \in Framebuffers /\ Drawn(d.fb, g) /\ g \in Grids
      /\ BlankBehind(g, d.x, d.y) /\ d.x \in 0 .. Cols /\ d.y \in GridRows /\ d.y # Rows
  BY DEF Seated, Holds, Displays, Drawn
<1> DEFINE y == d.y
           x == d.x
<1>2. y \in 0 .. Rows - 1 /\ x \in 0 .. Cols
  BY <1>0, <1>1 DEF GridRows
<1> HIDE DEF y, x
<1>3. y * Cols \in Nat /\ Rows * Cols \in Nat /\ y * Cols + Cols <= Rows * Cols
  BY <1>0, <1>2, Products
<1>4. y * Cols + x \in 0 .. Rows * Cols
  BY <1>0, <1>2, <1>3
<1>5. Position(d) = y * Cols + x
  BY DEF Position, x, y
<1> QED BY <1>1, <1>2, <1>3, <1>4, <1>5 DEF x, y

(* A seated display is intact. *)
LEMMA SeatedIsIntact ==
  ASSUME NEW d, NEW g, Seated(d, g)
  PROVE  Intact(d)
<1>0. /\ CellHeight \in Nat \ {0} /\ Rows \in Nat \ {0} /\ Cols \in Nat \ {0}
      /\ d.fb \in Framebuffers /\ Drawn(d.fb, g) /\ g \in Grids
  BY Sizes, SeatedFacts
<1>1. d.x \in 0 .. Cols /\ d.y \in 0 .. Rows - 1
  BY SeatedFacts
<1>2. ASSUME NEW r \in 0 .. Rows - 1, NEW c \in Columns, NEW p \in CellRows(r)
      PROVE  LET top == d.fb[r * CellHeight][c]
             IN  d.fb[p][c] = IF top = Background THEN Background ELSE <<top[1], p % CellHeight>>
  <2> DEFINE q == r * CellHeight
  <2>1. q \in Nat /\ q + CellHeight <= Rows * CellHeight
    BY <1>0, Products
  <2>2. p \in q .. q + CellHeight - 1
    BY DEF CellRows
  <2>3. q \in PixelRows /\ p \in PixelRows /\ q \in q .. q + CellHeight - 1
    <3> HIDE DEF q
    <3> QED BY <1>0, <2>1, <2>2, Sizes DEF PixelRows
  <2>4. p \div CellHeight = r /\ q \div CellHeight = r
    <3>1. p \in Nat /\ q \in Nat /\ r \in Nat
      BY <2>1, <2>3, PixelRowFacts
    <3> QED BY <1>0, <2>2, <2>3, <3>1, QuotientIs
  <2> HIDE DEF q
  <2>5. p % CellHeight \in Nat /\ q % CellHeight \in Nat /\ g[r][c] \in Chars
    BY <1>0, <2>3, PixelRowFacts DEF Grids, GridRows
  <2>6. d.fb[p][c] = Glyph(g[r][c], p % CellHeight) /\ d.fb[q][c] = Glyph(g[r][c], q % CellHeight)
    BY <1>0, <2>3, <2>4 DEF Drawn
  <2>7. d.fb[p][c] = IF d.fb[q][c] = Background THEN Background ELSE <<d.fb[q][c][1], p % CellHeight>>
    BY <2>5, <2>6, GlyphFacts
  <2> QED BY <2>7 DEF q
<1>3. ASSUME NEW p \in Rows * CellHeight .. Height - 1 PROVE d.fb[p] = BlankRow
  <2>1. p \in PixelRows /\ p \in Rows * CellHeight .. Rows * CellHeight + CellHeight - 1
    BY Sizes DEF PixelRows
  <2>2. p \div CellHeight = Rows
    BY <1>0, <2>1, PixelRowFacts, QuotientIs
  <2>3. \A c \in Columns : d.fb[p][c] = Background
    BY <1>0, <2>1, <2>2 DEF Drawn, Glyph
  <2> QED BY <1>0, <2>1, <2>3 DEF Framebuffers, BlankRow
<1>4. ASSUME NEW i \in Position(d) .. Rows * Cols - 1 PROVE CharAt(d, i) = Space
  <2> DEFINE r == i \div Cols
             c == i % Cols
             x == d.x
             y == d.y
  <2>1. i \in Cells /\ i >= y * Cols + x
    BY SeatedFacts DEF Cells
  <2>2. r \in 0 .. Rows - 1 /\ c \in Columns /\ i = r * Cols + c
    BY <2>1, CellFacts
  <2>3. r \in Nat /\ c \in 0 .. Cols - 1 /\ x \in 0 .. Cols /\ y \in Nat
    BY <1>0, <1>1, <2>2 DEF Columns
  <2> HIDE DEF r, c, x, y
  <2>4. r < y => r * Cols + Cols <= y * Cols
    BY <1>0, <2>3, Products
  <2>5. r * Cols \in Nat /\ y * Cols \in Nat
    BY <1>0, <2>3
  <2>6. ~ (r < y)
    BY <1>0, <2>1, <2>2, <2>3, <2>4, <2>5
  <2>7. r = y => c >= x
    BY <1>0, <2>1, <2>2, <2>3, <2>5
  <2>8. r \in GridRows /\ (r > y \/ (r = y /\ c >= x))
    BY <1>0, <2>2, <2>3, <2>6, <2>7 DEF GridRows
  <2>9. g[r][c] = Space
    BY <2>2, <2>8, SeatedFacts DEF BlankBehind, x, y
  <2>10. CharAt(d, i) = g[r][c]
    BY <1>0, <2>1, CharAtReads DEF At, r, c
  <2> QED BY <2>9, <2>10
<1> QED BY <1>1, <1>2, <1>3, <1>4 DEF Intact

-----------------------------------------------------------------------------
(***************************************************************************)
(* One character.                                                          *)
(***************************************************************************)
Wrapped(d) == IF d.x >= Cols THEN [d EXCEPT !.x = 0, !.y = @ + 1] ELSE d

(* Moving to the next row, at its beginning. *)
LEMMA NextRowHolds ==
  ASSUME NEW d, NEW g, Seated(d, g)
  PROVE  /\ Holds([d EXCEPT !.x = 0, !.y = @ + 1], g)
         /\ [d EXCEPT !.x = 0, !.y = @ + 1].x = 0
         /\ [d EXCEPT !.x = 0, !.y = @ + 1].y = d.y + 1
<1> DEFINE e == [d EXCEPT !.x = 0, !.y = @ + 1]
<1>0. Rows \in Nat \ {0} /\ Cols \in Nat \ {0}
  BY Sizes
<1>1. /\ d \in Displays /\ d.x \in 0 .. Cols /\ d.y \in 0 .. Rows - 1 /\ Drawn(d.fb, g)
      /\ BlankBehind(g, d.x, d.y)
  BY SeatedFacts
<1>2. e.x = 0 /\ e.y = d.y + 1 /\ e.fb = d.fb
  BY <1>1 DEF Displays
<1>3. d.y + 1 \in GridRows /\ 0 \in 0 .. Cols
  BY <1>0, <1>1 DEF GridRows
<1>4. e \in Displays
  BY <1>1, <1>3 DEF Displays
<1> HIDE DEF e
<1>5. BlankBehind(g, e.x, e.y)
  <2> SUFFICES ASSUME NEW r \in GridRows, NEW c \in Columns, r > d.y + 1 \/ (r = d.y + 1 /\ c >= 0)
               PROVE  g[r][c] = Space
    BY <1>2 DEF BlankBehind
  <2>1. r > d.y
    BY <1>0, <1>1 DEF GridRows
  <2> QED BY <1>1, <2>1 DEF BlankBehind
<1>6. Holds(e, g)
  BY <1>1, <1>2, <1>4, <1>5 DEF Holds
<1> QED BY <1>2, <1>6 DEF e

(* A newline gives a seated display. *)
LEMMA PutNewline ==
  ASSUME NEW d, NEW g, Seated(d, g)
  PROVE  \E h : Seated(HalpFbPutChar(d, Newline), h)
<1> DEFINE w == [d EXCEPT !.x = 0, !.y = @ + 1]
           e == ScrolledInto(w)
           h == IF w.y = Rows THEN ScrolledGrid(g) ELSE g
<1>1. Holds(w, g)
  BY NextRowHolds
<1> HIDE DEF w
<1>2. Holds(e, h) /\ e.y = IF w.y = Rows THEN Rows - 1 ELSE w.y
  BY <1>1, ScrolledIntoHolds
<1> HIDE DEF h, e
<1>3. e.y # Rows
  BY <1>2, Sizes
<1>4. HalpFbPutChar(d, Newline) = e
  <2>1. Newline # Return /\ Newline # Backspace
    BY DEF Newline, Return, Backspace
  <2> QED BY <2>1 DEF HalpFbPutChar, e, w
<1> QED BY <1>2, <1>3, <1>4 DEF Seated

(* What drawing a character does to the cells: everything moves up by one  *)
(* row of up cells if the screen was full, and the character is added.     *)
Added(d, g, e, h, ch) ==
  \E up \in {0, Cols} :
    /\ up # 0 => Position(d) = Rows * Cols
    /\ Position(e) = Position(d) + 1 - up
    /\ \A i \in 0 .. Position(d) - up - 1 : At(h, i) = At(g, i + up)
    /\ At(h, Position(d) - up) = ch

(* Making room for a character. *)
LEMMA MakeRoom ==
  ASSUME NEW d, NEW g, Seated(d, g)
  PROVE  \E h : \E up \in {0, Cols} :
           /\ Seated(ScrolledInto(Wrapped(d)), h) /\ ScrolledInto(Wrapped(d)).x \in Columns
           /\ up # 0 => Position(d) = Rows * Cols
           /\ Position(ScrolledInto(Wrapped(d))) = Position(d) - up
           /\ \A i \in 0 .. Position(d) - up - 1 : At(h, i) = At(g, i + up)
<1> DEFINE w == Wrapped(d)
           e == ScrolledInto(w)
           Roomy(h, up) ==
             /\ Seated(e, h) /\ e.x \in Columns
             /\ up # 0 => Position(d) = Rows * Cols
             /\ Position(e) = Position(d) - up
             /\ \A i \in 0 .. Position(d) - up - 1 : At(h, i) = At(g, i + up)
<1> SUFFICES \E h : \E up \in {0, Cols} : Roomy(h, up)
  OBVIOUS
<1>0. Rows \in Nat \ {0} /\ Cols \in Nat \ {0}
  BY Sizes
<1>1. /\ d.x \in 0 .. Cols /\ d.y \in 0 .. Rows - 1 /\ g \in Grids
      /\ Position(d) \in 0 .. Rows * Cols /\ Rows * Cols \in Nat
      /\ Position(d) = d.y * Cols + d.x /\ d.y * Cols \in Nat
  BY SeatedFacts
<1>2. Holds(w, g) /\ w.x \in Columns /\ w.y \in GridRows /\ w.y * Cols + w.x = Position(d)
  <2>1. CASE d.x >= Cols
    <3>1. Holds(w, g) /\ w.x = 0 /\ w.y = d.y + 1
      BY <2>1, NextRowHolds DEF Wrapped
    <3> HIDE DEF w
    <3>2. d.x = Cols /\ (d.y + 1) * Cols = d.y * Cols + Cols
      BY <1>0, <1>1, <2>1
    <3>3. w.y * Cols + w.x = (d.y + 1) * Cols
      BY <1>0, <1>1, <3>1
    <3> QED BY <1>0, <1>1, <3>1, <3>2, <3>3 DEF Columns, GridRows
  <2>2. CASE ~ (d.x >= Cols)
    <3>1. w = d
      BY <2>2 DEF Wrapped
    <3> HIDE DEF w
    <3> QED BY <1>0, <1>1, <2>2, <3>1 DEF Seated, Columns, GridRows
  <2> QED BY <2>1, <2>2
<1> HIDE DEF w
<1>3. CASE w.y # Rows
  <2>1. Holds(e, g) /\ e.x = w.x /\ e.y = w.y
    BY <1>2, <1>3, ScrolledIntoHolds
  <2> HIDE DEF e
  <2>2. Seated(e, g)
    BY <1>3, <2>1 DEF Seated
  <2>3. Position(e) = Position(d) - 0
    BY <1>1, <1>2, <2>1 DEF Position
  <2>4. \A i \in 0 .. Position(d) - 0 - 1 : At(g, i) = At(g, i + 0)
    OBVIOUS
  <2>5. e.x \in Columns
    BY <1>2, <2>1
  <2>6. Roomy(g, 0)
    BY <2>2, <2>3, <2>4, <2>5
  <2> QED BY <2>6
<1>4. CASE w.y = Rows
  <2> DEFINE h == ScrolledGrid(g)
  <2>1. Holds(e, h) /\ e.x = w.x /\ e.y = Rows - 1
    BY <1>2, <1>4, ScrolledIntoHolds
  <2> HIDE DEF e
  <2>2. Seated(e, h) /\ e.x \in Columns
    BY <1>0, <1>2, <2>1 DEF Seated
  <2>3. Rows * Cols + w.x = Position(d) /\ w.x = 0 /\ Position(d) = Rows * Cols
    BY <1>0, <1>1, <1>2, <1>4 DEF Columns
  <2>4. (Rows - 1) * Cols = Rows * Cols - Cols
    BY <1>0
  <2>5. Position(e) = Position(d) - Cols
    BY <1>0, <1>1, <2>1, <2>3, <2>4 DEF Position
  <2>6. ASSUME NEW i \in 0 .. Position(d) - Cols - 1 PROVE At(h, i) = At(g, i + Cols)
    <3>1. i \in Nat /\ i + Cols \in Cells
      BY <1>0, <1>1, <2>3 DEF Cells
    <3> QED BY <1>1, <3>1, ScrolledAt
  <2> HIDE DEF h
  <2>7. Roomy(h, Cols)
    BY <2>2, <2>3, <2>5, <2>6
  <2> QED BY <2>7
<1> QED BY <1>3, <1>4

Shown(ch) == IF ch \in Unprintable THEN "?" ELSE ch

(* Drawing a character in a free cell. *)
LEMMA DrawHolds ==
  ASSUME NEW d, NEW g, Seated(d, g), d.x \in Columns, NEW ch \in Chars
  PROVE  LET e == DrawGlyph(d, ch)
             h == PutInGrid(g, d.x, d.y, ch)
         IN  /\ Seated(e, h) /\ Position(e) = Position(d) + 1
             /\ Position(d) \in Cells
             /\ \A i \in 0 .. Position(d) - 1 : At(h, i) = At(g, i)
             /\ At(h, Position(d)) = ch
<1> DEFINE e == DrawGlyph(d, ch)
           h == PutInGrid(g, d.x, d.y, ch)
<1>0. Rows \in Nat \ {0} /\ Cols \in Nat \ {0}
  BY Sizes
<1>1. /\ d \in Displays /\ d.fb \in Framebuffers /\ Drawn(d.fb, g) /\ g \in Grids
      /\ BlankBehind(g, d.x, d.y) /\ d.x \in 0 .. Cols /\ d.y \in 0 .. Rows - 1
      /\ Position(d) = d.y * Cols + d.x /\ Position(d) \in 0 .. Rows * Cols /\ Rows * Cols \in Nat
      /\ d.y * Cols \in Nat
  BY SeatedFacts
<1>2. d.x + 1 \in 0 .. Cols /\ d.x \in 0 .. Cols - 1
  BY <1>0 DEF Columns
<1> DEFINE n == [p \in PixelRows |->
                   IF p \div CellHeight = d.y
                   THEN [d.fb[p] EXCEPT ![d.x] = Glyph(ch, p % CellHeight)]
                   ELSE d.fb[p]]
<1>3. n \in Framebuffers
  <2>1. ASSUME NEW p \in PixelRows
        PROVE  (IF p \div CellHeight = d.y THEN [d.fb[p] EXCEPT ![d.x] = Glyph(ch, p % CellHeight)]
                ELSE d.fb[p]) \in [Columns -> Pixels]
    <3>1. Glyph(ch, p % CellHeight) \in Pixels
      BY PixelRowFacts, GlyphFacts
    <3> QED BY <1>1, <3>1 DEF Framebuffers
  <2> QED BY <2>1 DEF Framebuffers
<1>4. /\ h \in Grids /\ \A c \in Columns : h[Rows][c] = Space
      /\ \A r \in GridRows, c \in Columns : h[r][c] = IF r = d.y /\ c = d.x THEN ch ELSE g[r][c]
  BY <1>1, PutInGridFacts DEF Drawn
<1>5. ASSUME NEW p \in PixelRows, NEW c \in Columns
      PROVE  n[p][c] = Glyph(h[p \div CellHeight][c], p % CellHeight)
  <2>1. n[p][c] = IF p \div CellHeight = d.y /\ c = d.x THEN Glyph(ch, p % CellHeight) ELSE d.fb[p][c]
    BY <1>1 DEF Framebuffers
  <2>2. d.fb[p][c] = Glyph(g[p \div CellHeight][c], p % CellHeight) /\ p \div CellHeight \in GridRows
    BY <1>1, PixelRowFacts DEF Drawn
  <2>3. h[p \div CellHeight][c] = IF p \div CellHeight = d.y /\ c = d.x THEN ch
                                  ELSE g[p \div CellHeight][c]
    BY <1>4, <2>2
  <2> HIDE DEF n, h
  <2> QED BY <2>1, <2>2, <2>3
<1>6. Drawn(n, h)
  <2> HIDE DEF n, h
  <2> QED BY <1>4, <1>5 DEF Drawn
<1>7. e = [d EXCEPT !.fb = n, !.x = @ + 1]
  BY DEF DrawGlyph
<1> HIDE DEF n
<1>8. e.fb = n /\ e.x = d.x + 1 /\ e.y = d.y
  BY <1>1, <1>7 DEF Displays
<1>9. e \in Displays
  BY <1>1, <1>2, <1>3, <1>7 DEF Displays
<1> HIDE DEF e
<1>10. BlankBehind(h, e.x, e.y)
  <2> SUFFICES ASSUME NEW r \in GridRows, NEW c \in Columns, r > d.y \/ (r = d.y /\ c >= d.x + 1)
               PROVE  h[r][c] = Space
    BY <1>8 DEF BlankBehind
  <2>1. ~ (r = d.y /\ c = d.x) /\ (r > d.y \/ (r = d.y /\ c >= d.x))
    BY <1>0, <1>1, <1>2 DEF Columns, GridRows
  <2>2. g[r][c] = Space
    BY <1>1, <2>1 DEF BlankBehind
  <2> QED BY <1>4, <2>1, <2>2
<1>11. Seated(e, h)
  BY <1>0, <1>1, <1>6, <1>8, <1>9, <1>10 DEF Seated, Holds
<1>12. Position(e) = Position(d) + 1
  BY <1>0, <1>1, <1>2, <1>8 DEF Position
<1>13. Position(d) \in Cells
  BY <1>1, CellOf
<1>14. ASSUME NEW i \in 0 .. Position(d) - 1 PROVE At(h, i) = At(g, i)
  <2>1. i \in Cells /\ i # d.y * Cols + d.x
    BY <1>1 DEF Cells
  <2> QED BY <1>1, <2>1, PutAt
<1>15. At(h, Position(d)) = ch
  BY <1>1, <1>13, PutAt
<1> QED BY <1>11, <1>12, <1>13, <1>14, <1>15 DEF e

(* A character with a glyph. *)
LEMMA PutGlyph ==
  ASSUME NEW d, NEW g, Seated(d, g), NEW ch \in Chars \ {Newline, Backspace}
  PROVE  \E h : Seated(HalpFbPutChar(d, ch), h) /\ Added(d, g, HalpFbPutChar(d, ch), h, Shown(ch))
<1> DEFINE w == ScrolledInto(Wrapped(d))
           e == DrawGlyph(w, Shown(ch))
<1>1. HalpFbPutChar(d, ch) = e
  <2>1. ch # Return /\ ch # Newline /\ ch # Backspace
    BY CharFacts
  <2> QED BY <2>1 DEF HalpFbPutChar, Wrapped, Shown
<1>2. Shown(ch) \in Chars
  BY CharFacts DEF Shown
<1>3. PICK k : \E up \in {0, Cols} :
        /\ Seated(w, k) /\ w.x \in Columns
        /\ up # 0 => Position(d) = Rows * Cols
        /\ Position(w) = Position(d) - up
        /\ \A i \in 0 .. Position(d) - up - 1 : At(k, i) = At(g, i + up)
  BY MakeRoom
<1>4. PICK up \in {0, Cols} :
        /\ Seated(w, k) /\ w.x \in Columns
        /\ up # 0 => Position(d) = Rows * Cols
        /\ Position(w) = Position(d) - up
        /\ \A i \in 0 .. Position(d) - up - 1 : At(k, i) = At(g, i + up)
  BY <1>3
<1> DEFINE h == PutInGrid(k, w.x, w.y, Shown(ch))
<1> HIDE DEF w
<1>5. /\ Seated(e, h) /\ Position(e) = Position(w) + 1
      /\ \A i \in 0 .. Position(w) - 1 : At(h, i) = At(k, i)
      /\ At(h, Position(w)) = Shown(ch)
  BY <1>2, <1>4, DrawHolds
<1> HIDE DEF e, h
<1>6. Position(d) \in Nat /\ up \in Nat
  BY Sizes, SeatedFacts
<1>7. Position(e) = Position(d) + 1 - up
  BY <1>4, <1>5, <1>6
<1>8. \A i \in 0 .. Position(d) - up - 1 : At(h, i) = At(g, i + up)
  BY <1>4, <1>5
<1>9. At(h, Position(d) - up) = Shown(ch)
  BY <1>4, <1>5
<1>10. Added(d, g, e, h, Shown(ch))
  BY <1>4, <1>7, <1>8, <1>9 DEF Added
<1> QED BY <1>1, <1>5, <1>10

(* A backspace steps back one cell and clears it; at the origin it does    *)
(* nothing.                                                                *)
LEMMA PutBackspace ==
  ASSUME NEW d, NEW g, Seated(d, g)
  PROVE  \E h : /\ Seated(HalpFbPutChar(d, Backspace), h)
                /\ Position(d) > 0 =>
                     /\ Position(HalpFbPutChar(d, Backspace)) = Position(d) - 1
                     /\ \A i \in 0 .. Position(d) - 2 : At(h, i) = At(g, i)
<1> DEFINE e == HalpFbPutChar(d, Backspace)
           b == StepBack(d)
           h == PutInGrid(g, b.x, b.y, Space)
<1>0. Rows \in Nat \ {0} /\ Cols \in Nat \ {0}
  BY Sizes
<1>1. /\ d \in Displays /\ d.fb \in Framebuffers /\ Drawn(d.fb, g) /\ g \in Grids
      /\ BlankBehind(g, d.x, d.y) /\ d.x \in 0 .. Cols /\ d.y \in 0 .. Rows - 1
      /\ Position(d) = d.y * Cols + d.x /\ Position(d) \in 0 .. Rows * Cols /\ Rows * Cols \in Nat
      /\ d.y * Cols \in Nat
  BY SeatedFacts
<1>2. e = IF d.x = 0 /\ d.y = 0 THEN d ELSE ClearCell(b)
  <2>1. Backspace # Return /\ Backspace # Newline
    BY DEF Newline, Return, Backspace
  <2> QED BY <2>1 DEF HalpFbPutChar
<1>3. CASE d.x = 0 /\ d.y = 0
  <2>1. e = d /\ Position(d) = 0
    BY <1>0, <1>1, <1>2, <1>3
  <2> QED BY <2>1
<1>4. CASE ~ (d.x = 0 /\ d.y = 0)
  <2>1. /\ b \in Displays /\ b.fb = d.fb /\ b.x \in Columns /\ b.y \in 0 .. Rows - 1
        /\ b.y * Cols + b.x = Position(d) - 1
        /\ \/ b.y = d.y /\ b.x = d.x - 1
           \/ b.y = d.y - 1 /\ b.x = Cols - 1 /\ d.x = 0
    <3>1. CASE d.x > 0
      <4>1. b = [d EXCEPT !.x = @ - 1]
        BY <3>1 DEF StepBack
      <4> HIDE DEF b
      <4>2. b.fb = d.fb /\ b.x = d.x - 1 /\ b.y = d.y
        BY <1>1, <4>1 DEF Displays
      <4>3. d.x - 1 \in 0 .. Cols /\ d.x - 1 \in Columns
        BY <1>0, <1>1, <3>1 DEF Columns
      <4>4. b \in Displays
        BY <1>1, <4>1, <4>3 DEF Displays
      <4>5. b.y * Cols + b.x = Position(d) - 1
        BY <1>0, <1>1, <4>2
      <4> QED BY <1>0, <1>1, <3>1, <4>2, <4>3, <4>4, <4>5
    <3>2. CASE ~ (d.x > 0)
      <4>1. d.x = 0 /\ d.y > 0
        BY <1>0, <1>1, <1>4, <3>2
      <4>2. b = [d EXCEPT !.y = @ - 1, !.x = Cols - 1]
        BY <3>2, <4>1 DEF StepBack
      <4> HIDE DEF b
      <4>3. b.fb = d.fb /\ b.x = Cols - 1 /\ b.y = d.y - 1
        BY <1>1, <4>2 DEF Displays
      <4>4. Cols - 1 \in 0 .. Cols /\ Cols - 1 \in Columns /\ d.y - 1 \in GridRows
            /\ d.y - 1 \in 0 .. Rows - 1
        BY <1>0, <1>1, <4>1 DEF Columns, GridRows
      <4>5. b \in Displays
        BY <1>1, <4>2, <4>4 DEF Displays
      <4>6. (d.y - 1) * Cols = d.y * Cols - Cols
        BY <1>0, <1>1
      <4>7. b.y * Cols + b.x = Position(d) - 1
        BY <1>0, <1>1, <4>1, <4>3, <4>6
      <4> QED BY <1>0, <1>1, <4>1, <4>3, <4>4, <4>5, <4>7
    <3> QED BY <3>1, <3>2
  <2> DEFINE n == HalpFbFill(d.fb, b.x, b.y * CellHeight, CellHeight)
  <2>2. e = [b EXCEPT !.fb = n]
    BY <1>2, <1>4, <2>1 DEF ClearCell
  <2> HIDE DEF b, e
  <2>3. n \in Framebuffers /\ Drawn(n, h)
    BY <1>1, <2>1, FillDraws
  <2> HIDE DEF n
  <2>4. e.fb = n /\ e.x = b.x /\ e.y = b.y
    BY <2>1, <2>2 DEF Displays
  <2>5. e \in Displays
    BY <2>1, <2>2, <2>3 DEF Displays
  <2>6. \A r \in GridRows, c \in Columns : h[r][c] = IF r = b.y /\ c = b.x THEN Space ELSE g[r][c]
    BY DEF PutInGrid
  <2> HIDE DEF h
  <2>7. BlankBehind(h, e.x, e.y)
    <3> SUFFICES ASSUME NEW r \in GridRows, NEW c \in Columns, r > b.y \/ (r = b.y /\ c >= b.x)
                 PROVE  h[r][c] = Space
      BY <2>4 DEF BlankBehind
    <3>1. (r = b.y /\ c = b.x) \/ r > d.y \/ (r = d.y /\ c >= d.x)
      <4>1. r \in Nat /\ c \in 0 .. Cols - 1 /\ d.x \in Nat /\ d.y \in Nat
        BY <1>0, <1>1 DEF Columns, GridRows
      <4>2. \/ b.y = d.y /\ b.x = d.x - 1
            \/ b.y = d.y - 1 /\ b.x = Cols - 1 /\ d.x = 0
        BY <2>1, Zenon
      <4> QED BY <1>0, <4>1, <4>2
    <3> QED BY <1>1, <2>6, <3>1 DEF BlankBehind
  <2>8. Seated(e, h)
    BY <1>0, <2>1, <2>3, <2>4, <2>5, <2>7 DEF Seated, Holds
  <2>9. Position(e) = Position(d) - 1
    BY <2>1, <2>4 DEF Position
  <2>10. ASSUME NEW i \in 0 .. Position(d) - 2 PROVE At(h, i) = At(g, i)
    <3>1. i \in Cells /\ i # b.y * Cols + b.x
      BY <1>1, <2>1 DEF Cells
    <3> QED BY <1>1, <2>1, <3>1, PutAt DEF h
  <2> QED BY <2>8, <2>9, <2>10 DEF e
<1> QED BY <1>3, <1>4

(* Every character of a text keeps the display seated. *)
LEMMA PutKeeps ==
  ASSUME NEW d, NEW g, Seated(d, g), NEW ch \in Chars
  PROVE  \E h : Seated(HalpFbPutChar(d, ch), h)
<1>1. CASE ch = Newline
  BY <1>1, PutNewline
<1>2. CASE ch = Backspace
  BY <1>2, PutBackspace
<1>3. CASE ch \notin {Newline, Backspace}
  BY <1>3, PutGlyph
<1> QED BY <1>1, <1>2, <1>3

-----------------------------------------------------------------------------
(***************************************************************************)
(* Texts.                                                                  *)
(***************************************************************************)

(* The loop over a text as a sequence of displays, one for each turn. *)
LEMMA WriteLoop ==
  ASSUME NEW d, NEW s, Len(s) \in Nat
  PROVE  \E w : /\ w[0] = d /\ w[Len(s)] = HalWriteDebugString(d, s)
                /\ \A k \in 1 .. Len(s) : w[k] = HalpFbPutChar(w[k - 1], s[k])
<1>0. PICK n \in Nat : Len(s) = n
  OBVIOUS
<1> DEFINE Runs(w, j) ==
             w = [k \in 0 .. j |-> IF k = 0 THEN d ELSE HalpFbPutChar(w[k - 1], s[k])]
           S == {j \in Nat : \E w : Runs(w, j)}
<1>1. 0 \in S
  <2>1. Runs([k \in 0 .. 0 |-> d], 0)
    OBVIOUS
  <2> QED BY <2>1
<1>2. ASSUME NEW j \in 1 .. n, j - 1 \in S PROVE j \in S
  <2>1. PICK w : Runs(w, j - 1)
    BY <1>2
  <2> DEFINE v == [k \in 0 .. j |-> IF k < j THEN w[k] ELSE HalpFbPutChar(w[j - 1], s[j])]
  <2>2. ASSUME NEW k \in 0 .. j
        PROVE  v[k] = IF k = 0 THEN d ELSE HalpFbPutChar(v[k - 1], s[k])
    <3>1. CASE k = j
      BY <3>1
    <3>2. CASE k < j
      <4>1. k \in 0 .. (j - 1)
        BY <3>2
      <4>2. w[k] = IF k = 0 THEN d ELSE HalpFbPutChar(w[k - 1], s[k])
        BY <2>1, <4>1
      <4>3. v[k] = w[k] /\ (k # 0 => v[k - 1] = w[k - 1])
        BY <3>2
      <4> HIDE DEF v
      <4> QED BY <4>2, <4>3
    <3> QED BY <3>1, <3>2
  <2>3. v = [k \in 0 .. j |-> v[k]]
    OBVIOUS
  <2> HIDE DEF v
  <2>4. Runs(v, j)
    BY <2>2, <2>3
  <2> QED BY <2>4
<1>3. n \in S
  <2> HIDE DEF S
  <2> QED BY <1>1, <1>2, Iteration
<1>4. PICK w : w = CHOOSE v : Runs(v, n)
  OBVIOUS
<1>5. Runs(w, n)
  <2>1. \E v : Runs(v, n)
    BY <1>3
  <2> HIDE DEF Runs
  <2> QED BY <1>4, <2>1
<1>6. HalWriteDebugString(d, s) = w[n]
  BY <1>0, <1>4 DEF HalWriteDebugString
<1>7. w[0] = d /\ \A k \in 1 .. n : w[k] = HalpFbPutChar(w[k - 1], s[k])
  BY <1>5
<1> QED BY <1>0, <1>6, <1>7

(* A text keeps the display seated. *)
LEMMA WriteKeeps ==
  ASSUME NEW d, NEW g, Seated(d, g), NEW s \in Seq(Chars)
  PROVE  \E h : Seated(HalWriteDebugString(d, s), h)
<1>0. PICK n \in Nat : n = Len(s)
  OBVIOUS
<1>1. \A k \in 1 .. n : s[k] \in Chars
  BY <1>0
<1>2. PICK w : /\ w[0] = d /\ w[n] = HalWriteDebugString(d, s)
               /\ \A k \in 1 .. n : w[k] = HalpFbPutChar(w[k - 1], s[k])
  BY <1>0, WriteLoop
<1> DEFINE S == {k \in 0 .. n : \E h : Seated(w[k], h)}
<1>3. 0 \in S
  BY <1>1, <1>2
<1>4. ASSUME NEW k \in 1 .. n, k - 1 \in S PROVE k \in S
  <2>1. PICK h : Seated(w[k - 1], h)
    BY <1>4
  <2>2. \E f : Seated(w[k], f)
    BY <1>1, <1>2, <2>1, PutKeeps
  <2> QED BY <2>2
<1>5. n \in S
  <2> HIDE DEF S
  <2>1. \A k \in 0 .. n : k \in S
    BY <1>3, <1>4, Iteration
  <2> QED BY <2>1
<1> QED BY <1>2, <1>5

(* Texts of one and of three characters. *)
LEMMA WriteOne ==
  ASSUME NEW d, NEW a
  PROVE  HalWriteDebugString(d, <<a>>) = HalpFbPutChar(d, a)
<1>0. PICK s : s = <<a>>
  OBVIOUS
<1>1. Len(s) = 1 /\ s[1] = a
  BY <1>0
<1>2. PICK n \in Nat : n = Len(s)
  BY <1>1
<1>3. PICK w : /\ w[0] = d /\ w[n] = HalWriteDebugString(d, s)
               /\ \A k \in 1 .. n : w[k] = HalpFbPutChar(w[k - 1], s[k])
  BY <1>2, WriteLoop
<1>4. w[1] = HalpFbPutChar(w[1 - 1], s[1])
  BY <1>1, <1>2, <1>3
<1> QED BY <1>0, <1>1, <1>2, <1>3, <1>4

(* The text that erases the cursor. *)
LEMMA WriteThree ==
  ASSUME NEW d, NEW a, NEW b, NEW c
  PROVE  HalWriteDebugString(d, <<a, b, c>>) = HalpFbPutChar(HalpFbPutChar(HalpFbPutChar(d, a), b), c)
<1>0. PICK s : s = <<a, b, c>>
  OBVIOUS
<1>1. Len(s) = 3 /\ s[1] = a /\ s[2] = b /\ s[3] = c
  BY <1>0
<1>2. PICK n \in Nat : n = Len(s)
  BY <1>1
<1>3. PICK w : /\ w[0] = d /\ w[n] = HalWriteDebugString(d, s)
               /\ \A k \in 1 .. n : w[k] = HalpFbPutChar(w[k - 1], s[k])
  BY <1>2, WriteLoop
<1>4. w[1] = HalpFbPutChar(w[0], s[1]) /\ w[2] = HalpFbPutChar(w[1], s[2])
        /\ w[3] = HalpFbPutChar(w[2], s[3])
  <2>1. w[1] = HalpFbPutChar(w[1 - 1], s[1]) /\ w[2] = HalpFbPutChar(w[2 - 1], s[2])
          /\ w[3] = HalpFbPutChar(w[3 - 1], s[3])
    BY <1>1, <1>2, <1>3
  <2>2. 1 - 1 = 0 /\ 2 - 1 = 1 /\ 3 - 1 = 2
    OBVIOUS
  <2> QED BY <2>1, <2>2
<1> QED BY <1>0, <1>1, <1>2, <1>3, <1>4

(* Sequences of bounded length. *)
LEMMA BoundedSequences ==
  ASSUME NEW S, NEW n \in Nat, NEW s
  PROVE  s \in SeqOf(S, n) <=> s \in Seq(S) /\ Len(s) <= n
<1>1. ASSUME s \in SeqOf(S, n) PROVE s \in Seq(S) /\ Len(s) <= n
  <2>1. PICK m \in 0 .. n : s \in [1 .. m -> S]
    BY <1>1 DEF SeqOf
  <2>2. m \in Nat
    OBVIOUS
  <2>3. s \in Seq(S) /\ Len(s) = m
    BY <2>1, <2>2
  <2> QED BY <2>3
<1>2. ASSUME s \in Seq(S), Len(s) <= n PROVE s \in SeqOf(S, n)
  <2>1. Len(s) \in 0 .. n /\ s \in [1 .. Len(s) -> S]
    BY <1>2
  <2> QED BY <2>1 DEF SeqOf
<1> QED BY <1>1, <1>2

(* Every text that is printed, and what KipSysDebugPrint adds to it, is a  *)
(* sequence of characters.                                                 *)
LEMMA PrintedFacts ==
  ASSUME NEW s \in Printed
  PROVE  s \in Seq(Chars) /\ CommandOutput(s) \in Seq(Chars) /\ s \o CommandOutput(s) \in Seq(Chars)
<1>1. OutputChars \subseteq Chars
  BY DEF Chars
<1>2. \A t \in Seq(OutputChars) : t \in Seq(Chars)
  BY <1>1
<1>3. CommandOutput(s) \in Seq(Chars)
  BY <1>2, TextAssumption
<1>4. s \in Seq(Chars)
  <2>1. CASE s \in {Prompt, CursorOn, CursorOff, Banner, Hint, <<Newline>>}
    <3>1. Prompt \in Seq(Chars) /\ CursorOn \in Seq(Chars) /\ <<Newline>> \in Seq(Chars)
      BY CharFacts DEF Prompt, CursorOn
    <3>2. CursorOff \in Seq(Chars)
      BY CharFacts DEF CursorOff
    <3>3. Banner \in Seq(Chars) /\ Hint \in Seq(Chars)
      BY CharFacts DEF Banner, Hint
    <3> QED BY <2>1, <3>1, <3>2, <3>3
  <2>2. CASE s \in Texts
    BY <1>2, <2>2, TextAssumption
  <2>3. CASE s \in SeqOf(LineChars, LineMax)
    <3>1. s \in Seq(LineChars)
      BY <2>3, LineAssumption, BoundedSequences
    <3> QED BY <3>1, CharFacts
  <2> QED BY <2>1, <2>2, <2>3 DEF Printed
<1> QED BY <1>3, <1>4

(* Printing keeps the display seated. *)
LEMMA PrintKeeps ==
  ASSUME NEW d, NEW g, Seated(d, g), NEW s \in Printed
  PROVE  \E h : Seated(KipSysDebugPrint(d, s), h)
BY PrintedFacts, WriteKeeps DEF KipSysDebugPrint

(* The prompt, the cursor and a character that is echoed run no command. *)
LEMMA QuietPrint ==
  ASSUME NEW d, NEW s \in Seq(Chars), CommandOutput(s) = <<>>
  PROVE  KipSysDebugPrint(d, s) = HalWriteDebugString(d, s)
<1>1. s \o <<>> = s
  OBVIOUS
<1> QED BY <1>1 DEF KipSysDebugPrint

-----------------------------------------------------------------------------
(***************************************************************************)
(* What can be read before the cursor.                                     *)
(***************************************************************************)
Reads(d, g, t) ==
  /\ Len(t) <= Position(d)
  /\ \A i \in 1 .. Len(t) : At(g, Position(d) - Len(t) + i - 1) = t[i]

Fine(d) == \E g : Seated(d, g)
Echoes(d, t) == \E g : Seated(d, g) /\ Reads(d, g, t)

(* The text that fits the screen after a scroll. *)
Room == (Rows - 1) * Cols

(* A character with a glyph of its own is added to the text. *)
LEMMA EchoPut ==
  ASSUME NEW d, NEW t \in Seq(Chars), Echoes(d, t), Len(t) <= Room,
         NEW ch \in Chars \ {Newline, Backspace}, ch \notin Unprintable
  PROVE  Echoes(HalpFbPutChar(d, ch), Append(t, ch))
<1> DEFINE e == HalpFbPutChar(d, ch)
           u == Append(t, ch)
<1>1. PICK g : Seated(d, g) /\ Reads(d, g, t)
  BY DEF Echoes
<1>2. PICK h : Seated(e, h) /\ Added(d, g, e, h, ch)
  <2>1. Shown(ch) = ch
    BY DEF Shown
  <2> QED BY <1>1, <2>1, PutGlyph
<1> HIDE DEF e
<1>3. PICK up \in {0, Cols} :
        /\ up # 0 => Position(d) = Rows * Cols
        /\ Position(e) = Position(d) + 1 - up
        /\ \A i \in 0 .. Position(d) - up - 1 : At(h, i) = At(g, i + up)
        /\ At(h, Position(d) - up) = ch
  BY <1>2 DEF Added
<1>4. PICK L \in Nat : L = Len(t)
  OBVIOUS
<1>5. Len(u) = L + 1 /\ u[L + 1] = ch /\ \A i \in 1 .. L : u[i] = t[i]
  BY <1>4
<1> HIDE DEF u
<1>6. PICK P \in Nat : P = Position(d)
  BY <1>1, SeatedFacts
<1>7. up \in Nat /\ L <= P - up
  <2>1. Cols \in Nat /\ Rows \in Nat \ {0} /\ Rows * Cols \in Nat
    BY <1>1, Sizes, SeatedFacts
  <2>2. Room = Rows * Cols - Cols
    BY <2>1 DEF Room
  <2>3. L <= P
    BY <1>1, <1>4, <1>6 DEF Reads
  <2> QED BY <1>3, <1>4, <1>6, <2>1, <2>2, <2>3
<1>8. Len(u) <= Position(e)
  BY <1>3, <1>5, <1>6, <1>7
<1>9. ASSUME NEW i \in 1 .. L + 1 PROVE At(h, Position(e) - Len(u) + i - 1) = u[i]
  <2>1. Position(e) - Len(u) + i - 1 = P - up - L + i - 1
    BY <1>3, <1>5, <1>6, <1>7
  <2>2. CASE i = L + 1
    <3>1. P - up - L + i - 1 = P - up
      BY <1>7, <2>2
    <3> QED BY <1>3, <1>5, <1>6, <2>1, <2>2, <3>1
  <2>3. CASE i # L + 1
    <3>1. i \in 1 .. L /\ P - up - L + i - 1 \in 0 .. P - up - 1
      BY <1>7, <2>3
    <3>2. (P - up - L + i - 1) + up = P - L + i - 1
      BY <1>7
    <3>3. At(h, P - up - L + i - 1) = At(g, P - L + i - 1)
      BY <1>3, <1>6, <3>1, <3>2
    <3>4. At(g, P - L + i - 1) = t[i]
      BY <1>1, <1>4, <1>6, <3>1 DEF Reads
    <3> QED BY <1>5, <2>1, <3>1, <3>3, <3>4
  <2> QED BY <2>2, <2>3
<1>10. Reads(e, h, u)
  BY <1>5, <1>8, <1>9 DEF Reads
<1> QED BY <1>2, <1>10 DEF Echoes, e, u

(* The first character on an unknown screen. *)
LEMMA EchoFirst ==
  ASSUME NEW d, Fine(d), NEW ch \in Chars \ {Newline, Backspace}, ch \notin Unprintable
  PROVE  Echoes(HalpFbPutChar(d, ch), <<ch>>)
<1>1. PICK g : Seated(d, g)
  BY DEF Fine
<1>2. Position(d) \in Nat
  BY <1>1, SeatedFacts
<1>3. Reads(d, g, <<>>)
  <2>1. Len(<<>>) = 0
    OBVIOUS
  <2> QED BY <1>2, <2>1 DEF Reads
<1>4. Echoes(d, <<>>)
  BY <1>1, <1>3 DEF Echoes
<1>5. Len(<<>>) <= Room
  <2>1. Len(<<>>) = 0
    OBVIOUS
  <2>2. Room \in Nat
    BY Sizes DEF Room
  <2> QED BY <2>1, <2>2
<1>6. <<>> \in Seq(Chars) /\ Append(<<>>, ch) = <<ch>>
  OBVIOUS
<1> QED BY <1>4, <1>5, <1>6, EchoPut

(* A backspace takes the last character back. *)
LEMMA EchoBack ==
  ASSUME NEW d, NEW t \in Seq(Chars), NEW c \in Chars, Echoes(d, Append(t, c))
  PROVE  Echoes(HalpFbPutChar(d, Backspace), t)
<1> DEFINE e == HalpFbPutChar(d, Backspace)
           u == Append(t, c)
<1>1. PICK g : Seated(d, g) /\ Reads(d, g, u)
  BY DEF Echoes
<1>2. PICK L \in Nat : L = Len(t)
  OBVIOUS
<1>3. Len(u) = L + 1 /\ \A i \in 1 .. L : u[i] = t[i]
  BY <1>2
<1> HIDE DEF u
<1>4. PICK P \in Nat : P = Position(d)
  BY <1>1, SeatedFacts
<1>5. L + 1 <= P
  BY <1>1, <1>3, <1>4 DEF Reads
<1>6. PICK h : /\ Seated(e, h)
               /\ Position(d) > 0 =>
                    /\ Position(e) = Position(d) - 1
                    /\ \A i \in 0 .. Position(d) - 2 : At(h, i) = At(g, i)
  BY <1>1, PutBackspace
<1> HIDE DEF e
<1>7. Position(e) = P - 1 /\ \A i \in 0 .. P - 2 : At(h, i) = At(g, i)
  BY <1>4, <1>5, <1>6
<1>8. ASSUME NEW i \in 1 .. L PROVE At(h, Position(e) - L + i - 1) = t[i]
  <2>1. Position(e) - L + i - 1 = P - (L + 1) + i - 1 /\ P - (L + 1) + i - 1 \in 0 .. P - 2
    BY <1>5, <1>7
  <2>2. At(g, P - (L + 1) + i - 1) = u[i]
    BY <1>1, <1>3, <1>4 DEF Reads
  <2> QED BY <1>3, <1>7, <2>1, <2>2
<1>9. Reads(e, h, t)
  BY <1>2, <1>5, <1>7, <1>8 DEF Reads
<1> QED BY <1>6, <1>9 DEF Echoes, e

(* Erasing the last character: step back, blank, step back. *)
LEMMA EchoErase ==
  ASSUME NEW d, NEW t \in Seq(Chars), NEW c \in Chars, Echoes(d, Append(t, c)), Len(t) <= Room
  PROVE  Echoes(KipSysDebugPrint(d, CursorOff), t)
<1> DEFINE b == HalpFbPutChar(d, Backspace)
           s == HalpFbPutChar(b, Space)
           e == HalpFbPutChar(s, Backspace)
<1>1. Echoes(b, t)
  BY EchoBack
<1>2. Space \in Chars \ {Newline, Backspace} /\ Space \notin Unprintable
  BY CharFacts DEF Space, Newline, Backspace, Unprintable, Delete
<1> HIDE DEF b
<1>3. Echoes(s, Append(t, Space))
  BY <1>1, <1>2, EchoPut
<1> HIDE DEF s
<1>4. Echoes(e, t)
  BY <1>2, <1>3, EchoBack
<1> HIDE DEF e
<1>5. KipSysDebugPrint(d, CursorOff) = HalWriteDebugString(d, CursorOff)
  <2>1. CursorOff \in Printed /\ CommandOutput(CursorOff) = <<>>
    BY TextAssumption DEF Printed
  <2> QED BY <2>1, PrintedFacts, QuietPrint
<1>6. HalWriteDebugString(d, CursorOff) = e
  BY WriteThree DEF CursorOff, e, s, b
<1> QED BY <1>4, <1>5, <1>6

(* An echo is read on the screen. *)
LEMMA EchoIsShown ==
  ASSUME NEW d, NEW t \in Seq(Chars), Echoes(d, t)
  PROVE  Shows(d, t)
<1>1. PICK g : Seated(d, g) /\ Reads(d, g, t)
  BY DEF Echoes
<1>2. d.fb \in Framebuffers /\ Drawn(d.fb, g) /\ Position(d) \in 0 .. Rows * Cols /\ Rows * Cols \in Nat
  BY <1>1, SeatedFacts
<1>3. PICK L \in Nat : L = Len(t)
  OBVIOUS
<1>4. ASSUME NEW i \in 1 .. L PROVE CharAt(d, Position(d) - L + i - 1) = t[i]
  <2>1. L <= Position(d) /\ At(g, Position(d) - L + i - 1) = t[i]
    BY <1>1, <1>3 DEF Reads
  <2>2. Position(d) - L + i - 1 \in Cells
    BY <1>2, <2>1 DEF Cells
  <2> QED BY <1>2, <2>1, <2>2, CharAtReads
<1> QED BY <1>3, <1>4 DEF Shows

-----------------------------------------------------------------------------
(***************************************************************************)
(* The keyboard decoder.                                                   *)
(***************************************************************************)
Codes == (Keys \cup {"E0", "E1"}) \X BOOLEAN
KeyStates == [left : BOOLEAN, right : BOOLEAN, caps : BOOLEAN, extended : BOOLEAN]
KeyChars == Typeable \cup {Newline, Backspace}

(* One byte gives a state and, perhaps, a character. *)
LEMMA ReadTyped ==
  ASSUME NEW k \in KeyStates, NEW code \in Codes
  PROVE  /\ HalpPs2TryReadChar(k, code).state \in KeyStates
         /\ HalpPs2TryReadChar(k, code).ch \in KeyChars \cup {NoChar}
<1> DEFINE key == code[1]
           made == ~code[2]
<1>1. key \in Keys \cup {"E0", "E1"} /\ made \in BOOLEAN
  BY DEF Codes
<1>2. \A q \in Keys : gHalPs2Map[q] \in KeyChars \cup {NoChar} /\ gHalPs2MapShift[q] \in KeyChars \cup {NoChar}
  BY DEF gHalPs2Map, gHalPs2MapShift, Keys, KeyChars, Typeable, Newline, Backspace, NoChar
<1>3. \A q \in Keys : MapKey(k, q) \in KeyChars \cup {NoChar}
  BY <1>2 DEF MapKey, KeyChars, Typeable
<1>4. CASE key \in {"E0", "E1", "shiftLeft", "shiftRight"}
  BY <1>1, <1>4 DEF HalpPs2TryReadChar, KeyStates, KeyChars
<1>5. CASE key \notin {"E0", "E1", "shiftLeft", "shiftRight"} /\ key = "caps" /\ made
  BY <1>1, <1>5 DEF HalpPs2TryReadChar, KeyStates, KeyChars
<1>6. CASE key \notin {"E0", "E1", "shiftLeft", "shiftRight"} /\ ~made
  BY <1>1, <1>6 DEF HalpPs2TryReadChar, KeyStates, KeyChars, PrefixUsed
<1>7. CASE key \notin {"E0", "E1", "shiftLeft", "shiftRight", "caps"} /\ made /\ k.extended
  BY <1>1, <1>7 DEF HalpPs2TryReadChar, KeyStates, KeyChars
<1>8. CASE key \notin {"E0", "E1", "shiftLeft", "shiftRight", "caps"} /\ made /\ ~k.extended
  <2>1. HalpPs2TryReadChar(k, code).state = k /\ HalpPs2TryReadChar(k, code).ch = MapKey(k, key)
    BY <1>1, <1>8 DEF HalpPs2TryReadChar
  <2> QED BY <1>1, <1>3, <1>8, <2>1
<1> QED BY <1>1, <1>4, <1>5, <1>6, <1>7, <1>8

Begin(q) == [state |-> q, text |-> <<>>]

DecodesBy(w, q, s, n) ==
  /\ w[0] = Begin(q) /\ w[n] = Decode(q, s)
  /\ \A k \in 1 .. n : w[k] = DecodeNext(w[k - 1], s[k])

(* The decoder's loop as a sequence of results, one for each byte. *)
LEMMA DecodeLoop ==
  ASSUME NEW q, NEW s, NEW n \in Nat, n = Len(s)
  PROVE  \E w : DecodesBy(w, q, s, n)
<1> DEFINE Runs(w, j) == w = [k \in 0 .. j |-> IF k = 0 THEN Begin(q) ELSE DecodeNext(w[k - 1], s[k])]
           S == {j \in Nat : \E w : Runs(w, j)}
<1>1. Decode(q, s) = (CHOOSE w : Runs(w, n))[n]
  BY DEF Decode, Begin
<1>2. 0 \in S
  <2>1. Runs([k \in 0 .. 0 |-> Begin(q)], 0)
    OBVIOUS
  <2> QED BY <2>1
<1>3. ASSUME NEW j \in 1 .. n, j - 1 \in S PROVE j \in S
  <2>1. PICK w : Runs(w, j - 1)
    BY <1>3
  <2> DEFINE v == [k \in 0 .. j |-> IF k < j THEN w[k] ELSE DecodeNext(w[j - 1], s[j])]
  <2>2. ASSUME NEW k \in 0 .. j
        PROVE  v[k] = IF k = 0 THEN Begin(q) ELSE DecodeNext(v[k - 1], s[k])
    <3>1. CASE k = j
      BY <3>1
    <3>2. CASE k < j
      <4>1. k \in 0 .. (j - 1)
        BY <3>2
      <4>2. w[k] = IF k = 0 THEN Begin(q) ELSE DecodeNext(w[k - 1], s[k])
        BY <2>1, <4>1
      <4>3. v[k] = w[k] /\ (k # 0 => v[k - 1] = w[k - 1])
        BY <3>2
      <4> HIDE DEF v
      <4> QED BY <4>2, <4>3
    <3> QED BY <3>1, <3>2
  <2>3. v = [k \in 0 .. j |-> v[k]]
    OBVIOUS
  <2> HIDE DEF v
  <2>4. Runs(v, j)
    BY <2>2, <2>3
  <2> QED BY <2>4
<1>4. n \in S
  <2> HIDE DEF S
  <2>1. \A k \in 0 .. n : k \in S
    BY <1>2, <1>3, Iteration
  <2> QED BY <2>1
<1>5. PICK w : w = CHOOSE v : Runs(v, n)
  OBVIOUS
<1>6. Runs(w, n)
  <2>1. \E v : Runs(v, n)
    BY <1>4
  <2> HIDE DEF Runs
  <2> QED BY <1>5, <2>1
<1>7. w[0] = Begin(q) /\ \A k \in 1 .. n : w[k] = DecodeNext(w[k - 1], s[k])
  BY <1>6
<1>8. w[n] = Decode(q, s)
  BY <1>1, <1>5
<1> HIDE DEF Runs, S
<1> QED BY <1>7, <1>8 DEF DecodesBy

Results == [state : KeyStates, text : Seq(KeyChars)]

(* One more byte keeps the result a result, *)
LEMMA DecodeNextTyped ==
  ASSUME NEW r \in Results, NEW code \in Codes
  PROVE  DecodeNext(r, code) \in Results
<1> DEFINE read == HalpPs2TryReadChar(r.state, code)
<1>1. r.state \in KeyStates /\ r.text \in Seq(KeyChars)
  BY DEF Results
<1>2. read.state \in KeyStates /\ read.ch \in KeyChars \cup {NoChar}
  BY <1>1, ReadTyped
<1>3. DecodeNext(r, code) = [state |-> read.state,
                             text |-> IF read.ch = NoChar THEN r.text ELSE Append(r.text, read.ch)]
  BY DEF DecodeNext
<1> HIDE DEF read
<1> QED BY <1>1, <1>2, <1>3 DEF Results

(* and so does every byte of the loop. *)
LEMMA DecodeTyped ==
  ASSUME NEW q \in KeyStates, NEW s \in Seq(Codes), NEW n \in Nat, n = Len(s), NEW w,
         w[0] = Begin(q), \A k \in 1 .. n : w[k] = DecodeNext(w[k - 1], s[k])
  PROVE  \A k \in 0 .. n : w[k] \in Results
<1> DEFINE S == {k \in 0 .. n : w[k] \in Results}
<1>1. 0 \in S
  <2>1. Begin(q) \in Results
    <3>1. <<>> \in Seq(KeyChars)
      OBVIOUS
    <3> QED BY <3>1 DEF Results, Begin
  <2> QED BY <2>1
<1>2. ASSUME NEW k \in 1 .. n, k - 1 \in S PROVE k \in S
  <2>1. w[k - 1] \in Results /\ s[k] \in Codes /\ w[k] = DecodeNext(w[k - 1], s[k])
    BY <1>2
  <2>2. w[k] \in Results
    BY <2>1, DecodeNextTyped
  <2> QED BY <2>2
<1>3. \A k \in 0 .. n : k \in S
  <2> HIDE DEF S
  <2> QED BY <1>1, <1>2, Iteration
<1> QED BY <1>3

(* Decoding no bytes. *)
LEMMA DecodeEmpty ==
  ASSUME NEW q
  PROVE  Decode(q, <<>>) = Begin(q)
<1>1. PICK s : s = <<>>
  OBVIOUS
<1>2. PICK n \in Nat : n = Len(s)
  BY <1>1
<1>3. PICK w : DecodesBy(w, q, s, n)
  BY <1>2, DecodeLoop
<1>4. n = 0
  BY <1>1, <1>2
<1> QED BY <1>1, <1>3, <1>4 DEF DecodesBy

(* Decoding one more byte. *)
LEMMA DecodeAppend ==
  ASSUME NEW q \in KeyStates, NEW s \in Seq(Codes), NEW code \in Codes
  PROVE  Decode(q, Append(s, code)) = DecodeNext(Decode(q, s), code) /\ Decode(q, s) \in Results
<1>0. PICK u : u = Append(s, code)
  OBVIOUS
<1>1. PICK n \in Nat : n = Len(s)
  OBVIOUS
<1>2. PICK m \in Nat : m = Len(u) /\ m = n + 1
  BY <1>0, <1>1
<1>3. u[n + 1] = code /\ \A k \in 1 .. n : u[k] = s[k]
  BY <1>0, <1>1
<1>4. PICK w : /\ w[0] = Begin(q) /\ w[n] = Decode(q, s)
               /\ \A k \in 1 .. n : w[k] = DecodeNext(w[k - 1], s[k])
  <2>1. \E w : DecodesBy(w, q, s, n)
    BY <1>1, DecodeLoop
  <2> QED BY <2>1 DEF DecodesBy
<1>5. m = Len(u)
  BY <1>2
<1>6. PICK v : /\ v[0] = Begin(q) /\ v[m] = Decode(q, u)
               /\ \A k \in 1 .. m : v[k] = DecodeNext(v[k - 1], u[k])
  <2>1. \E v : DecodesBy(v, q, u, m)
    BY <1>5, DecodeLoop
  <2> QED BY <2>1 DEF DecodesBy
<1> DEFINE S == {k \in 0 .. n : v[k] = w[k]}
<1>7. 0 \in S
  BY <1>4, <1>6
<1>8. ASSUME NEW k \in 1 .. n, k - 1 \in S PROVE k \in S
  BY <1>2, <1>3, <1>4, <1>6, <1>8
<1>9. \A k \in 0 .. n : k \in S
  <2> HIDE DEF S
  <2> QED BY <1>7, <1>8, Iteration
<1>10. v[m] = DecodeNext(w[n], code)
  <2>1. v[m] = DecodeNext(v[m - 1], u[m]) /\ m - 1 = n
    BY <1>2, <1>6
  <2>2. v[n] = w[n]
    BY <1>9
  <2> QED BY <1>2, <1>3, <2>1, <2>2
<1>11. w[n] \in Results
  BY <1>1, <1>4, DecodeTyped
<1> QED BY <1>0, <1>4, <1>6, <1>10, <1>11

(* Appending to a concatenation appends to its second part. *)
LEMMA KeyTexts ==
  \A a \in Seq(KeyChars), b \in Seq(KeyChars), c \in KeyChars : Append(a \o b, c) = a \o Append(b, c)
OBVIOUS

(* The characters a byte adds. *)
Given(ch) == IF ch = NoChar THEN <<>> ELSE <<ch>>

(* Reading the first byte takes its character off the front of the text. *)
LEMMA DecodeHead ==
  ASSUME NEW q \in KeyStates, NEW s \in Seq(Codes), s # <<>>
  PROVE  LET read == HalpPs2TryReadChar(q, Head(s))
             rest == Decode(read.state, Tail(s))
         IN  /\ rest \in Results
             /\ Decode(q, s).state = rest.state
             /\ Decode(q, s).text = Given(read.ch) \o rest.text
<1>0. PICK code, t : code = Head(s) /\ t = Tail(s)
  OBVIOUS
<1>1. PICK n \in Nat : n = Len(s)
  OBVIOUS
<1>2. PICK m \in Nat : m = Len(t)
  BY <1>0
<1>3. /\ n = m + 1 /\ code \in Codes /\ t \in Seq(Codes) /\ s[1] = code
      /\ \A k \in 1 .. m : t[k] = s[k + 1]
  BY <1>0, <1>1, <1>2
<1>4. PICK read : read = HalpPs2TryReadChar(q, code)
  OBVIOUS
<1>5. read.state \in KeyStates /\ read.ch \in KeyChars \cup {NoChar}
  BY <1>3, <1>4, ReadTyped
<1>6. PICK w : /\ w[0] = Begin(q) /\ w[n] = Decode(q, s)
               /\ \A k \in 1 .. n : w[k] = DecodeNext(w[k - 1], s[k])
  <2>1. \E w : DecodesBy(w, q, s, n)
    BY <1>1, DecodeLoop
  <2> QED BY <2>1 DEF DecodesBy
<1>7. PICK v : /\ v[0] = Begin(read.state) /\ v[m] = Decode(read.state, t)
               /\ \A k \in 1 .. m : v[k] = DecodeNext(v[k - 1], t[k])
  <2>1. \E v : DecodesBy(v, read.state, t, m)
    BY <1>2, DecodeLoop
  <2> QED BY <2>1 DEF DecodesBy
<1>8. \A k \in 0 .. m : v[k] \in Results
  BY <1>2, <1>3, <1>5, <1>7, DecodeTyped
<1>9. Given(read.ch) \in Seq(KeyChars)
  BY <1>5 DEF Given
<1> DEFINE Ahead(a, b) == a.state = b.state /\ a.text = Given(read.ch) \o b.text
           S == {k \in 0 .. m : Ahead(w[k + 1], v[k])}
<1>10. 0 \in S
  <2>1. w[1] = DecodeNext(w[0], code)
    BY <1>3, <1>6
  <2>2. w[0].state = q /\ w[0].text = <<>>
    BY <1>6 DEF Begin
  <2>3. w[1] = [state |-> read.state, text |-> IF read.ch = NoChar THEN <<>> ELSE Append(<<>>, read.ch)]
    BY <1>4, <2>1, <2>2 DEF DecodeNext
  <2>4. w[1].state = read.state /\ w[1].text = Given(read.ch)
    BY <2>3 DEF Given
  <2>5. v[0].state = read.state /\ v[0].text = <<>>
    BY <1>7 DEF Begin
  <2>6. Given(read.ch) \o <<>> = Given(read.ch)
    BY <1>9
  <2>7. Ahead(w[1], v[0])
    BY <2>4, <2>5, <2>6
  <2>8. 0 + 1 = 1 /\ 0 \in 0 .. m
    OBVIOUS
  <2> HIDE DEF Ahead
  <2> QED BY <2>7, <2>8
<1>11. ASSUME NEW k \in 1 .. m, k - 1 \in S PROVE k \in S
  <2>1. w[k].state = v[k - 1].state /\ w[k].text = Given(read.ch) \o v[k - 1].text
    <3>1. (k - 1) + 1 = k
      OBVIOUS
    <3>2. Ahead(w[(k - 1) + 1], v[k - 1])
      <4> HIDE DEF Ahead
      <4> QED BY <1>11
    <3>3. Ahead(w[k], v[k - 1])
      <4> HIDE DEF Ahead
      <4> QED BY <3>1, <3>2
    <3> QED BY <3>3
  <2>2. w[k + 1] = DecodeNext(w[k], t[k]) /\ v[k] = DecodeNext(v[k - 1], t[k])
    BY <1>3, <1>6, <1>7
  <2>3. PICK next : next = HalpPs2TryReadChar(v[k - 1].state, t[k])
    OBVIOUS
  <2>4. v[k - 1] \in Results /\ t[k] \in Codes
    BY <1>2, <1>3, <1>8
  <2>5. v[k - 1].text \in Seq(KeyChars) /\ next.ch \in KeyChars \cup {NoChar}
    BY <2>3, <2>4, ReadTyped DEF Results
  <2>6. /\ v[k].state = next.state
        /\ v[k].text = IF next.ch = NoChar THEN v[k - 1].text ELSE Append(v[k - 1].text, next.ch)
    BY <2>2, <2>3 DEF DecodeNext
  <2>7. /\ w[k + 1].state = next.state
        /\ w[k + 1].text = IF next.ch = NoChar THEN w[k].text ELSE Append(w[k].text, next.ch)
    BY <2>1, <2>2, <2>3 DEF DecodeNext
  <2>8. ASSUME next.ch # NoChar
        PROVE  Append(Given(read.ch) \o v[k - 1].text, next.ch)
                 = Given(read.ch) \o Append(v[k - 1].text, next.ch)
    <3>1. next.ch \in KeyChars
      BY <2>5, <2>8
    <3> QED BY <1>9, <2>5, <3>1, KeyTexts, Zenon
  <2>9. Ahead(w[k + 1], v[k])
    BY <2>1, <2>6, <2>7, <2>8
  <2> HIDE DEF Ahead
  <2> QED BY <2>9
<1>12. \A k \in 0 .. m : k \in S
  <2> HIDE DEF S
  <2> QED BY <1>10, <1>11, Iteration
<1>13. w[n].state = v[m].state /\ w[n].text = Given(read.ch) \o v[m].text /\ v[m] \in Results
  <2>1. m \in 0 .. m
    OBVIOUS
  <2>2. Ahead(w[m + 1], v[m])
    <3> HIDE DEF Ahead
    <3> QED BY <1>12, <2>1
  <2>3. Ahead(w[n], v[m])
    <3> HIDE DEF Ahead, S
    <3> QED BY <1>3, <2>2
  <2>4. v[m] \in Results
    BY <1>8, <2>1
  <2> QED BY <2>3, <2>4
<1> QED BY <1>0, <1>4, <1>6, <1>7, <1>13

(* The state of the decoder once it has read everything that was sent. *)
Held(p, c) ==
  [left |-> "shiftLeft" \in p, right |-> "shiftRight" \in p, caps |-> c, extended |-> FALSE]
Prefixed(p, c) == [Held(p, c) EXCEPT !.extended = TRUE]

(* Two states with equal fields are equal. *)
LEMMA KeyStateEqual ==
  ASSUME NEW a \in KeyStates, NEW b \in KeyStates, a.left <=> b.left, a.right <=> b.right,
         a.caps <=> b.caps, a.extended <=> b.extended
  PROVE  a = b
BY DEF KeyStates

(* What the decoder's assignments do to the fields. *)
LEMMA KeyStateChanges ==
  ASSUME NEW k \in KeyStates, NEW b \in BOOLEAN
  PROVE  /\ LET e == [k EXCEPT !.extended = b] IN
            /\ e \in KeyStates /\ (e.left <=> k.left) /\ (e.right <=> k.right)
            /\ (e.caps <=> k.caps) /\ (e.extended <=> b)
         /\ LET e == [k EXCEPT !.left = b, !.extended = FALSE] IN
            /\ e \in KeyStates /\ (e.left <=> b) /\ (e.right <=> k.right)
            /\ (e.caps <=> k.caps) /\ (e.extended <=> FALSE)
         /\ LET e == [k EXCEPT !.right = b, !.extended = FALSE] IN
            /\ e \in KeyStates /\ (e.left <=> k.left) /\ (e.right <=> b)
            /\ (e.caps <=> k.caps) /\ (e.extended <=> FALSE)
         /\ LET e == [k EXCEPT !.caps = ~@, !.extended = FALSE] IN
            /\ e \in KeyStates /\ (e.left <=> k.left) /\ (e.right <=> k.right)
            /\ (e.caps <=> ~k.caps) /\ (e.extended <=> FALSE)
<1>1. LET e == [k EXCEPT !.extended = b] IN
        /\ e \in KeyStates /\ (e.left <=> k.left) /\ (e.right <=> k.right)
        /\ (e.caps <=> k.caps) /\ (e.extended <=> b)
  BY DEF KeyStates
<1>2. LET e == [k EXCEPT !.left = b, !.extended = FALSE] IN
        /\ e \in KeyStates /\ (e.left <=> b) /\ (e.right <=> k.right)
        /\ (e.caps <=> k.caps) /\ (e.extended <=> FALSE)
  BY DEF KeyStates
<1>3. LET e == [k EXCEPT !.right = b, !.extended = FALSE] IN
        /\ e \in KeyStates /\ (e.left <=> k.left) /\ (e.right <=> b)
        /\ (e.caps <=> k.caps) /\ (e.extended <=> FALSE)
  BY DEF KeyStates
<1>4. LET e == [k EXCEPT !.caps = ~@, !.extended = FALSE] IN
        /\ e \in KeyStates /\ (e.left <=> k.left) /\ (e.right <=> k.right)
        /\ (e.caps <=> ~k.caps) /\ (e.extended <=> FALSE)
  BY DEF KeyStates
<1> QED BY <1>1, <1>2, <1>3, <1>4

(* The fields of the state without a prefix, *)
LEMMA HeldFields ==
  ASSUME NEW p, NEW c \in BOOLEAN
  PROVE  /\ Held(p, c) \in KeyStates /\ (Held(p, c).left <=> "shiftLeft" \in p)
         /\ (Held(p, c).right <=> "shiftRight" \in p) /\ (Held(p, c).caps <=> c)
         /\ (Held(p, c).extended <=> FALSE)
<1>1. Held(p, c) \in KeyStates
  BY DEF Held, KeyStates
<1>2. (Held(p, c).left <=> "shiftLeft" \in p) /\ (Held(p, c).right <=> "shiftRight" \in p)
  BY DEF Held
<1>3. (Held(p, c).caps <=> c) /\ (Held(p, c).extended <=> FALSE)
  BY DEF Held
<1> QED BY <1>1, <1>2, <1>3

(* and of the state after one. *)
LEMMA PrefixedFields ==
  ASSUME NEW p, NEW c \in BOOLEAN
  PROVE  /\ Prefixed(p, c) \in KeyStates /\ (Prefixed(p, c).extended <=> TRUE)
         /\ [Prefixed(p, c) EXCEPT !.extended = FALSE] = Held(p, c)
         /\ [Held(p, c) EXCEPT !.extended = FALSE] = Held(p, c)
<1> DEFINE h == Held(p, c)
           e == Prefixed(p, c)
           f == [e EXCEPT !.extended = FALSE]
           g == [h EXCEPT !.extended = FALSE]
<1>1. h \in KeyStates /\ (h.extended <=> FALSE)
  BY HeldFields
<1> HIDE DEF h
<1>2. /\ e \in KeyStates /\ (e.left <=> h.left) /\ (e.right <=> h.right)
      /\ (e.caps <=> h.caps) /\ (e.extended <=> TRUE)
  BY <1>1, KeyStateChanges DEF Prefixed, h
<1> HIDE DEF e
<1>3. /\ f \in KeyStates /\ (f.left <=> e.left) /\ (f.right <=> e.right)
      /\ (f.caps <=> e.caps) /\ (f.extended <=> FALSE)
  BY <1>2, KeyStateChanges
<1>4. /\ g \in KeyStates /\ (g.left <=> h.left) /\ (g.right <=> h.right)
      /\ (g.caps <=> h.caps) /\ (g.extended <=> FALSE)
  BY <1>1, KeyStateChanges
<1> HIDE DEF f, g
<1>5. f = h /\ g = h
  BY <1>1, <1>2, <1>3, <1>4, KeyStateEqual
<1> QED BY <1>2, <1>5 DEF e, f, g, h

(* Held depends on the shift keys only. *)
LEMMA HeldEqual ==
  ASSUME NEW p, NEW q, NEW c \in BOOLEAN,
         "shiftLeft" \in p <=> "shiftLeft" \in q, "shiftRight" \in p <=> "shiftRight" \in q
  PROVE  Held(p, c) = Held(q, c)
BY HeldFields, KeyStateEqual

(* A prefix: the state is remembered and nothing is typed. *)
LEMMA ReadPrefix ==
  ASSUME NEW p, NEW c \in BOOLEAN
  PROVE  /\ HalpPs2TryReadChar(Held(p, c), <<"E0", FALSE>>).state = Prefixed(p, c)
         /\ HalpPs2TryReadChar(Held(p, c), <<"E0", FALSE>>).ch = NoChar
         /\ HalpPs2TryReadChar(Held(p, c), <<"E1", FALSE>>).state = Held(p, c)
         /\ HalpPs2TryReadChar(Held(p, c), <<"E1", FALSE>>).ch = NoChar
BY PrefixedFields DEF HalpPs2TryReadChar, Prefixed

(* The second byte of a key with a prefix. *)
LEMMA ReadPrefixed ==
  ASSUME NEW p, NEW c \in BOOLEAN, NEW key \in {"enter", "symbol"}, NEW broken \in BOOLEAN
  PROVE  LET read == HalpPs2TryReadChar(Prefixed(p, c), <<key, broken>>)
         IN  /\ read.state = Held(p, c)
             /\ read.ch = IF key = "enter" /\ ~broken THEN Newline ELSE NoChar
<1>1. CASE broken
  BY <1>1, PrefixedFields DEF HalpPs2TryReadChar, PrefixUsed
<1>2. CASE ~broken
  BY <1>2, PrefixedFields DEF HalpPs2TryReadChar
<1> QED BY <1>1, <1>2

(* A key without a prefix is released. *)
LEMMA ReadRelease ==
  ASSUME NEW p, NEW c \in BOOLEAN, NEW key \in Keys
  PROVE  LET read == HalpPs2TryReadChar(Held(p, c), <<key, TRUE>>)
         IN  read.state = Held(p \ {key}, c) /\ read.ch = NoChar
<1> DEFINE read == HalpPs2TryReadChar(Held(p, c), <<key, TRUE>>)
<1>1. CASE key = "shiftLeft"
  <2> DEFINE e == [Held(p, c) EXCEPT !.left = FALSE, !.extended = FALSE]
  <2>1. read.state = e /\ read.ch = NoChar
    BY <1>1 DEF HalpPs2TryReadChar
  <2>2. e = Held(p \ {key}, c)
    <3>1. Held(p, c) \in KeyStates
      BY HeldFields
    <3>2. /\ e \in KeyStates /\ (e.left <=> FALSE) /\ (e.right <=> Held(p, c).right) /\ (e.caps <=> Held(p, c).caps) /\ (e.extended <=> FALSE)
      BY <3>1, KeyStateChanges
    <3> HIDE DEF e
    <3>3. /\ Held(p \ {key}, c) \in KeyStates /\ (Held(p \ {key}, c).left <=> e.left) /\ (Held(p \ {key}, c).right <=> e.right)
          /\ (Held(p \ {key}, c).caps <=> e.caps) /\ (Held(p \ {key}, c).extended <=> e.extended)
      BY <1>1, <3>2, HeldFields
    <3> QED BY <3>2, <3>3, KeyStateEqual
  <2> HIDE DEF e
  <2> QED BY <2>1, <2>2
<1>2. CASE key = "shiftRight"
  <2> DEFINE e == [Held(p, c) EXCEPT !.right = FALSE, !.extended = FALSE]
  <2>1. read.state = e /\ read.ch = NoChar
    BY <1>2 DEF HalpPs2TryReadChar
  <2>2. e = Held(p \ {key}, c)
    <3>1. Held(p, c) \in KeyStates
      BY HeldFields
    <3>2. /\ e \in KeyStates /\ (e.left <=> Held(p, c).left) /\ (e.right <=> FALSE) /\ (e.caps <=> Held(p, c).caps) /\ (e.extended <=> FALSE)
      BY <3>1, KeyStateChanges
    <3> HIDE DEF e
    <3>3. /\ Held(p \ {key}, c) \in KeyStates /\ (Held(p \ {key}, c).left <=> e.left) /\ (Held(p \ {key}, c).right <=> e.right)
          /\ (Held(p \ {key}, c).caps <=> e.caps) /\ (Held(p \ {key}, c).extended <=> e.extended)
      BY <1>2, <3>2, HeldFields
    <3> QED BY <3>2, <3>3, KeyStateEqual
  <2> HIDE DEF e
  <2> QED BY <2>1, <2>2
<1>3. CASE key \notin {"shiftLeft", "shiftRight"}
  <2>1. read.state = [Held(p, c) EXCEPT !.extended = FALSE] /\ read.ch = NoChar
    <3>1. key \notin {"E0", "E1"}
      BY DEF Keys
    <3> QED BY <1>3, <3>1 DEF HalpPs2TryReadChar, PrefixUsed
  <2>2. Held(p, c) = Held(p \ {key}, c)
    BY <1>3, HeldEqual
  <2> QED BY <2>1, <2>2, PrefixedFields
<1> QED BY <1>1, <1>2, <1>3

(* A key without a prefix is pressed: the decoder gives what is meant. *)
LEMMA ReadPress ==
  ASSUME capsOn \in BOOLEAN, NEW key \in Keys
  PROVE  LET read == HalpPs2TryReadChar(Held(pressed, capsOn), <<key, FALSE>>)
         IN  read.state = Held(pressed \cup {key}, capsOn # (key = "caps")) /\ Given(read.ch) = Meant(key)
<1> DEFINE st == Held(pressed, capsOn)
           read == HalpPs2TryReadChar(st, <<key, FALSE>>)
<1>1. CASE key = "shiftLeft"
  <2> DEFINE e == [st EXCEPT !.left = TRUE, !.extended = FALSE]
  <2>1. read.state = e /\ read.ch = NoChar
    BY <1>1 DEF HalpPs2TryReadChar
  <2>2. e = Held(pressed \cup {key}, capsOn)
    <3>1. st \in KeyStates
      BY HeldFields
    <3>2. /\ e \in KeyStates /\ (e.left <=> TRUE) /\ (e.right <=> st.right) /\ (e.caps <=> st.caps) /\ (e.extended <=> FALSE)
      BY <3>1, KeyStateChanges
    <3> HIDE DEF e
    <3>3. /\ Held(pressed \cup {key}, capsOn) \in KeyStates /\ (Held(pressed \cup {key}, capsOn).left <=> e.left) /\ (Held(pressed \cup {key}, capsOn).right <=> e.right)
          /\ (Held(pressed \cup {key}, capsOn).caps <=> e.caps) /\ (Held(pressed \cup {key}, capsOn).extended <=> e.extended)
      BY <1>1, <3>2, HeldFields
    <3> QED BY <3>2, <3>3, KeyStateEqual
  <2>3. (capsOn # (key = "caps")) = capsOn
    BY <1>1
  <2>4. Given(NoChar) = Meant(key)
    BY <1>1 DEF Meant, Given
  <2> HIDE DEF e
  <2> QED BY <2>1, <2>2, <2>3, <2>4
<1>2. CASE key = "shiftRight"
  <2> DEFINE e == [st EXCEPT !.right = TRUE, !.extended = FALSE]
  <2>1. read.state = e /\ read.ch = NoChar
    BY <1>2 DEF HalpPs2TryReadChar
  <2>2. e = Held(pressed \cup {key}, capsOn)
    <3>1. st \in KeyStates
      BY HeldFields
    <3>2. /\ e \in KeyStates /\ (e.left <=> st.left) /\ (e.right <=> TRUE) /\ (e.caps <=> st.caps) /\ (e.extended <=> FALSE)
      BY <3>1, KeyStateChanges
    <3> HIDE DEF e
    <3>3. /\ Held(pressed \cup {key}, capsOn) \in KeyStates /\ (Held(pressed \cup {key}, capsOn).left <=> e.left) /\ (Held(pressed \cup {key}, capsOn).right <=> e.right)
          /\ (Held(pressed \cup {key}, capsOn).caps <=> e.caps) /\ (Held(pressed \cup {key}, capsOn).extended <=> e.extended)
      BY <1>2, <3>2, HeldFields
    <3> QED BY <3>2, <3>3, KeyStateEqual
  <2>3. (capsOn # (key = "caps")) = capsOn
    BY <1>2
  <2>4. Given(NoChar) = Meant(key)
    BY <1>2 DEF Meant, Given
  <2> HIDE DEF e
  <2> QED BY <2>1, <2>2, <2>3, <2>4
<1>3. CASE key = "caps"
  <2> DEFINE e == [st EXCEPT !.caps = ~@, !.extended = FALSE]
  <2>1. read.state = e /\ read.ch = NoChar
    BY <1>3 DEF HalpPs2TryReadChar
  <2>2. e = Held(pressed \cup {key}, ~capsOn)
    <3>1. st \in KeyStates
      BY HeldFields
    <3>2. /\ e \in KeyStates /\ (e.left <=> st.left) /\ (e.right <=> st.right) /\ (e.caps <=> ~st.caps) /\ (e.extended <=> FALSE)
      BY <3>1, KeyStateChanges
    <3> HIDE DEF e
    <3>3. /\ Held(pressed \cup {key}, ~capsOn) \in KeyStates /\ (Held(pressed \cup {key}, ~capsOn).left <=> e.left) /\ (Held(pressed \cup {key}, ~capsOn).right <=> e.right)
          /\ (Held(pressed \cup {key}, ~capsOn).caps <=> e.caps) /\ (Held(pressed \cup {key}, ~capsOn).extended <=> e.extended)
      <4>1. (~capsOn) \in BOOLEAN
        OBVIOUS
      <4>2. /\ Held(pressed \cup {key}, ~capsOn) \in KeyStates /\ (Held(pressed \cup {key}, ~capsOn).left <=> "shiftLeft" \in pressed \cup {key})
            /\ (Held(pressed \cup {key}, ~capsOn).right <=> "shiftRight" \in pressed \cup {key})
            /\ (Held(pressed \cup {key}, ~capsOn).caps <=> ~capsOn) /\ (Held(pressed \cup {key}, ~capsOn).extended <=> FALSE)
        BY <4>1, HeldFields
      <4>3. /\ (st.left <=> "shiftLeft" \in pressed) /\ (st.right <=> "shiftRight" \in pressed)
            /\ (st.caps <=> capsOn)
        BY HeldFields
      <4> QED BY <1>3, <3>2, <4>2, <4>3
    <3> QED BY <3>2, <3>3, KeyStateEqual
  <2>3. (capsOn # (key = "caps")) = (~capsOn)
    BY <1>3
  <2>4. Given(NoChar) = Meant(key)
    BY <1>3 DEF Meant, Given
  <2> HIDE DEF e
  <2> QED BY <2>1, <2>2, <2>3, <2>4
<1>4. CASE key \notin {"shiftLeft", "shiftRight", "caps"}
  <2>1. read.state = st /\ read.ch = MapKey(st, key)
    <3>1. key \notin {"E0", "E1"}
      BY DEF Keys
    <3>2. ~ st.extended
      BY HeldFields
    <3> HIDE DEF st
    <3> QED BY <1>4, <3>1, <3>2 DEF HalpPs2TryReadChar
  <2>2. Held(pressed \cup {key}, capsOn) = st
    BY <1>4, HeldEqual
  <2>3. (capsOn # (key = "caps")) = capsOn
    BY <1>4
  <2>4. Given(MapKey(st, key)) = Meant(key)
    <3>1. ((st.left \/ st.right) <=> ShiftHeld) /\ (st.caps <=> capsOn)
      BY HeldFields DEF ShiftHeld
    <3> HIDE DEF st
    <3>2. CASE key = "letter"
      <4>1. Meant(key) = IF ShiftHeld # capsOn THEN <<"A">> ELSE <<"a">>
        BY <3>2 DEF Meant
      <4>2. gHalPs2Map[key] = "a" /\ gHalPs2MapShift[key] = "A"
        BY <3>2 DEF gHalPs2Map, gHalPs2MapShift, Keys
      <4>3. MapKey(st, key) = IF (st.left \/ st.right) <=> st.caps THEN "a" ELSE "A"
        BY <3>2, <4>2, HeldFields DEF MapKey, st
      <4>4. MapKey(st, key) = IF ShiftHeld <=> capsOn THEN "a" ELSE "A"
        BY <3>1, <4>3
      <4>5. ShiftHeld # capsOn <=> ~ (ShiftHeld <=> capsOn)
        BY DEF ShiftHeld
      <4> QED BY <4>1, <4>4, <4>5 DEF Given, NoChar
    <3>3. CASE key = "symbol"
      BY <3>1, <3>3 DEF MapKey, gHalPs2Map, gHalPs2MapShift, Keys, Given, Meant, NoChar
    <3>4. CASE key = "enter"
      BY <3>1, <3>4 DEF MapKey, gHalPs2Map, gHalPs2MapShift, Keys, Given, Meant, NoChar, Newline
    <3>5. CASE key = "backspace"
      BY <3>1, <3>5 DEF MapKey, gHalPs2Map, gHalPs2MapShift, Keys, Given, Meant, NoChar, Backspace
    <3>6. CASE key = "dead"
      BY <3>1, <3>6 DEF MapKey, gHalPs2Map, gHalPs2MapShift, Keys, Given, Meant, NoChar
    <3> QED BY <1>4, <3>2, <3>3, <3>4, <3>5, <3>6 DEF Keys
  <2> QED BY <2>1, <2>2, <2>3, <2>4
<1> QED BY <1>1, <1>2, <1>3, <1>4

(* The result of decoding is a result. *)
LEMMA DecodeResult ==
  ASSUME NEW q \in KeyStates, NEW s \in Seq(Codes)
  PROVE  Decode(q, s) \in Results
<1>1. <<"E0", FALSE>> \in Codes
  BY DEF Codes
<1> QED BY <1>1, DecodeAppend

WithOne(s, a) == s \o <<a>>
WithTwo(s, a, b) == s \o <<a, b>>
Extended(t, ch) == t \o Given(ch)

(* A key that sends one byte, *)
LEMMA DecodeOne ==
  ASSUME NEW q \in KeyStates, NEW s \in Seq(Codes), NEW a \in Codes
  PROVE  LET read == HalpPs2TryReadChar(Decode(q, s).state, a)
         IN  /\ WithOne(s, a) \in Seq(Codes)
             /\ Decode(q, WithOne(s, a)).state = read.state
             /\ Decode(q, WithOne(s, a)).text = Extended(Decode(q, s).text, read.ch)
<1>1. WithOne(s, a) = Append(s, a) /\ WithOne(s, a) \in Seq(Codes)
  BY DEF WithOne
<1>2. PICK r : r = Decode(q, s)
  OBVIOUS
<1>3. Decode(q, Append(s, a)) = DecodeNext(r, a) /\ r \in Results
  BY <1>2, DecodeAppend
<1>4. PICK read : read = HalpPs2TryReadChar(r.state, a)
  OBVIOUS
<1>5. /\ DecodeNext(r, a).state = read.state
      /\ DecodeNext(r, a).text = IF read.ch = NoChar THEN r.text ELSE Append(r.text, read.ch)
  BY <1>4 DEF DecodeNext
<1>6. r.text \in Seq(KeyChars) /\ read.ch \in KeyChars \cup {NoChar}
  BY <1>3, <1>4, ReadTyped DEF Results
<1>7. (IF read.ch = NoChar THEN r.text ELSE Append(r.text, read.ch)) = Extended(r.text, read.ch)
  <2>1. PICK t : t = r.text
    OBVIOUS
  <2>2. PICK c : c = read.ch
    OBVIOUS
  <2>3. t \in Seq(KeyChars) /\ c \in KeyChars \cup {NoChar}
    BY <1>6, <2>1, <2>2
  <2>4. t \o <<>> = t /\ (c \in KeyChars => t \o <<c>> = Append(t, c))
    BY <2>3
  <2>5. (IF c = NoChar THEN t ELSE Append(t, c)) = Extended(t, c)
    BY <2>3, <2>4 DEF Given, Extended
  <2> QED BY <2>1, <2>2, <2>5
<1> QED BY <1>1, <1>2, <1>3, <1>4, <1>5, <1>7

(* Two bytes are one and one. *)
LEMMA OneAndOne ==
  ASSUME NEW S, NEW s \in Seq(S), NEW a \in S, NEW b \in S
  PROVE  WithTwo(s, a, b) = WithOne(WithOne(s, a), b)
<1>1. WithOne(s, a) = Append(s, a) /\ WithOne(Append(s, a), b) = Append(Append(s, a), b)
  BY DEF WithOne
<1>2. s \o <<a, b>> = Append(Append(s, a), b)
  OBVIOUS
<1> QED BY <1>1, <1>2 DEF WithTwo

(* and a key that sends two, the first of them a prefix. *)
LEMMA DecodeTwo ==
  ASSUME NEW q \in KeyStates, NEW s \in Seq(Codes), NEW a \in Codes, NEW b \in Codes,
         HalpPs2TryReadChar(Decode(q, s).state, a).ch = NoChar
  PROVE  LET read == HalpPs2TryReadChar(HalpPs2TryReadChar(Decode(q, s).state, a).state, b)
         IN  /\ WithTwo(s, a, b) \in Seq(Codes)
             /\ Decode(q, WithTwo(s, a, b)).state = read.state
             /\ Decode(q, WithTwo(s, a, b)).text = Extended(Decode(q, s).text, read.ch)
<1>1. WithTwo(s, a, b) = WithOne(WithOne(s, a), b)
  BY OneAndOne
<1>2. PICK u : u = WithOne(s, a)
  OBVIOUS
<1>3. PICK first : first = HalpPs2TryReadChar(Decode(q, s).state, a)
  OBVIOUS
<1>4. u \in Seq(Codes) /\ Decode(q, u).state = first.state
        /\ Decode(q, u).text = Extended(Decode(q, s).text, first.ch)
  BY <1>2, <1>3, DecodeOne
<1>5. Decode(q, u).text = Decode(q, s).text
  <2>1. Decode(q, s).text \in Seq(KeyChars)
    BY DecodeResult DEF Results
  <2>2. Given(first.ch) = <<>>
    BY <1>3 DEF Given
  <2>3. \A t \in Seq(KeyChars) : t \o <<>> = t
    OBVIOUS
  <2> QED BY <1>4, <2>1, <2>2, <2>3 DEF Extended
<1>6. PICK read : read = HalpPs2TryReadChar(first.state, b)
  OBVIOUS
<1>7. /\ WithOne(u, b) \in Seq(Codes) /\ Decode(q, WithOne(u, b)).state = read.state
      /\ Decode(q, WithOne(u, b)).text = Extended(Decode(q, u).text, read.ch)
  <2>1. read = HalpPs2TryReadChar(Decode(q, u).state, b)
    BY <1>4, <1>6
  <2> QED BY <1>4, <2>1, DecodeOne
<1> QED BY <1>1, <1>2, <1>3, <1>5, <1>6, <1>7

-----------------------------------------------------------------------------
(***************************************************************************)
(* The keyboard's part of the invariant: decoding what waits gives the     *)
(* state of the shift keys and of the lock as the user sees them, with no  *)
(* prefix pending, and the characters typed.                               *)
(***************************************************************************)
KeysInv ==
  /\ keyboard \in KeyStates /\ codes \in Seq(Codes) /\ capsOn \in BOOLEAN
  /\ Decode(keyboard, codes).state = Held(pressed, capsOn)
  /\ Decode(keyboard, codes).text = typed

(* Initially nothing is held and nothing waits. *)
LEMMA KeysInit == Init => KeysInv
<1> SUFFICES ASSUME Init PROVE KeysInv
  OBVIOUS
<1>1. keyboard = KeyboardReset /\ codes = <<>> /\ pressed = {} /\ capsOn = FALSE /\ typed = <<>>
  BY DEF Init
<1>2. KeyboardReset \in KeyStates
  BY DEF KeyboardReset, KeyStates
<1>3. KeyboardReset = Held({}, FALSE)
  <2>1. /\ (KeyboardReset.left <=> FALSE) /\ (KeyboardReset.right <=> FALSE)
        /\ (KeyboardReset.caps <=> FALSE) /\ (KeyboardReset.extended <=> FALSE)
    BY DEF KeyboardReset
  <2> QED BY <1>2, <2>1, HeldFields, KeyStateEqual
<1>4. Decode(keyboard, <<>>).state = keyboard /\ Decode(keyboard, <<>>).text = <<>>
  BY DecodeEmpty DEF Begin
<1>5. codes \in Seq(Codes)
  BY <1>1
<1> QED BY <1>1, <1>2, <1>3, <1>4, <1>5 DEF KeysInv

(* Reading a byte keeps it. *)
LEMMA KeysTake ==
  ASSUME KeysInv, TakeByte, UNCHANGED <<pressed, capsOn>>
  PROVE  KeysInv'
<1>1. CASE UNCHANGED <<codes, keyboard, typed>>
  BY <1>1 DEF KeysInv
<1>2. CASE codes # <<>> /\ ~ (UNCHANGED <<codes, keyboard, typed>>)
  <2>1. PICK read : read = HalpPs2TryReadChar(keyboard, Head(codes))
    OBVIOUS
  <2>2. /\ codes' = Tail(codes) /\ keyboard' = read.state
        /\ typed' = IF read.ch = NoChar \/ typed = <<>> THEN typed ELSE Tail(typed)
    BY <1>2, <2>1, Zenon DEF TakeByte
  <2>3. Head(codes) \in Codes /\ Tail(codes) \in Seq(Codes)
    BY <1>2 DEF KeysInv
  <2>4. read.state \in KeyStates
    BY <2>1, <2>3, ReadTyped DEF KeysInv
  <2>5. PICK rest : rest = Decode(read.state, Tail(codes))
    OBVIOUS
  <2>6. /\ rest \in Results /\ Decode(keyboard, codes).state = rest.state
        /\ Decode(keyboard, codes).text = Given(read.ch) \o rest.text
    BY <1>2, <2>1, <2>5, DecodeHead DEF KeysInv
  <2>7. typed' = rest.text
    <3>1. PICK t : t = rest.text
      OBVIOUS
    <3>2. t \in Seq(KeyChars) /\ typed = Given(read.ch) \o t
      BY <2>6, <3>1 DEF KeysInv, Results
    <3>3. CASE read.ch = NoChar
      BY <2>2, <3>1, <3>2, <3>3 DEF Given
    <3>4. CASE read.ch # NoChar
      <4>1. PICK c : c = read.ch
        OBVIOUS
      <4>2. c \in KeyChars
        BY <2>1, <2>3, <3>4, <4>1, ReadTyped DEF KeysInv
      <4>3. <<c>> \o t # <<>> /\ Tail(<<c>> \o t) = t
        BY <3>2, <4>2
      <4> QED BY <2>2, <3>1, <3>2, <3>4, <4>1, <4>3 DEF Given
    <3> QED BY <3>3, <3>4
  <2> QED BY <2>2, <2>3, <2>4, <2>5, <2>6, <2>7 DEF KeysInv
<1>3. CASE codes = <<>>
  BY <1>1, <1>3 DEF TakeByte
<1> QED BY <1>1, <1>2, <1>3

(* The bytes of a key. *)
LEMMA KeyCodes ==
  ASSUME NEW k \in PhysicalKeys, NEW broken \in BOOLEAN
  PROVE  /\ k \in Keys => CodesOf(k, broken) = <<<<k, broken>>>>
         /\ k = "keypadEnter" => CodesOf(k, broken) = <<<<"E0", FALSE>>, <<"enter", broken>>>>
         /\ k = "arrow" => CodesOf(k, broken) = <<<<"E0", FALSE>>, <<"symbol", broken>>>>
         /\ k = "pause" => CodesOf(k, broken) = <<<<"E1", FALSE>>, <<"dead", broken>>>>
         /\ k \in Keys \cup {"keypadEnter", "arrow", "pause"}
         /\ k \in {"keypadEnter", "arrow", "pause"} => k \notin Keys
BY DEF CodesOf, PhysicalKeys, Keys

(* Codes of keys and prefixes. *)
LEMMA CodeFacts ==
  /\ \A k \in Keys, b \in BOOLEAN : <<k, b>> \in Codes
  /\ <<"E0", FALSE>> \in Codes /\ <<"E1", FALSE>> \in Codes
  /\ "enter" \in Keys /\ "symbol" \in Keys /\ "dead" \in Keys
BY DEF Codes, Keys

(* A key that is pressed sends what is meant. *)
LEMMA KeysPress ==
  ASSUME KeysInv, NEW k \in PhysicalKeys, Press(k)
  PROVE  KeysInv'
<1> DEFINE c == CodesOf(k, FALSE)
<1>1. /\ codes' = codes \o c /\ keyboard' = keyboard /\ typed' = typed \o Meant(k)
      /\ pressed' = pressed \cup {k} /\ capsOn' = (capsOn # (k = "caps"))
  BY DEF Press, Sends
<1>2. /\ keyboard \in KeyStates /\ codes \in Seq(Codes) /\ capsOn \in BOOLEAN
      /\ Decode(keyboard, codes).state = Held(pressed, capsOn) /\ Decode(keyboard, codes).text = typed
  BY DEF KeysInv
<1>3. capsOn' \in BOOLEAN
  BY <1>1
<1> SUFFICES /\ codes \o c \in Seq(Codes)
             /\ Decode(keyboard, codes \o c).state = Held(pressed \cup {k}, capsOn # (k = "caps"))
             /\ Decode(keyboard, codes \o c).text = typed \o Meant(k)
  BY <1>1, <1>2, <1>3 DEF KeysInv
<1>4. CASE k \in Keys
  <2>1. c = <<<<k, FALSE>>>> /\ <<k, FALSE>> \in Codes
    BY <1>4, KeyCodes, CodeFacts
  <2> HIDE DEF c
  <2>2. PICK read : read = HalpPs2TryReadChar(Held(pressed, capsOn), <<k, FALSE>>)
    OBVIOUS
  <2>3. read.state = Held(pressed \cup {k}, capsOn # (k = "caps")) /\ Given(read.ch) = Meant(k)
    BY <1>2, <1>4, <2>2, ReadPress
  <2>4. /\ WithOne(codes, <<k, FALSE>>) \in Seq(Codes)
        /\ Decode(keyboard, WithOne(codes, <<k, FALSE>>)).state = read.state
        /\ Decode(keyboard, WithOne(codes, <<k, FALSE>>)).text = Extended(typed, read.ch)
    BY <1>2, <2>1, <2>2, DecodeOne
  <2>5. codes \o c = WithOne(codes, <<k, FALSE>>) /\ Extended(typed, read.ch) = typed \o Meant(k)
    BY <2>1, <2>3 DEF WithOne, Extended
  <2> QED BY <2>3, <2>4, <2>5
<1>5. ASSUME k \in {"keypadEnter", "arrow", "pause"}
      PROVE  (capsOn # (k = "caps")) = capsOn /\ Held(pressed \cup {k}, capsOn) = Held(pressed, capsOn)
  <2>1. (capsOn # (k = "caps")) = capsOn
    BY <1>2, <1>5
  <2>2. Held(pressed \cup {k}, capsOn) = Held(pressed, capsOn)
    BY <1>2, <1>5, HeldEqual
  <2> QED BY <2>1, <2>2
<1>6. CASE k \in {"keypadEnter", "arrow"}
  <2> DEFINE key == IF k = "keypadEnter" THEN "enter" ELSE "symbol"
             a == <<"E0", FALSE>>
             b == <<key, FALSE>>
  <2>1. c = <<a, b>> /\ a \in Codes /\ b \in Codes /\ key \in {"enter", "symbol"}
    BY <1>6, KeyCodes, CodeFacts
  <2>2. /\ HalpPs2TryReadChar(Held(pressed, capsOn), a).state = Prefixed(pressed, capsOn)
        /\ HalpPs2TryReadChar(Held(pressed, capsOn), a).ch = NoChar
    BY <1>2, ReadPrefix
  <2>3. PICK read : read = HalpPs2TryReadChar(Prefixed(pressed, capsOn), b)
    OBVIOUS
  <2>4. read.state = Held(pressed, capsOn) /\ read.ch = IF key = "enter" THEN Newline ELSE NoChar
    BY <1>2, <2>1, <2>3, ReadPrefixed
  <2>5. Given(read.ch) = Meant(k)
    BY <1>6, <2>4 DEF Given, Meant, Newline, NoChar
  <2> HIDE DEF c, a, b
  <2>6. /\ WithTwo(codes, a, b) \in Seq(Codes)
        /\ Decode(keyboard, WithTwo(codes, a, b)).state = read.state
        /\ Decode(keyboard, WithTwo(codes, a, b)).text = Extended(typed, read.ch)
    BY <1>2, <2>1, <2>2, <2>3, DecodeTwo
  <2>7. codes \o c = WithTwo(codes, a, b) /\ Extended(typed, read.ch) = typed \o Meant(k)
    BY <2>1, <2>5 DEF WithTwo, Extended
  <2> QED BY <1>5, <1>6, <2>4, <2>6, <2>7
<1>7. CASE k = "pause"
  <2> DEFINE a == <<"E1", FALSE>>
             b == <<"dead", FALSE>>
  <2>1. c = <<a, b>> /\ a \in Codes /\ b \in Codes
    BY <1>7, KeyCodes, CodeFacts
  <2>2. /\ HalpPs2TryReadChar(Held(pressed, capsOn), a).state = Held(pressed, capsOn)
        /\ HalpPs2TryReadChar(Held(pressed, capsOn), a).ch = NoChar
    BY <1>2, ReadPrefix
  <2>3. PICK read : read = HalpPs2TryReadChar(Held(pressed, capsOn), b)
    OBVIOUS
  <2>4. read.state = Held(pressed, capsOn) /\ Given(read.ch) = Meant(k)
    <3>1. /\ read.state = Held(pressed \cup {"dead"}, capsOn # ("dead" = "caps"))
          /\ Given(read.ch) = Meant("dead")
      BY <1>2, <2>3, ReadPress, CodeFacts
    <3>2. (capsOn # ("dead" = "caps")) = capsOn
      BY <1>2
    <3>3. Held(pressed \cup {"dead"}, capsOn) = Held(pressed, capsOn)
      BY <1>2, HeldEqual
    <3>4. Meant("dead") = Meant(k)
      BY <1>7 DEF Meant
    <3> QED BY <3>1, <3>2, <3>3, <3>4
  <2> HIDE DEF c, a, b
  <2>5. /\ WithTwo(codes, a, b) \in Seq(Codes)
        /\ Decode(keyboard, WithTwo(codes, a, b)).state = read.state
        /\ Decode(keyboard, WithTwo(codes, a, b)).text = Extended(typed, read.ch)
    BY <1>2, <2>1, <2>2, <2>3, DecodeTwo
  <2>6. codes \o c = WithTwo(codes, a, b) /\ Extended(typed, read.ch) = typed \o Meant(k)
    BY <2>1, <2>4 DEF WithTwo, Extended
  <2> QED BY <1>5, <1>7, <2>4, <2>5, <2>6
<1> QED BY <1>4, <1>6, <1>7, KeyCodes

(* A key that is released types nothing. *)
LEMMA KeysRelease ==
  ASSUME KeysInv, NEW k \in PhysicalKeys, Release(k)
  PROVE  KeysInv'
<1> DEFINE c == CodesOf(k, TRUE)
<1>1. /\ codes' = codes \o c /\ keyboard' = keyboard /\ typed' = typed
      /\ pressed' = pressed \ {k} /\ capsOn' = capsOn
  BY DEF Release, Sends
<1>2. /\ keyboard \in KeyStates /\ codes \in Seq(Codes) /\ capsOn \in BOOLEAN
      /\ Decode(keyboard, codes).state = Held(pressed, capsOn) /\ Decode(keyboard, codes).text = typed
  BY DEF KeysInv
<1>3. typed \o <<>> = typed
  <2>1. typed \in Seq(KeyChars)
    BY <1>2, DecodeResult DEF Results
  <2> QED BY <2>1
<1> SUFFICES /\ codes \o c \in Seq(Codes)
             /\ Decode(keyboard, codes \o c).state = Held(pressed \ {k}, capsOn)
             /\ Decode(keyboard, codes \o c).text = typed \o <<>>
  BY <1>1, <1>2, <1>3 DEF KeysInv
<1>4. Given(NoChar) = <<>>
  BY DEF Given
<1>5. CASE k \in Keys
  <2>1. c = <<<<k, TRUE>>>> /\ <<k, TRUE>> \in Codes
    BY <1>5, KeyCodes, CodeFacts
  <2> HIDE DEF c
  <2>2. PICK read : read = HalpPs2TryReadChar(Held(pressed, capsOn), <<k, TRUE>>)
    OBVIOUS
  <2>3. read.state = Held(pressed \ {k}, capsOn) /\ read.ch = NoChar
    BY <1>2, <1>5, <2>2, ReadRelease
  <2>4. /\ WithOne(codes, <<k, TRUE>>) \in Seq(Codes)
        /\ Decode(keyboard, WithOne(codes, <<k, TRUE>>)).state = read.state
        /\ Decode(keyboard, WithOne(codes, <<k, TRUE>>)).text = Extended(typed, read.ch)
    BY <1>2, <2>1, <2>2, DecodeOne
  <2>5. codes \o c = WithOne(codes, <<k, TRUE>>) /\ Extended(typed, read.ch) = typed \o <<>>
    BY <1>4, <2>1, <2>3 DEF WithOne, Extended
  <2> QED BY <2>3, <2>4, <2>5
<1>6. ASSUME k \in {"keypadEnter", "arrow", "pause"}
      PROVE  Held(pressed \ {k}, capsOn) = Held(pressed, capsOn)
  BY <1>2, <1>6, HeldEqual
<1>7. CASE k \in {"keypadEnter", "arrow"}
  <2> DEFINE key == IF k = "keypadEnter" THEN "enter" ELSE "symbol"
             a == <<"E0", FALSE>>
             b == <<key, TRUE>>
  <2>1. c = <<a, b>> /\ a \in Codes /\ b \in Codes /\ key \in {"enter", "symbol"}
    BY <1>7, KeyCodes, CodeFacts
  <2>2. /\ HalpPs2TryReadChar(Held(pressed, capsOn), a).state = Prefixed(pressed, capsOn)
        /\ HalpPs2TryReadChar(Held(pressed, capsOn), a).ch = NoChar
    BY <1>2, ReadPrefix
  <2>3. PICK read : read = HalpPs2TryReadChar(Prefixed(pressed, capsOn), b)
    OBVIOUS
  <2>4. read.state = Held(pressed, capsOn) /\ read.ch = NoChar
    BY <1>2, <2>1, <2>3, ReadPrefixed
  <2> HIDE DEF c, a, b
  <2>5. /\ WithTwo(codes, a, b) \in Seq(Codes)
        /\ Decode(keyboard, WithTwo(codes, a, b)).state = read.state
        /\ Decode(keyboard, WithTwo(codes, a, b)).text = Extended(typed, read.ch)
    BY <1>2, <2>1, <2>2, <2>3, DecodeTwo
  <2>6. codes \o c = WithTwo(codes, a, b) /\ Extended(typed, read.ch) = typed \o <<>>
    BY <1>4, <2>1, <2>4 DEF WithTwo, Extended
  <2> QED BY <1>6, <1>7, <2>4, <2>5, <2>6
<1>8. CASE k = "pause"
  <2> DEFINE a == <<"E1", FALSE>>
             b == <<"dead", TRUE>>
  <2>1. c = <<a, b>> /\ a \in Codes /\ b \in Codes
    BY <1>8, KeyCodes, CodeFacts
  <2>2. /\ HalpPs2TryReadChar(Held(pressed, capsOn), a).state = Held(pressed, capsOn)
        /\ HalpPs2TryReadChar(Held(pressed, capsOn), a).ch = NoChar
    BY <1>2, ReadPrefix
  <2>3. PICK read : read = HalpPs2TryReadChar(Held(pressed, capsOn), b)
    OBVIOUS
  <2>4. read.state = Held(pressed, capsOn) /\ read.ch = NoChar
    <3>1. read.state = Held(pressed \ {"dead"}, capsOn) /\ read.ch = NoChar
      BY <1>2, <2>3, ReadRelease, CodeFacts
    <3>2. Held(pressed \ {"dead"}, capsOn) = Held(pressed, capsOn)
      BY <1>2, HeldEqual
    <3> QED BY <3>1, <3>2
  <2> HIDE DEF c, a, b
  <2>5. /\ WithTwo(codes, a, b) \in Seq(Codes)
        /\ Decode(keyboard, WithTwo(codes, a, b)).state = read.state
        /\ Decode(keyboard, WithTwo(codes, a, b)).text = Extended(typed, read.ch)
    BY <1>2, <2>1, <2>2, <2>3, DecodeTwo
  <2>6. codes \o c = WithTwo(codes, a, b) /\ Extended(typed, read.ch) = typed \o <<>>
    BY <1>4, <2>1, <2>4 DEF WithTwo, Extended
  <2> QED BY <1>6, <1>8, <2>4, <2>5, <2>6
<1> QED BY <1>5, <1>7, <1>8, KeyCodes

(* No step of the system breaks it. *)
LEMMA KeysStep == KeysInv /\ [Next]_vars => KeysInv'
<1> SUFFICES ASSUME KeysInv, [Next]_vars PROVE KeysInv'
  OBVIOUS
<1>1. CASE Turn
  BY <1>1, KeysTake DEF Turn
<1>2. CASE \E s \in Texts : OtherPrints(s)
  BY <1>2 DEF OtherPrints, KeysInv
<1>3. CASE \E ch \in SerialChars : SerialByte(ch)
  BY <1>3 DEF SerialByte, KeysInv
<1>4. CASE \E k \in PhysicalKeys : Press(k) \/ Release(k)
  BY <1>4, KeysPress, KeysRelease
<1>5. CASE UNCHANGED vars
  BY <1>5 DEF vars, KeysInv
<1> QED BY <1>1, <1>2, <1>3, <1>4, <1>5 DEF Next

(* The bytes that wait at the keyboard port always decode to the           *)
(* characters of the keys that were pressed: HalpPs2TryReadChar loses no   *)
(* prefix, no shift and no lock, however reads and keys interleave.        *)
THEOREM KeysDecode == Spec => []KeysDecodeAsTyped
<1>1. KeysInv => KeysDecodeAsTyped
  BY DEF KeysInv, KeysDecodeAsTyped
<1> QED BY <1>1, KeysInit, KeysStep, PTL DEF Spec

-----------------------------------------------------------------------------
(***************************************************************************)
(* The command line on the display.                                        *)
(***************************************************************************)

(* What init has shown of the line: its prompt and its characters, and     *)
(* the cursor mark behind them.                                            *)
Echo(l) == Prompt \o l
Marked(l) == Append(Echo(l), "underscore")
Lines == {l \in Seq(LineChars) : Len(l) <= LineMax}

(* The echo of a line fits the screen. *)
LEMMA EchoText ==
  ASSUME NEW l \in Lines
  PROVE  /\ Echo(l) \in Seq(Chars) /\ Marked(l) \in Seq(Chars)
         /\ Len(Echo(l)) = Len(l) + 1 /\ Len(Echo(l)) <= Room
         /\ Len(l) \in Nat
<1>1. l \in Seq(LineChars) /\ Len(l) <= LineMax /\ Len(l) \in Nat
  BY DEF Lines
<1>2. l \in Seq(Chars) /\ Prompt \in Seq(Chars) /\ "underscore" \in Chars /\ Len(Prompt) = 1
  <2>1. l \in Seq(Chars)
    BY <1>1, CharFacts
  <2>2. ">" \in Chars /\ "underscore" \in Chars
    BY DEF Chars
  <2>3. Prompt \in Seq(Chars) /\ Len(Prompt) = 1
    BY <2>2 DEF Prompt
  <2> QED BY <2>1, <2>2, <2>3
<1>3. Echo(l) \in Seq(Chars) /\ Len(Echo(l)) = Len(Prompt) + Len(l)
  <2>1. PICK a : a = Prompt
    OBVIOUS
  <2>2. a \in Seq(Chars) /\ l \in Seq(Chars)
    BY <1>2, <2>1
  <2>3. a \o l \in Seq(Chars) /\ Len(a \o l) = Len(a) + Len(l)
    BY <2>2
  <2> QED BY <2>1, <2>3 DEF Echo
<1>4. Marked(l) \in Seq(Chars)
  BY <1>2, <1>3 DEF Marked
<1>5. LineMax \in Nat /\ LineMax + 1 <= Room
  BY LineAssumption DEF Room
<1>6. Room \in Nat
  BY Sizes DEF Room
<1> QED BY <1>1, <1>2, <1>3, <1>4, <1>5, <1>6

(* A character more. *)
LEMMA EchoLonger ==
  ASSUME NEW l \in Seq(LineChars), NEW ch \in LineChars
  PROVE  Echo(Append(l, ch)) = Append(Echo(l), ch)
BY DEF Echo, Prompt

(* A character less. *)
LEMMA EchoShorter ==
  ASSUME NEW l \in Lines, l # <<>>
  PROVE  /\ Front(l) \in Lines
         /\ \E ch \in LineChars : Echo(l) = Append(Echo(Front(l)), ch)
<1>1. l \in Seq(LineChars) /\ Len(l) <= LineMax /\ LineMax \in Nat
  BY LineAssumption DEF Lines
<1>2. PICK n \in Nat \ {0} : n = Len(l)
  BY <1>1
<1>3. PICK f : f = SubSeq(l, 1, n - 1)
  OBVIOUS
<1>4. f \in Seq(LineChars) /\ Len(f) = n - 1 /\ l[n] \in LineChars /\ l = Append(f, l[n])
  BY <1>1, <1>2, <1>3
<1>5. Front(l) = f
  BY <1>2, <1>3 DEF Front
<1>6. Front(l) \in Lines
  BY <1>1, <1>2, <1>4, <1>5 DEF Lines
<1> QED BY <1>4, <1>5, <1>6, EchoLonger

(* The first line after a prompt. *)
LEMMA EchoEmpty == Echo(<<>>) = Prompt
BY DEF Echo, Prompt

(* Printing any text that is printed leaves a whole screen. *)
LEMMA PrintFine ==
  ASSUME NEW d, Fine(d), NEW s \in Printed
  PROVE  Fine(KipSysDebugPrint(d, s))
BY PrintKeeps DEF Fine

(* What is printed: the constants, a character of a line, a line. *)
LEMMA AllPrinted ==
  /\ {Prompt, CursorOn, CursorOff, Banner, Hint, <<Newline>>} \subseteq Printed
  /\ Texts \subseteq Printed
  /\ Lines \subseteq Printed
  /\ \A ch \in LineChars : <<ch>> \in Printed
<1>1. \A l \in Seq(LineChars) : Len(l) <= LineMax => l \in SeqOf(LineChars, LineMax)
  BY LineAssumption, BoundedSequences
<1>2. Lines \subseteq Printed
  BY <1>1 DEF Lines, Printed
<1>3. ASSUME NEW ch \in LineChars PROVE <<ch>> \in Printed
  <2>1. PICK l : l = <<ch>>
    OBVIOUS
  <2>2. l \in Seq(LineChars) /\ Len(l) = 1
    BY <2>1
  <2>3. LineMax \in Nat \ {0}
    BY LineAssumption
  <2>4. l \in Lines
    BY <2>2, <2>3 DEF Lines
  <2> QED BY <1>2, <2>1, <2>4
<1> QED BY <1>2, <1>3 DEF Printed

(* The prompt, the cursor mark and a character of the line are printed     *)
(* as one glyph.                                                           *)
LEMMA GlyphPrints ==
  ASSUME NEW d, NEW ch \in LineChars \cup {">", "underscore"}
  PROVE  /\ KipSysDebugPrint(d, <<ch>>) = HalpFbPutChar(d, ch)
         /\ ch \in Chars \ {Newline, Backspace} /\ ch \notin Unprintable
<1>1. <<ch>> \in Printed /\ CommandOutput(<<ch>>) = <<>>
  <2>1. CASE ch \in LineChars
    BY <2>1, AllPrinted, TextAssumption
  <2>2. CASE ch = ">"
    BY <2>2, AllPrinted, TextAssumption DEF Prompt
  <2>3. CASE ch = "underscore"
    BY <2>3, AllPrinted, TextAssumption DEF CursorOn
  <2> QED BY <2>1, <2>2, <2>3
<1>2. <<ch>> \in Seq(Chars)
  BY <1>1, PrintedFacts
<1>3. KipSysDebugPrint(d, <<ch>>) = HalpFbPutChar(d, ch)
  BY <1>1, <1>2, QuietPrint, WriteOne
<1>4. ch \in Chars
  BY CharFacts DEF Chars
<1>5. ch \notin {Newline, Backspace} \cup Unprintable
  BY DEF LineChars, Printable, Newline, Backspace, Unprintable, Delete
<1> QED BY <1>3, <1>4, <1>5

(* Printing one of them adds it to the text. *)
LEMMA EchoGlyph ==
  ASSUME NEW d, NEW ch \in LineChars \cup {">", "underscore"},
         NEW t \in Seq(Chars), Echoes(d, t), Len(t) <= Room
  PROVE  Echoes(KipSysDebugPrint(d, <<ch>>), Append(t, ch))
BY GlyphPrints, EchoPut

(***************************************************************************)
(* The line is shown with its prompt whenever there is one, and init       *)
(* yields only behind its cursor mark.  This is inductive with the         *)
(* decoder's invariant, which says which characters are echoed.            *)
(***************************************************************************)
Visible == IF cursorShown THEN Marked(line) ELSE Echo(line)

LineInv ==
  /\ line \in Lines
  /\ promptShown \in BOOLEAN /\ cursorShown \in BOOLEAN
  /\ yielded \in BOOLEAN /\ disturbed \in BOOLEAN
  /\ Fine(display)
  /\ line # <<>> => promptShown
  /\ cursorShown => promptShown
  /\ yielded => promptShown /\ cursorShown
  /\ promptShown /\ ~disturbed => Echoes(display, Visible)

ConsoleInv == KeysInv /\ LineInv /\ serial \in Seq(SerialChars)

(* A byte that is read and can be printed is a character of a line. *)
LEMMA ReadChar ==
  ASSUME ConsoleInv, HalTryReadConsoleChar # NoChar, Printable(HalTryReadConsoleChar)
  PROVE  HalTryReadConsoleChar \in LineChars
<1> DEFINE ch == HalTryReadConsoleChar
<1>1. CASE serial # <<>>
  <2>1. ch = Head(serial)
    BY <1>1 DEF HalTryReadConsoleChar
  <2>2. Head(serial) \in SerialChars
    BY <1>1 DEF ConsoleInv
  <2> HIDE DEF ch
  <2> QED BY <2>1, <2>2 DEF LineChars, ch
<1>2. CASE serial = <<>> /\ codes # <<>>
  <2>1. ch = HalpPs2TryReadChar(keyboard, Head(codes)).ch
    BY <1>2 DEF HalTryReadConsoleChar
  <2>2. Head(codes) \in Codes /\ keyboard \in KeyStates
    BY <1>2 DEF ConsoleInv, KeysInv
  <2>3. ch \in KeyChars \cup {NoChar}
    BY <2>1, <2>2, ReadTyped
  <2> HIDE DEF ch
  <2>4. ch # NoChar /\ Printable(ch)
    BY DEF ch
  <2> QED BY <2>3, <2>4 DEF LineChars, KeyChars, Printable, ch
<1>3. CASE serial = <<>> /\ codes = <<>>
  BY <1>3 DEF HalTryReadConsoleChar
<1> QED BY <1>1, <1>2, <1>3

(* The top of the loop always finds or shows a prompt. *)
LEMMA AlwaysPrompted ==
  ASSUME LineInv
  PROVE  Prompted
BY DEF LineInv, Prompted, NewLine

(* The top of the loop shows the line and the cursor mark. *)
LEMMA ReadyEcho ==
  ASSUME LineInv
  PROVE  /\ Fine(Ready)
         /\ ~disturbed \/ NewLine => Echoes(Ready, Marked(line))
<1>1. PICK d : d = IF NewLine THEN KipSysDebugPrint(display, Prompt) ELSE display
  OBVIOUS
<1>2. Ready = IF cursorShown THEN d ELSE KipSysDebugPrint(d, CursorOn)
  BY <1>1, AlwaysPrompted DEF Ready, LineInv
<1>3. line \in Lines /\ Fine(display)
  BY DEF LineInv
<1>4. Fine(d)
  BY <1>1, <1>3, AllPrinted, PrintFine
<1>5. Fine(Ready)
  BY <1>2, <1>4, AllPrinted, PrintFine
<1>6. ASSUME NEW e, Echoes(e, Echo(line)) PROVE Echoes(KipSysDebugPrint(e, CursorOn), Marked(line))
  BY <1>3, <1>6, EchoText, EchoGlyph DEF CursorOn, Marked
<1>7. CASE NewLine
  <2>1. line = <<>> /\ ~cursorShown
    BY <1>7 DEF NewLine, LineInv
  <2>2. d = HalpFbPutChar(display, ">")
    BY <1>1, <1>7, GlyphPrints DEF Prompt
  <2>3. Echoes(d, <<">">>)
    BY <1>3, <2>2, GlyphPrints, EchoFirst
  <2>4. Echoes(d, Echo(line))
    BY <2>1, <2>3, EchoEmpty DEF Prompt
  <2> QED BY <1>2, <1>5, <1>6, <2>1, <2>4
<1>8. CASE ~NewLine /\ ~disturbed
  <2>1. promptShown /\ d = display
    BY <1>1, <1>8 DEF NewLine, LineInv
  <2>2. Echoes(d, IF cursorShown THEN Marked(line) ELSE Echo(line))
    BY <1>8, <2>1 DEF LineInv, Visible
  <2> QED BY <1>2, <1>5, <1>6, <2>2
<1> QED BY <1>5, <1>7, <1>8

(* The cursor mark is erased before anything else is written. *)
LEMMA ErasedEcho ==
  ASSUME LineInv
  PROVE  /\ Fine(Erased)
         /\ ~disturbed \/ NewLine => Echoes(Erased, Echo(line))
<1>1. Erased = KipSysDebugPrint(Ready, CursorOff)
  BY AlwaysPrompted DEF Erased
<1>2. Fine(Erased)
  BY <1>1, ReadyEcho, AllPrinted, PrintFine
<1>3. ASSUME ~disturbed \/ NewLine PROVE Echoes(Erased, Echo(line))
  <2>1. PICK t : t = Echo(line)
    OBVIOUS
  <2>2. t \in Seq(Chars) /\ Len(t) <= Room /\ "underscore" \in Chars
    BY <2>1, EchoText, CharFacts DEF LineInv
  <2>3. Echoes(Ready, Append(t, "underscore"))
    BY <1>3, <2>1, ReadyEcho DEF Marked
  <2> QED BY <1>1, <2>1, <2>2, <2>3, EchoErase
<1> QED BY <1>2, <1>3

(* No byte: init yields behind its cursor mark. *)
LEMMA NothingKeeps ==
  ASSUME LineInv, Nothing, disturbed' = (disturbed /\ ~NewLine)
  PROVE  LineInv'
<1>1. /\ display' = Ready /\ cursorShown' = TRUE /\ promptShown' = TRUE /\ yielded' = TRUE
      /\ line' = line
  BY AlwaysPrompted DEF Nothing
<1>2. line' \in Lines /\ disturbed' \in BOOLEAN
  BY <1>1 DEF LineInv
<1>3. Fine(display')
  BY <1>1, ReadyEcho
<1>4. ASSUME ~disturbed' PROVE Echoes(display', Visible')
  <2>1. Visible' = Marked(line)
    BY <1>1 DEF Visible, Marked, Echo
  <2> QED BY <1>1, <1>4, <2>1, ReadyEcho
<1> QED BY <1>1, <1>2, <1>3, <1>4 DEF LineInv

(* Enter: the line goes out and the next turn shows a prompt again. *)
LEMMA EnterKeeps ==
  ASSUME LineInv, Enter, disturbed' = (disturbed /\ ~NewLine)
  PROVE  LineInv'
<1>1. PICK d : d = KipSysDebugPrint(Erased, <<Newline>>)
  OBVIOUS
<1>2. /\ display' = IF line = <<>> THEN d
                    ELSE KipSysDebugPrint(KipSysDebugPrint(d, line), <<Newline>>)
      /\ line' = <<>> /\ promptShown' = FALSE /\ cursorShown' = FALSE /\ yielded' = FALSE
  BY <1>1 DEF Enter
<1>3. Fine(d)
  BY <1>1, ErasedEcho, AllPrinted, PrintFine
<1>4. line \in Printed /\ <<Newline>> \in Printed
  BY AllPrinted DEF LineInv
<1>5. Fine(KipSysDebugPrint(KipSysDebugPrint(d, line), <<Newline>>))
  BY <1>3, <1>4, PrintFine
<1>6. Fine(display')
  BY <1>2, <1>3, <1>5
<1>7. <<>> \in Lines
  <2>1. <<>> \in Seq(LineChars) /\ Len(<<>>) = 0 /\ LineMax \in Nat
    BY LineAssumption
  <2> QED BY <2>1 DEF Lines
<1>8. disturbed' \in BOOLEAN
  BY DEF LineInv
<1> QED BY <1>2, <1>6, <1>7, <1>8 DEF LineInv

(* Rubout: the last character leaves the line and the screen. *)
LEMMA RuboutKeeps ==
  ASSUME LineInv, Rubout, disturbed' = (disturbed /\ ~NewLine)
  PROVE  LineInv'
<1>1. /\ display' = KipSysDebugPrint(Erased, CursorOff) /\ line' = Front(line) /\ line # <<>>
      /\ promptShown' = TRUE /\ cursorShown' = FALSE /\ yielded' = FALSE
  BY AlwaysPrompted DEF Rubout
<1>2. line \in Lines /\ disturbed' \in BOOLEAN
  BY DEF LineInv
<1>3. Fine(display')
  BY <1>1, ErasedEcho, AllPrinted, PrintFine
<1>4. PICK ch \in LineChars : Front(line) \in Lines /\ Echo(line) = Append(Echo(Front(line)), ch)
  BY <1>1, <1>2, EchoShorter
<1>5. ASSUME ~disturbed' PROVE Echoes(display', Visible')
  <2>1. Visible' = Echo(Front(line))
    BY <1>1 DEF Visible, Echo
  <2>2. PICK t : t = Echo(Front(line))
    OBVIOUS
  <2>3. t \in Seq(Chars) /\ Len(t) <= Room /\ ch \in Chars
    BY <1>4, <2>2, EchoText, CharFacts
  <2>4. Echoes(Erased, Append(t, ch))
    BY <1>4, <1>5, <2>2, ErasedEcho
  <2> QED BY <1>1, <2>1, <2>2, <2>3, <2>4, EchoErase
<1> QED BY <1>1, <1>2, <1>3, <1>4, <1>5 DEF LineInv

(* Any other byte: a character is echoed behind the line, or nothing.      *)
LEMMA OtherByteKeeps ==
  ASSUME ConsoleInv, OtherByte, disturbed' = (disturbed /\ ~NewLine)
  PROVE  LineInv'
<1>0. LineInv
  BY DEF ConsoleInv
<1>1. PICK ch : ch = HalTryReadConsoleChar
  OBVIOUS
<1>2. PICK keep \in BOOLEAN : keep <=> (Len(line) < LineMax /\ Printable(ch))
  OBVIOUS
<1>3. PICK d : d = IF keep THEN KipSysDebugPrint(Erased, <<ch>>) ELSE Erased
  OBVIOUS
<1>4. /\ ch # NoChar
      /\ line' = IF keep THEN Append(line, ch) ELSE line
      /\ display' = KipSysDebugPrint(d, CursorOn)
      /\ promptShown' = TRUE /\ cursorShown' = TRUE /\ yielded' = FALSE
  BY <1>0, <1>1, <1>2, <1>3, AlwaysPrompted DEF OtherByte
<1>5. keep => ch \in LineChars
  BY <1>1, <1>2, <1>4, ReadChar
<1>6. line \in Lines /\ disturbed' \in BOOLEAN
  BY <1>0 DEF LineInv
<1>7. line' \in Lines
  <2>1. CASE keep
    <3>1. line \in Seq(LineChars) /\ Len(line) < LineMax /\ LineMax \in Nat /\ ch \in LineChars
      BY <1>2, <1>5, <1>6, <2>1, LineAssumption DEF Lines
    <3>2. Append(line, ch) \in Seq(LineChars) /\ Len(Append(line, ch)) = Len(line) + 1
      BY <3>1
    <3> QED BY <1>4, <2>1, <3>1, <3>2 DEF Lines
  <2>2. CASE ~keep
    BY <1>4, <1>6, <2>2
  <2> QED BY <2>1, <2>2
<1>8. Fine(d)
  BY <1>0, <1>3, <1>5, ErasedEcho, AllPrinted, PrintFine
<1>9. Fine(display')
  BY <1>4, <1>8, AllPrinted, PrintFine
<1>10. ASSUME ~disturbed' PROVE Echoes(display', Visible')
  <2>1. PICK t : t = Echo(line')
    OBVIOUS
  <2>2. t \in Seq(Chars) /\ Len(t) <= Room
    BY <1>7, <2>1, EchoText
  <2>3. Echoes(Erased, Echo(line))
    BY <1>0, <1>10, ErasedEcho
  <2>4. Echoes(d, t)
    <3>1. CASE keep
      <4>1. t = Append(Echo(line), ch)
        BY <1>4, <1>5, <1>6, <2>1, <3>1, EchoLonger DEF Lines
      <4> QED BY <1>3, <1>5, <1>6, <2>3, <3>1, <4>1, EchoText, EchoGlyph
    <3>2. CASE ~keep
      BY <1>3, <1>4, <2>1, <2>3, <3>2
    <3> QED BY <3>1, <3>2
  <2>5. Echoes(display', Append(t, "underscore"))
    BY <1>4, <2>2, <2>4, EchoGlyph DEF CursorOn
  <2>6. Visible' = Append(t, "underscore")
    BY <1>4, <2>1 DEF Visible, Marked, Echo
  <2> QED BY <2>5, <2>6
<1> QED BY <1>4, <1>6, <1>7, <1>9, <1>10 DEF LineInv

(* Initially the screen holds what was printed before, and no prompt. *)
LEMMA ConsoleInit == Init => ConsoleInv
<1> SUFFICES ASSUME Init PROVE ConsoleInv
  OBVIOUS
<1>1. /\ display = KipSysDebugPrint(KipSysDebugPrint(HalWriteDebugString(HalpFbClear, EarlierText), Banner), Hint)
      /\ line = <<>> /\ promptShown = FALSE /\ cursorShown = FALSE /\ yielded = FALSE
      /\ disturbed = FALSE /\ serial = <<>>
  BY DEF Init
<1>2. Fine(HalpFbClear)
  <2>1. PICK g : g = [r \in GridRows |-> [c \in Columns |-> Space]]
    OBVIOUS
  <2>2. Drawn(HalpFbClear.fb, g) /\ HalpFbClear \in Displays /\ HalpFbClear.y = 0
    BY <2>1, ClearDraws
  <2>3. BlankBehind(g, HalpFbClear.x, HalpFbClear.y)
    BY <2>1 DEF BlankBehind
  <2>4. Rows # 0
    BY Sizes
  <2> QED BY <2>2, <2>3, <2>4 DEF Fine, Seated, Holds
<1>3. EarlierText \in Seq(Chars)
  <2>1. OutputChars \subseteq Chars
    BY DEF Chars
  <2> QED BY <2>1, TextAssumption
<1>4. Fine(HalWriteDebugString(HalpFbClear, EarlierText))
  BY <1>2, <1>3, WriteKeeps DEF Fine
<1>5. Fine(display)
  BY <1>1, <1>4, AllPrinted, PrintFine
<1>6. line \in Lines /\ serial \in Seq(SerialChars)
  <2>1. line \in Seq(LineChars) /\ Len(line) = 0 /\ LineMax \in Nat /\ serial \in Seq(SerialChars)
    BY <1>1, LineAssumption
  <2> QED BY <2>1 DEF Lines
<1>7. LineInv
  BY <1>1, <1>5, <1>6 DEF LineInv
<1> QED BY <1>6, <1>7, KeysInit DEF ConsoleInv

(* A turn of init's loop keeps the invariant. *)
LEMMA TurnKeeps ==
  ASSUME ConsoleInv, Turn
  PROVE  LineInv' /\ serial' \in Seq(SerialChars)
<1>1. LineInv'
  BY NothingKeeps, EnterKeeps, RuboutKeeps, OtherByteKeeps DEF Turn, ConsoleInv
<1>2. serial' \in Seq(SerialChars)
  <2>1. serial \in Seq(SerialChars)
    BY DEF ConsoleInv
  <2>2. CASE serial # <<>>
    <3>1. serial' = Tail(serial)
      BY <2>2 DEF Turn, TakeByte
    <3> QED BY <2>1, <2>2, <3>1
  <2>3. CASE serial = <<>>
    <3>1. serial' = serial
      BY <2>3 DEF Turn, TakeByte
    <3> QED BY <2>1, <3>1
  <2> QED BY <2>2, <2>3
<1> QED BY <1>1, <1>2

(* Keys, serial bytes and other threads keep it. *)
LEMMA ConsoleStep == ConsoleInv /\ [Next]_vars => ConsoleInv'
<1> SUFFICES ASSUME ConsoleInv, [Next]_vars PROVE ConsoleInv'
  OBVIOUS
<1>0. KeysInv' /\ LineInv /\ serial \in Seq(SerialChars)
  BY KeysStep DEF ConsoleInv
<1>1. ASSUME UNCHANGED <<display, line, promptShown, cursorShown, yielded, disturbed>>
      PROVE  LineInv'
  <2>1. Visible' = Visible
    BY <1>1 DEF Visible, Marked, Echo
  <2> QED BY <1>0, <1>1, <2>1 DEF LineInv
<1>2. CASE Turn
  BY <1>0, <1>2, TurnKeeps DEF ConsoleInv
<1>3. ASSUME NEW s \in Texts, OtherPrints(s) PROVE ConsoleInv'
  <2>1. /\ display' = KipSysDebugPrint(display, s) /\ disturbed' = TRUE
        /\ UNCHANGED <<line, promptShown, cursorShown, yielded, serial>>
    BY <1>3 DEF OtherPrints
  <2>2. Fine(display')
    BY <1>0, <2>1, AllPrinted, PrintFine DEF LineInv
  <2>3. LineInv'
    BY <1>0, <2>1, <2>2 DEF LineInv
  <2> QED BY <1>0, <2>1, <2>3 DEF ConsoleInv
<1>4. ASSUME NEW ch \in SerialChars, SerialByte(ch) PROVE ConsoleInv'
  <2>1. serial' = Append(serial, ch) /\ UNCHANGED <<display, line, promptShown, cursorShown, yielded, disturbed>>
    BY <1>4 DEF SerialByte
  <2>2. serial' \in Seq(SerialChars)
    BY <1>0, <2>1
  <2> QED BY <1>0, <1>1, <2>1, <2>2 DEF ConsoleInv
<1>5. ASSUME NEW k \in PhysicalKeys, Press(k) \/ Release(k) PROVE ConsoleInv'
  <2>1. UNCHANGED <<display, line, promptShown, cursorShown, yielded, disturbed, serial>>
    BY <1>5 DEF Press, Release, Sends
  <2> QED BY <1>0, <1>1, <2>1 DEF ConsoleInv
<1>6. CASE UNCHANGED vars
  BY <1>0, <1>1, <1>6 DEF vars, ConsoleInv
<1> QED BY <1>2, <1>3, <1>4, <1>5, <1>6 DEF Next

(* The display always shows whole glyphs and nothing behind the cursor:    *)
(* HalpFbPutChar, its wrap, its backspace across rows and HalpFbScroll     *)
(* leave no part of a character behind, whatever is printed by whom.       *)
THEOREM ScreenStaysIntact == Spec => []ScreenIntact
<1>1. ConsoleInv => ScreenIntact
  BY SeatedIsIntact DEF ConsoleInv, LineInv, Fine, ScreenIntact
<1> QED BY <1>1, ConsoleInit, ConsoleStep, PTL DEF Spec

(* While init yields and nobody else has printed since the prompt, the     *)
(* screen reads the prompt, the line that Enter would submit and the       *)
(* cursor mark, across wrapped rows, scrolling and rubout.                 *)
THEOREM EchoIsTheLine == Spec => []EchoShowsLine
<1>1. ASSUME ConsoleInv PROVE EchoShowsLine
  <2>1. ASSUME yielded, ~disturbed PROVE Shows(display, Prompt \o line \o CursorOn)
    <3>1. PICK t : t = Marked(line)
      OBVIOUS
    <3>2. line \in Lines /\ Echoes(display, t)
      BY <1>1, <2>1, <3>1 DEF ConsoleInv, LineInv, Visible
    <3>3. t \in Seq(Chars) /\ Echo(line) \in Seq(Chars)
      BY <3>1, <3>2, EchoText
    <3>4. t = Prompt \o line \o CursorOn
      <4>1. PICK u : u = Echo(line)
        OBVIOUS
      <4>2. Append(u, "underscore") = u \o <<"underscore">>
        BY <3>3, <4>1
      <4> QED BY <3>1, <4>1, <4>2 DEF Marked, Echo, CursorOn
    <3> QED BY <3>2, <3>3, <3>4, EchoIsShown
  <2> QED BY <2>1 DEF EchoShowsLine
<1> QED BY <1>1, ConsoleInit, ConsoleStep, PTL DEF Spec
=============================================================================
