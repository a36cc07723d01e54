--------------------------- MODULE ConsoleProofs ---------------------------
(***************************************************************************)
(* What holds of the console for framebuffers of any size, glyphs of any   *)
(* size from two rows on, tabs of any length and a line number of any      *)
(* width.                                                                  *)
(***************************************************************************)
EXTENDS Console, TLAPS

-----------------------------------------------------------------------------
(* Products *)

LEMMA ProductNat ==
  ASSUME NEW m \in Nat, NEW n \in Nat
  PROVE  m * n \in Nat
  OBVIOUS

LEMMA MulLessEq ==
  ASSUME NEW a \in Nat, NEW b \in Nat, NEW Q \in Nat \ {0}
  PROVE  a <= b <=> a * Q <= b * Q
  OBVIOUS

-----------------------------------------------------------------------------

Cursor ==
  /\ pitch \in Pitches /\ height \in Heights
  /\ column \in Nat /\ line \in 0 .. (LINE_MOD - 1)
  /\ overran \in BOOLEAN

(* Without a tab too far, characters are on the columns of the screen.     *)
OnColumns == ~overran => text \subseteq (0 .. max_cols - 1) \X (0 .. LINE_MOD - 1)

ConsoleInv == Cursor /\ DOMAIN owner = Offsets /\ OnColumns /\ TextIntact /\ OnScreen

-----------------------------------------------------------------------------
(* Arithmetic *)

(* A number below m is the only remainder, its quotient the only quotient. *)
LEMMA Unique ==
  ASSUME NEW m \in Nat \ {0}, NEW x \in Nat, NEW y \in Nat, NEW r \in 0 .. m - 1, NEW s \in 0 .. m - 1,
         x * m + r = y * m + s
  PROVE  x = y /\ r = s
<1>1. ~(x < y)
  <2>1. x < y => (x + 1) * m <= y * m
    BY MulLessEq
  <2>2. (x + 1) * m = x * m + m /\ x * m \in Nat /\ y * m \in Nat
    BY ProductNat
  <2>3. QED
    BY <2>1, <2>2
<1>2. ~(y < x)
  <2>1. y < x => (y + 1) * m <= x * m
    BY MulLessEq
  <2>2. (y + 1) * m = y * m + m /\ x * m \in Nat /\ y * m \in Nat
    BY ProductNat
  <2>3. QED
    BY <2>1, <2>2
<1>3. x = y
  BY <1>1, <1>2
<1>4. QED
  BY <1>3, ProductNat

(* The whole units in n end within n.                                      *)
LEMMA Within ==
  ASSUME NEW k \in Nat, NEW m \in Nat, NEW g \in Nat \ {0}, k < m \div g
  PROVE  k * g \in Nat /\ k * g + g <= m
<1>1. m \div g \in Nat /\ (m \div g) * g <= m
  OBVIOUS
<1>2. (k + 1) * g <= (m \div g) * g
  BY <1>1, MulLessEq
<1>3. (k + 1) * g = k * g + g /\ k * g \in Nat
  BY ProductNat
<1>4. QED
  BY <1>1, <1>2, <1>3, ProductNat

-----------------------------------------------------------------------------
(* Cells *)

LEMMA Constants ==
  ASSUME Cursor
  PROVE  /\ GW \in Nat \ {0} /\ GH \in Nat \ {0, 1} /\ LINE_MOD \in Nat \ {0} /\ TAB \in Nat \ {0}
         /\ Width \in Nat /\ pitch \in Nat \ {0} /\ Width <= pitch /\ height \in Nat \ {0}
         /\ max_cols \in Nat /\ 0 < max_cols /\ max_lines \in Nat
BY ConsoleAssumption DEF Cursor, max_cols, max_lines

(* A cell's pixels lie in its column's part of a row of the screen.        *)
LEMMA InCell ==
  ASSUME Cursor, NEW c \in 0 .. max_cols - 1, NEW l \in Nat, NEW p \in Cell(c, l)
  PROVE  \E x \in 0 .. GW - 1, y \in 0 .. GH - 1 :
           /\ c * GW \in Nat /\ l * GH \in Nat /\ c * GW + GW <= Width
           /\ p = (l * GH + y) * pitch + (c * GW + x)
<1>1. c * GW \in Nat /\ c * GW + GW <= Width
  BY Constants, Within DEF max_cols
<1>2. l * GH \in Nat
  BY Constants, ProductNat
<1>3. PICK a \in c * GW .. (c * GW + GW - 1), b \in l * GH .. (l * GH + GH - 1) : p = b * pitch + a
  BY DEF Cell, Rectangle
<1>4. a - c * GW \in 0 .. GW - 1 /\ b - l * GH \in 0 .. GH - 1
  BY <1>1, <1>2, <1>3, Constants
<1>5. a = c * GW + (a - c * GW) /\ b = l * GH + (b - l * GH)
  BY <1>1, <1>2, <1>3, Constants
<1>6. QED
  BY <1>1, <1>2, <1>3, <1>4, <1>5

(* A pixel of a cell, by its row and its column.                           *)
LEMMA Coordinates ==
  ASSUME Cursor, NEW c \in 0 .. max_cols - 1, NEW l \in Nat, NEW p \in Cell(c, l)
  PROVE  \E a \in 0 .. Width - 1, b \in Nat :
           /\ p = b * pitch + a
           /\ \E x \in 0 .. GW - 1 : a = c * GW + x
           /\ \E y \in 0 .. GH - 1 : b = l * GH + y
<1> USE Constants
<1>1. PICK x \in 0 .. GW - 1, y \in 0 .. GH - 1 :
        /\ c * GW \in Nat /\ l * GH \in Nat /\ c * GW + GW <= Width
        /\ p = (l * GH + y) * pitch + (c * GW + x)
  BY InCell
<1>2. c * GW + x \in 0 .. Width - 1 /\ l * GH + y \in Nat
  BY <1>1
<1>3. QED
  BY <1>1, <1>2

(* Different cells share no pixel.                                         *)
LEMMA CellsDisjoint ==
  ASSUME Cursor, NEW c \in 0 .. max_cols - 1, NEW l \in Nat, NEW d \in 0 .. max_cols - 1, NEW k \in Nat,
         NEW p, p \in Cell(c, l), p \in Cell(d, k)
  PROVE  c = d /\ l = k
<1> USE Constants
<1>1. PICK a \in 0 .. Width - 1, b \in Nat :
        /\ p = b * pitch + a
        /\ \E x \in 0 .. GW - 1 : a = c * GW + x
        /\ \E y \in 0 .. GH - 1 : b = l * GH + y
  BY Coordinates
<1>2. PICK e \in 0 .. Width - 1, f \in Nat :
        /\ p = f * pitch + e
        /\ \E x \in 0 .. GW - 1 : e = d * GW + x
        /\ \E y \in 0 .. GH - 1 : f = k * GH + y
  BY Coordinates
<1>3. a = e /\ b = f
  <2>1. a \in 0 .. pitch - 1 /\ e \in 0 .. pitch - 1
    OBVIOUS
  <2>2. b * pitch + a = f * pitch + e
    BY <1>1, <1>2
  <2>3. QED
    BY <2>1, <2>2, Unique
<1>4. c = d
  <2>1. PICK x \in 0 .. GW - 1, u \in 0 .. GW - 1 : c * GW + x = d * GW + u
    BY <1>1, <1>2, <1>3
  <2>2. c \in Nat /\ d \in Nat /\ GW \in Nat \ {0}
    OBVIOUS
  <2> HIDE Constants
  <2>3. QED
    BY <2>1, <2>2, Unique
<1>5. l = k
  <2>1. PICK y \in 0 .. GH - 1, v \in 0 .. GH - 1 : l * GH + y = k * GH + v
    BY <1>1, <1>2, <1>3
  <2>2. GH \in Nat \ {0}
    OBVIOUS
  <2> HIDE Constants
  <2>3. QED
    BY <2>1, <2>2, Unique
<1>6. QED
  BY <1>4, <1>5

(* Every pixel of a row that is before the last, from the one before the   *)
(* framebuffer on, is one a write can name.                                *)
LEMMA InOffsets ==
  ASSUME Cursor, NEW a \in Nat, a <= Width + TAB * GW,
         NEW b \in Int, -1 <= b, b <= LINE_MOD * GH + height
  PROVE  b * pitch + a \in Offsets
<1> USE Constants
<1>1. TAB * GW \in Nat /\ LINE_MOD * GH \in Nat
  BY ProductNat
<1>2. PICK m \in Nat : m = LINE_MOD * GH + height
  BY <1>1
<1>3. m * pitch \in Nat
  BY ProductNat
<1>4. b * pitch \in Int /\ -pitch <= b * pitch /\ b * pitch <= m * pitch
  <2>1. CASE b = -1
    BY <1>3, <2>1
  <2>2. CASE b # -1
    <3>1. b \in Nat /\ b <= m
      BY <1>2, <2>2
    <3>2. b * pitch \in Nat /\ b * pitch <= m * pitch
      BY <3>1, MulLessEq, ProductNat
    <3>3. QED
      BY <3>2
  <2>3. QED
    BY <2>1, <2>2
<1>5. b * pitch + a \in (-pitch) .. (m * pitch + (Width + TAB * GW))
  BY <1>1, <1>3, <1>4
<1>6. QED
  BY <1>2, <1>5 DEF Offsets

(* So is every pixel of a cell, even of one a tab has drawn too far.       *)
LEMMA CellInOffsets ==
  ASSUME Cursor, NEW c \in 0 .. max_cols + TAB - 2, NEW l \in 0 .. LINE_MOD - 1
  PROVE  Cell(c, l) \subseteq Offsets
<1> USE Constants
<1> SUFFICES ASSUME NEW p \in Cell(c, l) PROVE p \in Offsets
  OBVIOUS
<1>1. c * GW \in Nat /\ l * GH \in Nat /\ TAB * GW \in Nat /\ LINE_MOD * GH \in Nat
  BY ProductNat
<1>2. PICK a \in c * GW .. (c * GW + GW - 1), b \in l * GH .. (l * GH + GH - 1) : p = b * pitch + a
  BY DEF Cell, Rectangle
<1>3. c * GW + GW <= Width + TAB * GW
  <2>1. (c + 1) * GW <= (max_cols + TAB) * GW
    <3>1. c + 1 \in Nat /\ max_cols + TAB \in Nat /\ c + 1 <= max_cols + TAB
      OBVIOUS
    <3>2. QED
      BY <3>1, MulLessEq
  <2>2. (c + 1) * GW = c * GW + GW /\ (max_cols + TAB) * GW = max_cols * GW + TAB * GW
    OBVIOUS
  <2>3. max_cols * GW \in Nat /\ max_cols * GW <= Width
    BY ProductNat DEF max_cols
  <2>4. QED
    BY <1>1, <2>1, <2>2, <2>3
<1>4. l * GH + GH <= LINE_MOD * GH
  <2>1. (l + 1) * GH <= LINE_MOD * GH /\ (l + 1) * GH = l * GH + GH
    BY MulLessEq
  <2>2. QED
    BY <2>1
<1>5. a \in Nat /\ a <= Width + TAB * GW /\ b \in Int /\ -1 <= b /\ b <= LINE_MOD * GH + height
  BY <1>1, <1>2, <1>3, <1>4
<1>6. QED
  BY <1>2, <1>5, InOffsets

(* A cell on a line of the screen lies on the screen.                      *)
LEMMA CellOnScreen ==
  ASSUME Cursor, NEW c \in 0 .. max_cols - 1, NEW l \in Nat, l < max_lines
  PROVE  Cell(c, l) \subseteq Screen
<1> USE Constants
<1> SUFFICES ASSUME NEW p \in Cell(c, l) PROVE p \in Screen
  OBVIOUS
<1>1. PICK a \in 0 .. Width - 1, b \in Nat :
        p = b * pitch + a /\ \E y \in 0 .. GH - 1 : b = l * GH + y
  BY Coordinates
<1>2. l * GH \in Nat /\ l * GH + GH <= height
  BY Within DEF max_lines
<1>3. a \in 0 .. (0 + Width - 1) /\ b \in 0 .. (0 + height - 1)
  BY <1>1, <1>2
<1>4. QED
  BY <1>1, <1>3 DEF Screen, Rectangle

(* newLine scrolls only below the last line of characters.                 *)
LEMMA ScrollsBelow ==
  ASSUME Cursor, Scrolls
  PROVE  ~(line < max_lines)
<1>1. line \in Nat /\ line >= height - 1
  BY Constants DEF Cursor, Scrolls
<1>2. line * 2 <= line * GH
  BY <1>1, Constants
<1>3. line < max_lines => line * GH + GH <= height /\ line * GH \in Nat
  BY <1>1, Constants, Within DEF max_lines
<1>4. height \in Nat /\ GH \in Nat /\ GH >= 2
  BY Constants
<1>5. ASSUME line < max_lines PROVE FALSE
  <2>1. PICK k \in Nat : k = line * GH /\ k + GH <= height /\ line * 2 <= k
    BY <1>2, <1>3, <1>5
  <2>2. QED
    BY <1>1, <1>4, <2>1
<1>6. QED
  BY <1>5

LEMMA NextLineType ==
  ASSUME Cursor
  PROVE  NextLine \in 0 .. LINE_MOD - 1
BY Constants DEF NextLine, Cursor

-----------------------------------------------------------------------------
(* Each step *)

(* A character drawn on a column of the screen leaves those elsewhere.     *)
LEMMA Drawn ==
  ASSUME ConsoleInv, Cursor', UNCHANGED <<pitch, height>>,
         NEW c \in 0 .. max_cols - 1, NEW l \in 0 .. LINE_MOD - 1,
         ~overran, text' = text \cup {<<c, l>>},
         owner' = [p \in Offsets |-> IF p \in Cell(c, l) THEN <<c, l>> ELSE owner[p]]
  PROVE  DOMAIN owner' = Offsets' /\ OnColumns' /\ TextIntact'
<1> USE DEF ConsoleInv
<1>1. Offsets' = Offsets /\ max_cols' = max_cols /\ \A d, k : Cell(d, k)' = Cell(d, k)
  BY DEF Offsets, max_cols, Cell, Rectangle
<1>2. \A k \in text : k \in (0 .. max_cols - 1) \X (0 .. LINE_MOD - 1)
  BY DEF OnColumns
<1>3. OnColumns'
  BY <1>1, <1>2 DEF OnColumns
<1>4. ASSUME NEW k \in text', NEW p \in Cell(k[1], k[2])
      PROVE  owner'[p] = k
  <2>1. k \in (0 .. max_cols - 1) \X (0 .. LINE_MOD - 1)
    BY <1>2
  <2>2. p \in Offsets
    <3>1. k[1] \in 0 .. max_cols + TAB - 2 /\ k[2] \in 0 .. LINE_MOD - 1 /\ Cursor
      BY <2>1, Constants
    <3>2. QED
      BY <3>1, CellInOffsets
  <2>3. CASE p \in Cell(c, l)
    <3>1. k[1] = c /\ k[2] = l
      BY <1>4, <2>1, <2>3, CellsDisjoint, Constants
    <3>2. QED
      BY <2>1, <2>2, <2>3, <3>1
  <2>4. CASE p \notin Cell(c, l)
    <3>1. k # <<c, l>>
      BY <2>4, <1>4
    <3>2. owner[p] = k
      BY <1>4, <3>1 DEF TextIntact
    <3>3. QED
      BY <2>2, <2>4, <3>2
  <2>5. QED
    BY <2>3, <2>4
<1>5. QED
  BY <1>1, <1>3, <1>4 DEF TextIntact

(* Past the last column nothing is claimed any more.                       *)
LEMMA Overran ==
  ASSUME ConsoleInv, Cursor', overran', DOMAIN owner' = Offsets, UNCHANGED <<pitch, height>>
  PROVE  ConsoleInv'
BY DEF ConsoleInv, OnColumns, TextIntact, OnScreen, Offsets

(* A character drawn on the cursor's line.                                 *)
LEMMA DrawnAt ==
  ASSUME ConsoleInv, Cursor', UNCHANGED <<pitch, height, overran>>,
         NEW c \in 0 .. max_cols - 1,
         text' = text \cup {<<c, line'>>}, Paint(Cell(c, line'), <<c, line'>>)
  PROVE  ConsoleInv'
<1>1. CASE overran
  BY <1>1, Overran DEF Paint
<1>2. CASE ~overran
  <2>1. line' \in 0 .. LINE_MOD - 1 /\ Cursor
    BY DEF Cursor, ConsoleInv
  <2>2. DOMAIN owner' = Offsets' /\ OnColumns' /\ TextIntact'
    BY <1>2, <2>1, Drawn DEF Paint
  <2>3. OnScreen'
    <3>1. max_lines' = max_lines /\ Screen' = Screen /\ wrote' = Cell(c, line')
      BY DEF max_lines, Screen, Rectangle, Paint
    <3>2. line' \in Nat
      BY <2>1, Constants
    <3>3. QED
      BY <2>1, <3>1, <3>2, CellOnScreen DEF OnScreen
  <2>4. QED
    BY <2>2, <2>3 DEF ConsoleInv
<1>3. QED
  BY <1>1, <1>2

(* A step that draws nothing.                                              *)
LEMMA NothingDrawn ==
  ASSUME ConsoleInv, Cursor', UNCHANGED <<pitch, height, owner, text, overran>>, wrote' = {}
  PROVE  ConsoleInv'
BY DEF ConsoleInv, OnColumns, TextIntact, OnScreen, Offsets, max_cols, Cell, Rectangle

(* A step that clears the screen, or scrolls, which does the same.         *)
LEMMA Cleared ==
  ASSUME ConsoleInv, Cursor', UNCHANGED <<pitch, height>>, text' = {}, DOMAIN owner' = Offsets, OnScreen'
  PROVE  ConsoleInv'
BY DEF ConsoleInv, OnColumns, TextIntact, Offsets

LEMMA ConsoleInit == Init => ConsoleInv
<1> SUFFICES ASSUME Init PROVE ConsoleInv
  OBVIOUS
<1>1. LINE_MOD \in Nat \ {0}
  BY ConsoleAssumption
<1>2. pitch \in Pitches /\ height \in Heights /\ column = 0 /\ line = 0 /\ overran = FALSE
  BY DEF Init
<1>3. 0 \in Nat /\ 0 \in 0 .. (LINE_MOD - 1) /\ FALSE \in BOOLEAN
  BY <1>1
<1>4. Cursor
  BY <1>2, <1>3 DEF Cursor
<1>5. QED
  BY <1>4 DEF Init, ConsoleInv, OnColumns, TextIntact, OnScreen

LEMMA ConsoleNext == ConsoleInv /\ [Next]_vars => ConsoleInv'
<1> SUFFICES ASSUME ConsoleInv, [Next]_vars PROVE ConsoleInv'
  OBVIOUS
<1>0. Cursor
  BY DEF ConsoleInv
<1> USE <1>0, Constants, NextLineType
<1>1. ASSUME Scrolls, line' = line, UNCHANGED <<pitch, height>>
      PROVE  OnScreen'
  BY <1>1, ScrollsBelow DEF OnScreen, max_lines
<1>2. CASE NewLine
  <2>1. Cursor'
    BY <1>2 DEF NewLine, Cursor
  <2>2. CASE ~Scrolls
    BY <1>2, <2>1, <2>2, NothingDrawn DEF NewLine
  <2>3. CASE Scrolls
    BY <1>1, <1>2, <2>1, <2>3, Cleared DEF NewLine, Paint
  <2>4. QED
    BY <2>2, <2>3
<1>3. CASE CarriageReturn
  <2>1. Cursor'
    BY <1>3 DEF CarriageReturn, Cursor
  <2>2. QED
    BY <1>3, <2>1, NothingDrawn DEF CarriageReturn
<1>4. CASE Reset
  <2>1. Cursor'
    BY <1>4 DEF Reset, Cursor
  <2>2. OnScreen'
    BY <1>4 DEF Reset, Paint, OnScreen, Screen, Rectangle
  <2>3. QED
    BY <1>4, <2>1, <2>2, Cleared DEF Reset, Paint
<1>5. CASE Glyph
  <2>1. Cursor' /\ UNCHANGED <<pitch, height, overran>>
    BY <1>5 DEF Glyph, Draw, Cursor
  <2>2. CASE ~Full
    <3>1. column \in 0 .. max_cols - 1
      BY <2>2 DEF Full, Cursor
    <3>2. line' = line /\ text' = text \cup {<<column, line>>} /\ Paint(Cell(column, line), <<column, line>>)
      BY <1>5, <2>2 DEF Glyph, Draw
    <3>3. QED
      BY <2>1, <3>1, <3>2, DrawnAt
  <2>3. CASE Full /\ ~Scrolls
    <3>1. 0 \in 0 .. max_cols - 1
      OBVIOUS
    <3>2. line' = NextLine /\ text' = text \cup {<<0, NextLine>>} /\ Paint(Cell(0, NextLine), <<0, NextLine>>)
      BY <1>5, <2>3 DEF Glyph, Draw
    <3>3. QED
      BY <2>1, <3>1, <3>2, DrawnAt
  <2>4. CASE Full /\ Scrolls
    <3>1. /\ line' = line /\ text' = {<<0, line>>} /\ DOMAIN owner' = Offsets
          /\ \A p \in Offsets : p \in Cell(0, line) => owner'[p] = <<0, line>>
      BY <1>5, <2>4 DEF Glyph
    <3>2. 0 \in 0 .. max_cols - 1 /\ line \in 0 .. LINE_MOD - 1
      BY DEF Cursor
    <3>3. Cell(0, line) \subseteq Offsets
      <4>1. 0 \in 0 .. max_cols + TAB - 2
        OBVIOUS
      <4>2. QED
        BY <3>2, <4>1, CellInOffsets
    <3>4. Offsets' = Offsets /\ max_cols' = max_cols /\ \A d, k : Cell(d, k)' = Cell(d, k)
      BY <2>1 DEF Offsets, max_cols, Cell, Rectangle
    <3>5. OnColumns'
      BY <3>1, <3>2, <3>4 DEF OnColumns
    <3>6. TextIntact'
      BY <3>1, <3>3, <3>4 DEF TextIntact
    <3>7. OnScreen'
      BY <1>1, <2>1, <2>4, <3>1
    <3>8. QED
      BY <2>1, <3>1, <3>4, <3>5, <3>6, <3>7 DEF ConsoleInv
  <2>5. QED
    BY <2>2, <2>3, <2>4
<1>6. CASE Tab
  <2>1. Cursor' /\ UNCHANGED <<pitch, height, overran>>
    BY <1>6 DEF Tab, Cursor
  <2>2. CASE Full /\ Scrolls
    BY <1>1, <1>6, <2>1, <2>2, Cleared DEF Tab, Paint
  <2>3. CASE ~(Full /\ Scrolls)
    BY <1>6, <2>1, <2>3, NothingDrawn DEF Tab
  <2>4. QED
    BY <2>2, <2>3
<1>7. CASE Blank
  <2>1. Cursor'
    BY <1>7 DEF Blank, Draw, Cursor, Full
  <2>2. CASE Full
    BY <1>7, <2>1, <2>2, Overran DEF Blank, Draw, Paint
  <2>3. CASE ~Full
    <3>1. column \in 0 .. max_cols - 1
      BY <2>3 DEF Full, Cursor
    <3>2. /\ line' = line /\ text' = text \cup {<<column, line>>} /\ Paint(Cell(column, line), <<column, line>>)
          /\ UNCHANGED <<pitch, height>> /\ overran' = overran
      BY <1>7, <2>3 DEF Blank, Draw, Cursor
    <3>3. QED
      BY <2>1, <3>1, <3>2, DrawnAt
  <2>4. QED
    BY <2>2, <2>3
<1>8. CASE UNCHANGED vars
  <2>1. Cursor' /\ DOMAIN owner' = Offsets'
    BY <1>8 DEF vars, ConsoleInv, Cursor, Offsets
  <2>2. OnColumns' /\ OnScreen'
    BY <1>8 DEF vars, ConsoleInv, OnColumns, OnScreen, max_cols, max_lines, Screen, Rectangle
  <2>3. TextIntact'
    BY <1>8 DEF vars, ConsoleInv, TextIntact, Cell, Rectangle
  <2>4. QED
    BY <2>1, <2>2, <2>3 DEF ConsoleInv
<1>9. QED
  BY <1>2, <1>3, <1>4, <1>5, <1>6, <1>7, <1>8 DEF Next

(* No character is drawn over part of another, until a tab goes past the   *)
(* last column.                                                            *)
THEOREM ConsoleTextIntact == Spec => []TextIntact
<1>1. ConsoleInv => TextIntact
  BY DEF ConsoleInv
<1>2. QED
  BY ConsoleInit, ConsoleNext, <1>1, PTL DEF Spec

(* No step writes a pixel that is not on the screen, while the cursor is   *)
(* on a line of it and no tab has gone past the last column.               *)
THEOREM ConsoleOnScreen == Spec => []OnScreen
<1>1. ConsoleInv => OnScreen
  BY DEF ConsoleInv
<1>2. QED
  BY ConsoleInit, ConsoleNext, <1>1, PTL DEF Spec

-----------------------------------------------------------------------------
(* Types *)

LEMMA RowsInOffsets ==
  ASSUME Cursor
  PROVE  Screen \subseteq Offsets /\ ScrolledRows \subseteq Offsets
<1> USE Constants
<1>1. LINE_MOD * GH \in Nat /\ TAB * GW \in Nat
  BY ProductNat
<1>2. ASSUME NEW r \in Int, NEW n \in Nat, -1 <= r, r + n - 1 <= height, NEW p \in Rectangle(0, r, Width, n)
      PROVE  p \in Offsets
  <2>1. PICK a \in 0 .. (0 + Width - 1), b \in r .. (r + n - 1) : p = b * pitch + a
    BY <1>2 DEF Rectangle
  <2>2. a \in Nat /\ a <= Width + TAB * GW /\ b \in Int /\ -1 <= b /\ b <= LINE_MOD * GH + height
    BY <1>1, <1>2, <2>1
  <2>3. QED
    BY <2>1, <2>2, InOffsets
<1>3. \A p \in Rectangle(0, 0, Width, height) : p \in Offsets
  BY <1>2
<1>4. \A p \in Rectangle(0, -1, Width, height) : p \in Offsets
  BY <1>2
<1>5. \A p \in Rectangle(0, height - 1, Width, 1) : p \in Offsets
  BY <1>2
<1>6. QED
  BY <1>3, <1>4, <1>5 DEF Screen, ScrolledRows

(* The cells that may be drawn, those of a tab too far included.           *)
Cells == (0 .. (max_cols + TAB - 2)) \X (0 .. (LINE_MOD - 1))

LEMMA PaintType ==
  ASSUME TypeOK, NEW pixels, pixels \subseteq Offsets, NEW cell \in {NULL} \cup Cells, Paint(pixels, cell)
  PROVE  owner' \in [Offsets -> {NULL} \cup Cells] /\ wrote' \subseteq Offsets
BY DEF TypeOK, Paint, Cells

LEMMA TypeNext == TypeOK /\ [Next]_vars => TypeOK'
<1> SUFFICES ASSUME TypeOK, [Next]_vars PROVE TypeOK'
  OBVIOUS
<1>0. Cursor
  BY ConsoleAssumption DEF TypeOK, Cursor, max_cols
<1> USE <1>0
<1>1. UNCHANGED <<pitch, height>>
  BY DEF Next, NewLine, CarriageReturn, Reset, Glyph, Tab, Blank, vars
<1>2. Offsets' = Offsets /\ max_cols' = max_cols /\ Cells' = Cells
  BY <1>1 DEF Offsets, max_cols, Cells
<1>3. /\ max_cols \in Nat /\ 0 < max_cols /\ TAB \in Nat \ {0} /\ LINE_MOD \in Nat \ {0}
      /\ NextLine \in 0 .. LINE_MOD - 1
  BY Constants, NextLineType
<1>4. /\ column \in 0 .. (max_cols + TAB - 1) /\ line \in 0 .. (LINE_MOD - 1) /\ blanks \in 0 .. TAB
      /\ column + blanks <= max_cols + TAB - 1
      /\ owner \in [Offsets -> {NULL} \cup Cells] /\ wrote \subseteq Offsets
      /\ text \subseteq Cells /\ overran \in BOOLEAN
  BY DEF TypeOK, Cells
<1>5. SUFFICES /\ column' \in 0 .. (max_cols + TAB - 1) /\ line' \in 0 .. (LINE_MOD - 1)
               /\ blanks' \in 0 .. TAB /\ column' + blanks' <= max_cols + TAB - 1
               /\ owner' \in [Offsets -> {NULL} \cup Cells] /\ wrote' \subseteq Offsets
               /\ text' \subseteq Cells /\ overran' \in BOOLEAN
  BY <1>1, <1>2 DEF TypeOK, Cells
<1>6. \A c \in 0 .. (max_cols + TAB - 2), l \in 0 .. (LINE_MOD - 1) :
        Cell(c, l) \subseteq Offsets /\ <<c, l>> \in Cells
  BY CellInOffsets DEF Cells
<1>7. /\ Paint(ScrolledRows, NULL) \/ Paint(Screen, NULL)
           => owner' \in [Offsets -> {NULL} \cup Cells] /\ wrote' \subseteq Offsets
  BY RowsInOffsets, PaintType
<1>8. 0 \in 0 .. (max_cols + TAB - 2) /\ 1 \in 0 .. (max_cols + TAB - 1)
  BY <1>3
<1>9. ASSUME NEW c \in 0 .. (max_cols + TAB - 2), NEW l \in 0 .. (LINE_MOD - 1), Draw(c, l)
      PROVE  /\ owner' \in [Offsets -> {NULL} \cup Cells] /\ wrote' \subseteq Offsets
             /\ column' = c + 1 /\ column' \in 0 .. (max_cols + TAB - 1)
  <2>1. Paint(Cell(c, l), <<c, l>>) /\ column' = c + 1
    BY <1>9 DEF Draw
  <2>2. QED
    BY <1>3, <1>6, <2>1, PaintType
<1>10. CASE NewLine
  BY <1>3, <1>4, <1>7, <1>10 DEF NewLine
<1>11. CASE CarriageReturn
  BY <1>3, <1>4, <1>11 DEF CarriageReturn
<1>12. CASE Reset
  BY <1>3, <1>4, <1>7, <1>12 DEF Reset
<1>13. CASE Glyph
  <2>1. CASE ~Full /\ Draw(column, line) /\ text' = text \cup {<<column, line>>} /\ UNCHANGED line
    <3>1. column \in 0 .. (max_cols + TAB - 2) /\ column + 1 <= max_cols + TAB - 1
      BY <1>3, <1>4, <2>1 DEF Full
    <3>2. QED
      BY <1>4, <1>6, <1>9, <1>13, <2>1, <3>1 DEF Glyph
  <2>2. CASE line' = NextLine /\ Draw(0, NextLine) /\ text' = text \cup {<<0, NextLine>>}
    <3>1. /\ owner' \in [Offsets -> {NULL} \cup Cells] /\ wrote' \subseteq Offsets
          /\ column' = 0 + 1 /\ <<0, NextLine>> \in Cells
      BY <1>3, <1>6, <1>8, <1>9, <2>2
    <3>2. blanks' = 0 /\ UNCHANGED overran
      BY <1>13 DEF Glyph
    <3>3. QED
      BY <1>3, <1>4, <1>8, <2>2, <3>1, <3>2
  <2>3. CASE /\ owner' = [p \in Offsets |->
                            IF p \in Cell(0, line) THEN <<0, line>>
                            ELSE IF p \in ScrolledRows THEN NULL ELSE owner[p]]
             /\ wrote' = ScrolledRows \cup Cell(0, line)
             /\ column' = 1 /\ text' = {<<0, line>>} /\ UNCHANGED line
    <3>1. <<0, line>> \in Cells /\ Cell(0, line) \subseteq Offsets
      BY <1>4, <1>6, <1>8
    <3>2. owner' \in [Offsets -> {NULL} \cup Cells]
      BY <1>4, <2>3, <3>1
    <3>3. wrote' \subseteq Offsets
      BY <2>3, <3>1, RowsInOffsets
    <3>4. blanks' = 0 /\ UNCHANGED overran
      BY <1>13 DEF Glyph
    <3>5. QED
      BY <1>3, <1>4, <1>8, <2>3, <3>1, <3>2, <3>3, <3>4
  <2>4. QED
    BY <1>13, <2>1, <2>2, <2>3 DEF Glyph
<1>14. CASE Tab
  <2>1. CASE ~Full /\ UNCHANGED <<column, line, owner, text>>
    BY <1>3, <1>4, <1>14, <2>1 DEF Tab, Full
  <2>2. CASE column' = 0
    BY <1>3, <1>4, <1>7, <1>14, <2>2 DEF Tab
  <2>3. QED
    BY <1>14, <2>1, <2>2 DEF Tab
<1>15. CASE Blank
  <2>1. column \in 0 .. (max_cols + TAB - 2)
    BY <1>3, <1>4, <1>15 DEF Blank
  <2>2. /\ owner' \in [Offsets -> {NULL} \cup Cells] /\ wrote' \subseteq Offsets
        /\ column' = column + 1 /\ column' \in 0 .. (max_cols + TAB - 1) /\ <<column, line>> \in Cells
    BY <1>4, <1>6, <1>9, <1>15, <2>1 DEF Blank
  <2>3. blanks' = blanks - 1 /\ blanks > 0 /\ text' = text \cup {<<column, line>>} /\ UNCHANGED line
    BY <1>15 DEF Blank
  <2>4. overran' \in BOOLEAN
    BY <1>15 DEF Blank
  <2>5. QED
    BY <1>3, <1>4, <2>2, <2>3, <2>4
<1>16. CASE UNCHANGED vars
  BY <1>4, <1>16 DEF vars
<1>17. QED
  BY <1>10, <1>11, <1>12, <1>13, <1>14, <1>15, <1>16 DEF Next

(* The cursor is at most a tab behind the last column, and no write goes   *)
(* beyond the row before the framebuffer, or beyond its last row and the   *)
(* last line the cursor can count to.                                      *)
THEOREM ConsoleTypeOK == Spec => []TypeOK
<1>1. Init => TypeOK
  <2>1. SUFFICES ASSUME Init PROVE TypeOK
    OBVIOUS
  <2>2. Cursor
    BY <2>1, ConsoleInit DEF ConsoleInv
  <2>3. max_cols \in Nat /\ 0 < max_cols /\ TAB \in Nat \ {0} /\ LINE_MOD \in Nat \ {0}
    BY <2>2, Constants
  <2>4. QED
    BY <2>1, <2>2, <2>3 DEF Init, TypeOK, Cursor
<1>2. QED
  BY <1>1, TypeNext, PTL DEF Spec
=============================================================================
