------------------------------ MODULE Console ------------------------------
(***************************************************************************)
(* The framebuffer console of src/fb.c: draw_sentence keeps a cursor in    *)
(* characters and draws glyphs as pixels; newLine, scrollUp and reset move *)
(* it and clear the screen.                                                *)
(*                                                                         *)
(* A pixel is an offset into the framebuffer.  Nothing clips a write, so   *)
(* offsets before and behind it are in the model.  What is remembered of a *)
(* pixel is the character cell last drawn over it, not its color.          *)
(***************************************************************************)
EXTENDS Integers

CONSTANTS
  Width,             (* pixels in a row of the screen                      *)
  Pitches, Heights,  (* pixels from a row to the next, and rows, of the    *)
                     (* framebuffers the machine may have                  *)
  GW, GH,            (* pixels of a glyph (8 by 16)                        *)
  TAB,               (* characters of a tab (4)                            *)
  LINE_MOD,          (* line is a uint8_t: arithmetic modulo this (256)    *)
  NULL

ASSUME ConsoleAssumption ==
  /\ {GW, TAB, LINE_MOD} \subseteq Nat \ {0}
  /\ GH \in Nat \ {0, 1}
  /\ Heights \subseteq Nat \ {0}
  /\ Width \in Nat /\ GW <= Width
  /\ Pitches \subseteq Nat /\ \A pitch \in Pitches : Width <= pitch

VARIABLES
  pitch, height,
  column, line,      (* the cursor, in characters                          *)
  blanks,            (* blanks of the current tab still to draw            *)
  owner,             (* the cell a pixel shows, or NULL when black         *)
  text,              (* cells drawn since the screen was cleared           *)
  wrote,             (* pixels the last step wrote                         *)
  overran            (* a tab has gone past the last column                *)

vars == <<pitch, height, column, line, blanks, owner, text, wrote, overran>>

Rectangle(x, y, w, h) ==
  {b * pitch + a : a \in x .. (x + w - 1), b \in y .. (y + h - 1)}
Screen == Rectangle(0, 0, Width, height)
Cell(col, l) == Rectangle(col * GW, l * GH, GW, GH)

max_colsRoundUp == (Width + GW - 1) \div GW
max_cols == Width \div GW
max_lines == height \div GH      (* computed only in a comment of the code  *)

(* The offsets a write can name: from the row before the framebuffer to    *)
(* behind its last row and the last line the cursor can be on.             *)
Offsets == (-pitch) .. ((LINE_MOD * GH + height) * pitch + (Width + TAB * GW))

Init ==
  /\ pitch \in Pitches /\ height \in Heights
  /\ column = 0 /\ line = 0 /\ blanks = 0
  /\ owner = [p \in Offsets |-> NULL]
  /\ text = {} /\ wrote = {} /\ overran = FALSE

Paint(pixels, cell) ==
  /\ owner' = [p \in Offsets |-> IF p \in pixels THEN cell ELSE owner[p]]
  /\ wrote' = pixels

(* draw_character at the cursor's column of line l.                        *)
Draw(col, l) ==
  /\ Paint(Cell(col, l), <<col, l>>)
  /\ column' = col + 1

-----------------------------------------------------------------------------
(* newLine compares the cursor's line with the height in pixels.           *)
Scrolls == line >= height - 1
NextLine == (line + 1) % LINE_MOD

(* scrollUp writes row y - 1 for every row y, which for row 0 is the one   *)
(* before the framebuffer, and then the last row: the screen goes black.   *)
ScrolledRows == Rectangle(0, -1, Width, height) \cup Rectangle(0, height - 1, Width, 1)

NewLine ==
  /\ blanks = 0
  /\ column' = 0
  /\ \/ ~Scrolls /\ line' = NextLine /\ wrote' = {} /\ UNCHANGED <<owner, text>>
     \/ Scrolls /\ Paint(ScrolledRows, NULL) /\ text' = {} /\ UNCHANGED line
  /\ UNCHANGED <<pitch, height, blanks, overran>>

CarriageReturn ==
  /\ blanks = 0
  /\ column' = 0 /\ wrote' = {}
  /\ UNCHANGED <<pitch, height, line, blanks, owner, text, overran>>

Reset ==
  /\ blanks = 0
  /\ column' = 0 /\ line' = 0
  /\ Paint(Screen, NULL)
  /\ text' = {}
  /\ UNCHANGED <<pitch, height, blanks, overran>>

FullLate == column > max_cols
Full == column >= max_cols

(* Any other character is drawn at the cursor, after newLine if need be.   *)
Glyph ==
  /\ blanks = 0
  /\ \/ /\ ~Full
        /\ Draw(column, line)
        /\ text' = text \cup {<<column, line>>}
        /\ UNCHANGED line
     \/ /\ Full /\ ~Scrolls
        /\ line' = NextLine
        /\ Draw(0, NextLine)
        /\ text' = text \cup {<<0, NextLine>>}
     \/ /\ Full /\ Scrolls
        /\ owner' = [p \in Offsets |->
                       IF p \in Cell(0, line) THEN <<0, line>>
                       ELSE IF p \in ScrolledRows THEN NULL ELSE owner[p]]
        /\ wrote' = ScrolledRows \cup Cell(0, line)
        /\ column' = 1
        /\ text' = {<<0, line>>}
        /\ UNCHANGED line
  /\ UNCHANGED <<pitch, height, blanks, overran>>

(* A tab looks at the column once, then draws TAB blanks.                  *)
Tab ==
  /\ blanks = 0
  /\ blanks' = TAB
  /\ \/ ~Full /\ wrote' = {} /\ UNCHANGED <<column, line, owner, text>>
     \/ /\ Full /\ ~Scrolls
        /\ column' = 0 /\ line' = NextLine /\ wrote' = {} /\ UNCHANGED <<owner, text>>
     \/ /\ Full /\ Scrolls
        /\ column' = 0 /\ Paint(ScrolledRows, NULL) /\ text' = {} /\ UNCHANGED line
  /\ UNCHANGED <<pitch, height, overran>>

Blank ==
  /\ blanks > 0
  /\ blanks' = blanks - 1
  /\ Draw(column, line)
  /\ text' = text \cup {<<column, line>>}
  /\ overran' = (overran \/ Full)
  /\ UNCHANGED <<pitch, height, line>>

Next == NewLine \/ CarriageReturn \/ Reset \/ Glyph \/ Tab \/ Blank

Spec == Init /\ [][Next]_vars

-----------------------------------------------------------------------------
(* Types: a tab may leave the cursor at most TAB - 1 columns too far.      *)
TypeOK ==
  /\ pitch \in Pitches /\ height \in Heights
  /\ column \in 0 .. (max_cols + TAB - 1)
  /\ line \in 0 .. (LINE_MOD - 1)
  /\ blanks \in 0 .. TAB
  /\ column + blanks <= max_cols + TAB - 1
  /\ owner \in [Offsets -> {NULL} \cup (0 .. (max_cols + TAB - 2)) \X (0 .. (LINE_MOD - 1))]
  /\ wrote \subseteq Offsets
  /\ text \subseteq (0 .. (max_cols + TAB - 2)) \X (0 .. (LINE_MOD - 1))
  /\ overran \in BOOLEAN

(* Until a tab goes past the last column, every character drawn since the  *)
(* screen was cleared keeps all of its pixels, or gives all of them to     *)
(* another in its place: no character is ever drawn over part of another,  *)
(* on its line or on one below, wherever the width, the pitch and the      *)
(* glyph's width leave the last column.                                    *)
TextIntact ==
  ~overran => \A k \in text : \A p \in Cell(k[1], k[2]) : owner[p] = k

(* As long as the cursor stays on a line that has all its pixels on the    *)
(* screen and no tab has gone past the last column, no step writes a pixel *)
(* that is not on the screen: neither beyond the last column, nor between  *)
(* the width and the pitch, nor the row that scrollUp writes before the    *)
(* framebuffer.                                                            *)
OnScreen == (line < max_lines /\ ~overran) => wrote \subseteq Screen
=============================================================================
