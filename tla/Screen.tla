------------------------------- MODULE Screen -------------------------------
(***************************************************************************)
(* The screen buffer of a session (src/screen.rs): a flat vector of        *)
(* cols * rows cells, a cursor, the cursor saved by DECSC, a scroll region *)
(* and the primary screen put aside while the alternate one is shown. One  *)
(* action per control function, with the code's index arithmetic; an index *)
(* outside the vector panics, as the slice operations of Rust do. vte has  *)
(* already parsed the bytes. The manager's resize interleaves freely.      *)
(*                                                                         *)
(* A cell is Blank or the attribute it was printed with: which character   *)
(* it shows is never looked at. The title, cursor visibility and the       *)
(* transcript are left out: no control function reads them. A call that    *)
(* panics leaves the mutex poisoned, so what it wrote first is left out.   *)
(***************************************************************************)
EXTENDS Naturals, Sequences

CONSTANTS
  Sizes,     \* the sizes a screen is given, as <<cols, rows>>
  Params,    \* the numeric parameters control functions are sent
  Modes,     \* the DEC private modes that are switched
  Attrs,     \* attributes text is printed with
  Plain,     \* CellAttr::default()
  Blank,     \* Cell::default()
  Nothing,   \* alt_saved = None
  TabWidth,
  AltCells,  \* bound on the cells of a screen while another is put aside
  U16        \* arithmetic on u16 wraps at U16 (65536 in the code)

ASSUME SizesAssumption == Sizes # {} /\ Sizes \subseteq (0 .. U16 - 1) \X (0 .. U16 - 1)
ASSUME ParamsAssumption == Params \subseteq 0 .. U16 - 1
ASSUME ModesAssumption == Modes \subseteq {7, 47, 1047, 1049}
ASSUME CellsAssumption == Blank \notin Attrs /\ Plain \in Attrs
ASSUME WidthAssumption == U16 \in Nat /\ TabWidth \in 1 .. U16 - 1

U16s == 0 .. U16 - 1
Cell == Attrs \cup {Blank}
Grid(c, r) == 0 .. c * r - 1

\* What the screen was when the alternate one took its place (AltSaved).
Aside(c, r) ==
  [cells : [Grid(c, r) -> Cell], cx : U16s, cy : U16s, attr : Attrs, top : U16s, bottom : U16s]

\* None is neither a vector of cells nor a screen put aside.
ASSUME NothingAssumption ==
  \A c, r \in U16s : Nothing \notin [Grid(c, r) -> Cell] /\ Nothing \notin Aside(c, r)

VARIABLES
  cols, rows, \* the size
  cells,      \* cells[i], i in 0 .. cols*rows - 1, row after row
  cx, cy,     \* the cursor; cx = cols after printing in the last column
  attr,       \* the attribute of the next character
  saved,      \* saved_cursor, <<x, y>>
  top,        \* scroll_top, scroll_bottom: 0-based, inclusive
  bottom,
  autoWrap,   \* DECAWM
  alt,        \* alt_saved; alt_active is alt # Nothing
  panicked    \* a slice operation failed; the reader thread is gone

cursor == <<cx, cy>>
region == <<top, bottom>>
size == <<cols, rows>>
vars == <<size, cells, cursor, attr, saved, region, autoWrap, alt, panicked>>

Least(a, b) == IF a <= b THEN a ELSE b
Minus(a, b) == IF a >= b THEN a - b ELSE 0         \* saturating_sub
Plus(a, b) == (a + b) % U16                         \* + on u16, as released
Param(n, default) == IF n = 0 THEN default ELSE n   \* closure p of csi_dispatch

Total == cols * rows                                \* cells.len()
RowStart == cy * cols
Here == RowStart + cx

NewScreen(c, r) ==
  /\ cols = c /\ rows = r
  /\ cells = [i \in Grid(c, r) |-> Blank]
  /\ cx = 0 /\ cy = 0
  /\ attr = Plain
  /\ saved = <<0, 0>>
  /\ top = 0 /\ bottom = Minus(r, 1)
  /\ autoWrap = TRUE
  /\ alt = Nothing
  /\ panicked = FALSE

Init == \E s \in Sizes : NewScreen(s[1], s[2])

Panic == panicked' = TRUE /\ UNCHANGED <<size, cells, cursor, attr, saved, region, autoWrap, alt>>

-----------------------------------------------------------------------------
(* Slices of the vector.                                                   *)

InSlice(lo, hi) == lo <= hi /\ hi <= Total

Fill(g, lo, hi) == [i \in DOMAIN g |-> IF lo <= i /\ i < hi THEN Blank ELSE g[i]]

\* copy_within(lo..hi, dst)
CopyWithin(g, lo, hi, dst) ==
  [i \in DOMAIN g |-> IF dst <= i /\ i < dst + (hi - lo) THEN g[lo + (i - dst)] ELSE g[i]]

\* What an editing function leaves of the cells; Nothing if a slice is out of range.
SetCells(g) ==
  IF g = Nothing THEN Panic
  ELSE cells' = g /\ UNCHANGED <<size, cursor, attr, saved, region, autoWrap, alt, panicked>>

Erased(lo, hi) == IF InSlice(lo, hi) THEN Fill(cells, lo, hi) ELSE Nothing

-----------------------------------------------------------------------------
(* Scrolling a range of rows.                                              *)

\* One turn of a scroll loop: row r becomes a copy of row from[r], or blank if it
\* has no source. Nothing once a slice was out of range.
RowTurn(g, r, from) ==
  LET row == r * cols
      source == from[r] * cols
  IN  IF g = Nothing \/ ~InSlice(row, row + cols) THEN Nothing
      ELSE IF r \notin DOMAIN from THEN Fill(g, row, row + cols)
      ELSE IF InSlice(source, source + cols) THEN CopyWithin(g, source, source + cols, row)
      ELSE Nothing

\* The cells after each turn of a loop over the rows of order.
RowLoop(order, from) ==
  LET turn[k \in 0 .. Len(order)] ==
        IF k = 0 THEN cells ELSE RowTurn(turn[k - 1], order[k], from)
  IN  turn

Ascending(t, b) == [k \in 1 .. b - t + 1 |-> t + k - 1]     \* top..=bottom
Descending(t, b) == [k \in 1 .. b - t + 1 |-> b - k + 1]    \* its rev()

Scrolled(order, from) == RowLoop(order, from)[Len(order)]

SourcesBelow(t, b, n) == [r \in {r \in t .. b : r + n <= b} |-> r + n]
SourcesAbove(t, b, n) == [r \in {r \in t .. b : r >= t + n} |-> r - n]

\* scroll_up_region, scroll_down_region: what the loop leaves of the cells.
ScrolledUp(t, b, n) ==
  IF n = 0 \/ t > b THEN cells ELSE Scrolled(Ascending(t, b), SourcesBelow(t, b, n))

\* Mutant of ScrolledDown: without rev(), so that a row is overwritten before it is
\* copied.
ScrolledDownAscending(t, b, n) ==
  IF n = 0 \/ t > b THEN cells ELSE Scrolled(Ascending(t, b), SourcesAbove(t, b, n))

ScrolledDown(t, b, n) ==
  IF n = 0 \/ t > b THEN cells ELSE Scrolled(Descending(t, b), SourcesAbove(t, b, n))

ScrollUp(t, b, n) == SetCells(ScrolledUp(t, b, n))
ScrollDown(t, b, n) == SetCells(ScrolledDown(t, b, n))

-----------------------------------------------------------------------------
(* Printing and the C0 controls.                                           *)

\* line_feed: what it leaves of the cells and of the cursor's row.
FeedCells == IF cy >= bottom THEN ScrolledUp(top, bottom, 1) ELSE cells
FeedRow == IF cy >= bottom THEN cy ELSE cy + 1
FeedPanics == FeedCells = Nothing

PutChar ==
  LET wraps == cx >= cols /\ autoWrap
      x == IF cx < cols THEN cx ELSE IF autoWrap THEN 0 ELSE Minus(cols, 1)
      y == IF wraps THEN FeedRow ELSE cy
      base == IF wraps THEN FeedCells ELSE cells
      idx == y * cols + x
  IN  IF wraps /\ FeedPanics THEN Panic
      ELSE /\ cells' = IF idx < Total THEN [base EXCEPT ![idx] = attr] ELSE base
           /\ cx' = x + 1
           /\ cy' = y
           /\ UNCHANGED <<size, attr, saved, region, autoWrap, alt, panicked>>

\* LF, VT, FF and ESC D
LineFeed ==
  IF FeedPanics THEN Panic
  ELSE /\ cells' = FeedCells
       /\ cy' = FeedRow
       /\ UNCHANGED <<size, cx, attr, saved, region, autoWrap, alt, panicked>>

MoveTo(x, y) ==
  /\ cx' = x
  /\ cy' = y
  /\ UNCHANGED <<size, cells, attr, saved, region, autoWrap, alt, panicked>>

CarriageReturn == MoveTo(0, cy)
Backspace == MoveTo(Minus(cx, 1), cy)
Tab == MoveTo(Least(((cx \div TabWidth + 1) * TabWidth) % U16, Minus(cols, 1)), cy)

-----------------------------------------------------------------------------
(* CSI: cursor movement.                                                   *)

LastCol == Minus(cols, 1)
LastRow == Minus(rows, 1)

CursorUp(n) == MoveTo(cx, Minus(cy, Param(n, 1)))
CursorDown(n) == MoveTo(cx, Least(Plus(cy, Param(n, 1)), LastRow))
CursorForward(n) == MoveTo(Least(Plus(cx, Param(n, 1)), LastCol), cy)
CursorBackward(n) == MoveTo(Minus(cx, Param(n, 1)), cy)
NextLine(n) == MoveTo(0, Least(Plus(cy, Param(n, 1)), LastRow))
PreviousLine(n) == MoveTo(0, Minus(cy, Param(n, 1)))
ToColumn(n) == MoveTo(Least(Minus(Param(n, 1), 1), LastCol), cy)
ToRow(n) == MoveTo(cx, Least(Minus(Param(n, 1), 1), LastRow))
ToPosition(r, c) ==
  MoveTo(Least(Minus(Param(c, 1), 1), LastCol), Least(Minus(Param(r, 1), 1), LastRow))

-----------------------------------------------------------------------------
(* CSI: erasing and editing.                                               *)

ErasedInDisplay(mode) ==
  CASE mode = 0 -> Erased(Here, Total)
    [] mode = 1 -> Erased(0, Least(Here + 1, Total))
    [] mode \in {2, 3} -> Erased(0, Total)
    [] OTHER -> cells
EraseInDisplay(mode) == SetCells(ErasedInDisplay(mode))

ErasedInLine(mode) ==
  CASE mode = 0 -> Erased(Here, Least(RowStart + cols, Total))
    [] mode = 1 -> Erased(RowStart, Least(Here + 1, Total))
    [] mode = 2 -> Erased(RowStart, Least(RowStart + cols, Total))
    [] OTHER -> cells
EraseInLine(mode) == SetCells(ErasedInLine(mode))

InsertLines(n) == ScrollDown(cy, bottom, Param(n, 1))
DeleteLines(n) == ScrollUp(cy, bottom, Param(n, 1))
ScrollRegionUp(n) == ScrollUp(top, bottom, Param(n, 1))
ScrollRegionDown(n) == ScrollDown(top, bottom, Param(n, 1))

LineEnd == RowStart + cols

DeletedIf(n, shifts) ==
  IF shifts
    THEN IF Here + n <= LineEnd /\ LineEnd <= Total
           THEN Fill(CopyWithin(cells, Here + n, LineEnd, Here), LineEnd - n, LineEnd)
           ELSE Nothing
    ELSE Erased(Here, LineEnd)

\* Mutant of DeletedChars: always shifts, even with nothing left to shift.
DeletedCharsUnchecked(m) == DeletedIf(Param(m, 1), TRUE)

DeletedChars(m) == DeletedIf(Param(m, 1), cx + Param(m, 1) < cols)
DeleteChars(m) == SetCells(DeletedChars(m))

InsertedChars(m) ==
  LET n == Param(m, 1)
      shifted == IF cx + n < cols THEN CopyWithin(cells, Here, LineEnd - n, Here + n) ELSE cells
      gap == Least(Here + n, LineEnd)
  IN  IF (cx + n < cols => LineEnd <= Total) /\ InSlice(Here, gap)
        THEN Fill(shifted, Here, gap) ELSE Nothing
InsertChars(m) == SetCells(InsertedChars(m))

\* Mutant of ErasedChars: bounded by the screen and not by the line.
ErasedCharsAcrossLines(n) == Erased(Here, Least(Here + Param(n, 1), Total))

ErasedChars(n) == Erased(Here, Least(RowStart + Least(cx + Param(n, 1), cols), Total))
EraseChars(n) == SetCells(ErasedChars(n))

\* Mutant of RegionBottom: the bottom is not clamped either.
RegionBottomUnclamped(b) == Minus(Param(b, rows), 1)

RegionBottom(b) == Least(Minus(Param(b, rows), 1), LastRow)

\* DECSTBM: scroll_top is not clamped to the screen.
SetRegion(t, b) ==
  /\ top' = Minus(Param(t, 1), 1)
  /\ bottom' = RegionBottom(b)
  /\ cx' = 0 /\ cy' = 0
  /\ UNCHANGED <<size, cells, attr, saved, autoWrap, alt, panicked>>

SelectRendition(a) ==
  /\ attr' = a
  /\ UNCHANGED <<size, cells, cursor, saved, region, autoWrap, alt, panicked>>

-----------------------------------------------------------------------------
(* DEC private modes: auto-wrap and the alternate screen.                  *)

SetAutoWrap(on) ==
  /\ autoWrap' = on
  /\ UNCHANGED <<size, cells, cursor, attr, saved, region, alt, panicked>>

\* 1049 homes the cursor; 47 and 1047 leave it where it is.
PutAside(mode) ==
  /\ Total <= AltCells
  /\ alt' = [cells |-> cells, cx |-> cx, cy |-> cy, attr |-> attr,
             top |-> top, bottom |-> bottom]
  /\ cells' = [i \in Grid(cols, rows) |-> Blank]
  /\ IF mode = 1049 THEN cx' = 0 /\ cy' = 0 ELSE UNCHANGED cursor
  /\ UNCHANGED <<size, attr, saved, region, autoWrap, panicked>>

\* Mutant of EnterAlt: entering twice saves the alternate screen as the primary.
EnterAltAgain(mode) == PutAside(mode)

EnterAlt(mode) == alt = Nothing /\ PutAside(mode)

\* 1049 also restores the cursor and the attribute.
LeaveAlt(mode) ==
  /\ alt # Nothing
  /\ cells' = alt.cells
  /\ top' = alt.top /\ bottom' = alt.bottom
  /\ IF mode = 1049
       THEN cx' = alt.cx /\ cy' = alt.cy /\ attr' = alt.attr
       ELSE UNCHANGED <<cursor, attr>>
  /\ alt' = Nothing
  /\ UNCHANGED <<size, saved, autoWrap, panicked>>

-----------------------------------------------------------------------------
(* ESC sequences.                                                          *)

SaveCursor ==
  /\ saved' = cursor
  /\ UNCHANGED <<size, cells, cursor, attr, region, autoWrap, alt, panicked>>

RestoreCursor == MoveTo(saved[1], saved[2])

ReverseIndex == IF cy <= top THEN ScrollDown(top, bottom, 1) ELSE MoveTo(cx, cy - 1)

\* RIS: the attribute, cursor, region and cells; nothing else.
FullReset ==
  /\ attr' = Plain
  /\ cx' = 0 /\ cy' = 0
  /\ top' = 0 /\ bottom' = LastRow
  /\ cells' = [i \in DOMAIN cells |-> Blank]
  /\ UNCHANGED <<size, saved, autoWrap, alt, panicked>>

-----------------------------------------------------------------------------
(* Session::resize, under the same lock as feed.                           *)

\* The new vector after each turn of the loop that copies what both sizes have of
\* a row. The slices are in range: g has a row of cols cells for every old row.
Resizing(g, c, r, stride) ==
  LET both == Least(cols, c)
      new[k \in 0 .. Least(rows, r)] ==
        IF k = 0 THEN [i \in Grid(c, r) |-> Blank]
        ELSE LET source == (k - 1) * cols
                 row == (k - 1) * stride
             IN  [i \in Grid(c, r) |->
                    IF row <= i /\ i < row + both THEN g[source + (i - row)] ELSE new[k - 1][i]]
  IN  new

ResizedBy(g, c, r, stride) == Resizing(g, c, r, stride)[Least(rows, r)]

\* Mutant of Resized: the rows are packed.
ResizedPacked(g, c, r) == ResizedBy(g, c, r, Least(cols, c))

Resized(g, c, r) == ResizedBy(g, c, r, c)

Clamp(x, limit) == IF x >= limit THEN Minus(limit, 1) ELSE x

AltResized(c, r) ==
  IF alt = Nothing THEN Nothing
  ELSE [alt EXCEPT !.cells = Resized(alt.cells, c, r), !.top = 0, !.bottom = Minus(r, 1),
                   !.cx = Clamp(alt.cx, c), !.cy = Clamp(alt.cy, r)]

ResizeTo(c, r, x, y) ==
  /\ alt = Nothing \/ c * r <= AltCells
  /\ cells' = Resized(cells, c, r)
  /\ alt' = AltResized(c, r)
  /\ cols' = c /\ rows' = r
  /\ top' = 0 /\ bottom' = Minus(r, 1)
  /\ cx' = x /\ cy' = y
  /\ UNCHANGED <<attr, saved, autoWrap, panicked>>

\* Mutant of Resize: the cursor stays where it was.
ResizeLeavesCursor(c, r) == ResizeTo(c, r, cx, cy)

Resize(c, r) == ResizeTo(c, r, Clamp(cx, c), Clamp(cy, r))

-----------------------------------------------------------------------------

Control ==
  \/ PutChar \/ LineFeed \/ CarriageReturn \/ Backspace \/ Tab
  \/ SaveCursor \/ RestoreCursor \/ ReverseIndex \/ FullReset
  \/ \E a \in Attrs : SelectRendition(a)
  \/ \E mode \in Modes \ {7} : EnterAlt(mode) \/ LeaveAlt(mode)
  \/ \E on \in BOOLEAN : 7 \in Modes /\ SetAutoWrap(on)

Parametrised == \E n \in Params :
  \/ CursorUp(n) \/ CursorDown(n) \/ CursorForward(n) \/ CursorBackward(n)
  \/ NextLine(n) \/ PreviousLine(n) \/ ToColumn(n) \/ ToRow(n)
  \/ EraseInDisplay(n) \/ EraseInLine(n)
  \/ InsertLines(n) \/ DeleteLines(n) \/ ScrollRegionUp(n) \/ ScrollRegionDown(n)
  \/ DeleteChars(n) \/ InsertChars(n) \/ EraseChars(n)
  \/ \E m \in Params : ToPosition(n, m) \/ SetRegion(n, m)

Next ==
  /\ ~panicked
  /\ \/ Control
     \/ Parametrised
     \/ \E s \in Sizes : Resize(s[1], s[2])

Spec == Init /\ [][Next]_vars
-----------------------------------------------------------------------------
(* What the screen promises.                                               *)

\* Type correctness (screen.rs Screen). The vector always has cols * rows cells,
\* and so has the primary screen put aside, through every resize: switching back
\* never installs a grid of another size or a region that reaches below it.
TypeOK ==
  /\ cols \in U16s /\ rows \in U16s
  /\ cells \in [Grid(cols, rows) -> Cell]
  /\ cx \in U16s /\ cy \in U16s
  /\ attr \in Attrs
  /\ saved \in U16s \X U16s
  /\ top \in U16s
  /\ bottom \in 0 .. LastRow
  /\ {autoWrap, panicked} \subseteq BOOLEAN
  /\ alt # Nothing => alt \in Aside(cols, rows) /\ alt.bottom <= LastRow

\* The cursor is beside the grid: only a cursor saved before a resize gets there.
Outside == Total > 0 /\ (cy > LastRow \/ cx > cols)

\* feed panics only on an empty grid or with the cursor outside: no control
\* function alone, with any parameter, reaches outside the vector.
PanicNeedsOutside == [][panicked' => Total = 0 \/ Outside]_vars

\* The cursor gets outside only by restoring one that DECSC, or the switch to
\* the alternate screen, put aside before the screen shrank.
OutsideNeedsRestore ==
  [][~Outside /\ Outside' =>
       \/ cursor' = saved
       \/ alt # Nothing /\ cursor' = <<alt.cx, alt.cy>>]_vars

CellAt(g, w, x, y) == g[y * w + x]

\* A resize keeps every cell that both sizes show where it was, and blanks the rest:
\* the loop over slices of rows reads with the old stride and writes with the new.
ResizeKeepsCells ==
  [][size' # size =>
       \A x \in 0 .. cols' - 1, y \in 0 .. rows' - 1 :
         CellAt(cells', cols', x, y) =
           IF x < cols /\ y < rows THEN CellAt(cells, cols, x, y) ELSE Blank]_vars

\* While the alternate screen is shown nothing that is fed reaches the primary
\* one, and switching back shows it again, cut or extended by the resizes in
\* between, also when the program switches to the alternate screen twice.
PrimaryKept ==
  [][alt # Nothing =>
       LET primary == IF alt' # Nothing THEN alt'.cells ELSE cells'
       IN  \A x \in 0 .. Least(cols, cols') - 1, y \in 0 .. Least(rows, rows') - 1 :
             CellAt(primary, cols', x, y) = CellAt(alt.cells, cols, x, y)]_vars

\* The loops of the scroll functions do to rows what they are for: no row is
\* overwritten before it is copied, and row r of the range ends up showing what
\* row r + n (or r - n) showed before, or blanks, for every range and count.
ScrollMovesRows ==
  \A t, b \in 0 .. LastRow, n \in U16s \ {0} : t <= b /\ Total > 0 =>
    LET up == ScrolledUp(t, b, n)
        down == ScrolledDown(t, b, n)
    IN  \A x \in 0 .. cols - 1, r \in 0 .. rows - 1 :
          /\ CellAt(up, cols, x, r) =
               IF r \in t .. b /\ r + n \in t .. b THEN CellAt(cells, cols, x, r + n)
               ELSE IF r \in t .. b THEN Blank ELSE CellAt(cells, cols, x, r)
          /\ CellAt(down, cols, x, r) =
               IF r \in t .. b /\ r >= t + n THEN CellAt(cells, cols, x, r - n)
               ELSE IF r \in t .. b THEN Blank ELSE CellAt(cells, cols, x, r)

\* Editing characters changes the cursor's row only, and there only from the
\* cursor on, whatever count is given and also when a wrap is pending. Erase in
\* Line stays in the row too, but for the cell the cursor is on: with a wrap
\* pending that is the first of the next row, and mode 1 erases it.
EditsStayInLine ==
  \A n \in U16s :
    /\ \A g \in {DeletedChars(n), InsertedChars(n), ErasedChars(n)} \ {Nothing} :
         \A i \in DOMAIN cells : i \div cols # cy \/ i % cols < cx => g[i] = cells[i]
    /\ LET g == ErasedInLine(n)
       IN  g # Nothing /\ ~Outside =>
             \A i \in DOMAIN cells : i \div cols # cy /\ i # Here => g[i] = cells[i]
=============================================================================
