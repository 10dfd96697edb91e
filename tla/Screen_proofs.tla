---------------------------- MODULE Screen_proofs ----------------------------
(***************************************************************************)
(* Theorems about the screen buffer, for screens of every size, control    *)
(* functions with every parameter and every width of u16.                  *)
(***************************************************************************)
EXTENDS Screen, Recursion

\* A screen that has panicked had no cells, or its cursor outside.
PanickedOutside == panicked => Total = 0 \/ Outside

IInv == TypeOK /\ PanickedOutside

-----------------------------------------------------------------------------
(* Arithmetic of a grid of c columns and r rows stored row after row.      *)

\* Row y ends within the grid.
LEMMA RowFits ==
  ASSUME NEW c \in Nat, NEW r \in Nat, NEW y \in Nat, y < r
  PROVE  y * c \in Nat /\ c * r \in Nat /\ y * c + c <= c * r
<1>1. (y + 1) * c <= r * c OBVIOUS
<1>2. (y + 1) * c = y * c + c OBVIOUS
<1> QED BY <1>1, <1>2

\* Column x of row y is one index, and the index tells the column and the row.
LEMMA CellOfIndex ==
  ASSUME NEW c \in Nat, NEW r \in Nat, NEW x \in 0 .. c - 1, NEW y \in 0 .. r - 1
  PROVE  y * c + x \in Grid(c, r) /\ (y * c + x) \div c = y /\ (y * c + x) % c = x
<1>1. y * c \in Nat /\ y * c + c <= c * r BY RowFits
<1>2. (y * c + x) \div c = y /\ (y * c + x) % c = x OBVIOUS
<1> QED BY <1>1, <1>2 DEF Grid

\* Every index is a column of a row.
LEMMA IndexOfCell ==
  ASSUME NEW c \in Nat, NEW r \in Nat, NEW i \in Grid(c, r)
  PROVE  /\ c # 0 /\ i \div c \in 0 .. r - 1 /\ i % c \in 0 .. c - 1
         /\ i = (i \div c) * c + (i % c)
<1>1. c # 0 /\ r # 0 /\ i \in Nat /\ i < c * r BY DEF Grid
<1>2. i \div c \in Nat /\ i % c \in 0 .. c - 1 /\ i = (i \div c) * c + (i % c) BY <1>1
<1>3. ASSUME i \div c >= r PROVE FALSE
  <2>1. (i \div c) * c >= r * c BY <1>1, <1>2, <1>3
  <2> QED BY <1>1, <1>2, <2>1
<1> QED BY <1>1, <1>2, <1>3

\* A row is a row of the grid if the index of one of its columns is in the grid.
LEMMA RowShift ==
  ASSUME NEW c \in Nat, NEW a \in Nat, NEW n \in Nat
  PROVE  (a + n) * c = a * c + n * c /\ n * c \in Nat /\ a * c \in Nat
OBVIOUS

-----------------------------------------------------------------------------
(* What the numbers of a screen are.                                       *)

Vector == [Grid(cols, rows) -> Cell]

LEMMA Numbers ==
  ASSUME TypeOK
  PROVE  /\ cols \in Nat /\ rows \in Nat /\ cx \in Nat /\ cy \in Nat
         /\ top \in Nat /\ bottom \in Nat
         /\ Total \in Nat /\ RowStart \in Nat /\ Here \in Nat /\ LineEnd \in Nat
         /\ Here = RowStart + cx /\ LineEnd = RowStart + cols
         /\ U16 \in Nat /\ U16 >= 2 /\ TabWidth \in Nat \ {0}
         /\ cells \in Vector /\ Nothing \notin Vector
<1>1. U16 \in Nat /\ U16 >= 2 /\ TabWidth \in Nat \ {0} BY WidthAssumption
<1>2. cols \in Nat /\ rows \in Nat /\ cx \in Nat /\ cy \in Nat /\ top \in Nat
  BY <1>1 DEF TypeOK, U16s
<1>3. bottom \in Nat BY <1>2 DEF TypeOK, LastRow, Minus
<1>4. Total \in Nat /\ RowStart \in Nat BY <1>2 DEF Total, RowStart
<1>5. Here \in Nat /\ LineEnd \in Nat BY <1>2, <1>4 DEF Here, LineEnd
<1>6. Nothing \notin Vector BY NothingAssumption DEF TypeOK, Vector
<1> QED BY <1>1, <1>2, <1>3, <1>4, <1>5, <1>6 DEF TypeOK, Vector, Here, LineEnd

\* With the cursor on the grid, or beside it with a wrap pending, its line is
\* within the vector and it within its line.
LEMMA InsideFits ==
  ASSUME TypeOK, Total # 0, ~Outside
  PROVE  /\ cx <= cols /\ cy < rows /\ 0 < cols /\ 0 < rows
         /\ RowStart <= Here /\ Here <= LineEnd /\ LineEnd <= Total
<1>1. cols # 0 /\ rows # 0 BY Numbers DEF Total
<1>2. cx <= cols /\ cy <= LastRow BY <1>1, Numbers DEF Outside, LastRow, Minus
<1>3. cy < rows BY <1>1, <1>2, Numbers DEF LastRow, Minus
<1>4. cy * cols + cols <= cols * rows BY <1>3, Numbers, RowFits
<1> QED BY <1>1, <1>2, <1>3, <1>4, Numbers DEF RowStart, LineEnd, Total

\* The bottom of the region is a row, if there is one.
LEMMA BottomFits ==
  ASSUME TypeOK, Total # 0
  PROVE  bottom < rows /\ (bottom + 1) * cols <= Total
<1>1. cols # 0 /\ rows # 0 BY Numbers DEF Total
<1>2. bottom < rows BY <1>1, Numbers DEF TypeOK, LastRow, Minus
<1>3. bottom * cols + cols <= cols * rows BY <1>2, Numbers, RowFits
<1>4. (bottom + 1) * cols = bottom * cols + cols BY Numbers
<1> QED BY <1>2, <1>3, <1>4 DEF Total

-----------------------------------------------------------------------------
(* The editing functions turn vectors into vectors.                        *)

LEMMA FillType ==
  ASSUME NEW D, NEW g \in [D -> Cell], NEW lo, NEW hi
  PROVE  Fill(g, lo, hi) \in [D -> Cell]
BY DEF Fill, Cell

LEMMA ErasedType ==
  ASSUME TypeOK, NEW lo, NEW hi
  PROVE  Erased(lo, hi) \in Vector \cup {Nothing}
BY Numbers, FillType DEF Erased, Vector

LEMMA CopyRowAt ==
  ASSUME NEW g, NEW lo \in Nat, NEW n \in Nat, NEW dst \in Nat, NEW i \in Nat, i \in DOMAIN g
  PROVE  CopyWithin(g, lo, lo + n, dst)[i] =
           IF dst <= i /\ i < dst + n THEN g[lo + (i - dst)] ELSE g[i]
BY DEF CopyWithin

LEMMA CopyWithinType ==
  ASSUME TypeOK, NEW g \in Vector, NEW lo \in Nat, NEW hi \in Nat, NEW dst \in Nat, hi <= Total
  PROVE  CopyWithin(g, lo, hi, dst) \in Vector
<1> SUFFICES ASSUME NEW i \in Grid(cols, rows), dst <= i, i < dst + (hi - lo)
             PROVE  lo + (i - dst) \in Grid(cols, rows)
  BY Numbers DEF CopyWithin, Vector
<1>1. i \in Nat /\ Total \in Nat BY Numbers DEF Grid, Total
<1> QED BY <1>1 DEF Grid, Total

-----------------------------------------------------------------------------
(* The loop of the scroll functions.                                       *)

\* The rows t..b are rows of the vector.
RowsInRange(t, b) == t > b \/ (b + 1) * cols <= Total

\* A loop over the rows of order that copies each from an intact row: none of order
\* before it, and all of them rows of the screen.
Orderly(order, from) ==
  /\ \A k \in 1 .. Len(order) : order[k] < rows
  /\ \A j, k \in 1 .. Len(order) : order[j] = order[k] => j = k
  /\ \A k \in 1 .. Len(order) : order[k] \in DOMAIN from => from[order[k]] < rows
  /\ \A j, k \in 1 .. Len(order) :
       j < k /\ order[k] \in DOMAIN from => from[order[k]] # order[j]

\* What row r shows after its turn.
RowSource(from, x, r) == IF r \in DOMAIN from THEN CellAt(cells, cols, x, from[r]) ELSE Blank

\* A column of row y is among the cells of row r only if they are the same row.
LEMMA InRow ==
  ASSUME NEW c \in Nat, NEW r \in Nat, NEW y \in Nat, NEW x \in 0 .. c - 1
  PROVE  /\ y * c + x \in Nat /\ r * c \in Nat
         /\ r * c <= y * c + x /\ y * c + x < r * c + c <=> y = r
<1>1. y * c \in Nat /\ r * c \in Nat OBVIOUS
<1>2. y < r => y * c + c <= r * c
  <2>1. CASE y < r BY <2>1, RowFits
  <2> QED BY <2>1
<1>3. r < y => r * c + c <= y * c
  <2>1. CASE r < y BY <2>1, RowFits
  <2> QED BY <2>1
<1> QED BY <1>1, <1>2, <1>3

\* One turn either leaves the vector or finds a slice out of range.
LEMMA RowTurnType ==
  ASSUME TypeOK, NEW g \in Vector \cup {Nothing}, NEW r \in Nat, NEW from,
         r \in DOMAIN from => from[r] \in Nat
  PROVE  RowTurn(g, r, from) \in Vector \cup {Nothing}
<1>1. r * cols \in Nat /\ r * cols + cols \in Nat BY Numbers
<1>2. CASE r \in DOMAIN from
  <2>1. from[r] * cols \in Nat /\ from[r] * cols + cols \in Nat BY <1>2, Numbers
  <2>2. g \in Vector /\ InSlice(from[r] * cols, from[r] * cols + cols) =>
          CopyWithin(g, from[r] * cols, from[r] * cols + cols, r * cols) \in Vector
    BY <1>1, <2>1, CopyWithinType DEF InSlice
  <2> QED BY <1>2, <2>2 DEF RowTurn
<1>3. CASE r \notin DOMAIN from BY <1>3, FillType DEF RowTurn, Vector
<1> QED BY <1>2, <1>3

\* One turn on a row of the screen changes that row only.
LEMMA RowTurnCells ==
  ASSUME TypeOK, cols # 0, NEW g \in Vector, NEW r \in 0 .. rows - 1, NEW from,
         r \in DOMAIN from => from[r] \in 0 .. rows - 1
  PROVE  /\ RowTurn(g, r, from) \in Vector
         /\ \A x \in 0 .. cols - 1, y \in 0 .. rows - 1 :
              CellAt(RowTurn(g, r, from), cols, x, y) =
                IF y # r THEN CellAt(g, cols, x, y)
                ELSE IF r \in DOMAIN from THEN CellAt(g, cols, x, from[r]) ELSE Blank
<1> DEFINE row == r * cols
<1>1. cols \in Nat /\ rows \in Nat /\ Total \in Nat /\ g # Nothing BY Numbers
<1>2. row \in Nat /\ InSlice(row, row + cols)
  <2>1. row \in Nat /\ row + cols <= cols * rows BY <1>1, RowFits
  <2> QED BY <1>1, <2>1 DEF InSlice, Total
<1> HIDE DEF row
<1>3. CASE r \notin DOMAIN from
  <2>1. RowTurn(g, r, from) = Fill(g, row, row + cols) BY <1>1, <1>2, <1>3 DEF RowTurn, row
  <2>2. RowTurn(g, r, from) \in Vector BY <2>1, FillType DEF Vector
  <2>3. ASSUME NEW x \in 0 .. cols - 1, NEW y \in 0 .. rows - 1
        PROVE  CellAt(Fill(g, row, row + cols), cols, x, y) =
                 IF y # r THEN CellAt(g, cols, x, y) ELSE Blank
    <3>1. y * cols + x \in DOMAIN g
      <4>1. y * cols + x \in Grid(cols, rows) BY <1>1, CellOfIndex
      <4> QED BY <4>1 DEF Vector
    <3>2. row <= y * cols + x /\ y * cols + x < row + cols <=> y = r
      BY <1>1, InRow DEF row
    <3> QED BY <3>1, <3>2 DEF CellAt, Fill
  <2> QED BY <1>3, <2>1, <2>2, <2>3
<1>4. CASE r \in DOMAIN from
  <2> DEFINE source == from[r] * cols
  <2>1. source \in Nat /\ InSlice(source, source + cols)
    <3>1. source \in Nat /\ source + cols <= cols * rows BY <1>1, <1>4, RowFits
    <3> QED BY <1>1, <3>1 DEF InSlice, Total
  <2>2. RowTurn(g, r, from) = CopyWithin(g, source, source + cols, row)
    BY <1>1, <1>2, <1>4, <2>1 DEF RowTurn, row
  <2> HIDE DEF source
  <2>3. RowTurn(g, r, from) \in Vector
    <3>1. source + cols \in Nat /\ source + cols <= Total BY <1>1, <2>1 DEF InSlice
    <3> QED BY <1>2, <2>1, <2>2, <3>1, CopyWithinType
  <2>4. ASSUME NEW x \in 0 .. cols - 1, NEW y \in 0 .. rows - 1
        PROVE  CellAt(CopyWithin(g, source, source + cols, row), cols, x, y) =
                 IF y # r THEN CellAt(g, cols, x, y) ELSE CellAt(g, cols, x, from[r])
    <3> DEFINE i == y * cols + x
    <3>1. i \in DOMAIN g
      <4>1. i \in Grid(cols, rows) BY <1>1, CellOfIndex
      <4> QED BY <4>1 DEF Vector
    <3>2. i \in Nat /\ (row <= i /\ i < row + cols <=> y = r) BY <1>1, InRow DEF row
    <3>3. y = r => i = row + x BY DEF row
    <3> HIDE DEF i
    <3>4. CopyWithin(g, source, source + cols, row)[i] =
            IF row <= i /\ i < row + cols THEN g[source + (i - row)] ELSE g[i]
      <4>1. row \in Nat /\ source \in Nat /\ cols \in Nat BY <1>1, <1>2, <2>1
      <4> HIDE DEF row, source
      <4> QED BY <3>1, <3>2, <4>1, CopyRowAt
    <3>5. y = r => source + (i - row) = from[r] * cols + x
      BY <1>2, <2>1, <3>3 DEF source
    <3> QED BY <3>2, <3>4, <3>5 DEF CellAt, i
  <2> QED BY <1>4, <2>2, <2>3, <2>4
<1> QED BY <1>3, <1>4

\* The loop keeps the vector or finds a slice out of range, and each turn builds on
\* the one before.
LEMMA RowLoopSteps ==
  ASSUME TypeOK, NEW order \in Seq(Nat), NEW from, \A r \in DOMAIN from : from[r] \in Nat
  PROVE  LET turn == RowLoop(order, from)
         IN  /\ turn \in [0 .. Len(order) -> Vector \cup {Nothing}]
             /\ turn[0] = cells
             /\ \A k \in 1 .. Len(order) : turn[k] = RowTurn(turn[k - 1], order[k], from)
<1> DEFINE m == Len(order)
           D == Vector \cup {Nothing}
           step == [p \in (1 .. m) \X D |-> RowTurn(p[2], order[p[1]], from)]
           Is(g) == g = [k \in 0 .. m |->
                           IF k = 0 THEN cells ELSE RowTurn(g[k - 1], order[k], from)]
<1>1. m \in Nat /\ \A k \in 1 .. m : order[k] \in Nat OBVIOUS
<1>2. cells \in D BY Numbers
<1>3. step \in Steps(1 .. m, D)
  <2>1. ASSUME NEW k \in 1 .. m, NEW g \in D PROVE RowTurn(g, order[k], from) \in D
    BY <1>1, RowTurnType
  <2> QED BY <2>1 DEF Steps
<1>4. \A k \in 1 .. m, g \in D : step[<<k, g>>] = RowTurn(g, order[k], from) OBVIOUS
<1>5. PICK f \in [0 .. m -> D] : Follows(f, m, cells, step)
  <2> HIDE DEF m, D, step
  <2> QED BY <1>1, <1>2, <1>3, Following
<1>6. \A k \in 1 .. m : f[k] = RowTurn(f[k - 1], order[k], from)
  <2> SUFFICES ASSUME NEW k \in 1 .. m PROVE f[k] = RowTurn(f[k - 1], order[k], from) OBVIOUS
  <2>1. f[k] = step[<<k, f[k - 1]>>] BY <1>5 DEF Follows
  <2>2. f[k - 1] \in D
    <3> HIDE DEF m, D
    <3> QED BY <1>1, <1>5
  <2> HIDE DEF D, step
  <2> QED BY <1>4, <2>1, <2>2
<1>7. Is(f)
  <2> HIDE DEF D, step
  <2>1. f[0] = cells BY <1>5 DEF Follows
  <2> QED BY <1>5, <1>6, <2>1
<1>8. RowLoop(order, from) = CHOOSE g : Is(g) BY DEF RowLoop
<1>9. Is(RowLoop(order, from)) BY <1>7, <1>8
<1> DEFINE turn == RowLoop(order, from)
<1>10. turn[0] = cells /\ \A k \in 1 .. m : turn[k] = RowTurn(turn[k - 1], order[k], from)
  BY <1>1, <1>9
<1>11. \A k \in 0 .. m : turn[k] \in D
  <2> DEFINE S == {k \in 0 .. m : turn[k] \in D}
  <2>1. 0 \in S BY <1>1, <1>2, <1>10
  <2>2. ASSUME NEW k \in 0 .. m - 1, k \in S PROVE k + 1 \in S
    <3>1. k + 1 \in 1 .. m /\ (k + 1) - 1 = k /\ k + 1 \in 0 .. m BY <1>1
    <3>2. turn[k + 1] = RowTurn(turn[k], order[k + 1], from) BY <1>10, <3>1
    <3>3. turn[k] \in D BY <2>2
    <3> HIDE DEF turn
    <3>4. RowTurn(turn[k], order[k + 1], from) \in D BY <1>1, <3>1, <3>3, RowTurnType
    <3> QED BY <3>1, <3>2, <3>4
  <2>3. 0 .. m \subseteq S
    <3> HIDE DEF S, m
    <3> QED BY <1>1, <2>1, <2>2, InductionTo
  <2> QED BY <2>3
<1>12. turn \in [0 .. m -> D] BY <1>9, <1>11
<1> QED BY <1>10, <1>12

\* An orderly loop does to every row of order what its turn is for, and leaves the
\* others alone.
LEMMA LoopMovesRows ==
  ASSUME TypeOK, cols # 0, NEW order \in Seq(Nat), NEW from,
         \A r \in DOMAIN from : from[r] \in Nat, Orderly(order, from)
  PROVE  /\ Scrolled(order, from) \in Vector
         /\ \A x \in 0 .. cols - 1, y \in 0 .. rows - 1 :
              CellAt(Scrolled(order, from), cols, x, y) =
                IF \E k \in 1 .. Len(order) : order[k] = y THEN RowSource(from, x, y)
                ELSE CellAt(cells, cols, x, y)
<1> DEFINE m == Len(order)
           turn == RowLoop(order, from)
           Shows(k, x, y) ==
             IF \E j \in 1 .. k : order[j] = y THEN RowSource(from, x, y)
             ELSE CellAt(cells, cols, x, y)
           Good(k) == /\ turn[k] \in Vector
                      /\ \A x \in 0 .. cols - 1, y \in 0 .. rows - 1 :
                           CellAt(turn[k], cols, x, y) = Shows(k, x, y)
           S == {k \in 0 .. m : Good(k)}
<1>1. m \in Nat /\ \A k \in 1 .. m : order[k] \in Nat OBVIOUS
<1>2. turn[0] = cells /\ \A k \in 1 .. m : turn[k] = RowTurn(turn[k - 1], order[k], from)
  BY RowLoopSteps
<1> HIDE DEF turn
<1>3. 0 \in S
  <2>1. Good(0) BY <1>2, Numbers
  <2> QED BY <1>1, <2>1
<1>4. ASSUME NEW k \in 0 .. m - 1, k \in S PROVE k + 1 \in S
  <2> DEFINE r == order[k + 1]
             g == turn[k]
  <2>1. k + 1 \in 1 .. m /\ (k + 1) - 1 = k /\ k + 1 \in 0 .. m BY <1>1
  <2>2. turn[k + 1] = RowTurn(g, r, from) BY <1>2, <2>1
  <2>3. g \in Vector BY <1>4
  <2>4. r \in 0 .. rows - 1
    <3>1. order[k + 1] \in Nat BY <1>1, <2>1
    <3>2. order[k + 1] < rows BY <2>1 DEF Orderly
    <3>3. rows \in Nat BY Numbers
    <3> HIDE DEF r
    <3>4. r \in Nat /\ r < rows BY <3>1, <3>2 DEF r
    <3> QED BY <3>3, <3>4
  <2>5. r \in DOMAIN from => from[r] \in 0 .. rows - 1
    <3>1. r \in DOMAIN from => from[r] \in Nat OBVIOUS
    <3>2. order[k + 1] \in DOMAIN from => from[order[k + 1]] < rows BY <2>1 DEF Orderly
    <3> HIDE DEF r
    <3>3. r \in DOMAIN from => from[r] < rows BY <3>2 DEF r
    <3> QED BY <3>1, <3>3, Numbers
  <2>6. ASSUME NEW x \in 0 .. cols - 1, NEW y \in 0 .. rows - 1
        PROVE  CellAt(g, cols, x, y) = Shows(k, x, y)
    BY <1>4
  <2>7. /\ turn[k + 1] \in Vector
        /\ \A x \in 0 .. cols - 1, y \in 0 .. rows - 1 :
             CellAt(turn[k + 1], cols, x, y) =
               IF y # r THEN CellAt(g, cols, x, y)
               ELSE IF r \in DOMAIN from THEN CellAt(g, cols, x, from[r]) ELSE Blank
    <3> HIDE DEF r, g
    <3> QED BY <2>2, <2>3, <2>4, <2>5, RowTurnCells
  <2>8. ASSUME NEW x \in 0 .. cols - 1, NEW y \in 0 .. rows - 1
        PROVE  CellAt(turn[k + 1], cols, x, y) = Shows(k + 1, x, y)
    <3>1. CASE y # r
      <4>1. (\E j \in 1 .. k + 1 : order[j] = y) <=> \E j \in 1 .. k : order[j] = y
        BY <2>1, <3>1
      <4>2. CellAt(turn[k + 1], cols, x, y) = CellAt(g, cols, x, y) BY <2>7, <3>1
      <4> QED BY <2>6, <4>1, <4>2
    <3>2. CASE y = r
      <4>1. \E j \in 1 .. k + 1 : order[j] = y BY <2>1, <3>2
      <4>2. CASE r \in DOMAIN from
        <5>1. ~\E j \in 1 .. k : order[j] = from[r]
          <6>1. \A j \in 1 .. k : j \in 1 .. m /\ j < k + 1 BY <1>1
          <6> QED BY <2>1, <4>2, <6>1 DEF Orderly
        <5>2. CellAt(g, cols, x, from[r]) = CellAt(cells, cols, x, from[r])
          BY <2>5, <2>6, <4>2, <5>1
        <5>3. CellAt(turn[k + 1], cols, x, y) = CellAt(g, cols, x, from[r])
          BY <2>7, <3>2, <4>2
        <5> QED BY <3>2, <4>1, <4>2, <5>2, <5>3 DEF RowSource
      <4>3. CASE r \notin DOMAIN from
        <5>1. CellAt(turn[k + 1], cols, x, y) = Blank BY <2>7, <3>2, <4>3
        <5> QED BY <3>2, <4>1, <4>3, <5>1 DEF RowSource
      <4> QED BY <4>2, <4>3
    <3> QED BY <3>1, <3>2
  <2> QED BY <2>1, <2>7, <2>8
<1>5. 0 .. m \subseteq S
  <2> HIDE DEF S, m
  <2> QED BY <1>1, <1>3, <1>4, InductionTo
<1>6. Good(m) BY <1>1, <1>5
<1> QED BY <1>6 DEF Scrolled, turn

\* The two loops over rows t..b.
LEMMA Loops ==
  ASSUME NEW t \in Nat, NEW b \in Nat, NEW n \in Nat \ {0}, t <= b
  PROVE  /\ Ascending(t, b) \in Seq(Nat) /\ Descending(t, b) \in Seq(Nat)
         /\ Len(Ascending(t, b)) = b - t + 1 /\ Len(Descending(t, b)) = b - t + 1
         /\ \A k \in 1 .. b - t + 1 : Ascending(t, b)[k] = t + k - 1 /\ Descending(t, b)[k] = b - k + 1
         /\ \A r \in Nat : (\E k \in 1 .. b - t + 1 : t + k - 1 = r) <=> t <= r /\ r <= b
         /\ \A r \in Nat : (\E k \in 1 .. b - t + 1 : b - k + 1 = r) <=> t <= r /\ r <= b
<1>1. b - t + 1 \in Nat OBVIOUS
<1>2. \A k \in 1 .. b - t + 1 : t + k - 1 \in Nat /\ b - k + 1 \in Nat OBVIOUS
<1>3. Ascending(t, b) \in [1 .. b - t + 1 -> Nat] /\ Descending(t, b) \in [1 .. b - t + 1 -> Nat]
  BY <1>2 DEF Ascending, Descending
<1>4. ASSUME NEW r \in Nat, t <= r, r <= b
      PROVE  /\ \E k \in 1 .. b - t + 1 : t + k - 1 = r
             /\ \E k \in 1 .. b - t + 1 : b - k + 1 = r
  <2>1. r - t + 1 \in 1 .. b - t + 1 /\ t + (r - t + 1) - 1 = r BY <1>4
  <2>2. b - r + 1 \in 1 .. b - t + 1 /\ b - (b - r + 1) + 1 = r BY <1>4
  <2> QED BY <2>1, <2>2
<1> QED BY <1>1, <1>3, <1>4 DEF Ascending, Descending

\* What the scroll functions leave: a vector, or a slice was out of range.
LEMMA ScrolledType ==
  ASSUME TypeOK, NEW t \in Nat, NEW b \in Nat, NEW n \in Nat
  PROVE  /\ ScrolledUp(t, b, n) \in Vector \cup {Nothing}
         /\ ScrolledDown(t, b, n) \in Vector \cup {Nothing}
<1>1. CASE n = 0 \/ t > b BY <1>1, Numbers DEF ScrolledUp, ScrolledDown
<1>2. CASE ~(n = 0 \/ t > b)
  <2>1. /\ \A r \in DOMAIN SourcesBelow(t, b, n) : SourcesBelow(t, b, n)[r] \in Nat
        /\ \A r \in DOMAIN SourcesAbove(t, b, n) : SourcesAbove(t, b, n)[r] \in Nat
    BY DEF SourcesBelow, SourcesAbove
  <2>2. ASSUME NEW order \in Seq(Nat), NEW from, \A r \in DOMAIN from : from[r] \in Nat
        PROVE  Scrolled(order, from) \in Vector \cup {Nothing}
    <3>1. Len(order) \in 0 .. Len(order) OBVIOUS
    <3>2. RowLoop(order, from) \in [0 .. Len(order) -> Vector \cup {Nothing}]
      BY <2>2, RowLoopSteps
    <3> QED BY <3>1, <3>2 DEF Scrolled
  <2>3. Ascending(t, b) \in Seq(Nat) /\ Descending(t, b) \in Seq(Nat) BY <1>2, Loops
  <2> QED BY <1>2, <2>1, <2>2, <2>3 DEF ScrolledUp, ScrolledDown
<1> QED BY <1>1, <1>2

\* Scrolling rows of the screen up or down, row by row.
LEMMA ScrolledRows ==
  ASSUME TypeOK, cols # 0, NEW t \in Nat, NEW b \in Nat, NEW n \in Nat \ {0}, t <= b, b < rows
  PROVE  /\ ScrolledUp(t, b, n) \in Vector /\ ScrolledDown(t, b, n) \in Vector
         /\ \A x \in 0 .. cols - 1, r \in 0 .. rows - 1 :
              /\ CellAt(ScrolledUp(t, b, n), cols, x, r) =
                   IF r \in t .. b /\ r + n \in t .. b THEN CellAt(cells, cols, x, r + n)
                   ELSE IF r \in t .. b THEN Blank ELSE CellAt(cells, cols, x, r)
              /\ CellAt(ScrolledDown(t, b, n), cols, x, r) =
                   IF r \in t .. b /\ r >= t + n THEN CellAt(cells, cols, x, r - n)
                   ELSE IF r \in t .. b THEN Blank ELSE CellAt(cells, cols, x, r)
<1> DEFINE up == Ascending(t, b)
           down == Descending(t, b)
           below == SourcesBelow(t, b, n)
           above == SourcesAbove(t, b, n)
           m == b - t + 1
<1>0. rows \in Nat /\ m \in Nat BY Numbers
<1>1. /\ up \in Seq(Nat) /\ down \in Seq(Nat) /\ Len(up) = m /\ Len(down) = m
      /\ \A k \in 1 .. m : up[k] = t + k - 1 /\ down[k] = b - k + 1
      /\ \A r \in Nat : (\E k \in 1 .. m : t + k - 1 = r) <=> t <= r /\ r <= b
      /\ \A r \in Nat : (\E k \in 1 .. m : b - k + 1 = r) <=> t <= r /\ r <= b
  BY Loops
<1>2. /\ DOMAIN below = {r \in t .. b : r + n <= b} /\ \A r \in DOMAIN below : below[r] = r + n
      /\ DOMAIN above = {r \in t .. b : r >= t + n} /\ \A r \in DOMAIN above : above[r] = r - n
  BY DEF SourcesBelow, SourcesAbove
<1>3. /\ ScrolledUp(t, b, n) = Scrolled(up, below)
      /\ ScrolledDown(t, b, n) = Scrolled(down, above)
  BY DEF ScrolledUp, ScrolledDown
<1> HIDE DEF up, down, below, above, m
<1>4. /\ \A r \in DOMAIN below : below[r] \in Nat
      /\ \A r \in DOMAIN above : above[r] \in Nat
  BY <1>2
<1>5. Orderly(up, below)
  <2>1. \A k \in 1 .. m : up[k] < rows BY <1>0, <1>1 DEF m
  <2>2. \A j, k \in 1 .. m : up[j] = up[k] => j = k BY <1>0, <1>1
  <2>3. \A k \in 1 .. m : up[k] \in DOMAIN below => below[up[k]] < rows
    BY <1>0, <1>2
  <2>4. ASSUME NEW j \in 1 .. m, NEW k \in 1 .. m, j < k, up[k] \in DOMAIN below
        PROVE  below[up[k]] # up[j]
    <3>1. below[up[k]] = up[k] + n BY <1>2, <2>4
    <3>2. up[k] = t + k - 1 /\ up[j] = t + j - 1 BY <1>1
    <3> QED BY <1>0, <2>4, <3>1, <3>2
  <2> QED BY <1>1, <2>1, <2>2, <2>3, <2>4 DEF Orderly
<1>6. Orderly(down, above)
  <2>1. \A k \in 1 .. m : down[k] < rows BY <1>0, <1>1 DEF m
  <2>2. \A j, k \in 1 .. m : down[j] = down[k] => j = k BY <1>0, <1>1
  <2>3. \A k \in 1 .. m : down[k] \in DOMAIN above => above[down[k]] < rows
    BY <1>0, <1>2
  <2>4. ASSUME NEW j \in 1 .. m, NEW k \in 1 .. m, j < k, down[k] \in DOMAIN above
        PROVE  above[down[k]] # down[j]
    <3>1. above[down[k]] = down[k] - n BY <1>2, <2>4
    <3>2. down[k] = b - k + 1 /\ down[j] = b - j + 1 BY <1>1
    <3> QED BY <1>0, <2>4, <3>1, <3>2
  <2> QED BY <1>1, <2>1, <2>2, <2>3, <2>4 DEF Orderly
<1>7. /\ Scrolled(up, below) \in Vector
      /\ \A x \in 0 .. cols - 1, r \in 0 .. rows - 1 :
           CellAt(Scrolled(up, below), cols, x, r) =
             IF \E k \in 1 .. Len(up) : up[k] = r THEN RowSource(below, x, r)
             ELSE CellAt(cells, cols, x, r)
  BY <1>1, <1>4, <1>5, LoopMovesRows
<1>8. /\ Scrolled(down, above) \in Vector
      /\ \A x \in 0 .. cols - 1, r \in 0 .. rows - 1 :
           CellAt(Scrolled(down, above), cols, x, r) =
             IF \E k \in 1 .. Len(down) : down[k] = r THEN RowSource(above, x, r)
             ELSE CellAt(cells, cols, x, r)
  BY <1>1, <1>4, <1>6, LoopMovesRows
<1>9. ASSUME NEW x \in 0 .. cols - 1, NEW r \in 0 .. rows - 1
      PROVE  /\ CellAt(Scrolled(up, below), cols, x, r) =
                  IF r \in t .. b /\ r + n \in t .. b THEN CellAt(cells, cols, x, r + n)
                  ELSE IF r \in t .. b THEN Blank ELSE CellAt(cells, cols, x, r)
             /\ CellAt(Scrolled(down, above), cols, x, r) =
                  IF r \in t .. b /\ r >= t + n THEN CellAt(cells, cols, x, r - n)
                  ELSE IF r \in t .. b THEN Blank ELSE CellAt(cells, cols, x, r)
  <2>1. r \in Nat BY <1>0
  <2>2. (\E k \in 1 .. Len(up) : up[k] = r) <=> t <= r /\ r <= b BY <1>1, <2>1
  <2>3. (\E k \in 1 .. Len(down) : down[k] = r) <=> t <= r /\ r <= b
    <3>1. Len(down) = m /\ \A k \in 1 .. m : down[k] = b - k + 1 BY <1>1
    <3>2. (\E k \in 1 .. m : b - k + 1 = r) <=> t <= r /\ r <= b BY <1>1, <2>1
    <3>3. (\E k \in 1 .. m : down[k] = r) <=> \E k \in 1 .. m : b - k + 1 = r BY <3>1
    <3> QED BY <3>1, <3>2, <3>3
  <2>4. t <= r /\ r <= b /\ r + n <= b =>
          r \in DOMAIN below /\ below[r] = r + n BY <1>2, <2>1
  <2>5. ~(r + n <= b) => r \notin DOMAIN below BY <1>2, <2>1
  <2>6. t <= r /\ r <= b /\ r >= t + n =>
          r \in DOMAIN above /\ above[r] = r - n BY <1>2, <2>1
  <2>7. ~(r >= t + n) => r \notin DOMAIN above BY <1>2, <2>1
  <2>8. /\ r \in t .. b <=> t <= r /\ r <= b
        /\ r \in t .. b => (r + n \in t .. b <=> r + n <= b)
    BY <2>1
  <2> QED BY <1>7, <1>8, <2>2, <2>3, <2>4, <2>5, <2>6, <2>7, <2>8 DEF RowSource
<1> QED BY <1>3, <1>7, <1>8, <1>9

\* Scrolling a range of rows of the vector finds every slice in range.
LEMMA ScrollsInRange ==
  ASSUME TypeOK, NEW t \in Nat, NEW b \in Nat, NEW n \in Nat \ {0}, Total # 0, RowsInRange(t, b)
  PROVE  ScrolledUp(t, b, n) \in Vector /\ ScrolledDown(t, b, n) \in Vector
<1>1. CASE t > b BY <1>1, Numbers DEF ScrolledUp, ScrolledDown
<1>2. CASE ~(t > b)
  <2>1. cols \in Nat \ {0} /\ rows \in Nat BY Numbers DEF Total
  <2>2. (b + 1) * cols <= cols * rows BY <1>2 DEF RowsInRange, Total
  <2>3. b < rows
    <3>1. CASE b >= rows
      <4>1. rows * cols + cols <= cols * (b + 1) BY <2>1, <3>1, RowFits
      <4>2. rows * cols = cols * rows /\ cols * (b + 1) = (b + 1) * cols /\ cols * rows \in Nat
        BY <2>1
      <4> QED BY <2>1, <2>2, <4>1, <4>2
    <3> QED BY <2>1, <3>1
  <2> QED BY <1>2, <2>1, <2>3, ScrolledRows
<1> QED BY <1>1, <1>2

-----------------------------------------------------------------------------
(* What any step that is fed and does not switch screens does.             *)

Fed ==
  /\ TypeOK'
  /\ size' = size /\ alt' = alt
  /\ panicked' => (Total = 0 \/ Outside) /\ cursor' = cursor
  /\ ~Outside /\ Outside' => cursor' = saved

\* A panic is a step of this kind where one may happen.
LEMMA PanicFed ==
  ASSUME TypeOK, Panic, Total = 0 \/ Outside
  PROVE  Fed
<1> USE DEF Panic, size, cursor, region
<1>1. TypeOK' BY DEF TypeOK, LastRow, Minus
<1> QED BY <1>1 DEF Fed, Outside, Total, LastRow

\* So is an edit of the cells that fails only there.
LEMMA SetCellsFed ==
  ASSUME TypeOK, ~panicked, NEW g \in Vector \cup {Nothing}, SetCells(g),
         g = Nothing => Total = 0 \/ Outside
  PROVE  Fed
<1>1. CASE g = Nothing BY <1>1, PanicFed DEF SetCells
<1>2. CASE g # Nothing
  <2> USE <1>2 DEF SetCells, size, cursor, region
  <2>1. cells' \in Vector BY DEF Vector
  <2>2. TypeOK' BY <2>1 DEF TypeOK, LastRow, Minus, Vector
  <2> QED BY <2>2 DEF Fed, Outside, Total, LastRow
<1> QED BY <1>1, <1>2

\* And a move of the cursor that stays beside the grid or goes where it was saved.
LEMMA MoveToFed ==
  ASSUME TypeOK, ~panicked, NEW x \in U16s, NEW y \in U16s, MoveTo(x, y),
         ~Outside /\ Total # 0 => (x <= cols /\ y <= LastRow) \/ <<x, y>> = saved
  PROVE  Fed
<1> USE DEF MoveTo, size, region
<1>1. TypeOK' BY DEF TypeOK, LastRow, Minus
<1>2. Total' = Total /\ LastRow' = LastRow /\ cols' = cols BY DEF Total, LastRow, Minus
<1>3. cursor' = <<x, y>> BY DEF cursor
<1>4. ASSUME ~Outside, Outside' PROVE cursor' = saved
  <2>1. Total # 0 /\ ~(x <= cols /\ y <= LastRow)
    <3>1. Total > 0 /\ (y > LastRow \/ x > cols) BY <1>2, <1>4 DEF Outside
    <3>2. LastRow \in Nat BY Numbers DEF LastRow, Minus
    <3>3. x \in Nat /\ y \in Nat BY Numbers DEF U16s
    <3> QED BY <3>1, <3>2, <3>3, Numbers
  <2> QED BY <1>3, <1>4, <2>1
<1> QED BY <1>1, <1>4 DEF Fed

-----------------------------------------------------------------------------
(* The control functions, one by one.                                      *)

\* What a count is when none is given.
LEMMA ParamType ==
  ASSUME NEW n \in U16s, NEW d \in U16s
  PROVE  Param(n, d) \in U16s
BY DEF Param

\* Numbers that keep a cursor on the screen.
LEMMA Kept ==
  ASSUME TypeOK
  PROVE  /\ 0 \in U16s /\ 1 \in U16s /\ cx \in U16s /\ cy \in U16s
         /\ LastCol \in U16s /\ LastRow \in U16s
         /\ LastCol <= cols /\ (rows # 0 => LastRow < rows)
         /\ \A x \in U16s, n \in Nat : Minus(x, n) \in U16s /\ Minus(x, n) <= x
         /\ \A x \in Nat : Least(x, LastCol) \in U16s /\ Least(x, LastCol) <= LastCol
         /\ \A x \in Nat : Least(x, LastRow) \in U16s /\ Least(x, LastRow) <= LastRow
<1>1. cols \in U16s /\ rows \in U16s /\ cx \in U16s /\ cy \in U16s BY DEF TypeOK
<1>2. \A x \in U16s, n \in Nat : Minus(x, n) \in U16s /\ Minus(x, n) <= x
  BY Numbers DEF Minus, U16s
<1>3. 0 \in U16s /\ 1 \in U16s BY Numbers DEF U16s
<1>4. LastCol \in U16s /\ LastRow \in U16s BY <1>1, <1>2 DEF LastCol, LastRow
<1>5. LastCol <= cols /\ (rows # 0 => LastRow < rows) BY Numbers DEF LastCol, LastRow, Minus
<1>6. \A k \in U16s, x \in Nat : Least(x, k) \in U16s /\ Least(x, k) <= k
  BY Numbers DEF Least, U16s
<1> QED BY <1>1, <1>2, <1>3, <1>4, <1>5, <1>6

\* Arithmetic on u16 stays there.
LEMMA PlusType ==
  ASSUME TypeOK, NEW a \in U16s, NEW b \in U16s
  PROVE  Plus(a, b) \in U16s /\ Plus(a, b) \in Nat
<1>1. a + b \in Nat /\ U16 \in Nat \ {0} BY Numbers DEF U16s
<1>2. (a + b) % U16 \in 0 .. U16 - 1 BY <1>1
<1> QED BY <1>2, Numbers DEF Plus, U16s

\* The cursor moves within the screen, or as far as it was outside.
LEMMA MovesFed ==
  ASSUME TypeOK, ~panicked, NEW n \in U16s, NEW m \in U16s,
         \/ CursorUp(n) \/ CursorDown(n) \/ CursorForward(n) \/ CursorBackward(n)
         \/ NextLine(n) \/ PreviousLine(n) \/ ToColumn(n) \/ ToRow(n)
         \/ ToPosition(n, m) \/ CarriageReturn \/ Backspace \/ Tab
  PROVE  Fed
<1> DEFINE p == Param(n, 1)
<1>1. p \in U16s /\ p \in Nat /\ Param(m, 1) \in U16s
  BY ParamType, Kept, Numbers DEF U16s
<1> HIDE DEF p
<1>2. /\ Minus(p, 1) \in Nat /\ Minus(Param(m, 1), 1) \in Nat
      /\ Plus(cy, p) \in Nat /\ Plus(cx, p) \in Nat
  BY <1>1, Kept, PlusType, Numbers DEF U16s
<1>3. ~Outside /\ Total # 0 => cx <= cols /\ cy <= LastRow
  <2>1. Total \in Nat /\ LastRow \in Nat BY Numbers DEF LastRow, Minus
  <2> QED BY <2>1, Numbers DEF Outside
<1>4. ASSUME NEW x \in U16s, NEW y \in U16s, x <= cx \/ x <= LastCol, y <= cy \/ y <= LastRow,
             MoveTo(x, y)
      PROVE  Fed
  <2>1. ~Outside /\ Total # 0 => x <= cols /\ y <= LastRow
    <3>1. x \in Nat /\ y \in Nat /\ LastCol \in Nat /\ LastRow \in Nat BY Kept, Numbers DEF U16s
    <3> QED BY <1>3, <1>4, <3>1, Kept, Numbers
  <2> QED BY <1>4, <2>1, MoveToFed
<1>5. ASSUME NEW y \in U16s, y <= cy \/ y <= LastRow, MoveTo(cx, y) PROVE Fed
  <2>1. cx \in U16s /\ cx <= cx BY Kept, Numbers
  <2> QED BY <1>4, <1>5, <2>1
<1>6. ASSUME NEW x \in U16s, x <= cx \/ x <= LastCol, MoveTo(x, cy) PROVE Fed
  <2>1. cy \in U16s /\ cy <= cy BY Kept, Numbers
  <2> QED BY <1>4, <1>6, <2>1
<1>7. 0 <= cx BY Numbers
<1>8. CASE CursorUp(n) \/ CursorDown(n) \/ ToRow(n)
  BY <1>1, <1>2, <1>5, <1>8, Kept DEF CursorUp, CursorDown, ToRow, p
<1>9. CASE CursorForward(n) \/ CursorBackward(n) \/ ToColumn(n)
  BY <1>1, <1>2, <1>6, <1>9, Kept DEF CursorForward, CursorBackward, ToColumn, p
<1>10. CASE NextLine(n) \/ PreviousLine(n)
  BY <1>1, <1>2, <1>4, <1>7, <1>10, Kept DEF NextLine, PreviousLine, p
<1>11. CASE ToPosition(n, m)
  BY <1>2, <1>4, <1>11, Kept DEF ToPosition, p
<1>12. CASE CarriageReturn \/ Backspace
  BY <1>6, <1>7, <1>12, Kept DEF CarriageReturn, Backspace
<1>13. CASE Tab
  <2>1. ((cx \div TabWidth + 1) * TabWidth) % U16 \in Nat
    <3>1. cx \div TabWidth \in Nat BY Numbers
    <3>2. (cx \div TabWidth + 1) * TabWidth \in Nat BY <3>1, Numbers
    <3> QED BY <3>2, Numbers
  <2> QED BY <1>6, <1>13, <2>1, Kept DEF Tab, LastCol
<1> QED BY <1>8, <1>9, <1>10, <1>11, <1>12, <1>13

\* Scrolling keeps the vector and panics only without cells or with the cursor
\* outside; the rows t..b start where they please.
LEMMA ScrollsFed ==
  ASSUME TypeOK, ~panicked, NEW t \in Nat, NEW n \in Nat \ {0},
         ScrollUp(t, bottom, n) \/ ScrollDown(t, bottom, n)
  PROVE  Fed
<1>1. Total # 0 => RowsInRange(t, bottom) BY BottomFits DEF RowsInRange
<1>2. bottom \in Nat /\ Nothing \notin Vector BY Numbers
<1>3. CASE ScrollUp(t, bottom, n)
  <2> DEFINE g == ScrolledUp(t, bottom, n)
  <2>1. g \in Vector \cup {Nothing} BY <1>2, ScrolledType
  <2>2. g = Nothing => Total = 0 BY <1>1, <1>2, ScrollsInRange
  <2>3. SetCells(g) BY <1>3 DEF ScrollUp
  <2> HIDE DEF g
  <2> QED BY <2>1, <2>2, <2>3, SetCellsFed
<1>4. CASE ScrollDown(t, bottom, n)
  <2> DEFINE g == ScrolledDown(t, bottom, n)
  <2>1. g \in Vector \cup {Nothing} BY <1>2, ScrolledType
  <2>2. g = Nothing => Total = 0 BY <1>1, <1>2, ScrollsInRange
  <2>3. SetCells(g) BY <1>4 DEF ScrollDown
  <2> HIDE DEF g
  <2> QED BY <2>1, <2>2, <2>3, SetCellsFed
<1> QED BY <1>3, <1>4

LEMMA LineEditsFed ==
  ASSUME TypeOK, ~panicked, NEW n \in U16s,
         InsertLines(n) \/ DeleteLines(n) \/ ScrollRegionUp(n) \/ ScrollRegionDown(n)
  PROVE  Fed
<1>1. Param(n, 1) \in Nat \ {0} BY Numbers DEF Param, U16s
<1>2. cy \in Nat /\ top \in Nat BY Numbers
<1> QED BY <1>1, <1>2, ScrollsFed DEF InsertLines, DeleteLines, ScrollRegionUp, ScrollRegionDown

\* Erasing from lo to hi fails only if the range is empty or beyond the vector.
LEMMA ErasedFails ==
  ASSUME TypeOK, NEW lo, NEW hi, Erased(lo, hi) = Nothing
  PROVE  ~InSlice(lo, hi)
BY Numbers, FillType DEF Erased, Vector

LEMMA ErasuresFed ==
  ASSUME TypeOK, ~panicked, NEW n \in U16s, EraseInDisplay(n) \/ EraseInLine(n) \/ EraseChars(n)
  PROVE  Fed
<1>1. cells \in Vector /\ cells # Nothing BY Numbers
<1>2. CASE EraseInDisplay(n)
  <2>1. ErasedInDisplay(n) \in Vector \cup {Nothing} BY <1>1, ErasedType DEF ErasedInDisplay
  <2>2. ASSUME Total # 0, ~Outside PROVE ErasedInDisplay(n) # Nothing
    <3>1. InSlice(Here, Total) /\ InSlice(0, Least(Here + 1, Total)) /\ InSlice(0, Total)
      BY <2>2, InsideFits, Numbers DEF InSlice, Least
    <3> QED BY <1>1, <3>1, ErasedFails DEF ErasedInDisplay
  <2> QED BY <1>2, <2>1, <2>2, SetCellsFed DEF EraseInDisplay
<1>3. CASE EraseInLine(n)
  <2>1. ErasedInLine(n) \in Vector \cup {Nothing} BY <1>1, ErasedType DEF ErasedInLine
  <2>2. ASSUME Total # 0, ~Outside PROVE ErasedInLine(n) # Nothing
    <3>1. /\ InSlice(Here, Least(RowStart + cols, Total))
          /\ InSlice(RowStart, Least(Here + 1, Total))
          /\ InSlice(RowStart, Least(RowStart + cols, Total))
      BY <2>2, InsideFits, Numbers DEF InSlice, Least
    <3> QED BY <1>1, <3>1, ErasedFails DEF ErasedInLine
  <2> QED BY <1>3, <2>1, <2>2, SetCellsFed DEF EraseInLine
<1>4. CASE EraseChars(n)
  <2>1. ErasedChars(n) \in Vector \cup {Nothing} BY ErasedType DEF ErasedChars
  <2>2. ASSUME Total # 0, ~Outside PROVE ErasedChars(n) # Nothing
    <3>1. Param(n, 1) \in Nat BY ParamType, Kept, Numbers DEF U16s
    <3>2. InSlice(Here, Least(RowStart + Least(cx + Param(n, 1), cols), Total))
      BY <2>2, <3>1, InsideFits, Numbers DEF InSlice, Least
    <3> QED BY <3>2, ErasedFails DEF ErasedChars
  <2> QED BY <1>4, <2>1, <2>2, SetCellsFed DEF EraseChars
<1> QED BY <1>2, <1>3, <1>4

\* DeletedIf and InsertedChars copy within the line.
LEMMA DeletedCharsType ==
  ASSUME TypeOK, NEW n \in U16s
  PROVE  /\ DeletedChars(n) \in Vector \cup {Nothing}
         /\ Total # 0 /\ ~Outside => DeletedChars(n) # Nothing
<1> DEFINE p == Param(n, 1)
<1>1. p \in Nat BY ParamType, Kept, Numbers DEF U16s
<1>2. DeletedChars(n) = DeletedIf(p, cx + p < cols) BY DEF DeletedChars
<1> HIDE DEF p
<1>3. CASE cx + p < cols
  <2>1. ASSUME Here + p <= LineEnd, LineEnd <= Total
        PROVE  Fill(CopyWithin(cells, Here + p, LineEnd, Here), LineEnd - p, LineEnd) \in Vector
    <3>1. CopyWithin(cells, Here + p, LineEnd, Here) \in Vector
      BY <1>1, <2>1, Numbers, CopyWithinType
    <3> QED BY <3>1, FillType DEF Vector
  <2>2. DeletedChars(n) =
          IF Here + p <= LineEnd /\ LineEnd <= Total
            THEN Fill(CopyWithin(cells, Here + p, LineEnd, Here), LineEnd - p, LineEnd)
            ELSE Nothing
    BY <1>2, <1>3 DEF DeletedIf
  <2>3. Total # 0 /\ ~Outside => Here + p <= LineEnd /\ LineEnd <= Total
    BY <1>1, <1>3, InsideFits, Numbers
  <2> QED BY <2>1, <2>2, <2>3, Numbers
<1>4. CASE ~(cx + p < cols)
  <2>1. DeletedChars(n) = Erased(Here, LineEnd) BY <1>2, <1>4 DEF DeletedIf
  <2>2. Total # 0 /\ ~Outside => InSlice(Here, LineEnd) BY InsideFits DEF InSlice
  <2> QED BY <2>1, <2>2, ErasedType, ErasedFails
<1> QED BY <1>3, <1>4

LEMMA InsertedCharsType ==
  ASSUME TypeOK, NEW n \in U16s
  PROVE  /\ InsertedChars(n) \in Vector \cup {Nothing}
         /\ Total # 0 /\ ~Outside => InsertedChars(n) # Nothing
<1> DEFINE p == Param(n, 1)
           shifted == IF cx + p < cols THEN CopyWithin(cells, Here, LineEnd - p, Here + p)
                      ELSE cells
           gap == Least(Here + p, LineEnd)
           fits == (cx + p < cols => LineEnd <= Total) /\ InSlice(Here, gap)
<1>1. p \in Nat BY ParamType, Kept, Numbers DEF U16s
<1>2. InsertedChars(n) = IF fits THEN Fill(shifted, Here, gap) ELSE Nothing
  BY DEF InsertedChars
<1>3. ASSUME fits PROVE Fill(shifted, Here, gap) \in Vector
  <2>1. CASE cx + p < cols
    <3>1. LineEnd - p \in Nat /\ LineEnd - p <= Total /\ Here + p \in Nat
      <4> HIDE DEF p, gap
      <4> QED BY <1>1, <1>3, <2>1, Numbers
    <3>2. CopyWithin(cells, Here, LineEnd - p, Here + p) \in Vector
      <4> HIDE DEF p
      <4> QED BY <3>1, Numbers, CopyWithinType
    <3> QED BY <2>1, <3>2, FillType DEF Vector
  <2>2. CASE ~(cx + p < cols) BY <2>2, Numbers, FillType DEF Vector
  <2> QED BY <2>1, <2>2
<1>4. Total # 0 /\ ~Outside => fits
  <2> HIDE DEF p
  <2> QED BY <1>1, InsideFits, Numbers DEF InSlice, Least
<1> HIDE DEF p, shifted, gap, fits
<1> QED BY <1>2, <1>3, <1>4, Numbers

LEMMA CharEditsFed ==
  ASSUME TypeOK, ~panicked, NEW n \in U16s, DeleteChars(n) \/ InsertChars(n)
  PROVE  Fed
BY DeletedCharsType, InsertedCharsType, SetCellsFed DEF DeleteChars, InsertChars

\* A line feed scrolls the region or goes down, and stays on the screen.
LEMMA FeedType ==
  ASSUME TypeOK
  PROVE  /\ FeedPanics => Total = 0
         /\ ~FeedPanics => FeedCells \in Vector
         /\ FeedRow \in U16s
         /\ Total # 0 /\ cy <= LastRow => FeedRow <= LastRow
<1>0. top \in Nat /\ bottom \in Nat /\ cells \in Vector /\ Nothing \notin Vector BY Numbers
<1>1. FeedPanics => Total = 0
  <2>1. CASE cy >= bottom /\ Total # 0
    <3>1. RowsInRange(top, bottom) BY <2>1, BottomFits DEF RowsInRange
    <3>2. ScrolledUp(top, bottom, 1) \in Vector BY <1>0, <2>1, <3>1, ScrollsInRange
    <3> QED BY <1>0, <2>1, <3>2 DEF FeedPanics, FeedCells
  <2> QED BY <1>0, <2>1 DEF FeedPanics, FeedCells
<1>2. ASSUME ~FeedPanics PROVE FeedCells \in Vector
  BY <1>0, <1>2, ScrolledType DEF FeedPanics, FeedCells
<1>3. \/ FeedRow = cy
      \/ FeedRow = cy + 1 /\ cy < bottom
  BY Numbers DEF FeedRow
<1>4. bottom <= LastRow /\ bottom < U16
  <2>1. LastRow \in Nat /\ LastRow < U16 BY Numbers DEF LastRow, Minus, TypeOK, U16s
  <2> QED BY <2>1, Numbers DEF TypeOK
<1>5. FeedRow \in U16s
  <2>1. cy < U16 BY Numbers DEF TypeOK, U16s
  <2> QED BY <1>3, <1>4, <2>1, Numbers DEF U16s
<1>6. cy <= LastRow => FeedRow <= LastRow
  <2>1. LastRow \in Nat BY Numbers DEF LastRow, Minus
  <2> QED BY <1>3, <1>4, <2>1, Numbers
<1> QED BY <1>1, <1>2, <1>5, <1>6

LEMMA LineFeedFed ==
  ASSUME TypeOK, ~panicked, LineFeed
  PROVE  Fed
<1>1. CASE FeedPanics BY <1>1, FeedType, PanicFed DEF LineFeed
<1>2. CASE ~FeedPanics
  <2> USE <1>2 DEF LineFeed, size, region
  <2>1. cells' \in Vector /\ cy' \in U16s /\ (Total # 0 /\ cy <= LastRow => cy' <= LastRow)
    BY FeedType
  <2>2. TypeOK' BY <2>1 DEF TypeOK, LastRow, Minus, Vector
  <2>3. Outside' => Outside
    <3>1. LastRow \in Nat /\ cy' \in Nat BY <2>1, Numbers DEF LastRow, Minus, U16s
    <3>2. Total' = Total /\ LastRow' = LastRow BY DEF Total, LastRow, Minus
    <3> QED BY <2>1, <3>1, <3>2, Numbers DEF Outside
  <2> QED BY <2>2, <2>3 DEF Fed
<1> QED BY <1>1, <1>2

LEMMA PutCharFed ==
  ASSUME TypeOK, ~panicked, PutChar
  PROVE  Fed
<1> DEFINE wraps == cx >= cols /\ autoWrap
           x == IF cx < cols THEN cx ELSE IF autoWrap THEN 0 ELSE Minus(cols, 1)
           y == IF wraps THEN FeedRow ELSE cy
           base == IF wraps THEN FeedCells ELSE cells
           idx == y * cols + x
<1>1. CASE wraps /\ FeedPanics BY <1>1, FeedType, PanicFed DEF PutChar
<1>2. CASE ~(wraps /\ FeedPanics)
  <2>1. /\ cells' = IF idx < Total THEN [base EXCEPT ![idx] = attr] ELSE base
        /\ cx' = x + 1
        /\ cy' = y
        /\ UNCHANGED <<size, attr, saved, region, autoWrap, alt, panicked>>
    BY <1>2 DEF PutChar
  <2>2. x \in Nat /\ (cols > 0 => x + 1 <= cols) /\ (cols = 0 => x = 0)
    BY Numbers DEF Minus
  <2>3. y \in U16s /\ (Total # 0 /\ cy <= LastRow => y <= LastRow)
    BY FeedType, Kept
  <2>4. base \in Vector BY <1>2, FeedType, Numbers
  <2>5. idx \in Nat
    <3>1. y \in Nat BY <2>3, Numbers DEF U16s
    <3> HIDE DEF x, y
    <3>2. y * cols \in Nat BY <3>1, Numbers
    <3> QED BY <2>2, <3>2
  <2> HIDE DEF x, y, base, idx
  <2>6. cells' \in Vector
    <3>1. attr \in Cell BY DEF TypeOK, Cell
    <3>2. idx < Total => idx \in Grid(cols, rows) BY <2>5, Numbers DEF Grid, Total
    <3> QED BY <2>1, <2>4, <3>1, <3>2 DEF Vector
  <2>7. cx' \in U16s /\ (cols > 0 => cx' <= cols)
    <3>1. cols < U16 BY Numbers DEF TypeOK, U16s
    <3> QED BY <2>1, <2>2, <3>1, Numbers DEF U16s
  <2>8. TypeOK'
    BY <2>1, <2>3, <2>6, <2>7 DEF TypeOK, LastRow, Minus, Vector, size, region
  <2>9. Outside' => Outside
    <3>1. LastRow \in Nat /\ cy' \in Nat /\ cx' \in Nat
      BY <2>1, <2>3, <2>7, Numbers DEF LastRow, Minus, U16s
    <3>2. Total' = Total /\ LastRow' = LastRow /\ cols' = cols
      BY <2>1 DEF Total, LastRow, Minus, size
    <3>3. Total > 0 => cols > 0 BY Numbers DEF Total
    <3> QED BY <2>1, <2>3, <2>7, <3>1, <3>2, <3>3, Numbers DEF Outside
  <2> QED BY <2>1, <2>8, <2>9 DEF Fed
<1> QED BY <1>1, <1>2

\* The rest leaves the cells alone or blanks them all.
LEMMA OthersFed ==
  ASSUME TypeOK, ~panicked,
         \/ SaveCursor \/ RestoreCursor \/ ReverseIndex \/ FullReset
         \/ \E a \in Attrs : SelectRendition(a)
         \/ \E on \in BOOLEAN : SetAutoWrap(on)
         \/ \E n, m \in U16s : SetRegion(n, m)
  PROVE  Fed
<1>1. Total \in Nat /\ LastRow \in Nat BY Numbers DEF LastRow, Minus
<1>2. CASE SaveCursor
  <2> USE <1>2 DEF SaveCursor, size, cursor, region
  <2>1. TypeOK' BY DEF TypeOK, LastRow, Minus
  <2> QED BY <2>1 DEF Fed, Outside, Total, LastRow
<1>3. CASE RestoreCursor
  <2>1. saved[1] \in U16s /\ saved[2] \in U16s /\ saved = <<saved[1], saved[2]>>
    BY DEF TypeOK
  <2> QED BY <1>3, <2>1, MoveToFed DEF RestoreCursor
<1>4. CASE ReverseIndex
  <2>1. CASE cy <= top BY <1>4, <2>1, Numbers, ScrollsFed DEF ReverseIndex
  <2>2. CASE ~(cy <= top)
    <3>1. cy - 1 \in U16s BY <2>2, Numbers DEF TypeOK, U16s
    <3>2. ~Outside /\ Total # 0 => cx <= cols /\ cy - 1 <= LastRow
      BY <1>1, <2>2, Numbers DEF Outside
    <3> QED BY <1>4, <2>2, <3>1, <3>2, Kept, MoveToFed DEF ReverseIndex
  <2> QED BY <2>1, <2>2
<1>5. CASE FullReset
  <2> USE <1>5 DEF FullReset, size, cursor, region
  <2>1. cells' \in Vector BY Numbers DEF Vector, Cell
  <2>2. LastRow' = LastRow /\ Total' = Total BY DEF LastRow, Minus, Total
  <2>3. TypeOK' BY <1>1, <2>1, <2>2, Kept, CellsAssumption DEF TypeOK, Vector
  <2> QED BY <1>1, <2>2, <2>3, Numbers DEF Fed, Outside
<1>6. CASE \E a \in Attrs : SelectRendition(a)
  <2> USE <1>6 DEF SelectRendition, size, cursor, region
  <2>1. TypeOK' BY DEF TypeOK, LastRow, Minus
  <2> QED BY <2>1 DEF Fed, Outside, Total, LastRow
<1>7. CASE \E on \in BOOLEAN : SetAutoWrap(on)
  <2> USE <1>7 DEF SetAutoWrap, size, cursor, region
  <2>1. TypeOK' BY DEF TypeOK, LastRow, Minus
  <2> QED BY <2>1 DEF Fed, Outside, Total, LastRow
<1>8. CASE \E n, m \in U16s : SetRegion(n, m)
  <2> PICK n \in U16s, m \in U16s : SetRegion(n, m) BY <1>8
  <2> USE DEF SetRegion, size, cursor
  <2>1. rows \in U16s BY DEF TypeOK
  <2>2. top' \in U16s BY ParamType, Kept
  <2>3. bottom' \in 0 .. LastRow
    <3>1. Minus(Param(m, rows), 1) \in U16s BY <2>1, ParamType, Kept
    <3>2. Minus(Param(m, rows), 1) \in Nat BY <3>1, Numbers DEF U16s
    <3> QED BY <1>1, <3>2, Numbers DEF RegionBottom, Least
  <2>4. LastRow' = LastRow /\ Total' = Total BY DEF LastRow, Minus, Total
  <2>5. TypeOK' BY <2>2, <2>3, <2>4, Kept DEF TypeOK
  <2> QED BY <1>1, <2>4, <2>5, Numbers DEF Fed, Outside
<1> QED BY <1>2, <1>3, <1>4, <1>5, <1>6, <1>7, <1>8

\* Everything that is fed but the switches between the screens.
LEMMA FedSteps ==
  ASSUME TypeOK, ~panicked, Control \/ Parametrised,
         ~\E mode \in Modes \ {7} : EnterAlt(mode) \/ LeaveAlt(mode)
  PROVE  Fed
<1>1. CASE Control
  <2>1. CASE PutChar BY <2>1, PutCharFed
  <2>2. CASE LineFeed BY <2>2, LineFeedFed
  <2>3. CASE CarriageReturn \/ Backspace \/ Tab BY <2>3, Kept, MovesFed
  <2>4. CASE \/ SaveCursor \/ RestoreCursor \/ ReverseIndex \/ FullReset
             \/ \E a \in Attrs : SelectRendition(a)
             \/ \E on \in BOOLEAN : SetAutoWrap(on)
    BY <2>4, OthersFed
  <2> QED BY <1>1, <2>1, <2>2, <2>3, <2>4 DEF Control
<1>2. CASE Parametrised
  <2>1. PICK n \in Params :
          \/ CursorUp(n) \/ CursorDown(n) \/ CursorForward(n) \/ CursorBackward(n)
          \/ NextLine(n) \/ PreviousLine(n) \/ ToColumn(n) \/ ToRow(n)
          \/ EraseInDisplay(n) \/ EraseInLine(n)
          \/ InsertLines(n) \/ DeleteLines(n) \/ ScrollRegionUp(n) \/ ScrollRegionDown(n)
          \/ DeleteChars(n) \/ InsertChars(n) \/ EraseChars(n)
          \/ \E m \in Params : ToPosition(n, m) \/ SetRegion(n, m)
    BY <1>2 DEF Parametrised
  <2>2. n \in U16s /\ Params \subseteq U16s BY ParamsAssumption DEF U16s
  <2>3. CASE \/ CursorUp(n) \/ CursorDown(n) \/ CursorForward(n) \/ CursorBackward(n)
             \/ NextLine(n) \/ PreviousLine(n) \/ ToColumn(n) \/ ToRow(n)
    BY <2>2, <2>3, MovesFed
  <2>4. CASE EraseInDisplay(n) \/ EraseInLine(n) \/ EraseChars(n) BY <2>2, <2>4, ErasuresFed
  <2>5. CASE InsertLines(n) \/ DeleteLines(n) \/ ScrollRegionUp(n) \/ ScrollRegionDown(n)
    BY <2>2, <2>5, LineEditsFed
  <2>6. CASE DeleteChars(n) \/ InsertChars(n) BY <2>2, <2>6, CharEditsFed
  <2>7. CASE \E m \in Params : ToPosition(n, m) BY <2>2, <2>7, MovesFed
  <2>8. CASE \E m \in Params : SetRegion(n, m)
    <3>1. \E k, m \in U16s : SetRegion(k, m) BY <2>2, <2>8
    <3> QED BY <3>1, OthersFed
  <2> QED BY <2>1, <2>3, <2>4, <2>5, <2>6, <2>7, <2>8
<1> QED BY <1>1, <1>2

-----------------------------------------------------------------------------
(* The switches between the screens and the resize.                        *)

LEMMA EnterAltStep ==
  ASSUME TypeOK, NEW mode, EnterAlt(mode)
  PROVE  /\ TypeOK' /\ alt = Nothing
         /\ size' = size /\ panicked' = panicked
         /\ Outside' => Outside
<1> USE DEF EnterAlt, PutAside, size, cursor, region
<1>1. alt = Nothing OBVIOUS
<1>2. cells' \in Vector BY DEF Vector, Cell
<1>3. LastRow' = LastRow /\ Total' = Total BY DEF LastRow, Minus, Total
<1>4. \/ cx' = 0 /\ cy' = 0
      \/ cx' = cx /\ cy' = cy
  OBVIOUS
<1>5. alt' \in Aside(cols, rows) /\ alt'.bottom <= LastRow
  <2>1. bottom \in U16s
    <3>1. LastRow \in Nat /\ LastRow < U16 BY Numbers DEF LastRow, Minus, TypeOK, U16s
    <3> QED BY <3>1, Numbers DEF TypeOK, U16s
  <2>2. bottom <= LastRow BY Kept, Numbers DEF TypeOK, U16s
  <2> QED BY <2>1, <2>2, Numbers DEF Aside, TypeOK, Vector
<1>6. TypeOK' BY <1>2, <1>3, <1>4, <1>5, Kept DEF TypeOK, Vector
<1>7. Outside' => Outside
  <2>1. LastRow \in Nat BY Numbers DEF LastRow, Minus
  <2> QED BY <1>3, <1>4, <2>1, Numbers DEF Outside
<1> QED BY <1>1, <1>6, <1>7

LEMMA LeaveAltStep ==
  ASSUME TypeOK, NEW mode, LeaveAlt(mode)
  PROVE  /\ TypeOK' /\ alt # Nothing /\ alt' = Nothing /\ cells' = alt.cells
         /\ size' = size /\ panicked' = panicked
         /\ ~Outside /\ Outside' => cursor' = <<alt.cx, alt.cy>>
<1> USE DEF LeaveAlt, size, cursor
<1>1. alt \in Aside(cols, rows) /\ alt.bottom <= LastRow BY DEF TypeOK
<1>2. /\ alt.cells \in Vector /\ alt.cx \in U16s /\ alt.cy \in U16s /\ alt.attr \in Attrs
      /\ alt.top \in U16s /\ alt.bottom \in U16s
  BY <1>1 DEF Aside, Vector
<1>3. LastRow' = LastRow /\ Total' = Total BY DEF LastRow, Minus, Total
<1>4. bottom' \in 0 .. LastRow
  <2>1. alt.bottom \in Nat /\ LastRow \in Nat BY <1>2, Numbers DEF U16s, LastRow, Minus
  <2> QED BY <1>1, <2>1
<1>5. TypeOK' BY <1>2, <1>3, <1>4 DEF TypeOK, Vector
<1>6. \/ cx' = alt.cx /\ cy' = alt.cy
      \/ cx' = cx /\ cy' = cy
  OBVIOUS
<1>7. ~Outside /\ Outside' => cursor' = <<alt.cx, alt.cy>> BY <1>3, <1>6 DEF Outside
<1> QED BY <1>5, <1>7

\* What a turn of the loop of resize leaves of the new vector.
RowCopied(new, k, g, c, r) ==
  [i \in Grid(c, r) |->
     IF (k - 1) * c <= i /\ i < (k - 1) * c + Least(cols, c)
       THEN g[(k - 1) * cols + (i - (k - 1) * c)] ELSE new[i]]

\* It copies what both sizes have of a row, and leaves the others alone.
LEMMA RowCopiedCells ==
  ASSUME TypeOK, NEW g \in Vector, NEW c \in Nat, NEW r \in Nat,
         NEW k \in 1 .. Least(rows, r), NEW new \in [Grid(c, r) -> Cell]
  PROVE  /\ RowCopied(new, k, g, c, r) \in [Grid(c, r) -> Cell]
         /\ \A x \in 0 .. c - 1, y \in 0 .. r - 1 :
              CellAt(RowCopied(new, k, g, c, r), c, x, y) =
                IF y = k - 1 /\ x < cols THEN CellAt(g, cols, x, y) ELSE CellAt(new, c, x, y)
<1> DEFINE y0 == k - 1
           row == y0 * c
           source == y0 * cols
           both == Least(cols, c)
<1>1. cols \in Nat /\ rows \in Nat BY Numbers
<1>2. y0 \in Nat /\ y0 \in 0 .. rows - 1 /\ y0 \in 0 .. r - 1 BY <1>1 DEF Least
<1>3. both \in Nat /\ both <= cols /\ both <= c /\ \A x \in 0 .. c - 1 : x < both <=> x < cols
  BY <1>1 DEF Least
<1>4. row \in Nat /\ source \in Nat BY <1>1, <1>2
<1>5. RowCopied(new, k, g, c, r) =
        [i \in Grid(c, r) |-> IF row <= i /\ i < row + both THEN g[source + (i - row)] ELSE new[i]]
  BY DEF RowCopied
<1> HIDE DEF both
<1>6. ASSUME NEW i \in Grid(c, r), row <= i, i < row + both
      PROVE  source + (i - row) \in Grid(cols, rows)
  <2> DEFINE x == i - row
  <2>1. i \in Nat BY DEF Grid
  <2>2. x \in 0 .. cols - 1 BY <1>1, <1>3, <1>4, <1>6, <2>1
  <2> HIDE DEF x
  <2>3. y0 * cols + x \in Grid(cols, rows) BY <1>1, <1>2, <2>2, CellOfIndex
  <2> QED BY <2>3 DEF x
<1>7. RowCopied(new, k, g, c, r) \in [Grid(c, r) -> Cell]
  <2> HIDE DEF row, source
  <2> QED BY <1>5, <1>6 DEF Vector
<1>8. ASSUME NEW x \in 0 .. c - 1, NEW y \in 0 .. r - 1
      PROVE  CellAt(RowCopied(new, k, g, c, r), c, x, y) =
               IF y = y0 /\ x < cols THEN CellAt(g, cols, x, y) ELSE CellAt(new, c, x, y)
  <2> DEFINE i == y * c + x
  <2>1. i \in Grid(c, r) BY CellOfIndex
  <2>2. i \in Nat /\ (row <= i /\ i < row + c <=> y = y0) BY <1>2, InRow
  <2>3. y = y0 => i = row + x OBVIOUS
  <2>4. y = y0 => source + (i - row) = y * cols + x
    <3>1. CASE y = y0
      <4>1. i - row = x
        <5> HIDE DEF row, i
        <5> QED BY <1>4, <2>3, <3>1
      <4> HIDE DEF i, row
      <4> QED BY <3>1, <4>1
    <3> QED BY <3>1
  <2> HIDE DEF i, row, source, y0
  <2>5. RowCopied(new, k, g, c, r)[i] =
          IF row <= i /\ i < row + both THEN g[source + (i - row)] ELSE new[i]
    BY <1>5, <2>1
  <2>6. row <= i /\ i < row + both <=> y = y0 /\ x < cols
    <3>1. CASE y = y0 BY <1>3, <1>4, <2>3, <3>1
    <3>2. CASE y # y0 BY <1>3, <1>4, <2>2, <3>2
    <3> QED BY <3>1, <3>2
  <2> QED BY <2>4, <2>5, <2>6 DEF CellAt, i
<1> QED BY <1>7, <1>8

\* Each turn of the loop builds on the one before.
LEMMA ResizingSteps ==
  ASSUME TypeOK, NEW g \in Vector, NEW c \in Nat, NEW r \in Nat
  PROVE  LET new == Resizing(g, c, r, c)
         IN  /\ new[0] = [i \in Grid(c, r) |-> Blank]
             /\ \A k \in 1 .. Least(rows, r) : new[k] = RowCopied(new[k - 1], k, g, c, r)
<1> DEFINE m == Least(rows, r)
           D == [Grid(c, r) -> Cell]
           empty == [i \in Grid(c, r) |-> Blank]
           step == [p \in (1 .. m) \X D |-> RowCopied(p[2], p[1], g, c, r)]
           Is(f) == f = [k \in 0 .. m |->
                           IF k = 0 THEN empty ELSE RowCopied(f[k - 1], k, g, c, r)]
<1>1. m \in Nat BY Numbers DEF Least
<1>2. empty \in D BY DEF Cell
<1>3. \A k \in 1 .. m, new \in D : RowCopied(new, k, g, c, r) \in D BY RowCopiedCells
<1>4. step \in Steps(1 .. m, D)
  <2> HIDE DEF m, D
  <2> QED BY <1>3 DEF Steps
<1>5. \A k \in 1 .. m, new \in D : step[<<k, new>>] = RowCopied(new, k, g, c, r) OBVIOUS
<1>6. PICK f \in [0 .. m -> D] : Follows(f, m, empty, step)
  <2> HIDE DEF m, D, step, empty
  <2> QED BY <1>1, <1>2, <1>4, Following
<1> HIDE DEF D, step
<1>7. \A k \in 1 .. m : f[k] = RowCopied(f[k - 1], k, g, c, r)
  <2> SUFFICES ASSUME NEW k \in 1 .. m PROVE f[k] = RowCopied(f[k - 1], k, g, c, r) OBVIOUS
  <2>1. f[k] = step[<<k, f[k - 1]>>] BY <1>6 DEF Follows
  <2>2. f[k - 1] \in D
    <3> HIDE DEF m
    <3> QED BY <1>1, <1>6
  <2> QED BY <1>5, <2>1, <2>2
<1>8. Is(f)
  <2>1. f[0] = empty BY <1>6 DEF Follows
  <2> HIDE DEF m, empty
  <2> QED BY <1>6, <1>7, <2>1
<1>9. Resizing(g, c, r, c) = CHOOSE f1 : Is(f1) BY DEF Resizing, RowCopied
<1>10. Is(Resizing(g, c, r, c))
  <2> HIDE DEF Is
  <2> QED BY <1>8, <1>9
<1> HIDE DEF m
<1> QED BY <1>1, <1>10 DEF m

\* The loop of resize keeps the cells both sizes show.
LEMMA ResizedType ==
  ASSUME TypeOK, NEW g \in Vector, NEW c \in Nat, NEW r \in Nat
  PROVE  /\ Resized(g, c, r) \in [Grid(c, r) -> Cell]
         /\ \A x \in 0 .. c - 1, y \in 0 .. r - 1 :
              CellAt(Resized(g, c, r), c, x, y) =
                IF x < cols /\ y < rows THEN CellAt(g, cols, x, y) ELSE Blank
<1> DEFINE m == Least(rows, r)
           new == Resizing(g, c, r, c)
           Good(k) == /\ new[k] \in [Grid(c, r) -> Cell]
                      /\ \A x \in 0 .. c - 1, y \in 0 .. r - 1 :
                           CellAt(new[k], c, x, y) =
                             IF x < cols /\ y < k THEN CellAt(g, cols, x, y) ELSE Blank
           S == {k \in 0 .. m : Good(k)}
<1>1. m \in Nat /\ m <= r /\ \A y \in 0 .. r - 1 : y < m <=> y < rows BY Numbers DEF Least
<1>2. /\ new[0] = [i \in Grid(c, r) |-> Blank]
      /\ \A k \in 1 .. m : new[k] = RowCopied(new[k - 1], k, g, c, r)
  BY ResizingSteps
<1> HIDE DEF new
<1>3. 0 \in S
  <2>1. new[0] \in [Grid(c, r) -> Cell] BY <1>2 DEF Cell
  <2>2. ASSUME NEW x \in 0 .. c - 1, NEW y \in 0 .. r - 1 PROVE CellAt(new[0], c, x, y) = Blank
    <3>1. y * c + x \in Grid(c, r) BY CellOfIndex
    <3> QED BY <1>2, <3>1 DEF CellAt
  <2>3. Good(0) BY <2>1, <2>2
  <2> QED BY <1>1, <2>3
<1>4. ASSUME NEW k \in 0 .. m - 1, k \in S PROVE k + 1 \in S
  <2>1. k + 1 \in 1 .. m /\ (k + 1) - 1 = k /\ k + 1 \in 0 .. m BY <1>1
  <2>2. new[k + 1] = RowCopied(new[k], k + 1, g, c, r) BY <1>2, <2>1
  <2>3. new[k] \in [Grid(c, r) -> Cell] BY <1>4
  <2>4. /\ new[k + 1] \in [Grid(c, r) -> Cell]
        /\ \A x \in 0 .. c - 1, y \in 0 .. r - 1 :
             CellAt(new[k + 1], c, x, y) =
               IF y = k /\ x < cols THEN CellAt(g, cols, x, y) ELSE CellAt(new[k], c, x, y)
    BY <2>1, <2>2, <2>3, RowCopiedCells
  <2>5. ASSUME NEW x \in 0 .. c - 1, NEW y \in 0 .. r - 1
        PROVE  CellAt(new[k + 1], c, x, y) =
                 IF x < cols /\ y < k + 1 THEN CellAt(g, cols, x, y) ELSE Blank
    <3>1. CellAt(new[k], c, x, y) = IF x < cols /\ y < k THEN CellAt(g, cols, x, y) ELSE Blank
      BY <1>4
    <3>2. k \in Nat /\ (y < k + 1 <=> y < k \/ y = k) OBVIOUS
    <3> QED BY <2>4, <3>1, <3>2
  <2> QED BY <2>1, <2>4, <2>5
<1>5. 0 .. m \subseteq S
  <2> HIDE DEF S, m
  <2> QED BY <1>1, <1>3, <1>4, InductionTo
<1>6. Good(m) BY <1>1, <1>5
<1>7. Resized(g, c, r) = new[m] BY DEF Resized, ResizedBy, new
<1> QED BY <1>1, <1>6, <1>7

LEMMA ResizeStep ==
  ASSUME TypeOK, NEW c \in U16s, NEW r \in U16s, Resize(c, r)
  PROVE  /\ TypeOK' /\ ~Outside' /\ panicked' = panicked
         /\ cols' = c /\ rows' = r /\ cells' = Resized(cells, c, r)
         /\ alt # Nothing => alt' # Nothing /\ alt'.cells = Resized(alt.cells, c, r)
<1> USE DEF Resize, ResizeTo
<1>1. c \in Nat /\ r \in Nat /\ c < U16 /\ r < U16 BY Numbers DEF U16s
<1>2. LastRow' = Minus(r, 1) BY DEF LastRow, Minus
<1>3. \A x \in U16s, n \in {c, r} : Clamp(x, n) \in U16s /\ Clamp(x, n) <= Minus(n, 1)
  BY <1>1, Numbers DEF Clamp, Minus, U16s
<1>4. Minus(r, 1) \in U16s /\ Minus(r, 1) \in Nat BY <1>1, Numbers DEF Minus, U16s
<1>5. ASSUME alt # Nothing
      PROVE  /\ alt' \in Aside(c, r) /\ alt'.bottom <= Minus(r, 1)
             /\ alt'.cells = Resized(alt.cells, c, r)
  <2>1. alt \in Aside(cols, rows) BY <1>5 DEF TypeOK
  <2>2. alt.cells \in Vector /\ alt.cx \in U16s /\ alt.cy \in U16s
    BY <2>1 DEF Aside, Vector
  <2>3. Resized(alt.cells, c, r) \in [Grid(c, r) -> Cell] BY <1>1, <2>2, ResizedType
  <2>4. alt' = [alt EXCEPT !.cells = Resized(alt.cells, c, r), !.top = 0,
                           !.bottom = Minus(r, 1),
                           !.cx = Clamp(alt.cx, c), !.cy = Clamp(alt.cy, r)]
    BY <1>5 DEF AltResized
  <2>5. Clamp(alt.cx, c) \in U16s /\ Clamp(alt.cy, r) \in U16s /\ 0 \in U16s
    BY <1>3, <2>2, Kept
  <2>6. /\ alt' \in Aside(c, r) /\ alt'.bottom = Minus(r, 1)
        /\ alt'.cells = Resized(alt.cells, c, r)
    BY <1>4, <2>1, <2>3, <2>4, <2>5 DEF Aside
  <2> QED BY <1>4, <2>6
<1>6. alt # Nothing => alt' # Nothing BY <1>5, NothingAssumption
<1>7. cells' \in [Grid(c, r) -> Cell] BY <1>1, Numbers, ResizedType
<1>8. cx' \in U16s /\ cy' \in U16s /\ cx' <= Minus(c, 1) /\ cy' <= Minus(r, 1)
  BY <1>3, Kept
<1>9. TypeOK'
  <2>1. alt' # Nothing => alt' \in Aside(c, r) /\ alt'.bottom <= Minus(r, 1)
    BY <1>5 DEF AltResized
  <2>2. bottom' \in 0 .. Minus(r, 1) BY <1>4
  <2> QED BY <1>2, <1>7, <1>8, <2>1, <2>2, Kept DEF TypeOK
<1>10. ~Outside'
  <2>1. cx' \in Nat /\ cy' \in Nat /\ Minus(c, 1) \in Nat /\ Minus(c, 1) <= c
    BY <1>1, <1>8 DEF U16s, Minus
  <2> QED BY <1>1, <1>2, <1>4, <1>8, <2>1 DEF Outside
<1> QED BY <1>5, <1>6, <1>9, <1>10

-----------------------------------------------------------------------------
(* The theorems.                                                           *)

\* The four kinds of steps.
LEMMA StepKinds ==
  ASSUME TypeOK, Next
  PROVE  \/ Fed
         \/ \E mode \in Modes \ {7} : EnterAlt(mode)
         \/ \E mode \in Modes \ {7} : LeaveAlt(mode)
         \/ \E c, r \in U16s : Resize(c, r)
<1>1. ~panicked BY DEF Next
<1>2. CASE \E s \in Sizes : Resize(s[1], s[2])
  <2> PICK s \in Sizes : Resize(s[1], s[2]) BY <1>2
  <2>1. s[1] \in U16s /\ s[2] \in U16s BY SizesAssumption DEF U16s
  <2> QED BY <2>1
<1>3. CASE Control \/ Parametrised BY <1>1, <1>3, FedSteps
<1> QED BY <1>2, <1>3 DEF Next

LEMMA InitInv == Init => IInv
<1> SUFFICES ASSUME Init PROVE IInv OBVIOUS
<1>1. PICK s \in Sizes : NewScreen(s[1], s[2]) BY DEF Init
<1>2. U16 \in Nat /\ U16 >= 2 BY WidthAssumption
<1>3. cols \in U16s /\ rows \in U16s /\ 0 \in U16s
  BY <1>1, <1>2, SizesAssumption DEF NewScreen, U16s
<1>4. cells \in [Grid(cols, rows) -> Cell] BY <1>1 DEF NewScreen, Cell
<1>5. bottom = LastRow /\ LastRow \in Nat BY <1>1, <1>3 DEF NewScreen, LastRow, Minus, U16s
<1>6. /\ cx = 0 /\ cy = 0 /\ attr = Plain /\ saved = <<0, 0>> /\ top = 0
      /\ autoWrap = TRUE /\ alt = Nothing /\ panicked = FALSE
  BY <1>1 DEF NewScreen
<1>7. {autoWrap, panicked} \subseteq BOOLEAN BY <1>6
<1>8. bottom \in 0 .. LastRow /\ attr \in Attrs /\ saved \in U16s \X U16s
  BY <1>3, <1>5, <1>6, CellsAssumption
<1>9. TypeOK BY <1>3, <1>4, <1>6, <1>7, <1>8 DEF TypeOK
<1> QED BY <1>6, <1>9 DEF IInv, PanickedOutside

LEMMA StepInv == IInv /\ [Next]_vars => IInv'
<1> SUFFICES ASSUME IInv, [Next]_vars PROVE IInv' OBVIOUS
<1> USE DEF IInv, PanickedOutside
<1>1. CASE UNCHANGED vars
  <2> USE <1>1 DEF vars, size, cursor, region
  <2>1. TypeOK' BY DEF TypeOK, LastRow, Minus
  <2> QED BY <2>1 DEF Outside, Total, LastRow, Minus
<1>2. CASE Next
  <2>1. ~panicked BY <1>2 DEF Next
  <2>2. CASE Fed
    <3>1. size' = size /\ cursor' = cursor /\ (Total = 0 \/ Outside) => (Total = 0 \/ Outside)'
      BY DEF size, cursor, Outside, Total, LastRow, Minus
    <3> QED BY <2>2, <3>1 DEF Fed
  <2>3. CASE \E mode \in Modes \ {7} : EnterAlt(mode) BY <2>1, <2>3, EnterAltStep
  <2>4. CASE \E mode \in Modes \ {7} : LeaveAlt(mode) BY <2>1, <2>4, LeaveAltStep
  <2>5. CASE \E c, r \in U16s : Resize(c, r) BY <2>1, <2>5, ResizeStep
  <2> QED BY <1>2, <2>2, <2>3, <2>4, <2>5, StepKinds
<1> QED BY <1>1, <1>2

LEMMA Invariance == Spec => []IInv
BY InitInv, StepInv, PTL DEF Spec

\* The vector has cols * rows cells and so has the primary screen put aside; the
\* region and every number of the screen stay in range (screen.rs Screen).
THEOREM ScreenTypeCorrect == Spec => []TypeOK
<1>1. IInv => TypeOK BY DEF IInv
<1> QED BY <1>1, Invariance, PTL

\* feed panics only on a screen without cells or with the cursor outside: the
\* index arithmetic of every control function stays within the vector.
THEOREM PanicsAreOutside == Spec => PanicNeedsOutside
<1>1. ASSUME IInv, [Next]_vars PROVE panicked' => Total = 0 \/ Outside
  <2>1. CASE UNCHANGED vars BY <1>1, <2>1 DEF vars, IInv, PanickedOutside
  <2>2. CASE Next
    <3>1. TypeOK /\ ~panicked BY <1>1, <2>2 DEF IInv, Next
    <3> QED BY <2>2, <3>1, StepKinds, EnterAltStep, LeaveAltStep, ResizeStep DEF Fed
  <2> QED BY <1>1, <2>1, <2>2
<1>2. IInv /\ [Next]_vars => [panicked' => Total = 0 \/ Outside]_vars BY <1>1
<1> QED BY <1>2, Invariance, PTL DEF Spec, PanicNeedsOutside

\* No movement, wrap, scroll or resize takes the cursor off the screen: only
\* restoring one that was saved before the screen shrank does.
THEOREM OutsideIsRestored == Spec => OutsideNeedsRestore
<1> DEFINE Restored == ~Outside /\ Outside' =>
                         \/ cursor' = saved
                         \/ alt # Nothing /\ cursor' = <<alt.cx, alt.cy>>
<1>1. ASSUME IInv, Next PROVE Restored
  <2>1. TypeOK BY <1>1 DEF IInv
  <2> QED BY <1>1, <2>1, StepKinds, EnterAltStep, LeaveAltStep, ResizeStep DEF Fed
<1>2. IInv /\ [Next]_vars => [Restored]_vars BY <1>1
<1> QED BY <1>2, Invariance, PTL DEF Spec, OutsideNeedsRestore

\* A resize keeps every cell both sizes show where it was and blanks the rest.
THEOREM ResizesKeepCells == Spec => ResizeKeepsCells
<1> DEFINE KeepsCells == size' # size =>
              \A x \in 0 .. cols' - 1, y \in 0 .. rows' - 1 :
                CellAt(cells', cols', x, y) =
                  IF x < cols /\ y < rows THEN CellAt(cells, cols, x, y) ELSE Blank
<1>1. ASSUME IInv, Next PROVE KeepsCells
  <2>1. TypeOK BY <1>1 DEF IInv
  <2>2. ASSUME NEW c \in U16s, NEW r \in U16s, Resize(c, r) PROVE KeepsCells
    <3>1. c \in Nat /\ r \in Nat BY <2>1, Numbers DEF U16s
    <3>2. cols' = c /\ rows' = r /\ cells' = Resized(cells, c, r) BY <2>1, <2>2, ResizeStep
    <3>3. \A x \in 0 .. c - 1, y \in 0 .. r - 1 :
            CellAt(Resized(cells, c, r), c, x, y) =
              IF x < cols /\ y < rows THEN CellAt(cells, cols, x, y) ELSE Blank
      <4>1. cells \in Vector BY <2>1, Numbers
      <4> QED BY <2>1, <3>1, <4>1, ResizedType
    <3> QED BY <3>2, <3>3
  <2> QED BY <1>1, <2>1, <2>2, StepKinds, EnterAltStep, LeaveAltStep DEF Fed
<1>2. IInv /\ [Next]_vars => [KeepsCells]_vars BY <1>1
<1> QED BY <1>2, Invariance, PTL DEF Spec, ResizeKeepsCells

\* The primary screen survives whatever is fed while the alternate one is shown,
\* and comes back cut or extended by the resizes in between.
THEOREM PrimaryIsKept == Spec => PrimaryKept
<1> DEFINE primary == IF alt' # Nothing THEN alt'.cells ELSE cells'
           Survives == alt # Nothing =>
              \A x \in 0 .. Least(cols, cols') - 1, y \in 0 .. Least(rows, rows') - 1 :
                CellAt(primary, cols', x, y) = CellAt(alt.cells, cols, x, y)
<1>1. ASSUME IInv, Next PROVE Survives
  <2>1. TypeOK BY <1>1 DEF IInv
  <2>2. ASSUME alt # Nothing, size' = size, primary = alt.cells PROVE Survives
    BY <2>2 DEF size
  <2>3. CASE Fed BY <2>2, <2>3 DEF Fed
  <2>4. CASE \E mode \in Modes \ {7} : EnterAlt(mode) BY <2>1, <2>4, EnterAltStep
  <2>5. CASE \E mode \in Modes \ {7} : LeaveAlt(mode) BY <2>1, <2>2, <2>5, LeaveAltStep
  <2>6. ASSUME NEW c \in U16s, NEW r \in U16s, Resize(c, r), alt # Nothing PROVE Survives
    <3>1. c \in Nat /\ r \in Nat BY <2>1, Numbers DEF U16s
    <3>2. cols' = c /\ rows' = r /\ primary = Resized(alt.cells, c, r)
      BY <2>1, <2>6, ResizeStep
    <3>3. alt.cells \in Vector BY <2>1, <2>6 DEF TypeOK, Aside, Vector
    <3>4. ASSUME NEW x \in 0 .. Least(cols, c) - 1, NEW y \in 0 .. Least(rows, r) - 1
          PROVE  CellAt(Resized(alt.cells, c, r), c, x, y) = CellAt(alt.cells, cols, x, y)
      <4>1. x \in 0 .. c - 1 /\ x < cols /\ y \in 0 .. r - 1 /\ y < rows
        BY <2>1, <3>1, Numbers DEF Least
      <4> QED BY <2>1, <3>1, <3>3, <4>1, ResizedType
    <3> QED BY <3>2, <3>4
  <2> QED BY <1>1, <2>1, <2>3, <2>4, <2>5, <2>6, StepKinds
<1>2. IInv /\ [Next]_vars => [Survives]_vars
  <2>1. ASSUME UNCHANGED vars PROVE [Survives]_vars BY <2>1
  <2> QED BY <1>1, <2>1
<1> QED BY <1>2, Invariance, PTL DEF Spec, PrimaryKept

-----------------------------------------------------------------------------
(* What the index arithmetic does to rows and lines.                       *)

\* Scrolling rows t..b by n shows in row r what row r + n, or r - n, showed.
THEOREM ScrollsMoveRows == Spec => []ScrollMovesRows
<1>1. ASSUME TypeOK PROVE ScrollMovesRows
  <2>1. ASSUME NEW t \in 0 .. LastRow, NEW b \in 0 .. LastRow, NEW n \in U16s \ {0},
               t <= b, Total > 0
        PROVE  t \in Nat /\ b \in Nat /\ n \in Nat \ {0} /\ cols # 0 /\ b < rows
    <3>1. cols \in Nat \ {0} /\ rows \in Nat \ {0} BY <1>1, <2>1, Numbers DEF Total
    <3> QED BY <2>1, <3>1, <1>1, Numbers DEF U16s, LastRow, Minus
  <2> QED BY <1>1, <2>1, ScrolledRows DEF ScrollMovesRows
<1> QED BY <1>1, ScreenTypeCorrect, PTL

\* An index between the cursor's and the end of its line is in that line, at the
\* cursor or after it.
LEMMA InLine ==
  ASSUME TypeOK, NEW i \in Nat, RowStart <= i, i < LineEnd
  PROVE  i \div cols = cy /\ i % cols = i - RowStart
<1> DEFINE k == i - RowStart
<1>1. k \in 0 .. cols - 1 /\ cols \in Nat \ {0} /\ cy \in Nat BY Numbers
<1>2. i = cy * cols + k BY Numbers DEF RowStart
<1> HIDE DEF k
<1>3. (cy * cols + k) \div cols = cy /\ (cy * cols + k) % cols = k BY <1>1
<1> QED BY <1>2, <1>3 DEF k

\* Outside of what is filled and copied nothing changes.
LEMMA Elsewhere ==
  ASSUME TypeOK, NEW i \in Grid(cols, rows), NEW lo, NEW hi
  PROVE  ~(lo <= i /\ i < hi) /\ Erased(lo, hi) # Nothing => Erased(lo, hi)[i] = cells[i]
BY Numbers DEF Erased, Fill, Vector

LEMMA NotFilled ==
  ASSUME NEW g \in Vector, NEW i \in Grid(cols, rows), NEW lo, NEW hi, ~(lo <= i /\ i < hi)
  PROVE  Fill(g, lo, hi)[i] = g[i]
BY DEF Fill, Vector

LEMMA NotCopied ==
  ASSUME TypeOK, NEW i \in Grid(cols, rows), NEW lo, NEW hi, NEW dst,
         ~(dst <= i /\ i < dst + (hi - lo))
  PROVE  CopyWithin(cells, lo, hi, dst)[i] = cells[i]
BY Numbers DEF CopyWithin, Vector

\* Deleting, inserting and erasing characters and Erase in Line touch nothing
\* outside the cursor's line, but for the cell the cursor is on with a wrap pending.
THEOREM EditsStay == Spec => []EditsStayInLine
<1>1. ASSUME TypeOK PROVE EditsStayInLine
  <2> SUFFICES ASSUME NEW n \in U16s, NEW i \in Grid(cols, rows)
               PROVE  /\ \A g \in {DeletedChars(n), InsertedChars(n), ErasedChars(n)} \ {Nothing} :
                           i \div cols # cy \/ i % cols < cx => g[i] = cells[i]
                      /\ ErasedInLine(n) # Nothing /\ ~Outside =>
                           (i \div cols # cy /\ i # Here => ErasedInLine(n)[i] = cells[i])
    BY <1>1, Numbers DEF EditsStayInLine, Vector
  <2> DEFINE p == Param(n, 1)
  <2>1. p \in Nat BY <1>1, ParamType, Kept, Numbers DEF U16s
  <2>2. i \in Nat /\ i < Total /\ Total # 0 BY <1>1, Numbers DEF Grid, Total
  <2>3. i \div cols # cy \/ i % cols < cx => ~(Here <= i /\ i < LineEnd)
    BY <1>1, <2>2, InLine, Numbers
  <2>4. i \div cols # cy => ~(RowStart <= i /\ i < LineEnd)
    BY <1>1, <2>2, InLine
  <2>5. ASSUME ~(Here <= i /\ i < LineEnd), DeletedChars(n) # Nothing
        PROVE  DeletedChars(n)[i] = cells[i]
    <3>1. CASE cx + p < cols
      <4> DEFINE copied == CopyWithin(cells, Here + p, LineEnd, Here)
      <4>1. /\ DeletedChars(n) = Fill(copied, LineEnd - p, LineEnd)
            /\ Here + p <= LineEnd /\ LineEnd <= Total
        BY <2>5, <3>1 DEF DeletedChars, DeletedIf
      <4> HIDE DEF p
      <4>2. copied \in Vector BY <1>1, <2>1, <4>1, Numbers, CopyWithinType
      <4>3. ~(Here <= i /\ i < Here + (LineEnd - (Here + p))) /\ ~(LineEnd - p <= i /\ i < LineEnd)
        BY <1>1, <2>1, <2>2, <2>5, <4>1, Numbers
      <4>4. copied[i] = cells[i] BY <1>1, <4>3, NotCopied
      <4> HIDE DEF copied
      <4> QED BY <4>1, <4>2, <4>3, <4>4, NotFilled
    <3>2. CASE ~(cx + p < cols)
      <4>1. DeletedChars(n) = Erased(Here, LineEnd) BY <3>2 DEF DeletedChars, DeletedIf
      <4> QED BY <1>1, <2>5, <4>1, Elsewhere
    <3> QED BY <3>1, <3>2
  <2>6. ASSUME ~(Here <= i /\ i < LineEnd), InsertedChars(n) # Nothing
        PROVE  InsertedChars(n)[i] = cells[i]
    <3> DEFINE shifted == IF cx + p < cols THEN CopyWithin(cells, Here, LineEnd - p, Here + p)
                          ELSE cells
               gap == Least(Here + p, LineEnd)
    <3>1. InsertedChars(n) = Fill(shifted, Here, gap) /\ (cx + p < cols => LineEnd <= Total)
      BY <2>6 DEF InsertedChars
    <3>2. ~(Here <= i /\ i < gap)
      <4> HIDE DEF p
      <4> QED BY <1>1, <2>1, <2>2, <2>6, Numbers DEF Least
    <3>3. shifted \in Vector /\ shifted[i] = cells[i]
      <4>1. CASE cx + p < cols
        <5> HIDE DEF p
        <5>1. LineEnd - p \in Nat /\ LineEnd - p <= Total /\ Here + p \in Nat
          BY <1>1, <2>1, <3>1, <4>1, Numbers
        <5>2. ~(Here + p <= i /\ i < (Here + p) + ((LineEnd - p) - Here))
          BY <1>1, <2>1, <2>2, <2>6, Numbers
        <5> QED BY <1>1, <4>1, <5>1, <5>2, Numbers, CopyWithinType, NotCopied
      <4>2. CASE ~(cx + p < cols) BY <1>1, <4>2, Numbers
      <4> QED BY <4>1, <4>2
    <3> HIDE DEF shifted, gap
    <3> QED BY <3>1, <3>2, <3>3, NotFilled
  <2>7. ASSUME ~(Here <= i /\ i < LineEnd), ErasedChars(n) # Nothing
        PROVE  ErasedChars(n)[i] = cells[i]
    <3> DEFINE hi == Least(RowStart + Least(cx + p, cols), Total)
    <3>1. ~(Here <= i /\ i < hi)
      <4> HIDE DEF p
      <4> QED BY <1>1, <2>1, <2>2, <2>7, Numbers DEF Least
    <3>2. ErasedChars(n) = Erased(Here, hi) BY DEF ErasedChars
    <3> HIDE DEF hi
    <3> QED BY <1>1, <2>7, <3>1, <3>2, Elsewhere
  <2>8. ASSUME ErasedInLine(n) # Nothing, ~Outside, i \div cols # cy, i # Here
        PROVE  ErasedInLine(n)[i] = cells[i]
    <3>1. Here <= LineEnd /\ LineEnd <= Total /\ RowStart <= Here BY <1>1, <2>2, <2>8, InsideFits
    <3>2. /\ ~(Here <= i /\ i < Least(RowStart + cols, Total))
          /\ ~(RowStart <= i /\ i < Least(Here + 1, Total))
          /\ ~(RowStart <= i /\ i < Least(RowStart + cols, Total))
      BY <1>1, <2>2, <2>4, <2>8, <3>1, Numbers DEF Least
    <3>3. \/ ErasedInLine(n) = Erased(Here, Least(RowStart + cols, Total))
          \/ ErasedInLine(n) = Erased(RowStart, Least(Here + 1, Total))
          \/ ErasedInLine(n) = Erased(RowStart, Least(RowStart + cols, Total))
          \/ ErasedInLine(n) = cells
      BY DEF ErasedInLine
    <3> QED BY <1>1, <2>8, <3>2, <3>3, Elsewhere
  <2> QED BY <2>3, <2>5, <2>6, <2>7, <2>8
<1> QED BY <1>1, ScreenTypeCorrect, PTL
=============================================================================
