------------------------------ MODULE MCScreen ------------------------------
(* Screen on grids of at most four cells, with the arithmetic of u16 at width 4. *)
EXTENDS Screen

CONSTANT plain

OneAttr == {plain}
\* Wide, tall and square, so that a resize shrinks one way and grows the other;
\* also without a column and without a row: create checks nothing.
Shapes == {<<2, 2>>, <<3, 1>>, <<2, 1>>, <<1, 3>>, <<0, 1>>, <<1, 0>>}
FewParams == {0, 1, 3}
AltModes == {7, 47, 1049}
=============================================================================
