------------------------------ MODULE MCAttach ------------------------------
(* Attach with one kind of text: which rows are empty is what matters.     *)
EXTENDS Attach

CONSTANT a

OneText == {a}

\* Five keys on a still screen, three changes without a key, and three keys with a
\* change: three are enough for there always to be one waiting.
KeysOrChanges == ((0 .. 5) \X {0}) \cup ({0} \X (0 .. 3)) \cup ((0 .. 3) \X (0 .. 1))
OneChange == {0} \X (0 .. 1)
=============================================================================
