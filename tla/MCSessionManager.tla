-------------------------- MODULE MCSessionManager --------------------------
(* SessionManager on a small instance: two processes, the numerals 0..2     *)
(* (so that next_id wraps) and one name that is not a numeral.              *)
EXTENDS SessionManager, TLC

CONSTANTS p1, p2, work

MCPid == {p1, p2}
MCCustom == {work}
Symmetry == Permutations(MCPid)
=============================================================================
