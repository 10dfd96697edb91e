-------------------------- MODULE MCWindowsDaemon --------------------------
(* WindowsDaemon with two daemons, two clients and one session.             *)
EXTENDS WindowsDaemon

CONSTANTS d1, d2, c1, c2, p1

TwoDaemons == {d1, d2}
TwoClients == {c1, c2}
OnePid == {p1}
=============================================================================
