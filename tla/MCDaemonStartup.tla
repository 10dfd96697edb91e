-------------------------- MODULE MCDaemonStartup --------------------------
(* DaemonStartup with two clients, each of which may spawn a daemon.        *)
EXTENDS DaemonStartup

CONSTANTS c1, c2, d1, d2

TwoClients == {c1, c2}
TwoDaemons == {d1, d2}
=============================================================================
