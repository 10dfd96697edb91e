------------------------------ MODULE MCDaemon ------------------------------
(* Daemon on small instances: which requests the clients send is what the   *)
(* configurations vary.                                                     *)
EXTENDS Daemon, TLC

CONSTANTS p1, p2, c1, c2

OnePid == {p1}
TwoPids == {p1, p2}
OneClient == {c1}
TwoClients == {c1, c2}
SymClients == Permutations(TwoClients)

Req(op, n) == [op |-> op, name |-> n]

\* Every request.
Everything == {Req("create", Unnamed), Req("create", 0), Req("kill", 0), Req("list", Unnamed),
               Req("send", 0), Req("view_screen", 0), Req("hardcopy", 0), Req("resize", 0),
               Req("kill_server", Unnamed), Req("ping", Unnamed), Req("bad", Unnamed)}

\* Those that change the directory, by both clients at once; the others one at a time.
Contending == {Req("create", Unnamed), Req("kill", 0)}
OneAtATime == Everything \ Contending
JustCreate == {Req("create", Unnamed)}
=============================================================================
