------------------------------- MODULE Daemon -------------------------------
(***************************************************************************)
(* The daemon's event loop (src/daemon.rs, Unix) over the session manager: *)
(* one task that selects among accepting a connection, SIGTERM and the     *)
(* reap tick, and serves a connection to its end before it selects again.  *)
(* Clients (src/main.rs rpc) connect, write one request and read one reply;*)
(* a client may vanish at any point, and is_daemon_running connects and    *)
(* closes without a request.                                               *)
(***************************************************************************)
EXTENDS SessionManager, Sequences

CONSTANTS
  Client,    \* clients; each has at most one connection at a time
  NoClient,
  Request,   \* the requests the clients send
  Apart      \* a bound: requests sent only while no other client takes part

ReqOps == {"create", "kill", "list", "send", "view_screen", "hardcopy", "resize",
           "kill_server", "ping", "bad"}

ASSUME RequestAssumption ==
  /\ NoClient \notin Client
  /\ Request \subseteq [op : ReqOps, name : Name \cup {Unnamed}]
  /\ \A r \in Request : r.name = Unnamed =>
       r.op \in {"create", "list", "kill_server", "ping", "bad"}
  /\ Apart \subseteq Request

VARIABLES
  phase,       \* where run stands: the select loop, and the steps after break
  hadSessions, \* run's had_sessions
  sigterm,     \* a SIGTERM is waiting for sigterm.recv
  files,       \* the pid file and the socket exist
  backlog,     \* connections waiting for accept
  serving,     \* the connection handle_one is working on
  conn,        \* conn[c]: the state of c's connection
  request,     \* request[c]: what c asks
  reply        \* reply[c]: the last reply c read

net == <<backlog, serving, conn, request, reply>>
vars == <<smVars, phase, hadSessions, sigterm, files, net>>

Phases == {"loop", "leaving", "closed", "cleaned", "exited", "crashed"}
ConnStates == {"idle", "connected", "sent", "closed", "deserted", "answered", "failed"}
Answer(r, n, names) == [result |-> r, name |-> n, names |-> names]
NoAnswer == Answer("none", Unnamed, {})
NoRequest == [op |-> "ping", name |-> Unnamed]   \* of a connection that is gone

InitDaemon ==
  /\ Init
  /\ phase = "loop"
  /\ hadSessions = FALSE
  /\ sigterm = FALSE
  /\ files = TRUE
  /\ backlog = <<>>
  /\ serving = NoClient
  /\ conn = [c \in Client |-> "idle"]
  /\ request = [c \in Client |-> NoRequest]
  /\ reply = [c \in Client |-> NoAnswer]

-----------------------------------------------------------------------------
(* Clients.                                                                *)

\* The bound Apart.
MayAsk(c, r) ==
  \A d \in Client \ {c} :
    \/ conn[d] = "idle"
    \/ r \notin Apart /\ (conn[c] # "idle" \/ request[d] \notin Apart)

Connect(c, r) ==
  /\ MayAsk(c, r)
  /\ phase \in {"loop", "leaving"}
  /\ conn[c] \in {"idle", "answered", "failed"}
  /\ conn' = [conn EXCEPT ![c] = "connected"]
  /\ request' = [request EXCEPT ![c] = r]
  /\ reply' = [reply EXCEPT ![c] = NoAnswer]
  /\ backlog' = Append(backlog, c)
  /\ UNCHANGED <<smVars, phase, hadSessions, sigterm, files, serving>>

SendRequest(c) ==
  /\ conn[c] = "connected"
  /\ conn' = [conn EXCEPT ![c] = "sent"]
  /\ UNCHANGED <<smVars, phase, hadSessions, sigterm, files, backlog, serving,
                 request, reply>>

\* The client closes before its request is complete (is_daemon_running, a
\* client that dies), or after it, without waiting for the reply.
Disconnect(c) ==
  /\ \/ conn[c] = "connected" /\ conn' = [conn EXCEPT ![c] = "closed"]
     \/ conn[c] = "sent" /\ conn' = [conn EXCEPT ![c] = "deserted"]
  /\ UNCHANGED <<smVars, phase, hadSessions, sigterm, files, backlog, serving,
                 request, reply>>

SignalTerm ==
  /\ phase = "loop"
  /\ ~sigterm
  /\ sigterm' = TRUE
  /\ UNCHANGED <<smVars, phase, hadSessions, files, net>>

-----------------------------------------------------------------------------
(* The select loop.                                                        *)

Selecting == phase = "loop" /\ serving = NoClient

AcceptLeaving(rest) ==
  /\ Selecting
  /\ backlog # <<>>
  /\ serving' = Head(backlog)
  /\ backlog' = rest
  /\ UNCHANGED <<smVars, phase, hadSessions, sigterm, files, conn, request, reply>>

\* Mutant of Accept: the connection stays at the head of the backlog.
AcceptKeeps == AcceptLeaving(backlog)

Accept == AcceptLeaving(Tail(backlog))

\* Mutant of TakeSigterm: the signal is consumed and the loop goes on.
TakeSigtermIgnored ==
  Selecting /\ sigterm /\ sigterm' = FALSE /\ UNCHANGED <<smVars, phase, hadSessions, files, net>>

TakeSigterm ==
  /\ Selecting
  /\ sigterm
  /\ phase' = "leaving"
  /\ UNCHANGED <<smVars, hadSessions, sigterm, files, net>>

\* A tick after which had_sessions is `seen`.
TickSeeing(seen) ==
  /\ Selecting
  /\ ReapDead
  /\ hadSessions' = seen
  /\ phase' = IF seen /\ Active' = {} THEN "leaving" ELSE phase
  /\ UNCHANGED <<sigterm, files, net>>

\* Mutant of ReapTick: takes a table in which nobody reads for an empty one.
ReapTickUnread ==
  /\ Selecting
  /\ ReapDead
  /\ hadSessions' = (hadSessions \/ Active' # {})
  /\ phase' = IF hadSessions' /\ \A n \in Active' : reader[sessions[n]] # "reading"
                THEN "leaving" ELSE phase
  /\ UNCHANGED <<sigterm, files, net>>

\* Mutant of ReapTick: forgets the sessions it saw once they are gone.
ReapTickForgets == TickSeeing(Active' # {})

ReapTick == TickSeeing(hadSessions \/ Active' # {})

\* Mutant of HandleClosed: keeps reading from a connection that is gone.
HandleClosedRetries(c) == phase = "loop" /\ serving = c /\ conn[c] = "closed" /\ UNCHANGED vars

\* read_msg fails: the connection is dropped without a reply.
HandleClosed(c) ==
  /\ phase = "loop"
  /\ serving = c
  /\ conn[c] = "closed"
  /\ serving' = NoClient
  /\ conn' = [conn EXCEPT ![c] = "idle"]
  /\ request' = [request EXCEPT ![c] = NoRequest]
  /\ UNCHANGED <<smVars, phase, hadSessions, sigterm, files, backlog, reply>>

-----------------------------------------------------------------------------
(* dispatch, dispatch_command and the reply.                               *)

\* The manager call of a request; Ping, KillServer, and the messages and
\* commands dispatch rejects make none.
ManagerCall(r) ==
  \/ r.op = "create" /\ Create(r.name)
  \/ r.op = "kill" /\ Kill(r.name)
  \/ r.op = "list" /\ List
  \/ r.op = "send" /\ Send(r.name)
  \/ r.op \in {"view_screen", "hardcopy"} /\ View(r.name)
  \/ r.op = "resize" /\ Resize(r.name)
  \/ r.op \in {"kill_server", "ping", "bad"} /\ open /\ UNCHANGED smVars

\* ViewScreen reports a session whose child ended, hardcopy does not look.
ReplyTo(r) ==
  CASE r.op = "kill_server" \/ r.op = "ping" -> Answer("ok", Unnamed, {})
    [] r.op = "bad" -> Answer("rejected", Unnamed, {})
    [] r.op = "list" -> Answer("ok", Unnamed, Active)
    [] r.op = "view_screen" /\ ret'.result = "ok" /\ ~IsAlive(sessions[r.name]) ->
         Answer("exited", r.name, {})
    [] OTHER -> Answer(ret'.result, ret'.name, {})

Panicked(r) == r.op \in {"view_screen", "hardcopy", "resize"} /\ ret'.result = "panicked"

\* Closing the listening socket resets every connection that was not served.
ResetConnections ==
  /\ conn' = [c \in Client |->
                CASE conn[c] \in {"connected", "sent"} -> "failed"
                  [] conn[c] \in {"closed", "deserted"} -> "idle"
                  [] OTHER -> conn[c]]
  /\ request' = [c \in Client |-> NoRequest]
  /\ backlog' = <<>>

\* The process unwinds: the manager is dropped, nothing removes the files,
\* and every connection is reset.
Crash ==
  /\ phase' = "crashed"
  /\ serving' = NoClient
  /\ ResetConnections
  /\ UNCHANGED reply

Respond(c) ==
  /\ phase' = IF request[c].op = "kill_server" THEN "leaving" ELSE phase
  /\ IF conn[c] = "sent"
       THEN /\ conn' = [conn EXCEPT ![c] = "answered"]
            /\ reply' = [reply EXCEPT ![c] = ReplyTo(request[c])]
       ELSE conn' = [conn EXCEPT ![c] = "idle"] /\ UNCHANGED reply
  /\ request' = [request EXCEPT ![c] = NoRequest]
  /\ serving' = NoClient
  /\ UNCHANGED backlog

HandleRequest(c) ==
  /\ phase = "loop"
  /\ serving = c
  /\ conn[c] \in {"sent", "deserted"}
  /\ ManagerCall(request[c])
  /\ IF Panicked(request[c]) THEN Crash ELSE Respond(c)
  /\ UNCHANGED <<hadSessions, sigterm, files>>

-----------------------------------------------------------------------------
(* After break: the listener goes, then the files, then the manager.       *)

CloseListener ==
  /\ phase = "leaving"
  /\ phase' = "closed"
  /\ ResetConnections
  /\ UNCHANGED <<smVars, hadSessions, sigterm, files, serving, reply>>

RemoveFiles ==
  /\ phase = "closed"
  /\ phase' = "cleaned"
  /\ files' = FALSE
  /\ UNCHANGED <<smVars, hadSessions, sigterm, net>>

ExitWith(drop) ==
  /\ phase = "cleaned"
  /\ drop
  /\ phase' = "exited"
  /\ UNCHANGED <<hadSessions, sigterm, files, net>>

\* Mutant of Exit: process::exit instead of a return, so nothing is dropped.
ExitWithoutDrop == ExitWith(UNCHANGED smVars)

Exit == ExitWith(DropManager)

\* Children, terminals and readers, for as long as the daemon process exists.
Outside ==
  /\ phase \notin {"exited", "crashed"}
  /\ Environment
  /\ UNCHANGED <<phase, hadSessions, sigterm, files, net>>

ClientStep == \E c \in Client :
  (\E r \in Request : Connect(c, r)) \/ SendRequest(c) \/ Disconnect(c)

LoopStep ==
  \/ Accept \/ TakeSigterm \/ ReapTick
  \/ \E c \in Client : HandleClosed(c) \/ HandleRequest(c)

NextDaemon ==
  \/ ClientStep \/ SignalTerm \/ LoopStep
  \/ CloseListener \/ RemoveFiles \/ Exit
  \/ Outside

SpecDaemon == InitDaemon /\ [][NextDaemon]_vars

(***************************************************************************)
(* Fairness. A client writes its request or dies, and one that wrote it    *)
(* waits for as long as it takes. handle_one runs to its end once the      *)
(* request is readable (a PTY write is taken to complete). tokio's select! *)
(* polls its branches in random order and the interval keeps ticking, so a *)
(* branch that is ready at infinitely many selects is taken: strong        *)
(* fairness. The OS schedules the reader threads.                          *)
(***************************************************************************)
Fairness ==
  /\ \A c \in Client :
       /\ WF_vars(conn[c] = "connected" /\ (SendRequest(c) \/ Disconnect(c)))
       /\ WF_vars(HandleClosed(c) \/ HandleRequest(c))
  /\ SF_vars(Accept)
  /\ SF_vars(TakeSigterm)
  /\ SF_vars(ReapTick)
  /\ WF_vars(CloseListener \/ RemoveFiles \/ Exit)
  /\ \A p \in Pid : WF_vars(ReaderEnds(p) /\ Outside)

FairDaemon == SpecDaemon /\ Fairness
-----------------------------------------------------------------------------
(* What the daemon promises.                                               *)

\* Type correctness of the loop's and the connections' state (daemon.rs run).
TypeOKDaemon ==
  /\ TypeOK
  /\ phase \in Phases
  /\ {hadSessions, sigterm, files} \subseteq BOOLEAN
  /\ backlog \in Seq(Client)
  /\ serving \in Client \cup {NoClient}
  /\ conn \in [Client -> ConnStates]
  /\ request \in [Client -> [op : ReqOps, name : Name \cup {Unnamed}]]
  /\ \A c \in Client : reply[c].result \in Results \cup {"rejected", "exited"}

\* Every open connection is in exactly one place: waiting once in the backlog
\* or being served; so no request is served twice and none is lost.
ConnectionsAccounted ==
  \A c \in Client :
    LET places == Cardinality({i \in 1 .. Len(backlog) : backlog[i] = c})
                  + (IF serving = c THEN 1 ELSE 0)
    IN  places = IF conn[c] \in {"connected", "sent", "closed", "deserted"} THEN 1 ELSE 0

\* However the daemon stops - KillServer, SIGTERM, auto-exit or a panic - it
\* leaves no session behind and no child running that it has not signalled.
StopsClean ==
  phase \in {"exited", "crashed"} =>
    /\ Active = {}
    /\ \A p \in Pid : proc[p] = "running" => signalled[p] # "none"

\* Every request a client has sent and waits for is answered, or its connection
\* is reset because the daemon stops: one stalled client delays the others only
\* until it writes or dies.
RequestsAnswered == \A c \in Client : conn[c] = "sent" ~> conn[c] # "sent"

\* A session whose reader saw the end of its terminal leaves the table.
EndedSessionsReaped == \A p \in Pid : reader[p] = "ended" ~> ~Owned(p)

\* Once a tick has seen a session, the daemon exits when the last one has ended
\* and no other comes.
AutoExitAfterSeen ==
  <>hadSessions /\ <>[](Active = {}) => <>(phase # "loop")

\* SIGTERM and KillServer always end the daemon, busy clients or not.
StopsWhenAsked == (sigterm \/ phase = "leaving") ~> phase \in {"exited", "crashed"}

-----------------------------------------------------------------------------
(* The daemon implements the directory of SessionDirectory.                *)

CallOf(c) ==
  CASE conn[c] \in {"connected", "sent"} -> "pending"
    [] conn[c] \in {"closed", "deserted"} -> "gone"
    [] conn[c] = "answered" -> "done"
    [] OTHER -> conn[c]

Directory == INSTANCE SessionDirectory WITH
  dir <- Active,
  ended <- Dead,
  used <- hadSessions,
  told <- sigterm,
  status <- CASE phase = "loop" -> "serving" [] phase = "leaving" -> "leaving"
              [] OTHER -> "stopped",
  call <- [c \in Client |-> CallOf(c)],
  asked <- request,
  answer <- reply

\* To its clients the daemon is a directory of names: every call takes effect
\* once, between its invocation and its answer, and the answers agree with the
\* names in it, whatever children, readers and other clients do meanwhile. A name
\* goes only by its kill, after its program has ended, or with the daemon; and the
\* auto-exit takes no name with it, however creates and ticks interleave.
ImplementsDirectory == Directory!SpecDirectory

-----------------------------------------------------------------------------
(* Claims of the documentation that the code does not keep.                *)

\* daemon.rs: "Auto-exits when all sessions have ended (after at least one was
\* created)". had_sessions is only set by a tick that finds a session.
AutoExitsWhenAllEnded ==
  (<>(Active # {}) /\ <>[](Active = {})) => <>(phase # "loop")
=============================================================================
