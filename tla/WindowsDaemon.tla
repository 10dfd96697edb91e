--------------------------- MODULE WindowsDaemon ---------------------------
(***************************************************************************)
(* The daemon on Windows: the named pipe it serves (src/platform.rs,       *)
(* src/daemon.rs run_windows) and the processes behind its sessions        *)
(* (src/pty/windows.rs). A pipe has instances: a client opens one that     *)
(* listens, finds all of them busy, or finds no such pipe. A session is a  *)
(* child process, a pseudo console and a job object that holds the child   *)
(* and what it starts; the console's output does not end with the child.   *)
(* Names, requests and replies are those of SessionManager and Daemon: a   *)
(* client here creates a session, hangs one up, stops the daemon or only   *)
(* opens the pipe and closes it (is_daemon_running).                       *)
(***************************************************************************)
EXTENDS Naturals, FiniteSets

CONSTANTS
  Daemon, NoDaemon,
  Client,
  Pid,        \* child processes; the bound on spawns
  Listening,  \* an instance of the pipe that waits for a client
  NoPipe,     \* no such instance
  Retries     \* PIPE_RETRY_MAX_ATTEMPTS

ASSUME WindowsAssumption ==
  /\ NoDaemon \notin Daemon
  /\ {Listening, NoPipe} \cap Client = {}
  /\ Listening # NoPipe
  /\ Retries \in Nat

VARIABLES
  state,    \* state[d]: where run of daemon d stands
  pipe,     \* pipe[d]: the instance in hand: waiting, or opened by a client
  next,     \* next[d]: the one created before a client is handled
  client,   \* client[c]: where its call stands
  tries,    \* tries[c]: how often it found the pipe busy
  owner,    \* owner[p]: whose table has the session of child p
  child,    \* child[p]: "none" (nothing spawned yet), "running", "ended", or
            \* "never": the spawn failed half-way
  strays,   \* strays[p]: where processes run that the child started: "in" its
            \* job, "out" of it
  job,      \* job[p]: "none" (could not be created), "holds" the child, "empty"
  console,  \* console[p]: the daemon that holds its pseudo console open
  reader    \* reader[p]: the reader thread of the session

daemons == <<state, pipe, next>>
clients == <<client, tries>>
processes == <<child, strays>>
sessions == <<owner, job, console, reader>>
vars == <<daemons, clients, processes, sessions>>

Running == {"serving", "handling"}
Instances(d) == {i \in {pipe[d], next[d]} : i # NoPipe}
PipeExists == \E d \in Daemon : Instances(d) # {}
Calls == {"create", "hangup", "stop"}

Init ==
  /\ state = [d \in Daemon |-> "unused"]
  /\ pipe = [d \in Daemon |-> NoPipe]
  /\ next = [d \in Daemon |-> NoPipe]
  /\ client = [c \in Client |-> "idle"]
  /\ tries = [c \in Client |-> 0]
  /\ owner = [p \in Pid |-> NoDaemon]
  /\ child = [p \in Pid |-> "none"]
  /\ strays = [p \in Pid |-> {}]
  /\ job = [p \in Pid |-> "none"]
  /\ console = [p \in Pid |-> NoDaemon]
  /\ reader = [p \in Pid |-> "none"]

-----------------------------------------------------------------------------
(* Clients: connect_daemon and one call.                                   *)

\* The server end of whatever a client opens is d's.
Open(c) ==
  /\ client[c] \in {"idle", "retrying"}
  /\ \E d \in Daemon :
       \/ pipe[d] = Listening /\ pipe' = [pipe EXCEPT ![d] = c] /\ UNCHANGED next
       \/ next[d] = Listening /\ next' = [next EXCEPT ![d] = c] /\ UNCHANGED pipe
  /\ client' = [client EXCEPT ![c] = "open"]
  /\ tries' = [tries EXCEPT ![c] = 0]
  /\ UNCHANGED <<state, processes, sessions>>

\* ERROR_PIPE_BUSY is tried again, any other error is not.
CannotOpen(c) ==
  /\ client[c] \in {"idle", "retrying"}
  /\ \A d \in Daemon : Listening \notin Instances(d)
  /\ IF PipeExists /\ tries[c] < Retries
       THEN client' = [client EXCEPT ![c] = "retrying"] /\ tries' = [tries EXCEPT ![c] = @ + 1]
       ELSE client' = [client EXCEPT ![c] = "failed"] /\ tries' = [tries EXCEPT ![c] = 0]
  /\ UNCHANGED <<daemons, processes, sessions>>

\* The client writes its request, or closes its end without one.
Ask(c) ==
  /\ client[c] = "open"
  /\ \E call \in Calls \cup {"closed"} : client' = [client EXCEPT ![c] = call]
  /\ UNCHANGED <<daemons, tries, processes, sessions>>

Again(c) ==
  /\ client[c] \in {"failed", "answered"}
  /\ client' = [client EXCEPT ![c] = "idle"]
  /\ UNCHANGED <<daemons, tries, processes, sessions>>

-----------------------------------------------------------------------------
(* Sessions: spawn, is_alive and Drop.                                     *)

\* CreateProcess has succeeded. The child runs before it is assigned to its job
\* and may have started something by then; nobody looks whether assigning it
\* worked, or whether there is a job. Without a second handle there is no reader.
Spawned(d, p) ==
  /\ child' = [child EXCEPT ![p] = "running"]
  /\ \E early \in {{}, {"out"}} : strays' = [strays EXCEPT ![p] = early]
  /\ \E j \in {"none", "holds", "empty"} : job' = [job EXCEPT ![p] = j]
  /\ \E r \in {"none", "reading"} : reader' = [reader EXCEPT ![p] = r]
  /\ owner' = [owner EXCEPT ![p] = d]
  /\ console' = [console EXCEPT ![p] = d]

\* Between CreatePseudoConsole and CreateProcess, spawn returns without closing
\* the console.
SpawnAbandons(d, p) ==
  /\ console' = [console EXCEPT ![p] = d]
  /\ child' = [child EXCEPT ![p] = "never"]
  /\ UNCHANGED <<strays, job, owner, reader>>

\* No pipe, console or process: what had been made is closed.
SpawnFails == UNCHANGED <<processes, sessions>>

Spawn(d) ==
  \/ \E p \in Pid : child[p] = "none" /\ (Spawned(d, p) \/ SpawnAbandons(d, p))
  \/ SpawnFails

\* Mutant of IsAlive: only the reader's flag, as if the output ended with the child.
IsAliveByReader(p) == reader[p] # "ended"

\* The reader's flag, and the handle of the child.
IsAlive(p) == reader[p] # "ended" /\ child[p] = "running"

Without(P) == [p \in Pid |-> IF p \in P THEN NoDaemon ELSE owner[p]]
Close(P) == [p \in Pid |-> IF p \in P THEN NoDaemon ELSE console[p]]

\* TerminateJobObject, or the last handle of a job that kills on close: what is
\* in the jobs of P ends, and `alone` are the children that are terminated
\* outside of one.
Terminate(P, alone) ==
  /\ child' = [p \in Pid |-> IF p \in P /\ child[p] = "running" /\ (job[p] = "holds" \/ p \in alone)
                               THEN "ended" ELSE child[p]]
  /\ strays' = [p \in Pid |-> IF p \in P /\ job[p] = "holds" THEN strays[p] \ {"in"} ELSE strays[p]]

DropWith(P, consoles) ==
  /\ Terminate(P, {p \in P : job[p] = "none"})
  /\ owner' = Without(P)
  /\ console' = consoles
  /\ UNCHANGED <<job, reader>>

\* Mutant of Drop: a PtyMaster that goes does not close its pseudo console.
DropKeepsConsole(P) == DropWith(P, console)

\* Session::drop kills, PtyMaster::drop closes the console.
Drop(P) == DropWith(P, Close(P))

Table(d) == {p \in Pid : owner[p] = d}

-----------------------------------------------------------------------------
(* The daemon's loop.                                                      *)

Goes(d, from, to) == state[d] = from /\ state' = [state EXCEPT ![d] = to]

Start(d) ==
  /\ Goes(d, "unused", "starting")
  /\ UNCHANGED <<pipe, next, clients, processes, sessions>>

CreatePipe(d, exclusive) ==
  /\ IF exclusive /\ PipeExists
       THEN Goes(d, "starting", "failed") /\ UNCHANGED pipe
       ELSE Goes(d, "starting", "serving") /\ pipe' = [pipe EXCEPT ![d] = Listening]
  /\ UNCHANGED <<next, clients, processes, sessions>>

\* Mutant of CreateFirst: without first_pipe_instance.
CreateAny(d) == CreatePipe(d, FALSE)

CreateFirst(d) == CreatePipe(d, TRUE)

\* A client has opened the instance: the next one is created before the client
\* is handled, so that the pipe stays there when its instance is dropped.
Connect(d) ==
  /\ pipe[d] \in Client
  /\ Goes(d, "serving", "handling")
  /\ next' = [next EXCEPT ![d] = Listening]
  /\ UNCHANGED <<pipe, clients, processes, sessions>>

\* The client had closed its end before the daemon waited for it: connect fails,
\* and another instance is there before this one is dropped.
ConnectFails(d) == \E c \in Client :
  /\ state[d] = "serving"
  /\ pipe[d] = c
  /\ client[c] = "closed"
  /\ client' = [client EXCEPT ![c] = "idle"]
  /\ pipe' = [pipe EXCEPT ![d] = Listening]
  /\ UNCHANGED <<state, next, tries, processes, sessions>>

Effect(d, call) ==
  CASE call = "create" -> Spawn(d)
    [] call = "hangup" /\ Table(d) # {} -> \E p \in Table(d) : Drop({p})
    [] OTHER -> UNCHANGED <<processes, sessions>>

\* handle_one, and pipe = next.
Handle(d) == \E c \in Client :
  /\ pipe[d] = c
  /\ client[c] \in Calls \cup {"closed"}
  /\ Effect(d, client[c])
  /\ Goes(d, "handling", IF client[c] = "stop" THEN "leaving" ELSE "serving")
  /\ client' = [client EXCEPT ![c] = IF client[c] = "closed" THEN "idle" ELSE "answered"]
  /\ pipe' = [pipe EXCEPT ![d] = next[d]]
  /\ next' = [next EXCEPT ![d] = NoPipe]
  /\ UNCHANGED tries

\* A tick reaps what is dead, and may find that no session is left.
Tick(d) ==
  /\ state[d] = "serving"
  /\ LET dead == {p \in Table(d) : ~IsAlive(p)}
     IN  /\ Drop(dead)
         /\ \/ UNCHANGED state
            \/ Table(d) = dead /\ Goes(d, "serving", "leaving")
  /\ UNCHANGED <<pipe, next, clients>>

CtrlC(d) ==
  /\ Goes(d, "serving", "leaving")
  /\ UNCHANGED <<pipe, next, clients, processes, sessions>>

\* d's ends of the pipe are closed; clients that had opened them fail.
DropPipe(d) ==
  /\ pipe' = [pipe EXCEPT ![d] = NoPipe]
  /\ next' = [next EXCEPT ![d] = NoPipe]
  /\ client' = [c \in Client |-> IF c \in Instances(d) THEN "failed" ELSE client[c]]
  /\ UNCHANGED tries

\* run_windows returns, after break or because no next instance can be created.
LeaveLoop(d) ==
  /\ \/ Goes(d, "leaving", "ending")
     \/ pipe[d] \in Client /\ Goes(d, "serving", "ending")
  /\ DropPipe(d)
  /\ UNCHANGED <<processes, sessions>>

\* Windows closes what is left of a process that ends: consoles, threads and the
\* last handles of its jobs.
ProcessGone(d) ==
  /\ console' = Close({p \in Pid : console[p] = d})
  /\ reader' = [p \in Pid |-> IF console[p] = d /\ reader[p] = "reading" THEN "ended" ELSE reader[p]]
  /\ owner' = Without(Table(d))
  /\ UNCHANGED job

\* run returns, its manager is dropped, and the process ends.
Exit(d) ==
  /\ Goes(d, "ending", "exited")
  /\ Terminate(Table(d), {p \in Table(d) : job[p] = "none"})
  /\ ProcessGone(d)
  /\ UNCHANGED <<pipe, next, clients>>

KilledWith(d, processesEnd) ==
  /\ state[d] \in Running \cup {"starting", "leaving", "ending"}
  /\ state' = [state EXCEPT ![d] = "killed"]
  /\ DropPipe(d)
  /\ processesEnd
  /\ ProcessGone(d)

\* Mutant of Killed: job objects without JOB_OBJECT_LIMIT_KILL_ON_JOB_CLOSE.
KilledJobsGoOn(d) == KilledWith(d, UNCHANGED processes)

\* TerminateProcess or a crash: no destructor runs.
Killed(d) == KilledWith(d, Terminate(Table(d), {}))

-----------------------------------------------------------------------------
(* Children, what they start, and readers.                                 *)

ChildStarts(p) ==
  /\ child[p] = "running"
  /\ strays' = [strays EXCEPT ![p] = @ \cup {IF job[p] = "holds" THEN "in" ELSE "out"}]
  /\ UNCHANGED <<daemons, clients, child, sessions>>

ChildExits(p) ==
  /\ child[p] = "running"
  /\ child' = [child EXCEPT ![p] = "ended"]
  /\ UNCHANGED <<daemons, clients, strays, sessions>>

StraysExit(p) ==
  /\ strays[p] # {}
  /\ strays' = [strays EXCEPT ![p] = {}]
  /\ UNCHANGED <<daemons, clients, child, sessions>>

\* The output ends (ERROR_BROKEN_PIPE) when the console is closed, and not before.
ReaderEnds(p) ==
  /\ reader[p] = "reading"
  /\ console[p] = NoDaemon
  /\ reader' = [reader EXCEPT ![p] = "ended"]
  /\ UNCHANGED <<daemons, clients, processes, owner, job, console>>

-----------------------------------------------------------------------------
ClientStep == \E c \in Client : Open(c) \/ CannotOpen(c) \/ Ask(c) \/ Again(c)
LoopStep(d) == Connect(d) \/ ConnectFails(d) \/ Handle(d) \/ LeaveLoop(d) \/ Exit(d)
DaemonStep(d) ==
  Start(d) \/ CreateFirst(d) \/ LoopStep(d) \/ Tick(d) \/ CtrlC(d) \/ Killed(d)
Outside == \E p \in Pid :
  ChildStarts(p) \/ ChildExits(p) \/ StraysExit(p) \/ ReaderEnds(p)

Next == ClientStep \/ (\E d \in Daemon : DaemonStep(d)) \/ Outside

Spec == Init /\ [][Next]_vars

\* A client that opened the pipe asks or closes it; the loop is scheduled, and
\* select! polls its branches in random order, so a tick that finds something to
\* reap is taken in the end. Nothing makes the daemon leave.
FairSpec ==
  /\ Spec
  /\ \A c \in Client : WF_vars(Ask(c))
  /\ \A d \in Daemon : WF_vars(LoopStep(d)) /\ SF_vars(Tick(d) /\ UNCHANGED state)
  /\ \A p \in Pid : WF_vars(ReaderEnds(p))
-----------------------------------------------------------------------------
(* What holds on Windows.                                                  *)

\* Only one daemon has instances of the pipe, however many are started at once:
\* the name is there without a gap from the first instance to the loop's end, so
\* first_pipe_instance refuses every other.
OnePipeServer ==
  \A d, e \in Daemon : Instances(d) # {} /\ Instances(e) # {} => d = e

\* No process outlives its session inside the session's job, whether it is hung
\* up or reaped or the daemon exits or is killed.
JobsLeaveNothing ==
  \A p \in Pid : owner[p] = NoDaemon /\ job[p] = "holds" =>
    child[p] # "running" /\ "in" \notin strays[p]

\* A session whose child has ended leaves the table, although its output has not
\* ended: liveness does not hang on the reader.
EndedReaped == \A p \in Pid : child[p] = "ended" ~> owner[p] = NoDaemon

\* No reader thread outlives its session: closing the console ends its output.
ReadersEnd == \A p \in Pid :
  reader[p] = "reading" /\ owner[p] = NoDaemon ~> reader[p] # "reading"
=============================================================================
