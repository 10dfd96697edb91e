--------------------------- MODULE DaemonStartup ---------------------------
(***************************************************************************)
(* How daemons come and go (src/platform.rs, src/daemon.rs run, Unix).     *)
(* Clients run ensure_daemon and then call; a daemon process writes the    *)
(* pid file, removes whatever socket is there, binds its own, serves, and  *)
(* on the way out removes the pid file and the socket. Every file          *)
(* operation is a step of its own and works on a path, whoever the file    *)
(* belongs to; nothing is locked. Processes may be terminated or killed.   *)
(* Of the file operations only bind is taken to fail. The sessions are     *)
(* those of create; what else clients do with them is in Daemon.           *)
(***************************************************************************)
EXTENDS Naturals, FiniteSets

CONSTANTS
  Client,   \* processes that create a session, each at most one at a time
  Daemon,   \* daemon processes that can be spawned; the bound on spawns
  NoDaemon

ASSUME DaemonAssumption == NoDaemon \notin Daemon

VARIABLES
  pidFile,  \* whose pid daemon.pid holds
  path,     \* whose socket daemon.sock is
  state,    \* state[d]: where run of daemon d stands
  had,      \* had[d]: had_sessions
  holds,    \* holds[d]: the clients whose session is in d
  client,   \* client[c]: where run_create of c stands
  target    \* target[c]: the daemon c is connected to

files == <<pidFile, path>>
daemons == <<state, had, holds>>
clients == <<client, target>>
vars == <<files, daemons, clients>>

Starting == {"spawned", "started", "unlinked"}
Leaving == {"leaving", "closed", "unfiled", "bare"}
States == {"unused", "bound", "looping", "failed", "exited", "killed"} \cup Starting \cup Leaving
ClientStates == {"idle", "spawning", "polling", "ready", "calling", "created", "failed"}

\* The listening socket of d is open.
Listening(d) == state[d] \in {"bound", "looping", "leaving"}

\* connect(socket_path()) succeeds: is_daemon_running.
Reachable == path # NoDaemon /\ Listening(path)

Init ==
  /\ pidFile = NoDaemon
  /\ path = NoDaemon
  /\ state = [d \in Daemon |-> "unused"]
  /\ had = [d \in Daemon |-> FALSE]
  /\ holds = [d \in Daemon |-> {}]
  /\ client = [c \in Client |-> "idle"]
  /\ target = [c \in Client |-> NoDaemon]

-----------------------------------------------------------------------------
(* Clients: ensure_daemon, then rpc.                                       *)

ClientGoes(c, from, to) == client[c] = from /\ client' = [client EXCEPT ![c] = to]

Check(c) ==
  /\ \/ Reachable /\ ClientGoes(c, "idle", "ready")
     \/ ~Reachable /\ ClientGoes(c, "idle", "spawning")
  /\ UNCHANGED <<files, daemons, target>>

SpawnDaemon(c) ==
  /\ \/ \E d \in Daemon :
          /\ state[d] = "unused"
          /\ state' = [state EXCEPT ![d] = "spawned"]
          /\ ClientGoes(c, "spawning", "polling")
     \/ ClientGoes(c, "spawning", "failed") /\ UNCHANGED state
  /\ UNCHANGED <<files, had, holds, target>>

Poll(c) ==
  /\ Reachable
  /\ ClientGoes(c, "polling", "ready")
  /\ UNCHANGED <<files, daemons, target>>

TimeOut(c) ==
  /\ ClientGoes(c, "polling", "failed")
  /\ UNCHANGED <<files, daemons, target>>

Dial(c) ==
  /\ \/ /\ Reachable
        /\ ClientGoes(c, "ready", "calling")
        /\ target' = [target EXCEPT ![c] = path]
     \/ ~Reachable /\ ClientGoes(c, "ready", "failed") /\ UNCHANGED target
  /\ UNCHANGED <<files, daemons>>

\* The command is run again.
Again(c) ==
  /\ ClientGoes(c, "failed", "idle")
  /\ UNCHANGED <<files, daemons, target>>

-----------------------------------------------------------------------------
(* The daemon: run, create_listener, run_unix, remove_pid_file.            *)

Goes(d, from, to) == state[d] = from /\ state' = [state EXCEPT ![d] = to]

WritePidFile(d) ==
  /\ Goes(d, "spawned", "started")
  /\ pidFile' = d
  /\ UNCHANGED <<path, had, holds, clients>>

\* Mutant of RemoveStale: a socket left behind is not removed.
RemoveStaleSkipped(d) ==
  /\ Goes(d, "started", "unlinked")
  /\ UNCHANGED <<files, had, holds, clients>>

RemoveStale(d) ==
  /\ Goes(d, "started", "unlinked")
  /\ path' = NoDaemon
  /\ UNCHANGED <<pidFile, had, holds, clients>>

\* Mutant of Bind: a daemon that lost the race tidies up before it exits.
BindTidies(d) ==
  /\ \/ path = NoDaemon /\ Goes(d, "unlinked", "bound") /\ path' = d
     \/ path # NoDaemon /\ Goes(d, "unlinked", "failed") /\ path' = NoDaemon
  /\ UNCHANGED <<pidFile, had, holds, clients>>

\* Mutant of Bind: the socket is cleaned up after the bind and not before.
BindUnlinks(d) ==
  /\ Goes(d, "unlinked", "bound")
  /\ path' = NoDaemon
  /\ UNCHANGED <<pidFile, had, holds, clients>>

\* bind fails on a path that exists; run then returns without cleaning up.
Bind(d) ==
  /\ \/ path = NoDaemon /\ Goes(d, "unlinked", "bound") /\ path' = d
     \/ path # NoDaemon /\ Goes(d, "unlinked", "failed") /\ UNCHANGED path
  /\ UNCHANGED <<pidFile, had, holds, clients>>

InstallHandler(d) ==
  /\ Goes(d, "bound", "looping")
  /\ UNCHANGED <<files, had, holds, clients>>

\* Mutant of Serve: the connection stays open after the reply.
ServeKeepsConnection(d, c) ==
  /\ state[d] = "looping"
  /\ target[c] = d
  /\ ClientGoes(c, "calling", "created")
  /\ holds' = [holds EXCEPT ![d] = @ \cup {c}]
  /\ UNCHANGED <<files, state, had, target>>

Serve(d, c) ==
  /\ state[d] = "looping"
  /\ target[c] = d
  /\ ClientGoes(c, "calling", "created")
  /\ target' = [target EXCEPT ![c] = NoDaemon]
  /\ holds' = [holds EXCEPT ![d] = @ \cup {c}]
  /\ UNCHANGED <<files, state, had>>

\* Clients whose session is gone may start over.
Without(gone) == [c \in Client |-> IF c \in gone THEN "idle" ELSE client[c]]

\* Any of the sessions may have ended by the time of a tick.
Tick(d) == \E dead \in SUBSET holds[d] :
  /\ state[d] = "looping"
  /\ holds' = [holds EXCEPT ![d] = @ \ dead]
  /\ client' = Without(dead)
  /\ IF had[d] /\ holds'[d] = {}
       THEN Goes(d, "looping", "leaving") /\ UNCHANGED had
       ELSE had' = [had EXCEPT ![d] = @ \/ holds'[d] # {}] /\ UNCHANGED state
  /\ UNCHANGED <<files, target>>

\* KillServer, from whoever reaches d by the path.
StopServer(d) ==
  /\ path = d
  /\ Goes(d, "looping", "leaving")
  /\ UNCHANGED <<files, had, holds, clients>>

\* Connections to d are reset when its listener, or d itself, goes away.
Reset(d) ==
  /\ target' = [c \in Client |-> IF target[c] = d THEN NoDaemon ELSE target[c]]
  /\ client' = [c \in Client |-> IF target[c] = d THEN "failed" ELSE client[c]]

CloseListener(d) ==
  /\ Goes(d, "leaving", "closed")
  /\ Reset(d)
  /\ UNCHANGED <<files, had, holds>>

RemovePidFile(d) ==
  /\ Goes(d, "closed", "unfiled")
  /\ pidFile' = NoDaemon
  /\ UNCHANGED <<path, had, holds, clients>>

\* Mutant of RemoveSocket: only the pid file is removed.
RemoveSocketSkipped(d) ==
  /\ Goes(d, "unfiled", "bare")
  /\ UNCHANGED <<files, had, holds, clients>>

\* Whichever daemon's socket it is by now.
RemoveSocket(d) ==
  /\ Goes(d, "unfiled", "bare")
  /\ path' = NoDaemon
  /\ UNCHANGED <<pidFile, had, holds, clients>>

Exit(d) ==
  /\ Goes(d, "bare", "exited")
  /\ holds' = [holds EXCEPT ![d] = {}]
  /\ client' = Without(holds[d])
  /\ UNCHANGED <<files, had, target>>

\* SIGTERM once the handler is installed.
Terminate(d) ==
  /\ Goes(d, "looping", "leaving")
  /\ UNCHANGED <<files, had, holds, clients>>

\* SIGKILL or a crash at any point, SIGTERM before the handler: the files stay.
Killed(d) ==
  /\ state[d] \in {"bound", "looping"} \cup Starting \cup Leaving
  /\ state' = [state EXCEPT ![d] = "killed"]
  /\ holds' = [holds EXCEPT ![d] = {}]
  /\ target' = [c \in Client |-> IF target[c] = d THEN NoDaemon ELSE target[c]]
  /\ client' = [c \in Client |-> IF target[c] = d THEN "failed" ELSE Without(holds[d])[c]]
  /\ UNCHANGED <<files, had>>

-----------------------------------------------------------------------------
DaemonStep(d) ==
  \/ WritePidFile(d) \/ RemoveStale(d) \/ Bind(d) \/ InstallHandler(d)
  \/ CloseListener(d) \/ RemovePidFile(d) \/ RemoveSocket(d) \/ Exit(d)

ClientStep(c) ==
  Check(c) \/ SpawnDaemon(c) \/ Poll(c) \/ TimeOut(c) \/ Dial(c) \/ Again(c)

Next ==
  \/ \E c \in Client : ClientStep(c)
  \/ \E d \in Daemon :
       \/ DaemonStep(d) \/ Tick(d) \/ StopServer(d) \/ Terminate(d) \/ Killed(d)
       \/ \E c \in Client : Serve(d, c)

Spec == Init /\ [][Next]_vars

\* A daemon process that is not killed runs on.
FairSpec == Spec /\ \A d \in Daemon : WF_vars(DaemonStep(d))
-----------------------------------------------------------------------------
(* What holds of any number of clients and daemons.                        *)

\* Type correctness of the files, the daemons and the clients (platform.rs); a
\* client has a connection exactly while it calls.
TypeOK ==
  /\ {pidFile, path} \subseteq Daemon \cup {NoDaemon}
  /\ state \in [Daemon -> States]
  /\ had \in [Daemon -> BOOLEAN]
  /\ holds \in [Daemon -> SUBSET Client]
  /\ client \in [Client -> ClientStates]
  /\ target \in [Client -> Daemon \cup {NoDaemon}]
  /\ \A c \in Client : target[c] # NoDaemon <=> client[c] = "calling"

\* Nobody waits on a daemon that will not answer: a caller's daemon still has
\* its listener, whatever the path names by then.
CallsAreHeard == \A c \in Client : client[c] = "calling" => Listening(target[c])

\* A session is in one daemon, and there as long as its creator counts on it,
\* also when that daemon has been cut off.
SessionsAreHeld ==
  \A c \in Client :
    client[c] = "created" <=> \E d \in Daemon : c \in holds[d] /\ state[d] \notin {"exited", "killed"}

\* However many daemons start at once, and however they remove each other's
\* socket, the last one standing can be reached: while none of them has begun
\* to leave or was killed, once one is up or has given up, the path leads to a
\* listening daemon or one is about to bind it.
RacesLeaveOneReachable ==
  (/\ \A d \in Daemon : state[d] \notin Leaving \cup {"exited", "killed"}
   /\ \E d \in Daemon : state[d] \in {"bound", "looping", "failed"})
  => Reachable \/ \E d \in Daemon : state[d] = "unlinked"

\* A serving daemon is cut off from its clients, and its sessions with it, only
\* if another daemon's start or exit reached the socket file.
OnlyRivalsCutOff ==
  \A d \in Daemon : state[d] \in {"bound", "looping"} /\ path # d =>
    \E e \in Daemon \ {d} : state[e] \notin {"unused", "spawned", "started"}

\* If no daemon was killed, the last one to go leaves neither file behind,
\* whichever of them wrote or bound what.
LastOneTidies ==
  (\A d \in Daemon : state[d] \in {"unused", "bare", "exited", "failed"})
  => path = NoDaemon /\ pidFile = NoDaemon

\* A socket left by a daemon that was killed does not keep a new one from
\* coming up: unless it is killed itself, the path becomes reachable.
StartsDespiteStaleSocket ==
  \A d \in Daemon : state[d] = "spawned" ~> (Reachable \/ state[d] = "killed")

-----------------------------------------------------------------------------
(* Claims of comments and documents that the code does not keep.           *)

\* analysis-dataflow-and-bugs.md, ISSUE-4: of two daemons started at once the
\* one that fails exits and the clients reach the other. On Unix both serve.
OneServes ==
  \A d, e \in Daemon : state[d] = "looping" /\ state[e] = "looping" => d = e
=============================================================================
