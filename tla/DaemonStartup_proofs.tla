------------------------ MODULE DaemonStartup_proofs ------------------------
(* Safety of the start and the end of daemons, for any number of clients   *)
(* and of daemon processes.                                                *)
EXTENDS DaemonStartup, TLAPS

Gone == {"exited", "killed"}

\* What the path names has bound and has not yet removed a socket.
PathHasOwner ==
  path # NoDaemon => state[path] \in {"bound", "looping", "leaving", "closed", "unfiled", "killed"}

\* A pid file that is there after its owner's was removed is from a daemon
\* that has yet to remove the socket.
RewrittenPidFile ==
  (path # NoDaemon /\ state[path] = "unfiled" /\ pidFile # NoDaemon)
  => \E d \in Daemon : state[d] \in {"started", "killed"}

\* A pid file is there only while somebody may still remove it.
PidFileHasOwner ==
  pidFile # NoDaemon =>
    \E d \in Daemon :
      state[d] \in {"started", "unlinked", "bound", "looping", "leaving", "closed", "killed"}

\* A session is in one daemon, and in none that is gone.
HeldOnce ==
  /\ \A d, e \in Daemon : \A c \in Client : c \in holds[d] /\ c \in holds[e] => d = e
  /\ \A d \in Daemon : state[d] \in Gone => holds[d] = {}

Owners == PathHasOwner /\ RewrittenPidFile /\ PidFileHasOwner

IInv == /\ TypeOK
        /\ HeldOnce
        /\ Owners
        /\ CallsAreHeard
        /\ SessionsAreHeld
        /\ RacesLeaveOneReachable
        /\ OnlyRivalsCutOff

-----------------------------------------------------------------------------

\* The initial state satisfies the invariant.
LEMMA InitInv == Init => IInv
BY DaemonAssumption
   DEF Init, IInv, TypeOK, Owners, PathHasOwner, RewrittenPidFile, PidFileHasOwner, CallsAreHeard,
       SessionsAreHeld, HeldOnce, Gone, RacesLeaveOneReachable, OnlyRivalsCutOff, States, ClientStates,
       Starting, Leaving, Reachable, Listening

\* Every step keeps the types.
LEMMA TypeStep == TypeOK /\ HeldOnce /\ SessionsAreHeld /\ [Next]_vars => TypeOK'
<1> SUFFICES ASSUME TypeOK, HeldOnce, SessionsAreHeld, [Next]_vars PROVE TypeOK' OBVIOUS
<1> USE DaemonAssumption DEF TypeOK, HeldOnce, SessionsAreHeld, Gone, States, ClientStates,
        Starting, Leaving, files, clients, daemons, ClientGoes, Goes
<1>1. ASSUME NEW c \in Client, ClientStep(c) PROVE TypeOK'
  <2>1. CASE Check(c) BY <2>1 DEF Check
  <2>2. CASE SpawnDaemon(c) BY <2>2 DEF SpawnDaemon
  <2>3. CASE Poll(c) BY <2>3 DEF Poll
  <2>4. CASE TimeOut(c) BY <2>4 DEF TimeOut
  <2>5. CASE Dial(c) BY <2>5 DEF Dial, Reachable
  <2>6. CASE Again(c) BY <2>6 DEF Again
  <2> QED BY <1>1, <2>1, <2>2, <2>3, <2>4, <2>5, <2>6 DEF ClientStep
<1>2. ASSUME NEW d \in Daemon, DaemonStep(d) PROVE TypeOK'
  <2>1. CASE WritePidFile(d) BY <2>1 DEF WritePidFile
  <2>2. CASE RemoveStale(d) BY <2>2 DEF RemoveStale
  <2>3. CASE Bind(d) BY <2>3 DEF Bind
  <2>4. CASE InstallHandler(d) BY <2>4 DEF InstallHandler
  <2>5. CASE CloseListener(d) BY <2>5 DEF CloseListener, Reset
  <2>6. CASE RemovePidFile(d) BY <2>6 DEF RemovePidFile
  <2>7. CASE RemoveSocket(d) BY <2>7 DEF RemoveSocket
  <2>8. CASE Exit(d) BY <2>8 DEF Exit, Without
  <2> QED BY <1>2, <2>1, <2>2, <2>3, <2>4, <2>5, <2>6, <2>7, <2>8 DEF DaemonStep
<1>3. ASSUME NEW d \in Daemon, Tick(d) PROVE TypeOK'
  <2>1. PICK dead \in SUBSET holds[d] :
          /\ holds' = [holds EXCEPT ![d] = @ \ dead]
          /\ client' = Without(dead)
          /\ \/ Goes(d, "looping", "leaving") /\ UNCHANGED had
             \/ had' = [had EXCEPT ![d] = @ \/ holds'[d] # {}] /\ UNCHANGED state
          /\ state[d] = "looping"
          /\ UNCHANGED <<files, target>>
    BY <1>3 DEF Tick
  <2>2. \A c \in dead : client[c] = "created" BY <2>1
  <2>3. client' \in [Client -> ClientStates] /\ holds' \in [Daemon -> SUBSET Client]
    BY <2>1 DEF Without
  <2>4. state' \in [Daemon -> States] BY <2>1
  <2>5. had' \in [Daemon -> BOOLEAN] BY <2>1, Zenon
  <2>6. \A c \in Client : target'[c] # NoDaemon <=> client'[c] = "calling"
    BY <2>1, <2>2 DEF Without
  <2> QED BY <2>1, <2>3, <2>4, <2>5, <2>6
<1>4. ASSUME NEW d \in Daemon, StopServer(d) PROVE TypeOK' BY <1>4 DEF StopServer
<1>5. ASSUME NEW d \in Daemon, Terminate(d) PROVE TypeOK' BY <1>5 DEF Terminate
<1>6. ASSUME NEW d \in Daemon, Killed(d) PROVE TypeOK' BY <1>6 DEF Killed, Without
<1>7. ASSUME NEW d \in Daemon, NEW c \in Client, Serve(d, c) PROVE TypeOK' BY <1>7 DEF Serve
<1>8. CASE UNCHANGED vars BY <1>8 DEF vars
<1> QED BY <1>1, <1>2, <1>3, <1>4, <1>5, <1>6, <1>7, <1>8 DEF Next

\* Every step keeps each session in one daemon.
LEMMA SessionsStep == TypeOK /\ HeldOnce /\ SessionsAreHeld /\ [Next]_vars => (HeldOnce /\ SessionsAreHeld)'
<1> SUFFICES ASSUME TypeOK, HeldOnce, SessionsAreHeld, [Next]_vars PROVE (HeldOnce /\ SessionsAreHeld)' OBVIOUS
<1> USE DaemonAssumption DEF TypeOK, HeldOnce, SessionsAreHeld, Gone, States, ClientStates,
        Starting, Leaving, files, clients, daemons, ClientGoes, Goes
<1>1. ASSUME NEW c \in Client, ClientStep(c) PROVE (HeldOnce /\ SessionsAreHeld)'
  <2>1. CASE Check(c) BY <2>1 DEF Check
  <2>2. CASE SpawnDaemon(c) BY <2>2 DEF SpawnDaemon
  <2>3. CASE Poll(c) BY <2>3 DEF Poll
  <2>4. CASE TimeOut(c) BY <2>4 DEF TimeOut
  <2>5. CASE Dial(c) BY <2>5 DEF Dial, Reachable
  <2>6. CASE Again(c) BY <2>6 DEF Again
  <2> QED BY <1>1, <2>1, <2>2, <2>3, <2>4, <2>5, <2>6 DEF ClientStep
<1>2. ASSUME NEW d \in Daemon, DaemonStep(d) PROVE (HeldOnce /\ SessionsAreHeld)'
  <2>1. CASE WritePidFile(d) BY <2>1 DEF WritePidFile
  <2>2. CASE RemoveStale(d) BY <2>2 DEF RemoveStale
  <2>3. CASE Bind(d) BY <2>3 DEF Bind
  <2>4. CASE InstallHandler(d) BY <2>4 DEF InstallHandler
  <2>5. CASE CloseListener(d) BY <2>5 DEF CloseListener, Reset
  <2>6. CASE RemovePidFile(d) BY <2>6 DEF RemovePidFile
  <2>7. CASE RemoveSocket(d) BY <2>7 DEF RemoveSocket
  <2>8. CASE Exit(d) BY <2>8 DEF Exit, Without
  <2> QED BY <1>2, <2>1, <2>2, <2>3, <2>4, <2>5, <2>6, <2>7, <2>8 DEF DaemonStep
<1>3. ASSUME NEW d \in Daemon, Tick(d) PROVE (HeldOnce /\ SessionsAreHeld)' BY <1>3 DEF Tick, Without
<1>4. ASSUME NEW d \in Daemon, StopServer(d) PROVE (HeldOnce /\ SessionsAreHeld)' BY <1>4 DEF StopServer
<1>5. ASSUME NEW d \in Daemon, Terminate(d) PROVE (HeldOnce /\ SessionsAreHeld)' BY <1>5 DEF Terminate
<1>6. ASSUME NEW d \in Daemon, Killed(d) PROVE (HeldOnce /\ SessionsAreHeld)' BY <1>6 DEF Killed, Without
<1>7. ASSUME NEW d \in Daemon, NEW c \in Client, Serve(d, c) PROVE (HeldOnce /\ SessionsAreHeld)' BY <1>7 DEF Serve
<1>8. CASE UNCHANGED vars BY <1>8 DEF vars
<1> QED BY <1>1, <1>2, <1>3, <1>4, <1>5, <1>6, <1>7, <1>8 DEF Next

\* Every step keeps callers with a listening daemon.
LEMMA CallsStep == TypeOK /\ HeldOnce /\ SessionsAreHeld /\ CallsAreHeard /\ [Next]_vars => CallsAreHeard'
<1> SUFFICES ASSUME TypeOK, HeldOnce, SessionsAreHeld, CallsAreHeard, [Next]_vars PROVE CallsAreHeard' OBVIOUS
<1> USE DaemonAssumption DEF TypeOK, HeldOnce, SessionsAreHeld, CallsAreHeard, Listening, Gone,
        States, ClientStates, Starting, Leaving, files, clients, daemons, ClientGoes, Goes
<1>1. ASSUME NEW c \in Client, ClientStep(c) PROVE CallsAreHeard'
  <2>1. CASE Check(c) BY <2>1 DEF Check
  <2>2. CASE SpawnDaemon(c) BY <2>2 DEF SpawnDaemon
  <2>3. CASE Poll(c) BY <2>3 DEF Poll
  <2>4. CASE TimeOut(c) BY <2>4 DEF TimeOut
  <2>5. CASE Dial(c) BY <2>5 DEF Dial, Reachable
  <2>6. CASE Again(c) BY <2>6 DEF Again
  <2> QED BY <1>1, <2>1, <2>2, <2>3, <2>4, <2>5, <2>6 DEF ClientStep
<1>2. ASSUME NEW d \in Daemon, DaemonStep(d) PROVE CallsAreHeard'
  <2>1. CASE WritePidFile(d) BY <2>1 DEF WritePidFile
  <2>2. CASE RemoveStale(d) BY <2>2 DEF RemoveStale
  <2>3. CASE Bind(d) BY <2>3 DEF Bind
  <2>4. CASE InstallHandler(d) BY <2>4 DEF InstallHandler
  <2>5. CASE CloseListener(d) BY <2>5 DEF CloseListener, Reset
  <2>6. CASE RemovePidFile(d) BY <2>6 DEF RemovePidFile
  <2>7. CASE RemoveSocket(d) BY <2>7 DEF RemoveSocket
  <2>8. CASE Exit(d) BY <2>8 DEF Exit, Without
  <2> QED BY <1>2, <2>1, <2>2, <2>3, <2>4, <2>5, <2>6, <2>7, <2>8 DEF DaemonStep
<1>3. ASSUME NEW d \in Daemon, Tick(d) PROVE CallsAreHeard' BY <1>3 DEF Tick, Without
<1>4. ASSUME NEW d \in Daemon, StopServer(d) PROVE CallsAreHeard' BY <1>4 DEF StopServer
<1>5. ASSUME NEW d \in Daemon, Terminate(d) PROVE CallsAreHeard' BY <1>5 DEF Terminate
<1>6. ASSUME NEW d \in Daemon, Killed(d) PROVE CallsAreHeard' BY <1>6 DEF Killed, Without
<1>7. ASSUME NEW d \in Daemon, NEW c \in Client, Serve(d, c) PROVE CallsAreHeard' BY <1>7 DEF Serve
<1>8. CASE UNCHANGED vars BY <1>8 DEF vars
<1> QED BY <1>1, <1>2, <1>3, <1>4, <1>5, <1>6, <1>7, <1>8 DEF Next

\* Every step keeps an owner for each file.
LEMMA OwnersStep == TypeOK /\ Owners /\ [Next]_vars => Owners'
<1> SUFFICES ASSUME TypeOK, Owners, [Next]_vars PROVE Owners' OBVIOUS
<1> USE DaemonAssumption DEF TypeOK, Owners, PathHasOwner, RewrittenPidFile, PidFileHasOwner,
        States, Starting, Leaving, files, clients, daemons, ClientGoes, Goes
<1>1. ASSUME NEW c \in Client, ClientStep(c) PROVE Owners'
  <2>1. CASE Check(c) BY <2>1 DEF Check
  <2>2. CASE SpawnDaemon(c) BY <2>2 DEF SpawnDaemon
  <2>3. CASE Poll(c) BY <2>3 DEF Poll
  <2>4. CASE TimeOut(c) BY <2>4 DEF TimeOut
  <2>5. CASE Dial(c) BY <2>5 DEF Dial
  <2>6. CASE Again(c) BY <2>6 DEF Again
  <2> QED BY <1>1, <2>1, <2>2, <2>3, <2>4, <2>5, <2>6 DEF ClientStep
<1>2. ASSUME NEW d \in Daemon, DaemonStep(d) PROVE Owners'
  <2>1. CASE WritePidFile(d) BY <2>1 DEF WritePidFile
  <2>2. CASE RemoveStale(d) BY <2>2 DEF RemoveStale
  <2>3. CASE Bind(d) BY <2>3 DEF Bind
  <2>4. CASE InstallHandler(d) BY <2>4 DEF InstallHandler
  <2>5. CASE CloseListener(d) BY <2>5 DEF CloseListener
  <2>6. CASE RemovePidFile(d) BY <2>6 DEF RemovePidFile
  <2>7. CASE RemoveSocket(d) BY <2>7 DEF RemoveSocket
  <2>8. CASE Exit(d) BY <2>8 DEF Exit
  <2> QED BY <1>2, <2>1, <2>2, <2>3, <2>4, <2>5, <2>6, <2>7, <2>8 DEF DaemonStep
<1>3. ASSUME NEW d \in Daemon, Tick(d) PROVE Owners' BY <1>3 DEF Tick
<1>4. ASSUME NEW d \in Daemon, StopServer(d) PROVE Owners' BY <1>4 DEF StopServer
<1>5. ASSUME NEW d \in Daemon, Terminate(d) PROVE Owners' BY <1>5 DEF Terminate
<1>6. ASSUME NEW d \in Daemon, Killed(d) PROVE Owners' BY <1>6 DEF Killed
<1>7. ASSUME NEW d \in Daemon, NEW c \in Client, Serve(d, c) PROVE Owners' BY <1>7 DEF Serve
<1>8. CASE UNCHANGED vars BY <1>8 DEF vars
<1> QED BY <1>1, <1>2, <1>3, <1>4, <1>5, <1>6, <1>7, <1>8 DEF Next

\* Every step keeps a started daemon reachable.
LEMMA ReachableStep == TypeOK /\ PathHasOwner /\ RacesLeaveOneReachable /\ [Next]_vars => RacesLeaveOneReachable'
<1> SUFFICES ASSUME TypeOK, PathHasOwner, RacesLeaveOneReachable, [Next]_vars PROVE RacesLeaveOneReachable' OBVIOUS
<1> USE DaemonAssumption DEF TypeOK, PathHasOwner, RacesLeaveOneReachable, Reachable, Listening,
        States, Starting, Leaving, files, clients, daemons, ClientGoes, Goes
<1>1. ASSUME NEW c \in Client, ClientStep(c) PROVE RacesLeaveOneReachable'
  <2>1. CASE Check(c) BY <2>1 DEF Check
  <2>2. CASE SpawnDaemon(c) BY <2>2 DEF SpawnDaemon
  <2>3. CASE Poll(c) BY <2>3 DEF Poll
  <2>4. CASE TimeOut(c) BY <2>4 DEF TimeOut
  <2>5. CASE Dial(c) BY <2>5 DEF Dial
  <2>6. CASE Again(c) BY <2>6 DEF Again
  <2> QED BY <1>1, <2>1, <2>2, <2>3, <2>4, <2>5, <2>6 DEF ClientStep
<1>2. ASSUME NEW d \in Daemon, DaemonStep(d) PROVE RacesLeaveOneReachable'
  <2>1. CASE WritePidFile(d) BY <2>1 DEF WritePidFile
  <2>2. CASE RemoveStale(d) BY <2>2 DEF RemoveStale
  <2>3. CASE Bind(d) BY <2>3 DEF Bind
  <2>4. CASE InstallHandler(d) BY <2>4 DEF InstallHandler
  <2>5. CASE CloseListener(d) BY <2>5 DEF CloseListener
  <2>6. CASE RemovePidFile(d) BY <2>6 DEF RemovePidFile
  <2>7. CASE RemoveSocket(d) BY <2>7 DEF RemoveSocket
  <2>8. CASE Exit(d) BY <2>8 DEF Exit
  <2> QED BY <1>2, <2>1, <2>2, <2>3, <2>4, <2>5, <2>6, <2>7, <2>8 DEF DaemonStep
<1>3. ASSUME NEW d \in Daemon, Tick(d) PROVE RacesLeaveOneReachable' BY <1>3 DEF Tick
<1>4. ASSUME NEW d \in Daemon, StopServer(d) PROVE RacesLeaveOneReachable' BY <1>4 DEF StopServer
<1>5. ASSUME NEW d \in Daemon, Terminate(d) PROVE RacesLeaveOneReachable' BY <1>5 DEF Terminate
<1>6. ASSUME NEW d \in Daemon, Killed(d) PROVE RacesLeaveOneReachable' BY <1>6 DEF Killed
<1>7. ASSUME NEW d \in Daemon, NEW c \in Client, Serve(d, c) PROVE RacesLeaveOneReachable' BY <1>7 DEF Serve
<1>8. CASE UNCHANGED vars BY <1>8 DEF vars
<1> QED BY <1>1, <1>2, <1>3, <1>4, <1>5, <1>6, <1>7, <1>8 DEF Next

\* Only another daemon's step takes the path from a serving one.
LEMMA CutOffStep == TypeOK /\ OnlyRivalsCutOff /\ [Next]_vars => OnlyRivalsCutOff'
<1> SUFFICES ASSUME TypeOK, OnlyRivalsCutOff, [Next]_vars PROVE OnlyRivalsCutOff' OBVIOUS
<1> USE DaemonAssumption DEF TypeOK, OnlyRivalsCutOff, States, Starting, Leaving, files, clients, daemons, ClientGoes, Goes
<1>1. ASSUME NEW c \in Client, ClientStep(c) PROVE OnlyRivalsCutOff'
  <2>1. CASE Check(c) BY <2>1 DEF Check
  <2>2. CASE SpawnDaemon(c) BY <2>2 DEF SpawnDaemon
  <2>3. CASE Poll(c) BY <2>3 DEF Poll
  <2>4. CASE TimeOut(c) BY <2>4 DEF TimeOut
  <2>5. CASE Dial(c) BY <2>5 DEF Dial
  <2>6. CASE Again(c) BY <2>6 DEF Again
  <2> QED BY <1>1, <2>1, <2>2, <2>3, <2>4, <2>5, <2>6 DEF ClientStep
<1>2. ASSUME NEW d \in Daemon, DaemonStep(d) PROVE OnlyRivalsCutOff'
  <2>1. CASE WritePidFile(d) BY <2>1 DEF WritePidFile
  <2>2. CASE RemoveStale(d) BY <2>2 DEF RemoveStale
  <2>3. CASE Bind(d) BY <2>3 DEF Bind
  <2>4. CASE InstallHandler(d) BY <2>4 DEF InstallHandler
  <2>5. CASE CloseListener(d) BY <2>5 DEF CloseListener
  <2>6. CASE RemovePidFile(d) BY <2>6 DEF RemovePidFile
  <2>7. CASE RemoveSocket(d) BY <2>7 DEF RemoveSocket
  <2>8. CASE Exit(d) BY <2>8 DEF Exit
  <2> QED BY <1>2, <2>1, <2>2, <2>3, <2>4, <2>5, <2>6, <2>7, <2>8 DEF DaemonStep
<1>3. ASSUME NEW d \in Daemon, Tick(d) PROVE OnlyRivalsCutOff' BY <1>3 DEF Tick
<1>4. ASSUME NEW d \in Daemon, StopServer(d) PROVE OnlyRivalsCutOff' BY <1>4 DEF StopServer
<1>5. ASSUME NEW d \in Daemon, Terminate(d) PROVE OnlyRivalsCutOff' BY <1>5 DEF Terminate
<1>6. ASSUME NEW d \in Daemon, Killed(d) PROVE OnlyRivalsCutOff' BY <1>6 DEF Killed
<1>7. ASSUME NEW d \in Daemon, NEW c \in Client, Serve(d, c) PROVE OnlyRivalsCutOff' BY <1>7 DEF Serve
<1>8. CASE UNCHANGED vars BY <1>8 DEF vars
<1> QED BY <1>1, <1>2, <1>3, <1>4, <1>5, <1>6, <1>7, <1>8 DEF Next


-----------------------------------------------------------------------------

\* The invariant holds of every reachable state.
THEOREM Invariance == Spec => []IInv
<1>1. IInv /\ [Next]_vars => IInv'
  BY TypeStep, SessionsStep, CallsStep, OwnersStep, ReachableStep, CutOffStep DEF IInv, Owners
<1> QED BY InitInv, <1>1, PTL DEF Spec

\* The files, daemons and clients stay well typed (platform.rs, daemon.rs run).
THEOREM StartupTypeCorrect == Spec => []TypeOK
<1>1. IInv => TypeOK BY DEF IInv
<1> QED BY Invariance, <1>1, PTL

\* Of any number of daemons that start at once one can be reached in the end
\* (platform.rs create_listener).
THEOREM RacesAreSurvived == Spec => []RacesLeaveOneReachable
<1>1. IInv => RacesLeaveOneReachable BY DEF IInv
<1> QED BY Invariance, <1>1, PTL

\* A serving daemon loses its path only to another daemon's start or exit.
THEOREM CutOffNeedsRival == Spec => []OnlyRivalsCutOff
<1>1. IInv => OnlyRivalsCutOff BY DEF IInv
<1> QED BY Invariance, <1>1, PTL

\* Without kills the last daemon to go leaves no file (platform.rs
\* remove_pid_file), in whatever order the files were written and removed.
THEOREM FilesAreTidied == Spec => []LastOneTidies
<1>1. IInv => LastOneTidies
  BY DEF IInv, Owners, PathHasOwner, PidFileHasOwner, LastOneTidies, TypeOK
<1> QED BY Invariance, <1>1, PTL

\* A caller's daemon still has its listener.
THEOREM CallersAreHeard == Spec => []CallsAreHeard
<1>1. IInv => CallsAreHeard BY DEF IInv
<1> QED BY Invariance, <1>1, PTL

\* A created session is held by a daemon that is still there.
THEOREM SessionsStayHeld == Spec => []SessionsAreHeld
<1>1. IInv => SessionsAreHeld BY DEF IInv
<1> QED BY Invariance, <1>1, PTL
=============================================================================
