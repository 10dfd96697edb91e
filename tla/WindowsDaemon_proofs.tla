------------------------ MODULE WindowsDaemon_proofs ------------------------
(* One server of the pipe and nothing left in a job, for any number of     *)
(* daemons, clients and children.                                          *)
EXTENDS WindowsDaemon, TLAPS

States == {"unused", "starting", "failed", "serving", "handling", "leaving", "ending",
           "exited", "killed"}
Instance == Client \cup {Listening, NoPipe}

\* The state is a function of daemons, clients and children.
TypeOK ==
  /\ state \in [Daemon -> States]
  /\ pipe \in [Daemon -> Instance]
  /\ next \in [Daemon -> Instance]
  /\ child \in [Pid -> {"none", "running", "ended", "never"}]
  /\ strays \in [Pid -> SUBSET {"in", "out"}]
  /\ owner \in [Pid -> Daemon \cup {NoDaemon}]
  /\ job \in [Pid -> {"none", "holds", "empty"}]

\* Nothing that is not yet spawned has processes of its own.
NothingEarly == \A p \in Pid : child[p] = "none" => strays[p] = {}

IInv == TypeOK /\ OnePipeServer /\ JobsLeaveNothing /\ NothingEarly

\* What a step changes of children and sessions.
data == <<child, strays, owner, job>>

\* No daemon gets its first instance.
NoNewServer == \A d \in Daemon : Instances(d)' # {} => Instances(d) # {}

-----------------------------------------------------------------------------

\* The initial state satisfies the invariant.
LEMMA InitInv == Init => IInv
BY DEF Init, IInv, TypeOK, OnePipeServer, JobsLeaveNothing, NothingEarly, Instances, States, Instance

\* An instance that is in hand shows as one.
LEMMA HasInstance ==
  ASSUME NEW d \in Daemon
  PROVE  Instances(d) # {} <=> pipe[d] # NoPipe \/ next[d] # NoPipe
BY DEF Instances

LEMMA HasInstanceNext ==
  ASSUME NEW d \in Daemon
  PROVE  Instances(d)' # {} <=> pipe'[d] # NoPipe \/ next'[d] # NoPipe
BY DEF Instances

\* While nobody gets a first instance, the pipe keeps its one server.
LEMMA OneStays == OnePipeServer /\ NoNewServer => OnePipeServer'
BY DEF OnePipeServer, NoNewServer

\* A step that leaves the processes and the tables alone keeps what is said of them.
LEMMA DataStays ==
  ASSUME IInv, UNCHANGED data
  PROVE  JobsLeaveNothing' /\ NothingEarly'
BY DEF IInv, JobsLeaveNothing, NothingEarly, data

\* Dropping the sessions of P leaves nothing in their jobs.
LEMMA TerminateLeavesNothing ==
  ASSUME IInv, NEW P \in SUBSET Pid, NEW alone,
         Terminate(P, alone), owner' = Without(P), UNCHANGED job
  PROVE  /\ JobsLeaveNothing' /\ NothingEarly'
         /\ child' \in [Pid -> {"none", "running", "ended", "never"}]
         /\ strays' \in [Pid -> SUBSET {"in", "out"}]
         /\ owner' \in [Pid -> Daemon \cup {NoDaemon}]
         /\ job' \in [Pid -> {"none", "holds", "empty"}]
<1> USE DEF IInv, TypeOK, Terminate, Without
<1>1. child' \in [Pid -> {"none", "running", "ended", "never"}] OBVIOUS
<1>2. strays' \in [Pid -> SUBSET {"in", "out"}] OBVIOUS
<1>3. owner' \in [Pid -> Daemon \cup {NoDaemon}] OBVIOUS
<1>4. JobsLeaveNothing'
  <2>1. SUFFICES ASSUME NEW p \in Pid, owner'[p] = NoDaemon, job'[p] = "holds"
                 PROVE  child'[p] # "running" /\ "in" \notin strays'[p]
    BY DEF JobsLeaveNothing
  <2>2. CASE p \in P BY <2>1, <2>2
  <2>3. CASE p \notin P BY <2>1, <2>3 DEF JobsLeaveNothing
  <2> QED BY <2>2, <2>3
<1>5. NothingEarly'
  <2>1. SUFFICES ASSUME NEW p \in Pid, child'[p] = "none" PROVE strays'[p] = {}
    BY DEF NothingEarly
  <2>2. child[p] = "none" BY <2>1
  <2> QED BY <2>2 DEF NothingEarly
<1> QED BY <1>1, <1>2, <1>3, <1>4, <1>5

\* A client's step fills or tries the pipe; the server stays.
LEMMA ClientInv == ASSUME IInv, ClientStep PROVE IInv'
<1> USE DEF IInv, TypeOK, daemons, clients, processes, sessions
<1> PICK c \in Client : Open(c) \/ CannotOpen(c) \/ Ask(c) \/ Again(c) BY DEF ClientStep
<1>1. UNCHANGED <<state, data>> BY DEF Open, CannotOpen, Ask, Again, data
<1>2. pipe' \in [Daemon -> Instance] /\ next' \in [Daemon -> Instance] /\ NoNewServer
  <2>1. CASE Open(c)
    <3>1. PICK d \in Daemon :
            \/ pipe[d] = Listening /\ pipe' = [pipe EXCEPT ![d] = c] /\ UNCHANGED next
            \/ next[d] = Listening /\ next' = [next EXCEPT ![d] = c] /\ UNCHANGED pipe
      BY <2>1 DEF Open
    <3> QED BY <3>1, HasInstance, HasInstanceNext, WindowsAssumption DEF NoNewServer, Instance
  <2>2. CASE ~Open(c)
    <3>1. UNCHANGED <<pipe, next>> BY <2>2 DEF CannotOpen, Ask, Again
    <3> QED BY <3>1, HasInstance, HasInstanceNext DEF NoNewServer
  <2> QED BY <2>1, <2>2
<1>3. JobsLeaveNothing' /\ NothingEarly' BY <1>1, DataStays
<1> QED BY <1>1, <1>2, <1>3, OneStays DEF data

\* A spawn, complete or half-way, takes a child that had nothing yet.
LEMMA SpawnInv ==
  ASSUME IInv, NEW d \in Daemon, Spawn(d)
  PROVE  /\ JobsLeaveNothing' /\ NothingEarly'
         /\ child' \in [Pid -> {"none", "running", "ended", "never"}]
         /\ strays' \in [Pid -> SUBSET {"in", "out"}]
         /\ owner' \in [Pid -> Daemon \cup {NoDaemon}]
         /\ job' \in [Pid -> {"none", "holds", "empty"}]
<1> USE DEF IInv, TypeOK
<1>1. CASE \E p \in Pid : child[p] = "none" /\ Spawned(d, p)
  <2>1. PICK p \in Pid : child[p] = "none" /\ Spawned(d, p) BY <1>1
  <2>2. PICK j \in {"none", "holds", "empty"} : job' = [job EXCEPT ![p] = j] BY <2>1 DEF Spawned
  <2>3. PICK early \in {{}, {"out"}} : strays' = [strays EXCEPT ![p] = early] BY <2>1 DEF Spawned
  <2>4. child' = [child EXCEPT ![p] = "running"] /\ owner' = [owner EXCEPT ![p] = d]
    BY <2>1 DEF Spawned
  <2>5. JobsLeaveNothing' BY <2>2, <2>3, <2>4, WindowsAssumption DEF JobsLeaveNothing
  <2>6. NothingEarly' BY <2>3, <2>4 DEF NothingEarly
  <2> QED BY <2>2, <2>3, <2>4, <2>5, <2>6
<1>2. CASE \E p \in Pid : child[p] = "none" /\ SpawnAbandons(d, p)
  <2>1. PICK p \in Pid : child[p] = "none" /\ SpawnAbandons(d, p) BY <1>2
  <2>2. child' = [child EXCEPT ![p] = "never"] /\ UNCHANGED <<strays, job, owner>>
    BY <2>1 DEF SpawnAbandons
  <2>3. JobsLeaveNothing' BY <2>2 DEF JobsLeaveNothing
  <2>4. NothingEarly' BY <2>2 DEF NothingEarly
  <2> QED BY <2>2, <2>3, <2>4
<1>3. CASE SpawnFails
  <2>1. UNCHANGED data BY <1>3 DEF SpawnFails, data, processes, sessions
  <2> QED BY <2>1, DataStays DEF data
<1> QED BY <1>1, <1>2, <1>3 DEF Spawn

\* So does any request.
LEMMA EffectInv ==
  ASSUME IInv, NEW d \in Daemon, NEW call, Effect(d, call)
  PROVE  /\ JobsLeaveNothing' /\ NothingEarly'
         /\ child' \in [Pid -> {"none", "running", "ended", "never"}]
         /\ strays' \in [Pid -> SUBSET {"in", "out"}]
         /\ owner' \in [Pid -> Daemon \cup {NoDaemon}]
         /\ job' \in [Pid -> {"none", "holds", "empty"}]
<1>1. CASE Spawn(d) BY <1>1, SpawnInv
<1>2. CASE \E p \in Table(d) : Drop({p})
  <2>1. PICK p \in Pid : Drop({p}) BY <1>2 DEF Table
  <2>2. /\ Terminate({p}, {q \in {p} : job[q] = "none"})
        /\ owner' = Without({p}) /\ UNCHANGED job
    BY <2>1 DEF Drop, DropWith
  <2>3. {p} \in SUBSET Pid OBVIOUS
  <2> QED BY <2>2, <2>3, TerminateLeavesNothing
<1>3. CASE UNCHANGED <<processes, sessions>>
  <2>1. UNCHANGED data BY <1>3 DEF data, processes, sessions
  <2> QED BY <2>1, DataStays DEF data, IInv, TypeOK
<1> QED BY <1>1, <1>2, <1>3 DEF Effect

\* The steps of a daemon keep the invariant.
LEMMA DaemonInv == ASSUME IInv, NEW d \in Daemon, DaemonStep(d) PROVE IInv'
<1> DEFINE DataOK ==
      /\ JobsLeaveNothing' /\ NothingEarly'
      /\ child' \in [Pid -> {"none", "running", "ended", "never"}]
      /\ strays' \in [Pid -> SUBSET {"in", "out"}]
      /\ owner' \in [Pid -> Daemon \cup {NoDaemon}]
      /\ job' \in [Pid -> {"none", "holds", "empty"}]
    PipeOK ==
      /\ state' \in [Daemon -> States]
      /\ pipe' \in [Daemon -> Instance]
      /\ next' \in [Daemon -> Instance]
      /\ OnePipeServer'
<1> SUFFICES DataOK /\ PipeOK BY DEF IInv, TypeOK
<1> USE HasInstance, HasInstanceNext
<1>1. ASSUME UNCHANGED <<processes, sessions>> PROVE DataOK
  <2>1. UNCHANGED data BY <1>1 DEF data, processes, sessions
  <2> QED BY <2>1, DataStays DEF data, IInv, TypeOK
<1>2. ASSUME UNCHANGED <<pipe, next>> PROVE NoNewServer BY <1>2 DEF NoNewServer
<1>3. ASSUME DropPipe(d) PROVE NoNewServer /\ pipe' \in [Daemon -> Instance] /\ next' \in [Daemon -> Instance]
  BY <1>3 DEF DropPipe, NoNewServer, IInv, TypeOK, Instance
<1>4. ASSUME NEW from, NEW to \in States, Goes(d, from, to) PROVE state' \in [Daemon -> States]
  BY <1>4 DEF Goes, IInv, TypeOK
<1> HIDE DEF DataOK
<1> USE DEF IInv, TypeOK, States, Instance
<1>5. CASE Start(d) BY <1>5, <1>1, <1>2, OneStays DEF Start, Goes
<1>6. CASE CreateFirst(d)
  <2>1. CASE PipeExists BY <1>6, <2>1, <1>1, <1>2, OneStays DEF CreateFirst, CreatePipe, Goes
  <2>2. CASE ~PipeExists
    <3>1. pipe' = [pipe EXCEPT ![d] = Listening] /\ UNCHANGED <<next, processes, sessions>>
      BY <1>6, <2>2 DEF CreateFirst, CreatePipe
    <3>2. \A e \in Daemon : Instances(e)' # {} => e = d BY <2>2, <3>1 DEF PipeExists
    <3> QED BY <1>6, <2>2, <3>1, <3>2, <1>1 DEF CreateFirst, CreatePipe, Goes, OnePipeServer
  <2> QED BY <2>1, <2>2
<1>7. CASE Connect(d)
  <2>1. pipe[d] # NoPipe BY <1>7, WindowsAssumption DEF Connect
  <2>2. NoNewServer BY <1>7, <2>1 DEF Connect, NoNewServer
  <2> QED BY <1>7, <2>2, <1>1, OneStays DEF Connect, Goes
<1>8. CASE ConnectFails(d)
  <2>1. pipe[d] # NoPipe /\ pipe' = [pipe EXCEPT ![d] = Listening] /\ UNCHANGED <<state, next, processes, sessions>>
    BY <1>8, WindowsAssumption DEF ConnectFails
  <2>2. NoNewServer BY <2>1 DEF NoNewServer
  <2> QED BY <2>1, <2>2, <1>1, OneStays
<1>9. CASE Handle(d)
  <2>1. PICK c \in Client :
          /\ pipe[d] = c
          /\ Effect(d, client[c])
          /\ Goes(d, "handling", IF client[c] = "stop" THEN "leaving" ELSE "serving")
          /\ pipe' = [pipe EXCEPT ![d] = next[d]]
          /\ next' = [next EXCEPT ![d] = NoPipe]
    BY <1>9 DEF Handle
  <2>2. DataOK BY <2>1, EffectInv DEF DataOK
  <2>3. NoNewServer BY <2>1, WindowsAssumption DEF NoNewServer
  <2> QED BY <2>1, <2>2, <2>3, OneStays DEF Goes
<1>10. CASE LeaveLoop(d)
  BY <1>10, <1>1, <1>3, OneStays DEF LeaveLoop, Goes
<1>11. CASE Exit(d)
  <2>1. DataOK BY <1>11, TerminateLeavesNothing DEF Exit, ProcessGone, Table, DataOK
  <2> QED BY <1>11, <2>1, <1>2, OneStays DEF Exit, Goes
<1>12. CASE Tick(d)
  <2>1. DataOK BY <1>12, TerminateLeavesNothing DEF Tick, Drop, DropWith, Table, DataOK
  <2>2. UNCHANGED <<pipe, next>> /\ state' \in [Daemon -> States] BY <1>12 DEF Tick, Goes
  <2> QED BY <2>1, <2>2, <1>2, OneStays
<1>13. CASE CtrlC(d) BY <1>13, <1>1, <1>2, OneStays DEF CtrlC, Goes
<1>14. CASE Killed(d)
  <2>1. DataOK BY <1>14, TerminateLeavesNothing DEF Killed, KilledWith, ProcessGone, Table, DataOK
  <2> QED BY <1>14, <2>1, <1>3, OneStays DEF Killed, KilledWith
<1> QED
  BY <1>5, <1>6, <1>7, <1>8, <1>9, <1>10, <1>11, <1>12, <1>13, <1>14 DEF DaemonStep, LoopStep

\* Children, what they start, and readers keep it too.
LEMMA OutsideInv == ASSUME IInv, Outside PROVE IInv'
<1> PICK p \in Pid : ChildStarts(p) \/ ChildExits(p) \/ StraysExit(p) \/ ReaderEnds(p) BY DEF Outside
<1>1. UNCHANGED <<state, pipe, next, owner, job>>
  BY DEF ChildStarts, ChildExits, StraysExit, ReaderEnds, daemons, sessions
<1>2. OnePipeServer' BY <1>1 DEF IInv, OnePipeServer, Instances
<1>3. /\ child' \in [Pid -> {"none", "running", "ended", "never"}]
      /\ strays' \in [Pid -> SUBSET {"in", "out"}]
      /\ JobsLeaveNothing' /\ NothingEarly'
  <2> USE <1>1 DEF IInv, TypeOK, JobsLeaveNothing, NothingEarly, processes, sessions
  <2>1. CASE ChildStarts(p)
    <3>1. /\ child[p] = "running" /\ UNCHANGED child
          /\ strays' = [strays EXCEPT ![p] = @ \cup {IF job[p] = "holds" THEN "in" ELSE "out"}]
      BY <2>1 DEF ChildStarts
    <3> QED BY <3>1
  <2>2. CASE ChildExits(p) BY <2>2 DEF ChildExits
  <2>3. CASE StraysExit(p) BY <2>3 DEF StraysExit
  <2>4. CASE ReaderEnds(p) BY <2>4 DEF ReaderEnds
  <2> QED BY <2>1, <2>2, <2>3, <2>4
<1> QED BY <1>1, <1>2, <1>3 DEF IInv, TypeOK

\* The invariant holds in every reachable state.
LEMMA Invariance == Spec => []IInv
<1>1. ASSUME IInv, [Next]_vars PROVE IInv'
  <2>1. CASE UNCHANGED vars
    BY <1>1, <2>1 DEF vars, daemons, processes, sessions, IInv, TypeOK, OnePipeServer,
         Instances, JobsLeaveNothing, NothingEarly
  <2> QED BY <1>1, <2>1, ClientInv, DaemonInv, OutsideInv DEF Next
<1> QED BY <1>1, InitInv, PTL DEF Spec

\* However many daemons are started, only one has instances of the pipe
\* (run_windows, create_pipe_instance).
THEOREM PipeHasOneServer == Spec => []OnePipeServer
<1>1. IInv => OnePipeServer BY DEF IInv
<1> QED BY <1>1, Invariance, PTL

\* What is in the job of a session never outlives the session, also when the
\* daemon is killed (PtyChild::kill, create_job_object).
THEOREM JobsAreEmptied == Spec => []JobsLeaveNothing
<1>1. IInv => JobsLeaveNothing BY DEF IInv
<1> QED BY <1>1, Invariance, PTL
=============================================================================
