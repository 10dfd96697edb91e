---------------------------- MODULE Daemon_proofs ----------------------------
(***************************************************************************)
(* Theorems about the session manager and the event loop that drives it,   *)
(* for any number of processes, names and clients.                         *)
(* First the manager: IInv is its inductive invariant, the promises of the *)
(* module plus what they rest on, that a pid the kernel still considers    *)
(* free carries no trace of an earlier session.                            *)
(* Then the loop: each of its steps is a step of the session manager, so   *)
(* the manager's invariant carries over; however it stops nothing is left  *)
(* behind; every connection is in one place; and to its clients it is a    *)
(* SessionDirectory.                                                       *)
(***************************************************************************)
EXTENDS Daemon, FiniteSetTheorems, SequenceTheorems, WellFoundedInduction, TLAPS

-----------------------------------------------------------------------------
(* The session manager.                                                    *)

\* A session's pid has been forked, and nothing has freed it since.
SpawnedInUse == \A n \in Active : proc[sessions[n]] # "free"

\* A pid that was never forked has no terminal, reader or signal, and its first
\* program will run as the daemon's user.
FreeUntouched ==
  \A p \in Pid : proc[p] = "free" =>
    ~tty[p] /\ permitted[p] /\ reader[p] = "none" /\ ~alive[p] /\ signalled[p] = "none"

\* The flag of a session's child is cleared only once nobody holds its terminal.
FlagFollowsReader ==
  \A p \in Pid : Owned(p) /\ ~alive[p] => ~tty[p]

IInv ==
  /\ TypeOK
  /\ PidsDistinct
  /\ SpawnedInUse
  /\ FreeUntouched
  /\ FlagFollowsReader
  /\ NoUnownedChild
  /\ OnlyRemovedAreKilled

-----------------------------------------------------------------------------
(* Facts about the helpers.                                                *)

\* The name create works with is a name, and next_id stays below its limit.
LEMMA NameForType ==
  ASSUME TypeOK, NEW want \in Name \cup {Unnamed}, NEW n \in Name, NameFor(want, n)
  PROVE  nextId' \in Numeral
<1>1. CASE want = Unnamed
  <2>1. n \in Numeral /\ nextId' = NextOf(n)
    BY <1>1 DEF NameFor, AutoName
  <2> QED
    BY <2>1, IdLimitAssumption DEF NextOf, Numeral
<1>2. CASE want # Unnamed
  BY <1>2 DEF NameFor, TypeOK
<1> QED
  BY <1>1, <1>2

\* Remove is well typed.
LEMMA RemoveType ==
  ASSUME TypeOK, NEW S \in SUBSET Name, Remove(S)
  PROVE  /\ sessions' \in [Name -> Pid \cup {NoPid}]
         /\ signalled' \in [Pid -> {"none", "hup", "kill", "refused"}]
  BY DEF Remove, Sigkill, TypeOK

\* Removing entries together with the kill of their children preserves every
\* conjunct of IInv that speaks of the table.
LEMMA RemovePreserves ==
  ASSUME IInv, NEW S \in SUBSET Name, Remove(S), UNCHANGED <<kernel, threads>>
  PROVE  /\ PidsDistinct'
         /\ SpawnedInUse'
         /\ FreeUntouched'
         /\ FlagFollowsReader'
         /\ NoUnownedChild'
         /\ OnlyRemovedAreKilled'
<1> USE DEF kernel, threads
<1>1. /\ sessions \in [Name -> Pid \cup {NoPid}]
      /\ \A n \in Name : sessions'[n] = IF n \in S THEN NoPid ELSE sessions[n]
  BY DEF IInv, TypeOK, Remove
<1>2. \A p \in Pid :
        signalled'[p] = IF \E n \in S : sessions[n] = p THEN Sigkill(p) ELSE signalled[p]
  BY DEF Remove
<1>3. \A p \in Pid : Owned(p)' => Owned(p) /\ ~\E n \in S : sessions[n] = p
  <2> SUFFICES ASSUME NEW p \in Pid, NEW n \in Name, sessions'[n] = p
               PROVE  Owned(p) /\ ~\E m \in S : sessions[m] = p
    BY DEF Owned
  <2>1. n \notin S /\ sessions[n] = p
    BY <1>1, PidAssumption
  <2>2. \A m \in S : sessions[m] # p
    BY <2>1, PidAssumption DEF IInv, PidsDistinct
  <2> QED
    BY <2>1, <2>2 DEF Owned
<1>4. \A p \in Pid : Owned(p) => Owned(p)' \/ \E n \in S : sessions[n] = p
  BY <1>1 DEF Owned
<1>5. PidsDistinct'
  BY <1>1, PidAssumption DEF IInv, PidsDistinct
<1>6. SpawnedInUse'
  BY <1>1 DEF IInv, SpawnedInUse, Active
<1>7. FreeUntouched'
  <2>1. \A n \in S : sessions[n] \in Pid => proc[sessions[n]] # "free"
    BY PidAssumption DEF IInv, SpawnedInUse, Active
  <2> QED
    BY <1>2, <2>1 DEF IInv, FreeUntouched
<1>8. FlagFollowsReader'
  BY <1>3 DEF IInv, FlagFollowsReader
<1>9. NoUnownedChild'
  BY <1>2, <1>4 DEF IInv, NoUnownedChild, Sigkill
<1>10. OnlyRemovedAreKilled'
  BY <1>2, <1>3 DEF IInv, OnlyRemovedAreKilled
<1> QED
  BY <1>5, <1>6, <1>7, <1>8, <1>9, <1>10

-----------------------------------------------------------------------------
(* IInv is an invariant.                                                   *)

LEMMA InitIInv == Init => IInv
<1> SUFFICES ASSUME Init PROVE IInv
  OBVIOUS
<1> USE DEF Init
<1>1. TypeOK
  BY IdLimitAssumption DEF TypeOK, Numeral, Return, Ops, Results
<1>2. \A p \in Pid : ~Owned(p)
  BY PidAssumption DEF Owned
<1>3. Active = {}
  BY DEF Active
<1>4. PidsDistinct /\ SpawnedInUse /\ FreeUntouched
  BY <1>3 DEF PidsDistinct, SpawnedInUse, FreeUntouched
<1>5. FlagFollowsReader /\ NoUnownedChild /\ OnlyRemovedAreKilled
  BY <1>2 DEF FlagFollowsReader, NoUnownedChild, OnlyRemovedAreKilled
<1> QED
  BY <1>1, <1>4, <1>5 DEF IInv
\* Every conjunct of IInv but TypeOK depends on these variables only.
LEMMA TableUnchanged ==
  ASSUME IInv, UNCHANGED <<sessions, kernel, threads, signalled>>
  PROVE  /\ PidsDistinct' /\ SpawnedInUse' /\ FreeUntouched'
         /\ FlagFollowsReader' /\ NoUnownedChild' /\ OnlyRemovedAreKilled'
  BY DEF IInv, kernel, threads, PidsDistinct, SpawnedInUse, FreeUntouched, Active,
         FlagFollowsReader, NoUnownedChild, OnlyRemovedAreKilled, Owned

\* create: the outcomes that leave the table alone, and the two that fork.
LEMMA CreateIInv ==
  ASSUME IInv, NEW want \in Name \cup {Unnamed}, Create(want)
  PROVE  IInv'
<1>1. PICK n \in Name :
        /\ NameFor(want, n)
        /\ \/ CreateExists(n)
           \/ SpawnFails(n)
           \/ \E p \in Pid : SpawnAbandons(n, p)
           \/ \E p \in Pid, r \in {"none", "reading"} : SpawnSucceeds(n, p, r)
  BY DEF Create
<1>2. TypeOK
  BY DEF IInv
<1>3. nextId' \in Numeral
  BY <1>1, <1>2, NameForType
<1>4. CASE CreateExists(n) \/ SpawnFails(n)
  <2>1. TypeOK'
    BY <1>2, <1>3, <1>4 DEF TypeOK, CreateExists, SpawnFails, kernel, threads,
                            Return, Ops, Results
  <2>2. UNCHANGED <<sessions, kernel, threads, signalled>>
    BY <1>4 DEF CreateExists, SpawnFails
  <2> QED
    BY <2>1, <2>2, TableUnchanged DEF IInv
<1>5. ASSUME NEW p \in Pid, SpawnAbandons(n, p)
      PROVE  IInv'
  <2>1. /\ proc[p] = "free"
        /\ proc' = [proc EXCEPT ![p] = "running"]
        /\ tty' = [tty EXCEPT ![p] = TRUE]
        /\ signalled' = [signalled EXCEPT ![p] = "hup"]
        /\ UNCHANGED <<open, sessions, permitted, reader, alive>>
    BY <1>5 DEF SpawnAbandons, Fork, threads
  <2>2. ~Owned(p)
    BY <2>1, PidAssumption DEF IInv, SpawnedInUse, Active, Owned
  <2>3. TypeOK'
    BY <1>2, <1>3, <1>5, <2>1 DEF TypeOK, SpawnAbandons, Return, Ops, Results
  <2>4. PidsDistinct' /\ SpawnedInUse'
    BY <2>1, <1>2, PidAssumption
       DEF IInv, PidsDistinct, SpawnedInUse, Active, TypeOK
  <2>5. FreeUntouched' /\ FlagFollowsReader'
    BY <2>1, <2>2, <1>2 DEF IInv, FreeUntouched, FlagFollowsReader, Owned, TypeOK
  <2>6. NoUnownedChild' /\ OnlyRemovedAreKilled'
    BY <2>1, <2>2, <1>2 DEF IInv, NoUnownedChild, OnlyRemovedAreKilled, Owned, TypeOK
  <2> QED
    BY <2>3, <2>4, <2>5, <2>6 DEF IInv
<1>6. ASSUME NEW p \in Pid, NEW r \in {"none", "reading"}, SpawnSucceeds(n, p, r)
      PROVE  IInv'
  <2>1. /\ sessions[n] = NoPid
        /\ proc[p] = "free"
        /\ proc' = [proc EXCEPT ![p] = "running"]
        /\ tty' = [tty EXCEPT ![p] = TRUE]
        /\ sessions' = [sessions EXCEPT ![n] = p]
        /\ alive' = [alive EXCEPT ![p] = TRUE]
        /\ reader' = [reader EXCEPT ![p] = r]
        /\ UNCHANGED <<open, permitted, signalled>>
    BY <1>6 DEF SpawnSucceeds, Spawned, Fork
  <2>2. ~Owned(p)
    BY <2>1, PidAssumption DEF IInv, SpawnedInUse, Active, Owned
  <2>3. signalled[p] = "none"
    BY <2>1 DEF IInv, FreeUntouched
  <2>4. \A q \in Pid : Owned(q)' <=> q = p \/ Owned(q)
    BY <2>1, <1>2, PidAssumption DEF Owned, TypeOK
  <2>5. TypeOK'
    BY <1>2, <1>3, <1>6, <2>1 DEF TypeOK, SpawnSucceeds, Spawned, Return, Ops, Results
  <2>6. PidsDistinct'
    BY <2>1, <2>2, <1>2 DEF IInv, PidsDistinct, Owned, TypeOK
  <2>7. SpawnedInUse'
    BY <2>1, <1>2, PidAssumption DEF IInv, SpawnedInUse, Active, TypeOK
  <2>8. FreeUntouched' /\ FlagFollowsReader'
    BY <2>1, <2>4, <1>2 DEF IInv, FreeUntouched, FlagFollowsReader, TypeOK
  <2>9. NoUnownedChild' /\ OnlyRemovedAreKilled'
    BY <2>1, <2>3, <2>4, <1>2 DEF IInv, NoUnownedChild, OnlyRemovedAreKilled, TypeOK
  <2> QED
    BY <2>5, <2>6, <2>7, <2>8, <2>9 DEF IInv
<1> QED
  BY <1>1, <1>4, <1>5, <1>6

\* A call that only moves open and ret, and removes the entries of S.
LEMMA RemoveIInv ==
  ASSUME IInv, NEW S \in SUBSET Name, Remove(S), open' \in BOOLEAN,
         ret' \in [op : Ops, name : Name \cup {Unnamed}, result : Results],
         UNCHANGED <<nextId, kernel, threads>>
  PROVE  IInv'
<1>1. TypeOK'
  BY RemoveType DEF IInv, TypeOK, kernel, threads
<1> QED
  BY <1>1, RemovePreserves DEF IInv

\* A call that changes nothing but its result.
LEMMA ReadOnlyIInv ==
  ASSUME IInv, UNCHANGED <<open, sessions, nextId, kernel, threads, signalled>>,
         ret' \in [op : Ops, name : Name \cup {Unnamed}, result : Results]
  PROVE  IInv'
<1>1. TypeOK'
  BY DEF IInv, TypeOK, kernel, threads
<1> QED
  BY <1>1, TableUnchanged DEF IInv

LEMMA KillIInv ==
  ASSUME IInv, NEW n \in Name, Kill(n)
  PROVE  IInv'
<1>1. CASE sessions[n] = NoPid
  BY <1>1, ReadOnlyIInv DEF Kill, Return, Ops, Results
<1>2. CASE sessions[n] # NoPid
  <2>1. Remove({n}) /\ open' \in BOOLEAN
    BY <1>2 DEF Kill, IInv, TypeOK
  <2> QED
    BY <1>2, <2>1, RemoveIInv DEF Kill, Return, Ops, Results
<1> QED
  BY <1>1, <1>2

LEMMA LockingIInv ==
  ASSUME IInv, NEW op \in {"view", "resize"}, NEW n \in Name, Locking(op, n)
  PROVE  IInv'
<1>1. CASE sessions[n] # NoPid /\ Poisoned(sessions[n])
  <2>1. Remove(Name) /\ open' \in BOOLEAN
    BY <1>1 DEF Locking
  <2> QED
    BY <1>1, <2>1, RemoveIInv DEF Locking, Return, Ops, Results
<1>2. CASE ~(sessions[n] # NoPid /\ Poisoned(sessions[n]))
  <2>1. UNCHANGED <<open, sessions, nextId, kernel, threads, signalled>>
    BY <1>2 DEF Locking
  <2>2. ret' = Return(op, n, IF sessions[n] = NoPid THEN "not_found" ELSE "ok")
    BY <1>2 DEF Locking
  <2> QED
    BY <2>1, <2>2, ReadOnlyIInv DEF Return, Ops, Results
<1> QED
  BY <1>1, <1>2

LEMMA ResizeIInv ==
  ASSUME IInv, NEW n \in Name, Resize(n)
  PROVE  IInv'
<1>1. CASE ResizeFails(n)
  BY <1>1, ReadOnlyIInv DEF ResizeFails, Return, Ops, Results
<1>2. CASE Locking("resize", n)
  BY <1>2, LockingIInv
<1> QED
  BY <1>1, <1>2 DEF Resize

\* The steps of children, terminals and readers.
LEMMA EnvironmentIInv ==
  ASSUME IInv, Environment
  PROVE  IInv'
<1>1. PICK p \in Pid :
        ChildExits(p) \/ ChildChangesUser(p) \/ TtyCloses(p) \/ ReaderEnds(p) \/ ReaderPanics(p)
  BY DEF Environment
<1>2. /\ TypeOK
      /\ UNCHANGED <<open, sessions, nextId, ret, signalled>>
      /\ \A q \in Pid : Owned(q)' <=> Owned(q)
  BY <1>1 DEF IInv, ChildExits, ChildBecomes, ChildChangesUser, TtyCloses, ReaderEnds,
                 ReaderStops, ReaderPanics, manager, Owned
<1>3. PidsDistinct'
  BY <1>2 DEF IInv, PidsDistinct
<1>4. OnlyRemovedAreKilled'
  BY <1>2 DEF IInv, OnlyRemovedAreKilled
<1>5. CASE ChildExits(p)
  <2>1. PICK held \in {FALSE, tty[p]} : tty' = [tty EXCEPT ![p] = held]
    BY <1>5 DEF ChildExits, ChildBecomes
  <2>2. /\ proc[p] = "running"
        /\ proc' = [proc EXCEPT ![p] = "zombie"]
        /\ UNCHANGED <<permitted, reader, alive>>
    BY <1>5 DEF ChildExits, ChildBecomes, threads
  <2>3. TypeOK'
    BY <1>2, <2>1, <2>2 DEF TypeOK
  <2>4. SpawnedInUse' /\ FreeUntouched'
    BY <1>2, <2>1, <2>2 DEF IInv, SpawnedInUse, Active, FreeUntouched, TypeOK
  <2>5. FlagFollowsReader' /\ NoUnownedChild'
    BY <1>2, <2>1, <2>2 DEF IInv, FlagFollowsReader, NoUnownedChild, TypeOK
  <2> QED
    BY <1>3, <1>4, <2>3, <2>4, <2>5 DEF IInv
<1>6. CASE TtyCloses(p)
  <2>1. tty' = [tty EXCEPT ![p] = FALSE] /\ UNCHANGED <<proc, permitted, reader, alive>>
    BY <1>6 DEF TtyCloses, threads
  <2>2. TypeOK'
    BY <1>2, <2>1 DEF TypeOK
  <2>3. SpawnedInUse' /\ FreeUntouched' /\ FlagFollowsReader' /\ NoUnownedChild'
    BY <1>2, <2>1 DEF IInv, SpawnedInUse, Active, FreeUntouched, FlagFollowsReader,
                      NoUnownedChild, TypeOK
  <2> QED
    BY <1>3, <1>4, <2>2, <2>3 DEF IInv
<1>7. CASE ReaderEnds(p)
  <2>1. /\ reader[p] = "reading" /\ ~tty[p]
        /\ reader' = [reader EXCEPT ![p] = "ended"]
        /\ alive' = [alive EXCEPT ![p] = FALSE]
        /\ UNCHANGED <<proc, tty, permitted>>
    BY <1>7 DEF ReaderEnds, ReaderStops, kernel
  <2>2. TypeOK'
    BY <1>2, <2>1 DEF TypeOK
  <2>3. SpawnedInUse' /\ FreeUntouched' /\ FlagFollowsReader' /\ NoUnownedChild'
    BY <1>2, <2>1 DEF IInv, SpawnedInUse, Active, FreeUntouched, FlagFollowsReader,
                      NoUnownedChild, TypeOK
  <2> QED
    BY <1>3, <1>4, <2>2, <2>3 DEF IInv
<1>8. CASE ReaderPanics(p)
  <2>1. /\ reader[p] = "reading"
        /\ reader' = [reader EXCEPT ![p] = "panicked"]
        /\ UNCHANGED <<proc, tty, permitted, alive>>
    BY <1>8 DEF ReaderPanics, kernel
  <2>2. TypeOK'
    BY <1>2, <2>1 DEF TypeOK
  <2>3. SpawnedInUse' /\ FreeUntouched' /\ FlagFollowsReader' /\ NoUnownedChild'
    BY <1>2, <2>1 DEF IInv, SpawnedInUse, Active, FreeUntouched, FlagFollowsReader,
                      NoUnownedChild, TypeOK
  <2> QED
    BY <1>3, <1>4, <2>2, <2>3 DEF IInv
<1>9. CASE ChildChangesUser(p)
  <2>1. /\ proc[p] = "running"
        /\ permitted' = [permitted EXCEPT ![p] = ~@] /\ UNCHANGED <<proc, tty, reader, alive>>
    BY <1>9 DEF ChildChangesUser, threads
  <2>2. TypeOK'
    BY <1>2, <2>1 DEF TypeOK
  <2>3. SpawnedInUse' /\ FreeUntouched' /\ FlagFollowsReader' /\ NoUnownedChild'
    BY <1>2, <2>1 DEF IInv, SpawnedInUse, Active, FreeUntouched, FlagFollowsReader,
                      NoUnownedChild
  <2> QED
    BY <1>3, <1>4, <2>2, <2>3 DEF IInv
<1> QED
  BY <1>1, <1>5, <1>6, <1>7, <1>8, <1>9

LEMMA NextIInv == IInv /\ [Next]_smVars => IInv'
<1> SUFFICES ASSUME IInv, [Next]_smVars PROVE IInv'
  OBVIOUS
<1>1. ASSUME NEW want \in Name \cup {Unnamed}, Create(want) PROVE IInv'
  BY <1>1, CreateIInv
<1>2. ASSUME NEW n \in Name, Kill(n) PROVE IInv'
  BY <1>2, KillIInv
<1>3. ASSUME NEW n \in Name, Send(n) PROVE IInv'
  <2>1. ret' \in [op : Ops, name : Name \cup {Unnamed}, result : Results]
    BY <1>3 DEF Send, Return, Ops, Results
  <2> QED
    BY <1>3, <2>1, ReadOnlyIInv DEF Send
<1>4. ASSUME NEW n \in Name, View(n) \/ Resize(n) PROVE IInv'
  BY <1>4, LockingIInv, ResizeIInv DEF View
<1>5. CASE List
  BY <1>5, ReadOnlyIInv DEF List, Return, Ops, Results
<1>6. CASE ReapDead
  <2>1. Dead \in SUBSET Name /\ Remove(Dead) /\ open' \in BOOLEAN
    BY <1>6 DEF ReapDead, Dead, Active, IInv, TypeOK
  <2> QED
    BY <1>6, <2>1, RemoveIInv DEF ReapDead, Return, Ops, Results
<1>7. CASE DropManager
  <2>1. Remove(Name) /\ open' \in BOOLEAN
    BY <1>7 DEF DropManager
  <2> QED
    BY <1>7, <2>1, RemoveIInv DEF DropManager, Return, Ops, Results
<1>8. CASE Environment
  BY <1>8, EnvironmentIInv
<1>9. CASE UNCHANGED smVars
  BY <1>9, ReadOnlyIInv DEF smVars, manager, IInv, TypeOK
<1> QED
  BY <1>1, <1>2, <1>3, <1>4, <1>5, <1>6, <1>7, <1>8, <1>9 DEF Next, Calls

-----------------------------------------------------------------------------
(* The theorems.                                                           *)

\* IInv holds in every reachable state of the manager.
THEOREM Invariance == Spec => []IInv
  BY InitIInv, NextIInv, PTL DEF Spec

\* The manager's state stays well typed, whatever next_id wraps at.
THEOREM TypeCorrect == Spec => []TypeOK
  BY Invariance, PTL DEF IInv

\* Two sessions never share a process.
THEOREM SessionsHaveOwnPids == Spec => []PidsDistinct
  BY Invariance, PTL DEF IInv

\* No child outlives its session unsignalled, and no live session is signalled.
THEOREM KillsAreExact == Spec => []KilledWhenRemoved
  BY Invariance, PTL DEF IInv, KilledWhenRemoved

\* A session is declared dead only after its terminal was hung up, or because its
\* child runs as another user.
THEOREM DeadIsHungUp == Spec => []DeadMeansHungUp
<1>1. IInv => DeadMeansHungUp
  <2> SUFFICES ASSUME IInv, NEW n \in Active, ~IsAlive(sessions[n])
               PROVE  ~tty[sessions[n]] \/ ~permitted[sessions[n]]
    BY DEF DeadMeansHungUp
  <2>1. sessions[n] \in Pid /\ n \in Name
    BY DEF IInv, TypeOK, Active
  <2>2. Owned(sessions[n]) /\ proc[sessions[n]] # "free"
    BY <2>1 DEF IInv, SpawnedInUse, Owned
  <2> QED
    BY <2>1, <2>2 DEF IsAlive, IsProcessAlive, IInv, FlagFollowsReader
<1> QED
  BY <1>1, Invariance, PTL
\* A step removes a session only for a reason that names it.
LEMMA StepKeepsSessionsHolds ==
  ASSUME IInv, [Next]_smVars
  PROVE  StepKeepsSessions
<1> SUFFICES ASSUME NEW n \in Active
             PROVE  \/ sessions'[n] = sessions[n]
                    \/ /\ sessions'[n] = NoPid
                       /\ \/ ret' = Return("kill", n, "ok")
                          \/ ret'.op = "reap" /\ n \in Dead
                          \/ ~open'
  BY DEF StepKeepsSessions
<1>1. /\ n \in Name /\ sessions[n] # NoPid
      /\ sessions \in [Name -> Pid \cup {NoPid}]
  BY DEF Active, IInv, TypeOK
<1>2. ASSUME NEW want \in Name \cup {Unnamed}, Create(want)
      PROVE  sessions'[n] = sessions[n]
  BY <1>1, <1>2 DEF Create, CreateExists, SpawnFails, SpawnAbandons, SpawnSucceeds, Spawned
<1>3. ASSUME NEW m \in Name, Kill(m)
      PROVE  \/ sessions'[n] = sessions[n]
             \/ sessions'[n] = NoPid /\ ret' = Return("kill", n, "ok")
  BY <1>1, <1>3 DEF Kill, Remove
<1>4. ASSUME NEW m \in Name, NEW op \in {"view", "resize"}, Locking(op, m)
      PROVE  \/ sessions'[n] = sessions[n]
             \/ sessions'[n] = NoPid /\ ~open'
  <2>1. \/ sessions' = sessions
        \/ Remove(Name) /\ ~open'
    BY <1>4 DEF Locking
  <2> QED
    BY <2>1, <1>1 DEF Remove
<1>5. CASE ReapDead
  <2>1. Remove(Dead) /\ ret'.op = "reap"
    BY <1>5 DEF ReapDead, Return
  <2> QED
    BY <2>1, <1>1 DEF Remove
<1>6. CASE DropManager
  BY <1>6, <1>1 DEF DropManager, Remove
<1>7. CASE List \/ Environment \/ UNCHANGED smVars \/ \E m \in Name : Send(m)
  BY <1>7 DEF List, Send, Environment, ChildExits, ChildBecomes, ChildChangesUser, TtyCloses,
              ReaderEnds, ReaderStops, ReaderPanics, manager, smVars
<1>8. ASSUME NEW m \in Name, ResizeFails(m) PROVE sessions'[n] = sessions[n]
  BY <1>8 DEF ResizeFails
<1> QED
  BY <1>2, <1>3, <1>4, <1>5, <1>6, <1>7, <1>8 DEF Next, Calls, View, Resize

\* A session keeps its process until a call names it, finds it dead, or ends all.
THEOREM SessionsAreStable == Spec => SessionsStable
<1>1. IInv /\ [Next]_smVars => [StepKeepsSessions]_smVars
  BY StepKeepsSessionsHolds
<1> QED
  BY <1>1, Invariance, PTL DEF Spec, SessionsStable

\* A step signals only pids that the kernel has not taken back.
LEMMA StepSignalsChildrenHolds ==
  ASSUME IInv, [Next]_smVars
  PROVE  StepSignalsChildren
<1> SUFFICES ASSUME NEW p \in Pid, signalled'[p] # signalled[p]
             PROVE  proc'[p] # "free"
  BY DEF StepSignalsChildren
<1>1. ASSUME NEW S \in SUBSET Name, Remove(S), proc' = proc
      PROVE  proc'[p] # "free"
  <2>1. PICK n \in S : sessions[n] = p
    BY <1>1 DEF Remove
  <2> QED
    BY <2>1, <1>1, PidAssumption DEF IInv, SpawnedInUse, Active
<1>2. ASSUME NEW n \in Name, NEW q \in Pid, SpawnAbandons(n, q)
      PROVE  proc'[p] # "free"
  BY <1>2 DEF SpawnAbandons, Fork, IInv, TypeOK
<1>3. ASSUME NEW want \in Name \cup {Unnamed}, Create(want)
      PROVE  proc'[p] # "free"
  BY <1>2, <1>3 DEF Create, CreateExists, SpawnFails, SpawnSucceeds, Spawned
<1>4. ASSUME NEW n \in Name, Kill(n)
      PROVE  proc'[p] # "free"
  <2>1. Remove({n}) /\ proc' = proc
    BY <1>4 DEF Kill, kernel
  <2> QED
    BY <2>1, <1>1
<1>5. ASSUME NEW n \in Name, NEW op \in {"view", "resize"}, Locking(op, n)
      PROVE  proc'[p] # "free"
  <2>1. Remove(Name) /\ proc' = proc
    BY <1>5 DEF Locking, kernel
  <2> QED
    BY <2>1, <1>1
<1>6. CASE ReapDead
  <2>1. Remove(Dead) /\ proc' = proc /\ Dead \in SUBSET Name
    BY <1>6 DEF ReapDead, kernel, Dead, Active
  <2> QED
    BY <2>1, <1>1
<1>7. CASE DropManager
  <2>1. Remove(Name) /\ proc' = proc
    BY <1>7 DEF DropManager, kernel
  <2> QED
    BY <2>1, <1>1
<1>8. ~(List \/ Environment \/ UNCHANGED smVars \/ \E m \in Name : Send(m) \/ ResizeFails(m))
  BY DEF List, Send, ResizeFails, Environment, ChildExits, ChildBecomes, ChildChangesUser, TtyCloses,
         ReaderEnds, ReaderStops, ReaderPanics, smVars
<1> QED
  BY <1>3, <1>4, <1>5, <1>6, <1>7, <1>8 DEF Next, Calls, View, Resize

\* The daemon never signals a process that is not its own child.
THEOREM SignalsAreExact == Spec => SignalsReachChildren
<1>1. IInv /\ [Next]_smVars => [StepSignalsChildren]_smVars
  BY StepSignalsChildrenHolds
<1> QED
  BY <1>1, Invariance, PTL DEF Spec, SignalsReachChildren

-----------------------------------------------------------------------------
(* The naming loop of create terminates.                                   *)

\* Sessions have distinct pids, so not every numeral can name one.
LEMMA SomeNumeralFree == IInv => \E n \in Numeral : sessions[n] = NoPid
<1> SUFFICES ASSUME IInv, \A n \in Numeral : sessions[n] # NoPid PROVE FALSE
  OBVIOUS
<1> DEFINE f == [n \in Numeral |-> sessions[n]]
<1>1. f \in [Numeral -> Pid]
  BY DEF IInv, TypeOK, Name
<1>2. IsFiniteSet(Numeral) /\ Cardinality(Numeral) = IdLimit
  BY FS_Interval, IdLimitAssumption DEF Numeral
<1>3. \E x, y \in Numeral : x # y /\ f[x] = f[y]
  <2> HIDE DEF f
  <2> QED
    BY <1>1, <1>2, EnoughIds, FS_PigeonHole
<1> QED
  BY <1>3 DEF IInv, PidsDistinct, Name

\* The candidate with the fewest candidates before it is the one the loop finds:
\* a free one among those would have fewer still.
LEMMA FirstFree ==
  ASSUME IInv
  PROVE  \E n \in Numeral : AutoName(n)
<1> DEFINE Free == {n \in Numeral : sessions[n] = NoPid}
           T == {Tried(n) : n \in Free}
<1>1. nextId \in Numeral /\ IdLimit \in Nat
  BY IdLimitAssumption DEF IInv, TypeOK
<1>2. \A n \in Numeral : Tried(n) \in SUBSET Numeral
  BY <1>1 DEF Tried, Numeral
<1>3. IsFiniteSet(Numeral)
  BY FS_Interval, IdLimitAssumption DEF Numeral
<1>4. T # {}
  BY SomeNumeralFree
<1>5. T \subseteq SUBSET Numeral
  BY <1>2
<1>6. IsWellFoundedOn(StrictSubsetOrdering(Numeral), SUBSET Numeral)
  BY <1>3, FS_StrictSubsetOrderingWellFounded, FS_FiniteSubsetsOfFinite
<1>7. PICK x \in T : \A y \in T : <<y, x>> \notin StrictSubsetOrdering(Numeral)
  <2> HIDE DEF T
  <2> QED
    BY <1>4, <1>5, <1>6, WFMin
<1>8. PICK n \in Free : x = Tried(n)
  OBVIOUS
<1>9. ASSUME NEW m \in Tried(n), sessions[m] = NoPid
      PROVE  FALSE
  <2>1. m \in Free
    BY <1>2, <1>8, <1>9
  <2>2. Tried(m) \subseteq Tried(n) /\ m \notin Tried(m)
    BY <1>1, <1>8, <1>9, <2>1 DEF Tried, Numeral
  <2>3. <<Tried(m), Tried(n)>> \in StrictSubsetOrdering(Numeral)
    BY <1>2, <1>8, <1>9, <2>1, <2>2 DEF StrictSubsetOrdering
  <2> QED
    BY <1>7, <1>8, <2>1, <2>3
<1> QED
  BY <1>8, <1>9 DEF AutoName

\* create without a name always finds one, with more numerals than processes.
THEOREM NamingTerminates == Spec => []AutoNameFound
<1>1. IInv => AutoNameFound
  BY FirstFree DEF AutoNameFound
<1> QED
  BY <1>1, Invariance, PTL

-----------------------------------------------------------------------------
(* The event loop.                                                         *)

\* The requests a client can make: the ones about a session name it.
Askable ==
  {r \in [op : ReqOps, name : Name \cup {Unnamed}] :
     r.name = Unnamed => r.op \in {"create", "list", "kill_server", "ping", "bad"}}

Waiting == {"connected", "sent", "closed", "deserted"}
Queued(c) == \E i \in 1 .. Len(backlog) : backlog[i] = c

LoopTyped ==
  /\ phase \in Phases
  /\ hadSessions \in BOOLEAN /\ sigterm \in BOOLEAN /\ files \in BOOLEAN
  /\ backlog \in Seq(Client)
  /\ serving \in Client \cup {NoClient}
  /\ conn \in [Client -> ConnStates]
  /\ request \in [Client -> Askable]

\* The manager lives as long as run does, and its end empties the table.
OpenUntilStopped ==
  /\ open <=> phase \notin {"exited", "crashed"}
  /\ ~open => Active = {}

\* The backlog holds each connection once, never the one being served, and
\* nothing is served once the loop is left.
EachInOnePlace ==
  /\ phase # "loop" => serving = NoClient
  /\ \A i, j \in 1 .. Len(backlog) : backlog[i] = backlog[j] => i = j
  /\ \A i \in 1 .. Len(backlog) : backlog[i] # serving
  /\ \A c \in Client : conn[c] \in Waiting <=> serving = c \/ Queued(c)

DInv == IInv /\ LoopTyped /\ OpenUntilStopped /\ EachInOnePlace

-----------------------------------------------------------------------------
(* The manager inside the loop.                                            *)

LEMMA RequestAskable == Request \subseteq Askable /\ NoRequest \in Askable
BY RequestAssumption DEF Askable, NoRequest, ReqOps

\* What a request makes the manager do is one of the manager's calls.
LEMMA ManagerCallIsCall ==
  ASSUME NEW r \in Askable, ManagerCall(r)
  PROVE  [Next]_smVars
<1>1. r.name \in Name \cup {Unnamed} BY DEF Askable
<1>2. r.op \in {"kill", "send", "view_screen", "hardcopy", "resize"} => r.name \in Name
  BY DEF Askable
<1>3. CASE r.op = "create" /\ Create(r.name) BY <1>1, <1>3 DEF Next, Calls
<1>4. CASE r.op = "kill" /\ Kill(r.name) BY <1>2, <1>4 DEF Next, Calls
<1>5. CASE r.op = "list" /\ List BY <1>5 DEF Next, Calls
<1>6. CASE r.op = "send" /\ Send(r.name) BY <1>2, <1>6 DEF Next, Calls
<1>7. CASE r.op \in {"view_screen", "hardcopy"} /\ View(r.name) BY <1>2, <1>7 DEF Next, Calls
<1>8. CASE r.op = "resize" /\ Resize(r.name) BY <1>2, <1>8 DEF Next, Calls
<1> QED BY <1>3, <1>4, <1>5, <1>6, <1>7, <1>8 DEF ManagerCall

\* Every step of the daemon is a step of the manager or leaves it alone.
LEMMA DaemonStepIsManagerStep ==
  ASSUME LoopTyped, [NextDaemon]_vars
  PROVE  [Next]_smVars
<1>1. ASSUME NEW c \in Client, HandleRequest(c) PROVE [Next]_smVars
  <2>1. request[c] \in Askable BY DEF LoopTyped
  <2> QED BY <1>1, <2>1, ManagerCallIsCall DEF HandleRequest
<1>2. CASE ReapTick BY <1>2 DEF ReapTick, TickSeeing, Next, Calls
<1>3. CASE Exit BY <1>3 DEF Exit, ExitWith, Next, Calls
<1>4. CASE Outside BY <1>4 DEF Outside, Next
<1>5. CASE ClientStep \/ SignalTerm BY <1>5 DEF ClientStep, Connect, SendRequest, Disconnect, SignalTerm
<1>6. CASE Accept \/ TakeSigterm BY <1>6 DEF Accept, AcceptLeaving, TakeSigterm
<1>7. ASSUME NEW c \in Client, HandleClosed(c) PROVE [Next]_smVars BY <1>7 DEF HandleClosed
<1>8. CASE CloseListener \/ RemoveFiles \/ UNCHANGED vars BY <1>8 DEF CloseListener, RemoveFiles, vars
<1> QED BY <1>1, <1>2, <1>3, <1>4, <1>5, <1>6, <1>7, <1>8 DEF NextDaemon, LoopStep

\* A request either leaves the manager in place or panics and empties it.
LEMMA PanicDropsAll ==
  ASSUME NEW r \in Askable, ManagerCall(r), open
  PROVE  /\ Panicked(r) => ~open' /\ Active' = {} /\ r.name \in Active
         /\ ~Panicked(r) => open'
<1>1. ASSUME NEW op, NEW n \in Name, Locking(op, n)
      PROVE  IF ret'.result = "panicked" THEN ~open' /\ Active' = {} /\ n \in Active ELSE open'
  <2>1. CASE sessions[n] # NoPid /\ Poisoned(sessions[n])
    BY <1>1, <2>1 DEF Locking, Remove, Active, Return
  <2>2. CASE ~(sessions[n] # NoPid /\ Poisoned(sessions[n]))
    <3>1. ret' = Return(op, n, IF sessions[n] = NoPid THEN "not_found" ELSE "ok")
      BY <1>1, <2>2 DEF Locking
    <3>2. open' = open BY <1>1, <2>2 DEF Locking
    <3> QED BY <3>1, <3>2 DEF Return
  <2> QED BY <2>1, <2>2
<1>2. CASE r.op \in {"view_screen", "hardcopy", "resize"}
  <2>1. r.name \in Name BY <1>2 DEF Askable
  <2>2. Locking("view", r.name) \/ Locking("resize", r.name) \/ ResizeFails(r.name)
    BY <1>2 DEF ManagerCall, View, Resize
  <2>3. ResizeFails(r.name) => open' = open /\ ret'.result = "io_failed"
    BY DEF ResizeFails, Return
  <2> QED BY <1>1, <1>2, <2>1, <2>2, <2>3 DEF Panicked
<1>3. CASE r.op \notin {"view_screen", "hardcopy", "resize"}
  <2>1. open' = open
    BY <1>3 DEF ManagerCall, Create, CreateExists, SpawnFails, SpawnAbandons, SpawnSucceeds, Spawned,
                Kill, List, Send, smVars, manager
  <2> QED BY <1>3, <2>1 DEF Panicked
<1> QED BY <1>2, <1>3

-----------------------------------------------------------------------------
(* DInv is an invariant.                                                   *)

LEMMA InitDInv == InitDaemon => DInv
<1> SUFFICES ASSUME InitDaemon PROVE DInv OBVIOUS
<1>1. IInv BY InitIInv DEF InitDaemon
<1>2. backlog \in Seq(Client) /\ Len(backlog) = 0 BY DEF InitDaemon
<1>3. LoopTyped BY <1>2, RequestAskable DEF InitDaemon, LoopTyped, Phases, ConnStates
<1>4. OpenUntilStopped BY DEF InitDaemon, Init, OpenUntilStopped
<1>5. EachInOnePlace
  BY <1>2, RequestAssumption DEF InitDaemon, EachInOnePlace, Queued, Waiting
<1> QED BY <1>1, <1>3, <1>4, <1>5 DEF DInv

\* A step that leaves phase, open and the table alone.
LEMMA OpenUnchanged ==
  ASSUME OpenUntilStopped, UNCHANGED <<phase, open, sessions>>
  PROVE  OpenUntilStopped'
BY DEF OpenUntilStopped, Active

\* A step that moves no connection into or out of the backlog and the service.
LEMMA PlacesUnchanged ==
  ASSUME EachInOnePlace, UNCHANGED <<backlog, serving>>, phase' # "loop" => serving = NoClient,
         \A c \in Client : conn'[c] \in Waiting <=> conn[c] \in Waiting
  PROVE  EachInOnePlace'
BY DEF EachInOnePlace, Queued

LEMMA ClientStepDInv ==
  ASSUME DInv, ClientStep
  PROVE  LoopTyped' /\ OpenUntilStopped' /\ EachInOnePlace'
<1> USE DEF DInv
<1>1. PICK c \in Client : (\E r \in Request : Connect(c, r)) \/ SendRequest(c) \/ Disconnect(c)
  BY DEF ClientStep
<1>2. UNCHANGED <<phase, hadSessions, sigterm, files, serving, open, sessions>>
  BY <1>1 DEF Connect, SendRequest, Disconnect, smVars, manager
<1>3. OpenUntilStopped' BY <1>2, OpenUnchanged
<1>4. ASSUME NEW r \in Request, Connect(c, r) PROVE LoopTyped' /\ EachInOnePlace'
  <2>1. backlog' = Append(backlog, c) /\ request' = [request EXCEPT ![c] = r]
    BY <1>4 DEF Connect
  <2>2. conn[c] \notin Waiting /\ conn' = [conn EXCEPT ![c] = "connected"]
    BY <1>4 DEF Connect, Waiting
  <2>3. /\ backlog' \in Seq(Client) /\ Len(backlog') = Len(backlog) + 1 /\ Len(backlog) \in Nat
        /\ backlog'[Len(backlog) + 1] = c
        /\ \A i \in 1 .. Len(backlog) : backlog'[i] = backlog[i]
    BY <2>1 DEF LoopTyped
  <2>4. LoopTyped' BY <1>2, <2>1, <2>2, <2>3, RequestAskable DEF LoopTyped, ConnStates
  <2>5. serving # c /\ \A i \in 1 .. Len(backlog) : backlog[i] # c
    BY <2>2 DEF EachInOnePlace, Queued
  <2>6. \A d \in Client : Queued(d)' <=> d = c \/ Queued(d)
    BY <2>3 DEF Queued
  <2>7. \A i, j \in 1 .. Len(backlog') : backlog'[i] = backlog'[j] => i = j
    BY <2>3, <2>5 DEF EachInOnePlace
  <2>8. \A i \in 1 .. Len(backlog') : backlog'[i] # serving
    BY <2>3, <2>5 DEF EachInOnePlace
  <2>9. \A d \in Client : conn'[d] \in Waiting <=> serving = d \/ Queued(d)'
    BY <2>2, <2>6 DEF EachInOnePlace, LoopTyped, Waiting
  <2> QED BY <1>2, <2>4, <2>7, <2>8, <2>9 DEF EachInOnePlace
<1>5. CASE SendRequest(c) \/ Disconnect(c)
  <2>1. UNCHANGED <<backlog, request>> /\ conn[c] \in Waiting BY <1>5 DEF SendRequest, Disconnect, Waiting
  <2>2. \E to \in Waiting : conn' = [conn EXCEPT ![c] = to]
    BY <1>5 DEF SendRequest, Disconnect, Waiting
  <2>3. LoopTyped' BY <1>2, <2>1, <2>2 DEF LoopTyped, ConnStates, Waiting
  <2>4. \A d \in Client : conn'[d] \in Waiting <=> conn[d] \in Waiting
    BY <2>1, <2>2 DEF LoopTyped
  <2> QED BY <1>2, <1>3, <2>1, <2>3, <2>4, PlacesUnchanged DEF EachInOnePlace
<1> QED BY <1>1, <1>3, <1>4, <1>5

LEMMA AcceptDInv ==
  ASSUME DInv, Accept
  PROVE  LoopTyped' /\ OpenUntilStopped' /\ EachInOnePlace'
<1> USE DEF DInv
<1>1. /\ UNCHANGED <<phase, hadSessions, sigterm, files, conn, request, open, sessions>>
      /\ phase = "loop" /\ serving = NoClient /\ backlog # <<>>
      /\ serving' = Head(backlog) /\ backlog' = Tail(backlog)
  BY DEF Accept, AcceptLeaving, Selecting, smVars, manager
<1>2. backlog \in Seq(Client) BY DEF LoopTyped
<1>3. /\ Len(backlog) \in Nat \ {0} /\ serving' = backlog[1] /\ serving' \in Client
      /\ backlog' \in Seq(Client) /\ Len(backlog') = Len(backlog) - 1
      /\ \A i \in 1 .. Len(backlog') : backlog'[i] = backlog[i + 1]
  BY <1>1, <1>2, EmptySeq, HeadTailProperties
<1>4. LoopTyped' BY <1>1, <1>3 DEF LoopTyped
<1>5. \A i, j \in 1 .. Len(backlog') : backlog'[i] = backlog'[j] => i = j
  BY <1>3 DEF EachInOnePlace
<1>6. \A i \in 1 .. Len(backlog') : backlog'[i] # serving'
  BY <1>3 DEF EachInOnePlace
<1>7. ASSUME NEW c \in Client PROVE Queued(c) <=> serving' = c \/ Queued(c)'
  <2>1. ASSUME Queued(c) PROVE serving' = c \/ Queued(c)'
    <3>1. PICK i \in 1 .. Len(backlog) : backlog[i] = c BY <2>1 DEF Queued
    <3>2. CASE i = 1 BY <1>3, <3>1, <3>2
    <3>3. CASE i # 1
      <4>1. i - 1 \in 1 .. Len(backlog') /\ backlog'[i - 1] = c BY <1>3, <3>1, <3>3
      <4> QED BY <4>1 DEF Queued
    <3> QED BY <3>2, <3>3
  <2>2. serving' = c => Queued(c)
    <3>1. 1 \in 1 .. Len(backlog) BY <1>3
    <3> QED BY <1>3, <3>1 DEF Queued
  <2>3. Queued(c)' => Queued(c) BY <1>3 DEF Queued
  <2> QED BY <2>1, <2>2, <2>3
<1>8. EachInOnePlace'
  BY <1>1, <1>5, <1>6, <1>7, RequestAssumption DEF EachInOnePlace
<1> QED BY <1>1, <1>4, <1>8, OpenUnchanged

\* The end of a connection that was being served.
LEMMA ServedLeaves ==
  ASSUME LoopTyped, EachInOnePlace, NEW c \in Client, serving = c, serving' = NoClient,
         backlog' = backlog, NEW to \in ConnStates \ Waiting, conn' = [conn EXCEPT ![c] = to]
  PROVE  EachInOnePlace'
<1>1. \A d \in Client : Queued(d)' <=> Queued(d) BY DEF Queued
<1>2. ~Queued(c) BY DEF EachInOnePlace, Queued
<1>3. \A d \in Client : conn'[d] \in Waiting <=> serving' = d \/ Queued(d)'
  BY <1>1, <1>2, RequestAssumption DEF EachInOnePlace, LoopTyped, Waiting
<1>4. \A i \in 1 .. Len(backlog) : backlog[i] # NoClient
  BY RequestAssumption DEF LoopTyped
<1> QED BY <1>3, <1>4 DEF EachInOnePlace

\* Every connection that was not answered is reset.
LEMMA ResetPlaces ==
  ASSUME LoopTyped, ResetConnections, serving' = NoClient
  PROVE  EachInOnePlace' /\ conn' \in [Client -> ConnStates] /\ request' \in [Client -> Askable]
         /\ backlog' \in Seq(Client)
<1>1. backlog' \in Seq(Client) /\ Len(backlog') = 0 BY DEF ResetConnections
<1>2. \A c \in Client : conn'[c] \in ConnStates \ Waiting
  BY DEF ResetConnections, LoopTyped, ConnStates, Waiting
<1>3. \A c \in Client : ~(serving' = c \/ Queued(c)')
  BY <1>1, RequestAssumption DEF Queued
<1>4. conn' \in [Client -> ConnStates] /\ request' \in [Client -> Askable]
  BY <1>2, RequestAskable DEF ResetConnections
<1> QED BY <1>1, <1>2, <1>3, <1>4 DEF EachInOnePlace

LEMMA HandleDInv ==
  ASSUME DInv, NEW c \in Client, HandleClosed(c) \/ HandleRequest(c)
  PROVE  LoopTyped' /\ OpenUntilStopped' /\ EachInOnePlace'
<1> USE DEF DInv
<1>1. CASE HandleClosed(c)
  <2>1. /\ UNCHANGED <<phase, hadSessions, sigterm, files, backlog, open, sessions>>
        /\ serving = c /\ serving' = NoClient
        /\ conn' = [conn EXCEPT ![c] = "idle"]
        /\ request' = [request EXCEPT ![c] = NoRequest]
    BY <1>1 DEF HandleClosed, smVars, manager
  <2>2. "idle" \in ConnStates \ Waiting BY DEF ConnStates, Waiting
  <2>3. LoopTyped' BY <2>1, <2>2, RequestAskable DEF LoopTyped
  <2> QED BY <2>1, <2>2, <2>3, OpenUnchanged, ServedLeaves
<1>2. CASE HandleRequest(c)
  <2>1. /\ phase = "loop" /\ serving = c /\ ManagerCall(request[c])
        /\ UNCHANGED <<hadSessions, sigterm, files>>
        /\ request[c] \in Askable
    BY <1>2 DEF HandleRequest, LoopTyped
  <2>2. open BY <2>1 DEF OpenUntilStopped
  <2>3. CASE Panicked(request[c])
    <3>1. Crash BY <1>2, <2>3 DEF HandleRequest
    <3>2. phase' = "crashed" /\ serving' = NoClient /\ ResetConnections BY <3>1 DEF Crash
    <3>3. ~open' /\ Active' = {} BY <2>1, <2>2, <2>3, PanicDropsAll
    <3>4. LoopTyped' BY <2>1, <3>2, ResetPlaces DEF LoopTyped, Phases
    <3> QED BY <3>2, <3>3, <3>4, ResetPlaces DEF OpenUntilStopped
  <2>4. CASE ~Panicked(request[c])
    <3>1. Respond(c) BY <1>2, <2>4 DEF HandleRequest
    <3>2. /\ phase' \in {"loop", "leaving"} /\ serving' = NoClient /\ backlog' = backlog
          /\ request' = [request EXCEPT ![c] = NoRequest]
      BY <2>1, <3>1 DEF Respond
    <3>3. PICK to \in {"answered", "idle"} : conn' = [conn EXCEPT ![c] = to]
      BY <3>1 DEF Respond
    <3>4. to \in ConnStates \ Waiting BY <3>3 DEF ConnStates, Waiting
    <3>5. open' BY <2>1, <2>2, <2>4, PanicDropsAll
    <3>6. OpenUntilStopped' BY <3>2, <3>5 DEF OpenUntilStopped
    <3>7. LoopTyped' BY <2>1, <3>2, <3>3, <3>4, RequestAskable DEF LoopTyped, Phases
    <3> QED BY <2>1, <3>2, <3>3, <3>4, <3>6, <3>7, ServedLeaves
  <2> QED BY <2>3, <2>4
<1> QED BY <1>1, <1>2

LEMMA LeavingDInv ==
  ASSUME DInv, CloseListener \/ RemoveFiles \/ Exit
  PROVE  LoopTyped' /\ OpenUntilStopped' /\ EachInOnePlace'
<1> USE DEF DInv
<1>1. CASE CloseListener
  <2>1. /\ phase = "leaving" /\ phase' = "closed" /\ ResetConnections
        /\ UNCHANGED <<hadSessions, sigterm, files, serving, open, sessions>>
    BY <1>1 DEF CloseListener, smVars, manager
  <2>2. serving' = NoClient BY <2>1 DEF EachInOnePlace
  <2>3. OpenUntilStopped' BY <2>1 DEF OpenUntilStopped, Active
  <2>4. LoopTyped' BY <2>1, <2>2, ResetPlaces DEF LoopTyped, Phases
  <2> QED BY <2>1, <2>2, <2>3, <2>4, ResetPlaces
<1>2. CASE RemoveFiles
  <2>1. /\ phase = "closed" /\ phase' = "cleaned" /\ files' = FALSE
        /\ UNCHANGED <<hadSessions, sigterm, backlog, serving, conn, request, open, sessions>>
    BY <1>2 DEF RemoveFiles, net, smVars, manager
  <2>2. LoopTyped' BY <2>1 DEF LoopTyped, Phases
  <2>3. OpenUntilStopped' BY <2>1 DEF OpenUntilStopped, Active
  <2>4. EachInOnePlace' BY <2>1, PlacesUnchanged DEF EachInOnePlace
  <2> QED BY <2>2, <2>3, <2>4
<1>3. CASE Exit
  <2>1. /\ phase = "cleaned" /\ phase' = "exited" /\ DropManager
        /\ UNCHANGED <<hadSessions, sigterm, files, backlog, serving, conn, request>>
    BY <1>3 DEF Exit, ExitWith, net
  <2>2. ~open' /\ Active' = {} BY <2>1 DEF DropManager, Remove, Active
  <2>3. LoopTyped' BY <2>1 DEF LoopTyped, Phases
  <2>4. OpenUntilStopped' BY <2>1, <2>2 DEF OpenUntilStopped
  <2>5. EachInOnePlace' BY <2>1, PlacesUnchanged DEF EachInOnePlace
  <2> QED BY <2>3, <2>4, <2>5
<1> QED BY <1>1, <1>2, <1>3

LEMMA OtherDInv ==
  ASSUME DInv, SignalTerm \/ TakeSigterm \/ ReapTick \/ Outside \/ UNCHANGED vars
  PROVE  LoopTyped' /\ OpenUntilStopped' /\ EachInOnePlace'
<1> USE DEF DInv
<1>1. UNCHANGED <<backlog, serving, conn, request, files>>
  BY DEF SignalTerm, TakeSigterm, ReapTick, TickSeeing, Outside, net, vars
<1>2. CASE ReapTick
  <2>1. open /\ open' = open /\ phase = "loop" /\ serving = NoClient
    BY <1>2 DEF ReapTick, TickSeeing, ReapDead, Selecting
  <2>2. phase' \in {"loop", "leaving"} /\ hadSessions' \in BOOLEAN /\ sigterm' = sigterm
    BY <1>2, <2>1 DEF ReapTick, TickSeeing, LoopTyped
  <2>3. LoopTyped' BY <1>1, <2>2 DEF LoopTyped, Phases
  <2>4. OpenUntilStopped' BY <2>1, <2>2 DEF OpenUntilStopped
  <2>5. EachInOnePlace' BY <1>1, <2>1, PlacesUnchanged
  <2> QED BY <2>3, <2>4, <2>5
<1>3. CASE TakeSigterm
  <2>1. /\ phase = "loop" /\ serving = NoClient /\ phase' = "leaving"
        /\ UNCHANGED <<hadSessions, sigterm, open, sessions>>
    BY <1>3 DEF TakeSigterm, Selecting, smVars, manager
  <2>2. LoopTyped' BY <1>1, <2>1 DEF LoopTyped, Phases
  <2>3. OpenUntilStopped' BY <2>1 DEF OpenUntilStopped, Active
  <2>4. EachInOnePlace' BY <1>1, <2>1, PlacesUnchanged
  <2> QED BY <2>2, <2>3, <2>4
<1>4. CASE SignalTerm \/ Outside \/ UNCHANGED vars
  <2>1. UNCHANGED <<phase, hadSessions, open, sessions>> /\ sigterm' \in BOOLEAN
    BY <1>4 DEF SignalTerm, Outside, Environment, ChildExits, ChildBecomes, ChildChangesUser,
                TtyCloses, ReaderEnds, ReaderStops, ReaderPanics, smVars, manager, vars, LoopTyped
  <2>2. LoopTyped' BY <1>1, <2>1 DEF LoopTyped
  <2>3. EachInOnePlace' BY <1>1, <2>1, PlacesUnchanged DEF EachInOnePlace
  <2> QED BY <2>1, <2>2, <2>3, OpenUnchanged
<1> QED BY <1>2, <1>3, <1>4

LEMMA StepDInv == DInv /\ [NextDaemon]_vars => DInv'
<1> SUFFICES ASSUME DInv, [NextDaemon]_vars PROVE DInv' OBVIOUS
<1>1. IInv' BY DaemonStepIsManagerStep, NextIInv DEF DInv
<1>2. LoopTyped' /\ OpenUntilStopped' /\ EachInOnePlace'
  BY ClientStepDInv, AcceptDInv, HandleDInv, LeavingDInv, OtherDInv DEF NextDaemon, LoopStep
<1> QED BY <1>1, <1>2 DEF DInv

LEMMA DaemonInvariance == SpecDaemon => []DInv
BY InitDInv, StepDInv, PTL DEF SpecDaemon

-----------------------------------------------------------------------------
(* What follows from the invariant.                                        *)

\* The manager keeps its promises inside the daemon: its specification is
\* implemented by every run of the event loop.
THEOREM DaemonRunsManager == SpecDaemon => Spec
<1>1. InitDaemon => Init BY DEF InitDaemon
<1>2. DInv /\ [NextDaemon]_vars => [Next]_smVars BY DaemonStepIsManagerStep DEF DInv
<1> QED BY <1>1, <1>2, DaemonInvariance, PTL DEF SpecDaemon, Spec

\* However the daemon stops - KillServer, SIGTERM, auto-exit or a panic - the
\* table is empty and every child still running was signalled.
THEOREM StopsLeaveNothing == SpecDaemon => []StopsClean
<1>1. DInv => StopsClean
  <2> SUFFICES ASSUME DInv, phase \in {"exited", "crashed"}
               PROVE  Active = {} /\ \A p \in Pid : proc[p] = "running" => signalled[p] # "none"
    BY DEF StopsClean
  <2>1. Active = {} BY DEF DInv, OpenUntilStopped
  <2>2. \A p \in Pid : ~Owned(p) BY <2>1, PidAssumption DEF Owned, Active
  <2> QED BY <2>1, <2>2 DEF DInv, IInv, NoUnownedChild
<1> QED BY <1>1, DaemonInvariance, PTL

\* No connection is lost or served twice, however many clients come and go.
THEOREM ConnectionsKept == SpecDaemon => []ConnectionsAccounted
<1>1. DInv => ConnectionsAccounted
  <2> SUFFICES ASSUME DInv, NEW c \in Client
               PROVE  Cardinality({i \in 1 .. Len(backlog) : backlog[i] = c})
                        + (IF serving = c THEN 1 ELSE 0)
                      = IF conn[c] \in {"connected", "sent", "closed", "deserted"} THEN 1 ELSE 0
    BY DEF ConnectionsAccounted
  <2> DEFINE At == {i \in 1 .. Len(backlog) : backlog[i] = c}
  <2>1. conn[c] \in Waiting <=> serving = c \/ Queued(c) BY DEF DInv, EachInOnePlace
  <2>2. CASE Queued(c)
    <3>1. PICK i \in 1 .. Len(backlog) : backlog[i] = c BY <2>2 DEF Queued
    <3>2. At = {i} BY <3>1 DEF DInv, EachInOnePlace
    <3>3. serving # c BY <3>1 DEF DInv, EachInOnePlace
    <3>4. Cardinality(At) = 1 BY <3>2, FS_Singleton
    <3> QED BY <2>1, <2>2, <3>3, <3>4 DEF Waiting
  <2>3. CASE ~Queued(c)
    <3>1. At = {} BY <2>3 DEF Queued
    <3>2. Cardinality(At) = 0 BY <3>1, FS_EmptySet
    <3> QED BY <2>1, <2>3, <3>2 DEF Waiting
  <2> QED BY <2>2, <2>3
<1> QED BY <1>1, DaemonInvariance, PTL

-----------------------------------------------------------------------------
(* The refinement: what each step of the daemon is to its clients.         *)

\* The status of the directory, as Directory maps it.
Status ==
  CASE phase = "loop" -> "serving" [] phase = "leaving" -> "leaving" [] OTHER -> "stopped"

\* A step that leaves the table and what is_alive reads alone.
LEMMA NamesKept ==
  ASSUME UNCHANGED <<sessions, kernel, threads>>
  PROVE  Active' = Active /\ Dead' = Dead
BY DEF kernel, threads, Active, Dead, IsAlive, IsProcessAlive

\* Removing entries changes no other name, nor whether it counts as ended.
LEMMA NamesRemoved ==
  ASSUME NEW S \in SUBSET Name, Remove(S), UNCHANGED <<kernel, threads>>
  PROVE  Active' = Active \ S /\ Dead' = Dead \ S
<1>1. \A n \in Name : sessions'[n] = IF n \in S THEN NoPid ELSE sessions[n] BY DEF Remove
<1>2. Active' = Active \ S BY <1>1 DEF Active
<1>3. ASSUME NEW n \in Active \ S PROVE IsAlive(sessions[n])' <=> IsAlive(sessions[n])
  <2>1. sessions'[n] = sessions[n] BY <1>1 DEF Active
  <2> QED BY <2>1 DEF kernel, threads, IsAlive, IsProcessAlive
<1> QED BY <1>2, <1>3 DEF Dead

\* Steps that no client can tell.
LEMMA SilentStep ==
  ASSUME UNCHANGED <<sessions, kernel, threads, hadSessions, sigterm, request, reply>>,
         Status' = Status, \A c \in Client : CallOf(c)' = CallOf(c)
  PROVE  UNCHANGED Directory!vars
BY NamesKept DEF Directory!vars, Directory!calls, Status

\* A change of one client's connection, as a change of its call.
LEMMA OneCallMoves ==
  ASSUME LoopTyped, NEW c \in Client, NEW to \in ConnStates, conn' = [conn EXCEPT ![c] = to]
  PROVE  [d \in Client |-> CallOf(d)]' =
           [[d \in Client |-> CallOf(d)] EXCEPT ![c] = CallOf(c)']
BY DEF LoopTyped, CallOf

\* The server stops answering: every call in progress fails, those that nobody
\* waits for are forgotten.
CallsFail ==
  /\ [c \in Client |-> CallOf(c)]' =
       [c \in Client |-> CASE [d \in Client |-> CallOf(d)][c] = "pending" -> "failed"
                           [] [d \in Client |-> CallOf(d)][c] = "gone" -> "idle"
                           [] OTHER -> [d \in Client |-> CallOf(d)][c]]
  /\ request' = [c \in Client |-> NoRequest]

LEMMA ResetFails ==
  ASSUME LoopTyped, ResetConnections
  PROVE  CallsFail
<1> SUFFICES ASSUME NEW c \in Client
             PROVE  CallOf(c)' = CASE CallOf(c) = "pending" -> "failed"
                                   [] CallOf(c) = "gone" -> "idle"
                                   [] OTHER -> CallOf(c)
  BY DEF CallsFail, ResetConnections
<1>1. conn[c] \in ConnStates BY DEF LoopTyped
<1>2. conn'[c] = CASE conn[c] \in {"connected", "sent"} -> "failed"
                   [] conn[c] \in {"closed", "deserted"} -> "idle"
                   [] OTHER -> conn[c]
  BY DEF ResetConnections
<1> QED BY <1>1, <1>2 DEF CallOf, ConnStates

\* A client's own steps: it calls, nothing visible, or it goes away.
LEMMA ClientRefines ==
  ASSUME DInv, ClientStep
  PROVE  [Directory!NextDirectory]_(Directory!vars)
<1> USE DEF DInv
<1>1. PICK c \in Client : (\E r \in Request : Connect(c, r)) \/ SendRequest(c) \/ Disconnect(c)
  BY DEF ClientStep
<1>2. UNCHANGED <<phase, hadSessions, sigterm, smVars>> /\ Active' = Active /\ Dead' = Dead
  <2>1. UNCHANGED <<phase, hadSessions, sigterm, smVars>>
    BY <1>1 DEF Connect, SendRequest, Disconnect
  <2> QED BY <2>1, NamesKept DEF smVars, manager
<1>3. ASSUME NEW r \in Request, Connect(c, r) PROVE Directory!Invoke(c, r)
  <2>1. /\ phase \in {"loop", "leaving"} /\ conn[c] \in {"idle", "answered", "failed"}
        /\ conn' = [conn EXCEPT ![c] = "connected"]
        /\ request' = [request EXCEPT ![c] = r]
        /\ reply' = [reply EXCEPT ![c] = NoAnswer]
    BY <1>3 DEF Connect
  <2>2. CallOf(c) \in {"idle", "done", "failed"} BY <2>1 DEF CallOf
  <2>3. CallOf(c)' = "pending" BY <2>1 DEF CallOf, LoopTyped
  <2>4. [d \in Client |-> CallOf(d)]' = [[d \in Client |-> CallOf(d)] EXCEPT ![c] = "pending"]
    BY <2>1, <2>3, OneCallMoves DEF ConnStates
  <2>5. NoAnswer = Directory!NoAnswer
    BY DEF NoAnswer, Answer, Directory!NoAnswer, Directory!Answer
  <2> QED BY <1>2, <2>1, <2>2, <2>4, <2>5 DEF Directory!Invoke
<1>4. CASE SendRequest(c)
  <2>1. /\ conn[c] = "connected" /\ conn' = [conn EXCEPT ![c] = "sent"]
        /\ UNCHANGED <<request, reply>>
    BY <1>4 DEF SendRequest
  <2>2. \A d \in Client : CallOf(d)' = CallOf(d) BY <2>1 DEF CallOf, LoopTyped
  <2> QED BY <1>2, <2>1, <2>2, SilentStep DEF Status, smVars, manager
<1>5. CASE Disconnect(c)
  <2>1. /\ conn[c] \in {"connected", "sent"} /\ UNCHANGED <<request, reply>>
        /\ \E to \in {"closed", "deserted"} : conn' = [conn EXCEPT ![c] = to]
    BY <1>5 DEF Disconnect
  <2>2. CallOf(c) = "pending" /\ CallOf(c)' = "gone" BY <2>1 DEF CallOf, LoopTyped
  <2>3. [d \in Client |-> CallOf(d)]' = [[d \in Client |-> CallOf(d)] EXCEPT ![c] = "gone"]
    BY <2>1, <2>2, OneCallMoves DEF ConnStates
  <2>4. Directory!Vanish(c) BY <1>2, <2>1, <2>2, <2>3 DEF Directory!Vanish
  <2> QED BY <2>4 DEF Directory!NextDirectory
<1> QED BY <1>1, <1>3, <1>4, <1>5 DEF Directory!NextDirectory

\* The answer to a request that did not panic, in terms of what the call returned.
LEMMA AnswerRead ==
  ASSUME NEW r \in Askable
  PROVE  /\ r.op \in {"create", "kill", "send", "hardcopy", "resize"} =>
              ReplyTo(r) = Answer(ret'.result, ret'.name, {})
         /\ r.op = "view_screen" =>
              ReplyTo(r) = IF ret'.result = "ok" /\ ~IsAlive(sessions[r.name])
                             THEN Answer("exited", r.name, {})
                             ELSE Answer(ret'.result, ret'.name, {})
         /\ r.op = "list" => ReplyTo(r) = Answer("ok", Unnamed, Active)
         /\ r.op \in {"ping", "kill_server"} => ReplyTo(r) = Answer("ok", Unnamed, {})
         /\ r.op = "bad" => ReplyTo(r) = Answer("rejected", Unnamed, {})
BY DEF ReplyTo

\* create does to the directory what the abstract call does, and says so.
LEMMA CreateHasEffect ==
  ASSUME DInv, NEW r \in Askable, r.op = "create", Create(r.name)
  PROVE  Directory!Effect(r, ReplyTo(r)) /\ ReplyTo(r) \in Directory!Answers
<1> USE DEF DInv
<1>1. PICK n \in Name :
        /\ NameFor(r.name, n)
        /\ \/ CreateExists(n)
           \/ SpawnFails(n)
           \/ \E p \in Pid : SpawnAbandons(n, p)
           \/ \E p \in Pid, t \in {"none", "reading"} : SpawnSucceeds(n, p, t)
  BY DEF Create
<1>2. n \in (IF r.name = Unnamed THEN Numeral ELSE {r.name}) BY <1>1 DEF NameFor, AutoName
<1>3. n \in Active <=> sessions[n] # NoPid BY DEF Active
<1>4. ReplyTo(r) = Answer(ret'.result, ret'.name, {}) BY AnswerRead
<1> DEFINE a == ReplyTo(r)
<1> SUFFICES Directory!CreateAs(r, n, a) /\ a \in Directory!Answers
  BY DEF Directory!Effect
<1>5. CASE CreateExists(n)
  <2>1. /\ ret' = Return("create", n, "exists") /\ sessions' = sessions /\ n \in Active
        /\ r.name # Unnamed
    BY <1>1, <1>3, <1>5 DEF CreateExists, NameFor, AutoName
  <2>2. a = Answer("exists", n, {}) /\ Active' = Active BY <1>4, <2>1 DEF Return, Active
  <2> QED BY <1>2, <2>1, <2>2
       DEF Answer, Directory!CreateAs, Directory!Answer, Directory!Answers, Directory!Results
<1>6. CASE SpawnFails(n) \/ \E p \in Pid : SpawnAbandons(n, p)
  <2>1. ret' = Return("create", n, "spawn_failed") /\ sessions' = sessions /\ n \notin Active
    BY <1>3, <1>6 DEF SpawnFails, SpawnAbandons
  <2>2. a = Answer("spawn_failed", n, {}) /\ Active' = Active BY <1>4, <2>1 DEF Return, Active
  <2> QED BY <1>2, <2>1, <2>2
       DEF Answer, Directory!CreateAs, Directory!Answer, Directory!Answers, Directory!Results
<1>7. ASSUME NEW p \in Pid, NEW t \in {"none", "reading"}, SpawnSucceeds(n, p, t)
      PROVE  Directory!CreateAs(r, n, a) /\ a \in Directory!Answers
  <2>1. /\ ret' = Return("create", n, "ok") /\ sessions' = [sessions EXCEPT ![n] = p]
        /\ n \notin Active
    BY <1>3, <1>7 DEF SpawnSucceeds, Spawned
  <2>2. a = Answer("ok", n, {}) BY <1>4, <2>1 DEF Return
  <2>3. Active' = Active \cup {n} BY <2>1, PidAssumption DEF Active, IInv, TypeOK
  <2> QED BY <1>2, <2>1, <2>2, <2>3
       DEF Answer, Directory!CreateAs, Directory!Answer, Directory!Answers, Directory!Results
<1> QED BY <1>1, <1>5, <1>6, <1>7

\* The calls about one session.
LEMMA NamedHasEffect ==
  ASSUME NEW r \in Askable, r.op \in {"kill", "send", "view_screen", "hardcopy", "resize"},
         ManagerCall(r), ~Panicked(r)
  PROVE  Directory!Effect(r, ReplyTo(r)) /\ ReplyTo(r) \in Directory!Answers
<1> DEFINE n == r.name
           a == ReplyTo(r)
<1>1. n \in Name BY DEF Askable
<1>2. n \in Active <=> sessions[n] # NoPid BY <1>1 DEF Active
<1>3. r.op \in Directory!NeedsSession BY DEF Directory!NeedsSession
<1>4. CASE r.op = "kill"
  <2>1. Kill(n) /\ a = Answer(ret'.result, ret'.name, {}) BY <1>4, AnswerRead DEF ManagerCall
  <2>2. CASE n \notin Active
    <3>1. a = Answer("not_found", n, {}) /\ Active' = Active
      BY <1>2, <2>1, <2>2 DEF Kill, Return, Active
    <3> QED BY <1>1, <1>3, <2>2, <3>1
         DEF Answer, Directory!Effect, Directory!Answer, Directory!Answers, Directory!Results
  <2>3. CASE n \in Active
    <3>1. a = Answer("ok", n, {}) /\ Remove({n}) BY <1>2, <2>1, <2>3 DEF Kill, Return
    <3>2. Active' = Active \ {n} BY <3>1 DEF Remove, Active
    <3> QED BY <1>1, <1>3, <1>4, <2>3, <3>1, <3>2
         DEF Answer, Directory!Effect, Directory!Answer, Directory!Answers, Directory!Results,
             Directory!Found
  <2> QED BY <2>2, <2>3
<1>5. CASE r.op = "send"
  <2>1. Send(n) /\ a = Answer(ret'.result, ret'.name, {}) BY <1>5, AnswerRead DEF ManagerCall
  <2>2. Active' = Active BY <2>1 DEF Send, Active
  <2>3. PICK result \in {"ok", "io_failed"} :
          ret' = Return("send", n, IF sessions[n] = NoPid THEN "not_found" ELSE result)
    BY <2>1 DEF Send
  <2>4. a = Answer(IF n \in Active THEN result ELSE "not_found", n, {})
    BY <1>2, <2>1, <2>3 DEF Return
  <2> QED BY <1>1, <1>3, <1>5, <2>2, <2>4
       DEF Answer, Directory!Effect, Directory!Answer, Directory!Answers, Directory!Results,
           Directory!Found
<1>6. CASE r.op \in {"view_screen", "hardcopy", "resize"}
  <2>1. CASE r.op = "resize" /\ ResizeFails(n)
    <3>1. n \in Active /\ ret'.result = "io_failed" /\ ret'.name = n /\ Active' = Active
      BY <1>2, <2>1 DEF ResizeFails, Return, Active
    <3>2. a = Answer("io_failed", n, {}) BY <2>1, <3>1, AnswerRead
    <3> QED BY <1>1, <1>3, <2>1, <3>1, <3>2
         DEF Answer, Directory!Effect, Directory!Answer, Directory!Answers, Directory!Results,
             Directory!Found
  <2>2. ASSUME NEW op \in {"view", "resize"}, Locking(op, n)
        PROVE  Directory!Effect(r, a) /\ a \in Directory!Answers
    <3>1. /\ Active' = Active
          /\ ret' = Return(op, n, IF sessions[n] = NoPid THEN "not_found" ELSE "ok")
      <4>1. ret' # Return(op, n, "panicked") BY <1>6 DEF Panicked, Return
      <4>2. ~(sessions[n] # NoPid /\ Poisoned(sessions[n])) BY <2>2, <4>1 DEF Locking
      <4> QED BY <2>2, <4>2 DEF Locking, Active
    <3>2. CASE n \notin Active
      <4>1. ret'.result = "not_found" /\ ret'.name = n BY <1>2, <3>1, <3>2 DEF Return
      <4>2. a = Answer("not_found", n, {}) BY <1>6, <4>1, AnswerRead
      <4> QED BY <1>1, <1>3, <3>1, <3>2, <4>2
           DEF Answer, Directory!Effect, Directory!Answer, Directory!Answers, Directory!Results
    <3>3. CASE n \in Active
      <4>1. ret'.result = "ok" /\ ret'.name = n BY <1>2, <3>1, <3>3 DEF Return
      <4>2. n \in Dead <=> ~IsAlive(sessions[n]) BY <3>3 DEF Dead
      <4>3. PICK result \in Directory!Found(r.op, n) : a = Answer(result, n, {})
        BY <1>6, <4>1, <4>2, AnswerRead DEF Directory!Found
      <4>4. result \in Directory!Results
        BY <1>6, <4>3 DEF Directory!Found, Directory!Results
      <4>5. a = Directory!Answer(result, n, {}) BY <4>3 DEF Answer, Directory!Answer
      <4>6. Active' = (IF r.op = "kill" THEN Active \ {n} ELSE Active) BY <1>6, <3>1
      <4>7. Directory!Effect(r, a) BY <1>3, <3>3, <4>3, <4>5, <4>6 DEF Directory!Effect
      <4>8. a \in Directory!Answers BY <1>1, <4>4, <4>5 DEF Directory!Answer, Directory!Answers
      <4> QED BY <4>7, <4>8
    <3> QED BY <3>2, <3>3
  <2> QED BY <1>6, <2>1, <2>2 DEF ManagerCall, View, Resize
<1> QED BY <1>4, <1>5, <1>6

LEMMA CallHasEffect ==
  ASSUME DInv, NEW r \in Askable, ManagerCall(r), ~Panicked(r)
  PROVE  Directory!Effect(r, ReplyTo(r)) /\ ReplyTo(r) \in Directory!Answers
<1>1. CASE r.op = "create" BY <1>1, CreateHasEffect DEF ManagerCall
<1>2. CASE r.op \in {"kill", "send", "view_screen", "hardcopy", "resize"}
  BY <1>2, NamedHasEffect
<1>3. CASE r.op \in {"list", "ping", "kill_server", "bad"}
  <2>1. Active' = Active BY <1>3 DEF ManagerCall, List, smVars, manager, Active
  <2>2. \/ r.op = "list" /\ ReplyTo(r) = Answer("ok", Unnamed, Active)
        \/ r.op \in {"ping", "kill_server"} /\ ReplyTo(r) = Answer("ok", Unnamed, {})
        \/ r.op = "bad" /\ ReplyTo(r) = Answer("rejected", Unnamed, {})
    BY <1>3, AnswerRead
  <2> QED BY <2>1, <2>2
       DEF Answer, Directory!Effect, Directory!Answer, Directory!Answers, Directory!Results
<1> QED BY <1>1, <1>2, <1>3 DEF Askable, ReqOps

\* A call leaves alone which of the other names count as ended, and what it adds
\* does not: a pid that was never used carries no trace of an earlier session.
LEMMA CallKeepsEnded ==
  ASSUME DInv, NEW r \in Askable, ManagerCall(r), ~Panicked(r)
  PROVE  Dead' = Dead \cap Active'
<1> USE DEF DInv
<1>0. Dead \subseteq Active BY DEF Dead
<1>1. CASE UNCHANGED <<sessions, kernel, threads>>
  BY <1>0, <1>1, NamesKept
<1>2. CASE r.op = "kill" /\ sessions[r.name] # NoPid
  <2>1. r.name \in Name /\ Remove({r.name}) /\ UNCHANGED <<kernel, threads>>
    BY <1>2 DEF ManagerCall, Kill, Askable
  <2> QED BY <1>0, <2>1, NamesRemoved
<1>3. ASSUME NEW n \in Name, NEW p \in Pid, SpawnAbandons(n, p)
      PROVE  Dead' = Dead \cap Active'
  <2>1. /\ proc[p] = "free" /\ proc' = [proc EXCEPT ![p] = "running"]
        /\ UNCHANGED <<sessions, permitted, alive>>
    BY <1>3 DEF SpawnAbandons, Fork, threads
  <2>2. \A m \in Active : sessions[m] # p BY <2>1 DEF IInv, SpawnedInUse
  <2>3. Active' = Active BY <2>1 DEF Active
  <2>4. \A m \in Active : IsAlive(sessions[m])' <=> IsAlive(sessions[m])
    BY <2>1, <2>2 DEF IsAlive, IsProcessAlive, IInv, TypeOK, Active
  <2> QED BY <2>3, <2>4 DEF Dead
<1>4. ASSUME NEW n \in Name, NEW p \in Pid, NEW t \in {"none", "reading"}, SpawnSucceeds(n, p, t)
      PROVE  Dead' = Dead \cap Active'
  <2>1. /\ sessions[n] = NoPid /\ sessions' = [sessions EXCEPT ![n] = p]
        /\ proc[p] = "free" /\ proc' = [proc EXCEPT ![p] = "running"]
        /\ alive' = [alive EXCEPT ![p] = TRUE] /\ permitted' = permitted
    BY <1>4 DEF SpawnSucceeds, Spawned, Fork
  <2>2. \A m \in Active : sessions[m] # p BY <2>1 DEF IInv, SpawnedInUse
  <2>3. /\ Active' = Active \cup {n} /\ n \notin Active
        /\ \A m \in Active : sessions'[m] = sessions[m]
    BY <2>1, PidAssumption DEF Active, IInv, TypeOK
  <2>4. permitted[p] BY <2>1 DEF IInv, FreeUntouched
  <2>5. sessions'[n] = p BY <2>1 DEF IInv, TypeOK
  <2>6. alive'[p] /\ proc'[p] # "free" /\ permitted'[p] BY <2>1, <2>4 DEF IInv, TypeOK
  <2>7. IsAlive(sessions[n])' BY <2>5, <2>6 DEF IsAlive, IsProcessAlive
  <2>8. ASSUME NEW m \in Active PROVE IsAlive(sessions[m])' <=> IsAlive(sessions[m])
    <3>1. sessions[m] \in Pid /\ sessions[m] # p /\ sessions'[m] = sessions[m]
      BY <2>2, <2>3 DEF Active, IInv, TypeOK
    <3> QED BY <2>1, <3>1 DEF IsAlive, IsProcessAlive, IInv, TypeOK
  <2> QED BY <2>3, <2>7, <2>8 DEF Dead
<1>5. CASE r.op = "create" /\ Create(r.name)
  BY <1>1, <1>3, <1>4, <1>5 DEF Create, CreateExists, SpawnFails
<1>6. CASE r.op \in {"view_screen", "hardcopy", "resize"}
  <2>1. ASSUME NEW op, NEW n, op # "panicked", Locking(op, n), ret'.result # "panicked"
        PROVE  UNCHANGED <<sessions, kernel, threads>>
    BY <2>1 DEF Locking, Return
  <2>2. ret'.result # "panicked" BY <1>6 DEF Panicked
  <2> QED BY <1>1, <1>6, <2>1, <2>2 DEF ManagerCall, View, Resize, ResizeFails
<1>7. CASE r.op \in {"kill", "list", "send", "kill_server", "ping", "bad"}
  BY <1>1, <1>2, <1>7 DEF ManagerCall, Kill, List, Send, smVars, manager
<1> QED BY <1>5, <1>6, <1>7 DEF ManagerCall

-----------------------------------------------------------------------------

\* Serving a connection: the call takes effect, is settled, or fails with the
\* daemon.
LEMMA HandleRefines ==
  ASSUME DInv, NEW c \in Client, HandleClosed(c) \/ HandleRequest(c)
  PROVE  Directory!NextDirectory
<1> USE DEF DInv
<1>1. CASE HandleClosed(c)
  <2>1. /\ phase = "loop" /\ conn[c] = "closed" /\ conn' = [conn EXCEPT ![c] = "idle"]
        /\ request' = [request EXCEPT ![c] = NoRequest]
        /\ UNCHANGED <<phase, hadSessions, sigterm, smVars, reply>>
    BY <1>1 DEF HandleClosed
  <2>2. Active' = Active /\ Dead' = Dead BY <2>1, NamesKept DEF smVars, manager
  <2>3. CallOf(c) = "gone" /\ CallOf(c)' = "idle" BY <2>1 DEF CallOf, LoopTyped
  <2>4. [d \in Client |-> CallOf(d)]' = [[d \in Client |-> CallOf(d)] EXCEPT ![c] = "idle"]
    BY <2>1, <2>3, OneCallMoves DEF ConnStates
  <2>5. Directory!Settle(c) BY <2>1, <2>2, <2>3, <2>4 DEF Directory!Settle
  <2> QED BY <2>5 DEF Directory!NextDirectory
<1>2. ASSUME HandleRequest(c), Panicked(request[c])
      PROVE  Directory!Crash
  <2>1. /\ phase = "loop" /\ ManagerCall(request[c]) /\ Crash /\ request[c] \in Askable
        /\ conn[c] \in {"sent", "deserted"} /\ UNCHANGED <<hadSessions, sigterm>>
    BY <1>2 DEF HandleRequest, LoopTyped
  <2>2. Active' = {} /\ request[c].name \in Active
    BY <1>2, <2>1, PanicDropsAll DEF OpenUntilStopped
  <2>3. Dead' = {} BY <2>2 DEF Dead
  <2>4. phase' = "crashed" /\ UNCHANGED reply /\ ResetConnections BY <2>1 DEF Crash
  <2>5. CallsFail BY <2>4, ResetFails
  <2>6. Directory!CallsFail BY <2>1, <2>4, <2>5 DEF CallsFail, Directory!CallsFail
  <2>7. CallOf(c) \in {"pending", "gone"} BY <2>1 DEF CallOf
  <2>8. request[c].op \in {"view_screen", "hardcopy", "resize"} BY <1>2 DEF Panicked
  <2> QED BY <2>1, <2>2, <2>3, <2>6, <2>7, <2>8 DEF Directory!Crash
<1>3. ASSUME HandleRequest(c), ~Panicked(request[c])
      PROVE  Directory!Perform(c) \/ Directory!Settle(c)
  <2> DEFINE r == request[c]
  <2>1. /\ phase = "loop" /\ ManagerCall(r) /\ Respond(c) /\ r \in Askable
        /\ conn[c] \in {"sent", "deserted"} /\ UNCHANGED <<hadSessions, sigterm>>
    BY <1>3 DEF HandleRequest, LoopTyped
  <2>2. /\ phase' = IF r.op = "kill_server" THEN "leaving" ELSE "loop"
        /\ request' = [request EXCEPT ![c] = NoRequest]
    BY <2>1 DEF Respond
  <2>3. Directory!Effect(r, ReplyTo(r)) /\ ReplyTo(r) \in Directory!Answers
    BY <1>3, <2>1, CallHasEffect
  <2>4. Dead' = Dead \cap Active' BY <1>3, <2>1, CallKeepsEnded
  <2>5. Directory!Effective(r, ReplyTo(r)) BY <2>2, <2>3, <2>4 DEF Directory!Effective
  <2>6. CASE conn[c] = "sent"
    <3>1. conn' = [conn EXCEPT ![c] = "answered"] /\ reply' = [reply EXCEPT ![c] = ReplyTo(r)]
      BY <2>1, <2>6 DEF Respond
    <3>2. CallOf(c) = "pending" /\ CallOf(c)' = "done" BY <2>6, <3>1 DEF CallOf, LoopTyped
    <3>3. [d \in Client |-> CallOf(d)]' = [[d \in Client |-> CallOf(d)] EXCEPT ![c] = "done"]
      BY <3>1, <3>2, OneCallMoves DEF ConnStates
    <3> HIDE DEF r
    <3>4. \E a \in Directory!Answers :
            reply' = [reply EXCEPT ![c] = a] /\ Directory!Effective(r, a)
      BY <2>3, <2>5, <3>1
    <3> QED BY <2>1, <2>2, <3>2, <3>3, <3>4 DEF r, Directory!Perform
  <2>7. CASE conn[c] = "deserted"
    <3>1. conn' = [conn EXCEPT ![c] = "idle"] /\ UNCHANGED reply
      BY <2>1, <2>7 DEF Respond
    <3>2. CallOf(c) = "gone" /\ CallOf(c)' = "idle" BY <2>7, <3>1 DEF CallOf, LoopTyped
    <3>3. [d \in Client |-> CallOf(d)]' = [[d \in Client |-> CallOf(d)] EXCEPT ![c] = "idle"]
      BY <3>1, <3>2, OneCallMoves DEF ConnStates
    <3> HIDE DEF r
    <3>4. \E a \in Directory!Answers : Directory!Effective(r, a) BY <2>3, <2>5
    <3> QED BY <2>1, <2>2, <3>1, <3>2, <3>3, <3>4 DEF r, Directory!Settle
  <2> QED BY <2>1, <2>6, <2>7
<1> QED BY <1>1, <1>2, <1>3 DEF Directory!NextDirectory

\* A tick is a sweep: it leaves the loop only with an empty table.
LEMMA TickRefines ==
  ASSUME DInv, ReapTick
  PROVE  Directory!Sweep
<1>1. /\ phase = "loop" /\ ReapDead /\ UNCHANGED <<sigterm, conn, request, reply>>
      /\ hadSessions' = (hadSessions \/ Active' # {})
      /\ phase' = IF hadSessions' /\ Active' = {} THEN "leaving" ELSE phase
  BY DEF ReapTick, TickSeeing, Selecting, net
<1>2. Dead \in SUBSET Name /\ Remove(Dead) /\ UNCHANGED <<kernel, threads>>
  BY <1>1 DEF ReapDead, Dead, Active
<1>3. Active' = Active \ Dead /\ Dead' = {} BY <1>2, NamesRemoved
<1>4. phase' = "leaving" => hadSessions /\ Active' = {} BY <1>1
<1>5. \A c \in Client : CallOf(c)' = CallOf(c) BY <1>1 DEF CallOf
<1> QED BY <1>1, <1>3, <1>4, <1>5 DEF Directory!Sweep, Directory!calls

\* The steps of the loop and of the stop sequence that answer nobody.
LEMMA LoopRefines ==
  ASSUME DInv, SignalTerm \/ Accept \/ TakeSigterm \/ Outside \/ CloseListener \/ RemoveFiles \/ Exit
  PROVE  [Directory!NextDirectory]_(Directory!vars)
<1> USE DEF DInv
<1>1. CASE CloseListener
  <2>1. /\ phase = "leaving" /\ phase' = "closed" /\ ResetConnections
        /\ UNCHANGED <<hadSessions, sigterm, smVars, reply>>
    BY <1>1 DEF CloseListener
  <2>2. Active' = Active /\ Dead' = Dead BY <2>1, NamesKept DEF smVars, manager
  <2>3. CallsFail BY <2>1, ResetFails
  <2>4. Directory!CallsFail BY <2>1, <2>3 DEF CallsFail, Directory!CallsFail
  <2>5. Directory!StopListening BY <2>1, <2>2, <2>4 DEF Directory!StopListening
  <2> QED BY <2>5 DEF Directory!NextDirectory
<1>2. CASE Accept \/ RemoveFiles
  <2>1. /\ UNCHANGED <<hadSessions, sigterm, smVars, conn, request, reply>>
        /\ Status' = Status
    BY <1>2 DEF Accept, AcceptLeaving, RemoveFiles, net, Status
  <2>2. \A c \in Client : CallOf(c)' = CallOf(c) BY <2>1 DEF CallOf
  <2> QED BY <2>1, <2>2, SilentStep DEF smVars, manager
<1>3. ASSUME UNCHANGED <<conn, request, reply>> PROVE UNCHANGED Directory!calls
  BY <1>3 DEF Directory!calls, CallOf
<1>4. CASE SignalTerm
  <2>1. sigterm' = TRUE /\ UNCHANGED <<phase, hadSessions, smVars, conn, request, reply>>
    BY <1>4 DEF SignalTerm, net
  <2>2. Active' = Active /\ Dead' = Dead BY <2>1, NamesKept DEF smVars, manager
  <2>3. Directory!Tell BY <1>3, <2>1, <2>2 DEF Directory!Tell
  <2> QED BY <2>3 DEF Directory!NextDirectory
<1>5. CASE TakeSigterm
  <2>1. /\ phase = "loop" /\ sigterm /\ phase' = "leaving"
        /\ UNCHANGED <<hadSessions, sigterm, smVars, conn, request, reply>>
    BY <1>5 DEF TakeSigterm, Selecting, net
  <2>2. Active' = Active /\ Dead' = Dead BY <2>1, NamesKept DEF smVars, manager
  <2>3. Directory!Obey BY <1>3, <2>1, <2>2 DEF Directory!Obey
  <2> QED BY <2>3 DEF Directory!NextDirectory
<1>6. CASE Outside
  <2>1. UNCHANGED <<phase, hadSessions, sigterm, sessions, conn, request, reply>>
    BY <1>6 DEF Outside, Environment, ChildExits, ChildBecomes, ChildChangesUser, TtyCloses,
                ReaderEnds, ReaderStops, ReaderPanics, manager, net
  <2>2. Active' = Active BY <2>1 DEF Active
  <2>3. Dead' \subseteq Active BY <2>2 DEF Dead
  <2>4. Directory!ProgramsEnd BY <1>3, <2>1, <2>2, <2>3 DEF Directory!ProgramsEnd
  <2> QED BY <2>4 DEF Directory!NextDirectory
<1>7. CASE Exit
  <2>1. /\ phase = "cleaned" /\ phase' = "exited" /\ DropManager
        /\ UNCHANGED <<hadSessions, sigterm, conn, request, reply>>
    BY <1>7 DEF Exit, ExitWith, net
  <2>2. Active' = {} BY <2>1 DEF DropManager, Remove, Active
  <2>3. Dead' = {} BY <2>2 DEF Dead
  <2>4. Directory!Vacate BY <1>3, <2>1, <2>2, <2>3 DEF Directory!Vacate
  <2> QED BY <2>4 DEF Directory!NextDirectory
<1> QED BY <1>1, <1>2, <1>4, <1>5, <1>6, <1>7

\* To its clients the daemon is the directory of SessionDirectory: every call takes
\* effect at one instant, at most once, its answer tells what was there, and no
\* auto-exit takes a name with it, for any number of clients and processes.
THEOREM DaemonIsDirectory == SpecDaemon => ImplementsDirectory
<1>1. InitDaemon => Directory!InitDirectory
  <2> SUFFICES ASSUME InitDaemon PROVE Directory!InitDirectory OBVIOUS
  <2>1. Active = {} /\ Dead = {} BY DEF InitDaemon, Init, Active, Dead
  <2>2. \A c \in Client : CallOf(c) = "idle" BY DEF InitDaemon, CallOf
  <2>3. NoAnswer = Directory!NoAnswer
    BY DEF NoAnswer, Answer, Directory!NoAnswer, Directory!Answer
  <2> QED BY <2>1, <2>2, <2>3 DEF InitDaemon, Directory!InitDirectory
<1>2. ASSUME DInv, [NextDaemon]_vars
      PROVE  [Directory!NextDirectory]_(Directory!vars)
  <2>1. CASE UNCHANGED vars
    <3>1. /\ UNCHANGED <<sessions, kernel, threads, hadSessions, sigterm, phase, conn, request, reply>>
          /\ Status' = Status
      BY <2>1 DEF vars, net, smVars, manager, Status
    <3>2. \A c \in Client : CallOf(c)' = CallOf(c) BY <3>1 DEF CallOf
    <3> QED BY <3>1, <3>2, SilentStep
  <2>2. CASE NextDaemon
    <3>1. ReapTick => Directory!NextDirectory BY <1>2, TickRefines DEF Directory!NextDirectory
    <3> QED BY <1>2, <2>2, <3>1, ClientRefines, HandleRefines, LoopRefines DEF NextDaemon, LoopStep
  <2> QED BY <1>2, <2>1, <2>2
<1> QED BY <1>1, <1>2, DaemonInvariance, PTL DEF SpecDaemon, ImplementsDirectory, Directory!SpecDirectory

-----------------------------------------------------------------------------

AnswerType ==
  [result : Results \cup {"rejected", "exited"}, name : Name \cup {Unnamed}, names : SUBSET Name]

\* A reply is one that the directory could give.
LEMMA RepliesTyped ==
  ASSUME DInv, [NextDaemon]_vars, reply \in [Client -> AnswerType]
  PROVE  reply' \in [Client -> AnswerType]
<1> USE DEF DInv
<1>1. NoAnswer \in AnswerType BY DEF NoAnswer, Answer, AnswerType, Results
<1>2. ASSUME NEW c \in Client, NEW r \in Request, Connect(c, r)
      PROVE  reply' \in [Client -> AnswerType]
  BY <1>1, <1>2 DEF Connect
<1>3. ASSUME NEW c \in Client, HandleRequest(c), ~Panicked(request[c]), conn[c] = "sent"
      PROVE  reply' \in [Client -> AnswerType]
  <2>1. request[c] \in Askable /\ ManagerCall(request[c]) /\ Respond(c)
    BY <1>3 DEF HandleRequest, LoopTyped
  <2>2. ReplyTo(request[c]) \in Directory!Answers BY <1>3, <2>1, CallHasEffect
  <2>3. Active \subseteq Name BY DEF Active
  <2>4. ReplyTo(request[c]) \in AnswerType
    BY <2>2, <2>3 DEF Directory!Answers, Directory!Results, AnswerType, Results
  <2>5. reply' = [reply EXCEPT ![c] = ReplyTo(request[c])] BY <1>3, <2>1 DEF Respond
  <2> QED BY <2>4, <2>5
<1>4. \/ reply' = reply
      \/ \E c \in Client, r \in Request : Connect(c, r)
      \/ \E c \in Client : HandleRequest(c) /\ ~Panicked(request[c]) /\ conn[c] = "sent"
  BY DEF NextDaemon, ClientStep, SendRequest, Disconnect, SignalTerm, LoopStep, Accept, AcceptLeaving,
         TakeSigterm, ReapTick, TickSeeing, HandleClosed, HandleRequest, Crash, Respond, CloseListener,
         RemoveFiles, Exit, ExitWith, Outside, net, vars
<1> QED BY <1>2, <1>3, <1>4

\* The loop's and the connections' state stays well typed (daemon.rs run).
THEOREM DaemonTypeCorrect == SpecDaemon => []TypeOKDaemon
<1>1. InitDaemon => reply \in [Client -> AnswerType]
  BY DEF InitDaemon, NoAnswer, Answer, AnswerType, Results
<1>2. DInv /\ reply \in [Client -> AnswerType] => TypeOKDaemon
  BY DEF DInv, IInv, LoopTyped, TypeOKDaemon, Askable, AnswerType
<1>3. DInv /\ reply \in [Client -> AnswerType] /\ [NextDaemon]_vars => (reply \in [Client -> AnswerType])'
  BY RepliesTyped
<1> QED BY <1>1, <1>2, <1>3, DaemonInvariance, PTL DEF SpecDaemon
=============================================================================
