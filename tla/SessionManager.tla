--------------------------- MODULE SessionManager ---------------------------
(***************************************************************************)
(* The session manager of the daemon (src/session.rs) on Unix: the table   *)
(* of sessions, the child process and the reader thread behind every       *)
(* entry, and the environment steps that interleave with the manager's     *)
(* calls (a child exits, the last holder of a terminal closes it, a reader *)
(* thread sees end of file or panics).                                     *)
(*                                                                         *)
(* A session's PTY, child, reader thread, screen and alive flag are all    *)
(* created together by Session::spawn, so they share one key: the pid.     *)
(***************************************************************************)
EXTENDS Naturals, FiniteSets

CONSTANTS
  Custom,    \* names a user chooses that are not a decimal number
  IdLimit,   \* next_id counts modulo IdLimit (2^32 in the code)
  Pid,       \* process ids fork() may return
  NoPid,     \* "no session of that name"
  Unnamed,   \* Create without a name
  Switching  \* a bound: the processes whose programs may change user

Numeral == 0 .. IdLimit - 1     \* "0", "1", ...: chosen by next_id or by a user
Name == Numeral \cup Custom

ASSUME IdLimitAssumption == IdLimit \in Nat \ {0}
ASSUME PidAssumption == NoPid \notin Pid
ASSUME SwitchingAssumption == Switching \subseteq Pid
ASSUME UnnamedAssumption == Unnamed \notin Name
\* Far fewer processes than names: the naming loop always finds one.
ASSUME EnoughIds == IsFiniteSet(Pid) /\ Cardinality(Pid) < IdLimit

VARIABLES
  open,      \* the manager exists (created by run, not yet dropped)
  sessions,  \* sessions[n]: the pid of session n, or NoPid
  nextId,    \* SessionManager.next_id
  proc,      \* proc[p]: "free" (never forked), "running", "zombie"
  tty,       \* tty[p]: some process holds the slave end of p's PTY
  permitted, \* permitted[p]: p runs as a user whose processes the daemon may signal
  reader,    \* reader[p]: the reader thread of p's session
  alive,     \* alive[p]: the AtomicBool the reader clears when it ends
  signalled, \* signalled[p]: what the daemon did to end p: a SIGKILL, one that
             \* kill(2) refused, or a hang-up
  ret        \* what the last call of the manager returned

manager == <<open, sessions, nextId, ret>>
kernel == <<proc, tty, permitted>>
threads == <<reader, alive>>
smVars == <<manager, kernel, threads, signalled>>

Results == {"none", "ok", "exists", "not_found", "spawn_failed", "io_failed", "panicked"}
Ops == {"new", "create", "kill", "list", "send", "view", "resize", "reap", "drop"}
Return(op, n, r) == [op |-> op, name |-> n, result |-> r]

Active == {n \in Name : sessions[n] # NoPid}
Owned(p) == \E n \in Name : sessions[n] = p

Init ==
  /\ open = TRUE
  /\ sessions = [n \in Name |-> NoPid]
  /\ nextId = 0
  /\ proc = [p \in Pid |-> "free"]
  /\ tty = [p \in Pid |-> FALSE]
  /\ permitted = [p \in Pid |-> TRUE]
  /\ reader = [p \in Pid |-> "none"]
  /\ alive = [p \in Pid |-> FALSE]
  /\ signalled = [p \in Pid |-> "none"]
  /\ ret = Return("new", Unnamed, "none")

-----------------------------------------------------------------------------
(* Liveness of one session, as the manager computes it.                    *)

\* kill(pid, 0) = 0: it succeeds for a zombie too, as no code calls waitpid, and
\* fails with EPERM for a process that runs as another user.
IsProcessAlive(p) == proc[p] # "free" /\ permitted[p]
IsAlive(p) == alive[p] /\ IsProcessAlive(p)

\* The reader thread panicked inside feed, so the screen mutex is poisoned.
Poisoned(p) == reader[p] = "panicked"

-----------------------------------------------------------------------------
(* Removing entries drops their Session values, and Drop sends SIGKILL.    *)

\* Mutant of Remove: Drop does not kill.
RemoveWithoutKill(S) ==
  /\ sessions' = [n \in Name |-> IF n \in S THEN NoPid ELSE sessions[n]]
  /\ UNCHANGED signalled

\* kill ignores that kill(2) fails. Dropping the master need not hang the
\* terminal up then, as the reader thread has a descriptor of its own.
Sigkill(p) == IF permitted[p] THEN "kill" ELSE "refused"

Remove(S) ==
  /\ sessions' = [n \in Name |-> IF n \in S THEN NoPid ELSE sessions[n]]
  /\ signalled' = [p \in Pid |->
                     IF \E n \in S : sessions[n] = p THEN Sigkill(p) ELSE signalled[p]]

-----------------------------------------------------------------------------
(* create                                                                  *)

\* The numerals the naming loop tries before it reaches n.
Tried(n) == IF nextId <= n THEN nextId .. n - 1
            ELSE (nextId .. IdLimit - 1) \cup (0 .. n - 1)

\* Mutant of NextOf: next_id + 1 without the wrap of a u32.
NextOfUnbounded(n) == n + 1

NextOf(n) == IF n = IdLimit - 1 THEN 0 ELSE n + 1

AutoName(n) ==
  /\ n \in Numeral
  /\ sessions[n] = NoPid
  /\ \A m \in Tried(n) : sessions[m] # NoPid

\* n is the name this call of create works with; next_id moves only when the
\* name is generated, and stays moved when the spawn below fails.
NameFor(want, n) ==
  \/ /\ want # Unnamed
     /\ n = want
     /\ nextId' = nextId
  \/ /\ want = Unnamed
     /\ AutoName(n)
     /\ nextId' = NextOf(n)

CreateExists(n) ==
  /\ sessions[n] # NoPid
  /\ ret' = Return("create", n, "exists")
  /\ UNCHANGED <<open, sessions, kernel, threads, signalled>>

\* openpt, grantpt, unlockpt, ptsname or fork fails: nothing was created.
SpawnFails(n) ==
  /\ sessions[n] = NoPid
  /\ ret' = Return("create", n, "spawn_failed")
  /\ UNCHANGED <<open, sessions, kernel, threads, signalled>>

\* fork: the kernel hands out a pid that neither a process nor a zombie holds.
Fork(p) ==
  /\ proc[p] = "free"
  /\ proc' = [proc EXCEPT ![p] = "running"]
  /\ tty' = [tty EXCEPT ![p] = TRUE]
  /\ UNCHANGED permitted

\* TIOCSWINSZ on the new master fails after the fork: the early return drops
\* the master, which hangs the terminal up, and forgets the child.
SpawnAbandons(n, p) ==
  /\ sessions[n] = NoPid
  /\ Fork(p)
  /\ signalled' = [signalled EXCEPT ![p] = "hup"]
  /\ ret' = Return("create", n, "spawn_failed")
  /\ UNCHANGED <<open, sessions, threads>>

Spawned(n, p, r) ==
  /\ Fork(p)
  /\ sessions' = [sessions EXCEPT ![n] = p]
  /\ alive' = [alive EXCEPT ![p] = TRUE]
  /\ reader' = [reader EXCEPT ![p] = r]
  /\ ret' = Return("create", n, "ok")
  /\ UNCHANGED <<open, signalled>>

\* Mutant of SpawnSucceeds: create does not look for the name first.
SpawnReplaces(n, p, r) == Spawned(n, p, r)

\* "none": try_clone failed and start_reader returned without a thread.
SpawnSucceeds(n, p, r) == sessions[n] = NoPid /\ Spawned(n, p, r)

Create(want) ==
  /\ open
  /\ \E n \in Name :
       /\ NameFor(want, n)
       /\ \/ CreateExists(n)
          \/ SpawnFails(n)
          \/ \E p \in Pid : SpawnAbandons(n, p)
          \/ \E p \in Pid, r \in {"none", "reading"} : SpawnSucceeds(n, p, r)

-----------------------------------------------------------------------------
(* The other calls of the manager.                                         *)

Kill(n) ==
  /\ open
  /\ IF sessions[n] = NoPid
       THEN /\ ret' = Return("kill", n, "not_found")
            /\ UNCHANGED <<sessions, signalled>>
       ELSE /\ Remove({n})
            /\ ret' = Return("kill", n, "ok")
  /\ UNCHANGED <<open, nextId, kernel, threads>>

List ==
  /\ open
  /\ ret' = Return("list", Unnamed, "ok")
  /\ UNCHANGED <<open, sessions, nextId, kernel, threads, signalled>>

\* write_all on the PTY master: the kernel may refuse it.
Send(n) ==
  /\ open
  /\ \E r \in {"ok", "io_failed"} :
       ret' = Return("send", n, IF sessions[n] = NoPid THEN "not_found" ELSE r)
  /\ UNCHANGED <<open, sessions, nextId, kernel, threads, signalled>>

\* A call that takes the screen mutex with expect: a poisoned mutex unwinds
\* the daemon's thread, which drops the manager and every session in it.
Locking(op, n) ==
  /\ IF sessions[n] # NoPid /\ Poisoned(sessions[n])
       THEN /\ open' = FALSE
            /\ Remove(Name)
            /\ ret' = Return(op, n, "panicked")
       ELSE /\ ret' = Return(op, n, IF sessions[n] = NoPid THEN "not_found" ELSE "ok")
            /\ UNCHANGED <<open, sessions, signalled>>
  /\ UNCHANGED <<nextId, kernel, threads>>

View(n) == open /\ Locking("view", n)        \* view, view_ansi, cursor_pos

\* TIOCSWINSZ on the master comes first, and when it fails the screen is left alone.
ResizeFails(n) ==
  /\ sessions[n] # NoPid
  /\ ret' = Return("resize", n, "io_failed")
  /\ UNCHANGED <<open, sessions, nextId, kernel, threads, signalled>>

Resize(n) == open /\ (ResizeFails(n) \/ Locking("resize", n))

Dead == {n \in Active : ~IsAlive(sessions[n])}

ReapDead ==
  /\ open
  /\ Remove(Dead)
  /\ ret' = Return("reap", Unnamed, "ok")
  /\ UNCHANGED <<open, nextId, kernel, threads>>

\* run returns and its SessionManager goes out of scope.
DropManager ==
  /\ open
  /\ open' = FALSE
  /\ Remove(Name)
  /\ ret' = Return("drop", Unnamed, "ok")
  /\ UNCHANGED <<nextId, kernel, threads>>

-----------------------------------------------------------------------------
(* Children, terminals and reader threads run on their own.                *)

ChildBecomes(p, left) ==
  /\ proc[p] = "running"
  /\ proc' = [proc EXCEPT ![p] = left]
  /\ \E held \in {FALSE, tty[p]} : tty' = [tty EXCEPT ![p] = held]
  /\ UNCHANGED <<manager, permitted, threads, signalled>>

\* Mutant of ChildExits: something waits for the child as soon as it exits, so
\* the kernel may use its pid again while the session still stores it.
ChildExitsCollected(p) == ChildBecomes(p, "free")

\* A child exits (or SIGKILL arrives). A background process it left behind
\* may still hold the terminal.
ChildExits(p) == ChildBecomes(p, "zombie")

\* sudo or su: the child runs as another user from here on, or as its own again.
ChildChangesUser(p) ==
  /\ p \in Switching
  /\ proc[p] = "running"
  /\ permitted' = [permitted EXCEPT ![p] = ~@]
  /\ UNCHANGED <<manager, proc, tty, threads, signalled>>

\* The last open descriptor of the slave end is closed; the child itself may
\* go on running without a terminal.
TtyCloses(p) ==
  /\ tty[p]
  /\ tty' = [tty EXCEPT ![p] = FALSE]
  /\ UNCHANGED <<manager, proc, permitted, threads, signalled>>

ReaderStops(p, flag) ==
  /\ reader[p] = "reading"
  /\ reader' = [reader EXCEPT ![p] = "ended"]
  /\ alive' = [alive EXCEPT ![p] = flag]
  /\ UNCHANGED <<manager, kernel, signalled>>

\* Mutant of ReaderEnds: EINTR ends the loop as other errors do.
ReaderEndsInterrupted(p) == ReaderStops(p, FALSE)

\* Mutant of ReaderEnds: the thread ends without clearing the flag.
ReaderEndsSilently(p) == ~tty[p] /\ ReaderStops(p, alive[p])

\* read returns 0 or an error other than EINTR: the loop ends.
ReaderEnds(p) == ~tty[p] /\ ReaderStops(p, FALSE)

\* feed panics (an index out of the grid): the thread dies holding the lock
\* and never reaches the store that clears the alive flag.
ReaderPanics(p) ==
  /\ reader[p] = "reading"
  /\ reader' = [reader EXCEPT ![p] = "panicked"]
  /\ UNCHANGED <<manager, kernel, alive, signalled>>

Environment == \E p \in Pid :
  ChildExits(p) \/ ChildChangesUser(p) \/ TtyCloses(p) \/ ReaderEnds(p) \/ ReaderPanics(p)

Calls ==
  \/ \E want \in Name \cup {Unnamed} : Create(want)
  \/ \E n \in Name : Kill(n) \/ Send(n) \/ View(n) \/ Resize(n)
  \/ List
  \/ ReapDead
  \/ DropManager

Next == Calls \/ Environment

Spec == Init /\ [][Next]_smVars
-----------------------------------------------------------------------------
(* What the manager promises.                                              *)

\* Type correctness of the manager's state (session.rs SessionManager, Session).
TypeOK ==
  /\ open \in BOOLEAN
  /\ sessions \in [Name -> Pid \cup {NoPid}]
  /\ nextId \in Numeral
  /\ proc \in [Pid -> {"free", "running", "zombie"}]
  /\ tty \in [Pid -> BOOLEAN]
  /\ permitted \in [Pid -> BOOLEAN]
  /\ reader \in [Pid -> {"none", "reading", "ended", "panicked"}]
  /\ alive \in [Pid -> BOOLEAN]
  /\ signalled \in [Pid -> {"none", "hup", "kill", "refused"}]
  /\ ret \in [op : Ops, name : Name \cup {Unnamed}, result : Results]

\* Two sessions never stand for the same process: the pid a session stores
\* stays taken (by the child or its zombie) for as long as the session exists.
PidsDistinct ==
  \A m, n \in Name : sessions[m] = sessions[n] /\ sessions[m] # NoPid => m = n

\* No child is forgotten: at a running child without a session Drop has aimed its
\* SIGKILL, in vain if the child ran as another user, or a failed create has hung
\* its terminal up.
NoUnownedChild ==
  \A p \in Pid : proc[p] = "running" /\ ~Owned(p) => signalled[p] # "none"

\* Only sessions that left the table are killed: removing one session never
\* signals the child of another, and no session is killed yet kept.
OnlyRemovedAreKilled ==
  \A p \in Pid : Owned(p) => signalled[p] = "none"

\* Removing a session and signalling its child coincide, whichever way it goes:
\* killed, reaped, dropped with the manager or abandoned by a failed create. That
\* the signal is delivered is not promised: kill(2) may refuse it.
KilledWhenRemoved == NoUnownedChild /\ OnlyRemovedAreKilled

\* is_alive turns false, and so reap_dead removes and kills, only when no process
\* can write to the session's terminal any more, or when the child runs as another
\* user: in particular not because it has exited.
DeadMeansHungUp ==
  \A n \in Active : ~IsAlive(sessions[n]) =>
    ~tty[sessions[n]] \/ ~permitted[sessions[n]]

\* The naming loop of create terminates: some numeral names no session, also
\* after next_id has wrapped around.
AutoNameFound == open => \E n \in Numeral : AutoName(n)

\* A session keeps its process from creation to removal, and it is removed only
\* by a kill of its own name, by a reap that found it dead, or with the manager.
StepKeepsSessions ==
  \A n \in Active :
    \/ sessions'[n] = sessions[n]
    \/ /\ sessions'[n] = NoPid
       /\ \/ ret' = Return("kill", n, "ok")
          \/ ret'.op = "reap" /\ n \in Dead
          \/ ~open'
SessionsStable == [][StepKeepsSessions]_smVars

\* kill(2) is never called with a pid that the kernel may have given to an
\* unrelated process: the signalled child is there, running or a zombie.
StepSignalsChildren ==
  \A p \in Pid : signalled'[p] # signalled[p] => proc'[p] # "free"
SignalsReachChildren == [][StepSignalsChildren]_smVars
=============================================================================
