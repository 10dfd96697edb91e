# A TLA+ development of pmux

pmux is a terminal multiplexer: a daemon keeps programs running on
pseudo-terminals, and short-lived clients create, view, feed, attach to and end
these sessions over a local socket. This directory models the
program in TLA+ (its Unix build, and what differs on Windows), checks the models with TLC and proves the most important
safety properties with TLAPS. Everything is translated from the Rust source in
`src/src`; `PROJECT.json` maps each definition to the lines it stands for.

## 1. Inventory

| Part | State | Operations | Interacts by |
|---|---|---|---|
| Session manager (`session.rs`) | table name → session, `next_id` | create, kill, list, send, view, resize, reap_dead, drop | calls of the daemon task; owns sessions |
| Session and reader thread (`session.rs`) | child, master, screen mutex, `alive` flag | spawn, start_reader, feed, write_data, is_alive, Drop | the mutex and the flag are shared with the daemon task |
| Unix PTY (`pty/unix.rs`) | master descriptor, pid | fork/exec, kill, resize, existence test, partial reads and writes | system calls; end of file when the last holder closes |
| Windows PTY (`pty/windows.rs`) | pseudo console, job object, process handle, pipes | spawn, kill, close, existence test | system calls; the output does not end with the child |
| Daemon loop (`daemon.rs`) | manager, `had_sessions`, SIGTERM or Ctrl-C | select among a client, a signal and a 2 s tick; dispatch | one connection at a time, over a socket or a named pipe |
| Daemon start and stop (`platform.rs`) | pid file, socket path, first pipe instance | ensure_daemon, write/remove files, bind | the file system or the pipe's name, shared by all processes |
| Client commands (`main.rs`) | one request, a deadline | rpc, create, stop, stuff, expect | connections |
| Interactive attach (`main.rs`) | `ctrl_a_pending`, last content and cursor | read keys, send, refresh, render | an rpc for each step |
| Screen buffer (`screen.rs`) | cells, cursor, saved cursor, region, modes, primary screen put aside | control functions, resize | fed by the reader, resized and read by the daemon |
| Rendering (`screen.rs`) | none | text, render_ansi | read under the mutex |
| Wire format (`ipc.rs`) | none | encode, decode, write_msg, read_msg | bytes of a connection |
| Escapes (`escape.rs`) | none | unescape | the text of stuff |
| Raw mode, CLI, log, constants | none | | |

The hard behaviours are these.

* **Concurrency.** Readers, children and clients act between any two steps of
  the daemon; two clients may start two daemons; a view takes the screen's
  mutex twice; the terminal's two directions fill and drain on their own while
  the daemon's only task may be inside a write.
* **Failure.** A client vanishes, a connection is cut inside a frame, a spawn
  fails after the fork, a reader panics and poisons the mutex, a write fails
  half-way, a daemon is killed and leaves its files (Unix) or its processes
  (Windows).
* **Liveness.** Nothing waits for children, ends are seen only through the
  terminal (Unix) or the process handle (Windows), auto-exit depends on a tick
  having seen a session, expect polls what may be gone at the next poll.
* **Boundaries.** `next_id`, cursor sums and the lengths of strings wrap;
  screens may be empty; the cursor stands one past the line while a wrap is
  pending; escapes take as many digits as they find.

`PROJECT.json` lists each of them under `hazards`, at its line, with the
properties that would catch it going wrong. What makes the parts correct:

* manager: a child is killed exactly when its session leaves the table, a
  signal never reaches a foreign process, names are always found;
* daemon: requests are answered once, it stops when asked and when idle, it
  leaves no child; to clients the table is a linearizable directory;
* start and stop: the races over the socket leave a reachable daemon; on Windows
  one daemon has the pipe;
* screen: no control function reaches outside the cells;
* attach: keys arrive once and in order, a quiet screen is shown as it is;
* scripts: stuff that succeeds has typed everything, expect misses no match that
  lasts, both return;
* wire: what is read is what was sent or an error, and stuff types what it spells.

## 2. Modules and how they correspond to the code

| Module | Models | Notes |
|---|---|---|
| `SessionManager` | `session.rs`, `pty/unix.rs` | one action per method; sessions are keyed by pid |
| `SessionDirectory` | | abstract: what clients may expect of the table |
| `Daemon` | `daemon.rs`, `rpc` | extends SessionManager; implements SessionDirectory |
| `DaemonStartup` | `platform.rs`, `run` | many daemons and the files they share |
| `Screen` | `screen.rs` | one action per control function |
| `Attach` | `run_resume`, `attach_loop`, `render_screen`, `render_ansi`, ViewScreen | one client, one session |
| `Expect` | `run_exec` (stuff, expect), `write_data`, the reader | one session with a bounded terminal, a daemon that blocks |
| `Escape` | `escape.rs` | operators, with the meaning of a text as reference |
| `Wire` | `ipc.rs` | extends Escape; one message over one connection |
| `WindowsDaemon` | `run_windows`, the pipe, `pty/windows.rs` | many daemons, clients and sessions |
| `Daemon_proofs`, `DaemonStartup_proofs`, `Screen_proofs`, `Attach_proofs`, `Expect_proofs`, `Wire_proofs`, `WindowsDaemon_proofs` | | the theorems; `Daemon_proofs` has those about `SessionManager` first, as it builds on them |
| `Recursion` | | induction and recursion over the naturals, for the proofs about recursive definitions |
| `MC*` | | instances for TLC |

**SessionManager.** `sessions`, `nextId` are the fields of the struct; `proc`,
`tty` are the kernel's view of a child and of its terminal, and `permitted` says
whether the child runs as a user the daemon may signal: `sudo` or `su` change it
(`ChildChangesUser`), and then `kill(pid, 0)` fails as for a process that is gone;
`reader`, `alive` are the thread and its flag; `signalled` records what the daemon
did to end a child, a SIGKILL that was refused included.
`Create` covers the naming loop, the existing name, and the three ways spawn
ends: nothing made (`SpawnFails`), a child made and abandoned because the window
size cannot be set (`SpawnAbandons`), success with or without a reader thread.
A program that exits becomes a zombie for good, because no code calls
`waitpid`; its terminal may close before, after or never. A poisoned mutex makes
the next view or resize a panic of the daemon. A resize may fail at the master,
before it takes the mutex (`ResizeFails`).

**Daemon.** `phase` is where `run` stands, `backlog` and `serving` the
connections, `conn[c]` a client's progress. `Accept` to `HandleRequest` is
`handle_one`; nothing else of the loop runs in between. `HandleRequest` makes
the manager's call and sends the reply in one step: the table cannot change in
between, and what is read in several steps of a view is in `Attach`. After the
loop the listener is closed (which resets waiting connections), the files
removed, the manager dropped.

**SessionDirectory.** A set of names, of which some may have ended; a call is
pending, takes effect once and is answered. A name leaves the set by a kill, by a
sweep after its program ended, or with the server; the server leaves by itself only
if a sweep once found a name and now none is left, or when it was told to, and
everything is lost at once only by a crash (the poisoned mutex).
`ImplementsDirectory` maps the manager's table to the set, the sessions `is_alive`
would find dead to the ended ones, and the connections to the calls.

**DaemonStartup.** Each file operation of a daemon is a step: write the pid
file, unlink the socket, bind, install the handler, and on exit unlink the pid
file and the socket. `path` is the daemon whose socket `daemon.sock` is, so an
unlink takes it from whoever has it. Sessions are sets of clients. A client
runs `ensure_daemon`, which checks, spawns and polls with a timeout, then calls.
File operations other than bind are taken to succeed.

**Screen.** `cells` is the flat vector of the code and all index arithmetic is
the code's: additions on `u16` wrap at `U16`, slices out of range set `panicked`.
The loops that scroll a region are modelled turn by turn, in the order of the code,
on one vector (`RowLoop`), and so is the loop with which a resize copies slices of
rows between two strides (`Resizing`).
A cell is blank or carries an attribute. Title, visibility and transcript are
left out, and vte has parsed the bytes.

**Attach.** The daemon's three reads of a view are three steps with the reader
thread in between. The keys are Ctrl-A, `d` and any other; they are read in
chunks of at most `BufSize`. The text of a screen is a sequence of rows and
newlines, built as `render_ansi` does, and placed on the terminal as
`render_screen` does, including the scroll when there are too many lines. Keys
typed before raw mode are flushed. A send that fails may have written any part of
its bytes, and an answer may be lost after all of them. The user may type for ever:
once `Budget` is used up `TypeOn` goes on typing and forgets the keys that have been
read and sent, so that a behaviour in which a key always waits, and the biased select
never serves a refresh (`NoKeyWaits`), is a behaviour of the model.

**Expect.** The chain of queues behind a script: `typed` of the `Load` bytes of
stuff are written, `input` of them wait in the terminal for the program,
`output` waits for the reader thread, `shown` says whether the screen matches.
`Write` takes as many bytes as there is room for, as `write_all` does in a loop,
and until it ends `writing` keeps the daemon from everything else: views, ticks
and signals. expect asks, judges what it got before it looks at the deadline,
sleeps and asks again. The session may be removed and the daemon may go at any
time it is not writing. `gap` is a history variable that only `NoLastingMatchMissed`
reads.

**Escape and Wire.** A payload is a sequence of cells, a byte of a string or an
integer each, so that a length modulo `W` (2^16 in the code) is one cell.
`Layout` gives the fields of every kind of message in the order of `encode`;
a session's `alive` is a flag, written as 0 or 1 and read as `!= 0` (`AsFlag`).
`Decode` moves a cursor over the same fields and stops at the first error; the
cursor after each field, entry and list item is an element of a recursive function
(`Decoding`, `Entering`, `Listing`), as is the loop of `unescape` after each turn
(`Turns`).
A connection delivers a prefix of the frame. `Unescape` goes through a text as
`unescape` does; the reference is a sequence of pieces, each with a spelling and
a meaning, and the bytes `stuff` delivers must be the meaning of what was
spelled.

**WindowsDaemon.** The pipe is the instances that daemons hold (`pipe`, `next`);
a client opens one that listens, finds all busy and tries again, or finds none.
A session's child is assigned to its job after it was started, unchecked, so
what it starts may run `"in"` the job or `"out"` of it. The names and replies of
SessionManager and Daemon are not repeated: a call creates, hangs up or stops.
A killed daemon runs no destructor; Windows closes its handles.

## 3. Runs

"Finding" means that TLC finds the counterexample the finding describes; the
other runs end without an error.

| Run | Bounds | Distinct states | Shows |
|---|---|---|---|
| `session_manager` | 2 pids, numerals 0..2, 1 custom name, symmetric pids, children may change user (`Switching`) | 1.1 M | all orders of calls, exits, closes and reader ends; next_id wraps |
| `daemon_requests` | 2 clients, every request, create and kill at the same time, 1 pid | 1.0 M | no connection lost, every stop clean, linearizable answers |
| `daemon_live` | 2 clients that create, fair | | reaping, auto-exit, obeying SIGTERM, nobody waits for ever |
| `startup` | 2 clients, 2 daemons, fair | | what the races can and cannot break; a stale socket never blocks a start |
| `screen` | 2x2, 3x1, 2x1, 1x3, 0x1, 1x0; parameters 0, 1, 3; modes 7, 47, 1049; U16 = 4 | 252 k | all control functions, row by row, resizes, alternate and empty screens |
| `attach` | 5 keys, or 3 changes, or 3 keys and 1 change remembered, endless typing; reads of at most 2; 3 rows; fair | 340 k | every split of the keys, every screen rendered, torn views corrected, ends noticed |
| `expect` | 3 bytes to type, 2 in each direction of the terminal, fair | 64 k | full buffers, blocked daemon, deadline, end and reap between polls |
| `wire` | lengths modulo 4, payloads of up to 12 cells; texts of up to 3 pieces | 369 k | every kind of message at the limits of its lengths, cuts at any cell, foreign frames, lists of sessions with any byte for alive, escapes |
| `windows` | 2 daemons, 2 clients, 1 child, 1 retry, fair | 169 k | one server of the pipe, jobs and consoles after hangup, reap, exit and kill |
| `auto_exit_missed` | 1 client that creates and kills, fair | | finding about daemon.rs |
| `two_daemons_serve` | 2 clients, 2 daemons | | finding about platform.rs |
| `cursor_off_its_row` | 2 rows, 1 change | | finding about screen.rs |

Why the bounds are enough: two sessions suffice for one to stand in another's
way, and two processes against three numerals make the naming loop skip, wrap
and reuse. Children change their user in `session_manager`; in the daemon's runs
`Switching` is empty, to keep them small, and the theorems hold with any. The
daemon's runs have one pid, which is not reused while a session has it, and no
other session in the way of an exit; that an exit takes no session with it whatever
their number is `DaemonIsDirectory`. The daemon serves one connection at a time, so a second client is
all that can contend; `Apart` sends the requests that do not change the table
only while the other client is idle, since two of those do not interact. Two
daemons suffice for one to take the other's socket
and to lose its own to the other's exit; the theorems about them hold for any
number. The screens are wide, tall and square so that a resize
shrinks one way and grows the other; parameter 3 makes sums wrap at 4 as 65535
does at 65536, and is no smaller than any size. Five keys contain every pair of a prefix
and a command split over two reads, twice. More bytes to type than the terminal
holds, and more than one piece of output, make both directions fill at once.
Strings of 0 to 5 cells lie below, at and above the limit of lengths modulo 4,
which are 2 (the largest), 3 (absent) and 4 (zero again). Three pieces put every
escape between two neighbours. Two Windows clients hold both instances that
exist while one is handled. Where TLC is bounded by processes, names or
buffers, the theorems are not.

Deadlock checking is off throughout: the daemon may exit, a client may be done
and a panicked reader does nothing more, so these systems really stop.

### Fairness

* A client that has connected writes its request or dies. A client that has
  written waits: it is never assumed to give up.
* `Daemon`: `handle_one` finishes once its request can be read. This takes a write
  to the terminal to complete. `Expect` drops that assumption and shows what a
  blocked write does (section 5).
* `select!` polls its branches in random order and the interval ticks for ever,
  so a branch that is ready at infinitely many selects is taken: strong fairness
  of accept, SIGTERM and tick, and of the tick on Windows. `handle_one` in between
  disables them, so weak fairness would not do.
* Reader threads, the daemon's task and the loop of expect are scheduled: weak
  fairness.
* `Expect`: a program that does not stall comes back to reading its terminal,
  however much it prints (strong fairness); `Unhindered` excludes the behaviours
  in which it stalls or the reader panics, and only those.
* A daemon process that is not killed runs on; likewise an attached client.
* `Attach`: a refresh that is due again and again is served (strong fairness, as keys
  that come and go interrupt it); nothing is assumed when a key always waits, and
  `QuietScreenShown` says so in its hypothesis. The daemon's tick reaps a session whose
  program has ended (weak fairness).
* Children, terminals, users, deadlines, kills and SIGTERM are under no obligation.

## 4. What is proved

All proofs are checked by `tlapm`, for any number of processes, names, clients
and daemons and any sizes of buffers.

**Daemon_proofs, the session manager.** Assumptions: pids are a finite set smaller than the
numerals (of which the code has 2^32), and `NoPid`, `Unnamed` are not among
pids and names. None of the properties is inductive alone. `IInv` conjoins type
correctness, `PidsDistinct` and `KilledWhenRemoved` (that is `NoUnownedChild` and
`OnlyRemovedAreKilled`) with what ties them together: a stored pid has been forked
and is not free (`SpawnedInUse`), a free one has no history (`FreeUntouched`), and
the flag of a stored pid is cleared only when nobody holds its terminal
(`FlagFollowsReader`), from which `DeadMeansHungUp` follows: a session is called dead
only when its terminal has no holder or its child runs as another user. The set of
processes that may change their user is any (`SwitchingAssumption`).
`Create` preserves distinctness because `fork` returns only
a free pid and a zombie is never freed: the code's neglect to wait is what makes
signals safe. The naming theorem is a counting argument: sessions inject into
pids, pids are fewer than numerals, so a numeral is free, and of the free ones
one comes first from `next_id` on (well-founded induction over the distance).
The action properties `SessionsStable` and `SignalsReachChildren` follow from
`IInv` action by action.

**Daemon_proofs, the event loop.** Further assumption: a request about a session names it, as the
command line requires. `DaemonRunsManager` shows that every step of the event loop is a
step of the manager or leaves it alone, so the manager's invariant, and with it
all theorems above, hold inside the daemon. The daemon's own invariant `DInv`
adds that the manager is open as long as run has not ended and that its end
empties the table (`OpenUntilStopped`), and that the backlog holds every
connection once, never the one being served, and nothing is served once the loop
is left (`EachInOnePlace`). `StopsClean` and `ConnectionsAccounted` follow.
`DaemonIsDirectory` is the refinement: each step of the daemon is mapped to a
step of `SessionDirectory` or to none. The core is `CallHasEffect`: a request
that does not panic changes the table and answers as the abstract call may,
case by case; a panic is the abstract `Crash`, a tick the `Sweep`, which may make the
server leave only with an empty directory, SIGTERM `Tell` and `Obey`, the closing of
the listener `StopListening`, the end of the manager `Vacate`; steps of children and
readers may change which programs have ended (`ProgramsEnd`).

**DaemonStartup_proofs.** Assumption: `NoDaemon` is no daemon. The invariant adds
to the checked properties an owner for each file. The path names a daemon
that has bound and not yet removed a socket (`PathHasOwner`); if that daemon has
already removed the pid file and one is there again, its writer has still to
remove the socket (`RewrittenPidFile`); so a pid file always has somebody who
can still remove it (`PidFileHasOwner`). `LastOneTidies` is a consequence. Type
correctness needs `SessionsAreHeld` and `HeldOnce`, since a daemon that goes
sets its clients back. `RacesLeaveOneReachable` and `OnlyRivalsCutOff` are
preserved step by step. `CallsAreHeard` and `SessionsAreHeld` are proved here and
have no run of their own.

**Screen_proofs.** Assumptions: sizes and parameters are `u16`s, `TabWidth` is one
too and not 0, a blank cell is no attribute, and `Nothing`, the `None` of the
primary screen put aside, is no `AltSaved`. The invariant is type correctness and
that a panic found the cursor outside or no cells: after a panic nothing is fed.
`TypeOK` includes that the vector has `cols * rows` cells, so that the proofs must
bound every flat index, products included. Every control function but those that
switch screens is summarised by `Fed`: the size stays, the cells are a vector of
that size, a cursor inside stays inside unless it is restored, and it panics only
from outside. From this follow `PanicNeedsOutside`, `OutsideNeedsRestore` and
`PrimaryKept`; mode switches and resizes are a case each. `ResizeKeepsCells`,
`ScrollMovesRows` and `EditsStayInLine` are about cells: index `y * w + x` names one
place only (`x < w`), and a copied or filled slice is a range of rows, or lies
within one. For the first two the loops have invariants: after k turns the rows that
were visited have what they should and all others are as they were, and a row that is
still to be copied has not been visited, which is where the order of the loops
matters.

**Attach_proofs.** Assumptions: sizes are positive, and `Empty`, `NewLine` and the
texts differ. Two invariants. For the keys, `IInv` adds to `KeysArriveInOrder` that
`ctrl_a_pending` is the prefix state of all keys taken so far, although it was
computed read by read (`PrefixRemembered`). The step that reads is an induction
over the bytes of the read (`ReadMeans`): as long as nothing detaches, the filter
has put out what is due for them. A read that detaches or a failed send, of which any
part may have been written, leaves a prefix of what is due (`DueGrows`). For the rendering, `Renders` is the invariant of
`render_ansi`'s loop: lines and buffered rows are as many as the rows, and the
entries of the text are the rows of their lines. It needs the first row, as without
it the loop is off by one (section 5).

**Expect_proofs.** Assumption: load and buffers are positive. The invariant ties
the history variable to what expect holds in its hand (`GapSeen`): a screen that
does not match now, or did not when the daemon read it for an answer not yet
judged, has left a gap. `OkMeansTyped` and `NoLastingMatchMissed` follow, because
expect judges an answer before it looks at the deadline.

**Wire_proofs.** Assumptions (`WireAssumption`): u16 counts modulo some `W` above 1,
messages have the fields of their kind, each of its type, texts are sequences of
pieces, and `Absent`, the `None` of an optional string, is no string. Of a foreign
frame nothing is assumed but that its payload is a sequence of cells. The
invariant `WireInv` lists what a connection may carry (nothing yet, a message too
large to be written, a message, the text of a stuff, a foreign frame) and says
that what was read is what `ReadFrame` makes of it. The work is in two lemmas about
`Decode`, which hold for any payload:

* soundness (`DecodeReads`): a cursor that is not bad has read values whose encodings,
  put together, are what it has left behind, so what is decoded is encoded by a
  prefix of the payload. A flag is the exception, as any byte other than 0 is read as
  1: what is left behind is one of the message's `Spellings`, which differ from its
  encoding in such bytes only (`Spelt`, `EntrySpelt`, `ListSpelt`). It gives `NothingInvented`, and one half of `ReadAsSent`:
  a message whose lengths do not fit cannot come back, because whatever comes back
  has lengths below `W`;
* completeness (`DecodeIsRead`): a payload that encodes a message whose lengths fit is
  read field by field without an error. It gives the other half.

Both go up from a string to a plain field, an entry, a list and a message. At each
level the same two lemmas about cursors (`Readings`, `AllRead`) do the induction,
for the fields of an entry, the entries of a list and the fields of a message.
For `StuffIsTyped` the invariant of `unescape`'s loop is that after as many turns as
pieces it stands at the end of their text and has put out their meaning
(`UnescapeMeans`): each piece takes one turn (`PieceTurns`), which for a short number
needs that no digit follows, the condition `Spells`.

**Recursion** has the two facts that the inductions of `Attach_proofs` and
`Wire_proofs` rest on. The library states induction and recursive definition with
operators as parameters, which the provers cannot instantiate; here the induction is
over a set and the step of a recursion is a function.

**WindowsDaemon_proofs.** Assumption: the markers are no clients. `OnePipeServer`
needs no strengthening beyond types: a first instance is made only when there is
none, and an instance is replaced by the next one in the same step. For
`JobsLeaveNothing` the invariant adds that nothing runs for a child that was not
spawned (`NothingEarly`).

Only model-checked: all liveness, as fairness is out of the prover's reach. Every
invariant and every action property that a run checks is a theorem. The type
invariants of `Daemon`, `Attach`, `Expect` and `Wire` are proved and have no run, to
keep the runs to what could be wrong.

## 5. Findings

Three are runs that TLC ends with a counterexample; `PROJECT.json` quotes the
lines.

* Auto-exit never happens if the sessions ended before a tick saw one.
* On Unix two daemons started at once both serve, one unreachable with its
  sessions: `create_listener` removes the socket of a daemon that is serving.
* Empty rows at the top shift the text a row below the cursor.

These deviations are in the models, as in the code, and have no run of their own:

* A program that exited while something holds its terminal counts as alive,
  because `kill(pid, 0)` succeeds for a zombie (`IsAlive`); zombies stay until the
  daemon exits, where `docs/known-limitations.md` says until a reap (`ChildExits`).
  A session whose reader could not be started is never found dead at all.
* A session whose program runs as another user (`pmux -c "sudo ..."`) is called
  dead, as `kill(pid, 0)` fails with EPERM (`IsProcessAlive`): the next tick reaps it
  although it holds its terminal, and the SIGKILL is refused and the refusal ignored
  (`Sigkill`). The hang-up of the dropped master does not make up for it while the
  reader thread's clone of the descriptor is open.
* EL 1 with a pending wrap erases the first cell of the next line (the exception in
  `EditsStayInLine`); RIS leaves modes and the saved cursor (`FullReset`); CUD with a
  count near 65535 moves up (`Plus`, `CursorDown`).
* Keys read together with Ctrl-A d are dropped (`ReadKeys`), so
  `KeysArriveInOrder` promises only a prefix once the attachment is over.
* Keys that never pause starve the refresh (`NoKeyWaits`): the screen is not drawn, and
  the end of the session is noticed by the refused send instead.
* A view may combine content with a later cursor (`ReadCursor`); the next refresh
  corrects it (`QuietScreenShown`).
* expect looks at the screen as it is: after stuff it also matches what was there
  before, such as the old prompt (`Ask`), where `USAGE.md:223` speaks of waiting
  for a command to finish. A program that prints the match and exits turns the view
  into an error (`ViewRefused`). Its timeout does not bound an rpc: while the
  daemon writes to a program that does not read, expect waits, and the daemon
  hears neither SIGTERM nor KillServer (`Selecting`).
* A stuff that fails may have typed a prefix (`WriteFails`); keys of an attachment
  likewise (`Send`). A resize that fails is reported as an error although the session
  exists (`ResizeFails`).
* A command or name of 65535 bytes in Create is read as absent, longer strings are cut
  modulo 65536 (`OptStr`, `Fits`). A `\u` of a surrogate types nothing (`Coded`).
* On Windows what a child starts before it is in its job, or a child whose
  assignment failed, may survive its session (`Spawned`); an early return between
  the console and the process leaks the console (`SpawnAbandons`); a third client
  may fail after its retries while two hold the instances (`CannotOpen`).

The runs also characterise, as properties that hold, the limits of two hazards:
the reader panics only with the cursor outside the screen or on an empty one, and
the cursor gets there only by restoring one saved before a resize; a daemon is
cut off only by another's start or exit.

## 6. Not modelled, and why

* SGR attributes and columns of rendering: the text of a row is one value in
  `Attach`, and no check is made that the sequences give the attributes back.
* Windows: command line quoting, the environment block, sizes and the pid file, which
  a second daemon overwrites before it fails; requests that do not change its state
  are those of `Daemon`.
* Command-line parsing, debug output and constants: no state. Raw mode: two
  system calls, in `Attach` only by the flush of input.
* The session log, title, cursor visibility and growth of the transcript: nothing
  that is modelled reads them. The last is a memory bound and the one hazard
  without a property.
* Failure of thread creation (a panic) and the master descriptors that later
  children inherit: the first ends the daemon as other panics do; the second keeps
  a terminal open longer, which `tty` allows.

## 7. Plan

Done, in this order: SessionManager and its proofs, Daemon and SessionDirectory,
Screen, DaemonStartup and its proofs, Attach, Expect, Escape and Wire,
WindowsDaemon, and the proofs about Expect, WindowsDaemon, Daemon with its
refinement, Screen, Attach and Wire. What is left:

1. Theorems about the safety halves of the liveness arguments: what is enabled when
   something is still due, such as a request that was sent or a byte not yet typed.
2. Soundness of `Decode` with the reading peer's own bounds: how much a foreign frame
   may make the daemon allocate.
3. `Rendering`: columns and attributes; applying the rendered sequences to a
   blank screen gives the screen back.
