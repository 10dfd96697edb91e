------------------------------- MODULE Expect -------------------------------
(***************************************************************************)
(* A script that drives one session with `stuff` and `expect` (src/main.rs *)
(* run_exec), across every queue between the two: the daemon's single task *)
(* writes the bytes of stuff with write_all into a terminal whose input    *)
(* buffer is bounded, the program reads them and writes output that is     *)
(* bounded too, the reader thread feeds the output to the screen, and      *)
(* expect looks at the screen until it shows a match, the session is over  *)
(* or the deadline has passed. The daemon serves nobody while it writes.   *)
(* What a screen shows is reduced to whether the pattern matches it.       *)
(***************************************************************************)
EXTENDS Naturals, Sequences

CONSTANTS
  Load,       \* bytes that stuff sends
  InputCap,   \* bytes the terminal holds for the program
  OutputCap   \* pieces of output the terminal holds for the reader thread

ASSUME CapAssumption == {Load, InputCap, OutputCap} \subseteq Nat \ {0}

VARIABLES
  input,   \* bytes typed and not yet read by the program
  output,  \* output written and not yet read by the reader thread
  prog,    \* the program behind the terminal
  reader,  \* the session's reader thread
  shown,   \* whether the screen matches the pattern
  up,      \* the daemon runs
  listed,  \* the session is in the manager's table
  writing, \* the daemon's task is inside write_all
  typed,   \* bytes of stuff that it has written
  stuff,   \* the client that runs stuff
  expect,  \* the client that runs expect
  look,    \* what the last ScreenData showed
  late,    \* the deadline has passed
  gap      \* history: the screen has not matched all along since expect began,
           \* or since its last sleep began

terminal == <<input, output, prog>>
session == <<reader, shown, listed>>
clients == <<stuff, expect, look, late>>
daemon == <<up, writing>>
vars == <<terminal, session, daemon, typed, clients, gap>>

Contents == {"hit", "miss"}
Returned == {"matched", "timed_out", "failed"}

Selecting == up /\ ~writing

Init ==
  /\ input = 0
  /\ output = <<>>
  /\ prog = "idle"
  /\ reader = "reading"
  /\ shown \in Contents
  /\ up = TRUE
  /\ listed = TRUE
  /\ writing = FALSE
  /\ typed = 0
  /\ stuff = "idle"
  /\ expect = "asking"
  /\ look = "miss"
  /\ late = FALSE
  /\ gap = (shown # "hit")

-----------------------------------------------------------------------------
(* The program and the terminal.                                           *)

ProgramReads ==
  /\ prog = "idle"
  /\ input > 0
  /\ input' = input - 1
  /\ prog' = "printing"
  /\ UNCHANGED <<output, session, daemon, typed, clients, gap>>

\* Output of its own accord, or no more reading and writing ever.
ProgramTurns ==
  /\ prog = "idle"
  /\ prog' \in {"printing", "stalled"}
  /\ UNCHANGED <<input, output, session, daemon, typed, clients, gap>>

\* A write to a terminal whose queue is full waits.
ProgramPrints ==
  /\ prog = "printing"
  /\ Len(output) < OutputCap
  /\ \E piece \in Contents : output' = Append(output, piece)
  /\ prog' = "idle"
  /\ UNCHANGED <<input, session, daemon, typed, clients, gap>>

\* The program ends, and with it the last holder of the terminal.
ProgramEnds ==
  /\ prog # "ended"
  /\ prog' = "ended"
  /\ UNCHANGED <<input, output, session, daemon, typed, clients, gap>>

-----------------------------------------------------------------------------
(* The reader thread: one read takes all that is there or a part of it, and *)
(* feeds it under one lock of the screen.                                  *)

ReaderTakes(n) ==
  /\ reader = "reading"
  /\ n \in 1 .. Len(output)
  /\ output' = SubSeq(output, n + 1, Len(output))

Feeds ==
  /\ \E n \in 1 .. OutputCap : ReaderTakes(n) /\ shown' = output[n]
  /\ gap' = (gap \/ shown' # "hit")
  /\ UNCHANGED <<input, prog, reader, listed, daemon, typed, clients>>

\* Mutant of ReaderFeeds: send holds the screen's lock while it writes.
ReaderFeedsUnlocked == ~writing /\ Feeds

ReaderFeeds == Feeds

ReaderEnds ==
  /\ reader = "reading"
  /\ prog = "ended"
  /\ output = <<>>
  /\ reader' = "ended"
  /\ UNCHANGED <<terminal, shown, listed, daemon, typed, clients, gap>>

\* feed panics: the screen's mutex is poisoned.
ReaderPanics ==
  /\ \E n \in 1 .. OutputCap : ReaderTakes(n)
  /\ reader' = "panicked"
  /\ UNCHANGED <<input, prog, shown, listed, daemon, typed, clients, gap>>

-----------------------------------------------------------------------------
(* stuff, and SendData in the daemon.                                      *)

CallStuff ==
  /\ stuff = "idle"
  /\ stuff' = IF up THEN "sent" ELSE "failed"
  /\ UNCHANGED <<terminal, session, daemon, typed, expect, look, late, gap>>

ServeStuff ==
  /\ Selecting
  /\ stuff = "sent"
  /\ \/ listed /\ writing' = TRUE /\ UNCHANGED stuff
     \/ ~listed /\ stuff' = "failed" /\ UNCHANGED writing
  /\ UNCHANGED <<terminal, session, up, typed, expect, look, late, gap>>

\* One write: the terminal takes n bytes, as it has room, and write_all
\* returns or goes on.
Written(n, complete) ==
  /\ writing
  /\ prog # "ended"
  /\ input + n <= InputCap
  /\ input' = input + n
  /\ typed' = typed + n
  /\ writing' = ~complete
  /\ stuff' = IF complete THEN "ok" ELSE stuff
  /\ UNCHANGED <<output, prog, session, up, expect, look, late, gap>>

\* Mutant of Write: write instead of write_all.
WriteOnce == \E n \in 1 .. Load - typed : Written(n, TRUE)

Write == \E n \in 1 .. Load - typed : Written(n, typed + n = Load)

\* Nobody holds the other end: the write fails, what was typed before stays.
WriteFails ==
  /\ writing
  /\ prog = "ended"
  /\ writing' = FALSE
  /\ stuff' = "failed"
  /\ UNCHANGED <<terminal, session, up, typed, expect, look, late, gap>>

-----------------------------------------------------------------------------
(* ViewScreen, the tick, and the ways the session or the daemon goes.      *)

\* The process is gone, by a stop, a panic or SIGKILL, and its table with it:
\* whoever waits for an answer sees the connection reset.
DaemonGone ==
  LET Lost(client) == IF client = "sent" THEN "failed" ELSE client
  IN  /\ up' = FALSE
      /\ listed' = FALSE
      /\ writing' = FALSE
      /\ stuff' = Lost(stuff)
      /\ expect' = Lost(expect)

ViewShows ==
  /\ listed
  /\ reader = "reading"
  /\ expect' = "answered"
  /\ look' = shown
  /\ UNCHANGED <<daemon, listed, stuff>>

\* No such session, or one whose child ended, whatever its screen shows.
ViewRefused ==
  /\ ~listed \/ reader = "ended"
  /\ expect' = "failed"
  /\ UNCHANGED <<daemon, listed, stuff, look>>

ViewPanics ==
  /\ listed
  /\ reader = "panicked"
  /\ DaemonGone
  /\ UNCHANGED look

ServeView ==
  /\ Selecting
  /\ expect = "sent"
  /\ ViewShows \/ ViewRefused \/ ViewPanics
  /\ UNCHANGED <<terminal, reader, shown, typed, late, gap>>

\* A tick reaps the session, or another client hangs it up.
Removed ==
  /\ Selecting
  /\ listed
  /\ listed' = FALSE
  /\ UNCHANGED <<terminal, reader, shown, daemon, typed, clients, gap>>

DaemonGoes ==
  /\ up
  /\ DaemonGone
  /\ UNCHANGED <<terminal, reader, shown, typed, look, late, gap>>

-----------------------------------------------------------------------------
(* The loop of expect: look, match, compare with the deadline, sleep.      *)

Asks(passed) ==
  /\ expect = "asking"
  /\ expect' = IF up THEN "sent" ELSE "failed"
  /\ late' = passed
  /\ UNCHANGED <<terminal, session, daemon, typed, stuff, look, gap>>

\* Mutant of Ask: the deadline is computed anew for every look.
AskRenews == Asks(FALSE)

Ask == Asks(late)

Judge ==
  /\ expect = "answered"
  /\ expect' = CASE look = "hit" -> "matched"
                 [] look = "miss" /\ late -> "timed_out"
                 [] OTHER -> "sleeping"
  /\ gap' = IF expect' = "sleeping" THEN shown # "hit" ELSE gap
  /\ UNCHANGED <<terminal, session, daemon, typed, stuff, look, late>>

WakesTo(next) ==
  /\ expect = "sleeping"
  /\ expect' = next
  /\ UNCHANGED <<terminal, session, daemon, typed, stuff, look, late, gap>>

\* Mutant of Wake: the deadline is the condition of the loop.
WakeGivesUp == WakesTo(IF late THEN "timed_out" ELSE "asking")

Wake == WakesTo("asking")

TimePasses ==
  /\ ~late
  /\ late' = TRUE
  /\ UNCHANGED <<terminal, session, daemon, typed, stuff, expect, look, gap>>

-----------------------------------------------------------------------------
Program == ProgramReads \/ ProgramTurns \/ ProgramPrints \/ ProgramEnds
Reader == ReaderFeeds \/ ReaderEnds \/ ReaderPanics
Daemon == ServeStuff \/ Write \/ WriteFails \/ ServeView \/ Removed \/ DaemonGoes
Clients == CallStuff \/ Ask \/ Judge \/ Wake \/ TimePasses

Next == Program \/ Reader \/ Daemon \/ Clients

Spec == Init /\ [][Next]_vars

(***************************************************************************)
(* Fairness. The daemon's task, the reader thread and the loop of expect   *)
(* are scheduled. A program that does not stall comes back to reading its  *)
(* terminal, whatever else it prints (strong). Nothing makes a program     *)
(* end, a session go, a deadline pass or stuff be called.                  *)
(***************************************************************************)
FairSpec ==
  /\ Spec
  /\ WF_vars(ServeStuff) /\ WF_vars(Write) /\ WF_vars(WriteFails) /\ WF_vars(ServeView)
  /\ WF_vars(ReaderFeeds) /\ WF_vars(ReaderEnds)
  /\ WF_vars(ProgramPrints) /\ SF_vars(ProgramReads)
  /\ WF_vars(Ask) /\ WF_vars(Judge) /\ WF_vars(Wake)
-----------------------------------------------------------------------------
(* What stuff and expect promise.                                          *)

\* Type correctness (main.rs run_exec, session.rs write_data and the reader).
TypeOK ==
  /\ input \in 0 .. InputCap
  /\ output \in Seq(Contents) /\ Len(output) <= OutputCap
  /\ prog \in {"idle", "printing", "stalled", "ended"}
  /\ reader \in {"reading", "ended", "panicked"}
  /\ {shown, look} \subseteq Contents
  /\ {up, listed, writing, late, gap} \subseteq BOOLEAN
  /\ typed \in 0 .. Load
  /\ stuff \in {"idle", "sent", "ok", "failed"}
  /\ expect \in {"asking", "sent", "answered", "sleeping"} \cup Returned
  /\ writing => up /\ stuff = "sent"

\* A stuff that reports success has typed all of its bytes, however small the
\* pieces the terminal took and whatever ended in between.
OkMeansTyped == stuff = "ok" => typed = Load

\* expect never times out on a screen that matched for a whole round of its
\* loop: at some moment since it last went to sleep, the screen did not match.
NoLastingMatchMissed == expect = "timed_out" => gap

\* As long as the program does not stall and the reader thread does not panic.
Unhindered == [](prog # "stalled" /\ reader # "panicked")

\* stuff is answered even if it sends more than the terminal holds to a program
\* that prints more than the terminal holds: the two directions drain apart.
StuffReturns == Unhindered => (stuff = "sent" ~> stuff # "sent")

\* expect returns once its deadline has passed or the screen goes on matching,
\* and it may wait for the daemon to finish a write in between.
ExpectReturns ==
  Unhindered /\ (<>late \/ <>[](shown = "hit")) => <>(expect \in Returned)
=============================================================================
