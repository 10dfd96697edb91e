------------------------------- MODULE Attach -------------------------------
(***************************************************************************)
(* A terminal attached to a session (src/main.rs run_resume, attach_loop,  *)
(* render_screen), the daemon's answer to ViewScreen (src/daemon.rs) and   *)
(* the rendering of the screen as text (src/screen.rs render_ansi).        *)
(*                                                                         *)
(* The session's program, its reader thread and the user act at any time.  *)
(* The daemon reads the content, the liveness and the cursor of the screen *)
(* one after the other, each under a lock of its own. A row of the screen  *)
(* is Empty or one of Texts; colours are left out. The terminal has Height *)
(* rows. The connection and what the daemon does for others are in Daemon. *)
(***************************************************************************)
EXTENDS Integers, FiniteSets, SequencesExt

CONSTANTS
  Texts,      \* what a row that is not empty shows
  Empty,
  NewLine,
  Rows,       \* of the session's screen
  Height,     \* of the client's terminal
  BufSize,    \* STDIN_BUF_SIZE
  Budget      \* bound: the <<keys remembered, changes of the screen>> of a state

ASSUME RowsAssumption == Rows \in Nat \ {0} /\ Height \in Nat \ {0} /\ BufSize \in Nat \ {0}
ASSUME TextAssumption == Empty \notin Texts /\ NewLine \notin Texts \cup {Empty}

VARIABLES
  rows,     \* rows[r]: row r of the session's screen
  cursor,   \* the row its cursor is in
  feeds,    \* changes made so far
  alive,    \* Session::is_alive
  present,  \* the session is in the daemon's table
  up,       \* the daemon answers
  typed,    \* the keys the user has typed
  taken,    \* how many of them attach_loop has read
  pending,  \* ctrl_a_pending
  got,      \* the bytes written to the session for them
  mode,     \* where the client stands
  attached, \* the terminal is in raw mode and attach_loop runs
  toSend,   \* what attach_loop has filtered and not yet sent
  shot,     \* the screen and the cursor when the daemon read the content
  frame,    \* the answer, [content, cursor]
  last,     \* last_content and last_cursor; what the terminal shows
  term      \* term[i]: row i of the client's terminal

screen == <<rows, cursor, feeds, alive>>
daemon == <<present, up>>
keys == <<typed, taken, pending, got, toSend>>
views == <<attached, shot, frame, last, term>>
vars == <<screen, daemon, keys, mode, views>>

Keys == {"ctrl_a", "d", "x"}
Modes == {"resuming", "select", "sending", "content", "cursor", "answered",
          "detached", "ended", "error"}
Done == {"detached", "ended", "error"}
RowIndex == 0 .. Rows - 1

-----------------------------------------------------------------------------
(* render_ansi: the rows as one text, empty rows buffered until a row that *)
(* is not empty follows.                                                   *)

AddRowAfter(acc, row, empty) ==
  IF row = Empty THEN [acc EXCEPT !.empty = @ + 1]
  ELSE LET flushed == acc.text \o [i \in 1 .. empty |-> NewLine]
           sep == IF flushed = <<>> THEN <<>> ELSE <<NewLine>>
       IN  [text |-> flushed \o sep \o <<row>>, empty |-> 0]

\* Mutant of AddRow: buffered empty rows are dropped.
AddRowDropping(acc, row) == AddRowAfter(acc, row, 0)

AddRow(acc, row) == AddRowAfter(acc, row, acc.empty)

\* The text and the buffered empty rows after each row of g.
Rendering(g) ==
  LET acc[r \in 0 .. Rows] ==
        IF r = 0 THEN [text |-> <<>>, empty |-> 0] ELSE AddRow(acc[r - 1], g[r - 1])
  IN  acc

RenderAnsi(g) == Rendering(g)[Rows].text

\* render_screen: each line of the text goes to the next row of the terminal,
\* which scrolls when they are more than it has; the rest is cleared.
LineOf(text, i) == Cardinality({j \in 1 .. i : text[j] = NewLine})

RenderScreen(text) ==
  LET scrolled == IF LineOf(text, Len(text)) < Height THEN 0
                  ELSE LineOf(text, Len(text)) - (Height - 1)
  IN  [r \in 0 .. Height - 1 |->
        LET at == {i \in 1 .. Len(text) : text[i] # NewLine /\ LineOf(text, i) = r + scrolled}
        IN  IF at = {} THEN Empty ELSE text[CHOOSE i \in at : TRUE]]

Answer(content, c) == [content |-> content, cursor |-> c]
NoAnswer == Answer(<<>>, 0)

Init ==
  /\ rows = [r \in RowIndex |-> Empty]
  /\ cursor = 0
  /\ feeds = 0
  /\ alive = TRUE /\ present = TRUE /\ up = TRUE
  /\ typed = <<>> /\ taken = 0 /\ pending = FALSE /\ got = <<>> /\ toSend = <<>>
  /\ mode = "resuming" /\ attached = FALSE
  /\ shot = [rows |-> rows, cursor |-> 0]
  /\ frame = NoAnswer
  /\ last = NoAnswer
  /\ term = [r \in 0 .. Height - 1 |-> Empty]

-----------------------------------------------------------------------------
(* The program, the daemon's other clients and the user.                   *)

\* The reader thread feeds output: one row and the cursor change.
Feed ==
  /\ alive
  /\ <<Len(typed), feeds + 1>> \in Budget
  /\ feeds' = feeds + 1
  /\ \E r, c \in RowIndex, t \in Texts \cup {Empty} :
       /\ rows' = [rows EXCEPT ![r] = t]
       /\ cursor' = c
  /\ UNCHANGED <<alive, daemon, keys, mode, views>>

ProgramEnds ==
  /\ alive
  /\ alive' = FALSE
  /\ UNCHANGED <<rows, cursor, feeds, daemon, keys, mode, views>>

\* The daemon serves one request at a time, so nothing is removed, and the
\* daemon does not stop, while it answers a ViewScreen.
Answering == mode \in {"content", "cursor"}

\* Killed by another client, or reaped.
Removed ==
  /\ present
  /\ ~Answering
  /\ present' = FALSE
  /\ alive' = FALSE
  /\ UNCHANGED <<rows, cursor, feeds, up, keys, mode, views>>

DaemonStops ==
  /\ up
  /\ ~Answering
  /\ up' = FALSE
  /\ UNCHANGED <<screen, present, keys, mode, views>>

\* What was typed before raw mode is flushed by enable_raw_mode.
Type ==
  /\ attached
  /\ mode \notin Done
  /\ <<Len(typed) + 1, feeds>> \in Budget
  /\ \E k \in Keys : typed' = Append(typed, k)
  /\ UNCHANGED <<screen, daemon, taken, pending, got, toSend, mode, views>>

\* The user types on for ever. Budget bounds what is remembered: the keys that have
\* been read and sent, and what they were sent as, are forgotten.
TypeOn ==
  /\ attached
  /\ <<Len(typed) + 1, feeds>> \notin Budget
  /\ mode = "select" /\ ~pending /\ taken > 0
  /\ \E k \in Keys : typed' = Append(SubSeq(typed, taken + 1, Len(typed)), k)
  /\ taken' = 0
  /\ got' = <<>>
  /\ UNCHANGED <<screen, daemon, pending, toSend, mode, views>>

-----------------------------------------------------------------------------
(* attach_loop: the biased select reads keys before it refreshes.          *)

\* One byte of a read: Ctrl-A d detaches, Ctrl-A Ctrl-A is a literal Ctrl-A.
Filter(f, k) ==
  CASE f.detach -> f
    [] ~f.detach /\ f.pending /\ k = "d" -> [f EXCEPT !.detach = TRUE, !.pending = FALSE]
    [] ~f.detach /\ f.pending /\ k = "ctrl_a" -> [f EXCEPT !.out = Append(@, k), !.pending = FALSE]
    [] ~f.detach /\ f.pending /\ k = "x" ->
         [f EXCEPT !.out = @ \o <<"ctrl_a", k>>, !.pending = FALSE]
    [] ~f.detach /\ ~f.pending /\ k = "ctrl_a" -> [f EXCEPT !.pending = TRUE]
    [] ~f.detach /\ ~f.pending /\ k # "ctrl_a" -> [f EXCEPT !.out = Append(@, k)]

\* What is left of a read after each of its n bytes.
Filtering(prefix, n) ==
  LET f[i \in 0 .. n] ==
        IF i = 0 THEN [out |-> <<>>, pending |-> prefix, detach |-> FALSE]
        ELSE Filter(f[i - 1], typed[taken + i])
  IN  f

ReadKeysAfter(prefix) ==
  LET left == Len(typed) - taken
      n == IF left < BufSize THEN left ELSE BufSize
      f == Filtering(prefix, n)[n]
  IN  /\ mode = "select"
      /\ n > 0
      /\ taken' = taken + n
      /\ pending' = f.pending
      /\ \/ f.detach /\ mode' = "detached" /\ UNCHANGED toSend
         \/ ~f.detach /\ f.out = <<>> /\ UNCHANGED <<mode, toSend>>
         \/ ~f.detach /\ f.out # <<>> /\ mode' = "sending" /\ toSend' = f.out
      /\ UNCHANGED <<screen, daemon, typed, got, views>>

\* Mutant of ReadKeys: a prefix key at the end of a read is forgotten.
ReadKeysForgets == ReadKeysAfter(FALSE)

ReadKeys == ReadKeysAfter(pending)

\* The biased select polls the refresh interval only when no key waits.
NoKeyWaits == mode = "select" /\ taken = Len(typed)

StdinCloses ==
  /\ NoKeyWaits
  /\ mode' = "detached"
  /\ UNCHANGED <<screen, daemon, keys, views>>

\* SendData. A write may fail after a part of the bytes, and the answer may get lost
\* after all of them.
SendElse(refused) ==
  /\ mode = "sending"
  /\ toSend' = <<>>
  /\ \/ up /\ present /\ got' = got \o toSend /\ mode' = "select"
     \/ /\ up /\ present
        /\ \E n \in 0 .. Len(toSend) : got' = got \o SubSeq(toSend, 1, n)
        /\ mode' = "error"
     \/ up /\ ~present /\ mode' = refused /\ UNCHANGED got
     \/ ~up /\ mode' = "error" /\ UNCHANGED got
  /\ UNCHANGED <<screen, daemon, typed, taken, pending, views>>

\* Mutant of Send: "session not found" is left to the next refresh.
SendLeavesToRefresh == SendElse("select")

Send == SendElse("ended")

-----------------------------------------------------------------------------
(* ViewScreen, by run_resume and by every tick of the refresh interval.    *)

\* The answer is an error: run_resume fails, attach_loop ends the attachment.
Refused == mode' = IF attached THEN "ended" ELSE "error"

ReadContent ==
  /\ mode = "resuming" \/ NoKeyWaits
  /\ \/ up /\ present /\ mode' = "content" /\ shot' = [rows |-> rows, cursor |-> cursor]
     \/ ~(up /\ present) /\ Refused /\ UNCHANGED shot
  /\ UNCHANGED <<screen, daemon, keys, attached, frame, last, term>>

ReadAlive ==
  /\ mode = "content"
  /\ \/ alive /\ mode' = "cursor"
     \/ ~alive /\ Refused
  /\ UNCHANGED <<screen, daemon, keys, views>>

ReadCursor ==
  /\ mode = "cursor"
  /\ mode' = "answered"
  /\ frame' = Answer(RenderAnsi(shot.rows), cursor)
  /\ UNCHANGED <<screen, daemon, keys, attached, shot, last, term>>

ShowIf(changed) ==
  /\ mode = "answered"
  /\ mode' = "select"
  /\ attached' = TRUE
  /\ IF ~attached \/ changed
       THEN last' = frame /\ term' = RenderScreen(frame.content)
       ELSE UNCHANGED <<last, term>>
  /\ UNCHANGED <<screen, daemon, keys, shot, frame>>

\* Mutant of Show: a cursor that moved alone is not drawn.
ShowContentOnly == ShowIf(frame.content # last.content)

\* Drawn only when it differs from what was drawn last.
Show == ShowIf(frame # last)

-----------------------------------------------------------------------------
ClientStep == ReadKeys \/ Send \/ ReadContent \/ ReadAlive \/ ReadCursor \/ Show

World == Feed \/ ProgramEnds \/ Removed \/ DaemonStops \/ Type \/ TypeOn \/ StdinCloses

Next == ClientStep \/ World

Spec == Init /\ [][Next]_vars

\* The client and the daemon run on; a tick is served if again and again no key
\* waits; the daemon reaps a session whose program has ended. The user, the program
\* and the other clients need not do anything.
FairSpec ==
  Spec /\ WF_vars(ClientStep) /\ SF_vars(ReadContent) /\ WF_vars(up /\ ~alive /\ Removed)
-----------------------------------------------------------------------------
(* What an attached terminal promises.                                     *)

\* Type correctness of the attachment (main.rs attach_loop).
TypeOK ==
  /\ rows \in [RowIndex -> Texts \cup {Empty}] /\ cursor \in RowIndex
  /\ {alive, present, up, pending, attached} \subseteq BOOLEAN
  /\ typed \in Seq(Keys) /\ got \in Seq(Keys) /\ toSend \in Seq(Keys)
  /\ taken \in 0 .. Len(typed)
  /\ mode \in Modes
  /\ mode = "sending" <=> toSend # <<>>
  /\ term \in [0 .. Height - 1 -> Texts \cup {Empty}]

\* Whether the i-th key of s is a Ctrl-A that waits for the next key.
IsPrefixKey(s) ==
  LET P[i \in 0 .. Len(s)] == IF i = 0 THEN FALSE ELSE s[i] = "ctrl_a" /\ ~P[i - 1]
  IN  P

\* What the i-th key of s makes the session receive.
Meant(s, i) ==
  LET P == IsPrefixKey(s)
  IN  IF P[i] THEN <<>>
      ELSE IF ~P[i - 1] \/ s[i] = "ctrl_a" THEN <<s[i]>>
      ELSE IF s[i] = "d" THEN <<>> ELSE <<"ctrl_a", s[i]>>

\* The bytes that a session is due for the first i keys of s.
Due(s) ==
  LET due[i \in 0 .. Len(s)] == IF i = 0 THEN <<>> ELSE due[i - 1] \o Meant(s, i)
  IN  due

\* However the keys are split over reads and mixed with refreshes, the session
\* receives what they stand for, in order and once, and never the detach key.
KeysArriveInOrder ==
  LET due == Due(typed)[taken]
  IN  IF mode \in Done THEN IsPrefix(got, due) ELSE got \o toSend = due

\* Rendering as text and drawing the text puts every row where the session has
\* it, rows that are empty in between included, if the first row is not empty.
RenderingPlacesRows ==
  rows[0] # Empty /\ Rows <= Height =>
    \A r \in RowIndex : RenderScreen(RenderAnsi(rows))[r] = rows[r]

\* Once the program has stopped changing its screen, the terminal comes to show
\* it, with the screen's own cursor, and goes on showing it, also when an earlier
\* answer mixed two screens; unless the attachment ends, or the user types so that
\* from some time on there is always a key waiting, which starves the refresh.
QuietScreenShown ==
  []<>NoKeyWaits =>
    <>[](\/ mode \in Done
         \/ last = Answer(RenderAnsi(rows), cursor) /\ term = RenderScreen(last.content))

\* The end of the program, of the session or of the daemon ends the attachment,
\* also when keys that never stop starve the refresh: then a send is refused.
EndNoticed == ~(alive /\ present /\ up) ~> mode \in Done

-----------------------------------------------------------------------------
(* Claims of comments that the code does not keep.                         *)

\* main.rs: "Position cursor at the actual terminal cursor location". With empty
\* rows at the top the text has a row more than the screen, and the cursor stands
\* a row above what it is drawn with.
CursorOnItsRow ==
  mode = "select" /\ last.cursor = shot.cursor /\ Rows < Height =>
    term[last.cursor] = shot.rows[last.cursor]
=============================================================================
