---------------------------- MODULE Expect_proofs ----------------------------
(* What stuff and expect promise in every state, whatever is sent and       *)
(* however little the terminal holds.                                      *)
EXTENDS Expect, SequenceTheorems, TLAPS

\* The history variable says what it is for: the screen does not match now, or
\* did not when the daemon read it for the answer expect has in hand.
GapSeen ==
  /\ shown = "miss" => gap
  /\ expect = "answered" /\ look = "miss" => gap

IInv == TypeOK /\ OkMeansTyped /\ GapSeen /\ NoLastingMatchMissed

-----------------------------------------------------------------------------

\* The initial state satisfies the invariant.
LEMMA InitInv == Init => IInv
<1> SUFFICES ASSUME Init PROVE IInv OBVIOUS
<1>1. output \in Seq(Contents) /\ Len(output) = 0 BY DEF Init
<1>2. gap \in BOOLEAN /\ (shown = "miss" => gap) BY DEF Init
<1>3. TypeOK
  <2>1. 0 \in 0 .. InputCap /\ 0 <= OutputCap /\ 0 \in 0 .. Load BY CapAssumption
  <2>2. {up, listed, writing, late, gap} \subseteq BOOLEAN BY <1>2 DEF Init
  <2>3. ~writing BY DEF Init
  <2>4. {shown, look} \subseteq Contents BY DEF Init, Contents
  <2> QED BY <1>1, <2>1, <2>2, <2>3, <2>4 DEF Init, TypeOK
<1>4. GapSeen BY <1>2 DEF Init, GapSeen
<1> QED BY <1>3, <1>4 DEF Init, IInv, OkMeansTyped, NoLastingMatchMissed

\* What the reader thread leaves of the output is output, and no more of it.
LEMMA TakenOutput ==
  ASSUME TypeOK, NEW n \in 1 .. OutputCap, ReaderTakes(n)
  PROVE  output' \in Seq(Contents) /\ Len(output') <= OutputCap /\ output[n] \in Contents
<1> DEFINE rest == SubSeq(output, n + 1, Len(output))
<1>1. Len(output) \in Nat /\ Len(output) <= OutputCap /\ n \in 1 .. Len(output)
  BY DEF TypeOK, ReaderTakes
<1>2. \A i \in 1 .. Len(output) : output[i] \in Contents
  BY DEF TypeOK
<1>3. rest \in Seq(Contents) /\ Len(rest) = IF n + 1 <= Len(output) THEN Len(output) - n ELSE 0
  <2>1. \A i \in n + 1 .. Len(output) : output[i] \in Contents BY <1>1, <1>2
  <2> HIDE DEF rest
  <2>2. rest \in Seq(Contents) /\ Len(rest) = IF n + 1 <= Len(output) THEN Len(output) - (n + 1) + 1 ELSE 0
    BY <1>1, <2>1, SubSeqProperties DEF rest
  <2> QED BY <1>1, <2>2
<1>4. output' = rest BY DEF ReaderTakes
<1> QED BY <1>1, <1>2, <1>3, <1>4, CapAssumption

\* Every step keeps the invariant.
LEMMA StepInv == IInv /\ [Next]_vars => IInv'
<1> SUFFICES ASSUME IInv, [Next]_vars PROVE IInv' OBVIOUS
<1> USE CapAssumption
    DEF IInv, TypeOK, OkMeansTyped, GapSeen, NoLastingMatchMissed, Contents, Returned,
        terminal, session, clients, daemon
<1>1. CASE Program
  <2>1. CASE ProgramReads BY <2>1 DEF ProgramReads
  <2>2. CASE ProgramTurns BY <2>2 DEF ProgramTurns
  <2>3. CASE ProgramPrints BY <2>3 DEF ProgramPrints
  <2>4. CASE ProgramEnds BY <2>4 DEF ProgramEnds
  <2> QED BY <1>1, <2>1, <2>2, <2>3, <2>4 DEF Program
<1>2. CASE Reader
  <2>1. CASE ReaderFeeds
    <3>1. PICK n \in 1 .. OutputCap : ReaderTakes(n) /\ shown' = output[n]
      BY <2>1 DEF ReaderFeeds, Feeds
    <3>2. output' \in Seq({"hit", "miss"}) /\ Len(output') <= OutputCap /\ shown' \in {"hit", "miss"}
      BY <3>1, TakenOutput
    <3>3. gap' = (gap \/ shown' # "hit") BY <2>1 DEF ReaderFeeds, Feeds
    <3> QED BY <2>1, <3>2, <3>3 DEF ReaderFeeds, Feeds
  <2>2. CASE ReaderEnds BY <2>2 DEF ReaderEnds
  <2>3. CASE ReaderPanics
    <3>1. PICK n \in 1 .. OutputCap : ReaderTakes(n)
      BY <2>3 DEF ReaderPanics
    <3>2. output' \in Seq({"hit", "miss"}) /\ Len(output') <= OutputCap
      BY <3>1, TakenOutput
    <3> QED BY <2>3, <3>2 DEF ReaderPanics
  <2> QED BY <1>2, <2>1, <2>2, <2>3 DEF Reader
<1>3. CASE Daemon
  <2>1. CASE ServeStuff
    <3>1. CASE listed /\ writing' = TRUE /\ UNCHANGED stuff
      BY <2>1, <3>1 DEF ServeStuff, Selecting
    <3>2. CASE stuff' = "failed" /\ UNCHANGED writing
      BY <2>1, <3>2 DEF ServeStuff, Selecting
    <3> QED BY <2>1, <3>1, <3>2 DEF ServeStuff
  <2>2. CASE Write
    <3>1. PICK n \in 1 .. Load - typed : Written(n, typed + n = Load)
      BY <2>2 DEF Write
    <3>2. input' \in 0 .. InputCap /\ typed' \in 0 .. Load BY <3>1 DEF Written
    <3> QED BY <3>1, <3>2 DEF Written
  <2>3. CASE WriteFails BY <2>3 DEF WriteFails
  <2>4. CASE ServeView
    <3>1. CASE ViewShows BY <2>4, <3>1 DEF ServeView, ViewShows
    <3>2. CASE ViewRefused BY <2>4, <3>2 DEF ServeView, ViewRefused
    <3>3. CASE ViewPanics BY <2>4, <3>3 DEF ServeView, ViewPanics, DaemonGone
    <3> QED BY <2>4, <3>1, <3>2, <3>3 DEF ServeView
  <2>5. CASE Removed BY <2>5 DEF Removed
  <2>6. CASE DaemonGoes BY <2>6 DEF DaemonGoes, DaemonGone
  <2> QED BY <1>3, <2>1, <2>2, <2>3, <2>4, <2>5, <2>6 DEF Daemon
<1>4. CASE Clients
  <2>1. CASE CallStuff BY <2>1 DEF CallStuff
  <2>2. CASE Ask BY <2>2 DEF Ask, Asks
  <2>3. CASE Judge BY <2>3 DEF Judge
  <2>4. CASE Wake BY <2>4 DEF Wake, WakesTo
  <2>5. CASE TimePasses BY <2>5 DEF TimePasses
  <2> QED BY <1>4, <2>1, <2>2, <2>3, <2>4, <2>5 DEF Clients
<1>5. CASE UNCHANGED vars BY <1>5 DEF vars
<1> QED BY <1>1, <1>2, <1>3, <1>4, <1>5 DEF Next

\* The invariant holds in every reachable state.
LEMMA Invariance == Spec => []IInv
BY InitInv, StepInv, PTL DEF Spec

\* Type correctness: in particular the terminal never holds more than it can,
\* and the daemon's task writes only while a client of stuff waits for it.
THEOREM ExpectTypeCorrect == Spec => []TypeOK
<1>1. IInv => TypeOK BY DEF IInv
<1> QED BY <1>1, Invariance, PTL

\* A stuff that reports success has typed all of its bytes (Session::write_data).
THEOREM SuccessMeansTyped == Spec => []OkMeansTyped
<1>1. IInv => OkMeansTyped BY DEF IInv
<1> QED BY <1>1, Invariance, PTL

\* expect gives up only if the screen did not match at some moment since it last
\* went to sleep (run_exec): one more look always follows the last sleep.
THEOREM LastingMatchFound == Spec => []NoLastingMatchMissed
<1>1. IInv => NoLastingMatchMissed BY DEF IInv
<1> QED BY <1>1, Invariance, PTL
=============================================================================
