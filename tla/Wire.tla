-------------------------------- MODULE Wire --------------------------------
(***************************************************************************)
(* The messages between client and daemon (src/ipc.rs): write_msg turns a  *)
(* message into a header and a payload of length-prefixed fields, read_msg *)
(* reads it back at the other end of a connection that may be cut anywhere *)
(* or be used by a peer that speaks something else. A payload is a         *)
(* sequence of cells: one for a byte of a string and one for an integer,   *)
(* whose u16 counts modulo W (2^16). A message of kind "send_data" carries *)
(* what `stuff` made of its text (Escape).                                 *)
(***************************************************************************)
EXTENDS Escape

CONSTANTS
  W,         \* u16 counts modulo W
  MaxMsg,    \* cells of the largest payload
  Absent,    \* an optional string that is not there
  Lead, Trail,  \* the two bytes of a character outside ASCII
  Messages,  \* the messages that are sent
  Typed,     \* the sequences of pieces that `stuff` is given
  Foreign    \* what a peer that is no pmux, or another one, may send

Revision == "pmx1"

\* The fields of each kind of message, in the order of its payload. "text" and
\* "raw" are not prefixed and end where the payload, or the rest of it, does.
Layout ==
  [create |-> <<"int", "int", "opt", "opt">>, error |-> <<"text">>,
   winch |-> <<"str", "int", "int">>, hangup |-> <<"text">>,
   command |-> <<"str", "strs">>, send_data |-> <<"str", "raw">>,
   view_screen |-> <<"text">>, resize_pty |-> <<"str", "int", "int">>,
   kill_server |-> <<>>, ping |-> <<>>, list_sessions |-> <<>>, ok |-> <<>>,
   created |-> <<"text">>, session_list |-> <<"infos">>,
   screen_data |-> <<"content", "int", "int">>, pong |-> <<>>]

Kinds == DOMAIN Layout

\* The entries of the fields that are lists; "int" stands for any integer, and
\* "flag" for a byte that is written as 0 or 1.
Entry == [strs |-> <<"str">>, infos |-> <<"str", "str", "int", "flag">>]

\* What the byte of a flag is read as: any but 0 says yes.
AsFlag(byte) == IF byte = 0 THEN 0 ELSE 1

\* str::from_utf8
Valid(s) == \A i \in 1 .. Len(s) :
  /\ s[i] = Lead => i < Len(s) /\ s[i + 1] = Trail
  /\ s[i] = Trail => i > 1 /\ s[i - 1] = Lead

\* What a field may be. A byte is less than W, and so is what stands for an
\* integer, so that any of them can be taken for a length.
IsString(s, B) == s \in Seq(B) /\ Valid(s)
HasPlainType(type, v, B) ==
  CASE type = "int" -> v \in B
    [] type = "flag" -> v \in {0, 1}
    [] type \in {"str", "text", "content"} -> IsString(v, B)
    [] type = "opt" -> v = Absent \/ IsString(v, B)
    [] type = "raw" -> v \in Seq(B)
HasPlainTypes(types, v, B) ==
  /\ IsSequence(v) /\ Len(v) = Len(types)
  /\ \A i \in DOMAIN types : HasPlainType(types[i], v[i], B)
HasType(type, v, B) ==
  IF type \in DOMAIN Entry
    THEN IsSequence(v) /\ \A i \in DOMAIN v : HasPlainTypes(Entry[type], v[i], B)
    ELSE HasPlainType(type, v, B)
IsMessageOf(m, B) ==
  /\ m = [kind |-> m.kind, fields |-> m.fields] /\ m.kind \in Kinds
  /\ IsSequence(m.fields) /\ Len(m.fields) = Len(Layout[m.kind])
  /\ \A i \in DOMAIN m.fields : HasType(Layout[m.kind][i], m.fields[i], B)

Cells == 0 .. W - 1

ASSUME WireAssumption ==
  /\ W \in Nat \ {0, 1} /\ MaxMsg \in Nat /\ Absent \notin Seq(Nat)
  /\ \A m \in Messages : IsMessageOf(m, Cells)
  /\ \A ps \in Typed : IsText(ps)
  /\ \A f \in Foreign :
       /\ f = [revision |-> f.revision, kind |-> f.kind, len |-> f.len, payload |-> f.payload]
       /\ f.len \in Nat /\ f.payload \in Seq(Cells)

VARIABLES
  sent,     \* the message, or what a foreign peer sent in its place
  frame,    \* what write_msg wrote: a header and a payload
  arrived,  \* how many cells of it came through
  got,      \* what read_msg returned
  pieces    \* what stuff was given

vars == <<sent, frame, arrived, got, pieces>>

NoFrame == [revision |-> Revision, kind |-> "none", len |-> 0, payload |-> <<>>]
NoMessage == [kind |-> "none", fields |-> <<>>]
Refused == [kind |-> "refused", fields |-> <<>>]

Init ==
  /\ sent = NoMessage
  /\ frame = NoFrame
  /\ arrived = 0
  /\ got = NoMessage
  /\ pieces = <<>>

-----------------------------------------------------------------------------
(* encode                                                                  *)

Prefixed(s) == <<Len(s) % W>> \o s

\* Mutant of OptStr: an absent string is written as an empty one.
OptStrAsEmpty(s) == IF s = Absent THEN Prefixed(<<>>) ELSE Prefixed(s)

OptStr(s) == IF s = Absent THEN <<W - 1>> ELSE Prefixed(s)

PlainField(type, v) ==
  CASE type \in {"int", "flag"} -> <<v>>
    [] type = "str" -> Prefixed(v)
    [] type = "opt" -> OptStr(v)
    [] OTHER -> v

Concat(types, values) == FlattenSeq([i \in DOMAIN types |-> PlainField(types[i], values[i])])

Field(type, v) ==
  IF type \in DOMAIN Entry
    THEN <<Len(v) % W>> \o FlattenSeq([i \in DOMAIN v |-> Concat(Entry[type], v[i])])
    ELSE PlainField(type, v)

Encode(m) ==
  FlattenSeq([i \in DOMAIN m.fields |-> Field(Layout[m.kind][i], m.fields[i])])

-----------------------------------------------------------------------------
(* decode: a cursor over the payload.                                      *)

Cursor(payload) == [ok |-> TRUE, rest |-> payload, got |-> <<>>]
Bad(cur) == [cur EXCEPT !.ok = FALSE]

\* The next n cells are a field's value.
TakeAs(cur, n, value) ==
  [ok |-> cur.ok, rest |-> SubSeq(cur.rest, n + 1, Len(cur.rest)),
   got |-> Append(cur.got, value)]

ReadText(cur, n) ==
  LET s == SubSeq(cur.rest, 1, n)
  IN  IF n <= Len(cur.rest) /\ Valid(s) THEN TakeAs(cur, n, s) ELSE Bad(cur)

\* The length ahead of a string; Skip leaves it behind.
Length(cur) == Head(cur.rest)
Skip(cur) == [cur EXCEPT !.rest = Tail(@)]

ReadStr(cur) == IF cur.rest = <<>> THEN Bad(cur) ELSE ReadText(Skip(cur), Length(cur))

ReadPlain(cur, type) ==
  CASE ~cur.ok -> cur
    [] cur.ok /\ type = "int" ->
         IF cur.rest = <<>> THEN Bad(cur) ELSE TakeAs(cur, 1, Head(cur.rest))
    [] cur.ok /\ type = "flag" ->
         IF cur.rest = <<>> THEN Bad(cur) ELSE TakeAs(cur, 1, AsFlag(Head(cur.rest)))
    [] cur.ok /\ type = "str" -> ReadStr(cur)
    [] cur.ok /\ type = "opt" ->
         IF cur.rest # <<>> /\ Length(cur) = W - 1 THEN TakeAs(cur, 1, Absent) ELSE ReadStr(cur)
    [] cur.ok /\ type = "raw" -> TakeAs(cur, Len(cur.rest), cur.rest)
    [] cur.ok /\ type = "text" -> ReadText(cur, Len(cur.rest))
    [] cur.ok /\ type = "content" ->
         IF Len(cur.rest) < 2 THEN Bad(cur) ELSE ReadText(cur, Len(cur.rest) - 2)

\* The cursor before an entry and after each of its fields.
Entering(cur, types) ==
  LET c[i \in 0 .. Len(types)] ==
        IF i = 0 THEN [cur EXCEPT !.got = <<>>] ELSE ReadPlain(c[i - 1], types[i])
  IN  c

ReadEntry(cur, types) ==
  LET last == Entering(cur, types)[Len(types)]
  IN  [last EXCEPT !.got = Append(cur.got, last.got)]

\* The cursor before a list and after each of its n entries.
Listing(cur, types, n) ==
  LET c[i \in 0 .. n] ==
        IF i = 0 THEN [cur EXCEPT !.got = <<>>] ELSE ReadEntry(c[i - 1], types)
  IN  c

ReadList(cur, types) ==
  IF cur.rest = <<>> THEN Bad(cur)
  ELSE LET last == Listing(Skip(cur), types, Length(cur))[Length(cur)]
       IN  [last EXCEPT !.got = Append(cur.got, last.got)]

ReadField(cur, type) ==
  IF cur.ok /\ type \in DOMAIN Entry THEN ReadList(cur, Entry[type]) ELSE ReadPlain(cur, type)

\* The cursor before a payload and after each of its fields.
Decoding(kind, payload) ==
  LET c[i \in 0 .. Len(Layout[kind])] ==
        IF i = 0 THEN Cursor(payload) ELSE ReadField(c[i - 1], Layout[kind][i])
  IN  c

\* What the payload has after its last field is not looked at.
Decode(kind, payload) ==
  LET last == Decoding(kind, payload)[Len(Layout[kind])]
  IN  IF last.ok THEN [kind |-> kind, fields |-> last.got] ELSE Refused

-----------------------------------------------------------------------------
(* write_msg and read_msg.                                                 *)

HeaderSize == 3

\* A connection delivers all of what was written, or is cut at some point.
Send(m, f) ==
  /\ sent' = m
  /\ frame' = f
  /\ arrived' \in 0 .. HeaderSize + Len(f.payload)
  /\ UNCHANGED got

WriteMsg(m) ==
  LET payload == Encode(m)
      f == [revision |-> Revision, kind |-> m.kind, len |-> Len(payload), payload |-> payload]
  IN  IF Len(payload) > MaxMsg
        THEN sent' = m /\ UNCHANGED <<frame, arrived, got>>
        ELSE Send(m, f)

\* run_exec: the text of stuff, on its way to some session (on Unix: a client
\* on Windows also turns line feeds into carriage returns).
Stuff(ps) ==
  /\ WriteMsg([kind |-> "send_data", fields |-> <<<<>>, Unescape(TextOf(ps))>>])
  /\ pieces' = ps

\* Mutant of ReadFrame: read instead of read_exact.
ReadFramePartly ==
  IF arrived < HeaderSize \/ frame.revision # Revision \/ frame.len > MaxMsg \/ frame.kind \notin Kinds
    THEN Refused
    ELSE Decode(frame.kind, SubSeq(frame.payload, 1, arrived - HeaderSize))

ReadFrame ==
  IF \/ arrived < HeaderSize
     \/ frame.revision # Revision
     \/ frame.len > MaxMsg
     \/ arrived - HeaderSize < frame.len
     \/ frame.kind \notin Kinds
    THEN Refused
    ELSE Decode(frame.kind, SubSeq(frame.payload, 1, frame.len))

ReadMsg ==
  /\ sent # NoMessage
  /\ got = NoMessage
  /\ got' = ReadFrame
  /\ UNCHANGED <<sent, frame, arrived, pieces>>

\* One message per connection and direction: this is one of them.
Next ==
  \/ /\ sent = NoMessage
     /\ \/ \E m \in Messages : WriteMsg(m) /\ UNCHANGED pieces
        \/ \E ps \in Typed : Stuff(ps)
        \/ \E f \in Foreign : Send(Refused, f) /\ UNCHANGED pieces
  \/ ReadMsg

Spec == Init /\ [][Next]_vars
-----------------------------------------------------------------------------
(* What the two ends promise each other.                                   *)

Whole == arrived = HeaderSize + Len(frame.payload)
IsMessage(m) == m.kind \in Kinds

\* Whether every length of m can be told by its u16.
Fits(m) ==
  \A i \in DOMAIN m.fields :
    LET type == Layout[m.kind][i]
        v == m.fields[i]
    IN  CASE type = "opt" -> v = Absent \/ Len(v) < W - 1
          [] type = "str" -> Len(v) < W
          [] type \in DOMAIN Entry ->
               Len(v) < W /\ \A e \in ToSet(v) :
                 \A k \in DOMAIN e : Entry[type][k] = "str" => Len(e[k]) < W
          [] OTHER -> TRUE

\* What arrives whole is read as what was sent exactly when its lengths fit: an
\* optional string one byte short of 64 KiB reads as absent and longer strings
\* and lists as shorter ones, everything else gets through; and what the writer
\* does not refuse is not too large for the reader.
ReadAsSent ==
  IsMessage(sent) /\ got # NoMessage /\ frame # NoFrame /\ Whole =>
    (got = sent <=> Fits(sent))

\* What a message may be read from: what it is written as, but that any byte
\* other than 0 says of a session in a list that it is alive.
Spellings(m) ==
  LET infos == m.fields[1]
      With(alive) == <<[i \in DOMAIN infos |-> [infos[i] EXCEPT ![4] = alive[i]]]>>
      Same(alive) == \A i \in DOMAIN infos : AsFlag(alive[i]) = infos[i][4]
  IN  IF m.kind # "session_list" THEN {Encode(m)}
      ELSE {Encode([kind |-> m.kind, fields |-> With(alive)]) :
              alive \in {a \in [DOMAIN infos -> Cells] : Same(a)}}

\* Nothing is invented: what is read as a message came in one whole frame of
\* this revision, whose payload begins with the message, whoever sent it.
NothingInvented ==
  IsMessage(got) =>
    /\ arrived >= HeaderSize + frame.len
    /\ frame.revision = Revision /\ frame.kind = got.kind
    /\ \E e \in Spellings(got) : IsPrefix(e, frame.payload)

\* stuff types what its text means: the bytes that reach the daemon are those of
\* the pieces the text is made of, whichever escapes they are written with.
StuffArrives ==
  Spells(pieces) /\ IsMessage(got) /\ pieces # <<>> => got.fields[2] = Meaning(pieces)
=============================================================================
