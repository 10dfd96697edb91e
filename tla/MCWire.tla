------------------------------- MODULE MCWire -------------------------------
(* Wire with u16 counting modulo 4, so that strings of 3, 4 and more cells   *)
(* cross its limits: bytes are 1 (ASCII) and the two of one longer character.*)
EXTENDS Wire

Strings == {[i \in 1 .. n |-> 1] : n \in 0 .. W + 1}
           \cup {<<Lead, Trail>>, <<1, 1, 1, Lead, Trail>>, <<Lead, Trail, 1, Lead, Trail>>}
Optional == Strings \cup {Absent}
Ints == {0, W - 1}
Lists == SeqOf({<<<<>>>>, <<<<1>>>>}, W + 1) \cup {<<<<s>>>> : s \in Strings}
Infos == SeqOf({<<<<1>>, <<>>, 2, 1>>}, W) \cup {<<<<s, t, 0, b>>>> : s, t \in Strings, b \in {0, 1}}

\* Every value of a kind's fields.
Values == [int |-> Ints, opt |-> Optional, str |-> Strings, strs |-> Lists, infos |-> Infos,
           raw |-> SeqOf({1, Lead}, 3), text |-> Strings, content |-> Strings]

Of(kind) ==
  LET types == Layout[kind]
  IN  {[kind |-> kind, fields |-> v] : v \in
         CASE Len(types) = 0 -> {<<>>}
           [] Len(types) = 1 -> {<<a>> : a \in Values[types[1]]}
           [] Len(types) = 2 -> Values[types[1]] \X Values[types[2]]
           [] Len(types) = 3 -> Values[types[1]] \X Values[types[2]] \X Values[types[3]]
           [] OTHER -> Values[types[1]] \X Values[types[2]] \X Values[types[3]] \X Values[types[4]]}

AllMessages == UNION {Of(kind) : kind \in Kinds}

\* Frames of another revision, of an unknown type, or with any payload and a
\* length that is right, too large or one off; lists of sessions of which any
\* byte says whether they are alive.
Strange ==
  [revision : {Revision, "other"}, kind : {"create", "command", "screen_data", "unknown"},
   len : 0 .. 5, payload : SeqOf({0, 1, Lead, Trail}, 4)]
  \cup [revision : {Revision}, kind : {"session_list"}, len : {4, 5, 9},
        payload : {<<n, 0, 0, 1, a, 0, 0, 1, b>> : n \in 0 .. 3, a, b \in Cells}]
  \cup {[revision |-> Revision, kind |-> "pong", len |-> MaxMsg + 1, payload |-> <<>>]}

\* Pieces of text: z, é, 😀, hexadecimal digits, and every form of escape.
Pieces == {Plain(122), Plain(233), Plain(128512), Plain(52), Short(110), Short(92), Short(48), Other(122),
           Numbered(120, <<>>), Numbered(120, <<52>>), Numbered(120, <<56, 65>>),
           Numbered(117, <<>>), Numbered(117, <<52>>), Numbered(117, <<101, 57>>),
           Numbered(117, <<100, 56, 48, 48>>), Numbered(117, <<52, 69, 48, 48>>)}
Texts == SeqOf(Pieces, 3)
=============================================================================
