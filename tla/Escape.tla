------------------------------- MODULE Escape -------------------------------
(***************************************************************************)
(* The escape sequences of `stuff` (src/escape.rs): unescape turns the     *)
(* characters of a text into the bytes that are typed. Characters and      *)
(* bytes are numbers. The reference is the other way round: a text is what *)
(* a sequence of pieces spells, and each piece means certain bytes.        *)
(***************************************************************************)
EXTENDS Naturals, Sequences, SequencesExt, FiniteSetsExt

Backslash == 92
Digits == [c \in (48 .. 57) \cup (65 .. 70) \cup (97 .. 102) |->
             CASE c \in 48 .. 57 -> c - 48 [] c \in 65 .. 70 -> c - 55 [] OTHER -> c - 87]
IsHex(c) == c \in DOMAIN Digits
Value(hex) ==
  LET v[i \in 0 .. Len(hex)] == IF i = 0 THEN 0 ELSE 16 * v[i - 1] + Digits[hex[i]]
  IN  v[Len(hex)]

\* n r t b f \ 0 a e E
Simple == [c \in {110, 114, 116, 98, 102, 92, 48, 97, 101, 69} |->
             CASE c = 110 -> 10 [] c = 114 -> 13 [] c = 116 -> 9 [] c = 98 -> 8 [] c = 102 -> 12
               [] c = 92 -> 92 [] c = 48 -> 0 [] c = 97 -> 7 [] c \in {101, 69} -> 27]

\* char::encode_utf8: a byte in front and then six bits in each.
Bits(c, k) == 128 + ((c \div 2 ^ k) % 64)
Utf8(c) ==
  IF c < 128 THEN <<c>>
  ELSE IF c < 2048 THEN <<192 + c \div 64, Bits(c, 0)>>
  ELSE IF c < 65536 THEN <<224 + c \div 4096, Bits(c, 6), Bits(c, 0)>>
  ELSE <<240 + c \div 262144, Bits(c, 12), Bits(c, 6), Bits(c, 0)>>

IsSurrogate(c) == c \in 55296 .. 57343

\* How many digits each of \u (117) and \x (120) takes at most.
MaxDigits == [kind \in {117, 120} |-> IF kind = 117 THEN 4 ELSE 2]

\* What \u or \x followed by these digits stands for; char::from_u32 refuses a
\* surrogate, and nothing is typed then.
Coded(kind, hex) ==
  CASE hex = <<>> -> <<Backslash, kind>>
    [] hex # <<>> /\ kind = 120 -> <<Value(hex)>>
    [] hex # <<>> /\ kind = 117 /\ ~IsSurrogate(Value(hex)) -> Utf8(Value(hex))
    [] OTHER -> <<>>

\* The hexadecimal digits of t from position i on, at most n of them.
HexFrom(t, i, n) ==
  LET runs == {k \in 0 .. n : i + k <= Len(t) + 1 /\ \A j \in i .. i + k - 1 : IsHex(t[j])}
  IN  SubSeq(t, i, i + Max(runs) - 1)

\* What is typed so far and where in the text the loop of unescape stands.
Goes(s, n, bytes) == [at |-> s.at + n, out |-> s.out \o bytes]

\* One turn of the loop, with at most digits[kind] digits after \u and \x.
Turn(t, digits, s) ==
  IF s.at > Len(t) THEN s
  ELSE IF t[s.at] # Backslash THEN Goes(s, 1, Utf8(t[s.at]))
  ELSE IF s.at = Len(t) THEN Goes(s, 1, <<Backslash>>)
  ELSE LET c == t[s.at + 1]
           hex == HexFrom(t, s.at + 2, digits[c])
       IN  CASE c \in DOMAIN Simple -> Goes(s, 2, <<Simple[c]>>)
             [] c \in DOMAIN digits -> Goes(s, 2 + Len(hex), Coded(c, hex))
             [] OTHER -> Goes(s, 2, <<Backslash>> \o Utf8(c))

\* A turn takes a character at least, so the loop ends within Len(t) turns.
Turns(t, digits) ==
  LET s[k \in 0 .. Len(t)] ==
        IF k = 0 THEN [at |-> 1, out |-> <<>>] ELSE Turn(t, digits, s[k - 1])
  IN  s

UnescapeTaking(t, digits) == Turns(t, digits)[Len(t)].out

\* Mutant of Unescape: \x goes on as long as there are digits, as in C.
UnescapeLikeC(t) == UnescapeTaking(t, [MaxDigits EXCEPT ![120] = 4])

Unescape(t) == UnescapeTaking(t, MaxDigits)
-----------------------------------------------------------------------------
(* The reference: pieces of text and what each of them means.              *)

Plain(c) == [text |-> <<c>>, bytes |-> Utf8(c), full |-> TRUE]
Short(c) == [text |-> <<Backslash, c>>, bytes |-> <<Simple[c]>>, full |-> TRUE]
Other(c) == [text |-> <<Backslash, c>>, bytes |-> <<Backslash>> \o Utf8(c), full |-> TRUE]
Numbered(kind, hex) ==
  [text |-> <<Backslash, kind>> \o hex, bytes |-> Coded(kind, hex),
   full |-> Len(hex) = MaxDigits[kind]]

\* The pieces there are, told from their text.
IsPiece(p) ==
  LET t == p.text
  IN  \/ Len(t) = 1 /\ t[1] \in Nat \ {Backslash} /\ p = Plain(t[1])
      \/ Len(t) = 2 /\ t[2] \in DOMAIN Simple /\ p = Short(t[2])
      \/ /\ Len(t) = 2 /\ t[2] \in Nat \ (DOMAIN Simple \cup DOMAIN MaxDigits)
         /\ p = Other(t[2])
      \/ \E kind \in DOMAIN MaxDigits, n \in 0 .. 4 :
           /\ n <= MaxDigits[kind] /\ Len(t) = n + 2
           /\ \A i \in 3 .. n + 2 : IsHex(t[i])
           /\ p = Numbered(kind, SubSeq(t, 3, n + 2))

\* s is a sequence, whatever its elements are.
IsSequence(s) == Len(s) \in Nat /\ s = [i \in 1 .. Len(s) |-> s[i]]
IsText(pieces) == IsSequence(pieces) /\ \A i \in DOMAIN pieces : IsPiece(pieces[i])

\* A number may have fewer digits only if no digit follows it.
Spells(pieces) ==
  \A i \in 1 .. Len(pieces) - 1 : pieces[i].full \/ ~IsHex(pieces[i + 1].text[1])
TextOf(pieces) == FlattenSeq([i \in DOMAIN pieces |-> pieces[i].text])
Meaning(pieces) == FlattenSeq([i \in DOMAIN pieces |-> pieces[i].bytes])
=============================================================================
