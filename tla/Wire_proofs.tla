----------------------------- MODULE Wire_proofs -----------------------------
(***************************************************************************)
(* Theorems about the messages, for every size of u16, every message whose *)
(* fields are of their types, whatever a foreign peer sends and wherever   *)
(* the connection is cut, and about every text that stuff is given.        *)
(***************************************************************************)
EXTENDS Wire, Recursion, SequenceTheorems

-----------------------------------------------------------------------------
(* Sequences put together and taken apart.                                 *)

LEMMA SequenceOf ==
  ASSUME NEW S, NEW s, IsSequence(s), \A i \in 1 .. Len(s) : s[i] \in S
  PROVE  s \in Seq(S)
<1>1. Len(s) \in Nat /\ s = [i \in 1 .. Len(s) |-> s[i]] BY DEF IsSequence
<1>2. s \in [1 .. Len(s) -> S] BY <1>1
<1> QED BY <1>1, <1>2, SeqDef

LEMMA SequenceIs ==
  ASSUME NEW S, NEW s \in Seq(S)
  PROVE  IsSequence(s)
BY LenProperties DEF IsSequence

\* A function from 1 to n is a sequence.
LEMMA Enumerated ==
  ASSUME NEW S, NEW n \in Nat, NEW s \in [1 .. n -> S]
  PROVE  s \in Seq(S) /\ Len(s) = n
<1>1. s \in Seq(S) BY SeqDef
<1>2. DOMAIN s = 1 .. Len(s) /\ Len(s) \in Nat /\ DOMAIN s = 1 .. n BY <1>1, LenProperties
<1> QED BY <1>1, <1>2

LEMMA Empty ==
  ASSUME NEW S, NEW s \in Seq(S), Len(s) = 0
  PROVE  s = <<>>
BY EmptySeq

\* What follows s in s \o t.
LEMMA Halves ==
  ASSUME NEW S, NEW s \in Seq(S), NEW t \in Seq(S)
  PROVE  /\ SubSeq(s \o t, 1, Len(s)) = s
         /\ SubSeq(s \o t, Len(s) + 1, Len(s \o t)) = t
<1> DEFINE u == s \o t
           n == Len(s)
           m == Len(t)
<1>1. /\ u \in Seq(S) /\ Len(u) = n + m /\ n \in Nat /\ m \in Nat
      /\ \A i \in 1 .. n + m : u[i] = IF i <= n THEN s[i] ELSE t[i - n]
  BY ConcatProperties, LenProperties
<1>2. \A i \in 1 .. n + m : u[i] \in S BY <1>1, ElementOfSeq
<1> HIDE DEF u, n, m
<1>3. SubSeq(u, 1, n) = s
  <2>1. \A i \in 1 .. n : u[i] \in S BY <1>1, <1>2
  <2>2. /\ SubSeq(u, 1, n) \in Seq(S) /\ Len(SubSeq(u, 1, n)) = IF 1 <= n THEN n - 1 + 1 ELSE 0
        /\ \A i \in 1 .. n - 1 + 1 : SubSeq(u, 1, n)[i] = u[1 + i - 1]
    BY <1>1, <2>1, SubSeqProperties
  <2>3. Len(SubSeq(u, 1, n)) = n BY <1>1, <2>2
  <2>4. \A i \in 1 .. n : SubSeq(u, 1, n)[i] = s[i] BY <1>1, <2>2
  <2> QED BY <2>2, <2>3, <2>4, SeqEqual DEF n
<1>4. SubSeq(u, n + 1, n + m) = t
  <2>1. \A i \in n + 1 .. n + m : u[i] \in S BY <1>1, <1>2
  <2>2. /\ SubSeq(u, n + 1, n + m) \in Seq(S)
        /\ Len(SubSeq(u, n + 1, n + m)) = IF n + 1 <= n + m THEN n + m - (n + 1) + 1 ELSE 0
        /\ \A i \in 1 .. n + m - (n + 1) + 1 :
             SubSeq(u, n + 1, n + m)[i] = u[n + 1 + i - 1]
    BY <1>1, <2>1, SubSeqProperties
  <2>3. Len(SubSeq(u, n + 1, n + m)) = m BY <1>1, <2>2
  <2>4. \A i \in 1 .. m : SubSeq(u, n + 1, n + m)[i] = t[i] BY <1>1, <2>2
  <2> QED BY <2>2, <2>3, <2>4, SeqEqual DEF m
<1> QED BY <1>1, <1>3, <1>4 DEF u, n, m

\* The first n of a sequence and the rest of it.
LEMMA Cut ==
  ASSUME NEW S, NEW s \in Seq(S), NEW n \in 0 .. Len(s)
  PROVE  /\ SubSeq(s, 1, n) \in Seq(S) /\ Len(SubSeq(s, 1, n)) = n
         /\ SubSeq(s, n + 1, Len(s)) \in Seq(S)
         /\ s = SubSeq(s, 1, n) \o SubSeq(s, n + 1, Len(s))
<1> DEFINE m == Len(s)
<1>1. m \in Nat /\ n \in Nat /\ n <= m BY LenProperties
<1>2. \A i \in 1 .. m : s[i] \in S BY ElementOfSeq
<1> HIDE DEF m
<1>3. /\ SubSeq(s, 1, n) \in Seq(S)
      /\ Len(SubSeq(s, 1, n)) = IF 1 <= n THEN n - 1 + 1 ELSE 0
  <2>1. \A i \in 1 .. n : s[i] \in S BY <1>1, <1>2
  <2> QED BY <1>1, <2>1, SubSeqProperties
<1>4. SubSeq(s, n + 1, m) \in Seq(S)
  <2>1. \A i \in n + 1 .. m : s[i] \in S BY <1>1, <1>2
  <2> QED BY <1>1, <2>1, SubSeqProperties
<1>5. SubSeq(s, 1, n) \o SubSeq(s, n + 1, m) = SubSeq(s, 1, m)
  <2>1. 1 \in 1 .. m + 1 /\ n \in 1 - 1 .. m /\ m \in n .. m BY <1>1
  <2> QED BY <2>1, ConcatAdjacentSubSeq DEF m
<1>6. SubSeq(s, 1, m) = s BY SubSeqFull DEF m
<1>7. Len(SubSeq(s, 1, n)) = n BY <1>1, <1>3
<1> QED BY <1>3, <1>4, <1>5, <1>6, <1>7 DEF m

LEMMA Regroup ==
  ASSUME NEW S, NEW s \in Seq(S), NEW t \in Seq(S), NEW u \in Seq(S)
  PROVE  (s \o t) \o u = s \o (t \o u)
BY ConcatAssociative

LEMMA First ==
  ASSUME NEW S, NEW x \in S, NEW s \in Seq(S)
  PROVE  LET t == <<x>> \o s
         IN  t \in Seq(S) /\ t # <<>> /\ Head(t) = x /\ Tail(t) = s
<1> DEFINE a == <<x>>
           t == a \o s
<1>1. a \in Seq(S) /\ Len(a) = 1 /\ a[1] = x OBVIOUS
<1> HIDE DEF a
<1>2. /\ t \in Seq(S) /\ Len(t) = Len(a) + Len(s) /\ Len(s) \in Nat
      /\ \A i \in 1 .. Len(a) + Len(s) : t[i] = IF i <= Len(a) THEN a[i] ELSE s[i - Len(a)]
  BY <1>1, ConcatProperties, LenProperties
<1> HIDE DEF t
<1>3. Len(t) = Len(s) + 1 /\ t # <<>> BY <1>1, <1>2, EmptySeq
<1>4. t[1] = x BY <1>1, <1>2
<1>5. Head(t) = x BY <1>4
<1>6. Tail(t) = s
  <2>1. /\ Tail(t) \in Seq(S) /\ Len(Tail(t)) = Len(t) - 1
        /\ \A i \in 1 .. Len(Tail(t)) : Tail(t)[i] = t[i + 1]
    BY <1>2, <1>3, HeadTailProperties
  <2>2. Len(Tail(t)) = Len(s) BY <1>2, <1>3, <2>1
  <2>3. \A i \in 1 .. Len(s) : t[i + 1] = s[i] BY <1>1, <1>2
  <2>4. \A i \in 1 .. Len(Tail(t)) : Tail(t)[i] = s[i] BY <2>1, <2>2, <2>3
  <2> QED BY <2>1, <2>2, <2>4, SeqEqual
<1> QED BY <1>2, <1>3, <1>5, <1>6 DEF t, a

-----------------------------------------------------------------------------
(* FlattenSeq, forwards and backwards.                                     *)

\* What the first parts make, one after the other.
Joined(parts) ==
  LET j[i \in 0 .. Len(parts)] == IF i = 0 THEN <<>> ELSE j[i - 1] \o parts[i]
  IN  j

LEMMA Joining ==
  ASSUME NEW B, NEW parts \in Seq(Seq(B))
  PROVE  /\ Joined(parts) \in [0 .. Len(parts) -> Seq(B)]
         /\ Joined(parts)[0] = <<>>
         /\ \A i \in 1 .. Len(parts) : Joined(parts)[i] = Joined(parts)[i - 1] \o parts[i]
<1> DEFINE n == Len(parts)
           D == Seq(B)
           base == <<>>
           step == [p \in (1 .. n) \X D |-> p[2] \o parts[p[1]]]
           Is(f) == f = [i \in 0 .. n |-> IF i = 0 THEN base ELSE f[i - 1] \o parts[i]]
<1>1. n \in Nat /\ \A i \in 1 .. n : parts[i] \in D BY LenProperties, ElementOfSeq
<1>2. base \in D OBVIOUS
<1>3. \A u, v \in D : u \o v \in D BY ConcatProperties
<1> HIDE DEF n, D
<1>4. step \in Steps(1 .. n, D) BY <1>1, <1>3 DEF Steps
<1> HIDE DEF base, step
<1>5. PICK f \in [0 .. n -> D] : Follows(f, n, base, step)
  <2>1. n \in Nat BY <1>1
  <2> QED BY <1>2, <1>4, <2>1, Following
<1>6. ASSUME NEW i \in 1 .. n PROVE f[i] = f[i - 1] \o parts[i]
  <2>1. i - 1 \in 0 .. n BY <1>1
  <2>2. f[i - 1] \in D BY <1>5, <2>1
  <2>3. step[<<i, f[i - 1]>>] = f[i - 1] \o parts[i] BY <2>2 DEF step
  <2> QED BY <1>5, <2>3 DEF Follows
<1>7. Is(f)
  <2>1. \A i \in 0 .. n : i = 0 \/ i \in 1 .. n OBVIOUS
  <2> QED BY <1>5, <1>6, <2>1 DEF Follows
<1>8. Joined(parts) = CHOOSE g : Is(g) BY DEF Joined, n, base
<1>9. Is(Joined(parts))
  <2> HIDE DEF Is
  <2> QED BY <1>7, <1>8
<1> DEFINE F == Joined(parts)
<1> HIDE DEF F
<1>10. Is(F) BY <1>9 DEF F
<1>11. F[0] = base /\ \A i \in 1 .. n : F[i] = F[i - 1] \o parts[i]
  <2>1. \A i \in 1 .. n : i \in 0 .. n /\ i # 0 BY <1>1
  <2>2. 0 \in 0 .. n BY <1>1
  <2> QED BY <1>10, <2>1, <2>2 DEF Is
<1> DEFINE T == {i \in 0 .. n : F[i] \in D}
<1>12. 0 \in T BY <1>1, <1>2, <1>11
<1>13. ASSUME NEW i \in 0 .. n - 1, i \in T PROVE i + 1 \in T
  <2>1. i + 1 \in 1 .. n /\ (i + 1) - 1 = i /\ i + 1 \in 0 .. n BY <1>1
  <2>2. F[i + 1] = F[i] \o parts[i + 1] BY <1>11, <2>1
  <2> QED BY <1>1, <1>3, <1>13, <2>1, <2>2
<1>14. 0 .. n \subseteq T
  <2> HIDE DEF T
  <2> QED BY <1>1, <1>12, <1>13, InductionTo
<1>15. F \in [0 .. n -> D] BY <1>10, <1>14 DEF Is
<1> QED BY <1>11, <1>15 DEF F, n, D, base

\* The last of them is all of them.
LEMMA Flattened ==
  ASSUME NEW B, NEW parts \in Seq(Seq(B))
  PROVE  /\ FlattenSeq(parts) = Joined(parts)[Len(parts)]
         /\ FlattenSeq(parts) \in Seq(B)
<1> DEFINE n == Len(parts)
           J == Joined(parts)
           Is(f) == f = [i \in 1 .. n |-> IF i = 1 THEN parts[i] ELSE f[i - 1] \o parts[i]]
<1>1. /\ J \in [0 .. n -> Seq(B)] /\ J[0] = <<>>
      /\ \A i \in 1 .. n : J[i] = J[i - 1] \o parts[i]
  BY Joining
<1>2. n \in Nat /\ \A i \in 1 .. n : parts[i] \in Seq(B) BY LenProperties, ElementOfSeq
<1>3. CASE n = 0
  <2>1. parts = <<>> BY <1>3, Empty
  <2> QED BY <1>1, <1>2, <1>3, <2>1 DEF FlattenSeq
<1>4. CASE n # 0
  <2> HIDE DEF J
  <2> DEFINE f == [i \in 1 .. n |-> J[i]]
  <2>1. ASSUME NEW i \in 1 .. n PROVE f[i] = IF i = 1 THEN parts[i] ELSE f[i - 1] \o parts[i]
    <3>1. f[i] = J[i - 1] \o parts[i] BY <1>1
    <3>2. CASE i = 1
      <4>1. <<>> \o parts[1] = parts[1] BY <1>2, <3>2, ConcatEmptySeq
      <4>2. J[i - 1] = <<>> BY <1>1, <3>2
      <4> QED BY <3>1, <3>2, <4>1, <4>2
    <3>3. CASE i # 1
      <4>1. i - 1 \in 1 .. n BY <1>2, <3>3
      <4>2. f[i - 1] = J[i - 1] BY <4>1
      <4> QED BY <3>1, <3>3, <4>2
    <3> QED BY <3>2, <3>3
  <2>2. Is(f) BY <2>1
  <2>3. FlattenSeq(parts) = (CHOOSE g : Is(g))[n] BY <1>4 DEF FlattenSeq
  <2> DEFINE F == CHOOSE g : Is(g)
  <2>4. Is(F)
    <3> HIDE DEF Is
    <3> QED BY <2>2
  <2> HIDE DEF F
  <2>5. \A i \in 1 .. n : F[i] = IF i = 1 THEN parts[i] ELSE F[i - 1] \o parts[i]
    BY <2>4 DEF Is
  <2> DEFINE T == {i \in 0 .. n : i # 0 => F[i] = J[i]}
  <2>6. 0 \in T BY <1>2
  <2>7. ASSUME NEW i \in 0 .. n - 1, i \in T PROVE i + 1 \in T
    <3>1. i + 1 \in 1 .. n /\ (i + 1) - 1 = i /\ i + 1 \in 0 .. n BY <1>2
    <3>2. J[i + 1] = J[i] \o parts[i + 1] BY <1>1, <3>1
    <3>3. /\ i + 1 = 1 => F[i + 1] = parts[i + 1]
          /\ i + 1 # 1 => F[i + 1] = F[i] \o parts[i + 1]
      BY <2>5, <3>1
    <3>4. CASE i = 0
      <4>1. <<>> \o parts[1] = parts[1] BY <1>2, <3>1, <3>4, ConcatEmptySeq
      <4>2. J[1] = parts[1]
        <5>1. 1 \in 1 .. n /\ 1 - 1 = 0 BY <3>1, <3>4
        <5>2. J[1] = J[1 - 1] \o parts[1] BY <1>1, <5>1
        <5> QED BY <1>1, <4>1, <5>1, <5>2
      <4>3. F[1] = parts[1] BY <3>3, <3>4
      <4> QED BY <3>1, <3>4, <4>2, <4>3
    <3>5. CASE i # 0
      <4>0. i + 1 # 1 BY <3>5
      <4>1. F[i + 1] = F[i] \o parts[i + 1] BY <3>3, <4>0
      <4>2. F[i] = J[i] BY <2>7, <3>5
      <4> QED BY <3>1, <3>2, <4>1, <4>2
    <3> QED BY <3>4, <3>5
  <2>8. 0 .. n \subseteq T
    <3> HIDE DEF T
    <3> QED BY <1>2, <2>6, <2>7, InductionTo
  <2>9. n \in 0 .. n BY <1>2
  <2>10. F[n] = J[n] BY <1>4, <2>8, <2>9
  <2>11. FlattenSeq(parts) = F[n] BY <2>3 DEF F
  <2> QED BY <1>1, <2>9, <2>10, <2>11 DEF J
<1> QED BY <1>3, <1>4

\* Rests from each of which a part is taken, and what is left then is the next:
\* the first of them is all the parts and the last rest.
LEMMA Taken ==
  ASSUME NEW B, NEW parts \in Seq(Seq(B)), NEW rests \in [0 .. Len(parts) -> Seq(B)],
         \A i \in 1 .. Len(parts) : rests[i - 1] = parts[i] \o rests[i]
  PROVE  rests[0] = FlattenSeq(parts) \o rests[Len(parts)]
<1> DEFINE n == Len(parts)
           J == Joined(parts)
           T == {i \in 0 .. n : rests[0] = J[i] \o rests[i]}
<1>1. /\ J \in [0 .. n -> Seq(B)] /\ J[0] = <<>>
      /\ \A i \in 1 .. n : J[i] = J[i - 1] \o parts[i]
  BY Joining
<1>2. n \in Nat /\ \A i \in 1 .. n : parts[i] \in Seq(B) BY LenProperties, ElementOfSeq
<1>3. FlattenSeq(parts) = J[n] BY Flattened
<1> HIDE DEF J
<1>4. 0 \in T
  <2>1. 0 \in 0 .. n BY <1>2
  <2>2. <<>> \o rests[0] = rests[0] BY <2>1, ConcatEmptySeq
  <2> QED BY <1>1, <2>1, <2>2
<1>5. ASSUME NEW i \in 0 .. n - 1, i \in T PROVE i + 1 \in T
  <2>1. i + 1 \in 1 .. n /\ (i + 1) - 1 = i /\ i + 1 \in 0 .. n /\ i \in 0 .. n BY <1>2
  <2>2. rests[i] = parts[i + 1] \o rests[i + 1] BY <2>1
  <2>3. J[i + 1] = J[i] \o parts[i + 1] BY <1>1, <2>1
  <2>4. (J[i] \o parts[i + 1]) \o rests[i + 1] = J[i] \o (parts[i + 1] \o rests[i + 1])
    <3> DEFINE u == J[i]
               v == parts[i + 1]
               w == rests[i + 1]
    <3>1. u \in Seq(B) /\ v \in Seq(B) /\ w \in Seq(B) BY <1>1, <1>2, <2>1
    <3> HIDE DEF u, v, w
    <3>2. (u \o v) \o w = u \o (v \o w) BY <3>1, Regroup, SMTT(30)
    <3> QED BY <3>2 DEF u, v, w
  <2>5. rests[0] = J[i] \o rests[i] BY <1>5
  <2> QED BY <2>1, <2>2, <2>3, <2>4, <2>5
<1>6. 0 .. n \subseteq T
  <2> HIDE DEF T, n
  <2> QED BY <1>2, <1>4, <1>5, InductionTo
<1>7. n \in T BY <1>2, <1>6
<1> QED BY <1>3, <1>7

\* And there are such rests, whatever follows the parts.
Leave(rests, parts, tail) ==
  /\ rests[0] = FlattenSeq(parts) \o tail /\ rests[Len(parts)] = tail
  /\ \A i \in 1 .. Len(parts) : rests[i - 1] = parts[i] \o rests[i]

LEMMA Rests ==
  ASSUME NEW B, NEW parts \in Seq(Seq(B)), NEW tail \in Seq(B)
  PROVE  \E rests \in [0 .. Len(parts) -> Seq(B)] : Leave(rests, parts, tail)
<1> DEFINE n == Len(parts)
           D == Seq(B)
           step == [p \in (1 .. n) \X D |-> parts[n + 1 - p[1]] \o p[2]]
<1>1. n \in Nat /\ \A i \in 1 .. n : parts[i] \in D BY LenProperties, ElementOfSeq
<1>2. \A u, v \in D : u \o v \in D BY ConcatProperties
<1> HIDE DEF n
<1>3. step \in Steps(1 .. n, D)
  <2>1. \A i \in 1 .. n : n + 1 - i \in 1 .. n BY <1>1
  <2> HIDE DEF D
  <2> QED BY <1>1, <1>2, <2>1 DEF Steps
<1>4. tail \in D OBVIOUS
<1> HIDE DEF D, step
<1>5. PICK f \in [0 .. n -> D] : Follows(f, n, tail, step)
  <2>1. n \in Nat BY <1>1
  <2> QED BY <1>3, <1>4, <2>1, Following
<1> DEFINE rests == [i \in 0 .. n |-> f[n - i]]
<1>6. \A i \in 0 .. n : n - i \in 0 .. n BY <1>1
<1>7. rests \in [0 .. n -> D] BY <1>5, <1>6
<1>8. rests[n] = tail BY <1>1, <1>5 DEF Follows
<1>9. ASSUME NEW i \in 1 .. n PROVE rests[i - 1] = parts[i] \o rests[i]
  <2> DEFINE k == n + 1 - i
  <2>1. /\ k \in 1 .. n /\ k - 1 \in 0 .. n /\ n + 1 - k = i /\ n - (i - 1) = k /\ n - i = k - 1
        /\ i - 1 \in 0 .. n /\ i \in 0 .. n
    BY <1>1
  <2> HIDE DEF k
  <2>2. rests[i - 1] = f[k] /\ rests[i] = f[k - 1] BY <2>1
  <2>3. f[k] = step[<<k, f[k - 1]>>] /\ f[k - 1] \in D BY <1>5, <2>1 DEF Follows
  <2>4. step[<<k, f[k - 1]>>] = parts[i] \o f[k - 1] BY <2>1, <2>3 DEF step
  <2> QED BY <2>2, <2>3, <2>4
<1> HIDE DEF rests
<1>10. rests[0] = FlattenSeq(parts) \o rests[n] BY <1>7, <1>9, Taken DEF n, D
<1> QED BY <1>7, <1>8, <1>9, <1>10 DEF n, D, Leave

-----------------------------------------------------------------------------
(* The cursor and the fields that are no lists.                            *)

PlainTypes == {"int", "flag", "opt", "str", "text", "raw", "content"}
PlainValues(B) == B \cup Seq(B) \cup {Absent} \cup {0, 1}
Cursors(B, S) == [ok : BOOLEAN, rest : Seq(B), got : Seq(S)]

\* Whether the length of a field that is no list can be told by its u16.
FitsPlain(type, v) ==
  /\ type = "opt" => v = Absent \/ Len(v) < W - 1
  /\ type = "str" => Len(v) < W

\* Whether part, which is made of cells, is what v is read from: what it is
\* written as, but that a flag is read from other bytes, too.
Spelt(type, v, part) ==
  IF type = "flag" THEN \E x \in Cells : part = <<x>> /\ AsFlag(x) = v
  ELSE part = PlainField(type, v)

\* From cur to c the value v is read, which part stands for.
Reads(cur, c, v, part) ==
  cur.ok /\ c.ok /\ cur.rest = part \o c.rest /\ c.got = Append(cur.got, v)

LEMMA SmallCell ==
  ASSUME NEW n \in Cells
  PROVE  n \in Nat /\ n % W = n
BY WireAssumption DEF Cells

LEMMA LengthCell ==
  ASSUME NEW n \in Nat
  PROVE  n % W \in Cells
BY WireAssumption DEF Cells

LEMMA CursorShape ==
  ASSUME NEW B, NEW S, NEW cur \in Cursors(B, S)
  PROVE  /\ cur.ok \in BOOLEAN /\ cur.rest \in Seq(B) /\ cur.got \in Seq(S)
         /\ cur = [ok |-> cur.ok, rest |-> cur.rest, got |-> cur.got]
         /\ Len(cur.rest) \in Nat
BY DEF Cursors

LEMMA BadType ==
  ASSUME NEW B, NEW S, NEW cur \in Cursors(B, S)
  PROVE  Bad(cur) \in Cursors(B, S) /\ ~Bad(cur).ok
BY DEF Cursors, Bad

LEMMA TakeType ==
  ASSUME NEW B, NEW S, NEW cur \in Cursors(B, S), NEW v \in S,
         NEW n \in 0 .. Len(cur.rest)
  PROVE  LET rest == SubSeq(cur.rest, n + 1, Len(cur.rest))
         IN  /\ TakeAs(cur, n, v) = [ok |-> cur.ok, rest |-> rest, got |-> Append(cur.got, v)]
             /\ TakeAs(cur, n, v) \in Cursors(B, S)
<1> DEFINE rest == SubSeq(cur.rest, n + 1, Len(cur.rest))
           s == cur.rest
<1>1. s \in Seq(B) /\ cur.got \in Seq(S) /\ cur.ok \in BOOLEAN BY DEF Cursors
<1>2. rest \in Seq(B)
  <2>1. n \in 0 .. Len(s) OBVIOUS
  <2> HIDE DEF s
  <2>2. SubSeq(s, n + 1, Len(s)) \in Seq(B) BY <1>1, <2>1, Cut
  <2> QED BY <2>2 DEF s
<1>3. TakeAs(cur, n, v) = [ok |-> cur.ok, rest |-> rest, got |-> Append(cur.got, v)]
  BY DEF TakeAs
<1>4. Append(cur.got, v) \in Seq(S) BY <1>1, AppendProperties
<1> HIDE DEF rest
<1>5. TakeAs(cur, n, v) \in Cursors(B, S) BY <1>1, <1>2, <1>3, <1>4 DEF Cursors
<1> QED BY <1>3, <1>5 DEF rest

\* The first n cells are read as themselves.
LEMMA TakeReads ==
  ASSUME NEW B, NEW S, Seq(B) \subseteq S, NEW cur \in Cursors(B, S), cur.ok,
         NEW n \in 0 .. Len(cur.rest)
  PROVE  LET s == SubSeq(cur.rest, 1, n)
             c == TakeAs(cur, n, s)
         IN  s \in Seq(B) /\ Len(s) = n /\ c \in Cursors(B, S) /\ Reads(cur, c, s, s)
<1> DEFINE r == cur.rest
           s == SubSeq(r, 1, n)
           u == SubSeq(r, n + 1, Len(r))
<1>1. r \in Seq(B) /\ n \in 0 .. Len(r) BY DEF Cursors
<1> HIDE DEF r
<1>2. s \in Seq(B) /\ Len(s) = n /\ r = s \o u BY <1>1, Cut
<1> HIDE DEF s, u
<1>3. s \in S BY <1>2
<1>4. /\ TakeAs(cur, n, s) = [ok |-> cur.ok, rest |-> u, got |-> Append(cur.got, s)]
      /\ TakeAs(cur, n, s) \in Cursors(B, S)
  <2>1. n \in 0 .. Len(cur.rest) OBVIOUS
  <2> QED BY <1>3, <2>1, TakeType DEF r, u
<1>5. Reads(cur, TakeAs(cur, n, s), s, s) BY <1>2, <1>4 DEF Reads, r
<1> QED BY <1>2, <1>4, <1>5 DEF r, s

LEMMA ReadTextReads ==
  ASSUME NEW B, NEW S, Seq(B) \subseteq S, NEW cur \in Cursors(B, S), cur.ok, NEW n \in Nat
  PROVE  LET c == ReadText(cur, n)
         IN  /\ c \in Cursors(B, S)
             /\ c.ok => \E s \in Seq(B) : Valid(s) /\ Len(s) = n /\ Reads(cur, c, s, s)
<1> DEFINE s == SubSeq(cur.rest, 1, n)
           c == ReadText(cur, n)
<1>1. CASE n <= Len(cur.rest) /\ Valid(s)
  <2>1. c = TakeAs(cur, n, s) BY <1>1 DEF ReadText
  <2>2. n \in 0 .. Len(cur.rest) BY <1>1, CursorShape
  <2>3. s \in Seq(B) /\ Len(s) = n /\ c \in Cursors(B, S) /\ Reads(cur, c, s, s)
    <3> HIDE DEF c
    <3> QED BY <2>1, <2>2, TakeReads
  <2> HIDE DEF s, c
  <2>4. Valid(s) BY <1>1
  <2> QED BY <2>3, <2>4 DEF c
<1>2. CASE ~(n <= Len(cur.rest) /\ Valid(s))
  <2>1. c = Bad(cur) BY <1>2 DEF ReadText
  <2> QED BY <2>1, BadType
<1> QED BY <1>1, <1>2

\* A cell and what follows it.
LEMMA SkipReads ==
  ASSUME NEW B, NEW S, NEW cur \in Cursors(B, S), cur.rest # <<>>
  PROVE  /\ Skip(cur) \in Cursors(B, S) /\ Length(cur) \in B
         /\ Skip(cur).ok = cur.ok /\ Skip(cur).got = cur.got
         /\ cur.rest = <<Length(cur)>> \o Skip(cur).rest
<1> DEFINE r == cur.rest
           h == Head(r)
           t == Tail(r)
<1>1. r \in Seq(B) /\ r # <<>> BY DEF Cursors
<1> HIDE DEF r
<1>2. h \in B /\ t \in Seq(B) BY <1>1, HeadTailProperties
<1>3. r = <<h>> \o t
  <2>1. 1 \in 1 .. Len(r) /\ Len(r) \in 1 .. Len(r) BY <1>1, EmptySeq
  <2>2. SubSeq(r, 1, Len(r)) = <<r[1]>> \o SubSeq(r, 2, Len(r))
    BY <1>1, <2>1, SubSeqRecursiveFirst
  <2>3. SubSeq(r, 1, Len(r)) = r BY <1>1, SubSeqFull
  <2>4. t = SubSeq(r, 2, Len(r)) BY <1>1, TailIsSubSeq
  <2>5. h = r[1] BY <1>1
  <2> QED BY <2>2, <2>3, <2>4, <2>5
<1>4. Skip(cur) = [cur EXCEPT !.rest = t] BY DEF Skip, r
<1> HIDE DEF t, h
<1>5. Skip(cur) \in Cursors(B, S) /\ Skip(cur).rest = t
      /\ Skip(cur).ok = cur.ok /\ Skip(cur).got = cur.got
  BY <1>2, <1>4 DEF Cursors
<1>6. Length(cur) = h BY DEF Length, h, r
<1> QED BY <1>2, <1>3, <1>5, <1>6 DEF r

LEMMA ReadStrReads ==
  ASSUME NEW B \in SUBSET Nat, NEW S, Seq(B) \subseteq S, NEW cur \in Cursors(B, S), cur.ok
  PROVE  LET c == ReadStr(cur)
         IN  /\ c \in Cursors(B, S)
             /\ c.ok => /\ cur.rest # <<>> /\ Length(cur) \in B
                        /\ \E s \in Seq(B) : /\ Valid(s) /\ Len(s) = Length(cur)
                                             /\ Reads(cur, c, s, <<Length(cur)>> \o s)
<1> DEFINE c == ReadStr(cur)
<1>1. CASE cur.rest = <<>> BY <1>1, BadType DEF ReadStr
<1>2. CASE cur.rest # <<>>
  <2> DEFINE n == Length(cur)
             skip == Skip(cur)
  <2>1. /\ skip \in Cursors(B, S) /\ n \in B /\ n \in Nat
        /\ skip.ok /\ skip.got = cur.got /\ cur.rest = <<n>> \o skip.rest
    <3>1. /\ skip \in Cursors(B, S) /\ n \in B /\ skip.ok = cur.ok
          /\ skip.got = cur.got /\ cur.rest = <<n>> \o skip.rest
      BY <1>2, SkipReads
    <3> HIDE DEF n, skip
    <3> QED BY <3>1
  <2>2. c = ReadText(skip, n) BY <1>2 DEF ReadStr
  <2> HIDE DEF n, skip
  <2>3. /\ c \in Cursors(B, S)
        /\ c.ok => \E s \in Seq(B) : Valid(s) /\ Len(s) = n /\ Reads(skip, c, s, s)
    <3> HIDE DEF c
    <3> QED BY <2>1, <2>2, ReadTextReads
  <2>4. ASSUME NEW s \in Seq(B), Reads(skip, c, s, s) PROVE Reads(cur, c, s, <<n>> \o s)
    <3> DEFINE a == <<n>>
               u == c.rest
    <3>1. a \in Seq(B) /\ u \in Seq(B) BY <2>1, <2>3 DEF Cursors
    <3>2. cur.rest = a \o (s \o u) BY <2>1, <2>4 DEF Reads
    <3> HIDE DEF a, u
    <3>3. (a \o s) \o u = a \o (s \o u) BY <3>1, Regroup
    <3>4. cur.rest = (a \o s) \o u BY <3>2, <3>3
    <3> QED BY <2>1, <2>4, <3>4 DEF Reads, a, u
  <2> HIDE DEF c
  <2>5. c.ok => \E s \in Seq(B) : /\ Valid(s) /\ Len(s) = n /\ Reads(cur, c, s, <<n>> \o s)
    BY <2>3, <2>4
  <2> QED BY <1>2, <2>1, <2>3, <2>5 DEF c, n
<1> QED BY <1>1, <1>2

\* Whatever the next cell is read as.
LEMMA TakeOneReads ==
  ASSUME NEW B, NEW S, NEW cur \in Cursors(B, S), cur.ok, cur.rest # <<>>, NEW v \in S
  PROVE  /\ Length(cur) \in B /\ TakeAs(cur, 1, v) \in Cursors(B, S)
         /\ Reads(cur, TakeAs(cur, 1, v), v, <<Length(cur)>>)
<1> DEFINE r == cur.rest
           n == Len(r)
           one == 1
           u == SubSeq(r, one + 1, n)
           c == TakeAs(cur, one, v)
<1>1. r \in Seq(B) /\ r # <<>> BY DEF Cursors
<1>2. n \in Nat \ {0}
  <2> HIDE DEF r
  <2> QED BY <1>1, EmptySeq
<1>3. one \in 0 .. n BY <1>2
<1> HIDE DEF one
<1>4. c \in Cursors(B, S) /\ c = [ok |-> cur.ok, rest |-> u, got |-> Append(cur.got, v)]
  BY <1>3, TakeType
<1>5. r = <<Length(cur)>> \o u
  <2>1. r = <<Length(cur)>> \o Skip(cur).rest /\ Length(cur) \in B BY SkipReads
  <2>2. Skip(cur).rest = Tail(r) BY DEF Skip, Cursors
  <2>3. one + 1 = 2 BY DEF one
  <2> HIDE DEF r
  <2>4. Tail(r) = u BY <1>1, <2>3, TailIsSubSeq
  <2> QED BY <2>1, <2>2, <2>4
<1>6. Length(cur) \in B BY SkipReads
<1> HIDE DEF u, c
<1>7. Reads(cur, c, v, <<Length(cur)>>) BY <1>4, <1>5 DEF Reads
<1> QED BY <1>4, <1>6, <1>7 DEF c, one

\* What is read in a field's place is a value of its type. Among cells the
\* value is what was written there, and its length could be told.
LEMMA ReadPlainReads ==
  ASSUME NEW B \in SUBSET Nat, NEW S, PlainValues(B) \subseteq S,
         NEW cur \in Cursors(B, S), NEW type \in PlainTypes
  PROVE  LET c == ReadPlain(cur, type)
         IN  /\ c \in Cursors(B, S)
             /\ c.ok => \E v \in PlainValues(B), part \in Seq(B) :
                          /\ HasPlainType(type, v, B) /\ Reads(cur, c, v, part)
                          /\ B = Cells => FitsPlain(type, v) /\ Spelt(type, v, part)
<1> DEFINE c == ReadPlain(cur, type)
           n == Len(cur.rest)
           Right(v, part) ==
             /\ HasPlainType(type, v, B) /\ Reads(cur, c, v, part)
             /\ B = Cells => FitsPlain(type, v) /\ Spelt(type, v, part)
           Goal == /\ c \in Cursors(B, S)
                   /\ c.ok => \E v \in PlainValues(B), part \in Seq(B) : Right(v, part)
<1> SUFFICES Goal OBVIOUS
<1>1. /\ Seq(B) \subseteq S /\ B \subseteq S /\ Absent \in S
      /\ Seq(B) \subseteq PlainValues(B) /\ B \subseteq PlainValues(B)
      /\ Absent \in PlainValues(B)
  BY DEF PlainValues
<1>2. n \in Nat /\ cur.rest \in Seq(B) BY CursorShape
<1>3. CASE ~cur.ok
  <2>1. c = cur BY <1>3 DEF ReadPlain
  <2> QED BY <1>3, <2>1
<1>4. CASE cur.ok /\ type = "int"
  <2>1. CASE cur.rest = <<>>
    <3>1. c = Bad(cur) BY <1>4, <2>1 DEF ReadPlain
    <3> QED BY <3>1, BadType
  <2>2. CASE cur.rest # <<>>
    <3> DEFINE h == Length(cur)
    <3>1. c = TakeAs(cur, 1, h) BY <1>4, <2>2 DEF ReadPlain, Length
    <3>2. h \in B BY <2>2, SkipReads
    <3>3. c \in Cursors(B, S) /\ Reads(cur, c, h, <<h>>)
      <4>1. h \in S BY <1>1, <3>2
      <4> HIDE DEF c
      <4> QED BY <1>4, <2>2, <3>1, <4>1, TakeOneReads
    <3> HIDE DEF c, h
    <3>4. HasPlainType(type, h, B) /\ FitsPlain(type, h) /\ Spelt(type, h, <<h>>)
      BY <1>4, <3>2 DEF HasPlainType, FitsPlain, PlainField, Spelt
    <3>5. h \in PlainValues(B) /\ <<h>> \in Seq(B) BY <1>1, <3>2
    <3>6. Right(h, <<h>>) BY <3>3, <3>4
    <3> HIDE DEF Right
    <3> QED BY <3>3, <3>5, <3>6
  <2> QED BY <2>1, <2>2
<1>12. CASE cur.ok /\ type = "flag"
  <2>1. CASE cur.rest = <<>>
    <3>1. c = Bad(cur) BY <1>12, <2>1 DEF ReadPlain
    <3> QED BY <3>1, BadType
  <2>2. CASE cur.rest # <<>>
    <3> DEFINE h == Length(cur)
               f == AsFlag(h)
    <3>1. c = TakeAs(cur, 1, f) BY <1>12, <2>2 DEF ReadPlain, Length
    <3>2. h \in B /\ f \in {0, 1} BY <2>2, SkipReads DEF AsFlag
    <3>3. f \in PlainValues(B) /\ <<h>> \in Seq(B) BY <3>2 DEF PlainValues
    <3>4. c \in Cursors(B, S) /\ Reads(cur, c, f, <<h>>)
      <4>1. f \in S BY <3>3
      <4> HIDE DEF c, f
      <4> QED BY <1>12, <2>2, <3>1, <4>1, TakeOneReads
    <3> HIDE DEF c, h
    <3>5. HasPlainType(type, f, B) /\ FitsPlain(type, f)
      BY <1>12, <3>2 DEF HasPlainType, FitsPlain
    <3>6. ASSUME B = Cells PROVE Spelt(type, f, <<h>>) BY <1>12, <3>2, <3>6 DEF Spelt
    <3>7. Right(f, <<h>>) BY <3>4, <3>5, <3>6
    <3> HIDE DEF Right, f
    <3> QED BY <3>3, <3>4, <3>7
  <2> QED BY <2>1, <2>2
<1>5. ASSUME cur.ok, type \in {"str", "opt"}, c = ReadStr(cur),
             cur.rest # <<>> => ~(type = "opt" /\ Length(cur) = W - 1)
      PROVE  Goal
  <2>1. /\ c \in Cursors(B, S)
        /\ c.ok => /\ cur.rest # <<>> /\ Length(cur) \in B
                   /\ \E s \in Seq(B) : /\ Valid(s) /\ Len(s) = Length(cur)
                                        /\ Reads(cur, c, s, <<Length(cur)>> \o s)
    <3> HIDE DEF c
    <3> QED BY <1>1, <1>5, ReadStrReads
  <2> HIDE DEF c
  <2>2. SUFFICES ASSUME c.ok
                 PROVE  \E v \in PlainValues(B), part \in Seq(B) : Right(v, part)
    BY <2>1
  <2> DEFINE h == Length(cur)
  <2>3. PICK s \in Seq(B) : Valid(s) /\ Len(s) = h /\ Reads(cur, c, s, <<h>> \o s)
    BY <2>1, <2>2
  <2>4. h \in B /\ h \in Nat BY <2>1, <2>2
  <2>5. HasPlainType(type, s, B) BY <1>5, <2>3 DEF HasPlainType, IsString
  <2>6. ASSUME B = Cells PROVE FitsPlain(type, s) /\ Spelt(type, s, <<h>> \o s)
    <3>1. h % W = h /\ h < W BY <2>4, <2>6, SmallCell, WireAssumption DEF Cells
    <3>2. s # Absent
      <4>1. s \in Seq(Nat) BY SeqMonotonic
      <4> QED BY <4>1, WireAssumption
    <3>3. Prefixed(s) = <<h>> \o s BY <2>3, <3>1 DEF Prefixed
    <3>4. PlainField(type, s) = <<h>> \o s BY <1>5, <3>2, <3>3 DEF PlainField, OptStr
    <3>5. type = "opt" => h # W - 1 BY <1>5, <2>1, <2>2
    <3>6. FitsPlain(type, s)
      <4>1. W \in Nat BY WireAssumption
      <4> HIDE DEF h
      <4> QED BY <1>5, <2>3, <2>4, <3>1, <3>5, <4>1 DEF FitsPlain
    <3> HIDE DEF h
    <3> QED BY <1>5, <3>4, <3>6 DEF Spelt
  <2>7. s \in PlainValues(B) /\ <<h>> \o s \in Seq(B)
    <3> HIDE DEF h
    <3>1. <<h>> \in Seq(B) BY <2>4
    <3> QED BY <1>1, <3>1, ConcatProperties
  <2> HIDE DEF h
  <2> QED BY <2>3, <2>5, <2>6, <2>7
<1>6. CASE cur.ok /\ type = "str"
  <2>1. c = ReadStr(cur) BY <1>6 DEF ReadPlain
  <2>2. type \in {"str", "opt"} /\ type # "opt" BY <1>6
  <2> HIDE DEF c
  <2> QED BY <1>5, <1>6, <2>1, <2>2 DEF c
<1>7. CASE cur.ok /\ type = "opt"
  <2>1. CASE cur.rest # <<>> /\ Length(cur) = W - 1
    <3> DEFINE h == Length(cur)
    <3>1. c = TakeAs(cur, 1, Absent) BY <1>7, <2>1 DEF ReadPlain
    <3>2. h \in B BY <2>1, SkipReads
    <3>3. c \in Cursors(B, S) /\ Reads(cur, c, Absent, <<h>>)
      <4> HIDE DEF c
      <4> QED BY <1>1, <1>7, <2>1, <3>1, TakeOneReads
    <3>4. h = W - 1 BY <2>1
    <3> HIDE DEF c, h
    <3>5. HasPlainType(type, Absent, B) /\ FitsPlain(type, Absent)
          /\ Spelt(type, Absent, <<h>>)
      BY <1>7, <3>4 DEF HasPlainType, FitsPlain, PlainField, OptStr, Spelt
    <3>6. <<h>> \in Seq(B) BY <3>2
    <3>7. Right(Absent, <<h>>) BY <3>3, <3>5
    <3> HIDE DEF Right
    <3> QED BY <1>1, <3>3, <3>6, <3>7
  <2>2. CASE ~(cur.rest # <<>> /\ Length(cur) = W - 1)
    <3>1. c = ReadStr(cur) BY <1>7, <2>2 DEF ReadPlain
    <3>2. type \in {"str", "opt"} BY <1>7
    <3> HIDE DEF c
    <3> QED BY <1>5, <1>7, <2>2, <3>1, <3>2 DEF c
  <2> QED BY <2>1, <2>2
<1>8. CASE cur.ok /\ type = "raw"
  <2> DEFINE s == cur.rest
  <2>1. c = TakeAs(cur, n, s) BY <1>8 DEF ReadPlain
  <2>2. SubSeq(s, 1, n) = s BY <1>2, SubSeqFull
  <2>3. c \in Cursors(B, S) /\ Reads(cur, c, s, s)
    <3>1. n \in 0 .. Len(cur.rest) BY <1>2
    <3> DEFINE x == SubSeq(cur.rest, 1, n)
    <3>2. TakeAs(cur, n, x) \in Cursors(B, S) /\ Reads(cur, TakeAs(cur, n, x), x, x)
      <4> HIDE DEF n
      <4> QED BY <1>1, <1>8, <3>1, TakeReads
    <3> HIDE DEF c, n, x
    <3>3. x = s BY <2>2 DEF x
    <3> QED BY <2>1, <3>2, <3>3
  <2>4. HasPlainType(type, s, B) /\ FitsPlain(type, s) /\ Spelt(type, s, s)
    BY <1>2, <1>8 DEF HasPlainType, FitsPlain, PlainField, Spelt
  <2>5. s \in PlainValues(B) /\ s \in Seq(B) BY <1>1, <1>2
  <2> HIDE DEF s, c
  <2>6. Right(s, s) BY <2>3, <2>4
  <2> HIDE DEF Right
  <2> QED BY <2>3, <2>5, <2>6
<1>9. ASSUME cur.ok, type \in {"text", "content"}, NEW m \in Nat, c = ReadText(cur, m)
      PROVE  Goal
  <2>1. /\ c \in Cursors(B, S)
        /\ c.ok => \E s \in Seq(B) : Valid(s) /\ Len(s) = m /\ Reads(cur, c, s, s)
    <3> HIDE DEF c
    <3> QED BY <1>1, <1>9, ReadTextReads
  <2> HIDE DEF c
  <2>2. SUFFICES ASSUME c.ok
                 PROVE  \E v \in PlainValues(B), part \in Seq(B) : Right(v, part)
    BY <2>1
  <2>3. PICK s \in Seq(B) : Valid(s) /\ Reads(cur, c, s, s) BY <2>1, <2>2
  <2>4. HasPlainType(type, s, B) /\ FitsPlain(type, s) /\ Spelt(type, s, s)
    BY <1>9, <2>3 DEF HasPlainType, FitsPlain, PlainField, IsString, Spelt
  <2>5. s \in PlainValues(B) BY <1>1
  <2> QED BY <2>3, <2>4, <2>5
<1>10. CASE cur.ok /\ type = "text"
  <2>1. c = ReadText(cur, n) BY <1>10 DEF ReadPlain
  <2>2. type \in {"text", "content"} BY <1>10
  <2> HIDE DEF c, n
  <2> QED BY <1>2, <1>9, <1>10, <2>1, <2>2 DEF c
<1>11. CASE cur.ok /\ type = "content"
  <2>1. CASE n < 2
    <3>1. c = Bad(cur) BY <1>11, <2>1 DEF ReadPlain
    <3> QED BY <3>1, BadType
  <2>2. CASE ~(n < 2)
    <3>1. c = ReadText(cur, n - 2) BY <1>11, <2>2 DEF ReadPlain
    <3>2. n - 2 \in Nat BY <1>2, <2>2
    <3>3. type \in {"text", "content"} BY <1>11
    <3> HIDE DEF c, n
    <3> QED BY <1>9, <1>11, <3>1, <3>2, <3>3 DEF c
  <2> QED BY <2>1, <2>2
<1> QED BY <1>3, <1>4, <1>6, <1>7, <1>8, <1>10, <1>11, <1>12 DEF PlainTypes

\* What is ahead of the rest is read as it was written.
LEMMA TextIsRead ==
  ASSUME NEW B, NEW S, NEW cur \in Cursors(B, S), cur.ok,
         NEW s \in Seq(B), NEW t \in Seq(B), cur.rest = s \o t
  PROVE  /\ TakeAs(cur, Len(s), s) = [ok |-> TRUE, rest |-> t, got |-> Append(cur.got, s)]
         /\ Valid(s) => ReadText(cur, Len(s)) = TakeAs(cur, Len(s), s)
<1> DEFINE u == s \o t
           n == Len(s)
<1>1. SubSeq(u, 1, n) = s /\ SubSeq(u, n + 1, Len(u)) = t BY Halves
<1>2. n \in Nat /\ Len(u) = n + Len(t) /\ Len(t) \in Nat BY ConcatProperties, LenProperties
<1>3. cur.rest = u OBVIOUS
<1>4. cur.ok = TRUE BY DEF Cursors
<1> HIDE DEF u, n
<1>5. TakeAs(cur, n, s) = [ok |-> TRUE, rest |-> t, got |-> Append(cur.got, s)]
  BY <1>1, <1>3, <1>4 DEF TakeAs
<1>6. ASSUME Valid(s) PROVE ReadText(cur, n) = TakeAs(cur, n, s)
  <2>1. SubSeq(cur.rest, 1, n) = s BY <1>1, <1>3
  <2>2. n <= Len(cur.rest) BY <1>2, <1>3
  <2> QED BY <1>6, <2>1, <2>2 DEF ReadText
<1> QED BY <1>5, <1>6 DEF n

LEMMA PlainFieldType ==
  ASSUME NEW B \in SUBSET Nat, Cells \subseteq B, NEW type \in PlainTypes,
         NEW v, HasPlainType(type, v, B)
  PROVE  PlainField(type, v) \in Seq(B) /\ v \in PlainValues(B)
<1>1. CASE type = "int"
  <2>1. v \in B BY <1>1 DEF HasPlainType
  <2>2. PlainField(type, v) = <<v>> BY <1>1 DEF PlainField
  <2> QED BY <2>1, <2>2 DEF PlainValues
<1>5. CASE type = "flag"
  <2>1. v \in {0, 1} /\ v \in B BY <1>5, WireAssumption DEF HasPlainType, Cells
  <2>2. PlainField(type, v) = <<v>> BY <1>5 DEF PlainField
  <2> QED BY <2>1, <2>2 DEF PlainValues
<1>2. ASSUME v \in Seq(B) PROVE Prefixed(v) \in Seq(B)
  <2> DEFINE a == <<Len(v) % W>>
  <2>1. Len(v) % W \in B BY <1>2, LenProperties, LengthCell
  <2>2. a \in Seq(B) BY <2>1
  <2> HIDE DEF a
  <2>3. a \o v \in Seq(B) BY <1>2, <2>2, ConcatProperties
  <2> QED BY <2>3 DEF Prefixed, a
<1>3. CASE type = "opt" /\ v = Absent
  <2> DEFINE x == W - 1
  <2>1. x \in B BY WireAssumption DEF Cells
  <2>2. PlainField(type, v) = <<x>> BY <1>3 DEF PlainField, OptStr
  <2> HIDE DEF x
  <2>3. <<x>> \in Seq(B) BY <2>1
  <2>4. v \in PlainValues(B) BY <1>3 DEF PlainValues
  <2> QED BY <2>2, <2>3, <2>4
<1>4. CASE type \notin {"int", "flag"} /\ ~(type = "opt" /\ v = Absent)
  <2>1. v \in Seq(B) BY <1>4 DEF HasPlainType, IsString, PlainTypes
  <2>2. PlainField(type, v) = v \/ PlainField(type, v) = Prefixed(v)
    BY <1>4 DEF PlainField, OptStr, PlainTypes
  <2>3. Prefixed(v) \in Seq(B) BY <1>2, <2>1
  <2>4. v \in PlainValues(B) BY <2>1 DEF PlainValues
  <2>5. PlainField(type, v) \in Seq(B)
    <3>1. CASE PlainField(type, v) = v BY <2>1, <3>1
    <3>2. CASE PlainField(type, v) = Prefixed(v) BY <2>3, <3>2
    <3> QED BY <2>2, <3>1, <3>2
  <2> QED BY <2>4, <2>5
<1> QED BY <1>1, <1>3, <1>4, <1>5

LEMMA PlainIsRead ==
  ASSUME NEW B \in SUBSET Nat, Cells \subseteq B, NEW S, PlainValues(B) \subseteq S,
         NEW cur \in Cursors(B, S), cur.ok, NEW type \in PlainTypes,
         NEW v, HasPlainType(type, v, B), FitsPlain(type, v),
         NEW t \in Seq(B), cur.rest = PlainField(type, v) \o t,
         type \in {"text", "raw"} => t = <<>>, type = "content" => Len(t) = 2
  PROVE  ReadPlain(cur, type) = [ok |-> TRUE, rest |-> t, got |-> Append(cur.got, v)]
<1> DEFINE all == [ok |-> TRUE, rest |-> t, got |-> Append(cur.got, v)]
<1>1. CASE type \in {"int", "flag"} \/ (type = "opt" /\ v = Absent)
  <2> DEFINE x == IF type \in {"int", "flag"} THEN v ELSE W - 1
             s == <<x>>
  <2>1. x \in B /\ PlainField(type, v) = s
    <3>1. CASE type \in {"int", "flag"}
      <4>1. v \in B
        <5>1. CASE type = "int" BY <5>1 DEF HasPlainType
        <5>2. CASE type = "flag"
          <6>1. v = 0 \/ v = 1 BY <5>2 DEF HasPlainType
          <6>2. 0 \in Cells /\ 1 \in Cells BY WireAssumption DEF Cells
          <6> QED BY <6>1, <6>2
        <5> QED BY <3>1, <5>1, <5>2
      <4> QED BY <3>1, <4>1 DEF PlainField
    <3>2. CASE type \notin {"int", "flag"}
      <4>1. W - 1 \in B BY WireAssumption DEF Cells
      <4> QED BY <1>1, <3>2, <4>1 DEF PlainField, OptStr
    <3> QED BY <3>1, <3>2
  <2> HIDE DEF x
  <2>2. s \in Seq(B) /\ Len(s) = 1 BY <2>1
  <2>3. /\ cur.rest = s \o t /\ cur.rest # <<>> /\ Head(cur.rest) = x
        /\ Tail(cur.rest) = t
    <3>1. cur.rest = <<x>> \o t BY <2>1
    <3> QED BY <2>1, <3>1, First
  <2>4. ReadPlain(cur, type) = TakeAs(cur, 1, v)
    <3>1. CASE type = "int" BY <2>3, <3>1 DEF ReadPlain, x
    <3>2. CASE type = "opt" /\ v = Absent BY <2>3, <3>2 DEF ReadPlain, Length, x
    <3>3. CASE type = "flag"
      <4>1. AsFlag(v) = v BY <3>3 DEF HasPlainType, AsFlag
      <4> QED BY <2>3, <3>3, <4>1 DEF ReadPlain, x
    <3> QED BY <1>1, <3>1, <3>2, <3>3
  <2>5. SubSeq(cur.rest, 1 + 1, Len(cur.rest)) = t
    <3> HIDE DEF s
    <3>1. SubSeq(s \o t, Len(s) + 1, Len(s \o t)) = t BY <2>2, Halves
    <3> QED BY <2>2, <2>3, <3>1
  <2>6. cur.ok = TRUE BY DEF Cursors
  <2> HIDE DEF s
  <2> QED BY <2>4, <2>5, <2>6 DEF TakeAs
<1>2. CASE type = "str" \/ (type = "opt" /\ v # Absent)
  <2> DEFINE n == Len(v)
             w == v \o t
             skip == Skip(cur)
  <2>1. v \in Seq(B) /\ Valid(v) BY <1>2 DEF HasPlainType, IsString
  <2>2. n \in Nat /\ n < W /\ (type = "opt" => n < W - 1)
    BY <1>2, <2>1, LenProperties, WireAssumption DEF FitsPlain
  <2>3. n \in B /\ n % W = n BY <2>2, SmallCell, WireAssumption DEF Cells
  <2> DEFINE a == <<n>>
  <2>4. PlainField(type, v) = a \o v BY <1>2, <2>3 DEF PlainField, OptStr, Prefixed
  <2>5. cur.rest = <<n>> \o w
    <3>1. a \in Seq(B) BY <2>3
    <3> HIDE DEF a
    <3>2. (a \o v) \o t = a \o (v \o t) BY <2>1, <3>1, Regroup
    <3> QED BY <2>4, <3>2 DEF a
  <2>6. w \in Seq(B) BY <2>1, ConcatProperties
  <2> HIDE DEF n, w
  <2>7. cur.rest # <<>> /\ Length(cur) = n /\ Tail(cur.rest) = w
    BY <2>3, <2>5, <2>6, First DEF Length
  <2>8. skip \in Cursors(B, S) /\ skip.ok /\ skip.got = cur.got /\ skip.rest = w
    <3>1. skip \in Cursors(B, S) /\ skip.ok = cur.ok /\ skip.got = cur.got
      BY <2>7, SkipReads
    <3>2. skip.rest = w BY <2>7 DEF Skip, Cursors
    <3> QED BY <3>1, <3>2
  <2>9. ReadPlain(cur, type) = ReadText(skip, n)
    BY <1>2, <2>2, <2>7, WireAssumption DEF ReadPlain, ReadStr
  <2> HIDE DEF skip
  <2>10. ReadText(skip, n) = [ok |-> TRUE, rest |-> t, got |-> Append(skip.got, v)]
    BY <2>1, <2>8, TextIsRead DEF n, w
  <2> QED BY <2>8, <2>9, <2>10
<1>3. CASE type \in {"text", "raw", "content"}
  <2> DEFINE n == Len(v)
             r == cur.rest
  <2>1. v \in Seq(B) /\ (type # "raw" => Valid(v)) BY <1>3 DEF HasPlainType, IsString
  <2>2. r = v \o t BY <1>3 DEF PlainField
  <2>3. Len(r) = n + Len(t) /\ n \in Nat /\ Len(t) \in Nat
    BY <2>1, <2>2, ConcatProperties, LenProperties
  <2>4. /\ TakeAs(cur, n, v) = all
        /\ Valid(v) => ReadText(cur, n) = TakeAs(cur, n, v)
    BY <2>1, <2>2, TextIsRead
  <2>5. CASE type = "raw"
    <3>1. t = <<>> /\ r = v BY <2>1, <2>2, <2>5, ConcatEmptySeq
    <3>2. ReadPlain(cur, type) = TakeAs(cur, Len(r), r) BY <2>5 DEF ReadPlain
    <3> QED BY <2>4, <3>1, <3>2
  <2>6. CASE type = "text"
    <3>1. t = <<>> /\ r = v BY <2>1, <2>2, <2>6, ConcatEmptySeq
    <3>2. ReadPlain(cur, type) = ReadText(cur, Len(r)) BY <2>6 DEF ReadPlain
    <3> QED BY <2>1, <2>4, <2>6, <3>1, <3>2
  <2>7. CASE type = "content"
    <3>1. Len(r) - 2 = n /\ ~(Len(r) < 2)
      <4> DEFINE k == Len(r)
      <4>1. k = n + 2 /\ n \in Nat BY <2>3, <2>7
      <4> HIDE DEF k, n
      <4> QED BY <4>1 DEF k
    <3>2. ReadPlain(cur, type) = ReadText(cur, Len(r) - 2) BY <2>7, <3>1 DEF ReadPlain
    <3> QED BY <2>1, <2>4, <2>7, <3>1, <3>2
  <2> QED BY <1>3, <2>5, <2>6, <2>7
<1> QED BY <1>1, <1>2, <1>3 DEF PlainTypes

-----------------------------------------------------------------------------
(* Cursors one after the other.                                            *)

\* The sequence g holds the first i of the values.
Holds(g, values, i) == Len(g) = i /\ \A j \in 1 .. i : g[j] = values[j]

LEMMA AppendHolds ==
  ASSUME NEW S, NEW g \in Seq(S), NEW i \in Nat, NEW values, Holds(g, values, i),
         values[i + 1] \in S
  PROVE  /\ Append(g, values[i + 1]) \in Seq(S)
         /\ Holds(Append(g, values[i + 1]), values, i + 1)
<1> DEFINE v == values[i + 1]
           a == Append(g, v)
<1>1. v \in S OBVIOUS
<1>2. Len(g) = i /\ \A j \in 1 .. i : g[j] = values[j] BY DEF Holds
<1> HIDE DEF v
<1>3. /\ a \in Seq(S) /\ Len(a) = Len(g) + 1
      /\ \A j \in 1 .. Len(g) : a[j] = g[j]
      /\ a[Len(g) + 1] = v
  BY <1>1, AppendProperties
<1> HIDE DEF a
<1>4. \A j \in 1 .. i + 1 : j \in 1 .. i \/ j = i + 1 OBVIOUS
<1>5. \A j \in 1 .. i + 1 : a[j] = values[j] BY <1>2, <1>3, <1>4 DEF v
<1>6. Holds(a, values, i + 1) BY <1>2, <1>3, <1>5 DEF Holds
<1> QED BY <1>3, <1>6 DEF a, v

\* Between each two cursors a value is read that goes with its place and part.
LEMMA Readings ==
  ASSUME NEW B, NEW S, NEW n \in Nat, NEW c \in [0 .. n -> Cursors(B, S)],
         NEW R \in SUBSET ((1 .. n) \X S \X Seq(B)), c[0].got = <<>>, c[n].ok,
         \A i \in 1 .. n : c[i].ok => \E v \in S, part \in Seq(B) :
           Reads(c[i - 1], c[i], v, part) /\ <<i, v, part>> \in R
  PROVE  /\ c[0].ok
         /\ \E parts \in Seq(Seq(B)) :
              /\ c[n].got \in Seq(S) /\ Len(c[n].got) = n /\ Len(parts) = n
              /\ c[0].rest = FlattenSeq(parts) \o c[n].rest
              /\ \A i \in 1 .. n : <<i, c[n].got[i], parts[i]>> \in R
<1> DEFINE Right(i, p) == Reads(c[i - 1], c[i], p[1], p[2]) /\ <<i, p[1], p[2]>> \in R
           P == S \X Seq(B)
<1>1. \A i \in 1 .. n : c[i].ok => \E p \in P : Right(i, p)
  <2> SUFFICES ASSUME NEW i \in 1 .. n, c[i].ok PROVE \E p \in P : Right(i, p) OBVIOUS
  <2>1. PICK v \in S, part \in Seq(B) : Reads(c[i - 1], c[i], v, part) /\ <<i, v, part>> \in R
    OBVIOUS
  <2>2. <<v, part>> \in P /\ Right(i, <<v, part>>) BY <2>1
  <2> QED BY <2>2
<1>2. \A i \in 1 .. n : c[i].ok => c[i - 1].ok BY DEF Reads
<1>3. \A i \in 0 .. n : c[i].ok
  <2> DEFINE T == {k \in 0 .. n : c[n - k].ok}
  <2>1. 0 \in T OBVIOUS
  <2>2. ASSUME NEW k \in 0 .. n - 1, k \in T PROVE k + 1 \in T
    <3>1. n - k \in 1 .. n /\ (n - k) - 1 = n - (k + 1) /\ k + 1 \in 0 .. n OBVIOUS
    <3> QED BY <1>2, <2>2, <3>1
  <2>3. 0 .. n \subseteq T
    <3> HIDE DEF T
    <3> QED BY <2>1, <2>2, InductionTo
  <2>4. \A i \in 0 .. n : n - i \in 0 .. n /\ n - (n - i) = i OBVIOUS
  <2> QED BY <2>3, <2>4
<1> DEFINE p == [i \in 1 .. n |-> CHOOSE q \in P : Right(i, q)]
<1>4. \A i \in 1 .. n : p[i] \in P /\ Right(i, p[i])
  <2> HIDE DEF P, Right
  <2>1. \A i \in 1 .. n : i \in 0 .. n OBVIOUS
  <2> QED BY <1>1, <1>3, <2>1
<1> HIDE DEF p
<1> DEFINE values == [i \in 1 .. n |-> p[i][1]]
           parts == [i \in 1 .. n |-> p[i][2]]
           rests == [i \in 0 .. n |-> c[i].rest]
<1>5. /\ \A i \in 1 .. n : /\ values[i] \in S /\ parts[i] \in Seq(B)
                           /\ Reads(c[i - 1], c[i], values[i], parts[i])
                           /\ <<i, values[i], parts[i]>> \in R
      /\ values \in [1 .. n -> S] /\ parts \in [1 .. n -> Seq(B)]
  BY <1>4
<1>6. rests \in [0 .. n -> Seq(B)] BY DEF Cursors
<1> HIDE DEF values, parts
<1>7. values \in Seq(S) /\ Len(values) = n /\ parts \in Seq(Seq(B)) /\ Len(parts) = n
  <2> DEFINE D == Seq(B)
  <2>1. parts \in [1 .. n -> D] BY <1>5
  <2> HIDE DEF D
  <2>2. parts \in Seq(D) /\ Len(parts) = n BY <2>1, Enumerated
  <2> QED BY <1>5, <2>2, Enumerated DEF D
<1>8. c[0].rest = FlattenSeq(parts) \o c[n].rest
  <2>1. \A i \in 1 .. n : rests[i - 1] = parts[i] \o rests[i]
    <3>1. \A i \in 1 .. n : i - 1 \in 0 .. n /\ i \in 0 .. n OBVIOUS
    <3> QED BY <1>5, <3>1 DEF Reads
  <2>2. rests[0] = c[0].rest /\ rests[n] = c[n].rest OBVIOUS
  <2> HIDE DEF rests
  <2>3. rests[0] = FlattenSeq(parts) \o rests[n] BY <1>6, <1>7, <2>1, Taken
  <2> QED BY <2>2, <2>3
<1>9. c[n].got = values
  <2> DEFINE T == {i \in 0 .. n : c[i].got \in Seq(S) /\ Holds(c[i].got, values, i)}
  <2>1. 0 \in T
    <3>1. 0 \in 0 .. n /\ Len(<<>>) = 0 /\ <<>> \in Seq(S) OBVIOUS
    <3>2. Holds(<<>>, values, 0) BY <3>1 DEF Holds
    <3> QED BY <3>1, <3>2
  <2>2. ASSUME NEW i \in 0 .. n - 1, i \in T PROVE i + 1 \in T
    <3> DEFINE g == c[i].got
    <3>1. i + 1 \in 1 .. n /\ i + 1 - 1 = i /\ i + 1 \in 0 .. n /\ i \in Nat OBVIOUS
    <3>2. c[i + 1].got = Append(g, values[i + 1]) /\ values[i + 1] \in S
      <4> DEFINE k == i + 1
      <4>1. k \in 1 .. n /\ k - 1 = i BY <3>1
      <4> HIDE DEF k
      <4>2. Reads(c[k - 1], c[k], values[k], parts[k]) /\ values[k] \in S BY <1>5, <4>1
      <4> QED BY <4>1, <4>2 DEF Reads, k
    <3>3. c[i + 1].got = Append(g, values[i + 1]) BY <3>2
    <3>4. g \in Seq(S) /\ Holds(g, values, i) BY <2>2
    <3> HIDE DEF g
    <3>5. /\ Append(g, values[i + 1]) \in Seq(S)
          /\ Holds(Append(g, values[i + 1]), values, i + 1)
      BY <3>1, <3>2, <3>4, AppendHolds
    <3> QED BY <3>1, <3>3, <3>5
  <2>3. 0 .. n \subseteq T
    <3> HIDE DEF T
    <3> QED BY <2>1, <2>2, InductionTo
  <2>4. n \in 0 .. n OBVIOUS
  <2>5. c[n].got \in Seq(S) /\ Holds(c[n].got, values, n) BY <2>3, <2>4
  <2> QED BY <1>7, <2>5, SeqEqual DEF Holds
<1>10. c[0].ok
  <2>1. 0 \in 0 .. n OBVIOUS
  <2> QED BY <1>3, <2>1
<1> QED BY <1>5, <1>7, <1>8, <1>9, <1>10

\* When every cursor reads its value off the rests, the last has read them all.
CursorsTo(n, B, S) == [0 .. n -> Cursors(B, S)]
RestsTo(n, B) == [0 .. n -> Seq(B)]
ReadsOff(c, rests, values, n) ==
  /\ c[0] = [ok |-> TRUE, rest |-> rests[0], got |-> <<>>]
  /\ \A i \in 1 .. n : c[i - 1].ok /\ c[i - 1].rest = rests[i - 1] =>
       c[i] = [ok |-> TRUE, rest |-> rests[i], got |-> Append(c[i - 1].got, values[i])]

LEMMA AllRead ==
  ASSUME NEW B, NEW S, NEW n \in Nat, NEW c \in CursorsTo(n, B, S),
         NEW values \in Seq(S), Len(values) = n, NEW rests \in RestsTo(n, B),
         ReadsOff(c, rests, values, n)
  PROVE  c[n].ok /\ c[n].rest = rests[n] /\ c[n].got = values
<1> DEFINE G(i) == /\ c[i].ok /\ c[i].rest = rests[i]
                   /\ c[i].got \in Seq(S) /\ Holds(c[i].got, values, i)
           T == {i \in 0 .. n : G(i)}
<1> USE DEF CursorsTo, RestsTo
<1>1. 0 \in T
  <2>1. 0 \in 0 .. n /\ Len(<<>>) = 0 /\ <<>> \in Seq(S) OBVIOUS
  <2>2. c[0].ok /\ c[0].rest = rests[0] /\ c[0].got = <<>> BY DEF ReadsOff
  <2>3. Holds(<<>>, values, 0) BY <2>1 DEF Holds
  <2> QED BY <2>1, <2>2, <2>3
<1>2. ASSUME NEW i \in 0 .. n - 1, i \in T PROVE i + 1 \in T
  <2> DEFINE g == c[i].got
             a == Append(g, values[i + 1])
  <2>1. i + 1 \in 1 .. n /\ i + 1 - 1 = i /\ i + 1 \in 0 .. n /\ i \in Nat OBVIOUS
  <2>2. values[i + 1] \in S BY <2>1, ElementOfSeq
  <2>3. c[i].ok /\ c[i].rest = rests[i] /\ g \in Seq(S) /\ Holds(g, values, i) BY <1>2
  <2>4. c[i + 1] = [ok |-> TRUE, rest |-> rests[i + 1], got |-> a]
    <3> DEFINE k == i + 1
    <3>1. k \in 1 .. n /\ k - 1 = i BY <2>1
    <3> HIDE DEF k
    <3>2. c[k] = [ok |-> TRUE, rest |-> rests[k], got |-> Append(c[k - 1].got, values[k])]
      BY <2>3, <3>1 DEF ReadsOff
    <3> QED BY <3>1, <3>2 DEF k
  <2> HIDE DEF g
  <2>5. a \in Seq(S) /\ Holds(a, values, i + 1) BY <2>1, <2>2, <2>3, AppendHolds
  <2> HIDE DEF a
  <2>6. G(i + 1) BY <2>4, <2>5
  <2> QED BY <2>1, <2>6
<1>3. 0 .. n \subseteq T
  <2> HIDE DEF T
  <2> QED BY <1>1, <1>2, InductionTo
<1>4. n \in 0 .. n OBVIOUS
<1>5. G(n) BY <1>3, <1>4
<1>6. c[n].got = values BY <1>5, SeqEqual DEF Holds
<1> QED BY <1>5, <1>6

\* A recursive function stays where each of its steps does.
IsFrom0To(f, n) == f = [i \in 0 .. n |-> f[i]]

LEMMA Stays ==
  ASSUME NEW n \in Nat, NEW D, NEW f, IsFrom0To(f, n),
         f[0] \in D, \A i \in 1 .. n : f[i - 1] \in D => f[i] \in D
  PROVE  f \in [0 .. n -> D]
<1> DEFINE T == {i \in 0 .. n : f[i] \in D}
<1>1. 0 \in T OBVIOUS
<1>2. ASSUME NEW i \in 0 .. n - 1, i \in T PROVE i + 1 \in T
  <2>1. i + 1 \in 1 .. n /\ i + 1 - 1 = i /\ i + 1 \in 0 .. n OBVIOUS
  <2> QED BY <1>2, <2>1
<1>3. 0 .. n \subseteq T
  <2> HIDE DEF T
  <2> QED BY <1>1, <1>2, InductionTo
<1> QED BY <1>3 DEF IsFrom0To

-----------------------------------------------------------------------------
(* The entries of lists.                                                   *)

FitsPlains(types, v) == \A i \in 1 .. Len(types) : FitsPlain(types[i], v[i])
Entries(B) == Seq(PlainValues(B))

LEMMA Holding ==
  ASSUME NEW B, NEW S, NEW V, NEW cur \in Cursors(B, S), NEW a \in Seq(V)
  PROVE  /\ [cur EXCEPT !.got = a] \in Cursors(B, V)
         /\ [cur EXCEPT !.got = a] = [ok |-> cur.ok, rest |-> cur.rest, got |-> a]
<1> DEFINE c == [cur EXCEPT !.got = a]
<1>1. c \in Cursors(B, V) /\ c.ok = cur.ok /\ c.rest = cur.rest /\ c.got = a
  BY DEF Cursors
<1> HIDE DEF c
<1>2. c = [ok |-> c.ok, rest |-> c.rest, got |-> c.got] BY <1>1, CursorShape
<1>3. c = [ok |-> cur.ok, rest |-> cur.rest, got |-> a] BY <1>1, <1>2
<1> QED BY <1>1, <1>3 DEF c

LEMMA Emptied ==
  ASSUME NEW B, NEW S, NEW V, NEW cur \in Cursors(B, S)
  PROVE  /\ [cur EXCEPT !.got = <<>>] \in Cursors(B, V)
         /\ [cur EXCEPT !.got = <<>>] = [ok |-> cur.ok, rest |-> cur.rest, got |-> <<>>]
<1> DEFINE none == <<>>
<1>1. none \in Seq(V) OBVIOUS
<1> HIDE DEF none
<1> DEFINE c == [cur EXCEPT !.got = none]
<1>2. c \in Cursors(B, V) /\ c.ok = cur.ok /\ c.rest = cur.rest /\ c.got = none
  BY <1>1 DEF Cursors
<1> HIDE DEF c
<1>3. c = [ok |-> c.ok, rest |-> c.rest, got |-> c.got] BY <1>2, CursorShape
<1>4. c = [ok |-> cur.ok, rest |-> cur.rest, got |-> none] BY <1>2, <1>3
<1> QED BY <1>2, <1>4 DEF c, none

\* The cursors before the fields of an entry and after each of them.
IsEntering(c, cur, types, B) ==
  /\ c \in [0 .. Len(types) -> Cursors(B, PlainValues(B))]
  /\ c[0] = [ok |-> cur.ok, rest |-> cur.rest, got |-> <<>>]
  /\ \A i \in 1 .. Len(types) : c[i] = ReadPlain(c[i - 1], types[i])

LEMMA Enterings ==
  ASSUME NEW B \in SUBSET Nat, NEW S, NEW cur \in Cursors(B, S), NEW types \in Seq(PlainTypes)
  PROVE  IsEntering(Entering(cur, types), cur, types, B)
<1> DEFINE n == Len(types)
           D == Cursors(B, PlainValues(B))
           base == [cur EXCEPT !.got = <<>>]
           step == [p \in (1 .. n) \X D |-> ReadPlain(p[2], types[p[1]])]
           Is(f) == f = [i \in 0 .. n |-> IF i = 0 THEN base ELSE ReadPlain(f[i - 1], types[i])]
<1>1. n \in Nat /\ \A i \in 1 .. n : types[i] \in PlainTypes BY LenProperties, ElementOfSeq
<1>2. base \in D /\ base = [ok |-> cur.ok, rest |-> cur.rest, got |-> <<>>] BY Emptied
<1>3. \A d \in D, type \in PlainTypes : ReadPlain(d, type) \in D BY ReadPlainReads
<1> HIDE DEF n, D, base
<1>4. step \in Steps(1 .. n, D) BY <1>1, <1>3 DEF Steps
<1> HIDE DEF step
<1>5. PICK f \in [0 .. n -> D] : Follows(f, n, base, step)
  <2>1. n \in Nat BY <1>1
  <2>2. base \in D BY <1>2
  <2> QED BY <1>4, <2>1, <2>2, Following
<1>6. ASSUME NEW i \in 1 .. n PROVE f[i] = ReadPlain(f[i - 1], types[i])
  <2>1. i - 1 \in 0 .. n BY <1>1
  <2>2. f[i - 1] \in D BY <1>5, <2>1
  <2>3. step[<<i, f[i - 1]>>] = ReadPlain(f[i - 1], types[i]) BY <2>2 DEF step
  <2> QED BY <1>5, <2>3 DEF Follows
<1>7. Is(f)
  <2>1. \A i \in 0 .. n : i = 0 \/ i \in 1 .. n OBVIOUS
  <2> QED BY <1>5, <1>6, <2>1 DEF Follows
<1>8. Entering(cur, types) = CHOOSE g : Is(g) BY DEF Entering, n, base
<1>9. Is(Entering(cur, types))
  <2> HIDE DEF Is
  <2> QED BY <1>7, <1>8
<1> DEFINE F == Entering(cur, types)
<1> HIDE DEF F
<1>10. Is(F) BY <1>9 DEF F
<1>11. F[0] = base /\ \A i \in 1 .. n : F[i] = ReadPlain(F[i - 1], types[i])
  <2>1. \A i \in 1 .. n : i \in 0 .. n /\ i # 0 BY <1>1
  <2>2. 0 \in 0 .. n BY <1>1
  <2> QED BY <1>10, <2>1, <2>2 DEF Is
<1>12. F \in [0 .. n -> D]
  <2>1. IsFrom0To(F, n) BY <1>10 DEF Is, IsFrom0To
  <2>2. n \in Nat /\ F[0] \in D BY <1>1, <1>2, <1>11
  <2>3. \A i \in 1 .. n : F[i - 1] \in D => F[i] \in D BY <1>1, <1>3, <1>11
  <2> QED BY <2>1, <2>2, <2>3, Stays
<1> QED BY <1>2, <1>11, <1>12 DEF F, n, D, IsEntering

EntrySpelt(types, v, part) ==
  \E parts \in Seq(Seq(Cells)) :
    /\ Len(parts) = Len(types) /\ part = FlattenSeq(parts)
    /\ \A i \in 1 .. Len(types) : Spelt(types[i], v[i], parts[i])

\* An entry is read as a sequence of values of its types.
LEMMA ReadEntryReads ==
  ASSUME NEW B \in SUBSET Nat, NEW S, Entries(B) \subseteq S,
         NEW cur \in Cursors(B, S), NEW types \in Seq(PlainTypes)
  PROVE  LET c == ReadEntry(cur, types)
         IN  /\ c \in Cursors(B, S)
             /\ c.ok => \E v \in Entries(B), part \in Seq(B) :
                          /\ HasPlainTypes(types, v, B) /\ Reads(cur, c, v, part)
                          /\ B = Cells => FitsPlains(types, v) /\ EntrySpelt(types, v, part)
<1> DEFINE n == Len(types)
           V == PlainValues(B)
           e == Entering(cur, types)
           last == e[n]
           c == ReadEntry(cur, types)
<1>1. /\ e \in [0 .. n -> Cursors(B, V)]
      /\ e[0] = [ok |-> cur.ok, rest |-> cur.rest, got |-> <<>>]
      /\ \A i \in 1 .. n : e[i] = ReadPlain(e[i - 1], types[i])
  <2>1. IsEntering(Entering(cur, types), cur, types, B) BY Enterings
  <2> QED BY <2>1 DEF IsEntering
<1>2. n \in Nat /\ \A i \in 1 .. n : types[i] \in PlainTypes BY LenProperties, ElementOfSeq
<1>3. c = [last EXCEPT !.got = Append(cur.got, last.got)] BY DEF ReadEntry
<1>4. last \in Cursors(B, V) BY <1>1, <1>2
<1> HIDE DEF e
<1>5. last.got \in Entries(B) /\ cur.got \in Seq(S) BY <1>4 DEF Cursors, Entries
<1>6. Append(cur.got, last.got) \in Seq(S)
  <2> HIDE DEF last
  <2>1. last.got \in S BY <1>5
  <2> QED BY <1>5, <2>1, AppendProperties
<1>7. /\ c \in Cursors(B, S) /\ c.ok = last.ok /\ c.rest = last.rest
      /\ c.got = Append(cur.got, last.got)
  <2> HIDE DEF last, c
  <2> QED BY <1>3, <1>4, <1>6 DEF Cursors
<1> DEFINE Right(i, v, part) ==
             /\ HasPlainType(types[i], v, B)
             /\ B = Cells => FitsPlain(types[i], v) /\ Spelt(types[i], v, part)
           R == {q \in (1 .. n) \X V \X Seq(B) : Right(q[1], q[2], q[3])}
<1>8. \A i \in 1 .. n : e[i].ok => \E v \in V, part \in Seq(B) :
        Reads(e[i - 1], e[i], v, part) /\ <<i, v, part>> \in R
  <2> SUFFICES ASSUME NEW i \in 1 .. n, e[i].ok
               PROVE  \E v \in V, part \in Seq(B) :
                        Reads(e[i - 1], e[i], v, part) /\ <<i, v, part>> \in R
    OBVIOUS
  <2> DEFINE d == e[i - 1]
             type == types[i]
  <2>1. d \in Cursors(B, V) /\ type \in PlainTypes /\ e[i] = ReadPlain(d, type)
    <3>1. i - 1 \in 0 .. n BY <1>2
    <3> QED BY <1>1, <1>2, <3>1
  <2>2. PICK v \in V, part \in Seq(B) :
          /\ HasPlainType(type, v, B) /\ Reads(d, e[i], v, part)
          /\ B = Cells => FitsPlain(type, v) /\ Spelt(type, v, part)
    <3> HIDE DEF d, type
    <3>1. ReadPlain(d, type).ok BY <2>1
    <3> QED BY <2>1, <3>1, ReadPlainReads
  <2>3. <<i, v, part>> \in R BY <2>2
  <2> QED BY <2>2, <2>3
<1>9. R \in SUBSET ((1 .. n) \X V \X Seq(B)) OBVIOUS
<1>10. ASSUME c.ok
       PROVE  \E v \in Entries(B), part \in Seq(B) :
                /\ HasPlainTypes(types, v, B) /\ Reads(cur, c, v, part)
                /\ B = Cells => FitsPlains(types, v) /\ EntrySpelt(types, v, part)
  <2> DEFINE v == last.got
  <2>1. last.ok /\ e[0].got = <<>> BY <1>1, <1>7, <1>10
  <2>2. /\ e[0].ok
        /\ \E parts \in Seq(Seq(B)) :
             /\ v \in Seq(V) /\ Len(v) = n /\ Len(parts) = n
             /\ e[0].rest = FlattenSeq(parts) \o last.rest
             /\ \A i \in 1 .. n : <<i, v[i], parts[i]>> \in R
    <3>1. e \in [0 .. n -> Cursors(B, V)] /\ n \in Nat BY <1>1, <1>2
    <3> HIDE DEF R, n, V
    <3> QED BY <1>8, <1>9, <2>1, <3>1, Readings
  <2>3. PICK parts \in Seq(Seq(B)) :
          /\ v \in Seq(V) /\ Len(v) = n /\ Len(parts) = n
          /\ e[0].rest = FlattenSeq(parts) \o last.rest
          /\ \A i \in 1 .. n : <<i, v[i], parts[i]>> \in R
    BY <2>2
  <2>4. \A i \in 1 .. n : Right(i, v[i], parts[i]) BY <2>3
  <2> HIDE DEF R
  <2>5. FlattenSeq(parts) \in Seq(B) BY Flattened
  <2>6. v \in Entries(B) BY <2>3 DEF Entries
  <2>7. HasPlainTypes(types, v, B)
    <3>1. IsSequence(v) BY <2>3, SequenceIs
    <3>2. DOMAIN types = 1 .. n BY LenProperties
    <3> QED BY <2>3, <2>4, <3>1, <3>2 DEF HasPlainTypes
  <2>8. Reads(cur, c, v, FlattenSeq(parts)) BY <1>1, <1>7, <1>10, <2>2, <2>3 DEF Reads
  <2>9. ASSUME B = Cells PROVE FitsPlains(types, v) /\ EntrySpelt(types, v, FlattenSeq(parts))
    <3>1. FitsPlains(types, v) BY <2>4, <2>9 DEF FitsPlains
    <3>2. \A i \in 1 .. n : Spelt(types[i], v[i], parts[i]) BY <2>4, <2>9
    <3> HIDE DEF v
    <3>3. EntrySpelt(types, v, FlattenSeq(parts)) BY <2>3, <2>9, <3>2 DEF EntrySpelt
    <3> QED BY <3>1, <3>3
  <2> HIDE DEF v, c
  <2> QED BY <2>5, <2>6, <2>7, <2>8, <2>9
<1> HIDE DEF c
<1> QED BY <1>7, <1>10 DEF c

\* What an entry is written as.
Parts(types, v) == [i \in DOMAIN types |-> PlainField(types[i], v[i])]

LEMMA EntryType ==
  ASSUME NEW B \in SUBSET Nat, Cells \subseteq B, NEW types \in Seq(PlainTypes),
         NEW v, HasPlainTypes(types, v, B)
  PROVE  /\ Parts(types, v) \in Seq(Seq(B)) /\ Len(Parts(types, v)) = Len(types)
         /\ \A i \in 1 .. Len(types) : Parts(types, v)[i] = PlainField(types[i], v[i])
         /\ Concat(types, v) = FlattenSeq(Parts(types, v)) /\ Concat(types, v) \in Seq(B)
         /\ v \in Entries(B) /\ Len(v) = Len(types)
<1> DEFINE n == Len(types)
           p == Parts(types, v)
           D == Seq(B)
<1>1. n \in Nat /\ DOMAIN types = 1 .. n /\ \A i \in 1 .. n : types[i] \in PlainTypes
  BY LenProperties, ElementOfSeq
<1>2. Len(v) = n /\ \A i \in 1 .. n : HasPlainType(types[i], v[i], B)
  BY <1>1 DEF HasPlainTypes
<1>3. \A i \in 1 .. n : PlainField(types[i], v[i]) \in D /\ v[i] \in PlainValues(B)
  BY <1>1, <1>2, PlainFieldType
<1>4. v \in Entries(B)
  <2>1. IsSequence(v) BY DEF HasPlainTypes
  <2>2. \A i \in 1 .. Len(v) : v[i] \in PlainValues(B) BY <1>2, <1>3
  <2> QED BY <2>1, <2>2, SequenceOf DEF Entries
<1>5. p = [i \in 1 .. n |-> PlainField(types[i], v[i])] BY <1>1 DEF Parts
<1> HIDE DEF n, p, D
<1>6. \A i \in 1 .. n : p[i] = PlainField(types[i], v[i]) BY <1>5
<1>7. p \in Seq(D) /\ Len(p) = n
  <2>1. p \in [1 .. n -> D] BY <1>3, <1>5
  <2> QED BY <1>1, <2>1, Enumerated
<1>8. Concat(types, v) = FlattenSeq(p) BY DEF Concat, Parts, p
<1>9. FlattenSeq(p) \in Seq(B) BY <1>7, Flattened DEF D
<1> QED BY <1>2, <1>4, <1>6, <1>7, <1>8, <1>9 DEF n, p, D

EntryTypes == {"int", "flag", "opt", "str"}

\* An entry whose lengths fit is read as it was written.
LEMMA EntryIsRead ==
  ASSUME NEW B \in SUBSET Nat, Cells \subseteq B, NEW S, Entries(B) \subseteq S,
         NEW cur \in Cursors(B, S), cur.ok, NEW types \in Seq(EntryTypes),
         NEW v, HasPlainTypes(types, v, B), FitsPlains(types, v),
         NEW t \in Seq(B), cur.rest = Concat(types, v) \o t
  PROVE  ReadEntry(cur, types) = [ok |-> TRUE, rest |-> t, got |-> Append(cur.got, v)]
<1> DEFINE n == Len(types)
           V == PlainValues(B)
           e == Entering(cur, types)
           p == Parts(types, v)
<1>1. types \in Seq(PlainTypes)
  <2>1. EntryTypes \subseteq PlainTypes BY DEF EntryTypes, PlainTypes
  <2> QED BY <2>1, SeqMonotonic
<1>2. /\ e \in [0 .. n -> Cursors(B, V)]
      /\ e[0] = [ok |-> cur.ok, rest |-> cur.rest, got |-> <<>>]
      /\ \A i \in 1 .. n : e[i] = ReadPlain(e[i - 1], types[i])
  <2>1. IsEntering(Entering(cur, types), cur, types, B) BY <1>1, Enterings
  <2> QED BY <2>1 DEF IsEntering
<1>3. n \in Nat /\ \A i \in 1 .. n : types[i] \in EntryTypes BY LenProperties, ElementOfSeq
<1>4. /\ p \in Seq(Seq(B)) /\ Len(p) = n
      /\ \A i \in 1 .. n : p[i] = PlainField(types[i], v[i])
      /\ Concat(types, v) = FlattenSeq(p) /\ v \in Seq(V) /\ Len(v) = n
  BY <1>1, EntryType DEF Entries
<1>5. \A i \in 1 .. n : HasPlainType(types[i], v[i], B) /\ FitsPlain(types[i], v[i])
  <2>1. DOMAIN types = 1 .. n BY LenProperties
  <2> QED BY <2>1 DEF HasPlainTypes, FitsPlains
<1>6. ReadEntry(cur, types) = [e[n] EXCEPT !.got = Append(cur.got, e[n].got)] BY DEF ReadEntry
<1> HIDE DEF n, V, e, p
<1>7. PICK rests \in [0 .. n -> Seq(B)] :
        /\ rests[0] = FlattenSeq(p) \o t /\ rests[n] = t
        /\ \A i \in 1 .. n : rests[i - 1] = p[i] \o rests[i]
  <2>1. PICK rests \in [0 .. Len(p) -> Seq(B)] : Leave(rests, p, t) BY <1>4, Rests
  <2> QED BY <1>4, <2>1 DEF Leave
<1>8. ASSUME NEW i \in 1 .. n, e[i - 1].ok, e[i - 1].rest = rests[i - 1]
      PROVE  e[i] = [ok |-> TRUE, rest |-> rests[i], got |-> Append(e[i - 1].got, v[i])]
  <2> DEFINE d == e[i - 1]
             type == types[i]
             x == v[i]
             u == rests[i]
  <2>1. i - 1 \in 0 .. n /\ i \in 0 .. n BY <1>3
  <2>2. d \in Cursors(B, V) /\ d.ok /\ e[i] = ReadPlain(d, type) BY <1>2, <1>8, <2>1
  <2>3. d.rest = PlainField(type, x) \o u BY <1>4, <1>7, <1>8
  <2>4. u \in Seq(B) BY <1>7, <2>1
  <2>5. /\ type \in PlainTypes /\ type \notin {"text", "raw"} /\ type # "content"
    BY <1>3 DEF EntryTypes, PlainTypes
  <2>6. HasPlainType(type, x, B) /\ FitsPlain(type, x) BY <1>5
  <2> HIDE DEF d, type, x, u
  <2>7. ReadPlain(d, type) = [ok |-> TRUE, rest |-> u, got |-> Append(d.got, x)]
    BY <2>2, <2>3, <2>4, <2>5, <2>6, PlainIsRead DEF V
  <2> QED BY <2>2, <2>7 DEF d, x, u
<1>9. e[0] = [ok |-> TRUE, rest |-> rests[0], got |-> <<>>]
  <2>1. cur.ok = TRUE BY DEF Cursors
  <2> QED BY <1>2, <1>4, <1>7, <2>1
<1>10. e[n].ok /\ e[n].rest = t /\ e[n].got = v
  <2>1. e[n].ok /\ e[n].rest = rests[n] /\ e[n].got = v
    <3>1. ReadsOff(e, rests, v, n) BY <1>8, <1>9 DEF ReadsOff
    <3>2. n \in Nat /\ v \in Seq(V) /\ Len(v) = n BY <1>3, <1>4
    <3>3. e \in CursorsTo(n, B, V) BY <1>2 DEF CursorsTo
    <3>4. rests \in RestsTo(n, B) BY DEF RestsTo
    <3> QED BY <3>1, <3>2, <3>3, <3>4, AllRead
  <2> QED BY <1>7, <2>1
<1> DEFINE a == Append(cur.got, v)
           last == e[n]
<1>11. last \in Cursors(B, V) BY <1>2, <1>3
<1>12. a \in Seq(S)
  <2>1. cur.got \in Seq(S) /\ v \in S BY <1>4 DEF Cursors, Entries, V
  <2> QED BY <2>1, AppendProperties
<1>13. ReadEntry(cur, types) = [last EXCEPT !.got = a] /\ last.ok = TRUE /\ last.rest = t
  BY <1>6, <1>10, <1>11 DEF Cursors
<1> HIDE DEF a, last
<1>14. [last EXCEPT !.got = a] = [ok |-> last.ok, rest |-> last.rest, got |-> a]
  BY <1>11, <1>12, Holding
<1>15. ReadEntry(cur, types) = [ok |-> TRUE, rest |-> t, got |-> a] BY <1>13, <1>14
<1> QED BY <1>15 DEF a

-----------------------------------------------------------------------------
(* Lists.                                                                  *)

Lists(B) == Seq(Entries(B))
HasEntries(types, v, B) == IsSequence(v) /\ \A i \in DOMAIN v : HasPlainTypes(types, v[i], B)
FitsList(types, v) == Len(v) < W /\ \A i \in 1 .. Len(v) : FitsPlains(types, v[i])
EntryParts(types, v) == [i \in DOMAIN v |-> Concat(types, v[i])]
ListField(types, v) == <<Len(v) % W>> \o FlattenSeq(EntryParts(types, v))

\* The cursors before a list and after each of its n entries.
IsListing(c, cur, types, n, B) ==
  /\ c \in [0 .. n -> Cursors(B, Entries(B))]
  /\ c[0] = [ok |-> cur.ok, rest |-> cur.rest, got |-> <<>>]
  /\ \A i \in 1 .. n : c[i] = ReadEntry(c[i - 1], types)

LEMMA Listings ==
  ASSUME NEW B \in SUBSET Nat, NEW S, NEW cur \in Cursors(B, S),
         NEW types \in Seq(PlainTypes), NEW n \in Nat
  PROVE  IsListing(Listing(cur, types, n), cur, types, n, B)
<1> DEFINE D == Cursors(B, Entries(B))
           base == [cur EXCEPT !.got = <<>>]
           step == [p \in (1 .. n) \X D |-> ReadEntry(p[2], types)]
           Is(f) == f = [i \in 0 .. n |-> IF i = 0 THEN base ELSE ReadEntry(f[i - 1], types)]
<1>1. base \in D /\ base = [ok |-> cur.ok, rest |-> cur.rest, got |-> <<>>] BY Emptied
<1>2. \A d \in D : ReadEntry(d, types) \in D BY ReadEntryReads
<1> HIDE DEF D, base
<1>3. step \in Steps(1 .. n, D) BY <1>2 DEF Steps
<1> HIDE DEF step
<1>4. PICK f \in [0 .. n -> D] : Follows(f, n, base, step)
  <2>1. base \in D BY <1>1
  <2> QED BY <1>3, <2>1, Following
<1>5. ASSUME NEW i \in 1 .. n PROVE f[i] = ReadEntry(f[i - 1], types)
  <2>1. i - 1 \in 0 .. n OBVIOUS
  <2>2. f[i - 1] \in D BY <1>4, <2>1
  <2>3. step[<<i, f[i - 1]>>] = ReadEntry(f[i - 1], types) BY <2>2 DEF step
  <2> QED BY <1>4, <2>3 DEF Follows
<1>6. Is(f)
  <2>1. \A i \in 0 .. n : i = 0 \/ i \in 1 .. n OBVIOUS
  <2> QED BY <1>4, <1>5, <2>1 DEF Follows
<1>7. Listing(cur, types, n) = CHOOSE g : Is(g) BY DEF Listing, base
<1>8. Is(Listing(cur, types, n))
  <2> HIDE DEF Is
  <2> QED BY <1>6, <1>7
<1> DEFINE F == Listing(cur, types, n)
<1> HIDE DEF F
<1>9. Is(F) BY <1>8 DEF F
<1>10. F[0] = base /\ \A i \in 1 .. n : F[i] = ReadEntry(F[i - 1], types)
  <2>1. \A i \in 1 .. n : i \in 0 .. n /\ i # 0 OBVIOUS
  <2>2. 0 \in 0 .. n OBVIOUS
  <2> QED BY <1>9, <2>1, <2>2 DEF Is
<1>11. F \in [0 .. n -> D]
  <2>1. IsFrom0To(F, n) BY <1>9 DEF Is, IsFrom0To
  <2>2. F[0] \in D BY <1>1, <1>10
  <2>3. \A i \in 1 .. n : F[i - 1] \in D => F[i] \in D BY <1>2, <1>10
  <2> QED BY <2>1, <2>2, <2>3, Stays
<1> QED BY <1>1, <1>10, <1>11 DEF F, D, IsListing

ListSpelt(types, v, part) ==
  \E parts \in Seq(Seq(Cells)) :
    /\ Len(parts) = Len(v) /\ part = <<Len(v) % W>> \o FlattenSeq(parts)
    /\ \A i \in 1 .. Len(v) : EntrySpelt(types, v[i], parts[i])

\* A list is read as a sequence of entries.
LEMMA ReadListReads ==
  ASSUME NEW B \in SUBSET Nat, NEW S, Lists(B) \subseteq S,
         NEW cur \in Cursors(B, S), cur.ok, NEW types \in Seq(PlainTypes)
  PROVE  LET c == ReadList(cur, types)
         IN  /\ c \in Cursors(B, S)
             /\ c.ok => \E v \in Lists(B), part \in Seq(B) :
                          /\ HasEntries(types, v, B) /\ Reads(cur, c, v, part)
                          /\ B = Cells => FitsList(types, v) /\ ListSpelt(types, v, part)
<1> DEFINE n == Length(cur)
           skip == Skip(cur)
           V == Entries(B)
           e == Listing(skip, types, n)
           last == e[n]
           c == ReadList(cur, types)
           Right(v, part) ==
             /\ HasEntries(types, v, B) /\ Reads(cur, c, v, part)
             /\ B = Cells => FitsList(types, v) /\ ListSpelt(types, v, part)
           Goal == c \in Cursors(B, S) /\ (c.ok => \E v \in Lists(B), part \in Seq(B) : Right(v, part))
<1> SUFFICES Goal OBVIOUS
<1>1. CASE cur.rest = <<>>
  <2>1. c = Bad(cur) BY <1>1 DEF ReadList
  <2> QED BY <2>1, BadType
<1>2. CASE cur.rest # <<>>
  <2>1. /\ skip \in Cursors(B, S) /\ n \in B /\ skip.ok = cur.ok
        /\ skip.got = cur.got /\ cur.rest = <<n>> \o skip.rest
    BY <1>2, SkipReads
  <2>2. c = [last EXCEPT !.got = Append(cur.got, last.got)] BY <1>2 DEF ReadList
  <2> HIDE DEF n, skip
  <2>3. n \in Nat BY <2>1
  <2>4. /\ e \in [0 .. n -> Cursors(B, V)]
        /\ e[0] = [ok |-> skip.ok, rest |-> skip.rest, got |-> <<>>]
        /\ \A i \in 1 .. n : e[i] = ReadEntry(e[i - 1], types)
    <3>1. skip \in Cursors(B, S) BY <2>1
    <3>2. IsListing(e, skip, types, n, B) BY <2>3, <3>1, Listings
    <3> QED BY <3>2 DEF IsListing
  <2> HIDE DEF e, c
  <2>5. last \in Cursors(B, V) BY <2>3, <2>4
  <2>6. last.got \in Lists(B) /\ cur.got \in Seq(S) BY <2>5 DEF Cursors, Lists
  <2>7. Append(cur.got, last.got) \in Seq(S)
    <3> HIDE DEF last
    <3>1. last.got \in S BY <2>6
    <3> QED BY <2>6, <3>1, AppendProperties
  <2>8. /\ c \in Cursors(B, S) /\ c.ok = last.ok /\ c.rest = last.rest
        /\ c.got = Append(cur.got, last.got)
    <3> HIDE DEF last
    <3> QED BY <2>2, <2>5, <2>7 DEF Cursors
  <2> SUFFICES ASSUME c.ok
               PROVE  \E v \in Lists(B), part \in Seq(B) : Right(v, part)
    BY <2>8
  <2> DEFINE IsRight(v, part) ==
               /\ HasPlainTypes(types, v, B)
               /\ B = Cells => FitsPlains(types, v) /\ EntrySpelt(types, v, part)
             R == {q \in (1 .. n) \X V \X Seq(B) : IsRight(q[2], q[3])}
  <2>9. \A i \in 1 .. n : e[i].ok => \E v \in V, part \in Seq(B) :
          Reads(e[i - 1], e[i], v, part) /\ <<i, v, part>> \in R
    <3> SUFFICES ASSUME NEW i \in 1 .. n, e[i].ok
                 PROVE  \E v \in V, part \in Seq(B) :
                          Reads(e[i - 1], e[i], v, part) /\ <<i, v, part>> \in R
      OBVIOUS
    <3> DEFINE d == e[i - 1]
    <3>1. d \in Cursors(B, V) /\ e[i] = ReadEntry(d, types)
      <4>1. i - 1 \in 0 .. n BY <2>3
      <4> QED BY <2>4, <4>1
    <3>2. PICK v \in V, part \in Seq(B) :
            /\ HasPlainTypes(types, v, B) /\ Reads(d, e[i], v, part)
            /\ B = Cells => FitsPlains(types, v) /\ EntrySpelt(types, v, part)
      <4> HIDE DEF d
      <4>1. ReadEntry(d, types).ok BY <3>1
      <4> QED BY <3>1, <4>1, ReadEntryReads
    <3>3. <<i, v, part>> \in R BY <3>2
    <3> QED BY <3>2, <3>3
  <2>10. R \in SUBSET ((1 .. n) \X V \X Seq(B)) OBVIOUS
  <2> DEFINE v == last.got
  <2>11. last.ok /\ e[0].got = <<>> BY <2>4, <2>8
  <2>12. /\ e[0].ok
         /\ \E parts \in Seq(Seq(B)) :
              /\ v \in Seq(V) /\ Len(v) = n /\ Len(parts) = n
              /\ e[0].rest = FlattenSeq(parts) \o last.rest
              /\ \A i \in 1 .. n : <<i, v[i], parts[i]>> \in R
    <3>1. e \in [0 .. n -> Cursors(B, V)] BY <2>4
    <3> HIDE DEF R, V
    <3> QED BY <2>3, <2>9, <2>10, <2>11, <3>1, Readings
  <2>13. PICK parts \in Seq(Seq(B)) :
           /\ v \in Seq(V) /\ Len(v) = n /\ Len(parts) = n
           /\ e[0].rest = FlattenSeq(parts) \o last.rest
           /\ \A i \in 1 .. n : <<i, v[i], parts[i]>> \in R
    BY <2>12
  <2>14. \A i \in 1 .. n : IsRight(v[i], parts[i]) BY <2>13
  <2> HIDE DEF R
  <2> DEFINE a == <<n>>
             f == FlattenSeq(parts)
  <2>15. f \in Seq(B) BY Flattened
  <2>16. a \in Seq(B) BY <2>1
  <2>17. HasEntries(types, v, B)
    <3>1. IsSequence(v) BY <2>13, SequenceIs
    <3>2. DOMAIN v = 1 .. n BY <2>13, LenProperties
    <3> QED BY <2>14, <3>1, <3>2 DEF HasEntries
  <2>18. Reads(cur, c, v, a \o f)
    <3> DEFINE u == last.rest
    <3>1. u \in Seq(B) BY <2>5 DEF Cursors
    <3>2. cur.rest = a \o (f \o u)
      <4>1. skip.rest = e[0].rest BY <2>4
      <4>2. skip.rest = f \o u BY <2>13, <4>1
      <4>3. cur.rest = a \o skip.rest BY <2>1
      <4> QED BY <4>2, <4>3
    <3>3. c.rest = u /\ c.got = Append(cur.got, v) BY <2>8
    <3> HIDE DEF a, f, u, v
    <3>4. (a \o f) \o u = a \o (f \o u) BY <2>15, <2>16, <3>1, Regroup
    <3> QED BY <3>2, <3>3, <3>4 DEF Reads
  <2>19. ASSUME B = Cells PROVE FitsList(types, v) /\ ListSpelt(types, v, a \o f)
    <3>1. FitsList(types, v)
      <4>1. n < W BY <2>1, <2>19, WireAssumption DEF Cells
      <4> QED BY <2>13, <2>14, <2>19, <4>1 DEF FitsList
    <3>2. \A i \in 1 .. n : EntrySpelt(types, v[i], parts[i]) BY <2>14, <2>19
    <3>3. Len(v) % W = n BY <2>1, <2>13, <2>19, SmallCell
    <3>4. ListSpelt(types, v, a \o f)
      <4> HIDE DEF v
      <4> QED BY <2>13, <2>19, <3>2, <3>3 DEF ListSpelt
    <3> QED BY <3>1, <3>4
  <2>20. a \o f \in Seq(B)
    <3> HIDE DEF a, f
    <3> QED BY <2>15, <2>16, ConcatProperties
  <2> HIDE DEF v, a, f
  <2>21. v \in Lists(B) BY <2>6 DEF v
  <2>22. Right(v, a \o f) BY <2>17, <2>18, <2>19
  <2> HIDE DEF Right
  <2> QED BY <2>20, <2>21, <2>22
<1> QED BY <1>1, <1>2

\* What a list is written as.
LEMMA ListType ==
  ASSUME NEW B \in SUBSET Nat, Cells \subseteq B, NEW types \in Seq(PlainTypes),
         NEW v, HasEntries(types, v, B)
  PROVE  /\ EntryParts(types, v) \in Seq(Seq(B)) /\ Len(EntryParts(types, v)) = Len(v)
         /\ \A i \in 1 .. Len(v) : EntryParts(types, v)[i] = Concat(types, v[i])
         /\ FlattenSeq(EntryParts(types, v)) \in Seq(B)
         /\ ListField(types, v) \in Seq(B)
         /\ v \in Lists(B) /\ Len(v) \in Nat
         /\ \A i \in 1 .. Len(v) : HasPlainTypes(types, v[i], B)
<1> DEFINE n == Len(v)
           p == EntryParts(types, v)
           D == Seq(B)
           f == FlattenSeq(p)
           a == <<n % W>>
<1>1. IsSequence(v) /\ n \in Nat BY DEF HasEntries, IsSequence
<1>2. DOMAIN v = 1 .. n
  <2>1. v = [i \in 1 .. n |-> v[i]] BY <1>1 DEF IsSequence
  <2> HIDE DEF n
  <2> QED BY <2>1
<1>3. \A i \in 1 .. n : HasPlainTypes(types, v[i], B) BY <1>2 DEF HasEntries
<1>4. \A i \in 1 .. n : Concat(types, v[i]) \in D /\ v[i] \in Entries(B) BY <1>3, EntryType
<1>5. v \in Lists(B) BY <1>1, <1>4, SequenceOf DEF Lists
<1>6. p = [i \in 1 .. n |-> Concat(types, v[i])] BY <1>2 DEF EntryParts
<1>7. n % W \in B BY <1>1, LengthCell
<1> HIDE DEF n, p, D
<1>8. \A i \in 1 .. n : p[i] = Concat(types, v[i]) BY <1>6
<1>9. p \in Seq(D) /\ Len(p) = n
  <2>1. p \in [1 .. n -> D] BY <1>4, <1>6
  <2> QED BY <1>1, <2>1, Enumerated
<1>10. f \in Seq(B) BY <1>9, Flattened DEF D
<1>11. a \in Seq(B) BY <1>7
<1>12. ListField(types, v) = a \o f BY DEF ListField, p, n
<1> HIDE DEF a, f
<1>13. a \o f \in Seq(B) BY <1>10, <1>11, ConcatProperties
<1> QED BY <1>1, <1>3, <1>5, <1>8, <1>9, <1>10, <1>12, <1>13 DEF n, p, D, f

\* A list whose lengths fit is read as it was written.
LEMMA ListIsRead ==
  ASSUME NEW B \in SUBSET Nat, Cells \subseteq B, NEW S, Lists(B) \subseteq S,
         NEW cur \in Cursors(B, S), cur.ok, NEW types \in Seq(EntryTypes),
         NEW v, HasEntries(types, v, B), FitsList(types, v),
         NEW t \in Seq(B), cur.rest = ListField(types, v) \o t
  PROVE  ReadList(cur, types) = [ok |-> TRUE, rest |-> t, got |-> Append(cur.got, v)]
<1> DEFINE n == Len(v)
           V == Entries(B)
           skip == Skip(cur)
           e == Listing(skip, types, n)
           p == EntryParts(types, v)
           f == FlattenSeq(p)
           w == f \o t
<1>1. types \in Seq(PlainTypes)
  <2>1. EntryTypes \subseteq PlainTypes BY DEF EntryTypes, PlainTypes
  <2> QED BY <2>1, SeqMonotonic
<1>2. /\ p \in Seq(Seq(B)) /\ Len(p) = n
      /\ \A i \in 1 .. n : p[i] = Concat(types, v[i]) /\ HasPlainTypes(types, v[i], B)
      /\ f \in Seq(B) /\ v \in Seq(V) /\ n \in Nat
  BY <1>1, ListType DEF Lists
<1>3. n < W /\ \A i \in 1 .. n : FitsPlains(types, v[i]) BY DEF FitsList
<1>4. n \in B /\ n % W = n
  <2> HIDE DEF n
  <2>1. n \in Cells BY <1>2, <1>3, WireAssumption DEF Cells
  <2> QED BY <2>1, SmallCell
<1>5. cur.rest = <<n>> \o w
  <2> DEFINE a == <<n>>
  <2>1. ListField(types, v) = a \o f BY <1>4 DEF ListField
  <2>2. a \in Seq(B) BY <1>4
  <2> HIDE DEF a, f
  <2>3. (a \o f) \o t = a \o (f \o t) BY <1>2, <2>2, Regroup
  <2> QED BY <2>1, <2>3 DEF a
<1>6. w \in Seq(B)
  <2> HIDE DEF f
  <2> QED BY <1>2, ConcatProperties
<1> HIDE DEF n, w, p, f
<1>7. cur.rest # <<>> /\ Length(cur) = n /\ Tail(cur.rest) = w
  BY <1>4, <1>5, <1>6, First DEF Length
<1>8. skip \in Cursors(B, S) /\ skip.ok = TRUE /\ skip.got = cur.got /\ skip.rest = w
  <2>1. skip \in Cursors(B, S) /\ skip.ok = cur.ok /\ skip.got = cur.got
    BY <1>7, SkipReads
  <2>2. skip.rest = w BY <1>7 DEF Skip, Cursors
  <2>3. cur.ok = TRUE BY DEF Cursors
  <2> QED BY <2>1, <2>2, <2>3
<1>9. ReadList(cur, types) = [e[n] EXCEPT !.got = Append(cur.got, e[n].got)]
  BY <1>7 DEF ReadList
<1> HIDE DEF skip, V
<1>10. /\ e \in [0 .. n -> Cursors(B, V)]
       /\ e[0] = [ok |-> TRUE, rest |-> w, got |-> <<>>]
       /\ \A i \in 1 .. n : e[i] = ReadEntry(e[i - 1], types)
  <2>1. IsListing(e, skip, types, n, B) BY <1>1, <1>2, <1>8, Listings
  <2> QED BY <1>8, <2>1 DEF IsListing, V
<1> HIDE DEF e
<1>11. PICK rests \in [0 .. n -> Seq(B)] :
         /\ rests[0] = w /\ rests[n] = t
         /\ \A i \in 1 .. n : rests[i - 1] = p[i] \o rests[i]
  <2>1. PICK rests \in [0 .. Len(p) -> Seq(B)] : Leave(rests, p, t) BY <1>2, Rests
  <2> QED BY <1>2, <2>1 DEF Leave, w, f
<1>12. ASSUME NEW i \in 1 .. n, e[i - 1].ok, e[i - 1].rest = rests[i - 1]
       PROVE  e[i] = [ok |-> TRUE, rest |-> rests[i], got |-> Append(e[i - 1].got, v[i])]
  <2> DEFINE d == e[i - 1]
             x == v[i]
             u == rests[i]
  <2>1. i - 1 \in 0 .. n /\ i \in 0 .. n BY <1>2
  <2>2. d \in Cursors(B, V) /\ d.ok /\ e[i] = ReadEntry(d, types) BY <1>10, <1>12, <2>1
  <2>3. d.rest = Concat(types, x) \o u BY <1>2, <1>11, <1>12
  <2>4. u \in Seq(B) BY <1>11, <2>1
  <2>5. HasPlainTypes(types, x, B) /\ FitsPlains(types, x) BY <1>2, <1>3
  <2> HIDE DEF d, x, u
  <2>6. ReadEntry(d, types) = [ok |-> TRUE, rest |-> u, got |-> Append(d.got, x)]
    BY <2>2, <2>3, <2>4, <2>5, EntryIsRead DEF V
  <2> QED BY <2>2, <2>6 DEF d, x, u
<1>13. e[n].ok /\ e[n].rest = t /\ e[n].got = v
  <2>1. e[n].ok /\ e[n].rest = rests[n] /\ e[n].got = v
    <3>1. ReadsOff(e, rests, v, n) BY <1>10, <1>11, <1>12 DEF ReadsOff
    <3>2. n \in Nat /\ v \in Seq(V) /\ Len(v) = n BY <1>2 DEF n
    <3>3. e \in CursorsTo(n, B, V) BY <1>10 DEF CursorsTo
    <3>4. rests \in RestsTo(n, B) BY DEF RestsTo
    <3> QED BY <3>1, <3>2, <3>3, <3>4, AllRead
  <2> QED BY <1>11, <2>1
<1> DEFINE a == Append(cur.got, v)
           last == e[n]
<1>14. last \in Cursors(B, V) BY <1>2, <1>10
<1>15. a \in Seq(S)
  <2>1. cur.got \in Seq(S) /\ v \in S BY <1>2 DEF Cursors, Lists, V
  <2> QED BY <2>1, AppendProperties
<1>16. ReadList(cur, types) = [last EXCEPT !.got = a] /\ last.ok = TRUE /\ last.rest = t
  BY <1>9, <1>13, <1>14 DEF Cursors
<1> HIDE DEF a, last
<1>17. [last EXCEPT !.got = a] = [ok |-> last.ok, rest |-> last.rest, got |-> a]
  BY <1>14, <1>15, Holding
<1>18. ReadList(cur, types) = [ok |-> TRUE, rest |-> t, got |-> a] BY <1>16, <1>17
<1> QED BY <1>18 DEF a

-----------------------------------------------------------------------------
(* Fields and whole payloads.                                              *)

FieldTypes == PlainTypes \cup DOMAIN Entry
FieldValues(B) == PlainValues(B) \cup Lists(B)
FitsField(type, v) ==
  IF type \in DOMAIN Entry THEN FitsList(Entry[type], v) ELSE FitsPlain(type, v)

FieldSpelt(type, v, part) ==
  IF type \in DOMAIN Entry THEN ListSpelt(Entry[type], v, part) ELSE Spelt(type, v, part)

LEMMA EntryShape ==
  /\ DOMAIN Entry = {"strs", "infos"} /\ DOMAIN Entry \cap PlainTypes = {}
  /\ \A type \in DOMAIN Entry : Entry[type] \in Seq(EntryTypes) /\ Entry[type] \in Seq(PlainTypes)
<1>1. DOMAIN Entry = {"strs", "infos"} BY DEF Entry
<1>2. DOMAIN Entry \cap PlainTypes = {} BY <1>1 DEF PlainTypes
<1>3. ASSUME NEW type \in DOMAIN Entry
      PROVE  Entry[type] \in Seq(EntryTypes) /\ Entry[type] \in Seq(PlainTypes)
  <2>1. Entry[type] = <<"str">> \/ Entry[type] = <<"str", "str", "int", "flag">>
    BY <1>1 DEF Entry
  <2>2. {"str", "int", "flag"} \subseteq EntryTypes BY DEF EntryTypes
  <2>3. {"str", "int", "flag"} \subseteq PlainTypes BY DEF PlainTypes
  <2>4. CASE Entry[type] = <<"str">> BY <2>2, <2>3, <2>4
  <2>5. CASE Entry[type] = <<"str", "str", "int", "flag">> BY <2>2, <2>3, <2>5
  <2> QED BY <2>1, <2>4, <2>5
<1> QED BY <1>1, <1>2, <1>3

LEMMA FieldOfList ==
  ASSUME NEW type \in DOMAIN Entry, NEW v, NEW B
  PROVE  /\ HasType(type, v, B) <=> HasEntries(Entry[type], v, B)
         /\ FitsField(type, v) <=> FitsList(Entry[type], v)
         /\ Field(type, v) = ListField(Entry[type], v)
BY DEF HasType, HasEntries, FitsField, Field, ListField, EntryParts

LEMMA FieldOfPlain ==
  ASSUME NEW type \in PlainTypes, NEW v, NEW B
  PROVE  /\ HasType(type, v, B) <=> HasPlainType(type, v, B)
         /\ FitsField(type, v) <=> FitsPlain(type, v)
         /\ Field(type, v) = PlainField(type, v)
<1>1. type \notin DOMAIN Entry BY EntryShape
<1> QED BY <1>1 DEF HasType, FitsField, Field

LEMMA ReadFieldReads ==
  ASSUME NEW B \in SUBSET Nat, NEW cur \in Cursors(B, FieldValues(B)),
         NEW type \in FieldTypes
  PROVE  LET c == ReadField(cur, type)
         IN  /\ c \in Cursors(B, FieldValues(B))
             /\ c.ok => \E v \in FieldValues(B), part \in Seq(B) :
                          /\ HasType(type, v, B) /\ Reads(cur, c, v, part)
                          /\ B = Cells => FitsField(type, v) /\ FieldSpelt(type, v, part)
<1> DEFINE S == FieldValues(B)
           c == ReadField(cur, type)
           Right(v, part) ==
             /\ HasType(type, v, B) /\ Reads(cur, c, v, part)
             /\ B = Cells => FitsField(type, v) /\ FieldSpelt(type, v, part)
           Goal == c \in Cursors(B, S) /\ (c.ok => \E v \in S, part \in Seq(B) : Right(v, part))
<1> SUFFICES Goal OBVIOUS
<1>1. PlainValues(B) \subseteq S /\ Lists(B) \subseteq S BY DEF FieldValues
<1> HIDE DEF S
<1>2. CASE ~cur.ok
  <2>1. c = cur BY <1>2 DEF ReadField, ReadPlain
  <2> QED BY <1>2, <2>1 DEF S
<1>3. CASE cur.ok /\ type \in DOMAIN Entry
  <2> DEFINE types == Entry[type]
  <2>1. types \in Seq(PlainTypes) BY <1>3, EntryShape
  <2>2. c = ReadList(cur, types) BY <1>3 DEF ReadField
  <2>3. cur \in Cursors(B, S) /\ cur.ok BY <1>3 DEF S
  <2> HIDE DEF types
  <2>4. /\ c \in Cursors(B, S)
        /\ c.ok => \E v \in Lists(B), part \in Seq(B) :
                     /\ HasEntries(types, v, B) /\ Reads(cur, c, v, part)
                     /\ B = Cells => FitsList(types, v) /\ ListSpelt(types, v, part)
    <3> DEFINE d == ReadList(cur, types)
    <3>1. /\ d \in Cursors(B, S)
          /\ d.ok => \E v \in Lists(B), part \in Seq(B) :
                       /\ HasEntries(types, v, B) /\ Reads(cur, d, v, part)
                       /\ B = Cells => FitsList(types, v) /\ ListSpelt(types, v, part)
      BY <1>1, <2>1, <2>3, ReadListReads
    <3> HIDE DEF c, d
    <3>2. c = d BY <2>2 DEF d
    <3> QED BY <3>1, <3>2
  <2> SUFFICES ASSUME c.ok PROVE \E v \in S, part \in Seq(B) : Right(v, part) BY <2>4
  <2> HIDE DEF c
  <2>5. PICK v \in Lists(B), part \in Seq(B) :
          /\ HasEntries(types, v, B) /\ Reads(cur, c, v, part)
          /\ B = Cells => FitsList(types, v) /\ ListSpelt(types, v, part)
    BY <2>4
  <2>6. /\ HasType(type, v, B) <=> HasEntries(types, v, B)
        /\ FitsField(type, v) <=> FitsList(types, v)
        /\ FieldSpelt(type, v, part) <=> ListSpelt(types, v, part)
    BY <1>3, FieldOfList DEF types, FieldSpelt
  <2>7. Right(v, part) BY <2>5, <2>6
  <2>8. v \in S BY <1>1
  <2> HIDE DEF Right
  <2> QED BY <2>7, <2>8
<1>4. CASE cur.ok /\ type \in PlainTypes
  <2>1. type \in PlainTypes BY <1>4
  <2>2. c = ReadPlain(cur, type) BY <1>4, EntryShape DEF ReadField
  <2>3. cur \in Cursors(B, S) BY DEF S
  <2>4. /\ c \in Cursors(B, S)
        /\ c.ok => \E v \in PlainValues(B), part \in Seq(B) :
                     /\ HasPlainType(type, v, B) /\ Reads(cur, c, v, part)
                     /\ B = Cells => FitsPlain(type, v) /\ Spelt(type, v, part)
    BY <1>1, <2>1, <2>2, <2>3, ReadPlainReads
  <2> SUFFICES ASSUME c.ok PROVE \E v \in S, part \in Seq(B) : Right(v, part) BY <2>4
  <2> HIDE DEF c
  <2>5. PICK v \in PlainValues(B), part \in Seq(B) :
          /\ HasPlainType(type, v, B) /\ Reads(cur, c, v, part)
          /\ B = Cells => FitsPlain(type, v) /\ Spelt(type, v, part)
    BY <2>4
  <2>6. /\ HasType(type, v, B) <=> HasPlainType(type, v, B)
        /\ FitsField(type, v) <=> FitsPlain(type, v)
        /\ FieldSpelt(type, v, part) <=> Spelt(type, v, part)
    BY <2>1, FieldOfPlain, EntryShape DEF FieldSpelt
  <2>7. Right(v, part) BY <2>5, <2>6
  <2>8. v \in S BY <1>1
  <2> HIDE DEF Right
  <2> QED BY <2>7, <2>8
<1> QED BY <1>2, <1>3, <1>4 DEF FieldTypes

LEMMA FieldType ==
  ASSUME NEW B \in SUBSET Nat, Cells \subseteq B, NEW type \in FieldTypes,
         NEW v, HasType(type, v, B)
  PROVE  Field(type, v) \in Seq(B) /\ v \in FieldValues(B)
<1>1. CASE type \in DOMAIN Entry
  <2>1. HasEntries(Entry[type], v, B) /\ Field(type, v) = ListField(Entry[type], v)
    BY <1>1, FieldOfList
  <2>2. Entry[type] \in Seq(PlainTypes) BY <1>1, EntryShape
  <2>3. ListField(Entry[type], v) \in Seq(B) /\ v \in Lists(B) BY <2>1, <2>2, ListType
  <2> QED BY <2>1, <2>3 DEF FieldValues
<1>2. CASE type \in PlainTypes
  <2>1. HasPlainType(type, v, B) /\ Field(type, v) = PlainField(type, v)
    BY <1>2, FieldOfPlain
  <2>2. PlainField(type, v) \in Seq(B) /\ v \in PlainValues(B) BY <1>2, <2>1, PlainFieldType
  <2> QED BY <2>1, <2>2 DEF FieldValues
<1> QED BY <1>1, <1>2 DEF FieldTypes

LEMMA FieldIsRead ==
  ASSUME NEW B \in SUBSET Nat, Cells \subseteq B, NEW cur \in Cursors(B, FieldValues(B)),
         cur.ok, NEW type \in FieldTypes, NEW v, HasType(type, v, B), FitsField(type, v),
         NEW t \in Seq(B), cur.rest = Field(type, v) \o t,
         type \in {"text", "raw"} => t = <<>>, type = "content" => Len(t) = 2
  PROVE  ReadField(cur, type) = [ok |-> TRUE, rest |-> t, got |-> Append(cur.got, v)]
<1> DEFINE S == FieldValues(B)
<1>1. PlainValues(B) \subseteq S /\ Lists(B) \subseteq S /\ cur \in Cursors(B, S)
  BY DEF FieldValues
<1> HIDE DEF S
<1>2. CASE type \in DOMAIN Entry
  <2> DEFINE types == Entry[type]
  <2>1. types \in Seq(EntryTypes) BY <1>2, EntryShape
  <2>2. HasEntries(types, v, B) /\ FitsList(types, v) /\ Field(type, v) = ListField(types, v)
    BY <1>2, FieldOfList
  <2>3. ReadField(cur, type) = ReadList(cur, types) BY <1>2 DEF ReadField
  <2> HIDE DEF types
  <2>4. cur.rest = ListField(types, v) \o t BY <2>2
  <2>5. ReadList(cur, types) = [ok |-> TRUE, rest |-> t, got |-> Append(cur.got, v)]
    BY <1>1, <2>1, <2>2, <2>4, ListIsRead
  <2> QED BY <2>3, <2>5
<1>3. CASE type \in PlainTypes
  <2>1. HasPlainType(type, v, B) /\ FitsPlain(type, v) /\ Field(type, v) = PlainField(type, v)
    BY <1>3, FieldOfPlain
  <2>2. ReadField(cur, type) = ReadPlain(cur, type) BY <1>3, EntryShape DEF ReadField
  <2>3. cur.rest = PlainField(type, v) \o t BY <2>1
  <2>4. ReadPlain(cur, type) = [ok |-> TRUE, rest |-> t, got |-> Append(cur.got, v)]
    BY <1>1, <1>3, <2>1, <2>3, PlainIsRead
  <2> QED BY <2>2, <2>4
<1> QED BY <1>2, <1>3 DEF FieldTypes

\* Only the last field may have no end of its own; the content of a screen is
\* ahead of two integers.
Ends(types) ==
  \A i \in 1 .. Len(types) :
    /\ types[i] \in {"text", "raw"} => i = Len(types)
    /\ types[i] = "content" => Len(types) = i + 2 /\ types[i + 1] = "int" /\ types[i + 2] = "int"

LEMMA LayoutShape ==
  ASSUME NEW kind \in Kinds
  PROVE  Layout[kind] \in Seq(FieldTypes) /\ Ends(Layout[kind])
<1> DEFINE L == Layout[kind]
<1>1. \/ L = <<"int", "int", "opt", "opt">> \/ L = <<"text">> \/ L = <<"str", "int", "int">>
      \/ L = <<"str", "strs">> \/ L = <<"str", "raw">> \/ L = <<>> \/ L = <<"infos">>
      \/ L = <<"content", "int", "int">>
  BY DEF Kinds, Layout
<1>2. {"int", "opt", "text", "str", "strs", "raw", "infos", "content"} \subseteq FieldTypes
  BY EntryShape DEF FieldTypes, PlainTypes
<1> HIDE DEF L
<1>3. CASE L = <<"int", "int", "opt", "opt">>
  <2>1. L \in Seq(FieldTypes) BY <1>2, <1>3
  <2>2. Ends(L) BY <1>3 DEF Ends
  <2> QED BY <2>1, <2>2 DEF L
<1>4. CASE L = <<"text">>
  <2>1. L \in Seq(FieldTypes) BY <1>2, <1>4
  <2>2. Ends(L) BY <1>4 DEF Ends
  <2> QED BY <2>1, <2>2 DEF L
<1>5. CASE L = <<"str", "int", "int">>
  <2>1. L \in Seq(FieldTypes) BY <1>2, <1>5
  <2>2. Ends(L) BY <1>5 DEF Ends
  <2> QED BY <2>1, <2>2 DEF L
<1>6. CASE L = <<"str", "strs">>
  <2>1. L \in Seq(FieldTypes) BY <1>2, <1>6
  <2>2. Ends(L) BY <1>6 DEF Ends
  <2> QED BY <2>1, <2>2 DEF L
<1>7. CASE L = <<"str", "raw">>
  <2>1. L \in Seq(FieldTypes) BY <1>2, <1>7
  <2>2. Ends(L) BY <1>7 DEF Ends
  <2> QED BY <2>1, <2>2 DEF L
<1>8. CASE L = <<>>
  <2>1. L \in Seq(FieldTypes) BY <1>8
  <2>2. Ends(L) BY <1>8 DEF Ends
  <2> QED BY <2>1, <2>2 DEF L
<1>9. CASE L = <<"infos">>
  <2>1. L \in Seq(FieldTypes) BY <1>2, <1>9
  <2>2. Ends(L) BY <1>9 DEF Ends
  <2> QED BY <2>1, <2>2 DEF L
<1>10. CASE L = <<"content", "int", "int">>
  <2>1. L \in Seq(FieldTypes) BY <1>2, <1>10
  <2>2. Ends(L)
    <3>1. Len(L) = 3 /\ L[1] = "content" /\ L[2] = "int" /\ L[3] = "int" BY <1>10
    <3>2. \A i \in 1 .. 3 : i = 1 \/ i = 2 \/ i = 3 OBVIOUS
    <3> QED BY <3>1, <3>2 DEF Ends
  <2> QED BY <2>1, <2>2 DEF L
<1> QED BY <1>1, <1>3, <1>4, <1>5, <1>6, <1>7, <1>8, <1>9, <1>10

\* Only the entries of a list of sessions have a flag.
LEMMA NoFlags ==
  ASSUME NEW kind \in Kinds, kind # "session_list", NEW i \in 1 .. Len(Layout[kind])
  PROVE  Layout[kind][i] \notin {"flag", "infos"}
<1> DEFINE L == Layout[kind]
<1>1. \/ L = <<"int", "int", "opt", "opt">> \/ L = <<"text">> \/ L = <<"str", "int", "int">>
      \/ L = <<"str", "strs">> \/ L = <<"str", "raw">> \/ L = <<>>
      \/ L = <<"content", "int", "int">>
  BY DEF Kinds, Layout
<1> HIDE DEF L
<1>2. i \in 1 .. Len(L) BY DEF L
<1>3. CASE L = <<"int", "int", "opt", "opt">>
  <2>1. i = 1 \/ i = 2 \/ i = 3 \/ i = 4 BY <1>2, <1>3
  <2> QED BY <1>3, <2>1 DEF L
<1>4. CASE L = <<"text">> BY <1>2, <1>4 DEF L
<1>5. CASE L = <<"str", "int", "int">> \/ L = <<"content", "int", "int">>
  <2>1. Len(L) = 3 BY <1>5
  <2>2. i = 1 \/ i = 2 \/ i = 3 BY <1>2, <2>1
  <2> QED BY <1>5, <2>2 DEF L
<1>6. CASE L = <<"str", "strs">> \/ L = <<"str", "raw">>
  <2>1. Len(L) = 2 BY <1>6
  <2>2. i = 1 \/ i = 2 BY <1>2, <2>1
  <2> QED BY <1>6, <2>2 DEF L
<1>7. CASE L = <<>> BY <1>2, <1>7
<1> QED BY <1>1, <1>3, <1>4, <1>5, <1>6, <1>7

\* The cursors before a payload and after each of its fields.
IsDecoding(c, types, payload, B) ==
  /\ c \in [0 .. Len(types) -> Cursors(B, FieldValues(B))]
  /\ c[0] = Cursor(payload)
  /\ \A i \in 1 .. Len(types) : c[i] = ReadField(c[i - 1], types[i])

LEMMA Decodings ==
  ASSUME NEW B \in SUBSET Nat, NEW kind \in Kinds, NEW payload \in Seq(B)
  PROVE  IsDecoding(Decoding(kind, payload), Layout[kind], payload, B)
<1> DEFINE types == Layout[kind]
           n == Len(types)
           D == Cursors(B, FieldValues(B))
           base == Cursor(payload)
           step == [p \in (1 .. n) \X D |-> ReadField(p[2], types[p[1]])]
           Is(f) == f = [i \in 0 .. n |-> IF i = 0 THEN base ELSE ReadField(f[i - 1], types[i])]
<1>1. types \in Seq(FieldTypes) BY LayoutShape
<1>2. base \in D
  <2>1. <<>> \in Seq(FieldValues(B)) OBVIOUS
  <2> QED BY <2>1 DEF Cursor, Cursors
<1> HIDE DEF types
<1>3. n \in Nat /\ \A i \in 1 .. n : types[i] \in FieldTypes
  BY <1>1, LenProperties, ElementOfSeq
<1>4. \A d \in D, type \in FieldTypes : ReadField(d, type) \in D BY ReadFieldReads
<1> HIDE DEF n, D, base
<1>5. step \in Steps(1 .. n, D) BY <1>3, <1>4 DEF Steps
<1> HIDE DEF step
<1>6. PICK f \in [0 .. n -> D] : Follows(f, n, base, step)
  <2>1. n \in Nat BY <1>3
  <2> QED BY <1>2, <1>5, <2>1, Following
<1>7. ASSUME NEW i \in 1 .. n PROVE f[i] = ReadField(f[i - 1], types[i])
  <2>1. i - 1 \in 0 .. n BY <1>3
  <2>2. f[i - 1] \in D BY <1>6, <2>1
  <2>3. step[<<i, f[i - 1]>>] = ReadField(f[i - 1], types[i]) BY <2>2 DEF step
  <2> QED BY <1>6, <2>3 DEF Follows
<1>8. Is(f)
  <2>1. \A i \in 0 .. n : i = 0 \/ i \in 1 .. n OBVIOUS
  <2> QED BY <1>6, <1>7, <2>1 DEF Follows
<1>9. Decoding(kind, payload) = CHOOSE g : Is(g) BY DEF Decoding, n, base, types
<1>10. Is(Decoding(kind, payload))
  <2> HIDE DEF Is
  <2> QED BY <1>8, <1>9
<1> DEFINE F == Decoding(kind, payload)
<1> HIDE DEF F
<1>11. Is(F) BY <1>10 DEF F
<1>12. F[0] = base /\ \A i \in 1 .. n : F[i] = ReadField(F[i - 1], types[i])
  <2>1. \A i \in 1 .. n : i \in 0 .. n /\ i # 0 BY <1>3
  <2>2. 0 \in 0 .. n BY <1>3
  <2> QED BY <1>11, <2>1, <2>2 DEF Is
<1>13. F \in [0 .. n -> D]
  <2>1. IsFrom0To(F, n) BY <1>11 DEF Is, IsFrom0To
  <2>2. n \in Nat /\ F[0] \in D BY <1>2, <1>3, <1>12
  <2>3. \A i \in 1 .. n : F[i - 1] \in D => F[i] \in D BY <1>3, <1>4, <1>12
  <2> QED BY <2>1, <2>2, <2>3, Stays
<1> QED BY <1>12, <1>13 DEF F, n, D, base, types, IsDecoding

FieldParts(types, v) == [i \in DOMAIN v |-> Field(types[i], v[i])]
HasFields(types, v, B) ==
  /\ IsSequence(v) /\ Len(v) = Len(types)
  /\ \A i \in 1 .. Len(types) : HasType(types[i], v[i], B)
FitsFields(types, v) == \A i \in 1 .. Len(types) : FitsField(types[i], v[i])

\* What a message is made of.
LEMMA MessageShape ==
  ASSUME NEW B, NEW m
  PROVE  /\ IsMessageOf(m, B) <=>
              /\ m = [kind |-> m.kind, fields |-> m.fields] /\ m.kind \in Kinds
              /\ HasFields(Layout[m.kind], m.fields, B)
         /\ Encode(m) = FlattenSeq(FieldParts(Layout[m.kind], m.fields))
<1> DEFINE v == m.fields
           types == Layout[m.kind]
<1>1. ASSUME IsSequence(v) PROVE DOMAIN v = 1 .. Len(v)
  <2>1. v = [i \in 1 .. Len(v) |-> v[i]] BY <1>1 DEF IsSequence
  <2> HIDE DEF v
  <2> QED BY <2>1
<1>2. Encode(m) = FlattenSeq(FieldParts(types, v)) BY DEF Encode, FieldParts
<1>3. IsMessageOf(m, B) <=>
        /\ m = [kind |-> m.kind, fields |-> v] /\ m.kind \in Kinds
        /\ IsSequence(v) /\ Len(v) = Len(types)
        /\ \A i \in DOMAIN v : HasType(types[i], v[i], B)
  BY DEF IsMessageOf
<1> HIDE DEF v, types
<1>4. IsMessageOf(m, B) <=>
        /\ m = [kind |-> m.kind, fields |-> v] /\ m.kind \in Kinds /\ HasFields(types, v, B)
  BY <1>1, <1>3 DEF HasFields
<1> QED BY <1>2, <1>4 DEF v, types

LEMMA FitsListIs ==
  ASSUME NEW type \in DOMAIN Entry, NEW v, NEW B, HasEntries(Entry[type], v, B)
  PROVE  FitsList(Entry[type], v) <=>
           /\ Len(v) < W
           /\ \A e \in ToSet(v) : \A k \in DOMAIN e : Entry[type][k] = "str" => Len(e[k]) < W
<1> DEFINE types == Entry[type]
           Told(e) == \A k \in DOMAIN e : types[k] = "str" => Len(e[k]) < W
<1>1. types \in Seq(EntryTypes) BY EntryShape
<1>2. \A k \in 1 .. Len(types) : types[k] # "opt"
  <2>1. types = <<"str">> \/ types = <<"str", "str", "int", "flag">> BY EntryShape DEF Entry
  <2> HIDE DEF types
  <2>2. CASE types = <<"str">> BY <2>2
  <2>3. CASE types = <<"str", "str", "int", "flag">>
    <3>1. Len(types) = 4 BY <2>3
    <3>2. \A k \in 1 .. 4 : k = 1 \/ k = 2 \/ k = 3 \/ k = 4 OBVIOUS
    <3> QED BY <2>3, <3>1, <3>2
  <2> QED BY <2>1, <2>2, <2>3
<1> HIDE DEF types
<1>3. IsSequence(v) /\ DOMAIN v = 1 .. Len(v)
  <2>1. IsSequence(v) BY DEF HasEntries
  <2>2. v = [i \in 1 .. Len(v) |-> v[i]] BY <2>1 DEF IsSequence
  <2> QED BY <2>1, <2>2
<1>4. ASSUME NEW i \in 1 .. Len(v) PROVE FitsPlains(types, v[i]) <=> Told(v[i])
  <2> DEFINE e == v[i]
  <2>1. IsSequence(e) /\ Len(e) = Len(types)
    BY <1>3 DEF HasEntries, HasPlainTypes, types
  <2> HIDE DEF e
  <2>2. DOMAIN e = 1 .. Len(types)
    <3>1. e = [k \in 1 .. Len(e) |-> e[k]] BY <2>1 DEF IsSequence
    <3> QED BY <2>1, <3>1
  <2>3. FitsPlains(types, e) <=> Told(e) BY <1>2, <2>2 DEF FitsPlains, FitsPlain
  <2> QED BY <2>3 DEF e
<1>5. ToSet(v) = {v[i] : i \in 1 .. Len(v)} BY <1>3 DEF ToSet
<1>6. (\A i \in 1 .. Len(v) : Told(v[i])) <=> \A e \in ToSet(v) : Told(e)
  <2> HIDE DEF Told
  <2> QED BY <1>5
<1>7. FitsList(types, v) <=> Len(v) < W /\ \A i \in 1 .. Len(v) : Told(v[i])
  <2> HIDE DEF Told
  <2> QED BY <1>4 DEF FitsList
<1> QED BY <1>6, <1>7 DEF types

LEMMA FitsIs ==
  ASSUME NEW B, NEW m, IsMessageOf(m, B)
  PROVE  Fits(m) <=> FitsFields(Layout[m.kind], m.fields)
<1> DEFINE v == m.fields
           types == Layout[m.kind]
           n == Len(types)
           OK(type, x) ==
             CASE type = "opt" -> x = Absent \/ Len(x) < W - 1
               [] type = "str" -> Len(x) < W
               [] type \in DOMAIN Entry ->
                    Len(x) < W /\ \A e \in ToSet(x) :
                      \A k \in DOMAIN e : Entry[type][k] = "str" => Len(e[k]) < W
               [] OTHER -> TRUE
<1>1. m.kind \in Kinds /\ HasFields(types, v, B) BY MessageShape
<1>2. types \in Seq(FieldTypes) BY <1>1, LayoutShape
<1>3. Fits(m) <=> \A i \in DOMAIN v : OK(types[i], v[i]) BY DEF Fits
<1> HIDE DEF v, types
<1>4. IsSequence(v) /\ Len(v) = n /\ \A i \in 1 .. n : HasType(types[i], v[i], B)
  BY <1>1 DEF HasFields
<1>5. DOMAIN v = 1 .. n
  <2>1. v = [i \in 1 .. Len(v) |-> v[i]] BY <1>4 DEF IsSequence
  <2> QED BY <1>4, <2>1
<1>6. \A i \in 1 .. n : types[i] \in FieldTypes BY <1>2, ElementOfSeq
<1>7. ASSUME NEW type \in FieldTypes, NEW x, HasType(type, x, B)
      PROVE  OK(type, x) <=> FitsField(type, x)
  <2>1. CASE type \in DOMAIN Entry
    <3>1. HasEntries(Entry[type], x, B) /\ (FitsField(type, x) <=> FitsList(Entry[type], x))
      BY <1>7, <2>1, FieldOfList
    <3>2. type # "opt" /\ type # "str" BY <2>1, EntryShape
    <3>3. FitsList(Entry[type], x) <=>
            /\ Len(x) < W
            /\ \A e \in ToSet(x) : \A k \in DOMAIN e : Entry[type][k] = "str" => Len(e[k]) < W
      BY <2>1, <3>1, FitsListIs
    <3> QED BY <2>1, <3>1, <3>2, <3>3
  <2>2. CASE type \in PlainTypes
    <3>1. FitsField(type, x) <=> FitsPlain(type, x) BY <2>2, FieldOfPlain
    <3>2. type \notin DOMAIN Entry BY <2>2, EntryShape
    <3>3. OK(type, x) <=> FitsPlain(type, x)
      <4>1. CASE type = "opt" BY <3>2, <4>1 DEF FitsPlain
      <4>2. CASE type = "str" BY <3>2, <4>2 DEF FitsPlain
      <4>3. CASE type # "opt" /\ type # "str" BY <3>2, <4>3 DEF FitsPlain
      <4> QED BY <4>1, <4>2, <4>3
    <3> QED BY <3>1, <3>3
  <2> QED BY <2>1, <2>2 DEF FieldTypes
<1> HIDE DEF OK
<1>8. \A i \in 1 .. n : OK(types[i], v[i]) <=> FitsField(types[i], v[i]) BY <1>4, <1>6, <1>7
<1> QED BY <1>3, <1>5, <1>8 DEF FitsFields, v, types

LEMMA MessageType ==
  ASSUME NEW B \in SUBSET Nat, Cells \subseteq B, NEW types \in Seq(FieldTypes),
         NEW v, HasFields(types, v, B)
  PROVE  LET p == FieldParts(types, v)
         IN  /\ p \in Seq(Seq(B)) /\ Len(p) = Len(types) /\ FlattenSeq(p) \in Seq(B)
             /\ \A i \in 1 .. Len(types) : p[i] = Field(types[i], v[i])
             /\ v \in Seq(FieldValues(B)) /\ Len(v) = Len(types)
<1> DEFINE n == Len(types)
           p == FieldParts(types, v)
           D == Seq(B)
<1>1. n \in Nat /\ \A i \in 1 .. n : types[i] \in FieldTypes BY LenProperties, ElementOfSeq
<1>2. IsSequence(v) /\ Len(v) = n /\ \A i \in 1 .. n : HasType(types[i], v[i], B)
  BY DEF HasFields
<1>3. DOMAIN v = 1 .. n
  <2>1. v = [i \in 1 .. Len(v) |-> v[i]] BY <1>2 DEF IsSequence
  <2> HIDE DEF n
  <2> QED BY <1>2, <2>1
<1>4. \A i \in 1 .. n : Field(types[i], v[i]) \in D /\ v[i] \in FieldValues(B)
  BY <1>1, <1>2, FieldType
<1>5. v \in Seq(FieldValues(B)) BY <1>2, <1>4, SequenceOf
<1>6. p = [i \in 1 .. n |-> Field(types[i], v[i])] BY <1>3 DEF FieldParts
<1> HIDE DEF n, p, D
<1>7. \A i \in 1 .. n : p[i] = Field(types[i], v[i]) BY <1>6
<1>8. p \in Seq(D) /\ Len(p) = n
  <2>1. p \in [1 .. n -> D] BY <1>4, <1>6
  <2> QED BY <1>1, <2>1, Enumerated
<1>9. FlattenSeq(p) \in Seq(B) BY <1>8, Flattened DEF D
<1> QED BY <1>2, <1>5, <1>7, <1>8, <1>9 DEF n, p, D

\* The payload is e and more.
BeginsWith(payload, e, B) == e \in Seq(B) /\ \E t \in Seq(B) : payload = e \o t

\* How the list of sessions is read.
LEMMA SessionSpelt ==
  ASSUME NEW v, HasPlainTypes(Entry.infos, v, Cells), NEW part, EntrySpelt(Entry.infos, v, part)
  PROVE  \E b \in Cells : AsFlag(b) = v[4] /\ part = Concat(Entry.infos, [v EXCEPT ![4] = b])
<1> DEFINE types == Entry.infos
<1>1. types = <<"str", "str", "int", "flag">> BY DEF Entry
<1>2. /\ Len(types) = 4 /\ DOMAIN types = 1 .. 4 /\ types[4] = "flag"
      /\ \A k \in 1 .. 4 : k # 4 => types[k] # "flag"
  BY <1>1
<1>3. PICK parts \in Seq(Seq(Cells)) :
        /\ Len(parts) = Len(types) /\ part = FlattenSeq(parts)
        /\ \A i \in 1 .. Len(types) : Spelt(types[i], v[i], parts[i])
  BY DEF EntrySpelt
<1>4. IsSequence(v) /\ Len(v) = Len(types) BY DEF HasPlainTypes
<1> HIDE DEF types
<1>5. Spelt("flag", v[4], parts[4]) BY <1>2, <1>3
<1>6. PICK b \in Cells : parts[4] = <<b>> /\ AsFlag(b) = v[4] BY <1>5 DEF Spelt
<1> DEFINE u == [v EXCEPT ![4] = b]
<1>7. DOMAIN v = 1 .. 4
  <2>1. v = [i \in 1 .. Len(v) |-> v[i]] BY <1>4 DEF IsSequence
  <2> QED BY <1>2, <1>4, <2>1
<1>8. u[4] = b /\ \A k \in 1 .. 4 : k # 4 => u[k] = v[k] BY <1>7
<1> HIDE DEF u
<1>9. ASSUME NEW k \in 1 .. 4 PROVE parts[k] = PlainField(types[k], u[k])
  <2>1. CASE k = 4 BY <1>2, <1>6, <1>8, <2>1 DEF PlainField
  <2>2. CASE k # 4
    <3>1. Spelt(types[k], v[k], parts[k]) BY <1>2, <1>3
    <3> QED BY <1>2, <1>8, <2>2, <3>1 DEF Spelt
  <2> QED BY <2>1, <2>2
<1>10. parts = [k \in DOMAIN types |-> PlainField(types[k], u[k])]
  <2>1. parts = [k \in 1 .. 4 |-> parts[k]] BY <1>2, <1>3, LenProperties
  <2> QED BY <1>2, <1>9, <2>1
<1>11. part = Concat(types, u) BY <1>3, <1>10 DEF Concat
<1> QED BY <1>6, <1>11 DEF types, u

\* How a field that has no flag is read.
LEMMA FieldSpeltIs ==
  ASSUME NEW type \in FieldTypes \ {"flag", "infos"}, NEW v, IsSequence(v) \/ type # "strs",
         NEW part, FieldSpelt(type, v, part)
  PROVE  part = Field(type, v)
<1>1. CASE type \in PlainTypes
  <2>1. type \notin DOMAIN Entry BY <1>1, EntryShape
  <2> QED BY <1>1, <2>1, FieldOfPlain DEF FieldSpelt, Spelt
<1>2. CASE type \in DOMAIN Entry
  <2> DEFINE types == Entry[type]
  <2>1. type = "strs" /\ types = <<"str">> BY <1>2, EntryShape DEF Entry
  <2>2. PICK parts \in Seq(Seq(Cells)) :
          /\ Len(parts) = Len(v) /\ part = <<Len(v) % W>> \o FlattenSeq(parts)
          /\ \A i \in 1 .. Len(v) : EntrySpelt(types, v[i], parts[i])
    BY <1>2 DEF FieldSpelt, ListSpelt
  <2>3. DOMAIN v = 1 .. Len(v)
    <3>1. v = [i \in 1 .. Len(v) |-> v[i]] BY <2>1 DEF IsSequence
    <3> QED BY <3>1
  <2> HIDE DEF types
  <2>4. Len(types) = 1 /\ DOMAIN types = 1 .. 1 /\ types[1] = "str" BY <2>1
  <2>5. ASSUME NEW i \in 1 .. Len(v) PROVE parts[i] = Concat(types, v[i])
    <3> DEFINE e == v[i]
    <3>1. PICK p \in Seq(Seq(Cells)) :
            /\ Len(p) = Len(types) /\ parts[i] = FlattenSeq(p)
            /\ \A k \in 1 .. Len(types) : Spelt(types[k], e[k], p[k])
      BY <2>2 DEF EntrySpelt
    <3> HIDE DEF e
    <3>2. \A k \in 1 .. 1 : p[k] = PlainField(types[k], e[k])
      <4>1. \A k \in 1 .. 1 : k = 1 OBVIOUS
      <4>2. Spelt("str", e[1], p[1]) BY <2>4, <3>1
      <4> QED BY <2>4, <4>1, <4>2 DEF Spelt
    <3>3. p = [k \in 1 .. 1 |-> p[k]] BY <2>4, <3>1, LenProperties
    <3>4. p = [k \in DOMAIN types |-> PlainField(types[k], e[k])] BY <2>4, <3>2, <3>3
    <3> QED BY <3>1, <3>4 DEF Concat, e
  <2>6. parts = [i \in 1 .. Len(v) |-> parts[i]] BY <2>2, LenProperties
  <2>7. EntryParts(types, v) = parts BY <2>3, <2>5, <2>6 DEF EntryParts
  <2>8. part = ListField(types, v) BY <2>2, <2>7 DEF ListField
  <2> QED BY <1>2, <2>8, FieldOfList DEF types
<1> QED BY <1>1, <1>2 DEF FieldTypes

\* How a message is read.
LEMMA SpellingsAre ==
  ASSUME NEW m, IsMessageOf(m, Cells), NEW parts \in Seq(Seq(Cells)),
         Len(parts) = Len(Layout[m.kind]),
         \A i \in 1 .. Len(parts) : FieldSpelt(Layout[m.kind][i], m.fields[i], parts[i])
  PROVE  FlattenSeq(parts) \in Spellings(m)
<1> DEFINE types == Layout[m.kind]
           v == m.fields
           n == Len(parts)
<1>1. m = [kind |-> m.kind, fields |-> v] /\ m.kind \in Kinds /\ HasFields(types, v, Cells)
  BY MessageShape
<1>2. /\ IsSequence(v) /\ Len(v) = n /\ DOMAIN v = 1 .. n
      /\ \A i \in 1 .. n : HasType(types[i], v[i], Cells)
  <2>1. IsSequence(v) /\ Len(v) = n BY <1>1 DEF HasFields
  <2>2. v = [i \in 1 .. Len(v) |-> v[i]] BY <2>1 DEF IsSequence
  <2> HIDE DEF v, n
  <2>3. DOMAIN v = 1 .. n BY <2>1, <2>2
  <2> QED BY <1>1, <2>1, <2>3 DEF HasFields, n
<1>3. parts = [i \in 1 .. n |-> parts[i]] BY LenProperties
<1>4. CASE m.kind # "session_list"
  <2>1. \A i \in 1 .. n : types[i] \in FieldTypes \ {"flag", "infos"}
    <3>1. types \in Seq(FieldTypes) BY <1>1, LayoutShape
    <3>2. \A i \in 1 .. n : types[i] \in FieldTypes BY <3>1, ElementOfSeq
    <3>3. \A i \in 1 .. n : types[i] \notin {"flag", "infos"} BY <1>1, <1>4, NoFlags
    <3> QED BY <3>2, <3>3
  <2>2. ASSUME NEW i \in 1 .. n PROVE parts[i] = Field(types[i], v[i])
    <3> DEFINE type == types[i]
               x == v[i]
    <3>1. type \in FieldTypes \ {"flag", "infos"} BY <2>1
    <3>2. FieldSpelt(type, x, parts[i]) OBVIOUS
    <3>3. type = "strs" => IsSequence(x)
      <4>1. type \in DOMAIN Entry => HasEntries(Entry[type], x, Cells) BY <1>2, FieldOfList
      <4> QED BY <4>1, EntryShape DEF HasEntries
    <3> HIDE DEF type, x
    <3>4. parts[i] = Field(type, x) BY <3>1, <3>2, <3>3, FieldSpeltIs
    <3> QED BY <3>4 DEF type, x
  <2> HIDE DEF types, v, n
  <2>3. FieldParts(types, v) = parts BY <1>2, <1>3, <2>2 DEF FieldParts
  <2>4. Encode(m) = FlattenSeq(parts) BY <2>3, MessageShape DEF types, v
  <2> QED BY <1>4, <2>4 DEF Spellings
<1>5. CASE m.kind = "session_list"
  <2> DEFINE infos == v[1]
             entry == Entry.infos
  <2>1. types = <<"infos">> /\ n = 1 BY <1>5 DEF Layout
  <2>2. "infos" \in DOMAIN Entry BY EntryShape
  <2>3. HasEntries(entry, infos, Cells) BY <1>2, <2>1, <2>2, FieldOfList
  <2>4. ListSpelt(entry, infos, parts[1]) BY <2>1, <2>2 DEF FieldSpelt
  <2>5. PICK ps \in Seq(Seq(Cells)) :
          /\ Len(ps) = Len(infos) /\ parts[1] = <<Len(infos) % W>> \o FlattenSeq(ps)
          /\ \A i \in 1 .. Len(infos) : EntrySpelt(entry, infos[i], ps[i])
    BY <2>4 DEF ListSpelt
  <2>6. Len(infos) \in Nat /\ DOMAIN infos = 1 .. Len(infos)
    <3>1. IsSequence(infos) BY <2>3 DEF HasEntries
    <3>2. infos = [i \in 1 .. Len(infos) |-> infos[i]] BY <3>1 DEF IsSequence
    <3>3. Len(infos) \in Nat BY <2>5, LenProperties
    <3> HIDE DEF infos
    <3> QED BY <3>2, <3>3
  <2> HIDE DEF infos, entry
  <2> DEFINE k == Len(infos)
             Of(i, b) == AsFlag(b) = infos[i][4]
                         /\ ps[i] = Concat(entry, [infos[i] EXCEPT ![4] = b])
             alive == [i \in DOMAIN infos |-> CHOOSE b \in Cells : Of(i, b)]
             y == [i \in DOMAIN infos |-> [infos[i] EXCEPT ![4] = alive[i]]]
             u == [kind |-> m.kind, fields |-> <<y>>]
  <2>7. ASSUME NEW i \in DOMAIN infos PROVE alive[i] \in Cells /\ Of(i, alive[i])
    <3> DEFINE e == infos[i]
    <3>1. HasPlainTypes(entry, e, Cells) BY <2>3 DEF HasEntries
    <3>2. EntrySpelt(entry, e, ps[i]) BY <2>5, <2>6
    <3> HIDE DEF e
    <3>3. \E b \in Cells : AsFlag(b) = e[4] /\ ps[i] = Concat(entry, [e EXCEPT ![4] = b])
      BY <3>1, <3>2, SessionSpelt DEF entry
    <3>4. \E b \in Cells : Of(i, b) BY <3>3 DEF e
    <3> HIDE DEF Of
    <3> QED BY <3>4
  <2>8. alive \in {a \in [DOMAIN infos -> Cells] : \A i \in DOMAIN infos : AsFlag(a[i]) = infos[i][4]}
    BY <2>7
  <2> HIDE DEF alive
  <2>9. Encode(u) \in Spellings(m) BY <1>5, <2>8 DEF Spellings, infos
  <2>10. EntryParts(entry, y) = ps
    <3>1. DOMAIN y = 1 .. k BY <2>6
    <3>2. ps = [i \in 1 .. k |-> ps[i]] BY <2>5, LenProperties
    <3>3. \A i \in 1 .. k : ps[i] = Concat(entry, y[i]) BY <2>6, <2>7
    <3> HIDE DEF y, k
    <3> QED BY <3>1, <3>2, <3>3 DEF EntryParts
  <2>11. Len(y) = k BY <2>6
  <2> HIDE DEF y
  <2>12. ListField(entry, y) = parts[1] BY <2>5, <2>10, <2>11 DEF ListField
  <2>13. Field("infos", y) = parts[1] BY <2>2, <2>12, FieldOfList DEF entry
  <2> DEFINE w == <<y>>
  <2>14. FieldParts(types, w) = parts
    <3>1. DOMAIN w = 1 .. 1 /\ w[1] = y OBVIOUS
    <3>2. \A i \in 1 .. 1 : i = 1 OBVIOUS
    <3>3. types[1] = "infos" BY <2>1
    <3>4. parts = [i \in 1 .. 1 |-> parts[i]] BY <1>3, <2>1
    <3> HIDE DEF w, types
    <3> QED BY <2>13, <3>1, <3>2, <3>3, <3>4 DEF FieldParts
  <2>15. Encode(u) = FlattenSeq(FieldParts(types, w)) BY DEF Encode, FieldParts
  <2> HIDE DEF u
  <2> QED BY <2>9, <2>14, <2>15
<1> QED BY <1>4, <1>5

\* What is decoded as a message is one of its kind. Among cells the payload
\* begins with what the message may be read from.
LEMMA DecodeReads ==
  ASSUME NEW B \in SUBSET Nat, NEW kind \in Kinds, NEW payload \in Seq(B),
         NEW m, m = Decode(kind, payload), m # Refused
  PROVE  /\ m.kind = kind /\ IsMessageOf(m, B)
         /\ B = Cells => Fits(m) /\ \E e \in Spellings(m) : BeginsWith(payload, e, B)
<1> DEFINE types == Layout[kind]
           n == Len(types)
           S == FieldValues(B)
           c == Decoding(kind, payload)
           v == c[n].got
<1>1. types \in Seq(FieldTypes) BY LayoutShape
<1>2. c[n].ok /\ m = [kind |-> kind, fields |-> v] BY DEF Decode
<1>3. IsDecoding(c, types, payload, B) BY Decodings
<1> HIDE DEF types, c
<1>4. n \in Nat /\ \A i \in 1 .. n : types[i] \in FieldTypes
  BY <1>1, LenProperties, ElementOfSeq
<1>5. /\ c \in [0 .. n -> Cursors(B, S)] /\ c[0] = Cursor(payload)
      /\ \A i \in 1 .. n : c[i] = ReadField(c[i - 1], types[i])
  BY <1>3 DEF IsDecoding
<1>6. c[0].got = <<>> /\ c[0].rest = payload BY <1>5 DEF Cursor
<1>7. c[n].rest \in Seq(B) BY <1>4, <1>5 DEF Cursors
<1> HIDE DEF S
<1> DEFINE Right(i, x, part) ==
             /\ HasType(types[i], x, B)
             /\ B = Cells => FitsField(types[i], x) /\ FieldSpelt(types[i], x, part)
           R == {q \in (1 .. n) \X S \X Seq(B) : Right(q[1], q[2], q[3])}
<1>8. \A i \in 1 .. n : c[i].ok => \E x \in S, part \in Seq(B) :
        Reads(c[i - 1], c[i], x, part) /\ <<i, x, part>> \in R
  <2> SUFFICES ASSUME NEW i \in 1 .. n, c[i].ok
               PROVE  \E x \in S, part \in Seq(B) :
                        Reads(c[i - 1], c[i], x, part) /\ <<i, x, part>> \in R
    OBVIOUS
  <2> DEFINE d == c[i - 1]
             type == types[i]
  <2>1. d \in Cursors(B, S) /\ type \in FieldTypes /\ c[i] = ReadField(d, type)
    <3>1. i - 1 \in 0 .. n BY <1>4
    <3> QED BY <1>4, <1>5, <3>1
  <2>2. PICK x \in S, part \in Seq(B) :
          /\ HasType(type, x, B) /\ Reads(d, c[i], x, part)
          /\ B = Cells => FitsField(type, x) /\ FieldSpelt(type, x, part)
    <3> HIDE DEF d, type
    <3>1. ReadField(d, type).ok BY <2>1
    <3> QED BY <2>1, <3>1, ReadFieldReads DEF S
  <2>3. <<i, x, part>> \in R BY <2>2
  <2> QED BY <2>2, <2>3
<1>9. R \in SUBSET ((1 .. n) \X S \X Seq(B)) OBVIOUS
<1>10. \E parts \in Seq(Seq(B)) :
         /\ v \in Seq(S) /\ Len(v) = n /\ Len(parts) = n
         /\ c[0].rest = FlattenSeq(parts) \o c[n].rest
         /\ \A i \in 1 .. n : <<i, v[i], parts[i]>> \in R
  <2> HIDE DEF R
  <2> QED BY <1>2, <1>4, <1>5, <1>6, <1>8, <1>9, Readings
<1>11. PICK parts \in Seq(Seq(B)) :
         /\ v \in Seq(S) /\ Len(v) = n /\ Len(parts) = n
         /\ c[0].rest = FlattenSeq(parts) \o c[n].rest
         /\ \A i \in 1 .. n : <<i, v[i], parts[i]>> \in R
  BY <1>10
<1>12. \A i \in 1 .. n : Right(i, v[i], parts[i]) BY <1>11
<1> HIDE DEF R
<1>13. HasFields(types, v, B)
  <2>1. IsSequence(v) BY <1>11, SequenceIs
  <2> QED BY <1>11, <1>12, <2>1 DEF HasFields
<1>14. IsMessageOf(m, B) BY <1>2, <1>13, MessageShape DEF types
<1>15. ASSUME B = Cells
       PROVE  Fits(m) /\ \E e \in Spellings(m) : BeginsWith(payload, e, B)
  <2>1. Fits(m)
    <3>1. FitsFields(types, v) BY <1>12, <1>15 DEF FitsFields
    <3> QED BY <1>2, <1>14, <3>1, FitsIs DEF types
  <2>2. FlattenSeq(parts) \in Spellings(m)
    <3>1. \A i \in 1 .. n : FieldSpelt(types[i], v[i], parts[i]) BY <1>12, <1>15
    <3>2. Layout[m.kind] = types /\ m.fields = v BY <1>2 DEF types
    <3>3. parts \in Seq(Seq(Cells)) /\ IsMessageOf(m, Cells) BY <1>11, <1>14, <1>15
    <3> HIDE DEF v
    <3> QED BY <1>11, <3>1, <3>2, <3>3, SpellingsAre
  <2>3. FlattenSeq(parts) \in Seq(B) BY Flattened
  <2>4. BeginsWith(payload, FlattenSeq(parts), B)
    BY <1>6, <1>7, <1>11, <2>3 DEF BeginsWith
  <2> QED BY <2>1, <2>2, <2>4
<1>16. m.kind = kind
  <2> HIDE DEF v
  <2> QED BY <1>2
<1> QED BY <1>14, <1>15, <1>16

\* A message whose lengths fit is decoded from what it is written as.
LEMMA DecodeIsRead ==
  ASSUME NEW B \in SUBSET Nat, Cells \subseteq B, NEW m, IsMessageOf(m, B), Fits(m)
  PROVE  Decode(m.kind, Encode(m)) = m
<1> DEFINE kind == m.kind
           types == Layout[kind]
           n == Len(types)
           S == FieldValues(B)
           v == m.fields
           payload == Encode(m)
           c == Decoding(kind, payload)
           p == FieldParts(types, v)
           none == <<>>
<1>1. m = [kind |-> kind, fields |-> v] /\ kind \in Kinds /\ HasFields(types, v, B)
  BY MessageShape
<1>2. types \in Seq(FieldTypes) /\ Ends(types) BY <1>1, LayoutShape
<1>3. FitsFields(types, v) BY FitsIs
<1>4. payload = FlattenSeq(p) BY MessageShape
<1>5. Decode(kind, payload) = IF c[n].ok THEN [kind |-> kind, fields |-> c[n].got] ELSE Refused
  BY DEF Decode
<1> HIDE DEF types
<1>6. n \in Nat /\ \A i \in 1 .. n : types[i] \in FieldTypes
  BY <1>2, LenProperties, ElementOfSeq
<1>7. /\ p \in Seq(Seq(B)) /\ Len(p) = n /\ FlattenSeq(p) \in Seq(B)
      /\ \A i \in 1 .. n : p[i] = Field(types[i], v[i])
      /\ v \in Seq(S) /\ Len(v) = n
  BY <1>1, <1>2, MessageType
<1> HIDE DEF payload, p
<1>8. IsDecoding(c, types, payload, B) BY <1>1, <1>4, <1>7, Decodings DEF types
<1> HIDE DEF c, S
<1>9. /\ c \in [0 .. n -> Cursors(B, S)] /\ c[0] = Cursor(payload)
      /\ \A i \in 1 .. n : c[i] = ReadField(c[i - 1], types[i])
  BY <1>8 DEF IsDecoding, S
<1>10. none \in Seq(B) /\ Len(none) = 0 OBVIOUS
<1> HIDE DEF none
<1>11. PICK rests \in [0 .. n -> Seq(B)] :
         /\ rests[0] = FlattenSeq(p) \o none /\ rests[n] = none
         /\ \A i \in 1 .. n : rests[i - 1] = p[i] \o rests[i]
  <2>1. PICK rests \in [0 .. Len(p) -> Seq(B)] : Leave(rests, p, none)
    BY <1>7, <1>10, Rests
  <2> QED BY <1>7, <2>1 DEF Leave
<1>12. ASSUME NEW i \in 1 .. n
       PROVE  /\ types[i] \in {"text", "raw"} => rests[i] = none
              /\ types[i] = "content" => Len(rests[i]) = 2
  <2>1. ASSUME types[i] \in {"text", "raw"} PROVE rests[i] = none
    <3>1. i = n BY <1>2, <2>1 DEF Ends
    <3> QED BY <1>11, <3>1
  <2>2. ASSUME types[i] = "content" PROVE Len(rests[i]) = 2
    <3> DEFINE j == i + 1
               k == i + 2
    <3>1. n = k /\ types[j] = "int" /\ types[k] = "int" BY <1>2, <2>2 DEF Ends
    <3>2. j \in 1 .. n /\ k \in 1 .. n /\ j - 1 = i /\ k - 1 = j BY <1>6, <3>1
    <3> HIDE DEF j, k
    <3>3. \A x : Field("int", x) = <<x>> BY EntryShape DEF Field, PlainField
    <3>4. p[j] = <<v[j]>> /\ p[k] = <<v[k]>> BY <1>7, <3>1, <3>2, <3>3
    <3>5. p[j] \in Seq(B) /\ p[k] \in Seq(B) /\ Len(p[j]) = 1 /\ Len(p[k]) = 1
      BY <1>7, <3>2, <3>4, ElementOfSeq
    <3>6. rests[i] = p[j] \o rests[j] /\ rests[j] = p[k] \o none BY <1>11, <3>1, <3>2
    <3>7. rests[j] \in Seq(B) /\ Len(rests[j]) = 1
      <4> DEFINE a == p[k]
      <4>1. a \in Seq(B) /\ Len(a) = 1 BY <3>5
      <4> HIDE DEF a
      <4>2. a \o none = a BY <4>1, ConcatEmptySeq DEF none
      <4> QED BY <3>6, <4>1, <4>2 DEF a
    <3> DEFINE a == p[j]
               u == rests[j]
    <3>8. a \in Seq(B) /\ Len(a) = 1 /\ u \in Seq(B) /\ Len(u) = 1 /\ rests[i] = a \o u
      BY <3>5, <3>6, <3>7
    <3> HIDE DEF a, u
    <3>9. Len(a \o u) = 2 BY <3>8, ConcatProperties
    <3> QED BY <3>8, <3>9
  <2> QED BY <2>1, <2>2
<1>13. ASSUME NEW i \in 1 .. n, c[i - 1].ok, c[i - 1].rest = rests[i - 1]
       PROVE  c[i] = [ok |-> TRUE, rest |-> rests[i], got |-> Append(c[i - 1].got, v[i])]
  <2> DEFINE d == c[i - 1]
             x == v[i]
             u == rests[i]
             type == types[i]
  <2>1. i - 1 \in 0 .. n /\ i \in 0 .. n BY <1>6
  <2>2. d \in Cursors(B, S) /\ d.ok /\ c[i] = ReadField(d, type) BY <1>9, <1>13, <2>1
  <2>3. d.rest = Field(type, x) \o u BY <1>7, <1>11, <1>13
  <2>4. u \in Seq(B) BY <1>11, <2>1
  <2>5. HasType(type, x, B) /\ FitsField(type, x) /\ type \in FieldTypes
    BY <1>1, <1>3, <1>6 DEF HasFields, FitsFields
  <2>6. (type \in {"text", "raw"} => u = <<>>) /\ (type = "content" => Len(u) = 2)
    BY <1>12 DEF none
  <2> HIDE DEF d, x, u, type
  <2>7. ReadField(d, type) = [ok |-> TRUE, rest |-> u, got |-> Append(d.got, x)]
    BY <2>2, <2>3, <2>4, <2>5, <2>6, FieldIsRead DEF S
  <2> QED BY <2>2, <2>7 DEF d, x, u
<1>14. rests[0] = payload BY <1>4, <1>7, <1>10, <1>11, ConcatEmptySeq DEF none
<1>15. c[n].ok /\ c[n].got = v
  <2>1. c[0] = [ok |-> TRUE, rest |-> rests[0], got |-> <<>>] BY <1>9, <1>14 DEF Cursor
  <2>2. ReadsOff(c, rests, v, n) BY <1>13, <2>1 DEF ReadsOff
  <2>3. c \in CursorsTo(n, B, S) BY <1>9 DEF CursorsTo
  <2>4. rests \in RestsTo(n, B) BY DEF RestsTo
  <2> HIDE DEF v
  <2> QED BY <1>6, <1>7, <2>2, <2>3, <2>4, AllRead
<1> QED BY <1>1, <1>5, <1>15 DEF payload

-----------------------------------------------------------------------------
(* The escape sequences of stuff.                                          *)

LEMMA Codes ==
  /\ DOMAIN Simple = {110, 114, 116, 98, 102, 92, 48, 97, 101, 69}
  /\ \A c \in DOMAIN Simple : Simple[c] \in Nat
  /\ DOMAIN MaxDigits = {117, 120} /\ MaxDigits[117] = 4 /\ MaxDigits[120] = 2
  /\ \A c : IsHex(c) => c \in Nat /\ Digits[c] \in Nat
<1>1. /\ DOMAIN Simple = {110, 114, 116, 98, 102, 92, 48, 97, 101, 69}
      /\ \A c \in DOMAIN Simple : Simple[c] \in Nat
  BY DEF Simple
<1>2. DOMAIN MaxDigits = {117, 120} /\ MaxDigits[117] = 4 /\ MaxDigits[120] = 2
  BY DEF MaxDigits
<1>3. \A c : IsHex(c) => c \in Nat /\ Digits[c] \in Nat
  BY DEF IsHex, Digits
<1> QED BY <1>1, <1>2, <1>3

\* What Value computes is a number.
LEMMA ValueType ==
  ASSUME NEW hex \in Seq(Nat), \A i \in 1 .. Len(hex) : IsHex(hex[i])
  PROVE  Value(hex) \in Nat
<1> DEFINE n == Len(hex)
           step == [p \in (1 .. n) \X Nat |-> 16 * p[2] + Digits[hex[p[1]]]]
           Is(f) == f = [i \in 0 .. n |-> IF i = 0 THEN 0 ELSE 16 * f[i - 1] + Digits[hex[i]]]
<1>1. n \in Nat /\ \A i \in 1 .. n : Digits[hex[i]] \in Nat BY LenProperties, Codes
<1> HIDE DEF n
<1>2. step \in Steps(1 .. n, Nat) BY <1>1 DEF Steps
<1> HIDE DEF step
<1>3. PICK f \in [0 .. n -> Nat] : Follows(f, n, 0, step)
  <2>1. 0 \in Nat OBVIOUS
  <2> QED BY <1>1, <1>2, <2>1, Following
<1>4. ASSUME NEW i \in 1 .. n PROVE f[i] = 16 * f[i - 1] + Digits[hex[i]]
  <2>1. i - 1 \in 0 .. n BY <1>1
  <2>2. f[i - 1] \in Nat BY <1>3, <2>1
  <2>3. step[<<i, f[i - 1]>>] = 16 * f[i - 1] + Digits[hex[i]] BY <2>2 DEF step
  <2> QED BY <1>3, <2>3 DEF Follows
<1>5. Is(f)
  <2>1. \A i \in 0 .. n : i = 0 \/ i \in 1 .. n OBVIOUS
  <2> QED BY <1>3, <1>4, <2>1 DEF Follows
<1>6. Value(hex) = (CHOOSE g : Is(g))[n] BY DEF Value, n
<1> DEFINE F == CHOOSE g : Is(g)
<1>7. Is(F)
  <2> HIDE DEF Is
  <2> QED BY <1>5
<1> HIDE DEF F
<1>8. F[0] = 0 /\ \A i \in 1 .. n : F[i] = 16 * F[i - 1] + Digits[hex[i]]
  <2>1. \A i \in 1 .. n : i \in 0 .. n /\ i # 0 BY <1>1
  <2>2. 0 \in 0 .. n BY <1>1
  <2> QED BY <1>7, <2>1, <2>2 DEF Is
<1>9. F \in [0 .. n -> Nat]
  <2>1. IsFrom0To(F, n) BY <1>7 DEF Is, IsFrom0To
  <2>2. n \in Nat /\ F[0] \in Nat BY <1>1, <1>8
  <2>3. ASSUME NEW i \in 1 .. n, F[i - 1] \in Nat PROVE F[i] \in Nat
    <3> DEFINE x == F[i - 1]
               d == Digits[hex[i]]
    <3>1. x \in Nat /\ d \in Nat /\ F[i] = 16 * x + d BY <1>1, <1>8, <2>3
    <3> HIDE DEF x, d
    <3> QED BY <3>1
  <2> QED BY <2>1, <2>2, <2>3, Stays
<1>10. n \in 0 .. n BY <1>1
<1> QED BY <1>6, <1>9, <1>10 DEF F

LEMMA Utf8Type ==
  ASSUME NEW c \in Nat
  PROVE  Utf8(c) \in Seq(Nat)
<1> DEFINE two == <<192 + c \div 64, Bits(c, 0)>>
           three == <<224 + c \div 4096, Bits(c, 6), Bits(c, 0)>>
           four == <<240 + c \div 262144, Bits(c, 12), Bits(c, 6), Bits(c, 0)>>
<1>1. /\ 192 + c \div 64 \in Nat /\ 224 + c \div 4096 \in Nat
      /\ 240 + c \div 262144 \in Nat
  OBVIOUS
<1>2. Bits(c, 0) \in Nat /\ Bits(c, 6) \in Nat /\ Bits(c, 12) \in Nat
  <2>1. ASSUME NEW p \in Nat \ {0} PROVE 128 + ((c \div p) % 64) \in Nat
    <3>1. c \div p \in Nat OBVIOUS
    <3> QED BY <3>1
  <2>2. 2 ^ 0 \in Nat \ {0} /\ 2 ^ 6 \in Nat \ {0} /\ 2 ^ 12 \in Nat \ {0} OBVIOUS
  <2> QED BY <2>1, <2>2 DEF Bits
<1>3. two \in Seq(Nat) BY <1>1, <1>2
<1>4. three \in Seq(Nat) BY <1>1, <1>2
<1>5. four \in Seq(Nat) BY <1>1, <1>2
<1>6. Utf8(c) = IF c < 128 THEN <<c>>
                ELSE IF c < 2048 THEN two ELSE IF c < 65536 THEN three ELSE four
  BY DEF Utf8
<1> HIDE DEF two, three, four
<1>7. Utf8(c) = <<c>> \/ Utf8(c) = two \/ Utf8(c) = three \/ Utf8(c) = four BY <1>6
<1>8. <<c>> \in Seq(Nat) OBVIOUS
<1> QED BY <1>3, <1>4, <1>5, <1>7, <1>8

LEMMA CodedType ==
  ASSUME NEW kind \in Nat, NEW hex \in Seq(Nat), \A i \in 1 .. Len(hex) : IsHex(hex[i])
  PROVE  Coded(kind, hex) \in Seq(Nat)
<1> DEFINE x == Value(hex)
<1>1. x \in Nat BY ValueType
<1> HIDE DEF x
<1>2. Utf8(x) \in Seq(Nat) BY <1>1, Utf8Type
<1>3. <<x>> \in Seq(Nat) /\ <<92, kind>> \in Seq(Nat) /\ <<>> \in Seq(Nat) BY <1>1
<1>4. \/ Coded(kind, hex) = <<92, kind>> \/ Coded(kind, hex) = <<x>>
      \/ Coded(kind, hex) = Utf8(x) \/ Coded(kind, hex) = <<>>
  BY DEF Coded, Backslash, x
<1> QED BY <1>2, <1>3, <1>4

\* k digits from position i on, and then n of them, the end or no digit.
Run(t, i, n, k) ==
  /\ k <= n /\ i + k <= Len(t) + 1 /\ \A j \in i .. i + k - 1 : IsHex(t[j])
  /\ k = n \/ i + k = Len(t) + 1 \/ ~IsHex(t[i + k])

LEMMA HexFromIs ==
  ASSUME NEW t \in Seq(Nat), NEW i \in Nat, NEW n \in Nat, NEW k \in Nat, Run(t, i, n, k)
  PROVE  HexFrom(t, i, n) = SubSeq(t, i, i + k - 1)
<1> DEFINE runs == {x \in 0 .. n : i + x <= Len(t) + 1 /\ \A j \in i .. i + x - 1 : IsHex(t[j])}
<1>1. Len(t) \in Nat BY LenProperties
<1>2. k \in runs BY DEF Run
<1>3. ASSUME NEW y \in runs PROVE k >= y
  <2> SUFFICES ASSUME y > k PROVE FALSE BY <1>2
  <2>1. y \in Nat /\ k # n /\ i + k # Len(t) + 1 BY <1>1 DEF Run
  <2>2. i + k \in i .. i + y - 1 BY <2>1
  <2>3. IsHex(t[i + k]) BY <2>2
  <2> QED BY <2>1, <2>3 DEF Run
<1>4. runs \subseteq Nat OBVIOUS
<1>5. HexFrom(t, i, n) = SubSeq(t, i, i + Max(runs) - 1) BY DEF HexFrom
<1> HIDE DEF runs
<1>6. Max(runs) = k
  <2>1. Max(runs) \in runs /\ \A y \in runs : Max(runs) >= y BY <1>2, <1>3 DEF Max
  <2>2. Max(runs) \in Nat /\ Max(runs) >= k /\ k >= Max(runs) BY <1>2, <1>3, <1>4, <2>1
  <2> QED BY <2>2
<1> QED BY <1>5, <1>6

LEMMA RunOf ==
  ASSUME NEW t \in Seq(Nat), NEW i \in Nat, i <= Len(t) + 1, NEW n \in Nat
  PROVE  \E k \in 0 .. n : Run(t, i, n, k)
<1> DEFINE OK(x) == i + x <= Len(t) + 1 /\ \A j \in i .. i + x - 1 : IsHex(t[j])
           T == {y \in 0 .. n : OK(n - y)}
<1>1. Len(t) \in Nat BY LenProperties
<1>2. n \in T
  <2>1. n - n = 0 /\ i .. i + 0 - 1 = {} /\ i + 0 = i OBVIOUS
  <2> QED BY <2>1
<1>3. PICK y \in T : \A z \in T : y <= z
  <2>1. T \in SUBSET Nat
    <3> HIDE DEF OK
    <3> QED OBVIOUS
  <2> HIDE DEF T
  <2> QED BY <1>2, <2>1, LeastMember
<1> DEFINE k == n - y
<1>4. k \in 0 .. n /\ k \in Nat /\ OK(k) BY <1>3
<1>5. ASSUME k # n, i + k # Len(t) + 1, IsHex(t[i + k]) PROVE FALSE
  <2>1. y - 1 \in 0 .. n /\ n - (y - 1) = k + 1 BY <1>4, <1>5
  <2>2. OK(k + 1)
    <3> HIDE DEF k
    <3>1. i + (k + 1) <= Len(t) + 1 BY <1>1, <1>4, <1>5
    <3>2. \A j \in i .. i + (k + 1) - 1 : j \in i .. i + k - 1 \/ j = i + k BY <1>4
    <3> QED BY <1>4, <1>5, <3>1, <3>2
  <2>3. y - 1 \in T
    <3> HIDE DEF OK, k
    <3> QED BY <2>1, <2>2
  <2>4. y <= y - 1 BY <1>3, <2>3
  <2> QED BY <1>3, <2>4
<1>6. Run(t, i, n, k)
  <2> HIDE DEF k
  <2> QED BY <1>4, <1>5 DEF Run
<1> QED BY <1>4, <1>6

\* The digits from position i on are k digits of t, or fewer than n in a row.
LEMMA Hex ==
  ASSUME NEW t \in Seq(Nat), NEW i \in Nat \ {0}, NEW k \in Nat, i + k <= Len(t) + 1
  PROVE  LET hex == SubSeq(t, i, i + k - 1)
         IN  /\ hex \in Seq(Nat) /\ Len(hex) = k
             /\ \A j \in 1 .. k : hex[j] = t[i + j - 1]
<1> DEFINE n == i + k - 1
           hex == SubSeq(t, i, n)
<1>1. Len(t) \in Nat /\ \A j \in 1 .. Len(t) : t[j] \in Nat BY LenProperties, ElementOfSeq
<1>2. n \in Int /\ \A j \in i .. n : t[j] \in Nat BY <1>1
<1>3. /\ hex \in Seq(Nat) /\ Len(hex) = IF i <= n THEN n - i + 1 ELSE 0
      /\ \A j \in 1 .. n - i + 1 : hex[j] = t[i + j - 1]
  <2> HIDE DEF n
  <2> QED BY <1>2, SubSeqProperties
<1>4. n - i + 1 = k /\ (i <= n \/ k = 0) OBVIOUS
<1> HIDE DEF n
<1>5. Len(hex) = k BY <1>3, <1>4, <1>2
<1> QED BY <1>3, <1>4, <1>5 DEF n

TurnStates == [at : Nat \ {0}, out : Seq(Nat)]

LEMMA GoesType ==
  ASSUME NEW s \in TurnStates, NEW n \in Nat, NEW bytes \in Seq(Nat)
  PROVE  Goes(s, n, bytes) \in TurnStates
<1>1. s.at \in Nat \ {0} /\ s.out \in Seq(Nat) BY DEF TurnStates
<1>2. s.at + n \in Nat \ {0} BY <1>1
<1>3. s.out \o bytes \in Seq(Nat) BY <1>1, ConcatProperties
<1> QED BY <1>2, <1>3 DEF Goes, TurnStates

LEMMA TurnType ==
  ASSUME NEW t \in Seq(Nat), NEW s \in TurnStates
  PROVE  Turn(t, MaxDigits, s) \in TurnStates
<1> DEFINE i == s.at
           turn == Turn(t, MaxDigits, s)
           c == t[i + 1]
           hex == HexFrom(t, i + 2, MaxDigits[c])
<1>1. i \in Nat \ {0} /\ Len(t) \in Nat BY LenProperties DEF TurnStates
<1> HIDE DEF i
<1>2. CASE i > Len(t) BY <1>2 DEF Turn, i
<1>3. CASE ~(i > Len(t)) /\ t[i] # Backslash
  <2>1. turn = Goes(s, 1, Utf8(t[i])) BY <1>3 DEF Turn, i
  <2>2. t[i] \in Nat BY <1>1, <1>3, ElementOfSeq
  <2> HIDE DEF turn
  <2> QED BY <2>1, <2>2, Utf8Type, GoesType DEF turn
<1>4. CASE ~(i > Len(t)) /\ t[i] = Backslash /\ i = Len(t)
  <2>1. turn = Goes(s, 1, <<92>>) BY <1>4 DEF Turn, i, Backslash
  <2>2. <<92>> \in Seq(Nat) OBVIOUS
  <2> HIDE DEF turn
  <2> QED BY <2>1, <2>2, GoesType DEF turn
<1>5. CASE ~(i > Len(t)) /\ t[i] = Backslash /\ i # Len(t)
  <2>1. i + 1 \in 1 .. Len(t) BY <1>1, <1>5
  <2>2. c \in Nat BY <2>1, ElementOfSeq
  <2>3. turn = CASE c \in DOMAIN Simple -> Goes(s, 2, <<Simple[c]>>)
                 [] c \in DOMAIN MaxDigits -> Goes(s, 2 + Len(hex), Coded(c, hex))
                 [] OTHER -> Goes(s, 2, <<Backslash>> \o Utf8(c))
    BY <1>5 DEF Turn, i
  <2> HIDE DEF turn, c
  <2>4. DOMAIN Simple \cap DOMAIN MaxDigits = {} BY Codes
  <2>5. CASE c \in DOMAIN Simple
    <3>1. turn = Goes(s, 2, <<Simple[c]>>) BY <2>3, <2>4, <2>5
    <3>2. Simple[c] \in Nat BY <2>5, Codes
    <3>3. <<Simple[c]>> \in Seq(Nat) BY <3>2
    <3> QED BY <3>1, <3>3, GoesType DEF turn
  <2>6. CASE c \in DOMAIN MaxDigits
    <3>1. turn = Goes(s, 2 + Len(hex), Coded(c, hex)) BY <2>3, <2>4, <2>6
    <3> DEFINE n == MaxDigits[c]
               h == i + 2
    <3>2. n \in Nat
      <4>1. CASE c = 117 BY <4>1, Codes
      <4>2. CASE c = 120 BY <4>2, Codes
      <4> QED BY <2>6, <4>1, <4>2, Codes
    <3>3. h \in Nat \ {0} /\ h <= Len(t) + 1 BY <1>1, <2>1
    <3> HIDE DEF n, h
    <3>4. PICK k \in 0 .. n : Run(t, h, n, k) BY <3>2, <3>3, RunOf
    <3>5. hex = SubSeq(t, h, h + k - 1)
      <4>1. k \in Nat /\ h \in Nat BY <3>3
      <4>2. HexFrom(t, h, n) = SubSeq(t, h, h + k - 1) BY <3>2, <3>4, <4>1, HexFromIs
      <4> QED BY <4>2 DEF n, h
    <3>6. /\ hex \in Seq(Nat) /\ Len(hex) = k
          /\ \A j \in 1 .. k : hex[j] = t[h + j - 1]
      <4>1. h + k <= Len(t) + 1 BY <3>4 DEF Run
      <4> HIDE DEF hex
      <4> QED BY <3>3, <3>5, <4>1, Hex
    <3> HIDE DEF hex
    <3>7. \A j \in 1 .. Len(hex) : IsHex(hex[j])
      <4>1. \A j \in 1 .. k : h + j - 1 \in h .. h + k - 1 BY <3>3
      <4> QED BY <3>4, <3>6, <4>1 DEF Run
    <3>8. Coded(c, hex) \in Seq(Nat) BY <2>2, <3>6, <3>7, CodedType
    <3>9. 2 + Len(hex) \in Nat BY <3>6
    <3> QED BY <3>1, <3>8, <3>9, GoesType DEF turn
  <2>7. CASE c \notin DOMAIN Simple /\ c \notin DOMAIN MaxDigits
    <3> DEFINE b == <<92>>
               u == Utf8(c)
    <3>1. turn = Goes(s, 2, b \o u) BY <2>3, <2>7 DEF Backslash
    <3>2. b \in Seq(Nat) /\ u \in Seq(Nat) BY <2>2, Utf8Type
    <3> HIDE DEF b, u
    <3>3. b \o u \in Seq(Nat) BY <3>2, ConcatProperties
    <3> QED BY <3>1, <3>3, GoesType DEF turn
  <2> QED BY <2>5, <2>6, <2>7
<1> QED BY <1>2, <1>3, <1>4, <1>5

\* The state of the loop before it and after each of its turns.
LEMMA Turning ==
  ASSUME NEW t \in Seq(Nat)
  PROVE  LET s == Turns(t, MaxDigits)
         IN  /\ s \in [0 .. Len(t) -> TurnStates]
             /\ s[0] = [at |-> 1, out |-> <<>>]
             /\ \A k \in 1 .. Len(t) : s[k] = Turn(t, MaxDigits, s[k - 1])
<1> DEFINE n == Len(t)
           base == [at |-> 1, out |-> <<>>]
           D == TurnStates
           step == [p \in (1 .. n) \X D |-> Turn(t, MaxDigits, p[2])]
           Is(f) == f = [k \in 0 .. n |-> IF k = 0 THEN base ELSE Turn(t, MaxDigits, f[k - 1])]
<1>1. n \in Nat BY LenProperties
<1>2. base \in D BY DEF TurnStates
<1>3. \A d \in D : Turn(t, MaxDigits, d) \in D BY TurnType
<1> HIDE DEF n, D, base
<1>4. step \in Steps(1 .. n, D) BY <1>3 DEF Steps
<1> HIDE DEF step
<1>5. PICK f \in [0 .. n -> D] : Follows(f, n, base, step) BY <1>1, <1>2, <1>4, Following
<1>6. ASSUME NEW k \in 1 .. n PROVE f[k] = Turn(t, MaxDigits, f[k - 1])
  <2>1. k - 1 \in 0 .. n BY <1>1
  <2>2. f[k - 1] \in D BY <1>5, <2>1
  <2>3. step[<<k, f[k - 1]>>] = Turn(t, MaxDigits, f[k - 1]) BY <2>2 DEF step
  <2> QED BY <1>5, <2>3 DEF Follows
<1>7. Is(f)
  <2>1. \A k \in 0 .. n : k = 0 \/ k \in 1 .. n OBVIOUS
  <2> QED BY <1>5, <1>6, <2>1 DEF Follows
<1>8. Turns(t, MaxDigits) = CHOOSE g : Is(g) BY DEF Turns, n, base
<1>9. Is(Turns(t, MaxDigits))
  <2> HIDE DEF Is
  <2> QED BY <1>7, <1>8
<1> DEFINE F == Turns(t, MaxDigits)
<1> HIDE DEF F
<1>10. Is(F) BY <1>9 DEF F
<1>11. F[0] = base /\ \A k \in 1 .. n : F[k] = Turn(t, MaxDigits, F[k - 1])
  <2>1. \A k \in 1 .. n : k \in 0 .. n /\ k # 0 BY <1>1
  <2>2. 0 \in 0 .. n BY <1>1
  <2> QED BY <1>10, <2>1, <2>2 DEF Is
<1>12. F \in [0 .. n -> D]
  <2>1. IsFrom0To(F, n) BY <1>10 DEF Is, IsFrom0To
  <2>2. F[0] \in D BY <1>2, <1>11
  <2>3. \A k \in 1 .. n : F[k - 1] \in D => F[k] \in D BY <1>3, <1>11
  <2> QED BY <1>1, <2>1, <2>2, <2>3, Stays
<1> QED BY <1>11, <1>12 DEF F, n, D, base

LEMMA UnescapeType ==
  ASSUME NEW t \in Seq(Nat)
  PROVE  Unescape(t) \in Seq(Nat)
<1> DEFINE n == Len(t)
           s == Turns(t, MaxDigits)
<1>1. n \in 0 .. n BY LenProperties
<1>2. s \in [0 .. n -> TurnStates] BY Turning
<1> HIDE DEF n, s
<1>3. s[n].out \in Seq(Nat) BY <1>1, <1>2 DEF TurnStates
<1> QED BY <1>3 DEF Unescape, UnescapeTaking, n, s

\* The forms of a piece.
IsPlain(p, c) == p.text = <<c>> /\ p.bytes = Utf8(c)
IsShort(p, c) == p.text = <<92, c>> /\ p.bytes = <<Simple[c]>>
IsOther(p, c) == p.text = <<92, c>> /\ p.bytes = <<92>> \o Utf8(c)
IsNumbered(p, kind, hex) ==
  /\ Len(hex) <= MaxDigits[kind] /\ \A i \in 1 .. Len(hex) : IsHex(hex[i])
  /\ p.text = <<92, kind>> \o hex /\ p.bytes = Coded(kind, hex)
  /\ p.full <=> Len(hex) = MaxDigits[kind]

LEMMA PieceForms ==
  ASSUME NEW p, IsPiece(p)
  PROVE  \/ \E c \in Nat \ {92} : IsPlain(p, c)
         \/ \E c \in DOMAIN Simple : IsShort(p, c)
         \/ \E c \in Nat \ (DOMAIN Simple \cup DOMAIN MaxDigits) : IsOther(p, c)
         \/ \E kind \in DOMAIN MaxDigits, hex \in Seq(Nat) : IsNumbered(p, kind, hex)
<1> DEFINE t == p.text
<1>1. CASE t[1] \in Nat \ {Backslash} /\ p = Plain(t[1])
  <2> DEFINE c == t[1]
  <2>1. c \in Nat \ {92} /\ p = Plain(c) BY <1>1 DEF Backslash
  <2> HIDE DEF c
  <2>2. IsPlain(p, c) BY <2>1 DEF IsPlain, Plain
  <2> QED BY <2>1, <2>2
<1>2. CASE t[2] \in DOMAIN Simple /\ p = Short(t[2])
  <2> DEFINE c == t[2]
  <2>1. c \in DOMAIN Simple /\ p = Short(c) BY <1>2
  <2> HIDE DEF c
  <2>2. IsShort(p, c) BY <2>1 DEF IsShort, Short, Backslash
  <2> QED BY <2>1, <2>2
<1>3. CASE t[2] \in Nat \ (DOMAIN Simple \cup DOMAIN MaxDigits) /\ p = Other(t[2])
  <2> DEFINE c == t[2]
  <2>1. c \in Nat \ (DOMAIN Simple \cup DOMAIN MaxDigits) /\ p = Other(c) BY <1>3
  <2> HIDE DEF c
  <2>2. IsOther(p, c) BY <2>1 DEF IsOther, Other, Backslash
  <2> QED BY <2>1, <2>2
<1>4. ASSUME NEW kind \in DOMAIN MaxDigits, NEW n \in 0 .. 4, n <= MaxDigits[kind],
             \A i \in 3 .. n + 2 : IsHex(t[i]), p = Numbered(kind, SubSeq(t, 3, n + 2))
      PROVE  \E hex \in Seq(Nat) : IsNumbered(p, kind, hex)
  <2> DEFINE hex == SubSeq(t, 3, n + 2)
  <2>1. \A i \in 3 .. n + 2 : t[i] \in Nat BY <1>4, Codes
  <2> HIDE DEF t
  <2>2. /\ hex \in Seq(Nat) /\ Len(hex) = IF 3 <= n + 2 THEN n + 2 - 3 + 1 ELSE 0
        /\ \A i \in 1 .. n + 2 - 3 + 1 : hex[i] = t[3 + i - 1]
    BY <2>1, SubSeqProperties
  <2>3. Len(hex) = n BY <2>2
  <2>4. \A i \in 1 .. n : IsHex(hex[i]) BY <1>4, <2>2 DEF t
  <2>5. p = Numbered(kind, hex) BY <1>4 DEF t
  <2> HIDE DEF hex
  <2>6. p.text = <<92, kind>> \o hex /\ p.bytes = Coded(kind, hex)
    BY <2>5 DEF Numbered, Backslash
  <2>7. p.full <=> Len(hex) = MaxDigits[kind] BY <2>5 DEF Numbered
  <2>8. IsNumbered(p, kind, hex) BY <1>4, <2>3, <2>4, <2>6, <2>7 DEF IsNumbered
  <2> QED BY <2>2, <2>8
<1> QED BY <1>1, <1>2, <1>3, <1>4 DEF IsPiece

\* Two characters and what follows them.
LEMMA Pair ==
  ASSUME NEW x \in Nat, NEW y \in Nat, NEW s \in Seq(Nat)
  PROVE  LET t == <<x, y>> \o s
         IN  /\ t \in Seq(Nat) /\ Len(t) = 2 + Len(s) /\ t[1] = x /\ t[2] = y
             /\ \A i \in 1 .. Len(s) : t[2 + i] = s[i]
<1> DEFINE a == <<x, y>>
           t == a \o s
<1>1. a \in Seq(Nat) /\ Len(a) = 2 /\ a[1] = x /\ a[2] = y OBVIOUS
<1> HIDE DEF a
<1>2. /\ t \in Seq(Nat) /\ Len(t) = Len(a) + Len(s) /\ Len(s) \in Nat
      /\ \A i \in 1 .. Len(a) + Len(s) : t[i] = IF i <= Len(a) THEN a[i] ELSE s[i - Len(a)]
  BY <1>1, ConcatProperties, LenProperties
<1> HIDE DEF t
<1>3. t[1] = x /\ t[2] = y
  <2>1. 1 \in 1 .. Len(a) + Len(s) /\ 2 \in 1 .. Len(a) + Len(s) BY <1>1, <1>2
  <2> QED BY <1>1, <1>2, <2>1
<1>4. ASSUME NEW i \in 1 .. Len(s) PROVE t[2 + i] = s[i]
  <2> DEFINE k == 2 + i
  <2>1. k \in 1 .. Len(a) + Len(s) /\ ~(k <= Len(a)) /\ k - Len(a) = i BY <1>1, <1>2
  <2> HIDE DEF k
  <2>2. t[k] = s[i] BY <1>2, <2>1
  <2> QED BY <2>2 DEF k
<1> QED BY <1>1, <1>2, <1>3, <1>4 DEF t, a

LEMMA PieceType ==
  ASSUME NEW p, IsPiece(p)
  PROVE  /\ p.text \in Seq(Nat) /\ Len(p.text) \in Nat \ {0} /\ p.bytes \in Seq(Nat)
<1>1. ASSUME NEW c \in Nat \ {92}, IsPlain(p, c)
      PROVE  p.text \in Seq(Nat) /\ Len(p.text) \in Nat \ {0} /\ p.bytes \in Seq(Nat)
  <2>1. p.text = <<c>> /\ p.bytes = Utf8(c) BY <1>1 DEF IsPlain
  <2>2. <<c>> \in Seq(Nat) /\ Len(<<c>>) = 1 OBVIOUS
  <2> QED BY <2>1, <2>2, Utf8Type
<1>2. ASSUME NEW c \in DOMAIN Simple, IsShort(p, c)
      PROVE  p.text \in Seq(Nat) /\ Len(p.text) \in Nat \ {0} /\ p.bytes \in Seq(Nat)
  <2>1. p.text = <<92, c>> /\ p.bytes = <<Simple[c]>> BY <1>2 DEF IsShort
  <2>2. c \in Nat /\ Simple[c] \in Nat BY Codes
  <2>3. <<92, c>> \in Seq(Nat) /\ Len(<<92, c>>) = 2 /\ <<Simple[c]>> \in Seq(Nat) BY <2>2
  <2> QED BY <2>1, <2>3
<1>3. ASSUME NEW c \in Nat, IsOther(p, c)
      PROVE  p.text \in Seq(Nat) /\ Len(p.text) \in Nat \ {0} /\ p.bytes \in Seq(Nat)
  <2> DEFINE b == <<92>>
             u == Utf8(c)
  <2>1. p.text = <<92, c>> /\ p.bytes = b \o u BY <1>3 DEF IsOther
  <2>2. <<92, c>> \in Seq(Nat) /\ Len(<<92, c>>) = 2 /\ b \in Seq(Nat) /\ u \in Seq(Nat)
    BY Utf8Type
  <2> HIDE DEF b, u
  <2>3. b \o u \in Seq(Nat) BY <2>2, ConcatProperties
  <2> QED BY <2>1, <2>2, <2>3
<1>4. ASSUME NEW kind \in DOMAIN MaxDigits, NEW hex \in Seq(Nat), IsNumbered(p, kind, hex)
      PROVE  p.text \in Seq(Nat) /\ Len(p.text) \in Nat \ {0} /\ p.bytes \in Seq(Nat)
  <2>1. p.text = <<92, kind>> \o hex /\ p.bytes = Coded(kind, hex)
    BY <1>4 DEF IsNumbered
  <2>2. kind \in Nat /\ Len(hex) \in Nat
    <3>1. kind = 117 \/ kind = 120 BY Codes
    <3>2. kind \in Nat BY <3>1
    <3> QED BY <3>2, LenProperties
  <2>3. p.text \in Seq(Nat) /\ Len(p.text) = 2 + Len(hex) BY <2>1, <2>2, Pair
  <2>4. p.bytes \in Seq(Nat) BY <1>4, <2>1, <2>2, CodedType DEF IsNumbered
  <2> QED BY <2>2, <2>3, <2>4
<1> QED BY <1>1, <1>2, <1>3, <1>4, PieceForms

\* r is what t has behind its first a characters.
Behind(t, a, r) == Len(t) = a + Len(r) /\ \A j \in 1 .. Len(r) : t[a + j] = r[j]

\* The text and the characters after it decide how far a piece goes.
Apart(p, z) == p.full \/ z = <<>> \/ ~IsHex(z[1])

\* One turn takes the text of a piece and types its bytes.
LEMMA PieceTurns ==
  ASSUME NEW t \in Seq(Nat), NEW s \in TurnStates, NEW a \in Nat, s.at = a + 1,
         NEW p, IsPiece(p), NEW z \in Seq(Nat), Behind(t, a, p.text \o z), Apart(p, z)
  PROVE  Turn(t, MaxDigits, s) = Goes(s, Len(p.text), p.bytes)
<1> DEFINE i == s.at
           r == p.text \o z
           turn == Turn(t, MaxDigits, s)
           d == t[i + 1]
           dhex == HexFrom(t, i + 2, MaxDigits[d])
<1>1. /\ p.text \in Seq(Nat) /\ Len(p.text) \in Nat \ {0} /\ Len(z) \in Nat
      /\ Len(t) \in Nat
  BY PieceType, LenProperties
<1>2. /\ r \in Seq(Nat) /\ Len(r) = Len(p.text) + Len(z)
      /\ \A j \in 1 .. Len(p.text) + Len(z) :
           r[j] = IF j <= Len(p.text) THEN p.text[j] ELSE z[j - Len(p.text)]
  BY <1>1, ConcatProperties
<1> HIDE DEF r
<1>3. Len(t) = a + Len(r) /\ \A j \in 1 .. Len(r) : t[a + j] = r[j] BY DEF Behind, r
<1>4. i = a + 1 /\ ~(i > Len(t)) /\ t[i] = p.text[1]
  <2>1. 1 \in 1 .. Len(r) /\ 1 <= Len(p.text) /\ 1 \in 1 .. Len(p.text) + Len(z) BY <1>1, <1>2
  <2>2. t[a + 1] = r[1] /\ r[1] = p.text[1] BY <1>2, <1>3, <2>1
  <2> QED BY <1>1, <1>2, <1>3, <2>1, <2>2
<1> HIDE DEF i
<1>5. ASSUME NEW c \in Nat \ {92}, IsPlain(p, c) PROVE turn = Goes(s, Len(p.text), p.bytes)
  <2>1. p.text = <<c>> /\ p.bytes = Utf8(c) BY <1>5 DEF IsPlain
  <2>2. t[i] = c /\ Len(p.text) = 1 BY <1>4, <2>1
  <2>3. turn = Goes(s, 1, Utf8(t[i])) BY <1>4, <2>2 DEF Turn, Backslash, i
  <2> QED BY <2>1, <2>2, <2>3
<1>6. ASSUME t[i] = 92, i # Len(t)
      PROVE  turn = CASE d \in DOMAIN Simple -> Goes(s, 2, <<Simple[d]>>)
                      [] d \in DOMAIN MaxDigits -> Goes(s, 2 + Len(dhex), Coded(d, dhex))
                      [] OTHER -> Goes(s, 2, <<Backslash>> \o Utf8(d))
  BY <1>4, <1>6 DEF Turn, Backslash, i
<1>7. ASSUME Len(p.text) >= 2
      PROVE  i # Len(t) /\ d = p.text[2]
  <2>1. 2 \in 1 .. Len(r) /\ 2 <= Len(p.text) /\ 2 \in 1 .. Len(p.text) + Len(z)
    BY <1>1, <1>2, <1>7
  <2>2. t[a + 2] = r[2] /\ r[2] = p.text[2] /\ i + 1 = a + 2 BY <1>2, <1>3, <1>4, <2>1
  <2>3. Len(t) >= a + 2 BY <1>2, <1>3, <2>1
  <2> QED BY <1>4, <2>2, <2>3
<1>8. DOMAIN Simple \cap DOMAIN MaxDigits = {} BY Codes
<1> HIDE DEF turn, d
<1>9. ASSUME NEW c \in DOMAIN Simple, IsShort(p, c) PROVE turn = Goes(s, Len(p.text), p.bytes)
  <2>1. p.text = <<92, c>> /\ p.bytes = <<Simple[c]>> BY <1>9 DEF IsShort
  <2>2. Len(p.text) = 2 /\ p.text[1] = 92 /\ p.text[2] = c BY <2>1
  <2>3. d = c /\ i # Len(t) /\ t[i] = 92 BY <1>4, <1>7, <2>2
  <2>4. turn = Goes(s, 2, <<Simple[d]>>) BY <1>6, <1>8, <2>3
  <2> QED BY <2>1, <2>2, <2>3, <2>4
<1>10. ASSUME NEW c \in Nat \ (DOMAIN Simple \cup DOMAIN MaxDigits), IsOther(p, c)
       PROVE  turn = Goes(s, Len(p.text), p.bytes)
  <2>1. p.text = <<92, c>> /\ p.bytes = <<92>> \o Utf8(c) BY <1>10 DEF IsOther
  <2>2. Len(p.text) = 2 /\ p.text[1] = 92 /\ p.text[2] = c BY <2>1
  <2>3. d = c /\ i # Len(t) /\ t[i] = 92 BY <1>4, <1>7, <2>2
  <2>4. turn = Goes(s, 2, <<92>> \o Utf8(d)) BY <1>6, <2>3 DEF Backslash
  <2> QED BY <2>1, <2>2, <2>3, <2>4
<1>11. ASSUME NEW kind \in DOMAIN MaxDigits, NEW hex \in Seq(Nat), IsNumbered(p, kind, hex)
       PROVE  turn = Goes(s, Len(p.text), p.bytes)
  <2> DEFINE n == MaxDigits[kind]
             k == Len(hex)
             h == a + 3
  <2>1. /\ k <= n /\ \A j \in 1 .. k : IsHex(hex[j])
        /\ p.text = <<92, kind>> \o hex /\ p.bytes = Coded(kind, hex)
        /\ p.full <=> k = n
    BY <1>11 DEF IsNumbered
  <2>2. kind \in Nat
    <3>1. kind = 117 \/ kind = 120 BY Codes
    <3> QED BY <3>1
  <2>3. n \in Nat
    <3>1. CASE kind = 117 BY <3>1, Codes
    <3>2. CASE kind = 120 BY <3>2, Codes
    <3> QED BY <3>1, <3>2, Codes
  <2>4. k \in Nat BY LenProperties
  <2>5. /\ Len(p.text) = 2 + k /\ p.text[1] = 92 /\ p.text[2] = kind
        /\ \A j \in 1 .. k : p.text[2 + j] = hex[j]
    BY <2>1, <2>2, Pair
  <2>6. d = kind /\ i # Len(t) /\ t[i] = 92 BY <1>4, <1>7, <2>4, <2>5
  <2>7. turn = Goes(s, 2 + Len(dhex), Coded(d, dhex)) BY <1>6, <1>8, <2>6
  <2> HIDE DEF n, k
  <2>8. ASSUME NEW j \in 1 .. k PROVE t[h + j - 1] = hex[j]
    <3> DEFINE x == 2 + j
    <3>1. x \in 1 .. Len(r) /\ x <= Len(p.text) /\ x \in 1 .. Len(p.text) + Len(z)
      BY <1>1, <1>2, <2>4, <2>5
    <3>2. h + j - 1 = a + x BY <2>4
    <3>3. p.text[x] = hex[j] BY <2>5
    <3> HIDE DEF x
    <3>4. t[a + x] = r[x] /\ r[x] = p.text[x] BY <1>2, <1>3, <3>1
    <3> QED BY <3>2, <3>3, <3>4
  <2>9. h \in Nat \ {0} /\ i + 2 = h /\ h + k + Len(z) = Len(t) + 1
    BY <1>1, <1>2, <1>3, <1>4, <2>4, <2>5
  <2>10. Run(t, h, n, k)
    <3>1. \A j \in h .. h + k - 1 : IsHex(t[j])
      <4> SUFFICES ASSUME NEW j \in h .. h + k - 1 PROVE IsHex(t[j]) OBVIOUS
      <4> DEFINE x == j - h + 1
      <4>1. x \in 1 .. k /\ h + x - 1 = j BY <2>4
      <4> HIDE DEF x, h
      <4>2. t[h + x - 1] = hex[x] /\ IsHex(hex[x]) BY <2>1, <2>8, <4>1
      <4> QED BY <4>1, <4>2
    <3>2. ASSUME k # n, h + k # Len(t) + 1 PROVE ~IsHex(t[h + k])
      <4>1. z # <<>> /\ Len(z) >= 1
        <5> DEFINE x == Len(z)
                   y == Len(t)
        <5>1. /\ x \in Nat /\ y \in Nat /\ h \in Nat /\ h + k + x = y + 1
              /\ h + k # y + 1
          BY <1>1, <2>9, <3>2
        <5> HIDE DEF x, y, h
        <5>2. x # 0 /\ x >= 1 BY <2>4, <5>1
        <5>3. z # <<>> BY <5>2 DEF x
        <5> QED BY <5>2, <5>3 DEF x
      <4>2. ~IsHex(z[1]) BY <2>1, <3>2, <4>1 DEF Apart
      <4> DEFINE x == Len(p.text) + 1
      <4>3. x \in 1 .. Len(r) /\ ~(x <= Len(p.text)) /\ x - Len(p.text) = 1
        <5> DEFINE e == Len(p.text)
                   y == Len(z)
                   l == Len(r)
        <5>1. e \in Nat /\ y \in Nat /\ y >= 1 /\ l = e + y BY <1>1, <1>2, <4>1
        <5> HIDE DEF e, y, l
        <5>2. e + 1 \in 1 .. l /\ ~(e + 1 <= e) /\ (e + 1) - e = 1 BY <5>1
        <5> QED BY <5>2 DEF e, l
      <4>4. h + k = a + x BY <2>4, <2>5
      <4> HIDE DEF x
      <4>5. t[a + x] = r[x] /\ r[x] = z[1] BY <1>2, <1>3, <4>3
      <4> QED BY <4>2, <4>4, <4>5
    <3>3. h + k <= Len(t) + 1
      <4> DEFINE x == Len(z)
                 y == Len(t)
      <4>1. x \in Nat /\ y \in Nat /\ h \in Nat /\ h + k + x = y + 1 BY <1>1, <2>9
      <4> HIDE DEF x, y, h
      <4>2. h + k <= y + 1 BY <2>4, <4>1
      <4> QED BY <4>2 DEF y
    <3> HIDE DEF h
    <3> QED BY <2>1, <3>1, <3>2, <3>3 DEF Run
  <2> HIDE DEF h
  <2>11. HexFrom(t, h, n) = SubSeq(t, h, h + k - 1) BY <2>3, <2>4, <2>9, <2>10, HexFromIs
  <2>12. SubSeq(t, h, h + k - 1) = hex
    <3> DEFINE q == SubSeq(t, h, h + k - 1)
    <3>1. h + k <= Len(t) + 1 BY <2>10 DEF Run
    <3>2. q \in Seq(Nat) /\ Len(q) = k /\ \A j \in 1 .. k : q[j] = t[h + j - 1]
      BY <2>4, <2>9, <3>1, Hex
    <3> HIDE DEF q
    <3>3. \A j \in 1 .. k : q[j] = hex[j] BY <2>8, <3>2
    <3>4. q = hex BY <3>2, <3>3, SeqEqual DEF k
    <3> QED BY <3>4 DEF q
  <2>13. dhex = hex BY <2>6, <2>9, <2>11, <2>12 DEF n
  <2>14. turn = Goes(s, 2 + k, Coded(kind, hex)) BY <2>6, <2>7, <2>13 DEF k
  <2> QED BY <2>1, <2>5, <2>14
<1>12. turn = Goes(s, Len(p.text), p.bytes) BY <1>5, <1>9, <1>10, <1>11, PieceForms
<1> QED BY <1>12 DEF turn

TextsOf(ps) == [i \in DOMAIN ps |-> ps[i].text]
BytesOf(ps) == [i \in DOMAIN ps |-> ps[i].bytes]

LEMMA TextType ==
  ASSUME NEW ps, IsText(ps)
  PROVE  /\ Len(ps) \in Nat /\ \A i \in 1 .. Len(ps) : IsPiece(ps[i])
         /\ TextsOf(ps) \in Seq(Seq(Nat)) /\ Len(TextsOf(ps)) = Len(ps)
         /\ \A i \in 1 .. Len(ps) : TextsOf(ps)[i] = ps[i].text
         /\ BytesOf(ps) \in Seq(Seq(Nat)) /\ Len(BytesOf(ps)) = Len(ps)
         /\ \A i \in 1 .. Len(ps) : BytesOf(ps)[i] = ps[i].bytes
         /\ TextOf(ps) = FlattenSeq(TextsOf(ps)) /\ TextOf(ps) \in Seq(Nat)
         /\ Meaning(ps) = FlattenSeq(BytesOf(ps)) /\ Meaning(ps) \in Seq(Nat)
<1> DEFINE n == Len(ps)
           T == TextsOf(ps)
           Y == BytesOf(ps)
           D == Seq(Nat)
<1>1. n \in Nat /\ ps = [i \in 1 .. n |-> ps[i]] BY DEF IsText, IsSequence
<1> HIDE DEF n
<1>2. DOMAIN ps = 1 .. n BY <1>1
<1>3. \A i \in 1 .. n : IsPiece(ps[i]) BY <1>2 DEF IsText
<1>4. \A i \in 1 .. n : ps[i].text \in D /\ ps[i].bytes \in D BY <1>3, PieceType
<1>5. T = [i \in 1 .. n |-> ps[i].text] /\ Y = [i \in 1 .. n |-> ps[i].bytes]
  BY <1>2 DEF TextsOf, BytesOf
<1>6. TextOf(ps) = FlattenSeq(T) /\ Meaning(ps) = FlattenSeq(Y)
  BY DEF TextOf, Meaning, TextsOf, BytesOf
<1> HIDE DEF T, Y, D
<1>7. \A i \in 1 .. n : T[i] = ps[i].text /\ Y[i] = ps[i].bytes BY <1>5
<1>8. T \in Seq(D) /\ Len(T) = n
  <2>1. T \in [1 .. n -> D] BY <1>4, <1>5
  <2> QED BY <1>1, <2>1, Enumerated
<1>9. Y \in Seq(D) /\ Len(Y) = n
  <2>1. Y \in [1 .. n -> D] BY <1>4, <1>5
  <2> QED BY <1>1, <2>1, Enumerated
<1>10. FlattenSeq(T) \in D BY <1>8, Flattened DEF D
<1>11. FlattenSeq(Y) \in D BY <1>9, Flattened DEF D
<1> QED BY <1>1, <1>3, <1>6, <1>7, <1>8, <1>9, <1>10, <1>11 DEF n, T, Y, D

\* What a text stands for is typed, piece after piece.
LEMMA UnescapeMeans ==
  ASSUME NEW ps, IsText(ps), Spells(ps)
  PROVE  Unescape(TextOf(ps)) = Meaning(ps)
<1> DEFINE n == Len(ps)
           T == TextsOf(ps)
           Y == BytesOf(ps)
           t == TextOf(ps)
           N == Len(t)
           J == Joined(T)
           K == Joined(Y)
           s == Turns(t, MaxDigits)
           none == <<>>
<1>1. /\ n \in Nat /\ \A i \in 1 .. n : IsPiece(ps[i])
      /\ T \in Seq(Seq(Nat)) /\ Len(T) = n /\ \A i \in 1 .. n : T[i] = ps[i].text
      /\ Y \in Seq(Seq(Nat)) /\ Len(Y) = n /\ \A i \in 1 .. n : Y[i] = ps[i].bytes
      /\ t = FlattenSeq(T) /\ t \in Seq(Nat) /\ Meaning(ps) = FlattenSeq(Y)
  BY TextType
<1>2. N \in Nat BY <1>1, LenProperties
<1>3. /\ s \in [0 .. N -> TurnStates] /\ s[0] = [at |-> 1, out |-> <<>>]
      /\ \A k \in 1 .. N : s[k] = Turn(t, MaxDigits, s[k - 1])
  BY <1>1, Turning
<1>4. Unescape(t) = s[N].out BY DEF Unescape, UnescapeTaking
<1> HIDE DEF n, T, Y, t, s
<1>5. /\ J \in [0 .. n -> Seq(Nat)] /\ J[0] = <<>>
      /\ \A i \in 1 .. n : J[i] = J[i - 1] \o T[i]
  BY <1>1, Joining
<1>6. /\ K \in [0 .. n -> Seq(Nat)] /\ K[0] = <<>>
      /\ \A i \in 1 .. n : K[i] = K[i - 1] \o Y[i]
  BY <1>1, Joining
<1>7. t = J[n] /\ Meaning(ps) = K[n] BY <1>1, Flattened
<1> HIDE DEF J, K
<1>8. \A i \in 1 .. n : /\ T[i] \in Seq(Nat) /\ Len(T[i]) \in Nat \ {0}
                        /\ Y[i] \in Seq(Nat)
  BY <1>1, PieceType
<1>9. none \in Seq(Nat) /\ Len(none) = 0 OBVIOUS
<1> HIDE DEF none
<1>10. PICK rests \in [0 .. n -> Seq(Nat)] :
         /\ rests[0] = t \o none /\ rests[n] = none
         /\ \A i \in 1 .. n : rests[i - 1] = T[i] \o rests[i]
  <2>1. PICK rests \in [0 .. Len(T) -> Seq(Nat)] : Leave(rests, T, none)
    BY <1>1, <1>9, Rests
  <2> QED BY <1>1, <2>1 DEF Leave
<1>11. \A i \in 0 .. n : t = J[i] \o rests[i]
  <2> DEFINE Q == {i \in 0 .. n : t = J[i] \o rests[i]}
  <2>1. 0 \in Q
    <3>1. none \o rests[0] = rests[0] /\ t \o none = t /\ 0 \in 0 .. n
      BY <1>1, <1>10, ConcatEmptySeq DEF none
    <3> QED BY <1>5, <1>10, <3>1 DEF none
  <2>2. ASSUME NEW i \in 0 .. n - 1, i \in Q PROVE i + 1 \in Q
    <3> DEFINE k == i + 1
               u == J[i]
               v == T[k]
               w == rests[k]
    <3>1. k \in 1 .. n /\ k \in 0 .. n /\ k - 1 = i /\ i \in 0 .. n BY <1>1
    <3> HIDE DEF k
    <3>2. J[k] = u \o v /\ rests[i] = v \o w BY <1>5, <1>10, <3>1
    <3>3. u \in Seq(Nat) /\ v \in Seq(Nat) /\ w \in Seq(Nat) BY <1>5, <1>8, <1>10, <3>1
    <3>4. t = u \o rests[i] BY <2>2
    <3> HIDE DEF u, v, w
    <3>5. (u \o v) \o w = u \o (v \o w) BY <3>3, Regroup, SMTT(30)
    <3>6. t = J[k] \o w BY <3>2, <3>4, <3>5
    <3> QED BY <3>1, <3>6 DEF k, w
  <2>3. 0 .. n \subseteq Q
    <3> HIDE DEF Q
    <3> QED BY <1>1, <2>1, <2>2, InductionTo
  <2> QED BY <2>3
<1>12. \A i \in 0 .. n : Len(J[i]) \in Nat /\ Len(J[i]) >= i
  <2> DEFINE Q == {i \in 0 .. n : Len(J[i]) >= i}
  <2>1. 0 \in Q BY <1>1, <1>5
  <2>2. ASSUME NEW i \in 0 .. n - 1, i \in Q PROVE i + 1 \in Q
    <3> DEFINE k == i + 1
               u == J[i]
               v == T[k]
    <3>1. k \in 1 .. n /\ k \in 0 .. n /\ k - 1 = i /\ i \in 0 .. n BY <1>1
    <3>2. Len(u) >= i BY <2>2
    <3> HIDE DEF k
    <3>3. J[k] = u \o v BY <1>5, <3>1
    <3>4. u \in Seq(Nat) /\ v \in Seq(Nat) /\ Len(v) \in Nat \ {0} BY <1>5, <1>8, <3>1
    <3> HIDE DEF u, v
    <3>5. Len(u \o v) = Len(u) + Len(v) /\ Len(u) \in Nat
      BY <3>4, ConcatProperties, LenProperties
    <3>6. Len(J[k]) >= i + 1 BY <3>2, <3>3, <3>4, <3>5
    <3> QED BY <3>1, <3>6 DEF k
  <2>3. 0 .. n \subseteq Q
    <3> HIDE DEF Q
    <3> QED BY <1>1, <2>1, <2>2, InductionTo
  <2>4. \A i \in 0 .. n : Len(J[i]) \in Nat BY <1>5, LenProperties
  <2> QED BY <2>3, <2>4
<1>13. n <= N /\ n \in 0 .. N
  <2>1. n \in 0 .. n BY <1>1
  <2> QED BY <1>1, <1>2, <1>7, <1>12, <2>1
<1> HIDE DEF N
<1>14. ASSUME NEW i \in 1 .. n PROVE Apart(ps[i], rests[i])
  <2>1. CASE i = n
    <3>1. rests[i] = <<>> BY <1>10, <2>1 DEF none
    <3> QED BY <3>1 DEF Apart
  <2>2. CASE i # n
    <3> DEFINE k == i + 1
    <3>1. k \in 1 .. n /\ k - 1 = i /\ k \in 0 .. n /\ i \in 1 .. n - 1 BY <1>1, <2>2
    <3>2. ps[i].full \/ ~IsHex(ps[i + 1].text[1]) BY <3>1 DEF Spells, n
    <3> HIDE DEF k
    <3> DEFINE v == T[k]
               w == rests[k]
    <3>3. rests[i] = v \o w /\ v = ps[k].text BY <1>1, <1>10, <3>1
    <3>4. v \in Seq(Nat) /\ Len(v) \in Nat \ {0} /\ w \in Seq(Nat) BY <1>8, <1>10, <3>1
    <3> HIDE DEF v, w
    <3>5. (v \o w)[1] = v[1]
      <4>1. 1 \in 1 .. Len(v) + Len(w) /\ 1 <= Len(v) BY <3>4, LenProperties
      <4> QED BY <3>4, <4>1, ConcatProperties
    <3> QED BY <3>2, <3>3, <3>5 DEF Apart, k
  <2> QED BY <2>1, <2>2
<1> DEFINE At(i) == s[i].at = Len(J[i]) + 1 /\ s[i].out = K[i]
<1>15. \A i \in 0 .. n : At(i)
  <2> DEFINE Q == {i \in 0 .. n : At(i)}
  <2>1. 0 \in Q
    <3>1. s[0].at = 1 /\ s[0].out = <<>> /\ Len(<<>>) = 0 /\ 0 \in 0 .. n BY <1>1, <1>3
    <3>2. At(0) BY <1>5, <1>6, <3>1
    <3> QED BY <3>1, <3>2
  <2>2. ASSUME NEW i \in 0 .. n - 1, i \in Q PROVE i + 1 \in Q
    <3> DEFINE k == i + 1
               d == s[i]
               a == Len(J[i])
               p == ps[k]
               z == rests[k]
    <3>1. k \in 1 .. n /\ k \in 0 .. n /\ k - 1 = i /\ i \in 0 .. n BY <1>1
    <3>2. k \in 1 .. N /\ i \in 0 .. N BY <1>2, <1>13, <3>1
    <3>3. d.at = a + 1 /\ d.out = K[i] BY <2>2
    <3> HIDE DEF k
    <3>4. s[k] = Turn(t, MaxDigits, d) /\ d \in TurnStates BY <1>3, <3>1, <3>2
    <3>5. a \in Nat /\ IsPiece(p) /\ z \in Seq(Nat) /\ Apart(p, z)
      BY <1>1, <1>10, <1>12, <1>14, <3>1
    <3>6. Behind(t, a, p.text \o z)
      <4> DEFINE u == J[i]
                 r == rests[i]
      <4>1. u \in Seq(Nat) /\ r \in Seq(Nat) /\ t = u \o r BY <1>5, <1>10, <1>11, <3>1
      <4>2. r = p.text \o z BY <1>1, <1>10, <3>1
      <4> HIDE DEF u, r
      <4>3. /\ Len(u \o r) = Len(u) + Len(r) /\ Len(u) \in Nat /\ Len(r) \in Nat
            /\ \A j \in 1 .. Len(u) + Len(r) :
                 (u \o r)[j] = IF j <= Len(u) THEN u[j] ELSE r[j - Len(u)]
        BY <4>1, ConcatProperties, LenProperties
      <4>4. ASSUME NEW j \in 1 .. Len(r) PROVE t[Len(u) + j] = r[j]
        <5> DEFINE x == Len(u) + j
        <5>1. x \in 1 .. Len(u) + Len(r) /\ ~(x <= Len(u)) /\ x - Len(u) = j BY <4>3
        <5> HIDE DEF x
        <5>2. t[x] = r[j] BY <4>1, <4>3, <5>1
        <5> QED BY <5>2 DEF x
      <4>5. Behind(t, Len(u), r) BY <4>1, <4>3, <4>4 DEF Behind
      <4> QED BY <4>2, <4>5 DEF u
    <3>7. J[k] = J[i] \o p.text /\ K[k] = K[i] \o p.bytes BY <1>1, <1>5, <1>6, <3>1
    <3>8. Len(J[k]) = a + Len(p.text)
      <4> DEFINE u == J[i]
                 v == p.text
      <4>1. u \in Seq(Nat) /\ v \in Seq(Nat) BY <1>5, <3>1, <3>5, PieceType
      <4> HIDE DEF u, v
      <4>2. Len(u \o v) = Len(u) + Len(v) BY <4>1, ConcatProperties
      <4> QED BY <3>7, <4>2 DEF u, v
    <3> HIDE DEF d, a, p, z
    <3>9. s[k] = Goes(d, Len(p.text), p.bytes) BY <1>1, <3>3, <3>4, <3>5, <3>6, PieceTurns
    <3>10. s[k].at = d.at + Len(p.text) /\ s[k].out = d.out \o p.bytes
      <4> DEFINE m == Len(p.text)
                 b == p.bytes
      <4> HIDE DEF m, b
      <4>1. Goes(d, m, b).at = d.at + m /\ Goes(d, m, b).out = d.out \o b BY DEF Goes
      <4> QED BY <3>9, <4>1 DEF m, b
    <3>11. Len(p.text) \in Nat BY <3>5, PieceType
    <3>12. At(k)
      <4> DEFINE m == Len(p.text)
      <4>0. m \in Nat /\ s[k].at = d.at + m /\ Len(J[k]) = a + m BY <3>8, <3>10, <3>11
      <4> HIDE DEF m
      <4>1. s[k].at = Len(J[k]) + 1 BY <3>3, <3>5, <4>0
      <4>2. s[k].out = K[k] BY <3>3, <3>7, <3>10
      <4> QED BY <4>1, <4>2
    <3> QED BY <3>1, <3>12 DEF k
  <2>3. 0 .. n \subseteq Q
    <3> HIDE DEF Q
    <3> QED BY <1>1, <2>1, <2>2, InductionTo
  <2> QED BY <2>3
<1>16. n \in 0 .. n BY <1>1
<1>17. s[n].at = N + 1 /\ s[n].out = K[n] BY <1>7, <1>15, <1>16 DEF N
<1> HIDE DEF At
<1>18. s[N] = s[n]
  <2> DEFINE e == s[n]
             Q == {k \in 0 .. N : k >= n => s[k] = e}
  <2>1. 0 \in Q BY <1>1, <1>2
  <2>2. ASSUME NEW k \in 0 .. N - 1, k \in Q PROVE k + 1 \in Q
    <3> DEFINE j == k + 1
    <3>1. j \in 1 .. N /\ j \in 0 .. N /\ j - 1 = k BY <1>2
    <3>2. CASE k >= n
      <4>1. s[k] = e BY <2>2, <3>2
      <4> HIDE DEF j
      <4>2. s[j] = Turn(t, MaxDigits, e) BY <1>3, <3>1, <4>1
      <4>3. e.at > Len(t) BY <1>2, <1>17 DEF N
      <4> HIDE DEF e
      <4>4. Turn(t, MaxDigits, e) = e BY <4>3 DEF Turn
      <4> QED BY <3>1, <4>2, <4>4 DEF j
    <3>3. CASE ~(k >= n)
      <4>1. k + 1 >= n => k + 1 = n BY <1>1, <3>3
      <4> QED BY <3>1, <4>1
    <3> QED BY <3>2, <3>3
  <2>3. 0 .. N \subseteq Q
    <3> HIDE DEF Q
    <3> QED BY <1>2, <2>1, <2>2, InductionTo
  <2>4. N \in 0 .. N /\ N >= n BY <1>1, <1>2, <1>13
  <2> QED BY <2>3, <2>4
<1> QED BY <1>4, <1>7, <1>17, <1>18 DEF t

-----------------------------------------------------------------------------
(* The invariant: what is on its way, and that what was read was read off  *)
(* it.                                                                     *)

StuffMessage(ps) == [kind |-> "send_data", fields |-> <<<<>>, Unescape(TextOf(ps))>>]
FrameOf(m) ==
  [revision |-> Revision, kind |-> m.kind, len |-> Len(Encode(m)), payload |-> Encode(m)]

Idle == sent = NoMessage /\ frame = NoFrame /\ arrived = 0 /\ pieces = <<>> /\ got = NoMessage
Plainly == sent \in Messages /\ pieces = <<>>
Stuffed == pieces \in Typed /\ sent = StuffMessage(pieces)
Unwritten == frame = NoFrame /\ arrived = 0
Written ==
  /\ frame = FrameOf(sent) /\ ~(frame.len > MaxMsg)
  /\ arrived \in 0 .. HeaderSize + Len(frame.payload)
Theirs ==
  /\ sent = Refused /\ pieces = <<>> /\ frame \in Foreign
  /\ arrived \in 0 .. HeaderSize + Len(frame.payload)

WireInv ==
  /\ Idle \/ ((Plainly \/ Stuffed) /\ (Unwritten \/ Written)) \/ Theirs
  /\ got = NoMessage \/ got = ReadFrame

LEMMA Begins == Init => WireInv
BY DEF Init, WireInv, Idle

\* A connection on which nothing was sent.
LEMMA AtFirst ==
  ASSUME WireInv, sent = NoMessage
  PROVE  Idle
<1>1. NoMessage.kind = "none" /\ Refused.kind = "refused" BY DEF NoMessage, Refused
<1>2. StuffMessage(pieces).kind = "send_data" BY DEF StuffMessage
<1>3. \A x \in Messages : x.kind \in Kinds BY WireAssumption DEF IsMessageOf
<1>4. "none" \notin Kinds BY DEF Kinds, Layout
<1> QED BY <1>1, <1>2, <1>3, <1>4 DEF WireInv, Plainly, Stuffed, Theirs

LEMMA Sends ==
  ASSUME WireInv, sent = NoMessage, NEW m, WriteMsg(m)
  PROVE  sent' = m /\ got' = NoMessage /\ (Unwritten' \/ Written')
<1>1. Idle BY AtFirst
<1> DEFINE f == FrameOf(m)
<1>2. CASE Len(Encode(m)) > MaxMsg
  <2>1. sent' = m /\ frame' = frame /\ arrived' = arrived /\ got' = got
    BY <1>2 DEF WriteMsg
  <2> QED BY <1>1, <2>1 DEF Idle, Unwritten
<1>3. CASE ~(Len(Encode(m)) > MaxMsg)
  <2>1. Send(m, f) BY <1>3 DEF WriteMsg, FrameOf
  <2>2. ~(f.len > MaxMsg) BY <1>3 DEF FrameOf
  <2> HIDE DEF f
  <2>3. sent' = m /\ frame' = f /\ arrived' \in 0 .. HeaderSize + Len(f.payload) /\ got' = got
    BY <2>1 DEF Send
  <2>4. frame' = FrameOf(sent') /\ ~(frame'.len > MaxMsg) BY <2>2, <2>3 DEF f
  <2> QED BY <1>1, <2>3, <2>4 DEF Idle, Written, FrameOf
<1> QED BY <1>2, <1>3

LEMMA Continues ==
  ASSUME WireInv, [Next]_vars
  PROVE  WireInv'
<1>1. ASSUME NEW m \in Messages, sent = NoMessage, WriteMsg(m), UNCHANGED pieces
      PROVE  WireInv'
  <2>1. sent' = m /\ got' = NoMessage /\ (Unwritten' \/ Written') BY <1>1, Sends
  <2>2. pieces = <<>> BY <1>1, AtFirst DEF Idle
  <2>3. Plainly' BY <1>1, <2>1, <2>2 DEF Plainly
  <2> QED BY <2>1, <2>3 DEF WireInv
<1>2. ASSUME NEW ps \in Typed, sent = NoMessage, Stuff(ps) PROVE WireInv'
  <2>1. WriteMsg(StuffMessage(ps)) /\ pieces' = ps BY <1>2 DEF Stuff, StuffMessage
  <2>2. sent' = StuffMessage(ps) /\ got' = NoMessage /\ (Unwritten' \/ Written')
    BY <1>2, <2>1, Sends
  <2>3. Stuffed' BY <2>1, <2>2 DEF Stuffed, StuffMessage
  <2> QED BY <2>2, <2>3 DEF WireInv
<1>3. ASSUME NEW f \in Foreign, sent = NoMessage, Send(Refused, f), UNCHANGED pieces
      PROVE  WireInv'
  <2>1. pieces = <<>> /\ got = NoMessage BY <1>3, AtFirst DEF Idle
  <2>2. /\ sent' = Refused /\ frame' = f /\ got' = NoMessage /\ pieces' = <<>>
        /\ arrived' \in 0 .. HeaderSize + Len(f.payload)
    BY <1>3, <2>1 DEF Send
  <2>3. Theirs' BY <2>2 DEF Theirs
  <2> QED BY <2>2, <2>3 DEF WireInv
<1>4. ASSUME ReadMsg PROVE WireInv'
  <2>1. /\ sent' = sent /\ frame' = frame /\ arrived' = arrived /\ pieces' = pieces
        /\ got' = ReadFrame /\ sent # NoMessage
    BY <1>4 DEF ReadMsg
  <2>2. ReadFrame' = ReadFrame BY <2>1 DEF ReadFrame
  <2>3. ((Plainly \/ Stuffed) /\ (Unwritten \/ Written)) \/ Theirs
    BY <2>1 DEF WireInv, Idle
  <2>4. (((Plainly \/ Stuffed) /\ (Unwritten \/ Written)) \/ Theirs)'
    BY <2>1, <2>3 DEF Plainly, Stuffed, Unwritten, Written, Theirs, FrameOf, StuffMessage
  <2> QED BY <2>1, <2>2, <2>4 DEF WireInv
<1>5. ASSUME UNCHANGED vars PROVE WireInv'
  <2>1. /\ sent' = sent /\ frame' = frame /\ arrived' = arrived /\ pieces' = pieces
        /\ got' = got
    BY <1>5 DEF vars
  <2>2. ReadFrame' = ReadFrame BY <2>1 DEF ReadFrame
  <2> QED BY <2>1, <2>2 DEF WireInv, Idle, Plainly, Stuffed, Unwritten, Written, Theirs,
                            FrameOf, StuffMessage
<1> QED BY <1>1, <1>2, <1>3, <1>4, <1>5 DEF Next

\* What connections carry, and that what was read was read off it, of every
\* behaviour of write_msg and read_msg.
THEOREM WireTypeCorrect == Spec => []WireInv
<1>1. Init => WireInv BY Begins
<1>2. WireInv /\ [Next]_vars => WireInv' BY Continues
<1> QED BY <1>1, <1>2, PTL DEF Spec

-----------------------------------------------------------------------------
(* What the two ends promise each other.                                   *)

LEMMA EncodeType ==
  ASSUME NEW B \in SUBSET Nat, Cells \subseteq B, NEW m, IsMessageOf(m, B)
  PROVE  Encode(m) \in Seq(B)
<1> DEFINE types == Layout[m.kind]
           v == m.fields
<1>1. m.kind \in Kinds /\ HasFields(types, v, B) /\ Encode(m) = FlattenSeq(FieldParts(types, v))
  BY MessageShape
<1>2. types \in Seq(FieldTypes) BY <1>1, LayoutShape
<1> HIDE DEF types, v
<1>3. FlattenSeq(FieldParts(types, v)) \in Seq(B) BY <1>1, <1>2, MessageType
<1> QED BY <1>1, <1>3

\* What stuff sends is a message whose lengths fit.
LEMMA StuffIs ==
  ASSUME NEW ps \in Typed
  PROVE  /\ IsMessageOf(StuffMessage(ps), Nat) /\ Fits(StuffMessage(ps))
         /\ StuffMessage(ps).fields[2] = Unescape(TextOf(ps))
<1> DEFINE raw == Unescape(TextOf(ps))
           none == <<>>
           m == StuffMessage(ps)
<1>1. raw \in Seq(Nat)
  <2>1. TextOf(ps) \in Seq(Nat) BY WireAssumption, TextType
  <2> QED BY <2>1, UnescapeType
<1>2. none \in Seq(Nat) /\ Len(none) = 0 OBVIOUS
<1>3. m.kind = "send_data" /\ m.fields = <<none, raw>> /\ m = [kind |-> m.kind, fields |-> m.fields]
  BY DEF StuffMessage
<1>4. "send_data" \in Kinds /\ Layout["send_data"] = <<"str", "raw">> BY DEF Kinds, Layout
<1> HIDE DEF raw, none, m
<1> DEFINE types == <<"str", "raw">>
           v == <<none, raw>>
<1>5. HasType("str", none, Nat) /\ FitsField("str", none)
  <2>1. "str" \in PlainTypes /\ "str" # "opt" BY DEF PlainTypes
  <2>2. Valid(none) BY <1>2 DEF Valid
  <2>3. HasPlainType("str", none, Nat) BY <1>2, <2>2 DEF HasPlainType, IsString
  <2>4. FitsPlain("str", none) BY <1>2, WireAssumption DEF FitsPlain
  <2> QED BY <2>1, <2>3, <2>4, FieldOfPlain
<1>6. HasType("raw", raw, Nat) /\ FitsField("raw", raw)
  <2>1. "raw" \in PlainTypes BY DEF PlainTypes
  <2>2. HasPlainType("raw", raw, Nat) BY <1>1 DEF HasPlainType
  <2>3. FitsPlain("raw", raw) BY DEF FitsPlain
  <2> QED BY <2>1, <2>2, <2>3, FieldOfPlain
<1>7. Len(types) = 2 /\ types[1] = "str" /\ types[2] = "raw" OBVIOUS
<1>8. Len(v) = 2 /\ v[1] = none /\ v[2] = raw OBVIOUS
<1>9. IsSequence(v)
  <2>1. v \in Seq(Seq(Nat)) BY <1>1, <1>2
  <2> HIDE DEF v
  <2> QED BY <2>1, SequenceIs
<1>10. Layout[m.kind] = types /\ m.fields = v BY <1>3, <1>4
<1> HIDE DEF types, v
<1>11. \A i \in 1 .. Len(types) : i = 1 \/ i = 2 BY <1>7
<1>12. HasFields(types, v, Nat) BY <1>5, <1>6, <1>7, <1>8, <1>9, <1>11 DEF HasFields
<1>13. IsMessageOf(m, Nat) BY <1>3, <1>4, <1>10, <1>12, MessageShape
<1>14. FitsFields(types, v) BY <1>5, <1>6, <1>7, <1>8, <1>11 DEF FitsFields
<1>15. Fits(m) BY <1>10, <1>13, <1>14, FitsIs
<1> QED BY <1>8, <1>10, <1>13, <1>15 DEF m, raw

LEMMA CellsAreNaturals == Cells \in SUBSET Nat /\ Nat \in SUBSET Nat
BY WireAssumption DEF Cells

\* What is decoded from cells, which is what every peer sends.
LEMMA DecodeOff ==
  ASSUME NEW kind \in Kinds, NEW payload \in Seq(Cells),
         NEW m, m = Decode(kind, payload), m # Refused
  PROVE  m.kind = kind /\ Fits(m) /\ \E e \in Spellings(m) : BeginsWith(payload, e, Cells)
BY CellsAreNaturals, DecodeReads

\* What is read off a frame that was not refused.
LEMMA ReadOff ==
  ASSUME WireInv, IsMessage(got)
  PROVE  /\ got = ReadFrame /\ got # Refused
         /\ ~(arrived < HeaderSize) /\ frame.revision = Revision
         /\ ~(arrived - HeaderSize < frame.len) /\ frame.kind \in Kinds
         /\ got = Decode(frame.kind, SubSeq(frame.payload, 1, frame.len))
         /\ ((Plainly \/ Stuffed) /\ Written) \/ Theirs
<1>1. got # Refused /\ got # NoMessage
  <2>1. NoMessage.kind = "none" /\ Refused.kind = "refused" BY DEF NoMessage, Refused
  <2>2. "none" \notin Kinds /\ "refused" \notin Kinds BY DEF Kinds, Layout
  <2> QED BY <2>1, <2>2 DEF IsMessage
<1>2. got = ReadFrame BY <1>1 DEF WireInv
<1>3. /\ ~(arrived < HeaderSize) /\ frame.revision = Revision
      /\ ~(arrived - HeaderSize < frame.len) /\ frame.kind \in Kinds
      /\ got = Decode(frame.kind, SubSeq(frame.payload, 1, frame.len))
  BY <1>1, <1>2 DEF ReadFrame
<1>4. ~Unwritten
  <2>1. ASSUME Unwritten PROVE FALSE BY <1>3, <2>1 DEF Unwritten, HeaderSize
  <2> QED BY <2>1
<1>5. ~Idle BY <1>1 DEF Idle
<1> QED BY <1>1, <1>2, <1>3, <1>4, <1>5 DEF WireInv

\* A message of ours whose lengths fit is read as it is, or refused.
LEMMA OursIsRead ==
  ASSUME Written, NEW B \in SUBSET Nat, Cells \subseteq B, IsMessageOf(sent, B),
         ~(arrived < HeaderSize), ~(arrived - HeaderSize < frame.len)
  PROVE  /\ Whole /\ frame.kind = sent.kind /\ frame.payload = Encode(sent)
         /\ SubSeq(frame.payload, 1, frame.len) = frame.payload
         /\ Fits(sent) => Decode(frame.kind, SubSeq(frame.payload, 1, frame.len)) = sent
<1> DEFINE e == Encode(sent)
           n == Len(e)
<1>1. frame.kind = sent.kind /\ frame.payload = e /\ frame.len = n BY DEF Written, FrameOf
<1>2. e \in Seq(B) BY EncodeType
<1>3. arrived \in 0 .. HeaderSize + n BY <1>1 DEF Written
<1> HIDE DEF e
<1>4. n \in Nat BY <1>2, LenProperties
<1>5. SubSeq(e, 1, n) = e BY <1>2, SubSeqFull
<1> HIDE DEF n
<1>6. arrived = HeaderSize + n BY <1>1, <1>3, <1>4 DEF HeaderSize
<1>7. Whole BY <1>1, <1>6 DEF Whole, n
<1>8. Fits(sent) => Decode(sent.kind, e) = sent BY DecodeIsRead DEF e
<1> QED BY <1>1, <1>5, <1>7, <1>8 DEF e

LEMMA PlainlyIs ==
  ASSUME Plainly
  PROVE  IsMessageOf(sent, Cells)
BY WireAssumption DEF Plainly

\* What arrives whole is read as what was sent exactly when its lengths fit,
\* whatever the message is.
THEOREM MessagesReadAsSent == Spec => []ReadAsSent
<1>1. WireInv => ReadAsSent
  <2> SUFFICES ASSUME WireInv, IsMessage(sent), got # NoMessage, frame # NoFrame, Whole
               PROVE  got = sent <=> Fits(sent)
    BY DEF ReadAsSent
  <2>1. (Plainly \/ Stuffed) /\ Written /\ got = ReadFrame
    <3>1. ~Idle /\ ~Unwritten BY DEF Idle, Unwritten
    <3>2. ~Theirs
      <4>1. Refused.kind \notin Kinds BY DEF Refused, Kinds, Layout
      <4> QED BY <4>1 DEF Theirs, IsMessage
    <3> QED BY <3>1, <3>2 DEF WireInv
  <2>2. \E B \in SUBSET Nat : Cells \subseteq B /\ IsMessageOf(sent, B)
    <3>1. CASE Plainly BY <3>1, PlainlyIs, CellsAreNaturals
    <3>2. CASE Stuffed
      <4>1. IsMessageOf(sent, Nat) BY <3>2, StuffIs DEF Stuffed
      <4> QED BY <4>1, CellsAreNaturals
    <3> QED BY <2>1, <3>1, <3>2
  <2>3. PICK B \in SUBSET Nat : Cells \subseteq B /\ IsMessageOf(sent, B) BY <2>2
  <2> DEFINE n == Len(frame.payload)
  <2>4. frame.len = n /\ frame.revision = Revision /\ ~(frame.len > MaxMsg)
    BY <2>1 DEF Written, FrameOf
  <2>5. n \in Nat
    <3>1. frame.payload = Encode(sent) BY <2>1 DEF Written, FrameOf
    <3>2. Encode(sent) \in Seq(B) BY <2>3, EncodeType
    <3> QED BY <3>1, <3>2, LenProperties
  <2>6. arrived = HeaderSize + n BY DEF Whole
  <2> HIDE DEF n
  <2>7. ~(arrived < HeaderSize) /\ ~(arrived - HeaderSize < frame.len)
    BY <2>4, <2>5, <2>6 DEF HeaderSize
  <2> DEFINE d == Decode(frame.kind, SubSeq(frame.payload, 1, frame.len))
  <2>8. /\ frame.kind = sent.kind /\ frame.payload = Encode(sent)
        /\ SubSeq(frame.payload, 1, frame.len) = frame.payload
        /\ Fits(sent) => d = sent
    BY <2>1, <2>3, <2>7, OursIsRead
  <2>9. got = d
    <3>1. frame.kind \in Kinds BY <2>8 DEF IsMessage
    <3> QED BY <2>1, <2>4, <2>7, <3>1 DEF ReadFrame
  <2>10. ASSUME got = sent PROVE Fits(sent)
    <3>1. CASE Plainly
      <4> DEFINE p == frame.payload
                 k == frame.kind
      <4>1. IsMessageOf(sent, Cells) BY <3>1, PlainlyIs
      <4>2. p \in Seq(Cells) BY <2>8, <4>1, EncodeType, CellsAreNaturals
      <4>3. k \in Kinds /\ sent = Decode(k, p) BY <2>8, <2>9, <2>10 DEF IsMessage
      <4>4. sent # Refused
        <5>1. Refused.kind \notin Kinds BY DEF Refused, Kinds, Layout
        <5> QED BY <5>1 DEF IsMessage
      <4> HIDE DEF p, k
      <4> QED BY <4>2, <4>3, <4>4, DecodeOff
    <3>2. CASE Stuffed BY <3>2, StuffIs DEF Stuffed
    <3> QED BY <2>1, <3>1, <3>2
  <2> HIDE DEF d
  <2> QED BY <2>8, <2>9, <2>10
<1> QED BY <1>1, WireTypeCorrect, PTL

\* Nothing is invented, whoever sent what was read and wherever it was cut.
THEOREM ReadsAreFramed == Spec => []NothingInvented
<1>1. WireInv => NothingInvented
  <2> SUFFICES ASSUME WireInv, IsMessage(got)
               PROVE  /\ arrived >= HeaderSize + frame.len
                      /\ frame.revision = Revision /\ frame.kind = got.kind
                      /\ \E e \in Spellings(got) : IsPrefix(e, frame.payload)
    BY DEF NothingInvented
  <2> DEFINE p == frame.payload
             n == frame.len
             s == SubSeq(p, 1, n)
             k == frame.kind
  <2>1. /\ got # Refused /\ ~(arrived < HeaderSize) /\ frame.revision = Revision
        /\ ~(arrived - HeaderSize < n) /\ k \in Kinds /\ got = Decode(k, s)
        /\ ((Plainly \/ Stuffed) /\ Written) \/ Theirs
    BY ReadOff
  <2>2. CASE Stuffed /\ Written
    <3>1. IsMessageOf(sent, Nat) /\ Fits(sent) BY <2>2, StuffIs DEF Stuffed
    <3>2. Whole /\ k = sent.kind /\ p = Encode(sent) /\ s = p /\ got = sent
      BY <2>1, <2>2, <3>1, CellsAreNaturals, OursIsRead
    <3> DEFINE e == Encode(got)
    <3>3. e \in Seq(Nat) /\ p = e BY <3>1, <3>2, EncodeType, CellsAreNaturals
    <3>4. Len(p) = n /\ Len(p) \in Nat BY <2>2, <3>3, LenProperties DEF Written, FrameOf
    <3>5. arrived >= HeaderSize + n BY <3>2, <3>4 DEF Whole, HeaderSize
    <3>6. IsPrefix(e, p)
      <4> HIDE DEF e, p
      <4> QED BY <3>3, <3>4 DEF IsPrefix
    <3>7. e \in Spellings(got)
      <4>1. got.kind = "send_data" BY <2>2, <3>2 DEF Stuffed, StuffMessage
      <4> QED BY <4>1 DEF Spellings
    <3> QED BY <2>1, <3>2, <3>5, <3>6, <3>7
  <2>3. CASE (Plainly /\ Written) \/ Theirs
    <3>1. p \in Seq(Cells) /\ n \in Nat /\ arrived \in 0 .. HeaderSize + Len(p)
      <4>1. CASE Plainly /\ Written
        <5>1. p = Encode(sent) /\ n = Len(p) /\ arrived \in 0 .. HeaderSize + Len(p)
          BY <4>1 DEF Written, FrameOf
        <5>2. Encode(sent) \in Seq(Cells) BY <4>1, PlainlyIs, EncodeType, CellsAreNaturals
        <5> QED BY <5>1, <5>2, LenProperties
      <4>2. CASE Theirs BY <4>2, WireAssumption DEF Theirs
      <4> QED BY <2>3, <4>1, <4>2
    <3> HIDE DEF p, n, s, k
    <3>2. Len(p) \in Nat BY <3>1, LenProperties
    <3>3. n \in 0 .. Len(p) /\ arrived >= HeaderSize + n BY <2>1, <3>1, <3>2 DEF HeaderSize
    <3> DEFINE q == SubSeq(p, n + 1, Len(p))
    <3>4. s \in Seq(Cells) /\ q \in Seq(Cells) /\ p = s \o q BY <3>1, <3>3, Cut DEF s
    <3>5. got.kind = k /\ \E e \in Spellings(got) : BeginsWith(s, e, Cells)
      BY <2>1, <3>4, DecodeOff
    <3> HIDE DEF q
    <3> PICK e \in Spellings(got) : BeginsWith(s, e, Cells) BY <3>5
    <3>6. PICK t \in Seq(Cells) : e \in Seq(Cells) /\ s = e \o t BY DEF BeginsWith
    <3> DEFINE u == t \o q
    <3>7. u \in Seq(Cells) BY <3>4, ConcatProperties
    <3>8. p = e \o u BY <3>4, <3>6, Regroup
    <3> HIDE DEF u
    <3>9. SubSeq(p, 1, Len(e)) = e BY <3>6, <3>7, <3>8, Halves
    <3>10. Len(p) = Len(e) + Len(u) /\ Len(e) \in Nat /\ Len(u) \in Nat
      BY <3>6, <3>7, <3>8, ConcatProperties, LenProperties
    <3>11. SubSeq(e, 1, Len(e)) = e BY <3>6, SubSeqFull
    <3>12. IsPrefix(e, p) BY <3>9, <3>10, <3>11 DEF IsPrefix
    <3> QED BY <2>1, <3>3, <3>5, <3>12 DEF n, k, p
  <2> QED BY <2>1, <2>2, <2>3
<1> QED BY <1>1, WireTypeCorrect, PTL

\* What stuff is given arrives as what it means, whichever escapes it is
\* written with, for every text.
THEOREM StuffIsTyped == Spec => []StuffArrives
<1>1. WireInv => StuffArrives
  <2> SUFFICES ASSUME WireInv, Spells(pieces), IsMessage(got), pieces # <<>>
               PROVE  got.fields[2] = Meaning(pieces)
    BY DEF StuffArrives
  <2>1. /\ ~(arrived < HeaderSize) /\ ~(arrived - HeaderSize < frame.len)
        /\ got = Decode(frame.kind, SubSeq(frame.payload, 1, frame.len))
        /\ ((Plainly \/ Stuffed) /\ Written) \/ Theirs
    BY ReadOff
  <2>2. Stuffed /\ Written BY <2>1 DEF Plainly, Theirs
  <2>3. pieces \in Typed /\ sent = StuffMessage(pieces) BY <2>2 DEF Stuffed
  <2>4. /\ IsMessageOf(sent, Nat) /\ Fits(sent)
        /\ sent.fields[2] = Unescape(TextOf(pieces))
    BY <2>3, StuffIs
  <2>5. got = sent BY <2>1, <2>2, <2>4, CellsAreNaturals, OursIsRead
  <2>6. Unescape(TextOf(pieces)) = Meaning(pieces)
    BY <2>3, WireAssumption, UnescapeMeans
  <2> QED BY <2>4, <2>5, <2>6
<1> QED BY <1>1, WireTypeCorrect, PTL
=============================================================================
