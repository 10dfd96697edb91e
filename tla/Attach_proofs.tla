---------------------------- MODULE Attach_proofs ----------------------------
(***************************************************************************)
(* Theorems about an attached terminal, for any keys, any sizes of screen, *)
(* terminal and read buffer and however long the attachment lasts.         *)
(***************************************************************************)
EXTENDS Attach, Recursion, SequenceTheorems, FiniteSetTheorems

-----------------------------------------------------------------------------
(* What the recursive definitions compute.                                 *)

LEMMA PrefixKeys ==
  ASSUME NEW s \in Seq(Keys)
  PROVE  /\ IsPrefixKey(s) \in [0 .. Len(s) -> BOOLEAN]
         /\ IsPrefixKey(s)[0] = FALSE
         /\ \A i \in 1 .. Len(s) :
              IsPrefixKey(s)[i] = (s[i] = "ctrl_a" /\ ~IsPrefixKey(s)[i - 1])
<1> DEFINE step == [p \in (1 .. Len(s)) \X BOOLEAN |-> s[p[1]] = "ctrl_a" /\ ~p[2]]
           Is(f) == f = [i \in 0 .. Len(s) |->
                           IF i = 0 THEN FALSE ELSE s[i] = "ctrl_a" /\ ~f[i - 1]]
<1>1. Len(s) \in Nat OBVIOUS
<1>2. step \in Steps(1 .. Len(s), BOOLEAN) BY DEF Steps
<1> HIDE DEF step
<1>3. PICK f \in [0 .. Len(s) -> BOOLEAN] :
        f[0] = FALSE /\ \A i \in 1 .. Len(s) : f[i] = step[<<i, f[i - 1]>>]
  <2> DEFINE start == FALSE
             B == BOOLEAN
             n == Len(s)
  <2>1. n \in Nat BY <1>1
  <2>2. start \in B OBVIOUS
  <2>3. step \in Steps(1 .. n, B) BY <1>2
  <2> HIDE DEF start, B, n
  <2>4. \E f \in [0 .. n -> B] :
          f[0] = start /\ \A i \in 1 .. n : f[i] = step[<<i, f[i - 1]>>]
    BY <2>1, <2>2, <2>3, RecursionTo
  <2> QED BY <2>4 DEF start, B, n
<1>4. ASSUME NEW i \in 1 .. Len(s) PROVE f[i] = (s[i] = "ctrl_a" /\ ~f[i - 1])
  <2>1. i - 1 \in 0 .. Len(s) BY <1>1
  <2>2. f[i - 1] \in BOOLEAN BY <1>3, <2>1
  <2>3. step[<<i, f[i - 1]>>] = (s[i] = "ctrl_a" /\ ~f[i - 1]) BY <2>2 DEF step
  <2> QED BY <1>3, <2>3
<1>5. Is(f)
  <2>1. \A i \in 0 .. Len(s) : i = 0 \/ i \in 1 .. Len(s) BY <1>1
  <2> QED BY <1>3, <1>4, <2>1
<1>6. IsPrefixKey(s) = CHOOSE g : Is(g) BY DEF IsPrefixKey
<1>7. Is(IsPrefixKey(s))
  <2> HIDE DEF Is
  <2> QED BY <1>5, <1>6
<1> HIDE DEF Is
<1>8. IsPrefixKey(s) = [i \in 0 .. Len(s) |->
        IF i = 0 THEN FALSE ELSE s[i] = "ctrl_a" /\ ~IsPrefixKey(s)[i - 1]]
  BY <1>7 DEF Is
<1>9. \A i \in 1 .. Len(s) : i \in 0 .. Len(s) /\ i # 0 BY <1>1
<1>10. 0 \in 0 .. Len(s) BY <1>1
<1>11. IsPrefixKey(s) \in [0 .. Len(s) -> BOOLEAN]
  <2>1. [i \in 0 .. Len(s) |->
           IF i = 0 THEN FALSE ELSE s[i] = "ctrl_a" /\ ~IsPrefixKey(s)[i - 1]]
          \in [0 .. Len(s) -> BOOLEAN]
    OBVIOUS
  <2> QED BY <1>8, <2>1
<1> QED BY <1>8, <1>9, <1>10, <1>11

\* The keys in three parts, however they are grouped.
LEMMA Regroup ==
  ASSUME NEW d \in Seq(Keys), NEW u \in Seq(Keys), NEW m \in Seq(Keys)
  PROVE  (d \o u) \o m = d \o (u \o m)
BY ConcatAssociative

LEMMA MeantType ==
  ASSUME NEW s \in Seq(Keys), NEW i \in 1 .. Len(s)
  PROVE  Meant(s, i) \in Seq(Keys)
<1>1. s[i] \in Keys /\ "ctrl_a" \in Keys BY DEF Keys
<1> DEFINE k == s[i]
<1>2. <<>> \in Seq(Keys) /\ <<k>> \in Seq(Keys) /\ <<"ctrl_a", k>> \in Seq(Keys) BY <1>1
<1> QED BY <1>2 DEF Meant

LEMMA Dues ==
  ASSUME NEW s \in Seq(Keys)
  PROVE  /\ Due(s) \in [0 .. Len(s) -> Seq(Keys)]
         /\ Due(s)[0] = <<>>
         /\ \A i \in 1 .. Len(s) : Due(s)[i] = Due(s)[i - 1] \o Meant(s, i)
<1> DEFINE step == [p \in (1 .. Len(s)) \X Seq(Keys) |-> p[2] \o Meant(s, p[1])]
           Is(f) == f = [i \in 0 .. Len(s) |-> IF i = 0 THEN <<>> ELSE f[i - 1] \o Meant(s, i)]
<1>1. Len(s) \in Nat /\ <<>> \in Seq(Keys) OBVIOUS
<1>2. step \in Steps(1 .. Len(s), Seq(Keys)) BY MeantType, ConcatProperties DEF Steps
<1> HIDE DEF step
<1>3. PICK f \in [0 .. Len(s) -> Seq(Keys)] :
        f[0] = <<>> /\ \A i \in 1 .. Len(s) : f[i] = step[<<i, f[i - 1]>>]
  <2> DEFINE start == <<>>
             D == Seq(Keys)
             n == Len(s)
  <2>1. n \in Nat BY <1>1
  <2>2. start \in D BY <1>1
  <2>3. step \in Steps(1 .. n, D) BY <1>2
  <2> HIDE DEF start, D, n
  <2>4. \E f \in [0 .. n -> D] :
          f[0] = start /\ \A i \in 1 .. n : f[i] = step[<<i, f[i - 1]>>]
    BY <2>1, <2>2, <2>3, RecursionTo
  <2> QED BY <2>4 DEF start, D, n
<1>4. ASSUME NEW i \in 1 .. Len(s) PROVE f[i] = f[i - 1] \o Meant(s, i)
  <2>1. i - 1 \in 0 .. Len(s) BY <1>1
  <2>2. f[i - 1] \in Seq(Keys) BY <1>3, <2>1
  <2>3. step[<<i, f[i - 1]>>] = f[i - 1] \o Meant(s, i) BY <2>2 DEF step
  <2> QED BY <1>3, <2>3
<1>5. Is(f)
  <2>1. \A i \in 0 .. Len(s) : i = 0 \/ i \in 1 .. Len(s) BY <1>1
  <2> QED BY <1>3, <1>4, <2>1
<1>6. Due(s) = CHOOSE g : Is(g) BY DEF Due
<1>7. Is(Due(s))
  <2> HIDE DEF Is
  <2> QED BY <1>5, <1>6
<1> HIDE DEF Is
<1> DEFINE due == Due(s)
<1> HIDE DEF due
<1>8. Is(due) BY <1>7 DEF due
<1>9. due[0] = <<>> /\ \A i \in 1 .. Len(s) : due[i] = due[i - 1] \o Meant(s, i)
  <2>1. \A i \in 1 .. Len(s) : i \in 0 .. Len(s) /\ i # 0 BY <1>1
  <2>2. 0 \in 0 .. Len(s) BY <1>1
  <2> QED BY <1>8, <2>1, <2>2 DEF Is
<1> DEFINE T == {i \in 0 .. Len(s) : due[i] \in Seq(Keys)}
<1>10. 0 \in T
  <2>1. 0 \in 0 .. Len(s) BY <1>1
  <2>2. due[0] \in Seq(Keys) BY <1>1, <1>9
  <2> QED BY <2>1, <2>2
<1>11. ASSUME NEW i \in 0 .. Len(s) - 1, i \in T PROVE i + 1 \in T
  <2>1. i + 1 \in 1 .. Len(s) /\ (i + 1) - 1 = i /\ i + 1 \in 0 .. Len(s) BY <1>1
  <2>2. Meant(s, i + 1) \in Seq(Keys) BY <2>1, MeantType
  <2>3. due[i + 1] = due[i] \o Meant(s, i + 1) BY <1>9, <2>1
  <2>4. due[i] \in Seq(Keys) BY <1>11
  <2>5. due[i] \o Meant(s, i + 1) \in Seq(Keys) BY <2>2, <2>4, ConcatProperties
  <2> QED BY <2>1, <2>3, <2>5
<1>12. 0 .. Len(s) \subseteq T
  <2> HIDE DEF T
  <2> QED BY <1>1, <1>10, <1>11, InductionTo
<1>13. due = [i \in 0 .. Len(s) |-> due[i]]
  <2>1. due = [i \in 0 .. Len(s) |-> IF i = 0 THEN <<>> ELSE due[i - 1] \o Meant(s, i)]
    BY <1>8 DEF Is
  <2> QED BY <2>1
<1>14. due \in [0 .. Len(s) -> Seq(Keys)] BY <1>12, <1>13
<1> QED BY <1>9, <1>14 DEF due

\* A key more changes nothing for the keys before it.
LEMMA MoreKeys ==
  ASSUME NEW s \in Seq(Keys), NEW k \in Keys, NEW i \in 0 .. Len(s)
  PROVE  Due(Append(s, k))[i] = Due(s)[i] /\ IsPrefixKey(Append(s, k))[i] = IsPrefixKey(s)[i]
<1> DEFINE t == Append(s, k)
           T == {j \in Nat : j <= Len(s) => Due(t)[j] = Due(s)[j]
                                            /\ IsPrefixKey(t)[j] = IsPrefixKey(s)[j]}
<1>1. t \in Seq(Keys) /\ Len(t) = Len(s) + 1 /\ Len(s) \in Nat
      /\ \A j \in 1 .. Len(s) : t[j] = s[j]
  BY AppendProperties
<1> HIDE DEF t
<1>2. 0 \in T BY <1>1, PrefixKeys, Dues
<1>3. ASSUME NEW j \in Nat, j \in T PROVE j + 1 \in T
  <2> SUFFICES ASSUME j + 1 <= Len(s)
               PROVE  Due(t)[j + 1] = Due(s)[j + 1] /\ IsPrefixKey(t)[j + 1] = IsPrefixKey(s)[j + 1]
    OBVIOUS
  <2>1. /\ j + 1 \in 1 .. Len(s) /\ j + 1 \in 1 .. Len(t) /\ (j + 1) - 1 = j
        /\ t[j + 1] = s[j + 1]
    BY <1>1
  <2>2. Due(t)[j] = Due(s)[j] /\ IsPrefixKey(t)[j] = IsPrefixKey(s)[j] BY <1>1, <1>3, <2>1
  <2>3. ASSUME NEW v \in Seq(Keys), j + 1 \in 1 .. Len(v)
        PROVE  IsPrefixKey(v)[j + 1] = (v[j + 1] = "ctrl_a" /\ ~IsPrefixKey(v)[j])
    <3> DEFINE q == j + 1
    <3>1. q \in 1 .. Len(v) /\ q - 1 = j BY <2>3
    <3> HIDE DEF q
    <3>2. IsPrefixKey(v)[q] = (v[q] = "ctrl_a" /\ ~IsPrefixKey(v)[q - 1])
      BY <3>1, PrefixKeys, Zenon
    <3> QED BY <3>1, <3>2 DEF q
  <2>4. /\ IsPrefixKey(t)[j + 1] = (t[j + 1] = "ctrl_a" /\ ~IsPrefixKey(t)[j])
        /\ IsPrefixKey(s)[j + 1] = (s[j + 1] = "ctrl_a" /\ ~IsPrefixKey(s)[j])
    BY <1>1, <2>1, <2>3
  <2>5. IsPrefixKey(t)[j + 1] = IsPrefixKey(s)[j + 1] BY <2>1, <2>2, <2>4
  <2>6. Meant(t, j + 1) = Meant(s, j + 1) BY <2>1, <2>2, <2>5 DEF Meant
  <2>7. Due(t)[j + 1] = Due(t)[j] \o Meant(t, j + 1) BY <1>1, <2>1, Dues
  <2>8. Due(s)[j + 1] = Due(s)[j] \o Meant(s, j + 1) BY <2>1, Dues
  <2> QED BY <2>2, <2>5, <2>6, <2>7, <2>8
<1>4. Nat \subseteq T
  <2> HIDE DEF T
  <2> QED BY <1>2, <1>3, Induction
<1> QED BY <1>1, <1>4 DEF t

\* What is due for more keys continues what is due for fewer.
LEMMA DueGrows ==
  ASSUME NEW s \in Seq(Keys), NEW i \in 0 .. Len(s), NEW n \in Nat, i + n <= Len(s)
  PROVE  \E u \in Seq(Keys) : Due(s)[i + n] = Due(s)[i] \o u
<1> DEFINE T == {j \in Nat : i + j <= Len(s) =>
                               \E u \in Seq(Keys) : Due(s)[i + j] = Due(s)[i] \o u}
<1>1. Len(s) \in Nat OBVIOUS
<1>2. 0 \in T
  <2>1. Due(s)[i] \in Seq(Keys) /\ i + 0 = i BY <1>1, Dues
  <2>2. Due(s)[i] = Due(s)[i] \o <<>> /\ <<>> \in Seq(Keys) BY <2>1, ConcatEmptySeq
  <2> QED BY <2>1, <2>2
<1>3. ASSUME NEW j \in Nat, j \in T PROVE j + 1 \in T
  <2> SUFFICES ASSUME i + (j + 1) <= Len(s)
               PROVE  \E u \in Seq(Keys) : Due(s)[i + (j + 1)] = Due(s)[i] \o u
    OBVIOUS
  <2>1. i + (j + 1) \in 1 .. Len(s) /\ (i + (j + 1)) - 1 = i + j /\ i + j <= Len(s) BY <1>1
  <2>2. PICK u \in Seq(Keys) : Due(s)[i + j] = Due(s)[i] \o u BY <1>3, <2>1
  <2> DEFINE m == Meant(s, i + (j + 1))
  <2>3. m \in Seq(Keys) /\ Due(s)[i + (j + 1)] = Due(s)[i + j] \o m BY <2>1, MeantType, Dues
  <2>4. Due(s)[i] \in Seq(Keys) BY Dues
  <2> HIDE DEF m
  <2>5. Due(s)[i + (j + 1)] = Due(s)[i] \o (u \o m)
    <3> DEFINE d == Due(s)[i]
    <3>1. d \in Seq(Keys) BY <2>4
    <3>2. Due(s)[i + (j + 1)] = (d \o u) \o m BY <2>2, <2>3
    <3> HIDE DEF d
    <3>3. m \in Seq(Keys) /\ u \in Seq(Keys) BY <2>3
    <3>4. (d \o u) \o m = d \o (u \o m) BY <3>1, <3>3, Regroup
    <3> QED BY <3>2, <3>4 DEF d
  <2>6. u \o m \in Seq(Keys) BY <2>3, ConcatProperties
  <2> QED BY <2>5, <2>6
<1>4. Nat \subseteq T
  <2> HIDE DEF T
  <2> QED BY <1>2, <1>3, Induction
<1> QED BY <1>4

LEMMA ConcatIsPrefix ==
  ASSUME NEW S, NEW s \in Seq(S), NEW u \in Seq(S)
  PROVE  IsPrefix(s, s \o u)
<1>1. Len(s) \in Nat /\ Len(u) \in Nat /\ Len(s) <= Len(s \o u) BY ConcatProperties
<1>2. SubSeq(s \o u, 1, Len(s)) = SubSeq(s, 1, Len(s))
  <2>1. CASE Len(s) = 0
    <3>1. \A t : SubSeq(t, 1, 0) = <<>> BY SubSeqEmpty
    <3> QED BY <2>1, <3>1
  <2>2. CASE Len(s) # 0
    <3>1. 1 \in 1 .. Len(s) /\ Len(s) \in 1 .. Len(s) BY <1>1, <2>2
    <3> QED BY <3>1, SubSeqOfConcat1
  <2> QED BY <2>1, <2>2
<1> QED BY <1>1, <1>2 DEF IsPrefix

\* What was written of u before an error is a prefix of it.
LEMMA PartIsPrefix ==
  ASSUME NEW S, NEW s \in Seq(S), NEW u \in Seq(S), NEW n \in 0 .. Len(u)
  PROVE  s \o SubSeq(u, 1, n) \in Seq(S) /\ IsPrefix(s \o SubSeq(u, 1, n), s \o u)
<1> DEFINE a == SubSeq(u, 1, n)
           b == SubSeq(u, n + 1, Len(u))
<1>1. Len(u) \in Nat /\ n \in Nat /\ n <= Len(u) /\ \A i \in 1 .. Len(u) : u[i] \in S
  BY ElementOfSeq
<1>2. /\ a \in Seq(S) /\ Len(a) = n /\ \A i \in 1 .. n : a[i] = u[i]
      /\ b \in Seq(S) /\ Len(b) = Len(u) - n /\ \A i \in 1 .. Len(u) - n : b[i] = u[n + i]
  OBVIOUS
<1>3. a \o b = u
  <2>1. a \o b = SubSeq(u, 1, Len(u))
    <3>1. 1 \in 1 .. Len(u) + 1 /\ n \in 1 - 1 .. Len(u) /\ Len(u) \in n .. Len(u) BY <1>1
    <3> QED BY <3>1, ConcatAdjacentSubSeq
  <2>2. SubSeq(u, 1, Len(u)) = u OBVIOUS
  <2> QED BY <2>1, <2>2
<1> HIDE DEF a, b
<1>4. s \o a \in Seq(S) /\ s \o u = (s \o a) \o b
  <2>1. s \o a \in Seq(S) BY <1>2, ConcatProperties
  <2>2. (s \o a) \o b = s \o (a \o b) BY <1>2, ConcatAssociative
  <2> QED BY <1>3, <2>1, <2>2
<1>5. IsPrefix(s \o a, (s \o a) \o b) BY <1>2, <1>4, ConcatIsPrefix
<1> QED BY <1>4, <1>5 DEF a

-----------------------------------------------------------------------------
(* attach_loop's filter does what the keys mean.                           *)

\* What a read's filter holds.
Filtered == [out : Seq(Keys), pending : BOOLEAN, detach : BOOLEAN]

LEMMA FilterType ==
  ASSUME NEW f \in Filtered, NEW k \in Keys
  PROVE  Filter(f, k) \in Filtered
<1>1. "ctrl_a" \in Keys BY DEF Keys
<1>2. /\ Append(f.out, k) \in Seq(Keys)
      /\ f.out \o <<"ctrl_a", k>> \in Seq(Keys)
  BY <1>1 DEF Filtered
<1>3. k \in {"ctrl_a", "d", "x"} BY DEF Keys
<1>4. f.detach \in BOOLEAN /\ f.pending \in BOOLEAN BY DEF Filtered
<1>5. CASE f.detach BY <1>5 DEF Filter
<1>6. CASE ~f.detach /\ f.pending /\ k = "d" BY <1>6 DEF Filter, Filtered
<1>7. CASE ~f.detach /\ f.pending /\ k = "ctrl_a" BY <1>2, <1>7 DEF Filter, Filtered
<1>8. CASE ~f.detach /\ f.pending /\ k = "x" BY <1>2, <1>8 DEF Filter, Filtered
<1>9. CASE ~f.detach /\ ~f.pending /\ k = "ctrl_a" BY <1>9 DEF Filter, Filtered
<1>10. CASE ~f.detach /\ ~f.pending /\ k # "ctrl_a" BY <1>2, <1>10 DEF Filter, Filtered
<1> QED BY <1>3, <1>4, <1>5, <1>6, <1>7, <1>8, <1>9, <1>10

\* A key that does not detach leaves the prefix key where the keys have it, and
\* what it means in the output.
LEMMA FilterMeans ==
  ASSUME NEW s \in Seq(Keys), NEW i \in 1 .. Len(s), NEW f \in Filtered,
         ~f.detach, f.pending = IsPrefixKey(s)[i - 1], ~Filter(f, s[i]).detach
  PROVE  /\ Filter(f, s[i]).pending = IsPrefixKey(s)[i]
         /\ Filter(f, s[i]).out = f.out \o Meant(s, i)
<1> DEFINE k == s[i]
           was == IsPrefixKey(s)[i - 1]
           is == IsPrefixKey(s)[i]
           out == f.out
<1>1. k \in {"ctrl_a", "d", "x"} BY DEF Keys
<1>2. was \in BOOLEAN /\ is = (k = "ctrl_a" /\ ~was)
  <2>1. i - 1 \in 0 .. Len(s) OBVIOUS
  <2> QED BY <2>1, PrefixKeys
<1>3. out \in Seq(Keys) /\ out \o <<>> = out /\ out \o <<k>> = Append(out, k)
  <2>1. out \in Seq(Keys) BY DEF Filtered
  <2> HIDE DEF out
  <2> QED BY <2>1, ConcatEmptySeq, AppendIsConcat
<1>4. Meant(s, i) = IF is THEN <<>>
                    ELSE IF ~was \/ k = "ctrl_a" THEN <<k>>
                    ELSE IF k = "d" THEN <<>> ELSE <<"ctrl_a", k>>
  BY DEF Meant
<1>5. f.pending = was /\ f.out = out /\ f.pending \in BOOLEAN
      /\ f = [out |-> f.out, pending |-> f.pending, detach |-> f.detach]
  BY DEF Filtered
<1> HIDE DEF was, is, out
<1>6. CASE was /\ k = "d"
  <2>1. Filter(f, k).detach BY <1>5, <1>6 DEF Filter, Filtered
  <2> QED BY <2>1
<1>7. CASE was /\ k = "ctrl_a"
  <2>1. Filter(f, k) = [f EXCEPT !.out = Append(@, k), !.pending = FALSE]
    BY <1>5, <1>7 DEF Filter
  <2>2. Filter(f, k).out = Append(f.out, k) /\ Filter(f, k).pending = FALSE
    BY <2>1 DEF Filtered
  <2>3. Meant(s, i) = <<k>> /\ is = FALSE BY <1>2, <1>4, <1>7
  <2> QED BY <1>3, <1>5, <2>2, <2>3 DEF is
<1>8. CASE was /\ k = "x"
  <2>1. Filter(f, k) = [f EXCEPT !.out = @ \o <<"ctrl_a", k>>, !.pending = FALSE]
    BY <1>5, <1>8 DEF Filter
  <2>2. Filter(f, k).out = f.out \o <<"ctrl_a", k>> /\ Filter(f, k).pending = FALSE
    BY <2>1 DEF Filtered
  <2>3. Meant(s, i) = <<"ctrl_a", k>> /\ is = FALSE BY <1>2, <1>4, <1>8
  <2> QED BY <1>5, <2>2, <2>3 DEF is
<1>9. CASE ~was /\ k = "ctrl_a"
  <2>1. Filter(f, k) = [f EXCEPT !.pending = TRUE] BY <1>5, <1>9 DEF Filter
  <2>2. Filter(f, k).out = f.out /\ Filter(f, k).pending = TRUE BY <2>1 DEF Filtered
  <2>3. Meant(s, i) = <<>> /\ is = TRUE BY <1>2, <1>4, <1>9
  <2> QED BY <1>3, <1>5, <2>2, <2>3 DEF is
<1>10. CASE ~was /\ k # "ctrl_a"
  <2>1. Filter(f, k) = [f EXCEPT !.out = Append(@, k)] BY <1>5, <1>10 DEF Filter
  <2>2. Filter(f, k).out = Append(f.out, k) /\ Filter(f, k).pending = FALSE
    BY <1>5, <1>10, <2>1 DEF Filtered
  <2>3. Meant(s, i) = <<k>> /\ is = FALSE BY <1>2, <1>4, <1>10
  <2> QED BY <1>3, <1>5, <2>2, <2>3 DEF is
<1> QED BY <1>1, <1>2, <1>6, <1>7, <1>8, <1>9, <1>10

LEMMA Filterings ==
  ASSUME typed \in Seq(Keys), taken \in Nat, NEW n \in Nat, taken + n <= Len(typed),
         NEW prefix \in BOOLEAN
  PROVE  /\ Filtering(prefix, n) \in [0 .. n -> Filtered]
         /\ Filtering(prefix, n)[0] = [out |-> <<>>, pending |-> prefix, detach |-> FALSE]
         /\ \A i \in 1 .. n :
              Filtering(prefix, n)[i] = Filter(Filtering(prefix, n)[i - 1], typed[taken + i])
<1> DEFINE first == [out |-> <<>>, pending |-> prefix, detach |-> FALSE]
           step == [p \in (1 .. n) \X Filtered |-> Filter(p[2], typed[taken + p[1]])]
           Is(f) == f = [i \in 0 .. n |-> IF i = 0 THEN first
                                          ELSE Filter(f[i - 1], typed[taken + i])]
<1>1. \A i \in 1 .. n : typed[taken + i] \in Keys
  <2>1. \A i \in 1 .. n : taken + i \in 1 .. Len(typed) OBVIOUS
  <2> QED BY <2>1
<1>2. first \in Filtered
  <2>1. <<>> \in Seq(Keys) OBVIOUS
  <2> QED BY <2>1 DEF Filtered
<1>3. step \in Steps(1 .. n, Filtered) BY <1>1, FilterType DEF Steps
<1> HIDE DEF first, step
<1>4. PICK f \in [0 .. n -> Filtered] :
        f[0] = first /\ \A i \in 1 .. n : f[i] = step[<<i, f[i - 1]>>]
  BY <1>2, <1>3, RecursionTo
<1>5. ASSUME NEW i \in 1 .. n PROVE f[i] = Filter(f[i - 1], typed[taken + i])
  <2>1. i - 1 \in 0 .. n OBVIOUS
  <2>2. f[i - 1] \in Filtered BY <1>4, <2>1
  <2>3. step[<<i, f[i - 1]>>] = Filter(f[i - 1], typed[taken + i]) BY <2>2 DEF step
  <2> QED BY <1>4, <2>3
<1>6. Is(f)
  <2>1. \A i \in 0 .. n : i = 0 \/ i \in 1 .. n OBVIOUS
  <2> QED BY <1>4, <1>5, <2>1
<1>7. Filtering(prefix, n) = CHOOSE g : Is(g) BY DEF Filtering, first
<1>8. Is(Filtering(prefix, n))
  <2> HIDE DEF Is
  <2> QED BY <1>6, <1>7
<1> DEFINE F == Filtering(prefix, n)
<1> HIDE DEF F
<1>9. Is(F) BY <1>8 DEF F
<1>10. F[0] = first /\ \A i \in 1 .. n : F[i] = Filter(F[i - 1], typed[taken + i])
  <2>1. \A i \in 1 .. n : i \in 0 .. n /\ i # 0 OBVIOUS
  <2>2. 0 \in 0 .. n OBVIOUS
  <2> QED BY <1>9, <2>1, <2>2 DEF Is
<1> DEFINE T == {i \in 0 .. n : F[i] \in Filtered}
<1>11. 0 \in T BY <1>2, <1>10
<1>12. ASSUME NEW i \in 0 .. n - 1, i \in T PROVE i + 1 \in T
  <2>1. i + 1 \in 1 .. n /\ (i + 1) - 1 = i /\ i + 1 \in 0 .. n OBVIOUS
  <2>2. F[i + 1] = Filter(F[i], typed[taken + (i + 1)]) BY <1>10, <2>1
  <2>3. typed[taken + (i + 1)] \in Keys BY <1>1, <2>1
  <2>4. F[i] \in Filtered BY <1>12
  <2>5. Filter(F[i], typed[taken + (i + 1)]) \in Filtered BY <2>3, <2>4, FilterType
  <2> QED BY <2>1, <2>2, <2>5
<1>13. 0 .. n \subseteq T
  <2> HIDE DEF T
  <2> QED BY <1>11, <1>12, InductionTo
<1>14. F = [i \in 0 .. n |-> F[i]]
  <2>1. F = [i \in 0 .. n |-> IF i = 0 THEN first ELSE Filter(F[i - 1], typed[taken + i])]
    BY <1>9 DEF Is
  <2> QED BY <2>1
<1>15. F \in [0 .. n -> Filtered] BY <1>13, <1>14
<1> QED BY <1>10, <1>15 DEF F, first

\* A read that does not detach keeps what is due and where the prefix key stands.
LEMMA ReadMeans ==
  ASSUME typed \in Seq(Keys), taken \in Nat, NEW n \in Nat, taken + n <= Len(typed),
         pending \in BOOLEAN, pending = IsPrefixKey(typed)[taken],
         ~Filtering(pending, n)[n].detach
  PROVE  /\ Filtering(pending, n)[n].pending = IsPrefixKey(typed)[taken + n]
         /\ Due(typed)[taken + n] = Due(typed)[taken] \o Filtering(pending, n)[n].out
<1> DEFINE F == Filtering(pending, n)
<1>1. /\ F \in [0 .. n -> Filtered]
      /\ F[0] = [out |-> <<>>, pending |-> pending, detach |-> FALSE]
      /\ \A i \in 1 .. n : F[i] = Filter(F[i - 1], typed[taken + i])
  BY Filterings
<1>2. ~F[n].detach OBVIOUS
<1> HIDE DEF F
<1> DEFINE Kept(i) == /\ F[i].pending = IsPrefixKey(typed)[taken + i]
                      /\ Due(typed)[taken + i] = Due(typed)[taken] \o F[i].out
           T == {i \in 0 .. n : ~F[i].detach => Kept(i)}
<1>3. taken \in 0 .. Len(typed) /\ Due(typed)[taken] \in Seq(Keys)
  <2>1. taken \in 0 .. Len(typed) OBVIOUS
  <2> QED BY <2>1, Dues
<1>4. 0 \in T
  <2>1. Due(typed)[taken] = Due(typed)[taken] \o <<>> BY <1>3, ConcatEmptySeq
  <2>2. taken + 0 = taken /\ 0 \in 0 .. n OBVIOUS
  <2>3. F[0].out = <<>> /\ F[0].pending = pending BY <1>1
  <2>4. Kept(0) BY <2>1, <2>2, <2>3
  <2> HIDE DEF Kept
  <2> QED BY <2>2, <2>4
<1>5. ASSUME NEW i \in 0 .. n - 1, i \in T PROVE i + 1 \in T
  <2> DEFINE j == taken + (i + 1)
             k == typed[j]
             d == Due(typed)[taken]
             out == F[i].out
             m == Meant(typed, j)
  <2>1. /\ i + 1 \in 1 .. n /\ (i + 1) - 1 = i /\ i + 1 \in 0 .. n /\ i \in 0 .. n
        /\ j \in 1 .. Len(typed) /\ j - 1 = taken + i
    OBVIOUS
  <2>2. F[i] \in Filtered /\ F[i + 1] = Filter(F[i], k) BY <1>1, <2>1
  <2> SUFFICES ASSUME ~F[i + 1].detach PROVE Kept(i + 1) BY <2>1
  <2>3. ~F[i].detach
    <3>1. F[i].detach => Filter(F[i], k) = F[i] BY DEF Filter
    <3> QED BY <2>2, <3>1
  <2>4. Kept(i) BY <1>5, <2>3
  <2>5. m \in Seq(Keys) /\ d \in Seq(Keys) /\ out \in Seq(Keys)
    <3>1. m \in Seq(Keys) BY <2>1, MeantType
    <3>2. out \in Seq(Keys) BY <2>2 DEF Filtered
    <3> QED BY <1>3, <3>1, <3>2
  <2>6. Due(typed)[j] = Due(typed)[j - 1] \o m BY <2>1, Dues
  <2>7. F[i].pending = IsPrefixKey(typed)[j - 1] BY <2>1, <2>4
  <2> HIDE DEF j
  <2>8. /\ Filter(F[i], k).pending = IsPrefixKey(typed)[j]
        /\ Filter(F[i], k).out = F[i].out \o m
    <3>1. ~Filter(F[i], typed[j]).detach BY <2>2
    <3> QED BY <2>1, <2>2, <2>3, <2>7, <3>1, FilterMeans
  <2>9. (d \o out) \o m = d \o (out \o m)
    <3> HIDE DEF d, out, m
    <3> QED BY <2>5, Regroup
  <2>10. Due(typed)[j - 1] = d \o out BY <2>1, <2>4
  <2>11. Due(typed)[j] = d \o F[i + 1].out BY <2>2, <2>6, <2>8, <2>9, <2>10
  <2> QED BY <2>2, <2>8, <2>11 DEF j
<1>6. 0 .. n \subseteq T
  <2> HIDE DEF T
  <2> QED BY <1>4, <1>5, InductionTo
<1>7. n \in T
  <2> HIDE DEF T
  <2>1. n \in 0 .. n OBVIOUS
  <2> QED BY <1>6, <2>1
<1> QED BY <1>2, <1>7 DEF F

-----------------------------------------------------------------------------
(* The invariant: the prefix key that attach_loop remembers is the one the *)
(* keys taken so far end in, and every key taken is sent or about to be.   *)

KeysOK ==
  /\ typed \in Seq(Keys) /\ got \in Seq(Keys) /\ toSend \in Seq(Keys)
  /\ taken \in 0 .. Len(typed)
  /\ pending \in BOOLEAN
  /\ mode \in Modes
  /\ mode = "sending" <=> toSend # <<>>

PrefixRemembered == mode \notin Done => pending = IsPrefixKey(typed)[taken]

IInv == KeysOK /\ PrefixRemembered /\ KeysArriveInOrder

LEMMA InitKeys == Init => IInv
<1> SUFFICES ASSUME Init PROVE IInv OBVIOUS
<1>1. /\ typed = <<>> /\ taken = 0 /\ pending = FALSE /\ got = <<>> /\ toSend = <<>>
      /\ mode = "resuming"
  BY DEF Init
<1>2. <<>> \in Seq(Keys) /\ Len(<<>>) = 0 OBVIOUS
<1>3. KeysOK
  <2>1. taken \in 0 .. Len(typed) BY <1>1, <1>2
  <2>2. "resuming" \in Modes /\ ~(mode = "sending") /\ ~(toSend # <<>>) BY <1>1 DEF Modes
  <2> QED BY <1>1, <1>2, <2>1, <2>2, Zenon DEF KeysOK
<1>4. IsPrefixKey(<<>>)[0] = FALSE /\ Due(<<>>)[0] = <<>> BY <1>2, PrefixKeys, Dues
<1>5. <<>> \o <<>> = <<>> BY <1>2, ConcatEmptySeq
<1>6. PrefixRemembered BY <1>1, <1>4 DEF PrefixRemembered
<1>7. KeysArriveInOrder BY <1>1, <1>4, <1>5 DEF KeysArriveInOrder, Done
<1> QED BY <1>3, <1>6, <1>7 DEF IInv

\* A step that leaves the keys alone and neither begins nor ends a write.
LEMMA KeysUntouched ==
  ASSUME IInv, UNCHANGED keys, mode' \in Modes \ {"sending"}, mode # "sending",
         mode \in Done => mode' \in Done
  PROVE  IInv'
<1>1. /\ typed' = typed /\ taken' = taken /\ pending' = pending /\ got' = got
      /\ toSend' = toSend
  BY DEF keys
<1>2. KeysOK' BY <1>1 DEF IInv, KeysOK
<1>3. PrefixRemembered' BY <1>1 DEF IInv, PrefixRemembered
<1>4. KeysArriveInOrder'
  <2> DEFINE due == Due(typed)[taken]
  <2>1. toSend = <<>> /\ got \in Seq(Keys) BY DEF IInv, KeysOK
  <2>2. got \o toSend = got BY <2>1, ConcatEmptySeq
  <2>3. IsPrefix(got, due)
    <3>1. CASE mode \in Done BY <3>1 DEF IInv, KeysArriveInOrder
    <3>2. CASE mode \notin Done
      <4>1. got = due BY <2>2, <3>2 DEF IInv, KeysArriveInOrder
      <4>2. <<>> \in Seq(Keys) OBVIOUS
      <4>3. IsPrefix(got, got \o <<>>) BY <2>1, <4>2, ConcatIsPrefix
      <4> QED BY <2>1, <2>2, <4>1, <4>3
    <3> QED BY <3>1, <3>2
  <2>4. mode' \notin Done => got \o toSend = due BY DEF IInv, KeysArriveInOrder
  <2>5. KeysArriveInOrder' = IF mode' \in Done THEN IsPrefix(got, due) ELSE got \o toSend = due
    BY <1>1 DEF KeysArriveInOrder, Done
  <2> HIDE DEF due
  <2> QED BY <2>3, <2>4, <2>5
<1> QED BY <1>2, <1>3, <1>4 DEF IInv

\* A step that leaves the keys and the client alone.
LEMMA ClientUntouched == ASSUME IInv, UNCHANGED <<keys, mode>> PROVE IInv'
<1>1. /\ typed' = typed /\ taken' = taken /\ pending' = pending /\ got' = got
      /\ toSend' = toSend /\ mode' = mode
  BY DEF keys
<1> QED BY <1>1 DEF IInv, KeysOK, PrefixRemembered, KeysArriveInOrder, Done

LEMMA TypeKeeps == ASSUME IInv, Type PROVE IInv'
<1>1. PICK k \in Keys : typed' = Append(typed, k) BY DEF Type
<1>2. /\ mode \notin Done /\ mode' = mode /\ taken' = taken /\ pending' = pending
      /\ got' = got /\ toSend' = toSend
  BY DEF Type
<1>3. typed \in Seq(Keys) /\ taken \in 0 .. Len(typed) BY DEF IInv, KeysOK
<1>4. /\ Due(Append(typed, k))[taken] = Due(typed)[taken]
      /\ IsPrefixKey(Append(typed, k))[taken] = IsPrefixKey(typed)[taken]
  BY <1>3, MoreKeys
<1>5. Append(typed, k) \in Seq(Keys) /\ Len(Append(typed, k)) = Len(typed) + 1
  BY <1>3, AppendProperties
<1>6. KeysOK' BY <1>1, <1>2, <1>3, <1>5 DEF IInv, KeysOK
<1>7. PrefixRemembered' BY <1>1, <1>2, <1>4 DEF IInv, PrefixRemembered
<1>8. KeysArriveInOrder' BY <1>1, <1>2, <1>4 DEF IInv, KeysArriveInOrder, Done
<1> QED BY <1>6, <1>7, <1>8 DEF IInv

\* Forgetting the keys that have been sent leaves none of them due.
LEMMA TypeOnKeeps == ASSUME IInv, TypeOn PROVE IInv'
<1>1. /\ mode = "select" /\ mode' = mode /\ ~pending /\ pending' = pending
      /\ taken' = 0 /\ got' = <<>> /\ toSend' = toSend
  BY DEF TypeOn
<1>2. PICK k \in Keys : typed' = Append(SubSeq(typed, taken + 1, Len(typed)), k)
  BY DEF TypeOn
<1>3. typed \in Seq(Keys) /\ Len(typed) \in Nat /\ taken \in 0 .. Len(typed)
  BY DEF IInv, KeysOK
<1>4. toSend = <<>> BY <1>1 DEF IInv, KeysOK
<1>5. SubSeq(typed, taken + 1, Len(typed)) \in Seq(Keys)
  <2>1. \A i \in taken + 1 .. Len(typed) : i \in 1 .. Len(typed) BY <1>3
  <2>2. \A i \in 1 .. Len(typed) : typed[i] \in Keys BY <1>3, ElementOfSeq
  <2>3. \A i \in taken + 1 .. Len(typed) : typed[i] \in Keys BY <2>1, <2>2
  <2> QED BY <1>3, <2>3, SubSeqProperties
<1> DEFINE s == typed'
<1>6. s \in Seq(Keys) /\ Len(s) \in Nat BY <1>2, <1>5, AppendProperties
<1> HIDE DEF s
<1>7. IsPrefixKey(s)[0] = FALSE /\ Due(s)[0] = <<>> BY <1>6, PrefixKeys, Dues
<1>8. <<>> \in Seq(Keys) /\ <<>> \o <<>> = <<>>
  <2>1. <<>> \in Seq(Keys) OBVIOUS
  <2> QED BY <2>1, ConcatEmptySeq
<1>9. KeysOK'
  <2>1. taken' \in 0 .. Len(s) BY <1>1, <1>6
  <2> QED BY <1>1, <1>4, <1>6, <1>8, <2>1 DEF IInv, KeysOK, s
<1>10. PrefixRemembered' BY <1>1, <1>7 DEF IInv, KeysOK, PrefixRemembered, s
<1>11. KeysArriveInOrder' BY <1>1, <1>4, <1>7, <1>8 DEF KeysArriveInOrder, Done, s
<1> QED BY <1>9, <1>10, <1>11 DEF IInv

LEMMA ReadKeysKeeps == ASSUME IInv, ReadKeys PROVE IInv'
<1> DEFINE left == Len(typed) - taken
           n == IF left < BufSize THEN left ELSE BufSize
           f == Filtering(pending, n)[n]
           due == Due(typed)[taken]
<1>1. /\ mode = "select" /\ n > 0 /\ taken' = taken + n /\ pending' = f.pending
      /\ \/ f.detach /\ mode' = "detached" /\ UNCHANGED toSend
         \/ ~f.detach /\ f.out = <<>> /\ UNCHANGED <<mode, toSend>>
         \/ ~f.detach /\ f.out # <<>> /\ mode' = "sending" /\ toSend' = f.out
      /\ typed' = typed /\ got' = got
  BY DEF ReadKeys, ReadKeysAfter
<1>2. /\ typed \in Seq(Keys) /\ taken \in Nat /\ taken \in 0 .. Len(typed)
      /\ got \in Seq(Keys) /\ toSend = <<>> /\ pending \in BOOLEAN
  BY <1>1 DEF IInv, KeysOK
<1>3. n \in Nat /\ taken + n <= Len(typed) BY <1>2, RowsAssumption
<1>4. pending = IsPrefixKey(typed)[taken] /\ got \o toSend = due
  BY <1>1 DEF IInv, PrefixRemembered, KeysArriveInOrder, Done
<1>5. got = due BY <1>2, <1>4, ConcatEmptySeq
<1> HIDE DEF n
<1>6. f \in Filtered
  <2>1. n \in 0 .. n BY <1>3
  <2>2. Filtering(pending, n) \in [0 .. n -> Filtered] BY <1>2, <1>3, Filterings
  <2> QED BY <2>1, <2>2
<1>7. ~f.detach => /\ f.pending = IsPrefixKey(typed)[taken + n]
                   /\ Due(typed)[taken + n] = due \o f.out
  BY <1>2, <1>3, <1>4, ReadMeans
<1>8. PICK u \in Seq(Keys) : Due(typed)[taken + n] = due \o u BY <1>2, <1>3, DueGrows
<1> HIDE DEF f, due
<1>9. f.out \in Seq(Keys) /\ f.pending \in BOOLEAN BY <1>6 DEF Filtered
<1>10. KeysOK'
  <2>1. taken' \in 0 .. Len(typed') BY <1>1, <1>2, <1>3
  <2>2. /\ toSend' \in Seq(Keys)
        /\ \/ mode' \in {"select", "detached"} /\ toSend' = <<>>
           \/ mode' = "sending" /\ toSend' # <<>>
    <3>1. CASE f.detach /\ mode' = "detached" /\ toSend' = toSend BY <1>2, <3>1
    <3>2. CASE ~f.detach /\ f.out = <<>> /\ mode' = mode /\ toSend' = toSend
      BY <1>1, <1>2, <3>2
    <3>3. CASE ~f.detach /\ f.out # <<>> /\ mode' = "sending" /\ toSend' = f.out
      BY <1>9, <3>3
    <3> QED BY <1>1, <3>1, <3>2, <3>3
  <2>3. mode' \in Modes /\ (mode' = "sending" <=> toSend' # <<>>)
    <3>1. CASE mode' \in {"select", "detached"} /\ toSend' = <<>> BY <3>1 DEF Modes
    <3>2. CASE mode' = "sending" /\ toSend' # <<>> BY <3>2 DEF Modes
    <3> QED BY <2>2, <3>1, <3>2
  <2> QED BY <1>1, <1>2, <1>9, <2>1, <2>2, <2>3 DEF KeysOK
<1>11. PrefixRemembered' BY <1>1, <1>7 DEF PrefixRemembered, Done
<1>12. KeysArriveInOrder'
  <2>1. CASE f.detach
    <3>1. mode' \in Done BY <1>1, <2>1 DEF Done
    <3>2. IsPrefix(got, Due(typed)[taken + n]) BY <1>2, <1>5, <1>8, ConcatIsPrefix
    <3> QED BY <1>1, <3>1, <3>2 DEF KeysArriveInOrder, Done
  <2>2. CASE ~f.detach
    <3>1. mode' \notin Done /\ toSend' = f.out BY <1>1, <1>2, <2>2 DEF Done
    <3> QED BY <1>1, <1>5, <1>7, <2>2, <3>1 DEF KeysArriveInOrder, Done
  <2> QED BY <2>1, <2>2
<1> QED BY <1>10, <1>11, <1>12 DEF IInv

LEMMA SendKeeps == ASSUME IInv, Send PROVE IInv'
<1>1. /\ mode = "sending" /\ toSend' = <<>>
      /\ \/ got' = got \o toSend /\ mode' = "select"
         \/ mode' = "error" /\ \E n \in 0 .. Len(toSend) : got' = got \o SubSeq(toSend, 1, n)
         \/ mode' \in {"error", "ended"} /\ got' = got
      /\ typed' = typed /\ taken' = taken /\ pending' = pending
  BY DEF Send, SendElse
<1>2. got \in Seq(Keys) /\ toSend \in Seq(Keys) /\ <<>> \in Seq(Keys) BY DEF IInv, KeysOK
<1> DEFINE sent == got \o toSend
<1>3. sent \in Seq(Keys) /\ sent \o <<>> = sent
  <2>1. sent \in Seq(Keys) BY <1>2, ConcatProperties
  <2> HIDE DEF sent
  <2> QED BY <2>1, ConcatEmptySeq
<1>4. /\ IsPrefix(got, sent)
      /\ \A n \in 0 .. Len(toSend) : /\ got \o SubSeq(toSend, 1, n) \in Seq(Keys)
                                     /\ IsPrefix(got \o SubSeq(toSend, 1, n), sent)
  BY <1>2, ConcatIsPrefix, PartIsPrefix
<1>5. sent = Due(typed)[taken] BY <1>1 DEF IInv, KeysArriveInOrder, Done
<1>6. pending = IsPrefixKey(typed)[taken] BY <1>1 DEF IInv, PrefixRemembered, Done
<1>7. KeysOK' BY <1>1, <1>2, <1>3, <1>4 DEF IInv, KeysOK, Modes
<1> HIDE DEF sent
<1>8. PrefixRemembered' BY <1>1, <1>6 DEF PrefixRemembered
<1>9. KeysArriveInOrder'
  <2>1. CASE got' = got \o toSend /\ mode' = "select"
    <3>1. got' \o toSend' = Due(typed')[taken'] BY <1>1, <1>3, <1>5, <2>1 DEF sent
    <3> QED BY <2>1, <3>1 DEF KeysArriveInOrder, Done
  <2>2. CASE mode' \in {"error", "ended"} /\ got' = got
    <3>1. IsPrefix(got', Due(typed')[taken']) BY <1>1, <1>4, <1>5, <2>2
    <3> QED BY <2>2, <3>1 DEF KeysArriveInOrder, Done
  <2>3. CASE mode' = "error" /\ \E n \in 0 .. Len(toSend) : got' = got \o SubSeq(toSend, 1, n)
    <3>1. IsPrefix(got', Due(typed')[taken']) BY <1>1, <1>4, <1>5, <2>3
    <3> QED BY <2>3, <3>1 DEF KeysArriveInOrder, Done
  <2> QED BY <1>1, <2>1, <2>2, <2>3
<1> QED BY <1>7, <1>8, <1>9 DEF IInv

LEMMA NextKeys == ASSUME IInv, [Next]_vars PROVE IInv'
<1>1. CASE ReadKeys BY <1>1, ReadKeysKeeps
<1>2. CASE Send BY <1>2, SendKeeps
<1>3. CASE ReadContent
  <2>1. UNCHANGED keys /\ mode \in {"resuming", "select"} /\ mode' \in {"content", "ended", "error"}
    BY <1>3 DEF ReadContent, Refused, NoKeyWaits
  <2> QED BY <2>1, KeysUntouched DEF Modes, Done
<1>4. CASE ReadAlive
  <2>1. UNCHANGED keys /\ mode = "content" /\ mode' \in {"cursor", "ended", "error"}
    BY <1>4 DEF ReadAlive, Refused
  <2> QED BY <2>1, KeysUntouched DEF Modes, Done
<1>5. CASE ReadCursor
  <2>1. UNCHANGED keys /\ mode = "cursor" /\ mode' = "answered" BY <1>5 DEF ReadCursor
  <2> QED BY <2>1, KeysUntouched DEF Modes, Done
<1>6. CASE Show
  <2>1. UNCHANGED keys /\ mode = "answered" /\ mode' = "select" BY <1>6 DEF Show, ShowIf
  <2> QED BY <2>1, KeysUntouched DEF Modes, Done
<1>7. CASE StdinCloses
  <2>1. UNCHANGED keys /\ mode = "select" /\ mode' = "detached" BY <1>7 DEF StdinCloses, NoKeyWaits
  <2> QED BY <2>1, KeysUntouched DEF Modes, Done
<1>8. CASE Type \/ TypeOn BY <1>8, TypeKeeps, TypeOnKeeps
<1>9. CASE Feed \/ ProgramEnds \/ Removed \/ DaemonStops
  <2>1. UNCHANGED <<keys, mode>> BY <1>9 DEF Feed, ProgramEnds, Removed, DaemonStops
  <2> QED BY <2>1, ClientUntouched
<1>10. CASE UNCHANGED vars
  <2>1. UNCHANGED <<keys, mode>> BY <1>10 DEF vars
  <2> QED BY <2>1, ClientUntouched
<1> QED
  BY <1>1, <1>2, <1>3, <1>4, <1>5, <1>6, <1>7, <1>8, <1>9, <1>10 DEF Next, ClientStep, World

\* However the keys are split over reads and mixed with refreshes, and however
\* the attachment ends, the session receives what they stand for, in order and
\* once, and never the detach key: for any keys and any buffer (main.rs
\* attach_loop).
THEOREM KeysInOrder == Spec => []KeysArriveInOrder
<1>1. IInv => KeysArriveInOrder BY DEF IInv
<1> QED BY <1>1, InitKeys, NextKeys, PTL DEF Spec

-----------------------------------------------------------------------------
(* Rendering as text and drawing the text.                                 *)

Shown == Texts \cup {NewLine}

\* An entry more of the text is a line more if it is a line break.
LEMMA Lines ==
  ASSUME NEW text, NEW i \in Nat
  PROVE  /\ LineOf(text, 0) = 0
         /\ LineOf(text, i) \in Nat
         /\ text[i + 1] = NewLine => LineOf(text, i + 1) = LineOf(text, i) + 1
         /\ text[i + 1] # NewLine => LineOf(text, i + 1) = LineOf(text, i)
<1> DEFINE B(n) == {j \in 1 .. n : text[j] = NewLine}
<1>1. LineOf(text, 0) = 0
  <2>1. {j \in 1 .. 0 : text[j] = NewLine} = {} OBVIOUS
  <2> QED BY <2>1, FS_EmptySet DEF LineOf
<1>2. IsFiniteSet(B(i))
  <2>1. IsFiniteSet(1 .. i) BY FS_Interval
  <2> QED BY <2>1, FS_Subset
<1>3. LineOf(text, i) \in Nat BY <1>2, FS_CardinalityType DEF LineOf
<1>4. ASSUME text[i + 1] = NewLine PROVE LineOf(text, i + 1) = LineOf(text, i) + 1
  <2>1. B(i + 1) = B(i) \cup {i + 1} BY <1>4
  <2>2. i + 1 \notin B(i) OBVIOUS
  <2> HIDE DEF B
  <2>3. Cardinality(B(i + 1)) = Cardinality(B(i)) + 1 BY <1>2, <2>1, <2>2, FS_AddElement
  <2> QED BY <2>3 DEF LineOf, B
<1>5. ASSUME text[i + 1] # NewLine PROVE LineOf(text, i + 1) = LineOf(text, i)
  <2>1. B(i + 1) = B(i) BY <1>5
  <2> QED BY <2>1 DEF LineOf
<1> QED BY <1>1, <1>3, <1>4, <1>5

\* Only the entries before and at i count.
LEMMA LinesOfPrefix ==
  ASSUME NEW text, NEW longer, NEW i \in Nat, \A j \in 1 .. i : longer[j] = text[j]
  PROVE  LineOf(longer, i) = LineOf(text, i)
<1>1. {j \in 1 .. i : longer[j] = NewLine} = {j \in 1 .. i : text[j] = NewLine} OBVIOUS
<1> QED BY <1>1 DEF LineOf

\* A text that goes on with e rows that are empty and a row that is not.
Breaks(e) == [i \in 1 .. e |-> NewLine]
WithRow(text, e, row) == ((text \o Breaks(e)) \o <<NewLine>>) \o <<row>>

Continues(t, text, e, row) ==
  /\ t \in Seq(Shown) /\ Len(t) = Len(text) + e + 2
  /\ \A i \in 1 .. Len(text) : t[i] = text[i]
  /\ \A i \in Len(text) + 1 .. Len(text) + e + 1 : t[i] = NewLine
  /\ t[Len(text) + e + 2] = row

\* What flushing the empty rows and adding a row appends to a text.
LEMMA Flushed ==
  ASSUME NEW text \in Seq(Shown), NEW e \in Nat, NEW row \in Texts
  PROVE  Continues(WithRow(text, e, row), text, e, row)
<1> DEFINE n == Breaks(e)
           t == WithRow(text, e, row)
           u == text \o n
           break == <<NewLine>>
           v == u \o break
           end == <<row>>
<1>1. NewLine \in Shown /\ row \in Shown BY DEF Shown
<1>2. n \in Seq(Shown) /\ Len(n) = e /\ \A i \in 1 .. e : n[i] = NewLine BY <1>1 DEF Breaks
<1>3. break \in Seq(Shown) /\ Len(break) = 1 /\ break[1] = NewLine BY <1>1
<1>4. end \in Seq(Shown) /\ Len(end) = 1 /\ end[1] = row BY <1>1
<1> HIDE DEF n, t, break, end
<1>5. /\ u \in Seq(Shown) /\ Len(u) = Len(text) + e
      /\ \A i \in 1 .. Len(text) + e :
           u[i] = IF i <= Len(text) THEN text[i] ELSE n[i - Len(text)]
  BY <1>2, ConcatProperties
<1> HIDE DEF u
<1>6. /\ v \in Seq(Shown) /\ Len(v) = Len(u) + 1
      /\ \A i \in 1 .. Len(u) + 1 : v[i] = IF i <= Len(u) THEN u[i] ELSE break[i - Len(u)]
  <2>1. u \in Seq(Shown) /\ break \in Seq(Shown) BY <1>3, <1>5
  <2>2. /\ v \in Seq(Shown) /\ Len(v) = Len(u) + Len(break)
        /\ \A i \in 1 .. Len(u) + Len(break) :
             v[i] = IF i <= Len(u) THEN u[i] ELSE break[i - Len(u)]
    BY <2>1, ConcatProperties
  <2> QED BY <1>3, <2>2
<1>7. t = v \o end BY DEF t, WithRow, u, n, break, end
<1> HIDE DEF v
<1>8. /\ t \in Seq(Shown) /\ Len(t) = Len(v) + 1
      /\ \A i \in 1 .. Len(v) + 1 : t[i] = IF i <= Len(v) THEN v[i] ELSE end[i - Len(v)]
  <2>1. v \in Seq(Shown) /\ end \in Seq(Shown) BY <1>4, <1>6
  <2>2. /\ v \o end \in Seq(Shown) /\ Len(v \o end) = Len(v) + Len(end)
        /\ \A i \in 1 .. Len(v) + Len(end) :
             (v \o end)[i] = IF i <= Len(v) THEN v[i] ELSE end[i - Len(v)]
    BY <2>1, ConcatProperties
  <2> QED BY <1>4, <1>7, <2>2
<1>9. Len(text) \in Nat /\ Len(u) = Len(text) + e /\ Len(v) = Len(text) + e + 1
  BY <1>5, <1>6
<1>10. ASSUME NEW i \in 1 .. Len(text) PROVE t[i] = text[i]
  <2>1. t[i] = v[i] BY <1>8, <1>9
  <2>2. v[i] = u[i] BY <1>6, <1>9
  <2>3. u[i] = text[i] BY <1>5, <1>9
  <2> QED BY <2>1, <2>2, <2>3
<1>11. ASSUME NEW i \in Len(text) + 1 .. Len(text) + e + 1 PROVE t[i] = NewLine
  <2>1. t[i] = v[i] BY <1>8, <1>9
  <2>2. CASE i <= Len(u)
    <3>1. v[i] = u[i] BY <1>6, <1>9, <2>2
    <3>2. u[i] = n[i - Len(text)] BY <1>5, <1>9, <2>2
    <3>3. i - Len(text) \in 1 .. e BY <1>9, <2>2
    <3> QED BY <1>2, <2>1, <3>1, <3>2, <3>3
  <2>3. CASE ~(i <= Len(u))
    <3>1. i - Len(u) = 1 /\ i \in 1 .. Len(u) + 1
      <4>1. Len(u) \in Nat /\ i \in Nat /\ i <= Len(u) + 1 BY <1>9
      <4> QED BY <2>3, <4>1
    <3>2. v[i] = break[1] BY <1>6, <2>3, <3>1
    <3> QED BY <1>3, <2>1, <3>2
  <2> QED BY <2>2, <2>3
<1>12. t[Len(text) + e + 2] = row
  <2> DEFINE i == Len(text) + e + 2
  <2>1. i \in 1 .. Len(v) + 1 /\ ~(i <= Len(v)) /\ i - Len(v) = 1 BY <1>9
  <2> HIDE DEF i
  <2>2. t[i] = end[1] BY <1>8, <2>1
  <2> QED BY <1>4, <2>2 DEF i
<1> QED BY <1>8, <1>9, <1>10, <1>11, <1>12 DEF t, Continues

\* The lines of such a text: those of the text, the line breaks, the row.
LEMMA FlushedLines ==
  ASSUME NEW text \in Seq(Shown), NEW e \in Nat, NEW t,
         \A i \in 1 .. Len(text) : t[i] = text[i],
         \A i \in Len(text) + 1 .. Len(text) + e + 1 : t[i] = NewLine,
         t[Len(text) + e + 2] # NewLine
  PROVE  /\ \A i \in 0 .. Len(text) : LineOf(t, i) = LineOf(text, i)
         /\ LineOf(t, Len(text) + e + 2) = LineOf(text, Len(text)) + e + 1
<1> DEFINE L == Len(text)
<1>1. L \in Nat OBVIOUS
<1>2. ASSUME NEW i \in 0 .. L PROVE LineOf(t, i) = LineOf(text, i)
  <2>1. i \in Nat /\ \A j \in 1 .. i : t[j] = text[j] BY <1>1
  <2> QED BY <2>1, LinesOfPrefix
<1>3. LineOf(text, L) \in Nat BY <1>1, Lines
<1> DEFINE T == {k \in Nat : k <= e + 1 => LineOf(t, L + k) = LineOf(text, L) + k}
<1>4. 0 \in T
  <2>1. L + 0 = L /\ L \in 0 .. L BY <1>1
  <2>2. LineOf(t, L) = LineOf(text, L) BY <1>2, <2>1
  <2>3. LineOf(t, L + 0) = LineOf(text, L) + 0 BY <1>3, <2>1, <2>2
  <2> QED BY <2>3
<1>5. ASSUME NEW k \in Nat, k \in T PROVE k + 1 \in T
  <2> SUFFICES ASSUME k + 1 <= e + 1 PROVE LineOf(t, L + (k + 1)) = LineOf(text, L) + (k + 1)
    OBVIOUS
  <2>1. LineOf(t, L + k) = LineOf(text, L) + k BY <1>5
  <2> DEFINE i == L + k
  <2>2. i \in Nat /\ i + 1 = L + (k + 1) BY <1>1
  <2>3. i + 1 \in L + 1 .. L + e + 1 BY <1>1
  <2>4. t[i + 1] = NewLine BY <2>3
  <2> HIDE DEF i
  <2>5. LineOf(t, i + 1) = LineOf(t, i) + 1 BY <2>2, <2>4, Lines
  <2>6. LineOf(t, i) = LineOf(text, L) + k BY <2>1 DEF i
  <2> QED BY <1>3, <2>2, <2>5, <2>6
<1>6. Nat \subseteq T
  <2> HIDE DEF T
  <2> QED BY <1>4, <1>5, Induction
<1>7. LineOf(t, L + (e + 1)) = LineOf(text, L) + (e + 1)
  <2>1. e + 1 \in Nat /\ e + 1 <= e + 1 OBVIOUS
  <2> QED BY <1>6, <2>1
<1>8. LineOf(t, L + e + 2) = LineOf(t, L + (e + 1))
  <2> DEFINE i == L + (e + 1)
  <2>1. i \in Nat /\ i + 1 = L + e + 2 BY <1>1
  <2>2. t[i + 1] # NewLine BY <2>1
  <2> HIDE DEF i
  <2>3. LineOf(t, i + 1) = LineOf(t, i) BY <2>1, <2>2, Lines
  <2> QED BY <2>1, <2>3 DEF i
<1> QED BY <1>1, <1>2, <1>3, <1>7, <1>8

Screens == [RowIndex -> Texts \cup {Empty}]

\* What render_ansi holds between two rows.
Accumulated == [text : Seq(Shown), empty : Nat]

LEMMA AddRowType ==
  ASSUME NEW acc \in Accumulated, NEW row \in Texts \cup {Empty}
  PROVE  AddRow(acc, row) \in Accumulated
<1> DEFINE flushed == acc.text \o [i \in 1 .. acc.empty |-> NewLine]
           sep == IF flushed = <<>> THEN <<>> ELSE <<NewLine>>
<1>1. acc.text \in Seq(Shown) /\ acc.empty \in Nat BY DEF Accumulated
<1>2. CASE row = Empty
  <2>1. AddRow(acc, row) = [acc EXCEPT !.empty = @ + 1] BY <1>2 DEF AddRow, AddRowAfter
  <2> QED BY <1>1, <2>1 DEF Accumulated
<1>3. CASE row # Empty
  <2>1. AddRow(acc, row) = [text |-> (flushed \o sep) \o <<row>>, empty |-> 0]
    BY <1>3 DEF AddRow, AddRowAfter
  <2>2. NewLine \in Shown /\ row \in Shown BY <1>3 DEF Shown
  <2>3. [i \in 1 .. acc.empty |-> NewLine] \in Seq(Shown) BY <1>1, <2>2
  <2>4. flushed \in Seq(Shown) BY <1>1, <2>3, ConcatProperties
  <2> HIDE DEF flushed
  <2>5. sep \in Seq(Shown) BY <2>2
  <2> HIDE DEF sep
  <2>6. flushed \o sep \in Seq(Shown) /\ <<row>> \in Seq(Shown)
    BY <2>2, <2>4, <2>5, ConcatProperties
  <2>7. (flushed \o sep) \o <<row>> \in Seq(Shown) BY <2>6, ConcatProperties
  <2> QED BY <2>1, <2>7 DEF Accumulated
<1> QED BY <1>2, <1>3

LEMMA Renderings ==
  ASSUME NEW g \in Screens
  PROVE  /\ Rendering(g) \in [0 .. Rows -> Accumulated]
         /\ Rendering(g)[0] = [text |-> <<>>, empty |-> 0]
         /\ \A r \in 1 .. Rows : Rendering(g)[r] = AddRow(Rendering(g)[r - 1], g[r - 1])
<1> DEFINE first == [text |-> <<>>, empty |-> 0]
           step == [p \in (1 .. Rows) \X Accumulated |-> AddRow(p[2], g[p[1] - 1])]
           Is(f) == f = [r \in 0 .. Rows |-> IF r = 0 THEN first ELSE AddRow(f[r - 1], g[r - 1])]
<1>1. Rows \in Nat BY RowsAssumption
<1>2. \A r \in 1 .. Rows : g[r - 1] \in Texts \cup {Empty}
  <2>1. \A r \in 1 .. Rows : r - 1 \in RowIndex BY <1>1 DEF RowIndex
  <2> QED BY <2>1 DEF Screens
<1>3. first \in Accumulated
  <2>1. <<>> \in Seq(Shown) OBVIOUS
  <2> QED BY <2>1 DEF Accumulated
<1>4. step \in Steps(1 .. Rows, Accumulated) BY <1>2, AddRowType DEF Steps
<1> HIDE DEF first, step
<1>5. PICK f \in [0 .. Rows -> Accumulated] :
        f[0] = first /\ \A r \in 1 .. Rows : f[r] = step[<<r, f[r - 1]>>]
  BY <1>1, <1>3, <1>4, RecursionTo
<1>6. ASSUME NEW r \in 1 .. Rows PROVE f[r] = AddRow(f[r - 1], g[r - 1])
  <2>1. r - 1 \in 0 .. Rows BY <1>1
  <2>2. f[r - 1] \in Accumulated BY <1>5, <2>1
  <2>3. step[<<r, f[r - 1]>>] = AddRow(f[r - 1], g[r - 1]) BY <2>2 DEF step
  <2> QED BY <1>5, <2>3
<1>7. Is(f)
  <2>1. \A r \in 0 .. Rows : r = 0 \/ r \in 1 .. Rows BY <1>1
  <2> QED BY <1>5, <1>6, <2>1
<1>8. Rendering(g) = CHOOSE h : Is(h) BY DEF Rendering, first
<1>9. Is(Rendering(g))
  <2> HIDE DEF Is
  <2> QED BY <1>7, <1>8
<1> DEFINE R == Rendering(g)
<1> HIDE DEF R
<1>10. Is(R) BY <1>9 DEF R
<1>11. R[0] = first /\ \A r \in 1 .. Rows : R[r] = AddRow(R[r - 1], g[r - 1])
  <2>1. \A r \in 1 .. Rows : r \in 0 .. Rows /\ r # 0 BY <1>1
  <2>2. 0 \in 0 .. Rows BY <1>1
  <2> QED BY <1>10, <2>1, <2>2 DEF Is
<1> DEFINE T == {r \in 0 .. Rows : R[r] \in Accumulated}
<1>12. 0 \in T BY <1>1, <1>3, <1>11
<1>13. ASSUME NEW r \in 0 .. Rows - 1, r \in T PROVE r + 1 \in T
  <2>1. r + 1 \in 1 .. Rows /\ (r + 1) - 1 = r /\ r + 1 \in 0 .. Rows BY <1>1
  <2>2. R[r + 1] = AddRow(R[r], g[r]) BY <1>11, <2>1
  <2>3. g[r] \in Texts \cup {Empty} BY <1>2, <2>1
  <2>4. R[r] \in Accumulated BY <1>13
  <2>5. AddRow(R[r], g[r]) \in Accumulated BY <2>3, <2>4, AddRowType
  <2> QED BY <2>1, <2>2, <2>5
<1>14. 0 .. Rows \subseteq T
  <2> HIDE DEF T
  <2> QED BY <1>1, <1>12, <1>13, InductionTo
<1>15. R = [r \in 0 .. Rows |-> R[r]]
  <2>1. R = [r \in 0 .. Rows |-> IF r = 0 THEN first ELSE AddRow(R[r - 1], g[r - 1])]
    BY <1>10 DEF Is
  <2> QED BY <2>1
<1>16. R \in [0 .. Rows -> Accumulated] BY <1>14, <1>15
<1> QED BY <1>11, <1>16 DEF R, first

-----------------------------------------------------------------------------
(* With a first row that is not empty, a text renders the rows before r of *)
(* g: its lines and the buffered rows are as many as the rows, every entry *)
(* that is no line break is the row of its line, and every such row has    *)
(* its entry.                                                              *)

Renders(acc, g, r) ==
  LET text == acc.text
  IN  /\ text # <<>>
      /\ LineOf(text, Len(text)) + acc.empty = r - 1
      /\ \A i \in 1 .. Len(text) : text[i] # NewLine =>
           LineOf(text, i) \in 0 .. r - 1 /\ text[i] = g[LineOf(text, i)]
      /\ \A q \in 0 .. r - 1 : g[q] # Empty =>
           \E i \in 1 .. Len(text) : text[i] # NewLine /\ LineOf(text, i) = q

LEMMA RendersFirst ==
  ASSUME NEW g \in Screens, g[0] # Empty
  PROVE  Renders(AddRow([text |-> <<>>, empty |-> 0], g[0]), g, 1)
<1> DEFINE row == g[0]
           t == <<row>>
           n == [i \in 1 .. 0 |-> NewLine]
<1>1. row \in Texts /\ row # NewLine
  <2>1. 0 \in RowIndex BY RowsAssumption DEF RowIndex
  <2> QED BY <2>1, TextAssumption DEF Screens
<1>2. AddRow([text |-> <<>>, empty |-> 0], row) = [text |-> t, empty |-> 0]
  <2>1. n = <<>> OBVIOUS
  <2>2. <<>> \o n = <<>> /\ <<>> \o <<>> = <<>> BY <2>1
  <2>3. row \in Shown BY <1>1 DEF Shown
  <2>4. t \in Seq(Shown) BY <2>3
  <2>5. <<>> \o t = t
    <3> HIDE DEF t
    <3> QED BY <2>4, ConcatEmptySeq
  <2> HIDE DEF n
  <2>6. AddRow([text |-> <<>>, empty |-> 0], row)
          = [text |-> ((<<>> \o n) \o (IF <<>> \o n = <<>> THEN <<>> ELSE <<NewLine>>)) \o t,
             empty |-> 0]
    BY DEF AddRow, AddRowAfter, n
  <2> QED BY <2>2, <2>5, <2>6
<1>3. Len(t) = 1 /\ t[1] = row /\ t # <<>> OBVIOUS
<1> HIDE DEF t
<1>4. LineOf(t, 1) = 0
  <2> DEFINE z == 0
  <2>1. z \in Nat /\ z + 1 = 1 /\ t[z + 1] # NewLine BY <1>1, <1>3
  <2>2. LineOf(t, 0) = 0 BY Lines
  <2> HIDE DEF z
  <2>3. LineOf(t, z + 1) = LineOf(t, z) BY <2>1, Lines
  <2> QED BY <2>1, <2>2, <2>3 DEF z
<1> DEFINE acc == [text |-> t, empty |-> 0]
<1>5. acc.text = t /\ acc.empty = 0 OBVIOUS
<1> HIDE DEF acc
<1>6. Renders(acc, g, 1)
  <2>1. \A i \in 1 .. Len(t) : i = 1 BY <1>3
  <2>2. 1 \in 1 .. Len(t) BY <1>3
  <2>3. \A q \in 0 .. 1 - 1 : q = 0 OBVIOUS
  <2>4. LineOf(t, Len(t)) + 0 = 1 - 1 BY <1>3, <1>4
  <2>5. \A i \in 1 .. Len(t) : LineOf(t, i) \in 0 .. 1 - 1 /\ t[i] = g[LineOf(t, i)]
    BY <1>3, <1>4, <2>1
  <2>6. \A q \in 0 .. 1 - 1 : \E i \in 1 .. Len(t) : t[i] # NewLine /\ LineOf(t, i) = q
    BY <1>1, <1>3, <1>4, <2>2, <2>3
  <2> QED BY <1>3, <1>5, <2>4, <2>5, <2>6 DEF Renders
<1> QED BY <1>2, <1>6 DEF acc

LEMMA RendersNext ==
  ASSUME NEW g \in Screens, NEW r \in 1 .. Rows - 1, NEW acc \in Accumulated,
         Renders(acc, g, r)
  PROVE  Renders(AddRow(acc, g[r]), g, r + 1)
<1> DEFINE text == acc.text
           e == acc.empty
           row == g[r]
<1>1. text \in Seq(Shown) /\ e \in Nat /\ Len(text) \in Nat BY DEF Accumulated
<1>2. /\ text # <<>>
      /\ LineOf(text, Len(text)) + e = r - 1
      /\ \A i \in 1 .. Len(text) : text[i] # NewLine =>
           LineOf(text, i) \in 0 .. r - 1 /\ text[i] = g[LineOf(text, i)]
      /\ \A q \in 0 .. r - 1 : g[q] # Empty =>
           \E i \in 1 .. Len(text) : text[i] # NewLine /\ LineOf(text, i) = q
  BY DEF Renders
<1>3. Rows \in Nat /\ r \in Nat /\ row \in Texts \cup {Empty}
  <2>1. Rows \in Nat /\ r \in RowIndex /\ r \in Nat BY RowsAssumption DEF RowIndex
  <2> QED BY <2>1 DEF Screens
<1>4. LineOf(text, Len(text)) \in Nat BY <1>1, Lines
<1>5. CASE row = Empty
  <2> DEFINE new == [acc EXCEPT !.empty = @ + 1]
  <2>1. AddRow(acc, row) = new BY <1>5 DEF AddRow, AddRowAfter
  <2>2. new.text = text /\ new.empty = e + 1 BY DEF Accumulated
  <2> HIDE DEF new, text, e
  <2>3. LineOf(text, Len(text)) + (e + 1) = (r + 1) - 1 BY <1>1, <1>2, <1>3, <1>4
  <2>4. \A q \in 0 .. (r + 1) - 1 : q = r \/ q \in 0 .. r - 1 BY <1>3
  <2>5. \A q \in 0 .. r - 1 : q \in 0 .. (r + 1) - 1 BY <1>3
  <2>6. Renders(new, g, r + 1) BY <1>2, <1>5, <2>2, <2>3, <2>4, <2>5 DEF Renders
  <2> QED BY <2>1, <2>6
<1>6. CASE row # Empty
  <2> DEFINE t == (text \o [i \in 1 .. e |-> NewLine]) \o <<NewLine>> \o <<row>>
             L == Len(text)
             N == L + e + 2
             new == [text |-> t, empty |-> 0]
  <2>1. row \in Texts /\ row # NewLine BY <1>3, <1>6, TextAssumption
  <2>2. AddRow(acc, row) = new
    <3> DEFINE flushed == text \o [i \in 1 .. e |-> NewLine]
    <3>1. flushed # <<>>
      <4> DEFINE n == [i \in 1 .. e |-> NewLine]
      <4>1. n \in Seq(Shown) BY <1>1 DEF Shown
      <4> HIDE DEF n, text
      <4>2. Len(text \o n) = Len(text) + Len(n) /\ Len(n) \in Nat BY <1>1, <4>1, ConcatProperties
      <4>3. Len(text) # 0 BY <1>1, <1>2
      <4>4. Len(text \o n) # 0 BY <1>1, <4>2, <4>3
      <4>5. text \o n # <<>> BY <4>4
      <4> QED BY <4>5 DEF n
    <3>2. AddRow(acc, row) =
            [text |-> (flushed \o (IF flushed = <<>> THEN <<>> ELSE <<NewLine>>)) \o <<row>>,
             empty |-> 0]
      BY <1>6 DEF AddRow, AddRowAfter
    <3> QED BY <3>1, <3>2
  <2>3. new.text = t /\ new.empty = 0 OBVIOUS
  <2>4. /\ t \in Seq(Shown) /\ Len(t) = N
        /\ \A i \in 1 .. L : t[i] = text[i]
        /\ \A i \in L + 1 .. L + e + 1 : t[i] = NewLine
        /\ t[N] = row
    <3> HIDE DEF text, e, t
    <3>1. t = WithRow(text, e, row) BY DEF t, WithRow, Breaks
    <3> HIDE DEF row
    <3>2. row \in Texts BY <2>1
    <3>3. text \in Seq(Shown) /\ e \in Nat BY <1>1
    <3>4. Continues(t, text, e, row) BY <3>1, <3>2, <3>3, Flushed
    <3> QED BY <3>4 DEF Continues
  <2> HIDE DEF new, t, text, e
  <2>5. /\ \A i \in 0 .. L : LineOf(t, i) = LineOf(text, i)
        /\ LineOf(t, N) = LineOf(text, L) + e + 1
    BY <1>1, <2>1, <2>4, FlushedLines
  <2>6. LineOf(t, N) = r BY <1>1, <1>2, <1>3, <1>4, <2>5
  <2>7. N \in 1 .. N /\ \A i \in 1 .. N : \/ i \in 1 .. L
                                          \/ i \in L + 1 .. L + e + 1
                                          \/ i = N
    BY <1>1
  <2>8. \A i \in 1 .. L : i \in 0 .. L /\ i \in 1 .. N BY <1>1
  <2> HIDE DEF N, L
  <2>9. t # <<>> BY <1>1, <2>4, <2>7
  <2>10. LineOf(t, N) + 0 = (r + 1) - 1 BY <1>3, <2>6
  <2>11. ASSUME NEW i \in 1 .. N, t[i] # NewLine
         PROVE  LineOf(t, i) \in 0 .. (r + 1) - 1 /\ t[i] = g[LineOf(t, i)]
    <3>1. CASE i \in 1 .. L
      <4>1. t[i] = text[i] /\ LineOf(t, i) = LineOf(text, i) BY <2>4, <2>5, <2>8, <3>1
      <4>2. LineOf(text, i) \in 0 .. r - 1 /\ text[i] = g[LineOf(text, i)]
        BY <1>2, <2>11, <3>1, <4>1 DEF L
      <4>3. 0 .. r - 1 \subseteq 0 .. (r + 1) - 1 BY <1>3
      <4> QED BY <4>1, <4>2, <4>3
    <3>2. CASE i = N
      <4>1. r \in 0 .. (r + 1) - 1 BY <1>3
      <4> QED BY <2>4, <2>6, <3>2, <4>1
    <3>3. CASE i \in L + 1 .. L + e + 1 BY <2>4, <2>11, <3>3
    <3> QED BY <2>7, <3>1, <3>2, <3>3
  <2>12. ASSUME NEW q \in 0 .. (r + 1) - 1, g[q] # Empty
         PROVE  \E i \in 1 .. N : t[i] # NewLine /\ LineOf(t, i) = q
    <3>1. CASE q = r BY <2>1, <2>4, <2>6, <2>7, <3>1
    <3>2. CASE q # r
      <4>1. q \in 0 .. r - 1 BY <1>3, <3>2
      <4>2. PICK i \in 1 .. L : text[i] # NewLine /\ LineOf(text, i) = q
        BY <1>2, <2>12, <4>1 DEF L
      <4> QED BY <2>4, <2>5, <2>8, <4>2
    <3> QED BY <3>1, <3>2
  <2>13. Renders(new, g, r + 1)
    BY <2>3, <2>4, <2>9, <2>10, <2>11, <2>12 DEF Renders
  <2> QED BY <2>2, <2>13
<1> QED BY <1>5, <1>6

LEMMA RendersRows ==
  ASSUME NEW g \in Screens, g[0] # Empty
  PROVE  Renders(Rendering(g)[Rows], g, Rows)
<1> DEFINE R == Rendering(g)
           T == {r \in 0 .. Rows - 1 : Renders(R[r + 1], g, r + 1)}
<1>1. Rows \in Nat /\ Rows - 1 \in Nat /\ (Rows - 1) + 1 = Rows BY RowsAssumption
<1>2. /\ R \in [0 .. Rows -> Accumulated]
      /\ R[0] = [text |-> <<>>, empty |-> 0]
      /\ \A r \in 1 .. Rows : R[r] = AddRow(R[r - 1], g[r - 1])
  BY Renderings
<1> HIDE DEF R
<1>3. 0 \in T
  <2>1. 1 \in 1 .. Rows /\ 1 - 1 = 0 /\ 0 + 1 = 1 /\ 0 \in 0 .. Rows - 1 BY <1>1
  <2>2. R[1] = AddRow([text |-> <<>>, empty |-> 0], g[0]) BY <1>2, <2>1
  <2>3. Renders(R[1], g, 1) BY <2>2, RendersFirst
  <2> QED BY <2>1, <2>3
<1>4. ASSUME NEW r \in 0 .. (Rows - 1) - 1, r \in T PROVE r + 1 \in T
  <2> DEFINE q == r + 1
  <2>1. /\ q \in 1 .. Rows - 1 /\ q \in 0 .. Rows /\ q \in 0 .. Rows - 1
        /\ q + 1 \in 1 .. Rows /\ (q + 1) - 1 = q
    BY <1>1
  <2>2. Renders(R[q], g, q) BY <1>4
  <2> HIDE DEF q
  <2>3. R[q + 1] = AddRow(R[q], g[q]) BY <1>2, <2>1
  <2>4. R[q] \in Accumulated BY <1>2, <2>1
  <2>5. Renders(R[q + 1], g, q + 1) BY <2>1, <2>2, <2>3, <2>4, RendersNext
  <2>6. q \in T BY <2>1, <2>5
  <2> QED BY <2>6 DEF q
<1>5. 0 .. Rows - 1 \subseteq T
  <2> HIDE DEF T
  <2> QED BY <1>1, <1>3, <1>4, InductionTo
<1>6. Renders(R[(Rows - 1) + 1], g, (Rows - 1) + 1)
  <2>1. Rows - 1 \in T
    <3> HIDE DEF T
    <3>1. Rows - 1 \in 0 .. Rows - 1 BY <1>1
    <3> QED BY <1>5, <3>1
  <2> QED BY <2>1
<1> QED BY <1>1, <1>6 DEF R

\* A terminal that is no smaller shows such a text row for row.
LEMMA DrawsRows ==
  ASSUME NEW g \in Screens, g[0] # Empty, Rows <= Height, NEW r \in RowIndex
  PROVE  RenderScreen(RenderAnsi(g))[r] = g[r]
<1> DEFINE acc == Rendering(g)[Rows]
           text == acc.text
           at == {i \in 1 .. Len(text) : text[i] # NewLine /\ LineOf(text, i) = r}
<1>1. Renders(acc, g, Rows) BY RendersRows
<1>2. acc \in Accumulated
  <2>1. Rows \in 0 .. Rows BY RowsAssumption
  <2>2. Rendering(g) \in [0 .. Rows -> Accumulated] BY Renderings
  <2> QED BY <2>1, <2>2
<1>3. RenderAnsi(g) = text BY DEF RenderAnsi
<1> HIDE DEF acc
<1>4. text \in Seq(Shown) /\ Len(text) \in Nat /\ acc.empty \in Nat BY <1>2 DEF Accumulated
<1>5. /\ LineOf(text, Len(text)) + acc.empty = Rows - 1
      /\ \A i \in 1 .. Len(text) : text[i] # NewLine =>
           LineOf(text, i) \in 0 .. Rows - 1 /\ text[i] = g[LineOf(text, i)]
      /\ \A q \in 0 .. Rows - 1 : g[q] # Empty =>
           \E i \in 1 .. Len(text) : text[i] # NewLine /\ LineOf(text, i) = q
  BY <1>1 DEF Renders
<1> HIDE DEF text
<1>6. LineOf(text, Len(text)) \in Nat BY <1>4, Lines
<1>7. LineOf(text, Len(text)) < Height BY <1>4, <1>5, <1>6, RowsAssumption
<1>8. RenderScreen(text)[r] = IF at = {} THEN Empty ELSE text[CHOOSE i \in at : TRUE]
  <2> DEFINE scrolled == IF LineOf(text, Len(text)) < Height THEN 0
                         ELSE LineOf(text, Len(text)) - (Height - 1)
             on(q) == {i \in 1 .. Len(text) : text[i] # NewLine /\ LineOf(text, i) = q + scrolled}
  <2>1. RenderScreen(text) = [q \in 0 .. Height - 1 |->
          IF on(q) = {} THEN Empty ELSE text[CHOOSE i \in on(q) : TRUE]]
    BY DEF RenderScreen
  <2>2. r \in 0 .. Height - 1 /\ r + 0 = r BY RowsAssumption DEF RowIndex
  <2>3. scrolled = 0 BY <1>7
  <2>4. on(r) = at BY <2>2, <2>3
  <2> HIDE DEF on, at
  <2> QED BY <2>1, <2>2, <2>4
<1>9. ASSUME NEW i \in at PROVE text[i] = g[r] /\ g[r] # Empty
  <2>1. i \in 1 .. Len(text) /\ text[i] # NewLine /\ LineOf(text, i) = r OBVIOUS
  <2>2. text[i] = g[r] BY <1>5, <2>1
  <2>3. text[i] \in Shown BY <1>4, <2>1
  <2> QED BY <2>1, <2>2, <2>3, TextAssumption DEF Shown
<1>10. CASE at = {}
  <2>1. g[r] = Empty BY <1>5, <1>10 DEF RowIndex
  <2> HIDE DEF at
  <2> QED BY <1>3, <1>8, <1>10, <2>1
<1>11. CASE at # {}
  <2> HIDE DEF at
  <2>1. (CHOOSE i \in at : TRUE) \in at BY <1>11
  <2> QED BY <1>3, <1>8, <1>9, <1>11, <2>1
<1> QED BY <1>10, <1>11

LEMMA RenderScreenType ==
  ASSUME NEW text \in Seq(Shown)
  PROVE  RenderScreen(text) \in [0 .. Height - 1 -> Texts \cup {Empty}]
<1> DEFINE scrolled == IF LineOf(text, Len(text)) < Height THEN 0
                       ELSE LineOf(text, Len(text)) - (Height - 1)
           on(q) == {i \in 1 .. Len(text) : text[i] # NewLine /\ LineOf(text, i) = q + scrolled}
           shown(q) == IF on(q) = {} THEN Empty ELSE text[CHOOSE i \in on(q) : TRUE]
<1>1. RenderScreen(text) = [q \in 0 .. Height - 1 |-> shown(q)] BY DEF RenderScreen
<1>2. ASSUME NEW q \in 0 .. Height - 1 PROVE shown(q) \in Texts \cup {Empty}
  <2>1. CASE on(q) = {} BY <2>1
  <2>2. CASE on(q) # {}
    <3> DEFINE i == CHOOSE i \in on(q) : TRUE
    <3>1. i \in on(q)
      <4> HIDE DEF on
      <4> QED BY <2>2
    <3>2. shown(q) = text[i] BY <2>2
    <3> HIDE DEF i
    <3>3. i \in 1 .. Len(text) /\ text[i] # NewLine BY <3>1
    <3>4. text[i] \in Shown BY <3>3
    <3> HIDE DEF shown
    <3> QED BY <3>2, <3>3, <3>4 DEF Shown
  <2> QED BY <2>1, <2>2
<1> HIDE DEF shown
<1> QED BY <1>1, <1>2

-----------------------------------------------------------------------------
(* What the screen, the answers and the terminal hold.                     *)

Answers == [content : Seq(Shown), cursor : RowIndex]

ViewsOK ==
  /\ rows \in Screens /\ cursor \in RowIndex
  /\ alive \in BOOLEAN /\ present \in BOOLEAN /\ up \in BOOLEAN /\ attached \in BOOLEAN
  /\ shot \in [rows : Screens, cursor : RowIndex]
  /\ frame \in Answers /\ last \in Answers
  /\ term \in [0 .. Height - 1 -> Texts \cup {Empty}]

LEMMA InitViews == Init => ViewsOK
<1> SUFFICES ASSUME Init PROVE ViewsOK OBVIOUS
<1>1. 0 \in RowIndex BY RowsAssumption DEF RowIndex
<1>2. NoAnswer \in Answers
  <2>1. <<>> \in Seq(Shown) OBVIOUS
  <2> QED BY <1>1, <2>1 DEF NoAnswer, Answer, Answers
<1>3. rows \in Screens BY DEF Init, Screens
<1>4. shot \in [rows : Screens, cursor : RowIndex] BY <1>1, <1>3 DEF Init
<1>5. term \in [0 .. Height - 1 -> Texts \cup {Empty}] BY DEF Init
<1> QED BY <1>1, <1>2, <1>3, <1>4, <1>5 DEF Init, ViewsOK

LEMMA NextViews == ASSUME ViewsOK, [Next]_vars PROVE ViewsOK'
<1>1. CASE Feed
  <2>1. PICK r \in RowIndex, c \in RowIndex, t \in Texts \cup {Empty} :
          rows' = [rows EXCEPT ![r] = t] /\ cursor' = c
    BY <1>1 DEF Feed
  <2>2. rows' \in Screens BY <2>1 DEF ViewsOK, Screens
  <2> QED BY <1>1, <2>1, <2>2 DEF Feed, ViewsOK, daemon, views
<1>2. CASE ProgramEnds \/ Removed \/ DaemonStops
  BY <1>2 DEF ProgramEnds, Removed, DaemonStops, ViewsOK, screen, daemon, views
<1>3. CASE Type \/ TypeOn \/ StdinCloses \/ ReadKeys \/ Send \/ ReadAlive
  BY <1>3 DEF Type, TypeOn, StdinCloses, ReadKeys, ReadKeysAfter, Send, SendElse, ReadAlive,
              ViewsOK, screen, daemon, views
<1>4. CASE ReadContent
  <2>1. shot' = [rows |-> rows, cursor |-> cursor] \/ shot' = shot BY <1>4 DEF ReadContent
  <2>2. shot' \in [rows : Screens, cursor : RowIndex] BY <2>1 DEF ViewsOK
  <2> QED BY <1>4, <2>2 DEF ReadContent, ViewsOK, screen, daemon
<1>5. CASE ReadCursor
  <2>1. RenderAnsi(shot.rows) \in Seq(Shown)
    <3>1. shot.rows \in Screens BY DEF ViewsOK
    <3>2. Rendering(shot.rows) \in [0 .. Rows -> Accumulated] BY <3>1, Renderings
    <3>3. Rows \in 0 .. Rows BY RowsAssumption
    <3>4. Rendering(shot.rows)[Rows] \in Accumulated BY <3>2, <3>3
    <3> QED BY <3>4 DEF RenderAnsi, Accumulated
  <2>2. frame' \in Answers BY <1>5, <2>1 DEF ReadCursor, Answer, Answers, ViewsOK
  <2> QED BY <1>5, <2>2 DEF ReadCursor, ViewsOK, screen, daemon
<1>6. CASE Show
  <2>1. \/ last' = frame /\ term' = RenderScreen(frame.content)
        \/ last' = last /\ term' = term
    BY <1>6 DEF Show, ShowIf
  <2>2. RenderScreen(frame.content) \in [0 .. Height - 1 -> Texts \cup {Empty}]
    <3>1. frame.content \in Seq(Shown) BY DEF ViewsOK, Answers
    <3> QED BY <3>1, RenderScreenType
  <2> QED BY <1>6, <2>1, <2>2 DEF Show, ShowIf, ViewsOK, screen, daemon
<1>7. CASE UNCHANGED vars BY <1>7 DEF vars, ViewsOK, screen, daemon, views
<1> QED BY <1>1, <1>2, <1>3, <1>4, <1>5, <1>6, <1>7 DEF Next, ClientStep, World

\* Type correctness of the attachment, also of what the terminal shows: never a
\* line break, and never a row the terminal has not (main.rs render_screen).
THEOREM AttachTypeCorrect == Spec => []TypeOK
<1>1. IInv /\ ViewsOK => TypeOK BY DEF IInv, KeysOK, ViewsOK, Screens, TypeOK
<1> QED BY <1>1, InitKeys, NextKeys, InitViews, NextViews, PTL DEF Spec

\* For screens and terminals of any size: rendering the screen as text and drawing
\* the text puts every row where the session has it, rows that are empty in
\* between included, if the first row is not empty (screen.rs render_ansi, main.rs
\* render_screen).
THEOREM RowsPlaced == Spec => []RenderingPlacesRows
<1>1. ViewsOK => RenderingPlacesRows
  <2> SUFFICES ASSUME ViewsOK, rows[0] # Empty, Rows <= Height, NEW r \in RowIndex
               PROVE  RenderScreen(RenderAnsi(rows))[r] = rows[r]
    BY DEF RenderingPlacesRows
  <2>1. rows \in Screens BY DEF ViewsOK
  <2> QED BY <2>1, DrawsRows
<1> QED BY <1>1, InitViews, NextViews, PTL DEF Spec
=============================================================================
