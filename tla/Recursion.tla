------------------------------ MODULE Recursion ------------------------------
(***************************************************************************)
(* Induction and recursion over the naturals, stated with sets and         *)
(* functions: the library's theorems take operators, which the provers     *)
(* cannot instantiate. What the recursive definitions of the models        *)
(* compute for every input rests on these.                                 *)
(***************************************************************************)
EXTENDS Integers, WellFoundedInduction, TLAPS

\* A set of naturals that is not empty has a least member.
LEMMA LeastMember ==
  ASSUME NEW T \in SUBSET Nat, T # {}
  PROVE  \E n \in T : \A m \in T : n <= m
<1> DEFINE R == {ss \in Nat \X Nat : ss[1] < ss[2]}
<1>1. IsWellFoundedOn(R, Nat) BY NatLessThanWellFounded DEF OpToRel
<1> HIDE DEF R
<1>2. \E n \in T : \A m \in T : <<m, n>> \notin R BY <1>1, WFMin
<1>3. \A n, m \in Nat : <<m, n>> \in R <=> m < n BY DEF R
<1>4. \A n, m \in Nat : ~(m < n) => n <= m OBVIOUS
<1> QED BY <1>2, <1>3, <1>4

\* A set that has 0, and with n also n + 1, has every natural.
LEMMA Induction ==
  ASSUME NEW S, 0 \in S, \A n \in Nat : n \in S => n + 1 \in S
  PROVE  Nat \subseteq S
<1> SUFFICES ASSUME Nat \ S # {} PROVE FALSE OBVIOUS
<1>1. PICK n \in Nat \ S : \A m \in Nat \ S : n <= m
  <2>1. Nat \ S \in SUBSET Nat OBVIOUS
  <2> QED BY <2>1, LeastMember
<1>2. n # 0 /\ n - 1 \in Nat /\ n - 1 \in S BY <1>1
<1> QED BY <1>1, <1>2

\* The same up to a bound.
LEMMA InductionTo ==
  ASSUME NEW N \in Nat, NEW S, 0 \in S, \A n \in 0 .. N - 1 : n \in S => n + 1 \in S
  PROVE  0 .. N \subseteq S
<1> DEFINE T == {n \in Nat : n <= N => n \in S}
<1>1. 0 \in T OBVIOUS
<1>2. ASSUME NEW n \in Nat, n \in T PROVE n + 1 \in T
  <2>1. n + 1 <= N => n \in 0 .. N - 1 OBVIOUS
  <2> QED BY <1>2, <2>1
<1>3. Nat \subseteq T
  <2> HIDE DEF T
  <2> QED BY <1>1, <1>2, Induction
<1> QED BY <1>3

\* The functions from a step's number and a value to the next value.
Steps(I, D) == [I \X D -> D]

\* There is a function that starts at base and takes step after step.
LEMMA NatRecursion ==
  ASSUME NEW D, NEW base \in D, NEW step \in Steps(Nat, D)
  PROVE  \E f \in [Nat -> D] : f[0] = base /\ \A n \in Nat : f[n + 1] = step[<<n, f[n]>>]
<1> DEFINE Good(n, g) == g[0] = base /\ \A i \in 0 .. n - 1 : g[i + 1] = step[<<i, g[i]>>]
           S == {n \in Nat : \E g \in [0 .. n -> D] : Good(n, g)}
<1>1. 0 \in S
  <2>1. [i \in 0 .. 0 |-> base] \in [0 .. 0 -> D] /\ Good(0, [i \in 0 .. 0 |-> base]) OBVIOUS
  <2> QED BY <2>1
<1>2. ASSUME NEW n \in Nat, n \in S PROVE n + 1 \in S
  <2>1. PICK g \in [0 .. n -> D] : Good(n, g) BY <1>2
  <2> DEFINE h == [i \in 0 .. n + 1 |-> IF i = n + 1 THEN step[<<n, g[n]>>] ELSE g[i]]
  <2>2. g[n] \in D /\ step[<<n, g[n]>>] \in D BY <2>1 DEF Steps
  <2>3. h \in [0 .. n + 1 -> D] BY <2>1, <2>2
  <2>4. h[n + 1] = step[<<n, g[n]>>] /\ \A i \in 0 .. n : h[i] = g[i] OBVIOUS
  <2> HIDE DEF h
  <2>5. Good(n + 1, h)
    <3>1. h[0] = base BY <2>1, <2>4
    <3>2. ASSUME NEW i \in 0 .. n + 1 - 1 PROVE h[i + 1] = step[<<i, h[i]>>]
      <4>1. CASE i = n BY <2>4, <4>1
      <4>2. CASE i # n
        <5>1. i \in 0 .. n - 1 /\ i + 1 \in 0 .. n BY <4>2
        <5> QED BY <2>1, <2>4, <5>1
      <4> QED BY <4>1, <4>2
    <3> QED BY <3>1, <3>2
  <2> QED BY <2>3, <2>5
<1>3. Nat \subseteq S
  <2> HIDE DEF S
  <2> QED BY <1>1, <1>2, Induction
<1> DEFINE G == [n \in Nat |-> CHOOSE g \in [0 .. n -> D] : Good(n, g)]
<1>4. \A n \in Nat : G[n] \in [0 .. n -> D] /\ Good(n, G[n]) BY <1>3
<1> HIDE DEF G
<1>5. \A n \in Nat : \A i \in 0 .. n : G[n][i] = G[n + 1][i]
  <2> SUFFICES ASSUME NEW n \in Nat PROVE \A i \in 0 .. n : G[n][i] = G[n + 1][i] OBVIOUS
  <2> DEFINE Q == {i \in Nat : i <= n => G[n][i] = G[n + 1][i]}
  <2>1. 0 \in Q BY <1>4
  <2>2. ASSUME NEW i \in Nat, i \in Q PROVE i + 1 \in Q
    <3>1. CASE i + 1 <= n
      <4>1. G[n][i + 1] = step[<<i, G[n][i]>>] BY <1>4, <3>1
      <4>2. G[n + 1][i + 1] = step[<<i, G[n + 1][i]>>] BY <1>4, <3>1
      <4>3. i <= n BY <3>1
      <4> QED BY <2>2, <4>1, <4>2, <4>3
    <3>2. CASE ~(i + 1 <= n) BY <3>2
    <3> QED BY <3>1, <3>2
  <2>3. Nat \subseteq Q
    <3> HIDE DEF Q
    <3> QED BY <2>1, <2>2, Induction
  <2> QED BY <2>3
<1> DEFINE f == [n \in Nat |-> G[n][n]]
<1>6. f \in [Nat -> D] BY <1>4
<1>7. f[0] = base BY <1>4
<1>8. ASSUME NEW n \in Nat PROVE f[n + 1] = step[<<n, f[n]>>]
  <2>1. G[n + 1][n + 1] = step[<<n, G[n + 1][n]>>] BY <1>4
  <2>2. G[n + 1][n] = G[n][n] BY <1>5
  <2> QED BY <2>1, <2>2
<1> HIDE DEF f
<1> QED BY <1>6, <1>7, <1>8

\* The same up to a bound.
LEMMA RecursionTo ==
  ASSUME NEW N \in Nat, NEW D, NEW base \in D, NEW step \in Steps(1 .. N, D)
  PROVE  \E f \in [0 .. N -> D] :
           f[0] = base /\ \A i \in 1 .. N : f[i] = step[<<i, f[i - 1]>>]
<1> DEFINE next == [p \in Nat \X D |->
                      IF p[1] + 1 \in 1 .. N THEN step[<<p[1] + 1, p[2]>>] ELSE base]
<1>1. next \in Steps(Nat, D) BY DEF Steps
<1> HIDE DEF next
<1>2. PICK g \in [Nat -> D] : g[0] = base /\ \A n \in Nat : g[n + 1] = next[<<n, g[n]>>]
  BY <1>1, NatRecursion
<1> DEFINE f == [i \in 0 .. N |-> g[i]]
<1>3. f \in [0 .. N -> D] /\ f[0] = base BY <1>2
<1>4. ASSUME NEW i \in 1 .. N PROVE f[i] = step[<<i, f[i - 1]>>]
  <2>1. i - 1 \in Nat /\ i - 1 \in 0 .. N /\ (i - 1) + 1 = i OBVIOUS
  <2>2. g[i] = next[<<i - 1, g[i - 1]>>] BY <1>2, <2>1
  <2>3. g[i - 1] \in D BY <1>2, <2>1
  <2>4. next[<<i - 1, g[i - 1]>>] = step[<<i, g[i - 1]>>] BY <2>1, <2>3 DEF next
  <2> QED BY <2>1, <2>2, <2>4
<1> HIDE DEF f
<1> QED BY <1>3, <1>4

\* The same with a name for what f does.
Follows(f, N, base, step) ==
  f[0] = base /\ \A i \in 1 .. N : f[i] = step[<<i, f[i - 1]>>]

LEMMA Following ==
  ASSUME NEW N \in Nat, NEW D, NEW base \in D, NEW step \in Steps(1 .. N, D)
  PROVE  \E f \in [0 .. N -> D] : Follows(f, N, base, step)
<1>1. PICK g \in [0 .. N -> D] : g[0] = base /\ \A i \in 1 .. N : g[i] = step[<<i, g[i - 1]>>]
  BY RecursionTo, SMTT(30)
<1>2. Follows(g, N, base, step) BY <1>1 DEF Follows
<1> QED BY <1>2
=============================================================================
