--------------------------- MODULE McpChallengeProofs ---------------------------
(***************************************************************************)
(* ParseChallenge reads back what Challenge.String rendered, for texts of   *)
(* any length: the lemmas lead up to RoundTrip, and RenderingIsAFixpoint    *)
(* follows from it.                                                         *)
(*                                                                          *)
(* The library's induction rules take an operator, which the provers cannot *)
(* instantiate; here an induction is about a set that holds the successor,  *)
(* or the predecessor, of each number it holds (Upwards, Downwards), and a  *)
(* recursive function is the one that Recursion says exists.                *)
(***************************************************************************)
EXTENDS McpChallenge, SequenceTheorems, WellFoundedInduction, TLAPS

(***************************************************************************)
(* Induction as membership of a set, and recursive functions.               *)
(***************************************************************************)
(* A set of numbers that is not empty has a least one.                      *)
LEMMA Least ==
    ASSUME NEW T, T \subseteq Nat, T # {}
    PROVE  \E m \in T : \A n \in T : m <= n
<1> DEFINE R == {p \in Nat \X Nat : p[1] < p[2]}
<1>1. IsWellFoundedOn(R, Nat)
  BY NatLessThanWellFounded DEF OpToRel
<1> HIDE DEF R
<1>2. PICK m \in T : \A n \in T : ~(<<n, m>> \in R)
  BY <1>1, WFMin
<1>3. \A n \in T : ~ (n < m)
  BY <1>2 DEF R
<1> QED
  BY <1>3

(* A set that holds 0, and with every number the next one, holds them all;  *)
LEMMA Upwards ==
    ASSUME NEW n \in Nat, NEW T, 0 \in T, \A m \in 1 .. n : m - 1 \in T => m \in T
    PROVE  \A m \in 0 .. n : m \in T
<1> DEFINE Missing == {m \in Nat : m <= n /\ m \notin T}
<1> SUFFICES ASSUME Missing # {}
             PROVE  FALSE
  OBVIOUS
<1>1. PICK m \in Missing : \A j \in Missing : m <= j
  BY Least
<1>2. m \in Nat /\ m <= n /\ m \notin T
  BY <1>1
<1>3. m \in 1 .. n
  BY <1>2
<1>4. m - 1 \notin Missing
  BY <1>1, <1>2
<1>5. m - 1 \in T
  BY <1>3, <1>4
<1> QED
  BY <1>2, <1>3, <1>5

(* and so downwards from n.                                                 *)
LEMMA Downwards ==
    ASSUME NEW n \in Nat, NEW T, n \in T, \A m \in 1 .. n : m \in T => m - 1 \in T
    PROVE  \A m \in 0 .. n : m \in T
<1> DEFINE U == {m \in 0 .. n : n - m \in T}
<1>1. 0 \in U
  OBVIOUS
<1>2. ASSUME NEW m \in 1 .. n, m - 1 \in U
      PROVE  m \in U
  <2>1. n - (m - 1) \in T /\ n - (m - 1) \in 1 .. n /\ (n - (m - 1)) - 1 = n - m
    BY <1>2
  <2>2. n - m \in T
    BY <2>1
  <2> QED
    BY <2>2
<1>3. \A m \in 0 .. n : m \in U
  <2> HIDE DEF U
  <2> QED
    BY <1>1, <1>2, Upwards
<1>4. ASSUME NEW m \in 0 .. n
      PROVE  m \in T
  <2>1. n - m \in U /\ n - (n - m) = m
    BY <1>3
  <2> QED
    BY <2>1
<1> QED
  BY <1>4

Ranks(rank, n, b) == rank \in [1 .. n -> Nat] /\ \A i \in 1 .. n : rank[i] < b

(* Steps of a recursive definition on 1 .. n with values in V, each using   *)
(* values of a lower rank only;                                             *)
Steps(F, V, n, rank) ==
    /\ F \in [1 .. n -> [[1 .. n -> V] -> V]]
    /\ \A i \in 1 .. n : \A g, h \in [1 .. n -> V] :
          (\A j \in 1 .. n : rank[j] < rank[i] => g[j] = h[j]) => F[i][g] = F[i][h]

(* they have a solution.                                                    *)
LEMMA Recursion ==
    ASSUME NEW V, NEW v \in V, NEW n \in Nat, NEW b \in Nat, NEW rank, Ranks(rank, n, b),
           NEW F, Steps(F, V, n, rank)
    PROVE  \E g \in [1 .. n -> V] : \A i \in 1 .. n : g[i] = F[i][g]
<1> USE DEF Ranks, Steps
<1> DEFINE Solved(k) == \E g \in [1 .. n -> V] : \A i \in 1 .. n : rank[i] < k => g[i] = F[i][g]
           T == {k \in Nat : Solved(k)}
<1>1. Solved(0)
  <2>1. [i \in 1 .. n |-> v] \in [1 .. n -> V] /\ \A i \in 1 .. n : ~(rank[i] < 0)
    OBVIOUS
  <2> QED
    BY <2>1
<1>2. ASSUME NEW k \in Nat, Solved(k)
      PROVE  Solved(k + 1)
  <2>1. PICK g \in [1 .. n -> V] : \A i \in 1 .. n : rank[i] < k => g[i] = F[i][g]
    BY <1>2
  <2> DEFINE h == [i \in 1 .. n |-> IF rank[i] < k THEN g[i] ELSE F[i][g]]
  <2>2. h \in [1 .. n -> V]
    OBVIOUS
  <2>3. \A i \in 1 .. n : h[i] = F[i][g]
    BY <2>1
  <2>4. \A j \in 1 .. n : rank[j] < k => h[j] = g[j]
    OBVIOUS
  <2> HIDE DEF h
  <2>5. ASSUME NEW i \in 1 .. n, rank[i] < k + 1
        PROVE  h[i] = F[i][h]
    <3>1. \A j \in 1 .. n : rank[j] < rank[i] => h[j] = g[j]
      BY <2>4, <2>5
    <3>2. F[i][h] = F[i][g]
      BY <2>2, <3>1
    <3> QED
      BY <2>3, <3>2
  <2> QED
    BY <2>2, <2>5
<1> HIDE DEF Solved
<1>3. b \in T
  <2>1. 0 \in T
    BY <1>1
  <2>2. ASSUME NEW k \in 1 .. b, k - 1 \in T
        PROVE  k \in T
    <3>1. k \in Nat /\ k - 1 \in Nat /\ Solved(k - 1) /\ (k - 1) + 1 = k
      BY <2>2
    <3> QED
      BY <3>1, <1>2
  <2> HIDE DEF T
  <2> QED
    BY <2>1, <2>2, Upwards
<1>4. Solved(b)
  BY <1>3
<1> QED
  BY <1>4 DEF Solved

(* What FlattenSeq goes through, one element at a time.                     *)
LEMMA FlattenSteps ==
    ASSUME NEW S, NEW p \in Seq(Seq(S))
    PROVE  \E f \in [0 .. Len(p) -> Seq(S)] :
              /\ f[0] = <<>> /\ f[Len(p)] = FlattenSeq(p)
              /\ \A m \in 1 .. Len(p) : f[m] = f[m - 1] \o p[m]
<1> DEFINE n == Len(p)
<1>1. n \in Nat /\ \A i \in 1 .. n : p[i] \in Seq(S)
  BY LenProperties
<1>2. <<>> \in Seq(S) /\ \A x, y \in Seq(S) : x \o y \in Seq(S)
  BY EmptySeq, ConcatProperties
<1>3. \A x \in Seq(S) : <<>> \o x = x
  BY ConcatEmptySeq
<1>4. CASE n = 0
  <2>1. p = <<>> /\ FlattenSeq(p) = <<>>
    BY <1>4 DEF FlattenSeq
  <2> DEFINE f == [m \in 0 .. n |-> <<>>]
  <2>2. f \in [0 .. n -> Seq(S)] /\ f[0] = <<>> /\ f[n] = FlattenSeq(p)
    BY <1>4, <1>2, <2>1
  <2>3. \A m \in 1 .. n : f[m] = f[m - 1] \o p[m]
    BY <1>4
  <2> HIDE DEF f
  <2> QED
    BY <2>2, <2>3
<1>5. CASE n # 0
  <2> DEFINE V == Seq(S)
             Step(i, g) == IF i = 1 THEN p[i] ELSE g[i - 1] \o p[i]
             F == [i \in 1 .. n |-> [g \in [1 .. n -> V] |-> Step(i, g)]]
             rank == [i \in 1 .. n |-> i]
             b == n + 1
  <2>1. ASSUME NEW i \in 1 .. n, NEW g \in [1 .. n -> V]
        PROVE  Step(i, g) \in V
    <3>1. CASE i = 1
      BY <3>1, <1>1
    <3>2. CASE i # 1
      <4>1. i - 1 \in 1 .. n
        BY <3>2, <1>1
      <4>2. g[i - 1] \in Seq(S) /\ p[i] \in Seq(S)
        BY <4>1, <1>1
      <4> QED
        BY <4>2, <3>2, <1>2
    <3> QED
      BY <3>1, <3>2
  <2>2. <<>> \in V /\ n \in Nat /\ b \in Nat
    BY <1>1, <1>2
  <2>3. rank \in [1 .. n -> Nat] /\ \A i \in 1 .. n : rank[i] < b
    BY <1>1
  <2>4. ASSUME NEW i \in 1 .. n, NEW g \in [1 .. n -> V], NEW h \in [1 .. n -> V],
               \A j \in 1 .. n : rank[j] < rank[i] => g[j] = h[j]
        PROVE  Step(i, g) = Step(i, h)
    <3>1. CASE i = 1
      BY <3>1
    <3>2. CASE i # 1
      <4>1. i - 1 \in 1 .. n /\ rank[i - 1] < rank[i]
        BY <3>2, <1>1
      <4>2. g[i - 1] = h[i - 1]
        BY <4>1, <2>4
      <4> QED
        BY <4>2, <3>2
    <3> QED
      BY <3>1, <3>2
  <2> HIDE DEF V, Step, n, rank, b
  <2>5. F \in [1 .. n -> [[1 .. n -> V] -> V]]
    BY <2>1
  <2>6. \A i \in 1 .. n : \A g \in [1 .. n -> V] : F[i][g] = Step(i, g)
    OBVIOUS
  <2> HIDE DEF F
  <2>7. \A i \in 1 .. n : \A g, h \in [1 .. n -> V] :
          (\A j \in 1 .. n : rank[j] < rank[i] => g[j] = h[j]) => F[i][g] = F[i][h]
    <3> SUFFICES ASSUME NEW i \in 1 .. n, NEW g \in [1 .. n -> V], NEW h \in [1 .. n -> V],
                        \A j \in 1 .. n : rank[j] < rank[i] => g[j] = h[j]
                 PROVE  F[i][g] = F[i][h]
      OBVIOUS
    <3>1. Step(i, g) = Step(i, h)
      BY <2>4
    <3> QED
      BY <3>1, <2>6
  <2>8. PICK g \in [1 .. n -> V] : \A i \in 1 .. n : g[i] = F[i][g]
    <3>1. Ranks(rank, n, b) /\ Steps(F, V, n, rank)
      BY <2>3, <2>5, <2>7 DEF Ranks, Steps
    <3> QED
      BY <3>1, <2>2, Recursion
  <2>9. \A i \in 1 .. n : g[i] = Step(i, g)
    BY <2>6, <2>8
  <2> DEFINE flatten[i \in 1 .. n] == IF i = 1 THEN p[i] ELSE flatten[i - 1] \o p[i]
  <2>10. FlattenSeq(p) = flatten[n]
    BY <1>5 DEF FlattenSeq, n
  <2>11. g = [i \in 1 .. n |-> IF i = 1 THEN p[i] ELSE g[i - 1] \o p[i]]
    BY <2>9 DEF Step
  <2>12. flatten = [i \in 1 .. n |-> IF i = 1 THEN p[i] ELSE flatten[i - 1] \o p[i]]
    BY <2>11
  <2> HIDE DEF flatten
  <2>13. \A i \in 1 .. n : flatten[i] = Step(i, flatten)
    BY <2>12 DEF Step
  <2> DEFINE T == {i \in 0 .. n : i # 0 => flatten[i] \in V}
  <2>14. \A i \in 0 .. n : i \in T
    <3>1. 0 \in T
      BY <2>2
    <3>2. ASSUME NEW i \in 1 .. n, i - 1 \in T
          PROVE  i \in T
      <4>1. CASE i = 1
        BY <2>13, <4>1, <1>1 DEF Step, V, n
      <4>2. CASE i # 1
        <5>1. flatten[i - 1] \in V
          BY <3>2, <4>2, <2>2
        <5>2. flatten[i] = flatten[i - 1] \o p[i]
          BY <2>13, <4>2 DEF Step
        <5>3. p[i] \in V
          BY <1>1 DEF V, n
        <5>4. flatten[i - 1] \o p[i] \in V
          BY <5>1, <5>3, <1>2 DEF V
        <5>5. flatten[i] \in V /\ i \in 0 .. n
          BY <5>2, <5>4, <2>2
        <5> QED
          BY <5>5
      <4> QED
        BY <4>1, <4>2
    <3> HIDE DEF T
    <3> QED
      BY <3>1, <3>2, <2>2, Upwards
  <2>15. \A i \in 1 .. n : flatten[i] \in V
    BY <2>14, <2>2
  <2> DEFINE f == [m \in 0 .. n |-> IF m = 0 THEN <<>> ELSE flatten[m]]
  <2>16. f \in [0 .. n -> V]
    BY <2>15, <1>2, <2>2 DEF V
  <2>17. f[0] = <<>> /\ f[n] = FlattenSeq(p)
    BY <2>10, <1>5, <2>2
  <2>18. ASSUME NEW m \in 1 .. n
         PROVE  f[m] = f[m - 1] \o p[m]
    <3>1. CASE m = 1
      BY <2>13, <3>1, <1>1, <1>3, <2>2 DEF Step, n
    <3>2. CASE m # 1
      <4>1. m \in 0 .. n /\ m # 0 /\ m - 1 \in 0 .. n /\ m - 1 # 0
        BY <3>2, <2>2
      <4>2. f[m] = flatten[m] /\ f[m - 1] = flatten[m - 1]
        BY <4>1
      <4>3. flatten[m] = flatten[m - 1] \o p[m]
        BY <2>13, <3>2 DEF Step
      <4> QED
        BY <4>2, <4>3
    <3> QED
      BY <3>1, <3>2
  <2> HIDE DEF f
  <2> QED
    BY <2>16, <2>17, <2>18 DEF V, n
<1> QED
  BY <1>4, <1>5

(***************************************************************************)
(* Texts, and what is left of one when characters are dropped.              *)
(***************************************************************************)
(* A character is a text of length one.                                     *)
LEMMA CharacterText ==
    ASSUME NEW c \in Characters
    PROVE  <<c>> \in Texts /\ Len(<<c>>) = 1 /\ <<c>>[1] = c /\ <<c>> # <<>>
  BY DEF Texts

(* A text has a length, and a character at each position of it.             *)
LEMMA TextLen ==
    ASSUME NEW s \in Texts
    PROVE  /\ Len(s) \in Nat /\ DOMAIN s = 1 .. Len(s) /\ s \in [1 .. Len(s) -> Characters]
           /\ s # <<>> <=> Len(s) > 0
<1>1. Len(s) \in Nat /\ DOMAIN s = 1 .. Len(s) /\ s \in [1 .. Len(s) -> Characters]
  BY LenProperties DEF Texts
<1>2. s # <<>> => Len(s) > 0
  BY EmptySeq DEF Texts
<1>3. Len(<<>>) = 0
  OBVIOUS
<1> QED
  BY <1>1, <1>2, <1>3

(* The first text comes first, and then the second.                         *)
LEMMA TextConcat ==
    ASSUME NEW s \in Texts, NEW t \in Texts
    PROVE  /\ s \o t \in Texts /\ Len(s \o t) = Len(s) + Len(t)
           /\ \A i \in 1 .. Len(s) : (s \o t)[i] = s[i]
           /\ \A i \in 1 .. Len(t) : (s \o t)[Len(s) + i] = t[i]
<1>1. /\ s \o t \in Seq(Characters) /\ Len(s \o t) = Len(s) + Len(t)
      /\ \A i \in 1 .. Len(s) + Len(t) : (s \o t)[i] = IF i <= Len(s) THEN s[i] ELSE t[i - Len(s)]
  BY ConcatProperties DEF Texts
<1>2. Len(s) \in Nat /\ Len(t) \in Nat
  BY TextLen
<1>3. ASSUME NEW i \in 1 .. Len(t)
      PROVE  (s \o t)[Len(s) + i] = t[i]
  BY <1>1, <1>2
<1> QED
  BY <1>1, <1>2, <1>3 DEF Texts

(* and there is no other text of that length with that character.           *)
LEMMA OneCharacter ==
    ASSUME NEW c \in Characters, NEW w \in Texts, Len(w) = 1, w[1] = c
    PROVE  w = <<c>>
<1>1. <<c>> \in Texts /\ Len(<<c>>) = 1 /\ <<c>>[1] = c
  BY CharacterText
<1>2. \A i \in 1 .. 1 : i = 1
  OBVIOUS
<1>3. \A i \in 1 .. Len(w) : w[i] = <<c>>[i]
  BY <1>1, <1>2
<1> QED
  BY <1>1, <1>3, SeqEqual DEF Texts

(* A text made of pieces, one for each element of another.                  *)
LEMMA Pieces ==
    ASSUME NEW n \in Nat, NEW p \in [1 .. n -> Texts]
    PROVE  \E f \in [0 .. n -> Texts] :
              /\ f[0] = <<>> /\ f[n] = FlattenSeq(p)
              /\ \A m \in 1 .. n : f[m] = f[m - 1] \o p[m]
<1>1. p \in Seq(Texts) /\ Len(p) = n
  <2>1. p \in Seq(Texts)
    BY SeqDef
  <2>2. Len(p) \in Nat /\ DOMAIN p = 1 .. Len(p) /\ DOMAIN p = 1 .. n
    BY <2>1, LenProperties
  <2> QED
    BY <2>1, <2>2
<1>2. PICK f \in [0 .. Len(p) -> Seq(Characters)] :
        /\ f[0] = <<>> /\ f[Len(p)] = FlattenSeq(p)
        /\ \A m \in 1 .. Len(p) : f[m] = f[m - 1] \o p[m]
  BY <1>1, FlattenSteps DEF Texts
<1> QED
  BY <1>1, <1>2 DEF Texts

(* Dropped drops what it should,                                            *)
LEMMA DroppedClean ==
    ASSUME NEW s \in Texts, NEW S
    PROVE  /\ Dropped(s, S) \in Texts
           /\ \A i \in 1 .. Len(Dropped(s, S)) : Dropped(s, S)[i] \notin S
<1> DEFINE n == Len(s)
           p == [i \in DOMAIN s |-> IF s[i] \in S THEN <<>> ELSE <<s[i]>>]
<1>1. n \in Nat /\ DOMAIN s = 1 .. n /\ \A i \in 1 .. n : s[i] \in Characters
  BY TextLen
<1>2. <<>> \in Texts /\ Len(<<>>) = 0
  BY EmptySeq DEF Texts
<1>3. p \in [1 .. n -> Texts] /\ \A i \in 1 .. n : p[i] = IF s[i] \in S THEN <<>> ELSE <<s[i]>>
  BY <1>1, <1>2, CharacterText
<1>4. Dropped(s, S) = FlattenSeq(p)
  BY DEF Dropped
<1> HIDE DEF p, n
<1>5. PICK f \in [0 .. n -> Texts] : /\ f[0] = <<>> /\ f[n] = FlattenSeq(p)
                                     /\ \A m \in 1 .. n : f[m] = f[m - 1] \o p[m]
  BY <1>1, <1>3, Pieces
<1> DEFINE T == {m \in 0 .. n : \A i \in 1 .. Len(f[m]) : f[m][i] \notin S}
<1>6. 0 \in T
  BY <1>5, <1>2, <1>1
<1>7. ASSUME NEW m \in 1 .. n, m - 1 \in T
      PROVE  m \in T
  <2>1. m - 1 \in 0 .. n /\ f[m] = f[m - 1] \o p[m] /\ f[m - 1] \in Texts /\ p[m] \in Texts
    BY <1>1, <1>3, <1>5
  <2>2. Len(f[m - 1]) \in Nat /\ Len(p[m]) \in Nat
    BY <2>1, TextLen
  <2>3. Len(f[m]) = Len(f[m - 1]) + Len(p[m])
    BY <2>1, TextConcat
  <2>4. \A i \in 1 .. Len(p[m]) : p[m][i] \notin S
    <3>1. CASE s[m] \in S
      BY <3>1, <1>2, <1>3
    <3>2. CASE s[m] \notin S
      BY <3>2, <1>1, <1>3, CharacterText
    <3> QED
      BY <3>1, <3>2
  <2>5. ASSUME NEW i \in 1 .. Len(f[m])
        PROVE  f[m][i] \notin S
    <3>1. CASE i <= Len(f[m - 1])
      <4>1. i \in 1 .. Len(f[m - 1])
        BY <3>1, <2>2, <2>3
      <4>2. f[m][i] = f[m - 1][i]
        BY <4>1, <2>1, TextConcat
      <4> QED
        BY <4>1, <4>2, <1>7
    <3>2. CASE ~(i <= Len(f[m - 1]))
      <4> DEFINE k == Len(f[m - 1])
                 l == Len(p[m])
      <4>1. k \in Nat /\ l \in Nat /\ i \in 1 .. k + l /\ ~(i <= k)
        BY <3>2, <2>2, <2>3
      <4>2. i - k \in 1 .. l /\ i = k + (i - k)
        <5> HIDE DEF k, l
        <5> QED
          BY <4>1
      <4>3. f[m][i] = p[m][i - Len(f[m - 1])]
        BY <4>2, <2>1, TextConcat
      <4> QED
        BY <4>2, <4>3, <2>4
    <3> QED
      BY <3>1, <3>2
  <2> QED
    BY <2>5, <1>1
<1> HIDE DEF T
<1>8. n \in T
  BY <1>1, <1>6, <1>7, Upwards
<1> QED
  BY <1>1, <1>4, <1>5, <1>8 DEF T

(* and nothing else.                                                        *)
LEMMA DroppedNothing ==
    ASSUME NEW s \in Texts, NEW S, \A i \in 1 .. Len(s) : s[i] \notin S
    PROVE  Dropped(s, S) = s
<1> DEFINE n == Len(s)
           p == [i \in DOMAIN s |-> IF s[i] \in S THEN <<>> ELSE <<s[i]>>]
<1>1. n \in Nat /\ DOMAIN s = 1 .. n /\ \A i \in 1 .. n : s[i] \in Characters
  BY TextLen
<1>2. p \in [1 .. n -> Texts] /\ \A i \in 1 .. n : p[i] = <<s[i]>>
  BY <1>1, CharacterText
<1>3. Dropped(s, S) = FlattenSeq(p)
  BY DEF Dropped
<1>4. n = Len(s)
  OBVIOUS
<1> HIDE DEF p, n
<1>5. PICK f \in [0 .. n -> Texts] : /\ f[0] = <<>> /\ f[n] = FlattenSeq(p)
                                     /\ \A m \in 1 .. n : f[m] = f[m - 1] \o p[m]
  BY <1>1, <1>2, Pieces
<1> DEFINE T == {m \in 0 .. n : Len(f[m]) = m /\ \A i \in 1 .. m : f[m][i] = s[i]}
<1>6. 0 \in T
  BY <1>5, <1>1
<1>7. ASSUME NEW m \in 1 .. n, m - 1 \in T
      PROVE  m \in T
  <2>1. m - 1 \in 0 .. n /\ f[m] = f[m - 1] \o p[m] /\ p[m] = <<s[m]>> /\ f[m - 1] \in Texts
    BY <1>1, <1>2, <1>5
  <2>2. s[m] \in Characters
    BY <1>1
  <2>3. p[m] \in Texts /\ Len(p[m]) = 1 /\ p[m][1] = s[m]
    BY <2>1, <2>2, CharacterText
  <2>4. /\ Len(f[m]) = Len(f[m - 1]) + Len(p[m])
        /\ \A i \in 1 .. Len(f[m - 1]) : f[m][i] = f[m - 1][i]
        /\ \A i \in 1 .. Len(p[m]) : f[m][Len(f[m - 1]) + i] = p[m][i]
    BY <2>1, <2>3, TextConcat
  <2>5. Len(f[m - 1]) = m - 1 /\ \A i \in 1 .. m - 1 : f[m - 1][i] = s[i]
    BY <1>7
  <2>6. f[m][(m - 1) + 1] = s[m]
    BY <2>3, <2>4, <2>5
  <2>7. m \in 0 .. n /\ (m - 1) + 1 = m /\ \A i \in 1 .. m : i \in 1 .. m - 1 \/ i = m
    BY <1>1
  <2>8. Len(f[m]) = m
    BY <2>3, <2>4, <2>5, <2>7
  <2>9. \A i \in 1 .. m : f[m][i] = s[i]
    BY <2>4, <2>5, <2>6, <2>7
  <2> QED
    BY <2>7, <2>8, <2>9
<1> HIDE DEF T
<1>8. n \in T
  BY <1>1, <1>6, <1>7, Upwards
<1>9. f[n] \in Texts /\ Len(f[n]) = Len(s) /\ \A i \in 1 .. Len(s) : f[n][i] = s[i]
  BY <1>1, <1>5, <1>8, <1>4 DEF T
<1> QED
  BY <1>3, <1>5, <1>9, SeqEqual DEF Texts

(***************************************************************************)
(* The scan of a quoted-string.                                             *)
(***************************************************************************)
(* What the scan is at a position.                                          *)
Scans == [value : Texts, next : Nat]

(* One step of Unquoted's scan.                                             *)
ScanStep(s, g, j) ==
    IF j > Len(s) THEN [value |-> <<>>, next |-> j]
    ELSE IF s[j] = "backslash" /\ j < Len(s)
         THEN [value |-> <<s[j + 1]>> \o g[j + 2].value, next |-> g[j + 2].next]
    ELSE IF s[j] = "quote" THEN [value |-> <<>>, next |-> j + 1]
    ELSE [value |-> <<s[j]>> \o g[j + 1].value, next |-> g[j + 1].next]

(* A scan stays within the text, and one past it.                           *)
LEMMA ScanType ==
    ASSUME NEW s \in Texts, NEW g, NEW j \in 1 .. Len(s) + 1,
           j + 1 <= Len(s) + 1 => g[j + 1] \in Scans,
           j + 2 <= Len(s) + 1 => g[j + 2] \in Scans
    PROVE  ScanStep(s, g, j) \in Scans
<1>1. Len(s) \in Nat /\ \A i \in 1 .. Len(s) : s[i] \in Characters
  BY TextLen
<1>2. <<>> \in Texts
  BY EmptySeq DEF Texts
<1>3. \A c \in Characters : \A v \in Texts : <<c>> \o v \in Texts
  BY CharacterText, TextConcat
<1>4. CASE j > Len(s)
  BY <1>4, <1>1, <1>2 DEF ScanStep, Scans
<1>5. CASE j <= Len(s) /\ s[j] = "backslash" /\ j < Len(s)
  <2>1. s[j + 1] \in Characters /\ g[j + 2].value \in Texts /\ g[j + 2].next \in Nat
    BY <1>1, <1>5 DEF Scans
  <2>2. ScanStep(s, g, j) = [value |-> <<s[j + 1]>> \o g[j + 2].value, next |-> g[j + 2].next]
    BY <1>1, <1>5 DEF ScanStep
  <2>3. <<s[j + 1]>> \o g[j + 2].value \in Texts
    BY <2>1, <1>3
  <2> QED
    BY <2>1, <2>2, <2>3 DEF Scans
<1>6. CASE j <= Len(s) /\ ~(s[j] = "backslash" /\ j < Len(s)) /\ s[j] = "quote"
  BY <1>6, <1>1, <1>2 DEF ScanStep, Scans
<1>7. CASE j <= Len(s) /\ ~(s[j] = "backslash" /\ j < Len(s)) /\ s[j] # "quote"
  <2>1. s[j] \in Characters /\ g[j + 1].value \in Texts /\ g[j + 1].next \in Nat
    BY <1>1, <1>7 DEF Scans
  <2>2. ScanStep(s, g, j) = [value |-> <<s[j]>> \o g[j + 1].value, next |-> g[j + 1].next]
    BY <1>1, <1>7 DEF ScanStep
  <2>3. <<s[j]>> \o g[j + 1].value \in Texts
    BY <2>1, <1>3
  <2> QED
    BY <2>1, <2>2, <2>3 DEF Scans
<1> QED
  BY <1>1, <1>4, <1>5, <1>6, <1>7

(* The scan is what its equation says.                                      *)
LEMMA ScanSteps ==
    ASSUME NEW s \in Texts
    PROVE  \E scan :
              \A j \in 1 .. Len(s) + 1 :
                 /\ Unquoted(s, j) = scan[j]
                 /\ scan[j] = ScanStep(s, scan, j)
                 /\ scan[j] \in Scans /\ scan[j].next \in j .. Len(s) + 1
<1> DEFINE len == Len(s)
           n == len + 1
           rank == [j \in 1 .. n |-> n - j]
           F == [j \in 1 .. n |-> [g \in [1 .. n -> Scans] |-> ScanStep(s, g, j)]]
<1>1. len \in Nat /\ n \in Nat /\ n = len + 1
  BY TextLen
<1>2. Ranks(rank, n, n)
  BY <1>1 DEF Ranks
<1>3. ASSUME NEW j \in 1 .. n, NEW g \in [1 .. n -> Scans]
      PROVE  ScanStep(s, g, j) \in Scans
  BY <1>1, ScanType
<1>4. ASSUME NEW j \in 1 .. n, NEW g \in [1 .. n -> Scans], NEW h \in [1 .. n -> Scans],
             \A k \in 1 .. n : n - k < n - j => g[k] = h[k]
      PROVE  ScanStep(s, g, j) = ScanStep(s, h, j)
  <2>1. j + 1 <= len + 1 => g[j + 1] = h[j + 1]
    BY <1>1, <1>4
  <2>2. j + 2 <= len + 1 => g[j + 2] = h[j + 2]
    BY <1>1, <1>4
  <2>3. CASE j > Len(s)
    BY <2>3 DEF ScanStep
  <2>4. CASE j < Len(s)
    <3>1. g[j + 1] = h[j + 1] /\ g[j + 2] = h[j + 2]
      BY <2>1, <2>2, <2>4, <1>1
    <3> QED
      BY <3>1 DEF ScanStep
  <2>5. CASE j = Len(s)
    <3>1. g[j + 1] = h[j + 1] /\ ~(j < Len(s))
      BY <2>1, <2>5, <1>1
    <3> QED
      BY <3>1 DEF ScanStep
  <2> QED
    BY <1>1, <2>3, <2>4, <2>5
<1>5. Steps(F, Scans, n, rank)
  <2>1. F \in [1 .. n -> [[1 .. n -> Scans] -> Scans]]
    BY <1>3
  <2>2. ASSUME NEW j \in 1 .. n, NEW g \in [1 .. n -> Scans], NEW h \in [1 .. n -> Scans],
               \A k \in 1 .. n : rank[k] < rank[j] => g[k] = h[k]
        PROVE  F[j][g] = F[j][h]
    <3>1. \A k \in 1 .. n : n - k < n - j => g[k] = h[k]
      BY <2>2
    <3>2. F[j][g] = ScanStep(s, g, j) /\ F[j][h] = ScanStep(s, h, j)
      OBVIOUS
    <3> QED
      BY <1>4, <3>1, <3>2
  <2> HIDE DEF F, rank
  <2> QED
    BY <2>1, <2>2 DEF Steps
<1>6. [value |-> <<>>, next |-> 0] \in Scans
  BY EmptySeq DEF Scans, Texts
<1>7. PICK g \in [1 .. n -> Scans] : \A j \in 1 .. n : g[j] = F[j][g]
  <2> HIDE DEF F, n, rank
  <2> QED
    BY <1>1, <1>2, <1>5, <1>6, Recursion
<1>8. g = [j \in 1 .. n |-> ScanStep(s, g, j)]
  BY <1>7
<1> HIDE DEF F, rank
<1> DEFINE scan[j \in 1 .. Len(s) + 1] == ScanStep(s, scan, j)
<1>9. ASSUME NEW j \in 1 .. n
      PROVE  Unquoted(s, j) = scan[j]
  BY DEF Unquoted, ScanStep
<1>10. scan = [j \in 1 .. n |-> ScanStep(s, scan, j)]
  BY <1>8
<1> HIDE DEF scan
<1>11. \A j \in 1 .. n : scan[j] = ScanStep(s, scan, j)
  BY <1>10
<1> DEFINE Good(j) == scan[j] \in Scans /\ scan[j].next \in j .. n
           T == {m \in 0 .. len : \A j \in m + 1 .. n : Good(j)}
<1>12. len \in T
  <2>1. n \in 1 .. n /\ n > Len(s)
    BY <1>1
  <2>2. scan[n] = [value |-> <<>>, next |-> n]
    BY <2>1, <1>11 DEF ScanStep
  <2>3. <<>> \in Texts
    BY EmptySeq DEF Texts
  <2>4. Good(n)
    BY <2>2, <2>3, <1>1 DEF Scans
  <2> HIDE DEF Good
  <2> QED
    BY <2>4, <1>1
<1>13. ASSUME NEW m \in 1 .. len, m \in T
       PROVE  m - 1 \in T
  <2>1. m \in 1 .. n /\ m + 1 \in 1 .. n /\ Good(m + 1) /\ (m + 2 <= n => Good(m + 2))
    BY <1>1, <1>13
  <2>2. scan[m] = ScanStep(s, scan, m)
    BY <2>1, <1>11
  <2>3. scan[m] \in Scans
    BY <2>1, <2>2, <1>1, ScanType
  <2>4. scan[m].next \in m .. n
    BY <2>1, <2>2, <1>1 DEF ScanStep, Scans
  <2>5. \A j \in (m - 1) + 1 .. n : Good(j)
    BY <1>13, <2>3, <2>4, <1>1
  <2> QED
    BY <2>5
<1>14. \A j \in 1 .. n : Good(j)
  <2>1. 0 \in T
    <3> HIDE DEF T
    <3> QED
      BY <1>1, <1>12, <1>13, Downwards
  <2> QED
    BY <2>1
<1> QED
  BY <1>9, <1>11, <1>14

(***************************************************************************)
(* What stands where in a text; what is quoted is read back.                *)
(***************************************************************************)
(* The text w stands in s from position i on.                               *)
Stands(w, s, i) ==
    /\ i \in 1 .. Len(s) + 1 /\ i + Len(w) <= Len(s) + 1
    /\ \A k \in 1 .. Len(w) : s[i + k - 1] = w[k]

(* Where one text after another stands, each of them stands.                *)
LEMMA ConcatStands ==
    ASSUME NEW s \in Texts, NEW i \in Nat, NEW u \in Texts, NEW w \in Texts, Stands(u \o w, s, i)
    PROVE  Stands(u, s, i) /\ Stands(w, s, i + Len(u))
<1>1. Len(s) \in Nat /\ Len(u) \in Nat /\ Len(w) \in Nat
  BY TextLen
<1>2. /\ Len(u \o w) = Len(u) + Len(w)
      /\ \A k \in 1 .. Len(u) : (u \o w)[k] = u[k]
      /\ \A k \in 1 .. Len(w) : (u \o w)[Len(u) + k] = w[k]
  BY TextConcat
<1>3. /\ i \in 1 .. Len(s) + 1 /\ i + (Len(u) + Len(w)) <= Len(s) + 1
      /\ \A k \in 1 .. Len(u) + Len(w) : s[i + k - 1] = (u \o w)[k]
  BY <1>2 DEF Stands
<1>4. Stands(u, s, i)
  BY <1>1, <1>2, <1>3 DEF Stands
<1>5. ASSUME NEW k \in 1 .. Len(w)
      PROVE  s[(i + Len(u)) + k - 1] = w[k]
  <2>1. Len(u) + k \in 1 .. Len(u) + Len(w) /\ i + (Len(u) + k) - 1 = (i + Len(u)) + k - 1
    BY <1>1, <1>3
  <2>2. s[i + (Len(u) + k) - 1] = (u \o w)[Len(u) + k]
    BY <2>1, <1>3
  <2> QED
    BY <2>1, <2>2, <1>2
<1>6. Stands(w, s, i + Len(u))
  BY <1>1, <1>3, <1>5 DEF Stands
<1> QED
  BY <1>4, <1>6

(* Where the pieces of a text stand.                                        *)
Places(at, p, n, s, i) ==
    /\ at \in [0 .. n -> Nat] /\ at[0] = i /\ at[n] = i + Len(FlattenSeq(p))
    /\ \A m \in 0 .. n : at[m] >= i
    /\ \A m \in 1 .. n : Stands(p[m], s, at[m - 1]) /\ at[m] = at[m - 1] + Len(p[m])

LEMMA PiecesStand ==
    ASSUME NEW s \in Texts, NEW i \in Nat, NEW n \in Nat, NEW p \in [1 .. n -> Texts],
           Stands(FlattenSeq(p), s, i)
    PROVE  \E at : Places(at, p, n, s, i)
<1>1. PICK f \in [0 .. n -> Texts] : /\ f[0] = <<>> /\ f[n] = FlattenSeq(p)
                                     /\ \A m \in 1 .. n : f[m] = f[m - 1] \o p[m]
  BY Pieces
<1> DEFINE T == {m \in 0 .. n : Stands(f[m], s, i)}
           at == [m \in 0 .. n |-> i + Len(f[m])]
<1>2. n \in T
  BY <1>1
<1>3. ASSUME NEW m \in 1 .. n, Stands(f[m], s, i)
      PROVE  Stands(f[m - 1], s, i) /\ Stands(p[m], s, i + Len(f[m - 1]))
  <2>1. f[m - 1] \in Texts /\ p[m] \in Texts /\ f[m] = f[m - 1] \o p[m]
    BY <1>1
  <2>2. Stands(f[m - 1] \o p[m], s, i)
    BY <2>1, <1>3
  <2> QED
    BY <2>1, <2>2, ConcatStands
<1>4. \A m \in 0 .. n : m \in T
  <2>1. ASSUME NEW m \in 1 .. n, m \in T
        PROVE  m - 1 \in T
    <3>1. Stands(f[m - 1], s, i)
      BY <2>1, <1>3
    <3> QED
      BY <3>1
  <2> HIDE DEF T
  <2> QED
    BY <1>2, <2>1, Downwards
<1>5. \A m \in 0 .. n : Len(f[m]) \in Nat
  BY <1>1, TextLen
<1>6. at \in [0 .. n -> Nat] /\ \A m \in 0 .. n : at[m] = i + Len(f[m])
  BY <1>5
<1> HIDE DEF at
<1>7. at[0] = i /\ at[n] = i + Len(FlattenSeq(p)) /\ \A m \in 0 .. n : at[m] >= i
  <2>1. at[0] = i /\ at[n] = i + Len(FlattenSeq(p))
    BY <1>1, <1>6
  <2>2. \A m \in 0 .. n : at[m] >= i
    BY <1>5, <1>6
  <2> QED
    BY <2>1, <2>2
<1>8. ASSUME NEW m \in 1 .. n
      PROVE  Stands(p[m], s, at[m - 1]) /\ at[m] = at[m - 1] + Len(p[m])
  <2>1. /\ m \in 0 .. n /\ m - 1 \in 0 .. n
        /\ f[m - 1] \in Texts /\ p[m] \in Texts /\ f[m] = f[m - 1] \o p[m]
    BY <1>1
  <2>2. Stands(p[m], s, i + Len(f[m - 1]))
    BY <2>1, <1>3, <1>4
  <2>3. Len(f[m]) = Len(f[m - 1]) + Len(p[m])
    BY <2>1, TextConcat
  <2>4. /\ Len(p[m]) \in Nat /\ Len(f[m - 1]) \in Nat
        /\ at[m] = i + Len(f[m]) /\ at[m - 1] = i + Len(f[m - 1])
    BY <2>1, <1>5, <1>6, TextLen
  <2> QED
    BY <2>2, <2>3, <2>4
<1> QED
  BY <1>6, <1>7, <1>8 DEF Places

(* The characters the code names.                                           *)
LEMMA SpecialCharacters ==
    {"quote", "backslash", "comma", "space", "equals", "control", "Bearer"} \subseteq Characters
  BY DEF Characters

(* A quote and a backslash are escaped, other characters are themselves.    *)
LEMMA EscapedText ==
    ASSUME NEW c \in Characters
    PROVE  /\ Escaped(c) \in Texts
           /\ c \in {"quote", "backslash"} =>
                Len(Escaped(c)) = 2 /\ Escaped(c)[1] = "backslash" /\ Escaped(c)[2] = c
           /\ c \notin {"quote", "backslash"} => Len(Escaped(c)) = 1 /\ Escaped(c)[1] = c
<1>1. CASE c \in {"quote", "backslash"}
  <2>1. Escaped(c) = <<"backslash", c>>
    BY <1>1 DEF Escaped
  <2>2. <<"backslash", c>> \in Seq(Characters)
    BY SpecialCharacters
  <2> QED
    BY <1>1, <2>1, <2>2 DEF Texts
<1>2. CASE c \notin {"quote", "backslash"}
  BY <1>2, CharacterText DEF Escaped
<1> QED
  BY <1>1, <1>2

(* The escaped characters of a text.                                        *)
Escapes(t) == [i \in DOMAIN t |-> Escaped(t[i])]

(* The escaped characters make a text.                                      *)
LEMMA EscapesText ==
    ASSUME NEW t \in Texts
    PROVE  /\ Escapes(t) \in [1 .. Len(t) -> Texts]
           /\ \A i \in 1 .. Len(t) : Escapes(t)[i] = Escaped(t[i])
           /\ FlattenSeq(Escapes(t)) \in Texts
<1>1. Len(t) \in Nat /\ DOMAIN t = 1 .. Len(t) /\ \A i \in 1 .. Len(t) : t[i] \in Characters
  BY TextLen
<1>2. /\ Escapes(t) \in [1 .. Len(t) -> Texts]
      /\ \A i \in 1 .. Len(t) : Escapes(t)[i] = Escaped(t[i])
  BY <1>1, EscapedText DEF Escapes
<1>3. PICK f \in [0 .. Len(t) -> Texts] : f[Len(t)] = FlattenSeq(Escapes(t))
  BY <1>1, <1>2, Pieces
<1> QED
  BY <1>1, <1>2, <1>3

(* What is left without control characters has none to strip.               *)
LEMMA StrippedText ==
    ASSUME NEW v \in Texts
    PROVE  stripControl(v) \in Texts /\ stripControl(stripControl(v)) = stripControl(v)
<1>1. /\ stripControl(v) \in Texts
      /\ \A i \in 1 .. Len(stripControl(v)) : stripControl(v)[i] \notin {"control"}
  BY DroppedClean DEF stripControl
<1> QED
  BY <1>1, DroppedNothing DEF stripControl

(* The parts of a quoted string.                                            *)
LEMMA QuotedText ==
    ASSUME NEW v \in Texts
    PROVE  LET w == FlattenSeq(Escapes(stripControl(v))) IN
           /\ quoteString(v) = (<<"quote">> \o w) \o <<"quote">>
           /\ w \in Texts /\ <<"quote">> \o w \in Texts /\ quoteString(v) \in Texts
           /\ Len(quoteString(v)) = Len(w) + 2
           /\ quoteString(v)[1] = "quote" /\ quoteString(v)[Len(w) + 2] = "quote"
<1> DEFINE w == FlattenSeq(Escapes(stripControl(v)))
           q == <<"quote">>
<1>1. w \in Texts
  BY StrippedText, EscapesText
<1>2. q \in Texts /\ Len(q) = 1 /\ q[1] = "quote"
  BY CharacterText, SpecialCharacters
<1>3. quoteString(v) = (q \o w) \o q
  BY DEF quoteString, Escapes
<1>4. Len(w) \in Nat
  BY <1>1, TextLen
<1> HIDE DEF w, q
<1>5. /\ q \o w \in Texts /\ Len(q \o w) = 1 + Len(w) /\ (q \o w)[1] = q[1]
  <2>1. /\ q \o w \in Texts /\ Len(q \o w) = Len(q) + Len(w)
        /\ \A j \in 1 .. Len(q) : (q \o w)[j] = q[j]
    BY <1>1, <1>2, TextConcat
  <2> QED
    BY <1>2, <2>1
<1>6. /\ (q \o w) \o q \in Texts /\ Len((q \o w) \o q) = (1 + Len(w)) + 1
      /\ \A i \in 1 .. Len(q \o w) : ((q \o w) \o q)[i] = (q \o w)[i]
      /\ \A i \in 1 .. 1 : ((q \o w) \o q)[Len(q \o w) + i] = q[i]
  <2> DEFINE u == q \o w
  <2>1. u \in Texts /\ Len(u) = 1 + Len(w)
    BY <1>5
  <2> HIDE DEF u
  <2>2. /\ u \o q \in Texts /\ Len(u \o q) = Len(u) + Len(q)
        /\ \A i \in 1 .. Len(u) : (u \o q)[i] = u[i]
        /\ \A i \in 1 .. Len(q) : (u \o q)[Len(u) + i] = q[i]
    BY <1>2, <2>1, TextConcat
  <2> QED
    BY <1>2, <2>1, <2>2 DEF u
<1>7. 1 \in 1 .. Len(q \o w) /\ (1 + Len(w)) + 1 = Len(w) + 2
  BY <1>4, <1>5
<1>8. ((q \o w) \o q)[1] = "quote" /\ ((q \o w) \o q)[Len(w) + 2] = "quote"
  BY <1>2, <1>5, <1>6, <1>7
<1> QED
  BY <1>1, <1>3, <1>5, <1>6, <1>7, <1>8 DEF w, q

(* A quoted string gives back what was quoted, control characters aside.    *)
LEMMA QuotedIsUnquoted ==
    ASSUME NEW s \in Texts, NEW i \in Nat, NEW v \in Texts, Stands(quoteString(v), s, i)
    PROVE  Unquoted(s, i + 1) = [value |-> stripControl(v), next |-> i + Len(quoteString(v))]
<1> DEFINE t == stripControl(v)
           n == Len(t)
           w == FlattenSeq(Escapes(t))
           q == <<"quote">>
<1>1. t \in Texts /\ n \in Nat /\ \A m \in 1 .. n : t[m] \in Characters
  BY StrippedText, TextLen
<1>2. /\ quoteString(v) = (q \o w) \o q /\ w \in Texts /\ q \o w \in Texts
      /\ Len(quoteString(v)) = Len(w) + 2
  BY QuotedText
<1>3. q \in Texts /\ Len(q) = 1 /\ q[1] = "quote" /\ Len(w) \in Nat /\ Len(s) \in Nat
  BY <1>2, CharacterText, SpecialCharacters, TextLen
<1>4. /\ Escapes(t) \in [1 .. n -> Texts]
      /\ \A m \in 1 .. n : Escapes(t)[m] = Escaped(t[m])
  BY <1>1, EscapesText
<1> HIDE DEF q
<1>5. Stands(q \o w, s, i) /\ Stands(q, s, i + Len(q \o w)) /\ Len(q \o w) = 1 + Len(w)
  <2>1. Stands((q \o w) \o q, s, i)
    BY <1>2
  <2>2. Len(q \o w) = Len(q) + Len(w)
    BY <1>2, <1>3, TextConcat
  <2> QED
    BY <1>2, <1>3, <2>1, <2>2, ConcatStands
<1>6. Stands(w, s, i + 1)
  BY <1>2, <1>3, <1>5, ConcatStands
<1> HIDE DEF t, n, w
<1>7. PICK at \in [0 .. n -> Nat] :
        /\ at[0] = i + 1 /\ at[n] = (i + 1) + Len(w)
        /\ \A m \in 1 .. n : /\ Stands(Escapes(t)[m], s, at[m - 1])
                             /\ at[m] = at[m - 1] + Len(Escapes(t)[m])
  <2>1. Stands(FlattenSeq(Escapes(t)), s, i + 1) /\ w = FlattenSeq(Escapes(t))
    BY <1>6 DEF w
  <2> DEFINE p == Escapes(t)
             k == i + 1
  <2>2. k \in Nat /\ p \in [1 .. n -> Texts] /\ Stands(FlattenSeq(p), s, k)
    BY <1>4, <2>1
  <2> HIDE DEF p, k
  <2>3. PICK at : Places(at, p, n, s, k)
    BY <1>1, <2>2, PiecesStand
  <2> QED
    BY <2>1, <2>3 DEF Places, p, k
<1>8. at[n] \in 1 .. Len(s) /\ s[at[n]] = "quote"
  BY <1>3, <1>5, <1>7 DEF Stands
<1>9. PICK scan : \A j \in 1 .. Len(s) + 1 :
                     /\ Unquoted(s, j) = scan[j]
                     /\ scan[j] = ScanStep(s, scan, j)
                     /\ scan[j] \in Scans /\ scan[j].next \in j .. Len(s) + 1
  BY ScanSteps
<1> DEFINE T == {m \in 0 .. n : scan[at[m]] = [value |-> SubSeq(t, m + 1, n), next |-> at[n] + 1]}
<1>10. n \in T
  <2>1. SubSeq(t, n + 1, n) = <<>>
    BY <1>1, SubSeqEmpty
  <2>2. scan[at[n]] = [value |-> <<>>, next |-> at[n] + 1]
    <3>1. scan[at[n]] = ScanStep(s, scan, at[n]) /\ ~(at[n] > Len(s))
      BY <1>3, <1>8, <1>9
    <3> QED
      BY <1>8, <3>1 DEF ScanStep
  <2> QED
    BY <2>1, <2>2, <1>1
<1>11. ASSUME NEW m \in 1 .. n, m \in T
       PROVE  m - 1 \in T
  <2> DEFINE e == Escapes(t)[m]
             j == at[m - 1]
             ch == t[m]
  <2>1. /\ m - 1 \in 0 .. n /\ (m - 1) + 1 = m /\ j \in Nat /\ at[m] = j + Len(e)
        /\ Stands(e, s, j) /\ e = Escaped(ch) /\ ch \in Characters
    BY <1>1, <1>4, <1>7
  <2>2. scan[at[m]] = [value |-> SubSeq(t, m + 1, n), next |-> at[n] + 1]
    BY <1>11
  <2>3. SubSeq(t, m, n) = <<ch>> \o SubSeq(t, m + 1, n)
    <3>1. n \in m .. Len(t) /\ m \in 1 .. Len(t)
      BY <1>1 DEF n
    <3> QED
      BY <1>1, <3>1, SubSeqRecursiveFirst DEF Texts
  <2> HIDE DEF e, j, ch
  <2>4. scan[j] = [value |-> <<ch>> \o SubSeq(t, m + 1, n), next |-> at[n] + 1]
    <3>1. CASE ch \in {"quote", "backslash"}
      <4>1. Len(e) = 2 /\ e[1] = "backslash" /\ e[2] = ch
        BY <2>1, <3>1, EscapedText
      <4>2. j \in 1 .. Len(s) + 1 /\ j < Len(s) /\ s[j + 1 - 1] = e[1] /\ s[j + 2 - 1] = e[2]
        BY <1>3, <2>1, <4>1 DEF Stands
      <4>3. s[j] = "backslash" /\ s[j + 1] = ch /\ at[m] = j + 2
        BY <2>1, <4>1, <4>2
      <4>4. scan[j] = [value |-> <<ch>> \o scan[j + 2].value, next |-> scan[j + 2].next]
        <5>1. scan[j] = ScanStep(s, scan, j) /\ ~(j > Len(s))
          BY <1>3, <1>9, <4>2
        <5> QED
          BY <4>2, <4>3, <5>1 DEF ScanStep
      <4>5. scan[j + 2] = scan[at[m]]
        BY <4>3
      <4> QED
        BY <2>2, <4>4, <4>5
    <3>2. CASE ch \notin {"quote", "backslash"}
      <4>1. Len(e) = 1 /\ e[1] = ch
        BY <2>1, <3>2, EscapedText
      <4>2. j \in 1 .. Len(s) + 1 /\ j <= Len(s) /\ s[j + 1 - 1] = e[1]
        BY <1>3, <2>1, <4>1 DEF Stands
      <4>3. s[j] = ch /\ at[m] = j + 1
        BY <2>1, <4>1, <4>2
      <4>4. scan[j] = [value |-> <<ch>> \o scan[j + 1].value, next |-> scan[j + 1].next]
        <5>1. scan[j] = ScanStep(s, scan, j) /\ ~(j > Len(s))
          BY <1>3, <1>9, <4>2
        <5> QED
          BY <3>2, <4>3, <5>1 DEF ScanStep
      <4>5. scan[j + 1] = scan[at[m]]
        BY <4>3
      <4> QED
        BY <2>2, <4>4, <4>5
    <3> QED
      BY <3>1, <3>2
  <2> QED
    BY <2>1, <2>3, <2>4 DEF j
<1>12. 0 \in T
  <2> HIDE DEF T
  <2> QED
    BY <1>1, <1>10, <1>11, Downwards
<1>13. scan[i + 1] = [value |-> SubSeq(t, 1, n), next |-> at[n] + 1]
  BY <1>7, <1>12
<1>14. SubSeq(t, 1, n) = t
  BY <1>1, SubSeqFull DEF n, Texts
<1>15. i + 1 \in 1 .. Len(s) + 1 /\ at[n] + 1 = i + Len(quoteString(v))
  BY <1>2, <1>3, <1>6, <1>7 DEF Stands
<1> QED
  BY <1>9, <1>13, <1>14, <1>15 DEF t

(***************************************************************************)
(* Searching and trimming.                                                  *)
(***************************************************************************)
(* Min is the least of a set of numbers,                                    *)
LEMMA MinIsLeast ==
    ASSUME NEW T, T \subseteq Nat, T # {}
    PROVE  Min(T) \in T /\ \A n \in T : Min(T) <= n
<1>1. \E m \in T : \A n \in T : m <= n
  BY Least
<1> QED
  BY <1>1 DEF Min

(* and Max the greatest of one that has a bound.                            *)
LEMMA MaxIsGreatest ==
    ASSUME NEW b \in Nat, NEW T, T \subseteq 0 .. b, T # {}
    PROVE  Max(T) \in T /\ \A n \in T : n <= Max(T)
<1> DEFINE U == {b - n : n \in T}
<1>1. U \subseteq Nat /\ U # {}
  <2>1. \A n \in T : b - n \in Nat
    OBVIOUS
  <2>2. \E n \in T : b - n \in U
    OBVIOUS
  <2> QED
    BY <2>1, <2>2
<1>2. PICK u \in U : \A v \in U : u <= v
  <2> HIDE DEF U
  <2> QED
    BY <1>1, Least
<1>3. PICK m \in T : u = b - m
  OBVIOUS
<1>4. \A n \in T : m >= n
  <2> TAKE n \in T
  <2>1. b - n \in U
    OBVIOUS
  <2>2. b - m <= b - n /\ n \in 0 .. b /\ m \in 0 .. b
    BY <1>2, <1>3, <2>1
  <2> QED
    BY <2>2
<1>5. Max(T) \in T /\ \A n \in T : Max(T) >= n
  BY <1>4 DEF Max
<1> QED
  BY <1>5

(* Searches end in the text, or one past it.                                *)
LEMMA FirstInType ==
    ASSUME NEW s \in Texts, NEW i \in 1 .. Len(s) + 1, NEW C
    PROVE  /\ FirstIn(s, i, C) \in i .. Len(s) + 1
           /\ FirstNotIn(s, i, C) \in i .. Len(s) + 1
<1>1. Len(s) \in Nat
  BY TextLen
<1> DEFINE T == {j \in i .. Len(s) : s[j] \in C} \cup {Len(s) + 1}
           U == {j \in i .. Len(s) : s[j] \notin C} \cup {Len(s) + 1}
<1>2. T \subseteq Nat /\ T # {} /\ T \subseteq i .. Len(s) + 1
  BY <1>1
<1>3. U \subseteq Nat /\ U # {} /\ U \subseteq i .. Len(s) + 1
  BY <1>1
<1>4. FirstIn(s, i, C) = Min(T) /\ FirstNotIn(s, i, C) = Min(U)
  BY DEF FirstIn, FirstNotIn
<1> HIDE DEF T, U
<1> QED
  BY <1>2, <1>3, <1>4, MinIsLeast

(* What a search finds.                                                     *)
LEMMA FirstInIs ==
    ASSUME NEW s \in Texts, NEW i \in 1 .. Len(s) + 1, NEW C, NEW k \in i .. Len(s) + 1,
           \A j \in i .. k - 1 : s[j] \notin C, k <= Len(s) => s[k] \in C
    PROVE  FirstIn(s, i, C) = k
<1>1. Len(s) \in Nat
  BY TextLen
<1> DEFINE T == {j \in i .. Len(s) : s[j] \in C} \cup {Len(s) + 1}
<1>2. k \in T /\ \A j \in T : k <= j
  BY <1>1
<1>3. T \subseteq Nat /\ T # {} /\ FirstIn(s, i, C) = Min(T)
  BY <1>1, <1>2 DEF FirstIn
<1> HIDE DEF T
<1>4. Min(T) \in T /\ \A n \in T : Min(T) <= n
  BY <1>3, MinIsLeast
<1>5. Min(T) <= k /\ k <= Min(T) /\ Min(T) \in Nat
  BY <1>2, <1>3, <1>4
<1> QED
  BY <1>3, <1>5

(* The same of a search for what is not in C.                               *)
LEMMA FirstNotInIs ==
    ASSUME NEW s \in Texts, NEW i \in 1 .. Len(s) + 1, NEW C, NEW k \in i .. Len(s) + 1,
           \A j \in i .. k - 1 : s[j] \in C, k <= Len(s) => s[k] \notin C
    PROVE  FirstNotIn(s, i, C) = k
<1>1. Len(s) \in Nat
  BY TextLen
<1> DEFINE T == {j \in i .. Len(s) : s[j] \notin C} \cup {Len(s) + 1}
<1>2. k \in T /\ \A j \in T : k <= j
  BY <1>1
<1>3. T \subseteq Nat /\ T # {} /\ FirstNotIn(s, i, C) = Min(T)
  BY <1>1, <1>2 DEF FirstNotIn
<1> HIDE DEF T
<1>4. Min(T) \in T /\ \A n \in T : Min(T) <= n
  BY <1>3, MinIsLeast
<1>5. Min(T) <= k /\ k <= Min(T) /\ Min(T) \in Nat
  BY <1>2, <1>3, <1>4
<1> QED
  BY <1>3, <1>5

(* A part of a text is a text.                                              *)
LEMMA SubText ==
    ASSUME NEW s \in Texts, NEW i \in 1 .. Len(s) + 1, NEW j \in 0 .. Len(s)
    PROVE  /\ SubSeq(s, i, j) \in Texts
           /\ Len(SubSeq(s, i, j)) = IF i <= j THEN j - i + 1 ELSE 0
           /\ \A k \in 1 .. j - i + 1 : SubSeq(s, i, j)[k] = s[i + k - 1]
<1>1. Len(s) \in Nat /\ \A k \in 1 .. Len(s) : s[k] \in Characters
  BY TextLen
<1>2. i \in Int /\ j \in Int /\ \A k \in i .. j : s[k] \in Characters
  BY <1>1
<1> QED
  BY <1>2, SubSeqProperties DEF Texts

(* What is left without its outer spaces is a text.                         *)
LEMMA TrimmedText ==
    ASSUME NEW s \in Texts
    PROVE  TrimSpace(s) \in Texts
<1> DEFINE inner == {j \in DOMAIN s : s[j] # "space"}
<1>1. Len(s) \in Nat /\ DOMAIN s = 1 .. Len(s)
  BY TextLen
<1>2. CASE inner = {}
  BY <1>2, EmptySeq DEF TrimSpace, Texts
<1>3. CASE inner # {}
  <2>1. inner \subseteq 0 .. Len(s) /\ inner \subseteq Nat /\ inner \subseteq 1 .. Len(s)
    BY <1>1
  <2>2. TrimSpace(s) = SubSeq(s, Min(inner), Max(inner))
    BY <1>3 DEF TrimSpace
  <2> HIDE DEF inner
  <2>3. Min(inner) \in inner /\ Max(inner) \in inner
    BY <1>1, <1>3, <2>1, MinIsLeast, MaxIsGreatest
  <2>4. Min(inner) \in 1 .. Len(s) + 1 /\ Max(inner) \in 0 .. Len(s)
    <3>1. Min(inner) \in 1 .. Len(s) /\ Max(inner) \in 1 .. Len(s)
      BY <2>1, <2>3
    <3> QED
      BY <1>1, <3>1
  <2> QED
    BY <2>2, <2>4, SubText
<1> QED
  BY <1>2, <1>3

(* Text that neither begins nor ends with a space is left as it is.         *)
LEMMA NothingToTrim ==
    ASSUME NEW s \in Texts, s # <<>>, s[1] # "space", s[Len(s)] # "space"
    PROVE  TrimSpace(s) = s
<1> DEFINE inner == {j \in DOMAIN s : s[j] # "space"}
<1>1. Len(s) \in Nat /\ DOMAIN s = 1 .. Len(s) /\ Len(s) > 0
  BY TextLen
<1>2. 1 \in inner /\ Len(s) \in inner /\ inner \subseteq 1 .. Len(s)
  BY <1>1
<1>3. TrimSpace(s) = SubSeq(s, Min(inner), Max(inner))
  BY <1>2 DEF TrimSpace
<1> HIDE DEF inner
<1>4. inner \subseteq 0 .. Len(s) /\ inner \subseteq Nat /\ inner # {}
  BY <1>1, <1>2
<1>5. /\ Min(inner) \in inner /\ \A n \in inner : Min(inner) <= n
      /\ Max(inner) \in inner /\ \A n \in inner : n <= Max(inner)
  BY <1>1, <1>4, MinIsLeast, MaxIsGreatest
<1>6. Min(inner) = 1 /\ Max(inner) = Len(s)
  <2>1. Min(inner) \in 1 .. Len(s) /\ Max(inner) \in 1 .. Len(s)
    BY <1>2, <1>5
  <2>2. Min(inner) <= 1 /\ Len(s) <= Max(inner)
    BY <1>2, <1>5
  <2> QED
    BY <1>1, <2>1, <2>2
<1> QED
  BY <1>3, <1>6, SubSeqFull DEF Texts

(* A value is a text, and the scan goes on behind it.                       *)
LEMMA ValueType ==
    ASSUME NEW s \in Texts, NEW eq \in 1 .. Len(s)
    PROVE  /\ ValueAfter(s, eq).value \in Texts
           /\ ValueAfter(s, eq).next \in eq + 1 .. Len(s) + 1
<1>1. Len(s) \in Nat
  BY TextLen
<1>2. CASE eq < Len(s) /\ s[eq + 1] = "quote"
  <2>1. eq + 2 \in 1 .. Len(s) + 1
    BY <1>1, <1>2
  <2>2. Unquoted(s, eq + 2) \in Scans /\ Unquoted(s, eq + 2).next \in eq + 2 .. Len(s) + 1
    BY <2>1, ScanSteps
  <2>3. ValueAfter(s, eq) = Unquoted(s, eq + 2)
    BY <1>2 DEF ValueAfter
  <2> QED
    BY <1>1, <2>2, <2>3 DEF Scans
<1>3. CASE ~(eq < Len(s) /\ s[eq + 1] = "quote")
  <2> DEFINE stop == FirstIn(s, eq + 1, {"comma"})
  <2>1. stop \in eq + 1 .. Len(s) + 1
    BY <1>1, FirstInType
  <2>2. ValueAfter(s, eq) = [value |-> TrimSpace(SubSeq(s, eq + 1, stop - 1)), next |-> stop]
    BY <1>3 DEF ValueAfter
  <2> HIDE DEF stop
  <2>3. SubSeq(s, eq + 1, stop - 1) \in Texts
    <3>1. eq + 1 \in 1 .. Len(s) + 1 /\ stop - 1 \in 0 .. Len(s)
      BY <1>1, <2>1
    <3> QED
      BY <3>1, SubText
  <2> QED
    BY <2>1, <2>2, <2>3, TrimmedText
<1> QED
  BY <1>2, <1>3

(***************************************************************************)
(* Reading one parameter after another.                                     *)
(***************************************************************************)
(* What parseAuthParams can return.                                         *)
ParamMaps == UNION {[D -> Texts] : D \in SUBSET Texts}

(* One more parameter is one more entry.                                    *)
LEMMA ParamType ==
    ASSUME NEW key \in Texts, NEW val \in Texts, NEW later \in ParamMaps
    PROVE  Param(key, val, later) \in ParamMaps
<1>1. PICK D \in SUBSET Texts : later \in [D -> Texts]
  BY DEF ParamMaps
<1>2. CASE key = <<>>
  BY <1>2 DEF Param
<1>3. CASE key # <<>>
  <2> DEFINE E == DOMAIN later \cup {key}
  <2>1. E \in SUBSET Texts /\ \A k \in DOMAIN later : later[k] \in Texts
    BY <1>1
  <2>2. Param(key, val, later) = [k \in E |-> IF k \in DOMAIN later THEN later[k] ELSE val]
    BY <1>3 DEF Param
  <2> HIDE DEF E
  <2>3. Param(key, val, later) \in [E -> Texts]
    BY <2>1, <2>2
  <2> QED
    BY <2>1, <2>3 DEF ParamMaps
<1> QED
  BY <1>2, <1>3

(* One step of parseAuthParams, at position i.                              *)
StartOf(s, i) == FirstNotIn(s, i, {"space", "comma"})

EqualsOf(s, i) == FirstIn(s, StartOf(s, i), {"equals"})

FromStep(s, g, i) ==
    IF EqualsOf(s, i) > Len(s) THEN [k \in {} |-> <<>>]
    ELSE Param(TrimSpace(SubSeq(s, StartOf(s, i), EqualsOf(s, i) - 1)),
               ValueAfter(s, EqualsOf(s, i)).value, g[ValueAfter(s, EqualsOf(s, i)).next])

(* The positions a parameter is found at.                                   *)
LEMMA PositionTypes ==
    ASSUME NEW s \in Texts, NEW i \in 1 .. Len(s) + 1
    PROVE  /\ Len(s) \in Nat /\ StartOf(s, i) \in i .. Len(s) + 1
           /\ EqualsOf(s, i) \in StartOf(s, i) .. Len(s) + 1
           /\ EqualsOf(s, i) <= Len(s) =>
                /\ SubSeq(s, StartOf(s, i), EqualsOf(s, i) - 1) \in Texts
                /\ ValueAfter(s, EqualsOf(s, i)).value \in Texts
                /\ ValueAfter(s, EqualsOf(s, i)).next \in i + 1 .. Len(s) + 1
<1>1. Len(s) \in Nat
  BY TextLen
<1>2. StartOf(s, i) \in i .. Len(s) + 1
  BY FirstInType DEF StartOf
<1>3. StartOf(s, i) \in 1 .. Len(s) + 1
  BY <1>1, <1>2
<1>4. EqualsOf(s, i) \in StartOf(s, i) .. Len(s) + 1
  BY <1>3, FirstInType DEF EqualsOf
<1> DEFINE eq == EqualsOf(s, i)
           start == StartOf(s, i)
<1>5. ASSUME eq <= Len(s)
      PROVE  /\ SubSeq(s, start, eq - 1) \in Texts
             /\ ValueAfter(s, eq).value \in Texts /\ ValueAfter(s, eq).next \in i + 1 .. Len(s) + 1
  <2>1. start \in i .. Len(s) + 1 /\ eq \in start .. Len(s) + 1
    BY <1>2, <1>4
  <2> HIDE DEF eq, start
  <2>2. eq \in 1 .. Len(s) /\ eq >= i /\ eq - 1 \in 0 .. Len(s) /\ start \in 1 .. Len(s) + 1
    BY <1>1, <1>5, <2>1
  <2>3. ValueAfter(s, eq).value \in Texts /\ ValueAfter(s, eq).next \in eq + 1 .. Len(s) + 1
    BY <2>2, ValueType
  <2> QED
    BY <1>1, <2>2, <2>3, SubText
<1> QED
  BY <1>1, <1>2, <1>4, <1>5

(* The parameters are what their equation says.                             *)
LEMMA FromSteps ==
    ASSUME NEW s \in Texts
    PROVE  \E from : /\ ParamsFrom(s) = from[1]
                     /\ \A i \in 1 .. Len(s) + 1 : from[i] = FromStep(s, from, i)
<1> DEFINE n == Len(s) + 1
           rank == [i \in 1 .. n |-> n - i]
           F == [i \in 1 .. n |-> [g \in [1 .. n -> ParamMaps] |-> FromStep(s, g, i)]]
           none == [k \in {} |-> <<>>]
<1>1. n \in Nat /\ n = Len(s) + 1 /\ 1 \in 1 .. n
  BY TextLen
<1>2. Ranks(rank, n, n)
  BY <1>1 DEF Ranks
<1>3. none \in ParamMaps
  <2>1. none \in [{} -> Texts] /\ {} \in SUBSET Texts
    OBVIOUS
  <2> QED
    BY <2>1 DEF ParamMaps
<1> HIDE DEF n
<1>4. ASSUME NEW i \in 1 .. n, NEW g \in [1 .. n -> ParamMaps]
      PROVE  FromStep(s, g, i) \in ParamMaps
  <2> DEFINE eq == EqualsOf(s, i)
             key == TrimSpace(SubSeq(s, StartOf(s, i), eq - 1))
             val == ValueAfter(s, eq)
  <2>1. CASE eq > Len(s)
    BY <1>3, <2>1 DEF FromStep
  <2>2. CASE ~(eq > Len(s))
    <3>1. eq <= Len(s)
      BY <1>1, <2>2, PositionTypes
    <3>2. key \in Texts /\ val.value \in Texts /\ val.next \in 1 .. n
      <4>1. /\ SubSeq(s, StartOf(s, i), eq - 1) \in Texts /\ val.value \in Texts
            /\ val.next \in i + 1 .. n
        BY <1>1, <3>1, PositionTypes
      <4> HIDE DEF val
      <4> QED
        BY <1>1, <4>1, TrimmedText
    <3>3. FromStep(s, g, i) = Param(key, val.value, g[val.next])
      BY <2>2 DEF FromStep
    <3> HIDE DEF key, val
    <3> QED
      BY <3>2, <3>3, ParamType
  <2> QED
    BY <2>1, <2>2
<1>5. ASSUME NEW i \in 1 .. n, NEW g \in [1 .. n -> ParamMaps], NEW h \in [1 .. n -> ParamMaps],
             \A k \in 1 .. n : n - k < n - i => g[k] = h[k]
      PROVE  FromStep(s, g, i) = FromStep(s, h, i)
  <2> DEFINE eq == EqualsOf(s, i)
             val == ValueAfter(s, eq)
  <2>1. CASE eq > Len(s)
    BY <2>1 DEF FromStep
  <2>2. CASE ~(eq > Len(s))
    <3>1. eq <= Len(s) /\ Len(s) \in Nat
      BY <1>1, <2>2, PositionTypes
    <3>2. val.next \in i + 1 .. n
      BY <1>1, <3>1, PositionTypes
    <3>3. g[val.next] = h[val.next]
      <4> HIDE DEF val
      <4> QED
        BY <1>1, <1>5, <3>2
    <3> QED
      BY <2>2, <3>3 DEF FromStep
  <2> QED
    BY <2>1, <2>2
<1>6. Steps(F, ParamMaps, n, rank)
  <2>1. F \in [1 .. n -> [[1 .. n -> ParamMaps] -> ParamMaps]]
    BY <1>4
  <2>2. ASSUME NEW i \in 1 .. n, NEW g \in [1 .. n -> ParamMaps], NEW h \in [1 .. n -> ParamMaps],
               \A k \in 1 .. n : rank[k] < rank[i] => g[k] = h[k]
        PROVE  F[i][g] = F[i][h]
    <3>1. \A k \in 1 .. n : n - k < n - i => g[k] = h[k]
      BY <2>2
    <3>2. F[i][g] = FromStep(s, g, i) /\ F[i][h] = FromStep(s, h, i)
      OBVIOUS
    <3> QED
      BY <1>5, <3>1, <3>2
  <2> HIDE DEF F, rank
  <2> QED
    BY <2>1, <2>2 DEF Steps
<1>7. PICK g \in [1 .. n -> ParamMaps] : \A i \in 1 .. n : g[i] = F[i][g]
  <2> HIDE DEF F, rank, none
  <2> QED
    BY <1>1, <1>2, <1>3, <1>6, Recursion
<1>8. g = [i \in 1 .. n |-> FromStep(s, g, i)]
  BY <1>7
<1> HIDE DEF F, rank
<1> DEFINE from[i \in 1 .. Len(s) + 1] == FromStep(s, from, i)
<1>9. ParamsFrom(s) = from[1]
  BY DEF ParamsFrom, FromStep, EqualsOf, StartOf
<1>10. from = [i \in 1 .. n |-> FromStep(s, from, i)]
  BY <1>8, <1>1
<1> HIDE DEF from
<1>11. \A i \in 1 .. n : from[i] = FromStep(s, from, i)
  BY <1>10
<1> QED
  BY <1>1, <1>9, <1>11

(* Where no parameter follows, none is read.                                *)
LEMMA NoParams ==
    ASSUME NEW s \in Texts, NEW g
    PROVE  FromStep(s, g, Len(s) + 1) = [k \in {} |-> <<>>]
<1>1. Len(s) \in Nat /\ Len(s) + 1 \in 1 .. Len(s) + 1
  BY TextLen
<1>2. EqualsOf(s, Len(s) + 1) \in Len(s) + 1 .. Len(s) + 1
  <2>1. /\ StartOf(s, Len(s) + 1) \in Len(s) + 1 .. Len(s) + 1
        /\ EqualsOf(s, Len(s) + 1) \in StartOf(s, Len(s) + 1) .. Len(s) + 1
    BY <1>1, PositionTypes
  <2> QED
    BY <1>1, <2>1
<1> QED
  BY <1>1, <1>2 DEF FromStep

(* From i on, the parameter x is read, and the others from next on.         *)
Reads(s, i, x, next) ==
    \A g : FromStep(s, g, i) = Param(<<x[1]>>, stripControl(x[2]), g[next])

(* A parameter as String renders it, whatever separates it from position i. *)
ParameterAt(s, i, start, k, v) ==
    /\ i \in 1 .. Len(s) + 1 /\ start \in i .. Len(s) /\ start < Len(s)
    /\ \A j \in i .. start - 1 : s[j] \in {"space", "comma"}
    /\ k \notin {"space", "comma", "equals"} /\ s[start] = k /\ s[start + 1] = "equals"
    /\ Stands(quoteString(v), s, start + 2)

(* It is read, and then what follows its closing quote.                     *)
LEMMA ParameterIsRead ==
    ASSUME NEW s \in Texts, NEW k \in Characters, NEW v \in Texts, NEW i, NEW start,
           ParameterAt(s, i, start, k, v), NEW g
    PROVE  FromStep(s, g, i) =
                Param(<<k>>, stripControl(v), g[start + 2 + Len(quoteString(v))])
<1>1. /\ i \in 1 .. Len(s) + 1 /\ start \in i .. Len(s) /\ start < Len(s)
      /\ \A j \in i .. start - 1 : s[j] \in {"space", "comma"}
      /\ k \notin {"space", "comma", "equals"} /\ s[start] = k /\ s[start + 1] = "equals"
  BY DEF ParameterAt
<1>2. Stands(quoteString(v), s, start + 2)
  BY DEF ParameterAt
<1>3. Len(s) \in Nat
  BY TextLen
<1>4. StartOf(s, i) = start
  <2>1. start \in i .. Len(s) + 1 /\ s[start] \notin {"space", "comma"}
    BY <1>1, <1>3
  <2> QED
    BY <1>1, <2>1, FirstNotInIs DEF StartOf
<1>5. EqualsOf(s, i) = start + 1
  <2>1. \A j \in start .. (start + 1) - 1 : s[j] \notin {"equals"}
    BY <1>1, <1>3
  <2>2. start \in 1 .. Len(s) + 1 /\ start + 1 \in start .. Len(s) + 1
    BY <1>1, <1>3
  <2> QED
    BY <1>1, <1>4, <2>1, <2>2, FirstInIs DEF EqualsOf
<1>6. TrimSpace(SubSeq(s, start, (start + 1) - 1)) = <<k>>
  <2>1. start \in 1 .. Len(s) + 1 /\ (start + 1) - 1 = start /\ start \in 0 .. Len(s)
    BY <1>1, <1>3
  <2>2. SubSeq(s, start, start) \in Texts /\ Len(SubSeq(s, start, start)) = 1
        /\ SubSeq(s, start, start)[1] = k
    BY <1>1, <2>1, SubText
  <2>3. <<k>> \in Texts /\ Len(<<k>>) = 1 /\ <<k>>[1] = k /\ <<k>> # <<>>
    BY CharacterText
  <2>4. SubSeq(s, start, start) = <<k>>
    BY <2>2, OneCharacter
  <2>5. TrimSpace(<<k>>) = <<k>>
    BY <1>1, <2>3, NothingToTrim
  <2> QED
    BY <2>1, <2>4, <2>5
<1>7. ValueAfter(s, start + 1) =
        [value |-> stripControl(v), next |-> start + 2 + Len(quoteString(v))]
  <2>1. quoteString(v)[1] = "quote" /\ Len(quoteString(v)) >= 2 /\ Len(quoteString(v)) \in Nat
    BY QuotedText, TextLen
  <2>2. start + 2 <= Len(s) /\ s[start + 2] = "quote"
    BY <1>3, <1>2, <2>1 DEF Stands
  <2>3. Unquoted(s, (start + 2) + 1) =
            [value |-> stripControl(v), next |-> (start + 2) + Len(quoteString(v))]
    <3>1. start + 2 \in Nat
      BY <1>1, <1>3
    <3> QED
      BY <1>2, <3>1, QuotedIsUnquoted
  <2>4. start + 1 < Len(s) /\ (start + 1) + 1 = start + 2 /\ (start + 1) + 2 = (start + 2) + 1
    BY <1>1, <1>3, <2>2
  <2> QED
    BY <2>2, <2>3, <2>4 DEF ValueAfter
<1> QED
  BY <1>1, <1>3, <1>4, <1>5, <1>6, <1>7 DEF FromStep

(***************************************************************************)
(* The list of parameters, and what is read of it.                          *)
(***************************************************************************)
(* p lists, once each, the parameters of F that have something to show.     *)
Lists(p, F) ==
    /\ p \in Seq(Keys \X Texts)
    /\ \A i, j \in 1 .. Len(p) : p[i][1] = p[j][1] => i = j
    /\ \A i \in 1 .. Len(p) : p[i] \in F /\ stripControl(p[i][2]) # <<>>
    /\ \A x \in F : stripControl(x[2]) # <<>> => \E i \in 1 .. Len(p) : p[i] = x

(* One more field of F makes one more parameter, or none.                   *)
LEMMA AddedLists ==
    ASSUME NEW F, NEW p, Lists(p, F), NEW key \in Keys, NEW val \in Texts,
           \A x \in F : x[1] # key
    PROVE  Lists(p \o Added(key, val), F \cup {<<key, val>>})
<1> DEFINE x == <<key, val>>
           G == F \cup {x}
           S == Keys \X Texts
<1>1. x[1] = key /\ x[2] = val /\ x \in S
  OBVIOUS
<1>2. /\ p \in Seq(S) /\ Len(p) \in Nat
      /\ \A i, j \in 1 .. Len(p) : p[i][1] = p[j][1] => i = j
      /\ \A i \in 1 .. Len(p) : p[i] \in F /\ stripControl(p[i][2]) # <<>>
      /\ \A y \in F : stripControl(y[2]) # <<>> => \E i \in 1 .. Len(p) : p[i] = y
  BY LenProperties DEF Lists
<1>3. CASE stripControl(val) = <<>>
  <2>1. p \o Added(key, val) = p
    BY <1>2, <1>3, ConcatEmptySeq DEF Added
  <2>2. Lists(p, G)
    <3> HIDE DEF x, S
    <3>1. /\ \A i \in 1 .. Len(p) : p[i] \in G /\ stripControl(p[i][2]) # <<>>
          /\ \A y \in G : stripControl(y[2]) # <<>> => \E i \in 1 .. Len(p) : p[i] = y
      BY <1>1, <1>2, <1>3
    <3> HIDE DEF G
    <3> QED
      BY <1>2, <3>1 DEF Lists, S
  <2> QED
    BY <2>1, <2>2
<1>4. CASE stripControl(val) # <<>>
  <2> DEFINE q == p \o <<x>>
             n == Len(p)
  <2>1. p \o Added(key, val) = q
    BY <1>4 DEF Added
  <2> HIDE DEF x, S
  <2>2. <<x>> \in Seq(S) /\ Len(<<x>>) = 1 /\ <<x>>[1] = x
    BY <1>1
  <2>3. /\ q \in Seq(S) /\ Len(q) = n + 1
        /\ \A i \in 1 .. n + 1 : q[i] = IF i <= n THEN p[i] ELSE <<x>>[i - n]
    BY <1>2, <2>2, ConcatProperties
  <2>4. n \in Nat /\ \A i \in 1 .. n : q[i] = p[i]
    BY <1>2, <2>3
  <2>5. q[n + 1] = x
    <3>1. (n + 1) - n = 1 /\ n + 1 \in 1 .. n + 1 /\ ~(n + 1 <= n)
      BY <2>4
    <3>2. q[n + 1] = <<x>>[(n + 1) - n]
      BY <2>3, <3>1
    <3> QED
      BY <2>2, <3>1, <3>2
  <2> HIDE DEF q
  <2>6. \A i \in 1 .. n : p[i][1] # key
    BY <1>2
  <2>7. ASSUME NEW i \in 1 .. Len(q), NEW j \in 1 .. Len(q), q[i][1] = q[j][1]
        PROVE  i = j
    <3>1. CASE i \in 1 .. n /\ j \in 1 .. n
      BY <1>2, <2>4, <2>7, <3>1
    <3>2. CASE i = n + 1 /\ j \in 1 .. n
      BY <1>1, <2>4, <2>5, <2>6, <2>7, <3>2
    <3>3. CASE i \in 1 .. n /\ j = n + 1
      BY <1>1, <2>4, <2>5, <2>6, <2>7, <3>3
    <3>4. CASE i = n + 1 /\ j = n + 1
      BY <3>4
    <3> QED
      BY <2>3, <2>4, <3>1, <3>2, <3>3, <3>4
  <2>8. ASSUME NEW i \in 1 .. Len(q)
        PROVE  q[i] \in G /\ stripControl(q[i][2]) # <<>>
    <3>1. CASE i \in 1 .. n
      BY <1>2, <2>4, <3>1
    <3>2. CASE i = n + 1
      BY <1>1, <1>4, <2>5, <3>2
    <3> QED
      BY <2>3, <2>4, <3>1, <3>2
  <2>9. ASSUME NEW y \in G, stripControl(y[2]) # <<>>
        PROVE  \E i \in 1 .. Len(q) : q[i] = y
    <3>1. CASE y \in F
      <4>1. PICK i \in 1 .. n : p[i] = y
        BY <1>2, <2>9, <3>1
      <4> QED
        BY <2>3, <2>4, <4>1
    <3>2. CASE y = x
      BY <2>3, <2>4, <2>5, <3>2
    <3> QED
      BY <3>1, <3>2
  <2> HIDE DEF G
  <2>10. Lists(q, G)
    BY <2>3, <2>7, <2>8, <2>9 DEF Lists, S
  <2> QED
    BY <2>1, <2>10 DEF G, x
<1> QED
  BY <1>3, <1>4

(* What a challenge has to tell.                                            *)
Fields(c) ==
    {<<"realm", c.realm>>, <<"error", c.error>>, <<"error_description", c.description>>,
     <<"scope", c.scope>>, <<"resource_metadata", c.metadata>>}

(* Parameters lists them.                                                   *)
LEMMA ParametersList ==
    ASSUME NEW c \in AnyChallenge
    PROVE  Lists(Parameters(c), Fields(c))
<1>1. /\ c.realm \in Texts /\ c.error \in Texts /\ c.description \in Texts
      /\ c.scope \in Texts /\ c.metadata \in Texts
  BY DEF AnyChallenge
<1> DEFINE p1 == Added("realm", c.realm)
           p2 == p1 \o Added("error", c.error)
           p3 == p2 \o Added("error_description", c.description)
           p4 == p3 \o Added("scope", c.scope)
           p5 == p4 \o Added("resource_metadata", c.metadata)
           F0 == {}
           F1 == {<<"realm", c.realm>>}
           F2 == F1 \cup {<<"error", c.error>>}
           F3 == F2 \cup {<<"error_description", c.description>>}
           F4 == F3 \cup {<<"scope", c.scope>>}
           F5 == F4 \cup {<<"resource_metadata", c.metadata>>}
<1>2. /\ Parameters(c) = p5 /\ Fields(c) = F5
  BY DEF Parameters, Fields
<1>3. /\ "realm" \in Keys /\ "error" \in Keys /\ "error_description" \in Keys
      /\ "scope" \in Keys /\ "resource_metadata" \in Keys
  BY DEF Keys
<1>4. Lists(p1, F1)
  <2>1. <<>> \in Seq(Keys \X Texts) /\ Len(<<>>) = 0
    BY EmptySeq
  <2>2. Lists(<<>>, {})
    BY <2>1 DEF Lists
  <2>3. Lists(<<>> \o p1, {} \cup F1)
    BY <1>1, <1>3, <2>2, AddedLists
  <2>4. p1 \in Seq(Keys \X Texts)
    <3>1. <<"realm", c.realm>> \in Keys \X Texts
      BY <1>1, <1>3
    <3> HIDE DEF Added
    <3>2. << <<"realm", c.realm>> >> \in Seq(Keys \X Texts)
      BY <3>1
    <3> QED
      BY <2>1, <3>2 DEF Added
  <2>5. <<>> \o p1 = p1 /\ {} \cup F1 = F1
    BY <2>4, ConcatEmptySeq
  <2> QED
    BY <2>3, <2>5
<1>5. Lists(p2, F2)
  <2>1. \A x \in F1 : x[1] # "error"
    OBVIOUS
  <2> HIDE DEF p1, F1
  <2> QED
    BY <1>1, <1>3, <1>4, <2>1, AddedLists
<1>6. Lists(p3, F3)
  <2>1. \A x \in F2 : x[1] # "error_description"
    OBVIOUS
  <2> HIDE DEF p2, F2
  <2> QED
    BY <1>1, <1>3, <1>5, <2>1, AddedLists
<1>7. Lists(p4, F4)
  <2>1. \A x \in F3 : x[1] # "scope"
    OBVIOUS
  <2> HIDE DEF p3, F3
  <2> QED
    BY <1>1, <1>3, <1>6, <2>1, AddedLists
<1>8. Lists(p5, F5)
  <2>1. \A x \in F4 : x[1] # "resource_metadata"
    OBVIOUS
  <2> HIDE DEF p4, F4
  <2> QED
    BY <1>1, <1>3, <1>7, <2>1, AddedLists
<1> HIDE DEF p5, F5
<1> QED
  BY <1>2, <1>8

(* params has the parameters of p from m + 1 on, and no others.             *)
Shows(params, p, m) ==
    /\ DOMAIN params = {<<p[j][1]>> : j \in m + 1 .. Len(p)}
    /\ \A j \in m + 1 .. Len(p) : params[<<p[j][1]>>] = stripControl(p[j][2])

(* One more parameter read before those that are shown.                     *)
LEMMA ShowsOneMore ==
    ASSUME NEW F, NEW p, Lists(p, F), NEW m \in 1 .. Len(p), NEW later, Shows(later, p, m)
    PROVE  Shows(Param(<<p[m][1]>>, stripControl(p[m][2]), later), p, m - 1)
<1> DEFINE n == Len(p)
           k == <<p[m][1]>>
           v == stripControl(p[m][2])
<1>1. n \in Nat /\ \A i, j \in 1 .. n : p[i][1] = p[j][1] => i = j
  BY LenProperties DEF Lists
<1>2. /\ DOMAIN later = {<<p[j][1]>> : j \in m + 1 .. n}
      /\ \A j \in m + 1 .. n : later[<<p[j][1]>>] = stripControl(p[j][2])
  BY DEF Shows
<1>3. \A a, b : <<a>> = <<b>> => a = b
  OBVIOUS
<1>4. k \notin DOMAIN later
  <2> SUFFICES ASSUME NEW j \in m + 1 .. n, <<p[j][1]>> = k
               PROVE  FALSE
    BY <1>2
  <2>1. p[j][1] = p[m][1] /\ j \in 1 .. n /\ j # m
    BY <1>1, <1>3
  <2> QED
    BY <1>1, <2>1
<1>5. k # <<>>
  OBVIOUS
<1>6. Param(k, v, later) =
        [y \in DOMAIN later \cup {k} |-> IF y \in DOMAIN later THEN later[y] ELSE v]
  BY <1>5 DEF Param
<1>7. (m - 1) + 1 = m /\ \A j \in m .. n : j = m \/ j \in m + 1 .. n
  BY <1>1
<1>8. DOMAIN later \cup {k} = {<<p[j][1]>> : j \in m .. n}
  BY <1>1, <1>2, <1>7
<1>9. ASSUME NEW j \in m .. n
      PROVE  Param(k, v, later)[<<p[j][1]>>] = stripControl(p[j][2])
  <2>1. CASE j = m
    <3> HIDE DEF k, v
    <3>1. Param(k, v, later)[k] = v
      BY <1>4, <1>6
    <3> QED
      BY <2>1, <3>1 DEF k, v
  <2>2. CASE j \in m + 1 .. n
    <3>1. <<p[j][1]>> \in DOMAIN later
      BY <1>2, <2>2
    <3> HIDE DEF k, v
    <3>2. Param(k, v, later)[<<p[j][1]>>] = later[<<p[j][1]>>]
      BY <1>6, <3>1
    <3> QED
      BY <1>2, <2>2, <3>2
  <2> QED
    BY <1>7, <2>1, <2>2
<1>10. DOMAIN Param(k, v, later) = {<<p[j][1]>> : j \in m .. n}
  BY <1>6, <1>8
<1> QED
  BY <1>7, <1>9, <1>10 DEF Shows

(* A body in which the parameters of p stand, each read from where the one  *)
(* before it ended.                                                         *)
LEMMA BodyIsRead ==
    ASSUME NEW s \in Texts, NEW F, NEW p, Lists(p, F), NEW pos, pos[0] = 1,
           \A m \in 0 .. Len(p) : pos[m] \in 1 .. Len(s) + 1,
           pos[Len(p)] = Len(s) + 1,
           \A m \in 1 .. Len(p) : Reads(s, pos[m - 1], p[m], pos[m])
    PROVE  Shows(ParamsFrom(s), p, 0)
<1> DEFINE n == Len(p)
<1>1. n \in Nat /\ Len(s) \in Nat
  BY LenProperties, TextLen DEF Lists
<1>2. PICK from : /\ ParamsFrom(s) = from[1]
                  /\ \A i \in 1 .. Len(s) + 1 : from[i] = FromStep(s, from, i)
  BY FromSteps
<1> DEFINE T == {m \in 0 .. n : Shows(from[pos[m]], p, m)}
<1>3. n \in T
  <2>1. from[pos[n]] = [k \in {} |-> <<>>]
    BY <1>1, <1>2, NoParams
  <2>2. {<<p[j][1]>> : j \in n + 1 .. n} = {} /\ n + 1 .. n = {}
    BY <1>1
  <2>3. Shows(from[pos[n]], p, n)
    BY <2>1, <2>2 DEF Shows
  <2> QED
    BY <1>1, <2>3
<1>4. ASSUME NEW m \in 1 .. n, m \in T
      PROVE  m - 1 \in T
  <2>1. Shows(from[pos[m]], p, m) /\ m - 1 \in 0 .. n
    BY <1>1, <1>4
  <2>2. from[pos[m - 1]] = Param(<<p[m][1]>>, stripControl(p[m][2]), from[pos[m]])
    BY <1>2, <2>1 DEF Reads
  <2>3. Shows(from[pos[m - 1]], p, m - 1)
    BY <2>1, <2>2, ShowsOneMore
  <2> QED
    BY <2>1, <2>3
<1>5. 0 \in T
  <2> HIDE DEF T, n
  <2> QED
    BY <1>1, <1>3, <1>4, Downwards
<1> QED
  BY <1>2, <1>5

(* A field is looked up by its key.                                         *)
LEMMA FieldIsFound ==
    ASSUME NEW F, NEW p, Lists(p, F), NEW params, Shows(params, p, 0),
           NEW key, NEW val \in Texts, <<key, val>> \in F, \A x \in F : x[1] = key => x[2] = val
    PROVE  Lookup(params, key) = stripControl(val)
<1>1. /\ Len(p) \in Nat
      /\ \A i \in 1 .. Len(p) : p[i] \in F /\ stripControl(p[i][2]) # <<>>
      /\ \A x \in F : stripControl(x[2]) # <<>> => \E i \in 1 .. Len(p) : p[i] = x
  BY LenProperties DEF Lists
<1>2. /\ DOMAIN params = {<<p[j][1]>> : j \in 1 .. Len(p)}
      /\ \A j \in 1 .. Len(p) : params[<<p[j][1]>>] = stripControl(p[j][2])
  BY DEF Shows
<1>3. CASE <<key>> \in DOMAIN params
  <2>1. PICK j \in 1 .. Len(p) : <<key>> = <<p[j][1]>>
    BY <1>2, <1>3
  <2>2. p[j][1] = key
    BY <2>1
  <2>3. p[j][2] = val
    BY <1>1, <2>2
  <2> QED
    BY <1>2, <1>3, <2>1, <2>3 DEF Lookup
<1>4. CASE <<key>> \notin DOMAIN params
  <2>1. stripControl(val) = <<>>
    <3> SUFFICES ASSUME stripControl(val) # <<>>
                 PROVE  FALSE
      OBVIOUS
    <3>1. <<key, val>>[2] = val /\ <<key, val>>[1] = key
      OBVIOUS
    <3>2. PICK i \in 1 .. Len(p) : p[i] = <<key, val>>
      BY <1>1, <3>1
    <3> QED
      BY <1>2, <1>4, <3>1, <3>2
  <2> QED
    BY <1>4, <2>1 DEF Lookup
<1> QED
  BY <1>3, <1>4

(***************************************************************************)
(* The header, in pieces.                                                   *)
(***************************************************************************)
(* Separator, key and "=", and quoted value of the i-th parameter.          *)
Separator(i) == IF i = 1 THEN <<"space">> ELSE <<"comma", "space">>

KeyEquals(x) == <<x[1], "equals">>

ShownAt(set, i) == (Separator(i) \o KeyEquals(set[i])) \o quoteString(set[i][2])

ShownParameters(set) == [i \in DOMAIN set |-> ShownAt(set, i)]

(* The scheme that is shown, with its default.                              *)
SchemeOf(c) == Or(sanitizeScheme(c.scheme), <<"Bearer">>)

(* String renders the scheme, and then the parameters.                      *)
LEMMA RenderedIs ==
    ASSUME NEW c
    PROVE  Rendered(c) = SchemeOf(c) \o FlattenSeq(ShownParameters(Parameters(c)))
<1> DEFINE set == Parameters(c)
           Shown(i) == (IF i = 1 THEN <<"space">> ELSE <<"comma", "space">>)
                           \o <<set[i][1], "equals">> \o quoteString(set[i][2])
<1>1. \A i : Shown(i) = ShownAt(set, i)
  BY DEF ShownAt, Separator, KeyEquals
<1>2. [i \in DOMAIN set |-> Shown(i)] = ShownParameters(set)
  BY <1>1 DEF ShownParameters
<1> DEFINE z == IF sanitizeScheme(c.scheme) = <<>> THEN <<"Bearer">> ELSE sanitizeScheme(c.scheme)
<1>3. Rendered(c) = z \o FlattenSeq([i \in DOMAIN set |-> Shown(i)])
  BY DEF Rendered
<1>4. z = SchemeOf(c)
  BY DEF SchemeOf, Or
<1> QED
  BY <1>2, <1>3, <1>4

(* Two characters make a text of length two.                                *)
LEMMA PairText ==
    ASSUME NEW a \in Characters, NEW b \in Characters
    PROVE  <<a, b>> \in Texts /\ Len(<<a, b>>) = 2 /\ <<a, b>>[1] = a /\ <<a, b>>[2] = b
  BY DEF Texts

(* A scheme is a word.                                                      *)
LEMMA SchemeText ==
    ASSUME NEW c \in AnyChallenge
    PROVE  /\ SchemeOf(c) \in Texts /\ SchemeOf(c) # <<>>
           /\ \A i \in 1 .. Len(SchemeOf(c)) : SchemeOf(c)[i] \notin {"control", "space"}
<1>1. c.scheme \in Texts
  BY DEF AnyChallenge
<1>2. /\ sanitizeScheme(c.scheme) \in Texts
      /\ \A i \in 1 .. Len(sanitizeScheme(c.scheme)) :
            sanitizeScheme(c.scheme)[i] \notin {"control", "space"}
  BY <1>1, DroppedClean DEF sanitizeScheme
<1>3. /\ <<"Bearer">> \in Texts /\ <<"Bearer">> # <<>> /\ Len(<<"Bearer">>) = 1
      /\ <<"Bearer">>[1] = "Bearer"
  BY CharacterText, SpecialCharacters
<1>4. CASE sanitizeScheme(c.scheme) = <<>>
  <2>1. SchemeOf(c) = <<"Bearer">>
    BY <1>4 DEF SchemeOf, Or
  <2>2. \A i \in 1 .. 1 : <<"Bearer">>[i] \notin {"control", "space"}
    BY <1>3
  <2> QED
    BY <1>3, <2>1, <2>2
<1>5. CASE sanitizeScheme(c.scheme) # <<>>
  BY <1>2, <1>5 DEF SchemeOf, Or
<1> QED
  BY <1>4, <1>5

(* The scheme of a scheme is itself.                                        *)
LEMMA SchemeTwice ==
    ASSUME NEW c \in AnyChallenge, NEW d, d.scheme = SchemeOf(c)
    PROVE  SchemeOf(d) = SchemeOf(c)
<1>1. Dropped(SchemeOf(c), {"control", "space"}) = SchemeOf(c)
  BY SchemeText, DroppedNothing
<1> QED
  BY <1>1, SchemeText DEF SchemeOf, Or, sanitizeScheme

(* The first parameter follows a space, the others a comma and a space.     *)
LEMMA SeparatorText ==
    ASSUME NEW i
    PROVE  /\ Separator(i) \in Texts /\ Len(Separator(i)) = IF i = 1 THEN 1 ELSE 2
           /\ i = 1 => Separator(i)[1] = "space"
           /\ i # 1 => Separator(i)[1] = "comma" /\ Separator(i)[2] = "space"
<1>1. CASE i = 1
  <2>1. <<"space">> \in Texts /\ Len(<<"space">>) = 1 /\ <<"space">>[1] = "space"
    BY CharacterText, SpecialCharacters
  <2> QED
    BY <1>1, <2>1 DEF Separator
<1>2. CASE i # 1
  <2>1. <<"comma", "space">> \in Texts /\ Len(<<"comma", "space">>) = 2
        /\ <<"comma", "space">>[1] = "comma" /\ <<"comma", "space">>[2] = "space"
    BY PairText, SpecialCharacters
  <2> QED
    BY <1>2, <2>1 DEF Separator
<1> QED
  BY <1>1, <1>2

(* A parameter as it is shown: separator, key and "=", quoted value.        *)
LEMMA ShownText ==
    ASSUME NEW F, NEW set, Lists(set, F), NEW i \in 1 .. Len(set)
    PROVE  /\ Separator(i) \o KeyEquals(set[i]) \in Texts
           /\ Separator(i) \in Texts /\ KeyEquals(set[i]) \in Texts
           /\ Len(KeyEquals(set[i])) = 2 /\ set[i][1] \in Keys /\ set[i][2] \in Texts
           /\ KeyEquals(set[i])[1] = set[i][1] /\ KeyEquals(set[i])[2] = "equals"
           /\ quoteString(set[i][2]) \in Texts
           /\ ShownAt(set, i) \in Texts
           /\ Len(ShownAt(set, i)) = Len(Separator(i)) + 2 + Len(quoteString(set[i][2]))
           /\ Len(ShownAt(set, i)) \in Nat \ {0}
           /\ ShownAt(set, i)[1] = Separator(i)[1]
           /\ ShownAt(set, i)[Len(ShownAt(set, i))] = "quote"
<1> DEFINE a == Separator(i)
           b == KeyEquals(set[i])
           q == quoteString(set[i][2])
<1>1. set[i] \in Keys \X Texts
  BY ElementOfSeq DEF Lists
<1>2. set[i][1] \in Keys /\ set[i][2] \in Texts /\ Keys \subseteq Characters /\ "equals" \in Characters
  BY <1>1 DEF Characters
<1>3. b \in Texts /\ Len(b) = 2 /\ b[1] = set[i][1] /\ b[2] = "equals"
  BY <1>2, PairText DEF KeyEquals
<1>4. a \in Texts /\ Len(a) \in {1, 2}
  BY SeparatorText
<1>5. q \in Texts /\ Len(q) \in Nat /\ Len(q) >= 2 /\ q[Len(q)] = "quote"
  BY <1>2, QuotedText, TextLen
<1>6. ShownAt(set, i) = (a \o b) \o q
  BY DEF ShownAt
<1> HIDE DEF a, b, q
<1>7. a \o b \in Texts /\ Len(a \o b) = Len(a) + Len(b) /\ (a \o b)[1] = a[1]
  <2>1. a \o b \in Texts /\ Len(a \o b) = Len(a) + Len(b)
        /\ \A j \in 1 .. Len(a) : (a \o b)[j] = a[j]
    BY <1>3, <1>4, TextConcat
  <2>2. 1 \in 1 .. Len(a)
    BY <1>4
  <2> QED
    BY <2>1, <2>2
<1> DEFINE u == a \o b
<1> HIDE DEF u
<1>8. /\ u \o q \in Texts /\ Len(u \o q) = Len(u) + Len(q)
      /\ \A j \in 1 .. Len(u) : (u \o q)[j] = u[j]
      /\ \A j \in 1 .. Len(q) : (u \o q)[Len(u) + j] = q[j]
  BY <1>5, <1>7, TextConcat DEF u
<1>9. Len(u) \in Nat /\ Len(u) > 0 /\ Len(u) = Len(a) + 2 /\ u[1] = a[1]
  BY <1>3, <1>4, <1>7 DEF u
<1>10. (u \o q)[1] = a[1] /\ (u \o q)[Len(u \o q)] = "quote"
  BY <1>5, <1>8, <1>9
<1> QED
  BY <1>2, <1>3, <1>4, <1>5, <1>6, <1>7, <1>8, <1>9, <1>10 DEF a, b, q, u

(* The parameters as they are shown make a text.                            *)
LEMMA ShownParametersText ==
    ASSUME NEW F, NEW set, Lists(set, F)
    PROVE  /\ ShownParameters(set) \in [1 .. Len(set) -> Texts] /\ Len(set) \in Nat
           /\ \A i \in 1 .. Len(set) : ShownParameters(set)[i] = ShownAt(set, i)
           /\ FlattenSeq(ShownParameters(set)) \in Texts
           /\ Len(set) = 0 => FlattenSeq(ShownParameters(set)) = <<>>
<1>1. Len(set) \in Nat /\ DOMAIN set = 1 .. Len(set)
  BY LenProperties DEF Lists
<1>2. \A i \in 1 .. Len(set) : ShownAt(set, i) \in Texts
  BY ShownText
<1> DEFINE n == Len(set)
           p == ShownParameters(set)
<1>3. p \in [1 .. n -> Texts] /\ \A i \in 1 .. n : p[i] = ShownAt(set, i)
  BY <1>1, <1>2 DEF ShownParameters
<1> HIDE DEF n, p
<1>4. PICK f \in [0 .. n -> Texts] : f[0] = <<>> /\ f[n] = FlattenSeq(p)
  BY <1>1, <1>3, Pieces DEF n
<1> QED
  BY <1>1, <1>3, <1>4 DEF n, p

(***************************************************************************)
(* Where those pieces stand, and what is read there.                        *)
(***************************************************************************)
(* What stands behind position sp of h stands in the rest of h.             *)
LEMMA SuffixStands ==
    ASSUME NEW h \in Texts, NEW sp \in 0 .. Len(h), NEW w \in Texts,
           NEW i \in sp + 1 .. Len(h) + 1, Stands(w, h, i)
    PROVE  Stands(w, SubSeq(h, sp + 1, Len(h)), i - sp)
<1> DEFINE b == SubSeq(h, sp + 1, Len(h))
<1>1. Len(h) \in Nat /\ Len(w) \in Nat
  BY TextLen
<1>2. Len(b) = Len(h) - sp /\ \A k \in 1 .. Len(h) - sp : b[k] = h[sp + k]
  <2>1. sp + 1 \in 1 .. Len(h) + 1 /\ Len(h) \in 0 .. Len(h)
    BY <1>1
  <2>2. /\ Len(b) = IF sp + 1 <= Len(h) THEN Len(h) - (sp + 1) + 1 ELSE 0
        /\ \A k \in 1 .. Len(h) - (sp + 1) + 1 : b[k] = h[(sp + 1) + k - 1]
    BY <2>1, SubText
  <2>3. Len(h) - (sp + 1) + 1 = Len(h) - sp /\ Len(b) = Len(h) - sp
    BY <1>1, <2>2
  <2>4. ASSUME NEW k \in 1 .. Len(h) - sp
        PROVE  b[k] = h[sp + k]
    <3>1. (sp + 1) + k - 1 = sp + k
      BY <1>1
    <3>2. b[k] = h[(sp + 1) + k - 1]
      BY <2>2, <2>3
    <3> QED
      BY <3>1, <3>2
  <2> QED
    BY <2>3, <2>4
<1> HIDE DEF b
<1>3. i + Len(w) <= Len(h) + 1 /\ \A k \in 1 .. Len(w) : h[i + k - 1] = w[k]
  BY DEF Stands
<1>4. i - sp \in 1 .. Len(b) + 1 /\ (i - sp) + Len(w) <= Len(b) + 1
  BY <1>1, <1>2, <1>3
<1>5. ASSUME NEW k \in 1 .. Len(w)
      PROVE  b[(i - sp) + k - 1] = w[k]
  <2>1. (i - sp) + k - 1 \in 1 .. Len(h) - sp /\ sp + ((i - sp) + k - 1) = i + k - 1
    BY <1>1, <1>3
  <2> QED
    BY <1>2, <1>3, <2>1
<1> QED
  BY <1>4, <1>5 DEF Stands, b

(* Where the parameters of set are shown in h, behind the scheme z.         *)
HeaderPlaces(at, set, h, z) ==
    /\ Places(at, ShownParameters(set), Len(set), h, Len(z) + 1)
    /\ at[Len(set)] = Len(h) + 1

(* A header: a scheme, and the parameters of set after it.                  *)
LEMMA HeaderStands ==
    ASSUME NEW F, NEW set, Lists(set, F), NEW z \in Texts, NEW h, 
           h = z \o FlattenSeq(ShownParameters(set))
    PROVE  /\ h \in Texts /\ Stands(z, h, 1)
           /\ Len(set) = 0 => h = z
           /\ \E at : HeaderPlaces(at, set, h, z)
<1> DEFINE p == ShownParameters(set)
           w == FlattenSeq(p)
           n == Len(set)
<1>1. p \in [1 .. n -> Texts] /\ n \in Nat /\ w \in Texts
  BY ShownParametersText
<1>2. n = 0 => w = <<>>
  BY ShownParametersText
<1>3. h = z \o w
  OBVIOUS
<1> HIDE DEF p, n
<1>4. h \in Texts /\ Len(h) = Len(z) + Len(w)
  BY <1>1, <1>3, TextConcat
<1>5. Len(z) \in Nat /\ Len(w) \in Nat /\ Len(h) \in Nat
  BY <1>1, <1>4, TextLen
<1>6. Stands(h, h, 1)
  BY <1>5 DEF Stands
<1>7. Stands(z, h, 1) /\ Stands(w, h, 1 + Len(z))
  BY <1>1, <1>3, <1>4, <1>6, ConcatStands
<1>8. n = 0 => h = z
  BY <1>2, <1>3, ConcatEmptySeq DEF Texts
<1>9. PICK at : Places(at, p, n, h, 1 + Len(z))
  <2>1. 1 + Len(z) \in Nat
    BY <1>5
  <2> QED
    BY <1>1, <1>4, <1>7, <2>1, PiecesStand
<1>10. at[n] = Len(h) + 1 /\ 1 + Len(z) = Len(z) + 1
  BY <1>4, <1>5, <1>9 DEF Places
<1> QED
  <2>1. HeaderPlaces(at, set, h, z)
    BY <1>9, <1>10 DEF HeaderPlaces, p, n
  <2> QED
    BY <1>4, <1>7, <1>8, <2>1 DEF n

(* Where the parts of a header are found.                                   *)
LEMMA HeaderSplits ==
    ASSUME NEW F, NEW set, Lists(set, F), NEW z \in Texts, z # <<>>,
           \A i \in 1 .. Len(z) : z[i] # "space",
           NEW h, h = z \o FlattenSeq(ShownParameters(set))
    PROVE  /\ h \in Texts /\ h # <<>> /\ TrimSpace(h) = h
           /\ FirstIn(h, 1, {"space"}) = Len(z) + 1
           /\ SubSeq(h, 1, Len(z)) = z
<1> DEFINE n == Len(set)
           p == ShownParameters(set)
<1>1. h \in Texts /\ Stands(z, h, 1) /\ (n = 0 => h = z)
  BY HeaderStands
<1>2. PICK at : Places(at, p, n, h, Len(z) + 1) /\ at[n] = Len(h) + 1
  <2>1. PICK at : HeaderPlaces(at, set, h, z)
    BY HeaderStands
  <2> QED
    BY <2>1 DEF HeaderPlaces
<1>3. /\ n \in Nat
      /\ \A i \in 1 .. n : /\ Len(p[i]) \in Nat \ {0} /\ p[i][1] = Separator(i)[1]
                           /\ p[i][Len(p[i])] = "quote"
  <2>1. n \in Nat /\ \A i \in 1 .. n : p[i] = ShownAt(set, i)
    BY ShownParametersText
  <2>2. ASSUME NEW i \in 1 .. n
        PROVE  /\ Len(ShownAt(set, i)) \in Nat \ {0} /\ ShownAt(set, i)[1] = Separator(i)[1]
               /\ ShownAt(set, i)[Len(ShownAt(set, i))] = "quote"
    BY ShownText
  <2> QED
    BY <2>1, <2>2
<1>4. Len(z) \in Nat /\ Len(z) > 0 /\ Len(h) \in Nat
  BY <1>1, TextLen
<1> HIDE DEF n, p
<1>5. Len(z) <= Len(h) /\ \A k \in 1 .. Len(z) : h[k] = z[k]
  BY <1>1, <1>4 DEF Stands
<1>6. h # <<>> /\ h[1] # "space"
  BY <1>1, <1>4, <1>5, TextLen
<1>7. n # 0 => Len(z) < Len(h) /\ h[Len(h)] = "quote" /\ h[Len(z) + 1] = "space"
  <2> SUFFICES ASSUME n # 0
               PROVE  Len(z) < Len(h) /\ h[Len(h)] = "quote" /\ h[Len(z) + 1] = "space"
    OBVIOUS
  <2>1. n \in 1 .. n /\ 1 \in 1 .. n
    BY <1>3
  <2>2. /\ Stands(p[1], h, at[0]) /\ Stands(p[n], h, at[n - 1]) /\ at[0] = Len(z) + 1
        /\ at[n] = at[n - 1] + Len(p[n]) /\ at[n - 1] \in Nat
    <3>1. n - 1 \in 0 .. n /\ 1 - 1 = 0
      BY <1>3
    <3> QED
      BY <1>2, <2>1, <3>1 DEF Places
  <2>3. Len(p[1]) \in Nat /\ Len(p[1]) >= 1 /\ p[1][1] = "space"
    BY <1>3, <2>1, SeparatorText
  <2>4. Len(p[n]) \in Nat /\ Len(p[n]) >= 1 /\ p[n][Len(p[n])] = "quote"
    BY <1>3, <2>1
  <2>5. at[0] + Len(p[1]) <= Len(h) + 1 /\ \A k \in 1 .. Len(p[1]) : h[at[0] + k - 1] = p[1][k]
    BY <2>2 DEF Stands
  <2>6. \A k \in 1 .. Len(p[n]) : h[at[n - 1] + k - 1] = p[n][k]
    BY <2>2 DEF Stands
  <2>7. at[n - 1] + Len(p[n]) - 1 = Len(h) /\ at[0] + 1 - 1 = Len(z) + 1
    BY <1>2, <1>4, <2>2, <2>4
  <2>8. 1 \in 1 .. Len(p[1]) /\ Len(p[n]) \in 1 .. Len(p[n])
    BY <2>3, <2>4
  <2>9. h[at[0] + 1 - 1] = "space"
    BY <2>3, <2>5, <2>8
  <2>10. h[at[n - 1] + Len(p[n]) - 1] = "quote"
    BY <2>4, <2>6, <2>8
  <2>11. Len(z) < Len(h)
    <3>1. (Len(z) + 1) + Len(p[1]) <= Len(h) + 1
      BY <2>2, <2>5
    <3> QED
      <4> DEFINE l == Len(p[1])
                 y == Len(z)
                 x == Len(h)
      <4>1. l \in Nat /\ l >= 1 /\ y \in Nat /\ x \in Nat /\ (y + 1) + l <= x + 1
        BY <1>4, <2>3, <3>1
      <4> HIDE DEF l, x, y
      <4>2. y < x
        BY <4>1
      <4> QED
        BY <4>2 DEF x, y
  <2> QED
    BY <2>7, <2>9, <2>10, <2>11
<1>8. h[Len(h)] # "space"
  <2>1. CASE n = 0
    BY <1>1, <1>4, <2>1
  <2>2. CASE n # 0
    BY <1>7, <2>2
  <2> QED
    BY <2>1, <2>2
<1>9. TrimSpace(h) = h
  BY <1>1, <1>6, <1>8, NothingToTrim
<1>10. FirstIn(h, 1, {"space"}) = Len(z) + 1
  <2>1. 1 \in 1 .. Len(h) + 1 /\ Len(z) + 1 \in 1 .. Len(h) + 1
    BY <1>4, <1>5
  <2>2. \A j \in 1 .. (Len(z) + 1) - 1 : h[j] \notin {"space"}
    BY <1>4, <1>5
  <2>3. Len(z) + 1 <= Len(h) => h[Len(z) + 1] \in {"space"}
    BY <1>1, <1>4, <1>7
  <2> QED
    BY <1>1, <2>1, <2>2, <2>3, FirstInIs
<1>11. SubSeq(h, 1, Len(z)) = z
  <2>1. 1 \in 1 .. Len(h) + 1 /\ Len(z) \in 0 .. Len(h) /\ Len(z) - 1 + 1 = Len(z) /\ 1 <= Len(z)
    BY <1>4, <1>5
  <2>2. /\ SubSeq(h, 1, Len(z)) \in Texts
        /\ Len(SubSeq(h, 1, Len(z))) = IF 1 <= Len(z) THEN Len(z) - 1 + 1 ELSE 0
        /\ \A k \in 1 .. Len(z) - 1 + 1 : SubSeq(h, 1, Len(z))[k] = h[1 + k - 1]
    BY <1>1, <2>1, SubText
  <2>3. Len(SubSeq(h, 1, Len(z))) = Len(z)
    BY <2>1, <2>2
  <2>4. ASSUME NEW k \in 1 .. Len(z)
        PROVE  SubSeq(h, 1, Len(z))[k] = z[k]
    <3>1. 1 + k - 1 = k
      BY <1>4
    <3> QED
      BY <1>5, <2>1, <2>2, <3>1
  <2> QED
    BY <2>2, <2>3, <2>4, SeqEqual DEF Texts
<1> QED
  BY <1>1, <1>6, <1>9, <1>10, <1>11

(* The m-th parameter, which stands in h at a, is read from where the one   *)
(* before it ended, or from the beginning, in what follows position sp.     *)
NextStands(set, m, h, sp, a, i) ==
    /\ m \in 1 .. Len(set) /\ a \in Nat /\ Stands(ShownAt(set, m), h, a)
    /\ IF m = 1 THEN a = sp /\ i = 1 ELSE a > sp /\ i = a - sp

(* What is read there is the m-th parameter.                                *)
LEMMA ParameterStands ==
    ASSUME NEW F, NEW set, Lists(set, F), NEW h \in Texts, NEW sp \in 0 .. Len(h),
           NEW m, NEW a, NEW i, NextStands(set, m, h, sp, a, i)
    PROVE  Reads(SubSeq(h, sp + 1, Len(h)), i, set[m], (a + Len(ShownAt(set, m))) - sp)
<1> SUFFICES ASSUME m \in 1 .. Len(set), a \in Nat, Stands(ShownAt(set, m), h, a),
                    m = 1 => a = sp, m # 1 => a > sp, i = IF m = 1 THEN 1 ELSE a - sp,
                    NEW s, s = SubSeq(h, sp + 1, Len(h)), NEW g
             PROVE  FromStep(s, g, i) =
                        Param(<<set[m][1]>>, stripControl(set[m][2]),
                              g[(a + Len(ShownAt(set, m))) - sp])
  BY DEF NextStands, Reads
<1> DEFINE sep == Separator(m)
           ke == KeyEquals(set[m])
           k == set[m][1]
           v == set[m][2]
           q == quoteString(v)
           L == Len(sep)
           start == (a + L) - sp
<1>1. /\ sep \o ke \in Texts /\ sep \in Texts /\ ke \in Texts /\ q \in Texts /\ v \in Texts
      /\ Len(ke) = 2 /\ ke[1] = k /\ ke[2] = "equals" /\ k \in Keys
      /\ Len(ShownAt(set, m)) = L + 2 + Len(q)
  BY ShownText
<1>2. /\ L = IF m = 1 THEN 1 ELSE 2
      /\ m # 1 => sep[1] = "comma" /\ sep[2] = "space"
  BY SeparatorText
<1>3. k \in Characters /\ k \notin {"space", "comma", "equals"}
  BY <1>1 DEF Keys, Characters
<1>4. Len(h) \in Nat /\ Len(q) \in Nat /\ L \in {1, 2} /\ sp \in Nat
  BY <1>1, <1>2, TextLen
<1>5. Stands((sep \o ke) \o q, h, a)
  BY DEF ShownAt
<1> HIDE DEF sep, ke, k, v, q
<1>6. Len(sep \o ke) = L + 2
  <2>1. Len(sep \o ke) = Len(sep) + Len(ke) /\ Len(ke) = 2
    BY <1>1, TextConcat
  <2> QED
    BY <2>1
<1>7. Stands(sep \o ke, h, a) /\ Stands(q, h, a + (L + 2))
  BY <1>1, <1>5, <1>6, ConcatStands
<1>8. Stands(sep, h, a) /\ Stands(ke, h, a + L)
  BY <1>1, <1>7, ConcatStands
<1>9. Stands(ke, s, start)
  <2>1. a + L \in sp + 1 .. Len(h) + 1
    <3>1. a + L \in 1 .. Len(h) + 1
      BY <1>8 DEF Stands
    <3>2. a + L >= sp + 1
      BY <1>2, <1>4
    <3> QED
      BY <1>4, <3>1, <3>2
  <2> HIDE DEF L
  <2> QED
    BY <1>1, <1>8, <2>1, SuffixStands
<1>10. Stands(q, s, start + 2)
  <2>1. a + (L + 2) \in sp + 1 .. Len(h) + 1 /\ (a + (L + 2)) - sp = start + 2
    BY <1>1, <1>4, <1>7 DEF Stands
  <2>2. Stands(q, s, (a + (L + 2)) - sp)
    <3> HIDE DEF L
    <3> QED
      BY <1>1, <1>7, <2>1, SuffixStands
  <2> QED
    BY <2>1, <2>2
<1>11. s \in Texts
  <2>1. sp + 1 \in 1 .. Len(h) + 1 /\ Len(h) \in 0 .. Len(h)
    BY <1>4
  <2> QED
    BY <2>1, SubText
<1>12. Len(s) \in Nat
  BY <1>11, TextLen
<1> HIDE DEF L
<1>13. start \in Nat /\ start >= 1 /\ start + 2 <= Len(s) + 1 /\ s[start] = k /\ s[start + 1] = "equals"
  <2>1. start \in Nat /\ start \in 1 .. Len(s) + 1 /\ start + 2 <= Len(s) + 1
    BY <1>1, <1>4, <1>9, <1>12 DEF Stands
  <2> HIDE DEF start
  <2>2. s[start + 1 - 1] = ke[1] /\ s[start + 2 - 1] = ke[2]
    BY <1>1, <1>9 DEF Stands
  <2> QED
    BY <1>1, <2>1, <2>2
<1>14. i \in Nat /\ i >= 1 /\ i <= start /\ \A j \in i .. start - 1 : s[j] \in {"space", "comma"}
  <2>1. CASE m = 1
    <3>1. i = 1 /\ start = 1
      BY <1>2, <1>4, <2>1
    <3> QED
      BY <3>1
  <2>2. CASE m # 1
    <3>1. i = a - sp /\ i \in Nat /\ i >= 1 /\ start = i + 2 /\ L = 2
      BY <1>2, <1>4, <2>2
    <3>2. a \in sp + 1 .. Len(h) + 1
      BY <1>4, <1>8, <2>2 DEF Stands
    <3>3. Stands(sep, s, i)
      BY <1>1, <1>8, <3>1, <3>2, SuffixStands
    <3> HIDE DEF start
    <3>4. s[i + 1 - 1] = sep[1] /\ s[i + 2 - 1] = sep[2]
      BY <3>1, <3>3 DEF Stands, L
    <3>5. s[i] = "comma" /\ s[i + 1] = "space"
      <4>1. i + 1 - 1 = i /\ i + 2 - 1 = i + 1
        BY <3>1
      <4> QED
        BY <1>2, <2>2, <3>4, <4>1
    <3>6. i <= start /\ \A j \in i .. start - 1 : j = i \/ j = i + 1
      <4>1. start - 1 = i + 1
        BY <3>1
      <4> QED
        BY <3>1, <4>1
    <3> QED
      BY <3>1, <3>5, <3>6
  <2> QED
    BY <2>1, <2>2
<1>15. (a + Len(ShownAt(set, m))) - sp = start + 2 + Len(q)
  BY <1>1, <1>4
<1> HIDE DEF start
<1>16. i \in 1 .. Len(s) + 1 /\ start \in i .. Len(s) /\ start < Len(s)
  BY <1>12, <1>13, <1>14
<1>17. FromStep(s, g, i) = Param(<<k>>, stripControl(v), g[start + 2 + Len(q)])
  <2>1. Stands(quoteString(v), s, start + 2) /\ q = quoteString(v)
    BY <1>10 DEF q
  <2>2. \A j \in i .. start - 1 : s[j] \in {"space", "comma"}
    BY <1>14
  <2>3. s[start] = k /\ s[start + 1] = "equals" /\ v \in Texts
    BY <1>1, <1>13
  <2>4. FromStep(s, g, i) = Param(<<k>>, stripControl(v), g[start + 2 + Len(quoteString(v))])
    <3>1. ParameterAt(s, i, start, k, v)
      BY <1>3, <1>16, <2>1, <2>2, <2>3 DEF ParameterAt
    <3> QED
      BY <1>3, <1>11, <2>3, <3>1, ParameterIsRead
  <2> QED
    BY <2>1, <2>4
<1> QED
  BY <1>15, <1>17 DEF k, v

(* What String renders as a header's parameters is what ParseChallenge      *)
(* reads in them.                                                           *)
LEMMA HeaderIsRead ==
    ASSUME NEW F, NEW set, Lists(set, F), NEW z \in Texts, z # <<>>,
           \A i \in 1 .. Len(z) : z[i] # "space",
           NEW h, h = z \o FlattenSeq(ShownParameters(set))
    PROVE  Shows(ParamsFrom(SubSeq(h, (Len(z) + 1) + 1, Len(h))), set, 0)
<1> DEFINE n == Len(set)
           p == ShownParameters(set)
           sp == Len(z) + 1
           s == SubSeq(h, sp + 1, Len(h))
<1>1. h \in Texts /\ Stands(z, h, 1) /\ (n = 0 => h = z)
  BY HeaderStands
<1>2. PICK at : Places(at, p, n, h, sp) /\ at[n] = Len(h) + 1
  <2>1. PICK at : HeaderPlaces(at, set, h, z)
    BY HeaderStands
  <2> QED
    BY <2>1 DEF HeaderPlaces
<1>3. n \in Nat /\ \A m \in 1 .. n : p[m] = ShownAt(set, m)
  BY ShownParametersText
<1>4. Len(z) \in Nat /\ Len(h) \in Nat /\ sp \in Nat /\ Len(z) <= Len(h)
  <2>1. Len(z) \in Nat /\ Len(h) \in Nat
    BY <1>1, TextLen
  <2> QED
    BY <1>1, <2>1 DEF Stands
<1>5. CASE n = 0
  <2>1. sp + 1 > Len(h) /\ h = z /\ sp + 1 \in Int /\ Len(h) \in Int
    BY <1>1, <1>4, <1>5
  <2>2. s = <<>> /\ s \in Texts /\ Len(s) = 0
    BY <2>1, SubSeqEmpty, EmptySeq DEF Texts
  <2> DEFINE pos == [m \in 0 .. n |-> 1]
  <2>3. /\ pos[0] = 1 /\ pos[n] = Len(s) + 1
        /\ \A m \in 0 .. n : pos[m] \in 1 .. Len(s) + 1
    BY <1>5, <2>2
  <2>4. \A m \in 1 .. n : Reads(s, pos[m - 1], set[m], pos[m])
    BY <1>5
  <2> HIDE DEF pos, s
  <2>5. Shows(ParamsFrom(s), set, 0)
    BY <2>2, <2>3, <2>4, BodyIsRead
  <2> QED
    BY <2>5 DEF s, sp
<1>6. CASE n # 0
  <2>1. /\ at \in [0 .. n -> Nat] /\ at[0] = sp /\ \A m \in 0 .. n : at[m] >= sp
        /\ \A m \in 1 .. n : /\ Stands(ShownAt(set, m), h, at[m - 1])
                             /\ at[m] = at[m - 1] + Len(ShownAt(set, m))
    BY <1>2, <1>3 DEF Places
  <2>2. \A m \in 1 .. n : Len(ShownAt(set, m)) \in Nat \ {0}
    BY ShownText
  <2>3. \A m \in 1 .. n : at[m] > sp
    <3> HIDE DEF p, n, sp, s
    <3> TAKE m \in 1 .. n
    <3>1. m - 1 \in 0 .. n /\ m \in 0 .. n
      BY <1>3
    <3> QED
      BY <1>4, <2>1, <2>2, <3>1
  <2>4. n \in 1 .. n /\ at[n] > sp
    BY <1>3, <1>6, <2>3
  <2>5. sp <= Len(h) /\ sp \in 0 .. Len(h)
    <3> HIDE DEF sp, n
    <3> QED
      BY <1>2, <1>4, <2>4
  <2>6. s \in Texts /\ Len(s) = Len(h) - sp
    <3>1. sp + 1 \in 1 .. Len(h) + 1 /\ Len(h) \in 0 .. Len(h)
      BY <1>4, <2>5
    <3>2. s \in Texts /\ Len(s) = IF sp + 1 <= Len(h) THEN Len(h) - (sp + 1) + 1 ELSE 0
      BY <1>1, <3>1, SubText
    <3> HIDE DEF sp, s
    <3> QED
      BY <1>4, <2>5, <3>2
  <2> DEFINE pos == [m \in 0 .. n |-> IF m = 0 THEN 1 ELSE at[m] - sp]
  <2> HIDE DEF s, sp, p, n
  <2>7. /\ pos[0] = 1 /\ pos[n] = Len(s) + 1
        /\ \A m \in 1 .. n : pos[m] = at[m] - sp
    BY <1>2, <1>3, <1>4, <1>6, <2>1, <2>6
  <2>8. \A m \in 0 .. n : at[m] <= Len(h) + 1
    <3> DEFINE T == {m \in 0 .. n : at[m] <= Len(h) + 1}
    <3>1. n \in T
      BY <1>2, <1>3, <1>4
    <3>2. ASSUME NEW m \in 1 .. n, m \in T
          PROVE  m - 1 \in T
      <4>1. /\ m - 1 \in 0 .. n /\ at[m] = at[m - 1] + Len(ShownAt(set, m)) /\ at[m - 1] \in Nat
            /\ Len(ShownAt(set, m)) \in Nat /\ at[m] <= Len(h) + 1
        BY <1>3, <2>1, <2>2, <3>2
      <4>2. at[m - 1] <= Len(h) + 1
        BY <1>4, <4>1
      <4> QED
        BY <4>1, <4>2
    <3> HIDE DEF T
    <3>3. \A m \in 0 .. n : m \in T
      BY <1>3, <3>1, <3>2, Downwards
    <3> QED
      BY <3>3 DEF T
  <2>9. \A m \in 0 .. n : pos[m] \in 1 .. Len(s) + 1
    <3> TAKE m \in 0 .. n
    <3>1. CASE m = 0
      BY <1>4, <2>5, <2>6, <2>7, <3>1
    <3>2. CASE m # 0
      <4>1. m \in 1 .. n /\ at[m] \in Nat /\ at[m] > sp /\ at[m] <= Len(h) + 1
        BY <2>1, <2>3, <2>8, <3>2
      <4> QED
        BY <1>4, <2>6, <2>7, <4>1
    <3> QED
      BY <3>1, <3>2
  <2>10. ASSUME NEW m \in 1 .. n
         PROVE  Reads(s, pos[m - 1], set[m], pos[m])
    <3>1. /\ m - 1 \in 0 .. n /\ at[m - 1] \in Nat /\ at[m] = at[m - 1] + Len(ShownAt(set, m))
          /\ Stands(ShownAt(set, m), h, at[m - 1]) /\ pos[m] = at[m] - sp
          /\ (m = 1 => at[m - 1] = sp)
      BY <1>3, <2>1, <2>7
    <3>2. m # 1 => at[m - 1] > sp
      BY <1>3, <2>3
    <3>3. pos[m - 1] = IF m = 1 THEN 1 ELSE at[m - 1] - sp
      BY <1>3, <2>7
    <3>4. s = SubSeq(h, sp + 1, Len(h))
      BY DEF s
    <3> HIDE DEF pos
    <3>5. NextStands(set, m, h, sp, at[m - 1], pos[m - 1])
      BY <3>1, <3>2, <3>3 DEF n, NextStands
    <3>6. Reads(SubSeq(h, sp + 1, Len(h)), pos[m - 1], set[m],
                (at[m - 1] + Len(ShownAt(set, m))) - sp)
      BY <1>1, <2>5, <3>5, ParameterStands
    <3> QED
      BY <3>1, <3>4, <3>6
  <2>11. Shows(ParamsFrom(s), set, 0)
    BY <2>6, <2>7, <2>9, <2>10, BodyIsRead DEF n
  <2> QED
    BY <2>11 DEF s, sp
<1> QED
  BY <1>5, <1>6

(***************************************************************************)
(* The round trip.                                                          *)
(***************************************************************************)
(* ParseChallenge reads what String rendered: every field as it was but for *)
(* its control characters, and the scheme without its spaces, whatever the  *)
(* lengths and the characters (challenge.go:64-106, 253-283, 297-301).      *)
THEOREM RoundTrip ==
    ASSUME NEW c \in AnyChallenge
    PROVE  /\ Rendered(c) \in Texts /\ TrimSpace(Rendered(c)) # <<>>
           /\ Parsed(Rendered(c)) =
                [scheme |-> SchemeOf(c), error |-> stripControl(c.error),
                 description |-> stripControl(c.description), scope |-> stripControl(c.scope),
                 metadata |-> stripControl(c.metadata), realm |-> stripControl(c.realm),
                 status |-> 0]
<1> DEFINE h == Rendered(c)
           z == SchemeOf(c)
           set == Parameters(c)
           F == Fields(c)
           sp == FirstIn(h, 1, {"space"})
           params == ParamsFrom(SubSeq(h, sp + 1, Len(h)))
<1>1. Lists(set, F)
  BY ParametersList
<1>2. /\ z \in Texts /\ z # <<>> /\ \A i \in 1 .. Len(z) : z[i] # "space"
  BY SchemeText
<1>3. h = z \o FlattenSeq(ShownParameters(set))
  BY RenderedIs
<1> HIDE DEF h, z, set, F
<1>4. h \in Texts /\ h # <<>> /\ TrimSpace(h) = h /\ sp = Len(z) + 1 /\ SubSeq(h, 1, Len(z)) = z
  BY <1>1, <1>2, <1>3, HeaderSplits
<1>5. Shows(params, set, 0)
  BY <1>1, <1>2, <1>3, <1>4, HeaderIsRead
<1>6. sp - 1 = Len(z)
  BY <1>2, <1>4, TextLen
<1>7. Parsed(h) =
        [scheme |-> SubSeq(h, 1, sp - 1), error |-> Lookup(params, "error"),
         description |-> Lookup(params, "error_description"), scope |-> Lookup(params, "scope"),
         metadata |-> Lookup(params, "resource_metadata"), realm |-> Lookup(params, "realm"),
         status |-> 0]
  BY <1>4 DEF Parsed
<1> HIDE DEF params, sp
<1>8. /\ c.realm \in Texts /\ c.error \in Texts /\ c.description \in Texts
      /\ c.scope \in Texts /\ c.metadata \in Texts
  BY DEF AnyChallenge
<1>9. Lookup(params, "error") = stripControl(c.error)
  <2>1. <<"error", c.error>> \in F /\ \A x \in F : x[1] = "error" => x[2] = c.error
    BY DEF F, Fields
  <2> QED
    BY <1>1, <1>5, <1>8, <2>1, FieldIsFound
<1>10. Lookup(params, "error_description") = stripControl(c.description)
  <2>1. /\ <<"error_description", c.description>> \in F
        /\ \A x \in F : x[1] = "error_description" => x[2] = c.description
    BY DEF F, Fields
  <2> QED
    BY <1>1, <1>5, <1>8, <2>1, FieldIsFound
<1>11. Lookup(params, "scope") = stripControl(c.scope)
  <2>1. <<"scope", c.scope>> \in F /\ \A x \in F : x[1] = "scope" => x[2] = c.scope
    BY DEF F, Fields
  <2> QED
    BY <1>1, <1>5, <1>8, <2>1, FieldIsFound
<1>12. Lookup(params, "resource_metadata") = stripControl(c.metadata)
  <2>1. /\ <<"resource_metadata", c.metadata>> \in F
        /\ \A x \in F : x[1] = "resource_metadata" => x[2] = c.metadata
    BY DEF F, Fields
  <2> QED
    BY <1>1, <1>5, <1>8, <2>1, FieldIsFound
<1>13. Lookup(params, "realm") = stripControl(c.realm)
  <2>1. <<"realm", c.realm>> \in F /\ \A x \in F : x[1] = "realm" => x[2] = c.realm
    BY DEF F, Fields
  <2> QED
    BY <1>1, <1>5, <1>8, <2>1, FieldIsFound
<1>14. SubSeq(h, 1, sp - 1) = z
  BY <1>4, <1>6
<1> QED
  BY <1>4, <1>7, <1>9, <1>10, <1>11, <1>12, <1>13, <1>14 DEF h, z

(* Parameters that are shown alike.                                         *)
LookAlike(p, q) ==
    /\ p \in Seq(Keys \X Texts) /\ q \in Seq(Keys \X Texts) /\ Len(p) = Len(q)
    /\ \A i \in 1 .. Len(p) : p[i][1] = q[i][1] /\ quoteString(p[i][2]) = quoteString(q[i][2])

(* One more field and the same without its control characters.              *)
LEMMA AddedLookAlike ==
    ASSUME NEW p, NEW q, LookAlike(p, q), NEW key \in Keys, NEW v \in Texts
    PROVE  LookAlike(p \o Added(key, v), q \o Added(key, stripControl(v)))
<1> DEFINE S == Keys \X Texts
           w == stripControl(v)
<1>1. /\ p \in Seq(S) /\ q \in Seq(S) /\ Len(p) \in Nat /\ Len(q) = Len(p)
      /\ \A i \in 1 .. Len(p) : p[i][1] = q[i][1] /\ quoteString(p[i][2]) = quoteString(q[i][2])
  BY LenProperties DEF LookAlike
<1>2. w \in Texts /\ stripControl(w) = w
  BY StrippedText
<1>3. quoteString(w) = quoteString(v)
  BY <1>2 DEF quoteString
<1>4. CASE w = <<>>
  <2>1. Added(key, v) = <<>> /\ Added(key, w) = <<>>
    BY <1>2, <1>4 DEF Added
  <2>2. p \o <<>> = p /\ q \o <<>> = q
    BY <1>1, ConcatEmptySeq
  <2> QED
    BY <2>1, <2>2
<1>5. CASE w # <<>>
  <2> DEFINE x == <<key, v>>
             y == <<key, w>>
             n == Len(p)
  <2>1. p \o Added(key, v) = p \o <<x>> /\ q \o Added(key, w) = q \o <<y>>
    BY <1>2, <1>5 DEF Added
  <2>2. x \in S /\ y \in S /\ x[1] = key /\ x[2] = v /\ y[1] = key /\ y[2] = w
    BY <1>2
  <2> HIDE DEF S, x, y, w
  <2>3. /\ <<x>> \in Seq(S) /\ Len(<<x>>) = 1 /\ <<x>>[1] = x
        /\ <<y>> \in Seq(S) /\ Len(<<y>>) = 1 /\ <<y>>[1] = y
    BY <2>2
  <2> DEFINE px == p \o <<x>>
             qy == q \o <<y>>
  <2>4. /\ px \in Seq(S) /\ Len(px) = n + 1
        /\ \A i \in 1 .. n + 1 : px[i] = IF i <= n THEN p[i] ELSE <<x>>[i - n]
    BY <1>1, <2>3, ConcatProperties
  <2>5. /\ qy \in Seq(S) /\ Len(qy) = n + 1
        /\ \A i \in 1 .. n + 1 : qy[i] = IF i <= n THEN q[i] ELSE <<y>>[i - n]
    BY <1>1, <2>3, ConcatProperties
  <2> HIDE DEF px, qy
  <2>6. ASSUME NEW i \in 1 .. n + 1
        PROVE  px[i][1] = qy[i][1] /\ quoteString(px[i][2]) = quoteString(qy[i][2])
    <3>1. CASE i <= n
      <4>1. i \in 1 .. Len(p) /\ px[i] = p[i] /\ qy[i] = q[i]
        BY <1>1, <2>4, <2>5, <3>1
      <4> QED
        BY <1>1, <4>1
    <3>2. CASE i = n + 1
      <4>1. px[i] = x /\ qy[i] = y
        <5>1. ~(i <= n) /\ i - n = 1
          BY <1>1, <3>2
        <5>2. px[i] = <<x>>[i - n] /\ qy[i] = <<y>>[i - n]
          BY <2>4, <2>5, <5>1
        <5> QED
          BY <2>3, <5>1, <5>2
      <4> QED
        BY <1>3, <2>2, <4>1
    <3> QED
      BY <1>1, <3>1, <3>2
  <2>7. LookAlike(px, qy)
    BY <2>4, <2>5, <2>6 DEF LookAlike, S
  <2> QED
    BY <2>1, <2>7 DEF px, qy, w
<1> QED
  BY <1>4, <1>5

(* What looks alike is rendered alike.                                      *)
LEMMA LookAlikeShown ==
    ASSUME NEW p, NEW q, LookAlike(p, q)
    PROVE  ShownParameters(p) = ShownParameters(q)
<1>1. /\ Len(p) \in Nat /\ DOMAIN p = 1 .. Len(p) /\ DOMAIN q = 1 .. Len(p)
      /\ \A i \in 1 .. Len(p) : p[i][1] = q[i][1] /\ quoteString(p[i][2]) = quoteString(q[i][2])
  BY LenProperties DEF LookAlike
<1>2. \A i \in 1 .. Len(p) : ShownAt(p, i) = ShownAt(q, i)
  BY <1>1 DEF ShownAt, KeyEquals
<1> QED
  BY <1>1, <1>2 DEF ShownParameters

(* Rendering is a fixpoint: to parse what String rendered and render it     *)
(* again yields the same header (challenge.go:75-79, 87-91).                *)
THEOREM RenderingIsAFixpoint ==
    ASSUME NEW c \in AnyChallenge
    PROVE  Rendered(Parsed(Rendered(c))) = Rendered(c)
<1> DEFINE d == Parsed(Rendered(c))
<1>1. /\ d.scheme = SchemeOf(c) /\ d.error = stripControl(c.error)
      /\ d.description = stripControl(c.description) /\ d.scope = stripControl(c.scope)
      /\ d.metadata = stripControl(c.metadata) /\ d.realm = stripControl(c.realm)
  BY RoundTrip
<1> HIDE DEF d
<1>2. SchemeOf(d) = SchemeOf(c)
  BY <1>1, SchemeTwice
<1>3. LookAlike(Parameters(c), Parameters(d))
  <2>1. /\ c.realm \in Texts /\ c.error \in Texts /\ c.description \in Texts
        /\ c.scope \in Texts /\ c.metadata \in Texts
    BY DEF AnyChallenge
  <2>2. /\ "realm" \in Keys /\ "error" \in Keys /\ "error_description" \in Keys
        /\ "scope" \in Keys /\ "resource_metadata" \in Keys
    BY DEF Keys
  <2> DEFINE p1 == Added("realm", c.realm)
             p2 == p1 \o Added("error", c.error)
             p3 == p2 \o Added("error_description", c.description)
             p4 == p3 \o Added("scope", c.scope)
             q1 == Added("realm", d.realm)
             q2 == q1 \o Added("error", d.error)
             q3 == q2 \o Added("error_description", d.description)
             q4 == q3 \o Added("scope", d.scope)
  <2>3. LookAlike(p1, q1)
    <3> DEFINE S == Keys \X Texts
    <3>1. <<>> \in Seq(S) /\ Len(<<>>) = 0
      BY EmptySeq
    <3>2. LookAlike(<<>>, <<>>)
      BY <3>1 DEF LookAlike
    <3>3. LookAlike(<<>> \o p1, <<>> \o q1)
      BY <1>1, <2>1, <2>2, <3>2, AddedLookAlike
    <3>4. \A v \in Texts : Added("realm", v) \in Seq(S)
      <4> SUFFICES ASSUME NEW v \in Texts PROVE Added("realm", v) \in Seq(S)
        OBVIOUS
      <4> DEFINE x == <<"realm", v>>
      <4>1. x \in S
        BY <2>2
      <4> HIDE DEF x, S
      <4>2. <<x>> \in Seq(S)
        BY <4>1
      <4> QED
        BY <3>1, <4>2 DEF Added, x
    <3>5. p1 \in Seq(S) /\ q1 \in Seq(S)
      BY <1>1, <2>1, <3>4, StrippedText
    <3>6. <<>> \o p1 = p1 /\ <<>> \o q1 = q1
      BY <3>5, ConcatEmptySeq
    <3> QED
      BY <3>3, <3>6
  <2> HIDE DEF p1, q1
  <2>4. LookAlike(p2, q2)
    BY <1>1, <2>1, <2>2, <2>3, AddedLookAlike
  <2> HIDE DEF p2, q2
  <2>5. LookAlike(p3, q3)
    BY <1>1, <2>1, <2>2, <2>4, AddedLookAlike
  <2> HIDE DEF p3, q3
  <2>6. LookAlike(p4, q4)
    BY <1>1, <2>1, <2>2, <2>5, AddedLookAlike
  <2> HIDE DEF p4, q4
  <2>7. LookAlike(p4 \o Added("resource_metadata", c.metadata),
                  q4 \o Added("resource_metadata", d.metadata))
    BY <1>1, <2>1, <2>2, <2>6, AddedLookAlike
  <2> QED
    BY <2>7 DEF Parameters, p1, p2, p3, p4, q1, q2, q3, q4
<1>4. ShownParameters(Parameters(c)) = ShownParameters(Parameters(d))
  BY <1>3, LookAlikeShown
<1> QED
  BY <1>2, <1>4, RenderedIs DEF d
=================================================================================
