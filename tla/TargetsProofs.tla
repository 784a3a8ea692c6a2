---------------------------- MODULE TargetsProofs ----------------------------
(* What the stores hold, whatever the names of tasks and templates are made  *)
(* of: no two objects in one place, each made by a run of a task at a time   *)
(* that has been and named as ObjectName names it; and so where a retention  *)
(* finds it, what a restore sends, and what a run takes away.  The sections  *)
(* before the objects are about sequences and the operators of ObjectNames.  *)
EXTENDS Targets, FiniteSetTheorems, SequenceTheorems, TLAPS

----------------------------------------------------------------------------
(* Induction.                                                               *)

LessThan == {p \in Nat \X Nat : p[1] < p[2]}

\* The order of the natural numbers.
LEMMA LessIsWellFounded == IsWellFoundedOn(LessThan, Nat)
  BY NatLessThanWellFounded DEF OpToRel, LessThan

\* A set of natural numbers has a least one.
LEMMA LeastOf ==
    ASSUME NEW S, S \subseteq Nat, S # {}
    PROVE  \E x \in S : \A y \in S : x <= y
  <1>1. PICK x \in S : \A y \in S : ~(<<y, x>> \in LessThan)
    BY LessIsWellFounded, WFMin
  <1>2. \A y \in S : x <= y
    <2> TAKE y \in S
    <2>1. x \in Nat /\ y \in Nat /\ (y < x => <<y, x>> \in LessThan)
      BY DEF LessThan
    <2> QED BY <1>1, <2>1
  <1> QED BY <1>2

\* What holds of 0, and of each number's successor with it, holds of all.
LEMMA Inductive ==
    ASSUME NEW S, 0 \in S, \A n \in Nat : n \in S => n + 1 \in S
    PROVE  Nat \subseteq S
  <1> SUFFICES ASSUME Nat \ S # {}
               PROVE  FALSE
    OBVIOUS
  <1>1. PICK x \in Nat \ S : \A y \in Nat \ S : x <= y
    <2> Nat \ S \subseteq Nat
      OBVIOUS
    <2> HIDE DEF LessThan
    <2> QED BY LeastOf
  <1>2. x \in Nat /\ x # 0 /\ x - 1 \in Nat
    BY <1>1
  <1>3. x - 1 \in S
    BY <1>1, <1>2
  <1> QED BY <1>1, <1>2, <1>3

\* Likewise of sequences that are added to.
LEMMA InductiveSeq ==
    ASSUME NEW T, NEW S, <<>> \in S, \A s \in Seq(T), x \in T : s \in S => Append(s, x) \in S
    PROVE  Seq(T) \subseteq S
  <1> DEFINE N == {n \in Nat : \A s \in Seq(T) : Len(s) = n => s \in S}
  <1>1. 0 \in N
    BY EmptySeq
  <1>2. ASSUME NEW n \in Nat, n \in N
        PROVE  n + 1 \in N
    <2> SUFFICES ASSUME NEW s \in Seq(T), Len(s) = n + 1
                 PROVE  s \in S
      OBVIOUS
    <2>1. s # <<>>
      BY EmptySeq
    <2>2. PICK f \in Seq(T), x \in T : s = Append(f, x)
      BY <2>1, SequenceEmptyOrAppend
    <2>3. Len(s) = Len(f) + 1 /\ Len(f) \in Nat
      BY <2>2, AppendProperties, LenProperties
    <2>4. f \in S
      BY <1>2, <2>3
    <2> QED BY <2>2, <2>4
  <1> HIDE DEF N
  <1>3. Nat \subseteq N
    BY <1>1, <1>2, Inductive
  <1> QED BY <1>3, LenProperties DEF N

\* The least and the greatest of some numbers up to n.
LEMMA MinOf ==
    ASSUME NEW n \in Nat, NEW S, S \subseteq 1..n, S # {}
    PROVE  Min(S) \in S /\ \A y \in S : Min(S) <= y
  <1>1. S \subseteq Nat
    OBVIOUS
  <1>2. \E x \in S : \A y \in S : x <= y
    BY <1>1, LeastOf
  <1> QED BY <1>2 DEF Min

\* A set of numbers from 1 to n has a greatest.
LEMMA MaxOf ==
    ASSUME NEW n \in Nat, NEW S, S \subseteq 1..n, S # {}
    PROVE  Max(S) \in S /\ \A y \in S : Max(S) >= y
  <1> DEFINE R == {n - y : y \in S}
  <1>0. \A y \in S : y \in Nat /\ n - y \in Nat /\ n - y \in R
    OBVIOUS
  <1>1. R \subseteq Nat /\ R # {}
    BY <1>0
  <1> HIDE DEF R
  <1>2. PICK r \in R : \A q \in R : r <= q
    BY <1>1, LeastOf
  <1>3. PICK x \in S : r = n - x
    BY <1>2 DEF R
  <1>4. \A y \in S : x >= y
    <2> TAKE y \in S
    <2>1. x \in Nat /\ y \in Nat /\ n - y \in R /\ r = n - x
      BY <1>0, <1>3
    <2>2. n - x <= n - y
      BY <1>2, <2>1, SMTT(40)
    <2> QED BY <2>1, <2>2
  <1> QED BY <1>4 DEF Max

----------------------------------------------------------------------------
(* Sequences put together.                                                  *)

\* The function in the definition of FlattenSeq.
Joined(s) ==
    CHOOSE f : f = [i \in 1..Len(s) |-> IF i = 1 THEN s[i] ELSE f[i - 1] \o s[i]]

\* There is one.
LEMMA JoinedIs ==
    ASSUME NEW T, NEW s \in Seq(Seq(T))
    PROVE  Joined(s) = [i \in 1..Len(s) |-> IF i = 1 THEN s[i] ELSE Joined(s)[i - 1] \o s[i]]
  <1> DEFINE E(n) == \E f : f = [i \in 1..n |-> IF i = 1 THEN s[i] ELSE f[i - 1] \o s[i]]
             N == {n \in Nat : E(n)}
  <1>1. 0 \in N
    <2> DEFINE f == [i \in 1..0 |-> <<>>]
    <2>1. f = [i \in 1..0 |-> IF i = 1 THEN s[i] ELSE f[i - 1] \o s[i]]
      OBVIOUS
    <2> QED BY <2>1
  <1>2. ASSUME NEW n \in Nat, n \in N
        PROVE  n + 1 \in N
    <2>1. PICK f : f = [i \in 1..n |-> IF i = 1 THEN s[i] ELSE f[i - 1] \o s[i]]
      BY <1>2
    <2> DEFINE g == [i \in 1..(n + 1) |-> IF i <= n THEN f[i] ELSE IF i = 1 THEN s[i] ELSE f[n] \o s[i]]
    <2>2. ASSUME NEW i \in 1..(n + 1)
          PROVE  g[i] = IF i = 1 THEN s[i] ELSE g[i - 1] \o s[i]
      <3>1. CASE i <= n
        <4>1. f[i] = IF i = 1 THEN s[i] ELSE f[i - 1] \o s[i]
          <5> DEFINE F(j) == IF j = 1 THEN s[j] ELSE f[j - 1] \o s[j]
          <5>1. f = [j \in 1..n |-> F(j)]
            BY <2>1
          <5> HIDE DEF F
          <5>2. i \in 1..n
            BY <3>1
          <5>3. f[i] = F(i)
            BY <5>1, <5>2
          <5> QED BY <5>3 DEF F
        <4>2. i # 1 => g[i - 1] = f[i - 1]
          BY <3>1
        <4> QED BY <3>1, <4>1, <4>2
      <3>2. CASE i = n + 1
        <4>1. i # 1 => g[i - 1] = f[n]
          BY <3>2
        <4> QED BY <3>2, <4>1
      <3> QED BY <3>1, <3>2
    <2>3. g = [i \in 1..(n + 1) |-> IF i = 1 THEN s[i] ELSE g[i - 1] \o s[i]]
      <3>1. g = [i \in 1..(n + 1) |-> g[i]]
        OBVIOUS
      <3> HIDE DEF g
      <3> QED BY <2>2, <3>1
    <2>4. E(n + 1)
      <3> HIDE DEF g
      <3> QED BY <2>3, Zenon
    <2> HIDE DEF E
    <2> QED BY <2>4
  <1> HIDE DEF N
  <1>3. Len(s) \in N
    BY <1>1, <1>2, Inductive, LenProperties
  <1> QED BY <1>3, Zenon DEF N, Joined

\* Element by element.
LEMMA JoinedAt ==
    ASSUME NEW T, NEW s \in Seq(Seq(T)), NEW i \in 1..Len(s)
    PROVE  /\ Joined(s)[i] \in Seq(T)
           /\ Joined(s)[i] = IF i = 1 THEN s[1] ELSE Joined(s)[i - 1] \o s[i]
  <1>1. ASSUME NEW k \in 1..Len(s)
        PROVE  Joined(s)[k] = IF k = 1 THEN s[1] ELSE Joined(s)[k - 1] \o s[k]
    <2> DEFINE F(j) == IF j = 1 THEN s[j] ELSE Joined(s)[j - 1] \o s[j]
    <2>1. Joined(s) = [j \in 1..Len(s) |-> F(j)]
      BY JoinedIs
    <2> HIDE DEF F
    <2>2. Joined(s)[k] = F(k)
      BY <2>1
    <2> QED BY <2>2 DEF F
  <1> DEFINE N == {n \in Nat : n \in 1..Len(s) => Joined(s)[n] \in Seq(T)}
  <1>2. 0 \in N
    OBVIOUS
  <1>3. ASSUME NEW n \in Nat, n \in N
        PROVE  n + 1 \in N
    <2> SUFFICES ASSUME n + 1 \in 1..Len(s)
                 PROVE  Joined(s)[n + 1] \in Seq(T)
      OBVIOUS
    <2>1. s[n + 1] \in Seq(T)
      BY ElementOfSeq
    <2>2. CASE n = 0
      BY <1>1, <2>1, <2>2
    <2>3. CASE n # 0
      <3>1. n \in 1..Len(s) /\ Joined(s)[n] \in Seq(T)
        BY <1>3, <2>3, LenProperties
      <3>2. Joined(s)[n + 1] = Joined(s)[n] \o s[n + 1]
        <4>1. Joined(s)[n + 1] = IF n + 1 = 1 THEN s[1] ELSE Joined(s)[n + 1 - 1] \o s[n + 1]
          BY <1>1
        <4>2. n + 1 # 1 /\ n + 1 - 1 = n
          BY <2>3
        <4> QED BY <4>1, <4>2
      <3> QED BY <2>1, <3>1, <3>2, ConcatProperties
    <2> QED BY <2>2, <2>3
  <1> HIDE DEF N
  <1>4. Nat \subseteq N
    BY <1>2, <1>3, Inductive
  <1> QED BY <1>1, <1>4 DEF N

\* FlattenSeq by it.
LEMMA FlattenIs ==
    ASSUME NEW T, NEW s \in Seq(Seq(T)), s # <<>>
    PROVE  FlattenSeq(s) = Joined(s)[Len(s)]
  <1>1. Len(s) # 0
    BY EmptySeq
  <1> QED BY <1>1 DEF FlattenSeq, Joined

\* Nothing concatenated is nothing.
LEMMA FlattenNone == FlattenSeq(<<>>) = <<>>
  BY DEF FlattenSeq

\* Sequences concatenated are a sequence of what they are of.
LEMMA FlattenType ==
    ASSUME NEW T, NEW s \in Seq(Seq(T))
    PROVE  FlattenSeq(s) \in Seq(T)
  <1>1. CASE s = <<>>
    BY <1>1, FlattenNone, EmptySeq
  <1>2. CASE s # <<>>
    <2>1. Len(s) \in 1..Len(s)
      BY <1>2, EmptySeq, LenProperties
    <2> QED BY <1>2, <2>1, FlattenIs, JoinedAt
  <1> QED BY <1>1, <1>2

\* Sequences that begin alike.
LEMMA JoinedAlike ==
    ASSUME NEW T, NEW s \in Seq(Seq(T)), NEW t \in Seq(Seq(T)), NEW n \in Nat, n <= Len(s), n <= Len(t),
           \A i \in 1..n : s[i] = t[i]
    PROVE  \A i \in 1..n : Joined(s)[i] = Joined(t)[i]
  <1> DEFINE N == {k \in Nat : k \in 1..n => Joined(s)[k] = Joined(t)[k]}
  <1>1. 0 \in N
    OBVIOUS
  <1>2. ASSUME NEW k \in Nat, k \in N
        PROVE  k + 1 \in N
    <2> SUFFICES ASSUME k + 1 \in 1..n
                 PROVE  Joined(s)[k + 1] = Joined(t)[k + 1]
      OBVIOUS
    <2>1. k + 1 \in 1..Len(s) /\ k + 1 \in 1..Len(t)
      BY LenProperties
    <2>2. Joined(s)[k + 1] = IF k + 1 = 1 THEN s[1] ELSE Joined(s)[k + 1 - 1] \o s[k + 1]
      BY <2>1, JoinedAt
    <2>3. Joined(t)[k + 1] = IF k + 1 = 1 THEN t[1] ELSE Joined(t)[k + 1 - 1] \o t[k + 1]
      BY <2>1, JoinedAt
    <2>4. k # 0 => Joined(s)[k] = Joined(t)[k]
      BY <1>2
    <2>5. s[k + 1] = t[k + 1] /\ (k = 0 => s[1] = t[1])
      BY SMTT(40)
    <2> QED BY <2>2, <2>3, <2>4, <2>5
  <1> HIDE DEF N
  <1>3. Nat \subseteq N
    BY <1>1, <1>2, Inductive
  <1> QED BY <1>3 DEF N

\* One more.
LEMMA FlattenAppend ==
    ASSUME NEW T, NEW s \in Seq(Seq(T)), NEW x \in Seq(T)
    PROVE  FlattenSeq(Append(s, x)) = FlattenSeq(s) \o x
  <1> DEFINE t == Append(s, x)
  <1>1. /\ t \in Seq(Seq(T)) /\ t # <<>> /\ Len(t) = Len(s) + 1 /\ Len(s) \in Nat
        /\ t[Len(s) + 1] = x /\ \A i \in 1..Len(s) : t[i] = s[i]
    BY AppendProperties, LenProperties
  <1> HIDE DEF t
  <1>2. FlattenSeq(t) = IF Len(s) = 0 THEN x ELSE Joined(t)[Len(s)] \o x
    <2>1. FlattenSeq(t) = Joined(t)[Len(t)]
      BY <1>1, FlattenIs
    <2>2. Joined(t)[Len(t)] = IF Len(t) = 1 THEN t[1] ELSE Joined(t)[Len(t) - 1] \o t[Len(t)]
      BY <1>1, JoinedAt, SMTT(40)
    <2>3. Len(t) - 1 = Len(s) /\ (Len(t) = 1 <=> Len(s) = 0)
      BY <1>1
    <2> QED BY <1>1, <2>1, <2>2, <2>3
  <1>3. CASE s = <<>>
    BY <1>2, <1>3, FlattenNone, ConcatEmptySeq DEF t
  <1>4. CASE s # <<>>
    <2>1. Len(s) # 0 /\ Len(s) \in 1..Len(s)
      BY <1>1, <1>4, EmptySeq
    <2>2. Joined(t)[Len(s)] = Joined(s)[Len(s)]
      <3>1. Len(s) <= Len(t)
        BY <1>1
      <3>2. \A i \in 1..Len(s) : Joined(t)[i] = Joined(s)[i]
        <4>1. \A i \in 1..Len(s) : t[i] = s[i]
          BY <1>1
        <4>2. PICK n \in Nat : n = Len(s)
          BY <1>1
        <4>3. n <= Len(t) /\ n <= Len(s) /\ \A i \in 1..n : t[i] = s[i]
          BY <3>1, <4>1, <4>2
        <4>4. \A i \in 1..n : Joined(t)[i] = Joined(s)[i]
          BY <1>1, <4>3, JoinedAlike
        <4> QED BY <4>2, <4>4
      <3> QED BY <2>1, <3>2
    <2>3. FlattenSeq(s) = Joined(s)[Len(s)]
      BY <1>4, FlattenIs
    <2> QED BY <1>2, <2>1, <2>2, <2>3 DEF t
  <1> QED BY <1>3, <1>4

\* Two sequences.
LEMMA FlattenBoth ==
    ASSUME NEW T, NEW s \in Seq(Seq(T)), NEW u \in Seq(Seq(T))
    PROVE  FlattenSeq(s \o u) = FlattenSeq(s) \o FlattenSeq(u)
  <1> DEFINE Q == Seq(T)
             S == {t \in Seq(Q) : FlattenSeq(s \o t) = FlattenSeq(s) \o FlattenSeq(t)}
  <1>1. <<>> \in S
    BY FlattenNone, FlattenType, ConcatEmptySeq, EmptySeq
  <1>2. ASSUME NEW t \in Seq(Q), NEW x \in Q, t \in S
        PROVE  Append(t, x) \in S
    <2>1. s \o t \in Seq(Q) /\ Append(t, x) \in Seq(Q)
      BY ConcatProperties, AppendProperties
    <2>2. s \o Append(t, x) = Append(s \o t, x)
      <3>1. Append(t, x) = t \o <<x>> /\ Append(s \o t, x) = (s \o t) \o <<x>> /\ <<x>> \in Seq(Q)
        BY <2>1, AppendIsConcat
      <3> QED BY <3>1, ConcatAssociative
    <2>3. FlattenSeq(Append(s \o t, x)) = FlattenSeq(s \o t) \o x
      BY <2>1, FlattenAppend
    <2>4. FlattenSeq(Append(t, x)) = FlattenSeq(t) \o x
      BY FlattenAppend
    <2>5. FlattenSeq(s) \in Seq(T) /\ FlattenSeq(t) \in Seq(T) /\ x \in Seq(T)
      BY FlattenType
    <2>6. (FlattenSeq(s) \o FlattenSeq(t)) \o x = FlattenSeq(s) \o (FlattenSeq(t) \o x)
      <3> DEFINE f == FlattenSeq(s)
                 g == FlattenSeq(t)
      <3>1. f \in Seq(T) /\ g \in Seq(T) /\ x \in Seq(T)
        BY <2>5
      <3> HIDE DEF f, g, Q, S
      <3>2. (f \o g) \o x = f \o (g \o x)
        BY <3>1, ConcatAssociative, SMTT(40)
      <3> QED BY <3>2 DEF f, g
    <2> QED BY <1>2, <2>1, <2>2, <2>3, <2>4, <2>6
  <1> HIDE DEF S, Q
  <1>3. Seq(Q) \subseteq S
    BY <1>1, <1>2, InductiveSeq
  <1> QED BY <1>3 DEF S, Q

\* What is in it.
LEMMA FlattenTokens ==
    ASSUME NEW T, NEW u \in Seq(Seq(T))
    PROVE  \A x : x \in ToSet(FlattenSeq(u)) <=> \E i \in 1..Len(u) : x \in ToSet(u[i])
  <1> DEFINE Q == Seq(T)
             In(t) == \A x : x \in ToSet(FlattenSeq(t)) <=> \E i \in 1..Len(t) : x \in ToSet(t[i])
             S == {t \in Seq(Q) : In(t)}
  <1>1. <<>> \in S
    BY FlattenNone, EmptySeq DEF ToSet
  <1>2. ASSUME NEW t \in Seq(Q), NEW y \in Q, t \in S
        PROVE  Append(t, y) \in S
    <2> DEFINE a == Append(t, y)
    <2>1. /\ a \in Seq(Q) /\ Len(a) = Len(t) + 1 /\ Len(t) \in Nat
          /\ a[Len(t) + 1] = y /\ \A i \in 1..Len(t) : a[i] = t[i]
      BY AppendProperties, LenProperties
    <2>2. FlattenSeq(a) = FlattenSeq(t) \o y
      BY FlattenAppend
    <2>3. FlattenSeq(t) \in Seq(T)
      BY FlattenType
    <2>4. \A x : x \in ToSet(FlattenSeq(t) \o y) <=> x \in ToSet(FlattenSeq(t)) \/ x \in ToSet(y)
      <3>1. Range(FlattenSeq(t) \o y) = Range(FlattenSeq(t)) \cup Range(y)
        BY <2>3, RangeConcatenation
      <3> QED BY <3>1 DEF ToSet, Range
    <2>5. \A x : (\E i \in 1..Len(a) : x \in ToSet(a[i])) <=> (\E i \in 1..Len(t) : x \in ToSet(t[i])) \/ x \in ToSet(y)
      <3> HIDE DEF a
      <3>1. Len(a) = Len(t) + 1 /\ Len(t) \in Nat /\ a[Len(t) + 1] = y /\ \A i \in 1..Len(t) : a[i] = t[i]
        BY <2>1
      <3>2. 1..Len(a) = 1..Len(t) \cup {Len(t) + 1}
        BY <3>1
      <3> QED BY <3>1, <3>2
    <2>6. In(t)
      BY <1>2
    <2> HIDE DEF a
    <2>7. In(a)
      BY <2>2, <2>4, <2>5, <2>6
    <2> HIDE DEF In
    <2> QED BY <2>1, <2>7 DEF a
  <1> HIDE DEF S, Q, In
  <1>3. Seq(Q) \subseteq S
    BY <1>1, <1>2, InductiveSeq
  <1> QED BY <1>3 DEF S, Q, In

----------------------------------------------------------------------------
(* What is left of parts and paths.                                         *)

\* Whether p ends with e, place by place.
EndsIn(p, e) == Len(e) <= Len(p) /\ \A i \in 1..Len(e) : p[Len(p) - Len(e) + i] = e[i]

\* The library's suffix is the ending that EndsIn speaks of.
LEMMA SuffixIs ==
    ASSUME NEW T, NEW p \in Seq(T), NEW e \in Seq(T)
    PROVE  IsSuffix(e, p) <=> EndsIn(p, e)
  <1> DEFINE rp == Reverse(p)
             re == Reverse(e)
             m == Len(p)
             n == Len(e)
  <1>1. m \in Nat /\ n \in Nat
    BY LenProperties
  <1>2. /\ rp \in Seq(T) /\ Len(rp) = m /\ \A i \in 1..m : rp[i] = p[(m - i) + 1]
        /\ re \in Seq(T) /\ Len(re) = n /\ \A i \in 1..n : re[i] = e[(n - i) + 1]
    <2>1. \A i \in 1..m : p[(m - i) + 1] \in T
      BY <1>1, ElementOfSeq
    <2>2. \A i \in 1..n : e[(n - i) + 1] \in T
      BY <1>1, ElementOfSeq
    <2> QED BY <1>1, <2>1, <2>2 DEF Reverse
  <1> HIDE DEF rp, re, m, n
  <1>3. n <= m => (SubSeq(re, 1, n) = SubSeq(rp, 1, n) <=> \A i \in 1..n : re[i] = rp[i])
    <2> SUFFICES ASSUME n <= m
                 PROVE  SubSeq(re, 1, n) = SubSeq(rp, 1, n) <=> \A i \in 1..n : re[i] = rp[i]
      OBVIOUS
    <2>1. \A i \in 1..n : re[i] \in T /\ rp[i] \in T
      BY <1>1, <1>2, ElementOfSeq
    <2>2. /\ SubSeq(re, 1, n) \in Seq(T) /\ Len(SubSeq(re, 1, n)) = n
          /\ \A i \in 1..n : SubSeq(re, 1, n)[i] = re[i]
      BY <1>1, <2>1, SubSeqProperties
    <2>3. /\ SubSeq(rp, 1, n) \in Seq(T) /\ Len(SubSeq(rp, 1, n)) = n
          /\ \A i \in 1..n : SubSeq(rp, 1, n)[i] = rp[i]
      BY <1>1, <2>1, SubSeqProperties
    <2> QED BY <2>2, <2>3, SeqEqual
  <1>4. IsSuffix(e, p) <=> n <= m /\ \A i \in 1..n : re[i] = rp[i]
    BY <1>2, <1>3 DEF IsSuffix, IsPrefix, rp, re
  <1>5. n <= m => ((\A i \in 1..n : re[i] = rp[i]) <=> \A i \in 1..n : p[m - n + i] = e[i])
    <2> SUFFICES ASSUME n <= m
                 PROVE  (\A i \in 1..n : re[i] = rp[i]) <=> \A i \in 1..n : p[m - n + i] = e[i]
      OBVIOUS
    <2>1. ASSUME NEW i \in 1..n
          PROVE  /\ (n - i) + 1 \in 1..n
                 /\ re[(n - i) + 1] = e[i] /\ rp[(n - i) + 1] = p[m - n + i]
                 /\ re[i] = e[(n - i) + 1] /\ rp[i] = p[m - n + ((n - i) + 1)]
      <3>1. i \in 1..m /\ (n - i) + 1 \in 1..n /\ (n - i) + 1 \in 1..m
        BY <1>1
      <3>2. (n - ((n - i) + 1)) + 1 = i /\ (m - ((n - i) + 1)) + 1 = m - n + i /\ (m - i) + 1 = m - n + ((n - i) + 1)
        BY <1>1
      <3> QED BY <1>2, <3>1, <3>2, ZenonT(60)
    <2> QED BY <2>1, SMTT(40)
  <1> QED BY <1>4, <1>5 DEF EndsIn, m, n

\* What TrimBoth leaves.
LEMMA TrimIs ==
    ASSUME NEW T, NEW s \in Seq(T), NEW tokens
    PROVE  \/ (\A i \in 1..Len(s) : s[i] \in tokens) /\ TrimBoth(s, tokens) = <<>>
           \/ \E m, n \in 1..Len(s) :
                /\ m <= n /\ s[m] \notin tokens /\ s[n] \notin tokens
                /\ \A i \in 1..Len(s) : s[i] \notin tokens => m <= i /\ i <= n
                /\ TrimBoth(s, tokens) = SubSeq(s, m, n)
  <1> DEFINE kept == {i \in DOMAIN s : s[i] \notin tokens}
  <1>1. DOMAIN s = 1..Len(s) /\ Len(s) \in Nat
    BY LenProperties
  <1>2. TrimBoth(s, tokens) = IF kept = {} THEN <<>> ELSE SubSeq(s, Min(kept), Max(kept))
    BY DEF TrimBoth
  <1>3. \A i \in 1..Len(s) : i \in kept <=> s[i] \notin tokens
    BY <1>1
  <1>4. kept \subseteq 1..Len(s)
    BY <1>1
  <1> HIDE DEF kept
  <1>5. CASE kept = {}
    BY <1>2, <1>3, <1>5
  <1>6. CASE kept # {}
    <2>1. Min(kept) \in kept /\ \A y \in kept : Min(kept) <= y
      BY <1>1, <1>4, <1>6, MinOf
    <2>2. Max(kept) \in kept /\ \A y \in kept : Max(kept) >= y
      BY <1>1, <1>4, <1>6, MaxOf
    <2> DEFINE m == Min(kept)
               n == Max(kept)
    <2>3. m \in 1..Len(s) /\ n \in 1..Len(s) /\ m <= n /\ s[m] \notin tokens /\ s[n] \notin tokens
      BY <1>3, <1>4, <2>1, <2>2
    <2>4. \A i \in 1..Len(s) : s[i] \notin tokens => m <= i /\ i <= n
      BY <1>3, <2>1, <2>2, <2>3
    <2>5. TrimBoth(s, tokens) = SubSeq(s, m, n)
      BY <1>2, <1>6
    <2> HIDE DEF m, n
    <2> QED BY <2>3, <2>4, <2>5
  <1> QED BY <1>5, <1>6

\* Its tokens.
LEMMA TrimTokens ==
    ASSUME NEW T, NEW s \in Seq(T), NEW tokens
    PROVE  /\ TrimBoth(s, tokens) \in Seq(T)
           /\ ToSet(TrimBoth(s, tokens)) \subseteq ToSet(s)
           /\ ToSet(s) \ tokens \subseteq ToSet(TrimBoth(s, tokens))
  <1> DEFINE r == TrimBoth(s, tokens)
  <1>1. DOMAIN s = 1..Len(s) /\ Len(s) \in Nat
    BY LenProperties
  <1>2. CASE (\A i \in 1..Len(s) : s[i] \in tokens) /\ r = <<>>
    BY <1>1, <1>2, EmptySeq DEF ToSet
  <1>3. CASE \E m, n \in 1..Len(s) :
                /\ m <= n /\ s[m] \notin tokens /\ s[n] \notin tokens
                /\ \A i \in 1..Len(s) : s[i] \notin tokens => m <= i /\ i <= n
                /\ r = SubSeq(s, m, n)
    <2>1. PICK m, n \in 1..Len(s) :
                /\ m <= n /\ s[m] \notin tokens /\ s[n] \notin tokens
                /\ \A i \in 1..Len(s) : s[i] \notin tokens => m <= i /\ i <= n
                /\ r = SubSeq(s, m, n)
      BY <1>3
    <2> HIDE DEF r
    <2>2. \A i \in m..n : s[i] \in T
      BY <1>1, ElementOfSeq
    <2>3. r \in Seq(T) /\ Len(r) = n - m + 1 /\ \A i \in 1..(n - m + 1) : r[i] = s[m + i - 1]
      BY <1>1, <2>1, <2>2, SubSeqProperties, SMTT(40)
    <2>4. DOMAIN r = 1..(n - m + 1)
      BY <2>3, LenProperties
    <2>5. ASSUME NEW i \in 1..(n - m + 1)
          PROVE  r[i] \in ToSet(s)
      <3>1. m + i - 1 \in 1..Len(s)
        BY <1>1
      <3> QED BY <1>1, <2>3, <3>1 DEF ToSet
    <2>6. ASSUME NEW i \in 1..Len(s), s[i] \notin tokens
          PROVE  s[i] \in ToSet(r)
      <3>1. i - m + 1 \in 1..(n - m + 1) /\ m + (i - m + 1) - 1 = i
        BY <1>1, <2>1, <2>6
      <3>2. r[i - m + 1] = s[i]
        BY <2>3, <3>1
      <3> QED BY <2>4, <3>1, <3>2 DEF ToSet
    <2> QED BY <1>1, <2>3, <2>4, <2>5, <2>6 DEF ToSet, r
  <1> HIDE DEF r
  <1> QED BY <1>2, <1>3, TrimIs DEF r

\* It leaves an end that has something before it.
LEMMA TrimEnds ==
    ASSUME NEW T, NEW s \in Seq(T), NEW e \in Seq(T), NEW tokens, EndsIn(s, e), e # <<>>,
           e[Len(e)] \notin tokens, NEW k \in 1..(Len(s) - Len(e)), s[k] \notin tokens
    PROVE  EndsIn(TrimBoth(s, tokens), e)
  <1> DEFINE r == TrimBoth(s, tokens)
  <1>1. /\ Len(s) \in Nat /\ Len(e) \in Nat /\ Len(e) # 0 /\ Len(e) <= Len(s)
        /\ k \in 1..Len(s) /\ Len(s) \in 1..Len(s)
    BY LenProperties, EmptySeq DEF EndsIn
  <1>2. s[Len(s)] \notin tokens
    <2>1. s[Len(s) - Len(e) + Len(e)] = e[Len(e)]
      BY <1>1 DEF EndsIn
    <2> QED BY <1>1, <2>1
  <1>3. PICK m, n \in 1..Len(s) :
                /\ m <= n /\ s[m] \notin tokens /\ s[n] \notin tokens
                /\ \A i \in 1..Len(s) : s[i] \notin tokens => m <= i /\ i <= n
                /\ r = SubSeq(s, m, n)
    <2>1. ~\A i \in 1..Len(s) : s[i] \in tokens
      BY <1>1
    <2> HIDE DEF r
    <2> QED BY <2>1, TrimIs DEF r
  <1>4. n = Len(s) /\ m <= k
    BY <1>1, <1>2, <1>3
  <1> HIDE DEF r
  <1>5. \A i \in m..n : s[i] \in T
    BY <1>1, ElementOfSeq
  <1>6. Len(r) = n - m + 1 /\ \A i \in 1..(n - m + 1) : r[i] = s[m + i - 1]
    BY <1>1, <1>3, <1>5, SubSeqProperties
  <1>7. Len(e) <= Len(r)
    BY <1>1, <1>4, <1>6
  <1>8. ASSUME NEW i \in 1..Len(e)
        PROVE  r[Len(r) - Len(e) + i] = e[i]
    <2>1. Len(r) - Len(e) + i \in 1..(n - m + 1) /\ m + (Len(r) - Len(e) + i) - 1 = Len(s) - Len(e) + i
      BY <1>1, <1>4, <1>6, <1>7
    <2> QED BY <1>6, <2>1 DEF EndsIn
  <1> QED BY <1>7, <1>8 DEF EndsIn, r

Part == Seq(STRING)

\* The words the program writes itself.
LEMMA OwnWords ==
    /\ \A w \in {".", "-", "zip", "aes", "json", "default", "nowledge-mem"} : w \in STRING
    /\ \A w \in {"zip", "aes", "json", "default", "nowledge-mem"} : w \in Kept
    /\ " " \notin Kept /\ \A w \in Punctuation : w \notin Kept
  BY NamesAssumption DEF Punctuation

\* cleanSegment: letters and digits stay, and what else there is is "-".
LEMMA CleanSegmentTokens ==
    ASSUME NEW raw \in Part
    PROVE  /\ CleanSegment(raw) \in Part
           /\ ToSet(CleanSegment(raw)) \subseteq ToSet(raw) \cup {"-", "default"}
           /\ ToSet(raw) \cap Kept \subseteq ToSet(CleanSegment(raw))
  <1> DEFINE s == TrimBoth(raw, {" "})
             f == [i \in DOMAIN s |-> IF s[i] \in Kept \cup Punctuation THEN s[i] ELSE "-"]
  <1>1. /\ s \in Part /\ ToSet(s) \subseteq ToSet(raw) /\ ToSet(raw) \ {" "} \subseteq ToSet(s)
    BY TrimTokens DEF Part
  <1>2. CleanSegment(raw) = IF s = <<>> THEN <<"default">> ELSE TrimBoth(f, Punctuation)
    BY DEF CleanSegment
  <1> HIDE DEF s
  <1>3. DOMAIN s = 1..Len(s) /\ Len(s) \in Nat
    BY <1>1, LenProperties DEF Part
  <1>4. CASE s = <<>>
    <2>1. ToSet(s) = {}
      BY <1>4 DEF ToSet
    <2>2. <<"default">> \in Part /\ ToSet(<<"default">>) = {"default"}
      <3>1. "default" \in STRING
        BY OwnWords
      <3>2. <<"default">> \in Part
        BY <3>1 DEF Part
      <3> QED BY <3>2 DEF ToSet
    <2>3. ToSet(raw) \cap Kept = {}
      BY <1>1, <2>1, OwnWords
    <2> QED BY <1>2, <1>4, <2>2, <2>3
  <1>5. CASE s # <<>>
    <2>1. \A i \in 1..Len(s) : s[i] \in STRING /\ s[i] \in ToSet(s)
      BY <1>1, <1>3, ElementOfSeq DEF Part, ToSet
    <2>2. \A i \in 1..Len(s) : f[i] \in STRING /\ (f[i] = s[i] \/ f[i] = "-") /\ (s[i] \in Kept => f[i] = s[i])
      BY <1>3, <2>1, OwnWords
    <2>3. f \in Part /\ Len(f) = Len(s) /\ DOMAIN f = 1..Len(s)
      BY <1>3, <2>2 DEF Part
    <2> HIDE DEF f
    <2>4. ToSet(f) \subseteq ToSet(s) \cup {"-"} /\ ToSet(s) \cap Kept \subseteq ToSet(f)
      <3>1. \A x \in ToSet(f) : x \in ToSet(s) \cup {"-"}
        BY <2>1, <2>2, <2>3 DEF ToSet
      <3>2. \A x \in ToSet(s) \cap Kept : x \in ToSet(f)
        BY <1>3, <2>2, <2>3 DEF ToSet
      <3> QED BY <3>1, <3>2
    <2>5. /\ TrimBoth(f, Punctuation) \in Part /\ ToSet(TrimBoth(f, Punctuation)) \subseteq ToSet(f)
          /\ ToSet(f) \ Punctuation \subseteq ToSet(TrimBoth(f, Punctuation))
      BY <2>3, TrimTokens DEF Part
    <2> QED BY <1>1, <1>2, <1>5, <2>4, <2>5, OwnWords
  <1> QED BY <1>4, <1>5

\* What ends with an extension ends with it still.
LEMMA CleanSegmentEnds ==
    ASSUME NEW raw \in Part, NEW e \in Part, EndsIn(raw, e), e # <<>>, e[Len(e)] \in Kept,
           \A i \in 1..Len(e) : e[i] \in Kept \cup Punctuation,
           NEW k \in 1..(Len(raw) - Len(e)), raw[k] \in Kept
    PROVE  EndsIn(CleanSegment(raw), e)
  <1> DEFINE s == TrimBoth(raw, {" "})
             f == [i \in DOMAIN s |-> IF s[i] \in Kept \cup Punctuation THEN s[i] ELSE "-"]
  <1>1. /\ Len(e) \in Nat /\ Len(e) # 0 /\ Len(e) \in 1..Len(e) /\ Len(raw) \in Nat /\ k \in 1..Len(raw)
    BY LenProperties, EmptySeq DEF Part, EndsIn
  <1>2. raw[k] # " " /\ e[Len(e)] # " "
    BY OwnWords
  <1>3. EndsIn(s, e) /\ s \in Part
    BY <1>2, TrimEnds, TrimTokens DEF Part
  <1>4. raw[k] \in ToSet(s)
    <2>1. ToSet(raw) \ {" "} \subseteq ToSet(s)
      BY TrimTokens DEF Part
    <2>2. raw[k] \in ToSet(raw)
      BY <1>1, LenProperties DEF ToSet, Part
    <2> QED BY <1>2, <2>1, <2>2
  <1>5. CleanSegment(raw) = IF s = <<>> THEN <<"default">> ELSE TrimBoth(f, Punctuation)
    BY DEF CleanSegment
  <1> HIDE DEF s
  <1>6. \E i \in 1..(Len(s) - Len(e)) : s[i] \in Kept
    <2>1. PICK m, n \in 1..Len(raw) :
                /\ m <= n /\ raw[m] \notin {" "} /\ raw[n] \notin {" "}
                /\ \A i \in 1..Len(raw) : raw[i] \notin {" "} => m <= i /\ i <= n
                /\ s = SubSeq(raw, m, n)
      <3>1. ~\A i \in 1..Len(raw) : raw[i] \in {" "}
        BY <1>1, <1>2
      <3> QED BY <3>1, TrimIs, ZenonT(60) DEF s, Part
    <2>2. raw[Len(raw)] = e[Len(e)] /\ Len(raw) \in 1..Len(raw)
      <3>1. Len(raw) - Len(e) + Len(e) = Len(raw)
        BY <1>1
      <3>2. raw[Len(raw) - Len(e) + Len(e)] = e[Len(e)]
        BY <1>1 DEF EndsIn
      <3> QED BY <1>1, <3>1, <3>2
    <2>3. n = Len(raw) /\ m <= k
      <3>1. raw[Len(raw)] \notin {" "} /\ raw[k] \notin {" "}
        BY <1>2, <2>2
      <3>2. Len(raw) <= n /\ m <= k
        BY <1>1, <2>1, <2>2, <3>1
      <3> QED BY <1>1, <3>2
    <2>4. \A i \in m..n : raw[i] \in STRING
      BY <1>1, ElementOfSeq DEF Part
    <2>5. Len(s) = n - m + 1 /\ \A i \in 1..(n - m + 1) : s[i] = raw[m + i - 1]
      <3>1. m \in Int /\ n \in Int
        OBVIOUS
      <3>2. m <= n
        BY <2>1
      <3>3. s = SubSeq(raw, m, n)
        BY <2>1
      <3> QED BY <2>4, <3>1, <3>2, <3>3, SubSeqProperties
    <2>6. k - m + 1 \in 1..(Len(s) - Len(e)) /\ k - m + 1 \in 1..(n - m + 1) /\ m + (k - m + 1) - 1 = k
      BY <1>1, <2>3, <2>5
    <2>7. s[k - m + 1] = raw[k]
      BY <2>5, <2>6
    <2> QED BY <2>6, <2>7
  <1>7. PICK i \in 1..(Len(s) - Len(e)) : s[i] \in Kept
    BY <1>6
  <1>8. DOMAIN s = 1..Len(s) /\ Len(s) \in Nat /\ Len(e) <= Len(s) /\ i \in 1..Len(s)
    BY <1>1, <1>3, LenProperties DEF Part, EndsIn
  <1>9. f \in Part /\ Len(f) = Len(s)
    <2>1. \A j \in 1..Len(s) : s[j] \in STRING
      BY <1>3, ElementOfSeq DEF Part
    <2>2. \A j \in 1..Len(s) : f[j] \in STRING
      BY <1>8, <2>1, OwnWords
    <2> QED BY <1>8, <2>2 DEF Part
  <1>10. f[i] = s[i]
    BY <1>7, <1>8
  <1>11. EndsIn(f, e)
    <2>1. ASSUME NEW j \in 1..Len(e)
          PROVE  f[Len(s) - Len(e) + j] = e[j]
      <3>1. Len(s) - Len(e) + j \in 1..Len(s)
        BY <1>1, <1>8
      <3>2. s[Len(s) - Len(e) + j] = e[j]
        BY <1>3 DEF EndsIn
      <3> QED BY <1>8, <3>1, <3>2
    <2> HIDE DEF f
    <2> QED BY <1>8, <1>9, <2>1 DEF EndsIn
  <1>12. s # <<>>
    BY <1>7, <1>8, EmptySeq
  <1> HIDE DEF f
  <1>13. f[i] \notin Punctuation /\ e[Len(e)] \notin Punctuation /\ i \in 1..(Len(f) - Len(e))
    BY <1>7, <1>9, <1>10, OwnWords
  <1>14. EndsIn(TrimBoth(f, Punctuation), e)
    BY <1>9, <1>11, <1>13, TrimEnds DEF Part
  <1> QED BY <1>5, <1>12, <1>14

\* The same of parts, which may be blank.
LEMMA CleanPartTokens ==
    ASSUME NEW raw \in Part
    PROVE  /\ CleanPart(raw) \in Part
           /\ ToSet(CleanPart(raw)) \subseteq ToSet(raw) \cup {"-", "default"}
           /\ ToSet(raw) \cap Kept \subseteq ToSet(CleanPart(raw))
           /\ ToSet(raw) \cap Kept # {} => CleanPart(raw) = CleanSegment(raw) /\ CleanPart(raw) # <<>>
  <1>1. /\ CleanSegment(raw) \in Part
        /\ ToSet(CleanSegment(raw)) \subseteq ToSet(raw) \cup {"-", "default"}
        /\ ToSet(raw) \cap Kept \subseteq ToSet(CleanSegment(raw))
    BY CleanSegmentTokens
  <1>2. ToSet(<<>>) = {} /\ <<>> \in Part
    BY DEF ToSet, Part
  <1>3. ToSet(raw) \ {" "} \subseteq ToSet(TrimBoth(raw, {" "}))
    BY TrimTokens DEF Part
  <1>4. TrimBoth(raw, {" "}) = <<>> => ToSet(raw) \cap Kept = {}
    BY <1>2, <1>3, OwnWords
  <1> QED BY <1>1, <1>2, <1>4 DEF CleanPart

Path == Seq(Part)

\* What the parts of a path come to, one or none of each.
Cleaned(parts) == [i \in DOMAIN parts |-> IF CleanPart(parts[i]) = <<>> THEN <<>> ELSE <<CleanPart(parts[i])>>]

\* What each part of a path contributes to the cleaned path: itself cleaned, or nothing.
LEMMA CleanedIs ==
    ASSUME NEW p \in Path
    PROVE  /\ Cleaned(p) \in Seq(Path) /\ Len(Cleaned(p)) = Len(p) /\ Len(p) \in Nat /\ DOMAIN p = 1..Len(p)
           /\ \A i \in 1..Len(p) : Cleaned(p)[i] = IF CleanPart(p[i]) = <<>> THEN <<>> ELSE <<CleanPart(p[i])>>
  <1>1. DOMAIN p = 1..Len(p) /\ Len(p) \in Nat
    BY LenProperties DEF Path
  <1>2. ASSUME NEW i \in 1..Len(p)
        PROVE  (IF CleanPart(p[i]) = <<>> THEN <<>> ELSE <<CleanPart(p[i])>>) \in Path
    <2>1. p[i] \in Part
      BY ElementOfSeq DEF Path
    <2>2. CleanPart(p[i]) \in Part
      BY <2>1, CleanPartTokens
    <2> QED BY <2>2 DEF Path
  <1>3. Cleaned(p) = [i \in 1..Len(p) |-> IF CleanPart(p[i]) = <<>> THEN <<>> ELSE <<CleanPart(p[i])>>]
    BY <1>1 DEF Cleaned
  <1>4. Cleaned(p) \in [1..Len(p) -> Path]
    BY <1>2, <1>3
  <1>5. Cleaned(p) \in Seq(Path)
    BY <1>1, <1>4
  <1>6. Len(Cleaned(p)) = Len(p)
    BY <1>1, <1>4
  <1> QED BY <1>1, <1>3, <1>5, <1>6

\* cleanObjectPath, of two paths in one.
LEMMA CleanPathBoth ==
    ASSUME NEW p \in Path, NEW q \in Path
    PROVE  CleanPath(p \o q) = CleanPath(p) \o CleanPath(q)
  <1>1. /\ p \o q \in Path /\ Len(p \o q) = Len(p) + Len(q) /\ Len(p) \in Nat /\ Len(q) \in Nat
        /\ \A i \in 1..(Len(p) + Len(q)) : (p \o q)[i] = IF i <= Len(p) THEN p[i] ELSE q[i - Len(p)]
    BY ConcatProperties, LenProperties DEF Path
  <1> DEFINE a == Cleaned(p)
             b == Cleaned(q)
             c == Cleaned(p \o q)
             C(x) == IF CleanPart(x) = <<>> THEN <<>> ELSE <<CleanPart(x)>>
  <1>2. /\ a \in Seq(Path) /\ Len(a) = Len(p) /\ \A i \in 1..Len(p) : a[i] = C(p[i])
        /\ b \in Seq(Path) /\ Len(b) = Len(q) /\ \A i \in 1..Len(q) : b[i] = C(q[i])
        /\ c \in Seq(Path) /\ Len(c) = Len(p) + Len(q) /\ \A i \in 1..(Len(p) + Len(q)) : c[i] = C((p \o q)[i])
    <2>1. a \in Seq(Path) /\ Len(a) = Len(p) /\ \A i \in 1..Len(p) : a[i] = C(p[i])
      BY CleanedIs
    <2>2. b \in Seq(Path) /\ Len(b) = Len(q) /\ \A i \in 1..Len(q) : b[i] = C(q[i])
      BY CleanedIs
    <2>3. c \in Seq(Path) /\ Len(c) = Len(p \o q) /\ \A i \in 1..Len(p \o q) : c[i] = C((p \o q)[i])
      BY <1>1, CleanedIs
    <2> QED BY <1>1, <2>1, <2>2, <2>3
  <1> HIDE DEF a, b, c, C
  <1>3. /\ a \o b \in Seq(Path) /\ Len(a \o b) = Len(p) + Len(q)
        /\ \A i \in 1..(Len(p) + Len(q)) : (a \o b)[i] = IF i <= Len(p) THEN a[i] ELSE b[i - Len(p)]
    <2>1. a \in Seq(Path) /\ b \in Seq(Path) /\ Len(a) = Len(p) /\ Len(b) = Len(q)
      BY <1>2
    <2>2. /\ a \o b \in Seq(Path) /\ Len(a \o b) = Len(a) + Len(b)
          /\ \A i \in 1..(Len(a) + Len(b)) : (a \o b)[i] = IF i <= Len(a) THEN a[i] ELSE b[i - Len(a)]
      BY <2>1, ConcatProperties
    <2> QED BY <2>1, <2>2
  <1>4. ASSUME NEW i \in 1..(Len(p) + Len(q))
        PROVE  (a \o b)[i] = c[i]
    <2>1. CASE i <= Len(p)
      <3>1. i \in 1..Len(p)
        BY <1>1, <2>1
      <3> QED BY <1>1, <1>2, <1>3, <2>1, <3>1
    <2>2. CASE ~(i <= Len(p))
      <3>1. i - Len(p) \in 1..Len(q)
        BY <1>1, <2>2
      <3> QED BY <1>1, <1>2, <1>3, <2>2, <3>1
    <2> QED BY <2>1, <2>2
  <1>5. a \o b = c
    BY <1>2, <1>3, <1>4, SeqEqual
  <1>6. FlattenSeq(a \o b) = FlattenSeq(a) \o FlattenSeq(b)
    BY <1>2, FlattenBoth DEF Path
  <1>7. CleanPath(p) = FlattenSeq(a) /\ CleanPath(q) = FlattenSeq(b) /\ CleanPath(p \o q) = FlattenSeq(c)
    BY DEF CleanPath, Cleaned, a, b, c
  <1> QED BY <1>5, <1>6, <1>7

\* Its parts.
LEMMA CleanPathParts ==
    ASSUME NEW p \in Path
    PROVE  /\ CleanPath(p) \in Path
           /\ \A x : x \in ToSet(CleanPath(p)) <=> x # <<>> /\ \E i \in 1..Len(p) : x = CleanPart(p[i])
  <1> DEFINE c == Cleaned(p)
  <1>1. /\ c \in Seq(Path) /\ Len(c) = Len(p)
        /\ \A i \in 1..Len(p) : c[i] = IF CleanPart(p[i]) = <<>> THEN <<>> ELSE <<CleanPart(p[i])>>
    BY CleanedIs
  <1>2. CleanPath(p) = FlattenSeq(c)
    BY DEF CleanPath, Cleaned
  <1> HIDE DEF c
  <1>3. \A x : x \in ToSet(CleanPath(p)) <=> \E i \in 1..Len(c) : x \in ToSet(c[i])
    BY <1>1, <1>2, FlattenTokens DEF Path
  <1>4. ASSUME NEW i \in 1..Len(p), NEW x
        PROVE  x \in ToSet(c[i]) <=> x # <<>> /\ x = CleanPart(p[i])
    <2>1. CASE CleanPart(p[i]) = <<>>
      <3>1. c[i] = <<>>
        BY <1>1, <2>1
      <3>2. ToSet(<<>>) = {}
        BY DEF ToSet
      <3> QED BY <2>1, <3>1, <3>2
    <2>2. CASE CleanPart(p[i]) # <<>>
      <3>1. c[i] = <<CleanPart(p[i])>>
        BY <1>1, <2>2
      <3>2. ToSet(<<CleanPart(p[i])>>) = {CleanPart(p[i])}
        BY DEF ToSet
      <3> QED BY <2>2, <3>1, <3>2
    <2> QED BY <2>1, <2>2
  <1>5. CleanPath(p) \in Path
    BY <1>1, <1>2, FlattenType DEF Path
  <1> QED BY <1>1, <1>3, <1>4, <1>5

\* A path of one part.
LEMMA CleanPathOne ==
    ASSUME NEW x \in Part, CleanPart(x) # <<>>
    PROVE  CleanPath(<<x>>) = <<CleanPart(x)>>
  <1>1. <<x>> \in Path /\ Len(<<x>>) = 1 /\ <<x>>[1] = x
    BY DEF Path
  <1> DEFINE y == <<CleanPart(x)>>
  <1>2. y \in Path
    BY CleanPartTokens DEF Path
  <1>3. Cleaned(<<x>>) = <<y>>
    <2>1. Cleaned(<<x>>) \in Seq(Path) /\ Len(Cleaned(<<x>>)) = 1 /\ Cleaned(<<x>>)[1] = y
      <3>1. /\ Cleaned(<<x>>) \in Seq(Path) /\ Len(Cleaned(<<x>>)) = Len(<<x>>)
            /\ \A i \in 1..Len(<<x>>) : Cleaned(<<x>>)[i] = IF CleanPart(<<x>>[i]) = <<>> THEN <<>> ELSE <<CleanPart(<<x>>[i])>>
        BY <1>1, CleanedIs
      <3>2. 1 \in 1..Len(<<x>>)
        BY <1>1
      <3>3. Cleaned(<<x>>)[1] = IF CleanPart(<<x>>[1]) = <<>> THEN <<>> ELSE <<CleanPart(<<x>>[1])>>
        BY <3>1, <3>2
      <3> QED BY <1>1, <3>1, <3>3
    <2>2. <<y>> \in Seq(Path) /\ Len(<<y>>) = 1 /\ <<y>>[1] = y
      BY <1>2
    <2> HIDE DEF y
    <2>3. \A i \in 1..1 : Cleaned(<<x>>)[i] = <<y>>[i]
      BY <2>1, <2>2
    <2> QED BY <2>1, <2>2, <2>3, SeqEqual
  <1> HIDE DEF y
  <1>4. Append(<<>>, y) = <<y>>
    BY <1>2
  <1>5. FlattenSeq(<<y>>) = <<>> \o y
    <2>1. <<>> \in Seq(Path)
      OBVIOUS
    <2>2. FlattenSeq(Append(<<>>, y)) = FlattenSeq(<<>>) \o y
      BY <1>2, <2>1, FlattenAppend DEF Path
    <2> QED BY <1>4, <2>2, FlattenNone
  <1>6. <<>> \o y = y
    BY <1>2, ConcatEmptySeq DEF Path
  <1>7. CleanPath(<<x>>) = FlattenSeq(Cleaned(<<x>>))
    BY DEF CleanPath, Cleaned
  <1> QED BY <1>3, <1>5, <1>6, <1>7 DEF y

\* The last part, if it is left, is the last.
LEMMA CleanPathLast ==
    ASSUME NEW p \in Path, p # <<>>, CleanPart(p[Len(p)]) # <<>>, NEW k \in 0..(Len(p) - 1)
    PROVE  \E r \in Path : /\ CleanPath(p) = CleanPath(SubSeq(p, 1, k)) \o Append(r, CleanPart(p[Len(p)]))
                           /\ CleanPath(SubSeq(p, 1, k)) \in Path
  <1> DEFINE n == Len(p)
             a == SubSeq(p, 1, k)
             b == SubSeq(p, k + 1, n - 1)
  <1>1. n \in Nat /\ n # 0 /\ \A i \in 1..n : p[i] \in Part
    BY LenProperties, EmptySeq, ElementOfSeq DEF Path
  <1>2. a \in Path /\ b \in Path /\ SubSeq(p, 1, n - 1) \in Path /\ <<p[n]>> \in Path
    BY <1>1, SubSeqProperties DEF Path
  <1>3. p = SubSeq(p, 1, n - 1) \o <<p[n]>>
    <2>1. p = SubSeq(p, 1, n)
      BY SubSeqFull DEF Path
    <2>2. SubSeq(p, 1, n) = SubSeq(p, 1, n - 1) \o <<p[n]>>
      <3>1. 1 \in 1..Len(p) /\ n \in 1..Len(p)
        BY <1>1
      <3> HIDE DEF n
      <3> QED BY <3>1, SubSeqRecursiveSecond DEF Path
    <2> QED BY <2>1, <2>2, Zenon
  <1>4. SubSeq(p, 1, n - 1) = a \o b
    <2>1. 1 \in 1..(Len(p) + 1) /\ k \in (1 - 1)..Len(p) /\ n - 1 \in k..Len(p)
      BY <1>1
    <2> QED BY <2>1, ConcatAdjacentSubSeq DEF Path
  <1> DEFINE y == CleanPart(p[n])
  <1>5. CleanPath(<<p[n]>>) = <<y>> /\ y \in Part
    BY <1>1, CleanPathOne, CleanPartTokens
  <1> HIDE DEF n, a, b, y
  <1>6. CleanPath(p) = CleanPath(SubSeq(p, 1, n - 1)) \o <<y>>
    BY <1>2, <1>3, <1>5, CleanPathBoth
  <1>7. CleanPath(SubSeq(p, 1, n - 1)) = CleanPath(a) \o CleanPath(b)
    BY <1>2, <1>4, CleanPathBoth
  <1>8. CleanPath(a) \in Path /\ CleanPath(b) \in Path /\ <<y>> \in Path
    BY <1>2, <1>5, CleanPathParts DEF Path
  <1>9. CleanPath(p) = CleanPath(a) \o (CleanPath(b) \o <<y>>)
    <2>1. (CleanPath(a) \o CleanPath(b)) \o <<y>> = CleanPath(a) \o (CleanPath(b) \o <<y>>)
      BY <1>8, ConcatAssociative, SMTT(40) DEF Path
    <2> QED BY <1>6, <1>7, <2>1
  <1>10. CleanPath(b) \o <<y>> = Append(CleanPath(b), y)
    BY <1>5, <1>8, AppendIsConcat DEF Path
  <1> QED BY <1>8, <1>9, <1>10 DEF a, y, n

\* What a function puts for each token, in one.
Each(p, e)   == [j \in DOMAIN p |-> e[p[j]]]
Mapped(p, e) == FlattenSeq(Each(p, e))

\* A sequence of one, and what it adds to another.
LEMMA OneIs ==
    ASSUME NEW T, NEW x \in T, NEW s \in Seq(T)
    PROVE  <<x>> \in Seq(T) /\ Len(<<x>>) = 1 /\ <<x>>[1] = x /\ Append(s, x) = s \o <<x>>
  BY AppendIsConcat

\* What is put for each token of a part.
LEMMA EachIs ==
    ASSUME NEW p \in Part, NEW e \in [STRING -> Part]
    PROVE  /\ Each(p, e) \in Seq(Part) /\ Len(Each(p, e)) = Len(p) /\ Len(p) \in Nat
           /\ \A i \in 1..Len(p) : Each(p, e)[i] = e[p[i]] /\ p[i] \in STRING /\ e[p[i]] \in Part
  <1>1. DOMAIN p = 1..Len(p) /\ Len(p) \in Nat
    BY LenProperties DEF Part
  <1>2. ASSUME NEW i \in 1..Len(p)
        PROVE  p[i] \in STRING /\ e[p[i]] \in Part
    <2>1. p[i] \in STRING
      BY ElementOfSeq DEF Part
    <2> QED BY <2>1
  <1>3. Each(p, e) = [i \in 1..Len(p) |-> e[p[i]]]
    BY <1>1 DEF Each
  <1>4. Each(p, e) \in [1..Len(p) -> Part]
    BY <1>2, <1>3
  <1>5. Each(p, e) \in Seq(Part)
    BY <1>1, <1>4
  <1>6. Len(Each(p, e)) = Len(p)
    BY <1>1, <1>4
  <1> QED BY <1>1, <1>2, <1>3, <1>5, <1>6

\* Of two sequences in one.
LEMMA MappedBoth ==
    ASSUME NEW p \in Part, NEW q \in Part, NEW e \in [STRING -> Part]
    PROVE  Mapped(p \o q, e) = Mapped(p, e) \o Mapped(q, e)
  <1>1. /\ p \o q \in Part /\ Len(p \o q) = Len(p) + Len(q) /\ Len(p) \in Nat /\ Len(q) \in Nat
        /\ \A i \in 1..(Len(p) + Len(q)) : (p \o q)[i] = IF i <= Len(p) THEN p[i] ELSE q[i - Len(p)]
    BY ConcatProperties, LenProperties DEF Part
  <1> DEFINE a == Each(p, e)
             b == Each(q, e)
             c == Each(p \o q, e)
  <1>2. a \in Seq(Part) /\ Len(a) = Len(p) /\ \A i \in 1..Len(p) : a[i] = e[p[i]]
    BY EachIs
  <1>3. b \in Seq(Part) /\ Len(b) = Len(q) /\ \A i \in 1..Len(q) : b[i] = e[q[i]]
    BY EachIs
  <1>4. c \in Seq(Part) /\ Len(c) = Len(p) + Len(q) /\ \A i \in 1..(Len(p) + Len(q)) : c[i] = e[(p \o q)[i]]
    <2>1. c \in Seq(Part) /\ Len(c) = Len(p \o q) /\ \A i \in 1..Len(p \o q) : c[i] = e[(p \o q)[i]]
      BY <1>1, EachIs
    <2> QED BY <1>1, <2>1
  <1> HIDE DEF a, b, c
  <1>5. /\ a \o b \in Seq(Part) /\ Len(a \o b) = Len(p) + Len(q)
        /\ \A i \in 1..(Len(p) + Len(q)) : (a \o b)[i] = IF i <= Len(p) THEN a[i] ELSE b[i - Len(p)]
    <2>1. /\ a \o b \in Seq(Part) /\ Len(a \o b) = Len(a) + Len(b)
          /\ \A i \in 1..(Len(a) + Len(b)) : (a \o b)[i] = IF i <= Len(a) THEN a[i] ELSE b[i - Len(a)]
      BY <1>2, <1>3, ConcatProperties, ZenonT(60)
    <2> QED BY <1>2, <1>3, <2>1
  <1>6. ASSUME NEW i \in 1..(Len(p) + Len(q))
        PROVE  (a \o b)[i] = c[i]
    <2>1. CASE i <= Len(p)
      <3>1. i \in 1..Len(p)
        BY <1>1, <2>1
      <3> QED BY <1>1, <1>2, <1>4, <1>5, <2>1, <3>1, SMTT(40)
    <2>2. CASE ~(i <= Len(p))
      <3>1. i - Len(p) \in 1..Len(q)
        BY <1>1, <2>2
      <3> QED BY <1>1, <1>3, <1>4, <1>5, <2>2, <3>1, ZenonT(60)
    <2> QED BY <2>1, <2>2
  <1>7. a \o b = c
    BY <1>4, <1>5, <1>6, SeqEqual
  <1>8. FlattenSeq(a \o b) = FlattenSeq(a) \o FlattenSeq(b)
    BY <1>2, <1>3, FlattenBoth DEF Part
  <1> QED BY <1>7, <1>8 DEF Mapped, a, b, c

\* Of one token, and of none.
LEMMA MappedOne ==
    ASSUME NEW x \in STRING, NEW e \in [STRING -> Part]
    PROVE  Mapped(<<x>>, e) = e[x] /\ Mapped(<<>>, e) = <<>>
  <1> DEFINE y == e[x]
  <1>1. <<x>> \in Part /\ Len(<<x>>) = 1 /\ <<x>>[1] = x /\ y \in Part
    <2>1. <<x>> \in Seq(STRING) /\ Len(<<x>>) = 1 /\ <<x>>[1] = x
      <3>1. <<>> \in Seq(STRING)
        OBVIOUS
      <3> QED BY <3>1, OneIs
    <2> QED BY <2>1 DEF Part
  <1>2. Each(<<x>>, e) = <<y>>
    <2>1. /\ Each(<<x>>, e) \in Seq(Part) /\ Len(Each(<<x>>, e)) = Len(<<x>>)
          /\ \A i \in 1..Len(<<x>>) : Each(<<x>>, e)[i] = e[<<x>>[i]]
      BY <1>1, EachIs
    <2>2. 1 \in 1..Len(<<x>>)
      BY <1>1
    <2>3. Each(<<x>>, e)[1] = y
      BY <1>1, <2>1, <2>2
    <2> HIDE DEF y
    <2>4. <<y>> \in Seq(Part) /\ Len(<<y>>) = 1 /\ <<y>>[1] = y
      BY <1>1
    <2>5. \A i \in 1..1 : Each(<<x>>, e)[i] = <<y>>[i]
      BY <2>3, <2>4
    <2> QED BY <1>1, <2>1, <2>4, <2>5, SeqEqual
  <1> HIDE DEF y
  <1>3. Append(<<>>, y) = <<y>>
    BY <1>1
  <1>4. FlattenSeq(<<y>>) = <<>> \o y
    <2>1. <<>> \in Seq(Part)
      OBVIOUS
    <2>2. FlattenSeq(Append(<<>>, y)) = FlattenSeq(<<>>) \o y
      BY <1>1, <2>1, FlattenAppend DEF Part
    <2> QED BY <1>3, <2>2, FlattenNone
  <1>5. <<>> \o y = y
    BY <1>1, ConcatEmptySeq DEF Part
  <1>6. Each(<<>>, e) = <<>>
    BY DEF Each
  <1> QED BY <1>2, <1>4, <1>5, <1>6, FlattenNone DEF Mapped, y

\* Of one more token.
LEMMA MappedAppend ==
    ASSUME NEW p \in Part, NEW x \in STRING, NEW e \in [STRING -> Part]
    PROVE  Mapped(Append(p, x), e) = Mapped(p, e) \o e[x]
  <1>1. Append(p, x) = p \o <<x>> /\ <<x>> \in Part
    BY OneIs DEF Part
  <1>2. Mapped(p \o <<x>>, e) = Mapped(p, e) \o Mapped(<<x>>, e)
    BY <1>1, MappedBoth
  <1> QED BY <1>1, <1>2, MappedOne

\* The tokens there are.
LEMMA MappedTokens ==
    ASSUME NEW p \in Part, NEW e \in [STRING -> Part]
    PROVE  /\ Mapped(p, e) \in Part
           /\ \A x : x \in ToSet(Mapped(p, e)) <=> \E i \in 1..Len(p) : x \in ToSet(e[p[i]])
  <1> DEFINE c == Each(p, e)
  <1>1. c \in Seq(Part) /\ Len(c) = Len(p) /\ \A i \in 1..Len(p) : c[i] = e[p[i]]
    BY EachIs
  <1>2. Mapped(p, e) = FlattenSeq(c)
    BY DEF Mapped
  <1> HIDE DEF c
  <1>3. \A x : x \in ToSet(FlattenSeq(c)) <=> \E i \in 1..Len(c) : x \in ToSet(c[i])
    BY <1>1, FlattenTokens DEF Part
  <1>4. FlattenSeq(c) \in Part
    BY <1>1, FlattenType DEF Part
  <1> QED BY <1>1, <1>2, <1>3, <1>4

\* The tokens of a part of one.
LEMMA TokenOfOne ==
    ASSUME NEW x
    PROVE  ToSet(<<x>>) = {x}
  BY DEF ToSet

\* taskPathSegment, and the segment of a task's key.
LEMMA SegmentTokens ==
    ASSUME NEW t \in DOMAIN Key, NEW name \in Part
    PROVE  /\ CleanSegment(Key[t]) \in Part /\ ToSet(CleanSegment(Key[t])) \subseteq ToSet(Key[t]) \cup {"-", "default"}
           /\ TaskSegment(t, name) \in Part
           /\ ToSet(TaskSegment(t, name)) \subseteq ToSet(name) \cup ToSet(Key[t]) \cup {"-", "default"}
  <1> DEFINE k == Key[t]
  <1>1. k \in Part
    BY NamesAssumption DEF Part
  <1>2. CleanSegment(k) \in Part /\ ToSet(CleanSegment(k)) \subseteq ToSet(k) \cup {"-", "default"}
    BY <1>1, CleanSegmentTokens
  <1>3. CleanSegment(name) \in Part /\ ToSet(CleanSegment(name)) \subseteq ToSet(name) \cup {"-", "default"}
    BY CleanSegmentTokens
  <1>4. TaskSegment(t, name) = CleanSegment(name) \/ TaskSegment(t, name) = CleanSegment(k)
    BY DEF TaskSegment
  <1> HIDE DEF k
  <1>5. CASE TaskSegment(t, name) = CleanSegment(name)
    BY <1>2, <1>3, <1>5 DEF k
  <1>6. CASE TaskSegment(t, name) = CleanSegment(k)
    BY <1>2, <1>6 DEF k
  <1> QED BY <1>4, <1>5, <1>6

----------------------------------------------------------------------------
(* One token after the other.                                               *)

Swap(token, tokens) == [x \in STRING |-> IF x = token THEN tokens ELSE <<x>>]

\* Swap puts something for its token and leaves the others.
LEMMA SwapIs ==
    ASSUME NEW token, NEW tokens \in Part
    PROVE  /\ Swap(token, tokens) \in [STRING -> Part]
           /\ \A x \in STRING : Swap(token, tokens)[x] = IF x = token THEN tokens ELSE <<x>>
  <1>1. ASSUME NEW x \in STRING
        PROVE  (IF x = token THEN tokens ELSE <<x>>) \in Part
    <2>1. <<>> \in Seq(STRING)
      OBVIOUS
    <2>2. <<x>> \in Part
      BY <2>1, OneIs DEF Part
    <2> QED BY <2>2
  <1> QED BY <1>1 DEF Swap

\* Swapped is such a replacement, token by token.
LEMMA SwappedIs ==
    ASSUME NEW p \in Part, NEW token, NEW tokens \in Part
    PROVE  Swapped(p, token, tokens) = Mapped(p, Swap(token, tokens))
  <1>1. DOMAIN p = 1..Len(p)
    BY LenProperties DEF Part
  <1>2. \A j \in DOMAIN p : p[j] \in STRING
    <2> SUFFICES ASSUME NEW j \in DOMAIN p
                 PROVE  p[j] \in STRING
      OBVIOUS
    <2> QED BY <1>1, ElementOfSeq DEF Part
  <1>3. \A j \in DOMAIN p : Swap(token, tokens)[p[j]] = IF p[j] = token THEN tokens ELSE <<p[j]>>
    <2>1. \A x \in STRING : Swap(token, tokens)[x] = IF x = token THEN tokens ELSE <<x>>
      BY SwapIs
    <2> QED BY <1>2, <2>1
  <1>4. Each(p, Swap(token, tokens)) = [j \in DOMAIN p |-> IF p[j] = token THEN tokens ELSE <<p[j]>>]
    BY <1>3 DEF Each
  <1> QED BY <1>4 DEF Mapped, Swapped

Fill(t, segment, second) == [x \in STRING |-> Filled(x, t, segment, second)]

\* What ObjectName puts for a token is made of the task's part, its key, the times, or the token.
LEMMA FillTokens ==
    ASSUME NEW t \in DOMAIN Key, NEW segment \in Part, NEW second \in DOMAIN Timestamp
    PROVE  \A x \in STRING : /\ Filled(x, t, segment, second) \in Part
                             /\ ToSet(Filled(x, t, segment, second)) \subseteq
                                    ToSet(segment) \cup ToSet(Key[t]) \cup {x, "-", "default", Timestamp[second], Date[second]}
  <1>1. Timestamp[second] \in STRING /\ Date[second] \in STRING
    BY NamesAssumption
  <1> DEFINE S == ToSet(segment) \cup ToSet(Key[t]) \cup {"-", "default", Timestamp[second], Date[second]}
             w == CleanSegment(Key[t])
             ts == Timestamp[second]
             dt == Date[second]
  <1>2. w \in Part /\ ToSet(w) \subseteq ToSet(Key[t]) \cup {"-", "default"}
    <2>1. <<>> \in Part
      BY EmptySeq DEF Part
    <2> QED BY <2>1, SegmentTokens
  <1>3. \A y \in STRING : <<y>> \in Part /\ ToSet(<<y>>) = {y}
    <2> SUFFICES ASSUME NEW y \in STRING
                 PROVE  <<y>> \in Part /\ ToSet(<<y>>) = {y}
      OBVIOUS
    <2>1. <<>> \in Seq(STRING)
      OBVIOUS
    <2>2. <<y>> \in Part
      BY <2>1, OneIs DEF Part
    <2>3. ToSet(<<y>>) = {y}
      BY TokenOfOne
    <2> QED BY <2>2, <2>3
  <1> HIDE DEF w
  <1>4. \A x : Filled(x, t, segment, second) \in {segment, w, <<ts>>, <<dt>>, <<x>>}
    BY DEF Filled, w
  <1>5. <<ts>> \in Part /\ <<dt>> \in Part /\ ToSet(<<ts>>) = {ts} /\ ToSet(<<dt>>) = {dt}
    <2> HIDE DEF ts, dt
    <2> QED BY <1>1, <1>3 DEF ts, dt
  <1> HIDE DEF ts, dt
  <1>6. ASSUME NEW x \in STRING
        PROVE  Filled(x, t, segment, second) \in Part /\ ToSet(Filled(x, t, segment, second)) \subseteq S \cup {x}
    <2> DEFINE f == Filled(x, t, segment, second)
    <2>1. f = segment \/ f = w \/ f = <<ts>> \/ f = <<dt>> \/ f = <<x>>
      BY <1>4
    <2>2. <<x>> \in Part /\ ToSet(<<x>>) = {x}
      BY <1>3
    <2> HIDE DEF f
    <2>3. f \in Part
      BY <1>2, <1>5, <2>1, <2>2
    <2>4. ToSet(f) \subseteq S \cup {x}
      BY <1>2, <1>5, <2>1, <2>2 DEF ts, dt
    <2> QED BY <2>3, <2>4 DEF f
  <1> QED BY <1>6

\* What is put for the tokens of a template at once, as a function.
LEMMA FillIs ==
    ASSUME NEW t \in DOMAIN Key, NEW segment \in Part, NEW second \in DOMAIN Timestamp
    PROVE  /\ Fill(t, segment, second) \in [STRING -> Part]
           /\ \A x \in STRING : Fill(t, segment, second)[x] = Filled(x, t, segment, second)
  <1>1. \A x \in STRING : Filled(x, t, segment, second) \in Part
    BY FillTokens
  <1> QED BY <1>1 DEF Fill

\* FilledPart is a replacement token by token.
LEMMA FilledPartIs ==
    ASSUME NEW p \in Part, NEW t \in DOMAIN Key, NEW segment \in Part, NEW second \in DOMAIN Timestamp
    PROVE  FilledPart(p, t, segment, second) = Mapped(p, Fill(t, segment, second))
  <1>1. DOMAIN p = 1..Len(p)
    BY LenProperties DEF Part
  <1>2. \A j \in DOMAIN p : p[j] \in STRING
    <2> SUFFICES ASSUME NEW j \in DOMAIN p
                 PROVE  p[j] \in STRING
      OBVIOUS
    <2> QED BY <1>1, ElementOfSeq DEF Part
  <1>3. \A j \in DOMAIN p : Fill(t, segment, second)[p[j]] = Filled(p[j], t, segment, second)
    <2>1. \A x \in STRING : Fill(t, segment, second)[x] = Filled(x, t, segment, second)
      BY FillIs
    <2> QED BY <1>2, <2>1
  <1>4. Each(p, Fill(t, segment, second)) = [j \in DOMAIN p |-> Filled(p[j], t, segment, second)]
    BY <1>3 DEF Each
  <1> QED BY <1>4 DEF Mapped, FilledPart

\* The tokens of a sequence with one added.
LEMMA TokensAppend ==
    ASSUME NEW T, NEW s \in Seq(T), NEW x \in T
    PROVE  ToSet(Append(s, x)) = ToSet(s) \cup {x}
  <1>1. /\ Append(s, x) \in Seq(T) /\ Len(Append(s, x)) = Len(s) + 1 /\ Len(s) \in Nat
        /\ (\A i \in 1..Len(s) : Append(s, x)[i] = s[i]) /\ Append(s, x)[Len(s) + 1] = x
    BY AppendProperties, LenProperties
  <1>2. DOMAIN s = 1..Len(s) /\ DOMAIN Append(s, x) = 1..(Len(s) + 1)
    BY <1>1, LenProperties
  <1> DEFINE r == Append(s, x)
  <1> HIDE DEF r
  <1>3. /\ DOMAIN r = 1..(Len(s) + 1) /\ (\A i \in 1..Len(s) : r[i] = s[i]) /\ r[Len(s) + 1] = x
    BY <1>1, <1>2 DEF r
  <1>4. ASSUME NEW y \in ToSet(r)
        PROVE  y \in ToSet(s) \cup {x}
    <2>1. PICK i \in 1..(Len(s) + 1) : y = r[i]
      BY <1>3, <1>4 DEF ToSet
    <2>2. CASE i = Len(s) + 1
      BY <1>3, <2>1, <2>2
    <2>3. CASE i # Len(s) + 1
      <3>1. i \in 1..Len(s)
        BY <1>1, <2>3
      <3> QED BY <1>2, <1>3, <2>1, <3>1 DEF ToSet
    <2> QED BY <2>2, <2>3
  <1>5. ASSUME NEW y \in ToSet(s)
        PROVE  y \in ToSet(r)
    <2>1. PICK i \in 1..Len(s) : y = s[i]
      BY <1>2, <1>5 DEF ToSet
    <2>2. i \in 1..(Len(s) + 1)
      BY <1>1
    <2> QED BY <1>3, <2>1, <2>2 DEF ToSet
  <1>6. x \in ToSet(r)
    <2>1. Len(s) + 1 \in 1..(Len(s) + 1)
      BY <1>1
    <2> QED BY <1>3, <2>1 DEF ToSet
  <1> QED BY <1>4, <1>5, <1>6 DEF r

\* The tokens of a part with one added.
LEMMA TokensAdded ==
    ASSUME NEW p \in Part, NEW x \in STRING
    PROVE  ToSet(Append(p, x)) = ToSet(p) \cup {x}
  <1> DEFINE T == STRING
  <1>1. p \in Seq(T) /\ x \in T
    BY DEF Part
  <1> HIDE DEF T
  <1>2. \A s \in Seq(T) : \A y \in T : ToSet(Append(s, y)) = ToSet(s) \cup {y}
    BY TokensAppend
  <1> QED BY <1>1, <1>2

\* An empty part stays empty, whatever is put for tokens.
LEMMA MappedNone ==
    ASSUME NEW e
    PROVE  Mapped(<<>>, e) = <<>>
  <1>1. Each(<<>>, e) = <<>>
    BY DEF Each
  <1> QED BY <1>1, FlattenNone DEF Mapped

\* A part without the token stays.
LEMMA SwapNone ==
    ASSUME NEW p \in Part, NEW token, token \notin ToSet(p), NEW tokens \in Part
    PROVE  Mapped(p, Swap(token, tokens)) = p
  <1> DEFINE e == Swap(token, tokens)
             S == {q \in Part : token \notin ToSet(q) => Mapped(q, e) = q}
  <1>1. e \in [STRING -> Part] /\ \A x \in STRING : e[x] = IF x = token THEN tokens ELSE <<x>>
    BY SwapIs
  <1> HIDE DEF e
  <1>2. <<>> \in S
    <2>1. <<>> \in Part
      BY EmptySeq DEF Part
    <2>2. Mapped(<<>>, e) = <<>>
      BY <1>1, FlattenNone DEF Mapped, Each
    <2> QED BY <2>1, <2>2
  <1>3. ASSUME NEW q \in Seq(STRING), NEW x \in STRING, q \in S
        PROVE  Append(q, x) \in S
    <2>1. Append(q, x) \in Part /\ Append(q, x) = q \o <<x>> /\ ToSet(Append(q, x)) = ToSet(q) \cup {x}
      <3>1. q \in Seq(STRING) /\ x \in STRING
        OBVIOUS
      <3>2. Append(q, x) \in Seq(STRING)
        BY ONLY <3>1, AppendProperties
      <3>3. Append(q, x) = q \o <<x>>
        BY ONLY <3>1, AppendIsConcat
      <3>4. ToSet(Append(q, x)) = ToSet(q) \cup {x}
        BY TokensAdded DEF Part
      <3> QED BY ONLY <3>2, <3>3, <3>4 DEF Part
    <2>2. Mapped(Append(q, x), e) = Mapped(q, e) \o e[x]
      BY <1>1, MappedAppend DEF Part
    <2>3. ASSUME token \notin ToSet(Append(q, x))
          PROVE  Mapped(Append(q, x), e) = Append(q, x)
      <3>1. token \notin ToSet(q) /\ token # x
        BY <2>1, <2>3
      <3>2. Mapped(q, e) = q
        BY <1>3, <3>1
      <3>3. e[x] = <<x>>
        BY <1>1, <3>1
      <3> QED BY <2>1, <2>2, <3>2, <3>3
    <2> QED BY <2>1, <2>3
  <1> HIDE DEF S
  <1>4. Part \subseteq S
    BY <1>2, <1>3, InductiveSeq DEF Part
  <1>5. p \in S
    BY <1>4
  <1> QED BY <1>5 DEF S, e

\* What is put for tokens depends on those there are.
LEMMA MappedAlike ==
    ASSUME NEW p \in Part, NEW d, NEW e, \A x \in ToSet(p) : d[x] = e[x]
    PROVE  Mapped(p, d) = Mapped(p, e)
  <1>1. \A i \in DOMAIN p : p[i] \in ToSet(p)
    BY DEF ToSet
  <1>2. Each(p, d) = Each(p, e)
    BY <1>1, Zenon DEF Each
  <1> QED BY <1>2 DEF Mapped

\* What is put for one token and then for others.
Then(d, e) == [x \in STRING |-> Mapped(d[x], e)]

\* Two replacements, one after the other, are one.
LEMMA MappedThen ==
    ASSUME NEW p \in Part, NEW d \in [STRING -> Part], NEW e \in [STRING -> Part]
    PROVE  /\ Then(d, e) \in [STRING -> Part] /\ \A x \in STRING : Then(d, e)[x] = Mapped(d[x], e)
           /\ Mapped(Mapped(p, d), e) = Mapped(p, Then(d, e))
  <1> DEFINE f == Then(d, e)
             S == {q \in Part : Mapped(Mapped(q, d), e) = Mapped(q, f)}
  <1>1. f \in [STRING -> Part] /\ \A x \in STRING : f[x] = Mapped(d[x], e)
    <2>1. \A x \in STRING : Mapped(d[x], e) \in Part
      <3> SUFFICES ASSUME NEW x \in STRING
                   PROVE  Mapped(d[x], e) \in Part
        OBVIOUS
      <3>1. d[x] \in Part
        OBVIOUS
      <3> QED BY <3>1, MappedTokens
    <2> QED BY <2>1 DEF Then
  <1> HIDE DEF f
  <1>2. <<>> \in S
    <2>1. <<>> \in Part
      BY EmptySeq DEF Part
    <2>2. Mapped(<<>>, d) = <<>> /\ Mapped(<<>>, e) = <<>> /\ Mapped(<<>>, f) = <<>>
      BY MappedNone
    <2> QED BY <2>1, <2>2
  <1>3. ASSUME NEW q \in Seq(STRING), NEW x \in STRING, q \in S
        PROVE  Append(q, x) \in S
    <2>1. Append(q, x) \in Part
      BY AppendProperties DEF Part
    <2>2. Mapped(Append(q, x), f) = Mapped(q, f) \o f[x]
      BY <1>1, MappedAppend DEF Part
    <2>3. Mapped(Append(q, x), d) = Mapped(q, d) \o d[x]
      BY MappedAppend DEF Part
    <2>4. Mapped(q, d) \in Part /\ d[x] \in Part
      BY MappedTokens DEF Part
    <2>5. Mapped(Mapped(q, d) \o d[x], e) = Mapped(Mapped(q, d), e) \o Mapped(d[x], e)
      BY <2>4, MappedBoth, ZenonT(60)
    <2>6. Mapped(Mapped(q, d), e) = Mapped(q, f)
      BY <1>3
    <2>7. f[x] = Mapped(d[x], e)
      BY <1>1
    <2> QED BY <2>1, <2>2, <2>3, <2>5, <2>6, <2>7
  <1> HIDE DEF S
  <1>4. Part \subseteq S
    BY <1>2, <1>3, InductiveSeq DEF Part
  <1>5. Mapped(Mapped(p, d), e) = Mapped(p, f)
    BY <1>4 DEF S
  <1> QED BY <1>1, <1>5 DEF f

\* Where there is no time, what is put for all tokens at once is what is put for one
\* after the other, unless what is put for the first looks like one of the others.
LEMMA FilledOneByOne ==
    ASSUME NEW p \in Part, ToSet(p) \cap {"{timestamp}", "{date}"} = {}, NEW t \in DOMAIN Key,
           NEW segment \in Part, "{task_name}" \notin ToSet(segment), "{task_id}" \notin ToSet(segment),
           NEW second \in DOMAIN Timestamp
    PROVE  FilledPart(p, t, segment, second) = KeyedPart(p, segment, CleanSegment(Key[t]))
  <1> DEFINE w == CleanSegment(Key[t])
             f == Fill(t, segment, second)
             a == Swap("{task}", segment)
             n == Swap("{task_name}", segment)
             b == Swap("{task_id}", w)
             g == Then(a, n)
             h == Then(g, b)
  <1>1. w \in Part
    BY SegmentTokens DEF Part
  <1>2. \A x \in STRING : f[x] = Filled(x, t, segment, second)
    BY FillIs
  <1>3. /\ a \in [STRING -> Part] /\ \A x \in STRING : a[x] = IF x = "{task}" THEN segment ELSE <<x>>
        /\ n \in [STRING -> Part] /\ \A x \in STRING : n[x] = IF x = "{task_name}" THEN segment ELSE <<x>>
    <2>1. a \in [STRING -> Part] /\ \A x \in STRING : a[x] = IF x = "{task}" THEN segment ELSE <<x>>
      BY SwapIs
    <2>2. n \in [STRING -> Part] /\ \A x \in STRING : n[x] = IF x = "{task_name}" THEN segment ELSE <<x>>
      BY SwapIs
    <2> QED BY <2>1, <2>2
  <1>4. b \in [STRING -> Part] /\ \A x \in STRING : b[x] = IF x = "{task_id}" THEN w ELSE <<x>>
    <2> HIDE DEF w
    <2> QED BY <1>1, SwapIs
  <1>5. Mapped(segment, n) = segment /\ Mapped(segment, b) = segment
    <2>1. Mapped(segment, n) = segment
      BY SwapNone
    <2>2. Mapped(segment, b) = segment
      BY <1>1, SwapNone
    <2> QED BY <2>1, <2>2
  <1>6. ASSUME NEW x \in STRING, x \notin {"{timestamp}", "{date}"}
        PROVE  f[x] = IF x \in {"{task}", "{task_name}"} THEN segment ELSE IF x = "{task_id}" THEN w ELSE <<x>>
    <2>1. f[x] = Filled(x, t, segment, second)
      BY <1>2
    <2> HIDE DEF f
    <2>2. x # "{timestamp}" /\ x # "{date}"
      BY <1>6
    <2> QED BY <2>1, <2>2 DEF Filled
  <1>7. Mapped(p, f) = FilledPart(p, t, segment, second)
    BY FilledPartIs, ZenonT(60)
  <1> HIDE DEF w, f, a, n, b
  <1>8. g \in [STRING -> Part] /\ (\A x \in STRING : g[x] = Mapped(a[x], n)) /\ Mapped(Mapped(p, a), n) = Mapped(p, g)
    <2>1. p \in Part /\ a \in [STRING -> Part] /\ n \in [STRING -> Part]
      BY <1>3
    <2> QED BY ONLY <2>1, MappedThen, ZenonT(60)
  <1> HIDE DEF g
  <1>9. h \in [STRING -> Part] /\ (\A x \in STRING : h[x] = Mapped(g[x], b)) /\ Mapped(Mapped(p, g), b) = Mapped(p, h)
    <2>1. p \in Part /\ g \in [STRING -> Part] /\ b \in [STRING -> Part]
      BY <1>4, <1>8
    <2> QED BY ONLY <2>1, MappedThen, ZenonT(60)
  <1> HIDE DEF h
  <1>10. KeyedPart(p, segment, w) = Mapped(Mapped(Mapped(p, a), n), b)
    <2>1. Swapped(p, "{task}", segment) = Mapped(p, a) /\ Mapped(p, a) \in Part
      BY <1>3, SwappedIs, MappedTokens, ZenonT(60) DEF a
    <2> DEFINE c == Mapped(p, a)
               d == Mapped(c, n)
    <2> HIDE DEF c
    <2>2. c \in Part
      BY <2>1 DEF c
    <2>3. Swapped(c, "{task_name}", segment) = d
      BY <2>2, SwappedIs DEF n
    <2>4. d \in Part
      BY <1>3, <2>2, MappedTokens
    <2> HIDE DEF d
    <2>5. Swapped(d, "{task_id}", w) = Mapped(d, b)
      BY <1>1, <2>4, SwappedIs DEF b
    <2> QED BY <2>1, <2>3, <2>5 DEF KeyedPart, c, d
  <1>11. ASSUME NEW x \in STRING, x \notin {"{timestamp}", "{date}"}
         PROVE  h[x] = f[x]
    <2>1. h[x] = Mapped(Mapped(a[x], n), b)
      BY <1>8, <1>9
    <2>2. Mapped(<<x>>, n) = n[x] /\ Mapped(<<x>>, b) = b[x]
      BY <1>3, <1>4, MappedOne
    <2>3. CASE x = "{task}"
      <3>1. a[x] = segment /\ f[x] = segment
        BY <1>3, <1>6, <1>11, <2>3
      <3> QED BY <1>5, <2>1, <3>1
    <2>4. CASE x = "{task_name}"
      <3>1. a[x] = <<x>> /\ n[x] = segment /\ f[x] = segment
        BY <1>3, <1>6, <1>11, <2>4
      <3> QED BY <1>5, <2>1, <2>2, <3>1
    <2>5. CASE x = "{task_id}"
      <3>1. a[x] = <<x>> /\ n[x] = <<x>> /\ b[x] = w /\ f[x] = w
        BY <1>3, <1>4, <1>6, <1>11, <2>5
      <3> QED BY <2>1, <2>2, <3>1
    <2>6. CASE x \notin {"{task}", "{task_name}", "{task_id}"}
      <3>1. a[x] = <<x>> /\ n[x] = <<x>> /\ b[x] = <<x>> /\ f[x] = <<x>>
        BY <1>3, <1>4, <1>6, <1>11, <2>6
      <3> QED BY <2>1, <2>2, <3>1
    <2> QED BY <2>3, <2>4, <2>5, <2>6
  <1>12. \A x \in ToSet(p) : x \in STRING /\ x \notin {"{timestamp}", "{date}"}
    <2>1. \A x \in ToSet(p) : x \in STRING
      <3>1. p \in Part
        OBVIOUS
      <3> QED BY ONLY <3>1, ElementOfSeq, LenProperties DEF Part, ToSet
    <2>2. \A x \in ToSet(p) : x \notin {"{timestamp}", "{date}"}
      OBVIOUS
    <2> QED BY <2>1, <2>2
  <1>13. Mapped(p, h) = Mapped(p, f)
    <2>1. \A x \in ToSet(p) : h[x] = f[x]
      BY <1>11, <1>12
    <2> QED BY <2>1, MappedAlike
  <1> QED BY <1>7, <1>8, <1>9, <1>10, <1>13 DEF w

\* What is put for a part of a template.
LEMMA FilledPartTokens ==
    ASSUME NEW p \in Part, NEW t \in DOMAIN Key, NEW segment \in Part, NEW second \in DOMAIN Timestamp
    PROVE  /\ FilledPart(p, t, segment, second) \in Part
           /\ ToSet(FilledPart(p, t, segment, second)) \subseteq
                ToSet(p) \cup ToSet(segment) \cup ToSet(Key[t]) \cup {"-", "default", Timestamp[second], Date[second]}
           /\ "{timestamp}" \in ToSet(p) => Timestamp[second] \in ToSet(FilledPart(p, t, segment, second))
           /\ p = <<>> => FilledPart(p, t, segment, second) = <<>>
  <1> DEFINE f == Fill(t, segment, second)
             r == FilledPart(p, t, segment, second)
  <1>1. f \in [STRING -> Part]
    BY FillIs
  <1>2. r = Mapped(p, f)
    BY FilledPartIs
  <1>3. \A x \in STRING : f[x] = Filled(x, t, segment, second)
    BY FillIs
  <1> HIDE DEF f
  <1>4. r \in Part /\ \A x : x \in ToSet(r) <=> \E i \in 1..Len(p) : x \in ToSet(f[p[i]])
    BY <1>1, <1>2, MappedTokens
  <1> HIDE DEF r
  <1>5. DOMAIN p = 1..Len(p) /\ \A i \in 1..Len(p) : p[i] \in STRING
    <2>1. \A i \in 1..Len(p) : p[i] \in STRING
      <3> SUFFICES ASSUME NEW i \in 1..Len(p)
                   PROVE  p[i] \in STRING
        OBVIOUS
      <3> QED BY ElementOfSeq DEF Part
    <2> QED BY <2>1, LenProperties DEF Part
  <1>6. ASSUME NEW x \in ToSet(r)
        PROVE  x \in ToSet(p) \cup ToSet(segment) \cup ToSet(Key[t]) \cup {"-", "default", Timestamp[second], Date[second]}
    <2>1. PICK i \in 1..Len(p) : x \in ToSet(f[p[i]])
      BY <1>4, <1>6
    <2>2. ToSet(Filled(p[i], t, segment, second)) \subseteq
            ToSet(segment) \cup ToSet(Key[t]) \cup {p[i], "-", "default", Timestamp[second], Date[second]}
      BY <1>5, FillTokens, ZenonT(60)
    <2>3. f[p[i]] = Filled(p[i], t, segment, second)
      BY <1>3, <1>5
    <2>4. p[i] \in ToSet(p)
      BY <1>5 DEF ToSet
    <2> QED BY <2>1, <2>2, <2>3, <2>4
  <1>7. ASSUME "{timestamp}" \in ToSet(p)
        PROVE  Timestamp[second] \in ToSet(r)
    <2>1. PICK i \in 1..Len(p) : p[i] = "{timestamp}"
      BY <1>5, <1>7 DEF ToSet
    <2>2. Filled("{timestamp}", t, segment, second) = <<Timestamp[second]>>
      BY DEF Filled
    <2>3. f[p[i]] = <<Timestamp[second]>>
      BY <1>3, <1>5, <2>1, <2>2
    <2>4. Timestamp[second] \in ToSet(f[p[i]])
      BY <2>3, TokenOfOne
    <2> QED BY <1>4, <2>4
  <1>8. p = <<>> => r = <<>>
    BY <1>2, MappedNone
  <1> QED BY <1>4, <1>6, <1>7, <1>8 DEF r

\* Any other token stays.
LEMMA SwappedKeeps ==
    ASSUME NEW p \in Part, NEW token, NEW tokens \in Part
    PROVE  /\ Swapped(p, token, tokens) \in Part
           /\ ToSet(p) \ {token} \subseteq ToSet(Swapped(p, token, tokens))
  <1> DEFINE e == Swap(token, tokens)
  <1>1. Swapped(p, token, tokens) = Mapped(p, e)
    BY SwappedIs
  <1>2. e \in [STRING -> Part] /\ \A x \in STRING : e[x] = IF x = token THEN tokens ELSE <<x>>
    BY SwapIs
  <1> HIDE DEF e
  <1>3. Mapped(p, e) \in Part /\ \A x : x \in ToSet(Mapped(p, e)) <=> \E i \in 1..Len(p) : x \in ToSet(e[p[i]])
    BY <1>2, MappedTokens
  <1>4. DOMAIN p = 1..Len(p)
    BY LenProperties DEF Part
  <1>5. ASSUME NEW x \in ToSet(p) \ {token}
        PROVE  x \in ToSet(Mapped(p, e))
    <2>1. PICK i \in 1..Len(p) : x = p[i]
      BY <1>4, <1>5 DEF ToSet
    <2>2. x \in STRING
      BY <2>1, ElementOfSeq DEF Part
    <2>3. e[p[i]] = <<x>>
      BY <1>2, <1>5, <2>1, <2>2
    <2>4. x \in ToSet(e[p[i]])
      BY <2>3, TokenOfOne
    <2> QED BY <1>3, <2>4
  <1> QED BY <1>1, <1>3, <1>5

\* The tokens of a part in which something is put for one.
LEMMA SwappedTokens ==
    ASSUME NEW p \in Part, NEW token, NEW tokens \in Part
    PROVE  Swapped(p, token, tokens) \in Part /\ ToSet(Swapped(p, token, tokens)) \subseteq ToSet(p) \cup ToSet(tokens)
  <1> DEFINE e == Swap(token, tokens)
  <1>1. e \in [STRING -> Part] /\ \A x \in STRING : e[x] = IF x = token THEN tokens ELSE <<x>>
    BY SwapIs
  <1>2. Swapped(p, token, tokens) = Mapped(p, e)
    BY SwappedIs
  <1> HIDE DEF e
  <1>3. /\ Mapped(p, e) \in Part
        /\ \A x : x \in ToSet(Mapped(p, e)) <=> \E i \in 1..Len(p) : x \in ToSet(e[p[i]])
    BY <1>1, MappedTokens
  <1>4. ASSUME NEW i \in 1..Len(p)
        PROVE  ToSet(e[p[i]]) \subseteq ToSet(p) \cup ToSet(tokens)
    <2>1. p[i] \in STRING /\ p[i] \in ToSet(p)
      <3>1. i \in DOMAIN p
        BY LenProperties DEF Part
      <3> QED BY <3>1, ElementOfSeq DEF Part, ToSet
    <2>2. CASE p[i] = token
      BY <1>1, <2>1, <2>2
    <2>3. CASE p[i] # token
      <3>1. e[p[i]] = <<p[i]>>
        BY <1>1, <2>1, <2>3
      <3> QED BY <2>1, <3>1, TokenOfOne
    <2> QED BY <2>2, <2>3
  <1>5. ToSet(Mapped(p, e)) \subseteq ToSet(p) \cup ToSet(tokens)
    BY <1>3, <1>4
  <1> QED BY <1>2, <1>3, <1>5

\* What is put for one token after the other.
LEMMA KeyedPartKeeps ==
    ASSUME NEW p \in Part, NEW segment \in Part, NEW id \in Part
    PROVE  /\ KeyedPart(p, segment, id) \in Part
           /\ ToSet(p) \ Tokens \subseteq ToSet(KeyedPart(p, segment, id))
           /\ ToSet(KeyedPart(p, segment, id)) \subseteq ToSet(p) \cup ToSet(segment) \cup ToSet(id)
  <1> DEFINE a == Swapped(p, "{task}", segment)
             n == Swapped(a, "{task_name}", segment)
             b == Swapped(n, "{task_id}", id)
  <1>1. a \in Part /\ ToSet(p) \ {"{task}"} \subseteq ToSet(a) /\ ToSet(a) \subseteq ToSet(p) \cup ToSet(segment)
    BY SwappedKeeps, SwappedTokens
  <1>2. b = KeyedPart(p, segment, id)
    BY DEF KeyedPart
  <1> HIDE DEF a
  <1>3. n \in Part /\ ToSet(a) \ {"{task_name}"} \subseteq ToSet(n) /\ ToSet(n) \subseteq ToSet(a) \cup ToSet(segment)
    BY <1>1, SwappedKeeps, SwappedTokens
  <1> HIDE DEF n
  <1>4. b \in Part /\ ToSet(n) \ {"{task_id}"} \subseteq ToSet(b) /\ ToSet(b) \subseteq ToSet(n) \cup ToSet(id)
    BY <1>3, SwappedKeeps, SwappedTokens
  <1> HIDE DEF b
  <1> QED BY <1>1, <1>2, <1>3, <1>4 DEF Tokens

\* The tokens of two sequences in one.
LEMMA TokensBoth ==
    ASSUME NEW T, NEW a \in Seq(T), NEW b \in Seq(T)
    PROVE  ToSet(a \o b) = ToSet(a) \cup ToSet(b)
  <1>1. Range(a \o b) = Range(a) \cup Range(b)
    BY RangeConcatenation
  <1>2. \A s : ToSet(s) = Range(s)
    BY DEF ToSet, Range
  <1> QED BY <1>1, <1>2

----------------------------------------------------------------------------
(* The name of an object before it is cleaned.                              *)

\* ObjectName's "nowledge-mem-%s-%s".
Added(t, name, second) == <<"nowledge-mem", "-">> \o TaskSegment(t, name) \o <<"-", Timestamp[second]>>

Full(template, t, name, second) ==
    LET given == Given(template, t, name, second)
    IN  IF Last(given) # <<>> THEN given ELSE Extended(given, Added(t, name, second))

Whole(template, t, name, second, extension) ==
    LET full == Full(template, t, name, second)
    IN  IF EndsWith(full, PlainExtension) \/ EndsWith(full, EncryptedExtension)
        THEN full ELSE Extended(full, extension)

\* ObjectName cleans the path that Whole names.
LEMMA ObjectNameIs ==
    ASSUME NEW template, NEW t, NEW name, NEW second, NEW extension
    PROVE  ObjectName(template, t, name, second, extension)
             = CleanPath(Whole(template, t, name, second, extension))
  BY DEF ObjectName, Whole, Full, Added

\* A template with its tokens filled has as many parts.
LEMMA GivenIs ==
    ASSUME NEW template \in Path, NEW t \in DOMAIN Key, NEW name \in Part, NEW second \in DOMAIN Timestamp
    PROVE  /\ Given(template, t, name, second) \in Path
           /\ Len(Given(template, t, name, second)) = Len(template)
           /\ \A i \in 1..Len(template) :
                Given(template, t, name, second)[i] = FilledPart(template[i], t, TaskSegment(t, name), second)
  <1>1. DOMAIN template = 1..Len(template) /\ Len(template) \in Nat
    BY LenProperties DEF Path
  <1>2. TaskSegment(t, name) \in Part
    BY SegmentTokens
  <1>3. ASSUME NEW i \in 1..Len(template)
        PROVE  FilledPart(template[i], t, TaskSegment(t, name), second) \in Part
    <2>1. template[i] \in Part
      BY ElementOfSeq DEF Path
    <2> QED BY <1>2, <2>1, FilledPartTokens
  <1> DEFINE g == Given(template, t, name, second)
  <1>4. g = [i \in 1..Len(template) |-> FilledPart(template[i], t, TaskSegment(t, name), second)]
    BY <1>1 DEF Given
  <1>5. g \in [1..Len(template) -> Part]
    BY <1>3, <1>4
  <1> HIDE DEF g
  <1>6. g \in Path /\ Len(g) = Len(template)
    BY <1>1, <1>5 DEF Path
  <1> QED BY <1>4, <1>6 DEF g

\* Only the last part of a path changes when it is extended.
LEMMA ExtendedIs ==
    ASSUME NEW p \in Path, p # <<>>, NEW e \in Part
    PROVE  /\ Extended(p, e) \in Path /\ Len(Extended(p, e)) = Len(p)
           /\ \A i \in 1..(Len(p) - 1) : Extended(p, e)[i] = p[i]
           /\ Extended(p, e)[Len(p)] = p[Len(p)] \o e
  <1>1. Len(p) \in Nat /\ Len(p) \in 1..Len(p)
    BY EmptySeq DEF Path
  <1>2. p[Len(p)] \in Part
    BY <1>1, ElementOfSeq DEF Path
  <1>3. p[Len(p)] \o e \in Part
    BY <1>2, ConcatProperties DEF Part
  <1> DEFINE x == p[Len(p)] \o e
             q == [p EXCEPT ![Len(p)] = x]
  <1>4. Extended(p, e) = q
    BY DEF Extended
  <1> HIDE DEF x
  <1>5. q \in Path /\ Len(q) = Len(p) /\ \A j \in 1..Len(p) : q[j] = IF j = Len(p) THEN x ELSE p[j]
    BY <1>1, <1>3, ExceptSeq DEF Path, x
  <1> HIDE DEF q
  <1>6. \A i \in 1..(Len(p) - 1) : q[i] = p[i]
    BY <1>1, <1>5
  <1>7. q[Len(p)] = x
    BY <1>1, <1>5
  <1> QED BY <1>4, <1>5, <1>6, <1>7 DEF x

\* Sequences that are written out.
LEMMA TwoAre ==
    ASSUME NEW T, NEW x \in T, NEW y \in T
    PROVE  <<x, y>> \in Seq(T) /\ Len(<<x, y>>) = 2 /\ <<x, y>>[1] = x /\ <<x, y>>[2] = y /\ ToSet(<<x, y>>) = {x, y}
  <1>1. <<x, y>> \in Seq(T) /\ Len(<<x, y>>) = 2 /\ <<x, y>>[1] = x /\ <<x, y>>[2] = y
    OBVIOUS
  <1> QED BY <1>1 DEF ToSet

\* A sequence of six.
LEMMA SixAre ==
    ASSUME NEW T, NEW x1 \in T, NEW x2 \in T, NEW x3 \in T, NEW x4 \in T, NEW x5 \in T, NEW x6 \in T
    PROVE  LET s == <<x1, x2, x3, x4, x5, x6>>
           IN  s \in Seq(T) /\ Len(s) = 6 /\ s[6] = x6 /\ \A i \in 1..6 : s[i] \in {x1, x2, x3, x4, x5, x6}
  <1>1. /\ <<x1, x2, x3, x4, x5, x6>> \in Seq(T) /\ Len(<<x1, x2, x3, x4, x5, x6>>) = 6
        /\ <<x1, x2, x3, x4, x5, x6>>[6] = x6
    OBVIOUS
  <1>2. ASSUME NEW i \in 1..6
        PROVE  <<x1, x2, x3, x4, x5, x6>>[i] \in {x1, x2, x3, x4, x5, x6}
    <2>1. i = 1 \/ i = 2 \/ i = 3 \/ i = 4 \/ i = 5 \/ i = 6
      OBVIOUS
    <2> QED BY <2>1
  <1> QED BY <1>1, <1>2

\* The words that names are given beside those of the template.
Own == {".", "-", "zip", "aes", "json", "default", "nowledge-mem"}

\* The two extensions of a backup.
LEMMA ExtensionsAre ==
    /\ PlainExtension \in Part /\ Len(PlainExtension) = 2 /\ PlainExtension[2] = "zip" /\ ToSet(PlainExtension) \subseteq Own
    /\ EncryptedExtension \in Part /\ Len(EncryptedExtension) = 6 /\ EncryptedExtension[6] = "json"
    /\ ToSet(EncryptedExtension) \subseteq Own
  <1>1. "." \in STRING /\ "zip" \in STRING /\ "aes" \in STRING /\ "json" \in STRING
    BY OwnWords
  <1>2. /\ PlainExtension \in Part /\ Len(PlainExtension) = 2 /\ PlainExtension[2] = "zip"
        /\ ToSet(PlainExtension) = {".", "zip"}
    BY <1>1, TwoAre DEF PlainExtension, Part
  <1>3. /\ EncryptedExtension \in Part /\ Len(EncryptedExtension) = 6 /\ EncryptedExtension[6] = "json"
        /\ \A i \in 1..6 : EncryptedExtension[i] \in {".", "zip", ".", "aes", ".", "json"}
    BY <1>1, SixAre DEF EncryptedExtension, Part
  <1>4. DOMAIN EncryptedExtension = 1..6
    BY <1>3, LenProperties DEF Part
  <1>5. ToSet(EncryptedExtension) \subseteq {".", "zip", ".", "aes", ".", "json"}
    BY <1>3, <1>4 DEF ToSet
  <1> QED BY <1>2, <1>3, <1>5 DEF Own

\* Two parts put together.
LEMMA ConcatPart ==
    ASSUME NEW a \in Part, NEW b \in Part
    PROVE  /\ a \o b \in Part /\ Len(a \o b) = Len(a) + Len(b) /\ Len(a) \in Nat /\ Len(b) \in Nat
           /\ \A i \in 1..(Len(a) + Len(b)) : (a \o b)[i] = IF i <= Len(a) THEN a[i] ELSE b[i - Len(a)]
  BY ConcatProperties, LenProperties DEF Part

\* The file name that ObjectName adds where a template ends with a separator.
LEMMA AddedIs ==
    ASSUME NEW t \in DOMAIN Key, NEW name \in Part, NEW second \in DOMAIN Timestamp
    PROVE  /\ Added(t, name, second) \in Part /\ Len(Added(t, name, second)) \in Nat /\ Len(Added(t, name, second)) >= 4
           /\ Added(t, name, second)[1] = "nowledge-mem"
           /\ Added(t, name, second)[Len(Added(t, name, second))] = Timestamp[second]
           /\ ToSet(Added(t, name, second)) \subseteq Own \cup ToSet(TaskSegment(t, name)) \cup {Timestamp[second]}
           /\ Timestamp[second] \in ToSet(Added(t, name, second))
  <1> DEFINE a == <<"nowledge-mem", "-">>
             s == TaskSegment(t, name)
             ts == Timestamp[second]
             z == <<"-", ts>>
  <1>1. "nowledge-mem" \in STRING /\ "-" \in STRING /\ ts \in STRING
    BY NamesAssumption, OwnWords
  <1> HIDE DEF ts
  <1>2. a \in Part /\ Len(a) = 2 /\ a[1] = "nowledge-mem" /\ ToSet(a) = {"nowledge-mem", "-"}
    BY <1>1, TwoAre DEF Part
  <1>3. z \in Part /\ Len(z) = 2 /\ z[2] = ts /\ ToSet(z) = {"-", ts}
    BY <1>1, TwoAre DEF Part
  <1>4. s \in Part
    BY SegmentTokens
  <1>5. Added(t, name, second) = (a \o s) \o z
    BY DEF Added, ts
  <1> HIDE DEF a, z, s
  <1>6. Len(s) \in Nat
    BY <1>4, LenProperties DEF Part
  <1>7. /\ a \o s \in Part /\ Len(a \o s) = 2 + Len(s) /\ (a \o s)[1] = "nowledge-mem"
        /\ ToSet(a \o s) = ToSet(a) \cup ToSet(s)
    <2>1. /\ a \o s \in Part /\ Len(a \o s) = Len(a) + Len(s)
          /\ \A i \in 1..(Len(a) + Len(s)) : (a \o s)[i] = IF i <= Len(a) THEN a[i] ELSE s[i - Len(a)]
      BY <1>2, <1>4, ConcatProperties DEF Part
    <2>2. 1 \in 1..(Len(a) + Len(s)) /\ 1 <= Len(a)
      BY <1>2, <1>6
    <2>3. ToSet(a \o s) = ToSet(a) \cup ToSet(s)
      BY <1>2, <1>4, TokensBoth DEF Part
    <2> QED BY <1>2, <2>1, <2>2, <2>3
  <1> DEFINE b == a \o s
  <1> HIDE DEF b
  <1>8. /\ b \o z \in Part /\ Len(b \o z) = 4 + Len(s) /\ (b \o z)[1] = "nowledge-mem" /\ (b \o z)[4 + Len(s)] = ts
        /\ ToSet(b \o z) = ToSet(b) \cup {"-", ts}
    <2>1. b \in Part /\ Len(b) = 2 + Len(s) /\ b[1] = "nowledge-mem"
      BY <1>7 DEF b
    <2>2. /\ b \o z \in Part /\ Len(b \o z) = Len(b) + Len(z)
          /\ \A i \in 1..(Len(b) + Len(z)) : (b \o z)[i] = IF i <= Len(b) THEN b[i] ELSE z[i - Len(b)]
      BY <1>3, <2>1, ConcatPart
    <2>3. (b \o z)[1] = b[1]
      <3>1. 1 \in 1..(Len(b) + Len(z)) /\ 1 <= Len(b)
        BY <1>3, <1>6, <2>1
      <3> QED BY <2>2, <3>1
    <2>4. (b \o z)[4 + Len(s)] = z[2]
      <3>1. 4 + Len(s) \in 1..(Len(b) + Len(z)) /\ ~(4 + Len(s) <= Len(b)) /\ (4 + Len(s)) - Len(b) = 2
        BY <1>3, <1>6, <2>1
      <3>2. (b \o z)[4 + Len(s)] = z[(4 + Len(s)) - Len(b)]
        BY <2>2, <3>1
      <3> QED BY <3>1, <3>2
    <2>5. ToSet(b \o z) = ToSet(b) \cup ToSet(z)
      BY <1>3, <2>1, TokensBoth DEF Part
    <2>6. Len(b) + Len(z) = 4 + Len(s)
      BY <1>3, <1>6, <2>1
    <2> QED BY <1>3, <2>1, <2>2, <2>3, <2>4, <2>5, <2>6
  <1>9. ToSet(b) = {"nowledge-mem", "-"} \cup ToSet(s)
    BY <1>2, <1>7 DEF b
  <1> DEFINE r == Added(t, name, second)
  <1>10. r = b \o z
    BY <1>5 DEF b
  <1> HIDE DEF r
  <1>11. r \in Part /\ Len(r) = 4 + Len(s) /\ r[1] = "nowledge-mem" /\ r[Len(r)] = ts
    BY <1>8, <1>10
  <1>12. Len(r) \in Nat /\ Len(r) >= 4
    BY <1>6, <1>11
  <1>13. ToSet(r) \subseteq Own \cup ToSet(s) \cup {ts} /\ ts \in ToSet(r)
    BY <1>8, <1>9, <1>10 DEF Own
  <1> QED BY <1>11, <1>12, <1>13 DEF r, s, ts

\* What has to be true of what names are made of.
Proper(template, t, name, second) ==
    template \in Path /\ template # <<>> /\ t \in DOMAIN Key /\ name \in Part /\ second \in DOMAIN Timestamp

\* The parts of a path before its extension is added.
LEMMA FullIs ==
    ASSUME NEW template, NEW t, NEW name, NEW second, Proper(template, t, name, second)
    PROVE  LET given == Given(template, t, name, second)
               full  == Full(template, t, name, second)
               n     == Len(template)
           IN  /\ full \in Path /\ Len(full) = n
               /\ \A i \in 1..(n - 1) : full[i] = given[i]
               /\ given[n] # <<>> => full[n] = given[n]
               /\ given[n] = <<>> => full[n] = Added(t, name, second)
  <1> DEFINE given == Given(template, t, name, second)
             full  == Full(template, t, name, second)
             n     == Len(template)
             a     == Added(t, name, second)
  <1>1. n \in Nat /\ n \in 1..n
    BY EmptySeq DEF Path, Proper
  <1>2. given \in Path /\ Len(given) = n
    BY GivenIs DEF Proper
  <1>3. a \in Part
    BY AddedIs DEF Proper
  <1>4. full = IF given[n] # <<>> THEN given ELSE Extended(given, a)
    BY <1>2 DEF Full, Last
  <1> HIDE DEF given, full, n, a
  <1>5. given # <<>>
    BY <1>1, <1>2, EmptySeq DEF Path
  <1>6. CASE given[n] # <<>>
    BY <1>2, <1>4, <1>6 DEF given, full, n, a
  <1>7. CASE given[n] = <<>>
    <2>1. full = Extended(given, a)
      BY <1>4, <1>7
    <2>2. /\ full \in Path /\ Len(full) = n /\ \A i \in 1..(n - 1) : full[i] = given[i]
          /\ full[n] = given[n] \o a
      BY <1>2, <1>3, <1>5, <2>1, ExtendedIs
    <2>3. <<>> \o a = a
      BY <1>3, ConcatEmptySeq DEF Part
    <2>4. full[n] = a
      BY <1>7, <2>2, <2>3
    <2> QED BY <1>7, <2>2, <2>4 DEF given, full, n, a
  <1> QED BY <1>6, <1>7

\* A path ends as its last part does.
LEMMA EndsWithIs ==
    ASSUME NEW p \in Path, p # <<>>, NEW e \in Part
    PROVE  EndsWith(p, e) <=> EndsIn(p[Len(p)], e)
  <1>1. Len(p) \in 1..Len(p)
    BY EmptySeq DEF Path
  <1>2. p[Len(p)] \in Part
    BY <1>1, ElementOfSeq DEF Path
  <1> QED BY <1>2, SuffixIs DEF EndsWith, Part

IsExtension(e) == e \in {PlainExtension, EncryptedExtension}

\* The parts of a path with its extension: only the last is different.
LEMMA WholeIs ==
    ASSUME NEW template, NEW t, NEW name, NEW second, Proper(template, t, name, second),
           NEW extension, IsExtension(extension)
    PROVE  LET full  == Full(template, t, name, second)
               whole == Whole(template, t, name, second, extension)
               n     == Len(template)
               Ended == EndsIn(full[n], PlainExtension) \/ EndsIn(full[n], EncryptedExtension)
           IN  /\ whole \in Path /\ Len(whole) = n
               /\ \A i \in 1..(n - 1) : whole[i] = full[i]
               /\ Ended => whole[n] = full[n]
               /\ ~Ended => whole[n] = full[n] \o extension
  <1> DEFINE full  == Full(template, t, name, second)
             whole == Whole(template, t, name, second, extension)
             n     == Len(template)
             Ended == EndsIn(full[n], PlainExtension) \/ EndsIn(full[n], EncryptedExtension)
  <1>1. n \in Nat /\ n \in 1..n
    BY EmptySeq DEF Path, Proper
  <1>2. full \in Path /\ Len(full) = n
    BY FullIs
  <1>3. whole = IF EndsWith(full, PlainExtension) \/ EndsWith(full, EncryptedExtension)
                THEN full ELSE Extended(full, extension)
    BY DEF Whole
  <1> HIDE DEF full, whole, n
  <1>4. full # <<>>
    BY <1>1, <1>2, EmptySeq DEF Path
  <1>5. EndsWith(full, PlainExtension) <=> EndsIn(full[n], PlainExtension)
    BY <1>2, <1>4, EndsWithIs, ExtensionsAre
  <1>6. EndsWith(full, EncryptedExtension) <=> EndsIn(full[n], EncryptedExtension)
    BY <1>2, <1>4, EndsWithIs, ExtensionsAre
  <1>7. whole = IF Ended THEN full ELSE Extended(full, extension)
    BY <1>3, <1>5, <1>6
  <1>8. extension \in Part
    BY ExtensionsAre DEF IsExtension
  <1>9. CASE Ended
    BY <1>2, <1>7, <1>9 DEF full, whole, n
  <1>10. CASE ~Ended
    <2>1. /\ whole \in Path /\ Len(whole) = n /\ \A i \in 1..(n - 1) : whole[i] = full[i]
          /\ whole[n] = full[n] \o extension
      BY <1>2, <1>4, <1>7, <1>8, <1>10, ExtendedIs
    <2> QED BY <1>10, <2>1 DEF full, whole, n
  <1> QED BY <1>9, <1>10

\* The same, without saying which extension was there.
LEMMA WholeShort ==
    ASSUME NEW template, NEW t, NEW name, NEW second, Proper(template, t, name, second),
           NEW extension, IsExtension(extension)
    PROVE  /\ Whole(template, t, name, second, extension) \in Path
           /\ Len(Whole(template, t, name, second, extension)) = Len(template)
           /\ \A i \in 1..(Len(template) - 1) :
                Whole(template, t, name, second, extension)[i] = Full(template, t, name, second)[i]
           /\ \/ Whole(template, t, name, second, extension)[Len(template)]
                    = Full(template, t, name, second)[Len(template)]
              \/ Whole(template, t, name, second, extension)[Len(template)]
                    = Full(template, t, name, second)[Len(template)] \o extension
  <1> DEFINE full  == Full(template, t, name, second)
             whole == Whole(template, t, name, second, extension)
             n     == Len(template)
             Ended == EndsIn(full[n], PlainExtension) \/ EndsIn(full[n], EncryptedExtension)
  <1>1. /\ whole \in Path /\ Len(whole) = n
        /\ \A i \in 1..(n - 1) : whole[i] = full[i]
        /\ Ended => whole[n] = full[n]
        /\ ~Ended => whole[n] = full[n] \o extension
    BY WholeIs
  <1> HIDE DEF full, whole, n, Ended
  <1>2. whole[n] = full[n] \/ whole[n] = full[n] \o extension
    BY <1>1
  <1> QED BY <1>1, <1>2 DEF full, whole, n

\* The tokens of two parts put together.
LEMMA TokensBothPart ==
    ASSUME NEW a \in Part, NEW b \in Part
    PROVE  ToSet(a \o b) = ToSet(a) \cup ToSet(b)
  BY TokensBoth DEF Part

\* Nothing has no tokens.
LEMMA TokensNone == ToSet(<<>>) = {}
  BY DEF ToSet

\* What is not the last is before it.
LEMMA NotLast ==
    ASSUME NEW n \in Nat, NEW k \in 1..n, k # n
    PROVE  k \in 1..(n - 1)
  OBVIOUS

\* What a task, by its template and its name, gives to names.
TypedBy(template, t, name) == (UNION {ToSet(part) : part \in ToSet(template)}) \cup ToSet(name) \cup ToSet(Key[t])

AllTokens(template, t, name, second) == TypedBy(template, t, name) \cup {Timestamp[second], Date[second]} \cup Own

\* A name is made of the template, the task and the time, and of the program's own words.
LEMMA WholeTokens ==
    ASSUME NEW template, NEW t, NEW name, NEW second, Proper(template, t, name, second),
           NEW extension, IsExtension(extension), NEW i \in 1..Len(template)
    PROVE  ToSet(Whole(template, t, name, second, extension)[i]) \subseteq AllTokens(template, t, name, second)
  <1> DEFINE given == Given(template, t, name, second)
             full  == Full(template, t, name, second)
             whole == Whole(template, t, name, second, extension)
             n     == Len(template)
             S     == AllTokens(template, t, name, second)
             seg   == TaskSegment(t, name)
  <1>1. n \in Nat /\ n \in 1..n
    BY EmptySeq DEF Path, Proper
  <1>2. seg \in Part /\ ToSet(seg) \subseteq S
    <2>1. seg \in Part /\ ToSet(seg) \subseteq ToSet(name) \cup ToSet(Key[t]) \cup {"-", "default"}
      BY SegmentTokens DEF Proper
    <2> QED BY <2>1 DEF AllTokens, TypedBy, Own
  <1> HIDE DEF seg
  <1>3. ASSUME NEW k \in 1..n
        PROVE  given[k] \in Part /\ ToSet(given[k]) \subseteq S
    <2>1. template[k] \in Part /\ template[k] \in ToSet(template)
      <3>1. DOMAIN template = 1..n
        BY LenProperties DEF Path, Proper
      <3> QED BY <3>1, ElementOfSeq DEF Path, Proper, ToSet
    <2>2. given[k] = FilledPart(template[k], t, seg, second)
      BY GivenIs DEF Proper, seg
    <2>3. t \in DOMAIN Key /\ second \in DOMAIN Timestamp
      BY DEF Proper
    <2>4. /\ FilledPart(template[k], t, seg, second) \in Part
          /\ ToSet(FilledPart(template[k], t, seg, second)) \subseteq
               ToSet(template[k]) \cup ToSet(seg) \cup ToSet(Key[t]) \cup {"-", "default", Timestamp[second], Date[second]}
      BY <1>2, <2>1, <2>3, FilledPartTokens
    <2>5. ToSet(template[k]) \subseteq S
      BY <2>1 DEF AllTokens, TypedBy
    <2>6. ToSet(Key[t]) \cup {"-", "default", Timestamp[second], Date[second]} \subseteq S
      BY DEF AllTokens, TypedBy, Own
    <2> HIDE DEF given, S
    <2> QED BY <1>2, <2>2, <2>4, <2>5, <2>6
  <1>4. ToSet(Added(t, name, second)) \subseteq S
    <2>1. ToSet(Added(t, name, second)) \subseteq Own \cup ToSet(seg) \cup {Timestamp[second]}
      BY AddedIs DEF Proper, seg
    <2> QED BY <1>2, <2>1 DEF AllTokens
  <1>5. /\ full \in Path /\ Len(full) = n
        /\ \A k \in 1..(n - 1) : full[k] = given[k]
        /\ given[n] # <<>> => full[n] = given[n]
        /\ given[n] = <<>> => full[n] = Added(t, name, second)
    <2>1. Proper(template, t, name, second)
      OBVIOUS
    <2> QED BY ONLY <2>1, FullIs
  <1>6. /\ whole \in Path /\ Len(whole) = n
        /\ \A k \in 1..(n - 1) : whole[k] = full[k]
        /\ whole[n] = full[n] \/ whole[n] = full[n] \o extension
    <2>1. Proper(template, t, name, second) /\ IsExtension(extension)
      OBVIOUS
    <2> QED BY ONLY <2>1, WholeShort
  <1>7. extension \in Part /\ ToSet(extension) \subseteq S
    BY ExtensionsAre DEF AllTokens, IsExtension
  <1> HIDE DEF given, full, whole, n, S
  <1>8. ToSet(full[n]) \subseteq S /\ full[n] \in Part
    <2>1. full[n] \in Part
      BY <1>1, <1>5, ElementOfSeq DEF Path
    <2>2. full[n] = given[n] \/ full[n] = Added(t, name, second)
      BY <1>5
    <2> QED BY <1>1, <1>3, <1>4, <2>1, <2>2
  <1>9. ToSet(full[n] \o extension) = ToSet(full[n]) \cup ToSet(extension)
    BY <1>7, <1>8, TokensBoth DEF Part
  <1>10. ToSet(whole[n]) \subseteq S
    BY <1>6, <1>7, <1>8, <1>9
  <1>11. CASE i = n
    BY <1>10, <1>11 DEF whole, S
  <1>12. CASE i # n
    <2>1. i \in 1..n /\ i \in 1..(n - 1)
      BY <1>1, <1>12 DEF n
    <2>2. whole[i] = given[i]
      BY <1>5, <1>6, <2>1
    <2>3. ToSet(given[i]) \subseteq S
      BY <1>3, <2>1
    <2> QED BY <2>2, <2>3 DEF whole, S
  <1> QED BY <1>11, <1>12

\* A name is made of what its task gives, of its time, and of the words that names are given.
LEMMA NameTokens ==
    ASSUME NEW template, NEW t, NEW name, NEW second, Proper(template, t, name, second),
           NEW extension, IsExtension(extension),
           NEW part \in ToSet(ObjectName(template, t, name, second, extension))
    PROVE  ToSet(part) \subseteq AllTokens(template, t, name, second)
  <1> DEFINE whole == Whole(template, t, name, second, extension)
             S     == AllTokens(template, t, name, second)
  <1>1. whole \in Path /\ Len(whole) = Len(template)
    BY WholeIs
  <1>2. ObjectName(template, t, name, second, extension) = CleanPath(whole)
    BY ObjectNameIs
  <1>3. \A i \in 1..Len(whole) : ToSet(whole[i]) \subseteq S
    BY <1>1, WholeTokens
  <1> HIDE DEF whole
  <1>4. \A x : x \in ToSet(CleanPath(whole)) <=> x # <<>> /\ \E i \in 1..Len(whole) : x = CleanPart(whole[i])
    BY <1>1, CleanPathParts
  <1>5. PICK i \in 1..Len(whole) : part = CleanPart(whole[i])
    BY <1>2, <1>4
  <1>6. whole[i] \in Part
    BY <1>1, ElementOfSeq DEF Path
  <1>7. ToSet(CleanPart(whole[i])) \subseteq ToSet(whole[i]) \cup {"-", "default"}
    BY <1>6, CleanPartTokens
  <1>8. {"-", "default"} \subseteq S
    BY DEF AllTokens, Own
  <1>9. ToSet(whole[i]) \subseteq S
    BY <1>3
  <1> HIDE DEF S
  <1>10. ToSet(part) \subseteq S
    BY <1>5, <1>7, <1>8, <1>9
  <1> QED BY <1>10 DEF S

\* The name of a task's object has its second in it, when the template asks for one.
LEMMA NameStamped ==
    ASSUME NEW template, NEW t, NEW name, NEW second, Proper(template, t, name, second),
           NEW extension, IsExtension(extension),
           Last(template) = <<>> \/ \E i \in DOMAIN template : "{timestamp}" \in ToSet(template[i])
    PROVE  \E part \in ToSet(ObjectName(template, t, name, second, extension)) : Timestamp[second] \in ToSet(part)
  <1> DEFINE given == Given(template, t, name, second)
             full  == Full(template, t, name, second)
             whole == Whole(template, t, name, second, extension)
             n     == Len(template)
             ts    == Timestamp[second]
  <1>1. n \in Nat /\ n \in 1..n /\ DOMAIN template = 1..n
    <2>1. template \in Seq(Part) /\ template # <<>>
      BY DEF Path, Proper
    <2>2. Len(template) \in Nat \ {0} /\ DOMAIN template = 1..Len(template)
      BY ONLY <2>1, EmptySeq, LenProperties
    <2> QED BY ONLY <2>2
  <1>2. /\ full \in Path /\ Len(full) = n
        /\ \A k \in 1..(n - 1) : full[k] = given[k]
        /\ given[n] # <<>> => full[n] = given[n]
        /\ given[n] = <<>> => full[n] = Added(t, name, second)
    <2>1. Proper(template, t, name, second)
      OBVIOUS
    <2> QED BY ONLY <2>1, FullIs
  <1>3. /\ whole \in Path /\ Len(whole) = n
        /\ \A k \in 1..(n - 1) : whole[k] = full[k]
        /\ whole[n] = full[n] \/ whole[n] = full[n] \o extension
    <2>1. Proper(template, t, name, second) /\ IsExtension(extension)
      OBVIOUS
    <2> QED BY ONLY <2>1, WholeShort
  <1>4. ts \in Kept
    BY NamesAssumption DEF Proper
  <1>5. ASSUME NEW k \in 1..n
        PROVE  /\ template[k] \in Part
               /\ "{timestamp}" \in ToSet(template[k]) => ts \in ToSet(given[k])
               /\ template[k] = <<>> => given[k] = <<>>
    <2>1. template[k] \in Part /\ t \in DOMAIN Key /\ second \in DOMAIN Timestamp /\ TaskSegment(t, name) \in Part
      BY SegmentTokens, ElementOfSeq DEF Path, Proper
    <2>2. given[k] = FilledPart(template[k], t, TaskSegment(t, name), second)
      BY GivenIs DEF Proper
    <2> HIDE DEF given
    <2> QED BY <2>1, <2>2, FilledPartTokens
  <1>6. ts \in ToSet(Added(t, name, second))
    BY AddedIs DEF Proper
  <1>7. extension \in Part
    BY ExtensionsAre DEF IsExtension
  <1> HIDE DEF given, full, whole, ts, n
  <1>8. ts \in ToSet(full[n]) => ts \in ToSet(whole[n])
    <2>1. full[n] \in Part
      BY <1>1, <1>2, ElementOfSeq DEF Path
    <2>2. ToSet(full[n] \o extension) = ToSet(full[n]) \cup ToSet(extension)
      BY <1>7, <2>1, TokensBothPart
    <2> QED BY <1>3, <2>2
  <1>9. \E k \in 1..n : ts \in ToSet(whole[k])
    <2>1. CASE template[n] = <<>>
      <3>1. given[n] = <<>>
        BY <1>1, <1>5, <2>1
      <3> QED BY <1>1, <1>2, <1>6, <1>8, <3>1
    <2>2. CASE \E k \in 1..n : "{timestamp}" \in ToSet(template[k])
      <3>1. PICK k \in 1..n : "{timestamp}" \in ToSet(template[k])
        BY <2>2
      <3>2. ts \in ToSet(given[k])
        BY <1>5, <3>1
      <3>3. CASE k = n
        <4>1. given[n] # <<>>
          <5>1. ToSet(<<>>) = {}
            BY TokensNone
          <5> QED BY <3>2, <3>3, <5>1
        <4> QED BY <1>1, <1>2, <1>8, <3>2, <3>3, <4>1
      <3>4. CASE k # n
        <4>1. k \in 1..(n - 1)
          <5>1. n \in Nat
            BY <1>1
          <5> QED BY <3>4, <5>1, NotLast
        <4> QED BY <1>2, <1>3, <3>2, <4>1
      <3> QED BY <3>3, <3>4
    <2>3. template[n] = <<>> \/ \E k \in 1..n : "{timestamp}" \in ToSet(template[k])
      BY <1>1 DEF Last, n
    <2> QED BY <2>1, <2>2, <2>3
  <1>10. PICK k \in 1..n : ts \in ToSet(whole[k])
    BY <1>9
  <1>11. whole[k] \in Part /\ k \in 1..Len(whole)
    BY <1>3, ElementOfSeq DEF Path
  <1>12. ts \in ToSet(CleanPart(whole[k])) /\ CleanPart(whole[k]) # <<>>
    BY <1>4, <1>10, <1>11, CleanPartTokens
  <1>13. CleanPart(whole[k]) \in ToSet(CleanPath(whole))
    BY <1>3, <1>11, <1>12, CleanPathParts
  <1>14. ObjectName(template, t, name, second, extension) = CleanPath(whole)
    BY ObjectNameIs DEF whole
  <1> QED BY <1>12, <1>13, <1>14 DEF ts

\* The end of a name that is added to.
LEMMA EndsInBoth ==
    ASSUME NEW f \in Part, NEW e \in Part
    PROVE  EndsIn(f \o e, e)
  <1>1. /\ f \o e \in Part /\ Len(f \o e) = Len(f) + Len(e) /\ Len(f) \in Nat /\ Len(e) \in Nat
        /\ \A i \in 1..(Len(f) + Len(e)) : (f \o e)[i] = IF i <= Len(f) THEN f[i] ELSE e[i - Len(f)]
    BY ConcatPart
  <1> DEFINE r == f \o e
  <1> HIDE DEF r
  <1>2. /\ Len(r) = Len(f) + Len(e) /\ Len(f) \in Nat /\ Len(e) \in Nat
        /\ \A i \in 1..(Len(f) + Len(e)) : r[i] = IF i <= Len(f) THEN f[i] ELSE e[i - Len(f)]
    BY <1>1 DEF r
  <1>3. ASSUME NEW i \in 1..Len(e)
        PROVE  r[Len(r) - Len(e) + i] = e[i]
    <2>1. /\ Len(r) - Len(e) + i = Len(f) + i /\ Len(f) + i \in 1..(Len(f) + Len(e))
          /\ ~(Len(f) + i <= Len(f)) /\ (Len(f) + i) - Len(f) = i
      BY <1>2
    <2>2. r[Len(f) + i] = e[(Len(f) + i) - Len(f)]
      BY <1>2, <2>1
    <2> QED BY <2>1, <2>2
  <1>4. Len(e) <= Len(r)
    BY <1>2
  <1> QED BY <1>3, <1>4 DEF EndsIn, r

\* The two extensions are no ends of each other, and letters are the end of each.
LEMMA ExtensionEnds ==
    ASSUME NEW e, IsExtension(e)
    PROVE  /\ e \in Part /\ e # <<>> /\ e[Len(e)] \in Kept /\ \A i \in 1..Len(e) : e[i] \in Kept \cup Punctuation
           /\ e[Len(e)] \in {"zip", "json"}
           /\ \A p \in Part : EndsIn(p, e) => p # <<>> /\ p[Len(p)] = e[Len(e)]
  <1>1. /\ e \in Part /\ ToSet(e) \subseteq Own
        /\ Len(e) \in Nat \ {0} /\ e[Len(e)] \in {"zip", "json"}
    <2>1. CASE e = PlainExtension
      BY <2>1, ExtensionsAre
    <2>2. CASE e = EncryptedExtension
      BY <2>2, ExtensionsAre
    <2> QED BY <2>1, <2>2 DEF IsExtension
  <1>2. Own \subseteq Kept \cup Punctuation /\ "zip" \in Kept /\ "json" \in Kept
    BY OwnWords DEF Own, Punctuation
  <1>3. e # <<>>
    BY <1>1
  <1>4. \A i \in 1..Len(e) : e[i] \in Kept \cup Punctuation
    <2>1. DOMAIN e = 1..Len(e)
      BY <1>1, LenProperties DEF Part
    <2>2. \A i \in 1..Len(e) : e[i] \in ToSet(e)
      BY <2>1 DEF ToSet
    <2> QED BY <1>1, <1>2, <2>2
  <1>5. ASSUME NEW p \in Part, EndsIn(p, e)
        PROVE  p # <<>> /\ p[Len(p)] = e[Len(e)]
    <2>1. Len(p) \in Nat /\ Len(e) <= Len(p) /\ \A i \in 1..Len(e) : p[Len(p) - Len(e) + i] = e[i]
      BY <1>5, LenProperties DEF EndsIn, Part
    <2>2. Len(e) \in 1..Len(e) /\ Len(p) - Len(e) + Len(e) = Len(p) /\ Len(p) # 0
      BY <1>1, <2>1
    <2>3. p[Len(p) - Len(e) + Len(e)] = e[Len(e)]
      BY <2>1, <2>2
    <2>4. p # <<>>
      BY <2>2
    <2> QED BY <2>2, <2>3, <2>4
  <1> QED BY <1>1, <1>2, <1>3, <1>4, <1>5

\* The end of a part of which the end is left to the program.
LEMMA PartEnds ==
    ASSUME NEW f \in Part, NEW e, IsExtension(e), ToSet(f) \cap Kept # {}
    PROVE  CleanPart(f \o e) # <<>> /\ EndsIn(CleanPart(f \o e), e) /\ CleanPart(f \o e) \in Part
  <1>1. e \in Part /\ e # <<>> /\ e[Len(e)] \in Kept /\ \A i \in 1..Len(e) : e[i] \in Kept \cup Punctuation
    BY ExtensionEnds
  <1>2. /\ f \o e \in Part /\ Len(f \o e) = Len(f) + Len(e) /\ Len(f) \in Nat /\ Len(e) \in Nat
        /\ \A i \in 1..(Len(f) + Len(e)) : (f \o e)[i] = IF i <= Len(f) THEN f[i] ELSE e[i - Len(f)]
    BY <1>1, ConcatPart
  <1>3. EndsIn(f \o e, e)
    BY <1>1, EndsInBoth
  <1>4. PICK k \in 1..Len(f) : f[k] \in Kept
    <2>1. DOMAIN f = 1..Len(f)
      BY LenProperties DEF Part
    <2> QED BY <2>1 DEF ToSet
  <1> DEFINE r == f \o e
  <1>5. r \in Part /\ EndsIn(r, e) /\ k \in 1..(Len(r) - Len(e)) /\ r[k] \in Kept /\ k \in 1..Len(r)
    <2> HIDE DEF r
    <2>1. Len(r) = Len(f) + Len(e) /\ r[k] = f[k]
      <3>1. k \in 1..(Len(f) + Len(e)) /\ k <= Len(f)
        BY <1>2
      <3> QED BY <1>2, <3>1 DEF r
    <2>2. k \in 1..(Len(r) - Len(e)) /\ k \in 1..Len(r)
      BY <1>2, <2>1
    <2> QED BY <1>2, <1>3, <1>4, <2>1, <2>2 DEF r
  <1> HIDE DEF r
  <1>6. EndsIn(CleanSegment(r), e)
    BY <1>1, <1>5, CleanSegmentEnds
  <1>7. ToSet(r) \cap Kept # {}
    <2>1. DOMAIN r = 1..Len(r)
      BY <1>5, LenProperties DEF Part
    <2> QED BY <1>5, <2>1 DEF ToSet
  <1>8. CleanPart(r) = CleanSegment(r) /\ CleanPart(r) # <<>> /\ CleanPart(r) \in Part
    BY <1>5, <1>7, CleanPartTokens
  <1> QED BY <1>6, <1>8 DEF r

\* Whether a task's name leaves the end of its objects' names to the program.
LeftToProgram(template, t, name, second) ==
    LET given == Given(template, t, name, second)
    IN  \/ Last(given) = <<>>
        \/ /\ ToSet(Last(given)) \cap Kept # {}
           /\ ~EndsWith(given, PlainExtension) /\ ~EndsWith(given, EncryptedExtension)

\* An end that is left to the program is still there when the name is cleaned.
LEMMA WholeEnds ==
    ASSUME NEW template, NEW t, NEW name, NEW second, Proper(template, t, name, second),
           NEW extension, IsExtension(extension), LeftToProgram(template, t, name, second)
    PROVE  LET last == CleanPart(Whole(template, t, name, second, extension)[Len(template)])
           IN  last # <<>> /\ EndsIn(last, extension) /\ last \in Part
  <1> DEFINE given == Given(template, t, name, second)
             full  == Full(template, t, name, second)
             whole == Whole(template, t, name, second, extension)
             n     == Len(template)
             a     == Added(t, name, second)
             Ended == EndsIn(full[n], PlainExtension) \/ EndsIn(full[n], EncryptedExtension)
  <1>1. n \in Nat /\ n \in 1..n
    BY EmptySeq DEF Path, Proper
  <1>2. given \in Path /\ Len(given) = n
    BY GivenIs DEF Proper
  <1>3. /\ full \in Path /\ Len(full) = n
        /\ given[n] # <<>> => full[n] = given[n]
        /\ given[n] = <<>> => full[n] = a
    BY FullIs
  <1>4. ~Ended => whole[n] = full[n] \o extension
    BY WholeIs
  <1>5. /\ a \in Part /\ Len(a) \in Nat /\ Len(a) >= 4 /\ a[1] = "nowledge-mem" /\ a[Len(a)] = Timestamp[second]
    BY AddedIs DEF Proper
  <1>6. Timestamp[second] \notin {"zip", "json"}
    BY NamesAssumption DEF Proper
  <1>7. IsExtension(PlainExtension) /\ IsExtension(EncryptedExtension)
    BY DEF IsExtension
  <1>8. given # <<>>
    BY <1>1, <1>2, EmptySeq DEF Path
  <1>9. \/ given[n] = <<>>
        \/ given[n] # <<>> /\ ToSet(given[n]) \cap Kept # {} /\ ~EndsIn(given[n], PlainExtension) /\ ~EndsIn(given[n], EncryptedExtension)
    <2>1. \/ given[n] = <<>>
          \/ /\ ToSet(given[n]) \cap Kept # {}
             /\ ~EndsWith(given, PlainExtension) /\ ~EndsWith(given, EncryptedExtension)
      BY <1>2 DEF LeftToProgram, Last
    <2> HIDE DEF given
    <2>2. EndsWith(given, PlainExtension) <=> EndsIn(given[n], PlainExtension)
      BY <1>2, <1>8, ExtensionsAre, EndsWithIs
    <2>3. EndsWith(given, EncryptedExtension) <=> EndsIn(given[n], EncryptedExtension)
      BY <1>2, <1>8, ExtensionsAre, EndsWithIs
    <2> QED BY <2>1, <2>2, <2>3
  <1> HIDE DEF given, full, whole, n, a
  <1>10. ~Ended /\ full[n] \in Part /\ ToSet(full[n]) \cap Kept # {}
    <2>1. full[n] \in Part
      BY <1>1, <1>3, ElementOfSeq DEF Path
    <2>2. CASE given[n] # <<>>
      BY <1>3, <1>9, <2>1, <2>2
    <2>3. CASE given[n] = <<>>
      <3>1. full[n] = a
        BY <1>3, <2>3
      <3>2. ~EndsIn(a, PlainExtension)
        BY <1>5, <1>6, <1>7, ExtensionEnds
      <3>3. ~EndsIn(a, EncryptedExtension)
        BY <1>5, <1>6, <1>7, ExtensionEnds
      <3>4. ToSet(a) \cap Kept # {}
        <4>1. DOMAIN a = 1..Len(a) /\ 1 \in 1..Len(a)
          BY <1>5, LenProperties DEF Part
        <4>2. "nowledge-mem" \in ToSet(a)
          BY <1>5, <4>1 DEF ToSet
        <4> QED BY <4>2, OwnWords
      <3> QED BY <2>1, <3>1, <3>2, <3>3, <3>4
    <2> QED BY <2>2, <2>3
  <1>11. CleanPart(full[n] \o extension) # <<>> /\ EndsIn(CleanPart(full[n] \o extension), extension) /\ CleanPart(full[n] \o extension) \in Part
    BY <1>10, PartEnds
  <1> QED BY <1>4, <1>10, <1>11 DEF whole, n

\* Something is left of the last part: its extension at least.
LEMMA WholeLeft ==
    ASSUME NEW template, NEW t, NEW name, NEW second, Proper(template, t, name, second),
           NEW extension, IsExtension(extension)
    PROVE  CleanPart(Whole(template, t, name, second, extension)[Len(template)]) # <<>>
  <1> DEFINE whole == Whole(template, t, name, second, extension)
             full  == Full(template, t, name, second)
             n     == Len(template)
  <1>1. Proper(template, t, name, second) /\ IsExtension(extension)
    OBVIOUS
  <1>2. whole \in Path /\ Len(whole) = n
    BY ONLY <1>1, WholeShort
  <1>3. EndsIn(full[n], PlainExtension) \/ EndsIn(full[n], EncryptedExtension) => whole[n] = full[n]
    BY ONLY <1>1, WholeIs
  <1>4. ~(EndsIn(full[n], PlainExtension) \/ EndsIn(full[n], EncryptedExtension)) => whole[n] = full[n] \o extension
    BY ONLY <1>1, WholeIs
  <1>5. full \in Path /\ Len(full) = n
    BY ONLY <1>1, FullIs
  <1>6. n \in 1..n
    BY EmptySeq, LenProperties DEF Path, Proper
  <1> HIDE DEF whole, full, n
  <1>7. full[n] \in Part /\ whole[n] \in Part
    BY <1>2, <1>5, <1>6, ElementOfSeq DEF Path
  <1>8. PICK e : IsExtension(e) /\ EndsIn(whole[n], e)
    <2>1. CASE EndsIn(full[n], PlainExtension)
      BY <1>3, <2>1 DEF IsExtension
    <2>2. CASE EndsIn(full[n], EncryptedExtension)
      BY <1>3, <2>2 DEF IsExtension
    <2>3. CASE ~(EndsIn(full[n], PlainExtension) \/ EndsIn(full[n], EncryptedExtension))
      <3>1. extension \in Part
        BY ExtensionEnds
      <3>2. EndsIn(full[n] \o extension, extension)
        BY <1>7, <3>1, EndsInBoth
      <3> QED BY <1>1, <1>4, <2>3, <3>2
    <2> QED BY <2>1, <2>2, <2>3
  <1>9. whole[n] # <<>> /\ whole[n][Len(whole[n])] = e[Len(e)] /\ e[Len(e)] \in Kept
    BY <1>7, <1>8, ExtensionEnds
  <1>10. whole[n][Len(whole[n])] \in ToSet(whole[n])
    <2>1. Len(whole[n]) \in DOMAIN whole[n]
      BY <1>7, <1>9, EmptySeq, LenProperties DEF Part
    <2> QED BY <2>1 DEF ToSet
  <1>11. ToSet(whole[n]) \cap Kept # {}
    BY <1>9, <1>10
  <1>12. CleanPart(whole[n]) # <<>>
    BY <1>7, <1>11, CleanPartTokens
  <1> QED BY <1>12 DEF whole, n

\* The last of two sequences in one, and the first of one.
LEMMA LastOfBoth ==
    ASSUME NEW q \in Path, NEW x \in Path, NEW n \in Nat, Len(x) = n + 1
    PROVE  q \o x \in Path /\ q \o x # <<>> /\ (q \o x)[Len(q \o x)] = x[Len(x)]
  <1> DEFINE r == q \o x
  <1>1. /\ r \in Path /\ Len(r) = Len(q) + Len(x)
        /\ \A i \in 1..(Len(q) + Len(x)) : r[i] = IF i <= Len(q) THEN q[i] ELSE x[i - Len(q)]
    BY ConcatProperties DEF Path
  <1>2. Len(q) \in Nat
    BY LenProperties DEF Path
  <1> HIDE DEF r
  <1>3. Len(r) \in 1..(Len(q) + Len(x)) /\ ~(Len(r) <= Len(q)) /\ Len(r) - Len(q) = Len(x) /\ Len(r) # 0
    BY <1>1, <1>2
  <1>4. r[Len(r)] = x[Len(r) - Len(q)]
    BY <1>1, <1>3
  <1>5. r # <<>>
    BY <1>3
  <1> QED BY <1>1, <1>3, <1>4, <1>5 DEF r

\* A path with a part added.
LEMMA AppendPath ==
    ASSUME NEW r \in Path, NEW x \in Part
    PROVE  Append(r, x) \in Path /\ Append(r, x) # <<>>
  BY AppendProperties DEF Path

\* The first parts of a path.
LEMMA FrontIs ==
    ASSUME NEW p, NEW k \in Nat, \A i \in 1..k : p[i] \in Part
    PROVE  /\ SubSeq(p, 1, k) \in Path /\ Len(SubSeq(p, 1, k)) = k
           /\ \A i \in 1..k : SubSeq(p, 1, k)[i] = p[i]
  <1>1. /\ SubSeq(p, 1, k) \in Path
        /\ Len(SubSeq(p, 1, k)) = IF 1 <= k THEN k - 1 + 1 ELSE 0
        /\ \A i \in 1..(k - 1 + 1) : SubSeq(p, 1, k)[i] = p[1 + i - 1]
    BY SubSeqProperties DEF Path
  <1>2. \A i \in 1..k : i \in 1..(k - 1 + 1) /\ 1 + i - 1 = i
    OBVIOUS
  <1>3. Len(SubSeq(p, 1, k)) = k
    BY <1>1
  <1> QED BY <1>1, <1>2, <1>3

\* A number before the last.
LEMMA Below ==
    ASSUME NEW n \in Nat, NEW k \in 0..(n - 1)
    PROVE  k \in Nat /\ k <= n
  OBVIOUS

\* A place before such a number.
LEMMA UpTo ==
    ASSUME NEW n \in Nat, NEW k \in 0..(n - 1), NEW i \in 1..k
    PROVE  i \in 1..n /\ i \in 1..(n - 1)
  OBVIOUS

\* RetentionDirectory's parts, before any goes.
LEMMA KeyedIs ==
    ASSUME NEW template \in Path, NEW t \in DOMAIN Key, NEW name \in Part
    PROVE  /\ Keyed(template, t, name) \in Path /\ Len(Keyed(template, t, name)) = Len(template)
           /\ \A i \in 1..Len(template) :
                Keyed(template, t, name)[i] = KeyedPart(template[i], TaskSegment(t, name), CleanSegment(Key[t]))
  <1>1. DOMAIN template = 1..Len(template) /\ Len(template) \in Nat
    BY LenProperties DEF Path
  <1>2. TaskSegment(t, name) \in Part /\ CleanSegment(Key[t]) \in Part
    BY SegmentTokens
  <1> DEFINE K(i) == KeyedPart(template[i], TaskSegment(t, name), CleanSegment(Key[t]))
             g == Keyed(template, t, name)
  <1>3. ASSUME NEW i \in 1..Len(template)
        PROVE  K(i) \in Part
    <2>1. template[i] \in Part
      BY ElementOfSeq DEF Path
    <2> QED BY <1>2, <2>1, KeyedPartKeeps
  <1>4. g = [i \in 1..Len(template) |-> K(i)]
    BY <1>1 DEF Keyed
  <1> HIDE DEF g, K
  <1>5. g \in [1..Len(template) -> Part]
    BY <1>3, <1>4
  <1>6. g \in Path /\ Len(g) = Len(template)
    BY <1>1, <1>5 DEF Path
  <1>7. \A i \in 1..Len(template) : g[i] = K(i)
    BY <1>4
  <1> QED BY <1>6, <1>7 DEF g, K

PlainSegment(t, name) == {"{task_name}", "{task_id}"} \cap ToSet(TaskSegment(t, name)) = {}
TimeFree(part) == ToSet(part) \cap {"{timestamp}", "{date}"} = {}

\* Where a part of the retention's directory has no time, it is the part of the name.
LEMMA PartsAlike ==
    ASSUME NEW template, NEW t, NEW name, NEW second, Proper(template, t, name, second),
           PlainSegment(t, name), NEW i \in 1..Len(template),
           TimeFree(Keyed(template, t, name)[i])
    PROVE  Given(template, t, name, second)[i] = Keyed(template, t, name)[i]
  <1> DEFINE p == template[i]
             seg == TaskSegment(t, name)
             w == CleanSegment(Key[t])
             b == KeyedPart(p, seg, w)
  <1>1. p \in Part /\ seg \in Part /\ w \in Part
    BY SegmentTokens, ElementOfSeq DEF Path, Proper
  <1>2. Given(template, t, name, second)[i] = FilledPart(p, t, seg, second)
    <2>1. template \in Path /\ t \in DOMAIN Key /\ name \in Part /\ second \in DOMAIN Timestamp
      BY DEF Proper
    <2>2. \A j \in 1..Len(template) :
              Given(template, t, name, second)[j] = FilledPart(template[j], t, TaskSegment(t, name), second)
      BY ONLY <2>1, GivenIs
    <2> QED BY <2>2
  <1>3. Keyed(template, t, name)[i] = b
    BY KeyedIs DEF Proper
  <1>4. t \in DOMAIN Key /\ second \in DOMAIN Timestamp
    BY DEF Proper
  <1>5. "{task_name}" \notin ToSet(seg) /\ "{task_id}" \notin ToSet(seg)
    BY DEF PlainSegment
  <1> HIDE DEF p, seg, w, b
  <1>6. ToSet(p) \ Tokens \subseteq ToSet(b)
    BY <1>1, KeyedPartKeeps DEF b
  <1>7. ToSet(p) \cap {"{timestamp}", "{date}"} = {}
    <2>1. ToSet(b) \cap {"{timestamp}", "{date}"} = {}
      BY <1>3 DEF TimeFree
    <2> QED BY <1>6, <2>1 DEF Tokens
  <1>8. FilledPart(p, t, seg, second) = b
    BY <1>1, <1>4, <1>5, <1>7, FilledOneByOne DEF w, b
  <1> QED BY <1>2, <1>3, <1>8

\* The last part of a name.
LEMMA NameLast ==
    ASSUME NEW template, NEW t, NEW name, NEW second, Proper(template, t, name, second),
           NEW extension, IsExtension(extension), LeftToProgram(template, t, name, second)
    PROVE  LET path == ObjectName(template, t, name, second, extension)
           IN  path \in Path /\ path # <<>> /\ EndsIn(path[Len(path)], extension)
  <1> DEFINE whole == Whole(template, t, name, second, extension)
             n     == Len(template)
             last  == CleanPart(whole[n])
             path  == ObjectName(template, t, name, second, extension)
  <1>1. whole \in Path /\ Len(whole) = n
    BY WholeShort
  <1>2. last # <<>> /\ EndsIn(last, extension) /\ last \in Part
    BY WholeEnds
  <1>3. path = CleanPath(whole)
    BY ObjectNameIs
  <1>4. n \in Nat \ {0}
    BY EmptySeq DEF Path, Proper
  <1> HIDE DEF whole, path
  <1>5. whole # <<>> /\ 0 \in 0..(Len(whole) - 1) /\ CleanPart(whole[Len(whole)]) # <<>>
    <2> HIDE DEF n
    <2>1. whole # <<>>
      BY <1>1, <1>4, EmptySeq DEF Path
    <2> QED BY <1>1, <1>2, <1>4, <2>1
  <1> HIDE DEF n, last
  <1>6. PICK r \in Path : /\ path = CleanPath(SubSeq(whole, 1, 0)) \o Append(r, last)
                          /\ CleanPath(SubSeq(whole, 1, 0)) \in Path
    BY <1>1, <1>3, <1>5, CleanPathLast DEF last
  <1> DEFINE q == CleanPath(SubSeq(whole, 1, 0))
             x == Append(r, last)
  <1>7. q \in Path /\ path = q \o x
    BY <1>6
  <1>8. x \in Path /\ Len(x) = Len(r) + 1 /\ Len(r) \in Nat /\ x[Len(x)] = last
    BY <1>2, AppendProperties, LenProperties DEF Path
  <1> HIDE DEF q, x
  <1>9. path \in Path /\ path # <<>> /\ path[Len(path)] = last
    BY <1>7, <1>8, LastOfBoth
  <1> QED BY <1>2, <1>9 DEF path

\* What does not change is the parts before one of them.
LEMMA StableIs ==
    ASSUME NEW p \in Path, p # <<>>
    PROVE  \E k \in 0..(Len(p) - 1) :
              /\ Stable(p) = SubSeq(p, 1, k) /\ \A i \in 1..k : TimeFree(p[i])
              /\ k # Len(p) - 1 => ~TimeFree(p[k + 1])
  <1> DEFINE D == Dynamic(p) \cup {Len(p)}
  <1>1. DOMAIN p = 1..Len(p) /\ Len(p) \in Nat \ {0}
    BY EmptySeq, LenProperties DEF Path
  <1>2. PICK n \in Nat : n = Len(p)
    BY <1>1
  <1>3. D \subseteq 1..n /\ D # {}
    <2>1. Dynamic(p) \subseteq DOMAIN p
      BY DEF Dynamic
    <2> QED BY <1>1, <1>2, <2>1
  <1>4. Stable(p) = SubSeq(p, 1, Min(D) - 1)
    BY SMTT(40) DEF Stable
  <1>5. \A i \in 1..n : i \notin D => TimeFree(p[i])
    BY <1>1, <1>2, Zenon DEF Dynamic, TimeFree
  <1>5a. \A i \in D : i = n \/ ~TimeFree(p[i])
    BY <1>2 DEF Dynamic, TimeFree
  <1> HIDE DEF D
  <1>6. Min(D) \in D /\ \A i \in D : Min(D) <= i
    BY <1>3, MinOf
  <1>7. PICK m \in 1..n : m = Min(D)
    BY <1>3, <1>6
  <1>8. \A i \in D : m <= i
    BY <1>6, <1>7
  <1>9. \A i \in 1..(m - 1) : i \in 1..n /\ i \notin D
    <2> SUFFICES ASSUME NEW i \in 1..(m - 1)
                 PROVE  i \in 1..n /\ i \notin D
      OBVIOUS
    <2>1. i \in 1..n /\ ~(m <= i)
      OBVIOUS
    <2> QED BY <1>8, <2>1
  <1>10. \A i \in 1..(m - 1) : TimeFree(p[i])
    BY <1>5, <1>9
  <1>11. m - 1 \in 0..(Len(p) - 1) /\ m - 1 + 1 = m
    BY <1>2
  <1>12. m - 1 # Len(p) - 1 => ~TimeFree(p[m - 1 + 1])
    <2>1. m - 1 # Len(p) - 1 => m # n
      BY <1>2
    <2> QED BY <1>5a, <1>6, <1>7, <1>11, <2>1
  <1> QED BY <1>4, <1>7, <1>10, <1>11, <1>12

\* Paths that begin alike.
LEMMA FrontsAlike ==
    ASSUME NEW p \in Path, NEW q \in Path, NEW k \in Nat, k <= Len(p), k <= Len(q), \A i \in 1..k : p[i] = q[i]
    PROVE  SubSeq(p, 1, k) = SubSeq(q, 1, k)
  <1>1. \A i \in 1..k : p[i] \in Part /\ q[i] \in Part
    <2> SUFFICES ASSUME NEW i \in 1..k
                 PROVE  p[i] \in Part /\ q[i] \in Part
      OBVIOUS
    <2>1. Len(p) \in Nat /\ Len(q) \in Nat
      BY LenProperties DEF Path
    <2>2. i \in 1..Len(p) /\ i \in 1..Len(q)
      BY <2>1
    <2> QED BY <2>2, ElementOfSeq DEF Path
  <1>2. /\ SubSeq(p, 1, k) \in Path /\ Len(SubSeq(p, 1, k)) = k
        /\ \A i \in 1..k : SubSeq(p, 1, k)[i] = p[i]
    BY <1>1, FrontIs
  <1>3. /\ SubSeq(q, 1, k) \in Path /\ Len(SubSeq(q, 1, k)) = k
        /\ \A i \in 1..k : SubSeq(q, 1, k)[i] = q[i]
    BY <1>1, FrontIs
  <1> QED BY <1>2, <1>3, SeqEqual DEF Path

\* A name is in the directory that the retention of its task goes through.
LEMMA ScopeIs ==
    ASSUME NEW template, NEW t, NEW name, NEW second, Proper(template, t, name, second),
           NEW extension, IsExtension(extension), PlainSegment(t, name)
    PROVE  LET path  == ObjectName(template, t, name, second, extension)
               scope == RetentionDirectory(template, t, name)
           IN  scope \in Path /\ \E r \in Path : r # <<>> /\ path = scope \o r
  <1> DEFINE whole == Whole(template, t, name, second, extension)
             keyed == Keyed(template, t, name)
             given == Given(template, t, name, second)
             full  == Full(template, t, name, second)
             n     == Len(template)
             last  == CleanPart(whole[n])
             path  == ObjectName(template, t, name, second, extension)
             scope == RetentionDirectory(template, t, name)
  <1>1. Proper(template, t, name, second) /\ IsExtension(extension)
    OBVIOUS
  <1>2. whole \in Path /\ Len(whole) = n /\ \A i \in 1..(n - 1) : whole[i] = full[i]
    BY ONLY <1>1, WholeShort
  <1>3. \A i \in 1..(n - 1) : full[i] = given[i]
    BY ONLY <1>1, FullIs
  <1>4. last # <<>>
    BY WholeLeft
  <1>5. path = CleanPath(whole)
    BY ObjectNameIs
  <1>6. n \in Nat \ {0}
    <2>1. template \in Seq(Part) /\ template # <<>>
      BY <1>1 DEF Path, Proper
    <2> QED BY ONLY <2>1, EmptySeq
  <1>7. keyed \in Path /\ Len(keyed) = n
    <2>1. template \in Path /\ t \in DOMAIN Key /\ name \in Part
      BY <1>1 DEF Proper
    <2> QED BY ONLY <2>1, KeyedIs
  <1>8. ASSUME NEW i \in 1..n, TimeFree(keyed[i])
        PROVE  given[i] = keyed[i]
    <2>1. PlainSegment(t, name) /\ i \in 1..Len(template) /\ TimeFree(Keyed(template, t, name)[i])
      BY <1>8
    <2> QED BY ONLY <1>1, <2>1, PartsAlike
  <1>9. scope = CleanPath(Stable(keyed))
    BY DEF RetentionDirectory
  <1>9a. last \in Part
    <2>1. whole[n] \in Part
      <3>1. n \in 1..Len(whole)
        BY <1>2, <1>6
      <3> QED BY <1>2, <3>1, ElementOfSeq DEF Path
    <2> QED BY <2>1, CleanPartTokens
  <1> HIDE DEF whole, keyed, given, full, n, path, scope
  <1>10. whole # <<>> /\ keyed # <<>> /\ last = CleanPart(whole[Len(whole)])
    BY <1>2, <1>6, <1>7, EmptySeq DEF Path
  <1>11. PICK k \in 0..(Len(keyed) - 1) :
            Stable(keyed) = SubSeq(keyed, 1, k) /\ \A i \in 1..k : TimeFree(keyed[i])
    BY <1>7, <1>10, StableIs
  <1>12. k \in 0..(n - 1) /\ k \in Nat /\ k <= n
    <2>1. PICK j \in Nat : j = n
      BY <1>6
    <2>2. k \in 0..(j - 1)
      BY <1>7, <2>1
    <2>3. k \in Nat /\ k <= j
      BY <2>2, Below
    <2> QED BY <2>1, <2>2, <2>3
  <1>13. ASSUME NEW i \in 1..k
         PROVE  whole[i] = keyed[i]
    <2>1. i \in 1..n /\ i \in 1..(n - 1)
      BY <1>6, <1>12, UpTo
    <2> QED BY <1>2, <1>3, <1>8, <1>11, <2>1
  <1>14. SubSeq(whole, 1, k) = SubSeq(keyed, 1, k)
    BY <1>2, <1>7, <1>12, <1>13, FrontsAlike
  <1> HIDE DEF last
  <1>15. PICK r \in Path : /\ path = CleanPath(SubSeq(whole, 1, k)) \o Append(r, last)
                           /\ CleanPath(SubSeq(whole, 1, k)) \in Path
    BY <1>2, <1>4, <1>5, <1>10, <1>12, CleanPathLast
  <1>16. Append(r, last) \in Path /\ Append(r, last) # <<>>
    BY <1>9a, AppendPath
  <1>17. scope \in Path /\ path = scope \o Append(r, last)
    BY <1>9, <1>11, <1>14, <1>15
  <1> QED BY <1>16, <1>17 DEF path, scope

RunsFit ==
    /\ run \in [Jobs -> [pc : {"idle", "write", "retain"}, cfg : TaskCfgs, second : 1..MaxClock]]
    /\ clock \in 1..MaxClock /\ runs \in 0..MaxRuns
    /\ \A j \in Jobs : run[j].second <= clock

ObjectsFit ==
    /\ \A o \in objects :
        /\ o.target \in Targets /\ o.task \in Tasks /\ o.cfg \in TaskCfgs
        /\ o.second \in 1..clock /\ o.mod \in o.second..clock /\ o.sealed \in BOOLEAN
    /\ \A o, p \in objects : o # p => Store(o.target) # Store(p.target) \/ o.path # p.path

TargetsInv == RunsFit /\ ObjectsFit /\ IsFiniteSet(objects)

\* A goroutine that does nothing.
LEMMA IdleFits == Idle \in [pc : {"idle", "write", "retain"}, cfg : TaskCfgs, second : 1..MaxClock] /\ Idle.second = 1
  <1>1. (CHOOSE c \in TaskCfgs : TRUE) \in TaskCfgs
    BY TargetsAssumption
  <1>2. 1 \in 1..MaxClock
    BY TargetsAssumption
  <1> QED BY <1>1, <1>2 DEF Idle

\* At first nothing is stored and nothing runs.
LEMMA InitTargetsInv == Init => TargetsInv
  BY IdleFits, TargetsAssumption, FS_EmptySet DEF Init, TargetsInv, RunsFit, ObjectsFit

\* Fewer objects fit as well.
LEMMA FewerFit ==
    ASSUME ObjectsFit, objects' \subseteq objects, clock' \in Nat, clock \in Nat, clock <= clock'
    PROVE  ObjectsFit'
  <1>1. ASSUME NEW o \in objects'
        PROVE  /\ o.target \in Targets /\ o.task \in Tasks /\ o.cfg \in TaskCfgs
               /\ o.second \in 1..clock' /\ o.mod \in o.second..clock' /\ o.sealed \in BOOLEAN
    BY DEF ObjectsFit
  <1>2. \A o, p \in objects' : o # p => Store(o.target) # Store(p.target) \/ o.path # p.path
    BY DEF ObjectsFit
  <1> QED BY <1>1, <1>2 DEF ObjectsFit, Store

\* A goroutine begins, goes on or ends.
LEMMA OneGoesOn ==
    ASSUME RunsFit, NEW j \in Jobs, NEW r, UNCHANGED clock, runs' \in 0..MaxRuns,
           r \in [pc : {"idle", "write", "retain"}, cfg : TaskCfgs, second : 1..MaxClock], r.second <= clock,
           run' = [run EXCEPT ![j] = r]
    PROVE  RunsFit'
  BY DEF RunsFit

\* Each step keeps the invariant.
LEMMA StepKeeps == TargetsInv /\ [Next]_vars => TargetsInv'
  <1> SUFFICES ASSUME TargetsInv, [Next]_vars
               PROVE  TargetsInv'
    OBVIOUS
  <1>0. RunsFit /\ ObjectsFit /\ clock \in Nat /\ MaxClock \in Nat /\ MaxRuns \in Nat /\ runs \in Nat
    BY TargetsAssumption DEF TargetsInv, RunsFit
  <1> DEFINE R == [pc : {"idle", "write", "retain"}, cfg : TaskCfgs, second : 1..MaxClock]
  <1>1. ASSUME NEW j \in Jobs, NEW c \in TaskCfgs, Start(j, c)
        PROVE  TargetsInv'
    <2> DEFINE r == [pc |-> "write", cfg |-> c, second |-> clock]
    <2>1. r \in R /\ r.second = clock
      BY <1>0 DEF RunsFit
    <2>2. runs' \in 0..MaxRuns /\ run' = [run EXCEPT ![j] = r] /\ UNCHANGED <<objects, clock>>
      BY <1>0, <1>1 DEF Start
    <2> HIDE DEF r
    <2>3. RunsFit'
      <3>1. r \in [pc : {"idle", "write", "retain"}, cfg : TaskCfgs, second : 1..MaxClock] /\ r.second <= clock
        BY <1>0, <2>1
      <3>2. runs' \in 0..MaxRuns /\ UNCHANGED clock /\ run' = [run EXCEPT ![j] = r]
        BY <2>2
      <3> QED BY <1>0, <3>1, <3>2, OneGoesOn
    <2> QED BY <1>0, <2>2, <2>3, FewerFit, FS_Subset DEF TargetsInv
  <1>2. ASSUME NEW t \in Tasks, NEW g \in Targets, NEW c \in TaskCfgs, RunBackup(t, g, c) \/ RunScheduled(t, g, c)
        PROVE  TargetsInv'
    BY <1>1, <1>2 DEF RunBackup, RunScheduled, Jobs, Slots
  <1>3. ASSUME NEW j \in Jobs, Write(j)
        PROVE  TargetsInv'
    <2> DEFINE o == Made(j, run[j])
               r == [run[j] EXCEPT !.pc = "retain"]
    <2>1. run[j] \in R /\ run[j].second <= clock
      BY <1>0 DEF RunsFit
    <2>2. r \in R /\ r.second <= clock
      BY <2>1
    <2>3. UNCHANGED <<clock, runs>> /\ run' = [run EXCEPT ![j] = r]
      BY <1>3 DEF Write
    <2>4. RunsFit'
      <3> HIDE DEF r
      <3> QED BY <1>0, <2>2, <2>3, OneGoesOn DEF RunsFit
    <2>5. /\ o.target \in Targets /\ o.task \in Tasks /\ o.cfg \in TaskCfgs
          /\ o.second \in 1..clock /\ o.mod \in o.second..clock /\ o.sealed \in BOOLEAN
      <3>1. /\ o.target = j[2] /\ o.task = j[1] /\ o.cfg = run[j].cfg /\ o.second = run[j].second
            /\ o.mod = clock /\ o.sealed = run[j].cfg.sealed
        BY DEF Made
      <3>2. j[1] \in Tasks /\ j[2] \in Targets
        BY DEF Jobs
      <3> QED BY <1>0, <2>1, <3>1, <3>2, TargetsAssumption
    <2>6. objects' = {p \in objects : Store(p.target) # Store(o.target) \/ p.path # o.path} \cup {o}
      BY <1>3 DEF Write
    <2> HIDE DEF o
    <2>7. ObjectsFit'
      <3>1. ASSUME NEW p \in objects'
            PROVE  /\ p.target \in Targets /\ p.task \in Tasks /\ p.cfg \in TaskCfgs
                   /\ p.second \in 1..clock' /\ p.mod \in p.second..clock' /\ p.sealed \in BOOLEAN
        BY <1>0, <2>3, <2>5, <2>6 DEF ObjectsFit
      <3>2. \A p, q \in objects' : p # q => Store(p.target) # Store(q.target) \/ p.path # q.path
        BY <1>0, <2>6 DEF ObjectsFit
      <3> QED BY <3>1, <3>2 DEF ObjectsFit, Store
    <2>8. IsFiniteSet(objects')
      <3> DEFINE rest == {p \in objects : Store(p.target) # Store(o.target) \/ p.path # o.path}
      <3>1. IsFiniteSet(rest)
        BY FS_Subset DEF TargetsInv
      <3> HIDE DEF rest
      <3>2. IsFiniteSet(rest \cup {o})
        BY <3>1, FS_AddElement
      <3> QED BY <2>6, <3>2 DEF rest
    <2> QED BY <2>4, <2>7, <2>8 DEF TargetsInv
  <1>4. ASSUME NEW j \in Jobs, WriteFails(j) \/ Retain(j)
        PROVE  TargetsInv'
    <2>1. objects' \subseteq objects /\ UNCHANGED <<clock, runs>> /\ run' = [run EXCEPT ![j] = Idle]
      <3>1. CASE WriteFails(j)
        BY <3>1 DEF WriteFails
      <3>2. CASE Retain(j)
        BY <3>2 DEF Retain
      <3> QED BY <1>4, <3>1, <3>2
    <2>2. RunsFit'
      <3>1. Idle \in R /\ Idle.second <= clock
        BY <1>0, IdleFits DEF RunsFit
      <3>2. runs' \in 0..MaxRuns
        BY <1>0, <2>1 DEF RunsFit
      <3> QED BY <1>0, <2>1, <3>1, <3>2, OneGoesOn
    <2> QED BY <1>0, <2>1, <2>2, FewerFit, FS_Subset DEF TargetsInv
  <1>5. ASSUME NEW g \in Targets, Choose(g)
        PROVE  TargetsInv'
    BY <1>0, <1>5, FewerFit, FS_Subset DEF Choose, TargetsInv, RunsFit
  <1>6. CASE Tick
    <2>1. clock' = clock + 1 /\ clock' \in 1..MaxClock /\ UNCHANGED <<objects, run, runs>>
      BY <1>0, <1>6 DEF Tick
    <2>2. RunsFit'
      BY <1>0, <2>1 DEF RunsFit
    <2> QED BY <1>0, <2>1, <2>2, FewerFit, FS_Subset DEF TargetsInv
  <1>7. CASE Restore
    <2>1. UNCHANGED <<objects, run, clock, runs>>
      BY <1>7 DEF Restore
    <2> QED BY <1>0, <2>1, FewerFit, FS_Subset DEF TargetsInv, RunsFit
  <1>8. CASE UNCHANGED vars
    BY <1>0, <1>8, FewerFit, FS_Subset DEF TargetsInv, RunsFit, vars
  <1> QED BY <1>2, <1>3, <1>4, <1>5, <1>6, <1>7, <1>8 DEF Next

\* What holds of the stores and of the runs in every state.
THEOREM TargetsInvariant == Spec => []TargetsInv
  BY InitTargetsInv, StepKeeps, PTL DEF Spec

\* storage.Write, archive.Build: whatever names tasks have, the stores hold one
\* object in a place, of a task and a configuration there is, and of a time past.
THEOREM TypeCorrect == Spec => []TypeOK
  <1>1. TargetsInv => TypeOK
    BY DEF TargetsInv, RunsFit, ObjectsFit, TypeOK
  <1> QED BY <1>1, TargetsInvariant, PTL

----------------------------------------------------------------------------
(* What goes, whatever it is called.                                        *)

\* ApplyRetention, Write: a backup that goes leaves as many in its store as the policy
\* of the run keeps, none of them older than it is, or one that was written in its
\* place at a later time.
LeavesAsManyAsKept ==
    [][\A o \in objects \ objects' :
        \E j \in Jobs :
            \/ /\ run[j].pc = "retain" /\ run[j].cfg.keep > 0
               /\ Cardinality({p \in objects' : Store(p.target) = Store(o.target) /\ p.mod >= o.mod}) >= run[j].cfg.keep
            \/ /\ run[j].pc = "write"
               /\ \E p \in objects' : /\ Store(p.target) = Store(o.target) /\ p.path = o.path
                                      /\ p.mod = clock /\ p.mod >= o.mod]_vars

\* What a listing tells is there, below the directory.
LEMMA ListedIs ==
    ASSUME NEW g, NEW scope
    PROVE  \A o \in Listed(g, scope) :
                o \in objects /\ Store(o.target) = Store(g) /\ IsStrictPrefix(WithPrefix(g, scope), o.path)
  BY DEF Listed, Under

\* Of listed ones some of which go, as many are kept as were to be.
LEMMA KeptAreMany ==
    ASSUME NEW listed, IsFiniteSet(listed), NEW kept \in SUBSET listed, NEW o \in listed \ kept,
           NEW n \in Nat, Newest(kept, listed, n)
    PROVE  Cardinality(kept) = n
  <1>1. Cardinality(kept) \in Nat /\ Cardinality(listed) \in Nat /\ Cardinality(kept) < Cardinality(listed)
    BY FS_Subset, FS_CardinalityType
  <1>2. Cardinality(kept) = Min({n, Cardinality(listed)})
    BY DEF Newest
  <1> DEFINE m == Min({n, Cardinality(listed)})
  <1>3. \E x \in {n, Cardinality(listed)} : \A y \in {n, Cardinality(listed)} : x <= y
    BY <1>1
  <1>4. m \in {n, Cardinality(listed)}
    BY <1>3 DEF Min
  <1> QED BY <1>1, <1>2, <1>4

\* A retention leaves as many of the store as it keeps.
LEMMA RetainLeaves ==
    ASSUME TargetsInv, NEW j \in Jobs, Retain(j), NEW o \in objects \ objects'
    PROVE  /\ run[j].pc = "retain" /\ run[j].cfg.keep > 0
           /\ Cardinality({p \in objects' : Store(p.target) = Store(o.target) /\ p.mod >= o.mod}) >= run[j].cfg.keep
  <1> DEFINE n == run[j].cfg.keep
             listed == Listed(j[2], Scope(run[j].cfg, j[1]))
             left == {p \in objects' : Store(p.target) = Store(o.target) /\ p.mod >= o.mod}
  <1>1. n \in Nat
    <2>1. run[j].cfg \in TaskCfgs
      BY DEF TargetsInv, RunsFit
    <2> QED BY <2>1, TargetsAssumption
  <1>2. PICK kept \in SUBSET listed : Newest(kept, listed, n) /\ objects' = objects \ (listed \ kept)
    BY DEF Retain
  <1>3. run[j].pc = "retain" /\ n # 0
    BY DEF Retain
  <1>4. o \in listed \ kept
    BY <1>2
  <1>5. listed \subseteq objects /\ \A p \in listed : Store(p.target) = Store(j[2])
    BY ListedIs
  <1>6. IsFiniteSet(listed) /\ IsFiniteSet(objects')
    BY <1>2, <1>5, FS_Subset DEF TargetsInv
  <1>7. \A p \in kept : p.mod >= o.mod
    BY <1>2, <1>4 DEF Newest
  <1> HIDE DEF n, listed
  <1>8. Cardinality(kept) = n
    BY <1>1, <1>2, <1>4, <1>6, KeptAreMany
  <1>9. kept \subseteq left
    BY <1>2, <1>4, <1>5, <1>7
  <1>10. left \subseteq objects'
    OBVIOUS
  <1> HIDE DEF left
  <1>11. IsFiniteSet(left)
    BY <1>6, <1>10, FS_Subset
  <1>12. Cardinality(kept) <= Cardinality(left) /\ Cardinality(left) \in Nat
    BY <1>9, <1>11, FS_Subset, FS_CardinalityType
  <1> QED BY <1>1, <1>3, <1>8, <1>12 DEF n, left

\* A run that writes puts its own in the place of what goes.
LEMMA WriteReplaces ==
    ASSUME TargetsInv, NEW j \in Jobs, Write(j), NEW o \in objects \ objects'
    PROVE  /\ run[j].pc = "write"
           /\ \E p \in objects' : /\ Store(p.target) = Store(o.target) /\ p.path = o.path
                                  /\ p.mod = clock /\ p.mod >= o.mod
  <1> DEFINE m == Made(j, run[j])
  <1>1. m.mod = clock
    BY DEF Made
  <1>2. /\ run[j].pc = "write"
        /\ objects' = {p \in objects : Store(p.target) # Store(m.target) \/ p.path # m.path} \cup {m}
    BY DEF Write
  <1> HIDE DEF m
  <1>3. m \in objects' /\ Store(m.target) = Store(o.target) /\ m.path = o.path
    BY <1>2
  <1>4. o.mod \in o.second..clock /\ o.second \in 1..clock /\ clock \in 1..MaxClock
    BY DEF TargetsInv, ObjectsFit, RunsFit
  <1>5. clock >= o.mod
    BY <1>4
  <1> QED BY <1>1, <1>2, <1>3, <1>5

\* However many runs write and trim, whatever names the tasks have: a backup goes only
\* when the store has as many that are no older as the run keeps, or one in its place.
THEOREM LeavesAsManyAsKeptHolds == Spec => LeavesAsManyAsKept
  <1> DEFINE Gone(o) ==
        \E j \in Jobs :
            \/ /\ run[j].pc = "retain" /\ run[j].cfg.keep > 0
               /\ Cardinality({p \in objects' : Store(p.target) = Store(o.target) /\ p.mod >= o.mod}) >= run[j].cfg.keep
            \/ /\ run[j].pc = "write"
               /\ \E p \in objects' : /\ Store(p.target) = Store(o.target) /\ p.path = o.path
                                      /\ p.mod = clock /\ p.mod >= o.mod
  <1>1. ASSUME TargetsInv, Next
        PROVE  \A o \in objects \ objects' : Gone(o)
    <2> SUFFICES ASSUME NEW o \in objects \ objects'
                 PROVE  Gone(o)
      OBVIOUS
    <2>1. \E j \in Jobs : Write(j) \/ Retain(j)
      BY <1>1, ZenonT(60) DEF Next, RunBackup, RunScheduled, Start, WriteFails, Choose, Tick, Restore
    <2>2. CASE \E j \in Jobs : Write(j)
      BY <1>1, <2>2, WriteReplaces
    <2>3. CASE \E j \in Jobs : Retain(j)
      BY <1>1, <2>3, RetainLeaves
    <2> QED BY <2>1, <2>2, <2>3
  <1> QED BY <1>1, TargetsInvariant, PTL DEF Spec, LeavesAsManyAsKept

----------------------------------------------------------------------------
(* Names that lead back.                                                    *)

\* What ObjectName made of a backup's task.
NameOf(o) == ObjectName(o.cfg.template, o.task, o.cfg.name, o.second, Extension(o.cfg))

\* A backup that a run made, whether or not it is still stored.
Shaped(o) ==
    /\ o.target \in Targets /\ o.task \in Tasks /\ o.cfg \in TaskCfgs /\ o.second \in 1..MaxClock
    /\ o.path = WithPrefix(o.target, NameOf(o)) /\ o.sealed = o.cfg.sealed

\* The name that a target has for what is stored at a path.
NamedOn(g, name, path) == name \in Path /\ name # <<>> /\ path = WithPrefix(g, name)

ChosenFits ==
    chosen # None =>
        /\ Shaped(chosen.of) /\ chosen.target \in Targets /\ Store(chosen.of.target) = Store(chosen.target)
        /\ NamedOn(chosen.target, chosen.name, chosen.of.path)

SentFits ==
    sent # None =>
        /\ Shaped(sent.asked) /\ Shaped(sent.from) /\ sent.from.path = sent.asked.path
        /\ \E g \in Targets :
            LET name == NameOn(g, sent.from)
            IN  /\ NamedOn(g, name, sent.from.path)
                /\ sent.plain = Plain(sent.from, name) /\ sent.as = ImportFilename(name)

NamedInv == (\A o \in objects : Shaped(o)) /\ ChosenFits /\ SentFits

\* What a backup's path is made of.
LEMMA ShapedIs ==
    ASSUME NEW o, Shaped(o)
    PROVE  /\ Proper(o.cfg.template, o.task, o.cfg.name, o.second) /\ IsExtension(Extension(o.cfg))
           /\ NameOf(o) \in Path /\ TargetCfg[o.target].root \in Path
           /\ o.path \in Path /\ o.path = TargetCfg[o.target].root \o NameOf(o)
  <1>1. Proper(o.cfg.template, o.task, o.cfg.name, o.second)
    BY TargetsAssumption DEF Shaped, Proper, Path, Part
  <1>2. IsExtension(Extension(o.cfg))
    BY DEF IsExtension, Extension
  <1>3. NameOf(o) \in Path
    <2>1. NameOf(o) = CleanPath(Whole(o.cfg.template, o.task, o.cfg.name, o.second, Extension(o.cfg)))
      BY ObjectNameIs DEF NameOf
    <2>2. Whole(o.cfg.template, o.task, o.cfg.name, o.second, Extension(o.cfg)) \in Path
      BY <1>1, <1>2, WholeShort
    <2> QED BY <2>1, <2>2, CleanPathParts
  <1>4. TargetCfg[o.target].root \in Path
    BY TargetsAssumption DEF Shaped, Path, Part
  <1>5. o.path = TargetCfg[o.target].root \o NameOf(o)
    BY DEF Shaped, WithPrefix
  <1>6. TargetCfg[o.target].root \o NameOf(o) \in Path
    BY <1>3, <1>4, ConcatProperties DEF Path
  <1> QED BY <1>1, <1>2, <1>3, <1>4, <1>5, <1>6

\* What is left of a path after its first part.
LEMMA RestIs ==
    ASSUME NEW r \in Path, NEW p \in Path, Len(r) <= Len(p), \A i \in 1..Len(r) : r[i] = p[i]
    PROVE  /\ SubSeq(p, Len(r) + 1, Len(p)) \in Path /\ p = r \o SubSeq(p, Len(r) + 1, Len(p))
           /\ Len(r) < Len(p) => SubSeq(p, Len(r) + 1, Len(p)) # <<>>
  <1>1. Len(r) \in Nat /\ Len(p) \in Nat
    BY LenProperties DEF Path
  <1>2. PICK m, n \in Nat : m = Len(r) /\ n = Len(p)
    BY <1>1
  <1>3. \A i \in (m + 1)..n : p[i] \in Part
    <2> SUFFICES ASSUME NEW i \in (m + 1)..n
                 PROVE  p[i] \in Part
      OBVIOUS
    <2>1. i \in 1..n
      OBVIOUS
    <2> QED BY <1>2, <2>1, ElementOfSeq DEF Path
  <1>4. SubSeq(p, m + 1, n) \in Path /\ Len(SubSeq(p, m + 1, n)) = IF m + 1 <= n THEN n - (m + 1) + 1 ELSE 0
    BY <1>3, SubSeqProperties DEF Path
  <1>5. m < n => SubSeq(p, m + 1, n) # <<>>
    <2> SUFFICES ASSUME m < n
                 PROVE  SubSeq(p, m + 1, n) # <<>>
      OBVIOUS
    <2>1. Len(SubSeq(p, m + 1, n)) # 0
      BY <1>4
    <2>2. Len(<<>>) = 0
      OBVIOUS
    <2> QED BY <2>1, <2>2
  <1>6. SubSeq(p, 1, m) = r
    <2>1. SubSeq(p, 1, m) = SubSeq(r, 1, m)
      <3>1. m <= Len(p) /\ m <= Len(r) /\ \A i \in 1..m : p[i] = r[i]
        BY <1>2
      <3> QED BY <3>1, FrontsAlike
    <2>2. SubSeq(r, 1, m) = r
      BY <1>2, SubSeqFull DEF Path
    <2> QED BY <2>1, <2>2
  <1>7. SubSeq(p, 1, m) \o SubSeq(p, m + 1, n) = SubSeq(p, 1, n)
    <2>1. 1 \in 1..(Len(p) + 1) /\ m \in (1 - 1)..Len(p) /\ n \in m..Len(p)
      BY <1>2
    <2> QED BY <2>1, ConcatAdjacentSubSeq DEF Path
  <1>8. SubSeq(p, 1, n) = p
    BY <1>2, SubSeqFull DEF Path
  <1> QED BY <1>2, <1>4, <1>5, <1>6, <1>7, <1>8

\* And of two in one.
LEMMA RestOfBoth ==
    ASSUME NEW r \in Path, NEW q \in Path
    PROVE  SubSeq(r \o q, Len(r) + 1, Len(r \o q)) = q
  <1> DEFINE p == r \o q
  <1>1. /\ p \in Path /\ Len(p) = Len(r) + Len(q) /\ Len(r) \in Nat /\ Len(q) \in Nat
        /\ \A i \in 1..(Len(r) + Len(q)) : p[i] = IF i <= Len(r) THEN r[i] ELSE q[i - Len(r)]
    BY ConcatProperties, LenProperties DEF Path
  <1> DEFINE s == SubSeq(p, Len(r) + 1, Len(p))
  <1>2. p = r \o q
    OBVIOUS
  <1> HIDE DEF p
  <1>3. Len(r) <= Len(p) /\ \A i \in 1..Len(r) : r[i] = p[i]
    <2>1. \A i \in 1..Len(r) : i \in 1..(Len(r) + Len(q)) /\ i <= Len(r)
      BY <1>1
    <2> QED BY <1>1, <2>1
  <1>4. s \in Path /\ p = r \o s
    BY <1>1, <1>3, RestIs
  <1> HIDE DEF s
  <1>5. r \o q = r \o s
    BY <1>2, <1>4
  <1>6. q = s
    BY <1>4, <1>5, ConcatSimplifications DEF Path
  <1> QED BY <1>6 DEF s, p

\* What a directory holds has a name on its target.
LEMMA InDirectory ==
    ASSUME NEW g \in Targets, NEW scope \in Path, NEW o, o.path \in Path,
           IsStrictPrefix(WithPrefix(g, scope), o.path)
    PROVE  NamedOn(g, NameOn(g, o), o.path)
  <1> DEFINE r == TargetCfg[g].root
             s == r \o scope
             p == o.path
  <1>1. r \in Path
    BY TargetsAssumption DEF Path, Part
  <1>2. Len(s) <= Len(p) /\ SubSeq(s, 1, Len(s)) = SubSeq(p, 1, Len(s)) /\ s # p
    BY DEF IsStrictPrefix, IsPrefix, WithPrefix
  <1> HIDE DEF r, p
  <1>3. /\ s \in Path /\ Len(s) = Len(r) + Len(scope) /\ Len(r) \in Nat /\ Len(scope) \in Nat
        /\ \A i \in 1..(Len(r) + Len(scope)) : s[i] = IF i <= Len(r) THEN r[i] ELSE scope[i - Len(r)]
    BY <1>1, ConcatProperties, LenProperties DEF Path
  <1> HIDE DEF s
  <1>4. p \in Path /\ Len(p) \in Nat
    BY LenProperties DEF p, Path
  <1>5. SubSeq(s, 1, Len(s)) = s
    BY <1>3, SubSeqFull DEF Path
  <1>6. Len(s) \in Nat
    BY <1>3
  <1>7. \A i \in 1..Len(s) : p[i] \in Part
    <2> SUFFICES ASSUME NEW i \in 1..Len(s)
                 PROVE  p[i] \in Part
      OBVIOUS
    <2>1. i \in 1..Len(p)
      BY <1>2, <1>4, <1>6
    <2> QED BY <1>4, <2>1, ElementOfSeq DEF Path
  <1>8. \A i \in 1..Len(s) : s[i] = p[i]
    <2>1. \A i \in 1..Len(s) : SubSeq(p, 1, Len(s))[i] = p[i]
      BY <1>6, <1>7, FrontIs
    <2> QED BY <1>2, <1>5, <2>1
  <1>9. Len(s) # Len(p)
    BY <1>2, <1>3, <1>4, <1>8, SeqEqual DEF Path
  <1>10. Len(r) < Len(p) /\ Len(r) <= Len(p)
    BY <1>2, <1>3, <1>4, <1>9
  <1>11. \A i \in 1..Len(r) : r[i] = p[i]
    <2>1. \A i \in 1..Len(r) : i \in 1..Len(s) /\ i \in 1..(Len(r) + Len(scope)) /\ i <= Len(r)
      BY <1>3
    <2> QED BY <1>3, <1>8, <2>1
  <1>12. /\ SubSeq(p, Len(r) + 1, Len(p)) \in Path /\ p = r \o SubSeq(p, Len(r) + 1, Len(p))
         /\ SubSeq(p, Len(r) + 1, Len(p)) # <<>>
    BY <1>1, <1>4, <1>10, <1>11, RestIs
  <1>13. NameOn(g, o) = SubSeq(p, Len(r) + 1, Len(p))
    BY DEF NameOn, r, p
  <1>14. WithPrefix(g, NameOn(g, o)) = r \o NameOn(g, o)
    BY DEF WithPrefix, r
  <1> QED BY <1>12, <1>13, <1>14 DEF NamedOn, p

\* Nothing is stored, chosen or sent at first.
LEMMA InitNamed == Init => NamedInv
  BY DEF Init, NamedInv, ChosenFits, SentFits

\* Runs make what they store.
LEMMA MadeShaped ==
    ASSUME TargetsInv, NEW j \in Jobs
    PROVE  Shaped(Made(j, run[j]))
  <1> DEFINE o == Made(j, run[j])
  <1>1. /\ o.target = j[2] /\ o.task = j[1] /\ o.cfg = run[j].cfg /\ o.second = run[j].second
        /\ o.sealed = run[j].cfg.sealed
        /\ o.path = WithPrefix(j[2], ObjectName(run[j].cfg.template, j[1], run[j].cfg.name, run[j].second, Extension(run[j].cfg)))
    BY DEF Made
  <1>2. j[1] \in Tasks /\ j[2] \in Targets
    BY DEF Jobs
  <1>3. run[j].cfg \in TaskCfgs /\ run[j].second \in 1..MaxClock
    BY DEF TargetsInv, RunsFit
  <1> HIDE DEF o
  <1>4. Shaped(o)
    BY <1>1, <1>2, <1>3 DEF Shaped, NameOf
  <1> QED BY <1>4 DEF o

\* Every step leaves objects named as their tasks have them named: Write names them, the others take away.
LEMMA ObjectsShaped ==
    ASSUME TargetsInv, \A o \in objects : Shaped(o), [Next]_vars
    PROVE  \A o \in objects' : Shaped(o)
  <1>1. objects' \subseteq objects \/ \E j \in Jobs : objects' \subseteq objects \cup {Made(j, run[j])}
    <2>1. ASSUME NEW j \in Jobs, Write(j)
          PROVE  objects' \subseteq objects \cup {Made(j, run[j])}
      <3> DEFINE m == Made(j, run[j])
      <3>1. objects' = {p \in objects : Store(p.target) # Store(m.target) \/ p.path # m.path} \cup {m}
        BY <2>1 DEF Write
      <3> HIDE DEF m
      <3>2. objects' \subseteq objects \cup {m}
        BY <3>1
      <3> QED BY <3>2 DEF m
    <2>2. ASSUME NEW j \in Jobs, WriteFails(j) \/ Retain(j)
          PROVE  objects' \subseteq objects
      BY <2>2 DEF WriteFails, Retain
    <2>3. CASE Next
      BY <2>1, <2>2, <2>3, ZenonT(60) DEF Next, RunBackup, RunScheduled, Start, Choose, Tick, Restore
    <2>4. CASE UNCHANGED vars
      BY <2>4 DEF vars
    <2> QED BY <2>3, <2>4
  <1> QED BY <1>1, MadeShaped

\* What a user is shown is there, under the name that the target has for it.
LEMMA ListedHasName ==
    ASSUME \A o \in objects : Shaped(o), NEW g \in Targets, NEW scope \in Path, NEW o \in Listed(g, scope)
    PROVE  /\ Shaped(o) /\ Store(o.target) = Store(g) /\ NamedOn(g, NameOn(g, o), o.path)
  <1>1. Shaped(o) /\ Store(o.target) = Store(g) /\ IsStrictPrefix(WithPrefix(g, scope), o.path)
    BY ListedIs
  <1>2. o.path \in Path
    BY <1>1, ShapedIs
  <1> QED BY <1>1, <1>2, InDirectory

\* The directories that are shown are paths.
LEMMA DirectoryIsPath ==
    ASSUME \A o \in objects : Shaped(o), NEW g \in Targets, NEW d \in Directories(g)
    PROVE  d \in Path
  <1>1. PICK o \in Listed(g, <<>>) : d = Front(NameOn(g, o))
    BY DEF Directories
  <1>2. <<>> \in Path
    BY EmptySeq DEF Path
  <1> DEFINE n == NameOn(g, o)
  <1>3. n \in Path /\ n # <<>>
    BY <1>2, ListedHasName, SMTT(40) DEF NamedOn
  <1> HIDE DEF n
  <1>4. PICK m \in Nat : Len(n) = m + 1
    <2>1. Len(n) \in Nat \ {0}
      BY <1>3, EmptySeq DEF Path
    <2>2. Len(n) - 1 \in Nat /\ Len(n) = (Len(n) - 1) + 1
      BY <2>1
    <2> QED BY <2>2, Zenon
  <1>5. \A i \in 1..m : n[i] \in Part
    <2> SUFFICES ASSUME NEW i \in 1..m
                 PROVE  n[i] \in Part
      OBVIOUS
    <2>1. i \in 1..Len(n)
      BY <1>4
    <2> QED BY <1>3, <2>1, ElementOfSeq DEF Path
  <1>6. SubSeq(n, 1, m) \in Path
    BY <1>5, FrontIs
  <1>7. Len(n) - 1 = m
    BY <1>4
  <1> QED BY <1>1, <1>6, <1>7 DEF Front, n

\* What is chosen stays the name of an object that a run has made.
LEMMA ChosenKeeps ==
    ASSUME NamedInv, [Next]_vars
    PROVE  ChosenFits'
  <1>1. ASSUME NEW g \in Targets, Choose(g)
        PROVE  ChosenFits'
    <2>1. PICK o \in InNone(g) \cup UNION {Listed(g, d) : d \in Directories(g)} : chosen' = Entry(g, o)
      BY <1>1 DEF Choose
    <2>2. \E scope \in Path : o \in Listed(g, scope)
      <3>1. <<>> \in Path
        BY EmptySeq DEF Path
      <3>2. CASE o \in InNone(g)
        BY <3>1, <3>2 DEF InNone
      <3>3. CASE \E d \in Directories(g) : o \in Listed(g, d)
        BY <3>3, DirectoryIsPath DEF NamedInv
      <3> QED BY <3>2, <3>3
    <2>3. Shaped(o) /\ Store(o.target) = Store(g) /\ NamedOn(g, NameOn(g, o), o.path)
      BY <2>2, ListedHasName DEF NamedInv
    <2>4. chosen'.of = o /\ chosen'.target = g /\ chosen'.name = NameOn(g, o)
      BY <2>1 DEF Entry
    <2>5. /\ Shaped(chosen'.of) /\ chosen'.target \in Targets /\ Store(chosen'.of.target) = Store(chosen'.target)
          /\ NamedOn(chosen'.target, chosen'.name, chosen'.of.path)
      BY <2>3, <2>4
    <2> QED BY <2>5 DEF ChosenFits
  <1>2. ASSUME chosen' = None \/ chosen' = chosen
        PROVE  ChosenFits'
    BY <1>2 DEF NamedInv, ChosenFits
  <1>3. CASE Next
    <2>1. (\E g \in Targets : Choose(g)) \/ chosen' = None \/ chosen' = chosen
      BY <1>3, ZenonT(60) DEF Next, RunBackup, RunScheduled, Start, Write, WriteFails, Retain, Tick, Restore
    <2> QED BY <1>1, <1>2, <2>1, SMTT(40)
  <1>4. CASE UNCHANGED vars
    BY <1>2, <1>4 DEF vars
  <1> QED BY <1>3, <1>4

\* What a restore sends had the name that was chosen.
LEMMA SentKeeps ==
    ASSUME NamedInv, [Next]_vars
    PROVE  SentFits'
  <1>1. ASSUME Restore, sent' # sent
        PROVE  SentFits'
    <2> DEFINE held == {o \in Held(chosen.target, chosen.name) : Opens(o, chosen.name)}
    <2>1. PICK o \in held : sent' = [asked |-> chosen.of, from |-> o, plain |-> Plain(o, chosen.name),
                                     as |-> ImportFilename(chosen.name)]
      BY <1>1 DEF Restore
    <2>2. chosen # None
      BY <1>1 DEF Restore
    <2>3. /\ Shaped(chosen.of) /\ chosen.target \in Targets
          /\ NamedOn(chosen.target, chosen.name, chosen.of.path)
      BY <2>2 DEF NamedInv, ChosenFits
    <2>4. Shaped(o) /\ o.path = WithPrefix(chosen.target, chosen.name)
      BY DEF Held, NamedInv
    <2>5. o.path = chosen.of.path
      BY <2>3, <2>4 DEF NamedOn
    <2>6. NameOn(chosen.target, o) = chosen.name
      <3>1. TargetCfg[chosen.target].root \in Path
        BY <2>3, TargetsAssumption DEF Path, Part
      <3>2. chosen.name \in Path
        BY <2>3 DEF NamedOn
      <3> QED BY <2>4, <3>1, <3>2, RestOfBoth DEF NameOn, WithPrefix
    <2>7. sent'.asked = chosen.of /\ sent'.from = o /\ sent'.plain = Plain(o, chosen.name) /\ sent'.as = ImportFilename(chosen.name)
      BY <2>1
    <2>8. /\ Shaped(sent'.asked) /\ Shaped(sent'.from) /\ sent'.from.path = sent'.asked.path
          /\ NamedOn(chosen.target, NameOn(chosen.target, sent'.from), sent'.from.path)
          /\ sent'.plain = Plain(sent'.from, NameOn(chosen.target, sent'.from))
          /\ sent'.as = ImportFilename(NameOn(chosen.target, sent'.from))
      BY <2>3, <2>4, <2>5, <2>6, <2>7
    <2> QED BY <2>3, <2>8 DEF SentFits
  <1>2. ASSUME sent' = None \/ sent' = sent
        PROVE  SentFits'
    BY <1>2 DEF NamedInv, SentFits
  <1>3. CASE Next
    <2>1. Restore \/ sent' = None \/ sent' = sent
      BY <1>3, ZenonT(60) DEF Next, RunBackup, RunScheduled, Start, Write, WriteFails, Retain, Tick, Choose
    <2> QED BY <1>1, <1>2, <2>1, SMTT(40)
  <1>4. CASE UNCHANGED vars
    BY <1>2, <1>4 DEF vars
  <1> QED BY <1>3, <1>4

\* Every object has the name that ObjectName gives its task at its second, and what is chosen and
\* sent goes by such a name: Write, Choose and Restore.
THEOREM NamesInvariant == Spec => []NamedInv
  <1>1. TargetsInv /\ NamedInv /\ [Next]_vars => NamedInv'
    <2> SUFFICES ASSUME TargetsInv, NamedInv, [Next]_vars
                 PROVE  NamedInv'
      OBVIOUS
    <2>1. \A o \in objects' : Shaped(o)
      BY ObjectsShaped DEF NamedInv
    <2>2. ChosenFits' /\ SentFits'
      BY ChosenKeeps, SentKeeps
    <2> QED BY <2>1, <2>2 DEF NamedInv
  <1> QED BY <1>1, InitNamed, TargetsInvariant, PTL DEF Spec

\* An object whose end is the program's has the end that its task's encryption asks for.
LEMMA ObjectEnds ==
    ASSUME NEW o, Shaped(o), NamesObject(o)
    PROVE  NameOf(o) # <<>> /\ EndsIn(NameOf(o)[Len(NameOf(o))], Extension(o.cfg))
  <1>1. /\ Proper(o.cfg.template, o.task, o.cfg.name, o.second) /\ IsExtension(Extension(o.cfg))
    BY ShapedIs
  <1>2. LeftToProgram(o.cfg.template, o.task, o.cfg.name, o.second)
    BY DEF NamesObject, LeftToProgram
  <1> QED BY <1>1, <1>2, NameLast DEF NameOf

\* A name that ends like an object's is of the kind that the object is.
LEMMA KindOfName ==
    ASSUME NEW c \in TaskCfgs, NEW name \in Path, name # <<>>, EndsIn(name[Len(name)], Extension(c))
    PROVE  IsEncryptedObject(name) = c.sealed /\ IsBackupObject(name)
  <1> DEFINE last == name[Len(name)]
  <1>1. last \in Part
    <2>1. Len(name) \in 1..Len(name)
      BY EmptySeq DEF Path
    <2> QED BY <2>1, ElementOfSeq DEF Path
  <1>2. EndsWith(name, EncryptedExtension) <=> EndsIn(last, EncryptedExtension)
    BY EndsWithIs, ExtensionsAre
  <1>3. EndsWith(name, PlainExtension) <=> EndsIn(last, PlainExtension)
    BY EndsWithIs, ExtensionsAre
  <1> HIDE DEF last
  <1>4. ~(EndsIn(last, EncryptedExtension) /\ EndsIn(last, PlainExtension))
    <2>1. IsExtension(PlainExtension) /\ IsExtension(EncryptedExtension)
      BY DEF IsExtension
    <2>2. PlainExtension[Len(PlainExtension)] = "zip" /\ EncryptedExtension[Len(EncryptedExtension)] = "json"
      BY ExtensionsAre
    <2>3. EndsIn(last, PlainExtension) => last[Len(last)] = "zip"
      BY <1>1, <2>1, <2>2, ExtensionEnds
    <2>4. EndsIn(last, EncryptedExtension) => last[Len(last)] = "json"
      BY <1>1, <2>1, <2>2, ExtensionEnds
    <2>5. "zip" # "json"
      OBVIOUS
    <2> QED BY <2>3, <2>4, <2>5
  <1>5. c.sealed \in BOOLEAN
    BY TargetsAssumption
  <1>6. CASE c.sealed
    <2>1. EndsIn(last, EncryptedExtension)
      BY <1>6 DEF Extension, last
    <2> QED BY <1>2, <1>5, <1>6, <2>1 DEF IsEncryptedObject, IsBackupObject, EndsWith
  <1>7. CASE ~c.sealed
    <2>1. EndsIn(last, PlainExtension)
      BY <1>7 DEF Extension, last
    <2>2. ~EndsIn(last, EncryptedExtension)
      BY <1>4, <2>1
    <2>3. ~EndsWith(name, EncryptedExtension) /\ EndsWith(name, PlainExtension)
      BY <1>2, <1>3, <2>1, <2>2
    <2>4. IsBackupObject(name)
      BY <2>3 DEF IsBackupObject
    <2>5. IsEncryptedObject(name) = FALSE
      BY <2>3 DEF IsEncryptedObject, EndsWith, IsSuffix, IsPrefix
    <2> QED BY <1>5, <1>7, <2>4, <2>5
  <1> QED BY <1>5, <1>6, <1>7

\* What is in a directory, with something after it.
LEMMA BelowIsStrict ==
    ASSUME NEW s \in Path, NEW r \in Path, r # <<>>
    PROVE  IsStrictPrefix(s, s \o r)
  <1> DEFINE p == s \o r
  <1>1. /\ p \in Path /\ Len(p) = Len(s) + Len(r) /\ Len(s) \in Nat
        /\ \A i \in 1..(Len(s) + Len(r)) : p[i] = IF i <= Len(s) THEN s[i] ELSE r[i - Len(s)]
    BY ConcatProperties, LenProperties DEF Path
  <1>2. Len(r) \in Nat \ {0}
    BY EmptySeq DEF Path
  <1> HIDE DEF p
  <1>3. \A i \in 1..Len(s) : s[i] = p[i]
    <2>1. \A i \in 1..Len(s) : i \in 1..(Len(s) + Len(r)) /\ i <= Len(s)
      BY <1>1, <1>2
    <2> QED BY <1>1, <2>1
  <1>4. Len(s) <= Len(p) /\ Len(s) # Len(p) /\ Len(s) <= Len(s)
    BY <1>1, <1>2
  <1>5. SubSeq(s, 1, Len(s)) = SubSeq(p, 1, Len(s))
    BY <1>1, <1>3, <1>4, FrontsAlike
  <1>6. s # p
    BY <1>4
  <1> QED BY <1>4, <1>5, <1>6 DEF IsStrictPrefix, IsPrefix, p

\* storage.ListBackupObjects, archive.ObjectName, archive.RetentionDirectory: whatever
\* the templates are, a backup is taken for what it is, and is in the directory of its
\* task and listed there, but for a task whose own name has {task_name} or {task_id} in
\* it and for a WebDAV listing that leaves a directory out or ends with an error.
THEOREM FoundAgainHolds == Spec => []FoundAgain
  <1>1. ASSUME NamedInv, NEW o \in objects, NamesObject(o)
        PROVE  /\ IsEncryptedObject(NameOn(o.target, o)) = o.sealed
               /\ (/\ PlainlyNamed(o) /\ Reached(o.target, Scope(o.cfg, o.task), o.path)
                   /\ ~Stuck(o.target, Scope(o.cfg, o.task)))
                    => o \in Listed(o.target, Scope(o.cfg, o.task))
    <2> DEFINE g == o.target
               root == TargetCfg[o.target].root
               scope == Scope(o.cfg, o.task)
               name == NameOf(o)
    <2>1. Shaped(o)
      BY <1>1 DEF NamedInv
    <2>2. /\ Proper(o.cfg.template, o.task, o.cfg.name, o.second) /\ IsExtension(Extension(o.cfg))
          /\ name \in Path /\ root \in Path /\ o.path = root \o name
      BY <2>1, ShapedIs
    <2>3. NameOn(g, o) = name
      BY <2>2, RestOfBoth DEF NameOn
    <2>4. name # <<>> /\ EndsIn(name[Len(name)], Extension(o.cfg))
      BY <1>1, <2>1, ObjectEnds
    <2>5. o.cfg \in TaskCfgs /\ o.sealed = o.cfg.sealed
      BY <2>1 DEF Shaped
    <2> HIDE DEF name
    <2>6. IsEncryptedObject(name) = o.cfg.sealed /\ IsBackupObject(name)
      BY <2>2, <2>4, <2>5, KindOfName
    <2>7. ASSUME PlainlyNamed(o), Reached(g, scope, o.path), ~Stuck(g, scope)
          PROVE  o \in Listed(g, scope)
      <3>1. PlainSegment(o.task, o.cfg.name)
        BY <2>7 DEF PlainlyNamed, PlainSegment, Segment
      <3>3. scope \in Path /\ \E r \in Path : r # <<>> /\ name = scope \o r
        BY <2>2, <3>1, ScopeIs, SMTT(40) DEF Scope, name, NameOf
      <3>4. PICK r \in Path : r # <<>> /\ name = scope \o r
        BY <3>3
      <3> HIDE DEF scope, root
      <3>5. root \o scope \in Path
        BY <2>2, <3>3, ConcatProperties DEF Path
      <3>6. o.path = (root \o scope) \o r
        <4>1. (root \o scope) \o r = root \o (scope \o r)
          BY <2>2, <3>3, <3>4, ConcatAssociative, SMTT(40) DEF Path
        <4> QED BY <2>2, <3>4, <4>1
      <3>7. IsStrictPrefix(WithPrefix(g, scope), o.path)
        BY <3>4, <3>5, <3>6, BelowIsStrict DEF WithPrefix, root
      <3> QED BY <1>1, <2>3, <2>6, <2>7, <3>7 DEF Listed, Under
    <2> QED BY <2>3, <2>5, <2>6, <2>7
  <1>2. NamedInv => FoundAgain
    BY <1>1 DEF FoundAgain
  <1> QED BY <1>2, NamesInvariant, PTL

\* The first tokens of a part.
LEMMA TokensFront ==
    ASSUME NEW p, NEW k \in Nat, \A i \in 1..k : p[i] \in STRING
    PROVE  /\ SubSeq(p, 1, k) \in Part /\ Len(SubSeq(p, 1, k)) = k
           /\ \A i \in 1..k : SubSeq(p, 1, k)[i] = p[i]
  <1>1. /\ SubSeq(p, 1, k) \in Part
        /\ Len(SubSeq(p, 1, k)) = IF 1 <= k THEN k - 1 + 1 ELSE 0
        /\ \A i \in 1..(k - 1 + 1) : SubSeq(p, 1, k)[i] = p[1 + i - 1]
    BY SubSeqProperties DEF Part
  <1>2. \A i \in 1..k : i \in 1..(k - 1 + 1) /\ 1 + i - 1 = i
    OBVIOUS
  <1>3. Len(SubSeq(p, 1, k)) = k
    BY <1>1
  <1> QED BY <1>1, <1>2, <1>3

\* The name that an export is sent under.
LEMMA SentAsPlain ==
    ASSUME NEW c \in TaskCfgs, NEW name \in Path, name # <<>>, EndsIn(name[Len(name)], Extension(c))
    PROVE  EndsWith(<<ImportFilename(name)>>, PlainExtension)
  <1> DEFINE last == name[Len(name)]
             as   == ImportFilename(name)
  <1>1. last \in Part
    <2>1. Len(name) \in 1..Len(name)
      BY EmptySeq DEF Path
    <2> QED BY <2>1, ElementOfSeq DEF Path
  <1>2. IsEncryptedObject(name) = c.sealed /\ IsBackupObject(name) /\ c.sealed \in BOOLEAN
    BY KindOfName, TargetsAssumption
  <1>3. as \in Part /\ EndsIn(as, PlainExtension)
    <2>1. CASE c.sealed
      <3>1. EndsIn(last, EncryptedExtension)
        BY <2>1 DEF Extension
      <3>2. as = SubSeq(last, 1, Len(last) - 4)
        BY <1>2, <2>1 DEF ImportFilename, Last
      <3> HIDE DEF last, as
      <3>3. Len(last) \in Nat /\ Len(last) >= 6 /\ \A i \in 1..6 : last[Len(last) - 6 + i] = EncryptedExtension[i]
        BY <1>1, <3>1, ExtensionsAre, LenProperties DEF EndsIn, Part
      <3>4. PICK m \in Nat : m = Len(last) - 4 /\ m >= 2
        BY <3>3, SMTT(40)
      <3>5. \A i \in 1..m : last[i] \in STRING
        <4> SUFFICES ASSUME NEW i \in 1..m
                     PROVE  last[i] \in STRING
          OBVIOUS
        <4>1. i \in 1..Len(last)
          BY <3>3, <3>4
        <4> QED BY <1>1, <4>1, ElementOfSeq DEF Part
      <3>6. as \in Part /\ Len(as) = m /\ \A i \in 1..m : as[i] = last[i]
        BY <3>2, <3>4, <3>5, TokensFront
      <3>7. as[m - 1] = "." /\ as[m] = "zip"
        <4>1. last[Len(last) - 6 + 1] = "." /\ last[Len(last) - 6 + 2] = "zip"
          BY <3>3 DEF EncryptedExtension
        <4>2. Len(last) - 6 + 1 = m - 1 /\ Len(last) - 6 + 2 = m /\ m - 1 \in 1..m /\ m \in 1..m
          BY <3>3, <3>4
        <4> QED BY <3>6, <4>1, <4>2
      <3>8. \A i \in 1..2 : as[m - 2 + i] = PlainExtension[i]
        <4> SUFFICES ASSUME NEW i \in 1..2
                     PROVE  as[m - 2 + i] = PlainExtension[i]
          OBVIOUS
        <4>1. i = 1 \/ i = 2
          OBVIOUS
        <4>2. m - 2 + 1 = m - 1 /\ m - 2 + 2 = m
          OBVIOUS
        <4>3. PlainExtension[1] = "." /\ PlainExtension[2] = "zip"
          BY DEF PlainExtension
        <4> QED BY <3>7, <4>1, <4>2, <4>3
      <3>9. EndsIn(as, PlainExtension)
        BY <3>4, <3>6, <3>8, ExtensionsAre DEF EndsIn
      <3> QED BY <3>6, <3>9 DEF as
    <2>2. CASE ~c.sealed
      <3>1. EndsIn(last, PlainExtension)
        BY <2>2 DEF Extension
      <3>2. EndsWith(name, PlainExtension)
        BY <3>1, EndsWithIs, ExtensionsAre
      <3>3. as = last
        BY <1>2, <2>2, <3>2 DEF ImportFilename, Last
      <3> QED BY <1>1, <3>1, <3>3
    <2> QED BY <1>2, <2>1, <2>2
  <1> HIDE DEF as
  <1>4. <<as>> \in Path /\ <<as>> # <<>> /\ Len(<<as>>) = 1 /\ <<as>>[1] = as
    <2>1. <<>> \in Path
      BY EmptySeq DEF Path
    <2>2. as \in Part
      BY <1>3
    <2>3. <<as>> \in Path /\ Len(<<as>>) = 1 /\ <<as>>[1] = as
      BY <2>1, <2>2, OneIs DEF Path
    <2>4. Len(<<>>) = 0
      OBVIOUS
    <2> QED BY <2>3, <2>4
  <1>5. EndsWith(<<as>>, PlainExtension)
    BY <1>3, <1>4, EndsWithIs, ExtensionsAre
  <1> QED BY <1>5 DEF as

\* The last part of a path is the last of its name on a target.
LEMMA LastOf ==
    ASSUME NEW r \in Path, NEW q \in Path, q # <<>>
    PROVE  (r \o q)[Len(r \o q)] = q[Len(q)]
  <1>1. Len(q) \in Nat \ {0}
    BY EmptySeq DEF Path
  <1>2. Len(q) - 1 \in Nat /\ Len(q) = (Len(q) - 1) + 1
    BY <1>1
  <1> QED BY <1>2, LastOfBoth

\* Two backups in one place are of one second, if the first has its second in its name
\* and nothing but a time looks like one in the name of the other.
LEMMA OneSecond ==
    ASSUME NEW o, NEW p, Shaped(o), Shaped(p), o.path = p.path, Stamped(o.cfg), Untimed(p.target, p.task, p.cfg)
    PROVE  o.second = p.second
  <1> DEFINE ts == Timestamp[o.second]
             root == TargetCfg[p.target].root
             S == Typed(p.target, p.task, p.cfg)
  <1>1. /\ Proper(o.cfg.template, o.task, o.cfg.name, o.second) /\ IsExtension(Extension(o.cfg))
        /\ NameOf(o) \in Path /\ TargetCfg[o.target].root \in Path /\ o.path = TargetCfg[o.target].root \o NameOf(o)
    BY ShapedIs
  <1>2. /\ Proper(p.cfg.template, p.task, p.cfg.name, p.second) /\ IsExtension(Extension(p.cfg))
        /\ NameOf(p) \in Path /\ root \in Path /\ p.path = root \o NameOf(p)
    BY ShapedIs
  <1>3. o.second \in DOMAIN Timestamp /\ p.second \in DOMAIN Timestamp /\ DOMAIN Date = DOMAIN Timestamp
    BY NamesAssumption, TargetsAssumption DEF Shaped
  <1>4. PICK part \in ToSet(NameOf(o)) : ts \in ToSet(part)
    <2>1. Last(o.cfg.template) = <<>> \/ \E i \in DOMAIN o.cfg.template : "{timestamp}" \in ToSet(o.cfg.template[i])
      BY DEF Stamped
    <2> QED BY <1>1, <2>1, NameStamped DEF NameOf
  <1>5. part \in ToSet(p.path)
    <2>1. ToSet(o.path) = ToSet(TargetCfg[o.target].root) \cup ToSet(NameOf(o))
      BY <1>1, TokensBoth DEF Path
    <2> QED BY <1>4, <2>1
  <1>6. ts \notin S /\ ts \in Kept
    <2>1. ts \in Range(Timestamp)
      BY <1>3 DEF Range
    <2>2. ts \in Kept
      BY <1>3, NamesAssumption
    <2> QED BY <2>1, <2>2 DEF Untimed
  <1>7. part \notin ToSet(root)
    <2>1. part \in ToSet(root) => ToSet(part) \subseteq S
      BY DEF Typed
    <2> QED BY <1>4, <1>6, <2>1
  <1>8. part \in ToSet(NameOf(p))
    <2>1. ToSet(p.path) = ToSet(root) \cup ToSet(NameOf(p))
      BY <1>2, TokensBoth DEF Path
    <2> QED BY <1>5, <1>7, <2>1
  <1>9. ToSet(part) \subseteq AllTokens(p.cfg.template, p.task, p.cfg.name, p.second)
    BY <1>2, <1>8, NameTokens DEF NameOf
  <1>10. TypedBy(p.cfg.template, p.task, p.cfg.name) \subseteq S
    BY DEF Typed, TypedBy
  <1>11. ts \in {Timestamp[p.second], Date[p.second]} \cup Own
    BY <1>4, <1>6, <1>9, <1>10 DEF AllTokens
  <1>12. ts \notin Own
    <2>1. ts \notin {"zip", "aes", "json", "default", "nowledge-mem"}
      BY <1>3, NamesAssumption
    <2>2. "." \notin Kept /\ "-" \notin Kept
      BY OwnWords DEF Punctuation
    <2> QED BY <1>6, <2>1, <2>2 DEF Own
  <1>13. ts # Date[p.second] /\ (ts = Timestamp[p.second] => o.second = p.second)
    BY <1>3, NamesAssumption
  <1> QED BY <1>11, <1>12, <1>13

\* restore.Manager.run, archive.ObjectName: whatever the tasks and their templates are
\* called, and whatever runs between, what is restored is what was chosen or has its
\* second, and it is sent as it was exported.
THEOREM RestoresChosenHolds == Spec => []RestoresChosen
  <1>1. ASSUME NamedInv, sent # None
        PROVE  /\ \/ sent.from.second = sent.asked.second \/ ~Stamped(sent.from.cfg)
                  \/ ~Untimed(sent.asked.target, sent.asked.task, sent.asked.cfg)
               /\ NamesObject(sent.from) => sent.plain /\ EndsWith(<<sent.as>>, PlainExtension)
    <2> DEFINE o == sent.from
    <2>1. /\ Shaped(sent.asked) /\ Shaped(o) /\ o.path = sent.asked.path
          /\ \E g \in Targets : /\ NamedOn(g, NameOn(g, o), o.path)
                                /\ sent.plain = Plain(o, NameOn(g, o)) /\ sent.as = ImportFilename(NameOn(g, o))
      BY <1>1 DEF NamedInv, SentFits
    <2>2. Stamped(o.cfg) /\ Untimed(sent.asked.target, sent.asked.task, sent.asked.cfg) => o.second = sent.asked.second
      BY <2>1, OneSecond
    <2>3. ASSUME NamesObject(o)
          PROVE  sent.plain /\ EndsWith(<<sent.as>>, PlainExtension)
      <3>1. PICK g \in Targets : /\ NamedOn(g, NameOn(g, o), o.path)
                                 /\ sent.plain = Plain(o, NameOn(g, o)) /\ sent.as = ImportFilename(NameOn(g, o))
        BY <2>1
      <3> DEFINE name == NameOn(g, o)
      <3>2. name \in Path /\ name # <<>> /\ o.path = TargetCfg[g].root \o name
        BY <3>1 DEF NamedOn, WithPrefix
      <3>3. NameOf(o) # <<>> /\ EndsIn(NameOf(o)[Len(NameOf(o))], Extension(o.cfg))
        BY <2>1, <2>3, ObjectEnds
      <3>4. TargetCfg[g].root \in Path
        BY TargetsAssumption DEF Path, Part
      <3>5. TargetCfg[o.target].root \in Path /\ NameOf(o) \in Path /\ o.path = TargetCfg[o.target].root \o NameOf(o)
        BY <2>1, ShapedIs
      <3> HIDE DEF name, o
      <3>6. o.path[Len(o.path)] = name[Len(name)]
        BY <3>2, <3>4, LastOf
      <3>7. o.path[Len(o.path)] = NameOf(o)[Len(NameOf(o))]
        BY <3>3, <3>5, LastOf
      <3>8. EndsIn(name[Len(name)], Extension(o.cfg))
        BY <3>3, <3>6, <3>7
      <3>9. o.cfg \in TaskCfgs /\ o.sealed = o.cfg.sealed
        BY <2>1 DEF Shaped
      <3>10. IsEncryptedObject(name) = o.cfg.sealed
        BY <3>2, <3>8, <3>9, KindOfName
      <3>11. EndsWith(<<ImportFilename(name)>>, PlainExtension)
        BY <3>2, <3>8, <3>9, SentAsPlain
      <3>12. Plain(o, name)
        BY <3>9, <3>10 DEF Plain
      <3> QED BY <3>1, <3>11, <3>12 DEF name
    <2> QED BY <2>2, <2>3
  <1>2. NamedInv => RestoresChosen
    BY <1>1 DEF RestoresChosen
  <1> QED BY <1>2, NamesInvariant, PTL

----------------------------------------------------------------------------
(* Parts that tell tasks apart.                                             *)

\* What becomes of a token when a part is cleaned.
Dash(x) == IF x \in Kept \cup Punctuation THEN x ELSE "-"

\* A part is cleaned to what is between its first and its last token of those kept.
LEMMA CleanIs ==
    ASSUME NEW raw \in Part
    PROVE  \/ (\A i \in 1..Len(raw) : raw[i] \notin Kept) /\ CleanPart(raw) = <<>>
           \/ \E m, n \in 1..Len(raw) :
                /\ m <= n /\ raw[m] \in Kept /\ raw[n] \in Kept
                /\ \A i \in 1..Len(raw) : raw[i] \in Kept => m <= i /\ i <= n
                /\ Len(CleanPart(raw)) = n - m + 1
                /\ \A i \in 1..(n - m + 1) : CleanPart(raw)[i] = Dash(raw[m + i - 1])
  <1> DEFINE s == TrimBoth(raw, {" "})
             f == [i \in DOMAIN s |-> IF s[i] \in Kept \cup Punctuation THEN s[i] ELSE "-"]
             c == CleanPart(raw)
  <1>1. c = IF s = <<>> THEN <<>> ELSE TrimBoth(f, Punctuation)
    BY DEF CleanPart, CleanSegment
  <1>2. Len(raw) \in Nat /\ \A i \in 1..Len(raw) : raw[i] \in STRING
    BY LenProperties, ElementOfSeq DEF Part
  <1>3. \/ (\A i \in 1..Len(raw) : raw[i] \in {" "}) /\ s = <<>>
        \/ \E m, n \in 1..Len(raw) :
             /\ m <= n /\ raw[m] \notin {" "} /\ raw[n] \notin {" "}
             /\ \A i \in 1..Len(raw) : raw[i] \notin {" "} => m <= i /\ i <= n
             /\ s = SubSeq(raw, m, n)
    BY TrimIs DEF Part
  <1>4. " " \notin Kept /\ \A w \in Punctuation : w \notin Kept
    BY OwnWords
  <1>5. CASE (\A i \in 1..Len(raw) : raw[i] \in {" "}) /\ s = <<>>
    BY <1>1, <1>4, <1>5
  <1>6. ASSUME NEW a \in 1..Len(raw), NEW b \in 1..Len(raw), a <= b,
               \A i \in 1..Len(raw) : raw[i] \notin {" "} => a <= i /\ i <= b,
               s = SubSeq(raw, a, b)
        PROVE  \/ (\A i \in 1..Len(raw) : raw[i] \notin Kept) /\ c = <<>>
               \/ \E m, n \in 1..Len(raw) :
                    /\ m <= n /\ raw[m] \in Kept /\ raw[n] \in Kept
                    /\ \A i \in 1..Len(raw) : raw[i] \in Kept => m <= i /\ i <= n
                    /\ Len(c) = n - m + 1
                    /\ \A i \in 1..(n - m + 1) : c[i] = Dash(raw[m + i - 1])
    <2> DEFINE l == b - a + 1
    <2> HIDE DEF s, f, c
    <2>1. l \in Nat /\ l # 0 /\ \A i \in 1..l : a + i - 1 \in 1..Len(raw)
      <3>1. a <= b
        BY <1>6
      <3> QED BY <1>2, <3>1
    <2>2. s \in Part /\ Len(s) = l /\ DOMAIN s = 1..l /\ \A i \in 1..l : s[i] = raw[a + i - 1]
      <3>1. \A i \in a..b : raw[i] \in STRING
        BY <1>2
      <3>2. /\ SubSeq(raw, a, b) \in Seq(STRING)
            /\ Len(SubSeq(raw, a, b)) = IF a <= b THEN b - a + 1 ELSE 0
            /\ \A i \in 1..(b - a + 1) : SubSeq(raw, a, b)[i] = raw[a + i - 1]
        BY <1>2, <3>1, SubSeqProperties
      <3> HIDE DEF s
      <3>3. s \in Seq(STRING) /\ Len(s) = l
        BY <1>6, <3>2
      <3> QED BY <1>6, <3>2, <3>3, LenProperties DEF Part
    <2>3. s # <<>>
      BY <2>1, <2>2
    <2>4. f = [i \in 1..l |-> Dash(raw[a + i - 1])]
      BY <2>2 DEF Dash, f
    <2>5. f \in Seq(STRING) /\ Len(f) = l /\ \A i \in 1..l : f[i] = Dash(raw[a + i - 1])
      <3>1. \A i \in 1..l : Dash(raw[a + i - 1]) \in STRING
        BY <1>2, <2>1, OwnWords DEF Dash
      <3> QED BY <2>1, <2>4, <3>1
    <2>6. \A x : (Dash(x) \notin Punctuation <=> x \in Kept)
      BY <1>4 DEF Dash, Punctuation
    <2>7. \A i \in 1..Len(raw) : raw[i] \in Kept => a <= i /\ i <= b /\ i - a + 1 \in 1..l /\ a + (i - a + 1) - 1 = i
      <3> SUFFICES ASSUME NEW i \in 1..Len(raw), raw[i] \in Kept
                   PROVE  a <= i /\ i <= b /\ i - a + 1 \in 1..l /\ a + (i - a + 1) - 1 = i
        OBVIOUS
      <3>1. raw[i] \notin {" "}
        BY <1>4
      <3>2. a <= i /\ i <= b
        BY <1>6, <3>1
      <3> QED BY <1>2, <3>2
    <2>8. \A i \in 1..Len(raw) : raw[i] \in Kept => f[i - a + 1] \notin Punctuation
      BY <2>5, <2>6, <2>7
    <2>9. c = TrimBoth(f, Punctuation)
      BY <1>1, <2>3
    <2>10. \/ (\A i \in 1..Len(f) : f[i] \in Punctuation) /\ TrimBoth(f, Punctuation) = <<>>
           \/ \E m, n \in 1..Len(f) :
                /\ m <= n /\ f[m] \notin Punctuation /\ f[n] \notin Punctuation
                /\ \A i \in 1..Len(f) : f[i] \notin Punctuation => m <= i /\ i <= n
                /\ TrimBoth(f, Punctuation) = SubSeq(f, m, n)
      BY <2>5, TrimIs
    <2>11. CASE (\A i \in 1..Len(f) : f[i] \in Punctuation) /\ TrimBoth(f, Punctuation) = <<>>
      <3>1. \A i \in 1..Len(raw) : raw[i] \notin Kept
        BY <2>5, <2>7, <2>8, <2>11
      <3> QED BY <2>9, <2>11, <3>1
    <2>12. ASSUME NEW m \in 1..l, NEW n \in 1..l, m <= n, f[m] \notin Punctuation, f[n] \notin Punctuation,
                  \A i \in 1..l : f[i] \notin Punctuation => m <= i /\ i <= n, c = SubSeq(f, m, n)
           PROVE  \E x, y \in 1..Len(raw) :
                    /\ x <= y /\ raw[x] \in Kept /\ raw[y] \in Kept
                    /\ \A i \in 1..Len(raw) : raw[i] \in Kept => x <= i /\ i <= y
                    /\ Len(c) = y - x + 1
                    /\ \A i \in 1..(y - x + 1) : c[i] = Dash(raw[x + i - 1])
      <3> DEFINE x == a + m - 1
                 y == a + n - 1
      <3>1. x \in 1..Len(raw) /\ y \in 1..Len(raw) /\ x <= y /\ raw[x] \in Kept /\ raw[y] \in Kept
        BY <2>1, <2>5, <2>6, <2>12, SMTT(40)
      <3>2. \A i \in 1..Len(raw) : raw[i] \in Kept => x <= i /\ i <= y
        <4> SUFFICES ASSUME NEW i \in 1..Len(raw), raw[i] \in Kept
                     PROVE  x <= i /\ i <= y
          OBVIOUS
        <4>1. i - a + 1 \in 1..l /\ f[i - a + 1] \notin Punctuation
          BY <2>7, <2>8
        <4>2. m <= i - a + 1 /\ i - a + 1 <= n
          BY <2>12, <4>1
        <4> QED BY <4>2
      <3>3. Len(c) = n - m + 1 /\ \A i \in 1..(n - m + 1) : c[i] = f[m + i - 1]
        <4>1. \A i \in m..n : f[i] \in STRING
          BY <2>5, ElementOfSeq
        <4>2. /\ Len(SubSeq(f, m, n)) = IF m <= n THEN n - m + 1 ELSE 0
              /\ \A i \in 1..(n - m + 1) : SubSeq(f, m, n)[i] = f[m + i - 1]
          BY <4>1, SubSeqProperties
        <4> HIDE DEF c
        <4> QED BY <2>12, <4>2
      <3>4. y - x + 1 = n - m + 1
        BY <2>1
      <3>5. \A i \in 1..(n - m + 1) : m + i - 1 \in 1..l /\ a + (m + i - 1) - 1 = x + i - 1
        BY <2>1
      <3>6. \A i \in 1..(y - x + 1) : c[i] = Dash(raw[x + i - 1])
        BY <2>5, <3>3, <3>4, <3>5
      <3> HIDE DEF x, y, c
      <3> QED BY <3>1, <3>2, <3>3, <3>4, <3>6, ZenonT(60)
    <2> HIDE DEF l, c
    <2>13. CASE \E m, n \in 1..Len(f) :
                /\ m <= n /\ f[m] \notin Punctuation /\ f[n] \notin Punctuation
                /\ \A i \in 1..Len(f) : f[i] \notin Punctuation => m <= i /\ i <= n
                /\ TrimBoth(f, Punctuation) = SubSeq(f, m, n)
      BY <2>5, <2>9, <2>12, <2>13
    <2> QED BY <2>10, <2>11, <2>13
  <1> HIDE DEF s, f, c
  <1>7. CASE \E m, n \in 1..Len(raw) :
             /\ m <= n /\ raw[m] \notin {" "} /\ raw[n] \notin {" "}
             /\ \A i \in 1..Len(raw) : raw[i] \notin {" "} => m <= i /\ i <= n
             /\ s = SubSeq(raw, m, n)
    BY <1>6, <1>7 DEF c
  <1> QED BY <1>3, <1>5, <1>7 DEF c

\* A part whose tokens of those kept are in one stretch of it is cleaned to no more than
\* that, and to no less if they are the ends of it.
LEMMA CleanMiddle ==
    ASSUME NEW raw \in Part, NEW a \in Nat, NEW l \in Nat, a + l <= Len(raw),
           \A i \in 1..Len(raw) : raw[i] \in Kept => a + 1 <= i /\ i <= a + l
    PROVE  /\ Len(CleanPart(raw)) <= l
           /\ l # 0 /\ raw[a + 1] \in Kept /\ raw[a + l] \in Kept =>
                Len(CleanPart(raw)) = l /\ \A i \in 1..l : CleanPart(raw)[i] = Dash(raw[a + i])
  <1> DEFINE c == CleanPart(raw)
  <1>1. Len(raw) \in Nat
    BY LenProperties DEF Part
  <1>2. \/ (\A i \in 1..Len(raw) : raw[i] \notin Kept) /\ c = <<>>
        \/ \E m, n \in 1..Len(raw) :
             /\ m <= n /\ raw[m] \in Kept /\ raw[n] \in Kept
             /\ \A i \in 1..Len(raw) : raw[i] \in Kept => m <= i /\ i <= n
             /\ Len(c) = n - m + 1
             /\ \A i \in 1..(n - m + 1) : c[i] = Dash(raw[m + i - 1])
    BY CleanIs
  <1> HIDE DEF c
  <1>3. l # 0 => a + 1 \in 1..Len(raw) /\ a + l \in 1..Len(raw)
    BY <1>1
  <1>4. CASE (\A i \in 1..Len(raw) : raw[i] \notin Kept) /\ c = <<>>
    <2>1. Len(c) = 0
      BY <1>4
    <2> QED BY <1>3, <1>4, <2>1 DEF c
  <1>5. ASSUME NEW m \in 1..Len(raw), NEW n \in 1..Len(raw), m <= n, raw[m] \in Kept, raw[n] \in Kept,
               \A i \in 1..Len(raw) : raw[i] \in Kept => m <= i /\ i <= n,
               Len(c) = n - m + 1, \A i \in 1..(n - m + 1) : c[i] = Dash(raw[m + i - 1])
        PROVE  /\ Len(c) <= l
               /\ l # 0 /\ raw[a + 1] \in Kept /\ raw[a + l] \in Kept =>
                    Len(c) = l /\ \A i \in 1..l : c[i] = Dash(raw[a + i])
    <2>1. a + 1 <= m /\ n <= a + l
      BY <1>5
    <2>2. ASSUME l # 0, raw[a + 1] \in Kept, raw[a + l] \in Kept
          PROVE  Len(c) = l /\ \A i \in 1..l : c[i] = Dash(raw[a + i])
      <3>1. m <= a + 1 /\ a + l <= n
        BY <1>3, <1>5, <2>2
      <3>2. m = a + 1 /\ n - m + 1 = l
        BY <1>1, <2>1, <3>1
      <3>3. \A i \in 1..l : m + i - 1 = a + i
        BY <3>2
      <3> QED BY <1>5, <3>2, <3>3
    <2>3. Len(c) <= l
      BY <1>1, <1>5, <2>1
    <2> QED BY <2>2, <2>3
  <1>6. CASE \E m, n \in 1..Len(raw) :
             /\ m <= n /\ raw[m] \in Kept /\ raw[n] \in Kept
             /\ \A i \in 1..Len(raw) : raw[i] \in Kept => m <= i /\ i <= n
             /\ Len(c) = n - m + 1
             /\ \A i \in 1..(n - m + 1) : c[i] = Dash(raw[m + i - 1])
    BY <1>5, <1>6 DEF c
  <1> QED BY <1>2, <1>4, <1>6 DEF c

\* Tokens for which they are put themselves stay.
LEMMA MappedSame ==
    ASSUME NEW p \in Part, NEW e \in [STRING -> Part], \A x \in ToSet(p) : e[x] = <<x>>
    PROVE  Mapped(p, e) = p
  <1> DEFINE S == {q \in Part : (\A x \in ToSet(q) : e[x] = <<x>>) => Mapped(q, e) = q}
  <1>1. <<>> \in S
    <2>1. <<>> \in Part
      BY EmptySeq DEF Part
    <2> QED BY <2>1, MappedNone
  <1>2. ASSUME NEW q \in Seq(STRING), NEW x \in STRING, q \in S
        PROVE  Append(q, x) \in S
    <2>1. Append(q, x) \in Part /\ Append(q, x) = q \o <<x>> /\ ToSet(Append(q, x)) = ToSet(q) \cup {x}
      <3>1. q \in Seq(STRING) /\ x \in STRING
        OBVIOUS
      <3>2. Append(q, x) \in Seq(STRING)
        BY ONLY <3>1, AppendProperties
      <3>3. Append(q, x) = q \o <<x>>
        BY ONLY <3>1, AppendIsConcat
      <3>4. ToSet(Append(q, x)) = ToSet(q) \cup {x}
        BY TokensAdded DEF Part
      <3> QED BY ONLY <3>2, <3>3, <3>4 DEF Part
    <2>2. Mapped(Append(q, x), e) = Mapped(q, e) \o e[x]
      BY MappedAppend DEF Part
    <2>3. ASSUME \A y \in ToSet(Append(q, x)) : e[y] = <<y>>
          PROVE  Mapped(Append(q, x), e) = Append(q, x)
      <3>1. (\A y \in ToSet(q) : e[y] = <<y>>) /\ e[x] = <<x>>
        BY <2>1, <2>3
      <3>2. Mapped(q, e) = q
        BY <1>2, <3>1
      <3> QED BY <2>1, <2>2, <3>1, <3>2
    <2> QED BY <2>1, <2>3
  <1> HIDE DEF S
  <1>3. Part \subseteq S
    BY <1>1, <1>2, InductiveSeq DEF Part
  <1>4. p \in S
    BY <1>3
  <1> QED BY <1>4 DEF S

\* Of two sequences of sequences, that is longer in one whose elements are.
LEMMA FlattenLengths ==
    ASSUME NEW T, NEW s \in Seq(Seq(T)), NEW u \in Seq(Seq(T)), Len(s) = Len(u),
           \A i \in 1..Len(s) : Len(s[i]) <= Len(u[i])
    PROVE  /\ Len(FlattenSeq(s)) <= Len(FlattenSeq(u))
           /\ \A i \in 1..Len(s) : Len(s[i]) < Len(u[i]) => Len(FlattenSeq(s)) < Len(FlattenSeq(u))
  <1> DEFINE n == Len(s)
             a(k) == Len(Joined(s)[k])
             b(k) == Len(Joined(u)[k])
             x(k) == Len(s[k])
             y(k) == Len(u[k])
             N == {k \in Nat : k \in 1..n => a(k) <= b(k) /\ \A i \in 1..k : x(i) < y(i) => a(k) < b(k)}
  <1>1. n \in Nat
    BY LenProperties
  <1>2. \A k \in 1..n : a(k) \in Nat /\ b(k) \in Nat /\ x(k) \in Nat /\ y(k) \in Nat /\ x(k) <= y(k)
    <2> SUFFICES ASSUME NEW k \in 1..n
                 PROVE  a(k) \in Nat /\ b(k) \in Nat /\ x(k) \in Nat /\ y(k) \in Nat /\ x(k) <= y(k)
      OBVIOUS
    <2>1. Joined(s)[k] \in Seq(T) /\ Joined(u)[k] \in Seq(T)
      BY JoinedAt
    <2>2. s[k] \in Seq(T) /\ u[k] \in Seq(T)
      BY ElementOfSeq
    <2> QED BY <2>1, <2>2, LenProperties
  <1>3. \A k \in 1..n : /\ k = 1 => a(k) = x(k) /\ b(k) = y(k)
                        /\ k # 1 => a(k) = a(k - 1) + x(k) /\ b(k) = b(k - 1) + y(k)
    <2> SUFFICES ASSUME NEW k \in 1..n
                 PROVE  /\ k = 1 => a(k) = x(k) /\ b(k) = y(k)
                        /\ k # 1 => a(k) = a(k - 1) + x(k) /\ b(k) = b(k - 1) + y(k)
      OBVIOUS
    <2>1. Joined(s)[k] = IF k = 1 THEN s[1] ELSE Joined(s)[k - 1] \o s[k]
      BY JoinedAt
    <2>2. Joined(u)[k] = IF k = 1 THEN u[1] ELSE Joined(u)[k - 1] \o u[k]
      BY JoinedAt
    <2>3. s[k] \in Seq(T) /\ u[k] \in Seq(T)
      BY ElementOfSeq
    <2>4. CASE k = 1
      BY <2>1, <2>2, <2>4
    <2>5. CASE k # 1
      <3>1. k - 1 \in 1..Len(s) /\ k - 1 \in 1..Len(u)
        BY <1>1, <2>5
      <3>2. Joined(s)[k - 1] \in Seq(T) /\ Joined(u)[k - 1] \in Seq(T)
        BY <3>1, JoinedAt
      <3>3. Len(Joined(s)[k - 1] \o s[k]) = a(k - 1) + x(k)
        BY <2>3, <3>2, ConcatProperties
      <3>4. Len(Joined(u)[k - 1] \o u[k]) = b(k - 1) + y(k)
        BY <2>3, <3>2, ConcatProperties
      <3>5. a(k) = a(k - 1) + x(k)
        BY <2>1, <2>5, <3>3
      <3>6. b(k) = b(k - 1) + y(k)
        BY <2>2, <2>5, <3>4
      <3> QED BY <2>5, <3>5, <3>6
    <2> QED BY <2>4, <2>5
  <1> HIDE DEF a, b, x, y, n
  <1>4. 0 \in N
    OBVIOUS
  <1>5. ASSUME NEW k \in Nat, k \in N
        PROVE  k + 1 \in N
    <2> SUFFICES ASSUME k + 1 \in 1..n
                 PROVE  a(k + 1) <= b(k + 1) /\ \A i \in 1..(k + 1) : x(i) < y(i) => a(k + 1) < b(k + 1)
      OBVIOUS
    <2>1. CASE k = 0
      BY <1>2, <1>3, <2>1
    <2>2. CASE k # 0
      <3>1. k \in 1..n
        BY <1>1, <2>2
      <3>2. a(k) <= b(k)
        BY <1>5, <3>1
      <3>3. a(k + 1) = a(k) + x(k + 1) /\ b(k + 1) = b(k) + y(k + 1)
        <4>1. k + 1 # 1 /\ k + 1 - 1 = k
          BY <2>2
        <4> QED BY <1>3, <4>1
      <3>4. a(k) \in Nat /\ b(k) \in Nat /\ x(k + 1) \in Nat /\ y(k + 1) \in Nat /\ x(k + 1) <= y(k + 1)
        BY <1>2, <3>1
      <3>5. a(k + 1) <= b(k + 1)
        BY <3>2, <3>3, <3>4
      <3>6. ASSUME NEW i \in 1..(k + 1), x(i) < y(i)
            PROVE  a(k + 1) < b(k + 1)
        <4>1. CASE i = k + 1
          BY <3>2, <3>3, <3>4, <3>6, <4>1
        <4>2. CASE i # k + 1
          <5>1. i \in 1..k
            BY <4>2
          <5>2. a(k) < b(k)
            BY <1>5, <3>1, <3>6, <5>1
          <5> QED BY <3>3, <3>4, <5>2
        <4> QED BY <4>1, <4>2
      <3> QED BY <3>5, <3>6
    <2> QED BY <2>1, <2>2
  <1> HIDE DEF N
  <1>6. Nat \subseteq N
    BY <1>4, <1>5, Inductive
  <1>7. CASE n = 0
    <2>1. s = <<>> /\ u = <<>>
      BY <1>7, EmptySeq DEF n
    <2>2. Len(FlattenSeq(s)) = 0 /\ Len(FlattenSeq(u)) = 0
      BY <2>1, FlattenNone
    <2>3. \A i \in 1..Len(s) : FALSE
      BY <1>7 DEF n
    <2>4. Len(FlattenSeq(s)) <= Len(FlattenSeq(u))
      BY <2>2
    <2> QED BY ONLY <2>3, <2>4
  <1>8. CASE n # 0
    <2>1. n \in 1..n /\ n \in N
      BY <1>1, <1>6, <1>8
    <2>2. a(n) <= b(n) /\ \A i \in 1..n : x(i) < y(i) => a(n) < b(n)
      BY <2>1 DEF N
    <2>3. s # <<>> /\ u # <<>>
      BY <1>8, EmptySeq DEF n
    <2>4. FlattenSeq(s) = Joined(s)[n] /\ FlattenSeq(u) = Joined(u)[n]
      BY <2>3, FlattenIs DEF n
    <2> QED BY <2>2, <2>4 DEF n, a, b, x, y
  <1> QED BY <1>7, <1>8

\* Of two things put for the tokens of a part, that makes it longer which puts more.
LEMMA MappedLengths ==
    ASSUME NEW p \in Part, NEW e \in [STRING -> Part], NEW f \in [STRING -> Part],
           \A i \in 1..Len(p) : Len(f[p[i]]) <= Len(e[p[i]])
    PROVE  /\ Len(Mapped(p, f)) <= Len(Mapped(p, e))
           /\ \A i \in 1..Len(p) : Len(f[p[i]]) < Len(e[p[i]]) => Len(Mapped(p, f)) < Len(Mapped(p, e))
  <1> DEFINE a == Each(p, f)
             b == Each(p, e)
  <1>1. a \in Seq(Seq(STRING)) /\ Len(a) = Len(p) /\ \A i \in 1..Len(p) : a[i] = f[p[i]]
    BY EachIs DEF Part
  <1>2. b \in Seq(Seq(STRING)) /\ Len(b) = Len(p) /\ \A i \in 1..Len(p) : b[i] = e[p[i]]
    BY EachIs DEF Part
  <1> HIDE DEF a, b
  <1>3. Len(a) = Len(b) /\ \A i \in 1..Len(a) : Len(a[i]) <= Len(b[i])
    BY <1>1, <1>2
  <1>4. /\ Len(FlattenSeq(a)) <= Len(FlattenSeq(b))
        /\ \A i \in 1..Len(a) : Len(a[i]) < Len(b[i]) => Len(FlattenSeq(a)) < Len(FlattenSeq(b))
    BY <1>1, <1>2, <1>3, FlattenLengths
  <1>5. Mapped(p, f) = FlattenSeq(a) /\ Mapped(p, e) = FlattenSeq(b)
    BY DEF Mapped, a, b
  <1> HIDE DEF Mapped
  <1> QED BY <1>1, <1>2, <1>4, <1>5

\* Of two paths, fewer parts are left of that of which more parts are lost.
LEMMA CleanPathLengths ==
    ASSUME NEW p \in Path, NEW q \in Path, Len(p) = Len(q),
           \A i \in 1..Len(p) : CleanPart(p[i]) # <<>> => CleanPart(q[i]) # <<>>
    PROVE  /\ Len(CleanPath(p)) <= Len(CleanPath(q))
           /\ \A i \in 1..Len(p) :
                CleanPart(p[i]) = <<>> /\ CleanPart(q[i]) # <<>> => Len(CleanPath(p)) < Len(CleanPath(q))
  <1> DEFINE a == Cleaned(p)
             b == Cleaned(q)
  <1>1. a \in Seq(Seq(Part)) /\ Len(a) = Len(p) /\ \A i \in 1..Len(p) : a[i] = IF CleanPart(p[i]) = <<>> THEN <<>> ELSE <<CleanPart(p[i])>>
    BY CleanedIs DEF Path
  <1>2. b \in Seq(Seq(Part)) /\ Len(b) = Len(p) /\ \A i \in 1..Len(p) : b[i] = IF CleanPart(q[i]) = <<>> THEN <<>> ELSE <<CleanPart(q[i])>>
    BY CleanedIs DEF Path
  <1> HIDE DEF a, b
  <1>3. \A x : Len(<<x>>) = 1
    OBVIOUS
  <1>4. Len(<<>>) = 0
    OBVIOUS
  <1>5. \A i \in 1..Len(p) : /\ Len(a[i]) = IF CleanPart(p[i]) = <<>> THEN 0 ELSE 1
                             /\ Len(b[i]) = IF CleanPart(q[i]) = <<>> THEN 0 ELSE 1
    BY <1>1, <1>2, <1>3, <1>4
  <1>6. Len(a) = Len(b) /\ \A i \in 1..Len(a) : Len(a[i]) <= Len(b[i])
    <2>1. Len(a) = Len(b) /\ Len(a) = Len(p)
      BY <1>1, <1>2
    <2>2. \A i \in 1..Len(p) : Len(a[i]) <= Len(b[i])
      BY <1>5
    <2> QED BY <2>1, <2>2
  <1>7. /\ Len(FlattenSeq(a)) <= Len(FlattenSeq(b))
        /\ \A i \in 1..Len(a) : Len(a[i]) < Len(b[i]) => Len(FlattenSeq(a)) < Len(FlattenSeq(b))
    BY <1>1, <1>2, <1>6, FlattenLengths
  <1>8. CleanPath(p) = FlattenSeq(a) /\ CleanPath(q) = FlattenSeq(b)
    BY DEF CleanPath, Cleaned, a, b
  <1> QED BY <1>1, <1>5, <1>7, <1>8

\* The pieces of a sequence.
LEMMA PiecesOf ==
    ASSUME NEW T, NEW p \in Seq(T), NEW m \in 1..Len(p), NEW n \in m..Len(p)
    PROVE  /\ SubSeq(p, 1, m - 1) \in Seq(T) /\ Len(SubSeq(p, 1, m - 1)) = m - 1
           /\ \A i \in 1..(m - 1) : SubSeq(p, 1, m - 1)[i] = p[i]
           /\ SubSeq(p, m, n) \in Seq(T) /\ Len(SubSeq(p, m, n)) = n - m + 1
           /\ \A i \in 1..(n - m + 1) : SubSeq(p, m, n)[i] = p[m + i - 1]
           /\ SubSeq(p, n + 1, Len(p)) \in Seq(T) /\ Len(SubSeq(p, n + 1, Len(p))) = Len(p) - n
           /\ \A i \in 1..(Len(p) - n) : SubSeq(p, n + 1, Len(p))[i] = p[n + i]
  <1>1. Len(p) \in Nat /\ \A i \in 1..Len(p) : p[i] \in T
    BY LenProperties, ElementOfSeq
  <1>2. PICK l \in Nat : l = Len(p)
    BY <1>1
  <1>3. m \in 1..l /\ n \in m..l
    BY <1>2
  <1>4. \A i \in 1..l : p[i] \in T
    BY <1>1, <1>2
  <1>5. \A i \in 1..(m - 1) : p[i] \in T
    BY <1>3, <1>4
  <1>6. \A i \in m..n : p[i] \in T
    BY <1>3, <1>4
  <1>7. \A i \in (n + 1)..l : p[i] \in T
    BY <1>3, <1>4
  <1>8. /\ SubSeq(p, 1, m - 1) \in Seq(T)
        /\ Len(SubSeq(p, 1, m - 1)) = IF 1 <= m - 1 THEN m - 1 - 1 + 1 ELSE 0
        /\ \A i \in 1..(m - 1 - 1 + 1) : SubSeq(p, 1, m - 1)[i] = p[1 + i - 1]
    <2>1. 1 \in Int /\ m - 1 \in Int
      BY <1>3
    <2> QED BY <1>5, <2>1, SubSeqProperties
  <1>9. /\ SubSeq(p, m, n) \in Seq(T)
        /\ Len(SubSeq(p, m, n)) = IF m <= n THEN n - m + 1 ELSE 0
        /\ \A i \in 1..(n - m + 1) : SubSeq(p, m, n)[i] = p[m + i - 1]
    <2>1. m \in Int /\ n \in Int
      BY <1>3
    <2> QED BY <1>6, <2>1, SubSeqProperties
  <1>10. /\ SubSeq(p, n + 1, l) \in Seq(T)
         /\ Len(SubSeq(p, n + 1, l)) = IF n + 1 <= l THEN l - (n + 1) + 1 ELSE 0
         /\ \A i \in 1..(l - (n + 1) + 1) : SubSeq(p, n + 1, l)[i] = p[n + 1 + i - 1]
    <2>1. n + 1 \in Int /\ l \in Int
      BY <1>3
    <2> QED BY <1>7, <2>1, SubSeqProperties
  <1>11. Len(SubSeq(p, 1, m - 1)) = m - 1 /\ \A i \in 1..(m - 1) : SubSeq(p, 1, m - 1)[i] = p[i]
    <2>1. \A i \in 1..(m - 1) : i \in 1..(m - 1 - 1 + 1) /\ 1 + i - 1 = i
      BY <1>3
    <2>2. Len(SubSeq(p, 1, m - 1)) = m - 1
      BY <1>3, <1>8
    <2> QED BY <1>8, <2>1, <2>2
  <1>12. Len(SubSeq(p, m, n)) = n - m + 1
    BY <1>3, <1>9
  <1>13. Len(SubSeq(p, n + 1, l)) = l - n /\ \A i \in 1..(l - n) : SubSeq(p, n + 1, l)[i] = p[n + i]
    <2>1. \A i \in 1..(l - n) : i \in 1..(l - (n + 1) + 1) /\ n + 1 + i - 1 = n + i
      BY <1>3
    <2>2. Len(SubSeq(p, n + 1, l)) = l - n
      BY <1>3, <1>10
    <2> QED BY <1>10, <2>1, <2>2
  <1> QED BY <1>2, <1>8, <1>9, <1>10, <1>11, <1>12, <1>13

\* And the sequence of them.
LEMMA PiecesJoin ==
    ASSUME NEW T, NEW p \in Seq(T), NEW m \in 1..Len(p), NEW n \in m..Len(p)
    PROVE  p = (SubSeq(p, 1, m - 1) \o SubSeq(p, m, n)) \o SubSeq(p, n + 1, Len(p))
  <1>1. PICK l \in Nat : l = Len(p)
    BY LenProperties
  <1>2. m \in 1..l /\ n \in m..l
    BY <1>1
  <1>3. SubSeq(p, 1, m - 1) \o SubSeq(p, m, n) = SubSeq(p, 1, n)
    <2>1. 1 \in 1..(Len(p) + 1) /\ m - 1 \in (1 - 1)..Len(p) /\ n \in (m - 1)..Len(p)
      BY <1>1, <1>2
    <2>2. SubSeq(p, 1, m - 1) \o SubSeq(p, m - 1 + 1, n) = SubSeq(p, 1, n)
      BY <2>1, ConcatAdjacentSubSeq
    <2>3. m - 1 + 1 = m
      BY <1>2
    <2> QED BY <2>2, <2>3
  <1>4. SubSeq(p, 1, n) \o SubSeq(p, n + 1, l) = p
    <2>1. 1 \in 1..(Len(p) + 1) /\ n \in (1 - 1)..Len(p) /\ l \in n..Len(p)
      BY <1>1, <1>2
    <2>2. SubSeq(p, 1, n) \o SubSeq(p, n + 1, l) = SubSeq(p, 1, l)
      BY <2>1, ConcatAdjacentSubSeq
    <2> QED BY <1>1, <2>2, SubSeqFull
  <1> QED BY <1>1, <1>3, <1>4

\* Three in one, place by place.
LEMMA ThreeInOne ==
    ASSUME NEW T, NEW u \in Seq(T), NEW g \in Seq(T), NEW w \in Seq(T)
    PROVE  /\ (u \o g) \o w \in Seq(T)
           /\ Len((u \o g) \o w) = Len(u) + Len(g) + Len(w)
           /\ Len(u) \in Nat /\ Len(g) \in Nat /\ Len(w) \in Nat
           /\ \A i \in 1..Len(u) : ((u \o g) \o w)[i] = u[i]
           /\ \A i \in 1..Len(g) : ((u \o g) \o w)[Len(u) + i] = g[i]
           /\ \A i \in 1..Len(w) : ((u \o g) \o w)[Len(u) + Len(g) + i] = w[i]
  <1> DEFINE a == u \o g
             r == a \o w
  <1>1. /\ a \in Seq(T) /\ Len(a) = Len(u) + Len(g) /\ Len(u) \in Nat /\ Len(g) \in Nat
        /\ \A i \in 1..(Len(u) + Len(g)) : a[i] = IF i <= Len(u) THEN u[i] ELSE g[i - Len(u)]
    BY ConcatProperties, LenProperties
  <1> HIDE DEF a
  <1>2. /\ r \in Seq(T) /\ Len(r) = Len(a) + Len(w) /\ Len(w) \in Nat
        /\ \A i \in 1..(Len(a) + Len(w)) : r[i] = IF i <= Len(a) THEN a[i] ELSE w[i - Len(a)]
    <2>1. Len(a) \in Nat /\ Len(w) \in Nat
      BY <1>1, LenProperties
    <2>2. a \o w \in Seq(T) /\ Len(a \o w) = Len(a) + Len(w)
      BY <1>1, ConcatProperties
    <2>3. \A i \in 1..(Len(a) + Len(w)) : (a \o w)[i] = IF i <= Len(a) THEN a[i] ELSE w[i - Len(a)]
      BY <1>1, ConcatProperties
    <2> QED BY <2>1, <2>2, <2>3
  <1> HIDE DEF r
  <1>3. ASSUME NEW i \in 1..Len(u)
        PROVE  r[i] = u[i]
    <2>1. i \in 1..(Len(u) + Len(g)) /\ i \in 1..(Len(a) + Len(w)) /\ i <= Len(a) /\ i <= Len(u)
      BY <1>1, <1>2
    <2> QED BY <1>1, <1>2, <2>1
  <1>4. ASSUME NEW i \in 1..Len(g)
        PROVE  r[Len(u) + i] = g[i]
    <2>1. /\ Len(u) + i \in 1..(Len(u) + Len(g)) /\ Len(u) + i \in 1..(Len(a) + Len(w)) /\ Len(u) + i <= Len(a)
          /\ ~(Len(u) + i <= Len(u)) /\ Len(u) + i - Len(u) = i
      BY <1>1, <1>2
    <2> QED BY <1>1, <1>2, <2>1
  <1>5. ASSUME NEW i \in 1..Len(w)
        PROVE  r[Len(u) + Len(g) + i] = w[i]
    <2>1. /\ Len(u) + Len(g) + i \in 1..(Len(a) + Len(w)) /\ ~(Len(u) + Len(g) + i <= Len(a))
          /\ Len(u) + Len(g) + i - Len(a) = i
      BY <1>1, <1>2
    <2> QED BY <1>1, <1>2, <2>1
  <1> QED BY <1>1, <1>2, <1>3, <1>4, <1>5 DEF r, a

\* What cleaning leaves: it ends with tokens of those kept, and cleaning changes none of it.
Tidy(s) ==
    /\ s \in Part /\ (s # <<>> => s[1] \in Kept /\ s[Len(s)] \in Kept)
    /\ \A i \in 1..Len(s) : Dash(s[i]) = s[i]

\* A part once cleaned.
LEMMA CleanTidy ==
    ASSUME NEW raw \in Part
    PROVE  Tidy(CleanPart(raw))
  <1> DEFINE c == CleanPart(raw)
  <1>1. c \in Part
    BY CleanPartTokens
  <1>2. "-" \in Punctuation
    BY DEF Punctuation
  <1>3. \A x : Dash(Dash(x)) = Dash(x) /\ (x \in Kept => Dash(x) = x)
    BY <1>2 DEF Dash
  <1>4. \/ (\A i \in 1..Len(raw) : raw[i] \notin Kept) /\ c = <<>>
        \/ \E m, n \in 1..Len(raw) :
             /\ m <= n /\ raw[m] \in Kept /\ raw[n] \in Kept
             /\ \A i \in 1..Len(raw) : raw[i] \in Kept => m <= i /\ i <= n
             /\ Len(c) = n - m + 1
             /\ \A i \in 1..(n - m + 1) : c[i] = Dash(raw[m + i - 1])
    BY CleanIs
  <1> HIDE DEF c
  <1>5. CASE c = <<>>
    <2>1. Len(c) = 0
      BY <1>5
    <2>2. \A i \in 1..Len(c) : FALSE
      BY <2>1
    <2> QED BY <1>1, <1>5, <2>2 DEF Tidy, c
  <1>6. ASSUME NEW m \in 1..Len(raw), NEW n \in 1..Len(raw), m <= n, raw[m] \in Kept, raw[n] \in Kept,
               Len(c) = n - m + 1, \A i \in 1..(n - m + 1) : c[i] = Dash(raw[m + i - 1])
        PROVE  Tidy(c)
    <2>1. 1 \in 1..(n - m + 1) /\ n - m + 1 \in 1..(n - m + 1) /\ m + 1 - 1 = m /\ m + (n - m + 1) - 1 = n
      BY <1>6
    <2>2. c[1] = Dash(raw[m]) /\ c[Len(c)] = Dash(raw[n])
      BY <1>6, <2>1
    <2>3. c[1] \in Kept /\ c[Len(c)] \in Kept
      BY <1>3, <1>6, <2>2
    <2>4. \A i \in 1..Len(c) : Dash(c[i]) = c[i]
      BY <1>3, <1>6
    <2> QED BY <1>1, <2>3, <2>4 DEF Tidy
  <1> QED BY <1>4, <1>5, <1>6 DEF c

\* A segment of a name or a key.
LEMMA SegmentTidy ==
    ASSUME NEW raw \in Part
    PROVE  /\ Tidy(CleanSegment(raw))
           /\ CleanSegment(raw) # CleanPart(raw) => CleanSegment(raw) = <<"default">>
  <1>1. CASE TrimBoth(raw, {" "}) # <<>>
    <2>1. CleanSegment(raw) = CleanPart(raw)
      BY <1>1 DEF CleanPart
    <2> QED BY <2>1, CleanTidy
  <1>2. CASE TrimBoth(raw, {" "}) = <<>>
    <2> DEFINE d == "default"
    <2>1. CleanSegment(raw) = <<d>>
      BY <1>2 DEF CleanSegment
    <2>2. d \in STRING /\ d \in Kept
      BY OwnWords
    <2> HIDE DEF d
    <2>3. <<d>> \in Part /\ Len(<<d>>) = 1 /\ <<d>>[1] = d
      BY <2>2, OneIs, EmptySeq DEF Part
    <2>4. Dash(d) = d
      BY <2>2 DEF Dash
    <2>5. Tidy(<<d>>)
      <3> DEFINE z == <<d>>
      <3>1. z \in Part /\ Len(z) = 1 /\ z[1] = d
        BY <2>3
      <3> HIDE DEF z
      <3>2. \A i \in 1..Len(z) : i = 1
        BY <3>1
      <3>3. \A i \in 1..Len(z) : Dash(z[i]) = z[i]
        BY <2>4, <3>1, <3>2
      <3>4. Tidy(z)
        BY <2>2, <3>1, <3>3 DEF Tidy
      <3> QED BY <3>4 DEF z
    <2> QED BY <2>1, <2>5 DEF d
  <1> QED BY <1>1, <1>2

\* What a task's key and name are in a path; of a key something is left.
LEMMA SegmentsTidy ==
    ASSUME NEW t \in DOMAIN Key, NEW name \in Part
    PROVE  /\ Tidy(TaskSegment(t, name)) /\ Tidy(CleanSegment(Key[t])) /\ CleanSegment(Key[t]) # <<>>
           /\ ToSet(CleanSegment(Key[t])) \cap {"{task}", "{task_name}", "{task_id}", "{timestamp}", "{date}"} = {}
  <1>1. Key[t] \in Part /\ Key[t] # <<>> /\ Key[t][1] \in Kept
    BY NamesAssumption DEF Part
  <1>2. TaskSegment(t, name) = CleanSegment(name) \/ TaskSegment(t, name) = CleanSegment(Key[t])
    BY DEF TaskSegment
  <1>3. Tidy(TaskSegment(t, name)) /\ Tidy(CleanSegment(Key[t]))
    BY <1>1, <1>2, SegmentTidy
  <1>4. Key[t][1] \in ToSet(Key[t])
    <2>1. 1 \in DOMAIN Key[t]
      BY <1>1, EmptySeq, LenProperties DEF Part
    <2> QED BY <2>1 DEF ToSet
  <1>5. ToSet(Key[t]) \cap Kept # {}
    BY <1>1, <1>4
  <1>6. CleanSegment(Key[t]) # <<>>
    BY <1>1, <1>5, CleanPartTokens
  <1>7. ToSet(CleanSegment(Key[t])) \subseteq ToSet(Key[t]) \cup {"-", "default"}
    BY <1>1, CleanSegmentTokens
  <1>8. ToSet(Key[t]) \cap {"{task}", "{task_name}", "{task_id}", "{timestamp}", "{date}"} = {}
    BY NamesAssumption DEF Tokens
  <1> QED BY <1>3, <1>6, <1>7, <1>8

\* A sequence is what is before a place, what is there, and what is after it.
LEMMA OneTakenOut ==
    ASSUME NEW T, NEW p \in Seq(T), NEW k \in 1..Len(p)
    PROVE  p = (SubSeq(p, 1, k - 1) \o SubSeq(p, k, k)) \o SubSeq(p, k + 1, Len(p))
  <1>1. PICK l \in Nat : l = Len(p)
    BY LenProperties
  <1>2. k \in 1..l
    BY <1>1
  <1>3. SubSeq(p, 1, k - 1) \o SubSeq(p, k, k) = SubSeq(p, 1, k)
    <2>1. 1 \in 1..(Len(p) + 1) /\ k - 1 \in (1 - 1)..Len(p) /\ k \in (k - 1)..Len(p)
      BY <1>1, <1>2
    <2>2. SubSeq(p, 1, k - 1) \o SubSeq(p, k - 1 + 1, k) = SubSeq(p, 1, k)
      BY <2>1, ConcatAdjacentSubSeq
    <2>3. k - 1 + 1 = k
      BY <1>2
    <2> QED BY <2>2, <2>3
  <1>4. SubSeq(p, 1, k) \o SubSeq(p, k + 1, l) = p
    <2>1. 1 \in 1..(Len(p) + 1) /\ k \in (1 - 1)..Len(p) /\ l \in k..Len(p)
      BY <1>1, <1>2
    <2>2. SubSeq(p, 1, k) \o SubSeq(p, k + 1, l) = SubSeq(p, 1, l)
      BY <2>1, ConcatAdjacentSubSeq, SMTT(40)
    <2> QED BY <1>1, <2>2, SubSeqFull
  <1> QED BY <1>1, <1>3, <1>4

\* Where what is put for a token is in what is put for a part.
LEMMA MappedAt ==
    ASSUME NEW p \in Part, NEW e \in [STRING -> Part], NEW k \in 1..Len(p)
    PROVE  LET u == SubSeq(p, 1, k - 1)
               w == SubSeq(p, k + 1, Len(p))
           IN  /\ u \in Part /\ w \in Part /\ Len(u) = k - 1 /\ \A i \in 1..(k - 1) : u[i] = p[i]
               /\ Mapped(p, e) \in Part /\ e[p[k]] \in Part
               /\ Len(Mapped(u, e)) \in Nat /\ Len(e[p[k]]) \in Nat /\ Len(Mapped(w, e)) \in Nat
               /\ Len(Mapped(p, e)) = Len(Mapped(u, e)) + Len(e[p[k]]) + Len(Mapped(w, e))
               /\ \A i \in 1..Len(e[p[k]]) : Mapped(p, e)[Len(Mapped(u, e)) + i] = e[p[k]][i]
               /\ k = 1 => Len(Mapped(u, e)) = 0
               /\ k = Len(p) => Len(Mapped(w, e)) = 0
  <1> DEFINE u == SubSeq(p, 1, k - 1)
             v == SubSeq(p, k, k)
             w == SubSeq(p, k + 1, Len(p))
             x == p[k]
  <1>1. Len(p) \in Nat /\ x \in STRING
    BY LenProperties, ElementOfSeq DEF Part
  <1>2. k \in k..Len(p)
    BY <1>1
  <1>3. /\ u \in Part /\ Len(u) = k - 1 /\ \A i \in 1..(k - 1) : u[i] = p[i]
        /\ v \in Part /\ Len(v) = k - k + 1 /\ \A i \in 1..(k - k + 1) : v[i] = p[k + i - 1]
        /\ w \in Part /\ Len(w) = Len(p) - k
        /\ p = (u \o v) \o w
    <2>1. p \in Seq(STRING)
      BY DEF Part
    <2>2. u \in Seq(STRING) /\ Len(u) = k - 1 /\ \A i \in 1..(k - 1) : u[i] = p[i]
      BY <1>2, <2>1, PiecesOf
    <2>3. v \in Seq(STRING) /\ Len(v) = k - k + 1 /\ \A i \in 1..(k - k + 1) : v[i] = p[k + i - 1]
      BY <1>2, <2>1, PiecesOf
    <2>4. w \in Seq(STRING) /\ Len(w) = Len(p) - k
      BY <1>2, <2>1, PiecesOf
    <2>5. p = (u \o v) \o w
      BY <2>1, OneTakenOut
    <2> HIDE DEF u, v, w
    <2> QED BY <2>2, <2>3, <2>4, <2>5 DEF Part
  <1>4. v = <<x>>
    <2>1. k - k + 1 = 1 /\ k + 1 - 1 = k
      OBVIOUS
    <2> HIDE DEF v, x, u, w
    <2>2. Len(v) = 1 /\ v[1] = x
      BY <1>3, <2>1 DEF x
    <2>3. <<x>> \in Part /\ Len(<<x>>) = 1 /\ <<x>>[1] = x
      BY <1>1, OneIs, EmptySeq DEF Part
    <2>4. \A i \in 1..Len(v) : v[i] = <<x>>[i]
      BY <2>2, <2>3
    <2> QED BY <1>3, <2>2, <2>3, <2>4, SeqEqual DEF Part
  <1> HIDE DEF u, v, w, x
  <1>5. u \o v \in Part
    BY <1>3, ConcatPart
  <1>6. Mapped(p, e) = (Mapped(u, e) \o e[x]) \o Mapped(w, e)
    <2>1. Mapped((u \o v) \o w, e) = Mapped(u \o v, e) \o Mapped(w, e)
      BY <1>3, <1>5, MappedBoth, ZenonT(60)
    <2>2. Mapped(u \o v, e) = Mapped(u, e) \o Mapped(v, e)
      BY <1>3, MappedBoth
    <2>3. Mapped(v, e) = e[x]
      BY <1>1, <1>4, MappedOne
    <2> QED BY <1>3, <2>1, <2>2, <2>3
  <1>7. Mapped(u, e) \in Part /\ e[x] \in Part /\ Mapped(w, e) \in Part
    BY <1>1, <1>3, MappedTokens
  <1> DEFINE a == Mapped(u, e)
             g == e[x]
             b == Mapped(w, e)
  <1>7a. a \in Part /\ g \in Part /\ b \in Part
    BY <1>7
  <1> HIDE DEF a, g, b
  <1>8. /\ (a \o g) \o b \in Part
        /\ Len((a \o g) \o b) = Len(a) + Len(g) + Len(b)
        /\ Len(a) \in Nat /\ Len(g) \in Nat /\ Len(b) \in Nat
        /\ \A i \in 1..Len(g) : ((a \o g) \o b)[Len(a) + i] = g[i]
    BY <1>7a, ThreeInOne DEF Part
  <1>9. k = 1 => a = <<>>
    <2>1. k = 1 => u = <<>>
      BY <1>3, EmptySeq DEF Part
    <2> QED BY <2>1, MappedNone DEF a
  <1>10. k = Len(p) => b = <<>>
    <2>1. k = Len(p) => w = <<>>
      BY <1>1, <1>3, EmptySeq DEF Part
    <2> QED BY <2>1, MappedNone DEF b
  <1>11. (k = 1 => Len(a) = 0) /\ (k = Len(p) => Len(b) = 0)
    BY <1>9, <1>10
  <1> QED BY <1>3, <1>6, <1>7, <1>8, <1>11 DEF u, w, x, a, g, b

\* The ends of what is put for a part.
LEMMA MappedEnds ==
    ASSUME NEW p \in Part, p # <<>>, NEW e \in [STRING -> Part],
           e[p[1]] # <<>>, e[p[1]][1] \in Kept, e[p[Len(p)]] # <<>>, e[p[Len(p)]][Len(e[p[Len(p)]])] \in Kept
    PROVE  Len(Mapped(p, e)) # 0 /\ Mapped(p, e)[1] \in Kept /\ Mapped(p, e)[Len(Mapped(p, e))] \in Kept
  <1>1. 1 \in 1..Len(p) /\ Len(p) \in 1..Len(p)
    BY EmptySeq, LenProperties DEF Part
  <1>2. Len(e[p[1]]) # 0 /\ Len(e[p[Len(p)]]) # 0
    <2>1. e[p[1]] \in Part /\ e[p[Len(p)]] \in Part
      BY <1>1, MappedAt
    <2> QED BY <2>1, EmptySeq DEF Part
  <1>3. Len(Mapped(p, e)) # 0 /\ Mapped(p, e)[1] \in Kept
    <2> DEFINE a == Mapped(SubSeq(p, 1, 1 - 1), e)
               g == e[p[1]]
               b == Mapped(SubSeq(p, 1 + 1, Len(p)), e)
    <2>1. /\ Len(g) \in Nat /\ Len(b) \in Nat
          /\ Len(Mapped(p, e)) = Len(a) + Len(g) + Len(b)
          /\ \A i \in 1..Len(g) : Mapped(p, e)[Len(a) + i] = g[i]
          /\ Len(a) = 0
      BY <1>1, MappedAt, ZenonT(60)
    <2> HIDE DEF a, g, b
    <2>2. Len(g) # 0 /\ g[1] \in Kept
      BY <1>2 DEF g
    <2>3. 1 \in 1..Len(g) /\ Len(a) + 1 = 1
      BY <2>1, <2>2
    <2>4. Mapped(p, e)[1] = g[1]
      BY <2>1, <2>3
    <2> QED BY <2>1, <2>2, <2>4
  <1>4. Mapped(p, e)[Len(Mapped(p, e))] \in Kept
    <2> DEFINE l == Len(p)
               a == Mapped(SubSeq(p, 1, l - 1), e)
               g == e[p[l]]
               b == Mapped(SubSeq(p, l + 1, Len(p)), e)
    <2>1. /\ Len(a) \in Nat /\ Len(g) \in Nat
          /\ Len(Mapped(p, e)) = Len(a) + Len(g) + Len(b)
          /\ \A i \in 1..Len(g) : Mapped(p, e)[Len(a) + i] = g[i]
          /\ Len(b) = 0
      BY <1>1, MappedAt, ZenonT(60)
    <2> HIDE DEF a, g, b
    <2>2. Len(g) # 0 /\ g[Len(g)] \in Kept
      BY <1>2 DEF g
    <2>3. Len(g) \in 1..Len(g) /\ Len(a) + Len(g) = Len(Mapped(p, e))
      BY <2>1, <2>2
    <2> QED BY <2>1, <2>2, <2>3
  <1> QED BY <1>3, <1>4

\* A replacement for one token, by a segment.
Puts(p, token, e) ==
    e \in [STRING -> Part] /\ Tidy(e[token]) /\ \A i \in 1..Len(p) : p[i] # token => e[p[i]] = <<p[i]>>

\* The stretch of a part that begins and ends with the token or a token that is kept, and
\* has all of them.
Middle(p, token, m, n) ==
    /\ m \in 1..Len(p) /\ n \in m..Len(p)
    /\ \A i \in 1..Len(p) : p[i] = token \/ p[i] \in Kept => m <= i /\ i <= n
    /\ (p[m] = token \/ p[m] \in Kept) /\ (p[n] = token \/ p[n] \in Kept)

\* There is one in a part that has the token.
LEMMA MiddleIs ==
    ASSUME NEW p \in Part, NEW token, token \in ToSet(p)
    PROVE  \E m, n \in Nat : Middle(p, token, m, n)
  <1> DEFINE S == {i \in 1..Len(p) : p[i] = token \/ p[i] \in Kept}
  <1>1. Len(p) \in Nat /\ DOMAIN p = 1..Len(p)
    BY LenProperties DEF Part
  <1>2. S \subseteq 1..Len(p) /\ S # {}
    BY <1>1 DEF ToSet
  <1>3. \A i \in S : p[i] = token \/ p[i] \in Kept
    OBVIOUS
  <1>4. \A i \in 1..Len(p) : p[i] = token \/ p[i] \in Kept => i \in S
    OBVIOUS
  <1> HIDE DEF S
  <1>5. /\ Min(S) \in S /\ \A y \in S : Min(S) <= y
        /\ Max(S) \in S /\ \A y \in S : Max(S) >= y
    BY <1>1, <1>2, MinOf, MaxOf
  <1>6. PICK m \in S, n \in S : \A y \in S : m <= y /\ n >= y
    BY <1>5
  <1>7. m \in 1..Len(p) /\ n \in 1..Len(p) /\ m <= n
    BY <1>2, <1>6
  <1>8. n \in m..Len(p) /\ m \in Nat /\ n \in Nat
    BY <1>1, <1>7
  <1>9. Middle(p, token, m, n)
    <2>1. \A i \in 1..Len(p) : p[i] = token \/ p[i] \in Kept => m <= i /\ i <= n
      <3> SUFFICES ASSUME NEW i \in 1..Len(p), p[i] = token \/ p[i] \in Kept
                   PROVE  m <= i /\ i <= n
        OBVIOUS
      <3>1. i \in S
        BY <1>4
      <3> QED BY <1>6, <1>7, <3>1
    <2> QED BY <1>3, <1>6, <1>7, <1>8, <2>1 DEF Middle
  <1> QED BY <1>8, <1>9

\* What is left of something is no longer than what is put for its stretch, or is all of that.
Stretches(c, g, all) ==
    /\ Len(c) \in Nat /\ Len(g) \in Nat /\ Len(c) <= Len(g)
    /\ all => Len(c) = Len(g) /\ \A i \in 1..Len(g) : c[i] = Dash(g[i])

\* What is put for the stretch is all that cleaning leaves, if the segment is not empty.
LEMMA MiddleKept ==
    ASSUME NEW p \in Part, NEW token \in STRING, NEW e, Puts(p, token, e), NEW m, NEW n, Middle(p, token, m, n)
    PROVE  Stretches(CleanPart(Mapped(p, e)), Mapped(SubSeq(p, m, n), e), e[token] # <<>>)
  <1> DEFINE u == SubSeq(p, 1, m - 1)
             v == SubSeq(p, m, n)
             w == SubSeq(p, n + 1, Len(p))
             g == Mapped(v, e)
             raw == Mapped(p, e)
             c == CleanPart(raw)
  <1>1. m \in 1..Len(p) /\ n \in m..Len(p) /\ Len(p) \in Nat
    BY LenProperties DEF Middle, Part
  <1>2. e \in [STRING -> Part]
    BY DEF Puts
  <1>3. /\ u \in Part /\ Len(u) = m - 1 /\ \A i \in 1..(m - 1) : u[i] = p[i]
        /\ v \in Part /\ Len(v) = n - m + 1 /\ \A i \in 1..(n - m + 1) : v[i] = p[m + i - 1]
        /\ w \in Part /\ Len(w) = Len(p) - n /\ \A i \in 1..(Len(p) - n) : w[i] = p[n + i]
        /\ p = (u \o v) \o w
    <2>1. p \in Seq(STRING)
      BY DEF Part
    <2>2. u \in Seq(STRING) /\ Len(u) = m - 1 /\ \A i \in 1..(m - 1) : u[i] = p[i]
      BY <1>1, <2>1, PiecesOf
    <2>3. v \in Seq(STRING) /\ Len(v) = n - m + 1 /\ \A i \in 1..(n - m + 1) : v[i] = p[m + i - 1]
      BY <1>1, <2>1, PiecesOf
    <2>4. w \in Seq(STRING) /\ Len(w) = Len(p) - n /\ \A i \in 1..(Len(p) - n) : w[i] = p[n + i]
      BY <1>1, <2>1, PiecesOf
    <2>5. p = (u \o v) \o w
      BY <1>1, <2>1, PiecesJoin
    <2> HIDE DEF u, v, w
    <2> QED BY <2>2, <2>3, <2>4, <2>5 DEF Part
  <1>4. \A i \in 1..Len(p) : i < m \/ n < i => p[i] # token /\ p[i] \notin Kept
    <2> SUFFICES ASSUME NEW i \in 1..Len(p), i < m \/ n < i, p[i] = token \/ p[i] \in Kept
                 PROVE  FALSE
      OBVIOUS
    <2>1. m <= i /\ i <= n
      BY DEF Middle
    <2> QED BY <1>1, <2>1
  <1> HIDE DEF u, v, w, g, raw, c
  <1>5. \A i \in 1..Len(u) : u[i] \notin Kept /\ e[u[i]] = <<u[i]>>
    <2> SUFFICES ASSUME NEW i \in 1..Len(u)
                 PROVE  u[i] \notin Kept /\ e[u[i]] = <<u[i]>>
      OBVIOUS
    <2>1. i \in 1..(m - 1) /\ i \in 1..Len(p) /\ i < m
      BY <1>1, <1>3
    <2>2. u[i] = p[i] /\ p[i] # token /\ p[i] \notin Kept
      BY <1>3, <1>4, <2>1
    <2> QED BY <2>1, <2>2 DEF Puts
  <1>6. \A i \in 1..Len(w) : w[i] \notin Kept /\ e[w[i]] = <<w[i]>>
    <2> SUFFICES ASSUME NEW i \in 1..Len(w)
                 PROVE  w[i] \notin Kept /\ e[w[i]] = <<w[i]>>
      OBVIOUS
    <2>1. i \in 1..(Len(p) - n) /\ n + i \in 1..Len(p) /\ n < n + i
      BY <1>1, <1>3
    <2>2. w[i] = p[n + i] /\ p[n + i] # token /\ p[n + i] \notin Kept
      BY <1>3, <1>4, <2>1
    <2> QED BY <2>1, <2>2 DEF Puts
  <1>7. Mapped(u, e) = u /\ Mapped(w, e) = w
    <2>1. \A s \in Part : (\A i \in 1..Len(s) : e[s[i]] = <<s[i]>>) => \A x \in ToSet(s) : e[x] = <<x>>
      BY LenProperties DEF ToSet, Part
    <2>2. (\A x \in ToSet(u) : e[x] = <<x>>) /\ (\A x \in ToSet(w) : e[x] = <<x>>)
      BY <1>3, <1>5, <1>6, <2>1
    <2> QED BY <1>2, <1>3, <2>2, MappedSame
  <1>8. raw = (u \o g) \o w
    <2>1. u \o v \in Part
      BY <1>3, ConcatPart
    <2>2. Mapped((u \o v) \o w, e) = Mapped(u \o v, e) \o Mapped(w, e)
      BY <1>2, <1>3, <2>1, MappedBoth, ZenonT(60)
    <2>3. Mapped(u \o v, e) = Mapped(u, e) \o Mapped(v, e)
      BY <1>2, <1>3, MappedBoth, ZenonT(60)
    <2> QED BY <1>3, <1>7, <2>2, <2>3 DEF raw, g
  <1>9. g \in Part
    BY <1>2, <1>3, MappedTokens DEF g
  <1>10. /\ raw \in Part /\ Len(raw) = Len(u) + Len(g) + Len(w)
         /\ Len(u) \in Nat /\ Len(g) \in Nat /\ Len(w) \in Nat
         /\ \A i \in 1..Len(u) : raw[i] = u[i]
         /\ \A i \in 1..Len(g) : raw[Len(u) + i] = g[i]
         /\ \A i \in 1..Len(w) : raw[Len(u) + Len(g) + i] = w[i]
    <2> DEFINE x == (u \o g) \o w
    <2>1. u \in Part /\ g \in Part /\ w \in Part
      BY <1>3, <1>9
    <2>3. x \in Part /\ Len(x) = Len(u) + Len(g) + Len(w) /\ Len(u) \in Nat /\ Len(g) \in Nat /\ Len(w) \in Nat
      BY ONLY <2>1, ThreeInOne DEF Part
    <2>4. \A i \in 1..Len(u) : x[i] = u[i]
      BY ONLY <2>1, ThreeInOne DEF Part
    <2>5. \A i \in 1..Len(g) : x[Len(u) + i] = g[i]
      BY ONLY <2>1, ThreeInOne DEF Part
    <2>6. \A i \in 1..Len(w) : x[Len(u) + Len(g) + i] = w[i]
      BY ONLY <2>1, ThreeInOne DEF Part
    <2>2. raw = x
      BY <1>8
    <2> HIDE DEF x
    <2> QED BY <2>2, <2>3, <2>4, <2>5, <2>6
  <1> DEFINE a == Len(u)
             l == Len(g)
  <1>11. a \in Nat /\ l \in Nat /\ a + l <= Len(raw)
    BY <1>10
  <1>12. \A i \in 1..Len(raw) : raw[i] \in Kept => a + 1 <= i /\ i <= a + l
    <2> SUFFICES ASSUME NEW i \in 1..Len(raw), raw[i] \in Kept
                 PROVE  a + 1 <= i /\ i <= a + l
      OBVIOUS
    <2>1. CASE i <= a
      <3>1. i \in 1..Len(u)
        BY <1>10, <2>1
      <3>2. raw[i] = u[i] /\ u[i] \notin Kept
        BY <1>5, <1>10, <3>1
      <3> QED BY <3>2
    <2>2. CASE i > a + l
      <3>1. i - (a + l) \in 1..Len(w) /\ Len(u) + Len(g) + (i - (a + l)) = i
        BY <1>10, <2>2
      <3>2. raw[i] = w[i - (a + l)] /\ w[i - (a + l)] \notin Kept
        BY <1>6, <1>10, <3>1
      <3> QED BY <3>2
    <2> QED BY <1>11, <2>1, <2>2
  <1>13. /\ Len(c) <= l
         /\ l # 0 /\ raw[a + 1] \in Kept /\ raw[a + l] \in Kept =>
              Len(c) = l /\ \A i \in 1..l : c[i] = Dash(raw[a + i])
    <2> HIDE DEF a, l
    <2> QED BY <1>10, <1>11, <1>12, CleanMiddle DEF c
  <1>14. ASSUME e[token] # <<>>
         PROVE  l # 0 /\ g[1] \in Kept /\ g[l] \in Kept
    <2>1. Tidy(e[token])
      BY DEF Puts
    <2>2. e[token][1] \in Kept /\ e[token][Len(e[token])] \in Kept
      BY <1>14, <2>1 DEF Tidy
    <2>3. \A x : x \in Kept => <<x>> # <<>> /\ <<x>>[1] \in Kept /\ <<x>>[Len(<<x>>)] \in Kept
      OBVIOUS
    <2>4. \A i \in 1..Len(p) : p[i] = token \/ p[i] \in Kept =>
             e[p[i]] # <<>> /\ e[p[i]][1] \in Kept /\ e[p[i]][Len(e[p[i]])] \in Kept
      <3> SUFFICES ASSUME NEW i \in 1..Len(p), p[i] = token \/ p[i] \in Kept
                   PROVE  e[p[i]] # <<>> /\ e[p[i]][1] \in Kept /\ e[p[i]][Len(e[p[i]])] \in Kept
        OBVIOUS
      <3>1. CASE p[i] = token
        BY <1>14, <2>2, <3>1
      <3>2. CASE p[i] # token
        <4>1. e[p[i]] = <<p[i]>> /\ p[i] \in Kept
          BY <3>2 DEF Puts
        <4> QED BY <2>3, <4>1
      <3> QED BY <3>1, <3>2
    <2>5. Len(v) # 0 /\ v[1] = p[m] /\ v[Len(v)] = p[n]
      <3>1. 1 \in 1..(n - m + 1) /\ n - m + 1 \in 1..(n - m + 1) /\ m + 1 - 1 = m /\ m + (n - m + 1) - 1 = n
        BY <1>1
      <3>2. v[1] = p[m]
        <4>1. v[1] = p[m + 1 - 1]
          BY <1>3, <3>1
        <4> QED BY <3>1, <4>1
      <3>3. v[n - m + 1] = p[n]
        <4>1. v[n - m + 1] = p[m + (n - m + 1) - 1]
          BY <1>3, <3>1
        <4> QED BY <3>1, <4>1
      <3>4. Len(v) = n - m + 1 /\ n - m + 1 # 0
        BY <1>1, <1>3
      <3> QED BY <3>2, <3>3, <3>4
    <2>6. m \in 1..Len(p) /\ n \in 1..Len(p) /\ (p[m] = token \/ p[m] \in Kept) /\ (p[n] = token \/ p[n] \in Kept)
      <3>1. n \in 1..Len(p)
        BY <1>1
      <3> QED BY <1>1, <3>1 DEF Middle
    <2>7. e[v[1]] # <<>> /\ e[v[1]][1] \in Kept /\ e[v[Len(v)]] # <<>> /\ e[v[Len(v)]][Len(e[v[Len(v)]])] \in Kept
      BY <2>4, <2>5, <2>6
    <2>8. v # <<>>
      BY <2>5
    <2> QED BY <1>2, <1>3, <2>7, <2>8, MappedEnds DEF g
  <1>15. ASSUME e[token] # <<>>
         PROVE  Len(c) = Len(g) /\ \A i \in 1..Len(g) : c[i] = Dash(g[i])
    <2>1. l # 0 /\ g[1] \in Kept /\ g[l] \in Kept
      BY <1>14, <1>15
    <2>2. 1 \in 1..Len(g) /\ Len(g) \in 1..Len(g)
      BY <1>11, <2>1
    <2>3. raw[a + 1] \in Kept /\ raw[a + l] \in Kept
      BY <1>10, <2>1, <2>2
    <2>4. Len(c) = l /\ \A i \in 1..l : c[i] = Dash(raw[a + i])
      BY <1>13, <2>1, <2>3
    <2> QED BY <1>10, <2>4
  <1>16. Len(c) \in Nat
    BY <1>10, CleanPartTokens, LenProperties DEF c, Part
  <1>17. Stretches(c, g, e[token] # <<>>)
    BY <1>11, <1>13, <1>15, <1>16 DEF Stretches
  <1> QED BY <1>17 DEF c, g, raw, v

\* Replacements that differ for the token alone, of which the one puts no less.
LEMMA PutsLengths ==
    ASSUME NEW p \in Part, NEW token \in STRING, NEW e \in [STRING -> Part], NEW f \in [STRING -> Part],
           \A i \in 1..Len(p) : p[i] # token => e[p[i]] = f[p[i]],
           Len(f[token]) <= Len(e[token])
    PROVE  /\ Len(Mapped(p, f)) <= Len(Mapped(p, e))
           /\ token \in ToSet(p) /\ Len(f[token]) < Len(e[token]) => Len(Mapped(p, f)) < Len(Mapped(p, e))
  <1>1. \A i \in 1..Len(p) : Len(f[p[i]]) <= Len(e[p[i]])
    <2> SUFFICES ASSUME NEW i \in 1..Len(p)
                 PROVE  Len(f[p[i]]) <= Len(e[p[i]])
      OBVIOUS
    <2>1. Len(e[p[i]]) \in Nat
      BY EachIs, LenProperties DEF Part
    <2>2. CASE p[i] = token
      BY <2>2
    <2>3. CASE p[i] # token
      <3>1. Len(f[p[i]]) = Len(e[p[i]])
        BY <2>3
      <3> QED BY <2>1, <3>1
    <2> QED BY <2>2, <2>3
  <1>2. /\ Len(Mapped(p, f)) <= Len(Mapped(p, e))
        /\ \A i \in 1..Len(p) : Len(f[p[i]]) < Len(e[p[i]]) => Len(Mapped(p, f)) < Len(Mapped(p, e))
    BY <1>1, MappedLengths
  <1>3. ASSUME token \in ToSet(p)
        PROVE  \E i \in 1..Len(p) : p[i] = token
    BY <1>3, LenProperties DEF ToSet, Part
  <1> QED BY <1>2, <1>3

\* Of two names that come out alike, none is shorter.
LEMMA NotShorter ==
    ASSUME NEW p \in Part, NEW token \in STRING, token \in ToSet(p), NEW e, NEW f, Puts(p, token, e), Puts(p, token, f),
           NEW m, NEW n, Middle(p, token, m, n), e[token] # <<>>,
           CleanPart(Mapped(p, e)) = CleanPart(Mapped(p, f))
    PROVE  Len(e[token]) <= Len(f[token])
  <1> DEFINE v == SubSeq(p, m, n)
             lg == Len(Mapped(v, e))
             lh == Len(Mapped(v, f))
             le == Len(e[token])
             lf == Len(f[token])
  <1>1. lg \in Nat /\ lh \in Nat /\ lg <= lh
    <2> DEFINE c == CleanPart(Mapped(p, e))
               d == CleanPart(Mapped(p, f))
    <2>1. Stretches(c, Mapped(v, e), e[token] # <<>>) /\ Stretches(d, Mapped(v, f), f[token] # <<>>)
      BY MiddleKept
    <2>2. Len(c) = lg /\ lg \in Nat /\ Len(d) <= lh /\ lh \in Nat
      BY <2>1 DEF Stretches
    <2>3. c = d
      OBVIOUS
    <2> HIDE DEF lg, lh, c, d
    <2> QED BY <2>2, <2>3
  <1>2. e \in [STRING -> Part] /\ f \in [STRING -> Part]
    BY DEF Puts
  <1>3. le \in Nat /\ lf \in Nat
    <2>1. e[token] \in Part /\ f[token] \in Part
      BY <1>2
    <2> QED BY <2>1, LenProperties DEF Part
  <1>4. m \in 1..Len(p) /\ n \in m..Len(p) /\ Len(p) \in Nat
    BY LenProperties DEF Middle, Part
  <1>5. v \in Part /\ Len(v) = n - m + 1 /\ \A i \in 1..(n - m + 1) : v[i] = p[m + i - 1]
    BY <1>4, PiecesOf DEF Part
  <1> HIDE DEF v
  <1>6. \A i \in 1..Len(v) : v[i] # token => e[v[i]] = f[v[i]]
    <2> SUFFICES ASSUME NEW i \in 1..Len(v), v[i] # token
                 PROVE  e[v[i]] = f[v[i]]
      OBVIOUS
    <2>1. m + i - 1 \in 1..Len(p) /\ v[i] = p[m + i - 1]
      BY <1>4, <1>5
    <2>2. e[p[m + i - 1]] = <<p[m + i - 1]>> /\ f[p[m + i - 1]] = <<p[m + i - 1]>>
      BY <2>1 DEF Puts
    <2> QED BY <2>1, <2>2
  <1>7. token \in ToSet(v)
    <2>1. PICK k \in 1..Len(p) : p[k] = token
      BY LenProperties DEF ToSet, Part
    <2>2. m <= k /\ k <= n
      BY <2>1 DEF Middle
    <2>3. k - m + 1 \in 1..(n - m + 1) /\ m + (k - m + 1) - 1 = k
      BY <1>4, <2>2
    <2>4. v[k - m + 1] = token
      <3>1. v[k - m + 1] = p[m + (k - m + 1) - 1]
        BY <1>5, <2>3
      <3> QED BY <2>1, <2>3, <3>1
    <2>5. k - m + 1 \in DOMAIN v
      BY <1>5, <2>3, LenProperties DEF Part
    <2> QED BY <2>4, <2>5 DEF ToSet
  <1>8. ASSUME lf < le
        PROVE  FALSE
    <2>1. lf <= le
      <3> HIDE DEF lf, le
      <3> QED BY <1>3, <1>8
    <2>2. lh < lg
      BY <1>2, <1>5, <1>6, <1>7, <1>8, <2>1, PutsLengths
    <2> HIDE DEF lg, lh
    <2> QED BY <1>1, <2>2
  <1> HIDE DEF le, lf
  <1>9. le <= lf
    BY <1>3, <1>8
  <1> QED BY <1>9 DEF le, lf

\* What is put for the token can be read off the cleaned part.
LEMMA PartTellsApart ==
    ASSUME NEW p \in Part, NEW token \in STRING, token \in ToSet(p), NEW e, NEW f, Puts(p, token, e), Puts(p, token, f),
           e[token] # <<>>, CleanPart(Mapped(p, e)) = CleanPart(Mapped(p, f))
    PROVE  e[token] = f[token]
  <1>1. PICK m, n \in Nat : Middle(p, token, m, n)
    BY MiddleIs
  <1>2. e \in [STRING -> Part] /\ f \in [STRING -> Part]
    BY DEF Puts
  <1>3. e[token] \in Part /\ f[token] \in Part /\ Tidy(e[token]) /\ Tidy(f[token])
    BY <1>2 DEF Puts
  <1> DEFINE v == SubSeq(p, m, n)
             g == Mapped(v, e)
             h == Mapped(v, f)
             c == CleanPart(Mapped(p, e))
             x == e[token]
             y == f[token]
  <1>4. Len(x) <= Len(y) /\ Len(x) \in Nat /\ Len(y) \in Nat
    BY <1>1, <1>3, NotShorter, LenProperties DEF Part
  <1>5. y # <<>>
    <2>1. Len(x) # 0
      BY <1>3, EmptySeq DEF Part
    <2>2. Len(y) # 0
      <3> HIDE DEF x, y
      <3> QED BY <1>4, <2>1
    <2> HIDE DEF y
    <2> QED BY <2>2
  <1>6. Len(y) <= Len(x)
    BY <1>1, <1>5, NotShorter
  <1>7. Len(x) = Len(y)
    <2> HIDE DEF x, y
    <2> QED BY <1>4, <1>6
  <1>8. \A i \in 1..Len(g) : c[i] = Dash(g[i])
    <2>1. Stretches(c, g, x # <<>>)
      BY <1>1, MiddleKept
    <2> QED BY <2>1 DEF Stretches
  <1>9. \A i \in 1..Len(h) : c[i] = Dash(h[i])
    <2>1. Stretches(CleanPart(Mapped(p, f)), h, y # <<>>)
      BY <1>1, MiddleKept
    <2>2. Stretches(c, h, y # <<>>)
      BY <2>1
    <2> HIDE DEF c, h, y
    <2> QED BY <1>5, <2>2 DEF Stretches
  <1>10. m \in 1..Len(p) /\ n \in m..Len(p) /\ Len(p) \in Nat
    BY <1>1, LenProperties DEF Middle, Part
  <1>11. v \in Part /\ Len(v) = n - m + 1 /\ \A i \in 1..(n - m + 1) : v[i] = p[m + i - 1]
    BY <1>10, PiecesOf DEF Part
  <1> HIDE DEF v
  <1>12. PICK k \in 1..Len(v) : v[k] = token
    <2>1. PICK l \in 1..Len(p) : p[l] = token
      BY LenProperties DEF ToSet, Part
    <2>2. m <= l /\ l <= n
      BY <1>1, <2>1 DEF Middle
    <2>3. l - m + 1 \in 1..(n - m + 1) /\ m + (l - m + 1) - 1 = l
      BY <1>10, <2>2
    <2>4. v[l - m + 1] = p[m + (l - m + 1) - 1]
      BY <1>11, <2>3
    <2> QED BY <1>11, <2>1, <2>3, <2>4
  <1>13. \A i \in 1..Len(v) : v[i] # token => e[v[i]] = f[v[i]]
    <2> SUFFICES ASSUME NEW i \in 1..Len(v), v[i] # token
                 PROVE  e[v[i]] = f[v[i]]
      OBVIOUS
    <2>1. m + i - 1 \in 1..Len(p) /\ v[i] = p[m + i - 1]
      BY <1>10, <1>11
    <2>2. e[p[m + i - 1]] = <<p[m + i - 1]>> /\ f[p[m + i - 1]] = <<p[m + i - 1]>>
      BY <2>1 DEF Puts
    <2> QED BY <2>1, <2>2
  <1> DEFINE u == SubSeq(v, 1, k - 1)
             w == SubSeq(v, k + 1, Len(v))
             a == Len(Mapped(u, e))
             b == Len(Mapped(u, f))
             z == Len(Mapped(w, e))
             s == Len(Mapped(w, f))
  <1>14. /\ u \in Part /\ Len(u) = k - 1 /\ \A i \in 1..(k - 1) : u[i] = v[i]
         /\ a \in Nat /\ z \in Nat /\ Len(g) = a + Len(e[v[k]]) + z
         /\ \A i \in 1..Len(e[v[k]]) : g[a + i] = e[v[k]][i]
    BY <1>2, <1>11, MappedAt, ZenonT(60)
  <1>15. /\ b \in Nat /\ s \in Nat /\ Len(h) = b + Len(f[v[k]]) + s
         /\ \A i \in 1..Len(f[v[k]]) : h[b + i] = f[v[k]][i]
    BY <1>2, <1>11, MappedAt
  <1>16. a = b
    <2> HIDE DEF u
    <2>1. Len(v) \in Nat
      BY <1>11, LenProperties DEF Part
    <2>2. \A i \in 1..Len(u) : u[i] # token => e[u[i]] = f[u[i]] /\ f[u[i]] = e[u[i]]
      <3> SUFFICES ASSUME NEW i \in 1..Len(u)
                   PROVE  u[i] # token => e[u[i]] = f[u[i]] /\ f[u[i]] = e[u[i]]
        OBVIOUS
      <3>1. i \in 1..(k - 1) /\ i \in 1..Len(v)
        BY <1>14, <2>1
      <3>2. u[i] = v[i]
        BY <1>14, <3>1
      <3> QED BY <1>13, <3>1, <3>2
    <2>3. Len(y) <= Len(x) /\ Len(x) <= Len(y)
      BY <1>4, <1>6
    <2>4. b <= a
      BY <1>2, <1>14, <2>2, <2>3, PutsLengths
    <2>5. a <= b
      BY <1>2, <1>14, <2>2, <2>3, PutsLengths, ZenonT(60)
    <2> HIDE DEF a, b
    <2> QED BY <1>14, <1>15, <2>4, <2>5
  <1> HIDE DEF a, b, z, s, g, h, c, u, w
  <1>17. ASSUME NEW i \in 1..Len(x)
         PROVE  x[i] = y[i]
    <2>1. g[a + i] = x[i] /\ h[a + i] = y[i]
      BY <1>7, <1>12, <1>14, <1>15, <1>16
    <2>2. a + i \in 1..Len(g) /\ a + i \in 1..Len(h)
      <3>1. Len(g) = a + Len(x) + z /\ Len(h) = a + Len(x) + s
        BY <1>7, <1>12, <1>14, <1>15, <1>16
      <3> HIDE DEF x, y
      <3> QED BY <1>4, <1>14, <1>15, <3>1, SMTT(40)
    <2>3. Dash(g[a + i]) = Dash(h[a + i])
      BY <1>8, <1>9, <2>2
    <2>4. Dash(x[i]) = x[i] /\ Dash(y[i]) = y[i]
      BY <1>3, <1>7 DEF Tidy
    <2> QED BY <2>1, <2>3, <2>4
  <1> QED BY <1>3, <1>7, <1>17, SeqEqual DEF Part

\* Where a part that is not lost is in the path.
LEMMA CleanPathAt ==
    ASSUME NEW p \in Path, NEW k \in 1..Len(p), CleanPart(p[k]) # <<>>
    PROVE  /\ SubSeq(p, 1, k - 1) \in Path /\ CleanPath(p) \in Path
           /\ Len(CleanPath(SubSeq(p, 1, k - 1))) \in Nat
           /\ Len(CleanPath(SubSeq(p, 1, k - 1))) + 1 \in 1..Len(CleanPath(p))
           /\ CleanPath(p)[Len(CleanPath(SubSeq(p, 1, k - 1))) + 1] = CleanPart(p[k])
  <1> DEFINE u == SubSeq(p, 1, k - 1)
             v == SubSeq(p, k, k)
             w == SubSeq(p, k + 1, Len(p))
             x == p[k]
             y == CleanPart(x)
  <1>1. p \in Seq(Part) /\ Len(p) \in Nat /\ x \in Part
    BY LenProperties, ElementOfSeq DEF Path
  <1>2. k \in k..Len(p)
    BY <1>1
  <1>3. u \in Path
    BY <1>1, <1>2, PiecesOf DEF Path
  <1>4. v \in Path /\ Len(v) = k - k + 1 /\ \A i \in 1..(k - k + 1) : v[i] = p[k + i - 1]
    BY <1>1, <1>2, PiecesOf DEF Path
  <1>5. w \in Path
    BY <1>1, <1>2, PiecesOf DEF Path
  <1>6. p = (u \o v) \o w
    BY <1>1, OneTakenOut
  <1>7. <<>> \in Path
    BY EmptySeq DEF Path
  <1>8. v = <<x>>
    <2>1. k - k + 1 = 1 /\ k + 1 - 1 = k
      OBVIOUS
    <2> HIDE DEF v, x, u, w
    <2>2. Len(v) = 1 /\ v[1] = x
      BY <1>4, <2>1 DEF x
    <2>3. <<x>> \in Path /\ Len(<<x>>) = 1 /\ <<x>>[1] = x
      BY <1>1, <1>7, OneIs DEF Path
    <2>4. \A i \in 1..Len(v) : v[i] = <<x>>[i]
      BY <2>2, <2>3
    <2> QED BY <1>4, <2>2, <2>3, <2>4, SeqEqual DEF Path
  <1>9. CleanPath(v) = <<y>>
    <2>1. x \in Part /\ CleanPart(x) # <<>>
      BY <1>1
    <2> HIDE DEF x, v
    <2> QED BY <1>8, <2>1, CleanPathOne
  <1> HIDE DEF u, v, w, x
  <1>10. y \in Part
    BY <1>1, CleanPartTokens
  <1> HIDE DEF y
  <1> DEFINE a == CleanPath(u)
             g == <<y>>
             b == CleanPath(w)
  <1>11. CleanPath(p) = (a \o g) \o b
    <2>1. u \o v \in Path
      BY <1>3, <1>4, ConcatProperties DEF Path
    <2>2. CleanPath((u \o v) \o w) = CleanPath(u \o v) \o CleanPath(w)
      BY <1>5, <2>1, CleanPathBoth
    <2>3. CleanPath(u \o v) = CleanPath(u) \o CleanPath(v)
      BY <1>3, <1>4, CleanPathBoth
    <2> QED BY <1>6, <1>9, <2>2, <2>3
  <1>12. a \in Path /\ g \in Path /\ b \in Path /\ Len(g) = 1 /\ g[1] = y
    <2>1. a \in Path /\ b \in Path
      BY <1>3, <1>5, CleanPathParts
    <2>2. g \in Path /\ Len(g) = 1 /\ g[1] = y
      BY <1>7, <1>10, OneIs DEF Path
    <2> QED BY <2>1, <2>2
  <1> HIDE DEF a, g, b
  <1>13. /\ (a \o g) \o b \in Path
         /\ Len((a \o g) \o b) = Len(a) + Len(g) + Len(b)
         /\ Len(a) \in Nat /\ Len(g) \in Nat /\ Len(b) \in Nat
         /\ \A i \in 1..Len(g) : ((a \o g) \o b)[Len(a) + i] = g[i]
    <2>1. a \in Seq(Part) /\ g \in Seq(Part) /\ b \in Seq(Part)
      BY <1>12 DEF Path
    <2>2. (a \o g) \o b \in Seq(Part)
      BY ONLY <2>1, ThreeInOne
    <2>3. Len((a \o g) \o b) = Len(a) + Len(g) + Len(b) /\ Len(a) \in Nat /\ Len(g) \in Nat /\ Len(b) \in Nat
      BY ONLY <2>1, ThreeInOne
    <2>4. \A i \in 1..Len(g) : ((a \o g) \o b)[Len(a) + i] = g[i]
      BY ONLY <2>1, ThreeInOne
    <2> QED BY <2>2, <2>3, <2>4 DEF Path
  <1>14. 1 \in 1..Len(g)
    BY <1>12
  <1>15. CleanPath(p)[Len(a) + 1] = y
    BY <1>11, <1>12, <1>13, <1>14
  <1>16. Len(a) + 1 \in 1..Len(CleanPath(p))
    BY <1>11, <1>12, <1>13
  <1> QED BY <1>3, <1>11, <1>13, <1>15, <1>16 DEF a, u, x, y

\* Of one part no more than one is left.
LEMMA CleanPathOneAtMost ==
    ASSUME NEW p \in Path, NEW k \in 0..(Len(p) - 1), k = Len(p) - 1
    PROVE  /\ SubSeq(p, 1, k) \in Path /\ Len(CleanPath(SubSeq(p, 1, k))) \in Nat
           /\ Len(CleanPath(p)) \in Nat /\ Len(CleanPath(p)) <= Len(CleanPath(SubSeq(p, 1, k))) + 1
  <1> DEFINE n == Len(p)
             u == SubSeq(p, 1, n - 1)
             v == SubSeq(p, n, n)
             w == SubSeq(p, n + 1, Len(p))
  <1>1. p \in Seq(Part) /\ n \in Nat /\ n \in 1..Len(p)
    BY LenProperties DEF Path
  <1>2. n \in n..Len(p)
    BY <1>1
  <1>3. u \in Path
    BY <1>1, <1>2, PiecesOf DEF Path
  <1>4. v \in Path /\ Len(v) = n - n + 1
    BY <1>1, <1>2, PiecesOf DEF Path
  <1>5. w \in Path /\ Len(w) = Len(p) - n
    BY <1>1, <1>2, PiecesOf DEF Path
  <1>6. p = (u \o v) \o w
    BY <1>1, OneTakenOut
  <1>7. w = <<>> /\ Len(v) = 1
    BY <1>1, <1>4, <1>5, EmptySeq DEF Path
  <1>8. p = u \o v
    <2>1. u \o v \in Path
      BY <1>3, <1>4, ConcatProperties DEF Path
    <2> HIDE DEF u, v, w
    <2> QED BY <1>6, <1>7, <2>1, ConcatEmptySeq DEF Path
  <1> HIDE DEF u, v, w
  <1>9. CleanPath(p) = CleanPath(u) \o CleanPath(v)
    BY <1>3, <1>4, <1>8, CleanPathBoth
  <1>10. CleanPath(u) \in Path /\ CleanPath(v) \in Path
    BY <1>3, <1>4, CleanPathParts
  <1>11. Len(CleanPath(v)) <= 1
    <2>1. Cleaned(v) \in Seq(Path) /\ Len(Cleaned(v)) = 1 /\ Cleaned(v)[1] = IF CleanPart(v[1]) = <<>> THEN <<>> ELSE <<CleanPart(v[1])>>
      <3>1. 1 \in 1..Len(v)
        BY <1>7
      <3> QED BY <1>4, <1>7, <3>1, CleanedIs
    <2> DEFINE z == v[1]
    <2>2. v = <<z>> /\ z \in Part
      <3>1. 1 \in 1..Len(v)
        BY <1>7
      <3>2. z \in Part
        BY <1>4, <3>1, ElementOfSeq DEF Path
      <3>3. <<>> \in Path
        BY EmptySeq DEF Path
      <3>4. <<z>> \in Path /\ Len(<<z>>) = 1 /\ <<z>>[1] = z
        BY <3>2, <3>3, OneIs DEF Path
      <3>5. \A i \in 1..Len(v) : v[i] = <<z>>[i]
        BY <1>7, <3>4
      <3> QED BY <1>4, <1>7, <3>2, <3>4, <3>5, SeqEqual DEF Path
    <2> HIDE DEF z
    <2>3. CASE CleanPart(z) # <<>>
      <3>1. CleanPath(v) = <<CleanPart(z)>>
        BY <2>2, <2>3, CleanPathOne
      <3> QED BY <3>1
    <2>4. CASE CleanPart(z) = <<>>
      <3>1. \A y : y \notin ToSet(CleanPath(v))
        <4> SUFFICES ASSUME NEW y \in ToSet(CleanPath(v))
                     PROVE  FALSE
          OBVIOUS
        <4>1. y # <<>> /\ \E i \in 1..Len(v) : y = CleanPart(v[i])
          BY <1>4, CleanPathParts
        <4>2. \A i \in 1..Len(v) : v[i] = z
          BY <1>7 DEF z
        <4> QED BY <2>4, <4>1, <4>2
      <3>2. Len(CleanPath(v)) = 0
        <4>1. Len(CleanPath(v)) \in Nat /\ DOMAIN CleanPath(v) = 1..Len(CleanPath(v))
          BY <1>10, LenProperties DEF Path
        <4>2. \A i \in DOMAIN CleanPath(v) : FALSE
          BY <3>1 DEF ToSet
        <4> QED BY <4>1, <4>2
      <3> QED BY <3>2
    <2> QED BY <2>3, <2>4
  <1>12. /\ Len(CleanPath(p)) = Len(CleanPath(u)) + Len(CleanPath(v))
         /\ Len(CleanPath(u)) \in Nat /\ Len(CleanPath(v)) \in Nat
    BY <1>9, <1>10, ConcatProperties, LenProperties DEF Path
  <1>13. u = SubSeq(p, 1, k)
    BY DEF u
  <1> QED BY <1>3, <1>11, <1>12, <1>13

\* A name without times puts none into the parts of a template, and takes none out.
LEMMA KeyedTokens ==
    ASSUME NEW template \in Path, NEW t \in DOMAIN Key, NEW name \in Part, NEW i \in 1..Len(template)
    PROVE  /\ ToSet(Keyed(template, t, name)[i]) \subseteq
                  ToSet(template[i]) \cup ToSet(TaskSegment(t, name)) \cup ToSet(CleanSegment(Key[t]))
           /\ TimeFree(TaskSegment(t, name)) => (TimeFree(Keyed(template, t, name)[i]) <=> TimeFree(template[i]))
  <1> DEFINE p == template[i]
             seg == TaskSegment(t, name)
             w == CleanSegment(Key[t])
             b == KeyedPart(p, seg, w)
  <1>1. p \in Part /\ seg \in Part /\ w \in Part
    BY SegmentTokens, ElementOfSeq DEF Path
  <1>2. Keyed(template, t, name)[i] = b
    BY KeyedIs
  <1>3. ToSet(w) \cap {"{task}", "{task_name}", "{task_id}", "{timestamp}", "{date}"} = {}
    BY SegmentsTidy
  <1> HIDE DEF p, seg, w, b
  <1>4. ToSet(p) \ Tokens \subseteq ToSet(b) /\ ToSet(b) \subseteq ToSet(p) \cup ToSet(seg) \cup ToSet(w)
    BY <1>1, KeyedPartKeeps DEF b
  <1>5. ASSUME TimeFree(seg)
        PROVE  TimeFree(b) <=> TimeFree(p)
    <2>1. TimeFree(b) => TimeFree(p)
      BY <1>4 DEF TimeFree, Tokens
    <2>2. TimeFree(p) => TimeFree(b)
      BY <1>3, <1>4, <1>5 DEF TimeFree
    <2> QED BY <2>1, <2>2
  <1> QED BY <1>2, <1>4, <1>5 DEF p, seg, w

\* What is put for a token keeps a part, if it has something kept in it.
LEMMA PutIsKept ==
    ASSUME NEW p \in Part, NEW e \in [STRING -> Part], NEW x \in ToSet(p), Tidy(e[x]), e[x] # <<>>
    PROVE  CleanPart(Mapped(p, e)) # <<>>
  <1>1. PICK i \in 1..Len(p) : p[i] = x
    BY LenProperties DEF ToSet, Part
  <1>2. e[x] \in Part /\ e[x][1] \in Kept
    BY DEF Tidy
  <1>3. e[x][1] \in ToSet(e[x])
    <2>1. 1 \in DOMAIN e[x]
      BY <1>2, EmptySeq, LenProperties DEF Part
    <2> QED BY <2>1 DEF ToSet
  <1>4. Mapped(p, e) \in Part /\ e[x][1] \in ToSet(Mapped(p, e))
    BY <1>1, <1>3, MappedTokens
  <1>5. ToSet(Mapped(p, e)) \cap Kept # {}
    BY <1>2, <1>4
  <1> QED BY <1>4, <1>5, CleanPartTokens

\* A part with the name of the task, by one token, and neither its key nor a time.
NameOnly(part, token) == token \in {"{task}", "{task_name}"} /\ ToSet(part) \cap Tokens = {token} /\ TimeFree(part)

\* What is put into such a part.
LEMMA FillPuts ==
    ASSUME NEW p \in Part, NEW token, NameOnly(p, token),
           NEW t \in DOMAIN Key, NEW name \in Part, NEW second \in DOMAIN Timestamp
    PROVE  /\ token \in STRING /\ Puts(p, token, Fill(t, TaskSegment(t, name), second))
           /\ Fill(t, TaskSegment(t, name), second)[token] = TaskSegment(t, name)
  <1> DEFINE seg == TaskSegment(t, name)
             e == Fill(t, seg, second)
  <1>1. seg \in Part /\ Tidy(seg)
    BY SegmentsTidy DEF Tidy
  <1>2. \A i \in 1..Len(p) : p[i] \in STRING /\ p[i] \in ToSet(p)
    BY ElementOfSeq, LenProperties DEF Part, ToSet
  <1>3. token \in STRING
    <2>1. token \in ToSet(p)
      BY DEF NameOnly
    <2>2. PICK i \in 1..Len(p) : p[i] = token
      BY <2>1, LenProperties DEF ToSet, Part
    <2> QED BY <1>2, <2>2
  <1>4. e \in [STRING -> Part]
    BY <1>1, FillIs
  <1>4a. \A x \in STRING : e[x] = Filled(x, t, seg, second)
    BY <1>1, FillIs
  <1> HIDE DEF e, seg
  <1>5. e[token] = seg
    <2>1. Filled(token, t, seg, second) = seg
      BY DEF Filled, NameOnly
    <2> QED BY <1>3, <1>4a, <2>1
  <1>6. ASSUME NEW i \in 1..Len(p), p[i] # token
        PROVE  e[p[i]] = <<p[i]>>
    <2>1. p[i] \notin {"{task}", "{task_name}", "{task_id}", "{timestamp}", "{date}"}
      BY <1>2, <1>6 DEF TimeFree, NameOnly, Tokens
    <2>2. Filled(p[i], t, seg, second) = <<p[i]>>
      BY <2>1 DEF Filled
    <2> QED BY <1>2, <1>4a, <2>2
  <1> QED BY <1>1, <1>3, <1>4, <1>5, <1>6 DEF Puts, e, seg

\* A part that is lost has neither, and is lost whatever the task is.
LEMMA LostAnyway ==
    ASSUME NEW p \in Part, TimeFree(p), NEW second \in DOMAIN Timestamp,
           NEW t \in DOMAIN Key, NEW name \in Part, TaskSegment(t, name) # <<>>,
           CleanPart(FilledPart(p, t, TaskSegment(t, name), second)) = <<>>,
           NEW u \in DOMAIN Key, NEW other \in Part
    PROVE  CleanPart(FilledPart(p, u, TaskSegment(u, other), second)) = <<>>
  <1> DEFINE e == Fill(t, TaskSegment(t, name), second)
             f == Fill(u, TaskSegment(u, other), second)
  <1>1. /\ TaskSegment(t, name) \in Part /\ Tidy(TaskSegment(t, name))
        /\ Tidy(CleanSegment(Key[t])) /\ CleanSegment(Key[t]) # <<>>
    BY SegmentsTidy DEF Tidy
  <1>2. TaskSegment(u, other) \in Part
    BY SegmentsTidy DEF Tidy
  <1>3. /\ FilledPart(p, t, TaskSegment(t, name), second) = Mapped(p, e)
        /\ FilledPart(p, u, TaskSegment(u, other), second) = Mapped(p, f)
    BY <1>1, <1>2, FilledPartIs
  <1>4. e \in [STRING -> Part] /\ f \in [STRING -> Part]
    BY <1>1, <1>2, FillIs
  <1>4a. \A x \in STRING : e[x] = Filled(x, t, TaskSegment(t, name), second)
    BY <1>1, FillIs
  <1>4b. \A x \in STRING : f[x] = Filled(x, u, TaskSegment(u, other), second)
    BY <1>2, FillIs
  <1>5. \A x \in ToSet(p) : x \in STRING
    BY ElementOfSeq, LenProperties DEF Part, ToSet
  <1>6. ASSUME NEW x \in ToSet(p)
        PROVE  x \notin {"{task}", "{task_name}", "{task_id}", "{timestamp}", "{date}"}
    <2>1. x \notin {"{timestamp}", "{date}"}
      BY DEF TimeFree
    <2>2. CASE x \in {"{task}", "{task_name}"}
      <3>1. e[x] = TaskSegment(t, name)
        BY <1>4a, <1>5, <2>2 DEF Filled
      <3>2. Tidy(e[x]) /\ e[x] # <<>>
        BY <1>1, <3>1
      <3>3. CleanPart(Mapped(p, e)) # <<>>
        BY <1>4, <3>2, PutIsKept
      <3> QED BY <1>3, <3>3
    <2>3. CASE x = "{task_id}"
      <3>1. e[x] = CleanSegment(Key[t])
        BY <1>4a, <1>5, <2>3 DEF Filled
      <3>2. Tidy(e[x]) /\ e[x] # <<>>
        BY <1>1, <3>1
      <3>3. CleanPart(Mapped(p, e)) # <<>>
        BY <1>4, <3>2, PutIsKept
      <3> QED BY <1>3, <3>3
    <2> QED BY <2>1, <2>2, <2>3
  <1>7. \A x \in ToSet(p) : e[x] = <<x>>
    BY <1>4a, <1>5, <1>6 DEF Filled
  <1>8. \A x \in ToSet(p) : f[x] = <<x>>
    BY <1>4b, <1>5, <1>6 DEF Filled
  <1> HIDE DEF e, f
  <1>9. Mapped(p, e) = p /\ Mapped(p, f) = p
    BY <1>4, <1>7, <1>8, MappedSame
  <1> QED BY <1>3, <1>9

\* A part with a time in it is not lost, and shows the time.
LEMMA TimeShows ==
    ASSUME NEW p \in Part, ~TimeFree(p), NEW t \in DOMAIN Key, NEW segment \in Part, NEW second \in DOMAIN Timestamp
    PROVE  /\ CleanPart(FilledPart(p, t, segment, second)) # <<>>
           /\ ToSet(CleanPart(FilledPart(p, t, segment, second))) \cap {Timestamp[second], Date[second]} # {}
  <1> DEFINE e == Fill(t, segment, second)
  <1>1. FilledPart(p, t, segment, second) = Mapped(p, e)
    BY FilledPartIs
  <1>2. PICK i \in 1..Len(p) : p[i] \in {"{timestamp}", "{date}"}
    BY LenProperties DEF TimeFree, ToSet, Part
  <1>3. p[i] \in STRING
    BY ElementOfSeq DEF Part
  <1>4. e[p[i]] \in {<<Timestamp[second]>>, <<Date[second]>>}
    <2>1. e[p[i]] = Filled(p[i], t, segment, second)
      BY <1>3, FillIs
    <2> HIDE DEF e
    <2> QED BY <1>2, <2>1 DEF Filled
  <1>5. e \in [STRING -> Part]
    BY FillIs
  <1>6. PICK y \in {Timestamp[second], Date[second]} : e[p[i]] = <<y>>
    BY <1>4
  <1> HIDE DEF e
  <1>7. y \in ToSet(e[p[i]])
    BY <1>6, TokenOfOne
  <1>8. Mapped(p, e) \in Part /\ y \in ToSet(Mapped(p, e))
    BY <1>5, <1>7, MappedTokens
  <1>9. y \in Kept
    BY <1>6, NamesAssumption
  <1>10. y \in ToSet(CleanPart(Mapped(p, e))) /\ CleanPart(Mapped(p, e)) # <<>>
    BY <1>8, <1>9, CleanPartTokens
  <1> QED BY <1>1, <1>6, <1>10

\* Of two paths of which the one is above the other, and of which the same of the first parts
\* are lost, the last of those is the same.
LEMMA SamePlace ==
    ASSUME NEW p \in Path, NEW q \in Path, NEW k \in 1..Len(p), k \in 1..Len(q),
           \A i \in 1..k : CleanPart(p[i]) = <<>> <=> CleanPart(q[i]) = <<>>,
           CleanPart(p[k]) # <<>>, NEW r \in Path, CleanPath(q) = CleanPath(p) \o r
    PROVE  CleanPart(p[k]) = CleanPart(q[k])
  <1> DEFINE a == SubSeq(p, 1, k - 1)
             b == SubSeq(q, 1, k - 1)
             cp == CleanPath(p)
             cq == CleanPath(q)
             la == Len(CleanPath(a))
             lb == Len(CleanPath(b))
  <1>1. a \in Path /\ cp \in Path /\ la \in Nat /\ la + 1 \in 1..Len(cp) /\ cp[la + 1] = CleanPart(p[k])
    <2>1. p \in Path /\ k \in 1..Len(p) /\ CleanPart(p[k]) # <<>>
      OBVIOUS
    <2> QED BY ONLY <2>1, CleanPathAt
  <1>2. b \in Path /\ cq \in Path /\ lb \in Nat /\ lb + 1 \in 1..Len(cq) /\ cq[lb + 1] = CleanPart(q[k])
    <2>1. q \in Path /\ k \in 1..Len(q) /\ CleanPart(q[k]) # <<>>
      <3>1. k \in 1..k
        OBVIOUS
      <3> QED BY <3>1
    <2> QED BY ONLY <2>1, CleanPathAt
  <1>3. PICK l \in Nat : l = k - 1
    OBVIOUS
  <1>4. \A i \in 1..l : i \in 1..Len(p) /\ i \in 1..Len(q) /\ i \in 1..k
    BY <1>3, LenProperties DEF Path
  <1>5. \A i \in 1..l : p[i] \in Part /\ q[i] \in Part
    BY <1>4, ElementOfSeq DEF Path
  <1>6. SubSeq(p, 1, l) \in Path /\ Len(SubSeq(p, 1, l)) = l /\ \A i \in 1..l : SubSeq(p, 1, l)[i] = p[i]
    BY <1>5, FrontIs
  <1>7. SubSeq(q, 1, l) \in Path /\ Len(SubSeq(q, 1, l)) = l /\ \A i \in 1..l : SubSeq(q, 1, l)[i] = q[i]
    BY <1>5, FrontIs
  <1>8. Len(a) = l /\ Len(b) = l /\ \A i \in 1..l : a[i] = p[i] /\ b[i] = q[i]
    BY <1>3, <1>6, <1>7
  <1>9. la = lb
    <2> HIDE DEF a, b, cp, cq
    <2>1. Len(a) = Len(b) /\ \A i \in 1..Len(a) : CleanPart(a[i]) = <<>> <=> CleanPart(b[i]) = <<>>
      BY <1>4, <1>8
    <2>2. la <= lb
      BY <1>1, <1>2, <2>1, CleanPathLengths
    <2>3. lb <= la
      BY <1>1, <1>2, <2>1, CleanPathLengths
    <2> HIDE DEF la, lb
    <2> QED BY <1>1, <1>2, <2>2, <2>3
  <1> HIDE DEF a, b, cp, cq, la, lb
  <1>10. cq[la + 1] = cp[la + 1]
    <2>1. /\ Len(cp) \in Nat /\ Len(r) \in Nat
          /\ \A i \in 1..(Len(cp) + Len(r)) : (cp \o r)[i] = IF i <= Len(cp) THEN cp[i] ELSE r[i - Len(cp)]
      BY <1>1, ConcatProperties, LenProperties DEF Path
    <2>2. la + 1 \in 1..(Len(cp) + Len(r)) /\ la + 1 <= Len(cp)
      BY <1>1, <2>1
    <2>3. cq = cp \o r
      BY DEF cp, cq
    <2> QED BY <2>1, <2>2, <2>3
  <1> QED BY <1>1, <1>2, <1>9, <1>10

\* If more parts are lost of the lower one, then its first part beyond those of the other is
\* not its last, and has got among those of the other, unless it is lost too.
LEMMA Shifted ==
    ASSUME NEW p \in Path, NEW q \in Path, NEW m \in 0..(Len(q) - 1), Len(p) = m,
           \A i \in 1..m : CleanPart(p[i]) = <<>> => CleanPart(q[i]) = <<>>,
           NEW k \in 1..m, CleanPart(q[k]) = <<>>, CleanPart(p[k]) # <<>>,
           NEW r \in Path, r # <<>>, CleanPath(q) = CleanPath(p) \o r
    PROVE  /\ m # Len(q) - 1
           /\ CleanPart(q[m + 1]) # <<>> => \E i \in 1..m : CleanPart(q[m + 1]) = CleanPart(p[i])
  <1> DEFINE f == SubSeq(q, 1, m)
             cp == CleanPath(p)
             cq == CleanPath(q)
             cf == CleanPath(f)
  <1>1. Len(q) \in Nat /\ m \in Nat
    BY LenProperties DEF Path
  <1>2. \A i \in 1..m : i \in 1..Len(q) /\ q[i] \in Part
    <2>1. \A i \in 1..m : i \in 1..Len(q)
      BY <1>1
    <2> QED BY <2>1, ElementOfSeq DEF Path
  <1>3. f \in Path /\ Len(f) = m /\ \A i \in 1..m : f[i] = q[i]
    BY <1>1, <1>2, FrontIs
  <1>4. cp \in Path /\ cq \in Path /\ cf \in Path
    BY <1>3, CleanPathParts
  <1>5. /\ Len(cp) \in Nat /\ Len(r) \in Nat /\ Len(r) # 0 /\ Len(cq) = Len(cp) + Len(r)
        /\ \A i \in 1..(Len(cp) + Len(r)) : cq[i] = IF i <= Len(cp) THEN cp[i] ELSE r[i - Len(cp)]
    <2>1. cq = cp \o r
      OBVIOUS
    <2> HIDE DEF cp, cq
    <2>2. Len(cp) \in Nat /\ Len(r) \in Nat /\ Len(cp \o r) = Len(cp) + Len(r)
      BY <1>4, ConcatProperties, LenProperties DEF Path
    <2>3. \A i \in 1..(Len(cp) + Len(r)) : (cp \o r)[i] = IF i <= Len(cp) THEN cp[i] ELSE r[i - Len(cp)]
      BY <1>4, ConcatProperties DEF Path
    <2>4. Len(r) # 0
      BY EmptySeq DEF Path
    <2> QED BY <2>1, <2>2, <2>3, <2>4
  <1>6. Len(cf) < Len(cp) /\ Len(cf) \in Nat
    <2> HIDE DEF f
    <2>1. Len(f) = Len(p) /\ \A i \in 1..Len(f) : CleanPart(f[i]) # <<>> => CleanPart(p[i]) # <<>>
      BY <1>3
    <2>2. k \in 1..Len(f) /\ CleanPart(f[k]) = <<>> /\ CleanPart(p[k]) # <<>>
      BY <1>3
    <2>3. Len(CleanPath(f)) < Len(CleanPath(p))
      BY <1>3, <2>1, <2>2, CleanPathLengths
    <2>4. Len(cf) \in Nat
      BY <1>4, LenProperties DEF Path
    <2> QED BY <2>3, <2>4
  <1>7. ASSUME m = Len(q) - 1
        PROVE  FALSE
    <2>1. Len(cq) <= Len(cf) + 1
      BY <1>7, CleanPathOneAtMost
    <2> HIDE DEF cq, cf, cp
    <2> QED BY <1>5, <1>6, <2>1
  <1>8. ASSUME CleanPart(q[m + 1]) # <<>>
        PROVE  \E i \in 1..m : CleanPart(q[m + 1]) = CleanPart(p[i])
    <2> DEFINE j == m + 1
    <2>1. j \in 1..Len(q) /\ j - 1 = m
      BY <1>1
    <2>2. cq[Len(CleanPath(SubSeq(q, 1, j - 1))) + 1] = CleanPart(q[j])
      <3> HIDE DEF j
      <3>1. CleanPart(q[j]) # <<>>
        BY <1>8 DEF j
      <3> QED BY <2>1, <3>1, CleanPathAt
    <2>3. cq[Len(cf) + 1] = CleanPart(q[j])
      BY <2>1, <2>2
    <2> HIDE DEF j, cq, cp, cf
    <2>4. Len(cf) + 1 \in 1..(Len(cp) + Len(r)) /\ Len(cf) + 1 <= Len(cp) /\ Len(cf) + 1 \in 1..Len(cp)
      BY <1>5, <1>6
    <2>5. cq[Len(cf) + 1] = cp[Len(cf) + 1]
      BY <1>5, <2>4
    <2>6. cp[Len(cf) + 1] \in ToSet(cp)
      <3>1. Len(cf) + 1 \in DOMAIN cp
        BY <1>4, <2>4, LenProperties DEF Path
      <3> QED BY <3>1 DEF ToSet
    <2>7. CleanPart(q[j]) \in ToSet(CleanPath(p))
      BY <2>3, <2>5, <2>6 DEF cp
    <2>8. \E i \in 1..Len(p) : CleanPart(q[j]) = CleanPart(p[i])
      BY <2>7, CleanPathParts
    <2> QED BY <2>8 DEF j
  <1> QED BY <1>7, <1>8

\* The parts of a name before the last.
LEMMA WholeAt ==
    ASSUME NEW template, NEW t, NEW name, NEW second, Proper(template, t, name, second),
           NEW extension, IsExtension(extension), NEW i \in 1..(Len(template) - 1)
    PROVE  Whole(template, t, name, second, extension)[i] = FilledPart(template[i], t, TaskSegment(t, name), second)
  <1>1. Proper(template, t, name, second) /\ IsExtension(extension)
    OBVIOUS
  <1>2. template \in Path /\ t \in DOMAIN Key /\ name \in Part /\ second \in DOMAIN Timestamp
    BY DEF Proper
  <1>3. Whole(template, t, name, second, extension)[i] = Full(template, t, name, second)[i]
    BY ONLY <1>1, i \in 1..(Len(template) - 1), WholeShort
  <1>4. Full(template, t, name, second)[i] = Given(template, t, name, second)[i]
    BY ONLY <1>1, i \in 1..(Len(template) - 1), FullIs
  <1>5. i \in 1..Len(template)
    BY <1>2, LenProperties DEF Path
  <1>6. Given(template, t, name, second)[i] = FilledPart(template[i], t, TaskSegment(t, name), second)
    BY ONLY <1>2, <1>5, GivenIs
  <1> QED BY <1>3, <1>4, <1>6

\* The parts of a directory.
LEMMA KeyedAt ==
    ASSUME NEW template \in Path, NEW t \in DOMAIN Key, NEW name \in Part, NEW second \in DOMAIN Timestamp,
           PlainSegment(t, name), NEW i \in 1..Len(template), TimeFree(template[i])
    PROVE  Keyed(template, t, name)[i] = FilledPart(template[i], t, TaskSegment(t, name), second)
  <1>1. template[i] \in Part /\ TaskSegment(t, name) \in Part
    BY SegmentTokens, ElementOfSeq DEF Path
  <1>2. Keyed(template, t, name)[i] = KeyedPart(template[i], TaskSegment(t, name), CleanSegment(Key[t]))
    BY KeyedIs
  <1>3. /\ ToSet(template[i]) \cap {"{timestamp}", "{date}"} = {}
        /\ "{task_name}" \notin ToSet(TaskSegment(t, name)) /\ "{task_id}" \notin ToSet(TaskSegment(t, name))
    BY DEF TimeFree, PlainSegment
  <1>4. FilledPart(template[i], t, TaskSegment(t, name), second)
            = KeyedPart(template[i], TaskSegment(t, name), CleanSegment(Key[t]))
    BY <1>1, <1>3, FilledOneByOne
  <1> QED BY <1>2, <1>4

\* What does not change of a name is before the first time of its template.
LEMMA StableAt ==
    ASSUME NEW template \in Path, template # <<>>, NEW t \in DOMAIN Key, NEW name \in Part,
           TimeFree(TaskSegment(t, name))
    PROVE  \E m \in 0..(Len(template) - 1) :
              /\ Stable(Keyed(template, t, name)) = SubSeq(Keyed(template, t, name), 1, m)
              /\ \A i \in 1..m : TimeFree(template[i])
              /\ m # Len(template) - 1 => ~TimeFree(template[m + 1])
              /\ DOMAIN Stable(template) \subseteq 1..m
  <1> DEFINE keyed == Keyed(template, t, name)
  <1>1. PICK n \in Nat : n = Len(template) /\ n # 0
    BY EmptySeq, LenProperties DEF Path
  <1>2. keyed \in Path /\ Len(keyed) = n
    BY <1>1, KeyedIs
  <1>3. \A i \in 1..n : TimeFree(keyed[i]) <=> TimeFree(template[i])
    BY <1>1, KeyedTokens
  <1> HIDE DEF keyed
  <1>4. keyed # <<>>
    BY <1>1, <1>2, EmptySeq DEF Path
  <1>5. PICK m \in 0..(Len(keyed) - 1) : /\ Stable(keyed) = SubSeq(keyed, 1, m) /\ \A i \in 1..m : TimeFree(keyed[i])
                                         /\ m # Len(keyed) - 1 => ~TimeFree(keyed[m + 1])
    BY <1>2, <1>4, StableIs
  <1>6. PICK k \in 0..(Len(template) - 1) : Stable(template) = SubSeq(template, 1, k) /\ \A i \in 1..k : TimeFree(template[i])
    BY StableIs
  <1>7. m \in 0..(n - 1) /\ k \in 0..(n - 1)
    BY <1>1, <1>2, <1>5, <1>6
  <1>8. \A i \in 1..m : TimeFree(template[i])
    BY <1>3, <1>5, <1>7
  <1>9. m # n - 1 => ~TimeFree(template[m + 1])
    BY <1>2, <1>3, <1>5, <1>7
  <1>10. k <= m
    <2>1. ASSUME m < k
          PROVE  FALSE
      <3>1. m # n - 1 /\ m + 1 \in 1..k
        BY <1>7, <2>1
      <3> QED BY <1>6, <1>9, <3>1
    <2> QED BY <1>7, <2>1
  <1>11. DOMAIN Stable(template) \subseteq 1..m
    <2>1. \A i \in 1..k : template[i] \in Part
      <3>1. \A i \in 1..k : i \in 1..Len(template)
        BY <1>1, <1>7
      <3> QED BY <3>1, ElementOfSeq DEF Path
    <2>2. SubSeq(template, 1, k) \in Path /\ Len(SubSeq(template, 1, k)) = k
      BY <1>7, <2>1, FrontIs
    <2>3. DOMAIN Stable(template) = 1..k
      BY <1>6, <2>2, LenProperties DEF Path
    <2> QED BY <1>7, <1>10, <2>3
  <1> QED BY <1>1, <1>5, <1>7, <1>8, <1>9, <1>11 DEF keyed

\* A part of a template that names the task, by one token, before any time and without its key.
TellsTasks(template, k) ==
    k \in DOMAIN Stable(template) /\ ToSet(template[k]) \cap Tokens \in {{"{task}"}, {"{task_name}"}}

\* A name of which something is left in a path, and nothing is taken for a token or a time.
ClearlyNamed(template, t, name) ==
    /\ TaskSegment(t, name) # <<>> /\ PlainSegment(t, name) /\ TimeFree(TaskSegment(t, name))
    /\ TypedBy(template, t, name) \cap (Range(Timestamp) \cup Range(Date)) = {}

\* No time is in the parts of a directory.
LEMMA DirectoryUntimed ==
    ASSUME NEW template \in Path, NEW t \in DOMAIN Key, NEW name \in Part, ClearlyNamed(template, t, name),
           NEW i \in 1..Len(template), NEW second \in DOMAIN Timestamp
    PROVE  ToSet(CleanPart(Keyed(template, t, name)[i])) \cap {Timestamp[second], Date[second]} = {}
  <1> DEFINE p == Keyed(template, t, name)[i]
             T == {Timestamp[second], Date[second]}
  <1>1. p \in Part
    <2>1. Keyed(template, t, name) \in Path /\ Len(Keyed(template, t, name)) = Len(template)
      BY KeyedIs
    <2> QED BY <2>1, ElementOfSeq DEF Path
  <1>2. ToSet(p) \subseteq ToSet(template[i]) \cup ToSet(TaskSegment(t, name)) \cup ToSet(CleanSegment(Key[t]))
    BY KeyedTokens
  <1>3. /\ ToSet(TaskSegment(t, name)) \subseteq ToSet(name) \cup ToSet(Key[t]) \cup {"-", "default"}
        /\ ToSet(CleanSegment(Key[t])) \subseteq ToSet(Key[t]) \cup {"-", "default"}
    BY SegmentTokens
  <1>4. ToSet(CleanPart(p)) \subseteq ToSet(p) \cup {"-", "default"}
    BY <1>1, CleanPartTokens
  <1>5. ToSet(template[i]) \cup ToSet(name) \cup ToSet(Key[t]) \subseteq TypedBy(template, t, name)
    <2>1. template[i] \in ToSet(template)
      <3>1. i \in DOMAIN template
        BY LenProperties DEF Path
      <3> QED BY <3>1 DEF ToSet
    <2> QED BY <2>1 DEF TypedBy
  <1>6. TypedBy(template, t, name) \cap T = {}
    <2>1. Timestamp[second] \in Range(Timestamp) /\ Date[second] \in Range(Date)
      BY NamesAssumption DEF Range
    <2> QED BY <2>1 DEF ClearlyNamed
  <1>7. "-" \notin T /\ "default" \notin T
    <2>1. {Timestamp[second], Date[second]} \subseteq (Kept \cap STRING) \ {"zip", "aes", "json", "default", "nowledge-mem"}
      BY NamesAssumption
    <2>2. "-" \notin Kept
      BY OwnWords DEF Punctuation
    <2> QED BY <2>1, <2>2
  <1> HIDE DEF p, T
  <1>8. ToSet(CleanPart(p)) \subseteq TypedBy(template, t, name) \cup {"-", "default"}
    BY <1>2, <1>3, <1>4, <1>5
  <1>9. ToSet(CleanPart(p)) \cap T = {}
    BY <1>6, <1>7, <1>8
  <1> QED BY <1>9 DEF p, T

\* The part of a name that names the task, and that of a directory, tell one from another.
LEMMA SegmentsRead ==
    ASSUME NEW p \in Part, NEW token, NameOnly(p, token),
           NEW t \in DOMAIN Key, NEW name \in Part, TaskSegment(t, name) # <<>>,
           NEW u \in DOMAIN Key, NEW other \in Part, NEW second \in DOMAIN Timestamp,
           CleanPart(FilledPart(p, t, TaskSegment(t, name), second))
              = CleanPart(FilledPart(p, u, TaskSegment(u, other), second))
    PROVE  TaskSegment(t, name) = TaskSegment(u, other)
  <1> DEFINE e == Fill(t, TaskSegment(t, name), second)
             f == Fill(u, TaskSegment(u, other), second)
  <1>1. token \in STRING /\ Puts(p, token, e) /\ e[token] = TaskSegment(t, name)
    BY FillPuts
  <1>2. Puts(p, token, f) /\ f[token] = TaskSegment(u, other)
    BY FillPuts
  <1>3. TaskSegment(t, name) \in Part /\ TaskSegment(u, other) \in Part
    BY SegmentTokens
  <1>4. /\ FilledPart(p, t, TaskSegment(t, name), second) = Mapped(p, e)
        /\ FilledPart(p, u, TaskSegment(u, other), second) = Mapped(p, f)
    BY <1>3, FilledPartIs
  <1>5. CleanPart(Mapped(p, e)) = CleanPart(Mapped(p, f)) /\ e[token] # <<>> /\ token \in ToSet(p)
    BY <1>1, <1>4 DEF NameOnly
  <1> HIDE DEF e, f
  <1>6. ASSUME NEW x \in STRING, x \in ToSet(p), Puts(p, x, e), Puts(p, x, f), e[x] # <<>>,
               CleanPart(Mapped(p, e)) = CleanPart(Mapped(p, f))
        PROVE  e[x] = f[x]
    <2>1. p \in Part
      OBVIOUS
    <2>2. e \in [STRING -> Part] /\ f \in [STRING -> Part]
      BY <1>6 DEF Puts
    <2>3. \A d, g \in [STRING -> Part] :
             Puts(p, x, d) /\ Puts(p, x, g) /\ d[x] # <<>> /\ CleanPart(Mapped(p, d)) = CleanPart(Mapped(p, g)) => d[x] = g[x]
      <3> SUFFICES ASSUME NEW d \in [STRING -> Part], NEW g \in [STRING -> Part], Puts(p, x, d), Puts(p, x, g),
                          d[x] # <<>>, CleanPart(Mapped(p, d)) = CleanPart(Mapped(p, g))
                   PROVE  d[x] = g[x]
        OBVIOUS
      <3> QED BY <1>6, PartTellsApart, ZenonT(60)
    <2> QED BY ONLY <1>6, <2>2, <2>3
  <1>7. e[token] = f[token]
    BY <1>1, <1>2, <1>5, <1>6
  <1> QED BY <1>1, <1>2, <1>7

\* ObjectName and RetentionDirectory: no name of one task is in the directory of another that
\* the template tells from it.
LEMMA ScopesApart ==
    ASSUME NEW template, NEW u, NEW other, NEW second, Proper(template, u, other, second),
           NEW extension, IsExtension(extension),
           NEW t \in DOMAIN Key, NEW name \in Part, ClearlyNamed(template, t, name),
           NEW k, TellsTasks(template, k), TaskSegment(t, name) # TaskSegment(u, other),
           NEW r \in Path, r # <<>>,
           ObjectName(template, u, other, second, extension) = RetentionDirectory(template, t, name) \o r
    PROVE  FALSE
  <1> DEFINE n == Len(template)
             keyed == Keyed(template, t, name)
             w == Whole(template, u, other, second, extension)
             seg == TaskSegment(t, name)
             A(i) == FilledPart(template[i], t, TaskSegment(t, name), second)
             B(i) == FilledPart(template[i], u, TaskSegment(u, other), second)
  <1>1. /\ template \in Path /\ template # <<>> /\ u \in DOMAIN Key /\ other \in Part /\ second \in DOMAIN Timestamp
        /\ n \in Nat \ {0}
    BY EmptySeq, LenProperties DEF Proper, Path
  <1>2. seg # <<>> /\ PlainSegment(t, name) /\ TimeFree(seg)
    BY DEF ClearlyNamed
  <1>3. w \in Path /\ Len(w) = n
    BY WholeShort
  <1>4. \A i \in 1..(n - 1) : w[i] = B(i)
    BY WholeAt
  <1>5. keyed \in Path /\ Len(keyed) = n
    BY <1>1, KeyedIs
  <1>6. \A i \in 1..n : TimeFree(template[i]) => keyed[i] = A(i)
    BY <1>1, <1>2, KeyedAt
  <1>7. PICK m \in 0..(n - 1) :
              /\ Stable(keyed) = SubSeq(keyed, 1, m)
              /\ \A i \in 1..m : TimeFree(template[i])
              /\ m # n - 1 => ~TimeFree(template[m + 1])
              /\ DOMAIN Stable(template) \subseteq 1..m
    BY <1>1, <1>2, StableAt
  <1>8. \A i \in 1..m : i \in 1..n /\ i \in 1..(n - 1)
    BY <1>1, <1>7
  <1>9. CleanPath(w) = CleanPath(Stable(keyed)) \o r
    BY ObjectNameIs DEF RetentionDirectory
  <1>10. \A i \in 1..n : ToSet(CleanPart(keyed[i])) \cap {Timestamp[second], Date[second]} = {}
    BY <1>1, DirectoryUntimed
  <1>11. \A i \in 1..n : template[i] \in Part
    BY <1>1, ElementOfSeq DEF Path
  <1> DEFINE p == SubSeq(keyed, 1, m)
  <1>12. p \in Path /\ Len(p) = m /\ \A i \in 1..m : p[i] = keyed[i]
    <2>1. \A i \in 1..m : keyed[i] \in Part
      BY <1>5, <1>8, ElementOfSeq DEF Path
    <2>2. m \in Nat
      BY <1>1, <1>7
    <2> HIDE DEF keyed
    <2> QED BY <2>1, <2>2, FrontIs
  <1>13. k \in 1..m
    BY <1>7 DEF TellsTasks
  <1>13a. PICK token : NameOnly(template[k], token)
    <2>1. TimeFree(template[k])
      BY <1>7, <1>13
    <2> QED BY <2>1 DEF TellsTasks, NameOnly
  <1>14. \A i \in 1..m : template[i] \in Part /\ TimeFree(template[i]) /\ p[i] = A(i) /\ w[i] = B(i)
    BY <1>4, <1>6, <1>7, <1>8, <1>11, <1>12
  <1>15. CleanPath(w) = CleanPath(p) \o r
    BY <1>7, <1>9
  <1>16. \A i \in 1..m : CleanPart(p[i]) = <<>> => CleanPart(w[i]) = <<>>
    <2> SUFFICES ASSUME NEW i \in 1..m, CleanPart(p[i]) = <<>>
                 PROVE  CleanPart(w[i]) = <<>>
      OBVIOUS
    <2>1. template[i] \in Part /\ TimeFree(template[i]) /\ CleanPart(A(i)) = <<>> /\ w[i] = B(i)
      BY <1>14
    <2>2. CleanPart(B(i)) = <<>>
      BY <1>1, <1>2, <2>1, LostAnyway
    <2> QED BY <2>1, <2>2
  <1>17. CleanPart(p[k]) # <<>>
    <2>1. template[k] \in Part /\ TimeFree(template[k]) /\ p[k] = A(k)
      BY <1>13, <1>14
    <2> DEFINE e == Fill(t, TaskSegment(t, name), second)
    <2>2. token \in STRING /\ Puts(template[k], token, e) /\ e[token] = seg
      BY <1>1, <1>13a, <2>1, FillPuts
    <2>3. A(k) = Mapped(template[k], e)
      <3>1. seg \in Part
        BY SegmentTokens
      <3> QED BY <1>1, <2>1, <3>1, FilledPartIs
    <2>4. token \in ToSet(template[k])
      BY <1>13a DEF NameOnly
    <2>5. e \in [STRING -> Part] /\ Tidy(e[token]) /\ e[token] # <<>>
      BY <1>2, <2>2 DEF Puts
    <2> HIDE DEF e, seg
    <2>6. CleanPart(Mapped(template[k], e)) # <<>>
      BY <2>1, <2>4, <2>5, PutIsKept
    <2> QED BY <2>1, <2>3, <2>6
  <1>18. CASE \A i \in 1..m : CleanPart(w[i]) = <<>> => CleanPart(p[i]) = <<>>
    <2>1. k \in 1..Len(p) /\ k \in 1..Len(w) /\ \A i \in 1..k : i \in 1..m
      <3> HIDE DEF p, w, n
      <3>1. k \in 1..Len(p) /\ k \in 1..Len(w)
        BY <1>3, <1>8, <1>12, <1>13
      <3>2. m \in Nat
        BY <1>1, <1>7
      <3> QED BY <1>13, <3>1, <3>2
    <2>2. \A i \in 1..k : CleanPart(p[i]) = <<>> <=> CleanPart(w[i]) = <<>>
      BY <1>16, <1>18, <2>1
    <2>3. CleanPart(p[k]) = CleanPart(w[k])
      <3> HIDE DEF p, w
      <3> QED BY <1>3, <1>12, <1>15, <1>17, <2>1, <2>2, SamePlace
    <2>4. template[k] \in Part /\ TimeFree(template[k]) /\ CleanPart(A(k)) = CleanPart(B(k))
      BY <1>13, <1>14, <2>3
    <2>5. NameOnly(template[k], token) /\ t \in DOMAIN Key /\ name \in Part /\ TaskSegment(t, name) # <<>>
      BY <1>2, <1>13a
    <2>6. TaskSegment(t, name) = TaskSegment(u, other)
      BY ONLY <1>1, <2>4, <2>5, SegmentsRead
    <2> QED BY <2>6
  <1>19. CASE ~\A i \in 1..m : CleanPart(w[i]) = <<>> => CleanPart(p[i]) = <<>>
    <2>1. PICK j \in 1..m : CleanPart(w[j]) = <<>> /\ CleanPart(p[j]) # <<>>
      BY <1>19
    <2>2. m \in 0..(Len(w) - 1)
      BY <1>3, <1>7
    <2>3. /\ m # Len(w) - 1
          /\ CleanPart(w[m + 1]) # <<>> => \E i \in 1..m : CleanPart(w[m + 1]) = CleanPart(p[i])
      <3> HIDE DEF p, w
      <3>1. \A i \in 1..m : CleanPart(p[i]) = <<>> => CleanPart(w[i]) = <<>>
        BY <1>16
      <3> QED BY <1>3, <1>12, <1>15, <2>1, <2>2, <3>1, Shifted, ZenonT(60)
    <2>4. m # n - 1
      BY <1>3, <2>3
    <2>5. ~TimeFree(template[m + 1]) /\ m + 1 \in 1..n /\ m + 1 \in 1..(n - 1)
      BY <1>1, <1>7, <2>4
    <2>6. w[m + 1] = B(m + 1) /\ template[m + 1] \in Part
      BY <1>4, <1>11, <2>5
    <2>7. CleanPart(B(m + 1)) # <<>> /\ ToSet(CleanPart(B(m + 1))) \cap {Timestamp[second], Date[second]} # {}
      <3>1. TaskSegment(u, other) \in Part
        BY <1>1, SegmentTokens
      <3> QED BY <1>1, <2>5, <2>6, <3>1, TimeShows
    <2>8. PICK i \in 1..m : CleanPart(B(m + 1)) = CleanPart(p[i])
      BY <2>3, <2>6, <2>7
    <2>9. p[i] = keyed[i] /\ i \in 1..n
      BY <1>8, <1>12
    <2> QED BY <1>10, <2>7, <2>8, <2>9
  <1> QED BY <1>18, <1>19

----------------------------------------------------------------------------
(* What a run takes away is of its own task.                                *)

\* What is below something has it as its beginning, and more.
LEMMA StrictlyBelow ==
    ASSUME NEW s \in Path, NEW p \in Path, IsStrictPrefix(s, p)
    PROVE  \E r \in Path : r # <<>> /\ p = s \o r
  <1>1. Len(s) <= Len(p) /\ SubSeq(s, 1, Len(s)) = SubSeq(p, 1, Len(s)) /\ s # p
    BY DEF IsStrictPrefix, IsPrefix
  <1>2. Len(s) \in Nat /\ Len(p) \in Nat
    BY LenProperties DEF Path
  <1>3. SubSeq(s, 1, Len(s)) = s
    BY SubSeqFull DEF Path
  <1>4. \A i \in 1..Len(s) : p[i] \in Part
    <2> SUFFICES ASSUME NEW i \in 1..Len(s)
                 PROVE  p[i] \in Part
      OBVIOUS
    <2>1. i \in 1..Len(p)
      BY <1>1, <1>2
    <2> QED BY <2>1, ElementOfSeq DEF Path
  <1>5. \A i \in 1..Len(s) : s[i] = p[i]
    <2>1. \A i \in 1..Len(s) : SubSeq(p, 1, Len(s))[i] = p[i]
      BY <1>2, <1>4, FrontIs
    <2> QED BY <1>1, <1>3, <2>1
  <1>6. Len(s) # Len(p)
    BY <1>1, <1>5, SeqEqual DEF Path
  <1>7. Len(s) < Len(p)
    BY <1>1, <1>2, <1>6
  <1> QED BY <1>1, <1>5, <1>7, RestIs

\* A task that a template tells from another, of a backup that is there.
LEMMA ApartClear ==
    ASSUME NEW j \in Jobs, NEW c \in TaskCfgs, NEW o, Shaped(o), Apart(j, c, o)
    PROVE  /\ ClearlyNamed(c.template, j[1], c.name) /\ c.template = o.cfg.template
           /\ TargetCfg[j[2]].root = TargetCfg[o.target].root
           /\ TaskSegment(j[1], c.name) # TaskSegment(o.task, o.cfg.name)
           /\ \E k : TellsTasks(c.template, k)
  <1>1. /\ c.template = o.cfg.template /\ TargetCfg[j[2]].root = TargetCfg[o.target].root
        /\ TaskSegment(j[1], c.name) # <<>> /\ TaskSegment(j[1], c.name) # TaskSegment(o.task, o.cfg.name)
    BY DEF Apart, Segment
  <1>2. PlainSegment(j[1], c.name) /\ TimeFree(TaskSegment(j[1], c.name))
    BY DEF Apart, Segment, PlainSegment, TimeFree
  <1>3. TypedBy(c.template, j[1], c.name) \cap (Range(Timestamp) \cup Range(Date)) = {}
    <2>1. Typed(j[2], j[1], c) \cap (Range(Timestamp) \cup Range(Date)) = {}
      BY DEF Apart, Untimed
    <2>2. TypedBy(c.template, j[1], c.name) \subseteq Typed(j[2], j[1], c)
      BY DEF Typed, TypedBy
    <2> QED BY <2>1, <2>2
  <1>4. \E k : TellsTasks(c.template, k)
    BY DEF Apart, NamesTask, TellsTasks
  <1> QED BY <1>1, <1>2, <1>3, <1>4 DEF ClearlyNamed

\* None of its names is in the directory of the other.
LEMMA NotBelow ==
    ASSUME NEW j \in Jobs, NEW c \in TaskCfgs, NEW o, Shaped(o), Apart(j, c, o), NEW r \in Path, r # <<>>,
           NameOf(o) = Scope(c, j[1]) \o r
    PROVE  FALSE
  <1>1. Proper(o.cfg.template, o.task, o.cfg.name, o.second) /\ IsExtension(Extension(o.cfg))
    BY ShapedIs
  <1>2. /\ ClearlyNamed(c.template, j[1], c.name) /\ c.template = o.cfg.template
        /\ TaskSegment(j[1], c.name) # TaskSegment(o.task, o.cfg.name)
    BY ApartClear
  <1>3. PICK k : TellsTasks(c.template, k)
    BY ApartClear
  <1>4. j[1] \in DOMAIN Key /\ c.name \in Part
    BY TargetsAssumption DEF Jobs, Part
  <1>5. ObjectName(c.template, o.task, o.cfg.name, o.second, Extension(o.cfg)) = RetentionDirectory(c.template, j[1], c.name) \o r
    BY <1>2 DEF NameOf, Scope
  <1>6. Proper(c.template, o.task, o.cfg.name, o.second)
    BY <1>1, <1>2
  <1>7. r \in Path /\ r # <<>>
    OBVIOUS
  <1> QED BY ONLY <1>1, <1>2, <1>3, <1>4, <1>5, <1>6, <1>7, ScopesApart

\* The directory of a task.
LEMMA ScopeIsPath ==
    ASSUME NEW c \in TaskCfgs, NEW t \in Tasks
    PROVE  Scope(c, t) \in Path
  <1>1. c.template \in Path /\ c.template # <<>> /\ t \in DOMAIN Key /\ c.name \in Part
    BY TargetsAssumption DEF Path, Part
  <1> DEFINE keyed == Keyed(c.template, t, c.name)
  <1>2. keyed \in Path /\ Len(keyed) = Len(c.template)
    BY <1>1, KeyedIs
  <1> HIDE DEF keyed
  <1>3. keyed # <<>>
    BY <1>1, <1>2, EmptySeq DEF Path
  <1>4. PICK k \in 0..(Len(keyed) - 1) : Stable(keyed) = SubSeq(keyed, 1, k)
    BY <1>2, <1>3, StableIs
  <1>5. k \in Nat /\ \A i \in 1..k : keyed[i] \in Part
    <2>1. PICK n \in Nat : n = Len(keyed)
      BY <1>2, LenProperties DEF Path
    <2>2. k \in 0..(n - 1)
      BY <1>4, <2>1
    <2>3. \A i \in 1..k : i \in 1..Len(keyed)
      BY <2>1, <2>2
    <2> QED BY <1>2, <2>2, <2>3, ElementOfSeq DEF Path
  <1>6. Stable(keyed) \in Path
    BY <1>4, <1>5, FrontIs
  <1>7. Scope(c, t) = CleanPath(Stable(keyed))
    BY DEF Scope, RetentionDirectory, keyed
  <1> QED BY <1>6, <1>7, CleanPathParts

\* A retention lists no backup of such a task.
LEMMA ListedOurs ==
    ASSUME NEW j \in Jobs, NEW c \in TaskCfgs, NEW o \in Listed(j[2], Scope(c, j[1])), Shaped(o)
    PROVE  ~Apart(j, c, o)
  <1> SUFFICES ASSUME Apart(j, c, o)
               PROVE  FALSE
    OBVIOUS
  <1> DEFINE scope == Scope(c, j[1])
             root == TargetCfg[o.target].root
  <1>1. j[1] \in Tasks
    BY DEF Jobs
  <1>2. scope \in Path
    BY <1>1, ScopeIsPath
  <1>3. NameOf(o) \in Path /\ root \in Path /\ o.path \in Path /\ o.path = root \o NameOf(o)
    BY ShapedIs
  <1>4. TargetCfg[j[2]].root = root
    BY ApartClear
  <1>5. IsStrictPrefix(root \o scope, o.path)
    BY <1>4, ListedIs DEF WithPrefix
  <1>6. \A r \in Path : r # <<>> => NameOf(o) # scope \o r
    BY NotBelow
  <1> HIDE DEF scope, root
  <1>7. root \o scope \in Path
    BY <1>2, <1>3, ConcatProperties DEF Path
  <1>8. PICK r \in Path : r # <<>> /\ o.path = (root \o scope) \o r
    BY <1>3, <1>5, <1>7, StrictlyBelow
  <1>9. (root \o scope) \o r = root \o (scope \o r) /\ scope \o r \in Path
    BY <1>2, <1>3, <1>8, ConcatAssociative, ConcatProperties, SMTT(40) DEF Path
  <1>10. NameOf(o) = scope \o r
    <2>1. SubSeq(o.path, Len(root) + 1, Len(o.path)) = NameOf(o)
      BY <1>3, RestOfBoth
    <2>2. SubSeq(root \o (scope \o r), Len(root) + 1, Len(root \o (scope \o r))) = scope \o r
      BY <1>3, <1>9, RestOfBoth
    <2> QED BY <1>8, <1>9, <2>1, <2>2
  <1> QED BY <1>6, <1>8, <1>10

\* A run writes over no backup of such a task.
LEMMA WrittenOurs ==
    ASSUME NEW j \in Jobs, NEW m, Shaped(m), NEW o, Shaped(o), m.path = o.path, m.target = j[2], m.task = j[1]
    PROVE  ~Apart(j, m.cfg, o)
  <1> SUFFICES ASSUME Apart(j, m.cfg, o)
               PROVE  FALSE
    OBVIOUS
  <1> DEFINE root == TargetCfg[o.target].root
             scope == Scope(m.cfg, j[1])
  <1>1. m.cfg \in TaskCfgs
    BY DEF Shaped
  <1>2. /\ Proper(m.cfg.template, m.task, m.cfg.name, m.second) /\ IsExtension(Extension(m.cfg))
        /\ NameOf(m) \in Path /\ m.path = TargetCfg[m.target].root \o NameOf(m)
    BY ShapedIs
  <1>3. NameOf(o) \in Path /\ root \in Path /\ o.path = root \o NameOf(o)
    BY ShapedIs
  <1>4. TargetCfg[m.target].root = root /\ PlainSegment(m.task, m.cfg.name)
    BY <1>1, ApartClear DEF ClearlyNamed
  <1>5. \A r \in Path : r # <<>> => NameOf(o) # scope \o r
    BY <1>1, NotBelow, SMTT(40)
  <1>6. \E r \in Path : r # <<>> /\ NameOf(m) = scope \o r
    BY <1>2, <1>4, ScopeIs, SMTT(40) DEF Scope, NameOf
  <1> HIDE DEF root, scope
  <1>7. NameOf(m) = NameOf(o)
    <2>1. SubSeq(o.path, Len(root) + 1, Len(o.path)) = NameOf(o)
      BY <1>3, RestOfBoth
    <2>2. m.path = root \o NameOf(m)
      BY <1>2, <1>4
    <2>3. SubSeq(m.path, Len(root) + 1, Len(m.path)) = NameOf(m)
      BY <1>2, <1>3, <2>2, RestOfBoth
    <2> QED BY <2>1, <2>3
  <1> QED BY <1>5, <1>6, <1>7

\* Backups of the task of a run, or of one that the template does not tell from it.
OursTo(j, p) == p.task = j[1] \/ ~Apart(j, run[j].cfg, p)

\* What a retention takes away is its task's, and so are as many newer ones as it keeps.
LEMMA RetainSupersedes ==
    ASSUME TargetsInv, NamedInv, NEW j \in Jobs, Retain(j), NEW o \in objects \ objects'
    PROVE  /\ run'[j] # run[j] /\ OursTo(j, o)
           /\ run[j].pc = "retain" /\ run[j].cfg.keep > 0
           /\ Cardinality({p \in objects' : OursTo(j, p) /\ p.mod >= o.mod}) >= run[j].cfg.keep
  <1> DEFINE n == run[j].cfg.keep
             listed == Listed(j[2], Scope(run[j].cfg, j[1]))
             left == {p \in objects' : OursTo(j, p) /\ p.mod >= o.mod}
  <1>1. n \in Nat /\ run[j].cfg \in TaskCfgs
    <2>1. run[j].cfg \in TaskCfgs
      BY DEF TargetsInv, RunsFit
    <2> QED BY <2>1, TargetsAssumption
  <1>2. PICK kept \in SUBSET listed : Newest(kept, listed, n) /\ objects' = objects \ (listed \ kept)
    BY DEF Retain
  <1>3. run[j].pc = "retain" /\ n # 0
    BY DEF Retain
  <1>4. o \in listed \ kept
    BY <1>2
  <1>5. listed \subseteq objects
    BY ListedIs
  <1>6. IsFiniteSet(listed) /\ IsFiniteSet(objects')
    BY <1>2, <1>5, FS_Subset DEF TargetsInv
  <1>7. \A p \in kept : p.mod >= o.mod
    BY <1>2, <1>4 DEF Newest
  <1>8. \A p \in listed : OursTo(j, p)
    <2> SUFFICES ASSUME NEW p \in listed
                 PROVE  OursTo(j, p)
      OBVIOUS
    <2>1. Shaped(p)
      BY <1>5 DEF NamedInv
    <2>2. ~Apart(j, run[j].cfg, p)
      BY <1>1, <2>1, ListedOurs
    <2> QED BY <2>2 DEF OursTo
  <1>9. run'[j] # run[j]
    <2>1. run' = [run EXCEPT ![j] = Idle]
      BY DEF Retain
    <2>2. run'[j] = Idle
      BY <2>1 DEF TargetsInv, RunsFit
    <2>3. Idle.pc = "idle"
      BY DEF Idle
    <2> QED BY <1>3, <2>2, <2>3
  <1> HIDE DEF n, listed
  <1>10. Cardinality(kept) = n
    BY <1>1, <1>2, <1>4, <1>6, KeptAreMany
  <1>11. kept \subseteq left
    BY <1>2, <1>4, <1>5, <1>7, <1>8
  <1>12. left \subseteq objects'
    OBVIOUS
  <1> HIDE DEF left
  <1>13. IsFiniteSet(left)
    BY <1>6, <1>12, FS_Subset
  <1>14. Cardinality(kept) <= Cardinality(left) /\ Cardinality(left) \in Nat
    BY <1>11, <1>13, FS_Subset, FS_CardinalityType
  <1> QED BY <1>1, <1>3, <1>4, <1>8, <1>9, <1>10, <1>14 DEF n, left

\* What a run writes over is its task's, and of the same second if names tell seconds apart.
LEMMA WriteSupersedes ==
    ASSUME TargetsInv, NamedInv, NEW j \in Jobs, Write(j), NEW o \in objects \ objects'
    PROVE  /\ run'[j] # run[j] /\ OursTo(j, o) /\ run[j].pc = "write"
           /\ \/ run[j].second = o.second \/ ~Stamped(run[j].cfg) \/ o.task # j[1]
              \/ ~Untimed(o.target, o.task, o.cfg)
  <1> DEFINE m == Made(j, run[j])
  <1>1. m.cfg = run[j].cfg /\ m.second = run[j].second /\ m.target = j[2] /\ m.task = j[1]
    BY DEF Made
  <1>2. Shaped(m)
    BY MadeShaped
  <1>3. /\ run[j].pc = "write" /\ run' = [run EXCEPT ![j].pc = "retain"]
        /\ objects' = {p \in objects : Store(p.target) # Store(m.target) \/ p.path # m.path} \cup {m}
    BY DEF Write
  <1> HIDE DEF m
  <1>4. m.path = o.path
    BY <1>3
  <1>5. Shaped(o)
    BY DEF NamedInv
  <1>6. OursTo(j, o)
    BY <1>1, <1>2, <1>4, <1>5, WrittenOurs DEF OursTo
  <1>7. run'[j] # run[j]
    <2>1. run'[j].pc = "retain"
      BY <1>3 DEF TargetsInv, RunsFit
    <2> QED BY <1>3, <2>1
  <1>8. Stamped(run[j].cfg) /\ Untimed(o.target, o.task, o.cfg) => run[j].second = o.second
    BY <1>1, <1>2, <1>4, <1>5, OneSecond
  <1> QED BY <1>3, <1>6, <1>7, <1>8

\* ApplyRetention by RetentionDirectory, Write by ObjectName: however many tasks share a
\* store, no run takes away the backups of a task that the template tells apart, and a
\* retention leaves as many newer ones as it keeps.  A run is not told apart if its
\* task's name has a token in it that RetentionDirectory replaces, or is that of a time.
THEOREM OnlySupersededGoHolds == Spec => OnlySupersededGo
  <1> DEFINE Gone(j, o) ==
        /\ run'[j] # run[j] /\ OursTo(j, o)
        /\ \/ /\ run[j].pc = "retain" /\ run[j].cfg.keep > 0
              /\ Cardinality({p \in objects' : OursTo(j, p) /\ p.mod >= o.mod}) >= run[j].cfg.keep
           \/ /\ run[j].pc = "write"
              /\ \/ run[j].second = o.second \/ ~Stamped(run[j].cfg) \/ o.task # j[1]
                 \/ ~Untimed(o.target, o.task, o.cfg)
  <1>1. ASSUME TargetsInv, NamedInv, Next
        PROVE  \A o \in objects \ objects' : \E j \in Jobs : Gone(j, o)
    <2> SUFFICES ASSUME NEW o \in objects \ objects'
                 PROVE  \E j \in Jobs : Gone(j, o)
      OBVIOUS
    <2>1. \E j \in Jobs : Write(j) \/ Retain(j)
      BY <1>1, ZenonT(60) DEF Next, RunBackup, RunScheduled, Start, WriteFails, Choose, Tick, Restore
    <2>2. ASSUME NEW j \in Jobs, Write(j)
          PROVE  Gone(j, o)
      BY <1>1, <2>2, WriteSupersedes
    <2>3. ASSUME NEW j \in Jobs, Retain(j)
          PROVE  Gone(j, o)
      BY <1>1, <2>3, RetainSupersedes
    <2> HIDE DEF Gone
    <2> QED BY <2>1, <2>2, <2>3
  <1>2. (\A o \in objects \ objects' : \E j \in Jobs : Gone(j, o)) =>
            \A o \in objects \ objects' :
                \E j \in Jobs :
                    LET c == run[j].cfg
                        Ours(p) == p.task = j[1] \/ ~Apart(j, c, p)
                    IN  /\ run'[j] # run[j] /\ Ours(o)
                        /\ \/ /\ run[j].pc = "retain" /\ c.keep > 0
                              /\ Cardinality({p \in objects' : Ours(p) /\ p.mod >= o.mod}) >= c.keep
                           \/ /\ run[j].pc = "write"
                              /\ \/ run[j].second = o.second \/ ~Stamped(c) \/ o.task # j[1]
                                 \/ ~Untimed(o.target, o.task, o.cfg)
    BY DEF OursTo
  <1> HIDE DEF Gone
  <1> QED BY <1>1, <1>2, TargetsInvariant, NamesInvariant, PTL DEF Spec, OnlySupersededGo
=============================================================================
