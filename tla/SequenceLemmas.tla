---------------------------- MODULE SequenceLemmas ----------------------------
(***************************************************************************)
(* Induction over numbers and sequences, stated with sets so that a proof  *)
(* can instantiate it, and what Keep does to a sequence.                   *)
(***************************************************************************)
EXTENDS Filter, SequencesExt, TLAPS, WellFoundedInduction, SequenceTheorems, FiniteSetTheorems

-----------------------------------------------------------------------------
(* Induction. *)

\* A set of natural numbers has a least element.
LEMMA LeastNumber ==
    ASSUME NEW T \in SUBSET Nat, T # {}
    PROVE  \E x \in T : \A y \in T : x <= y
<1> DEFINE R == OpToRel(<, Nat)
<1>1. IsWellFoundedOn(R, Nat)
  BY NatLessThanWellFounded
<1>2. \A x, y \in Nat : y < x => <<y, x>> \in R
  BY DEF OpToRel
<1> HIDE DEF R
<1>3. PICK x \in T : \A y \in T : ~ (<<y, x>> \in R)
  BY <1>1, WFMin
<1>4. \A y \in T : ~(y < x)
  BY <1>2, <1>3
<1>5. \A y \in T : x <= y
  <2> SUFFICES ASSUME NEW y \in T
               PROVE  x <= y
    OBVIOUS
  <2>1. x \in Nat /\ y \in Nat
    OBVIOUS
  <2>2. ~(y < x)
    BY <1>4
  <2> HIDE <1>1, <1>2, <1>3, <1>4
  <2> QED
    BY <2>1, <2>2
<1> QED
  BY <1>5

\* A set that holds zero and the successor of each number it holds has them all.
LEMMA SetInduction ==
    ASSUME NEW T, 0 \in T, \A n \in Nat : n \in T => n + 1 \in T
    PROVE  \A n \in Nat : n \in T
<1> SUFFICES ASSUME Nat \ T # {}
             PROVE  FALSE
  OBVIOUS
<1>1. PICK x \in Nat \ T : \A y \in Nat \ T : x <= y
  BY LeastNumber
<1>2. x # 0 /\ x - 1 \in Nat /\ x - 1 \in T
  BY <1>1
<1> QED
  BY <1>2

\* A set that holds the empty sequence and every sequence made by appending to
\* one it holds has them all.
LEMMA SequenceSetInduction ==
    ASSUME NEW A, NEW T, <<>> \in T,
           \A s \in Seq(A), e \in A : s \in T => Append(s, e) \in T
    PROVE  \A s \in Seq(A) : s \in T
<1> DEFINE N == {n \in Nat : \A s \in Seq(A) : Len(s) = n => s \in T}
<1>1. 0 \in N
  <2>1. \A s \in Seq(A) : Len(s) = 0 => s = <<>>
    BY EmptySeq
  <2> QED
    BY <2>1
<1>2. \A n \in Nat : n \in N => n + 1 \in N
  <2> SUFFICES ASSUME NEW n \in Nat, n \in N, NEW s \in Seq(A), Len(s) = n + 1
               PROVE  s \in T
    OBVIOUS
  <2>1. s # <<>>
    BY EmptySeq
  <2>2. PICK r \in Seq(A), e \in A : s = Append(r, e)
    BY <2>1, SequenceEmptyOrAppend
  <2>3. Len(r) = n
    BY <2>2, AppendProperties, LenProperties
  <2>4. r \in T
    BY <2>3
  <2> QED
    BY <2>2, <2>4
<1> HIDE DEF N
<1>3. \A n \in Nat : n \in N
  BY <1>1, <1>2, SetInduction
<1>4. \A s \in Seq(A) : Len(s) \in N
  BY <1>3, LenProperties
<1> QED
  BY <1>4 DEF N

-----------------------------------------------------------------------------
(* Keep. *)

\* The function Keep is read off, restricted to the first n elements.
KeptBy(g, s, S, n) ==
    g = [i \in 0..n |-> IF i = 0 THEN <<>>
                        ELSE IF s[i] \in S THEN Append(g[i - 1], s[i]) ELSE g[i - 1]]

\* There is such a function.
LEMMA KeptExists ==
    ASSUME NEW s, NEW S
    PROVE  \A n \in Nat : \E g : KeptBy(g, s, S, n)
<1> DEFINE T == {n \in Nat : \E g : KeptBy(g, s, S, n)}
<1>1. 0 \in T
  <2> DEFINE g == [i \in 0..0 |-> <<>>]
  <2>1. KeptBy(g, s, S, 0)
    BY DEF KeptBy
  <2> QED
    BY <2>1
<1>2. \A n \in Nat : n \in T => n + 1 \in T
  <2> SUFFICES ASSUME NEW n \in Nat, NEW g, KeptBy(g, s, S, n)
               PROVE  \E h : KeptBy(h, s, S, n + 1)
    OBVIOUS
  <2> DEFINE h == [i \in 0..(n + 1) |->
                      IF i = n + 1 THEN IF s[i] \in S THEN Append(g[n], s[i]) ELSE g[n]
                      ELSE g[i]]
  <2>1. \A i \in 0..n : g[i] = IF i = 0 THEN <<>>
                               ELSE IF s[i] \in S THEN Append(g[i - 1], s[i]) ELSE g[i - 1]
    BY DEF KeptBy
  <2>2. \A i \in 0..(n + 1) :
           h[i] = IF i = 0 THEN <<>>
                  ELSE IF s[i] \in S THEN Append(h[i - 1], s[i]) ELSE h[i - 1]
    <3> SUFFICES ASSUME NEW i \in 0..(n + 1)
                 PROVE  h[i] = IF i = 0 THEN <<>>
                               ELSE IF s[i] \in S THEN Append(h[i - 1], s[i]) ELSE h[i - 1]
      OBVIOUS
    <3>1. CASE i = n + 1
      <4>1. n \in 0..(n + 1) /\ n # n + 1 /\ i # 0 /\ i - 1 = n
        BY <3>1
      <4>2. h[i - 1] = g[n]
        BY <4>1
      <4> QED
        BY <3>1, <4>1, <4>2
    <3>2. CASE i = 0
      <4>1. i # n + 1 /\ i \in 0..n
        BY <3>2
      <4> QED
        BY <2>1, <3>2, <4>1
    <3>3. CASE i # 0 /\ i # n + 1
      <4>1. i \in 0..n /\ i - 1 \in 0..(n + 1) /\ i - 1 # n + 1
        BY <3>3
      <4>2. h[i] = g[i] /\ h[i - 1] = g[i - 1]
        BY <3>3, <4>1
      <4> HIDE DEF h
      <4> QED
        BY <2>1, <3>3, <4>1, <4>2
    <3> QED
      BY <3>1, <3>2, <3>3
  <2>3. DOMAIN h = 0..(n + 1) /\ h = [i \in DOMAIN h |-> h[i]]
    OBVIOUS
  <2> HIDE DEF h
  <2>4. KeptBy(h, s, S, n + 1)
    BY <2>2, <2>3 DEF KeptBy
  <2> QED
    BY <2>4
<1> HIDE DEF T
<1>3. \A n \in Nat : n \in T
  BY <1>1, <1>2, SetInduction
<1> QED
  BY <1>3 DEF T

\* Two such functions, of sequences that agree, agree.
LEMMA KeptUnique ==
    ASSUME NEW s, NEW t, NEW S, NEW n \in Nat, NEW m \in Nat, n <= m,
           \A i \in 1..n : s[i] = t[i],
           NEW g, KeptBy(g, s, S, n), NEW h, KeptBy(h, t, S, m)
    PROVE  g[n] = h[n]
<1> DEFINE T == {i \in Nat : i <= n => g[i] = h[i]}
<1>1. \A i \in 0..n : g[i] = IF i = 0 THEN <<>>
                             ELSE IF s[i] \in S THEN Append(g[i - 1], s[i]) ELSE g[i - 1]
  BY DEF KeptBy
<1>2. \A i \in 0..m : h[i] = IF i = 0 THEN <<>>
                             ELSE IF t[i] \in S THEN Append(h[i - 1], t[i]) ELSE h[i - 1]
  BY DEF KeptBy
<1>3. 0 \in T
  <2>1. 0 \in 0..n /\ 0 \in 0..m
    OBVIOUS
  <2> QED
    BY <1>1, <1>2, <2>1
<1>4. \A i \in Nat : i \in T => i + 1 \in T
  <2> SUFFICES ASSUME NEW i \in Nat, i \in T, i + 1 <= n
               PROVE  g[i + 1] = h[i + 1]
    OBVIOUS
  <2>1. i + 1 \in 0..n /\ i + 1 \in 0..m /\ i + 1 \in 1..n /\ i + 1 # 0 /\ (i + 1) - 1 = i /\ i <= n
    OBVIOUS
  <2>2. g[i] = h[i] /\ s[i + 1] = t[i + 1]
    BY <2>1
  <2>3. g[i + 1] = IF s[i + 1] \in S THEN Append(g[i], s[i + 1]) ELSE g[i]
    BY <1>1, <2>1
  <2>4. h[i + 1] = IF t[i + 1] \in S THEN Append(h[i], t[i + 1]) ELSE h[i]
    BY <1>2, <2>1
  <2> QED
    BY <2>2, <2>3, <2>4
<1> HIDE DEF T
<1>5. n \in T
  BY <1>3, <1>4, SetInduction
<1> QED
  BY <1>5 DEF T

\* Keep is read off such a function.
LEMMA KeepUnfolds ==
    ASSUME NEW s, NEW S, Len(s) \in Nat
    PROVE  \E g : KeptBy(g, s, S, Len(s)) /\ Keep(s, S) = g[Len(s)]
<1> DEFINE c == CHOOSE g : KeptBy(g, s, S, Len(s))
<1>1. \E g : KeptBy(g, s, S, Len(s))
  BY KeptExists
<1>2. KeptBy(c, s, S, Len(s))
  BY <1>1
<1>3. Keep(s, S) = c[Len(s)]
  BY DEF Keep, KeptBy
<1> HIDE DEF c
<1> QED
  BY <1>2, <1>3

\* Of nothing, nothing is kept.
LEMMA KeepEmpty ==
    ASSUME NEW S
    PROVE  Keep(<<>>, S) = <<>>
<1>1. Len(<<>>) = 0
  BY EmptySeq
<1>2. PICK g : KeptBy(g, <<>>, S, 0) /\ Keep(<<>>, S) = g[0]
  BY <1>1, KeepUnfolds
<1>3. g[0] = <<>>
  BY <1>2 DEF KeptBy
<1> QED
  BY <1>2, <1>3

\* What Keep does with one more element.
LEMMA KeepAppends ==
    ASSUME NEW A, NEW s \in Seq(A), NEW e \in A, NEW S
    PROVE  Keep(Append(s, e), S) = IF e \in S THEN Append(Keep(s, S), e) ELSE Keep(s, S)
<1> DEFINE t == Append(s, e)
<1>1. PICK n \in Nat : n = Len(s)
  BY LenProperties
<1>2. /\ t \in Seq(A) /\ Len(t) = n + 1
      /\ \A i \in 1..n : s[i] = t[i]
      /\ t[n + 1] = e
  BY <1>1, AppendProperties
<1> HIDE DEF t
<1>3. PICK g : KeptBy(g, s, S, n) /\ Keep(s, S) = g[n]
  BY <1>1, KeepUnfolds
<1>4. PICK h : KeptBy(h, t, S, n + 1) /\ Keep(t, S) = h[n + 1]
  BY <1>2, KeepUnfolds, n + 1 \in Nat
<1>5. g[n] = h[n]
  BY <1>2, <1>3, <1>4, KeptUnique, n <= n + 1, n + 1 \in Nat
<1>6. h[n + 1] = IF t[n + 1] \in S THEN Append(h[n], t[n + 1]) ELSE h[n]
  <2>1. n + 1 \in 0..(n + 1) /\ n + 1 # 0 /\ (n + 1) - 1 = n
    OBVIOUS
  <2> QED
    BY <1>4, <2>1 DEF KeptBy
<1>7. Keep(t, S) = IF e \in S THEN Append(Keep(s, S), e) ELSE Keep(s, S)
  BY <1>2, <1>3, <1>4, <1>5, <1>6
<1> QED
  BY <1>7 DEF t

\* The empty sequence has no elements.
LEMMA EmptyToSet == ToSet(<<>>) = {}
BY EmptySeq, LenProperties DEF ToSet

\* The elements of a sequence that grew.
LEMMA AppendToSet ==
    ASSUME NEW A, NEW s \in Seq(A), NEW e \in A
    PROVE  ToSet(Append(s, e)) = ToSet(s) \cup {e}
<1> DEFINE t == Append(s, e)
<1>1. PICK n \in Nat : n = Len(s) /\ DOMAIN s = 1..n
  BY LenProperties
<1>2. /\ t \in Seq(A) /\ Len(t) = n + 1
      /\ \A i \in 1..n : t[i] = s[i]
      /\ t[n + 1] = e
  BY <1>1, AppendProperties
<1>3. DOMAIN t = 1..(n + 1)
  BY <1>2, LenProperties
<1> HIDE DEF t
<1>4. n + 1 \in 1..(n + 1) /\ \A i \in 1..n : i \in 1..(n + 1)
  OBVIOUS
<1>5. \A i \in 1..(n + 1) : i = n + 1 \/ i \in 1..n
  OBVIOUS
<1>6. ToSet(t) = ToSet(s) \cup {e}
  BY <1>1, <1>2, <1>3, <1>4, <1>5 DEF ToSet
<1> QED
  BY <1>6 DEF t

\* Appending repeats nothing just when the element is new.
LEMMA AppendInjectiveIff ==
    ASSUME NEW A, NEW s \in Seq(A), NEW e \in A
    PROVE  IsInjective(Append(s, e)) <=> IsInjective(s) /\ e \notin ToSet(s)
<1> DEFINE t == Append(s, e)
<1>1. PICK n \in Nat : n = Len(s) /\ DOMAIN s = 1..n
  BY LenProperties
<1>2. /\ t \in Seq(A) /\ Len(t) = n + 1
      /\ \A i \in 1..n : t[i] = s[i]
      /\ t[n + 1] = e
  BY <1>1, AppendProperties
<1>3. DOMAIN t = 1..(n + 1)
  BY <1>2, LenProperties
<1> HIDE DEF t
<1>4. /\ n + 1 \in 1..(n + 1) /\ n + 1 \notin 1..n
      /\ \A i \in 1..n : i \in 1..(n + 1) /\ i # n + 1
      /\ \A i \in 1..(n + 1) : i = n + 1 \/ i \in 1..n
  OBVIOUS
<1>5. ASSUME IsInjective(t)
      PROVE  IsInjective(s) /\ e \notin ToSet(s)
  <2>1. \A i, k \in 1..n : s[i] = s[k] => i = k
    BY <1>2, <1>3, <1>4, <1>5 DEF IsInjective
  <2>2. \A i \in 1..n : s[i] # e
    BY <1>2, <1>3, <1>4, <1>5 DEF IsInjective
  <2> QED
    BY <1>1, <2>1, <2>2 DEF IsInjective, ToSet
<1>6. ASSUME IsInjective(s), e \notin ToSet(s)
      PROVE  IsInjective(t)
  <2>1. \A i, k \in 1..n : s[i] = s[k] => i = k
    BY <1>1, <1>6 DEF IsInjective
  <2>2. \A i \in 1..n : s[i] # e
    BY <1>1, <1>6 DEF ToSet
  <2>3. \A i, k \in 1..(n + 1) : t[i] = t[k] => i = k
    BY <1>2, <1>4, <2>1, <2>2
  <2> QED
    BY <1>3, <2>3 DEF IsInjective
<1>7. IsInjective(t) <=> IsInjective(s) /\ e \notin ToSet(s)
  BY <1>5, <1>6
<1> QED
  BY <1>7 DEF t

\* Keep keeps what is in the set, and nothing else.
LEMMA KeepElements ==
    ASSUME NEW A, NEW S
    PROVE  \A s \in Seq(A) : Keep(s, S) \in Seq(A) /\ ToSet(Keep(s, S)) = ToSet(s) \cap S
<1> DEFINE T == {s \in Seq(A) : Keep(s, S) \in Seq(A) /\ ToSet(Keep(s, S)) = ToSet(s) \cap S}
<1>1. <<>> \in T
  BY KeepEmpty, EmptyToSet, EmptySeq
<1>2. \A s \in Seq(A), e \in A : s \in T => Append(s, e) \in T
  <2> SUFFICES ASSUME NEW s \in Seq(A), NEW e \in A, s \in T
               PROVE  Append(s, e) \in T
    OBVIOUS
  <2>1. Append(s, e) \in Seq(A)
    BY AppendProperties
  <2>2. ToSet(Append(s, e)) = ToSet(s) \cup {e}
    BY AppendToSet
  <2>3. Keep(Append(s, e), S) = IF e \in S THEN Append(Keep(s, S), e) ELSE Keep(s, S)
    BY KeepAppends
  <2>4. e \in S => /\ Append(Keep(s, S), e) \in Seq(A)
                   /\ ToSet(Append(Keep(s, S), e)) = ToSet(Keep(s, S)) \cup {e}
    BY AppendProperties, AppendToSet
  <2> QED
    BY <2>1, <2>2, <2>3, <2>4
<1> HIDE DEF T
<1>3. \A s \in Seq(A) : s \in T
  BY <1>1, <1>2, SequenceSetInduction
<1> QED
  BY <1>3 DEF T

\* Only the members of the set that occur in the sequence matter.
LEMMA KeepDependsOn ==
    ASSUME NEW A, NEW R, NEW S
    PROVE  \A s \in Seq(A) : ToSet(s) \cap R = ToSet(s) \cap S => Keep(s, R) = Keep(s, S)
<1> DEFINE T == {s \in Seq(A) : ToSet(s) \cap R = ToSet(s) \cap S => Keep(s, R) = Keep(s, S)}
<1>1. <<>> \in T
  BY KeepEmpty, EmptySeq
<1>2. \A s \in Seq(A), e \in A : s \in T => Append(s, e) \in T
  <2> SUFFICES ASSUME NEW s \in Seq(A), NEW e \in A, s \in T,
                      ToSet(Append(s, e)) \cap R = ToSet(Append(s, e)) \cap S
               PROVE  Keep(Append(s, e), R) = Keep(Append(s, e), S)
    BY AppendProperties
  <2>1. ToSet(Append(s, e)) = ToSet(s) \cup {e}
    BY AppendToSet
  <2>2. ToSet(s) \cap R = ToSet(s) \cap S /\ (e \in R <=> e \in S)
    BY <2>1
  <2>3. /\ Keep(Append(s, e), R) = IF e \in R THEN Append(Keep(s, R), e) ELSE Keep(s, R)
        /\ Keep(Append(s, e), S) = IF e \in S THEN Append(Keep(s, S), e) ELSE Keep(s, S)
    BY KeepAppends
  <2> QED
    BY <2>2, <2>3
<1> HIDE DEF T
<1>3. \A s \in Seq(A) : s \in T
  BY <1>1, <1>2, SequenceSetInduction
<1> QED
  BY <1>3 DEF T

\* Filtering twice.
LEMMA KeepTwice ==
    ASSUME NEW A, NEW R, NEW S
    PROVE  \A s \in Seq(A) : Keep(Keep(s, R), S) = Keep(s, R \cap S)
<1> DEFINE T == {s \in Seq(A) : Keep(Keep(s, R), S) = Keep(s, R \cap S)}
<1>1. <<>> \in T
  BY KeepEmpty, EmptySeq
<1>2. \A s \in Seq(A), e \in A : s \in T => Append(s, e) \in T
  <2> SUFFICES ASSUME NEW s \in Seq(A), NEW e \in A, s \in T
               PROVE  Keep(Keep(Append(s, e), R), S) = Keep(Append(s, e), R \cap S)
    BY AppendProperties
  <2>1. Keep(s, R) \in Seq(A)
    BY KeepElements
  <2>2. Keep(Append(s, e), R) = IF e \in R THEN Append(Keep(s, R), e) ELSE Keep(s, R)
    BY KeepAppends
  <2>3. Keep(Append(s, e), R \cap S) =
           IF e \in R \cap S THEN Append(Keep(s, R \cap S), e) ELSE Keep(s, R \cap S)
    BY KeepAppends
  <2>4. Keep(Append(Keep(s, R), e), S) =
           IF e \in S THEN Append(Keep(Keep(s, R), S), e) ELSE Keep(Keep(s, R), S)
    BY <2>1, KeepAppends
  <2>5. Keep(Keep(s, R), S) = Keep(s, R \cap S)
    OBVIOUS
  <2>6. CASE e \in R
    <3>1. Keep(Keep(Append(s, e), R), S) = Keep(Append(Keep(s, R), e), S)
      BY <2>2, <2>6
    <3>2. e \in R \cap S <=> e \in S
      BY <2>6
    <3> QED
      BY <2>3, <2>4, <2>5, <3>1, <3>2
  <2>7. CASE e \notin R
    <3>1. Keep(Append(s, e), R) = Keep(s, R)
      BY <2>2, <2>7
    <3>2. e \notin R \cap S
      BY <2>7
    <3> QED
      BY <2>3, <2>5, <3>1, <3>2
  <2> QED
    BY <2>6, <2>7
<1> HIDE DEF T
<1>3. \A s \in Seq(A) : s \in T
  BY <1>1, <1>2, SequenceSetInduction
<1> QED
  BY <1>3 DEF T

\* Filtering one sequence after the other.
LEMMA KeepConcat ==
    ASSUME NEW A, NEW S, NEW s \in Seq(A)
    PROVE  \A t \in Seq(A) : Keep(s \o t, S) = Keep(s, S) \o Keep(t, S)
<1> DEFINE T == {t \in Seq(A) : Keep(s \o t, S) = Keep(s, S) \o Keep(t, S)}
<1>1. <<>> \in T
  <2>1. s \o <<>> = s /\ Keep(s, S) \in Seq(A)
    BY ConcatEmptySeq, KeepElements
  <2>2. Keep(s, S) \o <<>> = Keep(s, S)
    BY <2>1, ConcatEmptySeq
  <2> QED
    BY <2>1, <2>2, KeepEmpty, EmptySeq
<1>2. \A t \in Seq(A), e \in A : t \in T => Append(t, e) \in T
  <2> SUFFICES ASSUME NEW t \in Seq(A), NEW e \in A, t \in T
               PROVE  Keep(s \o Append(t, e), S) = Keep(s, S) \o Keep(Append(t, e), S)
    BY AppendProperties
  <2>1. \A u, v \in Seq(A) : u \o Append(v, e) = Append(u \o v, e)
    <3> SUFFICES ASSUME NEW u \in Seq(A), NEW v \in Seq(A)
                 PROVE  u \o Append(v, e) = Append(u \o v, e)
      OBVIOUS
    <3>1. <<e>> \in Seq(A) /\ u \o v \in Seq(A)
      BY ConcatProperties
    <3>2. Append(v, e) = v \o <<e>> /\ Append(u \o v, e) = (u \o v) \o <<e>>
      BY <3>1, AppendIsConcat
    <3> QED
      BY <3>1, <3>2, ConcatAssociative
  <2>2. Keep(s, S) \in Seq(A) /\ Keep(t, S) \in Seq(A) /\ s \o t \in Seq(A)
    BY KeepElements, ConcatProperties
  <2>3. Keep(Append(t, e), S) = IF e \in S THEN Append(Keep(t, S), e) ELSE Keep(t, S)
    BY KeepAppends
  <2>4. \A u \in Seq(A) : Keep(Append(u, e), S) = IF e \in S THEN Append(Keep(u, S), e) ELSE Keep(u, S)
    BY KeepAppends
  <2>5. Keep(s \o t, S) = Keep(s, S) \o Keep(t, S)
    OBVIOUS
  <2>6. s \o Append(t, e) = Append(s \o t, e)
    BY <2>1
  <2>7. Keep(s, S) \o Append(Keep(t, S), e) = Append(Keep(s, S) \o Keep(t, S), e)
    BY <2>1, <2>2
  <2> QED
    BY <2>2, <2>3, <2>4, <2>5, <2>6, <2>7
<1> HIDE DEF T
<1>3. \A t \in Seq(A) : t \in T
  BY <1>1, <1>2, SequenceSetInduction
<1> QED
  BY <1>3 DEF T

\* Filtering by a set that holds all of the elements, or none of them.
LEMMA KeepAllOrNone ==
    ASSUME NEW A, NEW S, NEW s \in Seq(A)
    PROVE  /\ ToSet(s) \subseteq S => Keep(s, S) = s
           /\ ToSet(s) \cap S = {} => Keep(s, S) = <<>>
<1>1. \A t \in Seq(A) : Keep(t, A) = t
  <2> DEFINE T == {t \in Seq(A) : Keep(t, A) = t}
  <2>1. <<>> \in T
    BY KeepEmpty, EmptySeq
  <2>2. \A t \in Seq(A), e \in A : t \in T => Append(t, e) \in T
    BY KeepAppends, AppendProperties
  <2> HIDE DEF T
  <2>3. \A t \in Seq(A) : t \in T
    BY <2>1, <2>2, SequenceSetInduction
  <2> QED
    BY <2>3 DEF T
<1>2. ToSet(s) \subseteq A
  BY LenProperties DEF ToSet
<1>3. ToSet(s) \subseteq S => ToSet(s) \cap S = ToSet(s) \cap A
  BY <1>2
<1>4. ToSet(s) \subseteq S => Keep(s, S) = s
  BY <1>1, <1>3, KeepDependsOn
<1>5. ASSUME ToSet(s) \cap S = {}
      PROVE  Keep(s, S) = <<>>
  <2>1. Keep(s, S) \in Seq(A) /\ ToSet(Keep(s, S)) = {}
    BY <1>5, KeepElements
  <2> DEFINE k == Keep(s, S)
  <2> HIDE DEF k
  <2>2. k # <<>> => 1 \in DOMAIN k
    BY <2>1, EmptySeq, LenProperties DEF k
  <2>3. k = <<>>
    BY <2>1, <2>2 DEF ToSet, k
  <2> QED
    BY <2>3 DEF k
<1> QED
  BY <1>4, <1>5

\* The length of a sequence without duplicates.
LEMMA InjectiveLength ==
    ASSUME NEW A, NEW s \in Seq(A), IsInjective(s)
    PROVE  IsFiniteSet(ToSet(s)) /\ Cardinality(ToSet(s)) = Len(s)
<1>1. Len(s) \in Nat /\ DOMAIN s = 1..Len(s) /\ s \in [1..Len(s) -> A]
  BY LenProperties
<1>2. s \in [1..Len(s) -> ToSet(s)]
  BY <1>1 DEF ToSet
<1>3. \A x \in ToSet(s) : \E i \in 1..Len(s) : s[i] = x
  BY <1>1 DEF ToSet
<1>4. \A i, k \in 1..Len(s) : s[i] = s[k] => i = k
  BY <1>1 DEF IsInjective
<1>5. s \in Bijection(1..Len(s), ToSet(s))
  BY <1>1, <1>2, <1>3, <1>4 DEF IsInjective, Bijection, Injection, Surjection
<1> QED
  BY <1>1, <1>5, FS_CountingElements, FS_NatBijection DEF ExistsBijection

\* A filtered sequence has no duplicates where the sequence has none.
LEMMA KeepInjective ==
    ASSUME NEW A, NEW S
    PROVE  \A s \in Seq(A) : IsInjective(s) => IsInjective(Keep(s, S))
<1> DEFINE T == {s \in Seq(A) : IsInjective(s) => IsInjective(Keep(s, S))}
<1>1. <<>> \in T
  BY KeepEmpty, EmptySeq
<1>2. \A s \in Seq(A), e \in A : s \in T => Append(s, e) \in T
  <2> SUFFICES ASSUME NEW s \in Seq(A), NEW e \in A, s \in T, IsInjective(Append(s, e))
               PROVE  IsInjective(Keep(Append(s, e), S))
    BY AppendProperties
  <2>1. IsInjective(s) /\ e \notin ToSet(s)
    BY AppendInjectiveIff
  <2>2. Keep(s, S) \in Seq(A) /\ IsInjective(Keep(s, S)) /\ e \notin ToSet(Keep(s, S))
    BY <2>1, KeepElements
  <2>3. IsInjective(Append(Keep(s, S), e))
    BY <2>2, AppendInjectiveIff
  <2>4. Keep(Append(s, e), S) = IF e \in S THEN Append(Keep(s, S), e) ELSE Keep(s, S)
    BY KeepAppends
  <2> QED
    BY <2>2, <2>3, <2>4
<1> HIDE DEF T
<1>3. \A s \in Seq(A) : s \in T
  BY <1>1, <1>2, SequenceSetInduction
<1> QED
  BY <1>3 DEF T
===============================================================================
