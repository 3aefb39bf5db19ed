--------------------------- MODULE ScanQueueProofs ---------------------------
(***************************************************************************)
(* Proofs about ScanQueue, for every set of jobs and every limit.          *)
(***************************************************************************)
EXTENDS ScanQueue, SequenceLemmas, TLAPS, FiniteSetTheorems, SequenceTheorems

-----------------------------------------------------------------------------
(* Lemmas about the operators of the model. *)

\* Removing one element shifts those behind it.
LEMMA RemoveAtProperties ==
    ASSUME NEW S, NEW s \in Seq(S), NEW i \in 1..Len(s)
    PROVE  /\ RemoveAt(s, i) \in Seq(S)
           /\ Len(RemoveAt(s, i)) = Len(s) - 1
           /\ \A k \in 1..(Len(s) - 1) :
                 RemoveAt(s, i)[k] = IF k < i THEN s[k] ELSE s[k + 1]
<1> DEFINE a == SubSeq(s, 1, i - 1)
           b == SubSeq(s, i + 1, Len(s))
<1>0. Len(s) \in Nat /\ \A k \in 1..Len(s) : s[k] \in S
  BY LenProperties, ElementOfSeq
<1>1. /\ a \in Seq(S)
      /\ Len(a) = i - 1
      /\ \A k \in 1..(i - 1) : a[k] = s[k]
  <2>1. \A k \in 1..(i - 1) : s[k] \in S
    BY <1>0
  <2> QED
    BY <1>0, <2>1, SubSeqProperties, 1 \in Int, i - 1 \in Int
<1>2. /\ b \in Seq(S)
      /\ Len(b) = Len(s) - i
      /\ \A k \in 1..(Len(s) - i) : b[k] = s[k + i]
  <2>1. \A k \in (i + 1)..Len(s) : s[k] \in S
    BY <1>0
  <2> QED
    BY <1>0, <2>1, SubSeqProperties, i + 1 \in Int, Len(s) \in Int
<1> HIDE DEF a, b
<1>3. /\ a \o b \in Seq(S)
      /\ Len(a \o b) = Len(s) - 1
      /\ \A k \in 1..(Len(s) - 1) :
            (a \o b)[k] = IF k <= i - 1 THEN a[k] ELSE b[k - (i - 1)]
  <2>1. /\ a \o b \in Seq(S)
        /\ Len(a \o b) = Len(a) + Len(b)
        /\ \A k \in 1..(Len(a) + Len(b)) :
              (a \o b)[k] = IF k <= Len(a) THEN a[k] ELSE b[k - Len(a)]
    BY <1>1, <1>2, ConcatProperties
  <2>2. Len(a) + Len(b) = Len(s) - 1
    BY <1>0, <1>1, <1>2
  <2> QED
    BY <2>1, <2>2, <1>1
<1>4. RemoveAt(s, i) = a \o b
  BY DEF RemoveAt, a, b
<1> QED
  BY <1>0, <1>1, <1>2, <1>3, <1>4

\* With all slots but one taken, or one job waiting, drain starts one job at most.
LEMMA StartCountCases ==
    ASSUME NEW p \in Seq(Jobs), NEW a \in Int,
           a >= MaxConcurrent - 1 \/ Len(p) <= 1
    PROVE  /\ a >= MaxConcurrent \/ p = <<>> => StartCount(p, a) = 0
           /\ a < MaxConcurrent /\ p # <<>> => StartCount(p, a) = 1
<1>1. PICK n \in Nat : n = Len(p) /\ (p = <<>> <=> n = 0)
  BY LenProperties, EmptySeq
<1>2. MaxConcurrent \in Nat
  BY ConstantsAssumption
<1>3. StartCount(p, a) = IF a >= MaxConcurrent THEN 0
                         ELSE IF MaxConcurrent - a <= n THEN MaxConcurrent - a ELSE n
  BY <1>1 DEF StartCount
<1>4. a >= MaxConcurrent - 1 \/ n <= 1
  BY <1>1
<1> QED
  BY <1>1, <1>2, <1>3, <1>4

\* Where at most one job can start, the loop of drain either does nothing or
\* starts the first pending job.
LEMMA DrainCases ==
    ASSUME NEW p \in Seq(Jobs), NEW a \in Int, NEW st, NEW ph, NEW ab,
           a >= MaxConcurrent - 1 \/ Len(p) <= 1,
           Drain(p, a, st, ph, ab)
    PROVE  \/ /\ a >= MaxConcurrent \/ p = <<>>
              /\ pending' = p
              /\ active' = a
              /\ status' = [x \in Jobs |-> st[x]]
              /\ phase' = [x \in Jobs |-> ph[x]]
              /\ aborts' = ab
           \/ /\ a < MaxConcurrent
              /\ p # <<>>
              /\ pending' = Tail(p)
              /\ active' = a + 1
              /\ status' = [x \in Jobs |-> IF x = Head(p) THEN "running" ELSE st[x]]
              /\ phase' = [x \in Jobs |-> IF x = Head(p) THEN "revalidate" ELSE ph[x]]
              /\ aborts' = ab \cup {Head(p)}
<1> DEFINE k == StartCount(p, a)
           started == {p[i] : i \in 1..k}
<1> USE ConstantsAssumption
<1>0. Len(p) \in Nat /\ (p = <<>> <=> Len(p) = 0)
  BY LenProperties, EmptySeq
<1>1. /\ pending' = SubSeq(p, k + 1, Len(p))
      /\ active' = a + k
      /\ status' = [x \in Jobs |-> IF x \in started THEN "running" ELSE st[x]]
      /\ phase' = [x \in Jobs |-> IF x \in started THEN "revalidate" ELSE ph[x]]
      /\ aborts' = ab \cup started
  BY DEF Drain
<1>2. CASE a >= MaxConcurrent \/ p = <<>>
  <2>1. k = 0
    BY <1>2, StartCountCases
  <2>2. started = {}
    BY <2>1
  <2>3. SubSeq(p, k + 1, Len(p)) = p
    BY <2>1, SubSeqFull
  <2> HIDE DEF k, started
  <2>4. /\ status' = [x \in Jobs |-> st[x]]
        /\ phase' = [x \in Jobs |-> ph[x]]
        /\ aborts' = ab
    BY <1>1, <2>2
  <2>5. pending' = p /\ active' = a
    BY <1>1, <2>1, <2>3
  <2> QED
    BY <1>2, <2>4, <2>5
<1>3. CASE a < MaxConcurrent /\ p # <<>>
  <2>1. k = 1
    BY <1>3, StartCountCases
  <2>2. started = {Head(p)}
    BY <2>1, <1>0, <1>3
  <2>3. SubSeq(p, k + 1, Len(p)) = Tail(p)
    BY <2>1, <1>3, TailIsSubSeq
  <2> HIDE DEF k, started
  <2>4. /\ status' = [x \in Jobs |-> IF x = Head(p) THEN "running" ELSE st[x]]
        /\ phase' = [x \in Jobs |-> IF x = Head(p) THEN "revalidate" ELSE ph[x]]
        /\ aborts' = ab \cup {Head(p)}
    BY <1>1, <2>2
  <2>5. pending' = Tail(p) /\ active' = a + 1
    BY <1>1, <2>1, <2>3
  <2> QED
    BY <1>3, <2>4, <2>5
<1> QED
  BY <1>2, <1>3

\* Serving the first of a queue without duplicates.
LEMMA HeadLeaves ==
    ASSUME NEW S, NEW s \in Seq(S), s # <<>>, IsInjective(s)
    PROVE  /\ Head(s) \in S /\ Head(s) \in ToSet(s)
           /\ Tail(s) \in Seq(S)
           /\ Len(Tail(s)) = Len(s) - 1
           /\ IsInjective(Tail(s))
           /\ ToSet(Tail(s)) = ToSet(s) \ {Head(s)}
<1>1. PICK n \in Nat : n = Len(s) /\ n # 0
  BY LenProperties, EmptySeq
<1>2. DOMAIN s = 1..n /\ Head(s) = s[1] /\ Head(s) \in S
  BY <1>1, LenProperties, HeadTailProperties
<1>3. /\ Tail(s) \in Seq(S)
      /\ Len(Tail(s)) = n - 1
      /\ \A i \in 1..(n - 1) : Tail(s)[i] = s[i + 1]
  BY <1>1, HeadTailProperties
<1>4. DOMAIN Tail(s) = 1..(n - 1)
  BY <1>3, LenProperties
<1>5. \A a, b \in 1..n : s[a] = s[b] => a = b
  BY <1>2 DEF IsInjective
<1>6. IsInjective(Tail(s))
  <2> SUFFICES ASSUME NEW a \in 1..(n - 1), NEW b \in 1..(n - 1), Tail(s)[a] = Tail(s)[b]
               PROVE  a = b
    BY <1>4 DEF IsInjective
  <2>1. s[a + 1] = s[b + 1] /\ a + 1 \in 1..n /\ b + 1 \in 1..n
    BY <1>1, <1>3
  <2> QED
    BY <2>1, <1>5
<1>7. ToSet(Tail(s)) = {s[k] : k \in 2..n}
  <2>1. \A i \in 1..(n - 1) : Tail(s)[i] = s[i + 1] /\ i + 1 \in 2..n
    BY <1>1, <1>3
  <2>2. \A k \in 2..n : k - 1 \in 1..(n - 1) /\ Tail(s)[k - 1] = s[k]
    BY <1>1, <1>3
  <2> DEFINE t == Tail(s)
  <2>3. DOMAIN t = 1..(n - 1)
    BY <1>4
  <2>4. /\ \A i \in 1..(n - 1) : t[i] = s[i + 1] /\ i + 1 \in 2..n
        /\ \A k \in 2..n : k - 1 \in 1..(n - 1) /\ t[k - 1] = s[k]
    BY <2>1, <2>2
  <2> HIDE DEF t
  <2>5. ToSet(t) = {t[k] : k \in 1..(n - 1)}
    BY <2>3 DEF ToSet
  <2>6. \A k \in 1..(n - 1) : t[k] \in {s[m] : m \in 2..n}
    BY <2>4
  <2>7. \A m \in 2..n : s[m] \in {t[k] : k \in 1..(n - 1)}
    BY <2>4
  <2>8. {t[k] : k \in 1..(n - 1)} = {s[k] : k \in 2..n}
    BY <2>6, <2>7
  <2> QED
    BY <2>5, <2>8 DEF t
<1>8. ToSet(s) = {s[k] : k \in 1..n}
  BY <1>2 DEF ToSet
<1>9. {s[k] : k \in 2..n} = {s[k] : k \in 1..n} \ {s[1]}
  <2> DEFINE A == {s[k] : k \in 2..n}
             B == {s[k] : k \in 1..n}
  <2>1. \A k \in 2..n : k \in 1..n /\ s[k] # s[1]
    BY <1>1, <1>5
  <2>2. \A k \in 1..n : s[k] # s[1] => k \in 2..n
    BY <1>1
  <2>3. A \subseteq B \ {s[1]}
    BY <2>1
  <2>4. B \ {s[1]} \subseteq A
    BY <2>2
  <2> HIDE DEF A, B
  <2>5. A = B \ {s[1]}
    BY <2>3, <2>4
  <2> QED
    BY <2>5 DEF A, B
<1>10. Head(s) \in ToSet(s)
  BY <1>1, <1>2, <1>8
<1> QED
  BY <1>1, <1>2, <1>3, <1>6, <1>7, <1>8, <1>9, <1>10

\* Taking the element at i out of a queue without duplicates.
LEMMA OneLeaves ==
    ASSUME NEW S, NEW s \in Seq(S), NEW i \in 1..Len(s), IsInjective(s)
    PROVE  /\ RemoveAt(s, i) \in Seq(S)
           /\ Len(RemoveAt(s, i)) = Len(s) - 1
           /\ IsInjective(RemoveAt(s, i))
           /\ ToSet(RemoveAt(s, i)) = ToSet(s) \ {s[i]}
<1> DEFINE r == RemoveAt(s, i)
<1>1. PICK n \in Nat : n = Len(s)
  BY LenProperties
<1>2. /\ r \in Seq(S)
      /\ Len(r) = n - 1
      /\ \A k \in 1..(n - 1) : r[k] = IF k < i THEN s[k] ELSE s[k + 1]
  BY <1>1, RemoveAtProperties
<1> HIDE DEF r
<1>3. DOMAIN s = 1..n /\ DOMAIN r = 1..(n - 1) /\ i \in 1..n
  BY <1>1, <1>2, LenProperties
<1>4. \A a, b \in 1..n : s[a] = s[b] => a = b
  BY <1>3 DEF IsInjective
<1>5. IsInjective(r)
  <2> SUFFICES ASSUME NEW a \in 1..(n - 1), NEW b \in 1..(n - 1), r[a] = r[b]
               PROVE  a = b
    BY <1>3 DEF IsInjective
  <2> DEFINE f(k) == IF k < i THEN k ELSE k + 1
  <2>1. r[a] = s[f(a)] /\ r[b] = s[f(b)]
    BY <1>2
  <2>2. f(a) \in 1..n /\ f(b) \in 1..n
    BY <1>1, <1>3
  <2>3. f(a) = f(b)
    <3> HIDE DEF f
    <3> QED
      BY <2>1, <2>2, <1>4
  <2> QED
    BY <2>3, <1>3
<1>6. ToSet(r) = {s[k] : k \in (1..n) \ {i}}
  <2>1. \A k \in 1..(n - 1) : \E m \in (1..n) \ {i} : r[k] = s[m]
    <3> SUFFICES ASSUME NEW k \in 1..(n - 1)
                 PROVE  \E m \in (1..n) \ {i} : r[k] = s[m]
      OBVIOUS
    <3>1. CASE k < i
      BY <1>2, <1>3, <3>1
    <3>2. CASE ~(k < i)
      <4>1. k + 1 \in (1..n) \ {i} /\ r[k] = s[k + 1]
        BY <1>2, <1>3, <3>2
      <4> QED
        BY <4>1
    <3> QED
      BY <3>1, <3>2
  <2>2. \A m \in (1..n) \ {i} : \E k \in 1..(n - 1) : r[k] = s[m]
    <3> SUFFICES ASSUME NEW m \in (1..n) \ {i}
                 PROVE  \E k \in 1..(n - 1) : r[k] = s[m]
      OBVIOUS
    <3>1. CASE m < i
      BY <1>2, <1>3, <3>1
    <3>2. CASE m > i
      <4>1. m - 1 \in 1..(n - 1) /\ r[m - 1] = s[m]
        BY <1>2, <1>3, <3>2
      <4> QED
        BY <4>1
    <3> QED
      BY <3>1, <3>2, <1>3
  <2> QED
    BY <1>3, <2>1, <2>2 DEF ToSet
<1>7. ToSet(s) = {s[k] : k \in 1..n}
  BY <1>3 DEF ToSet
<1>8. {s[k] : k \in (1..n) \ {i}} = {s[k] : k \in 1..n} \ {s[i]}
  BY <1>3, <1>4
<1> QED
  BY <1>1, <1>2, <1>5, <1>6, <1>7, <1>8 DEF r

\* A newcomer at the end of a queue without duplicates.
LEMMA OneArrives ==
    ASSUME NEW S, NEW s \in Seq(S), IsInjective(s), NEW e \in S, e \notin ToSet(s)
    PROVE  /\ Append(s, e) \in Seq(S)
           /\ Len(Append(s, e)) = Len(s) + 1
           /\ IsInjective(Append(s, e))
           /\ ToSet(Append(s, e)) = ToSet(s) \cup {e}
<1> DEFINE r == Append(s, e)
<1>1. PICK n \in Nat : n = Len(s)
  BY LenProperties
<1>2. /\ r \in Seq(S)
      /\ Len(r) = n + 1
      /\ \A k \in 1..n : r[k] = s[k]
      /\ r[n + 1] = e
  BY <1>1, AppendProperties
<1> HIDE DEF r
<1>3. DOMAIN s = 1..n /\ DOMAIN r = 1..(n + 1)
  BY <1>1, <1>2, LenProperties
<1>4. \A k \in 1..n : s[k] # e
  BY <1>3 DEF ToSet
<1>5. IsInjective(r)
  <2> SUFFICES ASSUME NEW a \in 1..(n + 1), NEW b \in 1..(n + 1), r[a] = r[b]
               PROVE  a = b
    BY <1>3 DEF IsInjective
  <2>1. CASE a \in 1..n /\ b \in 1..n
    BY <2>1, <1>2, <1>3 DEF IsInjective
  <2>2. (a \in 1..n \/ a = n + 1) /\ (b \in 1..n \/ b = n + 1)
    BY <1>1
  <2> QED
    BY <2>1, <2>2, <1>2, <1>4
<1>6. ToSet(r) = ToSet(s) \cup {e}
  <2>1. \A k \in 1..(n + 1) : k \in 1..n \/ k = n + 1
    BY <1>1
  <2>2. n + 1 \in 1..(n + 1) /\ \A k \in 1..n : k \in 1..(n + 1)
    BY <1>1
  <2> QED
    BY <2>1, <2>2, <1>2, <1>3 DEF ToSet
<1> QED
  BY <1>1, <1>2, <1>5, <1>6 DEF r

-----------------------------------------------------------------------------
(* The invariant. *)

\* The invariant but for work conservation, of the values that the fields hold
\* when drain is called: what is true between the edits of an operation and
\* the drain that ends it.
FlyingIn(ph) == {j \in Jobs : ph[j] \in ProcessPhases}

Consistent(reg, p, a, can, st, ph, val, ab, abd, fin) ==
    /\ reg \in SUBSET Jobs
    /\ p \in Seq(Jobs)
    /\ a \in Int
    /\ can \in SUBSET Jobs
    /\ st \in [Jobs -> Status]
    /\ ph \in [Jobs -> Phase]
    /\ val \in SUBSET Jobs
    /\ abd \in SUBSET Jobs
    /\ fin \in [Jobs -> Nat]
    /\ \A j \in Jobs :
          /\ ph[j] \in {"new", "resolving", "refused"} => st[j] = "none"
          /\ ph[j] = "queued" => st[j] = "queued"
          /\ ph[j] \in ProcessPhases => st[j] \in {"running", "cancelled"}
          /\ ph[j] = "settled" => st[j] \in Finished
          /\ j \in can => ph[j] = "settled"
    /\ a = Cardinality(FlyingIn(ph))
    /\ a <= MaxConcurrent
    /\ a + Len(p) <= MaxConcurrent + MaxQueue
    /\ IsInjective(p)
    /\ ToSet(p) = {j \in Jobs : ph[j] = "queued"}
    /\ \A j \in ToSet(p) : j \in reg /\ j \notin can
    /\ \A j \in Jobs : fin[j] = IF ph[j] = "settled" THEN 1 ELSE 0
    /\ ab = FlyingIn(ph)
    /\ \A j \in FlyingIn(ph) : st[j] = "cancelled" => j \in abd
    /\ \A j \in Jobs : ph[j] = "queued" \/ ph[j] \in ProcessPhases => j \in val

Fields == Consistent(registry, pending, active, cancelled, status, phase,
                     validatedTargets, aborts, aborted, finishes)

Rest ==
    /\ WorkConserving
    /\ notifications \in SUBSET Jobs
    /\ mode \in {"up", "stopping", "drained", "abandoned", "exited"}
    /\ accepted \in Seq(Jobs)

\* There are finitely many scans in progress.
LEMMA FlyingFinite ==
    ASSUME NEW ph
    PROVE  IsFiniteSet(FlyingIn(ph))
<1>1. FlyingIn(ph) \in SUBSET Jobs
  BY DEF FlyingIn
<1> QED
  BY <1>1, ConstantsAssumption, FS_Subset

\* The invariant, taken apart into the fields that drain handles and the rest.
LEMMA InvariantIsConsistent == QueueInvariant <=> Fields /\ Rest
<1>1. InFlight = FlyingIn(phase) /\ InFlight \subseteq Jobs /\ Cardinality(InFlight) \in Nat
  <2>1. InFlight = FlyingIn(phase) /\ InFlight \subseteq Jobs
    BY DEF InFlight, FlyingIn
  <2> QED
    BY <2>1, FlyingFinite, FS_CardinalityType
<1>2. PriorResolutionKept <=>
        \A j \in Jobs : phase[j] = "queued" \/ phase[j] \in ProcessPhases => j \in validatedTargets
  BY DEF PriorResolutionKept, Unfinished, InFlight
<1>3. (/\ IsInjective(pending)
       /\ ToSet(pending) = {j \in Jobs : phase[j] = "queued"}
       /\ StatusFitsPhase)
      => (PendingIsLive <=> \A j \in ToSet(pending) : j \in registry /\ j \notin cancelled)
  BY DEF PendingIsLive, StatusFitsPhase
<1> QED
  BY <1>1, <1>2, <1>3
  DEF Fields, Rest, QueueInvariant, Consistent, TypeOK, StatusFitsPhase, ActiveIsInFlight, WithinLimits,
      PendingIsLive, ReportedOnce, CancelReachesTools

\* drain keeps consistent fields consistent and leaves nobody waiting beside a
\* free slot, provided it has at most one job to start.
LEMMA DrainPreserves ==
    ASSUME NEW reg, NEW p, NEW a, NEW can, NEW st, NEW ph, NEW val, NEW ab, NEW abd, NEW fin,
           Consistent(reg, p, a, can, st, ph, val, ab, abd, fin),
           a >= MaxConcurrent - 1 \/ Len(p) <= 1,
           Drain(p, a, st, ph, ab)
    PROVE  /\ Consistent(reg, pending', active', can, status', phase', val, aborts', abd, fin)
           /\ WorkConserving'
<1>0. /\ p \in Seq(Jobs) /\ a \in Int /\ a <= MaxConcurrent
      /\ st \in [Jobs -> Status] /\ ph \in [Jobs -> Phase]
      /\ MaxConcurrent \in Nat /\ MaxQueue \in Nat
  BY ConstantsAssumption DEF Consistent
<1>1. CASE /\ a >= MaxConcurrent \/ p = <<>>
           /\ pending' = p
           /\ active' = a
           /\ status' = [x \in Jobs |-> st[x]]
           /\ phase' = [x \in Jobs |-> ph[x]]
           /\ aborts' = ab
  <2>1. status' = st /\ phase' = ph
    BY <1>0, <1>1
  <2>2. WorkConserving'
    BY <1>0, <1>1 DEF WorkConserving
  <2> QED
    BY <1>1, <2>1, <2>2
<1>2. CASE /\ a < MaxConcurrent
           /\ p # <<>>
           /\ pending' = Tail(p)
           /\ active' = a + 1
           /\ status' = [x \in Jobs |-> IF x = Head(p) THEN "running" ELSE st[x]]
           /\ phase' = [x \in Jobs |-> IF x = Head(p) THEN "revalidate" ELSE ph[x]]
           /\ aborts' = ab \cup {Head(p)}
  <2> DEFINE h == Head(p)
  <2>1. /\ h \in Jobs /\ h \in ToSet(p)
        /\ pending' \in Seq(Jobs)
        /\ Len(pending') = Len(p) - 1
        /\ IsInjective(pending')
        /\ ToSet(pending') = ToSet(p) \ {h}
    BY <1>0, <1>2, HeadLeaves DEF Consistent
  <2>2. ph[h] = "queued" /\ st[h] = "queued" /\ h \in val
    BY <2>1 DEF Consistent
  <2> HIDE DEF h
  <2>3. /\ status' = [x \in Jobs |-> IF x = h THEN "running" ELSE st[x]]
        /\ phase' = [x \in Jobs |-> IF x = h THEN "revalidate" ELSE ph[x]]
        /\ aborts' = ab \cup {h}
    BY <1>2 DEF h
  <2>4. status' \in [Jobs -> Status] /\ phase' \in [Jobs -> Phase]
    BY <1>0, <2>3 DEF Status, Phase, ProcessPhases
  <2>5. FlyingIn(phase') = FlyingIn(ph) \cup {h} /\ h \notin FlyingIn(ph)
    BY <1>0, <2>1, <2>2, <2>3 DEF FlyingIn, ProcessPhases
  <2>6. Cardinality(FlyingIn(phase')) = Cardinality(FlyingIn(ph)) + 1
    BY <2>5, FlyingFinite, FS_AddElement
  <2>7. active' = Cardinality(FlyingIn(phase')) /\ active' \in Int /\ active' <= MaxConcurrent
    BY <1>0, <1>2, <2>6 DEF Consistent
  <2>8. active' + Len(pending') <= MaxConcurrent + MaxQueue
    <3>1. PICK n \in Nat : n = Len(p)
      BY <1>0, LenProperties
    <3>2. a + n <= MaxConcurrent + MaxQueue
      BY <3>1 DEF Consistent
    <3>3. active' = a + 1 /\ Len(pending') = n - 1
      BY <1>2, <2>1, <3>1
    <3> QED
      BY <1>0, <3>2, <3>3
  <2>9. ToSet(pending') = {j \in Jobs : phase'[j] = "queued"}
    <3>1. ToSet(p) = {j \in Jobs : ph[j] = "queued"}
      BY DEF Consistent
    <3> QED
      BY <2>1, <2>3, <3>1
  <2>10. \A j \in ToSet(pending') : j \in reg /\ j \notin can
    BY <2>1 DEF Consistent
  <2>11. \A j \in Jobs :
          /\ phase'[j] \in {"new", "resolving", "refused"} => status'[j] = "none"
          /\ phase'[j] = "queued" => status'[j] = "queued"
          /\ phase'[j] \in ProcessPhases => status'[j] \in {"running", "cancelled"}
          /\ phase'[j] = "settled" => status'[j] \in Finished
          /\ j \in can => phase'[j] = "settled"
    BY <2>2, <2>3 DEF Consistent
  <2>12. \A j \in Jobs : fin[j] = IF phase'[j] = "settled" THEN 1 ELSE 0
    BY <2>2, <2>3 DEF Consistent
  <2>13. aborts' = FlyingIn(phase')
    BY <2>3, <2>5 DEF Consistent
  <2>14. \A j \in FlyingIn(phase') : status'[j] = "cancelled" => j \in abd
    BY <2>1, <2>3, <2>5 DEF Consistent, FlyingIn
  <2>15. \A j \in Jobs : phase'[j] = "queued" \/ phase'[j] \in ProcessPhases => j \in val
    BY <2>2, <2>3 DEF Consistent
  <2>16. WorkConserving'
    <3>1. PICK n \in Nat : n = Len(p) /\ (Tail(p) # <<>> => n > 1)
      <4>1. PICK n \in Nat : n = Len(p)
        BY <1>0, LenProperties
      <4>2. Tail(p) # <<>> => n > 1
        BY <4>1, <1>0, <1>2, <2>1, EmptySeq
      <4> QED
        BY <4>1, <4>2
    <3>2. a >= MaxConcurrent - 1 \/ n <= 1
      BY <3>1
    <3> QED
      BY <1>0, <1>2, <3>1, <3>2 DEF WorkConserving
  <2>17. /\ reg \in SUBSET Jobs /\ can \in SUBSET Jobs /\ val \in SUBSET Jobs
         /\ abd \in SUBSET Jobs /\ fin \in [Jobs -> Nat]
    BY DEF Consistent
  <2> QED
    BY <2>1, <2>4, <2>7, <2>8, <2>9, <2>10, <2>11, <2>12, <2>13, <2>14, <2>15, <2>16, <2>17
    DEF Consistent
<1> QED
  BY <1>0, <1>1, <1>2, DrainCases

-----------------------------------------------------------------------------
(* The steps. *)

\* What the invariant says of pending and active, in the form that the
\* operations which drain need it.
LEMMA SlotsTaken ==
    ASSUME QueueInvariant
    PROVE  /\ active \in Int /\ active <= MaxConcurrent
           /\ pending \in Seq(Jobs)
           /\ Len(pending) \in Nat
           /\ MaxConcurrent \in Nat /\ MaxQueue \in Nat
           /\ pending = <<>> => Len(pending) = 0
           /\ pending # <<>> => active = MaxConcurrent
<1>1. pending \in Seq(Jobs) /\ (pending # <<>> => active = MaxConcurrent)
  BY DEF QueueInvariant, TypeOK, WorkConserving
<1>2. Len(pending) \in Nat /\ (pending = <<>> <=> Len(pending) = 0)
  BY <1>1, LenProperties, EmptySeq
<1> QED
  BY <1>1, <1>2, ConstantsAssumption DEF QueueInvariant, TypeOK, WithinLimits

\* queue.add, with the drain that ends it.
LEMMA AcceptJobPreserves ==
    ASSUME QueueInvariant, NEW j \in Jobs, AcceptJob(j)
    PROVE  QueueInvariant'
<1> DEFINE p   == Append(pending, j)
           st  == [status EXCEPT ![j] = "queued"]
           ph  == [phase EXCEPT ![j] = "queued"]
           reg == registry \cup {j}
           val == validatedTargets \cup {j}
<1>1. Consistent(registry, pending, active, cancelled, status, phase,
                 validatedTargets, aborts, aborted, finishes)
  BY InvariantIsConsistent DEF Fields
<1>2. /\ status \in [Jobs -> Status] /\ phase \in [Jobs -> Phase]
      /\ phase[j] = "resolving"
      /\ j \notin ToSet(pending)
      /\ IsInjective(pending)
  BY <1>1 DEF Consistent, AcceptJob
<1>3. /\ p \in Seq(Jobs) /\ Len(p) = Len(pending) + 1
      /\ IsInjective(p) /\ ToSet(p) = ToSet(pending) \cup {j}
  BY <1>2, SlotsTaken, OneArrives
<1>4. /\ Drain(p, active, st, ph, aborts)
      /\ registry' = reg /\ validatedTargets' = val
      /\ active + Len(pending) < MaxConcurrent + MaxQueue
      /\ accepted' = Append(accepted, j)
      /\ UNCHANGED <<cancelled, aborted, notifications, mode, finishes>>
  BY DEF AcceptJob, HasRoom
<1> HIDE DEF p
<1>5. Consistent(reg, p, active, cancelled, st, ph, val, aborts, aborted, finishes)
  <2>1. FlyingIn(ph) = FlyingIn(phase)
    BY <1>2 DEF FlyingIn, ProcessPhases
  <2>2. st \in [Jobs -> Status] /\ ph \in [Jobs -> Phase]
    BY <1>2 DEF Status, Phase
  <2>3. active + Len(p) <= MaxConcurrent + MaxQueue
    BY <1>3, <1>4, SlotsTaken
  <2>4. ToSet(p) = {x \in Jobs : ph[x] = "queued"}
    BY <1>1, <1>2, <1>3 DEF Consistent
  <2>5. \A x \in Jobs :
          /\ ph[x] \in {"new", "resolving", "refused"} => st[x] = "none"
          /\ ph[x] = "queued" => st[x] = "queued"
          /\ ph[x] \in ProcessPhases => st[x] \in {"running", "cancelled"}
          /\ ph[x] = "settled" => st[x] \in Finished
          /\ x \in cancelled => ph[x] = "settled"
    BY <1>1, <1>2 DEF Consistent, ProcessPhases
  <2>6. \A x \in ToSet(p) : x \in reg /\ x \notin cancelled
    BY <1>1, <1>2, <1>3 DEF Consistent
  <2>7. \A x \in Jobs : finishes[x] = IF ph[x] = "settled" THEN 1 ELSE 0
    BY <1>1, <1>2 DEF Consistent
  <2>8. \A x \in FlyingIn(ph) : st[x] = "cancelled" => x \in aborted
    BY <1>1, <1>2, <2>1 DEF Consistent, FlyingIn
  <2>9. \A x \in Jobs : ph[x] = "queued" \/ ph[x] \in ProcessPhases => x \in val
    BY <1>1, <1>2 DEF Consistent
  <2>10. reg \in SUBSET Jobs /\ val \in SUBSET Jobs
    BY <1>1 DEF Consistent
  <2> HIDE DEF st, ph, reg, val
  <2> QED
    BY <1>1, <1>3, <2>1, <2>2, <2>3, <2>4, <2>5, <2>6, <2>7, <2>8, <2>9, <2>10 DEF Consistent
<1>6. active >= MaxConcurrent - 1 \/ Len(p) <= 1
  BY <1>3, SlotsTaken
<1> HIDE DEF st, ph, reg, val
<1>7. /\ Consistent(reg, pending', active', cancelled, status', phase', val, aborts', aborted, finishes)
      /\ WorkConserving'
  BY <1>4, <1>5, <1>6, DrainPreserves
<1>8. accepted' \in Seq(Jobs)
  BY <1>4, AppendProperties DEF QueueInvariant, TypeOK
<1>9. Fields' /\ Rest'
  BY <1>4, <1>7, <1>8 DEF Fields, Rest, QueueInvariant, TypeOK
<1> QED
  BY <1>9, InvariantIsConsistent, PTL

\* The cancellation of a waiting job, with the drain that ends it.
LEMMA CancelQueuedPreserves ==
    ASSUME QueueInvariant, NEW j \in Jobs, CancelQueued(j)
    PROVE  QueueInvariant'
<1> DEFINE st  == [status EXCEPT ![j] = "cancelled"]
           ph  == [phase EXCEPT ![j] = "settled"]
           can == cancelled \cup {j}
           val == validatedTargets \ {j}
           fin == [x \in Jobs |-> IF x \in {j} THEN finishes[x] + 1 ELSE finishes[x]]
<1>1. Consistent(registry, pending, active, cancelled, status, phase,
                 validatedTargets, aborts, aborted, finishes)
  BY InvariantIsConsistent DEF Fields
<1>2. PICK i \in 1..Len(pending) :
         /\ pending[i] = j
         /\ Drain(RemoveAt(pending, i), active, st, ph, aborts)
  BY DEF CancelQueued
<1> DEFINE p == RemoveAt(pending, i)
<1> HIDE DEF st, ph
<1>3. /\ p \in Seq(Jobs) /\ Len(p) = Len(pending) - 1
      /\ IsInjective(p) /\ ToSet(p) = ToSet(pending) \ {j}
  <2>1. pending \in Seq(Jobs) /\ IsInjective(pending)
    BY <1>1 DEF Consistent
  <2>2. /\ p \in Seq(Jobs) /\ Len(p) = Len(pending) - 1
        /\ IsInjective(p) /\ ToSet(p) = ToSet(pending) \ {pending[i]}
    <3> HIDE <1>1, <1>2
    <3> QED
      BY <2>1, OneLeaves
  <2> QED
    BY <2>2, <1>2
<1> USE DEF st, ph
<1>4. j \in ToSet(pending)
  <2>1. DOMAIN pending = 1..Len(pending)
    BY SlotsTaken, LenProperties
  <2> QED
    BY <1>2, <2>1 DEF ToSet
<1>5. /\ status \in [Jobs -> Status] /\ phase \in [Jobs -> Phase] /\ finishes \in [Jobs -> Nat]
      /\ phase[j] = "queued"
  BY <1>1, <1>4 DEF Consistent
<1>6. /\ cancelled' = can /\ validatedTargets' = val /\ finishes' = fin
      /\ notifications' = notifications \cup {j}
      /\ UNCHANGED <<registry, aborted, mode, accepted>>
  BY DEF CancelQueued, OnFinish
<1> HIDE DEF p
<1>7. Consistent(registry, p, active, can, st, ph, val, aborts, aborted, fin)
  <2>1. FlyingIn(ph) = FlyingIn(phase) /\ j \notin FlyingIn(phase)
    BY <1>5 DEF FlyingIn, ProcessPhases
  <2>2. st \in [Jobs -> Status] /\ ph \in [Jobs -> Phase] /\ fin \in [Jobs -> Nat]
    BY <1>5 DEF Status, Phase
  <2>3. active + Len(p) <= MaxConcurrent + MaxQueue
    BY <1>1, <1>3, SlotsTaken DEF Consistent
  <2>4. ToSet(p) = {x \in Jobs : ph[x] = "queued"}
    BY <1>1, <1>3, <1>5 DEF Consistent
  <2>5. \A x \in Jobs :
          /\ ph[x] \in {"new", "resolving", "refused"} => st[x] = "none"
          /\ ph[x] = "queued" => st[x] = "queued"
          /\ ph[x] \in ProcessPhases => st[x] \in {"running", "cancelled"}
          /\ ph[x] = "settled" => st[x] \in Finished
          /\ x \in can => ph[x] = "settled"
    BY <1>1, <1>5 DEF Consistent, ProcessPhases, Finished
  <2>6. \A x \in ToSet(p) : x \in registry /\ x \notin can
    BY <1>1, <1>3 DEF Consistent
  <2>7. \A x \in Jobs : fin[x] = IF ph[x] = "settled" THEN 1 ELSE 0
    BY <1>1, <1>5 DEF Consistent
  <2>8. \A x \in FlyingIn(ph) : st[x] = "cancelled" => x \in aborted
    BY <1>1, <1>5, <2>1 DEF Consistent, FlyingIn
  <2>9. \A x \in Jobs : ph[x] = "queued" \/ ph[x] \in ProcessPhases => x \in val
    BY <1>1, <1>5 DEF Consistent, ProcessPhases
  <2>10. can \in SUBSET Jobs /\ val \in SUBSET Jobs
    BY <1>1 DEF Consistent
  <2> HIDE DEF st, ph, can, val, fin
  <2> QED
    BY <1>1, <1>3, <2>1, <2>2, <2>3, <2>4, <2>5, <2>6, <2>7, <2>8, <2>9, <2>10 DEF Consistent
<1>8. active >= MaxConcurrent - 1 \/ Len(p) <= 1
  <2>1. pending # <<>>
    BY <1>2, SlotsTaken
  <2> QED
    BY <2>1, SlotsTaken
<1> HIDE DEF st, ph, can, val, fin
<1>9. Drain(p, active, st, ph, aborts)
  BY <1>2 DEF p
<1>10. /\ Consistent(registry, pending', active', can, status', phase', val, aborts', aborted, fin)
       /\ WorkConserving'
  BY <1>7, <1>8, <1>9, DrainPreserves
<1>11. Fields' /\ Rest'
  BY <1>6, <1>10 DEF Fields, Rest, QueueInvariant, TypeOK
<1> QED
  BY <1>11, InvariantIsConsistent, PTL

\* Whatever way the processing of a job ends.
LEMMA SettlePreserves ==
    ASSUME QueueInvariant, NEW j \in Jobs, phase[j] \in ProcessPhases,
           NEW s \in Finished, Settle(j, s)
    PROVE  QueueInvariant'
<1> DEFINE st  == [status EXCEPT ![j] = s]
           ph  == [phase EXCEPT ![j] = "settled"]
           a   == active - 1
           can == cancelled \ {j}
           ab  == aborts \ {j}
           abd == aborted \ {j}
           val == validatedTargets \ {j}
           fin == [x \in Jobs |-> IF x \in {j} THEN finishes[x] + 1 ELSE finishes[x]]
<1>1. Consistent(registry, pending, active, cancelled, status, phase,
                 validatedTargets, aborts, aborted, finishes)
  BY InvariantIsConsistent DEF Fields
<1>2. /\ status \in [Jobs -> Status] /\ phase \in [Jobs -> Phase] /\ finishes \in [Jobs -> Nat]
      /\ pending \in Seq(Jobs)
  BY <1>1 DEF Consistent
<1>3. s # "running"
  BY DEF Finished
<1>4. /\ Drain(pending, a, st, ph, ab)
      /\ cancelled' = can /\ aborted' = abd /\ validatedTargets' = val /\ finishes' = fin
      /\ notifications' = notifications \cup {j}
      /\ UNCHANGED <<registry, mode, accepted>>
  BY <1>3 DEF Settle, OnFinish
<1>5. Consistent(registry, pending, a, can, st, ph, val, ab, abd, fin)
  <2>1. FlyingIn(ph) = FlyingIn(phase) \ {j} /\ j \in FlyingIn(phase)
    BY <1>2 DEF FlyingIn, ProcessPhases
  <2>2. Cardinality(FlyingIn(ph)) = Cardinality(FlyingIn(phase)) - 1
    BY <2>1, FlyingFinite, FS_RemoveElement
  <2>3. a \in Int /\ a = Cardinality(FlyingIn(ph)) /\ a <= MaxConcurrent
    BY <1>1, <2>2, SlotsTaken DEF Consistent
  <2>4. a + Len(pending) <= MaxConcurrent + MaxQueue
    BY <1>1, SlotsTaken DEF Consistent
  <2>5. st \in [Jobs -> Status] /\ ph \in [Jobs -> Phase] /\ fin \in [Jobs -> Nat]
    BY <1>2 DEF Status, Phase, Finished
  <2>6. ToSet(pending) = {x \in Jobs : ph[x] = "queued"}
    BY <1>1, <1>2 DEF Consistent, ProcessPhases
  <2>7. \A x \in Jobs :
          /\ ph[x] \in {"new", "resolving", "refused"} => st[x] = "none"
          /\ ph[x] = "queued" => st[x] = "queued"
          /\ ph[x] \in ProcessPhases => st[x] \in {"running", "cancelled"}
          /\ ph[x] = "settled" => st[x] \in Finished
          /\ x \in can => ph[x] = "settled"
    BY <1>1, <1>2 DEF Consistent, ProcessPhases
  <2>8. \A x \in ToSet(pending) : x \in registry /\ x \notin can
    BY <1>1 DEF Consistent
  <2>9. \A x \in Jobs : fin[x] = IF ph[x] = "settled" THEN 1 ELSE 0
    BY <1>1, <1>2 DEF Consistent, ProcessPhases
  <2>10. ab = FlyingIn(ph)
    BY <1>1, <2>1 DEF Consistent
  <2>11. \A x \in FlyingIn(ph) : st[x] = "cancelled" => x \in abd
    BY <1>1, <1>2, <2>1 DEF Consistent, FlyingIn
  <2>12. \A x \in Jobs : ph[x] = "queued" \/ ph[x] \in ProcessPhases => x \in val
    BY <1>1, <1>2 DEF Consistent, ProcessPhases
  <2>13. can \in SUBSET Jobs /\ val \in SUBSET Jobs /\ abd \in SUBSET Jobs
    BY <1>1 DEF Consistent
  <2> HIDE DEF st, ph, a, can, ab, abd, val, fin
  <2> QED
    BY <1>1, <2>3, <2>4, <2>5, <2>6, <2>7, <2>8, <2>9, <2>10, <2>11, <2>12, <2>13
    DEF Consistent
<1>6. a >= MaxConcurrent - 1 \/ Len(pending) <= 1
  BY SlotsTaken
<1> HIDE DEF st, ph, a, can, ab, abd, val, fin
<1>7. /\ Consistent(registry, pending', active', can, status', phase', val, aborts', abd, fin)
      /\ WorkConserving'
  BY <1>4, <1>5, <1>6, DrainPreserves
<1>8. Fields' /\ Rest'
  BY <1>4, <1>7 DEF Fields, Rest, QueueInvariant, TypeOK
<1> QED
  BY <1>8, InvariantIsConsistent, PTL

\* A job that moves from one await to the next of the same handler; the
\* resolution that EnqueueFails leaves behind does no harm.
LEMMA AdvancePreserves ==
    ASSUME QueueInvariant, NEW j \in Jobs, NEW to,
           \/ phase[j] \in ProcessPhases /\ to \in ProcessPhases
           \/ phase[j] \in {"new", "resolving"} /\ to \in {"resolving", "refused"},
           phase' = [phase EXCEPT ![j] = to],
           validatedTargets' \in {validatedTargets, validatedTargets \cup {j}},
           UNCHANGED <<queueVars, aborts, aborted, notifications, status, mode, accepted, finishes>>
    PROVE  QueueInvariant'
<1>1. Fields /\ Rest
  BY InvariantIsConsistent
<1>2. phase \in [Jobs -> Phase] /\ to \in Phase /\ status \in [Jobs -> Status]
  BY <1>1 DEF Fields, Consistent, Phase, ProcessPhases
<1>3. phase' \in [Jobs -> Phase] /\ validatedTargets' \in SUBSET Jobs
      /\ validatedTargets \subseteq validatedTargets'
  BY <1>1, <1>2 DEF Fields, Consistent
<1>4. FlyingIn(phase') = FlyingIn(phase)
  BY <1>2 DEF FlyingIn, ProcessPhases
<1>5. \A x \in Jobs :
        /\ phase'[x] = phase[x]
           \/ /\ phase[x] \in ProcessPhases /\ phase'[x] \in ProcessPhases
              /\ phase[x] \notin {"queued", "settled", "new", "resolving", "refused"}
              /\ phase'[x] \notin {"queued", "settled", "new", "resolving", "refused"}
           \/ /\ phase[x] \in {"new", "resolving"} /\ phase'[x] \in {"resolving", "refused"}
              /\ phase[x] \notin ProcessPhases /\ phase'[x] \notin ProcessPhases
  BY <1>2 DEF ProcessPhases
<1>6. \A x \in Jobs :
        /\ phase'[x] \in {"new", "resolving", "refused"} => status[x] = "none"
        /\ phase'[x] = "queued" => status[x] = "queued"
        /\ phase'[x] \in ProcessPhases => status[x] \in {"running", "cancelled"}
        /\ phase'[x] = "settled" => status[x] \in Finished
        /\ x \in cancelled => phase'[x] = "settled"
        /\ finishes[x] = IF phase'[x] = "settled" THEN 1 ELSE 0
        /\ phase'[x] = "queued" \/ phase'[x] \in ProcessPhases => x \in validatedTargets'
        /\ phase'[x] = "queued" <=> phase[x] = "queued"
  BY <1>1, <1>3, <1>5 DEF Fields, Consistent
<1>7. Fields'
  BY <1>1, <1>3, <1>4, <1>6 DEF Fields, Consistent, queueVars
<1>8. Rest'
  BY <1>1 DEF Rest, WorkConserving, queueVars
<1> QED
  BY <1>7, <1>8, InvariantIsConsistent, PTL

\* stop() empties the line without starting anyone.
LEMMA StopPreserves ==
    ASSUME QueueInvariant, Stop
    PROVE  QueueInvariant'
<1> DEFINE Q == ToSet(pending)
<1>1. Fields /\ Rest
  BY InvariantIsConsistent
<1>2. /\ Q = {j \in Jobs : phase[j] = "queued"}
      /\ status \in [Jobs -> Status] /\ phase \in [Jobs -> Phase] /\ finishes \in [Jobs -> Nat]
  BY <1>1 DEF Fields, Consistent
<1>3. /\ pending' = <<>> /\ mode' = "stopping"
      /\ cancelled' = cancelled \cup Q
      /\ status' = [j \in Jobs |-> IF j \in Q THEN "cancelled" ELSE status[j]]
      /\ phase' = [j \in Jobs |-> IF j \in Q THEN "settled" ELSE phase[j]]
      /\ notifications' = notifications \cup Q
      /\ validatedTargets' = validatedTargets \ Q
      /\ finishes' = [j \in Jobs |-> IF j \in Q THEN finishes[j] + 1 ELSE finishes[j]]
      /\ aborted' = aborted \cup aborts
      /\ UNCHANGED <<registry, active, aborts, accepted>>
  BY DEF Stop, OnFinish
<1> HIDE DEF Q
<1>4. FlyingIn(phase') = FlyingIn(phase) /\ FlyingIn(phase) \subseteq Jobs
  BY <1>2, <1>3 DEF FlyingIn, ProcessPhases
<1>5. \A x \in Jobs :
        /\ phase'[x] \in {"new", "resolving", "refused"} => status'[x] = "none"
        /\ phase'[x] # "queued"
        /\ phase'[x] \in ProcessPhases => status'[x] \in {"running", "cancelled"}
        /\ phase'[x] = "settled" => status'[x] \in Finished
        /\ x \in cancelled' => phase'[x] = "settled"
        /\ finishes'[x] = IF phase'[x] = "settled" THEN 1 ELSE 0
        /\ phase'[x] \in ProcessPhases => x \in validatedTargets'
  BY <1>1, <1>2, <1>3 DEF Fields, Consistent, ProcessPhases, Finished
<1>6. /\ status' \in [Jobs -> Status] /\ phase' \in [Jobs -> Phase] /\ finishes' \in [Jobs -> Nat]
      /\ aborted' \in SUBSET Jobs /\ cancelled' \in SUBSET Jobs /\ validatedTargets' \in SUBSET Jobs
  BY <1>1, <1>2, <1>3, <1>4 DEF Fields, Consistent, Status, Phase
<1>7. /\ pending' \in Seq(Jobs) /\ Len(pending') = 0
      /\ IsInjective(pending') /\ ToSet(pending') = {}
  BY <1>3, EmptySeq DEF IsInjective, ToSet
<1>8. active + Len(pending') <= MaxConcurrent + MaxQueue
  BY <1>7, SlotsTaken
<1>9. Fields'
  BY <1>1, <1>3, <1>4, <1>5, <1>6, <1>7, <1>8 DEF Fields, Consistent
<1>10. Rest'
  BY <1>1, <1>2, <1>3 DEF Rest, WorkConserving
<1> QED
  BY <1>9, <1>10, InvariantIsConsistent, PTL

\* The cancellation of a running job, the timeout and the sweep.
LEMMA OutsidePreserves ==
    ASSUME QueueInvariant,
           \/ \E j \in Jobs : CancelRunning(j) \/ ScanTimeout(j)
           \/ \E S \in SUBSET Evictable : SweepArtifacts(S)
    PROVE  QueueInvariant'
<1>1. Fields /\ Rest
  BY InvariantIsConsistent
<1>2. /\ registry \in SUBSET Jobs /\ aborted \in SUBSET Jobs /\ aborts = FlyingIn(phase)
      /\ status \in [Jobs -> Status] /\ phase \in [Jobs -> Phase]
      /\ ToSet(pending) = {j \in Jobs : phase[j] = "queued"}
      /\ FlyingIn(phase) \subseteq Jobs
  BY <1>1 DEF Fields, Consistent, FlyingIn
<1>3. ASSUME NEW j \in Jobs, CancelRunning(j)
      PROVE  Fields' /\ Rest'
  <2>1. /\ status[j] = "running"
        /\ status' = [status EXCEPT ![j] = "cancelled"]
        /\ aborted' = IF j \in aborts THEN aborted \cup {j} ELSE aborted
        /\ UNCHANGED <<queueVars, phase, validatedTargets, aborts, notifications, mode, accepted, finishes>>
    BY <1>3 DEF CancelRunning
  <2>2. phase[j] \in ProcessPhases /\ j \in FlyingIn(phase)
    BY <1>1, <1>2, <2>1 DEF Fields, Consistent, FlyingIn, Phase, Finished
  <2>3. status' \in [Jobs -> Status] /\ aborted' \in SUBSET Jobs
    BY <1>2, <2>1 DEF Status
  <2>4. \A x \in Jobs :
          /\ phase[x] \in {"new", "resolving", "refused"} => status'[x] = "none"
          /\ phase[x] = "queued" => status'[x] = "queued"
          /\ phase[x] \in ProcessPhases => status'[x] \in {"running", "cancelled"}
          /\ phase[x] = "settled" => status'[x] \in Finished
    BY <1>1, <1>2, <2>1, <2>2 DEF Fields, Consistent, ProcessPhases
  <2>5. \A x \in FlyingIn(phase) : status'[x] = "cancelled" => x \in aborted'
    BY <1>1, <1>2, <2>1, <2>2 DEF Fields, Consistent
  <2>6. Fields'
    BY <1>1, <2>1, <2>3, <2>4, <2>5 DEF Fields, Consistent, queueVars
  <2> QED
    BY <1>1, <2>1, <2>6 DEF Rest, WorkConserving, queueVars
<1>4. ASSUME NEW j \in Jobs, ScanTimeout(j)
      PROVE  Fields' /\ Rest'
  <2>1. /\ aborted' = aborted \cup {j}
        /\ UNCHANGED <<queueVars, validatedTargets, aborts, notifications, status, phase,
                       mode, accepted, finishes>>
    BY <1>4 DEF ScanTimeout
  <2>2. Fields'
    BY <1>1, <2>1 DEF Fields, Consistent, queueVars
  <2> QED
    BY <1>1, <2>1, <2>2 DEF Rest, WorkConserving, queueVars
<1>5. ASSUME NEW S \in SUBSET Evictable, SweepArtifacts(S)
      PROVE  Fields' /\ Rest'
  <2>1. /\ registry' = registry \ S
        /\ UNCHANGED <<pending, active, cancelled, serviceVars, status, phase, mode, accepted, finishes>>
    BY <1>5 DEF SweepArtifacts
  <2>2. \A x \in ToSet(pending) : x \notin S
    BY <1>1, <1>2 DEF Fields, Consistent, Evictable
  <2>3. Fields'
    BY <1>1, <1>2, <2>1, <2>2 DEF Fields, Consistent, serviceVars
  <2> QED
    BY <1>1, <2>1, <2>3 DEF Rest, WorkConserving, serviceVars
<1>6. Fields' /\ Rest'
  BY <1>3, <1>4, <1>5
<1> QED
  BY <1>6, InvariantIsConsistent, PTL

\* The steps that only move the shutdown on or forget a posted event.
LEMMA ModePreserves ==
    ASSUME QueueInvariant,
           \/ \E j \in Jobs : NotificationDone(j)
           \/ StopDrained \/ StopDeadline \/ Exit
           \/ UNCHANGED vars
    PROVE  QueueInvariant'
<1>1. Fields /\ Rest
  BY InvariantIsConsistent
<1>2. /\ UNCHANGED <<queueVars, validatedTargets, aborts, aborted, status, phase, accepted, finishes>>
      /\ notifications' \in SUBSET Jobs
      /\ mode' \in {"up", "stopping", "drained", "abandoned", "exited"}
  BY <1>1 DEF Rest, NotificationDone, StopDrained, StopDeadline, Exit, vars, serviceVars
<1>3. Fields' /\ Rest'
  BY <1>1, <1>2 DEF Fields, Rest, WorkConserving, queueVars
<1> QED
  BY <1>3, InvariantIsConsistent, PTL

\* The empty worker satisfies the invariant.
LEMMA InitInvariant == Init => QueueInvariant
<1> SUFFICES ASSUME Init PROVE QueueInvariant
  OBVIOUS
<1>1. FlyingIn(phase) = {}
  BY DEF Init, FlyingIn, ProcessPhases
<1>2. Cardinality(FlyingIn(phase)) = 0
  BY <1>1, FS_EmptySet
<1>3. /\ pending \in Seq(Jobs) /\ accepted \in Seq(Jobs) /\ Len(pending) = 0
      /\ IsInjective(pending) /\ ToSet(pending) = {}
  BY EmptySeq DEF Init, IsInjective, ToSet
<1>4. Fields
  BY <1>1, <1>2, <1>3, ConstantsAssumption
  DEF Init, Fields, Consistent, Status, Phase, ProcessPhases
<1>5. Rest
  BY <1>3 DEF Init, Rest, WorkConserving
<1> QED
  BY <1>4, <1>5, InvariantIsConsistent

\* Every step of the worker's own code for a job.
LEMMA ProcessPreserves ==
    ASSUME QueueInvariant, NEW j \in Jobs, Process(j)
    PROVE  QueueInvariant'
<1>1. phase[j] \in ProcessPhases
  BY DEF Process, ProcessThrows, StopAtCheck, Revalidated, VersionsCaptured, StepsDone,
         WpscanDone, RenderDone, ProcessPhases
<1>2. FailedUnlessCancelled(j) \in Finished /\ {"cancelled", "completed"} \subseteq Finished
  BY DEF FailedUnlessCancelled, Finished
<1>3. CASE ProcessThrows(j)
  BY <1>1, <1>2, <1>3, SettlePreserves DEF ProcessThrows
<1>4. CASE StopAtCheck(j)
  BY <1>1, <1>2, <1>4, SettlePreserves DEF StopAtCheck
<1>5. CASE RenderDone(j)
  BY <1>1, <1>2, <1>5, SettlePreserves DEF RenderDone
<1>6. CASE Revalidated(j) \/ VersionsCaptured(j) \/ StepsDone(j) \/ WpscanDone(j)
  <2>1. PICK to \in ProcessPhases : Advance(j, to)
    BY <1>6 DEF Revalidated, VersionsCaptured, StepsDone, WpscanDone, ProcessPhases
  <2> QED
    BY <1>1, <2>1, AdvancePreserves DEF Advance, serviceVars
<1> QED
  BY <1>3, <1>4, <1>5, <1>6 DEF Process

\* The invariant is inductive.
LEMMA NextPreserves == QueueInvariant /\ [Next]_vars => QueueInvariant'
<1> SUFFICES ASSUME QueueInvariant, [Next]_vars PROVE QueueInvariant'
  OBVIOUS
<1>1. ASSUME NEW j \in Jobs, CreateJob(j) PROVE QueueInvariant'
  BY <1>1, AdvancePreserves DEF CreateJob, serviceVars
<1>2. ASSUME NEW j \in Jobs, RejectTarget(j) PROVE QueueInvariant'
  BY <1>2, AdvancePreserves DEF RejectTarget, serviceVars
<1>3. ASSUME NEW j \in Jobs, EnqueueFails(j) PROVE QueueInvariant'
  BY <1>3, AdvancePreserves DEF EnqueueFails
<1>4. ASSUME NEW j \in Jobs, AcceptJob(j) PROVE QueueInvariant'
  BY <1>4, AcceptJobPreserves
<1>5. ASSUME NEW j \in Jobs, CancelQueued(j) PROVE QueueInvariant'
  BY <1>5, CancelQueuedPreserves
<1>6. ASSUME NEW j \in Jobs, Process(j) PROVE QueueInvariant'
  BY <1>6, ProcessPreserves
<1>7. CASE \/ \E j \in Jobs : CancelRunning(j) \/ ScanTimeout(j)
           \/ \E S \in SUBSET Evictable : SweepArtifacts(S)
  BY <1>7, OutsidePreserves
<1>8. CASE Stop
  BY <1>8, StopPreserves
<1>9. CASE \/ \E j \in Jobs : NotificationDone(j)
           \/ StopDrained \/ StopDeadline \/ Exit
           \/ UNCHANGED vars
  BY <1>9, ModePreserves
<1> QED
  BY <1>1, <1>2, <1>3, <1>4, <1>5, <1>6, <1>7, <1>8, <1>9 DEF Next

-----------------------------------------------------------------------------
(* The theorems. *)

\* The conjunction of the queue's invariants holds in every reachable state,
\* for every set of jobs and all limits, zero included.
THEOREM QueueInvariantHolds == Spec => []QueueInvariant
  BY InitInvariant, NextPreserves, PTL DEF Spec

\* Every variable keeps its type.
THEOREM TypeCorrect == Spec => []TypeOK
<1>1. QueueInvariant => TypeOK
  BY DEF QueueInvariant
<1> QED
  BY <1>1, QueueInvariantHolds, PTL

\* The slot counter never drifts from the number of scans in progress.
THEOREM SlotsNeverDrift == Spec => []ActiveIsInFlight
<1>1. QueueInvariant => ActiveIsInFlight
  BY DEF QueueInvariant
<1> QED
  BY <1>1, QueueInvariantHolds, PTL

\* The two limits of the queue hold under every interleaving, and no job waits
\* beside a free slot.
THEOREM LimitsHold == Spec => [](WithinLimits /\ WorkConserving)
<1>1. QueueInvariant => WithinLimits /\ WorkConserving
  BY DEF QueueInvariant
<1> QED
  BY <1>1, QueueInvariantHolds, PTL

\* onFinish runs exactly once for every accepted job that ends.
THEOREM FinishedOnce == Spec => []ReportedOnce
<1>1. QueueInvariant => ReportedOnce
  BY DEF QueueInvariant
<1> QED
  BY <1>1, QueueInvariantHolds, PTL

\* A cancellation always finds the controller of a running scan, and the
\* rebinding check always finds the first resolution.
THEOREM GuardsStayArmed == Spec => [](CancelReachesTools /\ PriorResolutionKept)
<1>1. QueueInvariant => CancelReachesTools /\ PriorResolutionKept
  BY DEF QueueInvariant
<1> QED
  BY <1>1, QueueInvariantHolds, PTL

\* With at least one slot, a stop() that ends before its deadline leaves no
\* accepted job behind.  With none, pending jobs do not show in active.
THEOREM ShutdownIsComplete ==
    ASSUME MaxConcurrent > 0
    PROVE  Spec => DrainedMeansDone
<1>1. QueueInvariant /\ [Next]_vars
        => [mode' = "drained" /\ mode # "drained" => Unfinished = {}]_mode
  <2> SUFFICES ASSUME QueueInvariant, [Next]_vars, mode' = "drained", mode # "drained"
               PROVE  Unfinished = {}
    OBVIOUS
  <2>1. StopDrained
    BY DEF Next, CreateJob, RejectTarget, EnqueueFails, AcceptJob, CancelQueued, CancelRunning,
           Process, ProcessThrows, StopAtCheck, Settle, Revalidated, VersionsCaptured, StepsDone,
           WpscanDone, RenderDone, Advance, ScanTimeout, NotificationDone, SweepArtifacts,
           Stop, StopDeadline, Exit, vars
  <2>2. Cardinality(InFlight) = 0 /\ pending = <<>>
    BY <2>1, ConstantsAssumption DEF StopDrained, QueueInvariant, ActiveIsInFlight, WorkConserving
  <2>3. InFlight = {}
    <3>1. IsFiniteSet(InFlight)
      BY FlyingFinite DEF InFlight, FlyingIn
    <3> QED
      BY <2>2, <3>1, FS_EmptySet
  <2>4. {j \in Jobs : phase[j] = "queued"} = {}
    BY <2>2 DEF QueueInvariant, PendingIsLive, ToSet
  <2> QED
    BY <2>3, <2>4 DEF Unfinished
<1>2. Spec => [][Next]_vars
  BY PTL DEF Spec
<1> QED
  BY <1>1, <1>2, QueueInvariantHolds, PTL DEF DrainedMeansDone

-----------------------------------------------------------------------------
(* Statuses *)

\* The statuses that may follow the one job j has.
MayBecome(j, new) ==
    /\ status[j] \in {"completed", "failed"} => new = status[j]
    /\ status[j] = "cancelled" => new \in Finished
    /\ status[j] = "running" => new # "queued"

\* drain starts jobs that wait, and leaves the others what the caller makes them.
LEMMA DrainKeepsLife ==
    ASSUME NEW p \in Seq(Jobs), NEW a \in Int, NEW st, NEW ph, NEW ab, Drain(p, a, st, ph, ab),
           \A i \in 1..Len(p) : status[p[i]] \in {"none", "queued"},
           \A x \in Jobs : MayBecome(x, st[x])
    PROVE  \A x \in Jobs : MayBecome(x, status'[x])
<1> DEFINE k == StartCount(p, a)
<1>1. Len(p) \in Nat /\ MaxConcurrent \in Nat
  BY LenProperties, ConstantsAssumption
<1>2. k \in Nat /\ k <= Len(p)
  BY <1>1 DEF StartCount
<1>3. status' = [x \in Jobs |-> IF x \in {p[i] : i \in 1..k} THEN "running" ELSE st[x]]
  BY DEF Drain
<1> HIDE DEF k
<1>4. SUFFICES ASSUME NEW x \in Jobs PROVE MayBecome(x, status'[x])
  OBVIOUS
<1>5. CASE x \in {p[i] : i \in 1..k}
  <2>1. status[x] \in {"none", "queued"}
    BY <1>1, <1>2, <1>5
  <2> QED
    BY <2>1 DEF MayBecome
<1>6. CASE x \notin {p[i] : i \in 1..k}
  BY <1>3, <1>6
<1> QED
  BY <1>5, <1>6

LEMMA SettleKeepsLife ==
    ASSUME QueueInvariant, NEW j \in Jobs, NEW st, Settle(j, st),
           MayBecome(j, IF st = "running" THEN "completed" ELSE st)
    PROVE  \A x \in Jobs : MayBecome(x, status'[x])
<1> DEFINE new == IF st = "running" THEN "completed" ELSE st
           after == [status EXCEPT ![j] = new]
<1>1. pending \in Seq(Jobs) /\ active - 1 \in Int /\ status \in [Jobs -> Status]
  BY DEF QueueInvariant, TypeOK
<1>2. \A i \in 1..Len(pending) : status[pending[i]] \in {"none", "queued"}
  BY DEF QueueInvariant, PendingIsLive, ToSet
<1>3. MayBecome(j, new)
  OBVIOUS
<1>4. Drain(pending, active - 1, after, [phase EXCEPT ![j] = "settled"], aborts \ {j})
  BY DEF Settle
<1> HIDE DEF new
<1>5. \A x \in Jobs : MayBecome(x, after[x])
  BY <1>1, <1>3 DEF MayBecome, Finished
<1> HIDE DEF after
<1> QED
  BY <1>1, <1>2, <1>4, <1>5, DrainKeepsLife

\* No job goes back to an earlier stage of its life, and what has completed or
\* failed stays so, whichever of its end, a cancellation and a timeout comes first.
THEOREM LivesGoForward == Spec => NoResurrection
<1>1. QueueInvariant /\ [Next]_vars
        => [\A j \in Jobs :
               /\ status[j] \in {"completed", "failed"} => status'[j] = status[j]
               /\ status[j] = "cancelled" => status'[j] \in Finished
               /\ status[j] = "running" => status'[j] # "queued"]_status
  <2> SUFFICES ASSUME QueueInvariant, [Next]_vars
               PROVE  status' = status \/ \A j \in Jobs : MayBecome(j, status'[j])
    BY DEF MayBecome
  <2>t. /\ pending \in Seq(Jobs) /\ active \in Nat /\ status \in [Jobs -> Status]
        /\ \A i \in 1..Len(pending) : status[pending[i]] \in {"none", "queued"}
    BY DEF QueueInvariant, TypeOK, PendingIsLive, ToSet
  <2>1. ASSUME NEW j \in Jobs, AcceptJob(j) PROVE \A x \in Jobs : MayBecome(x, status'[x])
    <3> DEFINE p == Append(pending, j)
               after == [status EXCEPT ![j] = "queued"]
    <3>1. status[j] = "none"
      BY <2>1 DEF AcceptJob, QueueInvariant, StatusFitsPhase
    <3>2. p \in Seq(Jobs) /\ \A i \in 1..Len(p) : status[p[i]] \in {"none", "queued"}
      BY <2>t, <3>1
    <3>3. \A x \in Jobs : MayBecome(x, after[x])
      BY <2>t, <3>1 DEF MayBecome, Finished
    <3>4. Drain(p, active, after, [phase EXCEPT ![j] = "queued"], aborts)
      BY <2>1 DEF AcceptJob
    <3> HIDE DEF p, after
    <3> QED
      BY <2>t, <3>2, <3>3, <3>4, DrainKeepsLife
  <2>2. ASSUME NEW j \in Jobs, CancelQueued(j) PROVE \A x \in Jobs : MayBecome(x, status'[x])
    <3>1. PICK i \in 1..Len(pending) :
             Drain(RemoveAt(pending, i), active,
                   [status EXCEPT ![j] = "cancelled"], [phase EXCEPT ![j] = "settled"], aborts)
      BY <2>2 DEF CancelQueued
    <3> DEFINE p == RemoveAt(pending, i)
               after == [status EXCEPT ![j] = "cancelled"]
    <3>2. /\ p \in Seq(Jobs) /\ Len(p) = Len(pending) - 1
          /\ \A k \in 1..(Len(pending) - 1) : p[k] = IF k < i THEN pending[k] ELSE pending[k + 1]
      BY <2>t, RemoveAtProperties
    <3>3. Drain(p, active, after, [phase EXCEPT ![j] = "settled"], aborts)
      BY <3>1
    <3> HIDE DEF p
    <3>4. \A k \in 1..Len(p) : status[p[k]] \in {"none", "queued"}
      BY <2>t, <3>2
    <3>5. \A x \in Jobs : MayBecome(x, after[x])
      BY <2>2, <2>t DEF CancelQueued, MayBecome, Finished
    <3> HIDE DEF after
    <3> QED
      BY <2>t, <3>2, <3>3, <3>4, <3>5, DrainKeepsLife
  <2>3. ASSUME NEW j \in Jobs, CancelRunning(j) PROVE \A x \in Jobs : MayBecome(x, status'[x])
    BY <2>3, <2>t DEF CancelRunning, MayBecome, Finished
  <2>4. ASSUME NEW j \in Jobs, ProcessThrows(j) \/ StopAtCheck(j) \/ RenderDone(j)
        PROVE  \A x \in Jobs : MayBecome(x, status'[x])
    <3>1. status[j] \in {"running", "cancelled"}
      BY <2>4 DEF ProcessThrows, StopAtCheck, RenderDone, QueueInvariant, StatusFitsPhase, ProcessPhases
    <3>2. CASE ProcessThrows(j)
      BY <3>1, <3>2, SettleKeepsLife DEF ProcessThrows, FailedUnlessCancelled, MayBecome, Finished
    <3>3. CASE StopAtCheck(j)
      BY <3>1, <3>3, SettleKeepsLife DEF StopAtCheck, MayBecome, Finished
    <3>4. CASE RenderDone(j)
      BY <3>1, <3>4, SettleKeepsLife DEF RenderDone, MayBecome, Finished
    <3> QED
      BY <2>4, <3>2, <3>3, <3>4
  <2>5. CASE Stop
    <3>1. \A x \in Jobs : x \in ToSet(pending) => status[x] = "queued"
      BY DEF QueueInvariant, PendingIsLive
    <3>2. \A x \in Jobs : status'[x] = IF x \in ToSet(pending) THEN "cancelled" ELSE status[x]
      BY <2>5 DEF Stop
    <3> QED
      BY <3>1, <3>2 DEF MayBecome, Finished
  <2>6. CASE status' = status
    BY <2>6
  <2> QED
    BY <2>1, <2>2, <2>3, <2>4, <2>5, <2>6
    DEF Next, CreateJob, RejectTarget, EnqueueFails, Process, Revalidated, VersionsCaptured, StepsDone,
        WpscanDone, Advance, ScanTimeout, NotificationDone, SweepArtifacts, StopDrained, StopDeadline,
        Exit, vars
<1>2. Spec => [][Next]_vars
  BY PTL DEF Spec
<1> QED
  BY <1>1, <1>2, QueueInvariantHolds, PTL DEF NoResurrection

-----------------------------------------------------------------------------
(* The refinement of FifoPool. *)

\* What LineInvariant says, of an order of acceptance, a waiting line and the
\* phases of the jobs: what is true between the edits of an operation and the
\* drain that ends it.
OpenIn(ph) == {j \in Jobs : ph[j] = "queued"} \cup FlyingIn(ph)

InOrder(acc, p, ph) ==
    /\ acc \in Seq(Jobs)
    /\ IsInjective(acc)
    /\ ToSet(acc) = OpenIn(ph) \cup {j \in Jobs : ph[j] = "settled"}
    /\ p \in Seq(Jobs)
    /\ IsInjective(p)
    /\ ToSet(p) = {j \in Jobs : ph[j] = "queued"}
    /\ Keep(acc, OpenIn(ph)) = Keep(acc, FlyingIn(ph)) \o p

LEMMA LineIsInOrder ==
    QueueInvariant => (LineInvariant <=> InOrder(accepted, pending, phase))
<1>1. Unfinished = OpenIn(phase) /\ InFlight = FlyingIn(phase)
  BY DEF Unfinished, InFlight, OpenIn, FlyingIn
<1> QED
  BY <1>1 DEF QueueInvariant, TypeOK, PendingIsLive, LineInvariant, InOrder, Line

\* The first of the line joins those in progress at their end.
LEMMA HeadKeepsOrder ==
    ASSUME NEW acc, NEW p, NEW ph, InOrder(acc, p, ph), p # <<>>
    PROVE  Keep(acc, OpenIn(ph)) = Keep(acc, FlyingIn(ph) \cup {Head(p)}) \o Tail(p)
<1> DEFINE F == FlyingIn(ph)
           O == OpenIn(ph)
           h == Head(p)
           t == Tail(p)
           one == <<h>>
           S == F \cup {h}
           k == Keep(acc, F)
<1>1. /\ acc \in Seq(Jobs) /\ p \in Seq(Jobs) /\ IsInjective(p)
      /\ ToSet(p) = {j \in Jobs : ph[j] = "queued"}
      /\ Keep(acc, O) = k \o p
  BY DEF InOrder
<1>2. h \in Jobs /\ h \in ToSet(p) /\ t \in Seq(Jobs) /\ ToSet(t) = ToSet(p) \ {h}
  BY <1>1, HeadLeaves
<1>3. p = one \o t
  <2>1. Len(p) \in Nat /\ Len(p) # 0
    BY <1>1, LenProperties, EmptySeq
  <2>2. 1 \in 1..Len(p) /\ Len(p) \in 1..Len(p)
    BY <2>1
  <2>3. SubSeq(p, 1, Len(p)) = <<p[1]>> \o SubSeq(p, 1 + 1, Len(p))
    BY <1>1, <2>1, <2>2, SubSeqRecursiveFirst
  <2>4. SubSeq(p, 1, Len(p)) = p /\ SubSeq(p, 2, Len(p)) = Tail(p)
    BY <1>1, SubSeqFull, TailIsSubSeq
  <2>5. h = p[1]
    BY <1>1
  <2> QED
    BY <2>3, <2>4, <2>5, 1 + 1 = 2
<1>4. ToSet(one) = {h} /\ one \in Seq(Jobs)
  BY <1>2 DEF ToSet
<1>5. S \subseteq O /\ ToSet(p) \cap F = {}
  BY <1>1, <1>2 DEF OpenIn, FlyingIn, ProcessPhases
<1>6. k \in Seq(Jobs) /\ ToSet(k) \subseteq F
  BY <1>1, KeepElements
<1> HIDE DEF F, O, h, t, one, k
<1>7. ToSet(k) \subseteq S /\ ToSet(one) \subseteq S /\ ToSet(t) \cap S = {}
  BY <1>2, <1>4, <1>5, <1>6
<1>8. O \cap S = S
  BY <1>5
<1> HIDE DEF S
<1>9. Keep(acc, S) = Keep(k \o p, S)
  <2>1. \A s \in Seq(Jobs) : Keep(Keep(s, O), S) = Keep(s, O \cap S)
    BY KeepTwice
  <2>2. Keep(Keep(acc, O), S) = Keep(acc, O \cap S)
    BY <1>1, <2>1
  <2> QED
    BY <1>1, <1>8, <2>2
<1>10. Keep(k \o p, S) = Keep(k, S) \o Keep(p, S)
  BY <1>1, <1>6, KeepConcat
<1>11. Keep(one \o t, S) = Keep(one, S) \o Keep(t, S)
  BY <1>2, <1>4, KeepConcat
<1>12. Keep(k, S) = k /\ Keep(one, S) = one /\ Keep(t, S) = <<>>
  BY <1>2, <1>4, <1>6, <1>7, KeepAllOrNone
<1>13. one \o <<>> = one
  BY <1>4, ConcatEmptySeq
<1>14. (k \o one) \o t = k \o (one \o t)
  BY <1>2, <1>4, <1>6, ConcatAssociative
<1>15. Keep(acc, O) = Keep(acc, S) \o t
  BY <1>1, <1>3, <1>9, <1>10, <1>11, <1>12, <1>13, <1>14
<1> QED
  BY <1>15 DEF S, F, O, h, t

\* drain starts the first in line, and so keeps the order.
LEMMA DrainKeepsOrder ==
    ASSUME NEW acc, NEW p, NEW a \in Int, NEW st, NEW ph \in [Jobs -> Phase], NEW ab,
           InOrder(acc, p, ph),
           a >= MaxConcurrent - 1 \/ Len(p) <= 1,
           Drain(p, a, st, ph, ab)
    PROVE  InOrder(acc, pending', phase') /\ OpenIn(phase') = OpenIn(ph)
<1>1. p \in Seq(Jobs)
  BY DEF InOrder
<1>2. CASE pending' = p /\ phase' = [x \in Jobs |-> ph[x]]
  <2>1. phase' = ph
    BY <1>2
  <2> QED
    BY <1>2, <2>1
<1>3. CASE /\ p # <<>>
           /\ pending' = Tail(p)
           /\ phase' = [x \in Jobs |-> IF x = Head(p) THEN "revalidate" ELSE ph[x]]
  <2> DEFINE h == Head(p)
  <2>1. /\ h \in Jobs /\ h \in ToSet(p)
        /\ Tail(p) \in Seq(Jobs) /\ IsInjective(Tail(p))
        /\ ToSet(Tail(p)) = ToSet(p) \ {h}
    BY <1>1, <1>3, HeadLeaves DEF InOrder
  <2>2. /\ ToSet(p) = {j \in Jobs : ph[j] = "queued"}
        /\ ToSet(acc) = OpenIn(ph) \cup {j \in Jobs : ph[j] = "settled"}
        /\ acc \in Seq(Jobs) /\ IsInjective(acc)
    BY DEF InOrder
  <2>3. Keep(acc, OpenIn(ph)) = Keep(acc, FlyingIn(ph) \cup {h}) \o Tail(p)
    BY <1>3, HeadKeepsOrder
  <2> HIDE DEF h
  <2>4. phase' = [x \in Jobs |-> IF x = h THEN "revalidate" ELSE ph[x]]
    BY <1>3 DEF h
  <2>5. FlyingIn(phase') = FlyingIn(ph) \cup {h}
    BY <2>1, <2>4 DEF FlyingIn, ProcessPhases
  <2>6. {j \in Jobs : phase'[j] = "queued"} = ToSet(p) \ {h}
    BY <2>1, <2>2, <2>4
  <2>7. {j \in Jobs : phase'[j] = "settled"} = {j \in Jobs : ph[j] = "settled"}
    BY <2>1, <2>2, <2>4
  <2>8. OpenIn(phase') = OpenIn(ph)
    BY <2>1, <2>2, <2>5, <2>6 DEF OpenIn
  <2> QED
    BY <1>3, <2>1, <2>2, <2>3, <2>5, <2>6, <2>7, <2>8 DEF InOrder
<1> QED
  BY <1>1, <1>2, <1>3, DrainCases

\* A newcomer stands at the end of the line.
LEMMA NewcomerKeepsOrder ==
    ASSUME NEW acc, NEW p, NEW ph \in [Jobs -> Phase], InOrder(acc, p, ph),
           NEW j \in Jobs, ph[j] = "resolving",
           NEW ph1, ph1 = [ph EXCEPT ![j] = "queued"]
    PROVE  /\ InOrder(Append(acc, j), Append(p, j), ph1)
           /\ Keep(Append(acc, j), OpenIn(ph1)) = Append(Keep(acc, OpenIn(ph)), j)
           /\ j \notin OpenIn(ph)
<1> DEFINE F == FlyingIn(ph)
           O == OpenIn(ph)
           k == Keep(acc, F)
           q == {x \in Jobs : ph[x] = "queued"}
           d == {x \in Jobs : ph[x] = "settled"}
           acc1 == Append(acc, j)
           p1 == Append(p, j)
           one == <<j>>
<1>1. /\ acc \in Seq(Jobs) /\ IsInjective(acc) /\ ToSet(acc) = O \cup d
      /\ p \in Seq(Jobs) /\ IsInjective(p) /\ ToSet(p) = q
      /\ Keep(acc, O) = k \o p
  BY DEF InOrder
<1>2. /\ FlyingIn(ph1) = F /\ OpenIn(ph1) = O \cup {j}
      /\ {x \in Jobs : ph1[x] = "queued"} = q \cup {j}
      /\ {x \in Jobs : ph1[x] = "settled"} = d
      /\ j \notin O /\ j \notin d /\ j \notin q /\ j \notin F
  BY DEF OpenIn, FlyingIn, ProcessPhases
<1> HIDE DEF F, O, k, q, d
<1>3. /\ acc1 \in Seq(Jobs) /\ IsInjective(acc1) /\ ToSet(acc1) = ToSet(acc) \cup {j}
      /\ p1 \in Seq(Jobs) /\ IsInjective(p1) /\ ToSet(p1) = ToSet(p) \cup {j}
  BY <1>1, <1>2, OneArrives
<1>4. k \in Seq(Jobs) /\ one \in Seq(Jobs)
  BY <1>1, KeepElements DEF k
<1>5. Keep(acc1, F) = k
  BY <1>1, <1>2, KeepAppends DEF k
<1>6. Keep(acc1, O \cup {j}) = Append(Keep(acc, O), j)
  <2> DEFINE R == O \cup {j}
  <2>1. j \in R /\ ToSet(acc) \cap R = ToSet(acc) \cap O
    BY <1>1, <1>2
  <2> HIDE DEF R
  <2>2. Keep(acc1, R) = Append(Keep(acc, R), j)
    BY <1>1, <2>1, KeepAppends
  <2>3. \A s \in Seq(Jobs) : ToSet(s) \cap R = ToSet(s) \cap O => Keep(s, R) = Keep(s, O)
    BY KeepDependsOn
  <2>4. Keep(acc, R) = Keep(acc, O)
    BY <1>1, <2>1, <2>3
  <2> QED
    BY <2>2, <2>4 DEF R
<1>7. Append(k \o p, j) = k \o p1
  <2>1. Append(k \o p, j) = (k \o p) \o one
    BY <1>1, <1>4, ConcatProperties, AppendIsConcat
  <2>2. p1 = p \o one
    BY <1>1, AppendIsConcat
  <2>3. (k \o p) \o one = k \o (p \o one)
    BY <1>1, <1>4, ConcatAssociative
  <2> QED
    BY <2>1, <2>2, <2>3
<1> HIDE DEF acc1, p1
<1>8. InOrder(acc1, p1, ph1)
  BY <1>1, <1>2, <1>3, <1>5, <1>6, <1>7 DEF InOrder
<1> QED
  BY <1>2, <1>6, <1>8 DEF acc1, p1, O

\* Those who leave, from either part of the line, leave the order of the rest
\* as it is.
LEMMA LeaversKeepOrder ==
    ASSUME NEW acc, NEW p, NEW ph \in [Jobs -> Phase], InOrder(acc, p, ph),
           NEW S, S \subseteq OpenIn(ph),
           NEW ph1, ph1 = [x \in Jobs |-> IF x \in S THEN "settled" ELSE ph[x]],
           NEW p1, p1 = Keep(p, Jobs \ S)
    PROVE  /\ InOrder(acc, p1, ph1)
           /\ Keep(acc, OpenIn(ph1)) = Keep(Keep(acc, OpenIn(ph)), Jobs \ S)
<1> DEFINE F == FlyingIn(ph)
           O == OpenIn(ph)
           k == Keep(acc, F)
           q == {x \in Jobs : ph[x] = "queued"}
           d == {x \in Jobs : ph[x] = "settled"}
           T == Jobs \ S
<1>1. /\ acc \in Seq(Jobs) /\ IsInjective(acc) /\ ToSet(acc) = O \cup d
      /\ p \in Seq(Jobs) /\ IsInjective(p) /\ ToSet(p) = q
      /\ Keep(acc, O) = k \o p
  BY DEF InOrder
<1>2. /\ FlyingIn(ph1) = F \cap T /\ OpenIn(ph1) = O \cap T
      /\ {x \in Jobs : ph1[x] = "queued"} = q \cap T
      /\ {x \in Jobs : ph1[x] = "settled"} = d \cup S
      /\ S \subseteq O /\ O \subseteq Jobs /\ O = (O \cap T) \cup S
  BY DEF OpenIn, FlyingIn, ProcessPhases
<1> HIDE DEF F, O, k, q, d, T
<1>3. k \in Seq(Jobs)
  BY <1>1, KeepElements DEF k
<1>4. p1 \in Seq(Jobs) /\ ToSet(p1) = q \cap T /\ IsInjective(p1)
  BY <1>1, KeepElements, KeepInjective DEF T
<1>5. Keep(acc, O \cap T) = Keep(Keep(acc, O), T) /\ Keep(acc, F \cap T) = Keep(k, T)
  <2>1. \A R : \A s \in Seq(Jobs) : Keep(Keep(s, R), T) = Keep(s, R \cap T)
    BY KeepTwice
  <2> QED
    BY <1>1, <2>1 DEF k
<1>6. Keep(k \o p, T) = Keep(k, T) \o p1
  <2>1. Keep(k \o p, T) = Keep(k, T) \o Keep(p, T)
    BY <1>1, <1>3, KeepConcat
  <2> QED
    BY <2>1 DEF T
<1>7. Keep(acc, O \cap T) = Keep(acc, F \cap T) \o p1
  BY <1>1, <1>5, <1>6
<1>8. ToSet(acc) = (O \cap T) \cup (d \cup S)
  BY <1>1, <1>2
<1>9. InOrder(acc, p1, ph1)
  BY <1>1, <1>2, <1>4, <1>7, <1>8 DEF InOrder
<1> QED
  BY <1>2, <1>5, <1>9 DEF O, T

\* Taking one element out of a sequence without duplicates is filtering by the
\* others.
LEMMA RemoveIsKeep ==
    ASSUME NEW A, NEW s \in Seq(A), IsInjective(s), NEW i \in 1..Len(s)
    PROVE  RemoveAt(s, i) = Keep(s, A \ {s[i]})
<1> DEFINE a == SubSeq(s, 1, i - 1)
           b == SubSeq(s, i + 1, Len(s))
           one == <<s[i]>>
           S == A \ {s[i]}
<1>1. PICK n \in Nat : n = Len(s) /\ DOMAIN s = 1..n /\ i \in 1..n
  BY LenProperties
<1>2. \A k \in 1..n : s[k] \in A
  BY <1>1, ElementOfSeq
<1>3. /\ a \in Seq(A) /\ Len(a) = i - 1
      /\ \A k \in 1..(i - 1) : a[k] = s[k]
  <2>1. \A k \in 1..(i - 1) : s[k] \in A
    BY <1>1, <1>2
  <2> QED
    BY <1>1, <2>1, SubSeqProperties, 1 \in Int, i - 1 \in Int
<1>4. /\ b \in Seq(A) /\ Len(b) = n - i
      /\ \A k \in 1..(n - i) : b[k] = s[k + i]
  <2>1. \A k \in (i + 1)..n : s[k] \in A
    BY <1>1, <1>2
  <2> QED
    BY <1>1, <2>1, SubSeqProperties, i + 1 \in Int, n \in Int
<1>5. one \in Seq(A) /\ ToSet(one) = {s[i]}
  BY <1>1, <1>2 DEF ToSet
<1>6. s = (a \o one) \o b
  <2>1. SubSeq(s, 1, i) = SubSeq(s, 1, i - 1) \o one
    BY <1>1, SubSeqRecursiveSecond
  <2>2. SubSeq(s, 1, i) \o SubSeq(s, i + 1, n) = SubSeq(s, 1, n)
    BY <1>1, ConcatAdjacentSubSeq
  <2>3. SubSeq(s, 1, n) = s
    BY <1>1, SubSeqFull
  <2> QED
    BY <1>1, <2>1, <2>2, <2>3
<1>7. \A x, y \in 1..n : s[x] = s[y] => x = y
  BY <1>1 DEF IsInjective
<1>8. ToSet(a) \subseteq S
  <2>1. DOMAIN a = 1..(i - 1)
    BY <1>3, LenProperties
  <2>2. \A x \in 1..(i - 1) : x \in 1..n /\ x # i
    BY <1>1
  <2>3. \A x \in 1..(i - 1) : a[x] \in A /\ a[x] # s[i]
    BY <1>1, <1>2, <1>3, <1>7, <2>2
  <2> HIDE DEF a
  <2> QED
    BY <2>1, <2>3 DEF ToSet
<1>9. ToSet(b) \subseteq S
  <2>1. DOMAIN b = 1..(n - i)
    BY <1>4, LenProperties
  <2>2. \A x \in 1..(n - i) : x + i \in 1..n /\ x + i # i
    BY <1>1
  <2>3. \A x \in 1..(n - i) : b[x] \in A /\ b[x] # s[i]
    BY <1>1, <1>2, <1>4, <1>7, <2>2
  <2> HIDE DEF b
  <2> QED
    BY <2>1, <2>3 DEF ToSet
<1>10. ToSet(one) \cap S = {}
  BY <1>5
<1> HIDE DEF a, b, one, S
<1>11. Keep(a, S) = a /\ Keep(b, S) = b /\ Keep(one, S) = <<>>
  BY <1>3, <1>4, <1>5, <1>8, <1>9, <1>10, KeepAllOrNone
<1>12. a \o one \in Seq(A)
  BY <1>3, <1>5, ConcatProperties
<1>13. Keep((a \o one) \o b, S) = Keep(a \o one, S) \o Keep(b, S)
  BY <1>4, <1>12, KeepConcat
<1>14. Keep(a \o one, S) = Keep(a, S) \o Keep(one, S)
  BY <1>3, <1>5, KeepConcat
<1>15. a \o <<>> = a
  BY <1>3, ConcatEmptySeq
<1>16. Keep(s, S) = a \o b
  BY <1>6, <1>11, <1>13, <1>14, <1>15
<1> QED
  BY <1>16 DEF RemoveAt, a, b, S

\* The line is as long as the counter and the array say, and lists the
\* unfinished jobs.
LEMMA LineLength ==
    ASSUME QueueInvariant, LineInvariant
    PROVE  /\ Line \in Seq(Jobs)
           /\ ToSet(Line) = Unfinished
           /\ Len(Line) = active + Len(pending)
           /\ Keep(accepted, InFlight) \in Seq(Jobs)
           /\ ToSet(Keep(accepted, InFlight)) = InFlight
           /\ Len(Keep(accepted, InFlight)) = active
<1> DEFINE k == Keep(accepted, InFlight)
<1>1. /\ accepted \in Seq(Jobs) /\ IsInjective(accepted) /\ pending \in Seq(Jobs)
      /\ Unfinished \subseteq ToSet(accepted) /\ InFlight \subseteq ToSet(accepted)
      /\ active = Cardinality(InFlight)
      /\ Line = k \o pending
  BY DEF QueueInvariant, TypeOK, LineInvariant, ActiveIsInFlight, Unfinished
<1>2. k \in Seq(Jobs) /\ ToSet(k) = InFlight /\ IsInjective(k)
  <2>1. Keep(accepted, InFlight) \in Seq(Jobs)
        /\ ToSet(Keep(accepted, InFlight)) = ToSet(accepted) \cap InFlight
    BY <1>1, KeepElements
  <2>2. IsInjective(Keep(accepted, InFlight))
    BY <1>1, KeepInjective
  <2> QED
    BY <1>1, <2>1, <2>2
<1>3. Line \in Seq(Jobs) /\ ToSet(Line) = Unfinished
  <2>1. Keep(accepted, Unfinished) \in Seq(Jobs)
        /\ ToSet(Keep(accepted, Unfinished)) = ToSet(accepted) \cap Unfinished
    BY <1>1, KeepElements
  <2> QED
    BY <1>1, <2>1 DEF Line
<1> HIDE DEF k
<1>4. Len(k) = active
  BY <1>1, <1>2, InjectiveLength
<1>5. Len(k \o pending) = Len(k) + Len(pending)
  BY <1>1, <1>2, ConcatProperties
<1> QED
  BY <1>1, <1>2, <1>3, <1>4, <1>5 DEF k

\* The jobs being processed are the first MaxConcurrent of the line.
LEMMA FrontIsServed == QueueInvariant /\ LineInvariant => InFlight = Pool!Served(Line)
<1> SUFFICES ASSUME QueueInvariant, LineInvariant
             PROVE  InFlight = Pool!Served(Line)
  OBVIOUS
<1> DEFINE k == Keep(accepted, InFlight)
           n == Len(pending)
<1>1. /\ k \in Seq(Jobs) /\ ToSet(k) = InFlight /\ Len(k) = active
      /\ Len(Line) = active + n
  BY LineLength
<1>2. Line = k \o pending
  BY DEF LineInvariant
<1>3. /\ active \in Nat /\ active <= MaxConcurrent /\ MaxConcurrent \in Nat /\ n \in Nat
      /\ pending \in Seq(Jobs)
      /\ n # 0 => active = MaxConcurrent
  BY SlotsTaken DEF QueueInvariant, TypeOK
<1> HIDE DEF k, n
<1>4. {i \in 1..Len(Line) : i <= MaxConcurrent} = 1..active
  BY <1>1, <1>3
<1>5. \A i \in 1..active : Line[i] = k[i]
  <2>1. \A i \in 1..(Len(k) + Len(pending)) :
           (k \o pending)[i] = IF i <= Len(k) THEN k[i] ELSE pending[i - Len(k)]
    BY <1>1, <1>3, ConcatProperties
  <2>2. \A i \in 1..active : i \in 1..(Len(k) + Len(pending)) /\ i <= Len(k)
    BY <1>1, <1>3 DEF n
  <2> QED
    BY <1>2, <2>1, <2>2
<1>6. DOMAIN k = 1..active
  BY <1>1, LenProperties
<1>7. InFlight = {k[i] : i \in 1..active}
  BY <1>1, <1>6 DEF ToSet
<1>8. Pool!Served(Line) = {Line[i] : i \in 1..active}
  BY <1>4 DEF Pool!Served
<1> QED
  BY <1>5, <1>7, <1>8

\* The line as the lemmas about orders write it.
LEMMA LineIsKept == Line = Keep(accepted, OpenIn(phase)) /\ Unfinished = OpenIn(phase)
<1>1. Unfinished = OpenIn(phase)
  BY DEF Unfinished, InFlight, OpenIn, FlyingIn
<1> QED
  BY <1>1 DEF Line

LEMMA OrderAfterStep ==
    ASSUME QueueInvariant', InOrder(accepted', pending', phase')
    PROVE  /\ LineInvariant'
           /\ InFlight' = Pool!Served(Line')
           /\ Line' = Keep(accepted', OpenIn(phase'))
<1>1. LineInvariant'
  <2>1. InOrder(accepted, pending, phase)'
    BY DEF InOrder, OpenIn, FlyingIn
  <2> QED
    BY <2>1, LineIsInOrder, PTL
<1>2. (InFlight = Pool!Served(Line))'
  BY <1>1, FrontIsServed, PTL
<1>3. (Line = Keep(accepted, OpenIn(phase)))'
  BY LineIsKept, PTL
<1>4. InFlight' = Pool!Served(Line')
  BY <1>2 DEF Pool!Served
<1>5. Line' = Keep(accepted', OpenIn(phase'))
  BY <1>3 DEF OpenIn, FlyingIn
<1> QED
  BY <1>1, <1>4, <1>5

\* The pool's own copies of two operators are those of the queue.
LEMMA SameOperators ==
    ASSUME NEW s, NEW S
    PROVE  Pool!Keep(s, S) = Keep(s, S) /\ Pool!ToSet(s) = ToSet(s)
<1>1. Pool!Keep(s, S) = Keep(s, S)
  BY DEF Keep, Pool!Keep
<1>2. Pool!ToSet(s) = ToSet(s)
  BY DEF ToSet, Pool!ToSet
<1> QED
  BY <1>1, <1>2

\* The jobs in S leave the line, those who stay keep their places, and drain or
\* the shutdown does the rest.
LEMMA LeaversLeavePool ==
    ASSUME QueueInvariant, LineInvariant, QueueInvariant',
           NEW S, S # {}, S \subseteq Unfinished, accepted' = accepted,
           NEW ph1, ph1 = [x \in Jobs |-> IF x \in S THEN "settled" ELSE phase[x]],
           InOrder(accepted, pending', phase'), OpenIn(phase') = OpenIn(ph1),
           finishes' = [x \in Jobs |-> IF x \in S THEN finishes[x] + 1 ELSE finishes[x]]
    PROVE  LineInvariant' /\ Pool!Next
<1>1. /\ LineInvariant'
      /\ InFlight' = Pool!Served(Line')
      /\ Line' = Keep(accepted, OpenIn(phase'))
  BY OrderAfterStep
<1>2. InOrder(accepted, pending, phase) /\ phase \in [Jobs -> Phase]
  BY LineIsInOrder DEF QueueInvariant, TypeOK
<1>3. Keep(accepted, OpenIn(ph1)) = Keep(Keep(accepted, OpenIn(phase)), Jobs \ S)
  <2>1. S \subseteq OpenIn(phase)
    BY LineIsKept
  <2> QED
    BY <1>2, <2>1, LeaversKeepOrder
<1>4. Line' = Keep(Line, Jobs \ S)
  BY <1>1, <1>3, LineIsKept
<1>5. S \in SUBSET ToSet(Line)
  BY LineLength
<1>6. Pool!Leave(S)
  BY <1>1, <1>4, SameOperators DEF Pool!Leave
<1> QED
  BY <1>1, <1>5, <1>6, SameOperators DEF Pool!Next

\* Accepting a job admits it to the pool.
LEMMA AcceptJobAdmits ==
    ASSUME QueueInvariant, LineInvariant, QueueInvariant', NEW j \in Jobs, AcceptJob(j)
    PROVE  LineInvariant' /\ Pool!Next
<1> DEFINE acc1 == Append(accepted, j)
           p1   == Append(pending, j)
           st1  == [status EXCEPT ![j] = "queued"]
           ph1  == [phase EXCEPT ![j] = "queued"]
<1>1. /\ phase[j] = "resolving" /\ phase \in [Jobs -> Phase]
      /\ active + Len(pending) < MaxConcurrent + MaxQueue
      /\ accepted' = acc1 /\ UNCHANGED finishes
      /\ Drain(p1, active, st1, ph1, aborts)
  BY DEF AcceptJob, HasRoom, QueueInvariant, TypeOK
<1>2. InOrder(accepted, pending, phase)
  BY LineIsInOrder
<1>3. /\ InOrder(acc1, p1, ph1)
      /\ Keep(acc1, OpenIn(ph1)) = Append(Keep(accepted, OpenIn(phase)), j)
      /\ j \notin OpenIn(phase)
  BY <1>1, <1>2, NewcomerKeepsOrder
<1>4. active >= MaxConcurrent - 1 \/ Len(p1) <= 1
  <2>1. Len(p1) = Len(pending) + 1
    BY SlotsTaken, AppendProperties
  <2> QED
    BY <2>1, SlotsTaken
<1>5. ph1 \in [Jobs -> Phase] /\ active \in Int
  BY <1>1, SlotsTaken DEF Phase
<1> HIDE DEF acc1, p1, st1, ph1
<1>6. InOrder(acc1, pending', phase') /\ OpenIn(phase') = OpenIn(ph1)
  BY <1>1, <1>3, <1>4, <1>5, DrainKeepsOrder
<1>7. /\ LineInvariant'
      /\ InFlight' = Pool!Served(Line')
      /\ Line' = Keep(accepted', OpenIn(phase'))
  BY <1>1, <1>6, OrderAfterStep
<1>8. Line' = Append(Line, j)
  BY <1>1, <1>3, <1>6, <1>7, LineIsKept
<1>9. Len(Line) < MaxConcurrent + MaxQueue /\ j \notin ToSet(Line)
  BY <1>1, <1>3, LineLength, LineIsKept
<1>10. finishes[j] = 0
  BY <1>1 DEF QueueInvariant, ReportedOnce
<1>11. Pool!Admit(j)
  BY <1>1, <1>7, <1>8, <1>9, <1>10, SameOperators DEF Pool!Admit
<1> QED
  BY <1>7, <1>11 DEF Pool!Next

\* Cancelling a job that waits lets it leave the pool from its place.
LEMMA CancelQueuedLeaves ==
    ASSUME QueueInvariant, LineInvariant, QueueInvariant', NEW j \in Jobs, CancelQueued(j)
    PROVE  LineInvariant' /\ Pool!Next
<1> DEFINE st1 == [status EXCEPT ![j] = "cancelled"]
           ph1 == [phase EXCEPT ![j] = "settled"]
<1>1. PICK i \in 1..Len(pending) :
         pending[i] = j /\ Drain(RemoveAt(pending, i), active, st1, ph1, aborts)
  BY DEF CancelQueued
<1> DEFINE p1 == RemoveAt(pending, i)
<1>2. /\ accepted' = accepted
      /\ finishes' = [x \in Jobs |-> IF x \in {j} THEN finishes[x] + 1 ELSE finishes[x]]
  BY DEF CancelQueued, OnFinish
<1>3. /\ InOrder(accepted, pending, phase) /\ phase \in [Jobs -> Phase]
      /\ pending \in Seq(Jobs) /\ IsInjective(pending)
      /\ ToSet(pending) = {x \in Jobs : phase[x] = "queued"}
  BY LineIsInOrder DEF QueueInvariant, TypeOK, PendingIsLive
<1>4. p1 = Keep(pending, Jobs \ {j}) /\ Len(p1) = Len(pending) - 1
  <2>1. RemoveAt(pending, i) = Keep(pending, Jobs \ {pending[i]})
    BY <1>3, RemoveIsKeep
  <2>2. Len(RemoveAt(pending, i)) = Len(pending) - 1
    BY <1>3, RemoveAtProperties
  <2> QED
    BY <1>1, <2>1, <2>2
<1>5. {j} \subseteq OpenIn(phase)
  <2>1. DOMAIN pending = 1..Len(pending)
    BY SlotsTaken, LenProperties
  <2>2. j \in ToSet(pending)
    BY <1>1, <2>1 DEF ToSet
  <2> QED
    BY <1>3, <2>2 DEF OpenIn
<1>6. ph1 = [x \in Jobs |-> IF x \in {j} THEN "settled" ELSE phase[x]] /\ ph1 \in [Jobs -> Phase]
  BY <1>3 DEF Phase
<1>7. active >= MaxConcurrent - 1 \/ Len(p1) <= 1
  <2>1. pending # <<>>
    BY <1>1, SlotsTaken
  <2> QED
    BY <2>1, SlotsTaken
<1>8. Drain(p1, active, st1, ph1, aborts) /\ active \in Int
  BY <1>1, SlotsTaken
<1> HIDE DEF p1, st1, ph1
<1>9. InOrder(accepted, p1, ph1)
  BY <1>3, <1>4, <1>5, <1>6, LeaversKeepOrder
<1>10. InOrder(accepted, pending', phase') /\ OpenIn(phase') = OpenIn(ph1)
  BY <1>6, <1>7, <1>8, <1>9, DrainKeepsOrder
<1>11. {j} # {} /\ {j} \subseteq Unfinished
  BY <1>5, LineIsKept
<1> QED
  BY <1>2, <1>6, <1>10, <1>11, LeaversLeavePool

\* The end of a job's processing lets it leave from the front.
LEMMA SettleLeaves ==
    ASSUME QueueInvariant, LineInvariant, QueueInvariant',
           NEW j \in Jobs, phase[j] \in ProcessPhases, NEW s, Settle(j, s)
    PROVE  LineInvariant' /\ Pool!Next
<1> DEFINE st1 == [status EXCEPT ![j] = IF s = "running" THEN "completed" ELSE s]
           ph1 == [phase EXCEPT ![j] = "settled"]
           a1  == active - 1
           ab1 == aborts \ {j}
<1>1. /\ Drain(pending, a1, st1, ph1, ab1)
      /\ accepted' = accepted
      /\ finishes' = [x \in Jobs |-> IF x \in {j} THEN finishes[x] + 1 ELSE finishes[x]]
  BY DEF Settle, OnFinish
<1>2. /\ InOrder(accepted, pending, phase) /\ phase \in [Jobs -> Phase]
      /\ pending \in Seq(Jobs)
      /\ ToSet(pending) = {x \in Jobs : phase[x] = "queued"}
  BY LineIsInOrder DEF QueueInvariant, TypeOK, PendingIsLive
<1>3. {j} \subseteq OpenIn(phase) /\ j \notin ToSet(pending)
  BY <1>2 DEF OpenIn, FlyingIn, ProcessPhases
<1>4. pending = Keep(pending, Jobs \ {j})
  <2>1. ToSet(pending) \subseteq Jobs \ {j}
    BY <1>2, <1>3
  <2> QED
    BY <1>2, <2>1, KeepAllOrNone
<1>5. ph1 = [x \in Jobs |-> IF x \in {j} THEN "settled" ELSE phase[x]] /\ ph1 \in [Jobs -> Phase]
  BY <1>2 DEF Phase
<1>6. a1 \in Int /\ (a1 >= MaxConcurrent - 1 \/ Len(pending) <= 1)
  <2>1. pending = <<>> \/ active = MaxConcurrent
    BY SlotsTaken
  <2> QED
    BY <2>1, SlotsTaken
<1> HIDE DEF st1, ph1, a1, ab1
<1>7. InOrder(accepted, pending, ph1)
  <2> DEFINE p1 == Keep(pending, Jobs \ {j})
  <2> HIDE DEF p1
  <2>1. p1 = Keep(pending, Jobs \ {j})
    BY DEF p1
  <2>2. InOrder(accepted, p1, ph1)
    BY <1>2, <1>3, <1>5, <2>1, LeaversKeepOrder
  <2> QED
    BY <1>4, <2>1, <2>2
<1>8. InOrder(accepted, pending', phase') /\ OpenIn(phase') = OpenIn(ph1)
  BY <1>1, <1>5, <1>6, <1>7, DrainKeepsOrder
<1>9. {j} # {} /\ {j} \subseteq Unfinished
  BY <1>3, LineIsKept
<1> QED
  BY <1>1, <1>5, <1>8, <1>9, LeaversLeavePool

\* A step that leaves the order, the jobs open and those in progress alone is
\* invisible to the pool.
LEMMA OthersStutter ==
    ASSUME LineInvariant, QueueInvariant, QueueInvariant',
           UNCHANGED <<accepted, pending, finishes>>,
           \A x \in Jobs :
              \/ phase'[x] = phase[x]
              \/ phase[x] \in ProcessPhases /\ phase'[x] \in ProcessPhases
              \/ phase[x] \in {"new", "resolving"} /\ phase'[x] \in {"resolving", "refused"}
    PROVE  LineInvariant' /\ UNCHANGED Pool!vars
<1>1. phase \in [Jobs -> Phase]
  BY DEF QueueInvariant, TypeOK
<1>2. /\ FlyingIn(phase') = FlyingIn(phase) /\ OpenIn(phase') = OpenIn(phase)
      /\ {x \in Jobs : phase'[x] = "settled"} = {x \in Jobs : phase[x] = "settled"}
      /\ {x \in Jobs : phase'[x] = "queued"} = {x \in Jobs : phase[x] = "queued"}
  BY <1>1 DEF FlyingIn, OpenIn, ProcessPhases
<1>3. InOrder(accepted, pending, phase)
  BY LineIsInOrder
<1>4. InOrder(accepted', pending', phase')
  BY <1>2, <1>3 DEF InOrder
<1>5. LineInvariant' /\ Line' = Keep(accepted', OpenIn(phase'))
  BY <1>4, OrderAfterStep
<1>6. Line' = Line
  BY <1>2, <1>5, LineIsKept
<1>7. InFlight' = InFlight
  BY <1>2 DEF FlyingIn, InFlight
<1> QED
  BY <1>5, <1>6, <1>7 DEF Pool!vars

\* The shutdown sends all who wait away at once, if there are any.
LEMMA StopLeaves ==
    ASSUME QueueInvariant, LineInvariant, QueueInvariant', Stop
    PROVE  LineInvariant' /\ (Pool!Next \/ UNCHANGED Pool!vars)
<1> DEFINE S == ToSet(pending)
<1>1. /\ InOrder(accepted, pending, phase) /\ phase \in [Jobs -> Phase]
      /\ finishes \in [Jobs -> Nat]
      /\ pending \in Seq(Jobs)
      /\ S = {x \in Jobs : phase[x] = "queued"}
  BY LineIsInOrder DEF QueueInvariant, TypeOK, PendingIsLive
<1>2. /\ pending' = <<>> /\ accepted' = accepted
      /\ phase' = [x \in Jobs |-> IF x \in S THEN "settled" ELSE phase[x]]
      /\ finishes' = [x \in Jobs |-> IF x \in S THEN finishes[x] + 1 ELSE finishes[x]]
  BY DEF Stop, OnFinish
<1> HIDE DEF S
<1>3. S \subseteq OpenIn(phase)
  BY <1>1 DEF OpenIn
<1>4. <<>> = Keep(pending, Jobs \ S)
  <2>1. ToSet(pending) \cap (Jobs \ S) = {}
    BY DEF S
  <2> QED
    BY <1>1, <2>1, KeepAllOrNone
<1>5. InOrder(accepted, <<>>, phase')
  <2> DEFINE p1 == Keep(pending, Jobs \ S)
  <2> HIDE DEF p1
  <2>1. p1 = Keep(pending, Jobs \ S)
    BY DEF p1
  <2> DEFINE ph1 == phase'
  <2>2. ph1 = [x \in Jobs |-> IF x \in S THEN "settled" ELSE phase[x]]
    BY <1>2
  <2> HIDE DEF ph1
  <2>3. InOrder(accepted, p1, ph1)
    <3>1. InOrder(accepted, pending, phase) /\ phase \in [Jobs -> Phase]
      BY <1>1
    <3> QED
      BY <1>3, <2>1, <2>2, <3>1, LeaversKeepOrder
  <2> QED
    BY <1>4, <2>1, <2>3 DEF ph1
<1>6. InOrder(accepted', pending', phase')
  BY <1>2, <1>5
<1>7. CASE S # {}
  <2>1. S \subseteq Unfinished
    BY <1>3, LineIsKept
  <2>2. LineInvariant' /\ Pool!Next
    BY <1>2, <1>6, <1>7, <2>1, LeaversLeavePool
  <2> QED
    BY <2>2
<1>8. CASE S = {}
  <2>1. LineInvariant' /\ Line' = Keep(accepted', OpenIn(phase'))
    BY <1>6, OrderAfterStep
  <2>2. phase' = phase /\ finishes' = finishes
    BY <1>1, <1>2, <1>8
  <2>3. Line' = Line
    BY <1>2, <2>1, <2>2, LineIsKept
  <2>4. InFlight' = InFlight
    BY <2>2 DEF InFlight
  <2> QED
    BY <2>1, <2>2, <2>3, <2>4 DEF Pool!vars
<1> QED
  BY <1>7, <1>8

\* Every step of the worker's own code for a job.
LEMMA ProcessRefines ==
    ASSUME QueueInvariant, LineInvariant, QueueInvariant', NEW j \in Jobs, Process(j)
    PROVE  LineInvariant' /\ (Pool!Next \/ UNCHANGED Pool!vars)
<1>1. phase[j] \in ProcessPhases
  BY DEF Process, ProcessThrows, StopAtCheck, Revalidated, VersionsCaptured, StepsDone,
         WpscanDone, RenderDone, ProcessPhases
<1>2. CASE ProcessThrows(j) \/ StopAtCheck(j) \/ RenderDone(j)
  <2>1. PICK s : Settle(j, s)
    BY <1>2 DEF ProcessThrows, StopAtCheck, RenderDone
  <2>2. LineInvariant' /\ Pool!Next
    BY <1>1, <2>1, SettleLeaves
  <2> QED
    BY <2>2
<1>3. CASE Revalidated(j) \/ VersionsCaptured(j) \/ StepsDone(j) \/ WpscanDone(j)
  <2>1. PICK to \in ProcessPhases : Advance(j, to)
    BY <1>3 DEF Revalidated, VersionsCaptured, StepsDone, WpscanDone, ProcessPhases
  <2>2. /\ phase' = [phase EXCEPT ![j] = to]
        /\ UNCHANGED <<accepted, pending, finishes>>
    BY <2>1 DEF Advance, queueVars
  <2>3. \A x \in Jobs : \/ phase'[x] = phase[x]
                        \/ phase[x] \in ProcessPhases /\ phase'[x] \in ProcessPhases
    BY <1>1, <2>2 DEF QueueInvariant, TypeOK
  <2> QED
    BY <2>2, <2>3, OthersStutter
<1> QED
  BY <1>2, <1>3 DEF Process

\* A step of the queue is a step of the pool or is invisible to it.
LEMMA StepRefines ==
    ASSUME QueueInvariant, LineInvariant, QueueInvariant', [Next]_vars
    PROVE  LineInvariant' /\ (Pool!Next \/ UNCHANGED Pool!vars)
<1>1. ASSUME NEW j \in Jobs, CreateJob(j) \/ RejectTarget(j) \/ EnqueueFails(j)
      PROVE  LineInvariant' /\ UNCHANGED Pool!vars
  <2>1. PICK to : /\ phase[j] \in {"new", "resolving"} /\ to \in {"resolving", "refused"}
                  /\ phase' = [phase EXCEPT ![j] = to]
                  /\ UNCHANGED <<accepted, pending, finishes>>
    BY <1>1 DEF CreateJob, RejectTarget, EnqueueFails, queueVars
  <2>2. \A x \in Jobs :
          \/ phase'[x] = phase[x]
          \/ phase[x] \in {"new", "resolving"} /\ phase'[x] \in {"resolving", "refused"}
    BY <2>1 DEF QueueInvariant, TypeOK
  <2> QED
    BY <2>1, <2>2, OthersStutter
<1>2. ASSUME NEW j \in Jobs, AcceptJob(j)
      PROVE  LineInvariant' /\ Pool!Next
  BY <1>2, AcceptJobAdmits
<1>3. ASSUME NEW j \in Jobs, CancelQueued(j)
      PROVE  LineInvariant' /\ Pool!Next
  BY <1>3, CancelQueuedLeaves
<1>4. ASSUME NEW j \in Jobs, Process(j)
      PROVE  LineInvariant' /\ (Pool!Next \/ UNCHANGED Pool!vars)
  BY <1>4, ProcessRefines
<1>5. ASSUME \/ \E j \in Jobs : CancelRunning(j) \/ ScanTimeout(j) \/ NotificationDone(j)
             \/ \E S \in SUBSET Evictable : SweepArtifacts(S)
             \/ StopDrained \/ StopDeadline \/ Exit
             \/ UNCHANGED vars
      PROVE  LineInvariant' /\ UNCHANGED Pool!vars
  <2>1. UNCHANGED <<accepted, pending, finishes, phase>>
    BY <1>5 DEF CancelRunning, ScanTimeout, NotificationDone, SweepArtifacts, StopDrained,
                StopDeadline, Exit, vars, queueVars
  <2> QED
    BY <2>1, OthersStutter
<1>6. CASE Stop
  BY <1>6, StopLeaves
<1> QED
  BY <1>1, <1>2, <1>3, <1>4, <1>5, <1>6 DEF Next

\* Nobody is accepted before the first job.
LEMMA InitRefines == Init => LineInvariant /\ Pool!Init
<1> SUFFICES ASSUME Init PROVE LineInvariant /\ Pool!Init
  OBVIOUS
<1>1. InFlight = {} /\ Unfinished = {} /\ {j \in Jobs : phase[j] = "settled"} = {}
  BY DEF Init, InFlight, Unfinished, ProcessPhases
<1>2. Keep(accepted, InFlight) = <<>> /\ Line = <<>> /\ ToSet(accepted) = {}
  BY KeepEmpty, EmptyToSet DEF Init, Line
<1>3. IsInjective(accepted) /\ <<>> \o pending = <<>>
  BY EmptySeq, ConcatEmptySeq DEF Init, IsInjective
<1>4. LineInvariant
  BY <1>1, <1>2, <1>3 DEF LineInvariant
<1> QED
  BY <1>1, <1>2, <1>4 DEF Pool!Init, Init

\* Nobody overtakes in the worker's queue: jobs start in the order of their
\* acceptance, whatever is cancelled, fails or times out in between.
THEOREM LineNeverOvertaken == Spec => []LineInvariant
<1>1. Init => LineInvariant
  BY InitRefines
<1>2. QueueInvariant /\ QueueInvariant' /\ LineInvariant /\ [Next]_vars => LineInvariant'
  BY StepRefines
<1> QED
  BY <1>1, <1>2, QueueInvariantHolds, PTL DEF Spec

\* The worker's queue implements the first-in first-out pool: every step admits
\* one job at the end of the line, lets some leave it, or changes nothing in it.
THEOREM QueueImplementsPool == Spec => ImplementsPool
<1>1. Init => Pool!Init
  BY InitRefines
<1>2. QueueInvariant /\ QueueInvariant' /\ LineInvariant /\ [Next]_vars => [Pool!Next]_(Pool!vars)
  BY StepRefines
<1> QED
  BY <1>1, <1>2, QueueInvariantHolds, LineNeverOvertaken, PTL DEF Spec, ImplementsPool, Pool!Spec
=============================================================================
