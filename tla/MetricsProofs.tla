---------------------------- MODULE MetricsProofs ----------------------------
(***************************************************************************)
(* Proofs about the metrics, for any finite set of calls and any           *)
(* latencies.                                                              *)
(***************************************************************************)
EXTENDS Metrics, FiniteSetTheorems, WellFoundedInduction, TLAPS

(***************************************************************************)
(* Induction over the subsets of a finite set: the sets of Good are all of *)
(* them if every set is good whose proper subsets are.                     *)
(***************************************************************************)
LEMMA SubsetInduction ==
  ASSUME NEW S, IsFiniteSet(S), NEW Good,
         \A T \in SUBSET S : (\A U \in SUBSET T : U # T => U \in Good) => T \in Good
  PROVE  SUBSET S \subseteq Good
<1> DEFINE Bad == (SUBSET S) \ Good
           R == StrictSubsetOrdering(S)
<1> SUFFICES ASSUME Bad # {} PROVE FALSE
  OBVIOUS
<1>1. IsWellFoundedOn(R, SUBSET S)
  <2>1. IsWellFoundedOn(R, FiniteSubsetsOf(S))
    BY FS_StrictSubsetOrderingWellFounded
  <2>2. FiniteSubsetsOf(S) = SUBSET S
    BY FS_FiniteSubsetsOfFinite
  <2> QED
    BY <2>1, <2>2
<1>2. Bad \subseteq SUBSET S
  OBVIOUS
<1> HIDE DEF R, Bad
<1>3. \E T \in Bad : \A U \in Bad : ~(<<U, T>> \in R)
  BY <1>1, <1>2, WFMin
<1>4. PICK T \in Bad : \A U \in Bad : ~(<<U, T>> \in R)
  BY <1>3
<1>5. ASSUME NEW U \in SUBSET T, U # T PROVE U \in Good
  <2>1. T \in SUBSET S /\ U \in SUBSET S
    BY <1>2
  <2>2. <<U, T>> \in R
    BY <1>5, <2>1 DEF R, StrictSubsetOrdering
  <2> QED
    BY <1>4, <2>1, <2>2 DEF Bad
<1> QED
  BY <1>4, <1>5 DEF Bad

------------------------------------------------------------------------------
(***************************************************************************)
(* The sum of latencies.  MapThenSumSet takes the calls of a set one by    *)
(* one, in an order that nothing is known of; the lemmas show that it is   *)
(* defined, does not depend on the order and grows with the set.           *)
(***************************************************************************)
\* The sum of the latencies that a records for the calls of T.
Sum(a, T) == MapThenSumSet(LAMBDA c : a[c].latency, T)

\* The call that is taken first.
First(s) == CHOOSE x \in s : TRUE

\* f is the recursive function behind the sum, and the one that is meant.
IsFold(f, a, T) ==
    f = [s \in SUBSET T |->
            IF s = {} THEN 0
            ELSE LET x == CHOOSE x \in s : TRUE IN a[x].latency + f[s \ {x}]]
Fold(a, T) == CHOOSE f : IsFold(f, a, T)

\* What f is at the empty set and at any other subset of T.
Unrolls(f, a, T) ==
    /\ f[{}] = 0
    /\ \A s \in SUBSET T : s # {} =>
          f[s] = a[First(s)].latency + f[s \ {First(s)}]

SameLatencies(a, b, T) == \A c \in T : a[c].latency = b[c].latency
Measured(a, T) == \A c \in T : a[c].latency \in Nat

LEMMA SumIsFold ==
  ASSUME NEW a, NEW T
  PROVE  Sum(a, T) = Fold(a, T)[T]
  BY DEF Sum, Fold, IsFold, MapThenSumSet, MapThenFoldSet

LEMMA FoldIsFold ==
  ASSUME NEW a, NEW T, \E f : IsFold(f, a, T)
  PROVE  IsFold(Fold(a, T), a, T)
  BY Zenon DEF Fold

LEMMA FirstIn == ASSUME NEW s, s # {} PROVE First(s) \in s
  BY DEF First

LEMMA FoldUnrolls ==
  ASSUME NEW a, NEW f, NEW T, IsFold(f, a, T)
  PROVE  Unrolls(f, a, T)
<1>1. \A s \in SUBSET T : f[s] = IF s = {} THEN 0
                                 ELSE a[First(s)].latency + f[s \ {First(s)}]
  BY Zenon DEF IsFold, First
<1> QED
  BY <1>1 DEF Unrolls

\* The functions of two sets agree wherever the latencies do.
LEMMA FoldsAgree ==
  ASSUME NEW T, IsFiniteSet(T), NEW U, T \subseteq U, NEW a, NEW b,
         SameLatencies(a, b, T), NEW f, IsFold(f, a, T), NEW g, IsFold(g, b, U)
  PROVE  \A s \in SUBSET T : f[s] = g[s]
<1> DEFINE Good == {s \in SUBSET T : f[s] = g[s]}
<1>1. Unrolls(f, a, T) /\ Unrolls(g, b, U)
  BY FoldUnrolls
<1>2. ASSUME NEW s \in SUBSET T, \A u \in SUBSET s : u # s => u \in Good
      PROVE  s \in Good
  <2>1. CASE s = {}
    BY <1>1, <2>1 DEF Unrolls
  <2>2. CASE s # {}
    <3> DEFINE x == First(s)
    <3>1. x \in s
      BY <2>2, FirstIn
    <3> HIDE DEF x
    <3>2. f[s \ {x}] = g[s \ {x}]
      <4>1. s \ {x} \in SUBSET s /\ s \ {x} # s
        BY <3>1
      <4> QED
        BY <1>2, <4>1
    <3>3. f[s] = a[x].latency + f[s \ {x}]
      BY <1>1, <2>2 DEF x, Unrolls
    <3>4. g[s] = b[x].latency + g[s \ {x}]
      <4>1. s \in SUBSET U
        OBVIOUS
      <4> QED
        BY <1>1, <2>2, <4>1 DEF x, Unrolls
    <3>5. a[x].latency = b[x].latency
      BY <3>1 DEF SameLatencies
    <3> QED
      BY <3>2, <3>3, <3>4, <3>5
  <2> QED
    BY <2>1, <2>2
<1> HIDE DEF Good
<1>3. SUBSET T \subseteq Good
  BY <1>2, SubsetInduction
<1> QED
  BY <1>3 DEF Good

\* There is such a function, for every subset of a finite set.
LEMMA FoldExists ==
  ASSUME NEW S, IsFiniteSet(S), NEW a
  PROVE  \A T \in SUBSET S : IsFold(Fold(a, T), a, T)
<1> DEFINE Good == {T \in SUBSET S : \E f : IsFold(f, a, T)}
<1>1. ASSUME NEW T \in SUBSET S, \A U \in SUBSET T : U # T => U \in Good
      PROVE  T \in Good
  <2> DEFINE v(U) == Fold(a, U)[U]
             f == [s \in SUBSET T |->
                     IF s = {} THEN 0 ELSE a[First(s)].latency + v(s \ {First(s)})]
  <2>1. ASSUME NEW s \in SUBSET T, s # T
        PROVE  f[s] = v(s)
    <3>1. IsFold(Fold(a, s), a, s)
      <4>1. \E h : IsFold(h, a, s)
        BY <1>1, <2>1
      <4> QED
        BY <4>1, FoldIsFold
    <3>2. CASE s = {}
      <4>1. v(s) = 0
        BY <3>1, <3>2, FoldUnrolls DEF Unrolls
      <4> QED
        BY <3>2, <4>1
    <3>3. CASE s # {}
      <4> DEFINE x == First(s)
                 u == s \ {x}
      <4>1. x \in s
        BY <3>3, FirstIn
      <4>2. v(s) = a[x].latency + Fold(a, s)[u]
        <5>1. s \in SUBSET s
          OBVIOUS
        <5>2. Unrolls(Fold(a, s), a, s)
          BY <3>1, FoldUnrolls
        <5> QED
          BY <3>3, <5>1, <5>2 DEF Unrolls
      <4>3. u \in SUBSET T /\ u # T /\ u \subseteq s
        BY <4>1
      <4>4. IsFold(Fold(a, u), a, u)
        <5>1. \E h : IsFold(h, a, u)
          BY <1>1, <4>3
        <5> QED
          BY <5>1, FoldIsFold
      <4>5. IsFiniteSet(u)
        BY <4>3, FS_Subset
      <4>6. v(u) = Fold(a, s)[u]
        <5> HIDE DEF u
        <5>1. SameLatencies(a, a, u)
          BY DEF SameLatencies
        <5>2. \A w \in SUBSET u : Fold(a, u)[w] = Fold(a, s)[w]
          BY <3>1, <4>3, <4>4, <4>5, <5>1, FoldsAgree
        <5> QED
          BY <5>2
      <4>7. f[s] = a[x].latency + v(u)
        BY <3>3
      <4> QED
        BY <4>2, <4>6, <4>7
    <3> QED
      BY <3>2, <3>3
  <2>2. IsFold(f, a, T)
    <3>1. ASSUME NEW s \in SUBSET T, s # {}
          PROVE  v(s \ {First(s)}) = f[s \ {First(s)}]
      <4>1. First(s) \in s
        BY <3>1, FirstIn
      <4>2. s \ {First(s)} \in SUBSET T /\ s \ {First(s)} # T
        BY <4>1
      <4> QED
        BY <2>1, <4>2
    <3> HIDE DEF v
    <3>2. f = [s \in SUBSET T |-> IF s = {} THEN 0
                                  ELSE a[First(s)].latency + f[s \ {First(s)}]]
      BY <3>1
    <3> HIDE DEF f
    <3> QED
      BY <3>2, Zenon DEF IsFold, First
  <2> QED
    BY <2>2
<1> HIDE DEF Good
<1>2. SUBSET S \subseteq Good
  BY <1>1, SubsetInduction
<1> QED
  BY <1>2, FoldIsFold DEF Good

\* The sum takes the calls one by one.
LEMMA SumStep ==
  ASSUME NEW T, IsFiniteSet(T), NEW a
  PROVE  /\ T = {} => Sum(a, T) = 0
         /\ T # {} => Sum(a, T) = a[First(T)].latency + Sum(a, T \ {First(T)})
<1>1. IsFold(Fold(a, T), a, T)
  BY FoldExists
<1>2. Unrolls(Fold(a, T), a, T)
  BY <1>1, FoldUnrolls
<1>3. CASE T = {}
  BY <1>2, <1>3, SumIsFold DEF Unrolls
<1>4. CASE T # {}
  <2> DEFINE u == T \ {First(T)}
  <2>1. u \in SUBSET T
    OBVIOUS
  <2>2. IsFiniteSet(u)
    BY <2>1, FS_Subset
  <2>3. Sum(a, u) = Fold(a, u)[u] /\ Sum(a, T) = Fold(a, T)[T]
    BY SumIsFold
  <2>4. Fold(a, T)[T] = a[First(T)].latency + Fold(a, T)[u]
    BY <1>2, <1>4 DEF Unrolls
  <2> HIDE DEF u
  <2>5. IsFold(Fold(a, u), a, u)
    BY <2>2, FoldExists
  <2>6. \A s \in SUBSET u : Fold(a, u)[s] = Fold(a, T)[s]
    BY <1>1, <2>1, <2>2, <2>5, FoldsAgree DEF SameLatencies
  <2>7. Sum(a, T) = a[First(T)].latency + Sum(a, u)
    BY <2>3, <2>4, <2>6
  <2> QED
    BY <1>4, <2>7 DEF u
<1> QED
  BY <1>3, <1>4

\* The sum depends on the latencies of its calls only.
LEMMA SumSame ==
  ASSUME NEW T, IsFiniteSet(T), NEW a, NEW b,
         SameLatencies(a, b, T)
  PROVE  Sum(a, T) = Sum(b, T)
<1>1. IsFold(Fold(a, T), a, T) /\ IsFold(Fold(b, T), b, T)
  BY FoldExists
<1>2. \A s \in SUBSET T : Fold(a, T)[s] = Fold(b, T)[s]
  BY <1>1, FoldsAgree
<1> QED
  BY <1>2, SumIsFold

LEMMA SumNat ==
  ASSUME NEW S, IsFiniteSet(S), NEW a, Measured(a, S)
  PROVE  \A T \in SUBSET S : Sum(a, T) \in Nat
<1> DEFINE Good == {T \in SUBSET S : Sum(a, T) \in Nat}
<1>1. ASSUME NEW T \in SUBSET S, \A U \in SUBSET T : U # T => U \in Good
      PROVE  T \in Good
  <2>1. IsFiniteSet(T)
    BY FS_Subset
  <2>2. CASE T = {}
    <3>1. Sum(a, T) = 0
      BY <2>1, <2>2, SumStep
    <3> QED
      BY <3>1
  <2>3. CASE T # {}
    <3> DEFINE x == First(T)
    <3>1. x \in T
      BY <2>3, FirstIn
    <3>2. Sum(a, T) = a[x].latency + Sum(a, T \ {x})
      BY <2>1, <2>3, SumStep
    <3> HIDE DEF x
    <3>3. Sum(a, T \ {x}) \in Nat
      <4>1. T \ {x} \in SUBSET T /\ T \ {x} # T
        BY <3>1
      <4> QED
        BY <1>1, <4>1
    <3>4. a[x].latency \in Nat
      BY <3>1 DEF Measured
    <3> QED
      BY <3>2, <3>3, <3>4
  <2> QED
    BY <2>2, <2>3
<1> HIDE DEF Good
<1>2. SUBSET S \subseteq Good
  BY <1>1, SubsetInduction
<1> QED
  BY <1>2 DEF Good

\* Whichever call is taken first, the sum is the same.
LEMMA SumRemoves ==
  ASSUME NEW S, IsFiniteSet(S), NEW a, Measured(a, S)
  PROVE  \A T \in SUBSET S : \A y \in T :
            Sum(a, T) = a[y].latency + Sum(a, T \ {y})
<1> DEFINE Good == {T \in SUBSET S : \A y \in T :
                                       Sum(a, T) = a[y].latency + Sum(a, T \ {y})}
<1>1. ASSUME NEW T \in SUBSET S, \A U \in SUBSET T : U # T => U \in Good
      PROVE  T \in Good
  <2> SUFFICES ASSUME NEW y \in T
               PROVE  Sum(a, T) = a[y].latency + Sum(a, T \ {y})
    OBVIOUS
  <2> DEFINE x == First(T)
  <2>1. x \in T
    BY FirstIn
  <2>2. Sum(a, T) = a[x].latency + Sum(a, T \ {x})
    BY FS_Subset, SumStep
  <2> HIDE DEF x
  <2>3. CASE y = x
    BY <2>2, <2>3
  <2>4. CASE y # x
    <3> DEFINE rest == (T \ {x}) \ {y}
    <3>1. Sum(a, T \ {x}) = a[y].latency + Sum(a, rest)
      <4>1. T \ {x} \in SUBSET T /\ T \ {x} # T /\ y \in T \ {x}
        BY <2>1, <2>4
      <4> QED
        BY <1>1, <4>1
    <3>2. Sum(a, T \ {y}) = a[x].latency + Sum(a, rest)
      <4>1. T \ {y} \in SUBSET T /\ T \ {y} # T /\ x \in T \ {y}
        BY <2>1, <2>4
      <4>2. (T \ {y}) \ {x} = rest
        OBVIOUS
      <4> QED
        BY <1>1, <4>1, <4>2
    <3>3. Sum(a, rest) \in Nat
      <4>1. rest \in SUBSET S
        OBVIOUS
      <4> HIDE DEF rest
      <4> QED
        BY <4>1, SumNat
    <3>4. a[x].latency \in Nat /\ a[y].latency \in Nat
      BY <2>1 DEF Measured
    <3> HIDE DEF rest
    <3> QED
      BY <2>2, <3>1, <3>2, <3>3, <3>4
  <2> QED
    BY <2>3, <2>4
<1> HIDE DEF Good
<1>2. SUBSET S \subseteq Good
  BY <1>1, SubsetInduction
<1> QED
  BY <1>2 DEF Good

\* More calls never add up to less.
LEMMA SumMonotone ==
  ASSUME NEW S, IsFiniteSet(S), NEW a, Measured(a, S), NEW V \in SUBSET S
  PROVE  \A T \in SUBSET S : V \subseteq T => Sum(a, V) <= Sum(a, T)
<1> DEFINE Good == {T \in SUBSET S : V \subseteq T => Sum(a, V) <= Sum(a, T)}
<1>1. Sum(a, V) \in Nat
  BY SumNat
<1>2. ASSUME NEW T \in SUBSET S, \A U \in SUBSET T : U # T => U \in Good
      PROVE  T \in Good
  <2> SUFFICES ASSUME V \subseteq T PROVE Sum(a, V) <= Sum(a, T)
    OBVIOUS
  <2>1. CASE V = T
    BY <1>1, <2>1
  <2>2. CASE V # T
    <3>1. PICK y \in T : y \notin V
      BY <2>2
    <3>2. Sum(a, T) = a[y].latency + Sum(a, T \ {y})
      BY SumRemoves
    <3>3. Sum(a, V) <= Sum(a, T \ {y})
      <4>1. T \ {y} \in SUBSET T /\ T \ {y} # T /\ V \subseteq T \ {y}
        BY <3>1
      <4> QED
        BY <1>2, <4>1
    <3>4. Sum(a, T \ {y}) \in Nat /\ a[y].latency \in Nat
      <4>1. T \ {y} \in SUBSET S
        OBVIOUS
      <4> QED
        BY <4>1, SumNat DEF Measured
    <3> QED
      BY <1>1, <3>2, <3>3, <3>4
  <2> QED
    BY <2>1, <2>2
<1> HIDE DEF Good
<1>3. SUBSET S \subseteq Good
  BY <1>2, SubsetInduction
<1> QED
  BY <1>3 DEF Good

------------------------------------------------------------------------------
(***************************************************************************)
(* The invariant: every counter is exact for the calls that have come past *)
(* it, and every series on a page is exact for some set of calls that has  *)
(* all the calls that were over when the scrape began.                     *)
(***************************************************************************)
\* Calls that have come past the failures, and past the latency.
Judged == {c \in Calls : pc[c] \in {"latency", "buckets", "done"}}
Timed == {c \in Calls : pc[c] \in {"buckets", "done"}}

\* What the calls of S add to the failures and to the bucket of bound b.
Failed(a, S) == {c \in S : ~a[c].ok}
Within(a, S, b) == {c \in S : a[c].latency <= b}

Arguments == [ok : BOOLEAN, latency : Nat]

Types ==
    /\ pc \in [Calls -> Pcs]
    /\ arg \in [Calls -> Arguments]
    /\ buckets \in [Bounds -> Nat]
    /\ at \in {"idle", "failures", "latency", "buckets"}
    /\ page \in [requests : Nat, failures : Nat, latencyMs : Nat,
                 buckets : [Bounds -> Nat], over : SUBSET Calls,
                 counted : SUBSET Calls]

CountersExact ==
    /\ requests = Cardinality(Counted)
    /\ failures = Cardinality(Failed(arg, Judged))
    /\ latencyMs = Sum(arg, Timed)
    /\ \A b \in Bounds : buckets[b] = Cardinality(Within(arg, Over, b))

FailuresSound ==
    \E S \in SUBSET Judged :
        page.over \subseteq S /\ page.failures = Cardinality(Failed(arg, S))
LatencySound ==
    \E S \in SUBSET Timed : page.over \subseteq S /\ page.latencyMs = Sum(arg, S)
BucketsSound ==
    \E S \in SUBSET Over :
        /\ page.over \subseteq S
        /\ \A b \in Bounds : page.buckets[b] = Cardinality(Within(arg, S, b))

PageSound ==
    /\ page.over \subseteq Over
    /\ page.over \subseteq page.counted
    /\ page.counted \subseteq Counted
    /\ page.requests = Cardinality(page.counted)
    /\ at # "failures" => FailuresSound
    /\ at \in {"buckets", "idle"} => LatencySound
    /\ at = "idle" => BucketsSound

IInv == Types /\ CountersExact /\ PageSound

\* All calls are finite in number, and so are those of any kind.
LEMMA CallsFinite ==
  ASSUME NEW S \in SUBSET Calls
  PROVE  IsFiniteSet(S) /\ Cardinality(S) \in Nat
<1>1. IsFiniteSet(S)
  BY MetricsAssumption, FS_Subset DEF MetricsAssumption
<1> QED
  BY <1>1, FS_CardinalityType

\* What a set of calls adds up to depends on their own arguments only.
LEMMA SeriesSame ==
  ASSUME NEW S \in SUBSET Calls, NEW a, NEW b, \A c \in S : a[c] = b[c]
  PROVE  /\ Failed(a, S) = Failed(b, S)
         /\ \A m \in Bounds : Within(a, S, m) = Within(b, S, m)
         /\ Sum(a, S) = Sum(b, S)
<1>1. Failed(a, S) = Failed(b, S)
  BY Zenon DEF Failed
<1>2. \A m \in Bounds : Within(a, S, m) = Within(b, S, m)
  BY DEF Within
<1>3. SameLatencies(a, b, S)
  BY DEF SameLatencies
<1>4. Sum(a, S) = Sum(b, S)
  BY <1>3, CallsFinite, SumSame
<1> QED
  BY <1>1, <1>2, <1>4

\* A page stays sound while calls go on.
LEMMA PageStays ==
  ASSUME IInv, UNCHANGED <<page, at>>, Counted \subseteq Counted',
         Judged \subseteq Judged', Timed \subseteq Timed', Over \subseteq Over',
         \A c \in Judged : arg'[c] = arg[c]
  PROVE  PageSound'
<1>1. Over \subseteq Judged /\ Timed \subseteq Judged /\ Judged \subseteq Calls
  BY DEF Over, Timed, Judged
<1>2. ASSUME FailuresSound PROVE FailuresSound'
  <2>1. PICK S \in SUBSET Judged : page.over \subseteq S
                                   /\ page.failures = Cardinality(Failed(arg, S))
    BY <1>2 DEF FailuresSound
  <2>2. S \in SUBSET Calls /\ \A c \in S : arg'[c] = arg[c]
    BY <1>1
  <2>3. Failed(arg', S) = Failed(arg, S)
    BY <2>2, SeriesSame
  <2> QED
    BY <2>1, <2>3 DEF FailuresSound
<1>3. ASSUME LatencySound PROVE LatencySound'
  <2>1. PICK S \in SUBSET Timed : page.over \subseteq S
                                  /\ page.latencyMs = Sum(arg, S)
    BY <1>3 DEF LatencySound
  <2>2. S \in SUBSET Calls /\ \A c \in S : arg'[c] = arg[c]
    BY <1>1
  <2>3. Sum(arg', S) = Sum(arg, S)
    BY <2>2, SeriesSame
  <2> QED
    BY <2>1, <2>3 DEF LatencySound
<1>4. ASSUME BucketsSound PROVE BucketsSound'
  <2>1. PICK S \in SUBSET Over :
               /\ page.over \subseteq S
               /\ \A b \in Bounds : page.buckets[b] = Cardinality(Within(arg, S, b))
    BY <1>4 DEF BucketsSound
  <2>2. S \in SUBSET Calls /\ \A c \in S : arg'[c] = arg[c]
    BY <1>1
  <2>3. \A b \in Bounds : Within(arg', S, b) = Within(arg, S, b)
    BY <2>2, SeriesSame
  <2> QED
    BY <2>1, <2>3 DEF BucketsSound
<1> QED
  BY <1>2, <1>3, <1>4 DEF IInv, PageSound

\* The first bucket that fits exists, and a bucket counts from there on exactly
\* if the latency fits.
LEMMA RaisedBuckets ==
  ASSUME buckets \in [Bounds -> Nat], NEW l \in Nat
  PROVE  /\ Raised(l) \in [Bounds -> Nat]
         /\ \A b \in Bounds : Raised(l)[b] = IF l <= b THEN buckets[b] + 1
                                                       ELSE buckets[b]
<1> DEFINE fitting == {b \in Bounds : l <= b}
<1>1. fitting # {} => \E x \in fitting : \A y \in fitting : x <= y
  <2>1. CASE l <= 50
    BY <2>1 DEF Bounds
  <2>2. CASE l > 50 /\ l <= 100
    BY <2>2 DEF Bounds
  <2>3. CASE l > 100 /\ l <= 250
    BY <2>3 DEF Bounds
  <2>4. CASE l > 250 /\ l <= 500
    BY <2>4 DEF Bounds
  <2>5. CASE l > 500 /\ l <= 1000
    BY <2>5 DEF Bounds
  <2>6. CASE l > 1000 /\ l <= 5000
    BY <2>6 DEF Bounds
  <2>7. CASE l > 5000
    BY <2>7 DEF Bounds
  <2> QED
    BY <2>1, <2>2, <2>3, <2>4, <2>5, <2>6, <2>7
<1>2. fitting # {} => Min(fitting) \in fitting /\ \A y \in fitting : Min(fitting) <= y
  BY <1>1 DEF Min
<1>3. ASSUME NEW b \in Bounds
      PROVE  (fitting # {} /\ b >= Min(fitting)) <=> l <= b
  <2>1. b \in Nat
    BY DEF Bounds
  <2>2. ASSUME l <= b PROVE fitting # {} /\ b >= Min(fitting)
    <3>1. b \in fitting
      BY <2>2
    <3>2. Min(fitting) \in Nat /\ Min(fitting) <= b
      BY <1>2, <3>1 DEF Bounds
    <3> QED
      BY <2>1, <3>1, <3>2
  <2>3. ASSUME fitting # {}, b >= Min(fitting) PROVE l <= b
    <3>1. Min(fitting) \in Nat /\ l <= Min(fitting)
      BY <1>2, <2>3 DEF Bounds
    <3> QED
      BY <2>1, <2>3, <3>1
  <2> QED
    BY <2>2, <2>3
<1>4. Raised(l) = [b \in Bounds |-> IF fitting # {} /\ b >= Min(fitting)
                                    THEN buckets[b] + 1 ELSE buckets[b]]
  BY DEF Raised
<1> HIDE DEF fitting
<1> QED
  BY <1>3, <1>4

LEMMA InitIInv == Init => IInv
<1> SUFFICES ASSUME Init PROVE IInv
  OBVIOUS
<1>1. Counted = {} /\ Judged = {} /\ Timed = {} /\ Over = {}
  BY DEF Init, Counted, Judged, Timed, Over
<1>2. /\ Cardinality({}) = 0 /\ Sum(arg, {}) = 0 /\ Failed(arg, {}) = {}
      /\ \A b \in Bounds : Within(arg, {}, b) = {}
  <2>1. IsFiniteSet({}) /\ Cardinality({}) = 0
    BY FS_EmptySet
  <2>2. Sum(arg, {}) = 0
    BY <2>1, SumStep
  <2> QED
    BY <2>1, <2>2 DEF Failed, Within
<1>3. /\ page.requests = 0 /\ page.failures = 0 /\ page.latencyMs = 0
      /\ page.buckets = NoBuckets /\ page.over = {} /\ page.counted = {}
      /\ NoBuckets \in [Bounds -> Nat] /\ \A b \in Bounds : NoBuckets[b] = 0
  BY DEF Init, NoPage, NoBuckets
<1>4. page \in [requests : Nat, failures : Nat, latencyMs : Nat,
                buckets : [Bounds -> Nat], over : SUBSET Calls, counted : SUBSET Calls]
  BY <1>3 DEF Init, NoPage
<1>5. arg \in [Calls -> Arguments]
  <2>1. NoCall \in Arguments
    BY DEF NoCall, Arguments
  <2> QED
    BY <2>1 DEF Init
<1>6. Types
  BY <1>3, <1>4, <1>5 DEF Init, Types, Pcs
<1>7. CountersExact
  BY <1>1, <1>2, <1>3 DEF Init, CountersExact
<1>8. FailuresSound /\ LatencySound /\ BucketsSound
  BY <1>1, <1>2, <1>3 DEF FailuresSound, LatencySound, BucketsSound
<1>9. PageSound
  BY <1>1, <1>2, <1>3, <1>8 DEF PageSound
<1> QED
  BY <1>6, <1>7, <1>9 DEF IInv

\* One more call in a set of calls.
LEMMA OneMore ==
  ASSUME NEW S \in SUBSET Calls, NEW c \in Calls, c \notin S
  PROVE  \A T \in SUBSET S : Cardinality(T \cup {c}) = Cardinality(T) + 1
<1> SUFFICES ASSUME NEW T \in SUBSET S
             PROVE  Cardinality(T \cup {c}) = Cardinality(T) + 1
  OBVIOUS
<1>1. IsFiniteSet(T) /\ c \notin T
  BY CallsFinite
<1> QED
  BY <1>1, FS_AddElement

LEMMA OneMoreFailed ==
  ASSUME NEW S \in SUBSET Calls, NEW a, NEW c \in Calls, c \notin S
  PROVE  /\ a[c].ok => Failed(a, S \cup {c}) = Failed(a, S)
         /\ ~a[c].ok => Cardinality(Failed(a, S \cup {c})) = Cardinality(Failed(a, S)) + 1
<1>1. a[c].ok => Failed(a, S \cup {c}) = Failed(a, S)
  BY Zenon DEF Failed
<1>2. ASSUME ~a[c].ok
      PROVE  Cardinality(Failed(a, S \cup {c})) = Cardinality(Failed(a, S)) + 1
  <2>1. Failed(a, S \cup {c}) = Failed(a, S) \cup {c}
    BY <1>2, Zenon DEF Failed
  <2>2. Failed(a, S) \in SUBSET S
    BY DEF Failed
  <2> QED
    BY <2>1, <2>2, OneMore
<1> QED
  BY <1>1, <1>2

LEMMA OneMoreTimed ==
  ASSUME NEW S \in SUBSET Calls, NEW a, NEW c \in Calls, c \notin S,
         Measured(a, Calls)
  PROVE  Sum(a, S \cup {c}) = Sum(a, S) + a[c].latency
<1> DEFINE T == S \cup {c}
<1>1. T \in SUBSET Calls /\ c \in T /\ T \ {c} = S
  OBVIOUS
<1> HIDE DEF T
<1>2. Sum(a, T) = a[c].latency + Sum(a, T \ {c})
  BY <1>1, MetricsAssumption, SumRemoves DEF MetricsAssumption
<1>3. Sum(a, T) = a[c].latency + Sum(a, S)
  BY <1>1, <1>2
<1>4. Sum(a, S) \in Nat /\ a[c].latency \in Nat
  BY MetricsAssumption, SumNat DEF MetricsAssumption, Measured
<1>5. Sum(a, T) = Sum(a, S) + a[c].latency
  BY <1>3, <1>4
<1> QED
  BY <1>5 DEF T

LEMMA OneMoreWithin ==
  ASSUME NEW S \in SUBSET Calls, NEW a, NEW c \in Calls, c \notin S, NEW b
  PROVE  Cardinality(Within(a, S \cup {c}, b)) =
           IF a[c].latency <= b THEN Cardinality(Within(a, S, b)) + 1
                                ELSE Cardinality(Within(a, S, b))
<1>1. CASE a[c].latency <= b
  <2>1. Within(a, S \cup {c}, b) = Within(a, S, b) \cup {c}
    BY <1>1 DEF Within
  <2>2. Within(a, S, b) \in SUBSET S
    BY DEF Within
  <2> QED
    BY <1>1, <2>1, <2>2, OneMore
<1>2. CASE ~(a[c].latency <= b)
  <2>1. Within(a, S \cup {c}, b) = Within(a, S, b)
    BY <1>2 DEF Within
  <2> QED
    BY <1>2, <2>1
<1> QED
  BY <1>1, <1>2

\* Count, step by step.
LEMMA CountKeeps ==
  ASSUME IInv, NEW c \in Calls,
         \/ \E ok \in BOOLEAN, l \in Latencies : Call(c, ok, l)
         \/ Count(c)
  PROVE  IInv'
<1>1. /\ Counted \subseteq Calls /\ Judged \subseteq Calls /\ Timed \subseteq Calls
      /\ Over \subseteq Calls
  BY DEF Counted, Judged, Timed, Over
<1>2. Types /\ arg[c] \in Arguments /\ arg[c].latency \in Nat /\ Measured(arg, Calls)
  BY DEF IInv, Types, Arguments, Measured
<1>3. ASSUME NEW ok \in BOOLEAN, NEW l \in Latencies, Call(c, ok, l)
      PROVE  IInv'
  <2>1. l \in Nat /\ [ok |-> ok, latency |-> l] \in Arguments
    BY MetricsAssumption DEF MetricsAssumption, Arguments
  <2>2. Types'
    BY <1>2, <1>3, <2>1 DEF Call, Goto, Types, Pcs
  <2>3. Counted' = Counted /\ Judged' = Judged /\ Timed' = Timed /\ Over' = Over
    BY <1>2, <1>3 DEF Call, Goto, Types, Counted, Judged, Timed, Over
  <2>4. /\ \A d \in Judged : arg'[d] = arg[d]
        /\ Over \subseteq Judged /\ Timed \subseteq Judged
    BY <1>2, <1>3 DEF Call, Types, Judged, Over, Timed
  <2>5. /\ Failed(arg', Judged) = Failed(arg, Judged)
        /\ \A b \in Bounds : Within(arg', Over, b) = Within(arg, Over, b)
        /\ Sum(arg', Timed) = Sum(arg, Timed)
    <3>1. Failed(arg', Judged) = Failed(arg, Judged)
      BY <1>1, <2>4, SeriesSame
    <3>2. Sum(arg', Timed) = Sum(arg, Timed)
      <4>1. \A d \in Timed : arg'[d] = arg[d]
        BY <2>4
      <4> QED
        BY <1>1, <4>1, SeriesSame
    <3>3. \A b \in Bounds : Within(arg', Over, b) = Within(arg, Over, b)
      <4>1. \A d \in Over : arg'[d] = arg[d]
        BY <2>4
      <4> QED
        BY <1>1, <4>1, SeriesSame
    <3> QED
      BY <3>1, <3>2, <3>3
  <2>6. CountersExact'
    BY <1>3, <2>3, <2>5 DEF Call, IInv, CountersExact
  <2>7. PageSound'
    BY <1>3, <2>3, <2>4, PageStays DEF Call
  <2> QED
    BY <2>2, <2>6, <2>7 DEF IInv
<1>4. CASE AddRequests(c)
  <2>1. Types'
    BY <1>2, <1>4 DEF AddRequests, Goto, Types, Pcs
  <2>2. /\ Counted' = Counted \cup {c} /\ c \notin Counted
        /\ Judged' = Judged /\ Timed' = Timed /\ Over' = Over
    BY <1>2, <1>4 DEF AddRequests, Goto, Types, Counted, Judged, Timed, Over
  <2>3. Cardinality(Counted') = Cardinality(Counted) + 1
    BY <1>1, <2>2, OneMore
  <2>4. CountersExact'
    BY <1>4, <2>2, <2>3 DEF AddRequests, IInv, CountersExact
  <2>5. PageSound'
    BY <1>4, <2>2, PageStays DEF AddRequests
  <2> QED
    BY <2>1, <2>4, <2>5 DEF IInv
<1>5. CASE AddFailures(c)
  <2>1. Types'
    BY <1>2, <1>5 DEF AddFailures, Goto, Types, Pcs
  <2>2. /\ Judged' = Judged \cup {c} /\ c \notin Judged
        /\ Counted' = Counted /\ Timed' = Timed /\ Over' = Over
    BY <1>2, <1>5 DEF AddFailures, Goto, Types, Counted, Judged, Timed, Over
  <2>3. failures' = Cardinality(Failed(arg, Judged \cup {c}))
    <3>1. CASE arg[c].ok
      BY <1>1, <1>5, <2>2, <3>1, OneMoreFailed DEF AddFailures, IInv, CountersExact
    <3>2. CASE ~arg[c].ok
      BY <1>1, <1>5, <2>2, <3>2, OneMoreFailed DEF AddFailures, IInv, CountersExact
    <3> QED
      BY <3>1, <3>2
  <2>4. CountersExact'
    BY <1>5, <2>2, <2>3 DEF AddFailures, IInv, CountersExact
  <2>5. PageSound'
    BY <1>5, <2>2, PageStays DEF AddFailures
  <2> QED
    BY <2>1, <2>4, <2>5 DEF IInv
<1>6. CASE AddLatency(c)
  <2>1. Types'
    BY <1>2, <1>6 DEF AddLatency, Goto, Types, Pcs
  <2>2. /\ Timed' = Timed \cup {c} /\ c \notin Timed
        /\ Counted' = Counted /\ Judged' = Judged /\ Over' = Over
    BY <1>2, <1>6 DEF AddLatency, Goto, Types, Counted, Judged, Timed, Over
  <2>3. Sum(arg, Timed \cup {c}) = Sum(arg, Timed) + arg[c].latency
    BY <1>1, <1>2, <2>2, OneMoreTimed
  <2>4. CountersExact'
    BY <1>6, <2>2, <2>3 DEF AddLatency, IInv, CountersExact
  <2>5. PageSound'
    BY <1>6, <2>2, PageStays DEF AddLatency
  <2> QED
    BY <2>1, <2>4, <2>5 DEF IInv
<1>7. CASE AddBuckets(c)
  <2>1. /\ buckets' \in [Bounds -> Nat]
        /\ \A b \in Bounds : buckets'[b] = IF arg[c].latency <= b THEN buckets[b] + 1
                                                                  ELSE buckets[b]
    BY <1>2, <1>7, RaisedBuckets DEF AddBuckets, Types
  <2>2. Types'
    BY <1>2, <1>7, <2>1 DEF AddBuckets, Goto, Types, Pcs
  <2>3. /\ Over' = Over \cup {c} /\ c \notin Over
        /\ Counted' = Counted /\ Judged' = Judged /\ Timed' = Timed
    BY <1>2, <1>7 DEF AddBuckets, Goto, Types, Counted, Judged, Timed, Over
  <2>4. \A b \in Bounds :
           Cardinality(Within(arg, Over \cup {c}, b)) =
             IF arg[c].latency <= b THEN Cardinality(Within(arg, Over, b)) + 1
                                    ELSE Cardinality(Within(arg, Over, b))
    BY <1>1, <2>3, OneMoreWithin
  <2>5. CountersExact'
    BY <1>7, <2>1, <2>3, <2>4 DEF AddBuckets, IInv, CountersExact
  <2>6. PageSound'
    BY <1>7, <2>3, PageStays DEF AddBuckets
  <2> QED
    BY <2>2, <2>5, <2>6 DEF IInv
<1> QED
  BY <1>3, <1>4, <1>5, <1>6, <1>7 DEF Count

Pages == [requests : Nat, failures : Nat, latencyMs : Nat, buckets : [Bounds -> Nat],
          over : SUBSET Calls, counted : SUBSET Calls]

\* Handler, step by step.
LEMMA ScrapeKeeps == IInv /\ Scrape => IInv'
<1> SUFFICES ASSUME IInv, Scrape PROVE IInv'
  OBVIOUS
<1>1. /\ Types /\ page \in Pages /\ CountersExact
      /\ Counted \subseteq Calls /\ Judged \subseteq Calls /\ Timed \subseteq Calls
      /\ Over \subseteq Calls
  BY DEF IInv, Types, Pages, Counted, Judged, Timed, Over
<1>2. requests \in Nat /\ failures \in Nat /\ latencyMs \in Nat
  <2>1. Failed(arg, Judged) \in SUBSET Calls
    BY <1>1 DEF Failed
  <2>2. Measured(arg, Calls)
    BY <1>1 DEF Types, Arguments, Measured
  <2>3. Sum(arg, Timed) \in Nat
    BY <1>1, <2>2, MetricsAssumption, SumNat DEF MetricsAssumption
  <2> QED
    BY <1>1, <2>1, <2>3, CallsFinite DEF CountersExact
<1>3. Over \subseteq Counted /\ Over \subseteq Judged /\ Over \subseteq Timed
  BY DEF Over, Counted, Judged, Timed
<1>4. UNCHANGED <<requests, failures, latencyMs, buckets, pc, arg>>
  BY DEF Scrape, LoadRequests, LoadFailures, LoadLatency, CopyBuckets
<1>5. Counted' = Counted /\ Judged' = Judged /\ Timed' = Timed /\ Over' = Over
  BY <1>4 DEF Counted, Judged, Timed, Over
<1>6. CountersExact'
  BY <1>1, <1>4, <1>5 DEF CountersExact
<1>7. CASE LoadRequests
  <2>1. /\ page' \in Pages /\ page'.requests = requests /\ page'.over = Over
        /\ page'.counted = Counted
    BY <1>1, <1>2, <1>7 DEF LoadRequests, NoPage, NoBuckets, Pages
  <2>2. PageSound'
    BY <1>1, <1>3, <1>5, <1>7, <2>1 DEF LoadRequests, PageSound, CountersExact
  <2>3. Types'
    BY <1>1, <1>4, <1>7, <2>1 DEF LoadRequests, Types, Pages
  <2> QED
    BY <1>6, <2>2, <2>3 DEF IInv
<1>8. CASE LoadFailures
  <2>1. /\ page' \in Pages /\ page'.requests = page.requests /\ page'.over = page.over
        /\ page'.counted = page.counted /\ page'.failures = failures
    BY <1>1, <1>2, <1>8 DEF LoadFailures, Pages
  <2>2. FailuresSound'
    BY <1>1, <1>3, <1>4, <1>5, <2>1 DEF FailuresSound, IInv, PageSound, CountersExact
  <2>3. PageSound'
    BY <1>5, <1>8, <2>1, <2>2 DEF LoadFailures, IInv, PageSound
  <2>4. Types'
    BY <1>1, <1>4, <1>8, <2>1 DEF LoadFailures, Types, Pages
  <2> QED
    BY <1>6, <2>3, <2>4 DEF IInv
<1>9. CASE LoadLatency
  <2>1. /\ page' \in Pages /\ page'.requests = page.requests /\ page'.over = page.over
        /\ page'.counted = page.counted /\ page'.failures = page.failures
        /\ page'.latencyMs = latencyMs
    BY <1>1, <1>2, <1>9 DEF LoadLatency, Pages
  <2>2. FailuresSound'
    BY <1>4, <1>5, <1>9, <2>1 DEF LoadLatency, FailuresSound, IInv, PageSound
  <2>3. LatencySound'
    BY <1>1, <1>3, <1>4, <1>5, <2>1 DEF LatencySound, IInv, PageSound, CountersExact
  <2>4. PageSound'
    BY <1>5, <1>9, <2>1, <2>2, <2>3 DEF LoadLatency, IInv, PageSound
  <2>5. Types'
    BY <1>1, <1>4, <1>9, <2>1 DEF LoadLatency, Types, Pages
  <2> QED
    BY <1>6, <2>4, <2>5 DEF IInv
<1>10. CASE CopyBuckets
  <2>1. /\ page' \in Pages /\ page'.requests = page.requests /\ page'.over = page.over
        /\ page'.counted = page.counted /\ page'.failures = page.failures
        /\ page'.latencyMs = page.latencyMs /\ page'.buckets = buckets
    BY <1>1, <1>10 DEF CopyBuckets, Pages, Types
  <2>2. FailuresSound' /\ LatencySound'
    BY <1>4, <1>5, <1>10, <2>1 DEF CopyBuckets, FailuresSound, LatencySound, IInv,
       PageSound
  <2>3. BucketsSound'
    BY <1>1, <1>4, <1>5, <2>1 DEF BucketsSound, IInv, PageSound, CountersExact
  <2>4. PageSound'
    BY <1>5, <1>10, <2>1, <2>2, <2>3 DEF CopyBuckets, IInv, PageSound
  <2>5. Types'
    BY <1>1, <1>4, <1>10, <2>1 DEF CopyBuckets, Types, Pages
  <2> QED
    BY <1>6, <2>4, <2>5 DEF IInv
<1> QED
  BY <1>7, <1>8, <1>9, <1>10 DEF Scrape

LEMMA NextIInv == IInv /\ [Next]_vars => IInv'
<1> SUFFICES ASSUME IInv, [Next]_vars PROVE IInv'
  OBVIOUS
<1>1. CASE Next
  BY <1>1, CountKeeps, ScrapeKeeps DEF Next
<1>2. CASE UNCHANGED vars
  <2>1. Types' /\ Counted' = Counted /\ Judged' = Judged /\ Timed' = Timed /\ Over' = Over
    BY <1>2 DEF vars, IInv, Types, Counted, Judged, Timed, Over
  <2>2. CountersExact'
    BY <1>2, <2>1 DEF vars, IInv, CountersExact
  <2>3. PageSound'
    BY <1>2, <2>1, PageStays DEF vars
  <2> QED
    BY <2>1, <2>2, <2>3 DEF IInv
<1> QED
  BY <1>1, <1>2

LEMMA SpecIInv == Spec => []IInv
  BY InitIInv, NextIInv, PTL DEF Spec

------------------------------------------------------------------------------
(***************************************************************************)
(* Theorems.                                                               *)
(***************************************************************************)
\* More calls never add less to any series.
LEMMA SeriesGrow ==
  ASSUME Types, NEW T \in SUBSET Calls, NEW S \in SUBSET T
  PROVE  /\ Cardinality(S) <= Cardinality(T)
         /\ Cardinality(Failed(arg, S)) <= Cardinality(Failed(arg, T))
         /\ Sum(arg, S) <= Sum(arg, T)
         /\ \A b \in Bounds :
               Cardinality(Within(arg, S, b)) <= Cardinality(Within(arg, T, b))
<1>1. \A V \in SUBSET Calls : \A U \in SUBSET V : Cardinality(U) <= Cardinality(V)
  BY CallsFinite, FS_Subset
<1>2. Failed(arg, T) \in SUBSET Calls /\ Failed(arg, S) \in SUBSET Failed(arg, T)
  BY DEF Failed
<1>3. \A b \in Bounds : /\ Within(arg, T, b) \in SUBSET Calls
                        /\ Within(arg, S, b) \in SUBSET Within(arg, T, b)
  BY DEF Within
<1>4. Sum(arg, S) <= Sum(arg, T)
  <2>1. Measured(arg, Calls)
    BY DEF Types, Arguments, Measured
  <2>2. S \in SUBSET Calls
    OBVIOUS
  <2> QED
    BY <2>1, <2>2, MetricsAssumption, SumMonotone DEF MetricsAssumption
<1> QED
  BY <1>1, <1>2, <1>3, <1>4

\* What Exact says of a set of calls.
LEMMA ExactSeries ==
  ASSUME NEW S
  PROVE  /\ Exact(S).requests = Cardinality(S)
         /\ Exact(S).failures = Cardinality(Failed(arg, S))
         /\ Exact(S).latencyMs = Sum(arg, S)
         /\ \A b \in Bounds : Exact(S).buckets[b] = Cardinality(Within(arg, S, b))
<1>1. Exact(S) = [requests |-> Cardinality(S),
                  failures |-> Cardinality(Failed(arg, S)),
                  latencyMs |-> Sum(arg, S),
                  buckets |-> [b \in Bounds |-> Cardinality(Within(arg, S, b))]]
  BY DEF Exact, Failed, Within, Sum
<1> QED
  BY <1>1

\* Each counter is exact for calls between those that are over and those begun.
LEMMA CountersBetween == IInv => CountsEveryCall
<1> SUFFICES ASSUME IInv PROVE CountsEveryCall
  OBVIOUS
<1>1. /\ Types /\ CountersExact
      /\ Begun \in SUBSET Calls /\ Counted \in SUBSET Begun /\ Judged \in SUBSET Begun
      /\ Timed \in SUBSET Begun /\ Over \in SUBSET Begun
      /\ Counted \in SUBSET Calls /\ Judged \in SUBSET Calls /\ Timed \in SUBSET Calls
      /\ Over \in SUBSET Counted /\ Over \in SUBSET Judged /\ Over \in SUBSET Timed
  BY DEF IInv, Begun, Counted, Judged, Timed, Over
<1>2. AtMost(Exact(Over), Counters)
  <2>1. /\ Cardinality(Over) <= Cardinality(Counted)
        /\ Cardinality(Failed(arg, Over)) <= Cardinality(Failed(arg, Judged))
        /\ Sum(arg, Over) <= Sum(arg, Timed)
    BY <1>1, SeriesGrow
  <2>2. \A b \in Bounds : Cardinality(Within(arg, Over, b)) \in Nat
    <3>1. \A b \in Bounds : Within(arg, Over, b) \in SUBSET Calls
      BY <1>1 DEF Within
    <3> QED
      BY <3>1, CallsFinite
  <2> QED
    BY <1>1, <2>1, <2>2, ExactSeries DEF AtMost, Counters, CountersExact
<1>3. AtMost(Counters, Exact(Begun))
  <2>1. /\ Cardinality(Counted) <= Cardinality(Begun)
        /\ Cardinality(Failed(arg, Judged)) <= Cardinality(Failed(arg, Begun))
        /\ Sum(arg, Timed) <= Sum(arg, Begun)
        /\ \A b \in Bounds : Cardinality(Within(arg, Over, b)) <=
                             Cardinality(Within(arg, Begun, b))
    BY <1>1, SeriesGrow
  <2> QED
    BY <1>1, <2>1, ExactSeries DEF AtMost, Counters, CountersExact
<1> QED
  BY <1>2, <1>3 DEF CountsEveryCall

\* So is each series of a complete page.
LEMMA PageBetween == IInv => ScrapeIsCurrent
<1> SUFFICES ASSUME IInv, at = "idle"
             PROVE  AtMost(Exact(page.over), page) /\ AtMost(page, Exact(Begun))
  BY DEF ScrapeIsCurrent
<1>1. /\ Types /\ Begun \in SUBSET Calls
      /\ Counted \in SUBSET Begun /\ Judged \in SUBSET Begun
      /\ Timed \in SUBSET Begun /\ Over \in SUBSET Begun
  BY DEF IInv, Begun, Counted, Judged, Timed, Over
<1>2. /\ page.over \subseteq page.counted /\ page.counted \subseteq Counted
      /\ page.requests = Cardinality(page.counted)
  BY DEF IInv, PageSound
<1>3. PICK F \in SUBSET Judged : /\ page.over \subseteq F
                                 /\ page.failures = Cardinality(Failed(arg, F))
  BY DEF IInv, PageSound, FailuresSound
<1>4. PICK L \in SUBSET Timed : page.over \subseteq L /\ page.latencyMs = Sum(arg, L)
  BY DEF IInv, PageSound, LatencySound
<1>5. PICK B \in SUBSET Over :
             /\ page.over \subseteq B
             /\ \A b \in Bounds : page.buckets[b] = Cardinality(Within(arg, B, b))
  BY DEF IInv, PageSound, BucketsSound
<1>6. /\ page.counted \in SUBSET Calls /\ F \in SUBSET Calls /\ L \in SUBSET Calls
      /\ B \in SUBSET Calls /\ page.counted \in SUBSET Begun /\ F \in SUBSET Begun
      /\ L \in SUBSET Begun /\ B \in SUBSET Begun
      /\ page.over \in SUBSET page.counted /\ page.over \in SUBSET F
      /\ page.over \in SUBSET L /\ page.over \in SUBSET B
  BY <1>1, <1>2, <1>3, <1>4, <1>5
<1>7. AtMost(Exact(page.over), page)
  <2>1. /\ Cardinality(page.over) <= Cardinality(page.counted)
        /\ Cardinality(Failed(arg, page.over)) <= Cardinality(Failed(arg, F))
        /\ Sum(arg, page.over) <= Sum(arg, L)
        /\ \A b \in Bounds : Cardinality(Within(arg, page.over, b)) <=
                             Cardinality(Within(arg, B, b))
    BY <1>1, <1>6, SeriesGrow
  <2> QED
    BY <1>2, <1>3, <1>4, <1>5, <2>1, ExactSeries DEF AtMost
<1>8. AtMost(page, Exact(Begun))
  <2>1. /\ Cardinality(page.counted) <= Cardinality(Begun)
        /\ Cardinality(Failed(arg, F)) <= Cardinality(Failed(arg, Begun))
        /\ Sum(arg, L) <= Sum(arg, Begun)
        /\ \A b \in Bounds : Cardinality(Within(arg, B, b)) <=
                             Cardinality(Within(arg, Begun, b))
    BY <1>1, <1>6, SeriesGrow
  <2> QED
    BY <1>2, <1>3, <1>4, <1>5, <2>1, ExactSeries DEF AtMost
<1> QED
  BY <1>7, <1>8

\* At most the calls of T that are not in S make T larger than S.
LEMMA Excess ==
  ASSUME NEW S \in SUBSET Calls, NEW T \in SUBSET Calls
  PROVE  Cardinality(T) <= Cardinality(S) + Cardinality(T \ S)
<1>1. /\ IsFiniteSet(S) /\ Cardinality(S) \in Nat
      /\ IsFiniteSet(T) /\ Cardinality(T) \in Nat
      /\ T \cap S \in SUBSET S
  BY CallsFinite
<1>2. Cardinality(T \ S) = Cardinality(T) - Cardinality(T \cap S)
  BY <1>1, FS_Difference
<1>3. Cardinality(T \cap S) <= Cardinality(S) /\ Cardinality(T \cap S) \in Nat
  <2>1. T \cap S \in SUBSET Calls
    OBVIOUS
  <2> QED
    BY <1>1, <2>1, CallsFinite, FS_Subset
<1> QED
  BY <1>1, <1>2, <1>3

\* How far a complete page may be from a snapshot.
LEMMA LagBounded == IInv => ScrapeLagBounded
<1> SUFFICES ASSUME IInv, at = "idle"
             PROVE  /\ page.failures <= page.requests + Cardinality(Counted \ page.counted)
                    /\ \A b \in Bounds :
                         /\ \A a \in Bounds : a <= b => page.buckets[a] <= page.buckets[b]
                         /\ page.buckets[b] <=
                              page.requests + Cardinality(Over \ page.counted)
  BY DEF ScrapeLagBounded
<1>1. /\ Types /\ Counted \in SUBSET Calls /\ Judged \in SUBSET Counted
      /\ Over \in SUBSET Calls
  BY DEF IInv, Counted, Judged, Over
<1>2. page.counted \subseteq Counted /\ page.requests = Cardinality(page.counted)
  BY DEF IInv, PageSound
<1>3. \A V \in SUBSET Calls : \A U \in SUBSET V :
         /\ Cardinality(U) <= Cardinality(V)
         /\ Cardinality(U) \in Nat /\ Cardinality(V) \in Nat
  <2> SUFFICES ASSUME NEW V \in SUBSET Calls, NEW U \in SUBSET V
               PROVE  /\ Cardinality(U) <= Cardinality(V)
                      /\ Cardinality(U) \in Nat /\ Cardinality(V) \in Nat
    OBVIOUS
  <2>1. U \in SUBSET Calls
    OBVIOUS
  <2> QED
    BY <2>1, CallsFinite, FS_Subset
<1>4. page.failures <= page.requests + Cardinality(Counted \ page.counted)
  <2>1. PICK F \in SUBSET Judged : page.failures = Cardinality(Failed(arg, F))
    BY DEF IInv, PageSound, FailuresSound
  <2>2. Failed(arg, F) \in SUBSET Counted
    BY <1>1, <2>1 DEF Failed
  <2>3. Cardinality(Failed(arg, F)) <= Cardinality(Counted)
    BY <1>1, <1>3, <2>2
  <2>4. Cardinality(Counted) <=
          Cardinality(page.counted) + Cardinality(Counted \ page.counted)
    BY <1>1, <1>2, Excess
  <2>5. /\ Cardinality(Failed(arg, F)) \in Nat /\ Cardinality(Counted) \in Nat
        /\ Cardinality(page.counted) \in Nat
        /\ Cardinality(Counted \ page.counted) \in Nat
    <3>1. Counted \ page.counted \in SUBSET Counted /\ page.counted \in SUBSET Counted
      BY <1>2
    <3> QED
      BY <1>1, <1>3, <2>2, <3>1
  <2> QED
    BY <1>2, <2>1, <2>3, <2>4, <2>5
<1>5. PICK B \in SUBSET Over :
             \A b \in Bounds : page.buckets[b] = Cardinality(Within(arg, B, b))
  BY DEF IInv, PageSound, BucketsSound
<1>6. ASSUME NEW a \in Bounds, NEW b \in Bounds, a <= b
      PROVE  page.buckets[a] <= page.buckets[b]
  <2>1. \A c \in B : arg[c].latency \in Nat
    BY <1>1, <1>5 DEF Types, Arguments
  <2>2. a \in Nat /\ b \in Nat
    BY DEF Bounds
  <2>3. Within(arg, B, a) \in SUBSET Within(arg, B, b)
    BY <1>6, <2>1, <2>2 DEF Within
  <2>4. Within(arg, B, b) \in SUBSET Calls
    BY <1>1, <1>5 DEF Within
  <2> QED
    BY <1>3, <1>5, <2>3, <2>4
<1>7. ASSUME NEW b \in Bounds
      PROVE  page.buckets[b] <= page.requests + Cardinality(Over \ page.counted)
  <2>1. Within(arg, B, b) \in SUBSET Over
    BY <1>5 DEF Within
  <2>2. /\ Cardinality(Within(arg, B, b)) <= Cardinality(Over)
        /\ Cardinality(Within(arg, B, b)) \in Nat /\ Cardinality(Over) \in Nat
    BY <1>1, <1>3, <2>1
  <2>3. Cardinality(Over) <= Cardinality(page.counted) + Cardinality(Over \ page.counted)
    BY <1>1, <1>2, Excess
  <2>4. Cardinality(page.counted) \in Nat /\ Cardinality(Over \ page.counted) \in Nat
    <3>1. Over \ page.counted \in SUBSET Calls /\ page.counted \in SUBSET Calls
      BY <1>1, <1>2
    <3> QED
      BY <3>1, CallsFinite
  <2> QED
    BY <1>2, <1>5, <2>2, <2>3, <2>4
<1> QED
  BY <1>4, <1>6, <1>7

(***************************************************************************)
(* No request that Count adds is lost or counted twice, whatever runs at   *)
(* the same time: every series lies between what the finished and what the *)
(* begun calls add up to.                                                  *)
(***************************************************************************)
THEOREM EveryCallCounted == Spec => []CountsEveryCall
  BY SpecIInv, CountersBetween, PTL

(***************************************************************************)
(* A page that Handler has written has all the requests counted before the *)
(* scrape began and none that had not begun when it ended.                 *)
(***************************************************************************)
THEOREM PageIsCurrent == Spec => []ScrapeIsCurrent
  BY SpecIInv, PageBetween, PTL

(***************************************************************************)
(* The buckets of a page are cumulative, and neither they nor the failures *)
(* exceed the requests on it by more than the calls that Count finished,   *)
(* or added to the requests, since Handler read those.                     *)
(***************************************************************************)
THEOREM PageLagBounded == Spec => []ScrapeLagBounded
  BY SpecIInv, LagBounded, PTL
=============================================================================
