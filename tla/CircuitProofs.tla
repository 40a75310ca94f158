---------------------------- MODULE CircuitProofs ----------------------------
(***************************************************************************)
(* Proofs about the circuit breaker, for any set of concurrent calls, any  *)
(* threshold and any cooldown.                                             *)
(***************************************************************************)
EXTENDS Circuit, FiniteSetTheorems, TLAPS

\* The inductive invariant: types, and the two fields of the breaker agree.
IInv == TypeOK /\ OpenIffThreshold

\* A count that starts afresh is below the threshold, an age within range.
LEMMA FreshCount == ~(0 >= Threshold) /\ 0 \in 0..Cooldown /\ 0 \in Nat
  BY CircuitAssumption DEF CircuitAssumption

LEMMA InitIInv == Init => IInv
  BY FreshCount, Zenon DEF Init, IInv, TypeOK, OpenIffThreshold

\* Every operation of the breaker keeps failures and openedAt in agreement.
LEMMA NextIInv == IInv /\ [Next]_vars => IInv'
<1> SUFFICES ASSUME IInv, [Next]_vars PROVE IInv'
  OBVIOUS
<1> USE CircuitAssumption DEF CircuitAssumption, IInv, TypeOK, OpenIffThreshold
<1>1. CASE Tick
  BY <1>1 DEF Tick
<1>2. ASSUME NEW c \in Calls, AllowClosed(c) PROVE IInv'
  BY <1>2 DEF AllowClosed
<1>3. ASSUME NEW c \in Calls, AllowCooled(c) PROVE IInv'
  BY <1>3, FreshCount, Zenon DEF AllowCooled
<1>4. ASSUME NEW c \in Calls, AllowRejected(c) PROVE IInv'
  BY <1>4 DEF AllowRejected, vars
<1>5. ASSUME NEW c \in Calls, Success(c) PROVE IInv'
  BY <1>5, FreshCount, Zenon DEF Success
<1>6. ASSUME NEW c \in Calls, Failure(c) PROVE IInv'
  <2>1. CASE failures + 1 >= Threshold
    BY <1>6, <2>1 DEF Failure
  <2>2. CASE ~(failures + 1 >= Threshold)
    BY <1>6, <2>2 DEF Failure
  <2> QED
    BY <2>1, <2>2
<1>7. CASE UNCHANGED vars
  BY <1>7 DEF vars
<1> QED
  BY <1>1, <1>2, <1>3, <1>4, <1>5, <1>6, <1>7 DEF Next, Allow

LEMMA SpecIInv == Spec => []IInv
  BY InitIInv, NextIInv, PTL DEF Spec

(***************************************************************************)
(* The breaker's fields keep their types, whatever order Allow, Success    *)
(* and Failure of any number of calls come in.                             *)
(***************************************************************************)
THEOREM BreakerTypes == Spec => []TypeOK
  BY SpecIInv, PTL DEF IInv

(***************************************************************************)
(* openedAt is set exactly when failures has reached the threshold, in     *)
(* every reachable state of any number of concurrent calls.                *)
(***************************************************************************)
THEOREM BreakerConsistent == Spec => []OpenIffThreshold
  BY SpecIInv, PTL DEF IInv

\* A set of calls in flight is no larger than the set of calls.
LEMMA InflightFinite ==
  ASSUME NEW S \in SUBSET Calls
  PROVE  /\ IsFiniteSet(S)
         /\ Cardinality(S) \in Nat
         /\ Cardinality(S) <= Cardinality(Calls)
         /\ Cardinality(Calls) \in Nat
  BY CircuitAssumption, FS_Subset, FS_CardinalityType DEF CircuitAssumption

\* A report takes its call out of flight: one fewer.
LEMMA ReportRemovesOne ==
  ASSUME NEW S \in SUBSET Calls, NEW c \in S
  PROVE  Cardinality(S \ {c}) = Cardinality(S) - 1
  BY InflightFinite, FS_RemoveElement

LEMMA NextOvershoot ==
  IInv /\ OvershootBounded /\ [Next]_vars => OvershootBounded'
<1> SUFFICES ASSUME IInv, OvershootBounded, [Next]_vars PROVE OvershootBounded'
  OBVIOUS
<1> USE CircuitAssumption DEF CircuitAssumption, IInv, TypeOK, OpenIffThreshold, OvershootBounded
<1>1. CASE Tick
  BY <1>1 DEF Tick
<1>2. ASSUME NEW c \in Calls, AllowClosed(c) PROVE OvershootBounded'
  BY <1>2 DEF AllowClosed
<1>3. ASSUME NEW c \in Calls, AllowCooled(c) PROVE OvershootBounded'
  BY <1>3 DEF AllowCooled
<1>4. ASSUME NEW c \in Calls, AllowRejected(c) PROVE OvershootBounded'
  BY <1>4 DEF AllowRejected, vars
<1>5. ASSUME NEW c \in Calls, Success(c) PROVE OvershootBounded'
  BY <1>5 DEF Success
<1>6. ASSUME NEW c \in Calls, Failure(c) PROVE OvershootBounded'
  <2>1. /\ Cardinality(inflight) \in Nat
        /\ Cardinality(Calls) \in Nat
        /\ Cardinality(inflight) <= Cardinality(Calls)
    BY InflightFinite
  <2>2. Cardinality(inflight') = Cardinality(inflight) - 1
    BY <1>6, ReportRemovesOne DEF Failure
  <2>3. failures' = failures + 1
    BY <1>6 DEF Failure
  <2>4. CASE open
    BY <2>1, <2>2, <2>3, <2>4
  <2>5. CASE ~open
    <3>1. failures <= Threshold - 1
      BY <2>5
    <3> QED
      BY <2>1, <2>2, <2>3, <3>1
  <2> QED
    BY <2>4, <2>5
<1>7. CASE UNCHANGED vars
  BY <1>7 DEF vars
<1> QED
  BY <1>1, <1>2, <1>3, <1>4, <1>5, <1>6, <1>7 DEF Next, Allow

(***************************************************************************)
(* However many calls run at once, the failures an open breaker counts     *)
(* past its threshold are at most those of the calls that were in flight   *)
(* when it opened.                                                         *)
(***************************************************************************)
THEOREM OvershootIsBounded == Spec => []OvershootBounded
<1>1. Init => IInv /\ OvershootBounded
  BY InitIInv DEF Init, OvershootBounded
<1>2. IInv /\ OvershootBounded /\ [Next]_vars => (IInv /\ OvershootBounded)'
  BY NextIInv, NextOvershoot
<1> QED
  BY <1>1, <1>2, PTL DEF Spec
=============================================================================
