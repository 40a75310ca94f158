------------------------------- MODULE Circuit -------------------------------
(***************************************************************************)
(* The application circuit breaker of the payment router, one per gateway  *)
(* (internal/payments/circuit.go), and the provider calls that go through  *)
(* it (payment-router's charge).  Calls run concurrently: each one asks    *)
(* Allow, stays in flight while the provider works, and reports Success or *)
(* Failure afterwards, possibly long after the breaker has changed state.  *)
(***************************************************************************)
EXTENDS Integers, FiniteSets

CONSTANTS
    Calls,      \* the provider calls the router may have under way at once
    Threshold,  \* failures that open the breaker
    Cooldown    \* time units the breaker stays open

ASSUME CircuitAssumption ==
    /\ IsFiniteSet(Calls)
    /\ Threshold \in Nat \ {0}
    /\ Cooldown \in Nat

VARIABLES
    failures,   \* Circuit.failures
    open,       \* Circuit.openedAt is not the zero time
    age,        \* time.Since(openedAt), saturated at Cooldown; 0 when closed
    inflight    \* calls that Allow admitted and that have not reported yet

vars == <<failures, open, age, inflight>>

TypeOK ==
    /\ failures \in Nat
    /\ open \in BOOLEAN
    /\ age \in 0..Cooldown
    /\ inflight \subseteq Calls

\* NewCircuit
Init ==
    /\ failures = 0
    /\ open = FALSE
    /\ age = 0
    /\ inflight = {}

\* time.Since(c.openedAt) >= c.cooldown
CooledDown == age >= Cooldown

(***************************************************************************)
(* Variants of the operations below, each with a mistake that is easy to   *)
(* make in this code.  They are no part of the specification; they show    *)
(* that the properties at the end notice such a mistake.                   *)
(***************************************************************************)
\* Allow admits the call without looking at openedAt.
AllowUnguarded(c) ==
    /\ c \notin inflight
    /\ inflight' = inflight \cup {c}
    /\ UNCHANGED <<failures, open, age>>

\* Allow closes the breaker after the cooldown and keeps the failure count.
AllowCooledKeepsCount(c) ==
    /\ c \notin inflight
    /\ open
    /\ CooledDown
    /\ open' = FALSE
    /\ age' = 0
    /\ inflight' = inflight \cup {c}
    /\ UNCHANGED failures

\* Allow stamps openedAt again whenever it turns a call away.
AllowRejectedRestamps(c) ==
    /\ c \notin inflight
    /\ open
    /\ ~CooledDown
    /\ age' = 0
    /\ UNCHANGED <<failures, open, inflight>>

\* Success takes one failure back instead of starting the count afresh.
SuccessDecrements(c) ==
    /\ c \in inflight
    /\ inflight' = inflight \ {c}
    /\ failures' = failures - 1
    /\ open' = FALSE
    /\ age' = 0

------------------------------------------------------------------------------

\* Allow on a breaker that is closed: the call goes to the provider.
AllowClosed(c) ==
    /\ c \notin inflight
    /\ ~open
    /\ inflight' = inflight \cup {c}
    /\ UNCHANGED <<failures, open, age>>

\* Allow once the cooldown has passed: the breaker closes (there is no
\* half-open state) and the call goes to the provider.
AllowCooled(c) ==
    /\ c \notin inflight
    /\ open
    /\ CooledDown
    /\ failures' = 0
    /\ open' = FALSE
    /\ age' = 0
    /\ inflight' = inflight \cup {c}

\* Allow while the breaker is open: the payment stays PENDING, nothing moves.
AllowRejected(c) ==
    /\ c \notin inflight
    /\ open
    /\ ~CooledDown
    /\ UNCHANGED vars

\* A definite provider answer.  It closes the breaker whatever its state.
Success(c) ==
    /\ c \in inflight
    /\ inflight' = inflight \ {c}
    /\ failures' = 0
    /\ open' = FALSE
    /\ age' = 0

\* An uncertain provider answer.  At the threshold, and on every failure
\* after it, openedAt is stamped with the present.
Failure(c) ==
    /\ c \in inflight
    /\ inflight' = inflight \ {c}
    /\ failures' = failures + 1
    /\ IF failures + 1 >= Threshold
         THEN open' = TRUE /\ age' = 0
         ELSE UNCHANGED <<open, age>>

\* One time unit passes while it can still be told apart (age < Cooldown).
Tick ==
    /\ open
    /\ age < Cooldown
    /\ age' = age + 1
    /\ UNCHANGED <<failures, open, inflight>>

Allow(c) == AllowClosed(c) \/ AllowCooled(c) \/ AllowRejected(c)

Next ==
    \/ Tick
    \/ \E c \in Calls : Allow(c) \/ Success(c) \/ Failure(c)

\* Time passes; payments keep arriving, so some call keeps asking Allow; the
\* provider client gives every call at most three seconds, so every call in
\* flight reports.
Fairness ==
    /\ WF_vars(Tick)
    /\ WF_vars(\E c \in Calls : Allow(c))
    /\ \A c \in Calls : WF_vars(Success(c) \/ Failure(c))

Spec == Init /\ [][Next]_vars /\ Fairness

------------------------------------------------------------------------------

(***************************************************************************)
(* The breaker is open exactly when the failure count has reached the      *)
(* threshold: openedAt and failures, two fields that Allow, Success and    *)
(* Failure update separately, never disagree, whatever order late reports  *)
(* come in.                                                                *)
(***************************************************************************)
OpenIffThreshold == open <=> failures >= Threshold

(***************************************************************************)
(* Once open, the breaker shields the gateway: the failures counted past   *)
(* the threshold are only those of calls that were already in flight when  *)
(* it opened (Allow admits none after that).                               *)
(***************************************************************************)
OvershootBounded ==
    open => failures + Cardinality(inflight) <= Threshold - 1 + Cardinality(Calls)

(***************************************************************************)
(* An open breaker never shuts a gateway out for good: late failures may   *)
(* stamp openedAt again, yet as long as payments arrive the breaker closes *)
(* and the gateway is tried again.                                         *)
(***************************************************************************)
EventuallyProbes == open ~> ~open
=============================================================================
