------------------------------ MODULE Metrics ------------------------------
(***************************************************************************)
(* The metrics of a service (internal/payments/telemetry.go): Count adds a *)
(* request to four atomic counters one after the other, the histogram last *)
(* and under a mutex; Handler, the scrape, reads them one after the other. *)
(* Requests are counted by many goroutines while a scrape goes on.         *)
(*                                                                         *)
(* A call is one invocation of Count.  The counters do not wrap: 2^64 is   *)
(* out of reach.                                                           *)
(***************************************************************************)
EXTENDS Naturals, FiniteSets, FiniteSetsExt

CONSTANTS
    Calls,      \* invocations of Count
    Latencies   \* latencies that are measured, in milliseconds

ASSUME MetricsAssumption == IsFiniteSet(Calls) /\ Latencies \subseteq Nat

\* The upper bounds of the histogram's buckets, +Inf excepted.
Bounds == {50, 100, 250, 500, 1000, 5000}

VARIABLES
    requests, failures, latencyMs, buckets,  \* the fields of Metrics
    pc,         \* how far each call has come
    arg,        \* its outcome and latency
    at,         \* how far the scrape has come
    page        \* what the scrape has read, and the calls that were over, and
                \* that were among the requests, when it began

vars == <<requests, failures, latencyMs, buckets, pc, arg, at, page>>

Pcs == {"idle", "requests", "failures", "latency", "buckets", "done"}
NoCall == [ok |-> TRUE, latency |-> 0]
NoBuckets == [b \in Bounds |-> 0]
NoPage == [requests |-> 0, failures |-> 0, latencyMs |-> 0, buckets |-> NoBuckets,
           over |-> {}, counted |-> {}]

Init ==
    /\ requests = 0 /\ failures = 0 /\ latencyMs = 0 /\ buckets = NoBuckets
    /\ pc = [c \in Calls |-> "idle"]
    /\ arg = [c \in Calls |-> NoCall]
    /\ at = "idle"
    /\ page = NoPage

Goto(c, label) == pc' = [pc EXCEPT ![c] = label]

Begun == {c \in Calls : pc[c] # "idle"}
Counted == {c \in Calls : pc[c] \notin {"idle", "requests"}}
Over == {c \in Calls : pc[c] = "done"}

------------------------------------------------------------------------------
(***************************************************************************)
(* Variants with a plausible mistake; no part of the specification.        *)
(***************************************************************************)
\* Only requests that succeed are counted.
AddRequestsOfSuccesses(c) ==
    /\ pc[c] = "requests"
    /\ requests' = IF arg[c].ok THEN requests + 1 ELSE requests
    /\ Goto(c, "failures")
    /\ UNCHANGED <<failures, latencyMs, buckets, arg, at, page>>

\* The test of ok is the wrong way round.
AddFailuresOfSuccesses(c) ==
    /\ pc[c] = "failures"
    /\ failures' = IF arg[c].ok THEN failures + 1 ELSE failures
    /\ Goto(c, "latency")
    /\ UNCHANGED <<requests, latencyMs, buckets, arg, at, page>>

\* A request counts in its own bucket only.
RaisedOnce(latency) ==
    LET fitting == {b \in Bounds : latency <= b} IN
    [b \in Bounds |-> IF fitting # {} /\ b = Min(fitting) THEN buckets[b] + 1
                                                          ELSE buckets[b]]

------------------------------------------------------------------------------
(***************************************************************************)
(* Count.                                                                  *)
(***************************************************************************)
\* A request has been served and is to be counted.
Call(c, ok, latency) ==
    /\ pc[c] = "idle"
    /\ arg' = [arg EXCEPT ![c] = [ok |-> ok, latency |-> latency]]
    /\ Goto(c, "requests")
    /\ UNCHANGED <<requests, failures, latencyMs, buckets, at, page>>

AddRequests(c) ==
    /\ pc[c] = "requests"
    /\ requests' = requests + 1
    /\ Goto(c, "failures")
    /\ UNCHANGED <<failures, latencyMs, buckets, arg, at, page>>

AddFailures(c) ==
    /\ pc[c] = "failures"
    /\ failures' = IF arg[c].ok THEN failures ELSE failures + 1
    /\ Goto(c, "latency")
    /\ UNCHANGED <<requests, latencyMs, buckets, arg, at, page>>

AddLatency(c) ==
    /\ pc[c] = "latency"
    /\ latencyMs' = latencyMs + arg[c].latency
    /\ Goto(c, "buckets")
    /\ UNCHANGED <<requests, failures, buckets, arg, at, page>>

\* From the first bucket that fits on, every bucket counts; a latency above the
\* last bound is counted in none.
Raised(latency) ==
    LET fitting == {b \in Bounds : latency <= b} IN
    [b \in Bounds |-> IF fitting # {} /\ b >= Min(fitting) THEN buckets[b] + 1
                                                           ELSE buckets[b]]

\* The critical section.
AddBuckets(c) ==
    /\ pc[c] = "buckets"
    /\ buckets' = Raised(arg[c].latency)
    /\ Goto(c, "done")
    /\ UNCHANGED <<requests, failures, latencyMs, arg, at, page>>

------------------------------------------------------------------------------
(***************************************************************************)
(* Handler.                                                                *)
(***************************************************************************)
LoadRequests ==
    /\ at = "idle"
    /\ page' = [NoPage EXCEPT !.requests = requests, !.over = Over,
                               !.counted = Counted]
    /\ at' = "failures"
    /\ UNCHANGED <<requests, failures, latencyMs, buckets, pc, arg>>

LoadFailures ==
    /\ at = "failures"
    /\ page' = [page EXCEPT !.failures = failures]
    /\ at' = "latency"
    /\ UNCHANGED <<requests, failures, latencyMs, buckets, pc, arg>>

LoadLatency ==
    /\ at = "latency"
    /\ page' = [page EXCEPT !.latencyMs = latencyMs]
    /\ at' = "buckets"
    /\ UNCHANGED <<requests, failures, latencyMs, buckets, pc, arg>>

\* The buckets are copied under the mutex; the page is complete.  The value of
\* +Inf and of the histogram's count is that of requests.
CopyBuckets ==
    /\ at = "buckets"
    /\ page' = [page EXCEPT !.buckets = buckets]
    /\ at' = "idle"
    /\ UNCHANGED <<requests, failures, latencyMs, buckets, pc, arg>>

Count(c) == AddRequests(c) \/ AddFailures(c) \/ AddLatency(c) \/ AddBuckets(c)
Scrape == LoadRequests \/ LoadFailures \/ LoadLatency \/ CopyBuckets

Next ==
    \/ \E c \in Calls : \/ \E ok \in BOOLEAN, l \in Latencies : Call(c, ok, l)
                        \/ Count(c)
    \/ Scrape

Spec == Init /\ [][Next]_vars

------------------------------------------------------------------------------
\* What the series would be if exactly the calls of S had been counted.
Exact(S) ==
    [requests |-> Cardinality(S),
     failures |-> Cardinality({c \in S : ~arg[c].ok}),
     latencyMs |-> MapThenSumSet(LAMBDA c : arg[c].latency, S),
     buckets |-> [b \in Bounds |-> Cardinality({c \in S : arg[c].latency <= b})]]

\* No series of r is above that of s.
AtMost(r, s) ==
    /\ r.requests <= s.requests /\ r.failures <= s.failures
    /\ r.latencyMs <= s.latencyMs
    /\ \A b \in Bounds : r.buckets[b] <= s.buckets[b]

Counters == [requests |-> requests, failures |-> failures, latencyMs |-> latencyMs,
             buckets |-> buckets]

(***************************************************************************)
(* No request is lost and none is counted twice, whatever is counted at    *)
(* the same time: every series lies between what the calls that are over   *)
(* and what the calls that have begun add up to, and is exact whenever no  *)
(* call is under way.                                                      *)
(***************************************************************************)
CountsEveryCall == AtMost(Exact(Over), Counters) /\ AtMost(Counters, Exact(Begun))

(***************************************************************************)
(* A scrape is current: every series on its page includes all requests     *)
(* counted before the scrape began and none that had not begun when it     *)
(* ended.  So from one scrape to the next no series ever falls because of  *)
(* the order in which Handler reads.                                       *)
(***************************************************************************)
ScrapeIsCurrent ==
    at = "idle" => AtMost(Exact(page.over), page) /\ AtMost(page, Exact(Begun))

(***************************************************************************)
(* A page is not a snapshot: the value shown as +Inf and as the count is   *)
(* read first, the buckets last.  Buckets are cumulative up to 5000, but   *)
(* the last may exceed +Inf, by no more than the requests whose whole      *)
(* Count fell into the scrape; and failures may exceed the requests, by no *)
(* more than the requests counted since.  A scrape that no Count overlaps  *)
(* shows a correct histogram.                                              *)
(***************************************************************************)
ScrapeLagBounded ==
    at = "idle" =>
        /\ page.failures <= page.requests + Cardinality(Counted \ page.counted)
        /\ \A b \in Bounds :
              /\ \A a \in Bounds : a <= b => page.buckets[a] <= page.buckets[b]
              /\ page.buckets[b] <= page.requests + Cardinality(Over \ page.counted)
=============================================================================
