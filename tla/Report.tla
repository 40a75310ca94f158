------------------------------- MODULE Report -------------------------------
(***************************************************************************)
(* The verdicts of the report generator (scripts/reportgen/main.go) on the *)
(* artefacts that an experiment (scripts/run_experiments.sh) leaves.       *)
(*                                                                         *)
(* The runner writes an experiment's artefacts one after the other; any of *)
(* them may be missing because its command failed.  In the experiment      *)
(* about a lost instance a load test and a wait for the new pod run in the *)
(* background; a load test rewrites its statistics until it ends.  The     *)
(* report can be made at any time, also while an experiment is running.    *)
(*                                                                         *)
(* `files' holds what each artefact says, None if it is missing, empty or  *)
(* unreadable; only of the checksums is an empty file told from none, as   *)
(* reportgen does.  Of an artefact the model keeps what the verdict reads. *)
(***************************************************************************)
EXTENDS Integers, Sequences, FiniteSets, FiniteSetsExt, SequencesExt

CONSTANTS
    Loads,      \* totals of a load test: requests and failures
    Traces,     \* contents of a trace export: sets of traces
    Vectors,    \* contents of the mTLS query: sets of samples
    Epochs,     \* times, in seconds
    Totals,     \* totals of a counter: ejections, effective charges
    Responses,  \* the ten responses of the duplicates, or what there is of them
    None

ASSUME ReportAssumption ==
    /\ None \notin {"good", "202", "503", "PENDING", "SUCCEEDED", "FAILED"}
    /\ None \notin {0, 1, 2} /\ None # <<>>
    /\ None \notin Loads /\ None \notin Traces /\ None \notin Epochs
    /\ None \notin Totals /\ None \notin Responses
    /\ \A l \in Loads : l.count \in Nat /\ l.failures \in Nat
    /\ \A v \in Vectors : v # None /\ IsFiniteSet(v) /\ \A s \in v : s.value \in Int
    /\ Epochs \subseteq Nat /\ \E e \in Epochs : \A f \in Epochs : e <= f
    /\ Totals \subseteq Nat
    /\ \A r \in Responses : r \in Seq(ToSet(r))

Experiments == {"happy", "instance", "degraded", "normalization", "idempotency",
                "isolation"}

VARIABLES
    exp,    \* the experiment
    todo,   \* for each process of the runner the artefacts it has yet to write
    files   \* what the artefacts say

vars == <<exp, todo, files>>

\* The artefacts in the order the runner writes them, by process.
Script ==
    [happy |-> << <<"locust", "mtls", "traces", "secrets", "listener">> >>,
     instance |-> << <<"start", "delete", "traffic", "trafficSeconds", "recovered",
                       "recoverySeconds">>,
                     <<"ready">>,
                     <<"locust", "exit">> >>,
     degraded |-> << <<"before", "locust", "after", "response", "http">> >>,
     normalization |-> << <<"card-authorized", "bank-accepted", "card-declined",
                            "bank-rejected">> >>,
     idempotency |-> << <<"charges-before", "responses", "checksums", "charges">> >>,
     isolation |-> << <<"http", "readiness">> >>]

Artefacts(e) == UNION {ToSet(Script[e][p]) : p \in DOMAIN Script[e]}
AllArtefacts == {"skip"} \cup UNION {Artefacts(e) : e \in Experiments}

\* The statuses expNormalization expects.
Expected ==
    [a \in Artefacts("normalization") |->
       IF a \in {"card-authorized", "bank-accepted"} THEN "SUCCEEDED" ELSE "FAILED"]

\* When the runner deletes the pod.
FailureEpoch == Min(Epochs)

\* What the runner may write into artefact a.  The probe of the traffic runs
\* only if the pod could be deleted.  The shell makes the file of the checksums
\* whether or not cksum succeeds.
Contents(a) ==
    CASE a = "locust" -> Loads
      [] a = "traces" -> Traces
      [] a = "mtls" -> Vectors
      [] a \in {"secrets", "listener", "readiness"} -> {"good", "bad"}
      [] a = "delete" -> {"deleted", "refused"}
      [] a = "ready" -> {"ready", "timed out"}
      [] a = "exit" -> {0, 1, 2}
      [] a = "start" -> {FailureEpoch}
      [] a = "traffic" -> IF files["delete"] = "deleted" THEN Epochs ELSE {}
      [] a = "recovered" -> Epochs
      [] a = "trafficSeconds" ->
            IF files["traffic"] = None THEN {} ELSE {files["traffic"] - FailureEpoch}
      [] a = "recoverySeconds" ->
            IF files["recovered"] = None THEN {} ELSE {files["recovered"] - FailureEpoch}
      [] a = "http" -> {"202", "503", "500"}
      [] a = "response" -> {"PENDING", "FAILED"}
      [] a \in {"before", "after", "charges-before", "charges"} -> Totals
      [] a = "responses" -> Responses
      [] a = "checksums" -> {<<>>} \cup ({files["responses"]} \ {None})
      [] OTHER -> {"SUCCEEDED", "FAILED", "PENDING"}

------------------------------------------------------------------------------
(***************************************************************************)
(* reportgen: helpers.                                                     *)
(***************************************************************************)
Has(a) == files[a] # None

\* All that the experiment should leave is there.
Complete == \A a \in Artefacts(exp) : Has(a)

\* status
Status(pass, evidence) ==
    IF ~evidence THEN "NOT EXECUTED" ELSE IF pass THEN "PASS" ELSE "FAIL"

\* traceCoverage: a trace counts if its spans show all four services.  A span
\* that says it is of another trace does not count, one that says nothing does.
Roles == {"operator", "participant", "router", "gateway"}
Own(t) == {s \in t.spans : s.trace \in {None, t.id}}
CompleteTraces(traces) ==
    {t \in traces : /\ t.id # None
                    /\ \A r \in Roles : \E s \in Own(t) : s.role = r}

\* readMTLS: the traffic of some samples.
Hops == {"participant-payment-manager", "payment-router"}
Internal(s) == s.source = "payment-operator" /\ s.destination \in Hops
Traffic(samples) ==
    MapThenSumSet(LAMBDA s : s.value, {s \in samples : s.value > 0})

\* A variant, no part of the specification: a sample of zero is an error.
ReadMTLSNonzero(vector) ==
    [total |-> Traffic(vector),
     mutual |-> Traffic({s \in vector : Internal(s) /\ s.policy = "mutual_tls"}),
     none |-> Traffic({s \in vector : Internal(s) /\ s.policy = "none"}),
     valid |-> /\ \A s \in vector : s.value > 0
               /\ \A d \in Hops : \E s \in vector : Internal(s) /\ s.destination = d]

\* All traffic, that of each policy, and whether the samples are usable.
ReadMTLS(vector) ==
    [total |-> Traffic(vector),
     mutual |-> Traffic({s \in vector : Internal(s) /\ s.policy = "mutual_tls"}),
     none |-> Traffic({s \in vector : Internal(s) /\ s.policy = "none"}),
     valid |-> /\ \A s \in vector : s.value >= 0
               /\ \A d \in Hops : \E s \in vector :
                     s.value > 0 /\ Internal(s) /\ s.destination = d]

\* sameChecksums: the checksum file, or else the responses themselves.
SameChecksums ==
    LET lines == IF Has("checksums") THEN files["checksums"] ELSE files["responses"] IN
    IF lines = None \/ (Has("checksums") /\ Len(lines) < 2)
    THEN [same |-> FALSE, count |-> 0]
    ELSE [same |-> /\ Has("checksums") \/ Len(lines) = 10
                   /\ \A i \in DOMAIN lines : lines[i] = lines[1],
          count |-> Len(lines)]

------------------------------------------------------------------------------
(***************************************************************************)
(* reportgen: the six verdicts.                                            *)
(***************************************************************************)
\* The evidence of expHappy.
HappyEvidence ==
    /\ \A a \in Artefacts("happy") : Has(a)
    /\ CompleteTraces(files["traces"]) # {}
    /\ ReadMTLS(files["mtls"]).valid

\* A variant, no part of the specification: unknown traffic is not looked at.
HappyButUnknown ==
    LET m == ReadMTLS(files["mtls"])
    IN Status(/\ HappyEvidence /\ files["locust"].failures = 0
              /\ files["secrets"] = "good" /\ files["listener"] = "good"
              /\ m.mutual > 0 /\ m.none = 0, HappyEvidence)

\* expHappy
Happy ==
    LET m == ReadMTLS(files["mtls"])
    IN Status(/\ HappyEvidence /\ files["locust"].failures = 0
              /\ files["secrets"] = "good" /\ files["listener"] = "good"
              /\ m.total > 0 /\ m.mutual = m.total /\ m.none = 0, HappyEvidence)

\* A variant: the load need not be over.
LoadEndedAnyhow == TRUE

\* validLocustExit: zero, or one for failed requests.
LoadEnded == files["exit"] \in {0, 1}

\* expInstance
Instance ==
    LET evidence == /\ \A a \in Artefacts("instance") \ {"locust", "exit"} : Has(a)
                    /\ files["recovered"] >= files["start"]
                    /\ files["traffic"] >= files["start"]
                    /\ files["recoverySeconds"] = files["recovered"] - files["start"]
                    /\ files["trafficSeconds"] = files["traffic"] - files["start"]
                    /\ LoadEnded
    IN IF Has("skip") THEN "NOT EXECUTED"
       ELSE Status(/\ evidence /\ Has("locust")
                   /\ files["locust"].count > 0
                   /\ 100 * (files["locust"].count - files["locust"].failures)
                         >= 99 * files["locust"].count
                   /\ files["trafficSeconds"] < 30, evidence)

\* expDegraded
Degraded ==
    Status(/\ Has("locust") /\ files["locust"].failures = 0
           /\ files["http"] = "202" /\ files["response"] = "PENDING"
           /\ Has("before") /\ Has("after") /\ files["after"] > files["before"],
           Has("locust") /\ Has("before") /\ Has("after"))

\* expNormalization
Normalization ==
    LET evidence == \A a \in DOMAIN Expected : Has(a)
    IN Status(\A a \in DOMAIN Expected : files[a] = Expected[a], evidence)

\* expIdempotency
Idempotency ==
    LET evidence == Has("charges-before") /\ Has("charges")
    IN Status(/\ evidence /\ files["charges"] - files["charges-before"] = 1
              /\ SameChecksums.count = 10 /\ SameChecksums.same, evidence)

\* expDBIsolation
Isolation ==
    Status(files["http"] = "503" /\ files["readiness"] = "good",
           Has("http") \/ files["readiness"] = "good")

\* measured, for the experiment of the run.
Verdict ==
    CASE exp = "happy" -> Happy
      [] exp = "instance" -> Instance
      [] exp = "degraded" -> Degraded
      [] exp = "normalization" -> Normalization
      [] exp = "idempotency" -> Idempotency
      [] exp = "isolation" -> Isolation

------------------------------------------------------------------------------
(***************************************************************************)
(* The runner.                                                             *)
(***************************************************************************)
Init ==
    /\ exp \in Experiments
    /\ todo = Script[exp]
    /\ files = [a \in AllArtefacts |-> None]

\* Kubernetes is not available, so nothing is done.
Skip ==
    /\ exp \in {"instance", "isolation"}
    /\ todo = Script[exp]
    /\ files' = [files EXCEPT !["skip"] = "skip"]
    /\ todo' = [p \in DOMAIN todo |-> <<>>]
    /\ UNCHANGED exp

\* `kubectl wait' runs beside the probe of the traffic, from the deletion of the
\* pod until the runner waits for it.
MayWrite(a) ==
    /\ a = "ready" => "delete" \notin ToSet(todo[1])
    /\ a = "recovered" => todo[2] = <<>>

\* Process p of the runner writes its next artefact, or fails to.
Write(p) ==
    /\ todo[p] # <<>>
    /\ MayWrite(Head(todo[p]))
    /\ LET a == Head(todo[p]) IN
       \E c \in Contents(a) \cup {None} : files' = [files EXCEPT ![a] = c]
    /\ todo' = [todo EXCEPT ![p] = Tail(todo[p])]
    /\ UNCHANGED exp

\* The load test writes the statistics it has so far.
LoadProgress(p) ==
    /\ todo[p] # <<>> /\ Head(todo[p]) = "locust"
    /\ \E c \in Loads : files' = [files EXCEPT !["locust"] = c]
    /\ UNCHANGED <<exp, todo>>

Next == Skip \/ \E p \in DOMAIN todo : Write(p) \/ LoadProgress(p)

Spec == Init /\ [][Next]_vars

------------------------------------------------------------------------------
\* What the six criteria of the report ask for, said of the artefacts directly.
Criterion ==
    CASE exp = "happy" ->
            /\ files["locust"].failures = 0
            /\ files["secrets"] = "good" /\ files["listener"] = "good"
            /\ \E t \in files["traces"] :
                  t.id # None /\ Roles \subseteq {s.role : s \in Own(t)}
            /\ \A s \in files["mtls"] : s.value # 0 =>
                  s.value > 0 /\ Internal(s) /\ s.policy = "mutual_tls"
            /\ Hops \subseteq {s.destination : s \in {s \in files["mtls"] : s.value > 0}}
      [] exp = "instance" ->
            /\ files["delete"] = "deleted"
            /\ files["traffic"] < files["start"] + 30
            /\ files["locust"].count > 0
            /\ 100 * files["locust"].failures <= files["locust"].count
      [] exp = "degraded" ->
            /\ files["locust"].failures = 0
            /\ files["http"] = "202" /\ files["response"] = "PENDING"
            /\ files["after"] > files["before"]
      [] exp = "normalization" ->
            /\ files["card-authorized"] = "SUCCEEDED" /\ files["card-declined"] = "FAILED"
            /\ files["bank-accepted"] = "SUCCEEDED" /\ files["bank-rejected"] = "FAILED"
      [] exp = "idempotency" ->
            /\ files["charges"] = files["charges-before"] + 1
            /\ Len(files["responses"]) = 10
            /\ Cardinality(ToSet(files["responses"])) = 1
      [] exp = "isolation" -> files["http"] = "503" /\ files["readiness"] = "good"

(***************************************************************************)
(* PASS is earned: whenever the report is made, also in the middle of an   *)
(* experiment and with any artefacts missing, an experiment passes only if *)
(* its criterion is met.  In the experiment about a lost instance this     *)
(* includes that a pod was deleted, although reportgen does not look at    *)
(* the outcome of the deletion.                                            *)
(***************************************************************************)
PassIsEarned == Verdict = "PASS" => Criterion

(***************************************************************************)
(* An experiment that leaves all artefacts and meets its criterion passes, *)
(* once the load test, if it has one, has ended as it should, and unless   *)
(* the checksums could not be computed.                                    *)
(***************************************************************************)
SuccessPasses ==
    /\ Complete /\ Criterion
    /\ exp = "instance" => LoadEnded
    /\ exp = "idempotency" => files["checksums"] # <<>>
    => Verdict = "PASS"

(***************************************************************************)
(* A report that shows PASS is not contradicted by a later report of the   *)
(* same run: what is still to be written, the growing statistics of a load *)
(* test included, cannot take a PASS away.                                 *)
(***************************************************************************)
PassStable == [][Verdict = "PASS" => Verdict' = "PASS"]_vars
=============================================================================
