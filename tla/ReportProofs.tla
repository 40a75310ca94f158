---------------------------- MODULE ReportProofs ----------------------------
(***************************************************************************)
(* Proofs about the verdicts of the report, for any artefacts: loads,      *)
(* traces, samples, times, totals and responses.                           *)
(***************************************************************************)
EXTENDS Report, SequenceTheorems, FiniteSetTheorems, WellFoundedInduction, TLAPS

------------------------------------------------------------------------------
(***************************************************************************)
(* What holds while an experiment runs.                                    *)
(***************************************************************************)
\* How many of its artefacts process p has written.
Written(p) == Len(Script[exp][p]) - Len(todo[p])

\* What a process has yet to write is the rest of its script.
OnScript ==
    /\ exp \in Experiments
    /\ DOMAIN files = AllArtefacts
    /\ DOMAIN todo = DOMAIN Script[exp]
    /\ \A p \in DOMAIN todo :
          /\ todo[p] \in Seq(AllArtefacts)
          /\ Len(todo[p]) <= Len(Script[exp][p])
          /\ \A i \in 1..Len(todo[p]) : todo[p][i] = Script[exp][p][i + Written(p)]

\* What has yet to be written is missing; only the load test writes ahead.
Pending ==
    \A p \in DOMAIN todo : \A i \in 1..Len(Script[exp][p]) :
        i > Written(p) /\ Script[exp][p][i] # "locust" =>
            files[Script[exp][p][i]] = None

\* What the artefacts say, each by itself.
Sound ==
    /\ files["locust"] \in Loads \cup {None}
    /\ files["traces"] \in Traces \cup {None}
    /\ files["mtls"] \in Vectors \cup {None}
    /\ files["start"] \in {FailureEpoch, None}
    /\ files["traffic"] \in Epochs \cup {None}
    /\ files["recovered"] \in Epochs \cup {None}
    /\ \A a \in {"before", "after", "charges-before", "charges"} :
          files[a] \in Totals \cup {None}
    /\ files["responses"] \in Responses \cup {None}

\* What they say of each other: the measured times are those of the recorded
\* ones, traffic only recovers from a pod that was deleted, and the checksums,
\* where there are any, are those of the responses.
Coherent ==
    /\ files["trafficSeconds"] # None =>
          /\ files["traffic"] # None
          /\ files["trafficSeconds"] = files["traffic"] - FailureEpoch
    /\ files["recoverySeconds"] # None =>
          /\ files["recovered"] # None
          /\ files["recoverySeconds"] = files["recovered"] - FailureEpoch
    /\ files["traffic"] # None => files["delete"] = "deleted"
    /\ files["checksums"] \in {None, <<>>, files["responses"]}

\* An experiment that was skipped has left nothing and will leave nothing.
SkippedForGood ==
    Has("skip") => /\ \A p \in DOMAIN todo : todo[p] = <<>>
                   /\ exp = "instance" => files["start"] = None

IInv == OnScript /\ Pending /\ Sound /\ Coherent /\ SkippedForGood

------------------------------------------------------------------------------
(***************************************************************************)
(* The scripts, read off their definition.                                 *)
(***************************************************************************)
LEMMA HappyScript ==
  LET s == Script["happy"] IN
  /\ DOMAIN s = 1..1
  /\ Len(s[1]) = 5
  /\ s[1] \in Seq({"locust", "mtls", "traces", "secrets", "listener"})
  /\ s[1][1] = "locust" /\ s[1][2] = "mtls"
  /\ s[1][3] = "traces" /\ s[1][4] = "secrets"
  /\ s[1][5] = "listener"
  BY DEF Script

LEMMA InstanceScript ==
  LET s == Script["instance"] IN
  /\ DOMAIN s = 1..3
  /\ Len(s[1]) = 6
  /\ s[1] \in Seq({"start", "delete", "traffic", "trafficSeconds",
                "recovered", "recoverySeconds"})
  /\ s[1][1] = "start" /\ s[1][2] = "delete"
  /\ s[1][3] = "traffic" /\ s[1][4] = "trafficSeconds"
  /\ s[1][5] = "recovered" /\ s[1][6] = "recoverySeconds"
  /\ Len(s[2]) = 1 /\ s[2] \in Seq({"ready"})
  /\ s[2][1] = "ready"
  /\ Len(s[3]) = 2 /\ s[3] \in Seq({"locust", "exit"})
  /\ s[3][1] = "locust" /\ s[3][2] = "exit"
  BY DEF Script

LEMMA DegradedScript ==
  LET s == Script["degraded"] IN
  /\ DOMAIN s = 1..1
  /\ Len(s[1]) = 5
  /\ s[1] \in Seq({"before", "locust", "after", "response", "http"})
  /\ s[1][1] = "before" /\ s[1][2] = "locust"
  /\ s[1][3] = "after" /\ s[1][4] = "response"
  /\ s[1][5] = "http"
  BY DEF Script

LEMMA NormalizationScript ==
  LET s == Script["normalization"] IN
  /\ DOMAIN s = 1..1
  /\ Len(s[1]) = 4
  /\ s[1] \in Seq({"card-authorized", "bank-accepted", "card-declined",
                "bank-rejected"})
  /\ s[1][1] = "card-authorized" /\ s[1][2] = "bank-accepted"
  /\ s[1][3] = "card-declined" /\ s[1][4] = "bank-rejected"
  BY DEF Script

LEMMA IdempotencyScript ==
  LET s == Script["idempotency"] IN
  /\ DOMAIN s = 1..1
  /\ Len(s[1]) = 4
  /\ s[1] \in Seq({"charges-before", "responses", "checksums", "charges"})
  /\ s[1][1] = "charges-before" /\ s[1][2] = "responses"
  /\ s[1][3] = "checksums" /\ s[1][4] = "charges"
  BY DEF Script

LEMMA IsolationScript ==
  LET s == Script["isolation"] IN
  /\ DOMAIN s = 1..1
  /\ Len(s[1]) = 2 /\ s[1] \in Seq({"http", "readiness"})
  /\ s[1][1] = "http" /\ s[1][2] = "readiness"
  BY DEF Script

\* What is on a script is an artefact.
LEMMA ScriptTypes ==
  ASSUME NEW e \in Experiments
  PROVE  /\ 1 \in DOMAIN Script[e]
         /\ \A p \in DOMAIN Script[e] :
               /\ Script[e][p] \in Seq(AllArtefacts)
               /\ Len(Script[e][p]) \in Nat \ {0}
               /\ DOMAIN Script[e][p] = 1..Len(Script[e][p])
<1>1. 1 \in DOMAIN Script[e]
  BY HappyScript, InstanceScript, DegradedScript, NormalizationScript,
     IdempotencyScript, IsolationScript DEF Experiments
<1>2. ASSUME NEW p \in DOMAIN Script[e]
      PROVE  /\ Script[e][p] \in Seq(AllArtefacts)
             /\ Len(Script[e][p]) \in Nat \ {0}
             /\ DOMAIN Script[e][p] = 1..Len(Script[e][p])
  <2>1. Len(Script[e][p]) \in Nat \ {0} /\ \E S : Script[e][p] \in Seq(S)
    <3>1. CASE e = "happy"
      <4>1. p = 1
        BY <3>1, HappyScript
      <4> QED
        BY <3>1, <4>1, HappyScript
    <3>2. CASE e = "instance"
      <4>1. p = 1 \/ p = 2 \/ p = 3
        BY <3>2, InstanceScript
      <4> QED
        BY <3>2, <4>1, InstanceScript
    <3>3. CASE e = "degraded"
      <4>1. p = 1
        BY <3>3, DegradedScript
      <4> QED
        BY <3>3, <4>1, DegradedScript
    <3>4. CASE e = "normalization"
      <4>1. p = 1
        BY <3>4, NormalizationScript
      <4> QED
        BY <3>4, <4>1, NormalizationScript
    <3>5. CASE e = "idempotency"
      <4>1. p = 1
        BY <3>5, IdempotencyScript
      <4> QED
        BY <3>5, <4>1, IdempotencyScript
    <3>6. CASE e = "isolation"
      <4>1. p = 1
        BY <3>6, IsolationScript
      <4> QED
        BY <3>6, <4>1, IsolationScript
    <3> QED
      BY <3>1, <3>2, <3>3, <3>4, <3>5, <3>6 DEF Experiments
  <2>2. PICK S : Script[e][p] \in Seq(S)
    BY <2>1
  <2>3. Range(Script[e][p]) \subseteq AllArtefacts
    <3>1. Range(Script[e][p]) = ToSet(Script[e][p])
      BY Zenon DEF ToSet, Range
    <3>2. ToSet(Script[e][p]) \subseteq Artefacts(e)
      BY DEF Artefacts
    <3> QED
      BY <3>1, <3>2 DEF AllArtefacts
  <2>4. Script[e][p] \in Seq(AllArtefacts)
    BY <2>2, <2>3, SeqOfRange, SeqMonotonic
  <2> QED
    BY <2>1, <2>2, <2>4, LenProperties
<1> QED
  BY <1>1, <1>2

LEMMA ScriptedArtefacts ==
  ASSUME NEW e \in Experiments,
         NEW p \in DOMAIN Script[e], NEW i \in 1..Len(Script[e][p])
  PROVE  /\ Script[e][p][i] \in Artefacts(e)
         /\ Script[e][p][i] \in AllArtefacts
         /\ Script[e][p][i] # "skip"
<1>1. i \in DOMAIN Script[e][p]
  BY ScriptTypes
<1>2. Script[e][p][i] \in ToSet(Script[e][p])
  BY <1>1 DEF ToSet
<1>3. Script[e][p][i] \in Artefacts(e)
  BY <1>2 DEF Artefacts
<1>4. Script[e][p][i] \in AllArtefacts
  BY <1>3 DEF AllArtefacts
<1>5. Script[e][p][i] # "skip"
  <2>1. CASE e = "happy"
    <3>1. p = 1
      BY <2>1, HappyScript
    <3> QED
      BY <2>1, <3>1, HappyScript
  <2>2. CASE e = "instance"
    <3>1. p = 1 \/ p = 2 \/ p = 3
      BY <2>2, InstanceScript
    <3>2. CASE p = 1
      <4>1. i \in {1, 2, 3, 4, 5, 6}
        BY <2>2, <3>2, InstanceScript
      <4> QED
        BY <2>2, <3>2, <4>1, InstanceScript
    <3>3. CASE p = 2
      BY <2>2, <3>3, InstanceScript
    <3>4. CASE p = 3
      BY <2>2, <3>4, InstanceScript
    <3> QED
      BY <3>1, <3>2, <3>3, <3>4
  <2>3. CASE e = "degraded"
    <3>1. p = 1
      BY <2>3, DegradedScript
    <3> QED
      BY <2>3, <3>1, DegradedScript
  <2>4. CASE e = "normalization"
    <3>1. p = 1
      BY <2>4, NormalizationScript
    <3> QED
      BY <2>4, <3>1, NormalizationScript
  <2>5. CASE e = "idempotency"
    <3>1. p = 1
      BY <2>5, IdempotencyScript
    <3> QED
      BY <2>5, <3>1, IdempotencyScript
  <2>6. CASE e = "isolation"
    <3>1. p = 1
      BY <2>6, IsolationScript
    <3> QED
      BY <2>6, <3>1, IsolationScript
  <2> QED
    BY <2>1, <2>2, <2>3, <2>4, <2>5, <2>6 DEF Experiments
<1> QED
  BY <1>3, <1>4, <1>5

\* No artefact is written twice.
LEMMA ScriptDistinct ==
  ASSUME NEW e \in Experiments,
         NEW p \in DOMAIN Script[e], NEW i \in 1..Len(Script[e][p]),
         NEW q \in DOMAIN Script[e], NEW j \in 1..Len(Script[e][q]),
         Script[e][p][i] = Script[e][q][j]
  PROVE  p = q /\ i = j
<1>1. CASE e = "happy"
  BY <1>1, HappyScript
<1>2. CASE e = "instance"
  <2>1. (p = 1 \/ p = 2 \/ p = 3) /\ (q = 1 \/ q = 2 \/ q = 3)
    BY <1>2, InstanceScript
  <2> DEFINE Shape(r, k) == \/ r = 1 /\ k \in {1, 2, 3, 4, 5, 6}
                            \/ r = 2 /\ k = 1
                            \/ r = 3 /\ k \in {1, 2}
  <2>2. ASSUME NEW r \in 1..3, NEW k \in 1..Len(Script["instance"][r])
        PROVE  Shape(r, k)
    <3>1. CASE r = 1
      BY <3>1, InstanceScript
    <3>2. CASE r = 2
      BY <3>2, InstanceScript
    <3>3. CASE r = 3
      BY <3>3, InstanceScript
    <3> QED
      BY <3>1, <3>2, <3>3
  <2>3. Shape(p, i) /\ Shape(q, j)
    BY <1>2, <2>1, <2>2
  <2>4. CASE p = 1 /\ q = 1
    BY <1>2, <2>3, <2>4, InstanceScript
  <2>5. CASE p # 1 /\ q = 1
    BY <1>2, <2>3, <2>5, InstanceScript
  <2>6. CASE p = 1 /\ q # 1
    BY <1>2, <2>3, <2>6, InstanceScript
  <2>7. CASE p # 1 /\ q # 1
    BY <1>2, <2>3, <2>7, InstanceScript
  <2> QED
    BY <2>4, <2>5, <2>6, <2>7
<1>3. CASE e = "degraded"
  BY <1>3, DegradedScript
<1>4. CASE e = "normalization"
  BY <1>4, NormalizationScript
<1>5. CASE e = "idempotency"
  BY <1>5, IdempotencyScript
<1>6. CASE e = "isolation"
  BY <1>6, IsolationScript
<1> QED
  BY <1>1, <1>2, <1>3, <1>4, <1>5, <1>6 DEF Experiments

\* The artefacts the invariant names are among all of them.
LEMMA Named ==
  {"locust", "traces", "mtls", "start", "delete", "traffic", "trafficSeconds",
   "recovered", "recoverySeconds", "before", "after", "charges-before", "charges",
   "responses", "checksums", "skip"} \subseteq AllArtefacts
<1>1. {"locust", "mtls", "traces"} \subseteq AllArtefacts
  <2>1. ASSUME NEW i \in 1..5 PROVE Script["happy"][1][i] \in AllArtefacts
    BY HappyScript, ScriptedArtefacts DEF Experiments
  <2> QED
    BY <2>1, HappyScript
<1>2. {"start", "delete", "traffic", "trafficSeconds", "recovered", "recoverySeconds"}
        \subseteq AllArtefacts
  <2>1. ASSUME NEW i \in 1..6 PROVE Script["instance"][1][i] \in AllArtefacts
    <3>1. "instance" \in Experiments
      BY DEF Experiments
    <3>2. 1 \in DOMAIN Script["instance"] /\ i \in 1..Len(Script["instance"][1])
      BY InstanceScript
    <3> QED
      BY <3>1, <3>2, ScriptedArtefacts
  <2> QED
    BY <2>1, InstanceScript
<1>3. {"before", "after"} \subseteq AllArtefacts
  <2>1. ASSUME NEW i \in 1..5 PROVE Script["degraded"][1][i] \in AllArtefacts
    BY DegradedScript, ScriptedArtefacts DEF Experiments
  <2> QED
    BY <2>1, DegradedScript
<1>4. {"charges-before", "charges", "responses", "checksums"} \subseteq AllArtefacts
  <2>1. ASSUME NEW i \in 1..4 PROVE Script["idempotency"][1][i] \in AllArtefacts
    BY IdempotencyScript, ScriptedArtefacts DEF Experiments
  <2> QED
    BY <2>1, IdempotencyScript
<1>5. "skip" \in AllArtefacts
  BY DEF AllArtefacts
<1> QED
  BY <1>1, <1>2, <1>3, <1>4, <1>5

------------------------------------------------------------------------------
(***************************************************************************)
(* The invariant.                                                          *)
(***************************************************************************)
LEMMA InitIInv == Init => IInv
<1> SUFFICES ASSUME Init PROVE IInv
  OBVIOUS
<1> USE DEF Init
<1>1. exp \in Experiments /\ todo = Script[exp]
  OBVIOUS
<1>2. \A a \in AllArtefacts : files[a] = None
  OBVIOUS
<1>3. \A p \in DOMAIN todo : Written(p) = 0
  BY <1>1, ScriptTypes DEF Written
<1>4. OnScript
  <2>1. ASSUME NEW p \in DOMAIN todo, NEW i \in 1..Len(todo[p])
        PROVE  todo[p][i] = Script[exp][p][i + Written(p)]
    BY <1>1, <1>3, ScriptTypes
  <2> QED
    BY <1>1, <2>1, ScriptTypes DEF OnScript
<1>5. Pending
  BY <1>1, <1>2, ScriptedArtefacts DEF Pending
<1>6. Sound
  BY <1>2, Named DEF Sound
<1>7. Coherent
  BY <1>2, Named DEF Coherent
<1>8. SkippedForGood
  BY <1>2, Named DEF SkippedForGood, Has
<1> QED
  BY <1>4, <1>5, <1>6, <1>7, <1>8 DEF IInv

\* Where process p is: its next artefact is the next one on its script.
LEMMA NextOnScript ==
  ASSUME OnScript, NEW p \in DOMAIN todo, todo[p] # <<>>
  PROVE  /\ p \in DOMAIN Script[exp]
         /\ Written(p) + 1 \in 1..Len(Script[exp][p])
         /\ Head(todo[p]) = Script[exp][p][Written(p) + 1]
         /\ Head(todo[p]) \in AllArtefacts /\ Head(todo[p]) # "skip"
<1>1. /\ p \in DOMAIN Script[exp] /\ exp \in Experiments
      /\ Len(todo[p]) \in Nat \ {0} /\ Len(Script[exp][p]) \in Nat
      /\ Len(todo[p]) <= Len(Script[exp][p])
      /\ todo[p] \in Seq(AllArtefacts)
  BY EmptySeq, ScriptTypes DEF OnScript
<1>2. Written(p) \in Nat /\ Written(p) + 1 \in 1..Len(Script[exp][p])
  BY <1>1 DEF Written
<1>3. Head(todo[p]) = todo[p][1]
  BY <1>1
<1>4. todo[p][1] = Script[exp][p][1 + Written(p)]
  BY <1>1 DEF OnScript
<1>5. 1 + Written(p) = Written(p) + 1
  BY <1>2
<1>6. Script[exp][p][Written(p) + 1] \in AllArtefacts
      /\ Script[exp][p][Written(p) + 1] # "skip"
  BY <1>1, <1>2, ScriptedArtefacts
<1> QED
  BY <1>1, <1>2, <1>3, <1>4, <1>5, <1>6

\* Writing an artefact moves process p one place ahead and no other one.
LEMMA WriteAdvances ==
  ASSUME OnScript, NEW p \in DOMAIN todo, Write(p)
  PROVE  /\ OnScript'
         /\ Written(p)' = Written(p) + 1
         /\ \A q \in DOMAIN todo : q # p => Written(q)' = Written(q)
<1>1. todo[p] # <<>> /\ todo' = [todo EXCEPT ![p] = Tail(todo[p])] /\ exp' = exp
  BY DEF Write
<1>2. /\ Tail(todo[p]) \in Seq(AllArtefacts)
      /\ Len(Tail(todo[p])) = Len(todo[p]) - 1
      /\ \A i \in 1..Len(Tail(todo[p])) : Tail(todo[p])[i] = todo[p][i + 1]
  BY <1>1, HeadTailProperties DEF OnScript
<1>3. /\ Len(todo[p]) \in Nat \ {0} /\ Len(Script[exp][p]) \in Nat
      /\ Len(todo[p]) <= Len(Script[exp][p])
  BY <1>1, EmptySeq, ScriptTypes DEF OnScript
<1>4. /\ todo'[p] = Tail(todo[p])
      /\ \A q \in DOMAIN todo : q # p => todo'[q] = todo[q]
      /\ DOMAIN todo' = DOMAIN todo
  BY <1>1
<1>5. Written(p)' = Written(p) + 1
  BY <1>1, <1>2, <1>3, <1>4 DEF Written
<1>6. \A q \in DOMAIN todo : q # p => Written(q)' = Written(q)
  BY <1>1, <1>4 DEF Written
<1>7. DOMAIN files' = AllArtefacts
  BY DEF Write, OnScript
<1>8. ASSUME NEW q \in DOMAIN todo
      PROVE  /\ todo'[q] \in Seq(AllArtefacts)
             /\ Len(todo'[q]) <= Len(Script[exp][q])
             /\ \A i \in 1..Len(todo'[q]) :
                   todo'[q][i] = Script[exp][q][i + Written(q)']
  <2>1. CASE q # p
    BY <1>4, <1>6, <2>1 DEF OnScript
  <2>2. CASE q = p
    <3>1. ASSUME NEW i \in 1..Len(todo'[p])
          PROVE  todo'[p][i] = Script[exp][p][i + Written(p)']
      <4>1. i + 1 \in 1..Len(todo[p]) /\ todo'[p][i] = todo[p][i + 1]
        BY <1>2, <1>3, <1>4
      <4>2. todo[p][i + 1] = Script[exp][p][(i + 1) + Written(p)]
        BY <4>1 DEF OnScript
      <4>3. (i + 1) + Written(p) = i + Written(p)'
        <5>1. i \in Int /\ Written(p) \in Int
          BY <1>3 DEF Written
        <5> QED
          BY <1>5, <5>1
      <4> QED
        BY <4>1, <4>2, <4>3
    <3>2. todo'[p] \in Seq(AllArtefacts) /\ Len(todo'[p]) <= Len(Script[exp][p])
      BY <1>2, <1>3, <1>4
    <3> QED
      BY <2>2, <3>1, <3>2
  <2> QED
    BY <2>1, <2>2
<1> QED
  BY <1>1, <1>4, <1>5, <1>6, <1>7, <1>8 DEF OnScript

\* What a step may do to the artefacts: it writes one, or the load test goes on,
\* or the experiment is skipped.
LEMMA WriteFiles ==
  ASSUME OnScript, NEW p \in DOMAIN todo, Write(p)
  PROVE  /\ Head(todo[p]) \in AllArtefacts /\ Head(todo[p]) # "skip"
         /\ \E c \in Contents(Head(todo[p])) \cup {None} :
               files' = [files EXCEPT ![Head(todo[p])] = c]
         /\ \A a \in AllArtefacts : a # Head(todo[p]) => files'[a] = files[a]
         /\ files'[Head(todo[p])] \in Contents(Head(todo[p])) \cup {None}
<1> DEFINE h == Head(todo[p])
<1>1. h \in AllArtefacts /\ h # "skip"
  BY NextOnScript DEF Write
<1>2. PICK c \in Contents(h) \cup {None} : files' = [files EXCEPT ![h] = c]
  BY DEF Write
<1>3. DOMAIN files = AllArtefacts
  BY DEF OnScript
<1> HIDE DEF h
<1>4. /\ \A a \in AllArtefacts : a # h => files'[a] = files[a]
      /\ files'[h] \in Contents(h) \cup {None}
  BY <1>1, <1>2, <1>3
<1> QED
  BY <1>1, <1>2, <1>4 DEF h

LEMMA LoadFiles ==
  ASSUME OnScript, NEW p \in DOMAIN todo, LoadProgress(p)
  PROVE  /\ \A a \in AllArtefacts : a # "locust" => files'[a] = files[a]
         /\ files'["locust"] \in Loads
         /\ UNCHANGED <<exp, todo>> /\ DOMAIN files' = AllArtefacts
         /\ todo[p] # <<>>
  BY Named DEF LoadProgress, OnScript

LEMMA SkipFiles ==
  ASSUME OnScript, Skip
  PROVE  /\ \A a \in AllArtefacts : a # "skip" => files'[a] = files[a]
         /\ DOMAIN todo' = DOMAIN todo /\ \A p \in DOMAIN todo : todo'[p] = <<>>
         /\ todo = Script[exp] /\ UNCHANGED exp /\ DOMAIN files' = AllArtefacts
  BY Named DEF Skip, OnScript

LEMMA NextOnScripts ==
  ASSUME OnScript, [Next]_vars PROVE OnScript'
<1>1. ASSUME NEW p \in DOMAIN todo, Write(p) PROVE OnScript'
  BY <1>1, WriteAdvances
<1>2. ASSUME NEW p \in DOMAIN todo, LoadProgress(p) PROVE OnScript'
  BY <1>2, LoadFiles DEF OnScript, Written
<1>3. CASE Skip
  <2>1. ASSUME NEW p \in DOMAIN todo
        PROVE  /\ todo'[p] \in Seq(AllArtefacts)
               /\ Len(todo'[p]) = 0
               /\ Len(todo'[p]) <= Len(Script[exp][p])
    <3>1. todo'[p] = <<>>
      BY <1>3, SkipFiles
    <3>2. Len(Script[exp][p]) \in Nat
      BY ScriptTypes DEF OnScript
    <3> QED
      BY <3>1, <3>2
  <2>2. ASSUME NEW p \in DOMAIN todo PROVE 1..Len(todo'[p]) = {}
    BY <2>1
  <2>3. /\ exp' \in Experiments /\ DOMAIN files' = AllArtefacts
        /\ DOMAIN todo' = DOMAIN todo /\ DOMAIN todo = DOMAIN Script[exp]
        /\ exp' = exp
    BY <1>3, SkipFiles DEF OnScript
  <2> QED
    BY <2>1, <2>2, <2>3 DEF OnScript
<1>4. CASE UNCHANGED vars
  BY <1>4 DEF OnScript, Written, vars
<1> QED
  BY <1>1, <1>2, <1>3, <1>4 DEF Next

LEMMA NextPending ==
  ASSUME OnScript, Pending, [Next]_vars PROVE Pending'
<1>1. ASSUME NEW p \in DOMAIN todo, Write(p) PROVE Pending'
  <2>1. /\ DOMAIN todo' = DOMAIN todo /\ exp' = exp
        /\ exp \in Experiments /\ DOMAIN todo = DOMAIN Script[exp]
    BY <1>1 DEF Write, OnScript
  <2>2. /\ Written(p) + 1 \in 1..Len(Script[exp][p])
        /\ Head(todo[p]) = Script[exp][p][Written(p) + 1]
    BY <1>1, NextOnScript DEF Write
  <2> SUFFICES ASSUME NEW q \in DOMAIN todo, NEW i \in 1..Len(Script[exp][q]),
                      i > Written(q)', Script[exp][q][i] # "locust"
               PROVE  files'[Script[exp][q][i]] = None
    BY <2>1 DEF Pending
  <2>3. i > Written(q) /\ (q = p => i # Written(p) + 1)
    <3>1. Written(p) \in Int
      BY <2>1, ScriptTypes, LenProperties DEF Written, OnScript
    <3>2. CASE q = p
      BY <1>1, <3>1, <3>2, WriteAdvances
    <3>3. CASE q # p
      BY <1>1, <3>3, WriteAdvances
    <3> QED
      BY <3>2, <3>3
  <2>4. files[Script[exp][q][i]] = None
    BY <2>3 DEF Pending
  <2>5. Script[exp][q][i] # Head(todo[p])
    BY <2>1, <2>2, <2>3, ScriptDistinct
  <2>6. Script[exp][q][i] \in AllArtefacts
    BY <2>1, ScriptedArtefacts
  <2> QED
    BY <1>1, <2>4, <2>5, <2>6, WriteFiles
<1>2. ASSUME NEW p \in DOMAIN todo, LoadProgress(p) PROVE Pending'
  <2>1. \A q \in DOMAIN todo : Written(q)' = Written(q)
    BY <1>2, LoadFiles DEF Written
  <2>2. \A q \in DOMAIN todo : \A i \in 1..Len(Script[exp][q]) :
           Script[exp][q][i] \in AllArtefacts
    BY ScriptedArtefacts DEF OnScript
  <2> QED
    BY <1>2, <2>1, <2>2, LoadFiles DEF Pending
<1>3. CASE Skip
  <2>1. ASSUME NEW q \in DOMAIN todo PROVE Written(q)' = Len(Script[exp][q])
    <3>1. Len(todo'[q]) = 0 /\ exp' = exp
      BY <1>3, SkipFiles
    <3>2. Len(Script[exp][q]) \in Nat
      BY ScriptTypes DEF OnScript
    <3> QED
      BY <3>1, <3>2 DEF Written
  <2> SUFFICES ASSUME NEW q \in DOMAIN todo, NEW i \in 1..Len(Script[exp][q])
               PROVE  ~(i > Len(Script[exp][q]))
    BY <1>3, <2>1, SkipFiles DEF Pending
  <2> QED
    BY ScriptTypes DEF OnScript
<1>4. CASE UNCHANGED vars
  BY <1>4 DEF Pending, Written, vars
<1> QED
  BY <1>1, <1>2, <1>3, <1>4 DEF Next

\* The artefacts that others depend on belong to one experiment each.
LEMMA ScriptOwner ==
  ASSUME NEW e \in Experiments,
         NEW p \in DOMAIN Script[e], NEW i \in 1..Len(Script[e][p])
  PROVE  /\ Script[e][p][i] \in {"start", "delete", "traffic", "recovered"} =>
              e = "instance"
         /\ Script[e][p][i] = "responses" => e = "idempotency"
<1>1. CASE e = "happy"
  BY <1>1, HappyScript
<1>2. CASE e = "instance"
  <2>1. p = 1 \/ p = 2 \/ p = 3
    BY <1>2, InstanceScript
  <2>2. CASE p = 1
    <3>1. i \in {1, 2, 3, 4, 5, 6}
      BY <1>2, <2>2, InstanceScript
    <3> QED
      BY <1>2, <2>2, <3>1, InstanceScript
  <2>3. CASE p = 2
    BY <1>2, <2>3, InstanceScript
  <2>4. CASE p = 3
    BY <1>2, <2>4, InstanceScript
  <2> QED
    BY <2>1, <2>2, <2>3, <2>4
<1>3. CASE e = "degraded"
  BY <1>3, DegradedScript
<1>4. CASE e = "normalization"
  BY <1>4, NormalizationScript
<1>5. CASE e = "idempotency"
  BY <1>5, IdempotencyScript
<1>6. CASE e = "isolation"
  BY <1>6, IsolationScript
<1> QED
  BY <1>1, <1>2, <1>3, <1>4, <1>5, <1>6 DEF Experiments

\* What comes after the next artefact of a process is missing.
LEMMA LaterMissing ==
  ASSUME OnScript, Pending, NEW p \in DOMAIN todo, todo[p] # <<>>,
         NEW q \in DOMAIN Script[exp], NEW i \in 1..Len(Script[exp][q]),
         Head(todo[p]) = Script[exp][q][i],
         NEW j \in 1..Len(Script[exp][q]), j > i, Script[exp][q][j] # "locust"
  PROVE  files[Script[exp][q][j]] = None
<1>1. /\ p \in DOMAIN Script[exp] /\ exp \in Experiments
      /\ Written(p) + 1 \in 1..Len(Script[exp][p])
      /\ Head(todo[p]) = Script[exp][p][Written(p) + 1]
  BY NextOnScript DEF OnScript
<1>2. p = q /\ Written(p) + 1 = i
  BY <1>1, ScriptDistinct
<1>3. Len(todo[p]) \in Nat /\ Len(Script[exp][p]) \in Nat
  BY <1>1, ScriptTypes DEF OnScript
<1>4. j > Written(p)
  BY <1>2, <1>3 DEF Written
<1> QED
  BY <1>2, <1>4 DEF Pending

\* The order of the artefacts that depend on each other.
LEMMA OrderKept ==
  ASSUME OnScript, Pending, NEW p \in DOMAIN todo, todo[p] # <<>>
  PROVE  /\ Head(todo[p]) = "delete" => files["traffic"] = None
         /\ Head(todo[p]) = "traffic" => files["trafficSeconds"] = None
         /\ Head(todo[p]) = "recovered" => files["recoverySeconds"] = None
         /\ Head(todo[p]) = "responses" => files["checksums"] = None
<1> DEFINE h == Head(todo[p])
<1>1. /\ h \in {"start", "delete", "traffic", "recovered"} => exp = "instance"
      /\ h = "responses" => exp = "idempotency"
  BY NextOnScript, ScriptOwner DEF OnScript
<1>2. ASSUME exp = "instance", NEW i \in 1..6, NEW j \in 1..6, j > i,
             h = Script["instance"][1][i]
      PROVE  files[Script["instance"][1][j]] = None
  <2>1. Script["instance"][1][j] # "locust"
    <3>1. j \in {1, 2, 3, 4, 5, 6}
      OBVIOUS
    <3> QED
      BY <3>1, InstanceScript
  <2>2. /\ 1 \in DOMAIN Script["instance"]
        /\ i \in 1..Len(Script["instance"][1]) /\ j \in 1..Len(Script["instance"][1])
    BY InstanceScript
  <2> QED
    BY <1>2, <2>1, <2>2, LaterMissing
<1>3. ASSUME exp = "idempotency", h = "responses" PROVE files["checksums"] = None
  <2>1. /\ 1 \in DOMAIN Script["idempotency"]
        /\ 2 \in 1..Len(Script["idempotency"][1])
        /\ 3 \in 1..Len(Script["idempotency"][1])
        /\ Script["idempotency"][1][2] = "responses"
        /\ Script["idempotency"][1][3] = "checksums"
    BY IdempotencyScript
  <2> QED
    BY <1>3, <2>1, LaterMissing
<1> HIDE DEF h
<1>4. h = "delete" => files["traffic"] = None
  BY <1>1, <1>2, InstanceScript
<1>5. h = "traffic" => files["trafficSeconds"] = None
  BY <1>1, <1>2, InstanceScript
<1>6. h = "recovered" => files["recoverySeconds"] = None
  BY <1>1, <1>2, InstanceScript
<1> QED
  BY <1>1, <1>3, <1>4, <1>5, <1>6 DEF h

\* What may be written into the artefacts the invariant names.
LEMMA ContentsOf ==
  /\ Contents("locust") = Loads
  /\ Contents("traces") = Traces
  /\ Contents("mtls") = Vectors
  /\ Contents("start") = {FailureEpoch}
  /\ Contents("traffic") = IF files["delete"] = "deleted" THEN Epochs ELSE {}
  /\ Contents("recovered") = Epochs
  /\ Contents("trafficSeconds") =
       IF files["traffic"] = None THEN {} ELSE {files["traffic"] - FailureEpoch}
  /\ Contents("recoverySeconds") =
       IF files["recovered"] = None THEN {} ELSE {files["recovered"] - FailureEpoch}
  /\ \A a \in {"before", "after", "charges-before", "charges"} : Contents(a) = Totals
  /\ Contents("responses") = Responses
  /\ Contents("checksums") = {<<>>} \cup ({files["responses"]} \ {None})
  BY DEF Contents

LEMMA NextSound ==
  ASSUME OnScript, Sound, [Next]_vars PROVE Sound'
<1>1. ASSUME NEW p \in DOMAIN todo, Write(p) PROVE Sound'
  <2> DEFINE h == Head(todo[p])
  <2>1. /\ \A a \in AllArtefacts : a # h => files'[a] = files[a]
        /\ files'[h] \in Contents(h) \cup {None}
    BY <1>1, WriteFiles
  <2> HIDE DEF h
  <2>2. files'["locust"] \in Loads \cup {None}
    BY <2>1, ContentsOf, Named DEF Sound
  <2>3. files'["traces"] \in Traces \cup {None}
    BY <2>1, ContentsOf, Named DEF Sound
  <2>4. files'["mtls"] \in Vectors \cup {None}
    BY <2>1, ContentsOf, Named DEF Sound
  <2>5. files'["start"] \in {FailureEpoch, None}
    BY <2>1, ContentsOf, Named DEF Sound
  <2>6. files'["traffic"] \in Epochs \cup {None}
    BY <2>1, ContentsOf, Named DEF Sound
  <2>7. files'["recovered"] \in Epochs \cup {None}
    BY <2>1, ContentsOf, Named DEF Sound
  <2>8. \A a \in {"before", "after", "charges-before", "charges"} :
           files'[a] \in Totals \cup {None}
    BY <2>1, ContentsOf, Named DEF Sound
  <2>9. files'["responses"] \in Responses \cup {None}
    BY <2>1, ContentsOf, Named DEF Sound
  <2> QED
    BY <2>2, <2>3, <2>4, <2>5, <2>6, <2>7, <2>8, <2>9 DEF Sound
<1>2. ASSUME NEW p \in DOMAIN todo, LoadProgress(p) PROVE Sound'
  BY <1>2, LoadFiles, Named DEF Sound
<1>3. CASE Skip
  BY <1>3, SkipFiles, Named DEF Sound
<1>4. CASE UNCHANGED vars
  BY <1>4 DEF Sound, vars
<1> QED
  BY <1>1, <1>2, <1>3, <1>4 DEF Next

LEMMA NextCoherent ==
  ASSUME OnScript, Pending, Coherent, [Next]_vars PROVE Coherent'
<1>1. ASSUME NEW p \in DOMAIN todo, Write(p) PROVE Coherent'
  <2> DEFINE h == Head(todo[p])
  <2>1. /\ \A a \in AllArtefacts : a # h => files'[a] = files[a]
        /\ files'[h] \in Contents(h) \cup {None}
    BY <1>1, WriteFiles
  <2>2. /\ h = "delete" => files["traffic"] = None
        /\ h = "traffic" => files["trafficSeconds"] = None
        /\ h = "recovered" => files["recoverySeconds"] = None
        /\ h = "responses" => files["checksums"] = None
    BY <1>1, OrderKept DEF Write
  <2> HIDE DEF h
  <2>3. files'["trafficSeconds"] # None =>
           /\ files'["traffic"] # None
           /\ files'["trafficSeconds"] = files'["traffic"] - FailureEpoch
    BY <2>1, <2>2, ContentsOf, Named DEF Coherent
  <2>4. files'["recoverySeconds"] # None =>
           /\ files'["recovered"] # None
           /\ files'["recoverySeconds"] = files'["recovered"] - FailureEpoch
    BY <2>1, <2>2, ContentsOf, Named DEF Coherent
  <2>5. files'["traffic"] # None => files'["delete"] = "deleted"
    BY <2>1, <2>2, ContentsOf, Named DEF Coherent
  <2>6. files'["checksums"] \in {None, <<>>, files'["responses"]}
    BY <2>1, <2>2, ContentsOf, Named DEF Coherent
  <2> QED
    BY <2>3, <2>4, <2>5, <2>6 DEF Coherent
<1>2. ASSUME NEW p \in DOMAIN todo, LoadProgress(p) PROVE Coherent'
  BY <1>2, LoadFiles, Named DEF Coherent
<1>3. CASE Skip
  BY <1>3, SkipFiles, Named DEF Coherent
<1>4. CASE UNCHANGED vars
  BY <1>4 DEF Coherent, vars
<1> QED
  BY <1>1, <1>2, <1>3, <1>4 DEF Next

LEMMA NextSkippedForGood ==
  ASSUME OnScript, Pending, SkippedForGood, [Next]_vars PROVE SkippedForGood'
<1>1. ASSUME NEW p \in DOMAIN todo, Write(p) PROVE SkippedForGood'
  <2>1. ~Has("skip")
    BY <1>1 DEF SkippedForGood, Write
  <2> QED
    BY <1>1, <2>1, WriteFiles, Named DEF SkippedForGood, Has
<1>2. ASSUME NEW p \in DOMAIN todo, LoadProgress(p) PROVE SkippedForGood'
  <2>1. ~Has("skip")
    BY <1>2, LoadFiles DEF SkippedForGood
  <2> QED
    BY <1>2, <2>1, LoadFiles, Named DEF SkippedForGood, Has
<1>3. CASE Skip
  <2>1. ASSUME exp = "instance" PROVE files["start"] = None
    <3>1. 1 \in DOMAIN todo /\ Written(1) = 0
      <4>1. todo = Script["instance"]
        BY <1>3, <2>1, SkipFiles
      <4> QED
        BY <2>1, <4>1, InstanceScript DEF Written
    <3>2. 1 \in 1..Len(Script[exp][1]) /\ Script[exp][1][1] = "start"
      BY <2>1, InstanceScript
    <3> QED
      BY <3>1, <3>2 DEF Pending
  <2> QED
    BY <1>3, <2>1, SkipFiles, Named DEF SkippedForGood
<1>4. CASE UNCHANGED vars
  BY <1>4 DEF SkippedForGood, Has, vars
<1> QED
  BY <1>1, <1>2, <1>3, <1>4 DEF Next

LEMMA SpecIInv == Spec => []IInv
<1>1. IInv /\ [Next]_vars => IInv'
  BY NextOnScripts, NextPending, NextSound, NextCoherent, NextSkippedForGood DEF IInv
<1> QED
  BY InitIInv, <1>1, PTL DEF Spec

------------------------------------------------------------------------------
(***************************************************************************)
(* Sums of traffic.  MapThenSumSet takes the samples of a set one by one,  *)
(* in an order that nothing is known of.                                   *)
(***************************************************************************)
\* Induction over the subsets of a finite set: the sets of Good are all of them if
\* every set is good whose proper subsets are.
LEMMA SubsetInduction ==
  ASSUME NEW S, IsFiniteSet(S), NEW Good,
         \A T \in SUBSET S : (\A U \in SUBSET T : U # T => U \in Good) => T \in Good
  PROVE  SUBSET S \subseteq Good
<1> DEFINE Bad == (SUBSET S) \ Good
           R == StrictSubsetOrdering(S)
<1> SUFFICES ASSUME Bad # {} PROVE FALSE
  OBVIOUS
<1>1. IsWellFoundedOn(R, SUBSET S)
  <2>1. IsWellFoundedOn(R, FiniteSubsetsOf(S))
    BY FS_StrictSubsetOrderingWellFounded
  <2>2. FiniteSubsetsOf(S) = SUBSET S
    BY FS_FiniteSubsetsOfFinite
  <2> QED
    BY <2>1, <2>2
<1>2. Bad \subseteq SUBSET S
  OBVIOUS
<1> HIDE DEF R, Bad
<1>3. \E T \in Bad : \A U \in Bad : ~(<<U, T>> \in R)
  BY <1>1, <1>2, WFMin
<1>4. PICK T \in Bad : \A U \in Bad : ~(<<U, T>> \in R)
  BY <1>3
<1>5. ASSUME NEW U \in SUBSET T, U # T PROVE U \in Good
  <2>1. T \in SUBSET S /\ U \in SUBSET S
    BY <1>2
  <2>2. <<U, T>> \in R
    BY <1>5, <2>1 DEF R, StrictSubsetOrdering
  <2> QED
    BY <1>4, <2>1, <2>2 DEF Bad
<1> QED
  BY <1>4, <1>5 DEF Bad

\* The sum of the samples of T.
Sum(T) == MapThenSumSet(LAMBDA s : s.value, T)

\* f is the recursive function behind the sum, and the one that is meant.
IsFold(f, T) ==
    f = [s \in SUBSET T |->
            IF s = {} THEN 0
            ELSE LET x == CHOOSE x \in s : TRUE IN x.value + f[s \ {x}]]
Fold(T) == CHOOSE f : IsFold(f, T)

\* The sample that is taken first.
First(s) == CHOOSE x \in s : TRUE

\* g adds up the samples of every subset of S, whichever is taken first.
Adds(g, S) ==
    /\ g \in [SUBSET S -> Int]
    /\ g[{}] = 0
    /\ \A T \in SUBSET S : \A x \in T : g[T] = x.value + g[T \ {x}]

LEMMA SumIsFold ==
  ASSUME NEW T
  PROVE  Sum(T) = Fold(T)[T]
  BY DEF Sum, Fold, IsFold, MapThenSumSet, MapThenFoldSet

LEMMA FirstIn == ASSUME NEW s, s # {} PROVE First(s) \in s
  BY DEF First

\* There is a function that adds up: take any sample last.
LEMMA AddsExists ==
  ASSUME NEW S, IsFiniteSet(S), \A s \in S : s.value \in Int
  PROVE  \E g : Adds(g, S)
<1> DEFINE Good == {T \in SUBSET S : \E g : Adds(g, T)}
<1>1. ASSUME NEW T \in SUBSET S, \A U \in SUBSET T : U # T => U \in Good
      PROVE  T \in Good
  <2>1. CASE T = {}
    <3> DEFINE g == [s \in SUBSET T |-> 0]
    <3>1. Adds(g, T)
      BY <2>1 DEF Adds
    <3> QED
      BY <3>1
  <2>2. CASE T # {}
    <3> DEFINE x == First(T)
               U == T \ {x}
    <3>1. x \in T
      BY <2>2, FirstIn
    <3> HIDE DEF x
    <3>2. U \in SUBSET T /\ U # T
      BY <3>1
    <3>3. PICK h : Adds(h, U)
      BY <1>1, <3>2
    <3> DEFINE g == [s \in SUBSET T |-> IF x \in s THEN x.value + h[s \ {x}] ELSE h[s]]
    <3>4. x.value \in Int /\ \A y \in T : y.value \in Int
      BY <3>1
    <3>5. \A s \in SUBSET T : s \ {x} \in SUBSET U /\ (x \notin s => s \in SUBSET U)
      OBVIOUS
    <3>6. \A s \in SUBSET U : h[s] \in Int
      BY <3>3 DEF Adds
    <3> HIDE DEF U
    <3>7. g \in [SUBSET T -> Int]
      BY <3>4, <3>5, <3>6
    <3>8. g[{}] = 0
      BY <3>3 DEF Adds
    <3>9. ASSUME NEW s \in SUBSET T, NEW y \in s PROVE g[s] = y.value + g[s \ {y}]
      <4>1. s \ {y} \in SUBSET T
        OBVIOUS
      <4>2. CASE x \notin s
        <5>1. s \in SUBSET U /\ g[s] = h[s] /\ g[s \ {y}] = h[s \ {y}]
          BY <3>5, <4>1, <4>2
        <5> QED
          BY <3>3, <5>1 DEF Adds
      <4>3. CASE y = x
        <5>1. g[s] = x.value + h[s \ {x}] /\ g[s \ {y}] = h[s \ {x}]
          BY <4>1, <4>3
        <5> QED
          BY <3>4, <4>3, <5>1
      <4>4. CASE x \in s /\ y # x
        <5>1. g[s] = x.value + h[s \ {x}] /\ g[s \ {y}] = x.value + h[(s \ {y}) \ {x}]
          BY <4>1, <4>4
        <5>2. (s \ {y}) \ {x} = (s \ {x}) \ {y}
          OBVIOUS
        <5>3. s \ {x} \in SUBSET U /\ y \in s \ {x}
          BY <3>5, <4>4
        <5>4. h[s \ {x}] = y.value + h[(s \ {x}) \ {y}]
          BY <3>3, <5>3 DEF Adds
        <5>5. (s \ {x}) \ {y} \in SUBSET U
          BY <5>3
        <5>6. h[(s \ {x}) \ {y}] \in Int /\ y.value \in Int
          BY <3>4, <3>6, <5>5
        <5>7. \A i, j, k \in Int : i + (j + k) = j + (i + k)
          OBVIOUS
        <5>8. g[s \ {y}] = x.value + h[(s \ {x}) \ {y}]
          BY <5>1, <5>2
        <5> QED
          BY <3>4, <5>1, <5>4, <5>6, <5>7, <5>8
      <4> QED
        BY <4>2, <4>3, <4>4
    <3> HIDE DEF g
    <3>10. Adds(g, T)
      BY <3>7, <3>8, <3>9 DEF Adds
    <3> QED
      BY <3>10
  <2> QED
    BY <2>1, <2>2
<1> HIDE DEF Good
<1>2. SUBSET S \subseteq Good
  BY <1>1, SubsetInduction
<1> QED
  BY <1>2 DEF Good

\* It is what MapThenSumSet computes.
LEMMA SumAdds ==
  ASSUME NEW S, IsFiniteSet(S), NEW g, Adds(g, S), NEW T \in SUBSET S
  PROVE  Sum(T) = g[T]
<1> DEFINE e == [s \in SUBSET T |-> g[s]]
<1>1. IsFold(e, T)
  <2>1. ASSUME NEW s \in SUBSET T
        PROVE  e[s] = IF s = {} THEN 0 ELSE First(s).value + e[s \ {First(s)}]
    <3>1. CASE s = {}
      BY <3>1 DEF Adds
    <3>2. CASE s # {}
      <4>1. First(s) \in s
        BY <3>2, FirstIn
      <4>2. s \in SUBSET S /\ s \ {First(s)} \in SUBSET T
        OBVIOUS
      <4> QED
        BY <3>2, <4>1, <4>2 DEF Adds
    <3> QED
      BY <3>1, <3>2
  <2>2. e = [s \in SUBSET T |-> IF s = {} THEN 0
                                ELSE First(s).value + e[s \ {First(s)}]]
    BY <2>1
  <2> HIDE DEF e
  <2> QED
    BY <2>2, Zenon DEF IsFold, First
<1>2. IsFold(Fold(T), T)
  BY <1>1, Zenon DEF Fold
<1> DEFINE f == Fold(T)
           Good == {s \in SUBSET T : f[s] = g[s]}
<1> HIDE DEF f
<1>3. \A s \in SUBSET T : f[s] = IF s = {} THEN 0
                                 ELSE First(s).value + f[s \ {First(s)}]
  BY <1>2, Zenon DEF IsFold, First, f
<1>4. ASSUME NEW s \in SUBSET T, \A u \in SUBSET s : u # s => u \in Good
      PROVE  s \in Good
  <2>1. CASE s = {}
    BY <1>3, <2>1 DEF Adds
  <2>2. CASE s # {}
    <3> DEFINE x == First(s)
    <3>1. x \in s
      BY <2>2, FirstIn
    <3>2. f[s] = x.value + f[s \ {x}]
      BY <1>3, <2>2
    <3> HIDE DEF x
    <3>3. s \ {x} \in SUBSET s /\ s \ {x} # s
      BY <3>1
    <3>4. f[s \ {x}] = g[s \ {x}]
      BY <1>4, <3>3
    <3>5. g[s] = x.value + g[s \ {x}]
      BY <3>1 DEF Adds
    <3> QED
      BY <3>2, <3>4, <3>5
  <2> QED
    BY <2>1, <2>2
<1>5. IsFiniteSet(T)
  BY FS_Subset
<1> HIDE DEF Good
<1>6. SUBSET T \subseteq Good
  BY <1>4, <1>5, SubsetInduction
<1>7. T \in Good
  BY <1>6
<1> QED
  BY <1>7, SumIsFold DEF Good, f

\* A set of positive samples has more traffic than any other set within it.
LEMMA SumGrows ==
  ASSUME NEW S, IsFiniteSet(S), \A s \in S : s.value \in Int /\ s.value > 0,
         NEW T \in SUBSET S
  PROVE  /\ Sum({}) = 0
         /\ Sum(T) \in Int /\ Sum(S) \in Int
         /\ T # S => Sum(T) < Sum(S)
<1>1. PICK g : Adds(g, S)
  BY AddsExists
<1>2. \A U \in SUBSET S : Sum(U) = g[U] /\ g[U] \in Int
  <2>1. \A U \in SUBSET S : Sum(U) = g[U]
    BY <1>1, SumAdds
  <2>2. \A U \in SUBSET S : g[U] \in Int
    BY <1>1 DEF Adds
  <2> QED
    BY <2>1, <2>2
<1> DEFINE Good == {U \in SUBSET S : \A V \in SUBSET U : V # U => g[V] < g[U]}
<1>3. ASSUME NEW U \in SUBSET S, \A V \in SUBSET U : V # U => V \in Good
      PROVE  U \in Good
  <2> SUFFICES ASSUME NEW V \in SUBSET U, V # U PROVE g[V] < g[U]
    OBVIOUS
  <2>1. PICK x \in U : x \notin V
    OBVIOUS
  <2>2. V \in SUBSET (U \ {x}) /\ U \ {x} \in SUBSET U /\ U \ {x} # U
    BY <2>1
  <2>3. V = U \ {x} \/ g[V] < g[U \ {x}]
    BY <1>3, <2>2
  <2>4. g[U] = x.value + g[U \ {x}]
    BY <1>1 DEF Adds
  <2>5. x.value \in Int /\ x.value > 0
    OBVIOUS
  <2>6. V \in SUBSET S /\ U \ {x} \in SUBSET S
    OBVIOUS
  <2>7. g[V] \in Int /\ g[U] \in Int /\ g[U \ {x}] \in Int
    BY <1>2, <2>6
  <2> QED
    <3>1. \A i, j, k \in Int : i > 0 /\ (j = k \/ j < k) => j < i + k
      OBVIOUS
    <3>2. g[V] = g[U \ {x}] \/ g[V] < g[U \ {x}]
      BY <2>3
    <3> QED
      BY <2>4, <2>5, <2>7, <3>1, <3>2
<1> HIDE DEF Good
<1>4. SUBSET S \subseteq Good
  BY <1>3, SubsetInduction
<1>5. S \in Good
  BY <1>4
<1>6. g[{}] = 0
  BY <1>1 DEF Adds
<1> QED
  BY <1>2, <1>5, <1>6 DEF Good

\* The positive samples, which are all that traffic is made of.
Flowing(v) == {s \in v : s.value > 0}

LEMMA TrafficFacts ==
  ASSUME NEW v, IsFiniteSet(v), \A s \in v : s.value \in Int, NEW w \in SUBSET v
  PROVE  /\ Traffic(w) = Traffic(v) <=> Flowing(v) \subseteq w
         /\ Traffic(v) > 0 <=> Flowing(v) # {}
         /\ Flowing(w) = {} => Traffic(w) = 0
<1> DEFINE S == Flowing(v)
           T == Flowing(w)
<1>1. Traffic(v) = Sum(S) /\ Traffic(w) = Sum(T)
  BY DEF Traffic, Sum, Flowing
<1>2. S \in SUBSET v /\ T \in SUBSET S /\ {} \in SUBSET S
  BY DEF Flowing
<1>3. \A s \in S : s.value \in Int /\ s.value > 0
  BY DEF Flowing
<1>4. IsFiniteSet(S)
  BY <1>2, FS_Subset
<1>5. S \subseteq w <=> T = S
  BY DEF Flowing
<1> HIDE DEF S, T
<1>6. /\ Sum({}) = 0 /\ Sum(T) \in Int /\ Sum(S) \in Int
      /\ T # S => Sum(T) < Sum(S)
  BY <1>2, <1>3, <1>4, SumGrows
<1>7. {} # S => Sum({}) < Sum(S)
  BY <1>2, <1>3, <1>4, SumGrows
<1>8. Traffic(w) = Traffic(v) <=> S \subseteq w
  BY <1>1, <1>5, <1>6
<1>9. Traffic(v) > 0 <=> S # {}
  BY <1>1, <1>6, <1>7
<1>10. T = {} => Traffic(w) = 0
  BY <1>1, <1>6
<1> QED
  BY <1>8, <1>9, <1>10 DEF S, T

\* The pod is deleted at the first of the times.
LEMMA FirstEpoch ==
  FailureEpoch \in Nat /\ \A e \in Epochs : e \in Nat /\ FailureEpoch <= e
<1>1. \E e \in Epochs : \A f \in Epochs : e <= f
  BY ReportAssumption
<1>2. FailureEpoch \in Epochs /\ \A f \in Epochs : FailureEpoch <= f
  BY <1>1 DEF FailureEpoch, Min
<1> QED
  BY <1>2, ReportAssumption

------------------------------------------------------------------------------
(***************************************************************************)
(* The verdicts.                                                           *)
(***************************************************************************)
\* Ten lines are equal if they are one line.
LEMMA EqualLines ==
  ASSUME NEW r, r \in Seq(ToSet(r)), Len(r) = 10
  PROVE  Cardinality(ToSet(r)) = 1 <=> \A i \in DOMAIN r : r[i] = r[1]
<1>1. DOMAIN r = 1..10 /\ 1 \in DOMAIN r
  BY LenProperties
<1>2. IsFiniteSet(ToSet(r))
  <2>1. r \in Surjection(1..10, ToSet(r))
    <3>1. r \in [1..10 -> ToSet(r)]
      BY LenProperties
    <3>2. \A x \in ToSet(r) : \E i \in 1..10 : r[i] = x
      BY <1>1 DEF ToSet
    <3> QED
      BY <3>1, <3>2 DEF Surjection
  <2>2. IsFiniteSet(1..10)
    BY FS_Interval
  <2> QED
    BY <2>1, <2>2, FS_Surjection
<1>3. r[1] \in ToSet(r)
  BY <1>1 DEF ToSet
<1>4. ASSUME Cardinality(ToSet(r)) = 1, NEW i \in DOMAIN r PROVE r[i] = r[1]
  <2>1. PICK x : ToSet(r) = {x}
    BY <1>2, <1>4, FS_Singleton
  <2>2. r[i] \in ToSet(r)
    BY DEF ToSet
  <2> QED
    BY <1>3, <2>1, <2>2
<1>5. ASSUME \A i \in DOMAIN r : r[i] = r[1] PROVE Cardinality(ToSet(r)) = 1
  <2>1. ToSet(r) = {r[1]}
    BY <1>1, <1>5 DEF ToSet
  <2> QED
    BY <2>1, FS_Singleton
<1> QED
  BY <1>4, <1>5

\* The artefacts of each experiment.
LEMMA ArtefactSets ==
  /\ Artefacts("happy") =
       {"locust", "mtls", "traces", "secrets", "listener"}
  /\ Artefacts("instance") =
       {"start", "delete", "traffic", "trafficSeconds", "recovered",
        "recoverySeconds", "ready", "locust", "exit"}
  /\ Artefacts("degraded") =
       {"before", "locust", "after", "response", "http"}
  /\ Artefacts("normalization") =
       {"card-authorized", "bank-accepted", "card-declined", "bank-rejected"}
  /\ Artefacts("idempotency") =
       {"charges-before", "responses", "checksums", "charges"}
  /\ Artefacts("isolation") =
       {"http", "readiness"}
<1>1. Artefacts("happy") =
       {"locust", "mtls", "traces", "secrets", "listener"}
  <2>1. ToSet(Script["happy"][1]) = 
          {"locust", "mtls", "traces", "secrets", "listener"}
    <3>1. DOMAIN Script["happy"][1] = {1, 2, 3, 4, 5}
      BY HappyScript, LenProperties
    <3> QED
      BY <3>1, HappyScript DEF ToSet
  <2>2. DOMAIN Script["happy"] = {1}
    BY HappyScript
  <2> QED
    BY <2>1, <2>2 DEF Artefacts
<1>2. Artefacts("instance") =
       {"start", "delete", "traffic", "trafficSeconds", "recovered",
        "recoverySeconds", "ready", "locust", "exit"}
  <2>1. ToSet(Script["instance"][1]) = 
          {"start", "delete", "traffic", "trafficSeconds", "recovered",
           "recoverySeconds"}
    <3>1. DOMAIN Script["instance"][1] = {1, 2, 3, 4, 5, 6}
      BY InstanceScript, LenProperties
    <3> QED
      BY <3>1, InstanceScript DEF ToSet
  <2>2. ToSet(Script["instance"][2]) = {"ready"}
    <3>1. DOMAIN Script["instance"][2] = {1}
      BY InstanceScript, LenProperties
    <3> QED
      BY <3>1, InstanceScript DEF ToSet
  <2>3. ToSet(Script["instance"][3]) = {"locust", "exit"}
    <3>1. DOMAIN Script["instance"][3] = {1, 2}
      BY InstanceScript, LenProperties
    <3> QED
      BY <3>1, InstanceScript DEF ToSet
  <2>4. DOMAIN Script["instance"] = {1, 2, 3}
    BY InstanceScript
  <2> QED
    BY <2>1, <2>2, <2>3, <2>4 DEF Artefacts
<1>3. Artefacts("degraded") =
       {"before", "locust", "after", "response", "http"}
  <2>1. ToSet(Script["degraded"][1]) = 
          {"before", "locust", "after", "response", "http"}
    <3>1. DOMAIN Script["degraded"][1] = {1, 2, 3, 4, 5}
      BY DegradedScript, LenProperties
    <3> QED
      BY <3>1, DegradedScript DEF ToSet
  <2>2. DOMAIN Script["degraded"] = {1}
    BY DegradedScript
  <2> QED
    BY <2>1, <2>2 DEF Artefacts
<1>4. Artefacts("normalization") =
       {"card-authorized", "bank-accepted", "card-declined", "bank-rejected"}
  <2>1. ToSet(Script["normalization"][1]) = 
          {"card-authorized", "bank-accepted", "card-declined",
           "bank-rejected"}
    <3>1. DOMAIN Script["normalization"][1] = {1, 2, 3, 4}
      BY NormalizationScript, LenProperties
    <3> QED
      BY <3>1, NormalizationScript DEF ToSet
  <2>2. DOMAIN Script["normalization"] = {1}
    BY NormalizationScript
  <2> QED
    BY <2>1, <2>2 DEF Artefacts
<1>5. Artefacts("idempotency") =
       {"charges-before", "responses", "checksums", "charges"}
  <2>1. ToSet(Script["idempotency"][1]) = 
          {"charges-before", "responses", "checksums", "charges"}
    <3>1. DOMAIN Script["idempotency"][1] = {1, 2, 3, 4}
      BY IdempotencyScript, LenProperties
    <3> QED
      BY <3>1, IdempotencyScript DEF ToSet
  <2>2. DOMAIN Script["idempotency"] = {1}
    BY IdempotencyScript
  <2> QED
    BY <2>1, <2>2 DEF Artefacts
<1>6. Artefacts("isolation") =
       {"http", "readiness"}
  <2>1. ToSet(Script["isolation"][1]) = {"http", "readiness"}
    <3>1. DOMAIN Script["isolation"][1] = {1, 2}
      BY IsolationScript, LenProperties
    <3> QED
      BY <3>1, IsolationScript DEF ToSet
  <2>2. DOMAIN Script["isolation"] = {1}
    BY IsolationScript
  <2> QED
    BY <2>1, <2>2 DEF Artefacts
<1> QED
  BY <1>1, <1>2, <1>3, <1>4, <1>5, <1>6

\* A process whose last artefact is there has nothing more to write.
LEMMA LastWritten ==
  ASSUME OnScript, Pending, NEW p \in DOMAIN todo,
         NEW n, n = Len(Script[exp][p]), Script[exp][p][n] # "locust",
         files[Script[exp][p][n]] # None
  PROVE  todo[p] = <<>>
<1> SUFFICES ASSUME todo[p] # <<>> PROVE FALSE
  OBVIOUS
<1>1. n \in Nat \ {0} /\ Len(todo[p]) \in Nat \ {0}
  BY ScriptTypes, EmptySeq DEF OnScript
<1>2. n \in 1..Len(Script[exp][p]) /\ n > Written(p)
  BY <1>1 DEF Written
<1> QED
  BY <1>2 DEF Pending

\* expHappy: a PASS is exactly a complete run that meets the criterion.
LEMMA HappyVerdict ==
  ASSUME IInv, exp = "happy"
  PROVE  Verdict = "PASS" <=> Complete /\ Criterion
<1> DEFINE v == files["mtls"]
           m == ReadMTLS(v)
           Mutual == {s \in v : Internal(s) /\ s.policy = "mutual_tls"}
           Plain == {s \in v : Internal(s) /\ s.policy = "none"}
           Secure == \A s \in v : s.value # 0 =>
                        s.value > 0 /\ Internal(s) /\ s.policy = "mutual_tls"
           Reached == Hops \subseteq {s.destination : s \in {s \in v : s.value > 0}}
           Traced == \E t \in files["traces"] :
                        t.id # None /\ Roles \subseteq {s.role : s \in Own(t)}
           Rest == /\ files["locust"].failures = 0
                   /\ files["secrets"] = "good" /\ files["listener"] = "good"
<1>1. Verdict = "PASS" <=>
        /\ HappyEvidence /\ Rest
        /\ m.total > 0 /\ m.mutual = m.total /\ m.none = 0
  BY DEF Verdict, Happy, Status
<1>2. Criterion <=> Rest /\ Traced /\ Secure /\ Reached
  BY DEF Criterion
<1>3. HappyEvidence <=> Complete /\ CompleteTraces(files["traces"]) # {} /\ m.valid
  BY DEF HappyEvidence, Complete
<1>4. CompleteTraces(files["traces"]) # {} <=> Traced
  BY DEF CompleteTraces
<1>5. ASSUME Complete
      PROVE  m.valid /\ m.total > 0 /\ m.mutual = m.total /\ m.none = 0
                <=> Secure /\ Reached
  <2>1. v \in Vectors
    BY <1>5, ArtefactSets DEF Complete, Has, IInv, Sound
  <2>2. IsFiniteSet(v) /\ \A s \in v : s.value \in Int
    BY <2>1, ReportAssumption
  <2>3. /\ m.total = Traffic(v) /\ m.mutual = Traffic(Mutual) /\ m.none = Traffic(Plain)
        /\ m.valid <=> /\ \A s \in v : s.value >= 0
                       /\ \A d \in Hops : \E s \in v :
                             s.value > 0 /\ Internal(s) /\ s.destination = d
    BY DEF ReadMTLS
  <2> HIDE DEF m
  <2>4. Mutual \in SUBSET v /\ Plain \in SUBSET v /\ v \in SUBSET v
    OBVIOUS
  <2>5. /\ Traffic(Mutual) = Traffic(v) <=> Flowing(v) \subseteq Mutual
        /\ Traffic(v) > 0 <=> Flowing(v) # {}
        /\ Flowing(Plain) = {} => Traffic(Plain) = 0
    BY <2>2, <2>4, TrafficFacts
  <2>6. ASSUME m.valid, m.total > 0, m.mutual = m.total, m.none = 0
        PROVE  Secure /\ Reached
    <3>1. Flowing(v) \subseteq Mutual
      BY <2>3, <2>5, <2>6
    <3>2. \A s \in v : s.value \in Int /\ s.value >= 0
      BY <2>2, <2>3, <2>6
    <3>3. Secure
      BY <3>1, <3>2 DEF Flowing
    <3>4. Reached
      BY <2>3, <2>6
    <3> QED
      BY <3>3, <3>4
  <2>7. ASSUME Secure, Reached
        PROVE  m.valid /\ m.total > 0 /\ m.mutual = m.total /\ m.none = 0
    <3>1. \A s \in v : s.value \in Int /\ s.value >= 0
      BY <2>2, <2>7
    <3>2. ASSUME NEW d \in Hops
          PROVE  \E s \in v : s.value > 0 /\ Internal(s) /\ s.destination = d
      <4>1. PICK s \in v : s.value > 0 /\ s.destination = d
        BY <2>7
      <4>2. s.value # 0
        BY <3>1, <4>1
      <4>3. Internal(s)
        BY <2>7, <4>2
      <4> QED
        BY <4>1, <4>3
    <3>3. Flowing(v) # {}
      BY <3>2 DEF Hops, Flowing
    <3>4. Flowing(v) \subseteq Mutual
      BY <2>2, <2>7 DEF Flowing
    <3>5. Flowing(Plain) = {}
      <4> SUFFICES ASSUME NEW s \in v, s.value > 0, s.policy = "none" PROVE FALSE
        BY DEF Flowing
      <4> QED
        BY <2>2, <2>7
    <3> QED
      BY <2>3, <2>5, <3>1, <3>2, <3>3, <3>4, <3>5
  <2> QED
    BY <2>6, <2>7
<1> HIDE DEF v, m, Mutual, Plain, Secure, Reached, Traced, Rest
<1> QED
  BY <1>1, <1>2, <1>3, <1>4, <1>5

\* expInstance: in addition the load test has ended as it should.
LEMMA InstanceVerdict ==
  ASSUME IInv, exp = "instance"
  PROVE  Verdict = "PASS" <=> Complete /\ Criterion /\ LoadEnded
<1> DEFINE l == files["locust"]
<1>1. Complete <=> \A a \in Artefacts("instance") : Has(a)
  BY DEF Complete
<1>2. LoadEnded => Has("exit")
  BY ReportAssumption DEF LoadEnded, Has
<1>3. Complete => ~Has("skip")
  BY ArtefactSets DEF Complete, Has, IInv, SkippedForGood
<1>4. Has("locust") => l.count \in Nat /\ l.failures \in Nat
  BY ReportAssumption DEF IInv, Sound, Has
<1>5. Has("start") => files["start"] = FailureEpoch
  BY DEF IInv, Sound, Has
<1>6. Has("traffic") => files["traffic"] \in Nat /\ files["traffic"] >= FailureEpoch
  BY FirstEpoch DEF IInv, Sound, Has
<1>7. Has("recovered") => files["recovered"] \in Nat /\ files["recovered"] >= FailureEpoch
  BY FirstEpoch DEF IInv, Sound, Has
<1>8. /\ Has("traffic") => files["delete"] = "deleted"
      /\ Has("trafficSeconds") =>
            files["trafficSeconds"] = files["traffic"] - FailureEpoch
      /\ Has("recoverySeconds") =>
            files["recoverySeconds"] = files["recovered"] - FailureEpoch
  BY DEF IInv, Coherent, Has
<1>9. FailureEpoch \in Nat
  BY FirstEpoch
<1>10. Criterion <=> /\ files["delete"] = "deleted"
                     /\ files["traffic"] < files["start"] + 30
                     /\ l.count > 0
                     /\ 100 * l.failures <= l.count
  BY DEF Criterion
<1>11. Verdict = "PASS" <=>
         /\ ~Has("skip")
         /\ \A a \in Artefacts("instance") \ {"locust", "exit"} : Has(a)
         /\ files["recovered"] >= files["start"]
         /\ files["traffic"] >= files["start"]
         /\ files["recoverySeconds"] = files["recovered"] - files["start"]
         /\ files["trafficSeconds"] = files["traffic"] - files["start"]
         /\ LoadEnded /\ Has("locust")
         /\ l.count > 0
         /\ 100 * (l.count - l.failures) >= 99 * l.count
         /\ files["trafficSeconds"] < 30
  BY DEF Verdict, Instance, Status
<1>12. Complete <=>
         /\ \A a \in Artefacts("instance") \ {"locust", "exit"} : Has(a)
         /\ Has("locust") /\ Has("exit")
  BY <1>1, ArtefactSets
<1>13. Complete => /\ Has("start") /\ Has("traffic") /\ Has("trafficSeconds")
                   /\ Has("recovered") /\ Has("recoverySeconds")
  BY ArtefactSets DEF Complete
<1>14. \A c, f \in Nat : 100 * (c - f) >= 99 * c <=> 100 * f <= c
  OBVIOUS
<1>15. \A t, e \in Nat : t - e < 30 <=> t < e + 30
  OBVIOUS
<1> HIDE DEF l
<1>16. ASSUME Complete
       PROVE  /\ 100 * (l.count - l.failures) >= 99 * l.count <=>
                    100 * l.failures <= l.count
              /\ files["trafficSeconds"] < 30 <=> files["traffic"] < files["start"] + 30
  BY <1>4, <1>5, <1>6, <1>8, <1>9, <1>12, <1>13, <1>14, <1>15, <1>16
<1>17. ASSUME Complete
       PROVE  /\ files["delete"] = "deleted"
              /\ files["recovered"] >= files["start"]
              /\ files["traffic"] >= files["start"]
              /\ files["recoverySeconds"] = files["recovered"] - files["start"]
              /\ files["trafficSeconds"] = files["traffic"] - files["start"]
  BY <1>5, <1>6, <1>7, <1>8, <1>13, <1>17
<1> QED
  BY <1>2, <1>3, <1>10, <1>11, <1>12, <1>16, <1>17

\* expDegraded
LEMMA DegradedVerdict ==
  ASSUME IInv, exp = "degraded"
  PROVE  Verdict = "PASS" <=> Complete /\ Criterion
<1>1. Complete <=> /\ Has("before") /\ Has("locust") /\ Has("after")
                   /\ Has("response") /\ Has("http")
  BY ArtefactSets DEF Complete
<1>2. Verdict = "PASS" <=>
        /\ Has("locust") /\ files["locust"].failures = 0
        /\ files["http"] = "202" /\ files["response"] = "PENDING"
        /\ Has("before") /\ Has("after") /\ files["after"] > files["before"]
  BY DEF Verdict, Degraded, Status
<1>3. /\ files["http"] = "202" => Has("http")
      /\ files["response"] = "PENDING" => Has("response")
  BY ReportAssumption DEF Has
<1>4. Criterion <=>
        /\ files["locust"].failures = 0
        /\ files["http"] = "202" /\ files["response"] = "PENDING"
        /\ files["after"] > files["before"]
  BY DEF Criterion
<1> QED
  BY <1>1, <1>2, <1>3, <1>4

\* expNormalization
LEMMA NormalizationVerdict ==
  ASSUME IInv, exp = "normalization"
  PROVE  Verdict = "PASS" <=> Complete /\ Criterion
<1> DEFINE A == {"card-authorized", "bank-accepted", "card-declined", "bank-rejected"}
<1>1. Artefacts("normalization") = A
  BY ArtefactSets
<1>2. DOMAIN Expected = A /\ Expected["card-authorized"] = "SUCCEEDED"
      /\ Expected["bank-accepted"] = "SUCCEEDED"
      /\ Expected["card-declined"] = "FAILED" /\ Expected["bank-rejected"] = "FAILED"
  BY <1>1 DEF Expected
<1>3. Complete <=> \A a \in A : Has(a)
  BY <1>1 DEF Complete
<1>4. Verdict = "PASS" <=>
        (\A a \in DOMAIN Expected : files[a] = Expected[a])
          /\ \A a \in DOMAIN Expected : Has(a)
  BY DEF Verdict, Normalization, Status
<1>5. Criterion <=>
        /\ files["card-authorized"] = "SUCCEEDED" /\ files["card-declined"] = "FAILED"
        /\ files["bank-accepted"] = "SUCCEEDED" /\ files["bank-rejected"] = "FAILED"
  BY DEF Criterion
<1> QED
  BY <1>2, <1>3, <1>4, <1>5

\* expDBIsolation
LEMMA IsolationVerdict ==
  ASSUME IInv, exp = "isolation"
  PROVE  Verdict = "PASS" <=> Complete /\ Criterion
<1>1. Complete <=> Has("http") /\ Has("readiness")
  BY ArtefactSets DEF Complete
<1>2. Criterion <=> files["http"] = "503" /\ files["readiness"] = "good"
  BY DEF Criterion
<1>3. Verdict = "PASS" <=> files["http"] = "503" /\ files["readiness"] = "good"
  BY DEF Verdict, Isolation, Status
<1>4. files["http"] = "503" /\ files["readiness"] = "good"
        => Has("http") /\ Has("readiness")
  BY ReportAssumption DEF Has
<1> QED
  BY <1>1, <1>2, <1>3, <1>4

\* expIdempotency: the checksums may be missing, if the responses are there, but
\* not empty.
LEMMA IdempotencyVerdict ==
  ASSUME IInv, exp = "idempotency"
  PROVE  Verdict = "PASS" <=>
           /\ Has("charges-before") /\ Has("charges") /\ Has("responses")
           /\ files["checksums"] # <<>> /\ Criterion
<1> DEFINE r == files["responses"]
           b == files["charges-before"]
           c == files["charges"]
<1>1. Verdict = "PASS" <=>
        /\ Has("charges-before") /\ Has("charges") /\ c - b = 1
        /\ SameChecksums.count = 10 /\ SameChecksums.same
  BY DEF Verdict, Idempotency, Status
<1>2. Criterion <=> c = b + 1 /\ Len(r) = 10 /\ Cardinality(ToSet(r)) = 1
  BY DEF Criterion
<1>3. Has("charges-before") /\ Has("charges") => (c - b = 1 <=> c = b + 1)
  <2> SUFFICES ASSUME Has("charges-before"), Has("charges") PROVE c - b = 1 <=> c = b + 1
    OBVIOUS
  <2>1. c \in Nat /\ b \in Nat
    BY ReportAssumption DEF IInv, Sound, Has
  <2> QED
    BY <2>1
<1>4. /\ Has("checksums") /\ files["checksums"] # <<>> =>
           files["checksums"] = r /\ Has("responses")
      /\ files["checksums"] = <<>> =>
           Has("checksums") /\ SameChecksums = [same |-> FALSE, count |-> 0]
  <2>1. Len(<<>>) < 2 /\ None # <<>>
    BY ReportAssumption
  <2> QED
    BY <2>1 DEF IInv, Coherent, Has, SameChecksums
<1>5. Has("responses") => r \in Seq(ToSet(r))
  BY ReportAssumption DEF IInv, Sound, Has
<1>6. ~Has("responses") => SameChecksums.same = FALSE
  BY <1>4 DEF SameChecksums, Has
<1>7. ASSUME Has("responses"), files["checksums"] # <<>>
      PROVE  SameChecksums.count = 10 /\ SameChecksums.same <=>
               Len(r) = 10 /\ \A i \in DOMAIN r : r[i] = r[1]
  <2>1. Len(r) \in Nat
    <3>1. r \in Seq(ToSet(r))
      BY <1>5, <1>7
    <3> HIDE DEF r
    <3> QED
      BY <3>1, LenProperties
  <2>2. CASE Has("checksums") /\ Len(r) < 2
    <3>1. SameChecksums = [same |-> FALSE, count |-> 0]
      BY <1>4, <2>2 DEF SameChecksums
    <3>2. Len(r) # 10
      <4>1. \A n \in Nat : n < 2 => n # 10
        OBVIOUS
      <4> QED
        BY <2>1, <2>2, <4>1, Zenon
    <3> QED
      BY <3>1, <3>2
  <2>3. CASE ~(Has("checksums") /\ Len(r) < 2)
    <3>1. SameChecksums =
            [same |-> /\ Has("checksums") \/ Len(r) = 10
                      /\ \A i \in DOMAIN r : r[i] = r[1],
             count |-> Len(r)]
      BY <1>4, <1>7, <2>3 DEF SameChecksums, Has
    <3> QED
      BY <3>1
  <2> QED
    BY <2>2, <2>3
<1>8. Has("responses") /\ Len(r) = 10 =>
        (Cardinality(ToSet(r)) = 1 <=> \A i \in DOMAIN r : r[i] = r[1])
  BY <1>5, EqualLines
<1> HIDE DEF r, b, c
<1> QED
  BY <1>1, <1>2, <1>3, <1>4, <1>6, <1>7, <1>8

LEMMA Earned == IInv => PassIsEarned
<1> SUFFICES ASSUME IInv, Verdict = "PASS" PROVE Criterion
  BY DEF PassIsEarned
<1> QED
  BY HappyVerdict, InstanceVerdict, DegradedVerdict, NormalizationVerdict,
     IdempotencyVerdict, IsolationVerdict DEF IInv, OnScript, Experiments

LEMMA Success == IInv => SuccessPasses
<1> SUFFICES ASSUME IInv, Complete, Criterion, exp = "instance" => LoadEnded,
                    exp = "idempotency" => files["checksums"] # <<>>
             PROVE  Verdict = "PASS"
  BY DEF SuccessPasses
<1>1. exp = "idempotency" => Has("charges-before") /\ Has("charges") /\ Has("responses")
  BY ArtefactSets DEF Complete
<1> QED
  BY <1>1, HappyVerdict, InstanceVerdict, DegradedVerdict, NormalizationVerdict,
     IdempotencyVerdict, IsolationVerdict DEF IInv, OnScript, Experiments

\* A run that passes has nothing more to write.
LEMMA PassIsFinal ==
  ASSUME IInv, Verdict = "PASS", NEW p \in DOMAIN todo
  PROVE  todo[p] = <<>>
<1>1. OnScript /\ Pending /\ exp \in Experiments /\ p \in DOMAIN Script[exp]
  BY DEF IInv, OnScript
<1>2. CASE exp = "happy"
  <2>1. p = 1 /\ 5 = Len(Script[exp][p]) /\ Script[exp][p][5] = "listener"
    BY <1>1, <1>2, HappyScript
  <2>2. files["listener"] # None
    BY <1>2, HappyVerdict, ArtefactSets DEF Complete, Has
  <2> QED
    BY <1>1, <2>1, <2>2, LastWritten
<1>3. CASE exp = "instance"
  <2>1. p = 1 \/ p = 2 \/ p = 3
    BY <1>1, <1>3, InstanceScript
  <2>2. \A a \in Artefacts("instance") : files[a] # None
    BY <1>3, InstanceVerdict DEF Complete, Has
  <2>3. CASE p = 1
    <3>1. 6 = Len(Script[exp][p]) /\ Script[exp][p][6] = "recoverySeconds"
      BY <1>3, <2>3, InstanceScript
    <3>2. files["recoverySeconds"] # None
      BY <2>2, ArtefactSets
    <3> QED
      BY <1>1, <3>1, <3>2, LastWritten
  <2>4. CASE p = 2
    <3>1. 1 = Len(Script[exp][p]) /\ Script[exp][p][1] = "ready"
      BY <1>3, <2>4, InstanceScript
    <3>2. files["ready"] # None
      BY <2>2, ArtefactSets
    <3> QED
      BY <1>1, <3>1, <3>2, LastWritten
  <2>5. CASE p = 3
    <3>1. 2 = Len(Script[exp][p]) /\ Script[exp][p][2] = "exit"
      BY <1>3, <2>5, InstanceScript
    <3>2. files["exit"] # None
      BY <2>2, ArtefactSets
    <3> QED
      BY <1>1, <3>1, <3>2, LastWritten
  <2> QED
    BY <2>1, <2>3, <2>4, <2>5
<1>4. CASE exp = "degraded"
  <2>1. p = 1 /\ 5 = Len(Script[exp][p]) /\ Script[exp][p][5] = "http"
    BY <1>1, <1>4, DegradedScript
  <2>2. files["http"] # None
    BY <1>4, DegradedVerdict, ArtefactSets DEF Complete, Has
  <2> QED
    BY <1>1, <2>1, <2>2, LastWritten
<1>5. CASE exp = "normalization"
  <2>1. p = 1 /\ 4 = Len(Script[exp][p]) /\ Script[exp][p][4] = "bank-rejected"
    BY <1>1, <1>5, NormalizationScript
  <2>2. files["bank-rejected"] # None
    BY <1>5, NormalizationVerdict, ArtefactSets DEF Complete, Has
  <2> QED
    BY <1>1, <2>1, <2>2, LastWritten
<1>6. CASE exp = "idempotency"
  <2>1. p = 1 /\ 4 = Len(Script[exp][p]) /\ Script[exp][p][4] = "charges"
    BY <1>1, <1>6, IdempotencyScript
  <2>2. files["charges"] # None
    BY <1>6, IdempotencyVerdict DEF Has
  <2> QED
    BY <1>1, <2>1, <2>2, LastWritten
<1>7. CASE exp = "isolation"
  <2>1. p = 1 /\ 2 = Len(Script[exp][p]) /\ Script[exp][p][2] = "readiness"
    BY <1>1, <1>7, IsolationScript
  <2>2. files["readiness"] # None
    BY <1>7, IsolationVerdict, ArtefactSets DEF Complete, Has
  <2> QED
    BY <1>1, <2>1, <2>2, LastWritten
<1> QED
  BY <1>1, <1>2, <1>3, <1>4, <1>5, <1>6, <1>7 DEF Experiments

------------------------------------------------------------------------------
(***************************************************************************)
(* Theorems.                                                               *)
(***************************************************************************)
(***************************************************************************)
(* Whatever the artefacts say and whichever are missing, at any time of a  *)
(* run: reportgen shows PASS only for an experiment that meets its         *)
(* criterion, and for a lost instance only if a pod was deleted.           *)
(***************************************************************************)
THEOREM PassesAreEarned == Spec => []PassIsEarned
  BY SpecIInv, Earned, PTL

(***************************************************************************)
(* The six pass conditions of reportgen reject no complete run that meets  *)
(* its criterion, ended its load test and has its checksums.               *)
(***************************************************************************)
THEOREM SuccessesPass == Spec => []SuccessPasses
  BY SpecIInv, Success, PTL

(***************************************************************************)
(* A report made while run_experiments.sh is still writing never shows a   *)
(* PASS that a later report of the run takes back: where reportgen says    *)
(* PASS, every process of the runner has ended.                            *)
(***************************************************************************)
THEOREM PassesAreStable == Spec => PassStable
<1>1. IInv /\ [Next]_vars => [Verdict = "PASS" => Verdict' = "PASS"]_vars
  <2> SUFFICES ASSUME IInv, [Next]_vars, Verdict = "PASS"
               PROVE  UNCHANGED vars
    OBVIOUS
  <2>1. \A p \in DOMAIN todo : todo[p] = <<>>
    BY PassIsFinal
  <2>2. 1 \in DOMAIN todo /\ Script[exp][1] # <<>>
    BY ScriptTypes DEF IInv, OnScript
  <2>3. ~Skip
    BY <2>1, <2>2 DEF Skip
  <2>4. ASSUME NEW p \in DOMAIN todo PROVE ~Write(p) /\ ~LoadProgress(p)
    BY <2>1 DEF Write, LoadProgress
  <2> QED
    BY <2>3, <2>4 DEF Next
<1> QED
  BY <1>1, SpecIInv, PTL DEF Spec, PassStable
=============================================================================
