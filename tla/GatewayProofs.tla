---------------------------- MODULE GatewayProofs ----------------------------
(***************************************************************************)
(* Proofs about the gateway, for any set of ids, any number of concurrent  *)
(* requests and any number of crashes: every answer is durable, and the    *)
(* state file implements the provider contract ChargeLedger.               *)
(***************************************************************************)
EXTENDS Gateway, FiniteSetTheorems, TLAPS

\* A goroutine past its first critical section works on an entry; one that is
\* about to record something has decided what; one that is about to answer
\* 200 holds exactly what the map holds.
HandlersHoldResults ==
    \A r \in Requests :
        /\ pc[r] # "idle" => up /\ slot[r] \in Slots
        /\ pc[r] = "commit" => decision[r] \in Results
        /\ pc[r] = "reply" => /\ decision[r] \in Results
                              /\ decision[r] = book[slot[r]]

IInv ==
    /\ TypeOK
    /\ MemoryIsDurable
    /\ HandlersHoldResults
    /\ AnswersAreDurable

\* A result is not the unsettled entry.
LEMMA ResultIsSettled == \A d \in Results : d # Unsettled
  BY GatewayAssumption
  DEF GatewayAssumption, Results, Declined, Authorized, Unsettled

\* The maps and the counters of a process that has read no file.
LEMMA EmptyState ==
    /\ EmptyBook \in [Slots -> Results \cup {Unsettled}]
    /\ NoStats \in [attempts : Nat, effective : Nat]
  BY DEF EmptyBook, NoStats

LEMMA InitIInv == Init => IInv
<1> SUFFICES ASSUME Init PROVE IInv
  OBVIOUS
<1>1. TypeOK
  <2>1. /\ book \in [Slots -> Results \cup {Unsettled}]
        /\ stats \in [attempts : Nat, effective : Nat]
        /\ disk \in [book : [Slots -> Results \cup {Unsettled}],
                     stats : [attempts : Nat, effective : Nat]]
    BY EmptyState DEF Init
  <2>2. up \in BOOLEAN /\ delayed \in BOOLEAN /\ behavior \in Behaviors
    BY Zenon DEF Init, Behaviors
  <2>3. /\ pc \in [Requests -> {"idle", "wait", "sleep", "decide", "commit", "reply"}]
        /\ slot \in [Requests -> Slots \cup {None}]
        /\ decision \in [Requests -> Results \cup {Unsettled}]
        /\ answers \subseteq Slots \X Results
        /\ crashes \in 0..MaxCrashes
    BY GatewayAssumption DEF GatewayAssumption, Init
  <2> QED
    BY <2>1, <2>2, <2>3 DEF TypeOK
<1>2. MemoryIsDurable /\ HandlersHoldResults /\ AnswersAreDurable
  BY DEF Init, MemoryIsDurable, HandlersHoldResults, AnswersAreDurable
<1> QED
  BY <1>1, <1>2 DEF IInv

LEMMA CountedType ==
  ASSUME TypeOK, NEW d PROVE Counted(d) \in [attempts : Nat, effective : Nat]
  BY DEF TypeOK, Counted

\* Every step of the gateway keeps the types.
LEMMA NextTypeOK == IInv /\ [Next]_vars => TypeOK'
<1> SUFFICES ASSUME IInv, [Next]_vars PROVE TypeOK'
  OBVIOUS
<1> USE GatewayAssumption DEF GatewayAssumption, IInv, TypeOK
<1>1. ASSUME NEW r \in Requests, NEW s \in Slots, Receive(r, s) PROVE TypeOK'
  BY <1>1 DEF Receive, environment
<1>2. ASSUME NEW r \in Requests, Wait(r) PROVE TypeOK'
  BY <1>2 DEF Wait, environment
<1>3. ASSUME NEW r \in Requests, TimerFires(r) PROVE TypeOK'
  BY <1>3 DEF TimerFires, environment
<1>4. ASSUME NEW r \in Requests, ClientGone(r) PROVE TypeOK'
  BY <1>4 DEF ClientGone, Return, environment
<1>5. ASSUME NEW r \in Requests, Decide(r) PROVE TypeOK'
  BY <1>5 DEF Decide, Return, Results, environment
<1>6. ASSUME NEW r \in Requests, CommitDuplicate(r) PROVE TypeOK'
  BY <1>6 DEF CommitDuplicate, SendResult, HandlersHoldResults, environment
<1>7. ASSUME NEW r \in Requests, Commit(r) PROVE TypeOK'
  <2>1. stats' \in [attempts : Nat, effective : Nat]
    BY <1>7, CountedType DEF Commit, PersistStateLocked
  <2>2. book' \in [Slots -> Results \cup {Unsettled}]
    BY <1>7 DEF Commit, PersistStateLocked, HandlersHoldResults
  <2> QED
    BY <1>7, <2>1, <2>2 DEF Commit, PersistStateLocked, SendResult, environment
<1>8. ASSUME NEW r \in Requests, PersistFails(r) PROVE TypeOK'
  BY <1>8 DEF PersistFails, Return, environment
<1>9. ASSUME NEW r \in Requests, Reply(r) PROVE TypeOK'
  BY <1>9 DEF Reply, Return, HandlersHoldResults, environment
<1>10. ASSUME NEW b \in Behaviors, NEW d \in BOOLEAN, Behavior(b, d) PROVE TypeOK'
  BY <1>10 DEF Behavior, locals
<1>11. CASE Crash
  <2>1. /\ book' \in [Slots -> Results \cup {Unsettled}]
        /\ stats' \in [attempts : Nat, effective : Nat]
        /\ UNCHANGED <<disk, behavior, delayed, answers>>
    BY <1>11, EmptyState DEF Crash, environment
  <2>2. up' \in BOOLEAN
    BY <1>11, Zenon DEF Crash
  <2>3. /\ pc' \in [Requests -> {"idle", "wait", "sleep", "decide", "commit", "reply"}]
        /\ slot' \in [Requests -> Slots \cup {None}]
        /\ decision' \in [Requests -> Results \cup {Unsettled}]
        /\ crashes' \in 0..MaxCrashes
    BY <1>11 DEF Crash
  <2> QED
    BY <2>1, <2>2, <2>3
<1>12. CASE Restart
  BY <1>12 DEF Restart, Behaviors, locals
<1>13. CASE UNCHANGED vars
  BY <1>13 DEF vars
<1> QED
  BY <1>1, <1>2, <1>3, <1>4, <1>5, <1>6, <1>7, <1>8, <1>9, <1>10, <1>11, <1>12,
     <1>13 DEF Next, Handler

\* A step that leaves the file alone and sends nothing keeps what was sent
\* durable.
LEMMA NextInv == IInv /\ [Next]_vars =>
                    (MemoryIsDurable /\ HandlersHoldResults /\ AnswersAreDurable)'
<1> DEFINE Inv == MemoryIsDurable /\ HandlersHoldResults /\ AnswersAreDurable
<1> SUFFICES ASSUME IInv, [Next]_vars PROVE Inv'
  OBVIOUS
<1> USE DEF IInv, TypeOK, MemoryIsDurable, HandlersHoldResults, AnswersAreDurable
<1>1. ASSUME NEW r \in Requests, NEW s \in Slots, Receive(r, s) PROVE Inv'
  BY <1>1 DEF Receive, environment
<1>2. ASSUME NEW r \in Requests, Wait(r) PROVE Inv'
  BY <1>2 DEF Wait, environment
<1>3. ASSUME NEW r \in Requests, TimerFires(r) PROVE Inv'
  BY <1>3 DEF TimerFires, environment
<1>4. ASSUME NEW r \in Requests, ClientGone(r) PROVE Inv'
  BY <1>4 DEF ClientGone, Return, environment
<1>5. ASSUME NEW r \in Requests, Decide(r) PROVE Inv'
  BY <1>5 DEF Decide, Return, Results, environment
<1>6. ASSUME NEW r \in Requests, CommitDuplicate(r) PROVE Inv'
  BY <1>6 DEF CommitDuplicate, SendResult, environment
<1>7. ASSUME NEW r \in Requests, Commit(r) PROVE Inv'
  \* Only the unsettled entry slot[r] changes: whoever holds or was sent a
  \* result holds the result of another entry.
  <2>1. slot[r] \in Slots /\ decision[r] \in Results /\ book[slot[r]] = Unsettled
    BY <1>7 DEF Commit, PersistStateLocked
  <2>2. /\ book' = [book EXCEPT ![slot[r]] = decision[r]]
        /\ disk'.book = book'
        /\ UNCHANGED <<up, slot, answers>>
        /\ pc' = [pc EXCEPT ![r] = "reply"]
        /\ decision' = [decision EXCEPT ![r] = decision[r]]
    BY <1>7 DEF Commit, PersistStateLocked, SendResult, environment
  <2>3. up /\ book = disk.book
    BY <1>7 DEF Commit, PersistStateLocked
  <2>4. MemoryIsDurable'
    BY <2>2
  <2>5. HandlersHoldResults'
    <3> SUFFICES ASSUME NEW q \in Requests PROVE
             /\ pc'[q] # "idle" => up' /\ slot'[q] \in Slots
             /\ pc'[q] = "commit" => decision'[q] \in Results
             /\ pc'[q] = "reply" => /\ decision'[q] \in Results
                                    /\ decision'[q] = book'[slot'[q]]
      OBVIOUS
    <3>1. CASE q = r
      BY <2>1, <2>2, <2>3, <3>1
    <3>2. CASE q # r
      BY <2>1, <2>2, <2>3, <3>2, ResultIsSettled
    <3> QED
      BY <3>1, <3>2
  <2>6. AnswersAreDurable'
    <3> SUFFICES ASSUME NEW a \in answers PROVE disk'.book[a[1]] = a[2]
      BY <2>2
    <3>1. a[1] \in Slots /\ a[2] \in Results /\ book[a[1]] = a[2]
      BY <2>3
    <3> QED
      BY <2>1, <2>2, <3>1, ResultIsSettled
  <2> QED
    BY <2>4, <2>5, <2>6
<1>8. ASSUME NEW r \in Requests, PersistFails(r) PROVE Inv'
  BY <1>8 DEF PersistFails, Return, environment
<1>9. ASSUME NEW r \in Requests, Reply(r) PROVE Inv'
  BY <1>9 DEF Reply, Return, environment
<1>10. ASSUME NEW b \in Behaviors, NEW d \in BOOLEAN, Behavior(b, d) PROVE Inv'
  BY <1>10 DEF Behavior, locals
<1>11. CASE Crash
  BY <1>11 DEF Crash, environment
<1>12. CASE Restart
  BY <1>12 DEF Restart, locals
<1>13. CASE UNCHANGED vars
  BY <1>13 DEF vars
<1> QED
  BY <1>1, <1>2, <1>3, <1>4, <1>5, <1>6, <1>7, <1>8, <1>9, <1>10, <1>11, <1>12,
     <1>13 DEF Next, Handler

LEMMA SpecIInv == Spec => []IInv
<1>1. IInv /\ [Next]_vars => IInv'
  BY NextTypeOK, NextInv DEF IInv
<1> QED
  BY InitIInv, <1>1, PTL DEF Spec

(***************************************************************************)
(* The gateway's types hold for any ids, any number of concurrent requests *)
(* and of crashes.                                                         *)
(***************************************************************************)
THEOREM GatewayTypes == Spec => []TypeOK
  BY SpecIInv, PTL DEF IInv

(***************************************************************************)
(* While the process runs its maps are what the file holds: no failed      *)
(* write leaves an entry behind.                                           *)
(***************************************************************************)
THEOREM MemoryDurable == Spec => []MemoryIsDurable
  BY SpecIInv, PTL DEF IInv

(***************************************************************************)
(* Every result ever sent with status 200 is the one the file holds,       *)
(* through any crashes.                                                    *)
(***************************************************************************)
THEOREM AnswersDurable == Spec => []AnswersAreDurable
  BY SpecIInv, PTL DEF IInv

(***************************************************************************)
(* The gateway implements the provider contract: an id is settled at most  *)
(* once, and for good.                                                     *)
(***************************************************************************)
THEOREM GatewayImplementsLedger == Spec => ImplementsLedger
<1>1. Init => Ledger!Init
  BY DEF Init, Ledger!Init, EmptyBook, Unsettled, Ledger!Unsettled
<1>2. IInv /\ [Next]_vars => [Ledger!Next]_(disk.book)
  <2> SUFFICES ASSUME IInv, [Next]_vars
               PROVE  Ledger!Next \/ disk'.book = disk.book
    OBVIOUS
  <2>1. ASSUME NEW r \in Requests, Commit(r) PROVE Ledger!Next
    <3>1. slot[r] \in Slots /\ decision[r] \in Results
      BY <2>1 DEF Commit, PersistStateLocked, IInv, HandlersHoldResults, TypeOK
    <3>2. decision[r] \in Ledger!Outcomes
      BY <3>1 DEF Results, Declined, Authorized, Ledger!Outcomes,
         Ledger!Rejected, Ledger!Accepted
    <3>3. Ledger!Settle(slot[r], decision[r])
      BY <2>1, <3>1 DEF Commit, PersistStateLocked, IInv, MemoryIsDurable, TypeOK, Unsettled,
         Ledger!Settle, Ledger!Unsettled
    <3> QED
      BY <3>1, <3>2, <3>3 DEF Ledger!Next
  <2>2. CASE \A r \in Requests : ~Commit(r)
    <3>1. UNCHANGED disk
      BY <2>2 DEF Next, Handler, Receive, Wait, TimerFires, ClientGone, Decide,
         CommitDuplicate, PersistFails, Reply, Behavior, Crash, Restart, vars
    <3> QED
      BY <3>1
  <2> QED
    BY <2>1, <2>2
<1> QED
  BY <1>1, <1>2, SpecIInv, PTL DEF Spec, ImplementsLedger, Ledger!Spec

------------------------------------------------------------------------------
(***************************************************************************)
(* The counter of effective charges.                                       *)
(***************************************************************************)
LEMMA ChargedFinite ==
  ASSUME NEW m PROVE IsFiniteSet(Charged(m)) /\ Cardinality(Charged(m)) \in Nat
<1>1. IsFiniteSet({"card", "bank"})
  <2>1. {"card", "bank"} = {"card"} \cup {"bank"}
    OBVIOUS
  <2>2. IsFiniteSet({"card"})
    BY FS_Singleton
  <2>3. IsFiniteSet({"card"} \cup {"bank"})
    BY <2>2, FS_AddElement
  <2> QED
    BY <2>1, <2>3
<1>2. IsFiniteSet(Slots)
  BY <1>1, GatewayAssumption, FS_Product DEF GatewayAssumption, Slots
<1>3. Charged(m) \in SUBSET Slots
  BY DEF Charged
<1> QED
  BY <1>2, <1>3, FS_Subset, FS_CardinalityType

\* Recording result d for an unsettled entry s adds one charge exactly when d
\* is an accepted one.
LEMMA RecordCounts ==
  ASSUME NEW m \in [Slots -> Results \cup {Unsettled}], NEW s \in Slots,
         m[s] = Unsettled, NEW d \in Results
  PROVE  Cardinality(Charged([m EXCEPT ![s] = d])) =
           IF d.outcome = "ACCEPTED" THEN Cardinality(Charged(m)) + 1
                                     ELSE Cardinality(Charged(m))
<1>1. s \notin Charged(m)
  BY DEF Charged, Unsettled
<1>2. CASE d.outcome = "ACCEPTED"
  <2>1. Charged([m EXCEPT ![s] = d]) = Charged(m) \cup {s}
    BY <1>2 DEF Charged
  <2> QED
    BY <1>1, <1>2, <2>1, ChargedFinite, FS_AddElement
<1>3. CASE d.outcome # "ACCEPTED"
  <2>1. Charged([m EXCEPT ![s] = d]) = Charged(m)
    BY <1>1, <1>3 DEF Charged
  <2> QED
    BY <1>3, <2>1
<1> QED
  BY <1>2, <1>3

LEMMA NoCharges == Cardinality(Charged(EmptyBook)) = 0
<1>1. Charged(EmptyBook) = {}
  BY DEF Charged, EmptyBook, Unsettled
<1> QED
  BY <1>1, FS_EmptySet

LEMMA NextCounts ==
  IInv /\ EffectiveCountsCharges /\ [Next]_vars => EffectiveCountsCharges'
<1> SUFFICES ASSUME IInv, EffectiveCountsCharges, [Next]_vars
             PROVE  EffectiveCountsCharges'
  OBVIOUS
<1> USE DEF EffectiveCountsCharges
<1>1. ASSUME NEW r \in Requests, Commit(r) PROVE EffectiveCountsCharges'
  <2>1. /\ slot[r] \in Slots /\ decision[r] \in Results
        /\ book \in [Slots -> Results \cup {Unsettled}]
        /\ stats \in [attempts : Nat, effective : Nat]
    BY <1>1 DEF Commit, PersistStateLocked, IInv, HandlersHoldResults, TypeOK
  <2>2. stats.effective = Cardinality(Charged(book))
    BY <1>1 DEF Commit, PersistStateLocked
  <2>3. stats'.effective = IF decision[r].outcome = "ACCEPTED"
                             THEN stats.effective + 1 ELSE stats.effective
    <3>1. stats' = Counted(decision[r])
      BY <1>1 DEF Commit, PersistStateLocked
    <3>2. CASE decision[r].outcome = "ACCEPTED"
      BY <2>1, <3>1, <3>2 DEF Counted
    <3>3. CASE decision[r].outcome # "ACCEPTED"
      BY <3>1, <3>3 DEF Counted
    <3> QED
      BY <3>2, <3>3
  <2>4. book' = [book EXCEPT ![slot[r]] = decision[r]] /\ book[slot[r]] = Unsettled
    BY <1>1 DEF Commit, PersistStateLocked
  <2>5. stats'.effective = Cardinality(Charged(book'))
    <3>1. Cardinality(Charged([book EXCEPT ![slot[r]] = decision[r]])) =
            IF decision[r].outcome = "ACCEPTED"
              THEN Cardinality(Charged(book)) + 1 ELSE Cardinality(Charged(book))
      BY <2>1, <2>4, RecordCounts
    <3> QED
      BY <2>2, <2>3, <2>4, <3>1, Zenon
  <2>6. disk'.stats = stats' /\ disk'.book = book'
    BY <1>1 DEF Commit, PersistStateLocked
  <2> QED
    BY <2>5, <2>6
<1>2. CASE Crash
  BY <1>2 DEF Crash
<1>3. CASE Restart
  BY <1>3 DEF Restart
<1>4. ASSUME NEW r \in Requests, NEW s \in Slots, Receive(r, s)
      PROVE  EffectiveCountsCharges'
  BY <1>4 DEF Receive, IInv, TypeOK
<1>5. ASSUME UNCHANGED <<book, stats, disk, up>> PROVE EffectiveCountsCharges'
  BY <1>5
<1> QED
  BY <1>1, <1>2, <1>3, <1>4, <1>5 DEF Next, Handler, Wait, TimerFires, ClientGone,
     Decide, CommitDuplicate, PersistFails, Reply, Behavior, vars

(***************************************************************************)
(* effective_charges equals the number of authorised ids, in memory and in *)
(* the file, whatever writes fail and whenever the process is restarted.   *)
(***************************************************************************)
THEOREM EffectiveCounts == Spec => []EffectiveCountsCharges
<1>1. Init => EffectiveCountsCharges
  BY NoCharges DEF Init, EffectiveCountsCharges, NoStats
<1>2. IInv /\ EffectiveCountsCharges /\ [Next]_vars => EffectiveCountsCharges'
  BY NextCounts
<1> QED
  BY <1>1, <1>2, SpecIInv, PTL DEF Spec
=============================================================================
