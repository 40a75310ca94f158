---------------------------- MODULE StartupProofs ----------------------------
(***************************************************************************)
(* Proofs about the start of a service, for any set of replicas, any limit *)
(* of attempts and any number of outages and crashes.                      *)
(***************************************************************************)
EXTENDS Startup, TLAPS

\* A replica comes to its seed only over a complete schema, and only where the
\* service has one.
SeedsCompleteSchema ==
    \A r \in Replicas : pc[r] = "seed" => schema = "current" /\ seeding

Inv == SeedsCompleteSchema /\ ServesCompleteSchema

\* What the database has it keeps: a complete schema stays complete, a seed
\* stays, and whether the service has a seed never changes.
LEMMA DatabaseKeeps ==
  ASSUME [Next]_vars
  PROVE  /\ schema = "current" => schema' = "current"
         /\ seeded => seeded'
         /\ seeding' = seeding
<1>1. ASSUME NEW r \in Replicas, EnsureCommits(r) \/ EnsureUnacknowledged(r)
      PROVE  schema' = "current" /\ seeded' = seeded /\ seeding' = seeding
  BY <1>1 DEF EnsureCommits, EnsureUnacknowledged, Migrated
<1>2. ASSUME NEW r \in Replicas, SeedCommits(r)
      PROVE  schema' = schema /\ seeded' /\ seeding' = seeding
  BY <1>2 DEF SeedCommits
<1>3. ASSUME UNCHANGED <<seeding, schema, seeded>>
      PROVE  schema' = schema /\ seeded' = seeded /\ seeding' = seeding
  BY <1>3
<1>4. CASE \E r \in Replicas : EnsureCommits(r) \/ EnsureUnacknowledged(r)
  BY <1>1, <1>4
<1>5. CASE \E r \in Replicas : SeedCommits(r)
  BY <1>2, <1>5
<1>6. CASE UNCHANGED <<seeding, schema, seeded>>
  BY <1>3, <1>6
<1> QED
  BY <1>4, <1>5, <1>6 DEF Next, Main, OpenSucceeds, OpenFails, EnsureBegins,
     EnsureCollides, EnsureFails, SeedFails, Probe, Crash, Restart, DatabaseStops,
     DatabaseStarts, vars

LEMMA InitTypes == Init => TypeOK
<1> SUFFICES ASSUME Init PROVE TypeOK
  OBVIOUS
<1>1. seeding \in BOOLEAN /\ dbUp \in BOOLEAN /\ schema \in Schemas /\ seeded \in BOOLEAN
  BY DEF Init
<1>2. /\ pc \in [Replicas -> {"open", "ensure", "migrating", "seed", "serving", "dead"}]
      /\ tries \in [Replicas -> 0..(MaxTries - 1)]
      /\ seen \in [Replicas -> Schemas]
      /\ outages \in 0..MaxOutages
      /\ crashes \in 0..MaxCrashes
  BY StartupAssumption DEF StartupAssumption, Init, Schemas
<1>3. ready \in [Replicas -> BOOLEAN]
  BY DEF Init
<1> QED
  BY <1>1, <1>2, <1>3 DEF TypeOK

LEMMA SeveredType ==
  ASSUME TypeOK
  PROVE  Severed \in [Replicas -> {"open", "ensure", "migrating", "seed", "serving",
                                   "dead"}]
  BY DEF TypeOK, Severed

LEMMA NextTypes == TypeOK /\ [Next]_vars => TypeOK'
<1> SUFFICES ASSUME TypeOK, [Next]_vars PROVE TypeOK'
  OBVIOUS
<1> USE StartupAssumption DEF StartupAssumption, TypeOK, Schemas
<1>1. ASSUME NEW r \in Replicas, OpenSucceeds(r) PROVE TypeOK'
  BY <1>1 DEF OpenSucceeds, Goto
<1>2. ASSUME NEW r \in Replicas, OpenFails(r) PROVE TypeOK'
  BY <1>2 DEF OpenFails, Goto
<1>3. ASSUME NEW r \in Replicas, EnsureBegins(r) PROVE TypeOK'
  BY <1>3 DEF EnsureBegins, Goto
<1>4. ASSUME NEW r \in Replicas, EnsureCommits(r) PROVE TypeOK'
  BY <1>4 DEF EnsureCommits, Goto, Migrated, AfterEnsure
<1>5. ASSUME NEW r \in Replicas, EnsureCollides(r) PROVE TypeOK'
  BY <1>5 DEF EnsureCollides, Goto
<1>6. ASSUME NEW r \in Replicas, EnsureFails(r) PROVE TypeOK'
  BY <1>6 DEF EnsureFails, Goto
<1>7. ASSUME NEW r \in Replicas, SeedCommits(r) PROVE TypeOK'
  BY <1>7 DEF SeedCommits, Goto
<1>8. ASSUME NEW r \in Replicas, SeedFails(r) PROVE TypeOK'
  BY <1>8 DEF SeedFails, Goto
<1>9. ASSUME NEW r \in Replicas, EnsureUnacknowledged(r) PROVE TypeOK'
  <2>1. /\ schema' \in Schemas
        /\ outages' \in 0..MaxOutages
        /\ UNCHANGED <<seeding, seeded, tries, seen, ready, crashes>>
    BY <1>9 DEF EnsureUnacknowledged, Migrated
  <2>2. dbUp' \in BOOLEAN
    BY <1>9, Zenon DEF EnsureUnacknowledged
  <2> QED
    BY <1>9, <2>1, <2>2, SeveredType DEF EnsureUnacknowledged
<1>10. ASSUME NEW r \in Replicas, Probe(r) PROVE TypeOK'
  BY <1>10 DEF Probe, Ready
<1>11. ASSUME NEW r \in Replicas, Crash(r) PROVE TypeOK'
  BY <1>11 DEF Crash, Goto
<1>12. ASSUME NEW r \in Replicas, Restart(r) PROVE TypeOK'
  BY <1>12 DEF Restart, Goto
<1>13. CASE DatabaseStops
  <2>1. /\ outages' \in 0..MaxOutages
        /\ UNCHANGED <<seeding, schema, seeded, tries, seen, ready, crashes>>
    BY <1>13 DEF DatabaseStops
  <2>2. dbUp' \in BOOLEAN
    BY <1>13, Zenon DEF DatabaseStops
  <2> QED
    BY <1>13, <2>1, <2>2, SeveredType DEF DatabaseStops
<1>14. CASE DatabaseStarts
  BY <1>14 DEF DatabaseStarts
<1>15. CASE UNCHANGED vars
  BY <1>15 DEF vars
<1> QED
  BY <1>1, <1>2, <1>3, <1>4, <1>5, <1>6, <1>7, <1>8, <1>9, <1>10, <1>11, <1>12, <1>13,
     <1>14, <1>15 DEF Next, Main

\* What a step of one replica does to another: nothing, or, when the database
\* goes down, a migration ends.
LEMMA NextInv == TypeOK /\ Inv /\ [Next]_vars => Inv'
<1> SUFFICES ASSUME TypeOK, Inv, [Next]_vars, NEW r \in Replicas
             PROVE  /\ pc'[r] = "seed" => schema' = "current" /\ seeding'
                    /\ pc'[r] = "serving" \/ ready'[r] =>
                          schema' = "current" /\ (seeding' => seeded')
  BY DEF Inv, SeedsCompleteSchema, ServesCompleteSchema
<1> DEFINE Goal == /\ pc'[r] = "seed" => schema' = "current" /\ seeding'
                   /\ pc'[r] = "serving" \/ ready'[r] =>
                          schema' = "current" /\ (seeding' => seeded')
<1>0. /\ schema = "current" => schema' = "current"
      /\ seeded => seeded'
      /\ seeding' = seeding
  BY DatabaseKeeps
<1>1. /\ pc[r] = "seed" => schema' = "current" /\ seeding'
      /\ pc[r] = "serving" \/ ready[r] => schema' = "current" /\ (seeding' => seeded')
  BY <1>0 DEF Inv, SeedsCompleteSchema, ServesCompleteSchema
<1>2. ASSUME pc'[r] \in {pc[r], "open", "ensure", "migrating", "dead"},
             ready'[r] => ready[r] \/ pc[r] = "serving"
      PROVE  Goal
  BY <1>1, <1>2
<1>3. CASE EnsureCommits(r)
  <2>1. pc'[r] = AfterEnsure /\ schema' = "current" /\ ready'[r] = ready[r]
    BY <1>3 DEF EnsureCommits, Goto, Migrated, TypeOK
  <2>2. CASE seeding
    BY <1>0, <1>1, <2>1, <2>2 DEF AfterEnsure
  <2>3. CASE ~seeding
    BY <1>0, <1>1, <2>1, <2>3 DEF AfterEnsure
  <2> QED
    BY <2>2, <2>3
<1>4. CASE SeedCommits(r)
  <2>1. pc[r] = "seed" /\ pc'[r] = "serving" /\ seeded'
    BY <1>4 DEF SeedCommits, Goto, TypeOK
  <2> QED
    BY <1>1, <2>1
<1>5. CASE OpenSucceeds(r) \/ OpenFails(r) \/ EnsureBegins(r) \/ EnsureCollides(r)
           \/ EnsureFails(r) \/ SeedFails(r) \/ Crash(r)
  BY <1>2, <1>5 DEF OpenSucceeds, OpenFails, EnsureBegins, EnsureCollides, EnsureFails,
     SeedFails, Crash, Goto, TypeOK
<1>6. CASE Probe(r)
  BY <1>2, <1>6 DEF Probe, Ready, TypeOK
<1>7. CASE Restart(r)
  BY <1>2, <1>7 DEF Restart, Goto, TypeOK
<1>8. ASSUME NEW q \in Replicas, q # r,
             Main(q) \/ Probe(q) \/ Crash(q) \/ Restart(q)
      PROVE  Goal
  <2>1. pc'[r] = pc[r] /\ ready'[r] = ready[r]
    BY <1>8 DEF Main, OpenSucceeds, OpenFails, EnsureBegins, EnsureCommits,
       EnsureCollides, EnsureFails, SeedCommits, SeedFails, Probe, Crash, Restart, Goto,
       TypeOK
  <2> QED
    BY <1>2, <2>1
<1>9. CASE DatabaseStops \/ \E q \in Replicas : EnsureUnacknowledged(q)
  <2>1. pc' = Severed /\ ready' = ready
    BY <1>9 DEF DatabaseStops, EnsureUnacknowledged
  <2>2. pc'[r] \in {pc[r], "dead"}
    BY <2>1 DEF Severed
  <2> QED
    BY <1>2, <2>1, <2>2
<1>10. CASE DatabaseStarts \/ UNCHANGED vars
  BY <1>2, <1>10 DEF DatabaseStarts, vars
<1> QED
  BY <1>3, <1>4, <1>5, <1>6, <1>7, <1>8, <1>9, <1>10 DEF Next, Main

(***************************************************************************)
(* The types of the start-up hold, and no process ever makes more than     *)
(* MaxTries attempts to open the database.                                 *)
(***************************************************************************)
THEOREM StartupTypes == Spec => []TypeOK
  BY InitTypes, NextTypes, PTL DEF Spec

(***************************************************************************)
(* However many replicas migrate at once, and whatever outages, lost       *)
(* acknowledgements, crashes and restarts come between: a replica that     *)
(* serves or that requests are routed to works on a complete, seeded       *)
(* database.                                                               *)
(***************************************************************************)
THEOREM ServesComplete == Spec => []ServesCompleteSchema
<1>1. Init => Inv
  BY DEF Init, Inv, SeedsCompleteSchema, ServesCompleteSchema
<1>2. Inv => ServesCompleteSchema
  BY DEF Inv
<1> QED
  BY <1>1, <1>2, StartupTypes, NextInv, PTL DEF Spec
=============================================================================
