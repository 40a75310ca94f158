------------------------------- MODULE Startup -------------------------------
(***************************************************************************)
(* How a service with a database starts: the replicas of payment-router,   *)
(* payment-operator or participant-manager open the database, bring the    *)
(* schema up to date, seed it where the service has a seed, and listen.    *)
(* The database goes down and comes back, processes die and are started    *)
(* again by the orchestrator.                                              *)
(***************************************************************************)
EXTENDS Naturals

CONSTANTS
    Replicas,       \* the processes that share one database
    MaxTries,       \* attempts of openWithRetry (30 in the code)
    MaxOutages,     \* bound: times the database goes down
    MaxCrashes      \* bound: processes killed from outside

ASSUME StartupAssumption ==
    /\ MaxTries \in Nat \ {0}
    /\ MaxOutages \in Nat
    /\ MaxCrashes \in Nat

\* No table; the table of an earlier version, without the columns added since;
\* the table the code works with.
Schemas == {"none", "legacy", "current"}

VARIABLES
    seeding,        \* the service has a seed (participant-manager)
    dbUp,           \* the database accepts connections
    schema,         \* its table
    seeded,         \* the seed rows are in the table
    pc,             \* where each process is
    tries,          \* openWithRetry: attempts that failed
    seen,           \* the table as CREATE TABLE IF NOT EXISTS found it
    ready,          \* the answer to the last readiness probe
    outages,
    crashes

vars == <<seeding, dbUp, schema, seeded, pc, tries, seen, ready, outages, crashes>>

\* The types of the start-up model; tries never passes the limit of
\* openWithRetry.
TypeOK ==
    /\ seeding \in BOOLEAN
    /\ dbUp \in BOOLEAN
    /\ schema \in Schemas
    /\ seeded \in BOOLEAN
    /\ pc \in [Replicas -> {"open", "ensure", "migrating", "seed", "serving", "dead"}]
    /\ tries \in [Replicas -> 0..(MaxTries - 1)]
    /\ seen \in [Replicas -> Schemas]
    /\ ready \in [Replicas -> BOOLEAN]
    /\ outages \in 0..MaxOutages
    /\ crashes \in 0..MaxCrashes

\* A first deployment, an upgrade of an older one, or a plain restart.
Init ==
    /\ seeding \in BOOLEAN
    /\ dbUp \in BOOLEAN
    /\ schema \in Schemas
    /\ seeded \in BOOLEAN
    /\ seeded => seeding /\ schema = "current"
    /\ pc = [r \in Replicas |-> "open"]
    /\ tries = [r \in Replicas |-> 0]
    /\ seen = [r \in Replicas |-> "none"]
    /\ ready = [r \in Replicas |-> FALSE]
    /\ outages = 0
    /\ crashes = 0

Goto(r, place) == pc' = [pc EXCEPT ![r] = place]

\* What main does once the schema stands.
AfterEnsure == IF seeding THEN "seed" ELSE "serving"

------------------------------------------------------------------------------
(***************************************************************************)
(* openWithRetry and Open                                                  *)
(***************************************************************************)
OpenSucceeds(r) ==
    /\ pc[r] = "open" /\ dbUp
    /\ Goto(r, "ensure")
    /\ UNCHANGED <<seeding, dbUp, schema, seeded, tries, seen, ready, outages, crashes>>

\* A variant of OpenFails whose loop makes one attempt too many; no part of the
\* specification.
OpenFailsOnceMore(r) ==
    /\ pc[r] = "open" /\ ~dbUp
    /\ IF tries[r] = MaxTries
       THEN Goto(r, "dead") /\ UNCHANGED tries
       ELSE tries' = [tries EXCEPT ![r] = @ + 1] /\ UNCHANGED pc
    /\ UNCHANGED <<seeding, dbUp, schema, seeded, seen, ready, outages, crashes>>

\* The ping fails: try again a second later, or give up (log.Fatal).
OpenFails(r) ==
    /\ pc[r] = "open" /\ ~dbUp
    /\ IF tries[r] + 1 = MaxTries
       THEN Goto(r, "dead") /\ UNCHANGED tries
       ELSE tries' = [tries EXCEPT ![r] = @ + 1] /\ UNCHANGED pc
    /\ UNCHANGED <<seeding, dbUp, schema, seeded, seen, ready, outages, crashes>>

------------------------------------------------------------------------------
(***************************************************************************)
(* EnsureParticipants, EnsurePayments, EnsureOperator: one string of       *)
(* statements without arguments, which PostgreSQL runs as one transaction. *)
(***************************************************************************)
\* CREATE TABLE IF NOT EXISTS looks for the table.
EnsureBegins(r) ==
    /\ pc[r] = "ensure" /\ dbUp
    /\ seen' = [seen EXCEPT ![r] = schema]
    /\ Goto(r, "migrating")
    /\ UNCHANGED <<seeding, dbUp, schema, seeded, tries, ready, outages, crashes>>

\* A variant of Migrated without the ALTER TABLE statements; no part of the
\* specification.
MigratedByCreation(r) == IF seen[r] = "none" THEN "current" ELSE schema

\* The table after CREATE and the ALTERs, which add what is missing.
Migrated(r) == "current"

\* A variant of CreationCollides for a CREATE TABLE without IF NOT EXISTS; no
\* part of the specification.
CreationAlwaysCollides(r) == schema # "none"

\* The table was not there when r looked and is there when r creates it: the
\* catalogue's unique index refuses the second table.
CreationCollides(r) == seen[r] = "none" /\ schema # "none"

EnsureCommits(r) ==
    /\ pc[r] = "migrating" /\ dbUp
    /\ ~CreationCollides(r)
    /\ schema' = Migrated(r)
    /\ Goto(r, AfterEnsure)
    /\ UNCHANGED <<seeding, dbUp, seeded, tries, seen, ready, outages, crashes>>

EnsureCollides(r) ==
    /\ pc[r] = "migrating" /\ dbUp
    /\ CreationCollides(r)
    /\ Goto(r, "dead")
    /\ UNCHANGED <<seeding, dbUp, schema, seeded, tries, seen, ready, outages, crashes>>

\* The processes after every connection has broken: a migration under way is
\* rolled back and its error is fatal.
Severed == [r \in Replicas |-> IF pc[r] = "migrating" THEN "dead" ELSE pc[r]]

\* The database commits and goes down before it says so.
EnsureUnacknowledged(r) ==
    /\ pc[r] = "migrating" /\ dbUp
    /\ outages < MaxOutages
    /\ ~CreationCollides(r)
    /\ schema' = Migrated(r)
    /\ dbUp' = FALSE
    /\ outages' = outages + 1
    /\ pc' = Severed
    /\ UNCHANGED <<seeding, seeded, tries, seen, ready, crashes>>

\* No connection for the migration (log.Fatal).
EnsureFails(r) ==
    /\ pc[r] = "ensure" /\ ~dbUp
    /\ Goto(r, "dead")
    /\ UNCHANGED <<seeding, dbUp, schema, seeded, tries, seen, ready, outages, crashes>>

------------------------------------------------------------------------------
(***************************************************************************)
(* seed, ListenAndServe and the readiness probe                            *)
(***************************************************************************)
SeedCommits(r) ==
    /\ pc[r] = "seed" /\ dbUp
    /\ seeded' = TRUE
    /\ Goto(r, "serving")
    /\ UNCHANGED <<seeding, dbUp, schema, tries, seen, ready, outages, crashes>>

SeedFails(r) ==
    /\ pc[r] = "seed" /\ ~dbUp
    /\ Goto(r, "dead")
    /\ UNCHANGED <<seeding, dbUp, schema, seeded, tries, seen, ready, outages, crashes>>

\* /readyz answers 200: the process listens and its ping succeeds.
Ready(r) == pc[r] = "serving" /\ dbUp

\* The orchestrator asks for /readyz and routes requests accordingly.
Probe(r) ==
    /\ ready' = [ready EXCEPT ![r] = Ready(r)]
    /\ UNCHANGED <<seeding, dbUp, schema, seeded, pc, tries, seen, outages, crashes>>

------------------------------------------------------------------------------
(***************************************************************************)
(* The surroundings                                                        *)
(***************************************************************************)
DatabaseStops ==
    /\ dbUp /\ outages < MaxOutages
    /\ dbUp' = FALSE
    /\ outages' = outages + 1
    /\ pc' = Severed
    /\ UNCHANGED <<seeding, schema, seeded, tries, seen, ready, crashes>>

DatabaseStarts ==
    /\ ~dbUp
    /\ dbUp' = TRUE
    /\ UNCHANGED <<seeding, schema, seeded, pc, tries, seen, ready, outages, crashes>>

Crash(r) ==
    /\ pc[r] # "dead" /\ crashes < MaxCrashes
    /\ crashes' = crashes + 1
    /\ Goto(r, "dead")
    /\ UNCHANGED <<seeding, dbUp, schema, seeded, tries, seen, ready, outages>>

\* A new process in the place of a dead one, which its probes find not ready.
Restart(r) ==
    /\ pc[r] = "dead"
    /\ Goto(r, "open")
    /\ tries' = [tries EXCEPT ![r] = 0]
    /\ seen' = [seen EXCEPT ![r] = "none"]
    /\ ready' = [ready EXCEPT ![r] = FALSE]
    /\ UNCHANGED <<seeding, dbUp, schema, seeded, outages, crashes>>

Main(r) ==
    \/ OpenSucceeds(r) \/ OpenFails(r)
    \/ EnsureBegins(r) \/ EnsureCommits(r) \/ EnsureCollides(r) \/ EnsureFails(r)
    \/ SeedCommits(r) \/ SeedFails(r)

Next ==
    \/ \E r \in Replicas :
          Main(r) \/ EnsureUnacknowledged(r) \/ Probe(r) \/ Crash(r) \/ Restart(r)
    \/ DatabaseStops
    \/ DatabaseStarts

Spec == Init /\ [][Next]_vars

\* main goes on while it can, the orchestrator restarts what has ended and
\* keeps probing, and the database comes back.  A Kubernetes Deployment restarts;
\* the Compose file sets no restart policy, so there Restart is up to its user.
Fairness ==
    /\ \A r \in Replicas : WF_vars(Main(r)) /\ WF_vars(Restart(r)) /\ WF_vars(Probe(r))
    /\ WF_vars(DatabaseStarts)

FairSpec == Spec /\ Fairness

------------------------------------------------------------------------------
(***************************************************************************)
(* Properties                                                              *)
(***************************************************************************)
\* A replica that serves, or that requests are still routed to, works on a
\* database whose schema is complete and, where the service has a seed, seeded:
\* whatever other replicas, outages and restarts did to its own migration.
ServesCompleteSchema ==
    \A r \in Replicas :
       pc[r] = "serving" \/ ready[r] => schema = "current" /\ (seeding => seeded)

\* However the replicas collide while they create the table, and whatever is
\* lost to outages and crashes, in the end every replica serves and is ready:
\* no replica is left in a crash loop.
EventuallyReady == <>[](\A r \in Replicas : pc[r] = "serving" /\ ready[r])
=============================================================================
