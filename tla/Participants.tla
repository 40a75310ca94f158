----------------------------- MODULE Participants -----------------------------
(***************************************************************************)
(* The participant manager (cmd/participant-manager): the table            *)
(* participants, seeded when a process starts, changed by                  *)
(* POST /v1/participants and read by GET /v1/participants/{id}.            *)
(***************************************************************************)
EXTENDS Naturals

CONSTANTS
    Parties,        \* participant ids
    Seeds,          \* instrument of each participant that seed inserts
    Drafts,         \* bodies of POST /v1/participants: instrument, roles, active
    MaxChanges      \* bound: changes of the table

Instruments == {"card", "bank_transfer", "wallet"}
Roles == {"debtor", "creditor"}

ASSUME ParticipantsAssumption ==
    /\ DOMAIN Seeds \subseteq Parties
    /\ \A p \in DOMAIN Seeds : Seeds[p] \in Instruments
    /\ \A d \in Drafts : d.active \in BOOLEAN
    /\ MaxChanges \in Nat

VARIABLES
    participants,   \* the table
    changes         \* changes so far

participantVars == <<participants, changes>>

NoParticipant == [instrument |-> "NONE", roles |-> {}, active |-> FALSE]
Participant == [instrument : Instruments, roles : SUBSET Roles, active : BOOLEAN]

ParticipantsTypeOK ==
    /\ participants \in [Parties -> Participant \cup {NoParticipant}]
    /\ changes \in 0..MaxChanges

\* What lower-casing and trimming make of the spellings in Drafts.
Canonical(role) ==
    CASE role \in {"debtor", " Debtor "} -> "debtor"
      [] role \in {"creditor", "CREDITOR"} -> "creditor"
      [] role \in {"", " "} -> ""
      [] OTHER -> role

NormalizeRoles(roles) == {Canonical(r) : r \in roles} \ {""}

ValidateParticipant(d) ==
    /\ d.instrument \in Instruments
    /\ NormalizeRoles(d.roles) # {}
    /\ NormalizeRoles(d.roles) \subseteq Roles

\* The row of participant p after seed has run over the row r.
SeedRow(p, r) ==
    IF p \notin DOMAIN Seeds THEN r
    ELSE IF r = NoParticipant
      THEN [instrument |-> Seeds[p], roles |-> Roles, active |-> TRUE]
      ELSE [r EXCEPT !.roles = IF r.roles = {} THEN Roles ELSE r.roles]

\* A first start: seed has run over an empty table.
ParticipantsInit ==
    /\ participants = [p \in Parties |-> SeedRow(p, NoParticipant)]
    /\ changes = 0

\* A variant of Save that stores the roles as they came; no part of the
\* specification.
SaveVerbatim(p, d) ==
    /\ changes < MaxChanges
    /\ ValidateParticipant(d)
    /\ participants' = [participants EXCEPT ![p] =
                          [instrument |-> d.instrument, roles |-> d.roles,
                           active |-> d.active]]
    /\ changes' = changes + 1

\* create: POST /v1/participants inserts the participant or replaces its row.
Save(p, d) ==
    /\ changes < MaxChanges
    /\ ValidateParticipant(d)
    /\ participants' = [participants EXCEPT ![p] =
                          [instrument |-> d.instrument, roles |-> NormalizeRoles(d.roles),
                           active |-> d.active]]
    /\ changes' = changes + 1

\* seed, when a process starts: rows that are there keep what was saved.
Seed ==
    /\ participants' = [p \in Parties |-> SeedRow(p, participants[p])]
    /\ UNCHANGED changes

ParticipantsNext ==
    \/ Seed
    \/ \E p \in Parties, d \in Drafts : Save(p, d)

\* routing answers 200 for p; otherwise it answers 404 or 409.
Served(p) == participants[p].active
=============================================================================
