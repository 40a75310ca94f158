-------------------------------- MODULE Router --------------------------------
(***************************************************************************)
(* The payment router (cmd/payment-router): POST /internal/v1/payments and *)
(* GET /v1/payments/{id} over the table payments.                          *)
(*                                                                         *)
(* A create handler holds a PostgreSQL session lock on its idempotency key *)
(* while it reserves the payment (a committed PENDING row), calls the      *)
(* provider and records the result.  Every statement of a handler uses the *)
(* connection that holds the lock, so a handler that has lost its session  *)
(* has lost the lock and can write no more.  Handlers of several replicas  *)
(* share the table; any of them may crash, lose its session, or miss the   *)
(* acknowledgement of a commit, between any two steps.                     *)
(*                                                                         *)
(* One step is one statement, one transaction of the lock holder, or one   *)
(* event of the provider call.  A payload stands for the canonical request *)
(* and so for its hash.  The provider is the contract ChargeLedger.        *)
(***************************************************************************)
EXTENDS Naturals, FiniteSets

CONSTANTS
    Handlers,       \* requests being served at once
    Keys,           \* idempotency keys
    Payloads,       \* request bodies: records with an instrument and an amount
    Ids,            \* values newUUID may draw
    Refs,           \* references of accepted charges
    None,           \* SQL NULL, no holder, nothing yet
    HashText,       \* PostgreSQL's hashtext: two keys may share a lock
    PoolSize,       \* SetMaxOpenConns
    RecoveryAfter,  \* PENDING_RECOVERY_AFTER
    MaxSkew,        \* how far a router's clock may be off PostgreSQL's
    CallWindow,     \* longest time from the transaction to the provider's answer
    Refuses,        \* the provider may answer 4xx, e.g. 401
    MaxFaults,      \* bound: failures of any kind
    MaxClock        \* bound: time

Gateways == {"gateway-card", "gateway-bank"}
Statuses == {"PENDING", "SUCCEEDED", "FAILED"}
Terminal == {"SUCCEEDED", "FAILED"}

\* A provider slot: the endpoint that is called and the key sent as
\* request_id / transfer_id.
Charges == Gateways \X Keys
Locks == {HashText[k] : k \in Keys}

ASSUME RouterAssumption ==
    /\ IsFiniteSet(Handlers)
    /\ None \notin Handlers /\ None \notin Keys /\ None \notin Payloads
    /\ None \notin Ids /\ None \notin Refs /\ None \notin Gateways
    /\ DOMAIN HashText = Keys
    /\ PoolSize \in Nat \ {0}
    /\ RecoveryAfter \in Nat
    /\ MaxSkew \in Nat
    /\ CallWindow \in Nat
    /\ Refuses \in BOOLEAN
    /\ MaxFaults \in Nat
    /\ MaxClock \in Nat

VARIABLES
    rows,       \* table payments by idempotency_key
    lock,       \* holder of each session advisory lock
    pc,         \* where each handler is
    req,        \* its key and payload
    lease,      \* now() of its transaction: updated_at of the row it reserved
    target,     \* the id and gateway it works for
    result,     \* the status and provider reference it will record and report
    sent,       \* provider requests that left the router, delivered any time
    ledger,     \* the provider's ledger
    answers,    \* every payment reported to a client so far
    clock,      \* PostgreSQL's now()
    faults      \* failures so far

vars == <<rows, lock, pc, req, lease, target, result, sent, ledger, answers,
          clock, faults>>

Provider == INSTANCE ChargeLedger

Pcs == {"idle", "conn", "lock", "lookup", "insert", "claim", "charge", "calling",
        "persist", "reply", "unlock"}

NoRow == [id |-> None, payload |-> None, status |-> "NONE", gateway |-> None,
          ref |-> None, updated |-> 0]
NoRequest == [key |-> None, payload |-> None]
NoTarget == [id |-> None, gateway |-> None]
NoResult == [status |-> "NONE", ref |-> None]

TypeOK ==
    /\ rows \in [Keys -> [id : Ids \cup {None}, payload : Payloads \cup {None},
                          status : Statuses \cup {"NONE"},
                          gateway : Gateways \cup {None},
                          ref : Refs \cup {None}, updated : Nat]]
    /\ lock \in [Locks -> Handlers \cup {None}]
    /\ pc \in [Handlers -> Pcs]
    /\ req \in [Handlers -> [key : Keys \cup {None}, payload : Payloads \cup {None}]]
    /\ lease \in [Handlers -> Nat]
    /\ target \in [Handlers -> [id : Ids \cup {None}, gateway : Gateways \cup {None}]]
    /\ result \in [Handlers -> [status : Statuses \cup {"NONE"}, ref : Refs \cup {None}]]
    /\ sent \subseteq [gateway : Gateways, key : Keys, payload : Payloads]
    /\ Provider!TypeOK
    /\ answers \subseteq [key : Keys, id : Ids, gateway : Gateways,
                          status : Statuses, ref : Refs \cup {None}]
    /\ clock \in Nat
    /\ faults \in 0..MaxFaults

Init ==
    /\ rows = [k \in Keys |-> NoRow]
    /\ lock = [l \in Locks |-> None]
    /\ pc = [h \in Handlers |-> "idle"]
    /\ req = [h \in Handlers |-> NoRequest]
    /\ lease = [h \in Handlers |-> 0]
    /\ target = [h \in Handlers |-> NoTarget]
    /\ result = [h \in Handlers |-> NoResult]
    /\ sent = {}
    /\ Provider!Init
    /\ answers = {}
    /\ clock = 0
    /\ faults = 0

------------------------------------------------------------------------------

\* gatewayFor
GatewayFor(instrument) ==
    IF instrument \in {"bank_transfer", "bank", "pse"}
      THEN "gateway-bank" ELSE "gateway-card"

\* ValidateRouterRequest, on the fields the model keeps.
ValidateRouterRequest(p) ==
    /\ p.amount > 0
    /\ p.instrument \in {"card", "bank_transfer", "wallet"}

\* The provider's own word is taken for the status.
NormalizeVerbatim(o) == [status |-> o.outcome, ref |-> o.ref]

\* Any 200 answer is taken for a success.
NormalizeByStatusCode(o) == [status |-> "SUCCEEDED", ref |-> o.ref]

\* The adapters: AUTHORIZED/ACCEPTED succeed with the provider's id,
\* DECLINED/REJECTED fail without one.
Normalize(o) ==
    [status |-> IF o.outcome = "ACCEPTED" THEN "SUCCEEDED" ELSE "FAILED",
     ref |-> o.ref]

Pending == [status |-> "PENDING", ref |-> None]

\* h's connection still holds the advisory lock of its key.
Session(h) == req[h].key # None /\ lock[HashText[req[h].key]] = h

\* The row of h's key.
Row(h) == rows[req[h].key]

\* Recovery does not wait for RecoveryAfter.
StaleAtOnce(row) == clock >= row.updated

\* time.Since(updated) >= pendingRecoveryAfter(), where time.Since reads the
\* router's clock and updated was stamped by PostgreSQL's: the test may hold
\* (MayBeStale), or fail (MayBeFresh), if it does so for some router clock within
\* MaxSkew of the database's.
MayBeStale(row) == clock + MaxSkew >= row.updated + RecoveryAfter

\* The test may fail.
MayBeFresh(row) == clock < row.updated + RecoveryAfter + MaxSkew

\* Connections of the pool in use: one per handler from Conn to Close.
InUse == {h \in Handlers : pc[h] \notin {"idle", "conn"}}

Fault == faults < MaxFaults /\ faults' = faults + 1

Goto(h, label) == pc' = [pc EXCEPT ![h] = label]

\* h's session ends, on its own account or with its connection.
ReleaseLock(h) ==
    lock' = IF Session(h) THEN [lock EXCEPT ![HashText[req[h].key]] = None] ELSE lock

\* The handler returns.
Return(h) ==
    /\ Goto(h, "idle")
    /\ req' = [req EXCEPT ![h] = NoRequest]
    /\ lease' = [lease EXCEPT ![h] = 0]
    /\ target' = [target EXCEPT ![h] = NoTarget]
    /\ result' = [result EXCEPT ![h] = NoResult]

\* INSERT INTO payments ... 'PENDING' under the fresh id.  The gateway is chosen
\* here and kept for every later attempt.
InsertRow(h, id) ==
    /\ \A k \in Keys : rows[k].id # id
    /\ rows' = [rows EXCEPT ![req[h].key] =
                  [id |-> id, payload |-> req[h].payload, status |-> "PENDING",
                   gateway |-> GatewayFor(req[h].payload.instrument),
                   ref |-> None, updated |-> lease[h]]]

\* A claim that leaves updated_at as it was.
ClaimRowUnstamped(h) ==
    /\ Row(h).id = target[h].id /\ Row(h).status = "PENDING"
    /\ UNCHANGED rows

\* A claim that fails over to another gateway.
ClaimRowFailsOver(h) ==
    /\ Row(h).id = target[h].id /\ Row(h).status = "PENDING"
    /\ \E g \in Gateways \ {Row(h).gateway} :
          rows' = [rows EXCEPT ![req[h].key].updated = lease[h],
                               ![req[h].key].gateway = g]

\* UPDATE payments SET updated_at=now() WHERE id=... AND status='PENDING'
ClaimRow(h) ==
    /\ Row(h).id = target[h].id /\ Row(h).status = "PENDING"
    /\ rows' = [rows EXCEPT ![req[h].key].updated = lease[h]]

\* The condition of the UPDATE in persistResultConn.
LeaseHeld(h) ==
    /\ Row(h).id = target[h].id
    /\ Row(h).status = "PENDING"
    /\ Row(h).updated = lease[h]

\* The UPDATE in persistResultConn.
RecordResult(h) ==
    rows' = [rows EXCEPT ![req[h].key].status = result[h].status,
                         ![req[h].key].ref = result[h].ref,
                         ![req[h].key].updated = clock]

------------------------------------------------------------------------------
(***************************************************************************)
(* Variants of steps below, each with a mistake that is easy to make in    *)
(* this code; like NormalizeVerbatim, NormalizeByStatusCode, StaleAtOnce,  *)
(* ClaimRowUnstamped and ClaimRowFailsOver they are no part of the         *)
(* specification.                                                          *)
(***************************************************************************)
\* Recovery accepts a request with another payload.
LookupStaleAnyPayload(h) ==
    /\ pc[h] = "lookup" /\ Session(h)
    /\ Row(h).status = "PENDING"
    /\ MayBeStale(Row(h))
    /\ lease' = [lease EXCEPT ![h] = clock]
    /\ target' = [target EXCEPT ![h] = [id |-> Row(h).id, gateway |-> Row(h).gateway]]
    /\ Goto(h, "claim")
    /\ UNCHANGED <<rows, lock, req, result, sent, ledger, answers, clock, faults>>

\* Recovery fails over to a gateway other than that of the row.
LookupStaleFailsOver(h) ==
    /\ pc[h] = "lookup" /\ Session(h)
    /\ Row(h).payload = req[h].payload
    /\ Row(h).status = "PENDING"
    /\ MayBeStale(Row(h))
    /\ lease' = [lease EXCEPT ![h] = clock]
    /\ \E g \in Gateways \ {Row(h).gateway} :
          target' = [target EXCEPT ![h] = [id |-> Row(h).id, gateway |-> g]]
    /\ Goto(h, "claim")
    /\ UNCHANGED <<rows, lock, req, result, sent, ledger, answers, clock, faults>>

\* A PENDING payment is reported however old it is.
LookupStaleReports(h) ==
    /\ pc[h] = "lookup" /\ Session(h)
    /\ Row(h).payload = req[h].payload
    /\ Row(h).status = "PENDING"
    /\ MayBeStale(Row(h))
    /\ target' = [target EXCEPT ![h] = [id |-> Row(h).id, gateway |-> Row(h).gateway]]
    /\ result' = [result EXCEPT ![h] = [status |-> "PENDING", ref |-> Row(h).ref]]
    /\ Goto(h, "reply")
    /\ UNCHANGED <<rows, lock, req, lease, sent, ledger, answers, clock, faults>>

\* A lookup that only reports the payment refreshes updated_at.
LookupAnswerTouches(h) ==
    /\ pc[h] = "lookup" /\ Session(h)
    /\ Row(h).payload = req[h].payload
    /\ \/ Row(h).status \in Terminal
       \/ Row(h).status = "PENDING" /\ MayBeFresh(Row(h))
    /\ rows' = [rows EXCEPT ![req[h].key].updated = clock]
    /\ target' = [target EXCEPT ![h] = [id |-> Row(h).id, gateway |-> Row(h).gateway]]
    /\ result' = [result EXCEPT ![h] = [status |-> Row(h).status, ref |-> Row(h).ref]]
    /\ Goto(h, "reply")
    /\ UNCHANGED <<lock, req, lease, sent, ledger, answers, clock, faults>>

\* A timeout of the provider is taken for a refusal.
CallFailsForGood(h) ==
    /\ pc[h] = "calling"
    /\ Fault
    /\ result' = [result EXCEPT ![h] = [status |-> "FAILED", ref |-> None]]
    /\ Goto(h, "persist")
    /\ UNCHANGED <<rows, lock, req, lease, target, sent, ledger, answers, clock>>

\* The result is recorded over a second connection of the pool.
PersistFromPool(h) ==
    /\ pc[h] = "persist"
    /\ Cardinality(InUse) < PoolSize
    /\ Session(h) /\ LeaseHeld(h)
    /\ RecordResult(h)
    /\ Goto(h, "reply")
    /\ UNCHANGED <<lock, req, lease, target, result, sent, ledger, answers, clock,
                   faults>>

\* The provider's result is reported although it could not be recorded.
PersistFailsUnnoticed(h) ==
    /\ pc[h] = "persist"
    /\ IF Session(h) /\ LeaseHeld(h) THEN Fault ELSE UNCHANGED faults
    /\ Goto(h, "reply")
    /\ UNCHANGED <<rows, lock, req, lease, target, result, sent, ledger, answers,
                   clock>>

------------------------------------------------------------------------------
(***************************************************************************)
(* create: connection and lock.                                            *)
(***************************************************************************)
\* A valid request arrives; an invalid one is answered 400 and changes
\* nothing.
Receive(h, k, p) ==
    /\ pc[h] = "idle"
    /\ ValidateRouterRequest(p)
    /\ req' = [req EXCEPT ![h] = [key |-> k, payload |-> p]]
    /\ Goto(h, "conn")
    /\ UNCHANGED <<rows, lock, lease, target, result, sent, ledger, answers, clock,
                   faults>>

\* db.Conn: a connection of the pool, kept until the handler returns.
Connect(h) ==
    /\ pc[h] = "conn"
    /\ Cardinality(InUse) < PoolSize
    /\ Goto(h, "lock")
    /\ UNCHANGED <<rows, lock, req, lease, target, result, sent, ledger, answers,
                   clock, faults>>

\* No connection, or no lock, within ten seconds: 500.
ConnectFails(h) ==
    /\ pc[h] \in {"conn", "lock"}
    /\ Fault
    /\ Return(h)
    /\ UNCHANGED <<rows, lock, sent, ledger, answers, clock>>

\* pg_advisory_lock(hashtext(key))
AcquireLock(h) ==
    /\ pc[h] = "lock"
    /\ lock[HashText[req[h].key]] = None
    /\ lock' = [lock EXCEPT ![HashText[req[h].key]] = h]
    /\ Goto(h, "lookup")
    /\ UNCHANGED <<rows, req, lease, target, result, sent, ledger, answers, clock,
                   faults>>

------------------------------------------------------------------------------
(***************************************************************************)
(* create: the transaction that finds, reserves or claims the payment.     *)
(***************************************************************************)
\* SELECT finds no row; the transaction started now.
LookupMiss(h) ==
    /\ pc[h] = "lookup" /\ Session(h)
    /\ Row(h).status = "NONE"
    /\ lease' = [lease EXCEPT ![h] = clock]
    /\ Goto(h, "insert")
    /\ UNCHANGED <<rows, lock, req, target, result, sent, ledger, answers, clock,
                   faults>>

\* The key was used with another payload: 409.
LookupConflict(h) ==
    /\ pc[h] = "lookup" /\ Session(h)
    /\ Row(h).status # "NONE"
    /\ Row(h).payload # req[h].payload
    /\ Goto(h, "unlock")
    /\ UNCHANGED <<rows, lock, req, lease, target, result, sent, ledger, answers,
                   clock, faults>>

\* A PENDING payment whose last attempt is old enough is taken over; id and
\* gateway are those of the row.
LookupStale(h) ==
    /\ pc[h] = "lookup" /\ Session(h)
    /\ Row(h).payload = req[h].payload
    /\ Row(h).status = "PENDING"
    /\ MayBeStale(Row(h))
    /\ lease' = [lease EXCEPT ![h] = clock]
    /\ target' = [target EXCEPT ![h] = [id |-> Row(h).id, gateway |-> Row(h).gateway]]
    /\ Goto(h, "claim")
    /\ UNCHANGED <<rows, lock, req, result, sent, ledger, answers, clock, faults>>

\* Any other payment is reported as it stands.
LookupAnswer(h) ==
    /\ pc[h] = "lookup" /\ Session(h)
    /\ Row(h).payload = req[h].payload
    /\ \/ Row(h).status \in Terminal
       \/ Row(h).status = "PENDING" /\ MayBeFresh(Row(h))
    /\ target' = [target EXCEPT ![h] = [id |-> Row(h).id, gateway |-> Row(h).gateway]]
    /\ result' = [result EXCEPT ![h] = [status |-> Row(h).status, ref |-> Row(h).ref]]
    /\ Goto(h, "reply")
    /\ UNCHANGED <<rows, lock, req, lease, sent, ledger, answers, clock, faults>>

\* INSERT and COMMIT.
Reserve(h) ==
    /\ pc[h] = "insert" /\ Session(h)
    /\ \E id \in Ids :
          /\ InsertRow(h, id)
          /\ target' = [target EXCEPT ![h] =
                          [id |-> id, gateway |-> GatewayFor(req[h].payload.instrument)]]
    /\ Goto(h, "charge")
    /\ UNCHANGED <<lock, req, lease, result, sent, ledger, answers, clock, faults>>

\* Claiming UPDATE and COMMIT.
Claim(h) ==
    /\ pc[h] = "claim" /\ Session(h)
    /\ ClaimRow(h)
    /\ Goto(h, "charge")
    /\ UNCHANGED <<lock, req, lease, target, result, sent, ledger, answers, clock,
                   faults>>

\* The COMMIT is applied but its acknowledgement is lost with the connection:
\* 500, no charge, and a PENDING row that a later request may claim.
CommitUnacknowledged(h) ==
    /\ pc[h] \in {"insert", "claim"} /\ Session(h)
    /\ Fault
    /\ IF pc[h] = "insert" THEN \E id \in Ids : InsertRow(h, id) ELSE ClaimRow(h)
    /\ ReleaseLock(h)
    /\ Goto(h, "unlock")
    /\ UNCHANGED <<req, lease, target, result, sent, ledger, answers, clock>>

\* A statement fails and the transaction is rolled back: 500.
TransactionFails(h) ==
    /\ pc[h] \in {"lookup", "insert", "claim"}
    /\ IF Session(h) THEN Fault ELSE UNCHANGED faults
    /\ Goto(h, "unlock")
    /\ UNCHANGED <<rows, lock, req, lease, target, result, sent, ledger, answers,
                   clock>>

------------------------------------------------------------------------------
(***************************************************************************)
(* create: charge and callProvider.                                        *)
(***************************************************************************)
\* The circuit is open, or the request never leaves the router: PENDING.
CallNotMade(h) ==
    /\ pc[h] = "charge"
    /\ Fault
    /\ result' = [result EXCEPT ![h] = Pending]
    /\ Goto(h, "persist")
    /\ UNCHANGED <<rows, lock, req, lease, target, sent, ledger, answers, clock>>

\* The provider refuses the request with a 4xx before looking at the charge:
\* callProvider makes this a FAILED result.
CallRefused(h) ==
    /\ pc[h] = "charge"
    /\ Refuses
    /\ result' = [result EXCEPT ![h] = [status |-> "FAILED", ref |-> None]]
    /\ Goto(h, "persist")
    /\ UNCHANGED <<rows, lock, req, lease, target, sent, ledger, answers, clock,
                   faults>>

\* The request leaves, with the idempotency key as the provider's request id.
CallProvider(h) ==
    /\ pc[h] = "charge"
    /\ sent' = sent \cup {[gateway |-> target[h].gateway, key |-> req[h].key,
                           payload |-> req[h].payload]}
    /\ Goto(h, "calling")
    /\ UNCHANGED <<rows, lock, req, lease, target, result, ledger, answers, clock,
                   faults>>

\* The provider settles a charge it was sent, however late the request or a
\* repetition of it by the network arrives.
SettleCall(m, o) ==
    /\ Provider!Settle(<<m.gateway, m.key>>, o)
    /\ UNCHANGED <<rows, lock, pc, req, lease, target, result, sent, answers, clock,
                   faults>>

\* The provider's 200 answer arrives.
ProviderAnswers(h) ==
    /\ pc[h] = "calling"
    /\ LET o == ledger[<<target[h].gateway, req[h].key>>] IN
       /\ o # Provider!Unsettled
       /\ result' = [result EXCEPT ![h] = Normalize(o)]
    /\ Goto(h, "persist")
    /\ UNCHANGED <<rows, lock, req, lease, target, sent, ledger, answers, clock,
                   faults>>

\* A timeout, a lost answer, a 5xx, a 408 or an unreadable body: PENDING, for
\* the provider may have charged.
CallFails(h) ==
    /\ pc[h] = "calling"
    /\ Fault
    /\ result' = [result EXCEPT ![h] = Pending]
    /\ Goto(h, "persist")
    /\ UNCHANGED <<rows, lock, req, lease, target, sent, ledger, answers, clock>>

------------------------------------------------------------------------------
(***************************************************************************)
(* create: persistResultConn, the answer and the deferred unlock.          *)
(***************************************************************************)
\* The result is recorded under the lease.
Persist(h) ==
    /\ pc[h] = "persist"
    /\ Session(h) /\ LeaseHeld(h)
    /\ RecordResult(h)
    /\ Goto(h, "reply")
    /\ UNCHANGED <<lock, req, lease, target, result, sent, ledger, answers, clock,
                   faults>>

\* The session is gone, or the UPDATE fails: whatever the provider said, the
\* payment is reported PENDING.  The reference is not cleared.
PersistFails(h) ==
    /\ pc[h] = "persist"
    /\ IF Session(h) /\ LeaseHeld(h) THEN Fault ELSE UNCHANGED faults
    /\ result' = [result EXCEPT ![h].status = "PENDING"]
    /\ Goto(h, "reply")
    /\ UNCHANGED <<rows, lock, req, lease, target, sent, ledger, answers, clock>>

\* The UPDATE is applied but its acknowledgement is lost with the connection.
PersistUnacknowledged(h) ==
    /\ pc[h] = "persist"
    /\ Session(h) /\ LeaseHeld(h)
    /\ Fault
    /\ RecordResult(h)
    /\ ReleaseLock(h)
    /\ result' = [result EXCEPT ![h].status = "PENDING"]
    /\ Goto(h, "reply")
    /\ UNCHANGED <<req, lease, target, sent, ledger, answers, clock>>

\* The answer is written; the lock is still held.
Reply(h) ==
    /\ pc[h] = "reply"
    /\ answers' = answers \cup
          {[key |-> req[h].key, id |-> target[h].id, gateway |-> target[h].gateway,
            status |-> result[h].status, ref |-> result[h].ref]}
    /\ Goto(h, "unlock")
    /\ UNCHANGED <<rows, lock, req, lease, target, result, sent, ledger, clock, faults>>

\* The deferred unlock; a connection that may still hold the lock is discarded
\* and its session ends, so the lock is released either way.
Unlock(h) ==
    /\ pc[h] = "unlock"
    /\ ReleaseLock(h)
    /\ Return(h)
    /\ UNCHANGED <<rows, sent, ledger, answers, clock, faults>>

------------------------------------------------------------------------------
(***************************************************************************)
(* get, failures of the database session and of the process, time.         *)
(***************************************************************************)
\* GET /v1/payments/{id}
Get(k) ==
    /\ rows[k].status # "NONE"
    /\ answers' = answers \cup
          {[key |-> k, id |-> rows[k].id, gateway |-> rows[k].gateway,
            status |-> rows[k].status, ref |-> rows[k].ref]}
    /\ UNCHANGED <<rows, lock, pc, req, lease, target, result, sent, ledger, clock,
                   faults>>

\* The database ends h's session: its advisory lock is free at once, while h
\* may be waiting for the provider and notices nothing.
SessionLost(h) ==
    /\ Session(h)
    /\ Fault
    /\ ReleaseLock(h)
    /\ UNCHANGED <<rows, pc, req, lease, target, result, sent, ledger, answers, clock>>

\* The process serving h dies.
Crash(h) ==
    /\ pc[h] # "idle"
    /\ Fault
    /\ ReleaseLock(h)
    /\ Return(h)
    /\ UNCHANGED <<rows, sent, ledger, answers, clock>>

\* Time passes while it can be told apart: some payment is PENDING and not yet
\* recoverable, or a transaction is open.  The ten seconds of the database
\* context and the three of the provider client end every attempt within
\* CallWindow of its transaction's start.
Tick ==
    /\ clock < MaxClock
    /\ \/ \E k \in Keys : rows[k].status = "PENDING" /\ MayBeFresh(rows[k])
       \/ \E h \in Handlers : pc[h] = "insert"
    /\ \A h \in Handlers : pc[h] \in {"insert", "claim", "charge", "calling"} =>
                              clock < lease[h] + CallWindow
    /\ clock' = clock + 1
    /\ UNCHANGED <<rows, lock, pc, req, lease, target, result, sent, ledger, answers,
                   faults>>

------------------------------------------------------------------------------

\* The steps a handler takes by itself.
Handle(h) ==
    \/ LookupMiss(h) \/ LookupConflict(h) \/ LookupStale(h) \/ LookupAnswer(h)
    \/ Reserve(h) \/ Claim(h) \/ TransactionFails(h)
    \/ CallProvider(h) \/ CallRefused(h) \/ ProviderAnswers(h)
    \/ Persist(h) \/ PersistFails(h) \/ Reply(h) \/ Unlock(h)

Fail(h) ==
    \/ ConnectFails(h) \/ CommitUnacknowledged(h) \/ CallNotMade(h) \/ CallFails(h)
    \/ PersistUnacknowledged(h) \/ SessionLost(h) \/ Crash(h)

Settle == \E m \in sent, o \in Provider!Outcomes : SettleCall(m, o)

Next ==
    \/ \E h \in Handlers :
          \/ \E k \in Keys, p \in Payloads : Receive(h, k, p)
          \/ Connect(h) \/ AcquireLock(h) \/ Handle(h) \/ Fail(h)
    \/ Settle
    \/ \E k \in Keys : Get(k)
    \/ Tick

Spec == Init /\ [][Next]_vars

\* A client repeats a payment until it is settled.
Retry(k) ==
    \E h \in Handlers, p \in Payloads : rows[k].payload = p /\ Receive(h, k, p)

(***************************************************************************)
(* Handlers keep running; connections and locks are granted in the order   *)
(* they are asked for, so no waiter is passed over for ever; the provider  *)
(* settles what it was sent; time passes; clients repeat their requests.   *)
(***************************************************************************)
Fairness ==
    /\ \A h \in Handlers : /\ SF_vars(Connect(h))
                           /\ SF_vars(AcquireLock(h))
                           /\ WF_vars(Handle(h))
    /\ WF_vars(Settle)
    /\ WF_vars(Tick)
    /\ \A k \in Keys : SF_vars(Retry(k))

FairSpec == Spec /\ Fairness

------------------------------------------------------------------------------
(***************************************************************************)
(* Safety.                                                                 *)
(***************************************************************************)
\* The answer a agrees with the row of its key.
Honoured(a) ==
    /\ rows[a.key].id = a.id
    /\ rows[a.key].gateway = a.gateway
    /\ a.status \in Terminal => /\ rows[a.key].status = a.status
                                /\ rows[a.key].ref = a.ref

(***************************************************************************)
(* Every answer ever given for a key names the same payment, and a         *)
(* definite answer is the one the table holds: create reports a terminal   *)
(* result only after it was recorded, and no later attempt, crash or lost  *)
(* acknowledgement makes an answer false.                                  *)
(***************************************************************************)
AnswersMatchRow == \A a \in answers : Honoured(a)

(***************************************************************************)
(* A payment recorded as SUCCEEDED or FAILED is never written again, by no *)
(* late handler whose attempt was taken over meanwhile.                    *)
(***************************************************************************)
TerminalStable ==
    [][\A k \in Keys : rows[k].status \in Terminal => rows'[k] = rows[k]]_vars

(***************************************************************************)
(* A payment recorded as SUCCEEDED was accepted by the gateway of its row, *)
(* under the reference the row shows.                                      *)
(***************************************************************************)
SucceededWasCharged ==
    \A k \in Keys : rows[k].status = "SUCCEEDED" =>
        ledger[<<rows[k].gateway, k>>] = Provider!Accepted(rows[k].ref)

(***************************************************************************)
(* A payment recorded as FAILED was charged by no gateway, and is not      *)
(* charged later by a request that was still under way.                    *)
(***************************************************************************)
FailedMeansNotCharged ==
    \A k \in Keys, g \in Gateways :
        rows[k].status = "FAILED" => ledger[<<g, k>>].outcome # "ACCEPTED"

(***************************************************************************)
(* Whatever left the router for a provider was reserved first, and says    *)
(* what the reservation says: every attempt for a key, by any handler,     *)
(* carries the payload of the row and goes to the gateway of the row.      *)
(***************************************************************************)
ChargedAsReserved ==
    \A m \in sent : /\ rows[m.key].status # "NONE"
                    /\ rows[m.key].payload = m.payload
                    /\ rows[m.key].gateway = m.gateway

(***************************************************************************)
(* However often a payment is requested, retried and recovered, at most    *)
(* one gateway charges it (each one at most once, by ChargeLedger).        *)
(***************************************************************************)
AtMostOneCharge ==
    \A k \in Keys, g1, g2 \in Gateways :
        ledger[<<g1, k>>].outcome = "ACCEPTED" /\ ledger[<<g2, k>>].outcome = "ACCEPTED"
            => g1 = g2

(***************************************************************************)
(* A handler that still holds its lock always finds its lease when it      *)
(* records the result: the compare-and-set of persistResultConn turns away *)
(* nobody but handlers that have lost their session.                       *)
(***************************************************************************)
HolderKeepsLease ==
    \A h \in Handlers :
        pc[h] \in {"charge", "calling", "persist"} /\ Session(h) => LeaseHeld(h)

(***************************************************************************)
(* If recovery waits longer than an attempt can last, a provider never has *)
(* two calls of one payment at the same time, even when the database ended *)
(* the session of the first attempt and its lock with it.                  *)
(***************************************************************************)
OneCallInFlight ==
    \A h1, h2 \in Handlers :
        pc[h1] = "calling" /\ pc[h2] = "calling" /\ req[h1].key = req[h2].key
            => h1 = h2

\* The table as the router's callers see it.
Payments ==
    [k \in Keys |-> [id |-> rows[k].id, payload |-> rows[k].payload,
                     status |-> rows[k].status, gateway |-> rows[k].gateway,
                     ref |-> rows[k].ref]]

View == INSTANCE PaymentLedger WITH payments <- Payments

(***************************************************************************)
(* The router implements the contract its callers rely on: whatever        *)
(* handlers, failures and recoveries do, a key gets one request, one id    *)
(* and one gateway, and its payment is settled at most once.               *)
(***************************************************************************)
ImplementsPayments == View!Spec

------------------------------------------------------------------------------
(***************************************************************************)
(* Liveness, under FairSpec.                                               *)
(***************************************************************************)
(***************************************************************************)
(* Every request comes to an end: handlers that wait for each other's lock *)
(* while they occupy the connection pool never keep the holder from        *)
(* recording its result and releasing the lock.                            *)
(***************************************************************************)
RequestEnds == \A h \in Handlers : pc[h] # "idle" ~> pc[h] = "idle"

(***************************************************************************)
(* A payment that is PENDING, after whatever failure, is eventually        *)
(* SUCCEEDED or FAILED if its request is repeated.                         *)
(***************************************************************************)
PendingResolves ==
    \A k \in Keys : rows[k].status = "PENDING" ~> rows[k].status \in Terminal
=============================================================================
