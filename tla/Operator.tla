------------------------------- MODULE Operator -------------------------------
(***************************************************************************)
(* The payment operator (cmd/payment-operator): POST and GET /v1/payments  *)
(* over the table orders.                                                  *)
(*                                                                         *)
(* A create handler runs in one transaction that holds a lock on the       *)
(* idempotency key.  Inside it the handler looks the order up and either   *)
(* replays it, reading the payment from the router and repeating the       *)
(* router's stored request while it is PENDING, or resolves both           *)
(* participants, posts the payment to the router and inserts the order.    *)
(* get reads an order, reads the payment from the router and writes it     *)
(* over the order without a lock.                                          *)
(*                                                                         *)
(* One step is one statement or one call.  The router is the contract      *)
(* PaymentLedger: it may process a request after its caller gave up, and   *)
(* works on a payment only when a request asks for it.  The order is       *)
(* written in the step that commits, and the answer belongs to that step.  *)
(***************************************************************************)
EXTENDS Participants, FiniteSets

CONSTANTS
    Handlers,       \* requests being served at once
    Keys,           \* idempotency keys
    Requests,       \* public bodies: debtor, creditor and amount
    Ids,            \* payment ids the router may draw
    Refs,           \* references of accepted charges
    None,           \* SQL NULL, no holder, nothing yet
    HashText,       \* PostgreSQL's hashtext
    PoolSize,       \* SetMaxOpenConns
    MaxFaults       \* bound: failures of any kind

Gateways == {"gateway-card", "gateway-bank"}
Statuses == {"PENDING", "SUCCEEDED", "FAILED"}
Terminal == {"SUCCEEDED", "FAILED"}
Locks == {HashText[k] : k \in Keys}

\* RouterPaymentRequest
Payloads == [request : Requests, instrument : Instruments]

ASSUME OperatorAssumption ==
    /\ IsFiniteSet(Handlers)
    /\ None \notin Handlers /\ None \notin Keys /\ None \notin Requests
    /\ None \notin Ids /\ None \notin Refs /\ None \notin Gateways
    /\ None \notin Payloads
    /\ \A q \in Requests : q.debtor \in Parties /\ q.creditor \in Parties
    /\ DOMAIN HashText = Keys
    /\ PoolSize \in Nat \ {0}
    /\ MaxFaults \in Nat

VARIABLES
    orders,     \* table orders by idempotency_key
    lock,       \* holder of each transaction advisory lock
    pc,         \* where each handler is
    req,        \* its key and public request
    debtor,     \* the debtor's participant record as looked up
    internal,   \* the request it sends to the router
    out,        \* the PaymentResponse it is working on
    posted,     \* posts to the router under way
    payments,   \* the router's payments
    charging,   \* payments the router is working on
    answers,    \* every payment reported to a client so far
    known,      \* for each key the rows every participant has had since a client
                \* first asked for it (history, no part of the code)
    faults      \* failures so far

partyVars == <<participantVars, known>>
routerVars == <<posted, payments, charging>>
local == <<pc, req, debtor, internal, out>>
vars == <<orders, lock, local, routerVars, answers, faults, partyVars>>

Router == INSTANCE PaymentLedger

CreatePcs == {"lock", "lookup", "debtor", "creditor", "post", "insert", "fetch",
              "retry", "update"}
Pcs == {"idle", "begin", "getfetch", "getupdate"} \cup CreatePcs

NoOrder == [id |-> None, request |-> None, payment |-> None, status |-> "NONE",
            gateway |-> None, ref |-> None]
NoRequest == [key |-> None, request |-> None]
NoResponse == [id |-> None, status |-> "NONE", gateway |-> None, ref |-> None]

Responses == [id : Ids \cup {None}, status : Statuses \cup {"NONE"},
              gateway : Gateways \cup {None}, ref : Refs \cup {None}]

TypeOK ==
    /\ ParticipantsTypeOK
    /\ known \in [Keys -> [Parties -> SUBSET (Participant \cup {NoParticipant})]]
    /\ orders \in [Keys -> [id : Ids \cup {None}, request : Requests \cup {None},
                            payment : Ids \cup {None}, status : Statuses \cup {"NONE"},
                            gateway : Gateways \cup {None}, ref : Refs \cup {None}]]
    /\ lock \in [Locks -> Handlers \cup {None}]
    /\ pc \in [Handlers -> Pcs]
    /\ req \in [Handlers -> [key : Keys \cup {None}, request : Requests \cup {None}]]
    /\ debtor \in [Handlers -> Participant \cup {NoParticipant}]
    /\ internal \in [Handlers -> Payloads \cup {None}]
    /\ out \in [Handlers -> Responses]
    /\ posted \subseteq [by : Handlers, key : Keys, payload : Payloads]
    /\ payments \in [Keys -> [id : Ids \cup {None}, payload : Payloads \cup {None},
                              status : Statuses \cup {"NONE"},
                              gateway : Gateways \cup {None}, ref : Refs \cup {None}]]
    /\ charging \subseteq Keys
    /\ answers \subseteq [key : Keys, request : Requests \cup {None}, id : Ids,
                          status : Statuses, gateway : Gateways, ref : Refs \cup {None}]
    /\ faults \in 0..MaxFaults

Init ==
    /\ ParticipantsInit
    /\ known = [k \in Keys |-> [p \in Parties |-> {}]]
    /\ orders = [k \in Keys |-> NoOrder]
    /\ lock = [l \in Locks |-> None]
    /\ pc = [h \in Handlers |-> "idle"]
    /\ req = [h \in Handlers |-> NoRequest]
    /\ debtor = [h \in Handlers |-> NoParticipant]
    /\ internal = [h \in Handlers |-> None]
    /\ out = [h \in Handlers |-> NoResponse]
    /\ posted = {}
    /\ Router!Init
    /\ charging = {}
    /\ answers = {}
    /\ faults = 0

------------------------------------------------------------------------------

\* ValidateRequest, on the fields the model keeps.
ValidateRequest(q) == q.amount > 0

\* hasRole
HasRole(p, role) == role \in p.roles

\* h's transaction is alive and holds the lock of its key.
Session(h) == req[h].key # None /\ lock[HashText[req[h].key]] = h

Order(h) == orders[req[h].key]
Payment(h) == payments[req[h].key]

\* Connections in use: one per create handler from BeginTx to the end.
InUse == {h \in Handlers : pc[h] \in CreatePcs}
Connection == Cardinality(InUse) < PoolSize

Fault == faults < MaxFaults /\ faults' = faults + 1

Goto(h, label) == pc' = [pc EXCEPT ![h] = label]

\* The handler returns; a transaction that is open ends, and its lock with it.
Return(h) ==
    /\ Goto(h, "idle")
    /\ req' = [req EXCEPT ![h] = NoRequest]
    /\ debtor' = [debtor EXCEPT ![h] = NoParticipant]
    /\ internal' = [internal EXCEPT ![h] = None]
    /\ out' = [out EXCEPT ![h] = NoResponse]
    /\ lock' = [l \in Locks |-> IF lock[l] = h THEN None ELSE lock[l]]

\* The payment o is reported to the client of h.
Answer(h, o) ==
    answers' = answers \cup
        {[key |-> req[h].key, request |-> req[h].request, id |-> o.id,
          status |-> o.status, gateway |-> o.gateway, ref |-> o.ref]}

\* What the router shows of payment p.
Shown(p) == [id |-> p.id, status |-> p.status, gateway |-> p.gateway, ref |-> p.ref]

\* What the router may answer to a post for payment p: its state, or PENDING
\* for a result the router could not record.
RouterAnswers(p) ==
    {Shown(p)} \cup {[id |-> p.id, status |-> "PENDING", gateway |-> p.gateway, ref |-> r] :
                       r \in Refs \cup {None}}

\* The post of h has reached the router.
Delivered(h) ==
    [by |-> h, key |-> req[h].key, payload |-> internal[h]] \notin posted

\* h posts the payload p to the router under its key.
Post(h, p) ==
    /\ internal' = [internal EXCEPT ![h] = p]
    /\ posted' = posted \cup {[by |-> h, key |-> req[h].key, payload |-> p]}

\* INSERT INTO orders.  The key is UNIQUE, but whoever inserts still has the lock
\* under which it found no order.
InsertOrder(h) ==
    orders' = [orders EXCEPT ![req[h].key] =
                 [id |-> out[h].id, request |-> req[h].request,
                  payment |-> out[h].id, status |-> out[h].status,
                  gateway |-> out[h].gateway, ref |-> out[h].ref]]

\* updateOrderTx
UpdateOrder(h) ==
    orders' = [orders EXCEPT ![req[h].key].payment = out[h].id,
                             ![req[h].key].status = out[h].status,
                             ![req[h].key].gateway = out[h].gateway,
                             ![req[h].key].ref = out[h].ref]

\* The UPDATE of get.
OverwriteOrder(h) ==
    orders' = [orders EXCEPT ![req[h].key].status = out[h].status,
                             ![req[h].key].gateway = out[h].gateway,
                             ![req[h].key].ref = out[h].ref]

------------------------------------------------------------------------------
(***************************************************************************)
(* Variants of steps below, each with a mistake that is easy to make in    *)
(* this code; no part of the specification.                                *)
(***************************************************************************)
\* A settled order is reported whatever the request says.
LookupSettledAnyRequest(h) ==
    /\ pc[h] = "lookup" /\ Session(h)
    /\ Order(h).status \in Terminal
    /\ Answer(h, Shown(Order(h)))
    /\ Return(h)
    /\ UNCHANGED <<orders, routerVars, faults, partyVars>>

\* A PENDING payment is only read, its request is not repeated.
FetchPendingOnly(h) ==
    /\ pc[h] = "fetch"
    /\ \E k \in Keys :
          /\ payments[k].id = out[h].id
          /\ payments[k].status = "PENDING"
          /\ out' = [out EXCEPT ![h] = Shown(payments[k])]
    /\ Goto(h, "update")
    /\ UNCHANGED <<orders, lock, req, debtor, internal, routerVars, answers, faults,
                   partyVars>>

\* A failed repetition fails the order.
RetryFailsForGood(h) ==
    /\ pc[h] = "retry"
    /\ Fault
    /\ out' = [out EXCEPT ![h].status = "FAILED"]
    /\ Goto(h, "update")
    /\ UNCHANGED <<orders, lock, req, debtor, internal, routerVars, answers,
                   partyVars>>

\* The order is updated over a second connection of the pool.
UpdateFromPool(h) ==
    /\ pc[h] = "update" /\ Session(h)
    /\ Connection
    /\ UpdateOrder(h)
    /\ Answer(h, out[h])
    /\ Return(h)
    /\ UNCHANGED <<routerVars, faults, partyVars>>

\* The debtor's role is checked on the record that was looked up, its instrument
\* is read once more.
LookupCreditorRereads(h) ==
    /\ pc[h] = "creditor"
    /\ Served(req[h].request.creditor)
    /\ HasRole(debtor[h], "debtor")
    /\ HasRole(participants[req[h].request.creditor], "creditor")
    /\ Post(h, [request |-> req[h].request,
                instrument |-> participants[req[h].request.debtor].instrument])
    /\ Goto(h, "post")
    /\ UNCHANGED <<orders, lock, req, debtor, out, payments, charging, answers,
                   faults, partyVars>>

------------------------------------------------------------------------------
(***************************************************************************)
(* create: the transaction, its lock and the lookup of the order.          *)
(***************************************************************************)
\* A valid request arrives; an invalid one is answered 400.
Receive(h, k, q) ==
    /\ pc[h] = "idle"
    /\ ValidateRequest(q)
    /\ req' = [req EXCEPT ![h] = [key |-> k, request |-> q]]
    /\ Goto(h, "begin")
    /\ known' = [known EXCEPT ![k] = [p \in Parties |-> @[p] \cup {participants[p]}]]
    /\ UNCHANGED <<orders, lock, debtor, internal, out, routerVars, answers, faults,
                   participantVars>>

\* BeginTx takes a connection of the pool.
Begin(h) ==
    /\ pc[h] = "begin"
    /\ Connection
    /\ Goto(h, "lock")
    /\ UNCHANGED <<orders, lock, req, debtor, internal, out, routerVars, answers,
                   faults, partyVars>>

\* pg_advisory_xact_lock(hashtext(key))
AcquireLock(h) ==
    /\ pc[h] = "lock"
    /\ lock[HashText[req[h].key]] = None
    /\ lock' = [lock EXCEPT ![HashText[req[h].key]] = h]
    /\ Goto(h, "lookup")
    /\ UNCHANGED <<orders, req, debtor, internal, out, routerVars, answers, faults,
                   partyVars>>

\* The key was used with another request: 409.
LookupConflict(h) ==
    /\ pc[h] = "lookup" /\ Session(h)
    /\ Order(h) # NoOrder
    /\ Order(h).request # req[h].request
    /\ Return(h)
    /\ UNCHANGED <<orders, routerVars, answers, faults, partyVars>>

\* The order is settled: it is reported as it is.
LookupSettled(h) ==
    /\ pc[h] = "lookup" /\ Session(h)
    /\ Order(h).request = req[h].request
    /\ Order(h).status \in Terminal
    /\ Answer(h, Shown(Order(h)))
    /\ Return(h)
    /\ UNCHANGED <<orders, routerVars, faults, partyVars>>

\* The order is PENDING: the router is asked.
LookupPending(h) ==
    /\ pc[h] = "lookup" /\ Session(h)
    /\ Order(h).request = req[h].request
    /\ Order(h).status = "PENDING"
    /\ out' = [out EXCEPT ![h] = Shown(Order(h))]
    /\ Goto(h, "fetch")
    /\ UNCHANGED <<orders, lock, req, debtor, internal, routerVars, answers, faults,
                   partyVars>>

\* No order: a new payment.
LookupMiss(h) ==
    /\ pc[h] = "lookup" /\ Session(h)
    /\ Order(h) = NoOrder
    /\ Goto(h, "debtor")
    /\ UNCHANGED <<orders, lock, req, debtor, internal, out, routerVars, answers,
                   faults, partyVars>>

------------------------------------------------------------------------------
(***************************************************************************)
(* create: replay of a PENDING order.                                      *)
(***************************************************************************)
\* fetchRouter finds the payment settled.
FetchSettled(h) ==
    /\ pc[h] = "fetch"
    /\ \E k \in Keys :
          /\ payments[k].id = out[h].id
          /\ payments[k].status \in Terminal
          /\ out' = [out EXCEPT ![h] = Shown(payments[k])]
    /\ Goto(h, "update")
    /\ UNCHANGED <<orders, lock, req, debtor, internal, routerVars, answers, faults,
                   partyVars>>

\* fetchRouter finds it PENDING: retryPending posts the router's own record of
\* the request once more.
FetchPending(h) ==
    /\ pc[h] = "fetch"
    /\ \E k \in Keys :
          /\ payments[k].id = out[h].id
          /\ payments[k].status = "PENDING"
          /\ out' = [out EXCEPT ![h] = Shown(payments[k])]
          /\ Post(h, payments[k].payload)
    /\ Goto(h, "retry")
    /\ UNCHANGED <<orders, lock, req, debtor, payments, charging, answers, faults,
                   partyVars>>

\* fetchRouter fails: the order is reported as it is, if the empty transaction
\* still commits.
FetchFails(h) ==
    /\ pc[h] = "fetch"
    /\ Fault
    /\ IF Session(h) THEN Answer(h, out[h]) ELSE UNCHANGED answers
    /\ Return(h)
    /\ UNCHANGED <<orders, routerVars, partyVars>>

\* The router answers the repeated request.
RetryAnswered(h) ==
    /\ pc[h] = "retry"
    /\ Delivered(h)
    /\ Payment(h).payload = internal[h]
    /\ \E o \in RouterAnswers(Payment(h)) : out' = [out EXCEPT ![h] = o]
    /\ Goto(h, "update")
    /\ UNCHANGED <<orders, lock, req, debtor, internal, routerVars, answers, faults,
                   partyVars>>

\* retryPending fails: what fetchRouter found is kept.
RetryFails(h) ==
    /\ pc[h] = "retry"
    /\ Fault
    /\ Goto(h, "update")
    /\ UNCHANGED <<orders, lock, req, debtor, internal, out, routerVars, answers,
                   partyVars>>

\* updateOrderTx and the COMMIT.
Update(h) ==
    /\ pc[h] = "update" /\ Session(h)
    /\ UpdateOrder(h)
    /\ Answer(h, out[h])
    /\ Return(h)
    /\ UNCHANGED <<routerVars, faults, partyVars>>

------------------------------------------------------------------------------
(***************************************************************************)
(* create: a new payment.                                                  *)
(***************************************************************************)
\* The debtor's record is read.
LookupDebtor(h) ==
    /\ pc[h] = "debtor"
    /\ Served(req[h].request.debtor)
    /\ debtor' = [debtor EXCEPT ![h] = participants[req[h].request.debtor]]
    /\ Goto(h, "creditor")
    /\ UNCHANGED <<orders, lock, req, internal, out, routerVars, answers, faults,
                   partyVars>>

\* The creditor's record is read, both roles are checked and the payment is
\* posted with the debtor's instrument.
LookupCreditor(h) ==
    /\ pc[h] = "creditor"
    /\ Served(req[h].request.creditor)
    /\ HasRole(debtor[h], "debtor")
    /\ HasRole(participants[req[h].request.creditor], "creditor")
    /\ Post(h, [request |-> req[h].request, instrument |-> debtor[h].instrument])
    /\ Goto(h, "post")
    /\ UNCHANGED <<orders, lock, req, debtor, out, payments, charging, answers,
                   faults, partyVars>>

\* A participant is unknown or inactive (503), or lacks its role (403).
Refuse(h) ==
    /\ \/ pc[h] = "debtor" /\ ~Served(req[h].request.debtor)
       \/ pc[h] = "creditor" /\ ~Served(req[h].request.creditor)
       \/ /\ pc[h] = "creditor" /\ Served(req[h].request.creditor)
          /\ \/ ~HasRole(debtor[h], "debtor")
             \/ ~HasRole(participants[req[h].request.creditor], "creditor")
    /\ Return(h)
    /\ UNCHANGED <<orders, routerVars, answers, faults, partyVars>>

\* The router answers with the payment.
PostAnswered(h) ==
    /\ pc[h] = "post"
    /\ Delivered(h)
    /\ Payment(h).payload = internal[h]
    /\ \E o \in RouterAnswers(Payment(h)) : out' = [out EXCEPT ![h] = o]
    /\ Goto(h, "insert")
    /\ UNCHANGED <<orders, lock, req, debtor, internal, routerVars, answers, faults,
                   partyVars>>

\* The router answers without a payment, because the key has another payload or
\* the request failed: 502.
PostRefused(h) ==
    /\ pc[h] = "post"
    /\ Delivered(h)
    /\ Payment(h).payload # internal[h]
    /\ Return(h)
    /\ UNCHANGED <<orders, routerVars, answers, faults, partyVars>>

\* INSERT and COMMIT.
Insert(h) ==
    /\ pc[h] = "insert" /\ Session(h)
    /\ InsertOrder(h)
    /\ Answer(h, out[h])
    /\ Return(h)
    /\ UNCHANGED <<routerVars, faults, partyVars>>
------------------------------------------------------------------------------
(***************************************************************************)
(* create: failures.                                                       *)
(***************************************************************************)
\* A statement or a call fails, the client goes away, or the process dies: the
\* transaction is rolled back.  A post that was sent stays under way.
Abandon(h) ==
    /\ pc[h] # "idle"
    /\ Fault
    /\ Return(h)
    /\ UNCHANGED <<orders, routerVars, answers, partyVars>>

\* The database ends the transaction of h; the handler may be waiting for the
\* router and notices nothing.
SessionLost(h) ==
    /\ Session(h)
    /\ Fault
    /\ lock' = [lock EXCEPT ![HashText[req[h].key]] = None]
    /\ UNCHANGED <<orders, local, routerVars, answers, partyVars>>

\* The next statement finds the transaction gone.
SessionMissed(h) ==
    /\ pc[h] \in {"lookup", "update", "insert"}
    /\ ~Session(h)
    /\ Return(h)
    /\ UNCHANGED <<orders, routerVars, answers, faults, partyVars>>

\* The COMMIT is applied but its acknowledgement is lost: 500.
CommitUnacknowledged(h) ==
    /\ pc[h] \in {"update", "insert"} /\ Session(h)
    /\ Fault
    /\ IF pc[h] = "insert" THEN InsertOrder(h) ELSE UpdateOrder(h)
    /\ Return(h)
    /\ UNCHANGED <<routerVars, answers, partyVars>>

------------------------------------------------------------------------------
(***************************************************************************)
(* get.                                                                    *)
(***************************************************************************)
\* GET /v1/payments/{id}: the order is read.
GetLookup(h, k) ==
    /\ pc[h] = "idle"
    /\ Connection
    /\ orders[k] # NoOrder
    /\ req' = [req EXCEPT ![h] = [key |-> k, request |-> None]]
    /\ out' = [out EXCEPT ![h] =
                 [id |-> orders[k].payment, status |-> orders[k].status,
                  gateway |-> orders[k].gateway, ref |-> orders[k].ref]]
    /\ Goto(h, "getfetch")
    /\ UNCHANGED <<orders, lock, debtor, internal, routerVars, answers, faults,
                   partyVars>>

\* fetchRouter
GetFetch(h) ==
    /\ pc[h] = "getfetch"
    /\ \E k \in Keys : /\ payments[k].id = out[h].id
                       /\ out' = [out EXCEPT ![h] = Shown(payments[k])]
    /\ Goto(h, "getupdate")
    /\ UNCHANGED <<orders, lock, req, debtor, internal, routerVars, answers, faults,
                   partyVars>>

\* fetchRouter fails: the order is reported as it was read.
GetFetchFails(h) ==
    /\ pc[h] = "getfetch"
    /\ Fault
    /\ Answer(h, out[h])
    /\ Return(h)
    /\ UNCHANGED <<orders, routerVars, partyVars>>

\* The order is overwritten with what the router said, however long ago.
GetUpdate(h) ==
    /\ pc[h] = "getupdate"
    /\ Connection
    /\ OverwriteOrder(h)
    /\ Answer(h, out[h])
    /\ Return(h)
    /\ UNCHANGED <<routerVars, faults, partyVars>>

\* The UPDATE fails: the router's word is reported all the same.
GetUpdateFails(h) ==
    /\ pc[h] = "getupdate"
    /\ Fault
    /\ Answer(h, out[h])
    /\ Return(h)
    /\ UNCHANGED <<orders, routerVars, partyVars>>

------------------------------------------------------------------------------
(***************************************************************************)
(* The router, as PaymentLedger promises.                                  *)
(***************************************************************************)
GatewayFor(instrument) ==
    IF instrument = "bank_transfer" THEN "gateway-bank" ELSE "gateway-card"

routerCallers == <<orders, lock, local, answers, partyVars>>

\* A post with a new key: the payment is reserved and worked on.
RouterReserves(m, id) ==
    /\ Router!Reserve(m.key, m.payload, id, GatewayFor(m.payload.instrument))
    /\ posted' = posted \ {m}
    /\ charging' = charging \cup {m.key}
    /\ UNCHANGED <<routerCallers, faults>>

\* A post that repeats a PENDING payment old enough to be recovered.
RouterRecovers(m) ==
    /\ payments[m.key].status = "PENDING"
    /\ payments[m.key].payload = m.payload
    /\ posted' = posted \ {m}
    /\ charging' = charging \cup {m.key}
    /\ UNCHANGED <<routerCallers, payments, faults>>

\* Any other post with a known key changes nothing: the payment is settled, is
\* not old enough, or has another payload.
RouterPasses(m) ==
    /\ payments[m.key].status # "NONE"
    /\ posted' = posted \ {m}
    /\ UNCHANGED <<routerCallers, payments, charging, faults>>

\* A post is lost or answered 500.
RouterDrops(m) ==
    /\ Fault
    /\ posted' = posted \ {m}
    /\ UNCHANGED <<routerCallers, payments, charging>>

\* The work on a payment ends with a result.
RouterSettles(k, s) ==
    /\ k \in charging
    /\ Router!Settle(k, s)
    /\ charging' = charging \ {k}
    /\ UNCHANGED <<routerCallers, posted, faults>>

\* The work on a payment ends without one.
RouterGivesUp(k) ==
    /\ k \in charging
    /\ Fault
    /\ charging' = charging \ {k}
    /\ UNCHANGED <<routerCallers, posted, payments>>

------------------------------------------------------------------------------

\* The participant manager takes a step; the history of the keys in use follows.
ParticipantsChange ==
    /\ ParticipantsNext
    /\ known' = [k \in Keys |-> [p \in Parties |->
                   IF known[k][p] = {} THEN {} ELSE known[k][p] \cup {participants'[p]}]]
    /\ UNCHANGED <<orders, lock, local, routerVars, answers, faults>>

\* The steps a handler takes by itself.
Handle(h) ==
    \/ LookupConflict(h) \/ LookupSettled(h) \/ LookupPending(h) \/ LookupMiss(h)
    \/ FetchSettled(h) \/ FetchPending(h) \/ RetryAnswered(h) \/ Update(h)
    \/ LookupDebtor(h) \/ LookupCreditor(h) \/ Refuse(h)
    \/ PostAnswered(h) \/ PostRefused(h) \/ Insert(h)
    \/ SessionMissed(h) \/ GetFetch(h)

Fail(h) ==
    \/ Abandon(h) \/ SessionLost(h) \/ CommitUnacknowledged(h)
    \/ FetchFails(h) \/ RetryFails(h) \/ GetFetchFails(h) \/ GetUpdateFails(h)

\* A post reaches the router.
Deliver ==
    \E m \in posted :
        \/ \E id \in Ids : RouterReserves(m, id)
        \/ RouterRecovers(m)
        \/ RouterPasses(m)

Recover(k) == \E m \in posted : m.key = k /\ RouterRecovers(m)
RouterSettle(k) == \E s \in Router!Settlements : RouterSettles(k, s)

Next ==
    \/ \E h \in Handlers :
          \/ \E k \in Keys, q \in Requests : Receive(h, k, q)
          \/ \E k \in Keys : GetLookup(h, k)
          \/ Begin(h) \/ AcquireLock(h) \/ GetUpdate(h) \/ Handle(h) \/ Fail(h)
    \/ Deliver
    \/ \E m \in posted : RouterDrops(m)
    \/ \E k \in Keys : RouterSettle(k) \/ RouterGivesUp(k)
    \/ ParticipantsChange

Spec == Init /\ [][Next]_vars

\* A client repeats its request.
Retry(k) ==
    \E h \in Handlers, q \in Requests :
        /\ payments[k].status # "NONE"
        /\ payments[k].payload.request = q
        /\ Receive(h, k, q)

(***************************************************************************)
(* Handlers and the router keep running; a connection that stays free is   *)
(* taken; locks are granted in the order they are asked for; a client      *)
(* repeats its request; posts that repeat a PENDING payment do not always  *)
(* come before its recovery time.                                          *)
(***************************************************************************)
Fairness ==
    /\ \A h \in Handlers : /\ WF_vars(Handle(h))
                           /\ WF_vars(Begin(h))
                           /\ WF_vars(GetUpdate(h))
                           /\ SF_vars(AcquireLock(h))
    /\ WF_vars(Deliver)
    /\ \A k \in Keys : /\ WF_vars(RouterSettle(k))
                       /\ SF_vars(Recover(k))
                       /\ SF_vars(Retry(k))

FairSpec == Spec /\ Fairness

------------------------------------------------------------------------------
(***************************************************************************)
(* Properties.                                                             *)
(***************************************************************************)
\* The report of status and reference agrees with payment p.
Agrees(p, status, ref) ==
    status \in Terminal => p.status = status /\ p.ref = ref

(***************************************************************************)
(* An order never says more than the router: it names the payment and the  *)
(* request the router has for its key, and a settled order shows what the  *)
(* router settled.  (It may be behind: get can put an older state back.)   *)
(***************************************************************************)
OrdersTellTruth ==
    \A k \in Keys : orders[k] # NoOrder =>
        /\ orders[k].id = payments[k].id
        /\ orders[k].payment = payments[k].id
        /\ orders[k].request = payments[k].payload.request
        /\ orders[k].gateway = payments[k].gateway
        /\ Agrees(payments[k], orders[k].status, orders[k].ref)

(***************************************************************************)
(* Every answer a client has ever got is about its own request, has an     *)
(* order that a later GET will find, and, if definite, is what the router  *)
(* has settled for good.                                                   *)
(***************************************************************************)
AnswersAreTrue ==
    \A a \in answers :
        /\ orders[a.key].id = a.id
        /\ a.request # None => a.request = payments[a.key].payload.request
        /\ a.gateway = payments[a.key].gateway
        /\ Agrees(payments[a.key], a.status, a.ref)

\* Since a client first asked for key k, one record of the debtor has shown it
\* active, a debtor and with the instrument of the internal request p, and one of
\* the creditor has shown it active and a creditor.
Authorised(k, p) ==
    /\ \E r \in known[k][p.request.debtor] :
          r.active /\ "debtor" \in r.roles /\ r.instrument = p.instrument
    /\ \E r \in known[k][p.request.creditor] : r.active /\ "creditor" \in r.roles

(***************************************************************************)
(* A change of the participants between the lookups, or between them and   *)
(* the router, makes no payment that nobody could have asked for.  The     *)
(* instrument, activity and role of the debtor of every payment were those *)
(* of one record, not of two that followed each other; and the records     *)
(* were in force since a client first asked for the payment: one who was   *)
(* inactive or had lost its role by then, and stays so, never pays or is   *)
(* paid.  This includes posts that arrive late or are repeated.            *)
(***************************************************************************)
AuthorisedPayments ==
    \A k \in Keys : payments[k].status # "NONE" => Authorised(k, payments[k].payload)

(***************************************************************************)
(* A client that repeats a payment with the same key and content makes the *)
(* operator send the router the internal request the router has stored,    *)
(* whatever has happened to the participants since.                        *)
(***************************************************************************)
ReplayUsesFrozenRequest ==
    \A h \in Handlers :
        /\ pc[h] = "post"
        /\ Payment(h).status # "NONE"
        /\ Payment(h).payload.request = req[h].request
        => internal[h] = Payment(h).payload

(***************************************************************************)
(* Every request ends: handlers that wait for a lock while they occupy the *)
(* pool never keep the lock holder from finishing.                         *)
(***************************************************************************)
RequestEnds == \A h \in Handlers : pc[h] # "idle" ~> pc[h] = "idle"

(***************************************************************************)
(* As long as participants do not change, a client that repeats its        *)
(* request after any failure, the loss of the order included, ends with a  *)
(* settled order.                                                          *)
(***************************************************************************)
PendingSettles ==
    \A k \in Keys : payments[k].status = "PENDING" ~> orders[k].status \in Terminal
=============================================================================
