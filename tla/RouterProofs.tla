---------------------------- MODULE RouterProofs ----------------------------
(***************************************************************************)
(* Proofs about the payment router, for any set of handlers, keys,         *)
(* payloads, any hash of keys to locks, any pool, recovery delay and       *)
(* number of failures.                                                     *)
(***************************************************************************)
EXTENDS Router, TLAPS

\* The places where a handler knows which payment it works for.
Bound == {"claim", "charge", "calling", "persist", "reply"}

\* What the fields that may be None hold where they are used.
HandlerShape ==
    \A h \in Handlers :
        /\ pc[h] # "idle" => req[h].key \in Keys /\ req[h].payload \in Payloads
        /\ pc[h] \in Bound => target[h].id \in Ids /\ target[h].gateway \in Gateways
        /\ pc[h] \in {"persist", "reply"} => result[h].status \in Statuses

RowShape ==
    \A k \in Keys :
        /\ rows[k].status # "NONE" => /\ rows[k].id \in Ids
                                      /\ rows[k].payload \in Payloads
                                      /\ rows[k].gateway \in Gateways
        /\ rows[k].status = "NONE" => rows[k].id = None

Shape == HandlerShape /\ RowShape

\* An UPDATE of a PENDING row keeps the shape of the table.
LEMMA UpdateKeepsShape ==
  ASSUME RowShape, NEW q \in Keys, rows[q].status = "PENDING",
         rows'[q].id = rows[q].id, rows'[q].payload = rows[q].payload,
         rows'[q].gateway = rows[q].gateway, rows'[q].status # "NONE",
         \A k \in Keys : k # q => rows'[k] = rows[k]
  PROVE  RowShape'
  BY DEF RowShape

LEMMA InitTypes == Init => TypeOK /\ Shape
<1> SUFFICES ASSUME Init PROVE TypeOK /\ Shape
  OBVIOUS
<1> USE RouterAssumption DEF RouterAssumption
<1>1. rows \in [Keys -> [id : Ids \cup {None}, payload : Payloads \cup {None},
                         status : Statuses \cup {"NONE"},
                         gateway : Gateways \cup {None},
                         ref : Refs \cup {None}, updated : Nat]]
  BY DEF Init, NoRow
<1>2. /\ lock \in [Locks -> Handlers \cup {None}]
      /\ pc \in [Handlers -> Pcs]
      /\ req \in [Handlers -> [key : Keys \cup {None}, payload : Payloads \cup {None}]]
      /\ lease \in [Handlers -> Nat]
  BY DEF Init, Pcs, NoRequest
<1>3. /\ target \in [Handlers -> [id : Ids \cup {None}, gateway : Gateways \cup {None}]]
      /\ result \in [Handlers -> [status : Statuses \cup {"NONE"}, ref : Refs \cup {None}]]
  BY DEF Init, NoTarget, NoResult
<1>4. Provider!TypeOK
  BY DEF Init, Provider!Init, Provider!TypeOK
<1>5. TypeOK
  BY <1>1, <1>2, <1>3, <1>4 DEF Init, TypeOK
<1>6. Shape
  BY DEF Init, Shape, HandlerShape, RowShape, Bound, NoRow
<1> QED
  BY <1>5, <1>6

LEMMA ReleaseType ==
  ASSUME TypeOK, NEW h \in Handlers, ReleaseLock(h)
  PROVE  lock' \in [Locks -> Handlers \cup {None}]
  BY RouterAssumption DEF RouterAssumption, TypeOK, ReleaseLock, Session, Locks

LEMMA ReturnType ==
  ASSUME TypeOK, Shape, NEW h \in Handlers, Return(h), UNCHANGED rows
  PROVE  /\ pc' \in [Handlers -> Pcs]
         /\ req' \in [Handlers -> [key : Keys \cup {None},
                                   payload : Payloads \cup {None}]]
         /\ lease' \in [Handlers -> Nat]
         /\ target' \in [Handlers -> [id : Ids \cup {None},
                                      gateway : Gateways \cup {None}]]
         /\ result' \in [Handlers -> [status : Statuses \cup {"NONE"},
                                      ref : Refs \cup {None}]]
         /\ Shape'
  BY DEF TypeOK, Shape, HandlerShape, RowShape, Return, Goto, Pcs, NoRequest,
     NoTarget, NoResult, Bound

\* The table's rows, absent ones included.
Rows == [id : Ids \cup {None}, payload : Payloads \cup {None},
         status : Statuses \cup {"NONE"}, gateway : Gateways \cup {None},
         ref : Refs \cup {None}, updated : Nat]

\* Row r is row q with another status, reference or time.
SamePayment(r, q) == r.id = q.id /\ r.payload = q.payload /\ r.gateway = q.gateway

\* What the INSERT does to the table.
LEMMA InsertEffect ==
  ASSUME TypeOK, Shape, NEW h \in Handlers, pc[h] # "idle", NEW id \in Ids,
         InsertRow(h, id)
  PROVE  /\ rows' \in [Keys -> Rows]
         /\ rows'[req[h].key].id = id
         /\ rows'[req[h].key].payload = req[h].payload
         /\ rows'[req[h].key].gateway = GatewayFor(req[h].payload.instrument)
         /\ GatewayFor(req[h].payload.instrument) \in Gateways
         /\ rows'[req[h].key].status = "PENDING"
         /\ rows'[req[h].key].ref = None
         /\ rows'[req[h].key].updated = lease[h]
         /\ \A k \in Keys : k # req[h].key => rows'[k] = rows[k]
  BY DEF TypeOK, Shape, HandlerShape, RowShape, InsertRow, Rows, Statuses,
     GatewayFor, Gateways

\* What the claiming UPDATE does to the table.
LEMMA ClaimEffect ==
  ASSUME TypeOK, Shape, NEW h \in Handlers, pc[h] # "idle", ClaimRow(h)
  PROVE  /\ rows' \in [Keys -> Rows]
         /\ rows[req[h].key].status = "PENDING"
         /\ rows[req[h].key].id = target[h].id
         /\ SamePayment(rows'[req[h].key], rows[req[h].key])
         /\ rows'[req[h].key].status = "PENDING"
         /\ rows'[req[h].key].ref = rows[req[h].key].ref
         /\ rows'[req[h].key].updated = lease[h]
         /\ \A k \in Keys : k # req[h].key => rows'[k] = rows[k]
<1>1. req[h].key \in Keys /\ rows[req[h].key] \in Rows /\ lease[h] \in Nat
  BY DEF TypeOK, Shape, HandlerShape, RowShape, Rows
<1>2. rows' = [rows EXCEPT ![req[h].key] =
                 [rows[req[h].key] EXCEPT !.updated = lease[h]]]
  BY <1>1 DEF ClaimRow, TypeOK
<1>3. [rows[req[h].key] EXCEPT !.updated = lease[h]] \in Rows
  BY <1>1 DEF Rows
<1> QED
  BY <1>1, <1>2, <1>3 DEF ClaimRow, Row, TypeOK, Rows, SamePayment

\* What the UPDATE of persistResultConn does to the table.
LEMMA RecordEffect ==
  ASSUME TypeOK, Shape, NEW h \in Handlers, pc[h] = "persist", LeaseHeld(h),
         RecordResult(h)
  PROVE  /\ rows' \in [Keys -> Rows]
         /\ rows[req[h].key].status = "PENDING"
         /\ rows[req[h].key].id = target[h].id
         /\ SamePayment(rows'[req[h].key], rows[req[h].key])
         /\ rows'[req[h].key].status = result[h].status
         /\ rows'[req[h].key].ref = result[h].ref
         /\ rows'[req[h].key].updated = clock
         /\ \A k \in Keys : k # req[h].key => rows'[k] = rows[k]
<1>1. /\ req[h].key \in Keys /\ rows[req[h].key] \in Rows /\ clock \in Nat
      /\ result[h].status \in Statuses /\ result[h].ref \in Refs \cup {None}
  BY DEF TypeOK, Shape, HandlerShape, RowShape, Rows
<1> DEFINE row == [rows[req[h].key] EXCEPT !.status = result[h].status,
                                           !.ref = result[h].ref, !.updated = clock]
<1>2. rows' = [rows EXCEPT ![req[h].key] = row]
  BY <1>1 DEF RecordResult, TypeOK
<1>3. row \in Rows
  BY <1>1 DEF Rows
<1>4. /\ row.id = rows[req[h].key].id /\ row.payload = rows[req[h].key].payload
      /\ row.gateway = rows[req[h].key].gateway
      /\ row.status = result[h].status /\ row.ref = result[h].ref
      /\ row.updated = clock
  BY <1>1 DEF Rows
<1> HIDE DEF row
<1> QED
  BY <1>1, <1>2, <1>3, <1>4 DEF LeaseHeld, Row, TypeOK, Rows, SamePayment

\* What downgrading the reported status to PENDING does.
LEMMA DowngradeEffect ==
  ASSUME TypeOK, NEW h \in Handlers, result' = [result EXCEPT ![h].status = "PENDING"]
  PROVE  /\ result' \in [Handlers -> [status : Statuses \cup {"NONE"},
                                      ref : Refs \cup {None}]]
         /\ result'[h].status = "PENDING"
         /\ \A g \in Handlers : g # h => result'[g] = result[g]
<1>1. result' = [result EXCEPT ![h] = [result[h] EXCEPT !.status = "PENDING"]]
  BY DEF TypeOK
<1>2. /\ [result[h] EXCEPT !.status = "PENDING"] \in
            [status : Statuses \cup {"NONE"}, ref : Refs \cup {None}]
      /\ [result[h] EXCEPT !.status = "PENDING"].status = "PENDING"
  BY DEF TypeOK, Statuses
<1> QED
  BY <1>1, <1>2 DEF TypeOK

LEMMA NextTypes == TypeOK /\ Shape /\ [Next]_vars => (TypeOK /\ Shape)'
<1> SUFFICES ASSUME TypeOK, Shape, [Next]_vars PROVE (TypeOK /\ Shape)'
  OBVIOUS
<1> USE RouterAssumption DEF RouterAssumption
<1> DEFINE Inv == TypeOK /\ Shape
<1>1. ASSUME NEW h \in Handlers, NEW k \in Keys, NEW p \in Payloads, Receive(h, k, p)
      PROVE  Inv'
  BY <1>1 DEF Receive, Goto, TypeOK, Shape, HandlerShape, RowShape, Bound, Pcs,
     Provider!TypeOK
<1>2. ASSUME NEW h \in Handlers, Connect(h) PROVE Inv'
  BY <1>2 DEF Connect, Goto, TypeOK, Shape, HandlerShape, RowShape, Bound, Pcs,
     Provider!TypeOK
<1>3. ASSUME NEW h \in Handlers, ConnectFails(h) PROVE Inv'
  BY <1>3, ReturnType DEF ConnectFails, Fault, TypeOK, Provider!TypeOK
<1>4. ASSUME NEW h \in Handlers, AcquireLock(h) PROVE Inv'
  BY <1>4 DEF AcquireLock, Goto, TypeOK, Shape, HandlerShape, RowShape, Bound, Pcs,
     Locks, Provider!TypeOK
<1>5. ASSUME NEW h \in Handlers, LookupMiss(h) PROVE Inv'
  BY <1>5 DEF LookupMiss, Goto, TypeOK, Shape, HandlerShape, RowShape, Bound, Pcs,
     Provider!TypeOK
<1>6. ASSUME NEW h \in Handlers, LookupConflict(h) PROVE Inv'
  BY <1>6 DEF LookupConflict, Goto, TypeOK, Shape, HandlerShape, RowShape, Bound,
     Pcs, Provider!TypeOK
<1>7. ASSUME NEW h \in Handlers, LookupStale(h) PROVE Inv'
  BY <1>7 DEF LookupStale, Goto, Row, TypeOK, Shape, HandlerShape, RowShape, Bound,
     Pcs, Provider!TypeOK
<1>8. ASSUME NEW h \in Handlers, LookupAnswer(h) PROVE Inv'
  BY <1>8 DEF LookupAnswer, Goto, Row, TypeOK, Shape, HandlerShape, RowShape, Bound,
     Pcs, Statuses, Terminal, Provider!TypeOK
<1>9. ASSUME NEW h \in Handlers, Reserve(h) PROVE Inv'
  BY <1>9 DEF Reserve, InsertRow, GatewayFor, Gateways, Goto, TypeOK, Shape,
     HandlerShape, RowShape, Bound, Pcs, Statuses, Provider!TypeOK
<1>10. ASSUME NEW h \in Handlers, Claim(h) PROVE Inv'
  <2>1. /\ rows' \in [Keys -> Rows]
        /\ rows[req[h].key].status = "PENDING"
        /\ SamePayment(rows'[req[h].key], rows[req[h].key])
        /\ rows'[req[h].key].status = "PENDING"
        /\ \A k \in Keys : k # req[h].key => rows'[k] = rows[k]
    BY <1>10, ClaimEffect DEF Claim
  <2>2. TypeOK'
    BY <1>10, <2>1 DEF Claim, Rows, Goto, TypeOK, Pcs, Provider!TypeOK
  <2>3. Shape'
    <3>1. HandlerShape'
      BY <1>10 DEF Claim, Goto, TypeOK, Shape, HandlerShape, Bound
    <3>2. RowShape'
      BY <1>10, <2>1, UpdateKeepsShape DEF Claim, SamePayment, Shape, HandlerShape
    <3> QED
      BY <3>1, <3>2 DEF Shape
  <2> QED
    BY <2>2, <2>3
<1>11. ASSUME NEW h \in Handlers, CommitUnacknowledged(h) PROVE Inv'
  <2>1. /\ rows' \in [Keys -> Rows]
        /\ \A k \in Keys : rows'[k].status # "NONE" =>
              /\ rows'[k].id \in Ids
              /\ rows'[k].payload \in Payloads
              /\ rows'[k].gateway \in Gateways
        /\ \A k \in Keys : rows'[k].status = "NONE" => rows'[k].id = None
    <3>1. CASE pc[h] = "insert"
      BY <1>11, <3>1, InsertEffect DEF CommitUnacknowledged, Shape, HandlerShape,
         RowShape
    <3>2. CASE pc[h] = "claim"
      BY <1>11, <3>2, ClaimEffect DEF CommitUnacknowledged, Shape, HandlerShape,
         RowShape, SamePayment
    <3> QED
      BY <1>11, <3>1, <3>2 DEF CommitUnacknowledged
  <2> QED
    BY <1>11, <2>1, ReleaseType DEF CommitUnacknowledged, Fault, Goto, TypeOK, Shape,
       HandlerShape, RowShape, Bound, Pcs, Rows, Provider!TypeOK
<1>12. ASSUME NEW h \in Handlers, TransactionFails(h) PROVE Inv'
  BY <1>12 DEF TransactionFails, Fault, Goto, TypeOK, Shape, HandlerShape, RowShape,
     Bound, Pcs, Provider!TypeOK
<1>13. ASSUME NEW h \in Handlers, CallNotMade(h) PROVE Inv'
  BY <1>13 DEF CallNotMade, Fault, Pending, Goto, TypeOK, Shape, HandlerShape,
     RowShape, Bound, Pcs, Statuses, Provider!TypeOK
<1>14. ASSUME NEW h \in Handlers, CallRefused(h) PROVE Inv'
  BY <1>14 DEF CallRefused, Goto, TypeOK, Shape, HandlerShape, RowShape, Bound, Pcs,
     Statuses, Provider!TypeOK
<1>15. ASSUME NEW h \in Handlers, CallProvider(h) PROVE Inv'
  BY <1>15 DEF CallProvider, Goto, TypeOK, Shape, HandlerShape, RowShape, Bound, Pcs,
     Provider!TypeOK
<1>16. ASSUME NEW m \in sent, NEW o \in Provider!Outcomes, SettleCall(m, o) PROVE Inv'
  BY <1>16 DEF SettleCall, Provider!Settle, TypeOK, Shape, HandlerShape, RowShape,
     Bound, Provider!TypeOK
<1>17. ASSUME NEW h \in Handlers, ProviderAnswers(h) PROVE Inv'
  BY <1>17 DEF ProviderAnswers, Normalize, Goto, TypeOK, Shape, HandlerShape,
     RowShape, Bound, Pcs, Statuses, Charges, Provider!TypeOK, Provider!Outcomes,
     Provider!Accepted, Provider!Rejected, Provider!Unsettled
<1>18. ASSUME NEW h \in Handlers, CallFails(h) PROVE Inv'
  BY <1>18 DEF CallFails, Fault, Pending, Goto, TypeOK, Shape, HandlerShape,
     RowShape, Bound, Pcs, Statuses, Provider!TypeOK
<1>19. ASSUME NEW h \in Handlers, Persist(h) PROVE Inv'
  <2>1. /\ rows' \in [Keys -> Rows]
        /\ rows[req[h].key].status = "PENDING"
        /\ SamePayment(rows'[req[h].key], rows[req[h].key])
        /\ rows'[req[h].key].status = result[h].status
        /\ \A k \in Keys : k # req[h].key => rows'[k] = rows[k]
    BY <1>19, RecordEffect DEF Persist
  <2>2. result[h].status \in Statuses
    BY <1>19 DEF Persist, Shape, HandlerShape, RowShape
  <2>3. TypeOK'
    BY <1>19, <2>1 DEF Persist, Rows, Goto, TypeOK, Pcs, Provider!TypeOK
  <2>4. Shape'
    <3>1. HandlerShape'
      BY <1>19 DEF Persist, Goto, TypeOK, Shape, HandlerShape, Bound
    <3>2. RowShape'
      BY <1>19, <2>1, <2>2, UpdateKeepsShape DEF Persist, SamePayment, Shape,
         HandlerShape, Statuses
    <3> QED
      BY <3>1, <3>2 DEF Shape
  <2> QED
    BY <2>3, <2>4
<1>20. ASSUME NEW h \in Handlers, PersistFails(h) PROVE Inv'
  <2>1. /\ result' \in [Handlers -> [status : Statuses \cup {"NONE"},
                                     ref : Refs \cup {None}]]
        /\ result'[h].status = "PENDING"
        /\ \A g \in Handlers : g # h => result'[g] = result[g]
    BY <1>20, DowngradeEffect DEF PersistFails
  <2>2. TypeOK'
    BY <1>20, <2>1 DEF PersistFails, Fault, Goto, TypeOK, Pcs, Provider!TypeOK
  <2>3. Shape'
    BY <1>20, <2>1 DEF PersistFails, Goto, TypeOK, Shape, HandlerShape, RowShape,
       Bound, Statuses
  <2> QED
    BY <2>2, <2>3
<1>21. ASSUME NEW h \in Handlers, PersistUnacknowledged(h) PROVE Inv'
  <2>1. /\ result' \in [Handlers -> [status : Statuses \cup {"NONE"},
                                     ref : Refs \cup {None}]]
        /\ result'[h].status = "PENDING"
        /\ \A g \in Handlers : g # h => result'[g] = result[g]
    BY <1>21, DowngradeEffect DEF PersistUnacknowledged
  <2>2. /\ rows' \in [Keys -> Rows]
        /\ rows[req[h].key].status = "PENDING"
        /\ SamePayment(rows'[req[h].key], rows[req[h].key])
        /\ rows'[req[h].key].status # "NONE"
        /\ \A k \in Keys : k # req[h].key => rows'[k] = rows[k]
    BY <1>21, RecordEffect DEF PersistUnacknowledged, Shape, HandlerShape, RowShape,
       Statuses
  <2>3. lock' \in [Locks -> Handlers \cup {None}]
    BY <1>21, ReleaseType DEF PersistUnacknowledged
  <2>4. TypeOK'
    BY <1>21, <2>1, <2>2, <2>3 DEF PersistUnacknowledged, Rows, Fault, Goto, TypeOK,
       Pcs, Provider!TypeOK
  <2>5. Shape'
    <3>1. HandlerShape'
      BY <1>21, <2>1 DEF PersistUnacknowledged, Goto, TypeOK, Shape, HandlerShape,
         Bound, Statuses
    <3>2. RowShape'
      BY <1>21, <2>2, UpdateKeepsShape DEF PersistUnacknowledged, SamePayment, Shape,
         HandlerShape
    <3> QED
      BY <3>1, <3>2 DEF Shape
  <2> QED
    BY <2>4, <2>5
<1>22. ASSUME NEW h \in Handlers, Reply(h) PROVE Inv'
  BY <1>22 DEF Reply, Goto, TypeOK, Shape, HandlerShape, RowShape, Bound, Pcs,
     Provider!TypeOK
<1>23. ASSUME NEW h \in Handlers, Unlock(h) PROVE Inv'
  BY <1>23, ReturnType, ReleaseType DEF Unlock, TypeOK, Provider!TypeOK
<1>24. ASSUME NEW k \in Keys, Get(k) PROVE Inv'
  BY <1>24 DEF Get, TypeOK, Shape, HandlerShape, RowShape, Statuses, Provider!TypeOK
<1>25. ASSUME NEW h \in Handlers, SessionLost(h) PROVE Inv'
  BY <1>25, ReleaseType DEF SessionLost, Fault, TypeOK, Shape, HandlerShape,
     RowShape, Provider!TypeOK
<1>26. ASSUME NEW h \in Handlers, Crash(h) PROVE Inv'
  BY <1>26, ReturnType, ReleaseType DEF Crash, Fault, TypeOK, Provider!TypeOK
<1>27. CASE Tick
  BY <1>27 DEF Tick, TypeOK, Shape, HandlerShape, RowShape, Provider!TypeOK
<1>28. CASE UNCHANGED vars
  BY <1>28 DEF vars, TypeOK, Shape, HandlerShape, RowShape, Provider!TypeOK
<1> QED
  BY <1>1, <1>2, <1>3, <1>4, <1>5, <1>6, <1>7, <1>8, <1>9, <1>10, <1>11, <1>12, <1>13,
     <1>14, <1>15, <1>16, <1>17, <1>18, <1>19, <1>20, <1>21, <1>22, <1>23, <1>24,
     <1>25, <1>26, <1>27, <1>28 DEF Next, Handle, Fail, Settle

(***************************************************************************)
(* The router's types hold in every reachable state.                       *)
(***************************************************************************)
THEOREM RouterTypes == Spec => []TypeOK
<1>1. Init => TypeOK /\ Shape
  BY InitTypes
<1>2. TypeOK /\ Shape /\ [Next]_vars => (TypeOK /\ Shape)'
  BY NextTypes
<1> QED
  BY <1>1, <1>2, PTL DEF Spec

------------------------------------------------------------------------------
(***************************************************************************)
(* The inductive invariant of the handlers: what a handler knows about the *)
(* row of its key.  A handler may insert only while there is no row; from  *)
(* the claim or the reservation on it works for the payment of the row;    *)
(* what it is about to report as definite is recorded.  The lock matters   *)
(* for the first part and for the lease: of two handlers with a session on *)
(* one key there is but one.                                               *)
(***************************************************************************)
WorkingFor(h) ==
    /\ pc[h] = "insert" /\ Session(h) => Row(h).status = "NONE"
    /\ pc[h] \in Bound => /\ Row(h).status # "NONE"
                          /\ Row(h).id = target[h].id
                          /\ Row(h).gateway = target[h].gateway
    /\ pc[h] \in Bound \ {"reply"} => Row(h).payload = req[h].payload
    /\ pc[h] = "reply" /\ result[h].status \in Terminal =>
          Row(h).status = result[h].status /\ Row(h).ref = result[h].ref
    /\ pc[h] \in {"charge", "calling", "persist"} /\ Session(h) => LeaseHeld(h)

Working == \A h \in Handlers : WorkingFor(h)

\* How the row of key k may change in a step: not at all, from absent to
\* PENDING, or, while PENDING, in everything but its identity.
Evolves(k) ==
    \/ rows'[k] = rows[k]
    \/ rows[k].status = "NONE" /\ rows'[k].status = "PENDING"
    \/ rows[k].status = "PENDING" /\ rows'[k].status # "NONE"
       /\ SamePayment(rows'[k], rows[k])

LEMMA RowsEvolve ==
  ASSUME TypeOK, Shape, Working, [Next]_vars PROVE \A k \in Keys : Evolves(k)
<1>1. ASSUME NEW h \in Handlers, Reserve(h) PROVE \A k \in Keys : Evolves(k)
  BY <1>1, InsertEffect DEF Reserve, Working, WorkingFor, Row, Shape, HandlerShape,
     RowShape, Evolves
<1>2. ASSUME NEW h \in Handlers, Claim(h) PROVE \A k \in Keys : Evolves(k)
  BY <1>2, ClaimEffect DEF Claim, Shape, HandlerShape, RowShape, Evolves
<1>3. ASSUME NEW h \in Handlers, CommitUnacknowledged(h) PROVE \A k \in Keys : Evolves(k)
  <2>1. CASE pc[h] = "insert"
    BY <1>3, <2>1, InsertEffect DEF CommitUnacknowledged, Working, WorkingFor, Row,
       Shape, HandlerShape, RowShape, Evolves
  <2>2. CASE pc[h] = "claim"
    BY <1>3, <2>2, ClaimEffect DEF CommitUnacknowledged, Shape, HandlerShape,
       RowShape, Evolves
  <2> QED
    BY <1>3, <2>1, <2>2 DEF CommitUnacknowledged
<1>4. ASSUME NEW h \in Handlers, Persist(h) \/ PersistUnacknowledged(h)
      PROVE  \A k \in Keys : Evolves(k)
  BY <1>4, RecordEffect DEF Persist, PersistUnacknowledged, Shape, HandlerShape,
     RowShape, Statuses, Evolves
<1>5. ASSUME UNCHANGED rows PROVE \A k \in Keys : Evolves(k)
  BY <1>5 DEF Evolves
<1> QED
  BY <1>1, <1>2, <1>3, <1>4, <1>5 DEF Next, Handle, Fail, Settle, Receive, Connect,
     ConnectFails, AcquireLock, LookupMiss, LookupConflict, LookupStale, LookupAnswer,
     TransactionFails, CallNotMade, CallRefused, CallProvider, SettleCall,
     ProviderAnswers, CallFails, PersistFails, Reply, Unlock, Get, SessionLost, Crash,
     Tick, vars

\* A step of handler h as handler g sees it: its own variables stay, it gets
\* no session it did not have, and while it has one its row is not touched.
Unnoticed(g) ==
    /\ pc'[g] = pc[g] /\ req'[g] = req[g] /\ lease'[g] = lease[g]
    /\ target'[g] = target[g] /\ result'[g] = result[g]
    /\ Session(g)' => Session(g)
    /\ pc[g] # "idle" /\ Session(g) => rows'[req[g].key] = rows[req[g].key]

\* The steps of handler h.
Acts(h) ==
    \/ \E k \in Keys, p \in Payloads : Receive(h, k, p)
    \/ Connect(h) \/ AcquireLock(h) \/ Handle(h) \/ Fail(h)

LEMMA OthersUnnoticed ==
  ASSUME TypeOK, Shape, NEW h \in Handlers, NEW g \in Handlers, g # h, Acts(h)
  PROVE  Unnoticed(g)
<1> USE RouterAssumption DEF RouterAssumption
<1>1. /\ pc'[g] = pc[g] /\ req'[g] = req[g] /\ lease'[g] = lease[g]
      /\ target'[g] = target[g] /\ result'[g] = result[g]
  <2>1. CASE PersistFails(h) \/ PersistUnacknowledged(h)
    BY <2>1, DowngradeEffect DEF PersistFails, PersistUnacknowledged, Goto, TypeOK
  <2>2. CASE \E k \in Keys, p \in Payloads : Receive(h, k, p)
    BY <2>2 DEF Receive, Goto, TypeOK
  <2>3. CASE Connect(h) \/ AcquireLock(h)
    BY <2>3 DEF Connect, AcquireLock, Goto, TypeOK
  <2>4. CASE LookupMiss(h) \/ LookupConflict(h) \/ LookupStale(h) \/ LookupAnswer(h)
    BY <2>4 DEF LookupMiss, LookupConflict, LookupStale, LookupAnswer, Goto, TypeOK
  <2>5. CASE Reserve(h) \/ Claim(h) \/ TransactionFails(h) \/ CommitUnacknowledged(h)
    BY <2>5 DEF Reserve, Claim, TransactionFails, CommitUnacknowledged, Goto, TypeOK
  <2>6. CASE CallProvider(h) \/ CallRefused(h) \/ ProviderAnswers(h) \/ CallNotMade(h)
             \/ CallFails(h)
    BY <2>6 DEF CallProvider, CallRefused, ProviderAnswers, CallNotMade, CallFails,
       Goto, TypeOK
  <2>7. CASE Persist(h) \/ Reply(h) \/ SessionLost(h)
    BY <2>7 DEF Persist, Reply, SessionLost, Goto, TypeOK
  <2>8. CASE Unlock(h) \/ ConnectFails(h) \/ Crash(h)
    BY <2>8 DEF Unlock, ConnectFails, Crash, Return, Goto, TypeOK
  <2> QED
    BY <2>1, <2>2, <2>3, <2>4, <2>5, <2>6, <2>7, <2>8 DEF Acts, Handle, Fail
<1>2. Session(g)' => Session(g)
  <2>1. CASE UNCHANGED lock
    BY <1>1, <2>1 DEF Session
  <2>2. CASE AcquireLock(h)
    BY <1>1, <2>2 DEF AcquireLock, Session, TypeOK, Shape, HandlerShape, RowShape, Locks
  <2>3. CASE ReleaseLock(h)
    BY <1>1, <2>3 DEF ReleaseLock, Session, TypeOK, Shape, HandlerShape, RowShape, Locks
  <2> QED
    BY <2>1, <2>2, <2>3 DEF Acts, Handle, Fail, Receive, Connect, ConnectFails,
       LookupMiss, LookupConflict, LookupStale, LookupAnswer, Reserve, Claim,
       CommitUnacknowledged, TransactionFails, CallNotMade, CallRefused, CallProvider,
       ProviderAnswers, CallFails, Persist, PersistFails, PersistUnacknowledged, Reply,
       Unlock, SessionLost, Crash
<1>3. ASSUME pc[g] # "idle", Session(g)
      PROVE  rows'[req[g].key] = rows[req[g].key]
  \* Whoever writes has a session on its key, so it is not g's key.
  <2>1. CASE UNCHANGED rows
    BY <2>1
  <2>2. ASSUME Session(h), pc[h] # "idle",
               \A k \in Keys : k # req[h].key => rows'[k] = rows[k]
        PROVE  rows'[req[g].key] = rows[req[g].key]
    BY <1>3, <2>2 DEF Session, Shape, HandlerShape, RowShape
  <2>3. CASE Reserve(h)
    BY <2>2, <2>3, InsertEffect DEF Reserve
  <2>4. CASE Claim(h)
    BY <2>2, <2>4, ClaimEffect DEF Claim
  <2>5. CASE CommitUnacknowledged(h)
    <3>1. CASE pc[h] = "insert"
      BY <2>2, <2>5, <3>1, InsertEffect DEF CommitUnacknowledged
    <3>2. CASE pc[h] = "claim"
      BY <2>2, <2>5, <3>2, ClaimEffect DEF CommitUnacknowledged
    <3> QED
      BY <2>5, <3>1, <3>2 DEF CommitUnacknowledged
  <2>6. CASE Persist(h) \/ PersistUnacknowledged(h)
    BY <2>2, <2>6, RecordEffect DEF Persist, PersistUnacknowledged
  <2> QED
    BY <2>1, <2>3, <2>4, <2>5, <2>6 DEF Acts, Handle, Fail, Receive, Connect,
       ConnectFails, AcquireLock, LookupMiss, LookupConflict, LookupStale, LookupAnswer,
       TransactionFails, CallNotMade, CallRefused, CallProvider, ProviderAnswers,
       CallFails, PersistFails, Reply, Unlock, SessionLost, Crash
<1> QED
  BY <1>1, <1>2, <1>3 DEF Unnoticed

\* What a handler knows survives a step it does not notice.
LEMMA BystanderWorks ==
  ASSUME TypeOK, Shape, NEW g \in Handlers, WorkingFor(g), Unnoticed(g),
         \A k \in Keys : Evolves(k)
  PROVE  WorkingFor(g)'
<1>1. CASE pc[g] = "idle"
  BY <1>1 DEF WorkingFor, Unnoticed, Bound
<1>2. CASE pc[g] # "idle"
  <2>1. Evolves(req[g].key)
    BY <1>2 DEF Shape, HandlerShape, RowShape
  <2> QED
    BY <1>2, <2>1 DEF WorkingFor, Unnoticed, Evolves, SamePayment, Row, LeaseHeld,
       Bound, Terminal
<1> QED
  BY <1>1, <1>2

\* What a handler knows survives its own steps.
LEMMA ActorWorks ==
  ASSUME TypeOK, Shape, NEW h \in Handlers, WorkingFor(h), Acts(h),
         \A k \in Keys : Evolves(k)
  PROVE  WorkingFor(h)'
<1> USE RouterAssumption DEF RouterAssumption, WorkingFor, Bound
<1>1. CASE \E k \in Keys, p \in Payloads : Receive(h, k, p)
  BY <1>1 DEF Receive, Goto, TypeOK
<1>2. CASE Connect(h) \/ AcquireLock(h) \/ LookupConflict(h) \/ TransactionFails(h)
  BY <1>2 DEF Connect, AcquireLock, LookupConflict, TransactionFails, Goto, TypeOK
<1>3. CASE ConnectFails(h) \/ Unlock(h) \/ Crash(h)
  BY <1>3 DEF ConnectFails, Unlock, Crash, Return, Goto, TypeOK
<1>4. CASE LookupMiss(h)
  BY <1>4 DEF LookupMiss, Row, Goto, TypeOK
<1>5. CASE LookupStale(h)
  BY <1>5 DEF LookupStale, Row, Goto, TypeOK
<1>6. CASE LookupAnswer(h)
  BY <1>6 DEF LookupAnswer, Row, Goto, TypeOK, Terminal
<1>7. CASE Reserve(h)
  <2>1. PICK id \in Ids : /\ InsertRow(h, id)
                          /\ target' = [target EXCEPT ![h] =
                               [id |-> id,
                                gateway |-> GatewayFor(req[h].payload.instrument)]]
    BY <1>7 DEF Reserve
  <2>2. /\ rows'[req[h].key].id = id
        /\ rows'[req[h].key].payload = req[h].payload
        /\ rows'[req[h].key].gateway = GatewayFor(req[h].payload.instrument)
        /\ rows'[req[h].key].status = "PENDING"
        /\ rows'[req[h].key].updated = lease[h]
    BY <1>7, <2>1, InsertEffect DEF Reserve
  <2> QED
    BY <1>7, <2>1, <2>2 DEF Reserve, Row, LeaseHeld, Goto, TypeOK
<1>8. CASE Claim(h)
  <2>1. /\ SamePayment(rows'[req[h].key], rows[req[h].key])
        /\ rows[req[h].key].id = target[h].id
        /\ rows'[req[h].key].status = "PENDING"
        /\ rows'[req[h].key].updated = lease[h]
    BY <1>8, ClaimEffect DEF Claim
  <2> QED
    BY <1>8, <2>1 DEF Claim, SamePayment, Row, LeaseHeld, Goto, TypeOK
<1>9. CASE CommitUnacknowledged(h)
  BY <1>9 DEF CommitUnacknowledged, Goto, TypeOK
<1>10. CASE CallProvider(h) \/ CallNotMade(h) \/ CallRefused(h) \/ ProviderAnswers(h)
            \/ CallFails(h)
  BY <1>10 DEF CallProvider, CallNotMade, CallRefused, ProviderAnswers, CallFails, Row,
     Session, LeaseHeld, Goto, TypeOK
<1>11. CASE Persist(h)
  <2>1. /\ SamePayment(rows'[req[h].key], rows[req[h].key])
        /\ rows'[req[h].key].status = result[h].status
        /\ rows'[req[h].key].ref = result[h].ref
    BY <1>11, RecordEffect DEF Persist
  <2>2. result[h].status \in Statuses
    BY <1>11 DEF Persist, Shape, HandlerShape, RowShape
  <2> QED
    BY <1>11, <2>1, <2>2 DEF Persist, SamePayment, Statuses, Row, Goto, TypeOK
<1>12. CASE PersistFails(h)
  <2>1. result'[h].status = "PENDING"
    BY <1>12, DowngradeEffect DEF PersistFails
  <2> QED
    BY <1>12, <2>1 DEF PersistFails, Row, Goto, TypeOK, Terminal
<1>13. CASE PersistUnacknowledged(h)
  <2>1. result'[h].status = "PENDING"
    BY <1>13, DowngradeEffect DEF PersistUnacknowledged
  <2>2. /\ SamePayment(rows'[req[h].key], rows[req[h].key])
        /\ rows'[req[h].key].status = result[h].status
    BY <1>13, RecordEffect DEF PersistUnacknowledged
  <2>3. result[h].status \in Statuses
    BY <1>13 DEF PersistUnacknowledged, Shape, HandlerShape, RowShape
  <2> QED
    BY <1>13, <2>1, <2>2, <2>3 DEF PersistUnacknowledged, SamePayment, Statuses, Row,
       Goto, TypeOK, Terminal
<1>14. CASE Reply(h)
  BY <1>14 DEF Reply, Goto, TypeOK
<1>15. CASE SessionLost(h)
  <2>1. ~Session(h)'
    BY <1>15 DEF SessionLost, ReleaseLock, Session, TypeOK, Locks
  <2> QED
    BY <1>15, <2>1 DEF SessionLost, Row
<1> QED
  BY <1>1, <1>2, <1>3, <1>4, <1>5, <1>6, <1>7, <1>8, <1>9, <1>10, <1>11, <1>12, <1>13,
     <1>14, <1>15 DEF Acts, Handle, Fail

LEMMA NextWorking ==
  TypeOK /\ Shape /\ Working /\ [Next]_vars => Working'
<1> SUFFICES ASSUME TypeOK, Shape, Working, [Next]_vars PROVE Working'
  OBVIOUS
<1>1. \A k \in Keys : Evolves(k)
  BY RowsEvolve
<1>2. ASSUME NEW h \in Handlers, Acts(h) PROVE Working'
  <2> SUFFICES ASSUME NEW g \in Handlers PROVE WorkingFor(g)'
    BY DEF Working
  <2>1. CASE g = h
    BY <1>1, <1>2, <2>1, ActorWorks DEF Working
  <2>2. CASE g # h
    BY <1>1, <1>2, <2>2, OthersUnnoticed, BystanderWorks DEF Working
  <2> QED
    BY <2>1, <2>2
<1>3. ASSUME UNCHANGED <<rows, lock, pc, req, lease, target, result>> PROVE Working'
  BY <1>3 DEF Working, WorkingFor, Session, Row, LeaseHeld
<1>4. CASE Settle
  BY <1>3, <1>4 DEF Settle, SettleCall
<1>5. CASE Tick \/ (\E k \in Keys : Get(k)) \/ UNCHANGED vars
  BY <1>3, <1>5 DEF Tick, Get, vars
<1> QED
  BY <1>2, <1>4, <1>5 DEF Next, Acts

------------------------------------------------------------------------------
(***************************************************************************)
(* The provider's side of the invariant: a slot is settled only for a      *)
(* request that was sent, and what a handler is about to record as a       *)
(* success, or, as long as no provider answers 4xx, as a failure, is what  *)
(* the ledger says.                                                        *)
(***************************************************************************)
Slot(h) == <<target[h].gateway, req[h].key>>

SettledWasSent ==
    \A c \in Charges : ledger[c] # Provider!Unsettled =>
        \E m \in sent : c = <<m.gateway, m.key>>

Agrees(status, ref, entry) ==
    /\ status = "SUCCEEDED" => entry = Provider!Accepted(ref)
    /\ status = "FAILED" /\ ~Refuses => entry = Provider!Rejected

Truthful ==
    /\ \A h \in Handlers : pc[h] = "persist" =>
          Agrees(result[h].status, result[h].ref, ledger[Slot(h)])
    /\ \A k \in Keys : rows[k].status \in Statuses =>
          Agrees(rows[k].status, rows[k].ref, ledger[<<rows[k].gateway, k>>])

IInv ==
    /\ TypeOK
    /\ Shape
    /\ Working
    /\ ChargedAsReserved
    /\ SettledWasSent
    /\ Truthful
    /\ AnswersMatchRow

LEMMA InitIInv == Init => IInv
<1> SUFFICES ASSUME Init PROVE IInv
  OBVIOUS
<1>1. TypeOK /\ Shape
  BY InitTypes
<1>2. Working
  BY DEF Init, Working, WorkingFor, Bound
<1>3. ChargedAsReserved /\ AnswersMatchRow
  BY DEF Init, ChargedAsReserved, AnswersMatchRow
<1>4. SettledWasSent
  BY DEF Init, SettledWasSent, Provider!Init
<1>5. Truthful
  BY DEF Init, Truthful, NoRow, Statuses
<1> QED
  BY <1>1, <1>2, <1>3, <1>4, <1>5 DEF IInv

\* A settled slot keeps its outcome.
LEMMA LedgerKeeps ==
  ASSUME IInv, [Next]_vars, NEW c \in Charges, ledger[c] # Provider!Unsettled
  PROVE  ledger'[c] = ledger[c]
<1>1. CASE UNCHANGED ledger
  BY <1>1
<1>2. CASE Settle
  BY <1>2 DEF Settle, SettleCall, Provider!Settle, IInv, TypeOK, Provider!TypeOK,
     Charges
<1> QED
  BY <1>1, <1>2 DEF Next, Handle, Fail, Receive, Connect, ConnectFails, AcquireLock,
     LookupMiss, LookupConflict, LookupStale, LookupAnswer, Reserve, Claim,
     CommitUnacknowledged, TransactionFails, CallNotMade, CallRefused, CallProvider,
     ProviderAnswers, CallFails, Persist, PersistFails, PersistUnacknowledged, Reply,
     Unlock, Get, SessionLost, Crash, Tick, vars

\* Requests already sent stay as they were reserved.
LEMMA NextReserved == IInv /\ [Next]_vars => ChargedAsReserved'
<1> SUFFICES ASSUME IInv, [Next]_vars, NEW m \in sent'
             PROVE  /\ rows'[m.key].status # "NONE"
                    /\ rows'[m.key].payload = m.payload
                    /\ rows'[m.key].gateway = m.gateway
  BY DEF ChargedAsReserved
<1>1. \A k \in Keys : Evolves(k)
  BY RowsEvolve DEF IInv
<1>2. CASE m \in sent
  <2>1. m.key \in Keys
    BY <1>2 DEF IInv, TypeOK
  <2> QED
    BY <1>1, <1>2, <2>1 DEF IInv, ChargedAsReserved, Evolves, SamePayment
<1>3. CASE m \notin sent
  <2>1. PICK h \in Handlers : CallProvider(h)
    BY <1>3 DEF Next, Handle, Fail, Settle, SettleCall, Receive, Connect, ConnectFails,
       AcquireLock, LookupMiss, LookupConflict, LookupStale, LookupAnswer, Reserve,
       Claim, CommitUnacknowledged, TransactionFails, CallNotMade, CallRefused,
       ProviderAnswers, CallFails, Persist, PersistFails, PersistUnacknowledged, Reply,
       Unlock, Get, SessionLost, Crash, Tick, vars
  <2>2. m = [gateway |-> target[h].gateway, key |-> req[h].key,
             payload |-> req[h].payload]
    BY <1>3, <2>1 DEF CallProvider
  <2> QED
    BY <2>1, <2>2 DEF CallProvider, IInv, Working, WorkingFor, Bound, Row
<1> QED
  BY <1>2, <1>3

LEMMA NextSettled == IInv /\ [Next]_vars => SettledWasSent'
<1> SUFFICES ASSUME IInv, [Next]_vars, NEW c \in Charges,
                    ledger'[c] # Provider!Unsettled
             PROVE  \E m \in sent' : c = <<m.gateway, m.key>>
  BY DEF SettledWasSent
<1>1. sent \subseteq sent'
  BY DEF Next, Handle, Fail, Settle, SettleCall, Receive, Connect, ConnectFails,
     AcquireLock, LookupMiss, LookupConflict, LookupStale, LookupAnswer, Reserve, Claim,
     CommitUnacknowledged, TransactionFails, CallNotMade, CallRefused, CallProvider,
     ProviderAnswers, CallFails, Persist, PersistFails, PersistUnacknowledged, Reply,
     Unlock, Get, SessionLost, Crash, Tick, vars
<1>2. CASE ledger[c] # Provider!Unsettled
  BY <1>1, <1>2 DEF IInv, SettledWasSent
<1>3. CASE ledger[c] = Provider!Unsettled
  <2>1. ledger' # ledger
    BY <1>3
  <2>2. PICK m \in sent, o \in Provider!Outcomes : SettleCall(m, o)
    BY <2>1 DEF Next, Handle, Fail, Settle, Receive, Connect, ConnectFails, AcquireLock,
       LookupMiss, LookupConflict, LookupStale, LookupAnswer, Reserve, Claim,
       CommitUnacknowledged, TransactionFails, CallNotMade, CallRefused, CallProvider,
       ProviderAnswers, CallFails, Persist, PersistFails, PersistUnacknowledged, Reply,
       Unlock, Get, SessionLost, Crash, Tick, vars
  <2>3. c = <<m.gateway, m.key>>
    BY <1>3, <2>2 DEF SettleCall, Provider!Settle, IInv, TypeOK, Provider!TypeOK
  <2> QED
    BY <1>1, <2>2, <2>3
<1> QED
  BY <1>2, <1>3

\* What agreed with the ledger before a step agrees with it afterwards.
LEMMA AgreementLasts ==
  ASSUME IInv, [Next]_vars, NEW c \in Charges, NEW st, NEW rf,
         Agrees(st, rf, ledger[c])
  PROVE  Agrees(st, rf, ledger'[c])
<1>1. CASE ledger[c] # Provider!Unsettled
  BY <1>1, LedgerKeeps
<1>2. CASE ledger[c] = Provider!Unsettled
  BY <1>2 DEF Agrees, Provider!Unsettled, Provider!Accepted, Provider!Rejected
<1> QED
  BY <1>1, <1>2

\* A handler enters "persist" with a result that agrees with the ledger.
LEMMA NextTruthfulHandlers ==
  ASSUME IInv, [Next]_vars, NEW g \in Handlers, pc'[g] = "persist"
  PROVE  Agrees(result'[g].status, result'[g].ref, ledger'[Slot(g)'])
<1> USE DEF IInv
<1>1. ASSUME pc[g] = "persist", UNCHANGED <<target[g], req[g], result[g]>>
      PROVE  Agrees(result'[g].status, result'[g].ref, ledger'[Slot(g)'])
  <2>1. Slot(g) \in Charges
    BY <1>1 DEF Slot, Charges, Shape, HandlerShape, RowShape, Bound
  <2>2. Slot(g)' = Slot(g)
    BY <1>1 DEF Slot
  <2> QED
    BY <1>1, <2>1, <2>2, AgreementLasts DEF Truthful
<1>2. ASSUME NEW h \in Handlers, Acts(h), g # h
      PROVE  Agrees(result'[g].status, result'[g].ref, ledger'[Slot(g)'])
  <2>1. Unnoticed(g)
    BY <1>2, OthersUnnoticed
  <2> QED
    BY <1>1, <2>1 DEF Unnoticed
<1>3. CASE Acts(g)
  <2>1. CASE CallNotMade(g) \/ CallFails(g)
    BY <2>1 DEF CallNotMade, CallFails, Pending, Agrees, TypeOK
  <2>2. CASE CallRefused(g)
    BY <2>2 DEF CallRefused, Agrees, TypeOK
  <2>3. CASE ProviderAnswers(g)
    <3>1. /\ Slot(g) \in Charges
          /\ Slot(g)' = Slot(g)
          /\ UNCHANGED ledger
      BY <2>3 DEF ProviderAnswers, Slot, Charges, Shape, HandlerShape, RowShape, Bound
    <3>2. ledger[Slot(g)] \in Provider!Outcomes
      BY <2>3, <3>1 DEF ProviderAnswers, Slot, TypeOK, Provider!TypeOK
    <3>3. result'[g] = Normalize(ledger[Slot(g)])
      BY <2>3 DEF ProviderAnswers, Slot, TypeOK
    <3> QED
      BY <3>1, <3>2, <3>3 DEF Agrees, Normalize, Provider!Outcomes, Provider!Accepted,
         Provider!Rejected
  <2>4. CASE SessionLost(g)
    BY <1>1, <2>4 DEF SessionLost
  <2> QED
    BY <1>3, <2>1, <2>2, <2>3, <2>4 DEF Acts, Handle, Fail, Receive, Connect,
       ConnectFails, AcquireLock, LookupMiss, LookupConflict, LookupStale, LookupAnswer,
       Reserve, Claim, CommitUnacknowledged, TransactionFails, CallProvider, Persist,
       PersistFails, PersistUnacknowledged, Reply, Unlock, Crash, Return, Goto, TypeOK
<1>4. CASE Settle \/ Tick \/ (\E k \in Keys : Get(k)) \/ UNCHANGED vars
  BY <1>1, <1>4 DEF Settle, SettleCall, Tick, Get, vars
<1> QED
  BY <1>2, <1>3, <1>4 DEF Next, Acts

\* A row gets a definite status only from a handler that agrees with the
\* ledger.
LEMMA NextTruthfulRows ==
  ASSUME IInv, [Next]_vars, NEW k \in Keys, rows'[k].status \in Statuses
  PROVE  Agrees(rows'[k].status, rows'[k].ref, ledger'[<<rows'[k].gateway, k>>])
<1> USE DEF IInv
<1> DEFINE Goal == Agrees(rows'[k].status, rows'[k].ref, ledger'[<<rows'[k].gateway, k>>])
<1>1. CASE rows'[k] = rows[k]
  <2>1. <<rows[k].gateway, k>> \in Charges
    BY <1>1 DEF Shape, HandlerShape, RowShape, Charges, Statuses
  <2> QED
    BY <1>1, <2>1, AgreementLasts DEF Truthful
<1>2. CASE rows'[k].status = "PENDING"
  BY <1>2 DEF Agrees
<1>3. ASSUME NEW h \in Handlers, Persist(h) \/ PersistUnacknowledged(h) PROVE Goal
  <2>1. /\ SamePayment(rows'[req[h].key], rows[req[h].key])
        /\ rows'[req[h].key].status = result[h].status
        /\ rows'[req[h].key].ref = result[h].ref
        /\ \A q \in Keys : q # req[h].key => rows'[q] = rows[q]
    BY <1>3, RecordEffect DEF Persist, PersistUnacknowledged
  <2>2. CASE k = req[h].key
    <3>1. rows'[k].gateway = target[h].gateway
      BY <1>3, <2>1, <2>2 DEF Persist, PersistUnacknowledged, SamePayment, Working,
         WorkingFor, Bound, Row
    <3>2. Slot(h) \in Charges
      BY <1>3 DEF Persist, PersistUnacknowledged, Slot, Charges, Shape, HandlerShape,
         RowShape, Bound
    <3>3. Agrees(result[h].status, result[h].ref, ledger[Slot(h)])
      BY <1>3 DEF Persist, PersistUnacknowledged, Truthful
    <3> QED
      BY <2>1, <2>2, <3>1, <3>2, <3>3, AgreementLasts DEF Slot
  <2>3. CASE k # req[h].key
    BY <1>1, <2>1, <2>3
  <2> QED
    BY <2>2, <2>3
<1>4. ASSUME NEW h \in Handlers, Reserve(h) \/ Claim(h) \/ CommitUnacknowledged(h)
      PROVE  rows'[k] = rows[k] \/ rows'[k].status = "PENDING"
  <2>1. CASE Reserve(h)
    BY <2>1, InsertEffect DEF Reserve
  <2>2. CASE Claim(h)
    BY <2>2, ClaimEffect DEF Claim
  <2>3. CASE CommitUnacknowledged(h)
    <3>1. CASE pc[h] = "insert"
      BY <2>3, <3>1, InsertEffect DEF CommitUnacknowledged
    <3>2. CASE pc[h] = "claim"
      BY <2>3, <3>2, ClaimEffect DEF CommitUnacknowledged
    <3> QED
      BY <2>3, <3>1, <3>2 DEF CommitUnacknowledged
  <2> QED
    BY <1>4, <2>1, <2>2, <2>3
<1>5. CASE UNCHANGED rows
  BY <1>1, <1>5
<1> QED
  BY <1>1, <1>2, <1>3, <1>4, <1>5 DEF Next, Handle, Fail, Settle, SettleCall, Receive,
     Connect, ConnectFails, AcquireLock, LookupMiss, LookupConflict, LookupStale,
     LookupAnswer, TransactionFails, CallNotMade, CallRefused, CallProvider,
     ProviderAnswers, CallFails, PersistFails, Reply, Unlock, Get, SessionLost, Crash,
     Tick, vars

\* Old answers stay true because rows only evolve; new ones report what the
\* handler, or the row itself, holds.
LEMMA NextAnswers == IInv /\ [Next]_vars => AnswersMatchRow'
<1> SUFFICES ASSUME IInv, [Next]_vars, NEW a \in answers' PROVE Honoured(a)'
  BY DEF AnswersMatchRow
<1> USE DEF IInv
<1>1. \A k \in Keys : Evolves(k)
  BY RowsEvolve
<1>2. CASE a \in answers
  <2>1. a.key \in Keys /\ a.id \in Ids
    BY <1>2 DEF TypeOK
  <2>2. Honoured(a)
    BY <1>2 DEF AnswersMatchRow
  <2>3. rows[a.key].status # "NONE"
    <3>1. rows[a.key].id \in Ids
      BY <2>1, <2>2 DEF Honoured
    <3> QED
      BY <2>1, <3>1, RouterAssumption DEF RouterAssumption, Shape, HandlerShape,
         RowShape
  <2> QED
    BY <1>1, <2>1, <2>2, <2>3 DEF Honoured, Evolves, SamePayment, Terminal
<1>3. ASSUME NEW h \in Handlers, Reply(h) PROVE Honoured(a)'
  <2>1. UNCHANGED rows
    BY <1>3 DEF Reply
  <2>2. CASE a \notin answers
    BY <1>3, <2>1, <2>2 DEF Reply, Honoured, Working, WorkingFor, Bound, Row
  <2> QED
    BY <1>2, <2>2
<1>4. ASSUME NEW k \in Keys, Get(k) PROVE Honoured(a)'
  BY <1>2, <1>4 DEF Get, Honoured
<1>5. CASE UNCHANGED answers
  BY <1>2, <1>5
<1> QED
  BY <1>3, <1>4, <1>5 DEF Next, Handle, Fail, Settle, SettleCall, Receive, Connect,
     ConnectFails, AcquireLock, LookupMiss, LookupConflict, LookupStale, LookupAnswer,
     Reserve, Claim, CommitUnacknowledged, TransactionFails, CallNotMade, CallRefused,
     CallProvider, ProviderAnswers, CallFails, Persist, PersistFails,
     PersistUnacknowledged, Unlock, SessionLost, Crash, Tick, vars

LEMMA SpecIInv == Spec => []IInv
<1>1. IInv /\ [Next]_vars => Truthful'
  BY NextTruthfulHandlers, NextTruthfulRows DEF Truthful
<1>2. IInv /\ [Next]_vars => IInv'
  BY <1>1, NextTypes, NextWorking, NextReserved, NextSettled, NextAnswers DEF IInv
<1> QED
  BY <1>2, InitIInv, PTL DEF Spec

(***************************************************************************)
(* Whatever fails, and however many handlers and replicas run: every       *)
(* answer ever given names the payment of its key and, if definite, is     *)
(* what the table holds.                                                   *)
(***************************************************************************)
THEOREM AnswersHonoured == Spec => []AnswersMatchRow
  BY SpecIInv, PTL DEF IInv

(***************************************************************************)
(* A SUCCEEDED or FAILED payment is never written again.                   *)
(***************************************************************************)
THEOREM TerminalForGood == Spec => TerminalStable
<1>1. IInv /\ [Next]_vars =>
        [\A k \in Keys : rows[k].status \in Terminal => rows'[k] = rows[k]]_vars
  BY RowsEvolve DEF IInv, Evolves, Terminal
<1> QED
  BY <1>1, SpecIInv, PTL DEF Spec, TerminalStable

(***************************************************************************)
(* Everything sent to a provider carries the payload and the gateway of    *)
(* the reservation, made before it was sent.                               *)
(***************************************************************************)
THEOREM ReservedFirst == Spec => []ChargedAsReserved
  BY SpecIInv, PTL DEF IInv

(***************************************************************************)
(* No payment is charged by two gateways, whatever is retried, recovered   *)
(* or delivered late.                                                      *)
(***************************************************************************)
THEOREM NoDoubleCharge == Spec => []AtMostOneCharge
<1>1. IInv => AtMostOneCharge
  <2> SUFFICES ASSUME IInv, NEW k \in Keys, NEW g1 \in Gateways, NEW g2 \in Gateways,
                      ledger[<<g1, k>>].outcome = "ACCEPTED",
                      ledger[<<g2, k>>].outcome = "ACCEPTED"
               PROVE  g1 = g2
    BY DEF AtMostOneCharge
  <2>1. ASSUME NEW g \in Gateways, ledger[<<g, k>>].outcome = "ACCEPTED"
        PROVE  rows[k].gateway = g
    <3>1. <<g, k>> \in Charges /\ ledger[<<g, k>>] # Provider!Unsettled
      BY <2>1 DEF Charges, Provider!Unsettled
    <3>2. PICK m \in sent : <<g, k>> = <<m.gateway, m.key>>
      BY <3>1 DEF IInv, SettledWasSent
    <3> QED
      BY <3>2 DEF IInv, ChargedAsReserved
  <2> QED
    BY <2>1
<1> QED
  BY <1>1, SpecIInv, PTL

(***************************************************************************)
(* A payment reported as SUCCEEDED was charged by the gateway of its row,  *)
(* under the reference of its row.                                         *)
(***************************************************************************)
THEOREM SuccessIsReal == Spec => []SucceededWasCharged
<1>1. IInv => SucceededWasCharged
  BY DEF IInv, Truthful, Agrees, SucceededWasCharged, Statuses
<1> QED
  BY <1>1, SpecIInv, PTL

(***************************************************************************)
(* As long as no provider answers 4xx, a payment reported as FAILED was    *)
(* not and will not be charged: timeouts and 5xx answers never turn into   *)
(* a failure.                                                              *)
(***************************************************************************)
THEOREM FailureIsReal == ASSUME ~Refuses PROVE Spec => []FailedMeansNotCharged
<1>1. IInv => FailedMeansNotCharged
  <2> SUFFICES ASSUME IInv, NEW k \in Keys, NEW g \in Gateways,
                      rows[k].status = "FAILED"
               PROVE  ledger[<<g, k>>].outcome # "ACCEPTED"
    BY DEF FailedMeansNotCharged
  <2>1. ledger[<<rows[k].gateway, k>>] = Provider!Rejected
    BY DEF IInv, Truthful, Agrees, Statuses
  <2>2. CASE g = rows[k].gateway
    BY <2>1, <2>2 DEF Provider!Rejected
  <2>3. CASE g # rows[k].gateway
    <3>1. <<g, k>> \in Charges
      BY DEF Charges
    <3>2. ledger[<<g, k>>] = Provider!Unsettled
      BY <2>3, <3>1 DEF IInv, SettledWasSent, ChargedAsReserved
    <3> QED
      BY <3>2 DEF Provider!Unsettled
  <2> QED
    BY <2>2, <2>3
<1> QED
  BY <1>1, SpecIInv, PTL

(***************************************************************************)
(* A handler with a live session never loses the compare-and-set of        *)
(* persistResultConn.                                                      *)
(***************************************************************************)
THEOREM LeaseKept == Spec => []HolderKeepsLease
<1>1. IInv => HolderKeepsLease
  BY DEF IInv, Working, WorkingFor, HolderKeepsLease
<1> QED
  BY <1>1, SpecIInv, PTL

------------------------------------------------------------------------------
(***************************************************************************)
(* Time.  An attempt is under way from the reservation or the claim until  *)
(* the provider's answer, and no longer than CallWindow after the start of *)
(* its transaction.  A handler that is about to claim found the last write *)
(* of the row at least RecoveryAfter, less the skew of the clocks, before  *)
(* its own start, and as long as it has its session nobody has written the *)
(* row since; the row's last write is not before the start of any attempt  *)
(* that is under way.                                                      *)
(***************************************************************************)
Attempt == {"charge", "calling"}

TimelyFor(h) ==
    /\ pc[h] \in {"insert", "claim"} \cup Attempt =>
          lease[h] <= clock /\ clock <= lease[h] + CallWindow
    /\ pc[h] = "claim" /\ Session(h) =>
          Row(h).updated + RecoveryAfter <= lease[h] + MaxSkew
    /\ pc[h] \in Attempt => lease[h] <= Row(h).updated

Timely == \A h \in Handlers : TimelyFor(h)

OneAttempt ==
    \A g, h \in Handlers :
        pc[g] \in Attempt /\ pc[h] \in Attempt /\ req[g].key = req[h].key => g = h

\* Recovery waits longer than an attempt can last, by clocks that may differ.
RecoveryWaits == RecoveryAfter > CallWindow + MaxSkew

\* Whoever is about to write the row with a session has no rival.
LEMMA NoRival ==
  ASSUME RecoveryWaits, IInv, Timely,
         NEW h \in Handlers, pc[h] \in {"insert", "claim"}, Session(h),
         NEW g \in Handlers, pc[g] \in Attempt
  PROVE  req[g].key # req[h].key
<1> USE DEF IInv
<1> SUFFICES ASSUME req[g].key = req[h].key PROVE FALSE
  OBVIOUS
<1>1. CASE pc[h] = "insert"
  BY <1>1 DEF Working, WorkingFor, Row, Bound, Attempt
<1>2. CASE pc[h] = "claim"
  <2>1. /\ lease[h] <= clock
        /\ clock <= lease[g] + CallWindow
        /\ Row(h).updated + RecoveryAfter <= lease[h] + MaxSkew
        /\ lease[g] <= Row(h).updated
    BY <1>2 DEF Timely, TimelyFor, Attempt, Row
  <2>2. /\ lease[h] \in Nat /\ lease[g] \in Nat /\ clock \in Nat
        /\ Row(h).updated \in Nat
    BY <1>2 DEF TypeOK, Shape, HandlerShape, Row
  <2>3. RecoveryAfter \in Nat /\ CallWindow \in Nat /\ MaxSkew \in Nat
    BY RouterAssumption DEF RouterAssumption
  <2> QED
    BY <2>1, <2>2, <2>3 DEF RecoveryWaits
<1> QED
  BY <1>1, <1>2

\* The steps of h keep the last write of g's row from falling behind g's start.
LEMMA WritesKeepUp ==
  ASSUME RecoveryWaits, IInv, Timely, NEW h \in Handlers, NEW g \in Handlers, g # h,
         Acts(h), pc[g] \in Attempt
  PROVE  lease[g] <= rows'[req[g].key].updated
<1> USE DEF IInv
<1>1. req[g].key \in Keys /\ lease[g] <= rows[req[g].key].updated /\ lease[g] <= clock
  BY DEF Timely, TimelyFor, Row, Attempt, Shape, HandlerShape
<1>2. CASE UNCHANGED rows
  BY <1>1, <1>2
<1>3. ASSUME pc[h] \in {"insert", "claim"}, Session(h),
             \A k \in Keys : k # req[h].key => rows'[k] = rows[k]
      PROVE  lease[g] <= rows'[req[g].key].updated
  BY <1>1, <1>3, NoRival
<1>4. CASE Reserve(h)
  BY <1>3, <1>4, InsertEffect DEF Reserve
<1>5. CASE Claim(h)
  BY <1>3, <1>5, ClaimEffect DEF Claim
<1>6. CASE CommitUnacknowledged(h)
  <2>1. CASE pc[h] = "insert"
    BY <1>3, <1>6, <2>1, InsertEffect DEF CommitUnacknowledged
  <2>2. CASE pc[h] = "claim"
    BY <1>3, <1>6, <2>2, ClaimEffect DEF CommitUnacknowledged
  <2> QED
    BY <1>6, <2>1, <2>2 DEF CommitUnacknowledged
<1>7. CASE Persist(h) \/ PersistUnacknowledged(h)
  <2>1. /\ rows'[req[h].key].updated = clock
        /\ \A k \in Keys : k # req[h].key => rows'[k] = rows[k]
    BY <1>7, RecordEffect DEF Persist, PersistUnacknowledged
  <2> QED
    BY <1>1, <2>1
<1> QED
  BY <1>2, <1>4, <1>5, <1>6, <1>7 DEF Acts, Handle, Fail, Receive, Connect,
     ConnectFails, AcquireLock, LookupMiss, LookupConflict, LookupStale, LookupAnswer,
     TransactionFails, CallNotMade, CallRefused, CallProvider, ProviderAnswers,
     CallFails, PersistFails, Reply, Unlock, SessionLost, Crash

\* A handler does not advance the clock.
LEMMA ActsKeepTime == ASSUME NEW h \in Handlers, Acts(h) PROVE clock' = clock
  BY DEF Acts, Handle, Fail, Receive, Connect, ConnectFails, AcquireLock, LookupMiss,
     LookupConflict, LookupStale, LookupAnswer, Reserve, Claim, CommitUnacknowledged,
     TransactionFails, CallNotMade, CallRefused, CallProvider, ProviderAnswers,
     CallFails, Persist, PersistFails, PersistUnacknowledged, Reply, Unlock,
     SessionLost, Crash

\* A handler keeps its own times.
LEMMA ActorTimely ==
  ASSUME IInv, NEW h \in Handlers, TimelyFor(h), Acts(h)
  PROVE  TimelyFor(h)'
<1> USE RouterAssumption DEF RouterAssumption, IInv, TimelyFor, Attempt
<1>1. CASE LookupMiss(h)
  BY <1>1 DEF LookupMiss, Goto, TypeOK
<1>2. CASE LookupStale(h)
  <2>1. /\ pc'[h] = "claim" /\ lease'[h] = clock /\ clock' = clock
        /\ Row(h)' = Row(h)
        /\ clock + MaxSkew >= Row(h).updated + RecoveryAfter
    BY <1>2 DEF LookupStale, MayBeStale, Row, Goto, TypeOK
  <2>2. clock \in Nat /\ Row(h).updated \in Nat
    BY <1>2 DEF LookupStale, TypeOK, Shape, HandlerShape, Row
  <2> QED
    BY <2>1, <2>2
<1>3. CASE Reserve(h)
  <2>1. rows'[req[h].key].updated = lease[h]
    BY <1>3, InsertEffect DEF Reserve
  <2>2. /\ pc[h] = "insert" /\ pc'[h] = "charge"
        /\ UNCHANGED <<lease, req, clock>>
    BY <1>3 DEF Reserve, Goto, TypeOK
  <2>3. lease[h] \in Nat
    BY DEF TypeOK
  <2> QED
    BY <2>1, <2>2, <2>3 DEF Row
<1>4. CASE Claim(h)
  <2>1. rows'[req[h].key].updated = lease[h]
    BY <1>4, ClaimEffect DEF Claim
  <2>2. /\ pc[h] = "claim" /\ pc'[h] = "charge"
        /\ UNCHANGED <<lease, req, clock>>
    BY <1>4 DEF Claim, Goto, TypeOK
  <2>3. lease[h] \in Nat
    BY DEF TypeOK
  <2> QED
    BY <2>1, <2>2, <2>3 DEF Row
<1>5. CASE CallProvider(h)
  BY <1>5 DEF CallProvider, Row, Goto, TypeOK
<1>6. CASE SessionLost(h)
  <2>1. ~Session(h)'
    BY <1>6 DEF SessionLost, ReleaseLock, Session, TypeOK, Locks
  <2> QED
    BY <1>6, <2>1 DEF SessionLost, Row
<1>7. ASSUME pc'[h] \notin {"insert", "claim", "charge", "calling"} PROVE TimelyFor(h)'
  BY <1>7
<1> QED
  BY <1>1, <1>2, <1>3, <1>4, <1>5, <1>6, <1>7 DEF Acts, Handle, Fail, Receive, Connect,
     ConnectFails, AcquireLock, LookupConflict, LookupAnswer, CommitUnacknowledged,
     TransactionFails, CallNotMade, CallRefused, ProviderAnswers, CallFails, Persist,
     PersistFails, PersistUnacknowledged, Reply, Unlock, Crash, Return, Goto, TypeOK

LEMMA NextTimely ==
  ASSUME RecoveryWaits, IInv, Timely, [Next]_vars PROVE Timely'
<1> SUFFICES ASSUME NEW g \in Handlers PROVE TimelyFor(g)'
  BY DEF Timely
<1>1. ASSUME NEW h \in Handlers, Acts(h), g # h PROVE TimelyFor(g)'
  <2>1. Unnoticed(g) /\ clock' = clock
    BY <1>1, OthersUnnoticed, ActsKeepTime DEF IInv
  <2>2. pc[g] \in Attempt => lease[g] <= rows'[req[g].key].updated
    BY <1>1, WritesKeepUp
  <2> QED
    BY <2>1, <2>2 DEF Timely, TimelyFor, Unnoticed, Row, Attempt
<1>2. CASE Acts(g)
  BY <1>2, ActorTimely DEF Timely
<1>3. CASE Tick
  BY <1>3, RouterAssumption DEF RouterAssumption, Tick, Timely, TimelyFor, Attempt,
     Row, Session, IInv, TypeOK
<1>4. CASE Settle \/ (\E k \in Keys : Get(k)) \/ UNCHANGED vars
  BY <1>4 DEF Settle, SettleCall, Get, vars, Timely, TimelyFor, Row, Session
<1> QED
  BY <1>1, <1>2, <1>3, <1>4 DEF Next, Acts

LEMMA NextOneAttempt ==
  ASSUME RecoveryWaits, IInv, Timely, OneAttempt, [Next]_vars PROVE OneAttempt'
<1>1. ASSUME NEW h \in Handlers, Acts(h) PROVE OneAttempt'
  <2>1. ASSUME NEW g \in Handlers, g # h
        PROVE  pc'[g] = pc[g] /\ req'[g] = req[g]
    BY <1>1, <2>1, OthersUnnoticed DEF IInv, Unnoticed
  <2>2. CASE pc'[h] \notin Attempt
    BY <2>1, <2>2 DEF OneAttempt
  <2>3. CASE Reserve(h) \/ Claim(h)
    BY <2>1, <2>3, NoRival DEF OneAttempt, Reserve, Claim
  <2>4. CASE pc[h] \in Attempt /\ req'[h] = req[h]
    BY <2>1, <2>4 DEF OneAttempt
  <2> QED
    BY <1>1, <2>2, <2>3, <2>4 DEF Acts, Handle, Fail, Receive, Connect, ConnectFails,
       AcquireLock, LookupMiss, LookupConflict, LookupStale, LookupAnswer,
       CommitUnacknowledged, TransactionFails, CallNotMade, CallRefused, CallProvider,
       ProviderAnswers, CallFails, Persist, PersistFails, PersistUnacknowledged, Reply,
       Unlock, SessionLost, Crash, Return, Goto, IInv, TypeOK, Attempt
<1>2. CASE Settle \/ Tick \/ (\E k \in Keys : Get(k)) \/ UNCHANGED vars
  BY <1>2 DEF Settle, SettleCall, Tick, Get, vars, OneAttempt
<1> QED
  BY <1>1, <1>2 DEF Next, Acts

(***************************************************************************)
(* If PENDING_RECOVERY_AFTER exceeds the longest attempt by more than the  *)
(* skew of the clocks, no two calls of one payment are ever at a provider  *)
(* at the same time, also when the database has ended the session, and so  *)
(* the lock, of the first.                                                 *)
(***************************************************************************)
THEOREM CallsDoNotOverlap ==
  ASSUME RecoveryAfter > CallWindow + MaxSkew PROVE Spec => []OneCallInFlight
<1>1. Init => Timely /\ OneAttempt
  BY DEF Init, Timely, TimelyFor, OneAttempt, Attempt
<1>2. IInv /\ Timely /\ OneAttempt /\ [Next]_vars => (Timely /\ OneAttempt)'
  BY NextTimely, NextOneAttempt DEF RecoveryWaits
<1>3. OneAttempt => OneCallInFlight
  BY DEF OneAttempt, OneCallInFlight, Attempt
<1> QED
  BY <1>1, <1>2, <1>3, SpecIInv, PTL DEF Spec

------------------------------------------------------------------------------
(***************************************************************************)
(* The router implements PaymentLedger, the contract its callers rely on.  *)
(***************************************************************************)
\* Where references are: an absent row has nothing, a PENDING row has no
\* reference, and what a handler is about to record has one exactly if it is a
\* success.
RowRefs ==
    \A k \in Keys : /\ rows[k].status = "NONE" => rows[k] = NoRow
                    /\ rows[k].status = "PENDING" => rows[k].ref = None

ResultRefs ==
    \A h \in Handlers : pc[h] = "persist" =>
        /\ result[h].status = "SUCCEEDED" => result[h].ref \in Refs
        /\ result[h].status # "SUCCEEDED" => result[h].ref = None

LEMMA NextRowRefs ==
  ASSUME IInv, RowRefs, ResultRefs, [Next]_vars PROVE RowRefs'
<1> USE DEF IInv
<1>1. ASSUME NEW h \in Handlers, pc[h] # "idle", NEW id \in Ids, InsertRow(h, id)
      PROVE  RowRefs'
  BY <1>1, InsertEffect DEF RowRefs
<1>2. ASSUME NEW h \in Handlers, pc[h] # "idle", ClaimRow(h) PROVE RowRefs'
  BY <1>2, ClaimEffect DEF RowRefs
<1>3. ASSUME NEW h \in Handlers, Persist(h) \/ PersistUnacknowledged(h)
      PROVE  RowRefs'
  BY <1>3, RecordEffect DEF RowRefs, ResultRefs, Persist, PersistUnacknowledged,
     Shape, HandlerShape, Statuses
<1>4. ASSUME UNCHANGED rows PROVE RowRefs'
  BY <1>4 DEF RowRefs
<1> QED
  BY <1>1, <1>2, <1>3, <1>4 DEF Next, Handle, Fail, Settle, Receive, Connect,
     ConnectFails, AcquireLock, LookupMiss, LookupConflict, LookupStale, LookupAnswer,
     Reserve, Claim, CommitUnacknowledged, TransactionFails, CallNotMade, CallRefused,
     CallProvider, SettleCall, ProviderAnswers, CallFails, PersistFails, Reply, Unlock,
     Get, SessionLost, Crash, Tick, vars

LEMMA NextResultRefs ==
  ASSUME IInv, ResultRefs, [Next]_vars PROVE ResultRefs'
<1> USE DEF IInv
<1>1. ASSUME NEW h \in Handlers, ProviderAnswers(h) PROVE ResultRefs'
  <2>1. <<target[h].gateway, req[h].key>> \in Charges
    BY <1>1 DEF ProviderAnswers, Shape, HandlerShape, Bound, Charges
  <2>2. ledger[<<target[h].gateway, req[h].key>>] \in Provider!Outcomes
    BY <1>1, <2>1 DEF ProviderAnswers, TypeOK, Provider!TypeOK
  <2> DEFINE n == Normalize(ledger[<<target[h].gateway, req[h].key>>])
  <2>3. /\ n.status = "SUCCEEDED" => n.ref \in Refs
        /\ n.status # "SUCCEEDED" => n.ref = None
    <3> DEFINE o == ledger[<<target[h].gateway, req[h].key>>]
    <3>1. o \in Provider!Outcomes
      BY <2>2
    <3> HIDE DEF o
    <3>2. \/ o.outcome = "REJECTED" /\ o.ref = None
          \/ o.outcome = "ACCEPTED" /\ o.ref \in Refs
      BY <3>1 DEF Provider!Outcomes, Provider!Accepted, Provider!Rejected
    <3>3. n = Normalize(o)
      BY DEF o
    <3> QED
      BY <3>2, <3>3 DEF Normalize
  <2>4. result' = [result EXCEPT ![h] = n] /\ pc' = [pc EXCEPT ![h] = "persist"]
    BY <1>1 DEF ProviderAnswers, Goto
  <2> HIDE DEF n
  <2> QED
    BY <2>3, <2>4 DEF ResultRefs, TypeOK
<1>2. ASSUME NEW h \in Handlers, CallNotMade(h) \/ CallFails(h) \/ CallRefused(h)
      PROVE  ResultRefs'
  BY <1>2 DEF CallNotMade, CallFails, CallRefused, ResultRefs, Pending, Goto, TypeOK
<1>3. ASSUME NEW h \in Handlers, NEW label \in Pcs \ {"persist"}, Goto(h, label),
             \A g \in Handlers : g # h => result'[g] = result[g]
      PROVE  ResultRefs'
  BY <1>3 DEF Goto, ResultRefs, TypeOK
<1>4. ASSUME NEW h \in Handlers,
             \/ LookupMiss(h) \/ LookupConflict(h) \/ LookupStale(h) \/ LookupAnswer(h)
             \/ Reserve(h) \/ Claim(h) \/ TransactionFails(h) \/ CallProvider(h)
             \/ Persist(h) \/ PersistFails(h) \/ Reply(h) \/ Unlock(h)
             \/ CommitUnacknowledged(h) \/ PersistUnacknowledged(h)
      PROVE  ResultRefs'
  BY <1>3, <1>4 DEF LookupMiss, LookupConflict, LookupStale, LookupAnswer, Reserve,
     Claim, TransactionFails, CallProvider, Persist, PersistFails, Reply, Unlock,
     CommitUnacknowledged, PersistUnacknowledged, Return, TypeOK, Pcs
<1>5. ASSUME NEW h \in Handlers,
             \/ \E k \in Keys, p \in Payloads : Receive(h, k, p)
             \/ Connect(h) \/ AcquireLock(h) \/ ConnectFails(h) \/ Crash(h)
      PROVE  ResultRefs'
  BY <1>3, <1>5 DEF Receive, Connect, AcquireLock, ConnectFails, Crash, Return,
     TypeOK, Pcs
<1>6. ASSUME UNCHANGED <<pc, result>> PROVE ResultRefs'
  BY <1>6 DEF ResultRefs
<1> QED
  BY <1>1, <1>2, <1>4, <1>5, <1>6 DEF Next, Handle, Fail, Settle, SettleCall, Get,
     SessionLost, Tick, vars

\* A step on the row of one key, seen through the mapping.
LEMMA ViewOfUpdate ==
  ASSUME IInv, NEW q \in Keys, \A k \in Keys : k # q => rows'[k] = rows[k]
  PROVE  Payments' = [Payments EXCEPT ![q] =
                        [id |-> rows'[q].id, payload |-> rows'[q].payload,
                         status |-> rows'[q].status, gateway |-> rows'[q].gateway,
                         ref |-> rows'[q].ref]]
  BY DEF Payments

LEMMA InsertReserves ==
  ASSUME IInv, RowRefs, NEW h \in Handlers, pc[h] = "insert", Session(h), NEW id \in Ids,
         InsertRow(h, id)
  PROVE  View!Next
<1> DEFINE q == req[h].key
           g == GatewayFor(req[h].payload.instrument)
<1> USE DEF IInv
<1>1. q \in Keys /\ req[h].payload \in Payloads
  BY DEF Shape, HandlerShape
<1>2. rows[q] = NoRow
  BY <1>1 DEF Working, WorkingFor, Row, RowRefs
<1>3. /\ g \in Gateways
      /\ Payments' = [Payments EXCEPT ![q] =
           [id |-> id, payload |-> req[h].payload, status |-> "PENDING",
            gateway |-> g, ref |-> None]]
  BY <1>1, InsertEffect, ViewOfUpdate
<1>4. Payments[q] = View!NoPayment
  BY <1>1, <1>2 DEF Payments, NoRow, View!NoPayment
<1>5. \A j \in Keys : Payments[j].id # id
  BY DEF Payments, InsertRow
<1>6. View!Reserve(q, req[h].payload, id, g)
  BY <1>3, <1>4, <1>5 DEF View!Reserve
<1> QED
  BY <1>1, <1>3, <1>6 DEF View!Next

LEMMA ClaimStutters ==
  ASSUME IInv, NEW h \in Handlers, pc[h] # "idle", ClaimRow(h)
  PROVE  Payments' = Payments
<1>1. req[h].key \in Keys
  BY DEF IInv, Shape, HandlerShape
<1> QED
  BY <1>1, ClaimEffect DEF IInv, Payments, SamePayment

LEMMA RecordSettles ==
  ASSUME IInv, RowRefs, ResultRefs, NEW h \in Handlers,
         Persist(h) \/ PersistUnacknowledged(h)
  PROVE  [View!Next]_Payments
<1> DEFINE q == req[h].key
           s == [status |-> result[h].status, ref |-> result[h].ref]
<1> USE DEF IInv
<1>1. pc[h] = "persist" /\ LeaseHeld(h) /\ RecordResult(h)
  BY DEF Persist, PersistUnacknowledged
<1>2. q \in Keys /\ result[h].status \in Statuses
  BY <1>1 DEF Shape, HandlerShape
<1>3. /\ rows[q].status = "PENDING"
      /\ SamePayment(rows'[q], rows[q])
      /\ rows'[q].status = s.status /\ rows'[q].ref = s.ref
      /\ \A k \in Keys : k # q => rows'[k] = rows[k]
  BY <1>1, RecordEffect
<1>4. CASE result[h].status = "PENDING"
  <2>1. s.ref = rows[q].ref
    BY <1>1, <1>2, <1>3, <1>4 DEF ResultRefs, RowRefs
  <2> QED
    BY <1>2, <1>3, <1>4, <2>1 DEF Payments, SamePayment
<1>5. CASE result[h].status # "PENDING"
  <2>1. s \in View!Settlements
    BY <1>1, <1>2, <1>5 DEF ResultRefs, Statuses, View!Settlements
  <2>2. Payments[q].status = "PENDING"
    BY <1>2, <1>3 DEF Payments
  <2>3. Payments' = [Payments EXCEPT ![q].status = s.status, ![q].ref = s.ref]
    BY <1>2, <1>3, ViewOfUpdate DEF Payments, SamePayment
  <2> QED
    BY <1>2, <2>1, <2>2, <2>3 DEF View!Next, View!Settle
<1> QED
  BY <1>4, <1>5

(***************************************************************************)
(* Router implements PaymentLedger: the reservation is Reserve, recording  *)
(* a terminal result is Settle, and every other step, the claim of a       *)
(* recovery and the recording of a PENDING result included, changes        *)
(* nothing the callers can see.                                            *)
(***************************************************************************)
THEOREM RouterImplementsPayments == Spec => ImplementsPayments
<1>1. Init => View!Init /\ RowRefs /\ ResultRefs
  BY DEF Init, View!Init, Payments, NoRow, View!NoPayment, RowRefs, ResultRefs
<1>2. IInv /\ RowRefs /\ ResultRefs /\ [Next]_vars => RowRefs' /\ ResultRefs'
  BY NextRowRefs, NextResultRefs
<1>3. IInv /\ RowRefs /\ ResultRefs /\ [Next]_vars => [View!Next]_Payments
  <2> SUFFICES ASSUME IInv, RowRefs, ResultRefs, [Next]_vars
               PROVE  [View!Next]_Payments
    OBVIOUS
  <2>1. ASSUME NEW h \in Handlers, Reserve(h) PROVE View!Next
    BY <2>1, InsertReserves DEF Reserve
  <2>2. ASSUME NEW h \in Handlers, CommitUnacknowledged(h) PROVE [View!Next]_Payments
    BY <2>2, InsertReserves, ClaimStutters DEF CommitUnacknowledged
  <2>3. ASSUME NEW h \in Handlers, Claim(h) PROVE Payments' = Payments
    BY <2>3, ClaimStutters DEF Claim
  <2>4. ASSUME UNCHANGED rows PROVE Payments' = Payments
    BY <2>4 DEF Payments
  <2> QED
    BY <2>1, <2>2, <2>3, <2>4, RecordSettles DEF Next, Handle, Fail, Settle, Receive,
       Connect, ConnectFails, AcquireLock, LookupMiss, LookupConflict, LookupStale,
       LookupAnswer, TransactionFails, CallNotMade, CallRefused, CallProvider,
       SettleCall, ProviderAnswers, CallFails, PersistFails, Reply, Unlock, Get,
       SessionLost, Crash, Tick, vars
<1> QED
  BY <1>1, <1>2, <1>3, SpecIInv, PTL DEF Spec, ImplementsPayments, View!Spec
=============================================================================
