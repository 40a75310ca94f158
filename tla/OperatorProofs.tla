--------------------------- MODULE OperatorProofs ---------------------------
(***************************************************************************)
(* Proofs about the payment operator, for any participants and drafts, any *)
(* set of handlers, keys and requests, any hash of keys to locks, any pool *)
(* and number of failures.                                                 *)
(***************************************************************************)
EXTENDS Operator, TLAPS

\* The router has a payment for key k, and o is no more than it says of it.
Reports(k, o) ==
    /\ payments[k].status # "NONE"
    /\ o.id = payments[k].id
    /\ o.gateway = payments[k].gateway
    /\ o.status \in Statuses
    /\ Agrees(payments[k], o.status, o.ref)

\* The places where a handler holds a response of the router or an order, and
\* those where the order it works on is there.
GetPcs == {"getfetch", "getupdate"}
Reporting == {"fetch", "retry", "update", "insert"} \cup GetPcs
Replaying == {"fetch", "retry", "update"} \cup GetPcs

\* What handler h may rely on where it is.
Working(h) ==
    /\ pc[h] # "idle" => req[h].key \in Keys
    /\ pc[h] \in CreatePcs \cup {"begin"} => req[h].request \in Requests
    /\ pc[h] \in GetPcs => req[h].request = None
    /\ pc[h] \in CreatePcs \cup {"begin"} => \A p \in Parties : known[req[h].key][p] # {}
    /\ pc[h] = "creditor" => /\ debtor[h] \in known[req[h].key][req[h].request.debtor]
                             /\ debtor[h].active
    /\ pc[h] = "post" => /\ internal[h] \in Payloads
                         /\ internal[h].request = req[h].request
                         /\ Authorised(req[h].key, internal[h])
    /\ pc[h] \in Reporting => Reports(req[h].key, out[h])
    /\ pc[h] \in Reporting \ GetPcs =>
          req[h].request = payments[req[h].key].payload.request
    /\ pc[h] \in Replaying => orders[req[h].key] # NoOrder

AllWorking == \A h \in Handlers : Working(h)

\* The router's payments are complete or absent, and no two share an id.
PaymentsDistinct ==
    /\ \A k \in Keys :
          /\ payments[k].status # "NONE" => /\ payments[k].id \in Ids
                                            /\ payments[k].payload \in Payloads
                                            /\ payments[k].gateway \in Gateways
          /\ payments[k].status = "NONE" => payments[k] = Router!NoPayment
    /\ \A j, k \in Keys :
          payments[j].status # "NONE" /\ payments[j].id = payments[k].id => j = k

\* An order is there in full, and only for a payment the router has.
OrdersBacked ==
    \A k \in Keys : orders[k] # NoOrder => /\ orders[k].status \in Statuses
                                           /\ payments[k].status # "NONE"

\* The history of a key that is in use has the rows of the table.
RowsKnown ==
    \A k \in Keys, p \in Parties :
        known[k][p] # {} => participants[p] \in known[k][p]

\* A post that is under way, however late it arrives, is authorised.
PostsAuthorised == \A m \in posted : Authorised(m.key, m.payload)

IInv ==
    /\ TypeOK /\ AllWorking /\ PaymentsDistinct /\ OrdersBacked
    /\ OrdersTellTruth /\ AnswersAreTrue
    /\ RowsKnown /\ PostsAuthorised /\ AuthorisedPayments

------------------------------------------------------------------------------
(***************************************************************************)
(* What stays true when the rest of the system moves on.                   *)
(***************************************************************************)
\* Payments keep what they are bound to, and settle once.
Grows ==
    \A k \in Keys : payments[k].status # "NONE" =>
        /\ payments'[k].status # "NONE"
        /\ payments'[k].id = payments[k].id
        /\ payments'[k].payload = payments[k].payload
        /\ payments'[k].gateway = payments[k].gateway
        /\ payments[k].status \in Terminal => payments'[k] = payments[k]

KnownGrows == \A k \in Keys, p \in Parties : known[k][p] \subseteq known'[k][p]

OrdersStay == \A k \in Keys : orders[k] # NoOrder => orders'[k] # NoOrder

\* Handler h does not move.
Still(h) ==
    /\ pc'[h] = pc[h] /\ req'[h] = req[h] /\ debtor'[h] = debtor[h]
    /\ internal'[h] = internal[h] /\ out'[h] = out[h]

\* Who is authorised stays authorised.
LEMMA AuthorisedStays ==
  ASSUME KnownGrows, NEW k \in Keys, NEW p \in Payloads, Authorised(k, p)
  PROVE  Authorised(k, p)'
<1>1. p.request.debtor \in Parties /\ p.request.creditor \in Parties
  BY OperatorAssumption DEF OperatorAssumption, Payloads
<1> QED
  BY <1>1 DEF KnownGrows, Authorised

\* A handler that does not move keeps what it relies on.
LEMMA WorkingStays ==
  ASSUME Grows, KnownGrows, OrdersStay, NEW h \in Handlers, Still(h), Working(h)
  PROVE  Working(h)'
<1> USE DEF Still, Working, Reporting, Replaying, GetPcs, CreatePcs
<1>1. pc[h] \in Reporting =>
        /\ Reports(req[h].key, out[h])'
        /\ payments'[req[h].key].payload = payments[req[h].key].payload
  <2>1. SUFFICES ASSUME pc[h] \in Reporting
                 PROVE  /\ Reports(req[h].key, out[h])'
                        /\ payments'[req[h].key].payload = payments[req[h].key].payload
    OBVIOUS
  <2>2. req[h].key \in Keys /\ Reports(req[h].key, out[h])
    BY <2>1
  <2>3. payments'[req[h].key].payload = payments[req[h].key].payload
    BY <2>2 DEF Grows, Reports
  <2> QED
    BY <2>2, <2>3 DEF Grows, Reports, Agrees, Terminal
<1>2. /\ pc[h] \in CreatePcs \cup {"begin"} =>
            \A p \in Parties : known'[req[h].key][p] # {}
      /\ pc[h] = "creditor" => debtor[h] \in known'[req[h].key][req[h].request.debtor]
  BY OperatorAssumption DEF OperatorAssumption, KnownGrows
<1>3. pc[h] \in Replaying => orders'[req[h].key] # NoOrder
  BY DEF OrdersStay
<1>4. pc[h] = "post" => Authorised(req[h].key, internal[h])'
  <2>1. pc[h] = "post" => \A k \in Keys, p \in Payloads :
                            k = req[h].key /\ p = internal[h] => Authorised(k, p)'
    BY AuthorisedStays
  <2> QED
    BY <2>1 DEF Authorised
<1> QED
  BY <1>1, <1>2, <1>3, <1>4

\* What the tables and the record of answers hold.
OrderRows == [id : Ids \cup {None}, request : Requests \cup {None},
              payment : Ids \cup {None}, status : Statuses \cup {"NONE"},
              gateway : Gateways \cup {None}, ref : Refs \cup {None}]
Answers == [key : Keys, request : Requests \cup {None}, id : Ids,
            status : Statuses, gateway : Gateways, ref : Refs \cup {None}]

\* What is authorised at the router stays authorised when the history grows.
LEMMA PaymentsStayAuthorised ==
  ASSUME IInv, KnownGrows, payments' = payments PROVE AuthorisedPayments'
<1> SUFFICES ASSUME NEW k \in Keys, payments[k].status # "NONE"
             PROVE  Authorised(k, payments[k].payload)'
  BY DEF AuthorisedPayments
<1>1. payments[k].payload \in Payloads /\ Authorised(k, payments[k].payload)
  BY DEF IInv, PaymentsDistinct, AuthorisedPayments
<1>2. \A p \in Payloads : p = payments[k].payload => Authorised(k, p)'
  BY <1>1, AuthorisedStays
<1> QED
  BY <1>1, <1>2 DEF Authorised

\* So do the posts.
LEMMA PostsStayAuthorised ==
  ASSUME IInv, KnownGrows, posted' = posted PROVE PostsAuthorised'
<1> SUFFICES ASSUME NEW m \in posted PROVE Authorised(m.key, m.payload)'
  BY DEF PostsAuthorised
<1>1. m.key \in Keys /\ m.payload \in Payloads /\ Authorised(m.key, m.payload)
  BY DEF TypeOK, IInv, PostsAuthorised
<1>2. \A k \in Keys, p \in Payloads :
         k = m.key /\ p = m.payload => Authorised(k, p)'
  BY <1>1, AuthorisedStays
<1> QED
  BY <1>1, <1>2 DEF Authorised

\* A step of handler h that changes nothing but where h is, the locks, the posts
\* under way and the history.
LEMMA MovesAndLearns ==
  ASSUME IInv, NEW h \in Handlers,
         UNCHANGED <<orders, payments, answers>>, KnownGrows, RowsKnown',
         \A g \in Handlers : g # h => Still(g),
         TypeOK', Working(h)', PostsAuthorised'
  PROVE  IInv'
<1>1. Grows /\ OrdersStay
  BY DEF Grows, OrdersStay
<1>2. AllWorking'
  BY <1>1, WorkingStays DEF IInv, AllWorking
<1>3. PaymentsDistinct' /\ OrdersBacked' /\ OrdersTellTruth' /\ AnswersAreTrue'
  BY DEF IInv, PaymentsDistinct, OrdersBacked, OrdersTellTruth, AnswersAreTrue, Agrees
<1> QED
  BY <1>2, <1>3, PaymentsStayAuthorised DEF IInv

\* The same where the history stays.
LEMMA Moves ==
  ASSUME IInv, NEW h \in Handlers,
         UNCHANGED <<orders, payments, answers, partyVars>>,
         \A g \in Handlers : g # h => Still(g),
         TypeOK', Working(h)', PostsAuthorised'
  PROVE  IInv'
<1>1. KnownGrows /\ RowsKnown'
  BY DEF IInv, KnownGrows, RowsKnown, partyVars, participantVars
<1> QED
  BY <1>1, MovesAndLearns

\* What Return leaves of the handler.
LEMMA ReturnEffect ==
  ASSUME TypeOK, NEW h \in Handlers, Return(h)
  PROVE  /\ lock' \in [Locks -> Handlers \cup {None}]
         /\ pc' \in [Handlers -> Pcs]
         /\ req' \in [Handlers -> [key : Keys \cup {None},
                                   request : Requests \cup {None}]]
         /\ debtor' \in [Handlers -> Participant \cup {NoParticipant}]
         /\ internal' \in [Handlers -> Payloads \cup {None}]
         /\ out' \in [Handlers -> Responses]
         /\ pc'[h] = "idle"
         /\ \A g \in Handlers : g # h => Still(g)
<1>1. lock' \in [Locks -> Handlers \cup {None}]
  BY DEF Return, TypeOK
<1>2. pc' \in [Handlers -> Pcs] /\ pc'[h] = "idle"
  BY DEF Return, TypeOK, Goto, Pcs
<1>3. /\ req' \in [Handlers -> [key : Keys \cup {None}, request : Requests \cup {None}]]
      /\ internal' \in [Handlers -> Payloads \cup {None}]
  BY DEF Return, TypeOK, NoRequest
<1>4. debtor' \in [Handlers -> Participant \cup {NoParticipant}]
  BY DEF Return, TypeOK
<1>5. out' \in [Handlers -> Responses]
  BY DEF Return, TypeOK, NoResponse, Responses
<1>6. \A g \in Handlers : g # h => Still(g)
  BY DEF Return, Goto, TypeOK, Still
<1> QED
  BY <1>1, <1>2, <1>3, <1>4, <1>5, <1>6

\* A step with which handler h returns, whatever it writes and answers, if the
\* orders and the answer are true.
LEMMA Returns ==
  ASSUME IInv, NEW h \in Handlers, Return(h),
         UNCHANGED <<routerVars, partyVars>>, faults' \in 0..MaxFaults,
         orders' \in [Keys -> OrderRows],
         OrdersStay, OrdersBacked', OrdersTellTruth',
         answers' \subseteq Answers, AnswersAreTrue'
  PROVE  IInv'
<1>1. TypeOK'
  BY ReturnEffect DEF IInv, TypeOK, ParticipantsTypeOK, partyVars,
     participantVars, routerVars, OrderRows, Answers
<1>2. Grows /\ KnownGrows
  BY DEF Grows, KnownGrows, partyVars, participantVars, routerVars
<1>3. AllWorking'
  <2>1. Working(h)'
    BY ReturnEffect DEF IInv, Working, Reporting, Replaying, GetPcs, CreatePcs
  <2> QED
    BY <1>2, <2>1, ReturnEffect, WorkingStays DEF IInv, AllWorking
<1>4. PaymentsDistinct'
  BY DEF IInv, PaymentsDistinct, routerVars
<1>5. RowsKnown' /\ PostsAuthorised' /\ AuthorisedPayments'
  BY DEF IInv, RowsKnown, PostsAuthorised, AuthorisedPayments, Authorised,
     partyVars, participantVars, routerVars
<1> QED
  BY <1>1, <1>3, <1>4, <1>5 DEF IInv

\* The answer with payment o, which the router has and an order knows of.
LEMMA AnswerIsTrue ==
  ASSUME IInv, NEW h \in Handlers, NEW o, Answer(h, o),
         req[h].key \in Keys, req[h].request \in Requests \cup {None},
         Reports(req[h].key, o), o.ref \in Refs \cup {None},
         req[h].request # None =>
            req[h].request = payments[req[h].key].payload.request,
         UNCHANGED payments,
         \A k \in Keys : orders[k] # NoOrder => orders'[k].id = payments[k].id,
         orders'[req[h].key].id = payments[req[h].key].id
  PROVE  answers' \subseteq Answers /\ AnswersAreTrue'
<1> DEFINE a == [key |-> req[h].key, request |-> req[h].request, id |-> o.id,
                 status |-> o.status, gateway |-> o.gateway, ref |-> o.ref]
<1>1. a \in Answers
  BY DEF IInv, PaymentsDistinct, Reports, Answers
<1>2. /\ orders'[a.key].id = a.id
      /\ a.request # None => a.request = payments'[a.key].payload.request
      /\ a.gateway = payments'[a.key].gateway
      /\ Agrees(payments'[a.key], a.status, a.ref)
  BY DEF Reports
<1>3. answers \subseteq Answers
  BY DEF IInv, TypeOK, Answers
<1>4. ASSUME NEW b \in answers
      PROVE  /\ orders'[b.key].id = b.id
             /\ b.request # None => b.request = payments'[b.key].payload.request
             /\ b.gateway = payments'[b.key].gateway
             /\ Agrees(payments'[b.key], b.status, b.ref)
  <2>1. b.key \in Keys /\ b.id \in Ids /\ orders[b.key].id = b.id
    BY <1>3 DEF Answers, IInv, AnswersAreTrue
  <2>2. orders[b.key] # NoOrder
    BY <2>1, OperatorAssumption DEF OperatorAssumption, NoOrder
  <2>3. orders'[b.key].id = b.id
    BY <2>1, <2>2 DEF IInv, OrdersTellTruth
  <2> QED
    BY <2>3 DEF IInv, AnswersAreTrue
<1>5. answers' = answers \cup {a}
  BY DEF Answer
<1> HIDE DEF a
<1> QED
  BY <1>1, <1>2, <1>3, <1>4, <1>5 DEF AnswersAreTrue

\* A handler returns and changes nothing else.
LEMMA ReturnsOnly ==
  ASSUME IInv, NEW h \in Handlers, Return(h),
         UNCHANGED <<orders, routerVars, answers, partyVars>>,
         faults' \in 0..MaxFaults
  PROVE  IInv'
<1>1. /\ orders' \in [Keys -> OrderRows] /\ OrdersStay
      /\ answers' \subseteq Answers
  BY DEF IInv, TypeOK, OrderRows, Answers, OrdersStay
<1>2. OrdersBacked' /\ OrdersTellTruth' /\ AnswersAreTrue'
  BY DEF IInv, OrdersBacked, OrdersTellTruth, AnswersAreTrue, Agrees, routerVars
<1> QED
  BY <1>1, <1>2, Returns

\* A handler returns with an answer and writes nothing.
LEMMA ReturnsAnswer ==
  ASSUME IInv, NEW h \in Handlers, NEW o, Answer(h, o), Return(h),
         UNCHANGED <<orders, routerVars, partyVars>>, faults' \in 0..MaxFaults,
         req[h].key \in Keys, req[h].request \in Requests \cup {None},
         Reports(req[h].key, o), o.ref \in Refs \cup {None},
         req[h].request # None =>
            req[h].request = payments[req[h].key].payload.request,
         orders[req[h].key] # NoOrder
  PROVE  IInv'
<1>1. orders' \in [Keys -> OrderRows] /\ OrdersStay
  BY DEF IInv, TypeOK, OrderRows, OrdersStay
<1>2. OrdersBacked' /\ OrdersTellTruth'
  BY DEF IInv, OrdersBacked, OrdersTellTruth, Agrees, routerVars
<1>3. answers' \subseteq Answers /\ AnswersAreTrue'
  BY AnswerIsTrue DEF IInv, OrdersTellTruth, routerVars
<1> QED
  BY <1>1, <1>2, <1>3, Returns

\* A write that makes the order of key q say what o says of the payment.
Written(q, o) ==
    /\ orders' \in [Keys -> OrderRows]
    /\ orders'[q].id = payments[q].id
    /\ orders'[q].payment = payments[q].id
    /\ orders'[q].request = payments[q].payload.request
    /\ orders'[q].gateway = o.gateway
    /\ orders'[q].status = o.status
    /\ orders'[q].ref = o.ref
    /\ \A k \in Keys : k # q => orders'[k] = orders[k]

\* Such a write keeps the orders true.
LEMMA WriteIsTrue ==
  ASSUME IInv, NEW q \in Keys, NEW o, Reports(q, o), Written(q, o), UNCHANGED payments
  PROVE  /\ OrdersStay /\ OrdersBacked' /\ OrdersTellTruth'
         /\ \A k \in Keys : orders[k] # NoOrder => orders'[k].id = payments[k].id
<1>1. orders'[q] # NoOrder
  BY DEF Written, Reports, Statuses, NoOrder
<1>2. OrdersStay
  BY <1>1 DEF OrdersStay, Written
<1>3. OrdersBacked'
  BY DEF IInv, OrdersBacked, Written, Reports
<1>4. OrdersTellTruth'
  BY DEF IInv, OrdersTellTruth, Written, Reports, Agrees
<1>5. \A k \in Keys : orders[k] # NoOrder => orders'[k].id = payments[k].id
  BY DEF IInv, OrdersTellTruth, Written
<1> QED
  BY <1>2, <1>3, <1>4, <1>5

\* A handler returns after such a write, with or without an answer.
LEMMA ReturnsWrite ==
  ASSUME IInv, NEW h \in Handlers, pc[h] \in {"update", "insert", "getupdate"},
         Return(h), Written(req[h].key, out[h]),
         Answer(h, out[h]) \/ UNCHANGED answers,
         UNCHANGED <<routerVars, partyVars>>, faults' \in 0..MaxFaults
  PROVE  IInv'
<1>1. /\ req[h].key \in Keys /\ Reports(req[h].key, out[h])
      /\ req[h].request \in Requests \cup {None}
      /\ req[h].request # None =>
            req[h].request = payments[req[h].key].payload.request
  BY DEF IInv, AllWorking, Working, Reporting, GetPcs, CreatePcs
<1>2. out[h].ref \in Refs \cup {None}
  BY DEF IInv, TypeOK, Responses
<1>3. /\ OrdersStay /\ OrdersBacked' /\ OrdersTellTruth'
      /\ \A k \in Keys : orders[k] # NoOrder => orders'[k].id = payments[k].id
  BY <1>1, WriteIsTrue DEF routerVars
<1>4. /\ orders' \in [Keys -> OrderRows]
      /\ orders'[req[h].key].id = payments[req[h].key].id
  BY DEF Written
<1>5. answers' \subseteq Answers /\ AnswersAreTrue'
  <2>1. CASE Answer(h, out[h])
    BY <1>1, <1>2, <1>3, <1>4, <2>1, AnswerIsTrue DEF routerVars
  <2>2. CASE UNCHANGED answers
    <3>1. answers \subseteq Answers
      BY DEF IInv, TypeOK, Answers
    <3>2. ASSUME NEW b \in answers PROVE orders'[b.key].id = b.id
      <4>1. b.key \in Keys /\ b.id \in Ids /\ orders[b.key].id = b.id
        BY <3>1 DEF Answers, IInv, AnswersAreTrue
      <4>2. orders[b.key] # NoOrder
        BY <4>1, OperatorAssumption DEF OperatorAssumption, NoOrder
      <4> QED
        BY <1>3, <4>1, <4>2 DEF IInv, OrdersTellTruth
    <3> QED
      BY <2>2, <3>1, <3>2 DEF IInv, AnswersAreTrue, Agrees, routerVars
  <2> QED
    BY <2>1, <2>2
<1> QED
  BY <1>3, <1>4, <1>5, Returns

\* The INSERT writes what the router answered.
LEMMA InsertWrites ==
  ASSUME IInv, NEW h \in Handlers, pc[h] = "insert", InsertOrder(h)
  PROVE  Written(req[h].key, out[h])
<1>1. /\ req[h].key \in Keys /\ Reports(req[h].key, out[h])
      /\ req[h].request \in Requests
      /\ req[h].request = payments[req[h].key].payload.request
  BY DEF IInv, AllWorking, Working, Reporting, GetPcs, CreatePcs
<1>2. out[h] \in Responses /\ orders \in [Keys -> OrderRows]
  BY DEF IInv, TypeOK, OrderRows
<1> QED
  BY <1>1, <1>2 DEF InsertOrder, Written, Reports, Responses, OrderRows

\* The UPDATE of a replay does, and leaves id and request alone.
LEMMA UpdateWrites ==
  ASSUME IInv, NEW h \in Handlers, pc[h] = "update", UpdateOrder(h)
  PROVE  Written(req[h].key, out[h])
<1> DEFINE q == req[h].key
           r == [orders[q] EXCEPT !.payment = out[h].id, !.status = out[h].status,
                                  !.gateway = out[h].gateway, !.ref = out[h].ref]
<1>1. q \in Keys /\ Reports(q, out[h]) /\ orders[q] # NoOrder
  BY DEF IInv, AllWorking, Working, Reporting, Replaying, GetPcs, CreatePcs
<1>2. out[h] \in Responses /\ orders \in [Keys -> OrderRows] /\ orders[q] \in OrderRows
  BY <1>1 DEF IInv, TypeOK, OrderRows
<1>3. orders[q].id = payments[q].id /\ orders[q].request = payments[q].payload.request
  BY <1>1 DEF IInv, OrdersTellTruth
<1>4. orders' = [orders EXCEPT ![q] = r]
  BY <1>1, <1>2 DEF UpdateOrder
<1>5. /\ r \in OrderRows /\ r.id = orders[q].id /\ r.request = orders[q].request
      /\ r.payment = out[h].id /\ r.status = out[h].status
      /\ r.gateway = out[h].gateway /\ r.ref = out[h].ref
  BY <1>2 DEF Responses, OrderRows
<1> HIDE DEF r
<1> QED
  BY <1>1, <1>2, <1>3, <1>4, <1>5 DEF Written, Reports

\* The UPDATE of get does, and leaves the payment id alone too.
LEMMA OverwriteWrites ==
  ASSUME IInv, NEW h \in Handlers, pc[h] = "getupdate", OverwriteOrder(h)
  PROVE  Written(req[h].key, out[h])
<1> DEFINE q == req[h].key
           r == [orders[q] EXCEPT !.status = out[h].status,
                                  !.gateway = out[h].gateway, !.ref = out[h].ref]
<1>1. q \in Keys /\ Reports(q, out[h]) /\ orders[q] # NoOrder
  BY DEF IInv, AllWorking, Working, Reporting, Replaying, GetPcs, CreatePcs
<1>2. out[h] \in Responses /\ orders \in [Keys -> OrderRows] /\ orders[q] \in OrderRows
  BY <1>1 DEF IInv, TypeOK, OrderRows
<1>3. /\ orders[q].id = payments[q].id /\ orders[q].payment = payments[q].id
      /\ orders[q].request = payments[q].payload.request
  BY <1>1 DEF IInv, OrdersTellTruth
<1>4. orders' = [orders EXCEPT ![q] = r]
  BY <1>1, <1>2 DEF OverwriteOrder
<1>5. /\ r \in OrderRows /\ r.id = orders[q].id /\ r.request = orders[q].request
      /\ r.payment = orders[q].payment /\ r.status = out[h].status
      /\ r.gateway = out[h].gateway /\ r.ref = out[h].ref
  BY <1>2 DEF Responses, OrderRows
<1> HIDE DEF r
<1> QED
  BY <1>1, <1>2, <1>3, <1>4, <1>5 DEF Written, Reports

------------------------------------------------------------------------------
(***************************************************************************)
(* The invariant holds at the start and is kept by every step.             *)
(***************************************************************************)
\* seed turns a row, or the absence of one, into a row or leaves it.
LEMMA SeedRowType ==
  ASSUME NEW p \in Parties, NEW r \in Participant \cup {NoParticipant}
  PROVE  SeedRow(p, r) \in Participant \cup {NoParticipant}
<1>1. CASE p \notin DOMAIN Seeds
  BY <1>1 DEF SeedRow
<1>2. CASE p \in DOMAIN Seeds /\ r = NoParticipant
  <2>1. SeedRow(p, r) = [instrument |-> Seeds[p], roles |-> Roles, active |-> TRUE]
    BY <1>2 DEF SeedRow
  <2> QED
    BY <1>2, <2>1, ParticipantsAssumption DEF ParticipantsAssumption, Participant
<1>3. CASE p \in DOMAIN Seeds /\ r # NoParticipant
  <2>1. /\ SeedRow(p, r) = [r EXCEPT !.roles = IF r.roles = {} THEN Roles ELSE r.roles]
        /\ r \in Participant
    BY <1>3 DEF SeedRow
  <2>2. r.roles \in SUBSET Roles
    BY <2>1 DEF Participant
  <2> QED
    BY <2>1, <2>2 DEF Participant
<1> QED
  BY <1>1, <1>2, <1>3

LEMMA InitIInv == Init => IInv
<1> SUFFICES ASSUME Init PROVE IInv
  OBVIOUS
<1> USE OperatorAssumption DEF OperatorAssumption
<1>1. ParticipantsTypeOK /\ RowsKnown
  <2>1. NoParticipant \in Participant \cup {NoParticipant}
    OBVIOUS
  <2>2. participants \in [Parties -> Participant \cup {NoParticipant}]
    BY <2>1, SeedRowType DEF Init, ParticipantsInit
  <2>3. RowsKnown
    BY DEF Init, RowsKnown
  <2> QED
    BY <2>2, <2>3, ParticipantsAssumption DEF ParticipantsAssumption, Init,
       ParticipantsInit, ParticipantsTypeOK
<1>2. /\ lock \in [Locks -> Handlers \cup {None}]
      /\ pc \in [Handlers -> Pcs]
      /\ req \in [Handlers -> [key : Keys \cup {None}, request : Requests \cup {None}]]
      /\ debtor \in [Handlers -> Participant \cup {NoParticipant}]
      /\ internal \in [Handlers -> Payloads \cup {None}]
      /\ posted \subseteq [by : Handlers, key : Keys, payload : Payloads]
      /\ charging \subseteq Keys
      /\ faults \in 0..MaxFaults
  BY DEF Init, Pcs, NoRequest
<1>3. orders \in [Keys -> OrderRows] /\ out \in [Handlers -> Responses]
  BY DEF Init, NoOrder, OrderRows, NoResponse, Responses
<1>4. payments \in [Keys -> [id : Ids \cup {None}, payload : Payloads \cup {None},
                             status : Statuses \cup {"NONE"},
                             gateway : Gateways \cup {None}, ref : Refs \cup {None}]]
  BY DEF Init, Router!Init, Router!NoPayment
<1>5. TypeOK
  BY <1>1, <1>2, <1>3, <1>4 DEF Init, TypeOK, OrderRows
<1>6. \A k \in Keys : payments[k] = Router!NoPayment /\ payments[k].status = "NONE"
  BY DEF Init, Router!Init, Router!NoPayment
<1>7. AllWorking
  BY DEF Init, AllWorking, Working, Reporting, Replaying, GetPcs, CreatePcs
<1>8. PaymentsDistinct /\ AuthorisedPayments
  BY <1>6 DEF PaymentsDistinct, AuthorisedPayments
<1>9. OrdersBacked /\ OrdersTellTruth /\ AnswersAreTrue /\ PostsAuthorised
  BY DEF Init, OrdersBacked, OrdersTellTruth, AnswersAreTrue, PostsAuthorised
<1> QED
  BY <1>1, <1>5, <1>7, <1>8, <1>9 DEF IInv

\* The payment a handler fetches is the one of its key.
LEMMA FetchesItsOwn ==
  ASSUME IInv, NEW h \in Handlers, pc[h] \in Reporting, NEW k \in Keys,
         payments[k].id = out[h].id
  PROVE  k = req[h].key
<1>1. req[h].key \in Keys /\ Reports(req[h].key, out[h])
  BY DEF IInv, AllWorking, Working, Reporting, GetPcs
<1> QED
  BY <1>1 DEF IInv, PaymentsDistinct, Reports

\* What the router shows of a payment it has is a report of it.
LEMMA ShownReports ==
  ASSUME TypeOK, NEW k \in Keys, payments[k].status # "NONE"
  PROVE  /\ Reports(k, Shown(payments[k]))
         /\ Shown(payments[k]) \in Responses
  BY DEF TypeOK, Reports, Shown, Responses, Agrees

\* And so is what it answers to a post.
LEMMA AnswersReport ==
  ASSUME TypeOK, NEW k \in Keys, payments[k].status # "NONE",
         NEW o \in RouterAnswers(payments[k])
  PROVE  Reports(k, o) /\ o \in Responses
<1>1. CASE o = Shown(payments[k])
  BY <1>1, ShownReports
<1>2. CASE \E r \in Refs \cup {None} :
             o = [id |-> payments[k].id, status |-> "PENDING",
                  gateway |-> payments[k].gateway, ref |-> r]
  BY <1>2 DEF TypeOK, Reports, Responses, Agrees, Statuses, Terminal
<1> QED
  BY <1>1, <1>2 DEF RouterAnswers

\* What an order that is there says is a report of its payment.
LEMMA OrderReports ==
  ASSUME IInv, NEW k \in Keys, orders[k] # NoOrder
  PROVE  /\ Reports(k, Shown(orders[k]))
         /\ Shown(orders[k]) \in Responses
         /\ Reports(k, [id |-> orders[k].payment, status |-> orders[k].status,
                        gateway |-> orders[k].gateway, ref |-> orders[k].ref])
         /\ [id |-> orders[k].payment, status |-> orders[k].status,
             gateway |-> orders[k].gateway, ref |-> orders[k].ref] \in Responses
         /\ orders[k].request = payments[k].payload.request
<1>1. /\ orders[k].id = payments[k].id /\ orders[k].payment = payments[k].id
      /\ orders[k].request = payments[k].payload.request
      /\ orders[k].gateway = payments[k].gateway
      /\ Agrees(payments[k], orders[k].status, orders[k].ref)
      /\ orders[k].status \in Statuses /\ payments[k].status # "NONE"
  BY DEF IInv, OrdersTellTruth, OrdersBacked
<1>2. orders[k] \in OrderRows
  BY DEF IInv, TypeOK, OrderRows
<1> QED
  BY <1>1, <1>2 DEF Reports, Shown, Responses, OrderRows

\* A handler returns.
LEMMA HandlerReturns ==
  ASSUME IInv, NEW h \in Handlers,
         \/ LookupConflict(h) \/ LookupSettled(h) \/ FetchFails(h) \/ Update(h)
         \/ Refuse(h) \/ PostRefused(h) \/ Insert(h) \/ Abandon(h)
         \/ SessionMissed(h) \/ CommitUnacknowledged(h) \/ GetFetchFails(h)
         \/ GetUpdate(h) \/ GetUpdateFails(h)
  PROVE  IInv'
<1>1. faults \in 0..MaxFaults /\ (Fault => faults' \in 0..MaxFaults)
  BY OperatorAssumption DEF OperatorAssumption, IInv, TypeOK, Fault
<1>2. Working(h) /\ out[h].ref \in Refs \cup {None}
  BY DEF IInv, TypeOK, AllWorking, Responses
<1>3. CASE LookupConflict(h)
  BY <1>1, <1>3, ReturnsOnly DEF LookupConflict
<1>4. CASE LookupSettled(h)
  <2>1. /\ req[h].key \in Keys /\ req[h].request \in Requests
        /\ req[h].request = Order(h).request
    BY <1>2, <1>4 DEF LookupSettled, Working, CreatePcs
  <2>2. orders[req[h].key] # NoOrder
    BY <1>4 DEF LookupSettled, Order, Terminal, NoOrder
  <2>3. /\ Reports(req[h].key, Shown(Order(h)))
        /\ Shown(Order(h)).ref \in Refs \cup {None}
        /\ req[h].request = payments[req[h].key].payload.request
    BY <2>1, <2>2, OrderReports DEF Order, Responses
  <2> QED
    BY <1>1, <1>4, <2>1, <2>2, <2>3, ReturnsAnswer DEF LookupSettled
<1>5. CASE FetchFails(h)
  <2>1. CASE Session(h)
    BY <1>1, <1>2, <1>5, <2>1, ReturnsAnswer DEF FetchFails, Working, Reporting,
       Replaying, GetPcs, CreatePcs
  <2>2. CASE ~Session(h)
    BY <1>1, <1>5, <2>2, ReturnsOnly DEF FetchFails
  <2> QED
    BY <2>1, <2>2
<1>6. CASE Update(h)
  BY <1>1, <1>6, UpdateWrites, ReturnsWrite DEF Update
<1>7. CASE Refuse(h)
  BY <1>1, <1>7, ReturnsOnly DEF Refuse
<1>8. CASE PostRefused(h)
  BY <1>1, <1>8, ReturnsOnly DEF PostRefused
<1>9. CASE Insert(h)
  BY <1>1, <1>9, InsertWrites, ReturnsWrite DEF Insert
<1>10. CASE Abandon(h)
  BY <1>1, <1>10, ReturnsOnly DEF Abandon
<1>11. CASE SessionMissed(h)
  BY <1>1, <1>11, ReturnsOnly DEF SessionMissed
<1>12. CASE CommitUnacknowledged(h)
  BY <1>1, <1>12, InsertWrites, UpdateWrites, ReturnsWrite DEF CommitUnacknowledged
<1>13. CASE GetFetchFails(h)
  BY <1>1, <1>2, <1>13, ReturnsAnswer DEF GetFetchFails, Working, Reporting,
     Replaying, GetPcs
<1>14. CASE GetUpdate(h)
  BY <1>1, <1>14, OverwriteWrites, ReturnsWrite DEF GetUpdate
<1>15. CASE GetUpdateFails(h)
  BY <1>1, <1>2, <1>15, ReturnsAnswer DEF GetUpdateFails, Working, Reporting,
     Replaying, GetPcs
<1> QED
  BY <1>3, <1>4, <1>5, <1>6, <1>7, <1>8, <1>9, <1>10, <1>11, <1>12, <1>13, <1>14,
     <1>15

\* The posts under way are the same, and so is who is authorised.
LEMMA PostsStay ==
  ASSUME IInv, UNCHANGED <<posted, partyVars>>
  PROVE  PostsAuthorised'
  BY DEF IInv, PostsAuthorised, Authorised, partyVars, participantVars

\* A request arrives, gets its connection and its lock, or loses it.
LEMMA HandlerEnters ==
  ASSUME IInv, NEW h \in Handlers,
         \/ \E k \in Keys, q \in Requests : Receive(h, k, q)
         \/ Begin(h) \/ AcquireLock(h) \/ LookupMiss(h) \/ RetryFails(h)
         \/ SessionLost(h)
  PROVE  IInv'
<1> USE DEF partyVars, participantVars, routerVars, local
<1>1. TypeOK /\ Working(h)
  BY DEF IInv, AllWorking
<1>2. ASSUME NEW k \in Keys, NEW q \in Requests, Receive(h, k, q)
      PROVE  IInv'
  <2> DEFINE f == [p \in Parties |-> known[k][p] \cup {participants[p]}]
  <2>1. /\ known' = [known EXCEPT ![k] = f]
        /\ f \in [Parties -> SUBSET (Participant \cup {NoParticipant})]
        /\ \A p \in Parties : f[p] = known[k][p] \cup {participants[p]}
        /\ UNCHANGED participants
    BY <1>1, <1>2 DEF Receive, TypeOK, ParticipantsTypeOK
  <2> HIDE DEF f
  <2>2. KnownGrows /\ RowsKnown' /\ \A p \in Parties : known'[k][p] # {}
    BY <1>1, <2>1 DEF TypeOK, IInv, KnownGrows, RowsKnown
  <2>3. known' \in [Keys -> [Parties -> SUBSET (Participant \cup {NoParticipant})]]
    BY <1>1, <2>1 DEF TypeOK
  <2>4. TypeOK'
    BY <1>1, <1>2, <2>3 DEF Receive, Goto, TypeOK, ParticipantsTypeOK, Pcs
  <2>5. Working(h)'
    BY <1>1, <1>2, <2>2 DEF Receive, Goto, TypeOK, Working, Reporting, Replaying,
       GetPcs, CreatePcs
  <2>6. \A g \in Handlers : g # h => Still(g)
    BY <1>1, <1>2 DEF Receive, Goto, TypeOK, Still
  <2>7. PostsAuthorised'
    BY <1>2, <2>2, PostsStayAuthorised DEF Receive
  <2> QED
    BY <1>2, <2>2, <2>4, <2>5, <2>6, <2>7, MovesAndLearns DEF Receive
<1>3. CASE Begin(h)
  <2>1. TypeOK'
    BY <1>1, <1>3 DEF Begin, Goto, TypeOK, ParticipantsTypeOK, Pcs, CreatePcs
  <2>2. Working(h)'
    BY <1>1, <1>3 DEF Begin, Goto, TypeOK, Working, Reporting, Replaying, GetPcs,
       CreatePcs
  <2>3. \A g \in Handlers : g # h => Still(g)
    BY <1>1, <1>3 DEF Begin, Goto, TypeOK, Still
  <2> QED
    BY <1>3, <2>1, <2>2, <2>3, PostsStay, Moves DEF Begin
<1>4. CASE AcquireLock(h)
  <2>1. TypeOK'
    BY <1>1, <1>4 DEF AcquireLock, Goto, TypeOK, ParticipantsTypeOK, Pcs, CreatePcs
  <2>2. Working(h)'
    BY <1>1, <1>4 DEF AcquireLock, Goto, TypeOK, Working, Reporting, Replaying,
       GetPcs, CreatePcs
  <2>3. \A g \in Handlers : g # h => Still(g)
    BY <1>1, <1>4 DEF AcquireLock, Goto, TypeOK, Still
  <2> QED
    BY <1>4, <2>1, <2>2, <2>3, PostsStay, Moves DEF AcquireLock
<1>5. CASE LookupMiss(h)
  <2>1. TypeOK'
    BY <1>1, <1>5 DEF LookupMiss, Goto, TypeOK, ParticipantsTypeOK, Pcs, CreatePcs
  <2>2. Working(h)'
    BY <1>1, <1>5 DEF LookupMiss, Goto, TypeOK, Working, Reporting, Replaying,
       GetPcs, CreatePcs
  <2>3. \A g \in Handlers : g # h => Still(g)
    BY <1>1, <1>5 DEF LookupMiss, Goto, TypeOK, Still
  <2> QED
    BY <1>5, <2>1, <2>2, <2>3, PostsStay, Moves DEF LookupMiss
<1>6. CASE RetryFails(h)
  <2>1. TypeOK'
    BY <1>1, <1>6, OperatorAssumption DEF OperatorAssumption, RetryFails, Fault,
       Goto, TypeOK, ParticipantsTypeOK, Pcs, CreatePcs
  <2>2. Working(h)'
    BY <1>1, <1>6 DEF RetryFails, Goto, TypeOK, Working, Reports, Reporting,
       Replaying, GetPcs, CreatePcs
  <2>3. \A g \in Handlers : g # h => Still(g)
    BY <1>1, <1>6 DEF RetryFails, Goto, TypeOK, Still
  <2> QED
    BY <1>6, <2>1, <2>2, <2>3, PostsStay, Moves DEF RetryFails
<1>7. CASE SessionLost(h)
  <2>1. TypeOK'
    BY <1>1, <1>7, OperatorAssumption DEF OperatorAssumption, SessionLost, Fault,
       Session, TypeOK, ParticipantsTypeOK, Locks
  <2>2. Working(h)'
    <3>1. Grows /\ KnownGrows /\ OrdersStay /\ Still(h)
      BY <1>7 DEF SessionLost, routerVars, local, Grows, KnownGrows, OrdersStay, Still
    <3> QED
      BY <1>1, <3>1, WorkingStays
  <2>3. \A g \in Handlers : g # h => Still(g)
    BY <1>7 DEF SessionLost, Still
  <2> QED
    BY <1>7, <2>1, <2>2, <2>3, PostsStay, Moves DEF SessionLost
<1> QED
  BY <1>2, <1>3, <1>4, <1>5, <1>6, <1>7

\* A handler takes over what an order or the router says of its payment.
LEMMA HandlerLearns ==
  ASSUME IInv, NEW h \in Handlers,
         \/ LookupPending(h) \/ FetchSettled(h) \/ RetryAnswered(h)
         \/ PostAnswered(h) \/ GetFetch(h) \/ \E k \in Keys : GetLookup(h, k)
  PROVE  IInv'
<1> USE DEF partyVars, participantVars, routerVars, local
<1>1. TypeOK /\ Working(h)
  BY DEF IInv, AllWorking
<1>2. CASE LookupPending(h)
  <2>1. /\ req[h].key \in Keys /\ req[h].request \in Requests
        /\ orders[req[h].key] # NoOrder /\ req[h].request = Order(h).request
    BY <1>1, <1>2 DEF LookupPending, Working, CreatePcs, Order, NoOrder
  <2>2. /\ Reports(req[h].key, Shown(Order(h))) /\ Shown(Order(h)) \in Responses
        /\ req[h].request = payments[req[h].key].payload.request
    BY <2>1, OrderReports DEF Order
  <2>3. TypeOK'
    BY <1>1, <1>2, <2>2 DEF LookupPending, Goto, TypeOK, ParticipantsTypeOK, Pcs,
       CreatePcs
  <2>4. Working(h)'
    BY <1>1, <1>2, <2>1, <2>2 DEF LookupPending, Goto, TypeOK, Working, Reports,
       Reporting, Replaying, GetPcs, CreatePcs
  <2>5. \A g \in Handlers : g # h => Still(g)
    BY <1>1, <1>2 DEF LookupPending, Goto, TypeOK, Still
  <2> QED
    BY <1>2, <2>3, <2>4, <2>5, PostsStay, Moves DEF LookupPending
<1>3. CASE FetchSettled(h)
  <2>1. PICK k \in Keys : /\ payments[k].id = out[h].id
                          /\ payments[k].status \in Terminal
                          /\ out' = [out EXCEPT ![h] = Shown(payments[k])]
    BY <1>3 DEF FetchSettled
  <2>2. k = req[h].key
    BY <1>3, <2>1, FetchesItsOwn DEF FetchSettled, Reporting
  <2>3. Reports(k, Shown(payments[k])) /\ Shown(payments[k]) \in Responses
    BY <1>1, <2>1, ShownReports DEF Terminal
  <2>4. TypeOK'
    BY <1>1, <1>3, <2>1, <2>3 DEF FetchSettled, Goto, TypeOK, ParticipantsTypeOK, Pcs,
       CreatePcs
  <2>5. Working(h)'
    BY <1>1, <1>3, <2>1, <2>2, <2>3 DEF FetchSettled, Goto, TypeOK, Working, Reports,
       Reporting, Replaying, GetPcs, CreatePcs
  <2>6. \A g \in Handlers : g # h => Still(g)
    BY <1>1, <1>3, <2>1 DEF FetchSettled, Goto, TypeOK, Still
  <2> QED
    BY <1>3, <2>4, <2>5, <2>6, PostsStay, Moves DEF FetchSettled
<1>4. CASE RetryAnswered(h)
  <2>1. PICK o \in RouterAnswers(Payment(h)) : out' = [out EXCEPT ![h] = o]
    BY <1>4 DEF RetryAnswered
  <2>2. req[h].key \in Keys /\ payments[req[h].key].status # "NONE"
    BY <1>1, <1>4 DEF RetryAnswered, Working, Reports, Reporting
  <2>3. Reports(req[h].key, o) /\ o \in Responses
    BY <1>1, <2>1, <2>2, AnswersReport DEF Payment
  <2>4. TypeOK'
    BY <1>1, <1>4, <2>1, <2>3 DEF RetryAnswered, Goto, TypeOK, ParticipantsTypeOK,
       Pcs, CreatePcs
  <2>5. Working(h)'
    BY <1>1, <1>4, <2>1, <2>2, <2>3 DEF RetryAnswered, Goto, TypeOK, Working, Reports,
       Reporting, Replaying, GetPcs, CreatePcs
  <2>6. \A g \in Handlers : g # h => Still(g)
    BY <1>1, <1>4, <2>1 DEF RetryAnswered, Goto, TypeOK, Still
  <2> QED
    BY <1>4, <2>4, <2>5, <2>6, PostsStay, Moves DEF RetryAnswered
<1>5. CASE PostAnswered(h)
  <2>1. PICK o \in RouterAnswers(Payment(h)) : out' = [out EXCEPT ![h] = o]
    BY <1>5 DEF PostAnswered
  <2>2. /\ req[h].key \in Keys /\ payments[req[h].key].payload \in Payloads
        /\ payments[req[h].key].payload.request = req[h].request
    BY <1>1, <1>5 DEF PostAnswered, Payment, Working
  <2>3. payments[req[h].key].status # "NONE"
    BY <2>2, OperatorAssumption DEF OperatorAssumption, IInv, PaymentsDistinct,
       Router!NoPayment
  <2>4. Reports(req[h].key, o) /\ o \in Responses
    BY <1>1, <2>1, <2>2, <2>3, AnswersReport DEF Payment
  <2>5. TypeOK'
    BY <1>1, <1>5, <2>1, <2>4 DEF PostAnswered, Goto, TypeOK, ParticipantsTypeOK,
       Pcs, CreatePcs
  <2>6. Working(h)'
    BY <1>1, <1>5, <2>1, <2>2, <2>4 DEF PostAnswered, Goto, TypeOK, Working, Reports,
       Reporting, Replaying, GetPcs, CreatePcs
  <2>7. \A g \in Handlers : g # h => Still(g)
    BY <1>1, <1>5, <2>1 DEF PostAnswered, Goto, TypeOK, Still
  <2> QED
    BY <1>5, <2>5, <2>6, <2>7, PostsStay, Moves DEF PostAnswered
<1>6. CASE GetFetch(h)
  <2>1. PICK k \in Keys : /\ payments[k].id = out[h].id
                          /\ out' = [out EXCEPT ![h] = Shown(payments[k])]
    BY <1>6 DEF GetFetch
  <2>2. k = req[h].key
    BY <1>6, <2>1, FetchesItsOwn DEF GetFetch, Reporting, GetPcs
  <2>3. payments[k].status # "NONE"
    BY <1>1, <1>6, <2>2 DEF GetFetch, Working, Reports, Reporting, GetPcs
  <2>4. Reports(k, Shown(payments[k])) /\ Shown(payments[k]) \in Responses
    BY <1>1, <2>3, ShownReports
  <2>5. TypeOK'
    BY <1>1, <1>6, <2>1, <2>4 DEF GetFetch, Goto, TypeOK, ParticipantsTypeOK, Pcs
  <2>6. Working(h)'
    BY <1>1, <1>6, <2>1, <2>2, <2>4 DEF GetFetch, Goto, TypeOK, Working, Reports,
       Reporting, Replaying, GetPcs, CreatePcs
  <2>7. \A g \in Handlers : g # h => Still(g)
    BY <1>1, <1>6, <2>1 DEF GetFetch, Goto, TypeOK, Still
  <2> QED
    BY <1>6, <2>5, <2>6, <2>7, PostsStay, Moves DEF GetFetch
<1>7. ASSUME NEW k \in Keys, GetLookup(h, k) PROVE IInv'
  <2> DEFINE o == [id |-> orders[k].payment, status |-> orders[k].status,
                   gateway |-> orders[k].gateway, ref |-> orders[k].ref]
  <2>1. orders[k] # NoOrder /\ out' = [out EXCEPT ![h] = o]
    BY <1>7 DEF GetLookup
  <2>2. Reports(k, o) /\ o \in Responses
    BY <2>1, OrderReports
  <2> HIDE DEF o
  <2>3. TypeOK'
    BY <1>1, <1>7, <2>1, <2>2 DEF GetLookup, Goto, TypeOK, ParticipantsTypeOK, Pcs
  <2>4. Working(h)'
    BY <1>1, <1>7, <2>1, <2>2 DEF GetLookup, Goto, TypeOK, Working, Reports,
       Reporting, Replaying, GetPcs, CreatePcs
  <2>5. \A g \in Handlers : g # h => Still(g)
    BY <1>1, <1>7, <2>1 DEF GetLookup, Goto, TypeOK, Still
  <2> QED
    BY <1>7, <2>3, <2>4, <2>5, PostsStay, Moves DEF GetLookup
<1> QED
  BY <1>2, <1>3, <1>4, <1>5, <1>6, <1>7

\* What posting does.
LEMMA PostEffect ==
  ASSUME TypeOK, NEW h \in Handlers, req[h].key \in Keys, NEW p \in Payloads,
         Post(h, p)
  PROVE  /\ internal' \in [Handlers -> Payloads \cup {None}]
         /\ internal'[h] = p
         /\ posted' \subseteq [by : Handlers, key : Keys, payload : Payloads]
         /\ \A m \in posted' : m \in posted \/ (m.key = req[h].key /\ m.payload = p)
         /\ \A g \in Handlers : g # h => internal'[g] = internal[g]
<1> DEFINE e == [by |-> h, key |-> req[h].key, payload |-> p]
<1>1. /\ posted' = posted \cup {e} /\ e.key = req[h].key /\ e.payload = p
      /\ e \in [by : Handlers, key : Keys, payload : Payloads]
  BY DEF Post
<1> HIDE DEF e
<1>2. \A m \in posted' : m \in posted \/ (m.key = req[h].key /\ m.payload = p)
  BY <1>1
<1> QED
  BY <1>1, <1>2 DEF TypeOK, Post

\* A handler looks the participants up and posts, or posts what the router has.
LEMMA HandlerPosts ==
  ASSUME IInv, NEW h \in Handlers,
         FetchPending(h) \/ LookupDebtor(h) \/ LookupCreditor(h)
  PROVE  IInv'
<1> USE DEF partyVars, participantVars
<1>1. TypeOK /\ Working(h)
  BY DEF IInv, AllWorking
<1>2. CASE FetchPending(h)
  <2>1. PICK k \in Keys : /\ payments[k].id = out[h].id
                          /\ payments[k].status = "PENDING"
                          /\ out' = [out EXCEPT ![h] = Shown(payments[k])]
                          /\ Post(h, payments[k].payload)
    BY <1>2 DEF FetchPending
  <2>2. k = req[h].key
    BY <1>2, <2>1, FetchesItsOwn DEF FetchPending, Reporting
  <2>3. Reports(k, Shown(payments[k])) /\ Shown(payments[k]) \in Responses
    BY <1>1, <2>1, ShownReports
  <2>4. payments[k].payload \in Payloads /\ Authorised(k, payments[k].payload)
    BY <2>1 DEF IInv, PaymentsDistinct, AuthorisedPayments
  <2>5. /\ internal' \in [Handlers -> Payloads \cup {None}]
        /\ posted' \subseteq [by : Handlers, key : Keys, payload : Payloads]
        /\ \A m \in posted' : m \in posted \/ (m.key = k /\ m.payload = payments[k].payload)
        /\ \A g \in Handlers : g # h => internal'[g] = internal[g]
    BY <1>1, <2>1, <2>2, <2>4, PostEffect
  <2>6. TypeOK'
    BY <1>1, <1>2, <2>1, <2>3, <2>5 DEF FetchPending, Goto, TypeOK,
       ParticipantsTypeOK, Pcs, CreatePcs
  <2>7. Working(h)'
    BY <1>1, <1>2, <2>1, <2>2, <2>3 DEF FetchPending, Goto, TypeOK, Working, Reports,
       Reporting, Replaying, GetPcs, CreatePcs
  <2>8. \A g \in Handlers : g # h => Still(g)
    BY <1>1, <1>2, <2>1, <2>5 DEF FetchPending, Goto, TypeOK, Still
  <2>9. PostsAuthorised'
    BY <1>2, <2>4, <2>5 DEF FetchPending, IInv, PostsAuthorised, Authorised
  <2> QED
    BY <1>2, <2>6, <2>7, <2>8, <2>9, Moves DEF FetchPending
<1>3. CASE LookupDebtor(h)
  <2> DEFINE d == req[h].request.debtor
  <2>1. d \in Parties
    BY <1>1, <1>3, OperatorAssumption DEF OperatorAssumption, LookupDebtor, Working,
       CreatePcs
  <2>2. participants[d].active /\ participants[d] # NoParticipant
    BY <1>3 DEF LookupDebtor, Served, NoParticipant
  <2>3. /\ participants[d] \in known[req[h].key][d]
        /\ participants[d] \in Participant
    BY <1>1, <1>3, <2>1, <2>2 DEF LookupDebtor, Working, CreatePcs, IInv, RowsKnown,
       TypeOK, ParticipantsTypeOK
  <2>4. debtor' = [debtor EXCEPT ![h] = participants[d]]
    BY <1>3 DEF LookupDebtor
  <2>5. TypeOK'
    BY <1>1, <1>3, <2>3, <2>4 DEF LookupDebtor, Goto, TypeOK, ParticipantsTypeOK,
       Pcs, CreatePcs, routerVars
  <2>6. Working(h)'
    BY <1>1, <1>3, <2>2, <2>3, <2>4 DEF LookupDebtor, Goto, TypeOK, Working,
       Reporting, Replaying, GetPcs, CreatePcs
  <2>7. \A g \in Handlers : g # h => Still(g)
    BY <1>1, <1>3, <2>4 DEF LookupDebtor, Goto, TypeOK, Still
  <2> QED
    BY <1>3, <2>5, <2>6, <2>7, PostsStay, Moves DEF LookupDebtor, routerVars
<1>4. CASE LookupCreditor(h)
  <2> DEFINE d == req[h].request.debtor
             c == req[h].request.creditor
             p == [request |-> req[h].request, instrument |-> debtor[h].instrument]
  <2>1. /\ req[h].key \in Keys /\ req[h].request \in Requests
        /\ d \in Parties /\ c \in Parties
    BY <1>1, <1>4, OperatorAssumption DEF OperatorAssumption, LookupCreditor, Working,
       CreatePcs
  <2>2. /\ debtor[h] \in known[req[h].key][d] /\ debtor[h].active
        /\ "debtor" \in debtor[h].roles
    BY <1>1, <1>4 DEF LookupCreditor, Working, HasRole
  <2>3. debtor[h].instrument \in Instruments
    BY <1>1, <2>2 DEF TypeOK, Participant, NoParticipant
  <2>4. /\ participants[c] \in known[req[h].key][c] /\ participants[c].active
        /\ "creditor" \in participants[c].roles
    BY <1>1, <1>4, <2>1 DEF LookupCreditor, Served, HasRole, Working, CreatePcs, IInv,
       RowsKnown
  <2>5. p \in Payloads
    BY <2>1, <2>3 DEF Payloads
  <2>6. Authorised(req[h].key, p)
    BY <2>2, <2>4 DEF Authorised
  <2>7. p.request = req[h].request /\ Post(h, p)
    BY <1>4 DEF LookupCreditor
  <2> HIDE DEF p
  <2>8. /\ internal' \in [Handlers -> Payloads \cup {None}] /\ internal'[h] = p
        /\ posted' \subseteq [by : Handlers, key : Keys, payload : Payloads]
        /\ \A m \in posted' : m \in posted \/ (m.key = req[h].key /\ m.payload = p)
        /\ \A g \in Handlers : g # h => internal'[g] = internal[g]
    BY <1>1, <2>1, <2>5, <2>7, PostEffect
  <2>9. TypeOK'
    BY <1>1, <1>4, <2>8 DEF LookupCreditor, Goto, TypeOK, ParticipantsTypeOK, Pcs,
       CreatePcs
  <2>10. Working(h)'
    <3>1. Authorised(req[h].key, internal[h])'
      BY <1>4, <2>6, <2>8 DEF LookupCreditor, Authorised
    <3> QED
      BY <1>1, <1>4, <2>5, <2>7, <2>8, <3>1 DEF LookupCreditor, Goto, TypeOK, Working,
         Reporting, Replaying, GetPcs, CreatePcs
  <2>11. \A g \in Handlers : g # h => Still(g)
    BY <1>1, <1>4, <2>8 DEF LookupCreditor, Goto, TypeOK, Still
  <2>12. PostsAuthorised'
    BY <1>4, <2>6, <2>8 DEF LookupCreditor, IInv, PostsAuthorised, Authorised
  <2> QED
    BY <1>4, <2>9, <2>10, <2>11, <2>12, Moves DEF LookupCreditor
<1> QED
  BY <1>2, <1>3, <1>4

\* The router's table of payments, absent ones included.
PaymentRows == [id : Ids \cup {None}, payload : Payloads \cup {None},
                status : Statuses \cup {"NONE"}, gateway : Gateways \cup {None},
                ref : Refs \cup {None}]

\* Where payments only grow and nothing else but the posts moves, the invariant
\* stays.
LEMMA RouterKeeps ==
  ASSUME IInv, UNCHANGED routerCallers, posted' \subseteq posted,
         payments' \in [Keys -> PaymentRows], charging' \subseteq Keys,
         faults' \in 0..MaxFaults, Grows, PaymentsDistinct', AuthorisedPayments'
  PROVE  IInv'
<1> USE DEF routerCallers, local, partyVars, participantVars
<1>1. TypeOK'
  BY DEF IInv, TypeOK, ParticipantsTypeOK, PaymentRows
<1>2. KnownGrows /\ OrdersStay /\ \A h \in Handlers : Still(h)
  BY DEF KnownGrows, OrdersStay, Still
<1>3. AllWorking'
  BY <1>2, WorkingStays DEF IInv, AllWorking
<1>4. OrdersBacked' /\ OrdersTellTruth'
  BY DEF IInv, OrdersBacked, OrdersTellTruth, Grows, Agrees
<1>5. AnswersAreTrue'
  <2> SUFFICES ASSUME NEW a \in answers
               PROVE  /\ orders[a.key].id = a.id
                      /\ a.request # None =>
                           a.request = payments'[a.key].payload.request
                      /\ a.gateway = payments'[a.key].gateway
                      /\ Agrees(payments'[a.key], a.status, a.ref)
    BY DEF AnswersAreTrue, Agrees
  <2>1. /\ a.key \in Keys /\ a.id \in Ids /\ orders[a.key].id = a.id
        /\ a.request # None => a.request = payments[a.key].payload.request
        /\ a.gateway = payments[a.key].gateway
        /\ Agrees(payments[a.key], a.status, a.ref)
    BY DEF IInv, TypeOK, AnswersAreTrue
  <2>2. orders[a.key] # NoOrder
    BY <2>1, OperatorAssumption DEF OperatorAssumption, NoOrder
  <2>3. payments[a.key].status # "NONE"
    BY <2>1, <2>2 DEF IInv, OrdersBacked
  <2> QED
    BY <2>1, <2>3 DEF Grows, Agrees
<1>6. RowsKnown' /\ PostsAuthorised'
  BY DEF IInv, RowsKnown, PostsAuthorised, Authorised
<1> QED
  BY <1>1, <1>3, <1>4, <1>5, <1>6 DEF IInv

\* A post arrives at the router, or is lost, or the router stops working on a
\* payment without a result: the payments stay as they are.
LEMMA RouterIdles ==
  ASSUME IInv,
         \/ \E m \in posted : RouterRecovers(m) \/ RouterPasses(m) \/ RouterDrops(m)
         \/ \E k \in Keys : RouterGivesUp(k)
  PROVE  IInv'
<1>1. TypeOK /\ (Fault => faults' \in 0..MaxFaults)
  BY OperatorAssumption DEF OperatorAssumption, IInv, TypeOK, Fault
<1>2. /\ UNCHANGED <<routerCallers, payments>> /\ posted' \subseteq posted
      /\ charging' \subseteq Keys /\ faults' \in 0..MaxFaults
  BY <1>1 DEF TypeOK, RouterRecovers, RouterPasses, RouterDrops, RouterGivesUp
<1>3. payments' \in [Keys -> PaymentRows] /\ Grows /\ PaymentsDistinct'
  BY <1>1, <1>2 DEF TypeOK, PaymentRows, Grows, IInv, PaymentsDistinct
<1>4. AuthorisedPayments'
  BY <1>2 DEF IInv, AuthorisedPayments, Authorised, routerCallers,
     partyVars, participantVars
<1> QED
  BY <1>2, <1>3, <1>4, RouterKeeps

LEMMA RouterReservesKeeps ==
  ASSUME IInv, NEW m \in posted, NEW id \in Ids, RouterReserves(m, id)
  PROVE  IInv'
<1> DEFINE g == GatewayFor(m.payload.instrument)
           r == [id |-> id, payload |-> m.payload, status |-> "PENDING",
                 gateway |-> g, ref |-> None]
<1>1. /\ TypeOK /\ m.key \in Keys /\ m.payload \in Payloads /\ g \in Gateways
      /\ Authorised(m.key, m.payload)
  BY DEF IInv, TypeOK, PostsAuthorised, GatewayFor, Gateways
<1>2. /\ payments[m.key] = Router!NoPayment /\ \A j \in Keys : payments[j].id # id
      /\ payments' = [payments EXCEPT ![m.key] = r]
      /\ posted' \subseteq posted /\ charging' \subseteq Keys
      /\ UNCHANGED <<routerCallers, faults>>
  BY <1>1 DEF RouterReserves, Router!Reserve, TypeOK
<1>3. /\ r \in PaymentRows /\ r.status = "PENDING" /\ r.id = id
      /\ r.payload = m.payload /\ r.gateway = g
  BY <1>1 DEF PaymentRows, Statuses
<1> HIDE DEF r, g
<1>4. payments' \in [Keys -> PaymentRows]
  BY <1>1, <1>2, <1>3 DEF TypeOK, PaymentRows
<1>5. Grows
  BY <1>1, <1>2 DEF Grows, TypeOK, Router!NoPayment
<1>6. PaymentsDistinct'
  BY <1>1, <1>2, <1>3 DEF IInv, PaymentsDistinct, TypeOK, Router!NoPayment
<1>7. AuthorisedPayments'
  <2>1. \A k \in Keys : payments'[k].status # "NONE" =>
                          Authorised(k, payments'[k].payload)
    BY <1>1, <1>2, <1>3 DEF IInv, AuthorisedPayments, TypeOK
  <2> QED
    BY <1>2, <2>1 DEF AuthorisedPayments, Authorised, routerCallers,
       partyVars, participantVars
<1> QED
  BY <1>1, <1>2, <1>4, <1>5, <1>6, <1>7, RouterKeeps DEF TypeOK

LEMMA RouterSettlesKeeps ==
  ASSUME IInv, NEW k \in Keys, NEW s \in Router!Settlements, RouterSettles(k, s)
  PROVE  IInv'
<1> DEFINE r == [payments[k] EXCEPT !.status = s.status, !.ref = s.ref]
<1>1. TypeOK /\ payments[k] \in PaymentRows /\ payments[k].status = "PENDING"
  BY DEF IInv, TypeOK, PaymentRows, RouterSettles, Router!Settle
<1>2. s.status \in Terminal /\ s.ref \in Refs \cup {None}
  BY DEF Router!Settlements, Terminal
<1>3. /\ payments' = [payments EXCEPT ![k] = r]
      /\ posted' \subseteq posted /\ charging' \subseteq Keys
      /\ UNCHANGED <<routerCallers, faults>>
  BY <1>1 DEF RouterSettles, Router!Settle, TypeOK
<1>4. /\ r \in PaymentRows /\ r.status # "NONE" /\ r.id = payments[k].id
      /\ r.payload = payments[k].payload /\ r.gateway = payments[k].gateway
  BY <1>1, <1>2 DEF PaymentRows, Statuses, Terminal
<1> HIDE DEF r
<1>5. payments' \in [Keys -> PaymentRows]
  BY <1>1, <1>3, <1>4 DEF TypeOK, PaymentRows
<1>6. Grows
  BY <1>1, <1>3, <1>4 DEF Grows, TypeOK, Terminal
<1>7. PaymentsDistinct'
  BY <1>1, <1>3, <1>4 DEF IInv, PaymentsDistinct, TypeOK
<1>8. AuthorisedPayments'
  <2>1. \A j \in Keys : payments'[j].status # "NONE" =>
                          Authorised(j, payments'[j].payload)
    BY <1>1, <1>3, <1>4 DEF IInv, AuthorisedPayments, TypeOK
  <2> QED
    BY <1>3, <2>1 DEF AuthorisedPayments, Authorised, routerCallers,
       partyVars, participantVars
<1> QED
  BY <1>1, <1>3, <1>5, <1>6, <1>7, <1>8, RouterKeeps DEF TypeOK

\* Participants change: what was authorised stays authorised.
LEMMA ParticipantsKeep == ASSUME IInv, ParticipantsChange PROVE IInv'
<1> USE DEF ParticipantsChange, local, routerVars
<1>1. TypeOK /\ ParticipantsTypeOK /\ RowsKnown
  BY DEF IInv, TypeOK
<1>2. ParticipantsTypeOK'
  <2>1. CASE Seed
    <3> DEFINE table == [p \in Parties |-> SeedRow(p, participants[p])]
    <3>1. table \in [Parties -> Participant \cup {NoParticipant}]
      BY <1>1, SeedRowType DEF ParticipantsTypeOK
    <3> QED
      BY <1>1, <2>1, <3>1 DEF Seed, ParticipantsTypeOK
  <2>2. ASSUME NEW p \in Parties, NEW d \in Drafts, Save(p, d)
        PROVE  ParticipantsTypeOK'
    <3> DEFINE r == [instrument |-> d.instrument, roles |-> NormalizeRoles(d.roles),
                     active |-> d.active]
    <3>1. r \in Participant
      BY <2>2, ParticipantsAssumption DEF ParticipantsAssumption, Save,
         ValidateParticipant, Participant
    <3>2. participants' = [participants EXCEPT ![p] = r]
      BY <2>2 DEF Save
    <3> HIDE DEF r
    <3>3. participants' \in [Parties -> Participant \cup {NoParticipant}]
      BY <1>1, <3>1, <3>2 DEF ParticipantsTypeOK
    <3>4. changes' \in 0..MaxChanges
      BY <1>1, <2>2, ParticipantsAssumption DEF ParticipantsAssumption, Save,
         ParticipantsTypeOK
    <3> QED
      BY <3>3, <3>4 DEF ParticipantsTypeOK
  <2> QED
    BY <2>1, <2>2 DEF ParticipantsNext
<1>3. \A k \in Keys, p \in Parties :
        known'[k][p] = IF known[k][p] = {} THEN {}
                       ELSE known[k][p] \cup {participants'[p]}
  OBVIOUS
<1>4. KnownGrows /\ RowsKnown'
  BY <1>3 DEF KnownGrows, RowsKnown
<1>5. known' \in [Keys -> [Parties -> SUBSET (Participant \cup {NoParticipant})]]
  <2>1. \A k \in Keys, p \in Parties :
          (IF known[k][p] = {} THEN {} ELSE known[k][p] \cup {participants'[p]})
            \in SUBSET (Participant \cup {NoParticipant})
    BY <1>1, <1>2 DEF TypeOK, ParticipantsTypeOK
  <2> QED
    BY <2>1
<1>6. TypeOK'
  BY <1>1, <1>2, <1>5 DEF TypeOK
<1>7. Grows /\ OrdersStay /\ \A h \in Handlers : Still(h)
  BY DEF Grows, OrdersStay, Still
<1>8. AllWorking'
  BY <1>4, <1>7, WorkingStays DEF IInv, AllWorking
<1>9. PaymentsDistinct' /\ OrdersBacked' /\ OrdersTellTruth' /\ AnswersAreTrue'
  BY DEF IInv, PaymentsDistinct, OrdersBacked, OrdersTellTruth, AnswersAreTrue, Agrees
<1>10. PostsAuthorised' /\ AuthorisedPayments'
  BY <1>4, PostsStayAuthorised, PaymentsStayAuthorised
<1> QED
  BY <1>4, <1>6, <1>8, <1>9, <1>10 DEF IInv

LEMMA NextIInv == IInv /\ [Next]_vars => IInv'
<1> SUFFICES ASSUME IInv, [Next]_vars PROVE IInv'
  OBVIOUS
<1>1. ASSUME NEW h \in Handlers,
             \/ \E k \in Keys, q \in Requests : Receive(h, k, q)
             \/ \E k \in Keys : GetLookup(h, k)
             \/ Begin(h) \/ AcquireLock(h) \/ GetUpdate(h) \/ Handle(h) \/ Fail(h)
      PROVE  IInv'
  BY <1>1, HandlerReturns, HandlerEnters, HandlerLearns, HandlerPosts DEF Handle, Fail
<1>2. CASE Deliver
  BY <1>2, RouterReservesKeeps, RouterIdles DEF Deliver
<1>3. CASE \E m \in posted : RouterDrops(m)
  BY <1>3, RouterIdles
<1>4. ASSUME NEW k \in Keys, RouterSettle(k) \/ RouterGivesUp(k) PROVE IInv'
  BY <1>4, RouterSettlesKeeps, RouterIdles DEF RouterSettle
<1>5. CASE ParticipantsChange
  BY <1>5, ParticipantsKeep
<1>6. CASE UNCHANGED vars
  <2> USE <1>6 DEF vars, local, routerVars, partyVars, participantVars
  <2>1. TypeOK'
    BY DEF IInv, TypeOK, ParticipantsTypeOK
  <2>2. Grows /\ KnownGrows /\ OrdersStay /\ \A h \in Handlers : Still(h)
    BY DEF Grows, KnownGrows, OrdersStay, Still
  <2>3. AllWorking'
    BY <2>2, WorkingStays DEF IInv, AllWorking
  <2>4. PaymentsDistinct' /\ OrdersBacked' /\ OrdersTellTruth' /\ AnswersAreTrue'
    BY DEF IInv, PaymentsDistinct, OrdersBacked, OrdersTellTruth, AnswersAreTrue,
       Agrees
  <2>5. RowsKnown' /\ PostsAuthorised' /\ AuthorisedPayments'
    BY DEF IInv, RowsKnown, PostsAuthorised, AuthorisedPayments, Authorised
  <2> QED
    BY <2>1, <2>3, <2>4, <2>5 DEF IInv
<1> QED
  BY <1>1, <1>2, <1>3, <1>4, <1>5, <1>6 DEF Next

LEMMA SpecIInv == Spec => []IInv
  BY InitIInv, NextIInv, PTL DEF Spec

------------------------------------------------------------------------------
(***************************************************************************)
(* Theorems.                                                               *)
(***************************************************************************)
(***************************************************************************)
(* The tables of the operator and of the participant manager, what         *)
(* handlers work on and every answer have their types: in particular no    *)
(* answer goes out without a payment id, a gateway and a definite or       *)
(* pending status.                                                         *)
(***************************************************************************)
THEOREM OperatorTypes == Spec => []TypeOK
<1>1. IInv => TypeOK
  BY DEF IInv
<1> QED
  BY <1>1, SpecIInv, PTL

(***************************************************************************)
(* An order never says more than the router: whatever create and get write *)
(* over each other, with locks lost, answers late and commits              *)
(* unacknowledged, an order names the payment, request and gateway of its  *)
(* key, and a settled one shows the router's settlement.                   *)
(***************************************************************************)
THEOREM OrdersTrue == Spec => []OrdersTellTruth
<1>1. IInv => OrdersTellTruth
  BY DEF IInv
<1> QED
  BY <1>1, SpecIInv, PTL

(***************************************************************************)
(* Every answer a client has got from create or get is about its own       *)
(* request, has an order, and, if definite, stays what the router settled. *)
(***************************************************************************)
THEOREM AnswersTrue == Spec => []AnswersAreTrue
<1>1. IInv => AnswersAreTrue
  BY DEF IInv
<1> QED
  BY <1>1, SpecIInv, PTL

(***************************************************************************)
(* The router only ever has payments whose parties have been registered    *)
(* for them: create checks both roles before it posts, late and repeated   *)
(* posts included, whatever happens to the participants meanwhile.         *)
(***************************************************************************)
THEOREM PaymentsAuthorised == Spec => []AuthorisedPayments
<1>1. IInv => AuthorisedPayments
  BY DEF IInv
<1> QED
  BY <1>1, SpecIInv, PTL

\* No participant has had two instruments since a client first asked for a key.
InstrumentsKept ==
    \A k \in Keys, p \in Parties : \A r, s \in known[k][p] \ {NoParticipant} :
        r.instrument = s.instrument

(***************************************************************************)
(* A client that repeats a payment whose order was lost makes create       *)
(* resolve the debtor again. As long as no participant has changed its     *)
(* instrument since the first request, what it posts is nevertheless the   *)
(* request the router has stored, however roles and activity have changed  *)
(* and whichever post, the late ones included, reserved the payment: a     *)
(* changed instrument is the only thing that makes a repetition differ     *)
(* from the frozen request.                                                *)
(**************************************************************************)
THEOREM ReplayFrozenWhileInstrumentsKept ==
  Spec => [](InstrumentsKept => ReplayUsesFrozenRequest)
<1>1. ASSUME IInv, InstrumentsKept PROVE ReplayUsesFrozenRequest
  <2> SUFFICES ASSUME NEW h \in Handlers, pc[h] = "post",
                      Payment(h).status # "NONE",
                      Payment(h).payload.request = req[h].request
               PROVE  internal[h] = Payment(h).payload
    BY DEF ReplayUsesFrozenRequest
  <2> DEFINE k == req[h].key
             p == internal[h]
             q == Payment(h).payload
  <2>1. /\ k \in Keys /\ p \in Payloads /\ p.request = req[h].request
        /\ Authorised(k, p)
    BY <1>1 DEF IInv, AllWorking, Working
  <2>2. q \in Payloads /\ Authorised(k, q) /\ q.request = p.request
    BY <1>1, <2>1 DEF IInv, PaymentsDistinct, AuthorisedPayments, Payment
  <2>3. p.request.debtor \in Parties
    BY <2>1, OperatorAssumption DEF OperatorAssumption, Payloads
  <2> DEFINE rows == known[k][p.request.debtor] \ {NoParticipant}
  <2>4. /\ \E r \in rows : r.instrument = p.instrument
        /\ \E r \in rows : r.instrument = q.instrument
    <3>1. ~NoParticipant.active
      BY DEF NoParticipant
    <3> QED
      BY <2>1, <2>2, <3>1 DEF Authorised
  <2>5. \A r, s \in rows : r.instrument = s.instrument
    BY <1>1, <2>1, <2>3 DEF InstrumentsKept
  <2>6. p.instrument = q.instrument
    BY <2>4, <2>5
  <2> QED
    BY <2>1, <2>2, <2>6 DEF Payloads
<1> QED
  BY <1>1, SpecIInv, PTL
=============================================================================
