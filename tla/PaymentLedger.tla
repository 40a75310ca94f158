----------------------------- MODULE PaymentLedger -----------------------------
(***************************************************************************)
(* What the payment router promises to its callers: an idempotency key is  *)
(* bound to one request, one payment id and one gateway; the payment is    *)
(* PENDING until it is settled once, and never changes afterwards.  Router *)
(* implements this specification and Operator relies on it.                *)
(***************************************************************************)
CONSTANTS
    Keys,       \* idempotency keys
    Payloads,   \* requests
    Ids,        \* payment ids
    Gateways,   \* providers
    Refs,       \* references of accepted charges
    None        \* nothing

VARIABLE payments

NoPayment == [id |-> None, payload |-> None, status |-> "NONE",
              gateway |-> None, ref |-> None]

\* What a payment may be settled as: a success has a reference, a failure none.
Settlements == [status : {"SUCCEEDED"}, ref : Refs]
                 \cup {[status |-> "FAILED", ref |-> None]}

Init == payments = [k \in Keys |-> NoPayment]

\* The key is used for the first time.
Reserve(k, p, id, g) ==
    /\ payments[k] = NoPayment
    /\ \A j \in Keys : payments[j].id # id
    /\ payments' = [payments EXCEPT ![k] =
                      [id |-> id, payload |-> p, status |-> "PENDING",
                       gateway |-> g, ref |-> None]]

\* The payment is settled.
Settle(k, s) ==
    /\ payments[k].status = "PENDING"
    /\ payments' = [payments EXCEPT ![k].status = s.status, ![k].ref = s.ref]

Next ==
    \E k \in Keys :
        \/ \E p \in Payloads, id \in Ids, g \in Gateways : Reserve(k, p, id, g)
        \/ \E s \in Settlements : Settle(k, s)

Spec == Init /\ [][Next]_payments
=============================================================================
