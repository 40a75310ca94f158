----------------------------- MODULE ChargeLedger -----------------------------
(***************************************************************************)
(* What the payment router relies on a provider for: a ledger with one     *)
(* slot per charge (a provider endpoint and the idempotency key sent with  *)
(* the request).  A slot is settled at most once and its outcome never     *)
(* changes, so a repeated request cannot charge twice and learns what the  *)
(* first one did.  Gateway.tla implements this contract; Router.tla uses   *)
(* it.                                                                     *)
(***************************************************************************)
CONSTANTS
    Charges,    \* the slots
    Refs,       \* references a provider gives to accepted charges
    None        \* no reference, not a member of Refs

VARIABLE ledger

Unsettled == [outcome |-> "UNSETTLED", ref |-> None]
Rejected == [outcome |-> "REJECTED", ref |-> None]
Accepted(r) == [outcome |-> "ACCEPTED", ref |-> r]

\* What a provider may decide about a charge.
Outcomes == {Rejected} \cup {Accepted(r) : r \in Refs}

TypeOK == ledger \in [Charges -> Outcomes \cup {Unsettled}]

Init == ledger = [c \in Charges |-> Unsettled]

\* The provider settles charge c.
Settle(c, o) ==
    /\ ledger[c] = Unsettled
    /\ ledger' = [ledger EXCEPT ![c] = o]

Next == \E c \in Charges, o \in Outcomes : Settle(c, o)

Spec == Init /\ [][Next]_ledger
=============================================================================
