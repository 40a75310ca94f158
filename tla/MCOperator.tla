------------------------------ MODULE MCOperator ------------------------------
(***************************************************************************)
(* Instances of Operator for TLC.                                          *)
(***************************************************************************)
EXTENDS Operator, TLC

CONSTANTS k1, payer, payee

\* The payee is a newcomer, or both are seeded.
MCSeeds == payer :> "card"
MCBothSeeded == (payer :> "card") @@ (payee :> "bank_transfer")

\* The same payment, the same parties with another amount, and an invalid body.
MCRequests == [debtor : {payer}, creditor : {payee}, amount : {0, 1, 2}]
MCOneRequest == [debtor : {payer}, creditor : {payee}, amount : {1}]

\* A participant changes its instrument, its role or becomes inactive; drafts
\* with another spelling, with an unknown role and without any.
MCDrafts ==
    {[instrument |-> "bank_transfer", roles |-> {" Debtor "}, active |-> TRUE],
     [instrument |-> "card", roles |-> {"CREDITOR", ""}, active |-> TRUE],
     [instrument |-> "wallet", roles |-> {"debtor"}, active |-> FALSE],
     [instrument |-> "card", roles |-> {"auditor"}, active |-> TRUE],
     [instrument |-> "card", roles |-> {" "}, active |-> TRUE]}
MCNoDrafts == {}

MCHashText == [k \in Keys |-> 0]

MCSymmetry == Permutations(Handlers)
=============================================================================
