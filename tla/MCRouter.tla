------------------------------ MODULE MCRouter ------------------------------
(***************************************************************************)
(* Small instances of Router for TLC.                                      *)
(***************************************************************************)
EXTENDS Router, TLC

\* One valid payment per gateway and one that validation turns away.
MCPayloads == {[instrument |-> "card", amount |-> 1],
               [instrument |-> "bank_transfer", amount |-> 2],
               [instrument |-> "card", amount |-> 0]}

\* A single valid payment, for the runs about liveness.
MCOnePayload == {[instrument |-> "card", amount |-> 1]}

\* All keys share one lock number: the worst hashtext can do.
MCHashText == [k \in Keys |-> 0]

MCSymmetry == Permutations(Handlers) \cup Permutations(Ids) \cup Permutations(Refs)
=============================================================================
