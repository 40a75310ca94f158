------------------------------ MODULE MCReport ------------------------------
(***************************************************************************)
(* A small instance of Report for TLC.                                     *)
(***************************************************************************)
EXTENDS Report

\* No requests; no failure, 1 % and 2 % of failures.
MCLoads == {[count |-> 0, failures |-> 0], [count |-> 100, failures |-> 0],
            [count |-> 100, failures |-> 1], [count |-> 100, failures |-> 2]}

\* Spans that show the given roles and say they are of trace s.
Spans(s, roles) == {[trace |-> s, role |-> r] : r \in roles}
Whole == [id |-> "t1", spans |-> Spans("t1", Roles)]
Partial == [id |-> "t2", spans |-> Spans("t2", Roles \ {"gateway"})]
Borrowed == [id |-> "t2", spans |-> Spans("t2", Roles \ {"gateway"})
                                      \cup Spans("t1", {"gateway"})]
Unlabelled == [id |-> "t2", spans |-> Spans(None, Roles)]
Nameless == [id |-> None, spans |-> Spans("t1", Roles)]
MCTraces == {{}, {Whole}, {Partial}, {Borrowed}, {Unlabelled}, {Nameless},
             {Whole, Borrowed}}

Sample(d, p, v) ==
    [source |-> "payment-operator", destination |-> d, policy |-> p, value |-> v]
Samples ==
    {Sample(d, "mutual_tls", v) : d \in Hops, v \in {0, 2}}
        \cup {Sample("payment-router", "none", 1), Sample("payment-router", "unknown", 1),
              Sample("elsewhere", "mutual_tls", 1),
              Sample("payment-router", "mutual_tls", -1)}
MCVectors == (SUBSET Samples) \ {{}}

MCEpochs == {0, 29, 30}
MCTotals == 0..2

\* Ten equal responses, one that differs, and nine.
MCResponses == {[i \in 1..10 |-> "a"], [i \in 1..10 |-> IF i = 7 THEN "b" ELSE "a"],
                [i \in 1..9 |-> "a"]}
=============================================================================
