------------------------------- MODULE Gateway -------------------------------
(***************************************************************************)
(* The provider mock (cmd/gateway-mock): one process that serves the card  *)
(* and the bank endpoint, remembers the result of every request id in a    *)
(* map, and writes both maps and its counters to GATEWAY_STATE_FILE before *)
(* it answers 200.  Requests are served by concurrent goroutines; the      *)
(* process may crash between any two of their steps and is started again   *)
(* from the file.                                                          *)
(*                                                                         *)
(* One step is one critical section of the state mutex, one read of the    *)
(* environment, or one wait.  Requests that never reach the maps (wrong    *)
(* method, bad JSON, missing or wrong payment token) change nothing and    *)
(* are left out.                                                           *)
(***************************************************************************)
EXTENDS Naturals, FiniteSets

CONSTANTS
    Keys,           \* request_id / transfer_id values (idempotency keys)
    Requests,       \* request goroutines
    Refs,           \* authorization and transfer ids the mock may draw
    None,           \* no reference; no request id
    MaxAttempts,    \* bound: requests counted since the last saved counter
    MaxCrashes      \* bound: crashes of the process

ASSUME GatewayAssumption ==
    /\ IsFiniteSet(Keys)
    /\ None \notin Refs
    /\ None \notin {"card", "bank"} \X Keys
    /\ MaxAttempts \in Nat
    /\ MaxCrashes \in Nat

\* A slot is an entry of state.card or of state.bank: ids of the two
\* endpoints never meet.
Slots == {"card", "bank"} \X Keys

\* cardResult / bankResult: AUTHORIZED and ACCEPTED carry an id drawn by the
\* mock, DECLINED and REJECTED carry none.
Unsettled == [outcome |-> "UNSETTLED", ref |-> None]
Declined == [outcome |-> "REJECTED", ref |-> None]
Authorized(r) == [outcome |-> "ACCEPTED", ref |-> r]
Results == {Declined} \cup {Authorized(r) : r \in Refs}

\* GATEWAY_BEHAVIOR values the handlers tell apart.
Behaviors == {"success", "decline", "error", "timeout"}

VARIABLES
    book,       \* state.card and state.bank
    stats,      \* state.stats
    disk,       \* the state file: maps and counters
    up,         \* the process runs
    behavior,   \* GATEWAY_BEHAVIOR
    delayed,    \* GATEWAY_DELAY_MS is positive
    pc,         \* where each request goroutine is
    slot,       \* the entry it works on
    decision,   \* the result it is about to record or to send
    answers,    \* every <<slot, result>> sent with status 200 so far
    crashes     \* crashes so far

vars == <<book, stats, disk, up, behavior, delayed, pc, slot, decision,
          answers, crashes>>

locals == <<pc, slot, decision>>
environment == <<behavior, delayed>>

TypeOK ==
    /\ book \in [Slots -> Results \cup {Unsettled}]
    /\ stats \in [attempts : Nat, effective : Nat]
    /\ disk \in [book : [Slots -> Results \cup {Unsettled}],
                 stats : [attempts : Nat, effective : Nat]]
    /\ up \in BOOLEAN
    /\ behavior \in Behaviors
    /\ delayed \in BOOLEAN
    /\ pc \in [Requests -> {"idle", "wait", "sleep", "decide", "commit", "reply"}]
    /\ slot \in [Requests -> Slots \cup {None}]
    /\ decision \in [Requests -> Results \cup {Unsettled}]
    /\ answers \subseteq Slots \X Results
    /\ crashes \in 0..MaxCrashes

EmptyBook == [s \in Slots |-> Unsettled]
NoStats == [attempts |-> 0, effective |-> 0]

\* A first start: no state file yet.
Init ==
    /\ book = EmptyBook
    /\ stats = NoStats
    /\ disk = [book |-> EmptyBook, stats |-> NoStats]
    /\ up = TRUE
    /\ behavior = "success"
    /\ delayed = FALSE
    /\ pc = [r \in Requests |-> "idle"]
    /\ slot = [r \in Requests |-> None]
    /\ decision = [r \in Requests |-> Unsettled]
    /\ answers = {}
    /\ crashes = 0

\* The goroutine returns.
Return(r) ==
    /\ pc' = [pc EXCEPT ![r] = "idle"]
    /\ slot' = [slot EXCEPT ![r] = None]
    /\ decision' = [decision EXCEPT ![r] = Unsettled]

\* The goroutine goes on to send result d with status 200.
SendResult(r, d) ==
    /\ pc' = [pc EXCEPT ![r] = "reply"]
    /\ decision' = [decision EXCEPT ![r] = d]
    /\ UNCHANGED slot

\* state.stats with one more effective charge if d is one.
Counted(d) ==
    IF d.outcome = "ACCEPTED"
      THEN [stats EXCEPT !.effective = stats.effective + 1]
      ELSE stats

\* persistStateLocked: maps and counters as they now are, written aside and
\* then renamed, so that a crash leaves the old file or the new one.
PersistStateLocked == disk' = [book |-> book', stats |-> stats']

------------------------------------------------------------------------------
(***************************************************************************)
(* Variants of the steps below, each with a mistake that is easy to make   *)
(* in this code; no part of the specification.                             *)
(***************************************************************************)
\* A duplicate that missed the first lookup puts its own reference into the
\* entry it finds.
CommitNewReference(r) ==
    /\ up
    /\ pc[r] = "commit"
    /\ LET s == slot[r] IN
       /\ book[s].outcome \in {"UNSETTLED", decision[r].outcome}
       /\ book' = [book EXCEPT ![s] = decision[r]]
       /\ stats' = IF book[s] = Unsettled THEN Counted(decision[r]) ELSE stats
       /\ PersistStateLocked
       /\ SendResult(r, decision[r])
    /\ UNCHANGED <<up, environment, answers, crashes>>

\* The effective charge is counted after the file was written.
CommitCountsLate(r) ==
    /\ up
    /\ pc[r] = "commit"
    /\ LET s == slot[r] IN
       /\ book[s] = Unsettled
       /\ book' = [book EXCEPT ![s] = decision[r]]
       /\ stats' = Counted(decision[r])
       /\ disk' = [book |-> book', stats |-> stats]
       /\ SendResult(r, decision[r])
    /\ UNCHANGED <<up, environment, answers, crashes>>

\* A failed write leaves the entry in the map.
PersistFailsKeepsEntry(r) ==
    /\ up
    /\ pc[r] = "commit"
    /\ book[slot[r]] = Unsettled
    /\ book' = [book EXCEPT ![slot[r]] = decision[r]]
    /\ stats' = Counted(decision[r])
    /\ Return(r)
    /\ UNCHANGED <<disk, up, environment, answers, crashes>>

\* A failed write is ignored: the result is sent all the same.
PersistFailsIgnored(r) ==
    /\ up
    /\ pc[r] = "commit"
    /\ book[slot[r]] = Unsettled
    /\ SendResult(r, decision[r])
    /\ UNCHANGED <<book, stats, disk, up, environment, answers, crashes>>

\* A failed write takes an effective charge back also for a decline, which
\* had counted none.
PersistFailsUncounts(r) ==
    /\ up
    /\ pc[r] = "commit"
    /\ book[slot[r]] = Unsettled
    /\ stats' = [stats EXCEPT !.effective = Counted(decision[r]).effective - 1]
    /\ Return(r)
    /\ UNCHANGED <<book, disk, up, environment, answers, crashes>>

------------------------------------------------------------------------------
(***************************************************************************)
(* The handlers cardAuthorization and bankTransfer.                        *)
(***************************************************************************)
\* First critical section: count the attempt and look the id up.
Receive(r, s) ==
    /\ up
    /\ pc[r] = "idle"
    /\ stats.attempts < MaxAttempts
    /\ stats' = [stats EXCEPT !.attempts = stats.attempts + 1]
    /\ slot' = [slot EXCEPT ![r] = s]
    /\ decision' = [decision EXCEPT ![r] = book[s]]
    /\ pc' = [pc EXCEPT ![r] = IF book[s] = Unsettled THEN "wait" ELSE "reply"]
    /\ UNCHANGED <<book, disk, up, environment, answers, crashes>>

\* waitProvider reads the environment: GATEWAY_DELAY_MS, or ten seconds
\* under "timeout", or no wait at all.
Wait(r) ==
    /\ up
    /\ pc[r] = "wait"
    /\ pc' = [pc EXCEPT ![r] =
                 IF delayed \/ behavior = "timeout" THEN "sleep" ELSE "decide"]
    /\ UNCHANGED <<book, stats, disk, up, environment, slot, decision, answers,
                   crashes>>

\* The timer of waitProvider fires.
TimerFires(r) ==
    /\ up
    /\ pc[r] = "sleep"
    /\ pc' = [pc EXCEPT ![r] = "decide"]
    /\ UNCHANGED <<book, stats, disk, up, environment, slot, decision, answers,
                   crashes>>

\* The client went away during the wait: nothing is recorded.  A client that
\* goes away later does not stop the handler.
ClientGone(r) ==
    /\ up
    /\ pc[r] = "sleep"
    /\ Return(r)
    /\ UNCHANGED <<book, stats, disk, up, environment, answers, crashes>>

\* The behaviour is read again after the wait: "error" answers 503 and keeps
\* nothing, "decline" declines, anything else authorises under a new id.
Decide(r) ==
    /\ up
    /\ pc[r] = "decide"
    /\ \/ /\ behavior = "error"
          /\ Return(r)
       \/ /\ behavior = "decline"
          /\ decision' = [decision EXCEPT ![r] = Declined]
          /\ pc' = [pc EXCEPT ![r] = "commit"]
          /\ UNCHANGED slot
       \/ /\ behavior \in {"success", "timeout"}
          /\ \E ref \in Refs :
                decision' = [decision EXCEPT ![r] = Authorized(ref)]
          /\ pc' = [pc EXCEPT ![r] = "commit"]
          /\ UNCHANGED slot
    /\ UNCHANGED <<book, stats, disk, up, environment, answers, crashes>>

\* Second critical section, another request has settled the id meanwhile:
\* its result is sent.
CommitDuplicate(r) ==
    /\ up
    /\ pc[r] = "commit"
    /\ book[slot[r]] # Unsettled
    /\ SendResult(r, book[slot[r]])
    /\ UNCHANGED <<book, stats, disk, up, environment, answers, crashes>>

\* Second critical section, the id is free: the result goes into the map and,
\* with the counters, to the file.
Commit(r) ==
    /\ up
    /\ pc[r] = "commit"
    /\ book[slot[r]] = Unsettled
    /\ book' = [book EXCEPT ![slot[r]] = decision[r]]
    /\ stats' = Counted(decision[r])
    /\ PersistStateLocked
    /\ SendResult(r, decision[r])
    /\ UNCHANGED <<up, environment, answers, crashes>>

\* Second critical section, the write fails: the entry and the count are
\* taken back before the mutex is released, and the answer is 503.
PersistFails(r) ==
    /\ up
    /\ pc[r] = "commit"
    /\ book[slot[r]] = Unsettled
    /\ Return(r)
    /\ UNCHANGED <<book, stats, disk, up, environment, answers, crashes>>

\* The 200 answer leaves.
Reply(r) ==
    /\ up
    /\ pc[r] = "reply"
    /\ answers' = answers \cup {<<slot[r], decision[r]>>}
    /\ Return(r)
    /\ UNCHANGED <<book, stats, disk, up, environment, crashes>>

------------------------------------------------------------------------------
(***************************************************************************)
(* The experiment runner and the process.                                  *)
(***************************************************************************)
\* POST /admin/behavior
Behavior(b, d) ==
    /\ up
    /\ behavior' = b
    /\ delayed' = d
    /\ UNCHANGED <<book, stats, disk, up, locals, answers, crashes>>

\* The process dies; its goroutines and maps are gone.
Crash ==
    /\ up
    /\ crashes < MaxCrashes
    /\ crashes' = crashes + 1
    /\ up' = FALSE
    /\ book' = EmptyBook
    /\ stats' = NoStats
    /\ pc' = [r \in Requests |-> "idle"]
    /\ slot' = [r \in Requests |-> None]
    /\ decision' = [r \in Requests |-> Unsettled]
    /\ UNCHANGED <<disk, environment, answers>>

\* A new process with the container's environment runs loadState.
Restart ==
    /\ ~up
    /\ up' = TRUE
    /\ book' = disk.book
    /\ stats' = disk.stats
    /\ behavior' = "success"
    /\ delayed' = FALSE
    /\ UNCHANGED <<disk, locals, answers, crashes>>

Handler(r) ==
    \/ \E s \in Slots : Receive(r, s)
    \/ Wait(r) \/ TimerFires(r) \/ ClientGone(r) \/ Decide(r)
    \/ CommitDuplicate(r) \/ Commit(r) \/ PersistFails(r) \/ Reply(r)

Next ==
    \/ \E r \in Requests : Handler(r)
    \/ \E b \in Behaviors, d \in BOOLEAN : Behavior(b, d)
    \/ Crash
    \/ Restart

Spec == Init /\ [][Next]_vars

------------------------------------------------------------------------------

(***************************************************************************)
(* Every result the gateway has ever sent with status 200 is the one its   *)
(* state file holds for that id: two answers for one id agree, before and  *)
(* after a crash, and a crash never forgets an answered charge.            *)
(***************************************************************************)
AnswersAreDurable == \A a \in answers : disk.book[a[1]] = a[2]

(***************************************************************************)
(* A running gateway remembers exactly what its file holds: the rollback   *)
(* of a failed write leaves no entry behind from which a duplicate could   *)
(* be answered with a result that the next restart forgets.                *)
(***************************************************************************)
MemoryIsDurable == up => book = disk.book

\* The ids that were charged, according to the maps m.
Charged(m) == {s \in Slots : m[s].outcome = "ACCEPTED"}

(***************************************************************************)
(* effective_charges, the number the experiments compare with the payments *)
(* to detect double charges, is the number of authorised ids, in memory    *)
(* and in the file, through failed writes and restarts.                    *)
(***************************************************************************)
EffectiveCountsCharges ==
    /\ up => stats.effective = Cardinality(Charged(book))
    /\ disk.stats.effective = Cardinality(Charged(disk.book))

\* The contract of a provider, kept by the state file.
Ledger == INSTANCE ChargeLedger WITH Charges <- Slots, ledger <- disk.book

(***************************************************************************)
(* The gateway implements the provider contract: an id is settled at most  *)
(* once and its outcome never changes, whatever concurrent duplicates,     *)
(* failed writes, changes of behaviour and crashes come between.           *)
(***************************************************************************)
ImplementsLedger == Ledger!Spec
=============================================================================
