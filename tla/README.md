# TLA+ verification of the payment mesh

This directory holds TLA+ models of the payment mesh in this repository, the
TLC configurations that check them on small instances, and TLAPS proofs of the
properties that matter most for every value of the constants. `PROJECT.json`
maps every definition to the lines it models (paths there start with `src/`,
the root of the repository).

## 1. The system

A public payment passes through four services. Each is a Go process with
concurrent HTTP handlers; none shares memory with another.

```
client --POST/GET--> payment-operator --GET--> participant-manager
                           |  POST/GET
                           v
                     payment-router --POST--> gateway-card | gateway-bank
                           |                        |
                      table payments           state file
```

| Part | State | Operations | What is hard | What makes it correct |
|---|---|---|---|---|
| `payment-router` (`cmd/payment-router`) | table `payments`; one PostgreSQL session lock per key hash; a pool of 8 connections; two circuit breakers | `create`, `persistResultConn`, `charge`, `get` | duplicates on several replicas; a session that ends during the provider call; lost acknowledgements; crash between reservation and result; recovery racing a late attempt | no double charge; no definite answer that is not in the table; terminal rows final; table and provider agree; PENDING payments can be resolved |
| circuit breaker (`internal/payments/circuit.go`) | failure count, `openedAt` | `Allow`, `Success`, `Failure` | reports of calls admitted earlier arrive while it is open or closed again | count and open state agree; overshoot bounded; a caller is let through again |
| provider adapters (`internal/payments/adapters.go`) | none | `Charge`, `callProvider` | timeout racing a late charge; which answers are definite | uncertainty stays PENDING |
| `gateway-mock` (`cmd/gateway-mock`) | maps of settled ids, counters, state file, behaviour in the environment | `cardAuthorization`, `bankTransfer`, `waitProvider`, `behavior`, `persistStateLocked`, `loadState` | duplicates that both miss the lookup; failed writes; crash around the write; behaviour changed during a wait | an id is settled once and for good; counters count charges |
| `payment-operator` (`cmd/payment-operator`) | table `orders` (a cache of the router), transaction lock per key hash | `create`, `get`, `fetchRouter`, `retryPending`, `participant` | lost router answers, unlocked overwrite by GET, participants that change between attempts, pool held across calls | the order agrees with the payment, a repeated POST recovers it |
| `participant-manager` (`cmd/participant-manager`) | table `participants` | `seed`, `create`, `routing` | update between two lookups of one payment | only active participants with the role pay |
| shared types (`internal/payments/types.go`) | none | validation, hash, normalisation | canonical and legacy hashes | a repetition is recognised in every spelling, another payment never is |
| database access (`internal/payments/db.go`) and `main` of three services | the schema | `Open`, `openWithRetry`, `Ensure...`, `seed`, `ready` | replicas that migrate at the same time, a database that goes away half way | nobody serves on an incomplete schema, everybody serves in the end |
| metrics (`internal/payments/telemetry.go`) | counters | `Count`, `Handler` | a scrape between two counter updates | a scrape is current, and off by the calls under way at most |
| experiment runner and report (`scripts/run_experiments.sh`, `scripts/reportgen`) | the artefacts of a run | six experiments, six verdicts | missing artefacts, a report made during a run | PASS is earned and not taken back |
| tracing, HTTP helpers | none of the payment logic | header propagation, spans, JSON | | |
| Istio configuration, load tests | external | | retries and timeouts of the mesh | |

Interactions: the operator holds its transaction while it calls the
participant manager and the router; the router holds a session lock while it
calls a gateway. Every call has a timeout, so every caller must treat its
callee's answer as possibly lost. The idempotency key travels unchanged from
the client to the gateway, where it is the id that is settled once.

`hazards` in `PROJECT.json` lists what is hard to test in this code, line by
line, with the properties below that cover it.

## 2. Modules

| Module | Models | Extends / instantiates |
|---|---|---|
| `ChargeLedger` | abstract provider: each charge is settled at most once | |
| `Circuit` | `circuit.go` and its callers in `charge` | |
| `Gateway` | `cmd/gateway-mock` | implements `ChargeLedger` (`Ledger`) |
| `Router`, `MCRouter` | `cmd/payment-router`, `adapters.go`, table `payments` | uses `ChargeLedger` as its provider (`Provider`) |
| `PaymentLedger` | abstract router: a key is bound once to a request, an id and a gateway, and settled once | |
| `Participants` | `cmd/participant-manager`, participant and role rules of `types.go` | |
| `Operator`, `MCOperator` | `cmd/payment-operator`, table `orders` | extends `Participants`, uses `PaymentLedger` as its router (`Router`) |
| `Requests` | canonical form, hashes and validation: `create` of the router, `types.go` | |
| `Startup` | `Open`, `openWithRetry`, `Ensure...`, `seed`, `main` and `ready` of the services with a database | |
| `Metrics`, `MCMetrics` | `telemetry.go` | |
| `Report`, `MCReport` | the verdicts of `scripts/reportgen` on what `scripts/run_experiments.sh` leaves | |
| `CircuitProofs`, `GatewayProofs`, `RouterProofs`, `OperatorProofs`, `RequestsProofs`, `StartupProofs`, `MetricsProofs`, `ReportProofs` | theorems | extend the module of their name and `TLAPS` |

The services are composed through contracts. `Gateway` is shown to implement
`ChargeLedger`, against which `Router` is checked and proved; `Router` is shown
to implement `PaymentLedger` (`View`, the columns GET shows), against which
`Operator` is checked and proved. Operators whose
comment calls them variants (`CommitNewReference`, `StaleAtOnce`, ...) are versions
of a step with a plausible mistake. They are not part of any specification;
`mutants` in `PROJECT.json` pairs each with the property that rejects it.

### Circuit

State: `failures`, whether the circuit is open and how long ago it opened, and
which callers have been let through and have not reported yet. `Allow` is split
into its three outcomes (closed, cooled down, rejected). `Success` and
`Failure` are the reports `charge` makes after the provider's answer. Each is
one critical section of the mutex and so one step. A caller that was let
through may report at any later time. Time since `openedAt` is counted up to
`Cooldown`, beyond which it makes no difference.

### Gateway

State: `book` (both result maps), `stats`, `disk` (the state file), the
behaviour and delay in the environment, and for each request goroutine its
place, the id it works on and its decision. A handler takes these steps: the
first critical section (`Receive`), `waitProvider` (`Wait`, then `TimerFires`
or `ClientGone`), the decision by the behaviour read *after* the wait
(`Decide`), the second critical section (`CommitDuplicate`, `Commit` or
`PersistFails`) and the answer (`Reply`). Adding the entry, counting, writing
the file and rolling back all happen under the mutex, so a failed write with
its rollback is one step that leaves the maps as they were. The write goes to a
temporary file that is renamed, so a crash leaves the old file or the new one.
`Crash` forgets everything but `disk`; `Restart` is `loadState` in a process
with its initial environment. Card and bank handlers differ only in the map and
in wording, so they are one handler over `Slots`.

The state file is assumed to be configured, as it is in the Compose and
Kubernetes deployments. Token checks refuse requests before any state is
touched; what a refusal means for the router is modelled there. Loss of a
renamed but unsynced file in a power failure is not modelled.

### Router

`rows` is the table by idempotency key, `lock` the holder of each advisory
lock; a handler has a place (`pc`), its request, its `lease` (the `now()` of
its transaction), its `target` (payment id and gateway) and its `result`.
`sent` holds the provider requests that left the router, `ledger` is the
provider, `answers` everything ever reported to a client.

* `Receive`, `Connect`, `AcquireLock`: validation, the pooled connection kept
  for the whole handler, `pg_advisory_lock(hashtext(key))`.
* `LookupMiss`, `LookupConflict`, `LookupStale`, `LookupAnswer`: the SELECT and
  the four ways on. `Reserve` and `Claim`: the INSERT or the claiming UPDATE,
  with the COMMIT.
* `CallProvider`, `CallNotMade`, `CallRefused`, `ProviderAnswers`, `CallFails`:
  `charge` and `callProvider`. A provider may settle a request it was sent at
  any later time (`SettleCall`), also after the router gave up or a repetition
  of it was answered. `CallNotMade` stands for an open circuit or a request
  that could not be sent.
* `Persist`, `PersistFails`, `Reply`, `Unlock`: the compare-and-set on the
  lease, the fallback to PENDING, the answer, the deferred unlock. As in the
  code the lock is held until after the answer.
* `CommitUnacknowledged`, `PersistUnacknowledged`: the database applied the
  statement but the connection broke before the acknowledgement.
* `SessionLost`, `Crash`: the session or the process ends between any two steps.

Abstractions, and why they are sound:

* A payload stands for the canonical request and its hash: SHA-256 is taken as
  injective. Spellings and the two legacy hashes that `create` also accepts are
  the subject of `Requests`.
* Every statement of a handler goes over the connection that holds the lock.
  So "the session is alive" and "the lock is held" are one fact (`Session`), and
  a handler without it can write nothing. A server session that outlives its
  client and still applies a statement is the same as a statement applied and
  not acknowledged.
* The transaction's statements up to COMMIT are two steps (SELECT, then write
  and COMMIT): nobody else can see or change the row of the key while the lock
  is held, and if the lock is lost the transaction is lost too.
* `newUUID` draws an id that no row has.
* `clock` is the database's; it only advances while that can make a difference.
  A router compares a row's stamp with its own clock, which is up to `MaxSkew`
  away in either direction, so a row near the limit may look stale or fresh
  (`MayBeStale`, `MayBeFresh`), to each replica differently. `Tick` keeps an
  attempt within `CallWindow` of the start of its transaction: in the code, ten
  seconds for the database context plus three for the provider client, against
  thirty of `PENDING_RECOVERY_AFTER`. `OneCallInFlight` therefore holds for a
  skew of less than seventeen seconds.
* One pool serves all handlers; `PoolSize` at least the number of handlers
  stands for several replicas with pools of their own.
* An answer is recorded when it is written, not when the client gets it, so
  lost answers are included.

What the session lock is for shows in `OneCallInFlight` and `HolderKeepsLease`: without
it two handlers that find a stale row both claim it. `AtMostOneCharge` does not depend
on the lock, since the gateway of a reservation never changes and the provider settles
an id once; it is about recovery and about keys used with payloads of two gateways,
and `NoDoubleCharge` proves it with refusals too.

### Participants

`participants` is the table. `Save` is the POST with trimming and lower-casing of roles,
validation and upsert; `Seed` runs whenever a process starts and fills only
rows that are missing or have no role; `Served` says whether a lookup is
answered with 200. The stored `gateway` is left out: nobody reads it, the
router chooses by instrument.

### Operator

`orders` is the table; a handler has a place, its key and request, the debtor's
record as it was looked up (`debtor`), the request for the router (`internal`)
and the payment it works on (`out`). `posted`, `payments` and `charging` are
the router: requests under way, its payments, and the payments it is working
on. `answers` is everything reported to a client. `known` is history and no part of
the code: for each key the rows every participant has had since a client first asked
for it.

* `Receive`, `Begin`, `AcquireLock`: validation, the transaction and its
  pooled connection, `pg_advisory_xact_lock`.
* `LookupConflict`, `LookupSettled`, `LookupPending`, `LookupMiss`: the SELECT
  and the four ways on.
* Replay: `FetchSettled`, `FetchPending` (which posts the router's own record of
  the request again), `FetchFails`, `RetryAnswered`, `RetryFails`, `Update`.
* New payment: `LookupDebtor`, `LookupCreditor` (with the role check and the
  post), `Refuse`, `PostAnswered`, `PostRefused`, `Insert`.
* `get`: `GetLookup`, `GetFetch`, `GetUpdate` and their failures. The UPDATE is
  not locked and may be arbitrarily late, so a settled order can go back to
  PENDING. `OrdersTellTruth` shows that an order only ever lags behind the
  router, and `PendingSettles` that repetition catches up.
* `Abandon`, `SessionLost`, `SessionMissed`, `CommitUnacknowledged`: any error
  return, a client that goes away, a crash, a session that ends, a lost
  acknowledgement. A post survives its sender.
* `RouterReserves`, `RouterRecovers`, `RouterPasses`, `RouterDrops`,
  `RouterSettles`, `RouterGivesUp`: what a post does at the router. Only a post
  makes the router work on a payment, as there is no background recovery.

Abstractions: a request stands for its hash; write and COMMIT are one step, with
the answer, because the row of a key is written under its lock or, by `get`, in
a single statement that waits for the row. The router answers a post with the
state of the payment or with PENDING, as it does when it could not record a
result; this is more than one router call can answer, and so safe.

### Requests

A request is its currency and instrument, each a word with a case and spaces
around it or not, and everything else. `Canonical`, `ValidateRouterRequest`,
`RequestHash`, `LegacyCanonicalHash` and `Same` are the functions of that name or
the expressions in `create`; `Columns` is what the INSERT makes of a request.
The row of the key was written by this version or an earlier one; `Create` is a
request of a client in any spelling, `Replay` the operator's repetition of the
request as `get` reads it from the columns.

`FrozenReplayAccepted` names its one exception: a row that an earlier version
wrote for a currency in mixed case has a hash that none of the three hashes of
its columns equals, and its replay is refused with 409. Rows from before the
columns for debtor and creditor existed hold empty ones and are outside the
model; their replay does not pass validation.

### Startup

State: whether the database is up, its schema (none, an earlier one, the current
one), whether it is seeded, and for each replica how far `main` has come, how
many attempts of `openWithRetry` have failed, and what the last readiness probe
was told. The statements of an `Ensure...` function have no arguments, so the
driver sends them as one simple query, which PostgreSQL runs as one transaction:
`EnsureBegins` is the look of CREATE TABLE IF NOT EXISTS at the catalogue,
`EnsureCommits` the rest. Two replicas may both find no table; then the unique
index of the catalogue lets one of them fail (`EnsureCollides`) and its process
ends. The ALTERs lock the table and look for the column under the lock, so they
do not collide. An outage ends every transaction under way (`Severed`), one of
them possibly after it was committed (`EnsureUnacknowledged`). `Restart` is the
orchestrator's. A missing or wrong database URL is not modelled.

### Metrics

`Count` is four steps, one for each atomic addition and one for the critical
section that raises the buckets; `Handler` is three loads and the copy of the
buckets. Calls and scrape interleave freely. The bucket `le="+Inf"` and the count
are the value loaded first, so a scrape is no snapshot; `ScrapeIsCurrent` and
`ScrapeLagBounded` say what it still guarantees. Data races are none: every
access is atomic or under the mutex.

### Report

An experiment is the sequence of artefacts each process of the runner writes;
every command may fail and leave its artefact out. `files` is what `reportgen`
finds. In the second experiment the load test and `kubectl wait` run in the
background. `Happy`, `Instance`, `Degraded`, `Normalization`, `Idempotency` and
`Isolation` are the six `exp...` functions with their evidence and pass
conditions; `Criterion` states the six criteria once more, of the artefacts and
without the order of the code. `PassIsEarned` shows, among others, that no run
passes in which the pod was not deleted, although `expInstance` does not look at
the outcome of the deletion: without it there is no measured recovery of the
traffic. A FAIL says less than a PASS: `Degraded`, `Idempotency`, `Isolation` and
`Instance` can be FAIL while one of their artefacts is missing.

Formats (CSV, JSON, Prometheus vectors, Envoy's statistics) are abstracted to
what they say, empty and unreadable ones to missing ones; only an empty file of
checksums, which the shell leaves when `cksum` fails, is told from a missing one, as
`sameChecksums` does. For four experiments the criterion is the pass condition said
of the artefacts; `PassIsEarned` has most to say of the other two, `Happy` (sums) and
`Instance` (the deletion). An epoch is a whole second.

## 3. Runs

| Run | Instance | Checks |
|---|---|---|
| `circuit` | 4 callers, threshold 3, cooldown 3 | `OpenIffThreshold`, `OvershootBounded`, `EventuallyProbes` |
| `gateway` | 2 requests, 1 key on both endpoints, 2 ids, 4 attempts, 2 crashes | `AnswersAreDurable`, `MemoryIsDurable`, `EffectiveCountsCharges`, `ImplementsLedger` |
| `router` | 3 handlers, 1 key, 2 valid payloads (other gateways) and an invalid one, a skew of 1, 2 failures | `AnswersMatchRow`, `SucceededWasCharged`, `FailedMeansNotCharged`, `ChargedAsReserved`, `HolderKeepsLease`, `OneCallInFlight`, `AtMostOneCharge`, `TerminalStable`, `ImplementsPayments` |
| `router_refused` | 2 handlers, a provider that may refuse | `FailedMeansNotCharged` is violated (section 6) |
| `router_live` | 2 handlers, pool of 2, a provider that may refuse, 2 failures, `FairSpec` | `RequestEnds`, `PendingResolves` |
| `operator` | 2 handlers, 1 key, 2 valid requests and an invalid one, a seeded payer and a newcomer as payee, 2 changes of participants, 1 failure | `OrdersTellTruth`, `AnswersAreTrue`, `AuthorisedPayments` |
| `operator_replay` | the same with 1 request | `ReplayUsesFrozenRequest` is violated (section 6) |
| `operator_live` | 2 handlers, pool of 2, 1 request, unchanged participants, 1 failure, `FairSpec` | `RequestEnds`, `PendingSettles` |
| `requests` | 2 currencies and 2 instruments in every spelling, valid and invalid, rows of both versions | `AcceptedMeansSame`, `RepetitionRecognised`, `FrozenReplayAccepted` |
| `startup` | 3 replicas, every initial schema, 2 attempts, 2 outages, 1 crash, `FairSpec` | `ServesCompleteSchema`, `EventuallyReady` |
| `metrics` | 3 calls with a latency on a bound, above one and above all, repeated scrapes | `CountsEveryCall`, `ScrapeIsCurrent`, `ScrapeLagBounded` |
| `report` | all experiments, every artefact present, missing or with a value on either side of its limit | `PassIsEarned`, `SuccessPasses`, `PassStable` |

`TypeOK` is checked in one run of each specification except `Metrics` and
`Report`, whose properties fix the values of their variables.

Why the bounds are enough to see the interesting cases: two failures are what
it takes to lose a session during a provider call and then lose the taker's
acknowledgement as well; three handlers let one attempt be late while a second
recovers and a third only reads. `RecoveryAfter = 3`, `CallWindow = 1` and
`MaxSkew = 1` are the smallest values with `RecoveryAfter > CallWindow + MaxSkew`,
as thirty and thirteen seconds with any reasonable skew; `router_live` has 2, 1
and 0. `MaxClock` (16 and 12) is never reached for want of time: each failure can
make the payment wait for a bounded number of units, and a larger bound adds no
state. TLC has one key: the router's theorems hold for any number of keys and
any `hashtext`. In the gateway two crashes let
a restarted process crash again before its next write; four attempts make two
duplicates of each of two generations. The circuit's callers outnumber the
threshold, so it can be overshot. In the operator, two changes let the payee
appear and then either party change; one failure is enough to lose the order
row of a reserved payment, or the session of a handler while another one
repeats its request. Two outages of the database let a replica fail in two
different ways before it serves; three replicas let two collide with one that
has created the table. The proofs remove every bound except in the liveness
properties.

Symmetry (`MCSymmetry`) is used in safety runs only. `Deadlock` is checked in
all runs but `report`, where the runner comes to its end.

## 4. Fairness

Only `EventuallyProbes`, `RequestEnds` (of both services), `PendingResolves`,
`PendingSettles` and `EventuallyReady` are liveness properties.

* `Circuit`: time passes; payments keep arriving, so some caller keeps asking
  `Allow`; a call that was let through reports, because the provider client
  gives it three seconds.
* `Router`: handlers keep running (weak fairness of `Handle`): every statement
  and call has a timeout, so none blocks for ever. `database/sql` serves waiters
  for a connection first come first served, and PostgreSQL grants an advisory
  lock in the order of its queue; hence strong fairness of `Connect` and
  `AcquireLock`. The provider settles what it was sent and time passes (weak
  fairness). There is no background recovery in the code, so `PendingResolves`
  assumes a client that repeats its request (strong fairness of `Retry`): it
  shows that repeating is sufficient.
* `Operator`: handlers and router keep running, a connection that stays free is
  taken (weak fairness; in `operator_live` one is always left), and PostgreSQL
  grants the lock in order (strong fairness of `AcquireLock`). A client repeats
  its request (`Retry`), and not every repetition comes before the router's
  recovery time (`Recover`). `PendingSettles` is checked for participants that
  do not change: section 6 shows that it fails for others.
* `Startup`: `main` goes on while it can (its waits are a second each), the
  orchestrator restarts what has ended (the default restart policy of a Kubernetes
  Deployment; `deploy/docker/docker-compose.yml` sets none, so under Compose
  `EventuallyReady` holds only for who restarts by hand) and keeps probing, and the database comes back (weak fairness).
* Failures are not fair and there are at most `MaxFaults` of them: with an
  unlimited number nothing can be promised. An open circuit counts as a
  failure here; `EventuallyProbes` shows that it does not stay open.

## 5. Proofs

All theorems hold for every set of handlers, keys, payloads, ids, replicas and
calls and every value of the bounds, under the assumptions named in the modules
(`CircuitAssumption`, `GatewayAssumption`, `RouterAssumption`,
`OperatorAssumption`, `ParticipantsAssumption`, `RequestsAssumption`,
`StartupAssumption`, `MetricsAssumption`, `ReportAssumption`: finite sets where
something is counted, a `None` that is no value, latencies, times, limits and
counts that are natural numbers, a first second a run can have, a JSON boolean that
is one). Three theorems have a hypothesis of their own: `CallsDoNotOverlap` asks for
`RecoveryAfter > CallWindow + MaxSkew`, thirty seconds against thirteen in the code;
`FailureIsReal` for a provider that does not refuse; and
`ReplayFrozenWhileInstrumentsKept` speaks of states in which no participant has had
two instruments since the first request of a key. The last two are the positive side of the findings of section 6. Each inductive invariant was model-checked on the instance of its run
before it was proved.

* `BreakerTypes`, `GatewayTypes`, `RouterTypes`, `OperatorTypes`, `RequestTypes`,
  `StartupTypes`: the type invariants. Some need more than themselves: a handler
  of the operator writes what it has in hand, so `OperatorTypes` needs to know
  what that is at each place, and what `Columns` stores is canonical only because
  `create` normalises before it looks.
* `BreakerConsistent`, `OvershootIsBounded`: the second needs the first and a
  bound on the failures counted and the calls still under way together.
* `MemoryDurable`, `AnswersDurable`: memory equals file while the process runs, and a decision
  about to be sent equals the file; so answers do. `EffectiveCounts` adds that
  both counters are cardinalities and follows them through `Commit` with the
  cardinality of a set with one more element. `GatewayImplementsLedger` maps
  `ledger` to `disk.book`: `Commit` is `Settle`, because memory, where the
  handler looked, equals the file; every other step is a stutter.
* `RouterProofs`: the inductive invariant `IInv` has these parts. `Shape`:
  which fields a handler and a row have at each place. `Working`: a handler
  between reservation and answer works for the id, gateway and payload of the
  row of its key, and its lease is the row's stamp if it still has its lock.
  `ChargedAsReserved`. `SettledWasSent`: what the provider settled was sent.
  `Truthful`: what a handler is about to record or report agrees with the
  provider. `AnswersMatchRow`. None is inductive alone: an answer is honoured
  because the handler that gives it works for the row (`Working`), a terminal
  result is true because the ledger never changes (`Truthful`), and a second
  gateway cannot charge because whatever is sent is what was reserved. The lemma
  `RowsEvolve` says how a step may change a row (insert once; change a PENDING
  row's stamp; settle it under its lease) and `OthersUnnoticed` that such a change
  disturbs no other handler; the rest is one step per action. From `IInv`
  follow `AnswersHonoured`, `TerminalForGood`, `ReservedFirst`,
  `NoDoubleCharge`, `SuccessIsReal`, `LeaseKept` and, for a provider that does
  not refuse, `FailureIsReal`. `NoDoubleCharge` needs neither a positive
  recovery time nor a bound on the length of a call: the provider's
  deduplication and the frozen gateway are enough.
* `CallsDoNotOverlap`: the session lock is lost when its session ends, so it is
  time that keeps attempts apart. `Timely`: from the start of its transaction to
  the end of its call a handler's lease is at most `CallWindow` old, and a handler
  about to claim has seen a row that was `RecoveryAfter` old up to the skew of the
  clocks. It also says that the row's stamp is not older than the lease of an attempt under
  way, so nobody can have found the row stale while the call lasts; `OneAttempt`
  follows: two handlers with an attempt under way have different keys.
* `RouterImplementsPayments` (also in `RouterProofs`): `IInv` with two more parts about references (a
  PENDING row has none; what is about to be recorded has one exactly if it is a
  success). `RowsEvolve`
  gives the three ways a row can change; inserting maps to `Reserve`, settling to
  `Settle`, and a claim, which only moves the stamp, to a stutter.
* `OperatorProofs`: `IInv` consists of the four properties and these parts.
  `AllWorking`: what a handler may rely on at each place, e.g. that the row it is
  about to insert or to write over the order is a report on the payment of its
  key (`Reports`: the identifying columns, and the settlement if it is definite),
  and that the participants it has checked are rows the table has held.
  `PaymentsDistinct`: two keys have two payments, so the lookup of `get` by payment
  id finds the order of the right key. `OrdersBacked`: an order has a payment.
  `RowsKnown` and `PostsAuthorised`: a post under way carries parties that were
  checked, on records in force since the key was first used. The lock plays no part. The argument is monotonicity: a payment once
  bound keeps its columns and once settled its settlement (`Grows`, from the
  contract of the router), the rows a participant has had only become more, an
  order is never deleted. What was true of the payment when a handler read it is
  therefore still true when the handler writes or answers it, however late and
  whatever it overwrites: `OrdersTrue`, `AnswersTrue`, `PaymentsAuthorised`. That an
  order may *lag* behind (a settled one put back to PENDING) is the price, and is
  left to `PendingSettles`. `ReplayFrozenWhileInstrumentsKept` uses that both the
  request about to be posted and the one the router has stored were made from rows
  the debtor has had since the first request: if all of these have one instrument, the two requests are
  equal. Neither roles nor activity nor the order in which posts arrive matter.
* `RequestsProofs`: `RowsRemember` says that hash and columns of the row are those
  of the request that made it, by the rules of the version that made it. The rest
  is algebra of `Upper`, `Lower` and `Trim`: `Canonical` is idempotent, two requests
  with equal canonical forms mean the same, and each of the three hashes of
  `create`, where it agrees, fixes the words behind the spelling.
* `ServesComplete`: strengthened by `SeedsCompleteSchema`: a replica that seeds has
  seen its schema statements committed. No step takes a complete schema back, so
  neither another replica's migration nor an outage disturbs it.
* `MetricsProofs`: `CountersExact`: each counter is exact for the calls that are past
  it (`requests` is the number of calls past the first addition, and so on).
  `PageSound`: each series of a page is exact for some set of calls that has all
  calls over when the scrape began. The properties follow, as cardinalities and
  sums are monotone. That a sum of latencies (`MapThenSumSet`) is defined, does not
  depend on the order in which it takes the calls and grows with the set is proved
  from its definition by induction over finite sets: `SubsetInduction` takes the
  well-foundedness of strict inclusion from the library and argues with a smallest
  counterexample, because the library's own induction rules, which take an operator
  as a parameter, are not usable with the installed provers.
* `ReportProofs`: `OnScript`: what a process of the runner has still to write is the
  end of its script. `Pending`: what is still to be written is missing, with the
  statistics of the load test as the one exception, which are written again as they
  grow. `Sound` and `Coherent`: what an artefact can say, alone and together with
  earlier ones (seconds of recovery are differences of recorded times, traffic
  returns only after a deletion, checksums are those of the responses).
  `SkippedForGood`: an experiment that was skipped leaves nothing. From these, six
  lemmas (`HappyVerdict` to `IsolationVerdict`) show that a verdict is PASS exactly
  if the artefacts are complete and meet the criterion (with an ended load test in
  the second experiment; in the idempotency experiment the file of checksums may be
  missing, but not empty). `PassesAreEarned` and `SuccessesPass` are the two directions.
  `HappyVerdict` is about sums: the traffic over mutual TLS equals all the traffic
  exactly if no other sample is positive. It needs that `MapThenSumSet` adds up in
  whatever order it takes the samples (`AddsExists` and `SumAdds`, by
  `SubsetInduction` as above) and that a sum of non-negative values grows with every
  positive one (`SumGrows`). `PassesAreStable` rests on `PassIsFinal`: a PASS needs
  the last artefact of every process, so every process has ended and nothing is
  written any more. Without `LoadEnded` in `expInstance` this would fail, as its
  mutant shows.

Only model-checked: the liveness properties `EventuallyProbes`, `RequestEnds`,
`PendingResolves`, `PendingSettles` and `EventuallyReady` (fairness and `ENABLED`
are out of the prover's reach). Every other property of a passing run is proved.

## 6. Findings

`router_refused`: `callProvider` turns every 4xx except 408 into `FAILED`
(`internal/payments/adapters.go:118`). A payment whose first attempt timed out
after the provider had charged stays `PENDING`; if its recovery attempt is
refused, e.g. with the 401 of `cmd/gateway-mock/main.go:333` after a rotated
token, it is recorded `FAILED` for good while the provider has the money.
`docs/architecture.md:25` promises that only a definite rejection is recorded
as `FAILED`, because the provider may have charged, and `docs/report.md:28`
that a degraded gateway does not turn uncertainty into rejection. `FailureIsReal`
shows that this is the only way: without refusals a `FAILED` payment was never
charged.

`operator_replay`: the operator writes its order only after the router has
answered. If it fails or its client goes away in between, the router has a
payment for the key and the operator has no order. A repeated POST then resolves
the participants again (`cmd/payment-operator/main.go:156`); if the debtor's
instrument has changed, the router sees another payload under the key, answers
409, and the operator 502, for every repetition: the payment stays as it is,
PENDING or charged, and no client can see it. `docs/architecture.md:27` says
that a client can repeat its POST to recover an uncertain payment and that the
operator reuses the router's stored request, and a comment in
`cmd/payment-operator/main_integration_test.go:49` that a replay must use the
frozen request. Both hold when the order row exists. Where it does not,
`ReplayFrozenWhileInstrumentsKept` shows that a changed instrument is the only
cause: with the same instrument the repetition is the stored request, whatever else
has changed.

## 7. What is left

Everything in section 2 is modelled and checked, and every safety property, action
property and refinement of the passing runs is proved. The five liveness properties
stay with TLC.

Not modelled, and why: tracing (a span is built from the status its own request
wrote and handed to the SDK's exporter; nothing is shared between requests or
read by the payment logic) and HTTP helpers (JSON); the Istio configuration
(external software; its retries are repeated requests, which `Receive` and
`SettleCall` allow at any time); the load test (a client, whose requests are
inputs here); the wording and tables of the report; TLS, tokens and JSON
(formats, not control).
