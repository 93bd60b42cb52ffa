# Verification of event-analytics-api in TLA+

The program is a FastAPI service that ingests analytics events through Redis
Streams, or in a synchronous mode directly, into PostgreSQL, administers its users
and serves metrics computed from the events. This directory holds TLA+ models of
both write paths, of the user administration, of the metrics snapshots and of the
rate limiter, TLC configurations that check them on small instances, and proofs for
TLAPS about every instance. Line numbers refer to the files under `src/`.

    tlc -workers 2 -config MCOverlap.cfg MCEventPipeline
    tlc -workers 2 -config MCRequests.cfg MCRequestApi
    tlc -workers 2 -config MCMetrics.cfg MetricsSnapshots
    tlapm EventPipelineProofs.tla       (also KeyProofs, DeliveryProofs, RequestProofs,
                                         MetricsProofs, RateLimitProofs)

## 1. Inventory

How the parts interact: a request passes middleware, authentication and the rate
limiter, and reaches a service with one database session, which `get_db` commits
or rolls back. In async mode `EventService` claims a key in Redis and adds a
message to `stream:events`; nothing but Redis is shared with the worker. Every
five seconds ARQ cron starts `process_event_stream`, which reads and reclaims
messages, writes rows in one transaction, marks keys `done`, commits and
acknowledges. In sync mode the request inserts the row itself. Other cron jobs count
the events table into snapshot tables and cached values, which the metrics endpoints
read, or compute when they are missing.

| Component | State | Operations | What makes it correct |
|---|---|---|---|
| Event stream `app/mq/streams.py` | stream, group position, pending entries with delivery counts, dead letter stream (all Redis) | `ensure_consumer_group`, `enqueue_event`, `read_events_batch`, `reclaim_stale_messages`, `dead_letter`, `ack_messages` | every message is handed out; none leaves the pending list but settled; a dead letter has had its deliveries |
| Stream worker `app/workers/tasks.py:41-194` | local work list, `ids_to_ack`, one session | one run per cron tick, overlapping up to `max_jobs = 10` | commit before ACK; bury before ACK; a bad message costs no other; runs end |
| Ingest, async `event_service.py:62-113`, `api/v1/events.py` | `idem:{id}` keys | claim, deduplicate, enqueue, answer | one message per event; "deduplicated" only when a message exists; what is accepted is settled |
| Ingest, sync `event_service.py:115-155` | keys and the request's transaction | claim, insert, mark done, commit | what a client was told is stored or stored when it tries again; requests that wait for each other's rows end |
| Events table and sessions `db/session.py`, `db/models/event.py` | rows under UNIQUE `event_id`; transaction state | INSERT .. ON CONFLICT DO NOTHING, COMMIT, ROLLBACK | exactly one row per event |
| Users `auth_service.py`, `user_service.py`, `deps.py`, `rbac.py` | versioned rows, one per address | register, check of the caller, optimistic update | one account per address; versions only grow; no update is overwritten unseen |
| Metrics `metrics_service.py`, jobs `tasks.py:197-243` | snapshot rows, cached values with TTL, advisory locks | `compute_*`, `get_*`, `get_summary`, cron jobs | newer counts are not replaced by older ones; rows and cache catch up; nobody waits for ever |
| Rate limiter `core/rate_limit.py` | one ZSET per scope | sliding window script | at most `limit` requests in any window; no rejection without them |
| Tokens and passwords `security.py` | none | hash, sign, decode | out of scope |
| Middleware, errors, health, logging, Prometheus counters | none that matters | per request | out of scope |
| Configuration, start-up, migrations, scripts | settings, schema | once | settings are constants; `ensure_stream` is an action; the seeded administrator is an initial row |

What is hard here: Redis and PostgreSQL have no common transaction, so every
command boundary is a place to fail; a failed INSERT aborts a transaction whose
COMMIT then silently rolls back; all runs of the worker share one consumer name,
so they take messages from each other; MAXLEN trims entries nobody has read;
delivery counts are read by another command than the one that delivers; keys
expire under a handler that holds them; the response is sent before or after the
commit, depending on the FastAPI release; an update computes the new version from
one statement and compares it in another; snapshots are computed by jobs and reads at
the same time, under advisory locks one transaction may collect several of; values
are cached before they are committed. The list of hazards, with the line and the
properties that cover each, is in `PROJECT.json`.

## 2. Modules

    Payloads  ->  EventStream ----\
              ->  EventsTable -----+-> Worker ---\
              ->  IdempotencyKeys -+-> IngestApi -+-> EventPipeline -> MCEventPipeline
                                                        |    \-> EventPipelineProofs
                                                        |           -> KeyProofs, DeliveryProofs
                                                        \ INSTANCE EventDelivery

    UserRows -----------------------> Accounts ---\
    RequestSteps -------------------> Accounts     +-> RequestApi -> MCRequestApi
    RequestSteps -------------------> SyncIngest --/      |    \-> RequestProofs
    EventsTable, IdempotencyKeys ---> SyncIngest          \ INSTANCE UserDirectory

    MetricsSnapshots -> MetricsProofs
    RateLimit -> MCRateLimit, RateLimitProofs

- **Payloads** - what a message holds: an event, a payload that is malformed
  (`tasks.py:125`), one that `_persist_event` calls invalid (`tasks.py:139`), or JSON
  that is no object. Wording and fields are abstracted.
- **EventStream** - Redis as `streams.py` uses it. A message id is its position in
  the sequence `body`; `entries`, `trimmed`, `group`, `lastDelivered`, `pel`,
  `idle`, `times` (delivery counters) and `dlq` are the rest. One operator per
  command (`XAdd`, `XReadGroup`, `XAutoClaim`, `XAck`, `XAddDlq`), including COUNT,
  min-idle-time, the scan window of XAUTOCLAIM, and deleted entries.
- **EventsTable** - committed `events`, the `rows` and the transaction state `tx`
  of each session: usable, aborted by a statement error, lost with its connection.
  `discarded` is a history variable: events whose row a COMMIT of an aborted
  transaction threw away. An INSERT waits for an uncommitted equal key; PostgreSQL
  breaks a cycle of waits by aborting a victim.
- **IdempotencyKeys** - `idem:{id}`: SET NX "pending", SET "done", expiry.
- **Worker** - one action per command of a run. `pc` is the command it is about
  to issue, `todo` the list `work`, `acks` is `ids_to_ack`, `claimed` the ids of
  XAUTOCLAIM before they are counted, `hll` the HyperLogLog. Its failures are
  separate actions: an exception inside the loop's `try`, one that leaves the run,
  a swallowed one of the reclaim, a crash or timeout. `dead_letter` is called in three
  places. Those for a malformed payload and in the exception handler are outside of the
  `try` (`pc` is "bury", "buryack"), and a Redis failure there ends the run
  (`CommandRaises`, `BuryAckRaises`). That for an invalid event is inside of it
  ("buryinvalid", "ackinvalid"): the failure is caught like any other, and the handler
  calls `dead_letter` for the same message again (`BuryRaises`, `tasks.py:157-171`).
- **IngestApi** - handlers of single events and batches: `Receive`, `ClaimNew`,
  `Deduplicate`, `Enqueue`, `Respond`, `RequestFails`.
- **EventPipeline** - all of these together, their environment (start-up, time,
  expiry, a foreign producer), fairness and the properties.
- **EventDelivery** - the abstract promise: an enqueued message is open until its
  event is stored or it is dead; the pipeline is shown to implement it. Since runs
  overlap, one may bury a message whose event another has stored and acknowledged, and
  one may store the event of a message that another has buried: `Bury` and `Store` allow
  both, and nothing that is neither stored nor dead is ever closed.
- **RequestSteps** - the handlers of the API processes and `get_db`. `step` is the
  command a handler is about to issue; `answersFirst` says whether the response
  precedes the commit. FastAPI ran the part of a dependency after its `yield` before
  it sent the response up to 0.117, and runs it afterwards from 0.118 on;
  `requirements.txt:2` allows both, so both are initial states.
- **SyncIngest** - `ingest_one` in sync mode, event by event of a batch, over the
  same `EventsTable` and `IdempotencyKeys` as the pipeline. `claims` is the key a
  handler has won, `told` (history) the events of 2xx answers, `left` (history) those
  whose last claim or row was of a request that failed.
- **UserRows** - a row of `users`: version, active, role; what a PATCH does to it.
- **Accounts** - registration (look for the address as typed, insert it in lower
  case) and PATCH (check of the caller, SELECT or identity map, UPDATE with the
  version as condition). `users` are the committed rows, `draft` the uncommitted ones
  of each handler, `read` the version in its identity map. Requests that are refused
  at their first SELECT (401, 403, 409) or by the rate limiter change nothing and are
  no actions; neither is a login.
- **RequestApi** - these two under one `get_db`: answer, commit, rollback, failure.
- **UserDirectory** - the abstract promise: an address is registered once, an update
  is applied to the row it replaces and moves its version on.
- **MetricsSnapshots** - the three metrics with row, cached value, advisory lock
  and the transactions of requests and jobs. A count is represented by the version
  of the events it was taken from, since every property below is about its age.
  The retention job computes the cohort of eight days before, which is closed: its
  version is the last. Rows and cached values may have been computed before.
- **RateLimit** - requests that pass the windows of address, user and writer.
  `Enter` reads the clock of the request's process, which is `skew` ahead of Redis's
  `now`; `Admit` and `Reject` are the script, up to `MaxDelay` later, with pruning,
  counting, ZADD and PEXPIRE in one step; `Tick` lets keys expire. `log` is a history
  of all entries, which the properties compare with the sorted set.
- **EventPipelineProofs**, **KeyProofs**, **DeliveryProofs**,
  **RequestProofs**, **MetricsProofs**, **RateLimitProofs** - theorems.

Some definitions are preceded by a variant of themselves, introduced by the word
"Mutant" (a dropped guard, a missing reset, an off-by-one). They are not part of
any specification: putting one in the place of its original makes the property
that names it fail, which shows that the property looks at that code.

## 3. Runs

| Run | What it asks | Bounds |
|---|---|---|
| ingest | batches with equal events in two handlers, a refused row, foreign messages: `TypeOK`, `LossOnlyByRollback`, `DeadLetteredIsUnstored`, `StoredIsCounted`, `EnqueuedOnce`, `DedupIsBacked`, `AcceptedIsSafe` | 2 handlers, 1 run at a time, 2 events, 3 messages |
| overlap | two runs that reclaim from each other and contend for the same rows up to a deadlock: `LossInvariant`, `CountInvariant`, `DeadLetterOnlyAfterMaxDeliveries`, `RunsAdvance`, `RunsEnd` | 2 runs, 2 events, 2 messages, 3 deliveries, no faults |
| faults | every fault of Redis, database, process and request, messages that are malformed or invalid: `ImplementsDelivery`, `DeadLetterOnlyAfterMaxDeliveries`, `RunsAdvance` | 1 run at a time, 2 messages, no refused row |
| recover | faults that stop, MAXLEN that trims, keys that expire: `DoneWasEnqueued`, `AtLeastOnce`, `AcceptedIsSettled`, `PoisonIsBuried`, `PelDrains` | 1 run at a time, MAXLEN 1, batches of 1, 2 messages |
| requests | sync batches with common events, registrations and updates, failures, expiring keys, answers before or after the commit: `TypeOK`, `ToldIsStored`, `KeyInvariant`, `ImplementsDirectory`, `RequestsEnd`, `RetriesSucceed` | 2 handlers, batches {e1} and {e1, e2}, 2 addresses, 2 changes, 3 versions; a behaviour is about users or about events |
| metrics | requests, summaries and jobs with rollbacks and Redis failures: `TypeOK`, `LockInvariant`, `SnapshotNeverGoesBack`, `OnlyReadsPutBack`, `CohortStaysRight`, `SessionsEnd`, `CatchesUp` | 1 request and 1 job at a time, DAU and retention, 2 versions |
| limiter | requests in processes whose clocks differ, with late and failing scripts: `AtMostLimit`, `RejectedAtLimit`, `WindowInvariant` | 2 requests of one user at a time, clocks off by 1, delay 1, window 6, time 10, limits of 1 |
| loss, orphan, jam, day, version | the findings below | as small as shows them |

Bounds: `MaxMsg` messages, `BatchSize` per command, `MaxDeliveries`, `MaxVersion`.
Two messages are enough for one to hurt another in the same batch, two runs for
one to take a message from the other or to deadlock, two deliveries for a message
to be retried before it is buried, and three in the overlap run so that a
victim is retried. `ClaimMinIdle = 1` makes "idle too long" one tick. In the run
recover `BatchSize` is 1, so that a reclaimed message may be outside of the window of
XPENDING and then counts as delivered once.

The overlap run has no crash, refused row or expiring key, and no broken message: with
them two runs exceed what TLC can enumerate. What these add to overlapping runs is covered by the
theorems, which allow any number of runs under every fault; faults, refused rows
and expiry with one run at a time are in the runs faults, ingest and recover.

In the requests run, two handlers are enough for two registrations of one address,
for an update between the SELECT and the UPDATE of another, and, with keys that
expire under a handler, for two batches that wait for each other's rows. Three
versions let a stale version be used after two updates. `OneTable` leaves out
behaviours that touch both tables; events and users share nothing but the check of
the caller, which reads `users` and may admit any event request of a permitted
user, so what it leaves out are products of behaviours that are kept.

In the metrics, two versions are what it takes to have an older and a newer count;
DAU and retention differ from each other (write-back, swallowed error, open and closed
day) and the funnel behaves like a retention of the current day whose errors are not
swallowed. One request and one job cannot wait for each other in a circle, since a job
takes one lock only; two summaries might, and that they never do is the theorem
`NoDeadlockHolds`. In the limiter the margin is `MaxDelay + 2 * MaxSkew = 3`. Time, 10, is
longer than a window and the margin, so that `RejectedAtLimit` does not count every
admission there ever was, and the window is longer than the margin, so that
`AtMostLimit` speaks of more than one instant. The limits are 1, because with larger ones
as much time is out of TLC's reach; the theorems are about any limits. That scripts run
within `MaxDelay` of the clock reading is an assumption: nothing in the code bounds
it. Symmetry is used only in runs without liveness properties.

Deadlock is checked in every run: the models never stop, since time passes, keys
expire and requests arrive.

**Fairness.** The pipeline assumes weak fairness of start-up (both processes call
`ensure_consumer_group`), of time, of each run's next command (cron starts runs,
awaits return or raise) and of each handler's. Faults are never fair, and
liveness is stated for behaviours in which they stop (`FaultsStop`), because a run
that is killed every time makes no progress. It is not assumed that requests
arrive. The requests assume strong fairness of each handler's next command, because
PostgreSQL grants a row to its waiters in turn, and that keys expire, since a replay
does not renew them; `RetriesSucceed` is about behaviours in which failures of event
requests stop and a client keeps sending. The metrics assume that values expire,
strong fairness of the start of the hourly jobs, DAU and funnel (cron repeats them, and
a worker slot is busy in between), and strong fairness of each session, for the same
reason about locks. The retention job is not fair: cron runs it once a day
(`settings.py:34`), each day for another cohort (`tasks.py:223`), so a cohort has one
try. `POST /admin/jobs` may start any job at any time, but nothing says that it will.

## 4. Findings

- **loss** - `docs/architecture.md:46` promises at-least-once delivery. One refused
  INSERT aborts the transaction of the batch; the exception is caught
  (`tasks.py:157`), COMMIT becomes a ROLLBACK without an error, and the batch is
  acknowledged (`tasks.py:177`). Rows written before the refused one are gone.
  `LossOnlyByRollback` shows that, trimming aside, this is the only way to lose one.
- **orphan** - `event_service.py:82` takes a held key for "async in-flight". A
  handler that fails between SET NX and XADD leaves a key without a message, and
  retries are answered "deduplicated" until it expires.
- **jam** - `docs/architecture.md:48`: poison messages reach the dead letter stream.
  A payload that is JSON but no object raises outside the `try` (`tasks.py:125`)
  and ends each run that picks it up, before it is ever counted.
- **day** - `docs/resume-talk-track.md:60-62`: the exact DAU has no error and serves
  daily reports. Jobs count the current date only, for the last time at 23:05, and
  reads return the row they find: later events of that day are never counted.
- **version** - `docs/resume-talk-track.md:20`: the version makes concurrent updates
  conflict, so that none is lost. Where the answer precedes the commit (FastAPI 0.118
  and later), a client may base an update on a version that is not committed yet;
  its SELECT reads the old row, its UPDATE matches the new one, and the version it
  sets (`user_service.py:37`) is the one it was based on. A third update with that
  version overwrites the second without a conflict. `NoUpdateIsLost` proves that this
  cannot happen where the answer comes after the commit.

Seen on the way, not contradicted by any document: two registrations of one
address at the same time, or with other letter case, end in a 500 of the UNIQUE index
and not in the 409 of `auth_service.py`; in sync mode too, a request that is rolled back
leaves its keys behind (`left` in `ToldIsStored`), so that replays are "deduplicated"
until they expire; before its commit, a row's new version may be told to a client
and then be rolled back; and when the one retention job of a cohort fails, say at its
Redis SET (`metrics_service.py:378`), a row that a read has computed before the seventh
day was over is returned from then on (`metrics_service.py:418`). `CohortStaysRight`
says what remains true: if that job commits, nothing brings the old counts back.

## 5. Proofs

The modules follow one pattern: an invariant `I`, `Init => I`,
`I /\ [Next]_vars => I'` with a lemma per action, and the property from `I`.
Assumptions are those of the modules on their constants (finite limits at least 1,
names of faults, numbers that are naturals); the sets of runs, handlers, events,
requests, jobs, addresses and users are arbitrary.

**EventPipelineProofs**
- `TypeCorrect`: `TypeOK`.
- `LossOnlyByRollbackHolds`, `LossInvariantHolds`: with any number of runs and every
  fault, a message is lost by trimming or by a discarded row only. The property alone
  is not inductive: an ACK says nothing of why it is safe. `LossInvariant` adds that
  delivered messages are pending or settled, that an id in `ids_to_ack` has its row
  committed, in the run's own transaction, or discarded, that a run in front of XACK
  has committed, and that one in front of the dead letter's XACK has copied the message.
- `DeadLetterOnlyAfterMaxDeliveriesHolds`, `CountInvariantHolds`: delivery counters
  never shrink while a message is pending, so the count a run remembers is a lower
  bound of the true one, whatever other runs did since XPENDING.
- `RunsAdvanceHolds`: every step of a run, successful or not, ends it, or takes it to a
  later command or a shorter list, and other runs leave its list alone. A message is
  inserted at most once in a run; `dead_letter` is called for it once, or a second time
  when Redis failed in the one inside of the `try`, and never a third time. It is the safety
  half of `RunsEnd`: the list is finite, so that a run can fail to end only by waiting.

The lemmas about Redis (`AfterXReadGroup`, `AfterXAutoClaim`, ...) say once what each
command does to pending entries and counters; `LowestIsDownwardClosed` is why COUNT
skips no message.

**KeyProofs**
- `DoneWasEnqueuedHolds`: whatever a run has in hand came from the stream, so that it
  marks no key of an event that was never enqueued.
- `EnqueuedOnceHolds`, if `~KeysExpire`: a key that is held has one handler that is
  about to enqueue, or a message, and never two of these.
- `DedupIsBackedHolds`, if `~RequestFaults`: the finding **orphan** is what happens
  without this condition.
- `StoredIsCountedHolds`, if `"redis" \notin Faults`: PFADD precedes the COMMIT, but its
  failure is caught like any other exception of the loop, after the INSERT.
- `AcceptedIsSafeHolds`, if `~RequestFaults`: an event with a 2xx answer has a message, or
  a handler that is about to enqueue it (`ServedInv`, which follows an answer from the
  key through the handler that replied "deduplicated"), and a message is safe but for
  the two leaks (`LossOnlyByRollbackHolds`).

**DeliveryProofs** - any number of overlapping runs.
- `PipelineImplementsDelivery`: behaviours of the pipeline in which nothing is trimmed and
  no row discarded are behaviours of `EventDelivery`. Both conditions are needed: these
  are the two ways to lose a message. `LossInvariant` is strengthened by `RowsInv`: an
  event in an open transaction is in no other open one and not in the table, since its
  INSERT would have waited or found it, and a message of it is pending or dead. So a
  COMMIT is a `Store` of open or dead messages, whoever else has them in hand.
- `DeliveryLosesNothing`: the abstract specification implies what it is for.
- `AtLeastOnceHolds`, if `Refused = {}` and runs do not deadlock: then no transaction is
  aborted (`Unaborted`) and no row discarded, so that trimming is the only leak left. The
  finding **loss** is what happens without the first condition; the victim of a deadlock
  is a refused INSERT like any other.
- `OnlyBrokenIsBuriedHolds`, if in addition neither Redis nor PostgreSQL fails: only
  messages without a valid event are dead-lettered, crashes or not. `BuryInv` adds that
  transactions stay usable and what a run is about to bury.
- `BuriesOutsideTransactionHolds`, if `"redis" \notin Faults`: a run that is about to bury
  the message of a valid event is not in a working transaction, so it never commits the
  event's row together with the burial, whichever rows are refused, runs deadlock, lose
  their connection or crash. Without the condition it does: Redis fails after the INSERT,
  the exception is caught, and the row stays in the transaction (`tasks.py:80-89`, 157).

**RequestProofs**
- `RequestTypeCorrect`, `KeysAreBacked`, `AnswersAreBacked`: from `IInv`, which is
  `TypeOK`, `KeyInvariant` and what each step of a handler has in hand.
- `RequestsImplementDirectory`: each step of a request is a step of `UserDirectory` or a
  stutter. `UserInv` carries it: a draft was computed from the row that is still
  committed, because RowFree keeps others from writing it, and its version is the
  next, or (`Slack`) the same where answers come first.
- `NoUpdateIsLost`: where the answer comes after the commit, what an update commits has a
  version past the one it was based on, so that two updates are never based on the same.
  From `BaseInv`: a client knows committed versions only, so that the row which the
  SELECT has read is at least as new as the version the request names.
- `ClaimsKeepRowsApart`, if `~KeysExpire`: from `OwnerInv`, an event has at most one
  request that has claimed it or written its row, and none once it is stored. So ON
  CONFLICT finds nothing, no batch waits for another and none is a deadlock's victim:
  these exist for keys that expire under a request that holds them (TLC shows both).
- `ToldIsKeptHolds`, if in addition `~Faults`: `left` stays empty, and a 2xx answer is
  kept although it may rest on a key alone and precede the commit.

**MetricsProofs**
- `MetricsTypeCorrect`, `LocksProtectCounts`: `TypeOK` and `LockInvariant`, the inductive
  invariant. The lock is taken before the count and held until the end of the
  transaction, so that what a session has counted is as new as anything committed or
  cached for the metric.
- `SnapshotNeverGoesBackHolds`, `OnlyReadsPutBackHolds`: action properties from it.
  Every step belongs to one session, and `OtherSessionsKeep` shows that it does not
  disturb what the others have in hand.
- `CohortStaysRightHolds`: from `CohortInv`, a session that has counted the cohort has
  counted all of it, no read writes back the row it found, and a job that has passed
  its Redis SET has left the cached value complete or gone.
- `NoDeadlockHolds`: from `LockOrder`, a session's locks are of metrics not after the one
  it computes, in the order in which `get_summary` goes through them. A circle of
  sessions that wait would have to come back to a smaller metric.

**RateLimitProofs**
- `WindowInvariantHolds`: from `LimiterInv`, which adds that sets are finite. A request
  prunes what is older than a window by a clock that is at most `MaxSkew` ahead, of
  entries whose scores are at most `MaxSkew + MaxDelay` behind (`RecentAreKept`), and a
  key outlives its youngest entry.
- `AtMostLimitHolds`: what was admitted within `Window - Slack` is all in the sorted set,
  which the script keeps within the limit. With exact clocks and no delay the period
  is the window itself. This is a promise that `rate_limit.py:3-5` makes.
- `RejectedAtLimitHolds`: what the script counts was admitted within `Window + Slack`,
  so that a rejected request has the whole limit ahead of it.

**Only model-checked:** all liveness (`AcceptedIsSettled`, `PoisonIsBuried`, `PelDrains`,
`RunsEnd`, `RequestsEnd`, `RetriesSucceed`, `SessionsEnd`, `CatchesUp`), which is out of
reach of the provers. What could be proved of it is its safety half: `RunsAdvance`,
`NoDeadlock` and `ClaimsKeepRowsApart`. `DeadLetteredIsUnstored` is model-checked only: it
holds while one run works at a time, nothing fails and no key expires, as in the run
ingest. A second run, a Redis failure behind the INSERT, a crash before XACK next to a
refused row, or an expired key each put one message into both places; what can be
said without these hypotheses is `BuriesOutsideTransactionHolds`. Every other invariant
and every action property of the runs that pass is proved, some under the hypotheses
given above: the runs show `AtLeastOnce`, `EnqueuedOnce`, `DedupIsBacked`,
`AcceptedIsSafe` and `StoredIsCounted` on instances that satisfy them.

## 6. Not modelled

- What the metrics queries count (sequential SQL over one table; a model would repeat
  the queries), the realtime rate, the HyperLogLog's answers.
- `POST /admin/jobs/{job_name}` and ARQ's queue: a job it enqueues is a run like those of
  cron, which the models start at any time.
- `cleanup_job`: it deletes from `idempotency_keys`, a table nothing writes to.
- The rate limiter's headers, which report counts and are read by nothing.
- The dead letter stream's own MAXLEN, and copies of a message in it: it is a set.
- Middleware, health, logging, Prometheus: no state that another part reads.
- Field validation, token formats, hashing: conversions no property is about.
- Migrations and scripts: they run once, before the system serves; what they leave
  is the initial state.

## 7. Plan

1. Algorithms of the metrics (funnel conversion, retention cohorts) against reference
   definitions, in a module of their own.
2. The safety half of `RequestsEnd` and `SessionsEnd`: a request and a session advance
   with every step, as `RunsAdvance` states it of the worker's runs.
3. `EnqueuedOnce` and `DedupIsBacked` with keys that expire or requests that fail, for the
   events whose keys did not.
