-------------------------- MODULE MetricsSnapshots --------------------------
(***************************************************************************)
(* The metrics of app/services/metrics_service.py: counts over the events  *)
(* table, kept as rows of the snapshot tables and as Redis keys with a     *)
(* TTL, computed by cron jobs and, where neither has them, by the reads.   *)
(*                                                                         *)
(* A count is told apart by how new the data is that it was taken from:    *)
(* version n of the events table is the n-th set of committed events, and  *)
(* 0 stands for no row, no key, no count. Of each metric one row is        *)
(* modelled, that of the current date: the DAU of the date, the funnel of  *)
(* the window that ends with it, the retention of the cohort of the date   *)
(* 8 days before, whose last day, the seventh, is over. Each of them may   *)
(* have been computed before, for requests name any date they like.        *)
(*                                                                         *)
(* A session is an API request or a run of a job, in one transaction at    *)
(* READ COMMITTED: a statement sees what was committed when it began.      *)
(***************************************************************************)
EXTENDS Naturals

CONSTANTS
  Metrics,     \* which of the three metrics are modelled
  Readers,     \* requests to /metrics served at the same time
  Workers,     \* metric jobs that run at the same time
  MaxVersion,  \* bound of the model: versions of the events table
  Faults       \* which of "redis", "db" may happen

ASSUME MetricsAssumption ==
  /\ Metrics \subseteq {"dau", "funnel", "retention"}
  /\ Metrics # {}
  /\ Readers \cap Workers = {}
  /\ MaxVersion \in Nat \ {0}
  /\ Faults \subseteq {"redis", "db"}

Sessions == Readers \cup Workers

\* get_summary reads the metrics in this order, in one transaction.
Order == [dau |-> 1, funnel |-> 2, retention |-> 3]

\* Mutant of WrittenBack: every read writes back the row it finds.
AllWrittenBack == Metrics

\* get_dau alone writes the row it finds back to the cache.
WrittenBack == {"dau"}

Steps == {"idle", "get", "row", "fill", "lock", "count", "upsert", "set",
          "commit"}

VARIABLES
  data,     \* version of the committed events
  over,     \* midnight has passed: the jobs turn to the next date
  snap,     \* snap[k]: version the committed snapshot row was computed from
  cache,    \* cache[k]: version the cached value was computed from
  held,     \* held[s]: advisory locks of s
  wrote,    \* wrote[s][k]: the row s has upserted and not yet committed
  todo,     \* todo[s]: metrics s has still to get
  seen,     \* seen[s]: what s has read or counted for its first
  step,     \* step[s]: the command s is about to issue
  summing   \* requests that execute get_summary

vars == <<data, over, snap, cache, held, wrote, todo, seen, step, summing>>

TypeOK ==
  /\ data \in 1..MaxVersion
  /\ over \in BOOLEAN
  /\ snap \in [Metrics -> 0..MaxVersion]
  /\ cache \in [Metrics -> 0..MaxVersion]
  /\ held \in [Sessions -> SUBSET Metrics]
  /\ wrote \in [Sessions -> [Metrics -> 0..MaxVersion]]
  /\ todo \in [Sessions -> SUBSET Metrics]
  /\ seen \in [Sessions -> 0..MaxVersion]
  /\ step \in [Sessions -> Steps]
  /\ summing \subseteq Readers
  /\ \A s \in Sessions : todo[s] = {} <=> step[s] \in {"idle", "commit"}

NoRows == [k \in Metrics |-> 0]

\* Version of the events that metric k counts: those of a cohort that is 8 days
\* old are complete, those of the date still arrive.
Version(k) == IF k = "retention" THEN MaxVersion ELSE data

Init ==
  /\ data = 1
  /\ over = FALSE
  /\ snap \in [Metrics -> 0..MaxVersion]
  /\ cache \in [Metrics -> 0..MaxVersion]
  /\ \A k \in Metrics : snap[k] <= Version(k) /\ cache[k] <= Version(k)
  /\ held = [s \in Sessions |-> {}]
  /\ wrote = [s \in Sessions |-> NoRows]
  /\ todo = [s \in Sessions |-> {}]
  /\ seen = [s \in Sessions |-> 0]
  /\ step = [s \in Sessions |-> "idle"]
  /\ summing = {}

-----------------------------------------------------------------------------
\* Events are committed; shortly after midnight still some of the day, which
\* were written before it.
EventsArrive ==
  /\ data < MaxVersion
  /\ data' = data + 1
  /\ UNCHANGED <<over, snap, cache, held, wrote, todo, seen, step, summing>>

Midnight ==
  /\ ~over
  /\ over' = TRUE
  /\ UNCHANGED <<data, snap, cache, held, wrote, todo, seen, step, summing>>

\* The TTL of the cached value runs out.
Expire(k) ==
  /\ cache[k] # 0
  /\ cache' = [cache EXCEPT ![k] = 0]
  /\ UNCHANGED <<data, over, snap, held, wrote, todo, seen, step, summing>>

-----------------------------------------------------------------------------
Begin(s, metrics, first) ==
  /\ step[s] = "idle"
  /\ todo' = [todo EXCEPT ![s] = metrics]
  /\ step' = [step EXCEPT ![s] = first]
  /\ UNCHANGED <<data, over, snap, cache, held, wrote, seen>>

\* GET /metrics/dau, /metrics/funnel, /metrics/retention.
StartRead(r, k) == Begin(r, {k}, "get") /\ UNCHANGED summing

\* GET /metrics/summary, of the current date.
StartSummary(r) ==
  /\ ~over
  /\ Begin(r, Metrics, "get")
  /\ summing' = summing \cup {r}

\* Cron or POST /admin/jobs starts the job of metric k at the current date, the
\* retention's with the cohort of 8 days before. Cron repeats the jobs of the DAU
\* and of the funnel every hour; the retention's it starts once for each cohort.
StartJob(w, k) ==
  /\ ~over
  /\ Begin(w, {k}, "lock")
  /\ UNCHANGED summing

Goto(s, next) == step' = [step EXCEPT ![s] = next]

\* Mutant of Advance: a summary ends with its first metric.
AdvanceToEnd(s, k) ==
  /\ todo' = [todo EXCEPT ![s] = @ \ {k}]
  /\ seen' = [seen EXCEPT ![s] = 0]
  /\ Goto(s, "commit")

\* s has its value for k and goes on with the next metric, or to its end.
Advance(s, k) ==
  /\ todo' = [todo EXCEPT ![s] = @ \ {k}]
  /\ seen' = [seen EXCEPT ![s] = 0]
  /\ Goto(s, IF todo[s] = {k} THEN "commit" ELSE "get")

\* The metric s is at is the first it has still to get.
Current(s, k) == k \in todo[s] /\ \A o \in todo[s] : Order[k] <= Order[o]

At(s, k, here) == step[s] = here /\ Current(s, k)

\* _cache_get, a hit and a miss.
CacheHit(s, k) ==
  /\ At(s, k, "get")
  /\ cache[k] # 0
  /\ Advance(s, k)
  /\ UNCHANGED <<data, over, snap, cache, held, wrote, summing>>

CacheMiss(s, k) ==
  /\ At(s, k, "get")
  /\ cache[k] = 0
  /\ Goto(s, "row")
  /\ UNCHANGED <<data, over, snap, cache, held, wrote, todo, seen, summing>>

\* SELECT of the snapshot row: there is one, which may be written back,
RowFound(s, k) ==
  /\ At(s, k, "row")
  /\ snap[k] # 0
  /\ IF k \in WrittenBack
     THEN seen' = [seen EXCEPT ![s] = snap[k]] /\ Goto(s, "fill") /\ UNCHANGED todo
     ELSE Advance(s, k)
  /\ UNCHANGED <<data, over, snap, cache, held, wrote, summing>>

\* ... or there is none, and the read computes the metric like a job.
RowMissing(s, k) ==
  /\ At(s, k, "row")
  /\ snap[k] = 0
  /\ Goto(s, "lock")
  /\ UNCHANGED <<data, over, snap, cache, held, wrote, todo, seen, summing>>

\* _cache_set of get_dau, with the row read before.
Fill(s, k) ==
  /\ At(s, k, "fill")
  /\ cache' = [cache EXCEPT ![k] = seen[s]]
  /\ Advance(s, k)
  /\ UNCHANGED <<data, over, snap, held, wrote, summing>>

\* Mutant of Lock: pg_try_advisory_xact_lock, whose result is not looked at.
TryLock(s, k) ==
  /\ At(s, k, "lock")
  /\ held' = IF \A o \in Sessions \ {s} : k \notin held[o]
             THEN [held EXCEPT ![s] = @ \cup {k}] ELSE held
  /\ Goto(s, "count")
  /\ UNCHANGED <<data, over, snap, cache, wrote, todo, seen, summing>>

\* SELECT pg_advisory_xact_lock: waits for the session that holds the lock.
Lock(s, k) ==
  /\ At(s, k, "lock")
  /\ \A o \in Sessions \ {s} : k \notin held[o]
  /\ held' = [held EXCEPT ![s] = @ \cup {k}]
  /\ Goto(s, "count")
  /\ UNCHANGED <<data, over, snap, cache, wrote, todo, seen, summing>>

\* The SELECT count(...) statements. The funnel and the retention take several,
\* each with a snapshot of its own: the value is as old as the first of them.
CountEvents(s, k) ==
  /\ At(s, k, "count")
  /\ seen' = [seen EXCEPT ![s] = Version(k)]
  /\ Goto(s, "upsert")
  /\ UNCHANGED <<data, over, snap, cache, held, wrote, todo, summing>>

\* Mutant of Upsert: ON CONFLICT DO NOTHING.
InsertOnly(s, k) ==
  /\ At(s, k, "upsert")
  /\ \A o \in Sessions \ {s} : wrote[o][k] = 0
  /\ wrote' = IF snap[k] = 0 THEN [wrote EXCEPT ![s][k] = seen[s]] ELSE wrote
  /\ Goto(s, "set")
  /\ UNCHANGED <<data, over, snap, cache, held, todo, seen, summing>>

\* INSERT ... ON CONFLICT DO UPDATE, which waits for an uncommitted row.
Upsert(s, k) ==
  /\ At(s, k, "upsert")
  /\ \A o \in Sessions \ {s} : wrote[o][k] = 0
  /\ wrote' = [wrote EXCEPT ![s][k] = seen[s]]
  /\ Goto(s, "set")
  /\ UNCHANGED <<data, over, snap, cache, held, todo, seen, summing>>

\* Mutant of CacheSet: with the row as it is committed, not with the new one.
CacheCommitted(s, k) ==
  /\ At(s, k, "set")
  /\ cache' = [cache EXCEPT ![k] = snap[k]]
  /\ Advance(s, k)
  /\ UNCHANGED <<data, over, snap, held, wrote, summing>>

\* _cache_set of the compute functions, before the commit.
CacheSet(s, k) ==
  /\ At(s, k, "set")
  /\ cache' = [cache EXCEPT ![k] = seen[s]]
  /\ Advance(s, k)
  /\ UNCHANGED <<data, over, snap, held, wrote, summing>>

\* The transaction is over; its advisory locks are released.
EndSession(s) ==
  /\ held' = [held EXCEPT ![s] = {}]
  /\ wrote' = [wrote EXCEPT ![s] = NoRows]
  /\ todo' = [todo EXCEPT ![s] = {}]
  /\ seen' = [seen EXCEPT ![s] = 0]
  /\ summing' = summing \ {s}
  /\ Goto(s, "idle")

Stored(s) == [k \in Metrics |-> IF wrote[s][k] = 0 THEN snap[k] ELSE wrote[s][k]]

\* Mutant of Commit: session-level locks, which outlive the transaction.
CommitKeepingLocks(s) ==
  /\ step[s] = "commit"
  /\ snap' = Stored(s)
  /\ wrote' = [wrote EXCEPT ![s] = NoRows]
  /\ seen' = [seen EXCEPT ![s] = 0]
  /\ summing' = summing \ {s}
  /\ Goto(s, "idle")
  /\ UNCHANGED <<data, over, cache, held, todo>>

\* The commit of get_db after the request, or of the job.
Commit(s) ==
  /\ step[s] = "commit"
  /\ snap' = Stored(s)
  /\ EndSession(s)
  /\ UNCHANGED <<data, over, cache>>

\* An exception, a crash: the transaction is rolled back. The same becomes of
\* the COMMIT of a summary whose retention the database failed, an exception
\* get_summary swallows (metrics_service.py:477). The cache keeps what it has.
RollBack(s) ==
  /\ "db" \in Faults
  /\ step[s] # "idle"
  /\ EndSession(s)
  /\ UNCHANGED <<data, over, snap, cache>>

\* Redis fails: a GET, or a SET that may have taken effect nevertheless.
RedisError(s, k) ==
  /\ "redis" \in Faults
  /\ \/ At(s, k, "get") /\ UNCHANGED cache
     \/ /\ At(s, k, "fill") \/ At(s, k, "set")
        /\ cache' \in {cache, [cache EXCEPT ![k] = seen[s]]}

\* get_summary swallows it for its retention, and the transaction goes on to
\* commit what it has written.
SkipRetention(s) ==
  /\ RedisError(s, "retention")
  /\ s \in summing
  /\ Advance(s, "retention")
  /\ UNCHANGED <<data, over, snap, held, wrote, summing>>

\* Elsewhere the exception ends the session.
RedisFails(s, k) ==
  /\ RedisError(s, k)
  /\ s \notin summing \/ k # "retention"
  /\ EndSession(s)
  /\ UNCHANGED <<data, over, snap>>

-----------------------------------------------------------------------------
Proceed(s) ==
  \/ Commit(s)
  \/ \E k \in Metrics :
       \/ CacheHit(s, k) \/ CacheMiss(s, k) \/ Fill(s, k)
       \/ RowFound(s, k) \/ RowMissing(s, k)
       \/ Lock(s, k) \/ CountEvents(s, k) \/ Upsert(s, k) \/ CacheSet(s, k)

Fault(s) ==
  RollBack(s) \/ SkipRetention(s) \/ \E k \in Metrics : RedisFails(s, k)

RunJob(k) == \E w \in Workers : StartJob(w, k)

Next ==
  \/ EventsArrive \/ Midnight
  \/ \E k \in Metrics : Expire(k) \/ RunJob(k)
  \/ \E r \in Readers : StartSummary(r) \/ \E k \in Metrics : StartRead(r, k)
  \/ \E s \in Sessions : Proceed(s) \/ Fault(s)

Spec == Init /\ [][Next]_vars

\* What cron starts again and again while the day lasts.
Hourly == Metrics \ {"retention"}

\* Cached values expire, the hourly jobs are started, and a session goes on; the
\* waiters of a lock get it in turn. Nothing makes a failed retention job run
\* again for its cohort, so its start has no fairness.
Fairness ==
  /\ \A k \in Metrics : WF_vars(Expire(k))
  /\ \A k \in Hourly : SF_vars(RunJob(k))
  /\ \A s \in Sessions : SF_vars(Proceed(s))

FairSpec == Spec /\ Fairness

-----------------------------------------------------------------------------
UnderLock(s, k) == At(s, k, "count") \/ At(s, k, "upsert") \/ At(s, k, "set")
Counted(s, k) == At(s, k, "upsert") \/ At(s, k, "set")

\* What s has in hand for metric k.
SessionInvariant(s, k) ==
  /\ UnderLock(s, k) => k \in held[s]
  /\ Counted(s, k) =>
       seen[s] # 0 /\ seen[s] \in snap[k]..Version(k) /\ seen[s] >= cache[k]
  /\ At(s, k, "fill") => seen[s] <= snap[k]
  /\ wrote[s][k] # 0 =>
       k \in held[s] /\ wrote[s][k] \in snap[k]..Version(k)

(* What makes the rows safe (metrics_service.py:46-84): one session at most holds
   the lock of a metric, only that one has a count of it or an uncommitted row,
   and they are older than neither the committed row nor the cached value, nor
   newer than the events. *)
LockInvariant ==
  /\ \A k \in Metrics : snap[k] <= Version(k) /\ cache[k] <= Version(k)
  /\ \A s, o \in Sessions : s # o => held[s] \cap held[o] = {}
  /\ \A s \in Sessions, k \in Metrics : SessionInvariant(s, k)

(* "Advisory lock to avoid concurrent recompute races for same date"
   (metrics_service.py:48): a snapshot row is never replaced by one computed
   from older events, whatever jobs and reads compute it at the same time, and
   however they end. *)
SnapshotNeverGoesBack == [][\A k \in Metrics : snap'[k] >= snap[k]]_vars

(* Nor is a cached value replaced by an older one, except by the reads of the
   DAU that write back a row they selected before (metrics_service.py:121): the
   computations cache under the lock what they counted under it, and what a
   transaction cached that then rolled back is no newer than what is counted
   after it. *)
OnlyReadsPutBack ==
  [][\A k \in Metrics :
       cache'[k] < cache[k] =>
         cache'[k] = 0 \/ \E s \in Sessions : At(s, k, "fill") /\ step'[s] # "fill"]_vars

\* s waits for a lock of o, or for o to end the transaction that wrote the row.
Waits(s, o) ==
  /\ s # o
  /\ \E k \in Metrics :
       \/ At(s, k, "lock") /\ k \in held[o]
       \/ At(s, k, "upsert") /\ wrote[o][k] # 0

(* get_summary keeps the lock of each metric it computes while it waits for the
   next (metrics_service.py:465-476), next to jobs and reads that take them one at
   a time: no sessions ever wait for each other in a circle, for all collect the
   locks in one order. It takes two summaries to matter, so it is proved and not left
   to a small instance. *)
NoDeadlock ==
  \A C \in SUBSET Sessions : (\A s \in C : \E o \in C : Waits(s, o)) => C = {}

(* Sessions wait for each other's locks, which get_summary collects one after
   the other (metrics_service.py:465-476): every one of them still ends. *)
SessionsEnd == \A s \in Sessions : step[s] # "idle" ~> step[s] = "idle"

\* From some moment on every step is one that happens without faults as well.
FaultsStop == <>[][\A s \in Sessions : Fault(s) => Proceed(s)]_vars

(* While the day lasts, the snapshot catches up with the events, and so does
   what the cache holds: the values that reads write back late
   (metrics_service.py:121), and those of transactions that never committed,
   expire and are not written again. *)
CatchesUp ==
  FaultsStop =>
    \A k \in Hourly :
      []~over => <>[](snap[k] = Version(k) /\ cache[k] \in {0, Version(k)})

\* The row of the cohort is complete, and so is its cached value if there is one.
CohortIsRight ==
  /\ snap["retention"] = Version("retention")
  /\ cache["retention"] \in {0, Version("retention")}

CommitsCohort(w) == wrote[w]["retention"] # 0 /\ Commit(w)

(* A request may name a cohort before its seventh day is over, and no read
   replaces the row of the counts so far (metrics_service.py:418). The job of the
   eighth day does if it commits: row and cached value are right from then on,
   whatever reads, summaries and jobs had selected, counted or cached of the
   cohort before, and however they end. *)
CohortStaysRight ==
  [][(CohortIsRight \/ \E w \in Workers : CommitsCohort(w)) => CohortIsRight']_vars

(* docs/resume-talk-track.md:60-62: the exact count of the snapshots has an
   error of 0 and is the project's figure for daily reports: once a day is over,
   its row comes to count all of its events. *)
DayIsCountedInFull ==
  FaultsStop =>
    [](over /\ snap["dau"] # 0 => <>(snap["dau"] = data))

=============================================================================
