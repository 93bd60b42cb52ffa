--------------------------- MODULE MetricsProofs ---------------------------
(***************************************************************************)
(* The snapshots and the cache of the metrics, for every number of         *)
(* requests and jobs: the advisory locks keep older counts from replacing  *)
(* newer ones.                                                             *)
(***************************************************************************)
EXTENDS MetricsSnapshots, TLAPS

\* The inductive invariant.
SnapshotInv == TypeOK /\ LockInvariant

-----------------------------------------------------------------------------
(* The version of the events a metric counts is a positive number, and depends on
   the events alone. *)
LEMMA VersionIsPositive ==
  ASSUME TypeOK, NEW k
  PROVE  Version(k) \in Nat /\ Version(k) # 0 /\ Version(k) \in 0..MaxVersion
BY MetricsAssumption DEF TypeOK, Version

LEMMA VersionsGrow ==
  ASSUME TypeOK, TypeOK', NEW k, data <= data'
  PROVE  Version(k) \in Nat /\ Version(k)' \in Nat /\ Version(k) <= Version(k)'
BY MetricsAssumption DEF TypeOK, Version

LEMMA VersionsKeep ==
  ASSUME data' = data, NEW k
  PROVE  Version(k)' = Version(k)
BY DEF Version

(* A session is at one metric at a time. *)
LEMMA CurrentIsUnique ==
  ASSUME TypeOK, NEW s \in Sessions, NEW a, NEW b, Current(s, a), Current(s, b)
  PROVE  a = b
<1>1. a \in {"dau", "funnel", "retention"} /\ b \in {"dau", "funnel", "retention"}
  BY MetricsAssumption DEF TypeOK, Current
<1>2. Order[a] <= Order[b] /\ Order[b] <= Order[a]
  BY DEF Current
<1> QED
  BY <1>1, <1>2 DEF Order

(* A step of one session, which changes rows and values of a metric whose lock
   it does not hold in a harmless way only, keeps what the others have in hand. *)
LEMMA OtherSessionsKeep ==
  ASSUME SnapshotInv, TypeOK', NEW s,
         \A o \in Sessions \ {s} :
           /\ todo'[o] = todo[o] /\ step'[o] = step[o] /\ seen'[o] = seen[o]
           /\ held'[o] = held[o] /\ wrote'[o] = wrote[o],
         data <= data',
         \A k \in Metrics :
           /\ snap[k] <= snap'[k]
           /\ k \notin held[s] \/ s \notin Sessions => snap'[k] = snap[k]
           /\ k \notin held[s] \/ s \notin Sessions =>
                cache'[k] <= cache[k] \/ cache'[k] <= snap[k],
         NEW o \in Sessions \ {s}, NEW k \in Metrics
  PROVE  SessionInvariant(o, k)'
<1>1. \A h : At(o, k, h)' <=> At(o, k, h)
  BY DEF At, Current
<1>2. SessionInvariant(o, k)
  BY DEF SnapshotInv, LockInvariant
<1>3. s \in Sessions /\ k \in held[s] => k \notin held[o]
  BY DEF SnapshotInv, LockInvariant
<1>4. /\ snap[k] \in Nat /\ snap'[k] \in Nat /\ cache[k] \in Nat /\ cache'[k] \in Nat
      /\ seen[o] \in Nat /\ wrote[o][k] \in Nat
  BY MetricsAssumption DEF SnapshotInv, TypeOK
<1>5. /\ UnderLock(o, k)' <=> UnderLock(o, k)
      /\ Counted(o, k)' <=> Counted(o, k)
      /\ Counted(o, k) => UnderLock(o, k)
      /\ At(o, k, "fill")' <=> At(o, k, "fill")
  BY <1>1 DEF UnderLock, Counted
<1>6. wrote'[o][k] = wrote[o][k] /\ seen'[o] = seen[o] /\ held'[o] = held[o]
  OBVIOUS
<1>7. /\ Version(k) \in Nat /\ Version(k)' \in Nat /\ Version(k) <= Version(k)'
      /\ snap[k] <= snap'[k]
  BY VersionsGrow DEF SnapshotInv
<1>8. k \in held[o] => snap'[k] = snap[k] /\ (cache'[k] <= cache[k] \/ cache'[k] <= snap[k])
  BY <1>3
<1>9. UnderLock(o, k) => k \in held[o]
  BY <1>2 DEF SessionInvariant
<1>11. UnderLock(o, k)' => k \in held'[o]
  BY <1>5, <1>6, <1>9
<1>12. Counted(o, k)' =>
         seen'[o] # 0 /\ seen'[o] \in snap'[k]..Version(k)' /\ seen'[o] >= cache'[k]
  BY <1>2, <1>4, <1>5, <1>6, <1>7, <1>8, <1>9 DEF SessionInvariant
<1>13. At(o, k, "fill")' => seen'[o] <= snap'[k]
  BY <1>2, <1>4, <1>5, <1>6, <1>7 DEF SessionInvariant
<1>14. wrote'[o][k] # 0 =>
         k \in held'[o] /\ wrote'[o][k] \in snap'[k]..Version(k)'
  BY <1>2, <1>4, <1>6, <1>7, <1>8 DEF SessionInvariant
<1> QED
  BY <1>11, <1>12, <1>13, <1>14 DEF SessionInvariant

(* So it is enough to look at the session that takes the step. *)
LEMMA SessionStepKeepsLockInvariant ==
  ASSUME SnapshotInv, TypeOK', NEW s \in Sessions,
         \A o \in Sessions \ {s} :
           /\ todo'[o] = todo[o] /\ step'[o] = step[o] /\ seen'[o] = seen[o]
           /\ held'[o] = held[o] /\ wrote'[o] = wrote[o]
           /\ held'[s] \cap held[o] = {},
         data' = data,
         \A k \in Metrics :
           /\ snap[k] <= snap'[k] /\ snap'[k] <= Version(k)
           /\ cache'[k] <= Version(k)
           /\ k \notin held[s] => snap'[k] = snap[k]
           /\ k \notin held[s] => cache'[k] <= cache[k] \/ cache'[k] <= snap[k],
         \A k \in Metrics : SessionInvariant(s, k)'
  PROVE  LockInvariant'
<1>1. data <= data'
  BY MetricsAssumption DEF SnapshotInv, TypeOK
<1>2. ASSUME NEW o \in Sessions, NEW k \in Metrics
      PROVE  SessionInvariant(o, k)'
  <2>1. CASE o = s
    BY <2>1
  <2>2. CASE o # s
    BY <1>1, <2>2, OtherSessionsKeep
  <2> QED
    BY <2>1, <2>2
<1>4. ASSUME NEW a \in Sessions, NEW b \in Sessions, a # b
      PROVE  held'[a] \cap held'[b] = {}
  <2>1. CASE a # s /\ b # s
    BY <1>4, <2>1 DEF SnapshotInv, LockInvariant
  <2>2. CASE a = s \/ b = s
    BY <1>4, <2>2
  <2> QED
    BY <2>1, <2>2
<1>5. \A k \in Metrics : snap'[k] <= Version(k)' /\ cache'[k] <= Version(k)'
  BY VersionsKeep
<1> QED
  BY <1>2, <1>4, <1>5 DEF LockInvariant

(* An action that leaves rows, cache, locks and its own counts alone only needs
   the metrics it is at afterwards to be harmless: before the lock, or finished. *)
LEMMA QuietStepKeepsLockInvariant ==
  ASSUME SnapshotInv, TypeOK', NEW s \in Sessions,
         UNCHANGED <<data, snap, held, wrote>>,
         \A k \in Metrics :
           cache'[k] <= cache[k] \/ cache'[k] <= snap[k] \/ (k \in held[s] /\ cache'[k] <= Version(k)),
         \A o \in Sessions \ {s} :
           todo'[o] = todo[o] /\ step'[o] = step[o] /\ seen'[o] = seen[o],
         step'[s] \notin {"count", "upsert", "set", "fill"}
  PROVE  LockInvariant'
<1>1. \A k \in Metrics :
        /\ snap[k] \in Nat /\ cache[k] \in Nat /\ cache'[k] \in Nat
        /\ Version(k) \in Nat /\ Version(k)' = Version(k)
  BY MetricsAssumption, VersionIsPositive, VersionsKeep DEF SnapshotInv, TypeOK
<1>2. \A k \in Metrics : ~UnderLock(s, k)' /\ ~Counted(s, k)' /\ ~At(s, k, "fill")'
  BY DEF UnderLock, Counted, At
<1>3. \A k \in Metrics : SessionInvariant(s, k)
  BY DEF SnapshotInv, LockInvariant
<1>4. \A k \in Metrics : SessionInvariant(s, k)'
  BY <1>1, <1>2, <1>3 DEF SessionInvariant
<1>5. \A k \in Metrics : snap[k] <= Version(k) /\ cache[k] <= Version(k)
  BY DEF SnapshotInv, LockInvariant
<1>7. \A o \in Sessions \ {s} :
        held'[s] \cap held[o] = {} /\ held'[o] = held[o] /\ wrote'[o] = wrote[o]
  BY DEF SnapshotInv, LockInvariant
<1>8. \A k \in Metrics :
           /\ snap[k] <= snap'[k] /\ snap'[k] <= Version(k)
           /\ cache'[k] <= Version(k)
           /\ snap'[k] = snap[k]
           /\ k \notin held[s] => cache'[k] <= cache[k] \/ cache'[k] <= snap[k]
  BY <1>1, <1>5
<1> QED
  BY <1>4, <1>7, <1>8, SessionStepKeepsLockInvariant

-----------------------------------------------------------------------------
(* Type correctness.                                                       *)

LEMMA InitSnapshotInv == Init => SnapshotInv
<1> SUFFICES ASSUME Init PROVE SnapshotInv
  OBVIOUS
<1>1. TypeOK
  <2>1. NoRows \in [Metrics -> 0..MaxVersion]
    BY MetricsAssumption DEF NoRows
  <2>2. data \in 1..MaxVersion /\ 0 \in 0..MaxVersion
    BY MetricsAssumption DEF Init
  <2>3. /\ step \in [Sessions -> Steps]
        /\ todo \in [Sessions -> SUBSET Metrics]
        /\ \A s \in Sessions : todo[s] = {} <=> step[s] \in {"idle", "commit"}
    BY DEF Init, Steps
  <2> QED
    BY <2>1, <2>2, <2>3 DEF Init, TypeOK
<1>2. LockInvariant
  BY <1>1, MetricsAssumption
  DEF Init, NoRows, LockInvariant, SessionInvariant, UnderLock, Counted, At
<1> QED
  BY <1>1, <1>2 DEF SnapshotInv

LEMMA EnvironmentKeepsTypeOK ==
  ASSUME TypeOK, EventsArrive \/ Midnight \/ \E k \in Metrics : Expire(k)
  PROVE  TypeOK'
<1>1. CASE EventsArrive
  BY <1>1, MetricsAssumption DEF TypeOK, EventsArrive
<1>2. CASE Midnight
  BY <1>2 DEF TypeOK, Midnight
<1>3. CASE \E k \in Metrics : Expire(k)
  BY <1>3, MetricsAssumption DEF TypeOK, Expire
<1> QED
  BY <1>1, <1>2, <1>3

LEMMA BeginKeepsTypeOK ==
  ASSUME TypeOK, NEW s \in Sessions, NEW metrics \in SUBSET Metrics, metrics # {},
         NEW first \in {"get", "lock"}, Begin(s, metrics, first),
         summing' \in SUBSET Readers
  PROVE  TypeOK'
BY DEF TypeOK, Begin, Steps

LEMMA AdvanceTypes ==
  ASSUME TypeOK, NEW s \in Sessions, NEW k, k \in todo[s], Advance(s, k)
  PROVE  /\ seen' \in [Sessions -> 0..MaxVersion]
         /\ step' \in [Sessions -> Steps]
         /\ todo' \in [Sessions -> SUBSET Metrics]
         /\ \A o \in Sessions : todo'[o] = {} <=> step'[o] \in {"idle", "commit"}
<1>1. seen' \in [Sessions -> 0..MaxVersion]
  BY MetricsAssumption DEF Advance, TypeOK
<1> QED
  BY <1>1 DEF Advance, Goto, TypeOK, Steps

LEMMA ProceedKeepsTypeOK ==
  ASSUME TypeOK, NEW s \in Sessions, Proceed(s)
  PROVE  TypeOK'
<1>1. CASE Commit(s)
  <2>1. Stored(s) \in [Metrics -> 0..MaxVersion]
    BY DEF Stored, TypeOK
  <2> QED
    BY <1>1, <2>1, MetricsAssumption DEF Commit, EndSession, Goto, NoRows, TypeOK, Steps
<1>2. ASSUME NEW k \in Metrics, CacheHit(s, k) \/ CacheMiss(s, k) \/ Fill(s, k)
      PROVE  TypeOK'
  <2>1. CASE CacheHit(s, k)
    BY <2>1, AdvanceTypes DEF CacheHit, At, Current, TypeOK
  <2>2. CASE CacheMiss(s, k)
    BY <2>2 DEF CacheMiss, At, Current, Goto, TypeOK, Steps
  <2>3. CASE Fill(s, k)
    BY <2>3, AdvanceTypes DEF Fill, At, Current, TypeOK
  <2> QED
    BY <1>2, <2>1, <2>2, <2>3
<1>3. ASSUME NEW k \in Metrics, RowFound(s, k) \/ RowMissing(s, k)
      PROVE  TypeOK'
  <2>1. CASE RowFound(s, k) /\ k \in WrittenBack
    BY <2>1 DEF RowFound, At, Current, Goto, TypeOK, Steps
  <2>2. CASE RowFound(s, k) /\ k \notin WrittenBack
    BY <2>2, AdvanceTypes DEF RowFound, At, Current, TypeOK
  <2>3. CASE RowMissing(s, k)
    BY <2>3 DEF RowMissing, At, Current, Goto, TypeOK, Steps
  <2> QED
    BY <1>3, <2>1, <2>2, <2>3
<1>4. ASSUME NEW k \in Metrics,
             Lock(s, k) \/ CountEvents(s, k) \/ Upsert(s, k) \/ CacheSet(s, k)
      PROVE  TypeOK'
  <2>1. CASE Lock(s, k)
    BY <2>1 DEF Lock, At, Current, Goto, TypeOK, Steps
  <2>2. CASE CountEvents(s, k)
    BY <2>2, VersionIsPositive DEF CountEvents, At, Current, Goto, TypeOK, Steps
  <2>3. CASE Upsert(s, k)
    BY <2>3 DEF Upsert, At, Current, Goto, TypeOK, Steps
  <2>4. CASE CacheSet(s, k)
    BY <2>4, AdvanceTypes DEF CacheSet, At, Current, TypeOK
  <2> QED
    BY <1>4, <2>1, <2>2, <2>3, <2>4
<1> QED
  BY <1>1, <1>2, <1>3, <1>4 DEF Proceed

LEMMA FaultKeepsTypeOK ==
  ASSUME TypeOK, NEW s \in Sessions, Fault(s)
  PROVE  TypeOK'
<1>1. ASSUME EndSession(s), UNCHANGED <<data, over, snap>>,
             cache' \in [Metrics -> 0..MaxVersion]
      PROVE  TypeOK'
  BY <1>1, MetricsAssumption DEF EndSession, Goto, NoRows, TypeOK, Steps
<1>2. ASSUME NEW k \in Metrics, RedisError(s, k)
      PROVE  cache' \in [Metrics -> 0..MaxVersion]
  BY <1>2 DEF RedisError, TypeOK
<1>3. CASE RollBack(s)
  BY <1>1, <1>3 DEF RollBack, TypeOK
<1>4. CASE SkipRetention(s)
  <2>1. "retention" \in Metrics /\ "retention" \in todo[s]
    BY <1>4 DEF SkipRetention, RedisError, At, Current, TypeOK
  <2>2. cache' \in [Metrics -> 0..MaxVersion]
    BY <1>2, <1>4, <2>1 DEF SkipRetention
  <2> QED
    BY <1>4, <2>1, <2>2, AdvanceTypes DEF SkipRetention, TypeOK
<1>5. CASE \E k \in Metrics : RedisFails(s, k)
  BY <1>1, <1>2, <1>5 DEF RedisFails
<1> QED
  BY <1>3, <1>4, <1>5 DEF Fault

-----------------------------------------------------------------------------
(* The steps of the sessions and LockInvariant.                            *)

LEMMA EnvironmentKeepsLockInvariant ==
  ASSUME SnapshotInv, TypeOK', EventsArrive \/ Midnight \/ \E k \in Metrics : Expire(k)
  PROVE  LockInvariant'
<1>1. /\ UNCHANGED <<snap, held, wrote, todo, seen, step>>
      /\ data' \in Nat /\ data \in Nat /\ data <= data'
      /\ \A k \in Metrics :
           cache[k] \in Nat /\ snap[k] \in Nat /\ cache'[k] \in Nat /\ cache'[k] <= cache[k]
  <2>1. CASE EventsArrive
    BY <2>1, MetricsAssumption DEF EventsArrive, SnapshotInv, TypeOK
  <2>2. CASE Midnight
    BY <2>2, MetricsAssumption DEF Midnight, SnapshotInv, TypeOK
  <2>3. CASE \E k \in Metrics : Expire(k)
    BY <2>3, MetricsAssumption DEF Expire, SnapshotInv, TypeOK
  <2> QED
    BY <2>1, <2>2, <2>3
<1>2. ASSUME NEW s \in Sessions, NEW k \in Metrics
      PROVE  SessionInvariant(s, k)'
  <2>1. \E x : x \notin Sessions
    BY NoSetContainsEverything
  <2> QED
    BY <1>1, <1>2, <2>1, OtherSessionsKeep
<1>3. ASSUME NEW k \in Metrics
      PROVE  snap'[k] <= Version(k)' /\ cache'[k] <= Version(k)'
  <2>1. snap[k] <= Version(k) /\ cache[k] <= Version(k)
    BY DEF SnapshotInv, LockInvariant
  <2>2. Version(k) \in Nat /\ Version(k)' \in Nat /\ Version(k) <= Version(k)'
    BY <1>1, VersionsGrow DEF SnapshotInv
  <2> QED
    BY <1>1, <2>1, <2>2
<1>5. \A s, o \in Sessions : s # o => held'[s] \cap held'[o] = {}
  BY <1>1 DEF SnapshotInv, LockInvariant
<1> QED
  BY <1>2, <1>3, <1>5 DEF LockInvariant

LEMMA BeginKeepsLockInvariant ==
  ASSUME SnapshotInv, TypeOK', NEW s \in Sessions, NEW metrics,
         NEW first \in {"get", "lock"}, Begin(s, metrics, first)
  PROVE  LockInvariant'
<1>1. \A k \in Metrics : cache[k] \in Nat /\ cache'[k] = cache[k]
  BY MetricsAssumption DEF SnapshotInv, TypeOK, Begin
<1>2. \A k \in Metrics : cache'[k] <= cache[k]
  BY <1>1
<1>3. step'[s] \notin {"count", "upsert", "set", "fill"}
  BY DEF Begin, SnapshotInv, TypeOK
<1>4. /\ UNCHANGED <<data, snap, held, wrote, seen>>
      /\ \A o \in Sessions \ {s} : todo'[o] = todo[o] /\ step'[o] = step[o]
  BY DEF Begin, SnapshotInv, TypeOK
<1> QED
  BY <1>2, <1>3, <1>4, QuietStepKeepsLockInvariant

\* The steps of a read that computes nothing, and the end of a computation.
LEMMA AdvanceKeepsLockInvariant ==
  ASSUME SnapshotInv, TypeOK', NEW s \in Sessions, NEW k \in Metrics, Current(s, k),
         Advance(s, k), UNCHANGED <<data, snap, held, wrote>>,
         \/ UNCHANGED cache
         \/ /\ cache' = [cache EXCEPT ![k] = seen[s]]
            /\ step[s] \in {"fill", "set"}
  PROVE  LockInvariant'
<1>1. /\ \A n \in Metrics : cache[n] \in Nat /\ snap[n] \in Nat
      /\ seen[s] \in Nat
  BY MetricsAssumption DEF SnapshotInv, TypeOK
<1>2. SessionInvariant(s, k)
  BY DEF SnapshotInv, LockInvariant
<1>3. ASSUME NEW n \in Metrics
      PROVE  \/ cache'[n] <= cache[n] \/ cache'[n] <= snap[n]
             \/ (n \in held[s] /\ cache'[n] <= Version(n))
  <2>1. CASE cache'[n] = cache[n]
    BY <1>1, <2>1
  <2>2. CASE cache'[n] # cache[n]
    <3>1. n = k /\ cache'[n] = seen[s] /\ step[s] \in {"fill", "set"}
      BY <2>2 DEF SnapshotInv, TypeOK
    <3>2. CASE step[s] = "fill"
      BY <1>2, <3>1, <3>2 DEF SessionInvariant, At
    <3>3. CASE step[s] = "set"
      BY <1>2, <3>1, <3>3 DEF SessionInvariant, UnderLock, Counted, At
    <3> QED
      BY <3>1, <3>2, <3>3
  <2> QED
    BY <2>1, <2>2
<1>4. /\ \A o \in Sessions \ {s} :
           todo'[o] = todo[o] /\ step'[o] = step[o] /\ seen'[o] = seen[o]
      /\ seen'[s] = 0
      /\ step'[s] \in {"commit", "get"}
  BY DEF Advance, Goto, SnapshotInv, TypeOK
<1> QED
  BY <1>3, <1>4, QuietStepKeepsLockInvariant

\* The steps from one command to the next for the same metric.
LEMMA GotoRowOrLockKeepsLockInvariant ==
  ASSUME SnapshotInv, TypeOK', NEW s \in Sessions, NEW next \in {"row", "lock"},
         Goto(s, next), UNCHANGED <<data, snap, cache, held, wrote, todo, seen>>
  PROVE  LockInvariant'
<1>1. \A k \in Metrics : cache[k] \in Nat /\ cache'[k] <= cache[k]
  BY MetricsAssumption DEF SnapshotInv, TypeOK
<1>2. /\ step'[s] = next
      /\ \A o \in Sessions \ {s} :
           todo'[o] = todo[o] /\ step'[o] = step[o] /\ seen'[o] = seen[o]
  BY DEF Goto, SnapshotInv, TypeOK
<1> QED
  BY <1>1, <1>2, QuietStepKeepsLockInvariant

\* A step that stays at metric k, knows what it has in hand for k and leaves
\* rows and cache alone.
LEMMA StayKeepsLockInvariant ==
  ASSUME SnapshotInv, TypeOK', NEW s \in Sessions, NEW k \in Metrics, Current(s, k),
         UNCHANGED <<data, snap, cache, todo>>,
         \A o \in Sessions \ {s} :
           /\ step'[o] = step[o] /\ seen'[o] = seen[o]
           /\ held'[o] = held[o] /\ wrote'[o] = wrote[o]
           /\ held'[s] \cap held[o] = {},
         \A n \in Metrics \ {k} :
           wrote'[s][n] = wrote[s][n] /\ (n \in held[s] => n \in held'[s]),
         SessionInvariant(s, k)'
  PROVE  LockInvariant'
<1>1. \A n \in Metrics : snap[n] \in Nat /\ cache[n] \in Nat
  BY MetricsAssumption DEF SnapshotInv, TypeOK
<1>2. ASSUME NEW n \in Metrics
      PROVE  SessionInvariant(s, n)'
  <2>1. CASE n = k
    BY <2>1
  <2>2. CASE n # k
    <3>1. ~Current(s, n)
      BY <2>2, CurrentIsUnique DEF SnapshotInv
    <3>2. ~UnderLock(s, n)' /\ ~Counted(s, n)' /\ ~At(s, n, "fill")'
      BY <3>1 DEF UnderLock, Counted, At, Current
    <3>3. SessionInvariant(s, n)
      BY DEF SnapshotInv, LockInvariant
    <3> QED
      BY <2>2, <3>2, <3>3, VersionsKeep DEF SessionInvariant
  <2> QED
    BY <2>1, <2>2
<1>3. \A n \in Metrics : snap[n] <= Version(n) /\ cache[n] <= Version(n)
  BY DEF SnapshotInv, LockInvariant
<1>4. \A n \in Metrics :
           /\ snap[n] <= snap'[n] /\ snap'[n] <= Version(n)
           /\ cache'[n] <= Version(n)
           /\ n \notin held[s] => snap'[n] = snap[n]
           /\ n \notin held[s] => cache'[n] <= cache[n] \/ cache'[n] <= snap[n]
  BY <1>1, <1>3
<1> QED
  BY <1>2, <1>4, SessionStepKeepsLockInvariant

LEMMA RowFoundKeepsLockInvariant ==
  ASSUME SnapshotInv, TypeOK', NEW s \in Sessions, NEW k \in Metrics, RowFound(s, k)
  PROVE  LockInvariant'
<1>1. Current(s, k) /\ step[s] = "row" /\ UNCHANGED <<data, snap, cache, held, wrote>>
  BY DEF RowFound, At
<1>2. CASE k \in WrittenBack
  <2>1. /\ seen' = [seen EXCEPT ![s] = snap[k]] /\ step' = [step EXCEPT ![s] = "fill"]
        /\ todo' = todo
    BY <1>2 DEF RowFound, Goto
  <2>2. seen'[s] = snap[k] /\ step'[s] = "fill"
    BY <2>1 DEF SnapshotInv, TypeOK
  <2>3. snap[k] \in Nat
    BY MetricsAssumption DEF SnapshotInv, TypeOK
  <2>4. SessionInvariant(s, k)
    BY DEF SnapshotInv, LockInvariant
  <2>5. SessionInvariant(s, k)'
    BY <1>1, <2>2, <2>3, <2>4, VersionsKeep DEF SessionInvariant, UnderLock, Counted, At
  <2>6. \A o \in Sessions \ {s} :
           /\ step'[o] = step[o] /\ seen'[o] = seen[o]
           /\ held'[o] = held[o] /\ wrote'[o] = wrote[o]
           /\ held'[s] \cap held[o] = {}
    BY <1>1, <2>1 DEF SnapshotInv, LockInvariant, TypeOK
  <2> QED
    BY <1>1, <2>1, <2>5, <2>6, StayKeepsLockInvariant
<1>3. CASE k \notin WrittenBack
  <2>1. Advance(s, k)
    BY <1>3 DEF RowFound
  <2> QED
    BY <1>1, <2>1, AdvanceKeepsLockInvariant
<1> QED
  BY <1>2, <1>3

LEMMA LockKeepsLockInvariant ==
  ASSUME SnapshotInv, TypeOK', NEW s \in Sessions, NEW k \in Metrics, Lock(s, k)
  PROVE  LockInvariant'
<1>1. /\ Current(s, k) /\ UNCHANGED <<data, snap, cache, wrote, todo, seen>>
      /\ held' = [held EXCEPT ![s] = @ \cup {k}]
      /\ step' = [step EXCEPT ![s] = "count"]
  BY DEF Lock, At, Goto
<1>2. held'[s] = held[s] \cup {k} /\ step'[s] = "count"
  BY <1>1 DEF SnapshotInv, TypeOK
<1>3. \A o \in Sessions \ {s} :
         /\ step'[o] = step[o] /\ seen'[o] = seen[o]
         /\ held'[o] = held[o] /\ wrote'[o] = wrote[o]
         /\ held'[s] \cap held[o] = {}
  <2> SUFFICES ASSUME NEW o \in Sessions \ {s}
               PROVE  /\ step'[o] = step[o] /\ held'[o] = held[o]
                      /\ held'[s] \cap held[o] = {}
    BY <1>1
  <2>1. k \notin held[o]
    BY DEF Lock
  <2>2. held[s] \cap held[o] = {}
    BY DEF SnapshotInv, LockInvariant
  <2>3. step'[o] = step[o] /\ held'[o] = held[o]
    BY <1>1 DEF SnapshotInv, TypeOK
  <2> QED
    BY <1>2, <2>1, <2>2, <2>3
<1>4. SessionInvariant(s, k)
  BY DEF SnapshotInv, LockInvariant
<1>5. SessionInvariant(s, k)'
  BY <1>1, <1>2, <1>4, VersionsKeep DEF SessionInvariant, UnderLock, Counted, At
<1>6. \A n \in Metrics \ {k} :
         wrote'[s][n] = wrote[s][n] /\ (n \in held[s] => n \in held'[s])
  BY <1>1, <1>2
<1> QED
  BY <1>1, <1>3, <1>5, <1>6, StayKeepsLockInvariant

LEMMA CountEventsKeepsLockInvariant ==
  ASSUME SnapshotInv, TypeOK', NEW s \in Sessions, NEW k \in Metrics, CountEvents(s, k)
  PROVE  LockInvariant'
<1>1. /\ Current(s, k) /\ step[s] = "count"
      /\ UNCHANGED <<data, snap, cache, held, wrote, todo>>
      /\ seen' = [seen EXCEPT ![s] = Version(k)]
      /\ step' = [step EXCEPT ![s] = "upsert"]
  BY DEF CountEvents, At, Goto
<1>2. seen'[s] = Version(k) /\ step'[s] = "upsert"
  BY <1>1 DEF SnapshotInv, TypeOK
<1>3. \A o \in Sessions \ {s} :
         /\ step'[o] = step[o] /\ seen'[o] = seen[o]
         /\ held'[o] = held[o] /\ wrote'[o] = wrote[o]
         /\ held'[s] \cap held[o] = {}
  BY <1>1 DEF SnapshotInv, LockInvariant, TypeOK
<1>4. SessionInvariant(s, k) /\ snap[k] <= Version(k) /\ cache[k] <= Version(k)
  BY DEF SnapshotInv, LockInvariant
<1>5. /\ Version(k) \in Nat /\ Version(k) # 0 /\ Version(k)' = Version(k)
      /\ snap[k] \in Nat /\ cache[k] \in Nat
  BY <1>1, MetricsAssumption, VersionIsPositive, VersionsKeep DEF SnapshotInv, TypeOK
<1>6. k \in held[s]
  BY <1>1, <1>4 DEF SessionInvariant, UnderLock, At
<1>7. SessionInvariant(s, k)'
  BY <1>1, <1>2, <1>4, <1>5, <1>6 DEF SessionInvariant, UnderLock, Counted, At
<1> QED
  BY <1>1, <1>3, <1>7, StayKeepsLockInvariant

LEMMA UpsertKeepsLockInvariant ==
  ASSUME SnapshotInv, TypeOK', NEW s \in Sessions, NEW k \in Metrics, Upsert(s, k)
  PROVE  LockInvariant'
<1>1. /\ Current(s, k) /\ step[s] = "upsert"
      /\ UNCHANGED <<data, snap, cache, held, todo, seen>>
      /\ wrote' = [wrote EXCEPT ![s][k] = seen[s]]
      /\ step' = [step EXCEPT ![s] = "set"]
  BY DEF Upsert, At, Goto
<1>2. /\ wrote'[s][k] = seen[s] /\ step'[s] = "set"
      /\ \A n \in Metrics \ {k} : wrote'[s][n] = wrote[s][n]
  BY <1>1 DEF SnapshotInv, TypeOK
<1>3. \A o \in Sessions \ {s} :
         /\ step'[o] = step[o] /\ seen'[o] = seen[o]
         /\ held'[o] = held[o] /\ wrote'[o] = wrote[o]
         /\ held'[s] \cap held[o] = {}
  BY <1>1 DEF SnapshotInv, LockInvariant, TypeOK
<1>4. SessionInvariant(s, k)
  BY DEF SnapshotInv, LockInvariant
<1>5. k \in held[s] /\ seen[s] # 0 /\ seen[s] \in snap[k]..Version(k)
  BY <1>1, <1>4 DEF SessionInvariant, UnderLock, Counted, At
<1>6. SessionInvariant(s, k)'
  BY <1>1, <1>2, <1>4, <1>5, VersionsKeep DEF SessionInvariant, UnderLock, Counted, At
<1> QED
  BY <1>1, <1>2, <1>3, <1>6, StayKeepsLockInvariant

\* The end of a session: what is committed by then is no older than the rows.
LEMMA EndSessionKeepsLockInvariant ==
  ASSUME SnapshotInv, TypeOK', NEW s \in Sessions, EndSession(s), UNCHANGED data,
         snap' \in {snap, Stored(s)},
         \A k \in Metrics :
           \/ cache'[k] = cache[k]
           \/ cache'[k] = seen[s] /\ (Counted(s, k) \/ At(s, k, "fill"))
  PROVE  LockInvariant'
<1>1. /\ held' = [held EXCEPT ![s] = {}] /\ wrote' = [wrote EXCEPT ![s] = NoRows]
      /\ todo' = [todo EXCEPT ![s] = {}] /\ seen' = [seen EXCEPT ![s] = 0]
      /\ step' = [step EXCEPT ![s] = "idle"]
  BY DEF EndSession, Goto
<1>2. /\ held'[s] = {} /\ wrote'[s] = NoRows /\ seen'[s] = 0 /\ step'[s] = "idle"
  BY <1>1 DEF SnapshotInv, TypeOK
<1>3. \A o \in Sessions \ {s} :
         /\ todo'[o] = todo[o] /\ step'[o] = step[o] /\ seen'[o] = seen[o]
         /\ held'[o] = held[o] /\ wrote'[o] = wrote[o]
         /\ held'[s] \cap held[o] = {}
  BY <1>1, <1>2 DEF SnapshotInv, TypeOK
<1>4. \A k \in Metrics : SessionInvariant(s, k)'
  BY <1>2 DEF SessionInvariant, UnderLock, Counted, At, NoRows
<1>5. ASSUME NEW k \in Metrics
      PROVE  /\ snap[k] <= snap'[k] /\ snap'[k] <= Version(k)
             /\ cache'[k] <= Version(k)
             /\ k \notin held[s] => snap'[k] = snap[k]
             /\ k \notin held[s] => cache'[k] <= cache[k] \/ cache'[k] <= snap[k]
  <2>1. /\ snap[k] \in Nat /\ cache[k] \in Nat /\ wrote[s][k] \in Nat
        /\ Version(k) \in Nat /\ seen[s] \in Nat
    BY MetricsAssumption, VersionIsPositive DEF SnapshotInv, TypeOK
  <2>2. SessionInvariant(s, k) /\ snap[k] <= Version(k) /\ cache[k] <= Version(k)
    BY DEF SnapshotInv, LockInvariant
  <2>3. snap'[k] = snap[k] \/ (wrote[s][k] # 0 /\ snap'[k] = wrote[s][k])
    BY DEF Stored
  <2>4. wrote[s][k] # 0 =>
          k \in held[s] /\ wrote[s][k] >= snap[k] /\ wrote[s][k] <= Version(k)
    BY <2>1, <2>2 DEF SessionInvariant
  <2>5. /\ snap[k] <= snap'[k] /\ snap'[k] <= Version(k)
        /\ k \notin held[s] => snap'[k] = snap[k]
    BY <2>1, <2>2, <2>3, <2>4
  <2>6. CASE cache'[k] = cache[k]
    BY <2>1, <2>2, <2>5, <2>6
  <2>7. CASE Counted(s, k) /\ cache'[k] = seen[s]
    <3>1. k \in held[s] /\ seen[s] <= Version(k)
      BY <2>1, <2>2, <2>7 DEF SessionInvariant, UnderLock, Counted
    <3> QED
      BY <2>1, <2>2, <2>5, <2>7, <3>1
  <2>8. CASE At(s, k, "fill") /\ cache'[k] = seen[s]
    <3>1. seen[s] <= snap[k]
      BY <2>2, <2>8 DEF SessionInvariant
    <3> QED
      BY <2>1, <2>2, <2>5, <2>8, <3>1
  <2> QED
    BY <2>6, <2>7, <2>8
<1> QED
  BY <1>3, <1>4, <1>5, SessionStepKeepsLockInvariant

LEMMA ProceedKeepsLockInvariant ==
  ASSUME SnapshotInv, TypeOK', NEW s \in Sessions, Proceed(s)
  PROVE  LockInvariant'
<1>1. CASE Commit(s)
  BY <1>1, EndSessionKeepsLockInvariant DEF Commit
<1>2. ASSUME NEW k \in Metrics, CacheHit(s, k) \/ CacheMiss(s, k) \/ Fill(s, k)
      PROVE  LockInvariant'
  <2>1. CASE CacheHit(s, k)
    BY <2>1, AdvanceKeepsLockInvariant DEF CacheHit, At
  <2>2. CASE CacheMiss(s, k)
    BY <2>2, GotoRowOrLockKeepsLockInvariant DEF CacheMiss
  <2>3. CASE Fill(s, k)
    BY <2>3, AdvanceKeepsLockInvariant DEF Fill, At
  <2> QED
    BY <1>2, <2>1, <2>2, <2>3
<1>3. ASSUME NEW k \in Metrics, RowFound(s, k) \/ RowMissing(s, k)
      PROVE  LockInvariant'
  <2>1. CASE RowFound(s, k)
    BY <2>1, RowFoundKeepsLockInvariant
  <2>2. CASE RowMissing(s, k)
    BY <2>2, GotoRowOrLockKeepsLockInvariant DEF RowMissing
  <2> QED
    BY <1>3, <2>1, <2>2
<1>4. ASSUME NEW k \in Metrics,
             Lock(s, k) \/ CountEvents(s, k) \/ Upsert(s, k) \/ CacheSet(s, k)
      PROVE  LockInvariant'
  <2>1. CASE CacheSet(s, k)
    BY <2>1, AdvanceKeepsLockInvariant DEF CacheSet, At
  <2> QED
    BY <1>4, <2>1, LockKeepsLockInvariant, CountEventsKeepsLockInvariant,
       UpsertKeepsLockInvariant
<1> QED
  BY <1>1, <1>2, <1>3, <1>4 DEF Proceed

\* What an error of Redis leaves in the cache.
LEMMA RedisErrorCache ==
  ASSUME TypeOK, NEW s \in Sessions, NEW k \in Metrics, RedisError(s, k)
  PROVE  /\ Current(s, k)
         /\ \/ UNCHANGED cache
            \/ /\ cache' = [cache EXCEPT ![k] = seen[s]]
               /\ At(s, k, "fill") \/ At(s, k, "set")
BY DEF RedisError, At

LEMMA FaultKeepsLockInvariant ==
  ASSUME SnapshotInv, TypeOK', NEW s \in Sessions, Fault(s)
  PROVE  LockInvariant'
<1>1. CASE RollBack(s)
  BY <1>1, EndSessionKeepsLockInvariant DEF RollBack
<1>2. CASE SkipRetention(s)
  <2>1. "retention" \in Metrics
    BY <1>2 DEF SkipRetention, RedisError, At, Current, SnapshotInv, TypeOK
  <2> QED
    BY <1>2, <2>1, RedisErrorCache, AdvanceKeepsLockInvariant
    DEF SkipRetention, At, SnapshotInv
<1>3. ASSUME NEW k \in Metrics, RedisFails(s, k)
      PROVE  LockInvariant'
  <2>1. ASSUME NEW n \in Metrics
        PROVE  \/ cache'[n] = cache[n]
               \/ cache'[n] = seen[s] /\ (Counted(s, n) \/ At(s, n, "fill"))
    BY <1>3, RedisErrorCache DEF RedisFails, Counted, SnapshotInv, TypeOK
  <2> QED
    BY <1>3, <2>1, EndSessionKeepsLockInvariant DEF RedisFails
<1> QED
  BY <1>1, <1>2, <1>3 DEF Fault

-----------------------------------------------------------------------------
LEMMA NextKeepsSnapshotInv == SnapshotInv /\ [Next]_vars => SnapshotInv'
<1> SUFFICES ASSUME SnapshotInv, [Next]_vars
             PROVE  SnapshotInv'
  OBVIOUS
<1> USE DEF SnapshotInv
<1>1. CASE EventsArrive \/ Midnight \/ \E k \in Metrics : Expire(k)
  BY <1>1, EnvironmentKeepsTypeOK, EnvironmentKeepsLockInvariant
<1>2. ASSUME NEW r \in Readers, NEW k \in Metrics, StartRead(r, k) \/ StartSummary(r)
      PROVE  SnapshotInv'
  <2>1. r \in Sessions
    BY DEF Sessions
  <2>2. /\ Begin(r, {k}, "get") \/ Begin(r, Metrics, "get")
        /\ summing' \in SUBSET Readers
    BY <1>2 DEF StartRead, StartSummary, TypeOK
  <2>3. TypeOK'
    BY <2>1, <2>2, BeginKeepsTypeOK
  <2> QED
    BY <2>1, <2>2, <2>3, BeginKeepsLockInvariant
<1>3. ASSUME NEW w \in Workers, NEW k \in Metrics, StartJob(w, k)
      PROVE  SnapshotInv'
  <2>1. w \in Sessions
    BY DEF Sessions
  <2>2. Begin(w, {k}, "lock") /\ summing' \in SUBSET Readers
    BY <1>3 DEF StartJob, TypeOK
  <2>3. TypeOK'
    BY <2>1, <2>2, BeginKeepsTypeOK
  <2> QED
    BY <2>1, <2>2, <2>3, BeginKeepsLockInvariant
<1>4. ASSUME NEW s \in Sessions, Proceed(s) \/ Fault(s)
      PROVE  SnapshotInv'
  BY <1>4, ProceedKeepsTypeOK, FaultKeepsTypeOK, ProceedKeepsLockInvariant,
     FaultKeepsLockInvariant
<1>5. CASE UNCHANGED vars
  BY <1>5 DEF vars, TypeOK, LockInvariant, SessionInvariant, UnderLock, Counted, At, Current, Version
<1>6. \E k : k \in Metrics
  BY MetricsAssumption
<1> QED
  BY <1>1, <1>2, <1>3, <1>4, <1>5, <1>6 DEF Next, RunJob

(* Every variable keeps its type, with any number of requests and jobs: a session
   has metrics to get exactly as long as it is at work on them
   (metrics_service.py:465-494). *)
THEOREM MetricsTypeCorrect == Spec => []TypeOK
<1>1. SnapshotInv => TypeOK
  BY DEF SnapshotInv
<1> QED
  BY <1>1, InitSnapshotInv, NextKeepsSnapshotInv, PTL DEF Spec

(* Only the holder of a metric's lock counts it and has an uncommitted row of it,
   and what it has is neither older than row and cache nor newer than the events
   (metrics_service.py:46-84), with any number of requests and jobs. *)
THEOREM LocksProtectCounts == Spec => [](TypeOK /\ LockInvariant)
<1>1. Spec => []SnapshotInv
  BY InitSnapshotInv, NextKeepsSnapshotInv, PTL DEF Spec
<1> QED
  BY <1>1 DEF SnapshotInv

(* A snapshot row is never replaced by one counted from older events
   (metrics_service.py:63-78), with any number of requests and jobs. *)
THEOREM SnapshotNeverGoesBackHolds == Spec => SnapshotNeverGoesBack
<1>1. ASSUME SnapshotInv, [Next]_vars
      PROVE  \A k \in Metrics : snap'[k] >= snap[k]
  <2> SUFFICES ASSUME NEW k \in Metrics PROVE snap'[k] >= snap[k]
    OBVIOUS
  <2>1. snap[k] \in Nat
    BY <1>1, MetricsAssumption DEF SnapshotInv, TypeOK
  <2>2. CASE snap' = snap
    BY <2>1, <2>2
  <2>3. ASSUME NEW s \in Sessions, Commit(s)
        PROVE  snap'[k] >= snap[k]
    <3>1. snap'[k] = snap[k] \/ (wrote[s][k] # 0 /\ snap'[k] = wrote[s][k])
      BY <2>3 DEF Commit, Stored
    <3>2. SessionInvariant(s, k)
      BY <1>1, <2>3 DEF SnapshotInv, LockInvariant
    <3> QED
      BY <2>1, <3>1, <3>2 DEF SessionInvariant
  <2>4. snap' = snap \/ \E s \in Sessions : Commit(s)
    BY <1>1
    DEF Next, EventsArrive, Midnight, Expire, RunJob, StartJob, StartRead, StartSummary,
        Begin, Proceed, Fault, CacheHit, CacheMiss, Fill, RowFound, RowMissing, Lock,
        CountEvents, Upsert, CacheSet, RollBack, SkipRetention, RedisFails, vars
  <2> QED
    BY <2>2, <2>3, <2>4
<1>2. Spec => []SnapshotInv
  BY InitSnapshotInv, NextKeepsSnapshotInv, PTL DEF Spec
<1> QED
  BY <1>1, <1>2, PTL DEF Spec, SnapshotNeverGoesBack

(* A cached value is replaced by an older one only by a read of the DAU that
   writes back the row it selected before (metrics_service.py:121): never by a
   computation, with any number of requests and jobs. *)
THEOREM OnlyReadsPutBackHolds == Spec => OnlyReadsPutBack
<1>1. ASSUME SnapshotInv, [Next]_vars, NEW k \in Metrics, cache'[k] < cache[k]
      PROVE  cache'[k] = 0 \/ \E s \in Sessions : At(s, k, "fill") /\ step'[s] # "fill"
  <2>1. cache[k] \in Nat /\ \A s \in Sessions : seen[s] \in Nat
    BY <1>1, MetricsAssumption DEF SnapshotInv, TypeOK
  <2>2. CASE \E n \in Metrics : Expire(n)
    BY <1>1, <2>1, <2>2 DEF Expire, SnapshotInv, TypeOK
  <2>3. ASSUME NEW s \in Sessions, NEW n \in Metrics,
               cache' = [cache EXCEPT ![n] = seen[s]], At(s, n, "fill") \/ At(s, n, "set"),
               step'[s] \in {"get", "commit", "idle"}
        PROVE  \E o \in Sessions : At(o, k, "fill") /\ step'[o] # "fill"
    <3>1. n = k /\ cache'[k] = seen[s]
      BY <1>1, <2>1, <2>3 DEF SnapshotInv, TypeOK
    <3>2. SessionInvariant(s, k)
      BY <1>1, <2>3 DEF SnapshotInv, LockInvariant
    <3>3. ~At(s, k, "set")
      BY <1>1, <2>1, <3>1, <3>2 DEF SessionInvariant, Counted
    <3> QED
      BY <2>3, <3>1, <3>3
  <2>4. ASSUME NEW s \in Sessions, Proceed(s) \/ Fault(s)
        PROVE  \/ UNCHANGED cache
               \/ \E n \in Metrics :
                    /\ cache' = [cache EXCEPT ![n] = seen[s]]
                    /\ At(s, n, "fill") \/ At(s, n, "set")
                    /\ step'[s] \in {"get", "commit", "idle"}
    <3>1. ASSUME NEW n \in Metrics, Fill(s, n) \/ CacheSet(s, n)
          PROVE  /\ cache' = [cache EXCEPT ![n] = seen[s]]
                 /\ At(s, n, "fill") \/ At(s, n, "set")
                 /\ step'[s] \in {"get", "commit", "idle"}
      BY <1>1, <3>1 DEF Fill, CacheSet, Advance, Goto, SnapshotInv, TypeOK
    <3>2. ASSUME NEW n \in Metrics, RedisFails(s, n)
          PROVE  \/ UNCHANGED cache
                 \/ /\ cache' = [cache EXCEPT ![n] = seen[s]]
                    /\ At(s, n, "fill") \/ At(s, n, "set")
                    /\ step'[s] \in {"get", "commit", "idle"}
      BY <1>1, <3>2, RedisErrorCache
      DEF RedisFails, EndSession, Goto, SnapshotInv, TypeOK
    <3>3. ASSUME SkipRetention(s)
          PROVE  \/ UNCHANGED cache
                 \/ \E n \in Metrics :
                    /\ cache' = [cache EXCEPT ![n] = seen[s]]
                    /\ At(s, n, "fill") \/ At(s, n, "set")
                    /\ step'[s] \in {"get", "commit", "idle"}
      <4>1. "retention" \in Metrics
        BY <1>1, <3>3 DEF SkipRetention, RedisError, At, Current, SnapshotInv, TypeOK
      <4>2. step'[s] \in {"get", "commit", "idle"}
        BY <1>1, <3>3 DEF SkipRetention, Advance, Goto, SnapshotInv, TypeOK
      <4> QED
        BY <1>1, <3>3, <4>1, <4>2, RedisErrorCache DEF SkipRetention, SnapshotInv
    <3> QED
      BY <2>4, <3>1, <3>2, <3>3
      DEF Proceed, Fault, Commit, RollBack, CacheHit, CacheMiss, RowFound, RowMissing,
          Lock, CountEvents, Upsert
  <2>5. \/ UNCHANGED cache
        \/ \E n \in Metrics : Expire(n)
        \/ \E s \in Sessions : Proceed(s) \/ Fault(s)
    BY <1>1
    DEF Next, EventsArrive, Midnight, RunJob, StartJob, StartRead, StartSummary, Begin, vars
  <2>6. ~UNCHANGED cache
    BY <1>1, <2>1
  <2> QED
    BY <2>2, <2>3, <2>4, <2>5, <2>6
<1>2. Spec => []SnapshotInv
  BY InitSnapshotInv, NextKeepsSnapshotInv, PTL DEF Spec
<1>3. ASSUME SnapshotInv, [Next]_vars
      PROVE  \A k \in Metrics :
               cache'[k] < cache[k] =>
                 cache'[k] = 0 \/ \E s \in Sessions : At(s, k, "fill") /\ step'[s] # "fill"
  BY <1>1, <1>3
<1> QED
  BY <1>2, <1>3, PTL DEF Spec, OnlyReadsPutBack

-----------------------------------------------------------------------------
(* A session collects the locks in the order of the metrics, and has none when it
   begins. *)
LocksInOrder(s) ==
  /\ step[s] = "idle" => held[s] = {}
  /\ \A h \in held[s], k \in todo[s] :
       Order[h] <= Order[k] /\ (h = k => UnderLock(s, k))

LockOrder == \A s \in Sessions : LocksInOrder(s)

LEMMA OrdersDiffer ==
  ASSUME NEW a \in Metrics, NEW b \in Metrics
  PROVE  /\ Order[a] \in 1..3 /\ Order[b] \in 1..3
         /\ Order[a] = Order[b] => a = b
BY MetricsAssumption DEF Order

(* s goes on with its next metric: its locks are of metrics before it. *)
LEMMA AdvanceKeepsLockOrder ==
  ASSUME TypeOK, NEW s \in Sessions, NEW k, Current(s, k), Advance(s, k), LocksInOrder(s),
         held'[s] = held[s]
  PROVE  LocksInOrder(s)'
<1>1. todo'[s] = todo[s] \ {k} /\ step'[s] # "idle"
  BY DEF TypeOK, Advance, Goto
<1>2. ASSUME NEW h \in held[s], NEW n \in todo[s], n # k
      PROVE  Order[h] <= Order[n] /\ h # n
  BY <1>2, CurrentIsUnique DEF LocksInOrder, UnderLock, At
<1> QED
  BY <1>1, <1>2 DEF LocksInOrder

LEMMA LockKeepsLockOrder ==
  ASSUME TypeOK, NEW s \in Sessions, NEW k \in Metrics, Lock(s, k), LocksInOrder(s)
  PROVE  LocksInOrder(s)'
<1>1. /\ held'[s] = held[s] \cup {k} /\ todo'[s] = todo[s] /\ step'[s] = "count"
      /\ step[s] = "lock" /\ Current(s, k) /\ Current(s, k)'
      /\ held[s] \subseteq Metrics /\ todo[s] \subseteq Metrics
  BY DEF TypeOK, Lock, At, Goto, Current
<1>2. ASSUME NEW h \in held[s], NEW n \in todo[s]
      PROVE  Order[h] <= Order[n] /\ h # n
  BY <1>1, <1>2 DEF LocksInOrder, UnderLock, At
<1>3. ASSUME NEW n \in todo[s]
      PROVE  Order[k] <= Order[n] /\ (n = k => UnderLock(s, n)')
  BY <1>1 DEF Current, UnderLock, At
<1> QED
  BY <1>1, <1>2, <1>3 DEF LocksInOrder

LEMMA NextKeepsLockOrder ==
  ASSUME TypeOK, LockOrder, [Next]_vars
  PROVE  LockOrder'
<1>1. ASSUME NEW s \in Sessions, UNCHANGED <<held[s], todo[s], step[s]>>
      PROVE  LocksInOrder(s)'
  BY <1>1 DEF LockOrder, LocksInOrder, UnderLock, At, Current
<1>2. ASSUME NEW s \in Sessions, EndSession(s)
      PROVE  LocksInOrder(s)'
  BY <1>2 DEF EndSession, Goto, TypeOK, LocksInOrder
<1>3. ASSUME NEW s \in Sessions, NEW metrics, NEW first \in {"get", "lock"},
             Begin(s, metrics, first)
      PROVE  LocksInOrder(s)'
  BY <1>3 DEF Begin, TypeOK, LockOrder, LocksInOrder
<1>4. ASSUME NEW s \in Sessions, NEW k \in Metrics, Current(s, k), UNCHANGED <<held, todo>>,
             \/ step[s] \in {"get", "row"} /\ step'[s] \in {"row", "fill", "lock"}
             \/ step[s] \in {"count", "upsert"} /\ step'[s] \in {"upsert", "set"}
      PROVE  LocksInOrder(s)'
  <2>1. ASSUME NEW n, UnderLock(s, n)
        PROVE  UnderLock(s, n)'
    BY <1>4, <2>1 DEF UnderLock, At, Current
  <2> QED
    BY <1>4, <2>1 DEF LockOrder, LocksInOrder
<1>5. ASSUME NEW s \in Sessions, NEW k \in Metrics,
             \/ CacheHit(s, k) \/ CacheMiss(s, k) \/ Fill(s, k)
             \/ RowFound(s, k) \/ RowMissing(s, k)
             \/ Lock(s, k) \/ CountEvents(s, k) \/ Upsert(s, k) \/ CacheSet(s, k)
      PROVE  LocksInOrder(s)'
  <2>1. CASE Lock(s, k)
    BY <2>1, LockKeepsLockOrder DEF LockOrder
  <2>2. CASE Current(s, k) /\ Advance(s, k) /\ UNCHANGED held
    BY <2>2, AdvanceKeepsLockOrder DEF LockOrder
  <2>3. CASE CacheHit(s, k) \/ Fill(s, k) \/ CacheSet(s, k)
    BY <2>2, <2>3 DEF CacheHit, Fill, CacheSet, At
  <2>4. CASE RowFound(s, k)
    BY <1>4, <2>2, <2>4 DEF RowFound, At, Goto, TypeOK
  <2>5. CASE CacheMiss(s, k) \/ RowMissing(s, k) \/ CountEvents(s, k) \/ Upsert(s, k)
    BY <1>4, <2>5 DEF CacheMiss, RowMissing, CountEvents, Upsert, At, Goto, TypeOK
  <2> QED
    BY <1>5, <2>1, <2>3, <2>4, <2>5
<1>6. ASSUME NEW s \in Sessions, Proceed(s) \/ Fault(s)
      PROVE  LocksInOrder(s)'
  <2>1. CASE SkipRetention(s)
    BY <2>1, AdvanceKeepsLockOrder DEF SkipRetention, RedisError, At, LockOrder
  <2> QED
    BY <1>2, <1>5, <1>6, <2>1 DEF Proceed, Fault, Commit, RollBack, RedisFails
<1>7. ASSUME NEW s \in Sessions, Proceed(s) \/ Fault(s), NEW o \in Sessions \ {s}
      PROVE  UNCHANGED <<held[o], todo[o], step[o]>>
  BY <1>7 DEF Proceed, Fault, Commit, RollBack, SkipRetention, RedisFails, EndSession,
              Advance, Goto, CacheHit, CacheMiss, Fill, RowFound, RowMissing, Lock,
              CountEvents, Upsert, CacheSet, TypeOK
<1>8. ASSUME NEW s \in Sessions, NEW metrics, NEW first, Begin(s, metrics, first),
             NEW o \in Sessions \ {s}
      PROVE  UNCHANGED <<held[o], todo[o], step[o]>>
  BY <1>8 DEF Begin, TypeOK
<1>9. \/ UNCHANGED <<held, todo, step>>
      \/ \E s \in Sessions : Proceed(s) \/ Fault(s)
      \/ \E s \in Sessions, metrics \in SUBSET Metrics, first \in {"get", "lock"} :
           Begin(s, metrics, first)
  BY DEF Next, vars, EventsArrive, Midnight, Expire, RunJob, StartJob, StartSummary,
         StartRead, Sessions
<1> SUFFICES ASSUME NEW o \in Sessions PROVE LocksInOrder(o)'
  BY DEF LockOrder
<1> QED
  BY <1>1, <1>3, <1>6, <1>7, <1>8, <1>9

(* A waiter's next lock comes after those of all it has waited through. *)
LEMMA WaitsInOrder ==
  ASSUME SnapshotInv, LockOrder, NEW s \in Sessions, NEW o \in Sessions, Waits(s, o)
  PROVE  \E k \in Metrics :
           /\ k \in held[o]
           /\ \A h \in held[s] : Order[h] < Order[k]
<1>1. PICK k \in Metrics :
        \/ At(s, k, "lock") /\ k \in held[o]
        \/ At(s, k, "upsert") /\ wrote[o][k] # 0
  BY DEF Waits
<1>2. ~(At(s, k, "upsert") /\ wrote[o][k] # 0)
  BY DEF Waits, SnapshotInv, LockInvariant, SessionInvariant, UnderLock
<1>3. ASSUME NEW h \in held[s]
      PROVE  Order[h] < Order[k]
  <2>1. Order[h] <= Order[k] /\ h # k
    BY <1>1, <1>2 DEF LockOrder, LocksInOrder, UnderLock, At, Current
  <2>2. h \in Metrics
    BY DEF SnapshotInv, TypeOK
  <2> QED
    BY <2>1, <2>2, OrdersDiffer
<1> QED
  BY <1>1, <1>2, <1>3

(* Requests and jobs never wait for each other in a circle, however many there are
   (metrics_service.py:465-476). *)
THEOREM NoDeadlockHolds == Spec => []NoDeadlock
<1>1. Init => LockOrder
  BY DEF Init, LockOrder, LocksInOrder
<1>2. SnapshotInv /\ LockOrder /\ [Next]_vars => LockOrder'
  BY NextKeepsLockOrder DEF SnapshotInv
<1>3. ASSUME SnapshotInv, LockOrder
      PROVE  NoDeadlock
  <2> SUFFICES ASSUME NEW C \in SUBSET Sessions,
                      \A s \in C : \E o \in C : Waits(s, o),
                      NEW a \in C
               PROVE  FALSE
    BY DEF NoDeadlock
  <2>1. ASSUME NEW s \in C
        PROVE  \E o \in C, k \in Metrics :
                 /\ k \in held[o]
                 /\ \A h \in held[s] : Order[h] < Order[k]
    BY <1>3, WaitsInOrder
  <2>2. PICK b \in C, k \in Metrics : k \in held[b]
    BY <2>1
  <2>3. PICK c \in C, l \in Metrics : l \in held[c] /\ Order[k] < Order[l]
    BY <2>1, <2>2
  <2>4. PICK d \in C, m \in Metrics : m \in held[d] /\ Order[l] < Order[m]
    BY <2>1, <2>3
  <2>5. PICK e \in C, n \in Metrics : n \in held[e] /\ Order[m] < Order[n]
    BY <2>1, <2>4
  <2> QED
    BY <2>3, <2>4, <2>5, OrdersDiffer
<1>4. Spec => []SnapshotInv
  BY InitSnapshotInv, NextKeepsSnapshotInv, PTL DEF Spec
<1> QED
  BY <1>1, <1>2, <1>3, <1>4, PTL DEF Spec

-----------------------------------------------------------------------------
(* What a session has in hand of the cohort: what it counts is complete, it writes
   no row back that it found, and once a job has cached its count the cached value
   is that or gone. *)
CohortInHand(s) ==
  /\ ~At(s, "retention", "fill")
  /\ Counted(s, "retention") => seen[s] = MaxVersion
  /\ wrote[s]["retention"] \in {0, MaxVersion}
  /\ s \in Workers /\ wrote[s]["retention"] # 0 /\ ~At(s, "retention", "set")
       => cache["retention"] \in {0, MaxVersion}

CohortInv ==
  /\ "retention" \in Metrics
  /\ TypeOK
  /\ \A s \in Sessions : CohortInHand(s)

(* A step that is about another metric leaves a session away from the cohort. *)
LEMMA AwayFromCohort ==
  ASSUME TypeOK, NEW s \in Sessions, NEW k, Current(s, k), todo'[s] = todo[s],
         k # "retention", NEW here
  PROVE  ~At(s, "retention", here) /\ ~At(s, "retention", here)'
BY CurrentIsUnique DEF At, Current

(* A session ends its work on a metric, or goes on before the count. *)
LEMMA UncountedKeepsCohort ==
  ASSUME CohortInv, NEW s \in Sessions, wrote'[s] = wrote[s],
         step'[s] \in {"get", "row", "lock", "count", "commit"},
         cache'["retention"] \in {cache["retention"], 0, MaxVersion},
         At(s, "retention", "set") =>
           s \notin Workers \/ cache'["retention"] = MaxVersion
  PROVE  CohortInHand(s)'
BY DEF CohortInv, CohortInHand, At, Counted

LEMMA EndKeepsCohort ==
  ASSUME CohortInv, NEW s \in Sessions, EndSession(s)
  PROVE  CohortInHand(s)'
BY DEF CohortInv, TypeOK, CohortInHand, EndSession, NoRows, Goto, At, Counted

(* No session caches an incomplete count of the cohort. *)
LEMMA CohortCache ==
  ASSUME CohortInv, [Next]_vars
  PROVE  cache'["retention"] \in {cache["retention"], 0, MaxVersion}
<1> USE DEF CohortInv
<1>1. ASSUME NEW s \in Sessions, NEW k \in Metrics, cache' = [cache EXCEPT ![k] = seen[s]],
             At(s, k, "fill") \/ At(s, k, "set")
      PROVE  cache'["retention"] \in {cache["retention"], 0, MaxVersion}
  BY <1>1 DEF TypeOK, CohortInHand, Counted
<1>2. ASSUME NEW s \in Sessions, NEW k \in Metrics, RedisError(s, k)
      PROVE  cache'["retention"] \in {cache["retention"], 0, MaxVersion}
  BY <1>1, <1>2, RedisErrorCache
<1>3. ASSUME NEW s \in Sessions, NEW k \in Metrics, Fill(s, k) \/ CacheSet(s, k)
      PROVE  cache'["retention"] \in {cache["retention"], 0, MaxVersion}
  BY <1>1, <1>3 DEF Fill, CacheSet
<1>4. CASE \E k \in Metrics : Expire(k)
  BY <1>4 DEF Expire, TypeOK
<1>5. ASSUME NEW s \in Sessions, Proceed(s) \/ Fault(s)
      PROVE  cache'["retention"] \in {cache["retention"], 0, MaxVersion}
  <2>1. \/ UNCHANGED cache
        \/ \E k \in Metrics : RedisError(s, k) \/ Fill(s, k) \/ CacheSet(s, k)
    BY <1>5 DEF Proceed, Fault, Commit, RollBack, SkipRetention, RedisFails, CacheHit,
                CacheMiss, RowFound, RowMissing, Lock, CountEvents, Upsert
  <2> QED
    BY <1>2, <1>3, <2>1
<1> QED
  BY <1>4, <1>5
     DEF Next, vars, EventsArrive, Midnight, RunJob, StartJob, StartRead, StartSummary,
         Begin

LEMMA ProceedKeepsCohort ==
  ASSUME CohortInv, [Next]_vars, NEW s \in Sessions, Proceed(s) \/ Fault(s)
  PROVE  CohortInHand(s)'
<1> USE DEF CohortInv
<1>1. cache'["retention"] \in {cache["retention"], 0, MaxVersion}
  BY CohortCache
<1>2. ASSUME NEW k \in Metrics,
             CacheHit(s, k) \/ CacheMiss(s, k) \/ RowMissing(s, k) \/ Lock(s, k)
      PROVE  CohortInHand(s)'
  <2>1. /\ wrote' = wrote /\ step'[s] \in {"get", "row", "lock", "count", "commit"}
        /\ step[s] # "set"
    BY <1>2 DEF CacheHit, CacheMiss, RowMissing, Lock, Advance, Goto, At, TypeOK
  <2> QED
    BY <1>1, <2>1, UncountedKeepsCohort DEF At
<1>3. ASSUME NEW k \in Metrics, Fill(s, k) \/ CacheSet(s, k)
      PROVE  CohortInHand(s)'
  <2>1. wrote' = wrote /\ step'[s] \in {"get", "commit"}
    BY <1>3 DEF Fill, CacheSet, Advance, Goto, TypeOK
  <2>2. ASSUME At(s, "retention", "set")
        PROVE  cache'["retention"] = MaxVersion
    <3>1. k = "retention" /\ CacheSet(s, k)
      BY <1>3, <2>2, CurrentIsUnique DEF Fill, CacheSet, At
    <3> QED
      BY <2>2, <3>1 DEF CacheSet, CohortInHand, Counted, TypeOK
  <2> QED
    BY <1>1, <2>1, <2>2, UncountedKeepsCohort
<1>4. ASSUME NEW k \in Metrics, RowFound(s, k)
      PROVE  CohortInHand(s)'
  <2>1. wrote' = wrote /\ cache' = cache /\ step[s] = "row" /\ Current(s, k)
    BY <1>4 DEF RowFound, At
  <2>2. CASE k \in WrittenBack
    <3>1. k # "retention" /\ todo' = todo /\ ~At(s, "retention", "set")
      BY <1>4, <2>1, <2>2 DEF RowFound, WrittenBack, At
    <3> QED
      BY <2>1, <3>1, AwayFromCohort DEF CohortInHand, Counted
  <2>3. CASE k \notin WrittenBack
    <3>1. step'[s] \in {"get", "commit"}
      BY <1>4, <2>3 DEF RowFound, Advance, Goto, TypeOK
    <3> QED
      BY <1>1, <2>1, <3>1, UncountedKeepsCohort DEF At
  <2> QED
    BY <2>2, <2>3
<1>5. ASSUME NEW k \in Metrics, CountEvents(s, k) \/ Upsert(s, k), k # "retention"
      PROVE  CohortInHand(s)'
  <2>1. /\ Current(s, k) /\ todo' = todo /\ cache' = cache
        /\ wrote'[s]["retention"] = wrote[s]["retention"]
    BY <1>5 DEF CountEvents, Upsert, At, TypeOK
  <2> QED
    BY <1>5, <2>1, AwayFromCohort DEF CohortInHand, Counted
<1>6. CASE CountEvents(s, "retention")
  <2>1. /\ seen'[s] = MaxVersion /\ wrote' = wrote /\ cache' = cache
        /\ step[s] = "count" /\ step'[s] = "upsert"
    BY <1>6 DEF CountEvents, Version, Goto, At, TypeOK
  <2> QED
    BY <2>1 DEF CohortInHand, At, Counted
<1>7. CASE Upsert(s, "retention")
  <2>1. /\ seen' = seen /\ wrote'[s]["retention"] = seen[s] /\ todo' = todo
        /\ Current(s, "retention") /\ step[s] = "upsert" /\ step'[s] = "set"
    BY <1>7 DEF Upsert, Goto, At, TypeOK
  <2>2. At(s, "retention", "set")' /\ seen[s] = MaxVersion
    BY <2>1 DEF CohortInHand, Counted, At, Current
  <2> QED
    BY <2>1, <2>2 DEF CohortInHand, At
<1>8. CASE SkipRetention(s)
  <2>1. /\ wrote' = wrote /\ step'[s] \in {"get", "commit"} /\ s \notin Workers
    BY <1>8, MetricsAssumption DEF SkipRetention, Advance, Goto, TypeOK
  <2> QED
    BY <1>1, <2>1, UncountedKeepsCohort
<1>9. CASE Commit(s) \/ RollBack(s) \/ \E k \in Metrics : RedisFails(s, k)
  BY <1>9, EndKeepsCohort DEF Commit, RollBack, RedisFails
<1> QED
  BY <1>2, <1>3, <1>4, <1>5, <1>6, <1>7, <1>8, <1>9 DEF Proceed, Fault

LEMMA NextKeepsCohortInv ==
  ASSUME CohortInv, TypeOK', [Next]_vars
  PROVE  CohortInv'
<1> USE DEF CohortInv
<1>1. cache'["retention"] \in {cache["retention"], 0, MaxVersion}
  BY CohortCache
<1>2. ASSUME NEW s \in Sessions, UNCHANGED <<step[s], todo[s], seen[s], wrote[s]>>
      PROVE  CohortInHand(s)'
  BY <1>1, <1>2 DEF CohortInHand, Counted, At, Current
<1>3. ASSUME NEW s \in Sessions, NEW metrics, NEW first \in {"get", "lock"},
             Begin(s, metrics, first)
      PROVE  CohortInHand(s)'
  <2>1. step'[s] = first /\ wrote' = wrote /\ step[s] = "idle"
    BY <1>3 DEF Begin, TypeOK
  <2> QED
    BY <1>1, <2>1, UncountedKeepsCohort DEF At
<1>4. ASSUME NEW s \in Sessions, Proceed(s) \/ Fault(s), NEW o \in Sessions \ {s}
      PROVE  UNCHANGED <<step[o], todo[o], seen[o], wrote[o]>>
  BY <1>4 DEF Proceed, Fault, Commit, RollBack, SkipRetention, RedisFails, EndSession,
              Advance, Goto, CacheHit, CacheMiss, Fill, RowFound, RowMissing, Lock,
              CountEvents, Upsert, CacheSet, TypeOK
<1>5. ASSUME NEW s \in Sessions, NEW metrics, NEW first, Begin(s, metrics, first),
             NEW o \in Sessions \ {s}
      PROVE  UNCHANGED <<step[o], todo[o], seen[o], wrote[o]>>
  BY <1>5 DEF Begin, TypeOK
<1>6. \/ UNCHANGED <<step, todo, seen, wrote>>
      \/ \E s \in Sessions : Proceed(s) \/ Fault(s)
      \/ \E s \in Sessions, metrics \in SUBSET Metrics, first \in {"get", "lock"} :
           Begin(s, metrics, first)
  BY DEF Next, vars, EventsArrive, Midnight, Expire, RunJob, StartJob, StartSummary,
         StartRead, Sessions
<1> SUFFICES ASSUME NEW o \in Sessions PROVE CohortInHand(o)'
  OBVIOUS
<1> QED
  BY <1>2, <1>3, <1>4, <1>5, <1>6, ProceedKeepsCohort

(* What the job of a cohort has put right stays right (metrics_service.py:370-418),
   with any number of requests and jobs and every fault. *)
THEOREM CohortStaysRightHolds == "retention" \in Metrics /\ Spec => CohortStaysRight
<1>1. CASE "retention" \in Metrics
  <2>1. SnapshotInv /\ Init => CohortInv
    BY <1>1 DEF Init, SnapshotInv, CohortInv, CohortInHand, NoRows, At, Counted
  <2>2. SnapshotInv' /\ CohortInv /\ [Next]_vars => CohortInv'
    BY NextKeepsCohortInv DEF SnapshotInv
  <2>3. ASSUME CohortInv, [Next]_vars,
               CohortIsRight \/ \E w \in Workers : CommitsCohort(w)
        PROVE  CohortIsRight'
    <3>1. cache'["retention"] \in {cache["retention"], 0, MaxVersion}
      BY <2>3, CohortCache
    <3>2. snap'["retention"] \in {snap["retention"], MaxVersion}
      <4>1. ASSUME NEW s \in Sessions, Commit(s)
            PROVE  snap'["retention"] \in {snap["retention"], MaxVersion}
        BY <2>3, <4>1 DEF CohortInv, CohortInHand, Commit, Stored
      <4>2. snap' = snap \/ \E s \in Sessions : Commit(s)
        BY <2>3
        DEF Next, EventsArrive, Midnight, Expire, RunJob, StartJob, StartRead,
            StartSummary, Begin, Proceed, Fault, CacheHit, CacheMiss, Fill, RowFound,
            RowMissing, Lock, CountEvents, Upsert, CacheSet, RollBack, SkipRetention,
            RedisFails, vars
      <4> QED
        BY <4>1, <4>2
    <3>3. ASSUME NEW w \in Workers, CommitsCohort(w)
          PROVE  snap'["retention"] = MaxVersion /\ cache["retention"] \in {0, MaxVersion}
      BY <2>3, <3>3 DEF CommitsCohort, Commit, Stored, CohortInv, CohortInHand, At, Sessions
    <3>4. CASE CohortIsRight
      BY <3>1, <3>2, <3>4 DEF CohortIsRight, Version
    <3>5. CASE \E w \in Workers : CommitsCohort(w)
      BY <3>1, <3>3, <3>5 DEF CohortIsRight, Version
    <3> QED
      BY <2>3, <3>4, <3>5
  <2>4. Spec => []SnapshotInv
    BY InitSnapshotInv, NextKeepsSnapshotInv, PTL DEF Spec
  <2> QED
    BY <2>1, <2>2, <2>3, <2>4, PTL DEF Spec, CohortStaysRight
<1> QED
  BY <1>1

=============================================================================
