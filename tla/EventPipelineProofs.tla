------------------------ MODULE EventPipelineProofs ------------------------
(***************************************************************************)
(* Type correctness and the safety of delivery, for every value of the     *)
(* constants.                                                              *)
(***************************************************************************)
EXTENDS EventPipeline, FiniteSetTheorems, SequenceTheorems, TLAPS

-----------------------------------------------------------------------------
(* Lemmas about the operators of the model.                                *)

(* XREADGROUP and XAUTOCLAIM serve ids in order: with an id, every lower id of
   the same set is served. *)
LEMMA LowestIsDownwardClosed ==
  ASSUME NEW n \in Nat, NEW S \in SUBSET (1..n), NEW c \in Nat,
         NEW m \in Lowest(S, c), NEW k \in S, k < m
  PROVE  k \in Lowest(S, c)
<1> DEFINE below(x) == {y \in S : y < x}
<1>0. m \in Nat /\ \A y \in S : y \in Nat
  BY DEF Lowest
<1>1. IsFiniteSet(below(m))
  <2>1. IsFiniteSet(1..n)
    BY FS_Interval
  <2> QED
    BY <2>1, FS_Subset
<1>2. below(k) \subseteq below(m)
  <2>1. ASSUME NEW y \in S, y < k  PROVE  y < m
    <3>1. y \in Nat /\ k \in Nat /\ m \in Nat
      BY <1>0
    <3> HIDE DEF below
    <3> QED
      BY <2>1, <3>1
  <2> QED
    BY <2>1
<1>3. Cardinality(below(k)) <= Cardinality(below(m))
  BY <1>1, <1>2, FS_Subset
<1>4. Cardinality(below(k)) \in Nat /\ Cardinality(below(m)) \in Nat
  BY <1>1, <1>2, FS_Subset, FS_CardinalityType
<1>5. Cardinality(below(m)) < c
  BY DEF Lowest
<1> QED
  BY <1>3, <1>4, <1>5 DEF Lowest

(* What XADD does to the history of payloads. *)
LEMMA AppendedBody ==
  ASSUME NEW s \in Seq(Payload), NEW p \in Payload
  PROVE  /\ Append(s, p) \in Seq(Payload)
         /\ Len(Append(s, p)) = Len(s) + 1
         /\ Len(s) \in Nat
         /\ \A m \in 1..Len(s) : Append(s, p)[m] = s[m]
         /\ Append(s, p)[Len(s) + 1] = p
BY AppendProperties, LenProperties

(* At most one item of a run's list is the current one. *)
LEMMA CurrentIsUnique ==
  ASSUME NEW j \in Jobs, TypeOK, NEW a, NEW b, Current(j, a), Current(j, b)
  PROVE  a = b
BY DEF Current, Precedes, TypeOK, WorkerTypeOK, Items

-----------------------------------------------------------------------------
(* What the commands of Redis preserve.                                    *)

LEMMA AfterXAdd ==
  ASSUME StreamTypeOK, NEW p \in Payload, XAdd(p)
  PROVE  /\ StreamTypeOK'
         /\ Ids' = Ids \cup {Len(body) + 1}
         /\ Len(body) \in Nat
         /\ \A m \in Ids : body'[m] = body[m]
         /\ entries \cup trimmed \subseteq entries' \cup trimmed'
         /\ Len(body) + 1 \in entries' \cup trimmed'
         /\ trimmed \subseteq trimmed'
         /\ \A m \in Ids : times'[m] = times[m]
         /\ UNCHANGED <<group, lastDelivered, pel, dlq>>
<1>1. PICK T \in SUBSET (entries \cup {Len(body) + 1}) :
        /\ body' = Append(body, p)
        /\ entries' = (entries \cup {Len(body) + 1}) \ T
        /\ trimmed' = trimmed \cup T
        /\ times' = Grown(times)
        /\ idle' = Grown(idle)
        /\ UNCHANGED <<group, lastDelivered, pel, dlq>>
  BY DEF XAdd
<1>2. /\ body' \in Seq(Payload)
      /\ Len(body') = Len(body) + 1
      /\ Len(body) \in Nat
      /\ \A m \in Ids : body'[m] = body[m]
  BY <1>1, AppendedBody DEF StreamTypeOK, Ids
<1>3. Ids' = Ids \cup {Len(body) + 1}
  BY <1>2 DEF Ids
<1>4. /\ times' \in [Ids' -> 0..MaxDeliveries]
      /\ idle' \in [Ids' -> 0..ClaimMinIdle]
      /\ \A m \in Ids : times'[m] = times[m]
  BY <1>1, <1>2, StreamAssumption DEF StreamTypeOK, Ids, Grown
<1>5. StreamTypeOK'
  <2>1. entries' \subseteq Ids' /\ trimmed' \subseteq Ids'
    BY <1>1, <1>3 DEF StreamTypeOK
  <2>2. lastDelivered' \in 0..Len(body') /\ group' \in BOOLEAN
    BY <1>1, <1>2 DEF StreamTypeOK
  <2>3. pel' \subseteq 1..lastDelivered' /\ dlq' \subseteq 1..lastDelivered'
    BY <1>1 DEF StreamTypeOK
  <2> QED
    BY <1>2, <1>4, <2>1, <2>2, <2>3 DEF StreamTypeOK
<1>6. entries \cup trimmed \cup {Len(body) + 1} \subseteq entries' \cup trimmed'
  BY <1>1
<1> QED
  BY <1>1, <1>2, <1>3, <1>4, <1>5, <1>6

LEMMA AfterXReadGroup ==
  ASSUME StreamTypeOK, XReadGroup
  PROVE  /\ StreamTypeOK'
         /\ UNCHANGED <<body, entries, trimmed, group, dlq>>
         /\ group
         /\ Fresh \subseteq pel'
         /\ pel \subseteq pel'
         /\ lastDelivered' >= lastDelivered
         /\ Fresh \subseteq (1..lastDelivered') \ (1..lastDelivered)
         /\ \A m \in 1..lastDelivered' :
              m \in 1..lastDelivered \/ m \notin entries \/ m \in Fresh
         /\ \A m \in Fresh : times'[m] = 1
         /\ \A m \in Ids \ Fresh : times'[m] = times[m]
<1>1. PICK last \in Fresh \cup {lastDelivered} :
        /\ \A m \in Fresh : m <= last
        /\ lastDelivered' = last
  BY DEF XReadGroup
<1>2. /\ Len(body) \in Nat
      /\ Fresh \subseteq Unread
      /\ Unread \subseteq Ids
      /\ \A m \in Unread : m \in entries /\ m > lastDelivered
  BY LenProperties DEF StreamTypeOK, Fresh, Lowest, Unread, Ids
<1>3. last \in 0..Len(body) /\ last >= lastDelivered
  BY <1>1, <1>2 DEF StreamTypeOK, Ids
<1>4. ASSUME NEW m \in 1..last, m \notin 1..lastDelivered, m \in entries
      PROVE  m \in Fresh
  <2>1. last \in Fresh
    BY <1>1, <1>2, <1>4 DEF StreamTypeOK
  <2>2. m \in Unread
    BY <1>3, <1>4 DEF Unread, StreamTypeOK
  <2>3. CASE m = last
    BY <2>1, <2>3
  <2>4. CASE m < last
    BY <2>1, <2>2, <2>4, <1>2, LowestIsDownwardClosed, StreamAssumption
       DEF Fresh, Ids
  <2> QED
    BY <2>3, <2>4, <1>3
<1>5. StreamTypeOK'
  <2>1. times' \in [Ids -> 0..MaxDeliveries]
    BY StreamAssumption DEF XReadGroup, StreamTypeOK
  <2> QED
    BY <1>1, <1>2, <1>3, <2>1 DEF XReadGroup, StreamTypeOK, Ids
<1>6. Fresh \subseteq (1..lastDelivered') \ (1..lastDelivered)
  BY <1>1, <1>2, <1>3 DEF StreamTypeOK, Ids
<1>7. \A m \in 1..lastDelivered' :
        m \in 1..lastDelivered \/ m \notin entries \/ m \in Fresh
  BY <1>1, <1>4
<1> QED
  BY <1>1, <1>2, <1>3, <1>5, <1>6, <1>7 DEF XReadGroup

LEMMA AfterXAutoClaim ==
  ASSUME StreamTypeOK, XAutoClaim
  PROVE  /\ StreamTypeOK'
         /\ UNCHANGED <<body, entries, trimmed, group, lastDelivered, dlq>>
         /\ Reclaimed \subseteq 1..lastDelivered
         /\ \A m \in pel \ pel' : m \notin entries
         /\ \A m \in Ids : times'[m] >= times[m]
         /\ \A m \in Reclaimed : times'[m] >= 1
<1>1. Claimable \subseteq pel /\ Reclaimed \subseteq Claimable
  BY DEF Claimable, Reclaimed, Lowest
<1>2. pel \subseteq Ids /\ Len(body) \in Nat
  BY LenProperties DEF StreamTypeOK, Ids
<1>3. \A n \in 0..MaxDeliveries :
        /\ CappedAt(MaxDeliveries, n + 1) \in 1..MaxDeliveries
        /\ CappedAt(MaxDeliveries, n + 1) >= n
  BY StreamAssumption DEF CappedAt
<1>4. /\ times' \in [Ids -> 0..MaxDeliveries]
      /\ \A m \in Ids : times'[m] >= times[m]
      /\ \A m \in Reclaimed : times'[m] >= 1
  <2>1. ASSUME NEW m \in Ids
        PROVE  /\ times'[m] \in 0..MaxDeliveries
               /\ times'[m] >= times[m]
               /\ m \in Reclaimed => times'[m] >= 1
    <3>1. times[m] \in 0..MaxDeliveries
      BY DEF StreamTypeOK
    <3>2. CASE m \in Reclaimed
      <4>1. times'[m] = CappedAt(MaxDeliveries, times[m] + 1)
        BY <3>2 DEF XAutoClaim
      <4> QED
        BY <1>3, <3>1, <4>1, StreamAssumption
    <3>3. CASE m \notin Reclaimed
      <4>1. times'[m] = times[m]
        BY <3>3 DEF XAutoClaim
      <4> QED
        BY <3>1, <3>3, <4>1, StreamAssumption
    <3> QED
      BY <3>2, <3>3
  <2>2. times' = [m \in Ids |-> times'[m]]
    BY DEF XAutoClaim
  <2> QED
    BY <1>1, <1>2, <2>1, <2>2
<1>5. idle' \in [Ids -> 0..ClaimMinIdle]
  BY StreamAssumption DEF XAutoClaim, StreamTypeOK
<1>6. StreamTypeOK'
  BY <1>1, <1>4, <1>5 DEF XAutoClaim, StreamTypeOK, Ids
<1> QED
  BY <1>1, <1>4, <1>6 DEF XAutoClaim, Reclaimed, StreamTypeOK

LEMMA AfterXAck ==
  ASSUME StreamTypeOK, NEW M, XAck(M),
         UNCHANGED <<body, trimmed, group, lastDelivered, times, dlq>>,
         entries' \subseteq entries
  PROVE  StreamTypeOK'
<1>1. idle' \in [Ids -> 0..ClaimMinIdle]
  BY StreamAssumption DEF XAck, StreamTypeOK
<1> QED
  BY <1>1 DEF XAck, StreamTypeOK, Ids

LEMMA AfterXAddDlq ==
  ASSUME StreamTypeOK, NEW m \in 1..lastDelivered, XAddDlq(m)
  PROVE  StreamTypeOK'
BY DEF XAddDlq, StreamTypeOK, Ids

-----------------------------------------------------------------------------
(* The inductive invariant, step by step.                                  *)

Inv == TypeOK /\ LossInvariant

LEMMA InitInv == Init => Inv
<1> SUFFICES ASSUME Init PROVE Inv
  OBVIOUS
<1> USE DEF Init, StreamInit, TableInit, KeysInit, WorkerInit, ApiInit
<1>1. Len(body) = 0 /\ Ids = {}
  BY EmptySeq DEF Ids
<1>2. StreamTypeOK
  <2>1. body \in Seq(Payload) /\ lastDelivered \in 0..Len(body)
    BY <1>1, EmptySeq
  <2>2. times \in [Ids -> 0..MaxDeliveries] /\ idle \in [Ids -> 0..ClaimMinIdle]
    BY <1>1
  <2> QED
    BY <2>1, <2>2 DEF StreamTypeOK
<1>3. TableTypeOK /\ KeysTypeOK /\ WorkerTypeOK /\ ApiTypeOK
  BY DEF TableTypeOK, KeysTypeOK, WorkerTypeOK, Steps, ApiTypeOK
<1>4. LossInvariant
  BY <1>1 DEF LossInvariant, GroupBeforeDelivery, EntriesAccountedFor,
       DeliveriesAccountedFor, WrittenBeforeAck, CommittedBeforeAck, WrittenBeforeMark,
       BuriedBeforeAck
<1> QED
  BY <1>2, <1>3, <1>4 DEF Inv, TypeOK

LEMMA StartConsumerGroupKeepsInv == Inv /\ StartConsumerGroup => Inv'
<1> SUFFICES ASSUME Inv, StartConsumerGroup PROVE Inv'
  OBVIOUS
<1>1. lastDelivered = 0 /\ UNCHANGED lastDelivered
  BY DEF StartConsumerGroup, EnsureGroup, Inv, LossInvariant,
       GroupBeforeDelivery
<1>2. TypeOK'
  BY <1>1 DEF StartConsumerGroup, EnsureGroup, Inv, TypeOK, StreamTypeOK, Ids,
       TableTypeOK, KeysTypeOK, WorkerTypeOK, ApiTypeOK, tableVars, workerVars,
       apiVars
<1>3. LossInvariant'
  BY <1>1 DEF StartConsumerGroup, EnsureGroup, Inv, LossInvariant,
       GroupBeforeDelivery, EntriesAccountedFor, DeliveriesAccountedFor,
       WrittenBeforeAck, CommittedBeforeAck, WrittenBeforeMark, BuriedBeforeAck, Written, Settled,
       RolledBack, Ids, Current, tableVars, workerVars, apiVars
<1> QED
  BY <1>2, <1>3 DEF Inv

LEMMA TimePassesKeepsInv == Inv /\ TimePasses => Inv'
<1> SUFFICES ASSUME Inv, TimePasses PROVE Inv'
  OBVIOUS
<1>1. StreamTypeOK'
  <2>1. idle' \in [Ids -> 0..ClaimMinIdle]
    BY StreamAssumption
       DEF TimePasses, Tick, Inv, TypeOK, StreamTypeOK, CappedAt
  <2> QED
    BY <2>1 DEF TimePasses, Tick, Inv, TypeOK, StreamTypeOK, Ids
<1>2. TypeOK'
  BY <1>1 DEF TimePasses, Tick, Inv, TypeOK, TableTypeOK, KeysTypeOK,
       WorkerTypeOK, ApiTypeOK, tableVars, workerVars, apiVars
<1>3. LossInvariant'
  BY DEF TimePasses, Tick, Inv, LossInvariant,
       GroupBeforeDelivery, EntriesAccountedFor, DeliveriesAccountedFor,
       WrittenBeforeAck, CommittedBeforeAck, WrittenBeforeMark, BuriedBeforeAck, Written, Settled,
       RolledBack, Ids, Current, tableVars, workerVars, apiVars
<1> QED
  BY <1>2, <1>3 DEF Inv

(* A message is added, by a handler or by another program. *)
LEMMA XAddKeepsInv ==
  ASSUME Inv, NEW p \in Payload, XAdd(p), UNCHANGED <<tableVars, workerVars>>
  PROVE  StreamTypeOK' /\ TableTypeOK' /\ WorkerTypeOK' /\ LossInvariant'
<1> USE DEF Inv, TypeOK, tableVars, workerVars
<1>1. /\ StreamTypeOK'
      /\ Ids' = Ids \cup {Len(body) + 1}
      /\ Len(body) \in Nat
      /\ \A m \in Ids : body'[m] = body[m]
      /\ entries \cup trimmed \subseteq entries' \cup trimmed'
      /\ Len(body) + 1 \in entries' \cup trimmed'
      /\ trimmed \subseteq trimmed'
      /\ UNCHANGED <<group, lastDelivered, pel, dlq>>
  BY AfterXAdd
<1>2. TableTypeOK' /\ WorkerTypeOK'
  BY <1>1 DEF TableTypeOK, WorkerTypeOK
<1>3. 1..lastDelivered \subseteq Ids
  BY <1>1 DEF StreamTypeOK, Ids
<1>4. GroupBeforeDelivery' /\ EntriesAccountedFor' /\ BuriedBeforeAck'
  BY <1>1 DEF LossInvariant, GroupBeforeDelivery, EntriesAccountedFor,
       BuriedBeforeAck, Current
<1>5. DeliveriesAccountedFor'
  BY <1>1, <1>3 DEF LossInvariant, DeliveriesAccountedFor, Settled, RolledBack
<1>6. WrittenBeforeAck' /\ CommittedBeforeAck'
  BY <1>1, <1>3 DEF LossInvariant, WrittenBeforeAck, CommittedBeforeAck, Written,
       WorkerTypeOK
<1>7. WrittenBeforeMark'
  <2>1. \A j \in Jobs : \A i \in todo[j] : i.id \in Ids
    BY <1>3 DEF WorkerTypeOK, Items, StreamTypeOK
  <2> QED
    BY <1>1, <2>1 DEF LossInvariant, WrittenBeforeMark, Written, Current
<1> QED
  BY <1>1, <1>2, <1>4, <1>5, <1>6, <1>7 DEF LossInvariant

LEMMA ForeignEnqueueKeepsInv ==
  ASSUME Inv, NEW p \in Foreign, ForeignEnqueue(p)
  PROVE  Inv'
<1>1. p \in Payload
  BY ForeignAssumption DEF Payload
<1>2. StreamTypeOK' /\ TableTypeOK' /\ WorkerTypeOK' /\ LossInvariant'
  BY <1>1, XAddKeepsInv DEF ForeignEnqueue
<1>3. KeysTypeOK' /\ ApiTypeOK'
  BY DEF ForeignEnqueue, Inv, TypeOK, KeysTypeOK, ApiTypeOK, apiVars
<1> QED
  BY <1>2, <1>3 DEF Inv, TypeOK

(* Steps that touch neither the stream nor the table nor a run. *)
LEMMA UntouchedPipelineKeepsInv ==
  ASSUME Inv, UNCHANGED <<streamVars, tableVars, workerVars>>
  PROVE  StreamTypeOK' /\ TableTypeOK' /\ WorkerTypeOK' /\ LossInvariant'
BY DEF Inv, TypeOK, StreamTypeOK, TableTypeOK, WorkerTypeOK, LossInvariant,
     GroupBeforeDelivery, EntriesAccountedFor, DeliveriesAccountedFor,
     WrittenBeforeAck, CommittedBeforeAck, WrittenBeforeMark, BuriedBeforeAck, Written, Settled,
     RolledBack, Ids, Current, streamVars, tableVars, workerVars

LEMMA ExpireKeyKeepsInv ==
  ASSUME Inv, NEW e \in Events, ExpireKey(e)
  PROVE  Inv'
<1>1. StreamTypeOK' /\ TableTypeOK' /\ WorkerTypeOK' /\ LossInvariant'
  BY UntouchedPipelineKeepsInv DEF ExpireKey
<1>2. KeysTypeOK' /\ ApiTypeOK'
  BY DEF ExpireKey, Expire, Inv, TypeOK, KeysTypeOK, ApiTypeOK, apiVars
<1> QED
  BY <1>1, <1>2 DEF Inv, TypeOK

LEMMA RequestStepKeepsInv ==
  ASSUME Inv, NEW r \in Requests, RequestStep(r)
  PROVE  Inv'
<1> USE DEF Inv, TypeOK
<1>1. ASSUME NEW batch \in SUBSET Events, Receive(r, batch)  PROVE Inv'
  <2>1. StreamTypeOK' /\ TableTypeOK' /\ WorkerTypeOK' /\ LossInvariant'
    BY <1>1, UntouchedPipelineKeepsInv DEF Receive, RequestStep
  <2>2. KeysTypeOK' /\ ApiTypeOK'
    BY <1>1 DEF Receive, KeysTypeOK, ApiTypeOK
  <2> QED
    BY <2>1, <2>2
<1>2. ASSUME NEW e \in Events, ClaimNew(r, e)  PROVE Inv'
  <2>1. StreamTypeOK' /\ TableTypeOK' /\ WorkerTypeOK' /\ LossInvariant'
    BY <1>2, UntouchedPipelineKeepsInv DEF ClaimNew, RequestStep
  <2>2. KeysTypeOK' /\ ApiTypeOK'
    BY <1>2 DEF ClaimNew, SetNX, KeysTypeOK, ApiTypeOK
  <2> QED
    BY <2>1, <2>2
<1>3. ASSUME NEW e \in Events, Deduplicate(r, e)  PROVE Inv'
  <2>1. StreamTypeOK' /\ TableTypeOK' /\ WorkerTypeOK' /\ LossInvariant'
    BY <1>3, UntouchedPipelineKeepsInv DEF Deduplicate, RequestStep
  <2>2. KeysTypeOK' /\ ApiTypeOK'
    BY <1>3 DEF Deduplicate, KeysTypeOK, ApiTypeOK
  <2> QED
    BY <2>1, <2>2
<1>4. ASSUME NEW e \in Events, Enqueue(r, e)  PROVE Inv'
  <2>1. StreamTypeOK' /\ TableTypeOK' /\ WorkerTypeOK' /\ LossInvariant'
    BY <1>4, XAddKeepsInv DEF Enqueue, RequestStep, Payload
  <2>2. KeysTypeOK' /\ ApiTypeOK'
    BY <1>4 DEF Enqueue, KeysTypeOK, ApiTypeOK
  <2> QED
    BY <2>1, <2>2
<1>5. ASSUME Respond(r)  PROVE Inv'
  <2>1. StreamTypeOK' /\ TableTypeOK' /\ WorkerTypeOK' /\ LossInvariant'
    BY <1>5, UntouchedPipelineKeepsInv DEF Respond, RequestStep
  <2>2. KeysTypeOK' /\ ApiTypeOK'
    BY <1>5 DEF Respond, EndRequest, KeysTypeOK, ApiTypeOK
  <2> QED
    BY <2>1, <2>2
<1>6. ASSUME RequestFails(r)  PROVE Inv'
  <2>1. StreamTypeOK' /\ TableTypeOK' /\ WorkerTypeOK' /\ LossInvariant'
    BY <1>6, UntouchedPipelineKeepsInv DEF RequestFails, RequestStep
  <2>2. KeysTypeOK' /\ ApiTypeOK'
    BY <1>6 DEF RequestFails, EndRequest, KeysTypeOK, ApiTypeOK
  <2> QED
    BY <2>1, <2>2
<1> QED
  BY <1>1, <1>2, <1>3, <1>4, <1>5, <1>6 DEF RequestStep, ApiStep, Serve

(* A step of run j keeps LossInvariant when it keeps the deliveries accounted
   for, and what j itself has acknowledged, marked or buried. *)
LEMMA RunStepKeepsLossInvariant ==
  ASSUME Inv, NEW j \in Jobs,
         UNCHANGED <<body, trimmed, group>>,
         events \subseteq events', discarded \subseteq discarded',
         dlq \subseteq dlq', entries \subseteq entries' \cup dlq',
         \A o \in Jobs \ {j} : UNCHANGED <<pc[o], todo[o], acks[o], rows[o]>>,
         GroupBeforeDelivery', DeliveriesAccountedFor',
         \A m \in acks'[j] : Written(j, m)',
         pc'[j] = "ack" => rows'[j] = {},
         \A i \in todo'[j] : Current(j, i)' /\ pc'[j] \in {"inserted", "mark"}
            => body'[i.id] \in Events /\ Written(j, i.id)',
         \A i \in todo'[j] : Current(j, i)' /\ pc'[j] \in {"ackinvalid", "buryack"}
            => i.id \in dlq'
  PROVE  LossInvariant'
<1> USE DEF Inv, LossInvariant
<1>1. EntriesAccountedFor'
  BY DEF EntriesAccountedFor, Ids
<1>2. WrittenBeforeAck'
  <2> SUFFICES ASSUME NEW o \in Jobs, NEW m \in acks'[o]
               PROVE  Written(o, m)'
    BY DEF WrittenBeforeAck
  <2>1. CASE o = j
    BY <2>1
  <2>2. CASE o # j
    BY <2>2 DEF WrittenBeforeAck, Written
  <2> QED
    BY <2>1, <2>2
<1>3. CommittedBeforeAck'
  BY DEF CommittedBeforeAck
<1>4. WrittenBeforeMark'
  <2> SUFFICES ASSUME NEW o \in Jobs, NEW i \in todo'[o], Current(o, i)',
                      pc'[o] \in {"inserted", "mark"}
               PROVE  body'[i.id] \in Events /\ Written(o, i.id)'
    BY DEF WrittenBeforeMark
  <2>1. CASE o = j
    BY <2>1
  <2>2. CASE o # j
    BY <2>2 DEF WrittenBeforeMark, Written, Current
  <2> QED
    BY <2>1, <2>2
<1>5. BuriedBeforeAck'
  <2> SUFFICES ASSUME NEW o \in Jobs, NEW i \in todo'[o], Current(o, i)',
                      pc'[o] \in {"ackinvalid", "buryack"}
               PROVE  i.id \in dlq'
    BY DEF BuriedBeforeAck
  <2>1. CASE o = j
    BY <2>1
  <2>2. CASE o # j
    BY <2>2 DEF BuriedBeforeAck, Current
  <2> QED
    BY <2>1, <2>2
<1> QED
  BY <1>1, <1>2, <1>3, <1>4, <1>5

(* The same for a step that leaves the stream alone. *)
LEMMA QuietRunStepKeepsLossInvariant ==
  ASSUME Inv, NEW j \in Jobs,
         UNCHANGED streamVars,
         events \subseteq events', discarded \subseteq discarded',
         \A o \in Jobs \ {j} : UNCHANGED <<pc[o], todo[o], acks[o], rows[o]>>,
         \A m \in acks'[j] : Written(j, m)',
         \A i \in todo'[j] : Current(j, i)' /\ pc'[j] \in {"inserted", "mark"}
            => body'[i.id] \in Events /\ Written(j, i.id)',
         pc'[j] \notin {"ackinvalid", "buryack", "ack"}
  PROVE  LossInvariant'
<1>1. GroupBeforeDelivery' /\ DeliveriesAccountedFor'
  BY DEF Inv, LossInvariant, GroupBeforeDelivery, DeliveriesAccountedFor,
       Settled, RolledBack, streamVars
<1>2. entries \subseteq entries' \cup dlq' /\ dlq \subseteq dlq'
  BY DEF streamVars
<1> QED
  BY <1>1, <1>2, RunStepKeepsLossInvariant DEF streamVars

-----------------------------------------------------------------------------
(* The steps of a run.                                                     *)

(* The types of what neither the run nor its table changes. *)
LEMMA FrameTypes ==
  /\ TypeOK /\ UNCHANGED streamVars => StreamTypeOK'
  /\ TypeOK /\ UNCHANGED tableVars => TableTypeOK'
  /\ TypeOK /\ UNCHANGED idem => KeysTypeOK'
  /\ TypeOK /\ UNCHANGED apiVars => ApiTypeOK'
BY DEF TypeOK, StreamTypeOK, Ids, TableTypeOK, KeysTypeOK, ApiTypeOK,
     streamVars, tableVars, apiVars

(* Giving up a message, or leaving it pending, is a quiet step. *)
LEMMA GiveUpOrLeaveKeepsInv ==
  ASSUME Inv, NEW j \in Jobs, NEW i \in todo[j],
         NEW burial \in {"buryinvalid", "bury"}, GiveUpOrLeave(j, i, burial),
         UNCHANGED <<claimed, acks, hll, streamVars, apiVars>>,
         KeysTypeOK', TableTypeOK', UNCHANGED <<events, discarded, rows>>
  PROVE  Inv'
<1>1. WorkerTypeOK'
  BY DEF GiveUpOrLeave, Goto, Drop, Inv, TypeOK, WorkerTypeOK, Steps, streamVars
<1>2. TypeOK'
  BY <1>1, FrameTypes DEF Inv, TypeOK
<1>3. /\ \A o \in Jobs \ {j} : UNCHANGED <<pc[o], todo[o], acks[o], rows[o]>>
      /\ pc'[j] \in {"buryinvalid", "bury", "work"}
  BY DEF GiveUpOrLeave, Goto, Drop, Inv, TypeOK, WorkerTypeOK
<1>4. \A m \in acks'[j] : Written(j, m)'
  BY DEF Inv, LossInvariant, WrittenBeforeAck, Written, streamVars
<1>5. LossInvariant'
  BY <1>3, <1>4, QuietRunStepKeepsLossInvariant
<1> QED
  BY <1>2, <1>5 DEF Inv

LEMMA ReadFreshKeepsInv ==
  ASSUME Inv, NEW j \in Jobs, ReadFresh(j), UNCHANGED apiVars
  PROVE  Inv'
<1> USE DEF Inv, TypeOK
<1>1. /\ StreamTypeOK'
      /\ UNCHANGED <<body, entries, trimmed, group, dlq>>
      /\ group
      /\ Fresh \subseteq pel'
      /\ pel \subseteq pel'
      /\ lastDelivered' >= lastDelivered
      /\ Fresh \subseteq (1..lastDelivered') \ (1..lastDelivered)
      /\ \A m \in 1..lastDelivered' :
           m \in 1..lastDelivered \/ m \notin entries \/ m \in Fresh
  BY AfterXReadGroup DEF ReadFresh
<1>2. WorkerTypeOK'
  <2>1. lastDelivered \in Nat /\ lastDelivered' \in Nat
    BY <1>1 DEF StreamTypeOK
  <2>2. 1..lastDelivered \subseteq 1..lastDelivered'
    BY <1>1, <2>1
  <2>3. /\ pc' \in [Jobs -> Steps]
        /\ claimed' \in [Jobs -> SUBSET (1..lastDelivered')]
        /\ acks' \in [Jobs -> SUBSET (1..lastDelivered')]
        /\ hll' \subseteq Events
    BY <2>2 DEF ReadFresh, Goto, WorkerTypeOK, Steps
  <2>4. \A x \in {[id |-> m, n |-> 1, again |-> FALSE] : m \in Fresh} :
          x \in Items /\ x.id <= lastDelivered'
    <3> SUFFICES ASSUME NEW m \in Fresh
                 PROVE  /\ [id |-> m, n |-> 1, again |-> FALSE] \in Items
                        /\ m <= lastDelivered'
      OBVIOUS
    <3>1. m \in Nat \ {0} /\ m <= lastDelivered'
      BY <1>1, <2>1
    <3>2. 1 \in 0..MaxDeliveries
      BY StreamAssumption
    <3> QED
      BY <3>1, <3>2 DEF Items
  <2>5. todo' \in [Jobs -> SUBSET Items]
    BY <2>4 DEF ReadFresh, WorkerTypeOK
  <2>6. ASSUME NEW o \in Jobs, NEW x \in todo'[o]  PROVE x.id <= lastDelivered'
    <3>1. CASE o = j
      BY <2>4, <2>6, <3>1 DEF ReadFresh, WorkerTypeOK
    <3>2. CASE o # j
      <4>1. x \in todo[o]
        BY <2>6, <3>2 DEF ReadFresh, WorkerTypeOK
      <4>2. x.id <= lastDelivered /\ x.id \in Nat
        BY <4>1 DEF WorkerTypeOK, Items
      <4> QED
        BY <1>1, <2>1, <4>2
    <3> QED
      BY <3>1, <3>2
  <2> QED
    BY <2>3, <2>5, <2>6 DEF WorkerTypeOK
<1>3. TypeOK'
  BY <1>1, <1>2, FrameTypes DEF ReadFresh
<1>4. DeliveriesAccountedFor'
  <2> SUFFICES ASSUME NEW m \in 1..lastDelivered'
               PROVE  m \in pel' \/ m \in trimmed \/ Settled(m) \/ RolledBack(m)
    BY <1>1 DEF DeliveriesAccountedFor, Settled, RolledBack, ReadFresh, tableVars
  <2>1. CASE m \in 1..lastDelivered
    BY <1>1, <2>1 DEF LossInvariant, DeliveriesAccountedFor
  <2>2. CASE m \in Fresh
    BY <1>1, <2>2
  <2>3. CASE m \notin entries
    BY <1>1, <2>3 DEF LossInvariant, EntriesAccountedFor, Settled,
         StreamTypeOK, Ids
  <2> QED
    BY <1>1, <2>1, <2>2, <2>3
<1>5. /\ \A o \in Jobs \ {j} : UNCHANGED <<pc[o], todo[o], acks[o], rows[o]>>
      /\ pc'[j] = "claim"
  BY DEF ReadFresh, Goto, WorkerTypeOK, tableVars
<1>6. \A m \in acks'[j] : Written(j, m)'
  BY <1>1 DEF LossInvariant, WrittenBeforeAck, Written, ReadFresh, tableVars
<1>7. events \subseteq events' /\ discarded \subseteq discarded'
  BY DEF ReadFresh, tableVars
<1>8. GroupBeforeDelivery'
  BY <1>1 DEF GroupBeforeDelivery
<1>9. LossInvariant'
  BY <1>1, <1>4, <1>5, <1>6, <1>7, <1>8, RunStepKeepsLossInvariant
<1> QED
  BY <1>3, <1>9

(* XAUTOCLAIM, whether its answer reaches the run or not. *)
LEMMA XAutoClaimKeepsInv ==
  ASSUME Inv, NEW j \in Jobs, XAutoClaim,
         NEW C \in SUBSET Reclaimed, claimed' = [claimed EXCEPT ![j] = C],
         NEW step \in {"count", "idle", "work"}, Goto(j, step),
         UNCHANGED <<todo, acks, hll, tableVars, idem, apiVars>>
  PROVE  Inv'
<1> USE DEF Inv, TypeOK
<1>1. /\ StreamTypeOK'
      /\ UNCHANGED <<body, entries, trimmed, group, lastDelivered, dlq>>
      /\ Reclaimed \subseteq 1..lastDelivered
      /\ \A m \in pel \ pel' : m \notin entries
  BY AfterXAutoClaim
<1>2. WorkerTypeOK'
  BY <1>1 DEF Goto, WorkerTypeOK, Steps
<1>3. TypeOK'
  BY <1>1, <1>2, FrameTypes
<1>4. DeliveriesAccountedFor' /\ GroupBeforeDelivery'
  <2>1. \A m \in pel \ pel' : m \in trimmed \cup dlq
    BY <1>1 DEF LossInvariant, EntriesAccountedFor, StreamTypeOK, Ids
  <2> QED
    BY <1>1, <2>1 DEF LossInvariant, GroupBeforeDelivery,
         DeliveriesAccountedFor, Settled, RolledBack, tableVars
<1>5. /\ \A o \in Jobs \ {j} : UNCHANGED <<pc[o], todo[o], acks[o], rows[o]>>
      /\ pc'[j] \in {"count", "idle", "work"}
  BY DEF Goto, WorkerTypeOK, tableVars
<1>6. \A m \in acks'[j] : Written(j, m)'
  BY <1>1 DEF LossInvariant, WrittenBeforeAck, Written, tableVars
<1>7. events \subseteq events' /\ discarded \subseteq discarded'
  BY DEF tableVars
<1>8. LossInvariant'
  BY <1>1, <1>4, <1>5, <1>6, <1>7, RunStepKeepsLossInvariant
<1> QED
  BY <1>3, <1>8

LEMMA ReclaimKeepsInv ==
  ASSUME Inv, NEW j \in Jobs, Reclaim(j), UNCHANGED apiVars
  PROVE  Inv'
BY XAutoClaimKeepsInv DEF Reclaim

(* The run has its list of work and enters its loop, or ends. *)
LEMMA EnterLoopKeepsInv ==
  ASSUME Inv, NEW j \in Jobs, NEW work \in SUBSET Items, EnterLoop(j, work),
         \A x \in work : x.id <= lastDelivered,
         UNCHANGED <<acks, hll, streamVars, tableVars, idem, apiVars>>
  PROVE  Inv'
<1> USE DEF Inv, TypeOK
<1>1. WorkerTypeOK'
  BY DEF EnterLoop, Goto, WorkerTypeOK, Steps, streamVars
<1>2. TypeOK'
  BY <1>1, FrameTypes
<1>3. /\ \A o \in Jobs \ {j} : UNCHANGED <<pc[o], todo[o], acks[o], rows[o]>>
      /\ pc'[j] \in {"idle", "work"}
  BY DEF EnterLoop, Goto, WorkerTypeOK, tableVars
<1>4. \A m \in acks'[j] : Written(j, m)'
  BY DEF LossInvariant, WrittenBeforeAck, Written, streamVars, tableVars
<1>5. LossInvariant'
  BY <1>3, <1>4, QuietRunStepKeepsLossInvariant DEF tableVars
<1> QED
  BY <1>2, <1>5

LEMMA CountKeepsInv ==
  ASSUME Inv, NEW j \in Jobs, UNCHANGED apiVars,
         NEW counts \in [claimed[j] -> 0..MaxDeliveries], Count(j, counts)
  PROVE  Inv'
<1> DEFINE work == todo[j] \cup
      {[id |-> m, n |-> counts[m], again |-> TRUE] : m \in claimed[j]}
<1>1. \A m \in claimed[j] : m \in Nat \ {0} /\ m <= lastDelivered
  BY DEF Inv, TypeOK, WorkerTypeOK, StreamTypeOK
<1>2. work \subseteq Items /\ \A x \in work : x.id <= lastDelivered
  <2>1. \A x \in todo[j] : x \in Items /\ x.id <= lastDelivered
    BY DEF Inv, TypeOK, WorkerTypeOK
  <2>2. ASSUME NEW m \in claimed[j]
        PROVE  /\ [id |-> m, n |-> counts[m], again |-> TRUE] \in Items
               /\ m <= lastDelivered
    BY <1>1 DEF Items
  <2> QED
    BY <2>1, <2>2
<1>3. EnterLoop(j, work)
     /\ UNCHANGED <<acks, hll, streamVars, tableVars, idem, apiVars>>
  BY DEF Count
<1> HIDE DEF work
<1> QED
  BY <1>2, <1>3, EnterLoopKeepsInv

LEMMA DeliveryCountType ==
  ASSUME Inv, NEW m \in 1..lastDelivered
  PROVE  DeliveryCount(m) \in 0..MaxDeliveries
<1>1. m \in Ids
  BY LenProperties DEF Inv, TypeOK, StreamTypeOK, Ids
<1> QED
  BY <1>1, StreamAssumption DEF DeliveryCount, Inv, TypeOK, StreamTypeOK

LEMMA CountDeliveriesKeepsInv ==
  ASSUME Inv, NEW j \in Jobs, CountDeliveries(j), UNCHANGED apiVars
  PROVE  Inv'
<1>1. [m \in claimed[j] |-> DeliveryCount(m)] \in [claimed[j] -> 0..MaxDeliveries]
  BY DeliveryCountType DEF Inv, TypeOK, WorkerTypeOK
<1> QED
  BY <1>1, CountKeepsInv DEF CountDeliveries

LEMMA CountFailsKeepsInv ==
  ASSUME Inv, NEW j \in Jobs, CountFails(j), UNCHANGED apiVars
  PROVE  Inv'
<1>1. [m \in claimed[j] |-> 1] \in [claimed[j] -> 0..MaxDeliveries]
  BY StreamAssumption
<1> QED
  BY <1>1, CountKeepsInv DEF CountFails

LEMMA ReclaimFailsKeepsInv ==
  ASSUME Inv, NEW j \in Jobs, ReclaimFails(j), UNCHANGED apiVars
  PROVE  Inv'
<1>1. CASE UNCHANGED streamVars
  BY <1>1, EnterLoopKeepsInv DEF ReclaimFails, Inv, TypeOK, WorkerTypeOK
<1>2. CASE XAutoClaim
  <2>1. UNCHANGED todo
    BY DEF ReclaimFails, EnterLoop, Inv, TypeOK, WorkerTypeOK
  <2>2. PICK step \in {"idle", "work"} : Goto(j, step)
    BY DEF ReclaimFails, EnterLoop
  <2>3. claimed' = [claimed EXCEPT ![j] = {}] /\ {} \in SUBSET Reclaimed
    BY DEF ReclaimFails, EnterLoop
  <2> QED
    BY <1>2, <2>1, <2>2, <2>3, XAutoClaimKeepsInv DEF ReclaimFails
<1> QED
  BY <1>1, <1>2 DEF ReclaimFails

LEMMA RejectKeepsInv ==
  ASSUME Inv, NEW j \in Jobs, NEW i \in todo[j], Reject(j, i) \/ RejectInvalid(j, i),
         UNCHANGED apiVars
  PROVE  Inv'
<1>1. KeysTypeOK' /\ TableTypeOK' /\ UNCHANGED <<events, discarded, rows>>
  BY FrameTypes DEF Reject, RejectInvalid, Inv, tableVars
<1> QED
  BY <1>1, GiveUpOrLeaveKeepsInv DEF Reject, RejectInvalid

LEMMA InsertRaisesKeepsInv ==
  ASSUME Inv, NEW j \in Jobs, NEW i \in todo[j],
         InsertRaises(j, i) \/ InsertUnreached(j, i), UNCHANGED apiVars
  PROVE  Inv'
<1>1. TableTypeOK' /\ UNCHANGED <<events, discarded, rows>>
  BY DEF InsertRaises, InsertUnreached, InsertRefused, InsertInFailed,
       InsertVictim, InsertUnconnected, Inv, TypeOK, TableTypeOK, tableVars
<1>2. KeysTypeOK'
  BY FrameTypes DEF InsertRaises, InsertUnreached, Inv
<1> QED
  BY <1>1, <1>2, GiveUpOrLeaveKeepsInv DEF InsertRaises, InsertUnreached

LEMMA MarkRaisesKeepsInv ==
  ASSUME Inv, NEW j \in Jobs, NEW i \in todo[j], MarkRaises(j, i),
         UNCHANGED apiVars
  PROVE  Inv'
<1>1. TableTypeOK' /\ UNCHANGED <<events, discarded, rows>>
  BY FrameTypes DEF MarkRaises, Inv, tableVars
<1>2. CASE UNCHANGED idem
  BY <1>1, <1>2, FrameTypes, GiveUpOrLeaveKeepsInv DEF MarkRaises, Inv
<1>3. CASE pc[j] = "mark" /\ SetDone(body[i.id])
  <2>1. body[i.id] \in Events
    BY <1>3 DEF MarkRaises, Inv, LossInvariant, WrittenBeforeMark
  <2>2. KeysTypeOK'
    BY <1>3, <2>1 DEF SetDone, Inv, TypeOK, KeysTypeOK
  <2> QED
    BY <1>1, <2>2, GiveUpOrLeaveKeepsInv DEF MarkRaises
<1> QED
  BY <1>2, <1>3 DEF MarkRaises

LEMMA InsertKeepsInv ==
  ASSUME Inv, NEW j \in Jobs, NEW i \in todo[j], Insert(j, i) \/ Conflict(j, i),
         UNCHANGED apiVars
  PROVE  Inv'
<1> USE DEF Inv, TypeOK
<1>1. PICK e \in Events :
        /\ AtItem(j, i, e)
        /\ InsertRow(j, e) \/ InsertConflict(j, e)
  BY DEF Insert, Conflict
<1>2. j \in Sessions
  BY WorkerAssumption
<1>3. /\ TableTypeOK'
      /\ UNCHANGED <<events, discarded>>
      /\ \A o \in Jobs \ {j} : UNCHANGED rows[o]
      /\ rows[j] \subseteq rows'[j]
      /\ e \in events \cup rows'[j]
  BY <1>1, <1>2, WorkerAssumption DEF InsertRow, InsertConflict, TableTypeOK
<1>4. WorkerTypeOK'
  BY DEF Insert, Conflict, Goto, WorkerTypeOK, Steps, streamVars
<1>5. TypeOK'
  BY <1>3, <1>4, FrameTypes DEF Insert, Conflict
<1>6. /\ \A o \in Jobs \ {j} : UNCHANGED <<pc[o], todo[o], acks[o], rows[o]>>
      /\ pc'[j] \in {"inserted", "mark"}
      /\ UNCHANGED <<todo, acks, streamVars>>
  BY <1>3 DEF Insert, Conflict, Goto, WorkerTypeOK
<1>7. \A m \in acks'[j] : Written(j, m)'
  BY <1>3, <1>6 DEF LossInvariant, WrittenBeforeAck, Written, streamVars
<1>8. ASSUME NEW k \in todo'[j], Current(j, k)'
      PROVE  body'[k.id] \in Events /\ Written(j, k.id)'
  <2>1. k = i
    BY <1>1, <1>6, <1>8, CurrentIsUnique DEF AtItem, Current
  <2> QED
    BY <1>1, <1>3, <1>6, <2>1 DEF AtItem, Written, streamVars
<1>9. LossInvariant'
  BY <1>3, <1>6, <1>7, <1>8, QuietRunStepKeepsLossInvariant
<1> QED
  BY <1>5, <1>9

LEMMA CountUserKeepsInv ==
  ASSUME Inv, NEW j \in Jobs, NEW i \in todo[j], CountUser(j, i),
         UNCHANGED apiVars
  PROVE  Inv'
<1> USE DEF Inv, TypeOK
<1>1. body[i.id] \in Events
  BY DEF CountUser, LossInvariant, WrittenBeforeMark
<1>2. WorkerTypeOK'
  BY <1>1 DEF CountUser, Goto, WorkerTypeOK, Steps, streamVars
<1>3. TypeOK'
  BY <1>2, FrameTypes DEF CountUser
<1>4. /\ \A o \in Jobs \ {j} : UNCHANGED <<pc[o], todo[o], acks[o], rows[o]>>
      /\ pc'[j] = "mark"
  BY DEF CountUser, Goto, WorkerTypeOK, tableVars
<1>5. \A m \in acks'[j] : Written(j, m)'
  BY DEF CountUser, LossInvariant, WrittenBeforeAck, Written, streamVars,
       tableVars
<1>6. ASSUME NEW k \in todo'[j], Current(j, k)'
      PROVE  body'[k.id] \in Events /\ Written(j, k.id)'
  BY <1>6 DEF CountUser, LossInvariant, WrittenBeforeMark, Written, Current,
       streamVars, tableVars
<1>7. events \subseteq events' /\ discarded \subseteq discarded'
  BY DEF CountUser, tableVars
<1>8. UNCHANGED streamVars
  BY DEF CountUser
<1>9. LossInvariant'
  BY <1>4, <1>5, <1>6, <1>7, <1>8, QuietRunStepKeepsLossInvariant
<1> QED
  BY <1>3, <1>9

LEMMA MarkWrittenKeepsInv ==
  ASSUME Inv, NEW j \in Jobs, NEW i \in todo[j], MarkWritten(j, i),
         UNCHANGED apiVars
  PROVE  Inv'
<1> USE DEF Inv, TypeOK
<1>1. body[i.id] \in Events /\ Written(j, i.id)
  BY DEF MarkWritten, LossInvariant, WrittenBeforeMark
<1>2. KeysTypeOK'
  BY <1>1 DEF MarkWritten, SetDone, KeysTypeOK
<1>3. i.id \in 1..lastDelivered
  BY DEF WorkerTypeOK, Items, StreamTypeOK
<1>4. WorkerTypeOK'
  BY <1>3 DEF MarkWritten, Goto, Drop, WorkerTypeOK, Steps, streamVars
<1>5. TypeOK'
  BY <1>2, <1>4, FrameTypes DEF MarkWritten
<1>6. /\ \A o \in Jobs \ {j} : UNCHANGED <<pc[o], todo[o], acks[o], rows[o]>>
      /\ pc'[j] = "work"
      /\ acks'[j] = acks[j] \cup {i.id}
  BY DEF MarkWritten, Goto, Drop, WorkerTypeOK, tableVars
<1>7. \A m \in acks'[j] : Written(j, m)'
  BY <1>1, <1>6 DEF MarkWritten, LossInvariant, WrittenBeforeAck, Written,
       streamVars, tableVars
<1>8. events \subseteq events' /\ discarded \subseteq discarded'
  BY DEF MarkWritten, tableVars
<1>9. UNCHANGED streamVars
  BY DEF MarkWritten
<1>10. LossInvariant'
  BY <1>6, <1>7, <1>8, <1>9, QuietRunStepKeepsLossInvariant
<1> QED
  BY <1>5, <1>10

LEMMA BuryKeepsInv ==
  ASSUME Inv, NEW j \in Jobs, NEW i \in todo[j], Bury(j, i), UNCHANGED apiVars
  PROVE  Inv'
<1> USE DEF Inv, TypeOK
<1>1. i.id \in 1..lastDelivered
  BY DEF WorkerTypeOK, Items, StreamTypeOK
<1>2. StreamTypeOK'
  BY <1>1, AfterXAddDlq DEF Bury
<1>3. WorkerTypeOK'
  BY DEF Bury, XAddDlq, Goto, WorkerTypeOK, Steps
<1>4. TypeOK'
  BY <1>2, <1>3, FrameTypes DEF Bury
<1>5. /\ \A o \in Jobs \ {j} : UNCHANGED <<pc[o], todo[o], acks[o], rows[o]>>
      /\ pc'[j] \in {"ackinvalid", "buryack"}
  BY DEF Bury, Goto, WorkerTypeOK, tableVars
<1>6. GroupBeforeDelivery' /\ DeliveriesAccountedFor'
  BY DEF Bury, XAddDlq, LossInvariant, GroupBeforeDelivery,
       DeliveriesAccountedFor, Settled, RolledBack, tableVars
<1>7. \A m \in acks'[j] : Written(j, m)'
  BY DEF Bury, XAddDlq, LossInvariant, WrittenBeforeAck, Written, tableVars
<1>8. ASSUME NEW k \in todo'[j], Current(j, k)'  PROVE k.id \in dlq'
  <2>1. k = i
    BY <1>8, CurrentIsUnique DEF Bury, Current
  <2> QED
    BY <2>1 DEF Bury, XAddDlq
<1>9. /\ UNCHANGED <<body, trimmed, group, entries, events, discarded>>
      /\ dlq \subseteq dlq'
  BY DEF Bury, XAddDlq, tableVars
<1>10. LossInvariant'
  BY <1>5, <1>6, <1>7, <1>8, <1>9, RunStepKeepsLossInvariant
<1> QED
  BY <1>4, <1>10

LEMMA BuryAckKeepsInv ==
  ASSUME Inv, NEW j \in Jobs, NEW i \in todo[j], BuryAck(j, i),
         UNCHANGED apiVars
  PROVE  Inv'
<1> USE DEF Inv, TypeOK
<1>1. StreamTypeOK'
  BY AfterXAck DEF BuryAck
<1>2. WorkerTypeOK'
  BY DEF BuryAck, Goto, Drop, WorkerTypeOK, Steps
<1>3. TypeOK'
  BY <1>1, <1>2, FrameTypes DEF BuryAck
<1>4. i.id \in dlq
  BY DEF BuryAck, LossInvariant, BuriedBeforeAck
<1>5. /\ \A o \in Jobs \ {j} : UNCHANGED <<pc[o], todo[o], acks[o], rows[o]>>
      /\ pc'[j] = "work"
  BY DEF BuryAck, Goto, Drop, WorkerTypeOK, tableVars
<1>6. GroupBeforeDelivery' /\ DeliveriesAccountedFor'
  BY <1>4 DEF BuryAck, XAck, LossInvariant, GroupBeforeDelivery,
       DeliveriesAccountedFor, Settled, RolledBack, tableVars
<1>7. \A m \in acks'[j] : Written(j, m)'
  BY DEF BuryAck, LossInvariant, WrittenBeforeAck, Written, tableVars
<1>8. /\ UNCHANGED <<body, trimmed, group, events, discarded, dlq>>
      /\ entries \subseteq entries' \cup dlq'
  BY <1>4 DEF BuryAck, tableVars
<1>9. LossInvariant'
  BY <1>5, <1>6, <1>7, <1>8, RunStepKeepsLossInvariant
<1> QED
  BY <1>3, <1>9

(* A failing XACK of dead_letter: the message is buried, acknowledged or not. *)
LEMMA XAckFailsKeepsDeliveries ==
  ASSUME Inv, NEW i, i.id \in dlq, XAckFails(i), UNCHANGED <<events, discarded>>
  PROVE  /\ StreamTypeOK'
         /\ UNCHANGED <<body, entries, trimmed, group, lastDelivered, times, dlq>>
         /\ GroupBeforeDelivery' /\ DeliveriesAccountedFor'
<1>1. UNCHANGED <<body, entries, trimmed, group, lastDelivered, times, dlq>>
  BY DEF XAckFails, streamVars
<1>2. CASE UNCHANGED streamVars
  BY <1>2, FrameTypes DEF Inv, LossInvariant, GroupBeforeDelivery,
       DeliveriesAccountedFor, Settled, RolledBack, streamVars
<1>3. CASE XAck({i.id})
  <2>1. StreamTypeOK'
    BY <1>1, <1>3, AfterXAck DEF Inv, TypeOK
  <2> QED
    BY <1>1, <1>3, <2>1 DEF XAck, Inv, LossInvariant, GroupBeforeDelivery,
         DeliveriesAccountedFor, Settled, RolledBack
<1> QED
  BY <1>1, <1>2, <1>3 DEF XAckFails

LEMMA BuryRaisesKeepsInv ==
  ASSUME Inv, NEW j \in Jobs, NEW i \in todo[j], BuryRaises(j, i), UNCHANGED apiVars
  PROVE  Inv'
<1> USE DEF Inv, TypeOK
<1>1. /\ StreamTypeOK'
      /\ UNCHANGED <<body, entries, trimmed, group, lastDelivered, dlq>>
      /\ GroupBeforeDelivery' /\ DeliveriesAccountedFor'
  <2>1. UNCHANGED <<events, discarded>>
    BY DEF BuryRaises, tableVars
  <2>2. CASE UNCHANGED streamVars
    BY <2>1, <2>2, FrameTypes DEF LossInvariant, GroupBeforeDelivery,
         DeliveriesAccountedFor, Settled, RolledBack, streamVars
  <2>3. CASE pc[j] = "ackinvalid" /\ XAckFails(i)
    <3>1. i.id \in dlq
      BY <2>3 DEF BuryRaises, LossInvariant, BuriedBeforeAck
    <3> QED
      BY <2>1, <2>3, <3>1, XAckFailsKeepsDeliveries
  <2> QED
    BY <2>2, <2>3 DEF BuryRaises
<1>2. WorkerTypeOK'
  BY <1>1 DEF BuryRaises, Goto, WorkerTypeOK, Steps
<1>3. TypeOK'
  BY <1>1, <1>2, FrameTypes DEF BuryRaises
<1>4. /\ \A o \in Jobs \ {j} : UNCHANGED <<pc[o], todo[o], acks[o], rows[o]>>
      /\ pc'[j] = "bury"
  BY DEF BuryRaises, Goto, WorkerTypeOK, tableVars
<1>5. \A m \in acks'[j] : Written(j, m)'
  BY <1>1 DEF BuryRaises, LossInvariant, WrittenBeforeAck, Written, tableVars
<1>6. events \subseteq events' /\ discarded \subseteq discarded'
  BY DEF BuryRaises, tableVars
<1>7. LossInvariant'
  BY <1>1, <1>4, <1>5, <1>6, RunStepKeepsLossInvariant
<1> QED
  BY <1>3, <1>7

LEMMA CommitBatchKeepsInv ==
  ASSUME Inv, NEW j \in Jobs, CommitBatch(j), UNCHANGED apiVars
  PROVE  Inv'
<1> USE DEF Inv, TypeOK
<1>1. j \in Sessions
  BY WorkerAssumption
<1>2. /\ TableTypeOK'
      /\ events \subseteq events'
      /\ discarded \subseteq discarded'
      /\ rows[j] \subseteq events' \cup discarded'
      /\ \A o \in Jobs \ {j} : UNCHANGED rows[o]
  BY <1>1, WorkerAssumption DEF CommitBatch, Commit, TableTypeOK
<1>3. WorkerTypeOK'
  BY DEF CommitBatch, Goto, WorkerTypeOK, Steps, streamVars
<1>4. TypeOK'
  BY <1>2, <1>3, FrameTypes DEF CommitBatch
<1>5. /\ \A o \in Jobs \ {j} : UNCHANGED <<pc[o], todo[o], acks[o], rows[o]>>
      /\ pc'[j] = "ack"
  BY <1>2 DEF CommitBatch, Goto, WorkerTypeOK
<1>6. \A m \in acks'[j] : Written(j, m)'
  BY <1>2 DEF CommitBatch, LossInvariant, WrittenBeforeAck, Written, streamVars
<1>7. /\ rows'[j] = {}
      /\ UNCHANGED <<body, trimmed, group, entries, dlq>>
  BY <1>1 DEF CommitBatch, Commit, TableTypeOK, streamVars
<1>8. GroupBeforeDelivery' /\ DeliveriesAccountedFor'
  BY <1>2 DEF CommitBatch, LossInvariant, GroupBeforeDelivery,
       DeliveriesAccountedFor, Settled, RolledBack, streamVars
<1>9. LossInvariant'
  BY <1>2, <1>5, <1>6, <1>7, <1>8, RunStepKeepsLossInvariant
<1> QED
  BY <1>4, <1>9

(* The run is over, and nothing of its list is lost from the stream. *)
LEMMA AbandonKeepsInv ==
  ASSUME Inv, NEW j \in Jobs, Abandon(j), UNCHANGED apiVars, StreamTypeOK',
         UNCHANGED <<body, entries, trimmed, group, lastDelivered, dlq>>,
         GroupBeforeDelivery', DeliveriesAccountedFor'
  PROVE  Inv'
<1> USE DEF Inv, TypeOK
<1>1. j \in Sessions
  BY WorkerAssumption
<1>2. /\ TableTypeOK'
      /\ UNCHANGED <<events, discarded>>
      /\ \A o \in Jobs \ {j} : UNCHANGED rows[o]
  BY <1>1, WorkerAssumption DEF Abandon, Rollback, TableTypeOK
<1>3. WorkerTypeOK'
  BY DEF Abandon, Goto, WorkerTypeOK, Steps
<1>4. TypeOK'
  BY <1>2, <1>3, FrameTypes DEF Abandon
<1>5. /\ \A o \in Jobs \ {j} : UNCHANGED <<pc[o], todo[o], acks[o], rows[o]>>
      /\ pc'[j] = "idle"
      /\ acks'[j] = {}
  BY <1>2 DEF Abandon, Goto, WorkerTypeOK
<1>6. LossInvariant'
  BY <1>2, <1>5, RunStepKeepsLossInvariant
<1> QED
  BY <1>4, <1>6

LEMMA QuietAbandonKeepsInv ==
  ASSUME Inv, NEW j \in Jobs, Abandon(j), UNCHANGED <<streamVars, apiVars>>
  PROVE  Inv'
<1>1. UNCHANGED <<events, discarded>>
  BY DEF Abandon, Rollback
<1>2. GroupBeforeDelivery' /\ DeliveriesAccountedFor'
  BY <1>1 DEF Inv, LossInvariant, GroupBeforeDelivery, DeliveriesAccountedFor,
       Settled, RolledBack, streamVars
<1> QED
  BY <1>2, FrameTypes, AbandonKeepsInv DEF Inv, streamVars

LEMMA BuryAckRaisesKeepsInv ==
  ASSUME Inv, NEW j \in Jobs, NEW i \in todo[j], BuryAckRaises(j, i),
         UNCHANGED apiVars
  PROVE  Inv'
<1>1. i.id \in dlq
  BY DEF BuryAckRaises, Inv, LossInvariant, BuriedBeforeAck
<1>2. UNCHANGED <<events, discarded>>
  BY DEF BuryAckRaises, Abandon, Rollback
<1> QED
  BY <1>1, <1>2, XAckFailsKeepsDeliveries, AbandonKeepsInv DEF BuryAckRaises

(* The XACK of ack_messages: run j has ended its transaction, so that what it
   has written is committed or was rolled back. *)
LEMMA AckKeepsInv ==
  ASSUME Inv, NEW j \in Jobs, Ack(j), UNCHANGED apiVars
  PROVE  Inv'
<1> USE DEF Inv, TypeOK
<1>1. StreamTypeOK'
  BY AfterXAck DEF Ack
<1>2. WorkerTypeOK'
  BY DEF Ack, Goto, WorkerTypeOK, Steps
<1>3. TypeOK'
  BY <1>1, <1>2, FrameTypes DEF Ack
<1>4. /\ \A o \in Jobs \ {j} : UNCHANGED <<pc[o], todo[o], acks[o], rows[o]>>
      /\ pc'[j] = "idle"
      /\ acks'[j] = {}
  BY DEF Ack, Goto, WorkerTypeOK, tableVars
<1>5. \A m \in acks[j] : Settled(m) \/ RolledBack(m)
  BY DEF Ack, LossInvariant, WrittenBeforeAck, CommittedBeforeAck, Written,
       Settled, RolledBack
<1>6. GroupBeforeDelivery' /\ DeliveriesAccountedFor'
  BY <1>5 DEF Ack, XAck, LossInvariant, GroupBeforeDelivery,
       DeliveriesAccountedFor, Settled, RolledBack, tableVars
<1>7. UNCHANGED <<body, trimmed, group, entries, events, discarded, dlq>>
  BY DEF Ack, tableVars
<1>8. LossInvariant'
  BY <1>4, <1>6, <1>7, RunStepKeepsLossInvariant
<1> QED
  BY <1>3, <1>8

-----------------------------------------------------------------------------
(* The theorems.                                                           *)

LEMMA JobProgressKeepsInv ==
  ASSUME Inv, NEW j \in Jobs, JobProgress(j)
  PROVE  Inv'
<1>1. CASE ReadFresh(j)
  BY <1>1, ReadFreshKeepsInv DEF JobProgress
<1>2. CASE Reclaim(j)
  BY <1>2, ReclaimKeepsInv DEF JobProgress
<1>3. CASE CountDeliveries(j)
  BY <1>3, CountDeliveriesKeepsInv DEF JobProgress
<1>4. CASE CommitBatch(j)
  BY <1>4, CommitBatchKeepsInv DEF JobProgress
<1>5. CASE CommitRaises(j)
  BY <1>5, QuietAbandonKeepsInv DEF JobProgress, CommitRaises
<1>6. CASE Ack(j)
  BY <1>6, AckKeepsInv DEF JobProgress
<1>7. ASSUME NEW i \in todo[j], Reject(j, i) \/ RejectInvalid(j, i)  PROVE Inv'
  BY <1>7, RejectKeepsInv DEF JobProgress
<1>8. ASSUME NEW i \in todo[j], UnpackRaises(j, i)  PROVE Inv'
  BY <1>8, QuietAbandonKeepsInv DEF JobProgress, UnpackRaises
<1>9. ASSUME NEW i \in todo[j], Insert(j, i) \/ Conflict(j, i)  PROVE Inv'
  BY <1>9, InsertKeepsInv DEF JobProgress
<1>10. ASSUME NEW i \in todo[j], InsertRaises(j, i)  PROVE Inv'
  BY <1>10, InsertRaisesKeepsInv DEF JobProgress
<1>11. ASSUME NEW i \in todo[j], CountUser(j, i)  PROVE Inv'
  BY <1>11, CountUserKeepsInv DEF JobProgress
<1>12. ASSUME NEW i \in todo[j], MarkWritten(j, i)  PROVE Inv'
  BY <1>12, MarkWrittenKeepsInv DEF JobProgress
<1>13. ASSUME NEW i \in todo[j], Bury(j, i)  PROVE Inv'
  BY <1>13, BuryKeepsInv DEF JobProgress
<1>14. ASSUME NEW i \in todo[j], BuryAck(j, i)  PROVE Inv'
  BY <1>14, BuryAckKeepsInv DEF JobProgress
<1> QED
  BY <1>1, <1>2, <1>3, <1>4, <1>5, <1>6, <1>7, <1>8, <1>9, <1>10, <1>11, <1>12,
     <1>13, <1>14 DEF JobProgress, Progress

LEMMA JobFailureKeepsInv ==
  ASSUME Inv, NEW j \in Jobs, JobFailure(j)
  PROVE  Inv'
<1>1. CASE ReclaimFails(j)
  BY <1>1, ReclaimFailsKeepsInv DEF JobFailure
<1>2. CASE CountFails(j)
  BY <1>2, CountFailsKeepsInv DEF JobFailure
<1>3. CASE CommandRaises(j) \/ Crash(j)
  BY <1>3, QuietAbandonKeepsInv DEF JobFailure, CommandRaises, Crash
<1>4. ASSUME NEW i \in todo[j], InsertUnreached(j, i)  PROVE Inv'
  BY <1>4, InsertRaisesKeepsInv DEF JobFailure
<1>5. ASSUME NEW i \in todo[j], MarkRaises(j, i)  PROVE Inv'
  BY <1>5, MarkRaisesKeepsInv DEF JobFailure
<1>6. ASSUME NEW i \in todo[j], BuryRaises(j, i)  PROVE Inv'
  BY <1>6, BuryRaisesKeepsInv DEF JobFailure
<1>7. ASSUME NEW i \in todo[j], BuryAckRaises(j, i)  PROVE Inv'
  BY <1>7, BuryAckRaisesKeepsInv DEF JobFailure
<1> QED
  BY <1>1, <1>2, <1>3, <1>4, <1>5, <1>6, <1>7 DEF JobFailure, Failure

LEMMA NextKeepsInv == Inv /\ [Next]_vars => Inv'
<1> SUFFICES ASSUME Inv, [Next]_vars PROVE Inv'
  OBVIOUS
<1>1. CASE StartConsumerGroup
  BY <1>1, StartConsumerGroupKeepsInv
<1>2. CASE TimePasses
  BY <1>2, TimePassesKeepsInv
<1>3. ASSUME NEW p \in Foreign, ForeignEnqueue(p)  PROVE Inv'
  BY <1>3, ForeignEnqueueKeepsInv
<1>4. ASSUME NEW e \in Events, ExpireKey(e)  PROVE Inv'
  BY <1>4, ExpireKeyKeepsInv
<1>5. ASSUME NEW j \in Jobs, JobProgress(j)  PROVE Inv'
  BY <1>5, JobProgressKeepsInv
<1>6. ASSUME NEW j \in Jobs, JobFailure(j)  PROVE Inv'
  BY <1>6, JobFailureKeepsInv
<1>7. ASSUME NEW r \in Requests, RequestStep(r)  PROVE Inv'
  BY <1>7, RequestStepKeepsInv
<1>8. CASE UNCHANGED vars
  <2>1. UNCHANGED <<streamVars, tableVars, idem, workerVars, apiVars>>
    BY <1>8 DEF vars
  <2> QED
    BY <2>1, UntouchedPipelineKeepsInv, FrameTypes DEF Inv, TypeOK
<1> QED
  BY <1>1, <1>2, <1>3, <1>4, <1>5, <1>6, <1>7, <1>8 DEF Next

LEMMA InvImpliesLossOnlyByRollback == Inv => LossOnlyByRollback
<1> SUFFICES ASSUME Inv, NEW m \in Ids
             PROVE  Safe(m) \/ m \in trimmed \/ RolledBack(m)
  BY DEF LossOnlyByRollback
<1>1. CASE m \in 1..lastDelivered
  BY <1>1 DEF Inv, LossInvariant, DeliveriesAccountedFor, Safe, Outstanding
<1>2. CASE m \notin 1..lastDelivered
  <2>1. m > lastDelivered
    BY <1>2, LenProperties DEF Inv, TypeOK, StreamTypeOK, Ids
  <2> QED
    BY <2>1 DEF Inv, LossInvariant, EntriesAccountedFor, Safe, Outstanding,
         Unread, Settled
<1> QED
  BY <1>1, <1>2

(* The inductive invariant holds in every behaviour. *)
THEOREM Invariance == Spec => []Inv
BY InitInv, NextKeepsInv, PTL DEF Spec

(* In every reachable state the variables have their types; in particular a run
   never marks or counts what is not an event, and never refers to a message
   that was not delivered. *)
THEOREM TypeCorrect == Spec => []TypeOK
<1>1. Inv => TypeOK
  BY DEF Inv
<1> QED
  BY <1>1, Invariance, PTL

(* At-least-once delivery up to trimming and silent rollbacks, for any number of
   overlapping runs, any batch size and any combination of faults: what is
   neither unread nor pending is committed, dead-lettered, trimmed by MAXLEN, or
   was discarded by the COMMIT of an aborted transaction. *)
THEOREM LossOnlyByRollbackHolds == Spec => []LossOnlyByRollback
BY Invariance, InvImpliesLossOnlyByRollback, PTL

(* What runs know of their messages stays true whatever the others do: what is
   acknowledged was written in a transaction that is over, what is closed is
   stored, buried, trimmed or discarded (tasks.py:156-177, streams.py:189-199). *)
THEOREM LossInvariantHolds == Spec => []LossInvariant
<1>1. Inv => LossInvariant
  BY DEF Inv
<1> QED
  BY <1>1, Invariance, PTL

-----------------------------------------------------------------------------
(* Dead letters: counts are never larger than the number of deliveries.    *)

(* The messages runs refer to were delivered, and delivery counts are numbers. *)
LEMMA CountTypes ==
  ASSUME Inv
  PROVE  /\ lastDelivered \in Nat
         /\ 1..lastDelivered \subseteq Ids
         /\ \A m \in Ids : times[m] \in Nat
         /\ \A j \in Jobs : claimed[j] \subseteq 1..lastDelivered
         /\ \A j \in Jobs : \A i \in todo[j] :
              i.id \in 1..lastDelivered /\ i.n \in Nat
         /\ dlq \subseteq 1..lastDelivered
         /\ MaxDeliveries \in Nat
<1>1. lastDelivered \in Nat /\ 1..lastDelivered \subseteq Ids
  BY LenProperties DEF Inv, TypeOK, StreamTypeOK, Ids
<1>2. MaxDeliveries \in Nat
  BY StreamAssumption
<1>3. \A m \in Ids : times[m] \in Nat
  BY <1>2 DEF Inv, TypeOK, StreamTypeOK
<1>4. \A j \in Jobs : \A i \in todo[j] : i.id \in 1..lastDelivered /\ i.n \in Nat
  BY <1>1, <1>2 DEF Inv, TypeOK, WorkerTypeOK, Items
<1> QED
  BY <1>1, <1>2, <1>3, <1>4 DEF Inv, TypeOK, WorkerTypeOK, StreamTypeOK

(* No count of deliveries of a delivered message decreases. *)
CountsGrow ==
  \A m \in 1..lastDelivered : times'[m] \in Nat /\ times'[m] >= times[m]

(* A step of run j keeps CountInvariant when no count of deliveries decreases,
   and j itself keeps its part. *)
LEMMA RunStepKeepsCountInvariant ==
  ASSUME Inv, CountInvariant, NEW j \in Jobs, CountsGrow,
         \A o \in Jobs \ {j} : UNCHANGED <<pc[o], todo[o], claimed[o]>>,
         \A m \in dlq' \ dlq : times'[m] >= MaxDeliveries,
         \A m \in claimed'[j] : times'[m] >= 1,
         \A i \in todo'[j] : i.n <= times'[i.id],
         \A i \in todo'[j] : Current(j, i)' /\ Burying(j)'
            => i.n >= MaxDeliveries
  PROVE  CountInvariant'
<1> USE CountTypes DEF CountInvariant, CountsGrow, Burying
<1>1. DeadLetterOnlyAfterMaxDeliveries'
  <2> SUFFICES ASSUME NEW m \in dlq'  PROVE times'[m] >= MaxDeliveries
    BY DEF DeadLetterOnlyAfterMaxDeliveries
  <2>1. CASE m \in dlq
    <3>1. times[m] >= MaxDeliveries
      BY <2>1 DEF DeadLetterOnlyAfterMaxDeliveries
    <3>2. times[m] \in Nat /\ times'[m] \in Nat /\ times'[m] >= times[m]
      BY <2>1
    <3> QED
      BY <3>1, <3>2
  <2> QED
    BY <2>1
<1>2. ASSUME NEW o \in Jobs, NEW m \in claimed'[o]  PROVE times'[m] >= 1
  <2>1. CASE o = j
    BY <1>2, <2>1
  <2>2. CASE o # j
    <3>1. m \in claimed[o] /\ m \in 1..lastDelivered /\ times[m] >= 1
      BY <1>2, <2>2
    <3>2. times[m] \in Nat /\ times'[m] \in Nat /\ times'[m] >= times[m]
      BY <3>1
    <3> QED
      BY <3>1, <3>2
  <2> QED
    BY <2>1, <2>2
<1>3. ASSUME NEW o \in Jobs, NEW i \in todo'[o]
      PROVE  /\ i.n <= times'[i.id]
             /\ Burying(o)' /\ Current(o, i)'
                  => i.n >= MaxDeliveries
  <2>1. CASE o = j
    BY <1>3, <2>1
  <2>2. CASE o # j
    <3>1. /\ i \in todo[o] /\ i.id \in 1..lastDelivered /\ i.n \in Nat
          /\ i.n <= times[i.id]
      BY <1>3, <2>2
    <3>2. /\ times[i.id] \in Nat /\ times'[i.id] \in Nat
          /\ times'[i.id] >= times[i.id]
      BY <3>1
    <3>3. Burying(o)' /\ Current(o, i)' => i.n >= MaxDeliveries
      BY <1>3, <2>2 DEF Current
    <3> QED
      BY <3>1, <3>2, <3>3
  <2> QED
    BY <2>1, <2>2
<1> QED
  BY <1>1, <1>2, <1>3

LEMMA CountsGrowOnXAdd ==
  ASSUME Inv, NEW p \in Payload, XAdd(p)
  PROVE  CountsGrow
<1>1. \A m \in Ids : times'[m] = times[m]
  BY AfterXAdd DEF Inv, TypeOK
<1> QED
  BY <1>1, CountTypes DEF CountsGrow

LEMMA QuietCountsGrow ==
  ASSUME Inv, UNCHANGED times
  PROVE  CountsGrow
BY CountTypes DEF CountsGrow

(* Steps of anybody but a run. *)
LEMMA OtherStepKeepsCountInvariant ==
  ASSUME Inv, CountInvariant, CountsGrow, UNCHANGED <<workerVars, dlq>>
  PROVE  CountInvariant'
<1> USE CountTypes DEF CountInvariant, CountsGrow, Burying, workerVars
<1>1. DeadLetterOnlyAfterMaxDeliveries'
  <2> SUFFICES ASSUME NEW m \in dlq  PROVE times'[m] >= MaxDeliveries
    BY DEF DeadLetterOnlyAfterMaxDeliveries
  <2>1. times[m] \in Nat /\ times'[m] \in Nat /\ times'[m] >= times[m]
    OBVIOUS
  <2>2. times[m] >= MaxDeliveries
    BY DEF DeadLetterOnlyAfterMaxDeliveries
  <2> QED
    BY <2>1, <2>2
<1>2. ASSUME NEW o \in Jobs, NEW m \in claimed[o]  PROVE times'[m] >= 1
  <2>1. times[m] >= 1 /\ m \in 1..lastDelivered
    OBVIOUS
  <2>2. times[m] \in Nat /\ times'[m] \in Nat /\ times'[m] >= times[m]
    BY <2>1
  <2> QED
    BY <2>1, <2>2
<1>3. ASSUME NEW o \in Jobs, NEW i \in todo[o]
      PROVE  /\ i.n <= times'[i.id]
             /\ Burying(o) /\ Current(o, i)
                  => i.n >= MaxDeliveries
  <2>1. i.n <= times[i.id] /\ i.id \in 1..lastDelivered /\ i.n \in Nat
    OBVIOUS
  <2>2. /\ times[i.id] \in Nat /\ times'[i.id] \in Nat
        /\ times'[i.id] >= times[i.id]
    BY <2>1
  <2> QED
    BY <2>1, <2>2
<1> QED
  BY <1>1, <1>2, <1>3 DEF Current

(* Steps in which a run neither delivers nor dead-letters. *)
LEMMA QuietRunStepKeepsCountInvariant ==
  ASSUME Inv, CountInvariant, NEW j \in Jobs,
         UNCHANGED <<times, dlq>>,
         \A o \in Jobs \ {j} : UNCHANGED <<pc[o], todo[o], claimed[o]>>,
         claimed'[j] \subseteq claimed[j],
         todo'[j] \subseteq todo[j],
         \A i \in todo'[j] : Current(j, i)' /\ Burying(j)'
            => i.n >= MaxDeliveries
  PROVE  CountInvariant'
<1>1. CountsGrow
  BY QuietCountsGrow
<1>2. \A m \in claimed'[j] : times'[m] >= 1
  BY DEF CountInvariant
<1>3. \A i \in todo'[j] : i.n <= times'[i.id]
  BY DEF CountInvariant
<1> QED
  BY <1>1, <1>2, <1>3, RunStepKeepsCountInvariant

LEMMA GiveUpOrLeaveKeepsCountInvariant ==
  ASSUME Inv, CountInvariant, NEW j \in Jobs, NEW i \in todo[j],
         NEW burial \in {"buryinvalid", "bury"}, GiveUpOrLeave(j, i, burial),
         Current(j, i), UNCHANGED <<claimed, times, dlq>>
  PROVE  CountInvariant'
<1> USE DEF Inv, TypeOK
<1>1. /\ \A o \in Jobs \ {j} : UNCHANGED <<pc[o], todo[o], claimed[o]>>
      /\ todo'[j] \subseteq todo[j]
  BY DEF GiveUpOrLeave, Goto, Drop, WorkerTypeOK
<1>2. ASSUME NEW k \in todo'[j], Current(j, k)', Burying(j)'
      PROVE  k.n >= MaxDeliveries
  <2>1. i.n >= MaxDeliveries /\ UNCHANGED todo
    BY <1>2 DEF GiveUpOrLeave, Goto, WorkerTypeOK, Burying
  <2>2. k = i
    BY <1>2, <2>1, CurrentIsUnique DEF Current
  <2> QED
    BY <2>1, <2>2
<1> QED
  BY <1>1, <1>2, QuietRunStepKeepsCountInvariant

LEMMA ReadFreshKeepsCountInvariant ==
  ASSUME Inv, CountInvariant, NEW j \in Jobs, ReadFresh(j)
  PROVE  CountInvariant'
<1> USE DEF Inv, TypeOK
<1>1. /\ Fresh \subseteq (1..lastDelivered') \ (1..lastDelivered)
      /\ \A m \in Fresh : times'[m] = 1
      /\ \A m \in Ids \ Fresh : times'[m] = times[m]
      /\ UNCHANGED dlq
  BY AfterXReadGroup DEF ReadFresh
<1>2. \A m \in 1..lastDelivered : times'[m] = times[m] /\ times[m] \in Nat
  BY <1>1, CountTypes
<1>3. CountsGrow
  BY <1>2 DEF CountsGrow
<1>4. /\ \A o \in Jobs \ {j} : UNCHANGED <<pc[o], todo[o], claimed[o]>>
      /\ ~Burying(j)'
      /\ claimed' = claimed
      /\ todo'[j] = {[id |-> m, n |-> 1, again |-> FALSE] : m \in Fresh}
  BY DEF ReadFresh, Goto, WorkerTypeOK, Burying
<1>5. ASSUME NEW i \in todo'[j]  PROVE i.n <= times'[i.id]
  <2>1. PICK m \in Fresh : i = [id |-> m, n |-> 1, again |-> FALSE]
    BY <1>4, <1>5
  <2>2. i.n = 1 /\ times'[i.id] = 1
    BY <1>1, <2>1
  <2> QED
    BY <2>2
<1>6. \A m \in claimed'[j] : times'[m] >= 1
  <2> SUFFICES ASSUME NEW m \in claimed[j]  PROVE times'[m] >= 1
    BY <1>4
  <2>1. m \in 1..lastDelivered /\ times[m] >= 1
    BY CountTypes DEF CountInvariant
  <2> QED
    BY <1>2, <2>1
<1> QED
  BY <1>1, <1>3, <1>4, <1>5, <1>6, RunStepKeepsCountInvariant

LEMMA XAutoClaimKeepsCountInvariant ==
  ASSUME Inv, CountInvariant, NEW j \in Jobs, XAutoClaim, UNCHANGED todo,
         NEW C \in SUBSET Reclaimed, claimed' = [claimed EXCEPT ![j] = C],
         NEW step \in {"count", "idle", "work"}, Goto(j, step)
  PROVE  CountInvariant'
<1> USE DEF Inv, TypeOK
<1>1. /\ StreamTypeOK'
      /\ UNCHANGED <<body, dlq>>
      /\ \A m \in Ids : times'[m] >= times[m]
      /\ \A m \in Reclaimed : times'[m] >= 1
  BY AfterXAutoClaim
<1>2. \A m \in Ids : times'[m] \in Nat
  BY <1>1, StreamAssumption DEF StreamTypeOK, Ids
<1>3. CountsGrow
  BY <1>1, <1>2, CountTypes DEF CountsGrow
<1>4. /\ \A o \in Jobs \ {j} : UNCHANGED <<pc[o], todo[o], claimed[o]>>
      /\ ~Burying(j)'
      /\ claimed'[j] \subseteq Reclaimed
      /\ todo' = todo
  BY DEF Goto, WorkerTypeOK, Burying
<1>5. ASSUME NEW i \in todo'[j]  PROVE i.n <= times'[i.id]
  <2>1. /\ i.n <= times[i.id] /\ i.n \in Nat /\ times[i.id] \in Nat
        /\ times'[i.id] \in Nat /\ times'[i.id] >= times[i.id]
    BY <1>3, <1>4, <1>5, CountTypes DEF CountInvariant, CountsGrow
  <2> QED
    BY <2>1
<1> QED
  BY <1>1, <1>3, <1>4, <1>5, RunStepKeepsCountInvariant

LEMMA ReclaimKeepsCountInvariant ==
  ASSUME Inv, CountInvariant, NEW j \in Jobs, Reclaim(j)
  PROVE  CountInvariant'
BY XAutoClaimKeepsCountInvariant DEF Reclaim

LEMMA EnterLoopKeepsCountInvariant ==
  ASSUME Inv, CountInvariant, NEW j \in Jobs, NEW work, EnterLoop(j, work),
         \A i \in work : i.n <= times[i.id], UNCHANGED <<times, dlq>>
  PROVE  CountInvariant'
<1>1. /\ \A o \in Jobs \ {j} : UNCHANGED <<pc[o], todo[o], claimed[o]>>
      /\ ~Burying(j)'
      /\ claimed'[j] = {}
      /\ todo'[j] = work
  BY DEF EnterLoop, Goto, Inv, TypeOK, WorkerTypeOK, Burying
<1> QED
  BY <1>1, QuietCountsGrow, RunStepKeepsCountInvariant

LEMMA CountKeepsCountInvariant ==
  ASSUME Inv, CountInvariant, NEW j \in Jobs, NEW counts, Count(j, counts),
         \A m \in claimed[j] : counts[m] <= times[m]
  PROVE  CountInvariant'
<1> DEFINE work == todo[j] \cup
      {[id |-> m, n |-> counts[m], again |-> TRUE] : m \in claimed[j]}
<1>1. ASSUME NEW i \in work  PROVE i.n <= times[i.id]
  <2>1. CASE i \in todo[j]
    BY <2>1 DEF CountInvariant
  <2>2. CASE i \notin todo[j]
    <3>1. PICK m \in claimed[j] : i = [id |-> m, n |-> counts[m], again |-> TRUE]
      BY <2>2
    <3> QED
      BY <3>1
  <2> QED
    BY <2>1, <2>2
<1>2. EnterLoop(j, work) /\ UNCHANGED <<times, dlq>>
  BY DEF Count, streamVars
<1> HIDE DEF work
<1> QED
  BY <1>1, <1>2, EnterLoopKeepsCountInvariant

LEMMA CountDeliveriesKeepsCountInvariant ==
  ASSUME Inv, CountInvariant, NEW j \in Jobs, CountDeliveries(j)
  PROVE  CountInvariant'
<1> DEFINE counts == [m \in claimed[j] |-> DeliveryCount(m)]
<1>1. ASSUME NEW m \in claimed[j]  PROVE counts[m] <= times[m]
  <2>1. times[m] \in Nat /\ times[m] >= 1
    BY CountTypes DEF CountInvariant
  <2> QED
    BY <2>1 DEF DeliveryCount
<1>2. Count(j, counts)
  BY DEF CountDeliveries
<1> HIDE DEF counts
<1> QED
  BY <1>1, <1>2, CountKeepsCountInvariant

LEMMA CountFailsKeepsCountInvariant ==
  ASSUME Inv, CountInvariant, NEW j \in Jobs, CountFails(j)
  PROVE  CountInvariant'
<1> DEFINE counts == [m \in claimed[j] |-> 1]
<1>1. \A m \in claimed[j] : counts[m] <= times[m]
  BY CountTypes DEF CountInvariant
<1>2. Count(j, counts)
  BY DEF CountFails
<1> HIDE DEF counts
<1> QED
  BY <1>1, <1>2, CountKeepsCountInvariant

LEMMA ReclaimFailsKeepsCountInvariant ==
  ASSUME Inv, CountInvariant, NEW j \in Jobs, ReclaimFails(j)
  PROVE  CountInvariant'
<1>1. CASE UNCHANGED streamVars
  BY <1>1, EnterLoopKeepsCountInvariant
     DEF ReclaimFails, CountInvariant, streamVars
<1>2. CASE XAutoClaim
  <2>1. UNCHANGED todo
    BY DEF ReclaimFails, EnterLoop, Inv, TypeOK, WorkerTypeOK
  <2>2. PICK step \in {"idle", "work"} : Goto(j, step)
    BY DEF ReclaimFails, EnterLoop
  <2>3. claimed' = [claimed EXCEPT ![j] = {}] /\ {} \in SUBSET Reclaimed
    BY DEF ReclaimFails, EnterLoop
  <2> QED
    BY <1>2, <2>1, <2>2, <2>3, XAutoClaimKeepsCountInvariant DEF ReclaimFails
<1> QED
  BY <1>1, <1>2 DEF ReclaimFails

(* The steps between the start of the loop and its end that lead neither into
   dead_letter nor out of it. *)
LEMMA LoopStepKeepsCountInvariant ==
  ASSUME Inv, CountInvariant, NEW j \in Jobs,
         \/ \E i \in todo[j] : \/ Insert(j, i) \/ Conflict(j, i)
                               \/ CountUser(j, i) \/ MarkWritten(j, i)
                               \/ BuryAck(j, i)
         \/ CommitBatch(j) \/ Ack(j)
         \/ Abandon(j) /\ UNCHANGED <<times, dlq>>
  PROVE  CountInvariant'
<1>1. /\ \A o \in Jobs \ {j} : UNCHANGED <<pc[o], todo[o], claimed[o]>>
      /\ claimed'[j] \subseteq claimed[j]
      /\ todo'[j] \subseteq todo[j]
      /\ ~Burying(j)'
  BY DEF Insert, Conflict, CountUser, MarkWritten, BuryAck, CommitBatch, Ack,
       Abandon, Goto, Drop, Inv, TypeOK, WorkerTypeOK, Burying
<1>2. UNCHANGED <<times, dlq>>
  BY DEF Insert, Conflict, CountUser, MarkWritten, BuryAck, CommitBatch, Ack,
       streamVars
<1> QED
  BY <1>1, <1>2, QuietRunStepKeepsCountInvariant

LEMMA BuryKeepsCountInvariant ==
  ASSUME Inv, CountInvariant, NEW j \in Jobs, NEW i \in todo[j], Bury(j, i)
  PROVE  CountInvariant'
<1>1. i.n >= MaxDeliveries /\ i.n <= times[i.id]
  BY DEF Bury, CountInvariant, Burying
<1>2. times[i.id] >= MaxDeliveries
  BY <1>1, CountTypes
<1>3. /\ \A o \in Jobs \ {j} : UNCHANGED <<pc[o], todo[o], claimed[o]>>
      /\ UNCHANGED <<times, claimed, todo>>
      /\ dlq' = dlq \cup {i.id}
  BY DEF Bury, XAddDlq, Goto, Inv, TypeOK, WorkerTypeOK
<1>4. ASSUME NEW k \in todo'[j], Current(j, k)'  PROVE k.n >= MaxDeliveries
  <2>1. k = i
    BY <1>3, <1>4, CurrentIsUnique DEF Bury, Current, Inv
  <2> QED
    BY <1>1, <2>1
<1>5. \A m \in claimed'[j] : times'[m] >= 1
  BY <1>3 DEF CountInvariant
<1>6. \A k \in todo'[j] : k.n <= times'[k.id]
  BY <1>3 DEF CountInvariant
<1> QED
  BY <1>2, <1>3, <1>4, <1>5, <1>6, QuietCountsGrow, RunStepKeepsCountInvariant

(* dead_letter is called again: the limit is reached as before. *)
LEMMA BuryRaisesKeepsCountInvariant ==
  ASSUME Inv, CountInvariant, NEW j \in Jobs, NEW i \in todo[j], BuryRaises(j, i)
  PROVE  CountInvariant'
<1>1. i.n >= MaxDeliveries
  BY DEF BuryRaises, CountInvariant, Burying
<1>2. /\ \A o \in Jobs \ {j} : UNCHANGED <<pc[o], todo[o], claimed[o]>>
      /\ UNCHANGED <<claimed, todo>>
  BY DEF BuryRaises, Goto, Inv, TypeOK, WorkerTypeOK
<1>3. UNCHANGED <<times, dlq>>
  BY DEF BuryRaises, XAckFails, streamVars
<1>4. ASSUME NEW k \in todo'[j], Current(j, k)'  PROVE k.n >= MaxDeliveries
  <2>1. k = i
    BY <1>2, <1>4, CurrentIsUnique DEF BuryRaises, Current, Inv
  <2> QED
    BY <1>1, <2>1
<1> QED
  BY <1>2, <1>3, <1>4, QuietRunStepKeepsCountInvariant

LEMMA JobProgressKeepsCountInvariant ==
  ASSUME Inv, CountInvariant, NEW j \in Jobs, JobProgress(j)
  PROVE  CountInvariant'
<1>1. CASE ReadFresh(j)
  BY <1>1, ReadFreshKeepsCountInvariant
<1>2. CASE Reclaim(j)
  BY <1>2, ReclaimKeepsCountInvariant
<1>3. CASE CountDeliveries(j)
  BY <1>3, CountDeliveriesKeepsCountInvariant
<1>4. CASE CommitBatch(j) \/ CommitRaises(j) \/ Ack(j)
  BY <1>4, LoopStepKeepsCountInvariant DEF CommitRaises, streamVars
<1>5. ASSUME NEW i \in todo[j],
             Reject(j, i) \/ RejectInvalid(j, i) \/ InsertRaises(j, i)
      PROVE  CountInvariant'
  BY <1>5, GiveUpOrLeaveKeepsCountInvariant
     DEF Reject, RejectInvalid, InsertRaises, AtItem, streamVars
<1>6. ASSUME NEW i \in todo[j], UnpackRaises(j, i)  PROVE CountInvariant'
  BY <1>6, LoopStepKeepsCountInvariant DEF UnpackRaises, streamVars
<1>7. ASSUME NEW i \in todo[j],
             \/ Insert(j, i) \/ Conflict(j, i) \/ CountUser(j, i)
             \/ MarkWritten(j, i) \/ BuryAck(j, i)
      PROVE  CountInvariant'
  BY <1>7, LoopStepKeepsCountInvariant
<1>8. ASSUME NEW i \in todo[j], Bury(j, i)  PROVE CountInvariant'
  BY <1>8, BuryKeepsCountInvariant
<1> QED
  BY <1>1, <1>2, <1>3, <1>4, <1>5, <1>6, <1>7, <1>8 DEF JobProgress, Progress

LEMMA JobFailureKeepsCountInvariant ==
  ASSUME Inv, CountInvariant, NEW j \in Jobs, JobFailure(j)
  PROVE  CountInvariant'
<1>1. CASE ReclaimFails(j)
  BY <1>1, ReclaimFailsKeepsCountInvariant
<1>2. CASE CountFails(j)
  BY <1>2, CountFailsKeepsCountInvariant
<1>3. CASE CommandRaises(j) \/ Crash(j)
  BY <1>3, LoopStepKeepsCountInvariant DEF CommandRaises, Crash, streamVars
<1>4. ASSUME NEW i \in todo[j], InsertUnreached(j, i) \/ MarkRaises(j, i)
      PROVE  CountInvariant'
  BY <1>4, GiveUpOrLeaveKeepsCountInvariant
     DEF InsertUnreached, MarkRaises, AtItem, streamVars
<1>5. ASSUME NEW i \in todo[j], BuryRaises(j, i)  PROVE CountInvariant'
  BY <1>5, BuryRaisesKeepsCountInvariant
<1>6. ASSUME NEW i \in todo[j], BuryAckRaises(j, i)  PROVE CountInvariant'
  BY <1>6, LoopStepKeepsCountInvariant DEF BuryAckRaises, XAckFails, streamVars
<1> QED
  BY <1>1, <1>2, <1>3, <1>4, <1>5, <1>6 DEF JobFailure, Failure

LEMMA NextKeepsCountInvariant ==
  Inv /\ CountInvariant /\ [Next]_vars => CountInvariant'
<1> SUFFICES ASSUME Inv, CountInvariant, [Next]_vars PROVE CountInvariant'
  OBVIOUS
<1>1. CASE StartConsumerGroup
  BY <1>1, QuietCountsGrow, OtherStepKeepsCountInvariant
     DEF StartConsumerGroup, EnsureGroup
<1>2. CASE TimePasses
  BY <1>2, QuietCountsGrow, OtherStepKeepsCountInvariant DEF TimePasses, Tick
<1>3. ASSUME NEW p \in Foreign, ForeignEnqueue(p)  PROVE CountInvariant'
  <2>1. p \in Payload /\ XAdd(p) /\ UNCHANGED <<workerVars, dlq>>
    BY <1>3, ForeignAssumption DEF ForeignEnqueue, XAdd, Payload
  <2> QED
    BY <2>1, CountsGrowOnXAdd, OtherStepKeepsCountInvariant
<1>4. ASSUME NEW e \in Events, ExpireKey(e)  PROVE CountInvariant'
  BY <1>4, QuietCountsGrow, OtherStepKeepsCountInvariant DEF ExpireKey, streamVars
<1>5. ASSUME NEW j \in Jobs, JobProgress(j) \/ JobFailure(j)
      PROVE  CountInvariant'
  BY <1>5, JobProgressKeepsCountInvariant, JobFailureKeepsCountInvariant
<1>6. ASSUME NEW r \in Requests, RequestStep(r)  PROVE CountInvariant'
  <2>1. UNCHANGED workerVars
    BY <1>6 DEF RequestStep
  <2>2. CASE UNCHANGED streamVars
    BY <2>1, <2>2, QuietCountsGrow, OtherStepKeepsCountInvariant DEF streamVars
  <2>3. ASSUME NEW e \in Events, Enqueue(r, e)  PROVE CountInvariant'
    <3>1. e \in Payload /\ XAdd(e) /\ UNCHANGED dlq
      BY <2>3 DEF Enqueue, XAdd, Payload
    <3> QED
      BY <2>1, <3>1, CountsGrowOnXAdd, OtherStepKeepsCountInvariant
  <2> QED
    BY <1>6, <2>2, <2>3 DEF RequestStep, ApiStep, Serve, Receive, ClaimNew,
         Deduplicate, Respond, RequestFails
<1>7. CASE UNCHANGED vars
  <2>1. UNCHANGED <<workerVars, times, dlq>>
    BY <1>7 DEF vars, streamVars
  <2> QED
    BY <2>1, QuietCountsGrow, OtherStepKeepsCountInvariant
<1> QED
  BY <1>1, <1>2, <1>3, <1>4, <1>5, <1>6, <1>7 DEF Next

LEMMA InitCountInvariant == Init => CountInvariant
BY DEF Init, StreamInit, WorkerInit, CountInvariant,
     DeadLetterOnlyAfterMaxDeliveries

(* A run never believes in more deliveries of a message than there were, although
   it asks for the count after it has claimed the message (streams.py:123-143). *)
THEOREM CountInvariantHolds == Spec => []CountInvariant
BY InitCountInvariant, NextKeepsCountInvariant, Invariance, PTL DEF Spec

(* No message is dead-lettered before Redis has delivered it as often as the
   settings allow, for any number of overlapping runs and any faults. *)
THEOREM DeadLetterOnlyAfterMaxDeliveriesHolds ==
  Spec => []DeadLetterOnlyAfterMaxDeliveries
<1>1. CountInvariant => DeadLetterOnlyAfterMaxDeliveries
  BY DEF CountInvariant
<1> QED
  BY <1>1, CountInvariantHolds, PTL

-----------------------------------------------------------------------------
(* Runs advance. *)
LEMMA Places ==
  /\ Place("claim") = 1 /\ Place("count") = 2 /\ Place("work") = 3
  /\ Place("inserted") = 4 /\ Place("mark") = 5
  /\ Place("buryinvalid") = 6 /\ Place("ackinvalid") = 7
  /\ Place("bury") = 8 /\ Place("buryack") = 9 /\ Place("ack") = 10
BY DEF Place

(* A message is given up for good, or left for another run. *)
LEMMA GiveUpOrLeaveAdvances ==
  ASSUME TypeOK, NEW j \in Jobs, NEW i \in todo[j],
         pc[j] \in {"work", "inserted", "mark"},
         NEW burial \in {"buryinvalid", "bury"}, GiveUpOrLeave(j, i, burial)
  PROVE  Advances(j)
<1> USE DEF GiveUpOrLeave, Goto, Drop, TypeOK, WorkerTypeOK
<1>1. CASE pc'[j] = burial /\ UNCHANGED todo
  BY <1>1, Places DEF Advances
<1>2. CASE pc'[j] = "work" /\ todo'[j] = todo[j] \ {i}
  BY <1>2 DEF Advances, InLoop
<1> QED
  BY <1>1, <1>2

LEMMA EnterLoopAdvances ==
  ASSUME TypeOK, NEW j \in Jobs, pc[j] \in {"claim", "count"},
         NEW work, EnterLoop(j, work)
  PROVE  Advances(j)
<1>1. pc'[j] \in {"idle", "work"}
  BY DEF EnterLoop, Goto, TypeOK, WorkerTypeOK
<1> QED
  BY <1>1, Places DEF Advances, InLoop

LEMMA RunStepAdvances ==
  ASSUME TypeOK, NEW j \in Jobs, pc[j] # "idle", JobProgress(j) \/ JobFailure(j)
  PROVE  Advances(j)
<1> USE DEF TypeOK, WorkerTypeOK, Goto
<1>1. CASE Reclaim(j)
  BY <1>1, Places DEF Reclaim, Advances, InLoop
<1>2. CASE CountDeliveries(j) \/ CountFails(j) \/ ReclaimFails(j)
  BY <1>2, EnterLoopAdvances DEF CountDeliveries, CountFails, Count, ReclaimFails
<1>3. CASE CommitBatch(j)
  BY <1>3, Places DEF CommitBatch, Advances
<1>4. CASE Ack(j)
  BY <1>4 DEF Ack, Advances
<1>5. CASE Abandon(j)
  BY <1>5 DEF Abandon, Advances
<1>6. ASSUME NEW i \in todo[j],
             \/ Reject(j, i) \/ RejectInvalid(j, i) \/ InsertRaises(j, i)
             \/ InsertUnreached(j, i) \/ MarkRaises(j, i)
      PROVE  Advances(j)
  <2>1. /\ pc[j] \in {"work", "inserted", "mark"}
        /\ \E burial \in {"buryinvalid", "bury"} : GiveUpOrLeave(j, i, burial)
    BY <1>6 DEF Reject, RejectInvalid, InsertRaises, InsertUnreached, MarkRaises, AtItem
  <2> QED
    BY <2>1, GiveUpOrLeaveAdvances
<1>7. ASSUME NEW i \in todo[j], Insert(j, i) \/ Conflict(j, i)
      PROVE  Advances(j)
  BY <1>7, Places DEF Insert, Conflict, AtItem, Advances
<1>8. ASSUME NEW i \in todo[j], CountUser(j, i) \/ Bury(j, i) \/ BuryRaises(j, i)
      PROVE  Advances(j)
  BY <1>8, Places DEF CountUser, Bury, BuryRaises, Advances
<1>9. ASSUME NEW i \in todo[j], MarkWritten(j, i) \/ BuryAck(j, i)
      PROVE  Advances(j)
  <2>1. pc[j] \in {"mark", "ackinvalid", "buryack"} /\ pc'[j] = "work" /\ todo'[j] = todo[j] \ {i}
    BY <1>9 DEF MarkWritten, BuryAck, Drop
  <2> QED
    BY <2>1 DEF Advances, InLoop
<1>10. ~ReadFresh(j)
  BY DEF ReadFresh
<1>11. CASE JobProgress(j)
  BY <1>1, <1>2, <1>3, <1>4, <1>5, <1>6, <1>7, <1>8, <1>9, <1>10, <1>11
     DEF JobProgress, Progress, CommitRaises, UnpackRaises
<1>12. CASE JobFailure(j)
  BY <1>2, <1>5, <1>6, <1>8, <1>12
     DEF JobFailure, Failure, CommandRaises, BuryAckRaises, Crash
<1> QED
  BY <1>11, <1>12

(* A run has a list of its own. *)
LEMMA OtherRunsStay ==
  ASSUME TypeOK, NEW o \in Jobs, JobProgress(o) \/ JobFailure(o),
         NEW j \in Jobs, j # o
  PROVE  UNCHANGED <<pc[j], todo[j]>>
<1> USE DEF TypeOK, WorkerTypeOK, Goto, Drop
<1>1. CASE ReadFresh(o) \/ Reclaim(o)
  BY <1>1 DEF ReadFresh, Reclaim
<1>2. CASE CountDeliveries(o) \/ CountFails(o) \/ ReclaimFails(o)
  BY <1>2 DEF CountDeliveries, CountFails, Count, ReclaimFails, EnterLoop
<1>3. CASE CommitBatch(o) \/ Ack(o) \/ Abandon(o)
  BY <1>3 DEF CommitBatch, Ack, Abandon
<1>4. ASSUME NEW i \in todo[o],
             \/ Reject(o, i) \/ RejectInvalid(o, i) \/ InsertRaises(o, i)
             \/ InsertUnreached(o, i) \/ MarkRaises(o, i)
      PROVE  UNCHANGED <<pc[j], todo[j]>>
  BY <1>4 DEF Reject, RejectInvalid, InsertRaises, InsertUnreached, MarkRaises, GiveUpOrLeave
<1>5. ASSUME NEW i \in todo[o],
             Insert(o, i) \/ Conflict(o, i) \/ CountUser(o, i) \/ MarkWritten(o, i)
      PROVE  UNCHANGED <<pc[j], todo[j]>>
  BY <1>5 DEF Insert, Conflict, CountUser, MarkWritten
<1>6. ASSUME NEW i \in todo[o], Bury(o, i) \/ BuryAck(o, i) \/ BuryRaises(o, i)
      PROVE  UNCHANGED <<pc[j], todo[j]>>
  BY <1>6 DEF Bury, BuryAck, BuryRaises
<1>7. CASE JobProgress(o)
  BY <1>1, <1>2, <1>3, <1>4, <1>5, <1>6, <1>7
     DEF JobProgress, Progress, CommitRaises, UnpackRaises
<1>8. CASE JobFailure(o)
  BY <1>2, <1>3, <1>4, <1>6, <1>8
     DEF JobFailure, Failure, CommandRaises, BuryAckRaises, Crash
<1> QED
  BY <1>7, <1>8

(* Every step of a run brings it nearer to its end, with any number of runs and
   every fault, and no step of another takes it back (tasks.py:93-194): what
   remains of RunsEnd is that no run waits for ever. *)
THEOREM RunsAdvanceHolds == Spec => RunsAdvance
<1>1. ASSUME TypeOK, Next, NEW j \in Jobs, ~(JobProgress(j) \/ JobFailure(j))
      PROVE  UNCHANGED <<pc[j], todo[j]>>
  <2>1. CASE UNCHANGED workerVars
    BY <2>1 DEF workerVars
  <2>2. ASSUME NEW o \in Jobs, JobProgress(o) \/ JobFailure(o)
        PROVE  UNCHANGED <<pc[j], todo[j]>>
    BY <1>1, <2>2, OtherRunsStay
  <2> QED
    BY <1>1, <2>1, <2>2
       DEF Next, StartConsumerGroup, TimePasses, ForeignEnqueue, ExpireKey, RequestStep
<1>2. ASSUME TypeOK, [Next]_vars
      PROVE  [\A j \in Jobs : pc[j] # "idle" =>
                IF JobProgress(j) \/ JobFailure(j) THEN Advances(j)
                ELSE UNCHANGED <<pc[j], todo[j]>>]_vars
  BY <1>1, <1>2, RunStepAdvances
<1> QED
  BY <1>2, TypeCorrect, PTL DEF Spec, RunsAdvance

=============================================================================
