--------------------------- MODULE DeliveryProofs ---------------------------
(***************************************************************************)
(* The pipeline implements EventDelivery as long as MAXLEN trims nothing   *)
(* and no COMMIT discards rows, whichever runs overlap, fail or crash.     *)
(***************************************************************************)
EXTENDS EventPipelineProofs

(* Neither of the two leaks of the pipeline has opened. *)
NoLeak == trimmed = {} /\ discarded = {}

(* An event that a working transaction has inserted is new to the table, no other
   working transaction has inserted it, and its message is pending or dead. *)
RowsInv ==
  \A j \in Jobs :
    /\ tx[j] = "none" => rows[j] = {}
    /\ tx[j] = "open" => \A e \in rows[j] :
         /\ e \notin events
         /\ \A o \in Jobs \ {j} : tx[o] = "open" => e \notin rows[o]
         /\ \E m \in pel \cup dlq : body[m] = e

-----------------------------------------------------------------------------
(* A message whose entry is gone is dead. *)
LEMMA GoneIsDead ==
  ASSUME Inv, NoLeak, NEW m \in Ids, m \notin entries
  PROVE  m \in dlq
BY DEF Inv, LossInvariant, EntriesAccountedFor, NoLeak

LEMMA ClaimKeepsOpen ==
  ASSUME Inv, NoLeak, XAutoClaim
  PROVE  /\ UNCHANGED <<body, entries, lastDelivered, dlq>>
         /\ pel' \subseteq pel /\ pel \ pel' \subseteq dlq
         /\ Reclaimed \subseteq pel'
<1>1. UNCHANGED <<body, entries, lastDelivered, dlq>>
      /\ pel' = (pel \ Claimable) \cup Reclaimed
  BY DEF XAutoClaim
<1>2. \A m \in pel \ pel' : m \notin entries
  BY AfterXAutoClaim DEF Inv, TypeOK
<1>3. pel \subseteq Ids
  BY LenProperties DEF Inv, TypeOK, StreamTypeOK, Ids
<1>4. Reclaimed \subseteq pel
  BY DEF Reclaimed, Claimable, Lowest
<1> QED
  BY <1>1, <1>2, <1>3, <1>4, GoneIsDead

(* A step that inserts nothing, and closes no message that is not stored or dead. *)
LEMMA RowsRule ==
  ASSUME Inv, RowsInv, NEW j \in Jobs, UNCHANGED events,
         \A m \in Ids : body'[m] = body[m],
         \A m \in pel : m \in pel' \cup dlq' \/ body[m] \in events,
         dlq \subseteq dlq', rows'[j] \subseteq rows[j],
         tx'[j] = "open" => tx[j] = "open" \/ rows[j] = {},
         tx'[j] = "none" => rows'[j] = {},
         \A o \in Jobs \ {j} : UNCHANGED <<tx[o], rows[o]>>
  PROVE  RowsInv'
<1>1. pel \cup dlq \subseteq Ids
  BY LenProperties DEF Inv, TypeOK, StreamTypeOK, Ids
<1>2. ASSUME NEW e, e \notin events, \E m \in pel \cup dlq : body[m] = e
      PROVE  \E m \in pel' \cup dlq' : body'[m] = e
  BY <1>1, <1>2
<1>3. ASSUME NEW o \in Jobs, tx'[o] = "open", NEW e \in rows'[o]
      PROVE  tx[o] = "open" /\ e \in rows[o]
  BY <1>3
<1>4. ASSUME NEW o \in Jobs, tx'[o] = "open", NEW e \in rows'[o]
      PROVE  /\ e \notin events'
             /\ \A p \in Jobs \ {o} : tx'[p] = "open" => e \notin rows'[p]
             /\ \E m \in pel' \cup dlq' : body'[m] = e
  <2>1. /\ e \notin events
        /\ \A p \in Jobs \ {o} : tx[p] = "open" => e \notin rows[p]
        /\ \E m \in pel \cup dlq : body[m] = e
    BY <1>3, <1>4 DEF RowsInv
  <2> QED
    BY <1>2, <1>3, <2>1
<1>5. \A o \in Jobs : tx'[o] = "none" => rows'[o] = {}
  BY DEF RowsInv
<1> QED
  BY <1>4, <1>5 DEF RowsInv

LEMMA RowsAside ==
  ASSUME Inv, RowsInv, UNCHANGED <<events, tx, rows, pel, dlq>>,
         \A m \in Ids : body'[m] = body[m]
  PROVE  RowsInv'
<1>1. pel \cup dlq \subseteq Ids
  BY LenProperties DEF Inv, TypeOK, StreamTypeOK, Ids
<1> QED
  BY <1>1 DEF RowsInv

(* INSERT returns a row: the message is not acknowledged yet, or it is dead. *)
LEMMA InsertKeepsRows ==
  ASSUME Inv, NoLeak, RowsInv, NEW j \in Jobs, NEW i \in todo[j], Insert(j, i)
  PROVE  RowsInv'
<1> USE WorkerAssumption DEF Inv, TypeOK, WorkerTypeOK, TableTypeOK
<1>1. PICK e \in Events : AtItem(j, i, e) /\ InsertRow(j, e)
  BY DEF Insert
<1>2. /\ UNCHANGED <<body, pel, dlq, events>> /\ body[i.id] = e
      /\ rows' = [rows EXCEPT ![j] = @ \cup {e}] /\ tx' = [tx EXCEPT ![j] = "open"]
      /\ tx[j] \in {"none", "open"} /\ e \notin events
  BY <1>1 DEF Insert, InsertRow, AtItem, Usable, streamVars
<1>3. \A o \in Jobs \ {j} : tx[o] = "open" => e \notin rows[o]
  BY <1>1 DEF InsertRow, FreeToWrite, Blocks
<1>4. i.id \in pel \cup dlq
  <2>1. i.id \in 1..lastDelivered
    BY LenProperties DEF Items, StreamTypeOK
  <2> QED
    BY <1>2, <2>1 DEF LossInvariant, DeliveriesAccountedFor, NoLeak, Settled, RolledBack
<1>5. tx[j] = "none" => rows[j] = {}
  BY DEF RowsInv
<1>6. ASSUME NEW o \in Jobs, tx'[o] = "open", NEW x \in rows'[o]
      PROVE  /\ x \notin events'
             /\ \A p \in Jobs \ {o} : tx'[p] = "open" => x \notin rows'[p]
             /\ \E m \in pel' \cup dlq' : body'[m] = x
  <2>1. CASE x = e /\ o = j
    BY <1>2, <1>3, <1>4, <2>1
  <2>2. CASE x # e \/ o # j
    <3>1. x \in rows[o] /\ tx[o] = "open"
      BY <1>2, <1>5, <1>6, <2>2
    <3>2. /\ x \notin events
          /\ \A p \in Jobs \ {o} : tx[p] = "open" => x \notin rows[p]
          /\ \E m \in pel \cup dlq : body[m] = x
      BY <3>1 DEF RowsInv
    <3>3. o # j => x # e
      BY <1>3, <3>1
    <3> QED
      BY <1>2, <1>5, <2>2, <3>2, <3>3
  <2> QED
    BY <2>1, <2>2
<1>7. \A o \in Jobs : tx'[o] = "none" => rows'[o] = {}
  BY <1>2 DEF RowsInv
<1> QED
  BY <1>6, <1>7 DEF RowsInv

LEMMA CommitKeepsRows ==
  ASSUME Inv, RowsInv, NEW j \in Jobs, CommitBatch(j)
  PROVE  RowsInv'
<1> USE WorkerAssumption DEF Inv, TypeOK, WorkerTypeOK, TableTypeOK
<1>1. /\ UNCHANGED <<body, pel, dlq>> /\ tx[j] # "lost"
      /\ rows' = [rows EXCEPT ![j] = {}] /\ tx' = [tx EXCEPT ![j] = "none"]
      /\ events' = IF tx[j] = "aborted" THEN events ELSE events \cup rows[j]
  BY DEF CommitBatch, Commit, streamVars
<1>2. tx[j] # "aborted" => tx[j] = "open" \/ rows[j] = {}
  BY <1>1 DEF RowsInv
<1>3. ASSUME NEW o \in Jobs, tx'[o] = "open"
      PROVE  tx[o] = "open" /\ o # j /\ rows'[o] = rows[o]
  BY <1>1, <1>3
<1>4. ASSUME NEW o \in Jobs, tx'[o] = "open", NEW e \in rows'[o]
      PROVE  /\ e \notin events'
             /\ \A p \in Jobs \ {o} : tx'[p] = "open" => e \notin rows'[p]
             /\ \E m \in pel' \cup dlq' : body'[m] = e
  <2>1. /\ e \notin events
        /\ \A p \in Jobs \ {o} : tx[p] = "open" => e \notin rows[p]
        /\ \E m \in pel \cup dlq : body[m] = e
    BY <1>3, <1>4 DEF RowsInv
  <2>2. e \notin events'
    BY <1>1, <1>2, <1>3, <1>4, <2>1
  <2> QED
    BY <1>1, <1>3, <2>1, <2>2
<1>5. \A o \in Jobs : tx'[o] = "none" => rows'[o] = {}
  BY <1>1 DEF RowsInv
<1> QED
  BY <1>4, <1>5 DEF RowsInv

LEMMA AckKeepsRows ==
  ASSUME Inv, NoLeak, RowsInv, NEW j \in Jobs, Ack(j)
  PROVE  RowsInv'
<1>1. UNCHANGED <<body, dlq, tx, rows, events>> /\ pel' = pel \ acks[j]
  BY DEF Ack, XAck, tableVars
<1>2. \A m \in acks[j] : body[m] \in events
  BY DEF Ack, Inv, LossInvariant, WrittenBeforeAck, CommittedBeforeAck, Written, NoLeak
<1>3. tx[j] = "none" => rows[j] = {}
  BY DEF RowsInv
<1> QED
  BY <1>1, <1>2, <1>3, RowsRule

LEMMA AbandonKeepsRows ==
  ASSUME Inv, RowsInv, NEW j \in Jobs, Abandon(j), UNCHANGED <<body, dlq>>,
         pel \subseteq pel' \cup dlq
  PROVE  RowsInv'
<1> USE WorkerAssumption DEF Inv, TypeOK, TableTypeOK
<1>1. UNCHANGED events
  BY DEF Abandon, Rollback
<1>2. rows'[j] = {} /\ tx'[j] = "none" /\ \A o \in Jobs \ {j} : UNCHANGED <<tx[o], rows[o]>>
  BY DEF Abandon, Rollback
<1> QED
  BY <1>1, <1>2, RowsRule

LEMMA ClaimKeepsRows ==
  ASSUME Inv, NoLeak, RowsInv, XAutoClaim, UNCHANGED tableVars
  PROVE  RowsInv'
<1>1. UNCHANGED <<body, dlq, tx, rows, events>> /\ pel \subseteq pel' \cup dlq'
  BY ClaimKeepsOpen DEF tableVars
<1>2. pel \cup dlq \subseteq pel' \cup dlq'
  BY <1>1
<1> QED
  BY <1>1, <1>2 DEF RowsInv

(* Whether it took effect or not, an XACK closes its message or none. *)
LEMMA XAckFailsCloses ==
  ASSUME NEW i, XAckFails(i)
  PROVE  /\ UNCHANGED <<body, entries, lastDelivered, dlq>>
         /\ pel' \subseteq pel /\ pel \subseteq pel' \cup {i.id}
BY DEF XAckFails, XAck, streamVars

(* What a run does with an item of its list, but for an INSERT. *)
LEMMA ItemKeepsRows ==
  ASSUME Inv, RowsInv, NEW j \in Jobs, NEW i \in todo[j],
         \/ Reject(j, i) \/ RejectInvalid(j, i) \/ Conflict(j, i) \/ InsertRaises(j, i)
         \/ InsertUnreached(j, i) \/ CountUser(j, i) \/ MarkWritten(j, i)
         \/ MarkRaises(j, i) \/ Bury(j, i) \/ BuryAck(j, i) \/ BuryRaises(j, i)
  PROVE  RowsInv'
<1> USE WorkerAssumption DEF Inv, TypeOK, TableTypeOK
<1>1. UNCHANGED <<body, rows, events>>
  BY DEF Reject, RejectInvalid, Conflict, InsertConflict, InsertRaises, InsertRefused, InsertInFailed,
         InsertVictim, InsertUnreached, InsertUnconnected, CountUser, MarkWritten,
         MarkRaises, Bury, XAddDlq, BuryAck, BuryRaises, XAckFails, streamVars, tableVars
<1>2. /\ pel \subseteq pel' \cup dlq'
      /\ dlq \subseteq dlq'
  <2>1. CASE BuryAck(j, i)
    <3>1. i.id \in dlq
      BY <2>1 DEF BuryAck, LossInvariant, BuriedBeforeAck
    <3> QED
      BY <2>1, <3>1 DEF BuryAck, XAck
  <2>2. CASE Bury(j, i)
    BY <2>2 DEF Bury, XAddDlq
  <2>3. CASE UNCHANGED streamVars
    BY <2>3 DEF streamVars
  <2>4. CASE BuryRaises(j, i) /\ pc[j] = "ackinvalid"
    <3>1. i.id \in dlq
      BY <2>4 DEF BuryRaises, LossInvariant, BuriedBeforeAck
    <3> QED
      BY <2>4, <3>1, XAckFailsCloses DEF BuryRaises
  <2>5. CASE BuryRaises(j, i) /\ pc[j] # "ackinvalid"
    BY <2>3, <2>5 DEF BuryRaises
  <2> QED
    BY <2>1, <2>2, <2>3, <2>4, <2>5 DEF Reject, RejectInvalid, Conflict, InsertRaises, InsertUnreached, CountUser,
                            MarkWritten, MarkRaises
<1>3. \A o \in Jobs \ {j} : tx'[o] = tx[o]
  BY DEF Reject, RejectInvalid, Conflict, InsertConflict, InsertRaises, InsertRefused, InsertInFailed,
         InsertVictim, InsertUnreached, InsertUnconnected, CountUser, MarkWritten,
         MarkRaises, Bury, BuryAck, BuryRaises, tableVars
<1>4. \/ tx'[j] = tx[j]
      \/ tx[j] \in {"none", "open"} /\ tx'[j] \in {"open", "aborted", "lost"}
  BY DEF Reject, RejectInvalid, Conflict, InsertConflict, InsertRaises, InsertRefused, InsertInFailed,
         InsertVictim, InsertUnreached, InsertUnconnected, CountUser, MarkWritten,
         MarkRaises, Bury, BuryAck, BuryRaises, tableVars, Usable
<1>5. tx[j] = "none" => rows[j] = {}
  BY DEF RowsInv
<1> QED
  BY <1>1, <1>2, <1>3, <1>4, <1>5, RowsRule

LEMMA RunKeepsRows ==
  ASSUME Inv, NoLeak, RowsInv, NEW j \in Jobs, JobProgress(j) \/ JobFailure(j)
  PROVE  RowsInv'
<1>1. CASE ReadFresh(j)
  <2>1. UNCHANGED <<body, dlq, tx, rows, events>> /\ pel \subseteq pel'
    BY <1>1 DEF ReadFresh, XReadGroup, tableVars
  <2> QED
    BY <2>1 DEF RowsInv
<1>2. CASE CountDeliveries(j) \/ CountFails(j)
  BY <1>2, RowsAside DEF CountDeliveries, CountFails, Count, streamVars, tableVars
<1>3. CASE XAutoClaim /\ UNCHANGED tableVars
  BY <1>3, ClaimKeepsRows
<1>4. CASE UNCHANGED <<streamVars, tableVars>>
  BY <1>4, RowsAside DEF streamVars, tableVars
<1>5. CASE Reclaim(j) \/ ReclaimFails(j)
  BY <1>3, <1>4, <1>5 DEF Reclaim, ReclaimFails
<1>6. CASE Abandon(j) /\ UNCHANGED streamVars
  BY <1>6, AbandonKeepsRows DEF streamVars
<1>7. CASE CommitRaises(j) \/ CommandRaises(j) \/ Crash(j)
  BY <1>6, <1>7 DEF CommitRaises, CommandRaises, Crash
<1>8. ASSUME NEW i \in todo[j], UnpackRaises(j, i)  PROVE RowsInv'
  BY <1>6, <1>8 DEF UnpackRaises
<1>9. ASSUME NEW i \in todo[j], BuryAckRaises(j, i)  PROVE RowsInv'
  <2>1. i.id \in dlq
    BY <1>9 DEF BuryAckRaises, Inv, LossInvariant, BuriedBeforeAck
  <2> QED
    BY <1>9, <2>1, XAckFailsCloses, AbandonKeepsRows DEF BuryAckRaises
<1> QED
  BY <1>1, <1>2, <1>5, <1>7, <1>8, <1>9, InsertKeepsRows, AckKeepsRows, ItemKeepsRows,
     CommitKeepsRows
     DEF JobProgress, JobFailure, Progress, Failure

LEMMA BodyAppended ==
  ASSUME Inv, NEW p \in Foreign \cup Events, XAdd(p)
  PROVE  /\ p \in Payload /\ body' = Append(body, p)
         /\ Len(body) \in Nat /\ \A m \in Ids : body'[m] = body[m]
         /\ UNCHANGED <<lastDelivered, pel, dlq>>
<1>1. p \in Payload
  BY ForeignAssumption DEF Payload
<1> QED
  BY <1>1, AfterXAdd DEF XAdd, Inv, TypeOK

LEMMA NextKeepsRows ==
  ASSUME Inv, NoLeak, RowsInv, [Next]_vars
  PROVE  RowsInv'
<1>1. ASSUME NEW j \in Jobs, JobProgress(j) \/ JobFailure(j)
      PROVE  RowsInv'
  BY <1>1, RunKeepsRows
<1>2. CASE UNCHANGED <<streamVars, tableVars, workerVars>>
  BY <1>2, RowsAside DEF streamVars, tableVars
<1>3. ASSUME NEW p \in Foreign \cup Events, XAdd(p), UNCHANGED <<tableVars, workerVars>>
      PROVE  RowsInv'
  BY <1>3, BodyAppended, RowsAside DEF tableVars
<1>4. CASE StartConsumerGroup \/ TimePasses
  BY <1>4, RowsAside DEF StartConsumerGroup, EnsureGroup, TimePasses, Tick, tableVars
<1>5. ASSUME NEW r \in Requests, RequestStep(r)
      PROVE  \/ UNCHANGED <<streamVars, tableVars, workerVars>>
             \/ /\ UNCHANGED <<tableVars, workerVars>>
                /\ \E p \in Foreign \cup Events : XAdd(p)
  BY <1>5 DEF RequestStep, ApiStep, Serve, Receive, ClaimNew, Deduplicate, Enqueue,
              Respond, RequestFails
<1> QED
  BY <1>1, <1>2, <1>3, <1>4, <1>5 DEF Next, vars, ForeignEnqueue, ExpireKey

-----------------------------------------------------------------------------
deliveryVars == <<body, Outstanding, events, dlq>>

LEMMA XAddAccepts ==
  ASSUME Inv, NoLeak, NoLeak', NEW p \in Foreign \cup Events, XAdd(p), UNCHANGED events
  PROVE  Delivery!Next
<1>1. /\ p \in Payload /\ body' = Append(body, p) /\ Len(body) \in Nat
      /\ UNCHANGED <<lastDelivered, pel, dlq>>
  BY BodyAppended
<1>2. entries' = entries \cup {Len(body) + 1}
  <2>1. PICK T \in SUBSET (entries \cup {Len(body) + 1}) :
          /\ entries' = (entries \cup {Len(body) + 1}) \ T
          /\ trimmed' = trimmed \cup T
    BY DEF XAdd
  <2> QED
    BY <2>1 DEF NoLeak
<1>3. lastDelivered \in 0..Len(body)
  BY DEF Inv, TypeOK, StreamTypeOK
<1>4. Outstanding' = Outstanding \cup {Len(body) + 1}
  BY <1>1, <1>2, <1>3 DEF Outstanding, Unread
<1>5. Delivery!Accept(p)
  BY <1>1, <1>4 DEF Delivery!Accept
<1> QED
  BY <1>1, <1>5 DEF Delivery!Next, Delivery!Payload, Payload

(* Messages leave the pending list stored or dead. *)
LEMMA ClosedIsSettled ==
  ASSUME Inv, UNCHANGED <<body, lastDelivered, events, dlq, Unread>>,
         pel' \subseteq pel,
         \A m \in pel \ pel' : body[m] \in events \/ m \in dlq
  PROVE  Delivery!Next
<1> DEFINE batch == pel \ pel'
<1>1. Unread \cap pel = {}
  BY DEF Unread, Inv, TypeOK, StreamTypeOK
<1>2. Outstanding' = Outstanding \ batch /\ batch \in SUBSET Outstanding
  BY <1>1 DEF Outstanding
<1>3. \A m \in batch : body[m] \in events \/ m \in dlq
  OBVIOUS
<1> HIDE DEF batch
<1>4. Delivery!Settle(batch)
  BY <1>2, <1>3 DEF Delivery!Settle
<1> QED
  BY <1>2, <1>4 DEF Delivery!Next

LEMMA ReadFreshStutters ==
  ASSUME Inv, NEW j \in Jobs, ReadFresh(j)
  PROVE  UNCHANGED deliveryVars
<1>1. /\ UNCHANGED <<body, entries, dlq>>
      /\ lastDelivered' >= lastDelivered
      /\ Fresh \subseteq (1..lastDelivered') \ (1..lastDelivered)
      /\ \A m \in 1..lastDelivered' :
           m \in 1..lastDelivered \/ m \notin entries \/ m \in Fresh
  BY AfterXReadGroup DEF ReadFresh, Inv, TypeOK
<1>2. pel' = pel \cup Fresh /\ Fresh \subseteq Unread
  BY DEF ReadFresh, XReadGroup, Fresh, Lowest
<1>3. Unread' = Unread \ Fresh
  <2>1. /\ entries \subseteq Ids /\ Len(body) \in Nat /\ lastDelivered \in Nat
        /\ lastDelivered' \in Nat
    BY LenProperties, AfterXReadGroup DEF Inv, TypeOK, StreamTypeOK, ReadFresh, Ids
  <2>2. \A m \in entries :
          m > lastDelivered' <=> m > lastDelivered /\ m \notin Fresh
    BY <1>1, <2>1 DEF Ids
  <2> QED
    BY <1>1, <2>2 DEF Unread
<1>4. Outstanding' = Outstanding
  BY <1>2, <1>3 DEF Outstanding
<1> QED
  BY <1>1, <1>4 DEF deliveryVars, ReadFresh, tableVars

LEMMA ClaimDelivers ==
  ASSUME Inv, NoLeak, XAutoClaim, UNCHANGED tableVars
  PROVE  Delivery!Next
<1>1. /\ UNCHANGED <<body, entries, lastDelivered, dlq, events>>
      /\ pel' \subseteq pel /\ pel \ pel' \subseteq dlq
  BY ClaimKeepsOpen DEF tableVars
<1>2. UNCHANGED Unread
  BY <1>1 DEF Unread
<1> QED
  BY <1>1, <1>2, ClosedIsSettled

LEMMA AckDelivers ==
  ASSUME Inv, NoLeak, NEW j \in Jobs, Ack(j)
  PROVE  Delivery!Next
<1>1. UNCHANGED <<body, lastDelivered, events, dlq, entries>> /\ pel' = pel \ acks[j]
  BY DEF Ack, XAck, tableVars
<1>2. \A m \in acks[j] : body[m] \in events
  BY DEF Ack, Inv, LossInvariant, WrittenBeforeAck, CommittedBeforeAck, Written, NoLeak
<1>3. UNCHANGED Unread
  BY <1>1 DEF Unread
<1> QED
  BY <1>1, <1>2, <1>3, ClosedIsSettled

LEMMA BuryAckDelivers ==
  ASSUME Inv, NEW j \in Jobs, NEW i \in todo[j], BuryAck(j, i)
  PROVE  Delivery!Next
<1>1. /\ UNCHANGED <<body, lastDelivered, events, dlq>> /\ pel' = pel \ {i.id}
      /\ entries' \in {entries, entries \ {i.id}}
  BY DEF BuryAck, XAck, tableVars
<1>2. i.id \in dlq
  BY DEF BuryAck, Inv, LossInvariant, BuriedBeforeAck
<1>3. UNCHANGED Unread
  <2>1. i.id \in 1..lastDelivered
    BY <1>2 DEF Inv, TypeOK, StreamTypeOK
  <2>2. lastDelivered \in Nat
    BY LenProperties DEF Inv, TypeOK, StreamTypeOK
  <2>3. ~(i.id > lastDelivered)
    BY <2>1, <2>2
  <2> QED
    BY <1>1, <2>3 DEF Unread
<1> QED
  BY <1>1, <1>2, <1>3, ClosedIsSettled

(* An XACK of dead_letter that fails may have closed the message. *)
LEMMA XAckFailsDelivers ==
  ASSUME Inv, NEW i, i.id \in dlq, XAckFails(i), UNCHANGED events
  PROVE  Delivery!Next
<1>1. UNCHANGED Unread
  BY XAckFailsCloses DEF Unread
<1> QED
  BY <1>1, XAckFailsCloses, ClosedIsSettled

LEMMA BuryDelivers ==
  ASSUME Inv, NoLeak, NEW j \in Jobs, NEW i \in todo[j], Bury(j, i)
  PROVE  Delivery!Next \/ UNCHANGED deliveryVars
<1>1. /\ dlq' = dlq \cup {i.id}
      /\ UNCHANGED <<body, entries, lastDelivered, pel, events>>
  BY DEF Bury, XAddDlq, tableVars
<1>2. UNCHANGED Outstanding
  BY <1>1 DEF Outstanding, Unread
<1>3. CASE i.id \in dlq
  BY <1>1, <1>2, <1>3 DEF deliveryVars
<1>4. CASE i.id \in pel \/ body[i.id] \in events
  <2>1. i.id \in 1..Len(body)
    BY LenProperties DEF Inv, TypeOK, StreamTypeOK, WorkerTypeOK, Items
  <2>2. i.id \in Outstanding \/ body[i.id] \in events
    BY <1>4 DEF Outstanding
  <2> QED
    BY <1>1, <1>2, <2>1, <2>2 DEF Delivery!Bury, Delivery!Next
<1>5. i.id \in 1..lastDelivered
  BY LenProperties DEF Inv, TypeOK, StreamTypeOK, WorkerTypeOK, Items
<1> QED
  BY <1>3, <1>4, <1>5
     DEF Inv, LossInvariant, DeliveriesAccountedFor, NoLeak, Settled, RolledBack

LEMMA CommitDelivers ==
  ASSUME Inv, RowsInv, NEW j \in Jobs, CommitBatch(j)
  PROVE  Delivery!Next \/ UNCHANGED deliveryVars
<1>1. UNCHANGED <<body, Outstanding, dlq>>
  BY DEF CommitBatch, streamVars, Outstanding, Unread
<1>2. CASE UNCHANGED events
  BY <1>1, <1>2 DEF deliveryVars
<1>3. CASE events' = events \cup rows[j] /\ tx[j] = "open"
  <2> DEFINE batch == {m \in pel \cup dlq : body[m] \in rows[j]}
  <2>1. {body[m] : m \in batch} = rows[j]
    <3>1. \A e \in rows[j] : \E m \in pel \cup dlq : body[m] = e
      BY <1>3 DEF RowsInv
    <3> QED
      BY <3>1
  <2>2. rows[j] \subseteq Events
    BY WorkerAssumption DEF Inv, TypeOK, TableTypeOK
  <2>3. batch \in SUBSET (Outstanding \cup dlq)
    BY DEF Outstanding
  <2> HIDE DEF batch
  <2>4. Delivery!Store(batch)
    BY <1>1, <1>3, <2>1, <2>2 DEF Delivery!Store
  <2> QED
    BY <2>3, <2>4 DEF Delivery!Next
<1> QED
  BY <1>2, <1>3, WorkerAssumption
     DEF CommitBatch, Commit, RowsInv, Inv, TypeOK, TableTypeOK

LEMMA RunDelivers ==
  ASSUME Inv, NoLeak, RowsInv, NEW j \in Jobs, JobProgress(j) \/ JobFailure(j)
  PROVE  Delivery!Next \/ UNCHANGED deliveryVars
<1>1. CASE UNCHANGED <<streamVars, events>>
  BY <1>1 DEF streamVars, deliveryVars, Outstanding, Unread
<1>2. CASE Count(j, [m \in claimed[j] |-> DeliveryCount(m)]) \/ CountFails(j)
  BY <1>1, <1>2 DEF CountFails, Count, tableVars
<1>3. CASE Reclaim(j) \/ ReclaimFails(j)
  BY <1>1, <1>3, ClaimDelivers DEF Reclaim, ReclaimFails, tableVars
<1>4. CASE CommitRaises(j) \/ CommandRaises(j) \/ Crash(j)
  BY <1>1, <1>4 DEF CommitRaises, CommandRaises, Crash, Abandon, Rollback
<1>5. ASSUME NEW i \in todo[j],
             \/ Reject(j, i) \/ RejectInvalid(j, i) \/ UnpackRaises(j, i)
             \/ Insert(j, i) \/ Conflict(j, i)
             \/ InsertRaises(j, i) \/ InsertUnreached(j, i) \/ CountUser(j, i)
             \/ MarkWritten(j, i) \/ MarkRaises(j, i)
      PROVE  UNCHANGED <<streamVars, events>>
  BY <1>5 DEF Reject, RejectInvalid, UnpackRaises, Abandon, Rollback, Insert, InsertRow, Conflict,
              InsertConflict, InsertRaises, InsertRefused, InsertInFailed,
              InsertVictim, InsertUnreached, InsertUnconnected, CountUser, MarkWritten,
              MarkRaises, tableVars
<1>6. ASSUME NEW i \in todo[j], BuryRaises(j, i) \/ BuryAckRaises(j, i)
      PROVE  Delivery!Next \/ UNCHANGED <<streamVars, events>>
  <2>1. UNCHANGED events
    BY <1>6 DEF BuryRaises, BuryAckRaises, Abandon, Rollback, tableVars
  <2>2. \/ UNCHANGED streamVars
        \/ XAckFails(i) /\ Current(j, i) /\ pc[j] \in {"ackinvalid", "buryack"}
    BY <1>6 DEF BuryRaises, BuryAckRaises
  <2>3. CASE XAckFails(i) /\ Current(j, i) /\ pc[j] \in {"ackinvalid", "buryack"}
    <3>1. i.id \in dlq
      BY <2>3 DEF Inv, LossInvariant, BuriedBeforeAck
    <3> QED
      BY <2>1, <2>3, <3>1, XAckFailsDelivers
  <2> QED
    BY <2>1, <2>2, <2>3
<1> QED
  BY <1>1, <1>2, <1>3, <1>4, <1>5, <1>6, ReadFreshStutters, AckDelivers, CommitDelivers,
     BuryDelivers, BuryAckDelivers
     DEF JobProgress, JobFailure, Progress, Failure, CountDeliveries

LEMMA NextDelivers ==
  ASSUME Inv, NoLeak, NoLeak', RowsInv, [Next]_vars
  PROVE  [Delivery!Next]_<<body, Outstanding, events, dlq>>
<1>1. ASSUME NEW j \in Jobs, JobProgress(j) \/ JobFailure(j)
      PROVE  Delivery!Next \/ UNCHANGED deliveryVars
  BY <1>1, RunDelivers
<1>2. CASE UNCHANGED <<streamVars, events>>
  BY <1>2 DEF streamVars, deliveryVars, Outstanding, Unread
<1>3. ASSUME NEW p \in Foreign \cup Events, XAdd(p), UNCHANGED events
      PROVE  Delivery!Next
  BY <1>3, XAddAccepts
<1>4. CASE StartConsumerGroup
  <2>1. UNCHANGED <<body, entries, pel, dlq, events, lastDelivered>>
    BY <1>4 DEF StartConsumerGroup, EnsureGroup, tableVars, Inv, LossInvariant,
                GroupBeforeDelivery
  <2> QED
    BY <2>1 DEF deliveryVars, Outstanding, Unread
<1>5. CASE TimePasses
  BY <1>5 DEF TimePasses, Tick, tableVars, deliveryVars, Outstanding, Unread
<1>6. ASSUME NEW r \in Requests, RequestStep(r)
      PROVE  \/ UNCHANGED <<streamVars, events>>
             \/ UNCHANGED events /\ \E p \in Foreign \cup Events : XAdd(p)
  BY <1>6 DEF RequestStep, ApiStep, Serve, Receive, ClaimNew, Deduplicate, Enqueue,
              Respond, RequestFails, tableVars
<1> QED
  BY <1>1, <1>2, <1>3, <1>4, <1>5, <1>6
     DEF Next, vars, ForeignEnqueue, ExpireKey, tableVars, deliveryVars

LEMMA InitDelivers == Init => Delivery!Init /\ RowsInv
<1> SUFFICES ASSUME Init PROVE Delivery!Init /\ RowsInv
  OBVIOUS
<1> USE DEF Init, StreamInit, TableInit, WorkerInit
<1>1. Outstanding = {}
  BY DEF Outstanding, Unread
<1>2. RowsInv
  BY WorkerAssumption DEF RowsInv
<1> QED
  BY <1>1, <1>2 DEF Delivery!Init

(* As long as neither leak opens, the pipeline implements the abstract delivery,
   whichever runs overlap, fail or crash and however often messages are delivered:
   a message stays open until it is stored or dead (tasks.py:108-185,
   streams.py:181-199). *)
THEOREM PipelineImplementsDelivery ==
  Spec /\ []NoLeak => ImplementsDelivery
<1>1. Inv /\ NoLeak /\ RowsInv /\ [Next]_vars => RowsInv'
  BY NextKeepsRows
<1> QED
  BY <1>1, InitDelivers, NextDelivers, Invariance, PTL
     DEF Spec, ImplementsDelivery, Delivery!Spec

-----------------------------------------------------------------------------
(* What the abstract specification is for. *)
PayloadsLogged == body \in Seq(Payload)

LEMMA DeliveryKeepsMessages ==
  ASSUME PayloadsLogged, Delivery!NothingLost,
         [Delivery!Next]_(<<body, Outstanding, events, dlq>>)
  PROVE  PayloadsLogged' /\ Delivery!NothingLost'
<1> USE DEF PayloadsLogged, Delivery!NothingLost
<1>1. ASSUME NEW p \in Payload, Delivery!Accept(p)
      PROVE  PayloadsLogged' /\ Delivery!NothingLost'
  <2>1. body' = Append(body, p) /\ Outstanding' = Outstanding \cup {Len(body) + 1}
        /\ UNCHANGED <<events, dlq>>
    BY <1>1 DEF Delivery!Accept
  <2>2. /\ body' \in Seq(Payload) /\ Len(body') = Len(body) + 1 /\ Len(body) \in Nat
        /\ \A m \in 1..Len(body) : body'[m] = body[m]
    BY <2>1, AppendedBody
  <2>3. \A m \in 1..Len(body') : m \in 1..Len(body) \/ m = Len(body) + 1
    BY <2>2
  <2> QED
    BY <2>1, <2>2, <2>3
<1>2. ASSUME NEW batch \in SUBSET (Outstanding \cup dlq), Delivery!Store(batch)
      PROVE  PayloadsLogged' /\ Delivery!NothingLost'
  BY <1>2 DEF Delivery!Store
<1>3. ASSUME NEW batch \in SUBSET Outstanding, Delivery!Settle(batch)
      PROVE  PayloadsLogged' /\ Delivery!NothingLost'
  BY <1>3 DEF Delivery!Settle
<1>4. ASSUME NEW m \in 1..Len(body), Delivery!Bury(m)
      PROVE  PayloadsLogged' /\ Delivery!NothingLost'
  BY <1>4 DEF Delivery!Bury
<1>5. CASE UNCHANGED <<body, Outstanding, events, dlq>>
  BY <1>5
<1> QED
  BY <1>1, <1>2, <1>3, <1>4, <1>5 DEF Delivery!Next, Delivery!Payload, Payload

(* What implements EventDelivery loses no message: each is unread or pending until
   its event is stored or it is dead-lettered (docs/architecture.md:46). *)
THEOREM DeliveryLosesNothing == ImplementsDelivery => []Delivery!NothingLost
<1>1. Delivery!Init => PayloadsLogged /\ Delivery!NothingLost
  BY DEF Delivery!Init, PayloadsLogged, Delivery!NothingLost
<1> QED
  BY <1>1, DeliveryKeepsMessages, PTL DEF ImplementsDelivery, Delivery!Spec

-----------------------------------------------------------------------------
NoDeadlocks == \A j \in Jobs : ~InDeadlock(j)

(* No transaction is aborted, so no COMMIT has discarded rows. *)
Unaborted == discarded = {} /\ \A j \in Jobs : tx[j] # "aborted"

LEMMA NextKeepsUnaborted ==
  ASSUME Inv, Refused = {}, NoDeadlocks, Unaborted, [Next]_vars
  PROVE  Unaborted'
<1> USE WorkerAssumption DEF Unaborted, Inv, TypeOK, TableTypeOK
<1>1. CASE UNCHANGED tableVars
  BY <1>1 DEF tableVars
<1>2. ASSUME NEW j \in Jobs, Abandon(j)
      PROVE  Unaborted'
  BY <1>2 DEF Abandon, Rollback
<1>3. ASSUME NEW j \in Jobs, CommitBatch(j)
      PROVE  Unaborted'
  BY <1>3 DEF CommitBatch, Commit
<1>4. ASSUME NEW j \in Jobs, NEW i \in todo[j],
             \/ Insert(j, i) \/ Conflict(j, i) \/ InsertRaises(j, i) \/ InsertUnreached(j, i)
      PROVE  Unaborted'
  <2>1. /\ UNCHANGED discarded
        /\ \/ UNCHANGED tx
           \/ \E t \in {"open", "lost"} : tx' = [tx EXCEPT ![j] = t]
    BY <1>4 DEF Insert, InsertRow, Conflict, InsertConflict, InsertRaises, InsertRefused,
                InsertInFailed, InsertUnreached, InsertUnconnected, NoDeadlocks, tableVars
  <2> QED
    BY <2>1
<1>5. ASSUME NEW j \in Jobs, JobProgress(j) \/ JobFailure(j)
      PROVE  Unaborted'
  <2>1. CASE Progress(j)
    BY <1>1, <1>2, <1>3, <1>4, <2>1
       DEF Progress, ReadFresh, Reclaim, CountDeliveries, Count, CommitRaises, Ack, Reject,
           RejectInvalid, UnpackRaises, CountUser, MarkWritten, Bury, BuryAck
  <2>2. CASE Failure(j)
    BY <1>1, <1>2, <1>4, <2>2
       DEF Failure, ReclaimFails, CountFails, Count, CommandRaises, Crash, MarkRaises,
           BuryRaises, BuryAckRaises
  <2> QED
    BY <1>5, <2>1, <2>2 DEF JobProgress, JobFailure
<1> QED
  BY <1>1, <1>5 DEF Next, vars, StartConsumerGroup, TimePasses, ForeignEnqueue, ExpireKey,
                    RequestStep

(* When the server refuses no row and no deadlock occurs, no message is lost that
   MAXLEN has not trimmed, whichever runs overlap, fail or crash
   (docs/architecture.md:46, tasks.py:108-185). *)
THEOREM AtLeastOnceHolds ==
  Refused = {} /\ Spec /\ []NoDeadlocks => []AtLeastOnce
<1>1. Init => Unaborted
  BY WorkerAssumption DEF Init, TableInit, Unaborted
<1>2. Inv /\ Unaborted => AtLeastOnce
  BY InvImpliesLossOnlyByRollback DEF Unaborted, LossOnlyByRollback, RolledBack, AtLeastOnce
<1>3. CASE Refused = {}
  <2>1. Inv /\ NoDeadlocks /\ Unaborted /\ [Next]_vars => Unaborted'
    BY <1>3, NextKeepsUnaborted
  <2> QED
    BY <1>1, <1>2, <2>1, Invariance, PTL DEF Spec
<1> QED
  BY <1>3

-----------------------------------------------------------------------------
(* No run buries the message of a valid event. *)
OnlyBrokenIsBuried == \A m \in dlq : body[m] \notin Events

(* The inductive invariant behind it: every INSERT is answered. *)
BuryInv ==
  /\ OnlyBrokenIsBuried
  /\ \A j \in Jobs :
       /\ Usable(j)
       /\ \A i \in todo[j] :
            Burying(j) /\ Current(j, i) => body[i.id] \notin Events

LEMMA RunKeepsBuryInv ==
  ASSUME Refused = {}, Faults \subseteq {"crash"}, Inv, NoDeadlocks, BuryInv,
         NEW j \in Jobs, JobProgress(j) \/ JobFailure(j)
  PROVE  BuryInv'
<1> USE WorkerAssumption DEF Inv, TypeOK, WorkerTypeOK, TableTypeOK, BuryInv,
                             OnlyBrokenIsBuried, Usable, Burying
<1>0. /\ UNCHANGED body
      /\ \A o \in Jobs \ {j} : UNCHANGED <<pc[o], todo[o], tx[o]>>
  BY DEF JobProgress, JobFailure, Progress, Failure, ReadFresh, XReadGroup, Reclaim,
         XAutoClaim, ReclaimFails, CountDeliveries, CountFails, Count, EnterLoop, Reject,
         RejectInvalid, BuryRaises, BuryAckRaises, XAckFails, UnpackRaises, Insert, InsertRow, Conflict, InsertConflict, InsertRaises,
         InsertRefused, InsertInFailed, InsertVictim, InsertUnreached, InsertUnconnected,
         CountUser, MarkWritten, MarkRaises, Bury, XAddDlq, BuryAck, CommitBatch, Commit,
         CommitRaises, Ack, Abandon, Rollback, CommandRaises, Crash, GiveUpOrLeave, Goto,
         Drop, streamVars, tableVars
<1>1. /\ \A i \in todo[j] : ~InsertRaises(j, i) /\ ~InsertUnreached(j, i) /\ ~MarkRaises(j, i)
      /\ \A i \in todo[j] : ~BuryRaises(j, i) /\ ~BuryAckRaises(j, i)
      /\ ~ReclaimFails(j) /\ ~CountFails(j) /\ ~CommitRaises(j)
  BY DEF BuryRaises, BuryAckRaises, InsertRaises, InsertRefused, InsertInFailed, InsertUnreached, MarkRaises,
         ReclaimFails, CountFails, CommitRaises, NoDeadlocks
<1>2. CASE (Abandon(j) /\ UNCHANGED streamVars) \/ CommitBatch(j)
  <2>1. dlq' = dlq /\ tx'[j] = "none" /\ pc'[j] \in {"idle", "ack"}
    BY <1>2 DEF Abandon, Rollback, CommitBatch, Commit, Goto, streamVars
  <2> QED
    BY <1>0, <2>1 DEF Current
<1>3. CASE ReadFresh(j) \/ Reclaim(j) \/ CountDeliveries(j) \/ Ack(j)
  <2>1. dlq' = dlq /\ tx' = tx /\ pc'[j] \in {"idle", "claim", "count", "work"}
    BY <1>3 DEF ReadFresh, XReadGroup, Reclaim, XAutoClaim, CountDeliveries, Count,
                EnterLoop, Ack, Goto, streamVars, tableVars
  <2> QED
    BY <1>0, <2>1 DEF Current
<1>4. ASSUME NEW i \in todo[j],
             Insert(j, i) \/ Conflict(j, i) \/ CountUser(j, i) \/ MarkWritten(j, i)
      PROVE  BuryInv'
  <2>1. dlq' = dlq /\ tx'[j] \in {"open", tx[j]} /\ pc'[j] \in {"inserted", "mark", "work"}
    BY <1>4 DEF Insert, InsertRow, Conflict, InsertConflict, CountUser, MarkWritten, Goto,
                streamVars, tableVars
  <2> QED
    BY <1>0, <2>1 DEF Current
<1>5. ASSUME NEW i \in todo[j],
             Reject(j, i) \/ RejectInvalid(j, i) \/ Bury(j, i) \/ BuryAck(j, i)
      PROVE  BuryInv'
  <2>1. /\ tx' = tx /\ Current(j, i) /\ body[i.id] \notin Events
        /\ dlq' \in {dlq, dlq \cup {i.id}}
    BY <1>5, PayloadAssumption
       DEF Reject, RejectInvalid, AtItem, Bury, XAddDlq, BuryAck, streamVars, tableVars
  <2>2. pc'[j] = "work" \/ UNCHANGED todo
    BY <1>5 DEF Reject, RejectInvalid, GiveUpOrLeave, Bury, BuryAck, Goto
  <2>3. ASSUME NEW o \in todo'[j], Burying(j)', Current(j, o)'
        PROVE  body[o.id] \notin Events
    BY <2>1, <2>2, <2>3, CurrentIsUnique DEF Current
  <2> QED
    BY <1>0, <2>1, <2>3 DEF Current
<1> QED
  BY <1>1, <1>2, <1>3, <1>4, <1>5
     DEF JobProgress, JobFailure, Progress, Failure, UnpackRaises, CommandRaises, Crash

LEMMA NextKeepsBuryInv ==
  ASSUME Refused = {}, Faults \subseteq {"crash"}, Inv, NoDeadlocks, BuryInv, [Next]_vars
  PROVE  BuryInv'
<1>1. ASSUME NEW j \in Jobs, JobProgress(j) \/ JobFailure(j)
      PROVE  BuryInv'
  BY <1>1, RunKeepsBuryInv
<1>2. ASSUME UNCHANGED <<dlq, tx, workerVars>>, \A m \in Ids : body'[m] = body[m]
      PROVE  BuryInv'
  <2>1. dlq \subseteq Ids /\ \A j \in Jobs : \A i \in todo[j] : i.id \in Ids
    BY LenProperties DEF Inv, TypeOK, StreamTypeOK, WorkerTypeOK, Items, Ids
  <2> QED
    BY <1>2, <2>1 DEF BuryInv, OnlyBrokenIsBuried, Burying, Usable, Current, workerVars
<1>3. ASSUME NEW p \in Foreign \cup Events, XAdd(p), UNCHANGED <<tableVars, workerVars>>
      PROVE  BuryInv'
  BY <1>2, <1>3, BodyAppended DEF tableVars
<1>4. CASE StartConsumerGroup \/ TimePasses
  BY <1>2, <1>4 DEF StartConsumerGroup, EnsureGroup, TimePasses, Tick, tableVars
<1>5. CASE UNCHANGED <<streamVars, tableVars, workerVars>>
  BY <1>2, <1>5 DEF streamVars, tableVars
<1>6. ASSUME NEW r \in Requests, RequestStep(r)
      PROVE  \/ UNCHANGED <<streamVars, tableVars, workerVars>>
             \/ /\ UNCHANGED <<tableVars, workerVars>>
                /\ \E p \in Foreign \cup Events : XAdd(p)
  BY <1>6 DEF RequestStep, ApiStep, Serve, Receive, ClaimNew, Deduplicate, Enqueue,
              Respond, RequestFails
<1> QED
  BY <1>1, <1>3, <1>4, <1>5, <1>6 DEF Next, vars, ForeignEnqueue, ExpireKey

(* When the server refuses no row, no deadlock occurs and neither Redis nor PostgreSQL
   fails, only messages that carry no valid event are dead-lettered, whichever runs
   overlap or crash and however often a message is delivered (tasks.py:117-168). *)
THEOREM OnlyBrokenIsBuriedHolds ==
  /\ Refused = {} /\ Faults \subseteq {"crash"}
  /\ Spec /\ []NoDeadlocks
  => []OnlyBrokenIsBuried
<1>1. Init => BuryInv
  BY WorkerAssumption
     DEF Init, StreamInit, TableInit, WorkerInit, BuryInv, OnlyBrokenIsBuried, Usable
<1>2. BuryInv => OnlyBrokenIsBuried
  BY DEF BuryInv
<1>3. CASE Refused = {} /\ Faults \subseteq {"crash"}
  <2>1. Inv /\ NoDeadlocks /\ BuryInv /\ [Next]_vars => BuryInv'
    BY <1>3, NextKeepsBuryInv
  <2> QED
    BY <1>1, <1>2, <2>1, Invariance, PTL DEF Spec
<1> QED
  BY <1>3

-----------------------------------------------------------------------------
(* A run dead-letters the message of a valid event only after its transaction has
   failed, or before it has begun: no row it has written by then is committed. *)
BuriesOutsideTransaction ==
  \A j \in Jobs : \A i \in todo[j] :
    Burying(j) /\ Current(j, i) /\ body[i.id] \in Events => tx[j] # "open"

LEMMA RunKeepsBuriesOutside ==
  ASSUME "redis" \notin Faults, Inv, BuriesOutsideTransaction,
         NEW j \in Jobs, JobProgress(j) \/ JobFailure(j)
  PROVE  BuriesOutsideTransaction'
<1> USE WorkerAssumption DEF Inv, TypeOK, WorkerTypeOK, TableTypeOK,
                             BuriesOutsideTransaction, Burying
<1>0. /\ UNCHANGED body
      /\ \A o \in Jobs \ {j} : UNCHANGED <<pc[o], todo[o], tx[o]>>
  BY DEF JobProgress, JobFailure, Progress, Failure, ReadFresh, XReadGroup, Reclaim,
         XAutoClaim, ReclaimFails, CountDeliveries, CountFails, Count, EnterLoop, Reject,
         RejectInvalid, BuryRaises, BuryAckRaises, XAckFails, UnpackRaises, Insert,
         InsertRow, Conflict, InsertConflict, InsertRaises, InsertRefused,
         InsertInFailed, InsertVictim, InsertUnreached, InsertUnconnected, CountUser,
         MarkWritten, MarkRaises, Bury, XAddDlq, BuryAck, CommitBatch, Commit,
         CommitRaises, Ack, Abandon, Rollback, CommandRaises, Crash, GiveUpOrLeave, Goto,
         Drop, streamVars, tableVars
<1>1. /\ \A i \in todo[j] :
           ~MarkRaises(j, i) /\ ~BuryRaises(j, i) /\ ~BuryAckRaises(j, i)
      /\ ~ReclaimFails(j) /\ ~CountFails(j)
  BY DEF BuryRaises, BuryAckRaises, MarkRaises, ReclaimFails, CountFails
<1>2. CASE pc'[j] \notin {"buryinvalid", "ackinvalid", "bury", "buryack"}
  BY <1>0, <1>2 DEF Current
<1>3. CASE Abandon(j) \/ CommitBatch(j) \/ ReadFresh(j) \/ Reclaim(j)
           \/ CountDeliveries(j) \/ Ack(j)
  BY <1>2, <1>3 DEF Abandon, CommitBatch, ReadFresh, Reclaim, CountDeliveries, Count,
                    EnterLoop, Ack, Goto
<1>4. ASSUME NEW i \in todo[j],
             Insert(j, i) \/ Conflict(j, i) \/ CountUser(j, i) \/ MarkWritten(j, i)
      PROVE  BuriesOutsideTransaction'
  BY <1>2, <1>4 DEF Insert, Conflict, CountUser, MarkWritten, Goto
<1>5. ASSUME NEW i \in todo[j], InsertRaises(j, i) \/ InsertUnreached(j, i)
      PROVE  BuriesOutsideTransaction'
  <2>1. tx'[j] # "open"
    BY <1>5 DEF InsertRaises, InsertRefused, InsertInFailed, InsertVictim,
                InsertUnreached, InsertUnconnected, Usable, tableVars
  <2> QED
    BY <1>0, <2>1 DEF Current
<1>6. ASSUME NEW i \in todo[j],
             Reject(j, i) \/ RejectInvalid(j, i) \/ Bury(j, i) \/ BuryAck(j, i)
      PROVE  BuriesOutsideTransaction'
  <2>1. /\ tx' = tx /\ Current(j, i)
        /\ Burying(j) \/ body[i.id] \notin Events
    BY <1>6, PayloadAssumption
       DEF Reject, RejectInvalid, AtItem, Bury, BuryAck, tableVars
  <2>2. pc'[j] = "work" \/ UNCHANGED todo
    BY <1>6 DEF Reject, RejectInvalid, GiveUpOrLeave, Bury, BuryAck, Goto
  <2>3. ASSUME NEW o \in todo'[j], Burying(j)', Current(j, o)', body[o.id] \in Events
        PROVE  tx'[j] # "open"
    BY <2>1, <2>2, <2>3, CurrentIsUnique DEF Current
  <2> QED
    BY <1>0, <2>1, <2>3 DEF Current
<1> QED
  BY <1>1, <1>3, <1>4, <1>5, <1>6
     DEF JobProgress, JobFailure, Progress, Failure, UnpackRaises, CommandRaises,
         CommitRaises, Crash

LEMMA NextKeepsBuriesOutside ==
  ASSUME "redis" \notin Faults, Inv, BuriesOutsideTransaction, [Next]_vars
  PROVE  BuriesOutsideTransaction'
<1>1. ASSUME NEW j \in Jobs, JobProgress(j) \/ JobFailure(j)
      PROVE  BuriesOutsideTransaction'
  BY <1>1, RunKeepsBuriesOutside
<1>2. ASSUME UNCHANGED <<tx, workerVars>>, \A m \in Ids : body'[m] = body[m]
      PROVE  BuriesOutsideTransaction'
  <2>1. \A j \in Jobs : \A i \in todo[j] : i.id \in Ids
    BY LenProperties DEF Inv, TypeOK, StreamTypeOK, WorkerTypeOK, Items, Ids
  <2> QED
    BY <1>2, <2>1 DEF BuriesOutsideTransaction, Burying, Current, workerVars
<1>3. ASSUME NEW p \in Foreign \cup Events, XAdd(p), UNCHANGED <<tableVars, workerVars>>
      PROVE  BuriesOutsideTransaction'
  BY <1>2, <1>3, BodyAppended DEF tableVars
<1>4. CASE StartConsumerGroup \/ TimePasses
  BY <1>2, <1>4 DEF StartConsumerGroup, EnsureGroup, TimePasses, Tick, tableVars
<1>5. CASE UNCHANGED <<streamVars, tableVars, workerVars>>
  BY <1>2, <1>5 DEF streamVars, tableVars
<1>6. ASSUME NEW r \in Requests, RequestStep(r)
      PROVE  \/ UNCHANGED <<streamVars, tableVars, workerVars>>
             \/ /\ UNCHANGED <<tableVars, workerVars>>
                /\ \E p \in Foreign \cup Events : XAdd(p)
  BY <1>6 DEF RequestStep, ApiStep, Serve, Receive, ClaimNew, Deduplicate, Enqueue,
              Respond, RequestFails
<1> QED
  BY <1>1, <1>3, <1>4, <1>5, <1>6 DEF Next, vars, ForeignEnqueue, ExpireKey

(* As long as Redis does not fail, no run dead-letters the message of a valid event
   while its transaction works, so none commits the row of an event together with
   the burial of its message, whichever runs overlap, lose their connection or
   crash: only an INSERT that fails leads there, and it ends the transaction
   (tasks.py:107-175). A Redis failure after the INSERT does both. *)
THEOREM BuriesOutsideTransactionHolds ==
  "redis" \notin Faults /\ Spec => []BuriesOutsideTransaction
<1>1. Init => BuriesOutsideTransaction
  BY DEF Init, WorkerInit, BuriesOutsideTransaction
<1>2. CASE "redis" \notin Faults
  <2>1. Inv /\ BuriesOutsideTransaction /\ [Next]_vars => BuriesOutsideTransaction'
    BY <1>2, NextKeepsBuriesOutside
  <2> QED
    BY <1>1, <2>1, Invariance, PTL DEF Spec
<1> QED
  BY <1>2

=============================================================================
