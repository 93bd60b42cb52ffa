----------------------------- MODULE KeyProofs -----------------------------
(***************************************************************************)
(* What the idempotency keys stand for in the asynchronous write path, and *)
(* what the day's HyperLogLog has counted, for every number of handlers,   *)
(* runs and events.                                                        *)
(***************************************************************************)
EXTENDS EventPipelineProofs

(* A key was enqueued. *)
Enqueued(e) == \E m \in Ids : body[m] = e

-----------------------------------------------------------------------------
(* What the steps of runs do to the keys: only the worker's SET "done" does
   anything, and to the key of a message. *)
LEMMA RunKeySteps ==
  ASSUME Inv, NEW j \in Jobs, JobProgress(j) \/ JobFailure(j)
  PROVE  /\ UNCHANGED <<body, claims>>
         /\ UNCHANGED idem \/ \E m \in Ids : SetDone(body[m])
<1>1. UNCHANGED claims
  BY DEF JobProgress, JobFailure, apiVars
<1>2. \A i \in todo[j] : i.id \in Ids
  BY LenProperties DEF Inv, TypeOK, StreamTypeOK, WorkerTypeOK, Items, Ids
<1>3. ASSUME Progress(j)
      PROVE  /\ UNCHANGED body
             /\ UNCHANGED idem \/ \E m \in Ids : SetDone(body[m])
  <2>1. CASE ReadFresh(j) \/ Reclaim(j) \/ CountDeliveries(j)
    BY <2>1 DEF ReadFresh, XReadGroup, Reclaim, XAutoClaim, CountDeliveries, Count,
                streamVars
  <2>2. CASE CommitBatch(j) \/ CommitRaises(j) \/ Ack(j)
    BY <2>2 DEF CommitBatch, CommitRaises, Abandon, Ack, streamVars
  <2>3. ASSUME NEW i \in todo[j],
               \/ Reject(j, i) \/ RejectInvalid(j, i) \/ UnpackRaises(j, i)
               \/ Insert(j, i) \/ Conflict(j, i) \/ InsertRaises(j, i)
               \/ CountUser(j, i) \/ Bury(j, i) \/ BuryAck(j, i)
        PROVE  UNCHANGED <<body, idem>>
    BY <2>3 DEF Reject, RejectInvalid, UnpackRaises, Abandon, Insert, Conflict, InsertRaises,
                CountUser, Bury, XAddDlq, BuryAck, streamVars
  <2>4. ASSUME NEW i \in todo[j], MarkWritten(j, i)
        PROVE  UNCHANGED body /\ SetDone(body[i.id])
    BY <2>4 DEF MarkWritten, streamVars
  <2> QED
    BY <1>2, <1>3, <2>1, <2>2, <2>3, <2>4 DEF Progress
<1>4. ASSUME Failure(j)
      PROVE  /\ UNCHANGED body
             /\ UNCHANGED idem \/ \E m \in Ids : SetDone(body[m])
  <2>1. CASE ReclaimFails(j) \/ CountFails(j) \/ CommandRaises(j) \/ Crash(j)
    BY <2>1 DEF ReclaimFails, XAutoClaim, CountFails, Count, CommandRaises, Crash,
                Abandon, streamVars
  <2>2. ASSUME NEW i \in todo[j], InsertUnreached(j, i)
        PROVE  UNCHANGED <<body, idem>>
    BY <2>2 DEF InsertUnreached, streamVars
  <2>3. ASSUME NEW i \in todo[j], MarkRaises(j, i)
        PROVE  UNCHANGED body /\ (UNCHANGED idem \/ SetDone(body[i.id]))
    BY <2>3 DEF MarkRaises, streamVars
  <2>4. ASSUME NEW i \in todo[j], BuryRaises(j, i) \/ BuryAckRaises(j, i)
        PROVE  UNCHANGED <<body, idem>>
    BY <2>4 DEF BuryRaises, BuryAckRaises, XAckFails, Abandon, streamVars
  <2> QED
    BY <1>2, <1>4, <2>1, <2>2, <2>3, <2>4 DEF Failure
<1> QED
  BY <1>1, <1>3, <1>4 DEF JobProgress, JobFailure

(* The steps that the keys, the claims and the history of the stream tell apart. *)
LEMMA KeySteps ==
  ASSUME Inv, [Next]_vars
  PROVE  \/ UNCHANGED <<body, idem, claims>>
         \/ \E p \in Foreign : RoomFor(1) /\ XAdd(p) /\ UNCHANGED <<idem, claims>>
         \/ \E e \in Events : Expire(e) /\ UNCHANGED <<body, claims>>
         \/ \E m \in Ids : SetDone(body[m]) /\ UNCHANGED <<body, claims>>
         \/ \E r \in Requests, e \in Events : ClaimNew(r, e) \/ Enqueue(r, e)
         \/ \E r \in Requests : Respond(r) \/ RequestFails(r)
<1>1. CASE UNCHANGED vars
  BY <1>1 DEF vars, streamVars, apiVars
<1>2. CASE StartConsumerGroup \/ TimePasses
  BY <1>2 DEF StartConsumerGroup, EnsureGroup, TimePasses, Tick, apiVars
<1>3. ASSUME NEW p \in Foreign, ForeignEnqueue(p)
      PROVE  RoomFor(1) /\ XAdd(p) /\ UNCHANGED <<idem, claims>>
  BY <1>3 DEF ForeignEnqueue, apiVars
<1>4. ASSUME NEW e \in Events, ExpireKey(e)
      PROVE  Expire(e) /\ UNCHANGED <<body, claims>>
  BY <1>4 DEF ExpireKey, streamVars, apiVars
<1>5. ASSUME NEW j \in Jobs, JobProgress(j) \/ JobFailure(j)
      PROVE  \/ UNCHANGED <<body, idem, claims>>
             \/ \E m \in Ids : SetDone(body[m]) /\ UNCHANGED <<body, claims>>
  BY <1>5, RunKeySteps
<1>6. ASSUME NEW r \in Requests, RequestStep(r)
      PROVE  \/ UNCHANGED <<body, idem, claims>>
             \/ \E e \in Events : ClaimNew(r, e) \/ Enqueue(r, e)
             \/ Respond(r) \/ RequestFails(r)
  BY <1>6 DEF RequestStep, ApiStep, Serve, Receive, Deduplicate, streamVars
<1> QED
  BY <1>1, <1>2, <1>3, <1>4, <1>5, <1>6 DEF Next

(* The history of the stream grows at its end. *)
LEMMA BodyGrows ==
  ASSUME Inv, NEW p \in Payload, XAdd(p)
  PROVE  /\ Ids' = Ids \cup {Len(body) + 1} /\ Len(body) + 1 \notin Ids
         /\ \A m \in Ids : body'[m] = body[m]
         /\ body'[Len(body) + 1] = p
<1>1. body \in Seq(Payload) /\ body' = Append(body, p)
  BY DEF Inv, TypeOK, StreamTypeOK, XAdd
<1>2. Ids' = Ids \cup {Len(body) + 1} /\ \A m \in Ids : body'[m] = body[m]
  BY AfterXAdd DEF Inv, TypeOK
<1>3. Len(body) \in Nat /\ body'[Len(body) + 1] = p
  BY <1>1, AppendedBody
<1> QED
  BY <1>2, <1>3 DEF Ids

(* What is enqueued stays so. *)
LEMMA EnqueuedStays ==
  ASSUME Inv, [Next]_vars, NEW e, Enqueued(e)
  PROVE  Enqueued(e)'
<1>1. CASE UNCHANGED body
  BY <1>1 DEF Enqueued, Ids
<1>2. ASSUME NEW p \in Payload, XAdd(p)
      PROVE  Enqueued(e)'
  BY <1>2, BodyGrows DEF Enqueued
<1>3. Foreign \cup Events \subseteq Payload
  BY ForeignAssumption DEF Payload
<1> QED
  BY <1>1, <1>2, <1>3, KeySteps DEF ClaimNew, Enqueue, Respond, RequestFails, streamVars

LEMMA FirstState ==
  ASSUME Init
  PROVE  /\ Ids = {}
         /\ \A e \in Events : idem[e] = "absent"
         /\ \A r \in Requests : claims[r] = {}
BY EmptySeq DEF Init, StreamInit, KeysInit, ApiInit, Ids

-----------------------------------------------------------------------------
LEMMA NextKeepsDoneWasEnqueued ==
  ASSUME Inv, DoneWasEnqueued, [Next]_vars
  PROVE  DoneWasEnqueued'
<1> SUFFICES ASSUME NEW e \in Events, idem'[e] = "done"
             PROVE  Enqueued(e)'
  BY DEF DoneWasEnqueued, Enqueued
<1>1. idem[e] = "done" \/ \E m \in Ids : body[m] = e
  <2>1. idem \in [Events -> {"absent", "pending", "done"}]
    BY DEF Inv, TypeOK, KeysTypeOK
  <2> QED
    BY <2>1, KeySteps DEF Expire, SetDone, ClaimNew, SetNX, Enqueue, Respond,
                          RequestFails
<1> QED
  BY <1>1, EnqueuedStays DEF DoneWasEnqueued, Enqueued

(* The worker's "done" stands for an event that was enqueued (tasks.py:85), with
   any number of runs, handlers and faults, and whichever keys expire. *)
THEOREM DoneWasEnqueuedHolds == Spec => []DoneWasEnqueued
<1>1. Init => DoneWasEnqueued
  BY FirstState DEF DoneWasEnqueued
<1>2. Inv /\ DoneWasEnqueued /\ [Next]_vars => DoneWasEnqueued'
  BY NextKeepsDoneWasEnqueued
<1> QED
  BY <1>1, <1>2, Invariance, PTL DEF Spec

-----------------------------------------------------------------------------
(* An event has its key from the claim on, and one handler has the claim. *)
ClaimInv ==
  /\ EnqueuedOnce
  /\ \A m \in Ids : body[m] \in Events => Held(body[m])
  /\ \A r \in Requests : \A e \in claims[r] : Held(e) /\ ~Enqueued(e)
  /\ \A r, q \in Requests : r # q => claims[r] \cap claims[q] = {}

LEMMA NextKeepsClaimInv ==
  ASSUME Inv, ~KeysExpire, ClaimInv, [Next]_vars
  PROVE  ClaimInv'
<1> USE DEF ClaimInv, EnqueuedOnce, Enqueued
<1>0. /\ idem \in [Events -> {"absent", "pending", "done"}]
      /\ claims \in [Requests -> SUBSET Events]
      /\ Foreign \cap Events = {}
  BY ForeignAssumption, PayloadAssumption DEF Inv, TypeOK, KeysTypeOK, ApiTypeOK
<1>1. CASE UNCHANGED <<body, idem, claims>>
  BY <1>1 DEF Ids, Held
<1>2. ASSUME NEW p \in Foreign, XAdd(p), UNCHANGED <<idem, claims>>
      PROVE  ClaimInv'
  <2>1. p \in Payload
    BY ForeignAssumption DEF Payload
  <2>2. /\ Ids' = Ids \cup {Len(body) + 1} /\ Len(body) + 1 \notin Ids
        /\ \A m \in Ids : body'[m] = body[m]
        /\ body'[Len(body) + 1] = p
    BY <1>2, <2>1, BodyGrows
  <2> QED
    BY <1>0, <1>2, <2>2 DEF Held
<1>3. ASSUME NEW m \in Ids, SetDone(body[m]), UNCHANGED <<body, claims>>
      PROVE  ClaimInv'
  <2>1. \A e \in Events : Held(e) => Held(e)'
    BY <1>0, <1>3 DEF SetDone, Held
  <2> QED
    BY <1>0, <1>3, <2>1 DEF Ids
<1>4. ASSUME NEW r \in Requests, NEW e \in Events, ClaimNew(r, e)
      PROVE  ClaimInv'
  <2>1. UNCHANGED body /\ claims' = [claims EXCEPT ![r] = {e}] /\ ~Held(e)
    BY <1>4 DEF ClaimNew, SetNX, streamVars, Held
  <2>2. Held(e)' /\ \A x \in Events : Held(x) => Held(x)'
    BY <1>0, <1>4 DEF ClaimNew, SetNX, Held
  <2>3. ~Enqueued(e) /\ \A q \in Requests : e \notin claims[q]
    BY <2>1
  <2> QED
    BY <1>0, <2>1, <2>2, <2>3 DEF Ids
<1>5. ASSUME NEW r \in Requests, NEW e \in Events, Enqueue(r, e)
      PROVE  ClaimInv'
  <2>1. /\ Ids' = Ids \cup {Len(body) + 1} /\ Len(body) + 1 \notin Ids
        /\ \A m \in Ids : body'[m] = body[m]
        /\ body'[Len(body) + 1] = e
    BY <1>5, BodyGrows DEF Enqueue, Payload
  <2>2. /\ e \in claims[r] /\ claims' = [claims EXCEPT ![r] = {}]
        /\ \A x : Held(x)' <=> Held(x)
    BY <1>5 DEF Enqueue, Held
  <2>3. Held(e) /\ \A m \in Ids : body[m] # e
    BY <2>2
  <2>4. \A q \in Requests \ {r} : e \notin claims[q]
    BY <2>2
  <2>5. \A m \in Ids' : body'[m] \in Events => Held(body'[m])
    BY <2>1, <2>3
  <2>6. \A m, k \in Ids' : body'[m] = body'[k] /\ body'[m] \in Events => m = k
    BY <2>1, <2>3
  <2>7. \A q \in Requests : \A x \in claims'[q] : Held(x) /\ \A m \in Ids' : body'[m] # x
    BY <1>0, <2>1, <2>2, <2>4
  <2>8. \A q, o \in Requests : q # o => claims'[q] \cap claims'[o] = {}
    BY <1>0, <2>2
  <2> QED
    BY <2>2, <2>5, <2>6, <2>7, <2>8
<1>6. ASSUME NEW r \in Requests, Respond(r) \/ RequestFails(r)
      PROVE  ClaimInv'
  <2>1. UNCHANGED <<body, idem>> /\ claims' = [claims EXCEPT ![r] = {}]
    BY <1>6 DEF Respond, RequestFails, EndRequest, streamVars
  <2> QED
    BY <1>0, <2>1 DEF Ids, Held
<1> QED
  BY <1>1, <1>2, <1>3, <1>4, <1>5, <1>6, KeySteps DEF Expire

(* As long as no key expires, an event is in the stream once, however many
   handlers serve its replays at the same time (event_service.py:71-89). *)
THEOREM EnqueuedOnceHolds == ~KeysExpire /\ Spec => []EnqueuedOnce
<1>1. Init => ClaimInv
  BY FirstState DEF ClaimInv, EnqueuedOnce
<1>2. Inv /\ ~KeysExpire /\ ClaimInv /\ [Next]_vars => ClaimInv'
  BY NextKeepsClaimInv
<1>3. ClaimInv => EnqueuedOnce
  BY DEF ClaimInv
<1>4. CASE ~KeysExpire
  <2>1. Inv /\ ClaimInv /\ [Next]_vars => ClaimInv'
    BY <1>2, <1>4
  <2> QED
    BY <1>1, <1>3, <2>1, Invariance, PTL DEF Spec
<1> QED
  BY <1>4

-----------------------------------------------------------------------------
(* A handler has one claim at a time, so none is dropped by the way. *)
BackedInv ==
  /\ DedupIsBacked
  /\ \A r \in Requests : \A e, f \in claims[r] : e = f

LEMMA NextKeepsBackedInv ==
  ASSUME Inv, ~RequestFaults, BackedInv, [Next]_vars
  PROVE  BackedInv'
<1>0. /\ idem \in [Events -> {"absent", "pending", "done"}]
      /\ claims \in [Requests -> SUBSET Events]
      /\ \A r \in Requests : claims[r] \subseteq unserved[r]
  BY DEF Inv, TypeOK, KeysTypeOK, ApiTypeOK
<1>1. /\ \A r \in Requests : \A e, f \in claims[r] : e = f
      /\ \A e \in Events : Held(e) => Enqueued(e) \/ \E r \in Requests : e \in claims[r]
  BY DEF BackedInv, DedupIsBacked, Enqueued
<1>2. \A e : Enqueued(e) => Enqueued(e)'
  BY EnqueuedStays
<1> SUFFICES
      /\ \A r \in Requests : \A e, f \in claims'[r] : e = f
      /\ \A e \in Events :
           Held(e)' => Enqueued(e)' \/ \E r \in Requests : e \in claims'[r]
  BY DEF BackedInv, DedupIsBacked, Enqueued
<1>3. CASE UNCHANGED <<idem, claims>>
  BY <1>1, <1>2, <1>3 DEF Held
<1>4. CASE (\E e \in Events : Expire(e)) /\ UNCHANGED claims
  <2>1. \A x \in Events : Held(x)' => Held(x)
    BY <1>0, <1>4 DEF Expire, Held
  <2> QED
    BY <1>1, <1>2, <1>4, <2>1
<1>5. ASSUME NEW m \in Ids, SetDone(body[m]), UNCHANGED claims
      PROVE  \A x \in Events : Held(x)' => Held(x) \/ Enqueued(x)
  BY <1>0, <1>5 DEF SetDone, Held, Enqueued
<1>6. ASSUME NEW r \in Requests, NEW e \in Events, ClaimNew(r, e)
      PROVE  /\ claims[r] = {} /\ claims' = [claims EXCEPT ![r] = {e}]
             /\ \A x \in Events : Held(x)' => Held(x) \/ x = e
  BY <1>0, <1>6 DEF ClaimNew, SetNX, Held
<1>7. ASSUME NEW r \in Requests, NEW e \in Events, Enqueue(r, e)
      PROVE  /\ e \in claims[r] /\ claims' = [claims EXCEPT ![r] = {}]
             /\ Enqueued(e)' /\ \A x : Held(x)' <=> Held(x)
  <2>1. e \in claims[r] /\ claims' = [claims EXCEPT ![r] = {}] /\ UNCHANGED idem
    BY <1>7 DEF Enqueue
  <2>2. Enqueued(e)'
    BY <1>7, BodyGrows DEF Enqueue, Payload, Enqueued
  <2> QED
    BY <2>1, <2>2 DEF Held
<1>8. ASSUME NEW r \in Requests, Respond(r)
      PROVE  UNCHANGED <<idem, claims>>
  <2>1. UNCHANGED idem /\ claims' = [claims EXCEPT ![r] = {}] /\ unserved[r] = {}
    BY <1>8 DEF Respond, EndRequest
  <2>2. claims[r] = {}
    BY <1>0, <2>1
  <2> QED
    BY <1>0, <2>1, <2>2
<1>9. \A r \in Requests : ~RequestFails(r)
  BY DEF RequestFails
<1>10. ASSUME NEW r \in Requests, NEW e \in Events, ClaimNew(r, e)
       PROVE  /\ \A q \in Requests : \A x, f \in claims'[q] : x = f
              /\ \A x \in Events :
                   Held(x)' => Enqueued(x)' \/ \E q \in Requests : x \in claims'[q]
  BY <1>0, <1>1, <1>2, <1>6, <1>10
<1>11. ASSUME NEW r \in Requests, NEW e \in Events, Enqueue(r, e)
       PROVE  /\ \A q \in Requests : \A x, f \in claims'[q] : x = f
              /\ \A x \in Events :
                   Held(x)' => Enqueued(x)' \/ \E q \in Requests : x \in claims'[q]
  <2>1. /\ e \in claims[r] /\ claims' = [claims EXCEPT ![r] = {}]
        /\ Enqueued(e)' /\ \A x : Held(x)' <=> Held(x)
    BY <1>7, <1>11
  <2> QED
    BY <1>0, <1>1, <1>2, <2>1
<1>12. ASSUME NEW m \in Ids, SetDone(body[m]), UNCHANGED claims
       PROVE  \A x \in Events :
                Held(x)' => Enqueued(x)' \/ \E q \in Requests : x \in claims'[q]
  BY <1>1, <1>2, <1>5, <1>12
<1> QED
  BY <1>1, <1>3, <1>4, <1>8, <1>9, <1>10, <1>11, <1>12, KeySteps

(* As long as no handler fails between its claim and its XADD, a key never
   answers "deduplicated" for an event that is lost (event_service.py:71-89). *)
THEOREM DedupIsBackedHolds == ~RequestFaults /\ Spec => []DedupIsBacked
<1>1. Init => BackedInv
  BY FirstState DEF BackedInv, DedupIsBacked, Held
<1>2. BackedInv => DedupIsBacked
  BY DEF BackedInv
<1>3. CASE ~RequestFaults
  <2>1. Inv /\ BackedInv /\ [Next]_vars => BackedInv'
    BY <1>3, NextKeepsBackedInv
  <2> QED
    BY <1>1, <1>2, <2>1, Invariance, PTL DEF Spec
<1> QED
  BY <1>3

-----------------------------------------------------------------------------
(* An event is enqueued, or a handler is about to enqueue it. *)
Backed(e) == Enqueued(e) \/ \E r \in Requests : e \in claims[r]

(* What a handler is done with, and what a client has an answer for, is backed. *)
ServedInv ==
  /\ \A e \in answered : Backed(e)
  /\ \A r \in Requests : \A e \in serving[r] \ unserved[r] : Backed(e)

LEMMA BackedStays ==
  ASSUME Inv, ~RequestFaults, BackedInv, [Next]_vars, NEW e, Backed(e)
  PROVE  Backed(e)'
<1>1. CASE Enqueued(e)
  BY <1>1, EnqueuedStays DEF Backed
<1>2. ASSUME NEW r \in Requests, e \in claims[r]
      PROVE  Backed(e)'
  <2>1. /\ claims \in [Requests -> SUBSET Events] /\ claims[r] \subseteq unserved[r]
        /\ \A x \in claims[r] : x = e
    BY <1>2 DEF Inv, TypeOK, ApiTypeOK, BackedInv
  <2>2. CASE e \in claims'[r]
    BY <2>2 DEF Backed
  <2>3. CASE Enqueue(r, e)
    <3>1. e \in Payload /\ XAdd(e)
      BY <1>2, <2>1, <2>3 DEF Enqueue, Payload
    <3> QED
      BY <3>1, BodyGrows DEF Backed, Enqueued
  <2>4. e \in claims'[r] \/ Enqueue(r, e)
    <3>1. ASSUME NEW q \in Requests, NEW x \in Events, ClaimNew(q, x) \/ Enqueue(q, x)
          PROVE  e \in claims'[r] \/ Enqueue(r, e)
      BY <1>2, <2>1, <3>1 DEF ClaimNew, Enqueue
    <3>2. ASSUME NEW q \in Requests, Respond(q)
          PROVE  e \in claims'[r]
      BY <1>2, <2>1, <3>2 DEF Respond, EndRequest
    <3> QED
      BY <1>2, <3>1, <3>2, KeySteps DEF RequestFails
  <2> QED
    BY <2>2, <2>3, <2>4
<1> QED
  BY <1>1, <1>2 DEF Backed

LEMMA NextKeepsServedInv ==
  ASSUME Inv, ~RequestFaults, BackedInv, ServedInv, [Next]_vars
  PROVE  ServedInv'
<1> USE DEF ServedInv, Inv, TypeOK, ApiTypeOK
<1>1. \A e : Backed(e) => Backed(e)'
  BY BackedStays
<1>2. CASE UNCHANGED <<serving, unserved, answered>>
  BY <1>1, <1>2
<1>3. ASSUME NEW r \in Requests, NEW batch \in SUBSET Events, Receive(r, batch)
      PROVE  ServedInv'
  BY <1>1, <1>3 DEF Receive
<1>4. ASSUME NEW r \in Requests, NEW e \in Events, Deduplicate(r, e) \/ Enqueue(r, e)
      PROVE  ServedInv'
  <2>1. /\ UNCHANGED <<serving, answered>>
        /\ unserved' = [unserved EXCEPT ![r] = @ \ {e}]
    BY <1>4 DEF Deduplicate, Enqueue
  <2>2. Backed(e)
    BY <1>4 DEF Deduplicate, Enqueue, BackedInv, DedupIsBacked, Backed, Enqueued
  <2> QED
    BY <1>1, <2>1, <2>2
<1>5. ASSUME NEW r \in Requests, Respond(r)
      PROVE  ServedInv'
  BY <1>1, <1>5 DEF Respond, EndRequest
<1>6. \/ UNCHANGED <<serving, unserved, answered>>
      \/ \E r \in Requests : RequestStep(r)
  BY DEF Next, vars, StartConsumerGroup, TimePasses, ForeignEnqueue, ExpireKey, JobProgress,
         JobFailure, apiVars
<1> QED
  BY <1>2, <1>3, <1>4, <1>5, <1>6
     DEF RequestStep, ApiStep, Serve, ClaimNew, RequestFails

(* As long as no handler fails half-way, an event that a client has a 2xx answer for is
   in the stream, the table or the dead letter stream, or about to be enqueued, or it
   went through a leak, whichever keys expire and runs fail (event_service.py:71-89,
   tasks.py:108-185). *)
THEOREM AcceptedIsSafeHolds == ~RequestFaults /\ Spec => []AcceptedIsSafe
<1>1. Init => BackedInv /\ ServedInv
  BY FirstState DEF BackedInv, DedupIsBacked, Held, ServedInv, Init, ApiInit
<1>2. Inv /\ ServedInv => AcceptedIsSafe
  BY InvImpliesLossOnlyByRollback
     DEF ServedInv, Backed, Enqueued, LossOnlyByRollback, AcceptedIsSafe
<1>3. CASE ~RequestFaults
  <2>1. Inv /\ BackedInv /\ [Next]_vars => BackedInv'
    BY <1>3, NextKeepsBackedInv
  <2>2. Inv /\ BackedInv /\ ServedInv /\ [Next]_vars => ServedInv'
    BY <1>3, NextKeepsServedInv
  <2> QED
    BY <1>1, <1>2, <2>1, <2>2, Invariance, PTL DEF Spec
<1> QED
  BY <1>3

-----------------------------------------------------------------------------
(* A row that is not counted yet is the one its run has just inserted. *)
JustInserted(j, e) ==
  pc[j] = "inserted" /\ \E i \in todo[j] : Current(j, i) /\ body[i.id] = e

HandCounted(j) == \A e \in rows[j] : e \in hll \/ JustInserted(j, e)

CountedInv == StoredIsCounted /\ \A j \in Jobs : HandCounted(j)

LEMMA CountedRule ==
  ASSUME Inv, CountedInv, NEW j \in Jobs, UNCHANGED body, hll \subseteq hll',
         \A e \in events' : e \in events \cup hll',
         \A o \in Jobs \ {j} : UNCHANGED <<pc[o], todo[o], rows[o]>>,
         HandCounted(j)'
  PROVE  CountedInv'
<1>1. \A o \in Jobs \ {j} : HandCounted(o)'
  BY DEF CountedInv, HandCounted, JustInserted, Current
<1> QED
  BY <1>1 DEF CountedInv, StoredIsCounted

(* Elsewhere than after an INSERT a run has counted all its rows. *)
LEMMA CountedElsewhere ==
  ASSUME Inv, CountedInv, NEW j \in Jobs, UNCHANGED <<body, events, hll>>,
         pc[j] # "inserted", rows'[j] \subseteq rows[j],
         \A o \in Jobs \ {j} : UNCHANGED <<pc[o], todo[o], rows[o]>>
  PROVE  CountedInv'
<1>1. HandCounted(j)'
  BY DEF CountedInv, HandCounted, JustInserted
<1> QED
  BY <1>1, CountedRule

LEMMA AbandonKeepsCountedInv ==
  ASSUME Inv, CountedInv, NEW j \in Jobs, Abandon(j), UNCHANGED streamVars
  PROVE  CountedInv'
<1> USE WorkerAssumption DEF Abandon, Goto, Rollback, Inv, TypeOK, WorkerTypeOK,
        TableTypeOK, streamVars
<1>1. HandCounted(j)'
  BY DEF HandCounted
<1>2. \A o \in Jobs \ {j} : UNCHANGED <<pc[o], todo[o], rows[o]>>
  OBVIOUS
<1> QED
  BY <1>1, <1>2, CountedRule

LEMMA InsertKeepsCountedInv ==
  ASSUME Inv, CountedInv, NEW j \in Jobs, NEW i \in todo[j],
         Insert(j, i) \/ Conflict(j, i)
  PROVE  CountedInv'
<1> USE WorkerAssumption DEF Inv, TypeOK, WorkerTypeOK, TableTypeOK, streamVars, Goto
<1>1. CASE Conflict(j, i)
  <2>1. pc[j] = "work" /\ UNCHANGED <<body, events, rows, hll, todo>>
    BY <1>1 DEF Conflict, AtItem, InsertConflict
  <2>2. \A o \in Jobs \ {j} : pc'[o] = pc[o]
    BY <1>1 DEF Conflict
  <2> QED
    BY <2>1, <2>2, CountedElsewhere
<1>2. CASE Insert(j, i)
  <2>1. PICK e \in Events : AtItem(j, i, e) /\ InsertRow(j, e)
    BY <1>2 DEF Insert
  <2>2. /\ pc[j] = "work" /\ pc'[j] = "inserted" /\ Current(j, i) /\ body[i.id] = e
        /\ UNCHANGED <<body, todo, hll, events>>
    BY <1>2, <2>1 DEF Insert, AtItem, InsertRow
  <2>3. rows'[j] = rows[j] \cup {e}
    BY <2>1 DEF InsertRow
  <2>4. JustInserted(j, e)'
    BY <2>2 DEF JustInserted, Current
  <2>5. HandCounted(j)'
    BY <2>2, <2>3, <2>4 DEF CountedInv, HandCounted, JustInserted
  <2>6. \A o \in Jobs \ {j} : UNCHANGED <<pc[o], todo[o], rows[o]>>
    BY <1>2, <2>1 DEF Insert, InsertRow
  <2> QED
    BY <2>2, <2>5, <2>6, CountedRule
<1> QED
  BY <1>1, <1>2

LEMMA CountUserKeepsCountedInv ==
  ASSUME Inv, CountedInv, NEW j \in Jobs, NEW i \in todo[j], CountUser(j, i)
  PROVE  CountedInv'
<1> USE DEF Inv, TypeOK, WorkerTypeOK, streamVars, tableVars, Goto
<1>1. \A k \in todo[j] : Current(j, k) => k = i
  BY CurrentIsUnique DEF CountUser
<1>2. HandCounted(j)'
  BY <1>1 DEF CountUser, CountedInv, HandCounted, JustInserted
<1>3. \A o \in Jobs \ {j} : UNCHANGED <<pc[o], todo[o], rows[o]>>
  BY DEF CountUser
<1> QED
  BY <1>2, <1>3, CountedRule DEF CountUser

LEMMA CommitKeepsCountedInv ==
  ASSUME Inv, CountedInv, NEW j \in Jobs, CommitBatch(j)
  PROVE  CountedInv'
<1> USE WorkerAssumption DEF Inv, TypeOK, WorkerTypeOK, TableTypeOK, streamVars, Goto
<1>1. rows[j] \subseteq hll
  BY DEF CommitBatch, CountedInv, HandCounted, JustInserted
<1>2. events' \subseteq events \cup rows[j] /\ rows'[j] = {}
      /\ \A o \in Jobs \ {j} : rows'[o] = rows[o]
  BY DEF CommitBatch, Commit
<1>3. HandCounted(j)'
  BY <1>2 DEF HandCounted
<1>4. \A o \in Jobs \ {j} : UNCHANGED <<pc[o], todo[o], rows[o]>>
  BY <1>2 DEF CommitBatch
<1> QED
  BY <1>1, <1>2, <1>3, <1>4, CountedRule DEF CommitBatch

LEMMA RunKeepsCountedInv ==
  ASSUME Inv, "redis" \notin Faults, CountedInv, NEW j \in Jobs,
         JobProgress(j) \/ JobFailure(j)
  PROVE  CountedInv'
<1> USE DEF Inv, TypeOK, WorkerTypeOK
<1>1. CASE ReadFresh(j) \/ Reclaim(j) \/ CountDeliveries(j) \/ Ack(j)
  <2>1. pc[j] # "inserted" /\ UNCHANGED <<body, events, rows, hll>>
    BY <1>1 DEF ReadFresh, XReadGroup, Reclaim, XAutoClaim, CountDeliveries, Count,
                Ack, streamVars, tableVars
  <2>2. \A o \in Jobs \ {j} : UNCHANGED <<pc[o], todo[o]>>
    BY <1>1 DEF ReadFresh, Reclaim, CountDeliveries, Count, EnterLoop, Ack, Goto
  <2> QED
    BY <2>1, <2>2, CountedElsewhere
<1>2. CASE CommitBatch(j)
  BY <1>2, CommitKeepsCountedInv
<1>3. CASE CommitRaises(j) \/ CommandRaises(j) \/ Crash(j)
  BY <1>3, AbandonKeepsCountedInv DEF CommitRaises, CommandRaises, Crash
<1>4. ASSUME NEW i \in todo[j], UnpackRaises(j, i)
      PROVE  CountedInv'
  BY <1>4, AbandonKeepsCountedInv DEF UnpackRaises
<1>5. ASSUME NEW i \in todo[j],
             \/ Reject(j, i) \/ RejectInvalid(j, i)
             \/ InsertRaises(j, i) \/ InsertUnreached(j, i)
      PROVE  CountedInv'
  <2>1. pc[j] = "work" /\ \E burial \in {"buryinvalid", "bury"} : GiveUpOrLeave(j, i, burial)
    BY <1>5 DEF Reject, RejectInvalid, InsertRaises, InsertUnreached, AtItem
  <2>2. UNCHANGED <<body, hll, events, rows>>
    BY <1>5 DEF Reject, RejectInvalid, InsertRaises, InsertRefused, InsertInFailed, InsertVictim,
                InsertUnreached, InsertUnconnected, streamVars, tableVars
  <2>3. \A o \in Jobs \ {j} : UNCHANGED <<pc[o], todo[o]>>
    BY <2>1 DEF GiveUpOrLeave, Goto, Drop
  <2> QED
    BY <2>1, <2>2, <2>3, CountedElsewhere
<1>6. ASSUME NEW i \in todo[j], Insert(j, i) \/ Conflict(j, i)
      PROVE  CountedInv'
  BY <1>6, InsertKeepsCountedInv
<1>7. ASSUME NEW i \in todo[j], CountUser(j, i)
      PROVE  CountedInv'
  BY <1>7, CountUserKeepsCountedInv
<1>8. ASSUME NEW i \in todo[j], MarkWritten(j, i) \/ Bury(j, i) \/ BuryAck(j, i)
      PROVE  CountedInv'
  <2>1. pc[j] # "inserted" /\ UNCHANGED <<body, events, rows, hll>>
    BY <1>8 DEF MarkWritten, Bury, XAddDlq, BuryAck, streamVars, tableVars
  <2>2. \A o \in Jobs \ {j} : UNCHANGED <<pc[o], todo[o]>>
    BY <1>8 DEF MarkWritten, Bury, BuryAck, Goto, Drop
  <2> QED
    BY <2>1, <2>2, CountedElsewhere
<1>9. /\ ~ReclaimFails(j) /\ ~CountFails(j)
      /\ \A i \in todo[j] : ~MarkRaises(j, i) /\ ~BuryRaises(j, i) /\ ~BuryAckRaises(j, i)
  BY DEF ReclaimFails, CountFails, MarkRaises, BuryRaises, BuryAckRaises
<1> QED
  BY <1>1, <1>2, <1>3, <1>4, <1>5, <1>6, <1>7, <1>8, <1>9
     DEF JobProgress, JobFailure, Progress, Failure

LEMMA CountedAside ==
  ASSUME Inv, CountedInv, UNCHANGED <<tableVars, workerVars>>,
         \A m \in Ids : body'[m] = body[m]
  PROVE  CountedInv'
<1>1. \A j \in Jobs : \A i \in todo[j] : i.id \in Ids
  BY LenProperties DEF Inv, TypeOK, StreamTypeOK, WorkerTypeOK, Items, Ids
<1>2. \A j \in Jobs : HandCounted(j)'
  BY <1>1 DEF CountedInv, HandCounted, JustInserted, Current, tableVars, workerVars
<1> QED
  BY <1>2 DEF CountedInv, StoredIsCounted, tableVars, workerVars

LEMMA NextKeepsCountedInv ==
  ASSUME Inv, "redis" \notin Faults, CountedInv, [Next]_vars
  PROVE  CountedInv'
<1>1. ASSUME NEW j \in Jobs, JobProgress(j) \/ JobFailure(j)
      PROVE  CountedInv'
  BY <1>1, RunKeepsCountedInv
<1>2. \A p \in Payload : XAdd(p) => \A m \in Ids : body'[m] = body[m]
  BY BodyGrows
<1>3. Foreign \cup Events \subseteq Payload
  BY ForeignAssumption DEF Payload
<1>4. CASE UNCHANGED vars \/ StartConsumerGroup \/ TimePasses
  BY <1>4, CountedAside
     DEF vars, StartConsumerGroup, EnsureGroup, TimePasses, Tick, streamVars
<1>5. ASSUME NEW p \in Foreign, ForeignEnqueue(p)
      PROVE  CountedInv'
  BY <1>2, <1>3, <1>5, CountedAside DEF ForeignEnqueue
<1>6. ASSUME NEW e \in Events, ExpireKey(e)
      PROVE  CountedInv'
  BY <1>6, CountedAside DEF ExpireKey, streamVars
<1>7. ASSUME NEW r \in Requests, RequestStep(r)
      PROVE  CountedInv'
  <2>1. UNCHANGED <<tableVars, workerVars>>
    BY <1>7 DEF RequestStep
  <2>2. \A m \in Ids : body'[m] = body[m]
    BY <1>2, <1>3, <1>7
       DEF RequestStep, ApiStep, Serve, Receive, ClaimNew, Deduplicate, Enqueue,
           Respond, RequestFails, streamVars
  <2> QED
    BY <2>1, <2>2, CountedAside
<1> QED
  BY <1>1, <1>4, <1>5, <1>6, <1>7 DEF Next

(* As long as Redis answers, every committed event was counted in the HyperLogLog
   of its day before (tasks.py:79-84), whatever runs overlap, crash and lose their
   connections. *)
THEOREM StoredIsCountedHolds == "redis" \notin Faults /\ Spec => []StoredIsCounted
<1>1. Init => CountedInv
  BY WorkerAssumption DEF Init, TableInit, CountedInv, StoredIsCounted, HandCounted
<1>2. CountedInv => StoredIsCounted
  BY DEF CountedInv
<1>3. CASE "redis" \notin Faults
  <2>1. Inv /\ CountedInv /\ [Next]_vars => CountedInv'
    BY <1>3, NextKeepsCountedInv
  <2> QED
    BY <1>1, <1>2, <2>1, Invariance, PTL DEF Spec
<1> QED
  BY <1>3

=============================================================================
