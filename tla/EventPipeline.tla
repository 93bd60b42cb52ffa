--------------------------- MODULE EventPipeline ---------------------------
(***************************************************************************)
(* The asynchronous write path end to end: API handlers (IngestApi), the   *)
(* stream (EventStream), overlapping worker runs (Worker), the table they  *)
(* write to (EventsTable), and the idempotency keys (IdempotencyKeys)      *)
(* that both the API and the worker set.                                   *)
(***************************************************************************)
EXTENDS IngestApi, Worker

CONSTANT
  Foreign   \* payloads some other program may add to the stream

ASSUME ForeignAssumption == Foreign \subseteq {Malformed, Invalid, NotAnObject}

vars == <<streamVars, tableVars, idem, workerVars, apiVars>>

TypeOK ==
  /\ StreamTypeOK
  /\ TableTypeOK
  /\ KeysTypeOK
  /\ WorkerTypeOK
  /\ ApiTypeOK

Init ==
  /\ StreamInit
  /\ TableInit
  /\ KeysInit
  /\ WorkerInit
  /\ ApiInit

-----------------------------------------------------------------------------
\* Start of an API process, of a worker or of scripts/ensure_stream.py. The API
\* goes on without a group when this fails; a worker does not.
StartConsumerGroup ==
  /\ EnsureGroup
  /\ UNCHANGED <<tableVars, idem, workerVars, apiVars>>

\* Another program adds a message to the stream.
ForeignEnqueue(p) ==
  /\ RoomFor(1)
  /\ p \notin {body[m] : m \in Ids}
  /\ XAdd(p)
  /\ UNCHANGED <<tableVars, idem, workerVars, apiVars>>

ExpireKey(e) ==
  /\ Expire(e)
  /\ UNCHANGED <<streamVars, tableVars, workerVars, apiVars>>

TimePasses ==
  /\ Tick
  /\ UNCHANGED <<tableVars, idem, workerVars, apiVars>>

JobProgress(j) == Progress(j) /\ UNCHANGED apiVars
JobFailure(j) == Failure(j) /\ UNCHANGED apiVars

ServeStep(r) == Serve(r) /\ UNCHANGED <<tableVars, workerVars>>
RequestStep(r) == ApiStep(r) /\ UNCHANGED <<tableVars, workerVars>>

Next ==
  \/ StartConsumerGroup
  \/ TimePasses
  \/ \E p \in Foreign : ForeignEnqueue(p)
  \/ \E e \in Events : ExpireKey(e)
  \/ \E j \in Jobs : JobProgress(j) \/ JobFailure(j)
  \/ \E r \in Requests : RequestStep(r)

Spec == Init /\ [][Next]_vars

\* Both processes are started and keep running, the clock advances, cron starts
\* runs, and a run or a handler that can go on does.
Fairness ==
  /\ WF_vars(StartConsumerGroup)
  /\ WF_vars(TimePasses)
  /\ \A j \in Jobs : WF_vars(JobProgress(j))
  /\ \A r \in Requests : WF_vars(ServeStep(r))

FairSpec == Spec /\ Fairness

-----------------------------------------------------------------------------
\* The message's row was lost in a COMMIT that PostgreSQL executed as a
\* ROLLBACK, or the message was dropped by MAXLEN: the two ways to lose it.
RolledBack(m) == body[m] \in discarded
Settled(m) == body[m] \in events \/ m \in dlq
Safe(m) == m \in Outstanding \/ Settled(m)

(* At-least-once delivery up to the two leaks the code has: every message that
   was ever enqueued is unread, or pending, or its event is committed, or it is
   in the dead letter stream, or MAXLEN trimmed it, or its row was discarded by
   a silent rollback. Whatever runs overlap, fail, crash or are retried, the
   XACK of ack_messages (tasks.py:177) and of dead_letter (streams.py:195) and
   the group's start position lose nothing else. *)
LossOnlyByRollback ==
  \A m \in Ids : Safe(m) \/ m \in trimmed \/ RolledBack(m)

\* The parts of the inductive invariant behind LossOnlyByRollback. An id that a
\* run has put into ids_to_ack, or is about to put there, is Written.
Written(j, m) == body[m] \in events \cup rows[j] \cup discarded

GroupBeforeDelivery == ~group => lastDelivered = 0

EntriesAccountedFor == \A m \in Ids : m \in entries \cup trimmed \cup dlq

DeliveriesAccountedFor ==
  \A m \in 1..lastDelivered :
    m \in pel \/ m \in trimmed \/ Settled(m) \/ RolledBack(m)

WrittenBeforeAck == \A j \in Jobs : \A m \in acks[j] : Written(j, m)

CommittedBeforeAck == \A j \in Jobs : pc[j] = "ack" => rows[j] = {}

WrittenBeforeMark ==
  \A j \in Jobs : \A i \in todo[j] :
    pc[j] \in {"inserted", "mark"} /\ Current(j, i)
      => body[i.id] \in Events /\ Written(j, i.id)

BuriedBeforeAck ==
  \A j \in Jobs : \A i \in todo[j] :
    pc[j] \in {"ackinvalid", "buryack"} /\ Current(j, i) => i.id \in dlq

(* What every step of the pipeline keeps, and why nothing else is lost: a run
   acknowledges only what it has written in the transaction it committed, or
   what it found committed (tasks.py:156, 175-177), and buries before it
   acknowledges (streams.py:189-199); the group hands out every entry. *)
LossInvariant ==
  /\ GroupBeforeDelivery
  /\ EntriesAccountedFor
  /\ DeliveriesAccountedFor
  /\ WrittenBeforeAck
  /\ CommittedBeforeAck
  /\ WrittenBeforeMark
  /\ BuriedBeforeAck

(* docs/architecture.md:46 promises at-least-once delivery by "Consumer group +
   explicit ACK": a message that MAXLEN has not trimmed is never lost. *)
AtLeastOnce == \A m \in Ids : Safe(m) \/ m \in trimmed

(* A message is dead-lettered (tasks.py:126, 141, 164) only after Redis has
   delivered it event_max_deliveries times, although the count that is compared
   was read by another command than the one that delivered the message, and
   other runs may reclaim or bury the message in between. *)
DeadLetterOnlyAfterMaxDeliveries ==
  \A m \in dlq : times[m] >= MaxDeliveries

\* Run j is in dead_letter.
Burying(j) == pc[j] \in {"buryinvalid", "ackinvalid", "bury", "buryack"}

(* The counts behind it: a run never believes in more deliveries than there
   were, and it is about to bury a message only at the limit. *)
CountInvariant ==
  /\ DeadLetterOnlyAfterMaxDeliveries
  /\ \A j \in Jobs : \A m \in claimed[j] : times[m] >= 1
  /\ \A j \in Jobs : \A i \in todo[j] :
       /\ i.n <= times[i.id]
       /\ Burying(j) /\ Current(j, i) => i.n >= MaxDeliveries

(* A dead-lettered message is not in the table as well, so that replaying the
   dead letter stream by hand restores exactly what is missing. True only while one
   run works at a time, nothing fails and no key expires: overlapping runs, a Redis
   failure after the INSERT, a crash after the COMMIT or an event enqueued twice put
   a message in both places (tasks.py:157-177). *)
DeadLetteredIsUnstored == \A m \in dlq : body[m] \notin events

(* ingest_one answers "deduplicated" on the strength of the key alone
   (event_service.py:82): a key that exists has a message behind it, or a
   handler that is about to enqueue one. *)
DedupIsBacked ==
  \A e \in Events :
    Held(e) => \/ \E m \in Ids : body[m] = e
               \/ \E r \in Requests : e \in claims[r]

(* A 2xx answer, "queued" or "deduplicated" (event_service.py:71-89), is kept from
   the moment it is given: the event is safe in the stream, the table or the dead
   letter stream, or another handler that has its key is about to enqueue it, or it
   went through one of the two leaks. *)
AcceptedIsSafe ==
  \A e \in answered :
    \/ \E m \in Ids : body[m] = e /\ (Safe(m) \/ m \in trimmed \/ RolledBack(m))
    \/ \E r \in Requests : e \in claims[r]

(* The NX claim lets an event into the stream once, whichever handlers serve
   its replays at the same time (event_service.py:71-89). *)
EnqueuedOnce ==
  \A m, k \in Ids : body[m] = body[k] /\ body[m] \in Events => m = k

(* The worker's SET "done" (tasks.py:85) precedes the commit, so "done" does
   not mean stored; but it means that the event was enqueued. *)
DoneWasEnqueued ==
  \A e \in Events : idem[e] = "done" => \E m \in Ids : body[m] = e

(* Every committed event has been counted in the day's HyperLogLog first
   (tasks.py:79-84), though PFADD is skipped on every later delivery. *)
StoredIsCounted == events \subseteq hll

(* From some moment on every step is one that happens without faults as well. *)
FaultsStop ==
  <>[][\A j \in Jobs : JobFailure(j) => JobProgress(j)]_vars

(* An event that a client was told is queued or deduplicated ends up in the
   table or in the dead letter stream, or MAXLEN trims it: a finite number of
   crashes, Redis failures and lost connections delays it (tasks.py:173,
   streams.py:123) and cannot lose it. *)
AcceptedIsSettled ==
  FaultsStop =>
    \A e \in Events :
      e \in answered ~>
        e \in events \/ \E m \in dlq \cup trimmed : body[m] = e

(* docs/architecture.md:48: a poison message, whose delivery count reaches the
   maximum, goes to the dead letter stream (and no longer keeps others up). *)
PoisonIsBuried ==
  FaultsStop =>
    \A p \in Foreign :
      (\E m \in Ids : body[m] = p) ~>
        (\E m \in dlq \cup trimmed : body[m] = p)

(* "ACK original so PEL does not grow forever" (streams.py:181): no message
   stays pending, not even one whose entry MAXLEN trimmed meanwhile. *)
PelDrains == FaultsStop => \A m \in 1..MaxMsg : m \in pel ~> m \notin pel

\* The commands of a run in their order; those from "work" to "buryack" are issued
\* for one message of the list after the other. The dead_letter of the exception
\* handler comes after the one inside of the try.
Place(s) ==
  CASE s = "claim" -> 1 [] s = "count" -> 2
    [] s = "work" -> 3 [] s = "inserted" -> 4 [] s = "mark" -> 5
    [] s = "buryinvalid" -> 6 [] s = "ackinvalid" -> 7
    [] s = "bury" -> 8 [] s = "buryack" -> 9
    [] s = "ack" -> 10
InLoop(s) == s \in {"work", "inserted", "mark", "buryinvalid", "ackinvalid", "bury",
                   "buryack"}

\* Run j ends, or goes on to a later command, or to a shorter list.
Advances(j) ==
  \/ pc'[j] = "idle"
  \/ /\ pc'[j] # "idle" /\ Place(pc[j]) < Place(pc'[j])
     /\ InLoop(pc[j]) => todo'[j] = todo[j]
  \/ /\ InLoop(pc[j]) /\ InLoop(pc'[j])
     /\ todo'[j] \subseteq todo[j] /\ todo'[j] # todo[j]

(* No run goes back to a message or a command, whatever fails in it and whoever takes
   its messages meanwhile (tasks.py:93-194): a message is inserted at most once in a
   run, dead_letter is issued for it at most twice (again only after Redis failed in
   the first for an invalid event, tasks.py:140-171), then the run ends or goes on to
   the next message; and no other step touches the list. *)
RunsAdvance ==
  [][\A j \in Jobs : pc[j] # "idle" =>
       IF JobProgress(j) \/ JobFailure(j) THEN Advances(j)
       ELSE UNCHANGED <<pc[j], todo[j]>>]_vars

(* Overlapping runs hold up each other on the UNIQUE event_id, in opposite
   orders when one reclaims what the other reads (tasks.py:108-139), and a
   failed message stays in the loop's transaction: still every run ends. *)
RunsEnd == \A j \in Jobs : pc[j] # "idle" ~> pc[j] = "idle"

(* The pipeline implements the abstract specification of its promise: a message
   stops being unread or pending only once it is stored or dead-lettered. *)
Delivery == INSTANCE EventDelivery
  WITH log <- body, open <- Outstanding, stored <- events, dead <- dlq
ImplementsDelivery == Delivery!Spec

=============================================================================
