------------------------------- MODULE Worker -------------------------------
(***************************************************************************)
(* The worker's job process_event_stream (app/workers/tasks.py): read a    *)
(* batch from the stream, add the reclaimed messages, insert them in one   *)
(* database transaction, commit, acknowledge.                              *)
(*                                                                         *)
(* Cron starts a run every five seconds and a run may take 300, so up to   *)
(* max_jobs runs overlap, in one worker process or several. All of them    *)
(* use the one consumer name of the settings: to Redis they are the same   *)
(* consumer. Each element of Jobs is a slot that executes runs one after   *)
(* the other; the database session of a run is named after its slot.       *)
(*                                                                         *)
(* A step of a run is one command to Redis or PostgreSQL with the local    *)
(* computation that follows it up to the next await.                       *)
(***************************************************************************)
EXTENDS EventStream, EventsTable, IdempotencyKeys

CONSTANTS
  Jobs,    \* runs of process_event_stream that may overlap
  Faults   \* which of "redis", "db", "crash" may happen

ASSUME WorkerAssumption ==
  /\ Jobs \subseteq Sessions
  /\ Faults \subseteq {"redis", "db", "crash"}

VARIABLES
  pc,       \* pc[j]: the command run j is about to issue
  claimed,  \* claimed[j]: ids XAUTOCLAIM returned, before they are counted
  todo,     \* todo[j]: what is left of the run's list "work"
  acks,     \* acks[j]: the run's ids_to_ack
  hll       \* events whose user was added to the day's HyperLogLog

workerVars == <<pc, claimed, todo, acks, hll>>

Steps == {"idle", "claim", "count", "work", "inserted", "mark", "buryinvalid",
          "ackinvalid", "bury", "buryack", "ack"}

\* An entry of "work": message id, delivery count, and whether it comes from
\* the reclaimed part of the list, which follows the fresh part.
Items == [id : Nat \ {0}, n : 0..MaxDeliveries, again : BOOLEAN]

WorkerTypeOK ==
  /\ pc \in [Jobs -> Steps]
  /\ claimed \in [Jobs -> SUBSET (1..lastDelivered)]
  /\ todo \in [Jobs -> SUBSET Items]
  /\ \A j \in Jobs : \A i \in todo[j] : i.id <= lastDelivered
  /\ acks \in [Jobs -> SUBSET (1..lastDelivered)]
  /\ hll \subseteq Events

WorkerInit ==
  /\ pc = [j \in Jobs |-> "idle"]
  /\ claimed = [j \in Jobs |-> {}]
  /\ todo = [j \in Jobs |-> {}]
  /\ acks = [j \in Jobs |-> {}]
  /\ hll = {}

-----------------------------------------------------------------------------
\* Order of the list: the fresh part before the reclaimed one, each by id.
Precedes(a, b) == \/ ~a.again /\ b.again
                  \/ a.again = b.again /\ a.id < b.id

\* i is the item the loop of run j has reached.
Current(j, i) == i \in todo[j] /\ \A o \in todo[j] : o = i \/ Precedes(i, o)

Drop(j, i) == todo' = [todo EXCEPT ![j] = @ \ {i}]
Goto(j, step) == pc' = [pc EXCEPT ![j] = step]

\* The loop of run j has reached item i, whose payload is p.
AtItem(j, i, p) == pc[j] = "work" /\ Current(j, i) /\ body[i.id] = p

\* Mutant of GiveUpOrLeave: the limit is off by one.
GiveUpEarly(j, i, burial) ==
  IF i.n + 1 >= MaxDeliveries
  THEN Goto(j, burial) /\ UNCHANGED todo
  ELSE Goto(j, "work") /\ Drop(j, i)

\* Mutant of GiveUpOrLeave: the message is tried again in the same loop.
RetryInPlace(j, i, burial) ==
  IF i.n >= MaxDeliveries
  THEN Goto(j, burial) /\ UNCHANGED todo
  ELSE Goto(j, "work") /\ UNCHANGED todo

\* Processing of i failed: dead-letter it after too many deliveries, else leave
\* it pending and go on with the next item. The burial is "buryinvalid" for the
\* dead_letter inside of the try, "bury" for those outside of it.
GiveUpOrLeave(j, i, burial) ==
  IF i.n >= MaxDeliveries
  THEN Goto(j, burial) /\ UNCHANGED todo
  ELSE Goto(j, "work") /\ Drop(j, i)

-----------------------------------------------------------------------------
\* A run starts: read_events_batch.
ReadFresh(j) ==
  /\ pc[j] = "idle"
  /\ todo' = [todo EXCEPT
       ![j] = {[id |-> m, n |-> 1, again |-> FALSE] : m \in Fresh}]
  /\ XReadGroup
  /\ Goto(j, "claim")
  /\ UNCHANGED <<claimed, acks, hll, tableVars, idem>>

\* reclaim_stale_messages up to the answer of XAUTOCLAIM.
Reclaim(j) ==
  /\ pc[j] = "claim"
  /\ claimed' = [claimed EXCEPT ![j] = Reclaimed]
  /\ XAutoClaim
  /\ Goto(j, "count")
  /\ UNCHANGED <<todo, acks, hll, tableVars, idem>>

\* Without any work the run ends early; otherwise it enters its session.
EnterLoop(j, work) ==
  /\ todo' = [todo EXCEPT ![j] = work]
  /\ claimed' = [claimed EXCEPT ![j] = {}]
  /\ Goto(j, IF work = {} THEN "idle" ELSE "work")

\* XAUTOCLAIM fails, before it took effect or after: the exception is swallowed
\* and the run goes on without reclaimed messages.
ReclaimFails(j) ==
  /\ "redis" \in Faults
  /\ pc[j] = "claim"
  /\ XAutoClaim \/ UNCHANGED streamVars
  /\ EnterLoop(j, todo[j])
  /\ UNCHANGED <<acks, hll, tableVars, idem>>

\* The rest of reclaim_stale_messages: XPENDING, whose failure is swallowed
\* and leaves every reclaimed message with the default count of 1.
Count(j, counts) ==
  /\ pc[j] = "count"
  /\ EnterLoop(j, todo[j] \cup
       {[id |-> m, n |-> counts[m], again |-> TRUE] : m \in claimed[j]})
  /\ UNCHANGED <<acks, hll, streamVars, tableVars, idem>>

CountDeliveries(j) == Count(j, [m \in claimed[j] |-> DeliveryCount(m)])

CountFails(j) ==
  /\ "redis" \in Faults
  /\ Count(j, [m \in claimed[j] |-> 1])

\* The payload is malformed; the database is not asked.
Reject(j, i) ==
  /\ AtItem(j, i, Malformed)
  /\ GiveUpOrLeave(j, i, "bury")
  /\ UNCHANGED <<claimed, acks, hll, streamVars, tableVars, idem>>

\* _persist_event returns "invalid" before it asks the database. This
\* dead_letter is called inside of the try.
RejectInvalid(j, i) ==
  /\ AtItem(j, i, Invalid)
  /\ GiveUpOrLeave(j, i, "buryinvalid")
  /\ UNCHANGED <<claimed, acks, hll, streamVars, tableVars, idem>>

\* Mutant of Insert: PFADD is left out.
InsertUncounted(j, i) ==
  /\ \E e \in Events : AtItem(j, i, e) /\ InsertRow(j, e)
  /\ Goto(j, "mark")
  /\ UNCHANGED <<claimed, todo, acks, hll, streamVars, idem>>

\* _persist_event, INSERT: the row is new, or it exists.
Insert(j, i) ==
  /\ \E e \in Events : AtItem(j, i, e) /\ InsertRow(j, e)
  /\ Goto(j, "inserted")
  /\ UNCHANGED <<claimed, todo, acks, hll, streamVars, idem>>

Conflict(j, i) ==
  /\ \E e \in Events : AtItem(j, i, e) /\ InsertConflict(j, e)
  /\ Goto(j, "mark")
  /\ UNCHANGED <<claimed, todo, acks, hll, streamVars, idem>>

\* j waits for a row that o has written.
WaitsFor(j, o) ==
  \E i \in todo[j], e \in Events :
    AtItem(j, i, e) /\ Usable(j) /\ Blocks(o, j, e)

\* j is part of a cycle of waiting runs. (A run waits for at most one other.)
InDeadlock(j) ==
  \E C \in SUBSET Jobs :
    /\ j \in C
    /\ \A x \in C : /\ \E y \in C : WaitsFor(x, y)
                    /\ \E y \in C : WaitsFor(y, x)

\* _persist_event, INSERT: an exception, caught for this message alone.
InsertRaises(j, i) ==
  /\ \E e \in Events :
       /\ AtItem(j, i, e)
       /\ \/ InsertRefused(j, e)
          \/ InsertInFailed(j)
          \/ InDeadlock(j) /\ InsertVictim(j)
  /\ GiveUpOrLeave(j, i, "bury")
  /\ UNCHANGED <<claimed, acks, hll, streamVars, idem>>

\* The same when the database cannot be reached.
InsertUnreached(j, i) ==
  /\ "db" \in Faults
  /\ \E e \in Events : AtItem(j, i, e)
  /\ InsertUnconnected(j)
  /\ GiveUpOrLeave(j, i, "bury")
  /\ UNCHANGED <<claimed, acks, hll, streamVars, idem>>

\* _persist_event, after a new row: PFADD (and EXPIRE) of the day's users.
CountUser(j, i) ==
  /\ pc[j] = "inserted"
  /\ Current(j, i)
  /\ hll' = hll \cup {body[i.id]}
  /\ Goto(j, "mark")
  /\ UNCHANGED <<claimed, todo, acks, streamVars, tableVars, idem>>

\* _persist_event, last command: SET idem:{event_id} "done".
MarkWritten(j, i) ==
  /\ pc[j] = "mark"
  /\ Current(j, i)
  /\ SetDone(body[i.id])
  /\ acks' = [acks EXCEPT ![j] = @ \cup {i.id}]
  /\ Drop(j, i)
  /\ Goto(j, "work")
  /\ UNCHANGED <<claimed, hll, streamVars, tableVars>>

\* Redis fails after the INSERT: caught like a failure of the INSERT itself,
\* but the row stays in the transaction, and the SET may have taken effect.
MarkRaises(j, i) ==
  /\ "redis" \in Faults
  /\ pc[j] \in {"inserted", "mark"}
  /\ Current(j, i)
  /\ \/ UNCHANGED idem
     \/ pc[j] = "mark" /\ SetDone(body[i.id])
  /\ GiveUpOrLeave(j, i, "bury")
  /\ UNCHANGED <<claimed, acks, hll, streamVars, tableVars>>

\* dead_letter, XADD to the dead letter stream.
Bury(j, i) ==
  /\ pc[j] \in {"buryinvalid", "bury"}
  /\ Current(j, i)
  /\ XAddDlq(i.id)
  /\ Goto(j, IF pc[j] = "buryinvalid" THEN "ackinvalid" ELSE "buryack")
  /\ UNCHANGED <<claimed, todo, acks, hll, tableVars, idem>>

\* dead_letter, XACK and then XDEL, whose failure is swallowed.
BuryAck(j, i) ==
  /\ pc[j] \in {"ackinvalid", "buryack"}
  /\ Current(j, i)
  /\ XAck({i.id})
  /\ \/ entries' = entries \ {i.id}
     \/ "redis" \in Faults /\ entries' = entries
  /\ Drop(j, i)
  /\ Goto(j, "work")
  /\ UNCHANGED <<body, trimmed, group, lastDelivered, times, dlq>>
  /\ UNCHANGED <<claimed, acks, hll, tableVars, idem>>

\* The XACK of dead_letter fails, before it took effect or after.
XAckFails(i) ==
  \/ UNCHANGED streamVars
  \/ /\ XAck({i.id})
     /\ UNCHANGED <<body, entries, trimmed, group, lastDelivered, times, dlq>>

\* Mutant of BuryRaises: dead_letter is repeated until it succeeds.
BuryRetried(j, i) ==
  /\ "redis" \in Faults
  /\ pc[j] \in {"buryinvalid", "ackinvalid"}
  /\ Current(j, i)
  /\ IF pc[j] = "ackinvalid" THEN XAckFails(i) ELSE UNCHANGED streamVars
  /\ Goto(j, "buryinvalid")
  /\ UNCHANGED <<claimed, todo, acks, hll, tableVars, idem>>

\* Redis fails in the dead_letter of an invalid event: the exception is caught
\* like one of _persist_event, and the handler calls dead_letter once more. An
\* XADD that took effect is the step before.
BuryRaises(j, i) ==
  /\ "redis" \in Faults
  /\ pc[j] \in {"buryinvalid", "ackinvalid"}
  /\ Current(j, i)
  /\ IF pc[j] = "ackinvalid" THEN XAckFails(i) ELSE UNCHANGED streamVars
  /\ Goto(j, "bury")
  /\ UNCHANGED <<claimed, todo, acks, hll, tableVars, idem>>

\* Mutant of CommitBatch: the session is closed without a commit.
CloseWithoutCommit(j) ==
  /\ pc[j] = "work"
  /\ todo[j] = {}
  /\ tx[j] # "lost"
  /\ Rollback(j)
  /\ Goto(j, "ack")
  /\ UNCHANGED <<claimed, todo, acks, hll, streamVars, idem>>

\* The list is worked off: session.commit(), which also ends the session.
CommitBatch(j) ==
  /\ pc[j] = "work"
  /\ todo[j] = {}
  /\ Commit(j)
  /\ Goto(j, "ack")
  /\ UNCHANGED <<claimed, todo, acks, hll, streamVars, idem>>

\* Mutant of Ack: the XACK is left out.
AckForgotten(j) ==
  /\ pc[j] = "ack"
  /\ acks' = [acks EXCEPT ![j] = {}]
  /\ Goto(j, "idle")
  /\ UNCHANGED <<claimed, todo, hll, streamVars, tableVars, idem>>

\* ack_messages, and the end of the run.
Ack(j) ==
  /\ pc[j] = "ack"
  /\ XAck(acks[j])
  /\ acks' = [acks EXCEPT ![j] = {}]
  /\ Goto(j, "idle")
  /\ UNCHANGED <<body, entries, trimmed, group, lastDelivered, times, dlq>>
  /\ UNCHANGED <<claimed, todo, hll, tableVars, idem>>

\* An exception leaves process_event_stream: the session is rolled back and the
\* run is over. ARQ does not retry it; the next run comes from cron.
Abandon(j) ==
  /\ Goto(j, "idle")
  /\ claimed' = [claimed EXCEPT ![j] = {}]
  /\ todo' = [todo EXCEPT ![j] = {}]
  /\ acks' = [acks EXCEPT ![j] = {}]
  /\ Rollback(j)
  /\ UNCHANGED <<hll, idem>>

\* session.commit() raises on a lost connection.
CommitRaises(j) ==
  /\ pc[j] = "work"
  /\ todo[j] = {}
  /\ tx[j] = "lost"
  /\ Abandon(j)
  /\ UNCHANGED streamVars

\* data.get(...) raises on a payload that is no object, outside of any try.
UnpackRaises(j, i) ==
  /\ AtItem(j, i, NotAnObject)
  /\ Abandon(j)
  /\ UNCHANGED streamVars

\* A command outside of any try raises, before it took effect or after: its
\* effect is then the step before. XREADGROUP, the XADD of a dead_letter that is
\* not in the try, session.commit(), ack_messages.
CommandRaises(j) ==
  /\ \/ "redis" \in Faults /\ pc[j] \in {"claim", "bury", "ack"}
     \/ "db" \in Faults /\ pc[j] = "ack"
     \/ "db" \in Faults /\ pc[j] = "work" /\ todo[j] = {}
  /\ Abandon(j)
  /\ UNCHANGED streamVars

\* The same for the XACK of that dead_letter.
BuryAckRaises(j, i) ==
  /\ "redis" \in Faults
  /\ pc[j] = "buryack"
  /\ Current(j, i)
  /\ XAckFails(i)
  /\ Abandon(j)

\* The worker process dies, or ARQ's job_timeout cancels the run.
Crash(j) ==
  /\ "crash" \in Faults
  /\ pc[j] # "idle"
  /\ Abandon(j)
  /\ UNCHANGED streamVars

-----------------------------------------------------------------------------
\* What a run does by itself: no fault, the answers of Redis and PostgreSQL.
Progress(j) ==
  \/ ReadFresh(j) \/ Reclaim(j) \/ CountDeliveries(j)
  \/ CommitBatch(j) \/ CommitRaises(j) \/ Ack(j)
  \/ \E i \in todo[j] :
       \/ Reject(j, i) \/ RejectInvalid(j, i) \/ UnpackRaises(j, i)
       \/ Insert(j, i) \/ Conflict(j, i) \/ InsertRaises(j, i)
       \/ CountUser(j, i) \/ MarkWritten(j, i)
       \/ Bury(j, i) \/ BuryAck(j, i)

Failure(j) ==
  \/ ReclaimFails(j) \/ CountFails(j) \/ CommandRaises(j) \/ Crash(j)
  \/ \E i \in todo[j] :
       \/ InsertUnreached(j, i) \/ MarkRaises(j, i)
       \/ BuryRaises(j, i) \/ BuryAckRaises(j, i)

=============================================================================
