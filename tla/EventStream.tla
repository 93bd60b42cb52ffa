---------------------------- MODULE EventStream ----------------------------
(***************************************************************************)
(* The Redis Stream "stream:events", its one consumer group and its dead   *)
(* letter stream, as app/mq/streams.py drives them: produce, read new      *)
(* messages, reclaim stuck ones, count deliveries, acknowledge, bury.      *)
(*                                                                         *)
(* A message id is its position in `body`, the history of everything ever  *)
(* XADDed; the stream itself is the set `entries` of the ids still stored. *)
(* Each operator over primed variables is one Redis command, which Redis   *)
(* executes atomically.                                                    *)
(***************************************************************************)
EXTENDS Payloads, Naturals, Sequences, FiniteSets

CONSTANTS
  BatchSize,     \* settings.batch_size
  MaxDeliveries, \* settings.event_max_deliveries
  ClaimMinIdle,  \* settings.event_claim_min_idle_ms, in clock ticks
  StreamMaxLen   \* settings.event_stream_maxlen

ASSUME StreamAssumption ==
  /\ BatchSize \in Nat \ {0}
  /\ MaxDeliveries \in Nat \ {0}
  /\ ClaimMinIdle \in Nat
  /\ StreamMaxLen \in Nat

VARIABLES
  body,          \* body[m]: payload of message m
  entries,       \* ids still in the stream (neither trimmed nor XDELed)
  trimmed,       \* history: ids that MAXLEN has dropped
  group,         \* the consumer group exists
  lastDelivered, \* the group's last-delivered-id
  pel,           \* the group's pending entries: delivered, not acknowledged
  times,         \* times[m]: deliveries of m, counted up to MaxDeliveries
  idle,          \* idle[m]: ticks since the last delivery of a pending m, else 0
  dlq            \* ids written to the dead letter stream

streamVars ==
  <<body, entries, trimmed, group, lastDelivered, pel, times, idle, dlq>>

Ids == 1..Len(body)

StreamTypeOK ==
  /\ body \in Seq(Payload)
  /\ entries \subseteq Ids
  /\ trimmed \subseteq Ids
  /\ group \in BOOLEAN
  /\ lastDelivered \in 0..Len(body)
  /\ pel \subseteq 1..lastDelivered
  /\ times \in [Ids -> 0..MaxDeliveries]
  /\ idle \in [Ids -> 0..ClaimMinIdle]
  /\ dlq \subseteq 1..lastDelivered

StreamInit ==
  /\ body = <<>>
  /\ entries = {}
  /\ trimmed = {}
  /\ group = FALSE
  /\ lastDelivered = 0
  /\ pel = {}
  /\ times = [m \in {} |-> 0]
  /\ idle = [m \in {} |-> 0]
  /\ dlq = {}

-----------------------------------------------------------------------------
\* Redis serves streams and pending entries in id order, `count` at a time.
Lowest(S, n) == {m \in S : Cardinality({k \in S : k < m}) < n}

\* What XREADGROUP ">" has still to deliver.
Unread == {m \in entries : m > lastDelivered}

\* Everything still in the group's hands: unread, or pending.
Outstanding == Unread \cup pel

CappedAt(bound, n) == IF n < bound THEN n ELSE bound

\* Mutant of EnsureGroup: a group created at "$" skips what is already there.
EnsureGroupAtEnd ==
  /\ ~group
  /\ group' = TRUE
  /\ lastDelivered' = Len(body)
  /\ UNCHANGED <<body, entries, trimmed, pel, times, idle, dlq>>

\* ensure_consumer_group: XGROUP CREATE from id 0, MKSTREAM. When the group
\* exists the BUSYGROUP error is ignored and nothing changes.
EnsureGroup ==
  /\ ~group
  /\ group' = TRUE
  /\ lastDelivered' = 0
  /\ UNCHANGED <<body, entries, trimmed, pel, times, idle, dlq>>

\* "MAXLEN ~" drops any number of the oldest entries, possibly none, but keeps
\* at least StreamMaxLen of them.
Trimmable(T, S) ==
  /\ \A old \in T, kept \in S \ T : old < kept
  /\ T # {} => Cardinality(S \ T) >= StreamMaxLen

\* A counter over the ids, with one more id.
Grown(f) == [m \in 1..(Len(body) + 1) |-> IF m \in Ids THEN f[m] ELSE 0]

\* enqueue_event: XADD stream:events MAXLEN ~ StreamMaxLen.
XAdd(payload) ==
  LET grown == entries \cup {Len(body) + 1}
  IN \E T \in SUBSET grown :
       /\ Trimmable(T, grown)
       /\ body' = Append(body, payload)
       /\ entries' = grown \ T
       /\ trimmed' = trimmed \cup T
       /\ times' = Grown(times)
       /\ idle' = Grown(idle)
       /\ UNCHANGED <<group, lastDelivered, pel, dlq>>

\* read_events_batch: XREADGROUP ">" COUNT BatchSize.
Fresh == Lowest(Unread, BatchSize)

XReadGroup ==
  /\ group
  /\ \E last \in Fresh \cup {lastDelivered} :
       /\ \A m \in Fresh : m <= last
       /\ lastDelivered' = last
  /\ pel' = pel \cup Fresh
  /\ times' = [m \in Ids |-> IF m \in Fresh THEN 1 ELSE times[m]]
  /\ UNCHANGED <<body, entries, trimmed, group, idle, dlq>>

\* Mutant of Claimable: nothing that is pending is ever claimed again.
NothingClaimable == {}

\* Mutant of Claimable: ids without an entry are skipped and stay pending.
ClaimableStored ==
  Lowest({m \in pel \cap entries : idle[m] >= ClaimMinIdle}, BatchSize)

\* reclaim_stale_messages, first command: XAUTOCLAIM from 0-0. Redis looks at
\* no more than ScanFactor * COUNT pending entries. A pending id whose entry is
\* gone is dropped from the pending list and uses up COUNT like a claimed one.
ScanFactor == 10

Claimable ==
  LET scanned == Lowest(pel, ScanFactor * BatchSize)
  IN Lowest({m \in scanned : m \notin entries \/ idle[m] >= ClaimMinIdle},
            BatchSize)

Reclaimed == Claimable \cap entries

XAutoClaim ==
  /\ pel' = (pel \ Claimable) \cup Reclaimed
  /\ times' = [m \in Ids |-> IF m \in Reclaimed
                             THEN CappedAt(MaxDeliveries, times[m] + 1)
                             ELSE times[m]]
  /\ idle' = [m \in Ids |-> IF m \in Claimable THEN 0 ELSE idle[m]]
  /\ UNCHANGED <<body, entries, trimmed, group, lastDelivered, dlq>>

\* Mutant of DeliveryCount: the count is never looked up.
UncountedDelivery(m) == 1

\* reclaim_stale_messages, second command: XPENDING - + COUNT BatchSize lists
\* the oldest pending ids; a reclaimed message outside that window counts as 1.
DeliveryCount(m) == IF m \in Lowest(pel, BatchSize) THEN times[m] ELSE 1

\* ack_messages, and the XACK of dead_letter.
XAck(M) ==
  /\ pel' = pel \ M
  /\ idle' = [m \in Ids |-> IF m \in M THEN 0 ELSE idle[m]]

\* dead_letter, first command: XADD stream:events:dlq. The dead letter stream
\* is kept as the history of its writes; its own MAXLEN is not modelled.
XAddDlq(m) ==
  /\ dlq' = dlq \cup {m}
  /\ UNCHANGED <<body, entries, trimmed, group, lastDelivered, pel, times, idle>>

\* The clock of the pending entries. It stands still for unread messages.
Tick ==
  /\ \E m \in pel : idle[m] < ClaimMinIdle
  /\ idle' = [m \in Ids |-> IF m \in pel THEN CappedAt(ClaimMinIdle, idle[m] + 1)
                            ELSE idle[m]]
  /\ UNCHANGED <<body, entries, trimmed, group, lastDelivered, pel, times, dlq>>

=============================================================================
