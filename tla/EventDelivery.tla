--------------------------- MODULE EventDelivery ---------------------------
(***************************************************************************)
(* What the write path promises, without keys, batches, deliveries and     *)
(* transactions: an enqueued message is open until its event is stored or  *)
(* it is in the dead letter stream.                                        *)
(***************************************************************************)
EXTENDS Payloads, Naturals, Sequences

VARIABLES
  log,     \* log[m]: payload of the message m enqueued m-th
  open,    \* messages that are still to be dealt with
  stored,  \* events in the table
  dead     \* messages in the dead letter stream

Init ==
  /\ log = <<>>
  /\ open = {}
  /\ stored = {}
  /\ dead = {}

\* A producer adds a message.
Accept(p) ==
  /\ log' = Append(log, p)
  /\ open' = open \cup {Len(log) + 1}
  /\ UNCHANGED <<stored, dead>>

\* A batch of messages is written to the table: open ones, or dead ones when the
\* write was under way while the message was given up.
Store(batch) ==
  /\ {log[m] : m \in batch} \subseteq Events
  /\ stored' = stored \cup {log[m] : m \in batch}
  /\ UNCHANGED <<log, open, dead>>

\* A message is copied to the dead letter stream: an open one, or one that was
\* written to the table while it was given up.
Bury(m) ==
  /\ m \in open \/ log[m] \in stored
  /\ dead' = dead \cup {m}
  /\ UNCHANGED <<log, open, stored>>

\* Messages are closed, but only those that are stored or dead.
Settle(batch) ==
  /\ \A m \in batch : log[m] \in stored \/ m \in dead
  /\ open' = open \ batch
  /\ UNCHANGED <<log, stored, dead>>

Next ==
  \/ \E p \in Payload : Accept(p)
  \/ \E batch \in SUBSET (open \cup dead) : Store(batch)
  \/ \E batch \in SUBSET open : Settle(batch)
  \/ \E m \in 1..Len(log) : Bury(m)

Spec == Init /\ [][Next]_<<log, open, stored, dead>>

\* Nothing is closed that is neither stored nor dead.
NothingLost ==
  \A m \in 1..Len(log) : m \in open \/ log[m] \in stored \/ m \in dead

=============================================================================
