---------------------------- MODULE EventsTable ----------------------------
(***************************************************************************)
(* The PostgreSQL table "events" behind the sessions of app/db/session.py: *)
(* the set of committed event_ids, and per session the state of its        *)
(* transaction and the rows it has written and not yet committed.          *)
(*                                                                         *)
(* event_id is UNIQUE, and the only statement on the table is INSERT ...   *)
(* ON CONFLICT DO NOTHING at READ COMMITTED: it waits for the transaction  *)
(* that wrote the same event_id to end.                                    *)
(***************************************************************************)
EXTENDS Payloads

CONSTANTS
  Sessions,  \* database sessions in use
  Refused    \* events whose row the server rejects (a NUL in a string, say)

ASSUME TableAssumption == Refused \subseteq Events

VARIABLES
  events,    \* event_ids in committed rows
  tx,        \* tx[s]: state of the transaction of session s
  rows,      \* rows[s]: event_ids s has inserted in its current transaction
  discarded  \* history: event_ids whose row a COMMIT silently rolled back

tableVars == <<events, tx, rows, discarded>>

TableTypeOK ==
  /\ events \subseteq Events
  /\ tx \in [Sessions -> {"none", "open", "aborted", "lost"}]
  /\ rows \in [Sessions -> SUBSET Events]
  /\ discarded \subseteq Events

TableInit ==
  /\ events = {}
  /\ tx = [s \in Sessions |-> "none"]
  /\ rows = [s \in Sessions |-> {}]
  /\ discarded = {}

-----------------------------------------------------------------------------
\* s can run a statement: nothing yet, or a transaction that still works.
Usable(s) == tx[s] \in {"none", "open"}

\* An INSERT of e by s has to wait for session o.
Blocks(o, s, e) == o # s /\ tx[o] = "open" /\ e \in rows[o]
FreeToWrite(s, e) == \A o \in Sessions : ~Blocks(o, s, e)

\* INSERT ... ON CONFLICT DO NOTHING RETURNING event_id, which returns a row,
InsertRow(s, e) ==
  /\ Usable(s)
  /\ FreeToWrite(s, e)
  /\ e \notin Refused \cup events \cup rows[s]
  /\ tx' = [tx EXCEPT ![s] = "open"]
  /\ rows' = [rows EXCEPT ![s] = @ \cup {e}]
  /\ UNCHANGED <<events, discarded>>

\* Mutant of InsertConflict: does not wait for the writer of the row to commit.
InsertConflictDirty(s, e) ==
  /\ Usable(s)
  /\ e \notin Refused
  /\ e \in events \cup UNION {rows[o] : o \in Sessions}
  /\ tx' = [tx EXCEPT ![s] = "open"]
  /\ UNCHANGED <<events, rows, discarded>>

\* ... returns no row,
InsertConflict(s, e) ==
  /\ Usable(s)
  /\ FreeToWrite(s, e)
  /\ e \notin Refused
  /\ e \in events \cup rows[s]
  /\ tx' = [tx EXCEPT ![s] = "open"]
  /\ UNCHANGED <<events, rows, discarded>>

\* ... is rejected by the server, which aborts the transaction and gives up its
\* locks. SQLAlchemy raises, but the session stays in the transaction.
InsertRefused(s, e) ==
  /\ Usable(s)
  /\ e \in Refused
  /\ tx' = [tx EXCEPT ![s] = "aborted"]
  /\ UNCHANGED <<events, rows, discarded>>

\* ... fails because the transaction is aborted, or its connection is gone.
InsertInFailed(s) ==
  /\ ~Usable(s)
  /\ UNCHANGED tableVars

\* ... loses its connection: the transaction is gone, and SQLAlchemy knows. Or
\* it finds none, before the session has one.
InsertUnconnected(s) ==
  /\ Usable(s)
  /\ \/ tx' = [tx EXCEPT ![s] = "lost"]
     \/ tx[s] = "none" /\ UNCHANGED tx
  /\ UNCHANGED <<events, rows, discarded>>

\* ... is chosen as the victim of a deadlock: aborted as by a refusal.
InsertVictim(s) ==
  /\ tx[s] = "open"
  /\ tx' = [tx EXCEPT ![s] = "aborted"]
  /\ UNCHANGED <<events, rows, discarded>>

\* session.commit(). On an aborted transaction COMMIT succeeds as a ROLLBACK.
Commit(s) ==
  /\ tx[s] # "lost"
  /\ tx' = [tx EXCEPT ![s] = "none"]
  /\ rows' = [rows EXCEPT ![s] = {}]
  /\ IF tx[s] = "aborted"
     THEN /\ discarded' = discarded \cup rows[s]
          /\ UNCHANGED events
     ELSE /\ events' = events \cup rows[s]
          /\ UNCHANGED discarded

\* The session is closed, or rolled back, without a commit.
Rollback(s) ==
  /\ tx' = [tx EXCEPT ![s] = "none"]
  /\ rows' = [rows EXCEPT ![s] = {}]
  /\ UNCHANGED <<events, discarded>>

=============================================================================
