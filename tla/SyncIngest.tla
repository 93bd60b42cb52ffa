----------------------------- MODULE SyncIngest -----------------------------
(***************************************************************************)
(* POST /events and POST /events/batch in the sync ingest mode             *)
(* (app/api/v1/events.py, app/services/event_service.py): claim the key of *)
(* each event, insert the row in the request's transaction, mark the key   *)
(* as done. The commit is get_db's and comes after all of them.            *)
(***************************************************************************)
EXTENDS EventsTable, IdempotencyKeys, RequestSteps

CONSTANT
  Batches    \* sets of events that clients post in one request

ASSUME SyncAssumption ==
  /\ Handlers \subseteq Sessions
  /\ Batches \subseteq (SUBSET Events) \ {{}}

VARIABLES
  serving,   \* serving[h]: the events of h's request
  unserved,  \* unserved[h]: those ingest_one has not returned for
  claims,    \* claims[h]: the event that ingest_one has won the key of
  told,      \* history: events a client got a 2xx answer for
  left       \* history: events whose last claim was of a request that failed

ingestVars == <<serving, unserved, claims, told, left>>

IngestTypeOK ==
  /\ serving \in [Handlers -> SUBSET Events]
  /\ unserved \in [Handlers -> SUBSET Events]
  /\ claims \in [Handlers -> SUBSET Events]
  /\ \A h \in Handlers : claims[h] \subseteq unserved[h]
  /\ \A h \in Handlers : unserved[h] \subseteq serving[h]
  /\ told \subseteq Events
  /\ left \subseteq Events

IngestInit ==
  /\ serving = [h \in Handlers |-> {}]
  /\ unserved = [h \in Handlers |-> {}]
  /\ claims = [h \in Handlers |-> {}]
  /\ told = {}
  /\ left = {}

-----------------------------------------------------------------------------
\* The body of the request.
TakeBatch(h, batch) ==
  /\ serving' = [serving EXCEPT ![h] = batch]
  /\ unserved' = [unserved EXCEPT ![h] = batch]
  /\ UNCHANGED <<claims, told, left, tableVars, idem>>

\* ingest_one: SET NX wins the key. (Which event of a batch is next is open.)
ClaimNew(h, e) ==
  /\ At(h, "serve")
  /\ e \in unserved[h]
  /\ SetNX(e)
  /\ claims' = [claims EXCEPT ![h] = {e}]
  /\ left' = left \ {e}
  /\ Goto(h, "insert")
  /\ UNCHANGED <<serving, unserved, told, tableVars>>

\* ingest_one has returned for e: on to the next event, or to the end.
Done(h, e) ==
  /\ unserved' = [unserved EXCEPT ![h] = @ \ {e}]
  /\ Goto(h, IF unserved[h] = {e} THEN Ending ELSE "serve")

\* ingest_one: the key exists. Whatever the look into the database finds, the
\* result is "deduplicated".
Deduplicate(h, e) ==
  /\ At(h, "serve")
  /\ e \in unserved[h]
  /\ Held(e)
  /\ Done(h, e)
  /\ UNCHANGED <<serving, claims, told, left, tableVars, idem>>

\* ingest_one, INSERT ... ON CONFLICT DO NOTHING, new or not.
Insert(h, e) ==
  /\ At(h, "insert")
  /\ e \in claims[h]
  /\ InsertRow(h, e) \/ InsertConflict(h, e)
  /\ Goto(h, "mark")
  /\ UNCHANGED <<ingestVars, idem>>

\* Mutant of MarkDone: the handler does not let go of the claim.
MarkAndHold(h, e) ==
  /\ At(h, "mark")
  /\ e \in claims[h]
  /\ SetDoneXX(e)
  /\ Done(h, e)
  /\ UNCHANGED <<serving, claims, told, left, tableVars>>

\* ingest_one, _mark_done, and the result "accepted" or "deduplicated".
MarkDone(h, e) ==
  /\ At(h, "mark")
  /\ e \in claims[h]
  /\ SetDoneXX(e)
  /\ claims' = [claims EXCEPT ![h] = {}]
  /\ Done(h, e)
  /\ UNCHANGED <<serving, told, left, tableVars>>

-----------------------------------------------------------------------------
\* The INSERT of h waits for a row that o has written.
WaitsFor(h, o) == At(h, "insert") /\ \E e \in claims[h] : Blocks(o, h, e)

\* h is part of a cycle of waiting requests; PostgreSQL may choose it as the
\* victim.
InDeadlock(h) ==
  \E C \in SUBSET Handlers :
    /\ h \in C
    /\ \A x \in C : /\ \E y \in C : WaitsFor(x, y)
                    /\ \E y \in C : WaitsFor(y, x)

\* The request ends; what it leaves behind when it had not been committed.
Leave(h) == left' = left \cup claims[h] \cup rows[h]

EndIngest(h) ==
  /\ serving' = [serving EXCEPT ![h] = {}]
  /\ unserved' = [unserved EXCEPT ![h] = {}]
  /\ claims' = [claims EXCEPT ![h] = {}]

=============================================================================
