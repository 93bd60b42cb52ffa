----------------------------- MODULE IngestApi -----------------------------
(***************************************************************************)
(* POST /events and POST /events/batch in the async ingest mode            *)
(* (app/api/v1/events.py, app/services/event_service.py): claim the        *)
(* idempotency key of each event, enqueue the event when the claim was     *)
(* won, answer "deduplicated" when it was not.                             *)
(*                                                                         *)
(* Each element of Requests is a request handler of some API process; it   *)
(* serves one request after the other. A single POST is a batch of one.    *)
(***************************************************************************)
EXTENDS EventStream, IdempotencyKeys

CONSTANTS
  Requests,     \* requests served at the same time
  MaxBatch,     \* bound of the model: events in one request
  MaxMsg,       \* bound of the model: messages ever XADDed
  RequestFaults \* whether a handler may fail between two commands

ASSUME IngestAssumption ==
  /\ MaxBatch \in Nat \ {0}
  /\ MaxMsg \in Nat
  /\ RequestFaults \in BOOLEAN

VARIABLES
  serving,   \* serving[r]: the events of r's request
  unserved,  \* unserved[r]: those ingest_one has not returned for
  claims,    \* claims[r]: the event whose key r has won and not yet enqueued
  answered   \* history: events a client got a 2xx answer for

apiVars == <<serving, unserved, claims, answered>>

ApiTypeOK ==
  /\ serving \in [Requests -> SUBSET Events]
  /\ unserved \in [Requests -> SUBSET Events]
  /\ \A r \in Requests : claims[r] \subseteq unserved[r]
  /\ \A r \in Requests : unserved[r] \subseteq serving[r]
  /\ claims \in [Requests -> SUBSET Events]
  /\ answered \subseteq Events

ApiInit ==
  /\ serving = [r \in Requests |-> {}]
  /\ unserved = [r \in Requests |-> {}]
  /\ claims = [r \in Requests |-> {}]
  /\ answered = {}

-----------------------------------------------------------------------------
\* The bound on messages: what is enqueued, and what is bound to be.
RoomFor(n) ==
  Len(body) + Cardinality({r \in Requests : claims[r] # {}}) + n <= MaxMsg

\* A client posts the events in batch, perhaps not for the first time.
Receive(r, batch) ==
  /\ serving[r] = {}
  /\ Cardinality(batch) \in 1..MaxBatch
  /\ serving' = [serving EXCEPT ![r] = batch]
  /\ unserved' = [unserved EXCEPT ![r] = batch]
  /\ UNCHANGED <<claims, answered, streamVars, idem>>

\* ingest_one: SET NX wins the key. (A batch is worked off one by one; which of
\* its events is next is left open.)
ClaimNew(r, e) ==
  /\ claims[r] = {}
  /\ e \in unserved[r]
  /\ RoomFor(1)
  /\ SetNX(e)
  /\ claims' = [claims EXCEPT ![r] = {e}]
  /\ UNCHANGED <<serving, unserved, answered, streamVars>>

\* ingest_one: the key exists. Whatever the look into the database finds, the
\* result is "deduplicated".
Deduplicate(r, e) ==
  /\ claims[r] = {}
  /\ e \in unserved[r]
  /\ Held(e)
  /\ unserved' = [unserved EXCEPT ![r] = @ \ {e}]
  /\ UNCHANGED <<serving, claims, answered, streamVars, idem>>

\* Mutant of Enqueue: the handler does not let go of the claim.
EnqueueAndHold(r, e) ==
  /\ e \in claims[r]
  /\ XAdd(e)
  /\ unserved' = [unserved EXCEPT ![r] = @ \ {e}]
  /\ UNCHANGED <<serving, claims, answered, idem>>

\* ingest_one: the claimed event goes to the stream; the result is "queued".
Enqueue(r, e) ==
  /\ e \in claims[r]
  /\ XAdd(e)
  /\ claims' = [claims EXCEPT ![r] = {}]
  /\ unserved' = [unserved EXCEPT ![r] = @ \ {e}]
  /\ UNCHANGED <<serving, answered, idem>>

EndRequest(r) ==
  /\ serving' = [serving EXCEPT ![r] = {}]
  /\ unserved' = [unserved EXCEPT ![r] = {}]
  /\ claims' = [claims EXCEPT ![r] = {}]

\* Mutant of Respond: answers while ingest_one still runs for some event.
RespondEarly(r) ==
  /\ serving[r] # {}
  /\ answered' = answered \cup serving[r]
  /\ EndRequest(r)
  /\ UNCHANGED <<streamVars, idem>>

\* The handler returns and the client has its 2xx answer.
Respond(r) ==
  /\ serving[r] # {}
  /\ unserved[r] = {}
  /\ answered' = answered \cup serving[r]
  /\ EndRequest(r)
  /\ UNCHANGED <<streamVars, idem>>

\* A command of ingest_one raises, the process dies or the client goes away:
\* what was claimed stays claimed, what was enqueued stays enqueued.
RequestFails(r) ==
  /\ RequestFaults
  /\ serving[r] # {}
  /\ EndRequest(r)
  /\ UNCHANGED <<answered, streamVars, idem>>

-----------------------------------------------------------------------------
Serve(r) ==
  \/ \E e \in Events : ClaimNew(r, e) \/ Deduplicate(r, e) \/ Enqueue(r, e)
  \/ Respond(r)

ApiStep(r) ==
  \/ \E batch \in SUBSET Events : Receive(r, batch)
  \/ Serve(r)
  \/ RequestFails(r)

=============================================================================
