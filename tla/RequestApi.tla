----------------------------- MODULE RequestApi -----------------------------
(***************************************************************************)
(* Requests from the check of the caller to the answer: sync ingest        *)
(* (SyncIngest), registration and administration of users (Accounts), each *)
(* in the one transaction that get_db commits or rolls back.               *)
(***************************************************************************)
EXTENDS Accounts, SyncIngest

CONSTANT
  Faults   \* whether a request may fail at any point

ASSUME FaultsAssumption == Faults \in BOOLEAN

vars == <<accountVars, ingestVars, tableVars, idem, step, answersFirst>>

TypeOK ==
  /\ StepsTypeOK
  /\ AccountsTypeOK
  /\ IngestTypeOK
  /\ TableTypeOK
  /\ KeysTypeOK

Init ==
  /\ StepsInit
  /\ AccountsInit
  /\ IngestInit
  /\ TableInit
  /\ KeysInit

-----------------------------------------------------------------------------
ReceiveEvents(h, batch) == AdmitIngest(h) /\ TakeBatch(h, batch)

ReceiveUserRequest(h) ==
  AdmitUserRequest(h) /\ UNCHANGED <<ingestVars, tableVars, idem>>

\* The endpoint's function, command by command.
ServeUser(h) ==
  /\ FindUser(h) \/ UpdateUser(h) \/ InsertUser(h)
  /\ UNCHANGED <<ingestVars, tableVars, idem>>

ServeEvents(h) ==
  /\ \E e \in Events :
       ClaimNew(h, e) \/ Deduplicate(h, e) \/ Insert(h, e) \/ MarkDone(h, e)
  /\ UNCHANGED accountVars

EndRequest(h) == Forget(h) /\ EndIngest(h) /\ Goto(h, "idle")

\* The client receives its answer and learns what it says.
Answer(h) == Learn(h) /\ told' = told \cup serving[h]

\* The answer is sent before the commit.
Reply(h) ==
  /\ At(h, "reply")
  /\ Answer(h)
  /\ Goto(h, "commit")
  /\ UNCHANGED <<users, draft, asks, read, serving, unserved, claims, left>>
  /\ UNCHANGED <<tableVars, idem>>

\* Mutant of CommitRequest: get_db without its commit.
CloseRequest(h) ==
  /\ At(h, "commit")
  /\ Rollback(h)
  /\ Answer(h)
  /\ EndRequest(h)
  /\ UNCHANGED <<users, left, idem>>

\* get_db after its yield: session.commit(), and the answer where it comes after.
CommitRequest(h) ==
  /\ At(h, "commit")
  /\ Commit(h)
  /\ users' = Committed(h)
  /\ Answer(h)
  /\ EndRequest(h)
  /\ UNCHANGED <<left, idem>>

\* Mutant of RollBackRequest: the transaction stays open.
ForgetTransaction(h) ==
  /\ Leave(h)
  /\ EndRequest(h)
  /\ UNCHANGED <<users, known, told, tableVars, idem>>

\* get_db, rollback: nothing is stored, and the claimed keys stay.
RollBackRequest(h) ==
  /\ Rollback(h)
  /\ Leave(h)
  /\ EndRequest(h)
  /\ UNCHANGED <<users, known, told, idem>>

\* The endpoint raises an exception of its own, or one of PostgreSQL's.
Reject(h) == (Rejected(h) \/ InDeadlock(h)) /\ RollBackRequest(h)

\* A command fails before it took effect or after (its effect is then the step
\* before), its COMMIT included; the process dies; the client goes away.
RequestFails(h) == Faults /\ ~At(h, "idle") /\ RollBackRequest(h)

ExpireKey(e) ==
  /\ Expire(e)
  /\ UNCHANGED <<accountVars, ingestVars, tableVars, step, answersFirst>>

-----------------------------------------------------------------------------
Receive(h) ==
  ReceiveUserRequest(h) \/ \E batch \in Batches : ReceiveEvents(h, batch)

Serve(h) ==
  ServeUser(h) \/ ServeEvents(h) \/ Reply(h) \/ CommitRequest(h) \/ Reject(h)

Next ==
  \/ \E h \in Handlers : Receive(h) \/ Serve(h) \/ RequestFails(h)
  \/ \E e \in Events : ExpireKey(e)

Spec == Init /\ [][Next]_vars

\* A handler that can go on does; PostgreSQL grants a row to its waiters in turn.
\* Keys have a time to live, which a replay does not renew.
Fairness ==
  /\ \A h \in Handlers : SF_vars(Serve(h))
  /\ \A e \in Events : WF_vars(ExpireKey(e))

FairSpec == Spec /\ Fairness

-----------------------------------------------------------------------------
\* Somebody answers for e: it is stored, or some request has its claim or its
\* row, or the last request to claim it has failed.
Backed(e) ==
  \/ e \in events \cup left
  \/ \E h \in Handlers : e \in claims[h] \cup rows[h]

(* ingest_one answers "deduplicated" on the strength of the key alone, and marks
   a key as done before the commit (event_service.py:71-89, 134); get_db may
   answer before the commit as well. Still the only events with a 2xx answer that
   are neither stored nor being stored are those left behind by a request that
   failed after it had claimed them. *)
ToldIsStored == \A e \in told : Backed(e)

(* What it rests on: a key stands for an event somebody answers for, and so does
   each event of a batch that ingest_one has returned for; past the INSERT, the
   row is there, committed or in the request's own transaction. *)
KeyInvariant ==
  /\ ToldIsStored
  /\ \A e \in Events : Held(e) => Backed(e)
  /\ \A h \in Handlers : \A e \in serving[h] \ unserved[h] : Backed(e)
  /\ \A h \in Handlers : At(h, "mark") => claims[h] \subseteq events \cup rows[h]

(* The requests implement the abstract user directory: an address is registered
   once (auth_service.py:26-45), and an update is applied to the row it replaces
   and moves its version on by one (user_service.py:37-62), although the version
   is read by another statement than the one that compares it. *)
Directory == INSTANCE UserDirectory WITH early <- answersFirst
ImplementsDirectory == Directory!Spec

(* docs/resume-talk-track.md:20: the version of an update makes a later one that is
   based on the same version a conflict, so that no update is lost. *)
UpdateOutdatesItsBase ==
  [][\A h \in Handlers :
       CommitRequest(h) /\ asks[h] \in Patches =>
         users'[asks[h].on].version > asks[h].based]_vars

(* Requests wait for each other's rows, batches in opposite orders when a key
   expires under one of them: every request still ends. *)
RequestsEnd == \A h \in Handlers : ~At(h, "idle") ~> At(h, "idle")

\* From some moment on no batch of events ends but as one does that is committed.
FailuresStop ==
  <>[][\A h \in Handlers :
         asks[h] = Ingest /\ RollBackRequest(h) => CommitRequest(h)]_vars

(* An event whose key a failed request left behind is not lost for good: when
   clients keep sending it, it is stored once the key has expired. *)
RetriesSucceed ==
  FailuresStop =>
    \A e \in Events :
      []<>(\E h \in Handlers : At(h, "serve") /\ e \in unserved[h]) => <>(e \in events)

=============================================================================
