--------------------------- MODULE RequestProofs ---------------------------
(***************************************************************************)
(* What requests keep, for every number of handlers, users and events: the *)
(* events behind the answers, and the implementation of the abstract user  *)
(* directory.                                                              *)
(***************************************************************************)
EXTENDS RequestApi, TLAPS

(* The actions without their grouping. *)
Step(h) ==
  \/ \E batch \in Batches : ReceiveEvents(h, batch)
  \/ ReceiveUserRequest(h)
  \/ ServeUser(h)
  \/ ServeEvents(h)
  \/ Reply(h)
  \/ CommitRequest(h)
  \/ RollBackRequest(h)

LEMMA StepsOfNext ==
  ASSUME Next
  PROVE  \/ \E h \in Handlers : Step(h)
         \/ \E e \in Events : ExpireKey(e)
BY DEF Next, Receive, Serve, Reject, RequestFails, Step

-----------------------------------------------------------------------------
(* Rows. *)
LEMMA RowTypes ==
  /\ NoRow \in Rows /\ NewRow \in Rows /\ AdminRow \in Rows
  /\ NoDraft \in [Addresses -> Rows] /\ Seeded \in [Addresses -> Rows]
  /\ \A row \in Rows, c \in Changes, v \in Nat :
       Changed(row, c, v) \in Rows /\ Changed(row, c, v).version = v
  /\ NoRow.version = 0 /\ NewRow.version = 1 /\ AdminRow.version = 1
BY UserAssumption
   DEF NoRow, NewRow, AdminRow, NoDraft, Seeded, Rows, Roles, Changed

(* A request knows what it is about. *)
LEMMA AskTypes ==
  ASSUME NEW ask \in {NoAsk, Ingest} \cup Registers \cup Patches
  PROVE  /\ ask.kind = "patch" => ask \in Patches
         /\ ask.kind = "register" => ask \in Registers
         /\ ask \in Patches => /\ ask.on \in Addresses /\ ask.change \in Changes
                               /\ ask.based \in Nat /\ ask.based # 0
         /\ ask \in Registers => ask.on \in Addresses
<1>1. ask \in Patches => ask.on \in Addresses /\ ask.change \in Changes
                         /\ ask.based \in 1..MaxVersion
  BY DEF Patches
<1>2. ask \in Registers => ask.on \in Addresses /\ ask.kind = "register"
  BY DEF Registers
<1>3. ask \in Patches => ask.kind = "patch"
  BY DEF Patches
<1>4. NoAsk.kind = "none" /\ Ingest.kind = "ingest"
  BY DEF NoAsk, Ingest
<1> QED
  BY <1>1, <1>2, <1>3, <1>4, AccountsAssumption

(* Where a request is, and what it has in hand there. *)
HandInv(h) ==
  /\ step[h] \in {"idle", "find", "write"} => serving[h] = {}
  /\ step[h] \in {"reply", "commit"} => unserved[h] = {}
  /\ step[h] \notin {"insert", "mark"} => claims[h] = {}
  /\ \A e, f \in claims[h] : e = f
  /\ step[h] = "reply" => answersFirst
  /\ step[h] = "find" => asks[h] \in Patches
  /\ step[h] \notin {"reply", "commit"} => draft[h] = NoDraft
  /\ tx[h] \in {"none", "open"}

StepInv == \A h \in Handlers : HandInv(h)

-----------------------------------------------------------------------------
LEMMA InitTypeOK == Init => TypeOK
<1> SUFFICES ASSUME Init PROVE TypeOK
  OBVIOUS
<1>1. StepsTypeOK
  BY DEF Init, StepsInit, StepsTypeOK, Steps
<1>2. AccountsTypeOK
  <2>1. users \in [Addresses -> Rows]
    BY RowTypes DEF Init, AccountsInit
  <2>2. known \in [Addresses -> Nat]
    BY <2>1 DEF Init, AccountsInit, Rows
  <2> QED
    BY <2>1, <2>2, RowTypes DEF Init, AccountsInit, AccountsTypeOK
<1>3. IngestTypeOK
  BY DEF Init, IngestInit, IngestTypeOK
<1>4. TableTypeOK /\ KeysTypeOK
  BY DEF Init, TableInit, KeysInit, TableTypeOK, KeysTypeOK
<1> QED
  BY <1>1, <1>2, <1>3, <1>4 DEF TypeOK

(* Types, action by action. *)
LEMMA TypeReceiveEvents ==
  ASSUME TypeOK, StepInv, NEW h \in Handlers, NEW batch \in Batches,
         ReceiveEvents(h, batch)
  PROVE  TypeOK'
<1> USE DEF TypeOK, ReceiveEvents, AdmitIngest, Admit, TakeBatch
<1>1. StepsTypeOK'
  BY DEF Goto, StepsTypeOK, Steps
<1>2. AccountsTypeOK'
  BY DEF AccountsTypeOK
<1>3. IngestTypeOK'
  <2>1. claims[h] = {}
    BY DEF At, StepInv, HandInv
  <2> QED
    BY <2>1, SyncAssumption DEF IngestTypeOK
<1>4. TableTypeOK' /\ KeysTypeOK'
  BY DEF TableTypeOK, KeysTypeOK, tableVars
<1> QED
  BY <1>1, <1>2, <1>3, <1>4

LEMMA TypeReceiveUserRequest ==
  ASSUME TypeOK, NEW h \in Handlers, ReceiveUserRequest(h)
  PROVE  TypeOK'
<1> USE DEF TypeOK, ReceiveUserRequest
<1>1. StepsTypeOK'
  BY DEF AdmitUserRequest, AdmitRegister, AdmitPatch, Admit, Goto, StepsTypeOK,
         Steps
<1>2. AccountsTypeOK'
  <2>1. CASE \E ask \in Registers : AdmitRegister(h, ask)
    BY <2>1 DEF AdmitRegister, Admit, AccountsTypeOK
  <2>2. CASE \E by \in Addresses, ask \in Patches : AdmitPatch(h, by, ask)
    <3>1. PICK by \in Addresses, ask \in Patches : AdmitPatch(h, by, ask)
      BY <2>2
    <3>2. users[by].version \in Nat
      BY DEF AccountsTypeOK, Rows
    <3> QED
      BY <3>1, <3>2 DEF AdmitPatch, Admit, AccountsTypeOK
  <2> QED
    BY <2>1, <2>2 DEF AdmitUserRequest
<1>3. IngestTypeOK'
  BY DEF IngestTypeOK, ingestVars
<1>4. TableTypeOK' /\ KeysTypeOK'
  BY DEF TableTypeOK, KeysTypeOK, tableVars
<1> QED
  BY <1>1, <1>2, <1>3, <1>4

LEMMA TypeServeUser ==
  ASSUME TypeOK, StepInv, NEW h \in Handlers, ServeUser(h)
  PROVE  TypeOK'
<1> USE DEF TypeOK, ServeUser
<1>1. StepsTypeOK'
  BY DEF FindUser, UpdateUser, InsertUser, Write, Goto, Ending, StepsTypeOK,
         Steps
<1>2. AccountsTypeOK'
  <2>1. CASE FindUser(h)
    <3>1. asks[h].on \in Addresses
      BY <2>1, AskTypes DEF FindUser, At, StepInv, HandInv, AccountsTypeOK
    <3>2. users[asks[h].on].version \in Nat
      BY <3>1 DEF AccountsTypeOK, Rows
    <3> QED
      BY <2>1, <3>2 DEF FindUser, Exists, AccountsTypeOK
  <2>2. CASE UpdateUser(h)
    <3>1. asks[h] \in Patches
      BY <2>2, AskTypes DEF UpdateUser, AtWrite, AccountsTypeOK
    <3>2. Changed(users[asks[h].on], asks[h].change, read[h] + 1) \in Rows
      BY <3>1, RowTypes, AskTypes DEF AccountsTypeOK
    <3> QED
      BY <2>2, <3>1, <3>2 DEF UpdateUser, Write, AccountsTypeOK
  <2>3. CASE InsertUser(h)
    BY <2>3, RowTypes DEF InsertUser, Write, AccountsTypeOK
  <2> QED
    BY <2>1, <2>2, <2>3
<1>3. IngestTypeOK'
  BY DEF IngestTypeOK, ingestVars
<1>4. TableTypeOK' /\ KeysTypeOK'
  BY DEF TableTypeOK, KeysTypeOK, tableVars
<1> QED
  BY <1>1, <1>2, <1>3, <1>4

LEMMA TypeServeEvents ==
  ASSUME TypeOK, StepInv, NEW h \in Handlers, ServeEvents(h)
  PROVE  TypeOK'
<1> USE DEF TypeOK, ServeEvents
<1>1. StepsTypeOK'
  BY DEF ClaimNew, Deduplicate, Insert, MarkDone, Done, Goto, Ending,
         StepsTypeOK, Steps
<1>2. AccountsTypeOK'
  BY DEF AccountsTypeOK, accountVars
<1>3. PICK e \in Events :
        ClaimNew(h, e) \/ Deduplicate(h, e) \/ Insert(h, e) \/ MarkDone(h, e)
  OBVIOUS
<1>4. IngestTypeOK'
  <2>1. CASE ClaimNew(h, e)
    BY <2>1 DEF ClaimNew, IngestTypeOK
  <2>2. CASE Deduplicate(h, e)
    <3>1. claims[h] = {}
      BY <2>2 DEF Deduplicate, At, StepInv, HandInv
    <3> QED
      BY <2>2, <3>1 DEF Deduplicate, Done, IngestTypeOK
  <2>3. CASE Insert(h, e)
    BY <2>3 DEF Insert, IngestTypeOK, ingestVars
  <2>4. CASE MarkDone(h, e)
    BY <2>4 DEF MarkDone, Done, IngestTypeOK
  <2> QED
    BY <1>3, <2>1, <2>2, <2>3, <2>4
<1>5. TableTypeOK'
  <2>1. CASE Insert(h, e)
    BY <2>1 DEF Insert, InsertRow, InsertConflict, TableTypeOK
  <2>2. CASE UNCHANGED tableVars
    BY <2>2 DEF TableTypeOK, tableVars
  <2> QED
    BY <1>3, <2>1, <2>2 DEF ClaimNew, Deduplicate, MarkDone
<1>6. KeysTypeOK'
  BY <1>3 DEF ClaimNew, Deduplicate, Insert, MarkDone, SetNX, SetDoneXX, SetDone,
         KeysTypeOK
<1> QED
  BY <1>1, <1>2, <1>4, <1>5, <1>6

(* The end of a request, whether it is committed or rolled back. *)
LEMMA TypeEndRequest ==
  ASSUME TypeOK, NEW h \in Handlers, EndRequest(h),
         users' \in [Addresses -> Rows], known' \in [Addresses -> Nat],
         told' \subseteq Events, left' \subseteq Events
  PROVE  StepsTypeOK' /\ AccountsTypeOK' /\ IngestTypeOK'
<1> USE DEF TypeOK, EndRequest
<1>1. StepsTypeOK'
  BY DEF Goto, StepsTypeOK, Steps
<1>2. AccountsTypeOK'
  BY RowTypes DEF Forget, AccountsTypeOK
<1>3. IngestTypeOK'
  BY DEF EndIngest, IngestTypeOK
<1> QED
  BY <1>1, <1>2, <1>3

LEMMA TypeAnswer ==
  ASSUME TypeOK, NEW h \in Handlers, Answer(h)
  PROVE  known' \in [Addresses -> Nat] /\ told' \subseteq Events
<1>1. \A a \in Addresses : draft[h][a].version \in Nat
  BY DEF TypeOK, AccountsTypeOK, Rows
<1> QED
  BY <1>1 DEF Answer, Learn, TypeOK, AccountsTypeOK, IngestTypeOK

LEMMA TypeReply ==
  ASSUME TypeOK, NEW h \in Handlers, Reply(h)
  PROVE  TypeOK'
<1>1. known' \in [Addresses -> Nat] /\ told' \subseteq Events
  BY TypeAnswer DEF Reply
<1>2. StepsTypeOK'
  BY DEF Reply, Goto, TypeOK, StepsTypeOK, Steps
<1>3. AccountsTypeOK' /\ IngestTypeOK'
  BY <1>1 DEF Reply, TypeOK, AccountsTypeOK, IngestTypeOK
<1>4. TableTypeOK' /\ KeysTypeOK'
  BY DEF Reply, TypeOK, TableTypeOK, KeysTypeOK, tableVars
<1> QED
  BY <1>2, <1>3, <1>4 DEF TypeOK

LEMMA TypeCommitRequest ==
  ASSUME TypeOK, NEW h \in Handlers, CommitRequest(h)
  PROVE  TypeOK'
<1>1. known' \in [Addresses -> Nat] /\ told' \subseteq Events
  BY TypeAnswer DEF CommitRequest
<1>2. users' \in [Addresses -> Rows]
  BY DEF CommitRequest, Committed, TypeOK, AccountsTypeOK
<1>3. StepsTypeOK' /\ AccountsTypeOK' /\ IngestTypeOK'
  BY <1>1, <1>2, TypeEndRequest DEF CommitRequest, TypeOK, IngestTypeOK
<1>4. TableTypeOK'
  BY SyncAssumption DEF CommitRequest, Commit, TypeOK, TableTypeOK
<1>5. KeysTypeOK'
  BY DEF CommitRequest, TypeOK, KeysTypeOK
<1> QED
  BY <1>3, <1>4, <1>5 DEF TypeOK

LEMMA TypeRollBackRequest ==
  ASSUME TypeOK, NEW h \in Handlers, RollBackRequest(h)
  PROVE  TypeOK'
<1>1. left' \subseteq Events
  BY SyncAssumption DEF RollBackRequest, Leave, TypeOK, IngestTypeOK, TableTypeOK
<1>2. StepsTypeOK' /\ AccountsTypeOK' /\ IngestTypeOK'
  BY <1>1, TypeEndRequest
     DEF RollBackRequest, TypeOK, AccountsTypeOK, IngestTypeOK
<1>3. TableTypeOK'
  BY DEF RollBackRequest, Rollback, TypeOK, TableTypeOK
<1>4. KeysTypeOK'
  BY DEF RollBackRequest, TypeOK, KeysTypeOK
<1> QED
  BY <1>2, <1>3, <1>4 DEF TypeOK

LEMMA TypeExpireKey ==
  ASSUME TypeOK, NEW e \in Events, ExpireKey(e)
  PROVE  TypeOK'
<1> USE DEF TypeOK, ExpireKey
<1>1. StepsTypeOK' /\ AccountsTypeOK'
  BY DEF StepsTypeOK, AccountsTypeOK, accountVars
<1>2. IngestTypeOK' /\ TableTypeOK'
  BY DEF IngestTypeOK, TableTypeOK, ingestVars, tableVars
<1>3. KeysTypeOK'
  BY DEF Expire, KeysTypeOK
<1> QED
  BY <1>1, <1>2, <1>3

LEMMA TypeStutter ==
  ASSUME TypeOK, UNCHANGED vars
  PROVE  TypeOK'
<1> USE DEF TypeOK, vars
<1>1. StepsTypeOK' /\ AccountsTypeOK'
  BY DEF StepsTypeOK, AccountsTypeOK, accountVars
<1>2. IngestTypeOK' /\ TableTypeOK' /\ KeysTypeOK'
  BY DEF IngestTypeOK, TableTypeOK, KeysTypeOK, ingestVars, tableVars
<1> QED
  BY <1>1, <1>2

LEMMA NextKeepsTypeOK ==
  ASSUME TypeOK, StepInv, [Next]_vars
  PROVE  TypeOK'
<1>1. CASE UNCHANGED vars
  BY <1>1, TypeStutter
<1>2. ASSUME NEW h \in Handlers, Step(h)
      PROVE  TypeOK'
  BY <1>2, TypeReceiveEvents, TypeReceiveUserRequest, TypeServeUser,
     TypeServeEvents, TypeReply, TypeCommitRequest, TypeRollBackRequest DEF Step
<1>3. ASSUME NEW e \in Events, ExpireKey(e)
      PROVE  TypeOK'
  BY <1>3, TypeExpireKey
<1> QED
  BY <1>1, <1>2, <1>3, StepsOfNext

-----------------------------------------------------------------------------
LEMMA InitStepInv == Init => StepInv
<1> SUFFICES ASSUME Init, NEW h \in Handlers PROVE HandInv(h)
  BY DEF StepInv
<1>1. step[h] = "idle" /\ draft[h] = NoDraft
  BY DEF Init, StepsInit, AccountsInit
<1>2. serving[h] = {} /\ claims[h] = {}
  BY DEF Init, IngestInit
<1>3. tx[h] = "none"
  BY SyncAssumption DEF Init, TableInit
<1> QED
  BY <1>1, <1>2, <1>3 DEF HandInv

(* A step of one request leaves the others where they are. *)
LEMMA OthersStay ==
  ASSUME TypeOK, NEW h \in Handlers, Step(h), NEW o \in Handlers, o # h
  PROVE  /\ step'[o] = step[o] /\ asks'[o] = asks[o] /\ read'[o] = read[o]
         /\ draft'[o] = draft[o]
         /\ serving'[o] = serving[o] /\ unserved'[o] = unserved[o]
         /\ claims'[o] = claims[o]
         /\ rows'[o] = rows[o] /\ tx'[o] = tx[o]
         /\ answersFirst' = answersFirst
<1> USE DEF TypeOK, StepsTypeOK, AccountsTypeOK, IngestTypeOK, TableTypeOK, Goto
<1>1. CASE \E batch \in Batches : ReceiveEvents(h, batch)
  <2>1. PICK batch \in Batches : ReceiveEvents(h, batch)
    BY <1>1
  <2>2. Admit(h, Ingest, "serve") /\ UNCHANGED read /\ TakeBatch(h, batch)
    BY <2>1 DEF ReceiveEvents, AdmitIngest
  <2> QED
    BY <2>2 DEF Admit, TakeBatch, tableVars
<1>2. CASE ReceiveUserRequest(h)
  BY <1>2 DEF ReceiveUserRequest, AdmitUserRequest, AdmitRegister, AdmitPatch, Admit,
              ingestVars, tableVars
<1>3. CASE ServeUser(h)
  BY <1>3 DEF ServeUser, FindUser, UpdateUser, InsertUser, Write, ingestVars, tableVars
<1>4. CASE ServeEvents(h)
  <2>1. PICK e \in Events :
          ClaimNew(h, e) \/ Deduplicate(h, e) \/ Insert(h, e) \/ MarkDone(h, e)
    BY <1>4 DEF ServeEvents
  <2>2. UNCHANGED accountVars
    BY <1>4 DEF ServeEvents
  <2>3. CASE ClaimNew(h, e)
    BY <2>2, <2>3 DEF ClaimNew, accountVars, tableVars
  <2>4. CASE Deduplicate(h, e)
    BY <2>2, <2>4 DEF Deduplicate, Done, accountVars, tableVars
  <2>5. CASE Insert(h, e)
    BY <2>2, <2>5, SyncAssumption
       DEF Insert, InsertRow, InsertConflict, accountVars, ingestVars
  <2>6. CASE MarkDone(h, e)
    BY <2>2, <2>6 DEF MarkDone, Done, accountVars, tableVars
  <2> QED
    BY <2>1, <2>3, <2>4, <2>5, <2>6
<1>5. CASE Reply(h)
  BY <1>5 DEF Reply, tableVars
<1>6. CASE CommitRequest(h)
  BY <1>6, SyncAssumption DEF CommitRequest, Commit, EndRequest, Forget, EndIngest
<1>7. CASE RollBackRequest(h)
  BY <1>7, SyncAssumption DEF RollBackRequest, Rollback, EndRequest, Forget, EndIngest
<1> QED
  BY <1>1, <1>2, <1>3, <1>4, <1>5, <1>6, <1>7 DEF Step

LEMMA StepKeepsHand ==
  ASSUME TypeOK, StepInv, NEW h \in Handlers, Step(h)
  PROVE  HandInv(h)'
<1> USE SyncAssumption
    DEF TypeOK, StepsTypeOK, AccountsTypeOK, IngestTypeOK, TableTypeOK, Goto, At,
        StepInv, HandInv, Steps
<1>1. CASE \E batch \in Batches : ReceiveEvents(h, batch)
  BY <1>1 DEF ReceiveEvents, AdmitIngest, Admit, TakeBatch, tableVars
<1>2. CASE ReceiveUserRequest(h)
  BY <1>2 DEF ReceiveUserRequest, AdmitUserRequest, AdmitRegister, AdmitPatch, Admit,
              ingestVars, tableVars
<1>3. CASE ServeUser(h)
  <2>1. CASE FindUser(h)
    BY <1>3, <2>1 DEF ServeUser, FindUser, ingestVars, tableVars
  <2>2. CASE UpdateUser(h) \/ InsertUser(h)
    BY <1>3, <2>2 DEF ServeUser, UpdateUser, InsertUser, AtWrite, Write, Ending,
                      ingestVars, tableVars
  <2> QED
    BY <1>3, <2>1, <2>2 DEF ServeUser
<1>4. CASE ServeEvents(h)
  <2>1. PICK e \in Events :
          ClaimNew(h, e) \/ Deduplicate(h, e) \/ Insert(h, e) \/ MarkDone(h, e)
    BY <1>4 DEF ServeEvents
  <2>2. UNCHANGED accountVars
    BY <1>4 DEF ServeEvents
  <2>3. CASE ClaimNew(h, e)
    BY <2>2, <2>3 DEF ClaimNew, accountVars, tableVars
  <2>4. CASE Deduplicate(h, e)
    BY <2>2, <2>4 DEF Deduplicate, Done, Ending, accountVars, tableVars
  <2>5. CASE Insert(h, e)
    BY <2>2, <2>5 DEF Insert, InsertRow, InsertConflict, accountVars, ingestVars
  <2>6. CASE MarkDone(h, e)
    BY <2>2, <2>6 DEF MarkDone, Done, Ending, accountVars, tableVars
  <2> QED
    BY <2>1, <2>3, <2>4, <2>5, <2>6
<1>5. CASE Reply(h)
  BY <1>5 DEF Reply, tableVars
<1>6. CASE CommitRequest(h)
  BY <1>6 DEF CommitRequest, Commit, EndRequest, Forget, EndIngest
<1>7. CASE RollBackRequest(h)
  BY <1>7 DEF RollBackRequest, Rollback, EndRequest, Forget, EndIngest
<1> QED
  BY <1>1, <1>2, <1>3, <1>4, <1>5, <1>6, <1>7 DEF Step

LEMMA NextKeepsStepInv ==
  ASSUME TypeOK, StepInv, [Next]_vars
  PROVE  StepInv'
<1>1. ASSUME NEW h \in Handlers, Step(h)
      PROVE  StepInv'
  <2>1. HandInv(h)'
    BY <1>1, StepKeepsHand
  <2>2. ASSUME NEW o \in Handlers, o # h
        PROVE  HandInv(o)'
    BY <1>1, <2>2, OthersStay DEF StepInv, HandInv
  <2> QED
    BY <2>1, <2>2 DEF StepInv
<1>2. CASE UNCHANGED vars
  BY <1>2 DEF vars, accountVars, ingestVars, tableVars, StepInv, HandInv
<1>3. ASSUME NEW e \in Events, ExpireKey(e)
      PROVE  StepInv'
  BY <1>3 DEF ExpireKey, accountVars, ingestVars, tableVars, StepInv, HandInv
<1> QED
  BY <1>1, <1>2, <1>3, StepsOfNext

-----------------------------------------------------------------------------
(* Somebody keeps answering for an event as long as nothing is given up. *)
LEMMA BackedStays ==
  ASSUME events \subseteq events', left \subseteq left',
         \A o \in Handlers : claims[o] \cup rows[o] \subseteq claims'[o] \cup rows'[o],
         NEW e \in Events, Backed(e)
  PROVE  Backed(e)'
BY DEF Backed

(* What a step has to show for KeyInvariant. *)
LEMMA KeyRule ==
  ASSUME KeyInvariant,
         \A e : Backed(e) => Backed(e)',
         \A e \in told' : e \in told \/ Backed(e),
         \A e \in Events : Held(e)' => Held(e) \/ Backed(e)',
         \A o \in Handlers : \A e \in serving'[o] \ unserved'[o] :
            e \in serving[o] \ unserved[o] \/ Backed(e),
         \A o \in Handlers :
            step'[o] = "mark" => claims'[o] \subseteq events' \cup rows'[o]
  PROVE  KeyInvariant'
BY DEF KeyInvariant, ToldIsStored, At

LEMMA KeyEventsAside ==
  ASSUME KeyInvariant, UNCHANGED <<serving, unserved, claims, left, rows>>,
         events \subseteq events',
         \A e \in told' : e \in told \/ Backed(e),
         \A e \in Events : Held(e)' => Held(e),
         \A o \in Handlers : step'[o] = "mark" => step[o] = "mark"
  PROVE  KeyInvariant'
<1>1. \A e : Backed(e) => Backed(e)'
  BY DEF Backed
<1>2. \A o \in Handlers :
        step'[o] = "mark" => claims'[o] \subseteq events' \cup rows'[o]
  BY DEF KeyInvariant, At
<1> QED
  BY <1>1, <1>2, KeyRule

LEMMA KeyReceiveEvents ==
  ASSUME TypeOK, StepInv, KeyInvariant, NEW h \in Handlers, NEW batch \in Batches,
         ReceiveEvents(h, batch)
  PROVE  KeyInvariant'
<1>1. TakeBatch(h, batch) /\ Goto(h, "serve")
  BY DEF ReceiveEvents, AdmitIngest, Admit
<1>2. \A e : Backed(e) => Backed(e)'
  BY <1>1 DEF TakeBatch, tableVars, Backed
<1>3. \A o \in Handlers : \A e \in serving'[o] \ unserved'[o] :
        e \in serving[o] \ unserved[o]
  BY <1>1 DEF TakeBatch, TypeOK, IngestTypeOK
<1>4. \A o \in Handlers :
        step'[o] = "mark" => claims'[o] \subseteq events' \cup rows'[o]
  BY <1>1 DEF TakeBatch, Goto, TypeOK, StepsTypeOK, tableVars, KeyInvariant, At
<1> QED
  BY <1>1, <1>2, <1>3, <1>4, KeyRule DEF TakeBatch, Held

LEMMA KeyServeUser ==
  ASSUME TypeOK, KeyInvariant, NEW h \in Handlers,
         ReceiveUserRequest(h) \/ ServeUser(h)
  PROVE  KeyInvariant'
<1>1. UNCHANGED <<ingestVars, tableVars, idem>>
  BY DEF ReceiveUserRequest, ServeUser
<1>2. PICK next \in {"find", "write", Ending} : Goto(h, next)
  BY DEF ReceiveUserRequest, AdmitUserRequest, AdmitRegister, AdmitPatch, Admit,
         ServeUser, FindUser, UpdateUser, InsertUser, Write
<1>3. \A o \in Handlers : step'[o] = "mark" => step[o] = "mark"
  BY <1>2 DEF Goto, Ending, TypeOK, StepsTypeOK
<1> QED
  BY <1>1, <1>3, KeyEventsAside DEF ingestVars, tableVars, Held

LEMMA KeyClaimNew ==
  ASSUME TypeOK, StepInv, KeyInvariant, NEW h \in Handlers, NEW e \in Events,
         ClaimNew(h, e)
  PROVE  KeyInvariant'
<1> USE DEF ClaimNew, TypeOK, IngestTypeOK
<1>1. e \in claims'[h]
  OBVIOUS
<1>2. claims[h] = {}
  BY DEF StepInv, HandInv, At
<1>3. \A x : Backed(x) => Backed(x)'
  BY <1>1, <1>2 DEF Backed, tableVars
<1>4. \A x \in Events : Held(x)' => Held(x) \/ Backed(x)'
  BY <1>1 DEF Held, SetNX, KeysTypeOK, Backed
<1>5. \A o \in Handlers :
        step'[o] = "mark" => claims'[o] \subseteq events' \cup rows'[o]
  BY DEF Goto, StepsTypeOK, tableVars, KeyInvariant, At
<1> QED
  BY <1>3, <1>4, <1>5, KeyRule

LEMMA KeyDeduplicate ==
  ASSUME TypeOK, KeyInvariant, NEW h \in Handlers, NEW e \in Events,
         Deduplicate(h, e)
  PROVE  KeyInvariant'
<1> USE DEF Deduplicate, Done, TypeOK, IngestTypeOK
<1>1. \A x : Backed(x) => Backed(x)'
  BY DEF Backed, tableVars
<1>2. \A o \in Handlers : \A x \in serving'[o] \ unserved'[o] :
        x \in serving[o] \ unserved[o] \/ Backed(x)
  BY DEF KeyInvariant
<1>3. \A o \in Handlers :
        step'[o] = "mark" => claims'[o] \subseteq events' \cup rows'[o]
  BY DEF Goto, Ending, StepsTypeOK, tableVars, KeyInvariant, At
<1> QED
  BY <1>1, <1>2, <1>3, KeyRule DEF Held

LEMMA KeyInsert ==
  ASSUME TypeOK, StepInv, KeyInvariant, NEW h \in Handlers, NEW e \in Events,
         Insert(h, e)
  PROVE  KeyInvariant'
<1> USE SyncAssumption DEF Insert, TypeOK, ingestVars
<1>1. events' = events /\ \A o \in Handlers : rows[o] \subseteq rows'[o]
  BY DEF InsertRow, InsertConflict, TableTypeOK
<1>2. \A x : Backed(x) => Backed(x)'
  BY <1>1 DEF Backed
<1>3. claims'[h] \subseteq events' \cup rows'[h]
  <2>1. claims'[h] \subseteq {e}
    BY DEF StepInv, HandInv
  <2>2. e \in events' \cup rows'[h]
    BY DEF InsertRow, InsertConflict, TableTypeOK
  <2> QED
    BY <2>1, <2>2
<1>4. \A o \in Handlers :
        step'[o] = "mark" => claims'[o] \subseteq events' \cup rows'[o]
  BY <1>1, <1>3 DEF Goto, StepsTypeOK, KeyInvariant, At
<1> QED
  BY <1>2, <1>4, KeyRule DEF Held

LEMMA KeyMarkDone ==
  ASSUME TypeOK, KeyInvariant, NEW h \in Handlers, NEW e \in Events,
         MarkDone(h, e)
  PROVE  KeyInvariant'
<1> USE DEF MarkDone, TypeOK, IngestTypeOK
<1>1. claims[h] \subseteq events \cup rows[h]
  BY DEF KeyInvariant
<1>2. \A x : Backed(x) => Backed(x)'
  BY <1>1 DEF Backed, tableVars
<1>3. \A x \in Events : Held(x)' => Held(x)
  BY DEF SetDoneXX, SetDone, Held, KeysTypeOK
<1>4. \A o \in Handlers : \A x \in serving'[o] \ unserved'[o] :
        x \in serving[o] \ unserved[o] \/ Backed(x)
  BY DEF Done, Backed
<1>5. \A o \in Handlers :
        step'[o] = "mark" => claims'[o] \subseteq events' \cup rows'[o]
  BY DEF Done, Goto, Ending, StepsTypeOK, tableVars, KeyInvariant, At
<1> QED
  BY <1>2, <1>3, <1>4, <1>5, KeyRule

(* Every event of the request has been served when the answer is sent. *)
LEMMA KeyAnswer ==
  ASSUME TypeOK, StepInv, KeyInvariant, NEW h \in Handlers, Answer(h),
         step[h] \in {"reply", "commit"}
  PROVE  \A e \in told' : e \in told \/ Backed(e)
BY DEF Answer, StepInv, HandInv, KeyInvariant

LEMMA KeyReply ==
  ASSUME TypeOK, StepInv, KeyInvariant, NEW h \in Handlers, Reply(h)
  PROVE  KeyInvariant'
<1>1. \A e \in told' : e \in told \/ Backed(e)
  BY KeyAnswer DEF Reply, At
<1>2. \A o \in Handlers : step'[o] = "mark" => step[o] = "mark"
  BY DEF Reply, Goto, TypeOK, StepsTypeOK
<1> QED
  BY <1>1, <1>2, KeyEventsAside DEF Reply, tableVars, Held

(* The end of a request, whose rows are stored or left behind. *)
LEMMA KeyEndRequest ==
  ASSUME TypeOK, KeyInvariant, NEW h \in Handlers, EndRequest(h), UNCHANGED idem,
         events \subseteq events', left \subseteq left',
         claims[h] \cup rows[h] \subseteq events' \cup left',
         \A o \in Handlers \ {h} : rows'[o] = rows[o],
         \A e \in told' : e \in told \/ Backed(e)
  PROVE  KeyInvariant'
<1> USE DEF EndRequest, EndIngest, TypeOK, IngestTypeOK
<1>1. \A e : Backed(e) => Backed(e)'
  BY DEF Backed
<1>2. \A o \in Handlers : \A e \in serving'[o] \ unserved'[o] :
        e \in serving[o] \ unserved[o]
  OBVIOUS
<1>3. \A o \in Handlers :
        step'[o] = "mark" => claims'[o] \subseteq events' \cup rows'[o]
  BY DEF Goto, StepsTypeOK, KeyInvariant, At
<1> QED
  BY <1>1, <1>2, <1>3, KeyRule DEF Held

LEMMA KeyCommitRequest ==
  ASSUME TypeOK, StepInv, KeyInvariant, NEW h \in Handlers, CommitRequest(h)
  PROVE  KeyInvariant'
<1> USE SyncAssumption DEF CommitRequest, TypeOK
<1>1. \A e \in told' : e \in told \/ Backed(e)
  BY KeyAnswer DEF At
<1>2. claims[h] = {} /\ tx[h] # "aborted"
  BY DEF StepInv, HandInv, At
<1>3. events' = events \cup rows[h]
  BY <1>2 DEF Commit
<1>4. \A o \in Handlers \ {h} : rows'[o] = rows[o]
  BY DEF Commit, TableTypeOK
<1> QED
  BY <1>1, <1>2, <1>3, <1>4, KeyEndRequest

LEMMA KeyRollBackRequest ==
  ASSUME TypeOK, KeyInvariant, NEW h \in Handlers, RollBackRequest(h)
  PROVE  KeyInvariant'
<1> USE SyncAssumption DEF RollBackRequest, TypeOK
<1>1. events' = events /\ left' = left \cup claims[h] \cup rows[h]
  BY DEF Rollback, Leave
<1>2. \A o \in Handlers \ {h} : rows'[o] = rows[o]
  BY DEF Rollback, TableTypeOK
<1> QED
  BY <1>1, <1>2, KeyEndRequest

LEMMA KeyExpireKey ==
  ASSUME TypeOK, KeyInvariant, NEW e \in Events, ExpireKey(e)
  PROVE  KeyInvariant'
<1>1. \A x \in Events : Held(x)' => Held(x)
  BY DEF ExpireKey, Expire, Held, TypeOK, KeysTypeOK
<1> QED
  BY <1>1, KeyEventsAside DEF ExpireKey, ingestVars, tableVars

LEMMA NextKeepsKeyInvariant ==
  ASSUME TypeOK, StepInv, KeyInvariant, [Next]_vars
  PROVE  KeyInvariant'
<1>1. ASSUME NEW h \in Handlers, Step(h)
      PROVE  KeyInvariant'
  BY <1>1, KeyReceiveEvents, KeyServeUser, KeyClaimNew, KeyDeduplicate, KeyInsert,
     KeyMarkDone, KeyReply, KeyCommitRequest, KeyRollBackRequest
     DEF Step, ServeEvents
<1>2. ASSUME NEW e \in Events, ExpireKey(e)
      PROVE  KeyInvariant'
  BY <1>2, KeyExpireKey
<1>3. CASE UNCHANGED vars
  BY <1>3, KeyEventsAside DEF vars, ingestVars, tableVars, Held
<1> QED
  BY <1>1, <1>2, <1>3, StepsOfNext

-----------------------------------------------------------------------------
(* The inductive invariant of the ingest side. *)
IInv == TypeOK /\ StepInv /\ KeyInvariant

LEMMA InitIInv == Init => IInv
<1> SUFFICES ASSUME Init PROVE IInv
  OBVIOUS
<1>1. TypeOK /\ StepInv
  BY InitTypeOK, InitStepInv
<1>2. KeyInvariant
  <2>1. told = {} /\ \A e \in Events : ~Held(e)
    BY DEF Init, IngestInit, KeysInit, Held
  <2>2. \A h \in Handlers : serving[h] = {} /\ claims[h] = {}
    BY DEF Init, IngestInit
  <2> QED
    BY <2>1, <2>2 DEF KeyInvariant, ToldIsStored
<1> QED
  BY <1>1, <1>2 DEF IInv

LEMMA Invariance == Spec => []IInv
<1>1. IInv /\ [Next]_vars => IInv'
  BY NextKeepsTypeOK, NextKeepsStepInv, NextKeepsKeyInvariant DEF IInv
<1> QED
  BY InitIInv, <1>1, PTL DEF Spec

(* Every variable keeps its type: in particular the claims of a request are among
   the events it has still to serve (event_service.py:55-135). *)
THEOREM RequestTypeCorrect == Spec => []TypeOK
BY Invariance, PTL DEF IInv

(* No key outlives everybody who answers for its event, whatever requests come,
   fail and wait for each other (event_service.py:41-135, session.py:29-38). *)
THEOREM KeysAreBacked == Spec => []KeyInvariant
BY Invariance, PTL DEF IInv

(* A 2xx answer of the sync mode stands for an event that is stored, is being
   stored, or was left behind by a failed request, whether the answer is sent
   before the commit or after it. *)
THEOREM AnswersAreBacked == Spec => []ToldIsStored
<1>1. IInv => ToldIsStored
  BY DEF IInv, KeyInvariant
<1> QED
  BY Invariance, <1>1, PTL

-----------------------------------------------------------------------------
(* The users. What a version that a client knows may be ahead of the committed
   row: one, where it is told before the commit. *)
Slack == IF answersFirst THEN 1 ELSE 0

(* A row that one request may make of another, in the abstract directory. *)
Lawful(old, new) ==
  \/ old = NoRow /\ new = NewRow
  \/ /\ old # NoRow
     /\ \E c \in Changes, v \in {old.version, old.version + 1} :
          (v = old.version => answersFirst) /\ new = Changed(old, c, v)

RowInv ==
  \A a \in Addresses :
    /\ users[a].version = 0 => users[a] = NoRow
    /\ known[a] <= users[a].version + Slack

(* A request has written at most one row, which no other has written, and which
   follows from the committed one. *)
DraftInv ==
  \A h \in Handlers, a \in Addresses :
    draft[h][a] # NoRow =>
      /\ Lawful(users[a], draft[h][a])
      /\ \A b \in Addresses \ {a} : draft[h][b] = NoRow
      /\ \A o \in Handlers \ {h} : draft[o][a] = NoRow

(* The version a PATCH has read is at most the committed one, and at least the one
   it is based on, but for the slack. *)
PatchInv(h) ==
  asks[h] \in Patches =>
    /\ step[h] = "find" => asks[h].based <= users[asks[h].on].version + Slack
    /\ step[h] \in {"find", "write"} /\ read[h] # 0 =>
         /\ read[h] <= users[asks[h].on].version
         /\ asks[h].based <= read[h] + Slack
    /\ step[h] = "write" => read[h] # 0

UserInv == RowInv /\ DraftInv /\ \A h \in Handlers : PatchInv(h)

LEMMA InitUserInv == Init => UserInv
<1> SUFFICES ASSUME Init PROVE UserInv
  OBVIOUS
<1>1. users = Seeded /\ \A a \in Addresses : known[a] = users[a].version
  BY DEF Init, AccountsInit
<1>2. RowInv
  <2> SUFFICES ASSUME NEW a \in Addresses
               PROVE  /\ users[a].version = 0 => users[a] = NoRow
                      /\ known[a] <= users[a].version + Slack
    BY DEF RowInv
  <2>1. users[a] = NoRow \/ users[a] = AdminRow
    BY <1>1 DEF Seeded
  <2>2. users[a].version \in Nat /\ AdminRow.version = 1
    BY <2>1, RowTypes
  <2> QED
    BY <1>1, <2>1, <2>2 DEF Slack
<1>3. DraftInv
  BY DEF DraftInv, Init, AccountsInit, NoDraft
<1>4. \A h \in Handlers : PatchInv(h)
  BY DEF PatchInv, Init, StepsInit
<1> QED
  BY <1>2, <1>3, <1>4 DEF UserInv

(* Versions, and who may move them. *)
LEMMA VersionTypes ==
  ASSUME TypeOK
  PROVE  /\ \A a \in Addresses : users[a].version \in Nat /\ known[a] \in Nat
         /\ \A h \in Handlers, a \in Addresses :
              draft[h][a] \in Rows /\ draft[h][a].version \in Nat
         /\ \A h \in Handlers : read[h] \in Nat
         /\ Slack \in {0, 1} /\ (Slack = 1 => answersFirst)
BY DEF TypeOK, AccountsTypeOK, Rows, Slack

LEMMA StepKeepsMode ==
  ASSUME NEW h \in Handlers, Step(h)
  PROVE  UNCHANGED answersFirst
<1> USE DEF Goto
<1>1. CASE \E batch \in Batches : ReceiveEvents(h, batch)
  BY <1>1 DEF ReceiveEvents, AdmitIngest, Admit
<1>2. CASE ReceiveUserRequest(h)
  BY <1>2 DEF ReceiveUserRequest, AdmitUserRequest, AdmitRegister, AdmitPatch, Admit
<1>3. CASE ServeUser(h)
  BY <1>3 DEF ServeUser, FindUser, UpdateUser, InsertUser, Write
<1>4. CASE ServeEvents(h)
  BY <1>4 DEF ServeEvents, ClaimNew, Deduplicate, Insert, MarkDone, Done
<1>5. CASE Reply(h)
  BY <1>5 DEF Reply
<1>6. CASE CommitRequest(h) \/ RollBackRequest(h)
  BY <1>6 DEF CommitRequest, RollBackRequest, EndRequest
<1> QED
  BY <1>1, <1>2, <1>3, <1>4, <1>5, <1>6 DEF Step

(* A request commits at most one row, lawfully. *)
LEMMA CommitIsLawful ==
  ASSUME TypeOK, DraftInv, NEW h \in Handlers, CommitRequest(h)
  PROVE  \/ UNCHANGED users
         \/ \E a \in Addresses :
              /\ draft[h][a] # NoRow
              /\ Lawful(users[a], draft[h][a])
              /\ users' = [users EXCEPT ![a] = draft[h][a]]
<1>1. users' = Committed(h) /\ users \in [Addresses -> Rows]
  BY DEF CommitRequest, TypeOK, AccountsTypeOK
<1>2. CASE \A a \in Addresses : draft[h][a] = NoRow
  BY <1>1, <1>2 DEF Committed
<1>3. ASSUME NEW a \in Addresses, draft[h][a] # NoRow
      PROVE  Lawful(users[a], draft[h][a])
             /\ users' = [users EXCEPT ![a] = draft[h][a]]
  <2>1. Lawful(users[a], draft[h][a])
        /\ \A b \in Addresses \ {a} : draft[h][b] = NoRow
    BY <1>3 DEF DraftInv
  <2>2. users' = [b \in Addresses |-> IF b = a THEN draft[h][a] ELSE users[b]]
    BY <1>1, <1>3, <2>1 DEF Committed
  <2> QED
    BY <1>1, <2>1, <2>2
<1> QED
  BY <1>2, <1>3

LEMMA LawfulVersions ==
  ASSUME NEW old \in Rows, NEW new, Lawful(old, new), old.version = 0 => old = NoRow
  PROVE  /\ new \in Rows /\ new.version # 0
         /\ old.version <= new.version /\ new.version <= old.version + 1
         /\ new.version = old.version => answersFirst
<1>1. old.version \in Nat
  BY DEF Rows
<1>2. CASE old = NoRow /\ new = NewRow
  BY <1>2, RowTypes
<1>3. CASE old # NoRow
  <2>1. PICK c \in Changes, v \in {old.version, old.version + 1} :
          (v = old.version => answersFirst) /\ new = Changed(old, c, v)
    BY <1>3 DEF Lawful
  <2>2. new \in Rows /\ new.version = v
    BY <1>1, <2>1, RowTypes
  <2> QED
    BY <1>1, <1>3, <2>1, <2>2
<1> QED
  BY <1>2, <1>3 DEF Lawful

(* Only a commit changes a committed row. *)
LEMMA OnlyCommitWrites ==
  ASSUME NEW h \in Handlers, Step(h), ~CommitRequest(h)
  PROVE  UNCHANGED users
<1>1. CASE \E batch \in Batches : ReceiveEvents(h, batch)
  BY <1>1 DEF ReceiveEvents, AdmitIngest, Admit
<1>2. CASE ReceiveUserRequest(h)
  BY <1>2 DEF ReceiveUserRequest, AdmitUserRequest, AdmitRegister, AdmitPatch, Admit
<1>3. CASE ServeUser(h)
  BY <1>3 DEF ServeUser, FindUser, UpdateUser, InsertUser, Write
<1>4. CASE ServeEvents(h)
  BY <1>4 DEF ServeEvents, accountVars
<1>5. CASE Reply(h) \/ RollBackRequest(h)
  BY <1>5 DEF Reply, RollBackRequest
<1> QED
  BY <1>1, <1>2, <1>3, <1>4, <1>5 DEF Step

LEMMA VersionsGrow ==
  ASSUME TypeOK, RowInv, DraftInv, NEW h \in Handlers, Step(h),
         NEW a \in Addresses
  PROVE  users'[a] \in Rows /\ users[a].version <= users'[a].version
<1>1. users \in [Addresses -> Rows] /\ users[a].version \in Nat
  BY VersionTypes DEF TypeOK, AccountsTypeOK
<1>2. CASE UNCHANGED users
  BY <1>1, <1>2
<1>3. CASE CommitRequest(h) /\ ~UNCHANGED users
  <2>1. PICK b \in Addresses : Lawful(users[b], draft[h][b])
                             /\ users' = [users EXCEPT ![b] = draft[h][b]]
    BY <1>3, CommitIsLawful
  <2>2. draft[h][b] \in Rows /\ users[b].version <= draft[h][b].version
    BY <1>1, <2>1, LawfulVersions DEF RowInv
  <2> QED
    BY <1>1, <2>1, <2>2
<1> QED
  BY <1>2, <1>3, OnlyCommitWrites

(* What a step has to show of the row invariant. *)
LEMMA RowKept ==
  ASSUME RowInv, UNCHANGED <<users, known, answersFirst>>
  PROVE  RowInv'
BY DEF RowInv, Slack

LEMMA RowReply ==
  ASSUME TypeOK, StepInv, RowInv, DraftInv, NEW h \in Handlers, Reply(h)
  PROVE  RowInv'
<1>1. UNCHANGED <<users, answersFirst>> /\ answersFirst
  BY DEF Reply, Goto, StepInv, HandInv, At
<1> SUFFICES ASSUME NEW a \in Addresses
             PROVE  known'[a] <= users[a].version + Slack
  BY <1>1 DEF RowInv, Slack
<1>2. users[a] \in Rows /\ users[a].version \in Nat /\ known[a] \in Nat
  BY VersionTypes DEF TypeOK, AccountsTypeOK
<1>3. draft[h][a].version \in Nat /\ draft[h][a].version <= users[a].version + 1
  <2>1. CASE draft[h][a] = NoRow
    BY <1>2, <2>1, RowTypes
  <2>2. CASE draft[h][a] # NoRow
    BY <1>2, <2>2, LawfulVersions, VersionTypes DEF DraftInv, RowInv
  <2> QED
    BY <2>1, <2>2
<1>4. known'[a] \in {known[a], draft[h][a].version}
  BY DEF Reply, Answer, Learn
<1> QED
  BY <1>1, <1>2, <1>3, <1>4 DEF RowInv, Slack

LEMMA RowCommit ==
  ASSUME TypeOK, RowInv, DraftInv, NEW h \in Handlers, CommitRequest(h)
  PROVE  RowInv'
<1>1. UNCHANGED answersFirst
  BY DEF CommitRequest, EndRequest, Goto
<1> SUFFICES ASSUME NEW a \in Addresses
             PROVE  /\ users'[a].version = 0 => users'[a] = NoRow
                    /\ known'[a] <= users'[a].version + Slack
  BY <1>1 DEF RowInv, Slack
<1>2. users[a] \in Rows /\ users[a].version \in Nat /\ known[a] \in Nat
      /\ Slack \in {0, 1}
  BY VersionTypes DEF TypeOK, AccountsTypeOK
<1>3. known'[a] \in {known[a], draft[h][a].version}
  BY DEF CommitRequest, Answer, Learn
<1>4. users'[a] = IF draft[h][a] = NoRow THEN users[a] ELSE draft[h][a]
  BY DEF CommitRequest, Committed
<1>5. CASE draft[h][a] = NoRow
  BY <1>2, <1>3, <1>4, <1>5, RowTypes DEF RowInv
<1>6. CASE draft[h][a] # NoRow
  <2>1. /\ draft[h][a].version \in Nat /\ draft[h][a].version # 0
        /\ users[a].version <= draft[h][a].version
    BY <1>2, <1>6, LawfulVersions, VersionTypes DEF DraftInv, RowInv
  <2> QED
    BY <1>2, <1>3, <1>4, <1>6, <2>1 DEF RowInv
<1> QED
  BY <1>5, <1>6

LEMMA StepKeepsRowInv ==
  ASSUME TypeOK, StepInv, RowInv, DraftInv, NEW h \in Handlers, Step(h)
  PROVE  RowInv'
<1>1. UNCHANGED answersFirst
  BY StepKeepsMode
<1>2. CASE Reply(h)
  BY <1>2, RowReply
<1>3. CASE CommitRequest(h)
  BY <1>3, RowCommit
<1>4. CASE ~Reply(h) /\ ~CommitRequest(h)
  <2>1. UNCHANGED users
    BY <1>4, OnlyCommitWrites
  <2>2. UNCHANGED known
    <3>1. CASE \E batch \in Batches : ReceiveEvents(h, batch)
      BY <3>1 DEF ReceiveEvents, AdmitIngest, Admit
    <3>2. CASE ReceiveUserRequest(h)
      BY <3>2 DEF ReceiveUserRequest, AdmitUserRequest, AdmitRegister, AdmitPatch,
                  Admit
    <3>3. CASE ServeUser(h)
      BY <3>3 DEF ServeUser, FindUser, UpdateUser, InsertUser, Write
    <3>4. CASE ServeEvents(h) \/ RollBackRequest(h)
      BY <3>4 DEF ServeEvents, accountVars, RollBackRequest
    <3> QED
      BY <1>4, <3>1, <3>2, <3>3, <3>4 DEF Step
  <2> QED
    BY <1>1, <2>1, <2>2, RowKept
<1> QED
  BY <1>2, <1>3, <1>4

(* The drafts: written by UPDATE and INSERT, gone at the end of the request. *)
LEMMA DraftKept ==
  ASSUME DraftInv, UNCHANGED <<users, draft, answersFirst>>
  PROVE  DraftInv'
BY DEF DraftInv, Lawful

LEMMA DraftWritten ==
  ASSUME TypeOK, StepInv, DraftInv, NEW h \in Handlers, NEW a \in Addresses,
         step[h] = "write", RowFree(h, a), UNCHANGED <<users, answersFirst>>,
         NEW row \in Rows, draft' = [draft EXCEPT ![h][a] = row],
         Lawful(users[a], row)
  PROVE  DraftInv'
<1>1. draft[h] = NoDraft
  BY DEF StepInv, HandInv
<1>2. \A b \in Addresses \ {a} : draft'[h][b] = NoRow
  BY <1>1 DEF TypeOK, AccountsTypeOK, NoDraft
<1>3. draft'[h][a] = row /\ \A o \in Handlers \ {h} : draft'[o] = draft[o]
  BY DEF TypeOK, AccountsTypeOK
<1>4. \A o \in Handlers \ {h} : draft'[o][a] = NoRow
  BY <1>3 DEF RowFree
<1> SUFFICES ASSUME NEW x \in Handlers, NEW b \in Addresses, draft'[x][b] # NoRow
             PROVE  /\ Lawful(users[b], draft'[x][b])
                    /\ \A c \in Addresses \ {b} : draft'[x][c] = NoRow
                    /\ \A o \in Handlers \ {x} : draft'[o][b] = NoRow
  BY DEF DraftInv, Lawful
<1>5. CASE x = h
  BY <1>2, <1>3, <1>4, <1>5
<1>6. CASE x # h
  BY <1>2, <1>3, <1>4, <1>6 DEF DraftInv
<1> QED
  BY <1>5, <1>6

LEMMA DraftUpdate ==
  ASSUME TypeOK, StepInv, UserInv, NEW h \in Handlers, UpdateUser(h),
         UNCHANGED answersFirst
  PROVE  DraftInv'
<1> DEFINE a == asks[h].on
           row == Changed(users[a], asks[h].change, read[h] + 1)
<1>1. /\ asks[h] \in Patches /\ a \in Addresses /\ asks[h].change \in Changes
      /\ asks[h].based \in Nat /\ asks[h].based # 0
  BY AskTypes DEF UpdateUser, AtWrite, TypeOK, AccountsTypeOK
<1>2. step[h] = "write" /\ RowFree(h, a) /\ users[a].version = asks[h].based
  BY DEF UpdateUser, AtWrite, At
<1>3. draft' = [draft EXCEPT ![h][a] = row] /\ UNCHANGED users
  BY DEF UpdateUser, Write
<1>4. read[h] <= users[a].version /\ users[a].version <= read[h] + Slack
  BY <1>1, <1>2 DEF UserInv, PatchInv
<1>5. read[h] \in Nat /\ Slack \in {0, 1} /\ (Slack = 1 => answersFirst)
      /\ users[a] \in Rows
  BY <1>1, VersionTypes DEF TypeOK, AccountsTypeOK
<1>6. /\ read[h] + 1 \in {users[a].version, users[a].version + 1}
      /\ read[h] + 1 = users[a].version => answersFirst
  BY <1>1, <1>2, <1>4, <1>5
<1>7. row \in Rows
  <2>1. read[h] + 1 \in Nat
    BY <1>5
  <2> QED
    BY <1>1, <1>5, <2>1, RowTypes
<1>8. users[a] # NoRow
  BY <1>1, <1>2, RowTypes
<1>9. Lawful(users[a], row)
  BY <1>1, <1>6, <1>8 DEF Lawful
<1> HIDE DEF a, row
<1> QED
  BY <1>1, <1>2, <1>3, <1>7, <1>9, DraftWritten DEF UserInv

LEMMA DraftInsert ==
  ASSUME TypeOK, StepInv, UserInv, NEW h \in Handlers, InsertUser(h),
         UNCHANGED answersFirst
  PROVE  DraftInv'
<1>1. asks[h].on \in Addresses
  BY AskTypes DEF InsertUser, AtWrite, TypeOK, AccountsTypeOK
<1>2. users[asks[h].on] = NoRow
  BY <1>1 DEF InsertUser, Exists, UserInv, RowInv
<1>3. Lawful(users[asks[h].on], NewRow)
  BY <1>2 DEF Lawful
<1> QED
  BY <1>1, <1>3, DraftWritten, RowTypes DEF InsertUser, AtWrite, At, Write, UserInv

LEMMA DraftForgotten ==
  ASSUME TypeOK, DraftInv, NEW h \in Handlers, Forget(h), UNCHANGED answersFirst,
         \A a \in Addresses : draft[h][a] = NoRow => users'[a] = users[a]
  PROVE  DraftInv'
<1>1. draft'[h] = NoDraft /\ \A o \in Handlers \ {h} : draft'[o] = draft[o]
  BY DEF Forget, TypeOK, AccountsTypeOK
<1>2. \A a \in Addresses : draft'[h][a] = NoRow
  BY <1>1 DEF NoDraft
<1>3. \A o \in Handlers \ {h}, a \in Addresses :
        draft[o][a] # NoRow => users'[a] = users[a]
  BY DEF DraftInv
<1> QED
  BY <1>1, <1>2, <1>3 DEF DraftInv, Lawful

LEMMA StepKeepsDraftInv ==
  ASSUME TypeOK, StepInv, UserInv, NEW h \in Handlers, Step(h)
  PROVE  DraftInv'
<1> USE DEF UserInv
<1>1. UNCHANGED answersFirst
  BY StepKeepsMode
<1>2. CASE UNCHANGED <<users, draft>>
  BY <1>1, <1>2, DraftKept
<1>3. CASE ServeUser(h)
  <2>1. CASE FindUser(h)
    BY <1>2, <2>1 DEF FindUser
  <2> QED
    BY <1>1, <1>3, <2>1, DraftUpdate, DraftInsert DEF ServeUser
<1>4. CASE CommitRequest(h)
  <2>1. Forget(h) /\ \A a \in Addresses : draft[h][a] = NoRow => users'[a] = users[a]
    BY <1>4 DEF CommitRequest, EndRequest, Committed
  <2> QED
    BY <1>1, <2>1, DraftForgotten
<1>5. CASE RollBackRequest(h)
  <2>1. Forget(h) /\ UNCHANGED users
    BY <1>5 DEF RollBackRequest, EndRequest
  <2> QED
    BY <1>1, <2>1, DraftForgotten
<1>6. CASE \E batch \in Batches : ReceiveEvents(h, batch)
  BY <1>2, <1>6 DEF ReceiveEvents, AdmitIngest, Admit
<1>7. CASE ReceiveUserRequest(h)
  BY <1>2, <1>7 DEF ReceiveUserRequest, AdmitUserRequest, AdmitRegister, AdmitPatch,
                    Admit
<1>8. CASE ServeEvents(h) \/ Reply(h)
  BY <1>2, <1>8 DEF ServeEvents, accountVars, Reply
<1> QED
  BY <1>3, <1>4, <1>5, <1>6, <1>7, <1>8 DEF Step

(* What a PATCH has read stays behind the versions, which only grow. *)
LEMMA PatchElsewhere ==
  ASSUME TypeOK, UserInv, NEW h \in Handlers, Step(h), NEW o \in Handlers,
         step'[o] = step[o], asks'[o] = asks[o], read'[o] = read[o]
  PROVE  PatchInv(o)'
<1> SUFFICES ASSUME asks[o] \in Patches
             PROVE  PatchInv(o)'
  BY DEF PatchInv
<1>1. UNCHANGED answersFirst
  BY StepKeepsMode
<1> DEFINE a == asks[o].on
<1>2. a \in Addresses /\ asks[o].based \in Nat
  BY AskTypes DEF TypeOK, AccountsTypeOK
<1>3. users'[a].version \in Nat /\ users[a].version <= users'[a].version
  BY <1>2, VersionsGrow DEF UserInv, Rows
<1>4. users[a].version \in Nat /\ read[o] \in Nat /\ Slack \in {0, 1}
  BY <1>2, VersionTypes
<1>5. Slack' = Slack
  BY <1>1 DEF Slack
<1>6. /\ step[o] = "find" => asks[o].based <= users'[a].version + Slack
      /\ step[o] \in {"find", "write"} /\ read[o] # 0 =>
           read[o] <= users'[a].version
  BY <1>2, <1>3, <1>4 DEF UserInv, PatchInv
<1> QED
  BY <1>5, <1>6 DEF UserInv, PatchInv

LEMMA PatchAdmitted ==
  ASSUME TypeOK, UserInv, NEW h \in Handlers, NEW by \in Addresses,
         NEW ask \in Patches, AdmitPatch(h, by, ask)
  PROVE  PatchInv(h)'
<1>1. /\ asks'[h] = ask /\ step'[h] = "find"
      /\ read'[h] = IF by = ask.on THEN users[by].version ELSE 0
      /\ ask.based <= known[ask.on] /\ UNCHANGED <<users, answersFirst>>
  BY DEF AdmitPatch, Admit, Goto, TypeOK, StepsTypeOK, AccountsTypeOK
<1>2. ask.on \in Addresses /\ ask.based \in Nat
  BY AskTypes
<1>3. /\ users[ask.on].version \in Nat /\ known[ask.on] \in Nat /\ Slack \in {0, 1}
      /\ known[ask.on] <= users[ask.on].version + Slack
  BY <1>2, VersionTypes DEF UserInv, RowInv
<1>4. ask.based <= users[ask.on].version + Slack
  BY <1>1, <1>2, <1>3
<1>5. Slack' = Slack
  BY <1>1 DEF Slack
<1>6. read'[h] # 0 => read'[h] = users[ask.on].version
  BY <1>1
<1> QED
  BY <1>1, <1>3, <1>4, <1>5, <1>6 DEF PatchInv

LEMMA PatchFound ==
  ASSUME TypeOK, UserInv, NEW h \in Handlers, FindUser(h)
  PROVE  PatchInv(h)'
<1> SUFFICES ASSUME asks[h] \in Patches
             PROVE  PatchInv(h)'
  BY DEF PatchInv, FindUser
<1> DEFINE a == asks[h].on
<1>1. /\ step[h] = "find" /\ step'[h] = "write" /\ users[a].version # 0
      /\ read'[h] = IF read[h] # 0 THEN read[h] ELSE users[a].version
      /\ UNCHANGED <<users, asks, answersFirst>>
  BY DEF FindUser, At, Exists, Goto, TypeOK, StepsTypeOK, AccountsTypeOK
<1>2. a \in Addresses /\ asks[h].based \in Nat
  BY AskTypes DEF TypeOK, AccountsTypeOK
<1>3. users[a].version \in Nat /\ read[h] \in Nat
  BY <1>2, VersionTypes
<1>4. Slack' = Slack
  BY <1>1 DEF Slack
<1>5. /\ read'[h] # 0 /\ read'[h] <= users[a].version
      /\ asks[h].based <= read'[h] + Slack
  BY <1>1, <1>3 DEF UserInv, PatchInv
<1> QED
  BY <1>1, <1>4, <1>5 DEF PatchInv

LEMMA StepKeepsPatch ==
  ASSUME TypeOK, StepInv, UserInv, NEW h \in Handlers, Step(h)
  PROVE  PatchInv(h)'
<1> USE DEF Goto, TypeOK, StepsTypeOK, AccountsTypeOK
<1>1. CASE step'[h] \notin {"find", "write"}
  BY <1>1 DEF PatchInv
<1>2. CASE \E batch \in Batches : ReceiveEvents(h, batch)
  BY <1>1, <1>2 DEF ReceiveEvents, AdmitIngest, Admit
<1>3. CASE ReceiveUserRequest(h)
  <2>1. CASE \E ask \in Registers : AdmitRegister(h, ask)
    BY <2>1 DEF AdmitRegister, Admit, PatchInv, Registers, Patches
  <2> QED
    BY <1>3, <2>1, PatchAdmitted DEF ReceiveUserRequest, AdmitUserRequest
<1>4. CASE ServeUser(h)
  <2>1. CASE UpdateUser(h) \/ InsertUser(h)
    BY <1>1, <2>1 DEF UpdateUser, InsertUser, Write, Ending
  <2> QED
    BY <1>4, <2>1, PatchFound DEF ServeUser
<1>5. CASE ServeEvents(h)
  BY <1>1, <1>5 DEF ServeEvents, ClaimNew, Deduplicate, Insert, MarkDone, Done, Ending
<1>6. CASE Reply(h)
  BY <1>1, <1>6 DEF Reply
<1>7. CASE CommitRequest(h) \/ RollBackRequest(h)
  BY <1>1, <1>7 DEF CommitRequest, RollBackRequest, EndRequest
<1> QED
  BY <1>2, <1>3, <1>4, <1>5, <1>6, <1>7 DEF Step

LEMMA StepKeepsUserInv ==
  ASSUME TypeOK, StepInv, UserInv, NEW h \in Handlers, Step(h)
  PROVE  UserInv'
<1>1. RowInv'
  BY StepKeepsRowInv DEF UserInv
<1>2. DraftInv'
  BY StepKeepsDraftInv
<1>3. \A o \in Handlers : PatchInv(o)'
  BY StepKeepsPatch, OthersStay, PatchElsewhere
<1> QED
  BY <1>1, <1>2, <1>3 DEF UserInv

LEMMA NextKeepsUserInv ==
  ASSUME TypeOK, StepInv, UserInv, [Next]_vars
  PROVE  UserInv'
<1>1. CASE UNCHANGED <<accountVars, step, answersFirst>>
  <2> USE <1>1 DEF accountVars, UserInv
  <2>1. RowInv' /\ DraftInv'
    BY RowKept, DraftKept
  <2>2. \A h \in Handlers : PatchInv(h)'
    BY DEF PatchInv, Slack
  <2> QED
    BY <2>1, <2>2
<1>2. ASSUME NEW e \in Events, ExpireKey(e)
      PROVE  UserInv'
  BY <1>1, <1>2 DEF ExpireKey
<1>3. CASE UNCHANGED vars
  BY <1>1, <1>3 DEF vars
<1> QED
  BY <1>2, <1>3, StepKeepsUserInv, StepsOfNext

-----------------------------------------------------------------------------
LEMMA UserInvariance == Spec => []UserInv
<1>1. IInv /\ UserInv /\ [Next]_vars => UserInv'
  BY NextKeepsUserInv DEF IInv
<1> QED
  BY InitUserInv, Invariance, <1>1, PTL DEF Spec

(* The rows of the directory are these rows. *)
LEMMA SameRows ==
  /\ Directory!NoRow = NoRow /\ Directory!NewRow = NewRow
  /\ Directory!Seeded = Seeded
  /\ \A row, c, v : Directory!Changed(row, c, v) = Changed(row, c, v)
<1>1. Directory!NoRow = NoRow /\ Directory!NewRow = NewRow
  BY DEF Directory!NoRow, NoRow, Directory!NewRow, NewRow
<1>2. Directory!AdminRow = AdminRow
  BY DEF Directory!AdminRow, AdminRow
<1>3. Directory!Seeded = Seeded
  BY <1>1, <1>2 DEF Directory!Seeded, Seeded
<1>4. \A row, c, v : Directory!Changed(row, c, v) = Changed(row, c, v)
  BY DEF Directory!Changed, Changed
<1> QED
  BY <1>1, <1>3, <1>4

LEMMA StepImplementsDirectory ==
  ASSUME IInv, UserInv, [Next]_vars
  PROVE  [Directory!Next]_(Directory!directoryVars)
<1>1. CASE UNCHANGED <<users, answersFirst>>
  BY <1>1 DEF Directory!directoryVars
<1>2. ASSUME NEW h \in Handlers, Step(h), ~UNCHANGED users
      PROVE  Directory!Next
  <2>1. UNCHANGED answersFirst
    BY <1>2, StepKeepsMode
  <2>2. CommitRequest(h)
    BY <1>2, OnlyCommitWrites
  <2>3. PICK a \in Addresses : /\ Lawful(users[a], draft[h][a])
                             /\ users' = [users EXCEPT ![a] = draft[h][a]]
    BY <1>2, <2>2, CommitIsLawful DEF IInv, UserInv
  <2>4. CASE users[a] = NoRow /\ draft[h][a] = NewRow
    BY <2>1, <2>3, <2>4, SameRows DEF Directory!Next, Directory!Register
  <2>5. ASSUME users[a] # NoRow, NEW c \in Changes,
               NEW v \in {users[a].version, users[a].version + 1},
               v = users[a].version => answersFirst,
               draft[h][a] = Changed(users[a], c, v)
        PROVE  Directory!Next
    <3>1. Directory!Update(a, c)
      BY <2>1, <2>3, <2>5, SameRows DEF Directory!Update
    <3> QED
      BY <3>1 DEF Directory!Next
  <2> QED
    BY <2>3, <2>4, <2>5 DEF Lawful
<1>3. ASSUME NEW h \in Handlers, Step(h)
      PROVE  [Directory!Next]_(Directory!directoryVars)
  BY <1>1, <1>2, <1>3, StepKeepsMode
<1>4. ASSUME NEW e \in Events, ExpireKey(e)
      PROVE  UNCHANGED <<users, answersFirst>>
  BY <1>4 DEF ExpireKey, accountVars
<1>5. CASE UNCHANGED vars
  BY <1>1, <1>5 DEF vars, accountVars
<1> QED
  BY <1>1, <1>3, <1>4, <1>5, StepsOfNext

(* Requests implement the abstract user directory, for any number of handlers and
   users and any changes: a row is registered once, and an update replaces the row
   it was made from and moves its version on, by none only where the answer is
   sent before the commit (user_service.py:37-62, auth_service.py:26-45,
   session.py:29-38). *)
THEOREM RequestsImplementDirectory == Spec => ImplementsDirectory
<1>1. Init => Directory!Init
  BY SameRows DEF Init, AccountsInit, StepsInit, Directory!Init
<1> QED
  BY <1>1, StepImplementsDirectory, Invariance, UserInvariance, PTL
     DEF Spec, ImplementsDirectory, Directory!Spec

-----------------------------------------------------------------------------
(* What a PATCH commits, where the answer comes after the commit: a version past
   the one it is based on. *)
BaseInv ==
  ~answersFirst =>
    \A h \in Handlers :
      asks[h] \in Patches =>
        /\ step[h] \notin {"serve", "insert", "mark"}
        /\ step[h] \in {"reply", "commit"} =>
             draft[h][asks[h].on].version > asks[h].based

LEMMA PatchIsNotIngest == \A ask \in Patches : ask # Ingest /\ ask # NoAsk
<1>1. \A ask \in Patches : ask.kind = "patch"
  BY DEF Patches
<1>2. Ingest.kind = "ingest" /\ NoAsk.kind = "none"
  BY DEF Ingest, NoAsk
<1> QED
  BY <1>1, <1>2

(* The UPDATE finds the version that was read, which is the one it is based on. *)
LEMMA UpdateMovesOn ==
  ASSUME TypeOK, StepInv, UserInv, ~answersFirst, NEW h \in Handlers, UpdateUser(h)
  PROVE  /\ asks' = asks
         /\ draft'[h][asks[h].on].version > asks[h].based
<1> DEFINE a == asks[h].on
<1>1. /\ asks[h] \in Patches /\ a \in Addresses /\ asks[h].change \in Changes
      /\ asks[h].based \in Nat
  BY AskTypes DEF UpdateUser, AtWrite, TypeOK, AccountsTypeOK
<1>2. step[h] = "write" /\ users[a].version = asks[h].based
  BY DEF UpdateUser, AtWrite, At
<1>3. /\ draft' = [draft EXCEPT ![h][a] = Changed(users[a], asks[h].change, read[h] + 1)]
      /\ asks' = asks
  BY DEF UpdateUser, Write
<1>4. asks[h].based <= read[h] /\ read[h] \in Nat
  BY <1>1, <1>2, VersionTypes DEF UserInv, PatchInv, Slack
<1>5. draft'[h][a] = Changed(users[a], asks[h].change, read[h] + 1)
  BY <1>1, <1>3 DEF TypeOK, AccountsTypeOK
<1>6. draft'[h][a].version = read[h] + 1
  <2>1. users[a] \in Rows /\ read[h] + 1 \in Nat
    BY <1>1, <1>4 DEF TypeOK, AccountsTypeOK
  <2> QED
    BY <1>1, <1>5, <2>1, RowTypes
<1>7. draft'[h][a].version > asks[h].based
  BY <1>1, <1>4, <1>6
<1> QED
  BY <1>3, <1>7

LEMMA StepKeepsBaseInv ==
  ASSUME TypeOK, StepInv, UserInv, BaseInv, NEW h \in Handlers, Step(h)
  PROVE  BaseInv'
<1> SUFFICES ASSUME ~answersFirst, asks'[h] \in Patches
             PROVE  /\ step'[h] \notin {"serve", "insert", "mark"}
                    /\ step'[h] \in {"reply", "commit"} =>
                         draft'[h][asks'[h].on].version > asks'[h].based
  BY StepKeepsMode, OthersStay DEF BaseInv
<1> USE DEF Goto, TypeOK, StepsTypeOK, AccountsTypeOK
<1>1. CASE \E batch \in Batches : ReceiveEvents(h, batch)
  BY <1>1, PatchIsNotIngest DEF ReceiveEvents, AdmitIngest, Admit
<1>2. CASE ReceiveUserRequest(h)
  BY <1>2 DEF ReceiveUserRequest, AdmitUserRequest, AdmitRegister, AdmitPatch, Admit
<1>3. CASE ServeUser(h)
  <2>1. CASE FindUser(h)
    BY <2>1 DEF FindUser
  <2>2. CASE UpdateUser(h)
    <3>1. step'[h] = Ending
      BY <2>2 DEF UpdateUser, Write
    <3> QED
      BY <2>2, <3>1, UpdateMovesOn DEF Ending
  <2>3. CASE InsertUser(h)
    <3>1. asks' = asks /\ asks[h].kind = "register"
      BY <2>3 DEF InsertUser, AtWrite, Write
    <3>2. asks[h].kind = "patch"
      BY <3>1 DEF Patches
    <3> QED
      BY <3>1, <3>2
  <2> QED
    BY <1>3, <2>1, <2>2, <2>3 DEF ServeUser
<1>4. CASE ServeEvents(h)
  <2>1. asks' = asks /\ step[h] \in {"serve", "insert", "mark"}
    BY <1>4 DEF ServeEvents, accountVars, ClaimNew, Deduplicate, Insert, MarkDone, At
  <2> QED
    BY <2>1 DEF BaseInv
<1>5. CASE Reply(h)
  BY <1>5 DEF Reply, At, StepInv, HandInv
<1>6. CASE CommitRequest(h) \/ RollBackRequest(h)
  BY <1>6, PatchIsNotIngest DEF CommitRequest, RollBackRequest, EndRequest, Forget
<1> QED
  BY <1>1, <1>2, <1>3, <1>4, <1>5, <1>6 DEF Step

LEMMA NextKeepsBaseInv ==
  ASSUME TypeOK, StepInv, UserInv, BaseInv, [Next]_vars
  PROVE  BaseInv'
<1>1. CASE UNCHANGED <<accountVars, step, answersFirst>>
  BY <1>1 DEF BaseInv, accountVars
<1>2. ASSUME NEW e \in Events, ExpireKey(e)
      PROVE  BaseInv'
  BY <1>1, <1>2 DEF ExpireKey
<1>3. CASE UNCHANGED vars
  BY <1>1, <1>3 DEF vars
<1> QED
  BY <1>2, <1>3, StepKeepsBaseInv, StepsOfNext

(* Where the answer comes after the commit, no two updates are ever based on the
   same version of a user (user_service.py:37-62): the second is a conflict,
   however requests interleave, fail and wait. *)
THEOREM NoUpdateIsLost == Spec /\ ~answersFirst => UpdateOutdatesItsBase
<1>1. Init => BaseInv
  BY PatchIsNotIngest DEF Init, AccountsInit, BaseInv
<1>2. IInv /\ UserInv /\ BaseInv /\ [Next]_vars => BaseInv'
  BY NextKeepsBaseInv DEF IInv
<1>3. [Next]_vars /\ ~answersFirst => (~answersFirst)'
  BY StepsOfNext, StepKeepsMode DEF ExpireKey, vars
<1>4. ASSUME IInv, BaseInv, ~answersFirst, NEW h \in Handlers,
             CommitRequest(h), asks[h] \in Patches
      PROVE  users'[asks[h].on].version > asks[h].based
  <2>1. asks[h].on \in Addresses /\ asks[h].based \in Nat
    BY <1>4, AskTypes DEF IInv, TypeOK, AccountsTypeOK
  <2>2. draft[h][asks[h].on].version > asks[h].based
    BY <1>4 DEF CommitRequest, At, BaseInv
  <2>3. draft[h][asks[h].on] # NoRow
    BY <2>1, <2>2, RowTypes
  <2> QED
    BY <1>4, <2>1, <2>2, <2>3 DEF CommitRequest, Committed
<1>5. IInv /\ BaseInv /\ ~answersFirst =>
        \A h \in Handlers :
          CommitRequest(h) /\ asks[h] \in Patches =>
            users'[asks[h].on].version > asks[h].based
  BY <1>4
<1> QED
  BY <1>1, <1>2, <1>3, <1>5, Invariance, UserInvariance, PTL
     DEF Spec, UpdateOutdatesItsBase

-----------------------------------------------------------------------------
(* Where no key expires, an event has one request at most: the one that holds its
   key, from the claim to the end. *)
Owned(h) == claims[h] \cup rows[h]

OwnerInv ==
  /\ \A e \in events : Held(e)
  /\ \A h \in Handlers : \A e \in Owned(h) : Held(e)
  /\ \A h, o \in Handlers : h # o => Owned(h) \cap Owned(o) = {}
  /\ \A h \in Handlers : rows[h] \cap events = {}
  /\ \A h \in Handlers : step[h] \in {"idle", "find", "write"} => rows[h] = {}
  /\ \A h \in Handlers : step[h] = "insert" => claims[h] \cap (events \cup rows[h]) = {}

(* What a step of h has to show for it. *)
LEMMA OwnerRule ==
  ASSUME TypeOK, OwnerInv, NEW h \in Handlers, Step(h),
         \A e \in Events : Held(e) => Held(e)',
         \A e \in Owned(h)' \ Owned(h) : ~Held(e) /\ Held(e)',
         events' \subseteq events \cup (rows[h] \ rows'[h]),
         rows'[h] \cap events' = {},
         step'[h] \in {"idle", "find", "write"} => rows'[h] = {},
         step'[h] = "insert" => claims'[h] \cap (events' \cup rows'[h]) = {}
  PROVE  OwnerInv'
<1>1. \A o \in Handlers \ {h} :
        step'[o] = step[o] /\ claims'[o] = claims[o] /\ rows'[o] = rows[o]
  BY OthersStay
<1>2. events \subseteq Events /\ \A o \in Handlers : Owned(o) \subseteq Events
  BY SyncAssumption DEF TypeOK, TableTypeOK, IngestTypeOK, Owned
<1>3. \A e \in events' : Held(e)'
  BY <1>2 DEF OwnerInv, Owned
<1>4. \A o \in Handlers : \A e \in Owned(o)' : Held(e)'
  <2> SUFFICES ASSUME NEW o \in Handlers, NEW e \in Owned(o)'
               PROVE  Held(e)'
    OBVIOUS
  <2>1. CASE o = h
    BY <1>2, <2>1 DEF OwnerInv
  <2>2. CASE o # h
    BY <1>1, <1>2, <2>2 DEF OwnerInv, Owned
  <2> QED
    BY <2>1, <2>2
<1>5. \A o \in Handlers \ {h} : Owned(h)' \cap Owned(o)' = {}
  <2> SUFFICES ASSUME NEW o \in Handlers \ {h}, NEW e \in Owned(h)', e \in Owned(o)'
               PROVE  FALSE
    OBVIOUS
  <2>1. e \in Owned(o)
    BY <1>1 DEF Owned
  <2> QED
    BY <2>1 DEF OwnerInv
<1>6. \A o, p \in Handlers : o # p => Owned(o)' \cap Owned(p)' = {}
  <2> SUFFICES ASSUME NEW o \in Handlers, NEW p \in Handlers, o # p
               PROVE  Owned(o)' \cap Owned(p)' = {}
    OBVIOUS
  <2>1. CASE o # h /\ p # h
    BY <1>1, <2>1 DEF OwnerInv, Owned
  <2> QED
    BY <1>5, <2>1
<1>7. ASSUME NEW o \in Handlers \ {h}
      PROVE  Owned(o) \cap (events' \ events) = {}
  BY DEF OwnerInv, Owned
<1>8. \A o \in Handlers : rows'[o] \cap events' = {}
  BY <1>1, <1>7 DEF OwnerInv, Owned
<1>9. \A o \in Handlers : step'[o] \in {"idle", "find", "write"} => rows'[o] = {}
  BY <1>1 DEF OwnerInv
<1>10. \A o \in Handlers :
         step'[o] = "insert" => claims'[o] \cap (events' \cup rows'[o]) = {}
  BY <1>1, <1>7 DEF OwnerInv, Owned
<1> QED
  BY <1>3, <1>4, <1>6, <1>8, <1>9, <1>10 DEF OwnerInv

LEMMA ServeKeepsOwnerInv ==
  ASSUME TypeOK, StepInv, OwnerInv, NEW h \in Handlers, ServeEvents(h)
  PROVE  OwnerInv'
<1> USE SyncAssumption DEF TypeOK, StepsTypeOK, IngestTypeOK, TableTypeOK, KeysTypeOK, Goto
<1>1. PICK e \in Events :
        ClaimNew(h, e) \/ Deduplicate(h, e) \/ Insert(h, e) \/ MarkDone(h, e)
  BY DEF ServeEvents
<1>2. Step(h)
  BY DEF Step
<1>3. CASE ClaimNew(h, e)
  <2>1. ~Held(e) /\ Held(e)' /\ \A x \in Events : Held(x) => Held(x)'
    BY <1>3 DEF ClaimNew, SetNX, Held
  <2>2. claims'[h] = {e} /\ UNCHANGED tableVars /\ step'[h] = "insert"
    BY <1>3 DEF ClaimNew
  <2>3. e \notin events /\ e \notin rows[h]
    BY <2>1 DEF OwnerInv, Owned
  <2> QED
    BY <1>2, <2>1, <2>2, <2>3, OwnerRule DEF tableVars, OwnerInv, Owned
<1>4. CASE Deduplicate(h, e)
  <2>1. UNCHANGED <<claims, tableVars, idem>>
    BY <1>4 DEF Deduplicate
  <2>2. step'[h] \in {"serve", "reply", "commit"}
    BY <1>4 DEF Deduplicate, Done, Ending
  <2> QED
    BY <1>2, <2>1, <2>2, OwnerRule DEF tableVars, OwnerInv, Owned, Held
<1>5. CASE Insert(h, e)
  <2>1. UNCHANGED <<claims, events, idem>> /\ step'[h] = "mark"
    BY <1>5 DEF Insert, ingestVars, InsertRow, InsertConflict
  <2>2. e \in claims[h] /\ e \notin events
    BY <1>5 DEF Insert, At, OwnerInv
  <2>3. rows'[h] \subseteq rows[h] \cup {e}
    BY <1>5 DEF Insert, InsertRow, InsertConflict
  <2> QED
    BY <1>2, <2>1, <2>2, <2>3, OwnerRule DEF OwnerInv, Owned, Held
<1>6. CASE MarkDone(h, e)
  <2>1. UNCHANGED tableVars /\ claims'[h] = {}
    BY <1>6 DEF MarkDone
  <2>2. step'[h] \in {"serve", "reply", "commit"}
    BY <1>6 DEF MarkDone, Done, Ending
  <2>3. \A x \in Events : Held(x) => Held(x)'
    BY <1>6 DEF MarkDone, SetDoneXX, SetDone, Held
  <2> QED
    BY <1>2, <2>1, <2>2, <2>3, OwnerRule DEF tableVars, OwnerInv, Owned
<1> QED
  BY <1>1, <1>3, <1>4, <1>5, <1>6

LEMMA EndKeepsOwnerInv ==
  ASSUME TypeOK, StepInv, OwnerInv, NEW h \in Handlers,
         CommitRequest(h) \/ RollBackRequest(h)
  PROVE  OwnerInv'
<1> USE SyncAssumption DEF TypeOK, StepsTypeOK, IngestTypeOK, TableTypeOK, Goto
<1>1. /\ claims'[h] = {} /\ step'[h] = "idle" /\ UNCHANGED idem
      /\ Step(h)
  BY DEF CommitRequest, RollBackRequest, EndRequest, EndIngest, Step
<1>2. rows'[h] = {} /\ events' \subseteq events \cup rows[h]
  BY DEF CommitRequest, RollBackRequest, Commit, Rollback
<1> QED
  BY <1>1, <1>2, OwnerRule DEF Owned, Held

LEMMA StepKeepsOwnerInv ==
  ASSUME TypeOK, StepInv, OwnerInv, NEW h \in Handlers, Step(h)
  PROVE  OwnerInv'
<1> USE DEF TypeOK, StepsTypeOK, IngestTypeOK, Goto
<1>1. CASE \E batch \in Batches : ReceiveEvents(h, batch)
  <2>1. UNCHANGED <<claims, tableVars, idem>> /\ step'[h] = "serve"
    BY <1>1 DEF ReceiveEvents, AdmitIngest, Admit, TakeBatch
  <2> QED
    BY <2>1, OwnerRule DEF tableVars, OwnerInv, Owned, Held
<1>2. CASE ReceiveUserRequest(h) \/ ServeUser(h)
  <2>1. UNCHANGED <<claims, tableVars, idem>>
    BY <1>2 DEF ReceiveUserRequest, ServeUser, ingestVars
  <2>2. step[h] \in {"idle", "find", "write"} /\ step'[h] # "insert"
    BY <1>2 DEF ReceiveUserRequest, AdmitUserRequest, AdmitRegister, AdmitPatch, Admit,
                ServeUser, FindUser, UpdateUser, InsertUser, AtWrite, Write, At, Ending
  <2> QED
    BY <2>1, <2>2, OwnerRule DEF tableVars, OwnerInv, Owned, Held
<1>3. CASE Reply(h)
  <2>1. UNCHANGED <<claims, tableVars, idem>> /\ step'[h] = "commit"
    BY <1>3 DEF Reply
  <2> QED
    BY <2>1, OwnerRule DEF tableVars, OwnerInv, Owned, Held
<1> QED
  BY <1>1, <1>2, <1>3, ServeKeepsOwnerInv, EndKeepsOwnerInv DEF Step

LEMMA NextKeepsOwnerInv ==
  ASSUME ~KeysExpire, TypeOK, StepInv, OwnerInv, [Next]_vars
  PROVE  OwnerInv'
<1>1. CASE UNCHANGED vars
  BY <1>1 DEF vars, ingestVars, tableVars, OwnerInv, Owned, Held
<1>2. ~\E e \in Events : ExpireKey(e)
  BY DEF ExpireKey, Expire
<1> QED
  BY <1>1, <1>2, StepKeepsOwnerInv, StepsOfNext

LEMMA OwnerInvariance == ~KeysExpire /\ Spec => []OwnerInv
<1>1. Init => OwnerInv
  BY SyncAssumption
     DEF Init, IngestInit, TableInit, StepsInit, OwnerInv, Owned
<1>2. CASE ~KeysExpire
  <2>1. IInv /\ OwnerInv /\ [Next]_vars => OwnerInv'
    BY <1>2, NextKeepsOwnerInv DEF IInv
  <2> QED
    BY <1>1, <2>1, Invariance, PTL DEF Spec
<1> QED
  BY <1>2

(* The row that ingest_one is about to write is in no other transaction, committed
   or not. *)
InsertsAreNew ==
  \A h \in Handlers : At(h, "insert") =>
    \A e \in claims[h] : e \notin events /\ \A o \in Handlers : e \notin rows[o]

NobodyWaits == \A h, o \in Handlers : ~WaitsFor(h, o)

(* As long as no key expires under a running request, the claim alone keeps rows
   apart: ON CONFLICT never finds a row (event_service.py:71-132, and
   docs/architecture.md:54, "final safety net"), no batch waits for the row of
   another, and so none is the victim of a deadlock. *)
THEOREM ClaimsKeepRowsApart ==
  ~KeysExpire /\ Spec => [](InsertsAreNew /\ NobodyWaits)
<1>1. OwnerInv => InsertsAreNew
  <2> SUFFICES ASSUME OwnerInv, NEW h \in Handlers, At(h, "insert"),
                      NEW e \in claims[h], NEW o \in Handlers
               PROVE  e \notin events /\ e \notin rows[o]
    BY DEF InsertsAreNew
  <2>1. e \notin events /\ e \notin rows[h]
    BY DEF At, OwnerInv
  <2>2. o # h => e \notin rows[o]
    BY DEF OwnerInv, Owned
  <2> QED
    BY <2>1, <2>2
<1>2. InsertsAreNew => NobodyWaits
  BY DEF InsertsAreNew, NobodyWaits, WaitsFor, Blocks
<1> QED
  BY <1>1, <1>2, OwnerInvariance, PTL

-----------------------------------------------------------------------------
(* A request that the endpoint itself rejects has no events. *)
LEMMA RejectLeavesNothing ==
  ASSUME TypeOK, StepInv, OwnerInv, NobodyWaits, NEW h \in Handlers, Reject(h)
  PROVE  UNCHANGED left
<1>1. ~InDeadlock(h)
  BY DEF InDeadlock, NobodyWaits
<1>2. step[h] \in {"find", "write"}
  BY <1>1 DEF Reject, Rejected, UserMissing, VersionConflict, Duplicate, AtWrite, At
<1>3. claims[h] = {} /\ rows[h] = {}
  BY <1>2 DEF StepInv, HandInv, OwnerInv
<1> QED
  BY <1>3 DEF Reject, RollBackRequest, Leave

LEMMA NextLeavesNothing ==
  ASSUME ~Faults, IInv, OwnerInv, NobodyWaits, left = {}, [Next]_vars
  PROVE  left' = {}
<1>1. ASSUME NEW h \in Handlers, Receive(h) \/ Serve(h)
      PROVE  left' = {}
  <2>1. CASE Receive(h)
    BY <2>1 DEF Receive, ReceiveUserRequest, ReceiveEvents, TakeBatch, ingestVars
  <2>2. CASE ServeUser(h) \/ ServeEvents(h)
    BY <2>2 DEF ServeUser, ServeEvents, ClaimNew, Deduplicate, Insert, MarkDone,
                ingestVars
  <2>3. CASE Reply(h) \/ CommitRequest(h)
    BY <2>3 DEF Reply, CommitRequest
  <2>4. CASE Reject(h)
    BY <2>4, RejectLeavesNothing DEF IInv
  <2> QED
    BY <1>1, <2>1, <2>2, <2>3, <2>4 DEF Serve
<1>2. ASSUME NEW h \in Handlers
      PROVE  ~RequestFails(h)
  BY DEF RequestFails
<1>3. CASE UNCHANGED left
  BY <1>3
<1>4. \A e \in Events : ExpireKey(e) => UNCHANGED left
  BY DEF ExpireKey, ingestVars
<1> QED
  BY <1>1, <1>2, <1>3, <1>4 DEF Next, vars, ingestVars

NothingLeft == left = {}

(* Every event with a 2xx answer is stored, or a request has it in hand. *)
ToldIsKept ==
  \A e \in told : e \in events \/ \E h \in Handlers : e \in Owned(h)

(* Only a request that fails, or a key that expires under one, can cost an event
   its row: as long as neither happens no answer of the sync mode is ever broken,
   although it may rest on the key alone and be sent before the commit
   (event_service.py:71-134, session.py:29-38). *)
THEOREM ToldIsKeptHolds == ~KeysExpire /\ ~Faults /\ Spec => []ToldIsKept
<1>1. Init => NothingLeft
  BY DEF Init, IngestInit, NothingLeft
<1>2. IInv /\ NothingLeft => ToldIsKept
  BY DEF NothingLeft, IInv, KeyInvariant, ToldIsStored, Backed, ToldIsKept, Owned
<1>3. CASE ~KeysExpire /\ ~Faults
  <2>1. IInv /\ OwnerInv /\ NobodyWaits /\ NothingLeft /\ [Next]_vars => NothingLeft'
    BY <1>3, NextLeavesNothing DEF NothingLeft
  <2>2. Spec => [](OwnerInv /\ NobodyWaits)
    BY <1>3, OwnerInvariance, ClaimsKeepRowsApart, PTL
  <2> QED
    BY <1>1, <1>2, <2>1, <2>2, Invariance, PTL DEF Spec
<1> QED
  BY <1>3

=============================================================================
