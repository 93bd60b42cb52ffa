------------------------------ MODULE Accounts ------------------------------
(***************************************************************************)
(* The table "users" and the requests that read and write it: the check of *)
(* the caller in app/deps.py, POST /auth/register                          *)
(* (app/services/auth_service.py), and PATCH /admin/users/{id}, which      *)
(* carries the version it is based on (app/services/user_service.py).      *)
(*                                                                         *)
(* PostgreSQL is at READ COMMITTED: a statement sees the rows committed    *)
(* when it begins, and one that writes a row waits for the transaction     *)
(* that has written it to end, and then looks at the row again.            *)
(***************************************************************************)
EXTENDS UserRows, RequestSteps

CONSTANT
  MaxVersion  \* bound of the model: versions of a row

ASSUME AccountsAssumption == MaxVersion \in Nat

VARIABLES
  users,  \* users[a]: the committed row of address a, or NoRow
  draft,  \* draft[h][a]: the row h has written and not yet committed, or NoRow
  known,  \* history: known[a]: latest version of a's row that a client may know
  asks,   \* asks[h]: the request h serves
  read    \* read[h]: version of the row to update in h's identity map, or 0

accountVars == <<users, draft, known, asks, read>>

NoAsk == [kind |-> "none"]
Ingest == [kind |-> "ingest"]
Registers == [kind : {"register"}, on : Addresses]
Patches == [kind : {"patch"}, on : Addresses, based : 1..MaxVersion,
            change : Changes]

NoDraft == [a \in Addresses |-> NoRow]

AccountsTypeOK ==
  /\ users \in [Addresses -> Rows]
  /\ draft \in [Handlers -> [Addresses -> Rows]]
  /\ known \in [Addresses -> Nat]
  /\ asks \in [Handlers -> {NoAsk, Ingest} \cup Registers \cup Patches]
  /\ read \in [Handlers -> Nat]

AccountsInit ==
  /\ users = Seeded
  /\ draft = [h \in Handlers |-> NoDraft]
  /\ known = [a \in Addresses |-> users[a].version]
  /\ asks = [h \in Handlers |-> NoAsk]
  /\ read = [h \in Handlers |-> 0]

Exists(a) == users[a].version # 0

-----------------------------------------------------------------------------
\* What a token lets its bearer do: it outlives every change of its user, whose
\* row alone counts (get_current_user, require_permission).
Permitted(by, permission) ==
  /\ users[by].active
  /\ permission \in Permissions[users[by].role]

\* A request arrives, and its first SELECT does not refuse it; a request that is
\* refused there (401, 403, 409) has done nothing.
Admit(h, ask, first) ==
  /\ At(h, "idle")
  /\ asks' = [asks EXCEPT ![h] = ask]
  /\ Goto(h, first)
  /\ UNCHANGED <<users, draft, known>>

\* A user posts events.
AdmitIngest(h) ==
  /\ \E by \in Addresses : Permitted(by, "events:batch")
  /\ Admit(h, Ingest, "serve")
  /\ UNCHANGED read

\* Somebody registers: the SELECT looks for the address as it was typed, in lower
\* case or not.
AdmitRegister(h, ask) ==
  /\ \E lowerCase \in BOOLEAN : ~(lowerCase /\ Exists(ask.on))
  /\ Admit(h, ask, "write")
  /\ UNCHANGED read

\* A user patches a user, based on a version that a client may know. The row of
\* the caller is kept in the session's identity map.
AdmitPatch(h, by, ask) ==
  /\ Permitted(by, "users:manage")
  /\ ask.based <= known[ask.on] /\ ask.based < MaxVersion
  /\ Admit(h, ask, "find")
  /\ read' = [read EXCEPT ![h] = IF by = ask.on THEN users[by].version ELSE 0]

AdmitUserRequest(h) ==
  \/ \E ask \in Registers : AdmitRegister(h, ask)
  \/ \E by \in Addresses, ask \in Patches : AdmitPatch(h, by, ask)

-----------------------------------------------------------------------------
\* update_user, SELECT of the user. A row that is in the identity map already
\* keeps the attributes it was loaded with.
FindUser(h) ==
  /\ At(h, "find")
  /\ Exists(asks[h].on)
  /\ read' = [read EXCEPT ![h] = IF @ # 0 THEN @ ELSE users[asks[h].on].version]
  /\ Goto(h, "write")
  /\ UNCHANGED <<users, draft, known, asks>>

UserMissing(h) == At(h, "find") /\ ~Exists(asks[h].on)

-----------------------------------------------------------------------------
\* No other transaction has written the row of address a.
RowFree(h, a) == \A o \in Handlers \ {h} : draft[o][a] = NoRow

Write(h, row) ==
  /\ draft' = [draft EXCEPT ![h][asks[h].on] = row]
  /\ Goto(h, Ending)
  /\ UNCHANGED <<users, known, asks, read>>

AtWrite(h, kind) == At(h, "write") /\ asks[h].kind = kind

\* Mutant of UpdateUser: WHERE id = ... alone.
UpdateUnchecked(h) ==
  /\ AtWrite(h, "patch")
  /\ RowFree(h, asks[h].on)
  /\ Write(h, Changed(users[asks[h].on], asks[h].change, read[h] + 1))

\* update_user, UPDATE ... WHERE id = ... AND version = ...: the version is
\* compared in the row, the new one is computed from the one read.
UpdateUser(h) ==
  /\ AtWrite(h, "patch")
  /\ RowFree(h, asks[h].on)
  /\ users[asks[h].on].version = asks[h].based
  /\ Write(h, Changed(users[asks[h].on], asks[h].change, read[h] + 1))

VersionConflict(h) ==
  AtWrite(h, "patch") /\ users[asks[h].on].version # asks[h].based

\* register, INSERT of the address in lower case.
InsertUser(h) ==
  /\ AtWrite(h, "register")
  /\ RowFree(h, asks[h].on)
  /\ ~Exists(asks[h].on)
  /\ Write(h, NewRow)

Duplicate(h) ==
  /\ AtWrite(h, "register")
  /\ RowFree(h, asks[h].on)
  /\ Exists(asks[h].on)

\* What ends the request with an exception: 404, 409, and 500 where the UNIQUE
\* address refuses the row.
Rejected(h) == UserMissing(h) \/ VersionConflict(h) \/ Duplicate(h)

-----------------------------------------------------------------------------
\* The users as they are once h has committed.
Committed(h) ==
  [a \in Addresses |-> IF draft[h][a] = NoRow THEN users[a] ELSE draft[h][a]]

\* A client may learn of what h has written: from the answer, or, once it is
\* committed, from GET /admin/users.
Learn(h) ==
  known' = [a \in Addresses |-> IF draft[h][a].version > known[a]
                               THEN draft[h][a].version ELSE known[a]]

\* The request is over.
Forget(h) ==
  /\ draft' = [draft EXCEPT ![h] = NoDraft]
  /\ asks' = [asks EXCEPT ![h] = NoAsk]
  /\ read' = [read EXCEPT ![h] = 0]

=============================================================================
