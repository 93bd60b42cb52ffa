--------------------------- MODULE UserDirectory ---------------------------
(***************************************************************************)
(* What user administration promises, without requests, sessions and       *)
(* locks: an address is registered once, and each update is applied to the *)
(* row it replaces and gives it the next version, so that a version names  *)
(* one state of the row. The one weakening is what the code does when it   *)
(* answers early, before it commits: an update may then keep the version.  *)
(***************************************************************************)
EXTENDS UserRows

VARIABLES
  users,  \* users[a]: the row of address a, or NoRow
  early   \* whether clients are answered before the commit

directoryVars == <<users, early>>

Init ==
  /\ users = Seeded
  /\ early \in BOOLEAN

Register(a) ==
  /\ users[a] = NoRow
  /\ users' = [users EXCEPT ![a] = NewRow]
  /\ UNCHANGED early

Update(a, c) ==
  /\ users[a] # NoRow
  /\ \E v \in {users[a].version, users[a].version + 1} :
       /\ v = users[a].version => early
       /\ users' = [users EXCEPT ![a] = Changed(users[a], c, v)]
  /\ UNCHANGED early

Next == \E a \in Addresses : Register(a) \/ \E c \in Changes : Update(a, c)

Spec == Init /\ [][Next]_directoryVars

=============================================================================
