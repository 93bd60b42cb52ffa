------------------------------ MODULE UserRows ------------------------------
(***************************************************************************)
(* What a row of the table "users" holds (app/db/models/user.py), and what *)
(* the role in it permits (app/core/rbac.py). A row is found by its        *)
(* address, which is stored in lower case; names and passwords are left    *)
(* out. Version 0 stands for no row.                                       *)
(***************************************************************************)
EXTENDS Naturals

CONSTANTS
  Addresses,  \* e-mail addresses of users, in lower case
  Admin,      \* the address scripts/seed.py makes an administrator
  Changes     \* what the bodies of PATCH set: partial rows

Roles == {"admin", "analyst", "client_app"}

Permissions ==
  [client_app |-> {"events:write", "events:batch"},
   analyst |-> {"events:write", "events:batch", "events:read", "metrics:read"},
   admin |-> {"events:write", "events:batch", "events:read", "metrics:read",
              "users:manage", "jobs:trigger", "queue:read"}]

ASSUME UserAssumption ==
  /\ Admin \in Addresses
  /\ \A c \in Changes : /\ "active" \in DOMAIN c => c.active \in BOOLEAN
                        /\ "role" \in DOMAIN c => c.role \in Roles

Rows == [version : Nat, active : BOOLEAN, role : Roles]

NoRow == [version |-> 0, active |-> FALSE, role |-> "client_app"]

\* A registered user; the seeded administrator.
NewRow == [version |-> 1, active |-> TRUE, role |-> "client_app"]
AdminRow == [version |-> 1, active |-> TRUE, role |-> "admin"]

Seeded == [a \in Addresses |-> IF a = Admin THEN AdminRow ELSE NoRow]

\* The row as a PATCH with body c leaves it, under a new version: what the body
\* does not name keeps its value.
Changed(row, c, version) ==
  [version |-> version,
   active |-> IF "active" \in DOMAIN c THEN c.active ELSE row.active,
   role |-> IF "role" \in DOMAIN c THEN c.role ELSE row.role]

=============================================================================
