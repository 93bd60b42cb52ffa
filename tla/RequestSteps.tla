---------------------------- MODULE RequestSteps ----------------------------
(***************************************************************************)
(* The API processes' request handlers, and get_db of app/db/session.py,   *)
(* which gives each its database session. A step of a handler is one       *)
(* command to Redis or PostgreSQL with the local computation up to the     *)
(* next await.                                                             *)
(*                                                                         *)
(* get_db commits after its yield. FastAPI resumes it before it sends the  *)
(* response up to release 0.117, and after it from 0.118 on;               *)
(* requirements.txt allows both (fastapi>=0.115.0,<0.120.0).               *)
(***************************************************************************)

CONSTANT
  Handlers      \* requests served at the same time

VARIABLES
  step,         \* step[h]: what handler h is about to do
  answersFirst  \* whether the response is sent before the commit

Steps == {"idle", "find", "write", "serve", "insert", "mark", "reply", "commit"}

StepsTypeOK ==
  /\ step \in [Handlers -> Steps]
  /\ answersFirst \in BOOLEAN

StepsInit ==
  /\ step = [h \in Handlers |-> "idle"]
  /\ answersFirst \in BOOLEAN

At(h, here) == step[h] = here
Goto(h, next) == step' = [step EXCEPT ![h] = next] /\ UNCHANGED answersFirst

\* What follows the endpoint's function: the response, or get_db's commit.
Ending == IF answersFirst THEN "reply" ELSE "commit"

=============================================================================
