-------------------------- MODULE IdempotencyKeys --------------------------
(***************************************************************************)
(* The Redis keys "idem:{event_id}" with which app/services/event_service  *)
(* .py recognises a replayed event and which the worker marks as done.     *)
(***************************************************************************)
EXTENDS Payloads

CONSTANT
  KeysExpire   \* whether idem_ttl_seconds may run out within a behaviour

VARIABLE
  idem         \* idem[e]: the value of idem:{e}, or "absent"

KeysTypeOK == idem \in [Events -> {"absent", "pending", "done"}]

KeysInit == idem = [e \in Events |-> "absent"]

-----------------------------------------------------------------------------
\* Mutants of SetNX: the NX flag is missing; the key starts out as "done".
SetAlways(e) == idem' = [idem EXCEPT ![e] = "pending"]
SetNXDone(e) ==
  /\ idem[e] = "absent"
  /\ idem' = [idem EXCEPT ![e] = "done"]

\* _claim_idempotency: SET NX "pending", when it wins the claim.
SetNX(e) ==
  /\ idem[e] = "absent"
  /\ idem' = [idem EXCEPT ![e] = "pending"]

\* _claim_idempotency, when another request has won it before.
Held(e) == idem[e] # "absent"

\* The worker's SET "done", whatever the key's value, with a new TTL.
SetDone(e) == idem' = [idem EXCEPT ![e] = "done"]

\* _mark_done of the sync mode: SET XX "done", which keeps an expired key away.
SetDoneXX(e) == IF Held(e) THEN SetDone(e) ELSE UNCHANGED idem

\* Mutant of Expire: the claim sets no TTL, only _mark_done does.
ExpireDone(e) ==
  /\ KeysExpire
  /\ idem[e] = "done"
  /\ idem' = [idem EXCEPT ![e] = "absent"]

\* The TTL of a key runs out.
Expire(e) ==
  /\ KeysExpire
  /\ Held(e)
  /\ idem' = [idem EXCEPT ![e] = "absent"]

=============================================================================
