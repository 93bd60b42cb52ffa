------------------------------ MODULE Payloads ------------------------------
(***************************************************************************)
(* What a message of the stream can carry, told apart as far as            *)
(* _parse_fields and _persist_event tell it apart.                         *)
(***************************************************************************)
CONSTANTS
  Events,        \* event_ids a client may post; each stands for its event
  Malformed,     \* no JSON at all, or a JSON object without an event_id
  Invalid,       \* a JSON object with an event_id that is no event all the same
  NotAnObject    \* a JSON value that is no object (a list, a number)

ASSUME PayloadAssumption ==
  /\ Malformed \notin Events
  /\ Invalid \notin Events \cup {Malformed}
  /\ NotAnObject \notin Events \cup {Malformed, Invalid}

Payload == Events \cup {Malformed, Invalid, NotAnObject}

=============================================================================
