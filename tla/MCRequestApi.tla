---------------------------- MODULE MCRequestApi ----------------------------
(***************************************************************************)
(* RequestApi on a small instance.                                         *)
(***************************************************************************)
EXTENDS RequestApi

\* An administrator deactivates a user, or makes one an analyst.
SmallChanges == {[active |-> FALSE], [role |-> "analyst"]}

\* Bound: a behaviour is about users or about events, which have nothing but the
\* check of the caller in common.
UsersUntouched ==
  known = [a \in Addresses |-> Seeded[a].version]
  /\ \A h \in Handlers : asks[h] \in {NoAsk, Ingest}
EventsUntouched ==
  events \cup told \cup left = {} /\ \A h \in Handlers : asks[h] # Ingest
OneTable == UsersUntouched \/ EventsUntouched

=============================================================================
