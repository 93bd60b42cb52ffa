-------------------------- MODULE MCEventPipeline --------------------------
(***************************************************************************)
(* EventPipeline on small instances.                                       *)
(***************************************************************************)
EXTENDS EventPipeline, TLC

\* Runs and handlers are interchangeable; sessions are named after runs.
Symmetric == Permutations(Jobs) \cup Permutations(Requests)

\* So are events, where the database refuses none.
SymmetricEvents == Permutations(Events)

=============================================================================
