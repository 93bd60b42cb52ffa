---------------------------- MODULE MCRateLimit ----------------------------
(***************************************************************************)
(* RateLimit on a small instance.                                          *)
(***************************************************************************)
EXTENDS RateLimit, TLC

\* Handlers are interchangeable; processes differ by their clocks alone.
Symmetric == Permutations(Handlers)

=============================================================================
