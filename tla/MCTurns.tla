------------------------------- MODULE MCTurns -------------------------------
(* Turns on a small instance. *)
EXTENDS Turns, TLC

Sym == Permutations(Responders) \cup Permutations(Asks) \cup Permutations(Decisions)
=============================================================================
