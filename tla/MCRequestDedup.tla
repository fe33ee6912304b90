--------------------------- MODULE MCRequestDedup ----------------------------
(* Small instances of RequestDedup. *)
EXTENDS RequestDedup, TLC

Symmetric == Permutations(Tasks) \cup Permutations(Payloads) \cup Permutations(Ids)
=============================================================================
