------------------------------ MODULE MCRuntime ------------------------------
(* Runtime on a small instance. *)
EXTENDS Runtime
=============================================================================
