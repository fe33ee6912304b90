---- MODULE MCActivityStoreFeed ----
(* Small instance for the refinement check. *)
EXTENDS ActivityStoreFeed
====
