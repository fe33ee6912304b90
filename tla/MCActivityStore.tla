---- MODULE MCActivityStore ----
(* Small instances of ActivityStore for TLC. *)
EXTENDS ActivityStore
====
