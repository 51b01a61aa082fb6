----------------------------- MODULE MCConnConfig -----------------------------
(* Small instances of ConnConfig: one thread, and two that work at once. *)
EXTENDS ConnConfig
=============================================================================
