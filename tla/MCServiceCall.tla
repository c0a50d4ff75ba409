----------------------------- MODULE MCServiceCall -----------------------------
(* Small instances of ServiceCall for TLC. *)
EXTENDS ServiceCall
=============================================================================
