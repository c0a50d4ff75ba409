----------------------------- MODULE MCNodeShutdown -----------------------------
(* Small instances of NodeShutdown for TLC: the four actors of a node. *)
EXTENDS NodeShutdown
CONSTANTS pub, sub, svc, param
StopOrder == <<pub, sub, svc, param>>
=============================================================================
