---------------------------- MODULE MCSubscriberActor ----------------------------
(* Small instances of SubscriberActor for TLC. *)
EXTENDS SubscriberActor
=============================================================================
