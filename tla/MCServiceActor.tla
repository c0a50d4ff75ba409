----------------------------- MODULE MCServiceActor -----------------------------
(* Small instances of ServiceActor for TLC. *)
EXTENDS ServiceActor
CONSTANTS s1, c1, c2
(* Both tasks advertise the service, and one of them calls it as well. *)
OneAlsoCalls ==
    {<<c1, <<"server", s1>>>>, <<c2, <<"server", s1>>>>, <<c2, <<"client", s1>>>>}
=============================================================================
