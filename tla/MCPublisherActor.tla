---------------------------- MODULE MCPublisherActor ----------------------------
(* Small instances of PublisherActor for TLC. *)
EXTENDS PublisherActor

CONSTANTS s1, s2

(* One request that works, and one that is refused where a publication of    *)
(* the first exists, and where none does has the queue size that panics.     *)
OneFitsOnePanics == {<<s1, 1>>, <<s2, 0>>}

OneFits == {<<s1, 1>>}
=============================================================================
