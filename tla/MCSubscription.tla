----------------------------- MODULE MCSubscription -----------------------------
(* Small instances of Subscription for TLC. *)
EXTENDS Subscription

(* A refused publisher is there from the start, the others may be or may     *)
(* advertise later.  Handles are alike: one of them asks.                    *)
AskedInit == Init /\ Refusers \subseteq up /\ asker = CHOOSE h \in Handles : TRUE

AskedSpec == AskedInit /\ [][Next]_vars /\ Fairness
=============================================================================
