------------------------------- MODULE Registrar -------------------------------
(***************************************************************************)
(* What the actors that keep a registry promise about the master's         *)
(* listings: a key is listed before an entry is made for it, an entry is   *)
(* taken back before its key is withdrawn, and an entry is never replaced  *)
(* by another without having been removed in between.                      *)
(***************************************************************************)
CONSTANTS Keys, Entries, None

VARIABLES
    entry,      \* the entry of each key, or None
    listed      \* keys the master lists the node for

Init == entry = [k \in Keys |-> None] /\ listed = {}

Enlist(k) == listed' = listed \cup {k} /\ UNCHANGED entry

Enter(k, e) ==
    /\ k \in listed /\ entry[k] = None
    /\ entry' = [entry EXCEPT ![k] = e]
    /\ UNCHANGED listed

Leave(k) == entry' = [entry EXCEPT ![k] = None] /\ UNCHANGED listed

(* The actor has stopped, or is about to give everything back. *)
LeaveAll == entry' = [k \in Keys |-> None] /\ UNCHANGED listed

Delist(k) ==
    /\ entry[k] = None
    /\ listed' = listed \ {k}
    /\ UNCHANGED entry

Next ==
    \/ LeaveAll
    \/ \E k \in Keys : Enlist(k) \/ Leave(k) \/ Delist(k)
    \/ \E k \in Keys, e \in Entries : Enter(k, e)

Spec == Init /\ [][Next]_<<entry, listed>>
=============================================================================
