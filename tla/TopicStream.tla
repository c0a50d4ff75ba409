------------------------------ MODULE TopicStream ------------------------------
(***************************************************************************)
(* What a topic promises each subscriber connection, whatever carries the  *)
(* messages: published messages, in the order they were published, none    *)
(* twice, and from before the connection joined at most one, the first.    *)
(***************************************************************************)
EXTENDS Naturals, Sequences

CONSTANTS Conns     \* subscriber connections

VARIABLES
    sent,       \* how many messages were published; a message is its number
    joined,     \* how many there were when each connection joined
    wire        \* the messages written to each connection

Last0(s) == IF s = <<>> THEN 0 ELSE s[Len(s)]

Init ==
    /\ sent = 0
    /\ joined = [c \in Conns |-> 0]
    /\ wire = [c \in Conns |-> <<>>]

Publish == sent' = sent + 1 /\ UNCHANGED <<joined, wire>>

Join(c) ==
    /\ wire[c] = <<>>
    /\ joined' = [joined EXCEPT ![c] = sent]
    /\ UNCHANGED <<sent, wire>>

Deliver(c, m) ==
    /\ m > Last0(wire[c])
    /\ m <= joined[c] => wire[c] = <<>>
    /\ wire' = [wire EXCEPT ![c] = Append(@, m)]
    /\ UNCHANGED <<sent, joined>>

Next ==
    \/ Publish
    \/ \E c \in Conns : Join(c) \/ \E m \in 1..sent : Deliver(c, m)

Spec == Init /\ [][Next]_<<sent, joined, wire>>
=============================================================================
