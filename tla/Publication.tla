------------------------------ MODULE Publication ------------------------------
(***************************************************************************)
(* One publication of a node (tcpros/publication.rs): the broadcast        *)
(* channel its handles send on, the listener task that accepts subscriber  *)
(* connections and keeps the latched message, and one publisher task per   *)
(* connection.  A message is its position in the order of sends.           *)
(***************************************************************************)
EXTENDS Naturals, Sequences, FiniteSets

CONSTANTS
    Conns,      \* subscriber connections
    Ids,        \* ROS names the subscribers give as their caller_id
    Latching,   \* the publication's latching flag
    Capacity,   \* slots of the broadcast channel (queue size, rounded up)
    MaxSends,   \* bound: messages sent in a run
    None        \* no connection

ASSUME PublicationAssumption ==
    /\ Latching \in BOOLEAN
    /\ Capacity \in Nat \ {0}
    /\ MaxSends \in Nat
    /\ None \notin Conns

VARIABLES
    sent,       \* messages sent on data_tx so far
    closed,     \* every data_tx is gone
    cancelled,  \* the publication was dropped: its cancel token is set
    lpc,        \* where the listener task is
    lnext,      \* the listener's data_rx: next message it reads
    latched,    \* latched_message, 0 for None
    current,    \* the connection being set up
    ids,        \* subscriber_ids
    st,         \* each connection, on this side
    remote,     \* each connection, on the subscriber's side
    peer,       \* the caller_id of each connection's subscriber
    hand,       \* message a task is writing to its connection, 0 for none
    next,       \* a task's data_rx: next message it reads
    joined,     \* number of messages sent when the task subscribed
    wire        \* what has been written to each connection

chanVars == <<sent, closed, cancelled>>
taskVars == <<hand, next, joined, wire>>
listVars == <<lpc, lnext, latched, current>>
vars == <<sent, closed, cancelled, lpc, lnext, latched, current, ids, st, remote,
          peer, hand, next, joined, wire>>

-----------------------------------------------------------------------------
(* tokio::sync::broadcast: a receiver that is more than Capacity messages    *)
(* behind is told so once and goes on at the oldest message still kept.      *)

(* Fault: the channel is created one slot short. *)
OldestOfFewer == IF sent >= Capacity THEN sent - Capacity + 2 ELSE 1

Oldest == IF sent > Capacity THEN sent - Capacity + 1 ELSE 1
Lagging(n) == n < Oldest
HasNext(n) == ~Lagging(n) /\ n <= sent
AtEnd(n)   == n > sent /\ closed

(* Fault: the new receiver starts where the listener's receiver is. *)
StartAtListener == lnext

(* resubscribe: the new receiver sees only what is sent from now on. *)
Start == sent + 1

WithId(c) == ids \cup {peer[c]}

(* Fault: the id is not removed. *)
WithoutIdNever(c) == ids

WithoutId(c) == ids \ {peer[c]}

Receivers == {c \in Conns : st[c] = "task"}
Writing(c) == hand[c] # 0

Init ==
    /\ sent = 0 /\ closed = FALSE /\ cancelled = FALSE
    /\ lpc = "select" /\ lnext = 1 /\ latched = 0 /\ current = None
    /\ ids = {}
    /\ st = [c \in Conns |-> "none"]
    /\ remote = [c \in Conns |-> "none"]
    /\ peer \in [Conns -> Ids]
    /\ hand = [c \in Conns |-> 0]
    /\ next = [c \in Conns |-> 1]
    /\ joined = [c \in Conns |-> 0]
    /\ wire = [c \in Conns |-> <<>>]

-----------------------------------------------------------------------------
(* The handles, the registry, and the subscribers.                           *)

(* Publisher::send_raw; an error without effect when nobody can receive. *)
Send ==
    /\ ~closed /\ sent < MaxSends
    /\ lpc # "done" \/ Receivers # {}
    /\ sent' = sent + 1
    /\ UNCHANGED <<closed, cancelled, listVars, ids, st, remote, peer, taskVars>>

(* The actor drops the Publication; the last handles may outlive it. *)
Cancel ==
    /\ ~cancelled
    /\ cancelled' = TRUE
    /\ UNCHANGED <<sent, closed, listVars, ids, st, remote, peer, taskVars>>

CloseSenders ==
    /\ cancelled /\ ~closed
    /\ closed' = TRUE
    /\ UNCHANGED <<sent, cancelled, listVars, ids, st, remote, peer, taskVars>>

(* A subscriber connects, sends a header of its own, or goes away. *)
Connect(c) ==
    /\ st[c] = "none" /\ lpc # "done"
    /\ st' = [st EXCEPT ![c] = "backlog"]
    /\ remote' = [remote EXCEPT ![c] = "connected"]
    /\ UNCHANGED <<chanVars, listVars, ids, peer, taskVars>>

SendHeader(c) ==
    /\ remote[c] = "connected"
    /\ \E h \in {"compatible", "incompatible"} : remote' = [remote EXCEPT ![c] = h]
    /\ UNCHANGED <<chanVars, listVars, ids, st, peer, taskVars>>

(* A subscriber may stop reading: once the socket's buffers are full, the    *)
(* write in hand waits until it reads again, or has gone.                    *)
Stall(c) ==
    /\ remote[c] = "compatible" /\ Writing(c)
    /\ remote' = [remote EXCEPT ![c] = "stalled"]
    /\ UNCHANGED <<chanVars, listVars, ids, st, peer, taskVars>>

Resume(c) ==
    /\ remote[c] = "stalled"
    /\ remote' = [remote EXCEPT ![c] = "compatible"]
    /\ UNCHANGED <<chanVars, listVars, ids, st, peer, taskVars>>

Leave(c) ==
    /\ remote[c] \notin {"none", "gone"}
    /\ remote' = [remote EXCEPT ![c] = "gone"]
    /\ UNCHANGED <<chanVars, listVars, ids, st, peer, taskVars>>

-----------------------------------------------------------------------------
(* The listener task: at its select!, any ready branch may be taken.         *)

(* Connections still in the listener's backlog are closed with it; a stream  *)
(* that is closed on this side is over for its subscriber too.               *)
ListenerEnds ==
    /\ lpc' = "done"
    /\ st' = [c \in Conns |-> IF st[c] = "backlog" THEN "closed" ELSE st[c]]
    /\ remote' = [c \in Conns |-> IF st[c] = "backlog" THEN "gone" ELSE remote[c]]
    /\ UNCHANGED <<chanVars, lnext, latched, current, ids, peer, taskVars>>

ListenerStops == lpc = "select" /\ cancelled /\ ListenerEnds

ListenerClosed == lpc = "select" /\ Latching /\ AtEnd(lnext) /\ ListenerEnds

(* latched_message = Some(m). *)
Kept == lnext

ListenerReceives ==
    /\ lpc = "select" /\ Latching /\ HasNext(lnext)
    /\ latched' = Kept
    /\ lnext' = lnext + 1
    /\ UNCHANGED <<chanVars, lpc, current, ids, st, remote, peer, taskVars>>

ListenerLags ==
    /\ lpc = "select" /\ Latching /\ Lagging(lnext)
    /\ lnext' = Oldest
    /\ UNCHANGED <<chanVars, lpc, latched, current, ids, st, remote, peer, taskVars>>

(* The accept branch runs to its end, setup_connection included, before the  *)
(* task selects again.                                                       *)
Accept(c) ==
    /\ lpc = "select" /\ st[c] = "backlog"
    /\ lpc' = "setup" /\ current' = c
    /\ st' = [st EXCEPT ![c] = "setup"]
    /\ UNCHANGED <<chanVars, lnext, latched, ids, remote, peer, taskVars>>

(* The subscriber's header has been read and agrees; ours, the first thing   *)
(* on this connection, has been written: the socket's buffer has room for it.*)
SetupSucceeds ==
    /\ lpc = "setup" /\ remote[current] = "compatible"
    /\ lpc' = "spawn"
    /\ UNCHANGED <<chanVars, lnext, latched, current, ids, st, remote, peer, taskVars>>

(* from_async_read or validate_pubsub_compatibility returns an error. *)
Refused == remote[current] \in {"incompatible", "gone"}

SetupFails ==
    /\ lpc = "setup" /\ Refused
    /\ lpc' = "select" /\ current' = None
    /\ st' = [st EXCEPT ![current] = "closed"]
    /\ remote' = [remote EXCEPT ![current] = "gone"]
    /\ UNCHANGED <<chanVars, lnext, latched, ids, peer, taskVars>>

(* Clone the latched message, resubscribe, insert the id, spawn the task. *)
Spawn ==
    /\ lpc = "spawn"
    /\ lpc' = "select" /\ current' = None
    /\ st' = [st EXCEPT ![current] = "task"]
    /\ hand' = [hand EXCEPT ![current] = latched]
    /\ next' = [next EXCEPT ![current] = Start]
    /\ joined' = [joined EXCEPT ![current] = sent]
    /\ ids' = WithId(current)
    /\ UNCHANGED <<chanVars, lnext, latched, remote, peer, wire>>

-----------------------------------------------------------------------------
(* The publisher task of connection c.                                       *)

(* Fault: the loop is inside the `if let` that writes the latched message. *)
MayReceiveIfLatched(c) == ~Writing(c) /\ wire[c] # <<>>

(* The message in hand, the latched one before the loop is entered or one    *)
(* just received, is written before anything else is looked at: while        *)
(* write_all waits for a subscriber that does not read, neither the channel  *)
(* nor the cancel token is polled (251, 256, 264).                           *)
MayReceive(c) == ~Writing(c)

(* stream.write_all(m): to a subscriber that has gone the write fails, or    *)
(* is still accepted by the local socket and lost.                           *)
Write(c) ==
    /\ st[c] = "task" /\ Writing(c) /\ remote[c] # "stalled"
    /\ hand' = [hand EXCEPT ![c] = 0]
    /\ \/ /\ wire' = [wire EXCEPT ![c] = Append(@, hand[c])]
          /\ UNCHANGED st
       \/ /\ remote[c] = "gone"
          /\ st' = [st EXCEPT ![c] = "exiting"]
          /\ UNCHANGED wire
    /\ UNCHANGED <<chanVars, listVars, ids, remote, peer, next, joined>>

TaskReceives(c) ==
    /\ st[c] = "task" /\ MayReceive(c)
    /\ HasNext(next[c])
    /\ hand' = [hand EXCEPT ![c] = next[c]]
    /\ next' = [next EXCEPT ![c] = @ + 1]
    /\ UNCHANGED <<chanVars, listVars, ids, st, remote, peer, joined, wire>>

TaskLags(c) ==
    /\ st[c] = "task" /\ MayReceive(c)
    /\ Lagging(next[c])
    /\ next' = [next EXCEPT ![c] = Oldest]
    /\ UNCHANGED <<chanVars, listVars, ids, st, remote, peer, hand, joined, wire>>

(* Fault: publisher tasks do not watch the cancel token. *)
EndsAtClose(c) == AtEnd(next[c])

(* The cancel branch, or the channel closed with nothing left to read. *)
Ends(c) == cancelled \/ AtEnd(next[c])

TaskEnds(c) ==
    /\ st[c] = "task" /\ MayReceive(c)
    /\ Ends(c)
    /\ st' = [st EXCEPT ![c] = "exiting"]
    /\ UNCHANGED <<chanVars, listVars, ids, remote, peer, taskVars>>

(* The task's last act is to remove its subscriber's id. *)
Remove(c) ==
    /\ st[c] = "exiting"
    /\ st' = [st EXCEPT ![c] = "closed"]
    /\ ids' = WithoutId(c)
    /\ remote' = [remote EXCEPT ![c] = "gone"]
    /\ UNCHANGED <<chanVars, listVars, peer, taskVars>>

-----------------------------------------------------------------------------
Listener ==
    \/ ListenerStops \/ ListenerClosed \/ ListenerReceives \/ ListenerLags
    \/ \E c \in Conns : Accept(c)
    \/ SetupSucceeds \/ SetupFails \/ Spawn

Task(c) ==
    Write(c) \/ TaskReceives(c) \/ TaskLags(c) \/ TaskEnds(c) \/ Remove(c)

Subscriber(c) == Connect(c) \/ SendHeader(c) \/ Stall(c) \/ Resume(c) \/ Leave(c)

(* Nothing is left to happen: the publication and its connections are gone. *)
Ended ==
    /\ lpc = "done" /\ closed
    /\ \A c \in Conns : st[c] \in {"none", "closed"}
    /\ UNCHANGED vars

Next ==
    \/ Send \/ Cancel \/ CloseSenders
    \/ Listener
    \/ \E c \in Conns : Subscriber(c) \/ Task(c)
    \/ Ended

Spec == Init /\ [][Next]_vars

(* The runtime polls every task that can go on; a write to a subscriber that *)
(* does not read is not one.  A subscriber that has connected sends a header *)
(* or goes away: the library sets no timeout.                                *)
Fairness ==
    /\ WF_vars(Listener)
    /\ \A c \in Conns : WF_vars(Task(c)) /\ WF_vars(SendHeader(c))

FairSpec == Spec /\ Fairness

-----------------------------------------------------------------------------
TypeOK ==
    /\ sent \in 0..MaxSends /\ closed \in BOOLEAN /\ cancelled \in BOOLEAN
    /\ lpc \in {"select", "setup", "spawn", "done"}
    /\ lnext \in 1..MaxSends + 1 /\ latched \in 0..MaxSends
    /\ current \in Conns \cup {None}
    /\ ids \in SUBSET Ids
    /\ st \in [Conns -> {"none", "backlog", "setup", "task", "exiting", "closed"}]
    /\ remote \in [Conns -> {"none", "connected", "compatible", "incompatible", "stalled", "gone"}]
    /\ peer \in [Conns -> Ids]
    /\ hand \in [Conns -> 0..MaxSends]
    /\ next \in [Conns -> 1..MaxSends + 1]
    /\ joined \in [Conns -> 0..MaxSends]
    /\ wire \in [Conns -> Seq(1..MaxSends)]

(* The publication implements the promise of TopicStream: each subscriber is *)
(* written published messages in order, none twice, and at most one from     *)
(* before it joined, as the first (latched message and resubscribe, 184-185).*)
Stream == INSTANCE TopicStream WITH
             Conns <- Conns, sent <- sent, joined <- joined, wire <- wire

StreamSpec == Stream!Spec

(* A task that has caught up without ever lagging has written every message  *)
(* sent since it joined, to a subscriber that is still there.                *)
CaughtUp(c) == st[c] = "task" /\ ~Writing(c) /\ next[c] = sent + 1

NoLiveMessageLost ==
    sent <= Capacity =>
        \A c \in Conns : CaughtUp(c) =>
            \A m \in joined[c] + 1..sent : \E i \in 1..Len(wire[c]) : wire[c][i] = m

(* An id in subscriber_ids belongs to a connection whose task has not ended, *)
(* and a subscriber is listed as long as its task runs, unless another       *)
(* connection has used its name (insert 196, remove 211); types included.    *)
IdsTracked ==
    /\ TypeOK
    /\ \A i \in ids : \E c \in Conns : st[c] \in {"task", "exiting"} /\ peer[c] = i
    /\ \A c \in Receivers :
          (\A d \in Conns \ {c} : st[d] = "none" \/ peer[d] # peer[c]) => peer[c] \in ids

(* The subscriber of c does not stop reading for good.                       *)
Reads(c) == <>[](remote[c] # "stalled")

(* Each message is eventually behind every task that runs, written to its    *)
(* subscriber or passed over in a lag, if that subscriber reads; what others *)
(* do, one that stops reading for good included, does not hold it up.        *)
Behind(c, m) == next[c] > m /\ hand[c] # m

TasksKeepUp ==
    \A c \in Conns : Reads(c) =>
        \A m \in 1..MaxSends : (st[c] = "task" /\ sent >= m) ~> (Behind(c, m) \/ st[c] # "task")

(* A subscriber that has connected is served or refused, not left waiting    *)
(* behind another's setup or write, and dropping the publication ends its    *)
(* listener and each publisher task whose subscriber reads - if subscribers  *)
(* that connect send a header or go: the code sets no timeout, and a task    *)
(* that waits in write_all does not watch the token (142-145, 251-264).      *)
ConnectionsEnd ==
    /\ \A c \in Conns : (st[c] = "backlog") ~> (st[c] # "backlog")
    /\ cancelled ~> (lpc = "done")
    /\ \A c \in Conns : Reads(c) => (cancelled ~> (st[c] \in {"none", "closed"}))

(* lib.rs:53-54: a latched publication sends the last published message to   *)
(* any future subscriber that connects.  Checked where nothing is left in    *)
(* flight: listener and task have read everything that was sent.             *)
LatchedDelivered ==
    \A c \in Conns :
        Latching /\ ~cancelled /\ sent > 0 /\ lnext = sent + 1 /\ CaughtUp(c)
            => Stream!Last0(wire[c]) = sent

(* node/mod.rs:343: the subscriber ids of a topic list the connected ones.   *)
ConnectedListed ==
    \A c \in Conns :
        ~cancelled /\ st[c] = "task" /\ remote[c] = "compatible" => peer[c] \in ids
=============================================================================
