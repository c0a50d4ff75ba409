------------------------------ MODULE Subscription ------------------------------
(***************************************************************************)
(* One subscription of a node (tcpros/subscription.rs) and what the        *)
(* subscriber actor does to it (node/actors/subscriber.rs): links to       *)
(* publishers that come and go, one subscriber task per link, the store    *)
(* of latched messages, and the handles that read the shared channel.      *)
(***************************************************************************)
EXTENDS Naturals, Sequences, FiniteSets

CONSTANTS
    Pubs,       \* publishers of the topic, each a node with one URI and one name
    Latchers,   \* those that publish latched
    Refusers,   \* those whose header is not compatible
    Handles,    \* Subscriber handles
    Capacity,   \* slots of the broadcast channel (queue size, rounded up)
    MaxSends,   \* bound: messages of a publisher
    MaxStarts,  \* bound: how often a publisher starts to advertise
    MaxBreaks,  \* bound: how often a link to a publisher fails while it goes on
    None        \* no publisher

ASSUME SubscriptionAssumption ==
    /\ Latchers \subseteq Pubs /\ Refusers \subseteq Pubs /\ None \notin Pubs
    /\ {MaxSends, MaxBreaks} \subseteq Nat /\ {Capacity, MaxStarts} \subseteq Nat \ {0}

VARIABLES
    up,         \* publishers that advertise the topic
    starts,     \* how often each has begun to
    sock,       \* each publisher's link: none, open, or closed at its end
    wire,       \* messages on each link
    count,      \* messages each publisher has published
    base,       \* how many of them before it last began to advertise
    breaks,     \* how often a link to it has failed
    mailbox,    \* publisherUpdate calls the actor has yet to handle
    actor,      \* what the actor does with the subscription
    todo,       \* publishers it has yet to connect to
    target,     \* the one it is connecting to
    asker,      \* the handle it is making
    missed,     \* history: publishers it was last told of in vain, the connect failed
    addrs,      \* publisher_addrs
    latched,    \* latched_msgs, a function from keys
    task,       \* where each link's subscriber task is
    frame,      \* the message it has read
    log,        \* messages sent on data_tx
    handle,     \* each handle
    backlog,    \* its latched_msgs
    pos,        \* its data_rx: the next message it reads
    got         \* what it has received

remoteVars == <<up, starts, sock, wire, count, base, breaks>>
actorVars  == <<actor, todo, target, asker, missed>>
handleVars == <<handle, backlog, pos, got>>
taskVars   == <<task, frame>>
vars == <<remoteVars, mailbox, actorVars, addrs, latched, taskVars, log, handleVars>>

-----------------------------------------------------------------------------
(* A message: its publisher, its number, and the failures before its link.   *)
Frames == Pubs \X (1..MaxSends) \X (0..MaxBreaks)

(* latched_msgs is written under the publisher's name and cleaned under its  *)
(* URI.                                                                      *)
Keys == {"id", "uri"} \X Pubs

StoreKey(p) == <<"id", p>>
CleanKey(p) == <<"uri", p>>

Stored == {latched[k] : k \in {k \in Keys : latched[k] # <<>>}}

Cancelled == actor = "gone"

(* tokio::sync::broadcast; _data_rx keeps the channel open until the drop. *)
Oldest == IF Len(log) > Capacity THEN Len(log) - Capacity + 1 ELSE 1
Opened == {h \in Handles : handle[h] = "open"}
HasReceivers == ~Cancelled \/ Opened # {}
AllSendersGone == Cancelled /\ \A p \in Pubs : task[p] = "none"

(* The registry's first step is behind: the master has answered with the     *)
(* publishers it knows.                                                      *)
Init ==
    /\ up \in SUBSET Pubs
    /\ starts = [p \in Pubs |-> IF p \in up THEN 1 ELSE 0]
    /\ sock = [p \in Pubs |-> "none"] /\ wire = [p \in Pubs |-> <<>>]
    /\ count = [p \in Pubs |-> 0] /\ base = count /\ breaks = count
    /\ mailbox = <<>>
    /\ actor = "registering" /\ todo = up /\ target = None
    /\ asker \in Handles /\ missed = {}
    /\ addrs = {} /\ latched = [k \in Keys |-> <<>>]
    /\ task = [p \in Pubs |-> "none"] /\ frame = [p \in Pubs |-> <<>>]
    /\ log = <<>>
    /\ handle = [h \in Handles |-> "none"] /\ backlog = [h \in Handles |-> {}]
    /\ pos = [h \in Handles |-> 1] /\ got = [h \in Handles |-> <<>>]

-----------------------------------------------------------------------------
(* Publishers, and the master, which calls publisherUpdate at every change.  *)

Updated(pubs) ==
    mailbox' = IF Cancelled THEN mailbox ELSE Append(mailbox, pubs)

Advertise(p) ==
    /\ p \notin up /\ starts[p] < MaxStarts
    /\ up' = up \cup {p}
    /\ starts' = [starts EXCEPT ![p] = @ + 1]
    /\ base' = [base EXCEPT ![p] = count[p]]
    /\ Updated(up')
    /\ UNCHANGED <<sock, wire, count, breaks, actorVars, addrs, latched, taskVars, log,
                   handleVars>>

Closes(p) == sock' = [sock EXCEPT ![p] = IF @ = "open" THEN "eof" ELSE @]

Unadvertise(p) ==
    /\ p \in up
    /\ up' = up \ {p}
    /\ Closes(p)
    /\ Updated(up')
    /\ UNCHANGED <<starts, wire, count, base, breaks, actorVars, addrs, latched, taskVars, log,
                   handleVars>>

Breaks(p) ==
    /\ sock[p] = "open" /\ breaks[p] < MaxBreaks
    /\ Closes(p)
    /\ breaks' = [breaks EXCEPT ![p] = @ + 1]
    /\ UNCHANGED <<up, starts, wire, count, base, mailbox, actorVars, addrs, latched, taskVars,
                   log, handleVars>>

(* The link's publisher task sends the message, or lags and passes it over.  *)
(* What a publisher sends whose header is refused never comes here.          *)
Publish(p) ==
    /\ p \in up \ Refusers /\ count[p] < MaxSends
    /\ count' = [count EXCEPT ![p] = @ + 1]
    /\ \/ /\ sock[p] = "open"
          /\ wire' = [wire EXCEPT ![p] = Append(@, <<p, count'[p], breaks[p]>>)]
       \/ UNCHANGED wire
    /\ UNCHANGED <<up, starts, sock, base, breaks, mailbox, actorVars, addrs, latched, taskVars,
                   log, handleVars>>

(* What a new link carries first: nothing, or the message that a latching    *)
(* publisher's listener task retained, which need not be its latest.         *)
First(p) ==
    {<<>>} \cup {<<<<p, n, breaks[p]>>>> : n \in {n \in base[p] + 1..count[p] : p \in Latchers}}

-----------------------------------------------------------------------------
(* The actor.                                                                *)

(* Fault: publishers that have been added already are not left out. *)
KnownNone == {}

Known == addrs

Update ==
    /\ actor = "idle" /\ mailbox # <<>>
    /\ actor' = "updating"
    /\ todo' = Head(mailbox) \ Known
    /\ mailbox' = Tail(mailbox)
    /\ missed' = missed \ todo'
    /\ UNCHANGED <<remoteVars, target, asker, addrs, latched, taskVars, log, handleVars>>

Adding == actor \in {"registering", "updating"}

(* get_publisher_channel, then Subscription::add_publisher. *)
Connect(p) ==
    /\ Adding /\ target = None /\ p \in todo
    /\ todo' = todo \ {p}
    /\ target' = IF p \in Known THEN None ELSE p
    /\ UNCHANGED <<remoteVars, mailbox, actor, asker, missed, addrs, latched, taskVars, log,
                   handleVars>>

Connected ==
    /\ target \in up \ Refusers
    /\ target' = None
    /\ addrs' = addrs \cup {target}
    /\ sock' = [sock EXCEPT ![target] = "open"]
    /\ \E first \in First(target) : wire' = [wire EXCEPT ![target] = first]
    /\ task' = [task EXCEPT ![target] = "reading"]
    /\ UNCHANGED <<up, starts, count, base, breaks, mailbox, actor, todo, asker, missed,
                   latched, frame, log, handleVars>>

(* Fault: the first publisher that cannot be added ends the update. *)
LeftNone == {}

Left == todo

(* requestTopic, the connection or the handshake fails, of a publisher that  *)
(* is there as well, or its header is refused: logged, and not tried again.  *)
ConnectFails ==
    /\ target # None
    /\ target' = None
    /\ todo' = Left
    /\ missed' = missed \cup {target}
    /\ UNCHANGED <<remoteVars, mailbox, actor, asker, addrs, latched, taskVars, log, handleVars>>

(* The registry entry is made and the first handle gets the first receiver. *)
Registered ==
    /\ actor = "registering" /\ todo = {} /\ target = None
    /\ actor' = "idle"
    /\ handle' = [handle EXCEPT ![asker] = "open"]
    /\ UNCHANGED <<remoteVars, mailbox, todo, target, asker, missed, addrs, latched, taskVars,
                   log, backlog, pos, got>>

UpdateDone ==
    /\ actor = "updating" /\ todo = {} /\ target = None
    /\ actor' = "idle"
    /\ UNCHANGED <<remoteVars, mailbox, todo, target, asker, missed, addrs, latched, taskVars,
                   log, handleVars>>

(* register_subscriber for a topic that has a subscription: first the        *)
(* latched messages are copied ...                                           *)
CopyLatched(h) ==
    /\ actor = "idle" /\ Opened # {} /\ handle[h] = "none"
    /\ actor' = "opening" /\ asker' = h
    /\ backlog' = [backlog EXCEPT ![h] = Stored]
    /\ UNCHANGED <<remoteVars, mailbox, todo, target, missed, addrs, latched, taskVars, log,
                   handle, pos, got>>

(* Fault: the handle reads the channel from its oldest message. *)
StartAtOldest == Oldest

Start == Len(log) + 1

(* ... then the handle subscribes to the channel.                            *)
Open ==
    /\ actor = "opening"
    /\ actor' = "idle"
    /\ handle' = [handle EXCEPT ![asker] = "open"]
    /\ pos' = [pos EXCEPT ![asker] = Start]
    /\ UNCHANGED <<remoteVars, mailbox, todo, target, asker, missed, addrs, latched, taskVars,
                   log, backlog, got>>

(* cleanup_subscription, whatever led to it, drops the subscription. *)
DropSubscription ==
    /\ actor = "idle"
    /\ actor' = "gone" /\ mailbox' = <<>>
    /\ UNCHANGED <<remoteVars, todo, target, asker, missed, addrs, latched, taskVars, log,
                   handleVars>>

-----------------------------------------------------------------------------
(* The subscriber task of p's link.                                          *)

ReadFrame(p) ==
    /\ task[p] = "reading" /\ wire[p] # <<>>
    /\ frame' = [frame EXCEPT ![p] = Head(wire[p])]
    /\ wire' = [wire EXCEPT ![p] = Tail(@)]
    /\ task' = [task EXCEPT ![p] = "send"]
    /\ UNCHANGED <<up, starts, sock, count, base, breaks, mailbox, actorVars, addrs, latched,
                   log, handleVars>>

Leaves(p) == Cancelled \/ (wire[p] = <<>> /\ sock[p] = "eof")

LeaveLoop(p) ==
    /\ task[p] = "reading" /\ Leaves(p)
    /\ task' = [task EXCEPT ![p] = "clean"]
    /\ UNCHANGED <<remoteVars, mailbox, actorVars, addrs, latched, frame, log, handleVars>>

(* Fault: what a latching publisher sends is not kept. *)
KeepsNever(p) == FALSE

Keeps(p) == p \in Latchers

SendFrame(p) ==
    /\ task[p] = "send"
    /\ IF HasReceivers
       THEN /\ log' = Append(log, frame[p])
            /\ task' = [task EXCEPT ![p] = IF Keeps(p) THEN "store" ELSE "reading"]
       ELSE /\ task' = [task EXCEPT ![p] = "clean"]
            /\ UNCHANGED log
    /\ UNCHANGED <<remoteVars, mailbox, actorVars, addrs, latched, frame, handleVars>>

Store(p) ==
    /\ task[p] = "store"
    /\ latched' = [latched EXCEPT ![StoreKey(p)] = frame[p]]
    /\ task' = [task EXCEPT ![p] = "reading"]
    /\ UNCHANGED <<remoteVars, mailbox, actorVars, addrs, frame, log, handleVars>>

Clean(p) ==
    /\ task[p] = "clean"
    /\ latched' = [latched EXCEPT ![CleanKey(p)] = <<>>]
    /\ task' = [task EXCEPT ![p] = "remove"]
    /\ UNCHANGED <<remoteVars, mailbox, actorVars, addrs, frame, log, handleVars>>

(* Fault: the URI of a link that has ended stays in publisher_addrs. *)
WithoutNever(p) == addrs

Without(p) == addrs \ {p}

Remove(p) ==
    /\ task[p] = "remove"
    /\ addrs' = Without(p)
    /\ task' = [task EXCEPT ![p] = "none"]
    /\ sock' = [sock EXCEPT ![p] = "none"] /\ wire' = [wire EXCEPT ![p] = <<>>]
    /\ UNCHANGED <<up, starts, count, base, breaks, mailbox, actorVars, latched, frame, log,
                   handleVars>>

-----------------------------------------------------------------------------
(* Handles.  recv_raw returns latched messages first.                        *)

ReceiveLatched(h) ==
    /\ handle[h] = "open"
    /\ \E m \in backlog[h] :
          /\ got' = [got EXCEPT ![h] = Append(@, m)]
          /\ backlog' = [backlog EXCEPT ![h] = @ \ {m}]
    /\ UNCHANGED <<remoteVars, mailbox, actorVars, addrs, latched, taskVars, log, handle, pos>>

Receive(h) ==
    /\ handle[h] = "open" /\ backlog[h] = {}
    /\ pos[h] \in Oldest..Len(log)
    /\ got' = [got EXCEPT ![h] = Append(@, log[pos[h]])]
    /\ pos' = [pos EXCEPT ![h] = @ + 1]
    /\ UNCHANGED <<remoteVars, mailbox, actorVars, addrs, latched, taskVars, log, handle,
                   backlog>>

ReceiveLagged(h) ==
    /\ handle[h] = "open" /\ backlog[h] = {}
    /\ pos[h] < Oldest
    /\ pos' = [pos EXCEPT ![h] = Oldest]
    /\ UNCHANGED <<remoteVars, mailbox, actorVars, addrs, latched, taskVars, log, handle,
                   backlog, got>>

ReceiveClosed(h) ==
    /\ handle[h] = "open" /\ backlog[h] = {}
    /\ pos[h] = Len(log) + 1 /\ AllSendersGone
    /\ handle' = [handle EXCEPT ![h] = "closed"]
    /\ UNCHANGED <<remoteVars, mailbox, actorVars, addrs, latched, taskVars, log, backlog, pos,
                   got>>

(* Clone: the latched messages still unread, and the channel from now on. *)
CloneHandle(h, g) ==
    /\ handle[h] = "open" /\ handle[g] = "none"
    /\ actor \in {"registering", "opening"} => g # asker
    /\ handle' = [handle EXCEPT ![g] = "open"]
    /\ backlog' = [backlog EXCEPT ![g] = backlog[h]]
    /\ pos' = [pos EXCEPT ![g] = Len(log) + 1]
    /\ UNCHANGED <<remoteVars, mailbox, actorVars, addrs, latched, taskVars, log, got>>

(* Its receiver and its unread messages go with it. *)
DropHandle(h) ==
    /\ handle[h] = "open"
    /\ handle' = [handle EXCEPT ![h] = "closed"]
    /\ backlog' = [backlog EXCEPT ![h] = {}] /\ got' = [got EXCEPT ![h] = <<>>]
    /\ pos' = [pos EXCEPT ![h] = 1]
    /\ UNCHANGED <<remoteVars, mailbox, actorVars, addrs, latched, taskVars, log>>

-----------------------------------------------------------------------------
Actor ==
    \/ Update \/ Connected \/ ConnectFails \/ Registered \/ UpdateDone \/ Open
    \/ \E p \in Pubs : Connect(p)

Task(p) == ReadFrame(p) \/ LeaveLoop(p) \/ SendFrame(p) \/ Store(p) \/ Clean(p) \/ Remove(p)

Handle(h) == ReceiveLatched(h) \/ Receive(h) \/ ReceiveLagged(h) \/ ReceiveClosed(h)

Publisher(p) == Advertise(p) \/ Unadvertise(p) \/ Breaks(p) \/ Publish(p)

Quiescent == AllSendersGone /\ UNCHANGED vars

Next ==
    \/ Actor \/ DropSubscription
    \/ \E p \in Pubs : Publisher(p) \/ Task(p)
    \/ \E h \in Handles : Handle(h) \/ DropHandle(h) \/ CopyLatched(h)
    \/ \E h, g \in Handles : CloneHandle(h, g)
    \/ Quiescent

Spec == Init /\ [][Next]_vars

(* The runtime polls the actor and the tasks, select! passes no branch over  *)
(* for ever, and a publisher answers requestTopic and the handshake, or its  *)
(* connection fails: the code sets no timeout.                               *)
Fairness ==
    /\ WF_vars(Actor)
    /\ \A p \in Pubs : WF_vars(Task(p)) /\ SF_vars(LeaveLoop(p))

FairSpec == Spec /\ Fairness

-----------------------------------------------------------------------------
TypeOK ==
    /\ up \in SUBSET Pubs /\ starts \in [Pubs -> 0..MaxStarts]
    /\ sock \in [Pubs -> {"none", "open", "eof"}]
    /\ wire \in [Pubs -> Seq(Frames)] /\ count \in [Pubs -> 0..MaxSends]
    /\ base \in [Pubs -> 0..MaxSends] /\ breaks \in [Pubs -> 0..MaxBreaks]
    /\ mailbox \in Seq(SUBSET Pubs)
    /\ actor \in {"registering", "idle", "updating", "opening", "gone"}
    /\ todo \in SUBSET Pubs /\ target \in Pubs \cup {None} /\ asker \in Handles
    /\ missed \in SUBSET Pubs /\ addrs \in SUBSET Pubs
    /\ latched \in [Keys -> Frames \cup {<<>>}]
    /\ task \in [Pubs -> {"none", "reading", "send", "store", "clean", "remove"}]
    /\ frame \in [Pubs -> Frames \cup {<<>>}]
    /\ log \in Seq(Frames)
    /\ handle \in [Handles -> {"none", "open", "closed"}]
    /\ backlog \in [Handles -> SUBSET Frames]
    /\ pos \in [Handles -> Nat] /\ got \in [Handles -> Seq(Frames)]
    /\ \A h \in Handles : pos[h] \in 1..Len(log) + 1

(* node/mod.rs:464: publisher_addrs lists the publishers that are connected, *)
(* until their task has ended (insert 148, remove 168); types included.      *)
ConnectedListed == TypeOK /\ \A p \in Pubs : p \in addrs <=> task[p] # "none"

(* A publisher is never connected to while its last link's task still runs:  *)
(* no message comes twice, over two links (108, actors/subscriber.rs:339).   *)
OneLinkEach ==
    [][\A p \in Pubs : sock'[p] = "open" /\ sock[p] # "open" => task[p] = "none"]_vars

(* A handle gets the messages of each publisher in order, none twice, and    *)
(* none both as a latched message and from the channel (194-204, 266-270);   *)
(* but the first that comes after a link has failed may be a retained one,   *)
(* which the handle has already or which is older (publication.rs:179, 246). *)
Follows(m, S) ==
    \/ \A l \in S : l[1] = m[1] => l[2] < m[2]
    \/ m[1] \in Latchers /\ \A l \in S : l[1] = m[1] => l[3] < m[3]

Upto(s, n) == {s[i] : i \in 1..n}

InOrder ==
    \A h \in Handles : \A j \in 1..Len(got[h]) : Follows(got[h][j], Upto(got[h], j - 1))

(* Between two frames the store holds what came last from a latching         *)
(* publisher (199-204).                                                      *)
IsLast(p, i) == log[i][1] = p /\ \A j \in i + 1..Len(log) : log[j][1] # p

StoreCurrent ==
    \A p \in Latchers : task[p] = "reading" =>
        \A i \in 1..Len(log) : IsLast(p, i) => latched[StoreKey(p)] = log[i]

(* Each publisher that the actor has been told of is connected to or tried   *)
(* in vain, unless it stops, whatever becomes of the others (294-305,        *)
(* 339-351: an error is logged and the next one's turn comes), and dropping  *)
(* the subscription ends every subscriber task (186-189).                    *)
LinksSettle ==
    /\ \A p \in Pubs :
          (p \in up /\ p \in todo \cup {target}) ~> (p \in addrs \cup missed \/ p \notin up)
    /\ Cancelled ~> \A p \in Pubs : task[p] = "none"

(* A publisher that goes on advertising does not stay without a link, if no  *)
(* link breaks of itself and no connect to it has failed.                    *)
Reconnects ==
    \A p \in Pubs \ Refusers :
        <>[](p \in up /\ ~Cancelled) => []<>(p \in addrs \cup missed)

(* actors/subscriber.rs:262-263: handles are prepopulated with the latched   *)
(* messages.  Checked for the handle made last by a register call, once it   *)
(* has read all there is and if it has not lagged: it has the last message.  *)
HandleHasLatched ==
    \A p \in Latchers :
        /\ actor = "idle" /\ handle[asker] = "open" /\ Len(log) <= Capacity
        /\ backlog[asker] = {} /\ pos[asker] = Len(log) + 1
        /\ task[p] = "reading"
        => \A i \in 1..Len(log) : IsLast(p, i) =>
              \E j \in 1..Len(got[asker]) : got[asker][j] = log[i]

(* actors/subscriber.rs:257-258: latched messages come from handshakes, so   *)
(* none is kept from a publisher that is no longer connected.                *)
LatchedFromConnected == \A p \in Latchers : latched[StoreKey(p)] # <<>> => p \in addrs
=============================================================================
