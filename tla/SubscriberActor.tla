---------------------------- MODULE SubscriberActor ----------------------------
(***************************************************************************)
(* The subscriber actor of a node (node/actors/subscriber.rs): its         *)
(* registry of subscriptions, the guards and handles that keep them, the   *)
(* calls to the master, and the publishers the master tells it of, which   *)
(* the actor connects to one by one before it takes its next message.      *)
(* What goes on inside one subscription is the module Subscription; here a *)
(* subscription is the set of publishers it is linked to.                  *)
(***************************************************************************)
EXTENDS Sequences, FiniteSets, Naturals

CONSTANTS
    Topics,     \* topic names
    Pubs,       \* publishers; each joins a topic at most once
    Early,      \* those that have joined from the start
    Leavers,    \* those that may leave it, for good
    Silent,     \* those that accept connections and never answer
    Clients,    \* user tasks: each has one call outstanding or one handle
    Guards,     \* identities of guard allocations, reused once freed
    Requests,   \* the kinds of call the clients make
    MayFail,    \* whether master calls and Subscription::new may fail
    MayCancel,  \* whether a caller may give up on a call
    MaxQueue,   \* bound: nobody calls while this many messages are queued
    None        \* no guard, no publisher

ASSUME SubscriberAssumption ==
    /\ None \notin Guards \cup Pubs
    /\ Early \subseteq Pubs /\ Silent \subseteq Pubs /\ Leavers \subseteq Pubs
    /\ Requests \subseteq {"register", "unregister"}
    /\ {MayFail, MayCancel} \subseteq BOOLEAN
    /\ MaxQueue \in Nat

VARIABLES
    pc,         \* where the actor's loop is
    job,        \* the message being handled, or NoJob
    rpc,        \* the master call being awaited, or NoCall
    todo,       \* publishers the handler has yet to connect to
    target,     \* the one it is connecting to, or None
    stopping,   \* the node has asked the actor to stop
    draining,   \* subscriptions that post_stop has yet to clean up
    mailbox,    \* calls and drops not yet received
    registry,   \* state.subscriptions: the guard of each topic's subscription
    links,      \* publishers its subscription, registered or new, is linked to
    missed,     \* history: listed publishers that it last tried to link to in vain
    topicOf,    \* guard.topic_name
    armed,      \* guard.armed
    dropping,   \* guards whose last reference is gone and whose Drop has not run
    client,     \* what each user task is doing
    held,       \* the guard each user task holds a strong reference to
    master,     \* topics the master lists this node as a subscriber of
    pubs,       \* publishers of each topic at the master
    left,       \* publishers that have left it
    updates     \* publisherUpdate calls on their way or in the mailbox: each may
                \* overtake others and calls, so they have no order

loopVars   == <<pc, job, rpc, todo, target, draining, registry, links, missed>>
guardVars  == <<topicOf, armed>>
userVars   == <<client, held>>
masterVars == <<master, pubs, left, updates>>
vars == <<loopVars, stopping, mailbox, guardVars, dropping, userVars, masterVars>>

-----------------------------------------------------------------------------
CallMsg   == [kind: {"register", "unregister"}, topic: Topics, from: Clients]
DropMsg   == [kind: {"drop"}, topic: Topics]
UpdateMsg == [kind: {"update"}, topic: Topics, pubs: SUBSET Pubs]
Message   == CallMsg \cup DropMsg \cup UpdateMsg
NoJob     == [kind |-> "none"]

MasterCall == [op: {"register", "unregister"}, topic: Topics,
               status: {"sent", "ok", "err"}, pubs: SUBSET Pubs]
NoCall     == [op |-> "none", status |-> "none"]

Calls(op, t) == [op |-> op, topic |-> t, status |-> "sent", pubs |-> {}]

Holders(g)  == {c \in Clients : held[c] = g}
Upgrades(g) == Holders(g) # {}      \* Weak::upgrade

Registered == {registry[t] : t \in Topics} \ {None}
Unused == {g \in Guards : ~Upgrades(g)} \ (Registered \cup draining \cup dropping)

Running == pc \notin {"stopped", "failed"}

(* After cleanup_subscription's upgrade-and-disarm of guard g. *)
Disarmed(g) == IF Upgrades(g) THEN [armed EXCEPT ![g] = FALSE] ELSE armed

(* Callers get an error when the actor that has their reply port goes. *)
Released == [c \in Clients |-> "idle"]

(* The actor waits for a publisher that is there and does not answer. *)
Blocked == target \in Silent /\ target \in pubs[job.topic]

-----------------------------------------------------------------------------
Init ==
    /\ pc = "idle" /\ job = NoJob /\ rpc = NoCall /\ todo = {} /\ target = None
    /\ missed = [t \in Topics |-> {}]
    /\ stopping = FALSE /\ draining = {} /\ mailbox = <<>>
    /\ registry = [t \in Topics |-> None] /\ links = [t \in Topics |-> {}]
    /\ topicOf = [g \in Guards |-> None] /\ armed = [g \in Guards |-> TRUE]
    /\ dropping = {}
    /\ client = [c \in Clients |-> "idle"] /\ held = [c \in Clients |-> None]
    /\ master = {} /\ updates = {}
    /\ pubs = [t \in Topics |-> Early] /\ left = [t \in Topics |-> {}]

-----------------------------------------------------------------------------
(* User tasks: subscribe, unsubscribe, clone and drop handles.               *)

Call(c, k, t) ==
    /\ Running /\ client[c] = "idle" /\ held[c] = None /\ Len(mailbox) < MaxQueue
    /\ client' = [client EXCEPT ![c] = "waiting"]
    /\ mailbox' = Append(mailbox, [kind |-> k, topic |-> t, from |-> c])
    /\ UNCHANGED <<loopVars, stopping, guardVars, dropping, held, masterVars>>

CloneHandle(c, d) ==
    /\ held[c] # None /\ client[d] = "idle" /\ held[d] = None
    /\ held' = [held EXCEPT ![d] = held[c]]
    /\ UNCHANGED <<loopVars, stopping, mailbox, guardVars, dropping, client, masterVars>>

DropHandle(c) ==
    /\ held[c] # None
    /\ held' = [held EXCEPT ![c] = None]
    /\ dropping' = IF Holders(held[c]) = {c} THEN dropping \cup {held[c]} ELSE dropping
    /\ UNCHANGED <<loopVars, stopping, mailbox, guardVars, client, masterVars>>

(* Fault: the destructor tests the flag the wrong way round. *)
CastsInverted(g) == ~armed[g]

Casts(g) == armed[g]

(* Drop for SubscriberGuard: cast DropSubscriber, unless disarmed. *)
DropGuard(g) ==
    /\ g \in dropping
    /\ dropping' = dropping \ {g}
    /\ mailbox' = IF Casts(g) /\ Running
                  THEN Append(mailbox, [kind |-> "drop", topic |-> topicOf[g]])
                  ELSE mailbox
    /\ armed' = [armed EXCEPT ![g] = TRUE]      \* the flag goes with the guard
    /\ UNCHANGED <<loopVars, stopping, topicOf, userVars, masterVars>>

-----------------------------------------------------------------------------
(* Publishers come and go at the master, which tells the subscribers it     *)
(* lists; once the actor has ended nothing here takes notice.  A call that  *)
(* fails may have taken effect.                                             *)

Told(t, ps) ==
    updates' = IF t \in master THEN updates \cup {[kind |-> "update", topic |-> t, pubs |-> ps]}
                               ELSE updates

Join(t, p) ==
    /\ Running /\ p \notin pubs[t] \cup left[t]
    /\ pubs' = [pubs EXCEPT ![t] = @ \cup {p}]
    /\ Told(t, pubs'[t])
    /\ UNCHANGED <<loopVars, stopping, mailbox, guardVars, dropping, userVars, master, left>>

Leave(t, p) ==
    /\ Running /\ p \in pubs[t] \cap Leavers
    /\ pubs' = [pubs EXCEPT ![t] = @ \ {p}]
    /\ left' = [left EXCEPT ![t] = @ \cup {p}]
    /\ Told(t, pubs'[t])
    /\ UNCHANGED <<loopVars, stopping, mailbox, guardVars, dropping, userVars, master>>

MasterEffect ==
    IF rpc.op = "register" THEN master \cup {rpc.topic} ELSE master \ {rpc.topic}

MasterAnswers ==
    /\ rpc.status = "sent"
    /\ \/ /\ master' = MasterEffect
          /\ rpc' = [rpc EXCEPT !.status = "ok",
                                !.pubs = IF rpc.op = "register" THEN pubs[rpc.topic] ELSE {}]
       \/ /\ MayFail
          /\ master' \in {master, MasterEffect}
          /\ rpc' = [rpc EXCEPT !.status = "err"]
    /\ UNCHANGED <<pc, job, todo, target, draining, registry, links, missed, stopping, mailbox,
                   guardVars, dropping, userVars, pubs, left, updates>>

(* The subscriber task of a publisher that has left sees the end of its link. *)
LinkEnds(t, p) ==
    /\ p \in links[t] \ pubs[t]
    /\ links' = [links EXCEPT ![t] = @ \ {p}]
    /\ UNCHANGED <<pc, job, rpc, todo, target, draining, registry, missed, stopping, mailbox,
                   guardVars, dropping, userVars, masterVars>>

-----------------------------------------------------------------------------
(* The actor.  A handler ends by going back to the loop, or by an error,     *)
(* which ends the actor without post_stop.  The two queries only read and    *)
(* reply, as RegisterExisting does, and are left out.                        *)

Idle == pc' = "idle" /\ job' = NoJob /\ rpc' = NoCall

Fail ==
    /\ pc' = "failed" /\ job' = NoJob /\ rpc' = NoCall
    /\ registry' = [t \in Topics |-> None] /\ links' = [t \in Topics |-> {}]
    /\ missed' = [t \in Topics |-> {}]
    /\ mailbox' = <<>>
    /\ client' = Released

(* reply.send(...)?: the caller may have given up, its port being closed. *)
Reply(c) ==
    \/ /\ Idle
       /\ client' = [client EXCEPT ![c] = "idle"]
       /\ UNCHANGED <<registry, links, missed, mailbox>>
    \/ MayCancel /\ Fail

(* Nothing but what a reply changes. *)
Rest == UNCHANGED <<todo, target, draining, stopping, guardVars, dropping, masterVars>>

Await(state, op, t) == pc' = state /\ rpc' = Calls(op, t)

Receive ==
    /\ pc = "idle" /\ ~stopping /\ mailbox # <<>>
    /\ pc' = "handle" /\ job' = Head(mailbox) /\ mailbox' = Tail(mailbox)
    /\ UNCHANGED <<rpc, registry, links, missed, userVars>> /\ Rest

(* PublisherUpdateHandler has cast the update to the actor. *)
ReceiveUpdate ==
    /\ pc = "idle" /\ ~stopping
    /\ \E u \in updates : job' = u /\ updates' = updates \ {u}
    /\ pc' = "handle"
    /\ UNCHANGED <<rpc, todo, target, draining, registry, links, missed, stopping, mailbox,
                   guardVars, dropping, userVars, master, pubs, left>>

Registers == pc = "handle" /\ job.kind = "register"
Existing == registry[job.topic]

(* A subscription with a live guard: a further handle, if the types fit. *)
RegisterExisting ==
    /\ Registers /\ Existing # None /\ Upgrades(Existing)
    /\ Reply(job.from) /\ Rest
    /\ held' \in IF pc' = "failed" THEN {held} ELSE {held, [held EXCEPT ![job.from] = Existing]}

(* "Stale subscription found in registry": it is dropped and unregistered,   *)
(* a failure of which is only logged.                                        *)
RegisterStale ==
    /\ Registers /\ Existing # None /\ ~Upgrades(Existing)
    /\ registry' = [registry EXCEPT ![job.topic] = None]
    /\ links' = [links EXCEPT ![job.topic] = {}]
    /\ missed' = [missed EXCEPT ![job.topic] = {}]
    /\ Await("stale", "unregister", job.topic)
    /\ UNCHANGED <<job, mailbox, userVars>> /\ Rest

(* Fault: a call to the master that failed is made again until it succeeds. *)
ReturnedOk == rpc.status = "ok"

Returned == rpc.status \in {"ok", "err"}

StaleCleaned ==
    /\ pc = "stale" /\ Returned
    /\ pc' = "handle" /\ rpc' = NoCall
    /\ UNCHANGED <<job, registry, links, missed, mailbox, userVars>> /\ Rest

CreateSubscription ==
    /\ Registers /\ Existing = None
    /\ Await("register", "register", job.topic)
    /\ UNCHANGED <<job, registry, links, missed, mailbox, userVars>> /\ Rest

(* Subscription::new returns an error, or panics on queue size 0. *)
CreateFails ==
    /\ MayFail /\ Registers /\ Existing = None
    /\ Reply(job.from) \/ Fail
    /\ UNCHANGED held /\ Rest

RegisterRefused ==
    /\ pc = "register" /\ rpc.status = "err"
    /\ Reply(job.from)
    /\ UNCHANGED held /\ Rest

(* Fault: the master's refusal is not looked at. *)
AcceptedAnyway == Returned

Accepted == rpc.status = "ok"

(* The master has answered with the existing publishers. *)
Accept ==
    /\ pc = "register" /\ Accepted
    /\ pc' = "connect" /\ rpc' = NoCall
    /\ todo' = rpc.pubs
    /\ UNCHANGED <<job, target, draining, registry, links, missed, stopping, mailbox, guardVars,
                   dropping, userVars, masterVars>>

-----------------------------------------------------------------------------
(* add_publisher_to_subscription, for one publisher after another: it awaits *)
(* requestTopic, the connection and the handshake.                           *)

Connect(p) ==
    /\ pc = "connect" /\ target = None /\ p \in todo
    /\ target' = p /\ todo' = todo \ {p}
    /\ UNCHANGED <<pc, job, rpc, draining, registry, links, missed, stopping, mailbox, guardVars,
                   dropping, userVars, masterVars>>

Connected ==
    /\ target # None /\ target \in pubs[job.topic] \ Silent
    /\ links' = [links EXCEPT ![job.topic] = @ \cup {target}]
    /\ target' = None
    /\ UNCHANGED <<pc, job, rpc, todo, draining, registry, missed, stopping, mailbox, guardVars,
                   dropping, userVars, masterVars>>

(* requestTopic, the connection or the handshake fails, or the header does   *)
(* not fit, of a publisher that is listed as well: it is logged, the next    *)
(* one tried, and this one not before the master names it again.             *)
ConnectFails ==
    /\ target # None /\ ~Blocked
    /\ target' = None
    /\ missed' = [missed EXCEPT ![job.topic] = @ \cup ({target} \cap pubs[job.topic])]
    /\ UNCHANGED <<pc, job, rpc, todo, draining, registry, links, stopping, mailbox, guardVars,
                   dropping, userVars, masterVars>>

AllTried == pc = "connect" /\ todo = {} /\ target = None

(* The guard is made, the subscription entered, a handle returned. *)
FinishRegister(g) ==
    /\ AllTried /\ job.kind = "register"
    /\ g \in Unused /\ g = CHOOSE h \in Unused : TRUE
    /\ topicOf' = [topicOf EXCEPT ![g] = job.topic]
    /\ armed' = [armed EXCEPT ![g] = TRUE]
    /\ \/ /\ Idle
          /\ registry' = [registry EXCEPT ![job.topic] = g]
          /\ held' = [held EXCEPT ![job.from] = g]
          /\ client' = [client EXCEPT ![job.from] = "idle"]
          /\ UNCHANGED <<links, missed, mailbox>>
       \/ MayCancel /\ Fail /\ UNCHANGED held
    /\ UNCHANGED <<todo, target, draining, stopping, dropping, masterVars>>

(* Fault: the difference is taken the other way round. *)
LinkedUnlisted == links[job.topic] \ job.pubs

ListedUnlinked == job.pubs \ links[job.topic]

(* update_connected_publishers: connect to those not linked yet. *)
Update ==
    /\ pc = "handle" /\ job.kind = "update" /\ Existing # None
    /\ pc' = "connect" /\ todo' = ListedUnlinked
    /\ missed' = [missed EXCEPT ![job.topic] = @ \ todo']
    /\ UNCHANGED <<job, rpc, target, draining, registry, links, stopping, mailbox, guardVars,
                   dropping, userVars, masterVars>>

UpdateDone ==
    /\ \/ AllTried /\ job.kind = "update"
       \/ pc = "handle" /\ job.kind = "update" /\ Existing = None
    /\ Idle
    /\ UNCHANGED <<registry, links, missed, mailbox, userVars>> /\ Rest

-----------------------------------------------------------------------------
(* unregister_subscriber, for DropSubscriber and UnregisterSubscriber alike: *)
(* the entry goes first, whichever subscription it is, then the master.      *)
Unregister ==
    /\ pc = "handle" /\ job.kind \in {"drop", "unregister"} /\ Existing # None
    /\ armed' = Disarmed(Existing)
    /\ registry' = [registry EXCEPT ![job.topic] = None]
    /\ links' = [links EXCEPT ![job.topic] = {}]
    /\ missed' = [missed EXCEPT ![job.topic] = {}]
    /\ Await("unregister", "unregister", job.topic)
    /\ UNCHANGED <<job, todo, target, draining, stopping, topicOf, mailbox, dropping,
                   userVars, masterVars>>

FinishUnregister ==
    /\ \/ pc = "unregister" /\ Returned
       \/ pc = "handle" /\ job.kind \in {"drop", "unregister"} /\ Existing = None
    /\ IF job.kind = "drop"
       THEN Idle /\ UNCHANGED <<registry, links, missed, mailbox, client>>
       ELSE Reply(job.from)
    /\ UNCHANGED held /\ Rest

RequestStop ==
    /\ ~stopping
    /\ stopping' = TRUE
    /\ UNCHANGED <<loopVars, guardVars, mailbox, dropping, userVars, masterVars>>

BeginPostStop ==
    /\ pc = "idle" /\ stopping
    /\ pc' = "post_stop"
    /\ draining' = Registered
    /\ registry' = [t \in Topics |-> None]
    /\ UNCHANGED <<job, rpc, todo, target, links, missed, stopping, mailbox, guardVars, dropping,
                   userVars, masterVars>>

PostStopCleanup(g) ==
    /\ pc = "post_stop" /\ rpc = NoCall /\ g \in draining
    /\ draining' = draining \ {g}
    /\ armed' = Disarmed(g)
    /\ links' = [links EXCEPT ![topicOf[g]] = {}]
    /\ missed' = [missed EXCEPT ![topicOf[g]] = {}]
    /\ rpc' = Calls("unregister", topicOf[g])
    /\ UNCHANGED <<pc, job, todo, target, registry, stopping, topicOf, mailbox, dropping,
                   userVars, masterVars>>

PostStopCleaned ==
    /\ pc = "post_stop" /\ Returned
    /\ rpc' = NoCall
    /\ UNCHANGED <<pc, job, registry, links, missed, mailbox, userVars>> /\ Rest

Stopped ==
    /\ pc = "post_stop" /\ rpc = NoCall /\ draining = {}
    /\ pc' = "stopped" /\ mailbox' = <<>> /\ client' = Released
    /\ UNCHANGED <<job, rpc, registry, links, missed, held>> /\ Rest

CallAfterEnd == ~Running /\ UNCHANGED vars

-----------------------------------------------------------------------------
Actor ==
    \/ Receive \/ ReceiveUpdate \/ RegisterExisting \/ RegisterStale \/ StaleCleaned
    \/ CreateSubscription \/ CreateFails \/ RegisterRefused \/ Accept
    \/ \E p \in Pubs : Connect(p)
    \/ Connected \/ ConnectFails
    \/ \E g \in Guards : FinishRegister(g) \/ PostStopCleanup(g)
    \/ Update \/ UpdateDone \/ Unregister \/ FinishUnregister
    \/ BeginPostStop \/ PostStopCleaned \/ Stopped

User ==
    \/ \E c \in Clients : DropHandle(c) \/ \E k \in Requests, t \in Topics : Call(c, k, t)
    \/ \E c, d \in Clients : CloneHandle(c, d)

Master ==
    \/ MasterAnswers
    \/ \E t \in Topics, p \in Pubs : Join(t, p) \/ Leave(t, p)

Next ==
    \/ Actor \/ User \/ Master
    \/ \E g \in Guards : DropGuard(g)
    \/ \E t \in Topics, p \in Pubs : LinkEnds(t, p)
    \/ RequestStop \/ CallAfterEnd

Spec == Init /\ [][Next]_vars

(* The runtime polls the actor, the API server and the subscriber tasks and  *)
(* runs destructors, and the mailbox is first in, first out, so an update in *)
(* it is received; the master answers, and so do publishers, but for the   *)
(* silent ones.  Nobody is obliged to call, join or leave.                   *)
Fairness ==
    /\ WF_vars(Actor)
    /\ WF_vars(MasterAnswers)
    /\ SF_vars(ReceiveUpdate)
    /\ \A g \in Guards : WF_vars(DropGuard(g))

FairSpec == Spec /\ Fairness

-----------------------------------------------------------------------------
TypeOK ==
    /\ pc \in {"idle", "handle", "stale", "register", "connect", "unregister",
               "post_stop", "stopped", "failed"}
    /\ job \in Message \cup {NoJob} /\ rpc \in MasterCall \cup {NoCall}
    /\ todo \in SUBSET Pubs /\ target \in Pubs \cup {None}
    /\ missed \in [Topics -> SUBSET Pubs]
    /\ stopping \in BOOLEAN /\ draining \in SUBSET Guards
    /\ mailbox \in Seq(Message)
    /\ registry \in [Topics -> Guards \cup {None}]
    /\ links \in [Topics -> SUBSET Pubs]
    /\ topicOf \in [Guards -> Topics \cup {None}] /\ armed \in [Guards -> BOOLEAN]
    /\ dropping \in SUBSET Guards
    /\ client \in [Clients -> {"idle", "waiting"}]
    /\ held \in [Clients -> Guards \cup {None}]
    /\ master \in SUBSET Topics /\ updates \in SUBSET UpdateMsg
    /\ pubs \in [Topics -> SUBSET Pubs] /\ left \in [Topics -> SUBSET Pubs]

(* The registry and the master's listing, seen together, do what Registrar   *)
(* promises (284-311, 323-325), whatever fails, leaves or stays silent.      *)
Reg == INSTANCE Registrar WITH
          Keys <- Topics, Entries <- Guards, entry <- registry, listed <- master

RegistrarSpec == Reg!Spec

DropPending(t) ==
    \/ job.kind = "drop" /\ job.topic = t
    \/ \E i \in 1..Len(mailbox) : mailbox[i].kind = "drop" /\ mailbox[i].topic = t

(* A subscription whose last handle is gone is never forgotten, and while    *)
(* one is held its guard is armed exactly as long as the subscription is the *)
(* registered one (174-176, 467-483); types included.                        *)
GuardsTracked ==
    /\ TypeOK
    /\ Running => \A t \in Topics :
          LET g == registry[t] IN
          g # None /\ ~Upgrades(g) => (g \in dropping /\ armed[g]) \/ DropPending(t)
    /\ Running => \A c \in Clients :
          LET g == held[c] IN
          g # None => (armed[g] <=> registry[topicOf[g]] = g \/ g \in draining)

(* A publisher the master lists does not stay without a link to a            *)
(* subscription, although it joined while the node was registering, or       *)
(* others left or failed, or updates overtook one another: it is linked, or  *)
(* a connect to it has failed since the actor was last told of it, which     *)
(* nobody tries again (294-305, 338-351) - unless a publisher that does not  *)
(* answer holds the actor up.                                                *)
ListedGetLinked ==
    \A t \in Topics, p \in Pubs \ Silent :
        (registry[t] # None /\ p \in pubs[t])
            ~> (p \in links[t] \cup missed[t] \/ registry[t] = None \/ p \notin pubs[t] \/ Blocked)

(* Every call and the stop end, unless a publisher does not answer: that one *)
(* is the only thing that can hold the actor up (355-369, no timeout).       *)
RequestsEnd ==
    /\ \A c \in Clients : (client[c] = "waiting") ~> (client[c] # "waiting" \/ Blocked)
    /\ stopping ~> (~Running \/ Blocked)
=============================================================================
