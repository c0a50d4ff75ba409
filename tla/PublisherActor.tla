---------------------------- MODULE PublisherActor ----------------------------
(***************************************************************************)
(* The publisher actor of a node (node/actors/publisher.rs), the handles   *)
(* it gives out, and the registrations it keeps at the ROS master.         *)
(*                                                                         *)
(* The actor handles one message of its mailbox at a time and may await    *)
(* the master in the middle of a handler.  User tasks call it, give up on  *)
(* a call, clone and drop the handles they were given; a handle is a       *)
(* strong reference to a guard whose destructor casts DropPublisher to the *)
(* actor once the last strong reference is gone.  The registry holds only  *)
(* a weak reference to the guard.                                          *)
(***************************************************************************)
EXTENDS Sequences, FiniteSets, Naturals

CONSTANTS
    Topics,         \* topic names
    Specs,          \* message specifications (md5sum, type, definition)
    AnySpec,        \* the wildcard specification, "*" in every field
    QueueSizes,     \* queue sizes
    Offers,         \* the pairs of specification and queue size callers ask for
    Clients,        \* user tasks: each has one call outstanding or one handle
    Guards,         \* identities of guard allocations, reused once freed
    Requests,       \* the kinds of call the clients make
    MayFail,        \* whether master calls and socket binds may fail
    MayCancel,      \* whether a caller may give up on a call
    None            \* no guard

ASSUME PublisherAssumption ==
    /\ None \notin Guards
    /\ QueueSizes \subseteq Nat
    /\ Offers \subseteq Specs \X QueueSizes
    /\ Requests \subseteq {"register", "query", "unregister"}
    /\ {MayFail, MayCancel} \subseteq BOOLEAN

VARIABLES
    pc,         \* where the actor's loop is
    job,        \* the message being handled, or NoJob
    rpc,        \* the master call being awaited, or NoCall
    stopping,   \* the node has asked the actor to stop
    draining,   \* publications that post_stop has yet to clean up
    mailbox,    \* messages not yet received
    registry,   \* state.publications: the guard of each topic's publication
    topicOf,    \* guard.topic_name
    specOf,     \* the specification of the guard's publication
    armed,      \* guard.armed
    dropping,   \* guards whose last reference is gone and whose Drop has not run
    client,     \* what each user task is doing
    held,       \* the guard each user task holds a strong reference to
    master      \* topics the master lists this node as a publisher of

actorVars == <<pc, job, rpc, draining, registry>>
guardVars == <<topicOf, specOf, armed>>
userVars  == <<client, held>>
vars == <<pc, job, rpc, stopping, draining, mailbox, registry, topicOf, specOf,
          armed, dropping, client, held, master>>

-----------------------------------------------------------------------------
RegisterMsg == [kind: {"register"}, topic: Topics, spec: Specs,
                queue: QueueSizes, from: Clients]
QueryMsg    == [kind: {"query", "unregister"}, topic: Topics, from: Clients]
DropMsg     == [kind: {"drop"}, topic: Topics]
Message     == RegisterMsg \cup QueryMsg \cup DropMsg
NoJob       == [kind |-> "none"]

MasterCall == [op: {"register", "unregister"}, topic: Topics,
               status: {"sent", "ok", "err"}]
NoCall     == [op |-> "none", status |-> "none"]

Calls(op, t) == [op |-> op, topic |-> t, status |-> "sent"]

(* Weak::upgrade on a guard succeeds while somebody holds a strong reference. *)
Holders(g)  == {c \in Clients : held[c] = g}
Upgrades(g) == Holders(g) # {}

(* tcpros::are_fields_compatible, on all three fields at once. *)
Compatible(a, b) == a = b \/ AnySpec \in {a, b}

Registered == {registry[t] : t \in Topics} \ {None}

(* Arc::new takes an allocation that nothing refers to; which one, nobody    *)
(* can tell.                                                                 *)
Unused == {g \in Guards : ~Upgrades(g)} \ (Registered \cup draining \cup dropping)
Allocated(g) == g = CHOOSE h \in Unused : TRUE

Running == pc \notin {"stopped", "failed"}

(* Fault: cleanup_publication does not disarm the guard. *)
DisarmedNever(g) == armed

(* After cleanup_publication's upgrade-and-disarm of guard g. *)
Disarmed(g) == IF Upgrades(g) THEN [armed EXCEPT ![g] = FALSE] ELSE armed

(* The callers whose reply ports the mailbox and the current job own: when   *)
(* these are dropped with the actor, their calls return an error.            *)
Callers == {c \in Clients : client[c] \in {"waiting", "cancelled"}}
Released == [c \in Clients |-> IF c \in Callers THEN "idle" ELSE client[c]]
-----------------------------------------------------------------------------
Init ==
    /\ pc = "idle" /\ job = NoJob /\ rpc = NoCall
    /\ stopping = FALSE /\ draining = {}
    /\ mailbox = <<>>
    /\ registry = [t \in Topics |-> None]
    /\ topicOf = [g \in Guards |-> None]
    /\ specOf = [g \in Guards |-> None]
    /\ armed = [g \in Guards |-> TRUE]
    /\ dropping = {}
    /\ client = [c \in Clients |-> "idle"]
    /\ held = [c \in Clients |-> None]
    /\ master = {}

-----------------------------------------------------------------------------
(* User tasks.                                                              *)

(* call!(pub_actor, ...): enqueue the message and wait on the reply port. *)
Call(c, m) ==
    /\ Running
    /\ client[c] = "idle" /\ held[c] = None
    /\ client' = [client EXCEPT ![c] = "waiting"]
    /\ mailbox' = Append(mailbox, m)
    /\ UNCHANGED <<actorVars, stopping, guardVars, dropping, held, master>>

CallRegister(c) ==
    /\ "register" \in Requests
    /\ \E t \in Topics, s \in Specs, q \in QueueSizes :
          /\ <<s, q>> \in Offers
          /\ Call(c, [kind |-> "register", topic |-> t, spec |-> s,
                      queue |-> q, from |-> c])

CallQuery(c) ==
    \E k \in Requests \cap {"query", "unregister"}, t \in Topics :
        Call(c, [kind |-> k, topic |-> t, from |-> c])

(* The caller's future is dropped before the reply: its port is closed. *)
Cancel(c) ==
    /\ MayCancel
    /\ client[c] = "waiting"
    /\ client' = [client EXCEPT ![c] = "cancelled"]
    /\ UNCHANGED <<actorVars, stopping, guardVars, mailbox, dropping, held, master>>

(* Publisher::clone. *)
CloneHandle(c, d) ==
    /\ held[c] # None
    /\ client[d] = "idle" /\ held[d] = None
    /\ held' = [held EXCEPT ![d] = held[c]]
    /\ UNCHANGED <<actorVars, stopping, guardVars, mailbox, dropping, client, master>>

(* A handle goes away; with the last one the guard can be upgraded no more. *)
DropHandle(c) ==
    /\ held[c] # None
    /\ held' = [held EXCEPT ![c] = None]
    /\ dropping' = IF Holders(held[c]) = {c} THEN dropping \cup {held[c]} ELSE dropping
    /\ UNCHANGED <<actorVars, stopping, guardVars, mailbox, client, master>>

(* Fault: the destructor tests the flag the wrong way round. *)
CastsInverted(g) == ~armed[g]

(* Drop for PublisherGuard: cast DropPublisher, unless disarmed. *)
Casts(g) == armed[g]

DropGuard(g) ==
    /\ g \in dropping
    /\ dropping' = dropping \ {g}
    /\ mailbox' = IF Casts(g) /\ Running
                  THEN Append(mailbox, [kind |-> "drop", topic |-> topicOf[g]])
                  ELSE mailbox
    /\ armed' = [armed EXCEPT ![g] = TRUE]     \* the flag goes with the guard
    /\ UNCHANGED <<actorVars, stopping, topicOf, specOf, userVars, master>>

-----------------------------------------------------------------------------
(* The master, and the two calls the actor makes to it.  A failed call may  *)
(* have taken effect, its response being lost.                              *)

Answered(status) == [op |-> rpc.op, topic |-> rpc.topic, status |-> status]

MasterEffect ==
    IF rpc.op = "register" THEN master \cup {rpc.topic} ELSE master \ {rpc.topic}

MasterAnswers ==
    /\ rpc.status = "sent"
    /\ \/ master' = MasterEffect /\ rpc' = Answered("ok")
       \/ /\ MayFail
          /\ master' \in {master, MasterEffect}
          /\ rpc' = Answered("err")
    /\ UNCHANGED <<pc, job, draining, registry, stopping, guardVars, mailbox,
                   dropping, userVars>>

-----------------------------------------------------------------------------
(* Fault: a failed clean-up is not got past. *)
ReturnedOk == rpc.status = "ok"

(* unregister_publisher has returned; all its callers go on after an error. *)
Returned == rpc.status \in {"ok", "err"}

(* Fault: the master's refusal is not looked at. *)
AcceptedAnyway == rpc.status \in {"ok", "err"}

(* register_publisher(...).await? has returned a value. *)
Accepted == rpc.status = "ok"

-----------------------------------------------------------------------------
(* The actor.  A handler ends by going back to the loop, or by an error.    *)

Idle == pc' = "idle" /\ job' = NoJob /\ rpc' = NoCall

(* An error or a panic in a handler: the runtime ends the actor without      *)
(* post_stop, so its mailbox and its registry are dropped and nothing is     *)
(* unregistered.                                                             *)
Fail ==
    /\ pc' = "failed" /\ job' = NoJob /\ rpc' = NoCall
    /\ registry' = [t \in Topics |-> None]
    /\ mailbox' = <<>>
    /\ client' = Released

(* reply.send(...)? for a result that carries no handle. *)
Reply(c) ==
    IF client[c] = "cancelled"
    THEN Fail
    ELSE /\ Idle
         /\ client' = [client EXCEPT ![c] = "idle"]
         /\ UNCHANGED <<registry, mailbox>>

Receive ==
    /\ pc = "idle" /\ ~stopping /\ mailbox # <<>>
    /\ pc' = "handle"
    /\ job' = Head(mailbox)
    /\ mailbox' = Tail(mailbox)
    /\ UNCHANGED <<rpc, draining, registry, stopping, guardVars, dropping, userVars, master>>

(* GetPublications, GetPublisherAddress, GetConnectedSubscriberIDs. *)
AnswerQuery ==
    /\ pc = "handle" /\ job.kind = "query"
    /\ Reply(job.from)
    /\ UNCHANGED <<draining, stopping, guardVars, dropping, held, master>>

(* validate_compatibility of the request with the existing publication. *)
Validated(m, g) == Compatible(m.spec, specOf[g])

(* register_publisher, the topic has a publication with a live guard. *)
RegisterExisting ==
    /\ pc = "handle" /\ job.kind = "register"
    /\ LET g == registry[job.topic]
           c == job.from
       IN /\ g # None /\ Upgrades(g)
          /\ held' = IF Validated(job, g) /\ client[c] = "waiting"
                     THEN [held EXCEPT ![c] = g] ELSE held
          /\ Reply(c)
    /\ UNCHANGED <<draining, stopping, guardVars, dropping, master>>

(* register_publisher, the guard is gone: "Stale publication found". *)
RegisterStale ==
    /\ pc = "handle" /\ job.kind = "register"
    /\ LET g == registry[job.topic] IN g # None /\ ~Upgrades(g)
    /\ registry' = [registry EXCEPT ![job.topic] = None]
    /\ rpc' = Calls("unregister", job.topic)
    /\ pc' = "stale"
    /\ UNCHANGED <<job, draining, stopping, guardVars, mailbox, dropping, userVars, master>>

(* A failure to clean the stale publication up is only logged. *)
StaleCleaned ==
    /\ pc = "stale" /\ Returned
    /\ rpc' = NoCall
    /\ pc' = "handle"
    /\ UNCHANGED <<job, draining, registry, stopping, guardVars, mailbox, dropping,
                   userVars, master>>

(* Publication::new succeeds; register at the master. *)
CreatePublication ==
    /\ pc = "handle" /\ job.kind = "register"
    /\ registry[job.topic] = None
    /\ job.queue > 0
    /\ rpc' = Calls("register", job.topic)
    /\ pc' = "register"
    /\ UNCHANGED <<job, draining, registry, stopping, guardVars, mailbox, dropping,
                   userVars, master>>

(* Publication::new cannot bind its listener. *)
CreateFails ==
    /\ MayFail
    /\ pc = "handle" /\ job.kind = "register"
    /\ registry[job.topic] = None
    /\ job.queue > 0
    /\ Reply(job.from)
    /\ UNCHANGED <<draining, stopping, guardVars, dropping, held, master>>

(* Publication::new calls broadcast::channel(0), which panics. *)
CreatePanics ==
    /\ pc = "handle" /\ job.kind = "register"
    /\ registry[job.topic] = None
    /\ job.queue = 0
    /\ Fail
    /\ UNCHANGED <<draining, stopping, guardVars, dropping, held, master>>

(* Fault: the guard starts disarmed. *)
StartsDisarmed == FALSE

(* PublisherGuard::new. *)
StartsArmed == TRUE

(* The master has accepted: allocate the guard, insert, reply with a handle. *)
FinishRegister(g) ==
    /\ pc = "register" /\ Accepted
    /\ g \in Unused /\ Allocated(g)
    /\ topicOf' = [topicOf EXCEPT ![g] = job.topic]
    /\ specOf' = [specOf EXCEPT ![g] = job.spec]
    /\ armed' = [armed EXCEPT ![g] = StartsArmed]
    /\ IF client[job.from] = "cancelled"
       THEN Fail /\ UNCHANGED held
       ELSE /\ Idle
            /\ registry' = [registry EXCEPT ![job.topic] = g]
            /\ held' = [held EXCEPT ![job.from] = g]
            /\ client' = [client EXCEPT ![job.from] = "idle"]
            /\ UNCHANGED mailbox
    /\ UNCHANGED <<draining, stopping, dropping, master>>

(* The master has refused: the new publication is dropped, the error returned. *)
RegisterRefused ==
    /\ pc = "register" /\ rpc.status = "err"
    /\ Reply(job.from)
    /\ UNCHANGED <<draining, stopping, guardVars, dropping, held, master>>

(* unregister_publisher, for DropPublisher and UnregisterPublisher alike:    *)
(* the entry goes first, whichever publication it is, then the master.       *)
Unregister ==
    /\ pc = "handle" /\ job.kind \in {"drop", "unregister"}
    /\ LET g == registry[job.topic]
       IN /\ g # None
          /\ armed' = Disarmed(g)
    /\ registry' = [registry EXCEPT ![job.topic] = None]
    /\ rpc' = Calls("unregister", job.topic)
    /\ pc' = "unregister"
    /\ UNCHANGED <<job, draining, stopping, topicOf, specOf, mailbox, dropping,
                   userVars, master>>

(* DropPublisher logs a failure, UnregisterPublisher replies with it. *)
EndOfUnregister ==
    IF job.kind = "drop"
    THEN Idle /\ UNCHANGED <<registry, mailbox, client>>
    ELSE Reply(job.from)

UnregisterAbsent ==
    /\ pc = "handle" /\ job.kind \in {"drop", "unregister"}
    /\ registry[job.topic] = None
    /\ EndOfUnregister
    /\ UNCHANGED <<draining, stopping, guardVars, dropping, held, master>>

FinishUnregister ==
    /\ pc = "unregister" /\ Returned
    /\ EndOfUnregister
    /\ UNCHANGED <<draining, stopping, guardVars, dropping, held, master>>

-----------------------------------------------------------------------------
(* Stopping: the node calls stop_and_wait; the actor's loop looks for it     *)
(* before it looks at the mailbox.                                           *)

RequestStop ==
    /\ ~stopping
    /\ stopping' = TRUE
    /\ UNCHANGED <<actorVars, guardVars, mailbox, dropping, userVars, master>>

(* Fault: only publications that still have a handle are cleaned up. *)
TakenIfLive == {g \in Registered : Upgrades(g)}

(* The publications post_stop takes and will clean up. *)
Taken == Registered

(* post_stop: mem::take of the registry. *)
BeginPostStop ==
    /\ pc = "idle" /\ stopping
    /\ pc' = "post_stop"
    /\ draining' = Taken
    /\ registry' = [t \in Topics |-> None]
    /\ UNCHANGED <<job, rpc, stopping, guardVars, mailbox, dropping, userVars, master>>

(* cleanup_publication of the next publication taken. *)
PostStopCleanup(g) ==
    /\ pc = "post_stop" /\ rpc = NoCall
    /\ g \in draining
    /\ draining' = draining \ {g}
    /\ armed' = Disarmed(g)
    /\ rpc' = Calls("unregister", topicOf[g])
    /\ UNCHANGED <<pc, job, registry, stopping, topicOf, specOf, mailbox, dropping,
                   userVars, master>>

PostStopCleaned ==
    /\ pc = "post_stop" /\ Returned
    /\ rpc' = NoCall
    /\ UNCHANGED <<pc, job, draining, registry, stopping, guardVars, mailbox, dropping,
                   userVars, master>>

(* The actor is gone; what is left in its mailbox is dropped. *)
Stopped ==
    /\ pc = "post_stop" /\ rpc = NoCall /\ draining = {}
    /\ pc' = "stopped"
    /\ mailbox' = <<>>
    /\ client' = Released
    /\ UNCHANGED <<job, rpc, draining, registry, stopping, guardVars, dropping, held, master>>

(* Calls to an actor that is gone return an error at once. *)
CallAfterEnd == ~Running /\ UNCHANGED vars

-----------------------------------------------------------------------------
Actor ==
    \/ Receive \/ AnswerQuery
    \/ RegisterExisting \/ RegisterStale \/ StaleCleaned
    \/ CreatePublication \/ CreateFails \/ CreatePanics
    \/ \E g \in Guards : FinishRegister(g)
    \/ RegisterRefused
    \/ Unregister \/ UnregisterAbsent \/ FinishUnregister
    \/ BeginPostStop \/ PostStopCleaned \/ Stopped
    \/ \E g \in Guards : PostStopCleanup(g)

User ==
    \/ \E c \in Clients : CallRegister(c) \/ CallQuery(c) \/ Cancel(c) \/ DropHandle(c)
    \/ \E c, d \in Clients : CloneHandle(c, d)

Next ==
    \/ Actor \/ MasterAnswers \/ User
    \/ \E g \in Guards : DropGuard(g)
    \/ RequestStop \/ CallAfterEnd

Spec == Init /\ [][Next]_vars

(* The runtime polls the actor and runs destructors, and the master answers. *)
(* Nothing obliges a user task to call, cancel, clone or drop.               *)
Fairness ==
    /\ WF_vars(Actor)
    /\ WF_vars(MasterAnswers)
    /\ \A g \in Guards : WF_vars(DropGuard(g))

FairSpec == Spec /\ Fairness
-----------------------------------------------------------------------------
(* Every variable has its type; guards mentioned anywhere were allocated     *)
(* with a topic and a specification (PublisherActorState, PublisherGuard).   *)
TypeOK ==
    /\ pc \in {"idle", "handle", "stale", "register", "unregister",
               "post_stop", "stopped", "failed"}
    /\ job \in Message \cup {NoJob}
    /\ rpc \in MasterCall \cup {NoCall}
    /\ stopping \in BOOLEAN
    /\ draining \in SUBSET Guards
    /\ mailbox \in Seq(Message)
    /\ registry \in [Topics -> Guards \cup {None}]
    /\ topicOf \in [Guards -> Topics \cup {None}]
    /\ specOf \in [Guards -> Specs \cup {None}]
    /\ armed \in [Guards -> BOOLEAN]
    /\ dropping \in SUBSET Guards
    /\ client \in [Clients -> {"idle", "waiting", "cancelled"}]
    /\ held \in [Clients -> Guards \cup {None}]
    /\ master \in SUBSET Topics

(* A publication is in the registry only while the master lists the node as  *)
(* a publisher of its topic: inserted after register_publisher has succeeded *)
(* (publisher.rs:273-285), removed before it is undone (294-297).            *)
RegistryBacked == \A t \in Topics : registry[t] # None => t \in master

(* The registry and the master's listing, seen together, do what Registrar   *)
(* promises, whatever calls fail and whenever the node stops.                *)
Reg == INSTANCE Registrar WITH
          Keys <- Topics, Entries <- Guards, entry <- registry, listed <- master

RegistrarSpec == Reg!Spec

(* The master's listing of t is accounted for: by a publication, by a call   *)
(* about t that is in progress, or by the shutdown that is about to undo it. *)
Accounted(t) == \/ registry[t] # None
                \/ rpc # NoCall /\ rpc.topic = t
                \/ \E g \in draining : topicOf[g] = t

(* The master is left with a topic that has no publication, to which it will *)
(* send subscribers, only after a call to it has failed or a handler of the  *)
(* actor has: neither a drop, nor a stale entry, nor a refused registration, *)
(* nor the shutdown forgets to unregister (170-187, 254-261, 293-304).       *)
StrandedOnlyByFailure ==
    [][\A t \in Topics :
         (t \in master => Accounted(t)) /\ ~(t \in master => Accounted(t))'
             => rpc.status = "err" \/ pc' = "failed"]_vars

DropPending(t) ==
    \/ job.kind = "drop" /\ job.topic = t
    \/ \E i \in 1..Len(mailbox) : mailbox[i].kind = "drop" /\ mailbox[i].topic = t

(* A publication whose last handle is gone is never forgotten: its armed     *)
(* guard is about to cast DropPublisher, or that message is on its way; and  *)
(* everything has its type.                                                  *)
OrphansPending ==
    Running => \A t \in Topics :
        LET g == registry[t] IN
        g # None /\ ~Upgrades(g) => (g \in dropping /\ armed[g]) \/ DropPending(t)

NoOrphan == TypeOK /\ OrphansPending

(* The guard of a handle in use is armed exactly as long as its publication  *)
(* is the registered one: a handle whose publication has been removed will   *)
(* not cast a DropPublisher that would hit a successor (disarm, 179-181).    *)
DisarmedIffRemoved ==
    Running => \A c \in Clients :
        LET g == held[c] IN
        g # None => (armed[g] <=> registry[topicOf[g]] = g \/ g \in draining)

(* A publication none of whose handles is left is eventually removed.        *)
OrphanRemoved ==
    \A t \in Topics :
        (registry[t] # None /\ ~Upgrades(registry[t])) ~> (registry[t] = None)

(* Every request ends: a call by a reply, by giving up, or because the actor *)
(* is gone; a stop with the end of the actor, however many handles are held. *)
RequestsEnd ==
    /\ \A c \in Clients : (client[c] = "waiting") ~> (client[c] # "waiting")
    /\ stopping ~> ~Running

(* lib.rs:49-51: a publication is cleaned up and unregistered only once all  *)
(* its handles have been dropped.                                            *)
HandleKeepsPublication ==
    pc \notin {"post_stop", "stopped", "failed"} =>
        \A c \in Clients : held[c] # None => registry[topicOf[held[c]]] = held[c]
=============================================================================
