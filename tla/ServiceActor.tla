----------------------------- MODULE ServiceActor -----------------------------
(***************************************************************************)
(* The service actor of a node (node/actors/service.rs): its registries of *)
(* service servers and of service clients, the guards and handles that     *)
(* keep their entries, and the calls to the master for the servers.  What  *)
(* a client and a server do to one another is the module ServiceCall.      *)
(***************************************************************************)
EXTENDS Sequences, FiniteSets, Naturals

CONSTANTS
    Services,   \* service names
    Clients,    \* user tasks: each has one call outstanding or one handle
    Guards,     \* identities of guard allocations, reused once freed
    MayFail,    \* whether master calls, binds and the making of links may fail
    Wants,      \* who asks for what: pairs of a client and a key
    MayCancel,  \* whether a caller may give up on a call
    None        \* no guard, no key

ASSUME ServiceAssumption ==
    /\ None \notin Guards \cup ({"server", "client"} \X Services)
    /\ Wants \subseteq Clients \X ({"server", "client"} \X Services)
    /\ {MayFail, MayCancel} \subseteq BOOLEAN

VARIABLES
    pc,         \* where the actor's loop is
    job,        \* the message being handled, or NoJob
    rpc,        \* the master call being awaited, or NoCall
    making,     \* the guard a registration has made and not yet handed out
    stopping,   \* the node has asked the actor to stop
    draining,   \* guard and service of each server post_stop has yet to clean up
    mailbox,    \* messages not yet received
    registry,   \* state.servers and state.clients: the guard of each entry
    keyOf,      \* the kind of a guard, and its service_name
    armed,      \* guard.armed
    dropping,   \* guards whose last reference is gone and whose Drop has not run
    client,     \* what each user task is doing
    held,       \* the guard each user task holds a strong reference to
    master      \* services the master lists this node as the provider of

loopVars  == <<pc, job, rpc, making, draining, registry>>
guardVars == <<keyOf, armed>>
userVars  == <<client, held>>
vars == <<loopVars, stopping, mailbox, guardVars, dropping, userVars, master>>

-----------------------------------------------------------------------------
(* The two registries, seen as one. *)
Keys == {"server", "client"} \X Services
IsServer(k) == k[1] = "server"

Message == [kind: {"register"}, key: Keys, from: Clients] \cup [kind: {"drop"}, key: Keys]
NoJob   == [kind |-> "none"]

MasterCall == [op: {"register", "unregister"}, service: Services,
               status: {"sent", "ok", "err"}]
NoCall     == [op |-> "none", status |-> "none"]

Calls(op, k) == [op |-> op, service |-> k[2], status |-> "sent"]

Holders(g)  == {c \in Clients : held[c] = g}
Upgrades(g) == Holders(g) # {} \/ making = g    \* Weak::upgrade

Registered == {registry[k] : k \in Keys} \ {None}
Drained    == {d[1] : d \in draining}

Unused == {g \in Guards : ~Upgrades(g)} \ (Registered \cup Drained \cup dropping)

(* Arc::new(..Guard::new(..)); which allocation it takes, nobody can tell. *)
MakeGuard(g, k) ==
    /\ g \in Unused /\ g = CHOOSE h \in Unused : TRUE
    /\ keyOf' = [keyOf EXCEPT ![g] = k]
    /\ armed' = [armed EXCEPT ![g] = TRUE]

(* What a guard holds goes with it. *)
FreeGuard(g) ==
    /\ keyOf' = [keyOf EXCEPT ![g] = None]
    /\ armed' = [armed EXCEPT ![g] = TRUE]

Running == pc \notin {"stopped", "failed"}

(* Callers get an error when the actor that has their reply port goes. *)
Released == [c \in Clients |-> "idle"]

DropMsg(g) == [kind |-> "drop", key |-> keyOf[g]]

-----------------------------------------------------------------------------
Init ==
    /\ pc = "idle" /\ job = NoJob /\ rpc = NoCall /\ making = None
    /\ stopping = FALSE /\ draining = {} /\ mailbox = <<>>
    /\ registry = [k \in Keys |-> None]
    /\ keyOf = [g \in Guards |-> None] /\ armed = [g \in Guards |-> TRUE]
    /\ dropping = {}
    /\ client = [c \in Clients |-> "idle"] /\ held = [c \in Clients |-> None]
    /\ master = {}

-----------------------------------------------------------------------------
(* User tasks: Node::service_client, Node::advertise_service, and handles.  *)

Call(c, k) ==
    /\ <<c, k>> \in Wants
    /\ Running /\ client[c] = "idle" /\ held[c] = None
    /\ client' = [client EXCEPT ![c] = "waiting"]
    /\ mailbox' = Append(mailbox, [kind |-> "register", key |-> k, from |-> c])
    /\ UNCHANGED <<loopVars, stopping, guardVars, dropping, held, master>>

(* ServiceClient is Clone; ServiceServer is not. *)
CloneHandle(c, d) ==
    /\ held[c] # None /\ ~IsServer(keyOf[held[c]])
    /\ client[d] = "idle" /\ held[d] = None
    /\ held' = [held EXCEPT ![d] = held[c]]
    /\ UNCHANGED <<loopVars, stopping, mailbox, guardVars, dropping, client, master>>

DropHandle(c) ==
    /\ held[c] # None
    /\ held' = [held EXCEPT ![c] = None]
    /\ dropping' = IF Holders(held[c]) = {c} THEN dropping \cup {held[c]} ELSE dropping
    /\ UNCHANGED <<loopVars, stopping, mailbox, guardVars, client, master>>

Casts(g) == armed[g]

(* Drop for the two guards: cast DropService or DropClient, unless disarmed. *)
DropGuard(g) ==
    /\ g \in dropping
    /\ dropping' = dropping \ {g}
    /\ mailbox' = IF Casts(g) /\ Running THEN Append(mailbox, DropMsg(g)) ELSE mailbox
    /\ FreeGuard(g)
    /\ UNCHANGED <<loopVars, stopping, userVars, master>>

-----------------------------------------------------------------------------
(* The master: one provider for each service, the last to register.  A call *)
(* that fails may have taken effect.                                         *)

MasterEffect ==
    IF rpc.op = "register" THEN master \cup {rpc.service} ELSE master \ {rpc.service}

MasterAnswers ==
    /\ rpc.status = "sent"
    /\ \/ master' = MasterEffect /\ rpc' = [rpc EXCEPT !.status = "ok"]
       \/ /\ MayFail
          /\ master' \in {master, MasterEffect}
          /\ rpc' = [rpc EXCEPT !.status = "err"]
    /\ UNCHANGED <<pc, job, making, draining, registry, stopping, mailbox, guardVars, dropping,
                   userVars>>

(* Fault: a call to the master that failed is made again until it succeeds. *)
ReturnedOk == rpc.status = "ok"

Returned == rpc.status \in {"ok", "err"}

(* Fault: the master's refusal is not looked at. *)
AcceptedAnyway == Returned

Accepted == rpc.status = "ok"

-----------------------------------------------------------------------------
(* The actor.                                                                *)

Idle == pc' = "idle" /\ job' = NoJob /\ rpc' = NoCall /\ making' = None

(* An error in a handler ends the actor without post_stop. *)
Fail ==
    /\ pc' = "failed" /\ job' = NoJob /\ rpc' = NoCall /\ making' = None
    /\ registry' = [k \in Keys |-> None]
    /\ mailbox' = <<>>
    /\ client' = Released

(* reply.send(error)?: the caller may have given up, its port being closed. *)
ReplyError ==
    /\ \/ /\ Idle
          /\ client' = [client EXCEPT ![job.from] = "idle"]
          /\ UNCHANGED <<registry, mailbox>>
       \/ MayCancel /\ Fail
    /\ UNCHANGED held

(* reply.send(handle)?, the entry of guard g having been made if it is new. *)
ReplyHandle(g) ==
    \/ /\ Idle
       /\ registry' = [registry EXCEPT ![job.key] = g]
       /\ held' = [held EXCEPT ![job.from] = g]
       /\ client' = [client EXCEPT ![job.from] = "idle"]
       /\ UNCHANGED mailbox
    \/ MayCancel /\ Fail /\ UNCHANGED held

Receive ==
    /\ pc = "idle" /\ ~stopping /\ mailbox # <<>>
    /\ pc' = "handle" /\ job' = Head(mailbox) /\ mailbox' = Tail(mailbox)
    /\ UNCHANGED <<rpc, making, draining, registry, stopping, guardVars, dropping, userVars,
                   master>>

Registers == pc = "handle" /\ job.kind = "register"
Existing  == registry[job.key]

(* An entry with a live guard: a further handle, if the types fit. *)
RegisterExisting ==
    /\ Registers /\ Existing # None /\ Upgrades(Existing)
    /\ ReplyHandle(Existing) \/ ReplyError
    /\ UNCHANGED <<draining, stopping, guardVars, dropping, master>>

(* "Stale service server (client) found in registry": only removed. *)
RegisterStale ==
    /\ Registers /\ Existing # None /\ ~Upgrades(Existing)
    /\ registry' = [registry EXCEPT ![job.key] = None]
    /\ UNCHANGED <<pc, job, rpc, making, draining, stopping, mailbox, guardVars, dropping,
                   userVars, master>>

(* The link is made, its guard, the entry and a handle: no await in between. *)
FinishClient(g) ==
    /\ Registers /\ Existing = None /\ ~IsServer(job.key)
    /\ MakeGuard(g, job.key)
    /\ ReplyHandle(g)
    /\ UNCHANGED <<draining, stopping, dropping, master>>

(* The provider listens and the guard is made: register at the master. *)
CreateServer(g) ==
    /\ Registers /\ Existing = None /\ IsServer(job.key)
    /\ MakeGuard(g, job.key)
    /\ making' = g
    /\ rpc' = Calls("register", job.key) /\ pc' = "register"
    /\ UNCHANGED <<job, draining, registry, stopping, mailbox, dropping, userVars, master>>

(* ServiceClientLink::new or ServiceProvider::new has failed. *)
CreateFails ==
    /\ MayFail /\ Registers /\ Existing = None
    /\ ReplyError
    /\ UNCHANGED <<draining, stopping, guardVars, dropping, master>>

FinishServer ==
    /\ pc = "register" /\ Accepted
    /\ ReplyHandle(making)
    /\ UNCHANGED <<draining, stopping, guardVars, dropping, master>>

(* The guard made before the call is dropped on the way out, armed: it casts *)
(* DropService to its own actor, then the error is replied.                  *)
RegisterRefused ==
    /\ pc = "register" /\ rpc.status = "err"
    /\ \/ /\ Idle
          /\ client' = [client EXCEPT ![job.from] = "idle"]
          /\ mailbox' = IF Casts(making) THEN Append(mailbox, DropMsg(making)) ELSE mailbox
          /\ UNCHANGED registry
       \/ MayCancel /\ Fail
    /\ FreeGuard(making)
    /\ UNCHANGED <<draining, stopping, dropping, held, master>>

(* unregister_client: the entry goes, whichever it is, its guard unchanged. *)
UnregisterClient ==
    /\ pc = "handle" /\ job.kind = "drop" /\ ~IsServer(job.key)
    /\ registry' = [registry EXCEPT ![job.key] = None]
    /\ Idle
    /\ UNCHANGED <<draining, stopping, mailbox, guardVars, dropping, userVars, master>>

(* Fault: the guard of a server that is removed is not disarmed. *)
DisarmedNever(gs) == armed

(* After upgrade-and-disarm of the guards gs. *)
Disarmed(gs) == [g \in Guards |-> armed[g] /\ ~(g \in gs /\ Upgrades(g))]

(* unregister_service: the entry first, then the guard, then the master. *)
UnregisterService ==
    /\ pc = "handle" /\ job.kind = "drop" /\ IsServer(job.key) /\ Existing # None
    /\ registry' = [registry EXCEPT ![job.key] = None]
    /\ armed' = Disarmed({Existing})
    /\ rpc' = Calls("unregister", job.key) /\ pc' = "unregister"
    /\ UNCHANGED <<job, making, draining, stopping, mailbox, keyOf, dropping, userVars, master>>

FinishUnregister ==
    /\ \/ pc = "unregister" /\ Returned
       \/ pc = "handle" /\ job.kind = "drop" /\ IsServer(job.key) /\ Existing = None
    /\ Idle
    /\ UNCHANGED <<draining, registry, stopping, mailbox, guardVars, dropping, userVars, master>>

RequestStop ==
    /\ ~stopping
    /\ stopping' = TRUE
    /\ UNCHANGED <<loopVars, mailbox, guardVars, dropping, userVars, master>>

(* Fault: only servers that still have a handle are cleaned up. *)
TakenIfLive == {<<registry[<<"server", s>>], s>> : s \in
                   {s \in Services : registry[<<"server", s>>] # None
                                      /\ Upgrades(registry[<<"server", s>>])}}

(* The servers post_stop takes and cleans up. *)
Taken == {<<registry[<<"server", s>>], s>> : s \in
             {s \in Services : registry[<<"server", s>>] # None}}

BeginPostStop ==
    /\ pc = "idle" /\ stopping
    /\ pc' = "post_stop"
    /\ draining' = Taken
    /\ registry' = [k \in Keys |-> IF IsServer(k) THEN None ELSE registry[k]]
    /\ UNCHANGED <<job, rpc, making, stopping, mailbox, guardVars, dropping, userVars, master>>

(* cleanup_server *)
PostStopCleanup(d) ==
    /\ pc = "post_stop" /\ rpc = NoCall
    /\ draining' = draining \ {d}
    /\ armed' = Disarmed({d[1]})
    /\ rpc' = Calls("unregister", <<"server", d[2]>>)
    /\ UNCHANGED <<pc, job, making, registry, stopping, mailbox, keyOf, dropping, userVars, master>>

PostStopCleaned ==
    /\ pc = "post_stop" /\ Returned
    /\ rpc' = NoCall
    /\ UNCHANGED <<pc, job, making, draining, registry, stopping, mailbox, guardVars, dropping,
                   userVars, master>>

(* The clients come last, and are disarmed without an await. *)
Stopped ==
    /\ pc = "post_stop" /\ rpc = NoCall /\ draining = {}
    /\ pc' = "stopped"
    /\ armed' = Disarmed(Registered)
    /\ registry' = [k \in Keys |-> None]
    /\ mailbox' = <<>> /\ client' = Released
    /\ UNCHANGED <<job, rpc, making, draining, stopping, keyOf, dropping, held, master>>

CallAfterEnd == ~Running /\ UNCHANGED vars

-----------------------------------------------------------------------------
Actor ==
    \/ Receive \/ RegisterExisting \/ RegisterStale
    \/ \E g \in Guards : FinishClient(g) \/ CreateServer(g)
    \/ \E d \in draining : PostStopCleanup(d)
    \/ CreateFails \/ FinishServer \/ RegisterRefused
    \/ UnregisterClient \/ UnregisterService \/ FinishUnregister
    \/ BeginPostStop \/ PostStopCleaned \/ Stopped

User ==
    \/ \E c \in Clients : DropHandle(c) \/ \E k \in Keys : Call(c, k)
    \/ \E c, d \in Clients : CloneHandle(c, d)

Next ==
    \/ Actor \/ MasterAnswers \/ User
    \/ \E g \in Guards : DropGuard(g)
    \/ RequestStop \/ CallAfterEnd

Spec == Init /\ [][Next]_vars

(* The runtime polls the actor and runs destructors, and the master answers. *)
Fairness ==
    /\ WF_vars(Actor)
    /\ WF_vars(MasterAnswers)
    /\ \A g \in Guards : WF_vars(DropGuard(g))

FairSpec == Spec /\ Fairness

-----------------------------------------------------------------------------
TypeOK ==
    /\ pc \in {"idle", "handle", "register", "unregister", "post_stop", "stopped", "failed"}
    /\ job \in Message \cup {NoJob} /\ rpc \in MasterCall \cup {NoCall}
    /\ making \in Guards \cup {None}
    /\ stopping \in BOOLEAN /\ draining \in SUBSET (Guards \X Services)
    /\ mailbox \in Seq(Message)
    /\ registry \in [Keys -> Guards \cup {None}]
    /\ keyOf \in [Guards -> Keys \cup {None}] /\ armed \in [Guards -> BOOLEAN]
    /\ dropping \in SUBSET Guards
    /\ client \in [Clients -> {"idle", "waiting"}]
    /\ held \in [Clients -> Guards \cup {None}]
    /\ master \in SUBSET Services

(* The servers and the master's listing, seen together, do what Registrar    *)
(* promises (281-288, 300-308), although a stale server is not unregistered. *)
Reg == INSTANCE Registrar WITH
          Keys <- Services, Entries <- Guards, listed <- master,
          entry <- [s \in Services |-> registry[<<"server", s>>]]

RegistrarSpec == Reg!Spec

DropPending(k) ==
    \/ job.kind = "drop" /\ job.key = k
    \/ \E i \in 1..Len(mailbox) : mailbox[i].kind = "drop" /\ mailbox[i].key = k

(* An entry whose last handle is gone is never forgotten: its guard will     *)
(* cast the drop, or that is on its way.  While a server's handle is held    *)
(* its guard is armed exactly as long as its entry is the registered one     *)
(* (301-303); a client's is not disarmed before the actor stops (230-233).   *)
GuardsTracked ==
    /\ TypeOK
    /\ Running => \A k \in Keys :
          LET g == registry[k] IN
          g # None /\ ~Upgrades(g) => (g \in dropping /\ armed[g]) \/ DropPending(k)
    /\ Running => \A c \in Clients :
          LET g == held[c] IN
          g # None => (armed[g] <=> \/ ~IsServer(keyOf[g])
                                    \/ registry[keyOf[g]] = g
                                    \/ g \in Drained)

(* The master's listing of s is accounted for: by a server, by a call about  *)
(* s, by the registration that has just removed a stale server, or by the    *)
(* shutdown that is about to undo it.                                        *)
Accounted(s) ==
    \/ registry[<<"server", s>>] # None
    \/ rpc # NoCall /\ rpc.service = s
    \/ Registers /\ job.key = <<"server", s>>
    \/ \E d \in draining : d[2] = s

(* The master is left with a service that has no server only when a call to  *)
(* it has failed, the actor has, or a server that was to take a stale one's  *)
(* place could not be made (262-276).                                        *)
StrandedOnlyByFailure ==
    [][\A s \in Services :
         (s \in master => Accounted(s)) /\ ~(s \in master => Accounted(s))'
             => rpc.status = "err" \/ pc' = "failed" \/ Registers]_vars

(* Every call ends, and so does the actor once asked to stop.                *)
RequestsEnd ==
    /\ \A c \in Clients : (client[c] = "waiting") ~> (client[c] # "waiting")
    /\ stopping ~> ~Running
=============================================================================
