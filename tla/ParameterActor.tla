---------------------------- MODULE ParameterActor ----------------------------
(***************************************************************************)
(* The parameter actor of a node (node/actors/parameter.rs): its cache of  *)
(* parameters, its subscriptions to their updates, the parameter server,   *)
(* which holds a tree, and the paramUpdate calls the server makes to the   *)
(* node's XML-RPC API (node/api/router.rs), which reach the actor through  *)
(* its mailbox.                                                            *)
(***************************************************************************)
EXTENDS Naturals, Sequences, FiniteSets

CONSTANTS
    Params,         \* parameter names
    Below,          \* for each, the parameters in its namespace
    Values,         \* parameter values
    Empty,          \* the empty struct, a value the server also sends for "deleted"
    Absent,         \* no value
    Clients,        \* user tasks, each with at most one call outstanding
    Requests,       \* bound: sets of calls (of a kind, for a parameter) of which they make one
    Failing,        \* operations of the server that may fail
    NotifySelf,     \* whether the server may, or may not, notify the node of its own changes
    MayCancel,      \* whether callers may give up on a call (bound: one at a time)
    MaxChanges      \* bound: sets and deletes, the node's and the other nodes'

ServerOps == {"subscribe", "unsubscribe", "get", "set", "delete", "has", "read"}

ASSUME ParameterAssumption ==
    /\ Empty \in Values /\ Absent \notin Values
    /\ Below \in [Params -> SUBSET Params]
    /\ \A p \in Params : p \notin Below[p] /\ \A q \in Below[p] : Below[q] \subseteq Below[p]
    /\ Requests \subseteq SUBSET ({"cached", "set", "delete", "read"} \X Params)
    /\ Failing \subseteq ServerOps
    /\ NotifySelf \subseteq BOOLEAN /\ MayCancel \in BOOLEAN
    /\ MaxChanges \in Nat

VARIABLES
    pc,         \* where the actor's loop is
    job,        \* the message being handled, or NoJob
    rpc,        \* the call to the server being awaited, or NoCall
    stopping,   \* the node has asked the actor to stop, which precedes what is queued
    draining,   \* subscriptions that post_stop has yet to undo
    mailbox,    \* messages not yet received, that are to be
    cache,      \* param_cache
    subscribed, \* subscribed_params
    asks,       \* the calls that the user tasks make
    client,     \* what each user task is doing
    server,     \* the parameter server's contents
    listed,     \* parameters the server lists the node as a subscriber of
    updates,    \* paramUpdate calls on their way for each, in the order they were made
    changes,    \* number of sets and deletes so far
    doubtful,   \* parameters whose last subscribe or unsubscribe failed (history)
    unsettled   \* parameters whose last change the actor has no way to know of (history)

localVars  == <<cache, subscribed>>
heldVars   == <<asks, server, listed, updates, doubtful, unsettled>>
serverVars == <<heldVars, changes>>
vars == <<pc, job, rpc, stopping, draining, mailbox, cache, subscribed, client,
          serverVars>>

-----------------------------------------------------------------------------
Content == Values \cup {Absent}

CallMsg   == [kind: {"cached", "delete", "read"}, param: Params, from: Clients]
SetMsg    == [kind: {"set"}, param: Params, value: Values, from: Clients]
UpdateMsg == [kind: {"update"}, param: Params, value: Values]
Message   == CallMsg \cup SetMsg \cup UpdateMsg
NoJob     == [kind |-> "none"]

ServerCall == [op: ServerOps, param: Params, status: {"sent", "ok", "err"}, answer: Content]
NoCall     == [op |-> "none", status |-> "none"]

Calls(op, p) == [op |-> op, param |-> p, status |-> "sent", answer |-> Absent]
Succeeded == rpc.status = "ok"

(* Fault: an error of the server is not taken for an answer. *)
AnsweredIfOk == rpc.status = "ok"

Answered == rpc.status \in {"ok", "err"}

Running  == pc \notin {"stopped", "failed"}

Released == [c \in Clients |-> "idle"]

(* What is in a namespace is part of its value. *)
Tree(s) ==
    \A p \in Params : s[p] \in {Absent, Empty} => \A q \in Below[p] : s[q] = Absent

Init ==
    /\ pc = "idle" /\ job = NoJob /\ rpc = NoCall
    /\ stopping = FALSE /\ draining = {}
    /\ mailbox = <<>>
    /\ cache = [p \in Params |-> Absent]
    /\ subscribed = {}
    /\ asks \in Requests /\ client = [c \in Clients |-> "idle"]
    /\ server \in {s \in [Params -> Content] : Tree(s)}
    /\ listed = {} /\ updates = [p \in Params |-> <<>>] /\ changes = 0
    /\ doubtful = {} /\ unsettled = {}

-----------------------------------------------------------------------------
(* A message sent to the actor is received, unless it ends first. *)
Queued(m) == IF stopping \/ ~Running THEN mailbox ELSE Append(mailbox, m)

(* User tasks.                                                              *)

Call(c, m) ==
    /\ Running /\ client[c] = "idle"
    /\ client' = [client EXCEPT ![c] = "waiting"]
    /\ mailbox' = Queued(m)
    /\ IF m.kind \in {"set", "delete"}
       THEN changes < MaxChanges /\ changes' = changes + 1
       ELSE UNCHANGED changes
    /\ UNCHANGED <<pc, job, rpc, stopping, draining, localVars, heldVars>>

CallParam(c) ==
    \E r \in asks :
        /\ r[1] # "set"
        /\ Call(c, [kind |-> r[1], param |-> r[2], from |-> c])

CallSet(c) ==
    \E r \in asks, v \in Values :
        /\ r[1] = "set"
        /\ Call(c, [kind |-> "set", param |-> r[2], value |-> v, from |-> c])

Cancel(c) ==
    /\ MayCancel /\ client[c] = "waiting" /\ \A d \in Clients : client[d] # "cancelled"
    /\ client' = [client EXCEPT ![c] = "cancelled"]
    /\ UNCHANGED <<pc, job, rpc, stopping, draining, mailbox, localVars, serverVars>>

-----------------------------------------------------------------------------
(* The parameter server.                                                     *)

Above(q) == {p \in Params : q \in Below[p]}

(* Whose change a change of q announces to the node: a parameter it is      *)
(* listed for, by that name; and q by its own, when it is listed for a       *)
(* namespace that q is in.                                                   *)
Told(q) ==
    {p \in {q} \cup Below[q] : p \in listed} \cup {p \in {q} : Above(q) \cap listed # {}}

(* The content of q becomes v: that of what is below it changes with it,     *)
(* and that of the namespaces it is in.  Those in told are announced; what   *)
(* is neither announced nor in learnt is news that never comes.              *)
Changes(q, v, told, learnt) ==
    /\ \E s \in [Params -> Content] :
          /\ s[q] = v /\ Tree(s)
          /\ \A p \in Above(q) : s[p] # Absent
          /\ \A p \in Params \ ({q} \cup Below[q] \cup Above(q)) : s[p] = server[p]
          /\ server' = s
    /\ updates' = [p \in Params |->
                      IF p \notin told THEN updates[p]
                      ELSE Append(updates[p], IF server'[p] = Absent THEN Empty ELSE server'[p])]
    /\ unsettled' = (unsettled \cup (listed \cap ({q} \cup Below[q] \cup Above(q))))
                       \ (told \cup learnt)

(* Updates for p are still to be handled. *)
Ahead(p) ==
    \/ updates[p] # <<>>
    \/ \E i \in DOMAIN mailbox : mailbox[i].kind = "update" /\ mailbox[i].param = p

(* The server performs call r of the node, which is to get this answer.  A   *)
(* subscription is unsettled that begins with remains of an earlier one, and *)
(* an undecided update that no other follows.                                *)
Effect(r, status) ==
    \/ /\ r.op = "set"
       /\ \E notify \in NotifySelf :
             Changes(r.param, job.value, IF notify THEN Told(r.param) ELSE {},
                     IF status = "ok" /\ ~Ahead(r.param) THEN {r.param} ELSE {})
       /\ UNCHANGED listed
    \/ /\ r.op = "delete" /\ server[r.param] # Absent
       /\ \E notify \in NotifySelf :
             Changes(r.param, Absent, IF notify THEN Told(r.param) ELSE {}, {})
       /\ UNCHANGED listed
    \/ /\ r.op = "subscribe"
       /\ listed' = listed \cup {r.param}
       /\ unsettled' = IF Ahead(r.param) \/ cache[r.param] # Absent
                       THEN unsettled \cup {r.param} ELSE unsettled \ {r.param}
       /\ UNCHANGED <<server, updates>>
    \/ /\ r.op = "unsubscribe"
       /\ listed' = listed \ {r.param}
       /\ UNCHANGED <<server, updates, unsettled>>
    \/ /\ r.op = "has"
       /\ unsettled' = IF status = "err" /\ ~Ahead(r.param) THEN unsettled \cup {r.param}
                                                            ELSE unsettled
       /\ UNCHANGED <<server, listed, updates>>
    \/ /\ r.op \in {"get", "read"}
       /\ UNCHANGED <<server, listed, updates, unsettled>>

(* The call is performed and answered, or fails with or without effect; to   *)
(* delete a parameter that is not set is an error.                           *)
ServerAnswers ==
    /\ rpc.status = "sent"
    /\ \/ /\ Effect(rpc, "ok")
          /\ rpc' = [rpc EXCEPT !.status = "ok",
                                !.answer = IF rpc.op \in {"get", "has"}
                                           THEN server[rpc.param] ELSE @]
       \/ /\ rpc.op \in Failing \/ (rpc.op = "delete" /\ server[rpc.param] = Absent)
          /\ \/ Effect(rpc, "err")
             \/ rpc.op # "has" /\ UNCHANGED <<server, listed, updates, unsettled>>
          /\ rpc' = [rpc EXCEPT !.status = "err"]
    /\ doubtful' = IF rpc.op \notin {"subscribe", "unsubscribe"} THEN doubtful
                   ELSE IF rpc'.status = "ok" THEN doubtful \ {rpc.param}
                   ELSE doubtful \cup {rpc.param}
    /\ UNCHANGED <<pc, job, stopping, draining, mailbox, localVars, client, asks, changes>>

(* Another node sets or deletes a parameter. *)
OtherChanges(p, v) ==
    /\ changes < MaxChanges
    /\ v = Absent => server[p] # Absent
    /\ changes' = changes + 1
    /\ Changes(p, v, Told(p), {})
    /\ UNCHANGED <<pc, job, rpc, stopping, draining, mailbox, localVars, client, asks, listed,
                   doubtful>>

(* ParamUpdateHandler: the call arrives and is cast to the actor. *)
ParamUpdate(p) ==
    /\ updates[p] # <<>>
    /\ updates' = [updates EXCEPT ![p] = Tail(@)]
    /\ mailbox' = Queued([kind |-> "update", param |-> p, value |-> Head(updates[p])])
    /\ UNCHANGED <<pc, job, rpc, stopping, draining, localVars, client, asks, server, listed,
                   changes, doubtful, unsettled>>

-----------------------------------------------------------------------------
(* The actor.                                                                *)

Await(state, op) == pc' = state /\ rpc' = Calls(op, job.param)

Idle == pc' = "idle" /\ job' = NoJob /\ rpc' = NoCall

(* reply.send(...)?: a closed port ends the actor without post_stop. *)
Reply ==
    IF client[job.from] = "cancelled"
    THEN /\ pc' = "failed" /\ job' = NoJob /\ rpc' = NoCall
         /\ mailbox' = <<>>
         /\ client' = Released
    ELSE /\ Idle
         /\ client' = [client EXCEPT ![job.from] = "idle"]
         /\ UNCHANGED mailbox

Receive ==
    /\ pc = "idle" /\ mailbox # <<>>
    /\ pc' = "handle" /\ job' = Head(mailbox) /\ mailbox' = Tail(mailbox)
    /\ UNCHANGED <<rpc, stopping, draining, localVars, client, serverVars>>

(* get_param, param_exists, search_param, get_param_names. *)
Read ==
    /\ pc = "handle" /\ job.kind = "read"
    /\ Await("reading", "read")
    /\ UNCHANGED <<job, stopping, draining, mailbox, localVars, client, serverVars>>

ReadDone ==
    /\ pc = "reading" /\ Answered
    /\ Reply
    /\ UNCHANGED <<stopping, draining, localVars, serverVars>>

(* get_cached_param: subscribe first, if that has not been done. *)
Subscribe ==
    /\ pc = "handle" /\ job.kind = "cached" /\ job.param \notin subscribed
    /\ Await("subscribing", "subscribe")
    /\ UNCHANGED <<job, stopping, draining, mailbox, localVars, client, serverVars>>

(* Fault: the subscription is noted whether or not the server accepted it. *)
AcceptedAnyway == Answered

Accepted == Succeeded

Subscribed ==
    /\ pc = "subscribing" /\ Accepted
    /\ subscribed' = subscribed \cup {job.param}
    /\ pc' = "handle" /\ rpc' = NoCall
    /\ UNCHANGED <<job, stopping, draining, mailbox, cache, client, serverVars>>

SubscribeFails ==
    /\ pc = "subscribing" /\ Answered /\ ~Accepted
    /\ Reply
    /\ UNCHANGED <<stopping, draining, localVars, serverVars>>

CacheHit ==
    /\ pc = "handle" /\ job.kind = "cached" /\ job.param \in subscribed
    /\ cache[job.param] # Absent
    /\ Reply
    /\ UNCHANGED <<stopping, draining, localVars, serverVars>>

CacheMiss ==
    /\ pc = "handle" /\ job.kind = "cached" /\ job.param \in subscribed
    /\ cache[job.param] = Absent
    /\ Await("fetching", "get")
    /\ UNCHANGED <<job, stopping, draining, mailbox, localVars, client, serverVars>>

Fetched ==
    /\ pc = "fetching" /\ Answered
    /\ cache' = IF Succeeded THEN [cache EXCEPT ![job.param] = rpc.answer] ELSE cache
    /\ Reply
    /\ UNCHANGED <<stopping, draining, subscribed, serverVars>>

Set ==
    /\ pc = "handle" /\ job.kind = "set"
    /\ Await("setting", "set")
    /\ UNCHANGED <<job, stopping, draining, mailbox, localVars, client, serverVars>>

CachesSet == Succeeded /\ job.param \in subscribed

SetDone ==
    /\ pc = "setting" /\ Answered
    /\ cache' = IF CachesSet THEN [cache EXCEPT ![job.param] = job.value] ELSE cache
    /\ Reply
    /\ UNCHANGED <<stopping, draining, subscribed, serverVars>>

Unsubscribes == job.param \in subscribed

(* delete_param: unsubscribe, delete at the server, then clear the cache;    *)
(* the first failure ends it there.                                          *)
Unsubscribe ==
    /\ pc = "handle" /\ job.kind = "delete" /\ Unsubscribes
    /\ subscribed' = subscribed \ {job.param}
    /\ Await("unsubscribing", "unsubscribe")
    /\ UNCHANGED <<job, stopping, draining, mailbox, cache, client, serverVars>>

Delete ==
    /\ \/ pc = "handle" /\ job.kind = "delete" /\ ~Unsubscribes
       \/ pc = "unsubscribing" /\ Succeeded
    /\ Await("deleting", "delete")
    /\ subscribed' = subscribed \ {job.param}
    /\ UNCHANGED <<job, stopping, draining, mailbox, cache, client, serverVars>>

Deleted ==
    /\ pc = "deleting" /\ Succeeded
    /\ cache' = [cache EXCEPT ![job.param] = Absent]
    /\ Reply
    /\ UNCHANGED <<stopping, draining, subscribed, serverVars>>

DeleteFails ==
    /\ pc \in {"unsubscribing", "deleting"} /\ rpc.status = "err"
    /\ Reply
    /\ UNCHANGED <<stopping, draining, localVars, serverVars>>

(* update_cached_param, for a parameter not subscribed to (any more). *)
IgnoreUpdate ==
    /\ pc = "handle" /\ job.kind = "update" /\ job.param \notin subscribed
    /\ Idle
    /\ UNCHANGED <<stopping, draining, mailbox, localVars, client, serverVars>>

(* Fault: an empty struct is taken for a value. *)
IsValueAlways == TRUE

IsValue == job.value # Empty

ApplyUpdate ==
    /\ pc = "handle" /\ job.kind = "update" /\ job.param \in subscribed /\ IsValue
    /\ cache' = [cache EXCEPT ![job.param] = job.value]
    /\ Idle
    /\ UNCHANGED <<stopping, draining, mailbox, subscribed, client, serverVars>>

(* An empty struct may stand for a deletion: ask the server. *)
CheckUpdate ==
    /\ pc = "handle" /\ job.kind = "update" /\ job.param \in subscribed /\ ~IsValue
    /\ Await("checking", "has")
    /\ UNCHANGED <<job, stopping, draining, mailbox, localVars, client, serverVars>>

UpdateChecked ==
    /\ pc = "checking" /\ Answered
    /\ cache' = IF Succeeded
                THEN [cache EXCEPT ![job.param] = IF rpc.answer = Absent THEN Absent ELSE Empty]
                ELSE cache
    /\ Idle
    /\ UNCHANGED <<stopping, draining, mailbox, subscribed, client, serverVars>>

-----------------------------------------------------------------------------
RequestStop ==
    /\ ~stopping
    /\ stopping' = TRUE /\ mailbox' = <<>>
    /\ UNCHANGED <<pc, job, rpc, draining, localVars, client, serverVars>>

(* Fault: a subscription whose parameter is not cached is not undone. *)
TakenIfCached == {p \in subscribed : cache[p] # Absent}

Taken == subscribed

BeginPostStop ==
    /\ pc = "idle" /\ stopping
    /\ pc' = "post_stop"
    /\ draining' = Taken
    /\ subscribed' = {}
    /\ UNCHANGED <<job, rpc, stopping, mailbox, cache, client, serverVars>>

PostStopUnsubscribe(p) ==
    /\ pc = "post_stop" /\ rpc = NoCall /\ p \in draining
    /\ draining' = draining \ {p}
    /\ rpc' = Calls("unsubscribe", p)
    /\ UNCHANGED <<pc, job, stopping, mailbox, localVars, client, serverVars>>

PostStopUnsubscribed ==
    /\ pc = "post_stop" /\ Answered
    /\ rpc' = NoCall
    /\ UNCHANGED <<pc, job, stopping, draining, mailbox, localVars, client, serverVars>>

Stopped ==
    /\ pc = "post_stop" /\ rpc = NoCall /\ draining = {}
    /\ pc' = "stopped"
    /\ client' = Released
    /\ UNCHANGED <<job, rpc, stopping, draining, mailbox, localVars, serverVars>>

CallAfterEnd == ~Running /\ UNCHANGED vars

-----------------------------------------------------------------------------
Actor ==
    \/ Receive \/ Read \/ ReadDone
    \/ Subscribe \/ Subscribed \/ SubscribeFails \/ CacheHit \/ CacheMiss \/ Fetched
    \/ Set \/ SetDone
    \/ Unsubscribe \/ Delete \/ Deleted \/ DeleteFails
    \/ IgnoreUpdate \/ ApplyUpdate \/ CheckUpdate \/ UpdateChecked
    \/ BeginPostStop \/ PostStopUnsubscribed \/ Stopped
    \/ \E p \in Params : PostStopUnsubscribe(p)

Other == \E p \in Params, v \in Content : OtherChanges(p, v)

Next ==
    \/ Actor \/ ServerAnswers \/ Other
    \/ \E p \in Params : ParamUpdate(p)
    \/ \E c \in Clients : CallParam(c) \/ CallSet(c) \/ Cancel(c)
    \/ RequestStop \/ CallAfterEnd

Spec == Init /\ [][Next]_vars

(* The runtime polls the actor, and the server answers. *)
Fairness == WF_vars(Actor) /\ WF_vars(ServerAnswers)

FairSpec == Spec /\ Fairness

-----------------------------------------------------------------------------
TypeOK ==
    /\ pc \in {"idle", "handle", "reading", "subscribing", "fetching", "setting",
               "unsubscribing", "deleting", "checking", "post_stop", "stopped", "failed"}
    /\ job \in Message \cup {NoJob}
    /\ rpc \in ServerCall \cup {NoCall}
    /\ stopping \in BOOLEAN
    /\ draining \in SUBSET Params
    /\ mailbox \in Seq(Message)
    /\ cache \in [Params -> Content]
    /\ subscribed \in SUBSET Params
    /\ asks \in Requests
    /\ client \in [Clients -> {"idle", "waiting", "cancelled"}]
    /\ server \in [Params -> Content] /\ Tree(server)
    /\ {listed, doubtful, unsettled} \subseteq SUBSET Params
    /\ updates \in [Params -> Seq(Values)]
    /\ changes \in 0..MaxChanges
    /\ \A c \in Clients : client[c] = "waiting" /\ ~stopping =>  \* its call is held somewhere
           \E m \in {job} \cup {mailbox[i] : i \in DOMAIN mailbox} :
              m.kind \notin {"none", "update"} /\ m.from = c

(* A parameter the actor counts on updates for is one the server sends them  *)
(* for, whatever calls fail (subscribe 183, insert 184; remove and           *)
(* unsubscribe 237-239); types included.                                     *)
SubscriptionBacked == TypeOK /\ subscribed \subseteq listed

(* The node is listed only for what it is subscribed to, or is about to be   *)
(* or not to be; after a stop, for nothing - unless its last subscribe or    *)
(* unsubscribe of the parameter has failed.                                  *)
ListedTracked ==
    pc # "failed" =>
        \A p \in listed \ doubtful :
            p \in subscribed \cup draining \/ (rpc # NoCall /\ rpc.param = p)

Quiet == pc = "idle" /\ ~stopping /\ mailbox = <<>> /\ \A p \in Params : updates[p] = <<>>

(* node/mod.rs:564-565: get_param_cached subscribes to updates, "ensuring    *)
(* the cached value matches what is on the parameter server".  Once no       *)
(* update is in flight or queued it does, also for a value the node has set  *)
(* while another node's was on its way (223), unless the parameter is        *)
(* unsettled (README, Known divergences).                                    *)
CacheCurrent ==
    Quiet => \A p \in subscribed \ unsettled : cache[p] # Absent => cache[p] = server[p]

(* Every call ends, whatever fails.                                          *)
CallsEnd == \A c \in Clients : (client[c] = "waiting") ~> (client[c] # "waiting")
=============================================================================
