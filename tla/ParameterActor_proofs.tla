------------------------ MODULE ParameterActor_proofs ------------------------
(***************************************************************************)
(* Proofs about the parameter actor.  Its subscriptions are known to the   *)
(* server and the other way round; and, what takes an invariant about the  *)
(* updates still on their way, its cache agrees with the server whenever   *)
(* none are.                                                               *)
(***************************************************************************)
EXTENDS ParameterActor, TLAPS

-----------------------------------------------------------------------------
(* The inductive invariants. *)

(* A handler at work on a message of kind k awaits the call op about the     *)
(* message's own parameter.                                                  *)
Handling(k, op) ==
    /\ job \in Message /\ job.kind = k
    /\ rpc \in ServerCall /\ rpc.op = op /\ rpc.param = job.param

JobInv ==
    /\ pc = "idle" => job = NoJob /\ rpc = NoCall
    /\ pc = "handle" => job \in Message /\ rpc = NoCall
    /\ pc = "reading" => Handling("read", "read")
    /\ pc = "subscribing" => Handling("cached", "subscribe") /\ job.param \notin subscribed
    /\ pc = "fetching" => Handling("cached", "get") /\ job.param \in subscribed
    /\ pc = "setting" => Handling("set", "set")
    /\ pc = "unsubscribing" => Handling("delete", "unsubscribe") /\ job.param \notin subscribed
    /\ pc = "deleting" => Handling("delete", "delete") /\ job.param \notin subscribed
    /\ pc = "checking" => /\ Handling("update", "has")
                          /\ job.param \in subscribed /\ job.value = Empty
    /\ pc = "post_stop" => /\ job = NoJob /\ subscribed = {} /\ stopping
                           /\ rpc = NoCall \/ (rpc \in ServerCall /\ rpc.op = "unsubscribe")
    /\ pc \in {"stopped", "failed"} => job = NoJob /\ rpc = NoCall
    /\ pc = "stopped" => stopping
    /\ draining # {} => pc = "post_stop"

(* The types without the clause on waiting callers, and that clause. *)
Types ==
    /\ pc \in {"idle", "handle", "reading", "subscribing", "fetching", "setting",
               "unsubscribing", "deleting", "checking", "post_stop", "stopped", "failed"}
    /\ job \in Message \cup {NoJob}
    /\ rpc \in ServerCall \cup {NoCall}
    /\ stopping \in BOOLEAN
    /\ draining \in SUBSET Params
    /\ mailbox \in Seq(Message)
    /\ cache \in [Params -> Content]
    /\ subscribed \in SUBSET Params
    /\ asks \in Requests
    /\ client \in [Clients -> {"idle", "waiting", "cancelled"}]
    /\ server \in [Params -> Content] /\ Tree(server)
    /\ {listed, doubtful, unsettled} \subseteq SUBSET Params
    /\ updates \in [Params -> Seq(Values)]
    /\ changes \in 0..MaxChanges

CallsOf(c, m) == m.kind \notin {"none", "update"} /\ m.from = c

WaitersHeld ==
    \A c \in Clients : client[c] = "waiting" /\ ~stopping =>
        CallsOf(c, job) \/ \E i \in 1..Len(mailbox) : CallsOf(c, mailbox[i])

Base == Types /\ JobInv

(* What the answer of a call says of the server's list, and what the list    *)
(* says of the node's.                                                       *)
InDoubt(op) == op \in {"subscribe", "unsubscribe"}

ServerInv ==
    /\ subscribed \subseteq listed
    /\ rpc.op = "subscribe" /\ rpc.status = "ok" => rpc.param \in listed
    /\ rpc.op = "unsubscribe" /\ rpc.status = "ok" => rpc.param \notin listed
    /\ InDoubt(rpc.op) /\ rpc.status = "err" => rpc.param \in doubtful
    /\ pc # "failed" =>
          \A p \in listed \ doubtful :
             p \in subscribed \cup draining \/ (InDoubt(rpc.op) /\ rpc.param = p)

(* The updates for p in a sequence of messages: whether there are any, and   *)
(* that the last of them carries a value in V.                               *)
IsUpdate(m, p) == m.kind = "update" /\ m.param = p

Mentions(s, p) == \E i \in 1..Len(s) : IsUpdate(s[i], p)

LastIn(s, p, V) ==
    \A i \in 1..Len(s) :
        /\ IsUpdate(s[i], p)
        /\ \A j \in 1..Len(s) : j > i => ~IsUpdate(s[j], p)
        => s[i].value \in V

(* The updates that say what the server holds now: its value, or the empty   *)
(* struct for none.                                                          *)
Matching(v) == IF v = Absent THEN {Empty} ELSE {v}

Done(op, p) == rpc.op = op /\ rpc.status = "ok" /\ rpc.param = p

(* For a parameter the node is listed for: the last update on its way says   *)
(* what the server holds; with none on its way, so does the update being     *)
(* handled, unless it is undecided, the answer to a call that reads the      *)
(* parameter, and the value the node has just set; and otherwise the cache.  *)
Current(p) ==
    /\ updates[p] # <<>> => updates[p][Len(updates[p])] \in Matching(server[p])
    /\ updates[p] = <<>> => LastIn(mailbox, p, Matching(server[p]))
    /\ ~Ahead(p) =>
         /\ IsUpdate(job, p) => job.value \in Matching(server[p])
         /\ ~(rpc.op = "has" /\ rpc.status = "err" /\ rpc.param = p)
         /\ Done("get", p) \/ Done("has", p) => rpc.answer = server[p]
         /\ Done("set", p) => job.value = server[p]
         /\ (p \in subscribed \/ Done("subscribe", p)) /\ ~IsUpdate(job, p) /\ ~Done("set", p)
            => cache[p] \in {Absent, server[p]}

(* As long as what is sent to the actor is received. *)
Active == Running /\ ~stopping

CacheInv == Active => \A p \in listed \ unsettled : Current(p)

-----------------------------------------------------------------------------
(* Messages and calls. *)

LEMMA MessageFacts ==
  ASSUME NEW m \in Message
  PROVE  /\ m.param \in Params /\ m.kind \in {"cached", "delete", "read", "set", "update"}
         /\ m.kind \in {"set", "update"} => m.value \in Values
         /\ m.kind = "update" => m \in UpdateMsg
         /\ m.kind # "update" => m.from \in Clients
         /\ m # NoJob /\ m.kind # "none"
  BY DEF Message, CallMsg, SetMsg, UpdateMsg, NoJob

LEMMA CallFacts ==
  /\ \A r \in ServerCall : /\ r.op \in ServerOps /\ r.param \in Params /\ r # NoCall
                           /\ r.status \in {"sent", "ok", "err"} /\ r.answer \in Content
                           /\ r.op # "none" /\ r.status # "none"
  /\ NoCall.op = "none" /\ NoCall.status = "none"
  /\ NoJob.kind = "none"
  BY DEF ServerCall, ServerOps, NoCall, NoJob

LEMMA CallMade ==
  ASSUME NEW op \in ServerOps, NEW p \in Params
  PROVE  /\ Calls(op, p) \in ServerCall /\ Calls(op, p).op = op /\ Calls(op, p).param = p
         /\ Calls(op, p).status = "sent"
  BY DEF Calls, ServerCall, Content

(* What the server's answer does to the call that waits for it. *)
LEMMA AnswerMade ==
  ASSUME Types, ServerAnswers
  PROVE  /\ rpc \in ServerCall /\ rpc.status = "sent" /\ rpc' \in ServerCall
         /\ rpc'.op = rpc.op /\ rpc'.param = rpc.param
         /\ \/ /\ rpc'.status = "ok" /\ Effect(rpc, "ok")
               /\ rpc.op \in {"get", "has"} => rpc'.answer = server[rpc.param]
            \/ /\ rpc'.status = "err"
               /\ Effect(rpc, "err") \/ (rpc.op # "has" /\ UNCHANGED <<server, listed, updates, unsettled>>)
<1> USE CallFacts
<1>1. rpc \in ServerCall /\ rpc.status = "sent"
  BY DEF Types, ServerAnswers
<1>2. server[rpc.param] \in Content
  BY <1>1 DEF Types
<1>3. CASE /\ Effect(rpc, "ok")
           /\ rpc' = [rpc EXCEPT !.status = "ok",
                                 !.answer = IF rpc.op \in {"get", "has"} THEN server[rpc.param] ELSE @]
  <2>1. rpc' = [rpc EXCEPT !.status = "ok",
                           !.answer = IF rpc.op \in {"get", "has"} THEN server[rpc.param] ELSE rpc.answer]
    BY <1>1, <1>3 DEF ServerCall
  <2> DEFINE a == IF rpc.op \in {"get", "has"} THEN server[rpc.param] ELSE rpc.answer
  <2>2. a \in Content
    BY <1>1, <1>2
  <2>3. rpc' = [rpc EXCEPT !.status = "ok", !.answer = a]
    BY <2>1
  <2> HIDE DEF a
  <2>4. /\ rpc' \in ServerCall /\ rpc'.status = "ok" /\ rpc'.answer = a
        /\ rpc'.op = rpc.op /\ rpc'.param = rpc.param
    BY <1>1, <2>2, <2>3 DEF ServerCall
  <2>. QED  BY <1>1, <1>3, <2>4 DEF a
<1>4. CASE /\ Effect(rpc, "err") \/ (rpc.op # "has" /\ UNCHANGED <<server, listed, updates, unsettled>>)
           /\ rpc' = [rpc EXCEPT !.status = "err"]
  <2>1. /\ rpc' \in ServerCall /\ rpc'.status = "err" /\ rpc'.op = rpc.op /\ rpc'.param = rpc.param
    BY <1>1, <1>4 DEF ServerCall
  <2>. QED  BY <1>1, <1>4, <2>1
<1>. QED  BY <1>3, <1>4 DEF ServerAnswers

(* What a call of a user task does. *)
LEMMA UserCalls ==
  ASSUME Types, NEW c \in Clients, CallParam(c) \/ CallSet(c)
  PROVE  \E m \in Message : Call(c, m) /\ m.kind \notin {"none", "update"} /\ m.from = c
<1>1. asks \subseteq {"cached", "set", "delete", "read"} \X Params
  BY ParameterAssumption DEF Types
<1>2. CASE CallParam(c)
  <2>1. PICK r \in asks : r[1] # "set" /\ Call(c, [kind |-> r[1], param |-> r[2], from |-> c])
    BY <1>2 DEF CallParam
  <2>2. r[1] \in {"cached", "delete", "read"} /\ r[2] \in Params
    BY <1>1, <2>1
  <2> DEFINE m == [kind |-> r[1], param |-> r[2], from |-> c]
  <2>3. m \in Message /\ m.kind \notin {"none", "update"} /\ m.from = c
    BY <2>2 DEF Message, CallMsg
  <2>. QED  BY <2>1, <2>3
<1>3. CASE CallSet(c)
  <2>1. PICK r \in asks, v \in Values : Call(c, [kind |-> "set", param |-> r[2], value |-> v, from |-> c])
    BY <1>3 DEF CallSet
  <2>2. r[2] \in Params
    BY <1>1, <2>1
  <2> DEFINE m == [kind |-> "set", param |-> r[2], value |-> v, from |-> c]
  <2>3. m \in Message /\ m.kind \notin {"none", "update"} /\ m.from = c
    BY <2>2 DEF Message, SetMsg
  <2>. QED  BY <2>1, <2>3
<1>. QED  BY <1>2, <1>3

LEMMA QueuedType ==
  ASSUME mailbox \in Seq(Message), NEW m \in Message
  PROVE  Queued(m) \in Seq(Message)
  BY DEF Queued

(* The update at the head of those for p becomes a message. *)
LEMMA UpdateMade ==
  ASSUME Types, NEW p \in Params, updates[p] # <<>>
  PROVE  /\ updates[p] \in Seq(Values) /\ Head(updates[p]) \in Values
         /\ [kind |-> "update", param |-> p, value |-> Head(updates[p])] \in Message
<1>1. updates[p] \in Seq(Values) /\ Head(updates[p]) \in Values
  BY DEF Types
<1>2. [kind |-> "update", param |-> p, value |-> Head(updates[p])] \in UpdateMsg
  BY <1>1 DEF UpdateMsg
<1>. QED  BY <1>1, <1>2 DEF Message

LEMMA ToldType == ASSUME NEW q \in Params PROVE Told(q) \in SUBSET Params
  BY ParameterAssumption DEF Told

LEMMA LastOfTail ==
  ASSUME NEW S, NEW s \in Seq(S), s # <<>>
  PROVE  /\ Tail(s) # <<>> => Tail(s)[Len(Tail(s))] = s[Len(s)]
         /\ Tail(s) = <<>> => Head(s) = s[Len(s)]
<1> DEFINE t == Tail(s)
<1>1. /\ Len(s) = Len(t) + 1 /\ Len(t) \in Nat /\ Head(s) = s[1]
      /\ \A i \in 1..Len(t) : t[i] = s[i + 1]
  OBVIOUS
<1>0. t \in Seq(S)
  OBVIOUS
<1> HIDE DEF t
<1>4. t = <<>> <=> Len(t) = 0
  BY <1>0
<1>2. t # <<>> => t[Len(t)] = s[Len(s)]
  BY <1>1, <1>4
<1>3. t = <<>> => Head(s) = s[Len(s)]
  BY <1>1, <1>4
<1>. QED  BY <1>2, <1>3 DEF t

LEMMA AppendedLast ==
  ASSUME NEW S, NEW s \in Seq(S), NEW e \in S
  PROVE  Append(s, e) # <<>> /\ Append(s, e)[Len(Append(s, e))] = e
  OBVIOUS

(* What a change of q at the server means for each parameter.  One the node  *)
(* is listed for and that is not unsettled then is either announced, or      *)
(* learnt of, or unchanged.                                                  *)
LEMMA ChangesMade ==
  ASSUME Types, NEW q \in Params, NEW v \in Content, NEW told \in SUBSET Params,
         NEW learnt, Changes(q, v, told, learnt)
  PROVE  /\ server' \in [Params -> Content] /\ Tree(server)' /\ server'[q] = v
         /\ updates' \in [Params -> Seq(Values)]
         /\ unsettled' \in SUBSET Params
         /\ \A p \in Params :
               /\ p \notin told => updates'[p] = updates[p]
               /\ p \in told => /\ updates'[p] # <<>>
                                /\ updates'[p][Len(updates'[p])] \in Matching(server'[p])
               /\ p \in listed /\ p \notin unsettled' =>
                     \/ p \in told \/ p \in learnt
                     \/ server'[p] = server[p] /\ p \notin unsettled /\ p # q
<1> USE DEF Types
<1>1. /\ server' \in [Params -> Content] /\ Tree(server') /\ server'[q] = v
      /\ \A p \in Params \ ({q} \cup Below[q] \cup Above(q)) : server'[p] = server[p]
  BY DEF Changes
<1>2. unsettled' = (unsettled \cup (listed \cap ({q} \cup Below[q] \cup Above(q)))) \ (told \cup learnt)
  BY DEF Changes
<1> DEFINE w(p) == IF server'[p] = Absent THEN Empty ELSE server'[p]
<1>3. updates' = [p \in Params |-> IF p \notin told THEN updates[p] ELSE Append(updates[p], w(p))]
  BY DEF Changes
<1>4. \A p \in Params : w(p) \in Values /\ w(p) \in Matching(server'[p])
  BY <1>1, ParameterAssumption DEF Content, Matching
<1> HIDE DEF w
<1>5. updates' \in [Params -> Seq(Values)]
  <2>1. ASSUME NEW p \in Params PROVE Append(updates[p], w(p)) \in Seq(Values)
    BY <1>4
  <2>. QED  BY <1>3, <2>1
<1>6. ASSUME NEW p \in Params
      PROVE  /\ p \notin told => updates'[p] = updates[p]
             /\ p \in told => /\ updates'[p] # <<>>
                              /\ updates'[p][Len(updates'[p])] \in Matching(server'[p])
             /\ p \in listed /\ p \notin unsettled' =>
                   \/ p \in told \/ p \in learnt
                   \/ server'[p] = server[p] /\ p \notin unsettled /\ p # q
  <2>1. p \notin told => updates'[p] = updates[p]
    BY <1>3
  <2>2. ASSUME p \in told
        PROVE  updates'[p] # <<>> /\ updates'[p][Len(updates'[p])] \in Matching(server'[p])
    <3>1. updates'[p] = Append(updates[p], w(p)) /\ updates[p] \in Seq(Values)
      BY <1>3, <2>2
    <3>2. updates'[p] # <<>> /\ updates'[p][Len(updates'[p])] = w(p)
      BY <1>4, <3>1, AppendedLast
    <3>. QED  BY <1>4, <3>2
  <2>3. p \in listed /\ p \notin unsettled' =>
           \/ p \in told \/ p \in learnt
           \/ server'[p] = server[p] /\ p \notin unsettled /\ p # q
    BY <1>1, <1>2
  <2>. QED  BY <2>1, <2>2, <2>3
<1>7. unsettled' \in SUBSET Params
  BY <1>2
<1>. QED  BY <1>1, <1>5, <1>6, <1>7

(* What performing a call does, whatever is answered. *)
LEMMA EffectTypes ==
  ASSUME Types, NEW status \in {"ok", "err"}, Effect(rpc, status),
         rpc \in ServerCall, rpc.op = "set" => job.value \in Values
  PROVE  /\ server' \in [Params -> Content] /\ Tree(server)'
         /\ updates' \in [Params -> Seq(Values)]
         /\ listed' \in SUBSET Params /\ unsettled' \in SUBSET Params
<1> USE CallFacts DEF Types
<1>0. Tree(server') <=> Tree(server)'
  BY DEF Tree
<1>1. CASE rpc.op = "set"
  <2>1. PICK notify \in NotifySelf :
           Changes(rpc.param, job.value, IF notify THEN Told(rpc.param) ELSE {},
                   IF status = "ok" /\ ~Ahead(rpc.param) THEN {rpc.param} ELSE {})
    BY <1>1 DEF Effect
  <2>2. (IF notify THEN Told(rpc.param) ELSE {}) \in SUBSET Params /\ job.value \in Content
    BY <1>1, ToldType DEF Content
  <2>3. listed' = listed
    BY <1>1 DEF Effect
  <2>. QED
    <3> HIDE DEF Types
    <3>1. rpc.param \in Params /\ listed \in SUBSET Params
      BY DEF Types
    <3>. QED  BY <2>1, <2>2, <2>3, <3>1, ChangesMade
<1>2. CASE rpc.op = "delete"
  <2>1. PICK notify \in NotifySelf :
           Changes(rpc.param, Absent, IF notify THEN Told(rpc.param) ELSE {}, {})
    BY <1>2 DEF Effect
  <2>2. (IF notify THEN Told(rpc.param) ELSE {}) \in SUBSET Params /\ Absent \in Content
    BY <1>2, ToldType DEF Content
  <2>3. listed' = listed
    BY <1>2 DEF Effect
  <2>. QED
    <3> HIDE DEF Types
    <3>1. rpc.param \in Params /\ listed \in SUBSET Params
      BY DEF Types
    <3>. QED  BY <2>1, <2>2, <2>3, <3>1, ChangesMade
<1>3. CASE rpc.op \notin {"set", "delete"}
  <2>1. /\ UNCHANGED <<server, updates>> /\ listed' \in SUBSET Params /\ unsettled' \in SUBSET Params
    BY <1>3 DEF Effect
  <2>. QED  BY <2>1 DEF Tree
<1>. QED  BY <1>1, <1>2, <1>3

LEMMA ReplyMade ==
  ASSUME Types, Reply
  PROVE  /\ pc' \in {"idle", "failed"} /\ job' = NoJob /\ rpc' = NoCall
         /\ mailbox' \in Seq(Message)
         /\ client' \in [Clients -> {"idle", "waiting", "cancelled"}]
<1>1. CASE client[job.from] = "cancelled"
  <2>1. mailbox' = <<>> /\ client' = Released /\ pc' = "failed" /\ job' = NoJob /\ rpc' = NoCall
    BY <1>1 DEF Reply
  <2>. QED  BY <2>1 DEF Released
<1>2. CASE client[job.from] # "cancelled"
  <2>1. mailbox' = mailbox /\ client' = [client EXCEPT ![job.from] = "idle"] /\ Idle
    BY <1>2 DEF Reply
  <2>. QED  BY <2>1 DEF Types, Idle
<1>. QED  BY <1>1, <1>2

LEMMA TypesNext == Base /\ [Next]_vars => Types'
<1> SUFFICES ASSUME Base, [Next]_vars PROVE Types'
  OBVIOUS
<1> USE ParameterAssumption, CallFacts, CallMade, MessageFacts
    DEF Base, Types, JobInv, Handling, Answered, Accepted, Succeeded, Released
<1>r. ASSUME Reply, UNCHANGED <<stopping, draining, serverVars>>,
             cache' \in [Params -> Content], subscribed' = subscribed
      PROVE  Types'
  <2>1. /\ pc' \in {"idle", "failed"} /\ job' = NoJob /\ rpc' = NoCall
        /\ mailbox' \in Seq(Message)
        /\ client' \in [Clients -> {"idle", "waiting", "cancelled"}]
    <3> HIDE DEF Types
    <3>1. Types
      BY DEF Types
    <3>. QED  BY <1>r, <3>1, ReplyMade
  <2>2. /\ UNCHANGED <<stopping, draining, changes, asks, server, listed, updates, doubtful, unsettled>>
        /\ cache' \in [Params -> Content] /\ subscribed' = subscribed
    BY <1>r DEF serverVars, heldVars
  <2>. QED  BY <2>1, <2>2 DEF Tree
<1>1. CASE Receive
  BY <1>1 DEF Receive, localVars, serverVars, heldVars
<1>2. CASE Read
  BY <1>2 DEF Read, Await, localVars, serverVars, heldVars, ServerOps
<1>3. CASE ReadDone
  <2>1. /\ Reply /\ UNCHANGED <<stopping, draining, serverVars>>
        /\ cache' \in [Params -> Content] /\ subscribed' = subscribed
    BY <1>3 DEF ReadDone, localVars
  <2>. QED  BY <1>r, <2>1
<1>4. CASE Subscribe
  BY <1>4 DEF Subscribe, Await, localVars, serverVars, heldVars, ServerOps
<1>5. CASE Subscribed
  BY <1>5 DEF Subscribed, serverVars, heldVars
<1>6. CASE SubscribeFails
  <2>1. /\ Reply /\ UNCHANGED <<stopping, draining, serverVars>>
        /\ cache' \in [Params -> Content] /\ subscribed' = subscribed
    BY <1>6 DEF SubscribeFails, localVars
  <2>. QED  BY <1>r, <2>1
<1>7. CASE CacheHit
  <2>1. /\ Reply /\ UNCHANGED <<stopping, draining, serverVars>>
        /\ cache' \in [Params -> Content] /\ subscribed' = subscribed
    BY <1>7 DEF CacheHit, localVars
  <2>. QED  BY <1>r, <2>1
<1>8. CASE CacheMiss
  BY <1>8 DEF CacheMiss, Await, localVars, serverVars, heldVars, ServerOps
<1>9. CASE Fetched
  <2>1. /\ Reply /\ UNCHANGED <<stopping, draining, serverVars>>
        /\ cache' \in [Params -> Content] /\ subscribed' = subscribed
    BY <1>9 DEF Fetched, localVars, CachesSet, Content
  <2>. QED  BY <1>r, <2>1
<1>10. CASE Set
  BY <1>10 DEF Set, Await, localVars, serverVars, heldVars, ServerOps
<1>11. CASE SetDone
  <2>1. /\ Reply /\ UNCHANGED <<stopping, draining, serverVars>>
        /\ cache' \in [Params -> Content] /\ subscribed' = subscribed
    BY <1>11 DEF SetDone, localVars, CachesSet, Content
  <2>. QED  BY <1>r, <2>1
<1>12. CASE Unsubscribe
  BY <1>12 DEF Unsubscribe, Await, serverVars, heldVars, ServerOps
<1>13. CASE Delete
  BY <1>13 DEF Delete, Await, serverVars, heldVars, ServerOps
<1>14. CASE Deleted
  <2>1. /\ Reply /\ UNCHANGED <<stopping, draining, serverVars>>
        /\ cache' \in [Params -> Content] /\ subscribed' = subscribed
    BY <1>14 DEF Deleted, localVars, CachesSet, Content
  <2>. QED  BY <1>r, <2>1
<1>15. CASE DeleteFails
  <2>1. /\ Reply /\ UNCHANGED <<stopping, draining, serverVars>>
        /\ cache' \in [Params -> Content] /\ subscribed' = subscribed
    BY <1>15 DEF DeleteFails, localVars
  <2>. QED  BY <1>r, <2>1
<1>16. CASE IgnoreUpdate
  BY <1>16 DEF IgnoreUpdate, Idle, localVars, serverVars, heldVars
<1>17. CASE ApplyUpdate
  <2>1. job.value \in Content /\ job.param \in Params
    BY <1>17 DEF ApplyUpdate, Content
  <2>. QED  BY <1>17, <2>1 DEF ApplyUpdate, Idle, vars, localVars, serverVars, heldVars
<1>18. CASE CheckUpdate
  BY <1>18 DEF CheckUpdate, Await, localVars, serverVars, heldVars, ServerOps
<1>19. CASE UpdateChecked
  BY <1>19 DEF UpdateChecked, Idle, serverVars, heldVars, Content
<1>20. CASE BeginPostStop
  BY <1>20 DEF BeginPostStop, serverVars, heldVars, Taken
<1>21. CASE PostStopUnsubscribed
  BY <1>21 DEF PostStopUnsubscribed, localVars, serverVars, heldVars
<1>22. CASE Stopped
  BY <1>22 DEF Stopped, localVars, serverVars, heldVars
<1>23. ASSUME NEW p \in Params, PostStopUnsubscribe(p) PROVE Types'
  BY <1>23 DEF PostStopUnsubscribe, localVars, serverVars, heldVars, ServerOps
<1>24. CASE ServerAnswers
  <2>1. rpc \in ServerCall /\ rpc' \in ServerCall
    BY <1>24, AnswerMade
  <2>2. UNCHANGED <<pc, job, stopping, draining, mailbox, localVars, client, asks, changes>>
    BY <1>24 DEF ServerAnswers
  <2>3. rpc.op = "set" => job.value \in Values
    BY <1>24, <2>1
  <2>4. doubtful' \in SUBSET Params
    BY <1>24, <2>1 DEF ServerAnswers
  <2>5. /\ server' \in [Params -> Content] /\ Tree(server)'
        /\ listed' \in SUBSET Params /\ unsettled' \in SUBSET Params
        /\ updates' \in [Params -> Seq(Values)]
    <3>1. CASE UNCHANGED <<server, listed, updates, unsettled>>
      BY <3>1 DEF Tree
    <3>2. ASSUME NEW status \in {"ok", "err"}, Effect(rpc, status)
          PROVE  <2>5
      <4> HIDE DEF Types, JobInv
      <4>. QED  BY <2>1, <2>3, <3>2, EffectTypes
    <3>. QED  BY <1>24, <3>1, <3>2 DEF ServerAnswers
  <2>. QED  BY <2>1, <2>2, <2>4, <2>5 DEF localVars
<1>25. ASSUME NEW p \in Params, ParamUpdate(p) PROVE Types'
  <2> DEFINE u == [kind |-> "update", param |-> p, value |-> Head(updates[p])]
  <2>1. /\ updates[p] # <<>> /\ updates' = [updates EXCEPT ![p] = Tail(@)] /\ mailbox' = Queued(u)
        /\ UNCHANGED <<pc, job, rpc, stopping, draining, localVars, client, asks, server, listed,
                       changes, doubtful, unsettled>>
    BY <1>25 DEF ParamUpdate
  <2>2. u \in Message /\ updates[p] \in Seq(Values)
    BY <2>1, UpdateMade
  <2>3. mailbox' \in Seq(Message)
    BY <2>1, <2>2, QueuedType
  <2>4. Tail(updates[p]) \in Seq(Values)
    BY <2>1, <2>2
  <2>5. updates' \in [Params -> Seq(Values)]
    BY <2>1, <2>4
  <2>. QED  BY <2>1, <2>3, <2>5 DEF localVars, Tree
<1>26. ASSUME NEW p \in Params, NEW v \in Content, OtherChanges(p, v) PROVE Types'
  <2>1. Changes(p, v, Told(p), {}) /\ Told(p) \in SUBSET Params
    BY <1>26, ToldType DEF OtherChanges
  <2>2. /\ server' \in [Params -> Content] /\ Tree(server)'
        /\ updates' \in [Params -> Seq(Values)] /\ unsettled' \in SUBSET Params
    <3> HIDE DEF Types, JobInv
    <3>. QED  BY <2>1, ChangesMade
  <2>. QED  BY <1>26, <2>2 DEF OtherChanges, localVars
<1>27. ASSUME NEW c \in Clients, CallParam(c) \/ CallSet(c) PROVE Types'
  <2>1. PICK m \in Message : Call(c, m)
    BY <1>27, UserCalls
  <2>2. mailbox' \in Seq(Message)
    BY <2>1, QueuedType DEF Call
  <2>3. /\ client' \in [Clients -> {"idle", "waiting", "cancelled"}] /\ changes' \in 0..MaxChanges
        /\ UNCHANGED <<pc, job, rpc, stopping, draining, localVars, heldVars>>
    BY <2>1 DEF Call
  <2>. QED  BY <2>2, <2>3 DEF heldVars, localVars, Tree
<1>28. ASSUME NEW c \in Clients, Cancel(c) PROVE Types'
  BY <1>28 DEF Cancel, localVars, serverVars, heldVars, Tree
<1>29. CASE RequestStop
  BY <1>29 DEF RequestStop, localVars, serverVars, heldVars, Tree
<1>30. CASE UNCHANGED vars
  BY <1>30 DEF vars, serverVars, heldVars
<1>. QED
  BY <1>1, <1>2, <1>3, <1>4, <1>5, <1>6, <1>7, <1>8, <1>9, <1>10, <1>11, <1>12, <1>13, <1>14,
     <1>15, <1>16, <1>17, <1>18, <1>19, <1>20, <1>21, <1>22, <1>23, <1>24, <1>25, <1>26, <1>27,
     <1>28, <1>29, <1>30
  DEF Next, Actor, Other, CallAfterEnd

LEMMA JobNext == Base /\ Types' /\ [Next]_vars => JobInv'
<1> SUFFICES ASSUME Base, Types', [Next]_vars PROVE JobInv'
  OBVIOUS
<1> USE ParameterAssumption, CallFacts, CallMade, MessageFacts
    DEF Base, Types, JobInv, Handling, Answered, Accepted, Succeeded
<1>1. CASE Receive
  BY <1>1 DEF Receive, localVars, serverVars, heldVars
<1>2. CASE Read
  BY <1>2 DEF Read, Await, localVars, serverVars, heldVars, ServerOps
<1>3. CASE ReadDone
  BY <1>3 DEF ReadDone, Idle, Reply, localVars, serverVars, heldVars
<1>4. CASE Subscribe
  BY <1>4 DEF Subscribe, Await, localVars, serverVars, heldVars, ServerOps
<1>5. CASE Subscribed
  BY <1>5 DEF Subscribed, serverVars, heldVars
<1>6. CASE SubscribeFails
  BY <1>6 DEF SubscribeFails, Idle, Reply, localVars, serverVars, heldVars
<1>7. CASE CacheHit
  BY <1>7 DEF CacheHit, Idle, Reply, localVars, serverVars, heldVars
<1>8. CASE CacheMiss
  BY <1>8 DEF CacheMiss, Await, localVars, serverVars, heldVars, ServerOps
<1>9. CASE Fetched
  BY <1>9 DEF Fetched, Idle, Reply, serverVars, heldVars, Content
<1>10. CASE Set
  BY <1>10 DEF Set, Await, localVars, serverVars, heldVars, ServerOps
<1>11. CASE SetDone
  BY <1>11 DEF SetDone, Idle, Reply, serverVars, heldVars, Content
<1>12. CASE Unsubscribe
  BY <1>12 DEF Unsubscribe, Await, serverVars, heldVars, ServerOps, Unsubscribes
<1>13. CASE Delete
  BY <1>13 DEF Delete, Await, serverVars, heldVars, ServerOps, Unsubscribes
<1>14. CASE Deleted
  BY <1>14 DEF Deleted, Idle, Reply, serverVars, heldVars, Content
<1>15. CASE DeleteFails
  BY <1>15 DEF DeleteFails, Idle, Reply, localVars, serverVars, heldVars
<1>16. CASE IgnoreUpdate
  BY <1>16 DEF IgnoreUpdate, Idle, localVars, serverVars, heldVars
<1>17. CASE ApplyUpdate
  BY <1>17 DEF ApplyUpdate, Idle, serverVars, heldVars
<1>18. CASE CheckUpdate
  BY <1>18 DEF CheckUpdate, Await, localVars, serverVars, heldVars, ServerOps, IsValue
<1>19. CASE UpdateChecked
  BY <1>19 DEF UpdateChecked, Idle, serverVars, heldVars, Content
<1>20. CASE BeginPostStop
  BY <1>20 DEF BeginPostStop, serverVars, heldVars, Taken
<1>21. CASE PostStopUnsubscribed
  BY <1>21 DEF PostStopUnsubscribed, localVars, serverVars, heldVars
<1>22. CASE Stopped
  BY <1>22 DEF Stopped, localVars, serverVars, heldVars
<1>23. ASSUME NEW p \in Params, PostStopUnsubscribe(p) PROVE JobInv'
  BY <1>23 DEF PostStopUnsubscribe, localVars, serverVars, heldVars, ServerOps
<1>24. CASE ServerAnswers
  <2>1. UNCHANGED <<pc, job, draining, subscribed, stopping>>
    BY <1>24 DEF ServerAnswers, localVars
  <2>. QED  BY <1>24, <2>1, AnswerMade
<1>25. ASSUME NEW p \in Params, ParamUpdate(p) PROVE JobInv'
  BY <1>25 DEF ParamUpdate, localVars
<1>26. ASSUME NEW p \in Params, NEW v \in Content, OtherChanges(p, v) PROVE JobInv'
  BY <1>26 DEF OtherChanges, localVars
<1>27. ASSUME NEW c \in Clients, CallParam(c) \/ CallSet(c) PROVE JobInv'
  <2>1. UNCHANGED <<pc, job, rpc, draining, subscribed, stopping>>
    BY <1>27 DEF CallParam, CallSet, Call, localVars
  <2>. QED  BY <2>1
<1>28. ASSUME NEW c \in Clients, Cancel(c) PROVE JobInv'
  BY <1>28 DEF Cancel, localVars, serverVars, heldVars
<1>29. CASE RequestStop
  BY <1>29 DEF RequestStop, localVars, serverVars, heldVars
<1>30. CASE UNCHANGED vars
  BY <1>30 DEF vars, serverVars, heldVars
<1>. QED
  BY <1>1, <1>2, <1>3, <1>4, <1>5, <1>6, <1>7, <1>8, <1>9, <1>10, <1>11, <1>12, <1>13, <1>14,
     <1>15, <1>16, <1>17, <1>18, <1>19, <1>20, <1>21, <1>22, <1>23, <1>24, <1>25, <1>26, <1>27,
     <1>28, <1>29, <1>30
  DEF Next, Actor, Other, CallAfterEnd

LEMMA BaseInit == Init => Base
<1> SUFFICES ASSUME Init PROVE Base
  OBVIOUS
<1>1. mailbox \in Seq(Message) /\ updates \in [Params -> Seq(Values)]
  BY DEF Init
<1>2. /\ cache \in [Params -> Content] /\ client \in [Clients -> {"idle", "waiting", "cancelled"}]
      /\ server \in [Params -> Content] /\ Tree(server) /\ changes \in 0..MaxChanges
  BY ParameterAssumption DEF Init, Content
<1>3. Types
  BY <1>1, <1>2 DEF Init, Types
<1>. QED  BY <1>3 DEF Init, Base, JobInv

LEMMA BaseNext == Base /\ [Next]_vars => Base'
  BY TypesNext, JobNext DEF Base

-----------------------------------------------------------------------------
(* Waiting callers. *)

LEMMA ReplyKeepsWaiters ==
  ASSUME Base, WaitersHeld, job \in Message, Reply, UNCHANGED stopping
  PROVE  WaitersHeld'
<1>1. CASE client[job.from] = "cancelled"
  <2>1. client' = Released
    BY <1>1 DEF Reply
  <2>. QED  BY <2>1 DEF WaitersHeld, Released
<1>2. CASE client[job.from] # "cancelled"
  <2>1. mailbox' = mailbox /\ client' = [client EXCEPT ![job.from] = "idle"]
    BY <1>2 DEF Reply
  <2>2. ASSUME NEW c \in Clients, client'[c] = "waiting"
        PROVE  client[c] = "waiting" /\ ~CallsOf(c, job)
    BY <2>1, <2>2 DEF Base, Types, CallsOf
  <2>. QED  BY <2>1, <2>2 DEF WaitersHeld
<1>. QED  BY <1>1, <1>2

LEMMA WaitersNext == Base /\ WaitersHeld /\ [Next]_vars => WaitersHeld'
<1> SUFFICES ASSUME Base, WaitersHeld, [Next]_vars PROVE WaitersHeld'
  OBVIOUS
<1> USE CallFacts DEF Base, WaitersHeld
<1>1. CASE Receive
  <2>1. /\ job' = Head(mailbox) /\ mailbox' = Tail(mailbox) /\ UNCHANGED <<client, stopping>>
        /\ mailbox # <<>> /\ mailbox \in Seq(Message) /\ job = NoJob
    BY <1>1 DEF Receive, JobInv, Types
  <2>2. ASSUME NEW c \in Clients, NEW i \in 1..Len(mailbox), CallsOf(c, mailbox[i])
        PROVE  CallsOf(c, job') \/ \E j \in 1..Len(mailbox') : CallsOf(c, mailbox'[j])
    <3>1. CASE i = 1
      BY <2>1, <2>2, <3>1
    <3>2. CASE i # 1
      <4>1. i - 1 \in 1..Len(mailbox') /\ mailbox'[i - 1] = mailbox[i]
        BY <2>1, <3>2
      <4>. QED  BY <2>2, <4>1
    <3>. QED  BY <3>1, <3>2
  <2>3. \A c \in Clients : ~CallsOf(c, NoJob)
    BY DEF CallsOf, NoJob
  <2>. QED
    <3> HIDE DEF Base
    <3>. QED  BY <2>1, <2>2, <2>3
<1>2. CASE Read
  BY <1>2 DEF Read, vars
<1>3. CASE ReadDone
  <2>1. Reply /\ job \in Message /\ UNCHANGED stopping
    BY <1>3 DEF ReadDone, JobInv, Handling, CachesSet
  <2>. QED  BY <2>1, ReplyKeepsWaiters
<1>4. CASE Subscribe
  BY <1>4 DEF Subscribe, vars
<1>5. CASE Subscribed
  BY <1>5 DEF Subscribed, vars
<1>6. CASE SubscribeFails
  <2>1. Reply /\ job \in Message /\ UNCHANGED stopping
    BY <1>6 DEF SubscribeFails, JobInv, Handling, CachesSet
  <2>. QED  BY <2>1, ReplyKeepsWaiters
<1>7. CASE CacheHit
  <2>1. Reply /\ job \in Message /\ UNCHANGED stopping
    BY <1>7 DEF CacheHit, JobInv, Handling, CachesSet
  <2>. QED  BY <2>1, ReplyKeepsWaiters
<1>8. CASE CacheMiss
  BY <1>8 DEF CacheMiss, vars
<1>9. CASE Fetched
  <2>1. Reply /\ job \in Message /\ UNCHANGED stopping
    BY <1>9 DEF Fetched, JobInv, Handling, CachesSet
  <2>. QED  BY <2>1, ReplyKeepsWaiters
<1>10. CASE Set
  BY <1>10 DEF Set, vars
<1>11. CASE SetDone
  <2>1. Reply /\ job \in Message /\ UNCHANGED stopping
    BY <1>11 DEF SetDone, JobInv, Handling, CachesSet
  <2>. QED  BY <2>1, ReplyKeepsWaiters
<1>12. CASE Unsubscribe
  BY <1>12 DEF Unsubscribe, vars
<1>13. CASE Delete
  BY <1>13 DEF Delete, vars
<1>14. CASE Deleted
  <2>1. Reply /\ job \in Message /\ UNCHANGED stopping
    BY <1>14 DEF Deleted, JobInv, Handling, CachesSet
  <2>. QED  BY <2>1, ReplyKeepsWaiters
<1>15. CASE DeleteFails
  <2>1. Reply /\ job \in Message /\ UNCHANGED stopping
    BY <1>15 DEF DeleteFails, JobInv, Handling, CachesSet
  <2>. QED  BY <2>1, ReplyKeepsWaiters
<1>16. CASE IgnoreUpdate
  <2>1. UNCHANGED <<client, mailbox, stopping>> /\ job.kind = "update"
    BY <1>16 DEF IgnoreUpdate, JobInv, Handling
  <2>. QED  BY <2>1 DEF CallsOf
<1>17. CASE ApplyUpdate
  <2>1. UNCHANGED <<client, mailbox, stopping>> /\ job.kind = "update"
    BY <1>17 DEF ApplyUpdate, JobInv, Handling
  <2>. QED  BY <2>1 DEF CallsOf
<1>18. CASE CheckUpdate
  BY <1>18 DEF CheckUpdate, vars
<1>19. CASE UpdateChecked
  <2>1. UNCHANGED <<client, mailbox, stopping>> /\ job.kind = "update"
    BY <1>19 DEF UpdateChecked, JobInv, Handling
  <2>. QED  BY <2>1 DEF CallsOf
<1>20. CASE BeginPostStop
  BY <1>20 DEF BeginPostStop, vars
<1>21. CASE PostStopUnsubscribed
  BY <1>21 DEF PostStopUnsubscribed, vars
<1>22. CASE Stopped
  BY <1>22 DEF Stopped, Released
<1>23. ASSUME NEW p \in Params, PostStopUnsubscribe(p) PROVE WaitersHeld'
  BY <1>23 DEF PostStopUnsubscribe, vars
<1>24. CASE ServerAnswers
  BY <1>24 DEF ServerAnswers, vars
<1>25. ASSUME NEW p \in Params, ParamUpdate(p) PROVE WaitersHeld'
  <2> DEFINE u == [kind |-> "update", param |-> p, value |-> Head(updates[p])]
  <2>1. /\ UNCHANGED <<client, job, stopping>> /\ mailbox \in Seq(Message) /\ u \in Message
        /\ mailbox' = mailbox \/ mailbox' = Append(mailbox, u)
    BY <1>25, UpdateMade DEF ParamUpdate, Types, Queued
  <2> HIDE DEF u
  <2>2. \A i \in 1..Len(mailbox) : i \in 1..Len(mailbox') /\ mailbox'[i] = mailbox[i]
    BY <2>1
  <2>. QED
    <3> HIDE DEF Base
    <3>. QED  BY <2>1, <2>2
<1>26. ASSUME NEW p \in Params, NEW v \in Content, OtherChanges(p, v) PROVE WaitersHeld'
  BY <1>26 DEF OtherChanges, vars
<1>27. ASSUME NEW c \in Clients, CallParam(c) \/ CallSet(c) PROVE WaitersHeld'
  <2>1. PICK m \in Message : Call(c, m) /\ CallsOf(c, m)
    BY <1>27, UserCalls DEF CallsOf
  <2>2. /\ UNCHANGED <<job, stopping>> /\ client' = [client EXCEPT ![c] = "waiting"]
        /\ mailbox \in Seq(Message) /\ client \in [Clients -> {"idle", "waiting", "cancelled"}]
        /\ ~stopping => mailbox' = Append(mailbox, m)
    BY <2>1 DEF Call, Types, Queued
  <2>3. ~stopping => \A i \in 1..Len(mailbox) : i \in 1..Len(mailbox') /\ mailbox'[i] = mailbox[i]
    BY <2>2
  <2>4. ~stopping => Len(mailbox') \in 1..Len(mailbox') /\ mailbox'[Len(mailbox')] = m
    BY <2>2
  <2>. QED
    <3> HIDE DEF Base
    <3>. QED  BY <2>1, <2>2, <2>3, <2>4
<1>28. ASSUME NEW c \in Clients, Cancel(c) PROVE WaitersHeld'
  <2>1. /\ UNCHANGED <<job, mailbox, stopping>>
        /\ \A d \in Clients : client'[d] = "waiting" => client[d] = "waiting"
    BY <1>28 DEF Cancel, Types
  <2>. QED  BY <2>1
<1>29. CASE RequestStop
  BY <1>29 DEF RequestStop
<1>30. CASE UNCHANGED vars
  BY <1>30 DEF vars
<1>. QED
  BY <1>1, <1>2, <1>3, <1>4, <1>5, <1>6, <1>7, <1>8, <1>9, <1>10, <1>11, <1>12, <1>13, <1>14,
     <1>15, <1>16, <1>17, <1>18, <1>19, <1>20, <1>21, <1>22, <1>23, <1>24, <1>25, <1>26, <1>27,
     <1>28, <1>29, <1>30
  DEF Next, Actor, Other, CallAfterEnd

-----------------------------------------------------------------------------
(* The server's list and the node's. *)

LEMMA ServerNext == Base /\ Base' /\ ServerInv /\ [Next]_vars => ServerInv'
<1> SUFFICES ASSUME Base, Base', ServerInv, [Next]_vars PROVE ServerInv'
  OBVIOUS
<1> USE CallFacts, CallMade, MessageFacts
    DEF Base, Types, JobInv, Handling, ServerInv, InDoubt, Answered, Accepted, Succeeded, ServerOps
<1>1. CASE Receive
  BY <1>1 DEF Receive, localVars, serverVars, heldVars
<1>2. CASE Read
  BY <1>2 DEF Read, Await, localVars, serverVars, heldVars, ServerOps
<1>3. CASE ReadDone
  BY <1>3 DEF ReadDone, Idle, Reply, localVars, serverVars, heldVars
<1>4. CASE Subscribe
  BY <1>4 DEF Subscribe, Await, localVars, serverVars, heldVars, ServerOps
<1>5. CASE Subscribed
  BY <1>5 DEF Subscribed, serverVars, heldVars
<1>6. CASE SubscribeFails
  BY <1>6 DEF SubscribeFails, Idle, Reply, localVars, serverVars, heldVars
<1>7. CASE CacheHit
  BY <1>7 DEF CacheHit, Idle, Reply, localVars, serverVars, heldVars
<1>8. CASE CacheMiss
  BY <1>8 DEF CacheMiss, Await, localVars, serverVars, heldVars, ServerOps
<1>9. CASE Fetched
  BY <1>9 DEF Fetched, Idle, Reply, serverVars, heldVars, Content
<1>10. CASE Set
  BY <1>10 DEF Set, Await, localVars, serverVars, heldVars, ServerOps
<1>11. CASE SetDone
  BY <1>11 DEF SetDone, Idle, Reply, serverVars, heldVars, Content
<1>12. CASE Unsubscribe
  BY <1>12 DEF Unsubscribe, Await, serverVars, heldVars, ServerOps, Unsubscribes
<1>13. CASE Delete
  BY <1>13 DEF Delete, Await, serverVars, heldVars, ServerOps, Unsubscribes
<1>14. CASE Deleted
  BY <1>14 DEF Deleted, Idle, Reply, serverVars, heldVars, Content
<1>15. CASE DeleteFails
  BY <1>15 DEF DeleteFails, Idle, Reply, localVars, serverVars, heldVars
<1>16. CASE IgnoreUpdate
  BY <1>16 DEF IgnoreUpdate, Idle, localVars, serverVars, heldVars
<1>17. CASE ApplyUpdate
  BY <1>17 DEF ApplyUpdate, Idle, serverVars, heldVars
<1>18. CASE CheckUpdate
  BY <1>18 DEF CheckUpdate, Await, localVars, serverVars, heldVars, ServerOps, IsValue
<1>19. CASE UpdateChecked
  BY <1>19 DEF UpdateChecked, Idle, serverVars, heldVars, Content
<1>20. CASE BeginPostStop
  BY <1>20 DEF BeginPostStop, serverVars, heldVars, Taken
<1>21. CASE PostStopUnsubscribed
  BY <1>21 DEF PostStopUnsubscribed, localVars, serverVars, heldVars
<1>22. CASE Stopped
  BY <1>22 DEF Stopped, localVars, serverVars, heldVars
<1>23. ASSUME NEW p \in Params, PostStopUnsubscribe(p) PROVE ServerInv'
  BY <1>23 DEF PostStopUnsubscribe, localVars, serverVars, heldVars, ServerOps
<1>24. CASE ServerAnswers
  <2>1. /\ UNCHANGED <<pc, job, draining, subscribed>>
        /\ doubtful' = IF ~InDoubt(rpc.op) THEN doubtful
                       ELSE IF rpc'.status = "ok" THEN doubtful \ {rpc.param}
                       ELSE doubtful \cup {rpc.param}
    BY <1>24 DEF ServerAnswers, localVars
  <2>2. /\ rpc.op = "subscribe" => listed' = listed \cup {rpc.param} \/ (listed' = listed /\ rpc'.status = "err")
        /\ rpc.op = "unsubscribe" => listed' = listed \ {rpc.param} \/ (listed' = listed /\ rpc'.status = "err")
        /\ rpc.op \notin {"subscribe", "unsubscribe"} => listed' = listed
    BY <1>24, AnswerMade DEF Effect
  <2>3. rpc.op = "unsubscribe" => rpc.param \notin subscribed
    BY <1>24, AnswerMade
  <2>4. rpc.op = rpc'.op /\ rpc.param = rpc'.param /\ rpc'.status \in {"ok", "err"} /\ rpc.status = "sent"
    BY <1>24, AnswerMade
  <2>. QED  BY <2>1, <2>2, <2>3, <2>4
<1>25. ASSUME NEW p \in Params, ParamUpdate(p) PROVE ServerInv'
  BY <1>25 DEF ParamUpdate, localVars
<1>26. ASSUME NEW p \in Params, NEW v \in Content, OtherChanges(p, v) PROVE ServerInv'
  BY <1>26 DEF OtherChanges, localVars
<1>27. ASSUME NEW c \in Clients, CallParam(c) \/ CallSet(c) PROVE ServerInv'
  <2>1. UNCHANGED <<pc, rpc, draining, subscribed, listed, doubtful>>
    BY <1>27 DEF CallParam, CallSet, Call, localVars, heldVars
  <2>. QED  BY <2>1
<1>28. ASSUME NEW c \in Clients, Cancel(c) PROVE ServerInv'
  BY <1>28 DEF Cancel, localVars, serverVars, heldVars
<1>29. CASE RequestStop
  BY <1>29 DEF RequestStop, localVars, serverVars, heldVars
<1>30. CASE UNCHANGED vars
  BY <1>30 DEF vars, serverVars, heldVars
<1>. QED
  BY <1>1, <1>2, <1>3, <1>4, <1>5, <1>6, <1>7, <1>8, <1>9, <1>10, <1>11, <1>12, <1>13, <1>14,
     <1>15, <1>16, <1>17, <1>18, <1>19, <1>20, <1>21, <1>22, <1>23, <1>24, <1>25, <1>26, <1>27,
     <1>28, <1>29, <1>30
  DEF Next, Actor, Other, CallAfterEnd

-----------------------------------------------------------------------------
(* Sequences of updates. *)

LEMMA NothingMentioned ==
  ASSUME NEW p, NEW V
  PROVE  /\ ~Mentions(<<>>, p)
         /\ \A s : ~Mentions(s, p) => LastIn(s, p, V)
  BY DEF Mentions, LastIn

LEMMA AppendedUpdate ==
  ASSUME NEW s \in Seq(Message), NEW m \in Message, NEW p, NEW V
  PROVE  /\ Mentions(Append(s, m), p) <=> Mentions(s, p) \/ IsUpdate(m, p)
         /\ IsUpdate(m, p) /\ m.value \in V => LastIn(Append(s, m), p, V)
         /\ ~IsUpdate(m, p) /\ LastIn(s, p, V) => LastIn(Append(s, m), p, V)
<1> DEFINE t == Append(s, m)
<1>1. /\ Len(t) = Len(s) + 1 /\ t[Len(t)] = m /\ Len(s) \in Nat
      /\ \A i \in 1..Len(s) : t[i] = s[i] /\ i \in 1..Len(t)
      /\ \A i \in 1..Len(t) : i \in 1..Len(s) \/ i = Len(t)
  OBVIOUS
<1>2. Len(t) \in 1..Len(t) /\ \A i \in 1..Len(s) : Len(t) > i
  BY <1>1
<1> HIDE DEF t
<1>3. Mentions(t, p) <=> Mentions(s, p) \/ IsUpdate(m, p)
  BY <1>1, <1>2 DEF Mentions
<1>4. ASSUME IsUpdate(m, p), m.value \in V PROVE LastIn(t, p, V)
  BY <1>1, <1>2, <1>4 DEF LastIn
<1>5. ASSUME ~IsUpdate(m, p), LastIn(s, p, V) PROVE LastIn(t, p, V)
  BY <1>1, <1>2, <1>5 DEF LastIn
<1>. QED  BY <1>3, <1>4, <1>5 DEF t

LEMMA TakenUpdate ==
  ASSUME NEW s \in Seq(Message), s # <<>>, NEW p, NEW V
  PROVE  /\ Mentions(s, p) <=> IsUpdate(Head(s), p) \/ Mentions(Tail(s), p)
         /\ LastIn(s, p, V) => LastIn(Tail(s), p, V)
         /\ LastIn(s, p, V) /\ IsUpdate(Head(s), p) /\ ~Mentions(Tail(s), p) => Head(s).value \in V
<1> DEFINE t == Tail(s)
<1>1. /\ Len(s) = Len(t) + 1 /\ Len(t) \in Nat /\ Head(s) = s[1]
      /\ \A i \in 1..Len(t) : t[i] = s[i + 1] /\ i + 1 \in 1..Len(s)
  OBVIOUS
<1>2. \A i \in 1..Len(s) : i = 1 \/ (i - 1 \in 1..Len(t) /\ t[i - 1] = s[i])
  BY <1>1
<1> HIDE DEF t
<1>3. Mentions(s, p) <=> IsUpdate(Head(s), p) \/ Mentions(t, p)
  <2>1. ASSUME Mentions(s, p) PROVE IsUpdate(Head(s), p) \/ Mentions(t, p)
    <3>1. PICK i \in 1..Len(s) : IsUpdate(s[i], p)
      BY <2>1 DEF Mentions
    <3>2. i = 1 \/ (i - 1 \in 1..Len(t) /\ IsUpdate(t[i - 1], p))
      BY <1>2, <3>1
    <3>. QED  BY <1>1, <3>1, <3>2 DEF Mentions
  <2>2. ASSUME Mentions(t, p) PROVE Mentions(s, p)
    <3>1. PICK i \in 1..Len(t) : IsUpdate(t[i], p)
      BY <2>2 DEF Mentions
    <3>2. i + 1 \in 1..Len(s) /\ IsUpdate(s[i + 1], p)
      BY <1>1, <3>1
    <3>. QED  BY <3>2 DEF Mentions
  <2>3. 1 \in 1..Len(s)
    BY <1>1
  <2>. QED  BY <1>1, <2>1, <2>2, <2>3 DEF Mentions
<1>4. ASSUME LastIn(s, p, V) PROVE LastIn(t, p, V)
  <2> SUFFICES ASSUME NEW i \in 1..Len(t), IsUpdate(t[i], p),
                      \A j \in 1..Len(t) : j > i => ~IsUpdate(t[j], p)
               PROVE  t[i].value \in V
    BY DEF LastIn
  <2>1. i + 1 \in 1..Len(s) /\ IsUpdate(s[i + 1], p)
    BY <1>1
  <2>2. ASSUME NEW j \in 1..Len(s), j > i + 1 PROVE ~IsUpdate(s[j], p)
    <3>1. j - 1 \in 1..Len(t) /\ t[j - 1] = s[j] /\ j - 1 > i
      BY <1>1, <1>2, <2>2
    <3>. QED  BY <3>1
  <2>3. s[i + 1].value \in V
    BY <1>4, <2>1, <2>2 DEF LastIn
  <2>. QED  BY <1>1, <2>3
<1>5. ASSUME LastIn(s, p, V), IsUpdate(Head(s), p), ~Mentions(t, p) PROVE Head(s).value \in V
  <2>1. 1 \in 1..Len(s)
    BY <1>1
  <2>2. ASSUME NEW j \in 1..Len(s), j > 1 PROVE ~IsUpdate(s[j], p)
    BY <1>1, <1>2, <1>5, <2>2 DEF Mentions
  <2>. QED  BY <1>1, <1>5, <2>1, <2>2 DEF LastIn
<1>. QED  BY <1>3, <1>4, <1>5 DEF t

-----------------------------------------------------------------------------
(* The cache. *)

(* An actor that has ended, or is to, does not resume. *)
LEMMA ActiveNext == Base /\ [Next]_vars => (Active' => Active)
<1> SUFFICES ASSUME Base, [Next]_vars PROVE Active' => Active
  OBVIOUS
<1> USE DEF Active, Running, Base, JobInv, Answered, Accepted, Succeeded, Handling
<1>1. CASE Receive
  BY <1>1 DEF Receive
<1>2. CASE Read
  BY <1>2 DEF Read, Await
<1>3. CASE ReadDone
  BY <1>3 DEF ReadDone, Idle, Reply
<1>4. CASE Subscribe
  BY <1>4 DEF Subscribe, Await
<1>5. CASE Subscribed
  BY <1>5 DEF Subscribed
<1>6. CASE SubscribeFails
  BY <1>6 DEF SubscribeFails, Idle, Reply
<1>7. CASE CacheHit
  BY <1>7 DEF CacheHit, Idle, Reply
<1>8. CASE CacheMiss
  BY <1>8 DEF CacheMiss, Await
<1>9. CASE Fetched
  BY <1>9 DEF Fetched, Idle, Reply
<1>10. CASE Set
  BY <1>10 DEF Set, Await
<1>11. CASE SetDone
  BY <1>11 DEF SetDone, Idle, Reply
<1>12. CASE Unsubscribe
  BY <1>12 DEF Unsubscribe, Await
<1>13. CASE Delete
  BY <1>13 DEF Delete, Await
<1>14. CASE Deleted
  BY <1>14 DEF Deleted, Idle, Reply
<1>15. CASE DeleteFails
  BY <1>15 DEF DeleteFails, Idle, Reply
<1>16. CASE IgnoreUpdate
  BY <1>16 DEF IgnoreUpdate, Idle
<1>17. CASE ApplyUpdate
  BY <1>17 DEF ApplyUpdate, Idle
<1>18. CASE CheckUpdate
  BY <1>18 DEF CheckUpdate, Await
<1>19. CASE UpdateChecked
  BY <1>19 DEF UpdateChecked, Idle
<1>20. CASE BeginPostStop
  BY <1>20 DEF BeginPostStop
<1>21. CASE PostStopUnsubscribed
  BY <1>21 DEF PostStopUnsubscribed
<1>22. CASE Stopped
  BY <1>22 DEF Stopped
<1>23. ASSUME NEW p \in Params, PostStopUnsubscribe(p) PROVE Active' => Active
  BY <1>23 DEF PostStopUnsubscribe
<1>24. CASE ServerAnswers
  BY <1>24 DEF ServerAnswers
<1>25. ASSUME NEW p \in Params, ParamUpdate(p) PROVE Active' => Active
  BY <1>25 DEF ParamUpdate
<1>26. ASSUME NEW p \in Params, NEW v \in Content, OtherChanges(p, v) PROVE Active' => Active
  BY <1>26 DEF OtherChanges
<1>27. ASSUME NEW c \in Clients, CallParam(c) \/ CallSet(c) PROVE Active' => Active
  BY <1>27 DEF CallParam, CallSet, Call
<1>28. ASSUME NEW c \in Clients, Cancel(c) PROVE Active' => Active
  BY <1>28 DEF Cancel
<1>29. CASE RequestStop
  BY <1>29 DEF RequestStop
<1>30. CASE UNCHANGED vars
  BY <1>30 DEF vars
<1>. QED
  BY <1>1, <1>2, <1>3, <1>4, <1>5, <1>6, <1>7, <1>8, <1>9, <1>10, <1>11, <1>12, <1>13, <1>14,
     <1>15, <1>16, <1>17, <1>18, <1>19, <1>20, <1>21, <1>22, <1>23, <1>24, <1>25, <1>26, <1>27,
     <1>28, <1>29, <1>30
  DEF Next, Actor, Other, CallAfterEnd

(* Being ahead, in terms of the messages. *)
LEMMA AheadIs ==
  ASSUME Types, NEW p \in Params
  PROVE  Ahead(p) <=> updates[p] # <<>> \/ Mentions(mailbox, p)
<1>1. DOMAIN mailbox = 1..Len(mailbox)
  BY DEF Types
<1>. QED  BY <1>1 DEF Ahead, Mentions, IsUpdate

LEMMA AheadThen ==
  ASSUME Types', NEW p \in Params
  PROVE  Ahead(p)' <=> updates'[p] # <<>> \/ Mentions(mailbox', p)
<1>1. DOMAIN mailbox' = 1..Len(mailbox')
  BY DEF Types
<1>. QED  BY <1>1 DEF Ahead, Mentions, IsUpdate

(* A step of the actor alone, which leaves the queues as they are. *)
LEMMA ActorKeepsQueues ==
  ASSUME UNCHANGED <<updates, mailbox>>, NEW p
  PROVE  (Ahead(p))' <=> Ahead(p)
  BY DEF Ahead

(* A reply that does not end the actor. *)
LEMMA ReplyKept ==
  ASSUME Reply, Active'
  PROVE  UNCHANGED mailbox /\ job' = NoJob /\ rpc' = NoCall
  BY DEF Reply, Idle, Active, Running

(* Such a step keeps what is current so if it leaves the cache and takes on  *)
(* no answer. *)
LEMMA QuietKeepsCurrent ==
  ASSUME NEW p, UNCHANGED <<updates, mailbox, server, cache>>,
         p \in subscribed' => p \in subscribed,
         ~IsUpdate(job, p), ~Done("set", p), ~IsUpdate(job', p), rpc'.status # "ok", rpc'.status # "err",
         Current(p)
  PROVE  Current(p)'
<1>1. (Ahead(p))' <=> Ahead(p)
  BY ActorKeepsQueues
<1>. QED  BY <1>1 DEF Current, Done

LEMMA CurrentNext ==
  ASSUME Base, Base', ServerInv, [Next]_vars, Active', Active,
         NEW p \in Params, p \in listed', p \notin unsettled',
         p \in listed /\ p \notin unsettled => Current(p)
  PROVE  Current(p)'
<1> USE ParameterAssumption, CallFacts, CallMade, MessageFacts
    DEF Base, JobInv, Handling, Answered, Accepted, Succeeded
<1>t. Types /\ Types' /\ Running /\ ~stopping /\ ~stopping' /\ Running'
  BY DEF Active
<1> DEFINE Local == /\ UNCHANGED <<updates, mailbox, server>>
                    /\ p \in listed /\ p \notin unsettled
<1>q. ASSUME Local, UNCHANGED cache, p \in subscribed' => p \in subscribed,
             ~IsUpdate(job, p), rpc.op # "set" \/ rpc.status # "ok", ~IsUpdate(job', p),
             rpc'.status \notin {"ok", "err"}
      PROVE  Current(p)'
  BY <1>q, QuietKeepsCurrent DEF Done
<1>1. CASE Receive
  <2>1. /\ mailbox # <<>> /\ job' = Head(mailbox) /\ mailbox' = Tail(mailbox) /\ job = NoJob
        /\ UNCHANGED <<rpc, subscribed, cache, updates, server>> /\ rpc = NoCall
        /\ p \in listed /\ p \notin unsettled
    BY <1>1 DEF Receive, localVars, serverVars, heldVars
  <2>2. ~IsUpdate(job, p) /\ Current(p) /\ mailbox \in Seq(Message)
    BY <1>t, <2>1 DEF IsUpdate, Types
  <2>3. (Ahead(p) <=> Ahead(p)' \/ IsUpdate(job', p)) /\ (updates[p] = <<>> /\ Mentions(mailbox, p) => Ahead(p))
    BY <1>t, <2>1, <2>2, TakenUpdate, AheadIs, AheadThen
  <2>4. /\ updates[p] = <<>> => LastIn(mailbox', p, Matching(server[p]))
        /\ ~Ahead(p)' /\ IsUpdate(job', p) => job'.value \in Matching(server[p])
    BY <1>t, <2>1, <2>2, TakenUpdate, AheadIs, AheadThen DEF Current
  <2>. QED  BY <2>1, <2>2, <2>3, <2>4 DEF Current, Done
<1>2. CASE Read
  <2>1. /\ Local /\ UNCHANGED <<cache, job>> /\ subscribed' \subseteq subscribed
        /\ job \in Message /\ job.kind # "update" /\ rpc'.status = "sent"
        /\ rpc.op # "set"
    BY <1>2 DEF Read, Await, Calls, localVars, serverVars, heldVars
  <2>. QED  BY <1>q, <2>1 DEF IsUpdate
<1>4. CASE Subscribe
  <2>1. /\ Local /\ UNCHANGED <<cache, job>> /\ subscribed' \subseteq subscribed
        /\ job \in Message /\ job.kind # "update" /\ rpc'.status = "sent"
        /\ rpc.op # "set"
    BY <1>4 DEF Subscribe, Await, Calls, localVars, serverVars, heldVars
  <2>. QED  BY <1>q, <2>1 DEF IsUpdate
<1>8. CASE CacheMiss
  <2>1. /\ Local /\ UNCHANGED <<cache, job>> /\ subscribed' \subseteq subscribed
        /\ job \in Message /\ job.kind # "update" /\ rpc'.status = "sent"
        /\ rpc.op # "set"
    BY <1>8 DEF CacheMiss, Await, Calls, localVars, serverVars, heldVars
  <2>. QED  BY <1>q, <2>1 DEF IsUpdate
<1>10. CASE Set
  <2>1. /\ Local /\ UNCHANGED <<cache, job>> /\ subscribed' \subseteq subscribed
        /\ job \in Message /\ job.kind # "update" /\ rpc'.status = "sent"
        /\ rpc.op # "set"
    BY <1>10 DEF Set, Await, Calls, localVars, serverVars, heldVars
  <2>. QED  BY <1>q, <2>1 DEF IsUpdate
<1>12. CASE Unsubscribe
  <2>1. /\ Local /\ UNCHANGED <<cache, job>> /\ subscribed' \subseteq subscribed
        /\ job \in Message /\ job.kind # "update" /\ rpc'.status = "sent"
        /\ rpc.op # "set"
    BY <1>12 DEF Unsubscribe, Await, Calls, localVars, serverVars, heldVars
  <2>. QED  BY <1>q, <2>1 DEF IsUpdate
<1>13. CASE Delete
  <2>1. /\ Local /\ UNCHANGED <<cache, job>> /\ subscribed' \subseteq subscribed
        /\ job \in Message /\ job.kind # "update" /\ rpc'.status = "sent"
        /\ rpc.op # "set"
    BY <1>13 DEF Delete, Await, Calls, localVars, serverVars, heldVars
  <2>. QED  BY <1>q, <2>1 DEF IsUpdate
<1>3. CASE ReadDone
  <2>1. /\ Reply /\ UNCHANGED <<updates, server, listed, unsettled, cache, subscribed>>
        /\ job \in Message /\ job.kind # "update" /\ rpc.op # "set"
    BY <1>3 DEF ReadDone, localVars, serverVars, heldVars
  <2>2. UNCHANGED mailbox /\ job' = NoJob /\ rpc' = NoCall
    BY <2>1, ReplyKept
  <2>. QED  BY <1>q, <2>1, <2>2 DEF IsUpdate
<1>6. CASE SubscribeFails
  <2>1. /\ Reply /\ UNCHANGED <<updates, server, listed, unsettled, cache, subscribed>>
        /\ job \in Message /\ job.kind # "update" /\ rpc.op # "set"
    BY <1>6 DEF SubscribeFails, localVars, serverVars, heldVars
  <2>2. UNCHANGED mailbox /\ job' = NoJob /\ rpc' = NoCall
    BY <2>1, ReplyKept
  <2>. QED  BY <1>q, <2>1, <2>2 DEF IsUpdate
<1>7. CASE CacheHit
  <2>1. /\ Reply /\ UNCHANGED <<updates, server, listed, unsettled, cache, subscribed>>
        /\ job \in Message /\ job.kind # "update" /\ rpc.op # "set"
    BY <1>7 DEF CacheHit, localVars, serverVars, heldVars
  <2>2. UNCHANGED mailbox /\ job' = NoJob /\ rpc' = NoCall
    BY <2>1, ReplyKept
  <2>. QED  BY <1>q, <2>1, <2>2 DEF IsUpdate
<1>15. CASE DeleteFails
  <2>1. /\ Reply /\ UNCHANGED <<updates, server, listed, unsettled, cache, subscribed>>
        /\ job \in Message /\ job.kind # "update" /\ rpc.op # "set"
    BY <1>15 DEF DeleteFails, localVars, serverVars, heldVars
  <2>2. UNCHANGED mailbox /\ job' = NoJob /\ rpc' = NoCall
    BY <2>1, ReplyKept
  <2>. QED  BY <1>q, <2>1, <2>2 DEF IsUpdate
<1>5. CASE Subscribed
  <2>1. /\ Local /\ UNCHANGED <<cache, job>> /\ subscribed' = subscribed \cup {job.param}
        /\ ~IsUpdate(job, p) /\ rpc' = NoCall /\ rpc.op = "subscribe" /\ rpc.status = "ok"
        /\ rpc.param = job.param
    BY <1>5 DEF Subscribed, serverVars, heldVars, IsUpdate
  <2>2. (Ahead(p))' <=> Ahead(p)
    BY <2>1, ActorKeepsQueues
  <2>. QED  BY <2>1, <2>2 DEF Current, Done
<1>9. CASE Fetched
  <2>1. /\ Reply /\ UNCHANGED <<updates, server, listed, unsettled, subscribed>>
        /\ ~IsUpdate(job, p) /\ rpc.op = "get" /\ rpc.param = job.param /\ job.param \in subscribed
    BY <1>9 DEF Fetched, localVars, serverVars, heldVars, IsUpdate
  <2>2. UNCHANGED mailbox /\ job' = NoJob /\ rpc' = NoCall
    BY <2>1, ReplyKept
  <2>3. cache'[p] = cache[p] \/ (job.param = p /\ rpc.status = "ok" /\ cache'[p] = rpc.answer)
    BY <1>9, <1>t DEF Fetched, Types
  <2>4. ((Ahead(p))' <=> Ahead(p)) /\ Current(p) /\ ~IsUpdate(job', p)
    BY <2>1, <2>2, ActorKeepsQueues DEF IsUpdate
  <2>. QED  BY <2>1, <2>2, <2>3, <2>4 DEF Current, Done
<1>11. CASE SetDone
  <2>1. /\ Reply /\ UNCHANGED <<updates, server, listed, unsettled, subscribed>>
        /\ ~IsUpdate(job, p) /\ rpc.op = "set" /\ rpc.param = job.param /\ job.param \in Params
    BY <1>11 DEF SetDone, localVars, serverVars, heldVars, IsUpdate
  <2>2. UNCHANGED mailbox /\ job' = NoJob /\ rpc' = NoCall
    BY <2>1, ReplyKept
  <2>3. /\ rpc.status = "ok" /\ job.param = p /\ p \in subscribed => cache'[p] = job.value
        /\ ~Done("set", p) => cache'[p] = cache[p]
    BY <1>11, <1>t, <2>1 DEF SetDone, CachesSet, Done, Types
  <2>4. ((Ahead(p))' <=> Ahead(p)) /\ Current(p) /\ ~IsUpdate(job', p)
    BY <2>1, <2>2, ActorKeepsQueues DEF IsUpdate
  <2>. QED  BY <2>1, <2>2, <2>3, <2>4 DEF Current, Done
<1>14. CASE Deleted
  <2>1. /\ Reply /\ UNCHANGED <<updates, server, listed, unsettled, subscribed>>
        /\ ~IsUpdate(job, p) /\ rpc.op = "delete"
        /\ cache' = [cache EXCEPT ![job.param] = Absent]
    BY <1>14 DEF Deleted, localVars, serverVars, heldVars, IsUpdate
  <2>2. UNCHANGED mailbox /\ job' = NoJob /\ rpc' = NoCall
    BY <2>1, ReplyKept
  <2>3. cache'[p] \in {cache[p], Absent}
    BY <1>t, <2>1 DEF Types
  <2>4. ((Ahead(p))' <=> Ahead(p)) /\ Current(p) /\ ~IsUpdate(job', p)
    BY <2>1, <2>2, ActorKeepsQueues DEF IsUpdate
  <2>. QED  BY <2>1, <2>2, <2>3, <2>4 DEF Current, Done
<1>16. CASE IgnoreUpdate
  <2>1. /\ Local /\ UNCHANGED <<cache, subscribed>> /\ job' = NoJob /\ rpc' = NoCall /\ rpc = NoCall
        /\ job.param \notin subscribed
    BY <1>16 DEF IgnoreUpdate, Idle, localVars, serverVars, heldVars
  <2>2. ((Ahead(p))' <=> Ahead(p)) /\ ~IsUpdate(job', p)
    BY <2>1, ActorKeepsQueues DEF IsUpdate
  <2>3. IsUpdate(job, p) => p \notin subscribed
    BY <2>1 DEF IsUpdate
  <2>. QED  BY <2>1, <2>2, <2>3 DEF Current, Done
<1>17. CASE ApplyUpdate
  <2>1. /\ Local /\ UNCHANGED subscribed /\ job' = NoJob /\ rpc' = NoCall /\ rpc = NoCall
        /\ job.value # Empty /\ job.kind = "update" /\ job.param \in Params
        /\ cache' = [cache EXCEPT ![job.param] = job.value]
    BY <1>17 DEF ApplyUpdate, Idle, IsValue, serverVars, heldVars
  <2>2. ((Ahead(p))' <=> Ahead(p)) /\ ~IsUpdate(job', p) /\ (IsUpdate(job, p) <=> job.param = p)
    BY <2>1, ActorKeepsQueues DEF IsUpdate
  <2>3. cache'[p] = IF job.param = p THEN job.value ELSE cache[p]
    BY <1>t, <2>1 DEF Types
  <2>. QED  BY <2>1, <2>2, <2>3 DEF Current, Done, Matching
<1>18. CASE CheckUpdate
  <2>1. /\ Local /\ UNCHANGED <<cache, subscribed, job>> /\ rpc = NoCall /\ rpc'.status = "sent"
    BY <1>18 DEF CheckUpdate, Await, Calls, localVars, serverVars, heldVars
  <2>2. (Ahead(p))' <=> Ahead(p)
    BY <2>1, ActorKeepsQueues
  <2>. QED  BY <2>1, <2>2 DEF Current, Done
<1>19. CASE UpdateChecked
  <2>1. /\ Local /\ UNCHANGED subscribed /\ job' = NoJob /\ rpc' = NoCall
        /\ rpc.op = "has" /\ rpc.param = job.param /\ rpc.status \in {"ok", "err"}
        /\ job.kind = "update" /\ job.value = Empty
        /\ cache' = IF rpc.status = "ok"
                    THEN [cache EXCEPT ![job.param] = IF rpc.answer = Absent THEN Absent ELSE Empty]
                    ELSE cache
    BY <1>19 DEF UpdateChecked, Idle, serverVars, heldVars
  <2>2. ((Ahead(p))' <=> Ahead(p)) /\ ~IsUpdate(job', p) /\ (IsUpdate(job, p) <=> job.param = p)
    BY <2>1, ActorKeepsQueues DEF IsUpdate
  <2>3. /\ job.param # p => cache'[p] = cache[p]
        /\ job.param = p /\ rpc.status = "ok" =>
              cache'[p] = IF rpc.answer = Absent THEN Absent ELSE Empty
    BY <1>t, <2>1 DEF Types
  <2>. QED  BY <2>1, <2>2, <2>3 DEF Current, Done, Matching
<1>20. CASE BeginPostStop
  BY <1>t, <1>20 DEF BeginPostStop
<1>21. CASE PostStopUnsubscribed
  BY <1>t, <1>21 DEF PostStopUnsubscribed
<1>22. CASE Stopped
  BY <1>t, <1>22 DEF Stopped
<1>23. ASSUME NEW q \in Params, PostStopUnsubscribe(q) PROVE Current(p)'
  BY <1>t, <1>23 DEF PostStopUnsubscribe
<1>24. CASE ServerAnswers
  <2>1. UNCHANGED <<job, cache, subscribed, mailbox>>
    BY <1>24 DEF ServerAnswers, localVars
  <2>2. /\ rpc \in ServerCall /\ rpc.status = "sent" /\ rpc' \in ServerCall
        /\ rpc'.op = rpc.op /\ rpc'.param = rpc.param
        /\ \/ /\ rpc'.status = "ok" /\ Effect(rpc, "ok")
              /\ rpc.op \in {"get", "has"} => rpc'.answer = server[rpc.param]
           \/ /\ rpc'.status = "err"
              /\ Effect(rpc, "err") \/ (rpc.op # "has" /\ UNCHANGED <<server, listed, updates, unsettled>>)
    BY <1>t, <1>24, AnswerMade
  <2>3. /\ rpc.op = "set" => job.value \in Values /\ job.kind = "set" /\ job.param = rpc.param
        /\ rpc.op = "subscribe" => job.kind = "cached"
    BY <1>t, <2>2 DEF Types
  <2>d. \A op : ~Done(op, p)
    BY <2>2 DEF Done
  <2>4. CASE rpc'.status = "err" /\ rpc.op # "has" /\ UNCHANGED <<server, listed, updates, unsettled>>
    <3>1. ((Ahead(p))' <=> Ahead(p)) /\ Current(p) /\ \A op : ~Done(op, p)'
      BY <2>1, <2>2, <2>4, ActorKeepsQueues DEF Done
    <3>. QED  BY <2>1, <2>2, <2>4, <2>d, <3>1 DEF Current
  <2>5. ASSUME Effect(rpc, rpc'.status), rpc.op \in {"set", "delete"} PROVE Current(p)'
    <3> DEFINE v == IF rpc.op = "set" THEN job.value ELSE Absent
               q == rpc.param
    <3>1. PICK told \in SUBSET Params, learnt \in SUBSET {q} :
             /\ Changes(q, v, told, learnt)
             /\ learnt # {} => rpc.op = "set" /\ rpc'.status = "ok" /\ ~Ahead(q)
      <4>1. PICK notify \in NotifySelf :
               Changes(q, v, IF notify THEN Told(q) ELSE {},
                       IF rpc.op = "set" /\ rpc'.status = "ok" /\ ~Ahead(q) THEN {q} ELSE {})
        BY <2>2, <2>5 DEF Effect
      <4>2. (IF notify THEN Told(q) ELSE {}) \in SUBSET Params
        BY <2>2, ToldType
      <4>. QED  BY <4>1, <4>2
    <3>2. q \in Params /\ v \in Content /\ listed' = listed
      BY <2>2, <2>3, <2>5 DEF Content, Effect
    <3> HIDE DEF v, q
    <3>3. /\ server'[q] = v
          /\ p \notin told => updates'[p] = updates[p]
          /\ p \in told => updates'[p] # <<>> /\ updates'[p][Len(updates'[p])] \in Matching(server'[p])
          /\ p \in told \/ p \in learnt \/ (server'[p] = server[p] /\ p \notin unsettled /\ p # q)
      <4> HIDE DEF Base, JobInv, Handling
      <4>. QED  BY <1>t, <3>1, <3>2, ChangesMade
    <3>4. CASE p \in told
      <4>1. Ahead(p)'
        BY <3>3, <3>4 DEF Ahead
      <4>. QED  BY <3>3, <3>4, <4>1 DEF Current
    <3>5. CASE p \notin told /\ p \in learnt
      <4>1. p = q /\ rpc.op = "set" /\ rpc'.status = "ok" /\ ~Ahead(p)
        BY <3>1, <3>5
      <4>2. updates'[p] = <<>> /\ ~Mentions(mailbox, p) /\ ~IsUpdate(job, p) /\ Done("set", p)'
        BY <1>t, <2>2, <2>3, <3>3, <3>5, <4>1, AheadIs DEF IsUpdate, Done, q
      <4>3. job.value = server'[p]
        BY <3>3, <4>1 DEF v
      <4>. QED  BY <2>1, <2>2, <4>1, <4>2, <4>3, NothingMentioned DEF Current, Done
    <3>6. CASE p \notin told /\ server'[p] = server[p] /\ p \notin unsettled /\ p # q
      <4>1. ((Ahead(p))' <=> Ahead(p)) /\ Current(p) /\ updates'[p] = updates[p]
        BY <2>1, <3>2, <3>3, <3>6 DEF Ahead
      <4>2. (\A op : ~Done(op, p)') /\ rpc'.param # p
        BY <2>2, <3>6 DEF Done, q
      <4>. QED  BY <2>1, <2>d, <3>6, <4>1, <4>2 DEF Current
    <3>. QED  BY <3>3, <3>4, <3>5, <3>6
  <2>6. ASSUME Effect(rpc, rpc'.status), rpc.op = "subscribe" PROVE Current(p)'
    <3>1. /\ UNCHANGED <<server, updates>> /\ listed' = listed \cup {rpc.param}
          /\ unsettled' = IF Ahead(rpc.param) \/ cache[rpc.param] # Absent
                          THEN unsettled \cup {rpc.param} ELSE unsettled \ {rpc.param}
      BY <2>6 DEF Effect
    <3>2. (Ahead(p))' <=> Ahead(p)
      BY <2>1, <3>1, ActorKeepsQueues
    <3>3. CASE rpc.param = p
      <4>1. ~Ahead(p) /\ cache[p] = Absent /\ ~IsUpdate(job, p)
        BY <2>3, <2>6, <3>1, <3>3 DEF IsUpdate
      <4>2. updates[p] = <<>> /\ ~Mentions(mailbox, p)
        BY <1>t, <4>1, AheadIs
      <4>. QED  BY <2>1, <2>2, <2>6, <3>1, <3>3, <4>1, <4>2, NothingMentioned DEF Current, Done
    <3>4. CASE rpc.param # p
      <4>1. Current(p) /\ (\A op : ~Done(op, p)') /\ rpc'.param # p
        BY <2>2, <3>1, <3>4 DEF Done
      <4>. QED  BY <2>1, <2>d, <3>1, <3>2, <4>1 DEF Current
    <3>. QED  BY <3>3, <3>4
  <2>7. ASSUME Effect(rpc, rpc'.status), rpc.op = "unsubscribe" PROVE Current(p)'
    <3>1. UNCHANGED <<server, updates, unsettled>> /\ listed' = listed \ {rpc.param}
      BY <2>7 DEF Effect
    <3>2. ((Ahead(p))' <=> Ahead(p)) /\ Current(p) /\ (\A op : ~Done(op, p)') /\ rpc'.param # p
      BY <2>1, <2>2, <3>1, ActorKeepsQueues DEF Done
    <3>. QED  BY <2>1, <2>d, <3>1, <3>2 DEF Current
  <2>8. ASSUME Effect(rpc, rpc'.status), rpc.op \in {"get", "has", "read"} PROVE Current(p)'
    <3>1. /\ UNCHANGED <<server, updates, listed>> /\ unsettled \subseteq unsettled'
          /\ rpc.op = "has" /\ rpc'.status = "err" /\ ~Ahead(rpc.param) => rpc.param \in unsettled'
      BY <2>8 DEF Effect
    <3>2. ((Ahead(p))' <=> Ahead(p)) /\ Current(p)
      BY <2>1, <3>1, ActorKeepsQueues
    <3>3. /\ Done("get", p)' \/ Done("has", p)' => rpc'.answer = server[p]
          /\ ~Done("set", p)' /\ ~Done("subscribe", p)'
          /\ ~Ahead(p) => ~(rpc'.op = "has" /\ rpc'.status = "err" /\ rpc'.param = p)
      BY <2>2, <2>8, <3>1 DEF Done
    <3>. QED  BY <2>1, <2>d, <3>1, <3>2, <3>3 DEF Current
  <2>9. rpc.op \in {"set", "delete", "subscribe", "unsubscribe", "get", "has", "read"}
    BY <2>2 DEF ServerOps
  <2>. QED  BY <2>2, <2>4, <2>5, <2>6, <2>7, <2>8, <2>9
<1>25. ASSUME NEW r \in Params, ParamUpdate(r) PROVE Current(p)'
  <2> DEFINE u == [kind |-> "update", param |-> r, value |-> Head(updates[r])]
  <2>1. /\ updates[r] # <<>> /\ updates' = [updates EXCEPT ![r] = Tail(@)]
        /\ mailbox' = Append(mailbox, u)
        /\ UNCHANGED <<job, rpc, cache, subscribed, server>> /\ p \in listed /\ p \notin unsettled
    BY <1>t, <1>25 DEF ParamUpdate, localVars, Queued
  <2>2. u \in Message /\ updates[r] \in Seq(Values) /\ mailbox \in Seq(Message) /\ Current(p)
    BY <1>t, <2>1, UpdateMade DEF Types
  <2>3. (IsUpdate(u, p) <=> r = p) /\ u.value = Head(updates[r])
    BY DEF IsUpdate
  <2> DEFINE V == Matching(server[p])
  <2> HIDE DEF u
  <2>4. /\ Mentions(mailbox', p) <=> Mentions(mailbox, p) \/ r = p
        /\ r = p /\ u.value \in V => LastIn(mailbox', p, V)
        /\ r # p /\ LastIn(mailbox, p, V) => LastIn(mailbox', p, V)
    BY <2>1, <2>2, <2>3, AppendedUpdate
  <2>5. CASE r = p
    <3>1. updates'[p] = Tail(updates[p]) /\ updates[p] # <<>> /\ updates[p] \in Seq(Values)
      BY <1>t, <2>1, <2>2, <2>5 DEF Types
    <3>2. /\ updates'[p] # <<>> => updates'[p][Len(updates'[p])] = updates[p][Len(updates[p])]
          /\ updates'[p] = <<>> => u.value = updates[p][Len(updates[p])]
      BY <2>3, <2>5, <3>1, LastOfTail
    <3>3. Ahead(p)'
      BY <1>t, <2>4, <2>5, AheadIs, AheadThen
    <3>. QED  BY <2>1, <2>2, <2>4, <2>5, <3>1, <3>2, <3>3 DEF Current
  <2>6. CASE r # p
    <3>1. updates'[p] = updates[p]
      BY <1>t, <2>1, <2>6 DEF Types
    <3>2. (Ahead(p))' <=> Ahead(p)
      BY <1>t, <2>4, <2>6, <3>1, AheadIs, AheadThen
    <3>. QED  BY <2>1, <2>2, <2>4, <2>6, <3>1, <3>2 DEF Current, Done
  <2>. QED  BY <2>5, <2>6
<1>26. ASSUME NEW q \in Params, NEW v \in Content, OtherChanges(q, v) PROVE Current(p)'
  <2>1. /\ Changes(q, v, Told(q), {}) /\ Told(q) \in SUBSET Params
        /\ UNCHANGED <<job, rpc, cache, subscribed, mailbox, listed>>
    BY <1>26, ToldType DEF OtherChanges, localVars
  <2>2. /\ p \notin Told(q) => updates'[p] = updates[p]
        /\ p \in Told(q) => updates'[p] # <<>> /\ updates'[p][Len(updates'[p])] \in Matching(server'[p])
        /\ p \in Told(q) \/ (server'[p] = server[p] /\ p \notin unsettled)
    <3> HIDE DEF Base, JobInv, Handling
    <3>0. PICK none \in SUBSET {} : Changes(q, v, Told(q), none)
      BY <2>1
    <3>1. /\ p \notin Told(q) => updates'[p] = updates[p]
          /\ p \in Told(q) => /\ updates'[p] # <<>>
                               /\ updates'[p][Len(updates'[p])] \in Matching(server'[p])
          /\ p \in listed /\ p \notin unsettled' =>
                p \in Told(q) \/ p \in none \/ (server'[p] = server[p] /\ p \notin unsettled)
      BY <1>t, <2>1, <3>0, ChangesMade
    <3>. QED  BY <2>1, <3>0, <3>1
  <2>3. CASE p \in Told(q)
    <3>1. Ahead(p)'
      BY <2>2, <2>3 DEF Ahead
    <3>. QED  BY <2>2, <2>3, <3>1 DEF Current
  <2>4. CASE p \notin Told(q)
    <3>1. ((Ahead(p))' <=> Ahead(p)) /\ Current(p) /\ updates'[p] = updates[p] /\ server'[p] = server[p]
      BY <2>1, <2>2, <2>4 DEF Ahead
    <3>. QED  BY <2>1, <3>1 DEF Current, Done
  <2>. QED  BY <2>3, <2>4
<1>27. ASSUME NEW c \in Clients, CallParam(c) \/ CallSet(c) PROVE Current(p)'
  <2>1. PICK m \in Message : Call(c, m) /\ m.kind # "update"
    BY <1>t, <1>27, UserCalls
  <2>2. /\ UNCHANGED <<job, rpc, cache, subscribed, updates, server>>
        /\ p \in listed /\ p \notin unsettled /\ mailbox' = Append(mailbox, m)
    BY <1>t, <2>1 DEF Call, localVars, heldVars, Queued
  <2>3. ~IsUpdate(m, p) /\ mailbox \in Seq(Message) /\ Current(p)
    BY <1>t, <2>1, <2>2 DEF IsUpdate, Types
  <2>4. /\ Mentions(mailbox', p) <=> Mentions(mailbox, p)
        /\ \A V : LastIn(mailbox, p, V) => LastIn(mailbox', p, V)
    BY <2>2, <2>3, AppendedUpdate
  <2>5. (Ahead(p))' <=> Ahead(p)
    BY <1>t, <2>2, <2>4, AheadIs, AheadThen
  <2>. QED  BY <2>2, <2>3, <2>4, <2>5 DEF Current, Done
<1>28. ASSUME NEW c \in Clients, Cancel(c) PROVE Current(p)'
  <2>1. /\ UNCHANGED <<job, rpc, cache, subscribed, mailbox, updates, server>>
        /\ p \in listed /\ p \notin unsettled
    BY <1>28 DEF Cancel, localVars, serverVars, heldVars
  <2>. QED  BY <2>1, ActorKeepsQueues DEF Current, Done
<1>29. CASE RequestStop
  BY <1>t, <1>29 DEF RequestStop
<1>30. CASE UNCHANGED vars
  <2>1. /\ UNCHANGED <<job, rpc, cache, subscribed, mailbox, updates, server>>
        /\ p \in listed /\ p \notin unsettled
    BY <1>30 DEF vars, localVars, serverVars, heldVars
  <2>. QED  BY <2>1, ActorKeepsQueues DEF Current, Done
<1>. QED
  BY <1>1, <1>2, <1>3, <1>4, <1>5, <1>6, <1>7, <1>8, <1>9, <1>10, <1>11, <1>12, <1>13, <1>14,
     <1>15, <1>16, <1>17, <1>18, <1>19, <1>20, <1>21, <1>22, <1>23, <1>24, <1>25, <1>26, <1>27,
     <1>28, <1>29, <1>30
  DEF Next, Actor, Other, CallAfterEnd

(* The types, with every waiting caller's call held, and the server knowing  *)
(* of every subscription the actor counts on.                                *)
LEMMA ParameterBase == Spec => [](Base /\ WaitersHeld /\ ServerInv)
<1>1. Init => WaitersHeld /\ ServerInv
  BY CallFacts DEF Init, WaitersHeld, ServerInv, InDoubt
<1>2. Base /\ WaitersHeld /\ ServerInv /\ [Next]_vars => (Base /\ WaitersHeld /\ ServerInv)'
  BY BaseNext, WaitersNext, ServerNext
<1>. QED  BY <1>1, <1>2, BaseInit, PTL DEF Spec

LEMMA TypesAndWaiters == Base /\ WaitersHeld => TypeOK
<1> SUFFICES ASSUME Base, WaitersHeld PROVE TypeOK
  OBVIOUS
<1>1. ASSUME NEW c \in Clients, client[c] = "waiting", ~stopping
      PROVE  \E m \in {job} \cup {mailbox[i] : i \in DOMAIN mailbox} :
                m.kind \notin {"none", "update"} /\ m.from = c
  <2>1. DOMAIN mailbox = 1..Len(mailbox)
    BY DEF Base, Types
  <2>. QED  BY <1>1, <2>1 DEF WaitersHeld, CallsOf
<1>. QED  BY <1>1 DEF Base, Types, TypeOK

(* A parameter the actor counts on updates for is one the server sends them  *)
(* for, whatever calls fail and wherever the actor is; and every waiting     *)
(* caller's call is still held by it (183-184, 237-239).                     *)
THEOREM ParameterSubscriptionBacked == Spec => []SubscriptionBacked
<1>1. Base /\ WaitersHeld /\ ServerInv => SubscriptionBacked
  BY TypesAndWaiters DEF SubscriptionBacked, ServerInv
<1>. QED  BY <1>1, ParameterBase, PTL

(* The server lists the node only for what it is subscribed to or has a call *)
(* under way about, and after a stop for nothing, unless a call has failed.  *)
THEOREM ParameterListedTracked == Spec => []ListedTracked
<1>1. Base /\ WaitersHeld /\ ServerInv => ListedTracked
  BY CallFacts DEF ServerInv, ListedTracked, InDoubt
<1>. QED  BY <1>1, ParameterBase, PTL

(* Once no update is in flight or queued the cache holds what the server     *)
(* does, whatever order sets, deletions, updates and answers came in and     *)
(* whichever calls failed, for every parameter of whose last change the      *)
(* actor had a way to know.                                                  *)
THEOREM ParameterCacheCurrent == Spec => []CacheCurrent
<1>1. Init => CacheInv
  BY DEF Init, CacheInv
<1>2. Base /\ Base' /\ ServerInv /\ CacheInv /\ [Next]_vars => CacheInv'
  <2> SUFFICES ASSUME Base, Base', ServerInv, CacheInv, [Next]_vars, Active',
                      NEW p \in listed' \ unsettled'
               PROVE  Current(p)'
    BY DEF CacheInv
  <2>1. Active /\ p \in Params
    BY ActiveNext DEF Base, Types
  <2>2. p \in listed /\ p \notin unsettled => Current(p)
    BY <2>1 DEF CacheInv
  <2>. QED  BY <2>1, <2>2, CurrentNext
<1>3. Base /\ ServerInv /\ CacheInv => CacheCurrent
  <2> SUFFICES ASSUME Base, ServerInv, CacheInv, Quiet, NEW p \in subscribed \ unsettled
               PROVE  cache[p] # Absent => cache[p] = server[p]
    BY DEF CacheCurrent
  <2>1. p \in Params /\ p \in listed /\ Types
    BY DEF Base, Types, ServerInv
  <2>2. Current(p) /\ job = NoJob /\ rpc = NoCall
    BY <2>1 DEF CacheInv, Active, Running, Quiet, Base, JobInv
  <2>3. ~Ahead(p)
    BY <2>1, AheadIs, NothingMentioned DEF Quiet
  <2>. QED  BY <2>2, <2>3, CallFacts DEF Current, IsUpdate, Done
<1>. QED  BY <1>1, <1>2, <1>3, ParameterBase, PTL DEF Spec
=============================================================================
