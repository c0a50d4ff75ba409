------------------------- MODULE SubscriberActor_proofs -------------------------
(* Theorems about SubscriberActor, for every value of its constants.         *)
EXTENDS SubscriberActor, TLAPS

(* What the actor is doing agrees with the message it has taken, the master  *)
(* call it awaits and the publishers it is connecting to.                    *)
JobInv ==
    /\ pc \in {"idle", "post_stop", "stopped", "failed"} => job = NoJob
    /\ pc = "handle" => job # NoJob
    /\ pc \in {"stale", "register"} => job.kind = "register"
    /\ pc = "connect" => job.kind \in {"register", "update"}
    /\ pc = "unregister" => job.kind \in {"drop", "unregister"}
    /\ pc \in {"idle", "handle", "connect", "stopped", "failed"} => rpc = NoCall
    /\ pc \in {"stale", "register", "unregister"} =>
          rpc # NoCall /\ rpc.topic = job.topic /\ registry[job.topic] = None
    /\ pc = "connect" /\ job.kind = "register" => registry[job.topic] = None
    /\ pc \in {"stale", "unregister", "post_stop"} => rpc.op # "register"
    /\ pc = "register" => rpc.op = "register"
    /\ pc # "connect" => todo = {} /\ target = None

(* Guards that are referred to were given a topic; those of subscriptions    *)
(* not yet cleaned up are armed.                                             *)
GuardInv ==
    /\ \A t \in Topics : registry[t] # None =>
          topicOf[registry[t]] = t /\ armed[registry[t]]
    /\ \A g \in draining : topicOf[g] \in Topics /\ armed[g]
    /\ \A g \in dropping : topicOf[g] \in Topics /\ ~Upgrades(g)
    /\ \A c \in Clients : held[c] # None => topicOf[held[c]] \in Topics

StopInv ==
    /\ draining # {} => pc = "post_stop"
    /\ ~Running \/ pc = "post_stop" => \A t \in Topics : registry[t] = None

Base == TypeOK /\ JobInv /\ GuardInv /\ StopInv

USE DEF loopVars, guardVars, userVars, masterVars, Rest

LEMMA BaseInit == Init => Base
<1> SUFFICES ASSUME Init PROVE Base
  OBVIOUS
<1> USE SubscriberAssumption DEF Init
<1>1. TypeOK
  <2>1. mailbox \in Seq(Message)
    OBVIOUS
  <2>. QED  BY <2>1 DEF TypeOK, NoJob, NoCall
<1>2. JobInv /\ StopInv
  BY DEF JobInv, StopInv, NoJob, NoCall, Running
<1>3. GuardInv
  BY DEF GuardInv, Upgrades, Holders
<1>. QED  BY <1>1, <1>2, <1>3 DEF Base

(* What the master's answer makes of a call.                                 *)
LEMMA AnsweredCall ==
  ASSUME NEW call \in MasterCall, NEW ps \in SUBSET Pubs
  PROVE  /\ [call EXCEPT !.status = "ok", !.pubs = ps] \in MasterCall
         /\ [call EXCEPT !.status = "ok", !.pubs = ps].op = call.op
         /\ [call EXCEPT !.status = "ok", !.pubs = ps].topic = call.topic
         /\ [call EXCEPT !.status = "err"] \in MasterCall
         /\ [call EXCEPT !.status = "err"].op = call.op
         /\ [call EXCEPT !.status = "err"].topic = call.topic
BY DEF MasterCall

(* The answered call is still the call that was sent.                        *)
LEMMA AnswerKeepsCall ==
  ASSUME TypeOK, MasterAnswers
  PROVE  rpc' \in MasterCall /\ rpc'.op = rpc.op /\ rpc'.topic = rpc.topic
<1>1. rpc \in MasterCall /\ pubs[rpc.topic] \in SUBSET Pubs
  BY DEF MasterAnswers, TypeOK, NoCall, MasterCall
<1>2. \/ \E ps \in SUBSET Pubs : rpc' = [rpc EXCEPT !.status = "ok", !.pubs = ps]
      \/ rpc' = [rpc EXCEPT !.status = "err"]
  BY <1>1 DEF MasterAnswers
<1>. QED  BY <1>1, <1>2, AnsweredCall

(* Ending a handler with reply.send(...)? keeps the base invariant, whether  *)
(* the port is open or closed.                                               *)
LEMMA ReplyKeepsBase ==
  ASSUME Base, NEW c \in Clients, Reply(c), Running, pc \notin {"post_stop", "connect"}, Rest,
         \/ held' = held
         \/ \E h \in Guards : /\ h \notin dropping /\ topicOf[h] \in Topics
                              /\ held' = [held EXCEPT ![c] = h]
  PROVE  Base'
<1> USE SubscriberAssumption DEF Base, Running, NoJob, NoCall
<1>0. /\ held' \in [Clients -> Guards \cup {None}]
      /\ \A d \in Clients : held'[d] # None =>
            topicOf[held'[d]] \in Topics /\ held'[d] \notin dropping
  <2>1. CASE held' = held
    BY <2>1 DEF TypeOK, GuardInv, Upgrades, Holders
  <2>2. CASE \E h \in Guards : /\ h \notin dropping /\ topicOf[h] \in Topics
                              /\ held' = [held EXCEPT ![c] = h]
    BY <2>2 DEF TypeOK, GuardInv, Upgrades, Holders
  <2>. QED  BY <2>1, <2>2
<1>1. CASE Fail
  <2>2. TypeOK'
    BY <1>0, <1>1 DEF Fail, TypeOK, Released
  <2>3. GuardInv'
    BY <1>0, <1>1 DEF Fail, GuardInv, TypeOK, Upgrades, Holders
  <2>. QED
    BY <1>1, <2>2, <2>3 DEF Fail, JobInv, StopInv
<1>2. CASE ~Fail
  <2>1. Idle /\ client' = [client EXCEPT ![c] = "idle"]
        /\ UNCHANGED <<registry, links, missed, mailbox>>
    BY <1>2 DEF Reply
  <2>2. TypeOK'
    BY <1>0, <2>1 DEF Idle, TypeOK
  <2>3. GuardInv'
    BY <1>0, <2>1 DEF Idle, GuardInv, TypeOK, Upgrades, Holders
  <2>. QED
    BY <2>1, <2>2, <2>3 DEF Idle, JobInv, StopInv
<1>. QED  BY <1>1, <1>2

LEMMA BaseNext == Base /\ [Next]_vars => Base'
<1> SUFFICES ASSUME Base, [Next]_vars PROVE Base'
  OBVIOUS
<1> USE SubscriberAssumption
    DEF Base, TypeOK, JobInv, GuardInv, StopInv, Running, Upgrades, Holders, NoJob, NoCall,
        MasterCall, Idle, Fail, Reply, Released, Disarmed, Registered, Unused
<1>1. ASSUME NEW c \in Clients, NEW k \in Requests, NEW t \in Topics, Call(c, k, t) PROVE Base'
  BY <1>1 DEF Call, Message, CallMsg, DropMsg, UpdateMsg
<1>2. ASSUME NEW c \in Clients, NEW d \in Clients, CloneHandle(c, d) PROVE Base'
  BY <1>2 DEF CloneHandle
<1>3. ASSUME NEW c \in Clients, DropHandle(c) PROVE Base'
  BY <1>3 DEF DropHandle
<1>4. ASSUME NEW g \in Guards, DropGuard(g) PROVE Base'
  BY <1>4 DEF DropGuard, Message, CallMsg, DropMsg, UpdateMsg
<1>5. ASSUME NEW t \in Topics, NEW p \in Pubs, Join(t, p) PROVE Base'
  <2>1. /\ UNCHANGED <<loopVars, stopping, mailbox, guardVars, dropping, userVars, master>>
        /\ pubs' \in [Topics -> SUBSET Pubs] /\ left' \in [Topics -> SUBSET Pubs]
    BY <1>5 DEF Join
  <2>2. updates' \in SUBSET UpdateMsg
    <3>1. pubs'[t] \in SUBSET Pubs
      BY <2>1
    <3>2. [kind |-> "update", topic |-> t, pubs |-> pubs'[t]] \in UpdateMsg
      BY <3>1 DEF UpdateMsg
    <3>. QED  BY ZenonT(60), <1>5, <3>2 DEF Join, Told
  <2>3. TypeOK'
    BY <2>1, <2>2
  <2>. QED  BY <2>1, <2>3
<1>6. ASSUME NEW t \in Topics, NEW p \in Pubs, Leave(t, p) PROVE Base'
  <2>1. /\ UNCHANGED <<loopVars, stopping, mailbox, guardVars, dropping, userVars, master>>
        /\ pubs' \in [Topics -> SUBSET Pubs] /\ left' \in [Topics -> SUBSET Pubs]
    BY <1>6 DEF Leave
  <2>2. updates' \in SUBSET UpdateMsg
    <3>1. pubs'[t] \in SUBSET Pubs
      BY <2>1
    <3>2. [kind |-> "update", topic |-> t, pubs |-> pubs'[t]] \in UpdateMsg
      BY <3>1 DEF UpdateMsg
    <3>. QED  BY ZenonT(60), <1>6, <3>2 DEF Leave, Told
  <2>3. TypeOK'
    BY <2>1, <2>2
  <2>. QED  BY <2>1, <2>3
<1>7. ASSUME NEW t \in Topics, NEW p \in Pubs, LinkEnds(t, p) PROVE Base'
  BY <1>7 DEF LinkEnds
<1>8. CASE MasterAnswers
  <2>1. rpc \in MasterCall
    BY <1>8 DEF MasterAnswers
  <2>2. /\ rpc' \in MasterCall /\ rpc'.op = rpc.op /\ rpc'.topic = rpc.topic
        /\ master' \in SUBSET Topics
    <3>1. rpc' \in MasterCall /\ rpc'.op = rpc.op /\ rpc'.topic = rpc.topic
      BY <1>8, AnswerKeepsCall
    <3>2. master' \in {master, MasterEffect} /\ rpc.topic \in Topics
      BY <1>8, <2>1 DEF MasterAnswers
    <3>. QED  BY <3>1, <3>2 DEF MasterEffect
  <2>3. UNCHANGED <<pc, job, todo, target, draining, registry, links, missed, stopping,
                    mailbox, guardVars, dropping, userVars, pubs, left, updates>>
    BY <1>8 DEF MasterAnswers
  <2>4. TypeOK'
    BY <2>2, <2>3
  <2>. QED  BY <2>1, <2>2, <2>3, <2>4
<1>9. CASE Receive
  BY <1>9 DEF Receive, Message, CallMsg, DropMsg, UpdateMsg
<1>10. CASE ReceiveUpdate
  BY <1>10 DEF ReceiveUpdate, Message, CallMsg, DropMsg, UpdateMsg
<1>11. CASE RegisterExisting
  <2>1. job.from \in Clients /\ job.topic \in Topics
    BY <1>11 DEF RegisterExisting, Registers, Message, CallMsg, DropMsg, UpdateMsg
  <2>2. registry[job.topic] \in Guards /\ topicOf[registry[job.topic]] \in Topics
        /\ registry[job.topic] \notin dropping
    BY <1>11, <2>1 DEF RegisterExisting, Existing
  <2>3. \/ held' = held
        \/ \E h \in Guards : /\ h \notin dropping /\ topicOf[h] \in Topics
                             /\ held' = [held EXCEPT ![job.from] = h]
    BY <1>11, <2>2 DEF RegisterExisting, Existing
  <2>4. Reply(job.from) /\ Rest /\ Running /\ pc \notin {"post_stop", "connect"}
    BY <1>11 DEF RegisterExisting, Registers
  <2>. QED
    <3> HIDE DEF TypeOK, JobInv, GuardInv, StopInv, Reply, Base, Running, Rest
    <3>. QED  BY <2>1, <2>3, <2>4, ReplyKeepsBase
<1>12. CASE RegisterStale
  BY <1>12 DEF RegisterStale, Registers, Existing, Await, Calls, Message, CallMsg, DropMsg, UpdateMsg
<1>13. CASE StaleCleaned
  BY <1>13 DEF StaleCleaned, Returned
<1>14. CASE CreateSubscription
  BY <1>14 DEF CreateSubscription, Registers, Existing, Await, Calls, Message, CallMsg, DropMsg, UpdateMsg
<1>15. CASE CreateFails
  <2>1. job.from \in Clients
    BY <1>15 DEF CreateFails, Registers, Message, CallMsg, DropMsg, UpdateMsg
  <2>2. CASE Reply(job.from)
    BY <1>15, <2>1, <2>2, ReplyKeepsBase DEF CreateFails, Registers
  <2>3. CASE Fail
    BY <1>15, <2>3 DEF CreateFails, Registers
  <2>. QED  BY <1>15, <2>2, <2>3 DEF CreateFails
<1>16. CASE RegisterRefused
  <2>1. job.from \in Clients
    BY <1>16 DEF RegisterRefused, Message, CallMsg, DropMsg, UpdateMsg
  <2>. QED  BY <1>16, <2>1, ReplyKeepsBase DEF RegisterRefused
<1>17. CASE Accept
  BY <1>17 DEF Accept, Accepted
<1>18. ASSUME NEW p \in Pubs, Connect(p) PROVE Base'
  BY <1>18 DEF Connect
<1>19. CASE Connected
  BY <1>19 DEF Connected, Message, CallMsg, DropMsg, UpdateMsg
<1>20. CASE ConnectFails
  <2>1. pubs[job.topic] \in SUBSET Pubs
    BY <1>20 DEF ConnectFails, Message, CallMsg, DropMsg, UpdateMsg
  <2>2. missed' \in [Topics -> SUBSET Pubs]
    BY <1>20, <2>1 DEF ConnectFails
  <2>3. TypeOK'
    BY <1>20, <2>2 DEF ConnectFails
  <2>. QED  BY <1>20, <2>3 DEF ConnectFails
<1>21. ASSUME NEW g \in Guards, FinishRegister(g) PROVE Base'
  <2>0. job.topic \in Topics /\ job.from \in Clients /\ pc = "connect" /\ job.kind = "register"
    BY <1>21 DEF FinishRegister, AllTried, Message, CallMsg, DropMsg, UpdateMsg
  <2>u. g \in Unused
    BY <1>21 DEF FinishRegister
  <2>1. /\ job.topic \in Topics /\ job.from \in Clients
        /\ registry[job.topic] = None /\ draining = {} /\ Running /\ g \notin dropping
        /\ \A c \in Clients : held[c] # g
        /\ \A t \in Topics : registry[t] # g
    BY <2>0, <2>u
  <2>2. topicOf' \in [Guards -> Topics \cup {None}] /\ armed' \in [Guards -> BOOLEAN]
    BY <1>21, <2>1 DEF FinishRegister
  <2>3. CASE Fail /\ UNCHANGED held
    <3>1. TypeOK'
      BY <1>21, <2>2, <2>3 DEF FinishRegister, AllTried
    <3>. QED  BY <1>21, <2>1, <2>3, <3>1 DEF FinishRegister, AllTried
  <2>4. CASE ~(Fail /\ UNCHANGED held)
    <3>1. /\ held' = [held EXCEPT ![job.from] = g] /\ registry' = [registry EXCEPT ![job.topic] = g]
          /\ client' = [client EXCEPT ![job.from] = "idle"] /\ UNCHANGED <<links, mailbox>> /\ Idle
      BY <1>21, <2>4 DEF FinishRegister
    <3>2. held' \in [Clients -> Guards \cup {None}] /\ registry' \in [Topics -> Guards \cup {None}]
      BY <3>1
    <3>3. TypeOK'
      BY <1>21, <2>2, <3>1, <3>2 DEF FinishRegister
    <3>4. JobInv' /\ StopInv'
      BY <1>21, <2>1, <3>1 DEF FinishRegister, AllTried
    <3>5. GuardInv'
      <4>1. /\ topicOf' = [topicOf EXCEPT ![g] = job.topic] /\ armed' = [armed EXCEPT ![g] = TRUE]
            /\ UNCHANGED <<draining, dropping>>
        BY <1>21 DEF FinishRegister
      <4>. QED  BY <2>1, <3>1, <4>1
    <3>. QED  BY <3>3, <3>4, <3>5
  <2>. QED  BY <2>3, <2>4
<1>22. CASE Update
  BY <1>22 DEF Update, Existing, ListedUnlinked, Message, CallMsg, DropMsg, UpdateMsg
<1>23. CASE UpdateDone
  BY <1>23 DEF UpdateDone, AllTried, Existing
<1>24. CASE Unregister
  BY <1>24 DEF Unregister, Existing, Await, Calls, Message, CallMsg, DropMsg, UpdateMsg
<1>25. CASE FinishUnregister
  <2>1. CASE job.kind = "drop"
    BY <1>25, <2>1 DEF FinishUnregister
  <2>2. CASE job.kind # "drop"
    <3>1. job.from \in Clients
      BY <1>25, <2>2 DEF FinishUnregister, Message, CallMsg, DropMsg, UpdateMsg
    <3>. QED  BY <1>25, <2>2, <3>1, ReplyKeepsBase DEF FinishUnregister
  <2>. QED  BY <2>1, <2>2
<1>26. CASE RequestStop
  BY <1>26 DEF RequestStop
<1>27. CASE BeginPostStop
  BY <1>27 DEF BeginPostStop
<1>28. ASSUME NEW g \in Guards, PostStopCleanup(g) PROVE Base'
  BY <1>28 DEF PostStopCleanup, Calls
<1>29. CASE PostStopCleaned
  BY <1>29 DEF PostStopCleaned, Returned
<1>30. CASE Stopped
  BY <1>30 DEF Stopped
<1>31. CASE CallAfterEnd \/ UNCHANGED vars
  BY <1>31 DEF CallAfterEnd, vars
<1>. QED
  BY <1>1, <1>2, <1>3, <1>4, <1>5, <1>6, <1>7, <1>8, <1>9, <1>10, <1>11, <1>12, <1>13, <1>14,
     <1>15, <1>16, <1>17, <1>18, <1>19, <1>20, <1>21, <1>22, <1>23, <1>24, <1>25, <1>26, <1>27,
     <1>28, <1>29, <1>30, <1>31
  DEF Next, Actor, User, Master

LEMMA SubscriberBase == Spec => []Base
<1>1. Base /\ [Next]_vars => Base'
  BY BaseNext
<1>. QED  BY BaseInit, <1>1, PTL DEF Spec

-----------------------------------------------------------------------------
(* A subscription is entered for a topic that the master lists the node for, *)
(* and the master is asked to forget a topic that has none.  The handler     *)
(* that registers holds on to the former while it connects to publishers.    *)
ListedInv ==
    /\ \A t \in Topics : registry[t] # None => t \in master
    /\ pc = "register" /\ rpc.status = "ok" => rpc.topic \in master
    /\ pc = "connect" /\ job.kind = "register" => job.topic \in master
    /\ rpc.op = "unregister" => registry[rpc.topic] = None

LEMMA ListedNext == Base /\ Base' /\ ListedInv /\ [Next]_vars => ListedInv'
<1> SUFFICES ASSUME Base, Base', ListedInv, [Next]_vars PROVE ListedInv'
  OBVIOUS
<1> USE SubscriberAssumption
    DEF ListedInv, Base, TypeOK, JobInv, StopInv, Running, NoJob, NoCall, MasterCall, Idle, Fail, Reply
<1>1. ASSUME NEW c \in Clients, NEW k \in Requests, NEW t \in Topics, Call(c, k, t) PROVE ListedInv'
  BY <1>1 DEF Call
<1>2. ASSUME NEW c \in Clients, NEW d \in Clients, CloneHandle(c, d) PROVE ListedInv'
  BY <1>2 DEF CloneHandle
<1>3. ASSUME NEW c \in Clients, DropHandle(c) PROVE ListedInv'
  BY <1>3 DEF DropHandle
<1>4. ASSUME NEW g \in Guards, DropGuard(g) PROVE ListedInv'
  BY <1>4 DEF DropGuard
<1>5. ASSUME NEW t \in Topics, NEW p \in Pubs, Join(t, p) PROVE ListedInv'
  BY <1>5 DEF Join, Told
<1>6. ASSUME NEW t \in Topics, NEW p \in Pubs, Leave(t, p) PROVE ListedInv'
  BY <1>6 DEF Leave, Told
<1>7. ASSUME NEW t \in Topics, NEW p \in Pubs, LinkEnds(t, p) PROVE ListedInv'
  BY <1>7 DEF LinkEnds
<1>8. CASE MasterAnswers
  BY <1>8 DEF MasterAnswers, MasterEffect
<1>9. CASE Receive
  BY <1>9 DEF Receive
<1>10. CASE ReceiveUpdate
  BY <1>10 DEF ReceiveUpdate
<1>11. CASE RegisterExisting
  BY <1>11 DEF RegisterExisting, Registers, Existing
<1>12. CASE RegisterStale
  BY <1>12 DEF RegisterStale, Registers, Existing, Await, Calls
<1>13. CASE StaleCleaned
  BY <1>13 DEF StaleCleaned, Returned
<1>14. CASE CreateSubscription
  BY <1>14 DEF CreateSubscription, Registers, Existing, Await, Calls
<1>15. CASE CreateFails
  BY <1>15 DEF CreateFails, Registers, Existing
<1>16. CASE RegisterRefused
  BY <1>16 DEF RegisterRefused
<1>17. CASE Accept
  BY <1>17 DEF Accept, Accepted
<1>18. ASSUME NEW p \in Pubs, Connect(p) PROVE ListedInv'
  BY <1>18 DEF Connect
<1>19. CASE Connected
  BY <1>19 DEF Connected
<1>20. CASE ConnectFails
  BY <1>20 DEF ConnectFails
<1>21. ASSUME NEW g \in Guards, FinishRegister(g) PROVE ListedInv'
  BY <1>21 DEF FinishRegister, AllTried
<1>22. CASE Update
  BY <1>22 DEF Update, Existing, ListedUnlinked
<1>23. CASE UpdateDone
  BY <1>23 DEF UpdateDone, AllTried, Existing
<1>24. CASE Unregister
  BY <1>24 DEF Unregister, Existing, Await, Calls
<1>25. CASE FinishUnregister
  BY <1>25 DEF FinishUnregister, Returned, Existing
<1>26. CASE RequestStop
  BY <1>26 DEF RequestStop
<1>27. CASE BeginPostStop
  BY <1>27 DEF BeginPostStop
<1>28. ASSUME NEW g \in Guards, PostStopCleanup(g) PROVE ListedInv'
  BY <1>28 DEF PostStopCleanup, Calls
<1>29. CASE PostStopCleaned
  BY <1>29 DEF PostStopCleaned, Returned
<1>30. CASE Stopped
  BY <1>30 DEF Stopped
<1>31. CASE CallAfterEnd \/ UNCHANGED vars
  BY <1>31 DEF CallAfterEnd, vars
<1>. QED
  BY <1>1, <1>2, <1>3, <1>4, <1>5, <1>6, <1>7, <1>8, <1>9, <1>10, <1>11, <1>12, <1>13, <1>14,
     <1>15, <1>16, <1>17, <1>18, <1>19, <1>20, <1>21, <1>22, <1>23, <1>24, <1>25, <1>26, <1>27,
     <1>28, <1>29, <1>30, <1>31
  DEF Next, Actor, User, Master

LEMMA RegistrarNext == Base /\ ListedInv /\ [Next]_vars => [Reg!Next]_<<registry, master>>
<1> SUFFICES ASSUME Base, ListedInv, [Next]_vars PROVE [Reg!Next]_<<registry, master>>
  OBVIOUS
<1> USE SubscriberAssumption DEF Reg!Next, Reg!LeaveAll
<1> USE DEF ListedInv, Base, TypeOK, JobInv, StopInv, Running, NoJob, NoCall, MasterCall, Idle, Fail, Reply
<1>1. ASSUME NEW c \in Clients, NEW k \in Requests, NEW t \in Topics, Call(c, k, t) PROVE [Reg!Next]_<<registry, master>>
  BY <1>1 DEF Call
<1>2. ASSUME NEW c \in Clients, NEW d \in Clients, CloneHandle(c, d) PROVE [Reg!Next]_<<registry, master>>
  BY <1>2 DEF CloneHandle
<1>3. ASSUME NEW c \in Clients, DropHandle(c) PROVE [Reg!Next]_<<registry, master>>
  BY <1>3 DEF DropHandle
<1>4. ASSUME NEW g \in Guards, DropGuard(g) PROVE [Reg!Next]_<<registry, master>>
  BY <1>4 DEF DropGuard
<1>5. ASSUME NEW t \in Topics, NEW p \in Pubs, Join(t, p) PROVE [Reg!Next]_<<registry, master>>
  BY <1>5 DEF Join, Told
<1>6. ASSUME NEW t \in Topics, NEW p \in Pubs, Leave(t, p) PROVE [Reg!Next]_<<registry, master>>
  BY <1>6 DEF Leave, Told
<1>7. ASSUME NEW t \in Topics, NEW p \in Pubs, LinkEnds(t, p) PROVE [Reg!Next]_<<registry, master>>
  BY <1>7 DEF LinkEnds
<1>8. CASE MasterAnswers
  <2>1. CASE rpc.op = "register"
    <3>1. rpc.topic \in Topics
      BY <1>8 DEF MasterAnswers
    <3>. QED  BY <1>8, <2>1, <3>1 DEF MasterAnswers, MasterEffect, Reg!Enlist
  <2>2. CASE rpc.op # "register"
    <3>1. rpc.topic \in Topics /\ registry[rpc.topic] = None
      BY <1>8, <2>2 DEF MasterAnswers
    <3>. QED  BY <1>8, <2>2, <3>1 DEF MasterAnswers, MasterEffect, Reg!Delist
  <2>. QED  BY <2>1, <2>2
<1>9. CASE Receive
  BY <1>9 DEF Receive
<1>10. CASE ReceiveUpdate
  BY <1>10 DEF ReceiveUpdate
<1>11. CASE RegisterExisting
  BY <1>11 DEF RegisterExisting, Registers, Existing
<1>12. CASE RegisterStale
  <2>1. job.topic \in Topics
    BY <1>12 DEF RegisterStale, Registers, Message, CallMsg, DropMsg, UpdateMsg
  <2>. QED  BY <1>12, <2>1 DEF RegisterStale, Reg!Leave
<1>13. CASE StaleCleaned
  BY <1>13 DEF StaleCleaned, Returned
<1>14. CASE CreateSubscription
  BY <1>14 DEF CreateSubscription, Registers, Existing, Await, Calls
<1>15. CASE CreateFails
  BY <1>15 DEF CreateFails, Registers, Existing
<1>16. CASE RegisterRefused
  BY <1>16 DEF RegisterRefused
<1>17. CASE Accept
  BY <1>17 DEF Accept, Accepted
<1>18. ASSUME NEW p \in Pubs, Connect(p) PROVE [Reg!Next]_<<registry, master>>
  BY <1>18 DEF Connect
<1>19. CASE Connected
  BY <1>19 DEF Connected
<1>20. CASE ConnectFails
  BY <1>20 DEF ConnectFails
<1>21. ASSUME NEW g \in Guards, FinishRegister(g) PROVE [Reg!Next]_<<registry, master>>
  <2>1. job.topic \in Topics /\ registry[job.topic] = None /\ job.topic \in master
    BY <1>21 DEF FinishRegister, AllTried, Message, CallMsg, DropMsg, UpdateMsg
  <2>2. CASE Fail
    BY <1>21, <2>2 DEF FinishRegister
  <2>3. CASE ~Fail
    <3>1. Reg!Enter(job.topic, g)
      BY <1>21, <2>1, <2>3 DEF FinishRegister, Reg!Enter
    <3>. QED  BY <2>1, <3>1
  <2>. QED  BY <2>2, <2>3
<1>22. CASE Update
  BY <1>22 DEF Update, Existing, ListedUnlinked
<1>23. CASE UpdateDone
  BY <1>23 DEF UpdateDone, AllTried, Existing
<1>24. CASE Unregister
  <2>1. job.topic \in Topics
    BY <1>24 DEF Unregister, Message, CallMsg, DropMsg, UpdateMsg
  <2>. QED  BY <1>24, <2>1 DEF Unregister, Reg!Leave
<1>25. CASE FinishUnregister
  BY <1>25 DEF FinishUnregister, Returned, Existing
<1>26. CASE RequestStop
  BY <1>26 DEF RequestStop
<1>27. CASE BeginPostStop
  BY <1>27 DEF BeginPostStop
<1>28. ASSUME NEW g \in Guards, PostStopCleanup(g) PROVE [Reg!Next]_<<registry, master>>
  BY <1>28 DEF PostStopCleanup, Calls
<1>29. CASE PostStopCleaned
  BY <1>29 DEF PostStopCleaned, Returned
<1>30. CASE Stopped
  BY <1>30 DEF Stopped
<1>31. CASE CallAfterEnd \/ UNCHANGED vars
  BY <1>31 DEF CallAfterEnd, vars
<1>. QED
  BY <1>1, <1>2, <1>3, <1>4, <1>5, <1>6, <1>7, <1>8, <1>9, <1>10, <1>11, <1>12, <1>13, <1>14,
     <1>15, <1>16, <1>17, <1>18, <1>19, <1>20, <1>21, <1>22, <1>23, <1>24, <1>25, <1>26, <1>27,
     <1>28, <1>29, <1>30, <1>31
  DEF Next, Actor, User, Master

(* The subscriber actor implements Registrar: it enters a subscription only  *)
(* for a topic the master lists it for, removes it before it asks the master *)
(* to forget the topic, and never puts one in another's place.               *)
THEOREM SubscriberImplementsRegistrar == Spec => RegistrarSpec
<1>1. Init => Reg!Init /\ ListedInv
  BY DEF Init, Reg!Init, ListedInv, NoCall
<1>2. Base /\ ListedInv /\ [Next]_vars => [Reg!Next]_<<registry, master>>
  BY RegistrarNext
<1>3. Base /\ Base' /\ ListedInv /\ [Next]_vars => ListedInv'
  BY ListedNext
<1>. QED  BY <1>1, <1>2, <1>3, SubscriberBase, PTL DEF Spec, RegistrarSpec, Reg!Spec

(* A topic has an entry only while the master lists the node as a subscriber *)
(* of it, however long its publishers keep the registering handler waiting.  *)
RegistryBacked == \A t \in Topics : registry[t] # None => t \in master

(* The entry is made after register_subscriber has succeeded and removed     *)
(* before the master is asked to forget the topic (287-311, 323-325).        *)
THEOREM SubscriberRegistryBacked == Spec => []RegistryBacked
<1>1. Init => ListedInv
  BY DEF Init, ListedInv, NoCall
<1>2. Base /\ Base' /\ ListedInv /\ [Next]_vars => ListedInv'
  BY ListedNext
<1>3. ListedInv => RegistryBacked
  BY DEF ListedInv, RegistryBacked
<1>. QED  BY <1>1, <1>2, <1>3, SubscriberBase, PTL DEF Spec

-----------------------------------------------------------------------------
(* The master's listing of t is accounted for: by a subscription, by a call  *)
(* about t that is in progress, by the handler that is about to enter it, or *)
(* by the shutdown that is about to undo it.                                 *)
Accounted(t) == \/ registry[t] # None
                \/ rpc # NoCall /\ rpc.topic = t
                \/ pc = "connect" /\ job.kind = "register" /\ job.topic = t
                \/ \E g \in draining : topicOf[g] = t

(* A step after which the master's listing of t is not accounted for, while  *)
(* before it was, follows a failed call or fails the actor.                  *)
Strands(t) ==
    (t \in master => Accounted(t)) /\ ~(t \in master => Accounted(t))'
        => rpc.status = "err" \/ pc' = "failed"

ByFailure == \A t \in Topics : Strands(t)

StrandedOnlyByFailure == [][ByFailure]_vars

(* What an answered unregister call has done, and that only a registration   *)
(* awaits a register call.                                                   *)
MasterInv ==
    /\ rpc.op = "unregister" /\ rpc.status = "ok" => rpc.topic \notin master
    /\ rpc.op = "register" => pc = "register"

LEMMA MasterNext == Base /\ Base' /\ MasterInv /\ [Next]_vars => MasterInv'
<1> SUFFICES ASSUME Base, Base', MasterInv, [Next]_vars PROVE MasterInv'
  OBVIOUS
<1> USE SubscriberAssumption
    DEF MasterInv, Base, TypeOK, JobInv, Running, NoJob, NoCall, MasterCall, Idle, Fail, Reply
<1>1. ASSUME NEW c \in Clients, NEW k \in Requests, NEW t \in Topics, Call(c, k, t) PROVE MasterInv'
  BY <1>1 DEF Call
<1>2. ASSUME NEW c \in Clients, NEW d \in Clients, CloneHandle(c, d) PROVE MasterInv'
  BY <1>2 DEF CloneHandle
<1>3. ASSUME NEW c \in Clients, DropHandle(c) PROVE MasterInv'
  BY <1>3 DEF DropHandle
<1>4. ASSUME NEW g \in Guards, DropGuard(g) PROVE MasterInv'
  BY <1>4 DEF DropGuard
<1>5. ASSUME NEW t \in Topics, NEW p \in Pubs, Join(t, p) PROVE MasterInv'
  BY <1>5 DEF Join, Told
<1>6. ASSUME NEW t \in Topics, NEW p \in Pubs, Leave(t, p) PROVE MasterInv'
  BY <1>6 DEF Leave, Told
<1>7. ASSUME NEW t \in Topics, NEW p \in Pubs, LinkEnds(t, p) PROVE MasterInv'
  BY <1>7 DEF LinkEnds
<1>8. CASE MasterAnswers
  <2>1. rpc \in MasterCall /\ pc' = pc
    BY <1>8 DEF MasterAnswers
  <2>2. rpc'.op = rpc.op /\ rpc'.topic = rpc.topic
    BY <1>8, AnswerKeepsCall
  <2>3. rpc'.status = "ok" => master' = MasterEffect
    BY <1>8, <2>1 DEF MasterAnswers
  <2>. QED  BY <2>1, <2>2, <2>3 DEF MasterEffect
<1>9. CASE Receive
  BY <1>9 DEF Receive
<1>10. CASE ReceiveUpdate
  BY <1>10 DEF ReceiveUpdate
<1>11. CASE RegisterExisting
  BY <1>11 DEF RegisterExisting, Registers, Existing
<1>12. CASE RegisterStale
  BY <1>12 DEF RegisterStale, Registers, Existing, Await, Calls
<1>13. CASE StaleCleaned
  BY <1>13 DEF StaleCleaned, Returned
<1>14. CASE CreateSubscription
  BY <1>14 DEF CreateSubscription, Registers, Existing, Await, Calls
<1>15. CASE CreateFails
  BY <1>15 DEF CreateFails, Registers, Existing
<1>16. CASE RegisterRefused
  BY <1>16 DEF RegisterRefused
<1>17. CASE Accept
  BY <1>17 DEF Accept, Accepted
<1>18. ASSUME NEW p \in Pubs, Connect(p) PROVE MasterInv'
  BY <1>18 DEF Connect
<1>19. CASE Connected
  BY <1>19 DEF Connected
<1>20. CASE ConnectFails
  BY <1>20 DEF ConnectFails
<1>21. ASSUME NEW g \in Guards, FinishRegister(g) PROVE MasterInv'
  BY <1>21 DEF FinishRegister, AllTried
<1>22. CASE Update
  BY <1>22 DEF Update, Existing, ListedUnlinked
<1>23. CASE UpdateDone
  BY <1>23 DEF UpdateDone, AllTried, Existing
<1>24. CASE Unregister
  BY <1>24 DEF Unregister, Existing, Await, Calls
<1>25. CASE FinishUnregister
  BY <1>25 DEF FinishUnregister, Returned, Existing
<1>26. CASE RequestStop
  BY <1>26 DEF RequestStop
<1>27. CASE BeginPostStop
  BY <1>27 DEF BeginPostStop
<1>28. ASSUME NEW g \in Guards, PostStopCleanup(g) PROVE MasterInv'
  BY <1>28 DEF PostStopCleanup, Calls
<1>29. CASE PostStopCleaned
  BY <1>29 DEF PostStopCleaned, Returned
<1>30. CASE Stopped
  BY <1>30 DEF Stopped
<1>31. CASE CallAfterEnd \/ UNCHANGED vars
  BY <1>31 DEF CallAfterEnd, vars
<1>. QED
  BY <1>1, <1>2, <1>3, <1>4, <1>5, <1>6, <1>7, <1>8, <1>9, <1>10, <1>11, <1>12, <1>13, <1>14,
     <1>15, <1>16, <1>17, <1>18, <1>19, <1>20, <1>21, <1>22, <1>23, <1>24, <1>25, <1>26, <1>27,
     <1>28, <1>29, <1>30, <1>31
  DEF Next, Actor, User, Master

LEMMA StrandsNext == Base /\ Base' /\ MasterInv /\ [Next]_vars => ByFailure
<1> SUFFICES ASSUME Base, Base', MasterInv, [Next]_vars PROVE ByFailure
  OBVIOUS
<1> USE SubscriberAssumption
    DEF MasterInv, ByFailure, Strands, Accounted, GuardInv, StopInv, Registered, Base, TypeOK, JobInv, Running, NoJob,
        NoCall, MasterCall, Idle, Fail, Reply
<1>1. ASSUME NEW c \in Clients, NEW k \in Requests, NEW t \in Topics, Call(c, k, t) PROVE ByFailure
  BY <1>1 DEF Call
<1>2. ASSUME NEW c \in Clients, NEW d \in Clients, CloneHandle(c, d) PROVE ByFailure
  BY <1>2 DEF CloneHandle
<1>3. ASSUME NEW c \in Clients, DropHandle(c) PROVE ByFailure
  BY <1>3 DEF DropHandle
<1>4. ASSUME NEW g \in Guards, DropGuard(g) PROVE ByFailure
  BY <1>4 DEF DropGuard
<1>5. ASSUME NEW t \in Topics, NEW p \in Pubs, Join(t, p) PROVE ByFailure
  BY <1>5 DEF Join, Told
<1>6. ASSUME NEW t \in Topics, NEW p \in Pubs, Leave(t, p) PROVE ByFailure
  BY <1>6 DEF Leave, Told
<1>7. ASSUME NEW t \in Topics, NEW p \in Pubs, LinkEnds(t, p) PROVE ByFailure
  BY <1>7 DEF LinkEnds
<1>8. CASE MasterAnswers
  BY <1>8 DEF MasterAnswers, MasterEffect
<1>9. CASE Receive
  BY <1>9 DEF Receive
<1>10. CASE ReceiveUpdate
  BY <1>10 DEF ReceiveUpdate
<1>11. CASE RegisterExisting
  BY <1>11 DEF RegisterExisting, Registers, Existing
<1>12. CASE RegisterStale
  BY <1>12 DEF RegisterStale, Registers, Existing, Await, Calls
<1>13. CASE StaleCleaned
  BY <1>13 DEF StaleCleaned, Returned
<1>14. CASE CreateSubscription
  BY <1>14 DEF CreateSubscription, Registers, Existing, Await, Calls
<1>15. CASE CreateFails
  BY <1>15 DEF CreateFails, Registers, Existing
<1>16. CASE RegisterRefused
  BY <1>16 DEF RegisterRefused
<1>17. CASE Accept
  BY <1>17 DEF Accept, Accepted
<1>18. ASSUME NEW p \in Pubs, Connect(p) PROVE ByFailure
  BY <1>18 DEF Connect
<1>19. CASE Connected
  BY <1>19 DEF Connected
<1>20. CASE ConnectFails
  BY <1>20 DEF ConnectFails
<1>21. ASSUME NEW g \in Guards, FinishRegister(g) PROVE ByFailure
  <2>1. g # None /\ job.topic \in Topics
    <3>1. g # None
      OBVIOUS
    <3>2. job \in Message
      BY <1>21 DEF FinishRegister, AllTried
    <3>. QED  BY <3>1, <3>2 DEF Message, CallMsg, DropMsg, UpdateMsg
  <2>2. rpc = NoCall /\ draining = {}
    BY <1>21 DEF FinishRegister, AllTried
  <2>3. CASE Fail
    BY <2>3
  <2>4. CASE ~Fail
    <3>1. registry' = [registry EXCEPT ![job.topic] = g] /\ UNCHANGED <<draining, master>>
      BY <1>21, <2>4 DEF FinishRegister
    <3>2. \A u \in Topics : registry[u] # None \/ u = job.topic => registry'[u] # None
      BY <2>1, <3>1
    <3>. QED  BY <2>2, <3>1, <3>2
  <2>. QED  BY <2>3, <2>4
<1>22. CASE Update
  BY <1>22 DEF Update, Existing, ListedUnlinked
<1>23. CASE UpdateDone
  BY <1>23 DEF UpdateDone, AllTried, Existing
<1>24. CASE Unregister
  BY <1>24 DEF Unregister, Existing, Await, Calls
<1>25. CASE FinishUnregister
  BY <1>25 DEF FinishUnregister, Returned, Existing
<1>26. CASE RequestStop
  BY <1>26 DEF RequestStop
<1>27. CASE BeginPostStop
  BY <1>27 DEF BeginPostStop
<1>28. ASSUME NEW g \in Guards, PostStopCleanup(g) PROVE ByFailure
  BY <1>28 DEF PostStopCleanup, Calls
<1>29. CASE PostStopCleaned
  BY <1>29 DEF PostStopCleaned, Returned
<1>30. CASE Stopped
  BY <1>30 DEF Stopped
<1>31. CASE CallAfterEnd \/ UNCHANGED vars
  BY <1>31 DEF CallAfterEnd, vars
<1>. QED
  BY <1>1, <1>2, <1>3, <1>4, <1>5, <1>6, <1>7, <1>8, <1>9, <1>10, <1>11, <1>12, <1>13, <1>14,
     <1>15, <1>16, <1>17, <1>18, <1>19, <1>20, <1>21, <1>22, <1>23, <1>24, <1>25, <1>26, <1>27,
     <1>28, <1>29, <1>30, <1>31
  DEF Next, Actor, User, Master

(* The master is left with a topic that has no subscription only by failures *)
(* - neither a drop, nor a stale entry, nor a registration kept waiting by a *)
(* publisher, nor the shutdown forgets to unregister (106-112, 166-187, 277).  *)
THEOREM SubscriberStrandedOnlyByFailure == Spec => StrandedOnlyByFailure
<1>1. Init => MasterInv
  BY DEF Init, MasterInv, NoCall
<1>2. Base /\ Base' /\ MasterInv /\ [Next]_vars => MasterInv'
  BY MasterNext
<1>3. Base /\ Base' /\ MasterInv /\ [Next]_vars => [ByFailure]_vars
  BY StrandsNext
<1>. QED  BY <1>1, <1>2, <1>3, SubscriberBase, PTL DEF Spec, StrandedOnlyByFailure

-----------------------------------------------------------------------------
(* The two halves of GuardsTracked.  The first forgets no subscription whose *)
(* last handle is gone, the second ties the flag to the registry.            *)
NoOrphan ==
    Running => \A t \in Topics :
        registry[t] # None /\ ~Upgrades(registry[t]) =>
            (registry[t] \in dropping /\ armed[registry[t]]) \/ DropPending(t)

ArmedIffTracked ==
    Running => \A c \in Clients :
        held[c] # None =>
            (armed[held[c]] <=> registry[topicOf[held[c]]] = held[c] \/ held[c] \in draining)

LEMMA ArmedNext == Base /\ Base' /\ ArmedIffTracked /\ [Next]_vars => ArmedIffTracked'
<1> SUFFICES ASSUME Base, Base', ArmedIffTracked, [Next]_vars PROVE ArmedIffTracked'
  OBVIOUS
<1> USE SubscriberAssumption
    DEF ArmedIffTracked, Base, TypeOK, JobInv, GuardInv, StopInv, Running, NoJob, Idle, Fail, Reply,
        Registered, Upgrades, Holders, Unused, Disarmed
<1>1. ASSUME NEW c \in Clients, NEW k \in Requests, NEW t \in Topics, Call(c, k, t) PROVE ArmedIffTracked'
  BY <1>1 DEF Call
<1>2. ASSUME NEW c \in Clients, NEW d \in Clients, CloneHandle(c, d) PROVE ArmedIffTracked'
  BY <1>2 DEF CloneHandle
<1>3. ASSUME NEW c \in Clients, DropHandle(c) PROVE ArmedIffTracked'
  BY <1>3 DEF DropHandle
<1>4. ASSUME NEW g \in Guards, DropGuard(g) PROVE ArmedIffTracked'
  BY <1>4 DEF DropGuard
<1>5. ASSUME NEW t \in Topics, NEW p \in Pubs, Join(t, p) PROVE ArmedIffTracked'
  BY <1>5 DEF Join, Told
<1>6. ASSUME NEW t \in Topics, NEW p \in Pubs, Leave(t, p) PROVE ArmedIffTracked'
  BY <1>6 DEF Leave, Told
<1>7. ASSUME NEW t \in Topics, NEW p \in Pubs, LinkEnds(t, p) PROVE ArmedIffTracked'
  BY <1>7 DEF LinkEnds
<1>8. CASE MasterAnswers
  BY <1>8 DEF MasterAnswers, MasterEffect
<1>9. CASE Receive
  BY <1>9 DEF Receive
<1>10. CASE ReceiveUpdate
  BY <1>10 DEF ReceiveUpdate
<1>11. CASE RegisterExisting
  <2>1. /\ \A c \in Clients : held'[c] = held[c] \/ held'[c] = registry[job.topic]
        /\ job.topic \in Topics /\ registry[job.topic] # None
        /\ UNCHANGED <<armed, topicOf, draining>>
    BY <1>11 DEF RegisterExisting, Registers, Existing, Message, CallMsg, DropMsg, UpdateMsg
  <2>2. Running' => registry' = registry
    BY <1>11 DEF RegisterExisting
  <2>. QED  BY <2>1, <2>2
<1>12. CASE RegisterStale
  <2>1. job.topic \in Topics /\ UNCHANGED <<held, armed, topicOf, draining>>
        /\ registry' = [registry EXCEPT ![job.topic] = None] /\ ~Upgrades(registry[job.topic])
    BY <1>12 DEF RegisterStale, Registers, Existing, Message, CallMsg, DropMsg, UpdateMsg
  <2>2. \A c \in Clients : held[c] # registry[job.topic]
    BY <2>1
  <2>3. Running /\ Running'
    BY <1>12 DEF RegisterStale, Registers, Await
  <2>. QED  BY <2>1, <2>2, <2>3
<1>13. CASE StaleCleaned
  BY <1>13 DEF StaleCleaned, Returned
<1>14. CASE CreateSubscription
  BY <1>14 DEF CreateSubscription, Registers, Existing, Await, Calls
<1>15. CASE CreateFails
  BY <1>15 DEF CreateFails, Registers, Existing
<1>16. CASE RegisterRefused
  BY <1>16 DEF RegisterRefused
<1>17. CASE Accept
  BY <1>17 DEF Accept, Accepted
<1>18. ASSUME NEW p \in Pubs, Connect(p) PROVE ArmedIffTracked'
  BY <1>18 DEF Connect
<1>19. CASE Connected
  BY <1>19 DEF Connected
<1>20. CASE ConnectFails
  BY <1>20 DEF ConnectFails
<1>21. ASSUME NEW g \in Guards, FinishRegister(g) PROVE ArmedIffTracked'
  <2>1. /\ job.topic \in Topics /\ job.from \in Clients /\ registry[job.topic] = None
        /\ draining = {} /\ draining' = {} /\ pc = "connect"
    BY <1>21 DEF FinishRegister, AllTried, Message, CallMsg, DropMsg, UpdateMsg
  <2>2. /\ \A c \in Clients : held[c] # g
        /\ \A t \in Topics : registry[t] # g
    <3>1. g \in Unused
      BY <1>21 DEF FinishRegister
    <3>. QED  BY <3>1
  <2>3. topicOf' = [topicOf EXCEPT ![g] = job.topic] /\ armed' = [armed EXCEPT ![g] = TRUE]
    BY <1>21 DEF FinishRegister
  <2>4. \/ ~Running'
        \/ /\ registry' = [registry EXCEPT ![job.topic] = g]
           /\ held' = [held EXCEPT ![job.from] = g]
    BY <1>21 DEF FinishRegister
  <2>. QED  BY <2>1, <2>2, <2>3, <2>4
<1>22. CASE Update
  BY <1>22 DEF Update, Existing, ListedUnlinked
<1>23. CASE UpdateDone
  BY <1>23 DEF UpdateDone, AllTried, Existing
<1>24. CASE Unregister
  BY <1>24 DEF Unregister, Existing, Await, Calls
<1>25. CASE FinishUnregister
  BY <1>25 DEF FinishUnregister, Returned, Existing
<1>26. CASE RequestStop
  BY <1>26 DEF RequestStop
<1>27. CASE BeginPostStop
  BY <1>27 DEF BeginPostStop
<1>28. ASSUME NEW g \in Guards, PostStopCleanup(g) PROVE ArmedIffTracked'
  BY <1>28 DEF PostStopCleanup, Calls
<1>29. CASE PostStopCleaned
  BY <1>29 DEF PostStopCleaned, Returned
<1>30. CASE Stopped
  BY <1>30 DEF Stopped
<1>31. CASE CallAfterEnd \/ UNCHANGED vars
  BY <1>31 DEF CallAfterEnd, vars
<1>. QED
  BY <1>1, <1>2, <1>3, <1>4, <1>5, <1>6, <1>7, <1>8, <1>9, <1>10, <1>11, <1>12, <1>13, <1>14,
     <1>15, <1>16, <1>17, <1>18, <1>19, <1>20, <1>21, <1>22, <1>23, <1>24, <1>25, <1>26, <1>27,
     <1>28, <1>29, <1>30, <1>31
  DEF Next, Actor, User, Master

-----------------------------------------------------------------------------
(* A task whose call is outstanding has no handle, and its reply port is in  *)
(* one message only: the reply gives a handle to a task that had none, so    *)
(* no guard loses a reference by it.                                         *)
Asks(m) == m.kind \in {"register", "unregister"}

CallInv ==
    /\ \A c \in Clients : client[c] # "idle" => held[c] = None
    /\ Asks(job) => client[job.from] # "idle"
    /\ \A i \in 1..Len(mailbox) : Asks(mailbox[i]) =>
          /\ client[mailbox[i].from] # "idle"
          /\ Asks(job) => mailbox[i].from # job.from
          /\ \A j \in 1..Len(mailbox) \ {i} : Asks(mailbox[j]) => mailbox[i].from # mailbox[j].from

(* The two ways a handler ends, seen from the callers.                       *)
LEMMA ReplyEnds ==
  ASSUME Base, NEW c \in Clients, Reply(c) \/ Fail
  PROVE  /\ job' = NoJob
         /\ \/ mailbox' = <<>> /\ \A d \in Clients : client'[d] = "idle"
            \/ mailbox' = mailbox /\ client' = [client EXCEPT ![c] = "idle"]
BY DEF Reply, Fail, Idle, Released, Base, TypeOK

LEMMA EndKeepsCall ==
  ASSUME Base, Base', CallInv, NEW c \in Clients, Asks(job), c = job.from, job' = NoJob,
         \/ mailbox' = <<>> /\ \A d \in Clients : client'[d] = "idle"
         \/ mailbox' = mailbox /\ client' = [client EXCEPT ![c] = "idle"],
         \A d \in Clients \ {c} : held'[d] = held[d]
  PROVE  CallInv'
<1> USE DEF CallInv, Asks, NoJob, Base, TypeOK
<1>1. CASE mailbox' = <<>> /\ \A d \in Clients : client'[d] = "idle"
  BY <1>1
<1>2. CASE mailbox' = mailbox /\ client' = [client EXCEPT ![c] = "idle"]
  <2>1. \A d \in Clients : client'[d] # "idle" => held'[d] = None
    BY <1>2
  <2>2. \A k \in 1..Len(mailbox) : Asks(mailbox[k]) =>
           mailbox[k].from \in Clients /\ mailbox[k].from # c
    BY DEF Message, CallMsg, DropMsg, UpdateMsg
  <2>. QED  BY <1>2, <2>1, <2>2
<1>. QED  BY <1>1, <1>2

LEMMA CallNext == Base /\ Base' /\ CallInv /\ [Next]_vars => CallInv'
<1> SUFFICES ASSUME Base, Base', CallInv, [Next]_vars PROVE CallInv'
  OBVIOUS
<1> USE SubscriberAssumption
    DEF CallInv, Asks, Base, TypeOK, JobInv, NoJob, Idle, Fail, Reply, Message, CallMsg, DropMsg, UpdateMsg
<1>1. ASSUME NEW c \in Clients, NEW k \in Requests, NEW t \in Topics, Call(c, k, t) PROVE CallInv'
  <2>1. /\ mailbox' = Append(mailbox, [kind |-> k, topic |-> t, from |-> c])
        /\ client[c] = "idle" /\ held[c] = None /\ client' = [client EXCEPT ![c] = "waiting"]
        /\ UNCHANGED <<job, held>>
    BY <1>1 DEF Call
  <2>2. \A i \in 1..Len(mailbox) : /\ mailbox'[i] = mailbox[i]
                                  /\ Asks(mailbox[i]) => mailbox[i].from \in Clients \ {c}
    BY <2>1
  <2>3. /\ Len(mailbox') = Len(mailbox) + 1 /\ mailbox'[Len(mailbox')].from = c
        /\ Asks(job) => job.from \in Clients \ {c}
    BY <2>1
  <2>. QED  BY <2>1, <2>2, <2>3
<1>2. ASSUME NEW c \in Clients, NEW d \in Clients, CloneHandle(c, d) PROVE CallInv'
  BY <1>2 DEF CloneHandle
<1>3. ASSUME NEW c \in Clients, DropHandle(c) PROVE CallInv'
  BY <1>3 DEF DropHandle
<1>4. ASSUME NEW g \in Guards, DropGuard(g) PROVE CallInv'
  BY <1>4 DEF DropGuard
<1>5. ASSUME NEW t \in Topics, NEW p \in Pubs, Join(t, p) PROVE CallInv'
  BY <1>5 DEF Join, Told
<1>6. ASSUME NEW t \in Topics, NEW p \in Pubs, Leave(t, p) PROVE CallInv'
  BY <1>6 DEF Leave, Told
<1>7. ASSUME NEW t \in Topics, NEW p \in Pubs, LinkEnds(t, p) PROVE CallInv'
  BY <1>7 DEF LinkEnds
<1>8. CASE MasterAnswers
  BY <1>8 DEF MasterAnswers, MasterEffect
<1>9. CASE Receive
  BY <1>9 DEF Receive
<1>10. CASE ReceiveUpdate
  BY <1>10 DEF ReceiveUpdate
<1>11. CASE RegisterExisting
  <2>1. job.from \in Clients /\ Asks(job) /\ (Reply(job.from) \/ Fail)
    BY <1>11 DEF RegisterExisting, Registers, Existing
  <2>2. \A d \in Clients \ {job.from} : held'[d] = held[d]
    BY <1>11 DEF RegisterExisting, Registers, Existing
  <2>. QED
    <3> HIDE DEF Base, CallInv, Asks, Reply, Fail
    <3>. QED  BY <2>1, <2>2, ReplyEnds, EndKeepsCall
<1>12. CASE RegisterStale
  BY <1>12 DEF RegisterStale, Registers, Existing, Await, Calls
<1>13. CASE StaleCleaned
  BY <1>13 DEF StaleCleaned, Returned
<1>14. CASE CreateSubscription
  BY <1>14 DEF CreateSubscription, Registers, Existing, Await, Calls
<1>15. CASE CreateFails
  <2>1. job.from \in Clients /\ Asks(job) /\ (Reply(job.from) \/ Fail)
    BY <1>15 DEF CreateFails, Registers
  <2>2. \A d \in Clients \ {job.from} : held'[d] = held[d]
    BY <1>15 DEF CreateFails, Registers
  <2>. QED
    <3> HIDE DEF Base, CallInv, Asks, Reply, Fail
    <3>. QED  BY <2>1, <2>2, ReplyEnds, EndKeepsCall
<1>16. CASE RegisterRefused
  <2>1. job.from \in Clients /\ Asks(job) /\ (Reply(job.from) \/ Fail)
    BY <1>16 DEF RegisterRefused
  <2>2. \A d \in Clients \ {job.from} : held'[d] = held[d]
    BY <1>16 DEF RegisterRefused
  <2>. QED
    <3> HIDE DEF Base, CallInv, Asks, Reply, Fail
    <3>. QED  BY <2>1, <2>2, ReplyEnds, EndKeepsCall
<1>17. CASE Accept
  BY <1>17 DEF Accept, Accepted
<1>18. ASSUME NEW p \in Pubs, Connect(p) PROVE CallInv'
  BY <1>18 DEF Connect
<1>19. CASE Connected
  BY <1>19 DEF Connected
<1>20. CASE ConnectFails
  BY <1>20 DEF ConnectFails
<1>21. ASSUME NEW g \in Guards, FinishRegister(g) PROVE CallInv'
  <2>1. job.from \in Clients /\ Asks(job)
    BY <1>21 DEF FinishRegister, AllTried
  <2>2. job' = NoJob /\ \A d \in Clients \ {job.from} : held'[d] = held[d]
    BY <1>21 DEF FinishRegister
  <2>3. \/ mailbox' = <<>> /\ \A d \in Clients : client'[d] = "idle"
        \/ mailbox' = mailbox /\ client' = [client EXCEPT ![job.from] = "idle"]
    BY <1>21 DEF FinishRegister, Released
  <2>. QED
    <3> HIDE DEF Base, CallInv, Asks
    <3>. QED  BY <2>1, <2>2, <2>3, EndKeepsCall
<1>22. CASE Update
  BY <1>22 DEF Update, Existing, ListedUnlinked
<1>23. CASE UpdateDone
  BY <1>23 DEF UpdateDone, AllTried, Existing
<1>24. CASE Unregister
  BY <1>24 DEF Unregister, Existing, Await, Calls
<1>25. CASE FinishUnregister
  <2>1. CASE job.kind = "drop"
    BY <1>25, <2>1 DEF FinishUnregister
  <2>2. CASE job.kind # "drop"
    <3>1. job.from \in Clients /\ Asks(job) /\ Reply(job.from) /\ held' = held
      BY <1>25, <2>2 DEF FinishUnregister
    <3>. QED
      <4> HIDE DEF Base, CallInv, Asks, Reply
      <4>. QED  BY <3>1, ReplyEnds, EndKeepsCall
  <2>. QED  BY <2>1, <2>2
<1>26. CASE RequestStop
  BY <1>26 DEF RequestStop
<1>27. CASE BeginPostStop
  BY <1>27 DEF BeginPostStop
<1>28. ASSUME NEW g \in Guards, PostStopCleanup(g) PROVE CallInv'
  BY <1>28 DEF PostStopCleanup, Calls
<1>29. CASE PostStopCleaned
  BY <1>29 DEF PostStopCleaned, Returned
<1>30. CASE Stopped
  BY <1>30 DEF Stopped, Released
<1>31. CASE CallAfterEnd \/ UNCHANGED vars
  BY <1>31 DEF CallAfterEnd, vars
<1>. QED
  BY <1>1, <1>2, <1>3, <1>4, <1>5, <1>6, <1>7, <1>8, <1>9, <1>10, <1>11, <1>12, <1>13, <1>14,
     <1>15, <1>16, <1>17, <1>18, <1>19, <1>20, <1>21, <1>22, <1>23, <1>24, <1>25, <1>26, <1>27,
     <1>28, <1>29, <1>30, <1>31
  DEF Next, Actor, User, Master

(* A step of the actor that ends or goes on with a job, and touches neither  *)
(* guards nor handles, forgets no subscription: the registry stays as it is, *)
(* and a drop is done with only once its topic has no subscription.          *)
LEMMA QuietKeepsOrphans ==
    ASSUME NoOrphan, Running, UNCHANGED <<held, dropping, armed>>,
           \/ ~Running'
           \/ /\ UNCHANGED <<registry, mailbox>>
              /\ job' = job \/ (job.kind = "drop" => registry[job.topic] = None)
    PROVE  NoOrphan'
<1>1. ASSUME UNCHANGED <<registry, mailbox>>,
             job' = job \/ (job.kind = "drop" => registry[job.topic] = None),
             NEW t \in Topics, (registry[t] # None /\ ~Upgrades(registry[t]))'
      PROVE  ((registry[t] \in dropping /\ armed[registry[t]]) \/ DropPending(t))'
  <2>1. registry[t] # None /\ ~Upgrades(registry[t])
    BY <1>1 DEF Upgrades, Holders
  <2>2. (registry[t] \in dropping /\ armed[registry[t]]) \/ DropPending(t)
    BY <2>1 DEF NoOrphan
  <2>3. DropPending(t) => DropPending(t)'
    BY <1>1, <2>1 DEF DropPending
  <2>. QED  BY <1>1, <2>2, <2>3
<1>. QED
  BY <1>1 DEF NoOrphan

LEMMA OrphanNext == Base /\ Base' /\ CallInv /\ NoOrphan /\ [Next]_vars => NoOrphan'
<1> SUFFICES ASSUME Base, Base', CallInv, NoOrphan, [Next]_vars PROVE NoOrphan'
  OBVIOUS
<1> USE SubscriberAssumption
    DEF NoOrphan, DropPending, Base, TypeOK, JobInv, GuardInv, StopInv, Running, NoJob, Idle, Fail,
        Reply, Registered, Upgrades, Holders, Unused, Disarmed
<1>1. ASSUME NEW c \in Clients, NEW k \in Requests, NEW t \in Topics, Call(c, k, t) PROVE NoOrphan'
  BY <1>1 DEF Call
<1>2. ASSUME NEW c \in Clients, NEW d \in Clients, CloneHandle(c, d) PROVE NoOrphan'
  BY <1>2 DEF CloneHandle
<1>3. ASSUME NEW c \in Clients, DropHandle(c) PROVE NoOrphan'
  BY <1>3 DEF DropHandle
<1>4. ASSUME NEW g \in Guards, DropGuard(g) PROVE NoOrphan'
  <2>1. /\ dropping' = dropping \ {g} /\ armed' = [armed EXCEPT ![g] = TRUE]
        /\ UNCHANGED <<registry, held, job, pc, topicOf>>
    BY <1>4 DEF DropGuard
  <2>2. \A t \in Topics : DropPending(t) => DropPending(t)'
    BY <1>4 DEF DropGuard
  <2>3. ASSUME Running, armed[g], NEW t \in Topics, topicOf[g] = t PROVE DropPending(t)'
    <3>1. mailbox' = Append(mailbox, [kind |-> "drop", topic |-> topicOf[g]])
      BY <1>4, <2>3 DEF DropGuard, Casts
    <3>2. [kind |-> "drop", topic |-> t] \in Message
      BY DEF Message, DropMsg
    <3>3. Len(mailbox') \in 1..Len(mailbox') /\ mailbox'[Len(mailbox')] = [kind |-> "drop", topic |-> t]
      BY <2>3, <3>1, <3>2
    <3>4. mailbox'[Len(mailbox')].kind = "drop" /\ mailbox'[Len(mailbox')].topic = t
      BY <3>3
    <3>. QED  BY <3>3, <3>4
  <2>4. ASSUME Running, NEW t \in Topics, registry[t] # None, ~Upgrades(registry[t])
        PROVE  (registry[t] \in dropping' /\ armed'[registry[t]]) \/ DropPending(t)'
    <3>1. (registry[t] \in dropping /\ armed[registry[t]]) \/ DropPending(t)
      BY <2>4
    <3>t. topicOf[registry[t]] = t
      BY <2>4
    <3> HIDE DEF DropPending
    <3>2. CASE registry[t] = g
      BY <2>2, <2>3, <2>4, <3>t, <3>1, <3>2
    <3>3. CASE registry[t] # g
      BY <2>1, <2>2, <2>4, <3>1, <3>3
    <3>. QED  BY <3>2, <3>3
  <2>. QED
    <3> HIDE DEF DropPending
    <3>. QED  BY <2>1, <2>4
<1>5. ASSUME NEW t \in Topics, NEW p \in Pubs, Join(t, p) PROVE NoOrphan'
  BY SMTT(30), <1>5 DEF Join, Told
<1>6. ASSUME NEW t \in Topics, NEW p \in Pubs, Leave(t, p) PROVE NoOrphan'
  BY <1>6 DEF Leave, Told
<1>7. ASSUME NEW t \in Topics, NEW p \in Pubs, LinkEnds(t, p) PROVE NoOrphan'
  BY <1>7 DEF LinkEnds
<1>8. CASE MasterAnswers
  BY <1>8 DEF MasterAnswers, MasterEffect
<1>9. CASE Receive
  <2>1. /\ mailbox # <<>> /\ job' = Head(mailbox) /\ mailbox' = Tail(mailbox)
        /\ UNCHANGED <<registry, held, dropping, armed>> /\ Running
    BY <1>9 DEF Receive
  <2>2. ASSUME NEW i \in 1..Len(mailbox)
        PROVE  mailbox[i] = job' \/ \E j \in 1..Len(mailbox') : mailbox'[j] = mailbox[i]
    <3>1. CASE i = 1
      BY <2>1, <3>1
    <3>2. CASE i # 1
      <4>1. i - 1 \in 1..Len(mailbox') /\ mailbox'[i - 1] = mailbox[i]
        BY <2>1, <3>2
      <4>. QED  BY <4>1
    <3>. QED  BY <3>1, <3>2
  <2>3. job = NoJob
    BY <1>9 DEF Receive
  <2>4. \A t \in Topics : DropPending(t) => DropPending(t)'
    <3> SUFFICES ASSUME NEW t \in Topics, NEW k \in 1..Len(mailbox),
                        mailbox[k].kind = "drop", mailbox[k].topic = t
                 PROVE  DropPending(t)'
      BY <2>3
    <3>1. CASE mailbox[k] = job'
      BY <3>1
    <3>2. CASE \E m \in 1..Len(mailbox') : mailbox'[m] = mailbox[k]
      BY <3>2
    <3>. QED  BY <2>2, <3>1, <3>2
  <2>. QED
    <3> HIDE DEF DropPending
    <3>. QED  BY <2>1, <2>4
<1>10. CASE ReceiveUpdate
  <2>1. job = NoJob /\ Running /\ UNCHANGED <<registry, held, dropping, armed, mailbox>>
    BY <1>10 DEF ReceiveUpdate
  <2>2. \A t \in Topics : DropPending(t) => DropPending(t)'
    BY <2>1
  <2>. QED
    <3> HIDE DEF DropPending
    <3>. QED  BY <2>1, <2>2
<1>11. CASE RegisterExisting
  <2>1. /\ job.kind # "drop" /\ UNCHANGED <<dropping, armed>> /\ Running
        /\ registry[job.topic] \in Guards /\ Upgrades(registry[job.topic])
    BY <1>11 DEF RegisterExisting, Registers, Existing, Message, CallMsg, DropMsg, UpdateMsg
  <2>2. Running' => UNCHANGED <<registry, mailbox>>
    BY <1>11 DEF RegisterExisting
  <2>3. \A g \in Guards : Upgrades(g) => Upgrades(g)'
    <3>1. \A d \in Clients : held[d] # None => held'[d] = held[d]
      BY <1>11 DEF RegisterExisting, Registers, Existing, CallInv, Asks
    <3>. QED  BY <3>1
  <2>. QED  BY <2>1, <2>2, <2>3
<1>12. CASE RegisterStale
  <2>1. /\ job.topic \in Topics /\ job.kind = "register"
        /\ registry' = [registry EXCEPT ![job.topic] = None]
        /\ UNCHANGED <<held, dropping, armed, job, mailbox>>
    BY <1>12 DEF RegisterStale, Registers, Message, CallMsg, DropMsg, UpdateMsg
  <2>. QED  BY <1>12, <2>1 DEF RegisterStale, Registers
<1>13. CASE StaleCleaned
  BY <1>13 DEF StaleCleaned, Returned
<1>14. CASE CreateSubscription
  BY <1>14 DEF CreateSubscription, Registers, Existing, Await, Calls
<1>15. CASE CreateFails
  <2>1. /\ Running /\ UNCHANGED <<held, dropping, armed>>
        /\ \/ ~Running'
           \/ /\ UNCHANGED <<registry, mailbox>>
              /\ job.kind = "drop" => registry[job.topic] = None
    BY <1>15 DEF CreateFails, Registers
  <2>. QED
    <3> HIDE DEF Running, NoOrphan
    <3>. QED  BY <2>1, QuietKeepsOrphans
<1>16. CASE RegisterRefused
  <2>1. /\ Running /\ UNCHANGED <<held, dropping, armed>>
        /\ \/ ~Running'
           \/ /\ UNCHANGED <<registry, mailbox>>
              /\ job.kind = "drop" => registry[job.topic] = None
    BY <1>16 DEF RegisterRefused
  <2>. QED
    <3> HIDE DEF Running, NoOrphan
    <3>. QED  BY <2>1, QuietKeepsOrphans
<1>17. CASE Accept
  BY <1>17 DEF Accept, Accepted
<1>18. ASSUME NEW p \in Pubs, Connect(p) PROVE NoOrphan'
  BY <1>18 DEF Connect
<1>19. CASE Connected
  BY <1>19 DEF Connected
<1>20. CASE ConnectFails
  BY <1>20 DEF ConnectFails
<1>21. ASSUME NEW g \in Guards, FinishRegister(g) PROVE NoOrphan'
  <2>1. /\ job.kind # "drop" /\ Running /\ dropping' = dropping
        /\ job.topic \in Topics /\ job.from \in Clients
        /\ \A h \in Guards \ {g} : armed'[h] = armed[h]
    BY SMTT(30), <1>21 DEF FinishRegister, AllTried, Message, CallMsg, DropMsg, UpdateMsg
  <2>2. g \notin dropping /\ \A t \in Topics : registry[t] # g
    <3>1. g \in Unused
      BY <1>21 DEF FinishRegister
    <3>. QED  BY <3>1
  <2>3. CASE Fail
    BY <2>3
  <2>4. CASE ~Fail
    <3>1. /\ registry' = [registry EXCEPT ![job.topic] = g] /\ held' = [held EXCEPT ![job.from] = g]
          /\ mailbox' = mailbox
      BY <1>21, <2>4 DEF FinishRegister
    <3>2. Upgrades(g)'
      BY <2>1, <3>1
    <3>3. \A h \in Guards : Upgrades(h) => Upgrades(h)'
      <4>1. held[job.from] = None
        BY <1>21, <2>1 DEF FinishRegister, AllTried, CallInv, Asks
      <4>. QED  BY <2>1, <3>1, <4>1
    <3>4. \A t \in Topics : DropPending(t) => DropPending(t)'
      BY <2>1, <3>1
    <3>5. ASSUME NEW t \in Topics, (registry[t] # None /\ ~Upgrades(registry[t]))'
          PROVE  (registry[t] \in dropping /\ armed[registry[t]]) \/ DropPending(t)
      <4>a. registry'[t] # g
        BY <2>1, <3>1, <3>2, <3>5
      <4>b. registry'[t] = registry[t] /\ registry[t] \in Guards
        BY <2>1, <3>1, <3>5, <4>a
      <4>1. registry'[t] = registry[t] /\ ~Upgrades(registry[t])
        BY <3>3, <3>5, <4>b
      <4>. QED  BY <2>1, <3>5, <4>1
    <3>6. \A t \in Topics : registry'[t] # None /\ registry'[t] # g => registry'[t] = registry[t]
      BY <2>1, <3>1
    <3>. QED
      <4> HIDE DEF DropPending, Upgrades
      <4>. QED  BY <2>1, <2>2, <3>1, <3>2, <3>4, <3>5, <3>6
  <2>. QED  BY <2>3, <2>4
<1>22. CASE Update
  BY <1>22 DEF Update, Existing, ListedUnlinked
<1>23. CASE UpdateDone
  <2>1. /\ Running /\ UNCHANGED <<held, dropping, armed>>
        /\ \/ ~Running'
           \/ /\ UNCHANGED <<registry, mailbox>>
              /\ job.kind = "drop" => registry[job.topic] = None
    BY <1>23 DEF UpdateDone, AllTried, Existing
  <2>. QED
    <3> HIDE DEF Running, NoOrphan
    <3>. QED  BY <2>1, QuietKeepsOrphans
<1>24. CASE Unregister
  <2>1. /\ registry' = [registry EXCEPT ![job.topic] = None]
        /\ job' = job /\ UNCHANGED <<mailbox, dropping, held>> /\ Running
    BY <1>24 DEF Unregister
  <2>2. armed' = [armed EXCEPT ![registry[job.topic]] = FALSE] \/ armed' = armed
    BY <1>24 DEF Unregister, Existing
  <2>3. job.topic \in Topics /\ registry[job.topic] \in Guards
    BY <1>24 DEF Unregister, Existing, Message, CallMsg, DropMsg, UpdateMsg
  <2>4. ASSUME NEW t \in Topics, (registry[t] # None /\ ~Upgrades(registry[t]))'
        PROVE  ((registry[t] \in dropping /\ armed[registry[t]]) \/ DropPending(t))'
    <3>1. t # job.topic /\ registry'[t] = registry[t] /\ ~Upgrades(registry[t])
      BY <2>1, <2>3, <2>4
    <3>2. topicOf[registry[t]] = t /\ topicOf[registry[job.topic]] = job.topic
      BY <2>3, <3>1, <2>4
    <3>3. registry[t] # registry[job.topic]
      BY <3>1, <3>2
    <3>4. armed'[registry[t]] = armed[registry[t]]
      BY <2>2, <2>4, <3>1, <3>3
    <3>5. DropPending(t) => DropPending(t)'
      BY <2>1
    <3>6. (registry[t] \in dropping /\ armed[registry[t]]) \/ DropPending(t)
      BY <2>1, <2>4, <3>1
    <3>. QED  BY <2>1, <3>1, <3>4, <3>5, <3>6
  <2>. QED
    <3> HIDE DEF DropPending, Upgrades
    <3>. QED  BY <2>4
<1>25. CASE FinishUnregister
  <2>1. /\ Running /\ UNCHANGED <<held, dropping, armed>>
        /\ \/ ~Running'
           \/ /\ UNCHANGED <<registry, mailbox>>
              /\ job.kind = "drop" => registry[job.topic] = None
    BY <1>25 DEF FinishUnregister, Existing
  <2>. QED
    <3> HIDE DEF Running, NoOrphan
    <3>. QED  BY <2>1, QuietKeepsOrphans
<1>26. CASE RequestStop
  <2>1. UNCHANGED <<pc, job, mailbox, registry, dropping, armed, held>>
    BY <1>26 DEF RequestStop
  <2>2. \A t \in Topics : DropPending(t) => DropPending(t)'
    BY <2>1
  <2>. QED
    <3> HIDE DEF DropPending
    <3>. QED  BY <2>1, <2>2
<1>27. CASE BeginPostStop
  BY <1>27 DEF BeginPostStop
<1>28. ASSUME NEW g \in Guards, PostStopCleanup(g) PROVE NoOrphan'
  BY <1>28 DEF PostStopCleanup, Calls
<1>29. CASE PostStopCleaned
  BY <1>29 DEF PostStopCleaned, Returned
<1>30. CASE Stopped
  BY <1>30 DEF Stopped
<1>31. CASE CallAfterEnd \/ UNCHANGED vars
  <2>1. UNCHANGED <<pc, job, mailbox, registry, dropping, armed, held>>
    BY <1>31 DEF CallAfterEnd, vars
  <2>2. \A t \in Topics : DropPending(t) => DropPending(t)'
    BY <2>1
  <2>. QED
    <3> HIDE DEF DropPending
    <3>. QED  BY <2>1, <2>2
<1>. QED
  BY <1>1, <1>2, <1>3, <1>4, <1>5, <1>6, <1>7, <1>8, <1>9, <1>10, <1>11, <1>12, <1>13, <1>14,
     <1>15, <1>16, <1>17, <1>18, <1>19, <1>20, <1>21, <1>22, <1>23, <1>24, <1>25, <1>26, <1>27,
     <1>28, <1>29, <1>30, <1>31
  DEF Next, Actor, User, Master

(* A subscription whose last handle is gone is never forgotten, and while a  *)
(* handle is held its guard is armed exactly as long as the registry, or the *)
(* shutdown that has emptied it, still has the subscription.                 *)
THEOREM SubscriberGuardsTracked == Spec => []GuardsTracked
<1>1. Init => NoOrphan /\ ArmedIffTracked /\ CallInv
  BY DEF Init, NoOrphan, ArmedIffTracked, CallInv, Asks, NoJob
<1>2. Base /\ Base' /\ CallInv /\ [Next]_vars => CallInv'
  BY CallNext
<1>3. Base /\ Base' /\ CallInv /\ NoOrphan /\ [Next]_vars => NoOrphan'
  BY OrphanNext
<1>4. Base /\ Base' /\ ArmedIffTracked /\ [Next]_vars => ArmedIffTracked'
  BY ArmedNext
<1>5. Base /\ NoOrphan /\ ArmedIffTracked => GuardsTracked
  BY DEF Base, NoOrphan, ArmedIffTracked, GuardsTracked
<1>. QED  BY <1>1, <1>2, <1>3, <1>4, <1>5, SubscriberBase, PTL DEF Spec
=============================================================================
