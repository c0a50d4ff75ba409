------------------------- MODULE PublisherActor_proofs -------------------------
(* Theorems about PublisherActor, for every value of its constants. *)
EXTENDS PublisherActor, TLAPS

(* What the actor is doing agrees with the message it has taken and the     *)
(* master call it awaits.                                                   *)
JobInv ==
    /\ pc \in {"idle", "post_stop", "stopped", "failed"} => job = NoJob
    /\ pc = "handle" => job # NoJob
    /\ pc \in {"stale", "register"} => job.kind = "register"
    /\ pc = "unregister" => job.kind \in {"drop", "unregister"}
    /\ pc \in {"idle", "handle", "stopped", "failed"} => rpc = NoCall
    /\ pc \in {"stale", "register", "unregister"} =>
          rpc # NoCall /\ rpc.topic = job.topic /\ registry[job.topic] = None
    /\ pc \in {"stale", "unregister", "post_stop"} => rpc.op # "register"
    /\ pc = "register" => rpc.op = "register"

(* Guards that are referred to were given a topic; those of publications     *)
(* not yet cleaned up are armed.                                             *)
GuardInv ==
    /\ \A t \in Topics : registry[t] # None =>
          topicOf[registry[t]] = t /\ armed[registry[t]]
    /\ \A g \in draining : topicOf[g] \in Topics /\ armed[g]
    /\ \A g \in dropping : topicOf[g] \in Topics /\ ~Upgrades(g)
    /\ \A c \in Clients : held[c] # None => topicOf[held[c]] \in Topics

StopInv ==
    /\ draining # {} => pc = "post_stop"
    /\ ~Running \/ pc = "post_stop" => \A t \in Topics : registry[t] = None

(* The types and the agreement between program counter, job and call.  The   *)
(* latter is what makes job.topic and rpc.topic topics where they are used.  *)
Base == TypeOK /\ JobInv /\ GuardInv /\ StopInv

USE DEF actorVars, guardVars, userVars, Casts, Validated, Returned, Accepted, StartsArmed, Taken

LEMMA BaseInit == Init => Base
<1> SUFFICES ASSUME Init PROVE Base
  OBVIOUS
<1> USE PublisherAssumption DEF Init
<1>1. TypeOK
  <2>1. mailbox \in Seq(Message)
    OBVIOUS
  <2>. QED  BY <2>1 DEF TypeOK, NoJob, NoCall
<1>2. JobInv /\ StopInv
  BY DEF JobInv, StopInv, NoJob, NoCall, Running
<1>3. GuardInv
  BY DEF GuardInv, Upgrades, Holders
<1>. QED  BY <1>1, <1>2, <1>3 DEF Base

(* Ending a handler with reply.send(...)? keeps the base invariant, whether  *)
(* the port is open or closed.                                               *)
LEMMA ReplyKeepsBase ==
  ASSUME Base, NEW c \in Clients, Reply(c), Running, pc # "post_stop",
         UNCHANGED <<draining, stopping, guardVars, dropping, master>>,
         \/ held' = held
         \/ \E h \in Guards : /\ h \notin dropping /\ topicOf[h] \in Topics
                              /\ held' = [held EXCEPT ![c] = h]
  PROVE  Base'
<1> USE PublisherAssumption DEF Base, Running, NoJob, NoCall
<1>0. /\ held' \in [Clients -> Guards \cup {None}]
      /\ \A d \in Clients : held'[d] # None =>
            topicOf[held'[d]] \in Topics /\ held'[d] \notin dropping
  <2>1. CASE held' = held
    BY <2>1 DEF TypeOK, GuardInv, Upgrades, Holders
  <2>2. CASE \E h \in Guards : /\ h \notin dropping /\ topicOf[h] \in Topics
                              /\ held' = [held EXCEPT ![c] = h]
    BY <2>2 DEF TypeOK, GuardInv, Upgrades, Holders
  <2>. QED  BY <2>1, <2>2
<1>1. CASE client[c] = "cancelled"
  <2>1. Fail
    BY <1>1 DEF Reply
  <2>2. TypeOK'
    BY <1>0, <2>1 DEF Fail, TypeOK, Released
  <2>3. GuardInv'
    BY <1>0, <2>1 DEF Fail, GuardInv, TypeOK, Upgrades, Holders
  <2>. QED
    BY <2>1, <2>2, <2>3 DEF Fail, JobInv, StopInv
<1>2. CASE client[c] # "cancelled"
  <2>1. Idle /\ client' = [client EXCEPT ![c] = "idle"] /\ UNCHANGED <<registry, mailbox>>
    BY <1>2 DEF Reply
  <2>2. TypeOK'
    BY <1>0, <2>1 DEF Idle, TypeOK
  <2>3. GuardInv'
    BY <1>0, <2>1 DEF Idle, GuardInv, TypeOK, Upgrades, Holders
  <2>. QED
    BY <2>1, <2>2, <2>3 DEF Idle, JobInv, StopInv
<1>. QED  BY <1>1, <1>2

LEMMA BaseNext == Base /\ [Next]_vars => Base'
<1> SUFFICES ASSUME Base, [Next]_vars PROVE Base'
  OBVIOUS
<1> USE PublisherAssumption DEF Base, TypeOK, JobInv, GuardInv, StopInv, Running, Upgrades, Holders,
    NoJob, NoCall, MasterCall, Calls, Idle, Fail, Reply, Released, Callers, Disarmed, Registered, Unused
<1>1. ASSUME NEW c \in Clients, CallRegister(c) PROVE Base'
  BY <1>1 DEF CallRegister, Call, Message, RegisterMsg
<1>2. ASSUME NEW c \in Clients, CallQuery(c) PROVE Base'
  BY <1>2 DEF CallQuery, Call, Message, QueryMsg
<1>3. ASSUME NEW c \in Clients, Cancel(c) PROVE Base'
  BY <1>3 DEF Cancel
<1>4. ASSUME NEW c \in Clients, DropHandle(c) PROVE Base'
  BY <1>4 DEF DropHandle
<1>5. ASSUME NEW c \in Clients, NEW d \in Clients, CloneHandle(c, d) PROVE Base'
  BY <1>5 DEF CloneHandle
<1>6. ASSUME NEW g \in Guards, DropGuard(g) PROVE Base'
  BY <1>6 DEF DropGuard, Message, DropMsg
<1>7. CASE MasterAnswers
  BY <1>7 DEF MasterAnswers, MasterEffect, Answered
<1>8. CASE Receive
  BY <1>8 DEF Receive, Message, DropMsg, QueryMsg, RegisterMsg
<1>9. CASE AnswerQuery
  <2>1. job.from \in Clients
    BY <1>9 DEF AnswerQuery, Message, DropMsg, QueryMsg, RegisterMsg
  <2>. QED  BY <1>9, <2>1, ReplyKeepsBase DEF AnswerQuery
<1>10. CASE RegisterExisting
  <2>1. job.from \in Clients
    BY <1>10 DEF RegisterExisting, Message, DropMsg, QueryMsg, RegisterMsg
  <2>2. registry[job.topic] \in Guards /\ topicOf[registry[job.topic]] \in Topics
        /\ registry[job.topic] \notin dropping
    BY <1>10 DEF RegisterExisting, Message, DropMsg, QueryMsg, RegisterMsg
  <2>3. \/ held' = held
        \/ \E h \in Guards : /\ h \notin dropping /\ topicOf[h] \in Topics
                             /\ held' = [held EXCEPT ![job.from] = h]
    BY <1>10, <2>2 DEF RegisterExisting
  <2>4. Reply(job.from) /\ UNCHANGED <<draining, stopping, guardVars, dropping, master>>
    BY <1>10 DEF RegisterExisting
  <2>5. Running /\ pc # "post_stop"
    BY <1>10 DEF RegisterExisting
  <2>. QED
    <3> HIDE DEF TypeOK, JobInv, GuardInv, StopInv, Reply, Base, Running
    <3>. QED  BY <2>1, <2>3, <2>4, <2>5, ReplyKeepsBase
<1>11. CASE RegisterStale
  BY <1>11 DEF RegisterStale, Message, DropMsg, QueryMsg, RegisterMsg
<1>12. CASE StaleCleaned
  BY <1>12 DEF StaleCleaned
<1>13. CASE CreatePublication
  BY <1>13 DEF CreatePublication, Message, DropMsg, QueryMsg, RegisterMsg
<1>14. CASE CreateFails
  <2>1. job.from \in Clients
    BY <1>14 DEF CreateFails, Message, DropMsg, QueryMsg, RegisterMsg
  <2>. QED  BY <1>14, <2>1, ReplyKeepsBase DEF CreateFails
<1>23. CASE CreatePanics
  BY <1>23 DEF CreatePanics
<1>15. ASSUME NEW g \in Guards, FinishRegister(g) PROVE Base'
  <2>1. /\ job.topic \in Topics /\ job.spec \in Specs /\ job.from \in Clients
        /\ registry[job.topic] = None /\ draining = {} /\ Running /\ g \notin dropping
        /\ \A c \in Clients : held[c] # g
        /\ \A t \in Topics : registry[t] # g
    BY <1>15 DEF FinishRegister, Message, DropMsg, QueryMsg, RegisterMsg
  <2>2. TypeOK'
    <3>1. CASE client[job.from] = "cancelled"
      BY <1>15, <2>1, <3>1 DEF FinishRegister
    <3>2. CASE client[job.from] # "cancelled"
      <4>1. held' = [held EXCEPT ![job.from] = g] /\ registry' = [registry EXCEPT ![job.topic] = g]
        BY <1>15, <3>2 DEF FinishRegister
      <4>4. held' \in [Clients -> Guards \cup {None}]
        BY <4>1
      <4>5. registry' \in [Topics -> Guards \cup {None}]
        BY <4>1
      <4>2. client' = [client EXCEPT ![job.from] = "idle"] /\ mailbox' = mailbox
        BY <1>15, <3>2 DEF FinishRegister
      <4>3. /\ topicOf' \in [Guards -> Topics \cup {None}]
            /\ specOf' \in [Guards -> Specs \cup {None}]
            /\ armed' \in [Guards -> BOOLEAN]
        BY <1>15, <2>1, <3>2 DEF FinishRegister
      <4>. QED  BY <1>15, <3>2, <4>4, <4>5, <4>2, <4>3 DEF FinishRegister
    <3>. QED  BY <3>1, <3>2
  <2>3. JobInv' /\ StopInv'
    BY <1>15, <2>1 DEF FinishRegister
  <2>4. GuardInv'
    BY <1>15, <2>1 DEF FinishRegister
  <2>. QED  BY <2>2, <2>3, <2>4
<1>16. CASE RegisterRefused
  <2>1. job.from \in Clients
    BY <1>16 DEF RegisterRefused, Message, DropMsg, QueryMsg, RegisterMsg
  <2>. QED  BY <1>16, <2>1, ReplyKeepsBase DEF RegisterRefused
<1>17. CASE Unregister
  BY <1>17 DEF Unregister, Message, DropMsg, QueryMsg, RegisterMsg
<1>18. CASE UnregisterAbsent
  <2>1. CASE job.kind = "drop"
    BY <1>18, <2>1 DEF EndOfUnregister, UnregisterAbsent
  <2>2. CASE job.kind # "drop"
    <3>1. job.from \in Clients
      BY <1>18, <2>2 DEF UnregisterAbsent, Message, DropMsg, QueryMsg, RegisterMsg
    <3>. QED  BY <1>18, <2>2, <3>1, ReplyKeepsBase DEF EndOfUnregister, UnregisterAbsent
  <2>. QED  BY <2>1, <2>2
<1>24. CASE FinishUnregister
  <2>1. CASE job.kind = "drop"
    BY <1>24, <2>1 DEF EndOfUnregister, FinishUnregister
  <2>2. CASE job.kind # "drop"
    <3>1. job.from \in Clients
      BY <1>24, <2>2 DEF FinishUnregister, Message, DropMsg, QueryMsg, RegisterMsg
    <3>. QED  BY <1>24, <2>2, <3>1, ReplyKeepsBase DEF EndOfUnregister, FinishUnregister
  <2>. QED  BY <2>1, <2>2
<1>19. CASE RequestStop
  BY <1>19 DEF RequestStop
<1>25. CASE CallAfterEnd \/ UNCHANGED vars
  BY <1>25 DEF CallAfterEnd, vars
<1>20. CASE BeginPostStop
  BY <1>20 DEF BeginPostStop
<1>21. ASSUME NEW g \in Guards, PostStopCleanup(g) PROVE Base'
  BY <1>21 DEF PostStopCleanup
<1>22. CASE PostStopCleaned
  BY <1>22 DEF PostStopCleaned
<1>26. CASE Stopped
  BY <1>26 DEF Stopped
<1>. QED
  BY <1>1, <1>2, <1>3, <1>4, <1>5, <1>6, <1>7, <1>8, <1>9, <1>10, <1>11, <1>12, <1>13,
     <1>14, <1>15, <1>16, <1>17, <1>18, <1>19, <1>20, <1>21, <1>22,
     <1>23, <1>24, <1>25, <1>26
  DEF Next, Actor, User

LEMMA PublisherBase == Spec => []Base
<1>1. Base /\ [Next]_vars => Base'
  BY BaseNext
<1>. QED  BY BaseInit, <1>1, PTL DEF Spec

-----------------------------------------------------------------------------
(* RegistryBacked is inductive together with what the two calls have done    *)
(* by the time they are answered.                                            *)
BackedInv ==
    /\ RegistryBacked
    /\ pc = "register" /\ rpc.status = "ok" => rpc.topic \in master
    /\ rpc.op = "unregister" => registry[rpc.topic] = None

LEMMA BackedNext == Base /\ Base' /\ BackedInv /\ [Next]_vars => BackedInv'
<1> SUFFICES ASSUME Base, Base', BackedInv, [Next]_vars PROVE BackedInv'
  OBVIOUS
<1> USE PublisherAssumption DEF BackedInv, RegistryBacked
<1> USE DEF Base, TypeOK, JobInv, StopInv, Running, NoJob, NoCall, MasterCall, Idle, Fail, Reply, EndOfUnregister
<1>1. ASSUME NEW c \in Clients, CallRegister(c) PROVE BackedInv'
  BY <1>1 DEF CallRegister, Call
<1>2. ASSUME NEW c \in Clients, CallQuery(c) PROVE BackedInv'
  BY <1>2 DEF CallQuery, Call
<1>3. ASSUME NEW c \in Clients, Cancel(c) PROVE BackedInv'
  BY <1>3 DEF Cancel
<1>4. ASSUME NEW c \in Clients, DropHandle(c) PROVE BackedInv'
  BY <1>4 DEF DropHandle
<1>5. ASSUME NEW c \in Clients, NEW d \in Clients, CloneHandle(c, d) PROVE BackedInv'
  BY <1>5 DEF CloneHandle
<1>6. ASSUME NEW g \in Guards, DropGuard(g) PROVE BackedInv'
  BY <1>6 DEF DropGuard
<1>7. CASE MasterAnswers
  BY <1>7 DEF MasterAnswers, MasterEffect, Answered
<1>8. CASE Receive
  BY <1>8 DEF Receive
<1>9. CASE AnswerQuery
  BY <1>9 DEF AnswerQuery
<1>10. CASE RegisterExisting
  BY <1>10 DEF RegisterExisting
<1>11. CASE RegisterStale
  BY <1>11 DEF RegisterStale, Calls
<1>12. CASE StaleCleaned
  BY <1>12 DEF StaleCleaned
<1>13. CASE CreatePublication
  BY <1>13 DEF CreatePublication, Calls
<1>14. CASE CreateFails
  BY <1>14 DEF CreateFails
<1>15. CASE CreatePanics
  BY <1>15 DEF CreatePanics
<1>16. ASSUME NEW g \in Guards, FinishRegister(g) PROVE BackedInv'
  BY <1>16 DEF FinishRegister
<1>17. CASE RegisterRefused
  BY <1>17 DEF RegisterRefused
<1>18. CASE Unregister
  BY <1>18 DEF Unregister, Calls
<1>19. CASE UnregisterAbsent
  BY <1>19 DEF UnregisterAbsent, EndOfUnregister
<1>20. CASE FinishUnregister
  BY <1>20 DEF FinishUnregister, EndOfUnregister
<1>21. CASE RequestStop
  BY <1>21 DEF RequestStop
<1>22. CASE BeginPostStop
  BY <1>22 DEF BeginPostStop
<1>23. ASSUME NEW g \in Guards, PostStopCleanup(g) PROVE BackedInv'
  BY <1>23 DEF PostStopCleanup, Calls
<1>24. CASE PostStopCleaned
  BY <1>24 DEF PostStopCleaned
<1>25. CASE Stopped
  BY <1>25 DEF Stopped
<1>26. CASE CallAfterEnd \/ UNCHANGED vars
  BY <1>26 DEF CallAfterEnd, vars
<1>. QED
  BY <1>1, <1>2, <1>3, <1>4, <1>5, <1>6, <1>7, <1>8, <1>9, <1>10, <1>11, <1>12, <1>13, <1>14, <1>15, <1>16, <1>17, <1>18, <1>19, <1>20, <1>21, <1>22, <1>23, <1>24, <1>25, <1>26
  DEF Next, Actor, User

(* A publication is registered only while the master lists it, even if any   *)
(* master call may fail with or without effect.                              *)
THEOREM PublisherRegistryBacked == Spec => []RegistryBacked
<1>1. Init => BackedInv
  BY DEF Init, BackedInv, RegistryBacked, NoCall
<1>2. Base /\ Base' /\ BackedInv /\ [Next]_vars => BackedInv'
  BY BackedNext
<1>3. BackedInv => RegistryBacked
  BY DEF BackedInv
<1>. QED  BY <1>1, <1>2, <1>3, PublisherBase, PTL DEF Spec

-----------------------------------------------------------------------------
(* What an answered unregister call has done, and that only a registration   *)
(* awaits a register call: the two facts about the master that a step which  *)
(* leaves a topic unaccounted for needs.                                     *)
MasterInv ==
    /\ rpc.op = "unregister" /\ rpc.status = "ok" => rpc.topic \notin master
    /\ rpc.op = "register" => pc = "register"

LEMMA MasterNext == Base /\ Base' /\ MasterInv /\ [Next]_vars => MasterInv'
<1> SUFFICES ASSUME Base, Base', MasterInv, [Next]_vars PROVE MasterInv'
  OBVIOUS
<1> USE PublisherAssumption DEF MasterInv
<1> USE DEF Base, TypeOK, JobInv, Running, NoJob, NoCall, MasterCall, Idle, Fail, Reply, EndOfUnregister
<1>1. ASSUME NEW c \in Clients, CallRegister(c) PROVE MasterInv'
  BY <1>1 DEF CallRegister, Call
<1>2. ASSUME NEW c \in Clients, CallQuery(c) PROVE MasterInv'
  BY <1>2 DEF CallQuery, Call
<1>3. ASSUME NEW c \in Clients, Cancel(c) PROVE MasterInv'
  BY <1>3 DEF Cancel
<1>4. ASSUME NEW c \in Clients, DropHandle(c) PROVE MasterInv'
  BY <1>4 DEF DropHandle
<1>5. ASSUME NEW c \in Clients, NEW d \in Clients, CloneHandle(c, d) PROVE MasterInv'
  BY <1>5 DEF CloneHandle
<1>6. ASSUME NEW g \in Guards, DropGuard(g) PROVE MasterInv'
  BY <1>6 DEF DropGuard
<1>7. CASE MasterAnswers
  BY <1>7 DEF MasterAnswers, MasterEffect, Answered
<1>8. CASE Receive
  BY <1>8 DEF Receive
<1>9. CASE AnswerQuery
  BY <1>9 DEF AnswerQuery
<1>10. CASE RegisterExisting
  BY <1>10 DEF RegisterExisting
<1>11. CASE RegisterStale
  BY <1>11 DEF RegisterStale, Calls
<1>12. CASE StaleCleaned
  BY <1>12 DEF StaleCleaned
<1>13. CASE CreatePublication
  BY <1>13 DEF CreatePublication, Calls
<1>14. CASE CreateFails
  BY <1>14 DEF CreateFails
<1>15. CASE CreatePanics
  BY <1>15 DEF CreatePanics
<1>16. ASSUME NEW g \in Guards, FinishRegister(g) PROVE MasterInv'
  BY <1>16 DEF FinishRegister
<1>17. CASE RegisterRefused
  BY <1>17 DEF RegisterRefused
<1>18. CASE Unregister
  BY <1>18 DEF Unregister, Calls
<1>19. CASE UnregisterAbsent
  BY <1>19 DEF UnregisterAbsent, EndOfUnregister
<1>20. CASE FinishUnregister
  BY <1>20 DEF FinishUnregister, EndOfUnregister
<1>21. CASE RequestStop
  BY <1>21 DEF RequestStop
<1>22. CASE BeginPostStop
  BY <1>22 DEF BeginPostStop
<1>23. ASSUME NEW g \in Guards, PostStopCleanup(g) PROVE MasterInv'
  BY <1>23 DEF PostStopCleanup, Calls
<1>24. CASE PostStopCleaned
  BY <1>24 DEF PostStopCleaned
<1>25. CASE Stopped
  BY <1>25 DEF Stopped
<1>26. CASE CallAfterEnd \/ UNCHANGED vars
  BY <1>26 DEF CallAfterEnd, vars
<1>. QED
  BY <1>1, <1>2, <1>3, <1>4, <1>5, <1>6, <1>7, <1>8, <1>9, <1>10, <1>11, <1>12, <1>13, <1>14, <1>15, <1>16, <1>17, <1>18, <1>19, <1>20, <1>21, <1>22, <1>23, <1>24, <1>25, <1>26
  DEF Next, Actor, User

(* A step after which the master's listing of t is not accounted for, while  *)
(* before it was, follows a failed call or fails the actor.                  *)
Strands(t) ==
    (t \in master => Accounted(t)) /\ ~(t \in master => Accounted(t))'
        => rpc.status = "err" \/ pc' = "failed"

LEMMA StrandsNext == Base /\ Base' /\ MasterInv /\ [Next]_vars => \A t \in Topics : Strands(t)
<1> SUFFICES ASSUME Base, Base', MasterInv, [Next]_vars PROVE \A t \in Topics : Strands(t)
  OBVIOUS
<1> USE PublisherAssumption DEF MasterInv, Strands, Accounted
<1> USE DEF Base, TypeOK, JobInv, GuardInv, StopInv, Running, NoJob, NoCall, MasterCall, Idle, Fail, Reply, EndOfUnregister, Registered
<1>1. ASSUME NEW c \in Clients, CallRegister(c) PROVE \A t \in Topics : Strands(t)
  BY <1>1 DEF CallRegister, Call
<1>2. ASSUME NEW c \in Clients, CallQuery(c) PROVE \A t \in Topics : Strands(t)
  BY <1>2 DEF CallQuery, Call
<1>3. ASSUME NEW c \in Clients, Cancel(c) PROVE \A t \in Topics : Strands(t)
  BY <1>3 DEF Cancel
<1>4. ASSUME NEW c \in Clients, DropHandle(c) PROVE \A t \in Topics : Strands(t)
  BY <1>4 DEF DropHandle
<1>5. ASSUME NEW c \in Clients, NEW d \in Clients, CloneHandle(c, d) PROVE \A t \in Topics : Strands(t)
  BY <1>5 DEF CloneHandle
<1>6. ASSUME NEW g \in Guards, DropGuard(g) PROVE \A t \in Topics : Strands(t)
  BY <1>6 DEF DropGuard
<1>7. CASE MasterAnswers
  BY <1>7 DEF MasterAnswers, MasterEffect, Answered
<1>8. CASE Receive
  BY <1>8 DEF Receive
<1>9. CASE AnswerQuery
  BY <1>9 DEF AnswerQuery
<1>10. CASE RegisterExisting
  BY <1>10 DEF RegisterExisting
<1>11. CASE RegisterStale
  BY <1>11 DEF RegisterStale, Calls
<1>12. CASE StaleCleaned
  BY <1>12 DEF StaleCleaned
<1>13. CASE CreatePublication
  BY <1>13 DEF CreatePublication, Calls
<1>14. CASE CreateFails
  BY <1>14 DEF CreateFails
<1>15. CASE CreatePanics
  BY <1>15 DEF CreatePanics
<1>16. ASSUME NEW g \in Guards, FinishRegister(g) PROVE \A t \in Topics : Strands(t)
  BY <1>16 DEF FinishRegister
<1>17. CASE RegisterRefused
  BY <1>17 DEF RegisterRefused
<1>18. CASE Unregister
  BY <1>18 DEF Unregister, Calls
<1>19. CASE UnregisterAbsent
  BY <1>19 DEF UnregisterAbsent, EndOfUnregister
<1>20. CASE FinishUnregister
  BY <1>20 DEF FinishUnregister, EndOfUnregister
<1>21. CASE RequestStop
  BY <1>21 DEF RequestStop
<1>22. CASE BeginPostStop
  BY <1>22 DEF BeginPostStop
<1>23. ASSUME NEW g \in Guards, PostStopCleanup(g) PROVE \A t \in Topics : Strands(t)
  BY <1>23 DEF PostStopCleanup, Calls
<1>24. CASE PostStopCleaned
  BY <1>24 DEF PostStopCleaned
<1>25. CASE Stopped
  BY <1>25 DEF Stopped
<1>26. CASE CallAfterEnd \/ UNCHANGED vars
  BY <1>26 DEF CallAfterEnd, vars
<1>. QED
  BY <1>1, <1>2, <1>3, <1>4, <1>5, <1>6, <1>7, <1>8, <1>9, <1>10, <1>11, <1>12, <1>13, <1>14, <1>15, <1>16, <1>17, <1>18, <1>19, <1>20, <1>21, <1>22, <1>23, <1>24, <1>25, <1>26
  DEF Next, Actor, User

(* Topics are left listed without a publication only by failures.            *)
THEOREM PublisherStrandedOnlyByFailure == Spec => StrandedOnlyByFailure
<1>1. Init => MasterInv
  BY DEF Init, MasterInv, NoCall
<1>2. Base /\ Base' /\ MasterInv /\ [Next]_vars => MasterInv'
  BY MasterNext
<1>3. Base /\ Base' /\ MasterInv /\ [Next]_vars =>
        [\A t \in Topics :
           (t \in master => Accounted(t)) /\ ~(t \in master => Accounted(t))'
               => rpc.status = "err" \/ pc' = "failed"]_vars
  BY StrandsNext DEF Strands
<1>. QED  BY <1>1, <1>2, <1>3, PublisherBase, PTL DEF Spec, StrandedOnlyByFailure

-----------------------------------------------------------------------------
(* Every step of the actor, its users and the master is a step of Registrar  *)
(* or changes neither the registry nor the listing.                          *)
LEMMA RegistrarNext == Base /\ BackedInv /\ [Next]_vars => [Reg!Next]_<<registry, master>>
<1> SUFFICES ASSUME Base, BackedInv, [Next]_vars PROVE [Reg!Next]_<<registry, master>>
  OBVIOUS
<1> USE PublisherAssumption DEF BackedInv, RegistryBacked, Reg!Next, Reg!LeaveAll
<1> USE DEF Base, TypeOK, JobInv, Running, NoJob, NoCall, MasterCall, Idle, Fail, Reply, EndOfUnregister
<1>1. ASSUME NEW c \in Clients, CallRegister(c) PROVE [Reg!Next]_<<registry, master>>
  BY <1>1 DEF CallRegister, Call
<1>2. ASSUME NEW c \in Clients, CallQuery(c) PROVE [Reg!Next]_<<registry, master>>
  BY <1>2 DEF CallQuery, Call
<1>3. ASSUME NEW c \in Clients, Cancel(c) PROVE [Reg!Next]_<<registry, master>>
  BY <1>3 DEF Cancel
<1>4. ASSUME NEW c \in Clients, DropHandle(c) PROVE [Reg!Next]_<<registry, master>>
  BY <1>4 DEF DropHandle
<1>5. ASSUME NEW c \in Clients, NEW d \in Clients, CloneHandle(c, d) PROVE [Reg!Next]_<<registry, master>>
  BY <1>5 DEF CloneHandle
<1>6. ASSUME NEW g \in Guards, DropGuard(g) PROVE [Reg!Next]_<<registry, master>>
  BY <1>6 DEF DropGuard
<1>7. CASE MasterAnswers
  <2>1. CASE rpc.op = "register"
    <3>1. rpc.topic \in Topics
      BY <1>7 DEF MasterAnswers
    <3>. QED  BY <1>7, <2>1, <3>1 DEF MasterAnswers, MasterEffect, Reg!Enlist
  <2>2. CASE rpc.op # "register"
    <3>1. rpc.topic \in Topics /\ registry[rpc.topic] = None
      BY <1>7, <2>2 DEF MasterAnswers
    <3>. QED  BY <1>7, <2>2, <3>1 DEF MasterAnswers, MasterEffect, Reg!Delist
  <2>. QED  BY <2>1, <2>2
<1>8. CASE Receive
  BY <1>8 DEF Receive
<1>9. CASE AnswerQuery
  BY <1>9 DEF AnswerQuery
<1>10. CASE RegisterExisting
  BY <1>10 DEF RegisterExisting
<1>11. CASE RegisterStale
  <2>1. job.topic \in Topics
    BY <1>11 DEF RegisterStale, Message, DropMsg, QueryMsg, RegisterMsg
  <2>. QED  BY <1>11, <2>1 DEF RegisterStale, Reg!Leave
<1>12. CASE StaleCleaned
  BY <1>12 DEF StaleCleaned
<1>13. CASE CreatePublication
  BY <1>13 DEF CreatePublication, Calls
<1>14. CASE CreateFails
  BY <1>14 DEF CreateFails
<1>15. CASE CreatePanics
  BY <1>15 DEF CreatePanics
<1>16. ASSUME NEW g \in Guards, FinishRegister(g) PROVE [Reg!Next]_<<registry, master>>
  <2>1. job.topic \in Topics /\ registry[job.topic] = None /\ job.topic \in master
    BY <1>16 DEF FinishRegister, Message, DropMsg, QueryMsg, RegisterMsg
  <2>2. CASE client[job.from] = "cancelled"
    BY <1>16, <2>2 DEF FinishRegister
  <2>3. CASE client[job.from] # "cancelled"
    <3>1. Reg!Enter(job.topic, g)
      BY <1>16, <2>1, <2>3 DEF FinishRegister, Reg!Enter
    <3>. QED  BY <2>1, <3>1
  <2>. QED  BY <2>2, <2>3
<1>17. CASE RegisterRefused
  BY <1>17 DEF RegisterRefused
<1>18. CASE Unregister
  <2>1. job.topic \in Topics
    BY <1>18 DEF Unregister, Message, DropMsg, QueryMsg, RegisterMsg
  <2>. QED  BY <1>18, <2>1 DEF Unregister, Reg!Leave
<1>19. CASE UnregisterAbsent
  BY <1>19 DEF UnregisterAbsent, EndOfUnregister
<1>20. CASE FinishUnregister
  BY <1>20 DEF FinishUnregister, EndOfUnregister
<1>21. CASE RequestStop
  BY <1>21 DEF RequestStop
<1>22. CASE BeginPostStop
  BY <1>22 DEF BeginPostStop
<1>23. ASSUME NEW g \in Guards, PostStopCleanup(g) PROVE [Reg!Next]_<<registry, master>>
  BY <1>23 DEF PostStopCleanup, Calls
<1>24. CASE PostStopCleaned
  BY <1>24 DEF PostStopCleaned
<1>25. CASE Stopped
  BY <1>25 DEF Stopped
<1>26. CASE CallAfterEnd \/ UNCHANGED vars
  BY <1>26 DEF CallAfterEnd, vars
<1>. QED
  BY <1>1, <1>2, <1>3, <1>4, <1>5, <1>6, <1>7, <1>8, <1>9, <1>10, <1>11, <1>12, <1>13, <1>14, <1>15, <1>16, <1>17, <1>18, <1>19, <1>20, <1>21, <1>22, <1>23, <1>24, <1>25, <1>26
  DEF Next, Actor, User

(* The publisher actor implements Registrar.                                 *)
THEOREM PublisherImplementsRegistrar == Spec => RegistrarSpec
<1>1. Init => Reg!Init
  BY DEF Init, Reg!Init
<1>2. Base /\ BackedInv /\ [Next]_vars => [Reg!Next]_<<registry, master>>
  BY RegistrarNext
<1>3. Init => BackedInv
  BY DEF Init, BackedInv, RegistryBacked, NoCall
<1>4. Base /\ Base' /\ BackedInv /\ [Next]_vars => BackedInv'
  BY BackedNext
<1>. QED  BY <1>1, <1>2, <1>3, <1>4, PublisherBase, PTL DEF Spec, RegistrarSpec, Reg!Spec

-----------------------------------------------------------------------------
LEMMA DisarmNext == Base /\ Base' /\ DisarmedIffRemoved /\ [Next]_vars => DisarmedIffRemoved'
<1> SUFFICES ASSUME Base, Base', DisarmedIffRemoved, [Next]_vars PROVE DisarmedIffRemoved'
  OBVIOUS
<1> USE PublisherAssumption DEF DisarmedIffRemoved
<1> USE DEF Base, TypeOK, JobInv, GuardInv, StopInv, Running, NoJob, Idle, Fail, Reply, EndOfUnregister, Registered, Upgrades, Holders, Unused, Disarmed
<1>1. ASSUME NEW c \in Clients, CallRegister(c) PROVE DisarmedIffRemoved'
  BY <1>1 DEF CallRegister, Call
<1>2. ASSUME NEW c \in Clients, CallQuery(c) PROVE DisarmedIffRemoved'
  BY <1>2 DEF CallQuery, Call
<1>3. ASSUME NEW c \in Clients, Cancel(c) PROVE DisarmedIffRemoved'
  BY <1>3 DEF Cancel
<1>4. ASSUME NEW c \in Clients, DropHandle(c) PROVE DisarmedIffRemoved'
  BY <1>4 DEF DropHandle
<1>5. ASSUME NEW c \in Clients, NEW d \in Clients, CloneHandle(c, d) PROVE DisarmedIffRemoved'
  BY <1>5 DEF CloneHandle
<1>6. ASSUME NEW g \in Guards, DropGuard(g) PROVE DisarmedIffRemoved'
  BY <1>6 DEF DropGuard
<1>7. CASE MasterAnswers
  BY <1>7 DEF MasterAnswers, MasterEffect, Answered
<1>8. CASE Receive
  BY <1>8 DEF Receive
<1>9. CASE AnswerQuery
  BY <1>9 DEF AnswerQuery
<1>10. CASE RegisterExisting
  <2>1. /\ \A c \in Clients : held'[c] = held[c] \/ held'[c] = registry[job.topic]
        /\ job.topic \in Topics /\ registry[job.topic] # None
        /\ UNCHANGED <<armed, topicOf, draining>>
    BY <1>10 DEF RegisterExisting, Message, DropMsg, QueryMsg, RegisterMsg
  <2>2. Running' => registry' = registry
    BY <1>10 DEF RegisterExisting
  <2>. QED  BY <2>1, <2>2
<1>11. CASE RegisterStale
  BY <1>11 DEF RegisterStale, Calls
<1>12. CASE StaleCleaned
  BY <1>12 DEF StaleCleaned
<1>13. CASE CreatePublication
  BY <1>13 DEF CreatePublication, Calls
<1>14. CASE CreateFails
  BY <1>14 DEF CreateFails
<1>15. CASE CreatePanics
  BY <1>15 DEF CreatePanics
<1>16. ASSUME NEW g \in Guards, FinishRegister(g) PROVE DisarmedIffRemoved'
  BY <1>16 DEF FinishRegister
<1>17. CASE RegisterRefused
  BY <1>17 DEF RegisterRefused
<1>18. CASE Unregister
  BY <1>18 DEF Unregister, Calls
<1>19. CASE UnregisterAbsent
  BY <1>19 DEF UnregisterAbsent, EndOfUnregister
<1>20. CASE FinishUnregister
  BY <1>20 DEF FinishUnregister, EndOfUnregister
<1>21. CASE RequestStop
  BY <1>21 DEF RequestStop
<1>22. CASE BeginPostStop
  BY <1>22 DEF BeginPostStop
<1>23. ASSUME NEW g \in Guards, PostStopCleanup(g) PROVE DisarmedIffRemoved'
  BY <1>23 DEF PostStopCleanup, Calls
<1>24. CASE PostStopCleaned
  BY <1>24 DEF PostStopCleaned
<1>25. CASE Stopped
  BY <1>25 DEF Stopped
<1>26. CASE CallAfterEnd \/ UNCHANGED vars
  BY <1>26 DEF CallAfterEnd, vars
<1>. QED
  BY <1>1, <1>2, <1>3, <1>4, <1>5, <1>6, <1>7, <1>8, <1>9, <1>10, <1>11, <1>12, <1>13, <1>14, <1>15, <1>16, <1>17, <1>18, <1>19, <1>20, <1>21, <1>22, <1>23, <1>24, <1>25, <1>26
  DEF Next, Actor, User

(* A handle in use is armed exactly while its publication is registered.     *)
THEOREM PublisherDisarmed == Spec => []DisarmedIffRemoved
<1>1. Init => DisarmedIffRemoved
  BY DEF Init, DisarmedIffRemoved
<1>2. Base /\ Base' /\ DisarmedIffRemoved /\ [Next]_vars => DisarmedIffRemoved'
  BY DisarmNext
<1>. QED  BY <1>1, <1>2, PublisherBase, PTL DEF Spec

-----------------------------------------------------------------------------
(* A task whose call is outstanding has no handle, and its reply port is in  *)
(* one message only: the reply gives a handle to a task that had none, so    *)
(* no guard loses a reference by it.                                         *)
Asks(m) == m.kind \in {"register", "query", "unregister"}

CallInv ==
    /\ \A c \in Clients : client[c] # "idle" => held[c] = None
    /\ Asks(job) => client[job.from] # "idle"
    /\ \A i \in 1..Len(mailbox) : Asks(mailbox[i]) =>
          /\ client[mailbox[i].from] # "idle"
          /\ Asks(job) => mailbox[i].from # job.from
          /\ \A j \in 1..Len(mailbox) \ {i} : Asks(mailbox[j]) => mailbox[i].from # mailbox[j].from

(* The two ways a handler ends, seen from the callers.                       *)
LEMMA ReplyEnds ==
  ASSUME Base, NEW c \in Clients, Reply(c)
  PROVE  /\ job' = NoJob
         /\ \/ mailbox' = <<>> /\ \A d \in Clients : client'[d] = "idle"
            \/ mailbox' = mailbox /\ client' = [client EXCEPT ![c] = "idle"]
<1>1. CASE client[c] = "cancelled"
  BY <1>1 DEF Reply, Fail, Released, Callers, Base, TypeOK
<1>2. CASE client[c] # "cancelled"
  BY <1>2 DEF Reply, Idle
<1>. QED  BY <1>1, <1>2

LEMMA EndKeepsCall ==
  ASSUME Base, Base', CallInv, NEW c \in Clients, Asks(job), c = job.from, job' = NoJob,
         \/ mailbox' = <<>> /\ \A d \in Clients : client'[d] = "idle"
         \/ mailbox' = mailbox /\ client' = [client EXCEPT ![c] = "idle"],
         \A d \in Clients \ {c} : held'[d] = held[d]
  PROVE  CallInv'
<1> USE DEF CallInv, Asks, NoJob, Base, TypeOK
<1>1. CASE mailbox' = <<>> /\ \A d \in Clients : client'[d] = "idle"
  BY <1>1
<1>2. CASE mailbox' = mailbox /\ client' = [client EXCEPT ![c] = "idle"]
  <2>1. \A d \in Clients : client'[d] # "idle" => held'[d] = None
    BY <1>2
  <2>2. \A k \in 1..Len(mailbox) : Asks(mailbox[k]) =>
           mailbox[k].from \in Clients /\ mailbox[k].from # c
    BY DEF Message, DropMsg, QueryMsg, RegisterMsg
  <2>. QED  BY <1>2, <2>1, <2>2
<1>. QED  BY <1>1, <1>2

LEMMA CallNext == Base /\ Base' /\ CallInv /\ [Next]_vars => CallInv'
<1> SUFFICES ASSUME Base, Base', CallInv, [Next]_vars PROVE CallInv'
  OBVIOUS
<1> USE PublisherAssumption DEF CallInv, Asks
<1> USE DEF Base, TypeOK, JobInv, NoJob, Idle, Fail, Reply, EndOfUnregister, Message, DropMsg, QueryMsg, RegisterMsg
<1>1. ASSUME NEW c \in Clients, CallRegister(c) PROVE CallInv'
  BY <1>1 DEF CallRegister, Call
<1>2. ASSUME NEW c \in Clients, CallQuery(c) PROVE CallInv'
  BY <1>2 DEF CallQuery, Call
<1>3. ASSUME NEW c \in Clients, Cancel(c) PROVE CallInv'
  BY <1>3 DEF Cancel
<1>4. ASSUME NEW c \in Clients, DropHandle(c) PROVE CallInv'
  BY <1>4 DEF DropHandle
<1>5. ASSUME NEW c \in Clients, NEW d \in Clients, CloneHandle(c, d) PROVE CallInv'
  BY <1>5 DEF CloneHandle
<1>6. ASSUME NEW g \in Guards, DropGuard(g) PROVE CallInv'
  BY <1>6 DEF DropGuard
<1>7. CASE MasterAnswers
  BY <1>7 DEF MasterAnswers, MasterEffect, Answered
<1>8. CASE Receive
  BY <1>8 DEF Receive
<1>9. CASE AnswerQuery
  <2>1. job.from \in Clients /\ Asks(job) /\ Reply(job.from)
    BY <1>9 DEF AnswerQuery
  <2>2. \A d \in Clients \ {job.from} : held'[d] = held[d]
    BY <1>9 DEF AnswerQuery
  <2>. QED
    <3> HIDE DEF Base, CallInv, Asks, Reply
    <3>. QED  BY <2>1, <2>2, ReplyEnds, EndKeepsCall
<1>10. CASE RegisterExisting
  <2>1. job.from \in Clients /\ Asks(job) /\ Reply(job.from)
    BY <1>10 DEF RegisterExisting
  <2>2. \A d \in Clients \ {job.from} : held'[d] = held[d]
    BY <1>10 DEF RegisterExisting
  <2>. QED
    <3> HIDE DEF Base, CallInv, Asks, Reply
    <3>. QED  BY <2>1, <2>2, ReplyEnds, EndKeepsCall
<1>11. CASE RegisterStale
  BY <1>11 DEF RegisterStale, Calls
<1>12. CASE StaleCleaned
  BY <1>12 DEF StaleCleaned
<1>13. CASE CreatePublication
  BY <1>13 DEF CreatePublication, Calls
<1>14. CASE CreateFails
  <2>1. job.from \in Clients /\ Asks(job) /\ Reply(job.from)
    BY <1>14 DEF CreateFails
  <2>2. \A d \in Clients \ {job.from} : held'[d] = held[d]
    BY <1>14 DEF CreateFails
  <2>. QED
    <3> HIDE DEF Base, CallInv, Asks, Reply
    <3>. QED  BY <2>1, <2>2, ReplyEnds, EndKeepsCall
<1>15. CASE CreatePanics
  BY <1>15 DEF CreatePanics, Released, Callers
<1>16. ASSUME NEW g \in Guards, FinishRegister(g) PROVE CallInv'
  <2>1. job.from \in Clients /\ Asks(job)
    BY <1>16 DEF FinishRegister
  <2>2. job' = NoJob /\ \A d \in Clients \ {job.from} : held'[d] = held[d]
    BY <1>16 DEF FinishRegister
  <2>3. \/ mailbox' = <<>> /\ \A d \in Clients : client'[d] = "idle"
        \/ mailbox' = mailbox /\ client' = [client EXCEPT ![job.from] = "idle"]
    BY <1>16 DEF FinishRegister, Released, Callers
  <2>. QED
    <3> HIDE DEF Base, CallInv, Asks
    <3>. QED  BY <2>1, <2>2, <2>3, EndKeepsCall
<1>17. CASE RegisterRefused
  <2>1. job.from \in Clients /\ Asks(job) /\ Reply(job.from)
    BY <1>17 DEF RegisterRefused
  <2>2. \A d \in Clients \ {job.from} : held'[d] = held[d]
    BY <1>17 DEF RegisterRefused
  <2>. QED
    <3> HIDE DEF Base, CallInv, Asks, Reply
    <3>. QED  BY <2>1, <2>2, ReplyEnds, EndKeepsCall
<1>18. CASE Unregister
  BY <1>18 DEF Unregister, Calls
<1>19. CASE UnregisterAbsent
  <2>1. CASE job.kind = "drop"
    BY <1>19, <2>1 DEF UnregisterAbsent, EndOfUnregister
  <2>2. CASE job.kind # "drop"
    <3>1. job.from \in Clients /\ Asks(job) /\ Reply(job.from) /\ held' = held
      BY <1>19, <2>2 DEF UnregisterAbsent, EndOfUnregister
    <3>. QED
      <4> HIDE DEF Base, CallInv, Asks, Reply
      <4>. QED  BY <3>1, ReplyEnds, EndKeepsCall
  <2>. QED  BY <2>1, <2>2
<1>20. CASE FinishUnregister
  <2>1. CASE job.kind = "drop"
    BY <1>20, <2>1 DEF FinishUnregister, EndOfUnregister
  <2>2. CASE job.kind # "drop"
    <3>1. job.from \in Clients /\ Asks(job) /\ Reply(job.from) /\ held' = held
      BY <1>20, <2>2 DEF FinishUnregister, EndOfUnregister
    <3>. QED
      <4> HIDE DEF Base, CallInv, Asks, Reply
      <4>. QED  BY <3>1, ReplyEnds, EndKeepsCall
  <2>. QED  BY <2>1, <2>2
<1>21. CASE RequestStop
  BY <1>21 DEF RequestStop
<1>22. CASE BeginPostStop
  BY <1>22 DEF BeginPostStop
<1>23. ASSUME NEW g \in Guards, PostStopCleanup(g) PROVE CallInv'
  BY <1>23 DEF PostStopCleanup, Calls
<1>24. CASE PostStopCleaned
  BY <1>24 DEF PostStopCleaned
<1>25. CASE Stopped
  BY <1>25 DEF Stopped, Released, Callers
<1>26. CASE CallAfterEnd \/ UNCHANGED vars
  BY <1>26 DEF CallAfterEnd, vars
<1>. QED
  BY <1>1, <1>2, <1>3, <1>4, <1>5, <1>6, <1>7, <1>8, <1>9, <1>10, <1>11, <1>12, <1>13, <1>14, <1>15, <1>16, <1>17, <1>18, <1>19, <1>20, <1>21, <1>22, <1>23, <1>24, <1>25, <1>26
  DEF Next, Actor, User

(* A step of the actor that ends or goes on with a job, and touches neither  *)
(* guards nor handles, forgets no publication: the registry stays as it is,  *)
(* and a drop is done with only once its topic has no publication.           *)
LEMMA QuietKeepsOrphans ==
    ASSUME OrphansPending, Running, UNCHANGED <<held, dropping, armed>>,
           \/ ~Running'
           \/ /\ UNCHANGED <<registry, mailbox>>
              /\ job' = job \/ (job.kind = "drop" => registry[job.topic] = None)
    PROVE  OrphansPending'
<1>1. ASSUME UNCHANGED <<registry, mailbox>>,
             job' = job \/ (job.kind = "drop" => registry[job.topic] = None),
             NEW t \in Topics, (registry[t] # None /\ ~Upgrades(registry[t]))'
      PROVE  ((registry[t] \in dropping /\ armed[registry[t]]) \/ DropPending(t))'
  <2>1. registry[t] # None /\ ~Upgrades(registry[t])
    BY <1>1 DEF Upgrades, Holders
  <2>2. (registry[t] \in dropping /\ armed[registry[t]]) \/ DropPending(t)
    BY <2>1 DEF OrphansPending
  <2>3. DropPending(t) => DropPending(t)'
    BY <1>1, <2>1 DEF DropPending
  <2>. QED  BY <1>1, <2>2, <2>3
<1>. QED
  BY <1>1 DEF OrphansPending

LEMMA OrphanNext == Base /\ Base' /\ CallInv /\ OrphansPending /\ [Next]_vars => OrphansPending'
<1> SUFFICES ASSUME Base, Base', CallInv, OrphansPending, [Next]_vars PROVE OrphansPending'
  OBVIOUS
<1> USE PublisherAssumption DEF OrphansPending, DropPending
<1> USE DEF Base, TypeOK, JobInv, GuardInv, StopInv, Running, NoJob, Idle, Fail, Reply, EndOfUnregister, Registered, Upgrades, Holders, Unused, Disarmed
<1>1. ASSUME NEW c \in Clients, CallRegister(c) PROVE OrphansPending'
  <2>1. PICK t \in Topics, x \in Specs, q \in QueueSizes :
           Call(c, [kind |-> "register", topic |-> t, spec |-> x, queue |-> q, from |-> c])
    BY <1>1 DEF CallRegister
  <2>. QED  BY <2>1 DEF Call
<1>2. ASSUME NEW c \in Clients, CallQuery(c) PROVE OrphansPending'
  BY <1>2 DEF CallQuery, Call
<1>3. ASSUME NEW c \in Clients, Cancel(c) PROVE OrphansPending'
  BY <1>3 DEF Cancel
<1>4. ASSUME NEW c \in Clients, DropHandle(c) PROVE OrphansPending'
  BY <1>4 DEF DropHandle
<1>5. ASSUME NEW c \in Clients, NEW d \in Clients, CloneHandle(c, d) PROVE OrphansPending'
  BY <1>5 DEF CloneHandle
<1>6. ASSUME NEW g \in Guards, DropGuard(g) PROVE OrphansPending'
  BY <1>6 DEF DropGuard
<1>7. CASE MasterAnswers
  BY <1>7 DEF MasterAnswers, MasterEffect, Answered
<1>8. CASE Receive
  <2>1. /\ mailbox # <<>> /\ job' = Head(mailbox) /\ mailbox' = Tail(mailbox)
        /\ UNCHANGED <<registry, held, dropping, armed>> /\ Running
    BY <1>8 DEF Receive
  <2>2. ASSUME NEW i \in 1..Len(mailbox)
        PROVE  mailbox[i] = job' \/ \E j \in 1..Len(mailbox') : mailbox'[j] = mailbox[i]
    <3>1. CASE i = 1
      BY <2>1, <3>1
    <3>2. CASE i # 1
      <4>1. i - 1 \in 1..Len(mailbox') /\ mailbox'[i - 1] = mailbox[i]
        BY <2>1, <3>2
      <4>. QED  BY <4>1
    <3>. QED  BY <3>1, <3>2
  <2>3. job = NoJob
    BY <1>8 DEF Receive
  <2>4. \A t \in Topics : DropPending(t) => DropPending(t)'
    <3> SUFFICES ASSUME NEW t \in Topics, NEW k \in 1..Len(mailbox),
                        mailbox[k].kind = "drop", mailbox[k].topic = t
                 PROVE  DropPending(t)'
      BY <2>3
    <3>1. CASE mailbox[k] = job'
      BY <3>1
    <3>2. CASE \E m \in 1..Len(mailbox') : mailbox'[m] = mailbox[k]
      BY <3>2
    <3>. QED  BY <2>2, <3>1, <3>2
  <2>. QED
    <3> HIDE DEF DropPending
    <3>. QED  BY <2>1, <2>4
<1>9. CASE AnswerQuery
  <2>1. /\ Running /\ UNCHANGED <<held, dropping, armed>>
        /\ \/ ~Running'
           \/ /\ UNCHANGED <<registry, mailbox>>
              /\ job.kind = "drop" => registry[job.topic] = None
    BY <1>9 DEF AnswerQuery
  <2>. QED
    <3> HIDE DEF Running, OrphansPending
    <3>. QED  BY <2>1, QuietKeepsOrphans
<1>10. CASE RegisterExisting
  <2>1. /\ job.kind # "drop" /\ UNCHANGED <<dropping, armed>> /\ Running
        /\ registry[job.topic] \in Guards /\ Upgrades(registry[job.topic])
    BY <1>10 DEF RegisterExisting, Message, DropMsg, QueryMsg, RegisterMsg
  <2>2. Running' => UNCHANGED <<registry, mailbox>>
    BY <1>10 DEF RegisterExisting
  <2>3. \A g \in Guards : Upgrades(g) => Upgrades(g)'
    <3>1. \A d \in Clients : held[d] # None => held'[d] = held[d]
      BY <1>10 DEF RegisterExisting, CallInv, Asks
    <3>. QED  BY <3>1
  <2>. QED  BY SMTT(30), <2>1, <2>2, <2>3
<1>11. CASE RegisterStale
  BY <1>11 DEF RegisterStale, Calls
<1>12. CASE StaleCleaned
  BY <1>12 DEF StaleCleaned
<1>13. CASE CreatePublication
  BY <1>13 DEF CreatePublication, Calls
<1>14. CASE CreateFails
  BY <1>14 DEF CreateFails
<1>15. CASE CreatePanics
  BY <1>15 DEF CreatePanics
<1>16. ASSUME NEW g \in Guards, FinishRegister(g) PROVE OrphansPending'
  <2>1. /\ job.kind # "drop" /\ Running /\ g \notin dropping /\ dropping' = dropping
        /\ job.topic \in Topics /\ job.from \in Clients
        /\ \A h \in Guards \ {g} : armed'[h] = armed[h]
    BY <1>16 DEF FinishRegister, Message, DropMsg, QueryMsg, RegisterMsg
  <2>2. CASE client[job.from] = "cancelled"
    BY <1>16, <2>2 DEF FinishRegister
  <2>3. CASE client[job.from] # "cancelled"
    <3>1. /\ registry' = [registry EXCEPT ![job.topic] = g] /\ held' = [held EXCEPT ![job.from] = g]
          /\ mailbox' = mailbox
      BY <1>16, <2>3 DEF FinishRegister
    <3>2. Upgrades(g)'
      BY <2>1, <3>1
    <3>3. \A h \in Guards : Upgrades(h) => Upgrades(h)'
      <4>1. held[job.from] = None
        BY <1>16, <2>1 DEF FinishRegister, CallInv, Asks
      <4>. QED  BY <2>1, <3>1, <4>1
    <3>. QED  BY <2>1, <3>1, <3>2, <3>3
  <2>. QED  BY <2>2, <2>3
<1>17. CASE RegisterRefused
  <2>1. /\ Running /\ UNCHANGED <<held, dropping, armed>>
        /\ \/ ~Running'
           \/ /\ UNCHANGED <<registry, mailbox>>
              /\ job.kind = "drop" => registry[job.topic] = None
    BY <1>17 DEF RegisterRefused
  <2>. QED
    <3> HIDE DEF Running, OrphansPending
    <3>. QED  BY <2>1, QuietKeepsOrphans
<1>18. CASE Unregister
  <2>1. /\ registry' = [registry EXCEPT ![job.topic] = None]
        /\ job' = job /\ UNCHANGED <<mailbox, dropping, held>> /\ Running
    BY <1>18 DEF Unregister
  <2>2. armed' = [armed EXCEPT ![registry[job.topic]] = FALSE] \/ armed' = armed
    BY <1>18 DEF Unregister
  <2>3. job.topic \in Topics /\ registry[job.topic] \in Guards
    BY <1>18 DEF Unregister, Message, DropMsg, QueryMsg, RegisterMsg
  <2>4. ASSUME NEW t \in Topics, (registry[t] # None /\ ~Upgrades(registry[t]))'
        PROVE  ((registry[t] \in dropping /\ armed[registry[t]]) \/ DropPending(t))'
    <3>1. t # job.topic /\ registry'[t] = registry[t] /\ ~Upgrades(registry[t])
      BY <2>1, <2>3, <2>4
    <3>2. topicOf[registry[t]] = t /\ topicOf[registry[job.topic]] = job.topic
      BY <2>3, <3>1, <2>4
    <3>3. registry[t] # registry[job.topic]
      BY <3>1, <3>2
    <3>4. armed'[registry[t]] = armed[registry[t]]
      BY <2>2, <2>4, <3>1, <3>3
    <3>5. DropPending(t) => DropPending(t)'
      BY <2>1
    <3>6. (registry[t] \in dropping /\ armed[registry[t]]) \/ DropPending(t)
      BY <2>1, <2>4, <3>1
    <3>. QED  BY <2>1, <3>1, <3>4, <3>5, <3>6
  <2>. QED
    <3> HIDE DEF DropPending, Upgrades
    <3>. QED  BY <2>4
<1>19. CASE UnregisterAbsent
  <2>1. /\ Running /\ UNCHANGED <<held, dropping, armed>>
        /\ \/ ~Running'
           \/ /\ UNCHANGED <<registry, mailbox>>
              /\ job.kind = "drop" => registry[job.topic] = None
    BY <1>19 DEF UnregisterAbsent, EndOfUnregister
  <2>. QED
    <3> HIDE DEF Running, OrphansPending
    <3>. QED  BY <2>1, QuietKeepsOrphans
<1>20. CASE FinishUnregister
  <2>1. /\ Running /\ UNCHANGED <<held, dropping, armed>>
        /\ \/ ~Running'
           \/ /\ UNCHANGED <<registry, mailbox>>
              /\ job.kind = "drop" => registry[job.topic] = None
    BY <1>20 DEF FinishUnregister, EndOfUnregister
  <2>. QED
    <3> HIDE DEF Running, OrphansPending
    <3>. QED  BY <2>1, QuietKeepsOrphans
<1>21. CASE RequestStop
  BY <1>21 DEF RequestStop
<1>22. CASE BeginPostStop
  BY <1>22 DEF BeginPostStop
<1>23. ASSUME NEW g \in Guards, PostStopCleanup(g) PROVE OrphansPending'
  BY <1>23 DEF PostStopCleanup, Calls
<1>24. CASE PostStopCleaned
  BY <1>24 DEF PostStopCleaned
<1>25. CASE Stopped
  BY <1>25 DEF Stopped
<1>26. CASE CallAfterEnd \/ UNCHANGED vars
  BY <1>26 DEF CallAfterEnd, vars
<1>. QED
  BY <1>1, <1>2, <1>3, <1>4, <1>5, <1>6, <1>7, <1>8, <1>9, <1>10, <1>11, <1>12, <1>13, <1>14, <1>15, <1>16, <1>17, <1>18, <1>19, <1>20, <1>21, <1>22, <1>23, <1>24, <1>25, <1>26
  DEF Next, Actor, User

(* A publication whose handles are all gone is never forgotten; and every    *)
(* variable of the actor, its handles and its master calls has its type,     *)
(* whatever the callers, the destructors and the master do.                  *)
THEOREM PublisherNoOrphan == Spec => []NoOrphan
<1>1. Init => OrphansPending
  BY DEF Init, OrphansPending
<1>2. Base /\ Base' /\ CallInv /\ OrphansPending /\ [Next]_vars => OrphansPending'
  BY OrphanNext
<1>3. Init => CallInv
  BY DEF Init, CallInv, Asks, NoJob
<1>4. Base /\ Base' /\ CallInv /\ [Next]_vars => CallInv'
  BY CallNext
<1>5. Base /\ OrphansPending => NoOrphan
  BY DEF Base, NoOrphan
<1>. QED  BY <1>1, <1>2, <1>3, <1>4, <1>5, PublisherBase, PTL DEF Spec
=============================================================================
