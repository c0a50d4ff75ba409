--------------------------- MODULE ServiceActor_proofs ---------------------------
(* Theorems about ServiceActor, for every value of its constants.            *)
EXTENDS ServiceActor, TLAPS

(* What the actor is doing agrees with the message it has taken, the master  *)
(* call it awaits and the guard it has made.                                 *)
JobInv ==
    /\ pc \in {"idle", "post_stop", "stopped", "failed"} => job = NoJob
    /\ pc = "handle" => job # NoJob
    /\ pc = "register" => job.kind = "register"
    /\ pc = "unregister" => job.kind = "drop"
    /\ pc \in {"idle", "handle", "stopped", "failed"} => rpc = NoCall
    /\ pc \in {"register", "unregister"} =>
          /\ IsServer(job.key) /\ registry[job.key] = None
          /\ rpc # NoCall /\ rpc.op = pc /\ rpc.service = job.key[2]
    /\ pc = "post_stop" => rpc.op # "register"
    /\ pc # "register" <=> making = None

(* A guard that is referred to has the key it was made for, unless it is     *)
(* gone and only an entry, which it has left dangling, still names it.       *)
GuardInv ==
    /\ \A k \in Keys : registry[k] # None => keyOf[registry[k]] \in {k, None} /\ armed[registry[k]]
    /\ \A d \in draining : keyOf[d[1]] \in {<<"server", d[2]>>, None} /\ armed[d[1]]
    /\ \A g \in dropping : keyOf[g] \in Keys /\ ~Upgrades(g)
    /\ \A c \in Clients : held[c] # None => keyOf[held[c]] \in Keys

(* The guard that a registration has made is nobody else's yet.              *)
MakingInv ==
    making # None =>
        /\ keyOf[making] = job.key /\ armed[making]
        /\ making \notin Registered \cup Drained \cup dropping
        /\ \A c \in Clients : held[c] # making

StopInv ==
    /\ draining # {} => pc = "post_stop"
    /\ pc = "post_stop" => \A s \in Services : registry[<<"server", s>>] = None
    /\ ~Running => \A k \in Keys : registry[k] = None

Base == TypeOK /\ JobInv /\ GuardInv /\ MakingInv /\ StopInv

USE DEF loopVars, guardVars, userVars

(* The keys of the two registries.                                           *)
LEMMA KeyFacts ==
    /\ \A k \in Keys : k[1] \in {"server", "client"} /\ k[2] \in Services /\ k = <<k[1], k[2]>>
    /\ \A s \in Services : <<"server", s>> \in Keys /\ IsServer(<<"server", s>>)
    /\ \A k \in Keys : IsServer(k) => k = <<"server", k[2]>>
    /\ None \notin Keys
BY ServiceAssumption DEF Keys, IsServer

LEMMA AppendMessage ==
  ASSUME NEW q \in Seq(Message), NEW m \in Message
  PROVE  Append(q, m) \in Seq(Message) /\ <<>> \in Seq(Message)
OBVIOUS

LEMMA BaseInit == Init => Base
<1> SUFFICES ASSUME Init PROVE Base
  OBVIOUS
<1> USE ServiceAssumption DEF Init
<1>1. TypeOK
  <2>1. mailbox \in Seq(Message)
    OBVIOUS
  <2>. QED  BY <2>1 DEF TypeOK, NoJob, NoCall
<1>2. JobInv /\ StopInv /\ MakingInv
  BY KeyFacts DEF JobInv, StopInv, MakingInv, NoJob, NoCall, Running
<1>3. GuardInv
  BY DEF GuardInv, Upgrades, Holders
<1>. QED  BY <1>1, <1>2, <1>3 DEF Base

(* Ending a registration with an error, whether the port is open or closed.  *)
LEMMA ErrorKeepsBase ==
  ASSUME Base, pc = "handle", job.from \in Clients, ReplyError,
         UNCHANGED <<draining, stopping, guardVars, dropping, master>>
  PROVE  Base'
<1> USE ServiceAssumption DEF Base
<1>1. making = None /\ draining = {}
  BY DEF JobInv, StopInv
<1>2. CASE Fail
  <2>1. TypeOK'
    BY <1>2 DEF Fail, ReplyError, TypeOK, Released, NoJob, NoCall
  <2>2. JobInv' /\ MakingInv' /\ StopInv'
    BY <1>1, <1>2, KeyFacts DEF Fail, JobInv, MakingInv, StopInv, Running, NoJob, NoCall
  <2>3. GuardInv'
    BY <1>1, <1>2 DEF Fail, ReplyError, GuardInv, TypeOK, Upgrades, Holders
  <2>. QED  BY <2>1, <2>2, <2>3
<1>3. CASE ~Fail
  <2>0. Idle /\ client' = [client EXCEPT ![job.from] = "idle"] /\ UNCHANGED <<registry, mailbox, held>>
    BY <1>3 DEF ReplyError
  <2>1. TypeOK'
    BY <2>0 DEF Idle, TypeOK, NoJob, NoCall
  <2>2. JobInv' /\ MakingInv' /\ StopInv'
    BY <1>1, <2>0 DEF Idle, JobInv, MakingInv, StopInv, Running, NoJob, NoCall
  <2>3. GuardInv'
    BY <1>1, <2>0 DEF Idle, GuardInv, TypeOK, Upgrades, Holders
  <2>. QED  BY <2>1, <2>2, <2>3
<1>. QED  BY <1>2, <1>3

(* Ending a registration by entering guard g and handing out a handle.  It   *)
(* has job's key, by now if it has just been made, and no other entry.       *)
LEMMA HandleKeepsBase ==
  ASSUME Base, pc \in {"handle", "register"}, job.from \in Clients, job.key \in Keys,
         NEW g \in Guards, ReplyHandle(g), UNCHANGED <<draining, stopping, dropping, master>>,
         keyOf' = keyOf \/ keyOf' = [keyOf EXCEPT ![g] = job.key],
         armed' = armed \/ armed' = [armed EXCEPT ![g] = TRUE],
         keyOf'[g] = job.key, armed'[g], g \notin dropping,
         \A k \in Keys : registry[k] = g => k = job.key
  PROVE  Base'
<1> USE ServiceAssumption DEF Base
<1>1. draining = {}
  BY DEF StopInv
<1>2. keyOf' \in [Guards -> Keys \cup {None}] /\ armed' \in [Guards -> BOOLEAN]
  BY DEF TypeOK
<1>3. CASE Fail /\ UNCHANGED held
  <2>1. TypeOK'
    BY <1>2, <1>3 DEF Fail, TypeOK, Released, NoJob, NoCall
  <2>2. JobInv' /\ MakingInv' /\ StopInv'
    BY <1>1, <1>3, KeyFacts DEF Fail, JobInv, MakingInv, StopInv, Running, NoJob, NoCall
  <2>3. GuardInv'
    BY <1>1, <1>3 DEF Fail, GuardInv, TypeOK, Upgrades, Holders
  <2>. QED  BY <2>1, <2>2, <2>3
<1>4. CASE ~(Fail /\ UNCHANGED held)
  <2>0. /\ Idle /\ client' = [client EXCEPT ![job.from] = "idle"] /\ UNCHANGED mailbox
        /\ registry' = [registry EXCEPT ![job.key] = g] /\ held' = [held EXCEPT ![job.from] = g]
    BY <1>4 DEF ReplyHandle
  <2>a. /\ registry' \in [Keys -> Guards \cup {None}]
        /\ held' \in [Clients -> Guards \cup {None}]
    BY <2>0 DEF TypeOK
  <2>1. TypeOK'
    BY <1>2, <2>0, <2>a DEF Idle, TypeOK, NoJob, NoCall
  <2>2. JobInv' /\ MakingInv' /\ StopInv'
    BY <1>1, <2>0 DEF Idle, JobInv, MakingInv, StopInv, Running, NoJob, NoCall
  <2>3. GuardInv'
    <3>1. \A k \in Keys : registry'[k] # None =>
             keyOf'[registry'[k]] \in {k, None} /\ armed'[registry'[k]]
      <4> SUFFICES ASSUME NEW k \in Keys, registry'[k] # None
                   PROVE  keyOf'[registry'[k]] \in {k, None} /\ armed'[registry'[k]]
        OBVIOUS
      <4>1. CASE k = job.key
        BY <2>0, <4>1 DEF TypeOK
      <4>2. CASE k # job.key
        <5>1. registry'[k] = registry[k] /\ registry[k] \in Guards /\ registry[k] # g
          BY <2>0, <4>2 DEF TypeOK
        <5>2. keyOf[registry[k]] \in {k, None} /\ armed[registry[k]]
          BY <5>1 DEF GuardInv
        <5>. QED  BY <5>1, <5>2 DEF TypeOK
      <4>. QED  BY <4>1, <4>2
    <3>2. \A h \in dropping : keyOf'[h] \in Keys /\ ~Upgrades(h)'
      BY <2>0, <2>a DEF GuardInv, TypeOK, Upgrades, Holders, Idle
    <3>3. \A c \in Clients : held'[c] # None => keyOf'[held'[c]] \in Keys
      BY <2>0, <2>a DEF GuardInv, TypeOK
    <3>. QED  BY <1>1, <3>1, <3>2, <3>3 DEF GuardInv
  <2>. QED  BY <2>1, <2>2, <2>3
<1>. QED  BY <1>3, <1>4

LEMMA BaseNext == Base /\ [Next]_vars => Base'
<1> SUFFICES ASSUME Base, [Next]_vars PROVE Base'
  OBVIOUS
<1> USE ServiceAssumption
    DEF Base, TypeOK, JobInv, GuardInv, MakingInv, StopInv, Running, Upgrades, Holders, NoJob, NoCall,
        MasterCall, Idle, Fail, Released, Disarmed, Registered, Drained, Unused
<1>1. ASSUME NEW c \in Clients, NEW k \in Keys, Call(c, k) PROVE Base'
  BY <1>1 DEF Call, Message
<1>2. ASSUME NEW c \in Clients, NEW d \in Clients, CloneHandle(c, d) PROVE Base'
  BY <1>2 DEF CloneHandle
<1>3. ASSUME NEW c \in Clients, DropHandle(c) PROVE Base'
  BY <1>3 DEF DropHandle
<1>4. ASSUME NEW g \in Guards, DropGuard(g) PROVE Base'
  <2>1. mailbox' \in Seq(Message)
    BY <1>4 DEF DropGuard, Message, DropMsg
  <2>. QED  BY <1>4, <2>1 DEF DropGuard, FreeGuard
<1>5. CASE MasterAnswers
  <2>c. rpc \in MasterCall /\ rpc' \in MasterCall /\ rpc'.op = rpc.op /\ rpc'.service = rpc.service
    BY <1>5 DEF MasterAnswers
  <2>1. TypeOK'
    BY <1>5, <2>c, KeyFacts DEF MasterAnswers, MasterEffect
  <2>2. JobInv'
    BY <1>5, <2>c, KeyFacts DEF MasterAnswers, MasterEffect
  <2>3. GuardInv'
    BY <1>5, <2>c, KeyFacts DEF MasterAnswers, MasterEffect
  <2>4. MakingInv'
    BY <1>5, <2>c, KeyFacts DEF MasterAnswers, MasterEffect
  <2>5. StopInv'
    BY <1>5, <2>c, KeyFacts DEF MasterAnswers, MasterEffect
  <2>. QED  BY <2>1, <2>2, <2>3, <2>4, <2>5
<1>6. CASE Receive
  <2>1. TypeOK'
    BY <1>6, KeyFacts DEF Receive, Message
  <2>2. JobInv'
    BY <1>6, KeyFacts DEF Receive, Message
  <2>3. GuardInv'
    BY <1>6, KeyFacts DEF Receive, Message
  <2>4. MakingInv'
    BY <1>6, KeyFacts DEF Receive, Message
  <2>5. StopInv'
    BY <1>6, KeyFacts DEF Receive, Message
  <2>. QED  BY <2>1, <2>2, <2>3, <2>4, <2>5
<1>7. CASE RegisterExisting
  <2>1. /\ job.from \in Clients /\ job.key \in Keys /\ pc = "handle"
        /\ registry[job.key] \in Guards /\ UNCHANGED <<draining, stopping, guardVars, dropping, master>>
        /\ Upgrades(registry[job.key])
    BY <1>7 DEF RegisterExisting, Registers, Existing, Message
  <2>2. keyOf[registry[job.key]] = job.key /\ registry[job.key] \notin dropping
    <3>1. keyOf[registry[job.key]] \in Keys
      BY <2>1
    <3>. QED  BY <2>1, <3>1, KeyFacts
  <2>3. /\ armed[registry[job.key]]
        /\ \A k \in Keys : registry[k] = registry[job.key] => k = job.key
    BY <2>1, <2>2, KeyFacts
  <2>4. ReplyHandle(registry[job.key]) \/ ReplyError
    BY <1>7 DEF RegisterExisting, Existing
  <2>. QED
    <3> HIDE DEF Base, TypeOK, JobInv, GuardInv, MakingInv, StopInv, ReplyError, ReplyHandle
    <3>. QED  BY <2>1, <2>2, <2>3, <2>4, ErrorKeepsBase, HandleKeepsBase
<1>8. CASE RegisterStale
  <2>j. job.key \in Keys /\ job.kind = "register" /\ job.from \in Clients
    BY <1>8 DEF RegisterStale, Registers, Existing, Message
  <2>1. TypeOK'
    BY <1>8, <2>j, KeyFacts DEF RegisterStale, Registers, Existing
  <2>2. JobInv'
    BY <1>8, <2>j, KeyFacts DEF RegisterStale, Registers, Existing
  <2>3. GuardInv'
    BY <1>8, <2>j, KeyFacts DEF RegisterStale, Registers, Existing
  <2>4. MakingInv'
    BY <1>8, <2>j, KeyFacts DEF RegisterStale, Registers, Existing
  <2>5. StopInv'
    BY <1>8, <2>j, KeyFacts DEF RegisterStale, Registers, Existing
  <2>. QED  BY <2>1, <2>2, <2>3, <2>4, <2>5
<1>9. ASSUME NEW g \in Guards, FinishClient(g) PROVE Base'
  <2>1. job.from \in Clients /\ job.key \in Keys /\ pc = "handle" /\ g \in Unused
    BY <1>9 DEF FinishClient, Registers, MakeGuard, Message
  <2>2. g \notin dropping /\ \A k \in Keys : registry[k] = g => k = job.key
    BY <2>1
  <2>3. /\ keyOf' = [keyOf EXCEPT ![g] = job.key] /\ armed' = [armed EXCEPT ![g] = TRUE]
        /\ keyOf'[g] = job.key /\ armed'[g]
    BY <1>9 DEF FinishClient, MakeGuard
  <2>4. ReplyHandle(g) /\ UNCHANGED <<draining, stopping, dropping, master>>
    BY <1>9 DEF FinishClient
  <2>. QED
    <3> HIDE DEF Base, TypeOK, JobInv, GuardInv, MakingInv, StopInv, ReplyError, ReplyHandle
    <3>. QED  BY <2>1, <2>2, <2>3, <2>4, HandleKeepsBase
<1>10. ASSUME NEW g \in Guards, CreateServer(g) PROVE Base'
  <2>j. /\ job.key \in Keys /\ job.kind = "register" /\ pc = "handle" /\ pc' = "register"
        /\ IsServer(job.key) /\ registry[job.key] = None /\ rpc' = Calls("register", job.key) /\ making' = g
        /\ UNCHANGED <<job, draining, registry, stopping, mailbox, dropping, userVars, master>>
    BY <1>10 DEF CreateServer, Registers, Existing, Message
  <2>k. /\ keyOf' = [keyOf EXCEPT ![g] = job.key] /\ armed' = [armed EXCEPT ![g] = TRUE] /\ g \in Unused
    BY <1>10 DEF CreateServer, MakeGuard
  <2>l. g \notin Registered \cup Drained \cup dropping /\ \A c \in Clients : held[c] # g
    BY <2>k
  <2>m. draining = {}
    BY <2>j
  <2>1. TypeOK'
    BY <2>j, <2>k, <2>l, <2>m, KeyFacts DEF Calls
  <2>2. JobInv'
    BY <2>j, <2>k, <2>l, <2>m, KeyFacts DEF Calls
  <2>3. GuardInv'
    BY <2>j, <2>k, <2>l, <2>m, KeyFacts DEF Calls
  <2>4. MakingInv'
    BY <2>j, <2>k, <2>l, <2>m, KeyFacts DEF Calls
  <2>5. StopInv'
    BY <2>j, <2>k, <2>l, <2>m, KeyFacts DEF Calls
  <2>. QED  BY <2>1, <2>2, <2>3, <2>4, <2>5
<1>11. CASE CreateFails
  <2>1. job.from \in Clients /\ pc = "handle" /\ ReplyError
        /\ UNCHANGED <<draining, stopping, guardVars, dropping, master>>
    BY <1>11 DEF CreateFails, Registers, Message
  <2>. QED
    <3> HIDE DEF Base, TypeOK, JobInv, GuardInv, MakingInv, StopInv, ReplyError, ReplyHandle
    <3>. QED  BY <2>1, ErrorKeepsBase
<1>12. CASE FinishServer
  <2>1. job.from \in Clients /\ job.key \in Keys /\ pc = "register" /\ making \in Guards
    BY <1>12 DEF FinishServer, Message
  <2>2. /\ making \notin dropping /\ \A k \in Keys : registry[k] = making => k = job.key
        /\ keyOf[making] = job.key /\ armed[making]
    BY <2>1
  <2>4. ReplyHandle(making) /\ UNCHANGED <<guardVars, draining, stopping, dropping, master>>
    BY <1>12 DEF FinishServer
  <2>. QED
    <3> HIDE DEF Base, TypeOK, JobInv, GuardInv, MakingInv, StopInv, ReplyError, ReplyHandle
    <3>. QED  BY <2>1, <2>2, <2>4, HandleKeepsBase
<1>13. CASE RegisterRefused
  <2>j. /\ job.key \in Keys /\ job.from \in Clients /\ draining = {} /\ making \in Guards
        /\ keyOf[making] = job.key
    BY <1>13 DEF RegisterRefused, Message
  <2>k. DropMsg(making) \in Message
    BY <2>j DEF DropMsg, Message
  <2>l. keyOf' = [keyOf EXCEPT ![making] = None] /\ armed' = [armed EXCEPT ![making] = TRUE]
    BY <1>13 DEF RegisterRefused, FreeGuard
  <2>m. \/ Fail
        \/ /\ Idle /\ client' = [client EXCEPT ![job.from] = "idle"] /\ UNCHANGED registry
           /\ mailbox' = mailbox \/ mailbox' = Append(mailbox, DropMsg(making))
    BY <1>13 DEF RegisterRefused
  <2>n. UNCHANGED <<draining, stopping, dropping, held, master>>
    BY <1>13 DEF RegisterRefused
  <2>1. TypeOK'
    <3>0. keyOf \in [Guards -> Keys \cup {None}] /\ armed \in [Guards -> BOOLEAN]
      OBVIOUS
    <3>1. keyOf' \in [Guards -> Keys \cup {None}] /\ armed' \in [Guards -> BOOLEAN]
      <4> HIDE DEF Base, TypeOK, JobInv, GuardInv, MakingInv, StopInv
      <4>1. keyOf' \in [Guards -> Keys \cup {None}]
        BY <3>0, <2>l
      <4>2. armed' \in [Guards -> BOOLEAN]
        BY <3>0, <2>l
      <4>. QED  BY <4>1, <4>2
    <3>2. mailbox' \in Seq(Message)
      <4>1. mailbox \in Seq(Message)
        OBVIOUS
      <4>2. mailbox' \in {<<>>, mailbox, Append(mailbox, DropMsg(making))}
        BY <2>m
      <4>3. Append(mailbox, DropMsg(making)) \in Seq(Message) /\ <<>> \in Seq(Message)
        BY <2>k, <4>1, AppendMessage
      <4>. QED  BY ZenonT(60), <4>1, <4>2, <4>3
    <3>3. client' \in [Clients -> {"idle", "waiting"}] /\ registry' \in [Keys -> Guards \cup {None}]
      BY <2>m
    <3>. QED  BY <2>m, <2>n, <3>1, <3>2, <3>3
  <2>2. JobInv'
    BY <1>13, <2>j, <2>k, <2>l, <2>m, <2>n, KeyFacts DEF Base
  <2>3. GuardInv'
    BY <1>13, <2>j, <2>k, <2>l, <2>m, <2>n, KeyFacts DEF Base
  <2>4. MakingInv'
    BY <1>13, <2>j, <2>k, <2>l, <2>m, <2>n, KeyFacts DEF Base
  <2>5. StopInv'
    BY <1>13, <2>j, <2>k, <2>l, <2>m, <2>n, KeyFacts DEF Base
  <2>. QED  BY <2>1, <2>2, <2>3, <2>4, <2>5
<1>14. CASE UnregisterClient
  <2>j. job.key \in Keys /\ ~IsServer(job.key)
    BY <1>14 DEF UnregisterClient, Message
  <2>1. TypeOK'
    BY <1>14, <2>j, KeyFacts DEF UnregisterClient
  <2>2. JobInv'
    BY <1>14, <2>j, KeyFacts DEF UnregisterClient
  <2>3. GuardInv'
    BY <1>14, <2>j, KeyFacts DEF UnregisterClient
  <2>4. MakingInv'
    BY <1>14, <2>j, KeyFacts DEF UnregisterClient
  <2>5. StopInv'
    BY <1>14, <2>j, KeyFacts DEF UnregisterClient
  <2>. QED  BY <2>1, <2>2, <2>3, <2>4, <2>5
<1>15. CASE UnregisterService
  <2>j. job.key \in Keys /\ IsServer(job.key)
    BY <1>15 DEF UnregisterService, Existing, Calls, Message
  <2>1. TypeOK'
    BY <1>15, <2>j, KeyFacts DEF UnregisterService, Existing, Calls
  <2>2. JobInv'
    BY <1>15, <2>j, KeyFacts DEF UnregisterService, Existing, Calls
  <2>3. GuardInv'
    BY <1>15, <2>j, KeyFacts DEF UnregisterService, Existing, Calls
  <2>4. MakingInv'
    BY <1>15, <2>j, KeyFacts DEF UnregisterService, Existing, Calls
  <2>5. StopInv'
    BY <1>15, <2>j, KeyFacts DEF UnregisterService, Existing, Calls
  <2>. QED  BY <2>1, <2>2, <2>3, <2>4, <2>5
<1>16. CASE FinishUnregister
  <2>1. TypeOK'
    BY <1>16, KeyFacts DEF FinishUnregister, Returned, Existing
  <2>2. JobInv'
    BY <1>16, KeyFacts DEF FinishUnregister, Returned, Existing
  <2>3. GuardInv'
    BY <1>16, KeyFacts DEF FinishUnregister, Returned, Existing
  <2>4. MakingInv'
    BY <1>16, KeyFacts DEF FinishUnregister, Returned, Existing
  <2>5. StopInv'
    BY <1>16, KeyFacts DEF FinishUnregister, Returned, Existing
  <2>. QED  BY <2>1, <2>2, <2>3, <2>4, <2>5
<1>17. CASE RequestStop
  BY <1>17 DEF RequestStop
<1>18. CASE BeginPostStop
  <2>c. /\ making = None /\ making' = None /\ draining = {} /\ job = NoJob /\ pc' = "post_stop"
        /\ \A k \in Keys : registry'[k] = IF IsServer(k) THEN None ELSE registry[k]
        /\ UNCHANGED <<job, rpc, stopping, mailbox, guardVars, dropping, userVars, master>> /\ rpc = NoCall
    BY <1>18 DEF BeginPostStop
  <2>d. registry' \in [Keys -> Guards \cup {None}]
    <3>1. registry' = [k \in Keys |-> IF IsServer(k) THEN None ELSE registry[k]]
      BY <1>18 DEF BeginPostStop
    <3>. QED  BY <3>1
  <2>e. ASSUME NEW d \in draining'
        PROVE  d[2] \in Services /\ d[1] = registry[<<"server", d[2]>>] /\ d[1] \in Guards
               /\ d \in Guards \X Services
    <3>1. PICK s \in Services : registry[<<"server", s>>] # None /\ d = <<registry[<<"server", s>>], s>>
      BY <1>18 DEF BeginPostStop, Taken
    <3>. QED  BY <3>1, KeyFacts
  <2>f. draining' \in SUBSET (Guards \X Services)
    BY <2>e
  <2>1. TypeOK'
    BY <2>c, <2>d, <2>e, <2>f, KeyFacts DEF Base
  <2>2. JobInv'
    BY <2>c, <2>d, <2>e, <2>f, KeyFacts DEF Base
  <2>3. GuardInv'
    <3>1. \A d \in draining' : keyOf[d[1]] \in {<<"server", d[2]>>, None} /\ armed[d[1]]
      <4> SUFFICES ASSUME NEW d \in draining' PROVE keyOf[d[1]] \in {<<"server", d[2]>>, None} /\ armed[d[1]]
        OBVIOUS
      <4>1. <<"server", d[2]>> \in Keys /\ registry[<<"server", d[2]>>] = d[1] /\ d[1] # None
        BY <2>e, KeyFacts
      <4>. QED  BY <4>1
    <3>2. \A k \in Keys : registry'[k] # None => keyOf[registry'[k]] \in {k, None} /\ armed[registry'[k]]
      BY <2>c
    <3>3. \A h \in dropping : keyOf[h] \in Keys /\ ~Upgrades(h)'
      BY <2>c
    <3>. QED  BY <2>c, <3>1, <3>2, <3>3
  <2>4. MakingInv'
    BY <2>c, <2>d, <2>e, <2>f, KeyFacts DEF Base
  <2>5. StopInv'
    BY <2>c, <2>d, <2>e, <2>f, KeyFacts DEF Base
  <2>. QED  BY <2>1, <2>2, <2>3, <2>4, <2>5
<1>19. ASSUME NEW d \in draining, PostStopCleanup(d) PROVE Base'
  <2>c. pc = "post_stop" /\ pc' = "post_stop" /\ d[2] \in Services /\ d[1] \in Guards /\ making = None /\ making' = None
    BY <1>19 DEF PostStopCleanup
  <2>1. TypeOK'
    BY <1>19, <2>c, KeyFacts DEF PostStopCleanup, Calls
  <2>2. JobInv'
    BY <1>19, <2>c, KeyFacts DEF PostStopCleanup, Calls
  <2>3. GuardInv'
    BY SMTT(30), <1>19, <2>c, KeyFacts DEF PostStopCleanup, Calls
  <2>4. MakingInv'
    BY <1>19, <2>c, KeyFacts DEF PostStopCleanup, Calls
  <2>5. StopInv'
    BY <1>19, <2>c, KeyFacts DEF PostStopCleanup, Calls
  <2>. QED  BY <2>1, <2>2, <2>3, <2>4, <2>5
<1>20. CASE PostStopCleaned
  BY <1>20 DEF PostStopCleaned, Returned
<1>21. CASE Stopped
  BY <1>21 DEF Stopped
<1>22. CASE CallAfterEnd \/ UNCHANGED vars
  BY <1>22 DEF CallAfterEnd, vars
<1>. QED
  BY <1>1, <1>2, <1>3, <1>4, <1>5, <1>6, <1>7, <1>8, <1>9, <1>10, <1>11, <1>12, <1>13, <1>14,
     <1>15, <1>16, <1>17, <1>18, <1>19, <1>20, <1>21, <1>22
  DEF Next, Actor, User

LEMMA ServiceBase == Spec => []Base
<1>1. Base /\ [Next]_vars => Base'
  BY BaseNext
<1>. QED  BY BaseInit, <1>1, PTL DEF Spec

-----------------------------------------------------------------------------
(* A server is entered for a service that the master lists the node for, and *)
(* the master is asked to forget a service that has none; once it has        *)
(* answered that, it has.                                                    *)
ListedInv ==
    /\ \A s \in Services : registry[<<"server", s>>] # None => s \in master
    /\ pc = "register" /\ rpc.status = "ok" => rpc.service \in master
    /\ rpc.op = "unregister" => registry[<<"server", rpc.service>>] = None
    /\ rpc.op = "unregister" /\ rpc.status = "ok" => rpc.service \notin master
    /\ rpc.op = "register" => pc = "register"

LEMMA ListedNext == Base /\ Base' /\ ListedInv /\ [Next]_vars => ListedInv'
<1> SUFFICES ASSUME Base, Base', ListedInv, [Next]_vars PROVE ListedInv'
  OBVIOUS
<1> USE ServiceAssumption
    DEF ListedInv, Base, TypeOK, JobInv, StopInv, Running, NoJob, NoCall, MasterCall, Idle, Fail
<1>1. ASSUME NEW c \in Clients, NEW k \in Keys, Call(c, k) PROVE ListedInv'
  BY <1>1 DEF Call
<1>2. ASSUME NEW c \in Clients, NEW d \in Clients, CloneHandle(c, d) PROVE ListedInv'
  BY <1>2 DEF CloneHandle
<1>3. ASSUME NEW c \in Clients, DropHandle(c) PROVE ListedInv'
  BY <1>3 DEF DropHandle
<1>4. ASSUME NEW g \in Guards, DropGuard(g) PROVE ListedInv'
  BY <1>4 DEF DropGuard, FreeGuard
<1>5. CASE MasterAnswers
  <2>1. rpc \in MasterCall /\ rpc'.op = rpc.op /\ rpc'.service = rpc.service
    BY <1>5 DEF MasterAnswers
  <2>2. \/ rpc'.status = "ok" /\ master' = MasterEffect
        \/ rpc'.status = "err" /\ master' \in {master, MasterEffect}
    BY <1>5, <2>1 DEF MasterAnswers
  <2>3. UNCHANGED <<pc, registry>>
    BY <1>5 DEF MasterAnswers
  <2>. QED  BY <2>1, <2>2, <2>3 DEF MasterEffect
<1>6. CASE Receive
  BY <1>6 DEF Receive
<1>7. CASE RegisterExisting
  <2>j. job.key \in Keys /\ job.kind = "register" /\ job.from \in Clients
    BY <1>7 DEF RegisterExisting, Registers, Existing, ReplyHandle, ReplyError, Message
  <2>. QED  BY <1>7, <2>j, KeyFacts DEF RegisterExisting, Registers, Existing, ReplyHandle, ReplyError
<1>8. CASE RegisterStale
  <2>j. job.key \in Keys /\ job.kind = "register" /\ job.from \in Clients
    BY <1>8 DEF RegisterStale, Registers, Existing, Message
  <2>. QED  BY <1>8, <2>j, KeyFacts DEF RegisterStale, Registers, Existing
<1>9. ASSUME NEW g \in Guards, FinishClient(g) PROVE ListedInv'
  <2>j. job.key \in Keys /\ job.kind = "register" /\ job.from \in Clients
    BY <1>9 DEF FinishClient, Registers, Existing, ReplyHandle, MakeGuard, Message
  <2>. QED  BY <1>9, <2>j, KeyFacts DEF FinishClient, Registers, Existing, ReplyHandle, MakeGuard
<1>10. ASSUME NEW g \in Guards, CreateServer(g) PROVE ListedInv'
  <2>j. job.key \in Keys /\ job.kind = "register" /\ job.from \in Clients
    BY <1>10 DEF CreateServer, Registers, Existing, MakeGuard, Calls, Message
  <2>. QED  BY <1>10, <2>j, KeyFacts DEF CreateServer, Registers, Existing, MakeGuard, Calls
<1>11. CASE CreateFails
  <2>j. job.key \in Keys /\ job.kind = "register" /\ job.from \in Clients
    BY <1>11 DEF CreateFails, Registers, Existing, ReplyError, Message
  <2>. QED  BY <1>11, <2>j, KeyFacts DEF CreateFails, Registers, Existing, ReplyError
<1>12. CASE FinishServer
  <2>j. job.key \in Keys /\ job.kind = "register" /\ job.from \in Clients
    BY <1>12 DEF FinishServer, Accepted, ReplyHandle, Message
  <2>. QED  BY <1>12, <2>j, KeyFacts DEF FinishServer, Accepted, ReplyHandle
<1>13. CASE RegisterRefused
  <2>j. job.key \in Keys /\ job.kind = "register" /\ job.from \in Clients
    BY <1>13 DEF RegisterRefused, FreeGuard, Message
  <2>. QED  BY <1>13, <2>j, KeyFacts DEF RegisterRefused, FreeGuard
<1>14. CASE UnregisterClient
  BY <1>14, KeyFacts DEF UnregisterClient
<1>15. CASE UnregisterService
  BY <1>15, KeyFacts DEF UnregisterService, Existing, Calls
<1>16. CASE FinishUnregister
  BY <1>16 DEF FinishUnregister, Returned, Existing
<1>17. CASE RequestStop
  BY <1>17 DEF RequestStop
<1>18. CASE BeginPostStop
  BY <1>18, KeyFacts DEF BeginPostStop, Taken
<1>19. ASSUME NEW d \in draining, PostStopCleanup(d) PROVE ListedInv'
  BY <1>19, KeyFacts DEF PostStopCleanup, Calls
<1>20. CASE PostStopCleaned
  BY <1>20 DEF PostStopCleaned, Returned
<1>21. CASE Stopped
  BY <1>21, KeyFacts DEF Stopped
<1>22. CASE CallAfterEnd \/ UNCHANGED vars
  BY <1>22 DEF CallAfterEnd, vars
<1>. QED
  BY <1>1, <1>2, <1>3, <1>4, <1>5, <1>6, <1>7, <1>8, <1>9, <1>10, <1>11, <1>12, <1>13, <1>14,
     <1>15, <1>16, <1>17, <1>18, <1>19, <1>20, <1>21, <1>22
  DEF Next, Actor, User

-----------------------------------------------------------------------------
(* The entries that Registrar speaks of.                                     *)
Servers == [s \in Services |-> registry[<<"server", s>>]]

(* What a step does to the registry, seen by Registrar.                      *)
LEMMA ServersSame ==
  ASSUME \A s \in Services : registry'[<<"server", s>>] = registry[<<"server", s>>]
  PROVE  Servers' = Servers
BY DEF Servers

LEMMA ServerSet ==
  ASSUME Base, NEW s \in Services, NEW e, registry' = [registry EXCEPT ![<<"server", s>>] = e]
  PROVE  Servers' = [Servers EXCEPT ![s] = e]
<1>1. \A r \in Services : registry'[<<"server", r>>] = IF r = s THEN e ELSE registry[<<"server", r>>]
  BY KeyFacts DEF Base, TypeOK
<1>. QED  BY <1>1 DEF Servers

LEMMA ServersGone ==
  ASSUME \A s \in Services : registry'[<<"server", s>>] = None
  PROVE  Servers' = [s \in Services |-> None]
BY DEF Servers

LEMMA RegistrarStep ==
  ASSUME \/ /\ Servers' = Servers
            /\ \/ master' = master
               \/ \E s \in Services : master' = master \cup {s}
               \/ \E s \in Services : Servers[s] = None /\ master' = master \ {s}
         \/ /\ master' = master
            /\ \/ Servers' = [s \in Services |-> None]
               \/ \E s \in Services : Servers' = [Servers EXCEPT ![s] = None]
               \/ \E s \in Services, g \in Guards :
                     s \in master /\ Servers[s] = None /\ Servers' = [Servers EXCEPT ![s] = g]
  PROVE  [Reg!Next]_<<Servers, master>>
BY DEF Servers, Reg!Next, Reg!Enlist, Reg!Delist, Reg!Enter, Reg!Leave, Reg!LeaveAll

LEMMA RegistrarNext == Base /\ ListedInv /\ [Next]_vars => [Reg!Next]_<<Servers, master>>
<1> SUFFICES ASSUME Base, ListedInv, [Next]_vars PROVE [Reg!Next]_<<Servers, master>>
  OBVIOUS
<1> USE ServiceAssumption
<1>s. UNCHANGED <<registry, master>> => [Reg!Next]_<<Servers, master>>
  BY ServersSame, RegistrarStep
<1>f. Fail /\ UNCHANGED master => [Reg!Next]_<<Servers, master>>
  <2> SUFFICES ASSUME Fail, UNCHANGED master PROVE [Reg!Next]_<<Servers, master>>
    OBVIOUS
  <2>1. \A s \in Services : registry'[<<"server", s>>] = None
    BY KeyFacts DEF Fail
  <2>. QED  BY <2>1, ServersGone, RegistrarStep
<1>1. ASSUME NEW c \in Clients, NEW k \in Keys, Call(c, k) PROVE [Reg!Next]_<<Servers, master>>
  BY <1>1, <1>s DEF Call
<1>2. ASSUME NEW c \in Clients, NEW d \in Clients, CloneHandle(c, d) PROVE [Reg!Next]_<<Servers, master>>
  BY <1>2, <1>s DEF CloneHandle
<1>3. ASSUME NEW c \in Clients, DropHandle(c) PROVE [Reg!Next]_<<Servers, master>>
  BY <1>3, <1>s DEF DropHandle
<1>4. ASSUME NEW g \in Guards, DropGuard(g) PROVE [Reg!Next]_<<Servers, master>>
  BY <1>4, <1>s DEF DropGuard, FreeGuard
<1>5. CASE MasterAnswers
  <2>1. rpc.service \in Services /\ rpc.op \in {"register", "unregister"}
    BY <1>5 DEF MasterAnswers, Base, TypeOK, MasterCall, NoCall
  <2>2. Servers' = Servers /\ master' \in {master, MasterEffect}
    BY <1>5, ServersSame DEF MasterAnswers
  <2>3. rpc.op = "unregister" => Servers[rpc.service] = None
    BY <2>1 DEF ListedInv, Servers
  <2>. QED  BY <2>1, <2>2, <2>3, RegistrarStep DEF MasterEffect
<1>6. CASE Receive
  BY <1>6, <1>s DEF Receive
<1>7. CASE RegisterExisting
  <2>j. job.key \in Keys /\ UNCHANGED master
    BY <1>7 DEF RegisterExisting, Registers, Base, TypeOK, Message, NoJob
  <2>1. CASE Fail
    BY <1>f, <2>1, <2>j
  <2>2. CASE ~Fail
    <3>1. registry' = registry \/ registry' = [registry EXCEPT ![job.key] = registry[job.key]]
      BY <1>7, <2>2 DEF RegisterExisting, Existing, ReplyHandle, ReplyError
    <3>2. registry' = registry
      BY <3>1, <2>j DEF Base, TypeOK
    <3>. QED  BY <3>2, <2>j, <1>s
  <2>. QED  BY <2>1, <2>2
<1>8. CASE RegisterStale
  <2>1. job.key \in Keys /\ UNCHANGED master /\ registry' = [registry EXCEPT ![job.key] = None]
    BY <1>8 DEF RegisterStale, Registers, Base, TypeOK, JobInv, Message, NoJob
  <2>2. CASE IsServer(job.key)
    <3>1. Servers' = [Servers EXCEPT ![job.key[2]] = None]
      BY <2>1, <2>2, KeyFacts, ServerSet
    <3>. QED  BY <2>1, <3>1, KeyFacts, RegistrarStep
  <2>3. CASE ~IsServer(job.key)
    <3>1. \A s \in Services : registry'[<<"server", s>>] = registry[<<"server", s>>]
      BY ZenonT(60), <2>1, <2>3, KeyFacts DEF Base, TypeOK
    <3>. QED  BY <2>1, <3>1, ServersSame, RegistrarStep
  <2>. QED  BY <2>2, <2>3
<1>9. ASSUME NEW g \in Guards, FinishClient(g) PROVE [Reg!Next]_<<Servers, master>>
  <2>j. job.key \in Keys /\ ~IsServer(job.key) /\ UNCHANGED master
    BY <1>9 DEF FinishClient, Registers, Base, TypeOK, Message, NoJob
  <2>1. CASE Fail
    BY <1>f, <2>1, <2>j
  <2>2. CASE ~Fail
    <3>1. registry' = [registry EXCEPT ![job.key] = g]
      BY <1>9, <2>2 DEF FinishClient, ReplyHandle
    <3>2. \A s \in Services : registry'[<<"server", s>>] = registry[<<"server", s>>]
      BY ZenonT(60), <3>1, <2>j, KeyFacts DEF Base, TypeOK
    <3>. QED  BY <2>j, <3>2, ServersSame, RegistrarStep
  <2>. QED  BY <2>1, <2>2
<1>10. ASSUME NEW g \in Guards, CreateServer(g) PROVE [Reg!Next]_<<Servers, master>>
  BY <1>10, <1>s DEF CreateServer, Registers, Existing, MakeGuard, Calls
<1>11. CASE CreateFails
  <2>1. UNCHANGED master /\ (Fail \/ UNCHANGED registry)
    BY <1>11 DEF CreateFails, ReplyError
  <2>. QED  BY <1>s, <1>f, <2>1
<1>12. CASE FinishServer
  <2>j. /\ job.key[2] \in Services /\ job.key = <<"server", job.key[2]>> /\ job.key \in Keys
        /\ registry[job.key] = None /\ making \in Guards /\ UNCHANGED master
    BY <1>12, KeyFacts DEF FinishServer, Base, TypeOK, JobInv, Message, NoJob
  <2>k. job.key[2] \in master
    BY <1>12 DEF FinishServer, Accepted, ListedInv, Base, JobInv
  <2>1. CASE Fail
    BY <1>f, <2>1, <2>j
  <2>2. CASE ~Fail
    <3>1. registry' = [registry EXCEPT ![job.key] = making]
      BY <1>12, <2>2 DEF FinishServer, ReplyHandle
    <3>2. Servers' = [Servers EXCEPT ![job.key[2]] = making] /\ Servers[job.key[2]] = None
      BY <2>j, <3>1, ServerSet DEF Servers
    <3>. QED  BY <2>j, <2>k, <3>2, RegistrarStep
  <2>. QED  BY <2>1, <2>2
<1>13. CASE RegisterRefused
  <2>1. UNCHANGED master /\ (Fail \/ UNCHANGED registry)
    BY <1>13 DEF RegisterRefused
  <2>. QED  BY <1>s, <1>f, <2>1
<1>14. CASE UnregisterClient
  <2>1. job.key \in Keys /\ UNCHANGED master /\ registry' = [registry EXCEPT ![job.key] = None]
    BY <1>14 DEF UnregisterClient, Base, TypeOK, JobInv, Message, NoJob
  <2>2. CASE IsServer(job.key)
    <3>1. Servers' = [Servers EXCEPT ![job.key[2]] = None]
      BY <2>1, <2>2, KeyFacts, ServerSet
    <3>. QED  BY <2>1, <3>1, KeyFacts, RegistrarStep
  <2>3. CASE ~IsServer(job.key)
    <3>1. \A s \in Services : registry'[<<"server", s>>] = registry[<<"server", s>>]
      BY ZenonT(60), <2>1, <2>3, KeyFacts DEF Base, TypeOK
    <3>. QED  BY <2>1, <3>1, ServersSame, RegistrarStep
  <2>. QED  BY <2>2, <2>3
<1>15. CASE UnregisterService
  <2>1. job.key \in Keys /\ UNCHANGED master /\ registry' = [registry EXCEPT ![job.key] = None]
    BY <1>15 DEF UnregisterService, Base, TypeOK, JobInv, Message, NoJob
  <2>2. CASE IsServer(job.key)
    <3>1. Servers' = [Servers EXCEPT ![job.key[2]] = None]
      BY <2>1, <2>2, KeyFacts, ServerSet
    <3>. QED  BY <2>1, <3>1, KeyFacts, RegistrarStep
  <2>3. CASE ~IsServer(job.key)
    <3>1. \A s \in Services : registry'[<<"server", s>>] = registry[<<"server", s>>]
      BY ZenonT(60), <2>1, <2>3, KeyFacts DEF Base, TypeOK
    <3>. QED  BY <2>1, <3>1, ServersSame, RegistrarStep
  <2>. QED  BY <2>2, <2>3
<1>16. CASE FinishUnregister
  BY <1>16, <1>s DEF FinishUnregister, Returned, Existing
<1>17. CASE RequestStop
  BY <1>17, <1>s DEF RequestStop
<1>18. CASE BeginPostStop
  <2>1. UNCHANGED master /\ \A s \in Services : registry'[<<"server", s>>] = None
    BY <1>18, KeyFacts DEF BeginPostStop
  <2>. QED  BY <2>1, ServersGone, RegistrarStep
<1>19. ASSUME NEW d \in draining, PostStopCleanup(d) PROVE [Reg!Next]_<<Servers, master>>
  BY <1>19, <1>s DEF PostStopCleanup, Calls
<1>20. CASE PostStopCleaned
  BY <1>20, <1>s DEF PostStopCleaned, Returned
<1>21. CASE Stopped
  <2>1. UNCHANGED master /\ \A s \in Services : registry'[<<"server", s>>] = None
    BY <1>21, KeyFacts DEF Stopped
  <2>. QED  BY <2>1, ServersGone, RegistrarStep
<1>22. CASE CallAfterEnd \/ UNCHANGED vars
  BY <1>22, <1>s DEF CallAfterEnd, vars
<1>. QED
  BY <1>1, <1>2, <1>3, <1>4, <1>5, <1>6, <1>7, <1>8, <1>9, <1>10, <1>11, <1>12, <1>13, <1>14,
     <1>15, <1>16, <1>17, <1>18, <1>19, <1>20, <1>21, <1>22
  DEF Next, Actor, User

(* The service actor implements Registrar for its servers: one is entered    *)
(* only once the master has accepted it, its entry goes before the master is *)
(* asked to forget it, and none takes another's place.                       *)
THEOREM ServiceImplementsRegistrar == Spec => RegistrarSpec
<1>1. Init => Reg!Init /\ ListedInv
  BY KeyFacts DEF Init, Reg!Init, ListedInv, NoCall
<1>2. Base /\ ListedInv /\ [Next]_vars => [Reg!Next]_<<Servers, master>>
  BY RegistrarNext
<1>3. Base /\ Base' /\ ListedInv /\ [Next]_vars => ListedInv'
  BY ListedNext
<1>. QED  BY <1>1, <1>2, <1>3, ServiceBase, PTL DEF Spec, RegistrarSpec, Reg!Spec, Servers

(* A service has a server's entry only while the master lists the node for   *)
(* it, whatever calls fail and whenever the node stops.                      *)
RegistryBacked == \A s \in Services : registry[<<"server", s>>] # None => s \in master

(* The entry is made after register_service has succeeded (281-288) and goes *)
(* before the master is asked to forget the service (108-111, 300-309).      *)
THEOREM ServiceRegistryBacked == Spec => []RegistryBacked
<1>1. Init => ListedInv
  BY KeyFacts DEF Init, ListedInv, NoCall
<1>2. Base /\ Base' /\ ListedInv /\ [Next]_vars => ListedInv'
  BY ListedNext
<1>3. ListedInv => RegistryBacked
  BY DEF ListedInv, RegistryBacked
<1>. QED  BY <1>1, <1>2, <1>3, ServiceBase, PTL DEF Spec

-----------------------------------------------------------------------------
(* A step after which the master's listing of s is not accounted for, while  *)
(* before it was, follows a failed call, fails the actor, or gives up on the *)
(* server that was to take a stale one's place.                              *)
Strands(s) ==
    (s \in master => Accounted(s)) /\ ~(s \in master => Accounted(s))'
        => rpc.status = "err" \/ pc' = "failed" \/ Registers

LEMMA StrandsNext == Base /\ Base' /\ ListedInv /\ [Next]_vars => \A s \in Services : Strands(s)
<1> SUFFICES ASSUME Base, Base', ListedInv, [Next]_vars, NEW s \in Services PROVE Strands(s)
  OBVIOUS
<1> USE ServiceAssumption
    DEF ListedInv, Strands, Accounted, Registers, Base, TypeOK, JobInv, StopInv, Running, NoJob, NoCall,
        MasterCall, Idle, Fail
<1>1. ASSUME NEW c \in Clients, NEW k \in Keys, Call(c, k) PROVE Strands(s)
  BY <1>1 DEF Call
<1>2. ASSUME NEW c \in Clients, NEW d \in Clients, CloneHandle(c, d) PROVE Strands(s)
  BY <1>2 DEF CloneHandle
<1>3. ASSUME NEW c \in Clients, DropHandle(c) PROVE Strands(s)
  BY <1>3 DEF DropHandle
<1>4. ASSUME NEW g \in Guards, DropGuard(g) PROVE Strands(s)
  BY <1>4 DEF DropGuard, FreeGuard
<1>5. CASE MasterAnswers
  BY <1>5, KeyFacts DEF MasterAnswers, MasterEffect
<1>6. CASE Receive
  BY <1>6 DEF Receive
<1>7. CASE RegisterExisting
  BY <1>7 DEF RegisterExisting, Registers, Existing, ReplyHandle, ReplyError
<1>8. CASE RegisterStale
  BY <1>8 DEF RegisterStale, Registers, Existing
<1>9. ASSUME NEW g \in Guards, FinishClient(g) PROVE Strands(s)
  BY <1>9 DEF FinishClient, Registers, Existing, ReplyHandle, MakeGuard
<1>10. ASSUME NEW g \in Guards, CreateServer(g) PROVE Strands(s)
  BY <1>10 DEF CreateServer, Registers, Existing, MakeGuard, Calls
<1>11. CASE CreateFails
  BY <1>11 DEF CreateFails, Registers, Existing, ReplyError
<1>12. CASE FinishServer
  <2>j. job.key \in Keys /\ job.kind = "register" /\ job.from \in Clients
    BY <1>12 DEF FinishServer, Accepted, ReplyHandle, Message
  <2>. QED  BY SMTT(30), <1>12, <2>j, KeyFacts DEF FinishServer, Accepted, ReplyHandle
<1>13. CASE RegisterRefused
  <2>j. job.key \in Keys /\ job.kind = "register" /\ job.from \in Clients
    BY <1>13 DEF RegisterRefused, FreeGuard, Message
  <2>. QED  BY <1>13, <2>j, KeyFacts DEF RegisterRefused, FreeGuard
<1>14. CASE UnregisterClient
  BY <1>14, KeyFacts DEF UnregisterClient
<1>15. CASE UnregisterService
  BY <1>15, KeyFacts DEF UnregisterService, Existing, Calls
<1>16. CASE FinishUnregister
  BY <1>16 DEF FinishUnregister, Returned, Existing
<1>17. CASE RequestStop
  BY <1>17 DEF RequestStop
<1>18. CASE BeginPostStop
  <2>1. draining = {} /\ rpc = NoCall /\ job = NoJob /\ master' = master
    BY <1>18 DEF BeginPostStop
  <2>2. ASSUME registry[<<"server", s>>] # None PROVE \E d \in draining' : d[2] = s
    <3>1. <<registry[<<"server", s>>], s>> \in draining'
      BY <1>18, <2>2 DEF BeginPostStop, Taken
    <3>. QED  BY <3>1
  <2>. QED  BY <2>1, <2>2
<1>19. ASSUME NEW d \in draining, PostStopCleanup(d) PROVE Strands(s)
  BY <1>19, KeyFacts DEF PostStopCleanup, Calls
<1>20. CASE PostStopCleaned
  BY <1>20 DEF PostStopCleaned, Returned
<1>21. CASE Stopped
  BY <1>21, KeyFacts DEF Stopped
<1>22. CASE CallAfterEnd \/ UNCHANGED vars
  BY <1>22 DEF CallAfterEnd, vars
<1>. QED
  BY <1>1, <1>2, <1>3, <1>4, <1>5, <1>6, <1>7, <1>8, <1>9, <1>10, <1>11, <1>12, <1>13, <1>14,
     <1>15, <1>16, <1>17, <1>18, <1>19, <1>20, <1>21, <1>22
  DEF Next, Actor, User

(* The master is left with a service that has no server only by a failed     *)
(* call, by the actor's failure, or when a server that was to take a stale   *)
(* one's place could not be made.                                            *)
THEOREM ServiceStrandedOnlyByFailure == Spec => StrandedOnlyByFailure
<1>1. Init => ListedInv
  BY KeyFacts DEF Init, ListedInv, NoCall
<1>2. Base /\ Base' /\ ListedInv /\ [Next]_vars => ListedInv'
  BY ListedNext
<1>3. Base /\ Base' /\ ListedInv /\ [Next]_vars =>
        [\A s \in Services :
           (s \in master => Accounted(s)) /\ ~(s \in master => Accounted(s))'
               => rpc.status = "err" \/ pc' = "failed" \/ Registers]_vars
  BY StrandsNext DEF Strands
<1>. QED  BY <1>1, <1>2, <1>3, ServiceBase, PTL DEF Spec, StrandedOnlyByFailure

-----------------------------------------------------------------------------
(* The two halves of GuardsTracked.  The first forgets no entry whose last   *)
(* handle is gone, the second ties the flag to the registry.                 *)
NoOrphan ==
    Running => \A k \in Keys :
        registry[k] # None /\ ~Upgrades(registry[k]) =>
            (registry[k] \in dropping /\ armed[registry[k]]) \/ DropPending(k)

ArmedIffTracked ==
    Running => \A c \in Clients :
        held[c] # None =>
            (armed[held[c]] <=> \/ ~IsServer(keyOf[held[c]])
                                \/ registry[keyOf[held[c]]] = held[c]
                                \/ held[c] \in Drained)

(* A guard that a handle refers to has an entry under its own key only.      *)
LEMMA HeldKey ==
  ASSUME Base, NEW c \in Clients, held[c] # None
  PROVE  /\ held[c] \in Guards /\ keyOf[held[c]] \in Keys
         /\ \A k \in Keys : registry[k] = held[c] => keyOf[held[c]] = k
         /\ \A d \in draining : d[1] = held[c] => keyOf[held[c]] = <<"server", d[2]>>
BY KeyFacts DEF Base, TypeOK, GuardInv

LEMMA ArmedNext == Base /\ Base' /\ ArmedIffTracked /\ [Next]_vars => ArmedIffTracked'
<1> SUFFICES ASSUME Base, Base', ArmedIffTracked, [Next]_vars PROVE ArmedIffTracked'
  OBVIOUS
<1> USE ServiceAssumption
    DEF ArmedIffTracked, Base, TypeOK, JobInv, GuardInv, MakingInv, StopInv, Running, NoJob, Idle, Fail,
        Registered, Drained, Upgrades, Holders, Unused, Disarmed
<1>1. ASSUME NEW c \in Clients, NEW k \in Keys, Call(c, k) PROVE ArmedIffTracked'
  BY <1>1 DEF Call
<1>2. ASSUME NEW c \in Clients, NEW d \in Clients, CloneHandle(c, d) PROVE ArmedIffTracked'
  BY <1>2 DEF CloneHandle
<1>3. ASSUME NEW c \in Clients, DropHandle(c) PROVE ArmedIffTracked'
  BY <1>3 DEF DropHandle
<1>4. ASSUME NEW g \in Guards, DropGuard(g) PROVE ArmedIffTracked'
  BY <1>4 DEF DropGuard, FreeGuard
<1>5. CASE MasterAnswers
  BY <1>5 DEF MasterAnswers, MasterEffect
<1>6. CASE Receive
  BY <1>6 DEF Receive
<1>7. CASE RegisterExisting
  BY <1>7 DEF RegisterExisting, Registers, Existing, ReplyHandle, ReplyError
<1>8. CASE RegisterStale
  <2>1. /\ job.key \in Keys /\ registry' = [registry EXCEPT ![job.key] = None]
        /\ registry[job.key] # None /\ ~Upgrades(registry[job.key])
        /\ UNCHANGED <<pc, held, armed, keyOf, draining>>
    BY <1>8 DEF RegisterStale, Registers, Existing, Message
  <2>2. \A c \in Clients : held[c] # registry[job.key]
    BY <2>1
  <2>3. \A c \in Clients : held[c] # None => (registry'[keyOf[held[c]]] = held[c] <=> registry[keyOf[held[c]]] = held[c])
    <3> SUFFICES ASSUME NEW c \in Clients, held[c] # None
                 PROVE  registry'[keyOf[held[c]]] = held[c] <=> registry[keyOf[held[c]]] = held[c]
      OBVIOUS
    <3>1. keyOf[held[c]] \in Keys
      BY HeldKey
    <3>. QED  BY <2>1, <2>2, <3>1
  <2>4. Drained' = Drained /\ Running' = Running
    BY <2>1
  <2>. QED
    <3> HIDE DEF Base, TypeOK, JobInv, GuardInv, MakingInv, StopInv, Drained, Running
    <3>. QED  BY <2>1, <2>3, <2>4
<1>9. ASSUME NEW g \in Guards, FinishClient(g) PROVE ArmedIffTracked'
  <2>1. /\ job.key \in Keys /\ ~IsServer(job.key) /\ job.from \in Clients /\ draining = {} /\ Running
        /\ keyOf' = [keyOf EXCEPT ![g] = job.key] /\ armed' = [armed EXCEPT ![g] = TRUE] /\ draining' = draining
    BY <1>9 DEF FinishClient, Registers, MakeGuard, Message
  <2>2. \A c \in Clients : held[c] # g
    <3>1. g \in Unused
      BY <1>9 DEF FinishClient, MakeGuard
    <3>. QED  BY <3>1
  <2>3. CASE Fail
    BY <2>3
  <2>4. CASE ~Fail
    <3>1. registry' = [registry EXCEPT ![job.key] = g] /\ held' = [held EXCEPT ![job.from] = g]
      BY <1>9, <2>4 DEF FinishClient, ReplyHandle
    <3>2. SUFFICES ASSUME NEW c \in Clients, held[c] # None, c # job.from
                   PROVE  armed'[held[c]] <=> \/ ~IsServer(keyOf'[held[c]])
                                             \/ registry'[keyOf'[held[c]]] = held[c]
      BY <2>1, <3>1
    <3>3. /\ keyOf'[held[c]] = keyOf[held[c]] /\ armed'[held[c]] = armed[held[c]]
          /\ keyOf[held[c]] \in Keys
      BY ZenonT(60), <2>1, <2>2, <3>2, HeldKey
    <3>4. IsServer(keyOf[held[c]]) => registry'[keyOf[held[c]]] = registry[keyOf[held[c]]]
      BY <2>1, <3>1, <3>3
    <3>. QED  BY <2>1, <3>2, <3>3, <3>4
  <2>. QED  BY <2>3, <2>4
<1>10. ASSUME NEW g \in Guards, CreateServer(g) PROVE ArmedIffTracked'
  BY SMTT(30), <1>10 DEF CreateServer, Registers, Existing, MakeGuard, Calls
<1>11. CASE CreateFails
  BY <1>11 DEF CreateFails, Registers, Existing, ReplyError
<1>12. CASE FinishServer
  BY <1>12 DEF FinishServer, Accepted, ReplyHandle
<1>13. CASE RegisterRefused
  BY <1>13 DEF RegisterRefused, FreeGuard
<1>14. CASE UnregisterClient
  <2>1. /\ job.key \in Keys /\ registry' = [registry EXCEPT ![job.key] = None] /\ ~IsServer(job.key)
        /\ UNCHANGED <<held, armed, keyOf, draining>> /\ Running
    BY <1>14 DEF UnregisterClient, Message
  <2>2. \A c \in Clients : held[c] # None /\ IsServer(keyOf[held[c]])
                               => registry'[keyOf[held[c]]] = registry[keyOf[held[c]]]
    <3> SUFFICES ASSUME NEW c \in Clients, held[c] # None, IsServer(keyOf[held[c]])
                 PROVE  registry'[keyOf[held[c]]] = registry[keyOf[held[c]]]
      OBVIOUS
    <3>1. keyOf[held[c]] \in Keys /\ keyOf[held[c]] # job.key
      BY <2>1, HeldKey
    <3>. QED  BY <2>1, <3>1
  <2>3. Drained' = Drained
    BY <2>1
  <2>. QED
    <3> HIDE DEF Base, TypeOK, JobInv, GuardInv, MakingInv, StopInv, Drained, Running
    <3>. QED  BY <2>1, <2>2, <2>3
<1>15. CASE UnregisterService
  <2>1. /\ job.key \in Keys /\ IsServer(job.key) /\ registry' = [registry EXCEPT ![job.key] = None]
        /\ armed' = Disarmed({registry[job.key]}) /\ UNCHANGED <<held, keyOf, draining>> /\ draining = {}
        /\ registry[job.key] # None /\ Running
    BY <1>15 DEF UnregisterService, Existing, Message
  <2>2. SUFFICES ASSUME NEW c \in Clients, held[c] # None
                 PROVE  armed'[held[c]] <=> \/ ~IsServer(keyOf[held[c]])
                                           \/ registry'[keyOf[held[c]]] = held[c]
    <3>1. Drained' = {} /\ UNCHANGED <<held, keyOf>>
      BY <2>1
    <3> HIDE DEF Base, TypeOK, JobInv, GuardInv, MakingInv, StopInv, Drained, Running
    <3>. QED  BY <3>1
  <2>3. held[c] \in Guards /\ Upgrades(held[c]) /\ keyOf[held[c]] \in Keys
    BY <2>2, HeldKey
  <2>4. armed[held[c]] <=> ~IsServer(keyOf[held[c]]) \/ registry[keyOf[held[c]]] = held[c]
    BY <2>1, <2>2
  <2>5. CASE held[c] = registry[job.key]
    <3>1. ~armed'[held[c]] /\ keyOf[held[c]] = job.key
      BY <2>1, <2>2, <2>3, <2>5, HeldKey
    <3>. QED  BY <2>1, <2>2, <3>1
  <2>6. CASE held[c] # registry[job.key]
    <3>1. armed'[held[c]] = armed[held[c]]
      BY <2>1, <2>3, <2>6
    <3>2. registry'[keyOf[held[c]]] = held[c] <=> registry[keyOf[held[c]]] = held[c]
      BY <2>1, <2>2, <2>3, <2>6
    <3>. QED  BY <2>4, <3>1, <3>2
  <2>. QED  BY <2>5, <2>6
<1>16. CASE FinishUnregister
  BY <1>16 DEF FinishUnregister, Returned, Existing
<1>17. CASE RequestStop
  BY <1>17 DEF RequestStop
<1>18. CASE BeginPostStop
  <2>1. /\ draining = {} /\ Running /\ UNCHANGED <<held, armed, keyOf>> /\ pc' = "post_stop"
        /\ registry' = [k \in Keys |-> IF IsServer(k) THEN None ELSE registry[k]] /\ draining' = Taken
    BY <1>18 DEF BeginPostStop
  <2>2. SUFFICES ASSUME NEW c \in Clients, held[c] # None, IsServer(keyOf[held[c]])
                 PROVE  registry[keyOf[held[c]]] = held[c] <=> registry'[keyOf[held[c]]] = held[c] \/ held[c] \in Drained'
    BY <2>1
  <2>3. PICK s \in Services : keyOf[held[c]] = <<"server", s>> /\ <<"server", s>> \in Keys
    BY SMTT(30), <2>2, HeldKey, KeyFacts
  <2>4. registry'[keyOf[held[c]]] # held[c]
    BY <2>1, <2>2, <2>3
  <2>5. ASSUME registry[keyOf[held[c]]] = held[c] PROVE held[c] \in Drained'
    <3>1. registry[<<"server", s>>] = held[c] /\ registry[<<"server", s>>] # None
      BY <2>2, <2>3, <2>5
    <3>2. <<registry[<<"server", s>>], s>> \in Taken
      BY <3>1 DEF Taken
    <3>3. <<held[c], s>> \in draining'
      BY <2>1, <3>1, <3>2
    <3>. QED  BY <3>3
  <2>6. ASSUME held[c] \in Drained' PROVE registry[keyOf[held[c]]] = held[c]
    <3>1. PICK d \in Taken : d[1] = held[c]
      BY <2>1, <2>6
    <3>2. PICK r \in Services : d = <<registry[<<"server", r>>], r>>
      BY DEF Taken
    <3>. QED  BY <2>2, <3>1, <3>2, HeldKey, KeyFacts
  <2>. QED  BY <2>4, <2>5, <2>6
<1>19. ASSUME NEW d \in draining, PostStopCleanup(d) PROVE ArmedIffTracked'
  <2>1. /\ draining' = draining \ {d} /\ armed' = Disarmed({d[1]}) /\ pc = "post_stop"
        /\ UNCHANGED <<held, keyOf, registry, pc>> /\ d = <<d[1], d[2]>> /\ d[2] \in Services
    BY <1>19 DEF PostStopCleanup
  <2>2. SUFFICES ASSUME NEW c \in Clients, held[c] # None
                 PROVE  armed'[held[c]] <=> \/ ~IsServer(keyOf[held[c]])
                                           \/ registry[keyOf[held[c]]] = held[c]
                                           \/ held[c] \in Drained'
    BY <2>1
  <2>3. held[c] \in Guards /\ Upgrades(held[c])
    BY <2>2
  <2>4. CASE held[c] = d[1]
    <3>1. ~armed'[held[c]]
      BY <2>1, <2>3, <2>4
    <3>2. keyOf[held[c]] = <<"server", d[2]>> /\ IsServer(keyOf[held[c]])
      BY <2>1, <2>2, <2>4, HeldKey, KeyFacts
    <3>3. registry[keyOf[held[c]]] = None
      BY <2>1, <3>2
    <3>4. ASSUME NEW e \in draining, e[1] = held[c] PROVE e = d
      <4>1. keyOf[held[c]] = <<"server", e[2]>> /\ e = <<e[1], e[2]>>
        BY <2>2, <3>4, HeldKey
      <4>. QED  BY <2>1, <2>4, <3>2, <3>4, <4>1
    <3>. QED  BY <2>1, <2>2, <3>1, <3>2, <3>3, <3>4
  <2>5. CASE held[c] # d[1]
    <3>1. armed'[held[c]] = armed[held[c]]
      BY <2>1, <2>3, <2>5
    <3>2. held[c] \in Drained' <=> held[c] \in Drained
      BY <2>1, <2>5
    <3>. QED  BY <2>1, <2>2, <3>1, <3>2
  <2>. QED  BY <2>4, <2>5
<1>20. CASE PostStopCleaned
  BY <1>20 DEF PostStopCleaned, Returned
<1>21. CASE Stopped
  BY <1>21 DEF Stopped
<1>22. CASE CallAfterEnd \/ UNCHANGED vars
  BY <1>22 DEF CallAfterEnd, vars
<1>. QED
  BY <1>1, <1>2, <1>3, <1>4, <1>5, <1>6, <1>7, <1>8, <1>9, <1>10, <1>11, <1>12, <1>13, <1>14,
     <1>15, <1>16, <1>17, <1>18, <1>19, <1>20, <1>21, <1>22
  DEF Next, Actor, User

-----------------------------------------------------------------------------
(* A task whose call is outstanding has no handle, and its reply port is in  *)
(* one message only: the reply gives a handle to a task that had none, so    *)
(* no guard loses a reference by it.                                         *)
Asks(m) == m.kind = "register"

CallInv ==
    /\ \A c \in Clients : client[c] # "idle" => held[c] = None
    /\ Asks(job) => client[job.from] # "idle"
    /\ \A i \in 1..Len(mailbox) : Asks(mailbox[i]) =>
          /\ client[mailbox[i].from] # "idle"
          /\ Asks(job) => mailbox[i].from # job.from
          /\ \A j \in 1..Len(mailbox) \ {i} : Asks(mailbox[j]) => mailbox[i].from # mailbox[j].from

(* A registration that ends frees its caller alone; what is queued stays,    *)
(* but for a drop that may join it.                                          *)
LEMMA EndKeepsCall ==
  ASSUME Base, Base', CallInv, Asks(job), job' = NoJob,
         \/ mailbox' = <<>> /\ \A d \in Clients : client'[d] = "idle"
         \/ /\ client' = [client EXCEPT ![job.from] = "idle"]
            /\ \/ mailbox' = mailbox
               \/ \E m \in Message : ~Asks(m) /\ mailbox' = Append(mailbox, m),
         \A d \in Clients \ {job.from} : held'[d] = held[d]
  PROVE  CallInv'
<1> USE DEF CallInv, Asks, NoJob, Base, TypeOK
<1>1. CASE mailbox' = <<>> /\ \A d \in Clients : client'[d] = "idle"
  BY <1>1
<1>2. CASE client' = [client EXCEPT ![job.from] = "idle"] /\ mailbox' = mailbox
  <2>1. \A d \in Clients : client'[d] # "idle" => held'[d] = None
    BY <1>2
  <2>2. \A k \in 1..Len(mailbox) : Asks(mailbox[k]) =>
           mailbox[k].from \in Clients /\ mailbox[k].from # job.from
    BY DEF Message
  <2>. QED  BY <1>2, <2>1, <2>2
<1>3. ASSUME client' = [client EXCEPT ![job.from] = "idle"], NEW m \in Message, ~Asks(m),
             mailbox' = Append(mailbox, m)
      PROVE  CallInv'
  <2>1. \A d \in Clients : client'[d] # "idle" => held'[d] = None
    BY <1>3
  <2>2. \A k \in 1..Len(mailbox) : Asks(mailbox[k]) =>
           mailbox[k].from \in Clients /\ mailbox[k].from # job.from
    BY DEF Message
  <2>3. \A k \in 1..Len(mailbox') : Asks(mailbox'[k]) => k \in 1..Len(mailbox) /\ mailbox'[k] = mailbox[k]
    BY <1>3
  <2>. QED  BY <1>3, <2>1, <2>2, <2>3
<1>. QED  BY <1>1, <1>2, <1>3

LEMMA CallNext == Base /\ Base' /\ CallInv /\ [Next]_vars => CallInv'
<1> SUFFICES ASSUME Base, Base', CallInv, [Next]_vars PROVE CallInv'
  OBVIOUS
<1> USE ServiceAssumption DEF CallInv, Asks, Base, TypeOK, JobInv, NoJob, Idle, Fail, Message
<1>1. ASSUME NEW c \in Clients, NEW k \in Keys, Call(c, k) PROVE CallInv'
  <2>1. /\ mailbox' = Append(mailbox, [kind |-> "register", key |-> k, from |-> c])
        /\ client[c] = "idle" /\ held[c] = None /\ client' = [client EXCEPT ![c] = "waiting"]
        /\ UNCHANGED <<job, held>>
    BY <1>1 DEF Call
  <2>2. \A i \in 1..Len(mailbox) : /\ mailbox'[i] = mailbox[i]
                                  /\ Asks(mailbox[i]) => mailbox[i].from \in Clients \ {c}
    BY <2>1
  <2>3. /\ Len(mailbox') = Len(mailbox) + 1 /\ mailbox'[Len(mailbox')].from = c
        /\ Asks(job) => job.from \in Clients \ {c}
    BY <2>1
  <2>. QED  BY <2>1, <2>2, <2>3
<1>2. ASSUME NEW c \in Clients, NEW d \in Clients, CloneHandle(c, d) PROVE CallInv'
  BY <1>2 DEF CloneHandle
<1>3. ASSUME NEW c \in Clients, DropHandle(c) PROVE CallInv'
  BY <1>3 DEF DropHandle
<1>4. ASSUME NEW g \in Guards, DropGuard(g) PROVE CallInv'
  <2>1. UNCHANGED <<job, client, held>> /\ mailbox' \in {mailbox, Append(mailbox, DropMsg(g))}
    BY <1>4 DEF DropGuard
  <2>2. ~Asks(DropMsg(g)) /\ (mailbox' # mailbox => DropMsg(g) \in Message)
    BY <1>4 DEF DropMsg, GuardInv, DropGuard
  <2>3. \A k \in 1..Len(mailbox') : Asks(mailbox'[k]) => k \in 1..Len(mailbox) /\ mailbox'[k] = mailbox[k]
    BY <2>1, <2>2
  <2>. QED  BY <2>1, <2>3
<1>5. CASE MasterAnswers
  BY <1>5 DEF MasterAnswers, MasterEffect
<1>6. CASE Receive
  BY <1>6 DEF Receive
<1>7. CASE RegisterExisting
  <2>1. Asks(job) /\ job' = NoJob /\ job.from \in Clients
    BY <1>7 DEF RegisterExisting, Registers, Existing, ReplyHandle, ReplyError
  <2>2. \A d \in Clients \ {job.from} : held'[d] = held[d]
    BY <1>7 DEF RegisterExisting, Registers, Existing, ReplyHandle, ReplyError
  <2>3. \/ mailbox' = <<>> /\ \A d \in Clients : client'[d] = "idle"
        \/ client' = [client EXCEPT ![job.from] = "idle"] /\ mailbox' = mailbox
    BY <1>7 DEF RegisterExisting, Registers, Existing, ReplyHandle, ReplyError, Released
  <2>. QED
    <3> HIDE DEF Base, CallInv, Asks, Message, TypeOK
    <3>. QED  BY <2>1, <2>2, <2>3, EndKeepsCall
<1>8. CASE RegisterStale
  BY <1>8 DEF RegisterStale, Registers, Existing
<1>9. ASSUME NEW g \in Guards, FinishClient(g) PROVE CallInv'
  <2>1. Asks(job) /\ job' = NoJob /\ job.from \in Clients
    BY <1>9 DEF FinishClient, Registers, Existing, ReplyHandle, MakeGuard
  <2>2. \A d \in Clients \ {job.from} : held'[d] = held[d]
    BY <1>9 DEF FinishClient, Registers, Existing, ReplyHandle, MakeGuard
  <2>3. \/ mailbox' = <<>> /\ \A d \in Clients : client'[d] = "idle"
        \/ client' = [client EXCEPT ![job.from] = "idle"] /\ mailbox' = mailbox
    BY <1>9 DEF FinishClient, Registers, Existing, ReplyHandle, MakeGuard, Released
  <2>. QED
    <3> HIDE DEF Base, CallInv, Asks, Message, TypeOK
    <3>. QED  BY <2>1, <2>2, <2>3, EndKeepsCall
<1>10. ASSUME NEW g \in Guards, CreateServer(g) PROVE CallInv'
  BY <1>10 DEF CreateServer, Registers, Existing, MakeGuard, Calls
<1>11. CASE CreateFails
  <2>1. Asks(job) /\ job' = NoJob /\ job.from \in Clients
    BY <1>11 DEF CreateFails, Registers, Existing, ReplyError
  <2>2. \A d \in Clients \ {job.from} : held'[d] = held[d]
    BY <1>11 DEF CreateFails, Registers, Existing, ReplyError
  <2>3. \/ mailbox' = <<>> /\ \A d \in Clients : client'[d] = "idle"
        \/ client' = [client EXCEPT ![job.from] = "idle"] /\ mailbox' = mailbox
    BY <1>11 DEF CreateFails, Registers, Existing, ReplyError, Released
  <2>. QED
    <3> HIDE DEF Base, CallInv, Asks, Message, TypeOK
    <3>. QED  BY <2>1, <2>2, <2>3, EndKeepsCall
<1>12. CASE FinishServer
  <2>1. Asks(job) /\ job' = NoJob /\ job.from \in Clients
    BY <1>12 DEF FinishServer, Accepted, ReplyHandle
  <2>2. \A d \in Clients \ {job.from} : held'[d] = held[d]
    BY <1>12 DEF FinishServer, Accepted, ReplyHandle
  <2>3. \/ mailbox' = <<>> /\ \A d \in Clients : client'[d] = "idle"
        \/ client' = [client EXCEPT ![job.from] = "idle"] /\ mailbox' = mailbox
    BY <1>12 DEF FinishServer, Accepted, ReplyHandle, Released
  <2>. QED
    <3> HIDE DEF Base, CallInv, Asks, Message, TypeOK
    <3>. QED  BY <2>1, <2>2, <2>3, EndKeepsCall
<1>13. CASE RegisterRefused
  <2>1. Asks(job) /\ job' = NoJob /\ held' = held
    BY <1>13 DEF RegisterRefused
  <2>2. DropMsg(making) \in Message /\ ~Asks(DropMsg(making))
    BY <1>13 DEF RegisterRefused, DropMsg, MakingInv
  <2>3. \/ mailbox' = <<>> /\ \A d \in Clients : client'[d] = "idle"
        \/ /\ client' = [client EXCEPT ![job.from] = "idle"]
           /\ mailbox' = mailbox \/ mailbox' = Append(mailbox, DropMsg(making))
    BY <1>13 DEF RegisterRefused, Released
  <2>. QED
    <3> HIDE DEF Base, CallInv, Asks, Message, TypeOK
    <3>. QED  BY <2>1, <2>2, <2>3, EndKeepsCall
<1>14. CASE UnregisterClient
  BY <1>14 DEF UnregisterClient
<1>15. CASE UnregisterService
  BY <1>15 DEF UnregisterService, Existing, Calls
<1>16. CASE FinishUnregister
  BY <1>16 DEF FinishUnregister, Returned, Existing
<1>17. CASE RequestStop
  BY <1>17 DEF RequestStop
<1>18. CASE BeginPostStop
  BY <1>18 DEF BeginPostStop, Taken
<1>19. ASSUME NEW d \in draining, PostStopCleanup(d) PROVE CallInv'
  BY <1>19 DEF PostStopCleanup, Calls
<1>20. CASE PostStopCleaned
  BY <1>20 DEF PostStopCleaned, Returned
<1>21. CASE Stopped
  BY <1>21 DEF Stopped, Released
<1>22. CASE CallAfterEnd \/ UNCHANGED vars
  BY <1>22 DEF CallAfterEnd, vars
<1>. QED
  BY <1>1, <1>2, <1>3, <1>4, <1>5, <1>6, <1>7, <1>8, <1>9, <1>10, <1>11, <1>12, <1>13, <1>14,
     <1>15, <1>16, <1>17, <1>18, <1>19, <1>20, <1>21, <1>22
  DEF Next, Actor, User

(* A step of the actor that ends or goes on with a job, and touches neither  *)
(* guards nor handles, forgets no entry: the registry stays as it is, and a  *)
(* drop is done with only once its key has no entry.                         *)
LEMMA QuietKeepsOrphans ==
    ASSUME NoOrphan, Running, UNCHANGED <<held, making, dropping, armed>>,
           \/ ~Running'
           \/ /\ UNCHANGED <<registry, mailbox>>
              /\ job' = job \/ (job.kind = "drop" => registry[job.key] = None)
    PROVE  NoOrphan'
<1>1. ASSUME UNCHANGED <<registry, mailbox>>,
             job' = job \/ (job.kind = "drop" => registry[job.key] = None),
             NEW k \in Keys, (registry[k] # None /\ ~Upgrades(registry[k]))'
      PROVE  ((registry[k] \in dropping /\ armed[registry[k]]) \/ DropPending(k))'
  <2>1. registry[k] # None /\ ~Upgrades(registry[k])
    BY <1>1 DEF Upgrades, Holders
  <2>2. (registry[k] \in dropping /\ armed[registry[k]]) \/ DropPending(k)
    BY <2>1 DEF NoOrphan
  <2>3. DropPending(k) => DropPending(k)'
    BY <1>1, <2>1 DEF DropPending
  <2>. QED  BY <1>1, <2>2, <2>3
<1>. QED
  BY <1>1 DEF NoOrphan


LEMMA OrphanNext == Base /\ Base' /\ CallInv /\ NoOrphan /\ [Next]_vars => NoOrphan'
<1> SUFFICES ASSUME Base, Base', CallInv, NoOrphan, [Next]_vars PROVE NoOrphan'
  OBVIOUS
<1> USE ServiceAssumption
    DEF NoOrphan, DropPending, Base, TypeOK, JobInv, GuardInv, MakingInv, StopInv, Running, NoJob, Idle,
        Fail, Registered, Drained, Upgrades, Holders, Unused
<1>1. ASSUME NEW c \in Clients, NEW k \in Keys, Call(c, k) PROVE NoOrphan'
  BY SMTT(30), <1>1 DEF Call
<1>2. ASSUME NEW c \in Clients, NEW d \in Clients, CloneHandle(c, d) PROVE NoOrphan'
  BY <1>2 DEF CloneHandle
<1>3. ASSUME NEW c \in Clients, DropHandle(c) PROVE NoOrphan'
  BY <1>3 DEF DropHandle
<1>4. ASSUME NEW g \in Guards, DropGuard(g) PROVE NoOrphan'
  <2>1. /\ dropping' = dropping \ {g} /\ armed' = [armed EXCEPT ![g] = TRUE] /\ g \in dropping
        /\ UNCHANGED <<registry, held, making, job, pc>>
    BY <1>4 DEF DropGuard, FreeGuard
  <2>2. \A k \in Keys : DropPending(k) => DropPending(k)'
    BY <1>4 DEF DropGuard
  <2>3. ASSUME Running, armed[g], NEW k \in Keys, keyOf[g] = k PROVE DropPending(k)'
    <3>1. mailbox' = Append(mailbox, [kind |-> "drop", key |-> k])
      BY <1>4, <2>3 DEF DropGuard, Casts, DropMsg
    <3>2. [kind |-> "drop", key |-> k] \in Message
      BY DEF Message
    <3>3. Len(mailbox') \in 1..Len(mailbox') /\ mailbox'[Len(mailbox')] = [kind |-> "drop", key |-> k]
      BY <2>3, <3>1, <3>2
    <3>. QED  BY SMTT(30), <3>3
  <2>4. ASSUME Running, NEW k \in Keys, registry[k] # None, ~Upgrades(registry[k])
        PROVE  (registry[k] \in dropping' /\ armed'[registry[k]]) \/ DropPending(k)'
    <3>1. (registry[k] \in dropping /\ armed[registry[k]]) \/ DropPending(k)
      BY <2>4
    <3>2. registry[k] = g => keyOf[g] = k
      BY <2>1, <2>4, KeyFacts
    <3> HIDE DEF DropPending
    <3>3. CASE registry[k] = g
      BY <2>2, <2>3, <2>4, <3>1, <3>2, <3>3
    <3>4. CASE registry[k] # g
      BY <2>1, <2>2, <2>4, <3>1, <3>4
    <3>. QED  BY <3>3, <3>4
  <2>. QED
    <3> HIDE DEF DropPending
    <3>. QED  BY <2>1, <2>4
<1>5. CASE MasterAnswers
  BY <1>5 DEF MasterAnswers, MasterEffect
<1>6. CASE Receive
  <2>1. /\ mailbox # <<>> /\ job' = Head(mailbox) /\ mailbox' = Tail(mailbox)
        /\ UNCHANGED <<registry, held, making, dropping, armed>> /\ Running /\ job = NoJob
    BY <1>6 DEF Receive
  <2>2. ASSUME NEW i \in 1..Len(mailbox)
        PROVE  mailbox[i] = job' \/ \E j \in 1..Len(mailbox') : mailbox'[j] = mailbox[i]
    <3>1. CASE i = 1
      BY <2>1, <3>1
    <3>2. CASE i # 1
      <4>1. i - 1 \in 1..Len(mailbox') /\ mailbox'[i - 1] = mailbox[i]
        BY <2>1, <3>2
      <4>. QED  BY <4>1
    <3>. QED  BY <3>1, <3>2
  <2>3. \A k \in Keys : DropPending(k) => DropPending(k)'
    <3> SUFFICES ASSUME NEW k \in Keys, NEW n \in 1..Len(mailbox),
                        mailbox[n].kind = "drop", mailbox[n].key = k
                 PROVE  DropPending(k)'
      BY <2>1
    <3>1. CASE mailbox[n] = job'
      BY <3>1
    <3>2. CASE \E m \in 1..Len(mailbox') : mailbox'[m] = mailbox[n]
      BY <3>2
    <3>. QED  BY <2>2, <3>1, <3>2
  <2>. QED
    <3> HIDE DEF DropPending
    <3>. QED  BY <2>1, <2>3
<1>7. CASE RegisterExisting
  <2>1. /\ job.kind # "drop" /\ UNCHANGED <<dropping, armed>> /\ Running /\ making = None
        /\ registry[job.key] \in Guards /\ job.key \in Keys /\ job.from \in Clients
    BY <1>7 DEF RegisterExisting, Registers, Existing, Message
  <2>2. CASE Fail
    BY <2>2
  <2>3. CASE ~Fail
    <3>1. /\ UNCHANGED mailbox /\ making' = None
          /\ registry' = registry \/ registry' = [registry EXCEPT ![job.key] = registry[job.key]]
          /\ held' = held \/ held' = [held EXCEPT ![job.from] = registry[job.key]]
      BY <1>7, <2>3 DEF RegisterExisting, ReplyHandle, ReplyError, Existing
    <3>2. registry' = registry /\ held[job.from] = None
      BY <1>7, <2>1, <3>1 DEF RegisterExisting, Registers, CallInv, Asks
    <3>3. \A g \in Guards : Upgrades(g) => Upgrades(g)'
      BY <2>1, <3>1, <3>2
    <3>4. \A k \in Keys : DropPending(k) => DropPending(k)'
      BY <2>1, <3>1
    <3>. QED
      <4> HIDE DEF DropPending, Upgrades
      <4>. QED  BY <2>1, <3>2, <3>3, <3>4
  <2>. QED  BY <2>2, <2>3
<1>8. CASE RegisterStale
  <2>1. /\ job.key \in Keys /\ job.kind = "register" /\ Running
        /\ registry' = [registry EXCEPT ![job.key] = None]
        /\ UNCHANGED <<held, making, dropping, armed, job, mailbox>>
    BY <1>8 DEF RegisterStale, Registers, Message
  <2>8. ASSUME NEW k \in Keys, (registry[k] # None /\ ~Upgrades(registry[k]))'
        PROVE  ((registry[k] \in dropping /\ armed[registry[k]]) \/ DropPending(k))'
    <3>1. registry'[k] = registry[k] /\ registry[k] \in Guards /\ (DropPending(k) => DropPending(k)')
      BY <2>1, <2>8
    <3>2. ~Upgrades(registry[k])
      BY <2>1, <2>8, <3>1
    <3>3. registry[k] \in dropping => registry[k] \in dropping' /\ (armed[registry[k]] => armed'[registry[k]])
      BY <2>1, <2>8, <3>1, <3>2
    <3>4. (registry[k] \in dropping /\ armed[registry[k]]) \/ DropPending(k)
      BY <2>1, <2>8, <3>1, <3>2
    <3>. QED  BY <3>1, <3>3, <3>4
  <2>. QED
    <3> HIDE DEF DropPending, Upgrades
    <3>. QED  BY <2>8
<1>9. ASSUME NEW g \in Guards, FinishClient(g) PROVE NoOrphan'
  <2>1. /\ job.kind # "drop" /\ Running /\ dropping' = dropping /\ job.key \in Keys /\ job.from \in Clients
        /\ making = None
    BY <1>9 DEF FinishClient, Registers, Message
  <2>2. \A k \in Keys : registry[k] # None /\ registry[k] # g => armed'[registry[k]] = armed[registry[k]]
    BY SMTT(30), <1>9 DEF FinishClient, MakeGuard
  <2>3. held[job.from] = None
    BY <1>9, <2>1 DEF FinishClient, Registers, CallInv, Asks
  <2>5. CASE Fail
    BY <2>5
  <2>6. CASE ~Fail
    <3>1. /\ registry' = [registry EXCEPT ![job.key] = g] /\ held' = [held EXCEPT ![job.from] = g]
          /\ mailbox' = mailbox /\ making' = None
      BY <1>9, <2>6 DEF FinishClient, ReplyHandle
    <3>2. Upgrades(g)'
      <4>1. \E c \in Clients : held'[c] = g
        BY <2>1, <3>1
      <4>2. PICK c \in Clients : held'[c] = g
        BY <4>1
      <4>3. c \in Holders(g)'
        BY <4>2
      <4> HIDE DEF Holders
      <4>. QED  BY <4>3
    <3>3. ASSUME NEW h \in Guards, Upgrades(h) PROVE Upgrades(h)'
      <4>1. CASE h = g
        BY <3>2, <4>1
      <4>2. CASE h # g
        BY <2>1, <2>3, <3>1, <3>3, <4>2
      <4>. QED  BY <4>1, <4>2
    <3>4. \A k \in Keys : DropPending(k) => DropPending(k)'
      BY <2>1, <3>1
    <3>5. \A k \in Keys : registry'[k] # None /\ registry'[k] # g => registry'[k] = registry[k]
      BY <2>1, <3>1
    <3>6. ASSUME NEW k \in Keys, (registry[k] # None /\ ~Upgrades(registry[k]))'
          PROVE  (registry[k] \in dropping /\ armed[registry[k]]) \/ DropPending(k)
      <4>1. registry'[k] # g
        BY <3>2, <3>6
      <4>2. registry'[k] = registry[k] /\ registry[k] \in Guards
        BY <3>5, <3>6, <4>1
      <4>3. ~Upgrades(registry[k])
        BY <3>3, <3>6, <4>2
      <4>. QED  BY <2>1, <3>6, <4>2, <4>3
    <3>. QED
      <4> HIDE DEF DropPending, Upgrades
      <4>. QED  BY <2>1, <2>2, <3>2, <3>4, <3>5, <3>6
  <2>. QED  BY <2>5, <2>6
<1>10. ASSUME NEW g \in Guards, CreateServer(g) PROVE NoOrphan'
  <2>1. /\ UNCHANGED <<held, dropping, mailbox, job, registry>> /\ Running /\ making = None /\ making' = g
    BY <1>10 DEF CreateServer, Registers
  <2>2. \A k \in Keys : registry[k] # None => armed'[registry[k]] = armed[registry[k]]
    <3>1. g \in Unused /\ armed' = [armed EXCEPT ![g] = TRUE]
      BY <1>10 DEF CreateServer, MakeGuard
    <3>2. ASSUME NEW k \in Keys, registry[k] # None PROVE armed'[registry[k]] = armed[registry[k]]
      <4>1. registry[k] \in Registered /\ registry[k] \in Guards /\ g \notin Registered
        BY <3>1, <3>2
      <4>2. registry[k] # g /\ registry[k] \in Guards
        <5> HIDE DEF Registered
        <5>. QED  BY <4>1
      <4>. QED  BY <3>1, <4>2
    <3>. QED  BY <3>2
  <2>8. ASSUME NEW k \in Keys, (registry[k] # None /\ ~Upgrades(registry[k]))'
        PROVE  ((registry[k] \in dropping /\ armed[registry[k]]) \/ DropPending(k))'
    <3>1. registry'[k] = registry[k] /\ registry[k] \in Guards /\ (DropPending(k) => DropPending(k)')
      BY <2>1, <2>2, <2>8
    <3>2. ~Upgrades(registry[k])
      BY <2>1, <2>2, <2>8, <3>1
    <3>3. registry[k] \in dropping => registry[k] \in dropping' /\ (armed[registry[k]] => armed'[registry[k]])
      BY <2>1, <2>2, <2>8, <3>1, <3>2
    <3>4. (registry[k] \in dropping /\ armed[registry[k]]) \/ DropPending(k)
      BY <2>1, <2>2, <2>8, <3>1, <3>2
    <3>. QED  BY <3>1, <3>3, <3>4
  <2>. QED
    <3> HIDE DEF DropPending, Upgrades
    <3>. QED  BY <2>8
<1>11. CASE CreateFails
  <2>1. /\ Running /\ UNCHANGED <<held, making, dropping, armed>>
        /\ \/ ~Running'
           \/ /\ UNCHANGED <<registry, mailbox>>
              /\ job.kind = "drop" => registry[job.key] = None
    BY <1>11 DEF CreateFails, Registers, ReplyError
  <2>. QED
    <3> HIDE DEF Running, NoOrphan
    <3>. QED  BY <2>1, QuietKeepsOrphans
<1>12. CASE FinishServer
  <2>1. /\ job.kind # "drop" /\ Running /\ dropping' = dropping /\ job.key \in Keys /\ job.from \in Clients
        /\ making \in Guards
    BY <1>12 DEF FinishServer, Message
  <2>2. \A k \in Keys : registry[k] # None /\ registry[k] # making => armed'[registry[k]] = armed[registry[k]]
    BY <1>12 DEF FinishServer
  <2>3. held[job.from] = None
    BY <1>12, <2>1 DEF FinishServer, CallInv, Asks
  <2>5. CASE Fail
    BY <2>5
  <2>6. ASSUME NEW g \in Guards, g = making, ~Fail PROVE NoOrphan'
    <3>1. /\ registry' = [registry EXCEPT ![job.key] = g] /\ held' = [held EXCEPT ![job.from] = g]
          /\ mailbox' = mailbox /\ making' = None
      BY <1>12, <2>6 DEF FinishServer, ReplyHandle
    <3>2. Upgrades(g)'
      <4>1. \E c \in Clients : held'[c] = g
        BY <2>1, <3>1
      <4>2. PICK c \in Clients : held'[c] = g
        BY <4>1
      <4>3. c \in Holders(g)'
        BY <4>2
      <4> HIDE DEF Holders
      <4>. QED  BY <4>3
    <3>3. ASSUME NEW h \in Guards, Upgrades(h) PROVE Upgrades(h)'
      <4>1. CASE h = g
        BY <3>2, <4>1
      <4>2. CASE h # g
        BY <2>1, <2>3, <2>6, <3>1, <3>3, <4>2
      <4>. QED  BY <4>1, <4>2
    <3>4. \A k \in Keys : DropPending(k) => DropPending(k)'
      BY <2>1, <3>1
    <3>5. \A k \in Keys : registry'[k] # None /\ registry'[k] # g => registry'[k] = registry[k]
      BY <2>1, <3>1
    <3>6. ASSUME NEW k \in Keys, (registry[k] # None /\ ~Upgrades(registry[k]))'
          PROVE  (registry[k] \in dropping /\ armed[registry[k]]) \/ DropPending(k)
      <4>1. registry'[k] # g
        BY <3>2, <3>6
      <4>2. registry'[k] = registry[k] /\ registry[k] \in Guards
        BY <3>5, <3>6, <4>1
      <4>3. ~Upgrades(registry[k])
        BY <3>3, <3>6, <4>2
      <4>. QED  BY <2>1, <3>6, <4>2, <4>3
    <3>. QED
      <4> HIDE DEF DropPending, Upgrades
      <4>. QED  BY <2>1, <2>2, <2>6, <3>2, <3>4, <3>5, <3>6
  <2>. QED  BY <2>1, <2>5, <2>6
<1>13. CASE RegisterRefused
  <2>1. CASE Fail
    BY <2>1
  <2>2. CASE ~Fail
    <3>1. /\ UNCHANGED <<held, dropping, registry>> /\ Running /\ making' = None /\ job.kind # "drop"
      BY <1>13, <2>2 DEF RegisterRefused
    <3>2. \A k \in Keys : registry[k] # None => registry[k] # making /\ armed'[registry[k]] = armed[registry[k]]
      <4>1. making \notin Registered /\ making \in Guards
        BY <1>13 DEF RegisterRefused
      <4>2. armed' = [armed EXCEPT ![making] = TRUE]
        BY <1>13 DEF RegisterRefused, FreeGuard
      <4>3. ASSUME NEW k \in Keys, registry[k] # None
            PROVE  registry[k] # making /\ armed'[registry[k]] = armed[registry[k]]
        <5>1. registry[k] \in Registered /\ registry[k] \in Guards
          BY <4>3
        <5>2. registry[k] # making
          <6> HIDE DEF Registered
          <6>. QED  BY <4>1, <5>1
        <5>. QED  BY <4>2, <5>1, <5>2
      <4>. QED  BY <4>3
    <3>3. \A k \in Keys : DropPending(k) => DropPending(k)'
      BY <1>13, <2>2 DEF RegisterRefused
    <3>4. \A k \in Keys : registry[k] # None /\ Upgrades(registry[k]) => Upgrades(registry[k])'
      BY <3>1, <3>2
    <3>. QED
      <4> HIDE DEF DropPending, Upgrades
      <4>. QED  BY <3>1, <3>2, <3>3, <3>4
  <2>. QED  BY <2>1, <2>2
<1>14. CASE UnregisterClient
  <2>1. /\ job.key \in Keys /\ Running /\ registry' = [registry EXCEPT ![job.key] = None]
        /\ UNCHANGED <<held, dropping, armed, mailbox>> /\ making = None /\ making' = None
    BY <1>14 DEF UnregisterClient, Message
  <2>8. ASSUME NEW k \in Keys, (registry[k] # None /\ ~Upgrades(registry[k]))'
        PROVE  ((registry[k] \in dropping /\ armed[registry[k]]) \/ DropPending(k))'
    <3>1. registry'[k] = registry[k] /\ registry[k] \in Guards /\ (DropPending(k) => DropPending(k)')
      BY <2>1, <2>8
    <3>2. ~Upgrades(registry[k])
      BY <2>1, <2>8, <3>1
    <3>3. registry[k] \in dropping => registry[k] \in dropping' /\ (armed[registry[k]] => armed'[registry[k]])
      BY <2>1, <2>8, <3>1, <3>2
    <3>4. (registry[k] \in dropping /\ armed[registry[k]]) \/ DropPending(k)
      BY <2>1, <2>8, <3>1, <3>2
    <3>. QED  BY <3>1, <3>3, <3>4
  <2>. QED
    <3> HIDE DEF DropPending, Upgrades
    <3>. QED  BY <2>8
<1>15. CASE UnregisterService
  <2>1. /\ job.key \in Keys /\ Running /\ registry' = [registry EXCEPT ![job.key] = None]
        /\ UNCHANGED <<held, making, dropping, mailbox, job>>
    BY <1>15 DEF UnregisterService, Message
  <2>2. \A h \in Guards : ~Upgrades(h) => armed'[h] = armed[h]
    BY <1>15 DEF UnregisterService, Disarmed
  <2>8. ASSUME NEW k \in Keys, (registry[k] # None /\ ~Upgrades(registry[k]))'
        PROVE  ((registry[k] \in dropping /\ armed[registry[k]]) \/ DropPending(k))'
    <3>1. registry'[k] = registry[k] /\ registry[k] \in Guards /\ (DropPending(k) => DropPending(k)')
      BY <2>1, <2>2, <2>8
    <3>2. ~Upgrades(registry[k])
      BY <2>1, <2>2, <2>8, <3>1
    <3>3. registry[k] \in dropping => registry[k] \in dropping' /\ (armed[registry[k]] => armed'[registry[k]])
      BY <2>1, <2>2, <2>8, <3>1, <3>2
    <3>4. (registry[k] \in dropping /\ armed[registry[k]]) \/ DropPending(k)
      BY <2>1, <2>2, <2>8, <3>1, <3>2
    <3>. QED  BY <3>1, <3>3, <3>4
  <2>. QED
    <3> HIDE DEF DropPending, Upgrades
    <3>. QED  BY <2>8
<1>16. CASE FinishUnregister
  <2>1. /\ Running /\ UNCHANGED <<held, making, dropping, armed>>
        /\ \/ ~Running'
           \/ /\ UNCHANGED <<registry, mailbox>>
              /\ job.kind = "drop" => registry[job.key] = None
    BY <1>16 DEF FinishUnregister, Existing
  <2>. QED
    <3> HIDE DEF Running, NoOrphan
    <3>. QED  BY <2>1, QuietKeepsOrphans
<1>17. CASE RequestStop
  BY <1>17 DEF RequestStop
<1>18. CASE BeginPostStop
  <2>1. /\ UNCHANGED <<held, making, dropping, mailbox, job, armed>> /\ Running
        /\ \A k \in Keys : registry'[k] # None => registry'[k] = registry[k]
    BY <1>18 DEF BeginPostStop
  <2>8. ASSUME NEW k \in Keys, (registry[k] # None /\ ~Upgrades(registry[k]))'
        PROVE  ((registry[k] \in dropping /\ armed[registry[k]]) \/ DropPending(k))'
    <3>1. registry'[k] = registry[k] /\ registry[k] \in Guards /\ (DropPending(k) => DropPending(k)')
      BY <2>1, <2>8
    <3>2. ~Upgrades(registry[k])
      BY <2>1, <2>8, <3>1
    <3>3. registry[k] \in dropping => registry[k] \in dropping' /\ (armed[registry[k]] => armed'[registry[k]])
      BY <2>1, <2>8, <3>1, <3>2
    <3>4. (registry[k] \in dropping /\ armed[registry[k]]) \/ DropPending(k)
      BY <2>1, <2>8, <3>1, <3>2
    <3>. QED  BY <3>1, <3>3, <3>4
  <2>. QED
    <3> HIDE DEF DropPending, Upgrades
    <3>. QED  BY <2>8
<1>19. ASSUME NEW d \in draining, PostStopCleanup(d) PROVE NoOrphan'
  <2>1. UNCHANGED <<held, making, dropping, mailbox, job, registry>> /\ Running
    BY <1>19 DEF PostStopCleanup
  <2>2. \A h \in Guards : ~Upgrades(h) => armed'[h] = armed[h]
    BY <1>19 DEF PostStopCleanup, Disarmed
  <2>8. ASSUME NEW k \in Keys, (registry[k] # None /\ ~Upgrades(registry[k]))'
        PROVE  ((registry[k] \in dropping /\ armed[registry[k]]) \/ DropPending(k))'
    <3>1. registry'[k] = registry[k] /\ registry[k] \in Guards /\ (DropPending(k) => DropPending(k)')
      BY <2>1, <2>2, <2>8
    <3>2. ~Upgrades(registry[k])
      BY <2>1, <2>2, <2>8, <3>1
    <3>3. registry[k] \in dropping => registry[k] \in dropping' /\ (armed[registry[k]] => armed'[registry[k]])
      BY <2>1, <2>2, <2>8, <3>1, <3>2
    <3>4. (registry[k] \in dropping /\ armed[registry[k]]) \/ DropPending(k)
      BY <2>1, <2>2, <2>8, <3>1, <3>2
    <3>. QED  BY <3>1, <3>3, <3>4
  <2>. QED
    <3> HIDE DEF DropPending, Upgrades
    <3>. QED  BY <2>8
<1>20. CASE PostStopCleaned
  BY <1>20 DEF PostStopCleaned, Returned
<1>21. CASE Stopped
  BY <1>21 DEF Stopped
<1>22. CASE CallAfterEnd \/ UNCHANGED vars
  BY <1>22 DEF CallAfterEnd, vars
<1>. QED
  BY <1>1, <1>2, <1>3, <1>4, <1>5, <1>6, <1>7, <1>8, <1>9, <1>10, <1>11, <1>12, <1>13, <1>14,
     <1>15, <1>16, <1>17, <1>18, <1>19, <1>20, <1>21, <1>22
  DEF Next, Actor, User

(* An entry whose last handle is gone is never forgotten, and while a handle *)
(* of a server is held its guard is armed exactly as long as the registry,   *)
(* or the shutdown that has emptied it, still has the server; a client's is  *)
(* armed until the actor stops.                                              *)
THEOREM ServiceGuardsTracked == Spec => []GuardsTracked
<1>1. Init => NoOrphan /\ ArmedIffTracked /\ CallInv
  BY KeyFacts DEF Init, NoOrphan, ArmedIffTracked, CallInv, Asks, NoJob
<1>2. Base /\ Base' /\ CallInv /\ [Next]_vars => CallInv'
  BY CallNext
<1>3. Base /\ Base' /\ CallInv /\ NoOrphan /\ [Next]_vars => NoOrphan'
  BY OrphanNext
<1>4. Base /\ Base' /\ ArmedIffTracked /\ [Next]_vars => ArmedIffTracked'
  BY ArmedNext
<1>5. Base /\ NoOrphan /\ ArmedIffTracked => GuardsTracked
  BY DEF Base, NoOrphan, ArmedIffTracked, GuardsTracked
<1>. QED  BY <1>1, <1>2, <1>3, <1>4, <1>5, ServiceBase, PTL DEF Spec
=============================================================================
