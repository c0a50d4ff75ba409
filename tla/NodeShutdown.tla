----------------------------- MODULE NodeShutdown -----------------------------
(***************************************************************************)
(* How a node shuts down (node/mod.rs): the users' handles and the API     *)
(* handler that trigger it, the task Node::new spawns, which stops the     *)
(* four actors one after another, and the shutdown manager they share      *)
(* (crate async_shutdown).  An actor is here as the other modules leave it *)
(* to be seen: it runs, may fail, and once asked to stop ends unless it is *)
(* stuck (SubscriberActor!RequestsEnd).  Names that every specification    *)
(* has begin with Node here, for proofs about this one and another.        *)
(***************************************************************************)
EXTENDS Sequences, FiniteSets, SequencesExt

CONSTANTS
    Order,      \* the actors, in the order they are stopped
    MayHang,    \* actors that a peer without an answer may hold up for ever
    Users,      \* user tasks with a handle to the node
    Waiters     \* those that wait for the shutdown as well

ASSUME NodeAssumption ==
    /\ Order \in Seq(Range(Order)) /\ IsInjective(Order)
    /\ MayHang \subseteq Range(Order) /\ Waiters \subseteq Users

VARIABLES
    actor,      \* state of each actor
    nodeTask,   \* where the spawned task is
    todo,       \* the actors it has yet to stop
    token,      \* its shutdown-delay token
    api,        \* the XML-RPC server
    triggered,  \* the shutdown manager has a shutdown reason
    user        \* where each user task is in its call

nodeVars == <<actor, nodeTask, todo, token, api, triggered, user>>

-----------------------------------------------------------------------------
Actors == Range(Order)

Gone(a) == actor[a] \in {"stopped", "failed"}

(* The shutdown manager: complete once triggered and no token delays it. *)
Completed == triggered /\ token # "held"

-----------------------------------------------------------------------------
NodeInit ==
    /\ actor = [a \in Actors |-> "running"]
    /\ nodeTask = "spawned" /\ todo = Order /\ token = "none"
    /\ api = "bound"
    /\ triggered = FALSE
    /\ user = [u \in Users |-> "idle"]

-----------------------------------------------------------------------------
(* Node::shutdown and shutdown_and_wait: look whether a shutdown has been    *)
(* triggered, and if not trigger it, which fails if another was faster.      *)

Becomes(u, state) == user' = [user EXCEPT ![u] = state]

Returns(u) == Becomes(u, IF u \in Waiters THEN "waiting" ELSE "done")

Check(u) ==
    /\ user[u] = "idle"
    /\ IF triggered THEN Returns(u) ELSE Becomes(u, "checked")
    /\ UNCHANGED <<actor, nodeTask, todo, token, api, triggered>>

Trigger(u) ==
    /\ user[u] = "checked"
    /\ IF triggered THEN Becomes(u, "error") ELSE Returns(u)
    /\ triggered' = TRUE
    /\ UNCHANGED <<actor, nodeTask, todo, token, api>>

(* wait_shutdown_complete *)
Waited(u) ==
    /\ user[u] = "waiting" /\ Completed
    /\ Becomes(u, "done")
    /\ UNCHANGED <<actor, nodeTask, todo, token, api, triggered>>

(* ShutdownHandler: triggers too, and only warns if it was not the first. *)
ApiShutdown ==
    /\ api = "serving"
    /\ triggered' = TRUE
    /\ UNCHANGED <<actor, nodeTask, todo, token, api, user>>

-----------------------------------------------------------------------------
(* The task of Node::new. *)

(* Fault: the token is dropped where it is taken (let _ = ...). *)
TokenDropped == "released"

(* delay_shutdown_token().ok(): none if the shutdown is already complete. *)
Token == IF Completed THEN "none" ELSE "held"

Start ==
    /\ nodeTask = "spawned"
    /\ token' = Token
    /\ nodeTask' = "select" /\ api' = "serving"
    /\ UNCHANGED <<actor, todo, triggered, user>>

(* select!: the shutdown has been triggered; then notify_waiters. *)
SeeTrigger ==
    /\ nodeTask = "select" /\ triggered
    /\ nodeTask' = "stop" /\ api' = "ended"
    /\ UNCHANGED <<actor, todo, token, triggered, user>>

(* select!: the API server has failed; nothing triggers the shutdown. *)
ServeFails ==
    /\ nodeTask = "select" /\ api = "serving"
    /\ nodeTask' = "stop" /\ api' = "ended"
    /\ UNCHANGED <<actor, todo, token, triggered, user>>

(* stop_and_wait: the signal is sent, and waited for without a timeout. *)
StopActor ==
    /\ nodeTask = "stop" /\ todo # <<>>
    /\ ~Gone(Head(todo))
    /\ nodeTask' = "await"
    /\ UNCHANGED <<actor, todo, token, api, triggered, user>>

(* Fault: the error ends the loop. *)
RestIfStopped == IF actor[Head(todo)] = "failed" THEN <<>> ELSE Tail(todo)

Rest == Tail(todo)

(* The actor is gone, now or from the start (a warning): on to the next. *)
ActorStopped ==
    /\ nodeTask \in {"stop", "await"} /\ todo # <<>>
    /\ Gone(Head(todo))
    /\ nodeTask' = "stop" /\ todo' = Rest
    /\ UNCHANGED <<actor, token, api, triggered, user>>

EndTask ==
    /\ nodeTask = "stop" /\ todo = <<>>
    /\ nodeTask' = "ended"
    /\ token' = IF token = "held" THEN "released" ELSE token
    /\ UNCHANGED <<actor, todo, api, triggered, user>>

-----------------------------------------------------------------------------
(* The actors. *)

(* The stop is seen between two messages, and post_stop runs. *)
Stop(a) ==
    /\ nodeTask = "await" /\ a = Head(todo) /\ actor[a] = "running"
    /\ actor' = [actor EXCEPT ![a] = "stopped"]
    /\ UNCHANGED <<nodeTask, todo, token, api, triggered, user>>

(* An error in a handler ends the actor without post_stop. *)
Fail(a) ==
    /\ actor[a] = "running"
    /\ actor' = [actor EXCEPT ![a] = "failed"]
    /\ UNCHANGED <<nodeTask, todo, token, api, triggered, user>>

Hang(a) ==
    /\ a \in MayHang /\ actor[a] = "running"
    /\ actor' = [actor EXCEPT ![a] = "stuck"]
    /\ UNCHANGED <<nodeTask, todo, token, api, triggered, user>>

Resume(a) ==
    /\ actor[a] = "stuck"
    /\ actor' = [actor EXCEPT ![a] = "running"]
    /\ UNCHANGED <<nodeTask, todo, token, api, triggered, user>>

NothingLeft == nodeTask = "ended" /\ UNCHANGED nodeVars

-----------------------------------------------------------------------------
ShutdownTask == Start \/ SeeTrigger \/ StopActor \/ ActorStopped \/ EndTask

NodeNext ==
    \/ ShutdownTask \/ ServeFails \/ ApiShutdown \/ NothingLeft
    \/ \E u \in Users : Check(u) \/ Trigger(u) \/ Waited(u)
    \/ \E a \in Actors : Stop(a) \/ Fail(a) \/ Hang(a) \/ Resume(a)

NodeSpec == NodeInit /\ [][NodeNext]_nodeVars

(* The runtime polls the task, the actors and the users' calls.  Nobody is   *)
(* obliged to trigger a shutdown, nor a stuck actor to resume.               *)
NodeFairness ==
    /\ WF_nodeVars(ShutdownTask)
    /\ \A u \in Users : WF_nodeVars(Trigger(u)) /\ WF_nodeVars(Waited(u))
    /\ \A a \in Actors : WF_nodeVars(Stop(a))

NodeFairSpec == NodeSpec /\ NodeFairness

-----------------------------------------------------------------------------
NodeTypeOK ==
    /\ actor \in [Actors -> {"running", "stuck", "stopped", "failed"}]
    /\ nodeTask \in {"spawned", "select", "stop", "await", "ended"}
    /\ \E n \in 0..Len(Order) : todo = SubSeq(Order, n + 1, Len(Order))
    /\ token \in {"none", "held", "released"}
    /\ api \in {"bound", "serving", "ended"}
    /\ triggered \in BOOLEAN
    /\ user \in [Users -> {"idle", "checked", "waiting", "done", "error"}]

AllGone == \A a \in Actors : Gone(a)

(* "Check if the node has been shut down", "a future that resolves once the  *)
(* node has completely shut down" (193, 226): the shutdown is not complete   *)
(* before every actor has gone.                                              *)
CompleteMeansGone == Completed => AllGone

(* That holds if the task has come to take its token before the shutdown was *)
(* triggered, whichever actors fail and whether or not the API server does.  *)
TokenDelays == NodeTypeOK /\ (Completed /\ token = "released" => AllGone)

(* Once a shutdown is triggered, or the API server has failed, every actor   *)
(* is stopped, also after one that has failed, and every call of shutdown    *)
(* returns: only a stuck actor can keep the others running (153-162).        *)
ShutdownEnds ==
    LET Stuck == \E a \in Actors : actor[a] = "stuck" IN
    /\ (triggered \/ api = "ended") ~> ((AllGone /\ (triggered => Completed)) \/ Stuck)
    /\ \A u \in Users : (user[u] \in {"checked", "waiting"})
                            ~> (user[u] \in {"done", "error"} \/ Stuck)
=============================================================================
