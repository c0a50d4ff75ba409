------------------------------ MODULE ServiceCall ------------------------------
(***************************************************************************)
(* Service calls (tcpros/service/client.rs and server.rs): the task of one *)
(* service client link, which takes the calls of all its handles in order, *)
(* and the servers of the service, each started after the one before it    *)
(* has been withdrawn (node/actors/service.rs) or has crashed.             *)
(*                                                                         *)
(* A call is its number.  A connection bears the number of the call it was *)
(* opened for: a link that is not persistent opens one for each call.      *)
(***************************************************************************)
EXTENDS Naturals, Sequences

CONSTANTS
    MaxCalls,   \* bound: calls made on the link
    MaxStarts,  \* bound: how often the service is started
    MaxSilent,  \* bound: other clients that connect and send nothing
    MayBreak    \* whether connections and calls to the master may fail

ASSUME ServiceAssumption ==
    /\ {MaxCalls, MaxStarts, MaxSilent} \subseteq Nat
    /\ MayBreak \in BOOLEAN

VARIABLES
    persistent, \* the link's flag
    call,       \* each call, as its caller sees it
    answer,     \* the call whose response each call was answered with
    excused,    \* history: calls that met with a failure of something else
    queue,      \* rpc_rx
    linked,     \* the link is in the registry: its cancel token is not set
    link,       \* where the link's task is
    cur,        \* the call it is handling
    target,     \* the server it has looked up
    probe,      \* its probe connection
    conn,       \* connection_state, or the connection in use
    starts,     \* number of servers started; the last may be up
    server,     \* where the service actor is with the last server
    master,     \* the server the master knows
    token,      \* servers whose cancel token is set
    listener,   \* each server's listener task
    backlog,    \* connections it has not accepted
    silent,     \* clients so far that send nothing
    task,       \* the server's task of each connection
    at,         \* the server each connection leads to
    broken,     \* connections that have failed
    inbox,      \* requests on the way to the server
    outbox,     \* responses on the way to the client
    req,        \* the request a server's task is handling
    runs        \* how often the callback was run for each call

callVars   == <<call, answer, excused>>
linkVars   == <<queue, linked, link, cur, target, probe, conn>>
serverVars == <<starts, server, master, token>>
listenVars == <<listener, backlog, silent>>
sideVars   == <<task, at, broken, inbox>>
connVars   == <<sideVars, outbox>>
taskVars   == <<req, runs>>
vars == <<persistent, callVars, linkVars, serverVars, listenVars, connVars, taskVars>>

-----------------------------------------------------------------------------
Calls   == 1..MaxCalls
Servers == 1..MaxStarts
Waiting == {r \in Calls : call[r] = "waiting"}

(* The server's side of connections is closed, if it was open; what it has   *)
(* written can still be read.                                                *)
Close(conns) ==
    /\ task' = [r \in Calls |-> IF r \in conns THEN "ended" ELSE task[r]]
    /\ at' = [r \in Calls |-> IF r \in conns THEN 0 ELSE at[r]]
    /\ inbox' = [r \in Calls |-> IF r \in conns THEN <<>> ELSE inbox[r]]
    /\ broken' = broken \ conns

Excuse(calls) == excused' = IF persistent THEN excused ELSE excused \cup calls

Init ==
    /\ persistent \in BOOLEAN
    /\ call = [r \in Calls |-> "new"] /\ answer = [r \in Calls |-> 0] /\ excused = {}
    /\ queue = <<>> /\ linked = TRUE /\ link = "idle" /\ cur = 0 /\ target = 0
    /\ probe = "none" /\ conn = 0
    /\ starts = 0 /\ server = "none" /\ master = 0 /\ token = {}
    /\ listener = [k \in Servers |-> "none"] /\ backlog = [k \in Servers |-> <<>>] /\ silent = 0
    /\ task = [r \in Calls |-> "none"] /\ at = [r \in Calls |-> 0] /\ broken = {}
    /\ inbox = [r \in Calls |-> <<>>] /\ outbox = [r \in Calls |-> <<>>]
    /\ req = [r \in Calls |-> 0] /\ runs = [r \in Calls |-> 0]

-----------------------------------------------------------------------------
(* Callers.  The link's task ended: its receiver is gone and the send fails. *)

Call(r) ==
    /\ call[r] = "new" /\ \A q \in 1..r - 1 : call[q] # "new"
    /\ IF link = "stopped"
       THEN call' = [call EXCEPT ![r] = "err"] /\ UNCHANGED queue
       ELSE call' = [call EXCEPT ![r] = "waiting"] /\ queue' = Append(queue, r)
    /\ Excuse(IF server = "up" /\ linked THEN {} ELSE {r})
    /\ UNCHANGED <<persistent, answer, linked, link, cur, target, probe, conn, serverVars,
                   listenVars, connVars, taskVars>>

(* The service actor drops the link: DropClient or post_stop. *)
DropLink ==
    /\ linked
    /\ linked' = FALSE
    /\ Excuse(Waiting)
    /\ UNCHANGED <<persistent, call, answer, queue, link, cur, target, probe, conn, serverVars,
                   listenVars, connVars, taskVars>>

-----------------------------------------------------------------------------
(* The link's task.                                                          *)

Take ==
    /\ link = "idle" /\ queue # <<>>
    /\ cur' = Head(queue) /\ queue' = Tail(queue)
    /\ link' = IF conn = 0 THEN "lookup" ELSE "send"
    /\ UNCHANGED <<persistent, callVars, linked, target, probe, conn, serverVars, listenVars,
                   connVars, taskVars>>

Queued == {queue[i] : i \in DOMAIN queue}

(* The receiver is dropped with the messages in it, and their reply ports. *)
LinkStops ==
    /\ link = "idle" /\ ~linked
    /\ link' = "stopped" /\ queue' = <<>> /\ conn' = 0
    /\ call' = [r \in Calls |-> IF r \in Queued THEN "err" ELSE call[r]]
    /\ UNCHANGED <<persistent, answer, excused, linked, cur, target, probe, serverVars,
                   listenVars, connVars, taskVars>>

(* Fault: the connection is kept whether or not the link is persistent. *)
KeepsAlways == TRUE

Keeps == persistent

(* The result goes to the caller, or nowhere if that has given up, which     *)
(* makes no difference to the link.  An error in connecting leaves no        *)
(* connection, one in the exchange does.                                     *)
Finish(status, a) ==
    /\ call' = [call EXCEPT ![cur] = status]
    /\ answer' = [answer EXCEPT ![cur] = a]
    /\ link' = "idle" /\ cur' = 0 /\ target' = 0 /\ probe' = "none"
    /\ conn' = IF link = "wait" /\ Keeps THEN conn ELSE 0
    /\ UNCHANGED <<queue, linked>>

Lookup ==
    /\ link = "lookup" /\ master # 0
    /\ target' = master /\ link' = "probe"
    /\ UNCHANGED <<persistent, callVars, queue, linked, cur, probe, conn, serverVars, listenVars,
                   connVars, taskVars>>

LookupFails ==
    /\ link = "lookup"
    /\ \/ master = 0 /\ UNCHANGED excused
       \/ MayBreak /\ Excuse({cur})
    /\ Finish("err", 0)
    /\ UNCHANGED <<persistent, serverVars, listenVars, connVars, taskVars>>

Listening(k) == listener[k] \in {"select", "busy"}

Probe ==
    /\ link = "probe" /\ Listening(target)
    /\ link' = "probing" /\ probe' = "sent"
    /\ backlog' = [backlog EXCEPT ![target] = Append(@, <<"probe", cur>>)]
    /\ UNCHANGED <<persistent, callVars, queue, linked, cur, target, conn, serverVars, listener,
                   silent, connVars, taskVars>>

(* The probe's answer is compatible: the connection for the call. *)
Connect ==
    /\ link = "probing" /\ probe = "ok" /\ Listening(target)
    /\ link' = "handshake" /\ probe' = "none" /\ conn' = cur
    /\ backlog' = [backlog EXCEPT ![target] = Append(@, <<"call", cur>>)]
    /\ task' = [task EXCEPT ![cur] = "backlog"] /\ at' = [at EXCEPT ![cur] = target]
    /\ UNCHANGED <<persistent, callVars, queue, linked, cur, target, serverVars, listener, silent,
                   broken, inbox, outbox, taskVars>>

ConnectFails ==
    /\ \/ link = "probe" /\ ~Listening(target)
       \/ link = "probing" /\ (probe = "closed" \/ (probe = "ok" /\ ~Listening(target)))
       \/ link = "handshake" /\ (task[conn] = "ended" \/ conn \in broken)
    /\ Finish("err", 0)
    /\ UNCHANGED <<persistent, excused, serverVars, listenVars, connVars, taskVars>>

HandshakeDone ==
    /\ link = "handshake" /\ task[conn] \notin {"backlog", "ended"} /\ conn \notin broken
    /\ link' = "send"
    /\ UNCHANGED <<persistent, callVars, queue, linked, cur, target, probe, conn, serverVars,
                   listenVars, connVars, taskVars>>

(* Fault: the end of the stream is not an error. *)
HungUpIfBroken == conn \in broken

HungUp == conn \in broken \/ task[conn] = "ended"

(* A write to a connection that the other side has closed may succeed; the   *)
(* read that follows then fails.                                             *)
Send ==
    /\ link = "send"
    /\ link' = "wait"
    /\ inbox' = IF HungUp THEN inbox ELSE [inbox EXCEPT ![conn] = Append(@, cur)]
    /\ UNCHANGED <<persistent, callVars, queue, linked, cur, target, probe, conn, serverVars,
                   listenVars, task, at, broken, outbox, taskVars>>

(* Fault: the error message that follows a failure code is left unread. *)
RestOnSuccess(out) == IF Head(out)[1] = "ok" THEN Tail(out) ELSE out

Rest(out) == Tail(out)

Receive ==
    /\ link = "wait" /\ outbox[conn] # <<>>
    /\ Finish(Head(outbox[conn])[1], Head(outbox[conn])[2])
    /\ outbox' = [outbox EXCEPT ![conn] = Rest(@)]
    /\ UNCHANGED <<persistent, excused, serverVars, listenVars, task, at, broken, inbox, taskVars>>

(* Fault: a call over a connection that was kept is tried once more. *)
EndsIfFirst == conn = cur

Ends == TRUE

ReceiveFails ==
    /\ link = "wait" /\ outbox[conn] = <<>> /\ HungUp
    /\ IF Ends
       THEN Finish("err", 0)
       ELSE /\ link' = "lookup" /\ conn' = 0
            /\ UNCHANGED <<call, answer, queue, linked, cur, target, probe>>
    /\ UNCHANGED <<persistent, excused, serverVars, listenVars, connVars, taskVars>>

-----------------------------------------------------------------------------
(* The service actor of the server's node, as far as the last server goes:   *)
(* register_service, then unregister_service, or the end of the process.     *)

Start ==
    /\ server = "none" /\ starts < MaxStarts
    /\ starts' = starts + 1 /\ server' = "registering"
    /\ listener' = [listener EXCEPT ![starts'] = "select"]
    /\ UNCHANGED <<persistent, callVars, linkVars, master, token, backlog, silent, connVars,
                   taskVars>>

Registered ==
    /\ server = "registering"
    /\ server' = "up" /\ master' = starts
    /\ UNCHANGED <<persistent, callVars, linkVars, starts, token, listenVars, connVars, taskVars>>

(* The provider is dropped again, though the master may know of it. *)
RegisterFails ==
    /\ server = "registering" /\ MayBreak
    /\ server' = "none" /\ token' = token \cup {starts}
    /\ master' \in {master, starts}
    /\ Excuse(Waiting)
    /\ UNCHANGED <<persistent, call, answer, linkVars, starts, listenVars, connVars, taskVars>>

Withdraw ==
    /\ server = "up"
    /\ server' = "unregistering"
    /\ Excuse(Waiting)
    /\ UNCHANGED <<persistent, call, answer, linkVars, starts, master, token, listenVars, connVars,
                   taskVars>>

(* The provider is dropped when the master has answered, whatever it says. *)
Unregistered ==
    /\ server = "unregistering"
    /\ server' = "none" /\ token' = token \cup {starts}
    /\ \/ master' = IF master = starts THEN 0 ELSE master
       \/ MayBreak /\ UNCHANGED master
    /\ UNCHANGED <<persistent, callVars, linkVars, starts, listenVars, connVars, taskVars>>

(* The process of the servers dies: the master is not told. *)
Crash ==
    /\ MayBreak /\ server # "none"
    /\ server' = "none"
    /\ Excuse(Waiting)
    /\ token' = 1..starts
    /\ listener' = [k \in Servers |-> IF listener[k] = "none" THEN "none" ELSE "ended"]
    /\ backlog' = [k \in Servers |-> <<>>]
    /\ probe' = IF probe = "sent" THEN "closed" ELSE probe
    /\ Close({r \in Calls : task[r] # "none"})
    /\ req' = [r \in Calls |-> 0]
    /\ UNCHANGED <<persistent, call, answer, queue, linked, link, cur, target, conn, starts, master,
                   silent, outbox, runs>>

-----------------------------------------------------------------------------
(* A server's listener task: the connections it has not accepted, in order;  *)
(* a client that sends no header keeps it busy, and uncancelled, till it     *)
(* goes.  Our link writes its header as soon as it is connected.             *)

Closed(k) == {backlog[k][i] : i \in DOMAIN backlog[k]}

Accept(k) ==
    /\ listener[k] = "select" /\ backlog[k] # <<>>
    /\ backlog' = [backlog EXCEPT ![k] = Tail(@)]
    /\ LET c == Head(backlog[k]) IN
       \/ /\ c = <<"silent">>
          /\ listener' = [listener EXCEPT ![k] = "busy"]
          /\ UNCHANGED <<probe, task>>
       \/ /\ c[1] = "probe" /\ probe' = "ok"
          /\ UNCHANGED <<listener, task>>
       \/ /\ c[1] = "call" /\ task' = [task EXCEPT ![c[2]] = "read"]
          /\ UNCHANGED <<listener, probe>>
    /\ UNCHANGED <<persistent, callVars, queue, linked, link, cur, target, conn, serverVars, silent,
                   at, broken, inbox, outbox, taskVars>>

(* Connections that have not been accepted are closed with the listener. *)
ListenerEnds(k) ==
    /\ listener[k] = "select" /\ k \in token
    /\ listener' = [listener EXCEPT ![k] = "ended"]
    /\ backlog' = [backlog EXCEPT ![k] = <<>>]
    /\ probe' = IF <<"probe", cur>> \in Closed(k) THEN "closed" ELSE probe
    /\ Close({r \in Calls : <<"call", r>> \in Closed(k)})
    /\ UNCHANGED <<persistent, callVars, queue, linked, link, cur, target, conn, serverVars, silent,
                   outbox, taskVars>>

SilentConnects(k) ==
    /\ Listening(k) /\ silent < MaxSilent
    /\ silent' = silent + 1
    /\ backlog' = [backlog EXCEPT ![k] = Append(@, <<"silent">>)]
    /\ UNCHANGED <<persistent, callVars, linkVars, serverVars, listener, connVars, taskVars>>

SilentLeaves(k) ==
    /\ listener[k] = "busy"
    /\ listener' = [listener EXCEPT ![k] = "select"]
    /\ UNCHANGED <<persistent, callVars, linkVars, serverVars, backlog, silent, connVars, taskVars>>

-----------------------------------------------------------------------------
(* A server's task for a connection.                                         *)

ReadRequest(r) ==
    /\ task[r] = "read" /\ inbox[r] # <<>> /\ r \notin broken
    /\ task' = [task EXCEPT ![r] = "callback"]
    /\ req' = [req EXCEPT ![r] = Head(inbox[r])]
    /\ inbox' = [inbox EXCEPT ![r] = Tail(@)]
    /\ runs' = [runs EXCEPT ![Head(inbox[r])] = @ + 1]
    /\ UNCHANGED <<persistent, callVars, linkVars, serverVars, listenVars, at, broken, outbox>>

(* The callback returns a response or an error, which is written.            *)
Respond(r, status) ==
    /\ task[r] = "callback"
    /\ req' = [req EXCEPT ![r] = 0]
    /\ outbox' = IF r \in broken THEN outbox
                 ELSE [outbox EXCEPT ![r] = Append(@, <<status, req[r]>>)]
    /\ IF persistent /\ r \notin broken
       THEN task' = [task EXCEPT ![r] = "read"] /\ UNCHANGED <<at, broken, inbox>>
       ELSE Close({r})
    /\ UNCHANGED <<persistent, callVars, linkVars, serverVars, listenVars, runs>>

Leaves(r) == at[r] \in token \/ r \in broken \/ conn # r

LeaveLoop(r) ==
    /\ task[r] = "read" /\ Leaves(r)
    /\ Close({r})
    /\ UNCHANGED <<persistent, callVars, linkVars, serverVars, listenVars, outbox, taskVars>>

(* The connection fails, for both sides. *)
Break(r) ==
    /\ MayBreak /\ task[r] \notin {"none", "ended"} /\ r \notin broken
    /\ broken' = broken \cup {r}
    /\ inbox' = [inbox EXCEPT ![r] = <<>>] /\ outbox' = [outbox EXCEPT ![r] = <<>>]
    /\ Excuse(IF conn = r THEN Waiting ELSE {})
    /\ UNCHANGED <<persistent, call, answer, linkVars, serverVars, listenVars, task, at, taskVars>>

-----------------------------------------------------------------------------
Link ==
    \/ Take \/ Lookup \/ LookupFails \/ Probe \/ Connect \/ ConnectFails \/ HandshakeDone
    \/ Send \/ Receive \/ ReceiveFails

Actor == Start \/ Registered \/ RegisterFails \/ Withdraw \/ Unregistered \/ Crash

Task(r) == ReadRequest(r) \/ LeaveLoop(r) \/ \E status \in {"ok", "fail"} : Respond(r, status)

Quiescent ==
    /\ link = "stopped" /\ \A r \in Calls : call[r] # "new"
    /\ server = "none" /\ starts = MaxStarts
    /\ UNCHANGED vars

Next ==
    \/ Link \/ LinkStops \/ DropLink \/ Actor
    \/ \E r \in Calls : Call(r) \/ Task(r) \/ Break(r)
    \/ \E k \in Servers : Accept(k) \/ ListenerEnds(k) \/ SilentConnects(k) \/ SilentLeaves(k)
    \/ Quiescent

Spec == Init /\ [][Next]_vars

(* The runtime polls every task that can go on, the master answers, the      *)
(* user's callback returns, and a client that says nothing goes: there is no *)
(* timeout.  Since the work is bounded it is enough that something of this   *)
(* goes on as long as it can.                                                *)
Progress ==
    \/ Link \/ LinkStops \/ Registered \/ Unregistered
    \/ \E r \in Calls : Task(r)
    \/ \E k \in Servers : Accept(k) \/ ListenerEnds(k) \/ SilentLeaves(k)

Fairness == WF_vars(Progress)

FairSpec == Spec /\ Fairness

-----------------------------------------------------------------------------
TypeOK ==
    /\ persistent \in BOOLEAN
    /\ call \in [Calls -> {"new", "waiting", "ok", "fail", "err"}]
    /\ answer \in [Calls -> 0..MaxCalls] /\ excused \in SUBSET Calls
    /\ queue \in Seq(Calls) /\ linked \in BOOLEAN
    /\ link \in {"idle", "lookup", "probe", "probing", "handshake", "send", "wait", "stopped"}
    /\ cur \in 0..MaxCalls /\ conn \in 0..MaxCalls /\ target \in 0..MaxStarts
    /\ probe \in {"none", "sent", "ok", "closed"}
    /\ starts \in 0..MaxStarts /\ master \in 0..MaxStarts /\ token \in SUBSET Servers
    /\ server \in {"none", "registering", "up", "unregistering"}
    /\ listener \in [Servers -> {"none", "select", "busy", "ended"}]
    /\ silent \in 0..MaxSilent
    /\ task \in [Calls -> {"none", "backlog", "read", "callback", "ended"}]
    /\ at \in [Calls -> 0..MaxStarts] /\ broken \in SUBSET Calls
    /\ inbox \in [Calls -> Seq(Calls)]
    /\ outbox \in [Calls -> Seq({"ok", "fail"} \X Calls)]
    /\ req \in [Calls -> 0..MaxCalls] /\ runs \in [Calls -> 0..2]
    /\ \A r \in Waiting : r = cur \/ \E i \in DOMAIN queue : queue[i] = r  \* a caller's reply port is held somewhere
    /\ \A r \in Calls : Len(inbox[r]) <= 1 /\ Len(outbox[r]) <= 1

(* The response that a caller gets is the one to its own request, although   *)
(* a persistent link uses one connection for all calls, failed ones included *)
(* (client.rs:259-270 against server.rs:241-258); types included.            *)
AnswerIsOwn ==
    TypeOK /\ \A r \in Calls : call[r] \in {"ok", "fail"} => answer[r] = r /\ runs[r] = 1

(* A callback is never run twice for a call, whatever fails: nothing is      *)
(* tried again (client.rs:214-245).                                          *)
ExecutedOnce == \A r \in Calls : runs[r] <= 1

(* A call over a link that is not persistent fails only if something failed  *)
(* or stopped while it waited: each call looks the service up, so what       *)
(* became of earlier servers and connections does not matter                 *)
(* (node/actors/service.rs:213-215).                                         *)
FailsForCause ==
    ~persistent => \A r \in Calls : call[r] = "err" => r \in excused

(* Every call ends, also when the link is dropped, and a withdrawn server's  *)
(* listener and tasks end, even if clients stay connected (server.rs:137,    *)
(* 236).                                                                     *)
CallsAndServersEnd ==
    /\ \A r \in Calls : (call[r] = "waiting") ~> (call[r] # "waiting")
    /\ \A k \in Servers :
          (k \in token) ~> (listener[k] = "ended" /\ \A r \in Calls : at[r] # k)
=============================================================================
