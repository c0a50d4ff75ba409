-------------------------- MODULE ServiceCall_proofs --------------------------
(***************************************************************************)
(* Proofs about service calls.  The answer that a caller gets is the one   *)
(* to its own request and no callback runs twice for it, however calls,    *)
(* connections and servers come and go; and a call over a link that is not *)
(* persistent fails only if something failed while it waited.              *)
(***************************************************************************)
EXTENDS ServiceCall, TLAPS

-----------------------------------------------------------------------------
(* The inductive invariants. *)

Elems(s)   == {s[i] : i \in 1..Len(s)}
Once(s, e) == \A i, j \in 1..Len(s) : s[i] = e /\ s[j] = e => i = j

Entry == {<<"silent">>} \cup ({"probe", "call"} \X Calls)

Types ==
    /\ persistent \in BOOLEAN
    /\ call \in [Calls -> {"new", "waiting", "ok", "fail", "err"}]
    /\ answer \in [Calls -> 0..MaxCalls] /\ excused \in SUBSET Calls
    /\ queue \in Seq(Calls) /\ linked \in BOOLEAN
    /\ link \in {"idle", "lookup", "probe", "probing", "handshake", "send", "wait", "stopped"}
    /\ cur \in 0..MaxCalls /\ conn \in 0..MaxCalls /\ target \in 0..MaxStarts
    /\ probe \in {"none", "sent", "ok", "closed"}
    /\ starts \in 0..MaxStarts /\ master \in 0..MaxStarts /\ token \in SUBSET Servers
    /\ server \in {"none", "registering", "up", "unregistering"}
    /\ listener \in [Servers -> {"none", "select", "busy", "ended"}]
    /\ backlog \in [Servers -> Seq(Entry)]
    /\ silent \in 0..MaxSilent
    /\ task \in [Calls -> {"none", "backlog", "read", "callback", "ended"}]
    /\ at \in [Calls -> 0..MaxStarts] /\ broken \in SUBSET Calls
    /\ inbox \in [Calls -> Seq(Calls)]
    /\ outbox \in [Calls -> Seq({"ok", "fail"} \X Calls)]
    /\ req \in [Calls -> 0..MaxCalls] /\ runs \in [Calls -> 0..1]

(* The link's task: the call it is at, those behind it, its connection.      *)
Connecting == link \in {"lookup", "probe", "probing"}
Exchanging == link \in {"handshake", "send", "wait"}
Busy       == Connecting \/ Exchanging

LinkInv ==
    /\ \A r \in Calls : Once(queue, r)
    /\ \A r \in Elems(queue) : call[r] = "waiting" /\ r # cur
    /\ IF Busy THEN cur \in Calls /\ call[cur] = "waiting" ELSE cur = 0
    /\ \A r \in Calls : call[r] = "waiting" => r = cur \/ r \in Elems(queue)
    /\ link = "stopped" => ~linked
    /\ Connecting \/ link = "stopped" => conn = 0
    /\ Exchanging => conn \in Calls
    /\ link = "handshake" => conn = cur
    /\ link # "probing" => probe = "none"
    /\ link \in {"probe", "probing"} => target \in Servers
    /\ ~persistent => (link = "idle" => conn = 0) /\ (Exchanging => conn = cur)

(* The listeners' queues: an entry is there once; that of a connection as    *)
(* long as its task waits to be accepted, that of a probe as long as the     *)
(* link waits for it.  A call that has not got so far has no connection.     *)
Fresh(r) == call[r] = "new" \/ r \in Elems(queue) \/ (r = cur /\ Connecting)

BacklogInv ==
    /\ \A k \in Servers, r \in Calls :
          /\ Once(backlog[k], <<"call", r>>)
          /\ <<"call", r>> \in Elems(backlog[k]) => task[r] = "backlog" /\ at[r] = k
          /\ Once(backlog[k], <<"probe", r>>)
          /\ <<"probe", r>> \in Elems(backlog[k]) =>
                link = "probing" /\ probe = "sent" /\ r = cur /\ target = k
    /\ \A r \in Calls : Fresh(r) =>
          /\ task[r] = "none" /\ conn # r /\ r \notin broken
          /\ inbox[r] = <<>> /\ outbox[r] = <<>>
    /\ conn # 0 => task[conn] # "none"

(* One request is under way at a time, the call's that the link waits with:  *)
(* it is in the inbox of the connection, with its callback, or in the        *)
(* outbox.  A connection that has failed or ended carries nothing further.   *)
ExchangeInv ==
    /\ \A c \in Calls :
          /\ task[c] = "callback" <=> req[c] # 0
          /\ c \in broken => inbox[c] = <<>> /\ outbox[c] = <<>>
          /\ task[c] = "ended" => inbox[c] = <<>>
          /\ inbox[c] # <<>> =>
                /\ link = "wait" /\ c = conn /\ inbox[c] = <<cur>> /\ runs[cur] = 0
                /\ req[c] = 0 /\ outbox[c] = <<>>
          /\ req[c] # 0 /\ c \notin broken =>
                /\ link = "wait" /\ c = conn /\ req[c] = cur /\ runs[cur] = 1
                /\ outbox[c] = <<>>
          /\ outbox[c] # <<>> /\ c = conn =>
                /\ link = "wait" /\ runs[cur] = 1
                /\ outbox[c] \in {<< <<s, cur>> >> : s \in {"ok", "fail"}}
          /\ Len(outbox[c]) <= 1
    /\ \A r \in Calls : Fresh(r) \/ (r = cur /\ link # "wait") => runs[r] = 0
    /\ \A r \in Calls : call[r] \in {"ok", "fail"} => answer[r] = r /\ runs[r] = 1

(* The last server: as long as it is not withdrawn it listens, and while it  *)
(* is up the master knows of it.                                             *)
ServerInv ==
    /\ \A k \in token : k <= starts
    /\ server # "none" => starts \in Servers /\ Listening(starts) /\ starts \notin token
    /\ server = "up" => master = starts

(* A call that nothing has gone wrong for, over a link that is not           *)
(* persistent: the server is up, what it has looked up is that server, and   *)
(* its connection is whole, unless it has already been answered.             *)
CauseInv ==
    ~persistent =>
        /\ \A r \in Calls : call[r] = "waiting" /\ r \notin excused => server = "up" /\ linked
        /\ \A r \in Calls : call[r] = "err" => r \in excused
        /\ Busy /\ cur \notin excused =>
              /\ link # "lookup" => target = starts
              /\ probe # "closed"
              /\ Exchanging =>
                    /\ conn \notin broken
                    /\ task[conn] # "ended" => at[conn] = starts
                    /\ task[conn] = "ended" => link = "wait" /\ outbox[conn] # <<>>

-----------------------------------------------------------------------------
(* Sequences: their elements, and an element that is there once.             *)

LEMMA Nothing == Elems(<<>>) = {} /\ \A x : Once(<<>>, x)
BY DEF Elems, Once

LEMMA Appended ==
  ASSUME NEW S, NEW s \in Seq(S), NEW e \in S
  PROVE  /\ Append(s, e) \in Seq(S) /\ Append(s, e) # <<>>
         /\ Elems(Append(s, e)) = Elems(s) \cup {e}
         /\ \A x : Once(s, x) /\ (x = e => e \notin Elems(s)) => Once(Append(s, e), x)
<1> DEFINE t == Append(s, e)
<1>1. /\ t \in Seq(S) /\ Len(t) = Len(s) + 1 /\ t[Len(t)] = e /\ Len(s) \in Nat
      /\ \A i \in 1..Len(s) : t[i] = s[i]
  OBVIOUS
<1>2. t # <<>>
  <2>1. Len(<<>>) = 0
    OBVIOUS
  <2>. QED  BY <1>1, <2>1
<1> HIDE DEF t
<1>3. 1..Len(t) = 1..Len(s) \cup {Len(t)} /\ Len(t) \notin 1..Len(s)
  BY <1>1
<1>4. Elems(t) = Elems(s) \cup {e}
  BY <1>1, <1>3 DEF Elems
<1>5. ASSUME NEW x, Once(s, x), x = e => e \notin Elems(s) PROVE Once(t, x)
  BY <1>1, <1>3, <1>5 DEF Once, Elems
<1>. QED  BY <1>1, <1>2, <1>4, <1>5 DEF t

LEMMA Removed ==
  ASSUME NEW S, NEW s \in Seq(S), s # <<>>
  PROVE  /\ Head(s) \in S /\ Tail(s) \in Seq(S) /\ Len(Tail(s)) = Len(s) - 1
         /\ Elems(s) = Elems(Tail(s)) \cup {Head(s)}
         /\ \A x : Once(s, x) => Once(Tail(s), x)
         /\ Once(s, Head(s)) => Head(s) \notin Elems(Tail(s))
<1> DEFINE t == Tail(s)
           h == Head(s)
<1>1. /\ t \in Seq(S) /\ Len(s) = Len(t) + 1 /\ Len(t) \in Nat /\ h = s[1] /\ h \in S
      /\ \A i \in 1..Len(t) : t[i] = s[i + 1]
  OBVIOUS
<1> HIDE DEF t, h
<1>2. /\ \A i \in 1..Len(t) : i + 1 \in 1..Len(s)
      /\ 1 \in 1..Len(s) /\ \A i \in 1..Len(s) : i = 1 \/ (i - 1 \in 1..Len(t) /\ t[i - 1] = s[i])
  BY <1>1
<1>3. Elems(s) = Elems(t) \cup {h}
  <2>1. \A e \in Elems(s) : e \in Elems(t) \cup {h}
    BY <1>1, <1>2 DEF Elems
  <2>2. \A e \in Elems(t) \cup {h} : e \in Elems(s)
    BY <1>1, <1>2 DEF Elems
  <2>. QED  BY <2>1, <2>2
<1>4. ASSUME NEW x, Once(s, x) PROVE Once(t, x)
  <2>. SUFFICES ASSUME NEW i \in 1..Len(t), NEW j \in 1..Len(t), t[i] = x, t[j] = x PROVE i = j
    BY DEF Once
  <2>1. i + 1 = j + 1
    BY ZenonT(60), <1>1, <1>2, <1>4 DEF Once
  <2>. QED  BY <2>1
<1>5. ASSUME Once(s, h), h \in Elems(t) PROVE FALSE
  <2>1. PICK i \in 1..Len(t) : t[i] = h
    BY <1>5 DEF Elems
  <2>2. i + 1 = 1
    BY <1>1, <1>2, <1>5, <2>1 DEF Once
  <2>. QED  BY <2>2
<1>. QED  BY <1>1, <1>3, <1>4, <1>5 DEF t, h

LEMMA ElemsIn == ASSUME NEW S, NEW s \in Seq(S) PROVE Elems(s) \subseteq S
BY DEF Elems

LEMMA Single ==
  ASSUME NEW S, NEW e \in S, NEW s \in Seq(S), s = <<>>
  PROVE  Append(s, e) = <<e>> /\ <<e>> # <<>> /\ Head(<<e>>) = e /\ Tail(<<e>>) = <<>>
OBVIOUS

-----------------------------------------------------------------------------
(* Types. *)

LEMMA TypesNext ==
  Types /\ LinkInv /\ ExchangeInv /\ ServerInv /\ [Next]_vars => Types'
<1> SUFFICES ASSUME Types, LinkInv, ExchangeInv, ServerInv, [Next]_vars PROVE Types'
  OBVIOUS
<1>0. /\ \A r \in Calls : r \in 0..MaxCalls /\ r # 0
      /\ \A r \in 0..MaxCalls : r # 0 => r \in Calls
      /\ \A k \in Servers : k \in 0..MaxStarts /\ k # 0
      /\ \A k \in 0..MaxStarts : k # 0 => k \in Servers
      /\ 0 \in 0..MaxCalls /\ 0 \in 0..MaxStarts
  BY ServiceAssumption DEF Calls, Servers
<1> USE <1>0 DEF Types, Listening
<1>1. ASSUME NEW r \in Calls, Call(r) PROVE Types'
  <2>1. queue' \in Seq(Calls)
    <3>1. Append(queue, r) \in Seq(Calls)
      BY Appended
    <3>. QED  BY <1>1, <3>1 DEF Call
  <2>. QED  BY ZenonT(60), <1>1, <2>1 DEF Call, Excuse, serverVars, listenVars, sideVars, connVars, taskVars
<1>2. CASE DropLink
  BY <1>2 DEF DropLink, Excuse, Waiting, serverVars, listenVars, sideVars, connVars, taskVars
<1>3. CASE Take
  <2>1. Head(queue) \in Calls /\ Tail(queue) \in Seq(Calls)
    BY <1>3, Removed DEF Take
  <2>. QED  BY <1>3, <2>1 DEF Take, callVars, serverVars, listenVars, sideVars, connVars, taskVars
<1>4. CASE LinkStops
  <2>1. call' \in [Calls -> {"new", "waiting", "ok", "fail", "err"}]
    BY <1>4 DEF LinkStops
  <2>. QED  BY SMTT(30), <1>4, <2>1 DEF LinkStops, serverVars, listenVars, sideVars, connVars, taskVars
<1>5. CASE Lookup
  BY <1>5 DEF Lookup, callVars, serverVars, listenVars, sideVars, connVars, taskVars
<1>6. CASE LookupFails
  BY <1>6 DEF LinkInv, Busy, Connecting, Exchanging, LookupFails, Excuse, Finish, Keeps,
      serverVars, listenVars, sideVars, connVars, taskVars
<1>7. CASE Probe
  <2>1. <<"probe", cur>> \in Entry
    BY <1>7 DEF Entry, Probe, LinkInv, Busy, Connecting
  <2>2. ASSUME target \in Servers PROVE Append(backlog[target], <<"probe", cur>>) \in Seq(Entry)
    BY <2>1, <2>2, Appended
  <2>3. backlog' \in [Servers -> Seq(Entry)]
    BY <1>7, <2>2 DEF Probe
  <2>. QED  BY <1>7, <2>3 DEF LinkInv, Busy, Connecting, Probe, callVars, serverVars, sideVars,
      connVars, taskVars
<1>8. CASE Connect
  <2>1. <<"call", cur>> \in Entry
    BY <1>8 DEF Entry, Connect, LinkInv, Busy, Connecting
  <2>2. ASSUME target \in Servers PROVE Append(backlog[target], <<"call", cur>>) \in Seq(Entry)
    BY <2>1, <2>2, Appended
  <2>3. backlog' \in [Servers -> Seq(Entry)]
    BY <1>8, <2>2 DEF Connect
  <2>. QED  BY <1>8, <2>3 DEF LinkInv, Busy, Connecting, Connect, callVars, serverVars, taskVars
<1>9. CASE ConnectFails
  BY <1>9 DEF LinkInv, Busy, Connecting, Exchanging, ConnectFails, Finish, Keeps, serverVars,
      listenVars, sideVars, connVars, taskVars
<1>10. CASE HandshakeDone
  BY <1>10 DEF HandshakeDone, callVars, serverVars, listenVars, sideVars, connVars, taskVars
<1>11. CASE Send
  <2>1. cur \in Calls /\ conn \in Calls
    BY <1>11 DEF Send, LinkInv, Busy, Exchanging
  <2>2. Append(inbox[conn], cur) \in Seq(Calls)
    BY <2>1, Appended
  <2>. QED  BY <1>11, <2>1, <2>2 DEF Send, HungUp, callVars, serverVars, listenVars, taskVars
<1>12. CASE Receive
  <2>1. cur \in Calls /\ conn \in Calls
    BY <1>12 DEF Receive, LinkInv, Busy, Exchanging
  <2>2. /\ Head(outbox[conn]) \in {"ok", "fail"} \X Calls
        /\ Tail(outbox[conn]) \in Seq({"ok", "fail"} \X Calls)
    BY <1>12, <2>1, Removed DEF Receive
  <2>. QED  BY <1>12, <2>1, <2>2 DEF Receive, Finish, Keeps, Rest, serverVars, listenVars,
      taskVars
<1>13. CASE ReceiveFails
  <2>1. Finish("err", 0)
    BY <1>13 DEF ReceiveFails, Ends
  <2>. QED  BY <1>13, <2>1 DEF LinkInv, Busy, Connecting, Exchanging, ReceiveFails, Finish,
      Keeps, serverVars, listenVars, sideVars, connVars, taskVars
<1>14. CASE Start
  <2>1. starts + 1 \in 0..MaxStarts
    BY <1>14, ServiceAssumption DEF Start
  <2>. QED  BY <1>14, <2>1 DEF Start, callVars, linkVars, sideVars, connVars, taskVars
<1>15. CASE Registered
  BY <1>15 DEF Registered, callVars, linkVars, listenVars, sideVars, connVars, taskVars
<1>16. CASE RegisterFails
  BY <1>16 DEF ServerInv, RegisterFails, Excuse, Waiting, linkVars, listenVars, sideVars,
      connVars, taskVars
<1>17. CASE Withdraw
  BY <1>17 DEF Withdraw, Excuse, Waiting, linkVars, listenVars, sideVars, connVars, taskVars
<1>18. CASE Unregistered
  BY <1>18 DEF ServerInv, Unregistered, callVars, linkVars, listenVars, sideVars, connVars,
      taskVars
<1>19. CASE Crash
  <2>1. /\ task' \in [Calls -> {"none", "backlog", "read", "callback", "ended"}]
        /\ at' \in [Calls -> 0..MaxStarts] /\ broken' \in SUBSET Calls
        /\ inbox' \in [Calls -> Seq(Calls)]
    BY <1>19 DEF Crash, Close
  <2>2. /\ listener' \in [Servers -> {"none", "select", "busy", "ended"}]
        /\ backlog' \in [Servers -> Seq(Entry)]
    BY <1>19 DEF Crash
  <2>3. req' \in [Calls -> 0..MaxCalls] /\ token' \in SUBSET Servers /\ excused' \in SUBSET Calls
    BY <1>19, ServiceAssumption DEF Crash, Excuse, Waiting, Servers
  <2>. QED  BY <1>19, <2>1, <2>2, <2>3 DEF Crash
<1>20. ASSUME NEW k \in Servers, Accept(k) PROVE Types'
  <2>1. Head(backlog[k]) \in Entry /\ Tail(backlog[k]) \in Seq(Entry)
    BY <1>20, Removed DEF Accept
  <2>2. backlog' \in [Servers -> Seq(Entry)]
    BY <1>20, <2>1 DEF Accept
  <2>3. /\ listener' \in [Servers -> {"none", "select", "busy", "ended"}]
        /\ probe' \in {"none", "sent", "ok", "closed"}
        /\ task' \in [Calls -> {"none", "backlog", "read", "callback", "ended"}]
    BY <1>20, <2>1 DEF Accept, Entry
  <2>. QED  BY <1>20, <2>2, <2>3 DEF Accept, callVars, serverVars, taskVars
<1>21. ASSUME NEW k \in Servers, ListenerEnds(k) PROVE Types'
  <2>1. /\ task' \in [Calls -> {"none", "backlog", "read", "callback", "ended"}]
        /\ at' \in [Calls -> 0..MaxStarts] /\ broken' \in SUBSET Calls
        /\ inbox' \in [Calls -> Seq(Calls)]
    BY <1>21 DEF ListenerEnds, Close
  <2>2. /\ listener' \in [Servers -> {"none", "select", "busy", "ended"}]
        /\ backlog' \in [Servers -> Seq(Entry)]
    BY <1>21 DEF ListenerEnds
  <2>. QED  BY <1>21, <2>1, <2>2 DEF ListenerEnds, callVars, serverVars, taskVars
<1>22. ASSUME NEW k \in Servers, SilentConnects(k) PROVE Types'
  <2>1. <<"silent">> \in Entry
    BY DEF Entry
  <2>2. ASSUME k \in Servers PROVE Append(backlog[k], <<"silent">>) \in Seq(Entry)
    BY <2>1, <2>2, Appended
  <2>3. backlog' \in [Servers -> Seq(Entry)]
    BY <1>22, <2>2 DEF SilentConnects
  <2>4. silent + 1 \in 0..MaxSilent
    BY <1>22, ServiceAssumption DEF SilentConnects
  <2>. QED  BY <1>22, <2>3, <2>4 DEF LinkInv, Busy, Connecting, SilentConnects, callVars,
      linkVars, serverVars, sideVars, connVars, taskVars
<1>23. ASSUME NEW k \in Servers, SilentLeaves(k) PROVE Types'
  BY SMTT(30), <1>23 DEF SilentLeaves, callVars, linkVars, serverVars, sideVars, connVars, taskVars
<1>24. ASSUME NEW r \in Calls, ReadRequest(r) PROVE Types'
  <2>1. Head(inbox[r]) \in Calls /\ Tail(inbox[r]) \in Seq(Calls)
    BY <1>24, Removed DEF ReadRequest
  <2>2. runs[Head(inbox[r])] = 0
    <3>1. inbox[r] = <<cur>> /\ runs[cur] = 0 /\ cur \in Calls
      BY <1>24 DEF ReadRequest, ExchangeInv, LinkInv, Busy, Exchanging
    <3>. QED  BY <3>1
  <2>3. runs' = [runs EXCEPT ![Head(inbox[r])] = 1] /\ 1 \in 0..1
    BY <1>24, <2>1, <2>2 DEF ReadRequest
  <2>. QED  BY ZenonT(60), <1>24, <2>1, <2>3 DEF ReadRequest, callVars, linkVars, serverVars, listenVars
<1>25. ASSUME NEW r \in Calls, NEW status \in {"ok", "fail"}, Respond(r, status) PROVE Types'
  <2>1. req[r] \in Calls
    BY <1>25 DEF Respond, ExchangeInv
  <2>2. Append(outbox[r], <<status, req[r]>>) \in Seq({"ok", "fail"} \X Calls)
    BY <2>1, Appended
  <2>3. /\ task' \in [Calls -> {"none", "backlog", "read", "callback", "ended"}]
        /\ at' \in [Calls -> 0..MaxStarts] /\ broken' \in SUBSET Calls
        /\ inbox' \in [Calls -> Seq(Calls)]
    <3>1. CASE persistent /\ r \notin broken
      BY <1>25, <3>1 DEF Respond
    <3>2. CASE ~(persistent /\ r \notin broken)
      <4>1. Close({r})
        BY <1>25, <3>2 DEF Respond
      <4>. QED  BY <4>1 DEF Close
    <3>. QED  BY <3>1, <3>2
  <2>4. outbox' \in [Calls -> Seq({"ok", "fail"} \X Calls)]
    BY <1>25, <2>2 DEF Respond
  <2>. QED  BY ZenonT(60), <1>25, <2>3, <2>4 DEF Respond, callVars, linkVars, serverVars, listenVars
<1>26. ASSUME NEW r \in Calls, LeaveLoop(r) PROVE Types'
  <2>1. /\ task' \in [Calls -> {"none", "backlog", "read", "callback", "ended"}]
        /\ at' \in [Calls -> 0..MaxStarts] /\ broken' \in SUBSET Calls
        /\ inbox' \in [Calls -> Seq(Calls)]
    BY <1>26 DEF LeaveLoop, Close
  <2>. QED  BY SMTT(30), <1>26, <2>1 DEF LeaveLoop, callVars, linkVars, serverVars, listenVars, taskVars
<1>27. ASSUME NEW r \in Calls, Break(r) PROVE Types'
  <2>1. excused' \in SUBSET Calls
    BY <1>27 DEF Break, Excuse, Waiting
  <2>2. /\ broken' \in SUBSET Calls /\ inbox' \in [Calls -> Seq(Calls)]
        /\ outbox' \in [Calls -> Seq({"ok", "fail"} \X Calls)]
    BY <1>27 DEF Break
  <2>. QED  BY SMTT(30), <1>27, <2>1, <2>2 DEF Break, linkVars, serverVars, listenVars, taskVars
<1>28. CASE UNCHANGED vars
  BY SMTT(30), <1>28 DEF vars, callVars, linkVars, serverVars, listenVars, sideVars, connVars, taskVars
<1>. QED
  BY <1>1, <1>2, <1>3, <1>4, <1>5, <1>6, <1>7, <1>8, <1>9, <1>10, <1>11, <1>12, <1>13, <1>14,
     <1>15, <1>16, <1>17, <1>18, <1>19, <1>20, <1>21, <1>22, <1>23, <1>24, <1>25, <1>26, <1>27,
     <1>28
  DEF Next, Link, Actor, Task, Quiescent

-----------------------------------------------------------------------------
(* The link's task. *)

LEMMA QueuedElems == Types => Queued = Elems(queue)
<1>1. Types => DOMAIN queue = 1..Len(queue)
  BY DEF Types
<1>. QED  BY <1>1 DEF Queued, Elems

LEMMA ClosedElems == ASSUME Types, NEW k \in Servers PROVE Closed(k) = Elems(backlog[k])
<1>1. Types => DOMAIN backlog[k] = 1..Len(backlog[k])
  BY DEF Types
<1>. QED  BY <1>1 DEF Closed, Elems

LEMMA QueueElems ==
  Types => /\ 0 \notin Calls /\ 0 \notin Servers /\ Elems(queue) \subseteq Calls
           /\ cur # 0 => cur \in Calls
           /\ conn # 0 => conn \in Calls
           /\ master # 0 => master \in Servers
<1> SUFFICES ASSUME Types
             PROVE  /\ 0 \notin Calls /\ 0 \notin Servers /\ Elems(queue) \subseteq Calls
                    /\ cur # 0 => cur \in Calls
                    /\ conn # 0 => conn \in Calls
                    /\ master # 0 => master \in Servers
  OBVIOUS
<1>1. Elems(queue) \subseteq Calls
  BY ElemsIn DEF Types
<1>. QED  BY SMTT(30), <1>1, ServiceAssumption DEF Types, Calls, Servers

LEMMA FinishLink ==
  ASSUME Types, LinkInv, Busy, UNCHANGED persistent,
         NEW status \in {"ok", "fail", "err"}, NEW a, Finish(status, a)
  PROVE  LinkInv'
<1>1. cur \in Calls /\ cur \notin Elems(queue) /\ Elems(queue) \subseteq Calls /\ 0 \notin Calls
  BY QueueElems DEF LinkInv
<1>2. \A r \in Calls : call'[r] = IF r = cur THEN status ELSE call[r]
  BY <1>1 DEF Types, Finish
<1>3. link' = "idle" /\ cur' = 0 /\ probe' = "none" /\ queue' = queue /\ linked' = linked
  BY DEF Finish
<1>4. conn' = 0 \/ persistent'
  BY DEF Finish, Keeps
<1>. QED  BY <1>1, <1>2, <1>3, <1>4 DEF LinkInv, Busy, Connecting, Exchanging

LEMMA LinkNext ==
  Types /\ LinkInv /\ BacklogInv /\ [Next]_vars => LinkInv'
<1> SUFFICES ASSUME Types, LinkInv, BacklogInv, [Next]_vars PROVE LinkInv'
  OBVIOUS
<1>0. ASSUME UNCHANGED <<persistent, call, queue, linked, link, cur, conn, target>>,
             probe' = probe \/ link = "probing"
      PROVE  LinkInv'
  BY <1>0 DEF LinkInv, Busy, Connecting, Exchanging
<1>q. /\ 0 \notin Calls /\ 0 \notin Servers /\ Elems(queue) \subseteq Calls
      /\ cur # 0 => cur \in Calls
      /\ conn # 0 => conn \in Calls
      /\ master # 0 => master \in Servers
  BY QueueElems
<1>1. ASSUME NEW r \in Calls, Call(r) PROVE LinkInv'
  <2>1. r # cur /\ r \notin Elems(queue)
    BY <1>1, <1>q DEF Call, LinkInv, Busy, Connecting, Exchanging
  <2>2. CASE link = "stopped"
    <3>1. /\ queue' = queue /\ \A q \in Calls : call'[q] = IF q = r THEN "err" ELSE call[q]
      BY <1>1, <2>2 DEF Call, Types
    <3>2. UNCHANGED <<persistent, linked, link, cur, target, probe, conn>>
      BY <1>1 DEF Call
    <3>. QED  BY <2>1, <3>1, <3>2, <1>q DEF LinkInv, Busy, Connecting, Exchanging
  <2>3. CASE link # "stopped"
    <3>1. /\ queue' = Append(queue, r)
          /\ \A q \in Calls : call'[q] = IF q = r THEN "waiting" ELSE call[q]
      BY <1>1, <2>3 DEF Call, Types
    <3>2. UNCHANGED <<persistent, linked, link, cur, target, probe, conn>>
      BY <1>1 DEF Call
    <3>3. /\ Elems(queue') = Elems(queue) \cup {r}
          /\ \A x : Once(queue, x) /\ (x = r => r \notin Elems(queue)) => Once(queue', x)
      BY <3>1, Appended DEF Types
    <3>4. \A q \in Calls : Once(queue', q)
      BY <2>1, <3>3 DEF LinkInv
    <3>5. \A q \in Elems(queue') : call'[q] = "waiting" /\ q # cur'
      BY <2>1, <3>1, <3>2, <3>3, <1>q DEF LinkInv
    <3>6. \A q \in Calls : call'[q] = "waiting" => q = cur' \/ q \in Elems(queue')
      BY <3>1, <3>2, <3>3 DEF LinkInv
    <3>7. IF Busy' THEN cur' \in Calls /\ call'[cur'] = "waiting" ELSE cur' = 0
      BY <2>1, <3>1, <3>2 DEF LinkInv, Busy, Connecting, Exchanging
    <3>. QED  BY <2>3, <3>2, <3>4, <3>5, <3>6, <3>7 DEF LinkInv, Busy, Connecting, Exchanging
  <2>. QED  BY <2>2, <2>3
<1>2. CASE DropLink
  BY <1>2 DEF DropLink, LinkInv, Busy, Connecting, Exchanging
<1>3. CASE Take
  <2>1. /\ cur' = Head(queue) /\ queue' = Tail(queue) /\ link = "idle"
        /\ link' = IF conn = 0 THEN "lookup" ELSE "send"
        /\ UNCHANGED <<persistent, call, linked, target, probe, conn>>
    BY <1>3 DEF Take, callVars
  <2>2. /\ cur' \in Calls /\ Elems(queue) = Elems(queue') \cup {cur'}
        /\ \A r : Once(queue, r) => Once(queue', r)
        /\ Once(queue, cur') => cur' \notin Elems(queue')
    <3>1. queue \in Seq(Calls) /\ queue # <<>>
      BY <1>3 DEF Take, Types
    <3>. QED  BY <2>1, <3>1, Removed
  <2>. QED  BY <2>1, <2>2, <1>q DEF LinkInv, Busy, Connecting, Exchanging
<1>4. CASE LinkStops
  <2>1. /\ link = "idle" /\ ~linked' /\ link' = "stopped" /\ Elems(queue') = {} /\ conn' = 0
        /\ \A r : Once(queue', r)
    BY <1>4, Nothing DEF LinkStops
  <2>2. \A r \in Calls : call'[r] = IF r \in Elems(queue) THEN "err" ELSE call[r]
    BY <1>4, QueuedElems DEF LinkStops
  <2>3. UNCHANGED <<persistent, linked, cur, target, probe>>
    BY <1>4 DEF LinkStops
  <2>. QED  BY <2>1, <2>2, <2>3, <1>q DEF LinkInv, Busy, Connecting, Exchanging
<1>5. CASE Lookup
  BY <1>5, <1>q DEF Lookup, callVars, LinkInv, Busy, Connecting, Exchanging
<1>6. CASE LookupFails
  <2>1. Busy /\ Finish("err", 0)
    BY <1>6 DEF LookupFails, Busy, Connecting, Exchanging
  <2>. QED  BY <1>6, <2>1, FinishLink DEF LookupFails
<1>7. CASE Probe
  BY <1>7, <1>q DEF Probe, Types, Listening, callVars, LinkInv, Busy, Connecting, Exchanging
<1>8. CASE Connect
  BY <1>8, <1>q DEF Connect, Listening, Types, callVars, LinkInv, Busy, Connecting, Exchanging
<1>9. CASE ConnectFails
  <2>1. Busy /\ Finish("err", 0)
    BY <1>9 DEF ConnectFails, Busy, Connecting, Exchanging
  <2>. QED  BY <1>9, <2>1, FinishLink DEF ConnectFails
<1>10. CASE HandshakeDone
  BY <1>10, <1>q DEF HandshakeDone, callVars, LinkInv, Busy, Connecting, Exchanging
<1>11. CASE Send
  BY <1>11, <1>q DEF Send, callVars, LinkInv, Busy, Connecting, Exchanging
<1>12. CASE Receive
  <2>1. Busy /\ conn \in Calls
    BY <1>12 DEF Receive, LinkInv, Busy, Connecting, Exchanging
  <2>2. Head(outbox[conn])[1] \in {"ok", "fail"}
    <3>1. Head(outbox[conn]) \in {"ok", "fail"} \X Calls
      BY <1>12, <2>1, Removed DEF Receive, Types
    <3>. QED  BY <3>1
  <2>. QED  BY <1>12, <2>1, <2>2, FinishLink DEF Receive
<1>13. CASE ReceiveFails
  <2>1. Busy /\ Finish("err", 0)
    BY <1>13 DEF ReceiveFails, Ends, Busy, Connecting, Exchanging
  <2>. QED  BY <1>13, <2>1, FinishLink DEF ReceiveFails
<1>14. CASE Start
  BY <1>14, <1>0 DEF Start, callVars, linkVars, sideVars, connVars, taskVars
<1>15. CASE Registered
  BY <1>15, <1>0 DEF Registered, callVars, linkVars, listenVars, sideVars, connVars, taskVars
<1>16. CASE RegisterFails
  BY <1>16, <1>0 DEF RegisterFails, linkVars, listenVars, sideVars, connVars, taskVars
<1>17. CASE Withdraw
  BY <1>17, <1>0 DEF Withdraw, linkVars, listenVars, sideVars, connVars, taskVars
<1>18. CASE Unregistered
  BY <1>18, <1>0 DEF Unregistered, callVars, linkVars, listenVars, sideVars, connVars, taskVars
<1>19. CASE Crash
  <2>1. probe' = probe \/ link = "probing"
    BY <1>19 DEF Crash, LinkInv
  <2>. QED  BY <1>19, <2>1, <1>0 DEF Crash
<1>20. ASSUME NEW k \in Servers, Accept(k) PROVE LinkInv'
  <2>1. probe' = probe \/ Head(backlog[k])[1] = "probe"
    BY <1>20 DEF Accept
  <2>2. Head(backlog[k])[1] = "probe" => link = "probing"
    <3>1. Head(backlog[k]) \in Entry /\ Head(backlog[k]) \in Elems(backlog[k])
      BY <1>20, Removed DEF Types, Accept
    <3>2. Head(backlog[k])[1] = "probe" => \E r \in Calls : Head(backlog[k]) = <<"probe", r>>
      BY <3>1 DEF Entry
    <3>. QED  BY ZenonT(60), <3>1, <3>2 DEF BacklogInv
  <2>. QED  BY <1>20, <2>1, <2>2, <1>0 DEF Accept, callVars
<1>21. ASSUME NEW k \in Servers, ListenerEnds(k) PROVE LinkInv'
  <2>1. probe' = probe \/ (probe' = "closed" /\ <<"probe", cur>> \in Elems(backlog[k]))
    BY <1>21, ClosedElems DEF ListenerEnds
  <2>2. <<"probe", cur>> \in Elems(backlog[k]) => link = "probing"
    <3>1. Elems(backlog[k]) \subseteq Entry
      BY ElemsIn DEF Types
    <3>2. <<"probe", cur>> \in Entry => cur \in Calls
      BY DEF Entry
    <3>. QED  BY <3>1, <3>2 DEF BacklogInv
  <2>. QED  BY <1>21, <2>1, <2>2, <1>0 DEF ListenerEnds, callVars
<1>22. ASSUME NEW k \in Servers, SilentConnects(k) PROVE LinkInv'
  BY <1>22, <1>0 DEF SilentConnects, callVars, linkVars, serverVars, sideVars, connVars, taskVars
<1>23. ASSUME NEW k \in Servers, SilentLeaves(k) PROVE LinkInv'
  BY <1>23, <1>0 DEF SilentLeaves, callVars, linkVars, serverVars, sideVars, connVars, taskVars
<1>24. ASSUME NEW r \in Calls, ReadRequest(r) PROVE LinkInv'
  BY <1>24, <1>0 DEF ReadRequest, callVars, linkVars, serverVars, listenVars
<1>25. ASSUME NEW r \in Calls, NEW status \in {"ok", "fail"}, Respond(r, status) PROVE LinkInv'
  BY <1>25, <1>0 DEF Respond, callVars, linkVars, serverVars, listenVars
<1>26. ASSUME NEW r \in Calls, LeaveLoop(r) PROVE LinkInv'
  BY <1>26, <1>0 DEF LeaveLoop, callVars, linkVars, serverVars, listenVars, taskVars
<1>27. ASSUME NEW r \in Calls, Break(r) PROVE LinkInv'
  BY <1>27, <1>0 DEF Break, linkVars, serverVars, listenVars, taskVars
<1>28. CASE UNCHANGED vars
  BY <1>28, <1>0 DEF vars, callVars, linkVars, serverVars, listenVars, sideVars, connVars,
      taskVars
<1>. QED
  BY <1>1, <1>2, <1>3, <1>4, <1>5, <1>6, <1>7, <1>8, <1>9, <1>10, <1>11, <1>12, <1>13, <1>14,
     <1>15, <1>16, <1>17, <1>18, <1>19, <1>20, <1>21, <1>22, <1>23, <1>24, <1>25, <1>26, <1>27,
     <1>28
  DEF Next, Link, Actor, Task, Quiescent

(* A call that has not got as far as a connection never goes back to that.   *)
LEMMA FreshNext ==
  ASSUME Types, LinkInv, [Next]_vars, NEW q \in Calls, Fresh(q)' PROVE Fresh(q)
<1>0. ASSUME UNCHANGED <<call, queue, link, cur>> PROVE Fresh(q)
  BY <1>0 DEF Fresh, Connecting
<1>1. ASSUME NEW r \in Calls, Call(r) PROVE Fresh(q)
  <2>1. \A p \in Elems(queue') : p \in Elems(queue) \/ p = r
    <3>1. queue' = queue \/ queue' = Append(queue, r)
      BY <1>1 DEF Call
    <3>2. Elems(Append(queue, r)) = Elems(queue) \cup {r}
      BY Appended DEF Types
    <3>. QED  BY <3>1, <3>2
  <2>. QED  BY <1>1, <2>1 DEF Call, Fresh, Connecting, Types
<1>2. CASE DropLink
  BY <1>2, <1>0 DEF DropLink, serverVars, listenVars, sideVars, connVars, taskVars
<1>3. CASE Take
  <2>1. Elems(queue) = Elems(queue') \cup {cur'}
    BY <1>3, Removed DEF Take, Types
  <2>. QED  BY <1>3, <2>1 DEF Take, callVars, Fresh, Connecting
<1>4. CASE LinkStops
  <2>1. Elems(queue') = {}
    BY <1>4, Nothing DEF LinkStops
  <2>. QED  BY <1>4, <2>1 DEF LinkStops, Fresh, Connecting
<1>5. CASE Lookup
  BY <1>5 DEF Lookup, callVars, Fresh, Connecting
<1>6. CASE LookupFails
  BY <1>6 DEF LookupFails, Finish, Fresh, Connecting, Types
<1>7. CASE Probe
  BY <1>7 DEF Probe, callVars, Fresh, Connecting
<1>8. CASE Connect
  BY <1>8 DEF Connect, callVars, Fresh, Connecting
<1>9. CASE ConnectFails
  BY <1>9 DEF ConnectFails, Finish, Fresh, Connecting, Types
<1>10. CASE HandshakeDone
  BY <1>10 DEF HandshakeDone, callVars, Fresh, Connecting
<1>11. CASE Send
  BY <1>11 DEF Send, callVars, Fresh, Connecting
<1>12. CASE Receive
  <2>1. Head(outbox[conn]) \in {"ok", "fail"} \X Calls
    <3>1. conn \in Calls
      BY <1>12 DEF Receive, LinkInv, Exchanging
    <3>. QED  BY <1>12, <3>1, Removed DEF Receive, Types
  <2>2. Head(outbox[conn])[1] # "new"
    BY <2>1
  <2>. QED  BY <1>12, <2>2 DEF Receive, Finish, Fresh, Connecting, Types
<1>13. CASE ReceiveFails
  BY <1>13 DEF ReceiveFails, Ends, Finish, Fresh, Connecting, Types
<1>14. CASE Start
  BY <1>14, <1>0 DEF Start, callVars, linkVars, sideVars, connVars, taskVars
<1>15. CASE Registered
  BY <1>15, <1>0 DEF Registered, callVars, linkVars, listenVars, sideVars, connVars, taskVars
<1>16. CASE RegisterFails
  BY <1>16, <1>0 DEF RegisterFails, linkVars, listenVars, sideVars, connVars, taskVars
<1>17. CASE Withdraw
  BY <1>17, <1>0 DEF Withdraw, linkVars, listenVars, sideVars, connVars, taskVars
<1>18. CASE Unregistered
  BY <1>18, <1>0 DEF Unregistered, callVars, linkVars, listenVars, sideVars, connVars, taskVars
<1>19. CASE Crash
  BY <1>19, <1>0 DEF Crash
<1>20. ASSUME NEW k \in Servers, Accept(k) PROVE Fresh(q)
  BY <1>20, <1>0 DEF Accept, callVars, serverVars, taskVars
<1>21. ASSUME NEW k \in Servers, ListenerEnds(k) PROVE Fresh(q)
  BY <1>21, <1>0 DEF ListenerEnds, callVars, serverVars, taskVars
<1>22. ASSUME NEW k \in Servers, SilentConnects(k) PROVE Fresh(q)
  BY <1>22, <1>0 DEF SilentConnects, callVars, linkVars, serverVars, sideVars, connVars, taskVars
<1>23. ASSUME NEW k \in Servers, SilentLeaves(k) PROVE Fresh(q)
  BY <1>23, <1>0 DEF SilentLeaves, callVars, linkVars, serverVars, sideVars, connVars, taskVars
<1>24. ASSUME NEW r \in Calls, ReadRequest(r) PROVE Fresh(q)
  BY <1>24, <1>0 DEF ReadRequest, callVars, linkVars, serverVars, listenVars
<1>25. ASSUME NEW r \in Calls, NEW status \in {"ok", "fail"}, Respond(r, status) PROVE Fresh(q)
  BY <1>25, <1>0 DEF Respond, callVars, linkVars, serverVars, listenVars
<1>26. ASSUME NEW r \in Calls, LeaveLoop(r) PROVE Fresh(q)
  BY <1>26, <1>0 DEF LeaveLoop, callVars, linkVars, serverVars, listenVars, taskVars
<1>27. ASSUME NEW r \in Calls, Break(r) PROVE Fresh(q)
  BY <1>27, <1>0 DEF Break, linkVars, serverVars, listenVars, taskVars
<1>28. CASE UNCHANGED vars
  BY <1>28, <1>0 DEF vars, callVars, linkVars, serverVars, listenVars, sideVars, connVars,
      taskVars
<1>. QED
  BY <1>1, <1>2, <1>3, <1>4, <1>5, <1>6, <1>7, <1>8, <1>9, <1>10, <1>11, <1>12, <1>13, <1>14,
     <1>15, <1>16, <1>17, <1>18, <1>19, <1>20, <1>21, <1>22, <1>23, <1>24, <1>25, <1>26, <1>27,
     <1>28
  DEF Next, Link, Actor, Task, Quiescent

(* The servers. *)
LEMMA ServerNext ==
  Types /\ ServerInv /\ [Next]_vars => ServerInv'
<1> SUFFICES ASSUME Types, ServerInv, [Next]_vars PROVE ServerInv'
  OBVIOUS
<1>0. ASSUME UNCHANGED <<starts, server, master, token>>,
             \A k \in Servers : Listening(k) /\ k \notin token => Listening(k)'
      PROVE  ServerInv'
  BY <1>0 DEF ServerInv
<1>1. ASSUME NEW r \in Calls, Call(r) PROVE ServerInv'
  BY <1>1, <1>0 DEF Call, Listening, Types, serverVars, listenVars
<1>2. CASE DropLink
  BY <1>2, <1>0 DEF DropLink, Listening, Types, serverVars, listenVars
<1>3. CASE Take
  BY <1>3, <1>0 DEF Take, Listening, Types, serverVars, listenVars
<1>4. CASE LinkStops
  BY <1>4, <1>0 DEF LinkStops, Listening, Types, serverVars, listenVars
<1>5. CASE Lookup
  BY <1>5, <1>0 DEF Lookup, Listening, Types, serverVars, listenVars
<1>6. CASE LookupFails
  BY <1>6, <1>0 DEF LookupFails, Listening, serverVars, listenVars
<1>7. CASE Probe
  BY <1>7, <1>0 DEF Probe, Listening, Types, serverVars
<1>8. CASE Connect
  BY <1>8, <1>0 DEF Connect, Listening, Types, serverVars
<1>9. CASE ConnectFails
  BY <1>9, <1>0 DEF ConnectFails, Listening, serverVars, listenVars
<1>10. CASE HandshakeDone
  BY <1>10, <1>0 DEF HandshakeDone, Listening, Types, serverVars, listenVars
<1>11. CASE Send
  BY <1>11, <1>0 DEF Send, Listening, Types, serverVars, listenVars
<1>12. CASE Receive
  BY <1>12, <1>0 DEF Receive, Listening, serverVars, listenVars
<1>13. CASE ReceiveFails
  BY <1>13, <1>0 DEF ReceiveFails, Listening, serverVars, listenVars
<1>14. CASE Start
  BY <1>14, ServiceAssumption DEF Start, ServerInv, Listening, Types, Servers
<1>15. CASE Registered
  BY <1>15, ServiceAssumption DEF Registered, ServerInv, Listening, Types, Servers, listenVars
<1>16. CASE RegisterFails
  BY <1>16, ServiceAssumption DEF RegisterFails, ServerInv, Listening, Types, Servers, listenVars
<1>17. CASE Withdraw
  BY <1>17, ServiceAssumption DEF Withdraw, ServerInv, Listening, Types, Servers, listenVars
<1>18. CASE Unregistered
  BY <1>18, ServiceAssumption DEF Unregistered, ServerInv, Listening, Types, Servers, listenVars
<1>19. CASE Crash
  BY <1>19, ServiceAssumption DEF Crash, ServerInv, Listening, Types, Servers
<1>20. ASSUME NEW k \in Servers, Accept(k) PROVE ServerInv'
  BY <1>20, <1>0 DEF Accept, Listening, Types, serverVars
<1>21. ASSUME NEW k \in Servers, ListenerEnds(k) PROVE ServerInv'
  BY <1>21, <1>0 DEF ListenerEnds, Listening, Types, serverVars
<1>22. ASSUME NEW k \in Servers, SilentConnects(k) PROVE ServerInv'
  BY <1>22, <1>0 DEF SilentConnects, Listening, Types, serverVars
<1>23. ASSUME NEW k \in Servers, SilentLeaves(k) PROVE ServerInv'
  BY <1>23, <1>0 DEF SilentLeaves, Listening, Types, serverVars
<1>24. ASSUME NEW r \in Calls, ReadRequest(r) PROVE ServerInv'
  BY <1>24, <1>0 DEF ReadRequest, Listening, Types, serverVars, listenVars
<1>25. ASSUME NEW r \in Calls, NEW status \in {"ok", "fail"}, Respond(r, status) PROVE ServerInv'
  BY <1>25, <1>0 DEF Respond, Listening, Types, serverVars, listenVars
<1>26. ASSUME NEW r \in Calls, LeaveLoop(r) PROVE ServerInv'
  BY <1>26, <1>0 DEF LeaveLoop, Listening, Types, serverVars, listenVars
<1>27. ASSUME NEW r \in Calls, Break(r) PROVE ServerInv'
  BY <1>27, <1>0 DEF Break, Listening, Types, serverVars, listenVars
<1>28. CASE UNCHANGED vars
  BY <1>28, <1>0 DEF Listening, vars, callVars, linkVars, serverVars, listenVars, sideVars,
      connVars, taskVars
<1>. QED
  BY <1>1, <1>2, <1>3, <1>4, <1>5, <1>6, <1>7, <1>8, <1>9, <1>10, <1>11, <1>12, <1>13, <1>14,
     <1>15, <1>16, <1>17, <1>18, <1>19, <1>20, <1>21, <1>22, <1>23, <1>24, <1>25, <1>26, <1>27,
     <1>28
  DEF Next, Link, Actor, Task, Quiescent

(* The listeners' queues. *)

LEMMA Joined ==
  ASSUME Types, NEW t \in Servers, NEW e \in Entry,
         backlog' = [backlog EXCEPT ![t] = Append(@, e)]
  PROVE  \A k \in Servers :
            /\ \A x \in Elems(backlog'[k]) : x \in Elems(backlog[k]) \/ (k = t /\ x = e)
            /\ \A x : Once(backlog[k], x) /\ (x = e => e \notin Elems(backlog[t])) =>
                      Once(backlog'[k], x)
<1>1. /\ Elems(Append(backlog[t], e)) = Elems(backlog[t]) \cup {e}
      /\ \A x : Once(backlog[t], x) /\ (x = e => e \notin Elems(backlog[t])) =>
                Once(Append(backlog[t], e), x)
  BY Appended DEF Types
<1>2. \A k \in Servers : backlog'[k] = IF k = t THEN Append(backlog[t], e) ELSE backlog[k]
  BY DEF Types
<1>3. ASSUME NEW k \in Servers
      PROVE  /\ \A x \in Elems(backlog'[k]) : x \in Elems(backlog[k]) \/ (k = t /\ x = e)
             /\ \A x : Once(backlog[k], x) /\ (x = e => e \notin Elems(backlog[t])) =>
                      Once(backlog'[k], x)
  <2>1. CASE k = t
    BY <1>1, <1>2, <2>1
  <2>2. CASE k # t
    BY <1>2, <2>2
  <2>. QED  BY <2>1, <2>2
<1>. QED  BY <1>3

(* The entry at the head is that of a connection only if its task waits.     *)
LEMMA Accepted ==
  ASSUME Types, BacklogInv, NEW k \in Servers, Accept(k)
  PROVE  \/ UNCHANGED task
         \/ \E p \in Calls : task[p] = "backlog" /\ task' = [task EXCEPT ![p] = "read"]
<1> DEFINE c == Head(backlog[k])
<1>1. c \in Entry /\ c \in Elems(backlog[k])
  BY Removed DEF Types, Accept
<1>2. task' = task \/ (c[1] = "call" /\ task' = [task EXCEPT ![c[2]] = "read"])
  BY DEF Accept
<1> HIDE DEF c
<1>3. ASSUME c[1] = "call", task' = [task EXCEPT ![c[2]] = "read"]
      PROVE  \E p \in Calls : task[p] = "backlog" /\ task' = [task EXCEPT ![p] = "read"]
  <2>1. PICK p \in Calls : c = <<"call", p>>
    BY <1>1, <1>3 DEF Entry
  <2>2. c[2] = p
    BY <2>1
  <2>3. task[p] = "backlog"
    BY <1>1, <2>1 DEF BacklogInv
  <2>. QED  BY <1>3, <2>2, <2>3
<1>. QED  BY <1>2, <1>3

LEMMA BacklogNext ==
  Types /\ LinkInv /\ BacklogInv /\ [Next]_vars => BacklogInv'
<1> SUFFICES ASSUME Types, LinkInv, BacklogInv, [Next]_vars PROVE BacklogInv'
  OBVIOUS
<1>q. /\ 0 \notin Calls /\ 0 \notin Servers /\ Elems(queue) \subseteq Calls
      /\ cur # 0 => cur \in Calls
      /\ conn # 0 => conn \in Calls
  BY QueueElems
<1>f. \A r \in Calls : Fresh(r)' => Fresh(r)
  BY FreshNext
<1>0. ASSUME UNCHANGED <<backlog, task, at, broken, inbox, outbox>>, conn' = conn \/ conn' = 0,
             link = "probing" /\ probe = "sent" => UNCHANGED <<link, cur, target, probe>>
      PROVE  BacklogInv'
  <2>1. \A r \in Calls : Fresh(r)' => conn' # r
    BY <1>0, <1>f, <1>q DEF BacklogInv
  <2>. QED  BY <1>0, <1>f, <2>1 DEF BacklogInv
<1>c. ASSUME UNCHANGED <<backlog, link, cur, target, probe, conn>>,
             NEW s \in SUBSET Calls,
             \A r \in s : task[r] \notin {"none", "backlog"} /\ task'[r] # "none",
             \A r \in Calls \ s : /\ task'[r] = task[r] /\ at'[r] = at[r]
                                  /\ inbox'[r] = inbox[r] /\ outbox'[r] = outbox[r]
                                  /\ r \in broken' => r \in broken
      PROVE  BacklogInv'
  <2>1. ASSUME NEW r \in Calls, r \in s
        PROVE  ~Fresh(r) /\ \A k \in Servers : <<"call", r>> \notin Elems(backlog[k])
    BY <1>c, <2>1 DEF BacklogInv
  <2>2. ASSUME NEW k \in Servers, NEW r \in Calls
        PROVE  /\ Once(backlog'[k], <<"call", r>>) /\ Once(backlog'[k], <<"probe", r>>)
               /\ <<"call", r>> \in Elems(backlog'[k]) => task'[r] = "backlog" /\ at'[r] = k
               /\ <<"probe", r>> \in Elems(backlog'[k]) =>
                     link' = "probing" /\ probe' = "sent" /\ r = cur' /\ target' = k
    BY <1>c, <2>1 DEF BacklogInv
  <2>3. ASSUME NEW r \in Calls, Fresh(r)'
        PROVE  /\ task'[r] = "none" /\ conn' # r /\ r \notin broken'
               /\ inbox'[r] = <<>> /\ outbox'[r] = <<>>
    BY <1>c, <1>f, <2>1, <2>3 DEF BacklogInv
  <2>4. conn' # 0 => task'[conn'] # "none"
    BY <1>c, <1>q DEF BacklogInv
  <2>. QED  BY <2>2, <2>3, <2>4 DEF BacklogInv
<1>1. ASSUME NEW r \in Calls, Call(r) PROVE BacklogInv'
  BY <1>1, <1>0 DEF Call, serverVars, listenVars, sideVars, connVars, taskVars
<1>2. CASE DropLink
  BY <1>2, <1>0 DEF DropLink, serverVars, listenVars, sideVars, connVars, taskVars
<1>3. CASE Take
  BY <1>3, <1>0 DEF Take, callVars, serverVars, listenVars, sideVars, connVars, taskVars
<1>4. CASE LinkStops
  BY <1>4, <1>0 DEF LinkStops, serverVars, listenVars, sideVars, connVars, taskVars
<1>5. CASE Lookup
  BY <1>5, <1>0 DEF Lookup, callVars, serverVars, listenVars, sideVars, connVars, taskVars
<1>6. CASE LookupFails
  BY <1>6, <1>0 DEF LookupFails, Finish, Keeps, serverVars, listenVars, sideVars, connVars,
      taskVars
<1>7. CASE Probe
  <2> DEFINE e == <<"probe", cur>>
  <2>1. /\ cur \in Calls /\ target \in Servers /\ e \in Entry
        /\ \A r : <<"probe", r>> = e => r = cur
        /\ \A r : <<"call", r>> # e
    BY <1>7 DEF Probe, Entry, LinkInv, Busy, Connecting, Exchanging
  <2>2. \A k \in Servers : /\ e \notin Elems(backlog[k])
                          /\ \A r \in Calls : <<"probe", r>> \notin Elems(backlog[k])
    BY <1>7, <2>1 DEF Probe, BacklogInv
  <2>3. backlog' = [backlog EXCEPT ![target] = Append(@, e)]
    BY <1>7 DEF Probe
  <2>5. /\ link' = "probing" /\ probe' = "sent"
        /\ UNCHANGED <<cur, target, conn, task, at, broken, inbox, outbox>>
    BY <1>7 DEF Probe, connVars, sideVars
  <2> HIDE DEF e
  <2>4. \A k \in Servers :
           /\ \A x \in Elems(backlog'[k]) : x \in Elems(backlog[k]) \/ (k = target /\ x = e)
           /\ \A x : Once(backlog[k], x) => Once(backlog'[k], x)
    BY <2>1, <2>2, <2>3, Joined
  <2>6. ASSUME NEW k \in Servers, NEW r \in Calls
        PROVE  /\ Once(backlog'[k], <<"call", r>>) /\ Once(backlog'[k], <<"probe", r>>)
               /\ <<"call", r>> \in Elems(backlog'[k]) => task'[r] = "backlog" /\ at'[r] = k
               /\ <<"probe", r>> \in Elems(backlog'[k]) =>
                     link' = "probing" /\ probe' = "sent" /\ r = cur' /\ target' = k
    <3>1. /\ Once(backlog[k], <<"call", r>>) /\ Once(backlog[k], <<"probe", r>>)
          /\ <<"call", r>> \in Elems(backlog[k]) => task[r] = "backlog" /\ at[r] = k
      BY DEF BacklogInv
    <3>. QED  BY <2>1, <2>2, <2>4, <2>5, <3>1
  <2>. QED  BY <2>5, <2>6, <1>f DEF BacklogInv
<1>8. CASE Connect
  <2> DEFINE e == <<"call", cur>>
  <2>1. /\ cur \in Calls /\ target \in Servers /\ e \in Entry
        /\ \A r : <<"call", r>> = e => r = cur
        /\ \A r : <<"probe", r>> # e
    BY <1>8 DEF Connect, Entry, LinkInv, Busy, Connecting, Exchanging
  <2>2. \A r \in Calls : r = cur => Fresh(r) /\ ~Fresh(r)'
    BY <1>8, <2>1 DEF Connect, Fresh, callVars, LinkInv, Busy, Connecting, Exchanging
  <2>3. /\ \A k \in Servers, r \in Calls : <<"probe", r>> \notin Elems(backlog[k])
        /\ \A k \in Servers : e \notin Elems(backlog[k])
    BY <1>8, <2>1, <2>2 DEF Connect, BacklogInv
  <2>4. backlog' = [backlog EXCEPT ![target] = Append(@, e)]
    BY <1>8 DEF Connect
  <2>6. /\ conn' = cur /\ UNCHANGED <<broken, inbox, outbox>>
        /\ \A r \in Calls : /\ task'[r] = IF r = cur THEN "backlog" ELSE task[r]
                            /\ at'[r] = IF r = cur THEN target ELSE at[r]
    BY <1>8 DEF Connect, Types
  <2> HIDE DEF e
  <2>5. \A k \in Servers :
           /\ \A x \in Elems(backlog'[k]) : x \in Elems(backlog[k]) \/ (k = target /\ x = e)
           /\ \A x : Once(backlog[k], x) => Once(backlog'[k], x)
    BY <2>1, <2>3, <2>4, Joined
  <2>7. ASSUME NEW k \in Servers, NEW r \in Calls
        PROVE  /\ Once(backlog'[k], <<"call", r>>) /\ Once(backlog'[k], <<"probe", r>>)
               /\ <<"call", r>> \in Elems(backlog'[k]) => task'[r] = "backlog" /\ at'[r] = k
               /\ <<"probe", r>> \notin Elems(backlog'[k])
    <3>1. /\ Once(backlog[k], <<"call", r>>) /\ Once(backlog[k], <<"probe", r>>)
          /\ <<"call", r>> \in Elems(backlog[k]) => task[r] = "backlog" /\ at[r] = k
          /\ r = cur => <<"call", r>> \notin Elems(backlog[k])
      BY <2>3 DEF BacklogInv, e
    <3>. QED  BY <2>1, <2>3, <2>5, <2>6, <3>1
  <2>8. ASSUME NEW r \in Calls, Fresh(r)'
        PROVE  /\ task'[r] = "none" /\ conn' # r /\ r \notin broken'
               /\ inbox'[r] = <<>> /\ outbox'[r] = <<>>
    BY <1>f, <2>2, <2>6, <2>8 DEF BacklogInv
  <2>9. task'[conn'] # "none"
    BY <2>1, <2>6
  <2>. QED  BY <2>7, <2>8, <2>9 DEF BacklogInv
<1>9. CASE ConnectFails
  BY <1>9, <1>0 DEF ConnectFails, Finish, Keeps, serverVars, listenVars, sideVars, connVars,
      taskVars
<1>10. CASE HandshakeDone
  BY <1>10, <1>0 DEF HandshakeDone, callVars, serverVars, listenVars, sideVars, connVars, taskVars
<1>11. CASE Send
  <2>1. conn \in Calls /\ link = "send" /\ \A r \in Calls \ {conn} : inbox'[r] = inbox[r]
    BY <1>11 DEF Send, Types, LinkInv, Exchanging
  <2>2. /\ \A k \in Servers, r \in Calls : <<"probe", r>> \notin Elems(backlog[k])
        /\ \A r \in Calls : Fresh(r)' => r # conn
    BY <1>f, <2>1 DEF BacklogInv
  <2>3. UNCHANGED <<backlog, conn, task, at, broken, outbox>>
    BY <1>11 DEF Send, listenVars
  <2>. QED  BY <2>1, <2>2, <2>3, <1>f DEF BacklogInv
<1>12. CASE Receive
  <2>1. conn \in Calls /\ link = "wait" /\ \A r \in Calls \ {conn} : outbox'[r] = outbox[r]
    BY <1>12 DEF Receive, Types, LinkInv, Exchanging
  <2>2. /\ \A k \in Servers, r \in Calls : <<"probe", r>> \notin Elems(backlog[k])
        /\ \A r \in Calls : Fresh(r)' => r # conn
    BY <1>f, <2>1 DEF BacklogInv
  <2>3. UNCHANGED <<backlog, task, at, broken, inbox>> /\ (conn' = conn \/ conn' = 0)
    BY <1>12 DEF Receive, Finish, listenVars
  <2>. QED  BY <2>1, <2>2, <2>3, <1>f, <1>q DEF BacklogInv
<1>13. CASE ReceiveFails
  <2>1. Finish("err", 0)
    BY <1>13 DEF ReceiveFails, Ends
  <2>. QED  BY <1>13, <2>1, <1>0 DEF ReceiveFails, Finish, serverVars, listenVars, sideVars,
      connVars, taskVars
<1>14. CASE Start
  BY <1>14, <1>0 DEF Start, callVars, linkVars, sideVars, connVars, taskVars
<1>15. CASE Registered
  BY <1>15, <1>0 DEF Registered, callVars, linkVars, listenVars, sideVars, connVars, taskVars
<1>16. CASE RegisterFails
  BY <1>16, <1>0 DEF RegisterFails, linkVars, listenVars, sideVars, connVars, taskVars
<1>17. CASE Withdraw
  BY <1>17, <1>0 DEF Withdraw, linkVars, listenVars, sideVars, connVars, taskVars
<1>18. CASE Unregistered
  BY <1>18, <1>0 DEF Unregistered, callVars, linkVars, listenVars, sideVars, connVars, taskVars
<1>19. CASE Crash
  <2>1. \A k \in Servers : Elems(backlog'[k]) = {} /\ \A x : Once(backlog'[k], x)
    BY <1>19, Nothing DEF Crash
  <2>2. \A r \in Calls : task'[r] = IF task[r] # "none" THEN "ended" ELSE "none"
    BY <1>19 DEF Crash, Close
  <2>3. /\ \A r \in Calls : task[r] = "none" => inbox'[r] = inbox[r]
        /\ broken' \subseteq broken /\ UNCHANGED <<conn, outbox>>
    BY <1>19 DEF Crash, Close
  <2>4. ASSUME NEW r \in Calls, Fresh(r)'
        PROVE  /\ task'[r] = "none" /\ conn' # r /\ r \notin broken'
               /\ inbox'[r] = <<>> /\ outbox'[r] = <<>>
    BY <1>f, <2>2, <2>3, <2>4 DEF BacklogInv
  <2>. QED  BY <2>1, <2>2, <2>3, <2>4, <1>q DEF BacklogInv
<1>20. ASSUME NEW k \in Servers, Accept(k) PROVE BacklogInv'
  <2> DEFINE c == Head(backlog[k])
  <2>1. /\ c \in Entry /\ Elems(backlog[k]) = Elems(backlog'[k]) \cup {c}
        /\ \A x : Once(backlog[k], x) => Once(backlog'[k], x)
        /\ Once(backlog[k], c) => c \notin Elems(backlog'[k])
    <3>1. backlog[k] \in Seq(Entry) /\ backlog[k] # <<>> /\ backlog'[k] = Tail(backlog[k])
      BY <1>20 DEF Accept, Types
    <3>. QED  BY <3>1, Removed
  <2>2. \A j \in Servers \ {k} : backlog'[j] = backlog[j]
    BY <1>20 DEF Accept, Types
  <2>3. /\ UNCHANGED <<link, cur, target, conn, at, broken, inbox, outbox>>
        /\ \/ c = <<"silent">> /\ UNCHANGED <<probe, task>>
           \/ c[1] = "probe" /\ probe' = "ok" /\ UNCHANGED task
           \/ c[1] = "call" /\ task' = [task EXCEPT ![c[2]] = "read"] /\ UNCHANGED probe
    BY <1>20 DEF Accept
  <2> HIDE DEF c
  <2>4. CASE c = <<"silent">> /\ UNCHANGED <<probe, task>>
    BY <2>1, <2>2, <2>3, <2>4, <1>f DEF BacklogInv
  <2>5. ASSUME c[1] = "probe", probe' = "ok", UNCHANGED task PROVE BacklogInv'
    <3>1. PICK p \in Calls : c = <<"probe", p>>
      BY <2>1, <2>5 DEF Entry
    <3>2. p = cur /\ target = k /\ c \notin Elems(backlog'[k])
      BY <2>1, <3>1 DEF BacklogInv
    <3>3. \A j \in Servers, r \in Calls : <<"probe", r>> \notin Elems(backlog'[j])
      <4>1. \A r \in Calls : <<"probe", r>> \notin Elems(backlog'[k])
        <5>1. \A r \in Calls : <<"probe", r>> \in Elems(backlog[k]) => r = p
          BY <3>2 DEF BacklogInv
        <5>2. Elems(backlog'[k]) \subseteq Elems(backlog[k])
          BY <2>1
        <5>. QED  BY <5>1, <5>2, <3>1, <3>2
      <4>2. \A j \in Servers \ {k}, r \in Calls : <<"probe", r>> \notin Elems(backlog[j])
        BY <3>2 DEF BacklogInv
      <4>. QED  BY <2>2, <4>1, <4>2
    <3>. QED  BY <2>1, <2>2, <2>3, <2>5, <3>3, <1>f DEF BacklogInv
  <2>6. ASSUME c[1] = "call", task' = [task EXCEPT ![c[2]] = "read"], UNCHANGED probe
        PROVE  BacklogInv'
    <3>1. PICK p \in Calls : c = <<"call", p>>
      BY <2>1, <2>6 DEF Entry
    <3>2. task[p] = "backlog" /\ at[p] = k /\ c \notin Elems(backlog'[k])
      BY <2>1, <3>1 DEF BacklogInv
    <3>3. \A j \in Servers : <<"call", p>> \notin Elems(backlog'[j])
      <4>1. \A j \in Servers \ {k} : <<"call", p>> \notin Elems(backlog[j])
        BY <3>2 DEF BacklogInv
      <4>. QED  BY <2>2, <3>1, <3>2, <4>1
    <3>4. \A r \in Calls : task'[r] = IF r = p THEN "read" ELSE task[r]
      BY <2>6, <3>1 DEF Types
    <3>5. ~Fresh(p)
      BY <3>2 DEF BacklogInv
    <3>6. ASSUME NEW j \in Servers, NEW r \in Calls
          PROVE  /\ Once(backlog'[j], <<"call", r>>) /\ Once(backlog'[j], <<"probe", r>>)
                 /\ <<"call", r>> \in Elems(backlog'[j]) => task'[r] = "backlog" /\ at'[r] = j
                 /\ <<"probe", r>> \in Elems(backlog'[j]) =>
                       link' = "probing" /\ probe' = "sent" /\ r = cur' /\ target' = j
      BY <2>1, <2>2, <2>3, <2>6, <3>3, <3>4 DEF BacklogInv
    <3>7. ASSUME NEW r \in Calls, Fresh(r)'
          PROVE  /\ task'[r] = "none" /\ conn' # r /\ r \notin broken'
                 /\ inbox'[r] = <<>> /\ outbox'[r] = <<>>
      BY <1>f, <2>3, <3>4, <3>5, <3>7 DEF BacklogInv
    <3>8. conn' # 0 => task'[conn'] # "none"
      BY <1>q, <2>3, <3>4 DEF BacklogInv
    <3>. QED  BY <3>6, <3>7, <3>8 DEF BacklogInv
  <2>. QED  BY <2>3, <2>4, <2>5, <2>6
<1>21. ASSUME NEW k \in Servers, ListenerEnds(k) PROVE BacklogInv'
  <2>1. /\ Elems(backlog'[k]) = {} /\ \A x : Once(backlog'[k], x)
        /\ \A j \in Servers \ {k} : backlog'[j] = backlog[j]
    BY <1>21, Nothing DEF ListenerEnds, Types
  <2>2. /\ \A r \in Calls : <<"call", r>> \in Elems(backlog[k]) => task'[r] = "ended"
        /\ \A r \in Calls : <<"call", r>> \notin Elems(backlog[k]) =>
              task'[r] = task[r] /\ at'[r] = at[r] /\ inbox'[r] = inbox[r]
        /\ broken' \subseteq broken
    BY <1>21, ClosedElems DEF ListenerEnds, Close
  <2>3. /\ UNCHANGED <<link, cur, target, conn, outbox>>
        /\ probe' = probe \/ <<"probe", cur>> \in Elems(backlog[k])
    BY <1>21, ClosedElems DEF ListenerEnds
  <2>4. \A r \in Calls : <<"call", r>> \in Elems(backlog[k]) => ~Fresh(r)
    BY DEF BacklogInv
  <2>5. ASSUME NEW j \in Servers, NEW r \in Calls
        PROVE  /\ Once(backlog'[j], <<"call", r>>) /\ Once(backlog'[j], <<"probe", r>>)
               /\ <<"call", r>> \in Elems(backlog'[j]) => task'[r] = "backlog" /\ at'[r] = j
               /\ <<"probe", r>> \in Elems(backlog'[j]) =>
                     link' = "probing" /\ probe' = "sent" /\ r = cur' /\ target' = j
    <3>1. CASE j = k
      BY <2>1, <3>1
    <3>2. CASE j # k
      <4>1. /\ Once(backlog'[j], <<"call", r>>) /\ Once(backlog'[j], <<"probe", r>>)
            /\ <<"call", r>> \in Elems(backlog'[j]) => task'[r] = "backlog" /\ at'[r] = j
        BY <2>1, <2>2, <3>2 DEF BacklogInv
      <4>2. ASSUME <<"probe", r>> \in Elems(backlog'[j])
            PROVE  link' = "probing" /\ probe' = "sent" /\ r = cur' /\ target' = j
        <5>1. link = "probing" /\ probe = "sent" /\ r = cur /\ target = j
          BY <2>1, <3>2, <4>2 DEF BacklogInv
        <5>2. <<"probe", cur>> \notin Elems(backlog[k])
          BY <3>2, <5>1 DEF BacklogInv
        <5>. QED  BY <2>3, <5>1, <5>2
      <4>. QED  BY <4>1, <4>2
    <3>. QED  BY <3>1, <3>2
  <2>6. ASSUME NEW r \in Calls, Fresh(r)'
        PROVE  /\ task'[r] = "none" /\ conn' # r /\ r \notin broken'
               /\ inbox'[r] = <<>> /\ outbox'[r] = <<>>
    BY <1>f, <2>2, <2>3, <2>4, <2>6 DEF BacklogInv
  <2>7. conn' # 0 => task'[conn'] # "none"
    BY <1>q, <2>2, <2>3 DEF BacklogInv
  <2>. QED  BY <2>5, <2>6, <2>7 DEF BacklogInv
<1>22. ASSUME NEW k \in Servers, SilentConnects(k) PROVE BacklogInv'
  <2> DEFINE e == <<"silent">>
  <2>1. /\ e \in Entry /\ \A r : <<"call", r>> # e /\ <<"probe", r>> # e
        /\ backlog' = [backlog EXCEPT ![k] = Append(@, e)]
    BY <1>22 DEF SilentConnects, Entry
  <2> HIDE DEF e
  <2>2. \A j \in Servers :
           /\ \A x \in Elems(backlog'[j]) : x \in Elems(backlog[j]) \/ (j = k /\ x = e)
           /\ \A x : Once(backlog[j], x) /\ x # e => Once(backlog'[j], x)
    BY <2>1, Joined
  <2>3. UNCHANGED <<link, cur, target, probe, conn, task, at, broken, inbox, outbox>>
    BY <1>22 DEF SilentConnects, linkVars, connVars, sideVars
  <2>4. ASSUME NEW j \in Servers, NEW r \in Calls
        PROVE  /\ Once(backlog'[j], <<"call", r>>) /\ Once(backlog'[j], <<"probe", r>>)
               /\ <<"call", r>> \in Elems(backlog'[j]) => <<"call", r>> \in Elems(backlog[j])
               /\ <<"probe", r>> \in Elems(backlog'[j]) => <<"probe", r>> \in Elems(backlog[j])
    <3>1. Once(backlog[j], <<"call", r>>) /\ Once(backlog[j], <<"probe", r>>)
      BY DEF BacklogInv
    <3>. QED  BY <2>1, <2>2, <3>1
  <2>. QED  BY <2>3, <2>4, <1>f DEF BacklogInv
<1>23. ASSUME NEW k \in Servers, SilentLeaves(k) PROVE BacklogInv'
  BY <1>23, <1>0 DEF SilentLeaves, callVars, linkVars, serverVars, sideVars, connVars, taskVars
<1>24. ASSUME NEW r \in Calls, ReadRequest(r) PROVE BacklogInv'
  <2>1. UNCHANGED <<backlog, link, cur, target, probe, conn>>
    BY <1>24 DEF ReadRequest, linkVars, listenVars
  <2>2. /\ task[r] \notin {"none", "backlog"} /\ task'[r] # "none"
        /\ \A p \in Calls \ {r} : /\ task'[p] = task[p] /\ at'[p] = at[p]
                                  /\ inbox'[p] = inbox[p] /\ outbox'[p] = outbox[p]
                                  /\ p \in broken' => p \in broken
    BY <1>24 DEF ReadRequest, Types
  <2> DEFINE s == {r}
  <2>3. /\ s \in SUBSET Calls /\ \A p \in s : task[p] \notin {"none", "backlog"} /\ task'[p] # "none"
        /\ \A p \in Calls \ s : /\ task'[p] = task[p] /\ at'[p] = at[p]
                                /\ inbox'[p] = inbox[p] /\ outbox'[p] = outbox[p]
                                /\ p \in broken' => p \in broken
    BY <2>2
  <2> HIDE DEF s
  <2>. QED  BY <2>1, <2>3, <1>c
<1>25. ASSUME NEW r \in Calls, NEW status \in {"ok", "fail"}, Respond(r, status) PROVE BacklogInv'
  <2>1. UNCHANGED <<backlog, link, cur, target, probe, conn>>
    BY <1>25 DEF Respond, linkVars, listenVars
  <2>2. /\ task[r] \notin {"none", "backlog"} /\ task'[r] # "none"
        /\ \A p \in Calls \ {r} : /\ task'[p] = task[p] /\ at'[p] = at[p]
                                  /\ inbox'[p] = inbox[p] /\ outbox'[p] = outbox[p]
                                  /\ p \in broken' => p \in broken
    <3>1. CASE persistent /\ r \notin broken
      BY <1>25, <3>1 DEF Respond, Types
    <3>2. CASE ~(persistent /\ r \notin broken)
      <4>1. Close({r}) /\ task[r] = "callback" /\ \A p \in Calls \ {r} : outbox'[p] = outbox[p]
        BY <1>25, <3>2 DEF Respond, Types
      <4>. QED  BY <4>1 DEF Close
    <3>. QED  BY <3>1, <3>2
  <2> DEFINE s == {r}
  <2>3. /\ s \in SUBSET Calls /\ \A p \in s : task[p] \notin {"none", "backlog"} /\ task'[p] # "none"
        /\ \A p \in Calls \ s : /\ task'[p] = task[p] /\ at'[p] = at[p]
                                /\ inbox'[p] = inbox[p] /\ outbox'[p] = outbox[p]
                                /\ p \in broken' => p \in broken
    BY <2>2
  <2> HIDE DEF s
  <2>. QED  BY <2>1, <2>3, <1>c
<1>26. ASSUME NEW r \in Calls, LeaveLoop(r) PROVE BacklogInv'
  <2>1. UNCHANGED <<backlog, link, cur, target, probe, conn>>
    BY <1>26 DEF LeaveLoop, linkVars, listenVars
  <2>2. /\ task[r] \notin {"none", "backlog"} /\ task'[r] # "none"
        /\ \A p \in Calls \ {r} : /\ task'[p] = task[p] /\ at'[p] = at[p]
                                  /\ inbox'[p] = inbox[p] /\ outbox'[p] = outbox[p]
                                  /\ p \in broken' => p \in broken
    BY <1>26 DEF LeaveLoop, Close, Types
  <2> DEFINE s == {r}
  <2>3. /\ s \in SUBSET Calls /\ \A p \in s : task[p] \notin {"none", "backlog"} /\ task'[p] # "none"
        /\ \A p \in Calls \ s : /\ task'[p] = task[p] /\ at'[p] = at[p]
                                /\ inbox'[p] = inbox[p] /\ outbox'[p] = outbox[p]
                                /\ p \in broken' => p \in broken
    BY <2>2
  <2> HIDE DEF s
  <2>. QED  BY <2>1, <2>3, <1>c
<1>27. ASSUME NEW r \in Calls, Break(r) PROVE BacklogInv'
  <2>0. CASE task[r] = "backlog"
    <3>1. /\ UNCHANGED <<backlog, link, cur, target, probe, conn, task, at>>
          /\ broken' = broken \cup {r}
          /\ \A p \in Calls : inbox'[p] \in {inbox[p], <<>>} /\ outbox'[p] \in {outbox[p], <<>>}
      BY <1>27 DEF Break, linkVars, listenVars, Types
    <3>2. ~Fresh(r)
      BY <2>0 DEF BacklogInv
    <3>. QED  BY <3>1, <3>2, <1>f DEF BacklogInv
  <2>z. CASE task[r] # "backlog"
    <3>1. UNCHANGED <<backlog, link, cur, target, probe, conn>>
        BY <1>27, <2>z DEF Break, linkVars, listenVars
    <3>2. /\ task[r] \notin {"none", "backlog"} /\ task'[r] # "none"
          /\ \A p \in Calls \ {r} : /\ task'[p] = task[p] /\ at'[p] = at[p]
                                    /\ inbox'[p] = inbox[p] /\ outbox'[p] = outbox[p]
                                    /\ p \in broken' => p \in broken
        BY <1>27, <2>z DEF Break, Types
    <3> DEFINE s == {r}
    <3>3. /\ s \in SUBSET Calls
          /\ \A p \in s : task[p] \notin {"none", "backlog"} /\ task'[p] # "none"
          /\ \A p \in Calls \ s : /\ task'[p] = task[p] /\ at'[p] = at[p]
                                  /\ inbox'[p] = inbox[p] /\ outbox'[p] = outbox[p]
                                  /\ p \in broken' => p \in broken
      BY <3>2
    <3> HIDE DEF s
    <3>. QED  BY <3>1, <3>3, <1>c
  <2>. QED  BY <2>0, <2>z
<1>28. CASE UNCHANGED vars
  BY <1>28, <1>0 DEF vars, callVars, linkVars, serverVars, listenVars, sideVars, connVars,
      taskVars
<1>. QED
  BY <1>1, <1>2, <1>3, <1>4, <1>5, <1>6, <1>7, <1>8, <1>9, <1>10, <1>11, <1>12, <1>13, <1>14,
     <1>15, <1>16, <1>17, <1>18, <1>19, <1>20, <1>21, <1>22, <1>23, <1>24, <1>25, <1>26, <1>27,
     <1>28
  DEF Next, Link, Actor, Task, Quiescent

-----------------------------------------------------------------------------
(* Requests and responses. *)

LEMMA ExchangeNext ==
  Types /\ LinkInv /\ BacklogInv /\ ExchangeInv /\ [Next]_vars => ExchangeInv'
<1> SUFFICES ASSUME Types, LinkInv, BacklogInv, ExchangeInv, [Next]_vars PROVE ExchangeInv'
  OBVIOUS
<1>q. /\ 0 \notin Calls /\ 0 \notin Servers /\ Elems(queue) \subseteq Calls
      /\ cur # 0 => cur \in Calls
      /\ conn # 0 => conn \in Calls
  BY QueueElems
<1>f. \A r \in Calls : Fresh(r)' => Fresh(r)
  BY FreshNext
<1> DEFINE Answers == \A r \in Calls : call'[r] \in {"ok", "fail"} =>
                                       call'[r] = call[r] /\ answer'[r] = answer[r]
           Tasks   == \A r \in Calls : /\ task'[r] = "callback" <=> task[r] = "callback"
                                       /\ task'[r] = "ended" <=> task[r] = "ended"
<1>k. ASSUME UNCHANGED <<link, cur, conn, broken, inbox, outbox, req, runs>>, Tasks, Answers
      PROVE  ExchangeInv'
  BY <1>k, <1>f DEF ExchangeInv
<1>i. ASSUME link # "wait", link' # "wait", UNCHANGED <<broken, inbox, outbox, req, runs>>,
             Tasks, Answers,
             conn' \in {0, conn} \/ (conn' \in Calls /\ outbox[conn'] = <<>>),
             cur' \in {0, cur} \/ (cur' \in Calls /\ runs[cur'] = 0)
      PROVE  ExchangeInv'
  BY <1>i, <1>f, <1>q DEF ExchangeInv
<1>d. ASSUME UNCHANGED <<link, cur, conn, outbox, runs, call, answer>>,
             NEW s \in SUBSET Calls, Close(s),
             \A r \in Calls : req'[r] = IF r \in s THEN 0 ELSE req[r]
      PROVE  ExchangeInv'
  <2>1. \A r \in Calls : /\ task'[r] = IF r \in s THEN "ended" ELSE task[r]
                         /\ inbox'[r] = IF r \in s THEN <<>> ELSE inbox[r]
                         /\ r \in broken' <=> r \in broken /\ r \notin s
    BY <1>d DEF Close
  <2>. QED  BY <1>d, <1>f, <2>1 DEF ExchangeInv
<1>1. ASSUME NEW r \in Calls, Call(r) PROVE ExchangeInv'
  <2>1. Answers
    <3>1. \A q \in Calls : call'[q] = call[q] \/ (q = r /\ call'[q] \in {"err", "waiting"})
      BY <1>1 DEF Call, Types
    <3>. QED  BY <1>1, <3>1 DEF Call
  <2> HIDE DEF Answers
  <2>. QED  BY <1>1, <2>1, <1>k DEF Call, connVars, sideVars, taskVars
<1>2. CASE DropLink
  BY <1>2, <1>k DEF DropLink, serverVars, listenVars, sideVars, connVars, taskVars
<1>3. CASE Take
  <2>1. Answers
    BY <1>3 DEF Take, callVars
  <2> HIDE DEF Answers
  <2>2. cur' \in Calls /\ runs[cur'] = 0
    <3>1. /\ queue \in Seq(Calls) /\ queue # <<>> /\ cur' = Head(queue)
      BY <1>3 DEF Take, Types
    <3>2. cur' \in Elems(queue) /\ cur' \in Calls
      BY <3>1, Removed
    <3>3. \A r \in Elems(queue) : r \in Calls => runs[r] = 0
      BY DEF ExchangeInv, Fresh
    <3>. QED  BY <3>2, <3>3
  <2>. QED  BY <1>3, <2>1, <2>2, <1>i, <1>q DEF Take, LinkInv, Connecting, callVars, connVars,
      sideVars, taskVars
<1>4. CASE LinkStops
  <2>1. Answers
    BY <1>4 DEF LinkStops, Types
  <2> HIDE DEF Answers
  <2>. QED  BY <1>4, <2>1, <1>i, <1>q DEF LinkStops, LinkInv, Connecting, connVars, sideVars,
      taskVars
<1>5. CASE Lookup
  <2>1. Answers
    BY <1>5 DEF Lookup, callVars
  <2> HIDE DEF Answers
  <2>. QED  BY <1>5, <2>1, <1>i, <1>q DEF Lookup, LinkInv, Connecting, callVars, connVars,
      sideVars, taskVars
<1>6. CASE LookupFails
  <2>1. link # "wait" /\ Finish("err", 0) /\ UNCHANGED <<connVars, taskVars>>
    BY <1>6 DEF LookupFails
  <2>2. Answers
    BY <2>1 DEF Finish, Types
  <2> HIDE DEF Answers
  <2>. QED  BY <2>1, <2>2, <1>i DEF Finish, connVars, sideVars, taskVars
<1>7. CASE Probe
  <2>1. Answers
    BY <1>7 DEF Probe, callVars
  <2> HIDE DEF Answers
  <2>. QED  BY <1>7, <2>1, <1>i, <1>q DEF Probe, LinkInv, Connecting, callVars, connVars,
      sideVars, taskVars
<1>8. CASE Connect
  <2>1. cur \in Calls /\ Fresh(cur) /\ link # "wait" /\ link' # "wait" /\ conn' = cur /\ cur' = cur
    BY <1>8 DEF Connect, Fresh, LinkInv, Busy, Connecting, Exchanging
  <2>2. task[cur] = "none" /\ outbox[cur] = <<>>
    BY <2>1 DEF BacklogInv
  <2>3. Answers /\ Tasks
    BY <1>8, <2>1, <2>2 DEF Connect, callVars, Types
  <2> HIDE DEF Answers, Tasks
  <2>. QED  BY <1>8, <2>1, <2>2, <2>3, <1>i DEF Connect, taskVars
<1>9. CASE ConnectFails
  <2>1. link # "wait" /\ Finish("err", 0) /\ UNCHANGED <<connVars, taskVars>>
    BY <1>9 DEF ConnectFails
  <2>2. Answers
    BY <2>1 DEF Finish, Types
  <2> HIDE DEF Answers
  <2>. QED  BY <2>1, <2>2, <1>i DEF Finish, connVars, sideVars, taskVars
<1>10. CASE HandshakeDone
  <2>1. Answers
    BY <1>10 DEF HandshakeDone, callVars
  <2> HIDE DEF Answers
  <2>. QED  BY <1>10, <2>1, <1>i, <1>q DEF HandshakeDone, LinkInv, Connecting, callVars,
      connVars, sideVars, taskVars
<1>11. CASE Send
  <2>1. /\ cur \in Calls /\ conn \in Calls /\ link = "send" /\ link' = "wait"
        /\ call[cur] = "waiting" /\ cur \notin Elems(queue)
        /\ UNCHANGED <<call, answer, queue, cur, conn, task, broken, outbox, req, runs>>
    BY <1>11 DEF Send, callVars, taskVars, LinkInv, Busy, Connecting, Exchanging
  <2>2. /\ \A c \in Calls : inbox[c] = <<>> /\ (c \in broken \/ req[c] = 0)
        /\ outbox[conn] = <<>> /\ runs[cur] = 0
    BY <2>1 DEF ExchangeInv
  <2>3. CASE HungUp
    BY <1>11, <2>1, <2>2, <2>3, <1>f DEF Send, ExchangeInv
  <2>4. CASE ~HungUp
    <3>1. inbox'[conn] = <<cur>> /\ \A c \in Calls \ {conn} : inbox'[c] = <<>>
      <4>1. inbox' = [inbox EXCEPT ![conn] = Append(inbox[conn], cur)]
        BY <1>11, <2>4 DEF Send
      <4>2. Append(inbox[conn], cur) = <<cur>>
        BY <2>1, <2>2, Single DEF Types
      <4>. QED  BY <2>1, <2>2, <4>1, <4>2 DEF Types
    <3>2. conn \notin broken /\ task[conn] # "ended"
      BY <2>4 DEF HungUp
    <3>3. ASSUME NEW c \in Calls
          PROVE  /\ task'[c] = "callback" <=> req'[c] # 0
                 /\ c \in broken' => inbox'[c] = <<>> /\ outbox'[c] = <<>>
                 /\ task'[c] = "ended" => inbox'[c] = <<>>
                 /\ inbox'[c] # <<>> => c = conn
                 /\ req'[c] # 0 => c \in broken'
                 /\ outbox'[c] # <<>> => c # conn
                 /\ Len(outbox'[c]) <= 1
      BY <2>1, <2>2, <3>1, <3>2 DEF ExchangeInv
    <3>4. /\ \A r \in Calls : Fresh(r)' \/ (r = cur' /\ link' # "wait") => runs'[r] = 0
          /\ \A r \in Calls : call'[r] \in {"ok", "fail"} => answer'[r] = r /\ runs'[r] = 1
      BY <2>1, <1>f DEF ExchangeInv
    <3>. QED  BY <2>1, <2>2, <3>1, <3>2, <3>3, <3>4 DEF ExchangeInv
  <2>. QED  BY <2>3, <2>4
<1>12. CASE Receive
  <2>1. /\ cur \in Calls /\ conn \in Calls /\ link = "wait" /\ outbox[conn] # <<>>
        /\ call[cur] = "waiting" /\ cur \notin Elems(queue)
        /\ UNCHANGED <<queue, task, broken, inbox, req, runs>>
    BY <1>12 DEF Receive, Finish, taskVars, LinkInv, Busy, Connecting, Exchanging
  <2>2. runs[cur] = 1 /\ \E s \in {"ok", "fail"} : outbox[conn] = << <<s, cur>> >>
    BY <2>1 DEF ExchangeInv
  <2>3. PICK s \in {"ok", "fail"} : outbox[conn] = << <<s, cur>> >>
    BY <2>2
  <2>4. Head(outbox[conn])[1] = s /\ Head(outbox[conn])[2] = cur /\ Tail(outbox[conn]) = <<>>
    BY <2>3
  <2>5. /\ call' = [call EXCEPT ![cur] = s] /\ answer' = [answer EXCEPT ![cur] = cur]
        /\ link' = "idle" /\ cur' = 0 /\ conn' \in {0, conn}
        /\ outbox' = [outbox EXCEPT ![conn] = <<>>]
    BY <1>12, <2>4 DEF Receive, Finish, Rest
  <2>6. \A c \in Calls : inbox[c] = <<>> /\ (c \in broken \/ req[c] = 0)
    BY <2>1 DEF ExchangeInv
  <2>7. ASSUME NEW c \in Calls
        PROVE  /\ task'[c] = "callback" <=> req'[c] # 0
               /\ c \in broken' => inbox'[c] = <<>> /\ outbox'[c] = <<>>
               /\ inbox'[c] = <<>>
               /\ req'[c] # 0 => c \in broken'
               /\ outbox'[c] # <<>> => c # conn
               /\ Len(outbox'[c]) <= 1
    <3>1. Len(<<>>) = 0
      OBVIOUS
    <3>2. outbox'[c] = IF c = conn THEN <<>> ELSE outbox[c]
      BY <2>1, <2>5 DEF Types
    <3>3. /\ task[c] = "callback" <=> req[c] # 0
          /\ c \in broken => outbox[c] = <<>>
          /\ Len(outbox[c]) <= 1
      BY DEF ExchangeInv
    <3>. QED  BY <2>1, <2>6, <3>1, <3>2, <3>3
  <2>8. \A r \in Calls : Fresh(r)' \/ (r = cur' /\ link' # "wait") => runs'[r] = 0
    BY <2>1, <2>5, <1>f, <1>q DEF ExchangeInv
  <2>9. \A r \in Calls : call'[r] \in {"ok", "fail"} => answer'[r] = r /\ runs'[r] = 1
    BY SMTT(30), <2>1, <2>2, <2>5 DEF ExchangeInv, Types
  <2>. QED  BY <2>5, <2>7, <2>8, <2>9, <1>q DEF ExchangeInv
<1>13. CASE ReceiveFails
  <2>1. /\ cur \in Calls /\ conn \in Calls /\ link = "wait" /\ outbox[conn] = <<>>
        /\ Finish("err", 0)
        /\ UNCHANGED <<queue, task, broken, inbox, outbox, req, runs>>
    BY <1>13 DEF ReceiveFails, Ends, Finish, connVars, sideVars, taskVars, LinkInv, Busy,
        Connecting, Exchanging
  <2>2. \A c \in Calls : inbox[c] = <<>> /\ (c \in broken \/ req[c] = 0)
    <3>1. conn \in broken \/ task[conn] = "ended"
      BY <1>13 DEF ReceiveFails, HungUp
    <3>2. inbox[conn] = <<>> /\ (conn \in broken \/ req[conn] = 0)
      BY <2>1, <3>1 DEF ExchangeInv
    <3>. QED  BY <2>1, <3>2 DEF ExchangeInv
  <2>3. /\ link' = "idle" /\ cur' = 0 /\ conn' \in {0, conn}
        /\ \A r \in Calls : call'[r] \in {"ok", "fail"} => call'[r] = call[r] /\ answer'[r] = answer[r]
    BY <2>1 DEF Finish, Types
  <2>. QED  BY <2>1, <2>2, <2>3, <1>f, <1>q DEF ExchangeInv
<1>14. CASE Start
  BY <1>14, <1>k DEF Start, callVars, linkVars, sideVars, connVars, taskVars
<1>15. CASE Registered
  BY <1>15, <1>k DEF Registered, callVars, linkVars, listenVars, sideVars, connVars, taskVars
<1>16. CASE RegisterFails
  BY <1>16, <1>k DEF RegisterFails, linkVars, listenVars, sideVars, connVars, taskVars
<1>17. CASE Withdraw
  BY <1>17, <1>k DEF Withdraw, linkVars, listenVars, sideVars, connVars, taskVars
<1>18. CASE Unregistered
  BY <1>18, <1>k DEF Unregistered, callVars, linkVars, listenVars, sideVars, connVars, taskVars
<1>19. CASE Crash
  <2> DEFINE s == {r \in Calls : task[r] # "none"}
  <2>1. Close(s) /\ s \in SUBSET Calls /\ \A r \in Calls : req'[r] = 0
    BY <1>19 DEF Crash
  <2>2. \A r \in Calls \ s : req[r] = 0
    BY DEF ExchangeInv
  <2>3. UNCHANGED <<link, cur, conn, outbox, runs, call, answer>>
    BY <1>19 DEF Crash
  <2> HIDE DEF s
  <2>. QED  BY <2>1, <2>2, <2>3, <1>d
<1>20. ASSUME NEW k \in Servers, Accept(k) PROVE ExchangeInv'
  <2>1. Tasks
    <3>1. CASE UNCHANGED task
      BY <3>1
    <3>2. ASSUME NEW p \in Calls, task[p] = "backlog", task' = [task EXCEPT ![p] = "read"] PROVE Tasks
      BY <3>2 DEF Types
    <3>. QED  BY <1>20, <3>1, <3>2, Accepted
  <2> HIDE DEF Tasks
  <2>. QED  BY <1>20, <2>1, <1>k DEF Accept, callVars, taskVars
<1>21. ASSUME NEW k \in Servers, ListenerEnds(k) PROVE ExchangeInv'
  <2> DEFINE s == {r \in Calls : <<"call", r>> \in Closed(k)}
  <2>1. Close(s) /\ s \in SUBSET Calls
    BY <1>21 DEF ListenerEnds
  <2>2. \A r \in s : req[r] = 0
    <3>1. \A r \in s : task[r] = "backlog"
      BY ZenonT(60), ClosedElems DEF BacklogInv
    <3>. QED  BY <2>1, <3>1 DEF ExchangeInv
  <2>3. UNCHANGED <<link, cur, conn, outbox, runs, req, call, answer>>
    BY <1>21 DEF ListenerEnds, callVars, taskVars
  <2> HIDE DEF s
  <2>. QED  BY <2>1, <2>2, <2>3, <1>d
<1>22. ASSUME NEW k \in Servers, SilentConnects(k) PROVE ExchangeInv'
  BY <1>22, <1>k DEF SilentConnects, callVars, linkVars, serverVars, sideVars, connVars, taskVars
<1>23. ASSUME NEW k \in Servers, SilentLeaves(k) PROVE ExchangeInv'
  BY <1>23, <1>k DEF SilentLeaves, callVars, linkVars, serverVars, sideVars, connVars, taskVars
<1>24. ASSUME NEW r \in Calls, ReadRequest(r) PROVE ExchangeInv'
  <2>1. /\ task[r] = "read" /\ inbox[r] # <<>> /\ r \notin broken
        /\ UNCHANGED <<call, answer, queue, link, cur, conn, broken, outbox>>
    BY <1>24 DEF ReadRequest, callVars, linkVars
  <2>2. /\ link = "wait" /\ r = conn /\ inbox[r] = <<cur>> /\ runs[cur] = 0 /\ outbox[r] = <<>>
        /\ cur \in Calls /\ call[cur] = "waiting" /\ cur \notin Elems(queue)
    BY <2>1 DEF ExchangeInv, LinkInv, Busy, Connecting, Exchanging
  <2>3. Head(inbox[r]) = cur /\ Tail(inbox[r]) = <<>>
    BY <2>2
  <2>4. /\ task' = [task EXCEPT ![r] = "callback"] /\ req' = [req EXCEPT ![r] = cur]
        /\ inbox' = [inbox EXCEPT ![r] = <<>>] /\ runs' = [runs EXCEPT ![cur] = 1]
    <3>1. /\ task' = [task EXCEPT ![r] = "callback"] /\ req' = [req EXCEPT ![r] = cur]
          /\ inbox' = [inbox EXCEPT ![r] = <<>>] /\ runs' = [runs EXCEPT ![cur] = runs[cur] + 1]
      BY <1>24, <2>3 DEF ReadRequest
    <3>. QED  BY <2>2, <3>1
  <2>5. ASSUME NEW c \in Calls
        PROVE  /\ task'[c] = "callback" <=> req'[c] # 0
               /\ c \in broken' => inbox'[c] = <<>> /\ outbox'[c] = <<>>
               /\ inbox'[c] = <<>>
               /\ req'[c] # 0 /\ c \notin broken' => c = r /\ req'[c] = cur
               /\ c = r => outbox'[c] = <<>>
               /\ Len(outbox'[c]) <= 1
    <3>1. /\ task'[c] = IF c = r THEN "callback" ELSE task[c]
          /\ req'[c] = IF c = r THEN cur ELSE req[c]
          /\ inbox'[c] = IF c = r THEN <<>> ELSE inbox[c]
      BY <2>4 DEF Types
    <3>2. /\ task[c] = "callback" <=> req[c] # 0
          /\ c \in broken => outbox[c] = <<>>
          /\ Len(outbox[c]) <= 1
          /\ c # r => inbox[c] = <<>> /\ (req[c] # 0 => c \in broken)
      BY <2>1, <2>2 DEF ExchangeInv
    <3>3. cur # 0
      BY <2>2, <1>q
    <3>. QED  BY <2>1, <2>2, <3>1, <3>2, <3>3
  <2>6. runs'[cur] = 1 /\ \A q \in Calls \ {cur} : runs'[q] = runs[q]
    BY <2>2, <2>4 DEF Types
  <2>7. \A q \in Calls : q = cur => ~Fresh(q)
    BY <2>2 DEF Fresh, Connecting
  <2>8. /\ \A q \in Calls : Fresh(q)' \/ (q = cur' /\ link' # "wait") => runs'[q] = 0
        /\ \A q \in Calls : call'[q] \in {"ok", "fail"} => answer'[q] = q /\ runs'[q] = 1
    BY <2>1, <2>2, <2>6, <2>7, <1>f DEF ExchangeInv
  <2>. QED  BY <2>1, <2>2, <2>5, <2>6, <2>8 DEF ExchangeInv
<1>25. ASSUME NEW r \in Calls, NEW status \in {"ok", "fail"}, Respond(r, status) PROVE ExchangeInv'
  <2>1. /\ task[r] = "callback" /\ req[r] # 0
        /\ \A c \in Calls : req'[c] = IF c = r THEN 0 ELSE req[c]
        /\ UNCHANGED <<call, answer, queue, link, cur, conn, runs>>
    BY <1>25 DEF Respond, callVars, linkVars, ExchangeInv, Types
  <2>2. CASE r \in broken
    <3> DEFINE s == {r}
    <3>1. Close(s) /\ s \in SUBSET Calls /\ outbox' = outbox
      BY <1>25, <2>2 DEF Respond
    <3>2. \A c \in Calls : req'[c] = IF c \in s THEN 0 ELSE req[c]
      BY <2>1
    <3> HIDE DEF s
    <3>. QED  BY <2>1, <3>1, <3>2, <1>d
  <2>3. CASE r \notin broken
    <3>1. /\ link = "wait" /\ r = conn /\ req[r] = cur /\ runs[cur] = 1
          /\ outbox[r] = <<>> /\ inbox[r] = <<>>
      BY <2>1, <2>3 DEF ExchangeInv
    <3>2. cur \in Calls /\ call[cur] = "waiting"
      BY <3>1 DEF LinkInv, Busy, Connecting, Exchanging
    <3>3. outbox'[r] = << <<status, cur>> >> /\ \A c \in Calls \ {r} : outbox'[c] = outbox[c]
      <4>1. outbox' = [outbox EXCEPT ![r] = Append(outbox[r], <<status, cur>>)]
        BY <1>25, <2>3, <3>1 DEF Respond
      <4>2. <<status, cur>> \in {"ok", "fail"} \X Calls
        BY <3>2
      <4>3. Append(outbox[r], <<status, cur>>) = << <<status, cur>> >>
        BY <3>1, <4>2, Single DEF Types
      <4>. QED  BY <4>1, <4>3 DEF Types
    <3>4. /\ task'[r] \in {"read", "ended"} /\ \A c \in Calls \ {r} : task'[c] = task[c]
          /\ \A c \in Calls : inbox'[c] = inbox[c]
          /\ \A c \in Calls : c \in broken' <=> c \in broken
      <4>1. CASE persistent
        BY <1>25, <2>3, <4>1 DEF Respond, Types
      <4>2. CASE ~persistent
        <5>1. Close({r})
          BY <1>25, <4>2 DEF Respond
        <5>. QED  BY <2>3, <3>1, <5>1 DEF Close
      <4>. QED  BY <4>1, <4>2
    <3>5. ASSUME NEW c \in Calls
          PROVE  /\ task'[c] = "callback" <=> req'[c] # 0
                 /\ c \in broken' => inbox'[c] = <<>> /\ outbox'[c] = <<>>
                 /\ inbox'[c] = <<>>
                 /\ req'[c] # 0 => c \in broken'
                 /\ c = conn => outbox'[c] \in {<< <<s, cur>> >> : s \in {"ok", "fail"}}
                 /\ Len(outbox'[c]) <= 1
      <4>1. Len(<< <<status, cur>> >>) = 1
        OBVIOUS
      <4>2. inbox[c] = <<>>
        BY <3>1 DEF ExchangeInv
      <4>3. CASE c = r
        <5>1. outbox'[r] \in {<< <<s, cur>> >> : s \in {"ok", "fail"}}
          BY <3>3
        <5>2. Len(outbox'[r]) = 1
          BY <3>3, <4>1
        <5>3. task'[r] # "callback" /\ req'[r] = 0
          BY <2>1, <3>4
        <5>. QED  BY <2>3, <3>4, <4>2, <4>3, <5>1, <5>2, <5>3
      <4>4. CASE c # r
        BY <2>1, <3>1, <3>3, <3>4, <4>2, <4>4 DEF ExchangeInv
      <4>. QED  BY <4>3, <4>4
    <3>6. /\ \A q \in Calls : Fresh(q)' \/ (q = cur' /\ link' # "wait") => runs'[q] = 0
          /\ \A q \in Calls : call'[q] \in {"ok", "fail"} => answer'[q] = q /\ runs'[q] = 1
      BY <2>1, <1>f DEF ExchangeInv
    <3>. QED  BY <2>1, <3>1, <3>5, <3>6 DEF ExchangeInv
  <2>. QED  BY <2>2, <2>3
<1>26. ASSUME NEW r \in Calls, LeaveLoop(r) PROVE ExchangeInv'
  <2> DEFINE s == {r}
  <2>1. Close(s) /\ s \in SUBSET Calls /\ \A p \in s : req[p] = 0
    BY <1>26 DEF LeaveLoop, ExchangeInv
  <2>2. UNCHANGED <<link, cur, conn, outbox, runs, req, call, answer>>
    BY <1>26 DEF LeaveLoop, callVars, linkVars, taskVars
  <2> HIDE DEF s
  <2>. QED  BY <2>1, <2>2, <1>d
<1>27. ASSUME NEW r \in Calls, Break(r) PROVE ExchangeInv'
  <2>1. /\ UNCHANGED <<call, answer, queue, link, cur, conn, req, runs, task>>
        /\ broken' = broken \cup {r}
        /\ \A c \in Calls : /\ inbox'[c] = IF c = r THEN <<>> ELSE inbox[c]
                            /\ outbox'[c] = IF c = r THEN <<>> ELSE outbox[c]
    BY <1>27 DEF Break, linkVars, taskVars, Types
  <2>2. Len(<<>>) = 0
    OBVIOUS
  <2>. QED  BY <2>1, <2>2, <1>f DEF ExchangeInv
<1>28. CASE UNCHANGED vars
  BY <1>28, <1>k DEF vars, callVars, linkVars, serverVars, listenVars, sideVars, connVars,
      taskVars
<1>. QED
  BY <1>1, <1>2, <1>3, <1>4, <1>5, <1>6, <1>7, <1>8, <1>9, <1>10, <1>11, <1>12, <1>13, <1>14,
     <1>15, <1>16, <1>17, <1>18, <1>19, <1>20, <1>21, <1>22, <1>23, <1>24, <1>25, <1>26, <1>27,
     <1>28
  DEF Next, Link, Actor, Task, Quiescent

-----------------------------------------------------------------------------
(* What makes a call fail. *)

LEMMA CauseNext ==
  Types /\ LinkInv /\ BacklogInv /\ ExchangeInv /\ ServerInv /\ CauseInv /\ ~persistent
  /\ [Next]_vars => CauseInv'
<1> SUFFICES ASSUME Types, LinkInv, BacklogInv, ExchangeInv, ServerInv, CauseInv, ~persistent,
                    [Next]_vars
             PROVE  CauseInv'
  OBVIOUS
<1>q. /\ 0 \notin Calls /\ 0 \notin Servers
      /\ cur # 0 => cur \in Calls
      /\ master # 0 => master \in Servers
  BY QueueElems
<1>l. LinkInv'
  BY LinkNext
<1>e. \A c : Excuse(c) => excused' = excused \cup c
  BY DEF Excuse
<1>k. ASSUME UNCHANGED <<call, server, linked, link, cur, target, probe, starts, conn,
                         broken, task, at, outbox>>, excused \subseteq excused'
      PROVE  CauseInv'
  BY <1>k DEF CauseInv, LinkInv, Busy, Connecting, Exchanging
<1>x. ASSUME \A r \in Calls : call'[r] = "waiting" \/ call'[r] = "err" => r \in excused'
      PROVE  CauseInv'
  BY <1>x, <1>l DEF CauseInv, LinkInv
<1>w. ASSUME UNCHANGED call, Excuse(Waiting)
      PROVE  CauseInv'
  <2>1. \A r \in Calls : call'[r] = "waiting" \/ call'[r] = "err" => r \in excused'
    BY <1>w, <1>e DEF CauseInv, Waiting
  <2>. QED  BY <2>1, <1>x
<1>s. ASSUME UNCHANGED <<call, excused>>, server # "up" \/ ~linked
      PROVE  CauseInv'
  <2>1. \A r \in Calls : call'[r] = "waiting" \/ call'[r] = "err" => r \in excused'
    BY <1>s DEF CauseInv
  <2>. QED  BY <2>1, <1>x
<1>n. ASSUME link' = "idle", UNCHANGED <<server, linked>>, excused \subseteq excused',
             \A r \in Calls : call'[r] = "waiting" => call[r] = "waiting",
             \A r \in Calls : call'[r] = "err" => call[r] = "err" \/ r \in excused'
      PROVE  CauseInv'
  BY <1>n DEF CauseInv, LinkInv, Busy, Connecting, Exchanging
<1>1. ASSUME NEW r \in Calls, Call(r) PROVE CauseInv'
  <2>1. /\ UNCHANGED <<server, linked, link, cur, target, probe, starts, conn>>
        /\ UNCHANGED <<broken, task, at, outbox>>
        /\ \A q \in Calls \ {r} : call'[q] = call[q]
        /\ call'[r] \in {"err", "waiting"} /\ (call'[r] = "err" => link = "stopped")
        /\ call[r] = "new"
    BY <1>1 DEF Call, Types, serverVars, connVars, sideVars
  <2>2. excused' = excused \cup IF server = "up" /\ linked THEN {} ELSE {r}
    BY <1>1, <1>e DEF Call
  <2>3. Busy => cur # r
    BY <2>1 DEF LinkInv
  <2>. QED  BY <2>1, <2>2, <2>3 DEF CauseInv, LinkInv, Busy, Connecting, Exchanging
<1>2. CASE DropLink
  BY <1>2, <1>w DEF DropLink
<1>3. CASE Take
  <2>1. /\ link' = "lookup" /\ probe' = "none" /\ UNCHANGED <<call, excused, server, linked>>
    BY <1>3 DEF Take, callVars, serverVars, LinkInv
  <2>. QED  BY <2>1 DEF CauseInv, LinkInv, Busy, Connecting, Exchanging
<1>4. CASE LinkStops
  <2>1. \A r \in Calls : call'[r] = "waiting" \/ call'[r] = "err" =>
                        call[r] = "err" \/ call[r] = "waiting"
    BY <1>4, QueuedElems DEF LinkStops, LinkInv
  <2>2. \A r \in Calls : call'[r] = "waiting" \/ call'[r] = "err" => r \in excused'
    BY <1>4, <2>1 DEF LinkStops, CauseInv
  <2>. QED  BY <2>2, <1>x
<1>5. CASE Lookup
  <2>1. Busy /\ cur \in Calls /\ call[cur] = "waiting"
    BY <1>5 DEF Lookup, LinkInv, Busy, Connecting, Exchanging
  <2>2. ASSUME cur \notin excused
        PROVE  server = "up" /\ linked /\ master = starts /\ starts \in Servers /\ Listening(starts)
    BY <2>1, <2>2 DEF CauseInv, ServerInv
  <2>3. /\ link' = "probe" /\ target' = master /\ probe = "none"
        /\ UNCHANGED <<call, excused, server, linked, cur, probe, starts>>
    BY <1>5 DEF Lookup, callVars, serverVars, LinkInv
  <2>. QED  BY <2>2, <2>3 DEF CauseInv, LinkInv, Busy, Connecting, Exchanging
<1>6. CASE LookupFails
  <2>1. Busy /\ cur \in Calls /\ call[cur] = "waiting"
    BY <1>6 DEF LookupFails, LinkInv, Busy, Connecting, Exchanging
  <2>2. ASSUME cur \notin excused
        PROVE  server = "up" /\ linked /\ master = starts /\ starts \in Servers /\ Listening(starts)
    BY <2>1, <2>2 DEF CauseInv, ServerInv
  <2>3. cur \in excused'
    BY <1>6, <2>2, <1>q, <1>e DEF LookupFails
  <2>4. /\ link' = "idle" /\ UNCHANGED <<server, linked>> /\ excused \subseteq excused'
        /\ \A r \in Calls : call'[r] = IF r = cur THEN "err" ELSE call[r]
    BY <1>6, <1>e DEF LookupFails, Finish, serverVars, Types
  <2>. QED  BY <2>3, <2>4, <1>n
<1>7. CASE Probe
  BY <1>7 DEF Probe, callVars, serverVars, connVars, sideVars, CauseInv, LinkInv, Busy,
      Connecting, Exchanging
<1>8. CASE Connect
  <2>1. /\ link = "probing" /\ link' = "handshake" /\ conn' = cur /\ cur \in Calls /\ probe' = "none"
        /\ UNCHANGED <<call, excused, server, linked, cur, target, starts, broken>>
    BY <1>8 DEF Connect, callVars, serverVars, LinkInv, Busy, Connecting, Exchanging
  <2>2. task'[cur] = "backlog" /\ at'[cur] = target
    BY <1>8, <2>1 DEF Connect, Types
  <2>3. cur \notin broken
    BY <2>1 DEF BacklogInv, Fresh, Connecting
  <2>. QED  BY <2>1, <2>2, <2>3 DEF CauseInv, LinkInv, Busy, Connecting, Exchanging
<1>9. CASE ConnectFails
  <2>1. Busy /\ cur \in Calls /\ call[cur] = "waiting"
    BY <1>9 DEF ConnectFails, LinkInv, Busy, Connecting, Exchanging
  <2>2. ASSUME cur \notin excused
        PROVE  server = "up" /\ linked /\ master = starts /\ starts \in Servers /\ Listening(starts)
    BY <2>1, <2>2 DEF CauseInv, ServerInv
  <2>3. cur \in excused /\ excused' = excused
    <3>1. ASSUME cur \notin excused PROVE FALSE
      <4>1. link = "probe" \/ link = "probing" => target = starts /\ probe # "closed"
        BY <2>1, <3>1 DEF CauseInv
      <4>2. link = "handshake" => conn \notin broken /\ task[conn] # "ended"
        BY <2>1, <3>1 DEF CauseInv, Exchanging
      <4>. QED  BY <1>9, <2>2, <3>1, <4>1, <4>2 DEF ConnectFails
    <3>. QED  BY <1>9, <3>1 DEF ConnectFails
  <2>4. /\ link' = "idle" /\ UNCHANGED <<server, linked>> /\ excused \subseteq excused'
        /\ \A r \in Calls : call'[r] = IF r = cur THEN "err" ELSE call[r]
    BY <1>9, <1>e DEF ConnectFails, Finish, serverVars, Types
  <2>. QED  BY <2>3, <2>4, <1>n
<1>10. CASE HandshakeDone
  BY <1>10 DEF HandshakeDone, callVars, serverVars, connVars, sideVars, CauseInv, LinkInv, Busy,
      Connecting, Exchanging
<1>11. CASE Send
  BY <1>11 DEF Send, callVars, serverVars, CauseInv, LinkInv, Busy, Connecting, Exchanging
<1>12. CASE Receive
  <2>1. conn \in Calls
    BY <1>12 DEF Receive, LinkInv, Exchanging
  <2>2. Head(outbox[conn])[1] \in {"ok", "fail"}
    <3>1. Head(outbox[conn]) \in {"ok", "fail"} \X Calls
      BY <1>12, <2>1, Removed DEF Receive, Types
    <3>. QED  BY <3>1
  <2>3. \A r \in Calls : call'[r] \in {"ok", "fail", call[r]}
    BY <1>12, <2>2 DEF Receive, Finish, Types
  <2>4. link' = "idle" /\ UNCHANGED <<server, linked, excused>>
    BY <1>12 DEF Receive, Finish, serverVars
  <2>. QED  BY <2>3, <2>4, <1>n
<1>13. CASE ReceiveFails
  <2>1. Busy /\ cur \in Calls /\ call[cur] = "waiting"
    BY <1>13 DEF ReceiveFails, LinkInv, Busy, Connecting, Exchanging
  <2>2. ASSUME cur \notin excused
        PROVE  server = "up" /\ linked /\ master = starts /\ starts \in Servers /\ Listening(starts)
    BY <2>1, <2>2 DEF CauseInv, ServerInv
  <2>3. cur \in excused /\ excused' = excused
    <3>1. cur \notin excused => conn \notin broken /\ (task[conn] = "ended" => outbox[conn] # <<>>)
      BY <1>13, <2>1 DEF ReceiveFails, CauseInv, Exchanging
    <3>. QED  BY <1>13, <3>1 DEF ReceiveFails, HungUp
  <2>4. /\ link' = "idle" /\ UNCHANGED <<server, linked>> /\ excused \subseteq excused'
        /\ \A r \in Calls : call'[r] = IF r = cur THEN "err" ELSE call[r]
    BY <1>13, <1>e DEF ReceiveFails, Ends, Finish, serverVars, Types
  <2>. QED  BY <2>3, <2>4, <1>n
<1>14. CASE Start
  BY <1>14, <1>s DEF Start, callVars
<1>15. CASE Registered
  BY <1>15, <1>s DEF Registered, callVars
<1>16. CASE RegisterFails
  BY <1>16, <1>w DEF RegisterFails
<1>17. CASE Withdraw
  BY <1>17, <1>w DEF Withdraw
<1>18. CASE Unregistered
  BY <1>18, <1>s DEF Unregistered, callVars
<1>19. CASE Crash
  BY <1>19, <1>w DEF Crash
<1>20. ASSUME NEW k \in Servers, Accept(k) PROVE CauseInv'
  <2>1. /\ UNCHANGED <<call, excused, server, linked, link, cur, target, starts, conn>>
        /\ UNCHANGED <<broken, at, outbox>>
    BY <1>20 DEF Accept, callVars, serverVars
  <2>2. probe' \in {probe, "ok"}
    BY <1>20 DEF Accept
  <2>3. \A r \in Calls : task'[r] = "ended" <=> task[r] = "ended"
    <3>1. ASSUME NEW p \in Calls, task[p] = "backlog", task' = [task EXCEPT ![p] = "read"]
          PROVE  \A r \in Calls : task'[r] = "ended" <=> task[r] = "ended"
      BY <3>1 DEF Types
    <3>. QED  BY <1>20, <3>1, Accepted
  <2>. QED  BY <2>1, <2>2, <2>3 DEF CauseInv, LinkInv, Busy, Connecting, Exchanging
<1>21. ASSUME NEW k \in Servers, ListenerEnds(k) PROVE CauseInv'
  <2>1. /\ UNCHANGED <<call, excused, server, linked, link, cur, target, starts, conn>>
        /\ outbox' = outbox /\ broken' \subseteq broken
    BY <1>21 DEF ListenerEnds, Close, callVars, serverVars
  <2>2. /\ probe' = probe \/ <<"probe", cur>> \in Elems(backlog[k])
        /\ \A r \in Calls : <<"call", r>> \notin Elems(backlog[k]) => task'[r] = task[r] /\ at'[r] = at[r]
    BY <1>21, ClosedElems DEF ListenerEnds, Close
  <2>3. ASSUME Busy, cur \notin excused
        PROVE  /\ <<"probe", cur>> \notin Elems(backlog[k])
               /\ Exchanging => <<"call", conn>> \notin Elems(backlog[k])
    <3>1. cur \in Calls /\ k # starts
      BY <1>21, <2>3 DEF ListenerEnds, CauseInv, ServerInv, LinkInv
    <3>2. link # "lookup" => target = starts
      BY <2>3 DEF CauseInv
    <3>3. <<"probe", cur>> \notin Elems(backlog[k])
      BY <3>1, <3>2 DEF BacklogInv
    <3>4. ASSUME Exchanging, <<"call", conn>> \in Elems(backlog[k]) PROVE FALSE
      <4>1. conn \in Calls
        BY <3>4 DEF LinkInv
      <4>2. task[conn] = "backlog" /\ at[conn] = k
        BY <3>4, <4>1 DEF BacklogInv
      <4>. QED  BY <2>3, <3>1, <3>4, <4>2 DEF CauseInv
    <3>. QED  BY <3>3, <3>4
  <2>4. Exchanging => conn \in Calls
    BY DEF LinkInv
  <2>. QED  BY <2>1, <2>2, <2>3, <2>4 DEF CauseInv, LinkInv, Busy, Connecting, Exchanging
<1>22. ASSUME NEW k \in Servers, SilentConnects(k) PROVE CauseInv'
  BY <1>22, <1>k DEF SilentConnects, callVars, linkVars, serverVars, sideVars, connVars, taskVars
<1>23. ASSUME NEW k \in Servers, SilentLeaves(k) PROVE CauseInv'
  BY <1>23, <1>k DEF SilentLeaves, callVars, linkVars, serverVars, sideVars, connVars, taskVars
<1>24. ASSUME NEW r \in Calls, ReadRequest(r) PROVE CauseInv'
  <2>1. /\ UNCHANGED <<call, excused, server, linked, link, cur, target, starts, conn>>
        /\ UNCHANGED <<probe, broken, at, outbox>>
    BY <1>24 DEF ReadRequest, callVars, serverVars, linkVars
  <2>2. \A p \in Calls : task'[p] = "ended" <=> task[p] = "ended"
    BY <1>24 DEF ReadRequest, Types
  <2>. QED  BY <2>1, <2>2 DEF CauseInv, LinkInv, Busy, Connecting, Exchanging
<1>25. ASSUME NEW r \in Calls, NEW status \in {"ok", "fail"}, Respond(r, status) PROVE CauseInv'
  <2>1. /\ UNCHANGED <<call, excused, server, linked, link, cur, target, starts, conn>>
        /\ UNCHANGED probe
    BY <1>25 DEF Respond, callVars, serverVars, linkVars
  <2>2. Close({r}) /\ task[r] = "callback"
    BY <1>25 DEF Respond
  <2>3. broken' \subseteq broken /\ \A p \in Calls \ {r} : task'[p] = task[p] /\ at'[p] = at[p]
    BY <2>2 DEF Close
  <2>4. \A p \in Calls \ {r} : outbox'[p] = outbox[p]
    BY <1>25 DEF Respond, Types
  <2>5. r \notin broken => r = conn /\ link = "wait" /\ outbox'[r] # <<>>
    <3>1. r \notin broken => r = conn /\ link = "wait" /\ req[r] = cur /\ cur \in Calls
      BY <2>2 DEF ExchangeInv, LinkInv, Busy, Connecting, Exchanging
    <3>2. ASSUME r \notin broken PROVE outbox'[r] # <<>>
      <4>1. outbox' = [outbox EXCEPT ![r] = Append(outbox[r], <<status, cur>>)]
        BY <1>25, <3>1, <3>2 DEF Respond
      <4>2. <<status, cur>> \in {"ok", "fail"} \X Calls
        BY <3>1, <3>2
      <4>3. Append(outbox[r], <<status, cur>>) # <<>>
        <5>1. outbox[r] \in Seq({"ok", "fail"} \X Calls)
          BY DEF Types
        <5>. QED  BY <4>2, <5>1, Appended
      <4>. QED  BY <4>1, <4>3 DEF Types
    <3>. QED  BY <3>1, <3>2
  <2>6. /\ Busy' <=> Busy
        /\ Exchanging' <=> Exchanging
        /\ Exchanging => conn \in Calls
    BY <2>1 DEF LinkInv, Busy, Connecting, Exchanging
  <2>7. ASSUME Busy, cur \notin excused, Exchanging
        PROVE  /\ conn \notin broken'
               /\ task'[conn] # "ended" => at'[conn] = starts
               /\ task'[conn] = "ended" => link = "wait" /\ outbox'[conn] # <<>>
    <3>1. /\ conn \notin broken
          /\ task[conn] # "ended" => at[conn] = starts
          /\ task[conn] = "ended" => link = "wait" /\ outbox[conn] # <<>>
      BY <2>7 DEF CauseInv
    <3>2. CASE conn = r
      BY <2>2, <2>3, <2>5, <3>1, <3>2 DEF Close
    <3>3. CASE conn # r
      BY <2>3, <2>4, <2>6, <2>7, <3>1, <3>3
    <3>. QED  BY <3>2, <3>3
  <2>. QED  BY <2>1, <2>6, <2>7 DEF CauseInv
<1>26. ASSUME NEW r \in Calls, LeaveLoop(r) PROVE CauseInv'
  <2>1. /\ UNCHANGED <<call, excused, server, linked, link, cur, target, starts, conn>>
        /\ UNCHANGED <<probe, outbox>>
    BY <1>26 DEF LeaveLoop, callVars, serverVars, linkVars
  <2>2. broken' \subseteq broken /\ \A p \in Calls \ {r} : task'[p] = task[p] /\ at'[p] = at[p]
    BY <1>26 DEF LeaveLoop, Close
  <2>3. ASSUME Busy, cur \notin excused, Exchanging PROVE conn # r
    <3>1. server = "up" /\ starts \notin token
      BY <2>3 DEF CauseInv, ServerInv, LinkInv
    <3>2. conn \notin broken /\ (task[conn] # "ended" => at[conn] = starts)
      BY <2>3 DEF CauseInv
    <3>. QED  BY <1>26, <3>1, <3>2 DEF LeaveLoop, Leaves
  <2>4. Exchanging => conn \in Calls
    BY DEF LinkInv
  <2>. QED  BY <2>1, <2>2, <2>3, <2>4 DEF CauseInv, LinkInv, Busy, Connecting, Exchanging
<1>27. ASSUME NEW r \in Calls, Break(r) PROVE CauseInv'
  <2>1. CASE conn = r
    BY <1>27, <2>1, <1>w DEF Break
  <2>2. CASE conn # r
    <3>1. UNCHANGED <<call, server, linked, link, cur, target, starts, conn, probe, task, at>>
      BY <1>27 DEF Break, serverVars, linkVars
    <3>2. /\ excused' = excused /\ broken' = broken \cup {r}
          /\ \A p \in Calls \ {r} : outbox'[p] = outbox[p]
      <4>1. Excuse({})
        BY <1>27, <2>2 DEF Break
      <4>2. excused' = excused
        BY <4>1, <1>e
      <4>. QED  BY <1>27, <4>2 DEF Break, Types
    <3>3. Exchanging => conn \in Calls
      BY DEF LinkInv
    <3>. QED  BY <2>2, <3>1, <3>2, <3>3 DEF CauseInv, LinkInv, Busy, Connecting, Exchanging
  <2>. QED  BY <2>1, <2>2
<1>28. CASE UNCHANGED vars
  BY <1>28, <1>k DEF vars, callVars, linkVars, serverVars, listenVars, sideVars, connVars,
      taskVars
<1>. QED
  BY <1>1, <1>2, <1>3, <1>4, <1>5, <1>6, <1>7, <1>8, <1>9, <1>10, <1>11, <1>12, <1>13, <1>14,
     <1>15, <1>16, <1>17, <1>18, <1>19, <1>20, <1>21, <1>22, <1>23, <1>24, <1>25, <1>26, <1>27,
     <1>28
  DEF Next, Link, Actor, Task, Quiescent

-----------------------------------------------------------------------------
(* The theorems. *)

Invs == Types /\ LinkInv /\ BacklogInv /\ ExchangeInv /\ ServerInv /\ CauseInv

LEMMA InitInvs == Init => Invs
<1> SUFFICES ASSUME Init PROVE Invs
  OBVIOUS
<1>1. /\ 0 \in 0..MaxCalls /\ 0 \in 0..MaxStarts /\ 0 \in 0..MaxSilent /\ 0 \in 0..1
      /\ 0 \notin Calls /\ 0 \notin Servers
  BY ServiceAssumption DEF Calls, Servers
<1>2. /\ <<>> \in Seq(Calls) /\ <<>> \in Seq(Entry) /\ <<>> \in Seq({"ok", "fail"} \X Calls)
      /\ Len(<<>>) = 0
  OBVIOUS
<1>3. Types
  BY <1>1, <1>2 DEF Init, Types
<1>4. LinkInv
  BY Nothing DEF Init, LinkInv, Busy, Connecting, Exchanging
<1>5. BacklogInv
  <2>1. \A k \in Servers : Elems(backlog[k]) = {} /\ \A x : Once(backlog[k], x)
    BY Nothing DEF Init
  <2>. QED  BY <2>1, <1>1 DEF Init, BacklogInv
<1>6. ExchangeInv
  BY <1>2 DEF Init, ExchangeInv
<1>7. ServerInv /\ CauseInv
  BY DEF Init, ServerInv, CauseInv, Busy, Connecting, Exchanging
<1>. QED  BY <1>3, <1>4, <1>5, <1>6, <1>7 DEF Invs

LEMMA InvsNext == Invs /\ [Next]_vars => Invs'
<1> SUFFICES ASSUME Invs, [Next]_vars PROVE Invs'
  OBVIOUS
<1> USE DEF Invs
<1>1. Types' /\ LinkInv' /\ BacklogInv' /\ ExchangeInv' /\ ServerInv'
  BY TypesNext, LinkNext, BacklogNext, ExchangeNext, ServerNext
<1>2. CauseInv'
  <2>1. CASE ~persistent
    BY <2>1, CauseNext
  <2>2. CASE persistent
    <3>1. persistent' = persistent
      <4>1. ASSUME NEW r \in Calls, Call(r) PROVE persistent' = persistent
        BY <4>1 DEF Call
      <4>2. CASE DropLink
        BY <4>2 DEF DropLink
      <4>3. CASE Take
        BY <4>3 DEF Take
      <4>4. CASE LinkStops
        BY <4>4 DEF LinkStops
      <4>5. CASE Lookup
        BY <4>5 DEF Lookup
      <4>6. CASE LookupFails
        BY <4>6 DEF LookupFails
      <4>7. CASE Probe
        BY <4>7 DEF Probe
      <4>8. CASE Connect
        BY <4>8 DEF Connect
      <4>9. CASE ConnectFails
        BY <4>9 DEF ConnectFails
      <4>10. CASE HandshakeDone
        BY <4>10 DEF HandshakeDone
      <4>11. CASE Send
        BY <4>11 DEF Send
      <4>12. CASE Receive
        BY <4>12 DEF Receive
      <4>13. CASE ReceiveFails
        BY <4>13 DEF ReceiveFails
      <4>14. CASE Start
        BY <4>14 DEF Start
      <4>15. CASE Registered
        BY <4>15 DEF Registered
      <4>16. CASE RegisterFails
        BY <4>16 DEF RegisterFails
      <4>17. CASE Withdraw
        BY <4>17 DEF Withdraw
      <4>18. CASE Unregistered
        BY <4>18 DEF Unregistered
      <4>19. CASE Crash
        BY <4>19 DEF Crash
      <4>20. ASSUME NEW k \in Servers, Accept(k) PROVE persistent' = persistent
        BY <4>20 DEF Accept
      <4>21. ASSUME NEW k \in Servers, ListenerEnds(k) PROVE persistent' = persistent
        BY <4>21 DEF ListenerEnds
      <4>22. ASSUME NEW k \in Servers, SilentConnects(k) PROVE persistent' = persistent
        BY <4>22 DEF SilentConnects
      <4>23. ASSUME NEW k \in Servers, SilentLeaves(k) PROVE persistent' = persistent
        BY <4>23 DEF SilentLeaves
      <4>24. ASSUME NEW r \in Calls, ReadRequest(r) PROVE persistent' = persistent
        BY <4>24 DEF ReadRequest
      <4>25. ASSUME NEW r \in Calls, NEW status \in {"ok", "fail"}, Respond(r, status) PROVE persistent' = persistent
        BY <4>25 DEF Respond
      <4>26. ASSUME NEW r \in Calls, LeaveLoop(r) PROVE persistent' = persistent
        BY <4>26 DEF LeaveLoop
      <4>27. ASSUME NEW r \in Calls, Break(r) PROVE persistent' = persistent
        BY <4>27 DEF Break
      <4>28. CASE UNCHANGED vars
        BY <4>28 DEF vars
      <4>. QED
        BY <4>1, <4>2, <4>3, <4>4, <4>5, <4>6, <4>7, <4>8, <4>9, <4>10, <4>11, <4>12, <4>13, <4>14,
        <4>15, <4>16, <4>17, <4>18, <4>19, <4>20, <4>21, <4>22, <4>23, <4>24, <4>25, <4>26, <4>27,
        <4>28
        DEF Next, Link, Actor, Task, Quiescent
    <3>. QED  BY <2>2, <3>1 DEF CauseInv
  <2>. QED  BY <2>1, <2>2
<1>. QED  BY <1>1, <1>2

LEMMA InvsAlways == Spec => []Invs
<1>. QED  BY InitInvs, InvsNext, PTL DEF Spec

(* The response that a caller gets is the one to its own request, and its    *)
(* callback has been run for it, however many calls share a connection and   *)
(* whatever becomes of them (client.rs:259-270 against server.rs:241-258);   *)
(* types included.                                                           *)
THEOREM ServiceCallAnswerIsOwn == Spec => []AnswerIsOwn
<1>1. Invs => AnswerIsOwn
  <2> SUFFICES ASSUME Invs PROVE AnswerIsOwn
    OBVIOUS
  <2> USE DEF Invs
  <2>1. \A r \in Waiting : r = cur \/ \E i \in DOMAIN queue : queue[i] = r
    <3>1. DOMAIN queue = 1..Len(queue)
      BY DEF Types
    <3>. QED  BY <3>1 DEF Waiting, LinkInv, Elems
  <2>2. \A r \in Calls : Len(inbox[r]) <= 1 /\ Len(outbox[r]) <= 1
    <3>1. \A r \in Calls : inbox[r] = <<>> \/ inbox[r] = <<cur>>
      BY DEF ExchangeInv
    <3>2. Len(<<>>) = 0
      OBVIOUS
    <3>3. ASSUME NEW r \in Calls PROVE Len(inbox[r]) <= 1
      <4>1. CASE inbox[r] = <<>>
        BY <3>2, <4>1
      <4>2. CASE inbox[r] = <<cur>>
        <5>1. Len(<<cur>>) = 1
          OBVIOUS
        <5>. QED  BY <4>2, <5>1
      <4>. QED  BY <3>1, <4>1, <4>2
    <3>. QED  BY <3>3 DEF ExchangeInv
  <2>3. runs \in [Calls -> 0..2]
    <3>1. \A r \in Calls : runs[r] \in 0..2
      BY DEF Types
    <3>. QED  BY <3>1 DEF Types
  <2>4. TypeOK
    BY <2>1, <2>2, <2>3 DEF Types, TypeOK
  <2>. QED  BY <2>4 DEF AnswerIsOwn, ExchangeInv
<1>. QED  BY <1>1, InvsAlways, PTL

(* A callback is never run twice for a call, whatever fails: nothing is      *)
(* tried again (client.rs:214-245).                                          *)
THEOREM ServiceCallExecutedOnce == Spec => []ExecutedOnce
<1>1. Invs => ExecutedOnce
  <2>1. ASSUME Types, NEW r \in Calls PROVE runs[r] <= 1
    <3>1. runs[r] \in 0..1
      BY <2>1 DEF Types
    <3>. QED  BY <3>1
  <2>. QED  BY <2>1 DEF Invs, ExecutedOnce
<1>. QED  BY <1>1, InvsAlways, PTL

(* A call over a link that is not persistent fails only if something failed  *)
(* or stopped while it waited (node/actors/service.rs:213-215).              *)
THEOREM ServiceCallFailsForCause == Spec => []FailsForCause
<1>1. Invs => FailsForCause
  BY DEF Invs, CauseInv, FailsForCause
<1>. QED  BY <1>1, InvsAlways, PTL

=============================================================================
