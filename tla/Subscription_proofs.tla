-------------------------- MODULE Subscription_proofs --------------------------
(***************************************************************************)
(* Proofs about the subscription: for any publishers, handles, channel     *)
(* size and bounds, and also when publishers stop and advertise again,     *)
(* there is one link to a publisher at a time, listed as long as its task  *)
(* runs; handles get each publisher's messages in order and once; and the  *)
(* store holds what a latching publisher sent last.                        *)
(***************************************************************************)
EXTENDS Subscription, TLAPS

-----------------------------------------------------------------------------
(* The inductive invariants. *)

Of(s) == {s[i] : i \in 1..Len(s)}

Sequenced(s) == \A j \in 1..Len(s) : Follows(s[j], Upto(s, j - 1))

(* publisher_addrs has exactly the links whose task runs, the actor is not   *)
(* connecting to one of them, and a link whose task has left its loop is     *)
(* closed, unless the subscription has been dropped.                         *)
LinkInv ==
    /\ \A p \in Pubs : p \in addrs <=> task[p] # "none"
    /\ target \notin addrs /\ (target # None => Adding)
    /\ \A p \in Pubs : sock[p] = "open" =>
          p \in up /\ (Cancelled \/ task[p] \notin {"none", "clean", "remove"})

(* The messages of p go through its link, its task's frame and the channel   *)
(* in an order in which each may follow those before it.                     *)
Pending(p) == IF task[p] = "send" THEN {frame[p]} ELSE {}

Carried(p) == Of(wire[p]) \cup Pending(p) \cup {l \in Of(log) : l[1] = p}

(* What a new link to p may carry first: its messages so far are of earlier  *)
(* publications of p, or of links that have failed.                          *)
Relinkable(p) ==
    p \in up /\ sock[p] # "open" /\ ~Cancelled =>
        \/ \A m \in Carried(p) : m[2] <= base[p]
        \/ \A m \in Carried(p) : m[3] < breaks[p]

Ordered(p) ==
    /\ \A m \in Carried(p) : m \in Frames /\ m[1] = p /\ m[2] <= count[p] /\ m[3] <= breaks[p]
    /\ \A m \in Pending(p) : Follows(m, Of(log))
    /\ \A j \in 1..Len(wire[p]) :
          Follows(wire[p][j], Of(log) \cup Pending(p) \cup Upto(wire[p], j - 1))
    /\ task[p] = "store" => /\ frame[p] \in Of(log) /\ frame[p][1] = p
                            /\ \A i \in 1..Len(log) : IsLast(p, i) => log[i] = frame[p]
    /\ Relinkable(p)

OrderInv == Sequenced(log) /\ \A p \in Pubs : Ordered(p)

(* Each publisher's place in the store has a message of its own that was     *)
(* sent, the last one unless its task is about to store that.                *)
Kept(p) ==
    /\ latched[CleanKey(p)] = <<>>
    /\ latched[StoreKey(p)] # <<>> =>
          latched[StoreKey(p)][1] = p /\ latched[StoreKey(p)] \in Of(log)
    /\ p \in Latchers /\ task[p] # "store" =>
          \A i \in 1..Len(log) : IsLast(p, i) => latched[StoreKey(p)] = log[i]

StoreInv == \A p \in Pubs : Kept(p)

(* What a handle has received, and the latched messages it has yet to read,  *)
(* come before its receiver in the channel; the latter are of publishers it  *)
(* has nothing from, one of each.                                            *)
Opening(h) == actor = "opening" /\ h = asker

Seen(h) == Upto(log, pos[h] - 1)

Reads(h) ==
    /\ handle[h] = "none" => got[h] = <<>>
    /\ backlog[h] \subseteq Of(log) /\ (Opening(h) \/ backlog[h] \subseteq Seen(h))
    /\ \A m, n \in backlog[h] : m[1] = n[1] => m = n
    /\ Of(got[h]) \subseteq Seen(h)
    /\ \A m \in backlog[h], g \in Of(got[h]) : m[1] # g[1]
    /\ Sequenced(got[h])

HandleInv ==
    /\ actor \in {"registering", "opening"} => handle[asker] = "none"
    /\ \A h \in Handles : Reads(h)

Inv == TypeOK /\ LinkInv /\ OrderInv /\ StoreInv /\ HandleInv

-----------------------------------------------------------------------------
(* Sequences, frames and keys. *)

LEMMA Appended ==
  ASSUME NEW S, NEW s \in Seq(S), NEW m \in S
  PROVE  /\ Append(s, m) \in Seq(S) /\ Len(Append(s, m)) = Len(s) + 1 /\ Len(s) \in Nat
         /\ \A i \in 1..Len(s) : Append(s, m)[i] = s[i]
         /\ Append(s, m)[Len(s) + 1] = m
OBVIOUS

LEMMA Removed ==
  ASSUME NEW S, NEW s \in Seq(S), s # <<>>
  PROVE  /\ Tail(s) \in Seq(S) /\ Head(s) \in S /\ Len(Tail(s)) = Len(s) - 1
         /\ Len(s) \in Nat \ {0} /\ Head(s) = s[1]
         /\ \A i \in 1..Len(Tail(s)) : Tail(s)[i] = s[i + 1]
OBVIOUS

LEMMA Nothing == Len(<<>>) = 0 /\ Of(<<>>) = {} /\ Sequenced(<<>>) /\ \A S : <<>> \in Seq(S)
<1>1. Len(<<>>) = 0 /\ 1..0 = {} /\ \A S : <<>> \in Seq(S)
  OBVIOUS
<1>. QED  BY <1>1 DEF Of, Sequenced

(* What may follow S may follow any set with no more of its own publisher.   *)
LEMMA FollowsLess ==
  ASSUME NEW m, NEW S, NEW T, Follows(m, S), \A l \in T : l[1] = m[1] => l \in S
  PROVE  Follows(m, T)
BY DEF Follows

LEMMA UptoAll == ASSUME NEW s \in Seq(Frames) PROVE Upto(s, (Len(s) + 1) - 1) = Of(s)
<1>1. (Len(s) + 1) - 1 = Len(s)
  OBVIOUS
<1>. QED  BY <1>1 DEF Upto, Of

LEMMA OfAppend ==
  ASSUME NEW s \in Seq(Frames), NEW m \in Frames
  PROVE  /\ Append(s, m) \in Seq(Frames)
         /\ Of(Append(s, m)) = Of(s) \cup {m}
         /\ \A j \in 1..Len(s) + 1 : Upto(Append(s, m), j - 1) = Upto(s, j - 1)
         /\ Sequenced(s) /\ Follows(m, Of(s)) => Sequenced(Append(s, m))
<1> DEFINE t == Append(s, m)
<1>1. /\ t \in Seq(Frames) /\ Len(t) = Len(s) + 1 /\ Len(s) \in Nat
      /\ \A i \in 1..Len(s) : t[i] = s[i]
      /\ t[Len(s) + 1] = m
  BY Appended
<1> HIDE DEF t
<1>2. /\ \A i \in 1..Len(t) : (i \in 1..Len(s) /\ t[i] = s[i]) \/ (i = Len(s) + 1 /\ t[i] = m)
      /\ \A i \in 1..Len(s) : i \in 1..Len(t)
      /\ Len(s) + 1 \in 1..Len(t)
      /\ \A j \in 1..Len(s) + 1 : \A i \in 1..j - 1 : i \in 1..Len(s)
  BY <1>1
<1>3. Of(t) = Of(s) \cup {m}
  BY <1>1, <1>2 DEF Of
<1>4. \A j \in 1..Len(s) + 1 : Upto(t, j - 1) = Upto(s, j - 1)
  BY <1>1, <1>2 DEF Upto
<1>5. ASSUME Sequenced(s), Follows(m, Of(s)), NEW j \in 1..Len(t)
      PROVE  Follows(t[j], Upto(t, j - 1))
  <2>1. Upto(t, j - 1) = Upto(s, j - 1)
    BY <1>1, <1>4
  <2>2. CASE j \in 1..Len(s) /\ t[j] = s[j]
    BY <1>5, <2>1, <2>2 DEF Sequenced
  <2>3. CASE j = Len(s) + 1 /\ t[j] = m
    BY <1>5, <2>1, <2>3, UptoAll
  <2>. QED  BY <1>2, <2>2, <2>3
<1>. QED  BY <1>1, <1>3, <1>4, <1>5 DEF t, Sequenced

LEMMA OfTail ==
  ASSUME NEW s \in Seq(Frames), s # <<>>
  PROVE  /\ Tail(s) \in Seq(Frames) /\ Head(s) \in Frames /\ Head(s) = s[1] /\ 1 \in 1..Len(s)
         /\ Of(s) = Of(Tail(s)) \cup {Head(s)}
         /\ \A j \in 1..Len(Tail(s)) :
               /\ j + 1 \in 1..Len(s) /\ Tail(s)[j] = s[j + 1]
               /\ Upto(s, (j + 1) - 1) = Upto(Tail(s), j - 1) \cup {Head(s)}
<1> DEFINE t == Tail(s)
<1>1. /\ t \in Seq(Frames) /\ Head(s) \in Frames /\ Len(t) = Len(s) - 1 /\ Len(s) \in Nat \ {0}
      /\ Head(s) = s[1] /\ \A i \in 1..Len(t) : t[i] = s[i + 1]
  BY Removed
<1> HIDE DEF t
<1>2. /\ 1 \in 1..Len(s)
      /\ \A i \in 1..Len(t) : i + 1 \in 1..Len(s)
      /\ \A i \in 1..Len(s) : i = 1 \/ (i - 1 \in 1..Len(t) /\ (i - 1) + 1 = i)
  BY <1>1
<1>3. Of(s) = Of(t) \cup {Head(s)}
  <2>1. \A i \in 1..Len(s) : s[i] = Head(s) \/ \E k \in 1..Len(t) : s[i] = t[k]
    BY <1>1, <1>2
  <2>. QED  BY <1>1, <1>2, <2>1 DEF Of
<1>4. ASSUME NEW j \in 1..Len(t) PROVE Upto(s, (j + 1) - 1) = Upto(t, j - 1) \cup {Head(s)}
  <2>1. /\ (j + 1) - 1 = j /\ 1 \in 1..j
        /\ \A i \in 1..j : i = 1 \/ (i - 1 \in 1..j - 1 /\ i - 1 \in 1..Len(t) /\ (i - 1) + 1 = i)
        /\ \A i \in 1..j - 1 : i + 1 \in 1..j /\ i \in 1..Len(t)
    BY <1>1
  <2>2. /\ \A i \in 1..j : s[i] = Head(s) \/ \E k \in 1..j - 1 : s[i] = t[k]
        /\ \A k \in 1..j - 1 : \E i \in 1..j : t[k] = s[i]
    BY <1>1, <2>1
  <2>. QED  BY <1>1, <2>1, <2>2 DEF Upto
<1>. QED  BY <1>1, <1>2, <1>3, <1>4 DEF t

LEMMA OfIn == ASSUME NEW s \in Seq(Frames) PROVE Of(s) \subseteq Frames
BY DEF Of

LEMMA FrameParts ==
  \A m \in Frames : m[1] \in Pubs /\ m[2] \in 1..MaxSends /\ m[3] \in 0..MaxBreaks /\ m # <<>>
<1> SUFFICES ASSUME NEW m \in Frames
             PROVE  m[1] \in Pubs /\ m[2] \in 1..MaxSends /\ m[3] \in 0..MaxBreaks /\ m # <<>>
  OBVIOUS
<1>1. m[1] \in Pubs /\ m[2] \in 1..MaxSends /\ m[3] \in 0..MaxBreaks /\ m = <<m[1], m[2], m[3]>>
  BY DEF Frames
<1>2. \A x, y, z : Len(<<x, y, z>>) = 3
  OBVIOUS
<1>3. m # <<>>
  BY <1>1, <1>2, Nothing
<1>. QED  BY <1>1, <1>3

LEMMA FrameMade ==
  ASSUME NEW p \in Pubs, NEW n \in 1..MaxSends, NEW k \in 0..MaxBreaks
  PROVE  /\ <<p, n, k>> \in Frames
         /\ <<p, n, k>>[1] = p /\ <<p, n, k>>[2] = n /\ <<p, n, k>>[3] = k
BY DEF Frames

(* What a new link carries first. *)
LEMMA FirstIs ==
  ASSUME TypeOK, NEW p \in Pubs, NEW s \in First(p)
  PROVE  \/ s = <<>>
         \/ \E m \in Frames : /\ s = <<m>> /\ p \in Latchers /\ m[1] = p /\ m[3] = breaks[p]
                              /\ base[p] < m[2] /\ m[2] <= count[p]
<1> SUFFICES ASSUME s # <<>>
             PROVE  \E m \in Frames : /\ s = <<m>> /\ p \in Latchers /\ m[1] = p /\ m[3] = breaks[p]
                                      /\ base[p] < m[2] /\ m[2] <= count[p]
  OBVIOUS
<1>1. PICK n \in base[p] + 1..count[p] : s = <<<<p, n, breaks[p]>>>> /\ p \in Latchers
  BY DEF First
<1>2. n \in 1..MaxSends /\ base[p] < n /\ n <= count[p] /\ breaks[p] \in 0..MaxBreaks
  <2>1. base[p] \in 0..MaxSends /\ count[p] \in 0..MaxSends /\ breaks[p] \in 0..MaxBreaks
    BY DEF TypeOK
  <2>. QED  BY <2>1, SubscriptionAssumption
<1>3. PICK m \in Frames : m = <<p, n, breaks[p]>> /\ m[1] = p /\ m[2] = n /\ m[3] = breaks[p]
  <2>1. <<p, n, breaks[p]>> \in Frames
    BY <1>2, FrameMade
  <2>. QED  BY <1>2, <2>1, FrameMade
<1>. QED  BY <1>1, <1>2, <1>3

LEMMA Single ==
  ASSUME NEW m \in Frames
  PROVE  /\ <<m>> \in Seq(Frames) /\ Of(<<m>>) = {m}
         /\ \A j \in 1..Len(<<m>>) : <<m>>[j] = m /\ Upto(<<m>>, j - 1) = {}
<1>1. <<m>> \in Seq(Frames) /\ Len(<<m>>) = 1 /\ <<m>>[1] = m
  OBVIOUS
<1>2. 1..1 = {1} /\ 1..1 - 1 = {}
  OBVIOUS
<1>3. \A j \in 1..1 : j = 1
  OBVIOUS
<1>. QED  BY <1>1, <1>2, <1>3 DEF Of, Upto

(* A message sent is of its publisher. *)
LEMMA Sends ==
  ASSUME OrderInv, NEW p \in Pubs, task[p] \in {"send", "store"}
  PROVE  frame[p] \in Frames /\ frame[p][1] = p
<1>1. frame[p] \in Carried(p)
  BY DEF OrderInv, Ordered, Carried, Pending
<1>. QED  BY <1>1 DEF OrderInv, Ordered

LEMMA KeyParts ==
  \A p \in Pubs :
     /\ StoreKey(p) \in Keys /\ CleanKey(p) \in Keys
     /\ \A q \in Pubs : StoreKey(p) # CleanKey(q) /\ (StoreKey(p) = StoreKey(q) => p = q)
                        /\ (CleanKey(p) = CleanKey(q) => p = q)
BY DEF StoreKey, CleanKey, Keys

LEMMA KeysAre == \A k \in Keys : \E p \in Pubs : k = StoreKey(p) \/ k = CleanKey(p)
BY DEF StoreKey, CleanKey, Keys

LEMMA TypesNext ==
  TypeOK /\ OrderInv /\ [Next]_vars => TypeOK'
<1> SUFFICES ASSUME TypeOK, OrderInv, [Next]_vars PROVE TypeOK'
  OBVIOUS
<1> USE SubscriptionAssumption DEF TypeOK
<1>1. CASE Update
  <2>1. Head(mailbox) \in SUBSET Pubs /\ mailbox' \in Seq(SUBSET Pubs)
    BY <1>1, Removed DEF Update
  <2>. QED  BY <1>1, <2>1 DEF Update, Known, remoteVars, actorVars, handleVars, taskVars
<1>2. CASE Connected
  <2>1. PICK first \in First(target) : wire' = [wire EXCEPT ![target] = first]
    BY <1>2 DEF Connected
  <2>2. target \in Pubs /\ first \in Seq(Frames)
    <3>1. target \in Pubs
      BY <1>2 DEF Connected
    <3>. HIDE DEF TypeOK
    <3>2. first = <<>> \/ \E m \in Frames : first = <<m>>
      BY <3>1, FirstIs
    <3>. QED  BY <3>1, <3>2, Single, Nothing
  <2>3. wire' \in [Pubs -> Seq(Frames)] /\ target \in Pubs
    BY <2>1, <2>2
  <2>. QED  BY <1>2, <2>3 DEF Connected, remoteVars, actorVars, handleVars, taskVars
<1>3. CASE ConnectFails
  BY <1>3 DEF ConnectFails, Left, remoteVars, actorVars, handleVars, taskVars
<1>4. CASE Registered
  BY <1>4 DEF Registered, remoteVars, actorVars, handleVars, taskVars
<1>5. CASE UpdateDone
  BY <1>5 DEF UpdateDone, remoteVars, actorVars, handleVars, taskVars
<1>6. CASE Open
  <2>1. Len(log) + 1 \in Nat /\ Len(log) + 1 \in 1..Len(log) + 1
    OBVIOUS
  <2>. QED  BY <1>6, <2>1 DEF Open, Start, remoteVars, actorVars, handleVars, taskVars
<1>7. ASSUME NEW p \in Pubs, Connect(p) PROVE TypeOK'
  BY <1>7 DEF Connect, Known, remoteVars, actorVars, handleVars, taskVars
<1>8. CASE DropSubscription
  <2>1. mailbox' \in Seq(SUBSET Pubs)
    BY <1>8, Nothing DEF DropSubscription
  <2>. QED  BY <1>8, <2>1 DEF DropSubscription, remoteVars, actorVars, handleVars, taskVars
<1>9. ASSUME NEW p \in Pubs, Advertise(p) PROVE TypeOK'
  <2>1. up' \in SUBSET Pubs /\ mailbox \in Seq(SUBSET Pubs)
    BY <1>9 DEF Advertise
  <2>2. mailbox' \in Seq(SUBSET Pubs)
    BY <1>9, <2>1, Appended DEF Advertise, Updated
  <2>3. starts' \in [Pubs -> 0..MaxStarts]
    BY SMTT(30), <1>9 DEF Advertise
  <2>4. base' \in [Pubs -> 0..MaxSends]
    BY <1>9 DEF Advertise
  <2>. QED  BY <1>9, <2>1, <2>2, <2>3, <2>4 DEF Advertise, Updated, Cancelled, remoteVars, actorVars, handleVars, taskVars
<1>10. ASSUME NEW p \in Pubs, Unadvertise(p) PROVE TypeOK'
  <2>1. up' \in SUBSET Pubs /\ mailbox \in Seq(SUBSET Pubs)
    BY <1>10 DEF Unadvertise
  <2>2. mailbox' \in Seq(SUBSET Pubs)
    BY <1>10, <2>1, Appended DEF Unadvertise, Updated
  <2>3. starts' \in [Pubs -> 0..MaxStarts]
    BY <1>10 DEF Unadvertise
  <2>. QED  BY <1>10, <2>1, <2>2, <2>3 DEF Unadvertise, Updated, Cancelled, Closes, remoteVars, actorVars, handleVars, taskVars
<1>11. ASSUME NEW p \in Pubs, Breaks(p) PROVE TypeOK'
  <2>1. breaks' \in [Pubs -> 0..MaxBreaks]
    BY SMTT(30), <1>11 DEF Breaks
  <2>. QED  BY <1>11, <2>1 DEF Breaks, Closes, remoteVars, actorVars, handleVars, taskVars
<1>12. ASSUME NEW p \in Pubs, Publish(p) PROVE TypeOK'
  <2>1. count[p] + 1 \in 1..MaxSends /\ count' = [count EXCEPT ![p] = count[p] + 1]
    <3>1. count[p] \in 0..MaxSends /\ count[p] < MaxSends /\ MaxSends \in Nat
      BY <1>12 DEF Publish
    <3>2. count[p] + 1 \in 1..MaxSends
      BY SMTT(30), <3>1
    <3>. QED  BY <1>12, <3>2 DEF Publish
  <2>2. <<p, count'[p], breaks[p]>> \in Frames /\ wire[p] \in Seq(Frames)
    <3>1. count'[p] \in 1..MaxSends /\ breaks[p] \in 0..MaxBreaks
      BY <2>1
    <3>. QED  BY <3>1, FrameMade
  <2>3. wire' \in [Pubs -> Seq(Frames)]
    <3>1. CASE wire' = [wire EXCEPT ![p] = Append(@, <<p, count'[p], breaks[p]>>)]
      BY <2>2, <3>1, Appended
    <3>2. CASE UNCHANGED wire
      BY <3>2
    <3>. QED  BY <1>12, <3>1, <3>2 DEF Publish
  <2>4. count' \in [Pubs -> 0..MaxSends]
    BY SMTT(30), <2>1
  <2>. QED  BY <1>12, <2>3, <2>4 DEF Publish, remoteVars, actorVars, handleVars, taskVars
<1>13. ASSUME NEW p \in Pubs, ReadFrame(p) PROVE TypeOK'
  <2>1. /\ Head(wire[p]) \in Frames /\ Tail(wire[p]) \in Seq(Frames)
        /\ frame' = [frame EXCEPT ![p] = Head(wire[p])]
        /\ wire' = [wire EXCEPT ![p] = Tail(wire[p])]
    BY <1>13, Removed DEF ReadFrame
  <2>2. wire' \in [Pubs -> Seq(Frames)] /\ frame' \in [Pubs -> Frames \cup {<<>>}]
    BY <2>1
  <2>. QED  BY <1>13, <2>2 DEF ReadFrame, remoteVars, actorVars, handleVars, taskVars
<1>14. ASSUME NEW p \in Pubs, LeaveLoop(p) PROVE TypeOK'
  BY <1>14 DEF LeaveLoop, remoteVars, actorVars, handleVars, taskVars
<1>15. ASSUME NEW p \in Pubs, SendFrame(p) PROVE TypeOK'
  <2>1. frame[p] \in Frames
    BY <1>15, Sends DEF SendFrame
  <2>2. Append(log, frame[p]) \in Seq(Frames) /\ Len(Append(log, frame[p])) = Len(log) + 1
    BY <2>1, Appended
  <2>3. log' \in Seq(Frames) /\ (Len(log') = Len(log) \/ Len(log') = Len(log) + 1)
    BY <1>15, <2>2 DEF SendFrame
  <2>4. \A h \in Handles : pos'[h] \in 1..Len(log') + 1
    BY <1>15, <2>3 DEF SendFrame, handleVars
  <2>. QED  BY <1>15, <2>3, <2>4 DEF SendFrame, remoteVars, actorVars, handleVars, taskVars
<1>16. ASSUME NEW p \in Pubs, Store(p) PROVE TypeOK'
  <2>1. frame[p] \in Frames
    BY <1>16, Sends DEF Store
  <2>. QED  BY <1>16, <2>1 DEF Store, remoteVars, actorVars, handleVars, taskVars
<1>17. ASSUME NEW p \in Pubs, Clean(p) PROVE TypeOK'
  BY <1>17 DEF Clean, remoteVars, actorVars, handleVars, taskVars
<1>18. ASSUME NEW p \in Pubs, Remove(p) PROVE TypeOK'
  <2>1. wire' \in [Pubs -> Seq(Frames)]
    BY <1>18, Nothing DEF Remove
  <2>. QED  BY <1>18, <2>1 DEF Remove, Without, remoteVars, actorVars, handleVars, taskVars
<1>19. ASSUME NEW h \in Handles, ReceiveLatched(h) PROVE TypeOK'
  <2>1. PICK m \in backlog[h] : /\ got' = [got EXCEPT ![h] = Append(@, m)]
                                /\ backlog' = [backlog EXCEPT ![h] = @ \ {m}]
    BY <1>19 DEF ReceiveLatched
  <2>2. m \in Frames /\ got[h] \in Seq(Frames)
    OBVIOUS
  <2>3. got' \in [Handles -> Seq(Frames)]
    BY <2>1, <2>2, Appended
  <2>. QED  BY <1>19, <2>1, <2>3 DEF ReceiveLatched, remoteVars, actorVars, handleVars, taskVars
<1>20. ASSUME NEW h \in Handles, Receive(h) PROVE TypeOK'
  <2>1. pos[h] \in 1..Len(log) /\ pos[h] + 1 \in 1..Len(log) + 1 /\ Len(log) \in Nat
    BY SMTT(30), <1>20, SubscriptionAssumption DEF Receive, Oldest
  <2>2. log[pos[h]] \in Frames /\ got[h] \in Seq(Frames)
    BY <2>1
  <2>3. got' \in [Handles -> Seq(Frames)]
    BY <1>20, <2>2, Appended DEF Receive
  <2>4. pos' \in [Handles -> Nat] /\ \A g \in Handles : pos'[g] \in 1..Len(log) + 1
    <3>1. pos' = [pos EXCEPT ![h] = pos[h] + 1] /\ pos[h] + 1 \in Nat
      BY <1>20, <2>1 DEF Receive
    <3>. QED  BY <2>1, <3>1
  <2>. QED  BY <1>20, <2>3, <2>4 DEF Receive, remoteVars, actorVars, handleVars, taskVars
<1>21. ASSUME NEW h \in Handles, ReceiveLagged(h) PROVE TypeOK'
  <2>1. Oldest \in Nat /\ Oldest \in 1..Len(log) + 1
    BY SMTT(30), SubscriptionAssumption DEF Oldest
  <2>. QED  BY <1>21, <2>1 DEF ReceiveLagged, remoteVars, actorVars, handleVars, taskVars
<1>22. ASSUME NEW h \in Handles, ReceiveClosed(h) PROVE TypeOK'
  BY <1>22 DEF ReceiveClosed, remoteVars, actorVars, handleVars, taskVars
<1>23. ASSUME NEW h \in Handles, DropHandle(h) PROVE TypeOK'
  <2>1. /\ got' \in [Handles -> Seq(Frames)] /\ pos' \in [Handles -> Nat]
        /\ \A g \in Handles : pos'[g] \in 1..Len(log) + 1
    <3>1. 1 \in 1..Len(log) + 1 /\ <<>> \in Seq(Frames)
      BY Nothing
    <3>. QED  BY <1>23, <3>1 DEF DropHandle
  <2>. QED  BY <1>23, <2>1 DEF DropHandle, remoteVars, actorVars, handleVars, taskVars
<1>24. ASSUME NEW h \in Handles, CopyLatched(h) PROVE TypeOK'
  <2>1. Stored \in SUBSET Frames
    BY DEF Stored
  <2>. QED  BY <1>24, <2>1 DEF CopyLatched, remoteVars, actorVars, handleVars, taskVars
<1>25. ASSUME NEW h \in Handles, NEW g \in Handles, CloneHandle(h, g) PROVE TypeOK'
  <2>1. Len(log) + 1 \in Nat /\ Len(log) + 1 \in 1..Len(log) + 1
    BY SMTT(30)
  <2>. QED  BY <1>25, <2>1 DEF CloneHandle, remoteVars, actorVars, handleVars, taskVars
<1>26. CASE UNCHANGED vars
  BY <1>26 DEF vars, remoteVars, actorVars, handleVars, taskVars
<1>. QED
  BY <1>1, <1>2, <1>3, <1>4, <1>5, <1>6, <1>7, <1>8, <1>9, <1>10, <1>11, <1>12, <1>13, <1>14,
     <1>15, <1>16, <1>17, <1>18, <1>19, <1>20, <1>21, <1>22, <1>23, <1>24, <1>25, <1>26
  DEF Next, Actor, Task, Handle, Publisher, Quiescent

LEMMA LinkNext ==
  TypeOK /\ LinkInv /\ [Next]_vars => LinkInv'
<1> SUFFICES ASSUME TypeOK, LinkInv, [Next]_vars PROVE LinkInv'
  OBVIOUS
<1> USE SubscriptionAssumption DEF TypeOK, LinkInv, Adding, Cancelled
<1>k. ASSUME UNCHANGED <<addrs, task, target, actor, up, sock>> PROVE LinkInv'
  BY <1>k DEF LinkInv
<1>1. CASE Update
  BY <1>1 DEF Update, Known, remoteVars, actorVars, handleVars, taskVars
<1>2. CASE Connected
  BY <1>2 DEF Connected, remoteVars, actorVars, handleVars, taskVars
<1>3. CASE ConnectFails
  BY <1>3 DEF ConnectFails, Left, remoteVars, actorVars, handleVars, taskVars
<1>4. CASE Registered
  BY <1>4 DEF Registered, remoteVars, actorVars, handleVars, taskVars
<1>5. CASE UpdateDone
  BY <1>5 DEF UpdateDone, remoteVars, actorVars, handleVars, taskVars
<1>6. CASE Open
  BY <1>6 DEF Open, Start, remoteVars, actorVars, handleVars, taskVars
<1>7. ASSUME NEW p \in Pubs, Connect(p) PROVE LinkInv'
  BY <1>7 DEF Connect, Known, remoteVars, actorVars, handleVars, taskVars
<1>8. CASE DropSubscription
  BY <1>8 DEF DropSubscription, remoteVars, actorVars, handleVars, taskVars
<1>9. ASSUME NEW p \in Pubs, Advertise(p) PROVE LinkInv'
  BY <1>9 DEF Advertise, Updated, Cancelled, remoteVars, actorVars, handleVars, taskVars
<1>10. ASSUME NEW p \in Pubs, Unadvertise(p) PROVE LinkInv'
  BY <1>10 DEF Unadvertise, Updated, Cancelled, Closes, remoteVars, actorVars, handleVars, taskVars
<1>11. ASSUME NEW p \in Pubs, Breaks(p) PROVE LinkInv'
  BY <1>11, <1>k DEF Breaks, Closes, remoteVars, actorVars, handleVars, taskVars
<1>12. ASSUME NEW p \in Pubs, Publish(p) PROVE LinkInv'
  BY <1>12, <1>k DEF Publish, remoteVars, actorVars, handleVars, taskVars
<1>13. ASSUME NEW p \in Pubs, ReadFrame(p) PROVE LinkInv'
  BY <1>13 DEF ReadFrame, remoteVars, actorVars, handleVars, taskVars
<1>14. ASSUME NEW p \in Pubs, LeaveLoop(p) PROVE LinkInv'
  BY <1>14 DEF LeaveLoop, Leaves, remoteVars, actorVars, handleVars, taskVars
<1>15. ASSUME NEW p \in Pubs, SendFrame(p) PROVE LinkInv'
  BY SMTT(30), <1>15 DEF SendFrame, HasReceivers, remoteVars, actorVars, handleVars, taskVars
<1>16. ASSUME NEW p \in Pubs, Store(p) PROVE LinkInv'
  BY <1>16 DEF Store, remoteVars, actorVars, handleVars, taskVars
<1>17. ASSUME NEW p \in Pubs, Clean(p) PROVE LinkInv'
  BY <1>17 DEF Clean, remoteVars, actorVars, handleVars, taskVars
<1>18. ASSUME NEW p \in Pubs, Remove(p) PROVE LinkInv'
  BY <1>18 DEF Remove, Without, remoteVars, actorVars, handleVars, taskVars
<1>19. ASSUME NEW h \in Handles, ReceiveLatched(h) PROVE LinkInv'
  BY <1>19, <1>k DEF ReceiveLatched, remoteVars, actorVars, handleVars, taskVars
<1>20. ASSUME NEW h \in Handles, Receive(h) PROVE LinkInv'
  BY <1>20, <1>k DEF Receive, remoteVars, actorVars, handleVars, taskVars
<1>21. ASSUME NEW h \in Handles, ReceiveLagged(h) PROVE LinkInv'
  BY <1>21, <1>k DEF ReceiveLagged, remoteVars, actorVars, handleVars, taskVars
<1>22. ASSUME NEW h \in Handles, ReceiveClosed(h) PROVE LinkInv'
  BY <1>22, <1>k DEF ReceiveClosed, remoteVars, actorVars, handleVars, taskVars
<1>23. ASSUME NEW h \in Handles, DropHandle(h) PROVE LinkInv'
  BY <1>23, <1>k DEF DropHandle, remoteVars, actorVars, handleVars, taskVars
<1>24. ASSUME NEW h \in Handles, CopyLatched(h) PROVE LinkInv'
  BY <1>24 DEF CopyLatched, remoteVars, actorVars, handleVars, taskVars
<1>25. ASSUME NEW h \in Handles, NEW g \in Handles, CloneHandle(h, g) PROVE LinkInv'
  BY <1>25, <1>k DEF CloneHandle, remoteVars, actorVars, handleVars, taskVars
<1>26. CASE UNCHANGED vars
  BY <1>26, <1>k DEF vars, remoteVars, actorVars, handleVars, taskVars
<1>. QED
  BY <1>1, <1>2, <1>3, <1>4, <1>5, <1>6, <1>7, <1>8, <1>9, <1>10, <1>11, <1>12, <1>13, <1>14,
     <1>15, <1>16, <1>17, <1>18, <1>19, <1>20, <1>21, <1>22, <1>23, <1>24, <1>25, <1>26
  DEF Next, Actor, Task, Handle, Publisher, Quiescent

(* The last message of q in the channel stays so when another's is sent. *)
LEMMA LastKept ==
  ASSUME log \in Seq(Frames), NEW m \in Frames, log' = Append(log, m), NEW q, m[1] # q,
         NEW i \in 1..Len(log'), IsLast(q, i)'
  PROVE  i \in 1..Len(log) /\ log'[i] = log[i] /\ IsLast(q, i)
<1>1. /\ Len(log') = Len(log) + 1 /\ Len(log) \in Nat /\ log'[Len(log) + 1] = m
      /\ \A j \in 1..Len(log) : log'[j] = log[j]
  BY Appended
<1>2. i \in 1..Len(log) /\ \A j \in i + 1..Len(log) : j \in i + 1..Len(log') /\ j \in 1..Len(log)
  BY <1>1 DEF IsLast
<1>. QED  BY <1>1, <1>2 DEF IsLast

LEMMA OrderNext ==
  TypeOK /\ LinkInv /\ OrderInv /\ [Next]_vars => OrderInv'
<1> SUFFICES ASSUME TypeOK, LinkInv, OrderInv, [Next]_vars PROVE OrderInv'
  OBVIOUS
<1>o. Sequenced(log) /\ \A q \in Pubs : Ordered(q)
  BY DEF OrderInv
<1>n. \A q \in Pubs : \A m \in Carried(q) :
         /\ m \in Frames /\ m[1] = q /\ m[2] \in 1..MaxSends /\ m[3] \in 0..MaxBreaks
         /\ m[2] <= count[q] /\ m[3] <= breaks[q]
  BY <1>o, FrameParts DEF Ordered
<1>t. /\ \A q \in Pubs : count[q] \in Nat /\ base[q] \in Nat /\ breaks[q] \in Nat /\ wire[q] \in Seq(Frames)
      /\ log \in Seq(Frames) /\ MaxSends \in Nat /\ MaxBreaks \in Nat /\ None \notin Pubs
  BY SubscriptionAssumption DEF TypeOK
(* A publisher whose messages the step leaves alone. *)
<1>g. ASSUME NEW q \in Pubs, UNCHANGED log, wire'[q] = wire[q], frame'[q] = frame[q],
             task'[q] = "send" <=> task[q] = "send", task'[q] = "store" => task[q] = "store",
             \A m \in Carried(q) : m[2] <= count'[q] /\ m[3] <= breaks'[q], Relinkable(q)'
      PROVE  Ordered(q)'
  <2>1. Pending(q)' = Pending(q) /\ Carried(q)' = Carried(q)
    BY <1>g DEF Pending, Carried
  <2>2. task'[q] = "store" =>
          /\ frame'[q] \in Of(log') /\ frame'[q][1] = q
          /\ \A i \in 1..Len(log') : IsLast(q, i)' => log'[i] = frame'[q]
    BY <1>o, <1>g DEF Ordered, IsLast
  <2>. QED  BY <1>n, <1>o, <1>g, <2>1, <2>2 DEF Ordered
(* A publisher whose link and task it leaves alone, too. *)
<1>s. ASSUME NEW q \in Pubs, UNCHANGED log, q \in up' => q \in up, Cancelled => Cancelled',
             /\ wire'[q] = wire[q] /\ frame'[q] = frame[q] /\ count'[q] = count[q]
             /\ base'[q] = base[q] /\ breaks'[q] = breaks[q] /\ sock'[q] = sock[q],
             task'[q] = "send" <=> task[q] = "send", task'[q] = "store" => task[q] = "store"
      PROVE  Ordered(q)'
  <2>1. Carried(q)' = Carried(q)
    BY <1>s DEF Pending, Carried
  <2>2. Relinkable(q)'
    BY <1>o, <1>s, <2>1 DEF Ordered, Relinkable
  <2>. QED  BY <1>g, <1>n, <1>s, <2>2
<1>f. ASSUME UNCHANGED <<wire, count, frame, log, base, breaks, up, sock>>, Cancelled => Cancelled',
             \A q \in Pubs : (task'[q] = "send" <=> task[q] = "send")
                           /\ (task'[q] = "store" => task[q] = "store")
      PROVE  OrderInv'
  BY <1>f, <1>o, <1>s DEF OrderInv
<1>k. ASSUME UNCHANGED <<wire, count, frame, log, base, breaks, up, sock, task, actor>> PROVE OrderInv'
  BY <1>k, <1>f DEF Cancelled
<1>a. ASSUME UNCHANGED <<wire, count, frame, log, base, breaks, up, sock, task>>, actor # "gone"
      PROVE  OrderInv'
  BY <1>a, <1>f DEF Cancelled
<1>1. CASE Update
  BY <1>1, <1>a DEF Update, Known, remoteVars, actorVars, handleVars, taskVars
<1>2. CASE Connected
  <2>1. PICK first \in First(target) : wire' = [wire EXCEPT ![target] = first]
    BY <1>2 DEF Connected
  <2>2. /\ target \in Pubs /\ UNCHANGED <<count, frame, log, base, breaks, up, actor>>
        /\ wire'[target] = first /\ task'[target] = "reading" /\ sock'[target] = "open"
        /\ \A q \in Pubs \ {target} : /\ wire'[q] = wire[q] /\ task'[q] = task[q]
                                      /\ sock'[q] = sock[q]
    BY <1>2, <2>1 DEF Connected, TypeOK, taskVars
  <2>3. task[target] = "none" /\ sock[target] # "open" /\ ~Cancelled /\ target \in up
    BY <1>2, <2>2, <1>t DEF LinkInv, Adding, Cancelled, Connected
  <2>4. ASSUME NEW q \in Pubs PROVE Ordered(q)'
    <3>1. CASE q = target
      <4>1. Pending(q) = {} /\ Pending(q)' = {} /\ Carried(q)' = Of(first) \cup {l \in Of(log) : l[1] = q}
        BY <2>2, <2>3, <3>1 DEF Pending, Carried
      <4>2. Relinkable(q)'
        BY <2>2, <3>1 DEF Relinkable
      <4>3. CASE first = <<>>
        <5>1. \A m \in Carried(q)' : m \in Carried(q)
          BY <4>1, <4>3, Nothing DEF Carried
        <5>2. 1..Len(wire'[q]) = {}
          BY <2>2, <3>1, <4>3, Nothing
        <5>. QED  BY <1>n, <2>2, <3>1, <4>1, <4>2, <5>1, <5>2 DEF Ordered
      <4>4. CASE first # <<>>
        <5>1. PICK m \in Frames : /\ first = <<m>> /\ q \in Latchers /\ m[1] = q /\ m[3] = breaks[q]
                                  /\ base[q] < m[2] /\ m[2] <= count[q]
          BY <2>2, <3>1, <4>4, FirstIs
        <5>2. \A l \in Carried(q)' : /\ l \in Frames /\ l[1] = q /\ l[2] <= count[q] /\ l[3] <= breaks[q]
          BY <1>n, <4>1, <5>1, <1>t, Single DEF Carried
        <5>3. Follows(m, Of(log))
          <6>1. \/ \A l \in Carried(q) : l[2] <= base[q]
                \/ \A l \in Carried(q) : l[3] < breaks[q]
            BY <1>o, <2>3, <3>1 DEF Ordered, Relinkable
          <6>2. \A l \in Of(log) : l[1] = m[1] => l \in Carried(q)
            BY <5>1 DEF Carried
          <6>3. m[2] \in Nat
            BY <5>1, FrameParts
          <6>4. \A l \in Carried(q) : l[2] <= base[q] => l[2] < m[2]
            BY <1>n, <1>t, <5>1, <6>3
          <6>. QED  BY <5>1, <6>1, <6>2, <6>4 DEF Follows
        <5>4. \A j \in 1..Len(first) :
                 Follows(first[j], Of(log) \cup {} \cup Upto(first, j - 1))
          <6>1. \A j \in 1..Len(first) : first[j] = m /\ Upto(first, j - 1) = {}
            BY <5>1, Single
          <6>2. Of(log) \cup {} \cup {} = Of(log)
            OBVIOUS
          <6>. QED  BY <5>3, <6>1, <6>2
        <5>. QED  BY <2>2, <3>1, <4>1, <4>2, <5>2, <5>4 DEF Ordered
      <4>. QED  BY <4>3, <4>4
    <3>2. CASE q # target
      BY <1>s, <2>2, <3>2 DEF Cancelled
    <3>. QED  BY <3>1, <3>2
  <2>. QED  BY <1>o, <2>2, <2>4 DEF OrderInv
<1>3. CASE ConnectFails
  BY <1>3, <1>k DEF ConnectFails, Left, remoteVars, actorVars, handleVars, taskVars
<1>4. CASE Registered
  BY <1>4, <1>a DEF Registered, remoteVars, actorVars, handleVars, taskVars
<1>5. CASE UpdateDone
  BY <1>5, <1>a DEF UpdateDone, remoteVars, actorVars, handleVars, taskVars
<1>6. CASE Open
  BY <1>6, <1>a DEF Open, Start, remoteVars, actorVars, handleVars, taskVars
<1>7. ASSUME NEW p \in Pubs, Connect(p) PROVE OrderInv'
  BY <1>7, <1>k DEF Connect, Known, remoteVars, actorVars, handleVars, taskVars
<1>8. CASE DropSubscription
  BY <1>8, <1>a DEF DropSubscription, remoteVars, actorVars, handleVars, taskVars
<1>9. ASSUME NEW p \in Pubs, Advertise(p) PROVE OrderInv'
  <2>1. /\ UNCHANGED <<wire, count, frame, log, breaks, sock, task, actor>> /\ base'[p] = count[p]
        /\ \A q \in Pubs \ {p} : base'[q] = base[q] /\ (q \in up' => q \in up)
    BY <1>9 DEF Advertise, TypeOK, actorVars, taskVars
  <2>2. ASSUME NEW q \in Pubs PROVE Ordered(q)'
    <3>1. CASE q = p
      <4>1. Pending(q)' = Pending(q) /\ Carried(q)' = Carried(q)
        BY <2>1 DEF Pending, Carried
      <4>2. Relinkable(q)'
        BY <1>n, <2>1, <3>1, <4>1 DEF Relinkable
      <4>. QED  BY <1>g, <1>n, <2>1, <4>2
    <3>2. CASE q # p
      BY <1>s, <2>1, <3>2 DEF Cancelled
    <3>. QED  BY <3>1, <3>2
  <2>. QED  BY <1>o, <2>1, <2>2 DEF OrderInv
<1>10. ASSUME NEW p \in Pubs, Unadvertise(p) PROVE OrderInv'
  <2>1. /\ UNCHANGED <<wire, count, frame, log, base, breaks, task, actor>> /\ p \notin up'
        /\ \A q \in Pubs \ {p} : sock'[q] = sock[q] /\ (q \in up' => q \in up)
    BY <1>10 DEF Unadvertise, Closes, TypeOK, actorVars, taskVars
  <2>2. ASSUME NEW q \in Pubs PROVE Ordered(q)'
    <3>1. CASE q = p
      <4>1. Relinkable(q)'
        BY <2>1, <3>1 DEF Relinkable
      <4>. QED  BY <1>g, <1>n, <2>1, <4>1
    <3>2. CASE q # p
      BY <1>s, <2>1, <3>2 DEF Cancelled
    <3>. QED  BY <3>1, <3>2
  <2>. QED  BY <1>o, <2>1, <2>2 DEF OrderInv
<1>11. ASSUME NEW p \in Pubs, Breaks(p) PROVE OrderInv'
  <2>1. /\ UNCHANGED <<wire, count, frame, log, base, up, task, actor>> /\ breaks'[p] = breaks[p] + 1
        /\ \A q \in Pubs \ {p} : sock'[q] = sock[q] /\ breaks'[q] = breaks[q]
    BY <1>11 DEF Breaks, Closes, TypeOK, actorVars, taskVars
  <2>2. ASSUME NEW q \in Pubs PROVE Ordered(q)'
    <3>1. CASE q = p
      <4>1. Pending(q)' = Pending(q) /\ Carried(q)' = Carried(q)
        BY <2>1 DEF Pending, Carried
      <4>2. \A m \in Carried(q) : m[3] < breaks'[q] /\ m[3] <= breaks'[q]
        BY <1>n, <1>t, <2>1, <3>1
      <4>3. Relinkable(q)'
        BY <4>1, <4>2 DEF Relinkable
      <4>. QED  BY <1>g, <1>n, <2>1, <3>1, <4>2, <4>3
    <3>2. CASE q # p
      BY <1>s, <2>1, <3>2 DEF Cancelled
    <3>. QED  BY <3>1, <3>2
  <2>. QED  BY <1>o, <2>1, <2>2 DEF OrderInv
<1>12. ASSUME NEW p \in Pubs, Publish(p) PROVE OrderInv'
  <2>1. /\ UNCHANGED <<frame, log, base, breaks, up, sock, task, actor>>
        /\ count'[p] = count[p] + 1 /\ count[p] < MaxSends
        /\ \A q \in Pubs \ {p} : count'[q] = count[q] /\ wire'[q] = wire[q]
    BY <1>12 DEF Publish, TypeOK, actorVars, taskVars
  <2>2. PICK m \in Frames : /\ m = <<p, count'[p], breaks[p]>>
                            /\ m[1] = p /\ m[2] = count[p] + 1 /\ m[3] = breaks[p]
    <3>1. count'[p] \in 1..MaxSends /\ breaks[p] \in 0..MaxBreaks
      <4>1. breaks[p] \in 0..MaxBreaks
        BY DEF TypeOK
      <4>. QED  BY <1>t, <2>1, <4>1
    <3>2. <<p, count'[p], breaks[p]>> \in Frames
      BY <3>1, FrameMade
    <3>. QED  BY <2>1, <3>1, <3>2, FrameMade
  <2>3. \A l \in Carried(p) : l[2] <= count'[p] /\ l[2] < m[2]
    BY <1>n, <1>t, <2>1, <2>2
  <2>4. Pending(p)' = Pending(p)
    BY <2>1 DEF Pending
  <2>5. CASE UNCHANGED wire
    <3>1. Carried(p)' = Carried(p)
      BY <2>1, <2>4, <2>5 DEF Carried
    <3>2. Relinkable(p)'
      BY <1>o, <2>1, <3>1 DEF Ordered, Relinkable, Cancelled
    <3>3. Ordered(p)'
      BY <1>g, <1>n, <2>1, <2>3, <2>5, <3>2
    <3>4. ASSUME NEW q \in Pubs, q # p PROVE Ordered(q)'
      BY <1>s, <2>1, <3>4 DEF Cancelled
    <3>. QED  BY <1>o, <2>1, <3>3, <3>4 DEF OrderInv
  <2>6. CASE sock[p] = "open" /\ wire' = [wire EXCEPT ![p] = Append(@, m)]
    <3>1. wire'[p] = Append(wire[p], m)
      BY <2>6 DEF TypeOK
    <3>2. /\ Of(wire'[p]) = Of(wire[p]) \cup {m} /\ Len(wire'[p]) = Len(wire[p]) + 1
          /\ \A j \in 1..Len(wire[p]) + 1 : Upto(wire'[p], j - 1) = Upto(wire[p], j - 1)
          /\ \A j \in 1..Len(wire[p]) : wire'[p][j] = wire[p][j]
          /\ wire'[p][Len(wire[p]) + 1] = m /\ Len(wire[p]) \in Nat
      BY <1>t, <3>1, OfAppend, Appended
    <3>3. Carried(p)' = Carried(p) \cup {m}
      BY <2>1, <2>4, <3>2 DEF Carried
    <3>4. Relinkable(p)'
      BY <2>1, <2>6 DEF Relinkable
    <3>5. \A l \in Carried(p)' : l \in Frames /\ l[1] = p /\ l[2] <= count'[p] /\ l[3] <= breaks[p]
      <4>1. m[2] <= count'[p] /\ m[3] <= breaks[p]
        BY <1>t, <2>1, <2>2
      <4>. QED  BY <1>n, <2>2, <2>3, <3>3, <4>1
    <3>6. ASSUME NEW j \in 1..Len(wire'[p])
          PROVE  Follows(wire'[p][j], Of(log) \cup Pending(p) \cup Upto(wire'[p], j - 1))
      <4>1. CASE j \in 1..Len(wire[p])
        BY <1>o, <3>2, <4>1 DEF Ordered
      <4>2. CASE j = Len(wire[p]) + 1
        <5>1. Upto(wire'[p], j - 1) = Of(wire[p])
          BY <1>t, <3>2, <4>2, UptoAll
        <5>2. \A l \in Of(log) \cup Pending(p) \cup Of(wire[p]) : l[1] = m[1] => l[2] < m[2]
          BY <2>2, <2>3 DEF Carried
        <5>. QED  BY <3>2, <4>2, <5>1, <5>2 DEF Follows
      <4>. QED  BY <3>2, <4>1, <4>2
    <3>7. Ordered(p)'
      <4>1. task'[p] = "store" =>
              /\ frame'[p] \in Of(log') /\ frame'[p][1] = p
              /\ \A i \in 1..Len(log') : IsLast(p, i)' => log'[i] = frame'[p]
        BY <1>o, <2>1 DEF Ordered, IsLast
      <4>. QED  BY <1>o, <2>1, <2>4, <3>4, <3>5, <3>6, <4>1 DEF Ordered
    <3>8. ASSUME NEW q \in Pubs, q # p PROVE Ordered(q)'
      BY <1>s, <2>1, <3>8 DEF Cancelled
    <3>. QED  BY <1>o, <2>1, <3>7, <3>8 DEF OrderInv
  <2>. QED  BY <1>12, <2>2, <2>5, <2>6 DEF Publish
<1>13. ASSUME NEW p \in Pubs, ReadFrame(p) PROVE OrderInv'
  <2>1. /\ UNCHANGED <<count, log, base, breaks, up, sock, actor>>
        /\ task[p] = "reading" /\ task'[p] = "send"
        /\ wire[p] # <<>> /\ frame'[p] = Head(wire[p]) /\ wire'[p] = Tail(wire[p])
        /\ \A q \in Pubs \ {p} : frame'[q] = frame[q] /\ wire'[q] = wire[q] /\ task'[q] = task[q]
    BY <1>13 DEF ReadFrame, TypeOK, actorVars
  <2>2. /\ frame'[p] = wire[p][1] /\ 1 \in 1..Len(wire[p])
        /\ Of(wire[p]) = Of(wire'[p]) \cup {frame'[p]}
        /\ \A j \in 1..Len(wire'[p]) :
              /\ j + 1 \in 1..Len(wire[p]) /\ wire'[p][j] = wire[p][j + 1]
              /\ Upto(wire[p], (j + 1) - 1) = Upto(wire'[p], j - 1) \cup {frame'[p]}
    <3>1. wire[p] \in Seq(Frames) /\ wire[p] # <<>>
      BY <1>t, <2>1
    <3>2. /\ Head(wire[p]) = wire[p][1] /\ 1 \in 1..Len(wire[p])
          /\ Of(wire[p]) = Of(Tail(wire[p])) \cup {Head(wire[p])}
          /\ \A j \in 1..Len(Tail(wire[p])) :
                /\ j + 1 \in 1..Len(wire[p]) /\ Tail(wire[p])[j] = wire[p][j + 1]
                /\ Upto(wire[p], (j + 1) - 1) = Upto(Tail(wire[p]), j - 1) \cup {Head(wire[p])}
      BY <3>1, OfTail, Zenon
    <3>. QED  BY <2>1, <3>2, Zenon
  <2>3. Pending(p) = {} /\ Pending(p)' = {frame'[p]} /\ Carried(p)' = Carried(p)
    BY <2>1, <2>2 DEF Pending, Carried
  <2>4. Relinkable(p)'
    BY <1>o, <2>1, <2>3 DEF Ordered, Relinkable, Cancelled
  <2>5. Follows(frame'[p], Of(log))
    <3>1. Follows(wire[p][1], Of(log) \cup Pending(p) \cup Upto(wire[p], 1 - 1))
      BY <1>o, <2>2 DEF Ordered
    <3>. QED  BY <2>2, <3>1, FollowsLess
  <2>6. ASSUME NEW j \in 1..Len(wire'[p])
        PROVE  Follows(wire'[p][j], Of(log) \cup {frame'[p]} \cup Upto(wire'[p], j - 1))
    <3>1. Follows(wire[p][j + 1], Of(log) \cup Pending(p) \cup Upto(wire[p], (j + 1) - 1))
      BY <1>o, <2>2 DEF Ordered
    <3>. QED  BY <2>2, <3>1, FollowsLess
  <2>7. Ordered(p)'
    BY <1>o, <2>1, <2>3, <2>4, <2>5, <2>6 DEF Ordered
  <2>8. ASSUME NEW q \in Pubs, q # p PROVE Ordered(q)'
    BY <1>s, <2>1, <2>8 DEF Cancelled
  <2>. QED  BY <1>o, <2>1, <2>7, <2>8 DEF OrderInv
<1>14. ASSUME NEW p \in Pubs, LeaveLoop(p) PROVE OrderInv'
  <2>1. /\ UNCHANGED <<wire, count, frame, log, base, breaks, up, sock, actor>>
        /\ \A q \in Pubs : /\ (task'[q] = "send" <=> task[q] = "send")
                          /\ (task'[q] = "store" => task[q] = "store")
    BY <1>14 DEF LeaveLoop, TypeOK, remoteVars, actorVars, handleVars, taskVars
  <2>. QED  BY <2>1, <1>f DEF Cancelled
<1>15. ASSUME NEW p \in Pubs, SendFrame(p) PROVE OrderInv'
  <2>1. /\ UNCHANGED <<wire, count, frame, base, breaks, up, sock, actor>> /\ task[p] = "send"
        /\ \A q \in Pubs \ {p} : task'[q] = task[q]
    BY <1>15 DEF SendFrame, TypeOK, remoteVars, actorVars
  <2>2. CASE ~HasReceivers
    <3>1. UNCHANGED log /\ task'[p] = "clean" /\ Cancelled
      BY <1>15, <2>2 DEF SendFrame, HasReceivers, TypeOK
    <3>2. Pending(p)' = {} /\ Carried(p)' \subseteq Carried(p)
      BY <2>1, <3>1 DEF Pending, Carried
    <3>3. Relinkable(p)'
      BY <2>1, <3>1 DEF Relinkable, Cancelled
    <3>4. \A j \in 1..Len(wire[p]) : Follows(wire[p][j], Of(log) \cup {} \cup Upto(wire[p], j - 1))
      <4>1. ASSUME NEW j \in 1..Len(wire[p])
            PROVE  Follows(wire[p][j], Of(log) \cup {} \cup Upto(wire[p], j - 1))
        <5>1. Follows(wire[p][j], Of(log) \cup Pending(p) \cup Upto(wire[p], j - 1))
          BY <1>o DEF Ordered
        <5>. QED  BY <5>1, FollowsLess
      <4>. QED  BY <4>1
    <3>5. Ordered(p)'
      BY <1>n, <2>1, <3>1, <3>2, <3>3, <3>4 DEF Ordered
    <3>6. ASSUME NEW q \in Pubs, q # p PROVE Ordered(q)'
      BY <1>s, <2>1, <3>1, <3>6 DEF Cancelled
    <3>. QED  BY <1>o, <3>1, <3>5, <3>6 DEF OrderInv
  <2>3. CASE HasReceivers
    <3>1. PICK m \in Frames : m = frame[p] /\ m[1] = p /\ m \in Carried(p)
      BY <2>1, Sends DEF Carried, Pending
    <3>2. log' = Append(log, m) /\ task'[p] \in {"store", "reading"}
      BY <1>15, <2>3, <3>1 DEF SendFrame, TypeOK
    <3>3. /\ Of(log') = Of(log) \cup {m} /\ Len(log') = Len(log) + 1 /\ Len(log) \in Nat
          /\ log'[Len(log) + 1] = m /\ Sequenced(log')
      <4>1. Follows(m, Of(log))
        BY <1>o, <2>1, <3>1 DEF Ordered, Pending
      <4>. QED  BY <1>o, <1>t, <3>2, <4>1, OfAppend, Appended
    <3>4. Pending(p) = {m} /\ Pending(p)' = {} /\ Carried(p)' = Carried(p)
      BY <2>1, <3>1, <3>2, <3>3 DEF Pending, Carried
    <3>5. Relinkable(p)'
      BY <1>o, <2>1, <3>4 DEF Ordered, Relinkable, Cancelled
    <3>6. \A j \in 1..Len(wire[p]) :
             Follows(wire[p][j], Of(log') \cup {} \cup Upto(wire[p], j - 1))
      BY <1>o, <3>3, <3>4, FollowsLess DEF Ordered
    <3>7. ASSUME NEW i \in 1..Len(log'), IsLast(p, i)' PROVE log'[i] = m
      <4>1. i # Len(log) + 1 => Len(log) + 1 \in i + 1..Len(log')
        BY <3>3
      <4>. QED  BY <3>1, <3>3, <3>7, <4>1 DEF IsLast
    <3>8. Ordered(p)'
      BY <1>n, <2>1, <3>1, <3>3, <3>4, <3>5, <3>6, <3>7 DEF Ordered
    <3>9. ASSUME NEW q \in Pubs, q # p PROVE Ordered(q)'
      <4>1. Pending(q)' = Pending(q) /\ Carried(q)' = Carried(q) /\ task'[q] = task[q]
        BY <2>1, <3>1, <3>3, <3>9 DEF Pending, Carried
      <4>2. Relinkable(q)'
        BY <1>o, <2>1, <4>1 DEF Ordered, Relinkable, Cancelled
      <4>3. \A l \in Pending(q) \cup Of(wire[q]) : l[1] = q
        BY <1>n DEF Carried
      <4>4. \A l \in Pending(q) : Follows(l, Of(log'))
        BY <1>o, <3>1, <3>3, <3>9, <4>3, FollowsLess DEF Ordered
      <4>5. ASSUME NEW j \in 1..Len(wire[q])
            PROVE  Follows(wire[q][j], Of(log') \cup Pending(q) \cup Upto(wire[q], j - 1))
        <5>1. Follows(wire[q][j], Of(log) \cup Pending(q) \cup Upto(wire[q], j - 1)) /\ wire[q][j][1] = q
          BY <1>o, <4>3 DEF Ordered, Of
        <5>. QED  BY <3>1, <3>3, <3>9, <5>1, FollowsLess
      <4>6. ASSUME task[q] = "store", NEW i \in 1..Len(log'), IsLast(q, i)' PROVE log'[i] = frame[q]
        <5>1. i \in 1..Len(log) /\ log'[i] = log[i] /\ IsLast(q, i)
          BY <1>t, <3>1, <3>2, <3>3, <3>9, <4>6, LastKept
        <5>. QED  BY <1>o, <4>6, <5>1 DEF Ordered
      <4>. QED  BY <1>n, <1>o, <2>1, <3>3, <4>1, <4>2, <4>4, <4>5, <4>6 DEF Ordered
    <3>. QED  BY <3>3, <3>8, <3>9 DEF OrderInv
  <2>. QED  BY <2>2, <2>3
<1>16. ASSUME NEW p \in Pubs, Store(p) PROVE OrderInv'
  <2>1. /\ UNCHANGED <<wire, count, frame, log, base, breaks, up, sock, actor>>
        /\ \A q \in Pubs : /\ (task'[q] = "send" <=> task[q] = "send")
                          /\ (task'[q] = "store" => task[q] = "store")
    BY <1>16 DEF Store, TypeOK, remoteVars, actorVars, handleVars, taskVars
  <2>. QED  BY <2>1, <1>f DEF Cancelled
<1>17. ASSUME NEW p \in Pubs, Clean(p) PROVE OrderInv'
  <2>1. /\ UNCHANGED <<wire, count, frame, log, base, breaks, up, sock, actor>>
        /\ \A q \in Pubs : /\ (task'[q] = "send" <=> task[q] = "send")
                          /\ (task'[q] = "store" => task[q] = "store")
    BY <1>17 DEF Clean, TypeOK, remoteVars, actorVars, handleVars, taskVars
  <2>. QED  BY <2>1, <1>f DEF Cancelled
<1>18. ASSUME NEW p \in Pubs, Remove(p) PROVE OrderInv'
  <2>1. /\ UNCHANGED <<count, frame, log, base, breaks, up, actor>>
        /\ task[p] = "remove" /\ task'[p] = "none" /\ wire'[p] = <<>>
        /\ \A q \in Pubs \ {p} : /\ wire'[q] = wire[q] /\ task'[q] = task[q] /\ sock'[q] = sock[q]
    BY <1>18 DEF Remove, TypeOK, actorVars
  <2>2. Pending(p)' = {} /\ Carried(p)' \subseteq Carried(p) /\ 1..Len(wire'[p]) = {}
    BY <2>1, Nothing DEF Pending, Carried
  <2>3. Relinkable(p)'
    <3>1. ~Cancelled => sock[p] # "open"
      BY <2>1 DEF LinkInv
    <3>. QED  BY <1>o, <2>1, <2>2, <3>1 DEF Ordered, Relinkable, Cancelled
  <2>4. Ordered(p)'
    BY <1>n, <2>1, <2>2, <2>3 DEF Ordered
  <2>5. ASSUME NEW q \in Pubs, q # p PROVE Ordered(q)'
    BY <1>s, <2>1, <2>5 DEF Cancelled
  <2>. QED  BY <1>o, <2>1, <2>4, <2>5 DEF OrderInv
<1>19. ASSUME NEW h \in Handles, ReceiveLatched(h) PROVE OrderInv'
  BY <1>19, <1>k DEF ReceiveLatched, remoteVars, actorVars, handleVars, taskVars
<1>20. ASSUME NEW h \in Handles, Receive(h) PROVE OrderInv'
  BY <1>20, <1>k DEF Receive, remoteVars, actorVars, handleVars, taskVars
<1>21. ASSUME NEW h \in Handles, ReceiveLagged(h) PROVE OrderInv'
  BY <1>21, <1>k DEF ReceiveLagged, remoteVars, actorVars, handleVars, taskVars
<1>22. ASSUME NEW h \in Handles, ReceiveClosed(h) PROVE OrderInv'
  BY <1>22, <1>k DEF ReceiveClosed, remoteVars, actorVars, handleVars, taskVars
<1>23. ASSUME NEW h \in Handles, DropHandle(h) PROVE OrderInv'
  BY <1>23, <1>k DEF DropHandle, remoteVars, actorVars, handleVars, taskVars
<1>24. ASSUME NEW h \in Handles, CopyLatched(h) PROVE OrderInv'
  BY <1>24, <1>a DEF CopyLatched, remoteVars, actorVars, handleVars, taskVars
<1>25. ASSUME NEW h \in Handles, NEW g \in Handles, CloneHandle(h, g) PROVE OrderInv'
  BY <1>25, <1>k DEF CloneHandle, remoteVars, actorVars, handleVars, taskVars
<1>26. CASE UNCHANGED vars
  BY <1>26, <1>k DEF vars, remoteVars, actorVars, handleVars, taskVars
<1>. QED
  BY <1>1, <1>2, <1>3, <1>4, <1>5, <1>6, <1>7, <1>8, <1>9, <1>10, <1>11, <1>12, <1>13, <1>14,
     <1>15, <1>16, <1>17, <1>18, <1>19, <1>20, <1>21, <1>22, <1>23, <1>24, <1>25, <1>26
  DEF Next, Actor, Task, Handle, Publisher, Quiescent

LEMMA StoreNext ==
  TypeOK /\ LinkInv /\ OrderInv /\ StoreInv /\ [Next]_vars => StoreInv'
<1> SUFFICES ASSUME TypeOK, LinkInv, OrderInv, StoreInv, [Next]_vars PROVE StoreInv'
  OBVIOUS
<1> USE SubscriptionAssumption DEF TypeOK, StoreInv
<1>f. ASSUME UNCHANGED <<latched, log>>,
             \A q \in Pubs : task'[q] # "store" => task[q] # "store"
      PROVE  StoreInv'
  BY <1>f DEF Kept, IsLast
<1>k. ASSUME UNCHANGED <<latched, log, task>> PROVE StoreInv'
  BY <1>k, <1>f
<1>1. CASE Update
  BY <1>1, <1>k DEF Update, Known, remoteVars, actorVars, handleVars, taskVars
<1>2. CASE Connected
  <2>1. /\ UNCHANGED <<latched, log>>
        /\ \A q \in Pubs : task'[q] # "store" => task[q] # "store"
    BY <1>2 DEF Connected, remoteVars, actorVars, handleVars, taskVars, LinkInv
  <2>. QED  BY <2>1, <1>f
<1>3. CASE ConnectFails
  BY <1>3, <1>k DEF ConnectFails, Left, remoteVars, actorVars, handleVars, taskVars
<1>4. CASE Registered
  BY <1>4, <1>k DEF Registered, remoteVars, actorVars, handleVars, taskVars
<1>5. CASE UpdateDone
  BY <1>5, <1>k DEF UpdateDone, remoteVars, actorVars, handleVars, taskVars
<1>6. CASE Open
  BY <1>6, <1>k DEF Open, Start, remoteVars, actorVars, handleVars, taskVars
<1>7. ASSUME NEW p \in Pubs, Connect(p) PROVE StoreInv'
  BY <1>7, <1>k DEF Connect, Known, remoteVars, actorVars, handleVars, taskVars
<1>8. CASE DropSubscription
  BY <1>8, <1>k DEF DropSubscription, remoteVars, actorVars, handleVars, taskVars
<1>9. ASSUME NEW p \in Pubs, Advertise(p) PROVE StoreInv'
  BY <1>9, <1>k DEF Advertise, Updated, Cancelled, remoteVars, actorVars, handleVars, taskVars
<1>10. ASSUME NEW p \in Pubs, Unadvertise(p) PROVE StoreInv'
  BY <1>10, <1>k DEF Unadvertise, Updated, Cancelled, Closes, remoteVars, actorVars, handleVars, taskVars
<1>11. ASSUME NEW p \in Pubs, Breaks(p) PROVE StoreInv'
  BY <1>11, <1>k DEF Breaks, Closes, remoteVars, actorVars, handleVars, taskVars
<1>12. ASSUME NEW p \in Pubs, Publish(p) PROVE StoreInv'
  BY <1>12, <1>k DEF Publish, remoteVars, actorVars, handleVars, taskVars
<1>13. ASSUME NEW p \in Pubs, ReadFrame(p) PROVE StoreInv'
  <2>1. /\ UNCHANGED <<latched, log>>
        /\ \A q \in Pubs : task'[q] # "store" => task[q] # "store"
    BY <1>13 DEF ReadFrame, remoteVars, actorVars, handleVars, taskVars
  <2>. QED  BY <2>1, <1>f
<1>14. ASSUME NEW p \in Pubs, LeaveLoop(p) PROVE StoreInv'
  <2>1. /\ UNCHANGED <<latched, log>>
        /\ \A q \in Pubs : task'[q] # "store" => task[q] # "store"
    BY <1>14 DEF LeaveLoop, remoteVars, actorVars, handleVars, taskVars
  <2>. QED  BY <2>1, <1>f
<1>15. ASSUME NEW p \in Pubs, SendFrame(p) PROVE StoreInv'
  <2>1. /\ latched' = latched /\ task[p] = "send"
        /\ \A q \in Pubs \ {p} : task'[q] = task[q]
    BY <1>15 DEF SendFrame
  <2>2. CASE UNCHANGED log
    BY <2>1, <2>2, <1>f
  <2>3. CASE log' = Append(log, frame[p]) /\ task'[p] = IF Keeps(p) THEN "store" ELSE "reading"
    <3>1. PICK m \in Frames : m = frame[p] /\ m[1] = p
      BY <2>1, Sends
    <3>2. Of(log') = Of(log) \cup {m}
      BY <2>3, <3>1, OfAppend
    <3>3. p \in Latchers => task'[p] = "store"
      BY <2>3 DEF Keeps
    <3>4. ASSUME NEW q \in Pubs PROVE Kept(q)'
      <4>1. CASE q = p
        BY <2>1, <3>2, <3>3, <4>1 DEF Kept
      <4>2. CASE q # p
        <5>1. ASSUME NEW i \in 1..Len(log'), IsLast(q, i)'
              PROVE  i \in 1..Len(log) /\ log'[i] = log[i] /\ IsLast(q, i)
          <6>1. log \in Seq(Frames) /\ log' = Append(log, m)
            BY <2>3, <3>1
          <6>. HIDE DEF TypeOK, StoreInv
          <6>. QED  BY <3>1, <4>2, <5>1, <6>1, LastKept
        <5>2. task'[q] = task[q]
          BY <2>1, <4>2
        <5>. QED  BY <2>1, <3>2, <5>1, <5>2 DEF Kept
      <4>. QED  BY <4>1, <4>2
    <3>. QED  BY <3>4
  <2>. QED  BY <1>15, <2>2, <2>3 DEF SendFrame
<1>16. ASSUME NEW p \in Pubs, Store(p) PROVE StoreInv'
  <2>1. /\ UNCHANGED log /\ task[p] = "store"
        /\ \A q \in Pubs \ {p} : task'[q] = task[q]
        /\ \A k \in Keys : latched'[k] = IF k = StoreKey(p) THEN frame[p] ELSE latched[k]
    BY <1>16 DEF Store
  <2>l. \A q, i : IsLast(q, i)' <=> IsLast(q, i)
    BY <2>1 DEF IsLast
  <2>2. /\ frame[p] \in Frames /\ frame[p] # <<>> /\ frame[p][1] = p /\ frame[p] \in Of(log)
        /\ \A i \in 1..Len(log) : IsLast(p, i) => log[i] = frame[p]
    BY <2>1, Sends, FrameParts DEF OrderInv, Ordered
  <2>3. ASSUME NEW q \in Pubs PROVE Kept(q)'
    <3>1. CASE q = p
      <4>1. latched'[StoreKey(p)] = frame[p] /\ latched'[CleanKey(p)] = <<>>
        BY <2>1, KeyParts DEF Kept
      <4>. QED  BY <2>1, <2>2, <2>l, <3>1, <4>1 DEF Kept
    <3>2. CASE q # p
      <4>1. latched'[StoreKey(q)] = latched[StoreKey(q)] /\ latched'[CleanKey(q)] = <<>>
        BY <2>1, <3>2, KeyParts DEF Kept
      <4>. QED  BY <2>1, <2>l, <3>2, <4>1 DEF Kept
    <3>. QED  BY <3>1, <3>2
  <2>. QED  BY <2>3
<1>17. ASSUME NEW p \in Pubs, Clean(p) PROVE StoreInv'
  <2>1. /\ UNCHANGED log
        /\ \A q \in Pubs : task'[q] # "store" => task[q] # "store"
        /\ \A k \in Keys : latched'[k] = IF k = CleanKey(p) THEN <<>> ELSE latched[k]
    BY <1>17 DEF Clean
  <2>2. ASSUME NEW q \in Pubs PROVE Kept(q)'
    <3>1. latched'[StoreKey(q)] = latched[StoreKey(q)] /\ latched'[CleanKey(q)] = <<>>
      BY <2>1, KeyParts DEF Kept
    <3>. QED  BY <2>1, <3>1 DEF Kept, IsLast
  <2>. QED  BY <2>2
<1>18. ASSUME NEW p \in Pubs, Remove(p) PROVE StoreInv'
  <2>1. /\ UNCHANGED <<latched, log>>
        /\ \A q \in Pubs : task'[q] # "store" => task[q] # "store"
    BY <1>18 DEF Remove, Without, remoteVars, actorVars, handleVars, taskVars
  <2>. QED  BY <2>1, <1>f
<1>19. ASSUME NEW h \in Handles, ReceiveLatched(h) PROVE StoreInv'
  BY <1>19, <1>k DEF ReceiveLatched, remoteVars, actorVars, handleVars, taskVars
<1>20. ASSUME NEW h \in Handles, Receive(h) PROVE StoreInv'
  BY <1>20, <1>k DEF Receive, remoteVars, actorVars, handleVars, taskVars
<1>21. ASSUME NEW h \in Handles, ReceiveLagged(h) PROVE StoreInv'
  BY <1>21, <1>k DEF ReceiveLagged, remoteVars, actorVars, handleVars, taskVars
<1>22. ASSUME NEW h \in Handles, ReceiveClosed(h) PROVE StoreInv'
  BY <1>22, <1>k DEF ReceiveClosed, remoteVars, actorVars, handleVars, taskVars
<1>23. ASSUME NEW h \in Handles, DropHandle(h) PROVE StoreInv'
  BY <1>23, <1>k DEF DropHandle, remoteVars, actorVars, handleVars, taskVars
<1>24. ASSUME NEW h \in Handles, CopyLatched(h) PROVE StoreInv'
  BY <1>24, <1>k DEF CopyLatched, remoteVars, actorVars, handleVars, taskVars
<1>25. ASSUME NEW h \in Handles, NEW g \in Handles, CloneHandle(h, g) PROVE StoreInv'
  BY <1>25, <1>k DEF CloneHandle, remoteVars, actorVars, handleVars, taskVars
<1>26. CASE UNCHANGED vars
  BY <1>26, <1>k DEF vars, remoteVars, actorVars, handleVars, taskVars
<1>. QED
  BY <1>1, <1>2, <1>3, <1>4, <1>5, <1>6, <1>7, <1>8, <1>9, <1>10, <1>11, <1>12, <1>13, <1>14,
     <1>15, <1>16, <1>17, <1>18, <1>19, <1>20, <1>21, <1>22, <1>23, <1>24, <1>25, <1>26
  DEF Next, Actor, Task, Handle, Publisher, Quiescent

LEMMA HandleNext ==
  TypeOK /\ OrderInv /\ StoreInv /\ HandleInv /\ [Next]_vars => HandleInv'
<1> SUFFICES ASSUME TypeOK, OrderInv, StoreInv, HandleInv, [Next]_vars PROVE HandleInv'
  OBVIOUS
<1> USE SubscriptionAssumption DEF TypeOK, HandleInv
<1>k. ASSUME UNCHANGED <<handle, backlog, pos, got, log, actor, asker>> PROVE HandleInv'
  BY <1>k DEF Reads, Seen, Opening
<1>1. CASE Update
  <2>1. /\ UNCHANGED <<handle, backlog, pos, got, log>> /\ actor # "opening"
        /\ actor' \notin {"registering", "opening"}
    BY <1>1 DEF Update, Known, remoteVars, actorVars, handleVars, taskVars
  <2>. QED  BY <2>1 DEF Reads, Seen, Opening
<1>2. CASE Connected
  BY <1>2, <1>k DEF Connected, remoteVars, actorVars, handleVars, taskVars
<1>3. CASE ConnectFails
  BY <1>3, <1>k DEF ConnectFails, Left, remoteVars, actorVars, handleVars, taskVars
<1>4. CASE Registered
  <2>1. /\ UNCHANGED <<backlog, pos, got, log, asker>> /\ actor = "registering" /\ actor' = "idle"
        /\ \A h \in Handles : handle'[h] = "none" => handle[h] = "none"
    BY <1>4 DEF Registered, handleVars
  <2>. QED  BY <2>1 DEF Reads, Seen, Opening
<1>5. CASE UpdateDone
  <2>1. /\ UNCHANGED <<handle, backlog, pos, got, log>> /\ actor # "opening"
        /\ actor' \notin {"registering", "opening"}
    BY <1>5 DEF UpdateDone, remoteVars, actorVars, handleVars, taskVars
  <2>. QED  BY <2>1 DEF Reads, Seen, Opening
<1>6. CASE Open
  <2>1. /\ UNCHANGED <<backlog, got, log, asker>> /\ actor = "opening" /\ actor' = "idle"
        /\ pos'[asker] = Len(log) + 1
        /\ \A h \in Handles : handle'[h] = "none" => handle[h] = "none"
        /\ \A h \in Handles \ {asker} : pos'[h] = pos[h]
    BY <1>6 DEF Open, Start
  <2>2. ASSUME NEW h \in Handles PROVE Reads(h)'
    <3>1. CASE h = asker
      <4>1. Seen(h)' = Of(log) /\ Of(got[h]) = {}
        <5>1. (Len(log) + 1) - 1 = Len(log)
          OBVIOUS
        <5>. QED  BY SMTT(30), <2>1, <3>1, <5>1, Nothing DEF Seen, Upto, Of, Reads
      <4>. QED  BY <2>1, <3>1, <4>1 DEF Reads
    <3>2. CASE h # asker
      <4>1. /\ Seen(h)' = Seen(h) /\ ~Opening(h) /\ got'[h] = got[h] /\ backlog'[h] = backlog[h]
            /\ handle'[h] = "none" => handle[h] = "none"
        BY <2>1, <3>2 DEF Seen, Opening
      <4>. QED  BY SMTT(30), <2>1, <4>1 DEF Reads
    <3>. QED  BY <3>1, <3>2
  <2>. QED  BY <2>1, <2>2
<1>7. ASSUME NEW p \in Pubs, Connect(p) PROVE HandleInv'
  BY <1>7, <1>k DEF Connect, Known, remoteVars, actorVars, handleVars, taskVars
<1>8. CASE DropSubscription
  <2>1. /\ UNCHANGED <<handle, backlog, pos, got, log>> /\ actor # "opening"
        /\ actor' \notin {"registering", "opening"}
    BY <1>8 DEF DropSubscription, remoteVars, actorVars, handleVars, taskVars
  <2>. QED  BY <2>1 DEF Reads, Seen, Opening
<1>9. ASSUME NEW p \in Pubs, Advertise(p) PROVE HandleInv'
  BY <1>9, <1>k DEF Advertise, Updated, Cancelled, remoteVars, actorVars, handleVars, taskVars
<1>10. ASSUME NEW p \in Pubs, Unadvertise(p) PROVE HandleInv'
  BY <1>10, <1>k DEF Unadvertise, Updated, Cancelled, Closes, remoteVars, actorVars, handleVars, taskVars
<1>11. ASSUME NEW p \in Pubs, Breaks(p) PROVE HandleInv'
  BY <1>11, <1>k DEF Breaks, Closes, remoteVars, actorVars, handleVars, taskVars
<1>12. ASSUME NEW p \in Pubs, Publish(p) PROVE HandleInv'
  BY <1>12, <1>k DEF Publish, remoteVars, actorVars, handleVars, taskVars
<1>13. ASSUME NEW p \in Pubs, ReadFrame(p) PROVE HandleInv'
  BY <1>13, <1>k DEF ReadFrame, remoteVars, actorVars, handleVars, taskVars
<1>14. ASSUME NEW p \in Pubs, LeaveLoop(p) PROVE HandleInv'
  BY <1>14, <1>k DEF LeaveLoop, remoteVars, actorVars, handleVars, taskVars
<1>15. ASSUME NEW p \in Pubs, SendFrame(p) PROVE HandleInv'
  <2>1. UNCHANGED <<handle, backlog, pos, got, actor, asker>>
    BY <1>15 DEF SendFrame, handleVars, actorVars
  <2>2. CASE UNCHANGED log
    BY <2>1, <2>2, <1>k
  <2>3. CASE log' = Append(log, frame[p]) /\ task[p] = "send"
    <3>1. frame[p] \in Frames
      BY <2>3, Sends
    <3>2. /\ Of(log) \subseteq Of(log') /\ Len(log) \in Nat
          /\ \A i \in 1..Len(log) : log'[i] = log[i]
      BY <2>3, <3>1, OfAppend, Appended
    <3>3. ASSUME NEW h \in Handles PROVE Reads(h)'
      <4>1. \A i \in 1..pos[h] - 1 : log'[i] = log[i]
        <5>1. \A i \in 1..pos[h] - 1 : i \in 1..Len(log)
          BY SMTT(30)
        <5>. QED  BY <3>2, <5>1
      <4>2. Seen(h)' = Seen(h)
        <5>1. Upto(log', pos[h] - 1) = Upto(log, pos[h] - 1)
          <6>. HIDE DEF TypeOK, HandleInv
          <6>. QED  BY <4>1 DEF Upto
        <5>. QED  BY <2>1, <5>1 DEF Seen
      <4>. QED  BY SMTT(30), <2>1, <3>2, <4>2 DEF Reads, Opening
    <3>. QED  BY <2>1, <3>3
  <2>. QED  BY <1>15, <2>2, <2>3 DEF SendFrame
<1>16. ASSUME NEW p \in Pubs, Store(p) PROVE HandleInv'
  BY <1>16, <1>k DEF Store, remoteVars, actorVars, handleVars, taskVars
<1>17. ASSUME NEW p \in Pubs, Clean(p) PROVE HandleInv'
  BY <1>17, <1>k DEF Clean, remoteVars, actorVars, handleVars, taskVars
<1>18. ASSUME NEW p \in Pubs, Remove(p) PROVE HandleInv'
  BY <1>18, <1>k DEF Remove, Without, remoteVars, actorVars, handleVars, taskVars
<1>19. ASSUME NEW h \in Handles, ReceiveLatched(h) PROVE HandleInv'
  <2>1. PICK m \in backlog[h] : /\ got' = [got EXCEPT ![h] = Append(@, m)]
                                /\ backlog' = [backlog EXCEPT ![h] = @ \ {m}]
    BY <1>19 DEF ReceiveLatched
  <2>2. /\ UNCHANGED <<handle, pos, log, actor, asker>> /\ handle[h] = "open"
        /\ got'[h] = Append(got[h], m) /\ backlog'[h] = backlog[h] \ {m}
        /\ \A g \in Handles \ {h} : got'[g] = got[g] /\ backlog'[g] = backlog[g]
    BY <1>19, <2>1 DEF ReceiveLatched, actorVars
  <2>3. m \in Frames /\ got[h] \in Seq(Frames) /\ ~Opening(h) /\ m \in Seen(h)
    BY <2>2 DEF Reads, Opening
  <2>4. Follows(m, Of(got[h]))
    BY DEF Follows, Reads
  <2>5. Of(got'[h]) = Of(got[h]) \cup {m} /\ Sequenced(got'[h])
    <3>1. Sequenced(got[h])
      BY DEF Reads
    <3>. HIDE DEF TypeOK, HandleInv
    <3>. QED  BY <2>2, <2>3, <2>4, <3>1, OfAppend
  <2>6. ASSUME NEW g \in Handles PROVE Reads(g)'
    <3>1. CASE g = h
      <4>1. /\ backlog[h] \subseteq Of(log) /\ backlog[h] \subseteq Seen(h)
            /\ \A m1, m2 \in backlog[h] : m1[1] = m2[1] => m1 = m2
            /\ Of(got[h]) \subseteq Seen(h)
            /\ \A m1 \in backlog[h], l \in Of(got[h]) : m1[1] # l[1]
        BY <2>3 DEF Reads
      <4>2. /\ Of(got'[h]) \subseteq Seen(h)
            /\ \A m1 \in backlog'[h], l \in Of(got'[h]) : m1[1] # l[1]
        BY <2>2, <2>3, <2>5, <4>1
      <4>3. Seen(h)' = Seen(h)
        BY <2>2 DEF Seen
      <4>4. backlog'[h] \subseteq backlog[h] /\ handle'[h] = "open"
        BY <2>2
      <4>5. backlog'[h] \subseteq Of(log') /\ backlog'[h] \subseteq Seen(h)'
        BY SMTT(30), <2>2, <4>1, <4>3, <4>4
      <4>6. \A m1, m2 \in backlog'[h] : m1[1] = m2[1] => m1 = m2
        BY <4>1, <4>4
      <4>. HIDE DEF TypeOK, HandleInv
      <4>. QED  BY <2>5, <3>1, <4>2, <4>3, <4>4, <4>5, <4>6 DEF Reads
    <3>2. CASE g # h
      <4>1. /\ Seen(g)' = Seen(g) /\ (Opening(g)' <=> Opening(g)) /\ got'[g] = got[g]
            /\ backlog'[g] = backlog[g] /\ Of(log') = Of(log)
        BY <2>2, <3>2 DEF Seen, Opening
      <4>2. Reads(g) /\ handle'[g] = handle[g]
        BY <2>2
      <4>. HIDE DEF TypeOK, HandleInv
      <4>. QED  BY <4>1, <4>2 DEF Reads
    <3>. QED  BY <3>1, <3>2
  <2>. QED  BY <2>2, <2>6
<1>20. ASSUME NEW h \in Handles, Receive(h) PROVE HandleInv'
  <2>1. /\ UNCHANGED <<handle, backlog, log, actor, asker>> /\ handle[h] = "open" /\ backlog[h] = {}
        /\ pos[h] \in 1..Len(log) /\ pos'[h] = pos[h] + 1
        /\ got'[h] = Append(got[h], log[pos[h]])
        /\ \A g \in Handles \ {h} : got'[g] = got[g] /\ pos'[g] = pos[g]
    BY <1>20, SubscriptionAssumption DEF Receive, actorVars, Oldest
  <2>2. PICK m \in Frames : m = log[pos[h]]
    <3>1. log[pos[h]] \in Frames
      BY <2>1
    <3>. QED  BY <3>1
  <2>3. Seen(h)' = Seen(h) \cup {m}
    <3>1. pos'[h] - 1 = pos[h] /\ 1..pos[h] = (1..pos[h] - 1) \cup {pos[h]}
      <4>. HIDE DEF TypeOK, HandleInv
      <4>1. \A n \in 1..Len(log) : n \in Nat \ {0} /\ (n + 1) - 1 = n /\ 1..n = (1..n - 1) \cup {n}
        OBVIOUS
      <4>. QED  BY <2>1, <4>1
    <3>2. Upto(log, pos[h]) = Upto(log, pos[h] - 1) \cup {m}
      <4>. HIDE DEF TypeOK, HandleInv
      <4>. QED  BY <2>2, <3>1 DEF Upto
    <3>. QED  BY <2>1, <3>1, <3>2 DEF Seen
  <2>4. Follows(m, Of(got[h]))
    <3>1. Follows(m, Upto(log, pos[h] - 1))
      BY <2>1, <2>2 DEF OrderInv, Sequenced
    <3>. QED  BY <3>1, FollowsLess DEF Reads, Seen
  <2>5. Of(got'[h]) = Of(got[h]) \cup {m} /\ Sequenced(got'[h])
    <3>1. Sequenced(got[h]) /\ got[h] \in Seq(Frames) /\ got'[h] = Append(got[h], m)
      BY <2>1, <2>2 DEF Reads
    <3>. HIDE DEF TypeOK, HandleInv
    <3>. QED  BY <2>4, <3>1, OfAppend
  <2>6. ASSUME NEW g \in Handles PROVE Reads(g)'
    <3>1. CASE g = h
      BY <2>1, <2>3, <2>5, <3>1 DEF Reads, Opening
    <3>2. CASE g # h
      <4>1. Seen(g)' = Seen(g) /\ (Opening(g)' <=> Opening(g)) /\ got'[g] = got[g]
        BY <2>1, <3>2 DEF Seen, Opening
      <4>. QED  BY SMTT(30), <2>1, <4>1 DEF Reads
    <3>. QED  BY <3>1, <3>2
  <2>. QED  BY <2>1, <2>6
<1>21. ASSUME NEW h \in Handles, ReceiveLagged(h) PROVE HandleInv'
  <2>1. /\ UNCHANGED <<handle, backlog, log, actor, asker, got>> /\ pos'[h] > pos[h]
        /\ \A g \in Handles \ {h} : pos'[g] = pos[g]
    BY <1>21 DEF ReceiveLagged, actorVars, Oldest
  <2>2. ASSUME NEW g \in Handles PROVE Reads(g)'
    <3>1. pos'[g] \in Nat /\ pos'[g] >= pos[g]
      BY SMTT(30), <1>21, <2>1 DEF ReceiveLagged, Oldest
    <3>2. \A i \in 1..pos[g] - 1 : i \in 1..pos'[g] - 1
      <4>1. pos[g] \in Nat
        OBVIOUS
      <4>. HIDE DEF TypeOK, HandleInv
      <4>. QED  BY <3>1, <4>1
    <3>3. Seen(g) \subseteq Seen(g)'
      BY <2>1, <3>2 DEF Seen, Upto
    <3>. QED  BY <2>1, <3>3 DEF Reads, Opening
  <2>. QED  BY <2>1, <2>2
<1>22. ASSUME NEW h \in Handles, ReceiveClosed(h) PROVE HandleInv'
  <2>1. /\ UNCHANGED <<backlog, pos, got, log, actor, asker>> /\ handle[h] = "open"
        /\ \A g \in Handles : handle'[g] = "none" <=> handle[g] = "none"
    BY <1>22 DEF ReceiveClosed, actorVars
  <2>. QED  BY SMTT(30), <2>1 DEF Reads, Seen, Opening
<1>23. ASSUME NEW h \in Handles, DropHandle(h) PROVE HandleInv'
  <2>1. /\ UNCHANGED <<log, actor, asker>> /\ handle[h] = "open"
        /\ backlog'[h] = {} /\ got'[h] = <<>>
        /\ \A g \in Handles : handle'[g] = "none" <=> handle[g] = "none"
        /\ \A g \in Handles \ {h} : backlog'[g] = backlog[g] /\ pos'[g] = pos[g] /\ got'[g] = got[g]
    BY <1>23 DEF DropHandle, actorVars
  <2>2. ASSUME NEW g \in Handles PROVE Reads(g)'
    <3>1. CASE g = h
      BY <2>1, <3>1, Nothing DEF Reads
    <3>2. CASE g # h
      <4>1. Seen(g)' = Seen(g) /\ (Opening(g)' <=> Opening(g))
        BY <2>1, <3>2 DEF Seen, Opening
      <4>. QED  BY SMTT(30), <2>1, <3>2, <4>1 DEF Reads
    <3>. QED  BY <3>1, <3>2
  <2>. QED  BY <2>1, <2>2
<1>24. ASSUME NEW h \in Handles, CopyLatched(h) PROVE HandleInv'
  <2>1. /\ UNCHANGED <<handle, pos, got, log>> /\ actor = "idle" /\ actor' = "opening" /\ asker' = h
        /\ handle[h] = "none" /\ backlog'[h] = Stored
        /\ \A g \in Handles \ {h} : backlog'[g] = backlog[g]
    BY <1>24 DEF CopyLatched
  <2>2. \A m \in Stored : \E q \in Pubs : m = latched[StoreKey(q)] /\ m[1] = q /\ m \in Of(log)
    <3>1. ASSUME NEW k \in Keys, latched[k] # <<>>
          PROVE  \E q \in Pubs : latched[k] = latched[StoreKey(q)] /\ latched[k][1] = q /\ latched[k] \in Of(log)
      <4>1. PICK q \in Pubs : k = StoreKey(q) \/ k = CleanKey(q)
        BY KeysAre
      <4>2. k = StoreKey(q)
        BY <3>1, <4>1 DEF StoreInv, Kept
      <4>. QED  BY <3>1, <4>2 DEF StoreInv, Kept
    <3>. QED  BY SMTT(30), <3>1 DEF Stored
  <2>3. ASSUME NEW g \in Handles PROVE Reads(g)'
    <3>1. CASE g = h
      <4>1. Of(got[h]) = {} /\ Sequenced(got[h])
        BY <2>1, Nothing DEF Reads
      <4>2. \A m, n \in Stored : m[1] = n[1] => m = n
        <5>1. ASSUME NEW m \in Stored, NEW n \in Stored, m[1] = n[1] PROVE m = n
          <6>1. m = latched[StoreKey(m[1])] /\ n = latched[StoreKey(n[1])]
            BY <2>2
          <6>. QED  BY <5>1, <6>1
        <5>. QED  BY <5>1
      <4>. QED  BY <2>1, <2>2, <3>1, <4>1, <4>2 DEF Reads, Opening
    <3>2. CASE g # h
      BY <2>1, <3>2 DEF Reads, Seen, Opening
    <3>. QED  BY <3>1, <3>2
  <2>. QED  BY <2>1, <2>3
<1>25. ASSUME NEW h \in Handles, NEW g \in Handles, CloneHandle(h, g) PROVE HandleInv'
  <2>1. /\ UNCHANGED <<got, log, actor, asker>> /\ handle[h] = "open" /\ handle[g] = "none"
        /\ actor \in {"registering", "opening"} => g # asker
        /\ backlog'[g] = backlog[h] /\ pos'[g] = Len(log) + 1
        /\ \A f \in Handles : handle'[f] = "none" => handle[f] = "none"
        /\ \A f \in Handles \ {g} : backlog'[f] = backlog[f] /\ pos'[f] = pos[f] /\ handle'[f] = handle[f]
    BY <1>25 DEF CloneHandle, actorVars
  <2>2. ASSUME NEW f \in Handles PROVE Reads(f)'
    <3>1. CASE f = g
      <4>1. Of(got[g]) = {} /\ Sequenced(got[g])
        BY <2>1, Nothing DEF Reads
      <4>2. Seen(g)' = Of(log)
        <5>1. (Len(log) + 1) - 1 = Len(log)
          OBVIOUS
        <5>. QED  BY <2>1, <5>1 DEF Seen, Upto, Of
      <4>3. /\ backlog[h] \subseteq Of(log)
            /\ \A m, n \in backlog[h] : m[1] = n[1] => m = n
            /\ handle'[g] = "none" => got[g] = <<>>
        BY <2>1 DEF Reads
      <4>. QED  BY SMTT(30), <2>1, <3>1, <4>1, <4>2, <4>3 DEF Reads
    <3>2. CASE f # g
      <4>1. /\ Seen(f)' = Seen(f) /\ (Opening(f)' <=> Opening(f))
            /\ backlog'[f] = backlog[f] /\ handle'[f] = handle[f]
        BY <2>1, <3>2 DEF Seen, Opening
      <4>. QED  BY SMTT(30), <2>1, <4>1 DEF Reads
    <3>. QED  BY <3>1, <3>2
  <2>. QED  BY <2>1, <2>2
<1>26. CASE UNCHANGED vars
  BY <1>26, <1>k DEF vars, remoteVars, actorVars, handleVars, taskVars
<1>. QED
  BY <1>1, <1>2, <1>3, <1>4, <1>5, <1>6, <1>7, <1>8, <1>9, <1>10, <1>11, <1>12, <1>13, <1>14,
     <1>15, <1>16, <1>17, <1>18, <1>19, <1>20, <1>21, <1>22, <1>23, <1>24, <1>25, <1>26
  DEF Next, Actor, Task, Handle, Publisher, Quiescent

-----------------------------------------------------------------------------
(* The theorems. *)

LEMMA InitInv == Init => Inv
<1> SUFFICES ASSUME Init PROVE Inv
  OBVIOUS
<1>1. TypeOK
  <2>1. Len(<<>>) = 0 /\ 1 \in 1..0 + 1 /\ 1 \in Nat
    OBVIOUS
  <2>2. <<>> \in Seq(Frames) /\ <<>> \in Seq(SUBSET Pubs)
    BY Nothing
  <2>3. /\ starts \in [Pubs -> 0..MaxStarts] /\ count \in [Pubs -> 0..MaxSends]
        /\ base \in [Pubs -> 0..MaxSends] /\ breaks \in [Pubs -> 0..MaxBreaks] /\ up \in SUBSET Pubs /\ asker \in Handles
    <3>1. {0, 1} \subseteq 0..MaxStarts /\ 0 \in 0..MaxSends /\ 0 \in 0..MaxBreaks
      BY SubscriptionAssumption
    <3>. QED  BY <3>1 DEF Init
  <2>4. \A h \in Handles : pos[h] \in 1..Len(log) + 1
    BY <2>1 DEF Init
  <2>. QED  BY <2>1, <2>2, <2>3, <2>4 DEF Init, TypeOK
<1>2. LinkInv
  BY DEF Init, LinkInv
<1>3. OrderInv
  <2>1. ASSUME NEW p \in Pubs PROVE Ordered(p)
    <3>1. Carried(p) = {} /\ Pending(p) = {} /\ 1..Len(wire[p]) = {}
      BY Nothing DEF Init, Carried, Pending
    <3>. QED  BY <3>1 DEF Init, Ordered, Relinkable
  <2>. QED  BY <2>1, Nothing DEF Init, OrderInv
<1>4. StoreInv
  <2>1. 1..Len(log) = {}
    BY Nothing DEF Init
  <2>. QED  BY <2>1, KeyParts DEF Init, StoreInv, Kept
<1>5. HandleInv
  BY Nothing DEF Init, HandleInv, Reads
<1>. QED  BY <1>1, <1>2, <1>3, <1>4, <1>5 DEF Inv

LEMMA InvAlways == Spec => []Inv
<1>1. Inv /\ [Next]_vars => Inv'
  BY TypesNext, LinkNext, OrderNext, StoreNext, HandleNext DEF Inv
<1>. QED  BY <1>1, InitInv, PTL DEF Spec

(* publisher_addrs lists the publishers that are connected, until their task *)
(* has ended (insert 148, remove 168); types included.                       *)
THEOREM SubscriptionConnectedListed == Spec => []ConnectedListed
<1>1. Inv => ConnectedListed
  BY DEF Inv, LinkInv, ConnectedListed
<1>. QED  BY <1>1, InvAlways, PTL

(* A handle gets the messages of each publisher in order, none twice, and    *)
(* none both as a latched message and from the channel (194-204, 266-270);   *)
(* but the first that comes after a link has failed may be a retained one,   *)
(* which the handle has already or which is older (publication.rs:179, 246). *)
THEOREM SubscriptionInOrder == Spec => []InOrder
<1>1. Inv => InOrder
  BY DEF Inv, HandleInv, Reads, Sequenced, InOrder
<1>. QED  BY <1>1, InvAlways, PTL

(* Between two frames the store holds what came last from a latching         *)
(* publisher (199-204).                                                      *)
THEOREM SubscriptionStoreCurrent == Spec => []StoreCurrent
<1>1. Inv => StoreCurrent
  BY SubscriptionAssumption DEF Inv, StoreInv, Kept, StoreCurrent
<1>. QED  BY <1>1, InvAlways, PTL

(* A publisher is never connected to while its last link's task still runs:  *)
(* no message comes twice, over two links (108, actors/subscriber.rs:339).   *)
THEOREM SubscriptionOneLinkEach == Spec => OneLinkEach
<1> DEFINE A == \A p \in Pubs : sock'[p] = "open" /\ sock[p] # "open" => task[p] = "none"
<1>1. Inv /\ [Next]_vars => [A]_vars
  <2> SUFFICES ASSUME Inv, [Next]_vars PROVE A
    OBVIOUS
  <2> USE DEF Inv, TypeOK
  <2>1. CASE Update
    BY <2>1 DEF Update, Known, remoteVars, actorVars, handleVars, taskVars
  <2>2. CASE Connected
    BY <2>2 DEF Connected, LinkInv
  <2>3. CASE ConnectFails
    BY <2>3 DEF ConnectFails, Left, remoteVars, actorVars, handleVars, taskVars
  <2>4. CASE Registered
    BY <2>4 DEF Registered, remoteVars, actorVars, handleVars, taskVars
  <2>5. CASE UpdateDone
    BY <2>5 DEF UpdateDone, remoteVars, actorVars, handleVars, taskVars
  <2>6. CASE Open
    BY <2>6 DEF Open, Start, remoteVars, actorVars, handleVars, taskVars
  <2>7. ASSUME NEW p \in Pubs, Connect(p) PROVE A
    BY <2>7 DEF Connect, Known, remoteVars, actorVars, handleVars, taskVars
  <2>8. CASE DropSubscription
    BY <2>8 DEF DropSubscription, remoteVars, actorVars, handleVars, taskVars
  <2>9. ASSUME NEW p \in Pubs, Advertise(p) PROVE A
    BY <2>9 DEF Advertise, Updated, Cancelled, remoteVars, actorVars, handleVars, taskVars
  <2>10. ASSUME NEW p \in Pubs, Unadvertise(p) PROVE A
    BY <2>10 DEF Unadvertise, Closes
  <2>11. ASSUME NEW p \in Pubs, Breaks(p) PROVE A
    BY <2>11 DEF Breaks, Closes
  <2>12. ASSUME NEW p \in Pubs, Publish(p) PROVE A
    BY <2>12 DEF Publish, remoteVars, actorVars, handleVars, taskVars
  <2>13. ASSUME NEW p \in Pubs, ReadFrame(p) PROVE A
    BY <2>13 DEF ReadFrame, remoteVars, actorVars, handleVars, taskVars
  <2>14. ASSUME NEW p \in Pubs, LeaveLoop(p) PROVE A
    BY <2>14 DEF LeaveLoop, remoteVars, actorVars, handleVars, taskVars
  <2>15. ASSUME NEW p \in Pubs, SendFrame(p) PROVE A
    BY <2>15 DEF SendFrame, HasReceivers, remoteVars, actorVars, handleVars, taskVars
  <2>16. ASSUME NEW p \in Pubs, Store(p) PROVE A
    BY <2>16 DEF Store, remoteVars, actorVars, handleVars, taskVars
  <2>17. ASSUME NEW p \in Pubs, Clean(p) PROVE A
    BY <2>17 DEF Clean, remoteVars, actorVars, handleVars, taskVars
  <2>18. ASSUME NEW p \in Pubs, Remove(p) PROVE A
    BY <2>18 DEF Remove, Closes
  <2>19. ASSUME NEW h \in Handles, ReceiveLatched(h) PROVE A
    BY <2>19 DEF ReceiveLatched, remoteVars, actorVars, handleVars, taskVars
  <2>20. ASSUME NEW h \in Handles, Receive(h) PROVE A
    BY <2>20 DEF Receive, remoteVars, actorVars, handleVars, taskVars
  <2>21. ASSUME NEW h \in Handles, ReceiveLagged(h) PROVE A
    BY <2>21 DEF ReceiveLagged, remoteVars, actorVars, handleVars, taskVars
  <2>22. ASSUME NEW h \in Handles, ReceiveClosed(h) PROVE A
    BY <2>22 DEF ReceiveClosed, remoteVars, actorVars, handleVars, taskVars
  <2>23. ASSUME NEW h \in Handles, DropHandle(h) PROVE A
    BY <2>23 DEF DropHandle, remoteVars, actorVars, handleVars, taskVars
  <2>24. ASSUME NEW h \in Handles, CopyLatched(h) PROVE A
    BY <2>24 DEF CopyLatched, remoteVars, actorVars, handleVars, taskVars
  <2>25. ASSUME NEW h \in Handles, NEW g \in Handles, CloneHandle(h, g) PROVE A
    BY <2>25 DEF CloneHandle, remoteVars, actorVars, handleVars, taskVars
  <2>26. CASE UNCHANGED vars
    BY <2>26 DEF vars, remoteVars, actorVars, handleVars, taskVars
  <2>. QED
    BY <2>1, <2>2, <2>3, <2>4, <2>5, <2>6, <2>7, <2>8, <2>9, <2>10, <2>11, <2>12, <2>13, <2>14,
       <2>15, <2>16, <2>17, <2>18, <2>19, <2>20, <2>21, <2>22, <2>23, <2>24, <2>25, <2>26
    DEF Next, Actor, Task, Handle, Publisher, Quiescent
<1>. QED  BY <1>1, InvAlways, PTL DEF Spec, OneLinkEach

=============================================================================
