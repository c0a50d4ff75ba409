--------------------------- MODULE Publication_proofs ---------------------------
(***************************************************************************)
(* Proofs about the publication: whatever its channel's size and however   *)
(* many subscribers come and go, it implements TopicStream; a task that    *)
(* has not lagged leaves nothing out; and subscriber_ids lists only the    *)
(* subscribers of tasks, all of them that do not share a name.             *)
(***************************************************************************)
EXTENDS Publication, TLAPS

-----------------------------------------------------------------------------
(* The inductive invariants. *)

(* The listener sets one connection up at a time.                            *)
SetupInv ==
    /\ IF lpc \in {"setup", "spawn"} THEN current \in Conns ELSE current = None
    /\ \A c \in Conns : st[c] = "setup" <=> c = current

(* What a task has written and what it has in hand: a message from before it *)
(* joined, the latched one, comes first, and its receiver is behind neither  *)
(* that point nor what it has written or is writing.                         *)
Fits(c) ==
    /\ joined[c] <= sent
    /\ st[c] \in {"none", "backlog", "setup"} => wire[c] = <<>>
    /\ hand[c] # 0 =>
          /\ st[c] = "task" /\ hand[c] < next[c]
          /\ hand[c] <= joined[c] => wire[c] = <<>>
          /\ wire[c] # <<>> => wire[c][Len(wire[c])] < hand[c]
    /\ st[c] = "task" =>
          /\ joined[c] < next[c] /\ next[c] <= sent + 1
          /\ wire[c] # <<>> => wire[c][Len(wire[c])] < next[c]

WireInv == latched <= sent /\ lnext <= sent + 1 /\ \A c \in Conns : Fits(c)

(* As long as no more has been sent than the channel keeps, a task has       *)
(* written, or is writing, all that its receiver has passed.                 *)
Has(s, m) == \E i \in 1..Len(s) : s[i] = m

LiveInv ==
    sent <= Capacity =>
        \A c \in Conns : st[c] = "task" =>
            \A m \in joined[c] + 1..next[c] - 1 : Has(wire[c], m) \/ m = hand[c]

(* The ids, as in IdsTracked.                                                *)
IdsInv ==
    /\ \A i \in ids : \E c \in Conns : st[c] \in {"task", "exiting"} /\ peer[c] = i
    /\ \A c \in Conns :
          st[c] = "task" /\ (\A d \in Conns \ {c} : st[d] = "none" \/ peer[d] # peer[c]) =>
              peer[c] \in ids

Inv == TypeOK /\ SetupInv /\ WireInv /\ LiveInv /\ IdsInv

-----------------------------------------------------------------------------
(* What is written to a connection. *)

LEMMA Written ==
  ASSUME NEW s \in Seq(1..MaxSends), NEW m \in 1..MaxSends
  PROVE  LET t == Append(s, m) IN
         /\ t \in Seq(1..MaxSends) /\ t # <<>> /\ t[Len(t)] = m
         /\ Has(t, m) /\ \A n : Has(s, n) => Has(t, n)
<1> DEFINE t == Append(s, m)
<1>1. /\ t \in Seq(1..MaxSends) /\ Len(t) = Len(s) + 1 /\ t[Len(t)] = m /\ Len(s) \in Nat
      /\ \A i \in 1..Len(s) : t[i] = s[i] /\ i \in 1..Len(t)
  OBVIOUS
<1>2. t # <<>> /\ Len(t) \in 1..Len(t)
  <2>1. Len(<<>>) = 0
    OBVIOUS
  <2>. QED  BY <1>1, <2>1
<1> HIDE DEF t
<1>3. Has(t, m) /\ \A n : Has(s, n) => Has(t, n)
  BY <1>1, <1>2 DEF Has
<1>. QED  BY <1>1, <1>2, <1>3 DEF t

LEMMA WriteDone ==
  ASSUME TypeOK, NEW c \in Conns, Write(c)
  PROVE  /\ wire' \in [Conns -> Seq(1..MaxSends)] /\ hand' \in [Conns -> 0..MaxSends]
         /\ st' \in [Conns -> {"none", "backlog", "setup", "task", "exiting", "closed"}]
         /\ st[c] = "task" /\ hand[c] \in 1..MaxSends /\ hand'[c] = 0
         /\ \A d \in Conns \ {c} : wire'[d] = wire[d] /\ st'[d] = st[d] /\ hand'[d] = hand[d]
         /\ \/ /\ st'[c] = "task" /\ wire'[c] # <<>> /\ wire'[c][Len(wire'[c])] = hand[c]
               /\ Has(wire'[c], hand[c])
            \/ wire'[c] = wire[c] /\ st'[c] = "exiting"
         /\ \A n : Has(wire[c], n) => Has(wire'[c], n)
<1> USE DEF TypeOK
<1>0. /\ st[c] = "task" /\ hand[c] \in 1..MaxSends /\ hand' = [hand EXCEPT ![c] = 0]
      /\ hand' \in [Conns -> 0..MaxSends]
  BY PublicationAssumption DEF Write, Writing
<1>1. CASE wire' = [wire EXCEPT ![c] = Append(@, hand[c])] /\ UNCHANGED st
  <2> DEFINE t == Append(wire[c], hand[c])
  <2>1. wire[c] \in Seq(1..MaxSends)
    OBVIOUS
  <2>2. /\ t \in Seq(1..MaxSends) /\ t # <<>> /\ t[Len(t)] = hand[c] /\ Has(t, hand[c])
        /\ \A n : Has(wire[c], n) => Has(t, n)
    BY <1>0, <2>1, Written
  <2>3. /\ wire' \in [Conns -> Seq(1..MaxSends)] /\ wire'[c] = t
        /\ \A d \in Conns \ {c} : wire'[d] = wire[d]
    BY <1>1, <2>2
  <2> HIDE DEF t
  <2>. QED  BY <1>0, <1>1, <2>2, <2>3
<1>2. CASE st' = [st EXCEPT ![c] = "exiting"] /\ UNCHANGED wire
  BY <1>0, <1>2
<1>. QED  BY <1>1, <1>2 DEF Write

LEMMA TypesNext ==
  TypeOK /\ SetupInv /\ [Next]_vars => TypeOK'
<1> SUFFICES ASSUME TypeOK, SetupInv, [Next]_vars PROVE TypeOK'
  OBVIOUS
<1> USE PublicationAssumption DEF TypeOK
<1>1. CASE Send
  BY <1>1 DEF Send, listVars, taskVars, Receivers
<1>2. CASE Cancel
  BY <1>2 DEF Cancel, listVars, taskVars
<1>3. CASE CloseSenders
  BY <1>3 DEF CloseSenders, listVars, taskVars
<1>4. CASE ListenerStops
  BY <1>4 DEF ListenerStops, ListenerEnds, chanVars, taskVars
<1>5. CASE ListenerClosed
  BY <1>5 DEF ListenerClosed, ListenerEnds, chanVars, taskVars
<1>6. CASE ListenerReceives
  BY <1>6 DEF ListenerReceives, HasNext, Lagging, Oldest, Kept, chanVars, taskVars
<1>7. CASE ListenerLags
  BY <1>7 DEF ListenerLags, Lagging, Oldest, chanVars, taskVars
<1>8. ASSUME NEW c \in Conns, Accept(c) PROVE TypeOK'
  BY <1>8 DEF Accept, chanVars, taskVars
<1>9. CASE SetupSucceeds
  BY <1>9 DEF SetupSucceeds, chanVars, taskVars
<1>10. CASE SetupFails
  BY <1>10 DEF SetupFails, chanVars, taskVars
<1>11. CASE Spawn
  <2>1. current \in Conns /\ sent + 1 \in 1..MaxSends + 1
    BY <1>11 DEF Spawn, SetupInv
  <2>. QED  BY <1>11, <2>1 DEF Spawn, Start, WithId, chanVars
<1>12. ASSUME NEW c \in Conns, Connect(c) PROVE TypeOK'
  BY <1>12 DEF Connect, chanVars, listVars, taskVars
<1>13. ASSUME NEW c \in Conns, SendHeader(c) PROVE TypeOK'
  BY <1>13 DEF SendHeader, chanVars, listVars, taskVars
<1>14. ASSUME NEW c \in Conns, Stall(c) PROVE TypeOK'
  BY <1>14 DEF Stall, chanVars, listVars, taskVars
<1>15. ASSUME NEW c \in Conns, Resume(c) PROVE TypeOK'
  BY <1>15 DEF Resume, chanVars, listVars, taskVars
<1>16. ASSUME NEW c \in Conns, Leave(c) PROVE TypeOK'
  BY <1>16 DEF Leave, chanVars, listVars, taskVars
<1>17. ASSUME NEW c \in Conns, Write(c) PROVE TypeOK'
  BY <1>17, WriteDone DEF Write, chanVars, listVars
<1>18. ASSUME NEW c \in Conns, TaskReceives(c) PROVE TypeOK'
  <2>1. next[c] \in 1..MaxSends /\ next[c] + 1 \in 1..MaxSends + 1
    BY <1>18 DEF TaskReceives, HasNext
  <2>. QED  BY <1>18, <2>1 DEF TaskReceives, chanVars, listVars
<1>19. ASSUME NEW c \in Conns, TaskLags(c) PROVE TypeOK'
  BY SMTT(30), <1>19 DEF TaskLags, MayReceive, Lagging, Oldest, chanVars, listVars
<1>20. ASSUME NEW c \in Conns, TaskEnds(c) PROVE TypeOK'
  BY <1>20 DEF TaskEnds, MayReceive, chanVars, listVars, taskVars
<1>21. ASSUME NEW c \in Conns, Remove(c) PROVE TypeOK'
  BY <1>21 DEF Remove, WithoutId, chanVars, listVars, taskVars
<1>22. CASE UNCHANGED vars
  BY <1>22 DEF vars
<1>. QED
  BY <1>1, <1>2, <1>3, <1>4, <1>5, <1>6, <1>7, <1>8, <1>9, <1>10, <1>11, <1>12, <1>13, <1>14,
     <1>15, <1>16, <1>17, <1>18, <1>19, <1>20, <1>21, <1>22
  DEF Next, Listener, Subscriber, Task, Ended

LEMMA SetupNext ==
  TypeOK /\ SetupInv /\ [Next]_vars => SetupInv'
<1> SUFFICES ASSUME TypeOK, SetupInv, [Next]_vars PROVE SetupInv'
  OBVIOUS
<1> USE PublicationAssumption DEF TypeOK, SetupInv
<1>1. CASE Send
  BY <1>1 DEF Send, listVars, taskVars, Receivers
<1>2. CASE Cancel
  BY <1>2 DEF Cancel, listVars, taskVars
<1>3. CASE CloseSenders
  BY <1>3 DEF CloseSenders, listVars, taskVars
<1>4. CASE ListenerStops
  BY <1>4 DEF ListenerStops, ListenerEnds, chanVars, taskVars
<1>5. CASE ListenerClosed
  BY <1>5 DEF ListenerClosed, ListenerEnds, chanVars, taskVars
<1>6. CASE ListenerReceives
  BY <1>6 DEF ListenerReceives, HasNext, Lagging, Oldest, Kept, chanVars, taskVars
<1>7. CASE ListenerLags
  BY <1>7 DEF ListenerLags, Lagging, Oldest, chanVars, taskVars
<1>8. ASSUME NEW c \in Conns, Accept(c) PROVE SetupInv'
  BY <1>8 DEF Accept, chanVars, taskVars
<1>9. CASE SetupSucceeds
  BY <1>9 DEF SetupSucceeds, chanVars, taskVars
<1>10. CASE SetupFails
  BY <1>10 DEF SetupFails, chanVars, taskVars
<1>11. CASE Spawn
  BY <1>11 DEF Spawn, Start, WithId, chanVars
<1>12. ASSUME NEW c \in Conns, Connect(c) PROVE SetupInv'
  BY <1>12 DEF Connect, chanVars, listVars, taskVars
<1>13. ASSUME NEW c \in Conns, SendHeader(c) PROVE SetupInv'
  BY <1>13 DEF SendHeader, chanVars, listVars, taskVars
<1>14. ASSUME NEW c \in Conns, Stall(c) PROVE SetupInv'
  BY <1>14 DEF Stall, chanVars, listVars, taskVars
<1>15. ASSUME NEW c \in Conns, Resume(c) PROVE SetupInv'
  BY <1>15 DEF Resume, chanVars, listVars, taskVars
<1>16. ASSUME NEW c \in Conns, Leave(c) PROVE SetupInv'
  BY <1>16 DEF Leave, chanVars, listVars, taskVars
<1>17. ASSUME NEW c \in Conns, Write(c) PROVE SetupInv'
  BY <1>17 DEF Write, chanVars, listVars
<1>18. ASSUME NEW c \in Conns, TaskReceives(c) PROVE SetupInv'
  BY <1>18 DEF TaskReceives, chanVars, listVars
<1>19. ASSUME NEW c \in Conns, TaskLags(c) PROVE SetupInv'
  BY <1>19 DEF TaskLags, MayReceive, Lagging, Oldest, chanVars, listVars
<1>20. ASSUME NEW c \in Conns, TaskEnds(c) PROVE SetupInv'
  BY <1>20 DEF TaskEnds, MayReceive, chanVars, listVars, taskVars
<1>21. ASSUME NEW c \in Conns, Remove(c) PROVE SetupInv'
  BY <1>21 DEF Remove, WithoutId, chanVars, listVars, taskVars
<1>22. CASE UNCHANGED vars
  BY <1>22 DEF vars
<1>. QED
  BY <1>1, <1>2, <1>3, <1>4, <1>5, <1>6, <1>7, <1>8, <1>9, <1>10, <1>11, <1>12, <1>13, <1>14,
     <1>15, <1>16, <1>17, <1>18, <1>19, <1>20, <1>21, <1>22
  DEF Next, Listener, Subscriber, Task, Ended

LEMMA WireNext ==
  TypeOK /\ SetupInv /\ WireInv /\ [Next]_vars => WireInv'
<1> SUFFICES ASSUME TypeOK, SetupInv, WireInv, [Next]_vars PROVE WireInv'
  OBVIOUS
<1> USE PublicationAssumption DEF TypeOK
<1>1. CASE Send
  <2>1. ASSUME NEW d \in Conns PROVE Fits(d)'
    BY <1>1 DEF Send, listVars, taskVars, Receivers, WireInv, Fits
  <2>. QED  BY <1>1, <2>1 DEF Send, listVars, taskVars, Receivers, WireInv
<1>2. CASE Cancel
  <2>1. ASSUME NEW d \in Conns PROVE Fits(d)'
    BY <1>2 DEF Cancel, listVars, taskVars, WireInv, Fits
  <2>. QED  BY <1>2, <2>1 DEF Cancel, listVars, taskVars, WireInv
<1>3. CASE CloseSenders
  <2>1. ASSUME NEW d \in Conns PROVE Fits(d)'
    BY <1>3 DEF CloseSenders, listVars, taskVars, WireInv, Fits
  <2>. QED  BY <1>3, <2>1 DEF CloseSenders, listVars, taskVars, WireInv
<1>4. CASE ListenerStops
  <2>1. ASSUME NEW d \in Conns PROVE Fits(d)'
    BY <1>4 DEF ListenerStops, ListenerEnds, chanVars, taskVars, WireInv, Fits
  <2>. QED  BY <1>4, <2>1 DEF ListenerStops, ListenerEnds, chanVars, taskVars, WireInv
<1>5. CASE ListenerClosed
  <2>1. ASSUME NEW d \in Conns PROVE Fits(d)'
    BY <1>5 DEF ListenerClosed, ListenerEnds, chanVars, taskVars, WireInv, Fits
  <2>. QED  BY <1>5, <2>1 DEF ListenerClosed, ListenerEnds, chanVars, taskVars, WireInv
<1>6. CASE ListenerReceives
  <2>1. UNCHANGED <<sent, joined, hand, st, wire, next>>
    BY <1>6 DEF ListenerReceives, chanVars, taskVars
  <2>2. ASSUME NEW d \in Conns PROVE Fits(d)'
    BY <2>1 DEF WireInv, Fits
  <2>3. latched' <= sent /\ lnext' <= sent + 1
    BY <1>6 DEF ListenerReceives, HasNext, Lagging, Oldest, Kept, chanVars, taskVars, WireInv
  <2>. QED  BY <2>1, <2>2, <2>3 DEF WireInv
<1>7. CASE ListenerLags
  <2>1. UNCHANGED <<sent, joined, hand, st, wire, next>>
    BY <1>7 DEF ListenerLags, chanVars, taskVars
  <2>2. ASSUME NEW d \in Conns PROVE Fits(d)'
    BY <2>1 DEF WireInv, Fits
  <2>3. latched' <= sent /\ lnext' <= sent + 1
    BY <1>7 DEF ListenerLags, Lagging, Oldest, chanVars, taskVars, WireInv
  <2>. QED  BY <2>1, <2>2, <2>3 DEF WireInv
<1>8. ASSUME NEW c \in Conns, Accept(c) PROVE WireInv'
  <2>1. ASSUME NEW d \in Conns PROVE Fits(d)'
    BY <1>8 DEF Accept, chanVars, taskVars, WireInv, Fits, SetupInv
  <2>. QED  BY <1>8, <2>1 DEF Accept, chanVars, taskVars, WireInv
<1>9. CASE SetupSucceeds
  <2>1. ASSUME NEW d \in Conns PROVE Fits(d)'
    BY <1>9 DEF SetupSucceeds, chanVars, taskVars, WireInv, Fits
  <2>. QED  BY <1>9, <2>1 DEF SetupSucceeds, chanVars, taskVars, WireInv
<1>10. CASE SetupFails
  <2>1. ASSUME NEW d \in Conns PROVE Fits(d)'
    BY <1>10 DEF SetupFails, chanVars, taskVars, WireInv, Fits, SetupInv
  <2>. QED  BY <1>10, <2>1 DEF SetupFails, chanVars, taskVars, WireInv
<1>11. CASE Spawn
  <2>1. /\ current \in Conns /\ st[current] = "setup"
        /\ sent' = sent /\ latched' = latched /\ lnext' = lnext /\ wire' = wire
        /\ \A d \in Conns : /\ st'[d] = IF d = current THEN "task" ELSE st[d]
                            /\ hand'[d] = IF d = current THEN latched ELSE hand[d]
                            /\ next'[d] = IF d = current THEN sent + 1 ELSE next[d]
                            /\ joined'[d] = IF d = current THEN sent ELSE joined[d]
    BY <1>11 DEF Spawn, Start, SetupInv, chanVars
  <2>2. ASSUME NEW d \in Conns PROVE Fits(d)'
    <3>1. CASE d = current
      BY <2>1, <3>1 DEF WireInv, Fits
    <3>2. CASE d # current
      BY <2>1, <3>2 DEF WireInv, Fits
    <3>. QED  BY <3>1, <3>2
  <2>. QED  BY <2>1, <2>2 DEF WireInv
<1>12. ASSUME NEW c \in Conns, Connect(c) PROVE WireInv'
  <2>1. ASSUME NEW d \in Conns PROVE Fits(d)'
    BY <1>12 DEF Connect, chanVars, listVars, taskVars, WireInv, Fits
  <2>. QED  BY <1>12, <2>1 DEF Connect, chanVars, listVars, taskVars, WireInv
<1>13. ASSUME NEW c \in Conns, SendHeader(c) PROVE WireInv'
  <2>1. ASSUME NEW d \in Conns PROVE Fits(d)'
    BY <1>13 DEF SendHeader, chanVars, listVars, taskVars, WireInv, Fits
  <2>. QED  BY <1>13, <2>1 DEF SendHeader, chanVars, listVars, taskVars, WireInv
<1>14. ASSUME NEW c \in Conns, Stall(c) PROVE WireInv'
  <2>1. ASSUME NEW d \in Conns PROVE Fits(d)'
    BY <1>14 DEF Stall, chanVars, listVars, taskVars, WireInv, Fits
  <2>. QED  BY <1>14, <2>1 DEF Stall, chanVars, listVars, taskVars, WireInv
<1>15. ASSUME NEW c \in Conns, Resume(c) PROVE WireInv'
  <2>1. ASSUME NEW d \in Conns PROVE Fits(d)'
    BY <1>15 DEF Resume, chanVars, listVars, taskVars, WireInv, Fits
  <2>. QED  BY <1>15, <2>1 DEF Resume, chanVars, listVars, taskVars, WireInv
<1>16. ASSUME NEW c \in Conns, Leave(c) PROVE WireInv'
  <2>1. ASSUME NEW d \in Conns PROVE Fits(d)'
    BY <1>16 DEF Leave, chanVars, listVars, taskVars, WireInv, Fits
  <2>. QED  BY <1>16, <2>1 DEF Leave, chanVars, listVars, taskVars, WireInv
<1>17. ASSUME NEW c \in Conns, Write(c) PROVE WireInv'
  <2>1. UNCHANGED <<sent, latched, lnext, next, joined>>
    BY <1>17 DEF Write, chanVars, listVars
  <2>2. /\ \A d \in Conns \ {c} : wire'[d] = wire[d] /\ st'[d] = st[d] /\ hand'[d] = hand[d]
        /\ st[c] = "task" /\ hand[c] \in 1..MaxSends /\ hand'[c] = 0
        /\ \/ st'[c] = "task" /\ wire'[c] # <<>> /\ wire'[c][Len(wire'[c])] = hand[c]
           \/ wire'[c] = wire[c] /\ st'[c] = "exiting"
    BY <1>17, WriteDone
  <2>3. ASSUME NEW d \in Conns PROVE Fits(d)'
    <3>1. CASE d = c
      BY <2>1, <2>2, <3>1 DEF WireInv, Fits
    <3>2. CASE d # c
      BY <2>1, <2>2, <3>2 DEF WireInv, Fits
    <3>. QED  BY <3>1, <3>2
  <2>. QED  BY <2>1, <2>3 DEF WireInv
<1>18. ASSUME NEW c \in Conns, TaskReceives(c) PROVE WireInv'
  <2>1. /\ st[c] = "task" /\ next[c] \in 1..MaxSends /\ next[c] <= sent
        /\ UNCHANGED <<sent, latched, lnext, joined, st, wire>>
        /\ \A d \in Conns : /\ next'[d] = IF d = c THEN next[c] + 1 ELSE next[d]
                            /\ hand'[d] = IF d = c THEN next[c] ELSE hand[d]
    BY <1>18 DEF TaskReceives, HasNext, chanVars, listVars
  <2>2. ASSUME NEW d \in Conns PROVE Fits(d)'
    <3>0. wire[d] # <<>> => wire[d][Len(wire[d])] \in Nat
      BY SMTT(30) DEF Fits
    <3>1. CASE d = c
      BY SMTT(30), <2>1, <3>0, <3>1 DEF WireInv, Fits
    <3>2. CASE d # c
      BY <2>1, <3>2 DEF WireInv, Fits
    <3>. QED  BY <3>1, <3>2
  <2>. QED  BY <2>1, <2>2 DEF WireInv
<1>19. ASSUME NEW c \in Conns, TaskLags(c) PROVE WireInv'
  <2>1. /\ UNCHANGED <<sent, latched, lnext, hand, joined, st, wire>>
        /\ next[c] < next'[c] /\ next'[c] <= sent + 1
        /\ \A d \in Conns \ {c} : next'[d] = next[d]
    BY <1>19 DEF TaskLags, Lagging, Oldest, chanVars, listVars
  <2>2. ASSUME NEW d \in Conns PROVE Fits(d)'
    <3>1. wire[d] # <<>> => wire[d][Len(wire[d])] \in Nat
      BY SMTT(30) DEF Fits
    <3>2. next'[d] \in Nat
      BY <1>19 DEF TaskLags, Oldest
    <3>3. CASE d = c
      BY SMTT(30), <2>1, <3>1, <3>2, <3>3 DEF WireInv, Fits
    <3>4. CASE d # c
      BY <2>1, <3>4 DEF WireInv, Fits
    <3>. QED  BY <3>3, <3>4
  <2>. QED  BY <2>1, <2>2 DEF WireInv
<1>20. ASSUME NEW c \in Conns, TaskEnds(c) PROVE WireInv'
  <2>1. ASSUME NEW d \in Conns PROVE Fits(d)'
    BY <1>20 DEF TaskEnds, MayReceive, Writing, chanVars, listVars, taskVars, WireInv, Fits
  <2>. QED  BY <1>20, <2>1 DEF TaskEnds, MayReceive, chanVars, listVars, taskVars, WireInv
<1>21. ASSUME NEW c \in Conns, Remove(c) PROVE WireInv'
  <2>1. ASSUME NEW d \in Conns PROVE Fits(d)'
    BY <1>21 DEF Remove, WithoutId, chanVars, listVars, taskVars, WireInv, Fits
  <2>. QED  BY <1>21, <2>1 DEF Remove, WithoutId, chanVars, listVars, taskVars, WireInv
<1>22. CASE UNCHANGED vars
  <2>1. ASSUME NEW d \in Conns PROVE Fits(d)'
    BY <1>22 DEF vars, WireInv, Fits
  <2>. QED  BY <1>22, <2>1 DEF vars, WireInv
<1>. QED
  BY <1>1, <1>2, <1>3, <1>4, <1>5, <1>6, <1>7, <1>8, <1>9, <1>10, <1>11, <1>12, <1>13, <1>14,
     <1>15, <1>16, <1>17, <1>18, <1>19, <1>20, <1>21, <1>22
  DEF Next, Listener, Subscriber, Task, Ended

LEMMA LiveNext ==
  TypeOK /\ SetupInv /\ LiveInv /\ [Next]_vars => LiveInv'
<1> SUFFICES ASSUME TypeOK, SetupInv, LiveInv, [Next]_vars PROVE LiveInv'
  OBVIOUS
<1> USE PublicationAssumption DEF TypeOK
<1>0. ASSUME sent' = sent \/ sent' = sent + 1, UNCHANGED <<hand, next, joined, wire>>,
             \A c \in Conns : st'[c] = "task" => st[c] = "task"
      PROVE  LiveInv'
  <2>1. sent' <= Capacity => sent <= Capacity
    BY <1>0
  <2>. QED  BY <1>0, <2>1 DEF LiveInv
<1>1. CASE Send
  BY <1>1, <1>0 DEF Send, listVars, taskVars, Receivers
<1>2. CASE Cancel
  BY <1>2, <1>0 DEF Cancel, listVars, taskVars
<1>3. CASE CloseSenders
  BY <1>3, <1>0 DEF CloseSenders, listVars, taskVars
<1>4. CASE ListenerStops
  BY <1>4, <1>0 DEF ListenerStops, ListenerEnds, chanVars, taskVars
<1>5. CASE ListenerClosed
  BY <1>5, <1>0 DEF ListenerClosed, ListenerEnds, chanVars, taskVars
<1>6. CASE ListenerReceives
  BY <1>6, <1>0 DEF ListenerReceives, HasNext, Lagging, Oldest, Kept, chanVars, taskVars
<1>7. CASE ListenerLags
  BY <1>7, <1>0 DEF ListenerLags, Lagging, Oldest, chanVars, taskVars
<1>8. ASSUME NEW c \in Conns, Accept(c) PROVE LiveInv'
  BY <1>8, <1>0 DEF Accept, chanVars, taskVars
<1>9. CASE SetupSucceeds
  BY <1>9, <1>0 DEF SetupSucceeds, chanVars, taskVars
<1>10. CASE SetupFails
  BY <1>10, <1>0 DEF SetupFails, chanVars, taskVars, SetupInv
<1>11. CASE Spawn
  <2>1. /\ current \in Conns /\ sent' = sent /\ wire' = wire
        /\ \A d \in Conns : /\ d # current => /\ st'[d] = st[d] /\ next'[d] = next[d]
                                              /\ joined'[d] = joined[d] /\ hand'[d] = hand[d]
                            /\ d = current => next'[d] = sent + 1 /\ joined'[d] = sent
    BY <1>11 DEF Spawn, Start, SetupInv, chanVars
  <2>2. sent + 1..(sent + 1) - 1 = {}
    OBVIOUS
  <2>. QED  BY <2>1, <2>2 DEF LiveInv
<1>12. ASSUME NEW c \in Conns, Connect(c) PROVE LiveInv'
  BY <1>12, <1>0 DEF Connect, chanVars, listVars, taskVars
<1>13. ASSUME NEW c \in Conns, SendHeader(c) PROVE LiveInv'
  BY <1>13, <1>0 DEF SendHeader, chanVars, listVars, taskVars
<1>14. ASSUME NEW c \in Conns, Stall(c) PROVE LiveInv'
  BY <1>14, <1>0 DEF Stall, chanVars, listVars, taskVars
<1>15. ASSUME NEW c \in Conns, Resume(c) PROVE LiveInv'
  BY <1>15, <1>0 DEF Resume, chanVars, listVars, taskVars
<1>16. ASSUME NEW c \in Conns, Leave(c) PROVE LiveInv'
  BY <1>16, <1>0 DEF Leave, chanVars, listVars, taskVars
<1>17. ASSUME NEW c \in Conns, Write(c) PROVE LiveInv'
  <2>1. UNCHANGED <<sent, next, joined>>
    BY <1>17 DEF Write, chanVars
  <2>2. /\ \A d \in Conns : st'[d] = "task" => st[d] = "task"
        /\ \A d \in Conns \ {c} : wire'[d] = wire[d] /\ hand'[d] = hand[d]
        /\ st'[c] = "task" => Has(wire'[c], hand[c])
        /\ \A n : Has(wire[c], n) => Has(wire'[c], n)
    BY <1>17, WriteDone
  <2>3. ASSUME sent <= Capacity, NEW d \in Conns, st'[d] = "task", NEW m \in joined'[d] + 1..next'[d] - 1
        PROVE  Has(wire'[d], m) \/ m = hand'[d]
    <3>1. Has(wire[d], m) \/ m = hand[d]
      BY <2>1, <2>2, <2>3 DEF LiveInv
    <3>. QED  BY <2>2, <2>3, <3>1
  <2>. QED  BY <2>1, <2>3 DEF LiveInv
<1>18. ASSUME NEW c \in Conns, TaskReceives(c) PROVE LiveInv'
  <2>1. /\ UNCHANGED <<sent, joined, st, wire>> /\ next[c] \in 1..MaxSends /\ hand[c] = 0
        /\ \A d \in Conns \ {c} : next'[d] = next[d] /\ hand'[d] = hand[d]
        /\ next'[c] = next[c] + 1 /\ hand'[c] = next[c]
    BY <1>18 DEF TaskReceives, MayReceive, Writing, HasNext, chanVars
  <2>2. ASSUME sent <= Capacity, NEW d \in Conns, st[d] = "task", NEW m \in joined[d] + 1..next'[d] - 1
        PROVE  Has(wire[d], m) \/ m = hand'[d]
    <3>1. CASE d # c
      BY <2>1, <2>2, <3>1 DEF LiveInv
    <3>2. CASE d = c
      <4>1. m # 0 /\ (m = next[c] \/ m \in joined[c] + 1..next[c] - 1)
        BY <2>1, <2>2, <3>2
      <4>. QED  BY <2>1, <2>2, <3>2, <4>1 DEF LiveInv
    <3>. QED  BY <3>1, <3>2
  <2>. QED  BY <2>1, <2>2 DEF LiveInv
<1>19. ASSUME NEW c \in Conns, TaskLags(c) PROVE LiveInv'
  <2>1. sent' = sent /\ ~(sent <= Capacity)
    BY <1>19 DEF TaskLags, Lagging, Oldest, chanVars
  <2>. QED  BY <2>1 DEF LiveInv
<1>20. ASSUME NEW c \in Conns, TaskEnds(c) PROVE LiveInv'
  BY <1>20, <1>0 DEF TaskEnds, MayReceive, chanVars, listVars, taskVars
<1>21. ASSUME NEW c \in Conns, Remove(c) PROVE LiveInv'
  BY <1>21, <1>0 DEF Remove, WithoutId, chanVars, listVars, taskVars
<1>22. CASE UNCHANGED vars
  BY <1>22, <1>0 DEF vars
<1>. QED
  BY <1>1, <1>2, <1>3, <1>4, <1>5, <1>6, <1>7, <1>8, <1>9, <1>10, <1>11, <1>12, <1>13, <1>14,
     <1>15, <1>16, <1>17, <1>18, <1>19, <1>20, <1>21, <1>22
  DEF Next, Listener, Subscriber, Task, Ended

LEMMA IdsNext ==
  TypeOK /\ SetupInv /\ IdsInv /\ [Next]_vars => IdsInv'
<1> SUFFICES ASSUME TypeOK, SetupInv, IdsInv, [Next]_vars PROVE IdsInv'
  OBVIOUS
<1>0. ASSUME UNCHANGED <<ids, peer>>,
             \A c \in Conns : /\ st'[c] = "task" => st[c] = "task"
                              /\ st'[c] \in {"task", "exiting"} <=> st[c] \in {"task", "exiting"}
                              /\ st'[c] = "none" => st[c] = "none"
      PROVE  IdsInv'
  <2>1. ASSUME NEW c \in Conns, st'[c] = "task", \A d \in Conns \ {c} : st'[d] = "none" \/ peer[d] # peer[c]
        PROVE  peer[c] \in ids
    BY <1>0, <2>1 DEF IdsInv
  <2>2. \A i \in ids : \E c \in Conns : st'[c] \in {"task", "exiting"} /\ peer[c] = i
    BY <1>0 DEF IdsInv
  <2>. QED  BY <1>0, <2>1, <2>2 DEF IdsInv
<1> USE DEF TypeOK
<1>1. CASE Send
  BY <1>1, <1>0 DEF Send, listVars, taskVars, Receivers
<1>2. CASE Cancel
  BY <1>2, <1>0 DEF Cancel, listVars, taskVars
<1>3. CASE CloseSenders
  BY <1>3, <1>0 DEF CloseSenders, listVars, taskVars
<1>4. CASE ListenerStops
  BY <1>4, <1>0 DEF ListenerStops, ListenerEnds, chanVars, taskVars
<1>5. CASE ListenerClosed
  BY <1>5, <1>0 DEF ListenerClosed, ListenerEnds, chanVars, taskVars
<1>6. CASE ListenerReceives
  BY <1>6, <1>0 DEF ListenerReceives, HasNext, Lagging, Oldest, Kept, chanVars, taskVars
<1>7. CASE ListenerLags
  BY <1>7, <1>0 DEF ListenerLags, Lagging, Oldest, chanVars, taskVars
<1>8. ASSUME NEW c \in Conns, Accept(c) PROVE IdsInv'
  BY <1>8, <1>0 DEF Accept, chanVars, taskVars
<1>9. CASE SetupSucceeds
  BY <1>9, <1>0 DEF SetupSucceeds, chanVars, taskVars
<1>10. CASE SetupFails
  BY <1>10, <1>0 DEF SetupFails, chanVars, taskVars, SetupInv
<1>11. CASE Spawn
  <2>1. /\ current \in Conns /\ st[current] = "setup" /\ peer' = peer /\ ids' = ids \cup {peer[current]}
        /\ \A d \in Conns : st'[d] = IF d = current THEN "task" ELSE st[d]
    BY <1>11 DEF Spawn, SetupInv, WithId
  <2>2. ASSUME NEW i \in ids' PROVE \E d \in Conns : st'[d] \in {"task", "exiting"} /\ peer[d] = i
    <3>1. CASE i \in ids
      <4>1. PICK d \in Conns : st[d] \in {"task", "exiting"} /\ peer[d] = i
        BY <3>1 DEF IdsInv
      <4>. QED  BY <2>1, <4>1
    <3>2. CASE i = peer[current]
      BY <2>1, <3>2
    <3>. QED  BY <2>1, <3>1, <3>2
  <2>3. ASSUME NEW c \in Conns, st'[c] = "task", \A d \in Conns \ {c} : st'[d] = "none" \/ peer[d] # peer[c]
        PROVE  peer[c] \in ids'
    <3>1. CASE c = current
      BY <2>1, <3>1
    <3>2. CASE c # current
      <4>1. \A d \in Conns \ {c} : st[d] = "none" \/ peer[d] # peer[c]
        BY <2>1, <2>3
      <4>. QED  BY <2>1, <2>3, <3>2, <4>1 DEF IdsInv
    <3>. QED  BY <3>1, <3>2
  <2>. QED  BY <2>1, <2>2, <2>3 DEF IdsInv
<1>12. ASSUME NEW c \in Conns, Connect(c) PROVE IdsInv'
  BY <1>12, <1>0 DEF Connect, chanVars, listVars, taskVars
<1>13. ASSUME NEW c \in Conns, SendHeader(c) PROVE IdsInv'
  BY <1>13, <1>0 DEF SendHeader, chanVars, listVars, taskVars
<1>14. ASSUME NEW c \in Conns, Stall(c) PROVE IdsInv'
  BY <1>14, <1>0 DEF Stall, chanVars, listVars, taskVars
<1>15. ASSUME NEW c \in Conns, Resume(c) PROVE IdsInv'
  BY <1>15, <1>0 DEF Resume, chanVars, listVars, taskVars
<1>16. ASSUME NEW c \in Conns, Leave(c) PROVE IdsInv'
  BY <1>16, <1>0 DEF Leave, chanVars, listVars, taskVars
<1>17. ASSUME NEW c \in Conns, Write(c) PROVE IdsInv'
  BY <1>17, <1>0 DEF Write, chanVars, listVars
<1>18. ASSUME NEW c \in Conns, TaskReceives(c) PROVE IdsInv'
  BY <1>18, <1>0 DEF TaskReceives, chanVars, listVars
<1>19. ASSUME NEW c \in Conns, TaskLags(c) PROVE IdsInv'
  BY <1>19, <1>0 DEF TaskLags, MayReceive, Lagging, Oldest, chanVars, listVars
<1>20. ASSUME NEW c \in Conns, TaskEnds(c) PROVE IdsInv'
  BY <1>20, <1>0 DEF TaskEnds, MayReceive, chanVars, listVars, taskVars
<1>21. ASSUME NEW c \in Conns, Remove(c) PROVE IdsInv'
  <2>1. /\ st[c] = "exiting" /\ peer' = peer /\ ids' = ids \ {peer[c]}
        /\ \A d \in Conns : st'[d] = IF d = c THEN "closed" ELSE st[d]
    BY <1>21 DEF Remove, WithoutId
  <2>2. ASSUME NEW i \in ids' PROVE \E d \in Conns : st'[d] \in {"task", "exiting"} /\ peer[d] = i
    <3>1. PICK d \in Conns : st[d] \in {"task", "exiting"} /\ peer[d] = i
      BY <2>1 DEF IdsInv
    <3>. QED  BY <2>1, <3>1
  <2>3. ASSUME NEW b \in Conns, st'[b] = "task", \A d \in Conns \ {b} : st'[d] = "none" \/ peer[d] # peer[b]
        PROVE  peer[b] \in ids'
    <3>1. b # c /\ peer[c] # peer[b]
      BY <2>1, <2>3
    <3>2. \A d \in Conns \ {b} : st[d] = "none" \/ peer[d] # peer[b]
      BY <2>1, <2>3, <3>1
    <3>. QED  BY <2>1, <2>3, <3>1, <3>2 DEF IdsInv
  <2>. QED  BY <2>1, <2>2, <2>3 DEF IdsInv
<1>22. CASE UNCHANGED vars
  BY <1>22, <1>0 DEF vars
<1>. QED
  BY <1>1, <1>2, <1>3, <1>4, <1>5, <1>6, <1>7, <1>8, <1>9, <1>10, <1>11, <1>12, <1>13, <1>14,
     <1>15, <1>16, <1>17, <1>18, <1>19, <1>20, <1>21, <1>22
  DEF Next, Listener, Subscriber, Task, Ended

-----------------------------------------------------------------------------
(* The theorems. *)

LEMMA InitInv == Init => Inv
<1> SUFFICES ASSUME Init PROVE Inv
  OBVIOUS
<1>1. <<>> \in Seq(1..MaxSends)
  OBVIOUS
<1>2. TypeOK
  <2>1. 0 \in 0..MaxSends /\ 1 \in 1..MaxSends + 1
    BY PublicationAssumption
  <2>. QED  BY <1>1, <2>1 DEF Init, TypeOK
<1>3. SetupInv
  BY PublicationAssumption DEF Init, SetupInv
<1>4. WireInv /\ LiveInv /\ IdsInv
  BY DEF Init, WireInv, Fits, LiveInv, IdsInv
<1>. QED  BY <1>2, <1>3, <1>4 DEF Inv

LEMMA InvAlways == Spec => []Inv
<1>1. Inv /\ [Next]_vars => Inv'
  BY TypesNext, SetupNext, WireNext, LiveNext, IdsNext DEF Inv
<1>. QED  BY <1>1, InitInv, PTL DEF Spec

(* A subscriber that is listed has a task that runs, and one whose task runs *)
(* is listed unless another connection has used its name (insert 196, remove *)
(* 211); types included.                                                     *)
THEOREM PublicationIdsTracked == Spec => []IdsTracked
<1>1. Inv => IdsTracked
  BY DEF Inv, IdsInv, IdsTracked, Receivers
<1>. QED  BY <1>1, InvAlways, PTL

(* A task that has caught up without ever lagging has written every message  *)
(* sent since it joined, whatever else the channel's receivers do (184-185,  *)
(* 206-232).                                                                 *)
THEOREM PublicationNoLiveMessageLost == Spec => []NoLiveMessageLost
<1>1. Inv => NoLiveMessageLost
  <2> SUFFICES ASSUME Inv, sent <= Capacity, NEW c \in Conns, CaughtUp(c),
                      NEW m \in joined[c] + 1..sent
               PROVE  \E i \in 1..Len(wire[c]) : wire[c][i] = m
    BY DEF NoLiveMessageLost
  <2>1. st[c] = "task" /\ m \in joined[c] + 1..next[c] - 1 /\ m # hand[c]
    BY DEF CaughtUp, Writing, Inv, TypeOK
  <2>. QED  BY <2>1 DEF Inv, LiveInv, Has
<1>. QED  BY <1>1, InvAlways, PTL

LEMMA LastWritten == ASSUME NEW s PROVE Stream!Last0(s) = IF s = <<>> THEN 0 ELSE s[Len(s)]
BY DEF Stream!Last0

(* Every step of the publication is one of the abstract stream, or none of   *)
(* its business.                                                             *)
LEMMA StreamNext ==
  Inv /\ [Next]_vars => [Stream!Next]_<<sent, joined, wire>>
<1> SUFFICES ASSUME Inv, [Next]_vars PROVE Stream!Next \/ UNCHANGED <<sent, joined, wire>>
  OBVIOUS
<1> USE DEF Inv
<1>1. CASE Send
  BY <1>1 DEF Send, taskVars, Stream!Next, Stream!Publish
<1>2. CASE Cancel
  BY <1>2 DEF Cancel, chanVars, taskVars
<1>3. CASE CloseSenders
  BY <1>3 DEF CloseSenders, chanVars, taskVars
<1>4. CASE ListenerStops
  BY <1>4 DEF ListenerStops, chanVars, taskVars, ListenerEnds
<1>5. CASE ListenerClosed
  BY <1>5 DEF ListenerClosed, chanVars, taskVars, ListenerEnds
<1>6. CASE ListenerReceives
  BY <1>6 DEF ListenerReceives, chanVars, taskVars
<1>7. CASE ListenerLags
  BY <1>7 DEF ListenerLags, chanVars, taskVars
<1>8. ASSUME NEW c \in Conns, Accept(c) PROVE Stream!Next \/ UNCHANGED <<sent, joined, wire>>
  BY <1>8 DEF Accept, chanVars, taskVars
<1>9. CASE SetupSucceeds
  BY <1>9 DEF SetupSucceeds, chanVars, taskVars
<1>10. CASE SetupFails
  BY <1>10 DEF SetupFails, chanVars, taskVars
<1>11. CASE Spawn
  <2>1. current \in Conns /\ wire[current] = <<>>
    BY <1>11 DEF Spawn, SetupInv, WireInv, Fits
  <2>2. Stream!Join(current)
    BY <1>11, <2>1 DEF Spawn, chanVars, Stream!Join
  <2>. QED  BY <2>1, <2>2 DEF Stream!Next
<1>12. ASSUME NEW c \in Conns, Connect(c) PROVE Stream!Next \/ UNCHANGED <<sent, joined, wire>>
  BY <1>12 DEF Connect, chanVars, taskVars
<1>13. ASSUME NEW c \in Conns, SendHeader(c) PROVE Stream!Next \/ UNCHANGED <<sent, joined, wire>>
  BY <1>13 DEF SendHeader, chanVars, taskVars
<1>14. ASSUME NEW c \in Conns, Stall(c) PROVE Stream!Next \/ UNCHANGED <<sent, joined, wire>>
  BY <1>14 DEF Stall, chanVars, taskVars
<1>15. ASSUME NEW c \in Conns, Resume(c) PROVE Stream!Next \/ UNCHANGED <<sent, joined, wire>>
  BY <1>15 DEF Resume, chanVars, taskVars
<1>16. ASSUME NEW c \in Conns, Leave(c) PROVE Stream!Next \/ UNCHANGED <<sent, joined, wire>>
  BY <1>16 DEF Leave, chanVars, taskVars
<1>17. ASSUME NEW c \in Conns, Write(c) PROVE Stream!Next \/ UNCHANGED <<sent, joined, wire>>
  <2>1. CASE UNCHANGED wire
    BY <1>17, <2>1 DEF Write, chanVars
  <2>2. CASE wire' = [wire EXCEPT ![c] = Append(@, hand[c])]
    <3>1. /\ hand[c] \in 1..MaxSends /\ hand[c] < next[c] /\ next[c] <= sent + 1 /\ next[c] \in Nat /\ sent \in Nat
          /\ hand[c] <= joined[c] => wire[c] = <<>>
          /\ wire[c] # <<>> => wire[c][Len(wire[c])] < hand[c]
      BY <1>17 DEF Write, Writing, TypeOK, WireInv, Fits
    <3>2. hand[c] \in 1..sent /\ hand[c] > Stream!Last0(wire[c])
      BY <3>1, LastWritten DEF TypeOK
    <3>3. Stream!Deliver(c, hand[c])
      BY <1>17, <2>2, <3>1, <3>2 DEF Write, chanVars, Stream!Deliver
    <3>. QED  BY <3>2, <3>3 DEF Stream!Next
  <2>. QED  BY <1>17, <2>1, <2>2 DEF Write
<1>18. ASSUME NEW c \in Conns, TaskReceives(c) PROVE Stream!Next \/ UNCHANGED <<sent, joined, wire>>
  BY <1>18 DEF TaskReceives, chanVars
<1>19. ASSUME NEW c \in Conns, TaskLags(c) PROVE Stream!Next \/ UNCHANGED <<sent, joined, wire>>
  BY <1>19 DEF TaskLags, chanVars, taskVars
<1>20. ASSUME NEW c \in Conns, TaskEnds(c) PROVE Stream!Next \/ UNCHANGED <<sent, joined, wire>>
  BY <1>20 DEF TaskEnds, chanVars, taskVars
<1>21. ASSUME NEW c \in Conns, Remove(c) PROVE Stream!Next \/ UNCHANGED <<sent, joined, wire>>
  BY <1>21 DEF Remove, chanVars, taskVars
<1>22. CASE UNCHANGED vars
  BY <1>22 DEF vars, chanVars, taskVars
<1>. QED
  BY <1>1, <1>2, <1>3, <1>4, <1>5, <1>6, <1>7, <1>8, <1>9, <1>10, <1>11, <1>12, <1>13, <1>14,
     <1>15, <1>16, <1>17, <1>18, <1>19, <1>20, <1>21, <1>22
  DEF Next, Listener, Subscriber, Task, Ended

(* The publication implements TopicStream: each subscriber is written        *)
(* published messages in order, none twice, and at most one from before it   *)
(* joined, as the first (latched message and resubscribe, 184-185).          *)
THEOREM PublicationImplementsStream == Spec => StreamSpec
<1>1. Init => Stream!Init
  BY DEF Init, Stream!Init
<1>. QED  BY <1>1, StreamNext, InvAlways, PTL DEF Spec, StreamSpec, Stream!Spec

=============================================================================
