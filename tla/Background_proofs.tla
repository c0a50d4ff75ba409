--------------------------- MODULE Background_proofs ---------------------------
(***************************************************************************)
(* Proofs about the two tasks that a node runs beside its actors.  Clock:  *)
(* no sleeper is left without a timer, whichever way its polls interleave  *)
(* with the clock's task, and the sleeps of a Rate that do not overlap     *)
(* keep every beat.  NodeShutdown: the token delays the end of the         *)
(* shutdown until every actor has gone.                                    *)
(***************************************************************************)
EXTENDS Clock, NodeShutdown, FiniteSetTheorems, SequenceTheorems, TLAPS

-----------------------------------------------------------------------------
(* The inductive invariants of the clock. *)

Queued(f) == \E i \in 1..Len(channel) : channel[i] = f
Distinct  == \A i, j \in 1..Len(channel) : channel[i] = channel[j] => i = j

Types ==
    /\ now \in Times /\ inbox \in Times \cup {NoTick}
    /\ source \in {"open", "closed"} /\ cancelled \in BOOLEAN
    /\ task \in {"select", "expire", "closing", "draining", "drained", "stopped"}
    /\ timers \in SUBSET Futures
    /\ channel \in Seq(Futures)
    /\ future \in [Futures -> {"new", "rate", "check_time", "check_open", "send", "pending",
                               "done", "dropped"}]
    /\ deadline \in [Futures -> Nat]
    /\ entered \in SUBSET Futures
    /\ woken \in SUBSET Futures
    /\ next \in Nat /\ beats \in SUBSET Futures /\ overlapped \in BOOLEAN

(* A future has one entry at most, in the queue or in the channel, and none  *)
(* before it has sent it.                                                    *)
OneEntry ==
    /\ \A f \in Futures : f \in timers \/ Queued(f) => f \in entered
    /\ \A f \in Futures : ~(f \in timers /\ Queued(f))
    /\ Distinct
    /\ \A f \in Futures : future[f] \in {"new", "rate", "send"} => f \notin entered

(* While time does not go back: a message unread is later than the time, an  *)
(* entry is used up only when it is due or at the end, and a future that has *)
(* found itself not yet due either still has its entry or has been woken.    *)
WakeInv ==
    ~Backwards =>
        /\ inbox # NoTick => inbox >= now
        /\ \A f \in entered : f \in timers \/ Queued(f) \/ now >= deadline[f] \/ Closed
        /\ \A f \in Futures :
              future[f] = "pending" => f \in timers \/ Queued(f) \/ f \in woken
        /\ \A f \in entered :
              future[f] = "check_open" => f \in timers \/ Queued(f) \/ f \in woken \/ Closed

(* The Rate: a beat counts from the one before, and next is the last of them *)
(* except while a sleep has yet to store it.                                 *)
InRate(f) == future[f] = "rate"

BeatInv ==
    /\ IsFiniteSet(beats)
    /\ \A f \in Futures : (future[f] = "new" => f \notin beats) /\ (InRate(f) => f \in beats)
    /\ ~overlapped =>
         /\ \A f, g \in Futures : InRate(f) /\ InRate(g) => f = g
         /\ \A f \in Futures : InRate(f) => deadline[f] = next + Interval
         /\ (\A f \in Futures : ~InRate(f)) => next = Cardinality(beats) * Interval
         /\ (\E f \in Futures : InRate(f)) => next + Interval = Cardinality(beats) * Interval
         /\ \A f \in beats : ~InRate(f) => deadline[f] <= next
         /\ BeatsKept


-----------------------------------------------------------------------------
(* The channel. *)

LEMMA SentTimer ==
  ASSUME channel \in Seq(Futures), NEW f \in Futures, channel' = Append(channel, f)
  PROVE  /\ \A g \in Futures : Queued(g)' <=> Queued(g) \/ g = f
         /\ Distinct /\ ~Queued(f) => Distinct'
<1>1. /\ Len(channel') = Len(channel) + 1 /\ channel'[Len(channel')] = f /\ Len(channel) \in Nat
      /\ \A i \in 1..Len(channel) : channel'[i] = channel[i] /\ i \in 1..Len(channel')
      /\ \A i \in 1..Len(channel') : i \in 1..Len(channel) \/ i = Len(channel')
  OBVIOUS
<1>2. Len(channel') \in 1..Len(channel')
  BY <1>1
<1>3. ASSUME NEW g \in Futures PROVE Queued(g)' <=> Queued(g) \/ g = f
  BY <1>1, <1>2 DEF Queued
<1>4. ASSUME Distinct, ~Queued(f) PROVE Distinct'
  BY <1>1, <1>4 DEF Distinct, Queued
<1>. QED  BY <1>3, <1>4

LEMMA TakenTimer ==
  ASSUME channel \in Seq(Futures), channel # <<>>, channel' = Tail(channel)
  PROVE  /\ Head(channel) \in Futures
         /\ \A g \in Futures : Queued(g) <=> Queued(g)' \/ g = Head(channel)
         /\ Distinct => Distinct' /\ \A g \in Futures : g = Head(channel) => ~Queued(g)'
<1> DEFINE h == Head(channel)
<1>1. /\ Len(channel) = Len(channel') + 1 /\ Len(channel') \in Nat /\ h = channel[1]
      /\ \A i \in 1..Len(channel') : channel'[i] = channel[i + 1] /\ i + 1 \in 1..Len(channel)
      /\ h \in Futures
  OBVIOUS
<1>2. 1 \in 1..Len(channel) /\ \A i \in 1..Len(channel) : i = 1 \/ (i - 1 \in 1..Len(channel') /\ channel'[i - 1] = channel[i])
  BY <1>1
<1>3. PICK k \in Futures : k = h
  BY <1>1
<1> HIDE DEF h
<1>4. ASSUME NEW g \in Futures PROVE Queued(g) <=> Queued(g)' \/ g = h
  <2>1. ASSUME Queued(g) PROVE Queued(g)' \/ g = h
    <3>1. PICK i \in 1..Len(channel) : channel[i] = g
      BY <2>1 DEF Queued
    <3>2. i = 1 \/ (i - 1 \in 1..Len(channel') /\ channel'[i - 1] = g)
      BY <1>2, <3>1
    <3>. QED  BY <1>1, <3>1, <3>2 DEF Queued
  <2>2. ASSUME Queued(g)' PROVE Queued(g)
    BY <1>1, <2>2 DEF Queued
  <2>3. ASSUME g = h PROVE Queued(g)
    BY <1>1, <1>2, <2>3 DEF Queued
  <2>. QED  BY <2>1, <2>2, <2>3
<1>5. ASSUME Distinct PROVE Distinct' /\ ~Queued(k)'
  <2>1. Distinct'
    BY <1>1, <1>5 DEF Distinct
  <2>2. ASSUME NEW i \in 1..Len(channel'), channel'[i] = k PROVE FALSE
    <3>1. channel[i + 1] = channel[1] /\ i + 1 \in 1..Len(channel)
      BY <1>1, <1>3, <2>2
    <3>2. i + 1 = 1
      BY <1>2, <1>5, <3>1 DEF Distinct
    <3>. QED  BY <3>2
  <2>. QED  BY <2>1, <2>2 DEF Queued
<1>. QED  BY <1>1, <1>3, <1>4, <1>5 DEF h

-----------------------------------------------------------------------------
(* Types and entries. *)

LEMMA TypesNext == Types /\ [Next]_vars => Types'
<1> SUFFICES ASSUME Types, [Next]_vars PROVE Types'
  OBVIOUS
<1> USE ClockAssumption DEF Types, Times, NoTick
<1>1. ASSUME NEW f \in Futures, Sleep(f) PROVE Types'
  BY <1>1 DEF Sleep, rateVars
<1>2. ASSUME NEW f \in Futures, RateRead(f) PROVE Types'
  <2>1. next + Interval \in Nat
    OBVIOUS
  <2>. QED  BY <1>2, <2>1 DEF RateRead, clockVars
<1>3. ASSUME NEW f \in Futures, RateStore(f) PROVE Types'
  <2>1. deadline[f] \in Nat
    OBVIOUS
  <2>. QED  BY <1>3, <2>1 DEF RateStore, Beat, clockVars
<1>4. ASSUME NEW f \in Futures, CheckTime(f) PROVE Types'
  BY <1>4 DEF CheckTime, Goto, rateVars
<1>5. ASSUME NEW f \in Futures, CheckOpen(f) PROVE Types'
  BY <1>5 DEF CheckOpen, Goto, rateVars
<1>6. ASSUME NEW f \in Futures, SendTimer(f) PROVE Types'
  <2>1. channel' = Append(channel, f) \/ channel' = channel
    BY <1>6 DEF SendTimer
  <2>2. channel' \in Seq(Futures)
    <3>1. Append(channel, f) \in Seq(Futures)
      OBVIOUS
    <3>. QED  BY <2>1, <3>1
  <2>. QED  BY <1>6, <2>2 DEF SendTimer, Goto, rateVars
<1>7. ASSUME NEW f \in Futures, Poll(f) PROVE Types'
  BY <1>7 DEF Poll, Goto, rateVars
<1>8. ASSUME NEW f \in Futures, PollAnyway(f) PROVE Types'
  BY <1>8 DEF PollAnyway, Goto, rateVars
<1>9. ASSUME NEW f \in Futures, DropFuture(f) PROVE Types'
  BY <1>9 DEF DropFuture, Goto, rateVars
<1>10. CASE ReceiveTimer
  BY <1>10 DEF ReceiveTimer, futureVars, rateVars, Pushed
<1>11. CASE ReceiveTick
  BY <1>11 DEF ReceiveTick, futureVars, rateVars
<1>12. CASE Break
  BY <1>12 DEF Break, futureVars, rateVars
<1>13. CASE Expire
  <2>1. PICK f \in Due : Notify(f) /\ timers' = timers \ {f}
    BY <1>13 DEF Expire
  <2>2. f \in Futures
    BY <2>1 DEF Due, Foremost
  <2>. QED  BY <1>13, <2>1, <2>2 DEF Expire, Notify, rateVars
<1>14. CASE Expired
  BY <1>14 DEF Expired, futureVars, rateVars
<1>15. CASE CloseChannel
  BY <1>15 DEF CloseChannel, futureVars, rateVars
<1>16. CASE Drain
  <2>1. PICK f \in Futures : /\ Notify(f)
                             /\ timers' \in SUBSET Futures /\ channel' \in Seq(Futures)
    <3>1. CASE \E f \in timers : Notify(f) /\ timers' = timers \ {f} /\ UNCHANGED channel
      BY <3>1
    <3>2. CASE channel # <<>> /\ Notify(Head(channel)) /\ channel' = Tail(channel) /\ UNCHANGED timers
      BY <3>2
    <3>. QED  BY <1>16, <3>1, <3>2 DEF Drain
  <2>. QED  BY <1>16, <2>1 DEF Drain, Notify, rateVars
<1>17. CASE Drained
  BY <1>17 DEF Drained, futureVars, rateVars
<1>18. CASE TaskEnds
  BY <1>18 DEF TaskEnds, futureVars, rateVars
<1>19. CASE Tick
  BY <1>19 DEF Tick, futureVars, rateVars
<1>20. CASE SourceCloses
  BY <1>20 DEF SourceCloses, futureVars, rateVars
<1>21. CASE DropClock
  BY <1>21 DEF DropClock, futureVars, rateVars
<1>22. CASE UNCHANGED vars
  BY <1>22 DEF vars, clockVars, futureVars, rateVars
<1>. QED
  BY <1>1, <1>2, <1>3, <1>4, <1>5, <1>6, <1>7, <1>8, <1>9, <1>10, <1>11, <1>12, <1>13, <1>14,
     <1>15, <1>16, <1>17, <1>18, <1>19, <1>20, <1>21, <1>22
  DEF Next, Polling, Task, Quiescent

LEMMA EntryNext == Types /\ OneEntry /\ [Next]_vars => OneEntry'
<1> SUFFICES ASSUME Types, OneEntry, [Next]_vars PROVE OneEntry'
  OBVIOUS
<1>0. ASSUME UNCHANGED <<timers, channel, entered>>,
             \A f \in Futures : future'[f] \in {"new", "rate", "send"} =>
                               future[f] \in {"new", "rate", "send"} \/ f \notin entered
      PROVE  OneEntry'
  BY <1>0 DEF OneEntry, Queued, Distinct
<1> USE DEF Types
<1>1. ASSUME NEW f \in Futures, Sleep(f) PROVE OneEntry'
  BY <1>1, <1>0 DEF Sleep
<1>2. ASSUME NEW f \in Futures, RateRead(f) PROVE OneEntry'
  BY <1>2, <1>0 DEF RateRead, clockVars
<1>3. ASSUME NEW f \in Futures, RateStore(f) PROVE OneEntry'
  BY <1>3, <1>0 DEF RateStore, clockVars
<1>4. ASSUME NEW f \in Futures, CheckTime(f) PROVE OneEntry'
  BY <1>4, <1>0 DEF CheckTime, Goto
<1>5. ASSUME NEW f \in Futures, CheckOpen(f) PROVE OneEntry'
  BY <1>5, <1>0 DEF CheckOpen, Goto, HasWaker
<1>6. ASSUME NEW f \in Futures, SendTimer(f) PROVE OneEntry'
  <2>1. CASE Closed
    BY <1>6, <1>0, <2>1 DEF SendTimer, Goto
  <2>2. CASE ~Closed
    <3>1. /\ channel' = Append(channel, f) /\ entered' = entered \cup {f} /\ timers' = timers
          /\ future[f] = "send" /\ future' = [future EXCEPT ![f] = "pending"]
      BY <1>6, <2>2 DEF SendTimer, Goto
    <3>2. f \notin entered /\ f \notin timers /\ ~Queued(f) /\ Distinct
      BY <3>1 DEF OneEntry
    <3>3. Distinct' /\ \A g \in Futures : Queued(g)' <=> Queued(g) \/ g = f
      BY <3>1, <3>2, SentTimer
    <3>. QED  BY <3>1, <3>2, <3>3 DEF OneEntry
  <2>. QED  BY <2>1, <2>2
<1>7. ASSUME NEW f \in Futures, Poll(f) PROVE OneEntry'
  BY <1>7, <1>0 DEF Poll, Goto
<1>8. ASSUME NEW f \in Futures, PollAnyway(f) PROVE OneEntry'
  BY <1>8, <1>0 DEF PollAnyway, Goto
<1>9. ASSUME NEW f \in Futures, DropFuture(f) PROVE OneEntry'
  BY <1>9, <1>0 DEF DropFuture, Goto
<1>10. CASE ReceiveTimer
  <2>1. /\ timers' = timers \cup {Head(channel)} /\ channel' = Tail(channel) /\ channel # <<>>
        /\ UNCHANGED <<entered, future>>
    BY <1>10 DEF ReceiveTimer, Pushed, futureVars
  <2>. QED  BY <2>1, TakenTimer DEF OneEntry
<1>11. CASE ReceiveTick
  BY <1>11, <1>0 DEF ReceiveTick, futureVars
<1>12. CASE Break
  BY <1>12, <1>0 DEF Break, futureVars
<1>13. CASE Expire
  <2>1. timers' \subseteq timers /\ UNCHANGED <<channel, entered, future>>
    BY <1>13 DEF Expire, Notify
  <2>. QED  BY <2>1 DEF OneEntry, Queued, Distinct
<1>14. CASE Expired
  BY <1>14, <1>0 DEF Expired, futureVars
<1>15. CASE CloseChannel
  BY <1>15, <1>0 DEF CloseChannel, futureVars
<1>16. CASE Drain
  <2>1. timers' \subseteq timers /\ UNCHANGED <<entered, future>>
    BY <1>16 DEF Drain, Notify
  <2>2. CASE UNCHANGED channel
    BY <2>1, <2>2 DEF OneEntry, Queued, Distinct
  <2>3. CASE channel # <<>> /\ channel' = Tail(channel)
    BY <2>1, <2>3, TakenTimer DEF OneEntry
  <2>. QED  BY <1>16, <2>2, <2>3 DEF Drain
<1>17. CASE Drained
  BY <1>17, <1>0 DEF Drained, futureVars
<1>18. CASE TaskEnds
  BY <1>18, <1>0 DEF TaskEnds, futureVars
<1>19. CASE Tick
  BY <1>19, <1>0 DEF Tick, futureVars
<1>20. CASE SourceCloses
  BY <1>20, <1>0 DEF SourceCloses, futureVars
<1>21. CASE DropClock
  BY <1>21, <1>0 DEF DropClock, futureVars
<1>22. CASE UNCHANGED vars
  BY <1>22, <1>0 DEF vars, clockVars, futureVars
<1>. QED
  BY <1>1, <1>2, <1>3, <1>4, <1>5, <1>6, <1>7, <1>8, <1>9, <1>10, <1>11, <1>12, <1>13, <1>14,
     <1>15, <1>16, <1>17, <1>18, <1>19, <1>20, <1>21, <1>22
  DEF Next, Polling, Task, Quiescent

-----------------------------------------------------------------------------
(* Wake-ups. *)

LEMMA WakeNext == Types /\ OneEntry /\ WakeInv /\ [Next]_vars => WakeInv'
<1> SUFFICES ASSUME Types, OneEntry, WakeInv, [Next]_vars, ~Backwards PROVE WakeInv'
  BY DEF WakeInv
<1> USE ClockAssumption DEF Types, Times, NoTick, WakeInv, Closed
<1>1. ASSUME NEW f \in Futures, Sleep(f) PROVE WakeInv'
  <2>1. UNCHANGED channel /\ \A g \in Futures : Queued(g)' <=> Queued(g)
    BY <1>1 DEF Sleep, Queued
  <2>2. f \notin entered
    BY <1>1 DEF Sleep, OneEntry
  <2>. QED  BY <1>1, <2>1, <2>2 DEF Sleep
<1>2. ASSUME NEW f \in Futures, RateRead(f) PROVE WakeInv'
  <2>1. UNCHANGED channel /\ \A g \in Futures : Queued(g)' <=> Queued(g)
    BY <1>2 DEF RateRead, Queued, clockVars
  <2>2. f \notin entered
    BY <1>2 DEF RateRead, OneEntry
  <2>. QED  BY <1>2, <2>1, <2>2 DEF RateRead, clockVars
<1>3. ASSUME NEW f \in Futures, RateStore(f) PROVE WakeInv'
  <2>1. UNCHANGED channel /\ \A g \in Futures : Queued(g)' <=> Queued(g)
    BY <1>3 DEF RateStore, Queued, clockVars
  <2>. QED  BY <1>3, <2>1 DEF RateStore, clockVars
<1>4. ASSUME NEW f \in Futures, CheckTime(f) PROVE WakeInv'
  <2>1. UNCHANGED channel /\ \A g \in Futures : Queued(g)' <=> Queued(g)
    BY <1>4 DEF CheckTime, Queued
  <2>. QED  BY <1>4, <2>1 DEF CheckTime, Goto, Reached
<1>5. ASSUME NEW f \in Futures, CheckOpen(f) PROVE WakeInv'
  <2>1. UNCHANGED channel /\ \A g \in Futures : Queued(g)' <=> Queued(g)
    BY <1>5 DEF CheckOpen, Queued
  <2>. QED  BY <1>5, <2>1 DEF CheckOpen, Goto, HasWaker
<1>6. ASSUME NEW f \in Futures, SendTimer(f) PROVE WakeInv'
  <2>1. CASE Closed
    <3>1. \A g \in Futures : Queued(g)' <=> Queued(g)
      BY <1>6, <2>1 DEF SendTimer, Queued
    <3>. QED  BY <1>6, <2>1, <3>1 DEF SendTimer, Goto
  <2>2. CASE ~Closed
    <3>1. /\ channel' = Append(channel, f) /\ entered' = entered \cup {f}
          /\ future' = [future EXCEPT ![f] = "pending"]
          /\ UNCHANGED <<now, inbox, task, timers, deadline, woken>>
      BY <1>6, <2>2 DEF SendTimer, Goto
    <3>2. \A g \in Futures : Queued(g)' <=> Queued(g) \/ g = f
      BY <3>1, SentTimer
    <3>. QED  BY <3>1, <3>2
  <2>. QED  BY <2>1, <2>2
<1>7. ASSUME NEW f \in Futures, Poll(f) PROVE WakeInv'
  <2>1. UNCHANGED channel /\ \A g \in Futures : Queued(g)' <=> Queued(g)
    BY <1>7 DEF Poll, Queued
  <2>. QED  BY <1>7, <2>1 DEF Poll, Goto
<1>8. ASSUME NEW f \in Futures, PollAnyway(f) PROVE WakeInv'
  <2>1. UNCHANGED channel /\ \A g \in Futures : Queued(g)' <=> Queued(g)
    BY <1>8 DEF PollAnyway, Queued
  <2>. QED  BY <1>8, <2>1 DEF PollAnyway, Goto
<1>9. ASSUME NEW f \in Futures, DropFuture(f) PROVE WakeInv'
  <2>1. UNCHANGED channel /\ \A g \in Futures : Queued(g)' <=> Queued(g)
    BY <1>9 DEF DropFuture, Queued
  <2>. QED  BY <1>9, <2>1 DEF DropFuture, Goto
<1>10. CASE ReceiveTimer
  <2>1. /\ timers' = timers \cup {Head(channel)} /\ channel' = Tail(channel) /\ channel # <<>>
        /\ UNCHANGED <<now, inbox, task, future, deadline, entered, woken>>
    BY <1>10 DEF ReceiveTimer, Pushed, futureVars
  <2>2. \A g \in Futures : g \in timers \/ Queued(g) <=> g \in timers' \/ Queued(g)'
    BY <2>1, TakenTimer
  <2>. QED  BY <2>1, <2>2
<1>11. CASE ReceiveTick
  <2>1. UNCHANGED channel /\ \A g \in Futures : Queued(g)' <=> Queued(g)
    BY <1>11 DEF ReceiveTick, Queued
  <2>. QED  BY <1>11, <2>1 DEF ReceiveTick, futureVars
<1>12. CASE Break
  <2>1. UNCHANGED channel /\ \A g \in Futures : Queued(g)' <=> Queued(g)
    BY <1>12 DEF Break, Queued
  <2>. QED  BY <1>12, <2>1 DEF Break, futureVars
<1>13. CASE Expire
  <2>1. PICK g \in Due : Notify(g) /\ timers' = timers \ {g}
    BY <1>13 DEF Expire
  <2>2. /\ woken' = woken \cup {g} /\ UNCHANGED <<now, inbox, task, future, deadline, entered, channel>>
        /\ now >= deadline[g]
    BY <1>13, <2>1 DEF Expire, Notify, Due
  <2>3. \A h \in Futures : Queued(h)' <=> Queued(h)
    BY <2>2 DEF Queued
  <2>. QED  BY <2>1, <2>2, <2>3
<1>14. CASE Expired
  <2>1. UNCHANGED channel /\ \A g \in Futures : Queued(g)' <=> Queued(g)
    BY <1>14 DEF Expired, Queued
  <2>. QED  BY <1>14, <2>1 DEF Expired, futureVars
<1>15. CASE CloseChannel
  <2>1. UNCHANGED channel /\ \A g \in Futures : Queued(g)' <=> Queued(g)
    BY <1>15 DEF CloseChannel, Queued
  <2>. QED  BY <1>15, <2>1 DEF CloseChannel, futureVars
<1>16. CASE Drain
  <2>1. /\ UNCHANGED <<now, inbox, task, future, deadline, entered>> /\ Closed /\ Closed'
    BY <1>16 DEF Drain, Notify
  <2>2. ASSUME NEW g \in timers, Notify(g), timers' = timers \ {g}, channel' = channel PROVE WakeInv'
    <3>1. \A h \in Futures : Queued(h)' <=> Queued(h)
      BY <2>2 DEF Queued
    <3>. QED  BY <2>1, <2>2, <3>1 DEF Notify
  <2>3. ASSUME channel # <<>>, Notify(Head(channel)), channel' = Tail(channel), timers' = timers
        PROVE  WakeInv'
    <3>1. \A h \in Futures : Queued(h) => Queued(h)' \/ h \in woken'
      BY <2>3, TakenTimer DEF Notify
    <3>2. woken \subseteq woken'
      BY <2>3 DEF Notify
    <3>. QED  BY <2>1, <2>3, <3>1, <3>2
  <2>. QED  BY <1>16, <2>2, <2>3 DEF Drain
<1>17. CASE Drained
  <2>1. UNCHANGED channel /\ \A g \in Futures : Queued(g)' <=> Queued(g)
    BY <1>17 DEF Drained, Queued
  <2>. QED  BY <1>17, <2>1 DEF Drained, futureVars
<1>18. CASE TaskEnds
  <2>1. UNCHANGED channel /\ \A g \in Futures : Queued(g)' <=> Queued(g)
    BY <1>18 DEF TaskEnds, Queued
  <2>. QED  BY <1>18, <2>1 DEF TaskEnds, futureVars
<1>19. CASE Tick
  <2>1. UNCHANGED channel /\ \A g \in Futures : Queued(g)' <=> Queued(g)
    BY <1>19 DEF Tick, Queued
  <2>. QED  BY <1>19, <2>1 DEF Tick, Latest, futureVars
<1>20. CASE SourceCloses
  <2>1. UNCHANGED channel /\ \A g \in Futures : Queued(g)' <=> Queued(g)
    BY <1>20 DEF SourceCloses, Queued
  <2>. QED  BY <1>20, <2>1 DEF SourceCloses, futureVars
<1>21. CASE DropClock
  <2>1. UNCHANGED channel /\ \A g \in Futures : Queued(g)' <=> Queued(g)
    BY <1>21 DEF DropClock, Queued
  <2>. QED  BY <1>21, <2>1 DEF DropClock, futureVars
<1>22. CASE UNCHANGED vars
  BY <1>22 DEF vars, clockVars, futureVars, Queued
<1>. QED
  BY <1>1, <1>2, <1>3, <1>4, <1>5, <1>6, <1>7, <1>8, <1>9, <1>10, <1>11, <1>12, <1>13, <1>14,
     <1>15, <1>16, <1>17, <1>18, <1>19, <1>20, <1>21, <1>22
  DEF Next, Polling, Task, Quiescent

-----------------------------------------------------------------------------
(* The Rate. *)

LEMMA Distributes == \A n, i \in Nat : (n + 1) * i = n * i + i
  OBVIOUS

LEMMA BeatNext == Types /\ BeatInv /\ [Next]_vars => BeatInv'
<1> SUFFICES ASSUME Types, BeatInv, [Next]_vars PROVE BeatInv'
  OBVIOUS
<1>0. ASSUME UNCHANGED <<beats, overlapped, next>>,
             \A f \in Futures : future'[f] \in {"new", "rate"} => future'[f] = future[f],
             \A f \in Futures : future[f] = "rate" => future'[f] = "rate",
             \A f \in beats : deadline'[f] = deadline[f]
      PROVE  BeatInv'
  <2>1. \A f \in Futures : InRate(f)' <=> InRate(f)
    BY <1>0 DEF InRate
  <2>. QED  BY <1>0, <2>1 DEF BeatInv, BeatsKept, Types
<1> USE ClockAssumption DEF Types
<1>1. ASSUME NEW f \in Futures, Sleep(f) PROVE BeatInv'
  BY <1>1, <1>0 DEF Sleep, rateVars, BeatInv
<1>2. ASSUME NEW f \in Futures, RateRead(f) PROVE BeatInv'
  <2>1. /\ future[f] = "new" /\ future' = [future EXCEPT ![f] = "rate"]
        /\ deadline' = [deadline EXCEPT ![f] = next + Interval] /\ next' = next
        /\ beats' = beats \cup {f} /\ (~overlapped' => ~overlapped /\ \A g \in Futures : ~InRate(g))
    BY <1>2 DEF RateRead, InRate
  <2>2. f \notin beats /\ IsFiniteSet(beats)
    BY <2>1 DEF BeatInv
  <2>3. /\ IsFiniteSet(beats') /\ Cardinality(beats') = Cardinality(beats) + 1
        /\ Cardinality(beats) \in Nat
    BY <2>1, <2>2, FS_AddElement, FS_CardinalityType
  <2>4. \A g \in Futures : (future'[g] = "new" => g \notin beats') /\ (InRate(g)' => g \in beats')
    BY <2>1 DEF BeatInv, InRate
  <2>5. ASSUME ~overlapped' PROVE /\ \A g \in Futures : InRate(g)' <=> g = f
                                 /\ next = Cardinality(beats) * Interval
                                 /\ \A g \in beats : deadline'[g] = deadline[g] /\ deadline[g] <= next
    BY <2>1, <2>2, <2>5 DEF BeatInv, InRate
  <2>6. ASSUME ~overlapped' PROVE next + Interval = Cardinality(beats') * Interval
    BY <2>3, <2>5, <2>6, Distributes
  <2>7. ASSUME ~overlapped' PROVE BeatsKept'
    <3>1. \A g \in beats : \E n \in 1..Cardinality(beats) : deadline[g] = n * Interval
      BY <2>1, <2>7 DEF BeatInv, BeatsKept
    <3>2. \A g \in beats : \E n \in 1..Cardinality(beats') : deadline'[g] = n * Interval
      BY <2>3, <2>5, <2>7, <3>1
    <3>3. deadline'[f] = Cardinality(beats') * Interval /\ Cardinality(beats') \in 1..Cardinality(beats')
      BY <2>1, <2>3, <2>6, <2>7
    <3>4. Interval > 0 => \A g \in beats : deadline'[g] # deadline'[f]
      BY <2>1, <2>5, <2>7
    <3>5. Interval > 0 => \A g, h \in beats : g # h => deadline[g] # deadline[h]
      BY <2>1, <2>7 DEF BeatInv, BeatsKept
    <3>6. Interval > 0 => \A g, h \in beats' : g # h => deadline'[g] # deadline'[h]
      BY <2>1, <2>5, <2>7, <3>4, <3>5
    <3>7. \A g \in beats' : \E n \in 1..Cardinality(beats') : deadline'[g] = n * Interval
      BY <2>1, <3>2, <3>3
    <3>. QED  BY <3>6, <3>7 DEF BeatsKept
  <2>8. ASSUME ~overlapped' PROVE deadline'[f] = next' + Interval
    BY <2>1
  <2>. QED  BY <2>1, <2>3, <2>4, <2>5, <2>6, <2>7, <2>8 DEF BeatInv
<1>3. ASSUME NEW f \in Futures, RateStore(f) PROVE BeatInv'
  <2>1. /\ InRate(f) /\ next' = deadline[f] /\ future' = [future EXCEPT ![f] = "check_time"]
        /\ UNCHANGED <<deadline, beats, overlapped>>
    BY <1>3 DEF RateStore, Beat, InRate
  <2>2. f \in beats /\ \A g \in Futures : InRate(g)' => InRate(g) /\ g # f
    BY <2>1 DEF BeatInv, InRate
  <2>3. \A g \in Futures : future'[g] = "new" => future[g] = "new"
    BY <2>1
  <2>4. ASSUME ~overlapped
        PROVE  /\ \A g \in Futures : ~InRate(g)' /\ (InRate(g) => g = f)
               /\ next' = next + Interval /\ next + Interval = Cardinality(beats) * Interval
    BY <2>1, <2>2, <2>4 DEF BeatInv
  <2>5. ASSUME ~overlapped PROVE \A g \in beats : deadline[g] <= next'
    BY <2>1, <2>4, <2>5 DEF BeatInv
  <2>6. BeatsKept => BeatsKept'
    BY <2>1 DEF BeatsKept
  <2>. QED  BY <2>1, <2>2, <2>3, <2>4, <2>5, <2>6 DEF BeatInv
<1>4. ASSUME NEW f \in Futures, CheckTime(f) PROVE BeatInv'
  BY <1>4, <1>0 DEF CheckTime, Goto, rateVars
<1>5. ASSUME NEW f \in Futures, CheckOpen(f) PROVE BeatInv'
  BY <1>5, <1>0 DEF CheckOpen, Goto, rateVars
<1>6. ASSUME NEW f \in Futures, SendTimer(f) PROVE BeatInv'
  BY <1>6, <1>0 DEF SendTimer, Goto, rateVars
<1>7. ASSUME NEW f \in Futures, Poll(f) PROVE BeatInv'
  BY <1>7, <1>0 DEF Poll, Goto, rateVars
<1>8. ASSUME NEW f \in Futures, PollAnyway(f) PROVE BeatInv'
  BY <1>8, <1>0 DEF PollAnyway, Goto, rateVars
<1>9. ASSUME NEW f \in Futures, DropFuture(f) PROVE BeatInv'
  BY <1>9, <1>0 DEF DropFuture, Goto, rateVars
<1>10. CASE ReceiveTimer
  BY <1>10, <1>0 DEF ReceiveTimer, futureVars, rateVars
<1>11. CASE ReceiveTick
  BY <1>11, <1>0 DEF ReceiveTick, futureVars, rateVars
<1>12. CASE Break
  BY <1>12, <1>0 DEF Break, futureVars, rateVars
<1>13. CASE Expire
  BY <1>13, <1>0 DEF Expire, Notify, rateVars
<1>14. CASE Expired
  BY <1>14, <1>0 DEF Expired, futureVars, rateVars
<1>15. CASE CloseChannel
  BY <1>15, <1>0 DEF CloseChannel, futureVars, rateVars
<1>16. CASE Drain
  BY <1>16, <1>0 DEF Drain, Notify, rateVars
<1>17. CASE Drained
  BY <1>17, <1>0 DEF Drained, futureVars, rateVars
<1>18. CASE TaskEnds
  BY <1>18, <1>0 DEF TaskEnds, futureVars, rateVars
<1>19. CASE Tick
  BY <1>19, <1>0 DEF Tick, futureVars, rateVars
<1>20. CASE SourceCloses
  BY <1>20, <1>0 DEF SourceCloses, futureVars, rateVars
<1>21. CASE DropClock
  BY <1>21, <1>0 DEF DropClock, futureVars, rateVars
<1>22. CASE UNCHANGED vars
  BY <1>22, <1>0 DEF vars, futureVars, rateVars
<1>. QED
  BY <1>1, <1>2, <1>3, <1>4, <1>5, <1>6, <1>7, <1>8, <1>9, <1>10, <1>11, <1>12, <1>13, <1>14,
     <1>15, <1>16, <1>17, <1>18, <1>19, <1>20, <1>21, <1>22
  DEF Next, Polling, Task, Quiescent

-----------------------------------------------------------------------------
LEMMA ClockInvariant == Spec => [](Types /\ OneEntry /\ WakeInv /\ BeatInv)
<1>1. Init => Types /\ OneEntry /\ WakeInv /\ BeatInv
  <2> SUFFICES ASSUME Init PROVE Types /\ OneEntry /\ WakeInv /\ BeatInv
    OBVIOUS
  <2>1. channel \in Seq(Futures) /\ channel = <<>>
    BY DEF Init
  <2>2. Types
    <3>1. 0 \in Times /\ NoTick \in Times \cup {NoTick}
      BY ClockAssumption DEF Times
    <3>2. deadline \in [Futures -> Nat]
      BY DEF Init
    <3>. QED  BY <2>1, <3>1, <3>2 DEF Init, Types
  <2>3. OneEntry
    BY <2>1 DEF Init, OneEntry, Queued, Distinct
  <2>4. WakeInv
    BY ClockAssumption DEF Init, WakeInv, NoTick
  <2>5. BeatInv
    BY ClockAssumption, FS_EmptySet DEF Init, BeatInv, BeatsKept, InRate
  <2>. QED  BY <2>2, <2>3, <2>4, <2>5
<1>2. Types /\ OneEntry /\ WakeInv /\ BeatInv /\ [Next]_vars => (Types /\ OneEntry /\ WakeInv /\ BeatInv)'
  BY TypesNext, EntryNext, WakeNext, BeatNext
<1>. QED  BY <1>1, <1>2, PTL DEF Spec

LEMMA QueuedInChannel ==
  ASSUME Types
  PROVE  /\ DOMAIN channel = 1..Len(channel)
         /\ InChannel \subseteq Futures
         /\ \A f \in Futures : f \in InChannel <=> Queued(f)
  BY DEF Types, InChannel, Queued

(* While the simulation never sets its time back, a future that waits for    *)
(* its waker will hear from it: it has been woken, or its one timer is in    *)
(* the queue or in the channel, however the poll that sent it interleaved    *)
(* with the task that ends (sleep.rs:40-60 against mod.rs:127-162).          *)
THEOREM ClockPendingTracked == Spec => []PendingTracked
<1>1. Types /\ OneEntry /\ WakeInv => PendingTracked
  <2> SUFFICES ASSUME Types, OneEntry, WakeInv PROVE PendingTracked
    OBVIOUS
  <2>1. /\ timers \cup InChannel \subseteq entered /\ timers \cap InChannel = {}
        /\ \A i, j \in DOMAIN channel : channel[i] = channel[j] => i = j
    BY QueuedInChannel DEF Types, OneEntry, Distinct
  <2>2. TypeOK
    BY <2>1 DEF Types, TypeOK
  <2>. QED  BY <2>2, QueuedInChannel DEF PendingTracked, WakeInv
<1>. QED  BY <1>1, ClockInvariant, PTL

(* A sleeper whose timer has been used up has reached its deadline, or the   *)
(* channel is closed and its next poll ends it.                              *)
THEOREM ClockUsedUpWhenDue == Spec => []UsedUpWhenDue
<1>1. Types /\ WakeInv => UsedUpWhenDue
  BY QueuedInChannel DEF Types, UsedUpWhenDue, WakeInv, Reached
<1>. QED  BY <1>1, ClockInvariant, PTL

(* Sleeps of a Rate that do not overlap lose no beat and add none: their     *)
(* deadlines are the first so many multiples of the interval, all different  *)
(* unless the interval is zero (rate.rs:22-23).                              *)
THEOREM ClockBeatsKept == Spec => []BeatsKept
<1>1. BeatInv => BeatsKept
  BY DEF BeatInv, BeatsKept
<1>. QED  BY <1>1, ClockInvariant, PTL

-----------------------------------------------------------------------------
(* The shutdown of a node. *)

(* The actors the task has still to stop when it is done with n of them.     *)
Undone(n) == SubSeq(Order, n + 1, Len(Order))

(* Those it is done with have gone, it waits for one that is left, and when  *)
(* it lets go of its token none is.                                          *)
NodeInv ==
    /\ NodeTypeOK
    /\ \E n \in 0..Len(Order) : todo = Undone(n) /\ \A i \in 1..n : Gone(Order[i])
    /\ nodeTask = "await" => todo # <<>>
    /\ token = "released" => nodeTask = "ended"
    /\ nodeTask = "ended" => todo = <<>>

(* The part of TypeOK that an actor's own steps touch. *)
ActorTyped == actor \in [Actors -> {"running", "stuck", "stopped", "failed"}]

(* A list of what is undone ends with the last actor and starts with the next. *)
LEMMA UndoneIs ==
  ASSUME NEW S, Order \in Seq(S), NEW n \in 0..Len(Order)
  PROVE  /\ n = Len(Order) => Undone(n) = <<>>
         /\ n # Len(Order) => /\ Undone(n) # <<>>
                              /\ Head(Undone(n)) = Order[n + 1]
                              /\ Tail(Undone(n)) = Undone(n + 1)
                              /\ n + 1 \in 0..Len(Order)
<1>1. /\ Len(Order) \in Nat /\ n \in Nat /\ n <= Len(Order)
      /\ \A i \in 1..Len(Order) : Order[i] \in S
  BY ElementOfSeq
<1>2. CASE n = Len(Order)
  BY <1>1, <1>2, SubSeqEmpty DEF Undone
<1>3. CASE n # Len(Order)
  <2>1. /\ n + 1 \in 1..Len(Order) /\ Len(Order) \in n + 1..Len(Order)
        /\ n + 1 \in 0..Len(Order)
    BY <1>1, <1>3
  <2>2. /\ Head(Undone(n)) = Order[n + 1]
        /\ Tail(Undone(n)) = SubSeq(Order, n + 1 + 1, Len(Order))
    BY <2>1, HeadTailOfSubSeq DEF Undone
  <2>3. Len(Undone(n)) = Len(Order) - n
    BY <1>1, <2>1 DEF Undone
  <2>4. Undone(n) # <<>>
    BY <1>1, <1>3, <2>3
  <2>. QED  BY <1>3, <2>1, <2>2, <2>4 DEF Undone
<1>. QED  BY <1>2, <1>3

(* An actor that has gone has gone for good. *)
(* An actor keeps its type, and one that has gone has gone for good. *)
LEMMA GoneStays ==
  ASSUME NodeTypeOK, [NodeNext]_nodeVars
  PROVE  /\ ActorTyped'
         /\ \A a \in Actors : Gone(a) => Gone(a)'
<1>. USE DEF ActorTyped, Gone, NodeTypeOK
<1>1. CASE UNCHANGED actor
  BY <1>1
<1>2. CASE \E b \in Actors : Stop(b) \/ Fail(b) \/ Hang(b) \/ Resume(b)
  BY <1>2 DEF Stop, Fail, Hang, Resume
<1>. QED
  BY <1>1, <1>2
  DEF NodeNext, ShutdownTask, nodeVars, Start, SeeTrigger, ServeFails,
      StopActor, ActorStopped, EndTask, ApiShutdown, NothingLeft,
      Check, Trigger, Waited

(* Once the spawned task has taken its token, the shutdown is not complete   *)
(* before each of the actors has been stopped or has failed, in whichever    *)
(* order users, peers and failures come (node/mod.rs:135-163).               *)
THEOREM NodeTokenDelays == NodeSpec => []TokenDelays
<1>1. Order \in Seq(Range(Order))
  BY NodeAssumption
<1>2. \A i \in 1..Len(Order) : Order[i] \in Actors
  BY <1>1, ElementOfSeq DEF Actors
<1>3. NodeInit => NodeInv
  <2>. SUFFICES ASSUME NodeInit PROVE NodeInv
    OBVIOUS
  <2>1. 0 \in 0..Len(Order) /\ SubSeq(Order, 0 + 1, Len(Order)) = Order
    BY <1>1, SubSeqFull
  <2>2. NodeTypeOK
    BY <2>1 DEF NodeInit, NodeTypeOK
  <2>. QED  BY <2>1, <2>2 DEF NodeInit, NodeInv, Undone
<1>4. ASSUME NodeInv, [NodeNext]_nodeVars
      PROVE  NodeInv'
  <2>1. PICK n \in 0..Len(Order) : todo = Undone(n) /\ \A i \in 1..n : Gone(Order[i])
    BY <1>4 DEF NodeInv
  <2>2. /\ n = Len(Order) => Undone(n) = <<>>
        /\ n # Len(Order) => /\ Undone(n) # <<>>
                             /\ Head(Undone(n)) = Order[n + 1]
                             /\ Tail(Undone(n)) = Undone(n + 1)
                             /\ n + 1 \in 0..Len(Order)
    BY <1>1, UndoneIs
  <2>3. \A i \in 1..n : Gone(Order[i])'
    BY <1>1, <1>2, <1>4, <2>1, GoneStays DEF NodeInv
  <2>4. ActorTyped'
    BY <1>4, GoneStays DEF NodeInv, ActorTyped
  <2>5. CASE UNCHANGED <<todo, nodeTask, token>>
    <3>1. /\ api' \in {"bound", "serving", "ended"} /\ triggered' \in BOOLEAN
          /\ user' \in [Users -> {"idle", "checked", "waiting", "done", "error"}]
      BY <1>4, <2>5
      DEF NodeInv, NodeTypeOK, NodeNext, nodeVars, ShutdownTask, Start, SeeTrigger,
          ServeFails, StopActor, ActorStopped, EndTask, ApiShutdown,
          NothingLeft, Check, Trigger, Waited, Becomes, Returns,
          Stop, Fail, Hang, Resume
    <3>. QED  BY <1>4, <2>1, <2>3, <2>4, <2>5, <3>1 DEF NodeInv, NodeTypeOK, ActorTyped, Undone
  <2>6. CASE Start \/ SeeTrigger \/ ServeFails \/ StopActor
    BY <1>4, <2>1, <2>3, <2>4, <2>6
    DEF NodeInv, NodeTypeOK, ActorTyped, Undone, Token, Start, SeeTrigger,
        ServeFails, StopActor
  <2>7. CASE EndTask
    BY <1>4, <2>1, <2>3, <2>4, <2>7 DEF NodeInv, NodeTypeOK, ActorTyped, Undone, EndTask
  <2>8. CASE ActorStopped
    <3>1. /\ n + 1 \in 0..Len(Order) /\ todo' = Undone(n + 1)
          /\ Gone(Order[n + 1])
      BY <2>1, <2>2, <2>8 DEF ActorStopped, Rest
    <3>2. n + 1 \in 1..Len(Order)
      BY <1>1, <3>1
    <3>3. \A i \in 1..n + 1 : Gone(Order[i])'
      BY <1>1, <1>2, <1>4, <2>3, <3>1, <3>2, GoneStays DEF NodeInv
    <3>. QED
      BY <1>4, <2>4, <2>8, <3>1, <3>3
      DEF NodeInv, NodeTypeOK, ActorTyped, Undone, ActorStopped
  <2>. QED
    BY <1>4, <2>5, <2>6, <2>7, <2>8
    DEF NodeNext, ShutdownTask, nodeVars, ApiShutdown, NothingLeft, Check,
        Trigger, Waited, Stop, Fail, Hang, Resume
<1>5. NodeInv => TokenDelays
  <2>. SUFFICES ASSUME NodeInv, token = "released" PROVE AllGone
    BY DEF NodeInv, TokenDelays
  <2>1. PICK n \in 0..Len(Order) : todo = Undone(n) /\ \A i \in 1..n : Gone(Order[i])
    BY DEF NodeInv
  <2>2. n = Len(Order)
    BY <1>1, <2>1, UndoneIs DEF NodeInv
  <2>3. ASSUME NEW a \in Actors PROVE Gone(a)
    <3>1. PICK i \in DOMAIN Order : a = Order[i]
      BY DEF Actors, Range
    <3>. QED  BY <1>1, <2>1, <2>2, <3>1
  <2>. QED  BY <2>3 DEF AllGone
<1>. QED  BY <1>3, <1>4, <1>5, PTL DEF NodeSpec
=============================================================================
