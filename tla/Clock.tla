--------------------------------- MODULE Clock ---------------------------------
(***************************************************************************)
(* The simulated clock (clock/mod.rs) and its sleep futures                *)
(* (clock/sleep.rs): the background task that reads /clock, sets the time  *)
(* and wakes expired timers, and futures polled on other threads that read *)
(* the time and hand their timers to the task through a channel.  Some of  *)
(* them are the sleeps of one Rate (clock/rate.rs).                        *)
(***************************************************************************)
EXTENDS Naturals, Sequences, FiniteSets

CONSTANTS
    Futures,    \* sleep futures, each created and awaited at most once
    Paced,      \* those that may be sleeps of the Rate
    Interval,   \* the Rate's interval
    MaxTime,    \* bound: the latest time on /clock
    Backwards   \* whether the simulation may set its time back

ASSUME ClockAssumption ==
    /\ {MaxTime, Interval} \subseteq Nat
    /\ Paced \subseteq Futures /\ Backwards \in BOOLEAN

VARIABLES
    now,        \* ClockState.time
    inbox,      \* the unread message of /clock (queue size 1), or NoTick
    source,     \* whether the subscription still delivers messages
    cancelled,  \* every Clock has been dropped
    task,       \* where the background task is
    timers,     \* its timer queue: the futures that have an entry in it
    channel,    \* timer entries sent and not received
    future,     \* where each future is
    deadline,   \* the deadline of each future
    entered,    \* futures whose waker is Some: an entry was sent for them
    woken,      \* futures whose task has been scheduled to poll them
    next,       \* Rate.next
    beats,      \* futures that are sleeps of the Rate
    overlapped  \* two of them have read next before either stored it (history)

futureVars == <<future, deadline, entered, woken>>
rateVars   == <<next, beats, overlapped>>
clockVars  == <<now, inbox, source, cancelled, task, timers, channel>>
vars == <<clockVars, futureVars, rateVars>>

-----------------------------------------------------------------------------
Times  == 0..MaxTime
NoTick == MaxTime + 1

(* Fault: without timer_rx.close() the channel closes as the task ends. *)
ClosedAtEnd == task = "stopped"

(* timer_rx.close() comes after the loop. *)
Closed == task \in {"draining", "drained", "stopped"}

Init ==
    /\ now = 0 /\ inbox = NoTick /\ source = "open" /\ cancelled = FALSE
    /\ task = "select" /\ timers = {} /\ channel = <<>>
    /\ future = [f \in Futures |-> "new"]
    /\ deadline = [f \in Futures |-> 0]
    /\ entered = {} /\ woken = {}
    /\ next = now /\ beats = {} /\ overlapped = FALSE

-----------------------------------------------------------------------------
(* The simulation, through the subscription to /clock.  A message that is    *)
(* not read in time is overwritten by the next (RecvError::Lagged).          *)

Latest == IF inbox = NoTick THEN now ELSE inbox

Tick ==
    /\ source = "open"
    /\ \E t \in Times : (Backwards \/ t >= Latest) /\ inbox' = t
    /\ UNCHANGED <<now, source, cancelled, task, timers, channel, futureVars, rateVars>>

SourceCloses ==
    /\ source = "open"
    /\ source' = "closed"
    /\ UNCHANGED <<now, inbox, cancelled, task, timers, channel, futureVars, rateVars>>

DropClock ==
    /\ ~cancelled
    /\ cancelled' = TRUE
    /\ UNCHANGED <<now, inbox, source, task, timers, channel, futureVars, rateVars>>

-----------------------------------------------------------------------------
(* A future.  A poll reads the time, then whether the channel is closed;     *)
(* it registers its waker and, the first time, sends its timer entry.        *)

Sleep(f) ==
    /\ future[f] = "new" /\ ~cancelled
    /\ \E t \in Times : deadline' = [deadline EXCEPT ![f] = t]
    /\ future' = [future EXCEPT ![f] = "check_time"]
    /\ UNCHANGED <<now, inbox, source, cancelled, task, timers, channel, entered, woken, rateVars>>

(* Rate::sleep takes &self: it reads next and stores it in two steps, with   *)
(* nothing to keep two sleeps apart, then sleeps until the sum.              *)
RateRead(f) ==
    /\ f \in Paced /\ future[f] = "new" /\ ~cancelled
    /\ deadline' = [deadline EXCEPT ![f] = next + Interval]
    /\ future' = [future EXCEPT ![f] = "rate"]
    /\ beats' = beats \cup {f}
    /\ overlapped' = (overlapped \/ \E g \in Futures : future[g] = "rate")
    /\ UNCHANGED <<clockVars, entered, woken, next>>

(* Fault: the next beat is counted from now, not from the last one. *)
BeatFromNow(f) == now + Interval

Beat(f) == deadline[f]

RateStore(f) ==
    /\ future[f] = "rate"
    /\ next' = Beat(f)
    /\ future' = [future EXCEPT ![f] = "check_time"]
    /\ UNCHANGED <<clockVars, deadline, entered, woken, beats, overlapped>>

Goto(f, state) == future' = [future EXCEPT ![f] = state]

Reached(f) == now >= deadline[f]

CheckTime(f) ==
    /\ future[f] = "check_time"
    /\ Goto(f, IF Reached(f) THEN "done" ELSE "check_open")
    /\ UNCHANGED <<now, inbox, source, cancelled, task, timers, channel, deadline, entered, woken, rateVars>>

HasWaker(f) == f \in entered

CheckOpen(f) ==
    /\ future[f] = "check_open"
    /\ Goto(f, IF Closed THEN "done" ELSE IF HasWaker(f) THEN "pending" ELSE "send")
    /\ UNCHANGED <<now, inbox, source, cancelled, task, timers, channel, deadline, entered, woken, rateVars>>

(* The waker is registered before the entry is sent; sending fails once the  *)
(* channel is closed.                                                        *)
SendTimer(f) ==
    /\ future[f] = "send"
    /\ IF Closed
       THEN Goto(f, "done") /\ UNCHANGED <<channel, entered>>
       ELSE /\ Goto(f, "pending")
            /\ channel' = Append(channel, f)
            /\ entered' = entered \cup {f}
    /\ UNCHANGED <<now, inbox, source, cancelled, task, timers, deadline, woken, rateVars>>

(* The task of a pending future polls it when woken, or for reasons of its   *)
(* own (a select! over several futures).                                     *)
Poll(f) ==
    /\ future[f] = "pending" /\ f \in woken
    /\ Goto(f, "check_time")
    /\ woken' = woken \ {f}
    /\ UNCHANGED <<now, inbox, source, cancelled, task, timers, channel, deadline, entered, rateVars>>

PollAnyway(f) ==
    /\ future[f] = "pending" /\ f \notin woken
    /\ Goto(f, "check_time")
    /\ UNCHANGED <<now, inbox, source, cancelled, task, timers, channel, deadline, entered, woken, rateVars>>

DropFuture(f) ==
    /\ future[f] = "pending"
    /\ Goto(f, "dropped")
    /\ UNCHANGED <<now, inbox, source, cancelled, task, timers, channel, deadline, entered, woken, rateVars>>

-----------------------------------------------------------------------------
(* The background task.                                                      *)

(* Fault: an entry that is due on arrival is dropped without a wake-up. *)
PushedIfLater(f) == {f} \cap {g \in Futures : deadline[g] > now}

Pushed(f) == {f}

ReceiveTimer ==
    /\ task = "select" /\ channel # <<>>
    /\ timers' = timers \cup Pushed(Head(channel))
    /\ channel' = Tail(channel)
    /\ UNCHANGED <<now, inbox, source, cancelled, task, futureVars, rateVars>>

ReceiveTick ==
    /\ task = "select" /\ inbox # NoTick
    /\ now' = inbox /\ inbox' = NoTick
    /\ task' = "expire"
    /\ UNCHANGED <<source, cancelled, timers, channel, futureVars, rateVars>>

Notify(f) ==
    /\ woken' = woken \cup {f}
    /\ UNCHANGED <<future, deadline, entered>>

(* Fault: the queue pops its latest deadline first (no Reverse). *)
ForemostLatest == {f \in timers : \A g \in timers : deadline[f] >= deadline[g]}

Foremost == {f \in timers : \A g \in timers : deadline[f] <= deadline[g]}

(* Fault: the foremost timer is popped whether it is due or not. *)
DueAnyway == Foremost

Due == {f \in Foremost : now >= deadline[f]}

Expire ==
    /\ task = "expire"
    /\ \E f \in Due :
          /\ Notify(f)
          /\ timers' = timers \ {f}
    /\ UNCHANGED <<now, inbox, source, cancelled, task, channel, rateVars>>

Expired ==
    /\ task = "expire" /\ Due = {}
    /\ task' = "select"
    /\ UNCHANGED <<now, inbox, source, cancelled, timers, channel, futureVars, rateVars>>

Break ==
    /\ task = "select"
    /\ cancelled \/ (source = "closed" /\ inbox = NoTick)
    /\ task' = "closing"
    /\ UNCHANGED <<now, inbox, source, cancelled, timers, channel, futureVars, rateVars>>

CloseChannel ==
    /\ task = "closing"
    /\ task' = "draining"
    /\ UNCHANGED <<now, inbox, source, cancelled, timers, channel, futureVars, rateVars>>

Drain ==
    /\ task = "draining"
    /\ \/ \E f \in timers :
             /\ Notify(f)
             /\ timers' = timers \ {f}
             /\ UNCHANGED channel
       \/ /\ timers = {} /\ channel # <<>>
          /\ Notify(Head(channel))
          /\ channel' = Tail(channel)
          /\ UNCHANGED timers
    /\ UNCHANGED <<now, inbox, source, cancelled, task, rateVars>>

(* The last try_recv finds the channel empty; then the receiver is dropped. *)
Drained ==
    /\ task = "draining" /\ timers = {} /\ channel = <<>>
    /\ task' = "drained"
    /\ UNCHANGED <<now, inbox, source, cancelled, timers, channel, futureVars, rateVars>>

TaskEnds ==
    /\ task = "drained"
    /\ task' = "stopped"
    /\ UNCHANGED <<now, inbox, source, cancelled, timers, channel, futureVars, rateVars>>

Quiescent == task = "stopped" /\ UNCHANGED vars

-----------------------------------------------------------------------------
Polling(f) == RateStore(f) \/ CheckTime(f) \/ CheckOpen(f) \/ SendTimer(f) \/ Poll(f)

Task == Expire \/ Expired \/ CloseChannel \/ Drain \/ Drained \/ TaskEnds

Next ==
    \/ \E f \in Futures : Sleep(f) \/ RateRead(f) \/ Polling(f) \/ PollAnyway(f) \/ DropFuture(f)
    \/ ReceiveTimer \/ ReceiveTick \/ Break \/ Task
    \/ Tick \/ SourceCloses \/ DropClock \/ Quiescent

Spec == Init /\ [][Next]_vars

(* The runtime polls woken tasks; select! picks at random among the branches *)
(* that are ready, so none is passed over for ever.                          *)
Fairness ==
    /\ \A f \in Futures : WF_vars(Polling(f))
    /\ WF_vars(Task)
    /\ SF_vars(ReceiveTimer) /\ SF_vars(ReceiveTick) /\ SF_vars(Break)

FairSpec == Spec /\ Fairness

(* The simulation goes on publishing the time while the subscription lasts.  *)
TickingSpec == FairSpec /\ WF_vars(Tick)

-----------------------------------------------------------------------------
InChannel == {channel[i] : i \in DOMAIN channel}

TypeOK ==
    /\ now \in Times /\ inbox \in Times \cup {NoTick}
    /\ source \in {"open", "closed"} /\ cancelled \in BOOLEAN
    /\ task \in {"select", "expire", "closing", "draining", "drained", "stopped"}
    /\ timers \in SUBSET Futures
    /\ channel \in Seq(Futures)
    /\ future \in [Futures -> {"new", "rate", "check_time", "check_open", "send", "pending",
                               "done", "dropped"}]
    /\ deadline \in [Futures -> Nat]
    /\ entered \in SUBSET Futures
    /\ woken \in SUBSET Futures
    /\ timers \cup InChannel \subseteq entered          \* one entry for a future
    /\ timers \cap InChannel = {}
    /\ \A i, j \in DOMAIN channel : channel[i] = channel[j] => i = j
    /\ next \in Nat /\ beats \in SUBSET Futures /\ overlapped \in BOOLEAN

(* While the simulation never sets its time back, a future that waits for    *)
(* its waker will hear from it: the timer is in the queue or on its way      *)
(* there, or it has been notified (sleep.rs:40-60 against mod.rs:127-162);   *)
(* types included.                                                           *)
PendingTracked ==
    /\ TypeOK
    /\ ~Backwards => \A f \in Futures :
        future[f] = "pending" => f \in timers \cup InChannel \cup woken

(* An entry is used up only for a future that is due, or at the end: a       *)
(* sleeper without a timer has reached its deadline or the clock is closed.  *)
UsedUpWhenDue ==
    ~Backwards => \A f \in entered \ (timers \cup InChannel) : Reached(f) \/ Closed

(* Clock::sleep_until, clock/mod.rs:211: "Waits until deadline is reached."  *)
(* No future sleeps on for good with its deadline behind it.                 *)
SleepsEnd == \A f \in Futures : []<>~(future[f] = "pending" /\ Reached(f))

(* Once every Clock has been dropped, or the subscription has ended, no      *)
(* future is left asleep (mod.rs:154-162 against sleep.rs:34-56).            *)
StopEndsSleeps ==
    \A f \in Futures : (cancelled \/ source = "closed") ~> [](future[f] # "pending")

(* Sleeps of a Rate that do not overlap lose no beat and add none, however   *)
(* late each is: every deadline is an interval from the last, although the   *)
(* two steps are not atomic (rate.rs:22-23).                                 *)
BeatsKept ==
    ~overlapped =>
        /\ Interval > 0 => \A f, g \in beats : f # g => deadline[f] # deadline[g]
        /\ \A f \in beats : \E n \in 1..Cardinality(beats) : deadline[f] = n * Interval
=============================================================================
