# rosrust-async in TLA+

`rosrust-async` is a ROS 1 client library for asynchronous Rust. This directory models its concurrent core in TLA+,
checks the models with TLC on small instances and proves with TLAPS, for all instances, their safety properties: three
actors implement the abstract `Registrar`, the publication implements the abstract `TopicStream`, and the
invariants that TLC checks hold for any constants. Paths below are relative to `src/rosrust-async/src/`.

## The system

A *node* (`node/mod.rs`) is one process's identity in a ROS graph. It owns four **actors** (ractor: one mailbox, one
message at a time, each handler an `async fn` that runs to its end before the next message is taken), an **XML-RPC
server** through which the ROS master and other nodes call it, and a master client. User tasks hold *handles*
(`Publisher`, `Subscriber`, `ServiceClient`, `ServiceServer`, `Clock`); the last handle's destructor casts a message to the
actor that owns the resource. Messages themselves bypass the actors: they flow over tokio broadcast channels between
handles and one task per TCP connection.

| component | code | state | operations | talks to |
|---|---|---|---|---|
| publisher actor | `node/actors/publisher.rs` | topic → (weak guard, publication) | register, unregister, drop, queries, `post_stop` | master (register, unregister), handles (guards), node |
| publication | `tcpros/publication.rs` | broadcast channel, listener, `latched_message`, `subscriber_ids`, cancel token | send, accept, handshake, spawn, deliver, cancel | handles, remote subscribers |
| subscriber actor | `node/actors/subscriber.rs` | topic → (weak guard, subscription) | register, unregister, drop, `publisherUpdate`, queries, `post_stop` | master, other nodes (`requestTopic`), API server |
| subscription | `tcpros/subscription.rs` | `publisher_addrs`, `latched_msgs`, broadcast channel, cancel token | add publisher, receive, store, new handle, cancel | remote publishers, handles |
| service actor | `node/actors/service.rs` | services and clients with their guards | register and drop of both, queries, `post_stop` | master, handles |
| service client link | `tcpros/service/client.rs` | call queue, persistent connection | call, look up, probe, connect | master, remote services |
| service server | `tcpros/service/server.rs` | listener, one task per connection | accept, probe answer, call, cancel | remote clients, user callback |
| parameter actor | `node/actors/parameter.rs` | `param_cache`, `subscribed_params` | get, cached get, set, delete, search, update, `post_stop` | parameter server, API server |
| XML-RPC API | `node/api/*` | actor references | slave API methods | the actors, by call or cast |
| node | `node/mod.rs` | actors, shutdown manager | the user's API, shutdown | everything |
| clock | `clock/mod.rs`, `sleep.rs` | time, timer queue, timer channel | tick, sleep, stop | `/clock` subscription, sleeping tasks |
| rate | `clock/rate.rs` | next deadline | sleep | clock |
| headers | `tcpros/header/*`, `tcpros/mod.rs` | none | parse, print, compatibility | every connection |
| master and slave clients | `xmlrpc/*` | none | one method per remote call | master, other nodes |
| builder | `node/builder.rs` | none | resolve names and addresses | environment |

What is hard in it:

- **Destructors race with the actors.** An actor keeps only a weak reference to a guard. Between the last strong
  reference going away, the drop message being cast and that message being handled, other calls for the same topic are
  handled. What must hold: no entry without handles
  is forgotten, none with handles is removed, the master's list agrees with the registry.
- **Partial failure at the master.** Each handler makes up to two calls to the master and changes local state around them.
- **Callers that give up.** `reply.send(..)?` turns a caller that has gone into an error of the actor, which ends it.
- **Late joiners.** A latched message must reach those who connect later, while tasks on other threads are moving the
  channel on; it should come once, in order, and not from publishers that have gone.
- **Caches.** The parameter cache lives on updates that race with the node's own calls.
- **Lost wake-ups.** Sleeping futures read an atomic and then register a timer.
- **Shutting down.** A task takes a token that delays the end of the shutdown and stops the four actors in turn, each of
  which may have failed or be stuck in a handler.
- **Waiting without timeouts.** Handshakes and calls are awaited for ever; what waits behind them is a liveness question.

`PROJECT.json` lists each of these places by line under `hazards`, with the properties that watch it.

## The modules

**`PublisherActor`**: user tasks, the actor, and the master. `mailbox` is the actor's; `job` and `pc` place the handler
that runs between two awaits, `rpc` the master call it awaits; `registry` is `publications`. A guard is an allocation with its
topic, its type and its `armed` flag; who holds it (the strong count) follows from the tasks' handles and the message in
progress, so that an upgrade and the destructor's load of `armed` and cast are separate steps. A handler's synchronous
stretch between two awaits is one action; every await is a point where all others may act. The master lists topics; a call
may fail with or without effect, and a publication's socket may not bind (`MayFail`). `RequestStop` and `post_stop` follow
`mem::take` and one unregistration per entry. A caller that gives up (`MayCancel`) makes the actor's reply fail, which ends
the actor without `post_stop`.

**`Registrar`** is the abstract promise of an actor that keeps a registry: a key is listed at the master before an entry is
made for it and withdrawn only when it has none, and no entry is replaced by another without having been removed. Three
actors implement it: `Reg == INSTANCE Registrar` maps the registry to `entry` and the master's listing to `listed`, with the
services' half of the registry in `ServiceActor`; TLC checks `Reg!Spec` for each, and it is proved for all three.

**`SubscriberActor`** has the publisher actor's guards and registry, and in addition what is its own: after the master's
answer, and after each `publisherUpdate`, it connects to the listed publishers one by one *inside the handler* (`todo`,
`target`). Updates on their way have no order. `links` is what `Subscription` looks like from here: the publishers it is
linked to. Any connect may fail (`requestTopic`, the TCP connection, the handshake or the header), which is logged and not
tried again: `missed` records to whom one has, since the actor was last told of it. A publisher in `Silent` accepts a
connection and never answers; `Blocked` is the state in which it holds the actor up.

**`ServiceActor`** has two registries, of servers and of client links, seen as one function of `Keys`, with guards of both
kinds. A server's guard exists before the master is asked (`making`) and is dropped, armed, when the master refuses; a
client's entry needs no master; a stale server is removed without a word to the master; a client's guard is never disarmed but
by `post_stop`.

**`NodeShutdown`** has the task that `Node::new` spawns, the shutdown manager (triggered, and complete unless a token delays
it), the users' calls in their two steps, the XML-RPC server and its shutdown method. An actor is here what the other modules
let one see: it runs, may fail, may be stuck, and ends when it is asked to and is not stuck (their `RequestsEnd`, `CallsEnd`).
Its general names begin with `Node`, so that one module can hold the proofs about it and about the clock.

**`Publication`** with **`TopicStream`**: one publication's broadcast channel (a message is its position in the order of
sends; a receiver that falls behind `Capacity` skips to the oldest kept), the listener's `select!` with its accept branch
that runs setup to its end, and a publisher task per connection. `hand` is the message that a task is writing: a subscriber
may stop reading (`Stall`) and go on (`Resume`) or leave, and meanwhile its task waits in `write_all`, and watches neither
channel nor token. `TopicStream` is the abstract promise to a subscriber:
published messages in order, none twice, at most one from before it joined and that one first.
`Stream == INSTANCE TopicStream` with the wire of each connection as the stream; TLC checks `Stream!Spec`, and it is proved.

**`Subscription`**: one subscription, its links and tasks, and what the subscriber actor does to it: connects to the
publishers that the master names (in its answer and in `publisherUpdate` calls queued in the actor's mailbox), any of which
may fail (`missed`, as above), copies `latched_msgs` and then subscribes a new handle. `latched_msgs` is a function of keys,
because insertion and removal use different ones. A task reads a frame, sends it, and stores it in three steps. A publisher
goes on publishing when it has no link, or passes a message over when its task lags; a link may break while it stays up
(`breaks`), and a new one may start with the latched message its listener retained (`First`; `base` bounds that to the
messages since it last began to advertise).

**`ParameterActor`**: the actor, user tasks, the parameter server, other nodes that set and delete, and the `paramUpdate`
calls on their way, each parameter's in the order of its changes. The server holds a tree: `Below` says which parameters are
in a namespace, and a change of one changes those below and above it (`Changes`). Its code is not here; what is assumed of it:
to delete an unset parameter is an error; it tells a node of a change under the name of what was changed, if the node is
listed for that or for a namespace it is in, and under their own names of those below it that the node is listed for (`Told`);
and of the node's own changes it may or may not tell the node (`NotifySelf`). Two sets are history. `doubtful` has the
parameters whose last subscribe or unsubscribe call failed. `unsettled` has those whose last change is news that never comes:
not announced under their name, nor learnt from the node's own `set_param`; it also has a new subscription to which an old
value or update has been left, and an update whose check with `has_param` failed. A parameter is settled again by the next
change that is announced or learnt, or by a subscription that begins with nothing left.

**`Clock`**: the clock task's `select!`, `on_tick` (set the time, then pop and notify one timer at a time), its end (close
the channel, notify, drain), and futures whose poll is four steps on another thread. `/clock` has queue size 1, so an unread
tick is overwritten. `Backwards` lets the simulation set its time back. The futures in `Paced` may come from one `Rate`, which
reads its next deadline and stores it in two steps; `beats` and `overlapped` are history.

**`ServiceCall`**: a service client link and the servers of its service, one after another. The link takes calls in order from
its queue; `link` places its task between the awaits of `connect_to_service` and `handle_rpc`, `conn` is `connection_state`. A
server has a listener that awaits one client's header at a time, and a task for each connection that runs the callback. A
connection bears the number of the call it was opened for; what is on its way in it is `inbox` and `outbox`. The service actor
appears here only with what starts and ends these tasks: `register_service`, `unregister_service` and the drop of the link.
`excused` is history, for one property.

The `MC*` modules hold what the configurations need besides model values. Operators introduced by a comment `Fault:` are not
used by the specifications. Each is a plausible bug, a variant of the operator that follows it, and TLC finds the property it
is paired with in `PROJECT.json` violated when it is put in that operator's place: the property does depend on the code being
right.

What is abstracted: message contents (a position, or publisher and number), names and addresses (model values), md5 sums and
definitions (in `PublisherActor` a relation between types, with a wildcard that fits all; the runs take two that do not fit),
logging and tracing. Atomics are sequentially consistent and an uncontended lock is taken at once.

## What the runs show

| run | question | result |
|---|---|---|
| `pub_actor` | does the publisher actor keep its promises while calls fail, callers give up, handles race with drops, and the node stops it? | yes: it implements `Registrar`; the master is left with a topic only by a failure; guards are disarmed exactly when removed; orphans are tracked, and go; calls and the stop end |
| `pub_stale_drop` | may a live handle lose its publication? (`lib.rs:50-51` says no) | **it may**: a drop message names only the topic |
| `sub_actor` | does the subscriber actor, with publishers that come and go and one that never answers? | yes: it implements `Registrar`; guards match the registry; each listed publisher gets a link, or its connect fails, which is not tried again; calls and the stop end; links, calls and the stop wait for ever only where the publisher that never answers holds the actor up |
| `sva_actor` | does the service actor, with both registries in use? | yes: it implements `Registrar`; guards match the registries; the master is left with a service only by a failure; calls and the stop end |
| `node_shutdown` | does a shutdown stop all actors before it is complete, and does it complete? | yes, once the spawned task holds its token, and unless an actor is stuck |
| `node_early` | is a node that says it has shut down at rest? (`mod.rs:193`, `226`) | **not** if it was told to before its task first ran |
| `pbn_stream` | does each subscriber get a correct stream? do tasks keep up, does a drop end them, is every connection served? | yes, lagging included, if subscribers answer or leave; a task whose subscriber has stopped reading keeps up and ends only when that reads or leaves, and holds up no other |
| `pbn_latch_lost` | does a late subscriber get the last message? (`lib.rs:53-54`) | **not always** |
| `sbn_links` | one link per publisher, listed truthfully, messages in order and once? are all that stay connected to? does a drop end the tasks? | yes, if each advertises once; one whose connect failed has had its turn, and is not tried again; after a broken link the first message may be a retained one, known or old |
| `par_actor` | are updates counted on only where the server sends them? is a quiet cache current, are subscriptions given back, do calls end? | yes, every operation failing, but for parameters that are unsettled |
| `clk_live` | does a waiting future always have a timer or a wake-up? do due sleeps end, does a rate keep its beat? is nobody asleep after a stop? | yes, while ticks go on and time does not go back, and for sleeps of a rate that do not overlap |
| `svc_calls` | whose answer does a call get, how often does its callback run, what makes it fail, does it end? do withdrawn servers go? | its own; at most once; over a link that is not persistent, only something that failed or stopped meanwhile; yes; yes |

The runs marked bold are expected violations; `findings` in `PROJECT.json` quotes the sentence each contradicts.

### Known divergences without a run

These were met while modelling. Each can be seen by a change to a configuration that takes a minute.

- **A shutdown that leaves registrations** (`PublisherActor`): `StrandedOnlyByFailure` in `pub_actor` with `MayFail = FALSE`
  and without its `pc' = "failed"`. A caller that gives up on `publish` ends the actor (`publisher.rs:140`), whose
  `post_stop` then never runs. `node_shutdown.rs:52-59` tests that a shutdown unregisters. The other actors do the same.
- **A subscription, a server or a client link that a live handle loses**: `pub_stale_drop` for the other two actors. The drop
  messages `DropSubscriber`, `DropService` and `DropClient` name a topic or a service, too (`lib.rs:138` for clients). In
  `ServiceActor` the drop may also come from the guard of a registration that the master refused (`service.rs:279-284`).
- **A stale server that stays listed** (`ServiceActor`): `StrandedOnlyByFailure` in `sva_actor` without its `Registers`. The
  stale entry goes without a word to the master (`service.rs:271-273`), and the server that should take its place cannot be
  made. The subscriber and publisher actors do unregister a stale entry.
- **A handle that is not `Clone`**: `lib.rs:165` says of the handles of `advertise_service` that they "can be freely cloned";
  `ServiceServer` (`service.rs:410`) is not. `CloneHandle` of `ServiceActor` leaves it out.
- **A node that is gone and says it is not** (`NodeShutdown`): when the XML-RPC server fails (`mod.rs:146`) the four actors
  are stopped, but nothing triggers the shutdown, so `is_shutdown` stays false until somebody does.
- **A shutdown that does not wait** (`NodeShutdown`): of two users that both look before either triggers, the second gets an
  error from `trigger_shutdown` (`mod.rs:200-201`), and its `shutdown_and_wait` returns at once.
- **A connected subscriber that is not listed** (`Publication`): the invariant `ConnectedListed` in `pbn_stream`. A
  subscriber connects again under its name; the end of its old connection removes the id of the new one
  (`publication.rs:211`).
- **A publisher that is never connected to again** (`Subscription`): the property `Reconnects` in `sbn_links` with one
  publisher, `MaxStarts = 2` and `MaxBreaks = 0`, where no connect fails. It stops and advertises again; both updates are
  handled before the old link's task has removed its URI (`subscription.rs:168`), so it is taken for one already added (108),
  and nothing tries again. Nor is one whose link breaks while it stays up, until the master next tells of a change: the same
  with `MaxStarts = 1` and `MaxBreaks = 1`.
- **A latched message that comes again, or late** (`Subscription`): `InOrder` in `sbn_links` without the second line of
  `Follows`. A link breaks while its latching publisher stays up, and the next `publisherUpdate` opens another; the
  publisher's listener gives it the message it retained last (`publication.rs:179-190`, `246`), which the handles have, or
  have passed: the listener may lag behind its publisher tasks.
- **A latched message a second handle does not get** (`Subscription`): the invariant `HandleHasLatched` in `sbn_links`. The
  handle is made between a task's send to the channel (194) and its write to `latched_msgs` (199-204).
- **Latched messages of publishers that have gone** (`Subscription`): the invariant `LatchedFromConnected` in `sbn_links`.
  They are stored under the publisher's name and removed under its URI (167 against 203).
- **An older value after `set_param`** (`ParameterActor`): `CacheCurrent` in `par_actor` without `~Ahead(r.param)` where
  `Effect` says what a set lets the actor learn. The handler caches its own value (`parameter.rs:223`); an update of another
  node's earlier change, handled after that, overwrites it, and a server that does not tell a node of its own changes never
  corrects it. `node/mod.rs:564-565` says that the cache is kept up to date. The same without `status = "ok"` there: a set
  that takes effect and fails on its way back is not cached, and the old value stays.
- **A stale value after `delete_param`** (`ParameterActor`): `CacheCurrent` in `par_actor` without `cache[r.param] # Absent`
  where `Effect` says when a subscription is unsettled. The subscription is undone first and the cache cleared last
  (`parameter.rs:237-246`): a deletion that fails leaves a value, which the next `get_param_cached` subscribes to and takes
  for current. Without `Ahead(r.param)` there: an update from before a deletion reaches a subscription made since.
- **A value that was deleted** (`ParameterActor`): `CacheCurrent` in `par_actor` with nothing unsettled in `Effect`'s case of
  `has`: an empty struct is left undecided when `has_param` fails (`parameter.rs:292`), and the old value stays.
- **A namespace that is cached** (`ParameterActor`): `CacheCurrent` in `par_actor` with `{q}` for the parameters that
  `Changes` unsettles. The value of a namespace is the tree below it (`xmlrpc/master.rs:289-299`, `309-317`). When a parameter
  in it changes, the update bears that one's name, which the actor looks for as it is (`parameter.rs:222`, `285`): the cached
  tree stays as it was. So it does when the node itself sets the parameter in it. `node/mod.rs:564-565`, again.
- **A publisher whose connect failed** (`Subscription`, `SubscriberActor`): `LinksSettle` in `sbn_links`, and
  `ListedGetLinked` in `sub_actor`, without `missed`. An error of `requestTopic`, of the connection or of the handshake is
  logged (`subscriber.rs:341-350`, `364-368`), and the publisher left out until the master next tells of a change.
- **A subscriber that stops reading** (`Publication`): `ConnectionsEnd` in `pbn_stream` without its last `Reads(c) =>`. Its
  task waits in `write_all` (`publication.rs:251`, `264`) and does not see that the publication has been dropped (256).
- **A persistent link that does not recover** (`ServiceCall`): `FailsForCause` without its `~persistent`, and `Excuse`
  likewise. The link keeps its connection after a failed exchange (`client.rs:240-242`), so every later call fails at once,
  also when the service is up again.
- **A sleep that misses its tick** (`Clock`): `SleepsEnd` under `FairSpec`, which does not assume that ticks go on. A tick
  between a future's look at the time and the arrival of its timer entry does not see the timer.
- **A sleep that never ends** (`Clock`): `SleepsEnd` with `Backwards = TRUE`. The clock reaches the deadline, uses up the
  entry and goes back before the future is polled; the future waits again without sending another (`sleep.rs:41`).

### Bounds

The bounds below matter most for what is only model-checked, the liveness properties above all: the safety properties are
proved for any constants, those bounds included.

- `PublisherActor`: two user tasks give every interleaving of a destructor with one other call. One topic: handlers for
  different ones share the mailbox, `rpc` and the order of `post_stop`, and the theorems hold for any number. Of the two kinds
  of request one works and one is refused where a publication exists and panics where none does. Guards are taken from a
  finite set and reused when nobody can refer to them.
- `SubscriberActor`: one topic, two tasks, two publishers: `q` is there from the start and never answers, `p` may join at any
  moment of a registration; both may leave, once. `MaxQueue` keeps a task from calling while a message is queued: with two
  tasks one call is then handled and one waits, with drops before and behind. `ServiceActor`: one service, which one task
  advertises and another advertises and calls. Two guards in both: a live entry and one that is being replaced. With three,
  the invariants of `ServiceActor` hold, too.
- `NodeShutdown`: the four actors of a node, of which only the subscriber actor can be stuck for ever; two users, one of which
  waits.
- `Publication`: two connections, two sends and a channel of one slot: a receiver lags, and a connection is set up before,
  between and after sends. One id for both, as with a subscriber that reconnects.
- `Subscription`: a publisher that latches, whose link may break once, and one that is refused; two messages, a channel of
  one slot, two handles. Each publisher advertises once: what goes wrong when one does so again is told above. `AskedSpec`
  has the one that is refused there from the start and fixes which handle is asked for first (they are alike); the one that
  latches may be there before, or advertise at any time after. The proofs start from every initial state.
- `ParameterActor`: `MaxChanges` bounds sets and deletes, of the node and of others together: two suffice for one change to
  overtake another. Two parameters, one in the other's namespace, with a value each besides the empty one. The node's tasks
  ask for one of them (`asks`): the namespace, or the parameter in it, which they may also read; a handler touches no entry
  but that of its own parameter. One caller at a time has given up. What a stop finds in the mailbox is never received.
- `Clock`: two futures (the order of the queue matters) and two points in time; deadlines may coincide.
- `ServiceCall`: two calls are one connection used twice, or one call behind another; two starts let a server go between the
  look-up and the connection, and the next one answer. One silent client at most.

### Fairness

Weak fairness of each task, of the actors and of destructors: tokio polls what has been woken. `select!` picks a ready branch
at random, so a branch that is ready again and again is taken: strong fairness of the clock task's branches and of a
subscriber task's cancel branch. In `SubscriberActor` a `publisherUpdate` is a cast into a queue that is emptied in order, so
one that is there is received: strong fairness. The master and the parameter server answer, with success or an error: an
XML-RPC call ends when its HTTP connection does. Remote peers in a handshake answer or disconnect; the code sets no timeout,
and the runs about connections being served rest on that. In `SubscriberActor` that is not assumed: a `Silent` publisher holds
the actor up as long as it stays. Nor is a write to a subscriber that does not read assumed to go on, or an update of the
parameter server to arrive. In `NodeShutdown` an actor that is asked to stop and not stuck does. In `ServiceCall`, where all
work is bounded, one weak fairness condition suffices: something of the tasks' work goes on while it can. It includes the
callback's return and a silent client's departure: one that stays keeps a server's listener. Users are never assumed to call
anything. `TickingSpec` assumes that `/clock` goes on while its subscription lasts.

## What is proved

Each theorem is `Spec => P` for any constants that satisfy the module's `ASSUME`. The properties `P` are those that the runs
check, and two more: `RegistryBacked` of the three actors, which follows from what `Registrar` promises, and the subscriber
actor's `StrandedOnlyByFailure`, which TLC has found to hold in the instance of `sub_actor`. None of them is inductive: each
module has an inductive invariant made of named parts, each part is shown to hold initially and to be kept action by action,
often on top of those before it, and one temporal step concludes. The same is done for an action property or a refinement with
each step, under the invariant, in place of "is kept". Nothing else is assumed but facts about finite sequences, sets and
cardinalities that the provers know or their library states.

**`PublisherActor_proofs`**: `PublisherRegistryBacked` (what the registry holds is listed at the master);
`PublisherImplementsRegistrar`; `PublisherStrandedOnlyByFailure` (a listed topic has a publication or a call or shutdown that
will see to it, and that ceases only in a step that follows a failed call or ends the actor by an error); `PublisherDisarmed`
(a live guard is disarmed exactly when its publication has left the registry); `PublisherNoOrphan` (a publication whose last
handle has gone has its destructor or its drop message still to come). The base is `TypeOK /\ JobInv /\ GuardInv /\ StopInv`:
`JobInv` relates `pc` to the message handled and the master call awaited; `GuardInv` says who may refer to which guard (one in
use has a holder, an entry or a destructor, and none belongs to two topics); `StopInv` says what `post_stop` has taken. On it
`BackedInv`, `MasterInv` and `CallInv` follow what each awaited call may have done at the master, and where the reference to
a guard is while a call is under way.

**`SubscriberActor_proofs`**: `SubscriberImplementsRegistrar`, `SubscriberRegistryBacked`,
`SubscriberStrandedOnlyByFailure`, `SubscriberGuardsTracked` (the publisher actor's last two as one). The base is the
publisher actor's, with what `todo` and `target` may be; `ListedInv` must add that the handler which registers has its topic
still listed while it connects to one publisher after another, however long one of them keeps it waiting: the guard and the
entry are made only after that. For the same reason a listed topic may be accounted for by that handler alone, which
`StrandedOnlyByFailure` allows here (`Accounted`) and not in the publisher actor. `CallInv` says that the task which asked
has no handle meanwhile, so that the reply takes no reference from another guard.

**`ServiceActor_proofs`**: `ServiceImplementsRegistrar`, `ServiceRegistryBacked`, `ServiceStrandedOnlyByFailure`,
`ServiceGuardsTracked`. Here a guard exists before its entry does: `MakingInv` says that it is nobody else's. Entries may
dangle (their guard is gone), so `GuardInv` is weaker than that of the other two.

**`ParameterActor_proofs`**: `ParameterSubscriptionBacked`, `ParameterListedTracked`, `ParameterCacheCurrent`, for any tree of
parameters. `ServerInv` says what the answer of a call tells of the server's list, and the list of the node's: the first two
follow. `CacheCurrent` speaks of quiet moments only. What holds as long as the actor receives what is sent to it is
`CacheInv`: for a parameter that is listed and settled, the last update on its way (not yet delivered, or in the mailbox, or
being handled) carries what the server holds; an answer not yet handled does so unless an update is behind it, and the cache
does when nothing is on its way.

**`Background_proofs`** is about the two tasks a node runs beside its actors. `ClockPendingTracked`, `ClockUsedUpWhenDue`,
`ClockBeatsKept`: `OneEntry` (a future has at most one entry, in queue or channel, none before it has sent it) carries
`WakeInv`: an entry is gone only if its time has come, the clock is closed, or the future has been woken. `BeatInv` says
where `next` stands between the two steps of a rate's sleep. That no two beats fall together needs an interval of more than
0, and the property says so. For `NodeTokenDelays`, `NodeInv` says that the list `todo` is what remains of `Order` after
some first actors, all of which have gone, that the task waits only for one that is left, and that it lets go of its token
when none is. What has gone has gone for good (`GoneStays`).

**`ServiceCall_proofs`**: `ServiceCallAnswerIsOwn`, `ServiceCallExecutedOnce`, `ServiceCallFailsForCause`. A response bears no
number, so that it is one's own rests on `ExchangeInv`: over a connection at most one request is under way, that of the
call the link waits with, in the inbox, with the callback, or in the outbox; a connection that has failed carries none.
`BacklogInv` and `LinkInv` put a connection at most once into one listener's queue. For `FailsForCause`, `ServerInv` and
`CauseInv` keep, as long as nothing has gone wrong, that the server is up, known to the master, and the one connected to.

**`Publication_proofs`**: `PublicationImplementsStream`, `PublicationNoLiveMessageLost`, `PublicationIdsTracked`. `SetupInv`
says that the listener sets one connection up at a time; `WireInv` places each receiver: what is on its wire is before it, and
it joined before that, but for the latched message. `LiveInv` adds that a receiver of a channel that has never been full has
passed nothing unwritten.

**`Subscription_proofs`**: `SubscriptionConnectedListed`, `SubscriptionOneLinkEach`, `SubscriptionInOrder`,
`SubscriptionStoreCurrent`, also for publishers that stop and advertise again, which the run leaves out. `LinkInv` ties
`publisher_addrs` to the tasks. `OrderInv` follows a publisher's messages through the link, the task's frame and the
channel, in which each may follow those before it (`Sequenced`, `Ordered`), across links; `Relinkable` makes that hold for
whatever a new link carries first: all messages so far are of earlier publications of the topic, or of links that have
failed. `StoreInv` says which message the store holds between the send to the channel and the write. From both, `HandleInv`
says what a handle has: received and latched messages come before its receiver in the channel, and a latched one is the only
one of its publisher so far.

Only model-checked:

- all liveness (`SleepsEnd`, `RequestsEnd`, `OrphanRemoved`, `LinksSettle` and so on): it rests on fairness, hence on
  `ENABLED`, which the provers do not handle;
- that the disagreements above do occur.

## What is not modelled

Formats (header fields, XML-RPC values, message encoding): sequential byte code that unit tests reach. The builder: reads
its environment once. Queries that only read and reply (`GetServices`, the subscriber actor's two; the publisher actor's are
in its module as one). XML-RPC methods that only read, `requestTopic` among them. The loop of `subscribe_callback`, a user
task that reads one handle. A service of another type, whose probe is refused, and status codes that no server sends.

## Plan

1. Done: the four actors, publication, subscription, clock and rate, service calls, the node's shutdown; `Registrar` and
   `TopicStream`.
2. Done: proofs of every safety property of these, and of the four refinements.
3. Shorter proofs: the three actors share the arguments about guards, which are written out in each.
4. Should the code change: a drop message that names its guard, a token taken before the task is spawned, and one key for
   `latched_msgs` would each turn an expected violation or a known divergence into a property to prove.
