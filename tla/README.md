# A TLA+ verification of ICM

ICM (`icm-1.1/`) is a C++ middleware in two layers. **ICC** (`icc/`, `os/`) wraps
the operating system: threads, sockets, reactors, timers, message queues. On top
of it are **RPC** (`icm/`: invocations, transports, adapters) and
**publish/subscribe** (`msg/`: a broker process and the two client libraries).
This directory models publish/subscribe (the broker in both of its modes and the
two clients), the message queue, the timers and the reactor of ICC, and the
client's side of RPC. TLC model-checks all of them; TLAPS proves the safety
properties of all of them for every value of the constants.

## Inventory

| part | state | operations | hard behaviours |
|---|---|---|---|
| topic manager, buffering mode (`msg/TopicManager.*`, names ending in `_`) | `subscribers`, `subscriptionMap`, `nextAllocateClientId`, `PubMap1`, `PubMap2`, file `SubscriptionInfo` | add/remove subscription, add message, message sent, handler destroyed, save, load | reconnection, overflow, crash between or inside saves |
| topic manager, default mode (names without `_`) | `subscriptionMap1/2`, `PubMap3/4` | the same without ids and file | messages of deleted handlers, reuse of addresses |
| subscriber connections (`msg/SubscriberProxy.*`) | `id`, `tmpMsg`, write mask, activity time | `handleInput` by message type, `handleOutput`, destructor | half-read messages, failing sends, old and new connection of one client |
| publisher connections (`msg/PublisherProxy.*`) | half-read message | `handleInput` | - |
| subscribe client (`msg/SubscribeClient.*`) | topics to subscribe/unsubscribe, id file, keepalive | connect, subscribe, unsubscribe, probe, reconnect | timer against answer, reconnection |
| publish client (`msg/PublishClient.*`) | connection, error flag, buffer file | publish, probe, reconnect, publish from file | two threads, partial failure |
| message protocol (`msg/MsgProtocol.*`) | a message being read | `parse`, `send` | partial reads |
| message queue (`icc/MessageQueue.*`, `icc/Task.*`) | linked list, count, two conditions | `enqueueTail`, `dequeueHead` with waits | lost signals, mutual wait, timeouts |
| timers (`icc/TimerHeap.*`, `icc/TimerQueue.*`) | heap, id table, free list | schedule, cancel, expire | id reuse, callbacks that schedule |
| thread manager (`icc/ThreadManager.*`) | thread lists | spawn, exit, wait | exit against wait |
| reactors (`icc/SelectReactor.*`, `icc/DevPollReactor.*`) | handler table, masks | register, remove, dispatch | removal during dispatch |
| RPC (`icm/`) | pending replies, transport cache, servants | invoke, dispatch reply, cache | late replies, multiplexing |

`PROJECT.json` lists all parts, with the reasons for those left out, and the
hazards of the code at their lines.

## Modules

- **TopicManager**: the store of the buffering mode. One operator per operation;
  no actions of its own, because the broker has a single reactor thread and every
  operation runs inside a handler. A `std::map` filled by `operator[]` is a total
  function. `heap` is the set of `Msg` objects allocated and not deleted.
- **BufferedBroker** extends it with the connections: `Accept`, `InputError`,
  `HalfRead`, `SubscribeOk`, `SubscribeSendFails`, `Unsubscribe`, `KeepAlive`,
  `Publish`, `HandleOutputDone`, `HandleOutputFails`, and `Crash`, `CrashInSave`
  and `Restart`. The build keeps `assert()`, so each assertion that can fail
  (`SubscribeAssert`, `UnsubscribeAssert`, `DestructorAssert`,
  `HandlerOfClientAssert`) is an action that stops the broker and records the
  assertion in `status`. `issued`, `acked`, `sentTo` and `saves` are histories.
- **UnbufferedBroker**: the default mode (`enableBuffering = 0` in
  `conf/icmmsg.ini`), store and connections in one module. The destructor leaves
  the messages of a handler in `PubMap3/4`, and the allocator may give its address
  to a new handler; `inherited` records what a new handler finds. `active` is
  `isActive()`; `Idle` lets the time pass.
- **MessageQueue**: the list with its links, the mutex (a call is one step up to
  where it waits) and the two conditions as sets of waiting and woken threads;
  signals wake any one waiter; waits can also end by timeout or spuriously.
  **FifoQueue** is what the queue promises: a bounded FIFO queue.
- **TimerHeap**: the heap `q` (`mHeap`, `mTimerIds` and the free list, with the
  names of the code) and operators for `remove`, `insert`, `growHeap`,
  `popFreelist`...; actions for what other threads and handlers call (`Schedule`,
  `Cancel`, `CancelAndClose` with its upcall, `CancelHandler`, `ResetInterval`)
  and for the adapter's thread (`Wake`, `Dispatch`, `TimeoutReturns`,
  `ExpireReturns`). Mutexes are recursive, so handlers act within their upcalls.
  A loop of `reheapUp` or `reheapDown` is given by the slots it visits (`Visited`)
  and by what each of them gets in the end (`shift`).
  **TimerQueue** is the promise: a set of timers with unique ids.
- **SelectReactor**: handler table, wait set, dispatch set, and the loop of
  `dispatch()` one callback at a time. An acceptor and two kinds of connection are
  the handlers: `svc` ones are removed and then closed, `tcp` ones closed first.
  A new connection gets the lowest free handle, often one just closed.
- **SubscribeClient**: `run()` as a program counter (`conn_ok`, `process`, `events`,
  `input`, `reconnect`), the three sets of topics other threads change, keepalive,
  and the broker's handler at the other end of two message sequences. `link` is
  up, reset (both ends notice) or silent (nobody does).
- **PublishClient**: `svc()` as a program counter and `publish()` as the step of
  other threads. The mutex is held in `publish()` and from the first to the last
  entry of a flush (`reading > 0`), and nowhere else. The process may end and
  start again; only the file survives.
- **RpcClient**: one application thread that makes synchronous and asynchronous
  calls through one proxy with the generated stub's retry (`examples/icmrpc`), and
  calls `handleEvents()` between calls; transports, their tables of dispatchers,
  the reactor's handlers by handle, and a server that answers in any order.
- **MC...** modules instantiate the above for TLC: a symmetry set, and initial
  states with filled heaps.
- **...Proofs** modules hold the theorems; **RpcMessageProofs** and
  **TimerHeapProofs** hold lemmas that `RpcClientProofs` and `TimerQueueProofs` rest
  on. **BrokerProofs** is about both brokers and **ClientProofs** about both clients:
  each extends the module of one and instantiates that of the other (`U!...` is
  `UnbufferedBroker`, `Sub!...` is `SubscribeClient`).

A client's failed assertion, like the broker's, stops it and is recorded in `status`.

Definitions such as `SentNotDeleted` or `SignalOnlyWhenEmpty`, each before the
definition it deviates from, are faulty variants. Put in the definition's place,
each makes TLC find a property violated in the instances below: every property of
a run, and of the invariants `IInv` each conjunct named in the proofs below as a
theorem of its own, apart from type correctness.

## Runs

| run | instance | shows |
|---|---|---|
| `buffered` | 2 connections, 2 client ids, 2 messages, buffer of 1 | `IInv`: the store's maps stay inverse and refer to live messages, the buffer is bounded, nothing is sent twice, ids are not reused, a handler that serves an id is registered for output while there are messages for it; acknowledged subscriptions survive crashes between saves; nothing leaks when sent |
| `buffered_live` | 2 connections, 2 client ids, 1 message | what is pending for an id is sent, dropped or expires, unless its handler ends, or stops serving it |
| `unbuffered` | 1 topic, 2 connections, 2 messages, buffer of 1 | `IInv`, the same for the default mode, where messages on topics not subscribed to are inherited ones only; nothing leaks when sent; a pending message is sent or dropped, or the connection ends |
| `queue` | 2+2 threads, 4 blocks, water marks 1 and 2 | `IInv`: list, bound and signals; no mutual wait; refinement of `FifoQueue`; every block taken, every waiting producer signalled |
| `timers` | 2 handlers, 2 timers, one-shot and periodic | `IInv`; refinement of `TimerQueue`; the thread never sleeps past a timer; what is due is dispatched or cancelled |
| `timers_filled` | also every heap that 6 timers at 3 times make | ids and heap inverse, heap order, a free id is always found after growth |
| `subscriber` | 1 topic, 3 calls, 2 failures, buffering broker | `IInv`; a connection in use is watched; a silent loss is found; what the client takes for subscribed is so at the broker; requests are answered |
| `publisher` | 3 messages, 2 failures, 1 end of the process | `IInv`; the handler is there whenever it is used; nothing is cleared unread or sent twice but for the end of the process; losses are repaired and the file flushed |
| `reactor` | 3 handles, 3 connections | `IInv`; wait set, table and live handlers agree; no handler is called for an event of its handle's former owner; input is served |
| `rpc` | 3 calls, 4 connections, 2 resets | `IInv`; a call gets its own reply; no dispatcher or late reply of a returned call is left; at most two executions; a synchronous call returns, unless it has no maximum waiting time and its connection stays open and silent |

A handler *serves* an id when it is alive, has the id and is what the store has for
it. A connection may subscribe any number of times, under the id it was given or
with "0", which gives it another. It then serves the id it had last only.

Two runs end in a counterexample, for lines of the repository that the code does
not keep (`findings` in `PROJECT.json`). `online`: `conf/icmmsg.ini:9` promises a
client that comes online what was buffered for it. `sync_reply`: the assertion of
`icm/WaitStrategy.cpp:117`, that the message a synchronous call reads is its reply.

Six more configurations show, in the same way, how an assertion of the code can
fail, and a seventh that the store can keep a pointer to a deleted handler. They
are not part of the runs; `tlc -config X.cfg M` repeats them.

| configuration, module | where | how |
|---|---|---|
| `BufferedBrokerHandlerOfClient`, `BufferedBroker` | `SubscriberProxy.cpp:215` | a client reconnects while its old handler has output to do |
| `BufferedBrokerHalfRead`, `BufferedBroker` | `SubscriberProxy.cpp:37` | a send fails between the parts of an incoming message |
| `BufferedBrokerUnsubscriber`, `BufferedBroker` | `SubscriberProxy.cpp:144` | an unsubscription is sent again on a new connection |
| `BufferedBrokerIdSize`, `BufferedBroker` | `SubscriberProxy.cpp:91` | the tenth id has two characters |
| `BufferedBrokerDanglingHandler`, `BufferedBroker` | `TopicManager.cpp:160` | a connection subscribes, subscribes again under a new id, and ends |
| `SubscribeClientOk`, `SubscribeClient` | `SubscribeClient.cpp:128` | a request sent twice is answered twice |
| `PublishClientProbe`, `PublishClient` | `PublishClient.cpp:294` | `publish()` fails between the timer's look at the flag and the probe |

Not run, but visible in the models: a full buffer is emptied, while
`TopicManager.h:58` says "remove part content"; a message published without a
subscriber is never deleted; what is buffered for an id that a connection had before
it subscribed again with "0" is not sent on it; a new handler at the address of one
that is gone sends, in default mode, what was left for that one; `SubscriberProxy.h:24` calls `2 * 60` seconds "10
minutes"; a topic unsubscribed and subscribed again before the broker's answer is
unsubscribed (`SubscribeClient.cpp:219`); a flush that fails loses the rest of the
buffer file (`lost` in `PublishClient`); asynchronous calls on a lost connection
end without their callback (`"dropped"` in `RpcClient`); a client connection that
was closed stays in the communicator's reactor (`TcpTransport.cpp:50`), which
stops it (`status = "select"`) unless a new connection gets the handle.

**Bounds.** Two connections are what the old and the new connection of one client
need, two ids what a message with two receivers needs. A buffer of one overflows
with two messages. `MaxOneCharId` stands for the 9 of the code. Two producers, two
consumers and a queue of two let a third thread take the place or block somebody
was woken for; four blocks are two queued and two in waiting calls. Addresses of
messages and handlers are symmetric in `buffered`; the other runs, most with
liveness, use no symmetry. Three handles are the acceptor's and two others, so the third
connection has to wait for, and reuse, one. Three calls are one that leaves a reply
behind, one that might meet it, and a retry. Six timers are the fewest of which the
last can be earlier than the parent of one removed. One message in flight means
that a client's request waits until the broker has taken the one before it, which
leaves out requests sent twice in a row; `SubscribeClientOk` allows three, and the
invariants of `subscriber` (not its liveness) were also checked with two, where they
hold. A buffering broker is the only one `subscriber` is run with. `rpc` was also
checked with four calls, and the `IInv` of `unbuffered` with two topics. The theorems hold
for every value of these bounds, and for both kinds of broker.

**Fairness.** Brokers: weak fairness of a handler's `handleOutput`. The reactor
calls it whenever `select()` reports the socket writable or broken, and it stays
registered until `handleOutput` has finished. Nothing is assumed of peers,
publishers, crashes or restarts. Queue: woken threads get the mutex again and
consumers keep calling (`MessageQueue!Fairness`); no producer need call. Timers:
upcalls return (strongly for `handleTimeout`, within which other upcalls come and
go), and the thread gets the mutex again although others may take it first (strong
fairness of `Wake`). Reactor: its thread goes on. Clients: their loop goes on; the
periodic timer, which each `handleEvents()` expires first, is due again and again
and input that is there is reported (both strong, since other events come in
between); the broker takes what arrives; connecting succeeds when tried often
enough. RPC: the application's thread goes on, and a wait that has a maximum time ends
with it. The default of `Reference` is none, so `maxWaitTime` is either, and a wait
without it may last as long as the connection is silent. Nothing is assumed of the
server or the network.

## Proofs

Assumptions are the `ASSUME`s of the modules: types of the constants, finite
`Msg`, `Producer`, `Consumer` and `Handle`, bounds that are numbers, and positive
where the code needs it. Each theorem is `Spec => []P`, or `Spec => P` for an action
property or a refinement; `Spec` has no fairness, so it holds under the runs' fair
specifications too. Each follows from an inductive `IInv`, which TLC checks in the
component's run.

- **BrokerProofs**, buffering mode: `IInv` is inductive. Besides the properties it says that
  an unallocated message was sent to nobody (a new message reuses an address), that
  id 0 has no handler and a handler that is gone no id, and that a file without a
  next id lists nobody (what a restart loads agrees with the file).
  `NoDanglingMessage` is needed for `SentAtMostOnce` and for `LeavesByDelete`. What
  is said of a handler's id lets a new handler at an address the store still has for
  an old id keep `PendingMeansWriteMask`: it serves nothing until it subscribes.
- **BrokerProofs**, default mode (`U!`): `IInv` adds that a handler that is gone has no topics,
  which is what makes `onHandlerDestroyed` complete although `removeSubscription`
  does not update `subscriptionMap2`.
- **MessageQueueProofs**: `IInv` relates links, ends and count to the history `q`, says
  that pending blocks are owned by one call, and counts signals: while a consumer
  waits, at least as many consumers are woken as there are blocks; while a
  producer waits, there are blocks left or a woken producer. From both follows that
  nobody waits for ever on anybody (`NoMutualWait`), and with the list facts the
  refinement `QueueIsFifo`.
- **SelectReactorProofs**: `IInv` adds to `RegistrationsMatch` that what `select()`
  reported stays true of the handles not yet dispatched (`Ready`): whoever removes a
  handler also takes its handle from the dispatch set, so that a handle closed and
  given to a new connection within a round is not dispatched to it. That is
  `CalledForOwnEvent` (`NoStaleEvent`). A free handle found by `accept()` is nobody's,
  which needs `RegistrationsMatch` itself.
- **ClientProofs**, subscriber (`Sub!`, whose constants are those of the publisher
  under other names, any values both): `Places` says where in `run()` the timer is off and the
  count of probes may be beyond its limit, and makes `KeepAliveArmed` inductive.
  `SubscribedAtBroker` alone is not: an acknowledgement may arrive after a later
  request has been carried out. `AnswersInOrder` is the missing part, a statement
  about the order of the answers in flight.
- **ClientProofs**, publisher: `Places` does the same for `svc()`. `FileRead` says that the
  file is in the order of publication and that its entries before the one being
  read, and no others, were dealt with in this pass; `SentAtMostOnce` and the action
  property `ClearedWhenRead` follow from it.
- **RpcClientProofs**: `IInv` says that a request id of a connection belongs to one
  call and the other way round, over messages, dispatchers and the request about to
  be sent (`IdsUnique`); that a message is under way once (`MessagesOnce`); that a call
  not begun is nowhere and an asynchronous one on one connection only
  (`CallsPlaced`); and that executions plus requests pending are at most the requests
  sent (`Executions`). `OwnReply` needs the first; that no dispatcher and no message is
  left when a reply is taken (`NoDanglingDispatcher`, `NoLateReply`) the first three;
  `ExecutedAtMostTwice` the last. `RpcMessageProofs` has what each step does to
  messages, ids and tables.

- **TimerHeapProofs** and **TimerQueueProofs**: `Sound` says of a heap with the timers
  `A` set and `L` in limbo that the two arrays are inverse, the heap in order, the
  counters right, two ids free, and all free ids but one within the reach of
  `popFreelist`. `IInv` says that `q` is sound between any two steps, where the only
  timer in limbo is the one whose `handleClose()` runs. A heap function is first
  shown to keep the arrays inverse (`ShiftStores`) and in order (`UpReheaps`,
  `DownReheaps`, where `remove` may have put a node that is too early or too late for
  its place), then to keep a heap sound (`ScheduleSound`, `RemoveSound`, `FreeSound`,
  `RescheduleSound`). Loops need no induction over data: the slots visited are the
  least set that is closed, so a set is shown to hold them by being closed itself
  (`VisitedLeast`), and where a loop ends follows from the least of a set of numbers
  (`LeastNumber`), as do facts about all passes. `cancel(type)`, which starts its scan anew after each
  removal, is a chain of passes each of which keeps the heap sound and has one timer
  of the handler less (`PassesSound`). Two free ids
  and one out of reach leave one to be found (`FreeIdAlwaysFound`); the order of the
  heap makes its root the earliest timer (`RootEarliest`), on which
  `ThreadWakesInTime` rests. Every lemma about a step also says which
  step of `TimerQueue` it is, or that it is none: that is `HeapIsTimerQueue`. A
  periodic timer is due a whole number of intervals later, `now + 1` at most
  (`Skips`).

Each conjunct of an `IInv` that matters by itself has its theorem.

Only model-checked: the liveness properties (they need fairness and `ENABLED`) and the
counterexamples. Every safety property of a run has its theorem.

## What is not modelled

Abstractions of what is modelled: message contents; the order in which
`handleOutput` sends (a `std::set` of pointers has no meaningful order, so any
subset may be through when a send fails); the read-only queries (`queryState`);
a client that brings an id from an earlier buffering broker to one in default
mode; the truncation of `SubscriptionInfo` when the mode is switched. Null blocks
in the queue. `calculateTimeout` and timers inside the select reactor, its
exception mask and interrupted calls. The subscriber's file `ClientIdInfo` and its
restart. In the publisher: failing file operations, and several clients in one
process, which share the static error flag (`PublishClient.cpp:10`). In RPC: oneway
calls (which wait for a reply, `Invocation.cpp:265`), a request of which a part was
sent when the send failed, the transport cache, calls from several threads (a call would then read
from a connection that the reactor reads from, too), the reuse of a transport's
address, by which `validateTransport` knows it, and response handlers that outlive
the next request of their transport (`AmhResponseHandler.cpp:22`).

Parts left out, and why:

- `MsgProtocol` and the readers of `IcmProtocol` take messages apart byte by byte;
  the models take their results (complete, half read, error) as inputs.
- `ThreadManager` has lists of threads, but what they hold is undefined by C++:
  `spawn` reads the id through a pointer to a local variable of `thr_create`
  (`OS_NS_Thread.cpp:6379`), and `appendThr` changes the list without the mutex that
  `exit` and `wait` take. A thread may also exit before it is in the list. Nothing
  about `wait` follows from the source, so the models take threads as given.
- Mutexes, conditions, sockets, logging, configuration: wrappers of the operating
  system, whose behaviour the models take as POSIX describes it.
- The proactors, the Windows implementations and the devpoll reactor are other
  implementations of these services; neither the broker nor RPC uses them.
- The translator `IceE-trans-1.1.0`, with the tables of its generated parsers, is a
  sequential program from files to files. The Java library `icm4j` is a second
  implementation of the clients and of an RPC server; its channel pools and clients
  have state that could be modelled and is not yet. These two are about two fifths of the lines of the
  repository, and two thirds together with the wrappers in `os/`.

So the models cover the concurrent and stateful core of the C++ middleware, a small
share of all lines.
