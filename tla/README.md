# dqueue in TLA+

A TLA+ model of dqueue, a message broker in C++ on boost::asio: what its parts
do when threads, disconnects and broken connections meet, checked with TLC on
small instances and, for the invariants that matter most, proved with TLAPS for
all of them. Paths below are relative to the repository's `libdqueue/`.

## The system

| part | state | operations | what makes it hard |
|---|---|---|---|
| `Node` (node.cpp) | `_queues`, `_subscriptions`, two shared mutexes | createQueue, changeSubscription, eraseClient, publish, getQueuesDescription | called by all io threads and by the application; locks taken in different combinations; publish reads a map without its lock and delivers from a copy |
| `UserBase` (users.h) | `_users` | append, setLogin, erase, exists, byId, users | consulted before the node's locks are taken and again under them |
| `Server` (server.cpp) | node, users, `_nextMessageId` | onNewConnection, onNewMessage, onDisconnect, the application's API | a client's messages race its disconnect |
| `AbstractServer` (abstract_server.cpp) | `_connections`, `_next_id`, acceptor | accept, close, sendTo, stopServer | close, send and accept on several threads |
| `Client` (client.cpp) | `_queries`, `_messagePool`, `_nextMessageId`, `_loginConfirmed` | createQueue, subscribe, unsubscribe, publish, waitAll, onConnect, onNewMessage | application threads wait for the io thread; messages and answers are lost with the connection and sent again |
| `AbstractClient` (abstract_client.cpp) | `_socket`, `_async_connection`, isConnected, isStoped | async_connect, reconnectOnError, disconnect | reconnecting races disconnect and the application's calls |
| `MemoryMessagePool` | publishes not acknowledged | append, erase, all | read by onConnect outside the client's lock |
| `AsyncIO` (async_io.cpp) | socket, stop flag, counter | start, send, full_stop, read loop | one error for each pending operation, overlapping writes |
| `IQueueClient` (iqueue_client.h) | handler table | addHandler, rmHandler, callConsumer | consumers run under its lock |
| `queries`, `serialisation`, `NetworkMessage` | - | encode, decode | lengths and layout |
| `ReCache`, `locker`, logger, strings | caches, spin lock | - | - |

A client sends LOGIN, then requests, each with an id; the server hands a request
to the node and answers OK with that id. A publish stays in the client's pool
until its OK; after a reconnect `onConnect` sends the whole pool again. The
node calls a handler for each listener of a published message, which sends it
to the listener's connection, or calls the server's own consumers.

`PROJECT.json` lists the places where this can go wrong ("hazards"), with the
properties that would catch it, and, for each definition, the lines it models.

## The modules

### Node

`Node.tla` is `Node::Private` with the `UserBase` it consults and
`Server::onNewConnection` and `onDisconnect`. Any number of threads call it.
A call is a sequence of steps, `pc[t]` being the next; a step is the longest
stretch of code no other thread can interfere with.

| variable | code |
|---|---|
| `users`, `nextId` | `UserBase::_users` (ids), `AbstractServer::_next_id` |
| `queues`, `nextQueueId` | `_queues` (name to queueId), `nextQueueId` |
| `subs` | `_subscriptions`; `None` where there is no entry |
| `qlock` | `_queues_locker` |
| `todo`, `seen` | the locals of publish and getDescription |

`_subscriptions_locker` and the user base's lock are never held while waiting
for anything else, so each of their critical sections is one step.
`std::lock` of both mutexes waits for both without holding either.

- createQueue: `createQueue` (the look-up of the owner), `CreateEmplace`, then
  `CheckClient` and `InsertListener`, which are changeSubscription_impl.
- changeSubscription: `changeSubscription`, `ChangeLock`, `CheckClient`,
  `InsertListener`.
- onDisconnect: `onDisconnect` (the user goes), `EraseClient` (its listeners and
  the queues nobody needs go).
- publish: `publish` (the unlocked look-up), `PublishSnapshot`, `Deliver` for
  each target in the order of the ids, `DeliverThrows`, `PublishDone`.
- getQueuesDescription: `DescribeLock`, `DescribeQueue` for each queue,
  `DescribeDone`.

A thread whose call throws is at "throw" and may be called again. A client's
messages are handled one at a time (`MayCall`), as the next read starts when the
handler is done; a disconnect may happen at any time. Tags are a small set and
`Matches` says which regular expression takes which tag. The author of a
publish is only logged, and is left out.

`NodeDelivery.tla` adds history variables that record, from the calls and not
from `_subscriptions`, who is subscribed and whom a publish reached, and states
what the node owes a subscriber. It is about brokers whose application does not
itself subscribe (`ClientsOnly`), because of finding `node_removed`.

`PubSub.tla` is the broker without its maps, locks and steps: members, audience,
and publishes that owe the message to whoever is a member as long as they last
and may bring it to whoever was in the audience meanwhile, once. `NodeDelivery`
implements it (`ImplementsBroker`): the members and the audience are its history
variables, and `pub` is the publish each thread is in. The insertion of a
listener is the moment a subscription begins or ends; the first step of an
unsubscribe, and the user's leaving, is the moment nothing is owed any more.

### Server

`Server.tla` composes what the node alone leaves out: `AbstractServer` with its
list of connections, `UserBase`, and `Server` between them and the node. A call
of the node is one step here, with the outcomes `Node` gives it; one queue is in
use and `listeners` is whom a publish to it goes to.

| variable | code |
|---|---|
| `users` | `UserBase::_users` |
| `conns`, `nextId`, `acc` | `_connections`, `_next_id`, `_acc` |
| `async` | the connections whose `_async_connection` is not null |
| `peer`, `read`, `writes` | the client's end, and the operations of each connection |
| `clock`, `slock` | `_locker_connections`, `Server::_locker` |
| `nextMessageId`, `out` | `Server::_nextMessageId`, and the ids handed to each connection |

A pool of one or of two threads (`Pools`) runs the io_service. Each takes a
completed operation and runs its handler: `handle_accept`, `Start`, `Push`;
`onNetworkError` and then `Close`, `Reset`, `Erase`, `EraseClient`;
`onNewMessage` and then `setLogin`, `Request` or `Publish`, and `Answer`. An
application thread publishes and subscribes. `StopServer` closes the connections
one after the other once no thread runs the io_service, and `Destroy` is
`~Server`.

A publish draws an id under `Server::_locker` and, still under it, takes
`_locker_connections` to find the connection (`onSendToClient`, `sendTo`). If
the target has left the list `sendTo` throws: the application gets the
exception, and in a handler it leaves the io thread and ends the process. Two
more steps end it: an answer or a message through an `_async_connection` that
`close` has just reset ("null"), and an `erase_client_description` that does not
find its connection ("ensure"). `THROW_EXCEPTION` throws and `ENSURE` tests or
not, by the build; when the connection is missing the user is too, and
`UserBase::erase` throws, so both builds stop there.

`ErasedIsListed` is what `erase_client_description` asserts (its ENSURE at
abstract_server.cpp:86): the connection it erases is in the list, and its user
in the user base. With two threads in the pool it does not hold, since both can
pass the test in `close` (abstract_server.cpp:34) before one of them resets the
pointer; that is run `server_erase`. The programs of the repository run the
server with one thread, for which it is proved. What holds for every pool is
`ErasedAfterListed`: no thread erases a connection that `handle_accept` has
started and not listed yet, because both happen under `_locker_connections`.

Two behaviours of the code that no line of the repository contradicts, and that
the model has: after an accept that fails no other one is started
(abstract_server.cpp:96), and `Server::unsubscribe` subscribes (server.cpp:139).

### AsyncIO, Serialisation, Channel

`Serialisation.tla` has the bytes of a message as operators on sequences:
`size`, `write_value`, `read_value` for the types the queries use, `capacity`,
`write` and `read` of a `Scheme`, and a message with its size, its kind and its
fields (`toNetworkMessage`, `FromNetworkMessage`). Integers are little-endian
and of their width. Memory nothing initialises is a value that is no byte, so
that reading it would violate the types. `IsQuery` is what the program can send:
fields of the types of the `Scheme`, and sizes that fit the `uint32_t` they are
written as. The code casts a size to `uint32_t` without testing it, so a field
or a message of 4 GiB and more is outside of the model.

`AsyncIO.tla` is one direction of a connection, byte by byte. `send` starts an
`async_write`; `Transmit` moves as many bytes as the socket has room for and, as
asio does, queues what is left behind the writes other calls have started.
`ReadSome` is the read loop, first the size and then the body; `WriteFails`,
`ReadFails`, `Break` and `full_stop` are the ends. Nothing in the code keeps one
`async_write` from starting while another one is in progress, so when the socket
takes only a part of a message and another write waits, the bytes of the two
mix. `mixed` records that; from then on `ReadMixed` lets the reader find
anything: no message, one that is none, or the exception of an unknown kind.

`Channel.tla` is what `Client` and `Server` take a connection for: whole
messages, once, in order, and all of them unless it is cut or messages mix,
which can only happen while two writes are in progress. `AsyncIO` implements it
(`ImplementsChannel`), liveness included, with the number of writes as the
length of its queue. `Client` and `Server` assume that nothing mixes, which is
so while the socket's buffer takes every message whole.

### Reconnect

`Reconnect.tla` is `AbstractClient` with every operation pending on every
socket. `ops` are the pending ones, `ready` those whose handlers wait for the io
thread, in the order in which they completed. Each one that fails runs
`reconnectOnError`, which makes a new socket and connects it, so that the failed
read and the failed write of one connection start two attempts. A connect that
succeeds runs `HandleConnected`, which starts an AsyncIO on the *newest*
`_socket`, whichever one was connected.

`Settle` is the ownership the code relies on: a socket lives while `_socket` or
the handler of a read of a size points to it (`_sock` is a weak pointer), an
AsyncIO while `_async_connection` or one of its handlers does; what is destroyed
is closed, and closing completes with an error what is pending. `disconnect`
before the first connection uses a null pointer (`crashed`).

Two behaviours to know of. When both attempts succeed the client has two open
connections, where `unittests/abstract_server_client_test.cpp:174` expects
`connections.size()` to be the number of clients (TLC shows it in a few steps,
`Cardinality({s \in Socket : sock[s] = "open"}) <= 1`). And a connect that is
under way when `disconnect` is called completes and leaves the client connected,
for its handler does not look at `isStoped`: run `reconnect_stop`. What
`disconnect` does bring to its end, whatever else goes on, is the AsyncIO it
stops (`StopEnds`).

Simplifications: the host name is always found; at most one write of an AsyncIO
is pending at a time; a write to a connection that has broken fails, and is not
lost unnoticed.

### Client

`Client.tla` is one `Client` with its base class, its pool, its connections and
the server's answers. `Register` and `SendCall` are the two halves of a call
under `_locker`; `Wake` is the return from `qr.locker->lock()`. The io thread
connects (`Connected`, `StartConnection`), runs `onConnect` (`SendLogin`,
`TakeAll`, `Resend`), reads (`RecvLoginConfirm`, `RecvOk`, `RecvUnknownOk`) and
reconnects (`OperationFails`, `ReadFails`). `Serve` is `Server::onNewMessage`
seen from the client. `Establish`, `Break` and `Lose` are the network.

| variable | code |
|---|---|
| `nextMessageId`, `pool`, `queries` | `_nextMessageId`, `_messagePool`, `_queries` |
| `holder`, `pc`, `arg` | `_locker`, and each thread's call |
| `socket` | the newest `_socket`; sockets are numbered |
| `current`, `stoping` | the socket of `_async_connection`, its `_begin_stoping_flag` |
| `link`, `toServer`, `toClient` | the state of each socket, and what is under way on it |
| `readers` | how many AsyncIO read from each socket |
| `made`, `failed` | connects that succeeded, and connects and writes that failed, whose handlers have not run |
| `io`, `resend` | the step of the io thread, and what is left of `all()` |

A connection delivers what was sent, in order, up to some point in each
direction (`Ends`). Its read, its connect and each of its writes fail one by one,
and each failure runs `reconnectOnError`: as in `Reconnect` one broken connection
leads to several attempts, and two handlers of connects may put two AsyncIO on
the newest socket. Two reads then share out the bytes of a message
(`ReadShared`); what the client makes of these is not followed further, `io` is
"garbled" and nothing happens any more.

Simplifications: `auto_reconnection` is on, as it is by default; `disconnect` is
called only when `_async_connection` is not null; a connection carries whole
messages in order (see `Channel`); the server does not throw; the application
calls from its own threads and not out of callbacks; PUBLISH messages to the
client are left out, and with them `subscribe`'s table of consumers, which is
the next module.

A Sync call, or a `createQueue`, out of a callback is outside of the model for
another reason: it waits on the only thread that could read its answer, so that
it never returns, which needs no model. The README of the repository says of the
publish in its `onConnect` "publish can by sync or async." (README.md:50).

### EventHandlers

`EventHandlers.tla` is the table of consumers (`IQueueClient`) as a `Client`
uses it. Application threads call `subscribe` (which takes `_locker` in
`LockClient` and `_eventHandlers_locker` in `addHandler`) and `rmHandler`; the
io thread goes through `callConsumer`, `NextConsumer` for each id, `consume` and
`CallDone`, holding `_eventHandlers_locker` shared all along. `subscribed`,
`called` and `removed` are history: what the application asked for, which
consumers the current message reached, and which were removed. A call through
the null pointer that `operator[]` makes after `rmHandler` ends in "crash".
`unsubscribe` does not touch the table, in the code as in the model.

The table has one tag for each consumer, that of its last subscription
(iqueue_client.h:85), and many queues. `subscribed` records just that, from the
calls and not from the table: the queues a consumer was subscribed to and the
last tag. So a consumer that is subscribed again with another tag, as in
`unittests/server_client_test.cpp`, changes what it gets, and one that is
subscribed to a second queue with another tag gets that tag's messages from the
first one too. `CalledWhenDue` says that a message reaches exactly the consumers
that are so subscribed, and the run has both cases.

## The runs

Runs that pass:

| run | instance | shows |
|---|---|---|
| `node_live` | 3 threads, 2 queues, a client and the server, 4 calls; 0.3 M states | `NoGhostListener`: a listener is a user or is about to be erased by the thread that removed the user; `DescriptionIsSnapshot`: a description is the state of one moment although its locks are taken queue by queue; `EveryCallEnds`: no call waits for ever for `_queues_locker` |
| `node_delivery` | 2 threads, 1 queue, 2 clients, 2 tags; 0.3 M states | `PublishReachesMembers`, `MembersKeepQueue`, `OneOwner`; `ImplementsBroker`: the node is the broker of `PubSub` |
| `server` | 1 client, a pool of 1 or 2 threads, 1 application thread, 2 requests; 72 k states | connections, users and listeners agree (`UsersConnected`, `ListenersConnected`), none is erased before it is listed (`ErasedAfterListed`); ids of messages increase (`IdsIncrease`); `stopServer` leaves nothing (`StoppedIsEmpty`); a client that hangs up is forgotten (`GoneIsForgotten`); the two locks never block for ever (`EveryStepEnds`) |
| `wire` | 7 queries, one of each kind, 2 of them sent, 64 bytes of room; 0.5 M states | `ImplementsChannel`: what arrives is what was sent, whole, once and in order, until two writes in progress mix; `QueueSizeCounts` |
| `reconnect` | 3 sockets; 59 k states | `NeverGivesUp`, `ConnectedIsRead`, `StopEnds` |
| `client_threads` | 2 threads, 4 calls and sockets together, disconnect; 1.8 M states | `AckedMeansServed`: what returns was served; `PoolIsUnacknowledged`; `NothingForgotten`: once `onConnect` is done, each publish in the pool is under way on the connection in use, or its thread is about to send it |
| `handlers` | 2 threads, 2 consumers, one of them subscribed with two tags and to 2 queues, 6 calls and messages; 95 k states | `RemovedNotCalled`; `CalledWhenDue`; `SubscribeReturns` for consumers that do not publish |

Runs that end in a counterexample, each a disagreement between the code and what
the repository says of it ("findings" in `PROJECT.json` quotes the lines):

| run | counterexample |
|---|---|
| `node_removed` | the server and two clients listen to a client's queue; one client leaves and the queue is removed under the other (node.cpp:87) |
| `client_ok` | a publish is sent by the caller and by `onConnect`; the second OK throws out of the io thread (client.cpp:37) |
| `handlers_publish` | subscribe and a consumer's publish take two locks in opposite orders (client.cpp:139) |
| `server_erase` | the failed read and a failed write of a connection close it on two threads at once; the second finds no entry to erase (abstract_server.cpp:34) |
| `reconnect_stop` | a connect is under way when `disconnect` is called; it succeeds and the client stays connected (abstract_client.cpp:50) |

### Bounds

- Two threads make every pair of calls meet at every step; locks, look-ups and
  copies in this code involve two calls at a time. `node_live` has three, so that
  a third call comes while one holds `_queues_locker` and another waits. That
  no cycle goes through `_subscriptions_locker` is not checked but built into the
  model: whoever takes both takes `_queues_locker` first or uses `std::lock`.
- Two clients in `node_delivery` and `node_removed`: one to leave, one to be left.
  With the server as a third listener every condition of `eraseClient` has both
  outcomes. `MaxQueues` bounds `nextQueueId`, so a queue is created again after
  it was removed. `node_live` has one client, for the sake of the third thread:
  what can become of a listener does not depend on other clients, and
  `NoGhostListener` is proved for any number.
- One client in `server`: what races with its leaving is its own requests and
  the application's publishes, and a pool of two runs two of its handlers at
  once. The invariants were also checked once for two clients, pools of one and
  two and two requests (1.8 M states), without a violation. `MaxMessages` bounds
  the publishes of the application, not those of requests.
- Three sockets in `reconnect`: a connection and the two attempts that its failed
  read and its failed write start.
- `Room` is 64 bytes, the PUBLISH has 288 and any two of the other queries have
  at most 50 together. So the PUBLISH is split: alone or behind another query,
  when it arrives whole after many reads, or with a query waiting behind it,
  when the two mix. Writes in progress that do not mix occur too.
- `MaxEvents` of Client counts calls and sockets together, the first socket
  included. With 4 there are three calls on one socket, two calls and a second
  connection, or one call and a third. `OkInv` and `SentInv`, which the proofs
  add, hold on the same instance as well.
- `MaxEvents` of EventHandlers (calls and messages) allows a consumer to be
  subscribed twice, called, removed, subscribed again and called.
- Symmetry is in the threads, never in a run with a liveness property
  (`ImplementsBroker` is safety).
- Consumers that publish only wait more (`consume` has a guard more), so the
  invariants of `handlers` hold for them too.
- Deadlock is checked in `node_delivery`. The other instances come to their end
  when the bounds are used up, the server also when the process ends.

### Fairness

Weak fairness, and only of steps that a running thread takes by itself: going on
with a call (`Step` in MCNodeLive, `LockClient`, `addHandler`, `Step` in
Server) and the io thread taking the next handler (`IoNext`, `Handle` in Server
and Reconnect). What boost::asio does with a started operation is fair as well: bytes
move (`Transmit`, `ReadSome`), and an operation on a broken socket fails
(`Fails`). New calls, faults and disconnects are never fair, and neither is a
connect that succeeds. A mutex promises nothing to a thread that waits while
others keep coming, so the liveness runs bound the calls rather than assume a
fair lock.

## What is proved

For all values of the constants that satisfy the named assumptions
(`NodeAssumption` and `ServerAssumption`: fewer connections than `ServerID`,
distinct model values; for Server also finitely many io threads and no empty
pool; `ClientsOnly`: in NodeDelivery the server itself does not
call; `NoneIsNoValue`, `NoneIsNoPublish`: `None` is none of the values it stands
beside; `ClientAssumption`; `HandlersAssumption`: finitely many consumers;
`NoneIsNoEntry`, `NoneIsNoMessage`: as above, for the table of consumers;
`AsyncIOAssumption`: what is sent satisfies `IsQuery`, and the socket has room
for a byte; `ReconnectAssumption`: the bound is a number, not 0):

| theorem | statement |
|---|---|
| `NodeProofs!TypeCorrect` | `Spec => []TypeOK` |
| `NodeProofs!LockDiscipline` | `Spec => []LockInv` |
| `NodeProofs!GhostFree` | `Spec => []NoGhostListener` |
| `NodeProofs!DescriptionAtomic` | `Spec => []DescriptionIsSnapshot` |
| `ClientProofs!ClientTypeCorrect` | `Spec => []TypeOK` |
| `ClientProofs!PoolExact` | `Spec => []PoolIsUnacknowledged` |
| `ClientProofs!AckedServed` | `Spec => []AckedMeansServed` |
| `ClientProofs!NothingForgottenAlways` | `Spec => []NothingForgotten` |
| `EventHandlersProofs!HandlersTypeCorrect` | `Spec => []TypeOK` |
| `EventHandlersProofs!RemovedIsGone` | `Spec => []RemovedNotCalled` |
| `EventHandlersProofs!CalledWhenDueAlways` | `Spec => []CalledWhenDue` |
| `NodeDeliveryProofs!OneOwnerAlways` | `DeliverySpec => []OneOwner` |
| `NodeDeliveryProofs!MembersKeepQueueAlways` | `DeliverySpec => []MembersKeepQueue` |
| `NodeDeliveryProofs!PublishReachesMembersAlways` | `DeliverySpec => []PublishReachesMembers` |
| `BrokerProofs!BrokerImplemented` | `DeliverySpec => ImplementsBroker` |
| `ServerProofs!ServerTypeCorrect` | `Spec => []TypeOK` |
| `ServerProofs!IdsIncreaseAlways` | `Spec => []IdsIncrease` |
| `ServerProofs!UsersConnectedAlways` | `Spec => []UsersConnected` |
| `ServerProofs!ListenersConnectedAlways` | `Spec => []ListenersConnected` |
| `ServerProofs!ErasedAfterListedAlways` | `Spec => []ErasedAfterListed` |
| `ServerProofs!ErasedIsListedAlways` | `Spec => []ErasedIsListed` if each pool of `Pools` has one thread |
| `ServerProofs!StoppedIsEmptyAlways` | `Spec => []StoppedIsEmpty` |
| `AsyncIOProofs!AsyncIOTypeCorrect` | `Spec => []TypeOK` |
| `AsyncIOProofs!QueueSizeCountsAlways` | `Spec => []QueueSizeCounts` |
| `AsyncIOProofs!ReadsWhatIsWritten` | for every query: the bytes `toNetworkMessage` writes are as many as their size says, and `FromNetworkMessage` reads the query from them |
| `AsyncIOProofs!ChannelSafety` | `Spec => Stream!Init /\ [][Stream!Next]_(Stream!vars)`, the safety part of `ImplementsChannel` |
| `ReconnectProofs!ReconnectTypeCorrect` | `Spec => []TypeOK` |
| `ReconnectProofs!NeverGivesUpAlways` | `Spec => []NeverGivesUp` |
| `ReconnectProofs!ConnectedIsReadAlways` | `Spec => []ConnectedIsRead` |

So every invariant of a run that passes is a theorem.

The arguments:

- **Node.** `LockInv` says which steps hold `_queues_locker` and that a writer
  excludes readers; it is inductive with the types. `GhostInv` adds to
  `NoGhostListener` the thread between `CheckClient` and `InsertListener`: the
  client it has found is a user or a client being erased, and since it holds the
  lock that `EraseClient` needs, the listener it inserts will still be found by
  that erase. `SnapshotInv` says that what a description has collected equals
  the present state, which stays so because whoever changes it holds the lock
  exclusively.
- **Client.** The types say that no table has an id that was not given out, so a
  new id is in none of them; `TableSteps` shows that only a call and an OK touch
  the tables. `AckedMeansServed` needs `OkInv` (an OK under way is for a request
  that was handled), which needs that a stream to the client is cut and consumed
  only at its ends (`AnswerSteps`). `NothingForgotten` speaks of the time after
  `onConnect`; `SentInv` adds the time within it, when a publish of the pool may
  still be in the rest of `all()`, and that an AsyncIO with its stop flag set has
  a socket that has ended, so that `send` drops no message on a connection in
  use. A publish is in the pool before its thread sends it, and `all()` is taken
  after the connection has been replaced: whatever was sent to the old one is
  still in what is sent to the new one. Each step then keeps a publish that is
  under way where it is (`SentOn`, `SentQuiet`), turns it into its OK, takes it
  out of the pool, or ends the connection in use.
- **EventHandlers.** `TableInv`: ids are given out once, an entry belongs to the
  consumer that has its id, and that consumer was not removed. The number of ids
  equals the number of consumers that have one, which bounds it. `EntryInv` says
  that an entry has the last tag of its consumer and that the id is in the lists
  of the queues it was subscribed to and in no other, and `CalledInv` that the
  consumers a message was for have been called, except those still on its list:
  the list is gone through under the lock that keeps others from changing the
  table.
- **NodeDelivery.** `DeliveryInv` has five parts, each inductive with the ones
  before it. `CallsInv`: a client has one subscription call at a time.
  `UsersInv`: ids are not used again, so a client that is being erased does not
  come back. `OwnerInv`: a queue that does not exist, or whose creator has not
  been recorded yet, has no owner; this is what makes a second owner impossible.
  `MemberInv`: a member listens to an existing queue and no call in progress
  changes that; since the server does not listen, the queue a disconnect removes
  has no member. `OwedInv`: what a publish owes was sent or is still in its
  copy of the listeners, which is taken under the lock.
- **Broker.** Every step of the node maps to a step of `PubSub` or to none.
  `AudienceInv`: every listener that receives is in the broker's audience.
  `PubInv`: a publish owes to members, may reach the audience, and has still to
  reach others than those it reached. `FailedInv`: a thread whose publish threw
  is not publishing. One lemma for each step of the broker; a thread that
  `Keeps` its publish or is `Quiet` takes no part in it, and a step of quiet
  threads is a stutter.
- **Server.** `IdsInv`: between drawing its id and handing it to the connection a
  thread holds `Server::_locker`, so its id is the last one drawn and larger
  than all that were handed over. `ServerInv` relates each connection's user,
  list entry and AsyncIO to the steps of the handlers that make and end it.
  `FreshInv`: nobody else knows an id before its connection has started.
  `AsyncInv`: a connection with an AsyncIO is listed or is being pushed, one
  without is being erased. `EraseInv`, `UserInv`: a listed connection has its
  user until its erase, and afterwards only the `setLogin` of a handler that is
  about to answer puts it back. `StopInv`: `stopServer` runs alone and has
  exactly the listed connections to close. A thread that dies may leave a lock
  held and its work half done, so `Good` is claimed while the process lives
  (`Alive`), and of the last step only what the runs check. `ErasedIsListed`
  is proved for pools of one thread (`OnePool`): there the thread that erases is
  the only one that could have erased or reset the connection (`AloneErases`).
- **AsyncIO.** A counter and the writes it counts change together, except for a
  write that fails, which stays counted. `StreamInv`: what the reader has taken,
  the bytes in the socket and those still to be written are, in this order, the
  bytes of the messages that were sent and not received yet, or a prefix of them
  once the connection is cut (`InStream`). It holds until bytes mix; after that
  only the types are claimed (`AsyncInv`). A read therefore takes the bytes of
  the first of those messages, of which `ReadsWhatIsWritten` says that they are
  read as what was sent. The lemmas about recursive functions
  (`Bytes` and `Number`, `capacity`, `Concatenation`, the fields one after the
  other) need induction; the library's theorems about it take a predicate, which
  the provers cannot instantiate, so it is done with the least element of a set
  of counterexamples (`LeastNat`, from the well-founded order of the naturals).
- **Reconnect.** `SettleKeeps`: when things are destroyed at the end of a step, no
  handler is lost, each pending operation stays or completes with an error. So
  every failure has its handler, and every handler that may reconnect does.
  `SocketInv`, for the types: the AsyncIO objects are as many as the sockets
  that were connected, and each connect that is pending or waits for its handler
  is the only one of its socket and is for one that is not among them. Without
  that nothing says that the number of the newest AsyncIO is one of a socket.

From nothing, the proofs take about half an hour on a small machine, most of it
for Server, AsyncIO and Reconnect. Most steps are left to Zenon (`USE ZenonT(30)`); those
about numbers, records and sequences name the SMT solver.

## What is only model-checked

All liveness, since the prover does not do fairness: `EveryCallEnds`,
`SubscribeReturns`, `GoneIsForgotten`, `EveryStepEnds`,
`StopEnds`, and of `ImplementsChannel` that every message arrives in the end
unless the connection is cut or messages have mixed.

## What is not modelled

- `ReCache`: a cache under a lock in front of `std::regex`; it changes no answer
  of `checkTag`, which `Matches` stands for. A tag that is no regular expression,
  for which `compile` throws, is left out. Its `instance()` tests a plain pointer
  before taking the lock, which only a model of memory could judge.
- The spinning of `utils::async::locker`; it is a gate that a caller waits at.
- Memory: a data race appears only as the hazard it is (`_subscriptions[...]`
  under a shared lock, node.cpp:199).
- `Client::waitAll` and the waiting `connect`, loops that read state the model
  has; several io threads in one client; calls of a client out of its callbacks;
  the look-up of the host name.
- In Server: the server's own `createQueue` (Node has it), consumers of the
  server that call it again, a message of an unknown kind, and `cancel`, which
  no handler of the library sets.
- A consumer that subscribes or removes consumers: it locks a `shared_mutex` that
  its thread holds, which is undefined.
- Logging, strings, the text of exceptions; the benchmarks, which are programs
  that use the library.

## What remains

- What the two AsyncIO that share a socket make of its bytes, in `Client`
  ("garbled").
- Liveness of `Client`: that a publish is acknowledged in the end, when a connection
  lasts and no OK throws.
