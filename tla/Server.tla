------------------------------- MODULE Server -------------------------------
(***************************************************************************)
(* The server around the node: AbstractServer and its ClientConnections    *)
(* (libdqueue/abstract_server.cpp), Server (server.cpp) and UserBase       *)
(* (users.h).  It is about who is connected, who is a user and who         *)
(* listens, and about the threads that change the three.                   *)
(*                                                                         *)
(* The threads of a pool run the io_service: they take completed           *)
(* operations (an accept, a read, a failed write) and run their handlers.  *)
(* The application's threads call the server's own API.  One queue is in   *)
(* use, and a call of the node is one step with the outcomes module Node   *)
(* gives it.  _locker_connections and Server::_locker are clock and slock; *)
(* what is done under one of them without waiting is one step.             *)
(*                                                                         *)
(* An operation that completed before its socket was closed still runs its *)
(* handler with that result; one that was pending fails.  An exception     *)
(* that leaves a handler, and a call through a null _async_connection, end *)
(* the process: the thread is at a step of Fatal and nothing happens any   *)
(* more.                                                                   *)
(***************************************************************************)
EXTENDS Integers, Sequences, FiniteSets

CONSTANTS
  Pools,        \* the sets of threads that may run the io_service
  AppThread,    \* the application's threads
  MaxClients,   \* bound: connections accepted
  MaxRequests,  \* bound: messages the clients send
  MaxMessages,  \* bound: no publish by the application starts after this id
  None

IoThread == UNION Pools

Thread == IoThread \cup AppThread

ServerID == 2147483647

ClientId == 0 .. (MaxClients - 1)

Id == ClientId \cup {ServerID}

Kinds == {"LOGIN", "CREATE_QUEUE", "SUBSCRIBE", "UNSUBSCRIBE", "PUBLISH"}

ASSUME ServerAssumption ==
  /\ {} \notin Pools /\ IsFiniteSet(IoThread)
  /\ IoThread \cap AppThread = {}
  /\ None \notin Thread
  /\ None \notin Id
  /\ MaxClients \in Nat /\ MaxClients <= ServerID
  /\ MaxRequests \in Nat
  /\ MaxMessages \in Nat

VARIABLES
  users,      \* UserBase::_users
  listeners,  \* Node: the ids a publish goes to
  nextId,     \* AbstractServer::_next_id
  conns,      \* AbstractServer::_connections
  async,      \* the connections whose _async_connection is not null
  acc,        \* the accept: pending, being handled, given up, or _acc closed
  peer,       \* the client's end of each connection
  read,       \* the read of each connection, or the message it completed with
  writes,     \* the connections with a write that has not completed
  requests,   \* how many messages the clients have sent
  clock,      \* AbstractServer::_locker_connections: its holder
  slock,      \* Server::_locker: its holder
  nextMessageId,
  out,        \* history: the ids of the messages published to each client
  pc,         \* the next step of each thread
  arg         \* what a thread is busy with: a connection, a message id, and
              \* the targets of its publish or the connections to close

node  == <<users, listeners>>
socks == <<peer, read, writes, requests>>
table == <<nextId, conns, async, acc>>
locks == <<clock, slock>>
ids   == <<nextMessageId, out>>
vars  == <<node, socks, table, locks, ids, pc, arg>>

Fatal == {"ensure", "throw", "null"}

Steps == {"absent", "idle", "start", "push", "close", "reset", "erase", "eraseClient", "answer",
          "deliver", "sendTo", "stop", "stopped", "destroyed"} \cup Kinds \cup Fatal

TypeOK ==
  /\ users \in SUBSET Id
  /\ listeners \in SUBSET Id
  /\ nextId \in 0 .. MaxClients
  /\ conns \in SUBSET ClientId
  /\ async \in SUBSET ClientId
  /\ acc \in {"pending", "busy", "off", "closed"}
  /\ peer \in [ClientId -> {"none", "open", "gone"}]
  /\ read \in [ClientId -> {"none", "pending", "error"} \cup Kinds]
  /\ writes \in SUBSET ClientId
  /\ requests \in Nat
  /\ clock \in Thread \cup {None}
  /\ slock \in Thread \cup {None}
  /\ nextMessageId \in Nat
  /\ out \in [ClientId -> Seq(Nat)]
  /\ pc \in [Thread -> Steps]
  /\ arg \in [Thread -> [conn : ClientId \cup {None}, id : Nat, todo : SUBSET Id]]

NoArg == [conn |-> None, id |-> 0, todo |-> {}]

Init ==
  /\ users = {ServerID}
  /\ listeners = {}
  /\ nextId = 0
  /\ conns = {}
  /\ async = {}
  /\ acc = "pending"
  /\ peer = [c \in ClientId |-> "none"]
  /\ read = [c \in ClientId |-> "none"]
  /\ writes = {}
  /\ requests = 0
  /\ clock = None
  /\ slock = None
  /\ nextMessageId = 0
  /\ out = [c \in ClientId |-> <<>>]
  /\ \E pool \in Pools :
       pc = [t \in Thread |-> IF t \in pool \cup AppThread THEN "idle" ELSE "absent"]
  /\ arg = [t \in Thread |-> NoArg]

-----------------------------------------------------------------------------
(* Control. *)

Alive == \A t \in Thread : pc[t] \notin Fatal

At(t, step) == Alive /\ pc[t] = step

Goto(t, step) == pc' = [pc EXCEPT ![t] = step]

Crash(t, what) == Goto(t, what) /\ UNCHANGED <<node, socks, table, locks, ids, arg>>

Conn(t) == arg[t].conn

Busy(t, c, id, todo) == arg' = [arg EXCEPT ![t] = [conn |-> c, id |-> id, todo |-> todo]]

\* Thread t is done with a connection, or with a call.
Finish(t, step) == Goto(t, step) /\ Busy(t, None, 0, {})

\* Thread t takes the next completed operation, of connection c.
Take(t, c, step) ==
  /\ At(t, "idle") /\ t \in IoThread /\ acc # "closed"
  /\ Goto(t, step) /\ Busy(t, c, 0, {})

\* The server exists until its destructor runs.
Exists == \A t \in IoThread : pc[t] # "destroyed"

-----------------------------------------------------------------------------
(* The clients' ends. *)

Arrives(c, kind) ==
  /\ Alive /\ peer[c] = "open" /\ read[c] = "pending"
  /\ requests < MaxRequests
  /\ requests' = requests + 1
  /\ read' = [read EXCEPT ![c] = kind]
  /\ UNCHANGED <<node, peer, writes, table, locks, ids, pc, arg>>

HangsUp(c) ==
  /\ Alive /\ peer[c] = "open"
  /\ peer' = [peer EXCEPT ![c] = "gone"]
  /\ read' = [read EXCEPT ![c] = IF @ = "pending" THEN "error" ELSE @]
  /\ UNCHANGED <<node, writes, requests, table, locks, ids, pc, arg>>

Written(c) ==
  /\ Alive /\ c \in writes
  /\ writes' = writes \ {c}
  /\ UNCHANGED <<node, peer, read, requests, table, locks, ids, pc, arg>>

-----------------------------------------------------------------------------
(* The locks, and UserBase and the node as the server uses them. *)

ConnectionsFree == clock = None

\* Mutant: the message gets its id before Server::_locker is taken.
IdFirst == TRUE

ServerFree == slock = None

\* Mutant: UserBase::erase does not find the user.
EraseNobody(id) == users

\* UserBase::erase
UsersWithout(id) == users \ {id}

\* Node::eraseClient
ListenersWithout(id) == listeners \ {id}

\* Mutant: the node takes a subscription from anyone.
Anyone(c) == TRUE

\* The node's look-up of the caller.  Of a client that has left the users and
\* not yet the node, it is open whether it was looked up before that.
Known(c) == c \in users \/ \E t \in Thread : pc[t] = "eraseClient" /\ Conn(t) = c

-----------------------------------------------------------------------------
(* handle_accept *)

\* Mutant: AsyncIO does not go on reading.
ReadNoMore(c) == [read EXCEPT ![c] = "none"]

\* A read starts on the open socket of c.
ReadNext(c) == [read EXCEPT ![c] = IF peer[c] = "gone" THEN "error" ELSE "pending"]

\* Mutant: the id is read after it was incremented.
IdAfterIncrement == nextId + 1

NewId == nextId

\* The connection gets its id under the lock, and onNewConnection appends the
\* user.
handle_accept(t) ==
  /\ acc = "pending" /\ nextId < MaxClients /\ ConnectionsFree
  /\ Take(t, NewId, "start")
  /\ acc' = "busy"
  /\ nextId' = nextId + 1
  /\ users' = users \cup {NewId}
  /\ peer' = [peer EXCEPT ![NewId] = "open"]
  /\ UNCHANGED <<listeners, conns, async, read, writes, requests, locks, ids>>

\* After an error there is no other accept; most errors are thrown.
AcceptFails(t) ==
  /\ acc = "pending" /\ At(t, "idle") /\ t \in IoThread
  /\ \/ acc' = "off" /\ UNCHANGED <<node, socks, nextId, conns, async, locks, ids, pc, arg>>
     \/ Crash(t, "throw")

\* Mutant: the lock is taken for push_back only.
StartUnlocked(t) ==
  /\ At(t, "start") /\ ConnectionsFree
  /\ async' = async \cup {Conn(t)}
  /\ read' = ReadNext(Conn(t))
  /\ Goto(t, "push")
  /\ UNCHANGED <<node, nextId, conns, acc, peer, writes, requests, locks, ids, arg>>

\* ClientConnection::start, under the lock: from now on the connection's
\* handlers run, though it is not yet in the list.
Start(t) ==
  /\ At(t, "start") /\ ConnectionsFree
  /\ clock' = t
  /\ async' = async \cup {Conn(t)}
  /\ read' = ReadNext(Conn(t))
  /\ Goto(t, "push")
  /\ UNCHANGED <<node, nextId, conns, acc, peer, writes, requests, slock, ids, arg>>

\* Mutant: the lock is not released.
PushKeepsLock(t) ==
  /\ At(t, "push")
  /\ conns' = conns \cup {Conn(t)}
  /\ acc' = "pending"
  /\ Finish(t, "idle")
  /\ UNCHANGED <<node, nextId, async, socks, locks, ids>>

Push(t) ==
  /\ At(t, "push")
  /\ conns' = conns \cup {Conn(t)}
  /\ clock' = None
  /\ acc' = "pending"
  /\ Finish(t, "idle")
  /\ UNCHANGED <<node, nextId, async, socks, slock, ids>>

-----------------------------------------------------------------------------
(* The handlers of a connection. *)

\* The on_n handler of a failed read and of a failed write: both close.
onNetworkError(t, c) ==
  /\ \/ /\ read[c] = "error"
        /\ read' = [read EXCEPT ![c] = "none"]
        /\ UNCHANGED writes
     \/ /\ c \in writes /\ (peer[c] = "gone" \/ c \notin async)
        /\ writes' = writes \ {c}
        /\ UNCHANGED read
  /\ Take(t, c, "close")
  /\ UNCHANGED <<node, peer, requests, table, locks, ids>>

\* The switch on the kind of the message.
onNewMessage(t, c) ==
  /\ read[c] \in Kinds
  /\ Take(t, c, read[c])
  /\ read' = [read EXCEPT ![c] = "none"]
  /\ UNCHANGED <<node, peer, writes, requests, table, locks, ids>>

\* _users[id].login = login puts the id in if it is not there.
setLogin(t) ==
  /\ At(t, "LOGIN")
  /\ users' = users \cup {Conn(t)}
  /\ Goto(t, "answer")
  /\ UNCHANGED <<listeners, socks, table, locks, ids, arg>>

\* createQueue and changeSubscription throw for an id that is not a user; an
\* Unsubscribe from a queue that does not exist returns before that.  The owner
\* of a queue does not receive from it.
Request(t) ==
  \E kind \in {"CREATE_QUEUE", "SUBSCRIBE", "UNSUBSCRIBE"} :
    /\ At(t, kind)
    /\ \/ /\ \/ kind = "SUBSCRIBE" /\ Known(Conn(t)) /\ listeners' = listeners \cup {Conn(t)}
             \/ kind = "UNSUBSCRIBE" /\ Known(Conn(t)) /\ listeners' = listeners \ {Conn(t)}
             \/ kind = "UNSUBSCRIBE" /\ UNCHANGED listeners
             \/ kind = "CREATE_QUEUE" /\ Known(Conn(t)) /\ UNCHANGED listeners
          /\ Goto(t, "answer")
          /\ UNCHANGED <<users, socks, table, locks, ids, arg>>
       \/ /\ Conn(t) \notin users
          /\ Crash(t, "throw")

\* sendOk, or sendTo of the LoginConfirm, through the connection itself; then
\* the handler is done and AsyncIO reads on.
Answer(t) ==
  /\ At(t, "answer")
  /\ IF Conn(t) \in async
       THEN /\ writes' = writes \cup {Conn(t)}
            /\ read' = ReadNext(Conn(t))
            /\ Finish(t, "idle")
            /\ UNCHANGED <<node, peer, requests, table, locks, ids>>
       ELSE Crash(t, "null")

-----------------------------------------------------------------------------
(* publish, for a client or for the application: Node::publish calls         *)
(* onSendToClient for the targets, in the order of their ids.                *)

\* The targets are the listeners whose tag takes the message, and none if the
\* queue does not exist.
Publish(t) ==
  /\ \/ At(t, "PUBLISH")
     \/ t \in AppThread /\ At(t, "idle") /\ Exists /\ nextMessageId < MaxMessages
  /\ \E targets \in SUBSET listeners : Busy(t, Conn(t), 0, targets)
  /\ Goto(t, "deliver")
  /\ UNCHANGED <<node, socks, table, locks, ids>>

IsNext(t, id) == id \in arg[t].todo /\ \A other \in arg[t].todo : id <= other

\* The server's own subscription: its consumer is called.
CallConsumer(t) ==
  /\ At(t, "deliver") /\ IsNext(t, ServerID)
  /\ Busy(t, Conn(t), 0, {})
  /\ UNCHANGED <<node, socks, table, locks, ids, pc>>

onSendToClient(t) ==
  /\ At(t, "deliver") /\ ServerFree
  /\ \E c \in ClientId : IsNext(t, c)
  /\ slock' = t
  /\ nextMessageId' = nextMessageId + 1
  /\ Goto(t, "sendTo") /\ Busy(t, Conn(t), nextMessageId, arg[t].todo)
  /\ UNCHANGED <<node, socks, table, clock, out>>

\* sendTo(id), under the lock of the connections.  A target that is not in the
\* list any more makes it throw: the application sees the exception, a handler
\* lets it out.  One that is in the list may be without its AsyncIO.
sendTo(t) ==
  /\ At(t, "sendTo") /\ ConnectionsFree
  /\ \E c \in ClientId :
       /\ IsNext(t, c)
       /\ \/ /\ c \in conns \cap async
             /\ out' = [out EXCEPT ![c] = Append(@, arg[t].id)]
             /\ writes' = writes \cup {c}
             /\ slock' = None
             /\ Goto(t, "deliver") /\ Busy(t, Conn(t), 0, arg[t].todo \ {c})
             /\ UNCHANGED <<node, peer, read, requests, table, clock, nextMessageId>>
          \/ c \in conns \ async /\ Crash(t, "null")
          \/ c \notin conns /\ t \in IoThread /\ Crash(t, "throw")
          \/ /\ c \notin conns /\ t \in AppThread
             /\ slock' = None
             /\ Finish(t, "idle")
             /\ UNCHANGED <<node, socks, table, clock, ids>>

Published(t) ==
  /\ At(t, "deliver") /\ arg[t].todo = {}
  /\ IF t \in IoThread THEN Goto(t, "answer") /\ UNCHANGED arg ELSE Finish(t, "idle")
  /\ UNCHANGED <<node, socks, table, locks, ids>>

\* Server::subscribe and, asking the node for the same thing,
\* Server::unsubscribe.
Subscribe(t) ==
  /\ t \in AppThread /\ At(t, "idle") /\ Exists
  /\ listeners' = listeners \cup {ServerID}
  /\ UNCHANGED <<users, socks, table, locks, ids, pc, arg>>

-----------------------------------------------------------------------------
(* ClientConnection::close and erase_client_description *)

\* After close() a thread goes back to the io_service, or on with stopServer.
Closed(t) ==
  IF acc = "closed" THEN Goto(t, "stop") /\ UNCHANGED arg ELSE Finish(t, "idle")

IsOpen(c) == c \in async

Close(t) ==
  /\ At(t, "close")
  /\ IF IsOpen(Conn(t)) THEN Goto(t, "reset") /\ UNCHANGED arg ELSE Closed(t)
  /\ UNCHANGED <<node, socks, table, locks, ids>>

\* full_stop closes the socket, and _async_connection becomes null.  It is
\* read again for the call of full_stop: another thread that passed the test
\* may have reset it by then, or may not.
Reset(t) ==
  /\ At(t, "reset")
  /\ \/ /\ async' = async \ {Conn(t)}
        /\ read' = [read EXCEPT ![Conn(t)] = IF @ = "pending" THEN "error" ELSE @]
        /\ Goto(t, "erase")
        /\ UNCHANGED <<node, peer, writes, requests, nextId, conns, acc, locks, ids, arg>>
     \/ Conn(t) \notin async /\ Crash(t, "null")

\* Under the lock of the connections: the connection has to be in the list
\* and its user in the user base, from which onDisconnect takes it.
Erase(t) ==
  /\ At(t, "erase") /\ ConnectionsFree
  /\ IF Conn(t) \in conns \cap users
       THEN /\ clock' = t
            /\ users' = UsersWithout(Conn(t))
            /\ Goto(t, "eraseClient")
            /\ UNCHANGED <<listeners, socks, table, slock, ids, arg>>
       ELSE Crash(t, "ensure")

\* Still under the lock: the node forgets the client, the list the connection.
EraseClient(t) ==
  /\ At(t, "eraseClient")
  /\ listeners' = ListenersWithout(Conn(t))
  /\ conns' = conns \ {Conn(t)}
  /\ clock' = None
  /\ Closed(t)
  /\ UNCHANGED <<users, socks, nextId, async, acc, slock, ids>>

-----------------------------------------------------------------------------
(* stopServer, called when no thread runs the io_service any more, and the *)
(* destructor of Server.                                                   *)

\* Mutant: the list is cleared before it is copied.
CopyAfterClear == {}

LocalCopy == conns

StopServer(t) ==
  /\ At(t, "idle") /\ t \in IoThread /\ acc # "closed"
  /\ \A i \in IoThread : pc[i] \in {"idle", "absent"}
  /\ acc' = "closed"
  /\ Goto(t, "stop") /\ Busy(t, None, 0, LocalCopy)
  /\ UNCHANGED <<node, socks, nextId, conns, async, locks, ids>>

CloseNext(t) ==
  /\ At(t, "stop")
  /\ \E c \in arg[t].todo : Busy(t, c, 0, arg[t].todo \ {c})
  /\ Goto(t, "close")
  /\ UNCHANGED <<node, socks, table, locks, ids>>

Stopped(t) ==
  /\ At(t, "stop") /\ arg[t].todo = {}
  /\ conns' = {}
  /\ Finish(t, "stopped")
  /\ UNCHANGED <<node, socks, nextId, async, acc, locks, ids>>

Destroy(t) ==
  /\ At(t, "stopped")
  /\ \A a \in AppThread : pc[a] = "idle"
  /\ listeners' = ListenersWithout(ServerID)
  /\ Goto(t, "destroyed")
  /\ UNCHANGED <<users, socks, table, locks, ids, arg>>

-----------------------------------------------------------------------------
\* A thread of the pool starts a handler.
Handle(t) ==
  \/ handle_accept(t)
  \/ \E c \in ClientId : onNetworkError(t, c) \/ onNewMessage(t, c)

\* A thread goes on with its handler or its call.
Step(t) ==
  \/ Start(t) \/ Push(t)
  \/ setLogin(t) \/ Request(t) \/ Answer(t)
  \/ pc[t] # "idle" /\ Publish(t)
  \/ CallConsumer(t) \/ onSendToClient(t) \/ sendTo(t) \/ Published(t)
  \/ Close(t) \/ Reset(t) \/ Erase(t) \/ EraseClient(t)
  \/ CloseNext(t) \/ Stopped(t)

Next ==
  \/ \E c \in ClientId, kind \in Kinds : Arrives(c, kind)
  \/ \E c \in ClientId : HangsUp(c) \/ Written(c)
  \/ \E t \in Thread : Handle(t) \/ Step(t) \/ AcceptFails(t) \/ StopServer(t) \/ Destroy(t)
  \/ \E t \in AppThread : Publish(t) \/ Subscribe(t)

Spec == Init /\ [][Next]_vars

\* A thread of the pool keeps running handlers, and every thread goes on with
\* what it is in.
FairSpec == Spec /\ \A t \in Thread : WF_vars(Handle(t) \/ Step(t))

-----------------------------------------------------------------------------
\* handle_accept has appended the user and not yet listed the connection.
Accepting(c) == \E t \in Thread : pc[t] \in {"start", "push"} /\ Conn(t) = c

\* Every user is connected.  A read that completed before its connection was
\* closed still runs its handler, and setLogin then puts the user back for
\* ever: but such a handler does not survive its answer.
UsersConnected ==
  Alive => \A c \in users \ {ServerID} :
    c \in conns \/ Accepting(c) \/ \E t \in Thread : pc[t] = "answer" /\ Conn(t) = c /\ c \notin async

\* Whoever listens is in the list of connections, or is about to be: sendTo,
\* once it holds the lock, fails only for a client that left after the publish
\* had looked up its targets.
ListenersConnected ==
  \A c \in listeners \ {ServerID} : c \in conns \/ Accepting(c)

\* erase_client_description finds the connection in the list and its user in
\* the user base: "ENSURE(it != _connections.end())", and UserBase::erase
\* throws for an id it does not have.
ErasedIsListed ==
  \A t \in Thread : pc[t] = "erase" /\ clock = None => Conn(t) \in conns \cap users

\* No connection is erased before it is in the list, though its handlers run,
\* and may close it, from the moment it is started: when
\* erase_client_description gets the lock, handle_accept is done with it.
ErasedAfterListed ==
  \A t \in Thread : pc[t] = "erase" /\ clock = None => ~Accepting(Conn(t))

\* The messages published to a client carry increasing ids, in the order in
\* which they are handed to its connection, whoever publishes.
IdsIncrease ==
  \A c \in ClientId : \A i, j \in DOMAIN out[c] : i < j => out[c][i] < out[c][j]

\* stopServer leaves nobody behind.
StoppedIsEmpty ==
  \A t \in Thread : pc[t] = "stopped" =>
    users = {ServerID} /\ listeners \subseteq {ServerID} /\ conns = {} /\ async = {}

\* A client that hangs up is eventually gone from the users, the node and the
\* list of connections, unless the process dies.
GoneIsForgotten ==
  \A c \in ClientId :
    peer[c] = "gone" ~> (c \notin users \cup listeners \cup conns) \/ ~Alive

\* No thread waits for ever: Server::_locker is held while the lock of the
\* connections is awaited, and that one while onDisconnect runs.
EveryStepEnds ==
  \A t \in Thread : pc[t] # "idle" ~> pc[t] \in {"idle", "stopped", "destroyed", "absent"} \/ ~Alive

=============================================================================
