-------------------------------- MODULE Node --------------------------------
(***************************************************************************)
(* The broker's core: dqueue::Node (libdqueue/node.cpp) together with the  *)
(* UserBase it consults (libdqueue/users.h) and the order in which         *)
(* Server::onDisconnect uses the two (libdqueue/server.cpp).               *)
(*                                                                         *)
(* Any number of threads call the node at once: the io threads that run    *)
(* the connection handlers and the user threads that call the server's own *)
(* createQueue, subscribe, publish and getDescription.  Each call is a     *)
(* small program; pc[t] names the next step of the call of thread t, and a *)
(* step is the longest stretch of code during which no other thread can    *)
(* interfere.                                                              *)
(*                                                                         *)
(* Locks.  _queues_locker is the variable qlock: it is held across steps.  *)
(* _subscriptions_locker and UserBase::_locker are never held while        *)
(* waiting for anything, so what they protect is one step, and             *)
(* std::lock(_subscriptions_locker, _queues_locker) is one wait for both.  *)
(***************************************************************************)
EXTENDS Integers

CONSTANTS
  Thread,      \* the threads that call the node
  Queue,       \* the queue names in use
  Tag,         \* tags of subscriptions and of publications
  NoTag,       \* the empty tag
  Caller,      \* the ids that create queues and subscribe
  Matches,     \* the pairs <<re, tag>> with std::regex_match(tag, re)
  MaxClients,  \* bound: connections accepted in a behaviour
  MaxQueues,   \* bound: no createQueue starts once this many were created
  None         \* no value: not in the map, no holder, no call

ServerID == 2147483647

ClientId == 0 .. (MaxClients - 1)

Id == ClientId \cup {ServerID}

SubscribeActions == {"Create", "Subscribe", "Unsubscribe"}

\* struct QueueListener; its SubscriptionParams keep the tag only, the queue
\* name being the key it is stored under.
QueueListener == [isowner : BOOLEAN, issubscribed : BOOLEAN, tag : Tag]

\* The arguments of a call in progress.
SubscriptionCall == [id : Id, queue : Queue, tag : Tag, action : SubscribeActions]
PublishCall      == [queue : Queue, tag : Tag]
DisconnectCall   == [client : ClientId]

ASSUME NodeAssumption ==
  /\ MaxClients \in Nat
  /\ MaxClients <= ServerID
  /\ MaxQueues \in Nat
  /\ Caller \subseteq Id
  /\ None \notin Thread
  /\ NoTag \in Tag
  /\ Matches \subseteq Tag \X Tag

VARIABLES
  users,        \* UserBase::_users: the ids known to the user base
  nextId,       \* AbstractServer::_next_id: the id of the next connection
  queues,       \* Node::_queues: the queueId of each existing queue
  nextQueueId,  \* Node::nextQueueId
  subs,         \* Node::_subscriptions: queue, then id, to QueueListener
  qlock,        \* Node::_queues_locker: its writer and its readers
  pc,           \* the next step of each thread's call, or how the last one ended
  arg,          \* the arguments of each thread's call
  todo,         \* publish: the targets of local_cpy not yet handled
  seen          \* getQueuesDescription: the subscribers collected so far

vars == <<users, nextId, queues, nextQueueId, subs, qlock, pc, arg, todo, seen>>

\* A thread outside of any call: its last one returned, or threw.
Idle              == {"idle", "throw"}
SubscriptionSteps == {"emplace", "change", "check", "insert"}
PublishSteps      == {"snapshot", "deliver"}
DescribeSteps     == {"describe", "collect"}

TypeOK ==
  /\ users \in SUBSET Id
  /\ nextId \in 0 .. MaxClients
  /\ queues \in [Queue -> Nat \cup {None}]
  /\ nextQueueId \in Nat
  /\ subs \in [Queue -> [Id -> QueueListener \cup {None}]]
  /\ qlock \in [writer : Thread \cup {None}, readers : SUBSET Thread]
  /\ pc \in [Thread -> Idle \cup SubscriptionSteps \cup PublishSteps
                         \cup {"eraseClient"} \cup DescribeSteps]
  /\ arg \in [Thread -> SubscriptionCall \cup PublishCall \cup DisconnectCall \cup {None}]
  /\ \A t \in Thread :
       /\ pc[t] \in SubscriptionSteps => arg[t] \in SubscriptionCall
       /\ pc[t] \in PublishSteps => arg[t] \in PublishCall
       /\ pc[t] = "eraseClient" => arg[t] \in DisconnectCall
  /\ todo \in [Thread -> SUBSET Id]
  /\ seen \in [Thread -> [Queue -> (SUBSET Id) \cup {None}]]

Init ==
  /\ users = {ServerID}
  /\ nextId = 0
  /\ queues = [q \in Queue |-> None]
  /\ nextQueueId = 0
  /\ subs = [q \in Queue |-> [id \in Id |-> None]]
  /\ qlock = [writer |-> None, readers |-> {}]
  /\ pc = [t \in Thread |-> "idle"]
  /\ arg = [t \in Thread |-> None]
  /\ todo = [t \in Thread |-> {}]
  /\ seen = [t \in Thread |-> [q \in Queue |-> None]]

-----------------------------------------------------------------------------
(* Reading the maps. *)

queueIsExists(q) == queues[q] # None

Listens(q, id) == subs[q][id] # None

Listeners(q) == {id \in Id : Listens(q, id)}

\* SubscriptionParams::checkTag: the empty tag takes every message.
checkTag(re, tag) == re = NoTag \/ <<re, tag>> \in Matches

\* Mutant: every listener receives messages.
EveryListener(l) == TRUE

\* An owner receives messages only if it also subscribed.
Receives(l) == ~l.isowner \/ l.issubscribed

\* The listeners of queue q for which publish calls the handler.
Targets(q, tag) ==
  {id \in Listeners(q) : Receives(subs[q][id]) /\ checkTag(subs[q][id].tag, tag)}

(* The lock. *)

\* Mutant: a writer does not wait for the readers.
IgnoreReaders == qlock.writer = None

QueuesFree == qlock.writer = None /\ qlock.readers = {}

LockQueues(t)   == qlock' = [qlock EXCEPT !.writer = t]
UnlockQueues    == qlock' = [qlock EXCEPT !.writer = None]
LockShared(t)   == qlock' = [qlock EXCEPT !.readers = @ \cup {t}]
UnlockShared(t) == qlock' = [qlock EXCEPT !.readers = @ \ {t}]

(* Control. *)

clients == <<users, nextId>>
store   == <<queues, nextQueueId, subs>>
local   == <<todo, seen>>

\* Thread t enters a call with arguments a.
Enter(t, step, a) ==
  /\ pc[t] \in Idle
  /\ pc' = [pc EXCEPT ![t] = step]
  /\ arg' = [arg EXCEPT ![t] = a]

Goto(t, step) == pc' = [pc EXCEPT ![t] = step] /\ UNCHANGED arg

\* The call of t returns ("idle"), or its exception leaves the node ("throw").
Leave(t, how) ==
  /\ how \in Idle
  /\ pc' = [pc EXCEPT ![t] = how]
  /\ arg' = [arg EXCEPT ![t] = None]

\* A call may be made for the server at any time, by any thread.  A client has
\* one message handled at a time, the next read starting when the handler is
\* done, but its handler may run while another thread closes the connection:
\* the id need not be a user any more.
MayCall(id) ==
  \/ id = ServerID
  \/ id < nextId /\ \A t \in Thread : pc[t] \in SubscriptionSteps => arg[t].id # id

-----------------------------------------------------------------------------
(* Server::onNewConnection: the user is appended under a fresh id. *)

\* Mutant: the id is incremented before the user is appended.
AppendAfterIncrement ==
  /\ nextId < MaxClients
  /\ users' = users \cup {nextId + 1}
  /\ nextId' = nextId + 1
  /\ UNCHANGED <<store, qlock, pc, arg, local>>

onNewConnection ==
  /\ nextId < MaxClients
  /\ users' = users \cup {nextId}
  /\ nextId' = nextId + 1
  /\ UNCHANGED <<store, qlock, pc, arg, local>>

-----------------------------------------------------------------------------
(* createQueue *)

\* The owner is looked up before the lock is taken.
createQueue(t, id, q) ==
  /\ MayCall(id)
  /\ nextQueueId < MaxQueues
  /\ IF id \in users
       THEN Enter(t, "emplace", [id |-> id, queue |-> q, tag |-> NoTag, action |-> "Create"])
       ELSE Enter(t, "throw", None)
  /\ UNCHANGED <<clients, store, qlock, local>>

\* Mutant: createQueue calls changeSubscription, which takes the lock again.
CreateRelocks(t) ==
  /\ pc[t] = "emplace"
  /\ QueuesFree
  /\ queues' = [queues EXCEPT ![arg[t].queue] = nextQueueId]
  /\ nextQueueId' = nextQueueId + 1
  /\ LockQueues(t)
  /\ Goto(t, "change")
  /\ UNCHANGED <<clients, subs, local>>

\* Mutant: the caller becomes the owner of a queue that already exists.
CreateTakesOver(t) ==
  /\ pc[t] = "emplace"
  /\ QueuesFree
  /\ queues' = [queues EXCEPT ![arg[t].queue] = nextQueueId]
  /\ nextQueueId' = nextQueueId + 1
  /\ LockQueues(t)
  /\ Goto(t, "check")
  /\ UNCHANGED <<clients, subs, local>>

\* Under the lock: a new queue is emplaced before its owner is recorded, by
\* changeSubscription_impl, still under the lock; of an existing queue only
\* the settings are assigned, and they are its name.
CreateEmplace(t) ==
  /\ pc[t] = "emplace"
  /\ QueuesFree
  /\ \/ /\ queueIsExists(arg[t].queue)
        /\ Leave(t, "idle")
        /\ UNCHANGED <<queues, nextQueueId, qlock>>
     \/ /\ ~queueIsExists(arg[t].queue)
        /\ queues' = [queues EXCEPT ![arg[t].queue] = nextQueueId]
        /\ nextQueueId' = nextQueueId + 1
        /\ LockQueues(t)
        /\ Goto(t, "check")
  /\ UNCHANGED <<clients, subs, local>>

-----------------------------------------------------------------------------
(* changeSubscription and changeSubscription_impl *)

changeSubscription(t, action, id, q, tag) ==
  /\ MayCall(id)
  /\ Enter(t, "change", [id |-> id, queue |-> q, tag |-> tag, action |-> action])
  /\ UNCHANGED <<clients, store, qlock, local>>

\* A queue that does not exist stops an Unsubscribe only: a Subscribe is
\* logged as fatal and carried out.
ChangeLock(t) ==
  /\ pc[t] = "change"
  /\ QueuesFree
  /\ IF ~queueIsExists(arg[t].queue) /\ arg[t].action = "Unsubscribe"
       THEN Leave(t, "idle") /\ UNCHANGED qlock
       ELSE Goto(t, "check") /\ LockQueues(t)
  /\ UNCHANGED <<clients, store, local>>

\* Mutant: the client is not looked up again under the lock.
CheckNothing(t) ==
  /\ pc[t] = "check"
  /\ Goto(t, "insert")
  /\ UNCHANGED <<clients, store, qlock, local>>

CheckClient(t) ==
  /\ pc[t] = "check"
  /\ IF arg[t].id \in users
       THEN Goto(t, "insert") /\ UNCHANGED qlock
       ELSE Leave(t, "throw") /\ UnlockQueues
  /\ UNCHANGED <<clients, store, local>>

\* Mutant: subscribing leaves the flag of an existing listener alone.
ChangedTagOnly(l, c) ==
  CASE c.action = "Unsubscribe" -> None
    [] c.action # "Unsubscribe" /\ l = None ->
         [isowner |-> c.action = "Create", issubscribed |-> FALSE, tag |-> c.tag]
    [] c.action # "Unsubscribe" /\ l # None -> [l EXCEPT !.tag = c.tag]

\* What becomes of the caller's listener l in call c.
Changed(l, c) ==
  CASE c.action = "Unsubscribe" -> None
    [] c.action # "Unsubscribe" /\ l = None ->
         [isowner |-> c.action = "Create", issubscribed |-> FALSE, tag |-> c.tag]
    [] c.action = "Subscribe" /\ l # None ->
         [l EXCEPT !.issubscribed = TRUE, !.tag = c.tag]
    [] c.action = "Create" /\ l # None -> l

InsertListener(t) ==
  /\ pc[t] = "insert"
  /\ subs' = [subs EXCEPT ![arg[t].queue][arg[t].id] = Changed(@, arg[t])]
  /\ UnlockQueues
  /\ Leave(t, "idle")
  /\ UNCHANGED <<clients, queues, nextQueueId, local>>

-----------------------------------------------------------------------------
(* Server::onDisconnect: UserBase::erase, then Node::eraseClient *)

\* ClientConnection::close lets one caller through for each connection, so
\* the user is there and UserBase::erase does not throw.
onDisconnect(t, id) ==
  /\ id \in users
  /\ users' = users \ {id}
  /\ Enter(t, "eraseClient", [client |-> id])
  /\ UNCHANGED <<nextId, store, qlock, local>>

\* Mutant: a queue goes with its owner.
RemovedWithOwner(q, id) == \A other \in Listeners(q) \ {id} : ~subs[q][other].isowner

\* must_be_removed, of a queue client id listens to.
MustBeRemoved(q, id) ==
  LET rest == Listeners(q) \ {id}
  IN  \/ rest = {}
      \/ ServerID \in rest /\ ~subs[q][ServerID].isowner

\* Both locks are held: the client leaves every queue, and the queues that
\* must be removed go.  The listeners they still have stay in subs.
EraseClient(t) ==
  LET id == arg[t].client
  IN  /\ pc[t] = "eraseClient"
      /\ QueuesFree
      /\ subs' = [q \in Queue |-> [subs[q] EXCEPT ![id] = None]]
      /\ queues' = [q \in Queue |->
                      IF Listens(q, id) /\ MustBeRemoved(q, id) THEN None ELSE queues[q]]
      /\ Leave(t, "idle")
      /\ UNCHANGED <<clients, nextQueueId, qlock, local>>

-----------------------------------------------------------------------------
(* publish *)

\* The author is looked up for the log only, and _queues is read without its
\* lock.
publish(t, q, tag) ==
  /\ IF queueIsExists(q)
       THEN Enter(t, "snapshot", [queue |-> q, tag |-> tag])
       ELSE Enter(t, "idle", None)
  /\ UNCHANGED <<clients, store, qlock, local>>

\* local_cpy = _subscriptions[queueName].  The copy does not change any more,
\* so the targets are settled here.
PublishSnapshot(t) ==
  /\ pc[t] = "snapshot"
  /\ todo' = [todo EXCEPT ![t] = Targets(arg[t].queue, arg[t].tag)]
  /\ Goto(t, "deliver")
  /\ UNCHANGED <<clients, store, qlock, seen>>

\* The handler is called for the targets in the order of their ids, with no
\* lock held.
Deliver(t) ==
  /\ pc[t] = "deliver"
  /\ \E id \in todo[t] :
       /\ \A other \in todo[t] : id <= other
       /\ todo' = [todo EXCEPT ![t] = @ \ {id}]
  /\ UNCHANGED <<clients, store, qlock, pc, arg, seen>>

\* The handler throws, AbstractServer::sendTo finding no such connection: the
\* targets that are left get nothing.
DeliverThrows(t) ==
  /\ pc[t] = "deliver"
  /\ todo[t] # {}
  /\ todo' = [todo EXCEPT ![t] = {}]
  /\ Leave(t, "throw")
  /\ UNCHANGED <<clients, store, qlock, seen>>

PublishDone(t) ==
  /\ pc[t] = "deliver"
  /\ todo[t] = {}
  /\ Leave(t, "idle")
  /\ UNCHANGED <<clients, store, qlock, local>>

-----------------------------------------------------------------------------
(* getQueuesDescription *)

getQueuesDescription(t) ==
  /\ Enter(t, "describe", None)
  /\ UNCHANGED <<clients, store, qlock, local>>

DescribeLock(t) ==
  /\ pc[t] = "describe"
  /\ qlock.writer = None
  /\ LockShared(t)
  /\ Goto(t, "collect")
  /\ UNCHANGED <<clients, store, local>>

DescribeQueue(t, q) ==
  /\ pc[t] = "collect"
  /\ queueIsExists(q)
  /\ seen[t][q] = None
  /\ seen' = [seen EXCEPT ![t][q] = Listeners(q)]
  /\ UNCHANGED <<clients, store, qlock, pc, arg, todo>>

DescribeDone(t) ==
  /\ pc[t] = "collect"
  /\ \A q \in Queue : queueIsExists(q) => seen[t][q] # None
  /\ seen' = [seen EXCEPT ![t] = [q \in Queue |-> None]]
  /\ UnlockShared(t)
  /\ Leave(t, "idle")
  /\ UNCHANGED <<clients, store, todo>>

-----------------------------------------------------------------------------
\* A thread starts a call.
Call(t) ==
  \/ \E id \in Caller, q \in Queue : createQueue(t, id, q)
  \/ \E id \in Caller, q \in Queue, tag \in Tag : changeSubscription(t, "Subscribe", id, q, tag)
  \/ \E id \in Caller, q \in Queue : changeSubscription(t, "Unsubscribe", id, q, NoTag)
  \/ \E id \in ClientId : onDisconnect(t, id)
  \/ \E q \in Queue, tag \in Tag : publish(t, q, tag)
  \/ getQueuesDescription(t)

\* A thread goes on with the call it is in.
Step(t) ==
  \/ CreateEmplace(t)
  \/ ChangeLock(t)
  \/ CheckClient(t)
  \/ InsertListener(t)
  \/ EraseClient(t)
  \/ PublishSnapshot(t)
  \/ Deliver(t)
  \/ DeliverThrows(t)
  \/ PublishDone(t)
  \/ DescribeLock(t)
  \/ \E q \in Queue : DescribeQueue(t, q)
  \/ DescribeDone(t)

Next ==
  \/ \E t \in Thread : Call(t) \/ Step(t)
  \/ onNewConnection

Spec == Init /\ [][Next]_vars

-----------------------------------------------------------------------------
\* A client that has left the user base and is still to leave the queues.
BeingErased(id) == \E t \in Thread : pc[t] = "eraseClient" /\ arg[t].client = id

\* No listener is left behind by a client that is gone: whoever listens to a
\* queue is a user, or is a client whose eraseClient is still to come.  It is
\* what the second look-up of the client in changeSubscription_impl, made
\* under _queues_locker, and the order of Server::onDisconnect are for.
NoGhostListener ==
  \A q \in Queue, id \in Id : Listens(q, id) => id \in users \/ BeingErased(id)

\* getQueuesDescription is atomic although it takes _subscriptions_locker
\* anew for each queue: what it has collected stays true until it returns.
DescriptionIsSnapshot ==
  \A t \in Thread, q \in Queue :
    pc[t] = "collect" /\ seen[t][q] # None =>
      queueIsExists(q) /\ seen[t][q] = Listeners(q)

\* What makes the two inductive.  The lock is held by the threads at the steps
\* it protects, and by nobody else.
LockInv ==
  /\ \A t \in Thread : pc[t] \in {"check", "insert"} <=> qlock.writer = t
  /\ \A t \in Thread : pc[t] = "collect" <=> t \in qlock.readers
  /\ qlock.writer # None => qlock.readers = {}

\* A client found by changeSubscription_impl may leave the user base before its
\* listener is inserted, but then eraseClient is still to come.
GhostInv ==
  /\ \A t \in Thread : pc[t] = "insert" => arg[t].id \in users \/ BeingErased(arg[t].id)
  /\ NoGhostListener

\* A description starts from nothing.
SnapshotInv ==
  /\ \A t \in Thread, q \in Queue : pc[t] # "collect" => seen[t][q] = None
  /\ DescriptionIsSnapshot

\* No call of the node waits for ever: whatever the other threads do, each
\* one returns or throws.  _queues_locker is not recursive, createQueue calls
\* changeSubscription_impl with it held, and eraseClient needs both locks.
EveryCallEnds == \A t \in Thread : pc[t] \notin Idle ~> pc[t] \in Idle

\* "if only server subscription, and server not a owner of a queue.", says
\* Node::eraseClient: a queue is removed only when no client listens to it.
RemovedOnlyIfUnused ==
  [][\A q \in Queue : queueIsExists(q) /\ ~queueIsExists(q)'
       => \A id \in ClientId : ~Listens(q, id)']_vars

=============================================================================
