--------------------------- MODULE EventHandlers ---------------------------
(***************************************************************************)
(* The table of consumers of a dqueue::Client (IQueueClient, in            *)
(* libdqueue/iqueue_client.h): threads of the application subscribe and    *)
(* remove consumers while the io thread calls them.                        *)
(*                                                                         *)
(* Locks.  Client::_locker is the variable locker.  _eventHandlers_locker  *)
(* is held across steps by the io thread only, shared, from the beginning  *)
(* of callConsumer to its end, that is, while io # "idle"; whoever takes   *)
(* it exclusively does all its work in one step.                           *)
(***************************************************************************)
EXTENDS Naturals, FiniteSets

CONSTANTS
  Thread,        \* the application's threads
  Handler,       \* the application's EventConsumers
  Queue,         \* queue names
  Tag,           \* tags of subscriptions and of messages
  NoTag,         \* the empty tag
  Matches,       \* the pairs <<re, tag>> with std::regex_match(tag, re)
  Subscriptions, \* the subscribe calls made: [handler, queue, tag]
  MayRemove,     \* TRUE: the application calls rmHandler
  Publishes,     \* TRUE: the consumers publish, as in the README
  MaxEvents,     \* bound: calls of the application and messages received
  None           \* nullptr, no entry, EventConsumer::DefaultId

ASSUME HandlersAssumption ==
  /\ IsFiniteSet(Handler)
  /\ Subscriptions \subseteq [handler : Handler \cup {None}, queue : Queue, tag : Tag]
  /\ NoTag \in Tag
  /\ MayRemove \in BOOLEAN
  /\ Publishes \in BOOLEAN
  /\ MaxEvents \in Nat
  /\ None \notin Thread \cup Handler \cup Tag \cup Nat

\* A consumer is given an id once, so there are no more ids than consumers.
Id == 0 .. (Cardinality(Handler) - 1)

\* A value of _eventHandlers: the consumer and the tag of its subscription.
Entry == [handler : Handler \cup {None}, tag : Tag]

\* What the application has subscribed a consumer to.
Subscription == [queues : SUBSET Queue, tag : Tag \cup {None}]

ASSUME NoneIsNoEntry == None \notin Entry

ASSUME NoneIsNoMessage == None \notin [queue : Queue, tag : Tag]

VARIABLES
  nextConsumersId, \* _nextConsumersId
  consumerId,      \* EventConsumer::_consumerId of each consumer
  eventHandlers,   \* _eventHandlers: id to Entry
  queue2handler,   \* _queue2handler: queue to ids
  locker,          \* Client::_locker: the thread that holds it
  pc,              \* the next step of each thread's subscribe
  arg,             \* its arguments
  io,              \* what the io thread does
  msg,             \* callConsumer: the message
  todo,            \* callConsumer: the ids left of it->second
  called,          \* history: the consumers called for this message
  subscribed,      \* history: the queues and the last tag of each consumer
  removed,         \* history: the consumers rmHandler has removed
  events           \* calls and messages so far

table == <<nextConsumersId, consumerId, eventHandlers, queue2handler, subscribed, removed>>
call  == <<io, msg, todo, called>>
vars  == <<table, locker, pc, arg, call, events>>

TypeOK ==
  /\ nextConsumersId \in 0 .. Cardinality(Handler)
  /\ consumerId \in [Handler -> Id \cup {None}]
  /\ eventHandlers \in [Id -> Entry \cup {None}]
  /\ queue2handler \in [Queue -> SUBSET Id]
  /\ locker \in Thread \cup {None}
  /\ pc \in [Thread -> {"idle", "lock", "add"}]
  /\ arg \in [Thread -> Subscriptions \cup {None}]
  /\ \A t \in Thread : pc[t] # "idle" => arg[t] \in Subscriptions
  /\ io \in {"idle", "next", "consume", "crash"}
  /\ msg \in [queue : Queue, tag : Tag] \cup {None}
  /\ todo \in SUBSET Id
  /\ called \in SUBSET Handler
  /\ subscribed \in [Handler -> Subscription]
  /\ removed \in SUBSET Handler
  /\ events \in 0 .. MaxEvents

Init ==
  /\ nextConsumersId = 0
  /\ consumerId = [h \in Handler |-> None]
  /\ eventHandlers = [id \in Id |-> None]
  /\ queue2handler = [q \in Queue |-> {}]
  /\ locker = None
  /\ pc = [t \in Thread |-> "idle"]
  /\ arg = [t \in Thread |-> None]
  /\ io = "idle" /\ msg = None /\ todo = {} /\ called = {}
  /\ subscribed = [h \in Handler |-> [queues |-> {}, tag |-> None]]
  /\ removed = {}
  /\ events = 0

Count == events < MaxEvents /\ events' = events + 1

checkTag(re, tag) == re = NoTag \/ <<re, tag>> \in Matches

-----------------------------------------------------------------------------
(* The application's threads. *)

\* Client::subscribe is called.
subscribe(t, s) ==
  /\ Count
  /\ io # "crash"
  /\ pc[t] = "idle"
  /\ pc' = [pc EXCEPT ![t] = "lock"]
  /\ arg' = [arg EXCEPT ![t] = s]
  /\ UNCHANGED <<table, locker, call>>

LockClient(t) ==
  /\ pc[t] = "lock"
  /\ locker = None
  /\ locker' = t
  /\ pc' = [pc EXCEPT ![t] = "add"]
  /\ UNCHANGED <<table, arg, call, events>>

\* What a consumer is subscribed to after one more subscription.
Subscribed(was, s) == [queues |-> was.queues \cup {s.queue}, tag |-> s.tag]

\* Mutant of Insert: a consumer that is known stays with its queues.
InsertNew(h, s, id) ==
  /\ eventHandlers' = [eventHandlers EXCEPT ![id] = [handler |-> h, tag |-> s.tag]]
  /\ queue2handler' = IF consumerId[h] = None
                        THEN [queue2handler EXCEPT ![s.queue] = @ \cup {id}]
                        ELSE queue2handler
  /\ subscribed' = [subscribed EXCEPT ![h] = Subscribed(@, s)]

\* The entry of consumer h, whose tag is that of the last subscription, and
\* one more queue for it.
Insert(h, s, id) ==
  /\ eventHandlers' = [eventHandlers EXCEPT ![id] = [handler |-> h, tag |-> s.tag]]
  /\ queue2handler' = [queue2handler EXCEPT ![s.queue] = @ \cup {id}]
  /\ subscribed' = [subscribed EXCEPT ![h] = Subscribed(@, s)]

\* The consumer has no id yet.
AddNew(h, s) ==
  /\ consumerId[h] = None
  /\ consumerId' = [consumerId EXCEPT ![h] = nextConsumersId]
  /\ nextConsumersId' = nextConsumersId + 1
  /\ Insert(h, s, nextConsumersId)
  /\ UNCHANGED removed

\* Mutant of AddKnown: a known consumer gets another id.
AddAgain(h, s) ==
  /\ consumerId[h] # None
  /\ eventHandlers[consumerId[h]] # None
  /\ consumerId' = [consumerId EXCEPT ![h] = nextConsumersId]
  /\ nextConsumersId' = nextConsumersId + 1
  /\ Insert(h, s, nextConsumersId)
  /\ UNCHANGED removed

AddKnown(h, s) ==
  /\ consumerId[h] # None
  /\ eventHandlers[consumerId[h]] # None
  /\ Insert(h, s, consumerId[h])
  /\ UNCHANGED <<consumerId, nextConsumersId, removed>>

\* "Reuse of the handler": the exception leaves subscribe.
AddThrows(h) ==
  /\ consumerId[h] # None
  /\ eventHandlers[consumerId[h]] = None
  /\ UNCHANGED table

\* addHandler, then the message to the server and the end of the lock's scope.
addHandler(t) ==
  LET s == arg[t]
      h == s.handler
  IN  /\ pc[t] = "add"
      /\ \/ h = None /\ UNCHANGED table
         \/ /\ h # None
            /\ io = "idle"
            /\ AddNew(h, s) \/ AddKnown(h, s) \/ AddThrows(h)
      /\ locker' = None
      /\ pc' = [pc EXCEPT ![t] = "idle"]
      /\ arg' = [arg EXCEPT ![t] = None]
      /\ UNCHANGED <<call, events>>

\* Mutant of rmHandler: without _eventHandlers_locker.
RemoveUnlocked(t, h) ==
  /\ Count
  /\ MayRemove
  /\ pc[t] = "idle"
  /\ consumerId[h] # None
  /\ eventHandlers' = [eventHandlers EXCEPT ![consumerId[h]] = None]
  /\ removed' = removed \cup {h}
  /\ UNCHANGED <<nextConsumersId, consumerId, queue2handler, subscribed, locker, pc, arg, call>>

\* The id stays in _queue2handler.  For a consumer without an id, nothing.
rmHandler(t, h) ==
  /\ Count
  /\ MayRemove
  /\ pc[t] = "idle"
  /\ io = "idle"
  /\ consumerId[h] # None
  /\ eventHandlers' = [eventHandlers EXCEPT ![consumerId[h]] = None]
  /\ removed' = removed \cup {h}
  /\ UNCHANGED <<nextConsumersId, consumerId, queue2handler, subscribed, locker, pc, arg, call>>

-----------------------------------------------------------------------------
(* The io thread: a PUBLISH from the server. *)

callConsumer(m) ==
  /\ Count
  /\ io = "idle"
  /\ io' = "next"
  /\ msg' = m
  /\ todo' = queue2handler[m.queue]
  /\ called' = {}
  /\ UNCHANGED <<table, locker, pc, arg>>

\* The ids come in order.  operator[] makes an entry for an id that has none,
\* and the empty tag of that entry takes every message: a call through nullptr.
NextConsumer(id) ==
  LET es == IF eventHandlers[id] = None THEN [handler |-> None, tag |-> NoTag]
                                        ELSE eventHandlers[id]
  IN  /\ io = "next"
      /\ id \in todo /\ \A other \in todo : id <= other
      /\ todo' = todo \ {id}
      /\ eventHandlers' = [eventHandlers EXCEPT ![id] = es]
      /\ \/ /\ ~checkTag(es.tag, msg.tag)
            /\ UNCHANGED <<io, called>>
         \/ /\ checkTag(es.tag, msg.tag) /\ es.handler # None
            /\ io' = "consume" /\ called' = called \cup {es.handler}
         \/ /\ checkTag(es.tag, msg.tag) /\ es.handler = None
            /\ io' = "crash" /\ UNCHANGED called
      /\ UNCHANGED <<nextConsumersId, consumerId, queue2handler, subscribed, removed, locker,
                     pc, arg, msg, events>>

\* Mutant of consume: the consumer needs _locker whatever it does.
ConsumeLocked ==
  /\ io = "consume"
  /\ locker = None
  /\ io' = "next"
  /\ UNCHANGED <<table, locker, pc, arg, msg, todo, called, events>>

\* A consumer that publishes takes _locker for it.
consume ==
  /\ io = "consume"
  /\ Publishes => locker = None
  /\ io' = "next"
  /\ UNCHANGED <<table, locker, pc, arg, msg, todo, called, events>>

CallDone ==
  /\ io = "next"
  /\ todo = {}
  /\ io' = "idle" /\ msg' = None /\ called' = {}
  /\ UNCHANGED <<table, locker, pc, arg, todo, events>>

IoNext == (\E id \in Id : NextConsumer(id)) \/ consume \/ CallDone

Next ==
  \/ \E t \in Thread, s \in Subscriptions : subscribe(t, s)
  \/ \E t \in Thread : LockClient(t) \/ addHandler(t)
  \/ \E t \in Thread, h \in Handler : rmHandler(t, h)
  \/ \E m \in [queue : Queue, tag : Tag] : callConsumer(m)
  \/ IoNext

Spec == Init /\ [][Next]_vars

\* A thread that can go on does.  The locks promise a waiting thread nothing
\* while others keep coming, but what comes is bounded.
FairSpec ==
  /\ Spec
  /\ WF_vars(IoNext)
  /\ \A t \in Thread : WF_vars(LockClient(t)) /\ WF_vars(addHandler(t))

-----------------------------------------------------------------------------
\* Once rmHandler has returned, its consumer is not running and is never called
\* again, so that the application may delete it: rmHandler waits for the
\* consumers of the message being handled.
RemovedNotCalled == io \in {"next", "consume"} => called \cap removed = {}

\* The consumers with an id.
Registered == {h \in Handler : consumerId[h] # None}

\* What makes it inductive: ids are given out once and an entry belongs to the
\* consumer with its id; a removed consumer has none.  An entry without a
\* consumer is there only when it has been called.
TableInv ==
  /\ nextConsumersId = Cardinality(Registered)
  /\ removed \subseteq Registered
  /\ \A h \in Handler : consumerId[h] # None => consumerId[h] < nextConsumersId
  /\ \A g, h \in Handler : consumerId[g] = consumerId[h] /\ consumerId[g] # None => g = h
  /\ \A id \in Id : eventHandlers[id] # None =>
       \/ eventHandlers[id].handler = None /\ io = "crash"
       \/ /\ eventHandlers[id].handler \in Handler \ removed
          /\ consumerId[eventHandlers[id].handler] = id
  /\ io = "idle" => called = {}

\* The consumers a message is for.  A consumer has one tag, that of its last
\* subscription to whichever queue.
Due(m) == {h \in Handler \ removed : /\ m.queue \in subscribed[h].queues
                                     /\ checkTag(subscribed[h].tag, m.tag)}

\* "called when somebody publish to queue data with tag=client", says the README
\* of consume: each message reaches all consumers subscribed to its queue whose
\* tag takes it, and no other, however they were subscribed, subscribed again
\* with another tag or to another queue, and removed before.
CalledWhenDue == io = "next" /\ todo = {} => called = Due(msg)

\* A call of subscribe gets its two locks and returns, or throws, unless the
\* process has come to its end.
SubscribeReturns ==
  \A t \in Thread : pc[t] # "idle" ~> pc[t] = "idle" \/ io = "crash"

\* "publish message with tag=client", does the consume of the README's client:
\* a consumer that publishes returns.
ConsumeReturns == io = "consume" ~> io # "consume"

=============================================================================
