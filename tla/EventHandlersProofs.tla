------------------------ MODULE EventHandlersProofs ------------------------
(***************************************************************************)
(* Proofs about module EventHandlers, for any threads, consumers, queues   *)
(* and tags, and any subscriptions: a consumer that rmHandler has removed  *)
(* is not called, and a message reaches the consumers it is for.           *)
(***************************************************************************)
EXTENDS EventHandlers, FiniteSetTheorems, TLAPS

\* The prover of a step that names none.
USE ZenonT(30)

\* The types of the table alone.
TableType ==
  /\ nextConsumersId \in 0 .. Cardinality(Handler)
  /\ consumerId \in [Handler -> Id \cup {None}]
  /\ eventHandlers \in [Id -> Entry \cup {None}]
  /\ queue2handler \in [Queue -> SUBSET Id]
  /\ subscribed \in [Handler -> Subscription]
  /\ removed \in SUBSET Handler

\* nullptr and DefaultId are neither an id nor an entry.
LEMMA NoneIsNoId == None \notin Id
<1>1. Cardinality(Handler) \in Nat
  BY FS_CardinalityType, HandlersAssumption
<1>2. Id \subseteq Nat
  BY <1>1, SMTT(30) DEF Id
<1>3. QED
  BY <1>2, HandlersAssumption

\* The id a new consumer gets is one of as many ids as there are consumers:
\* EventConsumer::setId is called once for each of them.
LEMMA FreshId ==
  ASSUME TableType, TableInv, NEW h \in Handler, consumerId[h] = None
  PROVE  /\ nextConsumersId \in Id
         /\ nextConsumersId + 1 \in 0 .. Cardinality(Handler)
         /\ Cardinality(Registered \cup {h}) = nextConsumersId + 1
<1>1. IsFiniteSet(Handler) /\ Registered \cup {h} \subseteq Handler /\ h \notin Registered
  BY HandlersAssumption DEF Registered
<1>2. IsFiniteSet(Registered)
  BY <1>1, FS_Subset DEF Registered
<1>3. Cardinality(Registered \cup {h}) = nextConsumersId + 1
  BY <1>1, <1>2, FS_AddElement DEF TableInv
<1>4. Cardinality(Registered \cup {h}) <= Cardinality(Handler)
  BY <1>1, FS_Subset
<1>5. Cardinality(Handler) \in Nat /\ nextConsumersId \in Nat
  BY <1>1, FS_CardinalityType, SMTT(30) DEF TableType
<1>6. QED
  BY <1>3, <1>4, <1>5, SMTT(30) DEF Id

LEMMA SubscribedType ==
  ASSUME NEW was \in Subscription, NEW s, s.queue \in Queue, s.tag \in Tag
  PROVE  /\ Subscribed(was, s) \in Subscription
         /\ Subscribed(was, s).queues = was.queues \cup {s.queue}
         /\ Subscribed(was, s).tag = s.tag
BY SMTT(30) DEF Subscription, Subscribed

\* A new consumer gets a new id and its entry.
LEMMA AddNewStep ==
  ASSUME TableType, TableInv, io = "idle", UNCHANGED call,
         NEW h \in Handler, NEW s \in Subscriptions, AddNew(h, s)
  PROVE  TableType' /\ TableInv'
<1> DEFINE id == nextConsumersId
<1>1. /\ id \in Id /\ id + 1 \in 0 .. Cardinality(Handler)
      /\ Cardinality(Registered \cup {h}) = id + 1
  BY FreshId DEF AddNew
<1>2. /\ consumerId[h] = None
      /\ consumerId' = [consumerId EXCEPT ![h] = id]
      /\ nextConsumersId' = id + 1
      /\ eventHandlers' = [eventHandlers EXCEPT ![id] = [handler |-> h, tag |-> s.tag]]
      /\ queue2handler' = [queue2handler EXCEPT ![s.queue] = @ \cup {id}]
      /\ subscribed' = [subscribed EXCEPT ![h] = Subscribed(@, s)]
      /\ removed' = removed
      /\ io' = "idle" /\ called' = called
  BY DEF AddNew, Insert, call
<1>3. s.queue \in Queue /\ s.tag \in Tag
  BY HandlersAssumption
<1>4. TableType'
  <2>1. [handler |-> h, tag |-> s.tag] \in Entry
    BY <1>3 DEF Entry
  <2>2. Subscribed(subscribed[h], s) \in Subscription
    BY <1>3, SubscribedType DEF TableType
  <2>3. QED
    BY <1>1, <1>2, <1>3, <2>1, <2>2 DEF TableType
<1>5. Registered' = Registered \cup {h}
  BY <1>1, <1>2, NoneIsNoId DEF Registered, TableType
<1>6. Id \subseteq Int /\ id \in Int
  BY <1>1, FS_CardinalityType, HandlersAssumption, SMTT(30) DEF Id
<1>7. \A g \in Handler : consumerId[g] # None => consumerId[g] < id /\ consumerId[g] \in Id
  BY DEF TableInv, TableType
<1>8. \A g \in Handler : consumerId'[g] = IF g = h THEN id ELSE consumerId[g]
  BY <1>2 DEF TableType
<1>9. \A g \in Handler : consumerId'[g] # None => consumerId'[g] < id + 1
  <2>1. \A g \in Handler : consumerId'[g] # None =>
           consumerId'[g] = id \/ (consumerId'[g] \in Int /\ consumerId'[g] < id)
    BY <1>6, <1>7, <1>8
  <2>2. QED
    BY <1>6, <2>1, SMTT(30)
<1>10. \A g, k \in Handler : consumerId'[g] = consumerId'[k] /\ consumerId'[g] # None => g = k
  BY <1>6, <1>7, <1>8, SMTT(30) DEF TableInv
<1>11. h \notin removed
  BY <1>2 DEF TableInv, Registered
<1>12. ASSUME NEW i \in Id, eventHandlers'[i] # None
       PROVE  /\ eventHandlers'[i].handler \in Handler \ removed'
              /\ consumerId'[eventHandlers'[i].handler] = i
  <2>1. CASE i = id
    BY <1>1, <1>2, <1>8, <1>11, <2>1 DEF TableType
  <2>2. CASE i # id
    <3>1. eventHandlers'[i] = eventHandlers[i]
      BY <1>2, <2>2 DEF TableType
    <3>2. /\ eventHandlers[i].handler \in Handler \ removed
          /\ consumerId[eventHandlers[i].handler] = i
      BY <1>12, <3>1 DEF TableInv
    <3>3. eventHandlers[i].handler # h
      BY <1>2, <3>2, NoneIsNoId
    <3>4. QED
      BY <1>2, <1>8, <3>1, <3>2, <3>3
  <2>3. QED
    BY <2>1, <2>2
<1>13. QED
  BY <1>1, <1>2, <1>4, <1>5, <1>9, <1>10, <1>12, SMTT(30) DEF TableInv

\* A known consumer keeps its id; it has an entry, so that it was not removed.
LEMMA AddKnownStep ==
  ASSUME TableType, TableInv, io = "idle", UNCHANGED call,
         NEW h \in Handler, NEW s \in Subscriptions, AddKnown(h, s)
  PROVE  TableType' /\ TableInv'
<1> DEFINE id == consumerId[h]
<1>1. /\ id # None /\ eventHandlers[id] # None
      /\ UNCHANGED <<consumerId, nextConsumersId, removed>>
      /\ eventHandlers' = [eventHandlers EXCEPT ![id] = [handler |-> h, tag |-> s.tag]]
      /\ queue2handler' = [queue2handler EXCEPT ![s.queue] = @ \cup {id}]
      /\ subscribed' = [subscribed EXCEPT ![h] = Subscribed(@, s)]
      /\ io' = "idle" /\ called' = called
  BY DEF AddKnown, Insert, call
<1>2. s.queue \in Queue /\ s.tag \in Tag /\ id \in Id
  BY <1>1, HandlersAssumption DEF TableType
<1>3. TableType'
  <2>1. [handler |-> h, tag |-> s.tag] \in Entry
    BY <1>2 DEF Entry
  <2>2. Subscribed(subscribed[h], s) \in Subscription
    BY <1>2, SubscribedType DEF TableType
  <2>3. QED
    BY <1>1, <1>2, <2>1, <2>2 DEF TableType
<1>4. h \notin removed
  <2>1. /\ eventHandlers[id].handler \in Handler \ removed
        /\ consumerId[eventHandlers[id].handler] = id
    BY <1>1, <1>2 DEF TableInv
  <2>2. QED
    BY <1>1, <2>1 DEF TableInv
<1>5. ASSUME NEW i \in Id, eventHandlers'[i] # None
      PROVE  /\ eventHandlers'[i].handler \in Handler \ removed'
             /\ consumerId'[eventHandlers'[i].handler] = i
  <2>1. CASE i = id
    BY <1>1, <1>2, <1>4, <2>1 DEF TableType
  <2>2. CASE i # id
    BY <1>1, <1>5, <2>2 DEF TableType, TableInv
  <2>3. QED
    BY <2>1, <2>2
<1>6. Registered' = Registered
  BY <1>1 DEF Registered
<1>7. QED
  BY <1>1, <1>3, <1>5, <1>6 DEF TableInv

\* rmHandler takes the only entry of its consumer, between two messages.
LEMMA RemoveStep ==
  ASSUME TypeOK, TableInv, NEW t \in Thread, NEW h \in Handler, rmHandler(t, h)
  PROVE  TypeOK' /\ TableInv' /\ RemovedNotCalled'
<1>1. /\ consumerId[h] # None /\ io = "idle"
      /\ eventHandlers' = [eventHandlers EXCEPT ![consumerId[h]] = None]
      /\ removed' = removed \cup {h}
      /\ events' \in 0 .. MaxEvents
      /\ UNCHANGED <<nextConsumersId, consumerId, queue2handler, subscribed, locker, pc, arg,
                     io, msg, todo, called>>
  BY HandlersAssumption, SMTT(30) DEF rmHandler, Count, call, TypeOK
<1>2. TypeOK'
  BY <1>1 DEF TypeOK
<1>3. Registered' = Registered /\ h \in Registered
  BY <1>1 DEF Registered
<1>4. ASSUME NEW i \in Id, eventHandlers'[i] # None
      PROVE  /\ eventHandlers'[i].handler \in Handler \ removed'
             /\ consumerId'[eventHandlers'[i].handler] = i
  <2>1. i # consumerId[h] /\ eventHandlers'[i] = eventHandlers[i]
    BY <1>1, <1>4 DEF TypeOK
  <2>2. QED
    BY <1>1, <1>4, <2>1, SMTT(30) DEF TableInv
<1>5. TableInv'
  BY <1>1, <1>3, <1>4 DEF TableInv
<1>6. QED
  BY <1>1, <1>2, <1>5 DEF RemovedNotCalled

\* callConsumer calls consumers that have an entry, and crashes where
\* operator[] makes one.
LEMMA ConsumerStep ==
  ASSUME TypeOK, TableInv, RemovedNotCalled, NEW id \in Id, NextConsumer(id)
  PROVE  TypeOK' /\ TableInv' /\ RemovedNotCalled'
<1>1. /\ io = "next" /\ todo' = todo \ {id}
      /\ UNCHANGED <<nextConsumersId, consumerId, queue2handler, subscribed, removed, locker,
                     pc, arg, msg, events>>
  BY DEF NextConsumer
<1>2. Registered' = Registered
  BY <1>1 DEF Registered
<1>3. CASE eventHandlers[id] = None
  <2>1. /\ eventHandlers' = [eventHandlers EXCEPT ![id] = [handler |-> None, tag |-> NoTag]]
        /\ io' = "crash" /\ called' = called
    BY <1>3 DEF NextConsumer, checkTag
  <2>2. [handler |-> None, tag |-> NoTag] \in Entry
    BY HandlersAssumption DEF Entry
  <2>3. TypeOK'
    BY <1>1, <2>1, <2>2 DEF TypeOK
  <2>4. \A i \in Id : i # id => eventHandlers'[i] = eventHandlers[i]
    BY <2>1 DEF TypeOK
  <2>5. eventHandlers'[id].handler = None
    BY <2>1 DEF TypeOK
  <2>6. QED
    BY <1>1, <1>2, <2>1, <2>3, <2>4, <2>5 DEF TableInv, RemovedNotCalled
<1>4. CASE eventHandlers[id] # None
  <2>1. eventHandlers' = eventHandlers
    BY <1>4 DEF NextConsumer, TypeOK
  <2>2. eventHandlers[id].handler \in Handler \ removed
    BY <1>1, <1>4 DEF TableInv
  <2>3. \/ io' = "next" /\ called' = called
        \/ io' = "consume" /\ called' = called \cup {eventHandlers[id].handler}
    BY <1>1, <1>4, <2>2, HandlersAssumption DEF NextConsumer
  <2>4. TypeOK'
    BY <1>1, <2>1, <2>2, <2>3 DEF TypeOK
  <2>5. TableInv'
    BY <1>1, <1>2, <2>1, <2>3 DEF TableInv
  <2>6. QED
    BY <1>1, <2>2, <2>3, <2>4, <2>5 DEF RemovedNotCalled
<1>5. QED
  BY <1>3, <1>4

\* Every step keeps the table in order.
LEMMA HandlersStep ==
  TypeOK /\ TableInv /\ RemovedNotCalled /\ [Next]_vars
    => TypeOK' /\ TableInv' /\ RemovedNotCalled'
<1> SUFFICES ASSUME TypeOK, TableInv, RemovedNotCalled, [Next]_vars
             PROVE  TypeOK' /\ TableInv' /\ RemovedNotCalled'
  OBVIOUS
<1>1. ASSUME UNCHANGED table, io' # "idle" \/ called' = {}, called' \in {called, {}},
             io = "crash" => io' = "crash"
      PROVE  TableInv'
  BY <1>1 DEF table, TableInv, Registered
<1>2. ASSUME NEW t \in Thread, NEW s \in Subscriptions, subscribe(t, s)
      PROVE  TypeOK' /\ TableInv' /\ RemovedNotCalled'
  <2>1. events' \in 0 .. MaxEvents
    BY <1>2, HandlersAssumption, SMTT(30) DEF subscribe, Count, TypeOK
  <2>2. QED
    BY <1>1, <1>2, <2>1 DEF subscribe, TypeOK, TableInv, RemovedNotCalled, table, call
<1>3. ASSUME NEW t \in Thread, LockClient(t)
      PROVE  TypeOK' /\ TableInv' /\ RemovedNotCalled'
  BY <1>1, <1>3 DEF LockClient, TypeOK, TableInv, RemovedNotCalled, table, call
<1>4. ASSUME NEW t \in Thread, addHandler(t)
      PROVE  TypeOK' /\ TableInv' /\ RemovedNotCalled'
  <2>1. arg[t] \in Subscriptions /\ UNCHANGED call
    BY <1>4 DEF addHandler, TypeOK
  <2>2. TableType' /\ TableInv' /\ removed' = removed
    <3>0. TableType
      BY DEF TypeOK, TableType
    <3>1. CASE UNCHANGED table
      BY <1>1, <2>1, <3>0, <3>1 DEF TableType, TableInv, table, call
    <3>2. CASE io = "idle" /\ arg[t].handler # None /\ AddNew(arg[t].handler, arg[t])
      BY <2>1, <3>0, <3>2, AddNewStep, HandlersAssumption DEF AddNew
    <3>3. CASE io = "idle" /\ arg[t].handler # None /\ AddKnown(arg[t].handler, arg[t])
      BY <2>1, <3>0, <3>3, AddKnownStep, HandlersAssumption DEF AddKnown
    <3>4. QED
      BY <1>4, <3>1, <3>2, <3>3 DEF addHandler, AddThrows
  <2>3. TypeOK'
    BY <1>4, <2>1, <2>2 DEF addHandler, TypeOK, TableType, call
  <2>4. QED
    BY <2>1, <2>2, <2>3 DEF RemovedNotCalled, call
<1>5. ASSUME NEW m \in [queue : Queue, tag : Tag], callConsumer(m)
      PROVE  TypeOK' /\ TableInv' /\ RemovedNotCalled'
  <2>1. events' \in 0 .. MaxEvents
    BY <1>5, HandlersAssumption, SMTT(30) DEF callConsumer, Count, TypeOK
  <2>2. QED
    BY <1>1, <1>5, <2>1 DEF callConsumer, TypeOK, RemovedNotCalled, table
<1>6. CASE consume
  BY <1>1, <1>6 DEF consume, TypeOK, RemovedNotCalled, table
<1>7. CASE CallDone
  BY <1>1, <1>7 DEF CallDone, TypeOK, RemovedNotCalled, table
<1>8. CASE UNCHANGED vars
  BY <1>1, <1>8 DEF vars, TypeOK, TableInv, RemovedNotCalled, table, call
<1>9. QED
  BY <1>2, <1>3, <1>4, <1>5, <1>6, <1>7, <1>8, RemoveStep, ConsumerStep DEF Next, IoNext

\* Before the first subscription.
LEMMA HandlersInit == Init => TypeOK /\ TableInv /\ RemovedNotCalled
<1> SUFFICES ASSUME Init PROVE TypeOK /\ TableInv /\ RemovedNotCalled
  OBVIOUS
<1>1. Registered = {}
  BY DEF Init, Registered
<1>2. nextConsumersId = Cardinality(Registered) /\ removed \subseteq Registered
  BY <1>1, FS_EmptySet DEF Init
<1>3. Cardinality(Handler) \in Nat
  BY FS_CardinalityType, HandlersAssumption
<1>4. subscribed \in [Handler -> Subscription]
  <2>1. [queues |-> {}, tag |-> None] \in Subscription
    BY SMTT(30) DEF Subscription
  <2>2. QED
    BY <2>1 DEF Init
<1>5. nextConsumersId \in 0 .. Cardinality(Handler)
  BY <1>3, SMTT(30) DEF Init
<1>6. TypeOK
  <2>1. events \in 0 .. MaxEvents
    BY HandlersAssumption, SMTT(30) DEF Init
  <2>2. consumerId \in [Handler -> Id \cup {None}] /\ eventHandlers \in [Id -> Entry \cup {None}]
    BY DEF Init
  <2>3. queue2handler \in [Queue -> SUBSET Id]
    BY DEF Init
  <2>4. /\ pc \in [Thread -> {"idle", "lock", "add"}]
        /\ arg \in [Thread -> Subscriptions \cup {None}]
        /\ \A t \in Thread : pc[t] = "idle"
    BY DEF Init
  <2>5. QED
    BY <1>4, <1>5, <2>1, <2>2, <2>3, <2>4 DEF Init, TypeOK
<1>7. QED
  BY <1>2, <1>6, HandlersAssumption, SMTT(30) DEF Init, TableInv, RemovedNotCalled

\* The table keeps its types; in particular there are never more ids than
\* consumers, since IQueueClient::addHandler gives each consumer one id.
THEOREM HandlersTypeCorrect == Spec => []TypeOK
  BY HandlersInit, HandlersStep, PTL DEF Spec

\* A consumer that IQueueClient::rmHandler has removed is not called any more,
\* however subscriptions, removals and messages interleave.
THEOREM RemovedIsGone == Spec => []RemovedNotCalled
  BY HandlersInit, HandlersStep, PTL DEF Spec

-----------------------------------------------------------------------------
(* A message reaches the consumers it is for. *)

\* The table agrees with the subscriptions made: a queue has the ids of the
\* consumers subscribed to it, and a consumer that was not removed has an entry
\* with the tag of its last subscription.
EntryInv ==
  /\ \A h \in Handler : \A q \in subscribed[h].queues : consumerId[h] \in queue2handler[q]
  /\ \A q \in Queue : \A id \in queue2handler[q] :
       \E h \in Handler : consumerId[h] = id /\ q \in subscribed[h].queues
  /\ \A h \in Handler \ removed : consumerId[h] # None =>
       /\ eventHandlers[consumerId[h]] # None
       /\ eventHandlers[consumerId[h]].handler = h
       /\ eventHandlers[consumerId[h]].tag = subscribed[h].tag

\* In the loop of callConsumer: those the message is for have been called,
\* except the ones whose turn is still to come.
CalledInv ==
  io \in {"next", "consume"} =>
    /\ msg # None
    /\ todo \subseteq queue2handler[msg.queue]
    /\ called = {h \in Due(msg) : consumerId[h] \notin todo}

\* A subscription gives its consumer an entry and one more queue, and leaves
\* those of the others alone.
LEMMA InsertEntry ==
  ASSUME TypeOK, TableInv, EntryInv, NEW h \in Handler, NEW s \in Subscriptions, s.handler = h,
         AddNew(h, s) \/ AddKnown(h, s)
  PROVE  EntryInv'
<1> DEFINE id == IF consumerId[h] = None THEN nextConsumersId ELSE consumerId[h]
<1>1. /\ consumerId' = [consumerId EXCEPT ![h] = id]
      /\ eventHandlers' = [eventHandlers EXCEPT ![id] = [handler |-> h, tag |-> s.tag]]
      /\ queue2handler' = [queue2handler EXCEPT ![s.queue] = @ \cup {id}]
      /\ subscribed' = [subscribed EXCEPT ![h] = Subscribed(@, s)]
      /\ removed' = removed
  BY DEF AddNew, AddKnown, Insert, TypeOK
<1>2. s.queue \in Queue /\ s.tag \in Tag
  BY HandlersAssumption
<1>3. id \in Id /\ id # None
  <2>1. TableType
    BY DEF TypeOK, TableType
  <2>2. QED
    BY <2>1, FreshId, NoneIsNoId DEF TableType
<1>4. \A g \in Handler : consumerId'[g] = IF g = h THEN id ELSE consumerId[g]
  BY <1>1 DEF TypeOK
<1>5. \A g \in Handler : g # h => consumerId[g] # id
  <2>1. CASE consumerId[h] = None
    <3>1. nextConsumersId \in Nat /\ id = nextConsumersId
      BY <2>1, SMTT(30) DEF TypeOK
    <3>2. QED
      BY <1>3, <3>1, SMTT(30) DEF TableInv
  <2>2. CASE consumerId[h] # None
    BY <2>2 DEF TableInv
  <2>3. QED
    BY <2>1, <2>2
<1>6. \A q \in Queue :
         queue2handler'[q] = IF q = s.queue THEN queue2handler[q] \cup {id} ELSE queue2handler[q]
  BY <1>1 DEF TypeOK
<1>7. \A g \in Handler :
         /\ subscribed'[g].queues = IF g = h THEN subscribed[g].queues \cup {s.queue}
                                             ELSE subscribed[g].queues
         /\ subscribed'[g].tag = IF g = h THEN s.tag ELSE subscribed[g].tag
         /\ subscribed[g].queues \subseteq Queue
  <2> TAKE g \in Handler
  <2>1. subscribed[g] \in Subscription /\ subscribed[h] \in Subscription
    BY DEF TypeOK
  <2>2. subscribed'[g] = IF g = h THEN Subscribed(subscribed[h], s) ELSE subscribed[g]
    BY <1>1 DEF TypeOK
  <2>3. subscribed[g].queues \subseteq Queue
    BY <2>1, SMTT(30) DEF Subscription
  <2>4. CASE g = h
    <3>1. /\ Subscribed(subscribed[h], s).queues = subscribed[h].queues \cup {s.queue}
          /\ Subscribed(subscribed[h], s).tag = s.tag
      BY <1>2, <2>1, SubscribedType
    <3>2. QED
      BY <2>2, <2>3, <2>4, <3>1
  <2>5. CASE g # h
    BY <2>2, <2>3, <2>5
  <2>6. QED
    BY <2>4, <2>5
<1>8. ASSUME NEW g \in Handler, NEW q \in subscribed'[g].queues
      PROVE  consumerId'[g] \in queue2handler'[q]
  <2>1. CASE g = h /\ q = s.queue
    BY <1>2, <1>4, <1>6, <2>1
  <2>2. CASE ~(g = h /\ q = s.queue)
    <3>1. q \in subscribed[g].queues /\ q \in Queue
      BY <1>7, <1>8, <2>2
    <3>2. consumerId[g] \in queue2handler[q]
      BY <3>1 DEF EntryInv
    <3>3. consumerId[g] # None
      BY <3>1, <3>2, NoneIsNoId DEF TypeOK
    <3>4. QED
      BY <1>4, <1>6, <3>1, <3>2, <3>3
  <2>3. QED
    BY <2>1, <2>2
<1>9. ASSUME NEW q \in Queue, NEW i \in queue2handler'[q]
      PROVE  \E g \in Handler : consumerId'[g] = i /\ q \in subscribed'[g].queues
  <2>1. CASE i = id /\ q = s.queue
    BY <1>4, <1>7, <2>1
  <2>2. CASE ~(i = id /\ q = s.queue)
    <3>1. i \in queue2handler[q]
      BY <1>6, <1>9, <2>2
    <3>2. PICK g \in Handler : consumerId[g] = i /\ q \in subscribed[g].queues
      BY <3>1 DEF EntryInv
    <3>3. consumerId[g] # None
      BY <3>1, <3>2, NoneIsNoId DEF TypeOK
    <3>4. consumerId'[g] = i
      BY <1>4, <3>2, <3>3
    <3>5. q \in subscribed'[g].queues
      BY <1>7, <3>2
    <3>6. QED
      BY <3>4, <3>5
  <2>3. QED
    BY <2>1, <2>2
<1>10. ASSUME NEW g \in Handler \ removed', consumerId'[g] # None
       PROVE  /\ eventHandlers'[consumerId'[g]] # None
              /\ eventHandlers'[consumerId'[g]].handler = g
              /\ eventHandlers'[consumerId'[g]].tag = subscribed'[g].tag
  <2>1. [handler |-> h, tag |-> s.tag] # None
    BY <1>2, NoneIsNoEntry, SMTT(30) DEF Entry
  <2>2. CASE g = h
    <3>1. consumerId'[g] = id /\ eventHandlers'[id] = [handler |-> h, tag |-> s.tag]
      BY <1>1, <1>3, <1>4, <2>2 DEF TypeOK
    <3>2. subscribed'[g].tag = s.tag
      BY <1>7, <2>2
    <3>3. QED
      BY <2>1, <2>2, <3>1, <3>2, SMTT(30)
  <2>3. CASE g # h
    <3>1. consumerId'[g] = consumerId[g] /\ consumerId[g] # id /\ consumerId[g] \in Id
      BY <1>4, <1>5, <1>10, <2>3 DEF TypeOK
    <3>2. eventHandlers'[consumerId[g]] = eventHandlers[consumerId[g]]
      BY <1>1, <3>1 DEF TypeOK
    <3>3. subscribed'[g].tag = subscribed[g].tag
      BY <1>7, <2>3
    <3>4. QED
      BY <1>1, <1>10, <3>1, <3>2, <3>3, SMTT(30) DEF EntryInv
  <2>4. QED
    BY <2>2, <2>3
<1>11. QED
  BY <1>8, <1>9, <1>10 DEF EntryInv

\* A step that changes neither the queues nor the message.
LEMMA CalledStays ==
  ASSUME CalledInv,
         UNCHANGED <<consumerId, queue2handler, subscribed, removed, msg, todo, called>>,
         io' \in {"next", "consume"} => io \in {"next", "consume"}
  PROVE  CalledInv'
BY DEF CalledInv, Due

\* A step that leaves the table alone.
LEMMA EntryStays ==
  ASSUME EntryInv, UNCHANGED <<consumerId, queue2handler, subscribed, removed, eventHandlers>>
  PROVE  EntryInv'
BY DEF EntryInv

\* The consumer with the next id is called if the message is for it: its entry
\* has the tag of its last subscription.
LEMMA ConsumerCalled ==
  ASSUME TypeOK, TableInv, EntryInv, CalledInv, NEW id \in Id, NextConsumer(id)
  PROVE  EntryInv' /\ CalledInv'
<1>1. /\ io = "next" /\ id \in todo /\ todo' = todo \ {id}
      /\ UNCHANGED <<nextConsumersId, consumerId, queue2handler, subscribed, removed, msg>>
  BY DEF NextConsumer
<1>2. /\ msg \in [queue : Queue, tag : Tag]
      /\ id \in queue2handler[msg.queue]
      /\ todo' \subseteq queue2handler[msg.queue]
      /\ called = {g \in Due(msg) : consumerId[g] \notin todo}
  BY <1>1 DEF CalledInv, TypeOK
<1>3. PICK h \in Handler : consumerId[h] = id /\ msg.queue \in subscribed[h].queues
  BY <1>2 DEF EntryInv
<1>4. \A g \in Handler : consumerId[g] = id => g = h
  BY <1>3, NoneIsNoId DEF TableInv
<1>5. Due(msg)' = Due(msg)
  BY <1>1 DEF Due
<1>6. CASE eventHandlers[id] = None
  <2>1. /\ eventHandlers' = [eventHandlers EXCEPT ![id] = [handler |-> None, tag |-> NoTag]]
        /\ io' = "crash"
    BY <1>6 DEF NextConsumer, checkTag
  <2>2. \A g \in Handler \ removed :
           consumerId[g] # None => consumerId[g] # id /\ consumerId[g] \in Id
    BY <1>6, SMTT(30) DEF EntryInv, TypeOK
  <2>3. \A g \in Handler \ removed : consumerId[g] # None =>
           eventHandlers'[consumerId[g]] = eventHandlers[consumerId[g]]
    BY <2>1, <2>2 DEF TypeOK
  <2>4. QED
    BY <1>1, <2>1, <2>3, SMTT(30) DEF EntryInv, CalledInv
<1>7. CASE eventHandlers[id] # None
  <2>1. eventHandlers' = eventHandlers
    BY <1>7 DEF NextConsumer, TypeOK
  <2>2. eventHandlers[id].handler = h /\ h \notin removed
    BY <1>1, <1>4, <1>7, HandlersAssumption DEF TableInv
  <2>3. eventHandlers[id].tag = subscribed[h].tag
    BY <1>3, <2>2, NoneIsNoId DEF EntryInv
  <2>4. h \in Due(msg) <=> checkTag(eventHandlers[id].tag, msg.tag)
    BY <1>3, <2>2, <2>3 DEF Due
  <2>5. \/ h \notin Due(msg) /\ called' = called
        \/ h \in Due(msg) /\ called' = called \cup {h}
    BY <1>7, <2>2, <2>4, HandlersAssumption DEF NextConsumer
  <2>6. called' = {g \in Due(msg) : consumerId[g] \notin todo'}
    <3>1. \A g \in Due(msg) :
             consumerId[g] \notin todo' <=> consumerId[g] \notin todo \/ g = h
      BY <1>1, <1>3, <1>4 DEF Due
    <3>2. QED
      BY <1>2, <2>5, <3>1
  <2>7. CalledInv'
    BY <1>1, <1>2, <1>5, <2>6 DEF CalledInv
  <2>8. QED
    BY <1>1, <2>1, <2>7, EntryStays
<1>8. QED
  BY <1>6, <1>7

\* Every step keeps the table and the calls made in agreement with what was
\* subscribed.
LEMMA DueStep ==
  TypeOK /\ TableInv /\ EntryInv /\ CalledInv /\ [Next]_vars => EntryInv' /\ CalledInv'
<1> SUFFICES ASSUME TypeOK, TableInv, EntryInv, CalledInv, [Next]_vars
             PROVE  EntryInv' /\ CalledInv'
  OBVIOUS
<1>1. ASSUME UNCHANGED table, UNCHANGED call PROVE EntryInv' /\ CalledInv'
  BY <1>1, EntryStays, CalledStays DEF table, call
<1>2. ASSUME NEW t \in Thread, NEW s \in Subscriptions, subscribe(t, s)
      PROVE  EntryInv' /\ CalledInv'
  BY <1>1, <1>2 DEF subscribe
<1>3. ASSUME NEW t \in Thread, LockClient(t) PROVE EntryInv' /\ CalledInv'
  BY <1>1, <1>3 DEF LockClient
<1>4. ASSUME NEW t \in Thread, addHandler(t) PROVE EntryInv' /\ CalledInv'
  <2>1. arg[t] \in Subscriptions /\ UNCHANGED call
    BY <1>4 DEF addHandler, TypeOK
  <2>2. CASE UNCHANGED table
    BY <1>1, <2>1, <2>2
  <2>3. CASE /\ io = "idle" /\ arg[t].handler # None
             /\ AddNew(arg[t].handler, arg[t]) \/ AddKnown(arg[t].handler, arg[t])
    <3>1. EntryInv'
      BY <2>1, <2>3, InsertEntry, HandlersAssumption
    <3>2. QED
      BY <2>1, <2>3, <3>1 DEF call, CalledInv
  <2>4. QED
    BY <1>4, <2>2, <2>3 DEF addHandler, AddThrows
<1>5. ASSUME NEW t \in Thread, NEW h \in Handler, rmHandler(t, h) PROVE EntryInv' /\ CalledInv'
  <2>1. /\ consumerId[h] # None /\ io = "idle" /\ io' = "idle"
        /\ eventHandlers' = [eventHandlers EXCEPT ![consumerId[h]] = None]
        /\ removed' = removed \cup {h}
        /\ UNCHANGED <<consumerId, queue2handler, subscribed>>
    BY <1>5 DEF rmHandler, call
  <2>2. \A g \in Handler : g # h /\ consumerId[g] # None =>
           eventHandlers'[consumerId[g]] = eventHandlers[consumerId[g]]
    BY <2>1, SMTT(30) DEF TypeOK, TableInv
  <2>3. QED
    BY <2>1, <2>2, SMTT(30) DEF EntryInv, CalledInv
<1>6. ASSUME NEW m \in [queue : Queue, tag : Tag], callConsumer(m)
      PROVE  EntryInv' /\ CalledInv'
  <2>1. /\ io' = "next" /\ msg' = m /\ todo' = queue2handler[m.queue] /\ called' = {}
        /\ UNCHANGED <<consumerId, queue2handler, subscribed, removed, eventHandlers>>
    BY <1>6 DEF callConsumer, table
  <2>2. m # None
    BY NoneIsNoMessage
  <2>3. \A h \in Due(m) : consumerId[h] \in queue2handler[m.queue]
    BY DEF Due, EntryInv
  <2>4. Due(msg)' = Due(m)
    BY <2>1 DEF Due
  <2>5. CalledInv'
    BY <2>1, <2>2, <2>3, <2>4 DEF CalledInv
  <2>6. QED
    BY <2>1, <2>5, EntryStays
<1>7. CASE consume
  BY <1>7, EntryStays, CalledStays DEF consume, table
<1>8. CASE CallDone
  BY <1>8, EntryStays DEF CallDone, table, CalledInv
<1>9. CASE UNCHANGED vars
  BY <1>1, <1>9 DEF vars
<1>10. QED
  BY <1>2, <1>3, <1>4, <1>5, <1>6, <1>7, <1>8, <1>9, ConsumerCalled DEF Next, IoNext

\* A message reaches the consumers subscribed to its queue whose tag, the one
\* of the last subscription, takes it, and no other: however subscriptions,
\* removals and messages interleave.
THEOREM CalledWhenDueAlways == Spec => []CalledWhenDue
<1>1. Init => EntryInv /\ CalledInv
  BY SMTT(30) DEF Init, EntryInv, CalledInv
<1>2. CalledInv => CalledWhenDue
  BY DEF CalledInv, CalledWhenDue
<1>3. QED
  BY <1>1, <1>2, HandlersInit, HandlersStep, DueStep, PTL DEF Spec

=============================================================================
