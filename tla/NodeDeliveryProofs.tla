------------------------- MODULE NodeDeliveryProofs -------------------------
(***************************************************************************)
(* Proofs about module NodeDelivery, for any number of threads, queues,    *)
(* tags and clients: a queue has one owner, a queue with members stays,    *)
(* and a publish reaches every member.                                     *)
(***************************************************************************)
EXTENDS NodeDelivery, NodeProofs

\* The prover of a step that names none.
USE ZenonT(30)

\* The calls of the clients: each has one in progress at a time, and a call of
\* createQueue and one of changeSubscription start at different steps.
CallsInv ==
  \A t \in Thread : pc[t] \in SubscriptionSteps =>
    /\ arg[t].id \in Caller
    /\ pc[t] = "emplace" => arg[t].action = "Create"
    /\ pc[t] = "change" => arg[t].action # "Create"
    /\ \A u \in Thread \ {t} : pc[u] \in SubscriptionSteps => arg[u].id # arg[t].id

\* Ids are not used again: a client that is being erased is not a user and
\* does not become one.
UsersInv ==
  /\ \A id \in users : id = ServerID \/ id < nextId
  /\ \A t \in Thread : pc[t] = "eraseClient" => arg[t].client \notin users /\ arg[t].client < nextId

\* Thread t has emplaced queue q and not yet recorded its owner.
Creates(t, q) == pc[t] \in {"check", "insert"} /\ arg[t].queue = q /\ arg[t].action = "Create"

Unowned(q) == \A id \in Id : Listens(q, id) => ~subs[q][id].isowner

\* A queue that is not there has no owner, and neither has one whose creator is
\* about to be recorded.  The server listens to nothing.
OwnerInv ==
  \A q \in Queue :
    /\ ~Listens(q, ServerID)
    /\ ~queueIsExists(q) => Unowned(q)
    /\ \A t \in Thread : Creates(t, q) => queueIsExists(q) /\ Unowned(q)
    /\ \A a, b \in Id : Listens(q, a) /\ Listens(q, b) /\ subs[q][a].isowner /\ subs[q][b].isowner => a = b

\* Thread t is changing the subscription of client id to queue q.
Changes(t, q, id) == pc[t] \in {"change", "check", "insert"} /\ arg[t].id = id /\ arg[t].queue = q

\* What a member has: a listener that takes every message, in a queue that
\* exists, and no call in progress that could change it.
MemberInv ==
  /\ member \in [Queue -> SUBSET ClientId]
  /\ \A q \in Queue : \A id \in member[q] :
       /\ id \in users
       /\ queueIsExists(q)
       /\ Listens(q, id) /\ Receives(subs[q][id]) /\ subs[q][id].tag = NoTag
       /\ \A t \in Thread : ~Changes(t, q, id)

\* What a publish owes: at first to members only, then what it sent or is
\* still to send.
OwedInv ==
  /\ owed \in [Thread -> SUBSET ClientId]
  /\ \A t \in Thread :
       /\ pc[t] = "snapshot" => owed[t] \subseteq member[arg[t].queue]
       /\ pc[t] = "deliver" => owed[t] \subseteq sent[t] \cup todo[t]

-----------------------------------------------------------------------------
\* Only clients call, and the server is none of them.
LEMMA CallersAreClients == \A id \in Caller : id \in ClientId /\ id # ServerID
BY ClientsOnly, NodeAssumption, SMTT(30) DEF ClientId, ServerID

\* A step of thread t leaves the other threads where they are.
LEMMA OthersStay ==
  ASSUME TypeOK, NEW t \in Thread, Call(t) \/ Step(t)
  PROVE  \A u \in Thread \ {t} : pc'[u] = pc[u] /\ arg'[u] = arg[u] /\ todo'[u] = todo[u]
<1>1. CASE Call(t)
  BY <1>1 DEF TypeOK, Call, createQueue, changeSubscription, onDisconnect, publish,
     getQueuesDescription, Enter, local
<1>2. CASE CreateEmplace(t) \/ ChangeLock(t) \/ CheckClient(t) \/ InsertListener(t) \/ EraseClient(t)
  BY <1>2 DEF TypeOK, CreateEmplace, ChangeLock, CheckClient, InsertListener, EraseClient,
     Leave, Goto, local
<1>3. CASE PublishSnapshot(t) \/ Deliver(t) \/ DeliverThrows(t) \/ PublishDone(t)
  BY <1>3 DEF TypeOK, PublishSnapshot, Deliver, DeliverThrows, PublishDone, Leave, Goto, local
<1>4. CASE DescribeLock(t) \/ (\E q \in Queue : DescribeQueue(t, q)) \/ DescribeDone(t)
  BY <1>4 DEF TypeOK, DescribeLock, DescribeQueue, DescribeDone, Leave, Goto, local
<1> QED BY <1>1, <1>2, <1>3, <1>4 DEF Step

\* A client starts a call of createQueue or changeSubscription only when it has
\* none in progress.
LEMMA CallsStep == TypeOK /\ CallsInv /\ [Next]_vars => CallsInv'
<1> SUFFICES ASSUME TypeOK, CallsInv, [Next]_vars PROVE CallsInv'
  OBVIOUS
<1>1. ASSUME NEW t \in Thread, \A u \in Thread \ {t} : pc'[u] = pc[u] /\ arg'[u] = arg[u],
             pc'[t] \in SubscriptionSteps =>
               /\ arg'[t].id \in Caller
               /\ pc'[t] = "emplace" => arg'[t].action = "Create"
               /\ pc'[t] = "change" => arg'[t].action # "Create"
               /\ \A u \in Thread \ {t} : pc[u] \in SubscriptionSteps => arg[u].id # arg'[t].id
      PROVE  CallsInv'
  BY <1>1 DEF CallsInv
<1>2. ASSUME NEW t \in Thread, Call(t) PROVE CallsInv'
  <2>1. \A u \in Thread \ {t} : pc'[u] = pc[u] /\ arg'[u] = arg[u]
    BY <1>2, OthersStay
  <2>2. ASSUME NEW id \in Caller, NEW q \in Queue, createQueue(t, id, q) PROVE CallsInv'
    <3>1. \A u \in Thread : pc[u] \in SubscriptionSteps => arg[u].id # id
      BY <2>2, CallersAreClients DEF createQueue, MayCall
    <3>2. \/ pc'[t] = "emplace" /\ arg'[t].id = id /\ arg'[t].action = "Create"
          \/ pc'[t] = "throw"
      BY <2>2, SMTT(30) DEF createQueue, Enter, TypeOK
    <3> QED BY <1>1, <2>1, <3>1, <3>2 DEF SubscriptionSteps
  <2>3. ASSUME NEW id \in Caller, NEW q \in Queue, NEW tag, NEW action \in {"Subscribe", "Unsubscribe"},
               changeSubscription(t, action, id, q, tag)
        PROVE  CallsInv'
    <3>1. \A u \in Thread : pc[u] \in SubscriptionSteps => arg[u].id # id
      BY <2>3, CallersAreClients DEF changeSubscription, MayCall
    <3>2. pc'[t] = "change" /\ arg'[t].id = id /\ arg'[t].action = action
      BY <2>3 DEF changeSubscription, Enter, TypeOK
    <3> QED BY <1>1, <2>1, <3>1, <3>2 DEF SubscriptionSteps
  <2>4. ASSUME \/ \E id \in ClientId : onDisconnect(t, id)
               \/ \E q \in Queue, tag \in Tag : publish(t, q, tag)
               \/ getQueuesDescription(t)
        PROVE  CallsInv'
    <3>1. pc'[t] \notin SubscriptionSteps
      BY <2>4 DEF onDisconnect, publish, getQueuesDescription, Enter, TypeOK, SubscriptionSteps
    <3> QED BY <1>1, <2>1, <3>1
  <2> QED BY <1>2, <2>2, <2>3, <2>4 DEF Call
<1>3. ASSUME NEW t \in Thread, Step(t) PROVE CallsInv'
  <2>1. \A u \in Thread \ {t} : pc'[u] = pc[u] /\ arg'[u] = arg[u]
    BY <1>3, OthersStay
  <2>2. pc'[t] \in SubscriptionSteps =>
          pc[t] \in SubscriptionSteps /\ arg'[t] = arg[t] /\ pc'[t] \in {"check", "insert"}
    BY <1>3 DEF Step, CreateEmplace, ChangeLock, CheckClient, InsertListener, EraseClient,
       PublishSnapshot, Deliver, DeliverThrows, PublishDone, DescribeLock, DescribeQueue,
       DescribeDone, Leave, Goto, TypeOK, SubscriptionSteps, Idle
  <2> QED BY <1>1, <2>1, <2>2, SMTT(30) DEF CallsInv
<1>4. CASE onNewConnection \/ UNCHANGED vars
  BY <1>4 DEF CallsInv, onNewConnection, vars
<1> QED BY <1>2, <1>3, <1>4 DEF Next

\* onDisconnect takes the user away before the erasing starts, and a new
\* connection gets an id nobody had.
LEMMA UsersStep == TypeOK /\ UsersInv /\ [Next]_vars => UsersInv'
<1> SUFFICES ASSUME TypeOK, UsersInv, [Next]_vars PROVE UsersInv'
  OBVIOUS
<1>1. ASSUME NEW t \in Thread, Call(t) \/ Step(t), ~ \E id \in ClientId : onDisconnect(t, id)
      PROVE  UsersInv'
  <2>1. \A u \in Thread \ {t} : pc'[u] = pc[u] /\ arg'[u] = arg[u]
    BY <1>1, OthersStay
  <2>2. users' = users /\ nextId' = nextId /\ (pc'[t] = "eraseClient" => FALSE)
    <3>1. CASE Call(t)
      BY <1>1, <3>1 DEF Call, createQueue, changeSubscription, publish, getQueuesDescription,
         Enter, TypeOK, clients
    <3>2. CASE Step(t)
      BY <3>2 DEF Step, CreateEmplace, ChangeLock, CheckClient, InsertListener, EraseClient,
         PublishSnapshot, Deliver, DeliverThrows, PublishDone, DescribeLock, DescribeQueue,
         DescribeDone, Leave, Goto, TypeOK, Idle, clients
    <3> QED BY <1>1, <3>1, <3>2
  <2> QED BY <2>1, <2>2 DEF UsersInv
<1>2. ASSUME NEW t \in Thread, NEW id \in ClientId, onDisconnect(t, id) PROVE UsersInv'
  <2>1. id # ServerID /\ id \in users
    BY <1>2, NodeAssumption, SMTT(30) DEF ClientId, ServerID, onDisconnect
  <2>2. /\ users' = users \ {id} /\ nextId' = nextId
        /\ pc'[t] = "eraseClient" /\ arg'[t].client = id
        /\ \A u \in Thread \ {t} : pc'[u] = pc[u] /\ arg'[u] = arg[u]
    BY <1>2 DEF onDisconnect, Enter, TypeOK
  <2> QED BY <2>1, <2>2 DEF UsersInv
<1>3. CASE onNewConnection
  <2>1. /\ users' = users \cup {nextId} /\ nextId' = nextId + 1 /\ pc' = pc /\ arg' = arg
        /\ nextId \in Int /\ users \subseteq Int
    BY <1>3, SMTT(30) DEF onNewConnection, TypeOK, Id, ClientId, ServerID
  <2>2. \A t \in Thread : pc[t] = "eraseClient" => arg[t].client \in Int
    BY SMTT(30) DEF TypeOK, DisconnectCall, ClientId
  <2> QED BY <2>1, <2>2, SMTT(30) DEF UsersInv
<1>4. CASE UNCHANGED vars
  BY <1>4 DEF UsersInv, vars
<1> QED BY <1>1, <1>2, <1>3, <1>4 DEF Next

-----------------------------------------------------------------------------
\* InsertListener changes one listener, of the caller.
LEMMA InsertChanges ==
  ASSUME TypeOK, NEW t \in Thread, InsertListener(t)
  PROVE  /\ arg[t] \in SubscriptionCall /\ arg[t].queue \in Queue /\ arg[t].id \in Id
         /\ subs'[arg[t].queue][arg[t].id] = Changed(subs[arg[t].queue][arg[t].id], arg[t])
         /\ \A q \in Queue, id \in Id : q # arg[t].queue \/ id # arg[t].id => subs'[q][id] = subs[q][id]
         /\ queues' = queues /\ users' = users /\ pc[t] = "insert" /\ pc'[t] = "idle"
<1>1. arg[t] \in SubscriptionCall /\ pc[t] = "insert"
  BY DEF InsertListener, TypeOK, SubscriptionSteps
<1>2. arg[t].queue \in Queue /\ arg[t].id \in Id
  BY <1>1 DEF SubscriptionCall
<1>3. subs' = [subs EXCEPT ![arg[t].queue][arg[t].id] = Changed(subs[arg[t].queue][arg[t].id], arg[t])]
  BY DEF InsertListener
<1>4. queues' = queues /\ users' = users /\ pc'[t] = "idle"
  BY DEF InsertListener, Leave, TypeOK, clients
<1> HIDE DEF InsertListener
<1> QED BY <1>1, <1>2, <1>3, <1>4 DEF TypeOK

\* The listener that changeSubscription_impl leaves: a new one owns the queue
\* if it is for createQueue, one that exists keeps what it owns, and a
\* subscription without a tag takes every message.
LEMMA ChangedListener ==
  ASSUME NEW l \in QueueListener \cup {None}, NEW c \in SubscriptionCall
  PROVE  /\ c.action # "Create" /\ Changed(l, c) # None =>
              (Changed(l, c).isowner => l # None /\ l.isowner)
         /\ c.action = "Subscribe" =>
              /\ Changed(l, c) # None /\ Receives(Changed(l, c))
              /\ Changed(l, c).tag = c.tag
<1>1. c.action \in SubscribeActions /\ c.tag \in Tag
  BY DEF SubscriptionCall
<1>2. CASE c.action = "Create"
  BY <1>2
<1>3. CASE c.action = "Unsubscribe"
  BY <1>1, <1>3 DEF Changed
<1>4. CASE c.action = "Subscribe" /\ l = None
  <2>1. Changed(l, c) = [isowner |-> FALSE, issubscribed |-> FALSE, tag |-> c.tag]
    BY <1>4 DEF Changed
  <2>2. Changed(l, c) \in QueueListener /\ ~Changed(l, c).isowner /\ Changed(l, c).tag = c.tag
    BY <1>1, <2>1, SMTT(30) DEF QueueListener
  <2> QED BY <1>4, <2>2, NoneIsNoValue DEF Receives
<1>5. CASE c.action = "Subscribe" /\ l # None
  <2>1. Changed(l, c) = [l EXCEPT !.issubscribed = TRUE, !.tag = c.tag]
    BY <1>5 DEF Changed
  <2>2. Changed(l, c) \in QueueListener
        /\ Changed(l, c).issubscribed /\ Changed(l, c).isowner = l.isowner /\ Changed(l, c).tag = c.tag
    BY <1>1, <1>5, <2>1 DEF QueueListener
  <2> QED BY <1>5, <2>2, NoneIsNoValue DEF Receives
<1> QED BY <1>1, <1>2, <1>3, <1>4, <1>5 DEF SubscribeActions

\* A client is an owner only of a queue it created: createQueue records it
\* under the lock under which it emplaced the queue, and a queue is removed
\* only when nobody is left.
LEMMA OwnerStep == TypeOK /\ LockInv /\ CallsInv /\ OwnerInv /\ [Next]_vars => OwnerInv'
<1> SUFFICES ASSUME TypeOK, LockInv, CallsInv, OwnerInv, [Next]_vars PROVE OwnerInv'
  OBVIOUS
<1>1. ASSUME UNCHANGED <<queues, subs>>,
             \A t \in Thread, q \in Queue : Creates(t, q)' => Creates(t, q)
      PROVE  OwnerInv'
  BY <1>1 DEF OwnerInv, Unowned, Listens, queueIsExists
<1>2. ASSUME NEW t \in Thread, Call(t) PROVE OwnerInv'
  <2>1. UNCHANGED <<queues, subs>> /\ pc'[t] \notin {"check", "insert"}
    BY <1>2 DEF Call, createQueue, changeSubscription, onDisconnect, publish,
       getQueuesDescription, Enter, TypeOK, store
  <2> QED BY <1>1, <1>2, <2>1, OthersStay DEF Creates
<1>3. ASSUME NEW t \in Thread, CreateEmplace(t) PROVE OwnerInv'
  <2>1. \A u \in Thread : pc[u] \notin {"check", "insert"}
    BY <1>3, NodeAssumption DEF CreateEmplace, QueuesFree, LockInv
  <2>2. CASE queueIsExists(arg[t].queue)
    BY <1>1, <1>3, <2>1, <2>2 DEF CreateEmplace, Leave, Creates, TypeOK
  <2>3. CASE ~queueIsExists(arg[t].queue)
    <3>1. arg[t].queue \in Queue
      BY <1>3 DEF CreateEmplace, TypeOK, SubscriptionSteps, SubscriptionCall
    <3>2. /\ subs' = subs /\ arg' = arg /\ queues'[arg[t].queue] # None
          /\ \A q \in Queue \ {arg[t].queue} : queues'[q] = queues[q]
      BY <1>3, <2>3, <3>1, NoneIsNoValue DEF CreateEmplace, Goto, TypeOK
    <3>3. \A u \in Thread, q \in Queue : Creates(u, q)' => q = arg[t].queue
      BY <1>3, <2>1, <2>3, <3>2 DEF CreateEmplace, Goto, TypeOK, Creates
    <3> QED BY <2>3, <3>1, <3>2, <3>3 DEF OwnerInv, Unowned, Listens, queueIsExists
  <2> QED BY <2>2, <2>3
<1>4. ASSUME NEW t \in Thread, ChangeLock(t) PROVE OwnerInv'
  <2>1. arg[t].action # "Create" /\ UNCHANGED <<queues, subs>>
    BY <1>4 DEF ChangeLock, CallsInv, SubscriptionSteps, store
  <2>2. \A q \in Queue : ~Creates(t, q)'
    BY <1>4, <2>1 DEF ChangeLock, Leave, Goto, TypeOK, Creates
  <2>3. \A u \in Thread \ {t} : pc'[u] = pc[u] /\ arg'[u] = arg[u]
    BY <1>4, OthersStay DEF Step
  <2> QED BY <1>1, <2>1, <2>2, <2>3 DEF Creates
<1>5. ASSUME NEW t \in Thread, CheckClient(t) PROVE OwnerInv'
  <2>1. /\ UNCHANGED <<queues, subs>> /\ pc[t] = "check"
        /\ pc'[t] \in {"check", "insert"} => arg'[t] = arg[t]
    BY <1>5 DEF CheckClient, Leave, Goto, TypeOK, Idle, store
  <2>2. \A u \in Thread \ {t} : pc'[u] = pc[u] /\ arg'[u] = arg[u]
    BY <1>5, OthersStay DEF Step
  <2> QED BY <1>1, <2>1, <2>2 DEF Creates
<1>6. ASSUME NEW t \in Thread, InsertListener(t) PROVE OwnerInv'
  <2> DEFINE q == arg[t].queue
             id == arg[t].id
             l == subs[q][id]
  <2>1. /\ arg[t] \in SubscriptionCall /\ q \in Queue /\ id \in Id
        /\ subs'[q][id] = Changed(l, arg[t])
        /\ \A r \in Queue, i \in Id : r # q \/ i # id => subs'[r][i] = subs[r][i]
        /\ queues' = queues /\ pc[t] = "insert" /\ pc'[t] = "idle"
    BY <1>6, InsertChanges
  <2>2. id # ServerID /\ l \in QueueListener \cup {None}
    BY <2>1, CallersAreClients, SMTT(30) DEF CallsInv, SubscriptionSteps, TypeOK
  <2>3. \A u \in Thread, r \in Queue : ~Creates(u, r)'
    <3>1. \A u \in Thread \ {t} : pc[u] \notin {"check", "insert"}
      BY <2>1 DEF LockInv
    <3> QED BY <1>6, <2>1, <3>1, OthersStay DEF Step, Creates
  <2> HIDE DEF q, id, l
  <2>4. \A r \in Queue : ~Listens(r, ServerID)'
    BY <2>1, <2>2, NodeAssumption DEF OwnerInv, Listens, Id
  <2>5. CASE arg[t].action = "Create"
    <3>1. queueIsExists(q) /\ Unowned(q)
      BY <2>1, <2>5 DEF OwnerInv, Creates, q
    <3> QED BY <2>1, <2>3, <2>4, <3>1, SMTT(30) DEF OwnerInv, Unowned, Listens, queueIsExists
  <2>6. CASE arg[t].action # "Create"
    <3>1. subs'[q][id] # None => (subs'[q][id].isowner => l # None /\ l.isowner)
      BY <2>1, <2>2, <2>6, ChangedListener
    <3>2. \A r \in Queue, i \in Id :
            Listens(r, i)' /\ subs'[r][i].isowner => Listens(r, i) /\ subs[r][i].isowner
      BY <2>1, <3>1 DEF Listens, l
    <3> QED BY <2>1, <2>3, <2>4, <3>2 DEF OwnerInv, Unowned, queueIsExists
  <2> QED BY <2>5, <2>6
<1>7. ASSUME NEW t \in Thread, EraseClient(t) PROVE OwnerInv'
  <2> DEFINE id == arg[t].client
  <2>1. \A q \in Queue, i \in Id : subs'[q][i] = IF i = id THEN None ELSE subs[q][i]
    BY <1>7 DEF EraseClient, TypeOK, DisconnectCall
  <2>2. \A u \in Thread, q \in Queue : ~Creates(u, q)'
    <3>1. \A u \in Thread : pc[u] \notin {"check", "insert"}
      BY <1>7, NodeAssumption DEF EraseClient, QueuesFree, LockInv
    <3> QED BY <1>7, <3>1 DEF EraseClient, Leave, TypeOK, Idle, Creates
  <2>3. ASSUME NEW q \in Queue, ~queueIsExists(q)' PROVE Unowned(q)'
    <3>1. \/ ~queueIsExists(q)
          \/ Listens(q, id) /\ MustBeRemoved(q, id)
      BY <1>7, <2>3 DEF EraseClient, queueIsExists
    <3>2. ASSUME MustBeRemoved(q, id), NEW i \in Id PROVE ~Listens(q, i)'
      BY <2>1, <3>2 DEF MustBeRemoved, Listeners, Listens, OwnerInv
    <3>3. ~queueIsExists(q) => Unowned(q)
      BY DEF OwnerInv
    <3> HIDE DEF id
    <3> QED BY <2>1, <3>1, <3>2, <3>3 DEF Unowned, Listens
  <2> HIDE DEF id
  <2>4. \A q \in Queue, i \in Id : Listens(q, i)' => Listens(q, i) /\ subs'[q][i] = subs[q][i]
    BY <2>1 DEF Listens
  <2>5. \A q \in Queue : ~Listens(q, ServerID)'
    BY <2>4 DEF OwnerInv, Id
  <2> QED BY <2>2, <2>3, <2>4, <2>5 DEF OwnerInv
<1>8. ASSUME NEW t \in Thread,
             \/ PublishSnapshot(t) \/ Deliver(t) \/ DeliverThrows(t) \/ PublishDone(t)
             \/ DescribeLock(t) \/ (\E q \in Queue : DescribeQueue(t, q)) \/ DescribeDone(t)
      PROVE  OwnerInv'
  <2>1. UNCHANGED <<queues, subs>> /\ pc'[t] \notin {"check", "insert"}
    BY <1>8 DEF PublishSnapshot, Deliver, DeliverThrows, PublishDone, DescribeLock,
       DescribeQueue, DescribeDone, Leave, Goto, TypeOK, Idle, store
  <2>2. \A u \in Thread \ {t} : pc'[u] = pc[u] /\ arg'[u] = arg[u]
    BY <1>8, OthersStay DEF Step
  <2> QED BY <1>1, <2>1, <2>2 DEF Creates
<1>9. CASE onNewConnection \/ UNCHANGED vars
  BY <1>1, <1>9 DEF onNewConnection, vars, store, Creates
<1> QED BY <1>2, <1>3, <1>4, <1>5, <1>6, <1>7, <1>8, <1>9 DEF Next, Step

-----------------------------------------------------------------------------
\* A step that is not the end of changeSubscription_impl makes nobody a member.
LEMMA NobodyJoins ==
  ASSUME MemberInv, Record, \A t \in Thread : ~(pc[t] = "insert" /\ pc'[t] = "idle")
  PROVE  /\ member' \in [Queue -> SUBSET ClientId]
         /\ \A q \in Queue : \A id \in member'[q] :
              id \in member[q] /\ id \in users' /\ \A t \in Thread : pc'[t] = "change" =>
                arg'[t].id # id \/ arg'[t].queue # q
BY DEF Record, Joins, Quits, MemberInv

\* The step of a thread that joins nobody, and touches neither the queue nor the
\* listener of those who stay members.
LEMMA MembersStay ==
  ASSUME MemberInv, Record, \A t \in Thread : ~(pc[t] = "insert" /\ pc'[t] = "idle"),
         \A q \in Queue : \A id \in member[q] : id \in users' =>
           /\ queueIsExists(q)' /\ subs'[q][id] = subs[q][id]
           /\ \A t \in Thread : Changes(t, q, id)' => Changes(t, q, id) \/ pc'[t] = "change"
  PROVE  MemberInv'
<1>1. /\ member' \in [Queue -> SUBSET ClientId]
      /\ \A q \in Queue : \A id \in member'[q] :
              id \in member[q] /\ id \in users' /\ \A t \in Thread : pc'[t] = "change" =>
                arg'[t].id # id \/ arg'[t].queue # q
  BY NobodyJoins
<1> SUFFICES ASSUME NEW q \in Queue, NEW id \in member'[q]
             PROVE  /\ id \in users' /\ queueIsExists(q)'
                    /\ Listens(q, id)' /\ Receives(subs[q][id])' /\ subs'[q][id].tag = NoTag
                    /\ \A t \in Thread : ~Changes(t, q, id)'
  BY <1>1 DEF MemberInv
<1>2. id \in member[q] /\ id \in users'
  BY <1>1
<1>3. \A t \in Thread : ~Changes(t, q, id)'
  <2>1. \A t \in Thread : pc'[t] = "change" => ~Changes(t, q, id)'
    BY <1>1 DEF Changes
  <2>2. \A t \in Thread : ~Changes(t, q, id)
    BY <1>2 DEF MemberInv
  <2> QED BY <1>2, <2>1, <2>2
<1>4. queueIsExists(q)' /\ subs'[q][id] = subs[q][id]
  BY <1>2
<1>5. Listens(q, id)' /\ Receives(subs[q][id])' /\ subs'[q][id].tag = NoTag
  BY <1>2, <1>4, SMTT(30) DEF MemberInv, Listens, Receives
<1> QED BY <1>2, <1>3, <1>4, <1>5

\* A member keeps its listener and its queue until it disconnects or changes
\* its subscription: nobody else's call touches the listener, and eraseClient
\* removes no queue that has one.
LEMMA MemberStep ==
  TypeOK /\ LockInv /\ CallsInv /\ UsersInv /\ OwnerInv /\ MemberInv
    /\ [Next /\ Record]_<<vars, history>> => MemberInv'
<1> SUFFICES ASSUME TypeOK, LockInv, CallsInv, UsersInv, OwnerInv, MemberInv,
                    [Next /\ Record]_<<vars, history>>
             PROVE  MemberInv'
  OBVIOUS
<1>1. CASE UNCHANGED <<vars, history>>
  BY <1>1 DEF vars, history, MemberInv, queueIsExists, Listens, Receives, Changes
<1>2. ASSUME NEW t \in Thread, Call(t), Record PROVE MemberInv'
  <2>1. /\ UNCHANGED <<queues, subs>> /\ pc[t] # "insert"
        /\ pc'[t] \notin {"check", "insert"}
    BY <1>2 DEF Call, createQueue, changeSubscription, onDisconnect, publish,
       getQueuesDescription, Enter, TypeOK, Idle, store
  <2>2. \A u \in Thread \ {t} : pc'[u] = pc[u] /\ arg'[u] = arg[u]
    BY <1>2, OthersStay
  <2>3. \A u \in Thread : ~(pc[u] = "insert" /\ pc'[u] = "idle")
    BY <2>1, <2>2
  <2>4. \A u \in Thread, q \in Queue, id \in ClientId :
          Changes(u, q, id)' => Changes(u, q, id) \/ pc'[u] = "change"
    BY <2>1, <2>2 DEF Changes
  <2> QED BY <1>2, <2>1, <2>3, <2>4, MembersStay DEF MemberInv, queueIsExists
<1>3. ASSUME NEW t \in Thread, CreateEmplace(t), Record PROVE MemberInv'
  <2>1. arg[t].queue \in Queue /\ pc[t] = "emplace"
    BY <1>3 DEF CreateEmplace, TypeOK, SubscriptionSteps, SubscriptionCall
  <2>2. /\ subs' = subs /\ \A q \in Queue : queueIsExists(q) => queues'[q] = queues[q]
        /\ pc'[t] # "idle" => arg'[t] = arg[t] /\ ~queueIsExists(arg[t].queue)
    BY <1>3, <2>1 DEF CreateEmplace, Leave, Goto, TypeOK, queueIsExists
  <2>3. \A u \in Thread \ {t} : pc'[u] = pc[u] /\ arg'[u] = arg[u]
    BY <1>3, OthersStay DEF Step
  <2>4. ASSUME NEW q \in Queue, NEW id \in member[q], NEW u \in Thread, Changes(u, q, id)'
        PROVE  Changes(u, q, id)
    BY <2>2, <2>3, <2>4 DEF Changes, MemberInv
  <2> QED BY <1>3, <2>1, <2>2, <2>3, <2>4, MembersStay DEF MemberInv, queueIsExists
<1>4. ASSUME NEW t \in Thread, ChangeLock(t) \/ CheckClient(t), Record PROVE MemberInv'
  <2>1. /\ UNCHANGED <<queues, subs>> /\ pc[t] \in {"change", "check"}
        /\ pc'[t] \in {"change", "check", "insert"} => arg'[t] = arg[t]
    BY <1>4 DEF ChangeLock, CheckClient, Leave, Goto, TypeOK, Idle, store
  <2>2. \A u \in Thread \ {t} : pc'[u] = pc[u] /\ arg'[u] = arg[u]
    BY <1>4, OthersStay DEF Step
  <2>3. \A u \in Thread, q \in Queue, id \in ClientId : Changes(u, q, id)' => Changes(u, q, id)
    BY <2>1, <2>2 DEF Changes
  <2>4. \A u \in Thread : ~(pc[u] = "insert" /\ pc'[u] = "idle")
    BY <2>1, <2>2
  <2> QED BY <1>4, <2>1, <2>3, <2>4, MembersStay DEF MemberInv, queueIsExists
<1>5. ASSUME NEW t \in Thread, InsertListener(t), Record PROVE MemberInv'
  <2> DEFINE q == arg[t].queue
             c == arg[t].id
  <2>1. /\ arg[t] \in SubscriptionCall /\ q \in Queue /\ c \in Id
        /\ subs'[q][c] = Changed(subs[q][c], arg[t])
        /\ \A r \in Queue, i \in Id : r # q \/ i # c => subs'[r][i] = subs[r][i]
        /\ queues' = queues /\ users' = users /\ pc[t] = "insert" /\ pc'[t] = "idle"
    BY <1>5, InsertChanges
  <2>2. \A u \in Thread \ {t} : pc'[u] = pc[u] /\ arg'[u] = arg[u]
    BY <1>5, OthersStay DEF Step
  <2>3. \A u \in Thread \ {t} : pc[u] \in SubscriptionSteps => arg[u].id # c
    BY <2>1 DEF CallsInv, SubscriptionSteps
  <2>4. /\ member' \in [Queue -> SUBSET ClientId]
        /\ \A r \in Queue : \A id \in member'[r] : id \in ClientId /\ (Joins(r, id) \/ id \in member[r])
    BY <1>5 DEF Record
  <2> SUFFICES ASSUME NEW r \in Queue, NEW id \in member'[r]
               PROVE  /\ id \in users' /\ queueIsExists(r)'
                      /\ Listens(r, id)' /\ Receives(subs[r][id])' /\ subs'[r][id].tag = NoTag
                      /\ \A u \in Thread : ~Changes(u, r, id)'
    BY <2>4 DEF MemberInv
  <2>5. CASE Joins(r, id)
    <3>1. id \in users /\ queueIsExists(r) /\ r = q /\ id = c
          /\ arg[t].tag = NoTag /\ arg[t].action = "Subscribe"
      <4>1. PICK u \in Thread : /\ pc[u] = "insert" /\ pc'[u] = "idle"
              /\ arg[u] = [id |-> id, queue |-> r, tag |-> NoTag, action |-> "Subscribe"]
        BY <2>5 DEF Joins
      <4>2. u = t
        BY <2>2, <4>1
      <4> QED BY <2>5, <4>1, <4>2, SMTT(30) DEF Joins
    <3>2. subs[q][c] \in QueueListener \cup {None}
      BY <2>1, SMTT(30) DEF TypeOK
    <3>3. Changed(subs[q][c], arg[t]) # None /\ Receives(Changed(subs[q][c], arg[t]))
          /\ Changed(subs[q][c], arg[t]).tag = NoTag
      BY <2>1, <3>1, <3>2, ChangedListener
    <3>4. Listens(r, id)' /\ Receives(subs[r][id])' /\ subs'[r][id].tag = NoTag
      BY <2>1, <3>1, <3>3 DEF Listens, Receives
    <3>5. \A u \in Thread : ~Changes(u, r, id)'
      BY <2>1, <2>2, <2>3, <3>1 DEF Changes, SubscriptionSteps
    <3> QED BY <2>1, <3>1, <3>4, <3>5 DEF queueIsExists
  <2>6. CASE id \in member[r]
    <3>1. /\ id \in users /\ queueIsExists(r) /\ Listens(r, id) /\ Receives(subs[r][id])
          /\ subs[r][id].tag = NoTag /\ \A u \in Thread : ~Changes(u, r, id)
      BY <2>6 DEF MemberInv
    <3>2. r # q \/ id # c
      BY <2>1, <3>1 DEF Changes
    <3>3. subs'[r][id] = subs[r][id]
      BY <2>1, <2>4, <3>2 DEF Id
    <3>4. \A u \in Thread : ~Changes(u, r, id)'
      BY <2>1, <2>2, <3>1 DEF Changes
    <3>5. Listens(r, id)' /\ Receives(subs[r][id])' /\ subs'[r][id].tag = NoTag
      BY <3>1, <3>3 DEF Listens, Receives
    <3> QED BY <2>1, <3>1, <3>4, <3>5 DEF queueIsExists
  <2> QED BY <2>4, <2>5, <2>6
<1>6. ASSUME NEW t \in Thread, EraseClient(t), Record PROVE MemberInv'
  <2> DEFINE c == arg[t].client
  <2>1. /\ pc[t] = "eraseClient" /\ c \notin users /\ pc'[t] = "idle"
        /\ \A q \in Queue, i \in Id : i # c => subs'[q][i] = subs[q][i]
        /\ \A q \in Queue : ~MustBeRemoved(q, c) => queues'[q] = queues[q]
    BY <1>6 DEF EraseClient, UsersInv, Leave, TypeOK, DisconnectCall
  <2>2. \A u \in Thread \ {t} : pc'[u] = pc[u] /\ arg'[u] = arg[u]
    BY <1>6, OthersStay DEF Step
  <2>3. ASSUME NEW q \in Queue, NEW id \in member[q]
        PROVE  queueIsExists(q)' /\ subs'[q][id] = subs[q][id]
    <3>1. id \in users /\ id \in Id /\ Listens(q, id) /\ queueIsExists(q)
      BY <2>3 DEF MemberInv, Id
    <3>2. id \in Listeners(q) \ {c}
      BY <2>1, <3>1 DEF Listeners
    <3>3. ServerID \notin Listeners(q)
      BY DEF OwnerInv, Listeners
    <3>4. ~MustBeRemoved(q, c)
      BY <3>2, <3>3 DEF MustBeRemoved
    <3> QED BY <2>1, <3>1, <3>2, <3>4 DEF queueIsExists
  <2>4. \A u \in Thread, q \in Queue, id \in ClientId : Changes(u, q, id)' => Changes(u, q, id)
    BY <2>1, <2>2 DEF Changes
  <2>5. \A u \in Thread : ~(pc[u] = "insert" /\ pc'[u] = "idle")
    BY <2>1, <2>2
  <2> QED BY <1>6, <2>3, <2>4, <2>5, MembersStay DEF MemberInv
<1>7. ASSUME NEW t \in Thread, Record,
             \/ PublishSnapshot(t) \/ Deliver(t) \/ DeliverThrows(t) \/ PublishDone(t)
             \/ DescribeLock(t) \/ (\E q \in Queue : DescribeQueue(t, q)) \/ DescribeDone(t)
      PROVE  MemberInv'
  <2>1. UNCHANGED <<queues, subs>> /\ pc[t] # "insert" /\ pc'[t] \notin {"change", "check", "insert"}
    BY <1>7 DEF PublishSnapshot, Deliver, DeliverThrows, PublishDone, DescribeLock,
       DescribeQueue, DescribeDone, Leave, Goto, TypeOK, Idle, store
  <2>2. \A u \in Thread \ {t} : pc'[u] = pc[u] /\ arg'[u] = arg[u]
    BY <1>7, OthersStay DEF Step
  <2>3. \A u \in Thread, q \in Queue, id \in ClientId : Changes(u, q, id)' => Changes(u, q, id)
    BY <2>1, <2>2 DEF Changes
  <2>4. \A u \in Thread : ~(pc[u] = "insert" /\ pc'[u] = "idle")
    BY <2>1, <2>2
  <2> QED BY <1>7, <2>1, <2>3, <2>4, MembersStay DEF MemberInv, queueIsExists
<1>8. ASSUME onNewConnection, Record PROVE MemberInv'
  <2>1. UNCHANGED <<queues, subs, pc, arg>>
    BY <1>8 DEF onNewConnection, store
  <2> QED BY <1>8, <2>1, MembersStay DEF MemberInv, queueIsExists, Changes
<1> QED BY <1>1, <1>2, <1>3, <1>4, <1>5, <1>6, <1>7, <1>8 DEF Next, Step

\* A publish delivers from its copy of the listeners.
LEMMA SnapshotFirst ==
  ASSUME TypeOK, Next, NEW t \in Thread, pc'[t] = "deliver", pc[t] # "deliver"
  PROVE  PublishSnapshot(t)
<1>1. ASSUME NEW u \in Thread, Call(u) PROVE FALSE
  BY <1>1 DEF Call, createQueue, changeSubscription, onDisconnect, publish,
     getQueuesDescription, Enter, TypeOK
<1>2. ASSUME NEW u \in Thread, Step(u), ~PublishSnapshot(u) PROVE FALSE
  BY <1>2 DEF Step, CreateEmplace, ChangeLock, CheckClient, InsertListener, EraseClient, Deliver,
     DeliverThrows, PublishDone, DescribeLock, DescribeQueue, DescribeDone, Leave, Goto,
     TypeOK, Idle
<1>3. ASSUME NEW u \in Thread, PublishSnapshot(u) PROVE u = t
  BY <1>3 DEF PublishSnapshot, Goto, TypeOK
<1>4. ~onNewConnection
  BY DEF onNewConnection
<1> QED BY <1>1, <1>2, <1>3, <1>4 DEF Next

\* The copy of the listeners that publish takes has every member of that
\* moment, and what is owed only gets less after it.
LEMMA OwedStep ==
  TypeOK /\ OwedInv /\ MemberInv' /\ [Next /\ Record]_<<vars, history>> => OwedInv'
<1> SUFFICES ASSUME TypeOK, OwedInv, MemberInv', [Next /\ Record]_<<vars, history>>
             PROVE  OwedInv'
  OBVIOUS
<1>1. CASE UNCHANGED <<vars, history>>
  BY <1>1 DEF vars, history, OwedInv
<1>2. CASE Next /\ Record
  <2>1. \A t \in Thread : owed'[t] = IF ~Publishing(t)' THEN {}
          ELSE (IF Publishing(t) THEN owed[t] ELSE ClientId) \cap member'[arg'[t].queue]
    BY <1>2 DEF Record
  <2>2. owed' \in [Thread -> SUBSET ClientId]
    <3>1. owed' = [t \in Thread |-> owed'[t]]
      BY <1>2 DEF Record
    <3>2. \A t \in Thread : owed'[t] \subseteq ClientId
      BY <2>1 DEF OwedInv
    <3> QED BY <3>1, <3>2
  <2>3. ASSUME NEW t \in Thread, pc'[t] = "snapshot" PROVE owed'[t] \subseteq member'[arg'[t].queue]
    BY <2>1, <2>3 DEF Publishing, PublishSteps
  <2>4. ASSUME NEW t \in Thread, pc'[t] = "deliver", pc[t] = "deliver"
        PROVE  owed'[t] \subseteq sent'[t] \cup todo'[t]
    <3>1. owed'[t] \subseteq owed[t]
      BY <2>1, <2>4 DEF Publishing, PublishSteps
    <3>2. sent'[t] = sent[t] \cup (todo[t] \ todo'[t])
      BY <1>2, <2>4 DEF Record
    <3> QED BY <2>4, <3>1, <3>2 DEF OwedInv
  <2>5. ASSUME NEW t \in Thread, pc'[t] = "deliver", pc[t] # "deliver"
        PROVE  owed'[t] \subseteq sent'[t] \cup todo'[t]
    <3>1. PublishSnapshot(t)
      BY <1>2, <2>5, SnapshotFirst
    <3>2. /\ arg'[t] = arg[t] /\ subs' = subs /\ arg[t].queue \in Queue
          /\ todo'[t] = Targets(arg[t].queue, arg[t].tag)
      BY <3>1 DEF PublishSnapshot, Goto, TypeOK, PublishSteps, PublishCall, store
    <3>3. owed'[t] \subseteq member'[arg[t].queue]
      BY <2>1, <2>5, <3>2 DEF Publishing, PublishSteps
    <3>4. ASSUME NEW id \in member'[arg[t].queue] PROVE id \in Targets(arg[t].queue, arg[t].tag)
      <4> DEFINE q == arg[t].queue
      <4>1. id \in Id /\ Listens(q, id)' /\ Receives(subs[q][id])' /\ subs'[q][id].tag = NoTag
        BY <3>2, <3>4 DEF MemberInv, Id
      <4>2. Listens(q, id) /\ Receives(subs[q][id]) /\ checkTag(subs[q][id].tag, arg[t].tag)
        BY <3>2, <4>1 DEF Listens, Receives, checkTag
      <4> QED BY <4>1, <4>2 DEF Targets, Listeners
    <3> QED BY <3>2, <3>3, <3>4
  <2> QED BY <2>2, <2>3, <2>4, <2>5 DEF OwedInv
<1> QED BY <1>1, <1>2

-----------------------------------------------------------------------------
\* The history only watches: what is proved of the node holds here.
LEMMA NodeBehaves == DeliverySpec => [](TypeOK /\ LockInv)
<1>1. DeliveryInit => Init
  BY DEF DeliveryInit
<1>2. [Next /\ Record]_<<vars, history>> => [Next]_vars
  OBVIOUS
<1>3. DeliverySpec => Spec
  BY <1>1, <1>2, PTL DEF DeliverySpec, Spec
<1> QED BY <1>3, TypeCorrect, LockDiscipline, PTL

\* The inductive invariant.
DeliveryInv == CallsInv /\ UsersInv /\ OwnerInv /\ MemberInv /\ OwedInv

\* It holds in every state of the node.
LEMMA DeliveryBehaves == DeliverySpec => []DeliveryInv
<1>1. DeliveryInit => DeliveryInv
  <2> SUFFICES ASSUME DeliveryInit PROVE DeliveryInv
    OBVIOUS
  <2>1. CallsInv /\ UsersInv
    BY DEF DeliveryInit, Init, CallsInv, UsersInv, SubscriptionSteps
  <2>2. OwnerInv
    BY DEF DeliveryInit, Init, OwnerInv, Listens, Unowned, Creates, Id
  <2>3. MemberInv /\ OwedInv
    BY DEF DeliveryInit, Init, MemberInv, OwedInv
  <2> QED BY <2>1, <2>2, <2>3 DEF DeliveryInv
<1>2. TypeOK /\ LockInv /\ DeliveryInv /\ [Next /\ Record]_<<vars, history>> => DeliveryInv'
  <2> SUFFICES ASSUME TypeOK, LockInv, DeliveryInv, [Next /\ Record]_<<vars, history>>
               PROVE  DeliveryInv'
    OBVIOUS
  <2>1. [Next]_vars
    OBVIOUS
  <2>2. CallsInv' /\ UsersInv' /\ OwnerInv'
    BY <2>1, CallsStep, UsersStep, OwnerStep DEF DeliveryInv
  <2>3. MemberInv'
    BY MemberStep DEF DeliveryInv
  <2>4. OwedInv'
    BY <2>3, OwedStep DEF DeliveryInv
  <2> QED BY <2>2, <2>3, <2>4 DEF DeliveryInv
<1> QED BY <1>1, <1>2, NodeBehaves, PTL DEF DeliverySpec

\* createQueue gives a queue one owner, and no other call gives it a second.
THEOREM OneOwnerAlways == DeliverySpec => []OneOwner
<1>1. DeliveryInv => OneOwner
  BY DEF DeliveryInv, OwnerInv, OneOwner, Listeners
<1> QED BY <1>1, DeliveryBehaves, PTL

\* Node::eraseClient removes no queue that a client which is still connected
\* has an acknowledged subscription to.
THEOREM MembersKeepQueueAlways == DeliverySpec => []MembersKeepQueue
<1>1. DeliveryInv => MembersKeepQueue
  BY DEF DeliveryInv, MemberInv, MembersKeepQueue
<1> QED BY <1>1, DeliveryBehaves, PTL

\* Node::publish, when it returns normally, has called the handler for every
\* client that was a member all along.
THEOREM PublishReachesMembersAlways == DeliverySpec => []PublishReachesMembers
<1>1. DeliveryInv => PublishReachesMembers
  BY DEF DeliveryInv, OwedInv, PublishReachesMembers
<1> QED BY <1>1, DeliveryBehaves, PTL

=============================================================================
