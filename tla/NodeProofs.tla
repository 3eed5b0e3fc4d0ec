----------------------------- MODULE NodeProofs -----------------------------
(***************************************************************************)
(* Proofs about module Node: types, the discipline of _queues_locker, and  *)
(* the two safety invariants, for any number of threads, queues, tags and  *)
(* clients.                                                                *)
(***************************************************************************)
EXTENDS Node, TLAPS

\* The prover of a step that names none.
USE ZenonT(30)

\* Node::Private never mutates what a step of another thread relies on: each
\* step leaves every variable within its type.
THEOREM TypeCorrect == Spec => []TypeOK
<1>1. Init => TypeOK
  BY NodeAssumption, SMTT(60) DEF Init, TypeOK, Id, ClientId, Idle, SubscriptionSteps,
     PublishSteps, DescribeSteps, ServerID
<1>2. TypeOK /\ [Next]_vars => TypeOK'
  <2> SUFFICES ASSUME TypeOK, [Next]_vars PROVE TypeOK'
    OBVIOUS
  <2> USE DEF TypeOK, Idle, SubscriptionSteps, PublishSteps, DescribeSteps
  <2>1. ASSUME NEW t \in Thread, NEW id \in Caller, NEW q \in Queue, createQueue(t, id, q)
        PROVE  TypeOK'
    <3> DEFINE a == [id |-> id, queue |-> q, tag |-> NoTag, action |-> "Create"]
    <3>1. a \in SubscriptionCall
      BY NodeAssumption DEF SubscriptionCall, SubscribeActions
    <3> HIDE DEF a
    <3>2. CASE Enter(t, "emplace", a)
      BY <2>1, <3>1, <3>2 DEF createQueue, Enter, clients, store, local
    <3>3. CASE Enter(t, "throw", None)
      BY <2>1, <3>3 DEF createQueue, Enter, clients, store, local
    <3>4. QED
      BY <2>1, <3>2, <3>3 DEF createQueue, a
  <2>2. ASSUME NEW t \in Thread, NEW id \in Caller, NEW q \in Queue, NEW tag \in Tag,
               NEW action \in {"Subscribe", "Unsubscribe"},
               changeSubscription(t, action, id, q, tag)
        PROVE  TypeOK'
    BY <2>2, NodeAssumption DEF changeSubscription, Enter, clients, store, local,
       SubscriptionCall, SubscribeActions
  <2>3. ASSUME NEW t \in Thread, NEW id \in ClientId, onDisconnect(t, id)
        PROVE  TypeOK'
    BY <2>3 DEF onDisconnect, Enter, store, local, DisconnectCall
  <2>4. ASSUME NEW t \in Thread, NEW q \in Queue, NEW tag \in Tag, publish(t, q, tag)
        PROVE  TypeOK'
    <3> DEFINE a == [queue |-> q, tag |-> tag]
    <3>1. a \in PublishCall
      BY DEF PublishCall
    <3> HIDE DEF a
    <3>2. CASE Enter(t, "snapshot", a)
      BY <2>4, <3>1, <3>2 DEF publish, Enter, clients, store, local
    <3>3. CASE Enter(t, "idle", None)
      BY <2>4, <3>3 DEF publish, Enter, clients, store, local
    <3>4. QED
      BY <2>4, <3>2, <3>3 DEF publish, a
  <2>5. ASSUME NEW t \in Thread, getQueuesDescription(t) PROVE TypeOK'
    BY <2>5 DEF getQueuesDescription, Enter, clients, store, local
  <2>6. ASSUME NEW t \in Thread, CreateEmplace(t) PROVE TypeOK'
    <3>1. CASE queueIsExists(arg[t].queue)
      BY <2>6, <3>1 DEF CreateEmplace, Leave, clients, local
    <3>2. CASE ~queueIsExists(arg[t].queue)
      <4>1. arg[t].queue \in Queue
        BY <2>6 DEF CreateEmplace, SubscriptionCall
      <4>2. queues' = [queues EXCEPT ![arg[t].queue] = nextQueueId]
        BY <2>6, <3>2 DEF CreateEmplace
      <4>3. queues' \in [Queue -> Nat \cup {None}] /\ nextQueueId' \in Nat
        BY <2>6, <3>2, <4>1, <4>2, SMTT(30) DEF CreateEmplace
      <4>4. /\ pc' = [pc EXCEPT ![t] = "check"]
            /\ pc[t] = "emplace"
            /\ qlock' = [qlock EXCEPT !.writer = t]
            /\ UNCHANGED <<users, nextId, subs, arg, todo, seen>>
        BY <2>6, <3>2 DEF CreateEmplace, Goto, LockQueues, clients, local
      <4>5. QED
        BY <4>3, <4>4, SMTT(30)
    <3>3. QED
      BY <3>1, <3>2
  <2>7. ASSUME NEW t \in Thread, ChangeLock(t) PROVE TypeOK'
    <3>1. CASE Leave(t, "idle") /\ UNCHANGED qlock
      BY <2>7, <3>1 DEF ChangeLock, Leave, clients, store, local
    <3>2. CASE Goto(t, "check") /\ LockQueues(t)
      BY <2>7, <3>2 DEF ChangeLock, Goto, LockQueues, clients, store, local
    <3>3. QED
      BY <2>7, <3>1, <3>2 DEF ChangeLock
  <2>8. ASSUME NEW t \in Thread, CheckClient(t) PROVE TypeOK'
    <3>1. CASE Goto(t, "insert") /\ UNCHANGED qlock
      BY <2>8, <3>1 DEF CheckClient, Goto, clients, store, local
    <3>2. CASE Leave(t, "throw") /\ UnlockQueues
      BY <2>8, <3>2 DEF CheckClient, Leave, UnlockQueues, clients, store, local
    <3>3. QED
      BY <2>8, <3>1, <3>2 DEF CheckClient
  <2>9. ASSUME NEW t \in Thread, InsertListener(t) PROVE TypeOK'
    <3>1. arg[t] \in SubscriptionCall
      BY <2>9 DEF InsertListener
    <3>2. ASSUME NEW l \in QueueListener \cup {None}
          PROVE  Changed(l, arg[t]) \in QueueListener \cup {None}
      <4> DEFINE c == arg[t]
      <4>0. c \in SubscriptionCall
        BY <3>1
      <4> HIDE DEF c
      <4>1. c.tag \in Tag /\ c.action \in SubscribeActions
        BY <4>0 DEF SubscriptionCall
      <4>2. Changed(l, c) \in QueueListener \cup {None}
        BY <4>1 DEF Changed, QueueListener, SubscribeActions
      <4>3. QED
        BY <4>2 DEF c
    <3>3. arg[t].queue \in Queue /\ arg[t].id \in Id
      BY <3>1 DEF SubscriptionCall
    <3>4. subs' \in [Queue -> [Id -> QueueListener \cup {None}]]
      BY <2>9, <3>2, <3>3, SMTT(30) DEF InsertListener
    <3>5. QED
      BY <2>9, <3>4 DEF InsertListener, Leave, UnlockQueues, clients, local
  <2>10. ASSUME NEW t \in Thread, EraseClient(t) PROVE TypeOK'
    BY <2>10 DEF EraseClient, Leave, clients, local, DisconnectCall, Id
  <2>11. ASSUME NEW t \in Thread, PublishSnapshot(t) PROVE TypeOK'
    BY <2>11 DEF PublishSnapshot, Goto, clients, store, Targets, Listeners
  <2>12. ASSUME NEW t \in Thread, Deliver(t) PROVE TypeOK'
    BY <2>12 DEF Deliver, clients, store
  <2>13. ASSUME NEW t \in Thread, DeliverThrows(t) PROVE TypeOK'
    BY <2>13 DEF DeliverThrows, Leave, clients, store
  <2>14. ASSUME NEW t \in Thread, PublishDone(t) PROVE TypeOK'
    BY <2>14 DEF PublishDone, Leave, clients, store, local
  <2>15. ASSUME NEW t \in Thread, DescribeLock(t) PROVE TypeOK'
    BY <2>15 DEF DescribeLock, Goto, LockShared, clients, store, local
  <2>16. ASSUME NEW t \in Thread, NEW q \in Queue, DescribeQueue(t, q) PROVE TypeOK'
    BY <2>16 DEF DescribeQueue, clients, store, Listeners
  <2>17. ASSUME NEW t \in Thread, DescribeDone(t) PROVE TypeOK'
    BY <2>17 DEF DescribeDone, Leave, UnlockShared, clients, store
  <2>18. ASSUME onNewConnection PROVE TypeOK'
    <3>1. users' \in SUBSET Id /\ nextId' \in 0 .. MaxClients
      BY <2>18, NodeAssumption, SMTT(30) DEF onNewConnection, Id, ClientId
    <3>2. QED
      BY <2>18, <3>1 DEF onNewConnection, store, local
  <2>19. CASE UNCHANGED vars
    BY <2>19 DEF vars
  <2>20. QED
    BY <2>1, <2>2, <2>3, <2>4, <2>5, <2>6, <2>7, <2>8, <2>9, <2>10, <2>11, <2>12, <2>13,
       <2>14, <2>15, <2>16, <2>17, <2>18, <2>19, NodeAssumption DEF Next, Call, Step
<1>3. QED
  BY <1>1, <1>2, PTL DEF Spec

-----------------------------------------------------------------------------
\* _queues_locker is held at the steps it protects: every way out of a call
\* of Node::Private releases it, the exceptions included.
LEMMA LockStep == TypeOK /\ LockInv /\ [Next]_vars => LockInv'
<1> SUFFICES ASSUME TypeOK, LockInv, [Next]_vars PROVE LockInv'
  OBVIOUS
<1> USE NodeAssumption DEF TypeOK, LockInv, Idle
<1>1. ASSUME NEW t \in Thread, Call(t) PROVE LockInv'
  BY <1>1, SMTT(30) DEF Call, createQueue, changeSubscription, onDisconnect, publish,
     getQueuesDescription, Enter
<1>2. ASSUME NEW t \in Thread, CreateEmplace(t) PROVE LockInv'
  <2>1. pc[t] = "emplace" /\ qlock.writer = None /\ qlock.readers = {}
    BY <1>2 DEF CreateEmplace, QueuesFree
  <2>2. \/ pc' = [pc EXCEPT ![t] = "idle"] /\ qlock' = qlock
        \/ pc' = [pc EXCEPT ![t] = "check"] /\ qlock' = [qlock EXCEPT !.writer = t]
    BY <1>2 DEF CreateEmplace, Leave, Goto, LockQueues
  <2>3. QED
    BY <2>1, <2>2, SMTT(30)
<1>3. ASSUME NEW t \in Thread, ChangeLock(t) PROVE LockInv'
  <2>1. pc[t] = "change" /\ qlock.writer = None /\ qlock.readers = {}
    BY <1>3 DEF ChangeLock, QueuesFree
  <2>2. \/ pc' = [pc EXCEPT ![t] = "idle"] /\ qlock' = qlock
        \/ pc' = [pc EXCEPT ![t] = "check"] /\ qlock' = [qlock EXCEPT !.writer = t]
    BY <1>3 DEF ChangeLock, Leave, Goto, LockQueues
  <2>3. QED
    BY <2>1, <2>2, SMTT(30)
<1>4. ASSUME NEW t \in Thread, CheckClient(t) \/ InsertListener(t) PROVE LockInv'
  <2>1. pc[t] \in {"check", "insert"} /\ qlock.writer = t /\ qlock.readers = {}
    BY <1>4 DEF CheckClient, InsertListener
  <2>2. \/ pc' = [pc EXCEPT ![t] = "insert"] /\ qlock' = qlock
        \/ \E how \in {"idle", "throw"} :
             pc' = [pc EXCEPT ![t] = how] /\ qlock' = [qlock EXCEPT !.writer = None]
    BY <1>4 DEF CheckClient, InsertListener, Leave, Goto, UnlockQueues
  <2>3. CASE pc' = [pc EXCEPT ![t] = "insert"] /\ qlock' = qlock
    BY <2>1, <2>3
  <2>4. ASSUME NEW how \in {"idle", "throw"},
               pc' = [pc EXCEPT ![t] = how], qlock' = [qlock EXCEPT !.writer = None]
        PROVE  LockInv'
    BY <2>1, <2>4
  <2>5. QED
    BY <2>2, <2>3, <2>4
<1>5. ASSUME NEW t \in Thread, EraseClient(t) PROVE LockInv'
  BY <1>5, SMTT(30) DEF EraseClient, Leave
<1>6. ASSUME NEW t \in Thread,
             PublishSnapshot(t) \/ Deliver(t) \/ DeliverThrows(t) \/ PublishDone(t)
      PROVE  LockInv'
  BY <1>6, SMTT(30) DEF PublishSnapshot, Deliver, DeliverThrows, PublishDone, Leave, Goto
<1>7. ASSUME NEW t \in Thread, DescribeLock(t) PROVE LockInv'
  BY <1>7 DEF DescribeLock, Goto, LockShared
<1>8. ASSUME NEW t \in Thread, NEW q \in Queue, DescribeQueue(t, q) PROVE LockInv'
  BY <1>8 DEF DescribeQueue
<1>9. ASSUME NEW t \in Thread, DescribeDone(t) PROVE LockInv'
  BY <1>9 DEF DescribeDone, Leave, UnlockShared
<1>10. CASE onNewConnection \/ UNCHANGED vars
  BY <1>10 DEF onNewConnection, vars
<1>11. QED
  BY <1>1, <1>2, <1>3, <1>4, <1>5, <1>6, <1>7, <1>8, <1>9, <1>10 DEF Next, Step

-----------------------------------------------------------------------------
\* A step of a thread that is not about to erase a client leaves the clients
\* being erased as they are.
LEMMA ErasedKept ==
  ASSUME NEW t \in Thread, TypeOK, pc[t] # "eraseClient",
         \A u \in Thread \ {t} : pc'[u] = pc[u] /\ arg'[u] = arg[u],
         NEW id, BeingErased(id)
  PROVE  BeingErased(id)'
BY SMTT(30) DEF BeingErased

\* The listeners and the clients found stay users, or clients being erased,
\* under every step: Server::onDisconnect leaves the user base first, and
\* Node::eraseClient cannot come between CheckClient and InsertListener.
LEMMA GhostStep == TypeOK /\ LockInv /\ GhostInv /\ [Next]_vars => GhostInv'
<1> SUFFICES ASSUME TypeOK, LockInv, GhostInv, [Next]_vars PROVE GhostInv'
  OBVIOUS
<1> USE NodeAssumption DEF GhostInv, NoGhostListener, Listens
<1>1. ASSUME NEW t \in Thread, pc[t] # "eraseClient", pc'[t] # "insert",
             \A u \in Thread \ {t} : pc'[u] = pc[u] /\ arg'[u] = arg[u],
             users' = users, subs' = subs
      PROVE  GhostInv'
  BY <1>1, ErasedKept
<1>2. ASSUME NEW t \in Thread, NEW id \in ClientId, onDisconnect(t, id) PROVE GhostInv'
  <2>1. BeingErased(id)'
    BY <1>2 DEF onDisconnect, Enter, TypeOK, BeingErased
  <2>2. pc[t] # "eraseClient" /\ pc'[t] # "insert" /\ users' = users \ {id} /\ subs' = subs
    BY <1>2 DEF onDisconnect, Enter, TypeOK, Idle, store
  <2>3. \A u \in Thread \ {t} : pc'[u] = pc[u] /\ arg'[u] = arg[u]
    BY <1>2 DEF onDisconnect, Enter, TypeOK
  <2>4. QED
    BY <2>1, <2>2, <2>3, ErasedKept
<1>3. ASSUME NEW t \in Thread, Call(t), ~ \E id \in ClientId : onDisconnect(t, id)
      PROVE  GhostInv'
  <2>1. /\ pc[t] # "eraseClient" /\ pc'[t] # "insert" /\ users' = users /\ subs' = subs
        /\ \A u \in Thread \ {t} : pc'[u] = pc[u] /\ arg'[u] = arg[u]
    BY <1>3 DEF Call, createQueue, changeSubscription, publish, getQueuesDescription,
       Enter, Idle, TypeOK, clients, store
  <2>2. QED
    BY <1>1, <2>1
<1>4. ASSUME NEW t \in Thread, CreateEmplace(t) \/ ChangeLock(t) PROVE GhostInv'
  BY <1>1, <1>4 DEF CreateEmplace, ChangeLock, Leave, Goto, TypeOK, clients, store
<1>5. ASSUME NEW t \in Thread, CheckClient(t) PROVE GhostInv'
  <2>1. /\ pc[t] # "eraseClient" /\ users' = users /\ subs' = subs
        /\ \A u \in Thread \ {t} : pc'[u] = pc[u] /\ arg'[u] = arg[u]
        /\ pc'[t] = "insert" => arg'[t] = arg[t] /\ arg[t].id \in users
    BY <1>5 DEF CheckClient, Leave, Goto, TypeOK, Idle, clients, store
  <2>2. QED
    BY <2>1, ErasedKept
<1>6. ASSUME NEW t \in Thread, InsertListener(t) PROVE GhostInv'
  <2>1. /\ pc[t] = "insert" /\ pc'[t] # "insert" /\ users' = users
        /\ \A u \in Thread \ {t} : pc'[u] = pc[u] /\ arg'[u] = arg[u]
    BY <1>6 DEF InsertListener, Leave, TypeOK, clients
  <2>2. ASSUME NEW q \in Queue, NEW id \in Id, Listens(q, id)'
        PROVE  id \in users \/ BeingErased(id)
    BY <1>6, <2>1, <2>2, SMTT(30) DEF InsertListener, TypeOK
  <2>3. QED
    BY <2>1, <2>2, ErasedKept
<1>7. ASSUME NEW t \in Thread, EraseClient(t) PROVE GhostInv'
  <2>1. \A u \in Thread : pc[u] # "insert"
    BY <1>7 DEF EraseClient, QueuesFree, LockInv
  <2>2. /\ users' = users
        /\ pc'[t] # "insert"
        /\ \A u \in Thread \ {t} : pc'[u] = pc[u] /\ arg'[u] = arg[u]
    BY <1>7 DEF EraseClient, Leave, TypeOK, clients
  <2>3. ASSUME NEW q \in Queue, NEW id \in Id, Listens(q, id)'
        PROVE  Listens(q, id) /\ id # arg[t].client
    BY <1>7, <2>3 DEF EraseClient, TypeOK
  <2>4. ASSUME NEW id \in Id, id # arg[t].client, BeingErased(id) PROVE BeingErased(id)'
    BY <2>2, <2>4 DEF BeingErased
  <2>5. QED
    BY <2>1, <2>2, <2>3, <2>4
<1>8. ASSUME NEW t \in Thread,
             PublishSnapshot(t) \/ Deliver(t) \/ DeliverThrows(t) \/ PublishDone(t)
      PROVE  GhostInv'
  BY <1>1, <1>8, SMTT(30) DEF PublishSnapshot, Deliver, DeliverThrows, PublishDone, Leave, Goto,
     TypeOK, Idle, clients, store
<1>9. ASSUME NEW t \in Thread,
             DescribeLock(t) \/ (\E q \in Queue : DescribeQueue(t, q)) \/ DescribeDone(t)
      PROVE  GhostInv'
  <2>1. CASE DescribeLock(t)
    BY <1>1, <2>1 DEF DescribeLock, Goto, TypeOK, clients, store
  <2>2. ASSUME NEW q \in Queue, DescribeQueue(t, q) PROVE GhostInv'
    BY <1>1, <2>2 DEF DescribeQueue, TypeOK, clients, store
  <2>3. CASE DescribeDone(t)
    BY <1>1, <2>3 DEF DescribeDone, Leave, TypeOK, Idle, clients, store
  <2>4. QED
    BY <1>9, <2>1, <2>2, <2>3
<1>10. CASE onNewConnection \/ UNCHANGED vars
  BY <1>10, SMTT(30) DEF onNewConnection, vars, store, BeingErased
<1>11. QED
  BY <1>2, <1>3, <1>4, <1>5, <1>6, <1>7, <1>8, <1>9, <1>10 DEF Next, Step

-----------------------------------------------------------------------------
\* While a description is being collected no step touches _queues or
\* _subscriptions: whoever changes them holds _queues_locker exclusively.
LEMMA SnapshotStep == TypeOK /\ LockInv /\ SnapshotInv /\ [Next]_vars => SnapshotInv'
<1> SUFFICES ASSUME TypeOK, LockInv, SnapshotInv, [Next]_vars PROVE SnapshotInv'
  OBVIOUS
<1> USE NodeAssumption DEF SnapshotInv, DescriptionIsSnapshot, queueIsExists
<1>1. ASSUME NEW t \in Thread, pc[t] # "collect", pc'[t] # "collect",
             \A u \in Thread \ {t} : pc'[u] = pc[u],
             seen' = seen, queues' = queues, subs' = subs
      PROVE  SnapshotInv'
  <2>1. \A q \in Queue : Listeners(q)' = Listeners(q)
    BY <1>1 DEF Listeners, Listens
  <2>2. QED
    BY <1>1, <2>1
<1>2. ASSUME NEW t \in Thread, \A u \in Thread : pc[u] # "collect" /\ pc'[u] # "collect",
             seen' = seen
      PROVE  SnapshotInv'
  BY <1>2, SMTT(30)
<1>3. ASSUME NEW t \in Thread, Call(t) PROVE SnapshotInv'
  BY <1>1, <1>3, SMTT(30) DEF Call, createQueue, changeSubscription, onDisconnect, publish,
     getQueuesDescription, Enter, Idle, TypeOK, store, local
<1>4. ASSUME NEW t \in Thread, CreateEmplace(t) \/ EraseClient(t) PROVE SnapshotInv'
  <2>1. \A u \in Thread : pc[u] # "collect"
    BY <1>4 DEF CreateEmplace, EraseClient, QueuesFree, LockInv
  <2>2. \A u \in Thread : pc'[u] # "collect"
    BY <1>4, <2>1 DEF CreateEmplace, EraseClient, Leave, Goto, TypeOK, Idle
  <2>3. QED
    BY <1>2, <1>4, <2>1, <2>2 DEF CreateEmplace, EraseClient, local
<1>5. ASSUME NEW t \in Thread, InsertListener(t) PROVE SnapshotInv'
  <2>1. \A u \in Thread : pc[u] # "collect"
    BY <1>5 DEF InsertListener, LockInv
  <2>2. \A u \in Thread : pc'[u] # "collect"
    BY <1>5, <2>1, SMTT(30) DEF InsertListener, Leave, TypeOK
  <2>3. QED
    BY <1>2, <1>5, <2>1, <2>2, SMTT(30) DEF InsertListener, local
<1>6. ASSUME NEW t \in Thread, ChangeLock(t) \/ CheckClient(t) PROVE SnapshotInv'
  <2>1. /\ pc[t] # "collect" /\ pc'[t] # "collect"
        /\ \A u \in Thread \ {t} : pc'[u] = pc[u]
    BY <1>6, SMTT(30) DEF ChangeLock, CheckClient, Leave, Goto, TypeOK
  <2>2. seen' = seen /\ queues' = queues /\ subs' = subs
    BY <1>6 DEF ChangeLock, CheckClient, store, local
  <2>3. QED
    BY <1>1, <2>1, <2>2
<1>7. ASSUME NEW t \in Thread,
             PublishSnapshot(t) \/ Deliver(t) \/ DeliverThrows(t) \/ PublishDone(t)
      PROVE  SnapshotInv'
  <2>1. /\ pc[t] # "collect" /\ pc'[t] # "collect"
        /\ \A u \in Thread \ {t} : pc'[u] = pc[u]
    BY <1>7, SMTT(30) DEF PublishSnapshot, Deliver, DeliverThrows, PublishDone, Leave, Goto,
       TypeOK
  <2>2. seen' = seen /\ queues' = queues /\ subs' = subs
    BY <1>7 DEF PublishSnapshot, Deliver, DeliverThrows, PublishDone, store, local
  <2>3. QED
    BY <1>1, <2>1, <2>2
<1>8. ASSUME NEW t \in Thread, DescribeLock(t) PROVE SnapshotInv'
  <2>1. \A q \in Queue : seen'[t][q] = None
    BY <1>8 DEF DescribeLock, local
  <2>2. \A q \in Queue : Listeners(q)' = Listeners(q)
    BY <1>8 DEF DescribeLock, store, Listeners, Listens
  <2>3. QED
    BY <1>8, <2>1, <2>2 DEF DescribeLock, Goto, TypeOK, store, local
<1>9. ASSUME NEW t \in Thread, NEW q \in Queue, DescribeQueue(t, q) PROVE SnapshotInv'
  <2>1. \A r \in Queue : Listeners(r)' = Listeners(r)
    BY <1>9 DEF DescribeQueue, store, Listeners, Listens
  <2>2. QED
    BY <1>9, <2>1 DEF DescribeQueue, TypeOK, store
<1>10. ASSUME NEW t \in Thread, DescribeDone(t) PROVE SnapshotInv'
  <2>1. \A q \in Queue : Listeners(q)' = Listeners(q)
    BY <1>10, SMTT(30) DEF DescribeDone, store, Listeners, Listens
  <2>2. QED
    BY <1>10, <2>1, SMTT(30) DEF DescribeDone, Leave, TypeOK, store
<1>11. CASE onNewConnection \/ UNCHANGED vars
  BY <1>11, SMTT(30) DEF onNewConnection, vars, store, local, Listeners, Listens
<1>12. QED
  BY <1>3, <1>4, <1>5, <1>6, <1>7, <1>8, <1>9, <1>10, <1>11 DEF Next, Step

-----------------------------------------------------------------------------
\* _queues_locker is held exactly at the steps it protects, and never by a
\* writer and a reader at once.
THEOREM LockDiscipline == Spec => []LockInv
<1>1. Init => LockInv
  BY NodeAssumption, SMTT(30) DEF Init, LockInv
<1>2. QED
  BY <1>1, TypeCorrect, LockStep, PTL DEF Spec

\* No client that has left the server stays a listener: Node::eraseClient and
\* Node::changeSubscription cannot miss each other, however the threads
\* interleave.
THEOREM GhostFree == Spec => []NoGhostListener
<1>1. Init => GhostInv
  BY SMTT(30) DEF Init, GhostInv, NoGhostListener, Listens
<1>2. GhostInv => NoGhostListener
  BY DEF GhostInv
<1>3. QED
  BY <1>1, <1>2, TypeCorrect, LockDiscipline, GhostStep, PTL DEF Spec

\* Node::getQueuesDescription returns the queues and the listeners of one
\* moment.
THEOREM DescriptionAtomic == Spec => []DescriptionIsSnapshot
<1>1. Init => SnapshotInv
  BY SMTT(30) DEF Init, SnapshotInv, DescriptionIsSnapshot
<1>2. SnapshotInv => DescriptionIsSnapshot
  BY DEF SnapshotInv
<1>3. QED
  BY <1>1, <1>2, TypeCorrect, LockDiscipline, SnapshotStep, PTL DEF Spec

=============================================================================
