---------------------------- MODULE NodeDelivery ----------------------------
(***************************************************************************)
(* What the node owes a subscriber, and that it implements the broker of   *)
(* module PubSub.  History variables record, from the calls alone and      *)
(* never from _subscriptions, who has an acknowledged subscription without *)
(* a tag to an existing queue, who has any subscription, and whom each     *)
(* publish in progress reached.                                            *)
(*                                                                         *)
(* The broker is used by its clients only: a server that listens to a      *)
(* queue it does not own takes the queue away from the others (see         *)
(* RemovedOnlyIfUnused in module Node).                                    *)
(***************************************************************************)
EXTENDS Node

ASSUME ClientsOnly == Caller \subseteq ClientId

ASSUME NoneIsNoValue == None \notin Nat \cup QueueListener

VARIABLES
  member,    \* queue to the clients with an acknowledged subscription
  audience,  \* queue to the clients with any subscription
  owed,      \* thread to the members since its publish looked the queue up
  may,       \* thread to everyone in the audience during its publish
  sent,      \* thread to the ids its publish called the handler for
  failed     \* the threads whose last publish threw

history == <<member, audience, owed, may, sent, failed>>

DeliveryInit ==
  /\ Init
  /\ member = [q \in Queue |-> {}]
  /\ audience = [q \in Queue |-> {}]
  /\ owed = [t \in Thread |-> {}]
  /\ may = [t \in Thread |-> {}]
  /\ sent = [t \in Thread |-> {}]
  /\ failed = {}

\* This step returns from a call of client id that changes its subscription.
Returns(q, id, action) ==
  \E t \in Thread : /\ pc[t] = "insert" /\ pc'[t] = "idle"
                    /\ arg[t].id = id /\ arg[t].queue = q /\ arg[t].action = action

\* This step returns from a Subscribe of client id, which is still connected.
Joins(q, id) ==
  /\ id \in users
  /\ queueIsExists(q)
  /\ \E t \in Thread :
       /\ pc[t] = "insert" /\ pc'[t] = "idle"
       /\ arg[t] = [id |-> id, queue |-> q, tag |-> NoTag, action |-> "Subscribe"]

\* This step starts a disconnect of client id or a change of its subscription.
Quits(q, id) ==
  \/ id \notin users'
  \/ \E t \in Thread : pc'[t] = "change" /\ arg'[t].id = id /\ arg'[t].queue = q

\* This step ends the disconnect of client id.
Goes(id) ==
  \E t \in Thread : pc[t] = "eraseClient" /\ pc'[t] = "idle" /\ arg[t].client = id

Publishing(t) == pc[t] \in PublishSteps

Record ==
  /\ member' = [q \in Queue |->
       {id \in ClientId : Joins(q, id) \/ (id \in member[q] /\ ~Quits(q, id))}]
  /\ audience' = [q \in Queue |->
       {id \in ClientId :
          \/ Returns(q, id, "Subscribe")
          \/ id \in audience[q] /\ ~Returns(q, id, "Unsubscribe") /\ ~Goes(id)}]
  /\ owed' = [t \in Thread |->
       IF ~Publishing(t)' THEN {}
         ELSE (IF Publishing(t) THEN owed[t] ELSE ClientId) \cap member'[arg'[t].queue]]
  /\ may' = [t \in Thread |->
       IF ~Publishing(t)' THEN {} ELSE may[t] \cup audience'[arg'[t].queue]]
  /\ sent' = [t \in Thread |->
       IF pc[t] = "deliver" /\ pc'[t] = "deliver"
         THEN sent[t] \cup (todo[t] \ todo'[t]) ELSE {}]
  /\ failed' = {t \in Thread : \/ pc[t] = "deliver" /\ pc'[t] = "throw"
                               \/ t \in failed /\ ~Publishing(t)'}

DeliverySpec == DeliveryInit /\ [][Next /\ Record]_<<vars, history>>

-----------------------------------------------------------------------------
\* A queue is there as long as somebody has an acknowledged subscription to
\* it: Node::publish, which returns without a word when the queue is missing,
\* never does so while a member waits for the message.
MembersKeepQueue == \A q \in Queue : member[q] # {} => queueIsExists(q)

\* When Node::publish returns normally it has called the handler for every
\* client that was a member from its look-up of the queue until now, although
\* it reads _queues without a lock and walks a copy of the listeners.
PublishReachesMembers ==
  \A t \in Thread : pc[t] = "deliver" /\ todo[t] = {} => owed[t] \subseteq sent[t]

\* A queue has one owner at most: createQueue leaves an existing queue to the
\* client that created it, and the owner's listener goes before the queue.
OneOwner ==
  \A q \in Queue : \A a, b \in Listeners(q) :
    subs[q][a].isowner /\ subs[q][b].isowner => a = b

\* The publish of thread t as PubSub sees it.
PubOf(t) ==
  IF Publishing(t)
    THEN [queue |-> arg[t].queue, owed |-> owed[t], may |-> may[t], reached |-> sent[t]]
    ELSE None

Broker == INSTANCE PubSub WITH
  Client <- ClientId,
  Publisher <- Thread,
  pub <- [t \in Thread |-> PubOf(t)]

ASSUME NoneIsNoPublish == None \notin Broker!Publish

\* The node implements the broker: every step of createQueue, subscribe,
\* unsubscribe, onDisconnect and publish, however they interleave, is a step
\* of PubSub or changes nothing that a client can tell.  In particular a
\* publish calls the handler once for a client, and for none that merely owns
\* the queue or had left it before the publish began.
ImplementsBroker == Broker!Spec

=============================================================================
