---------------------------- MODULE BrokerProofs ----------------------------
(***************************************************************************)
(* The node implements the broker of module PubSub, for any number of      *)
(* threads, queues, tags and clients.                                      *)
(***************************************************************************)
EXTENDS NodeDeliveryProofs

\* The prover of a step that names none.
USE ZenonT(30)

\* Whoever receives messages is in the audience.
AudienceInv ==
  /\ audience \in [Queue -> SUBSET ClientId]
  /\ \A q \in Queue, id \in Id : Listens(q, id) /\ Receives(subs[q][id]) => id \in audience[q]

\* What the history knows of a publish: it owes to members, may reach whoever
\* is in the audience, and has still to reach others than those it reached.
PubInv ==
  /\ may \in [Thread -> SUBSET ClientId]
  /\ sent \in [Thread -> SUBSET ClientId]
  /\ \A t \in Thread :
       /\ Publishing(t) => owed[t] \subseteq member[arg[t].queue] /\ audience[arg[t].queue] \subseteq may[t]
       /\ ~Publishing(t) => may[t] = {}
       /\ pc[t] # "deliver" => sent[t] = {}
       /\ pc[t] = "deliver" => todo[t] \subseteq may[t] /\ todo[t] \cap sent[t] = {}

\* Whoever was told of a failure has not published since.
FailedInv == failed \subseteq {t \in Thread : ~Publishing(t)}

-----------------------------------------------------------------------------
\* The audience of a queue changes at the end of a change of subscription and
\* at the end of a disconnect only.
LEMMA AudienceStays ==
  ASSUME AudienceInv, Record,
         \A t \in Thread : pc[t] \in {"insert", "eraseClient"} => pc'[t] # "idle"
  PROVE  audience' = audience
<1>1. audience' = [q \in Queue |-> {id \in ClientId : id \in audience[q]}]
  BY DEF Record, Returns, Goes
<1>2. audience = [q \in Queue |-> audience[q]] /\ \A q \in Queue : audience[q] \subseteq ClientId
  BY DEF AudienceInv
<1> QED BY <1>1, <1>2

\* Only two steps end there: changeSubscription_impl and eraseClient.
LEMMA QuietSteps ==
  ASSUME TypeOK, Next, \A t \in Thread : ~InsertListener(t) /\ ~EraseClient(t)
  PROVE  /\ \A t \in Thread : pc[t] \in {"insert", "eraseClient"} => pc'[t] # "idle"
         /\ subs' = subs
<1>1. ASSUME NEW t \in Thread, Call(t) \/ Step(t)
      PROVE  (pc[t] \in {"insert", "eraseClient"} => pc'[t] # "idle") /\ subs' = subs
  <2>1. CASE Call(t)
    BY <2>1 DEF Call, createQueue, changeSubscription, onDisconnect, publish,
       getQueuesDescription, Enter, Idle, store
  <2>2. CASE Step(t)
    BY <2>2 DEF Step, CreateEmplace, ChangeLock, CheckClient, PublishSnapshot, Deliver,
       DeliverThrows, PublishDone, DescribeLock, DescribeQueue, DescribeDone, store
  <2> QED BY <1>1, <2>1, <2>2
<1>2. ASSUME onNewConnection
      PROVE  (\A t \in Thread : pc[t] \in {"insert", "eraseClient"} => pc'[t] # "idle") /\ subs' = subs
  BY <1>2 DEF onNewConnection, store
<1>3. ASSUME NEW t \in Thread, Call(t) \/ Step(t), NEW u \in Thread \ {t},
             pc[u] \in {"insert", "eraseClient"}
      PROVE  pc'[u] # "idle"
  BY <1>3, OthersStay
<1> QED BY <1>1, <1>2, <1>3 DEF Next

\* A listener that receives messages is put there by a Subscribe, which adds
\* the client to the audience, and goes with it.
LEMMA AudienceStep ==
  TypeOK /\ CallsInv /\ AudienceInv /\ [Next /\ Record]_<<vars, history>> => AudienceInv'
<1> SUFFICES ASSUME TypeOK, CallsInv, AudienceInv, [Next /\ Record]_<<vars, history>>
             PROVE  AudienceInv'
  OBVIOUS
<1>1. CASE UNCHANGED <<vars, history>>
  BY <1>1 DEF vars, history, AudienceInv, Listens, Receives
<1>2. ASSUME Next, Record, \A t \in Thread : ~InsertListener(t) /\ ~EraseClient(t)
      PROVE  AudienceInv'
  <2>1. audience' = audience /\ subs' = subs
    BY <1>2, QuietSteps, AudienceStays
  <2> QED BY <2>1 DEF AudienceInv, Listens, Receives
<1>3. ASSUME Record
      PROVE  /\ audience' \in [Queue -> SUBSET ClientId]
             /\ \A q \in Queue : \A id \in ClientId : id \in audience'[q] <=>
                  \/ Returns(q, id, "Subscribe")
                  \/ id \in audience[q] /\ ~Returns(q, id, "Unsubscribe") /\ ~Goes(id)
  BY <1>3 DEF Record
<1>4. ASSUME NEW t \in Thread, InsertListener(t), Record PROVE AudienceInv'
  <2> DEFINE q == arg[t].queue
             c == arg[t].id
  <2>1. /\ arg[t] \in SubscriptionCall /\ q \in Queue /\ c \in Id
        /\ subs'[q][c] = Changed(subs[q][c], arg[t])
        /\ \A r \in Queue, i \in Id : r # q \/ i # c => subs'[r][i] = subs[r][i]
        /\ pc[t] = "insert" /\ pc'[t] = "idle"
    BY <1>4, InsertChanges
  <2>2. c \in ClientId
    BY <2>1, CallersAreClients DEF CallsInv, SubscriptionSteps
  <2>3. \A u \in Thread : pc[u] # "idle" /\ pc'[u] = "idle" => u = t
    BY <1>4, OthersStay DEF Step
  <2>4. /\ \A r \in Queue, i \in Id, action \in SubscribeActions :
             Returns(r, i, action) <=> r = q /\ i = c /\ action = arg[t].action
        /\ \A i \in Id : ~Goes(i)
    BY <2>1, <2>3 DEF Returns, Goes
  <2> SUFFICES ASSUME NEW r \in Queue, NEW i \in Id, Listens(r, i)', Receives(subs[r][i])'
               PROVE  i \in audience'[r]
    BY <1>3, <1>4 DEF AudienceInv
  <2>5. CASE r = q /\ i = c
    <3>1. Changed(subs[q][c], arg[t]) # None /\ Receives(Changed(subs[q][c], arg[t]))
      BY <2>1, <2>5 DEF Listens, Receives
    <3>2. arg[t].action \in SubscribeActions /\ subs[q][c] \in QueueListener \cup {None}
      BY <2>1, SMTT(30) DEF SubscriptionCall, TypeOK
    <3>3. CASE arg[t].action = "Subscribe"
      BY <1>3, <1>4, <2>1, <2>2, <2>4, <2>5, <3>3 DEF SubscribeActions
    <3>4. CASE arg[t].action = "Unsubscribe"
      BY <3>1, <3>4 DEF Changed
    <3>5. CASE arg[t].action = "Create"
      <4>1. subs[q][c] # None
        <5> SUFFICES ASSUME subs[q][c] = None PROVE FALSE
          OBVIOUS
        <5>1. Changed(subs[q][c], arg[t]) = [isowner |-> TRUE, issubscribed |-> FALSE, tag |-> arg[t].tag]
          BY <3>5 DEF Changed
        <5> QED BY <3>1, <5>1, SMTT(30) DEF Receives
      <4>2. Changed(subs[q][c], arg[t]) = subs[q][c]
        BY <3>5, <4>1 DEF Changed
      <4>3. c \in audience[q]
        BY <2>1, <3>1, <4>1, <4>2 DEF AudienceInv, Listens
      <4> QED BY <1>3, <1>4, <2>1, <2>2, <2>4, <2>5, <3>5, <4>3 DEF SubscribeActions
    <3> QED BY <3>2, <3>3, <3>4, <3>5 DEF SubscribeActions
  <2>6. CASE r # q \/ i # c
    <3>1. i \in audience[r] /\ i \in ClientId
      BY <2>1, <2>6 DEF AudienceInv, Listens, Receives
    <3>2. ~Returns(r, i, "Unsubscribe") /\ ~Goes(i)
      BY <2>4, <2>6 DEF SubscribeActions
    <3> QED BY <1>3, <1>4, <3>1, <3>2
  <2> QED BY <2>5, <2>6
<1>5. ASSUME NEW t \in Thread, EraseClient(t), Record PROVE AudienceInv'
  <2> DEFINE c == arg[t].client
  <2>1. /\ pc[t] = "eraseClient"
        /\ \A q \in Queue, i \in Id : subs'[q][i] = IF i = c THEN None ELSE subs[q][i]
    BY <1>5 DEF EraseClient, TypeOK, DisconnectCall
  <2>2. \A u \in Thread : pc[u] # "idle" /\ pc'[u] = "idle" => u = t
    BY <1>5, OthersStay DEF Step
  <2>3. /\ \A q \in Queue, i \in Id, action \in SubscribeActions : ~Returns(q, i, action)
        /\ \A i \in Id : Goes(i) => i = c
    BY <2>1, <2>2 DEF Returns, Goes
  <2> SUFFICES ASSUME NEW q \in Queue, NEW i \in Id, Listens(q, i)', Receives(subs[q][i])'
               PROVE  i \in audience'[q]
    BY <1>3, <1>5 DEF AudienceInv
  <2>4. i # c /\ subs'[q][i] = subs[q][i]
    BY <2>1 DEF Listens
  <2>5. i \in audience[q] /\ i \in ClientId
    BY <2>4 DEF AudienceInv, Listens, Receives
  <2> QED BY <1>3, <1>5, <2>3, <2>4, <2>5 DEF SubscribeActions
<1> QED BY <1>1, <1>2, <1>4, <1>5

\* While a publish delivers, what it has to deliver only gets less.
LEMMA TodoShrinks ==
  ASSUME TypeOK, Next, NEW t \in Thread, pc[t] = "deliver", pc'[t] = "deliver"
  PROVE  todo'[t] \subseteq todo[t]
<1>1. ASSUME NEW u \in Thread, Call(u) \/ Step(u), u # t PROVE todo'[t] = todo[t]
  BY <1>1, OthersStay
<1>2. ASSUME Call(t) \/ Step(t) PROVE todo'[t] \subseteq todo[t]
  <2>1. Deliver(t) \/ todo' = todo
    BY <1>2 DEF Call, createQueue, changeSubscription, onDisconnect, publish,
       getQueuesDescription, Enter, Step, CreateEmplace, ChangeLock, CheckClient,
       InsertListener, EraseClient, PublishSnapshot, DeliverThrows, PublishDone,
       DescribeLock, DescribeQueue, DescribeDone, Leave, Idle, local, TypeOK
  <2> QED BY <2>1 DEF Deliver, TypeOK
<1>3. ASSUME onNewConnection PROVE todo'[t] = todo[t]
  BY <1>3 DEF onNewConnection, local
<1> QED BY <1>1, <1>2, <1>3 DEF Next

\* The history of the publishes fits the state.
LEMMA PubStep ==
  TypeOK /\ TypeOK' /\ AudienceInv' /\ PubInv /\ [Next /\ Record]_<<vars, history>> => PubInv'
<1> SUFFICES ASSUME TypeOK, TypeOK', AudienceInv', PubInv, [Next /\ Record]_<<vars, history>>
             PROVE  PubInv'
  OBVIOUS
<1>1. CASE UNCHANGED <<vars, history>>
  BY <1>1 DEF vars, history, PubInv, Publishing
<1>2. CASE Next /\ Record
  <2>1. \A t \in Thread :
          /\ owed'[t] = IF ~Publishing(t)' THEN {}
               ELSE (IF Publishing(t) THEN owed[t] ELSE ClientId) \cap member'[arg'[t].queue]
          /\ may'[t] = IF ~Publishing(t)' THEN {} ELSE may[t] \cup audience'[arg'[t].queue]
          /\ sent'[t] = IF pc[t] = "deliver" /\ pc'[t] = "deliver"
               THEN sent[t] \cup (todo[t] \ todo'[t]) ELSE {}
    BY <1>2 DEF Record
  <2>2. \A t \in Thread : Publishing(t)' => arg'[t].queue \in Queue
    BY DEF TypeOK, Publishing, PublishCall
  <2>3. may' \in [Thread -> SUBSET ClientId]
    <3>1. may' = [t \in Thread |-> may'[t]]
      BY <1>2 DEF Record
    <3>2. ASSUME NEW t \in Thread PROVE may'[t] \subseteq ClientId
      <4>1. may[t] \subseteq ClientId
        BY DEF PubInv
      <4>2. CASE Publishing(t)'
        <5>1. audience'[arg'[t].queue] \subseteq ClientId
          BY <2>2, <4>2 DEF AudienceInv
        <5> QED BY <2>1, <4>1, <4>2, <5>1
      <4> QED BY <2>1, <4>2
    <3> QED BY <3>1, <3>2
  <2>4. sent' \in [Thread -> SUBSET ClientId]
    <3>1. sent' = [t \in Thread |-> sent'[t]]
      BY <1>2 DEF Record
    <3>2. ASSUME NEW t \in Thread PROVE sent'[t] \subseteq ClientId
      <4>1. sent[t] \subseteq ClientId /\ may[t] \subseteq ClientId
            /\ (pc[t] = "deliver" => todo[t] \subseteq may[t])
        BY DEF PubInv
      <4> QED BY <2>1, <4>1
    <3> QED BY <3>1, <3>2
  <2>5. ASSUME NEW t \in Thread, pc'[t] = "deliver", pc[t] = "deliver"
        PROVE  todo'[t] \subseteq may'[t] /\ todo'[t] \cap sent'[t] = {}
    <3>1. todo'[t] \subseteq todo[t]
      BY <1>2, <2>5, TodoShrinks
    <3>2. todo[t] \subseteq may[t] /\ todo[t] \cap sent[t] = {}
      BY <2>5 DEF PubInv
    <3>3. may[t] \subseteq may'[t] /\ sent'[t] = sent[t] \cup (todo[t] \ todo'[t])
      BY <2>1, <2>5 DEF Publishing, PublishSteps
    <3> QED BY <3>1, <3>2, <3>3
  <2>6. ASSUME NEW t \in Thread, pc'[t] = "deliver", pc[t] # "deliver"
        PROVE  todo'[t] \subseteq may'[t] /\ todo'[t] \cap sent'[t] = {}
    <3>1. PublishSnapshot(t)
      BY <1>2, <2>6, SnapshotFirst
    <3>2. /\ arg'[t] = arg[t] /\ subs' = subs /\ arg[t].queue \in Queue
          /\ todo'[t] = Targets(arg[t].queue, arg[t].tag)
      BY <3>1 DEF PublishSnapshot, Goto, TypeOK, PublishSteps, PublishCall, store
    <3>3. Targets(arg[t].queue, arg[t].tag) \subseteq audience'[arg[t].queue]
      BY <3>2 DEF Targets, Listeners, AudienceInv, Listens, Receives
    <3>4. audience'[arg[t].queue] \subseteq may'[t] /\ sent'[t] = {}
      BY <2>1, <2>6, <3>2 DEF Publishing, PublishSteps
    <3> QED BY <3>2, <3>3, <3>4
  <2>7. ASSUME NEW t \in Thread
        PROVE  /\ Publishing(t)' => /\ owed'[t] \subseteq member'[arg'[t].queue]
                                    /\ audience'[arg'[t].queue] \subseteq may'[t]
               /\ ~Publishing(t)' => may'[t] = {}
               /\ pc'[t] # "deliver" => sent'[t] = {}
    <3>1. CASE Publishing(t)'
      <4>1. \/ owed'[t] = owed[t] \cap member'[arg'[t].queue]
            \/ owed'[t] = ClientId \cap member'[arg'[t].queue]
        BY <2>1, <3>1
      <4>2. may'[t] = may[t] \cup audience'[arg'[t].queue]
        BY <2>1, <3>1
      <4>3. pc'[t] # "deliver" => sent'[t] = {}
        BY <2>1
      <4> QED BY <3>1, <4>1, <4>2, <4>3
    <3>2. CASE ~Publishing(t)'
      BY <2>1, <3>2
    <3> QED BY <3>1, <3>2
  <2> QED BY <2>3, <2>4, <2>5, <2>6, <2>7 DEF PubInv
<1> QED BY <1>1, <1>2

\* A thread that publishes has not failed.
LEMMA FailedStep ==
  FailedInv /\ [Next /\ Record]_<<vars, history>> => FailedInv'
<1>1. FailedInv /\ Record => FailedInv'
  BY DEF FailedInv, Record, Publishing, PublishSteps
<1>2. FailedInv /\ UNCHANGED <<vars, history>> => FailedInv'
  BY DEF FailedInv, Publishing, vars, history
<1> QED BY <1>1, <1>2

-----------------------------------------------------------------------------
(* Steps as the broker sees them. *)

\* Thread t is in the same publish, or in none, before and after the step, and
\* it has reached the same clients.
Keeps(t) ==
  /\ Publishing(t)' <=> Publishing(t)
  /\ Publishing(t) => arg'[t].queue = arg[t].queue
  /\ sent'[t] = sent[t]

\* A publish in progress is not None.
LEMMA PubIsPublish ==
  ASSUME TypeOK, OwedInv, PubInv, NEW t \in Thread, Publishing(t)
  PROVE  PubOf(t) # None
<1>1. arg[t].queue \in Queue
  BY DEF TypeOK, Publishing, PublishCall
<1>2. owed[t] \in SUBSET ClientId /\ may[t] \in SUBSET ClientId /\ sent[t] \in SUBSET ClientId
  BY DEF OwedInv, PubInv
<1>3. PubOf(t) \in Broker!Publish
  BY <1>1, <1>2 DEF PubOf, Broker!Publish
<1> QED BY <1>3, NoneIsNoPublish

\* The publish of a thread that keeps it follows the members and the audience.
LEMMA PubFollows ==
  ASSUME Record, NEW t \in Thread, Keeps(t)
  PROVE  PubOf(t)' =
           IF ~Publishing(t) THEN None
             ELSE Broker!Progress(arg[t].queue, owed[t] \cap member'[arg[t].queue],
                                  may[t] \cup audience'[arg[t].queue], sent[t])
<1>1. CASE ~Publishing(t)
  BY <1>1 DEF Keeps, PubOf
<1>2. CASE Publishing(t)
  <2>1. Publishing(t)' /\ arg'[t].queue = arg[t].queue /\ sent'[t] = sent[t]
    BY <1>2 DEF Keeps
  <2>2. owed'[t] = owed[t] \cap member'[arg[t].queue]
    BY <1>2, <2>1 DEF Record
  <2>3. may'[t] = may[t] \cup audience'[arg[t].queue]
    BY <1>2, <2>1 DEF Record
  <2> QED BY <1>2, <2>1, <2>2, <2>3 DEF PubOf, Broker!Progress
<1> QED BY <1>1, <1>2

\* If neither changes, it stays as it is.
LEMMA PubStays ==
  ASSUME PubInv, Record, member' = member, audience' = audience, NEW t \in Thread, Keeps(t)
  PROVE  PubOf(t)' = PubOf(t)
<1>1. CASE ~Publishing(t)
  BY <1>1, PubFollows DEF PubOf
<1>2. CASE Publishing(t)
  <2>1. owed[t] \cap member'[arg[t].queue] = owed[t] /\ may[t] \cup audience'[arg[t].queue] = may[t]
    BY <1>2 DEF PubInv
  <2> QED BY <1>2, <2>1, PubFollows DEF PubOf, Broker!Progress
<1> QED BY <1>1, <1>2

\* Nobody is told anything new when nobody ends or starts a publish.
LEMMA FailedStays ==
  ASSUME FailedInv, Record, \A t \in Thread : Keeps(t)
  PROVE  failed' = failed
<1>1. \A t \in Thread : ~(pc[t] = "deliver" /\ pc'[t] = "throw")
  BY DEF Keeps, Publishing, PublishSteps
<1> QED BY <1>1 DEF FailedInv, Record, Keeps

LEMMA Follows ==
  ASSUME TypeOK, OwedInv, PubInv, FailedInv, Record, \A t \in Thread : Keeps(t)
  PROVE  Broker!Follow
<1>1. ASSUME NEW t \in Thread
      PROVE  PubOf(t)' =
               IF PubOf(t) = None THEN None
                 ELSE Broker!Progress(PubOf(t).queue, PubOf(t).owed \cap member'[PubOf(t).queue],
                        PubOf(t).may \cup audience'[PubOf(t).queue], PubOf(t).reached)
  <2>1. CASE ~Publishing(t)
    BY <2>1, PubFollows DEF PubOf
  <2>2. CASE Publishing(t)
    <3>1. PubOf(t) # None
      BY <2>2, PubIsPublish
    <3>2. /\ PubOf(t).queue = arg[t].queue /\ PubOf(t).owed = owed[t]
          /\ PubOf(t).may = may[t] /\ PubOf(t).reached = sent[t]
      BY <2>2 DEF PubOf
    <3> QED BY <2>2, <3>1, <3>2, PubFollows
  <2> QED BY <2>1, <2>2
<1>2. failed' = failed
  BY FailedStays
<1> QED BY <1>1, <1>2 DEF Broker!Follow

\* A thread that does not move keeps its publish.
LEMMA UnmovedKeeps ==
  ASSUME PubInv, Record, NEW t \in Thread,
         pc'[t] = pc[t], arg'[t] = arg[t], todo'[t] = todo[t]
  PROVE  Keeps(t)
<1>1. Publishing(t)' <=> Publishing(t)
  BY DEF Publishing
<1>2. CASE pc[t] = "deliver"
  BY <1>1, <1>2 DEF Keeps, Record
<1>3. CASE pc[t] # "deliver"
  BY <1>1, <1>3 DEF Keeps, Record, PubInv
<1> QED BY <1>2, <1>3

\* So does one that is in no publish, before and after, and one that copies
\* the listeners.
LEMMA MovedKeeps ==
  ASSUME PubInv, Record, NEW t \in Thread,
         \/ ~Publishing(t) /\ ~Publishing(t)'
         \/ pc[t] = "snapshot" /\ pc'[t] = "deliver" /\ arg'[t] = arg[t]
  PROVE  Keeps(t)
<1>1. sent'[t] = {} /\ sent[t] = {}
  BY DEF Record, PubInv, Publishing, PublishSteps
<1> QED BY <1>1 DEF Keeps, Publishing, PublishSteps

\* A step of thread t changes the publish of t only.
LEMMA OthersKeep ==
  ASSUME TypeOK, PubInv, Record, NEW t \in Thread, Call(t) \/ Step(t)
  PROVE  \A u \in Thread \ {t} : Keeps(u)
BY OthersStay, UnmovedKeeps

\* Who stays a member when nobody joins.
LEMMA WhoStays ==
  ASSUME MemberInv, Record, \A q \in Queue, id \in ClientId : ~Joins(q, id)
  PROVE  /\ member' = [q \in Queue |-> {id \in member[q] : ~Quits(q, id)}]
         /\ member = [q \in Queue |-> member[q]]
<1>1. \A q \in Queue : member[q] \subseteq ClientId
  BY DEF MemberInv
<1>2. member' = [q \in Queue |-> {id \in ClientId : id \in member[q] /\ ~Quits(q, id)}]
  BY DEF Record
<1>3. \A q \in Queue : {id \in ClientId : id \in member[q] /\ ~Quits(q, id)} = {id \in member[q] : ~Quits(q, id)}
  BY <1>1
<1> QED BY <1>2, <1>3 DEF MemberInv

\* The members stay when no user goes and no change of subscription starts.
LEMMA MembersUnchanged ==
  ASSUME MemberInv, Record, users \subseteq users',
         \A q \in Queue, id \in ClientId : ~Joins(q, id),
         \A t \in Thread : pc'[t] = "change" => pc[t] = "change" /\ arg'[t] = arg[t]
  PROVE  member' = member
<1>1. ASSUME NEW q \in Queue, NEW id \in member[q] PROVE ~Quits(q, id)
  <2>1. id \in users /\ \A t \in Thread : ~Changes(t, q, id)
    BY DEF MemberInv
  <2> QED BY <2>1 DEF Quits, Changes
<1>2. \A q \in Queue : {id \in member[q] : ~Quits(q, id)} = member[q]
  BY <1>1
<1> QED BY <1>2, WhoStays

-----------------------------------------------------------------------------
(* One lemma per kind of step. *)

\* A thread ends no change of subscription and no disconnect, starts none, and
\* keeps its publish.
Quiet(t) ==
  /\ pc[t] \in {"insert", "eraseClient"} => pc'[t] # "idle"
  /\ pc'[t] = "change" => pc[t] = "change" /\ arg'[t] = arg[t]
  /\ Keeps(t)

\* A step of quiet threads is none of the broker's.
LEMMA Stutters ==
  ASSUME MemberInv, AudienceInv, PubInv, FailedInv, Record, users \subseteq users',
         \A t \in Thread : Quiet(t)
  PROVE  UNCHANGED Broker!vars
<1>1. \A q \in Queue, id \in ClientId : ~Joins(q, id)
  BY DEF Joins, Quiet
<1>2. member' = member
  BY <1>1, MembersUnchanged DEF Quiet
<1>3. audience' = audience
  BY AudienceStays DEF Quiet
<1>4. \A t \in Thread : PubOf(t)' = PubOf(t)
  BY <1>2, <1>3, PubStays DEF Quiet
<1>5. failed' = failed
  BY FailedStays DEF Quiet
<1> QED BY <1>2, <1>3, <1>4, <1>5 DEF Broker!vars

\* The threads that do not take the step are quiet.
LEMMA OthersQuiet ==
  ASSUME TypeOK, PubInv, Record, NEW t \in Thread, Call(t) \/ Step(t)
  PROVE  \A u \in Thread \ {t} : Quiet(u)
BY OthersStay, OthersKeep DEF Quiet

\* createQueue, the description, the first steps of a change of subscription,
\* the copy of the listeners and a publish to no queue do not show.
LEMMA HiddenSteps ==
  ASSUME TypeOK, MemberInv, AudienceInv, PubInv, FailedInv, Record, NEW t \in Thread,
         \/ \E id \in Caller, q \in Queue : createQueue(t, id, q)
         \/ getQueuesDescription(t)
         \/ \E q \in Queue, tag \in Tag : publish(t, q, tag) /\ ~queueIsExists(q)
         \/ CreateEmplace(t) \/ ChangeLock(t) \/ CheckClient(t) \/ PublishSnapshot(t)
         \/ DescribeLock(t) \/ (\E q \in Queue : DescribeQueue(t, q)) \/ DescribeDone(t)
  PROVE  UNCHANGED Broker!vars
<1>1. Call(t) \/ Step(t)
  BY DEF Call, Step
<1>2. /\ users' = users
      /\ pc[t] \in {"insert", "eraseClient"} => pc'[t] # "idle"
      /\ pc'[t] # "change"
      /\ \/ ~Publishing(t) /\ ~Publishing(t)'
         \/ pc[t] = "snapshot" /\ pc'[t] = "deliver" /\ arg'[t] = arg[t]
  <2>1. CASE \/ \E id \in Caller, q \in Queue : createQueue(t, id, q)
             \/ getQueuesDescription(t)
             \/ \E q \in Queue, tag \in Tag : publish(t, q, tag) /\ ~queueIsExists(q)
    BY <2>1 DEF createQueue, getQueuesDescription, publish, Enter, Idle, clients, Publishing,
       PublishSteps, TypeOK
  <2>2. CASE CreateEmplace(t) \/ ChangeLock(t) \/ CheckClient(t) \/ PublishSnapshot(t)
    BY <2>2 DEF CreateEmplace, ChangeLock, CheckClient, PublishSnapshot, Leave, Goto, clients,
       Publishing, PublishSteps, TypeOK
  <2>3. CASE DescribeLock(t) \/ (\E q \in Queue : DescribeQueue(t, q)) \/ DescribeDone(t)
    BY <2>3 DEF DescribeLock, DescribeQueue, DescribeDone, Leave, Goto, clients,
       Publishing, PublishSteps, TypeOK
  <2> QED BY <2>1, <2>2, <2>3
<1>3. Quiet(t)
  BY <1>2, MovedKeeps DEF Quiet
<1> QED BY <1>1, <1>2, <1>3, OthersQuiet, Stutters

\* Neither does a new connection.
LEMMA ConnectionHidden ==
  ASSUME TypeOK, MemberInv, AudienceInv, PubInv, FailedInv, Record, onNewConnection
  PROVE  UNCHANGED Broker!vars
<1>1. users \subseteq users' /\ pc' = pc /\ arg' = arg /\ todo' = todo
  BY DEF onNewConnection, local
<1>2. \A t \in Thread : Quiet(t)
  BY <1>1, UnmovedKeeps DEF Quiet
<1> QED BY <1>1, <1>2, Stutters

\* A change of subscription starts: the broker's Quit.
LEMMA ChangeQuits ==
  ASSUME TypeOK, MemberInv, OwedInv, AudienceInv, PubInv, FailedInv, Record, NEW t \in Thread,
         NEW id \in ClientId, NEW q \in Queue, NEW tag, NEW action,
         changeSubscription(t, action, id, q, tag), Call(t)
  PROVE  Broker!Quit(q, id)
<1>1. /\ users' = users /\ pc[t] \in Idle
      /\ pc'[t] = "change" /\ arg'[t].id = id /\ arg'[t].queue = q
  BY DEF changeSubscription, Enter, clients, TypeOK
<1>2. \A u \in Thread \ {t} : Quiet(u)
  BY OthersQuiet
<1>3. Keeps(t)
  BY <1>1, MovedKeeps DEF Publishing, PublishSteps, Idle
<1>4. \A u \in Thread : pc[u] \in {"insert", "eraseClient"} => pc'[u] # "idle"
  BY <1>1, <1>2 DEF Quiet
<1>5. \A r \in Queue, i \in ClientId : ~Joins(r, i)
  BY <1>4 DEF Joins
<1>6. ASSUME NEW r \in Queue, NEW i \in member[r] PROVE Quits(r, i) <=> r = q /\ i = id
  <2>1. i \in users /\ \A u \in Thread : ~Changes(u, r, i)
    BY DEF MemberInv
  <2>2. \A u \in Thread \ {t} : pc'[u] = "change" => ~(arg'[u].id = i /\ arg'[u].queue = r)
    BY <1>2, <2>1 DEF Quiet, Changes
  <2> QED BY <1>1, <2>1, <2>2 DEF Quits
<1>7. member' = [member EXCEPT ![q] = @ \ {id}]
  <2>1. /\ member' = [r \in Queue |-> {i \in member[r] : ~Quits(r, i)}]
        /\ member = [r \in Queue |-> member[r]]
    BY <1>5, WhoStays
  <2>2. \A r \in Queue : {i \in member[r] : ~Quits(r, i)} = IF r = q THEN member[r] \ {id} ELSE member[r]
    BY <1>6
  <2> QED BY <2>1, <2>2
<1>8. audience' = audience
  BY <1>4, AudienceStays
<1>9. Broker!Follow
  BY <1>2, <1>3, Follows DEF Quiet
<1> QED BY <1>7, <1>8, <1>9 DEF Broker!Quit

\* The user is erased: the broker's Disconnect.
LEMMA DisconnectQuits ==
  ASSUME TypeOK, MemberInv, OwedInv, AudienceInv, PubInv, FailedInv, Record, NEW t \in Thread,
         NEW id \in ClientId, onDisconnect(t, id), Call(t)
  PROVE  Broker!Disconnect(id)
<1>1. users' = users \ {id} /\ pc[t] \in Idle /\ pc'[t] = "eraseClient"
  BY DEF onDisconnect, Enter, TypeOK
<1>2. \A u \in Thread \ {t} : Quiet(u)
  BY OthersQuiet
<1>3. Keeps(t)
  BY <1>1, MovedKeeps DEF Publishing, PublishSteps, Idle
<1>4. \A u \in Thread : pc[u] \in {"insert", "eraseClient"} => pc'[u] # "idle"
  BY <1>1, <1>2 DEF Quiet
<1>5. \A r \in Queue, i \in ClientId : ~Joins(r, i)
  BY <1>4 DEF Joins
<1>6. ASSUME NEW r \in Queue, NEW i \in member[r] PROVE Quits(r, i) <=> i = id
  <2>1. i \in users /\ \A u \in Thread : ~Changes(u, r, i)
    BY DEF MemberInv
  <2>2. \A u \in Thread : pc'[u] = "change" => ~(arg'[u].id = i /\ arg'[u].queue = r)
    BY <1>1, <1>2, <2>1 DEF Quiet, Changes
  <2> QED BY <1>1, <2>1, <2>2 DEF Quits
<1>7. member' = [r \in Queue |-> member[r] \ {id}]
  <2>1. member' = [r \in Queue |-> {i \in member[r] : ~Quits(r, i)}]
    BY <1>5, WhoStays
  <2>2. \A r \in Queue : {i \in member[r] : ~Quits(r, i)} = member[r] \ {id}
    BY <1>6
  <2> QED BY <2>1, <2>2
<1>8. audience' = audience
  BY <1>4, AudienceStays
<1>9. Broker!Follow
  BY <1>2, <1>3, Follows DEF Quiet
<1> QED BY <1>7, <1>8, <1>9 DEF Broker!Disconnect

\* The client leaves the queues: the broker's Forget.
LEMMA EraseForgets ==
  ASSUME TypeOK, UsersInv, MemberInv, OwedInv, AudienceInv, PubInv, FailedInv, Record,
         NEW t \in Thread, EraseClient(t)
  PROVE  arg[t].client \in ClientId /\ Broker!Forget(arg[t].client)
<1> DEFINE c == arg[t].client
<1>1. /\ users' = users /\ pc[t] = "eraseClient" /\ pc'[t] = "idle" /\ c \in ClientId
  BY DEF EraseClient, Leave, clients, TypeOK, DisconnectCall
<1>2. \A u \in Thread \ {t} : Quiet(u)
  BY OthersQuiet DEF Step
<1>3. Keeps(t)
  BY <1>1, MovedKeeps DEF Publishing, PublishSteps
<1>4. \A q \in Queue : c \notin member[q]
  BY <1>1 DEF UsersInv, MemberInv
<1>5. /\ \A q \in Queue, i \in ClientId, action \in SubscribeActions : ~Returns(q, i, action)
      /\ \A q \in Queue, i \in ClientId : ~Joins(q, i)
      /\ \A i \in ClientId : Goes(i) <=> i = c
  BY <1>1, <1>2 DEF Returns, Joins, Goes, Quiet
<1>6. member' = member
  BY <1>1, <1>2, <1>5, MembersUnchanged DEF Quiet
<1>7. audience' = [q \in Queue |-> audience[q] \ {c}]
  <2>1. audience' = [q \in Queue |-> {i \in ClientId :
          \/ Returns(q, i, "Subscribe")
          \/ i \in audience[q] /\ ~Returns(q, i, "Unsubscribe") /\ ~Goes(i)}]
    BY DEF Record
  <2>2. ASSUME NEW q \in Queue
        PROVE  {i \in ClientId : \/ Returns(q, i, "Subscribe")
                                 \/ i \in audience[q] /\ ~Returns(q, i, "Unsubscribe") /\ ~Goes(i)}
                 = audience[q] \ {c}
    <3>1. audience[q] \subseteq ClientId
      BY DEF AudienceInv
    <3> QED BY <1>5, <3>1 DEF SubscribeActions
  <2> QED BY <2>1, <2>2
<1>8. Broker!Follow
  BY <1>2, <1>3, Follows DEF Quiet
<1> QED BY <1>1, <1>4, <1>6, <1>7, <1>8 DEF Broker!Forget

\* changeSubscription_impl ends: the broker's Subscribe or Unsubscribe, or
\* nothing for the listener of a new owner.
LEMMA InsertShows ==
  ASSUME TypeOK, CallsInv, MemberInv, OwedInv, AudienceInv, PubInv, FailedInv, Record,
         NEW t \in Thread, InsertListener(t)
  PROVE  /\ arg[t].queue \in Queue /\ arg[t].id \in ClientId
         /\ \/ Broker!Subscribe(arg[t].queue, arg[t].id)
            \/ Broker!Unsubscribe(arg[t].queue, arg[t].id)
            \/ UNCHANGED Broker!vars
<1> DEFINE q == arg[t].queue
           c == arg[t].id
<1>1. /\ arg[t] \in SubscriptionCall /\ q \in Queue
      /\ users' = users /\ pc[t] = "insert" /\ pc'[t] = "idle"
  BY InsertChanges DEF InsertListener, clients
<1>2. c \in ClientId /\ arg[t].action \in SubscribeActions
  BY <1>1, CallersAreClients DEF CallsInv, SubscriptionSteps, SubscriptionCall
<1>3. \A u \in Thread \ {t} : Quiet(u)
  BY OthersQuiet DEF Step
<1>4. Keeps(t)
  BY <1>1, MovedKeeps DEF Publishing, PublishSteps
<1>5. Broker!Follow
  BY <1>3, <1>4, Follows DEF Quiet
<1>6. /\ \A r \in Queue, i \in ClientId, action \in SubscribeActions :
           Returns(r, i, action) <=> r = q /\ i = c /\ action = arg[t].action
      /\ \A r \in Queue, i \in ClientId : Joins(r, i) => r = q /\ i = c /\ arg[t].action = "Subscribe"
      /\ \A i \in ClientId : ~Goes(i)
  BY <1>1, <1>3, SMTT(30) DEF Returns, Joins, Goes, Quiet
<1>7. audience' = [r \in Queue |-> {i \in ClientId :
        \/ Returns(r, i, "Subscribe")
        \/ i \in audience[r] /\ ~Returns(r, i, "Unsubscribe") /\ ~Goes(i)}]
  BY DEF Record
<1>8. audience = [r \in Queue |-> audience[r]] /\ \A r \in Queue : audience[r] \subseteq ClientId
  BY DEF AudienceInv
<1>9. \A u \in Thread : pc'[u] = "change" => pc[u] = "change" /\ arg'[u] = arg[u]
  BY <1>1, <1>3 DEF Quiet
<1>10. CASE arg[t].action = "Subscribe"
  <2>1. audience' = [audience EXCEPT ![q] = @ \cup {c}]
    <3>1. \A r \in Queue :
            {i \in ClientId : \/ Returns(r, i, "Subscribe")
                              \/ i \in audience[r] /\ ~Returns(r, i, "Unsubscribe") /\ ~Goes(i)}
              = IF r = q THEN audience[r] \cup {c} ELSE audience[r]
      BY <1>2, <1>6, <1>8, <1>10 DEF SubscribeActions
    <3> QED BY <1>1, <1>7, <1>8, <3>1
  <2>2. ASSUME NEW r \in Queue, NEW i \in member[r] PROVE ~Quits(r, i)
    <3>1. i \in users /\ \A u \in Thread : ~Changes(u, r, i)
      BY DEF MemberInv
    <3> QED BY <1>1, <1>9, <3>1 DEF Quits, Changes
  <2>3. member' = [r \in Queue |-> {i \in ClientId : Joins(r, i) \/ (i \in member[r] /\ ~Quits(r, i))}]
    BY DEF Record
  <2>4. member = [r \in Queue |-> member[r]] /\ \A r \in Queue : member[r] \subseteq ClientId
    BY DEF MemberInv
  <2>5. CASE Joins(q, c)
    <3>1. \A r \in Queue :
            {i \in ClientId : Joins(r, i) \/ (i \in member[r] /\ ~Quits(r, i))}
              = IF r = q THEN member[r] \cup {c} ELSE member[r]
      BY <1>2, <1>6, <2>2, <2>4, <2>5
    <3>2. member' = [member EXCEPT ![q] = @ \cup {c}]
      BY <1>1, <2>3, <2>4, <3>1
    <3> QED BY <1>1, <1>2, <1>5, <2>1, <3>2 DEF Broker!Subscribe
  <2>6. CASE ~Joins(q, c)
    <3>1. \A r \in Queue, i \in ClientId : ~Joins(r, i)
      BY <1>6, <2>6
    <3>2. member' = member
      BY <1>1, <1>9, <3>1, MembersUnchanged
    <3> QED BY <1>1, <1>2, <1>5, <2>1, <3>2 DEF Broker!Subscribe
  <2> QED BY <2>5, <2>6
<1>11. CASE arg[t].action # "Subscribe"
  <2>1. member' = member
    BY <1>1, <1>6, <1>9, <1>11, MembersUnchanged
  <2>2. CASE arg[t].action = "Unsubscribe"
    <3>1. \A r \in Queue :
            {i \in ClientId : \/ Returns(r, i, "Subscribe")
                              \/ i \in audience[r] /\ ~Returns(r, i, "Unsubscribe") /\ ~Goes(i)}
              = IF r = q THEN audience[r] \ {c} ELSE audience[r]
      BY <1>2, <1>6, <1>8, <2>2 DEF SubscribeActions
    <3>2. audience' = [audience EXCEPT ![q] = @ \ {c}]
      BY <1>1, <1>7, <1>8, <3>1
    <3>3. c \notin member[q]
      BY <1>1 DEF MemberInv, Changes
    <3> QED BY <1>1, <1>2, <1>5, <2>1, <3>2, <3>3 DEF Broker!Unsubscribe
  <2>3. CASE arg[t].action = "Create"
    <3>1. \A r \in Queue :
            {i \in ClientId : \/ Returns(r, i, "Subscribe")
                              \/ i \in audience[r] /\ ~Returns(r, i, "Unsubscribe") /\ ~Goes(i)}
              = audience[r]
      BY <1>6, <1>8, <2>3 DEF SubscribeActions
    <3>2. audience' = audience
      BY <1>7, <1>8, <3>1
    <3>3. \A u \in Thread : PubOf(u)' = PubOf(u)
      BY <1>3, <1>4, <2>1, <3>2, PubStays DEF Quiet
    <3>4. failed' = failed
      BY <1>3, <1>4, FailedStays DEF Quiet
    <3> QED BY <1>1, <1>2, <2>1, <3>2, <3>3, <3>4 DEF Broker!vars
  <2> QED BY <1>2, <1>11, <2>2, <2>3 DEF SubscribeActions
<1> QED BY <1>10, <1>11

\* A step of a publish changes neither the members nor the audience, nor the
\* publish of another thread.
LEMMA PublishAlone ==
  ASSUME TypeOK, MemberInv, AudienceInv, PubInv, FailedInv, Record, NEW t \in Thread,
         Call(t) \/ Step(t), users' = users, pc[t] \in Idle \cup PublishSteps, pc'[t] # "change"
  PROVE  /\ member' = member /\ audience' = audience
         /\ \A u \in Thread \ {t} : PubOf(u)' = PubOf(u) /\ (u \in failed' <=> u \in failed)
<1>1. \A u \in Thread \ {t} : Quiet(u)
  BY OthersQuiet
<1>2. \A u \in Thread : pc[u] \in {"insert", "eraseClient"} => pc'[u] # "idle"
  BY <1>1 DEF Quiet, Idle, PublishSteps
<1>3. member' = member
  <2>1. \A q \in Queue, id \in ClientId : ~Joins(q, id)
    BY <1>2 DEF Joins
  <2>2. \A u \in Thread : pc'[u] = "change" => pc[u] = "change" /\ arg'[u] = arg[u]
    BY <1>1 DEF Quiet
  <2> QED BY <2>1, <2>2, MembersUnchanged
<1>4. audience' = audience
  BY <1>2, AudienceStays
<1>5. \A u \in Thread \ {t} : PubOf(u)' = PubOf(u)
  BY <1>1, <1>3, <1>4, PubStays DEF Quiet
<1>6. ASSUME NEW u \in Thread \ {t} PROVE u \in failed' <=> u \in failed
  <2>1. ~(pc[u] = "deliver" /\ pc'[u] = "throw")
    BY <1>1 DEF Quiet, Keeps, Publishing, PublishSteps
  <2> QED BY <1>1, <2>1 DEF Record, FailedInv, Quiet, Keeps
<1> QED BY <1>3, <1>4, <1>5, <1>6

\* The queue is found: the broker's Begin.
LEMMA PublishBegins ==
  ASSUME TypeOK, MemberInv, AudienceInv, PubInv, FailedInv, Record, NEW t \in Thread,
         NEW q \in Queue, NEW tag \in Tag, publish(t, q, tag), queueIsExists(q)
  PROVE  Broker!Begin(t, q)
<1>1. /\ users' = users /\ pc[t] \in Idle
      /\ pc'[t] = "snapshot" /\ arg'[t].queue = q
  BY SMTT(30) DEF publish, Enter, clients, TypeOK
<1>2. ~Publishing(t) /\ Publishing(t)'
  BY <1>1 DEF Publishing, PublishSteps, Idle
<1>3. /\ member' = member /\ audience' = audience
      /\ \A u \in Thread \ {t} : PubOf(u)' = PubOf(u) /\ (u \in failed' <=> u \in failed)
  BY <1>1, PublishAlone DEF Call
<1>4. PubOf(t) = None
  BY <1>2 DEF PubOf
<1>5. PubOf(t)' = Broker!Progress(q, member[q], audience[q], {})
  <2>1. may[t] = {} /\ member[q] \subseteq ClientId
    BY <1>2 DEF PubInv, MemberInv
  <2>2. owed'[t] = member[q] /\ may'[t] = audience[q] /\ sent'[t] = {}
    BY <1>1, <1>2, <1>3, <2>1 DEF Record
  <2> QED BY <1>1, <1>2, <2>2 DEF PubOf, Broker!Progress
<1>6. failed' = failed \ {t}
  <2>1. t \notin failed' /\ failed' \subseteq Thread /\ failed \subseteq Thread
    BY <1>1, <1>2 DEF Record, FailedInv
  <2> QED BY <1>3, <2>1
<1> QED BY <1>3, <1>4, <1>5, <1>6 DEF Broker!Begin

\* The handler is called: the broker's Deliver.
LEMMA DeliverDelivers ==
  ASSUME TypeOK, MemberInv, OwedInv, AudienceInv, PubInv, FailedInv, Record, NEW t \in Thread,
         Deliver(t)
  PROVE  \E c \in ClientId : Broker!Deliver(t, c)
<1>1. PICK c \in todo[t] : todo' = [todo EXCEPT ![t] = @ \ {c}]
  BY DEF Deliver
<1>2. users' = users /\ pc[t] = "deliver" /\ pc' = pc /\ arg' = arg
  BY DEF Deliver, clients
<1>3. Publishing(t) /\ Publishing(t)'
  BY <1>2 DEF Publishing, PublishSteps
<1>4. /\ member' = member /\ audience' = audience
      /\ \A u \in Thread \ {t} : PubOf(u)' = PubOf(u) /\ (u \in failed' <=> u \in failed)
  BY <1>2, PublishAlone DEF Step, PublishSteps
<1>5. /\ todo[t] \subseteq may[t] /\ todo[t] \cap sent[t] = {} /\ may[t] \subseteq ClientId
      /\ owed[t] \subseteq member[arg[t].queue] /\ audience[arg[t].queue] \subseteq may[t]
  BY <1>2, <1>3 DEF PubInv
<1>6. owed'[t] = owed[t] /\ may'[t] = may[t] /\ sent'[t] = sent[t] \cup {c}
  <2>1. todo[t] \ todo'[t] = {c}
    BY <1>1 DEF TypeOK
  <2>2. owed'[t] = owed[t] \cap member'[arg'[t].queue]
    BY <1>3 DEF Record
  <2>3. may'[t] = may[t] \cup audience'[arg'[t].queue]
    BY <1>3 DEF Record
  <2>4. sent'[t] = sent[t] \cup {c}
    BY <1>2, <2>1 DEF Record
  <2> QED BY <1>2, <1>4, <1>5, <2>2, <2>3, <2>4
<1>7. PubOf(t) = Broker!Progress(arg[t].queue, owed[t], may[t], sent[t])
  BY <1>3 DEF PubOf, Broker!Progress
<1>8. PubOf(t)' = Broker!Progress(arg[t].queue, owed[t], may[t], sent[t] \cup {c})
  BY <1>2, <1>3, <1>6 DEF PubOf, Broker!Progress
<1>9. PubOf(t) # None
  BY <1>3, PubIsPublish
<1>10. failed' = failed
  <2>1. t \notin failed /\ t \notin failed' /\ failed \subseteq Thread /\ failed' \subseteq Thread
    BY <1>2, <1>3 DEF Record, FailedInv
  <2> QED BY <1>4, <2>1, SMTT(30)
<1>11. Broker!Deliver(t, c)
  <2>1. /\ PubOf(t).queue = arg[t].queue /\ PubOf(t).owed = owed[t]
        /\ PubOf(t).may = may[t] /\ PubOf(t).reached = sent[t]
    BY <1>7, SMTT(30) DEF Broker!Progress
  <2>2. PubOf(t)' = Broker!Progress(PubOf(t).queue, PubOf(t).owed, PubOf(t).may,
                                    PubOf(t).reached \cup {c})
    BY <1>8, <2>1
  <2>3. c \in PubOf(t).may \ PubOf(t).reached
    BY <1>1, <1>5, <2>1
  <2> QED BY <1>4, <1>9, <1>10, <2>2, <2>3 DEF Broker!Deliver
<1> QED BY <1>1, <1>5, <1>11

\* publish returns: the broker's Return.
LEMMA PublishReturns ==
  ASSUME TypeOK, MemberInv, OwedInv, AudienceInv, PubInv, FailedInv, Record, NEW t \in Thread,
         PublishDone(t)
  PROVE  Broker!Return(t)
<1>1. users' = users /\ pc[t] = "deliver" /\ todo[t] = {} /\ pc'[t] = "idle"
  BY DEF PublishDone, Leave, clients, TypeOK
<1>2. Publishing(t) /\ ~Publishing(t)'
  BY <1>1 DEF Publishing, PublishSteps
<1>3. /\ member' = member /\ audience' = audience
      /\ \A u \in Thread \ {t} : PubOf(u)' = PubOf(u) /\ (u \in failed' <=> u \in failed)
  BY <1>1, PublishAlone DEF Step, PublishSteps
<1>4. PubOf(t) # None /\ PubOf(t)' = None
  BY <1>2, PubIsPublish DEF PubOf
<1>5. PubOf(t).owed \subseteq PubOf(t).reached
  <2>1. owed[t] \subseteq sent[t]
    BY <1>1 DEF OwedInv
  <2> QED BY <1>2, <2>1 DEF PubOf
<1>6. failed' = failed
  <2>1. t \notin failed /\ t \notin failed' /\ failed \subseteq Thread /\ failed' \subseteq Thread
    BY <1>1, <1>2 DEF Record, FailedInv
  <2> QED BY <1>3, <2>1, SMTT(30)
<1>7. [u \in Thread |-> PubOf(u)]' = [[u \in Thread |-> PubOf(u)] EXCEPT ![t] = None]
  <2>1. \A u \in Thread : PubOf(u)' = IF u = t THEN None ELSE PubOf(u)
    BY <1>3, <1>4
  <2> QED BY <2>1
<1> QED BY <1>3, <1>4, <1>5, <1>6, <1>7 DEF Broker!Return

\* The handler throws: the broker's Fail.
LEMMA ThrowFails ==
  ASSUME TypeOK, MemberInv, OwedInv, AudienceInv, PubInv, FailedInv, Record, NEW t \in Thread,
         DeliverThrows(t)
  PROVE  Broker!Fail(t)
<1>1. users' = users /\ pc[t] = "deliver" /\ pc'[t] = "throw"
  BY DEF DeliverThrows, Leave, clients, TypeOK
<1>2. Publishing(t) /\ ~Publishing(t)'
  BY <1>1 DEF Publishing, PublishSteps
<1>3. /\ member' = member /\ audience' = audience
      /\ \A u \in Thread \ {t} : PubOf(u)' = PubOf(u) /\ (u \in failed' <=> u \in failed)
  BY <1>1, PublishAlone DEF Step, PublishSteps
<1>4. PubOf(t) # None /\ PubOf(t)' = None
  BY <1>2, PubIsPublish DEF PubOf
<1>5. failed' = failed \cup {t}
  <2>1. t \in failed' /\ failed \subseteq Thread /\ failed' \subseteq Thread
    BY <1>1 DEF Record, FailedInv
  <2> QED BY <1>3, <2>1
<1>6. [u \in Thread |-> PubOf(u)]' = [[u \in Thread |-> PubOf(u)] EXCEPT ![t] = None]
  <2>1. \A u \in Thread : PubOf(u)' = IF u = t THEN None ELSE PubOf(u)
    BY <1>3, <1>4
  <2> QED BY <2>1
<1> QED BY <1>3, <1>4, <1>5, <1>6 DEF Broker!Fail

-----------------------------------------------------------------------------
\* Every step of the node is one of the broker's or does not show.
LEMMA BrokerStep ==
  TypeOK /\ DeliveryInv /\ AudienceInv /\ PubInv /\ FailedInv /\ [Next /\ Record]_<<vars, history>>
    => [Broker!Next]_(Broker!vars)
<1> SUFFICES ASSUME TypeOK, CallsInv, UsersInv, MemberInv, OwedInv, AudienceInv, PubInv, FailedInv,
                    [Next /\ Record]_<<vars, history>>
             PROVE  [Broker!Next]_(Broker!vars)
  BY DEF DeliveryInv
<1>1. CASE UNCHANGED <<vars, history>>
  BY <1>1 DEF vars, history, Broker!vars, PubOf, Publishing
<1>2. ASSUME Record, onNewConnection PROVE [Broker!Next]_(Broker!vars)
  BY <1>2, ConnectionHidden
<1>3. ASSUME Record, NEW t \in Thread, Call(t) PROVE [Broker!Next]_(Broker!vars)
  <2>1. ASSUME NEW id \in Caller, NEW q \in Queue, NEW tag, NEW action,
               changeSubscription(t, action, id, q, tag)
        PROVE  Broker!Next
    BY <1>3, <2>1, ChangeQuits, CallersAreClients DEF Broker!Next
  <2>2. ASSUME NEW id \in ClientId, onDisconnect(t, id) PROVE Broker!Next
    BY <1>3, <2>2, DisconnectQuits DEF Broker!Next
  <2>3. ASSUME NEW q \in Queue, NEW tag \in Tag, publish(t, q, tag), queueIsExists(q)
        PROVE  Broker!Next
    BY <1>3, <2>3, PublishBegins DEF Broker!Next
  <2>4. ASSUME \/ \E id \in Caller, q \in Queue : createQueue(t, id, q)
               \/ getQueuesDescription(t)
               \/ \E q \in Queue, tag \in Tag : publish(t, q, tag) /\ ~queueIsExists(q)
        PROVE  UNCHANGED Broker!vars
    BY <1>3, <2>4, HiddenSteps
  <2> QED BY <1>3, <2>1, <2>2, <2>3, <2>4 DEF Call
<1>4. ASSUME Record, NEW t \in Thread, Step(t) PROVE [Broker!Next]_(Broker!vars)
  <2>1. CASE InsertListener(t)
    BY <1>4, <2>1, InsertShows DEF Broker!Next
  <2>2. CASE EraseClient(t)
    BY <1>4, <2>2, EraseForgets DEF Broker!Next
  <2>3. CASE Deliver(t)
    BY <1>4, <2>3, DeliverDelivers DEF Broker!Next
  <2>4. CASE PublishDone(t)
    BY <1>4, <2>4, PublishReturns DEF Broker!Next
  <2>5. CASE DeliverThrows(t)
    BY <1>4, <2>5, ThrowFails DEF Broker!Next
  <2>6. CASE \/ CreateEmplace(t) \/ ChangeLock(t) \/ CheckClient(t) \/ PublishSnapshot(t)
             \/ DescribeLock(t) \/ (\E q \in Queue : DescribeQueue(t, q)) \/ DescribeDone(t)
    BY <1>4, <2>6, HiddenSteps
  <2> QED BY <1>4, <2>1, <2>2, <2>3, <2>4, <2>5, <2>6 DEF Step
<1> QED BY <1>1, <1>2, <1>3, <1>4 DEF Next

\* dqueue::Node, used by any number of threads for any number of clients, is
\* the broker of module PubSub: a publish reaches everyone it owes the message
\* to or throws, calls the handler once for each, and for nobody who was not in
\* the audience.
THEOREM BrokerImplemented == DeliverySpec => ImplementsBroker
<1>1. DeliveryInit => Broker!Init /\ AudienceInv /\ PubInv /\ FailedInv
  <2> SUFFICES ASSUME DeliveryInit PROVE Broker!Init /\ AudienceInv /\ PubInv /\ FailedInv
    OBVIOUS
  <2>1. \A t \in Thread : ~Publishing(t) /\ pc[t] # "deliver"
    BY DEF DeliveryInit, Init, Publishing, PublishSteps
  <2>2. Broker!Init
    BY <2>1 DEF DeliveryInit, Broker!Init, PubOf
  <2>3. AudienceInv
    BY DEF DeliveryInit, Init, AudienceInv, Listens
  <2>4. PubInv /\ FailedInv
    BY <2>1 DEF DeliveryInit, PubInv, FailedInv
  <2> QED BY <2>2, <2>3, <2>4
<1>2. /\ TypeOK /\ TypeOK' /\ DeliveryInv /\ AudienceInv /\ PubInv /\ FailedInv
      /\ [Next /\ Record]_<<vars, history>>
      => AudienceInv' /\ PubInv' /\ FailedInv'
  BY AudienceStep, PubStep, FailedStep DEF DeliveryInv
<1> QED BY <1>1, <1>2, BrokerStep, NodeBehaves, DeliveryBehaves, PTL
     DEF DeliverySpec, ImplementsBroker, Broker!Spec

=============================================================================
