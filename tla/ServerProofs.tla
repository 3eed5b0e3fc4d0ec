---------------------------- MODULE ServerProofs ----------------------------
(***************************************************************************)
(* For every pool, any number of application threads and of clients, and   *)
(* any bounds: the messages published to a client carry increasing ids;    *)
(* and, until a thread dies, the users, the node's listeners and the list  *)
(* of connections agree, whichever threads are between two of their steps. *)
(***************************************************************************)
EXTENDS Server, SequenceTheorems, FiniteSetTheorems, TLAPS

\* The prover of a step that names none.
USE ZenonT(30)

\* Types of what the ids depend on: each thread's step and message id, and the
\* messages handed to the connections by sendTo.
IdTypes ==
  /\ nextMessageId \in Nat
  /\ out \in [ClientId -> Seq(Nat)]
  /\ pc = [t \in Thread |-> pc[t]]
  /\ arg = [t \in Thread |-> arg[t]]
  /\ \A t \in Thread : arg[t].id \in Nat

\* All ids handed to connections were given out by onSendToClient.
GivenOut == \A c \in ClientId : \A i \in DOMAIN out[c] : out[c][i] < nextMessageId

\* A thread on its way to sendTo holds Server::_locker, and its id is the last
\* one given out and not yet handed to any connection.
LastId ==
  \A t \in Thread : pc[t] = "sendTo" =>
    /\ slock = t
    /\ nextMessageId = arg[t].id + 1
    /\ \A c \in ClientId : \A i \in DOMAIN out[c] : out[c][i] < arg[t].id

\* The inductive invariant: IdsIncrease alone does not survive sendTo, which
\* appends an id that the thread took earlier.
IdsInv == IdTypes /\ GivenOut /\ LastId /\ IdsIncrease

-----------------------------------------------------------------------------
\* The server starts with nothing published and every thread idle.
LEMMA InitIds == Init => IdsInv
<1> SUFFICES ASSUME Init PROVE IdsInv
  OBVIOUS
<1>1. \A c \in ClientId : out[c] = <<>>
  BY DEF Init
<1>2. IdTypes
  BY SMTT(30) DEF Init, IdTypes, NoArg
<1>3. GivenOut /\ LastId /\ IdsIncrease
  BY <1>1, SMTT(30) DEF Init, GivenOut, LastId, IdsIncrease
<1> QED BY <1>2, <1>3 DEF IdsInv

\* A step that leaves the threads, the ids and Server::_locker alone.
LEMMA OutsideIds ==
  ASSUME IdsInv, UNCHANGED <<slock, ids, pc, arg>>
  PROVE  IdsInv'
BY DEF IdsInv, IdTypes, GivenOut, LastId, IdsIncrease, ids

\* A thread that goes on, but not to sendTo, with the work it has.
LEMMA GotoIds ==
  ASSUME IdsInv, NEW t \in Thread, NEW step, step # "sendTo", Goto(t, step),
         UNCHANGED <<slock, ids, arg>>
  PROVE  IdsInv'
<1>1. IdTypes'
  BY DEF IdsInv, IdTypes, Goto, ids
<1>2. \A u \in Thread : pc'[u] = "sendTo" => pc[u] = "sendTo"
  BY DEF IdsInv, IdTypes, Goto
<1>3. GivenOut' /\ LastId' /\ IdsIncrease'
  BY <1>2 DEF IdsInv, GivenOut, LastId, IdsIncrease, ids
<1> QED BY <1>1, <1>3 DEF IdsInv

\* A thread that goes on, but not to sendTo, with other work.
LEMMA BusyIds ==
  ASSUME IdsInv, NEW t \in Thread, NEW step, step # "sendTo", Goto(t, step),
         NEW c, NEW todo, Busy(t, c, 0, todo), UNCHANGED <<slock, ids>>
  PROVE  IdsInv'
<1>1. \A u \in Thread : arg'[u] = IF u = t THEN [conn |-> c, id |-> 0, todo |-> todo] ELSE arg[u]
  BY DEF IdsInv, IdTypes, Busy
<1>2. IdTypes'
  BY <1>1 DEF IdsInv, IdTypes, Goto, Busy, ids
<1>3. \A u \in Thread : pc'[u] = "sendTo" => pc[u] = "sendTo" /\ arg'[u] = arg[u]
  BY <1>1 DEF IdsInv, IdTypes, Goto
<1>4. GivenOut' /\ LastId' /\ IdsIncrease'
  BY <1>3 DEF IdsInv, GivenOut, LastId, IdsIncrease, ids
<1> QED BY <1>2, <1>4 DEF IdsInv

\* Going on to another step, a thread that ends its work or dies.
LEMMA FinishIds ==
  ASSUME IdsInv, NEW t \in Thread, NEW step, step # "sendTo", UNCHANGED <<slock, ids>>,
         Finish(t, step) \/ Crash(t, step)
  PROVE  IdsInv'
<1>1. CASE Finish(t, step)
  BY <1>1, BusyIds DEF Finish
<1>2. CASE Crash(t, step)
  BY <1>2, GotoIds DEF Crash
<1> QED BY <1>1, <1>2

\* onSendToClient takes Server::_locker and the next id.
LEMMA onSendToClientIds ==
  ASSUME IdsInv, NEW t \in Thread, onSendToClient(t), None \notin Thread
  PROVE  IdsInv'
<1>1. \A u \in Thread : pc[u] # "sendTo"
  BY DEF IdsInv, LastId, onSendToClient, ServerFree
<1>2. \A u \in Thread : /\ pc'[u] = "sendTo" => u = t
                        /\ arg'[u].id = IF u = t THEN nextMessageId ELSE arg[u].id
  BY <1>1 DEF IdsInv, IdTypes, onSendToClient, Goto, Busy
<1>3. nextMessageId \in Nat /\ nextMessageId' = nextMessageId + 1 /\ slock' = t /\ out' = out
  BY DEF IdsInv, IdTypes, onSendToClient
<1>4. \A c \in ClientId : out[c] \in Seq(Nat) /\ \A i \in DOMAIN out[c] : out[c][i] \in Nat
  BY ElementOfSeq, SMTT(30) DEF IdsInv, IdTypes
<1>5. IdTypes'
  <2>1. pc' = [u \in Thread |-> pc'[u]] /\ arg' = [u \in Thread |-> arg'[u]]
    BY DEF IdsInv, IdTypes, onSendToClient, Goto, Busy
  <2> QED BY <1>2, <1>3, <2>1, SMTT(30) DEF IdsInv, IdTypes
<1>6. GivenOut'
  BY <1>3, <1>4, SMTT(30) DEF IdsInv, GivenOut
<1>7. LastId' /\ IdsIncrease'
  BY <1>2, <1>3 DEF IdsInv, GivenOut, LastId, IdsIncrease
<1> QED BY <1>5, <1>6, <1>7 DEF IdsInv

\* sendTo hands the id to a connection and releases Server::_locker.
LEMMA sendToIds ==
  ASSUME IdsInv, NEW t \in Thread, sendTo(t)
  PROVE  IdsInv'
<1> DEFINE m == arg[t].id
<1>1. /\ pc[t] = "sendTo" /\ m \in Nat /\ nextMessageId = m + 1
      /\ \A c \in ClientId : \A i \in DOMAIN out[c] : out[c][i] < m
  BY DEF IdsInv, IdTypes, LastId, sendTo, At
<1>2. \A u \in Thread : pc[u] = "sendTo" => u = t
  BY <1>1 DEF IdsInv, LastId
<1>3. ASSUME NEW c \in ClientId, out' = [out EXCEPT ![c] = Append(@, m)],
             Goto(t, "deliver"), Busy(t, Conn(t), 0, arg[t].todo \ {c}), UNCHANGED nextMessageId
      PROVE  IdsInv'
  <2> HIDE DEF m
  <2>1. out[c] \in Seq(Nat) /\ out \in [ClientId -> Seq(Nat)]
    BY DEF IdsInv, IdTypes
  <2>2. /\ out' \in [ClientId -> Seq(Nat)]
        /\ \A d \in ClientId \ {c} : out'[d] = out[d]
        /\ out'[c] = Append(out[c], m)
    BY <1>1, <1>3, <2>1, AppendProperties
  <2>3. /\ DOMAIN out[c] = 1 .. Len(out[c]) /\ Len(out[c]) \in Nat
        /\ DOMAIN out'[c] = 1 .. Len(out[c]) + 1
        /\ \A i \in DOMAIN out[c] : out'[c][i] = out[c][i] /\ out[c][i] \in Nat
        /\ out'[c][Len(out[c]) + 1] = m
    BY <1>1, <2>1, <2>2, AppendProperties, LenProperties, ElementOfSeq, SMTT(30)
  <2>4. IdTypes'
    <3>1. pc' = [u \in Thread |-> pc'[u]] /\ arg' = [u \in Thread |-> arg'[u]]
      BY <1>3 DEF IdsInv, IdTypes, Goto, Busy
    <3>2. \A u \in Thread : arg'[u].id \in Nat
      BY <1>3 DEF IdsInv, IdTypes, Busy
    <3>3. nextMessageId' \in Nat
      BY <1>3 DEF IdsInv, IdTypes
    <3> QED BY <2>2, <3>1, <3>2, <3>3 DEF IdTypes
  <2>5. GivenOut'
    <3>1. \A i \in DOMAIN out'[c] : out'[c][i] < nextMessageId
      BY <1>1, <2>3, SMTT(30) DEF IdsInv, GivenOut
    <3> QED BY <1>3, <2>2, <3>1 DEF IdsInv, GivenOut
  <2>6. LastId'
    BY <1>2, <1>3 DEF IdsInv, IdTypes, LastId, Goto
  <2>7. IdsIncrease'
    <3>1. \A i, j \in DOMAIN out'[c] : i < j => out'[c][i] < out'[c][j]
      BY <1>1, <2>3, SMTT(30) DEF IdsInv, IdsIncrease
    <3> QED BY <2>2, <3>1 DEF IdsInv, IdsIncrease
  <2> QED BY <2>4, <2>5, <2>6, <2>7 DEF IdsInv
<1>4. ASSUME slock' = None, Finish(t, "idle"), UNCHANGED ids PROVE IdsInv'
  <2>1. IdTypes'
    <3>1. pc' = [u \in Thread |-> pc'[u]] /\ arg' = [u \in Thread |-> arg'[u]]
      BY <1>4 DEF IdsInv, IdTypes, Finish, Goto, Busy
    <3>2. \A u \in Thread : arg'[u].id \in Nat
      BY <1>4 DEF IdsInv, IdTypes, Finish, Busy
    <3>3. nextMessageId' \in Nat /\ out' \in [ClientId -> Seq(Nat)]
      BY <1>4 DEF IdsInv, IdTypes, ids
    <3> QED BY <3>1, <3>2, <3>3 DEF IdTypes
  <2>2. \A u \in Thread : pc'[u] # "sendTo"
    BY <1>2, <1>4 DEF IdsInv, IdTypes, Finish, Goto
  <2> QED BY <1>4, <2>1, <2>2 DEF IdsInv, GivenOut, LastId, IdsIncrease, ids
<1>5. ASSUME NEW what \in {"null", "throw"}, Crash(t, what) PROVE IdsInv'
  BY <1>5, FinishIds DEF Crash, locks
<1> QED BY <1>3, <1>4, <1>5 DEF sendTo, ids

-----------------------------------------------------------------------------
\* A thread that takes a completed operation and starts its handler.
LEMMA HandleIds ==
  ASSUME IdsInv, NEW t \in Thread,
         Handle(t) \/ AcceptFails(t) \/ StopServer(t) \/ Destroy(t)
  PROVE  IdsInv'
<1>1. ASSUME NEW c, NEW step, step # "sendTo", Take(t, c, step), UNCHANGED <<locks, ids>>
      PROVE  IdsInv'
  BY <1>1, BusyIds DEF Take, locks
<1>2. CASE handle_accept(t)
  BY <1>1, <1>2 DEF handle_accept
<1>3. ASSUME NEW c \in ClientId, onNetworkError(t, c) PROVE IdsInv'
  BY <1>1, <1>3 DEF onNetworkError
<1>4. ASSUME NEW c \in ClientId, onNewMessage(t, c) PROVE IdsInv'
  BY <1>1, <1>4 DEF onNewMessage, Kinds
<1>5. CASE AcceptFails(t)
  BY <1>5, OutsideIds, FinishIds DEF AcceptFails, Crash, locks
<1>6. CASE StopServer(t)
  BY <1>6, BusyIds DEF StopServer, locks
<1>7. CASE Destroy(t)
  BY <1>7, GotoIds DEF Destroy, locks
<1> QED BY <1>2, <1>3, <1>4, <1>5, <1>6, <1>7 DEF Handle

\* A thread that goes on with its handler or its call, and the application's
\* own calls.
LEMMA StepIds ==
  ASSUME IdsInv, NEW t \in Thread, Step(t) \/ Publish(t) \/ Subscribe(t)
  PROVE  IdsInv'
<1>1. ASSUME NEW step \in {"stop", "reset"}, Goto(t, step), UNCHANGED <<locks, ids, arg>>
      PROVE  IdsInv'
  BY <1>1, GotoIds DEF locks
<1>2. ASSUME UNCHANGED <<slock, ids>>, Closed(t) PROVE IdsInv'
  BY <1>2, GotoIds, FinishIds DEF Closed
<1>3. CASE Start(t)
  BY <1>3, GotoIds DEF Start
<1>4. CASE Push(t)
  BY <1>4, FinishIds DEF Push
<1>5. CASE setLogin(t)
  BY <1>5, GotoIds DEF setLogin, locks
<1>6. CASE Request(t)
  BY <1>6, GotoIds, FinishIds DEF Request, Crash, locks
<1>7. CASE Answer(t)
  BY <1>7, FinishIds DEF Answer, Crash, locks
<1>8. CASE Publish(t)
  BY <1>8, BusyIds DEF Publish, locks
<1>9. CASE CallConsumer(t)
  <2>1. Goto(t, "deliver")
    BY <1>9 DEF IdsInv, IdTypes, CallConsumer, At, Goto
  <2> QED BY <1>9, <2>1, BusyIds DEF CallConsumer, locks
<1>10. CASE onSendToClient(t)
  BY <1>10, onSendToClientIds, ServerAssumption
<1>11. CASE sendTo(t)
  BY <1>11, sendToIds
<1>12. CASE Published(t)
  BY <1>12, GotoIds, FinishIds DEF Published, locks
<1>13. CASE Close(t)
  BY <1>1, <1>2, <1>13 DEF Close, locks
<1>14. CASE Reset(t)
  BY <1>14, GotoIds, FinishIds DEF Reset, locks, Crash
<1>15. CASE Erase(t)
  BY <1>15, GotoIds, FinishIds DEF Erase, Crash, locks
<1>16. CASE EraseClient(t)
  BY <1>2, <1>16 DEF EraseClient
<1>17. CASE CloseNext(t)
  BY <1>17, BusyIds DEF CloseNext, locks
<1>18. CASE Stopped(t)
  BY <1>18, FinishIds DEF Stopped, locks
<1>19. CASE Subscribe(t)
  BY <1>19, OutsideIds DEF Subscribe, locks
<1> QED BY <1>3, <1>4, <1>5, <1>6, <1>7, <1>8, <1>9, <1>10, <1>11, <1>12, <1>13, <1>14, <1>15,
           <1>16, <1>17, <1>18, <1>19 DEF Step

\* Every step of the server keeps the inductive invariant.
LEMMA NextIds == IdsInv /\ [Next]_vars => IdsInv'
<1> SUFFICES ASSUME IdsInv, [Next]_vars PROVE IdsInv'
  OBVIOUS
<1>1. CASE UNCHANGED vars
  BY <1>1, OutsideIds DEF vars, locks
<1>2. ASSUME NEW c \in ClientId,
             HangsUp(c) \/ Written(c) \/ \E kind \in Kinds : Arrives(c, kind)
      PROVE  IdsInv'
  BY <1>2, OutsideIds DEF HangsUp, Written, Arrives, locks
<1>3. AppThread \subseteq Thread
  BY DEF Thread
<1> QED BY <1>1, <1>2, <1>3, HandleIds, StepIds DEF Next

\* Messages published to a client carry increasing ids, in the order in which
\* sendTo hands them to its connection: onSendToClient gives the id and sends
\* under one lock.
THEOREM IdsIncreaseAlways == Spec => []IdsIncrease
<1>1. IdsInv => IdsIncrease
  BY DEF IdsInv
<1> QED BY InitIds, NextIds, <1>1, PTL DEF Spec

-----------------------------------------------------------------------------
(* The connections, the users and the listeners. *)

\* Where a thread is: in handle_accept, in close(), in onNewMessage, or in
\* stopServer and after.
AcceptSteps  == {"start", "push"}
CloseSteps   == {"close", "reset", "erase", "eraseClient"}
MessageSteps == Kinds \cup {"answer", "deliver", "sendTo"}
StopSteps    == {"stop", "stopped", "destroyed"}

\* The application's threads only publish.
AppInv == \A t \in AppThread : pc[t] \in {"idle", "deliver", "sendTo"} /\ Conn(t) = None

\* A handler has its connection, an idle thread has none.
ConnInv ==
  \A t \in IoThread :
    /\ pc[t] \in AcceptSteps \cup CloseSteps \cup MessageSteps => Conn(t) \in ClientId
    /\ pc[t] \in {"idle", "absent"} => Conn(t) = None
    /\ pc[t] \in CloseSteps \cup {"stop"} => arg[t].todo \subseteq ClientId

Unused(c) == c \notin conns \cup async \cup writes /\ read[c] = "none"

\* An id that is not given out, or whose connection has not started, is known
\* to nobody: no handler of it runs.
FreshInv ==
  /\ \A c \in ClientId : c >= nextId => Unused(c) /\ \A t \in Thread : Conn(t) # c
  /\ \A t \in Thread : pc[t] = "start" =>
       Unused(Conn(t)) /\ \A u \in Thread \ {t} : Conn(u) # Conn(t)

\* Who holds the lock of the connections, and that there is one accept.
LockInv ==
  /\ \A t \in Thread : pc[t] \in {"push", "eraseClient"} => clock = t
  /\ \A t, u \in Thread : pc[t] \in AcceptSteps => acc = "busy" /\ (pc[u] \in AcceptSteps => t = u)

\* AsyncIO reads on when the handler is done: a connection has one message
\* under way.
MessageInv ==
  \A t \in IoThread : pc[t] \in MessageSteps =>
    /\ read[Conn(t)] = "none"
    /\ \A u \in IoThread \ {t} : pc[u] \in MessageSteps => Conn(u) # Conn(t)

Pushing(c) == \E t \in Thread : pc[t] = "push" /\ Conn(t) = c

Erasing(c) == \E t \in Thread : pc[t] \in {"erase", "eraseClient"} /\ Conn(t) = c

\* A connection with its AsyncIO is listed or about to be, and one without it
\* is about to be erased.
AsyncInv ==
  /\ \A c \in async : c \in conns \/ Pushing(c)
  /\ \A c \in ClientId \ async : c \in conns \/ Pushing(c) => Erasing(c)

Answering(c) == \E t \in Thread : pc[t] = "answer" /\ Conn(t) = c

\* Once its user is erased only setLogin of a handler that is about to answer
\* can have put it back.
EraseInv ==
  \A t \in Thread :
    /\ pc[t] \in {"erase", "eraseClient"} => Conn(t) \notin async
    /\ pc[t] = "eraseClient" => Conn(t) \in conns /\ (Conn(t) \in users => Answering(Conn(t)))

\* stopServer runs alone and has the listed connections still to close.
StopInv ==
  \A t \in IoThread :
    /\ pc[t] \in StopSteps => acc = "closed"
    /\ acc = "closed" =>
         /\ pc[t] \in {"idle", "absent"} \cup StopSteps \cup CloseSteps
         /\ pc[t] \notin {"idle", "absent"} =>
              \A u \in IoThread \ {t} : pc[u] \in {"idle", "absent"}
         /\ pc[t] = "stop" => arg[t].todo = conns
         /\ pc[t] \in CloseSteps =>
              conns \ {Conn(t)} \subseteq arg[t].todo /\ arg[t].todo \subseteq conns \ {Conn(t)}
         /\ pc[t] \in {"stopped", "destroyed"} => conns = {}

\* The server is a user, and so is every connection that is accepted or listed
\* until its erase.
UserInv ==
  /\ ServerID \in users
  /\ \A c \in ClientId : Accepting(c) => c \in users
  /\ \A c \in conns : c \in users \/ \E t \in Thread : pc[t] = "eraseClient" /\ Conn(t) = c

\* UsersConnected of a live process.
UsersListed ==
  \A c \in users \ {ServerID} : c \in conns \/ Accepting(c) \/ (c \notin async /\ Answering(c))

\* The other threads of the pool do not exist.
Alone(t) == \A u \in IoThread \ {t} : pc[u] = "absent"

\* The only thread of a pool resets and erases what it found open.
AloneInv ==
  \A t \in IoThread : Alone(t) =>
    /\ pc[t] = "reset" => Conn(t) \in async
    /\ pc[t] = "erase" => Conn(t) \in conns

\* ErasedIsListed for a pool of one thread.
AloneErases ==
  \A t \in Thread : pc[t] = "erase" =>
    t \in IoThread /\ (Alone(t) /\ clock = None => Conn(t) \in conns \cap users)

Good ==
  /\ AppInv /\ ConnInv /\ FreshInv /\ LockInv /\ MessageInv /\ AsyncInv
  /\ EraseInv /\ StopInv /\ UserInv /\ UsersListed /\ ListenersConnected /\ AloneInv

\* The inductive invariant.  A thread that dies leaves the others where they
\* are and a lock held, so Good is claimed of a live process only; the
\* invariants of the runs survive the last step of one that dies.
ServerInv ==
  /\ TypeOK /\ ListenersConnected /\ StoppedIsEmpty /\ ErasedAfterListed /\ AloneErases
  /\ Alive => Good

-----------------------------------------------------------------------------
(* Facts used in many of the steps. *)

\* The pool and the application have no thread in common, and None is neither
\* a thread nor a client's id; nor is ServerID one.
LEMMA Threads ==
  /\ Thread = IoThread \cup AppThread /\ IoThread \cap AppThread = {} /\ IoThread \subseteq Thread
  /\ None \notin ClientId /\ None \notin Thread /\ ServerID \notin ClientId
BY ServerAssumption, SMTT(30) DEF Thread, ClientId, Id, ServerID

\* handle_accept's thread has its connection before ClientConnection::start.
LEMMA NewConn == Good => \A t \in Thread : pc[t] = "start" => Conn(t) \in ClientId
BY Threads DEF Good, AppInv, ConnInv, AcceptSteps

\* All handlers but a publish run in the pool, for a connection.
LEMMA ConnType ==
  ASSUME Good, NEW t \in Thread, pc[t] \in AcceptSteps \cup CloseSteps \cup (MessageSteps \ {"deliver", "sendTo"})
  PROVE  t \in IoThread /\ Conn(t) \in ClientId
BY Threads DEF Good, AppInv, ConnInv, AcceptSteps, CloseSteps, MessageSteps, Kinds

\* What a thread that goes on with its work changes.
LEMMA Moves ==
  ASSUME TypeOK, NEW t \in Thread, NEW step, Goto(t, step), UNCHANGED arg
  PROVE  /\ pc'[t] = step
         /\ \A u \in Thread \ {t} : pc'[u] = pc[u]
         /\ \A u \in Thread : Conn(u)' = Conn(u) /\ arg'[u] = arg[u]
BY DEF TypeOK, Goto, Conn

\* What a thread that takes up other work changes.
LEMMA Works ==
  ASSUME TypeOK, NEW t \in Thread, NEW step, Goto(t, step),
         NEW c, NEW id, NEW todo, Busy(t, c, id, todo)
  PROVE  /\ pc'[t] = step /\ Conn(t)' = c /\ arg'[t].todo = todo
         /\ \A u \in Thread \ {t} : pc'[u] = pc[u] /\ Conn(u)' = Conn(u) /\ arg'[u] = arg[u]
<1>1. arg'[t] = [conn |-> c, id |-> id, todo |-> todo] /\ \A u \in Thread \ {t} : arg'[u] = arg[u]
  BY DEF TypeOK, Busy
<1>2. pc'[t] = step /\ \A u \in Thread \ {t} : pc'[u] = pc[u]
  BY DEF TypeOK, Goto
<1>3. Conn(t)' = c /\ arg'[t].todo = todo
  BY <1>1, SMTT(30) DEF Conn
<1> QED BY <1>1, <1>2, <1>3 DEF Conn

-----------------------------------------------------------------------------
(* Each step of a live process keeps Good. *)

\* The server starts without connections and with every thread idle or absent.
LEMMA InitGood == Init => Good
<1> SUFFICES ASSUME Init PROVE Good
  OBVIOUS
<1>1. \A t \in Thread : /\ pc[t] \in {"idle", "absent"} /\ Conn(t) = None
                        /\ t \in AppThread => pc[t] = "idle"
  BY DEF Init, Conn, NoArg
<1>2. /\ users = {ServerID} /\ listeners = {} /\ conns = {} /\ async = {} /\ writes = {} /\ acc = "pending"
      /\ \A c \in ClientId : read[c] = "none"
  BY DEF Init
<1>3. AppInv /\ ConnInv /\ FreshInv
  BY <1>1, <1>2, Threads
     DEF AppInv, ConnInv, FreshInv, Unused, AcceptSteps, CloseSteps, MessageSteps, Kinds
<1>4. LockInv /\ MessageInv /\ AsyncInv
  BY <1>1, <1>2, Threads DEF LockInv, AcceptSteps, MessageInv, MessageSteps, Kinds, AsyncInv, Pushing
<1>5. EraseInv /\ StopInv /\ AloneInv
  BY <1>1, <1>2, Threads DEF EraseInv, StopInv, StopSteps, AloneInv
<1>6. UserInv /\ UsersListed /\ ListenersConnected
  BY <1>1, <1>2 DEF UserInv, UsersListed, ListenersConnected, Accepting
<1> QED BY <1>3, <1>4, <1>5, <1>6 DEF Good

\* The clients' ends, a failed accept and the application's subscription: no
\* thread moves, and only a pending read is changed.
LEMMA OutsideGood ==
  ASSUME TypeOK, Good, UNCHANGED <<users, nextId, conns, async, clock, pc, arg>>,
         listeners' \subseteq listeners \cup {ServerID}, writes' \subseteq writes,
         acc' = acc \/ (acc = "pending" /\ acc' = "off"),
         \A d \in ClientId : read'[d] = read[d] \/ read[d] = "pending"
  PROVE  Good'
<1>1. /\ AppInv' /\ ConnInv' /\ AsyncInv' /\ EraseInv' /\ UserInv' /\ UsersListed'
      /\ ListenersConnected' /\ AloneInv'
  BY SMTT(30) DEF Good, AppInv, ConnInv, AsyncInv, Pushing, Erasing, EraseInv, UserInv, UsersListed, Answering,
     ListenersConnected, Accepting, AloneInv, Alone, Conn
<1>2. LockInv' /\ StopInv'
  BY DEF Good, LockInv, AcceptSteps, StopInv, Conn
<1>3. FreshInv'
  BY NewConn DEF Good, FreshInv, Unused, Conn
<1>4. MessageInv'
  <2>1. \A t \in IoThread : pc[t] \in MessageSteps => Conn(t) \in ClientId
    BY DEF Good, ConnInv
  <2> QED BY <2>1 DEF Good, MessageInv, Conn
<1> QED BY <1>1, <1>2, <1>3, <1>4 DEF Good

\* handle_accept gives out an id nobody knows and makes it a user.
LEMMA AcceptGood ==
  ASSUME TypeOK, Good, NEW t \in Thread, handle_accept(t)
  PROVE  Good'
<1> USE Threads
<1>1. /\ pc[t] = "idle" /\ t \in IoThread /\ acc = "pending" /\ acc' = "busy" /\ clock = None
      /\ nextId' = nextId + 1 /\ users' = users \cup {nextId}
      /\ Goto(t, "start") /\ Busy(t, nextId, 0, {})
      /\ UNCHANGED <<listeners, conns, async, read, writes, clock>>
  BY DEF handle_accept, Take, At, NewId, ConnectionsFree, locks
<1>2. /\ nextId \in ClientId
      /\ \A c \in ClientId : nextId >= nextId /\ (c >= nextId + 1 => c >= nextId /\ c # nextId)
  BY ServerAssumption, SMTT(30) DEF handle_accept, TypeOK, ClientId
<1>3. /\ pc'[t] = "start" /\ Conn(t)' = nextId /\ arg'[t].todo = {}
      /\ \A u \in Thread \ {t} : pc'[u] = pc[u] /\ Conn(u)' = Conn(u) /\ arg'[u] = arg[u]
  BY <1>1, Works
<1>4. /\ Unused(nextId) /\ \A u \in Thread : Conn(u) # nextId
      /\ \A u \in Thread : pc[u] \notin AcceptSteps
  BY <1>1, <1>2 DEF Good, FreshInv, LockInv
<1>5. AppInv' /\ ConnInv'
  BY <1>1, <1>2, <1>3, SMTT(30) DEF Good, AppInv, ConnInv, AcceptSteps, CloseSteps, MessageSteps, Kinds
<1>6. FreshInv'
  <2>1. \A c : Unused(c)' <=> Unused(c)
    BY <1>1 DEF Unused
  <2> QED BY <1>1, <1>2, <1>3, <1>4, <2>1, SMTT(30) DEF Good, FreshInv, AcceptSteps
<1>7. LockInv' /\ MessageInv'
  BY <1>1, <1>3, <1>4, SMTT(30) DEF Good, LockInv, AcceptSteps, MessageInv, MessageSteps, Kinds
<1>8. AsyncInv'
  BY <1>1, <1>3, SMTT(30) DEF Good, AsyncInv, Pushing, Erasing
<1>9. EraseInv'
  BY <1>1, <1>3, <1>4, SMTT(30) DEF Good, EraseInv, Answering
<1>10. StopInv'
  BY <1>1, <1>3 DEF Good, StopInv, StopSteps
<1>11. UserInv'
  BY <1>1, <1>3, SMTT(30) DEF Good, UserInv, Accepting
<1>12. UsersListed' /\ ListenersConnected'
  BY <1>1, <1>3, SMTT(30) DEF Good, UsersListed, ListenersConnected, Accepting, Answering
<1>13. AloneInv'
  BY <1>1, <1>3 DEF Good, AloneInv, Alone
<1> QED BY <1>5, <1>6, <1>7, <1>8, <1>9, <1>10, <1>11, <1>12, <1>13 DEF Good

\* ClientConnection::start: handlers of the connection may run from now on.
LEMMA StartGood ==
  ASSUME TypeOK, Good, NEW t \in Thread, Start(t)
  PROVE  Good'
<1> USE Threads
<1>1. /\ pc[t] = "start" /\ clock = None /\ clock' = t /\ async' = async \cup {Conn(t)}
      /\ Goto(t, "push") /\ UNCHANGED <<users, listeners, nextId, conns, acc, writes, arg>>
  BY DEF Start, At, ConnectionsFree, node
<1>2. /\ pc'[t] = "push"
      /\ \A u \in Thread \ {t} : pc'[u] = pc[u]
      /\ \A u \in Thread : Conn(u)' = Conn(u) /\ arg'[u] = arg[u]
  BY <1>1, Moves
<1>3. /\ t \in IoThread /\ Conn(t) \in ClientId
      /\ Unused(Conn(t)) /\ \A u \in Thread \ {t} : Conn(u) # Conn(t)
      /\ \A u \in Thread : pc[u] \in AcceptSteps => u = t
  BY <1>1 DEF Good, AppInv, ConnInv, AcceptSteps, FreshInv, LockInv
<1>4. \A c \in ClientId : c # Conn(t) => read'[c] = read[c]
  BY <1>3 DEF Start, TypeOK, ReadNext
<1>5. AppInv' /\ ConnInv'
  BY <1>1, <1>2, <1>3, SMTT(30) DEF Good, AppInv, ConnInv, AcceptSteps, CloseSteps, MessageSteps, Kinds
<1>6. FreshInv'
  <2>1. \A c \in ClientId : c >= nextId => c # Conn(t)
    BY DEF Good, FreshInv
  <2> QED BY <1>1, <1>2, <1>3, <1>4, <2>1, SMTT(30) DEF Good, FreshInv, Unused, AcceptSteps
<1>7. LockInv'
  BY <1>1, <1>2, <1>3 DEF Good, LockInv, AcceptSteps
<1>8. MessageInv'
  <2>1. \A u \in IoThread : pc'[u] \in MessageSteps =>
           u # t /\ pc[u] \in MessageSteps /\ Conn(u) \in ClientId /\ Conn(u) # Conn(t)
    BY <1>2, <1>3 DEF Good, ConnInv, MessageSteps, Kinds
  <2> QED BY <1>2, <1>4, <2>1, SMTT(30) DEF Good, MessageInv
<1>9. AsyncInv'
  <2>1. \A c \in async' : c \in conns' \/ Pushing(c)'
    BY <1>1, <1>2, SMTT(30) DEF Good, AsyncInv, Pushing
  <2>2. ASSUME NEW c \in ClientId \ async', c \in conns' \/ Pushing(c)' PROVE Erasing(c)'
    <3>1. c \in ClientId \ async /\ (c \in conns \/ Pushing(c))
      BY <1>1, <1>2, <2>2 DEF Pushing
    <3> QED BY <1>1, <1>2, <3>1, SMTT(30) DEF Good, AsyncInv, Erasing
  <2> QED BY <2>1, <2>2 DEF AsyncInv
<1>10. EraseInv'
  BY <1>1, <1>2, <1>3, SMTT(30) DEF Good, EraseInv, Answering
<1>11. StopInv'
  BY <1>1, <1>2 DEF Good, StopInv, StopSteps, LockInv, AcceptSteps
<1>12. UserInv'
  BY <1>1, <1>2, SMTT(30) DEF Good, UserInv, Accepting
<1>13. UsersListed' /\ ListenersConnected'
  BY <1>1, <1>2, <1>3, SMTT(30) DEF Good, UsersListed, ListenersConnected, Accepting, Answering
<1>14. AloneInv'
  BY <1>1, <1>2 DEF Good, AloneInv, Alone
<1> QED BY <1>5, <1>6, <1>7, <1>8, <1>9, <1>10, <1>11, <1>12, <1>13, <1>14 DEF Good

\* The connection is listed and the lock released.
LEMMA PushGood ==
  ASSUME TypeOK, Good, NEW t \in Thread, Push(t)
  PROVE  Good'
<1> USE Threads
<1>1. /\ pc[t] = "push"
      /\ conns' = conns \cup {Conn(t)} /\ clock' = None /\ acc' = "pending"
      /\ Goto(t, "idle") /\ Busy(t, None, 0, {})
      /\ UNCHANGED <<users, listeners, nextId, async, read, writes>>
  BY DEF Push, At, Finish, node, socks
<1>2. /\ pc'[t] = "idle" /\ Conn(t)' = None /\ arg'[t].todo = {}
      /\ \A u \in Thread \ {t} : pc'[u] = pc[u] /\ Conn(u)' = Conn(u) /\ arg'[u] = arg[u]
  BY <1>1, Works
<1>3. t \in IoThread /\ Conn(t) \in ClientId
  BY <1>1 DEF Good, AppInv, ConnInv, AcceptSteps
<1>4. \A u \in Thread : pc[u] \in AcceptSteps => u = t
  BY <1>1 DEF Good, LockInv, AcceptSteps
<1>5. AppInv' /\ ConnInv'
  BY <1>2, <1>3, SMTT(30) DEF Good, AppInv, ConnInv, AcceptSteps, CloseSteps, MessageSteps, Kinds
<1>6. FreshInv'
  BY <1>1, <1>2, <1>3, <1>4, SMTT(30) DEF Good, FreshInv, Unused, AcceptSteps
<1>7. LockInv' /\ MessageInv'
  BY <1>1, <1>2, <1>4, SMTT(30) DEF Good, LockInv, AcceptSteps, MessageInv, MessageSteps, Kinds
<1>8. AsyncInv'
  BY <1>1, <1>2, <1>3, SMTT(30) DEF Good, AsyncInv, Pushing, Erasing
<1>9. EraseInv'
  BY <1>1, <1>2, SMTT(30) DEF Good, EraseInv, Answering
<1>10. StopInv'
  BY <1>1, <1>2, <1>3 DEF Good, StopInv, StopSteps, LockInv, AcceptSteps
<1>11. UserInv'
  BY <1>1, <1>2, <1>3, SMTT(30) DEF Good, UserInv, Accepting
<1>12. UsersListed' /\ ListenersConnected'
  BY <1>1, <1>2, SMTT(30) DEF Good, UsersListed, ListenersConnected, Accepting, Answering
<1>13. AloneInv'
  BY <1>1, <1>2 DEF Good, AloneInv, Alone
<1> QED BY <1>5, <1>6, <1>7, <1>8, <1>9, <1>10, <1>11, <1>12, <1>13 DEF Good

\* onNetworkError and onNewMessage: a thread of the pool takes a completed
\* read or write of connection c.
LEMMA HandlerGood ==
  ASSUME TypeOK, Good, NEW t \in Thread, NEW c \in ClientId, NEW step, Take(t, c, step),
         \/ step = "close" /\ (read[c] = "error" \/ c \in writes)
         \/ step \in Kinds /\ read[c] = step /\ read'[c] = "none",
         \A d \in ClientId : read'[d] = read[d] \/ read'[d] = "none",
         writes' \subseteq writes,
         UNCHANGED <<users, listeners, nextId, conns, async, acc, clock>>
  PROVE  Good'
<1> USE Threads
<1>1. pc[t] = "idle" /\ t \in IoThread /\ acc # "closed" /\ (step = "close" \/ step \in Kinds)
  BY DEF Take, At
<1>2. /\ pc'[t] = step /\ Conn(t)' = c /\ arg'[t].todo = {}
      /\ \A u \in Thread \ {t} : pc'[u] = pc[u] /\ Conn(u)' = Conn(u) /\ arg'[u] = arg[u]
  BY Works DEF Take
<1>3. ~Unused(c)
  BY DEF Unused, Kinds
<1>4. AppInv' /\ ConnInv'
  BY <1>1, <1>2 DEF Good, AppInv, ConnInv, AcceptSteps, CloseSteps, MessageSteps, Kinds
<1>5. FreshInv'
  <2>1. \A d \in ClientId : Unused(d) => Unused(d)'
    BY DEF Unused
  <2>2. /\ \A d \in ClientId : d >= nextId => d # c
        /\ \A u \in Thread : pc[u] = "start" => Conn(u) # c /\ Conn(u) \in ClientId
    BY <1>3, NewConn DEF Good, FreshInv
  <2>3. step # "start"
    BY <1>1 DEF Kinds
  <2>4. \A d \in ClientId : d >= nextId' => Unused(d)' /\ \A u \in Thread : Conn(u)' # d
    BY <1>2, <2>1, <2>2 DEF Good, FreshInv
  <2>5. ASSUME NEW u \in Thread, pc'[u] = "start"
        PROVE  Unused(Conn(u))' /\ \A v \in Thread \ {u} : Conn(v)' # Conn(u)'
    <3>1. u # t /\ pc[u] = "start" /\ Conn(u)' = Conn(u) /\ Conn(u) \in ClientId /\ Conn(u) # c
      BY <1>2, <2>2, <2>3, <2>5
    <3>2. Unused(Conn(u)) /\ \A v \in Thread \ {u} : Conn(v) # Conn(u)
      BY <3>1 DEF Good, FreshInv
    <3> QED BY <1>2, <3>1, <3>2, SMTT(30) DEF Unused
  <2> QED BY <2>4, <2>5 DEF FreshInv
<1>6. LockInv'
  BY <1>1, <1>2, SMTT(30) DEF Good, LockInv, AcceptSteps, Kinds
<1>7. MessageInv'
  <2>1. \A u \in IoThread : pc[u] \in MessageSteps => Conn(u) \in ClientId /\ read'[Conn(u)] = "none"
    BY DEF Good, ConnInv, MessageInv
  <2>2. step \in Kinds => \A u \in IoThread : pc[u] \in MessageSteps => Conn(u) # c
    BY DEF Good, MessageInv, Kinds
  <2>3. step \in MessageSteps => step \in Kinds /\ read'[c] = "none"
    BY DEF MessageSteps, Kinds
  <2> QED BY <1>1, <1>2, <2>1, <2>2, <2>3, SMTT(30) DEF Good, MessageInv
<1>8. AsyncInv'
  <2>1. \A d : (Pushing(d)' <=> Pushing(d)) /\ (Erasing(d)' <=> Erasing(d))
    BY <1>1, <1>2 DEF Pushing, Erasing, Kinds
  <2> QED BY <2>1 DEF Good, AsyncInv
<1>9. EraseInv'
  BY <1>1, <1>2, SMTT(30) DEF Good, EraseInv, Answering, Kinds
<1>10. StopInv'
  BY <1>1, <1>2 DEF Good, StopInv, StopSteps, Kinds
<1>11. UserInv'
  BY <1>1, <1>2, SMTT(30) DEF Good, UserInv, Accepting, Kinds
<1>12. UsersListed' /\ ListenersConnected'
  BY <1>1, <1>2, SMTT(30) DEF Good, UsersListed, ListenersConnected, Accepting, Answering
<1>13. AloneInv'
  BY <1>1, <1>2 DEF Good, AloneInv, Alone, Kinds
<1> QED BY <1>4, <1>5, <1>6, <1>7, <1>8, <1>9, <1>10, <1>11, <1>12, <1>13 DEF Good

\* The requests and a publish: thread t goes on with the message it has, as far
\* as its answer.  setLogin may add the user, a Subscribe a known listener.
LEMMA MessageGood ==
  ASSUME TypeOK, Good, NEW t \in Thread,
         UNCHANGED <<nextId, conns, async, acc, read, clock>>,
         \A u \in Thread : Conn(u)' = Conn(u) /\ (u # t => pc'[u] = pc[u] /\ arg'[u] = arg[u]),
         \/ t \in AppThread /\ pc'[t] \in {"idle", "deliver", "sendTo"}
         \/ t \in IoThread /\ pc[t] \in MessageSteps \ {"answer"} /\ pc'[t] \in MessageSteps,
         writes' \subseteq writes \cup async,
         users' = users \/ (t \in IoThread /\ users' = users \cup {Conn(t)} /\ pc'[t] = "answer"),
         \/ listeners' \subseteq listeners \cup {ServerID}
         \/ listeners' = listeners \cup {Conn(t)} /\ Known(Conn(t)) /\ pc[t] = "SUBSCRIBE"
  PROVE  Good'
<1> USE Threads
<1>1. t \in AppThread => pc[t] \in {"idle", "deliver", "sendTo"}
  BY DEF Good, AppInv
<1>2. \A u \in Thread : \A s \in AcceptSteps \cup CloseSteps \cup StopSteps \cup {"absent"} :
         pc'[u] = s <=> pc[u] = s
  BY <1>1 DEF AcceptSteps, CloseSteps, StopSteps, MessageSteps, Kinds
<1>3. /\ \A u \in IoThread : /\ pc'[u] \in MessageSteps <=> pc[u] \in MessageSteps
                             /\ pc'[u] = "idle" <=> pc[u] = "idle"
      /\ \A u \in Thread : pc[u] = "answer" => pc'[u] = "answer"
  BY <1>1 DEF MessageSteps, Kinds
<1>4. \A u \in Thread : pc[u] \in CloseSteps \cup {"stop"} => arg'[u] = arg[u]
  BY <1>1 DEF CloseSteps, MessageSteps, Kinds
<1>5. AppInv'
  BY DEF Good, AppInv
<1>6. ConnInv'
  BY <1>2, <1>3, <1>4, SMTT(30) DEF Good, ConnInv, AcceptSteps, CloseSteps, StopSteps
<1>7. FreshInv'
  <2>1. \A u \in Thread : pc'[u] = "start" <=> pc[u] = "start"
    BY <1>2 DEF AcceptSteps
  <2> QED BY <2>1, SMTT(30) DEF Good, FreshInv, Unused
<1>8. LockInv'
  BY <1>2, SMTT(30) DEF Good, LockInv, AcceptSteps, CloseSteps
<1>9. MessageInv'
  BY <1>3, SMTT(30) DEF Good, MessageInv
<1>10. \A c : /\ Accepting(c)' <=> Accepting(c)
              /\ Pushing(c)' <=> Pushing(c)
              /\ Erasing(c)' <=> Erasing(c)
              /\ Answering(c) => Answering(c)'
  BY <1>2, <1>3, SMTT(30) DEF Accepting, Pushing, Erasing, Answering, AcceptSteps, CloseSteps
<1>11. AsyncInv'
  BY <1>10 DEF Good, AsyncInv
<1>12. pc'[t] = "answer" => Answering(Conn(t))'
  BY DEF Answering
<1>13. EraseInv'
  <2>1. \A u \in Thread : /\ pc'[u] = "erase" <=> pc[u] = "erase"
                          /\ pc'[u] = "eraseClient" <=> pc[u] = "eraseClient"
    BY <1>2 DEF CloseSteps
  <2>2. ASSUME NEW u \in Thread, pc[u] = "eraseClient", Conn(u) \in users'
        PROVE  Answering(Conn(u))'
    BY <1>3, <2>2, SMTT(30) DEF Good, EraseInv, Answering
  <2> QED BY <2>1, <2>2, SMTT(30) DEF Good, EraseInv, Answering
<1>14. StopInv'
  BY <1>2, <1>3, <1>4, SMTT(30) DEF Good, StopInv, StopSteps, CloseSteps
<1>15. UserInv'
  <2>1. \A u \in Thread : pc'[u] = "eraseClient" <=> pc[u] = "eraseClient"
    BY <1>2 DEF CloseSteps
  <2> QED BY <1>10, <2>1, SMTT(30) DEF Good, UserInv
<1>16. UsersListed'
  <2>1. ASSUME NEW c \in users \ {ServerID}
        PROVE  c \in conns' \/ Accepting(c)' \/ (c \notin async' /\ Answering(c)')
    BY <1>10, <2>1 DEF Good, UsersListed
  <2>2. ASSUME t \in IoThread, pc'[t] = "answer", Conn(t) # ServerID
        PROVE  \/ Conn(t) \in conns' \/ Accepting(Conn(t))'
               \/ (Conn(t) \notin async' /\ Answering(Conn(t))')
    <3>1. Conn(t) \in async => Conn(t) \in conns \/ Accepting(Conn(t))
      BY DEF Good, AsyncInv, Pushing, Accepting
    <3> QED BY <1>10, <2>2, <3>1, SMTT(30) DEF Accepting, Answering
  <2> QED BY <2>1, <2>2 DEF UsersListed, Accepting, Answering
<1>17. ListenersConnected'
  <2>1. pc[t] = "SUBSCRIBE" /\ Known(Conn(t)) => Conn(t) \in conns \/ Accepting(Conn(t))
    <3>1. SUFFICES ASSUME pc[t] = "SUBSCRIBE", Known(Conn(t)), Conn(t) \notin conns
                   PROVE  Accepting(Conn(t))
      OBVIOUS
    <3>2. t \in IoThread /\ Conn(t) \in ClientId
      BY <3>1 DEF Good, AppInv, ConnInv, MessageSteps, Kinds
    <3>3. Conn(t) \in users
      BY <3>1 DEF Known, Good, EraseInv
    <3>4. ~Answering(Conn(t))
      BY <3>1, <3>2 DEF Answering, Good, AppInv, MessageInv, MessageSteps, Kinds
    <3> QED BY <3>1, <3>2, <3>3, <3>4 DEF Good, UsersListed
  <2> QED BY <1>10, <2>1 DEF Good, ListenersConnected
<1>18. AloneInv'
  <2>1. \A u \in IoThread : /\ Alone(u)' <=> Alone(u)
                            /\ pc'[u] = "reset" <=> pc[u] = "reset"
                            /\ pc'[u] = "erase" <=> pc[u] = "erase"
    BY <1>2 DEF Alone, CloseSteps
  <2> QED BY <2>1 DEF Good, AloneInv
<1> QED BY <1>5, <1>6, <1>7, <1>8, <1>9, <1>11, <1>13, <1>14, <1>15, <1>16, <1>17, <1>18 DEF Good

\* The handler of a message answers over its connection, and AsyncIO reads on.
LEMMA AnswerGood ==
  ASSUME TypeOK, Good, NEW t \in Thread, pc[t] = "answer", Conn(t) \in async,
         read' = ReadNext(Conn(t)), writes' = writes \cup {Conn(t)}, Finish(t, "idle"),
         UNCHANGED <<users, listeners, nextId, conns, async, acc, clock>>
  PROVE  Good'
<1> USE Threads
<1>1. /\ pc'[t] = "idle" /\ Conn(t)' = None /\ arg'[t].todo = {}
      /\ \A u \in Thread \ {t} : pc'[u] = pc[u] /\ Conn(u)' = Conn(u) /\ arg'[u] = arg[u]
  BY Works DEF Finish
<1>2. t \in IoThread /\ Conn(t) \in ClientId
  BY DEF Good, AppInv, ConnInv, MessageSteps
<1>3. \A c \in ClientId : c # Conn(t) => read'[c] = read[c]
  BY <1>2 DEF TypeOK, ReadNext
<1>4. AppInv' /\ ConnInv'
  BY <1>1, <1>2, SMTT(30) DEF Good, AppInv, ConnInv, AcceptSteps, CloseSteps, MessageSteps, Kinds
<1>5. FreshInv'
  <2>1. \A c \in ClientId : Unused(c) => c # Conn(t) /\ Unused(c)'
    BY <1>3 DEF Unused
  <2> QED BY <1>1, <1>3, <2>1, NewConn, SMTT(30) DEF Good, FreshInv, Unused
<1>6. LockInv'
  BY <1>1, SMTT(30) DEF Good, LockInv, AcceptSteps
<1>7. MessageInv'
  <2>1. \A u \in IoThread : pc'[u] \in MessageSteps =>
           u # t /\ pc[u] \in MessageSteps /\ Conn(u) \in ClientId /\ Conn(u) # Conn(t)
    BY <1>1, <1>2 DEF Good, ConnInv, MessageInv, MessageSteps, Kinds
  <2> QED BY <1>1, <1>3, <2>1, SMTT(30) DEF Good, MessageInv
<1>8. \A c : /\ Accepting(c)' <=> Accepting(c)
             /\ Pushing(c)' <=> Pushing(c)
             /\ Erasing(c)' <=> Erasing(c)
             /\ c # Conn(t) /\ Answering(c) => Answering(c)'
  BY <1>1 DEF Accepting, Pushing, Erasing, Answering
<1>9. AsyncInv' /\ UsersListed' /\ ListenersConnected'
  BY <1>8 DEF Good, AsyncInv, UsersListed, ListenersConnected
<1>10. EraseInv'
  BY <1>1, SMTT(30) DEF Good, EraseInv, Answering
<1>11. StopInv'
  BY <1>1, <1>2 DEF Good, StopInv, StopSteps, CloseSteps
<1>12. UserInv'
  BY <1>1, <1>8, SMTT(30) DEF Good, UserInv
<1>13. AloneInv'
  BY <1>1, <1>2 DEF Good, AloneInv, Alone
<1> QED BY <1>4, <1>5, <1>6, <1>7, <1>9, <1>10, <1>11, <1>12, <1>13 DEF Good

\* close() looks whether the connection has its AsyncIO.  stopServer closes a
\* connection that has none only after it is erased.
LEMMA ClosingGood ==
  ASSUME TypeOK, Good, NEW t \in IoThread, pc[t] = "close",
         UNCHANGED <<users, listeners, nextId, conns, async, acc, clock, read, writes>>,
         \/ Conn(t) \in async /\ Goto(t, "reset") /\ UNCHANGED arg
         \/ Conn(t) \notin async /\ Closed(t)
  PROVE  Good'
<1> USE Threads
<1>1. \A u \in Thread \ {t} : pc'[u] = pc[u] /\ Conn(u)' = Conn(u) /\ arg'[u] = arg[u]
  BY Moves, Works, SMTT(30) DEF Closed, Finish
<1>2. \/ /\ pc'[t] = "reset" /\ Conn(t)' = Conn(t) /\ arg'[t].todo = arg[t].todo /\ Conn(t) \in async
      \/ /\ pc'[t] = "stop" /\ Conn(t)' = Conn(t) /\ arg'[t].todo = arg[t].todo /\ acc = "closed"
         /\ Conn(t) \notin async
      \/ pc'[t] = "idle" /\ Conn(t)' = None /\ acc # "closed"
  BY Moves, Works, SMTT(30) DEF Closed, Finish
<1>3. Conn(t) \in ClientId
  BY DEF Good, ConnInv, CloseSteps
<1>4. AppInv' /\ ConnInv'
  BY <1>1, <1>2, <1>3, SMTT(30) DEF Good, AppInv, ConnInv, AcceptSteps, CloseSteps, MessageSteps, Kinds
<1>5. FreshInv' /\ LockInv' /\ MessageInv'
  <2>1. FreshInv'
    BY <1>1, <1>2, NewConn, SMTT(30) DEF Good, FreshInv, Unused
  <2>2. LockInv' /\ MessageInv'
    BY <1>1, <1>2, SMTT(30) DEF Good, LockInv, AcceptSteps, MessageInv, MessageSteps, Kinds
  <2> QED BY <2>1, <2>2
<1>6. \A c : /\ Accepting(c)' <=> Accepting(c)
             /\ Pushing(c)' <=> Pushing(c)
             /\ Erasing(c)' <=> Erasing(c)
             /\ Answering(c)' <=> Answering(c)
  BY <1>1, <1>2 DEF Accepting, Pushing, Erasing, Answering
<1>7. AsyncInv' /\ UsersListed' /\ ListenersConnected'
  BY <1>6 DEF Good, AsyncInv, UsersListed, ListenersConnected
<1>8. EraseInv' /\ UserInv'
  BY <1>1, <1>2, <1>6, SMTT(30) DEF Good, EraseInv, UserInv, Answering
<1>9. StopInv'
  <2>1. acc = "closed" /\ Conn(t) \notin async => Conn(t) \notin conns
    BY <1>3 DEF Good, AppInv, AsyncInv, Erasing, StopInv
  <2>2. CASE acc = "closed"
    <3>1. /\ conns \ {Conn(t)} \subseteq arg[t].todo /\ arg[t].todo \subseteq conns \ {Conn(t)}
          /\ \A u \in IoThread \ {t} : pc[u] \in {"idle", "absent"}
      BY <2>2 DEF Good, StopInv, CloseSteps
    <3>2. CASE pc'[t] = "reset"
      BY <1>1, <1>2, <2>2, <3>1, <3>2, SMTT(30) DEF StopInv, StopSteps, CloseSteps
    <3>3. CASE pc'[t] = "stop"
      <4>1. arg'[t].todo = conns
        BY <1>2, <2>1, <2>2, <3>1, <3>3, SMTT(30)
      <4> QED BY <1>1, <2>2, <3>1, <3>3, <4>1, SMTT(30) DEF StopInv, StopSteps, CloseSteps
    <3> QED BY <1>2, <2>2, <3>2, <3>3
  <2>3. CASE acc # "closed"
    BY <1>1, <1>2, <2>3, SMTT(30) DEF Good, StopInv, StopSteps
  <2> QED BY <2>2, <2>3
<1>10. AloneInv'
  BY <1>1, <1>2 DEF Good, AloneInv, Alone
<1> QED BY <1>4, <1>5, <1>7, <1>8, <1>9, <1>10 DEF Good

\* full_stop: a pending read fails and _async_connection is null.
LEMMA ResetGood ==
  ASSUME TypeOK, Good, NEW t \in IoThread, Reset(t), ~Crash(t, "null")
  PROVE  Good'
<1> USE Threads
<1>1. /\ pc[t] = "reset" /\ async' = async \ {Conn(t)} /\ Goto(t, "erase")
      /\ UNCHANGED <<users, listeners, nextId, conns, acc, clock, writes, arg>>
  BY DEF Reset, At, node, locks
<1>2. /\ pc'[t] = "erase"
      /\ \A u \in Thread \ {t} : pc'[u] = pc[u]
      /\ \A u \in Thread : Conn(u)' = Conn(u) /\ arg'[u] = arg[u]
  BY <1>1, Moves
<1>3. Conn(t) \in ClientId
  BY <1>1 DEF Good, ConnInv, CloseSteps
<1>4. \A c \in ClientId : read'[c] = read[c] \/ read[c] = "pending"
  BY <1>3 DEF Reset, TypeOK
<1>5. AppInv' /\ ConnInv'
  BY <1>1, <1>2, <1>3 DEF Good, AppInv, ConnInv, AcceptSteps, CloseSteps, MessageSteps, Kinds
<1>6. FreshInv'
  BY <1>1, <1>2, <1>4, NewConn, SMTT(30) DEF Good, FreshInv, Unused
<1>7. LockInv'
  BY <1>1, <1>2, SMTT(30) DEF Good, LockInv, AcceptSteps
<1>8. MessageInv'
  <2>1. \A u \in IoThread : pc[u] \in MessageSteps => Conn(u) \in ClientId
    BY DEF Good, ConnInv
  <2> QED BY <1>1, <1>2, <1>4, <2>1, SMTT(30) DEF Good, MessageInv, MessageSteps, Kinds
<1>9. \A c : /\ Accepting(c)' <=> Accepting(c)
             /\ Pushing(c)' <=> Pushing(c)
             /\ Erasing(c) \/ c = Conn(t) => Erasing(c)'
             /\ Answering(c)' <=> Answering(c)
  BY <1>1, <1>2 DEF Accepting, Pushing, Erasing, Answering
<1>10. AsyncInv' /\ UsersListed' /\ ListenersConnected'
  BY <1>1, <1>9 DEF Good, AsyncInv, UsersListed, ListenersConnected
<1>11. EraseInv' /\ UserInv'
  BY <1>1, <1>2, <1>9, SMTT(30) DEF Good, EraseInv, UserInv, Answering
<1>12. StopInv'
  BY <1>1, <1>2 DEF Good, StopInv, StopSteps, CloseSteps
<1>13. AloneInv'
  <2>1. Alone(t) /\ Conn(t) \in async => Conn(t) \in conns
    BY <1>1 DEF Good, AppInv, AsyncInv, Pushing, Alone
  <2> QED BY <1>1, <1>2, <2>1 DEF Good, AloneInv, Alone
<1> QED BY <1>5, <1>6, <1>7, <1>8, <1>10, <1>11, <1>12, <1>13 DEF Good

\* erase_client_description finds the connection and erases its user.
LEMMA EraseGood ==
  ASSUME TypeOK, Good, NEW t \in IoThread, pc[t] = "erase", clock = None, clock' = t,
         Conn(t) \in conns \cap users, users' = users \ {Conn(t)}, Goto(t, "eraseClient"),
         UNCHANGED <<listeners, nextId, conns, async, acc, read, writes, arg>>
  PROVE  Good'
<1> USE Threads
<1>1. /\ pc'[t] = "eraseClient"
      /\ \A u \in Thread \ {t} : pc'[u] = pc[u]
      /\ \A u \in Thread : Conn(u)' = Conn(u) /\ arg'[u] = arg[u]
  BY Moves
<1>2. Conn(t) \in ClientId /\ \A u \in Thread : pc[u] \notin {"push", "eraseClient"}
  BY DEF Good, ConnInv, CloseSteps, LockInv
<1>3. \A c : /\ Accepting(c)' <=> Accepting(c)
             /\ Pushing(c)' <=> Pushing(c)
             /\ Erasing(c)' <=> Erasing(c)
             /\ Answering(c)' <=> Answering(c)
  BY <1>1 DEF Accepting, Pushing, Erasing, Answering
<1>4. AppInv' /\ ConnInv'
  BY <1>1, <1>2, SMTT(30) DEF Good, AppInv, ConnInv, AcceptSteps, CloseSteps, MessageSteps, Kinds
<1>5. FreshInv' /\ LockInv' /\ MessageInv'
  BY <1>1, <1>2, SMTT(30) DEF Good, FreshInv, Unused, LockInv, AcceptSteps, MessageInv, MessageSteps, Kinds
<1>6. AsyncInv' /\ UsersListed' /\ ListenersConnected'
  BY <1>3 DEF Good, AsyncInv, UsersListed, ListenersConnected
<1>7. EraseInv'
  BY <1>1, <1>2 DEF Good, EraseInv
<1>8. StopInv'
  BY <1>1 DEF Good, StopInv, StopSteps, CloseSteps
<1>9. UserInv'
  <2>1. ~Accepting(Conn(t))
    BY <1>2 DEF Good, FreshInv, Accepting
  <2> QED BY <1>1, <1>2, <1>3, <2>1 DEF Good, UserInv
<1>10. AloneInv'
  BY <1>1 DEF Good, AloneInv, Alone
<1> QED BY <1>4, <1>5, <1>6, <1>7, <1>8, <1>9, <1>10 DEF Good

\* The node forgets the client and the list its connection.
LEMMA EraseClientGood ==
  ASSUME TypeOK, Good, NEW t \in IoThread, EraseClient(t)
  PROVE  Good'
<1> USE Threads
<1> DEFINE c == Conn(t)
<1>1. /\ pc[t] = "eraseClient" /\ clock' = None
      /\ listeners' = listeners \ {c} /\ conns' = conns \ {c} /\ Closed(t)
      /\ UNCHANGED <<users, nextId, async, acc, read, writes>>
  BY DEF EraseClient, At, ListenersWithout, socks
<1>2. \A u \in Thread \ {t} : pc'[u] = pc[u] /\ Conn(u)' = Conn(u) /\ arg'[u] = arg[u]
  BY <1>1, Moves, Works, SMTT(30) DEF Closed, Finish
<1>3. \/ pc'[t] = "stop" /\ Conn(t)' = c /\ arg'[t].todo = arg[t].todo /\ acc = "closed"
      \/ pc'[t] = "idle" /\ Conn(t)' = None /\ acc # "closed"
  BY <1>1, Moves, Works, SMTT(30) DEF Closed, Finish
<1>4. /\ c \in ClientId /\ c \notin async /\ (c \in users => Answering(c))
      /\ \A u \in Thread : pc[u] \in {"push", "eraseClient"} => u = t
  BY <1>1 DEF Good, ConnInv, CloseSteps, LockInv, EraseInv
<1> HIDE DEF c
<1>5. AppInv' /\ ConnInv'
  BY <1>1, <1>2, <1>3, <1>4, SMTT(30) DEF Good, AppInv, ConnInv, AcceptSteps, CloseSteps, MessageSteps, Kinds
<1>6. FreshInv'
  BY <1>1, <1>2, <1>3, NewConn, SMTT(30) DEF Good, FreshInv, Unused, c
<1>7. LockInv' /\ MessageInv'
  BY <1>1, <1>2, <1>3, <1>4, SMTT(30) DEF Good, LockInv, AcceptSteps, MessageInv, MessageSteps, Kinds
<1>8. \A d : /\ Accepting(d)' <=> Accepting(d)
             /\ ~Pushing(d)' /\ ~Pushing(d)
             /\ d # c /\ Erasing(d) => Erasing(d)'
             /\ Answering(d)' <=> Answering(d)
  BY <1>1, <1>2, <1>3, <1>4 DEF Accepting, Pushing, Erasing, Answering, c
<1>9. AsyncInv' /\ UsersListed' /\ ListenersConnected'
  BY <1>1, <1>4, <1>8 DEF Good, AsyncInv, UsersListed, ListenersConnected
<1>10. EraseInv'
  BY <1>1, <1>2, <1>3, <1>4 DEF Good, EraseInv
<1>11. StopInv'
  <2>1. CASE acc = "closed"
    <3>1. /\ \A u \in IoThread \ {t} : pc[u] \in {"idle", "absent"}
          /\ conns \ {c} \subseteq arg[t].todo /\ arg[t].todo \subseteq conns \ {c}
      BY <1>1, <2>1 DEF Good, StopInv, CloseSteps, c
    <3>2. \A u \in IoThread \ {t} : pc'[u] \in {"idle", "absent"}
      BY <1>2, <3>1
    <3>3. pc'[t] = "stop" /\ arg'[t].todo = conns' /\ acc' = "closed"
      BY <1>1, <1>3, <2>1, <3>1
    <3> QED BY <3>2, <3>3 DEF StopInv, StopSteps, CloseSteps
  <2>2. CASE acc # "closed"
    <3>1. acc' # "closed" /\ pc'[t] = "idle"
      BY <1>1, <1>3, <2>2
    <3>2. \A u \in IoThread : pc'[u] \notin StopSteps
      BY <1>2, <2>2, <3>1 DEF Good, StopInv, StopSteps
    <3> QED BY <3>1, <3>2 DEF StopInv
  <2> QED BY <2>1, <2>2
<1>12. UserInv'
  BY <1>1, <1>2, <1>4, <1>8 DEF Good, UserInv, c
<1>13. AloneInv'
  BY <1>1, <1>2, <1>3 DEF Good, AloneInv, Alone
<1> QED BY <1>5, <1>6, <1>7, <1>9, <1>10, <1>11, <1>12, <1>13 DEF Good

\* stopServer and the destructor: the other threads of the pool are idle, and
\* what is left to close are the listed connections.
LEMMA StoppingGood ==
  ASSUME TypeOK, Good, NEW t \in IoThread, pc[t] \in {"idle", "stop", "stopped"},
         \A u \in IoThread \ {t} : pc[u] \in {"idle", "absent"},
         acc' = "closed", listeners' \subseteq listeners,
         UNCHANGED <<users, nextId, conns, async, clock, read, writes>>,
         \A u \in Thread \ {t} : pc'[u] = pc[u] /\ Conn(u)' = Conn(u) /\ arg'[u] = arg[u],
         \/ pc'[t] = "stop" /\ Conn(t)' = None /\ arg'[t].todo = conns
         \/ pc'[t] = "close" /\ Conn(t)' \in conns /\ arg'[t].todo = conns \ {Conn(t)'}
         \/ pc'[t] \in {"stopped", "destroyed"} /\ Conn(t)' \in {None, Conn(t)} /\ conns = {}
  PROVE  Good'
<1> USE Threads
<1>1. /\ \A u \in Thread : pc[u] \in {"idle", "absent", "deliver", "sendTo", "stop", "stopped"}
      /\ \A u \in Thread : pc'[u] \in {"idle", "absent", "deliver", "sendTo", "close"} \cup StopSteps
      /\ \A u \in IoThread \ {t} : pc'[u] \in {"idle", "absent"}
      /\ pc'[t] \in StopSteps \cup {"close"}
  BY DEF Good, AppInv, StopSteps
<1>2. conns \subseteq ClientId
  BY DEF TypeOK
<1>3. AppInv' /\ ConnInv'
  BY <1>1, <1>2, SMTT(30) DEF Good, AppInv, ConnInv, AcceptSteps, CloseSteps, MessageSteps, StopSteps, Kinds
<1>4. FreshInv'
  <2>1. \A c \in ClientId : c >= nextId => Conn(t)' # c
    BY SMTT(30) DEF Good, FreshInv, Unused
  <2> QED BY <1>1, <2>1, SMTT(30) DEF Good, FreshInv, Unused, StopSteps
<1>5. LockInv' /\ MessageInv'
  BY <1>1 DEF Good, LockInv, AcceptSteps, MessageInv, MessageSteps, StopSteps, Kinds
<1>6. \A c : /\ ~Accepting(c) /\ ~Pushing(c) /\ ~Pushing(c)' /\ ~Accepting(c)'
             /\ ~Erasing(c) /\ ~Answering(c)
  BY <1>1 DEF Accepting, Pushing, Erasing, Answering, StopSteps
<1>7. AsyncInv' /\ UsersListed' /\ ListenersConnected'
  BY <1>6 DEF Good, AsyncInv, UsersListed, ListenersConnected
<1>8. EraseInv' /\ UserInv'
  BY <1>1, <1>6 DEF Good, EraseInv, UserInv, StopSteps
<1>9. StopInv'
  BY <1>1 DEF StopInv, StopSteps, CloseSteps
<1>10. AloneInv'
  BY <1>1 DEF AloneInv, StopSteps
<1> QED BY <1>3, <1>4, <1>5, <1>7, <1>8, <1>9, <1>10 DEF Good

-----------------------------------------------------------------------------
(* Each step keeps the types. *)

\* A thread at one of the program's steps.
LEMMA GotoType ==
  ASSUME TypeOK, NEW t \in Thread, NEW step \in Steps, Goto(t, step)
  PROVE  pc' \in [Thread -> Steps]
BY DEF TypeOK, Goto

\* A thread with a connection, an id and ids to go through.
LEMMA BusyType ==
  ASSUME TypeOK, NEW t \in Thread, NEW c \in ClientId \cup {None}, NEW id \in Nat, NEW todo \in SUBSET Id,
         Busy(t, c, id, todo)
  PROVE  arg' \in [Thread -> [conn : ClientId \cup {None}, id : Nat, todo : SUBSET Id]]
<1>1. [conn |-> c, id |-> id, todo |-> todo] \in [conn : ClientId \cup {None}, id : Nat, todo : SUBSET Id]
  BY SMTT(30)
<1> QED BY <1>1 DEF TypeOK, Busy

\* A thread that is done with its work.
LEMMA FinishType ==
  ASSUME TypeOK, NEW t \in Thread, NEW step \in Steps, Finish(t, step)
  PROVE  /\ pc' \in [Thread -> Steps]
         /\ arg' \in [Thread -> [conn : ClientId \cup {None}, id : Nat, todo : SUBSET Id]]
<1>1. 0 \in Nat
  BY SMTT(30)
<1> QED BY <1>1, GotoType, BusyType, SMTT(30) DEF Finish

\* The parts of a thread's work.
LEMMA ArgType ==
  ASSUME TypeOK, NEW t \in Thread
  PROVE  Conn(t) \in ClientId \cup {None} /\ arg[t].id \in Nat /\ arg[t].todo \in SUBSET Id
<1>1. arg[t] \in [conn : ClientId \cup {None}, id : Nat, todo : SUBSET Id]
  BY DEF TypeOK
<1> QED BY <1>1, SMTT(30) DEF Conn

\* A read that starts, completes or is taken.
LEMMA ReadType ==
  ASSUME TypeOK, NEW c, NEW v \in {"none", "pending", "error"} \cup Kinds
  PROVE  [read EXCEPT ![c] = v] \in [ClientId -> {"none", "pending", "error"} \cup Kinds]
BY DEF TypeOK

\* The clients' ends.
LEMMA OutsideType ==
  ASSUME TypeOK, NEW c \in ClientId, (\E kind \in Kinds : Arrives(c, kind)) \/ HangsUp(c) \/ Written(c)
  PROVE  TypeOK'
<1>1. UNCHANGED <<users, listeners, nextId, conns, async, acc, clock, slock, nextMessageId, out, pc, arg>>
  BY DEF Arrives, HangsUp, Written, node, table, locks, ids
<1>2. writes' \in SUBSET ClientId /\ peer' \in [ClientId -> {"none", "open", "gone"}]
  BY DEF Arrives, HangsUp, Written, TypeOK
<1>3. read' \in [ClientId -> {"none", "pending", "error"} \cup Kinds]
  BY DEF Arrives, HangsUp, Written, TypeOK
<1>4. requests' \in Nat
  BY SMTT(30) DEF Arrives, HangsUp, Written, TypeOK
<1> QED BY <1>1, <1>2, <1>3, <1>4 DEF TypeOK

\* A thread of the pool that starts a handler.
LEMMA HandleType ==
  ASSUME TypeOK, NEW t \in Thread, Handle(t)
  PROVE  TypeOK'
<1>0. 0 \in Nat
  BY SMTT(30)
<1>1. CASE handle_accept(t)
  <2>1. nextId \in ClientId /\ nextId' \in 0 .. MaxClients
    BY <1>1, ServerAssumption, SMTT(30) DEF handle_accept, TypeOK, ClientId
  <2>2. /\ pc' \in [Thread -> Steps]
        /\ arg' \in [Thread -> [conn : ClientId \cup {None}, id : Nat, todo : SUBSET Id]]
    BY <1>0, <1>1, <2>1, GotoType, BusyType, SMTT(30) DEF handle_accept, Take, NewId, Steps
  <2>3. peer' \in [ClientId -> {"none", "open", "gone"}] /\ users' \in SUBSET Id /\ acc' = "busy"
    BY <1>1, <2>1 DEF handle_accept, NewId, TypeOK, Id
  <2>4. UNCHANGED <<listeners, conns, async, read, writes, requests, clock, slock, nextMessageId, out>>
    BY <1>1 DEF handle_accept, locks, ids
  <2> QED BY <2>1, <2>2, <2>3, <2>4 DEF TypeOK
<1>2. ASSUME NEW c \in ClientId, onNetworkError(t, c) \/ onNewMessage(t, c) PROVE TypeOK'
  <2>1. PICK step \in Steps : Take(t, c, step)
    BY <1>2 DEF onNetworkError, onNewMessage, Steps
  <2>2. /\ pc' \in [Thread -> Steps]
        /\ arg' \in [Thread -> [conn : ClientId \cup {None}, id : Nat, todo : SUBSET Id]]
    BY <1>0, <2>1, GotoType, BusyType, SMTT(30) DEF Take
  <2>3. read' \in [ClientId -> {"none", "pending", "error"} \cup Kinds] /\ writes' \in SUBSET ClientId
    BY <1>2, ReadType DEF onNetworkError, onNewMessage, TypeOK
  <2>4. UNCHANGED <<users, listeners, peer, requests, nextId, conns, async, acc, clock, slock, nextMessageId, out>>
    BY <1>2 DEF onNetworkError, onNewMessage, node, table, locks, ids
  <2> QED BY <2>2, <2>3, <2>4 DEF TypeOK
<1> QED BY <1>1, <1>2 DEF Handle

\* The rest of a handler: what it does to its connection.
LEMMA StepType ==
  ASSUME TypeOK, Good, NEW t \in Thread,
         Start(t) \/ Push(t) \/ setLogin(t) \/ Request(t) \/ Answer(t) \/ Reset(t) \/ Erase(t) \/ EraseClient(t)
  PROVE  TypeOK'
<1> USE ArgType
<1> DEFINE W == /\ pc' \in [Thread -> Steps]
                /\ arg' \in [Thread -> [conn : ClientId \cup {None}, id : Nat, todo : SUBSET Id]]
<1>1. ASSUME NEW step \in Steps, Goto(t, step), UNCHANGED arg PROVE W
  BY <1>1, GotoType DEF TypeOK
<1>2. ASSUME NEW step \in Steps, Finish(t, step) PROVE W
  BY <1>2, FinishType
<1> HIDE DEF W
<1>3. ASSUME NEW what \in Fatal, Crash(t, what) PROVE TypeOK'
  <2>1. W
    BY <1>1, <1>3 DEF Crash, Steps
  <2> QED BY <1>3, <2>1 DEF Crash, node, socks, table, locks, ids, TypeOK, W
<1>4. ASSUME Closed(t) PROVE W
  BY <1>1, <1>2, <1>4 DEF Closed, Steps
<1>5. CASE Start(t)
  <2>1. W /\ Conn(t) \in ClientId
    BY <1>1, <1>5, ConnType DEF Start, Steps, At, AcceptSteps
  <2>2. read' \in [ClientId -> {"none", "pending", "error"} \cup Kinds]
    BY <1>5, ReadType DEF Start, ReadNext
  <2> QED BY <1>5, <2>1, <2>2 DEF Start, node, ids, TypeOK, W
<1>6. CASE Push(t)
  <2>1. W /\ Conn(t) \in ClientId
    BY <1>2, <1>6, ConnType DEF Push, Steps, At, AcceptSteps
  <2> QED BY <1>6, <2>1 DEF Push, node, socks, ids, TypeOK, W
<1>7. CASE setLogin(t)
  <2>1. W /\ Conn(t) \in ClientId
    BY <1>1, <1>7, ConnType DEF setLogin, Steps, At, MessageSteps, Kinds
  <2> QED BY <1>7, <2>1 DEF setLogin, socks, table, locks, ids, TypeOK, W, Id
<1>8. CASE Request(t)
  <2>1. Conn(t) \in ClientId
    BY <1>8, ConnType DEF Request, At, MessageSteps, Kinds
  <2>2. CASE Crash(t, "throw")
    BY <1>3, <2>2 DEF Fatal
  <2>3. CASE /\ listeners' \in {listeners, listeners \cup {Conn(t)}, listeners \ {Conn(t)}}
             /\ Goto(t, "answer") /\ UNCHANGED <<users, socks, table, locks, ids, arg>>
    <3>1. W
      BY <1>1, <2>3 DEF Steps
    <3> QED BY <2>1, <2>3, <3>1 DEF socks, table, locks, ids, TypeOK, W, Id
  <2> QED BY <1>8, <2>2, <2>3 DEF Request
<1>9. CASE Answer(t)
  <2>1. CASE Conn(t) \in async
    <3>1. W
      BY <1>2, <1>9, <2>1 DEF Answer, Steps
    <3>2. read' \in [ClientId -> {"none", "pending", "error"} \cup Kinds]
      BY <1>9, <2>1, ReadType, SMTT(30) DEF Answer, ReadNext
    <3> QED BY <1>9, <2>1, <3>1, <3>2, SMTT(30) DEF Answer, node, table, locks, ids, TypeOK, W
  <2> QED BY <1>3, <1>9, <2>1 DEF Answer, Fatal
<1>10. CASE Reset(t)
  <2>1. CASE Crash(t, "null")
    BY <1>3, <2>1 DEF Fatal
  <2>2. CASE ~Crash(t, "null")
    <3>1. W
      BY <1>1, <1>10, <2>2 DEF Reset, Steps
    <3>2. read' \in [ClientId -> {"none", "pending", "error"} \cup Kinds]
      BY <1>10, <2>2 DEF Reset, TypeOK
    <3> QED BY <1>10, <2>2, <3>1, <3>2 DEF Reset, node, locks, ids, TypeOK, W
  <2> QED BY <2>1, <2>2
<1>11. CASE Erase(t)
  <2>1. CASE Crash(t, "ensure")
    BY <1>3, <2>1 DEF Fatal
  <2>2. CASE Conn(t) \in conns \cap users
    <3>1. W
      BY <1>1, <1>11, <2>2 DEF Erase, Steps
    <3> QED BY <1>11, <2>2, <3>1 DEF Erase, UsersWithout, socks, table, ids, TypeOK, W
  <2> QED BY <1>11, <2>1, <2>2 DEF Erase
<1>12. CASE EraseClient(t)
  <2>1. W
    BY <1>4, <1>12 DEF EraseClient
  <2> QED BY <1>12, <2>1 DEF EraseClient, ListenersWithout, socks, ids, TypeOK, W
<1> QED BY <1>5, <1>6, <1>7, <1>8, <1>9, <1>10, <1>11, <1>12

\* A publish, stopServer and the other calls.
LEMMA CallType ==
  ASSUME TypeOK, Good, NEW t \in Thread,
         \/ Publish(t) \/ CallConsumer(t) \/ onSendToClient(t) \/ sendTo(t) \/ Published(t) \/ Close(t)
         \/ CloseNext(t) \/ Stopped(t) \/ StopServer(t) \/ Destroy(t) \/ AcceptFails(t) \/ Subscribe(t)
  PROVE  TypeOK'
<1> USE ArgType
<1> DEFINE W == /\ pc' \in [Thread -> Steps]
                /\ arg' \in [Thread -> [conn : ClientId \cup {None}, id : Nat, todo : SUBSET Id]]
<1>0. 0 \in Nat
  BY SMTT(30)
<1>1. ASSUME NEW step \in Steps, Goto(t, step), UNCHANGED arg PROVE W
  BY <1>1, GotoType DEF TypeOK
<1>2. ASSUME NEW step \in Steps, Finish(t, step) PROVE W
  BY <1>2, FinishType
<1>3. ASSUME NEW step \in Steps, Goto(t, step), NEW c \in ClientId \cup {None}, NEW todo \in SUBSET Id,
             Busy(t, c, 0, todo)
      PROVE  W
  BY <1>0, <1>3, GotoType, BusyType
<1> HIDE DEF W
<1>4. ASSUME NEW what \in Fatal, Crash(t, what) PROVE TypeOK'
  <2>1. W
    BY <1>1, <1>4 DEF Crash, Steps
  <2> QED BY <1>4, <2>1 DEF Crash, node, socks, table, locks, ids, TypeOK, W
<1>5. CASE Publish(t)
  <2>1. W
    BY <1>3, <1>5 DEF Publish, Steps, TypeOK
  <2> QED BY <1>5, <2>1 DEF Publish, node, socks, table, locks, ids, TypeOK, W
<1>6. CASE CallConsumer(t)
  <2>1. W
    BY <1>0, <1>6, BusyType, SMTT(30) DEF CallConsumer, TypeOK, W
  <2> QED BY <1>6, <2>1 DEF CallConsumer, node, socks, table, locks, ids, TypeOK, W
<1>7. CASE onSendToClient(t)
  <2>1. W
    BY <1>7, GotoType, BusyType DEF onSendToClient, Steps, TypeOK, W
  <2>2. nextMessageId' \in Nat
    BY <1>7, SMTT(30) DEF onSendToClient, TypeOK
  <2> QED BY <1>7, <2>1, <2>2 DEF onSendToClient, node, socks, table, TypeOK, W
<1>8. CASE sendTo(t)
  <2>1. ASSUME NEW c \in ClientId, out' = [out EXCEPT ![c] = Append(@, arg[t].id)], writes' = writes \cup {c},
               slock' = None, Goto(t, "deliver"), Busy(t, Conn(t), 0, arg[t].todo \ {c}),
               UNCHANGED <<node, peer, read, requests, table, clock, nextMessageId>>
        PROVE  TypeOK'
    <3>1. W
      BY <1>3, <2>1 DEF Steps
    <3>2. Append(out[c], arg[t].id) \in Seq(Nat)
      BY AppendProperties DEF TypeOK
    <3>3. out' \in [ClientId -> Seq(Nat)]
      BY <2>1, <3>2 DEF TypeOK
    <3> QED BY <2>1, <3>1, <3>3 DEF node, table, TypeOK, W
  <2>2. ASSUME slock' = None, Finish(t, "idle"), UNCHANGED <<node, socks, table, clock, ids>> PROVE TypeOK'
    <3>1. W
      BY <1>2, <2>2 DEF Steps
    <3> QED BY <2>2, <3>1 DEF node, socks, table, ids, TypeOK, W
  <2> QED BY <1>4, <1>8, <2>1, <2>2 DEF sendTo, Fatal
<1>9. CASE Published(t)
  <2>1. W
    BY <1>1, <1>2, <1>9 DEF Published, Steps
  <2> QED BY <1>9, <2>1 DEF Published, node, socks, table, locks, ids, TypeOK, W
<1>10. CASE Close(t)
  <2>1. W
    BY <1>1, <1>2, <1>10 DEF Close, Closed, Steps
  <2> QED BY <1>10, <2>1 DEF Close, node, socks, table, locks, ids, TypeOK, W
<1>11. CASE CloseNext(t)
  <2>1. pc[t] = "stop" /\ arg[t].todo \subseteq ClientId
    BY <1>11, Threads DEF CloseNext, At, Good, AppInv, ConnInv
  <2>2. W
    BY <1>3, <1>11, <2>1 DEF CloseNext, Steps
  <2> QED BY <1>11, <2>2 DEF CloseNext, node, socks, table, locks, ids, TypeOK, W
<1>12. CASE Stopped(t)
  <2>1. W
    BY <1>2, <1>12 DEF Stopped, Steps
  <2> QED BY <1>12, <2>1 DEF Stopped, node, socks, locks, ids, TypeOK, W
<1>13. CASE StopServer(t)
  <2>1. W
    BY <1>3, <1>13 DEF StopServer, LocalCopy, Steps, TypeOK, Id
  <2> QED BY <1>13, <2>1 DEF StopServer, node, socks, locks, ids, TypeOK, W
<1>14. CASE Destroy(t)
  <2>1. W
    BY <1>1, <1>14 DEF Destroy, Steps
  <2> QED BY <1>14, <2>1 DEF Destroy, ListenersWithout, socks, table, locks, ids, TypeOK, W
<1>15. CASE AcceptFails(t)
  BY <1>4, <1>15 DEF AcceptFails, Fatal, node, socks, locks, ids, TypeOK
<1>16. CASE Subscribe(t)
  BY <1>16 DEF Subscribe, socks, table, locks, ids, TypeOK, Id
<1> QED BY <1>5, <1>6, <1>7, <1>8, <1>9, <1>10, <1>11, <1>12, <1>13, <1>14, <1>15, <1>16

-----------------------------------------------------------------------------
(* The invariants of the runs follow from Good, and survive a crash. *)

\* A thread about to erase a connection comes after handle_accept, which holds
\* the lock from start to push_back; the only thread of a pool finds it listed.
LEMMA GoodErases == Good => ErasedAfterListed /\ AloneErases
<1> SUFFICES ASSUME Good, NEW t \in Thread, pc[t] = "erase"
             PROVE  /\ clock = None => ~Accepting(Conn(t))
                    /\ t \in IoThread
                    /\ Alone(t) /\ clock = None => Conn(t) \in conns \cap users
  BY DEF ErasedAfterListed, AloneErases
<1>1. t \in IoThread /\ Conn(t) \in ClientId
  BY ConnType DEF CloseSteps
<1> SUFFICES ASSUME clock = None
             PROVE  ~Accepting(Conn(t)) /\ (Alone(t) => Conn(t) \in conns \cap users)
  BY <1>1
<1>2. \A u \in Thread : pc[u] \notin {"push", "eraseClient"}
  BY <1>1, Threads DEF Good, LockInv
<1>3. ~Accepting(Conn(t))
  BY <1>1, <1>2 DEF Good, FreshInv, Accepting
<1> QED BY <1>1, <1>2, <1>3 DEF Good, AloneInv, UserInv

\* stopServer ran alone to the end of the list: nobody is left.
LEMMA GoodInv == TypeOK /\ Good => ServerInv
<1> SUFFICES ASSUME TypeOK, Good, NEW t \in Thread, pc[t] = "stopped"
             PROVE  users = {ServerID} /\ listeners \subseteq {ServerID} /\ conns = {} /\ async = {}
  BY GoodErases DEF ServerInv, StoppedIsEmpty, Good
<1>1. /\ t \in IoThread /\ conns = {}
      /\ \A u \in Thread \ {t} : pc[u] \in {"idle", "absent", "deliver", "sendTo"}
  BY Threads DEF Good, AppInv, StopInv, StopSteps
<1>2. \A c : ~Accepting(c) /\ ~Pushing(c) /\ ~Answering(c)
  BY <1>1 DEF Accepting, Pushing, Answering
<1> QED BY <1>1, <1>2 DEF Good, UserInv, UsersListed, ListenersConnected, AsyncInv

\* The same of the state after a step.
LEMMA GoodInvNext == TypeOK' /\ Good' => ServerInv'
BY GoodInv, PTL

\* A thread that dies was not accepting and has not stopped the server.
LEMMA CrashInv ==
  ASSUME ServerInv, TypeOK', NEW t \in Thread, pc[t] \notin AcceptSteps \cup {"absent", "stopped"},
         NEW what \in Fatal, Crash(t, what)
  PROVE  ServerInv'
<1>1. /\ pc'[t] = what /\ \A u \in Thread \ {t} : pc'[u] = pc[u]
      /\ \A u \in Thread : Conn(u)' = Conn(u)
      /\ UNCHANGED <<users, listeners, conns, async, clock>>
  BY Moves DEF Crash, ServerInv, node, table, locks
<1>2. ~Alive'
  BY <1>1 DEF Alive
<1>3. ListenersConnected'
  BY <1>1 DEF ServerInv, ListenersConnected, Accepting, AcceptSteps
<1>4. StoppedIsEmpty'
  BY <1>1 DEF ServerInv, StoppedIsEmpty, Fatal
<1>5. ErasedAfterListed'
  <2>1. \A c : Accepting(c)' <=> Accepting(c)
    BY <1>1 DEF Accepting, AcceptSteps, Fatal
  <2> QED BY <1>1, <2>1 DEF ServerInv, ErasedAfterListed, Fatal
<1>6. AloneErases'
  <2>1. \A u \in Thread : Alone(u)' => Alone(u)
    BY <1>1, Threads DEF Alone, Fatal
  <2> QED BY <1>1, <2>1, Threads DEF ServerInv, AloneErases, Fatal
<1> QED BY <1>2, <1>3, <1>4, <1>5, <1>6 DEF ServerInv

-----------------------------------------------------------------------------
(* Each step keeps the inductive invariant. *)

\* A thread of the pool that starts a handler, a failed accept, stopServer and
\* the destructor.
LEMMA HandleInv ==
  ASSUME ServerInv, NEW t \in Thread, Handle(t) \/ AcceptFails(t) \/ StopServer(t) \/ Destroy(t)
  PROVE  ServerInv'
<1>1. TypeOK /\ Good /\ Alive
  BY DEF ServerInv, Handle, handle_accept, onNetworkError, onNewMessage, Take, AcceptFails, StopServer,
     Destroy, At
<1>2. TypeOK'
  BY <1>1, HandleType, CallType
<1>3. CASE handle_accept(t)
  BY <1>1, <1>2, <1>3, AcceptGood, GoodInvNext
<1>4. ASSUME NEW c \in ClientId, onNetworkError(t, c) PROVE Good'
  <2>1. /\ read[c] = "error" \/ c \in writes
        /\ \A d \in ClientId : read'[d] = read[d] \/ read'[d] = "none"
        /\ writes' \subseteq writes
    BY <1>1, <1>4 DEF onNetworkError, TypeOK
  <2> QED BY <1>1, <1>4, <2>1, HandlerGood DEF onNetworkError, node, table, locks
<1>5. ASSUME NEW c \in ClientId, onNewMessage(t, c) PROVE Good'
  <2>1. \A d \in ClientId : read'[d] = IF d = c THEN "none" ELSE read[d]
    BY <1>1, <1>5 DEF onNewMessage, TypeOK
  <2> QED BY <1>1, <1>5, <2>1, HandlerGood DEF onNewMessage, node, table, locks
<1>6. CASE AcceptFails(t)
  <2>1. CASE Crash(t, "throw")
    BY <1>2, <1>6, <2>1, CrashInv DEF AcceptFails, At, AcceptSteps, Fatal
  <2>2. CASE acc' = "off" /\ UNCHANGED <<node, socks, nextId, conns, async, locks, ids, pc, arg>>
    BY <1>1, <1>2, <1>6, <2>2, OutsideGood, GoodInvNext DEF AcceptFails, node, socks, locks
  <2> QED BY <1>6, <2>1, <2>2 DEF AcceptFails
<1>7. CASE StopServer(t)
  <2>1. /\ t \in IoThread /\ pc[t] = "idle" /\ acc' = "closed"
        /\ \A u \in IoThread : pc[u] \in {"idle", "absent"}
        /\ Goto(t, "stop") /\ Busy(t, None, 0, conns)
        /\ UNCHANGED <<users, listeners, nextId, conns, async, clock, read, writes>>
    BY <1>7 DEF StopServer, At, LocalCopy, node, socks, locks
  <2>2. /\ pc'[t] = "stop" /\ Conn(t)' = None /\ arg'[t].todo = conns
        /\ \A u \in Thread \ {t} : pc'[u] = pc[u] /\ Conn(u)' = Conn(u) /\ arg'[u] = arg[u]
    BY <1>1, <2>1, Works
  <2> QED BY <1>1, <1>2, <2>1, <2>2, StoppingGood, GoodInvNext
<1>8. CASE Destroy(t)
  <2>1. /\ pc[t] = "stopped" /\ Goto(t, "destroyed") /\ listeners' \subseteq listeners
        /\ UNCHANGED <<users, nextId, conns, async, acc, clock, read, writes, arg>>
    BY <1>8 DEF Destroy, At, ListenersWithout, socks, table, locks
  <2>2. /\ t \in IoThread /\ acc = "closed" /\ conns = {}
        /\ \A u \in IoThread \ {t} : pc[u] \in {"idle", "absent"}
    BY <1>1, <2>1, Threads DEF Good, AppInv, StopInv, StopSteps
  <2>3. /\ pc'[t] = "destroyed"
        /\ \A u \in Thread \ {t} : pc'[u] = pc[u]
        /\ \A u \in Thread : Conn(u)' = Conn(u) /\ arg'[u] = arg[u]
    BY <1>1, <2>1, Moves
  <2> QED BY <1>1, <1>2, <2>1, <2>2, <2>3, StoppingGood, GoodInvNext
<1> QED BY <1>1, <1>2, <1>3, <1>4, <1>5, <1>6, <1>7, <1>8, GoodInvNext DEF Handle

\* A publish, for a client or for the application.  sendTo may find its target
\* gone from the list, or without its AsyncIO: that ends the process or, for the
\* application, the publish.
LEMMA PublishInv ==
  ASSUME ServerInv, NEW t \in Thread,
         Publish(t) \/ CallConsumer(t) \/ onSendToClient(t) \/ sendTo(t) \/ Published(t)
  PROVE  ServerInv'
<1>1. TypeOK /\ Good /\ Alive
  BY DEF ServerInv, Publish, CallConsumer, onSendToClient, sendTo, Published, At
<1>2. TypeOK'
  BY <1>1, CallType
<1>3. /\ t \in AppThread => Conn(t) = None
      /\ t \in IoThread \/ t \in AppThread
  BY <1>1, Threads DEF Good, AppInv
<1>4. ASSUME NEW step, Goto(t, step), NEW id, NEW todo, Busy(t, Conn(t), id, todo),
             \/ t \in AppThread /\ step \in {"idle", "deliver", "sendTo"}
             \/ t \in IoThread /\ pc[t] \in MessageSteps \ {"answer"} /\ step \in MessageSteps,
             writes' \subseteq writes \cup async,
             UNCHANGED <<users, listeners, nextId, conns, async, acc, read, clock>>
      PROVE  ServerInv'
  <2>1. /\ pc'[t] = step /\ Conn(t)' = Conn(t)
        /\ \A u \in Thread \ {t} : pc'[u] = pc[u] /\ Conn(u)' = Conn(u) /\ arg'[u] = arg[u]
    BY <1>1, <1>4, Works
  <2>2. Good'
    BY <1>1, <1>4, <2>1, MessageGood
  <2> QED BY <1>2, <2>2, GoodInvNext
<1>5. CASE Publish(t)
  <2>1. t \in IoThread => pc[t] = "PUBLISH"
    BY <1>5, Threads DEF Publish, At
  <2> QED BY <1>3, <1>4, <1>5, <2>1 DEF Publish, node, socks, table, locks, MessageSteps, Kinds
<1>6. CASE CallConsumer(t)
  <2>1. Goto(t, "deliver") /\ pc[t] = "deliver"
    BY <1>1, <1>6 DEF CallConsumer, At, Goto, TypeOK
  <2> QED BY <1>3, <1>4, <1>6, <2>1 DEF CallConsumer, node, socks, table, locks, MessageSteps
<1>7. CASE onSendToClient(t)
  BY <1>3, <1>4, <1>7 DEF onSendToClient, At, node, socks, table, MessageSteps
<1>8. CASE sendTo(t)
  <2>1. pc[t] = "sendTo"
    BY <1>8 DEF sendTo, At
  <2>2. ASSUME NEW what \in Fatal, Crash(t, what) PROVE ServerInv'
    BY <1>2, <2>1, <2>2, CrashInv DEF AcceptSteps
  <2>3. ASSUME NEW c \in conns \cap async, writes' = writes \cup {c}, Goto(t, "deliver"),
               Busy(t, Conn(t), 0, arg[t].todo \ {c}),
               UNCHANGED <<node, peer, read, requests, table, clock, nextMessageId>>
        PROVE  ServerInv'
    BY <1>3, <1>4, <2>1, <2>3 DEF node, table, MessageSteps
  <2>4. ASSUME t \in AppThread, Finish(t, "idle"), UNCHANGED <<node, socks, table, clock, ids>>
        PROVE  ServerInv'
    BY <1>3, <1>4, <2>4 DEF Finish, node, socks, table
  <2> QED BY <1>8, <2>2, <2>3, <2>4 DEF sendTo, Fatal
<1>9. CASE Published(t)
  <2>1. CASE t \in IoThread
    <3>1. pc[t] = "deliver" /\ Goto(t, "answer") /\ UNCHANGED arg
      BY <1>9, <2>1 DEF Published, At
    <3>2. /\ pc'[t] = "answer"
          /\ \A u \in Thread \ {t} : pc'[u] = pc[u]
          /\ \A u \in Thread : Conn(u)' = Conn(u) /\ arg'[u] = arg[u]
      BY <1>1, <3>1, Moves
    <3>3. Good'
      BY <1>1, <1>9, <2>1, <3>1, <3>2, MessageGood
         DEF Published, node, socks, table, locks, MessageSteps
    <3> QED BY <1>2, <3>3, GoodInvNext
  <2>2. CASE t \notin IoThread
    BY <1>3, <1>4, <1>9, <2>2 DEF Published, Finish, node, socks, table, locks
  <2> QED BY <2>1, <2>2
<1> QED BY <1>5, <1>6, <1>7, <1>8, <1>9

\* A thread that goes on with its handler or its call.
LEMMA StepInv ==
  ASSUME ServerInv, NEW t \in Thread, Step(t)
  PROVE  ServerInv'
<1>1. CASE Publish(t) \/ CallConsumer(t) \/ onSendToClient(t) \/ sendTo(t) \/ Published(t)
  BY <1>1, PublishInv
<1>2. CASE ~(Publish(t) \/ CallConsumer(t) \/ onSendToClient(t) \/ sendTo(t) \/ Published(t))
  <2>1. TypeOK /\ Good /\ Alive
    BY <1>2 DEF ServerInv, Step, Start, Push, setLogin, Request, Answer, Close, Reset, Erase, EraseClient,
       CloseNext, Stopped, At
  <2>2. TypeOK'
    BY <1>2, <2>1, StepType, CallType DEF Step
  <2>3. SUFFICES ASSUME ~Good' PROVE ServerInv'
    BY <2>2, GoodInvNext
  <2>4. ~Start(t) /\ ~Push(t)
    BY <2>1, <2>3, StartGood, PushGood
  <2>5. ASSUME NEW kind \in {"LOGIN", "CREATE_QUEUE", "SUBSCRIBE", "UNSUBSCRIBE"}, pc[t] = kind,
               Goto(t, "answer"),
               \/ UNCHANGED users
               \/ users' = users \cup {Conn(t)},
               \/ listeners' \subseteq listeners
               \/ kind = "SUBSCRIBE" /\ Known(Conn(t)) /\ listeners' = listeners \cup {Conn(t)},
               UNCHANGED <<socks, table, locks, arg>>
        PROVE  FALSE
    <3>1. /\ pc'[t] = "answer"
          /\ \A u \in Thread \ {t} : pc'[u] = pc[u]
          /\ \A u \in Thread : Conn(u)' = Conn(u) /\ arg'[u] = arg[u]
      BY <2>1, <2>5, Moves
    <3>2. t \in IoThread
      BY <2>1, <2>5, ConnType DEF MessageSteps, Kinds
    <3>3. pc[t] \in MessageSteps \ {"answer"} /\ "answer" \in MessageSteps
      BY <2>5 DEF MessageSteps, Kinds
    <3> QED BY <2>1, <2>3, <2>5, <3>1, <3>2, <3>3, MessageGood DEF socks, table, locks
  <2>6. ~setLogin(t)
    BY <2>5 DEF setLogin, At, node
  <2>7. ASSUME Request(t) PROVE ServerInv'
    <3>1. PICK kind \in {"CREATE_QUEUE", "SUBSCRIBE", "UNSUBSCRIBE"} : pc[t] = kind /\
            \/ /\ \/ kind = "SUBSCRIBE" /\ Known(Conn(t)) /\ listeners' = listeners \cup {Conn(t)}
                  \/ listeners' \subseteq listeners
               /\ Goto(t, "answer")
               /\ UNCHANGED <<users, socks, table, locks, ids, arg>>
            \/ Crash(t, "throw")
      BY <2>7 DEF Request, At
    <3>2. CASE Crash(t, "throw")
      BY <2>2, <3>1, <3>2, CrashInv DEF AcceptSteps, Fatal
    <3> QED BY <2>5, <3>1, <3>2
  <2>8. ASSUME Answer(t) PROVE ServerInv'
    <3>1. CASE Conn(t) \in async
      BY <2>1, <2>3, <2>8, <3>1, AnswerGood DEF Answer, At, node, table, locks
    <3>2. CASE Conn(t) \notin async
      BY <2>2, <2>8, <3>2, CrashInv DEF Answer, At, AcceptSteps, Fatal
    <3> QED BY <3>1, <3>2
  <2>9. pc[t] \in CloseSteps \cup {"stop"} => t \in IoThread
    BY <2>1, Threads DEF Good, AppInv, CloseSteps
  <2>10. ~Close(t)
    <3>1. SUFFICES ASSUME Close(t) PROVE FALSE
      OBVIOUS
    <3>2. pc[t] = "close" /\ t \in IoThread
      BY <2>9, <3>1 DEF Close, At, CloseSteps
    <3> QED BY <2>1, <2>3, <3>1, <3>2, ClosingGood DEF Close, IsOpen, node, socks, table, locks
  <2>11. ASSUME Reset(t) \/ EraseClient(t) PROVE ServerInv'
    <3>1. CASE Crash(t, "null")
      BY <2>2, <2>11, <3>1, CrashInv DEF Reset, EraseClient, At, AcceptSteps, Fatal
    <3>2. CASE ~Crash(t, "null")
      BY <2>1, <2>3, <2>9, <2>11, <3>2, ResetGood, EraseClientGood DEF Reset, EraseClient, At, CloseSteps
    <3> QED BY <3>1, <3>2
  <2>12. ASSUME Erase(t) PROVE ServerInv'
    <3>1. pc[t] = "erase" /\ t \in IoThread /\ clock = None
      BY <2>9, <2>12 DEF Erase, At, CloseSteps, ConnectionsFree
    <3>2. CASE Conn(t) \in conns \cap users
      BY <2>1, <2>3, <2>12, <3>1, <3>2, EraseGood DEF Erase, UsersWithout, socks, table
    <3>3. CASE Conn(t) \notin conns \cap users
      BY <2>2, <2>12, <3>1, <3>3, CrashInv DEF Erase, AcceptSteps, Fatal
    <3> QED BY <3>2, <3>3
  <2>13. pc[t] = "stop" =>
           /\ acc = "closed" /\ arg[t].todo = conns
           /\ \A u \in IoThread \ {t} : pc[u] \in {"idle", "absent"}
    BY <2>1, <2>9 DEF Good, StopInv, StopSteps
  <2>14. ~CloseNext(t)
    <3>1. SUFFICES ASSUME CloseNext(t) PROVE FALSE
      OBVIOUS
    <3>2. PICK c \in conns : Busy(t, c, 0, conns \ {c})
      BY <2>13, <3>1 DEF CloseNext, At
    <3>3. /\ pc[t] = "stop" /\ Goto(t, "close")
          /\ UNCHANGED <<users, listeners, nextId, conns, async, acc, clock, read, writes>>
      BY <3>1 DEF CloseNext, At, node, socks, table, locks
    <3>4. /\ pc'[t] = "close" /\ Conn(t)' = c /\ arg'[t].todo = conns \ {c}
          /\ \A u \in Thread \ {t} : pc'[u] = pc[u] /\ Conn(u)' = Conn(u) /\ arg'[u] = arg[u]
      BY <2>1, <3>2, <3>3, Works
    <3> QED BY <2>1, <2>3, <2>9, <2>13, <3>3, <3>4, StoppingGood
  <2>15. ~Stopped(t)
    <3>1. SUFFICES ASSUME Stopped(t) PROVE FALSE
      OBVIOUS
    <3>2. /\ pc[t] = "stop" /\ conns = {} /\ Goto(t, "stopped") /\ Busy(t, None, 0, {})
          /\ UNCHANGED <<users, listeners, nextId, conns, async, acc, clock, read, writes>>
      BY <2>13, <3>1 DEF Stopped, At, Finish, node, socks, locks
    <3>3. /\ pc'[t] = "stopped" /\ Conn(t)' = None
          /\ \A u \in Thread \ {t} : pc'[u] = pc[u] /\ Conn(u)' = Conn(u) /\ arg'[u] = arg[u]
      BY <2>1, <3>2, Works
    <3> QED BY <2>1, <2>3, <2>9, <2>13, <3>2, <3>3, StoppingGood
  <2> QED BY <1>2, <2>4, <2>6, <2>7, <2>8, <2>10, <2>11, <2>12, <2>14, <2>15 DEF Step
<1> QED BY <1>1, <1>2

\* Every step of the server keeps the inductive invariant.
LEMMA NextInv == ServerInv /\ [Next]_vars => ServerInv'
<1> SUFFICES ASSUME ServerInv, [Next]_vars PROVE ServerInv'
  OBVIOUS
<1>1. CASE UNCHANGED vars
  <2>1. UNCHANGED <<node, socks, table, locks, ids, pc, arg>>
    BY <1>1 DEF vars
  <2>2. TypeOK'
    BY <2>1 DEF ServerInv, TypeOK, node, socks, table, locks, ids
  <2>3. ListenersConnected' /\ StoppedIsEmpty' /\ ErasedAfterListed' /\ AloneErases'
    BY <2>1 DEF ServerInv, ListenersConnected, Accepting, Conn, StoppedIsEmpty, ErasedAfterListed,
                AloneErases, Alone, node, table, locks
  <2>4. ASSUME Alive' PROVE Good'
    <3>1. TypeOK /\ Good
      BY <2>1, <2>4 DEF Alive, ServerInv
    <3> QED BY <2>1, <3>1, OutsideGood DEF node, socks, table, locks
  <2> QED BY <2>2, <2>3, <2>4 DEF ServerInv
<1>2. ASSUME NEW c \in ClientId, (\E kind \in Kinds : Arrives(c, kind)) \/ HangsUp(c) \/ Written(c)
      PROVE  ServerInv'
  <2>1. TypeOK /\ Good
    BY <1>2 DEF Arrives, HangsUp, Written, ServerInv
  <2>2. TypeOK'
    BY <1>2, <2>1, OutsideType
  <2>3. /\ UNCHANGED <<users, listeners, nextId, conns, async, acc, clock, pc, arg>>
        /\ writes' \subseteq writes
        /\ \A d \in ClientId : read'[d] = read[d] \/ read[d] = "pending"
    BY <1>2, <2>1 DEF Arrives, HangsUp, Written, node, table, locks, TypeOK
  <2> QED BY <2>1, <2>2, <2>3, OutsideGood, GoodInvNext
<1>3. ASSUME NEW t \in AppThread, Publish(t) \/ Subscribe(t) PROVE ServerInv'
  <2>1. t \in Thread
    BY DEF Thread
  <2>2. CASE Subscribe(t)
    <3>1. TypeOK /\ Good
      BY <2>2 DEF Subscribe, At, ServerInv
    <3> QED BY <2>1, <2>2, <3>1, CallType, OutsideGood, GoodInvNext DEF Subscribe, socks, table, locks
  <2> QED BY <1>3, <2>1, <2>2, PublishInv
<1> QED BY <1>1, <1>2, <1>3, HandleInv, StepInv DEF Next

\* The server starts in the inductive invariant.
LEMMA InitInv == Init => ServerInv
<1> SUFFICES ASSUME Init PROVE TypeOK
  BY InitGood, GoodInv
<1>1. /\ nextId \in 0 .. MaxClients /\ requests \in Nat /\ nextMessageId \in Nat /\ out \in [ClientId -> Seq(Nat)]
  BY ServerAssumption, SMTT(30) DEF Init
<1>2. NoArg \in [conn : ClientId \cup {None}, id : Nat, todo : SUBSET Id]
  BY SMTT(30) DEF NoArg
<1> QED BY <1>1, <1>2 DEF Init, TypeOK, Steps, Id

\* The inductive invariant holds of every behaviour of the server.
LEMMA ServerInvariant == Spec => []ServerInv
BY InitInv, NextInv, PTL DEF Spec

\* The server's state keeps its types: handle_accept never gives out an id
\* beyond the last, and every handler has a connection's id.
THEOREM ServerTypeCorrect == Spec => []TypeOK
<1>1. ServerInv => TypeOK
  BY DEF ServerInv
<1> QED BY <1>1, ServerInvariant, PTL

\* Whoever the node publishes to is in the list of connections or about to be,
\* whatever subscribes while another thread erases it, and even after a crash.
THEOREM ListenersConnectedAlways == Spec => []ListenersConnected
<1>1. ServerInv => ListenersConnected
  BY DEF ServerInv
<1> QED BY <1>1, ServerInvariant, PTL

\* stopServer leaves no user, listener, connection or AsyncIO behind, however
\* many connections there are to close.
THEOREM StoppedIsEmptyAlways == Spec => []StoppedIsEmpty
<1>1. ServerInv => StoppedIsEmpty
  BY DEF ServerInv
<1> QED BY <1>1, ServerInvariant, PTL

\* Every user is connected, or was put back by setLogin in a handler that does
\* not survive its answer.
THEOREM UsersConnectedAlways == Spec => []UsersConnected
<1>1. ServerInv => UsersConnected
  BY DEF ServerInv, Good, UsersListed, Answering, UsersConnected
<1> QED BY <1>1, ServerInvariant, PTL

\* No connection is erased before handle_accept has listed it, whichever thread
\* of the pool handles its first failure.
THEOREM ErasedAfterListedAlways == Spec => []ErasedAfterListed
<1>1. ServerInv => ErasedAfterListed
  BY DEF ServerInv
<1> QED BY <1>1, ServerInvariant, PTL

-----------------------------------------------------------------------------
(* The pool does not change: with one thread in it nobody comes between the  *)
(* test of close() and erase_client_description.                             *)

\* The threads that exist are those of one pool.
OnePool == \E pool \in Pools : \A t \in IoThread : pc[t] # "absent" => t \in pool

\* A thread that does not exist takes no step.
LEMMA AbsentStays ==
  ASSUME TypeOK, [Next]_vars, NEW u \in IoThread, pc[u] = "absent"
  PROVE  pc'[u] = "absent"
<1>1. ASSUME NEW t \in Thread, NEW step, pc[t] # "absent", Goto(t, step)
      PROVE  pc'[u] = "absent"
  <2>1. u \in Thread /\ u # t
    BY <1>1 DEF Thread
  <2> QED BY <1>1, <2>1 DEF Goto, TypeOK
<1>2. CASE UNCHANGED pc
  BY <1>2
<1>3. CASE \E t \in Thread : Handle(t) \/ AcceptFails(t) \/ StopServer(t) \/ Destroy(t) \/ Subscribe(t)
  <2>1. PICK t \in Thread : Handle(t) \/ AcceptFails(t) \/ StopServer(t) \/ Destroy(t) \/ Subscribe(t)
    BY <1>3
  <2>2. CASE Handle(t)
    BY <1>1, <2>2 DEF Handle, handle_accept, onNetworkError, onNewMessage, Take, At
  <2>3. CASE AcceptFails(t)
    BY <1>1, <1>2, <2>3 DEF AcceptFails, At, Crash
  <2>4. CASE StopServer(t) \/ Destroy(t) \/ Subscribe(t)
    BY <1>1, <1>2, <2>4 DEF StopServer, Destroy, Subscribe, At
  <2> QED BY <2>1, <2>2, <2>3, <2>4
<1>4. CASE \E t \in Thread : Publish(t)
  BY <1>1, <1>4 DEF Publish, At
<1>5. ASSUME NEW t \in Thread, Step(t)
      PROVE  pc'[u] = "absent"
  <2>1. CASE Start(t) \/ Push(t) \/ setLogin(t) \/ Answer(t)
    BY <1>1, <2>1 DEF Start, Push, setLogin, Answer, Finish, Crash, At
  <2>2. CASE Request(t)
    BY <1>1, <2>2 DEF Request, Crash, At
  <2>3. CASE CallConsumer(t) \/ onSendToClient(t) \/ Published(t)
    BY <1>1, <1>2, <2>3 DEF CallConsumer, onSendToClient, Published, Finish, At
  <2>4. CASE sendTo(t)
    BY <1>1, <2>4 DEF sendTo, Crash, Finish, At
  <2>5. CASE Close(t) \/ Reset(t) \/ Erase(t) \/ EraseClient(t)
    BY <1>1, <2>5 DEF Close, Closed, Reset, Erase, EraseClient, Crash, Finish, At
  <2>6. CASE CloseNext(t) \/ Stopped(t)
    BY <1>1, <2>6 DEF CloseNext, Stopped, Finish, At
  <2> QED BY <1>4, <1>5, <2>1, <2>2, <2>3, <2>4, <2>5, <2>6 DEF Step
<1>6. CASE \E c \in ClientId : (\E kind \in Kinds : Arrives(c, kind)) \/ HangsUp(c) \/ Written(c)
  BY <1>2, <1>6 DEF Arrives, HangsUp, Written
<1> QED BY <1>2, <1>3, <1>4, <1>5, <1>6, Threads DEF Next, vars

\* The assertion of erase_client_description, and the test of UserBase::erase,
\* hold when the io_service is run by one thread, as every program of the
\* repository does: although the failed read and each failed write of a
\* connection close it.
THEOREM ErasedIsListedAlways ==
  ASSUME \A pool \in Pools : \A t, u \in pool : t = u
  PROVE  Spec => []ErasedIsListed
<1>1. Init => OnePool
  <2> SUFFICES ASSUME Init PROVE OnePool
    OBVIOUS
  <2>1. PICK pool \in Pools :
          pc = [t \in Thread |-> IF t \in pool \cup AppThread THEN "idle" ELSE "absent"]
    BY DEF Init
  <2>2. \A t \in IoThread : t \notin AppThread /\ t \in Thread
    BY ServerAssumption DEF Thread
  <2>3. \A t \in IoThread : pc[t] # "absent" => t \in pool
    BY <2>1, <2>2
  <2> QED BY <2>3 DEF OnePool
<1>2. ServerInv /\ OnePool /\ [Next]_vars => OnePool'
  BY AbsentStays DEF OnePool, ServerInv
<1>3. ServerInv /\ OnePool => ErasedIsListed
  <2>1. SUFFICES ASSUME ServerInv, OnePool, NEW t \in Thread, pc[t] = "erase", clock = None
                 PROVE  Conn(t) \in conns \cap users
    BY DEF ErasedIsListed
  <2>2. t \in IoThread
    BY <2>1 DEF ServerInv, AloneErases
  <2>3. Alone(t)
    BY <2>1, <2>2 DEF OnePool, Alone
  <2> QED BY <2>1, <2>2, <2>3 DEF ServerInv, AloneErases
<1> QED BY <1>1, <1>2, <1>3, ServerInvariant, PTL DEF Spec

=============================================================================
