------------------------------- MODULE Client -------------------------------
(***************************************************************************)
(* One dqueue::Client (libdqueue/client.cpp, abstract_client.cpp and       *)
(* memory_message_pool.h) and the server's answers to it (server.cpp): the *)
(* message ids, the pool of publishes that are not acknowledged, the table *)
(* of queries that callers wait on, and the connections, which break and   *)
(* are made again.                                                         *)
(*                                                                         *)
(* The io thread runs the handlers; the threads of Thread are where the    *)
(* application calls from.                                                 *)
(*                                                                         *)
(* A socket is a TCP stream: it delivers what was sent, in order, up to    *)
(* some point; what is read or written before it is connected waits.  Each *)
(* operation that fails, be it a connect, the read or one of the writes,   *)
(* is reported, and each report makes another socket: there may be several *)
(* connections, and more than one AsyncIO on a socket.  Two of them share  *)
(* out the bytes of each message, and what the client makes of these is    *)
(* not followed any further.                                               *)
(***************************************************************************)
EXTENDS Naturals, Sequences

CONSTANTS
  Thread,       \* where the application calls from
  Calls,        \* the calls the application makes, pairs <<kind, ot>>
  MaxEvents,    \* bound: calls and sockets made in a behaviour
  None          \* no holder, no call

Kinds == {"CREATE_QUEUE", "CHANGE", "PUBLISH"}

ASSUME ClientAssumption ==
  /\ Calls \subseteq Kinds \X {"Async", "Sync"}
  /\ MaxEvents \in Nat \ {0}
  /\ None \notin Thread

Socket == 1 .. MaxEvents

MessageId == 0 .. (MaxEvents - 2)

Login        == [kind |-> "LOGIN"]
LoginConfirm == [kind |-> "LOGIN_CONFIRM"]
Request(id)  == [kind |-> "REQUEST", id |-> id]
Ok(id)       == [kind |-> "OK", id |-> id]

ToServer == {Login} \cup [kind : {"REQUEST"}, id : MessageId]
ToClient == {LoginConfirm} \cup [kind : {"OK"}, id : MessageId]

\* A call in progress.
CallRecord == [id : MessageId, kind : Kinds, ot : {"Async", "Sync"}]

VARIABLES
  nextMessageId,  \* Client::_nextMessageId
  pool,           \* Client::_messagePool: ids of the publishes in it
  queries,        \* Client::_queries: ids whose locker is locked
  holder,         \* Client::_locker: the application thread that holds it
  pc,             \* the next step of each thread's call
  arg,            \* the message of each thread's call
  loginConfirmed, \* Client::_loginConfirmed
  isStoped,       \* AbstractClient::isStoped
  socket,         \* AbstractClient::_socket: the number of the newest one
  current,        \* the socket of _async_connection, 0 for nullptr
  stoping,        \* the _begin_stoping_flag of _async_connection
  link,           \* the state of each socket; "gone": destroyed
  readers,        \* how many AsyncIO read from each socket
  made,           \* connects that succeeded and whose handlers have not run
  failed,         \* connects and writes that failed, the same
  toServer,       \* what the server has still to read of each socket
  toClient,       \* what the client has still to read of each socket
  io,             \* what the io thread does
  resend,         \* Client::onConnect: what is left of all()
  served,         \* history: the ids the server has handled
  published       \* history: the ids of the publishes

table   == <<nextMessageId, pool, queries, published>>
calls   == <<holder, pc, arg>>
flags   == <<loginConfirmed, isStoped>>
async   == <<current, stoping, readers, made>>
streams == <<link, failed, toServer, toClient>>
vars    == <<table, calls, flags, socket, async, streams, io, resend, served>>

\* The ids given out so far.
GivenOut == 0 .. (nextMessageId - 1)

TypeOK ==
  /\ nextMessageId \in 0 .. (MaxEvents - 1)
  /\ pool \subseteq GivenOut /\ queries \subseteq GivenOut /\ published \subseteq GivenOut
  /\ served \subseteq MessageId
  /\ holder \in Thread \cup {None}
  /\ pc \in [Thread -> {"idle", "send", "wait"}]
  /\ arg \in [Thread -> CallRecord \cup {None}]
  /\ \A t \in Thread : pc[t] # "idle" => arg[t] \in CallRecord
  /\ loginConfirmed \in BOOLEAN /\ isStoped \in BOOLEAN /\ stoping \in BOOLEAN
  /\ socket \in Socket
  /\ current \in 0 .. socket
  /\ link \in [Socket -> {"none", "connecting", "open", "closed", "gone"}]
  /\ readers \in [Socket -> Nat]
  /\ made \in Nat /\ failed \in Nat
  /\ toServer \in [Socket -> Seq(ToServer)]
  /\ toClient \in [Socket -> Seq(ToClient)]
  /\ io \in {"idle", "start", "login", "all", "resend", "dead", "garbled"}
  /\ resend \subseteq MessageId

\* The application has called connectAsync.
Init ==
  /\ nextMessageId = 0
  /\ pool = {} /\ queries = {} /\ served = {} /\ published = {}
  /\ holder = None
  /\ pc = [t \in Thread |-> "idle"]
  /\ arg = [t \in Thread |-> None]
  /\ loginConfirmed = FALSE /\ isStoped = FALSE /\ stoping = FALSE
  /\ socket = 1 /\ current = 0
  /\ link = [s \in Socket |-> IF s = 1 THEN "connecting" ELSE "none"]
  /\ readers = [s \in Socket |-> 0]
  /\ made = 0 /\ failed = 0
  /\ toServer = [s \in Socket |-> <<>>]
  /\ toClient = [s \in Socket |-> <<>>]
  /\ io = "idle"
  /\ resend = {}

-----------------------------------------------------------------------------
(* Sending, and the end of a socket. *)

\* Client::send and AsyncIO::send drop the message without an AsyncIO, before
\* AsyncIO::start, after full_stop and when the socket is gone.
Drops == current = 0 \/ io = "start" \/ stoping \/ link[current] = "gone"

\* A write to a connection that has ended fails or is lost.
Send(m) ==
  IF Drops THEN UNCHANGED <<toServer, failed>>
  ELSE \/ /\ link[current] \in {"connecting", "open"}
          /\ toServer' = [toServer EXCEPT ![current] = Append(@, m)]
          /\ UNCHANGED failed
       \/ /\ link[current] = "closed"
          /\ failed' \in {failed, failed + 1}
          /\ UNCHANGED toServer

\* Socket s ends, and of the failed operations `left` remain.  Of what is under
\* way to the client at most n messages are still read; a connect and some of
\* the writes, the last ones, fail: all of them if it was not yet connected.
Ends(s, n, left) ==
  \E k \in 0 .. Len(toClient[s]), w \in 0 .. Len(toServer[s]) :
    /\ k <= n
    /\ link[s] = "connecting" => w = Len(toServer[s])
    /\ toClient' = [toClient EXCEPT ![s] = SubSeq(@, 1, k)]
    /\ toServer' = [toServer EXCEPT ![s] = SubSeq(@, 1, Len(@) - w)]
    /\ failed' = left + w + (IF link[s] = "connecting" THEN 1 ELSE 0)

-----------------------------------------------------------------------------
(* The application's calls: createQueue, subscribe and unsubscribe, publish. *)

\* Mutant: the id is read after it was incremented.
IdAfterIncrement == nextMessageId + 1

getNextId == nextMessageId

\* Under _locker: the next id, the pool for a publish, and the query with its
\* locker locked.
Register(t, kind, ot) ==
  LET id == getNextId
  IN  /\ pc[t] = "idle"
      /\ holder = None
      /\ nextMessageId + socket < MaxEvents
      /\ nextMessageId' = nextMessageId + 1
      /\ pool' = IF kind = "PUBLISH" THEN pool \cup {id} ELSE pool
      /\ published' = IF kind = "PUBLISH" THEN published \cup {id} ELSE published
      /\ queries' = queries \cup {id}
      /\ holder' = t
      /\ pc' = [pc EXCEPT ![t] = "send"]
      /\ arg' = [arg EXCEPT ![t] = [id |-> id, kind |-> kind, ot |-> ot]]
      /\ UNCHANGED <<flags, socket, async, streams, io, resend, served>>

\* createQueue waits whatever its OperationType.
Waits(c) == c.ot = "Sync" \/ c.kind = "CREATE_QUEUE"

\* Still under _locker: the message goes out.  Then the caller waits, or not.
SendCall(t) ==
  /\ pc[t] = "send"
  /\ Send(Request(arg[t].id))
  /\ holder' = None
  /\ IF Waits(arg[t])
       THEN pc' = [pc EXCEPT ![t] = "wait"] /\ UNCHANGED arg
       ELSE pc' = [pc EXCEPT ![t] = "idle"] /\ arg' = [arg EXCEPT ![t] = None]
  /\ UNCHANGED <<table, flags, socket, async, link, toClient, io, resend, served>>

\* qr.locker->lock() succeeds once the OK handler has unlocked it.
Wake(t) ==
  /\ pc[t] = "wait"
  /\ arg[t].id \notin queries
  /\ pc' = [pc EXCEPT ![t] = "idle"]
  /\ arg' = [arg EXCEPT ![t] = None]
  /\ UNCHANGED <<table, holder, flags, socket, async, streams, io, resend, served>>

\* disconnect: full_stop closes the socket that _async_connection was started
\* with, if any; one message may have been read from it already.  The caller
\* has made sure that _async_connection is not nullptr.
disconnect(t) ==
  /\ pc[t] = "idle"
  /\ ~isStoped
  /\ current # 0
  /\ isStoped' = TRUE
  /\ stoping' = TRUE
  /\ \/ /\ io # "start" /\ link[current] # "gone"
        /\ link' = [link EXCEPT ![current] = "closed"]
        /\ Ends(current, 1, failed)
     \/ (io = "start" \/ link[current] = "gone") /\ UNCHANGED streams
  /\ UNCHANGED <<table, calls, loginConfirmed, socket, current, readers, made, io, resend,
                 served>>

-----------------------------------------------------------------------------
(* The io thread. *)

\* async_connect replaces the newest socket, up to the bound.  The
\* old one is destroyed when no AsyncIO waits for the size of a message on it:
\* while the rest of a message is read, only _socket points to it.
async_connect(left) ==
  /\ nextMessageId + socket < MaxEvents
  /\ socket' = socket + 1
  /\ \/ /\ readers'[socket] = 0 \/ link[socket] # "connecting"
        /\ link' = [link EXCEPT ![socket] = "gone", ![socket + 1] = "connecting"]
        /\ Ends(socket, IF readers'[socket] = 0 THEN 0 ELSE 1, left)
     \/ /\ readers'[socket] > 0
        /\ link' = [link EXCEPT ![socket + 1] = "connecting"]
        /\ failed' = left
        /\ UNCHANGED <<toServer, toClient>>

\* Mutant of reconnectOnError: onNetworkError releases the callers that wait.
ReleaseWaiting(left) ==
  /\ loginConfirmed' = FALSE
  /\ queries' = {}
  /\ IF isStoped THEN failed' = left /\ UNCHANGED <<socket, link, toServer, toClient>>
                  ELSE async_connect(left)
  /\ UNCHANGED <<nextMessageId, pool, published, calls, isStoped, current, stoping, made, io,
                 resend, served>>

\* onNetworkError, then async_connect; _async_connection stays.
reconnectOnError(left) ==
  /\ loginConfirmed' = FALSE
  /\ IF isStoped THEN failed' = left /\ UNCHANGED <<socket, link, toServer, toClient>>
                  ELSE async_connect(left)
  /\ UNCHANGED <<table, calls, isStoped, current, stoping, made, io, resend, served>>

\* The handler of a connect or of a write that failed.
OperationFails ==
  /\ io = "idle"
  /\ failed > 0
  /\ UNCHANGED readers
  /\ reconnectOnError(failed - 1)

\* The handler of a read that failed.
ReadFails(s) ==
  /\ io = "idle"
  /\ link[s] \in {"closed", "gone"}
  /\ readers[s] > 0
  /\ toClient[s] = <<>>
  /\ readers' = [readers EXCEPT ![s] = @ - 1]
  /\ reconnectOnError(failed)

\* The handler of a connect: an AsyncIO for the newest socket, whichever one
\* was connected.  It does not look at isStoped.
Connected ==
  /\ io = "idle"
  /\ made > 0
  /\ made' = made - 1
  /\ current' = socket
  /\ io' = "start"
  /\ UNCHANGED <<table, calls, flags, socket, stoping, readers, streams, resend, served>>

\* AsyncIO::start
StartConnection ==
  /\ io = "start"
  /\ stoping' = FALSE
  /\ readers' = [readers EXCEPT ![current] = @ + 1]
  /\ io' = "login"
  /\ UNCHANGED <<table, calls, flags, socket, current, made, streams, resend, served>>

\* onConnect, which never takes _locker.
SendLogin ==
  /\ io = "login"
  /\ loginConfirmed' = FALSE
  /\ Send(Login)
  /\ io' = "all"
  /\ UNCHANGED <<table, calls, isStoped, socket, async, link, toClient, resend, served>>

\* Mutant of TakeAll: onConnect does not send the pool.
SkipPool ==
  /\ io = "all"
  /\ io' = "idle"
  /\ UNCHANGED <<table, calls, flags, socket, async, streams, resend, served>>

TakeAll ==
  /\ io = "all"
  /\ resend' = pool
  /\ io' = IF pool = {} THEN "idle" ELSE "resend"
  /\ UNCHANGED <<table, calls, flags, socket, async, streams, served>>

\* The pool is an unordered_map.
Resend(id) ==
  /\ io = "resend"
  /\ id \in resend
  /\ Send(Request(id))
  /\ resend' = resend \ {id}
  /\ io' = IF resend = {id} THEN "idle" ELSE "resend"
  /\ UNCHANGED <<table, calls, flags, socket, async, link, toClient, served>>

\* Two AsyncIO read the bytes of one message.
ReadShared(s) ==
  /\ io = "idle"
  /\ readers[s] > 1
  /\ toClient[s] # <<>>
  /\ io' = "garbled"
  /\ UNCHANGED <<table, calls, flags, socket, async, streams, resend, served>>

\* onNewMessage.  The first message the client can read is taken, and the next
\* one is read unless the socket is gone.
Reading(s) ==
  /\ io = "idle"
  /\ readers[s] = 1
  /\ toClient[s] # <<>>
  /\ toClient' = [toClient EXCEPT ![s] = Tail(@)]
  /\ readers' = [readers EXCEPT ![s] = IF link[s] = "gone" THEN 0 ELSE 1]
  /\ UNCHANGED <<calls, isStoped, socket, current, stoping, made, link, failed, toServer,
                 nextMessageId, published, resend, served>>

RecvLoginConfirm(s) ==
  /\ Reading(s)
  /\ Head(toClient[s]) = LoginConfirm
  /\ loginConfirmed' = TRUE
  /\ UNCHANGED <<pool, queries, io>>

\* Mutant of RecvOk: the message stays in the pool.
KeepInPool(s) ==
  /\ Reading(s)
  /\ holder = None
  /\ \E id \in queries :
       /\ Head(toClient[s]) = Ok(id)
       /\ queries' = queries \ {id}
  /\ UNCHANGED <<loginConfirmed, pool, io>>

\* An OK needs _locker, and one for no query throws out of the io thread.
RecvOk(s) ==
  /\ Reading(s)
  /\ holder = None
  /\ \E id \in queries :
       /\ Head(toClient[s]) = Ok(id)
       /\ pool' = pool \ {id}
       /\ queries' = queries \ {id}
  /\ UNCHANGED <<loginConfirmed, io>>

RecvUnknownOk(s) ==
  /\ Reading(s)
  /\ holder = None
  /\ \E id \in MessageId \ queries : Head(toClient[s]) = Ok(id)
  /\ io' = "dead"
  /\ UNCHANGED <<loginConfirmed, pool, queries>>

-----------------------------------------------------------------------------
(* The server and the network. *)

Establish(s) ==
  /\ link[s] = "connecting"
  /\ link' = [link EXCEPT ![s] = "open"]
  /\ made' = made + 1
  /\ UNCHANGED <<table, calls, flags, socket, current, stoping, readers, failed, toServer,
                 toClient, io, resend, served>>

\* A connect fails, or a connection breaks.
Break(s) ==
  /\ link[s] \in {"connecting", "open"}
  /\ link' = [link EXCEPT ![s] = "closed"]
  /\ Ends(s, Len(toClient[s]), failed)
  /\ UNCHANGED <<table, calls, flags, socket, async, io, resend, served>>

\* Server::onNewMessage: a login is confirmed, anything else handled and
\* answered with OK.  The answer reaches a client that still listens.
Serve(s) ==
  /\ toServer[s] # <<>> /\ link[s] # "connecting"
  /\ LET m == Head(toServer[s])
         answer == IF m.kind = "LOGIN" THEN LoginConfirm ELSE Ok(m.id)
     IN  /\ served' = IF m.kind = "LOGIN" THEN served ELSE served \cup {m.id}
         /\ toClient' = IF link[s] = "open" THEN [toClient EXCEPT ![s] = Append(@, answer)]
                                            ELSE toClient
  /\ toServer' = [toServer EXCEPT ![s] = Tail(@)]
  /\ UNCHANGED <<table, calls, flags, socket, async, link, failed, io, resend>>

\* What the server has not read of a connection that ended is lost.
Lose(s) ==
  /\ toServer[s] # <<>>
  /\ link[s] \in {"closed", "gone"}
  /\ toServer' = [toServer EXCEPT ![s] = <<>>]
  /\ UNCHANGED <<table, calls, flags, socket, async, link, failed, toClient, io, resend,
                 served>>

IoNext ==
  \/ OperationFails \/ Connected \/ StartConnection
  \/ SendLogin \/ TakeAll \/ (\E id \in MessageId : Resend(id))
  \/ \E s \in Socket :
       ReadFails(s) \/ ReadShared(s) \/ RecvLoginConfirm(s) \/ RecvOk(s) \/ RecvUnknownOk(s)

Next ==
  \/ \E t \in Thread, c \in Calls : Register(t, c[1], c[2])
  \/ \E t \in Thread : SendCall(t) \/ Wake(t) \/ disconnect(t)
  \/ IoNext
  \/ \E s \in Socket : Establish(s) \/ Break(s) \/ Serve(s) \/ Lose(s)

Spec == Init /\ [][Next]_vars

-----------------------------------------------------------------------------
\* What leaves the table of queries has been handled by the server: a Sync
\* call that returns, and a waitAll that returns, were served, however often
\* connections broke, however many there are and the pool was sent again.
AckedMeansServed == \A id \in GivenOut : id \notin queries => id \in served

\* A publish stays in the pool until its OK and leaves it then, so onConnect
\* sends it again on each connection for as long as somebody waits for it.
PoolIsUnacknowledged == pool = published \cap queries

\* Message id is on its way through socket s, or its OK is.
UnderWay(id, s) ==
  \/ \E i \in DOMAIN toServer[s] : toServer[s][i] = Request(id)
  \/ \E i \in DOMAIN toClient[s] : toClient[s][i] = Ok(id)

\* _async_connection has a socket that has not ended.
InUse == current # 0 /\ link[current] \in {"connecting", "open"}

\* Thread t has registered message id and is about to send it.
Sending(t, id) == pc[t] = "send" /\ arg[t].id = id

\* Once onConnect is done, no publish that is not acknowledged is forgotten: it
\* is under way on the connection in use, or about to be sent.  What a thread
\* sent through the connection before, or while there was none, is sent again,
\* whatever the order of its two steps and those of onConnect, which does not
\* take _locker.
NothingForgotten ==
  io = "idle" /\ InUse =>
    \A id \in pool : UnderWay(id, current) \/ \E t \in Thread : Sending(t, id)

\* What makes these inductive.  An OK under way was sent after its request was
\* handled.
OkInv ==
  \A s \in Socket : \A i \in DOMAIN toClient[s] : toClient[s][i].kind = "OK" => toClient[s][i].id \in served

\* In the middle of onConnect the rest of the pool is still to be sent, and an
\* AsyncIO that stops, once started, has a socket that has ended.
SentInv ==
  /\ io = "idle" => resend = {}
  /\ stoping => io = "start" \/ (current # 0 /\ link[current] \in {"closed", "gone"})
  /\ io \in {"idle", "resend"} /\ InUse =>
       \A id \in pool : id \in resend \/ UnderWay(id, current) \/ \E t \in Thread : Sending(t, id)

\* "unknow _query id": Client::onNewMessage throws when an OK answers no
\* query, which is to say that every OK answers one.
EveryOkIsExpected == io # "dead"

=============================================================================
