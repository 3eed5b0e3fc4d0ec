------------------------------ MODULE Reconnect ------------------------------
(***************************************************************************)
(* AbstractClient (libdqueue/abstract_client.cpp): its sockets and AsyncIO *)
(* objects, the operations pending on them and the reconnection after each *)
(* one that fails.                                                         *)
(*                                                                         *)
(* One thread runs the io_service, handler after handler in the order in   *)
(* which the operations completed; the application sends and disconnects.  *)
(* A socket lives while _socket or the handler of a read of a size has a   *)
(* pointer to it, an AsyncIO while _async_connection or a handler has one; *)
(* what is destroyed closes its socket, and closing a socket completes     *)
(* what is pending on it with an error.                                    *)
(***************************************************************************)
EXTENDS Naturals, Sequences, SequencesExt

CONSTANT MaxSockets   \* bound: sockets made in a behaviour

ASSUME ReconnectAssumption == MaxSockets \in Nat \ {0}

Socket == 1 .. MaxSockets

Operation == [kind : {"connect", "size", "body", "write"}, by : 0 .. MaxSockets, on : Socket]

VARIABLES
  auto,         \* Params::auto_reconnection
  isConnected,  \* AbstractClient::isConnected
  isStoped,     \* AbstractClient::isStoped
  socket,       \* AbstractClient::_socket: the number of the newest one
  sock,         \* the state of each socket
  io,           \* AbstractClient::_async_connection: its number, 0 for nullptr
  on,           \* AsyncIO::_sock of each AsyncIO
  stoping,      \* the AsyncIO whose _begin_stoping_flag is set
  ops,          \* the operations pending on the sockets
  ready,        \* the completed ones whose handlers wait for the io_service
  crashed       \* nullptr was used

client == <<isConnected, isStoped, socket, io, on>>
vars == <<auto, client, sock, stoping, ops, ready, crashed>>

Op(k, b, s) == [kind |-> k, by |-> b, on |-> s]

TypeOK ==
  /\ auto \in BOOLEAN /\ isConnected \in BOOLEAN /\ isStoped \in BOOLEAN /\ crashed \in BOOLEAN
  /\ socket \in Socket
  /\ sock \in [Socket -> {"none", "connecting", "open", "broken", "closed"}]
  /\ io \in 0 .. socket
  /\ on \in [1 .. io -> 1 .. socket]
  /\ stoping \subseteq 1 .. io
  /\ ops \subseteq Operation
  /\ ready \in Seq([op : Operation, ok : BOOLEAN])

\* The application has called async_connect.
Init ==
  /\ auto \in BOOLEAN
  /\ isConnected = FALSE /\ isStoped = FALSE /\ crashed = FALSE
  /\ socket = 1
  /\ sock = [s \in Socket |-> IF s = 1 THEN "connecting" ELSE "none"]
  /\ io = 0 /\ on = <<>> /\ stoping = {}
  /\ ops = {Op("connect", 0, 1)} /\ ready = <<>>

-----------------------------------------------------------------------------
\* The operations that a handler, pending or waiting, belongs to.
Handlers(pending, completed) == pending \cup {completed[i].op : i \in DOMAIN completed}

Kept(s, newest, handlers) == s = newest \/ \E o \in handlers : o.kind = "size" /\ o.on = s

\* AsyncIO k was replaced and none of its handlers is left: ~AsyncIO.
Destroyed(k, current, handlers) == k < current /\ \A o \in handlers : o.by # k

\* The end of a step that leaves the sockets so, these operations pending and
\* these completed: what nothing points to any more is destroyed.
Settle(states, pending, completed) ==
  LET handlers == Handlers(pending, completed)
      dropped  == {s \in Socket : states[s] # "none" /\
                     \/ ~Kept(s, socket', handlers)
                     \/ \E k \in DOMAIN on' : on'[k] = s /\ Destroyed(k, io', handlers)}
      after    == [s \in Socket |-> IF s \in dropped THEN "closed" ELSE states[s]]
      aborted  == {o \in pending : after[o.on] = "closed"}
  IN  /\ sock' = after
      /\ ops' = pending \ aborted
      /\ \E order \in SetToSeqs(aborted) :
           ready' = completed \o [i \in DOMAIN order |-> [op |-> order[i], ok |-> FALSE]]

-----------------------------------------------------------------------------
(* The handlers. *)

\* Mutant: only a client that is connected reconnects.
ReconnectsConnected == ~isStoped /\ auto /\ isConnected

Reconnects == ~isStoped /\ auto

\* Mutant: isConnected stays until a connection replaces this one.
StillConnected == isConnected

\* isConnected after an error.
AfterError == FALSE

\* Mutant: the socket that failed is connected again.
SameSocket ==
  /\ UNCHANGED socket
  /\ Settle([sock EXCEPT ![socket] = "connecting"],
            ops \cup {Op("connect", 0, socket)}, Tail(ready))

\* The handler of the operation that completed first is done.
async_connect ==
  /\ socket < MaxSockets
  /\ socket' = socket + 1
  /\ Settle([sock EXCEPT ![socket + 1] = "connecting"],
            ops \cup {Op("connect", 0, socket + 1)}, Tail(ready))

reconnectOnError ==
  /\ ~crashed /\ ready # <<>> /\ ~Head(ready).ok
  /\ isConnected' = AfterError
  /\ UNCHANGED <<auto, isStoped, io, on, stoping, crashed>>
  /\ IF Reconnects THEN async_connect
       ELSE UNCHANGED socket /\ Settle(sock, ops, Tail(ready))

\* The handler of async_connect, without an error: an AsyncIO on the newest
\* socket, whichever one was connected; its first read, and the login.
HandleConnected ==
  /\ ~crashed /\ ready # <<>> /\ Head(ready).ok
  /\ io' = io + 1
  /\ on' = Append(on, socket)
  /\ isConnected' = TRUE
  /\ UNCHANGED <<auto, isStoped, socket, stoping, crashed>>
  /\ Settle(sock, ops \cup {Op("size", io + 1, socket), Op("write", io + 1, socket)}, Tail(ready))

-----------------------------------------------------------------------------
(* The application. *)

\* Client::send: a write, unless the AsyncIO stops or its socket is gone.  One
\* write of an AsyncIO is pending at a time.
send ==
  /\ ~crashed /\ io # 0
  /\ io \notin stoping
  /\ Kept(on[io], socket, Handlers(ops, ready))
  /\ Op("write", io, on[io]) \notin Handlers(ops, ready)
  /\ UNCHANGED <<auto, client, stoping, crashed>>
  /\ Settle(sock, ops \cup {Op("write", io, on[io])}, ready)

\* Mutant: the destructor of AsyncIO is left to close the socket.
LeaveOpen == sock

\* AsyncIO::full_stop
full_stop == [sock EXCEPT ![on[io]] = "closed"]

\* Before the first connection there is no AsyncIO to stop.
disconnect ==
  /\ ~crashed /\ ~isStoped
  /\ isStoped' = TRUE
  /\ UNCHANGED <<auto, isConnected, socket, io, on>>
  /\ IF io = 0 THEN crashed' = TRUE /\ UNCHANGED <<stoping, sock, ops, ready>>
       ELSE stoping' = stoping \cup {io} /\ UNCHANGED crashed /\ Settle(full_stop, ops, ready)

-----------------------------------------------------------------------------
(* External: the sockets and boost::asio. *)

Complete(o, ok, states) ==
  /\ ~crashed
  /\ UNCHANGED <<auto, client, stoping, crashed>>
  /\ Settle(states, ops \ {o}, Append(ready, [op |-> o, ok |-> ok]))

Connected(o) ==
  /\ o.kind = "connect"
  /\ Complete(o, TRUE, [sock EXCEPT ![o.on] = "open"])

Refused(o) ==
  /\ o.kind = "connect"
  /\ Complete(o, FALSE, [sock EXCEPT ![o.on] = "broken"])

\* A read or a write before the socket is connected waits or fails.
Fails(o) ==
  /\ o.kind # "connect" /\ sock[o.on] \in {"connecting", "broken"}
  /\ Complete(o, FALSE, sock)

Breaks(s) ==
  /\ ~crashed /\ sock[s] = "open"
  /\ sock' = [sock EXCEPT ![s] = "broken"]
  /\ UNCHANGED <<auto, client, stoping, ops, ready, crashed>>

\* A write is done; a size is read, then the body of its message, whose handler
\* keeps no pointer to the socket, then the next size.
Goes(o) ==
  /\ ~crashed /\ sock[o.on] = "open"
  /\ UNCHANGED <<auto, client, stoping, crashed>>
  /\ \/ o.kind = "write" /\ Settle(sock, ops \ {o}, ready)
     \/ o.kind = "size"  /\ Settle(sock, (ops \ {o}) \cup {Op("body", o.by, o.on)}, ready)
     \/ o.kind = "body"  /\ Settle(sock, (ops \ {o}) \cup {Op("size", o.by, o.on)}, ready)

-----------------------------------------------------------------------------
Handle == reconnectOnError \/ HandleConnected

Next ==
  \/ Handle \/ send \/ disconnect
  \/ \E o \in ops : Connected(o) \/ Refused(o) \/ Fails(o) \/ Goes(o)
  \/ \E s \in Socket : Breaks(s)

Spec == Init /\ [][Next]_vars

\* The io_service runs, and reports what fails on a broken connection.
FairSpec ==
  /\ Spec
  /\ WF_vars(Handle)
  /\ WF_vars(\E o \in ops : sock[o.on] = "broken" /\ Fails(o))

-----------------------------------------------------------------------------
Reads(o) == o.kind \in {"size", "body"}

\* A client that reconnects and was not told to stop never runs out of events:
\* it reads, it connects, or the handler of an operation that ended waits, and
\* so it connects again after any sequence of failures.
NeverGivesUp ==
  auto /\ ~isStoped => ready # <<>> \/ \E o \in ops : Reads(o) \/ o.kind = "connect"

\* A client that says it is connected learns when it is not: its newest AsyncIO
\* reads, or the handler of its read that failed waits.
ConnectedIsRead ==
  isConnected => \E o \in Handlers(ops, ready) : Reads(o) /\ o.by = io

\* The AsyncIO that disconnect stops comes to its end, whatever else fails,
\* connects or is read meanwhile: no operation of it is left, none is started.
StopEnds ==
  \A k \in Socket : k \in stoping ~> \A o \in Handlers(ops, ready) : o.by # k

\* After disconnect the client is, in the end and for good, not connected, as
\* testForReconnection expects: "while (c->is_connected())" follows disconnect.
DisconnectEnds ==
  (isStoped /\ ~crashed) ~> []~isConnected

=============================================================================
