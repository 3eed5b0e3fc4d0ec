------------------------------ MODULE AsyncIO ------------------------------
(***************************************************************************)
(* One direction of a connection: AsyncIO (libdqueue/async_io.cpp) at both *)
(* ends of a socket, and that it implements module Channel.                *)
(*                                                                         *)
(* External: boost::asio and the socket.  async_write moves as many bytes  *)
(* as the socket has room for and queues again for the rest, behind the    *)
(* writes that other calls of send have started meanwhile, so that the     *)
(* bytes of two messages can mix; async_read takes what is there until it  *)
(* has what it asked for.                                                  *)
(***************************************************************************)
EXTENDS Serialisation, FiniteSetsExt

CONSTANTS
  Query,     \* the queries that are sent
  Room,      \* how many bytes the socket's buffers hold
  MaxSends   \* bound: calls of send

ASSUME AsyncIOAssumption ==
  /\ \A query \in Query : IsQuery(query)
  /\ Room \in Nat \ {0} /\ MaxSends \in Nat

VARIABLES
  sent,       \* history: the queries send started to write
  received,   \* history: the queries given to _on_recv_hadler
  cut,        \* the connection is broken or closed
  stoping,    \* _begin_stoping_flag of the sender
  writing,    \* what is left of each async_write, in the order of the queue
  failed,     \* how many writes called _on_error_handler
  toSend,     \* _messages_to_send
  wire,       \* the bytes in the socket's buffers
  mixed,      \* history: a write was split while another one waited
  reading,    \* an async_read is pending: no error was reported
  got,        \* the bytes it has
  expected    \* next_message_size of the body it reads, 0 for a size

vars == <<sent, received, cut, stoping, writing, failed, toSend, wire, mixed, reading, got,
          expected>>

\* What a reader makes of mixed bytes: a query that was sent, or anything else.
Garbled == [kind |-> "garbled", args |-> <<>>]

TypeOK ==
  /\ sent \in Seq(Query) /\ received \in Seq(Query \cup {Garbled})
  /\ ~mixed => received \in Seq(Query)
  /\ cut \in BOOLEAN /\ stoping \in BOOLEAN /\ mixed \in BOOLEAN /\ reading \in BOOLEAN
  /\ writing \in Seq(Seq(Byte))
  /\ failed \in Nat /\ toSend \in Nat
  /\ wire \in Seq(Byte) /\ Len(wire) <= Room
  /\ got \in Seq(Byte)
  /\ expected \in Nat

Init ==
  /\ sent = <<>> /\ received = <<>>
  /\ cut = FALSE /\ stoping = FALSE
  /\ writing = <<>> /\ failed = 0 /\ toSend = 0
  /\ wire = <<>> /\ mixed = FALSE /\ reading = TRUE /\ got = <<>> /\ expected = 0

-----------------------------------------------------------------------------
(* Sending. *)

\* The bytes of each query.
as_buffer == [query \in Query |-> toNetworkMessage(query)]

\* Mutant: a write that failed counts as done.
FailedIsDone(n) == n - 1

\* _messages_to_send after a write that failed.
AfterError(n) == n

\* async_write is started whatever other writes are in progress.
send(query) ==
  /\ Len(sent) < MaxSends
  /\ ~stoping
  /\ sent' = Append(sent, query)
  /\ toSend' = toSend + 1
  /\ writing' = Append(writing, as_buffer[query])
  /\ UNCHANGED <<received, cut, stoping, failed, wire, mixed, reading, got, expected>>

\* The socket takes bytes of the write at the head of the queue; if that was
\* all of it, its handler runs.
Transmit ==
  /\ ~cut /\ writing # <<>> /\ Len(wire) < Room
  /\ LET n    == Min({Room - Len(wire), Len(Head(writing))})
         rest == SubSeq(Head(writing), n + 1, Len(Head(writing)))
     IN  /\ wire' = wire \o SubSeq(Head(writing), 1, n)
         /\ writing' = IF rest = <<>> THEN Tail(writing) ELSE Append(Tail(writing), rest)
         /\ toSend' = IF rest = <<>> THEN toSend - 1 ELSE toSend
         /\ mixed' = (mixed \/ (rest # <<>> /\ Tail(writing) # <<>>))
  /\ UNCHANGED <<sent, received, cut, stoping, failed, reading, got, expected>>

WriteFails ==
  /\ cut /\ writing # <<>>
  /\ writing' = Tail(writing)
  /\ failed' = failed + 1
  /\ toSend' = AfterError(toSend)
  /\ UNCHANGED <<sent, received, cut, stoping, wire, mixed, reading, got, expected>>

\* The connection breaks, or full_stop closes it; what the socket still holds
\* arrives up to some byte.
Breaks(n) ==
  /\ ~cut
  /\ cut' = TRUE
  /\ wire' = SubSeq(wire, 1, n)
  /\ UNCHANGED <<sent, received, writing, failed, toSend, mixed, reading, got, expected>>

full_stop ==
  /\ ~stoping
  /\ stoping' = TRUE
  /\ IF cut
       THEN UNCHANGED <<sent, received, cut, writing, failed, toSend, wire, mixed, reading, got,
                      expected>>
       ELSE \E n \in 0 .. Len(wire) : Breaks(n)

-----------------------------------------------------------------------------
(* Receiving: readNextAsync. *)

\* Mutant: the size of a message is taken for the size of its body.
MissingWhole == (IF expected = 0 THEN SIZE_OF_MESSAGE_SIZE ELSE expected) - Len(got)

\* The bytes of the pending async_read that are not there yet.
Missing == (IF expected = 0 THEN SIZE_OF_MESSAGE_SIZE
              ELSE expected - SIZE_OF_MESSAGE_SIZE) - Len(got)

ReadSome ==
  /\ reading /\ wire # <<>> /\ ~mixed
  /\ LET n   == Min({Missing, Len(wire)})
         now == got \o SubSeq(wire, 1, n)
     IN  /\ wire' = SubSeq(wire, n + 1, Len(wire))
         /\ \/ /\ n < Missing
               /\ got' = now
               /\ UNCHANGED <<received, expected>>
            \/ /\ n = Missing /\ expected = 0     \* on_read_size
               /\ expected' = Number(now)
               /\ got' = <<>>
               /\ UNCHANGED received
            \/ /\ n = Missing /\ expected # 0     \* on_read_message
               /\ received' = Append(received, FromNetworkMessage(now))
               /\ expected' = 0
               /\ got' = <<>>
  /\ UNCHANGED <<sent, cut, stoping, writing, failed, toSend, mixed, reading>>

\* The sizes and the bodies of mixed bytes are whatever stands there: the
\* reader waits for bytes that do not come, hands on what may be no message,
\* or ends with the exception that its kind is unknown.
ReadMixed ==
  /\ reading /\ wire # <<>> /\ mixed
  /\ wire' = <<>>
  /\ \/ UNCHANGED <<received, reading>>
     \/ /\ Len(received) < MaxSends
        /\ received' = Append(received, Garbled)
        /\ UNCHANGED reading
     \/ reading' = FALSE /\ UNCHANGED received
  /\ UNCHANGED <<sent, cut, stoping, writing, failed, toSend, mixed, got, expected>>

ReadFails ==
  /\ cut /\ wire = <<>> /\ reading
  /\ reading' = FALSE
  /\ UNCHANGED <<sent, received, cut, stoping, writing, failed, toSend, wire, mixed, got,
                 expected>>

-----------------------------------------------------------------------------
Break == (\E n \in 0 .. Len(wire) : Breaks(n)) /\ UNCHANGED stoping

Next ==
  \/ \E query \in Query : send(query)
  \/ Transmit \/ WriteFails \/ ReadSome \/ ReadMixed \/ ReadFails
  \/ Break \/ full_stop

\* The io_service runs at both ends.
Spec == Init /\ [][Next]_vars /\ WF_vars(Transmit) /\ WF_vars(ReadSome)

-----------------------------------------------------------------------------
\* queue_size() is the number of writes in progress, and of those that failed:
\* their handler reports the error and does not count down.
QueueSizeCounts == toSend = Len(writing) + failed

Stream == INSTANCE Channel WITH Message <- Query, writes <- Len(writing)

\* The messages arrive whole, once and in order, as the queries that were
\* sent, and they all do unless the connection is cut: however the socket
\* splits them, and whatever their fields hold.  All that AsyncIO adds to
\* that is that messages may mix from when two writes are in progress.
ImplementsChannel == Stream!Spec

=============================================================================
