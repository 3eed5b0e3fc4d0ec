---------------------------- MODULE Serialisation ----------------------------
(***************************************************************************)
(* The bytes of a message: serialisation::Scheme (libdqueue/               *)
(* serialisation.h), NetworkMessage (network_message.h) and the queries    *)
(* (queries.h, kinds.h).                                                   *)
(*                                                                         *)
(* A string and a vector<uint8_t> are sequences of bytes, a uint64_t is a  *)
(* number; a query is its kind with the values of its fields.  Integers    *)
(* are copied as they lie in memory: little-endian, of their width.        *)
(***************************************************************************)
EXTENDS Naturals, Sequences

Byte == 0 .. 255

\* n without its i lower bytes, for each i up to w.
Shifted(n, w) ==
  LET rest[i \in 0 .. w] == IF i = 0 THEN n ELSE rest[i - 1] \div 256 IN rest

\* memcpy of an unsigned integer of w bytes, and back.
Bytes(n, w) == [i \in 1 .. w |-> Shifted(n, w)[i - 1] % 256]

Number(bytes) ==
  LET upTo[i \in 0 .. Len(bytes)] ==
        IF i = 0 THEN 0 ELSE upTo[i - 1] * 256 + bytes[Len(bytes) + 1 - i]
  IN  upTo[Len(bytes)]

LengthSize == 4                \* sizeof(uint32_t)
SIZE_OF_MESSAGE_SIZE == 4
SIZE_OF_KIND == 2

\* get_size
size(type, v) == IF type = "uint64_t" THEN 8 ELSE LengthSize + Len(v)

\* Mutant: an id is written as 16 bits.
NarrowId(type, v) ==
  IF type = "uint64_t" THEN Bytes(v, 2) ELSE Bytes(Len(v), LengthSize) \o v

\* writer
write_value(type, v) ==
  IF type = "uint64_t" THEN Bytes(v, 8) ELSE Bytes(Len(v), LengthSize) \o v

\* reader: the value at the head of the bytes, and how many of them it took.
read_value(type, bytes) ==
  IF type = "uint64_t" THEN [value |-> Number(SubSeq(bytes, 1, 8)), size |-> 8]
    ELSE LET len == Number(SubSeq(bytes, 1, LengthSize))
         IN  [value |-> SubSeq(bytes, LengthSize + 1, LengthSize + len), size |-> LengthSize + len]

\* Scheme::capacity, write and read, of a sequence of types and of values.
capacity(types, args) ==
  LET upTo[i \in 0 .. Len(types)] ==
        IF i = 0 THEN 0 ELSE upTo[i - 1] + size(types[i], args[i])
  IN  upTo[Len(types)]

\* The sequences of seqs, one after the other.  This is FlattenSeq of
\* SequencesExt, whose Bags and TLC every step of a proof would carry along.
Concatenation(seqs) ==
  LET upTo[i \in 0 .. Len(seqs)] == IF i = 0 THEN <<>> ELSE upTo[i - 1] \o seqs[i]
  IN  upTo[Len(seqs)]

write(types, args) == Concatenation([i \in 1 .. Len(types) |-> write_value(types[i], args[i])])

\* its[i] is where the iterator of read_args stands after i fields.
read(types, bytes) ==
  LET at(i) == [it \in Nat |-> read_value(types[i], SubSeq(bytes, it + 1, Len(bytes)))]
      its[i \in 0 .. Len(types)] == IF i = 0 THEN 0 ELSE its[i - 1] + at(i)[its[i - 1]].size
  IN  [i \in 1 .. Len(types) |-> at(i)[its[i - 1]].value]

-----------------------------------------------------------------------------
\* enum class MessageKinds, from 0.
MessageKinds ==
  <<"OK", "LOGIN", "LOGIN_CONFIRM", "CREATE_QUEUE", "SUBSCRIBE", "UNSUBSCRIBE", "PUBLISH">>

KindNumber(kind) == (CHOOSE i \in DOMAIN MessageKinds : MessageKinds[i] = kind) - 1

\* The Scheme of the query of each kind.
Scheme(kind) ==
  CASE kind \in {"OK", "LOGIN_CONFIRM"}       -> <<"uint64_t">>
    [] kind = "LOGIN"                         -> <<"string">>
    [] kind = "CREATE_QUEUE"                  -> <<"string", "uint64_t">>
    [] kind \in {"SUBSCRIBE", "UNSUBSCRIBE"}  -> <<"string", "string", "uint64_t">>
    [] kind = "PUBLISH"                       -> <<"string", "string", "vector", "uint64_t">>

\* NetworkMessage::as_buffer of a message made for sz bytes and filled with
\* content: zeroes where nothing was written, and no byte more than *size.
NetworkMessage(sz, content) ==
  LET realSize == sz + SIZE_OF_MESSAGE_SIZE
      zeroes   == [i \in 1 .. sz |-> 0]
  IN  SubSeq(Bytes(realSize, SIZE_OF_MESSAGE_SIZE) \o content \o zeroes, 1, realSize)

toNetworkMessage(query) ==
  NetworkMessage(capacity(Scheme(query.kind), query.args) + SIZE_OF_KIND,
                 Bytes(KindNumber(query.kind), SIZE_OF_KIND) \o write(Scheme(query.kind), query.args))

\* The query in what follows the size of a message: the switch on the kind in
\* onNewMessage, and the constructor that reads nd->value().  A buffer is twice
\* as long as its message, and nothing initialises its second half: no byte.
Uninitialised == 256

FromNetworkMessage(body) ==
  LET kind  == MessageKinds[Number(SubSeq(body, 1, SIZE_OF_KIND)) + 1]
      value == SubSeq(body, SIZE_OF_KIND + 1, Len(body))
      spare == [i \in 1 .. SIZE_OF_MESSAGE_SIZE + Len(body) |-> Uninitialised]
  IN  [kind |-> kind, args |-> read(Scheme(kind), value \o spare)]

-----------------------------------------------------------------------------
\* What the program can send: every field has the type of its Scheme, and its
\* size and that of the message are numbers that a uint32_t holds.
Fits(n, w) == Shifted(n, w)[w] = 0

IsValue(type, v) ==
  IF type = "uint64_t" THEN v \in Nat /\ Fits(v, 8) ELSE v \in Seq(Byte) /\ Fits(Len(v), LengthSize)

IsQuery(query) ==
  /\ query = [kind |-> query.kind, args |-> query.args]
  /\ \E i \in DOMAIN MessageKinds : query.kind = MessageKinds[i]
  /\ query.args = [i \in 1 .. Len(Scheme(query.kind)) |-> query.args[i]]
  /\ \A i \in 1 .. Len(Scheme(query.kind)) : IsValue(Scheme(query.kind)[i], query.args[i])
  /\ Fits(capacity(Scheme(query.kind), query.args) + SIZE_OF_KIND + SIZE_OF_MESSAGE_SIZE,
          SIZE_OF_MESSAGE_SIZE)

=============================================================================
