---------------------------- MODULE ClientProofs ----------------------------
(***************************************************************************)
(* Proofs about module Client, for any number of threads, messages and     *)
(* connections: the pool holds exactly the publishes that are not          *)
(* acknowledged, what is acknowledged was served, and once onConnect is    *)
(* done no publish is forgotten.                                           *)
(***************************************************************************)
EXTENDS Client, SequenceTheorems, TLAPS

-----------------------------------------------------------------------------
(* The messages and the streams. *)

\* Ids are numbers, and one more can be given out while the bound allows.
LEMMA IdFacts ==
  ASSUME TypeOK
  PROVE  /\ GivenOut \subseteq MessageId
         /\ nextMessageId \in Nat /\ socket \in Nat /\ socket >= 1
         /\ nextMessageId + socket < MaxEvents =>
              /\ nextMessageId \in MessageId /\ nextMessageId + 1 \in 0 .. (MaxEvents - 1)
              /\ socket + 1 \in Socket
BY ClientAssumption, SMTT(30) DEF TypeOK, GivenOut, MessageId, Socket

\* An AsyncIO has a socket.
LEMMA CurrentSocket ==
  ASSUME TypeOK, current # 0
  PROVE  current \in Socket
<1>1. current \in 0 .. socket /\ socket \in 1 .. MaxEvents
  BY Zenon DEF TypeOK, Socket
<1> QED BY <1>1, ClientAssumption, SMTT(30) DEF Socket

\* The requests and the answers.
LEMMA MessageTypes ==
  /\ Login \in ToServer /\ LoginConfirm \in ToClient
  /\ LoginConfirm.kind = "LOGIN_CONFIRM"
  /\ \A id \in MessageId : Request(id) \in ToServer /\ Ok(id) \in ToClient
  /\ \A id : /\ Ok(id).kind = "OK" /\ Ok(id).id = id
             /\ Request(id).kind = "REQUEST" /\ Request(id).id = id
BY SMTT(30) DEF Login, LoginConfirm, Request, Ok, ToServer, ToClient

\* A message that is not a login is the request of its id.
LEMMA RequestOf ==
  ASSUME NEW m \in ToServer
  PROVE  m.kind = "LOGIN" \/ (m.id \in MessageId /\ m = Request(m.id))
<1>1. CASE m = Login
  BY <1>1 DEF Login
<1>2. CASE m \in [kind : {"REQUEST"}, id : MessageId]
  BY <1>2 DEF Request
<1> QED BY <1>1, <1>2 DEF ToServer

\* A stream and its elements.
LEMMA StreamTypes ==
  ASSUME TypeOK, NEW s \in Socket
  PROVE  /\ toServer[s] \in Seq(ToServer) /\ toClient[s] \in Seq(ToClient)
         /\ Len(toServer[s]) \in Nat /\ Len(toClient[s]) \in Nat
         /\ DOMAIN toServer[s] = 1 .. Len(toServer[s])
         /\ DOMAIN toClient[s] = 1 .. Len(toClient[s])
<1>1. toServer[s] \in Seq(ToServer) /\ toClient[s] \in Seq(ToClient)
  BY DEF TypeOK
<1> QED BY <1>1, LenProperties

\* The first k elements of a sequence.
LEMMA PrefixOf ==
  ASSUME NEW S, NEW q \in Seq(S), NEW k \in 0 .. Len(q)
  PROVE  /\ SubSeq(q, 1, k) \in Seq(S)
         /\ DOMAIN SubSeq(q, 1, k) = 1 .. k
         /\ \A i \in 1 .. k : i \in DOMAIN q /\ SubSeq(q, 1, k)[i] = q[i]
<1>1. Len(q) \in Nat /\ k \in Nat /\ k <= Len(q) /\ DOMAIN q = 1 .. Len(q)
  BY LenProperties
<1>2. \A i \in 1 .. k : q[i] \in S /\ i \in DOMAIN q
  BY <1>1, ElementOfSeq
<1>3. /\ SubSeq(q, 1, k) \in Seq(S)
      /\ Len(SubSeq(q, 1, k)) = IF 1 <= k THEN k - 1 + 1 ELSE 0
      /\ \A i \in 1 .. (k - 1 + 1) : SubSeq(q, 1, k)[i] = q[1 + i - 1]
  BY <1>1, <1>2, SubSeqProperties
<1>4. Len(SubSeq(q, 1, k)) = k
  BY <1>1, <1>3
<1>5. DOMAIN SubSeq(q, 1, k) = 1 .. k
  BY <1>3, <1>4, LenProperties
<1>6. \A i \in 1 .. k : SubSeq(q, 1, k)[i] = q[i]
  BY <1>1, <1>3
<1> QED BY <1>2, <1>3, <1>5, <1>6

\* Client::send adds the message to the stream of the connection in use, or
\* leaves the streams alone.
LEMMA SendSteps ==
  ASSUME TypeOK, NEW m \in ToServer, Send(m)
  PROVE  /\ toServer' \in [Socket -> Seq(ToServer)]
         /\ failed' \in Nat
         /\ \/ toServer' = toServer
            \/ current \in Socket /\ toServer' = [toServer EXCEPT ![current] = Append(@, m)]
         /\ ~Drops /\ link[current] \in {"connecting", "open"} =>
              toServer' = [toServer EXCEPT ![current] = Append(@, m)]
<1>1. failed \in Nat /\ failed + 1 \in Nat /\ toServer \in [Socket -> Seq(ToServer)]
  BY SMTT(30) DEF TypeOK
<1>2. CASE Drops
  BY <1>1, <1>2 DEF Send
<1>3. CASE ~Drops /\ link[current] = "closed"
  BY <1>1, <1>3 DEF Send
<1>4. CASE ~Drops /\ link[current] \in {"connecting", "open"}
  <2>1. current \in Socket
    BY <1>4, CurrentSocket, Zenon DEF Drops
  <2>2. Append(toServer[current], m) \in Seq(ToServer)
    BY <1>1, <2>1, AppendProperties
  <2>3. toServer' = [toServer EXCEPT ![current] = Append(@, m)] /\ failed' = failed
    BY <1>4 DEF Send
  <2> QED BY <1>1, <2>1, <2>2, <2>3
<1> QED BY <1>2, <1>3, <1>4 DEF Send

\* The end of socket s cuts its two streams.
LEMMA EndsSteps ==
  ASSUME TypeOK, NEW s \in Socket, NEW n, NEW left \in Nat, Ends(s, n, left)
  PROVE  /\ toServer' \in [Socket -> Seq(ToServer)]
         /\ toClient' \in [Socket -> Seq(ToClient)]
         /\ failed' \in Nat
         /\ \A r \in Socket \ {s} : toServer'[r] = toServer[r] /\ toClient'[r] = toClient[r]
         /\ \A i \in DOMAIN toClient'[s] : i \in DOMAIN toClient[s] /\ toClient'[s][i] = toClient[s][i]
<1>1. PICK k \in 0 .. Len(toClient[s]), w \in 0 .. Len(toServer[s]) :
        /\ toClient' = [toClient EXCEPT ![s] = SubSeq(@, 1, k)]
        /\ toServer' = [toServer EXCEPT ![s] = SubSeq(@, 1, Len(@) - w)]
        /\ failed' = left + w + (IF link[s] = "connecting" THEN 1 ELSE 0)
  BY Zenon DEF Ends
<1>2. /\ toServer[s] \in Seq(ToServer) /\ toClient[s] \in Seq(ToClient)
      /\ Len(toServer[s]) \in Nat /\ Len(toClient[s]) \in Nat
  BY StreamTypes
<1>3. Len(toServer[s]) - w \in 0 .. Len(toServer[s]) /\ failed' \in Nat
  BY <1>1, <1>2, SMTT(30)
<1>4. SubSeq(toServer[s], 1, Len(toServer[s]) - w) \in Seq(ToServer)
  BY <1>2, <1>3, PrefixOf, Zenon
<1>5. /\ SubSeq(toClient[s], 1, k) \in Seq(ToClient)
      /\ DOMAIN SubSeq(toClient[s], 1, k) = 1 .. k
      /\ \A i \in 1 .. k : i \in DOMAIN toClient[s] /\ SubSeq(toClient[s], 1, k)[i] = toClient[s][i]
  BY <1>2, PrefixOf, Zenon
<1>6. toServer' \in [Socket -> Seq(ToServer)]
  BY <1>1, <1>4, Zenon DEF TypeOK
<1>7. toClient' \in [Socket -> Seq(ToClient)] /\ toClient'[s] = SubSeq(toClient[s], 1, k)
  BY <1>1, <1>5, Zenon DEF TypeOK
<1>8. \A r \in Socket \ {s} : toServer'[r] = toServer[r] /\ toClient'[r] = toClient[r]
  BY <1>1, Zenon DEF TypeOK
<1> QED BY <1>3, <1>5, <1>6, <1>7, <1>8, Zenon

\* async_connect makes the next socket and cuts the streams of the one it
\* replaces, if that is destroyed.
LEMMA ConnectSteps ==
  ASSUME TypeOK, NEW left \in Nat, async_connect(left)
  PROVE  /\ toServer' \in [Socket -> Seq(ToServer)]
         /\ toClient' \in [Socket -> Seq(ToClient)]
         /\ failed' \in Nat
         /\ socket + 1 \in Socket /\ socket' = socket + 1
         /\ link' \in [Socket -> {"none", "connecting", "open", "closed", "gone"}]
         /\ \A r \in Socket \ {socket} : toServer'[r] = toServer[r] /\ toClient'[r] = toClient[r]
         /\ \A r \in Socket \ {socket, socket + 1} : link'[r] = link[r]
         /\ \/ link'[socket] = "gone"
            \/ /\ link'[socket] = link[socket]
               /\ UNCHANGED <<toServer, toClient>>
         /\ \A i \in DOMAIN toClient'[socket] :
              i \in DOMAIN toClient[socket] /\ toClient'[socket][i] = toClient[socket][i]
<1>1. socket \in Socket /\ socket + 1 \in Socket /\ socket # socket + 1 /\ socket' = socket + 1
  BY IdFacts, SMTT(30) DEF TypeOK, async_connect
<1>2. CASE /\ link' = [link EXCEPT ![socket] = "gone", ![socket + 1] = "connecting"]
           /\ Ends(socket, IF readers'[socket] = 0 THEN 0 ELSE 1, left)
  <2> DEFINE n == IF readers'[socket] = 0 THEN 0 ELSE 1
  <2>1. Ends(socket, n, left)
    BY <1>2
  <2> HIDE DEF n
  <2>2. /\ toServer' \in [Socket -> Seq(ToServer)]
        /\ toClient' \in [Socket -> Seq(ToClient)]
        /\ failed' \in Nat
        /\ \A r \in Socket \ {socket} : toServer'[r] = toServer[r] /\ toClient'[r] = toClient[r]
        /\ \A i \in DOMAIN toClient'[socket] :
             i \in DOMAIN toClient[socket] /\ toClient'[socket][i] = toClient[socket][i]
    BY <1>1, <2>1, EndsSteps, Zenon
  <2>3. /\ link' \in [Socket -> {"none", "connecting", "open", "closed", "gone"}]
        /\ \A r \in Socket \ {socket, socket + 1} : link'[r] = link[r]
        /\ link'[socket] = "gone"
    BY <1>1, <1>2, Zenon DEF TypeOK
  <2> QED BY <1>1, <2>2, <2>3, Zenon
<1>3. CASE /\ link' = [link EXCEPT ![socket + 1] = "connecting"]
           /\ failed' = left
           /\ UNCHANGED <<toServer, toClient>>
  <2>1. /\ link' \in [Socket -> {"none", "connecting", "open", "closed", "gone"}]
        /\ \A r \in Socket \ {socket, socket + 1} : link'[r] = link[r]
        /\ link'[socket] = link[socket]
    BY <1>1, <1>3, Zenon DEF TypeOK
  <2> QED BY <1>1, <1>3, <2>1, Zenon DEF TypeOK
<1> QED BY <1>2, <1>3, Zenon DEF async_connect
-----------------------------------------------------------------------------
(* Types. *)

\* The calls of the application keep the types.
LEMMA CallType ==
  ASSUME TypeOK, NEW t \in Thread,
         \/ \E c \in Calls : Register(t, c[1], c[2])
         \/ SendCall(t) \/ Wake(t) \/ disconnect(t)
  PROVE  TypeOK'
<1>1. ASSUME NEW c \in Calls, Register(t, c[1], c[2]) PROVE TypeOK'
  <2>1. c[1] \in Kinds /\ c[2] \in {"Async", "Sync"}
    BY ClientAssumption
  <2>2. nextMessageId \in MessageId /\ nextMessageId + 1 \in 0 .. (MaxEvents - 1)
    BY <1>1, IdFacts, Zenon DEF Register
  <2> DEFINE r == [id |-> nextMessageId, kind |-> c[1], ot |-> c[2]]
  <2>3. r \in CallRecord
    BY <2>1, <2>2 DEF CallRecord
  <2>4. /\ arg' = [arg EXCEPT ![t] = r] /\ pc' = [pc EXCEPT ![t] = "send"] /\ holder' = t
        /\ nextMessageId' = nextMessageId + 1
        /\ queries' = queries \cup {nextMessageId}
        /\ pool' \subseteq pool \cup {nextMessageId}
        /\ published' \subseteq published \cup {nextMessageId}
        /\ UNCHANGED <<flags, socket, async, streams, io, resend, served>>
    BY <1>1 DEF Register, getNextId
  <2> HIDE DEF r
  <2>5. GivenOut \subseteq GivenOut' /\ nextMessageId \in GivenOut'
    BY <2>4, IdFacts, SMTT(30) DEF GivenOut
  <2>6. /\ arg' \in [Thread -> CallRecord \cup {None}]
        /\ pc' \in [Thread -> {"idle", "send", "wait"}]
        /\ \A u \in Thread : pc'[u] # "idle" => arg'[u] \in CallRecord
    BY <2>3, <2>4, Zenon DEF TypeOK
  <2>7. pool' \subseteq GivenOut' /\ queries' \subseteq GivenOut' /\ published' \subseteq GivenOut'
    BY <2>4, <2>5, Zenon DEF TypeOK
  <2> QED BY <2>2, <2>4, <2>6, <2>7, Zenon DEF TypeOK, flags, async, streams
<1>2. CASE SendCall(t)
  <2>1. arg[t].id \in MessageId
    BY <1>2 DEF SendCall, CallRecord, TypeOK
  <2>2. Request(arg[t].id) \in ToServer
    BY <2>1, MessageTypes, Zenon
  <2>3. toServer' \in [Socket -> Seq(ToServer)] /\ failed' \in Nat
    BY <1>2, <2>2, SendSteps, Zenon DEF SendCall
  <2>4. /\ pc' \in [Thread -> {"idle", "send", "wait"}]
        /\ arg' \in [Thread -> CallRecord \cup {None}]
        /\ \A u \in Thread : pc'[u] # "idle" => arg'[u] \in CallRecord
        /\ holder' = None
    <3>1. CASE Waits(arg[t])
      BY <1>2, <3>1, Zenon DEF SendCall, TypeOK
    <3>2. CASE ~Waits(arg[t])
      BY <1>2, <3>2, Zenon DEF SendCall, TypeOK
    <3> QED BY <3>1, <3>2
  <2>5. UNCHANGED <<table, flags, socket, async, link, toClient, io, resend, served>>
    BY <1>2, Zenon DEF SendCall
  <2> QED BY <2>3, <2>4, <2>5, Zenon DEF TypeOK, GivenOut, table, flags, async
<1>3. CASE Wake(t)
  BY <1>3, Zenon DEF Wake, TypeOK, GivenOut, table, flags, async, streams
<1>4. CASE disconnect(t)
  <2>1. /\ isStoped' = TRUE /\ stoping' = TRUE
        /\ UNCHANGED <<table, calls, loginConfirmed, socket, current, readers, made, io, resend,
                       served>>
    BY <1>4, Zenon DEF disconnect
  <2>2. /\ toServer' \in [Socket -> Seq(ToServer)] /\ toClient' \in [Socket -> Seq(ToClient)]
        /\ failed' \in Nat
        /\ link' \in [Socket -> {"none", "connecting", "open", "closed", "gone"}]
    <3>1. CASE UNCHANGED streams
      BY <3>1, Zenon DEF streams, TypeOK
    <3>2. CASE link' = [link EXCEPT ![current] = "closed"] /\ Ends(current, 1, failed)
      <4>1. current \in Socket
        BY <1>4, CurrentSocket, Zenon DEF disconnect
      <4> QED BY <3>2, <4>1, EndsSteps, Zenon DEF TypeOK
    <3> QED BY <1>4, <3>1, <3>2, Zenon DEF disconnect
  <2> QED BY <2>1, <2>2, Zenon DEF TypeOK, GivenOut, table, calls
<1> QED BY <1>1, <1>2, <1>3, <1>4

\* So do the handlers of what failed.
LEMMA FailsType ==
  ASSUME TypeOK, OperationFails \/ \E s \in Socket : ReadFails(s)
  PROVE  TypeOK'
<1>1. ASSUME NEW left \in Nat, reconnectOnError(left), readers' \in [Socket -> Nat] PROVE TypeOK'
  <2>1. /\ loginConfirmed' = FALSE
        /\ UNCHANGED <<table, calls, isStoped, current, stoping, made, io, resend, served>>
    BY <1>1, Zenon DEF reconnectOnError
  <2>2. /\ toServer' \in [Socket -> Seq(ToServer)] /\ toClient' \in [Socket -> Seq(ToClient)]
        /\ failed' \in Nat
        /\ link' \in [Socket -> {"none", "connecting", "open", "closed", "gone"}]
        /\ socket' \in Socket /\ socket' \in {socket, socket + 1}
    <3>1. CASE isStoped
      BY <1>1, <3>1, Zenon DEF reconnectOnError, TypeOK
    <3>2. CASE ~isStoped
      BY <1>1, <3>2, ConnectSteps, Zenon DEF reconnectOnError
    <3> QED BY <3>1, <3>2
  <2>3. current \in 0 .. socket'
    BY <2>2, IdFacts, SMTT(30) DEF TypeOK
  <2> QED BY <1>1, <2>1, <2>2, <2>3, Zenon DEF TypeOK, GivenOut, table, calls
<1>2. CASE OperationFails
  <2>1. failed - 1 \in Nat
    BY <1>2, SMTT(30) DEF OperationFails, TypeOK
  <2>2. readers' \in [Socket -> Nat] /\ reconnectOnError(failed - 1)
    BY <1>2, Zenon DEF OperationFails, TypeOK
  <2> QED BY <1>1, <2>1, <2>2, Zenon
<1>3. ASSUME NEW s \in Socket, ReadFails(s) PROVE TypeOK'
  <2>1. readers[s] - 1 \in Nat
    BY <1>3, SMTT(30) DEF ReadFails, TypeOK
  <2>2. readers' \in [Socket -> Nat]
    BY <1>3, <2>1, Zenon DEF ReadFails, TypeOK
  <2> QED BY <1>1, <1>3, <2>2, Zenon DEF ReadFails, TypeOK
<1> QED BY <1>2, <1>3

\* So do a connect's handler and onConnect.
LEMMA ConnectType ==
  ASSUME TypeOK, \/ Connected \/ StartConnection \/ SendLogin \/ TakeAll
                 \/ \E id \in MessageId : Resend(id)
  PROVE  TypeOK'
<1>1. CASE Connected
  <2>1. made - 1 \in Nat /\ socket \in 0 .. socket
    BY <1>1, IdFacts, SMTT(30) DEF Connected, TypeOK
  <2> QED BY <1>1, <2>1, Zenon DEF Connected, TypeOK, GivenOut, table, calls, flags, streams
<1>2. CASE StartConnection
  <2>1. \A s \in Socket : readers[s] + 1 \in Nat
    BY SMTT(30) DEF TypeOK
  <2>2. readers' \in [Socket -> Nat]
    BY <1>2, <2>1, Zenon DEF StartConnection, TypeOK
  <2> QED BY <1>2, <2>2, Zenon DEF StartConnection, TypeOK, GivenOut, table, calls, flags, streams
<1>3. CASE SendLogin
  <2>1. toServer' \in [Socket -> Seq(ToServer)] /\ failed' \in Nat
    BY <1>3, SendSteps, MessageTypes, Zenon DEF SendLogin
  <2> QED BY <1>3, <2>1, Zenon DEF SendLogin, TypeOK, GivenOut, table, calls, async
<1>4. CASE TakeAll
  <2>1. resend' \subseteq MessageId /\ io' \in {"idle", "resend"}
    BY <1>4, IdFacts, Zenon DEF TakeAll, TypeOK
  <2> QED BY <1>4, <2>1, Zenon DEF TakeAll, TypeOK, GivenOut, table, calls, flags, async, streams
<1>5. ASSUME NEW id \in MessageId, Resend(id) PROVE TypeOK'
  <2>1. toServer' \in [Socket -> Seq(ToServer)] /\ failed' \in Nat
    BY <1>5, SendSteps, MessageTypes, Zenon DEF Resend
  <2>2. resend' \subseteq MessageId /\ io' \in {"idle", "resend"}
    BY <1>5, Zenon DEF Resend, TypeOK
  <2> QED BY <1>5, <2>1, <2>2, Zenon DEF Resend, TypeOK, GivenOut, table, calls, flags, async
<1> QED BY <1>1, <1>2, <1>3, <1>4, <1>5

\* Reading takes the head of a stream.
LEMMA ReadSteps ==
  ASSUME TypeOK, NEW s \in Socket, Reading(s)
  PROVE  /\ toClient' \in [Socket -> Seq(ToClient)] /\ readers' \in [Socket -> Nat]
         /\ Head(toClient[s]) = toClient[s][1] /\ 1 \in DOMAIN toClient[s]
         /\ \A r \in Socket \ {s} : toClient'[r] = toClient[r]
         /\ \A i \in DOMAIN toClient'[s] : i + 1 \in DOMAIN toClient[s] /\ toClient'[s][i] = toClient[s][i + 1]
         /\ \A i \in DOMAIN toClient[s] :
              i = 1 \/ (i - 1 \in DOMAIN toClient'[s] /\ toClient'[s][i - 1] = toClient[s][i])
<1>1. toClient[s] \in Seq(ToClient) /\ toClient[s] # <<>>
  BY Zenon DEF Reading, TypeOK
<1>2. /\ Tail(toClient[s]) \in Seq(ToClient) /\ Len(Tail(toClient[s])) = Len(toClient[s]) - 1
      /\ \A i \in 1 .. Len(Tail(toClient[s])) : Tail(toClient[s])[i] = toClient[s][i + 1]
      /\ Head(toClient[s]) = toClient[s][1]
  BY <1>1, HeadTailProperties, SMTT(30)
<1>3. toClient' = [toClient EXCEPT ![s] = Tail(@)]
  BY Zenon DEF Reading
<1>4. /\ toClient'[s] = Tail(toClient[s]) /\ toClient' \in [Socket -> Seq(ToClient)]
      /\ \A r \in Socket \ {s} : toClient'[r] = toClient[r]
  BY <1>2, <1>3, Zenon DEF TypeOK
<1>5. readers' \in [Socket -> Nat]
  BY SMTT(30) DEF Reading, TypeOK
<1>6. /\ Len(toClient[s]) \in Nat /\ Len(toClient[s]) # 0
      /\ DOMAIN toClient[s] = 1 .. Len(toClient[s])
      /\ DOMAIN Tail(toClient[s]) = 1 .. (Len(toClient[s]) - 1)
  BY <1>1, <1>2, LenProperties, EmptySeq, SMTT(30)
<1> DEFINE n == Len(toClient[s])
<1>7. /\ 1 \in 1 .. n
      /\ \A i \in 1 .. (n - 1) : i + 1 \in 1 .. n
      /\ \A i \in 1 .. n : i = 1 \/ (i - 1 \in 1 .. (n - 1) /\ (i - 1) + 1 = i)
  <2> HIDE DEF n
  <2>1. n \in Nat /\ n # 0
    BY <1>6 DEF n
  <2> QED BY <2>1, SMTT(30)
<1>8. \A i \in 1 .. (n - 1) : Tail(toClient[s])[i] = toClient[s][i + 1]
  BY <1>2
<1>9. \A i \in 1 .. n : i = 1 \/ (i - 1 \in 1 .. (n - 1) /\ Tail(toClient[s])[i - 1] = toClient[s][i])
  <2> TAKE i \in 1 .. n
  <2>1. CASE i # 1
    <3>1. i - 1 \in 1 .. (n - 1) /\ (i - 1) + 1 = i
      BY <1>7, <2>1
    <3>2. Tail(toClient[s])[i - 1] = toClient[s][(i - 1) + 1]
      BY <1>8, <3>1, Zenon
    <3> QED BY <3>1, <3>2, Zenon
  <2> QED BY <2>1
<1> HIDE DEF n
<1> QED BY <1>2, <1>4, <1>5, <1>6, <1>7, <1>8, <1>9, Zenon DEF n

\* Each handler of a message keeps the types.
LEMMA ReadType ==
  ASSUME TypeOK, NEW s \in Socket,
         ReadShared(s) \/ RecvLoginConfirm(s) \/ RecvOk(s) \/ RecvUnknownOk(s)
  PROVE  TypeOK'
<1>1. CASE ReadShared(s)
  BY <1>1, Zenon DEF ReadShared, TypeOK, GivenOut, table, calls, flags, async, streams
<1>2. ASSUME Reading(s), pool' \subseteq pool, queries' \subseteq queries, loginConfirmed' \in BOOLEAN,
             io' \in {io, "dead"}
      PROVE  TypeOK'
  <2>1. toClient' \in [Socket -> Seq(ToClient)] /\ readers' \in [Socket -> Nat]
    BY <1>2, ReadSteps, Zenon
  <2> QED BY <1>2, <2>1, Zenon DEF Reading, TypeOK, GivenOut, calls
<1>3. CASE RecvLoginConfirm(s)
  BY <1>2, <1>3, Zenon DEF RecvLoginConfirm
<1>4. CASE RecvOk(s)
  <2>1. loginConfirmed' \in BOOLEAN
    BY <1>4, Zenon DEF RecvOk, TypeOK
  <2> QED BY <1>2, <1>4, <2>1, Zenon DEF RecvOk
<1>5. CASE RecvUnknownOk(s)
  <2>1. loginConfirmed' \in BOOLEAN
    BY <1>5, Zenon DEF RecvUnknownOk, TypeOK
  <2> QED BY <1>2, <1>5, <2>1, Zenon DEF RecvUnknownOk
<1> QED BY <1>1, <1>3, <1>4, <1>5

\* The server takes the head of a stream and answers it, if the client still
\* listens.
LEMMA ServeSteps ==
  ASSUME TypeOK, NEW s \in Socket, Serve(s)
  PROVE  /\ toServer' \in [Socket -> Seq(ToServer)] /\ toClient' \in [Socket -> Seq(ToClient)]
         /\ served \subseteq served' /\ served' \subseteq MessageId
         /\ \A r \in Socket \ {s} : toServer'[r] = toServer[r] /\ toClient'[r] = toClient[r]
         /\ \A i \in DOMAIN toServer[s] :
              i = 1 \/ (i - 1 \in DOMAIN toServer'[s] /\ toServer'[s][i - 1] = toServer[s][i])
         /\ \A i \in DOMAIN toClient[s] : i \in DOMAIN toClient'[s] /\ toClient'[s][i] = toClient[s][i]
         /\ \A i \in DOMAIN toClient'[s] :
              \/ i \in DOMAIN toClient[s] /\ toClient'[s][i] = toClient[s][i]
              \/ toClient'[s][i] = LoginConfirm
              \/ \E id \in served' : toClient'[s][i] = Ok(id)
         /\ \A id \in MessageId : toServer[s][1] = Request(id) /\ link[s] = "open" =>
              \E i \in DOMAIN toClient'[s] : toClient'[s][i] = Ok(id)
<1> DEFINE m == Head(toServer[s])
           n == Len(toServer[s])
           k == Len(toClient[s])
           answer == IF m.kind = "LOGIN" THEN LoginConfirm ELSE Ok(m.id)
<1>1. /\ toServer[s] \in Seq(ToServer) /\ toServer[s] # <<>> /\ toClient[s] \in Seq(ToClient)
      /\ n \in Nat /\ k \in Nat /\ DOMAIN toServer[s] = 1 .. n /\ DOMAIN toClient[s] = 1 .. k
  BY StreamTypes, Zenon DEF Serve
<1>2. /\ Tail(toServer[s]) \in Seq(ToServer) /\ Len(Tail(toServer[s])) = n - 1
      /\ \A i \in 1 .. Len(Tail(toServer[s])) : Tail(toServer[s])[i] = toServer[s][i + 1]
      /\ m = toServer[s][1] /\ m \in ToServer
  BY <1>1, HeadTailProperties, SMTT(30)
<1>3. /\ toServer' = [toServer EXCEPT ![s] = Tail(@)]
      /\ toClient' = IF link[s] = "open" THEN [toClient EXCEPT ![s] = Append(@, answer)] ELSE toClient
      /\ served' = IF m.kind = "LOGIN" THEN served ELSE served \cup {m.id}
  BY Zenon DEF Serve
<1>4. m.kind = "LOGIN" \/ (m.id \in MessageId /\ m = Request(m.id))
  BY <1>2, RequestOf, Zenon
<1>5. /\ answer \in ToClient
      /\ answer = LoginConfirm \/ \E id \in served' : answer = Ok(id)
      /\ \A id \in MessageId : m = Request(id) => answer = Ok(id)
  <2>1. \A id : m = Request(id) => m.kind # "LOGIN" /\ m.id = id
    BY MessageTypes, SMTT(30)
  <2> HIDE DEF m
  <2> QED BY <1>3, <1>4, <2>1, MessageTypes, Zenon
<1>6. served \subseteq served' /\ served' \subseteq MessageId
  <2> HIDE DEF m
  <2> QED BY <1>3, <1>4, Zenon DEF TypeOK
<1> HIDE DEF m, answer
<1>7. /\ Append(toClient[s], answer) \in Seq(ToClient)
      /\ DOMAIN Append(toClient[s], answer) = 1 .. (k + 1)
      /\ \A i \in 1 .. k : Append(toClient[s], answer)[i] = toClient[s][i]
      /\ Append(toClient[s], answer)[k + 1] = answer
  <2>1. /\ Append(toClient[s], answer) \in Seq(ToClient)
        /\ Len(Append(toClient[s], answer)) = k + 1
        /\ \A i \in 1 .. k : Append(toClient[s], answer)[i] = toClient[s][i]
        /\ Append(toClient[s], answer)[k + 1] = answer
    BY <1>1, <1>5, AppendProperties, SMTT(30)
  <2> QED BY <2>1, LenProperties, Zenon
<1>8. /\ toServer' \in [Socket -> Seq(ToServer)] /\ toServer'[s] = Tail(toServer[s])
      /\ \A r \in Socket \ {s} : toServer'[r] = toServer[r]
  BY <1>2, <1>3, Zenon DEF TypeOK
<1>9. /\ toClient' \in [Socket -> Seq(ToClient)]
      /\ link[s] = "open" => toClient'[s] = Append(toClient[s], answer)
      /\ link[s] # "open" => toClient'[s] = toClient[s]
      /\ \A r \in Socket \ {s} : toClient'[r] = toClient[r]
  BY <1>3, <1>7, Zenon DEF TypeOK
<1>10. \A i \in DOMAIN toServer[s] :
         i = 1 \/ (i - 1 \in DOMAIN toServer'[s] /\ toServer'[s][i - 1] = toServer[s][i])
  <2> TAKE i \in DOMAIN toServer[s]
  <2>1. CASE i # 1
    <3>1. DOMAIN Tail(toServer[s]) = 1 .. (n - 1)
      BY <1>2, LenProperties, Zenon
    <3> HIDE DEF n
    <3>2. i - 1 \in 1 .. (n - 1) /\ (i - 1) + 1 = i
      BY <1>1, <2>1, SMTT(30)
    <3>3. Tail(toServer[s])[i - 1] = toServer[s][(i - 1) + 1]
      BY <1>2, <3>2, Zenon
    <3> QED BY <1>8, <3>1, <3>2, <3>3, Zenon
  <2> QED BY <2>1
<1>11. 1 .. k \subseteq 1 .. (k + 1) /\ k + 1 \in 1 .. (k + 1) /\ \A i \in 1 .. (k + 1) : i \in 1 .. k \/ i = k + 1
  <2> HIDE DEF k
  <2> QED BY <1>1, SMTT(30)
<1> HIDE DEF k, n
<1>12. /\ \A i \in DOMAIN toClient[s] : i \in DOMAIN toClient'[s] /\ toClient'[s][i] = toClient[s][i]
       /\ \A i \in DOMAIN toClient'[s] :
            \/ i \in DOMAIN toClient[s] /\ toClient'[s][i] = toClient[s][i]
            \/ toClient'[s][i] = LoginConfirm
            \/ \E id \in served' : toClient'[s][i] = Ok(id)
       /\ \A id \in MessageId : toServer[s][1] = Request(id) /\ link[s] = "open" =>
            \E i \in DOMAIN toClient'[s] : toClient'[s][i] = Ok(id)
  <2>1. CASE link[s] = "open"
    <3>1. toClient'[s] = Append(toClient[s], answer)
      BY <1>9, <2>1
    <3> QED BY <1>1, <1>2, <1>5, <1>7, <1>11, <3>1, Zenon
  <2>2. CASE link[s] # "open"
    BY <1>9, <2>2, Zenon
  <2> QED BY <2>1, <2>2
<1> QED BY <1>6, <1>8, <1>9, <1>10, <1>12, Zenon

\* The steps of the server and of the network keep the types.
LEMMA NetType ==
  ASSUME TypeOK, NEW s \in Socket, Establish(s) \/ Break(s) \/ Serve(s) \/ Lose(s)
  PROVE  TypeOK'
<1>1. CASE Establish(s)
  <2>1. made + 1 \in Nat
    BY SMTT(30) DEF TypeOK
  <2> QED BY <1>1, <2>1, Zenon DEF Establish, TypeOK, GivenOut, table, calls, flags
<1>2. CASE Break(s)
  <2>1. Ends(s, Len(toClient[s]), failed) /\ failed \in Nat
    BY <1>2, Zenon DEF Break, TypeOK
  <2>2. /\ toServer' \in [Socket -> Seq(ToServer)] /\ toClient' \in [Socket -> Seq(ToClient)]
        /\ failed' \in Nat
    BY <2>1, EndsSteps, Zenon
  <2>3. link' \in [Socket -> {"none", "connecting", "open", "closed", "gone"}]
    BY <1>2, Zenon DEF Break, TypeOK
  <2>4. UNCHANGED <<table, calls, flags, socket, async, io, resend, served>>
    BY <1>2, Zenon DEF Break
  <2> QED BY <2>2, <2>3, <2>4, Zenon DEF TypeOK, GivenOut, table, calls, flags, async
<1>3. CASE Serve(s)
  <2>1. /\ toServer' \in [Socket -> Seq(ToServer)] /\ toClient' \in [Socket -> Seq(ToClient)]
        /\ served' \subseteq MessageId
    BY <1>3, ServeSteps, Zenon
  <2>2. UNCHANGED <<table, calls, flags, socket, async, link, failed, io, resend>>
    BY <1>3, Zenon DEF Serve
  <2> QED BY <2>1, <2>2, Zenon DEF TypeOK, GivenOut, table, calls, flags, async
<1>4. CASE Lose(s)
  <2>1. toServer' \in [Socket -> Seq(ToServer)]
    BY <1>4, EmptySeq, Zenon DEF Lose, TypeOK
  <2>2. UNCHANGED <<table, calls, flags, socket, async, link, failed, toClient, io, resend, served>>
    BY <1>4, Zenon DEF Lose
  <2> QED BY <2>1, <2>2, Zenon DEF TypeOK, GivenOut, table, calls, flags, async
<1> QED BY <1>1, <1>2, <1>3, <1>4

LEMMA TypeStep == TypeOK /\ [Next]_vars => TypeOK'
<1> SUFFICES ASSUME TypeOK, [Next]_vars PROVE TypeOK'
  OBVIOUS
<1>1. CASE UNCHANGED vars
  BY <1>1, Zenon DEF vars, TypeOK, GivenOut, table, calls, flags, async, streams
<1>2. CASE IoNext
  BY <1>2, FailsType, ConnectType, ReadType, Zenon DEF IoNext
<1> QED BY <1>1, <1>2, CallType, NetType, Zenon DEF Next

LEMMA InitType == Init => TypeOK
<1> SUFFICES ASSUME Init PROVE TypeOK
  OBVIOUS
<1>1. /\ nextMessageId \in 0 .. (MaxEvents - 1) /\ socket \in Socket /\ current \in 0 .. socket
      /\ made \in Nat /\ failed \in Nat
  BY ClientAssumption, SMTT(30) DEF Init, Socket
<1>2. /\ toServer \in [Socket -> Seq(ToServer)] /\ toClient \in [Socket -> Seq(ToClient)]
      /\ readers \in [Socket -> Nat]
      /\ link \in [Socket -> {"none", "connecting", "open", "closed", "gone"}]
  BY EmptySeq, SMTT(30) DEF Init
<1>3. /\ pc \in [Thread -> {"idle", "send", "wait"}] /\ arg \in [Thread -> CallRecord \cup {None}]
      /\ \A t \in Thread : pc[t] = "idle"
  BY Zenon DEF Init
<1> QED BY <1>1, <1>2, <1>3, Zenon DEF Init, TypeOK

\* The client's state keeps its types, and no id is in its tables that it has
\* not given out: however many connections there are, their handlers count
\* what they started and no more.
THEOREM ClientTypeCorrect == Spec => []TypeOK
BY InitType, TypeStep, PTL DEF Spec

-----------------------------------------------------------------------------
(* The pool. *)

\* A step changes the table in Client::publish and the like, by a fresh id, or
\* in the handler of OK, by taking one id out of both places; no other step
\* touches it.
LEMMA TableSteps ==
  ASSUME [Next]_vars
  PROVE  \/ \E t \in Thread, c \in Calls : Register(t, c[1], c[2])
         \/ \E s \in Socket : RecvOk(s)
         \/ UNCHANGED table
<1>1. CASE \E t \in Thread, c \in Calls : Register(t, c[1], c[2])
  BY <1>1
<1>2. ASSUME NEW t \in Thread, SendCall(t) \/ Wake(t) \/ disconnect(t)
      PROVE  UNCHANGED table
  BY <1>2, Zenon DEF SendCall, Wake, disconnect
<1>3. CASE OperationFails \/ \E s \in Socket : ReadFails(s)
  BY <1>3, Zenon DEF OperationFails, ReadFails, reconnectOnError
<1>4. CASE Connected \/ StartConnection \/ SendLogin \/ TakeAll \/ \E id \in MessageId : Resend(id)
  BY <1>4, Zenon DEF Connected, StartConnection, SendLogin, TakeAll, Resend
<1>5. ASSUME NEW s \in Socket, ReadShared(s) \/ RecvLoginConfirm(s) \/ RecvUnknownOk(s)
      PROVE  UNCHANGED table
  BY <1>5, Zenon DEF ReadShared, RecvLoginConfirm, RecvUnknownOk, Reading, table
<1>6. ASSUME NEW s \in Socket, Establish(s) \/ Break(s) \/ Serve(s) \/ Lose(s)
      PROVE  UNCHANGED table
  BY <1>6, Zenon DEF Establish, Break, Serve, Lose
<1>7. CASE UNCHANGED vars
  BY <1>7, Zenon DEF vars
<1>8. CASE IoNext
  BY <1>3, <1>4, <1>5, <1>8, Zenon DEF IoNext
<1> QED BY <1>1, <1>2, <1>6, <1>7, <1>8, Zenon DEF Next

\* The next id is in no table.
LEMMA FreshId ==
  ASSUME TypeOK
  PROVE  /\ nextMessageId \notin GivenOut
         /\ nextMessageId \notin queries /\ nextMessageId \notin published
<1>1. nextMessageId \notin GivenOut
  BY IdFacts, SMTT(30) DEF GivenOut
<1> QED BY <1>1, Zenon DEF TypeOK

\* A new id is neither published nor waited for yet, so that adding it to the
\* queries and, for a publish, to the pool keeps the two in step; an OK takes
\* its id out of both.
LEMMA PoolStep == TypeOK /\ PoolIsUnacknowledged /\ [Next]_vars => PoolIsUnacknowledged'
<1> SUFFICES ASSUME TypeOK, PoolIsUnacknowledged, [Next]_vars PROVE PoolIsUnacknowledged'
  OBVIOUS
<1>1. ASSUME NEW t \in Thread, NEW c \in Calls, Register(t, c[1], c[2])
      PROVE  PoolIsUnacknowledged'
  <2>1. queries' = queries \cup {nextMessageId}
    BY <1>1, Zenon DEF Register, getNextId
  <2>2. CASE c[1] = "PUBLISH"
    <3>1. /\ pool' = pool \cup {nextMessageId}
          /\ published' = published \cup {nextMessageId}
      BY <1>1, <2>2, Zenon DEF Register, getNextId
    <3> QED BY <2>1, <3>1, FreshId, Zenon DEF PoolIsUnacknowledged
  <2>3. CASE c[1] # "PUBLISH"
    <3>1. pool' = pool /\ published' = published
      BY <1>1, <2>3, Zenon DEF Register
    <3> QED BY <2>1, <3>1, FreshId, Zenon DEF PoolIsUnacknowledged
  <2> QED BY <2>2, <2>3
<1>2. ASSUME NEW s \in Socket, RecvOk(s) PROVE PoolIsUnacknowledged'
  <2>1. PICK id \in queries : pool' = pool \ {id} /\ queries' = queries \ {id}
    BY <1>2, Zenon DEF RecvOk
  <2>2. published' = published
    BY <1>2, Zenon DEF RecvOk, Reading
  <2> QED BY <2>1, <2>2, Zenon DEF PoolIsUnacknowledged
<1>3. CASE UNCHANGED table
  BY <1>3, Zenon DEF table, PoolIsUnacknowledged
<1> QED BY <1>1, <1>2, <1>3, TableSteps, Zenon

\* The pool is exactly the publishes without an OK, in every reachable state:
\* Client::onConnect sends again what is needed and nothing else.
THEOREM PoolExact == Spec => []PoolIsUnacknowledged
<1>1. Init => PoolIsUnacknowledged
  BY DEF Init, PoolIsUnacknowledged
<1> QED BY <1>1, InitType, TypeStep, PoolStep, PTL DEF Spec

-----------------------------------------------------------------------------
(* What is acknowledged was served. *)

\* What a step does to the streams of answers: the server's handler appends to
\* one, the client takes its head, the end of a socket cuts it.
LEMMA AnswerSteps ==
  ASSUME TypeOK, [Next]_vars
  PROVE  /\ served \subseteq served'
         /\ \A r \in Socket : \A i \in DOMAIN toClient'[r] :
              \/ \E j \in DOMAIN toClient[r] : toClient'[r][i] = toClient[r][j]
              \/ toClient'[r][i] = LoginConfirm
              \/ \E id \in served' : toClient'[r][i] = Ok(id)
<1> DEFINE Old == \A r \in Socket : \A i \in DOMAIN toClient'[r] :
                    \E j \in DOMAIN toClient[r] : toClient'[r][i] = toClient[r][j]
<1>1. ASSUME UNCHANGED toClient PROVE Old
  BY <1>1, Zenon
<1>2. ASSUME NEW s \in Socket, NEW n, Ends(s, n, failed) PROVE Old
  <2>1. failed \in Nat
    BY Zenon DEF TypeOK
  <2> QED BY <1>2, <2>1, EndsSteps, Zenon
<1>3. ASSUME NEW t \in Thread,
             \/ \E c \in Calls : Register(t, c[1], c[2])
             \/ SendCall(t) \/ Wake(t)
      PROVE  UNCHANGED <<toClient, served>>
  BY <1>3, Zenon DEF Register, SendCall, Wake, streams
<1>4. ASSUME NEW t \in Thread, disconnect(t) PROVE Old /\ served' = served
  <2>1. current \in Socket /\ served' = served
    BY <1>4, CurrentSocket, Zenon DEF disconnect
  <2>2. UNCHANGED toClient \/ Ends(current, 1, failed)
    BY <1>4, Zenon DEF disconnect, streams
  <2> QED BY <1>1, <1>2, <2>1, <2>2, Zenon
<1>5. ASSUME NEW left \in Nat, reconnectOnError(left) PROVE Old /\ served' = served
  <2>1. CASE isStoped
    BY <1>1, <1>5, <2>1, Zenon DEF reconnectOnError
  <2>2. CASE ~isStoped
    <3>1. async_connect(left) /\ served' = served
      BY <1>5, <2>2, Zenon DEF reconnectOnError
    <3> QED BY <3>1, ConnectSteps, Zenon
  <2> QED BY <2>1, <2>2
<1>6. ASSUME OperationFails PROVE Old /\ served' = served
  <2>1. failed - 1 \in Nat
    BY <1>6, SMTT(30) DEF OperationFails, TypeOK
  <2> QED BY <1>5, <1>6, <2>1, Zenon DEF OperationFails
<1>7. ASSUME NEW s \in Socket, ReadFails(s) PROVE Old /\ served' = served
  BY <1>5, <1>7, Zenon DEF ReadFails, TypeOK
<1>8. ASSUME \/ Connected \/ StartConnection \/ SendLogin \/ TakeAll
             \/ \E id \in MessageId : Resend(id)
      PROVE  Old /\ served' = served
  BY <1>1, <1>8, Zenon DEF Connected, StartConnection, SendLogin, TakeAll, Resend, streams
<1>9. ASSUME NEW s \in Socket, RecvLoginConfirm(s) \/ RecvOk(s) \/ RecvUnknownOk(s)
      PROVE  Old /\ served' = served
  <2>1. Reading(s) /\ served' = served
    BY <1>9, Zenon DEF RecvLoginConfirm, RecvOk, RecvUnknownOk, Reading
  <2> QED BY <2>1, ReadSteps, Zenon
<1>10. ASSUME NEW s \in Socket, ReadShared(s) \/ Establish(s) \/ Lose(s)
       PROVE  UNCHANGED <<toClient, served>>
  BY <1>10, Zenon DEF ReadShared, Establish, Lose, streams
<1>11. ASSUME NEW s \in Socket, Break(s) PROVE Old /\ served' = served
  BY <1>2, <1>11, Zenon DEF Break
<1>12. CASE \E s \in Socket : Serve(s)
  <2>1. PICK s \in Socket : Serve(s)
    BY <1>12
  <2> QED BY <2>1, ServeSteps, Zenon
<1>13. ASSUME UNCHANGED vars PROVE Old /\ served' = served
  BY <1>1, <1>13, Zenon DEF vars, streams
<1>14. ASSUME IoNext PROVE Old /\ served' = served
  BY <1>1, <1>6, <1>7, <1>8, <1>9, <1>10, <1>14, Zenon DEF IoNext
<1> HIDE DEF Old
<1>15. (Old /\ served' = served) \/ \E s \in Socket : Serve(s)
  BY <1>1, <1>3, <1>4, <1>10, <1>11, <1>13, <1>14, Zenon DEF Next
<1> QED BY <1>12, <1>15, Zenon DEF Old

\* An OK is only sent for a request that was handled, and cutting a stream or
\* taking its head adds none.
LEMMA OkStep == TypeOK /\ OkInv /\ [Next]_vars => OkInv'
<1> SUFFICES ASSUME TypeOK, OkInv, [Next]_vars,
                    NEW r \in Socket, NEW i \in DOMAIN toClient'[r], toClient'[r][i].kind = "OK"
             PROVE  toClient'[r][i].id \in served'
  BY Zenon DEF OkInv
<1>1. CASE \E j \in DOMAIN toClient[r] : toClient'[r][i] = toClient[r][j]
  BY <1>1, AnswerSteps, Zenon DEF OkInv
<1>2. toClient'[r][i] # LoginConfirm
  <2>1. LoginConfirm.kind # "OK"
    BY DEF LoginConfirm
  <2> QED BY <2>1, Zenon
<1>3. CASE \E id \in served' : toClient'[r][i] = Ok(id)
  BY <1>3, MessageTypes, Zenon
<1> QED BY <1>1, <1>2, <1>3, AnswerSteps, Zenon

\* A new id is a query until its OK is read, and the OK that
\* Client::onNewMessage reads is the head of a stream, whose request was handled.
LEMMA AckStep ==
  TypeOK /\ OkInv /\ AckedMeansServed /\ [Next]_vars => AckedMeansServed'
<1> SUFFICES ASSUME TypeOK, OkInv, AckedMeansServed, [Next]_vars
             PROVE  AckedMeansServed'
  OBVIOUS
<1>1. served \subseteq served'
  BY AnswerSteps
<1>2. ASSUME NEW t \in Thread, NEW c \in Calls, Register(t, c[1], c[2])
      PROVE  AckedMeansServed'
  <2>1. /\ nextMessageId' = nextMessageId + 1
        /\ queries' = queries \cup {nextMessageId}
    BY <1>2, Zenon DEF Register, getNextId
  <2>2. \A id \in GivenOut' : id \in GivenOut \/ id = nextMessageId
    BY <2>1, IdFacts, SMTT(30) DEF GivenOut
  <2> QED BY <1>1, <2>1, <2>2, Zenon DEF AckedMeansServed
<1>3. ASSUME NEW s \in Socket, RecvOk(s) PROVE AckedMeansServed'
  <2>1. PICK id \in queries : Head(toClient[s]) = Ok(id) /\ queries' = queries \ {id}
    BY <1>3, Zenon DEF RecvOk
  <2>2. Reading(s) /\ nextMessageId' = nextMessageId
    BY <1>3, Zenon DEF RecvOk, Reading
  <2>3. toClient[s][1] = Ok(id) /\ 1 \in DOMAIN toClient[s]
    BY <2>1, <2>2, ReadSteps, Zenon
  <2>4. id \in served
    <3>1. toClient[s][1].kind = "OK" /\ toClient[s][1].id = id
      BY <2>3, MessageTypes, Zenon
    <3> QED BY <2>3, <3>1, Zenon DEF OkInv
  <2>5. GivenOut' = GivenOut
    BY <2>2, Zenon DEF GivenOut
  <2> QED BY <1>1, <2>1, <2>4, <2>5, Zenon DEF AckedMeansServed
<1>4. CASE UNCHANGED table
  BY <1>1, <1>4, Zenon DEF AckedMeansServed, GivenOut, table
<1> QED BY <1>2, <1>3, <1>4, TableSteps, Zenon

\* What the client takes for done the server has done: an id that was given out
\* and is no longer waited for was handled by the server, whatever connections
\* broke in between.
THEOREM AckedServed == Spec => []AckedMeansServed
<1>1. ASSUME Init PROVE OkInv /\ AckedMeansServed
  <2>1. \A s \in Socket : toClient[s] = <<>>
    BY <1>1, Zenon DEF Init
  <2>2. GivenOut = {}
    BY <1>1, SMTT(30) DEF Init, GivenOut
  <2>3. DOMAIN <<>> = {}
    BY SMTT(30)
  <2> QED BY <2>1, <2>2, <2>3, Zenon DEF OkInv, AckedMeansServed
<1> QED BY <1>1, InitType, TypeStep, OkStep, AckStep, PTL DEF Spec

-----------------------------------------------------------------------------
(* No publish is forgotten. *)

\* Client::send on a connection in use: what is under way stays so, and the
\* message joins it.
LEMMA SentOn ==
  ASSUME TypeOK, SentInv, InUse, io # "start", NEW m \in ToServer, Send(m),
         UNCHANGED <<current, toClient>>
  PROVE  \A id : UnderWay(id, current) \/ m = Request(id) => UnderWay(id, current)'
<1>1. current \in Socket
  BY CurrentSocket, Zenon DEF InUse
<1>2. ~Drops /\ link[current] \in {"connecting", "open"}
  BY Zenon DEF Drops, SentInv, InUse
<1>3. toServer' = [toServer EXCEPT ![current] = Append(@, m)]
  BY <1>2, SendSteps, Zenon
<1> DEFINE q == toServer[current]
<1>4. q \in Seq(ToServer) /\ Len(q) \in Nat /\ DOMAIN q = 1 .. Len(q)
  BY <1>1, StreamTypes, Zenon
<1>5. toServer'[current] = Append(q, m)
  BY <1>1, <1>3, Zenon DEF TypeOK
<1> HIDE DEF q
<1>6. /\ DOMAIN Append(q, m) = 1 .. (Len(q) + 1) /\ Append(q, m)[Len(q) + 1] = m
      /\ \A i \in 1 .. Len(q) : Append(q, m)[i] = q[i]
  <2>1. /\ Append(q, m) \in Seq(ToServer) /\ Len(Append(q, m)) = Len(q) + 1
        /\ \A i \in 1 .. Len(q) : Append(q, m)[i] = q[i]
        /\ Append(q, m)[Len(q) + 1] = m
    BY <1>4, AppendProperties, SMTT(30)
  <2> QED BY <2>1, LenProperties, Zenon
<1>7. 1 .. Len(q) \subseteq 1 .. (Len(q) + 1) /\ Len(q) + 1 \in 1 .. (Len(q) + 1)
  BY <1>4, SMTT(30)
<1>8. /\ \A i \in DOMAIN q : i \in DOMAIN toServer'[current] /\ toServer'[current][i] = q[i]
      /\ \E i \in DOMAIN toServer'[current] : toServer'[current][i] = m
  BY <1>4, <1>5, <1>6, <1>7, Zenon
<1> QED BY <1>8, Zenon DEF UnderWay, q

\* Nothing that the invariant speaks of changes.
LEMMA SentQuiet ==
  ASSUME SentInv, UNCHANGED <<pool, current, stoping, io, resend, pc, arg>>,
         current # 0 =>
           /\ link'[current] = link[current] /\ toServer'[current] = toServer[current]
           /\ toClient'[current] = toClient[current]
  PROVE  SentInv'
<1>1. CASE current = 0
  BY <1>1, Zenon DEF SentInv, InUse
<1>2. CASE current # 0
  <2>1. InUse' = InUse
    BY <1>2, Zenon DEF InUse
  <2>2. \A id : UnderWay(id, current) => UnderWay(id, current)'
    BY <1>2, Zenon DEF UnderWay
  <2>3. \A t, id : Sending(t, id) => Sending(t, id)'
    BY Zenon DEF Sending
  <2> QED BY <1>2, <2>1, <2>2, <2>3, Zenon DEF SentInv
<1> QED BY <1>1, <1>2

\* A new message is about to be sent, and is under way when it has been.
LEMMA SentCall ==
  ASSUME TypeOK, SentInv, NEW t \in Thread,
         \/ \E c \in Calls : Register(t, c[1], c[2])
         \/ SendCall(t) \/ Wake(t) \/ disconnect(t)
  PROVE  SentInv'
<1>1. ASSUME NEW c \in Calls, Register(t, c[1], c[2]) PROVE SentInv'
  <2> DEFINE r == [id |-> nextMessageId, kind |-> c[1], ot |-> c[2]]
  <2>1. /\ pool' \subseteq pool \cup {nextMessageId} /\ pc[t] = "idle"
        /\ pc' = [pc EXCEPT ![t] = "send"] /\ arg' = [arg EXCEPT ![t] = r]
        /\ UNCHANGED <<io, resend, current, stoping, link, toServer, toClient>>
    BY <1>1, Zenon DEF Register, getNextId, async, streams
  <2>2. r.id = nextMessageId
    OBVIOUS
  <2> HIDE DEF r
  <2>3. \A id : id = nextMessageId => Sending(t, id)'
    BY <2>1, <2>2, Zenon DEF Sending, TypeOK
  <2>4. \A u \in Thread : \A id : Sending(u, id) => Sending(u, id)'
    <3> SUFFICES ASSUME NEW u \in Thread, NEW id, Sending(u, id) PROVE Sending(u, id)'
      BY Zenon
    <3>1. u # t
      <4>1. pc[u] = "send" /\ pc[t] # "send"
        BY <2>1 DEF Sending
      <4> QED BY <4>1, Zenon
    <3> QED BY <2>1, <3>1, Zenon DEF Sending, TypeOK
  <2>5. InUse' = InUse /\ \A id : UnderWay(id, current)' = UnderWay(id, current)
    BY <2>1, Zenon DEF InUse, UnderWay
  <2> QED BY <2>1, <2>3, <2>4, <2>5, Zenon DEF SentInv
<1>2. CASE SendCall(t)
  <2>1. /\ pc[t] = "send" /\ Send(Request(arg[t].id))
        /\ UNCHANGED <<pool, io, resend, current, stoping, link, toClient>>
    BY <1>2, Zenon DEF SendCall, table, async
  <2>2. arg[t].id \in MessageId
    BY <1>2 DEF SendCall, CallRecord, TypeOK
  <2>3. \A u \in Thread \ {t} : \A id : Sending(u, id) => Sending(u, id)'
    <3>1. CASE Waits(arg[t])
      BY <1>2, <3>1, Zenon DEF SendCall, Sending, TypeOK
    <3>2. CASE ~Waits(arg[t])
      BY <1>2, <3>2, Zenon DEF SendCall, Sending, TypeOK
    <3> QED BY <3>1, <3>2
  <2>4. \A id : Sending(t, id) => Request(arg[t].id) = Request(id)
    BY Zenon DEF Sending
  <2>5. InUse' = InUse
    BY <2>1, Zenon DEF InUse
  <2>6. CASE io \in {"idle", "resend"} /\ InUse
    <3>1. io # "start"
      BY <2>6
    <3>2. \A id : UnderWay(id, current) \/ Request(arg[t].id) = Request(id) => UnderWay(id, current)'
      BY <2>1, <2>2, <2>6, <3>1, SentOn, MessageTypes, Zenon
    <3> QED BY <2>1, <2>3, <2>4, <2>5, <2>6, <3>2, Zenon DEF SentInv
  <2>7. CASE ~(io \in {"idle", "resend"} /\ InUse)
    BY <2>1, <2>5, <2>7, Zenon DEF SentInv
  <2> QED BY <2>6, <2>7
<1>3. CASE Wake(t)
  <2>1. /\ UNCHANGED <<pool, io, resend, current, stoping, link, toServer, toClient>>
        /\ pc[t] = "wait" /\ pc' = [pc EXCEPT ![t] = "idle"] /\ arg' = [arg EXCEPT ![t] = None]
    BY <1>3, Zenon DEF Wake, table, async, streams
  <2>2. "wait" # "send"
    OBVIOUS
  <2>3. \A u \in Thread : \A id : Sending(u, id) => Sending(u, id)'
    BY <2>1, <2>2, Zenon DEF Sending, TypeOK
  <2>4. InUse' = InUse /\ \A id : UnderWay(id, current)' = UnderWay(id, current)
    BY <2>1, Zenon DEF InUse, UnderWay
  <2> QED BY <2>1, <2>3, <2>4, Zenon DEF SentInv
<1>4. CASE disconnect(t)
  <2>1. current # 0 /\ current \in Socket /\ UNCHANGED <<current, io, resend>>
    BY <1>4, CurrentSocket, Zenon DEF disconnect
  <2>2. io = "start" \/ link'[current] \in {"closed", "gone"}
    BY <1>4, <2>1, Zenon DEF disconnect, streams, TypeOK
  <2>3. \A x : x \in {"closed", "gone"} => x \notin {"connecting", "open"}
    OBVIOUS
  <2>4. io = "start" => io \notin {"idle", "resend"}
    OBVIOUS
  <2> QED BY <2>1, <2>2, <2>3, <2>4, Zenon DEF SentInv, InUse
<1> QED BY <1>1, <1>2, <1>3, <1>4

\* A new socket leaves the one in use alone or destroys it.
LEMMA SentFails ==
  ASSUME TypeOK, SentInv, OperationFails \/ \E s \in Socket : ReadFails(s)
  PROVE  SentInv'
<1>1. ASSUME NEW left \in Nat, reconnectOnError(left) PROVE SentInv'
  <2>1. UNCHANGED <<pool, current, stoping, io, resend, pc, arg>>
    BY <1>1, Zenon DEF reconnectOnError, table, calls
  <2>2. CASE isStoped
    <3>1. UNCHANGED <<link, toServer, toClient>>
      BY <1>1, <2>2, Zenon DEF reconnectOnError
    <3> QED BY <2>1, <3>1, SentQuiet, Zenon
  <2>3. CASE ~isStoped
    <3>1. async_connect(left)
      BY <1>1, <2>3, Zenon DEF reconnectOnError
    <3>2. CASE current = socket /\ link'[socket] = "gone"
      <4>1. current # 0
        BY <3>2, IdFacts, SMTT(30)
      <4>2. "gone" \notin {"connecting", "open"}
        OBVIOUS
      <4> QED BY <2>1, <3>2, <4>1, <4>2, Zenon DEF SentInv, InUse
    <3>3. CASE current # socket \/ link'[socket] # "gone"
      <4>1. ASSUME current # 0 PROVE current \in Socket /\ current # socket + 1
        <5>1. current \in 0 .. socket
          BY Zenon DEF TypeOK
        <5>2. current # socket + 1
          BY <5>1, IdFacts, SMTT(30)
        <5> QED BY <4>1, <5>2, CurrentSocket, Zenon
      <4>2. ASSUME current # 0
            PROVE  /\ link'[current] = link[current] /\ toServer'[current] = toServer[current]
                   /\ toClient'[current] = toClient[current]
        BY <3>1, <3>3, <4>1, <4>2, ConnectSteps, Zenon
      <4> QED BY <2>1, <4>2, SentQuiet, Zenon
    <3> QED BY <3>2, <3>3
  <2> QED BY <2>2, <2>3
<1>2. CASE OperationFails
  <2>1. failed - 1 \in Nat
    BY <1>2, SMTT(30) DEF OperationFails, TypeOK
  <2> QED BY <1>1, <1>2, <2>1, Zenon DEF OperationFails
<1>3. ASSUME NEW s \in Socket, ReadFails(s) PROVE SentInv'
  BY <1>1, <1>3, Zenon DEF ReadFails, TypeOK
<1> QED BY <1>2, <1>3

\* onConnect sends what all() gave, message after message.
LEMMA SentConnect ==
  ASSUME TypeOK, SentInv,
         \/ Connected \/ StartConnection \/ SendLogin \/ TakeAll
         \/ \E id \in MessageId : Resend(id)
  PROVE  SentInv'
<1>0. /\ \A x \in {"start", "login", "all"} : x \notin {"idle", "resend"}
      /\ "start" # "login" /\ "start" # "all" /\ "start" # "resend" /\ "idle" # "resend"
      /\ FALSE # TRUE
  OBVIOUS
<1>1. CASE Connected
  <2>1. io' = "start"
    BY <1>1, Zenon DEF Connected
  <2> QED BY <1>0, <2>1, Zenon DEF SentInv
<1>2. CASE StartConnection
  <2>1. io' = "login" /\ ~stoping'
    BY <1>2, Zenon DEF StartConnection
  <2> QED BY <1>0, <2>1, Zenon DEF SentInv
<1>3. CASE SendLogin
  <2>1. io = "login" /\ io' = "all" /\ UNCHANGED <<stoping, current, link>>
    BY <1>3, Zenon DEF SendLogin, async
  <2> QED BY <1>0, <2>1, Zenon DEF SentInv
<1>4. CASE TakeAll
  <2>1. /\ io = "all" /\ resend' = pool /\ pool' = pool
        /\ io' = IF pool = {} THEN "idle" ELSE "resend"
        /\ UNCHANGED <<stoping, current, link>>
    BY <1>4, Zenon DEF TakeAll, async, streams, table
  <2>2. /\ io' = "idle" => pool = {}
        /\ stoping => (current # 0 /\ link[current] \in {"closed", "gone"})
    BY <1>0, <2>1, Zenon DEF SentInv
  <2> QED BY <2>1, <2>2, Zenon DEF SentInv
<1>5. ASSUME NEW d \in MessageId, Resend(d) PROVE SentInv'
  <2>1. /\ io = "resend" /\ Send(Request(d)) /\ resend' = resend \ {d}
        /\ io' = IF resend = {d} THEN "idle" ELSE "resend"
        /\ UNCHANGED <<stoping, current, link, pool, pc, arg, toClient>>
    BY <1>5, Zenon DEF Resend, async, table, calls
  <2>2. /\ io' = "idle" => resend' = {}
        /\ stoping => (current # 0 /\ link[current] \in {"closed", "gone"})
        /\ io # "start" /\ io \in {"idle", "resend"}
    BY <1>0, <2>1, Zenon DEF SentInv
  <2>3. InUse' = InUse /\ \A t, id : Sending(t, id)' = Sending(t, id)
    BY <2>1, Zenon DEF InUse, Sending
  <2>4. CASE InUse
    <3>1. \A id : UnderWay(id, current) \/ Request(d) = Request(id) => UnderWay(id, current)'
      BY <2>1, <2>2, <2>4, SentOn, MessageTypes, Zenon
    <3> QED BY <2>1, <2>2, <2>3, <2>4, <3>1, Zenon DEF SentInv
  <2>5. CASE ~InUse
    BY <2>1, <2>2, <2>3, <2>5, Zenon DEF SentInv
  <2> QED BY <2>4, <2>5
<1> QED BY <1>1, <1>2, <1>3, <1>4, <1>5

\* What is read is a confirmation, or the OK of a publish that leaves the pool.
LEMMA SentRead ==
  ASSUME TypeOK, SentInv, NEW s \in Socket,
         ReadShared(s) \/ RecvLoginConfirm(s) \/ RecvOk(s) \/ RecvUnknownOk(s)
  PROVE  SentInv'
<1>0. /\ \A x \in {"garbled", "dead"} : x \notin {"idle", "resend"}
      /\ "idle" # "start"
  OBVIOUS
<1>1. CASE ReadShared(s)
  <2>1. io = "idle" /\ io' = "garbled" /\ UNCHANGED <<stoping, current, link>>
    BY <1>1, Zenon DEF ReadShared, async, streams
  <2> QED BY <1>0, <2>1, Zenon DEF SentInv
<1>2. CASE RecvUnknownOk(s)
  <2>1. io = "idle" /\ io' = "dead" /\ UNCHANGED <<stoping, current, link>>
    BY <1>2, Zenon DEF RecvUnknownOk, Reading
  <2> QED BY <1>0, <2>1, Zenon DEF SentInv
<1>3. ASSUME Reading(s), io' = io, pool' \subseteq pool,
             \A id \in pool' : toClient[s][1] # Ok(id)
      PROVE  SentInv'
  <2>1. /\ io = "idle"
        /\ UNCHANGED <<stoping, current, link, resend, pc, arg, toServer>>
    BY <1>3, Zenon DEF Reading, calls
  <2>2. InUse' = InUse /\ \A t, id : Sending(t, id)' = Sending(t, id)
    BY <2>1, Zenon DEF InUse, Sending
  <2>3. ASSUME InUse, NEW id \in pool', UnderWay(id, current) PROVE UnderWay(id, current)'
    <3>1. current \in Socket
      BY <2>3, CurrentSocket, Zenon DEF InUse
    <3>2. ASSUME NEW i \in DOMAIN toClient[current], toClient[current][i] = Ok(id)
          PROVE  \E j \in DOMAIN toClient'[current] : toClient'[current][j] = Ok(id)
      <4>1. CASE current # s
        BY <1>3, <3>1, <3>2, <4>1, ReadSteps, Zenon
      <4>2. CASE current = s
        <5>1. i # 1
          BY <1>3, <2>3, <3>2, <4>2, Zenon
        <5>2. i - 1 \in DOMAIN toClient'[s] /\ toClient'[s][i - 1] = toClient[s][i]
          BY <1>3, <3>2, <4>2, <5>1, ReadSteps, Zenon
        <5> QED BY <3>2, <4>2, <5>2, Zenon
      <4> QED BY <4>1, <4>2
    <3> QED BY <2>1, <2>3, <3>2, Zenon DEF UnderWay
  <2> QED BY <1>3, <2>1, <2>2, <2>3, Zenon DEF SentInv
<1>4. CASE RecvLoginConfirm(s)
  <2>1. Reading(s) /\ Head(toClient[s]) = LoginConfirm /\ UNCHANGED <<pool, io>>
    BY <1>4, Zenon DEF RecvLoginConfirm
  <2>2. \A id : LoginConfirm # Ok(id)
    BY SMTT(30) DEF LoginConfirm, Ok
  <2>3. toClient[s][1] = LoginConfirm
    BY <2>1, ReadSteps, Zenon
  <2> QED BY <1>3, <2>1, <2>2, <2>3, Zenon
<1>5. CASE RecvOk(s)
  <2>1. PICK d \in queries : Head(toClient[s]) = Ok(d) /\ pool' = pool \ {d}
    BY <1>5, Zenon DEF RecvOk
  <2>2. Reading(s) /\ io' = io
    BY <1>5, Zenon DEF RecvOk
  <2>3. toClient[s][1] = Ok(d)
    BY <2>1, <2>2, ReadSteps, Zenon
  <2>4. \A id : Ok(d) = Ok(id) => d = id
    BY SMTT(30) DEF Ok
  <2> QED BY <1>3, <2>1, <2>2, <2>3, <2>4, Zenon
<1> QED BY <1>1, <1>2, <1>4, <1>5

\* The server turns a request into its OK; a connection that ends is no longer
\* in use.
LEMMA SentNet ==
  ASSUME TypeOK, SentInv, NEW s \in Socket, Establish(s) \/ Break(s) \/ Serve(s) \/ Lose(s)
  PROVE  SentInv'
<1>0. UNCHANGED <<pool, current, stoping, io, resend, pc, arg>>
  BY Zenon DEF Establish, Break, Serve, Lose, table, calls, async
<1>1. CASE current # s
  <2>1. \A r \in Socket \ {s} : /\ link'[r] = link[r] /\ toServer'[r] = toServer[r]
                                /\ toClient'[r] = toClient[r]
    <3>1. CASE Establish(s)
      BY <3>1, Zenon DEF Establish, TypeOK
    <3>2. CASE Break(s)
      <4>1. /\ failed \in Nat /\ Ends(s, Len(toClient[s]), failed)
            /\ \A r \in Socket \ {s} : link'[r] = link[r]
        BY <3>2, Zenon DEF Break, TypeOK
      <4> QED BY <4>1, EndsSteps, Zenon
    <3>3. CASE Serve(s)
      <4>1. link' = link
        BY <3>3, Zenon DEF Serve
      <4> QED BY <3>3, <4>1, ServeSteps, Zenon
    <3>4. CASE Lose(s)
      BY <3>4, Zenon DEF Lose, TypeOK
    <3> QED BY <3>1, <3>2, <3>3, <3>4
  <2>2. current # 0 => current \in Socket \ {s}
    BY <1>1, CurrentSocket, Zenon
  <2> QED BY <1>0, <2>1, <2>2, SentQuiet, Zenon
<1>2. CASE current = s
  <2>0. /\ \A x \in {"closed", "gone"} : x \notin {"connecting", "open"}
        /\ "open" \in {"connecting", "open"} /\ "connecting" \in {"connecting", "open"}
        /\ "closed" \in {"closed", "gone"}
    OBVIOUS
  <2>1. CASE Establish(s)
    <3>1. link[current] = "connecting" /\ UNCHANGED <<toServer, toClient>>
      BY <1>2, <2>1, Zenon DEF Establish
    <3>2. ~stoping \/ io = "start"
      BY <2>0, <3>1, Zenon DEF SentInv
    <3>3. /\ current # 0 => InUse
      BY <2>0, <3>1, Zenon DEF InUse
    <3>4. \A id : UnderWay(id, current)' = UnderWay(id, current)
      BY <1>0, <3>1, Zenon DEF UnderWay
    <3>5. \A t, id : Sending(t, id)' = Sending(t, id)
      BY <1>0, Zenon DEF Sending
    <3>6. InUse' => current # 0
      BY <1>0, Zenon DEF InUse
    <3> QED BY <1>0, <3>2, <3>3, <3>4, <3>5, <3>6, Zenon DEF SentInv
  <2>2. CASE Break(s)
    <3>1. link'[current] = "closed"
      BY <1>2, <2>2, Zenon DEF Break, TypeOK
    <3>2. ~InUse'
      BY <1>0, <2>0, <3>1, Zenon DEF InUse
    <3>3. stoping => io = "start" \/ current # 0
      BY Zenon DEF SentInv
    <3> QED BY <1>0, <2>0, <3>1, <3>2, <3>3, Zenon DEF SentInv
  <2>3. CASE Lose(s)
    <3>1. link' = link /\ link[current] \in {"closed", "gone"}
      BY <1>2, <2>3, Zenon DEF Lose
    <3>2. ~InUse'
      BY <1>0, <2>0, <3>1, Zenon DEF InUse
    <3> QED BY <1>0, <3>1, <3>2, Zenon DEF SentInv
  <2>4. CASE Serve(s)
    <3>1. link' = link /\ link[current] # "connecting"
      BY <1>2, <2>4, Zenon DEF Serve
    <3>2. InUse' = InUse /\ \A t, id : Sending(t, id)' = Sending(t, id)
      BY <1>0, <3>1, Zenon DEF InUse, Sending
    <3>3. ASSUME InUse, NEW id \in MessageId, UnderWay(id, current) PROVE UnderWay(id, current)'
      <4>1. link[s] = "open"
        BY <1>2, <3>1, <3>3 DEF InUse
      <4>2. \A i \in DOMAIN toClient[s] : i \in DOMAIN toClient'[s] /\ toClient'[s][i] = toClient[s][i]
        BY <2>4, ServeSteps, Zenon
      <4>3. ASSUME NEW i \in DOMAIN toServer[s], toServer[s][i] = Request(id), i # 1
            PROVE  \E j \in DOMAIN toServer'[s] : toServer'[s][j] = Request(id)
        <5>1. i - 1 \in DOMAIN toServer'[s] /\ toServer'[s][i - 1] = toServer[s][i]
          BY <2>4, <4>3, ServeSteps, Zenon
        <5> QED BY <4>3, <5>1, Zenon
      <4>4. toServer[s][1] = Request(id) => \E j \in DOMAIN toClient'[s] : toClient'[s][j] = Ok(id)
        BY <2>4, <4>1, ServeSteps, Zenon
      <4> QED BY <1>0, <1>2, <3>3, <4>2, <4>3, <4>4, Zenon DEF UnderWay
    <3>4. pool \subseteq MessageId
      BY IdFacts, Zenon DEF TypeOK
    <3> QED BY <1>0, <3>1, <3>2, <3>3, <3>4, Zenon DEF SentInv
  <2> QED BY <2>1, <2>2, <2>3, <2>4
<1> QED BY <1>1, <1>2

\* Together.
LEMMA SentStep == TypeOK /\ SentInv /\ [Next]_vars => SentInv'
<1> SUFFICES ASSUME TypeOK, SentInv, [Next]_vars PROVE SentInv'
  OBVIOUS
<1>1. CASE UNCHANGED vars
  <2>1. UNCHANGED <<pool, current, stoping, io, resend, pc, arg, link, toServer, toClient>>
    BY <1>1, Zenon DEF vars, table, calls, async, streams
  <2> QED BY <2>1, SentQuiet, Zenon
<1>2. CASE IoNext
  BY <1>2, SentFails, SentConnect, SentRead, Zenon DEF IoNext
<1> QED BY <1>1, <1>2, SentCall, SentNet, Zenon DEF Next

\* Once onConnect is done, each publish without an OK is under way on the
\* connection in use or about to be sent, however many threads publish while
\* connections break and are made.
THEOREM NothingForgottenAlways == Spec => []NothingForgotten
<1>1. Init => SentInv
  BY DEF Init, SentInv, InUse
<1>2. SentInv => NothingForgotten
  BY Zenon DEF SentInv, NothingForgotten
<1> QED BY <1>1, <1>2, InitType, TypeStep, SentStep, PTL DEF Spec

=============================================================================
