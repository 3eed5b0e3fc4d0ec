--------------------------- MODULE ReconnectProofs ---------------------------
(***************************************************************************)
(* For any number of sockets, and so for any number of failures: a client  *)
(* that reconnects never runs out of events, one that says it is connected *)
(* reads, and there are never more AsyncIO objects than sockets.           *)
(***************************************************************************)
EXTENDS Reconnect, SequenceTheorems, FiniteSetTheorems, TLAPS

\* The prover of a step that names none.
USE ZenonT(30)

Ends == \E S : ready \in Seq(S)

\* The inductive invariant: what is needed besides is that an operation that is
\* aborted is not forgotten, for which there must be finitely many.
LiveInv == IsFiniteSet(ops) /\ Ends /\ NeverGivesUp /\ ConnectedIsRead

\* An order of a finite set has all of its elements, each once.
LEMMA OrderIsComplete ==
  ASSUME NEW S, IsFiniteSet(S), NEW order \in SetToSeqs(S)
  PROVE  /\ order \in Seq(S)
         /\ \A x \in S : \E i \in DOMAIN order : order[i] = x
         /\ \A i, j \in DOMAIN order : order[i] = order[j] => i = j
<1> DEFINE D == 1 .. Cardinality(S)
<1>1. Cardinality(S) \in Nat
  BY FS_CardinalityType
<1>2. order \in [D -> S] /\ \A i, j \in D : i # j => order[i] # order[j]
  BY DEF SetToSeqs
<1>3. order \in Injection(D, S)
  BY <1>2 DEF Injection, IsInjective
<1>4. Cardinality(D) = Cardinality(S)
  BY <1>1, FS_Interval, SMTT(30)
<1>5. order \in Surjection(D, S)
  BY <1>3, <1>4, FS_Injection
<1>6. order \in Seq(S)
  BY <1>1, <1>2, IsASeq, SMTT(30)
<1> QED BY <1>2, <1>5, <1>6 DEF Surjection

\* A step aborts operations that were pending, in this order, and their
\* handlers wait behind those of the operations that had completed.
AbortsIn(order, pending, completed) ==
  /\ order \in Seq(pending \ ops')
  /\ \A o \in pending \ ops' : \E i \in DOMAIN order : order[i] = o
  /\ \A i, j \in DOMAIN order : order[i] = order[j] => i = j
  /\ Len(ready') = Len(completed) + Len(order)
  /\ \A i \in 1 .. Len(completed) : ready'[i] = completed[i]
  /\ \A i \in 1 .. Len(order) :
       ready'[i + Len(completed)] = [op |-> order[i], ok |-> FALSE]

\* At the end of a step each operation on a socket that the step closes
\* completes with an error, after what had completed before.
LEMMA SettleShape ==
  ASSUME NEW states, NEW pending, IsFiniteSet(pending),
         NEW S, NEW completed \in Seq(S), Settle(states, pending, completed)
  PROVE  /\ ops' \subseteq pending /\ IsFiniteSet(ops')
         /\ ready' \in Seq(S \cup {[op |-> o, ok |-> FALSE] : o \in pending})
         /\ \E order : AbortsIn(order, pending, completed)
<1>1. PICK aborted \in SUBSET pending : /\ ops' = pending \ aborted
                                       /\ \E order \in SetToSeqs(aborted) :
           ready' = completed \o [i \in DOMAIN order |-> [op |-> order[i], ok |-> FALSE]]
  BY DEF Settle
<1>2. PICK order \in SetToSeqs(aborted) :
           ready' = completed \o [i \in DOMAIN order |-> [op |-> order[i], ok |-> FALSE]]
  BY <1>1
<1> DEFINE failed == [i \in DOMAIN order |-> [op |-> order[i], ok |-> FALSE]]
           T == S \cup {[op |-> o, ok |-> FALSE] : o \in pending}
<1>3. IsFiniteSet(aborted) /\ IsFiniteSet(ops') /\ aborted = pending \ ops'
  BY <1>1, FS_Subset
<1>4. /\ order \in Seq(aborted) /\ \A o \in aborted : \E i \in DOMAIN order : order[i] = o
      /\ \A i, j \in DOMAIN order : order[i] = order[j] => i = j
  BY <1>3, OrderIsComplete
<1>5. failed \in Seq(T) /\ Len(failed) = Len(order) /\ completed \in Seq(T)
  <2>1. order \in [1 .. Len(order) -> aborted] /\ Len(order) \in Nat
    BY <1>4, LenProperties
  <2>2. failed \in [1 .. Len(order) -> T]
    BY <2>1
  <2>3. completed \in Seq(T)
    BY SeqMonotonic
  <2>4. failed \in Seq(T) /\ DOMAIN failed = 1 .. Len(order)
    <3> HIDE DEF failed, T
    <3>1. DOMAIN failed = 1 .. Len(order)
      BY <2>2
    <3>2. failed \in Seq(T)
      BY <2>1, <2>2, IsASeq, SMTT(30)
    <3> QED BY <3>1, <3>2
  <2>5. Len(failed) = Len(order)
    BY <2>1, <2>4, LenProperties, SMTT(30)
  <2> QED BY <2>3, <2>4, <2>5
<1>6. DOMAIN order = 1 .. Len(order) /\ Len(order) \in Nat /\ Len(completed) \in Nat
  BY <1>4, LenProperties
<1>7. \A i \in 1 .. Len(order) : failed[i] = [op |-> order[i], ok |-> FALSE]
  BY <1>6
<1> HIDE DEF failed, T
<1>8. ready' \in Seq(T) /\ Len(ready') = Len(completed) + Len(order)
      /\ \A i \in 1 .. Len(completed) + Len(order) :
           ready'[i] = IF i <= Len(completed) THEN completed[i] ELSE failed[i - Len(completed)]
  BY <1>2, <1>5, ConcatProperties, SMTT(30) DEF failed
<1>9. \A i \in 1 .. Len(completed) : ready'[i] = completed[i]
  BY <1>6, <1>8, SMTT(30)
<1>10. \A i \in 1 .. Len(order) : ready'[i + Len(completed)] = failed[i]
  BY <1>6, <1>8, SMTT(30)
<1>11. AbortsIn(order, pending, completed)
  BY <1>3, <1>4, <1>7, <1>8, <1>9, <1>10 DEF AbortsIn
<1> QED BY <1>1, <1>3, <1>8, <1>11 DEF T

\* No handler is forgotten.
LEMMA SettleKeeps ==
  ASSUME NEW states, NEW pending, IsFiniteSet(pending),
         NEW S, NEW completed \in Seq(S), Settle(states, pending, completed)
  PROVE  /\ IsFiniteSet(ops') /\ Ends'
         /\ Len(ready') >= Len(completed)
         /\ Handlers(pending, completed) \subseteq Handlers(ops', ready')
<1> DEFINE T == S \cup {[op |-> o, ok |-> FALSE] : o \in pending}
<1>1. IsFiniteSet(ops') /\ ready' \in Seq(T)
  BY SettleShape
<1>2. PICK order : AbortsIn(order, pending, completed)
  BY SettleShape
<1> HIDE DEF T
<1>3. /\ DOMAIN order = 1 .. Len(order) /\ Len(order) \in Nat
      /\ DOMAIN completed = 1 .. Len(completed) /\ Len(completed) \in Nat
      /\ DOMAIN ready' = 1 .. Len(ready')
  BY <1>1, <1>2, LenProperties DEF AbortsIn
<1>4. \A i \in DOMAIN completed : i \in DOMAIN ready' /\ ready'[i] = completed[i]
  BY <1>2, <1>3, SMTT(30) DEF AbortsIn
<1>5. \A i \in DOMAIN order : i + Len(completed) \in DOMAIN ready'
  BY <1>2, <1>3, SMTT(30) DEF AbortsIn
<1>6. \A i \in DOMAIN order : ready'[i + Len(completed)] = [op |-> order[i], ok |-> FALSE]
  BY <1>2, <1>3 DEF AbortsIn
<1>7. Handlers(pending, completed) \subseteq Handlers(ops', ready')
  <2>1. ASSUME NEW i \in DOMAIN completed PROVE completed[i].op \in Handlers(ops', ready')
    BY <1>4, <2>1 DEF Handlers
  <2>2. ASSUME NEW o \in pending \ ops' PROVE o \in Handlers(ops', ready')
    <3>1. PICK i \in DOMAIN order : order[i] = o
      BY <1>2, <2>2 DEF AbortsIn
    <3>2. ready'[i + Len(completed)] = [op |-> o, ok |-> FALSE]
      BY <1>6, <3>1
    <3>3. ready'[i + Len(completed)].op = o
      BY <3>2, SMTT(30)
    <3> QED BY <1>5, <3>1, <3>3 DEF Handlers
  <2> QED BY <2>1, <2>2 DEF Handlers
<1>8. Len(ready') >= Len(completed)
  BY <1>2, <1>3, SMTT(30) DEF AbortsIn
<1> QED BY <1>1, <1>7, <1>8 DEF Ends

-----------------------------------------------------------------------------
\* A step that ends so that something is read or connected, or a handler waits,
\* gives up nothing.
LEMMA SettleLives ==
  ASSUME NEW states, NEW pending, IsFiniteSet(pending),
         NEW S, NEW completed \in Seq(S), Settle(states, pending, completed),
         completed # <<>> \/ \E o \in pending : Reads(o) \/ o.kind = "connect"
  PROVE  NeverGivesUp'
<1>1. Ends' /\ Len(ready') >= Len(completed)
      /\ Handlers(pending, completed) \subseteq Handlers(ops', ready')
  BY SettleKeeps
<1>2. PICK T : ready' \in Seq(T)
  BY <1>1 DEF Ends
<1>3. CASE completed # <<>>
  <2>1. Len(completed) \in Nat /\ Len(completed) # 0
    BY <1>3, EmptySeq, LenProperties
  <2>2. ready' # <<>>
    BY <1>1, <1>2, <2>1, EmptySeq, LenProperties, SMTT(30)
  <2> QED BY <2>2 DEF NeverGivesUp
<1>4. ASSUME NEW o \in pending, Reads(o) \/ o.kind = "connect" PROVE NeverGivesUp'
  <2>1. o \in Handlers(ops', ready')
    BY <1>1, <1>4 DEF Handlers
  <2>2. o \in ops' \/ DOMAIN ready' # {}
    BY <2>1 DEF Handlers
  <2>3. o \in ops' \/ ready' # <<>>
    BY <1>2, <2>2, EmptySeq, LenProperties, SMTT(30)
  <2> QED BY <1>4, <2>3 DEF NeverGivesUp, Reads
<1> QED BY <1>3, <1>4

\* A step that ends with a read of the AsyncIO it leaves in charge, pending or
\* waiting for its handler, keeps a client that is connected informed.
LEMMA SettleReads ==
  ASSUME NEW states, NEW pending, IsFiniteSet(pending),
         NEW S, NEW completed \in Seq(S), Settle(states, pending, completed),
         isConnected' => \E o \in Handlers(pending, completed) : Reads(o) /\ o.by = io'
  PROVE  ConnectedIsRead'
BY SettleKeeps DEF ConnectedIsRead, Reads

\* What a step has to leave pending or completed for the invariant to hold.
LEMMA SettleInv ==
  ASSUME NEW states, NEW pending, IsFiniteSet(pending),
         NEW S, NEW completed \in Seq(S), Settle(states, pending, completed),
         auto' /\ ~isStoped' =>
           completed # <<>> \/ \E o \in pending : Reads(o) \/ o.kind = "connect",
         isConnected' => \E o \in Handlers(pending, completed) : Reads(o) /\ o.by = io'
  PROVE  LiveInv'
<1>1. IsFiniteSet(ops') /\ Ends'
  BY SettleKeeps
<1>2. ConnectedIsRead'
  BY SettleReads
<1>3. NeverGivesUp'
  <2>1. CASE auto' /\ ~isStoped'
    BY <2>1, SettleLives
  <2>2. CASE ~(auto' /\ ~isStoped')
    BY <2>2 DEF NeverGivesUp
  <2> QED BY <2>1, <2>2
<1> QED BY <1>1, <1>2, <1>3 DEF LiveInv

-----------------------------------------------------------------------------
\* The io_service's thread takes the first handler that waits and runs it.
LEMMA HandleLive ==
  ASSUME LiveInv, Handle
  PROVE  LiveInv'
<1>1. PICK S : ready \in Seq(S)
  BY DEF LiveInv, Ends
<1>2. ready # <<>>
  BY DEF Handle, reconnectOnError, HandleConnected
<1>3. Tail(ready) \in Seq(S) /\ IsFiniteSet(ops)
  BY <1>1, <1>2, HeadTailProperties DEF LiveInv
<1>4. CASE reconnectOnError /\ Reconnects
  <2> DEFINE new == Op("connect", 0, socket + 1)
  <2>1. IsFiniteSet(ops \cup {new}) /\ new.kind = "connect" /\ new \in ops \cup {new}
    BY <1>3, FS_AddElement DEF Op
  <2>2. Settle([sock EXCEPT ![socket + 1] = "connecting"], ops \cup {new}, Tail(ready))
        /\ isConnected' = FALSE
    BY <1>4 DEF reconnectOnError, async_connect, AfterError
  <2> HIDE DEF new
  <2> QED BY <1>3, <2>1, <2>2, SettleInv
<1>5. CASE reconnectOnError /\ ~Reconnects
  <2>1. Settle(sock, ops, Tail(ready)) /\ isConnected' = FALSE /\ ~(auto' /\ ~isStoped')
    BY <1>5 DEF reconnectOnError, Reconnects, AfterError
  <2> QED BY <1>3, <2>1, SettleInv
<1>6. CASE HandleConnected
  <2> DEFINE size == Op("size", io + 1, socket)
             pending == ops \cup {size, Op("write", io + 1, socket)}
  <2>1. pending = (ops \cup {size}) \cup {Op("write", io + 1, socket)}
    OBVIOUS
  <2>2. IsFiniteSet(pending)
    BY <1>3, <2>1, FS_AddElement
  <2>3. size \in pending /\ Reads(size) /\ size.by = io'
    BY <1>6 DEF HandleConnected, Op, Reads
  <2>4. Settle(sock, pending, Tail(ready))
    BY <1>6 DEF HandleConnected
  <2>5. size \in Handlers(pending, Tail(ready))
    BY <2>3 DEF Handlers
  <2> HIDE DEF size, pending
  <2> QED BY <1>3, <2>2, <2>3, <2>4, <2>5, SettleInv
<1> QED BY <1>4, <1>5, <1>6 DEF Handle

\* The application writes, or stops the client.
LEMMA ApplicationLive ==
  ASSUME LiveInv, send \/ disconnect
  PROVE  LiveInv'
<1>1. PICK S : ready \in Seq(S)
  BY DEF LiveInv, Ends
<1>2. CASE send
  <2> DEFINE w == Op("write", io, on[io])
  <2>1. IsFiniteSet(ops \cup {w})
    BY FS_AddElement DEF LiveInv
  <2>2. /\ Settle(sock, ops \cup {w}, ready)
        /\ auto' = auto /\ isStoped' = isStoped /\ isConnected' = isConnected /\ io' = io
    BY <1>2 DEF send, client
  <2> HIDE DEF w
  <2>3. Handlers(ops, ready) \subseteq Handlers(ops \cup {w}, ready)
    BY DEF Handlers
  <2>4. auto' /\ ~isStoped' =>
          ready # <<>> \/ \E o \in ops \cup {w} : Reads(o) \/ o.kind = "connect"
    BY <2>2 DEF LiveInv, NeverGivesUp
  <2>5. isConnected' => \E o \in Handlers(ops \cup {w}, ready) : Reads(o) /\ o.by = io'
    BY <2>2, <2>3 DEF LiveInv, ConnectedIsRead
  <2> QED BY <1>1, <2>1, <2>2, <2>4, <2>5, SettleInv
<1>3. CASE disconnect /\ io = 0
  BY <1>3 DEF disconnect, LiveInv, Ends, NeverGivesUp, ConnectedIsRead, Handlers, Reads
<1>4. CASE disconnect /\ io # 0
  <2>1. /\ Settle(full_stop, ops, ready)
        /\ isStoped' = TRUE /\ isConnected' = isConnected /\ io' = io
    BY <1>4 DEF disconnect
  <2>2. isConnected' => \E o \in Handlers(ops, ready) : Reads(o) /\ o.by = io'
    BY <2>1 DEF LiveInv, ConnectedIsRead
  <2>3. IsFiniteSet(ops)
    BY DEF LiveInv
  <2> QED BY <1>1, <2>1, <2>2, <2>3, SettleInv
<1> QED BY <1>2, <1>3, <1>4

\* An operation completes, with or without an error.
LEMMA CompleteLive ==
  ASSUME LiveInv, NEW o \in ops, NEW ok, NEW states, Complete(o, ok, states)
  PROVE  LiveInv'
<1>1. PICK S : ready \in Seq(S)
  BY DEF LiveInv, Ends
<1> DEFINE e == [op |-> o, ok |-> ok]
           T == S \cup {e}
<1>2. Settle(states, ops \ {o}, Append(ready, e)) /\ isConnected' = isConnected /\ io' = io
  BY DEF Complete, client
<1>3. IsFiniteSet(ops \ {o})
  BY FS_RemoveElement DEF LiveInv
<1>4. e.op = o /\ e \in T /\ ready \in Seq(T)
  BY <1>1, SeqMonotonic
<1> HIDE DEF e, T
<1>5. /\ Append(ready, e) \in Seq(T) /\ Len(Append(ready, e)) = Len(ready) + 1
      /\ \A i \in 1 .. Len(ready) : Append(ready, e)[i] = ready[i]
      /\ Append(ready, e)[Len(ready) + 1] = e
  BY <1>4, AppendProperties, SMTT(30)
<1>6. Len(ready) \in Nat /\ DOMAIN ready = 1 .. Len(ready)
      /\ DOMAIN Append(ready, e) = 1 .. Len(ready) + 1
  BY <1>4, <1>5, LenProperties
<1>7. Append(ready, e) # <<>>
  BY <1>4, AppendProperties
<1>8. Handlers(ops, ready) \subseteq Handlers(ops \ {o}, Append(ready, e))
  <2>1. \A i \in DOMAIN ready : i \in DOMAIN Append(ready, e) /\ Append(ready, e)[i] = ready[i]
    BY <1>5, <1>6, SMTT(30)
  <2>2. Len(ready) + 1 \in DOMAIN Append(ready, e) /\ Append(ready, e)[Len(ready) + 1].op = o
    BY <1>4, <1>5, <1>6, SMTT(30)
  <2>3. o \in Handlers(ops \ {o}, Append(ready, e))
    BY <2>2 DEF Handlers
  <2>4. ASSUME NEW i \in DOMAIN ready PROVE ready[i].op \in Handlers(ops \ {o}, Append(ready, e))
    BY <2>1, <2>4 DEF Handlers
  <2> QED BY <2>3, <2>4 DEF Handlers
<1>9. isConnected' => \E p \in Handlers(ops \ {o}, Append(ready, e)) : Reads(p) /\ p.by = io'
  BY <1>2, <1>8 DEF LiveInv, ConnectedIsRead
<1> QED BY <1>2, <1>3, <1>5, <1>7, <1>9, SettleInv

\* A write is done, or a read goes on with the next size or body.
LEMMA GoesLive ==
  ASSUME LiveInv, NEW o \in ops, Goes(o)
  PROVE  LiveInv'
<1>1. PICK S : ready \in Seq(S)
  BY DEF LiveInv, Ends
<1>2. auto' = auto /\ isStoped' = isStoped /\ isConnected' = isConnected /\ io' = io
  BY DEF Goes, client
<1>3. IsFiniteSet(ops \ {o})
  BY FS_RemoveElement DEF LiveInv
<1>4. CASE o.kind = "write" /\ Settle(sock, ops \ {o}, ready)
  <2>1. ~Reads(o) /\ o.kind # "connect"
    BY <1>4 DEF Reads
  <2>2. auto' /\ ~isStoped' =>
          ready # <<>> \/ \E p \in ops \ {o} : Reads(p) \/ p.kind = "connect"
    BY <1>2, <2>1 DEF LiveInv, NeverGivesUp
  <2>3. isConnected' => \E p \in Handlers(ops \ {o}, ready) : Reads(p) /\ p.by = io'
    BY <1>2, <2>1 DEF LiveInv, ConnectedIsRead, Handlers
  <2> QED BY <1>1, <1>3, <1>4, <2>2, <2>3, SettleInv
<1>5. ASSUME NEW k \in {"size", "body"}, Settle(sock, (ops \ {o}) \cup {Op(k, o.by, o.on)}, ready)
      PROVE  LiveInv'
  <2> DEFINE new == Op(k, o.by, o.on)
             pending == (ops \ {o}) \cup {new}
  <2>1. Reads(new) /\ new.by = o.by /\ new \in pending
    BY DEF Op, Reads
  <2>2. IsFiniteSet(pending) /\ Settle(sock, pending, ready)
    BY <1>3, <1>5, FS_AddElement
  <2> HIDE DEF new
  <2>3. isConnected' => \E p \in Handlers(pending, ready) : Reads(p) /\ p.by = io'
    <3>1. new \in Handlers(pending, ready)
      BY <2>1 DEF Handlers
    <3>2. \A p \in Handlers(ops, ready) : p = o \/ p \in Handlers(pending, ready)
      BY DEF Handlers
    <3> QED BY <1>2, <2>1, <3>1, <3>2 DEF LiveInv, ConnectedIsRead
  <2> HIDE DEF pending
  <2> QED BY <1>1, <2>1, <2>2, <2>3, SettleInv
<1> QED BY <1>4, <1>5 DEF Goes

\* Every step keeps the inductive invariant.
LEMMA NextLive == LiveInv /\ [Next]_vars => LiveInv'
<1> SUFFICES ASSUME LiveInv, [Next]_vars PROVE LiveInv'
  OBVIOUS
<1>1. ASSUME UNCHANGED <<auto, isStoped, isConnected, io, ops, ready>> PROVE LiveInv'
  BY <1>1 DEF LiveInv, Ends, NeverGivesUp, ConnectedIsRead, Handlers, Reads
<1>2. CASE UNCHANGED vars
  BY <1>1, <1>2 DEF vars, client
<1>3. ASSUME NEW s \in Socket, Breaks(s) PROVE LiveInv'
  BY <1>1, <1>3 DEF Breaks, client
<1>4. ASSUME NEW o \in ops, Connected(o) \/ Refused(o) \/ Fails(o) PROVE LiveInv'
  BY <1>4, CompleteLive DEF Connected, Refused, Fails
<1> QED BY <1>2, <1>3, <1>4, HandleLive, ApplicationLive, GoesLive DEF Next

\* The client starts with a connect under way.
LEMMA InitLive == Init => LiveInv
<1> SUFFICES ASSUME Init PROVE LiveInv
  OBVIOUS
<1>1. ops = {Op("connect", 0, 1)} /\ ready = <<>> /\ isConnected = FALSE
  BY DEF Init
<1>2. IsFiniteSet({Op("connect", 0, 1)})
  BY FS_Singleton
<1>3. ready \in Seq({})
  BY <1>1, SMTT(30)
<1>4. Op("connect", 0, 1).kind = "connect"
  BY DEF Op
<1>5. NeverGivesUp
  BY <1>1, <1>4 DEF NeverGivesUp
<1> QED BY <1>1, <1>2, <1>3, <1>5 DEF LiveInv, Ends, ConnectedIsRead

\* reconnectOnError starts a connect before the failed operation is forgotten,
\* and closing a socket completes what is pending on it: however many
\* operations fail, in whichever order, there is an event to come.
THEOREM NeverGivesUpAlways == Spec => []NeverGivesUp
<1>1. LiveInv => NeverGivesUp
  BY DEF LiveInv
<1> QED BY InitLive, NextLive, <1>1, PTL DEF Spec

\* The handler of async_connect says that the client is connected and starts
\* the read of the same AsyncIO, and any error says that it is not.
THEOREM ConnectedIsReadAlways == Spec => []ConnectedIsRead
<1>1. LiveInv => ConnectedIsRead
  BY DEF LiveInv
<1> QED BY InitLive, NextLive, <1>1, PTL DEF Spec

-----------------------------------------------------------------------------
(* Types: there are never more AsyncIO objects than sockets. *)

Connects(o) == o.kind = "connect"

Entry == [op : Operation, ok : BOOLEAN]

States == [Socket -> {"none", "connecting", "open", "broken", "closed"}]

\* A socket is connected once: its connect is pending, or its handler waits, in
\* one place; and only a connect that succeeded waits without an error.
ConnectsOnce(pending, completed) ==
  /\ \A i \in DOMAIN completed : completed[i].ok => Connects(completed[i].op)
  /\ \A i, j \in DOMAIN completed :
       Connects(completed[i].op) /\ completed[i].op = completed[j].op => i = j
  /\ \A i \in DOMAIN completed : Connects(completed[i].op) => completed[i].op \notin pending

\* The handlers of a connect are those of sockets up to newest outside of done.
ConnectsOn(newest, done, handlers) ==
  \A o \in handlers : Connects(o) => o = Op("connect", 0, o.on) /\ o.on \in (1 .. newest) \ done

\* These sockets were connected and each brought an AsyncIO.
Counted(newest, done, number) == done \subseteq 1 .. newest /\ Cardinality(done) = number

\* The inductive invariant.
SocketInv ==
  /\ IsFiniteSet(ops)
  /\ TypeOK
  /\ ConnectsOnce(ops, ready)
  /\ \E done : Counted(socket, done, io) /\ ConnectsOn(socket, done, Handlers(ops, ready))

\* A step neither makes nor repeats a handler by aborting operations.
LEMMA SettleOnce ==
  ASSUME NEW states \in States, NEW pending \in SUBSET Operation, IsFiniteSet(pending),
         NEW completed \in Seq(Entry), Settle(states, pending, completed),
         ConnectsOnce(pending, completed)
  PROVE  /\ sock' \in States /\ ops' \in SUBSET Operation /\ IsFiniteSet(ops')
         /\ ready' \in Seq(Entry)
         /\ ConnectsOnce(ops', ready')
         /\ Handlers(ops', ready') \subseteq Handlers(pending, completed)
<1>1. sock' \in States
  BY DEF Settle, States
<1>2. ops' \subseteq pending /\ IsFiniteSet(ops')
  BY SettleShape
<1>3. ready' \in Seq(Entry)
  <2>1. \A o \in pending : [op |-> o, ok |-> FALSE] \in Entry
    BY DEF Entry
  <2>2. ready' \in Seq(Entry \cup {[op |-> o, ok |-> FALSE] : o \in pending})
    BY SettleShape
  <2>3. Entry \cup {[op |-> o, ok |-> FALSE] : o \in pending} = Entry
    BY <2>1
  <2> QED BY <2>2, <2>3
<1>4. PICK order : AbortsIn(order, pending, completed)
  BY SettleShape
<1> DEFINE n == Len(completed)
<1>5. /\ n \in Nat /\ DOMAIN completed = 1 .. n
      /\ Len(order) \in Nat /\ DOMAIN order = 1 .. Len(order)
      /\ \A i \in 1 .. Len(order) : order[i] \in pending \ ops'
      /\ DOMAIN ready' = 1 .. n + Len(order)
  BY <1>3, <1>4, LenProperties, ElementOfSeq DEF AbortsIn
<1>6. ASSUME NEW k \in DOMAIN ready'
      PROVE  \/ k \in DOMAIN completed /\ ready'[k] = completed[k]
             \/ /\ k - n \in DOMAIN order /\ ~ready'[k].ok
                /\ ready'[k].op = order[k - n] /\ order[k - n] \in pending \ ops'
  <2>1. CASE k <= n
    BY <1>4, <1>5, <2>1, SMTT(30) DEF AbortsIn
  <2>2. CASE k > n
    <3> HIDE DEF n
    <3>1. k - n \in 1 .. Len(order) /\ k = (k - n) + n
      BY <1>5, <2>2, SMTT(30)
    <3>2. ready'[(k - n) + n] = [op |-> order[k - n], ok |-> FALSE]
      BY <1>4, <3>1 DEF AbortsIn, n
    <3>3. ready'[k].op = order[k - n] /\ ~ready'[k].ok
      BY <3>1, <3>2, SMTT(30)
    <3> QED BY <1>5, <3>1, <3>3
  <2> QED BY <1>5, <2>1, <2>2, SMTT(30)
<1>7. ASSUME NEW k \in DOMAIN ready', NEW l \in DOMAIN ready',
             Connects(ready'[k].op), ready'[k].op = ready'[l].op
      PROVE  k = l
  <2>1. CASE k \in DOMAIN completed /\ ready'[k] = completed[k]
             /\ l \in DOMAIN completed /\ ready'[l] = completed[l]
    BY <1>7, <2>1 DEF ConnectsOnce
  <2>2. CASE k - n \in DOMAIN order /\ ready'[k].op = order[k - n]
             /\ l - n \in DOMAIN order /\ ready'[l].op = order[l - n]
    <3>1. k - n = l - n
      BY <1>4, <1>7, <2>2 DEF AbortsIn
    <3>2. k \in Nat /\ l \in Nat
      BY <1>5, SMTT(30)
    <3> HIDE DEF n
    <3> QED BY <1>5, <3>1, <3>2, SMTT(30)
  <2>3. ASSUME NEW i \in DOMAIN completed, Connects(completed[i].op) PROVE completed[i].op \notin pending
    BY <2>3 DEF ConnectsOnce
  <2> QED BY <1>6, <1>7, <2>1, <2>2, <2>3
<1>8. ASSUME NEW k \in DOMAIN ready'
      PROVE  /\ ready'[k].ok => Connects(ready'[k].op)
             /\ Connects(ready'[k].op) => ready'[k].op \notin ops'
             /\ ready'[k].op \in Handlers(pending, completed)
  BY <1>2, <1>6, <1>8 DEF ConnectsOnce, Handlers
<1>9. ConnectsOnce(ops', ready')
  BY <1>7, <1>8 DEF ConnectsOnce
<1>10. Handlers(ops', ready') \subseteq Handlers(pending, completed)
  BY <1>2, <1>8 DEF Handlers
<1> QED BY <1>1, <1>2, <1>3, <1>9, <1>10

\* Distinct sockets were connected: they are at most as many as there are.
LEMMA CountedBound ==
  ASSUME NEW newest \in Nat, NEW done, NEW number, Counted(newest, done, number)
  PROVE  IsFiniteSet(done) /\ number \in 0 .. newest
<1>1. IsFiniteSet(1 .. newest) /\ Cardinality(1 .. newest) = newest
  BY FS_Interval, SMTT(30)
<1>2. IsFiniteSet(done) /\ Cardinality(done) <= Cardinality(1 .. newest)
  BY <1>1, FS_Subset DEF Counted
<1>3. Cardinality(done) \in Nat
  BY <1>2, FS_CardinalityType
<1>4. number = Cardinality(done)
  BY DEF Counted
<1> QED BY <1>1, <1>2, <1>3, <1>4, SMTT(30)

\* What a step has to leave for the invariant to hold.
LEMMA SettleSockets ==
  ASSUME NEW states \in States, NEW pending \in SUBSET Operation, IsFiniteSet(pending),
         NEW completed \in Seq(Entry), Settle(states, pending, completed),
         ConnectsOnce(pending, completed),
         NEW done, Counted(socket', done, io'),
         ConnectsOn(socket', done, Handlers(pending, completed)),
         socket' \in Socket, on' \in [1 .. io' -> 1 .. socket'], stoping' \subseteq 1 .. io',
         auto' \in BOOLEAN, isConnected' \in BOOLEAN, isStoped' \in BOOLEAN, crashed' \in BOOLEAN
  PROVE  SocketInv'
<1>1. /\ sock' \in States /\ ops' \in SUBSET Operation /\ IsFiniteSet(ops')
      /\ ready' \in Seq(Entry)
      /\ ConnectsOnce(ops', ready')
      /\ Handlers(ops', ready') \subseteq Handlers(pending, completed)
  BY SettleOnce
<1>2. socket' \in Nat
  BY ReconnectAssumption, SMTT(30) DEF Socket
<1>3. io' \in 0 .. socket'
  BY <1>2, CountedBound
<1>4. TypeOK'
  BY <1>1, <1>3 DEF TypeOK, States, Entry, Socket, Operation
<1>5. ConnectsOn(socket', done, Handlers(ops', ready'))
  BY <1>1 DEF ConnectsOn
<1> QED BY <1>1, <1>4, <1>5 DEF SocketInv, ConnectsOnce, Connects, Counted, ConnectsOn, Handlers, Op

-----------------------------------------------------------------------------
\* The handlers without the one of the operation that completed first.
LEMMA TailOnce ==
  ASSUME NEW pending, ready \in Seq(Entry), ready # <<>>, ConnectsOnce(pending, ready)
  PROVE  /\ Tail(ready) \in Seq(Entry) /\ Head(ready) \in Entry
         /\ ConnectsOnce(pending, Tail(ready))
         /\ Handlers(pending, Tail(ready)) \subseteq Handlers(pending, ready)
         /\ Head(ready).op \in Handlers(pending, ready)
         /\ Head(ready).ok => Connects(Head(ready).op)
         /\ Connects(Head(ready).op) => Head(ready).op \notin Handlers(pending, Tail(ready))
<1>1. /\ Tail(ready) \in Seq(Entry) /\ Head(ready) \in Entry
      /\ Len(Tail(ready)) = Len(ready) - 1
      /\ \A i \in 1 .. Len(Tail(ready)) : Tail(ready)[i] = ready[i + 1]
  BY HeadTailProperties
<1>2. /\ Len(ready) \in Nat \ {0} /\ DOMAIN ready = 1 .. Len(ready)
      /\ DOMAIN Tail(ready) = 1 .. Len(ready) - 1
  BY <1>1, EmptySeq, LenProperties
<1>3. 1 \in DOMAIN ready /\ Head(ready) = ready[1]
  BY <1>2, SMTT(30)
<1>4. ASSUME NEW i \in DOMAIN Tail(ready)
      PROVE  i + 1 \in DOMAIN ready /\ i + 1 # 1 /\ i \in Nat
  BY <1>2, <1>4, SMTT(30)
<1>5. \A i \in DOMAIN Tail(ready) : Tail(ready)[i] = ready[i + 1]
  BY <1>1, <1>2
<1>6. \A i, j \in DOMAIN Tail(ready) : i + 1 = j + 1 => i = j
  BY <1>4, SMTT(30)
<1>7. ConnectsOnce(pending, Tail(ready))
  BY <1>4, <1>5, <1>6 DEF ConnectsOnce
<1>8. \A i \in DOMAIN Tail(ready) : Tail(ready)[i].op \in Handlers(pending, ready)
  BY <1>4, <1>5 DEF Handlers
<1>9. ASSUME Connects(ready[1].op) PROVE ready[1].op \notin Handlers(pending, Tail(ready))
  <2>1. ready[1].op \notin pending
    BY <1>3, <1>9 DEF ConnectsOnce
  <2>2. ASSUME NEW i \in DOMAIN Tail(ready) PROVE Tail(ready)[i].op # ready[1].op
    BY <1>3, <1>4, <1>5, <1>9 DEF ConnectsOnce
  <2> QED BY <2>1, <2>2 DEF Handlers
<1>10. Handlers(pending, Tail(ready)) \subseteq Handlers(pending, ready)
  BY <1>8 DEF Handlers
<1>11. ready[1].op \in Handlers(pending, ready) /\ (ready[1].ok => Connects(ready[1].op))
  BY <1>3 DEF Handlers, ConnectsOnce
<1> QED BY <1>1, <1>3, <1>7, <1>9, <1>10, <1>11

\* An operation that is not a connect makes no difference.
LEMMA PendingOnce ==
  ASSUME NEW pending, NEW more, NEW completed, NEW newest, NEW done,
         ConnectsOnce(pending, completed), ConnectsOn(newest, done, Handlers(pending, completed)),
         \A o \in more : ~Connects(o) \/ o \in pending
  PROVE  ConnectsOnce(more, completed) /\ ConnectsOn(newest, done, Handlers(more, completed))
BY DEF ConnectsOnce, ConnectsOn, Handlers

\* reconnectOnError: a connect on a new socket, or nothing.
LEMMA ErrorSockets ==
  ASSUME SocketInv, reconnectOnError
  PROVE  SocketInv'
<1>1. PICK done : Counted(socket, done, io) /\ ConnectsOn(socket, done, Handlers(ops, ready))
  BY DEF SocketInv
<1>2. /\ IsFiniteSet(ops) /\ ops \in SUBSET Operation /\ ready \in Seq(Entry) /\ ready # <<>>
      /\ ConnectsOnce(ops, ready) /\ sock \in States
      /\ socket \in Socket /\ on \in [1 .. io -> 1 .. socket] /\ stoping \subseteq 1 .. io
      /\ auto \in BOOLEAN /\ isStoped \in BOOLEAN /\ crashed \in BOOLEAN
  BY DEF SocketInv, TypeOK, Entry, States, reconnectOnError
<1>3. /\ io' = io /\ on' = on /\ stoping' = stoping /\ isConnected' = FALSE
      /\ auto' = auto /\ isStoped' = isStoped /\ crashed' = crashed
  BY DEF reconnectOnError, AfterError
<1>4. /\ Tail(ready) \in Seq(Entry) /\ ConnectsOnce(ops, Tail(ready))
      /\ Handlers(ops, Tail(ready)) \subseteq Handlers(ops, ready)
  BY <1>2, TailOnce
<1>5. ConnectsOn(socket, done, Handlers(ops, Tail(ready)))
  BY <1>1, <1>4 DEF ConnectsOn
<1>6. CASE Reconnects
  <2> DEFINE new == Op("connect", 0, socket + 1)
             states == [sock EXCEPT ![socket + 1] = "connecting"]
  <2>1. /\ socket < MaxSockets /\ socket' = socket + 1
        /\ Settle(states, ops \cup {new}, Tail(ready))
    BY <1>6 DEF reconnectOnError, async_connect
  <2>2. /\ socket + 1 \in Socket /\ socket + 1 \notin 1 .. socket
        /\ 1 .. socket \subseteq 1 .. socket + 1 /\ socket + 1 \in 1 .. socket + 1
    BY <1>2, <2>1, ReconnectAssumption, SMTT(30) DEF Socket
  <2>3. new \in Operation /\ Connects(new) /\ new.on = socket + 1 /\ new = Op("connect", 0, new.on)
    BY <2>2, ReconnectAssumption, SMTT(30) DEF Op, Operation, Connects
  <2>4. states \in States
    BY <1>2, <2>2 DEF States
  <2> HIDE DEF new, states
  <2>5. new \notin Handlers(ops, Tail(ready))
    BY <1>5, <2>2, <2>3 DEF ConnectsOn
  <2>6. ConnectsOnce(ops \cup {new}, Tail(ready))
    BY <1>4, <2>5 DEF ConnectsOnce, Handlers
  <2>7. Counted(socket', done, io')
    BY <1>1, <1>3, <2>1, <2>2 DEF Counted
  <2>8. ConnectsOn(socket', done, Handlers(ops \cup {new}, Tail(ready)))
    BY <1>1, <1>5, <2>1, <2>2, <2>3 DEF ConnectsOn, Handlers, Counted
  <2>9. ops \cup {new} \in SUBSET Operation /\ IsFiniteSet(ops \cup {new})
    BY <1>2, <2>3, FS_AddElement
  <2>10. socket' \in Socket /\ on' \in [1 .. io' -> 1 .. socket'] /\ stoping' \subseteq 1 .. io'
    BY <1>2, <1>3, <2>1, <2>2
  <2> QED BY <1>2, <1>3, <1>4, <2>1, <2>4, <2>6, <2>7, <2>8, <2>9, <2>10, SettleSockets
<1>7. CASE ~Reconnects
  <2>1. socket' = socket /\ Settle(sock, ops, Tail(ready))
    BY <1>7 DEF reconnectOnError
  <2> QED BY <1>1, <1>2, <1>3, <1>4, <1>5, <2>1, SettleSockets
<1> QED BY <1>6, <1>7

\* The handler of async_connect: the socket it was for was not counted yet.
LEMMA ConnectedSockets ==
  ASSUME SocketInv, HandleConnected
  PROVE  SocketInv'
<1>1. PICK done : Counted(socket, done, io) /\ ConnectsOn(socket, done, Handlers(ops, ready))
  BY DEF SocketInv
<1>2. /\ IsFiniteSet(ops) /\ ops \in SUBSET Operation /\ ready \in Seq(Entry) /\ ready # <<>>
      /\ ConnectsOnce(ops, ready) /\ sock \in States
      /\ socket \in Socket /\ on \in [1 .. io -> 1 .. socket] /\ stoping \subseteq 1 .. io
      /\ auto \in BOOLEAN /\ isStoped \in BOOLEAN /\ crashed \in BOOLEAN /\ io \in 0 .. socket
  BY DEF SocketInv, TypeOK, Entry, States, HandleConnected
<1> DEFINE o == Head(ready).op
           counted == done \cup {o.on}
           size == Op("size", io + 1, socket)
           write == Op("write", io + 1, socket)
           pending == (ops \cup {size}) \cup {write}
<1>3. /\ io' = io + 1 /\ on' = Append(on, socket) /\ stoping' = stoping /\ isConnected' = TRUE
      /\ auto' = auto /\ isStoped' = isStoped /\ crashed' = crashed /\ socket' = socket
      /\ Settle(sock, pending, Tail(ready)) /\ Head(ready).ok
  <2>1. pending = ops \cup {size, write}
    OBVIOUS
  <2> QED BY <2>1 DEF HandleConnected
<1>4. /\ Tail(ready) \in Seq(Entry) /\ ConnectsOnce(ops, Tail(ready))
      /\ Handlers(ops, Tail(ready)) \subseteq Handlers(ops, ready)
      /\ o \in Handlers(ops, ready) /\ Connects(o) /\ o \notin Handlers(ops, Tail(ready))
  BY <1>2, <1>3, TailOnce
<1> HIDE DEF o
<1>5. o = Op("connect", 0, o.on) /\ o.on \in (1 .. socket) \ done
  BY <1>1, <1>4 DEF ConnectsOn
<1>6. socket \in Nat /\ io \in Nat
  BY <1>2, ReconnectAssumption, SMTT(30) DEF Socket
<1>7. Counted(socket, counted, io + 1)
  <2>1. IsFiniteSet(done)
    BY <1>1, <1>6, CountedBound
  <2>2. Cardinality(counted) = Cardinality(done) + 1
    BY <1>5, <2>1, FS_AddElement
  <2> QED BY <1>1, <1>5, <2>2 DEF Counted
<1>8. io + 1 \in 0 .. socket
  <2> HIDE DEF counted
  <2> QED BY <1>6, <1>7, CountedBound
<1>9. size \in Operation /\ write \in Operation /\ ~Connects(size) /\ ~Connects(write)
  BY <1>2, <1>6, <1>8, ReconnectAssumption, SMTT(30) DEF Op, Operation, Connects, Socket
<1> HIDE DEF size, write
<1>10. pending \in SUBSET Operation /\ IsFiniteSet(pending)
  BY <1>2, <1>9, FS_AddElement
<1>11. ConnectsOn(socket, counted, Handlers(ops, Tail(ready)))
  <2>1. ASSUME NEW p \in Handlers(ops, Tail(ready)), Connects(p)
        PROVE  p = Op("connect", 0, p.on) /\ p.on \in (1 .. socket) \ counted
    <3>1. p = Op("connect", 0, p.on) /\ p.on \in (1 .. socket) \ done
      BY <1>1, <1>4, <2>1 DEF ConnectsOn
    <3>2. p.on # o.on
      BY <1>4, <1>5, <2>1, <3>1
    <3> QED BY <3>1, <3>2
  <2> QED BY <2>1 DEF ConnectsOn
<1>12. ConnectsOnce(pending, Tail(ready)) /\ ConnectsOn(socket, counted, Handlers(pending, Tail(ready)))
  <2> HIDE DEF counted
  <2>1. \A p \in pending : ~Connects(p) \/ p \in ops
    BY <1>9
  <2> HIDE DEF pending
  <2> QED BY <1>4, <1>11, <2>1, PendingOnce
<1>13. on' \in [1 .. io' -> 1 .. socket'] /\ stoping' \subseteq 1 .. io'
  <2>1. on \in Seq(1 .. socket) /\ Len(on) = io /\ socket \in 1 .. socket
    BY <1>2, <1>6, IsASeq, LenProperties, SMTT(30) DEF Socket
  <2>2. Append(on, socket) \in Seq(1 .. socket) /\ Len(Append(on, socket)) = io + 1
    BY <2>1, AppendProperties
  <2>3. Append(on, socket) \in [1 .. io + 1 -> 1 .. socket]
    BY <2>2, LenProperties
  <2>4. 1 .. io \subseteq 1 .. io + 1
    BY <1>6, SMTT(30)
  <2> QED BY <1>2, <1>3, <2>3, <2>4
<1> HIDE DEF pending, counted
<1> QED BY <1>2, <1>3, <1>4, <1>7, <1>10, <1>12, <1>13, SettleSockets

\* A step that leaves the handlers as they are.
LEMMA SameHandlers ==
  ASSUME SocketInv, UNCHANGED <<socket, io, ops, ready>>, TypeOK'
  PROVE  SocketInv'
<1>1. /\ ConnectsOnce(ops', ready')
      /\ \E done : Counted(socket', done, io') /\ ConnectsOn(socket', done, Handlers(ops', ready'))
  BY DEF SocketInv
<1> QED BY <1>1 DEF SocketInv, ConnectsOnce, Connects, Counted, ConnectsOn, Handlers, Op

\* A step that leaves the client as it is, but for what it adds to stoping.
LEMMA SameClientSockets ==
  ASSUME SocketInv, NEW states \in States, NEW pending \in SUBSET Operation, IsFiniteSet(pending),
         NEW completed \in Seq(Entry), Settle(states, pending, completed),
         ConnectsOnce(pending, completed),
         \A p \in Handlers(pending, completed) : ~Connects(p) \/ p \in Handlers(ops, ready),
         UNCHANGED <<auto, isConnected, socket, io, on, crashed>>, isStoped' \in BOOLEAN,
         stoping' \subseteq 1 .. io
  PROVE  SocketInv'
<1>1. PICK done : Counted(socket, done, io) /\ ConnectsOn(socket, done, Handlers(ops, ready))
  BY DEF SocketInv
<1>2. /\ socket \in Socket /\ on \in [1 .. io -> 1 .. socket]
      /\ auto \in BOOLEAN /\ isConnected \in BOOLEAN /\ crashed \in BOOLEAN
  BY DEF SocketInv, TypeOK
<1>3. ConnectsOn(socket, done, Handlers(pending, completed))
  BY <1>1 DEF ConnectsOn
<1> QED BY <1>1, <1>2, <1>3, SettleSockets

\* Client::send starts a write.
LEMMA SendSockets ==
  ASSUME SocketInv, send
  PROVE  SocketInv'
<1> DEFINE w == Op("write", io, on[io])
<1>1. /\ IsFiniteSet(ops) /\ ops \in SUBSET Operation /\ ready \in Seq(Entry)
      /\ ConnectsOnce(ops, ready) /\ sock \in States
      /\ socket \in Socket /\ on \in [1 .. io -> 1 .. socket] /\ stoping \subseteq 1 .. io
      /\ isStoped \in BOOLEAN /\ io \in 0 .. socket /\ io # 0
  BY DEF SocketInv, TypeOK, Entry, States, send
<1>2. /\ Settle(sock, ops \cup {w}, ready)
      /\ UNCHANGED <<auto, isConnected, socket, io, on, crashed>>
      /\ isStoped' = isStoped /\ stoping' = stoping
  BY DEF send, client
<1>3. io \in 1 .. io /\ io \in 0 .. MaxSockets /\ 1 .. socket \subseteq Socket
  BY <1>1, ReconnectAssumption, SMTT(30) DEF Socket
<1>4. w \in Operation /\ ~Connects(w)
  BY <1>1, <1>3, SMTT(30) DEF Op, Operation, Connects
<1> HIDE DEF w
<1>5. ops \cup {w} \in SUBSET Operation /\ IsFiniteSet(ops \cup {w})
  BY <1>1, <1>4, FS_AddElement
<1>6. ConnectsOnce(ops \cup {w}, ready)
      /\ \A p \in Handlers(ops \cup {w}, ready) : ~Connects(p) \/ p \in Handlers(ops, ready)
  BY <1>1, <1>4 DEF ConnectsOnce, Handlers
<1> QED BY <1>1, <1>2, <1>5, <1>6, SameClientSockets

\* disconnect stops the newest AsyncIO, or fails for want of one.
LEMMA DisconnectSockets ==
  ASSUME SocketInv, disconnect
  PROVE  SocketInv'
<1>1. /\ IsFiniteSet(ops) /\ ops \in SUBSET Operation /\ ready \in Seq(Entry)
      /\ ConnectsOnce(ops, ready) /\ sock \in States
      /\ socket \in Socket /\ on \in [1 .. io -> 1 .. socket] /\ stoping \subseteq 1 .. io
      /\ io \in 0 .. socket
  BY DEF SocketInv, TypeOK, Entry, States
<1>2. CASE io = 0
  <2>1. TypeOK' /\ UNCHANGED <<socket, io, ops, ready>>
    BY <1>2 DEF disconnect, SocketInv, TypeOK, Socket, Operation
  <2> QED BY <2>1, SameHandlers
<1>3. CASE io # 0
  <2>1. /\ Settle(full_stop, ops, ready) /\ isStoped' = TRUE /\ stoping' = stoping \cup {io}
        /\ UNCHANGED <<auto, isConnected, socket, io, on, crashed>>
    BY <1>3 DEF disconnect
  <2>2. io \in 1 .. io /\ 1 .. socket \subseteq Socket
    BY <1>1, <1>3, ReconnectAssumption, SMTT(30) DEF Socket
  <2>3. full_stop \in States /\ stoping' \subseteq 1 .. io
    BY <1>1, <2>1, <2>2 DEF full_stop, States
  <2> QED BY <1>1, <2>1, <2>3, SameClientSockets
<1> QED BY <1>2, <1>3

\* An operation completes, a connect with or without an error and any other
\* one with an error.
LEMMA CompleteSockets ==
  ASSUME SocketInv, NEW o \in ops, NEW ok \in BOOLEAN, NEW states \in States,
         Complete(o, ok, states), ok => Connects(o)
  PROVE  SocketInv'
<1> DEFINE e == [op |-> o, ok |-> ok]
           completed == Append(ready, e)
<1>1. /\ IsFiniteSet(ops) /\ ops \in SUBSET Operation /\ ready \in Seq(Entry)
      /\ ConnectsOnce(ops, ready) /\ isStoped \in BOOLEAN /\ stoping \subseteq 1 .. io
  BY DEF SocketInv, TypeOK, Entry
<1>2. /\ Settle(states, ops \ {o}, completed)
      /\ UNCHANGED <<auto, isConnected, socket, io, on, crashed>>
      /\ isStoped' = isStoped /\ stoping' = stoping
  BY DEF Complete, client
<1>3. e \in Entry /\ e.op = o /\ e.ok = ok
  BY <1>1 DEF Entry
<1> HIDE DEF e
<1>4. /\ completed \in Seq(Entry) /\ Len(completed) = Len(ready) + 1
      /\ \A i \in 1 .. Len(ready) : completed[i] = ready[i]
      /\ completed[Len(ready) + 1] = e
  BY <1>1, <1>3, AppendProperties, SMTT(30)
<1>5. /\ Len(ready) \in Nat /\ DOMAIN ready = 1 .. Len(ready)
      /\ DOMAIN completed = 1 .. Len(ready) + 1
  BY <1>1, <1>4, LenProperties
<1> HIDE DEF completed
<1>6. ASSUME NEW i \in DOMAIN completed
      PROVE  \/ i \in DOMAIN ready /\ completed[i] = ready[i]
             \/ i = Len(ready) + 1 /\ completed[i] = e
  BY <1>4, <1>5, <1>6, SMTT(30)
<1>7. ASSUME NEW i \in DOMAIN ready, Connects(ready[i].op) PROVE ready[i].op # o
  BY <1>1, <1>7 DEF ConnectsOnce
<1>8. ConnectsOnce(ops \ {o}, completed)
  <2>1. ASSUME NEW i \in DOMAIN completed
        PROVE  /\ completed[i].ok => Connects(completed[i].op)
               /\ Connects(completed[i].op) => completed[i].op \notin ops \ {o}
    BY <1>1, <1>3, <1>6, <2>1 DEF ConnectsOnce
  <2>2. ASSUME NEW i \in DOMAIN completed, NEW j \in DOMAIN completed,
               Connects(completed[i].op), completed[i].op = completed[j].op
        PROVE  i = j
    BY <1>1, <1>3, <1>6, <1>7, <2>2 DEF ConnectsOnce
  <2> QED BY <2>1, <2>2 DEF ConnectsOnce
<1>9. \A p \in Handlers(ops \ {o}, completed) : p \in Handlers(ops, ready)
  <2>1. \A i \in DOMAIN completed : completed[i].op \in Handlers(ops, ready)
    BY <1>3, <1>6 DEF Handlers
  <2> QED BY <2>1 DEF Handlers
<1>10. ops \ {o} \in SUBSET Operation /\ IsFiniteSet(ops \ {o})
  BY <1>1, FS_RemoveElement
<1> QED BY <1>1, <1>2, <1>4, <1>8, <1>9, <1>10, SameClientSockets

\* A write is done, or a read goes on with the next size or body.
LEMMA GoesSockets ==
  ASSUME SocketInv, NEW o \in ops, Goes(o)
  PROVE  SocketInv'
<1>1. /\ IsFiniteSet(ops) /\ ops \in SUBSET Operation /\ ready \in Seq(Entry) /\ sock \in States
      /\ ConnectsOnce(ops, ready) /\ isStoped \in BOOLEAN /\ stoping \subseteq 1 .. io
  BY DEF SocketInv, TypeOK, Entry, States
<1>2. /\ UNCHANGED <<auto, isConnected, socket, io, on, crashed>>
      /\ isStoped' = isStoped /\ stoping' = stoping
  BY DEF Goes, client
<1>3. ops \ {o} \in SUBSET Operation /\ IsFiniteSet(ops \ {o})
  BY <1>1, FS_RemoveElement
<1>4. CASE Settle(sock, ops \ {o}, ready)
  <2>1. ConnectsOnce(ops \ {o}, ready)
        /\ \A p \in Handlers(ops \ {o}, ready) : ~Connects(p) \/ p \in Handlers(ops, ready)
    BY <1>1 DEF ConnectsOnce, Handlers
  <2> QED BY <1>1, <1>2, <1>3, <1>4, <2>1, SameClientSockets
<1>5. ASSUME NEW k \in {"size", "body"}, Settle(sock, (ops \ {o}) \cup {Op(k, o.by, o.on)}, ready)
      PROVE  SocketInv'
  <2> DEFINE new == Op(k, o.by, o.on)
             pending == (ops \ {o}) \cup {new}
  <2>1. new \in Operation /\ ~Connects(new)
    BY <1>1, SMTT(30) DEF Op, Operation, Connects
  <2> HIDE DEF new
  <2>2. pending \in SUBSET Operation /\ IsFiniteSet(pending)
    BY <1>3, <2>1, FS_AddElement
  <2>3. ConnectsOnce(pending, ready)
        /\ \A p \in Handlers(pending, ready) : ~Connects(p) \/ p \in Handlers(ops, ready)
    BY <1>1, <2>1 DEF ConnectsOnce, Handlers
  <2>4. Settle(sock, pending, ready)
    BY <1>5 DEF new
  <2> HIDE DEF pending
  <2> QED BY <1>1, <1>2, <2>2, <2>3, <2>4, SameClientSockets
<1> QED BY <1>4, <1>5 DEF Goes

\* Every step keeps the inductive invariant.
LEMMA NextSockets == SocketInv /\ [Next]_vars => SocketInv'
<1> SUFFICES ASSUME SocketInv, [Next]_vars PROVE SocketInv'
  OBVIOUS
<1>1. TypeOK /\ sock \in States
  BY DEF SocketInv, TypeOK, States
<1>2. CASE UNCHANGED vars
  <2>1. TypeOK' /\ UNCHANGED <<socket, io, ops, ready>>
    BY <1>1, <1>2 DEF vars, client, TypeOK, Socket, Operation
  <2> QED BY <2>1, SameHandlers
<1>3. ASSUME NEW s \in Socket, Breaks(s) PROVE SocketInv'
  <2>1. sock' \in States
    BY <1>1, <1>3 DEF Breaks, States
  <2>2. TypeOK' /\ UNCHANGED <<socket, io, ops, ready>>
    BY <1>1, <1>3, <2>1 DEF Breaks, client, TypeOK, States, Socket, Operation
  <2> QED BY <2>2, SameHandlers
<1>4. ASSUME NEW o \in ops, Connected(o) \/ Refused(o) \/ Fails(o) PROVE SocketInv'
  <2>1. CASE Connected(o)
    <3>1. [sock EXCEPT ![o.on] = "open"] \in States
      BY <1>1 DEF States
    <3> QED BY <2>1, <3>1, CompleteSockets DEF Connected, Connects
  <2>2. CASE Refused(o)
    <3>1. [sock EXCEPT ![o.on] = "broken"] \in States
      BY <1>1 DEF States
    <3> QED BY <2>2, <3>1, CompleteSockets DEF Refused
  <2>3. CASE Fails(o)
    BY <1>1, <2>3, CompleteSockets DEF Fails
  <2> QED BY <1>4, <2>1, <2>2, <2>3
<1> QED BY <1>2, <1>3, <1>4, ErrorSockets, ConnectedSockets, SendSockets, DisconnectSockets,
           GoesSockets DEF Next, Handle

\* The client starts with a connect on its first socket.
LEMMA InitSockets == Init => SocketInv
<1> SUFFICES ASSUME Init PROVE SocketInv
  OBVIOUS
<1> DEFINE first == Op("connect", 0, 1)
<1>1. /\ auto \in BOOLEAN /\ isConnected = FALSE /\ isStoped = FALSE /\ crashed = FALSE
      /\ socket = 1 /\ io = 0 /\ on = <<>> /\ stoping = {} /\ ops = {first} /\ ready = <<>>
      /\ sock = [s \in Socket |-> IF s = 1 THEN "connecting" ELSE "none"]
  BY DEF Init
<1>2. 1 \in Socket /\ 0 \in 0 .. MaxSockets /\ 1 \in 1 .. 1 /\ 0 \in 0 .. 1
  BY ReconnectAssumption, SMTT(30) DEF Socket
<1>3. first \in Operation /\ first = Op("connect", 0, first.on) /\ first.on = 1
  BY <1>2 DEF Op, Operation
<1>4. sock \in States
  BY <1>1 DEF States
<1>5. on \in [1 .. io -> 1 .. socket] /\ ready \in Seq(Entry) /\ DOMAIN ready = {}
  BY <1>1, SMTT(30)
<1> HIDE DEF first
<1>6. TypeOK
  BY <1>1, <1>2, <1>3, <1>4, <1>5 DEF TypeOK, States, Entry
<1>7. IsFiniteSet(ops)
  BY <1>1, FS_Singleton
<1>8. ConnectsOnce(ops, ready) /\ Handlers(ops, ready) = {first}
  BY <1>1, <1>5 DEF ConnectsOnce, Handlers
<1>9. Counted(socket, {}, io) /\ ConnectsOn(socket, {}, Handlers(ops, ready))
  BY <1>1, <1>2, <1>3, <1>8, FS_EmptySet DEF Counted, ConnectsOn
<1> QED BY <1>6, <1>7, <1>8, <1>9 DEF SocketInv

\* Each AsyncIO comes from the connect of another socket, so that there are
\* never more of them than sockets, although the handler of async_connect does
\* not put it on the socket that was connected.
THEOREM ReconnectTypeCorrect == Spec => []TypeOK
<1>1. SocketInv => TypeOK
  BY DEF SocketInv
<1> QED BY InitSockets, NextSockets, <1>1, PTL DEF Spec

=============================================================================
