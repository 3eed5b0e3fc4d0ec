---------------------------- MODULE AsyncIOProofs ----------------------------
(***************************************************************************)
(* For every set of queries, any room in the socket and any number of      *)
(* calls: AsyncIO::queue_size() counts the writes in progress and those    *)
(* that failed; a query is read from its own bytes as what was written;    *)
(* and the two ends of a connection are a channel: what is received is     *)
(* what was sent, whole, once and in order, until two messages mix, which  *)
(* takes two writes in progress.                                           *)
(***************************************************************************)
EXTENDS AsyncIO, SequenceTheorems, WellFoundedInduction, TLAPS

\* The writes in progress are a queue; of what, the count does not depend on.
IsQueue == \E S : writing \in Seq(S)

\* The inductive invariant.
CountInv == IsQueue /\ failed \in Nat /\ QueueSizeCounts

\* A queue that gets one element more, at its end, or loses its first one.
LEMMA QueueSteps ==
  ASSUME NEW S, NEW q \in Seq(S), NEW x
  PROVE  /\ Append(q, x) \in Seq(S \cup {x}) /\ Len(Append(q, x)) = Len(q) + 1
         /\ q # <<>> => Tail(q) \in Seq(S) /\ Len(Tail(q)) = Len(q) - 1 /\ Len(q) >= 1
<1>1. q \in Seq(S \cup {x}) /\ x \in S \cup {x}
  OBVIOUS
<1>2. Append(q, x) \in Seq(S \cup {x}) /\ Len(Append(q, x)) = Len(q) + 1
  BY <1>1, AppendProperties
<1>3. q # <<>> => Tail(q) \in Seq(S) /\ Len(Tail(q)) = Len(q) - 1 /\ Len(q) >= 1
  BY HeadTailProperties, EmptySeq, LenProperties
<1> QED BY <1>2, <1>3

\* send, the completion of a write, its failure: the count follows the queue.
LEMMA NextCount == CountInv /\ [Next]_vars => CountInv'
<1> SUFFICES ASSUME CountInv, [Next]_vars PROVE CountInv'
  OBVIOUS
<1>1. PICK S : writing \in Seq(S)
  BY DEF CountInv, IsQueue
<1>2. Len(writing) \in Nat /\ failed \in Nat /\ toSend = Len(writing) + failed
  BY <1>1, LenProperties DEF CountInv, QueueSizeCounts
<1>3. ASSUME NEW query \in Query, send(query) PROVE CountInv'
  <2> DEFINE bytes == as_buffer[query]
  <2>1. writing' = Append(writing, bytes) /\ toSend' = toSend + 1 /\ failed' = failed
    BY <1>3 DEF send
  <2> HIDE DEF bytes
  <2>2. writing' \in Seq(S \cup {bytes}) /\ Len(writing') = Len(writing) + 1
    BY <1>1, <2>1, QueueSteps
  <2>3. QueueSizeCounts' /\ failed' \in Nat
    BY <1>2, <2>1, <2>2 DEF QueueSizeCounts
  <2> QED BY <2>2, <2>3 DEF CountInv, IsQueue
<1>4. CASE Transmit
  <2> DEFINE n    == Min({Room - Len(wire), Len(Head(writing))})
             rest == SubSeq(Head(writing), n + 1, Len(Head(writing)))
  <2>1. /\ writing # <<>> /\ failed' = failed
        /\ \/ writing' = Tail(writing) /\ toSend' = toSend - 1
           \/ writing' = Append(Tail(writing), rest) /\ toSend' = toSend
    BY <1>4, Zenon DEF Transmit
  <2> HIDE DEF rest
  <2>2. Tail(writing) \in Seq(S) /\ Len(Tail(writing)) = Len(writing) - 1 /\ Len(writing) >= 1
    BY <1>1, <2>1, QueueSteps
  <2>3. CASE writing' = Tail(writing) /\ toSend' = toSend - 1
    <3>1. QueueSizeCounts' /\ failed' \in Nat
      BY <1>2, <2>1, <2>2, <2>3 DEF QueueSizeCounts
    <3> QED BY <2>2, <2>3, <3>1 DEF CountInv, IsQueue
  <2>4. CASE writing' = Append(Tail(writing), rest) /\ toSend' = toSend
    <3>1. writing' \in Seq(S \cup {rest}) /\ Len(writing') = Len(Tail(writing)) + 1
      BY <2>2, <2>4, QueueSteps
    <3>2. QueueSizeCounts' /\ failed' \in Nat
      BY <1>2, <2>1, <2>2, <2>4, <3>1 DEF QueueSizeCounts
    <3> QED BY <3>1, <3>2 DEF CountInv, IsQueue
  <2> QED BY <2>1, <2>3, <2>4
<1>5. CASE WriteFails
  <2>1. writing # <<>> /\ writing' = Tail(writing) /\ failed' = failed + 1 /\ toSend' = toSend
    BY <1>5 DEF WriteFails, AfterError
  <2>2. writing' \in Seq(S) /\ Len(writing') = Len(writing) - 1
    BY <1>1, <2>1, QueueSteps
  <2>3. QueueSizeCounts' /\ failed' \in Nat
    BY <1>2, <2>1, <2>2 DEF QueueSizeCounts
  <2> QED BY <2>2, <2>3 DEF CountInv, IsQueue
<1>6. ASSUME UNCHANGED <<writing, failed, toSend>> PROVE CountInv'
  BY <1>6 DEF CountInv, IsQueue, QueueSizeCounts
<1>7. CASE ReadSome \/ ReadMixed \/ ReadFails \/ Break \/ full_stop \/ UNCHANGED vars
  BY <1>6, <1>7 DEF ReadSome, ReadMixed, ReadFails, Break, Breaks, full_stop, vars
<1> QED BY <1>3, <1>4, <1>5, <1>7 DEF Next

LEMMA CountAlways == Spec => []CountInv
<1>1. Init => CountInv
  <2> SUFFICES ASSUME Init PROVE CountInv
    OBVIOUS
  <2>1. writing \in Seq({}) /\ Len(writing) = 0 /\ failed = 0 /\ toSend = 0
    BY DEF Init
  <2> QED BY <2>1 DEF CountInv, IsQueue, QueueSizeCounts
<1> QED BY <1>1, NextCount, PTL DEF Spec

\* queue_size() is the number of the writes in progress and of those that
\* failed, so that it never underflows, whatever the queries, the socket and
\* the errors.
THEOREM QueueSizeCountsAlways == Spec => []QueueSizeCounts
<1>1. CountInv => QueueSizeCounts
  BY DEF CountInv
<1> QED BY <1>1, CountAlways, PTL

-----------------------------------------------------------------------------
(* Induction.  The library states it for a predicate, which the provers     *)
(* cannot instantiate; here it is about a set of numbers.                   *)

\* The prover of a step that names none.
USE ZenonT(30)

\* A set of numbers has a least element.
LEMMA LeastNat ==
  ASSUME NEW T \in SUBSET Nat, T # {}
  PROVE  \E n \in T : \A m \in T : n <= m
<1> DEFINE R == {ss \in Nat \X Nat : ss[1] < ss[2]}
<1>1. IsWellFoundedOn(R, Nat)
  <2>1. OpToRel(<, Nat) = R
    BY DEF OpToRel
  <2> QED BY <2>1, NatLessThanWellFounded
<1>2. \A x, y \in Nat : x < y => <<x, y>> \in R
  OBVIOUS
<1> HIDE DEF R
<1>3. \E x \in T : \A y \in T : ~(<<y, x>> \in R)
  BY <1>1, WFMin
<1>4. PICK x \in T : \A y \in T : ~(y < x)
  BY <1>2, <1>3
<1> QED BY <1>4, SMTT(30)

\* A set with 0 in it, and with each number the next one, holds every number.
LEMMA Induction ==
  ASSUME NEW T \in SUBSET Nat, 0 \in T, \A n \in T : n + 1 \in T
  PROVE  T = Nat
<1> SUFFICES ASSUME Nat \ T # {} PROVE FALSE
  OBVIOUS
<1>1. PICK n \in Nat \ T : \A m \in Nat \ T : n <= m
  BY LeastNat
<1>2. n - 1 \in Nat
  BY SMTT(30)
<1>3. n - 1 \in T
  BY <1>1, <1>2, SMTT(30)
<1> QED BY <1>3, SMTT(30)

\* What holds at 0 and passes from each number to the next, up to n.
LEMMA Upward ==
  ASSUME NEW n \in Nat, NEW T, 0 \in T, \A i \in 1 .. n : i - 1 \in T => i \in T
  PROVE  \A i \in 0 .. n : i \in T
<1> DEFINE U == {i \in Nat : i <= n => i \in T}
<1>1. 0 \in U
  BY SMTT(30)
<1>2. ASSUME NEW i \in U PROVE i + 1 \in U
  <2>1. CASE i + 1 <= n
    <3>1. i \in Nat /\ i + 1 \in 1 .. n /\ (i + 1) - 1 = i /\ i <= n
      BY <2>1, SMTT(30)
    <3> QED BY <3>1, SMTT(30)
  <2>2. CASE ~(i + 1 <= n)
    BY <2>2, SMTT(30)
  <2> QED BY <2>1, <2>2
<1>3. U = Nat
  <2>1. U \in SUBSET Nat
    OBVIOUS
  <2> HIDE DEF U
  <2> QED BY <1>1, <1>2, <2>1, Induction
<1> QED BY <1>3, SMTT(30)

\* g is the function on 0 .. n that begins with c and goes on by step.
IsRecursion(g, S, c, n, step) ==
  g \in [0 .. n -> S] /\ g[0] = c /\ \A i \in 1 .. n : g[i] = step[<<g[i - 1], i>>]

\* There is one: what a recursive function of the model is defined by, exists.
LEMMA Recursion ==
  ASSUME NEW S, NEW c \in S, NEW n \in Nat, NEW step \in [S \X Nat -> S]
  PROVE  \E g : IsRecursion(g, S, c, n, step)
<1> DEFINE Defines(g, m) == \A i \in 0 .. m : g[i] = IF i = 0 THEN c ELSE step[<<g[i - 1], i>>]
           T == {m \in Nat : \E g \in [0 .. m -> S] : Defines(g, m)}
<1>1. 0 \in T
  <2> DEFINE g == [i \in 0 .. 0 |-> c]
  <2>1. g \in [0 .. 0 -> S] /\ Defines(g, 0)
    BY SMTT(30)
  <2> QED BY <2>1
<1>2. ASSUME NEW m \in T PROVE m + 1 \in T
  <2>1. PICK g \in [0 .. m -> S] : Defines(g, m)
    OBVIOUS
  <2> DEFINE v == step[<<g[m], m + 1>>]
             h == [i \in 0 .. m + 1 |-> IF i = m + 1 THEN v ELSE g[i]]
  <2>2. m \in Nat /\ m + 1 \in Nat /\ m \in 0 .. m
    BY SMTT(30)
  <2>3. g[m] \in S
    BY <2>2
  <2>4. v \in S
    BY <2>2, <2>3
  <2>5. h \in [0 .. m + 1 -> S]
    <3> HIDE DEF v
    <3> QED BY <2>2, <2>4, SMTT(30)
  <2>6. ASSUME NEW i \in 0 .. m + 1 PROVE h[i] = IF i = 0 THEN c ELSE step[<<h[i - 1], i>>]
    <3>1. CASE i = m + 1
      <4>1. i # 0 /\ i - 1 = m /\ m \in 0 .. m + 1 /\ m # m + 1
        BY <3>1, <2>2, SMTT(30)
      <4>2. h[i] = v /\ h[i - 1] = g[m]
        BY <4>1, <3>1
      <4> QED BY <4>1, <4>2, <3>1
    <3>2. CASE i # m + 1
      <4>1. i \in 0 .. m /\ (i # 0 => i - 1 \in 0 .. m + 1 /\ i - 1 # m + 1)
        BY <3>2, <2>2, SMTT(30)
      <4>2. h[i] = g[i] /\ (i # 0 => h[i - 1] = g[i - 1])
        BY <4>1, <3>2
      <4> QED BY <4>1, <4>2, <2>1
    <3> QED BY <3>1, <3>2
  <2>7. Defines(h, m + 1)
    BY <2>6
  <2> HIDE DEF h, Defines
  <2> QED BY <2>2, <2>5, <2>7
<1>3. T = Nat
  <2> HIDE DEF T
  <2>1. T \in SUBSET Nat
    BY DEF T
  <2> QED BY <1>1, <1>2, <2>1, Induction
<1>4. PICK g \in [0 .. n -> S] : Defines(g, n)
  BY <1>3
<1>5. 0 \in 0 .. n /\ \A i \in 1 .. n : i \in 0 .. n /\ i # 0
  BY SMTT(30)
<1> QED BY <1>4, <1>5 DEF IsRecursion

-----------------------------------------------------------------------------
(* Numbers as bytes. *)

\* Each number is the one before without its lowest byte.
LEMMA ShiftedDef ==
  ASSUME NEW n \in Nat, NEW w \in Nat
  PROVE  /\ Shifted(n, w) \in [0 .. w -> Nat]
         /\ Shifted(n, w)[0] = n
         /\ \A i \in 1 .. w : Shifted(n, w)[i] = Shifted(n, w)[i - 1] \div 256
<1> DEFINE step == [p \in Nat \X Nat |-> p[1] \div 256]
           Rest(g) == g = [i \in 0 .. w |-> IF i = 0 THEN n ELSE g[i - 1] \div 256]
           f == CHOOSE g : Rest(g)
<1>1. step \in [Nat \X Nat -> Nat]
  <2>1. \A x \in Nat : x \div 256 \in Nat
    BY SMTT(30)
  <2> QED BY <2>1
<1>2. PICK g : IsRecursion(g, Nat, n, w, step)
  <2> HIDE DEF step, Rest
  <2> QED BY <1>1, Recursion
<1>3. \A i \in 0 .. w : i # 0 => i - 1 \in 0 .. w /\ i \in 1 .. w /\ i \in Nat
  BY SMTT(30)
<1>4. \A i \in 0 .. w : g[i] = IF i = 0 THEN n ELSE g[i - 1] \div 256
  BY <1>2, <1>3 DEF IsRecursion
<1>5. Rest(g)
  BY <1>2, <1>4 DEF IsRecursion
<1>6. Rest(f)
  <2> HIDE DEF Rest
  <2> QED BY <1>5
<1>7. Shifted(n, w) = f
  BY DEF Shifted
<1> DEFINE s == Shifted(n, w)
<1>8. s = [i \in 0 .. w |-> IF i = 0 THEN n ELSE s[i - 1] \div 256]
  BY <1>6, <1>7
<1> HIDE DEF s, f
<1>9. 0 \in 0 .. w /\ (\A i \in 1 .. w : i \in 0 .. w /\ i # 0 /\ i - 1 \in 0 .. w)
  BY SMTT(30)
<1>10. s[0] = n /\ \A i \in 1 .. w : s[i] = s[i - 1] \div 256
  BY <1>8, <1>9
<1>11. \A i \in 0 .. w : s[i] \in Nat
  <2> DEFINE T == {i \in 0 .. w : s[i] \in Nat}
  <2>1. 0 \in T
    BY <1>9, <1>10
  <2>2. ASSUME NEW i \in 1 .. w, i - 1 \in T PROVE i \in T
    <3>1. s[i] = s[i - 1] \div 256 /\ s[i - 1] \in Nat /\ i \in 0 .. w
      BY <2>2, <1>9, <1>10
    <3>2. s[i] \in Nat
      BY <3>1, SMTT(30)
    <3> QED BY <3>1, <3>2
  <2> HIDE DEF T
  <2>3. \A i \in 0 .. w : i \in T
    BY <2>1, <2>2, Upward
  <2> QED BY <2>3 DEF T
<1>12. s \in [0 .. w -> Nat]
  BY <1>8, <1>11
<1> QED BY <1>10, <1>12 DEF s

LEMMA ShiftedNext ==
  ASSUME NEW n \in Nat, NEW w \in Nat, NEW i \in 1 .. w
  PROVE  Shifted(n, w)[i] = Shifted(n, w)[i - 1] \div 256
<1> DEFINE s == Shifted(n, w)
<1>1. \A j \in 1 .. w : s[j] = s[j - 1] \div 256
  BY ShiftedDef, SMTT(30)
<1> HIDE DEF s
<1>2. s[i] = s[i - 1] \div 256
  BY <1>1
<1> QED BY <1>2 DEF s

LEMMA BytesType ==
  ASSUME NEW n \in Nat, NEW w \in Nat
  PROVE  Bytes(n, w) \in Seq(Byte) /\ Len(Bytes(n, w)) = w
<1> DEFINE s == Shifted(n, w)
<1>1. \A i \in 1 .. w : s[i - 1] \in Nat
  <2>1. \A i \in 1 .. w : i - 1 \in 0 .. w
    BY SMTT(30)
  <2> QED BY <2>1, ShiftedDef, SMTT(30)
<1> HIDE DEF s
<1>2. \A i \in 1 .. w : s[i - 1] % 256 \in Byte
  BY <1>1, SMTT(30) DEF Byte
<1>3. Bytes(n, w) = [i \in 1 .. w |-> s[i - 1] % 256]
  BY DEF Bytes, s
<1> QED BY <1>2, <1>3, SMTT(30)

\* Number, from the last byte to the first.
LEMMA NumberDef ==
  ASSUME NEW bytes \in Seq(Nat)
  PROVE  \E upTo \in [0 .. Len(bytes) -> Nat] :
           /\ upTo[0] = 0
           /\ \A i \in 1 .. Len(bytes) : upTo[i] = upTo[i - 1] * 256 + bytes[Len(bytes) + 1 - i]
           /\ Number(bytes) = upTo[Len(bytes)]
<1> DEFINE n == Len(bytes)
           step == [p \in Nat \X Nat |-> IF p[2] \in 1 .. n THEN p[1] * 256 + bytes[n + 1 - p[2]] ELSE 0]
           UpTo(g) == g = [i \in 0 .. n |-> IF i = 0 THEN 0 ELSE g[i - 1] * 256 + bytes[n + 1 - i]]
           f == CHOOSE g : UpTo(g)
<1>1. n \in Nat
  BY LenProperties
<1>2. \A i \in 1 .. n : bytes[n + 1 - i] \in Nat
  <2> HIDE DEF n
  <2>1. \A i \in 1 .. n : n + 1 - i \in 1 .. n
    BY <1>1, SMTT(30)
  <2> QED BY <2>1, ElementOfSeq DEF n
<1>3. ASSUME NEW x \in Nat, NEW i \in 1 .. n PROVE x * 256 + bytes[n + 1 - i] \in Nat
  BY <1>2, SMTT(30)
<1> HIDE DEF n
<1>4. step \in [Nat \X Nat -> Nat]
  <2>1. ASSUME NEW p \in Nat \X Nat PROVE step[p] \in Nat
    <3>1. CASE p[2] \in 1 .. n
      BY <1>3, <3>1
    <3>2. CASE p[2] \notin 1 .. n
      <4>1. 0 \in Nat
        BY SMTT(30)
      <4> QED BY <3>2, <4>1
    <3> QED BY <3>1, <3>2
  <2> QED BY <2>1
<1>5. PICK g : IsRecursion(g, Nat, 0, n, step)
  <2> HIDE DEF step, UpTo
  <2> QED BY <1>1, <1>4, Recursion
<1>6. \A i \in 0 .. n : i # 0 => i - 1 \in 0 .. n /\ i \in Nat /\ i \in 1 .. n
  BY <1>1, SMTT(30)
<1>7. \A i \in 0 .. n : g[i] = IF i = 0 THEN 0 ELSE g[i - 1] * 256 + bytes[n + 1 - i]
  BY <1>5, <1>6 DEF IsRecursion
<1>8. UpTo(g)
  BY <1>5, <1>7, SMTT(30) DEF IsRecursion
<1>9. UpTo(f)
  <2> HIDE DEF UpTo
  <2> QED BY <1>8
<1>10. Number(bytes) = f[n]
  BY DEF Number, n
<1>11. f = [i \in 0 .. n |-> IF i = 0 THEN 0 ELSE f[i - 1] * 256 + bytes[n + 1 - i]]
  BY <1>9
<1> HIDE DEF f
<1>12. 0 \in 0 .. n /\ (\A i \in 1 .. n : i \in 0 .. n /\ i # 0 /\ i - 1 \in 0 .. n)
  BY <1>1, SMTT(30)
<1>13. f[0] = 0 /\ \A i \in 1 .. n : f[i] = f[i - 1] * 256 + bytes[n + 1 - i]
  BY <1>11, <1>12
<1>14. \A i \in 0 .. n : f[i] \in Nat
  <2> DEFINE T == {i \in 0 .. n : f[i] \in Nat}
  <2>1. 0 \in T
    BY <1>12, <1>13, SMTT(30)
  <2>2. \A i \in 1 .. n : i - 1 \in T => i \in T
    BY <1>3, <1>12, <1>13, SMTT(30)
  <2> HIDE DEF T
  <2>3. \A i \in 0 .. n : i \in T
    BY <1>1, <2>1, <2>2, Upward
  <2> QED BY <2>3 DEF T
<1>15. f \in [0 .. n -> Nat]
  BY <1>11, <1>14
<1> QED BY <1>10, <1>13, <1>15 DEF n

\* A number that w bytes hold is read back from its w bytes.
LEMMA NumberOfBytes ==
  ASSUME NEW n \in Nat, NEW w \in Nat, Fits(n, w)
  PROVE  Number(Bytes(n, w)) = n
<1> DEFINE s == Shifted(n, w)
           b == Bytes(n, w)
<1>1. /\ s \in [0 .. w -> Nat] /\ s[0] = n /\ s[w] = 0
      /\ \A i \in 1 .. w : s[i] = s[i - 1] \div 256
  <2>1. s[w] = 0
    BY DEF Fits
  <2>2. s \in [0 .. w -> Nat]
    BY ShiftedDef
  <2>3. s[0] = n
    BY ShiftedDef
  <2>4. \A i \in 1 .. w : s[i] = s[i - 1] \div 256
    BY ShiftedDef, SMTT(30)
  <2> HIDE DEF s
  <2> QED BY <2>1, <2>2, <2>3, <2>4
<1>2. b \in Seq(Nat) /\ Len(b) = w
  <2>1. Byte \subseteq Nat
    BY SMTT(30) DEF Byte
  <2>2. b \in Seq(Byte) /\ Len(b) = w
    BY BytesType
  <2> HIDE DEF b
  <2> QED BY <2>1, <2>2, SeqMonotonic
<1>3. \A i \in 1 .. w : b[i] = s[i - 1] % 256
  BY DEF Bytes
<1> HIDE DEF s, b
<1>4. PICK u \in [0 .. w -> Nat] :
           /\ u[0] = 0
           /\ \A i \in 1 .. w : u[i] = u[i - 1] * 256 + b[w + 1 - i]
           /\ Number(b) = u[w]
  BY <1>2, NumberDef
<1> DEFINE T == {i \in 0 .. w : u[i] = s[w - i]}
<1>5. 0 \in T
  BY <1>1, <1>4, SMTT(30)
<1>6. ASSUME NEW i \in 1 .. w, i - 1 \in T PROVE i \in T
  <2> DEFINE x == s[w - i]
  <2>1. /\ i \in 0 .. w /\ w - i \in 0 .. w /\ w + 1 - i \in 1 .. w
        /\ (w + 1 - i) - 1 = w - i /\ w - (i - 1) = w + 1 - i
    BY SMTT(30)
  <2>2. u[i - 1] = s[w + 1 - i]
    BY <1>6, <2>1
  <2>3. x \in Nat /\ s[w + 1 - i] = x \div 256 /\ b[w + 1 - i] = x % 256
    BY <1>1, <1>3, <2>1, SMTT(30)
  <2>4. u[i] = (x \div 256) * 256 + (x % 256)
    <3>1. u[i] = u[i - 1] * 256 + b[w + 1 - i]
      BY <1>4
    <3> QED BY <2>2, <2>3, <3>1
  <2> HIDE DEF x
  <2>5. u[i] = x
    BY <2>3, <2>4, SMTT(30)
  <2> QED BY <2>1, <2>5 DEF x
<1> HIDE DEF T
<1>7. w \in T
  <2>1. \A i \in 0 .. w : i \in T
    BY <1>5, <1>6, Upward
  <2> QED BY <2>1, SMTT(30)
<1>8. u[w] = s[0]
  BY <1>7, SMTT(30) DEF T
<1> QED BY <1>1, <1>4, <1>8 DEF b

LEMMA FitsZero == Fits(0, 4)
<1> DEFINE s == Shifted(0, 4)
<1>1. 0 \in Nat /\ 4 \in Nat
  BY SMTT(30)
<1>2. s[0] = 0
  BY <1>1, ShiftedDef
<1>3. \A i \in 1 .. 4 : s[i] = s[i - 1] \div 256
  BY <1>1, ShiftedNext, SMTT(30)
<1> HIDE DEF s
<1>4. s[4] = 0
  BY <1>2, <1>3, SMTT(30)
<1> QED BY <1>4 DEF Fits, s

-----------------------------------------------------------------------------
(* Sequences. *)

LEMMA IsSeq ==
  ASSUME NEW S, NEW n \in Nat, NEW f \in [1 .. n -> S]
  PROVE  f \in Seq(S) /\ Len(f) = n
  BY SMTT(30)

LEMMA Cat ==
  ASSUME NEW S, NEW a \in Seq(S), NEW b \in Seq(S)
  PROVE  a \o b \in Seq(S) /\ Len(a \o b) = Len(a) + Len(b) /\ Len(a) \in Nat /\ Len(b) \in Nat
  BY ConcatProperties, LenProperties

Associates(a, b, c) == (a \o b) \o c = a \o (b \o c)

LEMMA Assoc ==
  ASSUME NEW S, NEW a \in Seq(S), NEW b \in Seq(S), NEW c \in Seq(S)
  PROVE  Associates(a, b, c)
  BY ConcatAssociative, SMTT(30) DEF Associates

\* The two halves of a concatenation.
LEMMA Halves ==
  ASSUME NEW S, NEW a \in Seq(S), NEW b \in Seq(S)
  PROVE  SubSeq(a \o b, 1, Len(a)) = a /\ SubSeq(a \o b, Len(a) + 1, Len(a \o b)) = b
<1> DEFINE c == a \o b
<1>1. /\ c \in Seq(S) /\ Len(c) = Len(a) + Len(b) /\ Len(a) \in Nat /\ Len(b) \in Nat
      /\ \A i \in 1 .. Len(a) + Len(b) : c[i] = IF i <= Len(a) THEN a[i] ELSE b[i - Len(a)]
  BY ConcatProperties, LenProperties, SMTT(30)
<1>2. \A i \in 1 .. Len(c) : c[i] \in S
  BY <1>1, ElementOfSeq
<1> HIDE DEF c
<1>3. SubSeq(c, 1, Len(a)) = a
  <2> DEFINE d == SubSeq(c, 1, Len(a))
  <2>1. \A i \in 1 .. Len(a) : c[i] \in S
    BY <1>1, <1>2, SMTT(30)
  <2>2. /\ d \in Seq(S) /\ Len(d) = IF 1 <= Len(a) THEN Len(a) - 1 + 1 ELSE 0
        /\ \A i \in 1 .. Len(a) - 1 + 1 : d[i] = c[1 + i - 1]
    <3>1. 1 \in Int /\ Len(a) \in Int
      BY <1>1, SMTT(30)
    <3> QED BY <2>1, <3>1, SubSeqProperties, SMTT(30)
  <2> HIDE DEF d
  <2>3. Len(d) = Len(a) /\ \A i \in 1 .. Len(d) : d[i] = a[i]
    BY <1>1, <2>2, SMTT(30)
  <2>4. d = a
    BY <2>2, <2>3, SeqEqual
  <2> QED BY <2>4 DEF d
<1>4. SubSeq(c, Len(a) + 1, Len(c)) = b
  <2> DEFINE m == Len(a) + 1
             n == Len(c)
             d == SubSeq(c, m, n)
  <2>1. /\ m \in Int /\ n \in Int /\ m \in Nat /\ \A i \in m .. n : c[i] \in S
        /\ n - m + 1 = Len(b)
    BY <1>1, <1>2, SMTT(30)
  <2> HIDE DEF m, n
  <2>2. /\ d \in Seq(S) /\ Len(d) = IF m <= n THEN n - m + 1 ELSE 0
        /\ \A i \in 1 .. n - m + 1 : d[i] = c[m + i - 1]
    BY <2>1, SubSeqProperties, SMTT(30)
  <2> HIDE DEF d
  <2>3. Len(d) = Len(b)
    BY <1>1, <2>1, <2>2, SMTT(30) DEF m, n
  <2>4. ASSUME NEW i \in 1 .. Len(d) PROVE d[i] = b[i]
    <3>1. /\ m + i - 1 \in 1 .. Len(a) + Len(b) /\ ~(m + i - 1 <= Len(a))
          /\ (m + i - 1) - Len(a) = i /\ i \in 1 .. n - m + 1
      BY <1>1, <2>1, <2>3, SMTT(30) DEF m, n
    <3> QED BY <1>1, <2>2, <3>1
  <2>5. d = b
    BY <2>2, <2>3, <2>4, SeqEqual
  <2> QED BY <2>5 DEF d, m, n
<1> QED BY <1>3, <1>4 DEF c

\* A sequence is its first k elements and the others.
LEMMA Split ==
  ASSUME NEW S, NEW s \in Seq(S), NEW k \in 0 .. Len(s)
  PROVE  /\ SubSeq(s, 1, k) \in Seq(S) /\ Len(SubSeq(s, 1, k)) = k
         /\ SubSeq(s, k + 1, Len(s)) \in Seq(S) /\ Len(SubSeq(s, k + 1, Len(s))) = Len(s) - k
         /\ s = SubSeq(s, 1, k) \o SubSeq(s, k + 1, Len(s))
<1> DEFINE n == Len(s)
<1>1. n \in Nat /\ k \in Nat /\ k <= n /\ 1 \in Int /\ k \in Int /\ n \in Int /\ k + 1 \in Int
  BY LenProperties, SMTT(30)
<1>2. \A i \in 1 .. n : s[i] \in S
  BY ElementOfSeq
<1> HIDE DEF n
<1>3. (\A i \in 1 .. k : s[i] \in S) /\ (\A i \in k + 1 .. n : s[i] \in S)
  BY <1>1, <1>2, SMTT(30)
<1>4. SubSeq(s, 1, k) \in Seq(S) /\ Len(SubSeq(s, 1, k)) = IF 1 <= k THEN k - 1 + 1 ELSE 0
  BY <1>1, <1>3, SubSeqProperties, SMTT(30)
<1>5. /\ SubSeq(s, k + 1, n) \in Seq(S)
      /\ Len(SubSeq(s, k + 1, n)) = IF k + 1 <= n THEN n - (k + 1) + 1 ELSE 0
  BY <1>1, <1>3, SubSeqProperties, SMTT(30)
<1>6. Len(SubSeq(s, 1, k)) = k
  BY <1>1, <1>4, SMTT(30)
<1>7. Len(SubSeq(s, k + 1, n)) = n - k
  BY <1>1, <1>5, SMTT(30)
<1>8. SubSeq(s, 1, k) \o SubSeq(s, k + 1, n) = SubSeq(s, 1, n)
  <2>1. 1 \in 1 .. n + 1 /\ k \in 1 - 1 .. n /\ n \in k .. n
    BY <1>1, SMTT(30)
  <2> QED BY <2>1, ConcatAdjacentSubSeq DEF n
<1>9. SubSeq(s, 1, n) = s
  BY SubSeqFull DEF n
<1> QED BY <1>4, <1>5, <1>6, <1>7, <1>8, <1>9 DEF n

\* Two concatenations that are equal, with first parts of the same length.
LEMMA SameHalves ==
  ASSUME NEW S, NEW a \in Seq(S), NEW b \in Seq(S), NEW c \in Seq(S), NEW d \in Seq(S),
         a \o b = c \o d, Len(a) = Len(c)
  PROVE  a = c /\ b = d
<1>1. SubSeq(a \o b, 1, Len(a)) = a /\ SubSeq(a \o b, Len(a) + 1, Len(a \o b)) = b
  BY Halves
<1>2. SubSeq(c \o d, 1, Len(c)) = c /\ SubSeq(c \o d, Len(c) + 1, Len(c \o d)) = d
  BY Halves
<1> QED BY <1>1, <1>2

\* The middle one of three sequences.
LEMMA Middle ==
  ASSUME NEW S, NEW a \in Seq(S), NEW b \in Seq(S), NEW c \in Seq(S)
  PROVE  SubSeq((a \o b) \o c, Len(a) + 1, Len(a) + Len(b)) = b
<1>1. /\ Len(a) \in Nat /\ Len(b) \in Nat /\ a \o b \in Seq(S) /\ Len(a \o b) = Len(a) + Len(b)
  BY Cat
<1>2. CASE Len(b) = 0
  <2>1. b = <<>>
    BY <1>2, EmptySeq
  <2>2. Len(a) + 1 \in Int /\ Len(a) + Len(b) \in Int /\ Len(a) + Len(b) < Len(a) + 1
    BY <1>1, <1>2, SMTT(30)
  <2> QED BY <2>1, <2>2, SubSeqEmpty
<1>3. CASE Len(b) # 0
  <2> DEFINE s == a \o b
             m == Len(a) + 1
             n == Len(a) + Len(b)
  <2>1. m \in 1 .. Len(s) /\ n \in 1 .. Len(s)
    BY <1>1, <1>3, SMTT(30)
  <2>2. SubSeq(s, m, n) = b
    <3>1. SubSeq(s, m, Len(s)) = b
      BY Halves
    <3> QED BY <1>1, <3>1
  <2>3. s \in Seq(S)
    BY <1>1
  <2> HIDE DEF s, m, n
  <2>4. SubSeq(s \o c, m, n) = SubSeq(s, m, n)
    BY <2>1, <2>3, SubSeqOfConcat1
  <2> QED BY <2>2, <2>4 DEF s, m, n
<1> QED BY <1>2, <1>3

\* f[i] is the concatenation of the first i sequences of seqs.
Concatenates(f, S, seqs) ==
  /\ f \in [0 .. Len(seqs) -> Seq(S)]
  /\ f[0] = <<>>
  /\ \A i \in 1 .. Len(seqs) : f[i] = f[i - 1] \o seqs[i]

LEMMA ConcatenationExists ==
  ASSUME NEW S, NEW seqs \in Seq(Seq(S))
  PROVE  \E f : Concatenates(f, S, seqs)
<1> DEFINE n == Len(seqs)
           step == [p \in Seq(S) \X Nat |-> IF p[2] \in 1 .. n THEN p[1] \o seqs[p[2]] ELSE <<>>]
<1>1. n \in Nat /\ \A i \in 1 .. n : seqs[i] \in Seq(S)
  BY LenProperties, ElementOfSeq
<1>2. <<>> \in Seq(S)
  BY EmptySeq
<1> HIDE DEF n
<1>3. step \in [Seq(S) \X Nat -> Seq(S)]
  BY <1>1, <1>2, Cat
<1>4. PICK f : IsRecursion(f, Seq(S), <<>>, n, step)
  <2> HIDE DEF step
  <2> QED BY <1>1, <1>2, <1>3, Recursion
<1>5. \A i \in 1 .. n : i - 1 \in 0 .. n /\ i \in Nat
  BY <1>1, SMTT(30)
<1>6. \A i \in 1 .. n : f[i] = f[i - 1] \o seqs[i]
  BY <1>4, <1>5 DEF IsRecursion
<1> QED BY <1>4, <1>6 DEF IsRecursion, Concatenates, n

LEMMA ConcatenationIs ==
  ASSUME NEW S, NEW seqs \in Seq(Seq(S)), NEW f, Concatenates(f, S, seqs)
  PROVE  Concatenation(seqs) = f[Len(seqs)]
<1> DEFINE n == Len(seqs)
           UpTo(g) == g = [i \in 0 .. n |-> IF i = 0 THEN <<>> ELSE g[i - 1] \o seqs[i]]
           h == CHOOSE g : UpTo(g)
<1>1. Concatenation(seqs) = h[n]
  BY DEF Concatenation
<1>2. n \in Nat
  BY LenProperties
<1>3. f \in [0 .. n -> Seq(S)] /\ f[0] = <<>> /\ \A i \in 1 .. n : f[i] = f[i - 1] \o seqs[i]
  BY DEF Concatenates
<1> HIDE DEF n
<1>4. /\ 0 \in 0 .. n /\ n \in 0 .. n /\ (\A i \in 0 .. n : i # 0 => i \in 1 .. n)
      /\ \A i \in 1 .. n : i \in 0 .. n /\ i # 0
  BY <1>2, SMTT(30)
<1>5. UpTo(f)
  <2>1. \A i \in 0 .. n : f[i] = IF i = 0 THEN <<>> ELSE f[i - 1] \o seqs[i]
    BY <1>3, <1>4
  <2> QED BY <1>3, <2>1
<1>6. UpTo(h)
  <2> HIDE DEF UpTo
  <2> QED BY <1>5
<1>7. \A i \in 0 .. n : h[i] = IF i = 0 THEN <<>> ELSE h[i - 1] \o seqs[i]
  BY <1>6
<1> HIDE DEF h
<1> DEFINE T == {i \in 0 .. n : h[i] = f[i]}
<1>8. 0 \in T
  BY <1>3, <1>4, <1>7
<1>9. \A i \in 1 .. n : i - 1 \in T => i \in T
  BY <1>3, <1>4, <1>7
<1>10. n \in T
  <2> HIDE DEF T
  <2> QED BY <1>2, <1>4, <1>8, <1>9, Upward
<1> QED BY <1>1, <1>10 DEF n

LEMMA ConcatenationType ==
  ASSUME NEW S, NEW seqs \in Seq(Seq(S))
  PROVE  Concatenation(seqs) \in Seq(S)
<1>1. PICK f : Concatenates(f, S, seqs)
  BY ConcatenationExists
<1>2. Concatenation(seqs) = f[Len(seqs)]
  BY <1>1, ConcatenationIs
<1>3. Len(seqs) \in 0 .. Len(seqs)
  BY LenProperties, SMTT(30)
<1> QED BY <1>1, <1>2, <1>3 DEF Concatenates

LEMMA ConcatenationEmpty == Concatenation(<<>>) = <<>>
<1> DEFINE f == [i \in 0 .. 0 |-> <<>>]
<1>1. <<>> \in Seq(Seq({})) /\ Len(<<>>) = 0 /\ <<>> \in Seq({})
  BY EmptySeq
<1>2. 0 \in 0 .. 0 /\ \A i \in 1 .. 0 : FALSE
  BY SMTT(30)
<1>3. Concatenates(f, {}, <<>>)
  BY <1>1, <1>2 DEF Concatenates
<1>4. f[0] = <<>>
  BY <1>2
<1> HIDE DEF f
<1> QED BY <1>1, <1>3, <1>4, ConcatenationIs

LEMMA ConcatenationAppend ==
  ASSUME NEW S, NEW seqs \in Seq(Seq(S)), NEW x \in Seq(S)
  PROVE  Concatenation(Append(seqs, x)) = Concatenation(seqs) \o x
<1> DEFINE n == Len(seqs)
           t == Append(seqs, x)
<1>1. /\ n \in Nat /\ t \in Seq(Seq(S)) /\ Len(t) = n + 1 /\ t[n + 1] = x
      /\ \A i \in 1 .. n : t[i] = seqs[i]
  BY AppendProperties, LenProperties, SMTT(30)
<1> HIDE DEF n, t
<1>2. PICK f : Concatenates(f, S, t)
  BY <1>1, ConcatenationExists
<1> DEFINE g == [i \in 0 .. n |-> f[i]]
<1>3. /\ 0 \in 0 .. n /\ n \in 0 .. n /\ n + 1 \in 1 .. n + 1 /\ (n + 1) - 1 = n
      /\ \A i \in 0 .. n : i \in 0 .. n + 1
      /\ \A i \in 1 .. n : i \in 1 .. n + 1 /\ i \in 0 .. n /\ i - 1 \in 0 .. n
  BY <1>1, SMTT(30)
<1>4. Concatenates(g, S, seqs)
  <2>1. g \in [0 .. n -> Seq(S)] /\ g[0] = <<>>
    BY <1>1, <1>2, <1>3 DEF Concatenates
  <2>2. \A i \in 1 .. n : g[i] = g[i - 1] \o seqs[i]
    BY <1>1, <1>2, <1>3 DEF Concatenates
  <2> QED BY <2>1, <2>2 DEF Concatenates, n
<1>5. Concatenation(seqs) = f[n]
  <2>1. Concatenation(seqs) = g[n]
    BY <1>4, ConcatenationIs DEF n
  <2> QED BY <2>1, <1>3
<1>6. Concatenation(t) = f[n] \o x
  <2>1. Concatenation(t) = f[n + 1]
    BY <1>1, <1>2, ConcatenationIs
  <2> QED BY <2>1, <1>1, <1>2, <1>3 DEF Concatenates
<1> QED BY <1>5, <1>6 DEF t

LEMMA ConcatenationHead ==
  ASSUME NEW S, NEW seqs \in Seq(Seq(S)), seqs # <<>>
  PROVE  Concatenation(seqs) = Head(seqs) \o Concatenation(Tail(seqs))
<1> DEFINE n == Len(seqs)
           t == Tail(seqs)
           x == Head(seqs)
<1>1. /\ n \in Nat /\ n > 0 /\ t \in Seq(Seq(S)) /\ Len(t) = n - 1 /\ x \in Seq(S) /\ x = seqs[1]
      /\ \A i \in 1 .. n - 1 : t[i] = seqs[i + 1]
  BY HeadTailProperties, EmptySeq, LenProperties, SMTT(30)
<1> HIDE DEF n, t, x
<1>2. PICK f : Concatenates(f, S, t)
  BY <1>1, ConcatenationExists
<1> DEFINE g == [i \in 0 .. n |-> IF i = 0 THEN <<>> ELSE x \o f[i - 1]]
<1>3. /\ 0 \in 0 .. n /\ n \in 0 .. n /\ n # 0
      /\ \A i \in 1 .. n : i \in 0 .. n /\ i # 0 /\ i - 1 \in 0 .. n /\ i - 1 \in 0 .. n - 1
      /\ \A i \in 0 .. n : i # 0 => i \in 1 .. n
      /\ \A i \in 1 .. n : i # 1 => i - 1 # 0 /\ i - 1 \in 1 .. n - 1 /\ (i - 1) + 1 = i
  BY <1>1, SMTT(30)
<1>4. /\ f[0] = <<>>
      /\ \A i \in 0 .. n - 1 : f[i] \in Seq(S)
      /\ \A i \in 1 .. n - 1 : f[i] = f[i - 1] \o seqs[i + 1]
  BY <1>1, <1>2 DEF Concatenates
<1>5. Concatenates(g, S, seqs)
  <2>1. g \in [0 .. n -> Seq(S)] /\ g[0] = <<>>
    <3>1. \A i \in 1 .. n : x \o f[i - 1] \in Seq(S)
      BY <1>1, <1>3, <1>4, Cat
    <3>2. <<>> \in Seq(S)
      BY EmptySeq
    <3> QED BY <3>1, <3>2, <1>3
  <2>2. ASSUME NEW i \in 1 .. n PROVE g[i] = g[i - 1] \o seqs[i]
    <3>1. g[i] = x \o f[i - 1]
      BY <1>3
    <3>2. CASE i = 1
      <4>1. 1 - 1 = 0
        BY SMTT(30)
      <4>2. g[i] = x \o <<>> /\ g[i - 1] = <<>> /\ seqs[i] = x
        BY <3>1, <3>2, <4>1, <1>3, <1>4, <1>1
      <4>3. x \o <<>> = x /\ <<>> \o x = x
        BY <1>1, ConcatEmptySeq
      <4> QED BY <4>2, <4>3
    <3>3. CASE i # 1
      <4>1. g[i - 1] = x \o f[(i - 1) - 1]
        BY <3>3, <1>3
      <4>2. f[i - 1] = f[(i - 1) - 1] \o seqs[i]
        BY <3>3, <1>3, <1>4
      <4>3. f[(i - 1) - 1] \in Seq(S) /\ seqs[i] \in Seq(S)
        <5>1. (i - 1) - 1 \in 0 .. n - 1
          BY <3>3, <1>1, SMTT(30)
        <5> QED BY <5>1, <1>4, ElementOfSeq DEF n
      <4>4. Associates(x, f[(i - 1) - 1], seqs[i])
        BY <1>1, <4>3, Assoc
      <4> QED BY <3>1, <4>1, <4>2, <4>4 DEF Associates
    <3> QED BY <3>2, <3>3
  <2> QED BY <2>1, <2>2 DEF Concatenates, n
<1>6. Concatenation(seqs) = x \o f[n - 1]
  <2>1. Concatenation(seqs) = g[n]
    BY <1>5, ConcatenationIs DEF n
  <2> QED BY <2>1, <1>3
<1>7. Concatenation(t) = f[n - 1]
  BY <1>1, <1>2, ConcatenationIs
<1> QED BY <1>6, <1>7 DEF t, x

-----------------------------------------------------------------------------
(* The fields of a query. *)

LEMMA ByteIsNat == Byte \subseteq Nat
  BY SMTT(30) DEF Byte

\* The bytes of a value: as many as get_size says.
LEMMA WriteValue ==
  ASSUME NEW type, NEW v, IsValue(type, v)
  PROVE  /\ write_value(type, v) \in Seq(Byte)
         /\ Len(write_value(type, v)) = size(type, v)
<1>0. 8 \in Nat /\ 4 \in Nat
  BY SMTT(30)
<1>1. CASE type = "uint64_t"
  <2>1. v \in Nat
    BY <1>1 DEF IsValue
  <2> QED BY <1>0, <1>1, <2>1, BytesType DEF write_value, size
<1>2. CASE type # "uint64_t"
  <2>1. v \in Seq(Byte) /\ Len(v) \in Nat
    BY <1>2, LenProperties DEF IsValue
  <2> DEFINE b == Bytes(Len(v), 4)
  <2>2. b \in Seq(Byte) /\ Len(b) = 4
    BY <1>0, <2>1, BytesType
  <2> HIDE DEF b
  <2>3. b \o v \in Seq(Byte) /\ Len(b \o v) = 4 + Len(v)
    <3>1. b \o v \in Seq(Byte) /\ Len(b \o v) = Len(b) + Len(v)
      BY <2>1, <2>2, ConcatProperties
    <3> QED BY <2>2, <3>1
  <2>4. write_value(type, v) = b \o v /\ size(type, v) = 4 + Len(v)
    BY <1>2 DEF write_value, size, LengthSize, b
  <2> QED BY <2>3, <2>4
<1> QED BY <1>1, <1>2

\* reader gives back what writer wrote, whatever follows it.
LEMMA ReadValue ==
  ASSUME NEW type, NEW v, IsValue(type, v), NEW rest \in Seq(Nat)
  PROVE  read_value(type, write_value(type, v) \o rest)
           = [value |-> v, size |-> Len(write_value(type, v))]
<1>0. 8 \in Nat /\ 4 \in Nat
  BY SMTT(30)
<1>1. CASE type = "uint64_t"
  <2> DEFINE b == Bytes(v, 8)
  <2>1. v \in Nat /\ Fits(v, 8)
    BY <1>1 DEF IsValue
  <2>2. b \in Seq(Byte) /\ Len(b) = 8 /\ Number(b) = v
    BY <1>0, <2>1, BytesType, NumberOfBytes
  <2>3. write_value(type, v) = b
    BY <1>1 DEF write_value
  <2> HIDE DEF b
  <2>4. b \in Seq(Nat)
    BY <2>2, ByteIsNat, SeqMonotonic
  <2>5. SubSeq(b \o rest, 1, 8) = b
    BY <2>2, <2>4, Halves
  <2> QED BY <1>1, <2>2, <2>3, <2>5 DEF read_value
<1>2. CASE type # "uint64_t"
  <2>1. v \in Seq(Byte) /\ Len(v) \in Nat /\ Fits(Len(v), 4)
    BY <1>2, LenProperties DEF IsValue, LengthSize
  <2> DEFINE b == Bytes(Len(v), 4)
  <2>2. b \in Seq(Byte) /\ Len(b) = 4 /\ Number(b) = Len(v)
    BY <1>0, <2>1, BytesType, NumberOfBytes
  <2>3. write_value(type, v) = b \o v
    BY <1>2 DEF write_value, LengthSize
  <2> HIDE DEF b
  <2>4. b \in Seq(Nat) /\ v \in Seq(Nat)
    BY <2>1, <2>2, ByteIsNat, SeqMonotonic
  <2> DEFINE c == (b \o v) \o rest
  <2>5. c = b \o (v \o rest)
    <3>1. Associates(b, v, rest)
      BY <2>4, Assoc
    <3> QED BY <3>1 DEF Associates
  <2>6. v \o rest \in Seq(Nat) /\ Len(b \o v) = 4 + Len(v)
    <3>1. v \o rest \in Seq(Nat) /\ Len(b \o v) = Len(b) + Len(v)
      BY <2>4, ConcatProperties
    <3> QED BY <2>2, <3>1
  <2>7. SubSeq(c, 1, 4) = b
    <3> HIDE DEF c
    <3>1. SubSeq(b \o (v \o rest), 1, Len(b)) = b
      BY <2>4, <2>6, Halves
    <3> QED BY <2>2, <2>5, <3>1
  <2>8. SubSeq(c, 4 + 1, 4 + Len(v)) = v
    <3>1. SubSeq(c, Len(b) + 1, Len(b) + Len(v)) = v
      BY <2>4, Middle
    <3> QED BY <2>2, <3>1
  <2>9. read_value(type, c) = [value |-> v, size |-> 4 + Len(v)]
    <3> HIDE DEF c
    <3> QED BY <1>2, <2>2, <2>7, <2>8 DEF read_value, LengthSize
  <2> QED BY <2>3, <2>6, <2>9
<1> QED BY <1>1, <1>2

\* The bytes of each field.
Parts(types, args) == [i \in 1 .. Len(types) |-> write_value(types[i], args[i])]

\* types is a Scheme and args are the values of its fields.
Fields(types, args) ==
  Len(types) \in Nat /\ \A i \in 1 .. Len(types) : IsValue(types[i], args[i])

LEMMA PartsType ==
  ASSUME NEW types, NEW args, Fields(types, args)
  PROVE  /\ Parts(types, args) \in Seq(Seq(Byte)) /\ Len(Parts(types, args)) = Len(types)
         /\ \A i \in 1 .. Len(types) : Parts(types, args)[i] = write_value(types[i], args[i])
         /\ write(types, args) = Concatenation(Parts(types, args))
<1> DEFINE p == Parts(types, args)
<1>1. p \in [1 .. Len(types) -> Seq(Byte)]
  BY WriteValue DEF Fields, Parts
<1>2. Len(types) \in Nat
  BY DEF Fields
<1>3. p \in Seq(Seq(Byte)) /\ Len(p) = Len(types)
  <2> HIDE DEF p
  <2> QED BY <1>1, <1>2, IsSeq
<1>4. \A i \in 1 .. Len(types) : Parts(types, args)[i] = write_value(types[i], args[i])
  BY DEF Parts
<1> QED BY <1>3, <1>4 DEF write, Parts

\* The bytes that the first i fields take: Len(f[i]) of them.
LEMMA Positions ==
  ASSUME NEW types, NEW args, Fields(types, args), NEW f,
         Concatenates(f, Byte, Parts(types, args))
  PROVE  /\ Len(f[0]) = 0 /\ write(types, args) = f[Len(types)]
         /\ \A i \in 0 .. Len(types) : f[i] \in Seq(Byte) /\ Len(f[i]) \in Nat
<1> DEFINE n == Len(types)
<1>1. f[0] = <<>> /\ \A i \in 0 .. n : f[i] \in Seq(Byte)
  BY PartsType DEF Concatenates
<1>2. \A i \in 0 .. n : f[i] \in Seq(Byte) /\ Len(f[i]) \in Nat
  BY <1>1, LenProperties
<1>3. Len(f[0]) = 0
  BY <1>1, EmptySeq
<1>4. write(types, args) = f[n]
  <2>1. Parts(types, args) \in Seq(Seq(Byte)) /\ Len(Parts(types, args)) = n
    BY PartsType
  <2>2. Concatenation(Parts(types, args)) = f[Len(Parts(types, args))]
    BY <2>1, ConcatenationIs
  <2> QED BY <2>1, <2>2, PartsType
<1> QED BY <1>2, <1>3, <1>4

LEMMA NextPosition ==
  ASSUME NEW types, NEW args, Fields(types, args), NEW f,
         Concatenates(f, Byte, Parts(types, args)), NEW i \in 1 .. Len(types)
  PROVE  /\ f[i] = f[i - 1] \o write_value(types[i], args[i])
         /\ Len(f[i]) = Len(f[i - 1]) + Len(write_value(types[i], args[i]))
<1>1. f[i] = f[i - 1] \o write_value(types[i], args[i])
  BY PartsType DEF Concatenates
<1>2. write_value(types[i], args[i]) \in Seq(Byte)
  BY WriteValue DEF Fields
<1>3. f[i - 1] \in Seq(Byte)
  <2>1. i - 1 \in 0 .. Len(types)
    BY SMTT(30) DEF Fields
  <2> QED BY <2>1, Positions
<1>4. Len(f[i - 1] \o write_value(types[i], args[i])) = Len(f[i - 1]) + Len(write_value(types[i], args[i]))
  BY <1>2, <1>3, ConcatProperties
<1> QED BY <1>1, <1>4

\* Scheme::capacity is the number of bytes that Scheme::write writes.
LEMMA CapacityIsLength ==
  ASSUME NEW types, NEW args, Fields(types, args)
  PROVE  write(types, args) \in Seq(Byte) /\ capacity(types, args) = Len(write(types, args))
<1> DEFINE n == Len(types)
           UpTo(g) == g = [i \in 0 .. n |-> IF i = 0 THEN 0 ELSE g[i - 1] + size(types[i], args[i])]
           h == CHOOSE g : UpTo(g)
<1>1. n \in Nat
  BY DEF Fields
<1>2. PICK f : Concatenates(f, Byte, Parts(types, args))
  BY PartsType, ConcatenationExists
<1>3. /\ Len(f[0]) = 0 /\ write(types, args) = f[n]
      /\ \A i \in 0 .. n : f[i] \in Seq(Byte) /\ Len(f[i]) \in Nat
      /\ \A i \in 1 .. n : Len(f[i]) = Len(f[i - 1]) + size(types[i], args[i])
  <2>1. \A i \in 1 .. n : Len(write_value(types[i], args[i])) = size(types[i], args[i])
    BY WriteValue DEF Fields
  <2>2. /\ Len(f[0]) = 0 /\ write(types, args) = f[n]
        /\ \A i \in 0 .. n : f[i] \in Seq(Byte) /\ Len(f[i]) \in Nat
    BY <1>2, Positions
  <2>3. ASSUME NEW i \in 1 .. n
        PROVE  Len(f[i]) = Len(f[i - 1]) + Len(write_value(types[i], args[i]))
    BY <1>2, NextPosition
  <2> QED BY <2>1, <2>2, <2>3
<1>4. capacity(types, args) = h[n]
  BY DEF capacity
<1> HIDE DEF n
<1> DEFINE k == [i \in 0 .. n |-> Len(f[i])]
<1>5. 0 \in 0 .. n /\ n \in 0 .. n /\ \A i \in 0 .. n : i # 0 => i \in 1 .. n /\ i - 1 \in 0 .. n
  BY <1>1, SMTT(30)
<1>6. \A i \in 1 .. n : i \in 0 .. n /\ i # 0
  BY <1>1, SMTT(30)
<1>7. UpTo(k)
  BY <1>3, <1>5
<1>8. UpTo(h)
  <2> HIDE DEF UpTo, k
  <2> QED BY <1>7
<1>9. \A i \in 0 .. n : h[i] = IF i = 0 THEN 0 ELSE h[i - 1] + size(types[i], args[i])
  BY <1>8
<1> HIDE DEF h, k
<1> DEFINE T == {i \in 0 .. n : h[i] = Len(f[i])}
<1>10. 0 \in T
  BY <1>3, <1>5, <1>9
<1>11. \A i \in 1 .. n : i - 1 \in T => i \in T
  BY <1>3, <1>6, <1>9
<1>12. n \in T
  <2> HIDE DEF T
  <2> QED BY <1>1, <1>5, <1>10, <1>11, Upward
<1> QED BY <1>3, <1>4, <1>5, <1>12

\* Scheme::read gives back what Scheme::write wrote, whatever follows it.
LEMMA ReadWrite ==
  ASSUME NEW types, NEW args, Fields(types, args), NEW rest \in Seq(Nat)
  PROVE  read(types, write(types, args) \o rest) = [i \in 1 .. Len(types) |-> args[i]]
<1> DEFINE n == Len(types)
           v(i) == write_value(types[i], args[i])
           bytes == write(types, args) \o rest
           at(i) == [it \in Nat |-> read_value(types[i], SubSeq(bytes, it + 1, Len(bytes)))]
           Its(g) == g = [i \in 0 .. n |-> IF i = 0 THEN 0 ELSE g[i - 1] + at(i)[g[i - 1]].size]
           its == CHOOSE g : Its(g)
<1>1. n \in Nat
  BY DEF Fields
<1>2. PICK f : Concatenates(f, Byte, Parts(types, args))
  BY PartsType, ConcatenationExists
<1>3. /\ Len(f[0]) = 0 /\ write(types, args) = f[n]
      /\ \A i \in 0 .. n : f[i] \in Seq(Byte) /\ Len(f[i]) \in Nat
  BY <1>2, Positions
<1>4. ASSUME NEW i \in 1 .. n PROVE f[i] = f[i - 1] \o v(i)
  BY <1>2, NextPosition
<1>5. ASSUME NEW i \in 1 .. n PROVE Len(f[i]) = Len(f[i - 1]) + Len(v(i))
  BY <1>2, NextPosition
<1>6. \A i \in 1 .. n : v(i) \in Seq(Nat)
  <2>1. \A i \in 1 .. n : v(i) \in Seq(Byte)
    BY WriteValue DEF Fields
  <2> HIDE DEF v
  <2> QED BY <2>1, ByteIsNat, SeqMonotonic
<1>7. \A i \in 0 .. n : f[i] \in Seq(Nat)
  BY <1>3, ByteIsNat, SeqMonotonic
<1>8. /\ 0 \in 0 .. n /\ n \in 0 .. n
      /\ \A i \in 0 .. n : n - i \in 0 .. n /\ (i # 0 => i \in 1 .. n /\ i - 1 \in 0 .. n)
      /\ \A i \in 1 .. n : i \in 0 .. n /\ i - 1 \in 0 .. n /\ i # 0
      /\ \A i \in 1 .. n : n - (i - 1) \in 1 .. n /\ (n - (i - 1)) - 1 = n - i
      /\ n - 0 = n /\ \A i \in 0 .. n : n - (n - i) = i
  <2> HIDE DEF n
  <2> QED BY <1>1, SMTT(30)
<1>9. read(types, bytes) = [i \in 1 .. n |-> at(i)[its[i - 1]].value]
  BY DEF read
<1>10. \A i \in 0 .. n : \E r \in Seq(Nat) : bytes = f[i] \o r
  <2> HIDE DEF v, n
  <2> DEFINE T == {j \in 0 .. n : \E r \in Seq(Nat) : bytes = f[n - j] \o r}
  <2>1. 0 \in T
    BY <1>3, <1>8
  <2>2. ASSUME NEW j \in 1 .. n, j - 1 \in T PROVE j \in T
    <3> DEFINE i == n - (j - 1)
    <3>1. i \in 1 .. n /\ i - 1 = n - j /\ i - 1 \in 0 .. n
      BY <1>8
    <3>2. PICK r \in Seq(Nat) : bytes = f[i] \o r
      BY <2>2
    <3> HIDE DEF i
    <3> DEFINE a == f[i - 1]
               b == v(i)
    <3>3. a \in Seq(Nat) /\ b \in Seq(Nat)
      BY <3>1, <1>6, <1>7
    <3>4. f[i] = a \o b
      BY <3>1, <1>4
    <3> HIDE DEF a, b, bytes
    <3>5. Associates(a, b, r)
      BY <3>3, Assoc
    <3>6. b \o r \in Seq(Nat)
      BY <3>3, ConcatProperties
    <3>7. bytes = a \o (b \o r)
      BY <3>2, <3>4, <3>5 DEF Associates
    <3>8. bytes = f[n - j] \o (b \o r)
      BY <3>1, <3>7 DEF a
    <3>9. j \in 0 .. n
      BY <1>8
    <3>10. \E q \in Seq(Nat) : bytes = f[n - j] \o q
      BY <3>6, <3>8
    <3> QED BY <3>9, <3>10
  <2> HIDE DEF T
  <2>3. \A j \in 0 .. n : j \in T
    BY <1>1, <2>1, <2>2, Upward
  <2>4. ASSUME NEW i \in 0 .. n PROVE \E r \in Seq(Nat) : bytes = f[i] \o r
    <3> HIDE DEF bytes
    <3>1. n - i \in T /\ n - (n - i) = i
      BY <2>3, <1>8
    <3>2. \E r \in Seq(Nat) : bytes = f[n - (n - i)] \o r
      BY <3>1 DEF T
    <3> QED BY <3>1, <3>2
  <2> QED BY <2>4
<1>11. ASSUME NEW i \in 1 .. n
       PROVE  at(i)[Len(f[i - 1])].value = args[i] /\ at(i)[Len(f[i - 1])].size = Len(v(i))
  <2> DEFINE a == f[i - 1]
             b == v(i)
  <2>1. a \in Seq(Nat) /\ b \in Seq(Nat) /\ Len(a) \in Nat /\ f[i] = a \o b
    BY <1>3, <1>4, <1>6, <1>7, <1>8
  <2>2. PICK r \in Seq(Nat) : bytes = f[i] \o r
    BY <1>8, <1>10
  <2>3. IsValue(types[i], args[i])
    BY DEF Fields
  <2>4. read_value(types[i], b \o r).value = args[i] /\ read_value(types[i], b \o r).size = Len(b)
    <3>1. read_value(types[i], b \o r) = [value |-> args[i], size |-> Len(b)]
      BY <2>3, ReadValue
    <3> HIDE DEF b
    <3> QED BY <3>1, SMTT(30)
  <2>5. at(i)[Len(a)] = read_value(types[i], SubSeq(bytes, Len(a) + 1, Len(bytes)))
    BY <2>1
  <2> HIDE DEF v, n, a, b, bytes, at
  <2>6. bytes = a \o (b \o r)
    <3>1. Associates(a, b, r)
      BY <2>1, Assoc
    <3> QED BY <2>1, <2>2, <3>1 DEF Associates
  <2>7. b \o r \in Seq(Nat)
    BY <2>1, ConcatProperties
  <2>8. SubSeq(bytes, Len(a) + 1, Len(bytes)) = b \o r
    BY <2>1, <2>6, <2>7, Halves
  <2> QED BY <2>4, <2>5, <2>8 DEF a, b
<1> HIDE DEF n, v, bytes, at
<1> DEFINE k == [i \in 0 .. n |-> Len(f[i])]
<1>12. Its(k)
  <2>1. \A i \in 0 .. n : k[i] = IF i = 0 THEN 0 ELSE k[i - 1] + at(i)[k[i - 1]].size
    <3>1. k[0] = 0
      BY <1>3, <1>8
    <3>2. ASSUME NEW i \in 1 .. n PROVE k[i] = k[i - 1] + at(i)[k[i - 1]].size
      <4>1. k[i] = Len(f[i]) /\ k[i - 1] = Len(f[i - 1])
        BY <1>8
      <4> HIDE DEF k
      <4> QED BY <4>1, <1>5, <1>11
    <3> HIDE DEF k
    <3> QED BY <3>1, <3>2, <1>8
  <2> QED BY <2>1
<1>13. Its(its)
  <2> HIDE DEF Its, k
  <2> QED BY <1>12
<1>14. \A i \in 0 .. n : its[i] = IF i = 0 THEN 0 ELSE its[i - 1] + at(i)[its[i - 1]].size
  BY <1>13
<1> HIDE DEF its, k
<1> DEFINE T == {i \in 0 .. n : its[i] = Len(f[i])}
<1>15. 0 \in T
  BY <1>3, <1>8, <1>14
<1>16. ASSUME NEW i \in 1 .. n, i - 1 \in T PROVE i \in T
  <2>1. its[i - 1] = Len(f[i - 1])
    BY <1>16
  <2>2. its[i] = its[i - 1] + at(i)[its[i - 1]].size
    BY <1>8, <1>14
  <2>3. its[i] = Len(f[i])
    BY <2>1, <2>2, <1>5, <1>11
  <2> QED BY <2>3, <1>8
<1>17. \A i \in 0 .. n : i \in T
  <2> HIDE DEF T
  <2> QED BY <1>1, <1>15, <1>16, Upward
<1>18. \A i \in 1 .. n : at(i)[its[i - 1]].value = args[i]
  <2>1. \A i \in 1 .. n : its[i - 1] = Len(f[i - 1])
    BY <1>8, <1>17
  <2> HIDE DEF T
  <2> QED BY <1>11, <2>1
<1>19. read(types, bytes) = [i \in 1 .. n |-> args[i]]
  BY <1>9, <1>18
<1> QED BY <1>19 DEF n, bytes

-----------------------------------------------------------------------------
(* Messages. *)

\* The number of a kind stands for the kind, and two bytes hold it.
LEMMA Kinds ==
  ASSUME NEW kind, \E i \in DOMAIN MessageKinds : kind = MessageKinds[i]
  PROVE  /\ KindNumber(kind) \in Nat /\ Fits(KindNumber(kind), 2)
         /\ MessageKinds[KindNumber(kind) + 1] = kind
<1> DEFINE c == CHOOSE i \in DOMAIN MessageKinds : MessageKinds[i] = kind
<1>1. c \in DOMAIN MessageKinds /\ MessageKinds[c] = kind
  OBVIOUS
<1>2. DOMAIN MessageKinds = 1 .. 7
  BY SMTT(30) DEF MessageKinds
<1>3. KindNumber(kind) = c - 1
  BY DEF KindNumber
<1> HIDE DEF c
<1> DEFINE k == c - 1
<1>4. k \in 0 .. 6 /\ k + 1 = c /\ k \in Nat
  BY <1>1, <1>2, SMTT(30)
<1>5. Fits(k, 2)
  <2> HIDE DEF k
  <2> DEFINE s == Shifted(k, 2)
  <2>1. 2 \in Nat /\ 1 \in 1 .. 2 /\ 2 \in 1 .. 2
    BY SMTT(30)
  <2>2. s[0] = k
    BY <1>4, <2>1, ShiftedDef
  <2>3. \A i \in 1 .. 2 : s[i] = s[i - 1] \div 256
    BY <1>4, <2>1, ShiftedNext, SMTT(30)
  <2> HIDE DEF s
  <2>4. s[2] = 0
    BY <1>4, <2>2, <2>3, SMTT(30)
  <2> QED BY <2>4 DEF Fits, s
<1> QED BY <1>1, <1>3, <1>4, <1>5

LEMMA SchemeLength ==
  ASSUME NEW kind, \E i \in DOMAIN MessageKinds : kind = MessageKinds[i]
  PROVE  Len(Scheme(kind)) \in Nat
<1>1. kind \in {"OK", "LOGIN", "LOGIN_CONFIRM", "CREATE_QUEUE", "SUBSCRIBE", "UNSUBSCRIBE", "PUBLISH"}
  BY SMTT(30) DEF MessageKinds
<1>2. CASE kind \in {"OK", "LOGIN_CONFIRM"}
  <2>1. Scheme(kind) = <<"uint64_t">>
    BY <1>2, SMTT(30) DEF Scheme
  <2> QED BY <2>1, SMTT(30)
<1>3. CASE kind = "LOGIN"
  <2>1. Scheme(kind) = <<"string">>
    BY <1>3, SMTT(30) DEF Scheme
  <2> QED BY <2>1, SMTT(30)
<1>4. CASE kind = "CREATE_QUEUE"
  <2>1. Scheme(kind) = <<"string", "uint64_t">>
    BY <1>4, SMTT(30) DEF Scheme
  <2> QED BY <2>1, SMTT(30)
<1>5. CASE kind \in {"SUBSCRIBE", "UNSUBSCRIBE"}
  <2>1. Scheme(kind) = <<"string", "string", "uint64_t">>
    BY <1>5, SMTT(30) DEF Scheme
  <2> QED BY <2>1, SMTT(30)
<1>6. CASE kind = "PUBLISH"
  <2>1. Scheme(kind) = <<"string", "string", "vector", "uint64_t">>
    BY <1>6, SMTT(30) DEF Scheme
  <2> QED BY <2>1, SMTT(30)
<1> QED BY <1>1, <1>2, <1>3, <1>4, <1>5, <1>6

\* m is the query as a message: its size, and what follows that.
IsMessage(m, query, body) ==
  /\ body \in Seq(Byte) /\ Len(body) \in Nat \ {0}
  /\ m = Bytes(Len(m), SIZE_OF_MESSAGE_SIZE) \o body
  /\ Len(m) = SIZE_OF_MESSAGE_SIZE + Len(body) /\ Fits(Len(m), SIZE_OF_MESSAGE_SIZE)
  /\ FromNetworkMessage(body) = query

\* A query that is read from its own bytes is the query.
LEMMA Message ==
  ASSUME NEW query, IsQuery(query)
  PROVE  \E body : IsMessage(toNetworkMessage(query), query, body)
<1> DEFINE kind == query.kind
           types == Scheme(kind)
           args == query.args
           w == write(types, args)
           k == KindNumber(kind)
           kb == Bytes(k, 2)
           body == kb \o w
           sz == capacity(types, args) + 2
           realSize == sz + 4
           hdr == Bytes(realSize, 4)
           zeroes == [i \in 1 .. sz |-> 0]
<1>1. k \in Nat /\ Fits(k, 2) /\ MessageKinds[k + 1] = kind
  BY Kinds DEF IsQuery
<1>2. Fields(types, args)
  BY SchemeLength DEF IsQuery, Fields
<1>3. w \in Seq(Byte) /\ capacity(types, args) = Len(w)
  BY <1>2, CapacityIsLength
<1>4. args = [i \in 1 .. Len(types) |-> args[i]]
  BY DEF IsQuery
<1>5. Fits(realSize, 4)
  BY DEF IsQuery, SIZE_OF_KIND, SIZE_OF_MESSAGE_SIZE
<1>6. query = [kind |-> kind, args |-> args]
  BY DEF IsQuery
<1>7. toNetworkMessage(query) = SubSeq((hdr \o body) \o zeroes, 1, realSize)
  BY DEF toNetworkMessage, NetworkMessage, SIZE_OF_KIND, SIZE_OF_MESSAGE_SIZE
<1> HIDE DEF types, args
<1>8. 2 \in Nat /\ 4 \in Nat
  BY SMTT(30)
<1>9. kb \in Seq(Byte) /\ Len(kb) = 2 /\ Number(kb) = k
  <2> HIDE DEF k
  <2> QED BY <1>1, <1>8, BytesType, NumberOfBytes
<1> HIDE DEF w, k, kb
<1>10. body \in Seq(Byte) /\ Len(body) = Len(kb) + Len(w)
  BY <1>3, <1>9, ConcatProperties
<1>11. /\ Len(w) \in Nat /\ sz = Len(body) /\ sz \in Nat /\ sz # 0
       /\ realSize \in Nat /\ realSize = 4 + Len(body)
  <2>1. Len(w) \in Nat
    BY <1>3, LenProperties
  <2> HIDE DEF body
  <2> QED BY <2>1, <1>3, <1>9, <1>10, SMTT(30)
<1>12. FromNetworkMessage(body) = query
  <2> DEFINE spare == [i \in 1 .. SIZE_OF_MESSAGE_SIZE + Len(body) |-> Uninitialised]
             value == SubSeq(body, 2 + 1, Len(body))
  <2>1. SubSeq(body, 1, 2) = kb /\ value = w
    <3>1. SubSeq(kb \o w, 1, Len(kb)) = kb /\ SubSeq(kb \o w, Len(kb) + 1, Len(kb \o w)) = w
      BY <1>3, <1>9, Halves
    <3> QED BY <1>9, <3>1
  <2>2. spare \in Seq(Nat)
    <3> DEFINE n == SIZE_OF_MESSAGE_SIZE + Len(body)
    <3>1. n \in Nat /\ Uninitialised \in Nat
      <4> HIDE DEF body
      <4> QED BY <1>10, <1>9, <1>11, SMTT(30) DEF SIZE_OF_MESSAGE_SIZE, Uninitialised
    <3>2. spare \in [1 .. n -> Nat]
      BY <3>1
    <3> HIDE DEF n, spare
    <3> QED BY <3>1, <3>2, IsSeq
  <2> HIDE DEF spare
  <2>3. read(types, w \o spare) = args
    <3>1. read(types, w \o spare) = [i \in 1 .. Len(types) |-> args[i]]
      BY <1>2, <2>2, ReadWrite, SMTT(30) DEF w
    <3> QED BY <1>4, <3>1
  <2>4. FromNetworkMessage(body) =
          [kind |-> MessageKinds[Number(SubSeq(body, 1, 2)) + 1],
           args |-> read(Scheme(MessageKinds[Number(SubSeq(body, 1, 2)) + 1]), value \o spare)]
    BY DEF FromNetworkMessage, SIZE_OF_KIND, spare
  <2> HIDE DEF body, value, kind
  <2>5. FromNetworkMessage(body) = [kind |-> kind, args |-> args]
    BY <1>1, <1>9, <2>1, <2>3, <2>4 DEF types
  <2> QED BY <1>6, <2>5
<1> HIDE DEF body, sz
<1>13. hdr \in Seq(Byte) /\ Len(hdr) = 4
  <2> HIDE DEF realSize
  <2> QED BY <1>8, <1>11, BytesType
<1> HIDE DEF hdr
<1>14. hdr \o body \in Seq(Byte) /\ Len(hdr \o body) = realSize
  <2>1. hdr \o body \in Seq(Byte) /\ Len(hdr \o body) = Len(hdr) + Len(body)
    BY <1>10, <1>13, ConcatProperties
  <2> HIDE DEF realSize
  <2> QED BY <2>1, <1>11, <1>13
<1>15. zeroes \in Seq(Byte)
  <2>1. 0 \in Byte
    BY SMTT(30) DEF Byte
  <2>2. zeroes \in [1 .. sz -> Byte]
    BY <2>1
  <2> HIDE DEF zeroes
  <2> QED BY <1>11, <2>2, IsSeq
<1> HIDE DEF zeroes, realSize
<1>16. toNetworkMessage(query) = hdr \o body
  <2> DEFINE m == hdr \o body
  <2>1. m \in Seq(Byte) /\ Len(m) = realSize
    BY <1>14
  <2>2. toNetworkMessage(query) = SubSeq(m \o zeroes, 1, realSize)
    BY <1>7
  <2> HIDE DEF m
  <2>3. SubSeq(m \o zeroes, 1, Len(m)) = m
    BY <1>15, <2>1, Halves
  <2> QED BY <2>1, <2>2, <2>3 DEF m
<1>17. IsMessage(toNetworkMessage(query), query, body)
  BY <1>5, <1>10, <1>11, <1>12, <1>14, <1>16 DEF IsMessage, SIZE_OF_MESSAGE_SIZE, hdr
<1> QED BY <1>17

-----------------------------------------------------------------------------
(* The bytes of the messages that were sent and not received yet. *)

\* The messages of s after the first r, and their bytes.
Pending(s, r) == [i \in 1 .. Len(s) - r |-> as_buffer[s[r + i]]]
Flat(s, r) == Concatenation(Pending(s, r))

LEMMA BufferType ==
  ASSUME NEW query \in Query
  PROVE  as_buffer[query] \in Seq(Byte) /\ \E body : IsMessage(as_buffer[query], query, body)
<1> DEFINE m == toNetworkMessage(query)
<1>1. as_buffer[query] = m
  BY DEF as_buffer
<1>2. IsQuery(query)
  BY AsyncIOAssumption
<1>3. PICK body : IsMessage(m, query, body)
  BY <1>2, Message
<1> HIDE DEF m
<1>4. m \in Seq(Byte)
  <2> DEFINE b == Bytes(Len(m), 4)
  <2>1. Len(m) \in Nat /\ 4 \in Nat /\ body \in Seq(Byte) /\ m = b \o body
    BY <1>3, SMTT(30) DEF IsMessage, SIZE_OF_MESSAGE_SIZE
  <2>2. b \in Seq(Byte)
    BY <2>1, BytesType
  <2> HIDE DEF b
  <2> QED BY <2>1, <2>2, ConcatProperties
<1> QED BY <1>1, <1>3, <1>4

LEMMA PendingType ==
  ASSUME NEW s \in Seq(Query), NEW r \in 0 .. Len(s)
  PROVE  /\ Pending(s, r) \in Seq(Seq(Byte)) /\ Len(Pending(s, r)) = Len(s) - r
         /\ Len(s) \in Nat /\ r \in Nat /\ Len(s) - r \in Nat
<1>1. Len(s) \in Nat
  BY LenProperties
<1>2. Len(s) - r \in Nat /\ r \in Nat /\ \A i \in 1 .. Len(s) - r : r + i \in 1 .. Len(s)
  BY <1>1, SMTT(30)
<1>3. \A i \in 1 .. Len(s) - r : as_buffer[s[r + i]] \in Seq(Byte)
  BY <1>2, ElementOfSeq, BufferType
<1>4. Pending(s, r) \in [1 .. Len(s) - r -> Seq(Byte)]
  BY <1>3 DEF Pending
<1> QED BY <1>1, <1>2, <1>4, IsSeq

\* One more message that was sent.
LEMMA FlatAppend ==
  ASSUME NEW s \in Seq(Query), NEW r \in 0 .. Len(s), NEW query \in Query
  PROVE  Flat(Append(s, query), r) = Flat(s, r) \o as_buffer[query]
<1> DEFINE t == Append(s, query)
           p == Pending(s, r)
           u == Pending(t, r)
           v == Append(p, as_buffer[query])
           n == Len(s) - r
<1>1. /\ p \in Seq(Seq(Byte)) /\ Len(p) = n /\ Len(s) \in Nat /\ r \in Nat /\ n \in Nat
  BY PendingType
<1>2. /\ t \in Seq(Query) /\ Len(t) = Len(s) + 1 /\ t[Len(s) + 1] = query
      /\ \A i \in 1 .. Len(s) : t[i] = s[i]
  BY AppendProperties, SMTT(30)
<1> HIDE DEF t
<1>3. as_buffer[query] \in Seq(Byte)
  BY BufferType
<1>4. r \in 0 .. Len(t) /\ Len(t) - r = n + 1
  BY <1>1, <1>2, SMTT(30)
<1>5. u \in Seq(Seq(Byte)) /\ Len(u) = n + 1
  BY <1>2, <1>4, PendingType
<1>6. /\ v \in Seq(Seq(Byte)) /\ Len(v) = n + 1 /\ v[n + 1] = as_buffer[query]
      /\ \A i \in 1 .. n : v[i] = p[i]
  <2> HIDE DEF p, n
  <2>1. /\ v \in Seq(Seq(Byte)) /\ Len(v) = Len(p) + 1 /\ v[Len(p) + 1] = as_buffer[query]
    BY <1>1, <1>3, AppendProperties
  <2>2. \A i \in 1 .. Len(p) : v[i] = p[i]
    BY <1>1, <1>3, AppendProperties, SMTT(30)
  <2> HIDE DEF v
  <2> QED BY <1>1, <2>1, <2>2
<1>7. \A i \in 1 .. n : u[i] = as_buffer[t[r + i]] /\ p[i] = as_buffer[s[r + i]]
  <2>1. \A i \in 1 .. n : i \in 1 .. Len(t) - r
    BY <1>1, <1>4, SMTT(30)
  <2> QED BY <2>1 DEF Pending
<1>8. u[n + 1] = as_buffer[t[r + (n + 1)]]
  <2>1. n + 1 \in 1 .. Len(t) - r
    BY <1>1, <1>4, SMTT(30)
  <2> QED BY <2>1 DEF Pending
<1>9. r + (n + 1) = Len(s) + 1 /\ \A i \in 1 .. n : r + i \in 1 .. Len(s)
  BY <1>1, SMTT(30)
<1>10. u[n + 1] = v[n + 1] /\ \A i \in 1 .. n : u[i] = v[i]
  <2> HIDE DEF u, v, p, n
  <2>1. u[n + 1] = v[n + 1]
    BY <1>2, <1>6, <1>8, <1>9
  <2>2. ASSUME NEW i \in 1 .. n PROVE u[i] = v[i]
    <3>1. u[i] = as_buffer[t[r + i]] /\ p[i] = as_buffer[s[r + i]] /\ r + i \in 1 .. Len(s) /\ v[i] = p[i]
      BY <1>6, <1>7, <1>9
    <3>2. t[r + i] = s[r + i]
      BY <1>2, <3>1
    <3> QED BY <3>1, <3>2
  <2> QED BY <2>1, <2>2
<1>11. u = v
  <2> HIDE DEF u, v, p, n
  <2>1. \A i \in 1 .. Len(u) : i \in 1 .. n \/ i = n + 1
    BY <1>1, <1>5, SMTT(30)
  <2>2. Len(u) = Len(v)
    BY <1>5, <1>6
  <2>3. \A i \in 1 .. Len(u) : u[i] = v[i]
    BY <1>10, <2>1
  <2> QED BY <1>5, <1>6, <2>2, <2>3, SeqEqual
<1>12. Concatenation(v) = Concatenation(p) \o as_buffer[query]
  <2> HIDE DEF p
  <2> QED BY <1>1, <1>3, ConcatenationAppend
<1> QED BY <1>11, <1>12 DEF Flat, t

LEMMA FlatType ==
  ASSUME NEW s \in Seq(Query), NEW r \in 0 .. Len(s)
  PROVE  Flat(s, r) \in Seq(Byte)
  BY PendingType, ConcatenationType DEF Flat

LEMMA FlatEmpty ==
  ASSUME NEW s \in Seq(Query)
  PROVE  Flat(s, Len(s)) = <<>>
<1>1. Len(s) \in Nat
  BY LenProperties
<1>2. Len(s) \in 0 .. Len(s) /\ Len(s) - Len(s) = 0
  BY <1>1, SMTT(30)
<1>3. Pending(s, Len(s)) \in Seq(Seq(Byte)) /\ Len(Pending(s, Len(s))) = 0
  <2>1. Pending(s, Len(s)) \in Seq(Seq(Byte)) /\ Len(Pending(s, Len(s))) = Len(s) - Len(s)
    BY <1>2, PendingType
  <2> QED BY <1>2, <2>1
<1>4. Pending(s, Len(s)) = <<>>
  BY <1>3, EmptySeq
<1> QED BY <1>4, ConcatenationEmpty DEF Flat

\* The first message that is not received yet.
LEMMA FlatHead ==
  ASSUME NEW s \in Seq(Query), NEW r \in 0 .. Len(s), r # Len(s)
  PROVE  Flat(s, r) = as_buffer[s[r + 1]] \o Flat(s, r + 1)
<1> DEFINE p == Pending(s, r)
           u == Pending(s, r + 1)
           n == Len(s) - r
<1>1. p \in Seq(Seq(Byte)) /\ Len(p) = n /\ Len(s) \in Nat /\ r \in Nat /\ n \in Nat
  BY PendingType
<1>2. r + 1 \in 0 .. Len(s) /\ Len(s) - (r + 1) = n - 1 /\ 1 \in 1 .. n /\ n # 0
  BY <1>1, SMTT(30)
<1>3. u \in Seq(Seq(Byte)) /\ Len(u) = n - 1
  BY <1>2, PendingType
<1>4. p[1] = as_buffer[s[r + 1]]
  BY <1>2 DEF Pending
<1>5. \A i \in 1 .. n - 1 : u[i] = as_buffer[s[(r + 1) + i]] /\ p[i + 1] = as_buffer[s[r + (i + 1)]]
  <2>1. \A i \in 1 .. n - 1 : i \in 1 .. Len(s) - (r + 1) /\ i + 1 \in 1 .. n
    BY <1>1, <1>2, SMTT(30)
  <2> QED BY <2>1 DEF Pending
<1>6. \A i \in 1 .. n - 1 : (r + 1) + i = r + (i + 1)
  BY <1>1, SMTT(30)
<1> HIDE DEF p, u, n
<1>7. p # <<>>
  BY <1>1, <1>2, EmptySeq
<1>8. /\ Tail(p) \in Seq(Seq(Byte)) /\ Len(Tail(p)) = Len(p) - 1
      /\ \A i \in 1 .. Len(Tail(p)) : Tail(p)[i] = p[i + 1]
  BY <1>1, <1>7, HeadTailProperties
<1>9. Head(p) = p[1]
  BY <1>1, <1>7, SMTT(30)
<1>10. Tail(p) = u
  <2>1. Len(Tail(p)) = Len(u) /\ Len(u) = n - 1
    BY <1>1, <1>3, <1>8
  <2>2. ASSUME NEW i \in 1 .. Len(Tail(p)) PROVE Tail(p)[i] = u[i]
    <3>1. i \in 1 .. n - 1 /\ (r + 1) + i = r + (i + 1)
      BY <2>1, <1>6
    <3>2. u[i] = as_buffer[s[(r + 1) + i]] /\ p[i + 1] = as_buffer[s[r + (i + 1)]]
      BY <3>1, <1>5
    <3>3. Tail(p)[i] = p[i + 1]
      BY <1>8
    <3> QED BY <3>1, <3>2, <3>3
  <2> QED BY <1>3, <1>8, <2>1, <2>2, SeqEqual
<1>11. Concatenation(p) = Head(p) \o Concatenation(Tail(p))
  BY <1>1, <1>7, ConcatenationHead
<1> QED BY <1>4, <1>9, <1>10, <1>11 DEF Flat, p, u

-----------------------------------------------------------------------------
(* The inductive invariant of the stream. *)

\* The size of the message whose body is being read, as the bytes it came in.
Header == IF expected = 0 THEN <<>> ELSE Bytes(expected, SIZE_OF_MESSAGE_SIZE)

\* The types of the state, but for the counters, and what is left of them once
\* messages have mixed.
MixedTypes ==
  /\ sent \in Seq(Query) /\ received \in Seq(Query \cup {Garbled})
  /\ cut \in BOOLEAN /\ stoping \in BOOLEAN /\ mixed \in BOOLEAN /\ reading \in BOOLEAN
  /\ writing \in Seq(Seq(Byte))
  /\ wire \in Seq(Byte) /\ Len(wire) <= Room
  /\ got \in Seq(Byte)
  /\ expected \in Nat

Types ==
  /\ sent \in Seq(Query) /\ received \in Seq(Query)
  /\ cut \in BOOLEAN /\ stoping \in BOOLEAN /\ mixed \in BOOLEAN /\ reading \in BOOLEAN
  /\ writing \in Seq(Seq(Byte))
  /\ wire \in Seq(Byte) /\ Len(wire) <= Room
  /\ got \in Seq(Byte)
  /\ expected \in Nat

\* From what the reader has taken on, the bytes are those of the messages that
\* were sent and not received yet: all of them, unless the connection is cut.
InStream(rest) ==
  /\ rest \in Seq(Byte)
  /\ Flat(sent, Len(received)) = Header \o (got \o (wire \o rest))
  /\ ~cut => rest = Concatenation(writing)

StreamInv ==
  /\ ~mixed
  /\ Types
  /\ Len(received) <= Len(sent)
  /\ \E rest : InStream(rest)
  /\ Fits(expected, SIZE_OF_MESSAGE_SIZE)
  /\ Missing > 0

\* The invariant of AsyncIO.
AsyncInv == IF mixed THEN MixedTypes ELSE StreamInv

LEMMA MinOfTwo ==
  ASSUME NEW a \in Int, NEW b \in Int
  PROVE  Min({a, b}) = IF a <= b THEN a ELSE b
<1> DEFINE P(x) == x \in {a, b} /\ \A y \in {a, b} : x <= y
           m == CHOOSE x \in {a, b} : \A y \in {a, b} : x <= y
           c == IF a <= b THEN a ELSE b
<1>1. P(c)
  BY SMTT(30)
<1>2. m \in {a, b} /\ \A y \in {a, b} : m <= y
  <2> HIDE DEF c
  <2> QED BY <1>1
<1>3. Min({a, b}) = m
  BY DEF Min
<1> HIDE DEF m
<1>4. m = c
  BY <1>1, <1>2, SMTT(30)
<1> QED BY <1>3, <1>4

LEMMA HeaderType ==
  ASSUME expected \in Nat
  PROVE  Header \in Seq(Byte) /\ Len(Header) = IF expected = 0 THEN 0 ELSE 4
<1>1. CASE expected = 0
  BY <1>1, EmptySeq DEF Header
<1>2. CASE expected # 0
  <2>1. 4 \in Nat
    BY SMTT(30)
  <2> QED BY <1>2, <2>1, BytesType DEF Header, SIZE_OF_MESSAGE_SIZE
<1> QED BY <1>1, <1>2

\* send puts the bytes of its query behind those that wait.
LEMMA SendStream ==
  ASSUME StreamInv, NEW query \in Query, send(query)
  PROVE  StreamInv'
<1> DEFINE b == as_buffer[query]
<1>1. b \in Seq(Byte)
  BY BufferType
<1>2. /\ sent' = Append(sent, query) /\ writing' = Append(writing, b)
      /\ UNCHANGED <<received, cut, stoping, wire, mixed, reading, got, expected>>
  BY DEF send
<1>3. Types /\ Len(received) <= Len(sent)
  BY DEF StreamInv
<1>4. PICK rest : InStream(rest)
  BY DEF StreamInv
<1> HIDE DEF b
<1>5. sent' \in Seq(Query) /\ Len(sent') = Len(sent) + 1 /\ Len(sent) \in Nat /\ Len(received) \in Nat
  BY <1>2, <1>3, AppendProperties, LenProperties DEF Types
<1>6. writing' \in Seq(Seq(Byte)) /\ Len(writing') = Len(writing) + 1 /\ Len(writing) \in Nat
  BY <1>1, <1>2, <1>3, AppendProperties, LenProperties DEF Types
<1>7. Types'
  BY <1>2, <1>3, <1>5, <1>6 DEF Types
<1>8. (Len(received) <= Len(sent))' /\ Len(received) \in 0 .. Len(sent)
  BY <1>2, <1>3, <1>5, SMTT(30)
<1>9. Concatenation(writing') = Concatenation(writing) \o b /\ Concatenation(writing) \in Seq(Byte)
  BY <1>1, <1>2, <1>3, ConcatenationAppend, ConcatenationType DEF Types
<1>10. Flat(sent', Len(received)) = Flat(sent, Len(received)) \o b
  BY <1>2, <1>3, <1>8, FlatAppend DEF b, Types
<1>11. InStream(rest \o b)'
  <2> DEFINE h == Header
             f == Flat(sent, Len(received))
  <2>1. h \in Seq(Byte) /\ got \in Seq(Byte) /\ wire \in Seq(Byte) /\ rest \in Seq(Byte)
    BY <1>3, <1>4, HeaderType DEF Types, InStream
  <2>2. f = h \o (got \o (wire \o rest))
    BY <1>4 DEF InStream
  <2>3. Flat(sent', Len(received)) = f \o b
    BY <1>10
  <2>4. h' = h
    BY <1>2 DEF Header
  <2> HIDE DEF h, f
  <2> DEFINE x == wire \o rest
             y == got \o x
  <2>5. x \in Seq(Byte) /\ rest \o b \in Seq(Byte)
    BY <2>1, <1>1, Cat
  <2>6. x \o b = wire \o (rest \o b)
    <3>1. Associates(wire, rest, b)
      BY <2>1, <1>1, Assoc
    <3> QED BY <3>1 DEF Associates
  <2>7. f = h \o y
    BY <2>2
  <2> HIDE DEF x
  <2>8. y \in Seq(Byte)
    BY <2>1, <2>5, Cat
  <2>9. y \o b = got \o (x \o b)
    <3>1. Associates(got, x, b)
      BY <2>1, <2>5, <1>1, Assoc
    <3> QED BY <3>1 DEF Associates
  <2> HIDE DEF y
  <2>10. Associates(h, y, b)
    BY <2>1, <2>8, <1>1, Assoc
  <2>11. Flat(sent', Len(received)) = h \o (got \o (wire \o (rest \o b)))
    BY <2>3, <2>6, <2>7, <2>9, <2>10 DEF Associates
  <2>12. ~cut => rest \o b = Concatenation(writing')
    BY <1>4, <1>9 DEF InStream
  <2> QED BY <2>4, <2>5, <2>11, <2>12, <1>2 DEF InStream, h
<1>12. Fits(expected, SIZE_OF_MESSAGE_SIZE)' /\ (Missing > 0)' /\ ~mixed'
  BY <1>2 DEF StreamInv, Missing
<1> QED BY <1>7, <1>8, <1>11, <1>12 DEF StreamInv

LEMMA MixedFromTypes == Types => MixedTypes
<1>1. Seq(Query) \subseteq Seq(Query \cup {Garbled})
  BY SMTT(30)
<1> QED BY <1>1 DEF Types, MixedTypes

\* What a Transmit moves: the first bytes of the queue, which stays in order
\* unless messages mix.
LEMMA TransmitMoves ==
  ASSUME MixedTypes, Transmit
  PROVE  \E h1, h2 \in Seq(Byte) :
           /\ wire' = wire \o h1 /\ Len(wire') <= Room
           /\ writing' \in Seq(Seq(Byte))
           /\ ~mixed' => Concatenation(writing) = h1 \o h2 /\ Concatenation(writing') = h2
<1> DEFINE h    == Head(writing)
           t    == Tail(writing)
           n    == Min({Room - Len(wire), Len(h)})
           h1   == SubSeq(h, 1, n)
           left == SubSeq(h, n + 1, Len(h))
<1>1. /\ ~cut /\ writing # <<>> /\ Len(wire) < Room
      /\ wire' = wire \o h1
      /\ writing' = IF left = <<>> THEN t ELSE Append(t, left)
      /\ mixed' = (mixed \/ (left # <<>> /\ t # <<>>))
  BY DEF Transmit
<1>2. writing \in Seq(Seq(Byte)) /\ wire \in Seq(Byte)
  BY DEF MixedTypes
<1>3. h \in Seq(Byte) /\ t \in Seq(Seq(Byte))
  BY <1>1, <1>2, HeadTailProperties
<1>4. Concatenation(writing) = h \o Concatenation(t)
  BY <1>1, <1>2, ConcatenationHead
<1> HIDE DEF h, t
<1>5. Len(h) \in Nat /\ Len(wire) \in Nat /\ Room \in Nat
  BY <1>2, <1>3, LenProperties, AsyncIOAssumption
<1>6. n = IF Room - Len(wire) <= Len(h) THEN Room - Len(wire) ELSE Len(h)
  <2>1. Room - Len(wire) \in Int /\ Len(h) \in Int
    BY <1>5, SMTT(30)
  <2> QED BY <2>1, MinOfTwo
<1> HIDE DEF n
<1>7. n \in 0 .. Len(h) /\ Len(wire) + n <= Room
  BY <1>1, <1>5, <1>6, SMTT(30)
<1>8. h1 \in Seq(Byte) /\ Len(h1) = n /\ left \in Seq(Byte) /\ h = h1 \o left
  BY <1>3, <1>7, Split
<1> HIDE DEF h1, left
<1>9. Len(wire') <= Room
  <2>1. Len(wire') = Len(wire) + Len(h1)
    BY <1>1, <1>2, <1>8, Cat
  <2> QED BY <2>1, <1>5, <1>7, <1>8
<1>10. Concatenation(t) \in Seq(Byte)
  BY <1>3, ConcatenationType
<1>11. CASE left = <<>>
  <2>1. writing' = t /\ h = h1
    <3>1. h1 \o <<>> = h1
      BY <1>8, ConcatEmptySeq
    <3> QED BY <3>1, <1>1, <1>8, <1>11
  <2> QED BY <2>1, <1>1, <1>3, <1>4, <1>8, <1>9, <1>10
<1>12. CASE left # <<>>
  <2>1. writing' = Append(t, left) /\ writing' \in Seq(Seq(Byte))
    BY <1>1, <1>3, <1>8, <1>12, AppendProperties
  <2>2. ASSUME ~mixed' PROVE Concatenation(writing) = h1 \o left /\ Concatenation(writing') = left
    <3>1. t = <<>>
      BY <1>1, <1>12, <2>2
    <3>2. Concatenation(t) = <<>> /\ h \o <<>> = h /\ <<>> \o left = left
      BY <1>3, <1>8, <3>1, ConcatenationEmpty, ConcatEmptySeq
    <3>3. Concatenation(writing') = Concatenation(t) \o left
      BY <2>1, <1>3, <1>8, ConcatenationAppend
    <3> QED BY <3>2, <3>3, <1>4, <1>8
  <2> QED BY <2>1, <2>2, <1>1, <1>8, <1>9
<1> QED BY <1>11, <1>12

LEMMA TransmitStream ==
  ASSUME StreamInv, Transmit, ~mixed'
  PROVE  StreamInv'
<1>1. /\ ~cut /\ mixed' \in BOOLEAN
      /\ UNCHANGED <<sent, received, cut, stoping, reading, got, expected>>
  BY DEF Transmit
<1>2. Types /\ Len(received) <= Len(sent) /\ MixedTypes
  BY MixedFromTypes DEF StreamInv
<1>3. PICK rest : InStream(rest)
  BY DEF StreamInv
<1>4. PICK h1 \in Seq(Byte), h2 \in Seq(Byte) :
           /\ wire' = wire \o h1 /\ Len(wire') <= Room
           /\ writing' \in Seq(Seq(Byte))
           /\ Concatenation(writing) = h1 \o h2 /\ Concatenation(writing') = h2
  BY <1>2, TransmitMoves
<1>5. rest = h1 \o h2 /\ wire \in Seq(Byte)
  BY <1>1, <1>2, <1>3, <1>4 DEF InStream, Types
<1>6. wire' \in Seq(Byte) /\ Len(wire') = Len(wire) + Len(h1)
  BY <1>4, <1>5, Cat
<1>7. Types'
  BY <1>1, <1>2, <1>4, <1>6 DEF Types
<1>8. InStream(h2)'
  <2>1. Associates(wire, h1, h2)
    BY <1>4, <1>5, Assoc
  <2>2. Flat(sent, Len(received)) = Header \o (got \o (wire' \o h2))
    BY <1>3, <1>4, <1>5, <2>1 DEF InStream, Associates
  <2>3. Header' = Header
    BY <1>1 DEF Header
  <2> QED BY <1>1, <1>4, <2>2, <2>3 DEF InStream
<1>9. Fits(expected, SIZE_OF_MESSAGE_SIZE)' /\ (Missing > 0)' /\ (Len(received) <= Len(sent))'
  BY <1>1, <1>2 DEF StreamInv, Missing
<1> QED BY <1>7, <1>8, <1>9 DEF StreamInv

\* Nothing that is read changes, and a connection that is cut stays so.
LEMMA CutStream ==
  ASSUME StreamInv, cut' = TRUE, stoping' \in BOOLEAN, reading' \in BOOLEAN,
         writing' \in Seq(Seq(Byte)), \E n \in 0 .. Len(wire) : wire' = SubSeq(wire, 1, n),
         UNCHANGED <<sent, received, mixed, got, expected>>
  PROVE  StreamInv'
<1>1. Types /\ Len(received) <= Len(sent)
  BY DEF StreamInv
<1>2. PICK rest : InStream(rest)
  BY DEF StreamInv
<1>3. wire \in Seq(Byte) /\ rest \in Seq(Byte) /\ Len(wire) \in Nat /\ Len(wire) <= Room /\ Room \in Nat
  BY <1>1, <1>2, LenProperties, AsyncIOAssumption DEF Types, InStream
<1>4. PICK w1 \in Seq(Byte), w2 \in Seq(Byte) : wire = w1 \o w2 /\ wire' = w1
  BY <1>3, Split
<1>5. Len(w1) \in Nat /\ Len(w2) \in Nat /\ Len(wire) = Len(w1) + Len(w2)
  BY <1>4, Cat
<1>6. Len(wire') <= Room
  BY <1>3, <1>4, <1>5, SMTT(30)
<1>7. Types'
  BY <1>1, <1>4, <1>5, <1>6 DEF Types
<1>8. InStream(w2 \o rest)'
  <2>1. Associates(w1, w2, rest)
    BY <1>3, <1>4, Assoc
  <2>2. Flat(sent, Len(received)) = Header \o (got \o (wire' \o (w2 \o rest)))
    BY <1>2, <1>4, <1>5, <2>1 DEF InStream, Associates
  <2>3. Header' = Header
    BY DEF Header
  <2>4. w2 \o rest \in Seq(Byte)
    BY <1>3, <1>4, Cat
  <2>5. cut' /\ sent' = sent /\ received' = received /\ got' = got
    OBVIOUS
  <2> QED BY <2>2, <2>3, <2>4, <2>5 DEF InStream
<1>9. Fits(expected, SIZE_OF_MESSAGE_SIZE)' /\ (Missing > 0)' /\ (Len(received) <= Len(sent))' /\ ~mixed'
  BY <1>1 DEF StreamInv, Missing
<1> QED BY <1>7, <1>8, <1>9 DEF StreamInv

\* What the reader takes: now is what it has then.
ReadMoves(w1, w2, now) ==
  /\ w1 \in Seq(Byte) /\ w2 \in Seq(Byte) /\ wire = w1 \o w2 /\ wire' = w2
  /\ now = got \o w1 /\ now \in Seq(Byte) /\ Len(now) = Len(got) + Len(w1)
  /\ Len(w1) \in Nat /\ Len(got) \in Nat
  /\ \/ /\ Len(w1) < Missing
        /\ got' = now
        /\ UNCHANGED <<received, expected>>
     \/ /\ Len(w1) = Missing /\ expected = 0
        /\ expected' = Number(now)
        /\ got' = <<>>
        /\ UNCHANGED received
     \/ /\ Len(w1) = Missing /\ expected # 0
        /\ received' = Append(received, FromNetworkMessage(now))
        /\ expected' = 0
        /\ got' = <<>>

LEMMA MissingType ==
  ASSUME Types
  PROVE  Missing \in Int
<1>1. expected \in Nat /\ Len(got) \in Nat
  BY LenProperties DEF Types
<1> QED BY <1>1, SMTT(30) DEF Missing, SIZE_OF_MESSAGE_SIZE

LEMMA ReadSomeMoves ==
  ASSUME StreamInv, ReadSome
  PROVE  \E w1, w2, now : ReadMoves(w1, w2, now)
<1> DEFINE n == Min({Missing, Len(wire)})
           w1 == SubSeq(wire, 1, n)
           w2 == SubSeq(wire, n + 1, Len(wire))
           now == got \o w1
<1>1. Types /\ Missing > 0
  BY DEF StreamInv
<1>2. wire \in Seq(Byte) /\ got \in Seq(Byte) /\ Len(wire) \in Nat /\ Len(got) \in Nat
  BY <1>1, LenProperties DEF Types
<1>3. Missing \in Int /\ Len(wire) \in Int
  BY <1>1, <1>2, MissingType, SMTT(30)
<1>4. n = IF Missing <= Len(wire) THEN Missing ELSE Len(wire)
  <2> DEFINE m == Missing
  <2>1. m \in Int
    BY <1>3
  <2> HIDE DEF m
  <2>2. Min({m, Len(wire)}) = IF m <= Len(wire) THEN m ELSE Len(wire)
    BY <1>3, <2>1, MinOfTwo
  <2> QED BY <2>2 DEF m
<1>5. /\ wire' = w2
      /\ \/ /\ n < Missing /\ got' = now /\ UNCHANGED <<received, expected>>
         \/ /\ n = Missing /\ expected = 0 /\ expected' = Number(now) /\ got' = <<>> /\ UNCHANGED received
         \/ /\ n = Missing /\ expected # 0 /\ received' = Append(received, FromNetworkMessage(now))
            /\ expected' = 0 /\ got' = <<>>
  BY DEF ReadSome
<1> HIDE DEF n
<1>6. n \in 0 .. Len(wire)
  <2> DEFINE m == Missing
  <2>1. m \in Int /\ m > 0 /\ n = IF m <= Len(wire) THEN m ELSE Len(wire)
    BY <1>1, <1>3, <1>4
  <2> HIDE DEF m
  <2> QED BY <1>2, <2>1, SMTT(30)
<1>7. w1 \in Seq(Byte) /\ Len(w1) = n /\ w2 \in Seq(Byte) /\ wire = w1 \o w2
  <2> HIDE DEF now
  <2> QED BY <1>2, <1>6, Split
<1> HIDE DEF w1, w2
<1>8. now \in Seq(Byte) /\ Len(now) = Len(got) + Len(w1) /\ Len(w1) \in Nat
  BY <1>2, <1>7, Cat
<1> HIDE DEF now
<1>9. ReadMoves(w1, w2, now)
  BY <1>2, <1>5, <1>7, <1>8 DEF ReadMoves, now
<1> QED BY <1>9

\* The bytes that follow Header, regrouped around those that are read.
LEMMA Regroup ==
  ASSUME NEW rest, InStream(rest), Types, NEW w1, NEW w2, NEW now, ReadMoves(w1, w2, now)
  PROVE  /\ rest \in Seq(Byte) /\ w2 \o rest \in Seq(Byte) /\ Header \in Seq(Byte)
         /\ Flat(sent, Len(received)) = Header \o (now \o (w2 \o rest))
<1>1. /\ w1 \in Seq(Byte) /\ w2 \in Seq(Byte) /\ wire = w1 \o w2 /\ now = got \o w1
      /\ rest \in Seq(Byte) /\ got \in Seq(Byte) /\ Header \in Seq(Byte)
      /\ Flat(sent, Len(received)) = Header \o (got \o (wire \o rest))
  BY HeaderType DEF ReadMoves, InStream, Types
<1> DEFINE x == w2 \o rest
<1>2. x \in Seq(Byte)
  BY <1>1, Cat
<1>3. Associates(w1, w2, rest)
  BY <1>1, Assoc
<1>4. Associates(got, w1, x)
  <2> HIDE DEF x
  <2> QED BY <1>1, <1>2, Assoc
<1>5. Flat(sent, Len(received)) = Header \o (now \o x)
  BY <1>1, <1>3, <1>4 DEF Associates
<1> HIDE DEF x
<1> QED BY <1>1, <1>2, <1>5 DEF x

\* The message the reader is at: its bytes are the first that are not received.
LEMMA NextMessage ==
  ASSUME StreamInv, wire # <<>>
  PROVE  /\ Len(received) < Len(sent) /\ Len(received) \in Nat
         /\ sent[Len(received) + 1] \in Query
         /\ Len(received) + 1 \in 0 .. Len(sent)
         /\ \E body, hb :
              /\ IsMessage(as_buffer[sent[Len(received) + 1]], sent[Len(received) + 1], body)
              /\ hb = Bytes(4 + Len(body), 4) /\ hb \in Seq(Byte) /\ Len(hb) = 4
              /\ Number(hb) = 4 + Len(body) /\ Fits(4 + Len(body), 4)
              /\ Flat(sent, Len(received) + 1) \in Seq(Byte)
              /\ Flat(sent, Len(received)) = hb \o (body \o Flat(sent, Len(received) + 1))
<1> DEFINE k == Len(received)
           q == sent[k + 1]
           m == as_buffer[q]
           U2 == Flat(sent, k + 1)
<1>1. Types /\ Len(received) <= Len(sent)
  BY DEF StreamInv
<1>2. PICK rest : InStream(rest)
  BY DEF StreamInv
<1>3. /\ k \in Nat /\ Len(sent) \in Nat /\ wire \in Seq(Byte) /\ got \in Seq(Byte) /\ rest \in Seq(Byte)
      /\ Header \in Seq(Byte) /\ sent \in Seq(Query)
  BY <1>1, <1>2, LenProperties, HeaderType DEF Types, InStream
<1>4. k # Len(sent)
  <2> SUFFICES ASSUME k = Len(sent) PROVE FALSE
    OBVIOUS
  <2>1. Header \o (got \o (wire \o rest)) = <<>>
    BY <1>2, <1>3, FlatEmpty DEF InStream
  <2> DEFINE x == wire \o rest
             y == got \o x
             h == Header
  <2>2. x \in Seq(Byte) /\ Len(x) = Len(wire) + Len(rest) /\ Len(wire) \in Nat /\ Len(rest) \in Nat
    BY <1>3, Cat
  <2>3. h \in Seq(Byte)
    BY <1>3
  <2>4. h \o y = <<>>
    BY <2>1
  <2> HIDE DEF x, h
  <2>5. y \in Seq(Byte) /\ Len(y) = Len(got) + Len(x) /\ Len(got) \in Nat
    BY <1>3, <2>2, Cat
  <2> HIDE DEF y
  <2>6. Len(h \o y) = Len(h) + Len(y) /\ Len(h) \in Nat
    BY <2>3, <2>5, Cat
  <2>7. Len(h \o y) = 0
    BY <2>4, EmptySeq
  <2>8. Len(wire) # 0
    BY <1>3, EmptySeq
  <2> QED BY <2>2, <2>5, <2>6, <2>7, <2>8, SMTT(30)
<1>5. k < Len(sent) /\ k \in 0 .. Len(sent) /\ k + 1 \in 1 .. Len(sent) /\ k + 1 \in 0 .. Len(sent)
  BY <1>1, <1>3, <1>4, SMTT(30)
<1>6. q \in Query
  BY <1>3, <1>5, ElementOfSeq
<1>7. Flat(sent, k) = m \o U2
  BY <1>3, <1>4, <1>5, FlatHead
<1>8. U2 \in Seq(Byte)
  BY <1>3, <1>5, FlatType
<1>9. PICK body : IsMessage(m, q, body)
  BY <1>6, BufferType
<1> DEFINE hb == Bytes(4 + Len(body), 4)
<1>10. /\ body \in Seq(Byte) /\ m = hb \o body /\ 4 + Len(body) \in Nat /\ 4 \in Nat
       /\ Fits(4 + Len(body), 4)
  <2> HIDE DEF m, q
  <2>1. body \in Seq(Byte) /\ m = Bytes(Len(m), 4) \o body /\ Len(m) = 4 + Len(body) /\ Fits(Len(m), 4)
    BY <1>9 DEF IsMessage, SIZE_OF_MESSAGE_SIZE
  <2>2. Len(body) \in Nat
    BY <2>1, LenProperties
  <2>3. 4 + Len(body) \in Nat /\ 4 \in Nat
    BY <2>2, SMTT(30)
  <2> QED BY <2>1, <2>3
<1>11. hb \in Seq(Byte) /\ Len(hb) = 4 /\ Number(hb) = 4 + Len(body)
  BY <1>10, BytesType, NumberOfBytes
<1>12. Flat(sent, k) = hb \o (body \o U2)
  <2> HIDE DEF hb, m, U2, k
  <2>1. Associates(hb, body, U2)
    BY <1>8, <1>10, <1>11, Assoc
  <2> QED BY <1>7, <1>10, <2>1 DEF Associates
<1> HIDE DEF hb
<1>13. /\ IsMessage(m, q, body) /\ hb = Bytes(4 + Len(body), 4) /\ hb \in Seq(Byte) /\ Len(hb) = 4
       /\ Number(hb) = 4 + Len(body) /\ Fits(4 + Len(body), 4)
       /\ U2 \in Seq(Byte) /\ Flat(sent, k) = hb \o (body \o U2)
  BY <1>8, <1>9, <1>10, <1>11, <1>12 DEF hb
<1> QED BY <1>3, <1>5, <1>6, <1>13

\* What every step of the reader does: it takes bytes off the socket, no more.
LEMMA ReadFrame ==
  ASSUME StreamInv, ReadSome, NEW w1, NEW w2, NEW now, ReadMoves(w1, w2, now)
  PROVE  /\ UNCHANGED <<sent, cut, stoping, writing, mixed, reading>> /\ ~mixed'
         /\ wire' = w2 /\ wire' \in Seq(Byte) /\ Len(wire') <= Room
<1>1. Types
  BY DEF StreamInv
<1>2. UNCHANGED <<sent, cut, stoping, writing, mixed, reading>> /\ ~mixed'
  BY DEF ReadSome
<1>3. wire' = w2 /\ wire' \in Seq(Byte)
  BY DEF ReadMoves
<1>4. Len(wire) = Len(w1) + Len(w2) /\ Len(w1) \in Nat /\ Len(w2) \in Nat
  BY Cat DEF ReadMoves
<1>5. Len(wire) <= Room /\ Room \in Nat
  BY <1>1, AsyncIOAssumption DEF Types
<1>6. Len(wire') <= Room
  BY <1>3, <1>4, <1>5, SMTT(30)
<1> QED BY <1>2, <1>3, <1>6

\* readNextAsync hands over the next query that was sent, or none.
Delivers ==
  \/ UNCHANGED received
  \/ Len(received) < Len(sent) /\ received' = Append(received, sent[Len(received) + 1])

\* Part of what the reader waits for.
LEMMA ReadPart ==
  ASSUME StreamInv, ReadSome, NEW w1, NEW w2, NEW now, ReadMoves(w1, w2, now), Len(w1) # Missing
  PROVE  StreamInv' /\ Delivers
<1>1. Types /\ Len(received) <= Len(sent) /\ Fits(expected, SIZE_OF_MESSAGE_SIZE)
  BY DEF StreamInv
<1>2. PICK rest : InStream(rest)
  BY DEF StreamInv
<1>3. /\ UNCHANGED <<sent, cut, stoping, writing, mixed, reading>> /\ ~mixed'
      /\ wire' = w2 /\ wire' \in Seq(Byte) /\ Len(wire') <= Room
  BY ReadFrame
<1>4. Len(w1) < Missing /\ got' = now /\ UNCHANGED <<received, expected>> /\ now \in Seq(Byte)
  BY DEF ReadMoves
<1>5. Types'
  BY <1>1, <1>3, <1>4 DEF Types
<1>6. InStream(rest)'
  <2>1. rest \in Seq(Byte) /\ Flat(sent, Len(received)) = Header \o (now \o (w2 \o rest))
    BY <1>1, <1>2, Regroup
  <2>2. Header' = Header
    BY <1>4 DEF Header
  <2>3. ~cut => rest = Concatenation(writing)
    BY <1>2 DEF InStream
  <2> QED BY <1>3, <1>4, <2>1, <2>2, <2>3 DEF InStream
<1>7. (Missing > 0)'
  <2>1. Len(now) = Len(got) + Len(w1) /\ Len(w1) \in Nat /\ Len(got) \in Nat /\ expected \in Nat
    BY <1>1 DEF ReadMoves, Types
  <2>2. Missing' = (IF expected = 0 THEN SIZE_OF_MESSAGE_SIZE ELSE expected - SIZE_OF_MESSAGE_SIZE) - Len(now)
    BY <1>4 DEF Missing
  <2> DEFINE m == Missing
             p == Missing'
  <2>3. p = m - Len(w1)
    BY <2>1, <2>2, SMTT(30) DEF Missing, SIZE_OF_MESSAGE_SIZE
  <2>4. m \in Int /\ Len(w1) < m
    BY <1>1, <1>4, MissingType
  <2> HIDE DEF m, p
  <2>5. p > 0
    BY <2>1, <2>3, <2>4, SMTT(30)
  <2> QED BY <2>5 DEF p
<1>8. Fits(expected, SIZE_OF_MESSAGE_SIZE)' /\ (Len(received) <= Len(sent))'
  BY <1>1, <1>3, <1>4
<1> QED BY <1>3, <1>4, <1>5, <1>6, <1>7, <1>8 DEF StreamInv, Delivers

\* on_read_size: the reader has the size of the next message.
LEMMA ReadSize ==
  ASSUME StreamInv, ReadSome, NEW w1, NEW w2, NEW now, ReadMoves(w1, w2, now), Len(w1) = Missing,
         expected = 0
  PROVE  StreamInv' /\ Delivers
<1>1. Types /\ Len(received) <= Len(sent) /\ wire # <<>>
  BY DEF StreamInv, ReadSome
<1>2. PICK rest : InStream(rest)
  BY DEF StreamInv
<1>3. /\ UNCHANGED <<sent, cut, stoping, writing, mixed, reading>> /\ ~mixed'
      /\ wire' = w2 /\ wire' \in Seq(Byte) /\ Len(wire') <= Room
  BY ReadFrame
<1>4. PICK body, hb :
        /\ IsMessage(as_buffer[sent[Len(received) + 1]], sent[Len(received) + 1], body)
        /\ hb = Bytes(4 + Len(body), 4) /\ hb \in Seq(Byte) /\ Len(hb) = 4
        /\ Number(hb) = 4 + Len(body) /\ Fits(4 + Len(body), 4)
        /\ Flat(sent, Len(received) + 1) \in Seq(Byte)
        /\ Flat(sent, Len(received)) = hb \o (body \o Flat(sent, Len(received) + 1))
  BY <1>1, NextMessage
<1>5. body \in Seq(Byte) /\ Len(body) \in Nat \ {0}
  BY <1>4 DEF IsMessage
<1>6. ~(Len(w1) < Missing)
  <2> DEFINE m == Missing
  <2>1. m \in Int /\ Len(w1) = m
    BY <1>1, MissingType
  <2> HIDE DEF m
  <2>2. ~(Len(w1) < m)
    BY <2>1, SMTT(30)
  <2> QED BY <2>2 DEF m
<1>7. expected' = Number(now) /\ got' = <<>> /\ UNCHANGED received /\ now \in Seq(Byte)
  BY <1>6 DEF ReadMoves
<1>8. Len(now) = 4
  <2>1. Len(now) = Len(got) + Len(w1) /\ Len(got) \in Nat
    BY DEF ReadMoves
  <2>2. Len(w1) = 4 - Len(got)
    BY DEF Missing, SIZE_OF_MESSAGE_SIZE
  <2> QED BY <2>1, <2>2, SMTT(30)
<1> DEFINE x == w2 \o rest
           y == body \o Flat(sent, Len(received) + 1)
<1>9. rest \in Seq(Byte) /\ x \in Seq(Byte) /\ Flat(sent, Len(received)) = now \o x
  <2>1. /\ rest \in Seq(Byte) /\ x \in Seq(Byte)
        /\ Flat(sent, Len(received)) = Header \o (now \o x)
    BY <1>1, <1>2, Regroup
  <2> HIDE DEF x
  <2>2. now \o x \in Seq(Byte) /\ Header = <<>>
    BY <1>7, <2>1, Cat DEF Header
  <2> QED BY <2>1, <2>2, ConcatEmptySeq
<1>10. y \in Seq(Byte)
  BY <1>4, <1>5, Cat
<1>11. now = hb
  <2>1. now \o x = hb \o y
    BY <1>4, <1>9
  <2>2. Len(now) = Len(hb)
    BY <1>4, <1>8
  <2> HIDE DEF x, y
  <2> QED BY <1>4, <1>7, <1>9, <1>10, <2>1, <2>2, SameHalves
<1>12. expected' = 4 + Len(body) /\ expected' \in Nat /\ expected' # 0
  <2>1. expected' = 4 + Len(body)
    BY <1>4, <1>7, <1>11
  <2> QED BY <2>1, <1>5, SMTT(30)
<1>13. Types'
  BY <1>1, <1>3, <1>7, <1>12, EmptySeq DEF Types
<1>14. InStream(rest)'
  <2>1. Header' = now
    BY <1>4, <1>11, <1>12 DEF Header, SIZE_OF_MESSAGE_SIZE
  <2>2. <<>> \o x = x
    <3> HIDE DEF x
    <3> QED BY <1>9, ConcatEmptySeq
  <2>3. Flat(sent, Len(received)) = Header' \o (got' \o (w2 \o rest))
    BY <1>7, <1>9, <2>1, <2>2
  <2>4. ~cut => rest = Concatenation(writing)
    BY <1>2 DEF InStream
  <2> QED BY <1>3, <1>7, <1>9, <2>3, <2>4 DEF InStream
<1>15. (Missing > 0)'
  <2>1. Len(got') = 0
    BY <1>7, EmptySeq
  <2>2. Missing' = (expected' - 4) - Len(got')
    BY <1>12 DEF Missing, SIZE_OF_MESSAGE_SIZE
  <2> DEFINE p == Missing'
  <2>3. p = ((4 + Len(body)) - 4) - 0
    BY <1>12, <2>1, <2>2
  <2> HIDE DEF p
  <2>4. p > 0
    BY <1>5, <2>3, SMTT(30)
  <2> QED BY <2>4 DEF p
<1>16. Fits(expected, SIZE_OF_MESSAGE_SIZE)' /\ (Len(received) <= Len(sent))'
  BY <1>1, <1>3, <1>4, <1>7, <1>12 DEF SIZE_OF_MESSAGE_SIZE
<1> QED BY <1>3, <1>7, <1>13, <1>14, <1>15, <1>16 DEF StreamInv, Delivers

\* on_read_message: the reader has the body of the next message.
LEMMA ReadMessage ==
  ASSUME StreamInv, ReadSome, NEW w1, NEW w2, NEW now, ReadMoves(w1, w2, now), Len(w1) = Missing,
         expected # 0
  PROVE  StreamInv' /\ Delivers
<1> DEFINE k == Len(received)
           q == sent[k + 1]
           U2 == Flat(sent, k + 1)
<1>1. /\ Types /\ k <= Len(sent) /\ wire # <<>> /\ Fits(expected, SIZE_OF_MESSAGE_SIZE)
  BY DEF StreamInv, ReadSome
<1>2. PICK rest : InStream(rest)
  BY DEF StreamInv
<1>3. /\ UNCHANGED <<sent, cut, stoping, writing, mixed, reading>> /\ ~mixed'
      /\ wire' = w2 /\ wire' \in Seq(Byte) /\ Len(wire') <= Room
  BY ReadFrame
<1>4. PICK body, hb :
        /\ IsMessage(as_buffer[q], q, body)
        /\ hb = Bytes(4 + Len(body), 4) /\ hb \in Seq(Byte) /\ Len(hb) = 4
        /\ Number(hb) = 4 + Len(body) /\ Fits(4 + Len(body), 4)
        /\ U2 \in Seq(Byte)
        /\ Flat(sent, k) = hb \o (body \o U2)
  BY <1>1, NextMessage
<1>5. k < Len(sent) /\ k \in Nat /\ q \in Query /\ k + 1 \in 0 .. Len(sent)
  BY <1>1, NextMessage
<1>6. body \in Seq(Byte) /\ Len(body) \in Nat /\ FromNetworkMessage(body) = q
  BY <1>4, LenProperties DEF IsMessage
<1>7. ~(Len(w1) < Missing)
  <2> DEFINE m == Missing
  <2>1. m \in Int /\ Len(w1) = m
    BY <1>1, MissingType
  <2> HIDE DEF m
  <2>2. ~(Len(w1) < m)
    BY <2>1, SMTT(30)
  <2> QED BY <2>2 DEF m
<1>8. /\ received' = Append(received, FromNetworkMessage(now))
      /\ expected' = 0 /\ got' = <<>> /\ now \in Seq(Byte)
  BY <1>7 DEF ReadMoves
<1> DEFINE h == Header
           x == w2 \o rest
           y == body \o U2
           z == now \o x
<1>9. /\ rest \in Seq(Byte) /\ x \in Seq(Byte) /\ h \in Seq(Byte)
      /\ Flat(sent, k) = h \o z
  BY <1>1, <1>2, Regroup
<1>10. y \in Seq(Byte)
  <2> HIDE DEF U2
  <2> QED BY <1>4, <1>6, Cat
<1>11. z \in Seq(Byte)
  <2> HIDE DEF x
  <2> QED BY <1>8, <1>9, Cat
<1>12. expected \in Nat /\ h = Bytes(expected, 4) /\ Len(h) = 4 /\ Number(h) = expected
  <2>1. expected \in Nat /\ 4 \in Nat /\ Fits(expected, 4)
    BY <1>1, SMTT(30) DEF Types, SIZE_OF_MESSAGE_SIZE
  <2>2. h = Bytes(expected, 4)
    BY DEF Header, SIZE_OF_MESSAGE_SIZE
  <2> QED BY <2>1, <2>2, BytesType, NumberOfBytes
<1>13. h = hb /\ z = y
  <2>1. h \o z = hb \o y /\ Len(h) = Len(hb)
    BY <1>4, <1>9, <1>12
  <2> HIDE DEF h, z, y
  <2> QED BY <1>4, <1>9, <1>10, <1>11, <2>1, SameHalves
<1>14. Len(now) = Len(body)
  <2>1. Len(now) = Len(got) + Len(w1) /\ Len(got) \in Nat
    BY DEF ReadMoves
  <2>2. Len(w1) = (expected - 4) - Len(got)
    BY DEF Missing, SIZE_OF_MESSAGE_SIZE
  <2>3. expected = 4 + Len(body)
    BY <1>4, <1>12, <1>13
  <2> QED BY <1>6, <1>12, <2>1, <2>2, <2>3, SMTT(30)
<1>15. now = body /\ x = U2
  <2>1. now \o x = body \o U2
    BY <1>13
  <2> HIDE DEF x, U2
  <2> QED BY <1>4, <1>6, <1>8, <1>9, <1>14, <2>1, SameHalves
<1>16. received' = Append(received, q)
  BY <1>6, <1>8, <1>15
<1>17. received' \in Seq(Query) /\ Len(received') = k + 1
  <2> HIDE DEF q
  <2> QED BY <1>1, <1>5, <1>16, AppendProperties DEF Types
<1>18. Types'
  <2>1. expected' \in Nat
    BY <1>8, SMTT(30)
  <2> QED BY <1>1, <1>3, <1>8, <1>17, <2>1, EmptySeq DEF Types
<1>19. InStream(rest)'
  <2>1. Header' = <<>>
    BY <1>8 DEF Header
  <2>2. <<>> \o x = x
    <3> HIDE DEF x
    <3> QED BY <1>9, ConcatEmptySeq
  <2>3. Flat(sent, k + 1) = Header' \o (got' \o (w2 \o rest))
    BY <1>8, <1>15, <2>1, <2>2
  <2>4. ~cut => rest = Concatenation(writing)
    BY <1>2 DEF InStream
  <2>5. Flat(sent', Len(received')) = Flat(sent, k + 1)
    BY <1>3, <1>17
  <2> QED BY <1>3, <1>9, <2>3, <2>4, <2>5 DEF InStream
<1>20. (Missing > 0)'
  <2>1. Len(got') = 0 /\ 4 - 0 > 0
    BY <1>8, EmptySeq, SMTT(30)
  <2>2. Missing' = 4 - Len(got')
    BY <1>8 DEF Missing, SIZE_OF_MESSAGE_SIZE
  <2> QED BY <2>1, <2>2
<1>21. Fits(expected, SIZE_OF_MESSAGE_SIZE)'
  BY <1>8, FitsZero DEF SIZE_OF_MESSAGE_SIZE
<1>22. (Len(received) <= Len(sent))'
  <2>1. Len(sent) \in Nat
    BY <1>1, LenProperties DEF Types
  <2>2. k + 1 <= Len(sent)
    BY <1>5, <2>1, SMTT(30)
  <2> QED BY <1>3, <1>17, <2>2
<1> QED BY <1>3, <1>5, <1>16, <1>18, <1>19, <1>20, <1>21, <1>22 DEF StreamInv, Delivers

LEMMA ReadStream ==
  ASSUME StreamInv, ReadSome
  PROVE  StreamInv' /\ Delivers
<1>1. PICK w1, w2, now : ReadMoves(w1, w2, now)
  BY ReadSomeMoves
<1> QED BY <1>1, ReadPart, ReadSize, ReadMessage

-----------------------------------------------------------------------------
LEMMA InitStream == Init => StreamInv
<1> SUFFICES ASSUME Init PROVE StreamInv
  OBVIOUS
<1>1. /\ sent = <<>> /\ received = <<>> /\ cut = FALSE /\ stoping = FALSE /\ writing = <<>>
      /\ wire = <<>> /\ mixed = FALSE /\ reading = TRUE /\ got = <<>> /\ expected = 0
  BY DEF Init
<1>2. Len(sent) = 0 /\ Len(received) = 0 /\ Len(got) = 0 /\ Len(wire) = 0 /\ Len(writing) = 0
  BY <1>1, EmptySeq
<1>3. 0 <= Room /\ 0 <= 0 /\ 0 \in Nat /\ 4 - 0 > 0
  BY AsyncIOAssumption, SMTT(30)
<1>4. Types
  BY <1>1, <1>2, <1>3, EmptySeq DEF Types
<1>5. InStream(<<>>)
  <2>1. Flat(sent, Len(received)) = <<>>
    <3>1. sent \in Seq(Query) /\ Len(received) = Len(sent)
      BY <1>2, <1>4 DEF Types
    <3> QED BY <3>1, FlatEmpty
  <2>2. <<>> \in Seq(Byte) /\ <<>> \o <<>> = <<>>
    BY EmptySeq, ConcatEmptySeq
  <2>3. Header = <<>>
    BY <1>1 DEF Header
  <2> QED BY <1>1, <2>1, <2>2, <2>3, ConcatenationEmpty DEF InStream
<1>6. Missing > 0
  BY <1>1, <1>2, <1>3 DEF Missing, SIZE_OF_MESSAGE_SIZE
<1> QED BY <1>1, <1>2, <1>3, <1>4, <1>5, <1>6, FitsZero DEF StreamInv, SIZE_OF_MESSAGE_SIZE

LEMMA NextStream ==
  ASSUME StreamInv, [Next]_vars, ~mixed'
  PROVE  StreamInv'
<1>1. /\ Types /\ ~mixed
      /\ writing \in Seq(Seq(Byte)) /\ wire \in Seq(Byte) /\ Len(wire) \in Nat
  BY LenProperties DEF StreamInv, Types
<1>2. Len(wire) \in 0 .. Len(wire) /\ wire = SubSeq(wire, 1, Len(wire))
  BY <1>1, SMTT(30)
<1>3. CASE \E query \in Query : send(query)
  BY <1>3, SendStream
<1>4. CASE Transmit
  BY <1>4, TransmitStream
<1>5. CASE WriteFails
  <2>1. writing' \in Seq(Seq(Byte))
    BY <1>1, <1>5, HeadTailProperties DEF WriteFails
  <2>2. /\ cut' = TRUE /\ stoping' \in BOOLEAN /\ reading' \in BOOLEAN
        /\ UNCHANGED <<sent, received, mixed, got, expected, wire>>
    BY <1>1, <1>5 DEF WriteFails, Types
  <2> QED BY <1>2, <2>1, <2>2, CutStream
<1>6. CASE ReadSome
  BY <1>6, ReadStream
<1>7. CASE ReadFails
  <2>1. /\ cut' = TRUE /\ stoping' \in BOOLEAN /\ reading' \in BOOLEAN /\ writing' \in Seq(Seq(Byte))
        /\ UNCHANGED <<sent, received, mixed, got, expected, wire>>
    BY <1>1, <1>7 DEF ReadFails, Types
  <2> QED BY <1>2, <2>1, CutStream
<1>8. ASSUME NEW n \in 0 .. Len(wire), Breaks(n), stoping' \in BOOLEAN PROVE StreamInv'
  <2>1. /\ cut' = TRUE /\ reading' \in BOOLEAN /\ writing' \in Seq(Seq(Byte))
        /\ UNCHANGED <<sent, received, mixed, got, expected>> /\ wire' = SubSeq(wire, 1, n)
    BY <1>1, <1>8 DEF Breaks, Types
  <2> QED BY <1>8, <2>1, CutStream
<1>9. CASE Break
  BY <1>1, <1>8, <1>9 DEF Break, Types
<1>10. CASE full_stop
  <2>1. CASE cut
    <3>1. /\ cut' = TRUE /\ stoping' \in BOOLEAN /\ reading' \in BOOLEAN /\ writing' \in Seq(Seq(Byte))
          /\ UNCHANGED <<sent, received, mixed, got, expected, wire>>
      BY <1>1, <1>10, <2>1 DEF full_stop, Types
    <3> QED BY <1>2, <3>1, CutStream
  <2>2. CASE ~cut
    BY <1>8, <1>10, <2>2 DEF full_stop
  <2> QED BY <2>1, <2>2
<1>11. CASE UNCHANGED vars
  BY <1>11 DEF vars, StreamInv, Types, InStream, Header, Missing
<1>12. ~ReadMixed
  BY <1>1 DEF ReadMixed
<1> QED BY <1>3, <1>4, <1>5, <1>6, <1>7, <1>9, <1>10, <1>11, <1>12 DEF Next

\* The types do not depend on what the bytes are.
LEMMA MixedTransmit ==
  ASSUME MixedTypes, Transmit
  PROVE  MixedTypes'
<1>1. PICK h1 \in Seq(Byte) : /\ wire' = wire \o h1 /\ Len(wire') <= Room
                              /\ writing' \in Seq(Seq(Byte))
  BY TransmitMoves
<1>2. wire' \in Seq(Byte)
  BY <1>1, Cat DEF MixedTypes
<1>3. mixed' \in BOOLEAN /\ UNCHANGED <<sent, received, cut, stoping, reading, got, expected>>
  BY DEF Transmit
<1> QED BY <1>1, <1>2, <1>3 DEF MixedTypes

LEMMA MixedCut ==
  ASSUME MixedTypes, cut' \in BOOLEAN, stoping' \in BOOLEAN, reading' \in BOOLEAN,
         writing' \in Seq(Seq(Byte)), \E n \in 0 .. Len(wire) : wire' = SubSeq(wire, 1, n),
         UNCHANGED <<sent, received, mixed, got, expected>>
  PROVE  MixedTypes'
<1>1. wire \in Seq(Byte) /\ Len(wire) \in Nat /\ Len(wire) <= Room /\ Room \in Nat
  BY LenProperties, AsyncIOAssumption DEF MixedTypes
<1>2. PICK w1 \in Seq(Byte), w2 \in Seq(Byte) : wire = w1 \o w2 /\ wire' = w1
  BY <1>1, Split
<1>3. Len(w1) \in Nat /\ Len(w2) \in Nat /\ Len(wire) = Len(w1) + Len(w2)
  BY <1>2, Cat
<1>4. Len(wire') <= Room
  BY <1>1, <1>2, <1>3, SMTT(30)
<1> QED BY <1>2, <1>4 DEF MixedTypes

LEMMA MixedRead ==
  ASSUME MixedTypes, ReadMixed
  PROVE  MixedTypes'
<1>1. Len(<<>>) = 0 /\ <<>> \in Seq(Byte) /\ 0 <= Room
  BY EmptySeq, AsyncIOAssumption, SMTT(30)
<1>2. /\ wire' = <<>> /\ reading' \in BOOLEAN
      /\ UNCHANGED <<sent, cut, stoping, writing, mixed, got, expected>>
      /\ received' = received \/ received' = Append(received, Garbled)
  BY DEF ReadMixed, MixedTypes
<1> DEFINE S == Query \cup {Garbled}
<1>3. received \in Seq(S) /\ Garbled \in S
  BY DEF MixedTypes
<1>4. received' \in Seq(S)
  <2> DEFINE g == Garbled
  <2>1. g \in S /\ (received' = received \/ received' = Append(received, g))
    BY <1>2, <1>3
  <2> HIDE DEF S, g
  <2>2. Append(received, g) \in Seq(S)
    BY <1>3, <2>1, AppendProperties
  <2> QED BY <1>3, <2>1, <2>2
<1> QED BY <1>1, <1>2, <1>4 DEF MixedTypes

LEMMA NextMixed ==
  ASSUME MixedTypes, mixed, [Next]_vars
  PROVE  MixedTypes' /\ mixed'
<1> SUFFICES MixedTypes'
  BY DEF Next, vars, send, Transmit, WriteFails, ReadSome, ReadMixed, ReadFails, Break, full_stop,
         Breaks
<1>1. writing \in Seq(Seq(Byte)) /\ wire \in Seq(Byte) /\ Len(wire) \in Nat
  BY LenProperties DEF MixedTypes
<1>2. Len(wire) \in 0 .. Len(wire) /\ wire = SubSeq(wire, 1, Len(wire))
  BY <1>1, SMTT(30)
<1>3. ASSUME NEW query \in Query, send(query) PROVE MixedTypes'
  <2> DEFINE b == as_buffer[query]
  <2>1. b \in Seq(Byte)
    BY BufferType
  <2>2. /\ sent' = Append(sent, query) /\ writing' = Append(writing, b)
        /\ UNCHANGED <<received, cut, stoping, wire, mixed, reading, got, expected>>
    BY <1>3 DEF send
  <2> HIDE DEF b
  <2>3. sent' \in Seq(Query) /\ writing' \in Seq(Seq(Byte))
    BY <1>1, <2>1, <2>2, AppendProperties DEF MixedTypes
  <2> QED BY <2>2, <2>3 DEF MixedTypes
<1>4. CASE WriteFails
  <2>1. writing' \in Seq(Seq(Byte))
    BY <1>1, <1>4, HeadTailProperties DEF WriteFails
  <2>2. /\ cut' \in BOOLEAN /\ stoping' \in BOOLEAN /\ reading' \in BOOLEAN
        /\ UNCHANGED <<sent, received, mixed, got, expected, wire>>
    BY <1>4 DEF WriteFails, MixedTypes
  <2> QED BY <1>2, <2>1, <2>2, MixedCut
<1>5. CASE ReadFails
  <2>1. /\ cut' \in BOOLEAN /\ stoping' \in BOOLEAN /\ reading' \in BOOLEAN
        /\ writing' \in Seq(Seq(Byte))
        /\ UNCHANGED <<sent, received, mixed, got, expected, wire>>
    BY <1>5 DEF ReadFails, MixedTypes
  <2> QED BY <1>2, <2>1, MixedCut
<1>6. ASSUME NEW n \in 0 .. Len(wire), Breaks(n), stoping' \in BOOLEAN PROVE MixedTypes'
  <2>1. /\ cut' \in BOOLEAN /\ reading' \in BOOLEAN /\ writing' \in Seq(Seq(Byte))
        /\ UNCHANGED <<sent, received, mixed, got, expected>> /\ wire' = SubSeq(wire, 1, n)
    BY <1>1, <1>6 DEF Breaks, MixedTypes
  <2> QED BY <1>6, <2>1, MixedCut
<1>7. CASE Break
  <2>1. stoping' \in BOOLEAN /\ \E n \in 0 .. Len(wire) : Breaks(n)
    BY <1>7 DEF Break, MixedTypes
  <2> QED BY <1>6, <2>1
<1>8. CASE full_stop
  <2>1. CASE cut
    <3>1. /\ cut' \in BOOLEAN /\ stoping' \in BOOLEAN /\ reading' \in BOOLEAN
          /\ writing' \in Seq(Seq(Byte))
          /\ UNCHANGED <<sent, received, mixed, got, expected, wire>>
      BY <1>1, <1>8, <2>1 DEF full_stop, MixedTypes
    <3> QED BY <1>2, <3>1, MixedCut
  <2>2. CASE ~cut
    <3>1. stoping' \in BOOLEAN /\ \E n \in 0 .. Len(wire) : Breaks(n)
      BY <1>8, <2>2 DEF full_stop
    <3> QED BY <1>6, <3>1
  <2> QED BY <2>1, <2>2
<1>9. CASE UNCHANGED vars
  BY <1>9 DEF vars, MixedTypes
<1>10. ~ReadSome
  BY DEF ReadSome
<1> QED BY <1>3, <1>4, <1>5, <1>7, <1>8, <1>9, <1>10, MixedTransmit, MixedRead DEF Next

LEMMA NextAsync == AsyncInv /\ [Next]_vars => AsyncInv'
<1> SUFFICES ASSUME AsyncInv, [Next]_vars PROVE AsyncInv'
  OBVIOUS
<1>1. CASE mixed
  <2>1. MixedTypes' /\ mixed'
    BY <1>1, NextMixed DEF AsyncInv
  <2> QED BY <2>1 DEF AsyncInv
<1>2. CASE ~mixed /\ ~mixed'
  <2>1. StreamInv'
    BY <1>2, NextStream DEF AsyncInv
  <2> QED BY <1>2, <2>1 DEF AsyncInv
<1>3. CASE ~mixed /\ mixed'
  <2>1. Transmit
    BY <1>3 DEF Next, vars, send, WriteFails, ReadSome, ReadMixed, ReadFails, Break, full_stop, Breaks
  <2>2. MixedTypes
    BY <1>3, MixedFromTypes DEF AsyncInv, StreamInv
  <2>3. MixedTypes'
    BY <2>1, <2>2, MixedTransmit
  <2> QED BY <1>3, <2>3 DEF AsyncInv
<1> QED BY <1>1, <1>2, <1>3

LEMMA StreamAlways == Spec => []AsyncInv
<1>1. Init => AsyncInv
  BY InitStream DEF AsyncInv, StreamInv
<1> QED BY <1>1, NextAsync, PTL DEF Spec

\* A step of AsyncIO is a step of the channel, or none.
LEMMA StepsChannel ==
  ASSUME AsyncInv, [Next]_vars
  PROVE  [Stream!Next]_(Stream!vars)
<1> DEFINE n == Len(writing)
<1>1. writing \in Seq(Seq(Byte)) /\ n \in Nat
  BY LenProperties DEF AsyncInv, MixedTypes, StreamInv, Types
<1>2. CASE \E query \in Query : send(query)
  <2>1. PICK query \in Query : send(query)
    BY <1>2
  <2>2. n' = n + 1
    <3> DEFINE b == as_buffer[query]
    <3>1. b \in Seq(Byte) /\ writing' = Append(writing, b)
      BY <2>1, BufferType DEF send
    <3> HIDE DEF b
    <3> QED BY <1>1, <3>1, AppendProperties
  <2> QED BY <2>1, <2>2 DEF send, Stream!Next, Stream!Send
<1>3. CASE Transmit
  <2> DEFINE k == Min({Room - Len(wire), Len(Head(writing))})
             rest == SubSeq(Head(writing), k + 1, Len(Head(writing)))
  <2>1. /\ writing # <<>> /\ UNCHANGED <<sent, received, cut>>
        /\ \/ rest = <<>> /\ writing' = Tail(writing) /\ mixed' = mixed
           \/ rest # <<>> /\ writing' = Append(Tail(writing), rest)
        /\ mixed' = (mixed \/ (rest # <<>> /\ Tail(writing) # <<>>))
    BY <1>3 DEF Transmit, AsyncInv, MixedTypes, StreamInv, Types
  <2> HIDE DEF rest
  <2>2. Tail(writing) \in Seq(Seq(Byte)) /\ Len(Tail(writing)) = n - 1 /\ n >= 1
    BY <1>1, <2>1, QueueSteps
  <2>3. CASE rest = <<>>
    <3>1. writing' = Tail(writing) /\ mixed' = mixed
      BY <2>1, <2>3
    <3>2. n' = n - 1 /\ n > 0
      BY <1>1, <2>2, <3>1, SMTT(30)
    <3> QED BY <2>1, <3>1, <3>2 DEF Stream!Next, Stream!WriteEnds
  <2>4. CASE rest # <<>>
    <3>1. writing' = Append(Tail(writing), rest)
      BY <2>1, <2>4
    <3>2. Len(writing') = Len(Tail(writing)) + 1
      BY <2>2, <3>1, QueueSteps
    <3>3. n' = n
      BY <1>1, <2>2, <3>2, SMTT(30)
    <3>4. CASE Tail(writing) # <<>>
      <4>1. Len(Tail(writing)) # 0
        BY <2>2, <3>4, EmptySeq
      <4>2. n > 1
        BY <1>1, <2>2, <4>1, SMTT(30)
      <4>3. mixed' = TRUE
        BY <2>1, <2>4, <3>4
      <4> QED BY <2>1, <3>3, <4>2, <4>3 DEF Stream!Next, Stream!Mix
    <3>5. CASE Tail(writing) = <<>>
      <4>1. mixed' = mixed
        BY <2>1, <3>5 DEF AsyncInv, MixedTypes, StreamInv, Types
      <4> QED BY <2>1, <3>3, <4>1 DEF Stream!vars
    <3> QED BY <3>4, <3>5
  <2> QED BY <2>3, <2>4
<1>4. CASE WriteFails
  <2>1. writing # <<>> /\ writing' = Tail(writing) /\ UNCHANGED <<sent, received, cut, mixed>>
    BY <1>4 DEF WriteFails
  <2>2. Len(Tail(writing)) = n - 1 /\ n >= 1
    BY <1>1, <2>1, QueueSteps
  <2>3. n' = n - 1 /\ n > 0
    BY <1>1, <2>1, <2>2, SMTT(30)
  <2> QED BY <2>1, <2>3 DEF Stream!Next, Stream!WriteEnds
<1>5. CASE ReadSome
  <2>1. ~mixed /\ StreamInv
    BY <1>5 DEF ReadSome, AsyncInv
  <2>2. Delivers /\ UNCHANGED <<sent, cut, mixed, writing>>
    BY <1>5, <2>1, ReadStream DEF ReadSome
  <2> QED BY <2>1, <2>2 DEF Delivers, Stream!Next, Stream!Receive, Stream!vars
<1>6. CASE ReadMixed
  BY <1>6 DEF ReadMixed, Stream!Next, Stream!ReceiveMixed
<1>7. CASE ReadFails \/ UNCHANGED vars
  BY <1>7 DEF ReadFails, vars, Stream!vars
<1>8. CASE Break \/ full_stop
  BY <1>8 DEF Break, full_stop, Breaks, Stream!Next, Stream!Cut, Stream!vars
<1> QED BY <1>2, <1>3, <1>4, <1>5, <1>6, <1>7, <1>8 DEF Next

\* The safety of ImplementsChannel: however the socket splits the bytes and
\* wherever the connection breaks, what readNextAsync hands over is what send
\* was given, whole, once and in order, up to a step that two writes in
\* progress make possible.
THEOREM ChannelSafety == Spec => Stream!Init /\ [][Stream!Next]_(Stream!vars)
<1>1. Init => Stream!Init
  <2>1. Init => Len(writing) = 0
    BY EmptySeq DEF Init
  <2> QED BY <2>1 DEF Init, Stream!Init
<1>2. AsyncInv /\ [Next]_vars => [Stream!Next]_(Stream!vars)
  BY StepsChannel
<1> QED BY <1>1, <1>2, StreamAlways, PTL DEF Spec

\* The types of AsyncIO: what readNextAsync reads from the bytes is a query for
\* as long as no two messages have mixed, and _messages_to_send never goes
\* below zero.
THEOREM AsyncIOTypeCorrect == Spec => []TypeOK
<1>1. AsyncInv /\ CountInv => TypeOK
  <2> SUFFICES ASSUME AsyncInv, CountInv PROVE TypeOK
    OBVIOUS
  <2>1. MixedTypes /\ (~mixed => received \in Seq(Query))
    BY MixedFromTypes DEF AsyncInv, StreamInv, Types
  <2>2. Len(writing) \in Nat /\ failed \in Nat /\ toSend = Len(writing) + failed
    BY <2>1, LenProperties DEF MixedTypes, CountInv, QueueSizeCounts
  <2>3. toSend \in Nat
    BY <2>2, SMTT(30)
  <2> QED BY <2>1, <2>2, <2>3 DEF MixedTypes, TypeOK
<1> QED BY <1>1, StreamAlways, CountAlways, PTL

\* The bytes that toNetworkMessage makes of a query are read back: the size
\* field as the number of the bytes, and the rest as the query, although the
\* reader's buffer goes on with bytes that nothing initialised.
THEOREM ReadsWhatIsWritten ==
  ASSUME NEW query, IsQuery(query)
  PROVE  LET m == toNetworkMessage(query)
         IN  /\ Number(SubSeq(m, 1, SIZE_OF_MESSAGE_SIZE)) = Len(m)
             /\ FromNetworkMessage(SubSeq(m, SIZE_OF_MESSAGE_SIZE + 1, Len(m))) = query
<1> DEFINE m == toNetworkMessage(query)
<1>1. PICK body : IsMessage(m, query, body)
  BY Message
<1> HIDE DEF m
<1> DEFINE hb == Bytes(Len(m), 4)
<1>2. /\ body \in Seq(Byte) /\ m = hb \o body /\ Len(m) \in Nat /\ 4 \in Nat /\ Fits(Len(m), 4)
      /\ FromNetworkMessage(body) = query
  BY <1>1, SMTT(30) DEF IsMessage, SIZE_OF_MESSAGE_SIZE
<1>3. hb \in Seq(Byte) /\ Len(hb) = 4 /\ Number(hb) = Len(m)
  BY <1>2, BytesType, NumberOfBytes
<1> HIDE DEF hb
<1>4. SubSeq(hb \o body, 1, Len(hb)) = hb /\ SubSeq(hb \o body, Len(hb) + 1, Len(hb \o body)) = body
  BY <1>2, <1>3, Halves
<1>5. SubSeq(m, 1, 4) = hb /\ SubSeq(m, 4 + 1, Len(m)) = body
  BY <1>2, <1>3, <1>4
<1> QED BY <1>2, <1>3, <1>5 DEF m, SIZE_OF_MESSAGE_SIZE

=============================================================================
