------------------------------- MODULE Channel -------------------------------
(***************************************************************************)
(* What one direction of a connection promises: whole messages arrive once *)
(* each, in the order in which they were sent, and all of them do unless   *)
(* the connection is cut or the messages mix.  They can mix only while the *)
(* writes of two of them are in progress, which the sender sees in         *)
(* queue_size(); from then on anything may be received.                    *)
(***************************************************************************)
EXTENDS Naturals, Sequences

CONSTANT Message

VARIABLES
  sent, received,
  cut,     \* the connection is broken or closed
  writes,  \* how many writes are in progress
  mixed    \* the bytes of two messages have mixed

vars == <<sent, received, cut, writes, mixed>>

Init == sent = <<>> /\ received = <<>> /\ cut = FALSE /\ writes = 0 /\ mixed = FALSE

Send(m) ==
  /\ sent' = Append(sent, m)
  /\ writes' = writes + 1
  /\ UNCHANGED <<received, cut, mixed>>

WriteEnds ==
  /\ writes > 0
  /\ writes' = writes - 1
  /\ UNCHANGED <<sent, received, cut, mixed>>

Mix ==
  /\ writes > 1
  /\ mixed' = TRUE
  /\ UNCHANGED <<sent, received, cut, writes>>

Receive ==
  /\ ~mixed
  /\ Len(received) < Len(sent)
  /\ received' = Append(received, sent[Len(received) + 1])
  /\ UNCHANGED <<sent, cut, writes, mixed>>

\* received' is anything.
ReceiveMixed == mixed /\ UNCHANGED <<sent, cut, writes, mixed>>

Cut == cut' = TRUE /\ UNCHANGED <<sent, received, writes, mixed>>

Next ==
  \/ \E m \in Message : Send(m)
  \/ WriteEnds \/ Mix \/ Receive \/ ReceiveMixed \/ Cut

Spec == Init /\ [][Next]_vars /\ WF_vars(~cut /\ Receive)

=============================================================================
