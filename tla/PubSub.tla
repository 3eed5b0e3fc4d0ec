------------------------------- MODULE PubSub -------------------------------
(***************************************************************************)
(* What a broker promises, without its maps, locks and steps: a publish    *)
(* that returns has reached everyone it owed the message to, it reaches    *)
(* nobody twice, and it reaches nobody who had not subscribed.             *)
(*                                                                         *)
(* A member has an acknowledged subscription to everything in a queue; the *)
(* audience also holds those whose subscription is selective, is not yet   *)
(* acknowledged, or is being taken back.  A publish owes the message to    *)
(* whoever is a member as long as it lasts, and may bring it to whoever is *)
(* in the audience at some moment of it.                                   *)
(***************************************************************************)

CONSTANTS Client, Queue, Publisher, None

VARIABLES
  member,    \* queue to its members
  audience,  \* queue to everyone who may receive from it
  pub,       \* publisher to its publish in progress
  failed     \* the publishers that were told their last publish broke off

vars == <<member, audience, pub, failed>>

Publish == [queue : Queue, owed : SUBSET Client, may : SUBSET Client, reached : SUBSET Client]

TypeOK ==
  /\ member \in [Queue -> SUBSET Client]
  /\ audience \in [Queue -> SUBSET Client]
  /\ pub \in [Publisher -> Publish \cup {None}]
  /\ failed \in SUBSET Publisher

Init ==
  /\ member = [q \in Queue |-> {}]
  /\ audience = [q \in Queue |-> {}]
  /\ pub = [p \in Publisher |-> None]
  /\ failed = {}

Progress(q, owed, may, reached) == [queue |-> q, owed |-> owed, may |-> may, reached |-> reached]

\* The publishes in progress follow a change of the members or the audience.
Follow ==
  /\ pub' = [p \in Publisher |->
       IF pub[p] = None THEN None
         ELSE Progress(pub[p].queue, pub[p].owed \cap member'[pub[p].queue],
                       pub[p].may \cup audience'[pub[p].queue], pub[p].reached)]
  /\ UNCHANGED failed

\* A subscription takes effect; it may be less than a membership.
Subscribe(q, c) ==
  /\ audience' = [audience EXCEPT ![q] = @ \cup {c}]
  /\ member' \in {member, [member EXCEPT ![q] = @ \cup {c}]}
  /\ Follow

\* c starts to change its subscription.
Quit(q, c) ==
  /\ member' = [member EXCEPT ![q] = @ \ {c}]
  /\ UNCHANGED audience
  /\ Follow

\* The subscription of c is gone.
Unsubscribe(q, c) ==
  /\ c \notin member[q]
  /\ audience' = [audience EXCEPT ![q] = @ \ {c}]
  /\ UNCHANGED member
  /\ Follow

\* c disconnects, and then is forgotten everywhere.
Disconnect(c) ==
  /\ member' = [q \in Queue |-> member[q] \ {c}]
  /\ UNCHANGED audience
  /\ Follow

Forget(c) ==
  /\ \A q \in Queue : c \notin member[q]
  /\ audience' = [q \in Queue |-> audience[q] \ {c}]
  /\ UNCHANGED member
  /\ Follow

Begin(p, q) ==
  /\ pub[p] = None
  /\ pub' = [pub EXCEPT ![p] = Progress(q, member[q], audience[q], {})]
  /\ failed' = failed \ {p}
  /\ UNCHANGED <<member, audience>>

Deliver(p, c) ==
  /\ pub[p] # None
  /\ c \in pub[p].may \ pub[p].reached
  /\ pub' = [pub EXCEPT ![p] = Progress(@.queue, @.owed, @.may, @.reached \cup {c})]
  /\ UNCHANGED <<member, audience, failed>>

Return(p) ==
  /\ pub[p] # None
  /\ pub[p].owed \subseteq pub[p].reached
  /\ pub' = [pub EXCEPT ![p] = None]
  /\ UNCHANGED <<member, audience, failed>>

\* The publisher is told that the publish broke off.
Fail(p) ==
  /\ pub[p] # None
  /\ pub' = [pub EXCEPT ![p] = None]
  /\ failed' = failed \cup {p}
  /\ UNCHANGED <<member, audience>>

Next ==
  \/ \E q \in Queue, c \in Client : Subscribe(q, c) \/ Quit(q, c) \/ Unsubscribe(q, c)
  \/ \E c \in Client : Disconnect(c) \/ Forget(c)
  \/ \E p \in Publisher, q \in Queue : Begin(p, q)
  \/ \E p \in Publisher, c \in Client : Deliver(p, c)
  \/ \E p \in Publisher : Return(p) \/ Fail(p)

Spec == Init /\ [][Next]_vars

=============================================================================
