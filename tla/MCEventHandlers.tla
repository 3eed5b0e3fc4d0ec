-------------------------- MODULE MCEventHandlers --------------------------
(* The instances of EventHandlers that TLC checks.  As in MCNode the empty *)
(* tag takes every message and "a" and "b" take themselves.                *)
EXTENDS EventHandlers

CONSTANTS h1, h2, q1, q2

MCNoTag == ""
MCTag == {"", "a", "b"}
MCMatches == {<<tag, tag>> : tag \in MCTag}

S(h, q, tag) == [handler |-> h, queue |-> q, tag |-> tag]

\* A consumer that is subscribed to a queue again with another tag, as in the
\* tests, and to a second queue; one that takes everything of a queue; and a
\* subscription without a consumer.
Retagged ==
  {S(h1, q1, "a"), S(h1, q1, "b"), S(h1, q2, "a"), S(h2, q1, ""), S(None, q2, "")}

=============================================================================
