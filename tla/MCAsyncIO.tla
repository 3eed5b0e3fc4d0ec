------------------------------ MODULE MCAsyncIO ------------------------------
(* The instance of AsyncIO that TLC checks: a query of every kind, with empty *)
(* fields, with a payload longer than the socket's buffers, with lengths and  *)
(* ids of more than one byte.  Bytes stay below 128, so that any four of them *)
(* read as a size are an integer TLC can hold.                                *)
EXTENDS AsyncIO

Q(k, a) == [kind |-> k, args |-> a]

q == <<113>>

MCQuery == {
  Q("OK", <<16777217>>),
  Q("LOGIN", <<q>>),
  Q("LOGIN_CONFIRM", <<0>>),
  Q("CREATE_QUEUE", <<q, 258>>),
  Q("SUBSCRIBE", <<q, <<0, 127>>, 1>>),
  Q("UNSUBSCRIBE", <<q, <<>>, 256>>),
  Q("PUBLISH", <<q, q, [i \in 1 .. 260 |-> i % 128], 513>>)}

=============================================================================
