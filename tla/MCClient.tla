------------------------------ MODULE MCClient ------------------------------
(* The instances of Client that TLC checks. *)
EXTENDS Client, TLC

\* A call of each kind: with and without the pool, waiting or not.
ThreadCalls == {<<"CREATE_QUEUE", "Async">>, <<"CHANGE", "Async">>, <<"PUBLISH", "Sync">>}

SyncPublish == {<<"PUBLISH", "Sync">>}

Symmetry == Permutations(Thread)

=============================================================================
