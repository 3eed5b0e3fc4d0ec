--------------------------- MODULE MCNodeDelivery ---------------------------
(* The instance of NodeDelivery that TLC checks. *)
EXTENDS NodeDelivery, TLC

MCTag == {"", "a"}
MCNoTag == ""
MCMatches == {<<"a", "a">>, <<"", "">>}

Clients == ClientId

Symmetry == Permutations(Thread)

=============================================================================
