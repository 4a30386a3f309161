------------------------------ MODULE MCSummary ------------------------------
(***************************************************************************)
(* Summary for a small board: a critical service with an endpoint and its  *)
(* node.  A project would be one more subject, aggregated as the node is.  *)
(***************************************************************************)
EXTENDS Summary, TLC

MCConfig ==
    [services |-> {"site"},
     nodes |-> {"node"},
     projects |-> {},
     keyOf |-> [site |-> "k1"],
     nodeOf |-> [site |-> "node"],
     critical |-> {"site"},
     serviceIDs |-> <<>>]

MCRecordOrder == <<"site", "node">>

\* Requests are interchangeable; used for safety only.
Symmetry == Permutations(Requests)
=============================================================================
