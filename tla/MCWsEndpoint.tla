--------------------------- MODULE MCWsEndpoint ---------------------------
(* Two peers for TLC.  The ends run the same code, so they are symmetric.  *)
EXTENDS WsEndpoint, TLC

MCOther == [p \in Peer |-> CHOOSE q \in Peer : q # p]
Symmetry == Permutations(Peer)
============================================================================
