--------------------------- MODULE MCPeerManager ---------------------------
(* Goroutines are interchangeable, and so are peers.                       *)
EXTENDS PeerManager, TLC

Symmetry == Permutations(Peer) \cup Permutations(Goroutine)
=============================================================================
