--------------------------- MODULE MCDocumentLifecycle ---------------------------
(* Instances of DocumentLifecycle for TLC: interchangeable connections. *)
EXTENDS DocumentLifecycle, TLC

PeerSymmetry == Permutations(Peers)

=============================================================================
