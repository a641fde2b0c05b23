---------------------------- MODULE MCDocumentSession ----------------------------
(* Instances of DocumentSession for TLC: interchangeable peers. *)
EXTENDS DocumentSession, TLC

PeerSymmetry == Permutations(Peers)

=============================================================================
