---------------------------------- MODULE MCCollabSession ----------------------------------
(***************************************************************************)
(* An instance of CollabSession: two clients; its configurations have one  *)
(* object, with one property of its own that the scene writes.             *)
(***************************************************************************)
EXTENDS CollabSession

\* A position is an array, and a whole object an object: in the ordinal order of
\* their JSON texts a deletion's null is between them.
MCClients == {1, 2}
MCPaths == {<<i>> : i \in Ids} \cup {<<i, "position">> : i \in Ids}
MCPlaces == {1, 2}
MCDeleted == 3
MCObjects == {4, 5}

\* The greater one, which a change of the same millisecond does not win over.
MCNewObjects == {5}

=============================================================================
