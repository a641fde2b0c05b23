---------------------------------- MODULE MCPresence ----------------------------------
(***************************************************************************)
(* An instance of Presence with the bounds of its configurations.          *)
(***************************************************************************)
EXTENDS Presence

=============================================================================
