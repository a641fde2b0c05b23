---------------------------------- MODULE MCComments ----------------------------------
(***************************************************************************)
(* An instance of Comments: text operations, with the registrations of     *)
(* AddOpStream and with one that a host adds under the operation's name.   *)
(***************************************************************************)
EXTENDS Comments

MCEngineType == "TextOp"
MCShipped == {"text", "richtext", "json"}
MCRegistrations == {MCShipped, MCShipped \cup {"TextOp"}}

=============================================================================
