---------------------------------- MODULE OpLog ----------------------------------
(***************************************************************************)
(* What one collaborative document promises to its clients, whatever the   *)
(* server does internally: its history is an append-only sequence of       *)
(* operations, each committed once; a client is told that its operation    *)
(* was applied only after it was committed; and a client that joins is     *)
(* given the state of one prefix of the history, never a state that lacks  *)
(* an operation some client has already been told about.                   *)
(*                                                                         *)
(* A document's state is the sequence of the operations that produced it,  *)
(* and its revision is the length of that sequence (the seed that creates  *)
(* the document counts as the first operation).                            *)
(***************************************************************************)
EXTENDS Naturals, Sequences

CONSTANTS
    Peers,      \* the clients that may join
    Ops,        \* the operations that may be committed
    NoView      \* the view of a client that has not joined

VARIABLES
    log,        \* the committed operations, in revision order
    acked,      \* the operations reported to their authors as applied
    view        \* peer -> [rev, doc] it was given when it joined, or NoView

vars == <<log, acked, view>>

----------------------------------------------------------------------------

Committed == {log[i] : i \in DOMAIN log}

\* The state of the document after its first n operations.
Prefix(n) == [i \in 1..n |-> log[i]]

Init ==
    /\ log = <<>>
    /\ acked = {}
    /\ view = [p \in Peers |-> NoView]

Commit(op) ==
    /\ op \notin Committed
    /\ log' = Append(log, op)
    /\ UNCHANGED <<acked, view>>

Acknowledge(op) ==
    /\ op \in Committed
    /\ acked' = acked \cup {op}
    /\ UNCHANGED <<log, view>>

\* A joiner may miss operations that are committed but not yet acknowledged.
Join(p, n) ==
    /\ acked \subseteq {log[i] : i \in 1..n}
    /\ view' = [view EXCEPT ![p] = [rev |-> n, doc |-> Prefix(n)]]
    /\ UNCHANGED <<log, acked>>

\* The server went down: every client has to join again.
Disconnect ==
    /\ view' = [p \in Peers |-> NoView]
    /\ UNCHANGED <<log, acked>>

Next ==
    \/ \E op \in Ops : Commit(op) \/ Acknowledge(op)
    \/ \E p \in Peers, n \in DOMAIN log : Join(p, n)
    \/ Disconnect

Spec == Init /\ [][Next]_vars

=============================================================================
