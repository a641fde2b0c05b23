---------------------------------- MODULE JsonCrdt ----------------------------------
(***************************************************************************)
(* JsonCrdtEngine: a JSON document as registers, one per path, of which    *)
(* the last writer wins, and in which writing a path overrides what was    *)
(* written below it earlier.                                               *)
(*                                                                         *)
(* A path is the sequence of its names.  Peers and values are numbers in   *)
(* the ordinal order of their texts, in which the engine compares them; a  *)
(* deletion has the text "null".                                           *)
(***************************************************************************)
EXTENDS Naturals, Sequences, SequencesExt

CONSTANTS
    Paths,      \* the paths that may be written
    Deleted,    \* the value of a deletion
    NoRegister  \* what is at a path that was never written

ASSUME PathAssumption == /\ \A p \in Paths : p # <<>>
                         /\ Deleted \in Nat

\* An operation, and also the register it leaves behind.
Write(path, value, ts, peer) == [path |-> path, value |-> value, ts |-> ts, peer |-> peer]

Writes == [path : Paths, value : Nat, ts : Nat, peer : Nat]

ASSUME RegisterAssumption == NoRegister \notin Writes

Registers == [Paths -> Writes \cup {NoRegister}]

Above(p, q) == IsStrictPrefix(p, q)

\* Mutant of WinsLWW: of two of one time the one that comes later.
WinsLWWByArrival(x, y, sameBatch) == x.ts >= y.ts

\* x wins over y.  Of two by one peer in one millisecond the greater value wins,
\* unless they are in one batch: there the later one does.
WinsLWW(x, y, sameBatch) ==
    \/ x.ts > y.ts
    \/ x.ts = y.ts /\ x.peer > y.peer
    \/ x.ts = y.ts /\ x.peer = y.peer /\ (sameBatch \/ x.value > y.value)

\* An operation below a later write is void, unless one gesture of one peer made
\* them both.
Voids(x, y) ==
    /\ Above(x.path, y.path) /\ WinsLWW(x, y, TRUE)
    /\ ~(x.ts = y.ts /\ x.peer = y.peer)

\* One more operation of a batch, of which `done' has what is left so far: it takes
\* the place of the one of its path and removes those below that it makes void.
Added(done, op) ==
    LET Void(p) == done[p] # NoRegister /\ Voids(op, done[p])
    IN  IF \/ \E p \in Paths : done[p] # NoRegister /\ Voids(done[p], op)
           \/ done[op.path] # NoRegister /\ ~WinsLWW(op, done[op.path], TRUE)
        THEN done
        ELSE [p \in Paths |-> IF p = op.path THEN op ELSE IF Void(p) THEN NoRegister ELSE done[p]]

added == [p \in Registers \X Writes |-> Added(p[1], p[2])]

Empty == [p \in Paths |-> NoRegister]

\* What is left of a batch: a dictionary from the paths to their operations.
Compose(batch) == FoldLeft(LAMBDA done, op : added[<<done, op>>], Empty, batch)

\* One operation of a batch that writes the paths `written'.
ApplySingleOp(regs, op, written) ==
    LET stale == \E a \in Paths :
                    /\ Above(a, op.path) /\ regs[a] # NoRegister
                    /\ ~WinsLWW(op, regs[a], a \in written)
        lost  == regs[op.path] # NoRegister /\ ~WinsLWW(op, regs[op.path], FALSE)
        Overridden(p) == /\ Above(op.path, p) /\ p \notin written
                         /\ regs[p] # NoRegister /\ WinsLWW(op, regs[p], FALSE)
    IN  IF stale \/ lost THEN regs
        ELSE [p \in Paths |->
                IF p = op.path THEN op
                ELSE IF Overridden(p) THEN Write(p, Deleted, op.ts, op.peer)
                ELSE regs[p]]

\* The operations that are left are applied in the order of the batch.
Apply(regs, batch) ==
    LET left    == Compose(batch)
        written == {p \in Paths : left[p] # NoRegister}
        applied == [p \in Registers \X Writes |->
                       IF left[p[2].path] = p[2] THEN ApplySingleOp(p[1], p[2], written) ELSE p[1]]
    IN  FoldLeft(LAMBDA r, op : applied[<<r, op>>], regs, batch)

\* What a reader of the document sees at a path.
Live(regs, p) ==
    IF regs[p] = NoRegister THEN Deleted ELSE regs[p].value

=============================================================================
