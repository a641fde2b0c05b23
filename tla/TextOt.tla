---------------------------------- MODULE TextOt ----------------------------------
(***************************************************************************)
(* The operational transformation of text: what the server's TextOtEngine  *)
(* does to the operations of one document, and what ot-text.js, its port   *)
(* in the Monaco sample, does to them in the browser.  The two are the     *)
(* same algorithm, so there is one operator for both; the browser alone    *)
(* has transformOffset and fromMonacoChanges, the server alone has Invert. *)
(*                                                                         *)
(* A text is a sequence of characters.  An operation is the sequence of    *)
(* its components: keep `count' characters, insert `text', or delete       *)
(* `count' characters, from the start of the text onwards.                 *)
(***************************************************************************)
EXTENDS Integers, Sequences, SequencesExt

CONSTANTS
    Char,       \* the characters of the texts
    Null        \* the null that stands for "no operation"

retain(n) == [type |-> "retain", count |-> n]
insert(t) == [type |-> "insert", text |-> t]
del(n)    == [type |-> "delete", count |-> n]

Component ==
    [type : {"retain", "delete"}, count : Nat] \cup [type : {"insert"}, text : Seq(Char)]
Op == Seq(Component)

ASSUME NullAssumption == Null \notin Op

Least(m, n) == IF m < n THEN m ELSE n

compLen(c) == IF c.type = "insert" THEN Len(c.text) ELSE c.count

isNoOp(op) == op = Null \/ \A i \in DOMAIN op : op[i].type = "retain"

----------------------------------------------------------------------------
\* Compaction, and the effect of an operation on a text.

\* The two components c and d of one type as one.
Joined(c, d) ==
    IF c.type = "insert" THEN insert(c.text \o d.text) ELSE [c EXCEPT !.count = @ + d.count]

Pushed(out, c) ==
    IF compLen(c) = 0 THEN out
    ELSE IF out # <<>> /\ Last(out).type = c.type THEN Append(Front(out), Joined(Last(out), c))
    ELSE Append(out, c)

\* Here as in the folds below, the step is a function of the pair of the result
\* so far and the next component.
push == [p \in Op \X Component |-> Pushed(p[1], p[2])]

compact(op) == FoldLeft(LAMBDA out, c : push[<<out, c>>], <<>>, op)

\* How far an operation has been applied: what it has produced, and how much of
\* the text it has passed.
Progress == [out : Seq(Char), index : Nat]

\* What is not covered by the operation is kept; retaining or deleting beyond
\* the end of the text is harmless.
Passed(text, s, c) ==
    CASE c.type = "retain" ->
            [out |-> s.out \o SubSeq(text, s.index + 1, Least(s.index + c.count, Len(text))),
             index |-> s.index + c.count]
      [] c.type = "insert" -> [s EXCEPT !.out = @ \o c.text]
      [] c.type = "delete" -> [s EXCEPT !.index = @ + c.count]

covered(text) == [p \in Progress \X Component |-> Passed(text, p[1], p[2])]

apply(text, op) ==
    LET done == FoldLeft(LAMBDA s, c : covered(text)[<<s, c>>], [out |-> <<>>, index |-> 0], op)
    IN  done.out \o SubSeq(text, done.index + 1, Len(text))

----------------------------------------------------------------------------
\* Slices of the component at the head of an operation.

\* What is left of op after the first n units of its head.
remainder(op, n) ==
    LET c == Head(op)
    IN  IF compLen(c) = n THEN Tail(op)
        ELSE <<IF c.type = "insert" THEN insert(SubSeq(c.text, n + 1, Len(c.text)))
               ELSE [c EXCEPT !.count = @ - n]>> \o Tail(op)

\* The first n units of the head of op.
next(op, n) ==
    IF Head(op).type = "insert" THEN insert(SubSeq(Head(op).text, 1, n))
    ELSE [Head(op) EXCEPT !.count = n]

starts(op, type) == op # <<>> /\ Head(op).type = type

Overlap(a, b) == Least(compLen(Head(a)), compLen(Head(b)))

----------------------------------------------------------------------------
\* Mutant of transform: an insertion always gives way to one at its place.
transformOneSided(incoming, existing, priority) ==
    LET rest[i \in Op, e \in Op] ==
            IF starts(e, "insert") THEN <<retain(Len(Head(e).text))>> \o rest[i, Tail(e)]
            ELSE IF starts(i, "insert") THEN <<Head(i)>> \o rest[Tail(i), e]
            ELSE IF i = <<>> THEN <<>>
            ELSE IF e = <<>> THEN i
            ELSE LET n == Overlap(i, e)
                 IN  (IF Head(e).type = "retain" THEN <<next(i, n)>> ELSE <<>>)
                     \o rest[remainder(i, n), remainder(e, n)]
    IN  compact(rest[incoming, existing])

\* What is left of p[1], as it is applied after what is left of p[2]; of two
\* insertions at one place the one that `priority' favours comes first.
rebased(priority) ==
    LET rest[p \in Op \X Op] ==
            LET i == p[1]
                e == p[2]
                n == Overlap(i, e)
            IN  IF starts(e, "insert") /\ (starts(i, "insert") => priority = "existingWins")
                  THEN <<retain(Len(Head(e).text))>> \o rest[<<i, Tail(e)>>]
                ELSE IF starts(i, "insert") THEN <<Head(i)>> \o rest[<<Tail(i), e>>]
                ELSE IF i = <<>> THEN <<>>
                ELSE IF e = <<>> THEN i
                ELSE (IF Head(e).type = "retain" THEN <<next(i, n)>> ELSE <<>>)
                     \o rest[<<remainder(i, n), remainder(e, n)>>]
    IN  rest

\* incoming as it is applied after existing.
transform(incoming, existing, priority) == compact(rebased(priority)[<<incoming, existing>>])

\* Mutant of compose: what a inserts and b deletes is deleted from the text.
composeDeletingInserted(a, b) ==
    LET rest[x \in Op, y \in Op] ==
            IF starts(x, "delete") THEN <<Head(x)>> \o rest[Tail(x), y]
            ELSE IF starts(y, "insert") THEN <<Head(y)>> \o rest[x, Tail(y)]
            ELSE IF x = <<>> THEN y
            ELSE IF y = <<>> THEN x
            ELSE LET n == Overlap(x, y)
                 IN  (IF Head(y).type = "retain" THEN <<next(x, n)>> ELSE <<del(n)>>)
                     \o rest[remainder(x, n), remainder(y, n)]
    IN  IF a = Null THEN b ELSE IF b = Null THEN a ELSE compact(rest[a, b])

\* What is left of p[1] and then of p[2], as one operation.
merged ==
    LET both(x, y, n) ==
            CASE y.type = "retain"                        -> <<next(<<x>>, n)>>
              [] y.type = "delete" /\ x.type = "retain"   -> <<del(n)>>
              [] OTHER                                    -> <<>>
        rest[p \in Op \X Op] ==
            LET x == p[1]
                y == p[2]
                n == Overlap(x, y)
            IN  IF starts(x, "delete") THEN <<Head(x)>> \o rest[<<Tail(x), y>>]
                ELSE IF starts(y, "insert") THEN <<Head(y)>> \o rest[<<x, Tail(y)>>]
                ELSE IF x = <<>> THEN y
                ELSE IF y = <<>> THEN x
                ELSE both(Head(x), Head(y), n) \o rest[<<remainder(x, n), remainder(y, n)>>]
    IN  rest

\* One operation with the effect of a followed by b; Null when it has none.
compose(a, b) ==
    LET composed == compact(merged[<<a, b>>])
    IN  IF a = Null THEN b
        ELSE IF b = Null THEN a
        ELSE IF isNoOp(composed) THEN Null
        ELSE composed

\* Mutant of Invert: a deletion does not move on in the text it deletes from.
InvertInPlace(op, preState) ==
    LET undone(s, c) ==
            CASE c.type = "retain" -> [inv |-> Append(s.inv, c), offset |-> s.offset + c.count]
              [] c.type = "insert" -> [s EXCEPT !.inv = Append(@, del(Len(c.text)))]
              [] c.type = "delete" ->
                    [s EXCEPT !.inv = Append(@, insert(SubSeq(preState, s.offset + 1,
                                                    Least(s.offset + c.count, Len(preState)))))]
    IN  compact(FoldLeft(undone, [inv |-> <<>>, offset |-> 0], op).inv)

\* The operation that takes back op, which was applied to preState.
Reverted(preState, s, c) ==
    CASE c.type = "retain" -> [inv |-> Append(s.inv, c), offset |-> s.offset + c.count]
      [] c.type = "insert" -> [s EXCEPT !.inv = Append(@, del(Len(c.text)))]
      [] c.type = "delete" ->
            [inv |-> Append(s.inv, insert(SubSeq(preState, s.offset + 1,
                                            Least(s.offset + c.count, Len(preState))))),
             offset |-> s.offset + c.count]

undone(preState) ==
    [p \in [inv : Op, offset : Nat] \X Component |-> Reverted(preState, p[1], p[2])]

Invert(op, preState) ==
    LET done == FoldLeft(LAMBDA s, c : undone(preState)[<<s, c>>], [inv |-> <<>>, offset |-> 0], op)
    IN  compact(done.inv)

----------------------------------------------------------------------------
\* The browser's editor.

\* Mutant of transformOffset: a deletion before the caret counts in full.
transformOffsetUnclamped(offset, op) ==
    LET shifted(s, c) ==
            CASE c.type = "retain" -> [s EXCEPT !.pos = @ + c.count]
              [] c.type = "insert" ->
                    [s EXCEPT !.out = IF s.pos <= @ THEN @ + Len(c.text) ELSE @]
              [] c.type = "delete" ->
                    [pos |-> s.pos + c.count,
                     out |-> IF s.pos < s.out THEN s.out - c.count ELSE s.out]
        done == FoldLeft(shifted, [pos |-> 0, out |-> offset], op)
    IN  IF op = Null THEN offset ELSE IF done.out < 0 THEN 0 ELSE done.out

\* A caret on its way past the components of an operation: pos counts the
\* characters of the text before it, out is the caret's place in the text after it.
Caret == [pos : Nat, out : Nat]

Carried(s, c) ==
    CASE c.type = "retain" -> [s EXCEPT !.pos = @ + c.count]
      [] c.type = "insert" -> [s EXCEPT !.out = IF s.pos <= @ THEN @ + Len(c.text) ELSE @]
      [] c.type = "delete" ->
            [pos |-> s.pos + c.count,
             out |-> IF s.pos < s.out THEN s.out - Least(c.count, s.out - s.pos) ELSE s.out]

carried == [p \in Caret \X Component |-> Carried(p[1], p[2])]

\* Where the caret at `offset' is after op.
transformOffset(offset, op) ==
    LET done == FoldLeft(LAMBDA s, c : carried[<<s, c>>], [pos |-> 0, out |-> offset], op)
    IN  IF op = Null THEN offset ELSE IF done.out < 0 THEN 0 ELSE done.out

\* Mutant of fromMonacoChanges: the ranges are taken in the order Monaco reports
\* them, the last first.
fromMonacoChangesUnsorted(changes) ==
    LET swept(s, c) ==
            [comps |-> s.comps \o (IF c.rangeOffset > s.pos THEN <<retain(c.rangeOffset - s.pos)>>
                                   ELSE <<>>)
                               \o <<del(c.rangeLength), insert(c.text)>>,
             pos |-> c.rangeOffset + c.rangeLength]
        reported == SetToSortSeq(changes, LAMBDA c, d : c.rangeOffset > d.rangeOffset)
    IN  compact(FoldLeft(swept, [comps |-> <<>>, pos |-> 0], reported).comps)

\* One replacement of an editor event, and how far the replacements have been
\* swept: the components so far, and the place of the text they end at.
Change == [rangeOffset : Nat, rangeLength : Nat, text : Seq(Char)]
Sweep == [comps : Op, pos : Nat]

Swept(s, c) ==
    [comps |-> s.comps \o (IF c.rangeOffset > s.pos THEN <<retain(c.rangeOffset - s.pos)>>
                           ELSE <<>>)
                       \o <<del(c.rangeLength), insert(c.text)>>,
     pos |-> c.rangeOffset + c.rangeLength]

swept == [p \in Sweep \X Change |-> Swept(p[1], p[2])]

\* A set of replacements in the order of their places.
sorted(changes) ==
    CHOOSE s \in SetToSeqs(changes) :
        \A i, j \in DOMAIN s : i < j => s[i].rangeOffset < s[j].rangeOffset

\* The operation of one editor event: a set of replacements of disjoint ranges
\* [rangeOffset, rangeLength, text] of the same text.
fromMonacoChanges(changes) ==
    LET done == FoldLeft(LAMBDA s, c : swept[<<s, c>>], [comps |-> <<>>, pos |-> 0],
                         sorted(changes))
    IN  compact(done.comps)

----------------------------------------------------------------------------
\* What is said of operations.

\* The number of characters an operation needs to find in the text.
Reach(op) ==
    LET needed == [p \in Nat \X Component |-> IF p[2].type = "insert" THEN p[1] ELSE p[1] + p[2].count]
    IN  FoldLeft(LAMBDA n, c : needed[<<n, c>>], 0, op)

\* No component is empty and no two neighbours are of one type.
Compact(op) ==
    /\ \A i \in DOMAIN op : compLen(op[i]) > 0
    /\ \A i \in 1..(Len(op) - 1) : op[i].type # op[i + 1].type

\* The effect of an operation that may be Null.
Effect(t, op) == IF op = Null THEN t ELSE apply(t, op)

=============================================================================
