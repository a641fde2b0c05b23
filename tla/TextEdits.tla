---------------------------------- MODULE TextEdits ----------------------------------
(***************************************************************************)
(* The laws of TextOt on bounded inputs.  One editor reports a first event *)
(* on a text and a second one on top of it, while another client edits the *)
(* same text: the three operations from which everything the browser and   *)
(* the server compute about text is built.                                 *)
(***************************************************************************)
EXTENDS TextOt

CONSTANTS
    Texts,      \* the texts to start from
    Typed,      \* the non-empty texts that one replacement puts in
    MaxChanges, \* the most replacements the first event reports
    RivalOps,   \* the operations of the other client
    Marker      \* a character nobody types

ASSUME InputsAssumption ==
    /\ Texts \subseteq Seq(Char)
    /\ Typed \subseteq Seq(Char)
    /\ RivalOps \subseteq Op

\* The marker is in no text, neither one to start from nor one that is inserted.
ASSUME MarkerAssumption ==
    /\ Marker \in Char
    /\ \A t \in Texts : Marker \notin Range(t)
    /\ \A op \in RivalOps : \A c \in Range(op) : c.type = "insert" => Marker \notin Range(c.text)

VARIABLES
    origin,     \* the text both clients started from
    changes,    \* the first event: a set of replacements, {} before it
    again,      \* the second event, one replacement in the text after the first
    rival       \* the other client's operation, Null before it

inputs == <<origin, changes, again, rival>>

\* The replacements an editor can report on a text of n characters: one that
\* neither deletes nor inserts is no event.
Replacement(n) ==
    {c \in [rangeOffset : 0..n, rangeLength : 0..n, text : Typed \cup {<<>>}] :
        /\ c.rangeOffset + c.rangeLength <= n
        /\ c.rangeLength > 0 \/ c.text # <<>>}

\* The ranges of one event do not touch.
Apart(c, d) ==
    \/ c.rangeOffset + c.rangeLength < d.rangeOffset
    \/ d.rangeOffset + d.rangeLength < c.rangeOffset

Events(n) ==
    {e \in UNION {kSubset(k, Replacement(n)) : k \in 1..MaxChanges} :
        \A c, d \in e : c # d => Apart(c, d)}

First == fromMonacoChanges(changes)
Second == fromMonacoChanges(again)
AfterFirst == apply(origin, First)

NoInputs ==
    /\ origin \in Texts
    /\ changes = {}
    /\ again = {}
    /\ rival = Null

EditFirst ==
    /\ changes = {}
    /\ changes' \in Events(Len(origin))
    /\ UNCHANGED <<origin, again, rival>>

EditAgain ==
    /\ changes # {}
    /\ again = {}
    /\ rival = Null
    /\ \E c \in Replacement(Len(AfterFirst)) : again' = {c}
    /\ UNCHANGED <<origin, changes, rival>>

RivalEdits ==
    /\ changes # {}
    /\ again = {}
    /\ rival = Null
    /\ rival' \in {op \in RivalOps : Reach(op) <= Len(origin)}
    /\ UNCHANGED <<origin, changes, again>>

Input == EditFirst \/ EditAgain \/ RivalEdits

Inputs == NoInputs /\ [][Input]_inputs

----------------------------------------------------------------------------
\* The text after the replacements of an event, the last range first, as the
\* editor itself carries them out; a place beyond the end of the text is its end.
Replaced(t, event) ==
    LET one == [p \in Seq(Char) \X Change |->
                    SubSeq(p[1], 1, Least(p[2].rangeOffset, Len(p[1]))) \o p[2].text
                    \o SubSeq(p[1], p[2].rangeOffset + p[2].rangeLength + 1, Len(p[1]))]
    IN  FoldLeft(LAMBDA s, c : one[<<s, c>>], t, Reverse(sorted(event)))

\* The operation the browser builds from an editor event is in the compact form
\* and has exactly the effect the user saw, however many ranges the event replaces
\* and in whatever order they are reported (fromMonacoChanges, ot-text.js:213-224).
EventCaptured ==
    /\ First \in Op /\ Compact(First)
    /\ AfterFirst = Replaced(origin, changes)

\* Two concurrent operations, transformed past each other, are still compact and
\* lead to one text, whichever is applied first, as
\* long as the two sides use opposite priorities: the server lets what it has
\* committed win, the browser lets what it receives win (transform,
\* ot-text.js:78-136, and its use in monaco-collab.js:117-139).
TextsMeet ==
    rival # Null =>
        \A p \in {<<"existingWins", "incomingWins">>, <<"incomingWins", "existingWins">>} :
            LET theirs == transform(rival, First, p[1])
                mine   == transform(First, rival, p[2])
            IN  /\ Compact(theirs) /\ Compact(mine)
                /\ apply(AfterFirst, theirs) = apply(apply(origin, rival), mine)

\* The edits a browser buffers while it waits for an answer can be sent as one
\* operation (compose, ot-text.js:163-189; monaco-collab.js:81), and that
\* operation is dropped only when it changes nothing.
EditsCompose == Effect(origin, compose(First, Second)) = apply(AfterFirst, Second)

\* Undoing an operation on the text it produced restores the text it was
\* applied to (TextOtEngine.Invert, TextOtEngine.cs:146-189), also when the
\* operation is undone after being merged with a later one.
Undoable ==
    LET both == compose(First, Second)
        op   == IF rival # Null THEN rival ELSE IF both = Null THEN First ELSE both
    IN  apply(apply(origin, op), Invert(op, origin)) = origin

\* Where a caret at `offset' is when everyone else's text at that place goes in
\* front of it: the place of a character inserted there.
Place(offset, op) ==
    LET mark  == transform(<<retain(offset), insert(<<Marker>>)>>, op, "existingWins")
        after == apply(apply(origin, op), mark)
    IN  (CHOOSE i \in DOMAIN after : after[i] = Marker) - 1

\* The caret keeps its place between the characters around it, whatever single
\* insertion or deletion another client makes in an operation of the compact form
\* that every client sends (transformOffset, ot-text.js:191-208).
CaretFollows ==
    (/\ rival # Null /\ Compact(rival)
     /\ Cardinality({i \in DOMAIN rival : rival[i].type # "retain"}) = 1) =>
        \A offset \in 0..Len(origin) : transformOffset(offset, rival) = Place(offset, rival)

\* The same for an operation that replaces characters, as a comment in the code
\* promises of every operation.
CaretSurvives ==
    rival # Null =>
        \A offset \in 0..Len(origin) : transformOffset(offset, rival) = Place(offset, rival)

=============================================================================
