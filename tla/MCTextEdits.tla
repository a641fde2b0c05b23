---------------------------------- MODULE MCTextEdits ----------------------------------
\* Instances of TextEdits for TLC.
EXTENDS TextEdits

MCChar == {"a", "b", "c", "x", "y", "u", "v", "|"}
MCTexts == {<<>>, <<"a">>, <<"a", "b">>, <<"a", "b", "c">>}
MCTyped == {<<"x">>, <<"x", "y">>}

\* The rival's components, and its operations of at most three of them, in
\* which no two neighbours are of one type.
Parts == {retain(1), retain(2), del(1), del(2), insert(<<"u">>), insert(<<"u", "v">>)}
MCRivalOps ==
    {op \in UNION {[1..n -> Parts] : n \in 1..3} :
        \A i \in 1..(Len(op) - 1) : op[i].type # op[i + 1].type}
=============================================================================
