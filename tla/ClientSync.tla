---------------------------------- MODULE ClientSync ----------------------------------
(***************************************************************************)
(* The text editors of the Monaco sample on one document, the WebSocket    *)
(* each of them keeps open, and the part of the server they talk to: an    *)
(* operation is transformed past what its author had not seen, appended to *)
(* the log, broadcast to the other connections, and only then answered.    *)
(*                                                                         *)
(* An editor shows every keystroke at once.  It has one operation in       *)
(* flight, composes what is typed meanwhile into a buffer, and transforms  *)
(* both past each operation it receives.  A connection that is lost is     *)
(* opened again and the editor starts over from the server's text.         *)
(*                                                                         *)
(* The server works on one request of a connection at a time, but what it  *)
(* has done and what it answers are two steps: another connection's        *)
(* operation can be broadcast between them.  It can also fail once the     *)
(* operation is in the log: its author is then told that it was not        *)
(* applied, and nobody else may hear of it at all.                         *)
(***************************************************************************)
EXTENDS TextOt

CONSTANTS
    Clients,        \* the editors
    Seed,           \* the text of the document when the log was empty
    Keys,           \* the characters that are typed, in the order of typing
    MaxEdits,       \* bound: editor events, of all clients together
    MaxBreaks,      \* bound: connections lost or disposed of
    MaxRefusals,    \* bound: requests the server refuses, or fails after it committed
    MaxEvents       \* bound: the three of them together

ASSUME BoundsAssumption ==
    /\ Seed \in Seq(Char)
    /\ Keys \in Seq(Char)
    /\ MaxEdits \in 0..Len(Keys)
    /\ MaxBreaks \in Nat
    /\ MaxRefusals \in Nat
    /\ MaxEvents \in Nat

\* The characters are told apart: one that a document has twice was put into it twice.
ASSUME KeysAssumption ==
    LET all == Seed \o Keys IN \A i, j \in DOMAIN all : i # j => all[i] # all[j]

VARIABLES
    log,        \* the server's log of committed operations
    text,       \* client -> the text its editor shows
    revision,   \* client -> the revision it builds on
    inflight,   \* client -> the operation sent and not answered, or Null
    buffer,     \* client -> the edits made meanwhile, or Null
    phase,      \* client -> "joining", "open", "down" or "disposed"
    up,         \* client -> its requests on their way to the server
    net,        \* client -> the server's messages on their way to it
    owed,       \* client -> the answer the server is about to send, or Null
    late,       \* requests that lost connections left behind, in order
    members,    \* the clients whose connection receives broadcasts
    count,      \* how often each bounded thing has happened
    disturbed   \* the clients whose connection did not go by the book (see below)

serverVars == <<log, late>>
editorVars == <<text, revision, inflight, buffer, phase>>
wire == <<up, net, owed, members>>
vars == <<serverVars, editorVars, wire, count, disturbed>>

\* One more of what the users and the environment do.
Count(what) ==
    /\ count[what] < [edits |-> MaxEdits, breaks |-> MaxBreaks, refusals |-> MaxRefusals][what]
    /\ count.edits + count.breaks + count.refusals < MaxEvents
    /\ count' = [count EXCEPT ![what] = @ + 1]

\* The document after the first n operations of the log.
applied == [p \in Seq(Char) \X Op |-> apply(p[1], p[2])]

DocAt(n) == FoldLeft(LAMBDA t, op : applied[<<t, op>>], Seed, SubSeq(log, 1, n))

Init ==
    /\ log = <<>>
    /\ text = [c \in Clients |-> <<>>]
    /\ revision = [c \in Clients |-> 0]
    /\ inflight = [c \in Clients |-> Null]
    /\ buffer = [c \in Clients |-> Null]
    /\ phase = [c \in Clients |-> "joining"]
    /\ up = [c \in Clients |-> <<[type |-> "join"]>>]
    /\ net = [c \in Clients |-> <<>>]
    /\ owed = [c \in Clients |-> Null]
    /\ late = <<>>
    /\ members = {}
    /\ count = [edits |-> 0, breaks |-> 0, refusals |-> 0]
    /\ disturbed = {}

----------------------------------------------------------------------------
\* The editor.

\* The request for an operation of c, made on revision rev; a socket that is not
\* open takes nothing.
SendOp(c, op, rev) ==
    up' = IF phase[c] \in {"joining", "open"}
          THEN [up EXCEPT ![c] = Append(@, [type |-> "op", op |-> op, base |-> rev])]
          ELSE up

\* One keystroke: the next key at some place, or a character deleted.
Keystroke(n) ==
    [rangeOffset : 0..n, rangeLength : {0}, text : {<<Keys[count.edits + 1]>>}]
        \cup [rangeOffset : 0..(n - 1), rangeLength : {1}, text : {<<>>}]

Edit(c) ==
    /\ phase[c] # "disposed"
    /\ Count("edits")
    /\ \E change \in Keystroke(Len(text[c])) :
        LET op == fromMonacoChanges({change})
        IN  /\ text' = [text EXCEPT ![c] = apply(@, op)]
            /\ IF inflight[c] = Null
               THEN /\ inflight' = [inflight EXCEPT ![c] = op]
                    /\ SendOp(c, op, revision[c])
                    /\ UNCHANGED buffer
               ELSE /\ buffer' = [buffer EXCEPT ![c] = compose(@, op)]
                    /\ UNCHANGED <<inflight, up>>
    /\ disturbed' = IF phase[c] = "joining" THEN disturbed \cup {c} ELSE disturbed
    /\ UNCHANGED <<serverVars, revision, phase, net, owed, members>>

\* Mutant of ReceiveOp: the buffer is not transformed past what is in flight first.
ReceiveOpPastBoth(c, m) ==
    LET past1   == IF inflight[c] = Null THEN m.op
                   ELSE transform(m.op, inflight[c], "incomingWins")
        past2   == IF buffer[c] = Null THEN past1
                   ELSE transform(past1, buffer[c], "incomingWins")
        pending == IF buffer[c] = Null THEN Null
                   ELSE transform(buffer[c], m.op, "existingWins")
    IN  /\ inflight' = [inflight EXCEPT ![c] =
                            IF @ = Null THEN Null ELSE transform(@, m.op, "existingWins")]
        /\ buffer' = [buffer EXCEPT ![c] = IF isNoOp(pending) THEN Null ELSE pending]
        /\ revision' = [revision EXCEPT ![c] = m.rev]
        /\ text' = [text EXCEPT ![c] = IF isNoOp(past2) THEN @ ELSE apply(@, past2)]
        /\ UNCHANGED <<phase, up>>

\* An operation of someone else: past it with what is in flight and with the
\* buffer, and into the editor with what is left of it.
ReceiveOp(c, m) ==
    LET past1   == IF inflight[c] = Null THEN m.op
                   ELSE transform(m.op, inflight[c], "incomingWins")
        past2   == IF buffer[c] = Null THEN past1
                   ELSE transform(past1, buffer[c], "incomingWins")
        pending == IF buffer[c] = Null THEN Null
                   ELSE transform(buffer[c], past1, "existingWins")
    IN  /\ inflight' = [inflight EXCEPT ![c] =
                            IF @ = Null THEN Null ELSE transform(@, m.op, "existingWins")]
        /\ buffer' = [buffer EXCEPT ![c] = IF isNoOp(pending) THEN Null ELSE pending]
        /\ revision' = [revision EXCEPT ![c] = m.rev]
        /\ text' = [text EXCEPT ![c] = IF isNoOp(past2) THEN @ ELSE apply(@, past2)]
        /\ UNCHANGED <<phase, up>>

\* Mutant of ReceiveAnswer: what was buffered is in flight and is never sent.
ReceiveAnswerUnsent(c, m) ==
    /\ revision' = [revision EXCEPT ![c] = IF m.success \/ m.rev # 0 THEN m.rev ELSE @]
    /\ inflight' = [inflight EXCEPT ![c] = buffer[c]]
    /\ buffer' = [buffer EXCEPT ![c] = Null]
    /\ UNCHANGED <<text, phase, up>>

\* The answer to the operation in flight: done with it, applied or not; what was
\* buffered is in flight now.
ReceiveAnswer(c, m) ==
    /\ revision' = [revision EXCEPT ![c] = IF m.success \/ m.rev # 0 THEN m.rev ELSE @]
    /\ inflight' = [inflight EXCEPT ![c] = buffer[c]]
    /\ buffer' = [buffer EXCEPT ![c] = Null]
    /\ IF buffer[c] = Null THEN UNCHANGED up ELSE SendOp(c, buffer[c], revision'[c])
    /\ UNCHANGED <<text, phase>>

\* The answer to a join: the editor starts over from the server's text.
Seeded(c, m) ==
    /\ text' = [text EXCEPT ![c] = m.text]
    /\ revision' = [revision EXCEPT ![c] = m.rev]
    /\ inflight' = [inflight EXCEPT ![c] = Null]
    /\ buffer' = [buffer EXCEPT ![c] = Null]
    /\ phase' = [phase EXCEPT ![c] = "open"]
    /\ UNCHANGED up

\* The promise of the operation in flight is rejected; nothing else is done.
SendFails == UNCHANGED <<editorVars, up>>

Receive(c) ==
    /\ net[c] # <<>>
    /\ LET m == Head(net[c])
       IN  CASE m.type = "op"     -> ReceiveOp(c, m)
             [] m.type = "answer" -> ReceiveAnswer(c, m)
             [] m.type = "joined" -> Seeded(c, m)
             [] m.type = "error"  -> SendFails
    /\ net' = [net EXCEPT ![c] = Tail(@)]
    /\ UNCHANGED <<serverVars, owed, members, count, disturbed>>

----------------------------------------------------------------------------
\* Connections.  Of what a lost connection had on its way to the server a prefix
\* arrives all the same; a join, which is always the first request, then finds
\* nobody to answer.
LeftBehind(sent) ==
    IF sent # <<>> /\ Head(sent).type = "join" THEN Tail(sent) ELSE sent

Hangs(c, then) ==
    /\ phase' = [phase EXCEPT ![c] = then]
    /\ \E n \in 0..Len(up[c]) :
        late' = late \o LeftBehind(SubSeq(up[c], 1, n))
    /\ up' = [up EXCEPT ![c] = <<>>]
    /\ net' = [net EXCEPT ![c] = <<>>]
    /\ owed' = [owed EXCEPT ![c] = Null]
    /\ members' = members \ {c}
    /\ UNCHANGED <<log, text, revision, inflight, buffer>>

Break(c) ==
    /\ phase[c] \in {"joining", "open"}
    /\ Count("breaks")
    /\ Hangs(c, "down")
    /\ UNCHANGED disturbed

Dispose(c) ==
    /\ phase[c] # "disposed"
    /\ Count("breaks")
    /\ Hangs(c, "disposed")
    /\ UNCHANGED disturbed

\* Mutant of Reconnect: the operation in flight is sent again after the join.
ReconnectResending(c) ==
    /\ phase[c] = "down"
    /\ phase' = [phase EXCEPT ![c] = "joining"]
    /\ up' = [up EXCEPT ![c] = <<[type |-> "join"]>> \o
                (IF inflight[c] = Null THEN <<>>
                 ELSE <<[type |-> "op", op |-> inflight[c], base |-> revision[c]]>>)]
    /\ disturbed' = disturbed \ {c}
    /\ UNCHANGED <<serverVars, text, revision, inflight, buffer, net, owed, members, count>>

\* The socket is open again and the editor joins again.
Reconnect(c) ==
    /\ phase[c] = "down"
    /\ phase' = [phase EXCEPT ![c] = "joining"]
    /\ up' = [up EXCEPT ![c] = <<[type |-> "join"]>>]
    /\ disturbed' = disturbed \ {c}
    /\ UNCHANGED <<serverVars, text, revision, inflight, buffer, net, owed, members, count>>

----------------------------------------------------------------------------
\* The server.

\* An operation made on revision base, past everything committed since.
overtaken == [p \in Op \X Op |-> transform(p[1], p[2], "existingWins")]

Transformed(op, base) ==
    FoldLeft(LAMBDA i, e : overtaken[<<i, e>>], op, SubSeq(log, base + 1, Len(log)))

\* Nothing is left of an operation that the log has overtaken.
Absorbed(r) == r.base < Len(log) /\ isNoOp(Transformed(r.op, r.base))

\* Commits the operation and sends it to the connections that are told of it; it
\* overtakes the answers that have not been sent yet.  The connections in "lost"
\* should have heard of the operation and do not.
Commit(r, told, lost) ==
    LET op == Transformed(r.op, r.base)
        m  == [type |-> "op", op |-> op, rev |-> Len(log) + 1]
    IN  /\ log' = Append(log, op)
        /\ net' = [d \in Clients |-> IF d \in told THEN Append(net[d], m) ELSE net[d]]
        /\ disturbed' = disturbed \cup lost \cup {d \in Clients : owed[d] # Null}

\* The request of c at the head of its queue is dealt with.
Took(c) ==
    /\ up[c] # <<>>
    /\ owed[c] = Null
    /\ up' = [up EXCEPT ![c] = Tail(@)]
    /\ UNCHANGED <<editorVars, late, members>>

ServeJoin(c) ==
    /\ Took(c)
    /\ Head(up[c]).type = "join"
    /\ owed' = [owed EXCEPT ![c] = [type |-> "joined", text |-> DocAt(Len(log)), rev |-> Len(log)]]
    /\ UNCHANGED <<log, net, count, disturbed>>

Answer(success, rev) == [type |-> "answer", success |-> success, rev |-> rev]

\* Mutant of ServeOp: the answer is one revision ahead.
ServeOpAnsweringNext(c) ==
    /\ Took(c)
    /\ Head(up[c]).type = "op"
    /\ LET r == Head(up[c])
       IN  IF Absorbed(r)
           THEN /\ owed' = [owed EXCEPT ![c] = Answer(TRUE, Len(log))]
                /\ UNCHANGED <<log, net, disturbed>>
           ELSE /\ Commit(r, members \ {c}, {})
                /\ owed' = [owed EXCEPT ![c] = Answer(TRUE, Len(log') + 1)]
    /\ UNCHANGED count

ServeOp(c) ==
    /\ Took(c)
    /\ Head(up[c]).type = "op"
    /\ LET r == Head(up[c])
       IN  IF Absorbed(r)
           THEN /\ owed' = [owed EXCEPT ![c] = Answer(TRUE, Len(log))]
                /\ UNCHANGED <<log, net, disturbed>>
           ELSE /\ Commit(r, members \ {c}, {})
                /\ owed' = [owed EXCEPT ![c] = Answer(TRUE, Len(log'))]
    /\ UNCHANGED count

\* A validator, a permission or the store is against it.  A refused join is never
\* answered: the connection has not been registered.
Refuse(c) ==
    /\ Took(c)
    /\ Count("refusals")
    /\ IF Head(up[c]).type = "join" THEN UNCHANGED owed
       ELSE \E m \in {[type |-> "error"], Answer(FALSE, Len(log))} : owed' = [owed EXCEPT ![c] = m]
    /\ disturbed' = disturbed \cup {c}
    /\ UNCHANGED <<log, net>>

\* The operation is in the log and is the server's state when a later call of the
\* same request throws: the history, the snapshot, a hook, the publication.  Then
\* nobody is told of the operation, or the publication failed after it was made.
FailAfterCommit(c) ==
    /\ Took(c)
    /\ Head(up[c]).type = "op"
    /\ Count("refusals")
    /\ LET r == Head(up[c])
       IN  /\ ~Absorbed(r)
           /\ \E told \in {{}, members \ {c}} : Commit(r, told, {c} \cup (members \ told))
    /\ \E m \in {[type |-> "error"], Answer(FALSE, Len(log'))} : owed' = [owed EXCEPT ![c] = m]

SendAnswer(c) ==
    /\ owed[c] # Null
    /\ net' = [net EXCEPT ![c] = Append(@, owed[c])]
    /\ owed' = [owed EXCEPT ![c] = Null]
    /\ members' = IF owed[c].type = "joined" THEN members \cup {c} ELSE members
    /\ UNCHANGED <<serverVars, editorVars, up, count, disturbed>>

\* A request that a lost connection left behind; its answer finds nobody.
ServeLate ==
    /\ late # <<>>
    /\ LET r == Head(late)
       IN  IF Absorbed(r) THEN UNCHANGED <<log, net, disturbed>> ELSE Commit(r, members, {})
    /\ late' = Tail(late)
    /\ UNCHANGED <<editorVars, up, owed, members, count>>

\* Such a request is refused, or fails after it was committed.
FailLate ==
    /\ late # <<>>
    /\ Count("refusals")
    /\ LET r == Head(late)
       IN  \/ UNCHANGED <<log, net, disturbed>>
           \/ ~Absorbed(r) /\ Commit(r, {}, members)
    /\ late' = Tail(late)
    /\ UNCHANGED <<editorVars, up, owed, members>>

----------------------------------------------------------------------------
\* What happens without a user, cheapest step first.
Work ==
    \/ \E c \in Clients : SendAnswer(c) \/ Reconnect(c) \/ ServeJoin(c)
    \/ \E c \in Clients : ServeOp(c) \/ Receive(c)
    \/ ServeLate

Next ==
    \/ Work
    \/ \E c \in Clients : Edit(c) \/ Break(c) \/ Dispose(c) \/ Refuse(c)
    \/ \E c \in Clients : FailAfterCommit(c)
    \/ FailLate

Spec == Init /\ [][Next]_vars

\* Whatever can be delivered, served or opened again will be, in some order.
\* Nobody has to type, no connection has to break.
FairSpec == Spec /\ WF_vars(Work)

----------------------------------------------------------------------------
Message ==
    [type : {"op"}, op : Op, rev : Nat]
        \cup [type : {"answer"}, success : BOOLEAN, rev : Nat]
        \cup [type : {"joined"}, text : Seq(Char), rev : Nat]
        \cup [type : {"error"}]

ASSUME AnswerAssumption == Null \notin Message

Request == [type : {"join"}] \cup [type : {"op"}, op : Op, base : Nat]

TypeOK ==
    /\ log \in Seq(Op)
    /\ text \in [Clients -> Seq(Char)]
    /\ revision \in [Clients -> 0..Len(log)]
    /\ inflight \in [Clients -> Op \cup {Null}]
    /\ buffer \in [Clients -> Op \cup {Null}]
    /\ phase \in [Clients -> {"joining", "open", "down", "disposed"}]
    /\ up \in [Clients -> Seq(Request)]
    /\ net \in [Clients -> Seq(Message)]
    /\ owed \in [Clients -> Message \cup {Null}]
    /\ late \in Seq(Request)
    /\ members \subseteq Clients
    /\ count \in [edits : 0..MaxEdits, breaks : 0..MaxBreaks, refusals : 0..MaxRefusals]
    /\ disturbed \subseteq Clients

\* What an open editor shows is the server's text at the revision the editor
\* builds on, then the operation in flight, then the buffer - as long as its
\* own connection went by the book, and again after each new connection.  A
\* connection does not go by the book when another connection's operation is
\* committed between the server's work on a request and its answer, when the
\* server refuses a request of this connection or fails after committing it,
\* when it commits somebody else's operation while this connection is a member
\* and does not tell it, or when something is typed while a join is under way.
\* Whatever else happens to the others - connections lost, requests refused or
\* served late - does not matter (monaco-collab.js:84-141, 412-430;
\* DocumentSession.cs:155-294).
PendingOnTop ==
    \A c \in Clients \ disturbed :
        phase[c] = "open" =>
            text[c] = Effect(Effect(DocAt(revision[c]), inflight[c]), buffer[c])

\* Nothing that was typed is in the document twice, whatever is lost, refused
\* or sent again (monaco-collab.js:97-120, 412-430).
TypedOnce ==
    LET doc == DocAt(Len(log))
    IN  \A i, j \in DOMAIN doc : i # j => doc[i] # doc[j]

\* Every editor that stays and whose connection goes by the book ends up with
\* the document of the server and nothing left to send.
Converges ==
    <>[](\A c \in Clients :
            c \in disturbed \/ phase[c] = "disposed"
            \/ /\ phase[c] = "open"
               /\ inflight[c] = Null
               /\ text[c] = DocAt(Len(log)))

\* The header of the client promises it without the condition: when nothing is
\* on its way any more, every open editor shows the document of the server
\* (monaco-collab.js:3-4).
AlwaysConverged ==
    \A c \in Clients :
        /\ phase[c] = "open" /\ inflight[c] = Null
        /\ up[c] = <<>> /\ net[c] = <<>> /\ owed[c] = Null
        => text[c] = DocAt(Len(log))

=============================================================================
