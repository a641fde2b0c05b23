---------------------------------- MODULE CollabSession ----------------------------------
(***************************************************************************)
(* The opstream-collab client (OpStreamSession), the editors of the        *)
(* samples that are built on it, and the part of the server they reach     *)
(* over SignalR: JoinDocument, SendOp and the broadcast of ReceiveOp.      *)
(*                                                                         *)
(* An edit shows at once and goes to the outbox, which keeps the latest    *)
(* edit of each path and sends one batch at a time.  A batch of someone    *)
(* else is applied to the editor in the order of arrival.  The server      *)
(* keeps the document as last-writer-wins registers, by the clocks of the  *)
(* browsers.                                                               *)
(*                                                                         *)
(* An object of the editor is a register of the document; what an editor   *)
(* shows of an object is a sequence, as an editor that re-creates objects  *)
(* can end up with several of one id.  The revisions are left out: the     *)
(* engine does not transform, and no client is ahead of the server.  The   *)
(* values of an object all have the same attributes, so that setting the   *)
(* attributes one by one, as the diagram and the stage do, gives the value *)
(* as a whole.                                                             *)
(***************************************************************************)
EXTENDS JsonCrdt

CONSTANTS
    Clients,        \* the clients: numbers, in the order of their peer ids
    Present,        \* those that joined before; the others join in the run
    Ids,            \* the ids of the objects
    Objects,        \* the values of an object as a whole
    NewObjects,     \* those that an object may have when it is added
    Places,         \* the values of a property of an object
    MaxEdits,       \* bound: edits, of all clients together
    MaxClock,       \* bound: milliseconds that the clocks tell apart
    MaxFailures,    \* bound: batches refused or failed, and connections lost
    MaxEvents       \* bound: edits and failures together

ASSUME BoundsAssumption ==
    /\ Clients \subseteq Nat /\ Present \subseteq Clients
    /\ IsFiniteSet(Clients) /\ IsFiniteSet(Ids)
    /\ Objects \cup Places \subseteq Nat \ {Deleted} /\ NewObjects \subseteq Objects
    /\ MaxEdits \in Nat /\ MaxClock \in Nat /\ MaxFailures \in Nat /\ MaxEvents \in Nat
    /\ Paths = {<<i>> : i \in Ids} \cup {<<i, "position">> : i \in Ids}

VARIABLES
    app,        \* the sample: "cards", "canvas", "stage", "diagram" or "scene"
    regs,       \* the server's registers
    log,        \* the batches the server committed
    members,    \* the clients in the document's SignalR group
    show,       \* client -> id -> what its editor shows of the object
    loading,    \* client -> the images being loaded, with their ids
    baseline,   \* client -> what the diagram last compared itself with
    pending,    \* client -> the outbox, in the order of its Map
    sending,    \* client -> the batch in flight, or <<>>
    request,    \* client -> how far the batch in flight is
    join,       \* client -> how far its JoinDocument is, and its snapshot
    net,        \* client -> the server's messages on their way to it
    clock,      \* client -> the latest timestamp it used
    used,       \* the ids that were ever given to an object
    count,      \* how many edits and failures there were
    contended,  \* the ids that were written without the latest write seen
    disturbed   \* the clients that something went wrong for (see below)

serverVars == <<regs, log, members>>
editorVars == <<show, loading, baseline>>
outboxVars == <<pending, sending, request>>
vars == <<app, serverVars, editorVars, outboxVars, join, net, clock, used, count,
          contended, disturbed>>

\* One more of what the users and the environment do.
Count(what) ==
    /\ count[what] < [edits |-> MaxEdits, failures |-> MaxFailures][what]
    /\ count.edits + count.failures < MaxEvents
    /\ count' = [count EXCEPT ![what] = @ + 1]

\* What the registers hold; what the clients write, who delete no property alone;
\* what the editors show, and the images they load.
Values == Objects \cup Places
Records == [path : Paths, value : Values \cup {Deleted}, ts : 1..MaxClock, peer : Clients]
Ops == {op \in Records : op.value = Deleted => Len(op.path) = 1}
Editor == [show : [Ids -> Seq(Values)], loading : SUBSET [id : Ids, value : Values, late : BOOLEAN]]

IdOf(op) == op.path[1]
IdsOf(batch) == {IdOf(op) : op \in Range(batch)}

Init ==
    /\ app \in {"cards", "canvas", "stage", "diagram", "scene"}
    /\ regs = Empty
    /\ log = <<>>
    /\ members = Present
    /\ show = [c \in Clients |-> [i \in Ids |-> <<>>]]
    /\ loading = [c \in Clients |-> {}]
    /\ baseline = show
    /\ pending = [c \in Clients |-> <<>>]
    /\ sending = [c \in Clients |-> <<>>]
    /\ request = [c \in Clients |-> "none"]
    /\ join = [c \in Clients |-> [step     |-> IF c \in Present THEN "done" ELSE "asked",
                                  snapshot |-> <<>>]]
    /\ net = [c \in Clients |-> <<>>]
    /\ clock = [c \in Clients |-> 1]
    /\ used = {}
    /\ count = [edits |-> 0, failures |-> 0]
    /\ contended = {}
    /\ disturbed = {}

----------------------------------------------------------------------------
(***************************************************************************)
(* How the editors apply a write of someone else.  An editor is a record   *)
(* of what it shows and of the images it is loading.                       *)
(***************************************************************************)
Showing(ed, id, objs) == [ed EXCEPT !.show[id] = objs]
Loading(ed, id, v) == [ed EXCEPT !.loading = @ \cup {[id |-> id, value |-> v, late |-> FALSE]}]

Unplaced(loads, id) == {IF x.id = id THEN [x EXCEPT !.late = TRUE] ELSE x : x \in loads}

\* Kanban cards, and the nodes and links of the diagram: as the write says.
ApplyCard(ed, id, v) == Showing(ed, id, IF v = Deleted THEN <<>> ELSE <<v>>)

\* Fabric: the object of this id is removed, and the new one comes when it is loaded.
ApplyCanvas(ed, id, v) ==
    LET removed == Showing(ed, id, IF ed.show[id] = <<>> THEN <<>> ELSE Tail(ed.show[id]))
    IN  IF v = Deleted THEN removed ELSE Loading(removed, id, v)

\* Konva: a shape that is there is changed; a new one is a placeholder until its
\* image is loaded, whether or not the placeholder is still there then.
ApplyShape(ed, id, v) ==
    IF v = Deleted
    THEN IF ed.show[id] = <<>> THEN ed
         ELSE [Showing(ed, id, Tail(ed.show[id])) EXCEPT !.loading = Unplaced(@, id)]
    ELSE IF ed.show[id] # <<>> THEN Showing(ed, id, [ed.show[id] EXCEPT ![1] = v])
    ELSE Loading(Showing(ed, id, <<v>>), id, v)

\* three.js: an object is created once, and properties of unknown objects are dropped.
ApplyPath(ed, path, v) ==
    LET id == path[1]
    IN  IF Len(path) = 1
        THEN IF v = Deleted THEN Showing(ed, id, <<>>)
             ELSE IF ed.show[id] # <<>> THEN ed ELSE Showing(ed, id, <<v>>)
        ELSE IF ed.show[id] = <<>> THEN ed ELSE Showing(ed, id, <<v>>)

ApplyOp(ed, op) ==
    CASE app \in {"cards", "diagram"} -> ApplyCard(ed, IdOf(op), op.value)
      [] app = "canvas" -> ApplyCanvas(ed, IdOf(op), op.value)
      [] app = "stage" -> ApplyShape(ed, IdOf(op), op.value)
      [] app = "scene" -> ApplyPath(ed, op.path, op.value)

ApplyOps(c, batch) ==
    LET shown == [p \in Editor \X Ops |-> ApplyOp(p[1], p[2])]
    IN  FoldLeft(LAMBDA ed, op : shown[<<ed, op>>], [show |-> show[c], loading |-> loading[c]], batch)

\* Mutant of Received: the diagram keeps the baseline it had.
ReceivedWithoutBaseline(c, batch) ==
    LET ed == ApplyOps(c, batch)
    IN  /\ show' = [show EXCEPT ![c] = ed.show]
        /\ loading' = [loading EXCEPT ![c] = ed.loading]
        /\ UNCHANGED baseline

\* The editor of c after a batch; the diagram adopts all it shows as its baseline.
Received(c, batch) ==
    LET ed == ApplyOps(c, batch)
    IN  /\ show' = [show EXCEPT ![c] = ed.show]
        /\ loading' = [loading EXCEPT ![c] = ed.loading]
        /\ baseline' = [baseline EXCEPT ![c] = IF app = "diagram" THEN ed.show ELSE @]

\* The operations that build the document in an editor: the registers that are
\* not deleted, in an order of their timestamps, an object before its properties.
SnapshotOps(r) ==
    LET Earlier(x, y) == \/ x.ts < y.ts
                         \/ x.ts = y.ts /\ x.peer < y.peer
                         \/ x.ts = y.ts /\ x.peer = y.peer /\ Len(x.path) < Len(y.path)
        there == {r[p] : p \in {q \in Paths : r[q] # NoRegister /\ Live(r, q) # Deleted}}
    IN  {s \in SetToSeqs(there) : \A i, j \in DOMAIN s : i < j => ~Earlier(s[j], s[i])}

----------------------------------------------------------------------------
(***************************************************************************)
(* The outbox.                                                             *)
(***************************************************************************)
\* Mutant of Enqueue: the write that was pending first stays.
EnqueueKeepingFirst(box, op) ==
    LET waiting == IF \E x \in Range(box.pending) : x.path = op.path THEN box.pending
                   ELSE Append(box.pending, op)
    IN  IF box.sending = <<>> THEN [pending |-> <<>>, sending |-> waiting]
        ELSE [box EXCEPT !.pending = waiting]

\* _enqueue: the latest write of a path takes the place of the one before; what
\* is pending is sent at once unless a batch is in flight.
Enqueue(box, op) ==
    LET at      == {i \in DOMAIN box.pending : box.pending[i].path = op.path}
        waiting == IF at = {} THEN Append(box.pending, op)
                   ELSE [i \in DOMAIN box.pending |-> IF i \in at THEN op ELSE box.pending[i]]
    IN  IF box.sending = <<>> THEN [pending |-> <<>>, sending |-> waiting]
        ELSE [box EXCEPT !.pending = waiting]

Box == [pending : Seq(Ops), sending : Seq(Ops)]
enqueued == [p \in Box \X Ops |-> Enqueue(p[1], p[2])]

\* c writes the operations; an editor whose hooks are not installed yet has none.
EnqueueAll(c, ops) ==
    LET box == FoldLeft(LAMBDA b, op : enqueued[<<b, op>>],
                        [pending |-> pending[c], sending |-> sending[c]], ops)
    IN  /\ pending' = [pending EXCEPT ![c] = box.pending]
        /\ sending' = [sending EXCEPT ![c] = box.sending]
        /\ request' = [request EXCEPT ![c] = IF @ = "none" /\ box.sending # <<>> THEN "sent" ELSE @]

Capturing(c) == join[c].step = "done" \/ app \in {"cards", "stage"}

\* The ids of c's writes that are not committed yet.
Unsent(c) ==
    IdsOf(pending[c]) \cup (IF request[c] = "sent" THEN IdsOf(sending[c]) ELSE {})
        \cup (IF app = "diagram" THEN {i \in Ids : show[c][i] # baseline[c][i]} ELSE {})

\* The ids in the batches on their way to c.
Coming(c) == UNION {IdsOf(m.ops) : m \in Range(net[c])}

----------------------------------------------------------------------------
(***************************************************************************)
(* What the users do.                                                      *)
(***************************************************************************)
\* An edit of object id by c that leaves `objs' of it and writes v at path.  The
\* diagram writes nothing before the transaction is finished.
Edit(c, id, path, v, objs) ==
    /\ Count("edits")
    /\ show' = [show EXCEPT ![c][id] = objs]
    /\ used' = used \cup {id}
    /\ IF app = "diagram" \/ ~Capturing(c) THEN UNCHANGED <<outboxVars, clock>>
       ELSE \E now \in clock[c]..MaxClock :
                /\ clock' = [clock EXCEPT ![c] = now]
                /\ EnqueueAll(c, <<Write(path, v, now, c)>>)
    /\ contended' = IF id \in Coming(c) THEN contended \cup {id} ELSE contended
    /\ disturbed' = IF join[c].step # "done" \/ \E x \in loading[c] : x.id = id
                    THEN disturbed \cup {c} ELSE disturbed
    /\ UNCHANGED <<app, serverVars, baseline, join, net>>

AddObject(c) ==
    /\ \E id \in Ids \ used, v \in NewObjects : Edit(c, id, <<id>>, v, <<v>>)
    /\ UNCHANGED loading

ChangeObject(c) ==
    /\ \E id \in {i \in Ids : show[c][i] # <<>>} :
          \E v \in (IF app = "scene" THEN Places ELSE Objects) \ {Head(show[c][id])} :
              Edit(c, id, IF app = "scene" THEN <<id, "position">> ELSE <<id>>, v,
                   [show[c][id] EXCEPT ![1] = v])
    /\ UNCHANGED loading

RemoveObject(c) ==
    \E id \in {i \in Ids : show[c][i] # <<>>} :
        /\ Edit(c, id, <<id>>, Deleted, Tail(show[c][id]))
        /\ loading' = [loading EXCEPT ![c] = Unplaced(@, id)]

\* The end of a transaction of the diagram: what differs from the baseline is written.
Finish(c) ==
    LET changed == {i \in Ids : show[c][i] # baseline[c][i]}
        written(now) ==
            {Write(<<i>>, IF show[c][i] = <<>> THEN Deleted ELSE Head(show[c][i]), now, c) :
                i \in changed}
    IN  /\ app = "diagram" /\ Capturing(c) /\ changed # {}
        /\ baseline' = [baseline EXCEPT ![c] = show[c]]
        /\ \E now \in clock[c]..MaxClock :
              /\ clock' = [clock EXCEPT ![c] = now]
              /\ \E ops \in SetToSeqs(written(now)) : EnqueueAll(c, ops)
        /\ UNCHANGED <<app, serverVars, show, loading, join, net, used, count,
                       contended, disturbed>>

\* An image is loaded, and takes the place of its placeholder if that is still there.
Loaded(c) ==
    \E x \in loading[c] :
        /\ loading' = [loading EXCEPT ![c] = @ \ {x}]
        /\ show' = [show EXCEPT ![c][x.id] =
                       IF app = "canvas" \/ x.late THEN Append(@, x.value)
                       ELSE [@ EXCEPT ![1] = x.value]]
        /\ UNCHANGED <<app, serverVars, baseline, outboxVars, join, net, clock, used, count,
                       contended, disturbed>>

----------------------------------------------------------------------------
(***************************************************************************)
(* The server.  It joins a client in three steps: it reads the document,   *)
(* adds the connection to the group, and answers.  What is committed after *)
(* the first is missed, or arrives ahead of the older document.            *)
(***************************************************************************)
JoinStep(c, from, to) ==
    /\ join[c].step = from
    /\ \E ops \in IF from = "asked" THEN SnapshotOps(regs) ELSE {join[c].snapshot} :
          join' = [join EXCEPT ![c].step = to, ![c].snapshot = ops]

ReadDocument(c) ==
    /\ JoinStep(c, "asked", "read")
    /\ UNCHANGED <<app, serverVars, editorVars, outboxVars, net, clock, used, count,
                   contended, disturbed>>

AddToGroup(c) ==
    /\ JoinStep(c, "read", "grouped")
    /\ members' = members \cup {c}
    /\ UNCHANGED <<app, regs, log, editorVars, outboxVars, net, clock, used, count,
                   contended, disturbed>>

AnswerJoin(c) ==
    /\ JoinStep(c, "grouped", "answered")
    /\ net' = [net EXCEPT ![c] = Append(@, [type |-> "join", ops |-> join[c].snapshot])]
    /\ UNCHANGED <<app, serverVars, editorVars, outboxVars, clock, used, count,
                   contended, disturbed>>

\* The batch of c is applied, and sent to the clients that are told of it.  Those
\* whose document has been read and not answered miss it, or get it too early.
CommitBatch(c, told) ==
    LET Loses(op) == \E p \in Paths : /\ p = op.path \/ Above(p, op.path)
                                      /\ regs[p] # NoRegister
                                      /\ ~WinsLWW(op, regs[p], FALSE)
    IN  /\ request[c] = "sent"
        /\ regs' = Apply(regs, sending[c])
        /\ log' = Append(log, sending[c])
        /\ net' = [d \in Clients |->
                      IF d \in told
                      THEN Append(net[d], [type |-> "op", ops |-> sending[c]])
                      ELSE net[d]]
        /\ contended' = contended \cup (IdsOf(sending[c]) \cap Coming(c))
                                 \cup {IdOf(op) : op \in {o \in Range(sending[c]) : Loses(o)}}
        /\ UNCHANGED <<app, members, editorVars, pending, sending, join, clock, used>>

Missing(c) == {d \in Clients \ {c} : join[d].step \in {"read", "grouped"}}

\* SendOp succeeds: the batch is broadcast to the group, c excepted.
Commit(c) ==
    /\ CommitBatch(c, members \ {c})
    /\ request' = [request EXCEPT ![c] = "done"]
    /\ disturbed' = disturbed \cup Missing(c)
    /\ UNCHANGED count

\* The batch is in the log when a later call of the same SendOp throws, or the
\* connection of c is gone and the rest is cancelled: nobody is told of it, or the
\* publication failed after it was made.  c is answered success=false, or SendOp
\* throws.
FailAfterCommit(c) ==
    /\ Count("failures")
    /\ \E told \in {{}, members \ {c}} :
          /\ CommitBatch(c, told)
          /\ disturbed' = disturbed \cup {c} \cup (members \ told) \cup Missing(c)
    /\ \E to \in {"done", "failed"} : request' = [request EXCEPT ![c] = to]

\* SendOp does not apply the batch.  What the session refuses or fails on is answered
\* success=false; what is thrown outside of it, SendOp throws.
Refuse(c) ==
    /\ request[c] = "sent"
    /\ Count("failures")
    /\ \E to \in {"done", "failed"} : request' = [request EXCEPT ![c] = to]
    /\ disturbed' = disturbed \cup {c}
    /\ UNCHANGED <<app, serverVars, editorVars, pending, sending, join, net, clock, used,
                   contended>>

----------------------------------------------------------------------------
(***************************************************************************)
(* The client's handlers.                                                  *)
(***************************************************************************)
\* Mutant of Answered: a failure leaves _flushing set.
AnsweredWithoutFinally(c) ==
    /\ request[c] \in {"done", "failed"}
    /\ request' = [request EXCEPT ![c] = "none"]
    /\ sending' = IF request[c] = "done" THEN [sending EXCEPT ![c] = <<>>] ELSE sending
    /\ UNCHANGED <<app, serverVars, editorVars, pending, join, net, clock, used, count,
                   contended, disturbed>>

\* Mutant of Answered: one batch is sent, and not what was queued meanwhile.
AnsweredOnce(c) ==
    /\ request[c] \in {"done", "failed"}
    /\ request' = [request EXCEPT ![c] = "none"]
    /\ sending' = [sending EXCEPT ![c] = <<>>]
    /\ UNCHANGED <<app, serverVars, editorVars, pending, join, net, clock, used, count,
                   contended, disturbed>>

\* SendOp returns, with success or without: what was queued meanwhile is the next
\* batch.  Or it throws: what was queued waits for the next edit.  A batch that was
\* not applied is given up in either case.
Answered(c) ==
    /\ request[c] \in {"done", "failed"}
    /\ IF request[c] = "done" /\ pending[c] # <<>>
       THEN /\ sending' = [sending EXCEPT ![c] = pending[c]]
            /\ pending' = [pending EXCEPT ![c] = <<>>]
            /\ request' = [request EXCEPT ![c] = "sent"]
       ELSE /\ sending' = [sending EXCEPT ![c] = <<>>]
            /\ request' = [request EXCEPT ![c] = "none"]
            /\ UNCHANGED pending
    /\ UNCHANGED <<app, serverVars, editorVars, join, net, clock, used, count,
                   contended, disturbed>>

\* ReceiveOp, or the answer to the join: the document.  The canvas and the diagram
\* install their hooks when connect() returns, after its calls for presence and
\* comments; the scene has neither and installs its hook at once.
Receive(c) ==
    /\ net[c] # <<>>
    /\ LET m    == Head(net[c])
           mine == IF app = "diagram" THEN {i \in Ids : show[c][i] # baseline[c][i]} ELSE {}
           busy == {x.id : x \in loading[c]}
       IN  /\ Received(c, m.ops)
           /\ net' = [net EXCEPT ![c] = Tail(@)]
           /\ join' = IF m.type = "join"
                      THEN [join EXCEPT ![c].step = IF app \in {"canvas", "diagram"}
                                                    THEN "loaded" ELSE "done"]
                      ELSE join
           /\ contended' = contended \cup (IdsOf(m.ops) \cap Unsent(c))
           /\ disturbed' = IF mine # {} \/ IdsOf(m.ops) \cap busy # {}
                           THEN disturbed \cup {c} ELSE disturbed
    /\ UNCHANGED <<app, serverVars, outboxVars, clock, used, count>>

\* The hooks of the canvas and the diagram are installed.  The diagram takes what it
\* shows as its baseline: what was edited since the join is never written.
Install(c) ==
    /\ app \in {"canvas", "diagram"} /\ join[c].step = "loaded"
    /\ join' = [join EXCEPT ![c].step = "done"]
    /\ baseline' = [baseline EXCEPT ![c] = IF app = "diagram" THEN show[c] ELSE @]
    /\ disturbed' = IF app = "diagram" /\ show[c] # baseline[c]
                    THEN disturbed \cup {c} ELSE disturbed
    /\ UNCHANGED <<app, serverVars, show, loading, outboxVars, net, clock, used, count,
                   contended>>

\* The connection is lost and opened again by itself, with another connection id:
\* nothing joins the document again.  A SendOp in flight throws; the server may have
\* committed its batch and told nobody before (FailAfterCommit).
Reconnect(c) ==
    /\ join[c].step \in {"loaded", "done"}
    /\ Count("failures")
    /\ members' = members \ {c}
    /\ net' = [net EXCEPT ![c] = <<>>]
    /\ request' = [request EXCEPT ![c] = IF @ = "none" THEN @ ELSE "failed"]
    /\ disturbed' = disturbed \cup {c}
    /\ UNCHANGED <<app, regs, log, editorVars, pending, sending, join, clock, used, contended>>

Work(c) ==
    \/ ReadDocument(c) \/ AddToGroup(c) \/ AnswerJoin(c)
    \/ Commit(c) \/ Answered(c) \/ Receive(c) \/ Install(c) \/ Loaded(c) \/ Finish(c)

Next ==
    \E c \in Clients :
        \/ AddObject(c) \/ ChangeObject(c) \/ RemoveObject(c)
        \/ Refuse(c) \/ FailAfterCommit(c) \/ Reconnect(c)
        \/ Work(c)

Spec == Init /\ [][Next]_vars

\* The server, the network and the event loops go on; a load and a drag end.
FairSpec == Spec /\ \A c \in Clients : WF_vars(Work(c))

----------------------------------------------------------------------------
(***************************************************************************)
(* Properties.                                                             *)
(***************************************************************************)
\* The type invariant; and a batch is in flight exactly while _flushing is set.
TypeOK ==
    /\ \A p \in Paths : regs[p] \in Records \cup {NoRegister}
    /\ members \subseteq Clients
    /\ \A c \in Clients :
        /\ \A i \in Ids : Range(show[c][i]) \subseteq Values
        /\ Range(pending[c]) \cup Range(sending[c]) \subseteq Ops
        /\ request[c] \in {"none", "sent", "done", "failed"}
        /\ (sending[c] = <<>>) = (request[c] = "none")
        /\ \A m \in Range(net[c]) : Range(m.ops) \subseteq Ops
    /\ contended \subseteq used
    /\ disturbed \subseteq Clients

\* What an editor shows that joins now.
Document(id) ==
    LET whole == Live(regs, <<id>>)
        place == Live(regs, <<id, "position">>)
    IN  IF whole = Deleted THEN <<>>
        ELSE IF place = Deleted THEN <<whole>> ELSE <<place>>

\* c has nothing left to do about the object.
Settled(c, id) ==
    /\ join[c].step = "done" /\ net[c] = <<>>
    /\ id \notin Unsent(c) /\ \A x \in loading[c] : x.id # id

\* An object that was only ever written by clients that had seen its latest write,
\* with a later timestamp, looks to everyone the way the server would give it to a
\* client that joins now: the outbox loses no gesture, merges them in order, and
\* the editors apply what the registers say.  (`disturbed' and `contended' name what
\* breaks it: see the README.)
SameAsServer ==
    \A c \in Clients \ disturbed, id \in Ids \ contended :
        Settled(c, id) => show[c][id] = Document(id)

\* The writes in the batches.
counted == [p \in Nat \X Seq(Ops) |-> p[1] + Len(p[2])]
Amount(batches) == FoldLeft(LAMBDA n, batch : counted[<<n, batch>>], 0, batches)

\* What c wrote and the server has not got.
Outbox(c) == IF request[c] = "sent" THEN sending[c] \o pending[c] ELSE pending[c]

\* Applying what others wrote is not taken for an edit: every write that is in the
\* log or an outbox comes from an edit of its own.
NothingEchoed ==
    LET people == SetToSeq(Clients)
    IN  Amount(log) + Amount([i \in DOMAIN people |-> Outbox(people[i])]) <= count.edits

\* The document does not depend on the order in which the batches are applied, as
\* long as no peer writes in two batches within one millisecond.
OrderIndependent ==
    LET Stamps(n) == {<<op.ts, op.peer>> : op \in Range(log[n])}
        replayed  == [p \in Registers \X DOMAIN log |-> Apply(p[1], log[p[2]])]
    IN  (\A m, n \in DOMAIN log : m # n => Stamps(m) \cap Stamps(n) = {})
        => \A order \in SetToSeqs(DOMAIN log) :
               LET other == FoldLeft(LAMBDA r, n : replayed[<<r, n>>], Empty, order)
               IN  \A p \in Paths : Live(other, p) = Live(regs, p)

\* Nothing is left behind: the outbox of a client that no failure hit is emptied,
\* its join is answered, and all that was sent to it is applied.
Settles ==
    <>[](\A c \in Clients \ disturbed :
            /\ join[c].step = "done" /\ net[c] = <<>> /\ loading[c] = {}
            /\ pending[c] = <<>> /\ sending[c] = <<>>)

\* Of two concurrent edits of one object one wins, and everyone sees the same one.
OneWins ==
    \A c, d \in Clients \ disturbed, id \in Ids :
        Settled(c, id) /\ Settled(d, id) => show[c][id] = show[d][id]

=============================================================================
