# A TLA+ model of OpStream

OpStream is a server for collaborative documents: clients join a document, send operations,
and receive the operations of the others; the server orders the operations, transforms each
one past those its author had not seen, stores it and broadcasts it. This directory models the
parts of the server where the order of steps decides whether a document survives, the browser
clients that build on it, and the algorithms both share; it checks them with TLC and proves the
most important properties of the server with TLAPS.

Source paths below are relative to `src/src/` of the repository (`Server/` stands for
`OpStream.Server/`), and those that begin with `samples/`, `packages/` or `mkdocs/` to `src/`.

## The system

| Component | State it keeps | Operations | Talks to |
|---|---|---|---|
| Document session (`Server/Session/DocumentSession.cs`) | `_currentState`, `CurrentRevision`, `_activePeers`, a semaphore | ApplyOpAsync, JoinAsync, LeaveAsync, RehydrateOpAsync, ExecuteUnderLockAsync | engine, store, snapshotters, hooks, backplane |
| Session registry, factory (`DocumentSessionRegistry.cs`, `TypedDocumentSessionFactory.cs`) | document id -> live session | GetOrOpenAsync, TryGet, CloseAsync | lock registry, store, seeder |
| Lock registry (`DocumentLockRegistry.cs`) | document id -> semaphore | AcquireAsync, Remove | |
| Snapshotter (`Server/Snapshots/OpSnapshotter.cs`) | one counter and one timestamp for the whole node | OpAddedAsync, TakeSnapshotAsync | store, policy |
| Stores (`Server/Storage`, `Server.Storage.*`) | hot log, latest snapshot, cold history, comments, refs | append, stream, snapshot, compact, delete | a database |
| Document router (`DocumentRouter.cs`, `PeerRegistry.cs`) | peer -> documents, backplane subscriptions, idle timers | join, apply, disconnect, evict, close | pipeline, registry, drain, backplane |
| Drain coordinator (`DocumentDrainCoordinator.cs`) | - | NotifyAsync, DeleteDataAsync | host handlers, store, backplane, ownership |
| Database commands (`DatabaseCommandRouter.cs`) | - | create, delete, list, snapshot | router, store, ownership |
| Pipeline, gateway (`DocumentExecutionPipeline.cs`, `DocumentBackplaneGateway.cs`) | - | run on the owner or forward | ownership, backplane |
| Ownership (`RedisDocumentOwnershipManager.cs`) | a lease of 10 s for each document | get-or-acquire, is-owner, release | Redis |
| Backplanes (`LocalBackplane.cs`, `RedisBackplane.cs`) | handlers, pending requests | publish, subscribe, request | Redis |
| History (`OpHistorySnapshotter.cs`, `HistoryManager.cs`) | counters for each document | append, snapshot, read a past revision | history store |
| Comments (`Server/Comments`) | comments with anchors and the revision each is anchored at | create, edit, resolve, rebase, compact with anchors | session lock, comment store |
| Versioning (`Server/Versioning`) | refs (versions, branches), merges | create, fork, merge, delete | stores, sessions |
| Engines (`Server/Engine`) | - (pure) | Apply, Transform, Compose, Invert, merge | |
| Undo and redo (`UndoRedoEngine.cs`) | two stacks for each peer | record, undo, redo, rebase | engine |
| Awareness (`AwarenessSession.cs`) | peer -> presence | update, leave | backplane |
| Transports (`Server.Transports.*`) | connections, groups | join, send, broadcast, disconnect | router |
| Monaco client (`samples/MonacoCollaborativeJs/js`) | the operation in flight, the buffer, the revision | edit, send, receive, join and seed, reconnect, dispose | WebSocket transport |
| JavaScript client (`packages/opstream-collab-js`) | an outbox, the roster | setPath, delPath, flush, receive, presence, reconnect | SignalR transport |
| Sample editors (`samples/*-collab`, `samples/threejs-editor`) | what the editor shows, images being loaded, a baseline | capture an edit, apply a remote batch | JavaScript client |
| .NET clients (`OpStream.Client.Transports*`) | pending requests | correlate requests and answers | transports |

What is hard about it:

* **Interleaving.** Every handler is asynchronous. ApplyOpAsync holds the session lock across
  its awaits, but JoinAsync and LeaveAsync take no lock, the router's join, disconnect, drain
  and idle-timer callbacks take none either, and the comment and ref stores are read and
  written without one.
* **Partial failure and crashes.** A call to the store may throw before or after it took
  effect; the process may stop between the append, the snapshot and the compaction; what is in
  memory is then rebuilt from whatever is durable.
* **Compaction.** The log is cut behind a snapshot while clients still rebase against it.
* **Several nodes.** One node owns a document by a lease that can run out; the others forward
  to it over publish/subscribe, without a deadline.
* **Delivery.** A client learns a revision from its join, from answers and from broadcasts,
  which travel separately and overtake each other; connections are lost with requests on them.
* **Two copies of one truth.** A client edits its own copy first and reconciles it later; an
  anchor is kept beside the document it points into and moved by another component.

What makes each component correct, in one line: the *session* never loses an acknowledged
operation and never applies one out of its context; the *lifecycle* never closes or deletes a
document under a connected peer, and always closes an idle one; *ownership* gives a document
one writer at a time; the *backplane* answers every request and delivers to every subscriber;
*history* can rebuild every past revision; *comments* stay anchored to the text they were put
on; *versioning* makes a version out of one revision's state; the *engines* converge; a
*client* that has received everything shows the server's state.

## What is modelled

### OpLog - the promise

`OpLog.tla` is the specification a client can rely on: the history is an append-only sequence of
operations, each committed once; an operation is acknowledged only after it is committed; a
joiner is given the state of one prefix of the history that contains everything already
acknowledged. A document's state is the sequence of operations that produced it.

### DocumentSession - the session and its store

`DocumentSession.tla` is the live session of one document with the document store under it.

| Variables | Code |
|---|---|
| `hot`, `snap` | the hot op log (key: document and revision) and the latest snapshot |
| `status`, `doc`, `rev`, `active` | whether the registry holds the session; `_currentState`, `CurrentRevision`, `_activePeers` |
| `lock` | the session's `SemaphoreSlim` |
| `pc`, `req` | the ApplyOpAsync call each peer has in flight: its stage, the operation, its base revision, the last revision it was transformed past, the revision it will get |
| `joinDoc`, `leaving`, `view` | a JoinAsync or LeaveAsync in progress, and the result of the last join |
| `ledger`, `acked`, `published` | history variables: what became durable, what was answered with success, what was broadcast |

Each awaited call of ApplyOpAsync is a step of its own: wait for the lock (or be cancelled
there), rebase (refused, absorbed or done), append, assign state and revision, history and
snapshot policy, snapshot write, compaction, broadcast and answer. Each may throw, before or
after it took effect, in which case `catch` answers with an error and `finally` releases the
lock. JoinAsync and LeaveAsync run without the lock, as in the code. Crash drops everything in
memory; the Open actions rebuild the session as GetOrOpenAsync does: seed or snapshot, then one
stored operation at a time.

Abstractions: an operation is a number and a state is the sequence of operations that produced
it, so that "the right state" can be said without an engine; what Transform does is reduced to
`seen`, the last revision an operation has been transformed past. The snapshot policy is a free
choice, because its counter is shared by every document of the node. A client may base an
operation on any revision between the one it joined at and the current one.

Three constants switch the hazards of the environment on: `StoreFaults` (calls may throw),
`OverlapSnapshots` (two snapshots of the document may be in progress at once, which only
LeaveAsync can cause) and `TornReads` (an unlocked reader may run between the two assignments
of lines 239 and 240, or between the two reads of line 314 and 315).

### DocumentLifecycle - opening, keeping and closing a document

`DocumentLifecycle.tla` is one document on the node that owns it, seen by the router: the
connections that join and disconnect, and whatever closes the session under them.

| Variables | Code |
|---|---|
| `session`, `members`, `presence` | the document's entry in `DocumentSessionRegistry._sessions`; `_activePeers` of every session ever opened; whether `AwarenessSessionRegistry` has an entry |
| `gate`, `holder` | the document's semaphore in `DocumentLockRegistry._locks`, and who holds each semaphore ever created |
| `timer`, `armed` | the entry of `DocumentRouter._idleTimers`, and the timers that will still fire |
| `sub`, `subs` | the entry of `_backplaneSubscriptions`, and the subscriptions live at the backplane |
| `tracked` | what `PeerRegistry` has recorded |
| `pc`, `at`, `waitsAt` | the step each connection's JoinDocumentAsync or RemovePeerFromAllSessionsAsync has reached, the session and the semaphore it has a reference to |
| `closing` | the CloseSessionAsync each timer, drain or eviction has in progress |
| `zeroes`, `drains`, `erased` | history variables: the transitions to zero peers, the notifications, the deletions |

A step of the model is what runs between two awaits, and where another thread may come between
two operations on concurrent dictionaries (ContainsKey and TryAdd, the five removals of
CloseSessionAsync) each of them is a step. A failed final snapshot ends the disconnect, a failed
opening or subscription the join, as the exceptions do. A close forgets the semaphore whoever
holds it or waits at it; Opened registers its session only if none is registered, and goes on
with its own, as TryAdd and the return statement do. After a deletion the close is run a second
time, because the broadcast eviction reaches the node that sent it.

Abstractions: what a session holds is left to DocumentSession; a connection joins once, so that
everything it may create (a session, a semaphore, a timer, a subscription) is named after it;
authorization and the name checks, which return before any state changes, are left out; the
ownership manager is the local one. A connection's own calls follow each other, because
every transport awaits one message before it reads the next and disconnects the peer after the
loop (`OpStream.Server.Transports.WebSockets/WebSocketTransport.cs:40`, the gRPC transport alike,
SignalR by its default of one invocation at a time): a disconnect never meets its own join.

`Overlap` is the environment's hazard: may a join overlap a disconnect or a close? `Faults` lets
the store and the backplane throw, `DrainHandlers` says whether the host has registered any, and
`Evictors` are administrative deletions and evictions.

### TextOt and TextEdits - operations on text

`TextOt.tla` is the algorithm that the server (`Server/Engine/Text/TextOtEngine.cs`) and the
Monaco sample (`samples/MonacoCollaborativeJs/js/ot-text.js`, its port) share: `compact`, `apply`,
`transform`, `compose`; `Invert` of the server alone; `transformOffset` and `fromMonacoChanges` of
the browser alone. They are recursive functions and folds; the two index-driven loops of the
source are "what is left of the heads" (`remainder`, `next`).

`TextEdits.tla` lets an editor report a first event and a second one on top of it, while another client
edits the same text, and states the laws of the algorithm over these three operations. Its
variables are the inputs, so it has no type invariant: what could be ill-typed is the computed
operation, which EventCaptured and TextsMeet require to be in compact form.

### ClientSync - the Monaco editors over WebSockets

| Variables | Code |
|---|---|
| `log` | the server's operation log (DocumentSession, reduced to what a client can see of it) |
| `text`, `revision`, `inflight`, `buffer` | the editor's text and the three variables of `monaco-collab.js:53-55` |
| `phase` | the socket of `WebSocketOpStreamClient.js`, and whether the join has been answered |
| `up`, `net` | the two directions of the socket, each in order |
| `owed` | what HandleMessage has done and not yet answered: it works on one message of a connection at a time |
| `late` | requests a lost connection left behind, which the server may still carry out |
| `members` | the connections registered for broadcasts |

Actions: Edit, Receive (ReceiveOp, ReceiveAnswer, Seeded, SendFails), Break, Dispose and Reconnect on the client;
ServeJoin, ServeOp, Refuse, FailAfterCommit, SendAnswer, ServeLate and FailLate on the server. A broadcast goes out when an
operation is committed, the answer in a step of its own: in the code a push to the others
(`DocumentSession.cs:262`) precedes the return that ends in the answer
(`OpStream.Server.Transports.WebSockets/WebSocketTransport.cs:160`), and another session call may
come in between. Keys are typed in a fixed order, which loses nothing as
characters are only compared for equality; every character is typed once, so that TypedOnce can
see a duplicate.

`disturbed` is a history variable: the connections that did not go by the book, because one of
four things happened to them that the client has no defence against.

1. Another connection's operation was committed between the server's work on a request and its
   answer: the answer arrives later with a smaller revision, and `monaco-collab.js:107` goes back.
2. The server refused something: the client takes the refused operation for done
   (`monaco-collab.js:104`), or never learns of a refused join.
3. Something was typed between a join and its answer: it is sent, and forgotten when the text is
   seeded (`monaco-collab.js:426`).
4. An operation was committed and its broadcast never made: a call between the append and the publication
   failed (`DocumentSession.cs:242-263`). Its author is told that it was not applied; every other member misses a
   revision, and nothing in the client notices the gap. FailAfterCommit is the request of an open connection, FailLate one that
   a lost connection left behind. Where the publication itself threw after it was made, only the author is disturbed.

A new connection starts by the book again.

### JsonCrdt and CollabSession - the JavaScript client and its editors

`JsonCrdt.tla` is `Server/Engine/Json/JsonCrdtEngine.cs`: registers by path, the last writer wins, a write
overrides what was written below it earlier, and operations that one gesture made do not void
each other.

`CollabSession.tla` is `packages/opstream-collab-js/src/index.js` under each of five samples, with the
part of the server SignalR reaches.

| Variables | Code |
|---|---|
| `app` | which sample: kanban "cards", Fabric "canvas", Konva "stage", GoJS "diagram", three.js "scene" |
| `regs`, `log`, `members` | the document's registers, the committed batches, the SignalR group |
| `show`, `loading`, `baseline` | what the editor shows of each object (a sequence, because Fabric and Konva can end up with several of one id), the images on their way, the diagram's last snapshot of itself |
| `pending`, `sending`, `request` | `_pending`, the batch of `_flush`, and how far its SendOp is |
| `join` | how far JoinDocument is (`SignalRTransport.cs:23-35`: read, join the group, answer) |
| `net` | what is on its way to the client |
| `clock` | the browser's clock: a write takes any timestamp from the last one used on |

Abstractions: one value per object and, for three.js, one property; all values of an object have the same attributes. GoJS
sets an object property by property (`samples/gojs-collab/src/collab-session.js:120`) and Konva merges attributes, so that an attribute
that a newer value no longer has would stay there; that is about the shape of the data and not modelled. Revisions are left out,
because the engine does not transform. The order of peers and values is the ordinal order of
their texts, in which the engine compares them.

Two history variables say where an object may look different in two editors:

* `contended` - the objects that somebody wrote without having seen the latest write, or with an
  older timestamp: the server resolves by timestamp, the editors by order of arrival.
* `disturbed` - the clients that missed something the code does not recover: an operation
  committed between reading the document and joining the group (`SignalRTransport.cs:32`), an edit before the join
  is answered, a refused batch (given up, `index.js:177`), an automatic reconnect (nothing joins again,
  `index.js:104`), a write to an object whose image is being loaded, a remote batch into a diagram
  with an unfinished transaction, an edit of the diagram between the end of the join and the installation of its hooks (next
  paragraph), a batch that was committed and not broadcast (`DocumentSession.cs:242-263`: all but those who were told).

*How a batch fails.* What the session refuses or fails on comes back as `success=false` and `_flush` goes on
with what is pending (`index.js:174-181`); only what SendOp throws ends the loop and leaves the outbox to the next edit.
Refuse has both, without a commit; FailAfterCommit has both, with one, and tells the group or nobody, for a call after
the append may have failed or been cancelled with the connection (`SignalRTransport.cs:51`). `request` tells the two apart until Answered.
A batch that is committed only after its client has reconnected is left out: that client is disturbed, and for the
others it is the batch of one that was slow.

*When the hooks are installed.* Fabric and GoJS install their listeners after `connect()` has resolved, that is after the
awaited presence and comment calls behind the join (`index.js:135-139`; `samples/fabric-collab/src/collab-session.js:43`,
`samples/gojs-collab/src/collab-session.js:49-56`). Between Receive of the join and Install (step "loaded") an edit shows and
is not captured, and the client counts as disturbed. GoJS takes what it shows at Install as its baseline, so that such an edit
is never written at all.

### Comments - anchors against operations, crashes and compaction

| Variables | Code |
|---|---|
| `last`, `hot`, `snap` | the operation log and the snapshot of the document store |
| `effect` | what each operation does to the text of each comment: keeps, moves or deletes it |
| `session` | the session: closed, being opened, ready, or at a stage of an apply and its hook |
| `comments` | the table of `EfCoreCommentStore`: revision, anchor, orphaned, resolved |
| `engines` | the names in the anchor engine registry |
| `call` | a mutation of `CommentRouter` between its read and its write |
| `compaction` | a call of `CompactWithAnchorsService` between its awaits |
| `drawn`, `missed` | history variables (see below) |

An anchor is known by how often it was moved for each operation, which is what decides whether
it points at its text. The hook (`CommentAnchorRebaseHook.cs`) is two steps, load and update; a reopened session
runs it again for each replayed operation. A compaction takes no lock: it loads, streams and writes back
between the other steps.

`missed` is a history variable: the comments that a write without a lock, or a failure of the
comment store, may have left behind - a comment stored after the hooks of later operations had run, a
whole record written over a moved anchor, a hook that failed or was lost behind a newer snapshot, a compaction whose
streamed operations do not lead from the anchor's revision to the one it stamps. The rest
must be exact.

### Presence - who is shown as present

| Variables | Code |
|---|---|
| `number`, `step`, `roster` | the client's connection, how far its join is, `_peers` |
| `calls`, `net` | UpdateAwareness calls and messages on their way |
| `states`, `expired` | the entries of `AwarenessSession`, those past their time to live |
| `registered`, `group` | `PeerRegistry` and the SignalR group |
| `joined`, `overtaken` | history variables: connections that were ever registered; clients announced by a connection they have replaced |

What a client announces is one constant (no sample changes it after the join), so an
announcement is its connection. Reconnect is the transport's own: a new connection id, no join. A join that was asked for by a
client that left before the server began with it is dropped; the server might still serve it and then unregister the connection at once.

## Runs

A run's properties are each broken by at least one plausible bug (a guard dropped, an order
swapped, an off-by-one), which the modules state beside the definition as `Mutant of ...`; the
pairs are listed in PROJECT.json. Deadlock is not checked in any run, because in each a behaviour may end: the bounds are used up and
everybody has gone.

### DocumentSession

`session_` runs are of `MCDocumentSession`, with two peers and two operations: the smallest numbers at
which two calls compete for the lock and one of them has to be rebased past the other and past
a compaction. Three joins let a peer come back after it left; two crashes let a rebuilt session
crash again. The seed is a third operation.

| Run | Environment | Shows |
|---|---|---|
| `session_races` | all hazards, no crash | `ContextCorrect`: each stored operation has the next revision and was transformed past exactly those before it. `HotIsSuffix`: the hot log has no hole. `BroadcastInOrder`: broadcasts carry increasing revisions and the operation stored there. `JoinersSeeHistory`: with JoinAsync's two reads torn apart, a joiner is still given a state the document once had, with all that was acknowledged before its first read, and with one operation at most that its revision does not count. |
| `session_recovery` | two crashes and faults; snapshots do not overlap, reads are not torn; fairness | `TypeOK` with the lock discipline. `Recoverable`: snapshot and log hold the whole history. `SessionCurrent`: a live session holds all that was acknowledged. `RevisionAdvances`: the revision of an open session never goes back. `ImplementsOpLog`: the refinement of OpLog. `EveryCallAnswered`: a queued call is answered, whatever throws. |
| `session_stale_snapshot` | overlapping snapshots only | violation of `Recoverable` |

Fairness: a call inside the pipeline takes its next step (every awaited call returns or
throws), and a call waiting for the lock gets it if the lock is free again and again, because
SemaphoreSlim serves its asynchronous waiters in the order they queued. Nothing is assumed of
clients, joins, leaves or cancellations.

**Stale snapshot** (`DocumentSession.cs:332`). The last peer to leave passes the state it sees
to TakeSnapshotAsync outside the lock. If another peer joins meanwhile, applies an operation
and its snapshot is written and the log compacted first, the older snapshot lands on top: the
operations in between are in neither. The concepts page says that state is not lost.

A failure after the append (`DocumentSession.cs:242-263`, answered at `:293`) is answered like a
rejection while the operation is durable and part of every later state. LateFailure models it, and
the invariants of the session's runs hold all the same. What it does to the clients, who are not told of the
operation, is in ClientSync and CollabSession (FailAfterCommit).

That a joiner's state is the state of the revision it is given (`JoinConsistent`) is more than the code promises:
it fails in `DocumentSession_torn_join` (below). JoinersSeeHistory is what is left of it, and
what a client relies on when it builds on a join: the pair it gets is off by the one operation that is being applied.

### DocumentLifecycle

`lifecycle_` runs are of `MCDocumentLifecycle`. Three connections are the smallest number at
which one joins, one leaves and one is idle in between; the run in which everything overlaps has
two and an administrative deletion, which can close the session at any point of either. There
are no other bounds: a connection comes and goes once.

| Run | Environment | Shows |
|---|---|---|
| `lifecycle_serial` | three connections, drain handlers, no faults; joins overlap joins, disconnects overlap disconnects and closes; fairness | `JoinedServed`: who has joined is a peer of the registered session. `JoinedSubscribed`: with a live subscription. `JoinedNotTimed`: and no idle timer running. `OneOpener`: simultaneous first joins load the document one at a time. `IdleClosed`: when all have gone the session is closed. |
| `lifecycle_overlap` | two connections and an eviction, everything overlaps and fails | `TypeOK`. `NoGhosts`: nobody who has gone is left in a registered session. `TimersAccounted`, `SubscriptionsAccounted`: no timer or subscription escapes the tables. |

The invariants of `lifecycle_serial` are proved with faults and for any number of connections. They are what the code
guarantees while joins keep clear of disconnects and closes; each fails without that, in a configuration
further below. What holds with everything overlapping is in `lifecycle_overlap`.

Fairness: a join, a disconnect or a close that has begun takes its next step, a free semaphore
is granted (weak fairness is enough: in this run nobody takes it away for ever), and
an armed timer fires. Connections need neither come nor go. `AllGone` is left again when a
connection that has not come yet comes.

### TextEdits

`text_laws` (`MCTextEdits`): every text of up to three characters, every event of one or two
replacements that type one or two characters, a second event, and rival operations of up to
three components with counts up to two. That reaches every pair of component types at every relative
offset, partial overlaps in both directions, and an exhausted side.

| Property | Shows |
|---|---|
| `EventCaptured` | the operation built from an editor event has the effect the user saw, in compact form |
| `TextsMeet` | two concurrent operations, transformed past each other with opposite priorities, lead to one text |
| `EditsCompose` | two edits merged have the effect of both, and are dropped only when they have none |
| `Undoable` | an operation's inverse restores the text |
| `CaretFollows` | a caret keeps its place under any single insertion or deletion |

### ClientSync

`client_by_the_book` (`MCClientSync`): two editors, a seed of one character, and any three of:
an edit, a lost or disposed connection, a refusal or a failure after the commit (at most one of each of the last two). Three edits are needed for an
operation in flight, a buffered one and a remote one.

| Property | Shows |
|---|---|
| `TypeOK` | the types, and that no client is ahead of the log |
| `PendingOnTop` | an open editor by the book shows the server's text at its revision, with what is in flight and then what is buffered on top |
| `TypedOnce` | nothing typed is in the document twice, even when a lost request is carried out after the client has joined again |
| `Converges` | an editor by the book that stays ends up with the server's document and nothing left to send |

Fairness: something that can be delivered, served, answered or reopened is (one weak fairness for
all such work, as its steps are finitely many between two steps of a user). Nobody has to type, no
connection has to break.

`client_diverges`: two edits, no losses and no refusals: violation of `AlwaysConverged`, the promise
of the file's header without the condition. In the trace an edit made while the join is under way
is committed and then missing from the text that is seeded; another editor that is between the reading of its document
and its registration never hears of that operation either.

### CollabSession

`collab_by_the_book` (`MCCollabSession`): the five editors in turn, a client that has joined and one that joins in the
run, one object, and any three of: an edit (create, change, delete), a refused batch, a batch that fails after its commit, a lost connection (at most two failures); the clock
takes two values, so that writes may or may not share a millisecond, and a new object has one of the two values (`NewObjects`). Three edits are needed for one in
flight, one pending and one of somebody else, and for create, change and delete; the registers of two objects never interact, and two objects are past what a run can explore.

| Property | Shows |
|---|---|
| `TypeOK` | the types, and that a batch is in flight exactly while `_flushing` is set |
| `SameAsServer` | an object nobody wrote blindly looks to everyone the way the server would give it to a newcomer |
| `NothingEchoed` | applying a remote batch is not taken for an edit. It has force for the diagram, whose baseline decides what is written; the guards the other samples set while they apply a batch are not modelled, their captures being actions of the user |
| `OrderIndependent` | the registers do not depend on the order of the batches, unless one peer writes in two batches in one millisecond |
| `Settles` | everything is sent, applied and loaded in the end |

Fairness, for each client: the server, the network and its event loop go on, an image that is being
loaded comes, a transaction ends.

### Comments

`comments_anchors` (`MCComments`): one comment (comments do not interact: each is read and written by
its id), one mutation at a time, three operations, and any two of: a crash, a failure of the comment
store, a compaction; a commenter may be one operation behind; both registrations of anchor engines, the one of
AddOpStream and one with the operation's name. Nothing new begins after an anchor was left behind (`MaxMissed` 0), and a document
that cannot be rebuilt is not opened.

| Property | Shows |
|---|---|
| `TypeOK` | the types, and that a registered session is at the end of the log |
| `RebasedOnce` | an anchor that nothing went wrong for was moved by each operation up to its revision exactly once, over hooks, replays and compaction, and is where its text is when the session is at rest |

### Presence

`presence_by_the_book` (`MCPresence`): two clients, three connections (one client may come back, or
reconnect), one expired state.

| Property | Shows |
|---|---|
| `TypeOK` | the types, and that a peer is shown once |
| `GoneUnlisted` | who shows a connection that ended has the farewell on its way |
| `ListedWhileHere` | a late farewell of an old connection does not drop a peer shown over its new one |
| `NewcomerShown` | who is in the group comes to show a newcomer |

Fairness: calls are answered and messages delivered while a connection lasts, the heartbeat keeps
firing, the server learns of the end of a connection.

`presence_latecomer`: two clients, one connection each: violation of `EveryoneShown`. The answer to a
newcomer equals what the server keeps of the answering client and is dropped
(`AwarenessSession.cs:108`), and the client leaves the states in the answer to its join aside; the
newcomer never shows those who came before it. "Never" is within the time to live: this run expires no state, and once a state has
expired and been evicted the next heartbeat of its client would no longer be dropped.

### Further configurations that TLC finds violated

These are kept beside the runs, as evidence for statements of the documentation that do not hold
without the assumptions of the runs above.

| Configuration | Property | What happens | Documented |
|---|---|---|---|
| `DocumentSession_torn_join` | `JoinConsistent` | `DocumentSession.cs:314` reads state and revision without the lock, an apply assigns one between them: the joiner applies that operation twice, or never | "A peer always sees a consistent view" (`README.md:149` of the repository) |
| `DocumentLifecycle_closed_under_peer` | `JoinedServed` | a join cancels the timer before it is counted (`DocumentRouter.cs:96`), the callback does not look at the count (`:201`): with a disconnect in between, the session is closed under the new connection | "How long a document keeps its in-memory session alive after the last peer leaves" (`DocumentSessionRegistry.cs:13`) |
| `DocumentLifecycle_two_openers` | `OneOpener` | a close removes the semaphore although a later call already loads behind it (`DocumentRouter.cs:253`) | "per-document async mutual exclusion" (`DocumentLockRegistry.cs:6`) |
| `DocumentLifecycle_erased_under_peer` | `ErasedOnlyDrained` | the handlers' decision to delete is carried out without asking whether somebody has joined during their await (`DocumentRouter.cs:197`) | "when a document loses its `last` peer" (`IDocumentDrainHandler.cs:49`) |
| `DocumentLifecycle_drained_twice` | `DrainedOncePerZero` | the count is read after the leave, not by it (`DocumentRouter.cs:191`) | "fires once each time the active-peer count transitions to zero" (`IDocumentDrainHandler.cs:74`) |
| `DocumentLifecycle_never_closed` | `IdleClosed` | the last leave throws (`DocumentRouter.cs:189`), no timer is armed | "the session is simply closed after the usual idle grace period" (`IDocumentDrainHandler.cs:33`) |
| `CollabSession_one_wins` | `OneWins` | two editors change one object at once: the server resolves by timestamp, each editor by arrival | "two people transforming the same object at once, one wins" (`samples/fabric-collab/README.md:67`) |
| `Comments_trimmed` | `Rebuildable` | the log is cut at the requested revision, no snapshot is looked for (`CompactWithAnchorsService.cs:52`) | "Ensure a snapshot exists at (or is written for) the target revision" (`mkdocs/docs/concepts/compaction.md:11`) |

Seen while modelling, without a configuration of their own:

* With Overlap, IdleClosed fails without any fault: a close that still awaits the
  backplane ends by cancelling the timer of the session that was opened after it (`DocumentRouter.cs:252`).
* `CaretSurvives`, CaretFollows for every operation, fails: `ot-text.js:200-203` compares places in
  the text before the operation with the caret's new place, so a deletion behind an insertion at the caret moves it too far.
  `TextAnchorEngine.cs:52` compares in the same mixed coordinates and can orphan an anchor whose
  text is not gone; its results are abstract in Comments.
* The registry of anchor engines is filled under document types ("text") and asked for the class of the
  operation ("TextOp"): in the shipped registration a compaction never moves an anchor, only
  stamps it (`CompactWithAnchorsService.cs:124`).
* An update of anchors that failed is not retried once a later operation stamps the comment
  (`CommentAnchorRebaseHook.cs:100-106`).
* `MemoryCommentStore.cs:42-46` stores an updated comment even if it was deleted meanwhile; the
  Entity Framework store, which is modelled, does not.
* SignalR: what is committed between reading the document and joining the group is missed
  (`SignalRTransport.cs:32`), and an automatic reconnect never joins again (`index.js:104`).

## Proofs

Every theorem is proved for all values of the constants that satisfy the modules' own ASSUMEs, which
TLC evaluates in the runs: any number of clients, texts and operations of any length, any bounds. The other
hypotheses are named in the statements.

### DocumentSessionProofs

* `TypeCorrect`: `Spec => []TypeOK`, with no assumption on the environment. TypeOK includes that
  exactly the holder of the lock is inside the pipeline.
* Under `Atomicity` (no overlapping snapshots, no torn reads - exactly the two assumptions whose
  absence the violation runs exploit): `NothingLost` (`[]Recoverable`), `AcknowledgedKept`
  (`[]SessionCurrent`).
* Under `NoStaleReopen` (snapshots may overlap, or the server may crash, but not both; reads may be torn):
  `RebasedPastAll` (`[]ContextCorrect`), `NoHoleInLog` (`[]HotIsSuffix`), `BroadcastsOrdered`
  (`[]BroadcastInOrder`) and `RevisionNeverBack` (`RevisionAdvances`). Both passing runs are within it.
  With overlapping snapshots and a crash TLC finds HotIsSuffix violated: what is opened from the
  stale snapshot numbers its operations anew.
* Under `OneLifetime` (reads may be torn and snapshots overlap if the server does not crash; without either hazard it may
  crash any number of times): `JoinersGivenHistory` (`JoinersSeeHistory`). The torn read is in the theorem, not assumed away.
* Under `Atomicity`, `SessionKeepsPromise` (`ImplementsOpLog`): the session, its store and its calls
  implement `OpLog`.

None of these is inductive alone. `IInv`, of the first group, adds: the hot log is a part of
the history (`LogInv`); an open session lies between the snapshot and the end of the history
(`SessionInv`); what a call may rely on at each stage of the pipeline (`CallInv`) - the crucial
part is the stage before the append, where the operation has been transformed at least up to the
session's revision, so that when the key turns out to be free the session is at the end of the
history; and that a snapshot in progress is the only one and no older than the one it replaces
(`SnapshotInv`). The lemma `Extended` is the heart: a successful append extends the history at
the right place, even after an earlier append failed ambiguously and left the session behind.

`NInv`, of the second group, does not speak of what snapshots and joiners hold, and so survives overlapping
snapshots: the log reaches from where anybody may start reading to the end of the history
(`Covered`, in `NumberInv` and `OpenInv`), the stages of a call (`StageInv`), what a compaction under
way may cut (`CutInv`), and that nothing newer than the session's revision was broadcast (`ToldInv`).
`SeenInv`, on top of it, is for the joiners: the state is the prefix of the history that the revision names, or of one operation
more exactly while an apply is between its two assignments (`Reached`); what was acknowledged is within the revision; and what a
JoinAsync has read and not yet returned is such a prefix of an earlier moment (`Past`), which the revision can only catch up with.

The refinement maps each step to a step of OpLog or a stutter. It needs besides IInv that an
operation becomes durable at most once (`Fresh`), which holds because a failed append ends the call.

### DocumentLifecycleProofs

* With everything overlapping: `LifecycleTypes` (`TypeOK`), `NobodyLeftBehind` (`NoGhosts`),
  `TimersInTable` (`TimersAccounted`) and `SubscriptionsInTable` (`SubscriptionsAccounted`);
* under `Serialized` (no overlap and nobody evicts - what the violation runs do without):
  `WhoJoinedIsServed`, `WhoJoinedIsSubscribed` and `GatesExclude` (`OneOpener`). That whoever has joined is not timed is a
  lemma here and checked in the run; it is of little weight, for what could break it is a join that overlaps a disconnect.

`AnyOverlapInv` is the inductive invariant of the first group. NoGhosts needs two facts that it
does not mention: a session can be entered only once the call that creates it is past its load
(`MemberInv`), and a close is run by nobody who is still connected (`CloseInv`), for the last
step of a deleting disconnect ends that disconnect. `SerialInv` adds for the second group that
joins, disconnects and closes take turns (`PhaseInv`) - which is only an invariant because a
timer that survives its table entry does not exist, so a join that begins has none left to
fear - that every caller waits at the registered semaphore, so that its holder is unique
(`GateInv` with `ServedInv`), and that a disconnect which finds nobody left has left the
registered session, not an older one (`ServedInv`).

### The theory of text operations: Recursion, TextOtProofs

The operations compute over components by recursion, and the provers offer no induction rule that
takes an operator. `Recursion.tla` gets around that with sets and functions: induction as
a statement about the set of numbers that have the property, the existence of a recursive function
from its finite approximations, and the fold of a sequence as the last entry of its trace. The models
define what recurs as functions for this reason (`applied`, `rebased`, `merged`), over pairs where
an algorithm walks two operations at once.

* `TransformsMeet`: two concurrent operations, transformed past each other with opposite
  priorities, lead to one text (TP1). It suffices that one of the two is within the text, because an
  operation that reaches past the end is cut off there by `apply`, as in the code.
* `ComposeFollows`: a composition has the effect of its parts in order, and stays in range.
* `InvertTakesBack`: the inverse restores the text.

Each goes by induction over the number of components left to walk, with one lemma per pair of component types.
The lemma that all rest on is that cutting a component at any place leaves the effect of the operation (`HeadCut`).

The same module proves what the run of TextEdits checks of the operations an editor builds, for every text,
event and rival operation: `EventsCaptured` (`EventCaptured`), `TextsConverge` (`TextsMeet`), `BufferedAsOne`
(`EditsCompose`), `EditsUndoable` (`Undoable`) and `CaretKeepsPlace` (`CaretFollows`). EventsCaptured is
the hard one: `fromMonacoChanges` sorts the replacements of an event and walks them from the end, the
editor carries them out one by one. `sorted` is the one arrangement in the order of the offsets
(CHOOSE over the arrangements), which says what the code's sort does without an algorithm.
CaretKeepsPlace compares two walks over the operation: that of `transformOffset`, which carries the caret
along, and that of `transform` on the insertion of a marker at the caret, whose place in the text is where the caret belongs.

### ClientSyncProofs

* `TypeCorrect` (`TypeOK`): includes that no client is ahead of the log, whatever is lost, refused or late.
* `PendingKept` (`PendingOnTop`): the text an editor shows is the server's at its revision with its own
  operations on top, for any number of editors, and for the editors that were told of everything also when requests of others are
  refused, fail after the commit, or are carried out after their connection was lost.
* `NothingTypedTwice` (`TypedOnce`): what was typed once is in the document at most once, for any keys that
  differ from each other (`KeysAssumption`).

PendingOnTop is not inductive: it says nothing of the messages under way. `IInv` adds what goes by the book on a
connection (`BookInv`): the queue holds exactly the operations after the client's
revision, in order (`Tells`); the operation in flight is nowhere yet but in the editor (`Idle`), is
the request under way, which the log transforms to the same as the client's own copy (`Sent`),
or has been served, and then the answer is in the queue at the place where the client's copy,
transformed past what stands before the answer, is what the log holds next, or is nothing any more (`Served`);
a join under way is answered with a text and a revision that fit, and the queue goes on from there
(`Entering`). `AwayInv` says that a lost connection carries nothing, so that a reconnected client starts by the
book again. The step that receives a foreign operation is `TransformsMeet` twice, that of an edit behind
one in flight is `ComposeFollows`.

`OnceInv` says where a character that was typed can be: in the document, in a request
a lost connection left behind, with one editor in a request on its way, or in its buffer. Of each character
there is one at most in all these places together, and none of a key that is still to be typed (`AtMost`,
`Room`). Transforming and composing insert no more than their inputs do, and a request that is carried out late
is the one that left the editor, for what an editor had in flight is forgotten when it joins again.

### CommentsProofs

`TypeCorrect` (`TypeOK`) and `MovedOnce` (`RebasedOnce`). RebasedOnce says that a comment that nothing went wrong for has the
anchor of its revision. Inductive are besides: no operation
since the anchor's revision touches it, but for the last one, whose hook is still to come (`AnchorsInv`);
the same of the copies that a mutation of `CommentRouter` carries between its read and its write
(`CopiesInv`) and of what a hook has loaded (`MovingInv`); where the session is in the log
(`SessionInv`). That a session does not take the next operation before the hook of the last is
over is what keeps an anchor from being two behind.

### PresenceProofs

`TypeCorrect` (`TypeOK`), `GoneAreDropped` (`GoneUnlisted`) and `HereStayListed`
(`ListedWhileHere`). The invariant tells a connection that has ended for ever (a client's next one has a greater number) from
one that has not been opened yet (`ConnectionsInv`); a client in the group is told of the end of every connection it
shows or is about to show, behind the announcement (`Told`); and a peer's announcements come in the
order of its connections, unless one came late to the server (`InOrder`).

### CollabSessionProofs

For any number of clients and objects, under each of the five editors, with refusals, batches that fail after their commit, hooks
that are installed late, and lost connections:

* `TypeCorrect` (`TypeOK`). `TypeInv` adds what its type alone does not say: that nothing
  - no register, batch, message, screen or image - is about an object that was never added.
* `EchoesNothing` (`NothingEchoed`). `EchoInv` adds to a client's outbox what the diagram has not written yet (the
  objects that differ from its baseline): an edit adds at most one to this debt, finishing a transaction
  turns the one kind into the other, a commit moves it to the log, and a batch received adds none because the diagram
  adopts all it shows as its baseline.
* `AnyOrder` (`OrderIndependent`). `Reflects` tells the two registers of an object from the set of
  the operations that were applied, whatever their order (`Cell`): the object as a whole is the latest
  write of it; its property is the latest, unless the object as a whole is later, in which case it is absent or a tombstone.
  The lemmas say that one more operation leads from a set to the larger one (`ReflectsStep`), that the order of what is
  left of a batch does not matter, and that `Compose` leaves no two operations that void each other.
* `EveryoneFollows` (`SameAsServer`). `SameInv` is the largest invariant here, for SameAsServer only speaks of a client
  that has caught up, and has to be carried through all that comes before. Of the clients that
  are not `disturbed` and the objects that are not `contended` it says (`Tracks`): if the client owes nothing of the
  object, then the messages on their way lead from what it sees to what the document has; if no message about the object is on
  its way, then what it owes leads from the document to what it sees. What it sees counts the images that are being loaded
  (`SeenIn`), of the diagram it is the baseline. The rest of the invariant is what makes these two steps go through:
  a batch has one operation at most of each path, writes the object before its property, and names a property
  in the scene only (`BatchesInv`); no write waits that is later than its client's clock (`ClocksInv`); the registers
  are as the samples write them (`RegsInv`); an object of the scene that is still to be committed is known to nobody else
  (`PrivateInv`), because there a write of the whole object does not replace what is shown; and a client
  that joins shows nothing before it is answered, with a snapshot that leads to the document (`JoinInv`). The lemmas
  compare four ways in which one batch can come to be seen, each with the same `Outcome`: applied to the registers and
  read from them (`Committed`), applied by an editor (`BatchApplied`), read from a snapshot (`SnapshotBuilds`),
  and kept in the outbox, merged with what waits there (`OneMore`).

### Assumed and not proved

Assumed of the constants, by name: `ConstantsAssumption` (DocumentSession, DocumentLifecycle), `BoundsAssumption`
(Presence, Comments, ClientSync, CollabSession), `NoneAssumption` (None is no revision), `NullAssumption` and
`AnswerAssumption` (null is no operation and no message), `KeysAssumption` (no key is typed twice),
`InputsAssumption` and `MarkerAssumption` (TextEdits: the mark of the caret is in no text), `PathAssumption`
and `RegisterAssumption` (JsonCrdt: a path has a name, NoRegister is no operation).

Model-checked only is all liveness (`EveryCallAnswered`, `IdleClosed`, `ClientSync!Converges`, `Settles`,
`NewcomerShown`), because TLAPS 1.4 does not reason about fairness.

## Plan

Runs are kept to about a dozen, each a question of its own; pure algorithms share one module of checks.

1. Done: OpLog, DocumentSession, its proofs.
2. Done: DocumentLifecycle, its proofs.
3. Done: TextOt with its laws, ClientSync, JsonCrdt and CollabSession, Comments, Presence.
4. Done: proofs of every safety property of these.
5. Ownership: the lease, the pipeline, forwarding; properties: one writer at a time, what a split
   brain does to the log (the unique key). With it two sessions over one store: an operation in
   flight across a close and a reopening.
6. Backplane: requests without a deadline, subscriptions that share a channel.
7. Snapshotter and History: the shared counter, rebuilding a past revision.
8. Versioning: forks, versions and merges against live sessions.
9. The tree, table and rich-text engines, FractionalIndex, undo and redo.

## Not modelled

* Ownership, backplanes, history, versioning, undo and redo, the tree, table, form and rich-text
  engines: planned, above.
* What becomes of a client that missed a broadcast (a commit whose publication failed, a commit during its join): the clients have
  no way to notice it. The properties of ClientSync and CollabSession are about the others.
* The echo guards of the Fabric, Konva and three.js samples, and the attributes of an object one by one.
* Replies, the memory comment store and the geometry of anchors (abstracted to kept, moved, deleted).
* gRPC and the .NET clients, which hand the same calls on; the list of comments in the JavaScript client;
  cursors and typing marks in the Monaco sample.
* The HTML editor's adapter (`samples/OpStream.CollabHtmlEditor`), LiteGraph and Luckysheet samples:
  further editors over the same client or the same engines.
* Dependency injection, authorization and validation (early
  returns of the callers), tenants (a prefix of the document id), telemetry, the administration UI.
* Vendored code: `Blazor.BrowserExtension-main` with its copies of Bootstrap, Prism and
  browser-polyfill, and the generated documentation site (`mkdocs/site`, with lunr). Most of the
  repository's JavaScript by line count is of this kind, and the program does not depend on it.
