----------------------------- MODULE DocumentSession -----------------------------
(***************************************************************************)
(* The live session of one document on its owner node (DocumentSession.cs) *)
(* with the document store underneath it (IDocumentStore): peers join,     *)
(* leave and send operations concurrently; an operation goes through the   *)
(* pipeline of ApplyOpAsync under the session lock, one awaited call a     *)
(* step; snapshots are taken inside the lock by the pipeline and outside   *)
(* it by the last peer that leaves; the process may crash and the session  *)
(* be opened again from the store.                                         *)
(*                                                                         *)
(* Abstractions.  A document state is the sequence of the operations that  *)
(* produced it, an operation is a number, its revision the position it was *)
(* stored at.  What Transform does to the text is not modelled: "seen" is  *)
(* the last revision the stored operation has been transformed past.  The  *)
(* snapshot policy is a free choice: its counter is shared by every        *)
(* document of the node, so that one document cannot predict it.           *)
(***************************************************************************)
EXTENDS Naturals, Sequences, FiniteSets

CONSTANTS
    Peers,              \* the callers (transport connections)
    MaxOps,             \* bound: operations submitted in a behaviour
    MaxJoins,           \* bound: calls of JoinAsync in a behaviour
    MaxCrashes,         \* bound: crashes of the node
    StoreFaults,        \* may a call of the store, the engine or the backplane throw?
    OverlapSnapshots,   \* may two snapshots of the document be in progress at once?
    TornReads,          \* may an unlocked reader run between two assignments?
    Free, NoView        \* the lock is free; the peer has no state

ASSUME ConstantsAssumption ==
    /\ MaxOps \in Nat
    /\ MaxJoins \in Nat
    /\ MaxCrashes \in Nat
    /\ {StoreFaults, OverlapSnapshots, TornReads} \subseteq BOOLEAN
    /\ Free \notin Peers

VARIABLES
    hot,        \* the hot op log: revision -> stored operation (unique key)
    snap,       \* the latest snapshot [rev, doc]; revision 0 when there is none
    status,     \* the session: "closed", "opening" or "live"
    doc, rev,   \* _currentState and CurrentRevision
    lock,       \* holder of _lock, or Free
    active,     \* _activePeers
    pc, req,    \* the ApplyOpAsync call each peer has in flight
    joinDoc,    \* the state a JoinAsync in progress has serialised, or NoView
    leaving,    \* the snapshot a LeaveAsync in progress is taking
    view,       \* what JoinAsync returned to the peer
    ledger,     \* history: every operation that became durable, in order
    acked,      \* history: operations answered with success at a new revision
    published,  \* history: what was broadcast on the backplane
    minted, joins, crashes  \* how many of each so far

store == <<hot, snap>>
session == <<status, doc, rev, lock, active>>
calls == <<pc, req>>
readers == <<joinDoc, leaving, view>>
history == <<ledger, acked, published>>
bounds == <<minted, joins, crashes>>
vars == <<store, session, calls, readers, history, bounds>>

----------------------------------------------------------------------------
\* Operations, states and the store.

Seed == 0
OpIds == 0..MaxOps

NoSnapshot == [rev |-> 0, doc |-> <<>>]
NotLeaving == [pc |-> "idle", rev |-> 0, doc |-> <<>>]
NoRequest == [op |-> Seed, base |-> 0, seen |-> 0, next |-> 0]

StoredOp(r, o, s) == [rev |-> r, op |-> o, seen |-> s]

\* StreamOpsAsync: the revisions stored after since, read in revision order.
Streamed(since) == {r \in DOMAIN hot : r > since}

\* Those of them the reader reaches before the first gap.
Reachable(since) == {r \in Streamed(since) : \A q \in since + 1 .. r : q \in DOMAIN hot}

\* Mutation of Compacted: the operation after the snapshot goes too.
CompactedOneTooFar(h, n) == [r \in {q \in DOMAIN h : q > n + 1} |-> h[r]]

\* AppendOpAsync, once the key (document, revision) is known to be free.
WithOp(h, e) == [r \in DOMAIN h \cup {e.rev} |-> IF r = e.rev THEN e ELSE h[r]]

\* CompactAsync: drop everything up to and including revision n.
Compacted(h, n) == [r \in {q \in DOMAIN h : q > n} |-> h[r]]

\* The state made of the first n operations of a log, and of the durable ones.
StateAfter(log, n) == [i \in 1..n |-> log[i].op]
Prefix(n) == StateAfter(ledger, n)

SnapshotInProgress ==
    \E p \in Peers : pc[p] \in {"snapshot", "compact"} \/ leaving[p].pc # "idle"

MaySnapshot == OverlapSnapshots \/ ~SnapshotInProgress

----------------------------------------------------------------------------
\* Opening the session: DocumentSessionRegistry.GetOrOpenAsync.

\* No snapshot: the seeder supplies the state and revision 1 is written.
OpenSeeded ==
    /\ status = "closed"
    /\ snap = NoSnapshot
    /\ snap' = [rev |-> 1, doc |-> <<Seed>>]
    /\ ledger' = Append(ledger, StoredOp(1, Seed, 0))
    /\ status' = "opening"
    /\ doc' = <<Seed>>
    /\ rev' = 1
    /\ UNCHANGED <<hot, lock, active, calls, readers, acked, published, bounds>>

OpenFromSnapshot ==
    /\ status = "closed"
    /\ snap # NoSnapshot
    /\ status' = "opening"
    /\ doc' = snap.doc
    /\ rev' = snap.rev
    /\ UNCHANGED <<store, lock, active, calls, readers, history, bounds>>

\* One iteration of the replay loop: RehydrateOpAsync of the next stored op.
Rehydrate ==
    /\ status = "opening"
    /\ \E r \in Streamed(rev) :
          /\ \A q \in Streamed(rev) : r <= q
          /\ doc' = Append(doc, hot[r].op)
          /\ rev' = r
    /\ UNCHANGED <<store, status, lock, active, calls, readers, history, bounds>>

\* Mutation of Opened: the session is published before its log has been replayed.
OpenedBeforeReplay ==
    /\ status = "opening"
    /\ status' = "live"
    /\ UNCHANGED <<store, doc, rev, lock, active, calls, readers, history, bounds>>

Opened ==
    /\ status = "opening"
    /\ Streamed(rev) = {}
    /\ status' = "live"
    /\ UNCHANGED <<store, doc, rev, lock, active, calls, readers, history, bounds>>

Crash ==
    /\ status # "closed"
    /\ crashes < MaxCrashes
    /\ crashes' = crashes + 1
    /\ status' = "closed"
    /\ doc' = <<>>
    /\ rev' = 0
    /\ lock' = Free
    /\ active' = {}
    /\ pc' = [p \in Peers |-> "idle"]
    /\ req' = [p \in Peers |-> NoRequest]
    /\ joinDoc' = [p \in Peers |-> NoView]
    /\ leaving' = [p \in Peers |-> NotLeaving]
    /\ view' = [p \in Peers |-> NoView]
    /\ UNCHANGED <<store, history, minted, joins>>

----------------------------------------------------------------------------
\* ApplyOpAsync.

\* The revisions a client may build on: it was told of one when it joined, and is told of
\* later ones by broadcasts and by the answers to its calls, none of which need reach it.
Known(p) == view[p].rev .. rev

\* A call arrives; a validator rejects it or it queues for the lock.
Submit(p) ==
    /\ status = "live"
    /\ pc[p] = "idle"
    /\ view[p] # NoView
    /\ minted < MaxOps
    /\ minted' = minted + 1
    /\ \/ \E b \in Known(p) :
             /\ req' = [req EXCEPT ![p] =
                    [op |-> minted + 1, base |-> b, seen |-> b, next |-> 0]]
             /\ pc' = [pc EXCEPT ![p] = "waiting"]
       \/ UNCHANGED calls
    /\ UNCHANGED <<store, session, readers, history, joins, crashes>>

\* Mutation of Acquire: the lock is taken without waiting for its holder.
AcquireWithoutWaiting(p) ==
    /\ pc[p] = "waiting"
    /\ lock' = p
    /\ pc' = [pc EXCEPT ![p] = "rebase"]
    /\ UNCHANGED <<store, status, doc, rev, active, req, readers, history, bounds>>

Acquire(p) ==
    /\ pc[p] = "waiting"
    /\ lock = Free
    /\ lock' = p
    /\ pc' = [pc EXCEPT ![p] = "rebase"]
    /\ UNCHANGED <<store, status, doc, rev, active, req, readers, history, bounds>>

\* The connection is aborted while the call waits: WaitAsync throws, the lock is not taken.
Cancelled(p) ==
    /\ pc[p] = "waiting"
    /\ pc' = [pc EXCEPT ![p] = "idle"]
    /\ req' = [req EXCEPT ![p] = NoRequest]
    /\ UNCHANGED <<store, session, readers, history, bounds>>

\* Mutation of Finish: an exit of the pipeline that forgets the lock.
FinishHoldingLock(p) ==
    /\ pc' = [pc EXCEPT ![p] = "idle"]
    /\ req' = [req EXCEPT ![p] = NoRequest]
    /\ UNCHANGED lock

\* return and finally: the caller gets its answer and the lock is released.
Finish(p) ==
    /\ lock' = Free
    /\ pc' = [pc EXCEPT ![p] = "idle"]
    /\ req' = [req EXCEPT ![p] = NoRequest]

Fail(p) ==
    /\ Finish(p)
    /\ UNCHANGED <<status, doc, rev, active, readers, acked, bounds>>

Behind(p) == req[p].base < rev

\* The log still holds every operation after the client's base.
PathComplete(p) ==
    /\ Streamed(req[p].base) = Reachable(req[p].base)
    /\ req[p].base + 1 .. rev \subseteq DOMAIN hot

\* The path is not complete, or StreamOpsAsync, Transform or Apply throws.
RebaseRefused(p) ==
    /\ pc[p] = "rebase"
    /\ StoreFaults \/ (Behind(p) /\ ~PathComplete(p))
    /\ Fail(p)
    /\ UNCHANGED <<store, ledger, published>>

\* Transform returned null or a no-op after one of the operations streamed.
RebaseAbsorbed(p) ==
    /\ pc[p] = "rebase"
    /\ Behind(p)
    /\ Reachable(req[p].base) # {}
    /\ Finish(p)
    /\ UNCHANGED <<store, status, doc, rev, active, readers, history, bounds>>

\* Mutation of Rebased: the new revision is published before the operation is stored.
RebasedAssigningEarly(p) ==
    /\ pc[p] = "rebase"
    /\ ~Behind(p)
    /\ req' = [req EXCEPT ![p].next = rev + 1]
    /\ rev' = rev + 1
    /\ pc' = [pc EXCEPT ![p] = "append"]
    /\ UNCHANGED <<store, status, doc, lock, active, readers, history, bounds>>

\* Mutation of Rebased: Apply changes the live state in place.
RebasedInPlace(p) ==
    /\ pc[p] = "rebase"
    /\ ~Behind(p)
    /\ req' = [req EXCEPT ![p].next = rev + 1]
    /\ doc' = Append(doc, req[p].op)
    /\ pc' = [pc EXCEPT ![p] = "append"]
    /\ UNCHANGED <<store, status, rev, lock, active, readers, history, bounds>>

\* Transformed past all that was streamed; the state and revision to store are computed.
Rebased(p) ==
    /\ pc[p] = "rebase"
    /\ \/ /\ ~Behind(p)
          /\ req' = [req EXCEPT ![p].next = rev + 1]
       \/ /\ Behind(p)
          /\ PathComplete(p)
          /\ \E s \in Streamed(req[p].base) :
                /\ \A r \in Streamed(req[p].base) : r <= s
                /\ req' = [req EXCEPT ![p].seen = s, ![p].next = rev + 1]
    /\ pc' = [pc EXCEPT ![p] = "append"]
    /\ UNCHANGED <<store, session, readers, history, bounds>>

\* Mutation of Stored: a store without the unique key (document, revision).
StoredWithoutKey(p) ==
    LET e == StoredOp(req[p].next, req[p].op, req[p].seen)
    IN  hot' = WithOp(hot, e) /\ ledger' = Append(ledger, e)

\* AppendOpAsync writes the operation under the key (document, next).
Stored(p) ==
    LET e == StoredOp(req[p].next, req[p].op, req[p].seen)
    IN  /\ req[p].next \notin DOMAIN hot
        /\ hot' = WithOp(hot, e)
        /\ ledger' = Append(ledger, e)

AppendOp(p) ==
    /\ pc[p] = "append"
    /\ Stored(p)
    /\ pc' = [pc EXCEPT ![p] = "assignState"]
    /\ UNCHANGED <<snap, session, req, readers, acked, published, bounds>>

\* Mutation of AppendFails: the failure is swallowed and the pipeline goes on.
AppendFailureIgnored(p) ==
    /\ pc[p] = "append"
    /\ StoreFaults
    /\ pc' = [pc EXCEPT ![p] = "assignState"]
    /\ UNCHANGED <<store, session, req, readers, history, bounds>>

\* AppendOpAsync throws: on a duplicate key or a store failure, which may strike after
\* the write has become durable.
AppendFails(p) ==
    /\ pc[p] = "append"
    /\ \/ /\ StoreFaults \/ req[p].next \in DOMAIN hot
          /\ UNCHANGED <<hot, ledger>>
       \/ /\ StoreFaults
          /\ Stored(p)
    /\ Fail(p)
    /\ UNCHANGED <<snap, published>>

\* _currentState = nextState; CurrentRevision = nextRevision
AssignState(p) ==
    /\ pc[p] = "assignState"
    /\ doc' = Append(doc, req[p].op)
    /\ IF TornReads
       THEN pc' = [pc EXCEPT ![p] = "assignRevision"] /\ UNCHANGED rev
       ELSE pc' = [pc EXCEPT ![p] = "history"] /\ rev' = req[p].next
    /\ UNCHANGED <<store, status, lock, active, req, readers, history, bounds>>

AssignRevision(p) ==
    /\ pc[p] = "assignRevision"
    /\ rev' = req[p].next
    /\ pc' = [pc EXCEPT ![p] = "history"]
    /\ UNCHANGED <<store, status, doc, lock, active, req, readers, history, bounds>>

\* The history store is written and the policy asked whether a snapshot is due.
RecordHistory(p) ==
    /\ pc[p] = "history"
    /\ \/ pc' = [pc EXCEPT ![p] = "publish"]
       \/ MaySnapshot /\ pc' = [pc EXCEPT ![p] = "snapshot"]
    /\ UNCHANGED <<store, session, req, readers, history, bounds>>

WriteSnapshot(p) ==
    /\ pc[p] = "snapshot"
    /\ snap' = [rev |-> rev, doc |-> doc]
    /\ pc' = [pc EXCEPT ![p] = "compact"]
    /\ UNCHANGED <<hot, session, req, readers, history, bounds>>

Compact(p) ==
    /\ pc[p] = "compact"
    /\ hot' = Compacted(hot, rev)
    /\ pc' = [pc EXCEPT ![p] = "publish"]
    /\ UNCHANGED <<snap, session, req, readers, history, bounds>>

Publish(p) ==
    /\ pc[p] = "publish"
    /\ published' = Append(published, [rev |-> rev, op |-> req[p].op])
    /\ acked' = acked \cup {req[p].op}
    /\ Finish(p)
    /\ UNCHANGED <<store, status, doc, rev, active, readers, ledger, bounds>>

\* Any call after the append throws, before or after it took effect; the caller is
\* told that the operation failed.
LateFailure(p) ==
    /\ StoreFaults
    /\ \/ /\ pc[p] = "history"
          /\ UNCHANGED <<store, published>>
       \/ /\ pc[p] = "snapshot"
          /\ snap' \in {snap, [rev |-> rev, doc |-> doc]}
          /\ UNCHANGED <<hot, published>>
       \/ /\ pc[p] = "compact"
          /\ hot' \in {hot, Compacted(hot, rev)}
          /\ UNCHANGED <<snap, published>>
       \/ /\ pc[p] = "publish"
          /\ published' \in {published, Append(published, [rev |-> rev, op |-> req[p].op])}
          /\ UNCHANGED store
    /\ Fail(p)
    /\ UNCHANGED ledger

ApplyOp(p) ==
    \/ Acquire(p)
    \/ RebaseRefused(p) \/ RebaseAbsorbed(p) \/ Rebased(p)
    \/ AppendOp(p) \/ AppendFails(p)
    \/ AssignState(p) \/ AssignRevision(p)
    \/ RecordHistory(p) \/ WriteSnapshot(p) \/ Compact(p) \/ Publish(p)
    \/ LateFailure(p)

----------------------------------------------------------------------------
\* JoinAsync takes no lock: it serialises _currentState, then reads CurrentRevision.

JoinAtOnce(p) ==
    /\ ~TornReads
    /\ status = "live"
    /\ joinDoc[p] = NoView
    /\ joins < MaxJoins
    /\ joins' = joins + 1
    /\ active' = active \cup {p}
    /\ view' = [view EXCEPT ![p] = [rev |-> rev, doc |-> doc]]
    /\ UNCHANGED <<store, status, doc, rev, lock, calls, joinDoc, leaving, history, minted, crashes>>

JoinSerialize(p) ==
    /\ TornReads
    /\ status = "live"
    /\ joinDoc[p] = NoView
    /\ joins < MaxJoins
    /\ joins' = joins + 1
    /\ active' = active \cup {p}
    /\ joinDoc' = [joinDoc EXCEPT ![p] = doc]
    /\ UNCHANGED <<store, status, doc, rev, lock, calls, leaving, view, history, minted, crashes>>

JoinReadRevision(p) ==
    /\ joinDoc[p] # NoView
    /\ view' = [view EXCEPT ![p] = [rev |-> rev, doc |-> joinDoc[p]]]
    /\ joinDoc' = [joinDoc EXCEPT ![p] = NoView]
    /\ UNCHANGED <<store, session, calls, leaving, history, bounds>>

----------------------------------------------------------------------------
\* LeaveAsync takes no lock either.

LastToLeave(p) == active \ {p} = {}

\* Others remain, or nothing was applied since the last snapshot.
Leave(p) ==
    /\ status = "live"
    /\ p \in active
    /\ active' = active \ {p}
    /\ UNCHANGED <<store, status, doc, rev, lock, calls, readers, history, bounds>>

\* The arguments of TakeSnapshotAsync: _currentState, then CurrentRevision.
LeaveAndSnapshot(p) ==
    /\ status = "live"
    /\ p \in active
    /\ LastToLeave(p)
    /\ leaving[p].pc = "idle"
    /\ MaySnapshot
    /\ active' = active \ {p}
    /\ leaving' = [leaving EXCEPT ![p] =
          [pc |-> IF TornReads THEN "readRevision" ELSE "write", rev |-> rev, doc |-> doc]]
    /\ UNCHANGED <<store, status, doc, rev, lock, calls, joinDoc, view, history, bounds>>

LeaveReadRevision(p) ==
    /\ leaving[p].pc = "readRevision"
    /\ leaving' = [leaving EXCEPT ![p].pc = "write", ![p].rev = rev]
    /\ UNCHANGED <<store, session, calls, joinDoc, view, history, bounds>>

LeaveWriteSnapshot(p) ==
    /\ leaving[p].pc = "write"
    /\ snap' = [rev |-> leaving[p].rev, doc |-> leaving[p].doc]
    /\ leaving' = [leaving EXCEPT ![p].pc = "compact"]
    /\ UNCHANGED <<hot, session, calls, joinDoc, view, history, bounds>>

LeaveCompact(p) ==
    /\ leaving[p].pc = "compact"
    /\ hot' = Compacted(hot, leaving[p].rev)
    /\ leaving' = [leaving EXCEPT ![p] = NotLeaving]
    /\ UNCHANGED <<snap, session, calls, joinDoc, view, history, bounds>>

LeaveFails(p) ==
    /\ StoreFaults
    /\ leaving[p].pc \in {"write", "compact"}
    /\ leaving' = [leaving EXCEPT ![p] = NotLeaving]
    /\ UNCHANGED <<store, session, calls, joinDoc, view, history, bounds>>

----------------------------------------------------------------------------

Init ==
    /\ hot = [r \in {} |-> NoRequest]
    /\ snap = NoSnapshot
    /\ status = "closed"
    /\ doc = <<>>
    /\ rev = 0
    /\ lock = Free
    /\ active = {}
    /\ pc = [p \in Peers |-> "idle"]
    /\ req = [p \in Peers |-> NoRequest]
    /\ joinDoc = [p \in Peers |-> NoView]
    /\ leaving = [p \in Peers |-> NotLeaving]
    /\ view = [p \in Peers |-> NoView]
    /\ ledger = <<>>
    /\ acked = {}
    /\ published = <<>>
    /\ minted = 0
    /\ joins = 0
    /\ crashes = 0

Open == OpenSeeded \/ OpenFromSnapshot \/ Rehydrate \/ Opened

JoinStep(p) == JoinAtOnce(p) \/ JoinSerialize(p) \/ JoinReadRevision(p)

LeaveStep(p) ==
    \/ Leave(p) \/ LeaveAndSnapshot(p)
    \/ LeaveReadRevision(p) \/ LeaveWriteSnapshot(p) \/ LeaveCompact(p) \/ LeaveFails(p)

Next ==
    \/ Open
    \/ Crash
    \/ \E p \in Peers : Submit(p) \/ Cancelled(p) \/ ApplyOp(p) \/ JoinStep(p) \/ LeaveStep(p)

Spec == Init /\ [][Next]_vars

\* SemaphoreSlim wakes its asynchronous waiters in the order they queued, and every
\* awaited call returns or throws.
Fairness ==
    \A p \in Peers : WF_vars(ApplyOp(p)) /\ SF_vars(Acquire(p))

FairSpec == Spec /\ Fairness

----------------------------------------------------------------------------
\* Properties.

\* The stages of ApplyOpAsync that run under the session lock.
Critical == {"rebase", "append", "assignState", "assignRevision",
             "history", "snapshot", "compact", "publish"}

StoreTypeOK ==
    /\ DOMAIN hot \subseteq Nat
    /\ \A r \in DOMAIN hot : hot[r] \in [rev : Nat, op : OpIds, seen : Nat]
    /\ snap \in [rev : Nat, doc : Seq(OpIds)]

SessionTypeOK ==
    /\ status \in {"closed", "opening", "live"}
    /\ doc \in Seq(OpIds)
    /\ rev \in Nat
    /\ active \subseteq Peers

LockTypeOK ==
    /\ lock \in Peers \cup {Free}
    /\ pc \in [Peers -> {"idle", "waiting"} \cup Critical]
    /\ \A p \in Peers : pc[p] \in Critical <=> lock = p

RequestTypeOK == req \in [Peers -> [op : OpIds, base : Nat, seen : Nat, next : Nat]]

ReaderTypeOK ==
    /\ joinDoc \in [Peers -> Seq(OpIds) \cup {NoView}]
    /\ leaving \in [Peers -> [pc : {"idle", "readRevision", "write", "compact"},
                              rev : Nat, doc : Seq(OpIds)]]
    /\ view \in [Peers -> [rev : Nat, doc : Seq(OpIds)] \cup {NoView}]

HistoryTypeOK ==
    /\ ledger \in Seq([rev : Nat, op : OpIds, seen : Nat])
    /\ acked \subseteq OpIds
    /\ published \in Seq([rev : Nat, op : OpIds])

BoundTypeOK ==
    /\ minted \in 0..MaxOps
    /\ joins \in 0..MaxJoins
    /\ crashes \in 0..MaxCrashes

\* The values of the variables; and the lock is held by the one caller inside the pipeline.
TypeOK ==
    /\ StoreTypeOK
    /\ SessionTypeOK
    /\ LockTypeOK
    /\ RequestTypeOK
    /\ ReaderTypeOK
    /\ HistoryTypeOK
    /\ BoundTypeOK

\* Every operation that became durable got the next free revision, and was transformed past
\* exactly the operations before it and no others: the context it is applied in is the
\* context it was transformed to (ApplyOpAsync, steps 4 to 6).
ContextCorrect ==
    \A i \in DOMAIN ledger : ledger[i].rev = i /\ ledger[i].seen = i - 1

\* What the hot log holds is a suffix of the history: compaction cuts a prefix, nothing
\* leaves a hole behind it, so that a rebase that is not refused sees every operation.
HotIsSuffix ==
    \A r \in DOMAIN hot : r \in DOMAIN ledger /\ \A q \in r..Len(ledger) :
        q \in DOMAIN hot /\ hot[q] = ledger[q]

\* Broadcasts go out in revision order, without repetition, each with the operation that is
\* durable at that revision; a failed call may leave a hole in the sequence.
BroadcastInOrder ==
    \A i \in DOMAIN published :
        /\ published[i].rev \in DOMAIN ledger
        /\ ledger[published[i].rev].op = published[i].op
        /\ \A j \in 1..i - 1 : published[j].rev < published[i].rev

\* The snapshot and the hot log together hold the whole history: opening the session now
\* would restore every operation that ever became durable (session.md: state is not lost,
\* it is reconstructed from storage on the next join).
Recoverable ==
    /\ snap.rev <= Len(ledger)
    /\ snap.doc = Prefix(snap.rev)
    /\ \A r \in snap.rev + 1 .. Len(ledger) : r \in DOMAIN hot /\ hot[r] = ledger[r]

\* A live session holds every operation a client was told is applied, across crashes too,
\* and at every moment its state is the prefix of the history that its revision names.
SessionCurrent ==
    status = "live" =>
        /\ doc = Prefix(rev)
        /\ acked \subseteq {ledger[i].op : i \in 1..rev}

\* The state a joiner is given is the state of the revision it is given ("A peer always
\* sees a consistent view", README.md).  With torn reads it is not.
JoinConsistent ==
    \A p \in Peers : view[p] # NoView => view[p].doc = Prefix(view[p].rev)

OpsIn(d) == {d[i] : i \in DOMAIN d}

\* Wherever the pipeline stands between the two unlocked reads of JoinAsync, a joiner is
\* given a state the document once had: durable operations in their order, all that was
\* acknowledged before the first read, and one at most that its revision does not count.
JoinersSeeHistory ==
    [][\A p \in Peers :
        /\ joinDoc[p] = NoView /\ joinDoc'[p] # NoView => acked \subseteq OpsIn(joinDoc'[p])
        /\ view'[p] \notin {view[p], NoView} =>
              LET n == Len(view'[p].doc)
              IN  /\ n <= Len(ledger) /\ view'[p].doc = Prefix(n)
                  /\ n <= view'[p].rev + 1 /\ view'[p].rev <= Len(ledger)]_vars

\* While the session stays open its revision never decreases, and it moves only to a revision
\* whose operation is already durable.
RevisionAdvances ==
    [][status = "live" /\ status' = "live" => rev <= rev' /\ rev' <= Len(ledger)]_vars

\* Every call gets its answer: no path through the pipeline keeps the lock.
EveryCallAnswered == \A p \in Peers : pc[p] = "waiting" ~> pc[p] = "idle"

\* The session implements the promise of OpLog.
Promise == INSTANCE OpLog WITH
    Ops <- OpIds,
    log <- [i \in DOMAIN ledger |-> ledger[i].op],
    acked <- acked,
    view <- view

ImplementsOpLog == Promise!Spec

=============================================================================
