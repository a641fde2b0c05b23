-------------------------- MODULE DocumentSessionProofs --------------------------
(***************************************************************************)
(* Proofs about DocumentSession, for every set of peers and every bound.   *)
(*                                                                         *)
(* First what the states promise.  TypeOK is invariant unconditionally;    *)
(* Recoverable and SessionCurrent hold in the environments in which        *)
(* snapshots of the document do not overlap and unlocked readers see the   *)
(* state and the revision together (Atomicity): without them the run       *)
(* DocumentSession_stale_snapshot shows Recoverable violated.              *)
(*                                                                         *)
(* Then the numbering of the history, which survives what the states do    *)
(* not survive: torn reads, failures, and overlapping snapshots as long as *)
(* the session is not opened again from what those left (NoStaleReopen);   *)
(* and on it what a joiner is given, its reads torn or not.                *)
(*                                                                         *)
(* Last the refinement: under Atomicity the session implements OpLog.      *)
(***************************************************************************)
EXTENDS DocumentSession, TLAPS

\* The environment under which the session keeps its promises.
Atomicity == ~TornReads /\ ~OverlapSnapshots

----------------------------------------------------------------------------
\* The inductive invariant, part by part.

LedgerOps == {ledger[i].op : i \in DOMAIN ledger}

\* The history is numbered without holes and the hot log is a part of it.
LogInv ==
    /\ ContextCorrect
    /\ \A r \in DOMAIN hot : r \in 1..Len(ledger) /\ hot[r] = ledger[r]
    /\ acked \subseteq LedgerOps
    /\ \A i \in DOMAIN published : published[i].rev <= Len(ledger)
    /\ snap.rev = 0 => ledger = <<>>

\* The open session is between the snapshot and the end of the history.
SessionInv ==
    /\ status # "closed" =>
          /\ 1 <= snap.rev
          /\ snap.rev <= rev
          /\ rev <= Len(ledger)
          /\ doc = Prefix(rev)
    /\ status = "live" => acked \subseteq {ledger[i].op : i \in 1..rev}
    /\ status # "live" => \A p \in Peers :
          pc[p] = "idle" /\ leaving[p].pc = "idle" /\ view[p] = NoView

\* What a call knows at each stage of the pipeline.
CallOK(p) ==
    /\ pc[p] \in {"waiting", "rebase"} =>
          req[p].base <= Len(ledger) /\ req[p].seen = req[p].base
    /\ pc[p] = "append" =>
          req[p].next = rev + 1 /\ rev <= req[p].seen /\ req[p].seen <= Len(ledger)
    /\ pc[p] = "assignState" =>
          /\ req[p].next = rev + 1
          /\ req[p].next <= Len(ledger)
          /\ ledger[req[p].next].op = req[p].op
    /\ pc[p] \in {"history", "snapshot", "compact", "publish"} =>
          ledger[rev].op = req[p].op
    /\ pc[p] = "compact" => snap.rev = rev
    /\ pc[p] # "assignRevision"

CallInv == \A p \in Peers : CallOK(p)

\* A snapshot in progress is at least as new as the one it replaces...
LeaveOK(p) ==
    /\ leaving[p].pc # "idle" =>
          /\ leaving[p].rev <= rev
          /\ snap.rev <= leaving[p].rev
          /\ leaving[p].doc = Prefix(leaving[p].rev)
    /\ leaving[p].pc = "compact" => snap.rev = leaving[p].rev
    /\ leaving[p].pc # "readRevision"

\* ... and it is the only one.
Exclusive ==
    \A p, q \in Peers :
        leaving[p].pc # "idle" =>
            /\ pc[q] \notin {"snapshot", "compact"}
            /\ leaving[q].pc # "idle" => p = q

SnapshotInv == (\A p \in Peers : LeaveOK(p)) /\ Exclusive

ViewInv ==
    \A p \in Peers :
        /\ joinDoc[p] = NoView
        /\ view[p] # NoView => view[p].rev <= Len(ledger) /\ view[p].doc = Prefix(view[p].rev)

IInv == TypeOK /\ LogInv /\ Recoverable /\ SessionInv /\ CallInv /\ SnapshotInv /\ ViewInv

----------------------------------------------------------------------------
\* Type correctness.

LEMMA SeqElement == ASSUME NEW S, NEW s \in Seq(S), NEW i \in DOMAIN s PROVE s[i] \in S
OBVIOUS

StoredOpType == [rev : Nat, op : OpIds, seen : Nat]

LEMMA TypeInit == ConstantsAssumption /\ Init => TypeOK
BY DEF ConstantsAssumption, Init, NoSnapshot, NotLeaving, NoRequest, OpIds, Seed, Critical,
       TypeOK, StoreTypeOK, SessionTypeOK, LockTypeOK, RequestTypeOK, ReaderTypeOK,
       HistoryTypeOK, BoundTypeOK

\* What an action leaves alone keeps its type.
LEMMA TypeUnchanged ==
    ASSUME TypeOK
    PROVE  /\ UNCHANGED <<hot, snap>> => StoreTypeOK'
           /\ UNCHANGED <<status, doc, rev, active>> => SessionTypeOK'
           /\ UNCHANGED <<lock, pc>> => LockTypeOK'
           /\ UNCHANGED req => RequestTypeOK'
           /\ UNCHANGED <<joinDoc, leaving, view>> => ReaderTypeOK'
           /\ UNCHANGED <<ledger, acked, published>> => HistoryTypeOK'
           /\ UNCHANGED <<minted, joins, crashes>> => BoundTypeOK'
<1>1. UNCHANGED <<hot, snap>> => StoreTypeOK'
  BY DEF TypeOK, StoreTypeOK, OpIds
<1>2. UNCHANGED <<status, doc, rev, active>> => SessionTypeOK'
  BY DEF TypeOK, SessionTypeOK, OpIds
<1>3. UNCHANGED <<lock, pc>> => LockTypeOK'
  BY DEF TypeOK, LockTypeOK, Critical
<1>4. UNCHANGED req => RequestTypeOK'
  BY DEF TypeOK, RequestTypeOK, OpIds
<1>5. UNCHANGED <<joinDoc, leaving, view>> => ReaderTypeOK'
  BY DEF TypeOK, ReaderTypeOK, OpIds
<1>6. UNCHANGED <<ledger, acked, published>> => HistoryTypeOK'
  BY DEF TypeOK, HistoryTypeOK, OpIds
<1>7. UNCHANGED <<minted, joins, crashes>> => BoundTypeOK'
  BY DEF TypeOK, BoundTypeOK
<1> QED
  BY <1>1, <1>2, <1>3, <1>4, <1>5, <1>6, <1>7

\* Moving one caller from stage to stage of the pipeline.
LEMMA LockKept ==
    ASSUME ConstantsAssumption, LockTypeOK, NEW p \in Peers, NEW s,
           pc' = [pc EXCEPT ![p] = s],
           \/ s \in Critical /\ pc[p] \in Critical /\ lock' = lock
           \/ s \in {"idle", "waiting"} /\ pc[p] \notin Critical /\ lock' = lock
           \/ s \in Critical /\ lock = Free /\ lock' = p
           \/ s = "idle" /\ pc[p] \in Critical /\ lock' = Free
    PROVE  LockTypeOK'
BY DEF ConstantsAssumption, LockTypeOK, Critical

LEMMA FinishType ==
    ASSUME ConstantsAssumption, TypeOK, NEW p \in Peers, pc[p] \in Critical, Finish(p)
    PROVE  LockTypeOK' /\ RequestTypeOK'
<1>1. LockTypeOK'
  BY LockKept DEF Finish, TypeOK
<1>2. NoRequest \in [op : OpIds, base : Nat, seen : Nat, next : Nat]
  BY DEF NoRequest, OpIds, Seed, ConstantsAssumption
<1>3. RequestTypeOK'
  BY <1>2 DEF Finish, TypeOK, RequestTypeOK, OpIds
<1> QED
  BY <1>1, <1>3

\* Storing one more operation, and dropping some.
LEMMA StoreType ==
    ASSUME TypeOK
    PROVE  /\ \A e \in StoredOpType : hot' = WithOp(hot, e) /\ snap' = snap => StoreTypeOK'
           /\ \A n \in Nat : hot' = Compacted(hot, n) /\ snap' = snap => StoreTypeOK'
           /\ \A n \in Nat, d \in Seq(OpIds) :
                 snap' = [rev |-> n, doc |-> d] /\ hot' = hot => StoreTypeOK'
<1>1. \A e \in StoredOpType : hot' = WithOp(hot, e) /\ snap' = snap => StoreTypeOK'
  BY DEF TypeOK, StoreTypeOK, WithOp, StoredOpType, OpIds
<1>2. \A n \in Nat : hot' = Compacted(hot, n) /\ snap' = snap => StoreTypeOK'
  BY DEF TypeOK, StoreTypeOK, Compacted, OpIds
<1>3. \A n \in Nat, d \in Seq(OpIds) :
                 snap' = [rev |-> n, doc |-> d] /\ hot' = hot => StoreTypeOK'
  BY DEF TypeOK, StoreTypeOK, OpIds
<1> QED
  BY <1>1, <1>2, <1>3

LEMMA StoredType ==
    ASSUME ConstantsAssumption, TypeOK, NEW p \in Peers, Stored(p), UNCHANGED snap
    PROVE  /\ StoreTypeOK'
           /\ ledger' \in Seq(StoredOpType)
<1> DEFINE e == StoredOp(req[p].next, req[p].op, req[p].seen)
<1>1. e \in StoredOpType
  BY DEF StoredOp, StoredOpType, TypeOK, RequestTypeOK
<1>2. hot' = WithOp(hot, e) /\ ledger' = Append(ledger, e)
  BY DEF Stored
<1> HIDE DEF e
<1>3. StoreTypeOK'
  BY <1>1, <1>2, StoreType
<1>4. ledger \in Seq(StoredOpType)
  BY DEF TypeOK, HistoryTypeOK, StoredOpType
<1>5. ledger' \in Seq(StoredOpType)
  BY <1>1, <1>2, <1>4
<1> QED
  BY <1>3, <1>5

LEMMA TypeOpen ==
    ASSUME ConstantsAssumption, TypeOK, Open \/ Crash
    PROVE  TypeOK'
<1> USE DEF store, session, calls, readers, history, bounds
<1>1. CASE OpenSeeded
  <2>1. StoreTypeOK' /\ SessionTypeOK'
    BY <1>1 DEF OpenSeeded, TypeOK, StoreTypeOK, SessionTypeOK, OpIds, Seed, ConstantsAssumption
  <2>2. ledger' \in Seq(StoredOpType)
    <3>1. StoredOp(1, Seed, 0) \in StoredOpType
      BY DEF StoredOp, StoredOpType, OpIds, Seed, ConstantsAssumption
    <3> QED
      BY <1>1, <3>1 DEF OpenSeeded, TypeOK, HistoryTypeOK, StoredOpType
  <2>3. HistoryTypeOK'
    BY <1>1, <2>2 DEF OpenSeeded, TypeOK, HistoryTypeOK, StoredOpType, OpIds
  <2> QED
    BY <1>1, <2>1, <2>3, TypeUnchanged DEF OpenSeeded, TypeOK
<1>2. CASE OpenFromSnapshot
  <2>1. SessionTypeOK'
    BY <1>2 DEF OpenFromSnapshot, TypeOK, SessionTypeOK, StoreTypeOK, OpIds
  <2> QED
    BY <1>2, <2>1, TypeUnchanged DEF OpenFromSnapshot, TypeOK
<1>3. CASE Rehydrate
  <2>1. PICK r \in DOMAIN hot : doc' = Append(doc, hot[r].op) /\ rev' = r
    BY <1>3 DEF Rehydrate, Streamed
  <2>2. r \in Nat /\ hot[r].op \in OpIds
    BY DEF TypeOK, StoreTypeOK
  <2>3. SessionTypeOK'
    BY <1>3, <2>1, <2>2 DEF Rehydrate, TypeOK, SessionTypeOK, OpIds
  <2> QED
    BY <1>3, <2>3, TypeUnchanged DEF Rehydrate, TypeOK
<1>4. CASE Opened
  <2>1. SessionTypeOK'
    BY <1>4 DEF Opened, TypeOK, SessionTypeOK, OpIds
  <2> QED
    BY <1>4, <2>1, TypeUnchanged DEF Opened, TypeOK
<1>5. CASE Crash
  <2>1. SessionTypeOK'
    BY <1>5 DEF Crash, SessionTypeOK, OpIds
  <2>2. LockTypeOK'
    BY <1>5 DEF Crash, LockTypeOK, Critical, ConstantsAssumption
  <2>3. NoRequest \in [op : OpIds, base : Nat, seen : Nat, next : Nat]
    BY DEF NoRequest, OpIds, Seed, ConstantsAssumption
  <2>4. RequestTypeOK'
    BY <1>5, <2>3 DEF Crash, RequestTypeOK, OpIds
  <2>5. ReaderTypeOK'
    BY <1>5 DEF Crash, ReaderTypeOK, NotLeaving, OpIds
  <2>6. BoundTypeOK'
    BY <1>5 DEF Crash, TypeOK, BoundTypeOK, ConstantsAssumption
  <2> QED
    BY <1>5, <2>1, <2>2, <2>4, <2>5, <2>6, TypeUnchanged DEF Crash, TypeOK
<1> QED
  BY <1>1, <1>2, <1>3, <1>4, <1>5 DEF Open

LEMMA TypeApply ==
    ASSUME ConstantsAssumption, TypeOK, NEW p \in Peers, Submit(p) \/ Cancelled(p) \/ ApplyOp(p)
    PROVE  TypeOK'
<1> USE DEF store, session, calls, readers, history, bounds
<1>0. CASE Cancelled(p)
  <2>1. LockTypeOK'
    BY <1>0, LockKept DEF Cancelled, TypeOK, Critical
  <2>2. RequestTypeOK'
    <3>1. NoRequest \in [op : OpIds, base : Nat, seen : Nat, next : Nat]
      BY DEF NoRequest, OpIds, Seed, ConstantsAssumption
    <3> QED
      BY <1>0, <3>1 DEF Cancelled, TypeOK, RequestTypeOK, OpIds
  <2> QED
    BY <1>0, <2>1, <2>2, TypeUnchanged DEF Cancelled, TypeOK
<1>1. CASE Submit(p)
  <2>1. \A b \in Known(p) : b \in Nat
    <3>1. view[p].rev \in Nat
      <4>1. view[p] \in [rev : Nat, doc : Seq(OpIds)]
        BY <1>1 DEF Submit, TypeOK, ReaderTypeOK
      <4> QED
        BY <4>1
    <3> QED
      BY <3>1 DEF Known
  <2>2. minted + 1 \in OpIds /\ BoundTypeOK'
    BY <1>1 DEF Submit, TypeOK, BoundTypeOK, OpIds, ConstantsAssumption
  <2>3. RequestTypeOK'
    BY <1>1, <2>1, <2>2 DEF Submit, TypeOK, RequestTypeOK, OpIds
  <2>4. LockTypeOK'
    <3>1. CASE UNCHANGED calls
      BY <1>1, <3>1, TypeUnchanged DEF Submit
    <3>2. CASE pc' = [pc EXCEPT ![p] = "waiting"]
      BY <1>1, <3>2, LockKept DEF Submit, TypeOK, Critical
    <3> QED
      BY <1>1, <3>1, <3>2 DEF Submit
  <2> QED
    BY <1>1, <2>2, <2>3, <2>4, TypeUnchanged DEF Submit, TypeOK
<1>2. CASE Acquire(p)
  <2>1. LockTypeOK'
    BY <1>2, LockKept DEF Acquire, TypeOK, Critical
  <2> QED
    BY <1>2, <2>1, TypeUnchanged DEF Acquire, TypeOK
<1>3. CASE RebaseRefused(p)
  <2>1. LockTypeOK' /\ RequestTypeOK'
    BY <1>3, FinishType DEF RebaseRefused, Fail, Critical
  <2>2. StoreTypeOK' /\ SessionTypeOK' /\ ReaderTypeOK' /\ HistoryTypeOK' /\ BoundTypeOK'
    BY <1>3, TypeUnchanged DEF RebaseRefused, Fail
  <2> QED
    BY <2>1, <2>2 DEF TypeOK
<1>4. CASE RebaseAbsorbed(p)
  <2>1. LockTypeOK' /\ RequestTypeOK'
    BY <1>4, FinishType DEF RebaseAbsorbed, Critical
  <2>2. SessionTypeOK' /\ StoreTypeOK' /\ ReaderTypeOK' /\ HistoryTypeOK' /\ BoundTypeOK'
    BY <1>4, TypeUnchanged DEF RebaseAbsorbed
  <2> QED
    BY <2>1, <2>2 DEF TypeOK
<1>5. CASE Rebased(p)
  <2>1. rev + 1 \in Nat /\ \A s \in Streamed(req[p].base) : s \in Nat
    BY DEF Streamed, TypeOK, StoreTypeOK, SessionTypeOK
  <2>2. RequestTypeOK'
    <3>1. CASE req' = [req EXCEPT ![p].next = rev + 1]
      BY <2>1, <3>1 DEF TypeOK, RequestTypeOK, OpIds
    <3>2. ASSUME NEW s \in Streamed(req[p].base),
                 req' = [req EXCEPT ![p].seen = s, ![p].next = rev + 1]
          PROVE  RequestTypeOK'
      <4>1. s \in Nat
        BY <2>1
      <4> QED
        BY <2>1, <3>2, <4>1 DEF TypeOK, RequestTypeOK, OpIds
    <3> QED
      BY <1>5, <3>1, <3>2 DEF Rebased
  <2>3. LockTypeOK'
    BY <1>5, LockKept DEF Rebased, TypeOK, Critical
  <2> QED
    BY <1>5, <2>2, <2>3, TypeUnchanged DEF Rebased, TypeOK
<1>6. CASE AppendOp(p)
  <2>1. StoreTypeOK' /\ ledger' \in Seq(StoredOpType)
    BY <1>6, StoredType DEF AppendOp
  <2>2. HistoryTypeOK'
    BY <1>6, <2>1 DEF AppendOp, TypeOK, HistoryTypeOK, StoredOpType, OpIds
  <2>3. LockTypeOK'
    BY <1>6, LockKept DEF AppendOp, TypeOK, Critical
  <2> QED
    BY <1>6, <2>1, <2>2, <2>3, TypeUnchanged DEF AppendOp, TypeOK
<1>7. CASE AppendFails(p)
  <2>1. LockTypeOK' /\ RequestTypeOK'
    BY <1>7, FinishType DEF AppendFails, Fail, Critical
  <2>2. StoreTypeOK' /\ ledger' \in Seq(StoredOpType)
    <3>1. CASE UNCHANGED <<hot, ledger>>
      BY <1>7, <3>1, TypeUnchanged DEF AppendFails, TypeOK, HistoryTypeOK, StoredOpType
    <3>2. CASE Stored(p)
      BY <1>7, <3>2, StoredType DEF AppendFails
    <3> QED
      BY <1>7, <3>1, <3>2 DEF AppendFails
  <2>3. HistoryTypeOK'
    BY <1>7, <2>2 DEF AppendFails, Fail, TypeOK, HistoryTypeOK, StoredOpType, OpIds
  <2>4. SessionTypeOK' /\ ReaderTypeOK' /\ BoundTypeOK'
    BY <1>7, TypeUnchanged DEF AppendFails, Fail
  <2> QED
    BY <2>1, <2>2, <2>3, <2>4 DEF TypeOK
<1>8. CASE AssignState(p)
  <2>1. SessionTypeOK'
    BY <1>8 DEF AssignState, TypeOK, SessionTypeOK, RequestTypeOK, OpIds
  <2>2. LockTypeOK'
    BY <1>8, LockKept DEF AssignState, TypeOK, Critical
  <2> QED
    BY <1>8, <2>1, <2>2, TypeUnchanged DEF AssignState, TypeOK
<1>9. CASE AssignRevision(p)
  <2>1. SessionTypeOK'
    BY <1>9 DEF AssignRevision, TypeOK, SessionTypeOK, RequestTypeOK, OpIds
  <2>2. LockTypeOK'
    BY <1>9, LockKept DEF AssignRevision, TypeOK, Critical
  <2> QED
    BY <1>9, <2>1, <2>2, TypeUnchanged DEF AssignRevision, TypeOK
<1>10. CASE RecordHistory(p)
  <2>1. LockTypeOK'
    BY <1>10, LockKept DEF RecordHistory, TypeOK, Critical
  <2> QED
    BY <1>10, <2>1, TypeUnchanged DEF RecordHistory, TypeOK
<1>11. CASE WriteSnapshot(p)
  <2>1. LockTypeOK'
    BY <1>11, LockKept DEF WriteSnapshot, TypeOK, Critical
  <2>2. StoreTypeOK'
    BY <1>11, StoreType DEF WriteSnapshot, TypeOK, SessionTypeOK
  <2> QED
    BY <1>11, <2>1, <2>2, TypeUnchanged DEF WriteSnapshot, TypeOK
<1>12. CASE Compact(p)
  <2>1. LockTypeOK'
    BY <1>12, LockKept DEF Compact, TypeOK, Critical
  <2>2. StoreTypeOK'
    BY <1>12, StoreType DEF Compact, TypeOK, SessionTypeOK
  <2> QED
    BY <1>12, <2>1, <2>2, TypeUnchanged DEF Compact, TypeOK
<1>13. CASE Publish(p)
  <2>1. LockTypeOK' /\ RequestTypeOK'
    BY <1>13, FinishType DEF Publish, Critical
  <2>2. HistoryTypeOK'
    <3>1. [rev |-> rev, op |-> req[p].op] \in [rev : Nat, op : OpIds]
      BY DEF TypeOK, RequestTypeOK, SessionTypeOK
    <3>2. published' \in Seq([rev : Nat, op : OpIds])
      BY <1>13, <3>1 DEF Publish, TypeOK, HistoryTypeOK
    <3>3. acked' \subseteq OpIds
      BY <1>13 DEF Publish, TypeOK, HistoryTypeOK, RequestTypeOK
    <3> QED
      BY <1>13, <3>2, <3>3 DEF Publish, TypeOK, HistoryTypeOK, OpIds
  <2>3. StoreTypeOK' /\ SessionTypeOK' /\ ReaderTypeOK' /\ BoundTypeOK'
    BY <1>13, TypeUnchanged DEF Publish
  <2> QED
    BY <2>1, <2>2, <2>3 DEF TypeOK
<1>14. CASE LateFailure(p)
  <2>1. LockTypeOK' /\ RequestTypeOK'
    BY <1>14, FinishType DEF LateFailure, Fail, Critical
  <2>2. StoreTypeOK'
    <3>1. CASE UNCHANGED store
      BY <3>1, TypeUnchanged
    <3>2. CASE snap' \in {snap, [rev |-> rev, doc |-> doc]} /\ UNCHANGED hot
      BY <3>2, StoreType, TypeUnchanged DEF TypeOK, SessionTypeOK
    <3>3. CASE hot' \in {hot, Compacted(hot, rev)} /\ UNCHANGED snap
      BY <3>3, StoreType, TypeUnchanged DEF TypeOK, SessionTypeOK
    <3> QED
      BY <1>14, <3>1, <3>2, <3>3 DEF LateFailure
  <2>3. HistoryTypeOK'
    <3>1. Append(published, [rev |-> rev, op |-> req[p].op]) \in Seq([rev : Nat, op : OpIds])
      BY DEF TypeOK, HistoryTypeOK, RequestTypeOK, SessionTypeOK
    <3>2. published' \in Seq([rev : Nat, op : OpIds])
      BY <1>14, <3>1 DEF LateFailure, TypeOK, HistoryTypeOK
    <3> QED
      BY <1>14, <3>2 DEF LateFailure, Fail, TypeOK, HistoryTypeOK, OpIds
  <2>4. SessionTypeOK' /\ ReaderTypeOK' /\ BoundTypeOK'
    BY <1>14, TypeUnchanged DEF LateFailure, Fail
  <2> QED
    BY <2>1, <2>2, <2>3, <2>4 DEF TypeOK
<1> QED
  BY <1>0, <1>1, <1>2, <1>3, <1>4, <1>5, <1>6, <1>7, <1>8, <1>9, <1>10, <1>11, <1>12, <1>13, <1>14
     DEF ApplyOp

LEMMA TypeJoinLeave ==
    ASSUME ConstantsAssumption, TypeOK, NEW p \in Peers, JoinStep(p) \/ LeaveStep(p)
    PROVE  TypeOK'
<1> USE DEF store, session, calls, readers, history, bounds
<1>1. CASE JoinAtOnce(p)
  <2>1. ReaderTypeOK'
    BY <1>1 DEF JoinAtOnce, TypeOK, ReaderTypeOK, SessionTypeOK, OpIds
  <2>2. SessionTypeOK'
    BY <1>1 DEF JoinAtOnce, TypeOK, SessionTypeOK, OpIds
  <2>3. BoundTypeOK'
    BY <1>1 DEF JoinAtOnce, TypeOK, BoundTypeOK, ConstantsAssumption
  <2> QED
    BY <1>1, <2>1, <2>2, <2>3, TypeUnchanged DEF JoinAtOnce, TypeOK
<1>2. CASE JoinSerialize(p)
  <2>1. ReaderTypeOK'
    BY <1>2 DEF JoinSerialize, TypeOK, ReaderTypeOK, SessionTypeOK, OpIds
  <2>2. SessionTypeOK'
    BY <1>2 DEF JoinSerialize, TypeOK, SessionTypeOK, OpIds
  <2>3. BoundTypeOK'
    BY <1>2 DEF JoinSerialize, TypeOK, BoundTypeOK, ConstantsAssumption
  <2> QED
    BY <1>2, <2>1, <2>2, <2>3, TypeUnchanged DEF JoinSerialize, TypeOK
<1>3. CASE JoinReadRevision(p)
  <2>1. ReaderTypeOK'
    BY <1>3 DEF JoinReadRevision, TypeOK, ReaderTypeOK, SessionTypeOK, OpIds
  <2> QED
    BY <1>3, <2>1, TypeUnchanged DEF JoinReadRevision, TypeOK
<1>4. CASE Leave(p)
  <2>1. SessionTypeOK'
    BY <1>4 DEF Leave, TypeOK, SessionTypeOK, OpIds
  <2> QED
    BY <1>4, <2>1, TypeUnchanged DEF Leave, TypeOK
<1>5. CASE LeaveAndSnapshot(p)
  <2>1. ReaderTypeOK' /\ SessionTypeOK'
    BY <1>5 DEF LeaveAndSnapshot, TypeOK, ReaderTypeOK, SessionTypeOK, OpIds
  <2> QED
    BY <1>5, <2>1, TypeUnchanged DEF LeaveAndSnapshot, TypeOK
<1>6. CASE LeaveReadRevision(p)
  <2>1. leaving \in [Peers -> [pc : {"idle", "readRevision", "write", "compact"},
                              rev : Nat, doc : Seq(OpIds)]] /\ rev \in Nat
    BY DEF TypeOK, ReaderTypeOK, SessionTypeOK
  <2>2. leaving' \in [Peers -> [pc : {"idle", "readRevision", "write", "compact"},
                               rev : Nat, doc : Seq(OpIds)]]
    <3>1. leaving' = [leaving EXCEPT ![p].pc = "write", ![p].rev = rev]
      BY <1>6 DEF LeaveReadRevision
    <3>. QED  BY <2>1, <3>1
  <2>3. ReaderTypeOK'
    BY <1>6, <2>2 DEF LeaveReadRevision, TypeOK, ReaderTypeOK, OpIds
  <2> QED
    BY <1>6, <2>3, TypeUnchanged DEF LeaveReadRevision, TypeOK
<1>7. CASE LeaveWriteSnapshot(p)
  <2>1. ReaderTypeOK'
    BY <1>7 DEF LeaveWriteSnapshot, TypeOK, ReaderTypeOK, OpIds
  <2>2. StoreTypeOK'
    BY <1>7, StoreType DEF LeaveWriteSnapshot, TypeOK, ReaderTypeOK
  <2> QED
    BY <1>7, <2>1, <2>2, TypeUnchanged DEF LeaveWriteSnapshot, TypeOK
<1>8. CASE LeaveCompact(p)
  <2>1. ReaderTypeOK'
    BY <1>8 DEF LeaveCompact, NotLeaving, TypeOK, ReaderTypeOK, OpIds
  <2>2. StoreTypeOK'
    BY <1>8, StoreType DEF LeaveCompact, TypeOK, ReaderTypeOK
  <2> QED
    BY <1>8, <2>1, <2>2, TypeUnchanged DEF LeaveCompact, TypeOK
<1>9. CASE LeaveFails(p)
  <2>1. ReaderTypeOK'
    BY <1>9 DEF LeaveFails, NotLeaving, TypeOK, ReaderTypeOK, OpIds
  <2> QED
    BY <1>9, <2>1, TypeUnchanged DEF LeaveFails, TypeOK
<1> QED
  BY <1>1, <1>2, <1>3, <1>4, <1>5, <1>6, <1>7, <1>8, <1>9 DEF JoinStep, LeaveStep

LEMMA TypeStep == ConstantsAssumption /\ TypeOK /\ [Next]_vars => TypeOK'
<1> SUFFICES ASSUME ConstantsAssumption, TypeOK, [Next]_vars PROVE TypeOK'
  OBVIOUS
<1>1. CASE UNCHANGED vars
  BY <1>1, TypeUnchanged DEF vars, TypeOK, store, session, calls, readers, history, bounds
<1>2. CASE Next
  BY <1>2, TypeOpen, TypeApply, TypeJoinLeave DEF Next
<1> QED
  BY <1>1, <1>2

\* The variables keep their types and the session lock has one holder, the caller that is
\* inside the pipeline of ApplyOpAsync: for every value of the constants, whatever overlaps.
THEOREM TypeCorrect == Spec => []TypeOK
BY ConstantsAssumption, TypeInit, TypeStep, PTL DEF Spec

----------------------------------------------------------------------------
\* Facts about the history.

LEMMA StateAfterKept ==
    ASSUME NEW S, NEW l \in Seq(S), NEW e, NEW n \in Nat, n <= Len(l)
    PROVE  StateAfter(Append(l, e), n) = StateAfter(l, n)
BY DEF StateAfter

LEMMA StateAfterExtended ==
    ASSUME NEW S, NEW l \in Seq(S), NEW n \in Nat, n < Len(l)
    PROVE  Append(StateAfter(l, n), l[n + 1].op) = StateAfter(l, n + 1)
BY DEF StateAfter

LEMMA StateAfterNothing == ASSUME NEW l PROVE StateAfter(l, 0) = <<>>
BY DEF StateAfter

\* The types the arithmetic below needs.
LEMMA Types ==
    ASSUME TypeOK
    PROVE  /\ rev \in Nat /\ snap.rev \in Nat /\ snap \in [rev : Nat, doc : Seq(OpIds)]
           /\ ledger \in Seq(StoredOpType) /\ Len(ledger) \in Nat
           /\ DOMAIN ledger = 1..Len(ledger)
           /\ \A i \in 1..Len(ledger) : ledger[i] \in StoredOpType
           /\ DOMAIN hot \subseteq Nat
           /\ \A p \in Peers :
                 /\ req[p] \in [op : OpIds, base : Nat, seen : Nat, next : Nat]
                 /\ req[p].next \in Nat /\ req[p].seen \in Nat /\ req[p].base \in Nat
                 /\ leaving[p].rev \in Nat
<1>1. rev \in Nat /\ snap.rev \in Nat /\ DOMAIN hot \subseteq Nat
      /\ snap \in [rev : Nat, doc : Seq(OpIds)]
  BY DEF TypeOK, SessionTypeOK, StoreTypeOK
<1>2. /\ ledger \in Seq(StoredOpType) /\ Len(ledger) \in Nat
      /\ DOMAIN ledger = 1..Len(ledger)
      /\ \A i \in 1..Len(ledger) : ledger[i] \in StoredOpType
  <2>1. ledger \in Seq(StoredOpType)
    BY DEF TypeOK, HistoryTypeOK, StoredOpType
  <2> QED
    BY <2>1
<1>3. ASSUME NEW p \in Peers
      PROVE  /\ req[p] \in [op : OpIds, base : Nat, seen : Nat, next : Nat]
             /\ req[p].next \in Nat /\ req[p].seen \in Nat /\ req[p].base \in Nat
             /\ leaving[p].rev \in Nat
  <2>1. req[p] \in [op : OpIds, base : Nat, seen : Nat, next : Nat]
    BY DEF TypeOK, RequestTypeOK
  <2>2. leaving[p] \in [pc : {"idle", "readRevision", "write", "compact"},
                        rev : Nat, doc : Seq(OpIds)]
    BY DEF TypeOK, ReaderTypeOK
  <2> QED
    BY <2>1, <2>2
<1> QED
  BY <1>1, <1>2, <1>3

----------------------------------------------------------------------------
\* The inductive invariant.

LEMMA InvInit == ConstantsAssumption /\ Init => IInv
<1> SUFFICES ASSUME ConstantsAssumption, Init PROVE IInv
  OBVIOUS
<1>1. TypeOK
  BY TypeInit
<1>2. snap.rev = 0 /\ snap.doc = <<>> /\ ledger = <<>> /\ Len(ledger) = 0 /\ hot = [r \in {} |-> NoRequest]
  BY DEF Init, NoSnapshot
<1>3. LogInv
  BY <1>2 DEF LogInv, ContextCorrect, Init
<1>4. Recoverable
  BY <1>2, StateAfterNothing DEF Recoverable, Prefix
<1>5. SessionInv
  BY DEF SessionInv, Init, NotLeaving
<1>6. CallInv
  BY DEF CallInv, CallOK, Init
<1>7. SnapshotInv
  BY DEF SnapshotInv, LeaveOK, Exclusive, Init, NotLeaving
<1>8. ViewInv
  BY DEF ViewInv, Init
<1> QED
  BY <1>1, <1>3, <1>4, <1>5, <1>6, <1>7, <1>8 DEF IInv

\* What depends only on what an action leaves alone.
LEMMA InvUnchanged ==
    ASSUME IInv
    PROVE  /\ UNCHANGED <<ledger, hot, acked, published, snap>> => LogInv'
           /\ UNCHANGED <<snap, ledger, hot>> => Recoverable'
           /\ UNCHANGED <<status, snap, rev, doc, ledger, acked>> /\ status = "live" => SessionInv'
           /\ UNCHANGED <<pc, req, rev, ledger, snap>> => CallInv'
           /\ UNCHANGED <<leaving, rev, snap, ledger, pc>> => SnapshotInv'
           /\ UNCHANGED <<joinDoc, view, ledger>> => ViewInv'
<1>1. UNCHANGED <<ledger, hot, acked, published, snap>> => LogInv'
  BY DEF IInv, LogInv, ContextCorrect, LedgerOps
<1>2. UNCHANGED <<snap, ledger, hot>> => Recoverable'
  BY DEF IInv, Recoverable, Prefix, StateAfter
<1>3. UNCHANGED <<status, snap, rev, doc, ledger, acked>> /\ status = "live" => SessionInv'
  BY DEF IInv, SessionInv, Prefix, StateAfter
<1>4. UNCHANGED <<pc, req, rev, ledger, snap>> => CallInv'
  BY DEF IInv, CallInv, CallOK
<1>5. UNCHANGED <<leaving, rev, snap, ledger, pc>> => SnapshotInv'
  BY DEF IInv, SnapshotInv, LeaveOK, Exclusive, Prefix, StateAfter
<1>6. UNCHANGED <<joinDoc, view, ledger>> => ViewInv'
  BY DEF IInv, ViewInv, Prefix, StateAfter
<1> QED
  BY <1>1, <1>2, <1>3, <1>4, <1>5, <1>6

\* Only a live session serves calls.
LEMMA BusyIsLive ==
    ASSUME IInv, NEW p \in Peers, pc[p] # "idle" \/ leaving[p].pc # "idle" \/ view[p] # NoView
    PROVE  /\ status = "live" /\ 1 <= snap.rev /\ snap.rev <= rev /\ rev <= Len(ledger)
           /\ doc = Prefix(rev)
BY DEF IInv, SessionInv

\* A caller moves to stage s; nothing the other calls rely on changes.
LEMMA StageMoved ==
    ASSUME IInv, NEW p \in Peers, NEW s,
           pc' = [pc EXCEPT ![p] = s], \A q \in Peers \ {p} : req'[q] = req[q],
           UNCHANGED <<rev, snap, ledger, leaving>>,
           CallOK(p)',
           s \in {"snapshot", "compact"} =>
               pc[p] \in {"snapshot", "compact"} \/ ~SnapshotInProgress
    PROVE  CallInv' /\ SnapshotInv'
<1>1. \A q \in Peers \ {p} : pc'[q] = pc[q]
  BY DEF IInv, TypeOK, LockTypeOK
<1>2. \A q \in Peers \ {p} : CallOK(q)'
  BY <1>1 DEF IInv, CallInv, CallOK
<1>3. CallInv'
  BY <1>2 DEF CallInv
<1>4. pc'[p] = s
  BY DEF IInv, TypeOK, LockTypeOK
<1>5. Exclusive'
  BY <1>1, <1>4 DEF IInv, SnapshotInv, Exclusive, SnapshotInProgress
<1>6. \A q \in Peers : LeaveOK(q)'
  BY DEF IInv, SnapshotInv, LeaveOK, Prefix, StateAfter
<1> QED
  BY <1>3, <1>5, <1>6 DEF SnapshotInv

\* A call returns: the other calls do not notice.
LEMMA Returned ==
    ASSUME IInv, NEW p \in Peers, Finish(p), UNCHANGED <<rev, snap, ledger, leaving>>
    PROVE  CallInv' /\ SnapshotInv'
<1>1. pc' = [pc EXCEPT ![p] = "idle"] /\ pc'[p] = "idle"
  BY DEF Finish, IInv, TypeOK, LockTypeOK
<1>2. \A q \in Peers \ {p} : req'[q] = req[q]
  BY DEF Finish, IInv, TypeOK, RequestTypeOK
<1>3. CallOK(p)'
  BY <1>1 DEF CallOK
<1> QED
  BY <1>1, <1>2, <1>3, StageMoved

\* The append succeeds only when the session is at the end of the history, and then it
\* stores an operation that was transformed past all of it.
LEMMA Extended ==
    ASSUME IInv, NEW p \in Peers, pc[p] = "append", Stored(p),
           UNCHANGED <<snap, acked, published>>
    PROVE  /\ rev = Len(ledger)
           /\ ledger' = Append(ledger, StoredOp(req[p].next, req[p].op, req[p].seen))
           /\ Len(ledger') = rev + 1
           /\ ledger'[rev + 1].op = req[p].op
           /\ \A i \in 1..rev : ledger'[i] = ledger[i]
           /\ \A n \in Nat : n <= rev => StateAfter(ledger', n) = StateAfter(ledger, n)
           /\ LogInv'
           /\ Recoverable'
<1> DEFINE e == StoredOp(req[p].next, req[p].op, req[p].seen)
<1>1. /\ 1 <= snap.rev /\ snap.rev <= rev /\ rev <= Len(ledger)
      /\ req[p].next = rev + 1 /\ rev <= req[p].seen /\ req[p].seen <= Len(ledger)
  BY BusyIsLive DEF IInv, CallInv, CallOK
<1>2. TypeOK /\ Recoverable /\ LogInv
  BY DEF IInv
<1>3. rev = Len(ledger)
  <2>1. rev + 1 \notin DOMAIN hot
    BY <1>1 DEF Stored
  <2> QED
    BY <1>1, <1>2, <2>1, Types DEF Recoverable
<1>4. ledger' = Append(ledger, e) /\ hot' = WithOp(hot, e)
  BY DEF Stored
<1>5. e.rev = rev + 1 /\ e.op = req[p].op /\ e.seen = rev
  BY <1>1, <1>2, <1>3, Types DEF StoredOp
<1> HIDE DEF e
<1>6. /\ Len(ledger') = rev + 1 /\ DOMAIN ledger' = 1..(rev + 1)
      /\ ledger'[rev + 1] = e
      /\ \A i \in 1..rev : ledger'[i] = ledger[i]
  BY <1>2, <1>3, <1>4, Types
<1>7. \A n \in Nat : n <= rev => StateAfter(ledger', n) = StateAfter(ledger, n)
  BY <1>2, <1>3, <1>4, StateAfterKept, Types
<1>8. /\ DOMAIN hot' = DOMAIN hot \cup {rev + 1}
      /\ hot'[rev + 1] = e
      /\ \A r \in DOMAIN hot : r # rev + 1 => hot'[r] = hot[r]
  BY <1>4, <1>5 DEF WithOp
<1>9. LogInv'
  <2>1. ContextCorrect'
    <3>1. \A i \in 1..rev : ledger'[i].rev = i /\ ledger'[i].seen = i - 1
      BY <1>2, <1>3, <1>6, Types DEF LogInv, ContextCorrect
    <3>2. ledger'[rev + 1].rev = rev + 1 /\ ledger'[rev + 1].seen = (rev + 1) - 1
      BY <1>2, <1>5, <1>6, Types
    <3>3. \A i \in 1..(rev + 1) : i \in 1..rev \/ i = rev + 1
      BY <1>2, Types
    <3> QED
      BY <1>6, <3>1, <3>2, <3>3 DEF ContextCorrect
  <2>2. ASSUME NEW r \in DOMAIN hot' PROVE r \in 1..Len(ledger') /\ hot'[r] = ledger'[r]
    <3>1. CASE r = rev + 1
      BY <1>6, <1>8, <3>1, <1>2, Types
    <3>2. CASE r \in DOMAIN hot /\ r # rev + 1
      <4>1. r \in 1..rev /\ hot[r] = ledger[r]
        BY <1>2, <1>3, <3>2 DEF LogInv
      <4> QED
        BY <1>2, <1>6, <1>8, <3>2, <4>1, Types
    <3> QED
      BY <1>8, <3>1, <3>2
  <2>3. acked' \subseteq LedgerOps'
    BY <1>2, <1>3, <1>6, Types DEF LogInv, LedgerOps
  <2>4. \A i \in DOMAIN published' : published'[i].rev <= Len(ledger')
    <3>1. \A i \in DOMAIN published : published[i].rev \in Nat
      <4>1. published \in Seq([rev : Nat, op : OpIds])
        BY <1>2 DEF TypeOK, HistoryTypeOK
      <4>2. \A i \in DOMAIN published : published[i] \in [rev : Nat, op : OpIds]
        BY <4>1, SeqElement
      <4> QED
        BY <4>2
    <3>2. \A i \in DOMAIN published : published[i].rev <= rev
      BY <1>2, <1>3 DEF LogInv
    <3>3. rev \in Nat
      BY <1>2, Types
    <3>4. \A i \in DOMAIN published : published[i].rev <= rev + 1
      BY <3>1, <3>2, <3>3
    <3> QED
      BY <1>6, <3>4
  <2>5. snap'.rev # 0
    BY <1>1, <1>2, Types
  <2> QED
    BY <2>1, <2>2, <2>3, <2>4, <2>5 DEF LogInv
<1>10. Recoverable'
  <2>1. snap'.rev <= Len(ledger') /\ snap'.doc = StateAfter(ledger', snap'.rev)
    BY <1>1, <1>2, <1>6, <1>7, Types DEF Recoverable, Prefix
  <2>2. \A r \in snap'.rev + 1 .. Len(ledger') : r \in DOMAIN hot' /\ hot'[r] = ledger'[r]
    BY <1>1, <1>2, <1>3, <1>6, <1>8, Types DEF Recoverable
  <2> QED
    BY <2>1, <2>2 DEF Recoverable, Prefix
<1> QED
  BY <1>3, <1>4, <1>5, <1>6, <1>7, <1>9, <1>10 DEF e

----------------------------------------------------------------------------
\* Opening the session, and losing it.

\* While nobody is connected only the store and the session matter.
LEMMA Quiet ==
    ASSUME \A p \in Peers : /\ pc'[p] = "idle" /\ leaving'[p].pc = "idle"
                            /\ view'[p] = NoView /\ joinDoc'[p] = NoView
    PROVE  CallInv' /\ SnapshotInv' /\ ViewInv'
<1>1. CallInv'
  BY DEF CallInv, CallOK
<1>2. SnapshotInv'
  BY DEF SnapshotInv, LeaveOK, Exclusive
<1>3. ViewInv'
  BY DEF ViewInv
<1> QED
  BY <1>1, <1>2, <1>3

LEMMA InvOpenSeeded == ConstantsAssumption /\ IInv /\ OpenSeeded => IInv'
<1> SUFFICES ASSUME ConstantsAssumption, IInv, OpenSeeded PROVE IInv'
  OBVIOUS
<1>1. TypeOK'
  BY TypeOpen DEF Open, IInv
<1>2. CallInv' /\ SnapshotInv' /\ ViewInv'
  BY Quiet DEF OpenSeeded, calls, readers, IInv, SessionInv, ViewInv
<1>3. ledger = <<>> /\ DOMAIN ledger = {} /\ Len(ledger) = 0
  BY DEF OpenSeeded, NoSnapshot, IInv, LogInv
<1>4. /\ ledger' = <<StoredOp(1, Seed, 0)>> /\ Len(ledger') = 1 /\ DOMAIN ledger' = {1}
      /\ ledger'[1] = StoredOp(1, Seed, 0)
  BY <1>3 DEF OpenSeeded
<1>5. snap'.rev = 1 /\ snap'.doc = <<Seed>> /\ rev' = 1 /\ doc' = <<Seed>> /\ status' = "opening"
      /\ UNCHANGED <<hot, acked, published>>
  BY DEF OpenSeeded
<1>6. StateAfter(ledger', 1) = <<Seed>>
  BY <1>4 DEF StateAfter, StoredOp
<1>7. LogInv'
  <2>1. ContextCorrect'
    BY <1>4 DEF ContextCorrect, StoredOp
  <2>2. DOMAIN hot = {} /\ acked = {}
    BY <1>3 DEF IInv, LogInv, LedgerOps
  <2>3. \A i \in DOMAIN published' : published'[i].rev <= Len(ledger')
    <3>1. published' \in Seq([rev : Nat, op : OpIds])
      BY <1>1 DEF TypeOK, HistoryTypeOK
    <3>2. \A i \in DOMAIN published' : published'[i] \in [rev : Nat, op : OpIds]
      BY <3>1, SeqElement
    <3>3. \A i \in DOMAIN published' : published'[i].rev <= 0
      BY <1>3, <1>5 DEF IInv, LogInv
    <3> QED
      BY <1>4, <3>2, <3>3
  <2> QED
    BY <1>5, <2>1, <2>2, <2>3 DEF LogInv
<1>8. Recoverable'
  BY <1>4, <1>5, <1>6 DEF Recoverable, Prefix
<1>9. SessionInv'
  BY <1>4, <1>5, <1>6 DEF SessionInv, Prefix, OpenSeeded, calls, readers, IInv
<1> QED
  BY <1>1, <1>2, <1>7, <1>8, <1>9 DEF IInv

LEMMA InvOpenFromStore ==
    ConstantsAssumption /\ IInv /\ (OpenFromSnapshot \/ Rehydrate \/ Opened) => IInv'
<1> SUFFICES ASSUME ConstantsAssumption, IInv, OpenFromSnapshot \/ Rehydrate \/ Opened PROVE IInv'
  OBVIOUS
<1>1. TypeOK' /\ TypeOK
  BY TypeOpen DEF Open, IInv
<1>2. CallInv' /\ SnapshotInv' /\ ViewInv'
  BY Quiet DEF OpenFromSnapshot, Rehydrate, Opened, calls, readers, IInv, SessionInv, ViewInv
<1>3. UNCHANGED <<hot, snap, ledger, acked, published>>
  BY DEF OpenFromSnapshot, Rehydrate, Opened, store, history
<1>4. LogInv' /\ Recoverable'
  BY <1>3, InvUnchanged
<1>5. \A p \in Peers : pc'[p] = "idle" /\ leaving'[p].pc = "idle" /\ view'[p] = NoView
  BY DEF OpenFromSnapshot, Rehydrate, Opened, calls, readers, IInv, SessionInv
<1>6. SessionInv'
  <2>1. CASE OpenFromSnapshot
    <3>1. rev' = snap.rev /\ doc' = snap.doc /\ status' = "opening"
      BY <2>1 DEF OpenFromSnapshot
    <3>2. snap.rev <= Len(ledger) /\ snap.doc = Prefix(snap.rev)
      BY DEF IInv, Recoverable
    <3>3. snap.rev # 0
      <4>1. SUFFICES ASSUME snap.rev = 0 PROVE FALSE
        OBVIOUS
      <4>2. snap.doc = <<>>
        BY <3>2, <4>1, StateAfterNothing DEF Prefix
      <4>3. snap = [rev |-> 0, doc |-> <<>>]
        BY <1>1, <4>1, <4>2, Types
      <4> QED
        BY <2>1, <4>3 DEF OpenFromSnapshot, NoSnapshot
    <3>4. 1 <= snap.rev /\ snap.rev <= snap.rev
      BY <1>1, <3>3, Types
    <3> QED
      BY <1>3, <1>5, <3>1, <3>2, <3>4 DEF SessionInv, Prefix
  <2>2. CASE Rehydrate
    <3>1. /\ 1 <= snap.rev /\ snap.rev <= rev /\ rev <= Len(ledger) /\ doc = StateAfter(ledger, rev)
      BY <2>2 DEF Rehydrate, IInv, SessionInv, Prefix
    <3>2. PICK r \in Streamed(rev) : /\ \A q \in Streamed(rev) : r <= q
                                     /\ doc' = Append(doc, hot[r].op)
                                     /\ rev' = r
      BY <2>2 DEF Rehydrate
    <3>3. r \in DOMAIN hot /\ r > rev /\ r \in 1..Len(ledger) /\ hot[r] = ledger[r]
      BY <3>2 DEF Streamed, IInv, LogInv
    <3>4. rev + 1 \in DOMAIN hot
      BY <1>1, <3>1, <3>3, Types DEF IInv, Recoverable
    <3>5. r = rev + 1
      BY <1>1, <3>2, <3>3, <3>4, Types DEF Streamed
    <3>6. doc' = StateAfter(ledger, rev + 1)
      <4>1. ledger \in Seq(StoredOpType) /\ rev \in Nat /\ rev < Len(ledger)
        BY <1>1, <3>3, <3>5, Types
      <4>2. doc' = Append(StateAfter(ledger, rev), ledger[rev + 1].op)
        BY <3>1, <3>2, <3>3, <3>5
      <4> QED
        BY <4>1, <4>2, StateAfterExtended
    <3>7. rev' = rev + 1 /\ snap.rev <= rev' /\ rev' <= Len(ledger)
      BY <1>1, <3>1, <3>2, <3>3, <3>5, Types
    <3>8. status' = "opening"
      BY <2>2 DEF Rehydrate
    <3> QED
      BY <1>3, <1>5, <3>1, <3>6, <3>7, <3>8 DEF SessionInv, Prefix
  <2>3. CASE Opened
    <3>1. /\ 1 <= snap.rev /\ snap.rev <= rev /\ rev <= Len(ledger) /\ doc = StateAfter(ledger, rev)
      BY <2>3 DEF Opened, IInv, SessionInv, Prefix
    <3>2. rev + 1 \notin DOMAIN hot
      BY <1>1, <2>3, Types DEF Opened, Streamed
    <3>3. rev = Len(ledger)
      BY <1>1, <3>1, <3>2, Types DEF IInv, Recoverable
    <3>4. acked \subseteq {ledger[i].op : i \in 1..rev}
      BY <1>1, <3>3, Types DEF IInv, LogInv, LedgerOps
    <3>5. UNCHANGED <<rev, doc>> /\ status' = "live"
      BY <2>3 DEF Opened
    <3> QED
      BY <1>3, <1>5, <3>1, <3>4, <3>5 DEF SessionInv, Prefix
  <2> QED
    BY <2>1, <2>2, <2>3
<1> QED
  BY <1>1, <1>2, <1>4, <1>6 DEF IInv

LEMMA InvCrash == ConstantsAssumption /\ IInv /\ Crash => IInv'
<1> SUFFICES ASSUME ConstantsAssumption, IInv, Crash PROVE IInv'
  OBVIOUS
<1>1. TypeOK'
  BY TypeOpen DEF IInv
<1>2. \A p \in Peers : /\ pc'[p] = "idle" /\ leaving'[p].pc = "idle"
                       /\ view'[p] = NoView /\ joinDoc'[p] = NoView
  BY DEF Crash, NotLeaving
<1>3. LogInv' /\ Recoverable'
  BY InvUnchanged DEF Crash, store, history
<1>4. SessionInv'
  BY <1>2 DEF Crash, SessionInv
<1> QED
  BY <1>1, <1>2, <1>3, <1>4, Quiet DEF IInv

----------------------------------------------------------------------------
\* What a write to the store does.

\* A snapshot at least as new as the one it replaces loses nothing.
LEMMA SnapshotWritten ==
    ASSUME IInv, NEW n \in Nat, status = "live", snap.rev <= n, n <= rev,
           snap' = [rev |-> n, doc |-> Prefix(n)],
           UNCHANGED <<hot, ledger, acked, published, status, rev, doc>>
    PROVE  LogInv' /\ Recoverable' /\ SessionInv'
<1>1. snap'.rev = n /\ snap'.doc = Prefix(n)
  OBVIOUS
<1>2. /\ rev \in Nat /\ snap.rev \in Nat /\ Len(ledger) \in Nat
      /\ 1 <= snap.rev /\ rev <= Len(ledger) /\ doc = Prefix(rev)
      /\ acked \subseteq {ledger[i].op : i \in 1..rev}
  BY Types DEF IInv, SessionInv
<1>3. n # 0 /\ 1 <= n /\ n <= Len(ledger)
  BY <1>2
<1>4. LogInv'
  BY <1>1, <1>3 DEF IInv, LogInv, ContextCorrect, LedgerOps
<1>5. Recoverable'
  <2>1. \A r \in n + 1 .. Len(ledger) : r \in snap.rev + 1 .. Len(ledger)
    BY <1>2
  <2> QED
    BY <1>1, <1>3, <2>1 DEF IInv, Recoverable, Prefix, StateAfter
<1>6. SessionInv'
  BY <1>1, <1>2, <1>3 DEF SessionInv, Prefix, StateAfter
<1> QED
  BY <1>4, <1>5, <1>6

\* Nor does a compaction up to the snapshot.
LEMMA LogCompacted ==
    ASSUME IInv, NEW n \in Nat, n = snap.rev, hot' = Compacted(hot, n),
           UNCHANGED <<snap, ledger, acked, published>>
    PROVE  LogInv' /\ Recoverable'
<1>1. \A r \in DOMAIN hot : r > n => r \in DOMAIN hot' /\ hot'[r] = hot[r]
  BY DEF Compacted
<1>2. \A r \in DOMAIN hot' : r \in DOMAIN hot /\ hot'[r] = hot[r]
  BY DEF Compacted
<1>3. LogInv'
  BY <1>2 DEF IInv, LogInv, ContextCorrect, LedgerOps
<1>4. Recoverable'
  <2>1. \A r \in n + 1 .. Len(ledger) : r > n
    BY Types DEF IInv
  <2> QED
    BY <1>1, <2>1 DEF IInv, Recoverable, Prefix, StateAfter
<1> QED
  BY <1>3, <1>4

\* A broadcast, with or without the answer to its author, tells of a durable operation.
LEMMA Broadcast ==
    ASSUME IInv, NEW o, NEW n \in Nat, 1 <= n, n <= Len(ledger), ledger[n].op = o,
           published' = Append(published, [rev |-> n, op |-> o]),
           acked' = acked \/ acked' = acked \cup {o},
           UNCHANGED <<ledger, hot, snap>>
    PROVE  LogInv'
<1>1. o \in LedgerOps
  <2>1. n \in DOMAIN ledger
    BY Types DEF IInv
  <2> QED
    BY <2>1 DEF LedgerOps
<1>2. ContextCorrect'
  BY DEF IInv, LogInv, ContextCorrect
<1>3. acked' \subseteq LedgerOps'
  BY <1>1 DEF IInv, LogInv, LedgerOps
<1>4. \A i \in DOMAIN published' : published'[i].rev <= Len(ledger')
  <2> DEFINE S == [rev : Nat, op : OpIds]
  <2> DEFINE b == [rev |-> n, op |-> o]
  <2>1. published \in Seq(S) /\ \A i \in DOMAIN published : published[i].rev <= Len(ledger)
    BY DEF IInv, TypeOK, HistoryTypeOK, LogInv
  <2>2. published' = Append(published, b) /\ b.rev = n
    OBVIOUS
  <2> HIDE DEF S, b
  <2>3. Len(published) \in Nat /\ DOMAIN published = 1..Len(published)
        /\ DOMAIN Append(published, b) = 1..(Len(published) + 1)
    BY <2>1
  <2>4. /\ Append(published, b)[Len(published) + 1] = b
        /\ \A i \in 1..Len(published) : Append(published, b)[i] = published[i]
    BY <2>1
  <2>5. ASSUME NEW i \in DOMAIN published' PROVE published'[i].rev <= Len(ledger)
    <3>1. CASE i = Len(published) + 1
      BY <2>2, <2>4, <3>1
    <3>2. CASE i \in 1..Len(published)
      BY <2>1, <2>2, <2>3, <2>4, <3>2
    <3> QED
      BY <2>2, <2>3, <3>1, <3>2
  <2> QED
    BY <2>5
<1> QED
  BY <1>2, <1>3, <1>4 DEF IInv, LogInv

\* Only the holder of the lock is inside the pipeline.
LEMMA OthersOutside ==
    ASSUME IInv, NEW p \in Peers, pc[p] \in Critical, NEW q \in Peers, q # p
    PROVE  pc[q] \in {"idle", "waiting"}
BY DEF IInv, TypeOK, LockTypeOK

\* An append leaves what the others know true.
LEMMA LedgerGrew ==
    ASSUME IInv, NEW p \in Peers, pc[p] = "append", Stored(p),
           UNCHANGED <<snap, acked, published, status, rev, doc, leaving, joinDoc, view>>,
           \A q \in Peers \ {p} : pc'[q] = pc[q] /\ req'[q] = req[q],
           CallOK(p)', pc'[p] \notin {"snapshot", "compact"}
    PROVE  LogInv' /\ Recoverable' /\ SessionInv' /\ CallInv' /\ SnapshotInv' /\ ViewInv'
<1>1. /\ rev = Len(ledger) /\ Len(ledger') = rev + 1
      /\ \A i \in 1..rev : ledger'[i] = ledger[i]
      /\ \A n \in Nat : n <= rev => StateAfter(ledger', n) = StateAfter(ledger, n)
      /\ LogInv' /\ Recoverable'
  BY Extended
<1>2. rev \in Nat /\ snap.rev \in Nat /\ rev <= rev + 1 /\ TypeOK
  BY Types DEF IInv
<1>3. SessionInv'
  <2>1. status = "live" /\ 1 <= snap.rev /\ snap.rev <= rev /\ doc = Prefix(rev)
    BY BusyIsLive
  <2>2. acked \subseteq {ledger'[i].op : i \in 1..rev}
    BY <1>1, <2>1 DEF IInv, SessionInv
  <2>3. doc = StateAfter(ledger', rev)
    BY <1>1, <1>2, <2>1 DEF Prefix
  <2> QED
    BY <1>1, <1>2, <2>1, <2>2, <2>3 DEF SessionInv, Prefix
<1>4. CallInv'
  <2>1. ASSUME NEW q \in Peers, q # p PROVE CallOK(q)'
    <3>1. pc'[q] \in {"idle", "waiting"} /\ pc'[q] = pc[q] /\ req'[q] = req[q]
      BY <2>1, OthersOutside DEF Critical
    <3>2. pc[q] = "waiting" => req[q].base <= rev + 1 /\ req[q].seen = req[q].base
      BY <1>1, <1>2, Types DEF IInv, CallInv, CallOK
    <3> QED
      BY <1>1, <3>1, <3>2 DEF CallOK
  <2> QED
    BY <2>1 DEF CallInv
<1>5. SnapshotInv'
  <2>1. ASSUME NEW q \in Peers PROVE LeaveOK(q)'
    <3>1. leaving[q].pc # "idle" =>
             leaving[q].rev \in Nat /\ leaving[q].rev <= rev
             /\ leaving[q].doc = StateAfter(ledger, leaving[q].rev)
      BY <1>2, Types DEF IInv, SnapshotInv, LeaveOK, Prefix
    <3> QED
      BY <1>1, <3>1 DEF IInv, SnapshotInv, LeaveOK, Prefix
  <2>2. Exclusive'
    BY DEF IInv, SnapshotInv, Exclusive
  <2> QED
    BY <2>1, <2>2 DEF SnapshotInv
<1>6. ViewInv'
  <2>1. ASSUME NEW q \in Peers, view[q] # NoView
        PROVE  view[q].rev <= rev + 1 /\ view[q].doc = StateAfter(ledger', view[q].rev)
    <3>1. view[q].rev \in Nat
      BY <1>2, <2>1 DEF TypeOK, ReaderTypeOK
    <3>2. view[q].rev <= rev /\ view[q].doc = StateAfter(ledger, view[q].rev)
      BY <1>1, <2>1 DEF IInv, ViewInv, Prefix
    <3> QED
      BY <1>1, <1>2, <3>1, <3>2
  <2> QED
    BY <1>1, <2>1 DEF IInv, ViewInv, Prefix
<1> QED
  BY <1>1, <1>3, <1>4, <1>5, <1>6

----------------------------------------------------------------------------
\* The pipeline of ApplyOpAsync.

LEMMA InvSubmit ==
    ASSUME ConstantsAssumption, IInv, NEW p \in Peers, Submit(p)
    PROVE  IInv'
<1>1. TypeOK' /\ TypeOK
  BY TypeApply DEF IInv
<1>2. /\ UNCHANGED <<hot, snap, status, doc, rev, joinDoc, leaving, view, ledger, acked, published>>
      /\ status = "live"
  BY DEF Submit, store, session, readers, history
<1>3. LogInv' /\ Recoverable' /\ SessionInv' /\ ViewInv'
  BY <1>2, InvUnchanged
<1>4. CallInv' /\ SnapshotInv'
  <2>1. CASE UNCHANGED calls
    BY <1>2, <2>1, InvUnchanged DEF calls
  <2>2. ASSUME NEW b \in Known(p),
               req' = [req EXCEPT ![p] = [op |-> minted + 1, base |-> b, seen |-> b, next |-> 0]],
               pc' = [pc EXCEPT ![p] = "waiting"]
        PROVE  CallInv' /\ SnapshotInv'
    <3>1. b <= Len(ledger)
      BY <1>1, <1>2, Types DEF Known, IInv, SessionInv
    <3>2. pc'[p] = "waiting" /\ req'[p].base = b /\ req'[p].seen = b
      BY <1>1, <2>2 DEF TypeOK, LockTypeOK, RequestTypeOK
    <3>3. CallOK(p)'
      BY <1>2, <3>1, <3>2 DEF CallOK
    <3>4. \A q \in Peers \ {p} : req'[q] = req[q]
      BY <1>1, <2>2 DEF TypeOK, RequestTypeOK
    <3> QED
      BY <1>2, <2>2, <3>3, <3>4, StageMoved
  <2> QED
    BY <2>1, <2>2 DEF Submit
<1> QED
  BY <1>1, <1>3, <1>4 DEF IInv

\* The stages before the append: what changes is only the call itself.
LEMMA InvBeforeAppend ==
    ASSUME ConstantsAssumption, IInv, NEW p \in Peers,
           Cancelled(p) \/ Acquire(p) \/ RebaseRefused(p) \/ RebaseAbsorbed(p) \/ Rebased(p)
    PROVE  IInv'
<1>1. TypeOK' /\ TypeOK
  BY TypeApply DEF IInv, ApplyOp
<1>2. /\ UNCHANGED <<hot, snap, status, doc, rev, joinDoc, leaving, view, ledger, acked, published>>
      /\ pc[p] # "idle"
  BY DEF Cancelled, Acquire, RebaseRefused, Fail, RebaseAbsorbed, Rebased, store, session, readers, history
<1>3. status = "live"
  BY <1>2, BusyIsLive
<1>4. LogInv' /\ Recoverable' /\ SessionInv' /\ ViewInv'
  BY <1>2, <1>3, InvUnchanged
<1>5. CallInv' /\ SnapshotInv'
  <2>1. CASE Acquire(p)
    <3>1. /\ pc' = [pc EXCEPT ![p] = "rebase"] /\ pc'[p] = "rebase"
          /\ pc[p] = "waiting" /\ req' = req
      BY <1>1, <2>1 DEF Acquire, TypeOK, LockTypeOK
    <3>2. CallOK(p)'
      BY <1>2, <3>1 DEF CallOK, IInv, CallInv
    <3> QED
      BY <1>2, <3>1, <3>2, StageMoved
  <2>2. CASE RebaseRefused(p) \/ RebaseAbsorbed(p)
    BY <1>2, <2>2, Returned DEF RebaseRefused, Fail, RebaseAbsorbed
  <2>3. CASE Rebased(p)
    <3>1. /\ pc' = [pc EXCEPT ![p] = "append"] /\ pc'[p] = "append" /\ pc[p] = "rebase"
      BY <1>1, <2>3 DEF Rebased, TypeOK, LockTypeOK
    <3>2. /\ req[p].base \in Nat /\ rev \in Nat /\ Len(ledger) \in Nat
          /\ req[p].base <= Len(ledger) /\ req[p].seen = req[p].base
      BY <1>1, <3>1, Types DEF IInv, CallInv, CallOK
    <3>3. /\ \A q \in Peers \ {p} : req'[q] = req[q]
          /\ req'[p].next = rev + 1 /\ rev <= req'[p].seen /\ req'[p].seen <= Len(ledger)
      <4>1. CASE ~Behind(p) /\ req' = [req EXCEPT ![p].next = rev + 1]
        <5>1. req'[p].next = rev + 1 /\ req'[p].seen = req[p].seen
              /\ \A q \in Peers \ {p} : req'[q] = req[q]
          BY <1>1, <4>1 DEF TypeOK, RequestTypeOK
        <5>2. rev <= req[p].base
          BY <3>2, <4>1 DEF Behind
        <5> QED
          BY <3>2, <5>1, <5>2
      <4>2. ASSUME Behind(p), PathComplete(p), NEW s \in Streamed(req[p].base),
                   \A r \in Streamed(req[p].base) : r <= s,
                   req' = [req EXCEPT ![p].seen = s, ![p].next = rev + 1]
            PROVE  /\ \A q \in Peers \ {p} : req'[q] = req[q]
                   /\ req'[p].next = rev + 1 /\ rev <= req'[p].seen /\ req'[p].seen <= Len(ledger)
        <5>1. req'[p].next = rev + 1 /\ req'[p].seen = s
              /\ \A q \in Peers \ {p} : req'[q] = req[q]
          BY <1>1, <4>2 DEF TypeOK, RequestTypeOK
        <5>2. rev \in Streamed(req[p].base)
          BY <3>2, <4>2 DEF Behind, PathComplete, Streamed
        <5>3. s \in 1..Len(ledger)
          BY DEF Streamed, IInv, LogInv
        <5>4. rev <= s
          BY <4>2, <5>2
        <5> QED
          BY <3>2, <5>1, <5>3, <5>4
      <4> QED
        BY <2>3, <4>1, <4>2 DEF Rebased
    <3>4. CallOK(p)'
      BY <1>2, <3>1, <3>3 DEF CallOK
    <3> QED
      BY <1>2, <3>1, <3>3, <3>4, StageMoved
  <2>4. CASE Cancelled(p)
    <3>1. pc' = [pc EXCEPT ![p] = "idle"] /\ pc'[p] = "idle" /\ \A q \in Peers \ {p} : req'[q] = req[q]
      BY <1>1, <2>4 DEF Cancelled, TypeOK, LockTypeOK, RequestTypeOK
    <3>2. CallOK(p)'
      BY <3>1 DEF CallOK
    <3> QED
      BY <1>2, <3>1, <3>2, StageMoved
  <2> QED
    BY <2>1, <2>2, <2>3, <2>4
<1> QED
  BY <1>1, <1>4, <1>5 DEF IInv

LEMMA InvAppend ==
    ASSUME ConstantsAssumption, IInv, NEW p \in Peers, AppendOp(p) \/ AppendFails(p)
    PROVE  IInv'
<1>1. TypeOK' /\ TypeOK
  BY TypeApply DEF IInv, ApplyOp
<1>2. /\ UNCHANGED <<snap, status, doc, rev, joinDoc, leaving, view, acked, published>>
      /\ pc[p] = "append"
  BY DEF AppendOp, AppendFails, Fail, store, session, readers, history
<1>3. status = "live"
  BY <1>2, BusyIsLive
<1>4. CASE AppendOp(p)
  <2>1. /\ pc'[p] = "assignState" /\ req' = req /\ \A q \in Peers \ {p} : pc'[q] = pc[q]
    BY <1>1, <1>4 DEF AppendOp, TypeOK, LockTypeOK
  <2>2. Stored(p)
    BY <1>4 DEF AppendOp
  <2>3. /\ Len(ledger') = rev + 1 /\ ledger'[rev + 1].op = req[p].op
    BY <1>2, <2>2, Extended
  <2>4. req[p].next = rev + 1 /\ rev + 1 <= rev + 1
    BY <1>1, <1>2, Types DEF IInv, CallInv, CallOK
  <2>5. CallOK(p)'
    BY <1>2, <2>1, <2>3, <2>4 DEF CallOK
  <2> QED
    BY <1>1, <1>2, <2>1, <2>2, <2>5, LedgerGrew DEF IInv
<1>5. CASE AppendFails(p) /\ UNCHANGED <<hot, ledger>>
  BY <1>1, <1>2, <1>3, <1>5, InvUnchanged, Returned DEF AppendFails, Fail, IInv
<1>6. CASE AppendFails(p) /\ Stored(p)
  <2>1. /\ pc'[p] = "idle" /\ \A q \in Peers \ {p} : pc'[q] = pc[q] /\ req'[q] = req[q]
    BY <1>1, <1>6 DEF AppendFails, Fail, Finish, TypeOK, LockTypeOK, RequestTypeOK
  <2>2. CallOK(p)'
    BY <2>1 DEF CallOK
  <2> QED
    BY <1>1, <1>2, <1>6, <2>1, <2>2, LedgerGrew DEF IInv
<1> QED
  BY <1>4, <1>5, <1>6 DEF AppendFails

LEMMA InvAssignState ==
    ASSUME ConstantsAssumption, Atomicity, IInv, NEW p \in Peers, AssignState(p)
    PROVE  IInv'
<1>1. TypeOK' /\ TypeOK
  BY TypeApply DEF IInv, ApplyOp
<1>2. /\ UNCHANGED <<hot, snap, status, joinDoc, leaving, view, ledger, acked, published, req>>
      /\ pc[p] = "assignState" /\ pc' = [pc EXCEPT ![p] = "history"]
      /\ doc' = Append(doc, req[p].op) /\ rev' = req[p].next
  BY DEF AssignState, Atomicity, store, readers, history
<1>3. /\ pc'[p] = "history" /\ \A q \in Peers \ {p} : pc'[q] = pc[q]
  BY <1>1, <1>2 DEF TypeOK, LockTypeOK
<1>4. /\ status = "live" /\ 1 <= snap.rev /\ snap.rev <= rev /\ rev <= Len(ledger)
      /\ doc = StateAfter(ledger, rev) /\ rev \in Nat /\ snap.rev \in Nat /\ Len(ledger) \in Nat
  BY <1>1, <1>2, BusyIsLive, Types DEF Prefix
<1>5. rev' = rev + 1 /\ rev + 1 <= Len(ledger) /\ ledger[rev + 1].op = req[p].op
  BY <1>2 DEF IInv, CallInv, CallOK
<1>6. LogInv' /\ Recoverable' /\ ViewInv'
  BY <1>2, InvUnchanged
<1>7. SessionInv'
  <2>1. doc' = StateAfter(ledger, rev + 1)
    <3>1. ledger \in Seq(StoredOpType) /\ rev < Len(ledger)
      BY <1>1, <1>4, <1>5, Types
    <3>2. doc' = Append(StateAfter(ledger, rev), ledger[rev + 1].op)
      BY <1>2, <1>4, <1>5
    <3> QED
      BY <1>4, <3>1, <3>2, StateAfterExtended
  <2>2. acked \subseteq {ledger[i].op : i \in 1..rev + 1}
    BY <1>4 DEF IInv, SessionInv
  <2> QED
    BY <1>2, <1>4, <1>5, <2>1, <2>2 DEF SessionInv, Prefix
<1>8. CallInv'
  <2>1. ASSUME NEW q \in Peers, q # p PROVE CallOK(q)'
    <3>1. pc'[q] \in {"idle", "waiting"} /\ pc'[q] = pc[q]
      BY <1>2, <1>3, <2>1, OthersOutside DEF Critical
    <3> QED
      BY <1>2, <3>1 DEF CallOK, IInv, CallInv
  <2>2. CallOK(p)'
    BY <1>2, <1>3, <1>5 DEF CallOK
  <2> QED
    BY <2>1, <2>2 DEF CallInv
<1>9. SnapshotInv'
  <2>1. ASSUME NEW q \in Peers PROVE LeaveOK(q)'
    <3>1. leaving[q].rev \in Nat
      BY <1>1, Types
    <3> QED
      BY <1>2, <1>4, <1>5, <3>1 DEF IInv, SnapshotInv, LeaveOK, Prefix, StateAfter
  <2>2. Exclusive'
    BY <1>2, <1>3 DEF IInv, SnapshotInv, Exclusive
  <2> QED
    BY <2>1, <2>2 DEF SnapshotInv
<1> QED
  BY <1>1, <1>6, <1>7, <1>8, <1>9 DEF IInv

LEMMA InvAfterAssign ==
    ASSUME ConstantsAssumption, Atomicity, IInv, NEW p \in Peers,
           RecordHistory(p) \/ WriteSnapshot(p) \/ Compact(p) \/ Publish(p)
    PROVE  IInv'
<1>1. TypeOK' /\ TypeOK
  BY TypeApply DEF IInv, ApplyOp
<1>2. /\ UNCHANGED <<status, doc, rev, joinDoc, leaving, view, ledger>>
      /\ pc[p] \in {"history", "snapshot", "compact", "publish"}
  BY DEF RecordHistory, WriteSnapshot, Compact, Publish, store, session, readers, history
<1>3. /\ status = "live" /\ 1 <= snap.rev /\ snap.rev <= rev /\ rev <= Len(ledger)
      /\ doc = Prefix(rev) /\ rev \in Nat /\ snap.rev \in Nat /\ Len(ledger) \in Nat
  BY <1>1, <1>2, BusyIsLive, Types
<1>4. ledger[rev].op = req[p].op
  BY <1>2 DEF IInv, CallInv, CallOK
<1>5. ViewInv'
  BY <1>2, InvUnchanged
<1>6. CASE RecordHistory(p)
  <2>1. UNCHANGED <<hot, snap, acked, published, req>>
    BY <1>6 DEF RecordHistory, store, history
  <2>2. PICK s \in {"publish", "snapshot"} :
             pc' = [pc EXCEPT ![p] = s] /\ (s = "snapshot" => ~SnapshotInProgress)
    BY <1>6 DEF RecordHistory, MaySnapshot, Atomicity
  <2>3. CallOK(p)'
    BY <1>1, <1>2, <1>4, <2>1, <2>2 DEF CallOK, TypeOK, LockTypeOK
  <2> QED
    BY <1>1, <1>2, <1>3, <1>5, <2>1, <2>2, <2>3, StageMoved, InvUnchanged DEF IInv
<1>7. CASE WriteSnapshot(p)
  <2>1. /\ UNCHANGED <<hot, acked, published, req>> /\ snap' = [rev |-> rev, doc |-> Prefix(rev)]
        /\ pc[p] = "snapshot" /\ pc' = [pc EXCEPT ![p] = "compact"]
    BY <1>3, <1>7 DEF WriteSnapshot, session, history
  <2>2. LogInv' /\ Recoverable' /\ SessionInv'
    BY <1>2, <1>3, <2>1, SnapshotWritten
  <2>3. pc'[p] = "compact" /\ \A q \in Peers \ {p} : pc'[q] = pc[q]
    BY <1>1, <2>1 DEF TypeOK, LockTypeOK
  <2>4. \A q \in Peers \ {p} : pc[q] \in {"idle", "waiting"}
    BY <2>1, OthersOutside DEF Critical
  <2>5. CallInv'
    <3>1. CallOK(p)'
      BY <1>2, <1>4, <2>1, <2>3 DEF CallOK
    <3>2. \A q \in Peers \ {p} : CallOK(q)'
      BY <1>2, <2>1, <2>3, <2>4 DEF CallOK, IInv, CallInv
    <3> QED
      BY <3>1, <3>2 DEF CallInv
  <2>6. SnapshotInv'
    <3>1. \A q \in Peers : leaving[q].pc = "idle"
      BY <2>1 DEF IInv, SnapshotInv, Exclusive
    <3> QED
      BY <1>2, <3>1 DEF SnapshotInv, LeaveOK, Exclusive
  <2> QED
    BY <1>1, <1>5, <2>2, <2>5, <2>6 DEF IInv
<1>8. CASE Compact(p)
  <2>1. /\ UNCHANGED <<snap, acked, published, req>> /\ hot' = Compacted(hot, rev)
        /\ pc[p] = "compact" /\ pc' = [pc EXCEPT ![p] = "publish"] /\ pc'[p] = "publish"
    BY <1>1, <1>8 DEF Compact, session, history, TypeOK, LockTypeOK
  <2>2. rev = snap.rev
    BY <2>1 DEF IInv, CallInv, CallOK
  <2>3. LogInv' /\ Recoverable'
    BY <1>2, <1>3, <2>1, <2>2, LogCompacted
  <2>4. CallOK(p)'
    BY <1>2, <1>4, <2>1 DEF CallOK
  <2> QED
    BY <1>1, <1>2, <1>3, <1>5, <2>1, <2>3, <2>4, StageMoved, InvUnchanged DEF IInv
<1>9. CASE Publish(p)
  <2>1. /\ UNCHANGED <<hot, snap>> /\ Finish(p) /\ acked' = acked \cup {req[p].op}
        /\ published' = Append(published, [rev |-> rev, op |-> req[p].op])
    BY <1>9 DEF Publish, store
  <2>2. LogInv' /\ Recoverable'
    BY <1>1, <1>2, <1>3, <1>4, <2>1, Broadcast, InvUnchanged
  <2>3. SessionInv'
    <3>1. req[p].op \in {ledger[i].op : i \in 1..rev}
      BY <1>3, <1>4
    <3> QED
      BY <1>2, <1>3, <2>1, <3>1 DEF IInv, SessionInv, Prefix, StateAfter
  <2> QED
    BY <1>1, <1>2, <1>5, <2>1, <2>2, <2>3, Returned DEF IInv
<1> QED
  BY <1>6, <1>7, <1>8, <1>9

LEMMA InvLateFailure ==
    ASSUME ConstantsAssumption, IInv, NEW p \in Peers, LateFailure(p)
    PROVE  IInv'
<1>1. TypeOK' /\ TypeOK
  BY TypeApply DEF IInv, ApplyOp
<1>2. /\ UNCHANGED <<status, doc, rev, joinDoc, leaving, view, ledger, acked>>
      /\ Finish(p) /\ pc[p] \in {"history", "snapshot", "compact", "publish"}
  BY DEF LateFailure, Fail, readers
<1>3. /\ status = "live" /\ 1 <= snap.rev /\ snap.rev <= rev /\ rev <= Len(ledger)
      /\ doc = Prefix(rev) /\ rev \in Nat /\ snap.rev \in Nat /\ Len(ledger) \in Nat
  BY <1>1, <1>2, BusyIsLive, Types
<1>4. ledger[rev].op = req[p].op
  BY <1>2 DEF IInv, CallInv, CallOK
<1>5. ViewInv'
  BY <1>2, InvUnchanged
<1>6. CASE UNCHANGED <<hot, snap, published>>
  BY <1>1, <1>2, <1>3, <1>5, <1>6, InvUnchanged, Returned DEF IInv
<1>7. CASE /\ pc[p] = "snapshot" /\ snap' = [rev |-> rev, doc |-> doc]
           /\ UNCHANGED <<hot, published>>
  <2>1. LogInv' /\ Recoverable' /\ SessionInv'
    BY <1>2, <1>3, <1>7, SnapshotWritten
  <2>2. /\ pc'[p] = "idle" /\ \A q \in Peers \ {p} : pc'[q] = pc[q] /\ req'[q] = req[q]
    BY <1>1, <1>2 DEF Finish, TypeOK, LockTypeOK, RequestTypeOK
  <2>3. \A q \in Peers \ {p} : pc[q] \in {"idle", "waiting"}
    BY <1>7, OthersOutside DEF Critical
  <2>4. CallInv'
    <3>1. CallOK(p)'
      BY <2>2 DEF CallOK
    <3>2. \A q \in Peers \ {p} : CallOK(q)'
      BY <1>2, <2>2, <2>3 DEF CallOK, IInv, CallInv
    <3> QED
      BY <3>1, <3>2 DEF CallInv
  <2>5. SnapshotInv'
    <3>1. \A q \in Peers : leaving[q].pc = "idle"
      BY <1>7 DEF IInv, SnapshotInv, Exclusive
    <3> QED
      BY <1>2, <3>1 DEF SnapshotInv, LeaveOK, Exclusive
  <2> QED
    BY <1>1, <1>5, <2>1, <2>4, <2>5 DEF IInv
<1>8. CASE /\ pc[p] = "compact" /\ hot' = Compacted(hot, rev)
           /\ UNCHANGED <<snap, published>>
  <2>1. rev = snap.rev
    BY <1>8 DEF IInv, CallInv, CallOK
  <2>2. LogInv' /\ Recoverable'
    BY <1>2, <1>3, <1>8, <2>1, LogCompacted
  <2> QED
    BY <1>1, <1>2, <1>3, <1>5, <1>8, <2>2, InvUnchanged, Returned DEF IInv
<1>9. CASE /\ published' = Append(published, [rev |-> rev, op |-> req[p].op])
           /\ UNCHANGED <<hot, snap>>
  <2>1. LogInv' /\ Recoverable'
    BY <1>1, <1>2, <1>3, <1>4, <1>9, Broadcast, InvUnchanged
  <2> QED
    BY <1>1, <1>2, <1>3, <1>5, <1>9, <2>1, InvUnchanged, Returned DEF IInv
<1> QED
  BY <1>6, <1>7, <1>8, <1>9 DEF LateFailure, store

----------------------------------------------------------------------------
\* Joining and leaving.

LEMMA InvJoin ==
    ASSUME ConstantsAssumption, Atomicity, IInv, NEW p \in Peers, JoinStep(p)
    PROVE  IInv'
<1>1. TypeOK' /\ TypeOK
  BY TypeJoinLeave DEF IInv
<1>2. JoinAtOnce(p)
  BY DEF JoinStep, JoinSerialize, JoinReadRevision, Atomicity, IInv, ViewInv
<1>3. /\ UNCHANGED <<hot, snap, status, doc, rev, pc, req, joinDoc, leaving, ledger, acked, published>>
      /\ status = "live" /\ view' = [view EXCEPT ![p] = [rev |-> rev, doc |-> doc]]
  BY <1>2 DEF JoinAtOnce, store, calls, history
<1>4. LogInv' /\ Recoverable' /\ SessionInv' /\ CallInv' /\ SnapshotInv'
  <2>1. LogInv' /\ Recoverable' /\ CallInv' /\ SnapshotInv'
    BY <1>3, InvUnchanged
  <2>2. SessionInv'
    BY <1>3 DEF IInv, SessionInv, Prefix, StateAfter
  <2> QED
    BY <2>1, <2>2
<1>5. ViewInv'
  <2>1. rev <= Len(ledger) /\ doc = Prefix(rev)
    BY <1>3 DEF IInv, SessionInv
  <2>2. view'[p] = [rev |-> rev, doc |-> doc] /\ \A q \in Peers \ {p} : view'[q] = view[q]
    BY <1>1, <1>3 DEF TypeOK, ReaderTypeOK
  <2> QED
    BY <1>3, <2>1, <2>2 DEF IInv, ViewInv, Prefix
<1> QED
  BY <1>1, <1>4, <1>5 DEF IInv

LEMMA InvLeave ==
    ASSUME ConstantsAssumption, Atomicity, IInv, NEW p \in Peers, LeaveStep(p)
    PROVE  IInv'
<1>1. TypeOK' /\ TypeOK
  BY TypeJoinLeave DEF IInv
<1>2. UNCHANGED <<status, doc, rev, pc, req, joinDoc, view, ledger, acked, published>>
  BY DEF LeaveStep, Leave, LeaveAndSnapshot, LeaveReadRevision, LeaveWriteSnapshot, LeaveCompact,
         LeaveFails, session, calls, readers, history
<1>3. ViewInv'
  BY <1>2, InvUnchanged
<1>4. status = "live"
  BY BusyIsLive DEF LeaveStep, Leave, LeaveAndSnapshot, LeaveReadRevision, LeaveWriteSnapshot,
                    LeaveCompact, LeaveFails
<1>5. /\ 1 <= snap.rev /\ snap.rev <= rev /\ rev <= Len(ledger) /\ doc = Prefix(rev)
      /\ rev \in Nat /\ snap.rev \in Nat /\ leaving[p].rev \in Nat
  BY <1>1, <1>4, Types DEF IInv, SessionInv
<1>6. /\ LeaveOK(p) /\ Exclusive
      /\ \A q \in Peers \ {p} : leaving[p].pc # "idle" => leaving[q].pc = "idle"
      /\ \A q \in Peers : leaving[p].pc # "idle" => pc[q] \notin {"snapshot", "compact"}
  BY DEF IInv, SnapshotInv, Exclusive
<1>7. CASE Leave(p)
  BY <1>1, <1>2, <1>3, <1>4, <1>7, InvUnchanged DEF Leave, store, readers, IInv
<1>8. CASE LeaveAndSnapshot(p)
  <2>1. /\ UNCHANGED <<hot, snap>> /\ ~SnapshotInProgress
        /\ leaving'[p] = [pc |-> "write", rev |-> rev, doc |-> doc]
        /\ \A q \in Peers \ {p} : leaving'[q] = leaving[q]
    BY <1>1, <1>8 DEF LeaveAndSnapshot, MaySnapshot, Atomicity, store, TypeOK, ReaderTypeOK
  <2>2. \A q \in Peers : leaving[q].pc = "idle" /\ pc[q] \notin {"snapshot", "compact"}
    BY <2>1 DEF SnapshotInProgress
  <2>3. SnapshotInv'
    BY <1>2, <1>5, <2>1, <2>2 DEF SnapshotInv, LeaveOK, Exclusive, Prefix
  <2>4. SessionInv'
    BY <1>2, <1>4, <2>1 DEF IInv, SessionInv, Prefix, StateAfter
  <2> QED
    BY <1>1, <1>2, <1>3, <2>1, <2>3, <2>4, InvUnchanged DEF IInv
<1>9. CASE LeaveReadRevision(p)
  BY <1>6, <1>9 DEF LeaveReadRevision, LeaveOK
<1>10. CASE LeaveWriteSnapshot(p)
  <2>1. /\ leaving[p].pc = "write" /\ snap' = [rev |-> leaving[p].rev, doc |-> leaving[p].doc]
        /\ leaving' = [leaving EXCEPT ![p].pc = "compact"] /\ UNCHANGED hot
    BY <1>10 DEF LeaveWriteSnapshot
  <2>2. /\ leaving[p].rev <= rev /\ snap.rev <= leaving[p].rev /\ leaving[p].doc = Prefix(leaving[p].rev)
    BY <1>6, <2>1 DEF LeaveOK
  <2>3. LogInv' /\ Recoverable' /\ SessionInv'
    BY <1>2, <1>4, <1>5, <2>1, <2>2, SnapshotWritten
  <2>4. CallInv'
    BY <1>2, <1>6, <2>1 DEF IInv, CallInv, CallOK
  <2>5. /\ leaving'[p].pc = "compact" /\ leaving'[p].rev = leaving[p].rev /\ leaving'[p].doc = leaving[p].doc
        /\ \A q \in Peers \ {p} : leaving'[q] = leaving[q] /\ leaving[q].pc = "idle"
    BY <1>1, <1>6, <2>1 DEF TypeOK, ReaderTypeOK
  <2>6. snap'.rev = leaving[p].rev /\ leaving[p].rev <= leaving[p].rev
    BY <1>5, <2>1
  <2>7. SnapshotInv'
    BY <1>2, <1>6, <2>1, <2>2, <2>5, <2>6 DEF SnapshotInv, LeaveOK, Exclusive, Prefix
  <2> QED
    BY <1>1, <1>3, <2>3, <2>4, <2>7 DEF IInv
<1>11. CASE LeaveCompact(p) \/ LeaveFails(p)
  <2>1. /\ leaving[p].pc # "idle" /\ leaving' = [leaving EXCEPT ![p] = NotLeaving] /\ UNCHANGED snap
    BY <1>11 DEF LeaveCompact, LeaveFails, store
  <2>2. \A q \in Peers : leaving'[q].pc = "idle"
    BY <1>1, <1>6, <2>1 DEF TypeOK, ReaderTypeOK, NotLeaving
  <2>3. SnapshotInv'
    BY <2>2 DEF SnapshotInv, LeaveOK, Exclusive
  <2>4. LogInv' /\ Recoverable'
    <3>1. CASE LeaveCompact(p)
      <4>1. hot' = Compacted(hot, leaving[p].rev) /\ leaving[p].rev = snap.rev
        BY <1>6, <3>1 DEF LeaveCompact, LeaveOK
      <4> QED
        BY <1>2, <1>5, <2>1, <4>1, LogCompacted
    <3>2. CASE LeaveFails(p)
      BY <1>2, <3>2, InvUnchanged DEF LeaveFails, store
    <3> QED
      BY <1>11, <3>1, <3>2
  <2>5. SessionInv' /\ CallInv'
    BY <1>2, <1>4, <2>1, InvUnchanged
  <2> QED
    BY <1>1, <1>3, <2>3, <2>4, <2>5 DEF IInv
<1> QED
  BY <1>7, <1>8, <1>9, <1>10, <1>11 DEF LeaveStep

----------------------------------------------------------------------------
\* The theorems.

LEMMA InvStep == ConstantsAssumption /\ Atomicity /\ IInv /\ [Next]_vars => IInv'
<1> SUFFICES ASSUME ConstantsAssumption, Atomicity, IInv, [Next]_vars PROVE IInv'
  OBVIOUS
<1>1. CASE UNCHANGED vars
  <2>1. TypeOK'
    BY <1>1, TypeStep DEF IInv
  <2>2. SessionInv'
    BY <1>1 DEF vars, store, session, calls, readers, history, IInv, SessionInv, Prefix, StateAfter
  <2> QED
    BY <1>1, <2>1, <2>2, InvUnchanged
       DEF vars, store, session, calls, readers, history, IInv
<1>2. CASE Open
  BY <1>2, InvOpenSeeded, InvOpenFromStore DEF Open
<1>3. CASE Crash
  BY <1>3, InvCrash
<1>4. ASSUME NEW p \in Peers, Submit(p) \/ Cancelled(p) \/ ApplyOp(p) \/ JoinStep(p) \/ LeaveStep(p)
      PROVE  IInv'
  <2>1. CASE Submit(p)
    BY <2>1, InvSubmit
  <2>2. CASE Cancelled(p) \/ ApplyOp(p)
    <3>1. ~AssignRevision(p)
      BY DEF AssignRevision, IInv, CallInv, CallOK
    <3> QED
      BY <2>2, <3>1, InvBeforeAppend, InvAppend, InvAssignState, InvAfterAssign, InvLateFailure
         DEF ApplyOp
  <2> QED
    BY <1>4, <2>1, <2>2, InvJoin, InvLeave
<1> QED
  BY <1>1, <1>2, <1>3, <1>4 DEF Next

LEMMA InvAlways == Atomicity /\ Spec => []IInv
<1>1. ASSUME Atomicity PROVE Spec => []IInv
  <2>1. Init => IInv
    BY ConstantsAssumption, InvInit
  <2>2. IInv /\ [Next]_vars => IInv'
    BY <1>1, ConstantsAssumption, InvStep
  <2> QED
    BY <2>1, <2>2, PTL DEF Spec
<1> QED
  BY <1>1

\* The snapshot and the hot log together always hold the whole history: whenever the node
\* crashes, GetOrOpenAsync restores every durable operation.
THEOREM NothingLost == Atomicity /\ Spec => []Recoverable
<1>1. IInv => Recoverable
  BY DEF IInv
<1> QED
  BY <1>1, InvAlways, PTL

\* A live session, also one rebuilt after a crash, is in the state its revision names and
\* holds every operation that was acknowledged.
THEOREM AcknowledgedKept == Atomicity /\ Spec => []SessionCurrent
<1>1. IInv => SessionCurrent
  BY DEF IInv, SessionInv, SessionCurrent
<1> QED
  BY <1>1, InvAlways, PTL

----------------------------------------------------------------------------
\* The numbering of the history.

\* A stale snapshot moves the log's beginning past the snapshot; the revisions are then
\* numbered wrongly only when somebody opens the session from it.
NoStaleReopen == OverlapSnapshots => MaxCrashes = 0

----------------------------------------------------------------------------
\* The inductive invariant of the numbering.

\* The log still has every revision after n.
Covered(n) == \A r \in n + 1 .. Len(ledger) : r \in DOMAIN hot

NumberInv ==
    /\ ContextCorrect
    /\ HotIsSuffix
    /\ snap.rev <= Len(ledger)
    /\ snap.rev = 0 => snap = NoSnapshot /\ ledger = <<>>
    /\ (OverlapSnapshots => status = "closed") => Covered(snap.rev)

\* A session is open at a revision from which the log leads to the end of the history.
OpenInv ==
    /\ status # "closed" => 1 <= rev /\ rev <= Len(ledger) /\ Covered(rev)
    /\ status # "live" => \A p \in Peers :
          /\ pc[p] = "idle" /\ leaving[p].pc = "idle"
          /\ view[p] = NoView /\ joinDoc[p] = NoView

\* The stages at which the operation is the one the session's revision names.
Assigned == {"history", "snapshot", "compact", "publish"}

StageOK(p) ==
    /\ pc[p] \in {"waiting", "rebase"} =>
          req[p].base <= Len(ledger) /\ req[p].seen = req[p].base
    /\ pc[p] = "append" =>
          req[p].next = rev + 1 /\ rev <= req[p].seen /\ req[p].seen <= Len(ledger)
    /\ pc[p] \in {"assignState", "assignRevision"} =>
          /\ req[p].next = rev + 1
          /\ rev + 1 <= Len(ledger)
          /\ ledger[rev + 1].op = req[p].op
    /\ pc[p] \in Assigned => ledger[rev].op = req[p].op

StageInv == \A p \in Peers : StageOK(p)

\* Snapshots are taken at revisions the session has reached; when they do not overlap, none
\* is older than the one it replaces, and what is compacted is what it covers.
CutInv ==
    /\ \A p \in Peers : leaving[p].pc # "idle" => 1 <= leaving[p].rev /\ leaving[p].rev <= rev
    /\ ~OverlapSnapshots =>
          /\ Exclusive
          /\ status # "closed" => snap.rev <= rev
          /\ \A p \in Peers :
                /\ leaving[p].pc # "idle" => snap.rev <= leaving[p].rev
                /\ leaving[p].pc = "compact" => snap.rev = leaving[p].rev
                /\ pc[p] = "compact" => snap.rev = rev

\* Nothing newer than the session's revision was broadcast, nor that revision while the
\* call that made it is still under way.
ToldInv ==
    /\ BroadcastInOrder
    /\ status = "live" => \A i \in DOMAIN published : published[i].rev <= rev
    /\ \A p \in Peers : pc[p] \in Assigned =>
          \A i \in DOMAIN published : published[i].rev < rev

NInv == TypeOK /\ NumberInv /\ OpenInv /\ StageInv /\ CutInv /\ ToldInv

----------------------------------------------------------------------------
\* Each operation becomes durable at most once.

Unstored == {"waiting", "rebase", "append"}

Fresh ==
    /\ \A i \in DOMAIN ledger : ledger[i].op <= minted
    /\ \A i, j \in DOMAIN ledger : ledger[i].op = ledger[j].op => i = j
    /\ \A p \in Peers : pc[p] \in Unstored =>
          /\ 1 <= req[p].op /\ req[p].op <= minted
          /\ \A i \in DOMAIN ledger : ledger[i].op # req[p].op
          /\ \A q \in Peers : pc[q] \in Unstored /\ req[q].op = req[p].op => p = q

----------------------------------------------------------------------------
\* The numbering, step by step.

LEMMA NumberInit == ConstantsAssumption /\ Init => NInv /\ Fresh
<1> SUFFICES ASSUME ConstantsAssumption, Init PROVE NInv /\ Fresh
  OBVIOUS
<1>1. TypeOK
  BY TypeInit
<1>2. /\ snap = NoSnapshot /\ snap.rev = 0 /\ ledger = <<>> /\ Len(ledger) = 0 /\ DOMAIN ledger = {}
      /\ DOMAIN hot = {} /\ published = <<>> /\ DOMAIN published = {}
  BY DEF Init, NoSnapshot
<1>3. /\ status = "closed"
      /\ \A p \in Peers : /\ pc[p] = "idle" /\ leaving[p].pc = "idle"
                          /\ view[p] = NoView /\ joinDoc[p] = NoView
  BY DEF Init, NotLeaving
<1>4. NumberInv
  BY <1>2 DEF NumberInv, ContextCorrect, HotIsSuffix, Covered
<1>5. OpenInv /\ StageInv /\ CutInv
  BY <1>3 DEF OpenInv, StageInv, StageOK, CutInv, Exclusive, Assigned
<1>6. ToldInv
  BY <1>2 DEF ToldInv, BroadcastInOrder
<1>7. Fresh
  BY <1>2, <1>3 DEF Fresh, Unstored
<1> QED
  BY <1>1, <1>4, <1>5, <1>6, <1>7 DEF NInv

\* What depends only on what an action leaves alone.
LEMMA NumberUnchanged ==
    ASSUME NInv
    PROVE  /\ UNCHANGED <<ledger, hot, snap, status>> => NumberInv'
           /\ UNCHANGED <<ledger, hot, status, rev>> /\ status = "live" => OpenInv'
           /\ UNCHANGED <<pc, req, rev, ledger>> => StageInv'
           /\ UNCHANGED <<pc, leaving, rev, snap, status>> => CutInv'
           /\ UNCHANGED <<pc, published, ledger, rev, status>> => ToldInv'
<1>1. UNCHANGED <<ledger, hot, snap, status>> => NumberInv'
  BY DEF NInv, NumberInv, ContextCorrect, HotIsSuffix, Covered
<1>2. UNCHANGED <<ledger, hot, status, rev>> /\ status = "live" => OpenInv'
  BY DEF NInv, OpenInv, Covered
<1>3. UNCHANGED <<pc, req, rev, ledger>> => StageInv'
  BY DEF NInv, StageInv, StageOK
<1>4. UNCHANGED <<pc, leaving, rev, snap, status>> => CutInv'
  BY DEF NInv, CutInv, Exclusive
<1>5. UNCHANGED <<pc, published, ledger, rev, status>> => ToldInv'
  BY DEF NInv, ToldInv, BroadcastInOrder
<1> QED
  BY <1>1, <1>2, <1>3, <1>4, <1>5

\* Only a live session serves calls.
LEMMA CalledIsLive ==
    ASSUME NInv, NEW p \in Peers,
           \/ status = "live"
           \/ pc[p] # "idle" \/ leaving[p].pc # "idle"
           \/ view[p] # NoView \/ joinDoc[p] # NoView
    PROVE  /\ status = "live" /\ 1 <= rev /\ rev <= Len(ledger) /\ Covered(rev)
           /\ rev \in Nat /\ snap.rev \in Nat /\ Len(ledger) \in Nat
BY Types DEF NInv, OpenInv

LEMMA OneInside ==
    ASSUME TypeOK, NEW p \in Peers, pc[p] \in Critical, NEW q \in Peers, q # p
    PROVE  pc[q] \in {"idle", "waiting"}
BY DEF TypeOK, LockTypeOK

\* The types of what was broadcast.
LEMMA PublishedTypes ==
    ASSUME TypeOK
    PROVE  /\ published \in Seq([rev : Nat, op : OpIds]) /\ Len(published) \in Nat
           /\ DOMAIN published = 1..Len(published)
           /\ \A i \in DOMAIN published : published[i].rev \in Nat
<1>1. published \in Seq([rev : Nat, op : OpIds])
  BY DEF TypeOK, HistoryTypeOK
<1>2. \A i \in DOMAIN published : published[i] \in [rev : Nat, op : OpIds]
  BY <1>1, SeqElement
<1> QED
  BY <1>1, <1>2

\* A call moves to stage s of the pipeline; the store and the session stay as they are.
LEMMA StageTaken ==
    ASSUME NInv, NEW p \in Peers, NEW s,
           pc' = [pc EXCEPT ![p] = s], \A q \in Peers \ {p} : req'[q] = req[q],
           UNCHANGED <<rev, snap, ledger, leaving, status, published>>,
           StageOK(p)',
           s \in {"snapshot", "compact"} =>
               \/ pc[p] \in {"snapshot", "compact"} \/ ~SnapshotInProgress \/ OverlapSnapshots,
           s = "compact" => OverlapSnapshots \/ snap.rev = rev,
           s \in Assigned => pc[p] \in Assigned
    PROVE  StageInv' /\ CutInv' /\ ToldInv'
<1>1. pc'[p] = s /\ \A q \in Peers \ {p} : pc'[q] = pc[q]
  BY DEF NInv, TypeOK, LockTypeOK
<1>2. StageInv'
  <2>1. \A q \in Peers \ {p} : StageOK(q)'
    BY <1>1 DEF NInv, StageInv, StageOK
  <2> QED
    BY <2>1 DEF StageInv
<1>3. CutInv'
  <2>1. ~OverlapSnapshots => Exclusive'
    BY <1>1 DEF NInv, CutInv, Exclusive, SnapshotInProgress
  <2> QED
    BY <1>1, <2>1 DEF NInv, CutInv
<1>4. ToldInv'
  <2>1. BroadcastInOrder'
    BY DEF NInv, ToldInv, BroadcastInOrder
  <2> QED
    BY <1>1, <2>1 DEF NInv, ToldInv
<1> QED
  BY <1>2, <1>3, <1>4

\* A call returns: the other calls do not notice.
LEMMA Answered ==
    ASSUME NInv, NEW p \in Peers, Finish(p),
           UNCHANGED <<rev, snap, ledger, leaving, status, published>>
    PROVE  StageInv' /\ CutInv' /\ ToldInv'
<1>1. pc' = [pc EXCEPT ![p] = "idle"] /\ pc'[p] = "idle"
  BY DEF Finish, NInv, TypeOK, LockTypeOK
<1>2. \A q \in Peers \ {p} : req'[q] = req[q]
  BY DEF Finish, NInv, TypeOK, RequestTypeOK
<1>3. StageOK(p)'
  BY <1>1 DEF StageOK, Assigned
<1> QED
  BY <1>1, <1>2, <1>3, StageTaken DEF Assigned

----------------------------------------------------------------------------
\* Opening the session, and losing it.

\* While nobody is connected only the store and the session matter.
LEMMA Silent ==
    ASSUME \A p \in Peers : /\ pc'[p] = "idle" /\ leaving'[p].pc = "idle"
                            /\ view'[p] = NoView /\ joinDoc'[p] = NoView
    PROVE  /\ StageInv'
           /\ (status' # "closed" => snap'.rev <= rev') => CutInv'
           /\ BroadcastInOrder' /\ (status' = "live" =>
                  \A i \in DOMAIN published' : published'[i].rev <= rev') => ToldInv'
<1>1. StageInv'
  BY DEF StageInv, StageOK, Assigned
<1>2. (status' # "closed" => snap'.rev <= rev') => CutInv'
  BY DEF CutInv, Exclusive
<1>3. BroadcastInOrder' /\ (status' = "live" =>
                  \A i \in DOMAIN published' : published'[i].rev <= rev') => ToldInv'
  BY DEF ToldInv, Assigned
<1> QED
  BY <1>1, <1>2, <1>3

LEMMA NumberOpenSeeded == ConstantsAssumption /\ NInv /\ OpenSeeded => NInv'
<1> SUFFICES ASSUME ConstantsAssumption, NInv, OpenSeeded PROVE NInv'
  OBVIOUS
<1>1. TypeOK'
  BY TypeOpen DEF Open, NInv
<1>2. \A p \in Peers : /\ pc'[p] = "idle" /\ leaving'[p].pc = "idle"
                       /\ view'[p] = NoView /\ joinDoc'[p] = NoView
  BY DEF OpenSeeded, calls, readers, NInv, OpenInv
<1>3. /\ ledger = <<>> /\ DOMAIN ledger = {} /\ DOMAIN hot = {} /\ DOMAIN published = {}
  <2>1. snap.rev = 0
    BY DEF OpenSeeded, NoSnapshot
  <2>2. ledger = <<>> /\ DOMAIN ledger = {}
    BY <2>1 DEF NInv, NumberInv
  <2> QED
    BY <2>2 DEF NInv, NumberInv, HotIsSuffix, ToldInv, BroadcastInOrder
<1>4. /\ ledger' = <<StoredOp(1, Seed, 0)>> /\ Len(ledger') = 1 /\ DOMAIN ledger' = {1}
      /\ ledger'[1] = StoredOp(1, Seed, 0)
  BY <1>3 DEF OpenSeeded
<1>5. /\ snap'.rev = 1 /\ rev' = 1 /\ status' = "opening" /\ UNCHANGED <<hot, published>>
  BY DEF OpenSeeded
<1>6. NumberInv'
  BY <1>3, <1>4, <1>5 DEF NumberInv, ContextCorrect, HotIsSuffix, Covered, StoredOp
<1>7. OpenInv'
  BY <1>2, <1>4, <1>5 DEF OpenInv, Covered
<1>8. StageInv' /\ CutInv' /\ ToldInv'
  BY <1>2, <1>3, <1>5, Silent DEF BroadcastInOrder
<1> QED
  BY <1>1, <1>6, <1>7, <1>8 DEF NInv

LEMMA NumberOpenFromStore ==
    ConstantsAssumption /\ NInv /\ (OpenFromSnapshot \/ Rehydrate \/ Opened) => NInv'
<1> SUFFICES ASSUME ConstantsAssumption, NInv, OpenFromSnapshot \/ Rehydrate \/ Opened PROVE NInv'
  OBVIOUS
<1>1. TypeOK' /\ TypeOK
  BY TypeOpen DEF Open, NInv
<1>2. \A p \in Peers : /\ pc'[p] = "idle" /\ leaving'[p].pc = "idle"
                       /\ view'[p] = NoView /\ joinDoc'[p] = NoView
  BY DEF OpenFromSnapshot, Rehydrate, Opened, calls, readers, NInv, OpenInv
<1>3. /\ UNCHANGED <<hot, snap, ledger, published>>
      /\ rev \in Nat /\ snap.rev \in Nat /\ Len(ledger) \in Nat
  BY <1>1, Types DEF OpenFromSnapshot, Rehydrate, Opened, store, history
<1>4. BroadcastInOrder'
  BY <1>3 DEF NInv, ToldInv, BroadcastInOrder
<1>5. NumberInv'
  BY <1>3 DEF OpenFromSnapshot, Rehydrate, Opened, NInv, NumberInv, ContextCorrect, HotIsSuffix, Covered
<1>6. CASE OpenFromSnapshot
  <2>1. rev' = snap.rev /\ status' = "opening"
    BY <1>6 DEF OpenFromSnapshot
  <2>2. 1 <= snap.rev /\ snap.rev <= Len(ledger) /\ Covered(snap.rev) /\ snap.rev <= snap.rev
    BY <1>3, <1>6 DEF OpenFromSnapshot, NInv, NumberInv
  <2>3. OpenInv'
    BY <1>2, <1>3, <2>1, <2>2 DEF OpenInv, Covered
  <2> QED
    BY <1>1, <1>2, <1>3, <1>4, <1>5, <2>1, <2>2, <2>3, Silent DEF NInv
<1>7. CASE Rehydrate
  <2>1. PICK r \in Streamed(rev) : /\ \A q \in Streamed(rev) : r <= q
                                   /\ rev' = r
    BY <1>7 DEF Rehydrate
  <2>2. r > rev /\ r \in 1..Len(ledger) /\ r \in DOMAIN hot
    BY <1>1, Types DEF Streamed, NInv, NumberInv, HotIsSuffix
  <2>3. status = "opening" /\ status' = "opening" /\ Covered(rev)
    BY <1>7 DEF Rehydrate, NInv, OpenInv
  <2>4. Covered(r)
    BY <1>3, <2>2, <2>3 DEF Covered
  <2>5. OpenInv'
    BY <1>2, <1>3, <2>1, <2>2, <2>3, <2>4 DEF OpenInv, Covered
  <2>6. ~OverlapSnapshots => snap.rev <= rev
    BY <2>3 DEF NInv, CutInv
  <2>7. CutInv'
    BY <1>2, <1>3, <2>1, <2>2, <2>3, <2>6 DEF CutInv, Exclusive
  <2> QED
    BY <1>1, <1>2, <1>4, <1>5, <2>3, <2>5, <2>7, Silent DEF NInv
<1>8. CASE Opened
  <2>1. status = "opening" /\ status' = "live" /\ rev' = rev /\ Streamed(rev) = {}
    BY <1>8 DEF Opened
  <2>2. 1 <= rev /\ rev <= Len(ledger) /\ Covered(rev)
    BY <2>1 DEF NInv, OpenInv
  <2>3. rev = Len(ledger)
    <3>1. rev + 1 \notin DOMAIN hot
      BY <1>3, <2>1 DEF Streamed
    <3> QED
      BY <1>3, <2>2, <3>1 DEF Covered
  <2>4. OpenInv'
    BY <1>2, <1>3, <2>1, <2>2 DEF OpenInv, Covered
  <2>5. \A i \in DOMAIN published : published[i].rev <= rev
    BY <1>1, <2>3, Types DEF NInv, ToldInv, BroadcastInOrder
  <2>6. CutInv'
    BY <1>2, <1>3, <2>1 DEF NInv, CutInv, Exclusive
  <2> QED
    BY <1>1, <1>2, <1>3, <1>4, <1>5, <2>1, <2>4, <2>5, <2>6, Silent DEF NInv
<1> QED
  BY <1>6, <1>7, <1>8

LEMMA NumberCrash == ConstantsAssumption /\ NoStaleReopen /\ NInv /\ Crash => NInv'
<1> SUFFICES ASSUME ConstantsAssumption, NoStaleReopen, NInv, Crash PROVE NInv'
  OBVIOUS
<1>1. TypeOK'
  BY TypeOpen DEF NInv
<1>2. \A p \in Peers : /\ pc'[p] = "idle" /\ leaving'[p].pc = "idle"
                       /\ view'[p] = NoView /\ joinDoc'[p] = NoView
  BY DEF Crash, NotLeaving
<1>3. UNCHANGED <<hot, snap, ledger, published>> /\ status' = "closed"
  BY DEF Crash, store, history
<1>4. ~OverlapSnapshots
  BY DEF Crash, NoStaleReopen, NInv, TypeOK, BoundTypeOK
<1>5. NumberInv'
  BY <1>3, <1>4 DEF NInv, NumberInv, ContextCorrect, HotIsSuffix, Covered
<1>6. OpenInv'
  BY <1>2, <1>3 DEF OpenInv
<1>7. BroadcastInOrder'
  BY <1>3 DEF NInv, ToldInv, BroadcastInOrder
<1>8. StageInv' /\ CutInv' /\ ToldInv'
  BY <1>2, <1>3, <1>7, Silent
<1> QED
  BY <1>1, <1>5, <1>6, <1>8 DEF NInv

----------------------------------------------------------------------------
\* The pipeline of ApplyOpAsync.

LEMMA NumberSubmit ==
    ASSUME ConstantsAssumption, NInv, NEW p \in Peers, Submit(p)
    PROVE  NInv'
<1>1. TypeOK' /\ TypeOK
  BY TypeApply DEF NInv
<1>2. /\ UNCHANGED <<hot, snap, status, rev, joinDoc, leaving, view, ledger, published>>
      /\ status = "live"
  BY DEF Submit, store, session, readers, history
<1>3. NumberInv' /\ OpenInv'
  BY <1>2, NumberUnchanged
<1>4. CASE UNCHANGED calls
  BY <1>1, <1>2, <1>3, <1>4, NumberUnchanged DEF calls, NInv
<1>5. ASSUME NEW b \in Known(p),
             req' = [req EXCEPT ![p] = [op |-> minted + 1, base |-> b, seen |-> b, next |-> 0]],
             pc' = [pc EXCEPT ![p] = "waiting"]
      PROVE  NInv'
  <2>1. b <= Len(ledger)
    BY <1>1, <1>2, CalledIsLive DEF Known, TypeOK, ReaderTypeOK
  <2>2. /\ pc'[p] = "waiting" /\ req'[p].base = b /\ req'[p].seen = b
        /\ \A q \in Peers \ {p} : req'[q] = req[q]
    BY <1>1, <1>5 DEF TypeOK, LockTypeOK, RequestTypeOK
  <2>3. StageOK(p)'
    BY <1>2, <2>1, <2>2 DEF StageOK, Assigned
  <2> QED
    BY <1>1, <1>2, <1>3, <1>5, <2>2, <2>3, StageTaken DEF NInv, Assigned
<1> QED
  BY <1>4, <1>5 DEF Submit

LEMMA NumberBeforeAppend ==
    ASSUME ConstantsAssumption, NInv, NEW p \in Peers,
           Cancelled(p) \/ Acquire(p) \/ RebaseRefused(p) \/ RebaseAbsorbed(p) \/ Rebased(p)
    PROVE  NInv'
<1>1. TypeOK' /\ TypeOK
  BY TypeApply DEF NInv, ApplyOp
<1>2. /\ UNCHANGED <<hot, snap, status, rev, joinDoc, leaving, view, ledger, published>>
      /\ pc[p] # "idle"
  BY DEF Cancelled, Acquire, RebaseRefused, Fail, RebaseAbsorbed, Rebased, store, session, readers, history
<1>3. status = "live"
  BY <1>2, CalledIsLive
<1>4. NumberInv' /\ OpenInv'
  BY <1>2, <1>3, NumberUnchanged
<1>5. CASE Acquire(p)
  <2>1. /\ pc' = [pc EXCEPT ![p] = "rebase"] /\ pc'[p] = "rebase"
        /\ pc[p] = "waiting" /\ req' = req
    BY <1>1, <1>5 DEF Acquire, TypeOK, LockTypeOK
  <2>2. StageOK(p)'
    BY <1>2, <2>1 DEF StageOK, NInv, StageInv, Assigned
  <2> QED
    BY <1>1, <1>2, <1>4, <2>1, <2>2, StageTaken DEF NInv, Assigned
<1>6. CASE RebaseRefused(p) \/ RebaseAbsorbed(p)
  BY <1>1, <1>2, <1>4, <1>6, Answered DEF RebaseRefused, Fail, RebaseAbsorbed, NInv
<1>7. CASE Rebased(p)
  <2>1. /\ pc' = [pc EXCEPT ![p] = "append"] /\ pc'[p] = "append" /\ pc[p] = "rebase"
    BY <1>1, <1>7 DEF Rebased, TypeOK, LockTypeOK
  <2>2. /\ req[p].base \in Nat /\ rev \in Nat /\ Len(ledger) \in Nat
        /\ req[p].base <= Len(ledger) /\ req[p].seen = req[p].base
    BY <1>1, <2>1, Types DEF NInv, StageInv, StageOK
  <2>3. CASE ~Behind(p) /\ req' = [req EXCEPT ![p].next = rev + 1]
    <3>1. req'[p].next = rev + 1 /\ req'[p].seen = req[p].seen
          /\ \A q \in Peers \ {p} : req'[q] = req[q]
      BY <1>1, <2>3 DEF TypeOK, RequestTypeOK
    <3>2. rev <= req[p].base
      BY <2>2, <2>3 DEF Behind
    <3>3. StageOK(p)'
      BY <1>2, <2>1, <2>2, <3>1, <3>2 DEF StageOK, Assigned
    <3> QED
      BY <1>1, <1>2, <1>4, <2>1, <3>1, <3>3, StageTaken DEF NInv, Assigned
  <2>4. ASSUME Behind(p), PathComplete(p), NEW s \in Streamed(req[p].base),
               \A r \in Streamed(req[p].base) : r <= s,
               req' = [req EXCEPT ![p].seen = s, ![p].next = rev + 1]
        PROVE  NInv'
    <3>1. req'[p].next = rev + 1 /\ req'[p].seen = s
          /\ \A q \in Peers \ {p} : req'[q] = req[q]
      BY <1>1, <2>4 DEF TypeOK, RequestTypeOK
    <3>2. rev \in Streamed(req[p].base)
      BY <2>2, <2>4 DEF Behind, PathComplete, Streamed
    <3>3. s \in 1..Len(ledger)
      BY <1>1, Types DEF Streamed, NInv, NumberInv, HotIsSuffix
    <3>4. rev <= s
      BY <2>4, <3>2
    <3>5. StageOK(p)'
      BY <1>2, <2>1, <2>2, <3>1, <3>3, <3>4 DEF StageOK, Assigned
    <3> QED
      BY <1>1, <1>2, <1>4, <2>1, <3>1, <3>5, StageTaken DEF NInv, Assigned
  <2> QED
    BY <1>7, <2>3, <2>4 DEF Rebased
<1>8. CASE Cancelled(p)
  <2>1. pc' = [pc EXCEPT ![p] = "idle"] /\ pc'[p] = "idle" /\ \A q \in Peers \ {p} : req'[q] = req[q]
    BY <1>1, <1>8 DEF Cancelled, TypeOK, LockTypeOK, RequestTypeOK
  <2>2. StageOK(p)'
    BY <2>1 DEF StageOK, Assigned
  <2> QED
    BY <1>1, <1>2, <1>4, <2>1, <2>2, StageTaken DEF NInv, Assigned
<1> QED
  BY <1>5, <1>6, <1>7, <1>8

\* The append succeeds only when the session is at the end of the history, and then it
\* stores an operation that was transformed past all of it.
LEMMA OneMore ==
    ASSUME NInv, NEW p \in Peers, pc[p] = "append", Stored(p), UNCHANGED <<snap, status>>
    PROVE  /\ rev = Len(ledger) /\ Len(ledger') = rev + 1 /\ DOMAIN ledger' = 1..(rev + 1)
           /\ ledger'[rev + 1].op = req[p].op
           /\ \A i \in 1..rev : ledger'[i] = ledger[i]
           /\ ledger' = Append(ledger, StoredOp(req[p].next, req[p].op, req[p].seen))
           /\ \A r \in DOMAIN hot : r \in DOMAIN hot'
           /\ rev + 1 \in DOMAIN hot'
           /\ NumberInv'
<1> DEFINE e == StoredOp(req[p].next, req[p].op, req[p].seen)
<1>1. /\ status = "live" /\ 1 <= rev /\ rev <= Len(ledger) /\ Covered(rev)
      /\ rev \in Nat /\ snap.rev \in Nat /\ Len(ledger) \in Nat
  BY CalledIsLive
<1>2. req[p].next = rev + 1 /\ rev <= req[p].seen /\ req[p].seen <= Len(ledger) /\ req[p].seen \in Nat
  BY Types DEF NInv, StageInv, StageOK
<1>3. rev = Len(ledger)
  <2>1. rev + 1 \notin DOMAIN hot
    BY <1>2 DEF Stored
  <2> QED
    BY <1>1, <2>1 DEF Covered
<1>4. ledger' = Append(ledger, e) /\ hot' = WithOp(hot, e)
  BY DEF Stored
<1>5. e.rev = rev + 1 /\ e.op = req[p].op /\ e.seen = rev
  BY <1>1, <1>2, <1>3 DEF StoredOp
<1> HIDE DEF e
<1>6. /\ Len(ledger') = rev + 1 /\ DOMAIN ledger' = 1..(rev + 1)
      /\ ledger'[rev + 1] = e
      /\ \A i \in 1..rev : ledger'[i] = ledger[i]
  <2>1. ledger \in Seq(StoredOpType)
    BY Types DEF NInv
  <2> QED
    BY <1>1, <1>3, <1>4, <2>1
<1>7. /\ DOMAIN hot' = DOMAIN hot \cup {rev + 1}
      /\ hot'[rev + 1] = e
      /\ \A r \in DOMAIN hot : r # rev + 1 => hot'[r] = hot[r]
  BY <1>4, <1>5 DEF WithOp
<1>8. DOMAIN ledger = 1..rev
  BY <1>3, Types DEF NInv
<1>9. ContextCorrect'
  <2>1. \A i \in 1..rev : ledger'[i].rev = i /\ ledger'[i].seen = i - 1
    BY <1>6, <1>8 DEF NInv, NumberInv, ContextCorrect
  <2>2. ledger'[rev + 1].rev = rev + 1 /\ ledger'[rev + 1].seen = (rev + 1) - 1
    BY <1>1, <1>5, <1>6
  <2>3. \A i \in 1..(rev + 1) : i \in 1..rev \/ i = rev + 1
    BY <1>1
  <2> QED
    BY <1>6, <2>1, <2>2, <2>3 DEF ContextCorrect
<1>10. HotIsSuffix'
  <2>1. \A r \in DOMAIN hot : r \in 1..rev /\ \A q \in r..rev : q \in DOMAIN hot /\ hot[q] = ledger[q]
    BY <1>3, <1>8 DEF NInv, NumberInv, HotIsSuffix
  <2>2. ASSUME NEW r \in DOMAIN hot
        PROVE  r \in 1..(rev + 1) /\ \A q \in r..(rev + 1) : q \in DOMAIN hot' /\ hot'[q] = ledger'[q]
    <3>1. r \in 1..rev /\ \A q \in r..rev : q \in DOMAIN hot /\ hot[q] = ledger[q]
      BY <2>1
    <3>2. ASSUME NEW q \in r..rev PROVE q \in DOMAIN hot' /\ hot'[q] = ledger'[q]
      <4>1. q \in 1..rev /\ q # rev + 1 /\ q \in DOMAIN hot /\ hot[q] = ledger[q]
        BY <1>1, <3>1
      <4> QED
        BY <1>6, <1>7, <4>1
    <3>3. rev + 1 \in DOMAIN hot' /\ hot'[rev + 1] = ledger'[rev + 1]
      BY <1>6, <1>7
    <3>4. \A q \in r..(rev + 1) : q \in r..rev \/ q = rev + 1
      BY <1>1, <3>1
    <3>5. r \in 1..(rev + 1)
      BY <1>1, <3>1
    <3> QED
      BY <3>2, <3>3, <3>4, <3>5
  <2>3. \A q \in (rev + 1)..(rev + 1) : q \in DOMAIN hot' /\ hot'[q] = ledger'[q]
    BY <1>1, <1>6, <1>7
  <2>4. rev + 1 \in 1..(rev + 1)
    BY <1>1
  <2> QED
    BY <1>6, <1>7, <2>2, <2>3, <2>4 DEF HotIsSuffix
<1>11. NumberInv'
  <2>1. snap'.rev <= Len(ledger')
    BY <1>1, <1>3, <1>6 DEF NInv, NumberInv
  <2>2. snap'.rev # 0
    <3>1. ledger # <<>>
      BY <1>1
    <3> QED
      BY <3>1 DEF NInv, NumberInv
  <2>3. (OverlapSnapshots => status' = "closed") => Covered(snap.rev)'
    <3>1. Covered(snap.rev) => \A r \in snap.rev + 1 .. rev + 1 : r \in DOMAIN hot'
      BY <1>1, <1>3, <1>7 DEF Covered
    <3> QED
      BY <1>6, <3>1 DEF NInv, NumberInv, Covered
  <2> QED
    BY <1>9, <1>10, <2>1, <2>2, <2>3 DEF NumberInv
<1> QED
  BY <1>3, <1>4, <1>5, <1>6, <1>7, <1>11 DEF e

LEMMA NumberAppend ==
    ASSUME ConstantsAssumption, NInv, NEW p \in Peers, AppendOp(p) \/ AppendFails(p)
    PROVE  NInv'
<1>1. TypeOK' /\ TypeOK
  BY TypeApply DEF NInv, ApplyOp
<1>2. /\ UNCHANGED <<snap, status, rev, joinDoc, leaving, view, published>>
      /\ pc[p] = "append"
  BY DEF AppendOp, AppendFails, Fail, store, session, readers, history
<1>3. /\ status = "live" /\ 1 <= rev /\ rev \in Nat
  BY <1>2, CalledIsLive
<1>4. CASE AppendFails(p) /\ UNCHANGED <<hot, ledger>>
  BY <1>1, <1>2, <1>3, <1>4, NumberUnchanged, Answered DEF AppendFails, Fail, NInv
<1>5. CASE Stored(p) /\ (AppendOp(p) \/ AppendFails(p))
  <2>1. /\ rev = Len(ledger) /\ Len(ledger') = rev + 1 /\ DOMAIN ledger' = 1..(rev + 1)
        /\ ledger'[rev + 1].op = req[p].op
        /\ \A i \in 1..rev : ledger'[i] = ledger[i]
        /\ \A r \in DOMAIN hot : r \in DOMAIN hot'
        /\ rev + 1 \in DOMAIN hot'
        /\ NumberInv'
    BY <1>2, <1>5, OneMore
  <2>2. \A q \in Peers \ {p} : /\ pc'[q] = pc[q] /\ req'[q] = req[q]
                               /\ pc[q] \in {"idle", "waiting"}
    BY <1>1, <1>2, <1>5, OneInside
       DEF AppendOp, AppendFails, Fail, Finish, TypeOK, LockTypeOK, RequestTypeOK, Critical
  <2>3. pc'[p] = "idle" \/ (pc'[p] = "assignState" /\ req'[p] = req[p])
    <3>1. CASE AppendOp(p)
      BY <1>1, <3>1 DEF AppendOp, TypeOK, LockTypeOK
    <3>2. CASE AppendFails(p)
      BY <1>1, <3>2 DEF AppendFails, Fail, Finish, TypeOK, LockTypeOK
    <3> QED
      BY <1>5, <3>1, <3>2
  <2>4. OpenInv'
    <3>1. \A r \in rev + 1 .. rev + 1 : r \in DOMAIN hot'
      BY <1>3, <2>1
    <3>2. 1 <= rev' /\ rev' <= rev + 1
      BY <1>2, <1>3
    <3> QED
      BY <1>2, <1>3, <2>1, <3>1, <3>2 DEF OpenInv, Covered
  <2>5. StageInv'
    <3>1. ASSUME NEW q \in Peers, q # p PROVE StageOK(q)'
      <4>1. pc[q] = "waiting" => req[q].base <= rev + 1 /\ req[q].seen = req[q].base
        BY <1>1, <1>3, <2>1, Types DEF NInv, StageInv, StageOK
      <4> QED
        BY <2>1, <2>2, <3>1, <4>1 DEF StageOK, Assigned
    <3>2. StageOK(p)'
      <4>1. pc'[p] = "assignState" => req[p].next = rev + 1
        BY <1>2 DEF NInv, StageInv, StageOK
      <4>2. rev + 1 <= rev + 1
        BY <1>3
      <4> QED
        BY <1>2, <2>1, <2>3, <4>1, <4>2 DEF StageOK, Assigned
    <3> QED
      BY <3>1, <3>2 DEF StageInv
  <2>6. CutInv'
    <3>1. ~OverlapSnapshots => Exclusive'
      BY <1>2, <2>2, <2>3 DEF NInv, CutInv, Exclusive
    <3> QED
      BY <1>2, <2>2, <2>3, <3>1 DEF NInv, CutInv
  <2>7. ToldInv'
    <3>1. BroadcastInOrder'
      <4>1. \A i \in DOMAIN published : published[i].rev \in 1..rev
        BY <1>1, <2>1, Types DEF NInv, ToldInv, BroadcastInOrder
      <4>2. \A i \in 1..rev : i \in 1..(rev + 1)
        BY <1>3
      <4> QED
        BY <1>2, <2>1, <4>1, <4>2 DEF NInv, ToldInv, BroadcastInOrder
    <3> QED
      BY <1>2, <2>2, <2>3, <3>1 DEF NInv, ToldInv, Assigned
  <2> QED
    BY <1>1, <2>1, <2>4, <2>5, <2>6, <2>7 DEF NInv
<1>6. AppendOp(p) => Stored(p)
  BY DEF AppendOp
<1>7. AppendFails(p) => UNCHANGED <<hot, ledger>> \/ Stored(p)
  BY DEF AppendFails
<1> QED
  BY <1>4, <1>5, <1>6, <1>7

\* The assignments to _currentState and CurrentRevision; a reader may run between them.
LEMMA NumberAssign ==
    ASSUME ConstantsAssumption, NInv, NEW p \in Peers, AssignState(p) \/ AssignRevision(p)
    PROVE  NInv'
<1>1. TypeOK' /\ TypeOK
  BY TypeApply DEF NInv, ApplyOp
<1>2. /\ UNCHANGED <<hot, snap, status, joinDoc, leaving, view, ledger, published, req>>
      /\ pc[p] \in {"assignState", "assignRevision"}
  BY DEF AssignState, AssignRevision, store, readers, history
<1>3. /\ status = "live" /\ 1 <= rev /\ rev <= Len(ledger) /\ Covered(rev)
      /\ rev \in Nat /\ snap.rev \in Nat /\ Len(ledger) \in Nat
  BY <1>2, CalledIsLive
<1>4. req[p].next = rev + 1 /\ rev + 1 <= Len(ledger) /\ ledger[rev + 1].op = req[p].op
  BY <1>2 DEF NInv, StageInv, StageOK
<1>5. NumberInv'
  BY <1>2, NumberUnchanged
<1>6. CASE pc' = [pc EXCEPT ![p] = "assignRevision"] /\ UNCHANGED rev
  <2>1. OpenInv'
    BY <1>2, <1>3, <1>6, NumberUnchanged
  <2>2. pc'[p] = "assignRevision"
    BY <1>1, <1>6 DEF TypeOK, LockTypeOK
  <2>3. StageOK(p)'
    BY <1>2, <1>4, <1>6, <2>2 DEF StageOK, Assigned
  <2> QED
    BY <1>1, <1>2, <1>5, <1>6, <2>1, <2>3, StageTaken DEF NInv, Assigned
<1>7. CASE pc' = [pc EXCEPT ![p] = "history"] /\ rev' = req[p].next
  <2>1. rev' = rev + 1 /\ pc'[p] = "history"
    BY <1>1, <1>4, <1>7 DEF TypeOK, LockTypeOK
  <2>2. \A q \in Peers \ {p} : pc'[q] = pc[q] /\ pc[q] \in {"idle", "waiting"}
    BY <1>1, <1>2, <1>7, OneInside DEF TypeOK, LockTypeOK, Critical
  <2>3. OpenInv'
    BY <1>2, <1>3, <1>4, <2>1 DEF OpenInv, Covered
  <2>4. StageInv'
    BY <1>2, <1>4, <2>1, <2>2 DEF NInv, StageInv, StageOK, Assigned
  <2>5. CutInv'
    <3>1. \A q \in Peers : leaving[q].pc # "idle" =>
             1 <= leaving[q].rev /\ leaving[q].rev <= rev /\ leaving[q].rev \in Nat
      BY <1>1, Types DEF NInv, CutInv
    <3>2. \A q \in Peers : leaving'[q].pc # "idle" => 1 <= leaving'[q].rev /\ leaving'[q].rev <= rev'
      BY <1>2, <1>3, <2>1, <3>1
    <3>3. ASSUME ~OverlapSnapshots
          PROVE  /\ Exclusive' /\ snap'.rev <= rev'
                 /\ \A q \in Peers :
                       /\ leaving'[q].pc # "idle" => snap'.rev <= leaving'[q].rev
                       /\ leaving'[q].pc = "compact" => snap'.rev = leaving'[q].rev
                       /\ pc'[q] # "compact"
      <4>1. Exclusive'
        BY <1>2, <2>1, <2>2, <3>3 DEF NInv, CutInv, Exclusive
      <4>2. snap.rev <= rev
        BY <1>3, <3>3 DEF NInv, CutInv
      <4>3. snap'.rev <= rev'
        BY <1>2, <1>3, <2>1, <4>2
      <4>4. \A q \in Peers : pc'[q] # "compact"
        BY <2>1, <2>2
      <4> QED
        BY <1>2, <3>3, <4>1, <4>3, <4>4 DEF NInv, CutInv
    <3> QED
      BY <3>2, <3>3 DEF CutInv
  <2>6. ToldInv'
    <3>1. \A i \in DOMAIN published : published[i].rev < rev + 1 /\ published[i].rev <= rev + 1
      BY <1>1, <1>3, PublishedTypes DEF NInv, ToldInv
    <3>2. BroadcastInOrder'
      BY <1>2 DEF NInv, ToldInv, BroadcastInOrder
    <3> QED
      BY <1>2, <2>1, <3>1, <3>2 DEF ToldInv
  <2> QED
    BY <1>1, <1>5, <2>3, <2>4, <2>5, <2>6 DEF NInv
<1> QED
  BY <1>6, <1>7 DEF AssignState, AssignRevision

\* A snapshot at a revision the session has reached.
LEMMA Snapped ==
    ASSUME NInv, NEW n \in Nat, NEW d, 1 <= n, n <= rev, status = "live",
           ~OverlapSnapshots => snap.rev <= n,
           snap' = [rev |-> n, doc |-> d], UNCHANGED <<hot, ledger, status, rev>>
    PROVE  NumberInv' /\ OpenInv'
<1>1. /\ rev <= Len(ledger) /\ rev \in Nat /\ snap.rev \in Nat /\ Len(ledger) \in Nat
  BY Types DEF NInv, OpenInv
<1>2. snap'.rev = n /\ n # 0 /\ n <= Len(ledger)
  BY <1>1
<1>3. OpenInv'
  BY NumberUnchanged
<1>4. ~OverlapSnapshots => Covered(n)
  BY <1>1 DEF NInv, NumberInv, Covered
<1>5. NumberInv'
  BY <1>2, <1>4 DEF NInv, NumberInv, ContextCorrect, HotIsSuffix, Covered
<1> QED
  BY <1>3, <1>5

\* A compaction up to such a revision, at most the snapshot's when a restart may follow.
LEMMA Cut ==
    ASSUME NInv, NEW n \in Nat, n <= rev, status = "live",
           ~OverlapSnapshots => snap.rev = n,
           hot' = Compacted(hot, n), UNCHANGED <<snap, ledger, status, rev>>
    PROVE  NumberInv' /\ OpenInv'
<1>1. /\ 1 <= rev /\ rev <= Len(ledger) /\ rev \in Nat /\ Len(ledger) \in Nat /\ snap.rev \in Nat
      /\ DOMAIN hot \subseteq Nat /\ DOMAIN ledger = 1..Len(ledger)
  BY Types DEF NInv, OpenInv
<1>2. \A r \in DOMAIN hot : r > n => r \in DOMAIN hot' /\ hot'[r] = hot[r]
  BY DEF Compacted
<1>3. \A r \in DOMAIN hot' : r \in DOMAIN hot /\ hot'[r] = hot[r] /\ r > n
  BY DEF Compacted
<1>4. HotIsSuffix'
  <2>1. ASSUME NEW r \in DOMAIN hot'
        PROVE  r \in DOMAIN ledger /\ \A q \in r..Len(ledger) : q \in DOMAIN hot' /\ hot'[q] = ledger[q]
    <3>1. r \in DOMAIN ledger /\ r > n /\ \A q \in r..Len(ledger) : q \in DOMAIN hot /\ hot[q] = ledger[q]
      BY <1>3 DEF NInv, NumberInv, HotIsSuffix
    <3>2. \A q \in r..Len(ledger) : q > n
      BY <1>1, <3>1
    <3> QED
      BY <1>2, <3>1, <3>2
  <2> QED
    BY <2>1 DEF HotIsSuffix
<1>5. OpenInv'
  <2>1. Covered(rev)'
    BY <1>1, <1>2 DEF NInv, OpenInv, Covered
  <2> QED
    BY <1>1, <2>1 DEF OpenInv
<1>6. (OverlapSnapshots => status' = "closed") => Covered(snap.rev)'
  BY <1>1, <1>2 DEF NInv, NumberInv, Covered
<1>7. NumberInv'
  BY <1>4, <1>6 DEF NInv, NumberInv, ContextCorrect
<1> QED
  BY <1>5, <1>7

\* A broadcast under way is newer than everything broadcast before it.
LEMMA Told ==
    ASSUME NInv, NEW p \in Peers, pc[p] \in Assigned, Finish(p),
           published' = Append(published, [rev |-> rev, op |-> req[p].op]),
           UNCHANGED <<ledger, status, rev>>
    PROVE  ToldInv'
<1> DEFINE b == [rev |-> rev, op |-> req[p].op]
<1>1. /\ status = "live" /\ 1 <= rev /\ rev <= Len(ledger)
      /\ rev \in Nat /\ Len(ledger) \in Nat /\ ledger[rev].op = req[p].op
  BY CalledIsLive DEF Assigned, NInv, StageInv, StageOK
<1>2. DOMAIN ledger = 1..Len(ledger)
  BY Types DEF NInv
<1>3. b.rev = rev /\ b.op = req[p].op /\ published' = Append(published, b)
  OBVIOUS
<1> HIDE DEF b
<1>4. /\ Len(published) \in Nat /\ DOMAIN published = 1..Len(published)
      /\ \A i \in DOMAIN published : published[i].rev \in Nat
      /\ published \in Seq([rev : Nat, op : OpIds])
  BY PublishedTypes DEF NInv
<1>5. /\ DOMAIN published' = 1..(Len(published) + 1)
      /\ published'[Len(published) + 1] = b
      /\ \A i \in 1..Len(published) : published'[i] = published[i]
  BY <1>3, <1>4
<1>6. \A i \in 1..Len(published) : published[i].rev < rev
  BY <1>4 DEF NInv, ToldInv
<1>7. BroadcastInOrder'
  <2>1. ASSUME NEW i \in 1..Len(published)
        PROVE  /\ published'[i].rev \in DOMAIN ledger
               /\ ledger[published'[i].rev].op = published'[i].op
               /\ \A j \in 1..i - 1 : published'[j].rev < published'[i].rev
    <3>1. \A j \in 1..i - 1 : j \in 1..Len(published)
      BY <1>4
    <3> QED
      BY <1>4, <1>5, <3>1 DEF NInv, ToldInv, BroadcastInOrder
  <2>2. /\ b.rev \in DOMAIN ledger /\ ledger[b.rev].op = b.op
        /\ \A j \in 1..(Len(published) + 1) - 1 : published'[j].rev < b.rev
    <3>1. \A j \in 1..(Len(published) + 1) - 1 : j \in 1..Len(published)
      BY <1>4
    <3> QED
      BY <1>1, <1>2, <1>3, <1>5, <1>6, <3>1
  <2>3. \A i \in 1..(Len(published) + 1) : i \in 1..Len(published) \/ i = Len(published) + 1
    BY <1>4
  <2> QED
    BY <1>5, <2>1, <2>2, <2>3 DEF BroadcastInOrder
<1>8. \A i \in DOMAIN published' : published'[i].rev <= rev
  <2>1. \A i \in 1..Len(published) : published'[i].rev <= rev
    BY <1>1, <1>4, <1>5, <1>6
  <2>2. published'[Len(published) + 1].rev <= rev
    BY <1>1, <1>3, <1>5
  <2>3. \A i \in 1..(Len(published) + 1) : i \in 1..Len(published) \/ i = Len(published) + 1
    BY <1>4
  <2> QED
    BY <1>5, <2>1, <2>2, <2>3
<1>9. \A q \in Peers : pc'[q] \notin Assigned
  <2>1. pc'[p] = "idle" /\ \A q \in Peers \ {p} : pc'[q] = pc[q]
    BY DEF Finish, NInv, TypeOK, LockTypeOK
  <2>2. \A q \in Peers \ {p} : pc[q] \in {"idle", "waiting"}
    BY OneInside DEF NInv, Assigned, Critical
  <2> QED
    BY <2>1, <2>2 DEF Assigned
<1> QED
  BY <1>7, <1>8, <1>9 DEF ToldInv

LEMMA NumberAfterAssign ==
    ASSUME ConstantsAssumption, NInv, NEW p \in Peers,
           RecordHistory(p) \/ WriteSnapshot(p) \/ Compact(p) \/ Publish(p) \/ LateFailure(p)
    PROVE  NInv'
<1>1. TypeOK' /\ TypeOK
  BY TypeApply DEF NInv, ApplyOp
<1>2. /\ UNCHANGED <<status, rev, joinDoc, leaving, view, ledger>>
      /\ pc[p] \in Assigned
  BY DEF RecordHistory, WriteSnapshot, Compact, Publish, LateFailure, Fail,
         store, session, readers, history, Assigned
<1>3. /\ status = "live" /\ 1 <= rev /\ rev <= Len(ledger) /\ rev <= rev
      /\ rev \in Nat /\ snap.rev \in Nat /\ Len(ledger) \in Nat
  BY <1>2, CalledIsLive DEF Assigned
<1>4. ledger[rev].op = req[p].op
  BY <1>2 DEF NInv, StageInv, StageOK
<1>5. ~OverlapSnapshots => snap.rev <= rev
  BY <1>3 DEF NInv, CutInv
<1>6. /\ UNCHANGED <<hot, snap>> => NumberInv' /\ OpenInv'
      /\ snap' = [rev |-> rev, doc |-> doc] /\ UNCHANGED hot => NumberInv' /\ OpenInv'
      /\ pc[p] = "compact" /\ hot' = Compacted(hot, rev) /\ UNCHANGED snap => NumberInv' /\ OpenInv'
  <2>1. UNCHANGED <<hot, snap>> => NumberInv' /\ OpenInv'
    BY <1>2, <1>3, NumberUnchanged
  <2>2. snap' = [rev |-> rev, doc |-> doc] /\ UNCHANGED hot => NumberInv' /\ OpenInv'
    BY <1>2, <1>3, <1>5, Snapped
  <2>3. pc[p] = "compact" /\ hot' = Compacted(hot, rev) /\ UNCHANGED snap => NumberInv' /\ OpenInv'
    <3>1. pc[p] = "compact" /\ ~OverlapSnapshots => snap.rev = rev
      BY DEF NInv, CutInv
    <3> QED
      BY <1>2, <1>3, <3>1, Cut
  <2> QED
    BY <2>1, <2>2, <2>3
\* Whoever writes a snapshot inside the pipeline is the only one taking one.
<1>7. ASSUME pc[p] = "snapshot", snap' = [rev |-> rev, doc |-> doc], UNCHANGED <<published>>,
             NEW s \in {"compact", "idle"}, pc' = [pc EXCEPT ![p] = s],
             s = "compact" => req'[p] = req[p],
             \A q \in Peers \ {p} : req'[q] = req[q]
      PROVE  StageInv' /\ CutInv' /\ ToldInv'
  <2>1. pc'[p] = s /\ \A q \in Peers \ {p} : pc'[q] = pc[q] /\ pc[q] \in {"idle", "waiting"}
    BY <1>1, <1>7, OneInside DEF TypeOK, LockTypeOK, Critical
  <2>2. StageInv'
    <3>1. StageOK(p)'
      BY <1>2, <1>4, <1>7, <2>1 DEF StageOK, Assigned
    <3>2. \A q \in Peers \ {p} : StageOK(q)'
      BY <1>2, <1>7, <2>1 DEF NInv, StageInv, StageOK, Assigned
    <3> QED
      BY <3>1, <3>2 DEF StageInv
  <2>3. CutInv'
    <3>1. ASSUME ~OverlapSnapshots
          PROVE  \A q \in Peers : leaving[q].pc = "idle"
      BY <1>7, <3>1 DEF NInv, CutInv, Exclusive
    <3>2. snap'.rev = rev
      BY <1>7
    <3>3. \A q \in Peers : leaving'[q].pc # "idle" => 1 <= leaving'[q].rev /\ leaving'[q].rev <= rev'
      BY <1>2 DEF NInv, CutInv
    <3>4. ~OverlapSnapshots =>
              /\ Exclusive'
              /\ status' # "closed" => snap'.rev <= rev'
              /\ \A q \in Peers : /\ leaving'[q].pc = "idle"
                                  /\ pc'[q] = "compact" => snap'.rev = rev'
      BY <1>2, <1>3, <3>1, <3>2 DEF Exclusive
    <3> QED
      BY <3>3, <3>4 DEF CutInv
  <2>4. ToldInv'
    <3>1. BroadcastInOrder'
      BY <1>2, <1>7 DEF NInv, ToldInv, BroadcastInOrder
    <3>2. \A i \in DOMAIN published : published[i].rev < rev
      BY <1>2 DEF NInv, ToldInv
    <3>3. \A i \in DOMAIN published : published[i].rev <= rev
      BY <1>2, <1>3 DEF NInv, ToldInv
    <3> QED
      BY <1>2, <1>7, <3>1, <3>2, <3>3 DEF ToldInv
  <2> QED
    BY <2>2, <2>3, <2>4
<1>8. CASE RecordHistory(p)
  <2>1. UNCHANGED <<hot, snap, published, req>>
    BY <1>8 DEF RecordHistory, store, history
  <2>2. PICK s \in {"publish", "snapshot"} :
             /\ pc' = [pc EXCEPT ![p] = s]
             /\ s = "snapshot" => ~SnapshotInProgress \/ OverlapSnapshots
    BY <1>8 DEF RecordHistory, MaySnapshot
  <2>3. StageOK(p)'
    BY <1>1, <1>2, <1>4, <2>1, <2>2 DEF StageOK, Assigned, TypeOK, LockTypeOK
  <2> QED
    BY <1>1, <1>2, <1>6, <2>1, <2>2, <2>3, StageTaken DEF NInv
<1>9. CASE WriteSnapshot(p)
  <2>1. /\ UNCHANGED <<hot, published, req>> /\ snap' = [rev |-> rev, doc |-> doc]
        /\ pc[p] = "snapshot" /\ pc' = [pc EXCEPT ![p] = "compact"]
    BY <1>9 DEF WriteSnapshot, session, history
  <2> QED
    BY <1>1, <1>6, <1>7, <2>1 DEF NInv
<1>10. CASE Compact(p)
  <2>1. /\ UNCHANGED <<snap, published, req>> /\ hot' = Compacted(hot, rev)
        /\ pc[p] = "compact" /\ pc' = [pc EXCEPT ![p] = "publish"] /\ pc'[p] = "publish"
    BY <1>1, <1>10 DEF Compact, session, history, TypeOK, LockTypeOK
  <2>2. StageOK(p)'
    BY <1>2, <1>4, <2>1 DEF StageOK, Assigned
  <2> QED
    BY <1>1, <1>2, <1>6, <2>1, <2>2, StageTaken DEF NInv
<1>11. CASE Publish(p)
  <2>1. /\ UNCHANGED <<hot, snap>> /\ Finish(p)
        /\ published' = Append(published, [rev |-> rev, op |-> req[p].op])
    BY <1>11 DEF Publish, store
  <2>2. ToldInv'
    BY <1>2, <2>1, Told
  <2>3. StageInv' /\ CutInv'
    <3>1. pc' = [pc EXCEPT ![p] = "idle"] /\ \A q \in Peers \ {p} : req'[q] = req[q] /\ pc'[q] = pc[q]
      BY <1>1, <2>1 DEF Finish, TypeOK, LockTypeOK, RequestTypeOK
    <3>2. pc'[p] = "idle"
      BY <1>1, <2>1 DEF Finish, TypeOK, LockTypeOK
    <3>3. StageInv'
      BY <1>2, <3>1, <3>2 DEF NInv, StageInv, StageOK, Assigned
    <3>4. CutInv'
      BY <1>2, <2>1, <3>1, <3>2 DEF NInv, CutInv, Exclusive
    <3> QED
      BY <3>3, <3>4
  <2> QED
    BY <1>1, <1>6, <2>1, <2>2, <2>3 DEF NInv
<1>12. CASE LateFailure(p)
  <2>1. Finish(p)
    BY <1>12 DEF LateFailure, Fail
  <2>2. pc' = [pc EXCEPT ![p] = "idle"] /\ \A q \in Peers \ {p} : req'[q] = req[q] /\ pc'[q] = pc[q]
    BY <1>1, <2>1 DEF Finish, TypeOK, LockTypeOK, RequestTypeOK
  <2>3. pc'[p] = "idle"
    BY <1>1, <2>1 DEF Finish, TypeOK, LockTypeOK
  <2>4. CASE UNCHANGED <<hot, snap, published>>
    BY <1>1, <1>2, <1>6, <2>1, <2>4, Answered DEF NInv
  <2>5. CASE pc[p] = "snapshot" /\ snap' = [rev |-> rev, doc |-> doc] /\ UNCHANGED <<hot, published>>
    BY <1>1, <1>6, <1>7, <2>2, <2>5 DEF NInv
  <2>6. CASE pc[p] = "compact" /\ hot' = Compacted(hot, rev) /\ UNCHANGED <<snap, published>>
    BY <1>1, <1>2, <1>6, <2>1, <2>6, Answered DEF NInv
  <2>7. CASE /\ UNCHANGED <<hot, snap>>
             /\ published' = Append(published, [rev |-> rev, op |-> req[p].op])
    <3>1. ToldInv'
      BY <1>2, <2>1, <2>7, Told
    <3>2. StageInv'
      BY <1>2, <2>2, <2>3 DEF NInv, StageInv, StageOK, Assigned
    <3>3. CutInv'
      BY <1>2, <2>2, <2>3, <2>7 DEF NInv, CutInv, Exclusive
    <3> QED
      BY <1>1, <1>6, <2>7, <3>1, <3>2, <3>3 DEF NInv
  <2> QED
    BY <1>12, <2>4, <2>5, <2>6, <2>7 DEF LateFailure, store
<1> QED
  BY <1>8, <1>9, <1>10, <1>11, <1>12

----------------------------------------------------------------------------
\* Joining and leaving.

LEMMA NumberJoin ==
    ASSUME ConstantsAssumption, NInv, NEW p \in Peers, JoinStep(p)
    PROVE  NInv'
<1>1. TypeOK'
  BY TypeJoinLeave DEF NInv
<1>2. UNCHANGED <<hot, snap, status, rev, pc, req, leaving, ledger, published>>
  BY DEF JoinStep, JoinAtOnce, JoinSerialize, JoinReadRevision, store, session, calls, history
<1>3. status = "live"
  BY CalledIsLive DEF JoinStep, JoinAtOnce, JoinSerialize, JoinReadRevision
<1> QED
  BY <1>1, <1>2, <1>3, NumberUnchanged DEF NInv

LEMMA NumberLeave ==
    ASSUME ConstantsAssumption, NInv, NEW p \in Peers, LeaveStep(p)
    PROVE  NInv'
<1>1. TypeOK' /\ TypeOK
  BY TypeJoinLeave DEF NInv
<1>2. UNCHANGED <<status, rev, pc, req, joinDoc, view, ledger, published>>
  BY DEF LeaveStep, Leave, LeaveAndSnapshot, LeaveReadRevision, LeaveWriteSnapshot, LeaveCompact,
         LeaveFails, session, calls, readers, history
<1>3. /\ status = "live" /\ 1 <= rev /\ rev <= Len(ledger) /\ rev <= rev
      /\ rev \in Nat /\ snap.rev \in Nat /\ leaving[p].rev \in Nat
  <2>1. status = "live"
    BY CalledIsLive DEF LeaveStep, Leave, LeaveAndSnapshot, LeaveReadRevision, LeaveWriteSnapshot,
                        LeaveCompact, LeaveFails
  <2> QED
    BY <1>1, <2>1, CalledIsLive, Types
<1>4. StageInv' /\ ToldInv'
  BY <1>2, NumberUnchanged
<1>5. /\ leaving[p].pc # "idle" => 1 <= leaving[p].rev /\ leaving[p].rev <= rev
      /\ ~OverlapSnapshots =>
            /\ Exclusive /\ snap.rev <= rev
            /\ leaving[p].pc # "idle" =>
                  /\ snap.rev <= leaving[p].rev
                  /\ \A q \in Peers : pc[q] \notin {"snapshot", "compact"}
                  /\ \A q \in Peers \ {p} : leaving[q].pc = "idle"
            /\ leaving[p].pc = "compact" => snap.rev = leaving[p].rev
  BY <1>3 DEF NInv, CutInv, Exclusive
<1>6. CASE Leave(p)
  BY <1>1, <1>2, <1>3, <1>4, <1>6, NumberUnchanged DEF Leave, store, readers, NInv
\* The arguments of TakeSnapshotAsync are read: at once, or one after the other.
<1>7. CASE LeaveAndSnapshot(p) \/ LeaveReadRevision(p)
  <2>1. UNCHANGED <<hot, snap>>
    BY <1>7 DEF LeaveAndSnapshot, LeaveReadRevision, store
  <2>2. /\ leaving'[p].rev = rev /\ leaving'[p].pc \in {"readRevision", "write"}
        /\ \A q \in Peers \ {p} : leaving'[q] = leaving[q]
    <3>1. CASE LeaveAndSnapshot(p)
      BY <1>1, <3>1 DEF LeaveAndSnapshot, TypeOK, ReaderTypeOK
    <3>2. CASE LeaveReadRevision(p)
      <4>1. /\ leaving' = [leaving EXCEPT ![p].pc = "write", ![p].rev = rev]
            /\ leaving \in [Peers -> [pc : {"idle", "readRevision", "write", "compact"},
                                      rev : Nat, doc : Seq(OpIds)]]
        BY <1>1, <3>2 DEF LeaveReadRevision, TypeOK, ReaderTypeOK
      <4> QED
        BY <4>1
    <3> QED
      BY <1>7, <3>1, <3>2
  <2>3. ~OverlapSnapshots => /\ \A q \in Peers : pc[q] \notin {"snapshot", "compact"}
                             /\ \A q \in Peers \ {p} : leaving[q].pc = "idle"
    <3>1. CASE LeaveAndSnapshot(p)
      BY <3>1 DEF LeaveAndSnapshot, MaySnapshot, SnapshotInProgress
    <3>2. CASE LeaveReadRevision(p)
      BY <1>5, <3>2 DEF LeaveReadRevision
    <3> QED
      BY <1>7, <3>1, <3>2
  <2>4. CutInv'
    <3>1. \A q \in Peers : leaving'[q].pc # "idle" => 1 <= leaving'[q].rev /\ leaving'[q].rev <= rev'
      BY <1>2, <1>3, <2>2 DEF NInv, CutInv
    <3>2. ASSUME ~OverlapSnapshots
          PROVE  /\ Exclusive' /\ snap'.rev <= rev'
                 /\ \A q \in Peers :
                       /\ leaving'[q].pc # "idle" => snap'.rev <= leaving'[q].rev
                       /\ leaving'[q].pc # "compact" /\ pc'[q] # "compact"
      BY <1>2, <1>5, <2>1, <2>2, <2>3, <3>2 DEF Exclusive
    <3> QED
      BY <3>1, <3>2 DEF CutInv
  <2> QED
    BY <1>1, <1>2, <1>3, <1>4, <2>1, <2>4, NumberUnchanged DEF NInv
<1>8. CASE LeaveWriteSnapshot(p)
  <2>1. /\ leaving[p].pc = "write" /\ snap' = [rev |-> leaving[p].rev, doc |-> leaving[p].doc]
        /\ leaving' = [leaving EXCEPT ![p].pc = "compact"] /\ UNCHANGED hot
    BY <1>8 DEF LeaveWriteSnapshot
  <2>2. NumberInv' /\ OpenInv'
    BY <1>2, <1>3, <1>5, <2>1, Snapped
  <2>3. /\ leaving'[p].pc = "compact" /\ leaving'[p].rev = leaving[p].rev
        /\ \A q \in Peers \ {p} : leaving'[q] = leaving[q]
    BY <1>1, <2>1 DEF TypeOK, ReaderTypeOK
  <2>4. snap'.rev = leaving[p].rev /\ leaving[p].rev <= leaving[p].rev
    BY <1>3, <2>1
  <2>5. CutInv'
    <3>1. \A q \in Peers : leaving'[q].pc # "idle" => 1 <= leaving'[q].rev /\ leaving'[q].rev <= rev'
      BY <1>2, <1>5, <2>1, <2>3 DEF NInv, CutInv
    <3>2. ASSUME ~OverlapSnapshots
          PROVE  /\ Exclusive' /\ snap'.rev <= rev'
                 /\ \A q \in Peers :
                       /\ leaving'[q].pc # "idle" => snap'.rev <= leaving'[q].rev
                       /\ leaving'[q].pc = "compact" => snap'.rev = leaving'[q].rev
                       /\ pc'[q] # "compact"
      BY <1>2, <1>5, <2>1, <2>3, <2>4, <3>2 DEF Exclusive
    <3> QED
      BY <3>1, <3>2 DEF CutInv
  <2> QED
    BY <1>1, <1>4, <2>2, <2>5 DEF NInv
<1>9. CASE LeaveCompact(p) \/ LeaveFails(p)
  <2>1. /\ leaving[p].pc # "idle" /\ leaving' = [leaving EXCEPT ![p] = NotLeaving] /\ UNCHANGED snap
    BY <1>9 DEF LeaveCompact, LeaveFails, store
  <2>2. leaving'[p].pc = "idle" /\ \A q \in Peers \ {p} : leaving'[q] = leaving[q]
    BY <1>1, <2>1 DEF TypeOK, ReaderTypeOK, NotLeaving
  <2>3. CutInv'
    BY <1>2, <2>1, <2>2 DEF NInv, CutInv, Exclusive
  <2>4. NumberInv' /\ OpenInv'
    <3>1. CASE LeaveCompact(p)
      <4>1. /\ hot' = Compacted(hot, leaving[p].rev) /\ leaving[p].pc = "compact"
        BY <3>1 DEF LeaveCompact
      <4> QED
        BY <1>2, <1>3, <1>5, <2>1, <4>1, Cut
    <3>2. CASE LeaveFails(p)
      BY <1>2, <1>3, <3>2, NumberUnchanged DEF LeaveFails, store
    <3> QED
      BY <1>9, <3>1, <3>2
  <2> QED
    BY <1>1, <1>4, <2>3, <2>4 DEF NInv
<1> QED
  BY <1>6, <1>7, <1>8, <1>9 DEF LeaveStep

LEMMA NumberStep == ConstantsAssumption /\ NoStaleReopen /\ NInv /\ [Next]_vars => NInv'
<1> SUFFICES ASSUME ConstantsAssumption, NoStaleReopen, NInv, [Next]_vars PROVE NInv'
  OBVIOUS
<1>1. CASE UNCHANGED vars
  <2>1. TypeOK'
    BY <1>1, TypeStep DEF NInv
  <2>2. OpenInv'
    BY <1>1 DEF vars, store, session, calls, readers, history, NInv, OpenInv, Covered
  <2> QED
    BY <1>1, <2>1, <2>2, NumberUnchanged
       DEF vars, store, session, calls, readers, history, NInv
<1>2. CASE Open
  BY <1>2, NumberOpenSeeded, NumberOpenFromStore DEF Open
<1>3. CASE Crash
  BY <1>3, NumberCrash
<1>4. ASSUME NEW p \in Peers, Submit(p) \/ Cancelled(p) \/ ApplyOp(p) \/ JoinStep(p) \/ LeaveStep(p)
      PROVE  NInv'
  BY <1>4, NumberSubmit, NumberBeforeAppend, NumberAppend, NumberAssign, NumberAfterAssign,
     NumberJoin, NumberLeave DEF ApplyOp
<1> QED
  BY <1>1, <1>2, <1>3, <1>4 DEF Next

LEMMA NumberAlways == NoStaleReopen /\ Spec => []NInv
<1>1. ASSUME NoStaleReopen PROVE Spec => []NInv
  <2>1. Init => NInv
    BY ConstantsAssumption, NumberInit
  <2>2. NInv /\ [Next]_vars => NInv'
    BY <1>1, ConstantsAssumption, NumberStep
  <2> QED
    BY <2>1, <2>2, PTL DEF Spec
<1> QED
  BY <1>1

\* Each operation is stored at the next free revision, transformed past exactly the
\* operations stored before it (steps 4 to 6 of ApplyOpAsync), whatever readers see torn
\* and whatever calls fail.
THEOREM RebasedPastAll == NoStaleReopen /\ Spec => []ContextCorrect
<1>1. NInv => ContextCorrect
  BY DEF NInv, NumberInv
<1> QED
  BY <1>1, NumberAlways, PTL

\* The hot log is a suffix of the history: compaction, even by two overlapping snapshots,
\* leaves no hole that a rebase would step over.
THEOREM NoHoleInLog == NoStaleReopen /\ Spec => []HotIsSuffix
<1>1. NInv => HotIsSuffix
  BY DEF NInv, NumberInv
<1> QED
  BY <1>1, NumberAlways, PTL

\* The broadcasts of ApplyOpAsync go out in revision order, none twice, each with the
\* operation that is durable at its revision; across crashes too.
THEOREM BroadcastsOrdered == NoStaleReopen /\ Spec => []BroadcastInOrder
<1>1. NInv => BroadcastInOrder
  BY DEF NInv, ToldInv
<1> QED
  BY <1>1, NumberAlways, PTL

\* While a session stays open its revision never goes back, and it advances only over
\* operations that are durable already.
THEOREM RevisionNeverBack == NoStaleReopen /\ Spec => RevisionAdvances
<1>1. ASSUME NInv, Next, status = "live", status' = "live"
      PROVE  rev <= rev' /\ rev' <= Len(ledger)
  <2>1. rev \in Nat /\ Len(ledger) \in Nat /\ rev <= Len(ledger)
    BY <1>1, Types DEF NInv, OpenInv
  <2>2. PICK p \in Peers : Submit(p) \/ Cancelled(p) \/ ApplyOp(p) \/ JoinStep(p) \/ LeaveStep(p)
    BY <1>1 DEF Next, Open, OpenSeeded, OpenFromSnapshot, Rehydrate, Opened, Crash
  <2>3. CASE AssignState(p) \/ AssignRevision(p)
    <3>1. (rev' = rev + 1 \/ rev' = rev) /\ rev + 1 <= Len(ledger)
      BY <1>1, <2>3 DEF AssignState, AssignRevision, NInv, StageInv, StageOK
    <3> QED
      BY <2>1, <3>1
  <2>4. CASE ~(AssignState(p) \/ AssignRevision(p))
    <3>1. CASE Submit(p) \/ Cancelled(p) \/ ApplyOp(p)
      BY <2>1, <2>4, <3>1
         DEF Submit, Cancelled, ApplyOp, Acquire, RebaseRefused, RebaseAbsorbed, Rebased, AppendOp, AppendFails,
             RecordHistory, WriteSnapshot, Compact, Publish, LateFailure, Fail, session
    <3>2. CASE JoinStep(p) \/ LeaveStep(p)
      BY <2>1, <3>2
         DEF JoinStep, JoinAtOnce, JoinSerialize, JoinReadRevision, LeaveStep, Leave, LeaveAndSnapshot,
             LeaveReadRevision, LeaveWriteSnapshot, LeaveCompact, LeaveFails, session
    <3> QED
      BY <2>2, <3>1, <3>2
  <2> QED
    BY <2>3, <2>4
<1>2. ASSUME NoStaleReopen PROVE Spec => RevisionAdvances
  <2>1. Spec => []NInv
    BY <1>2, NumberAlways
  <2>2. NInv /\ [Next]_vars =>
           [status = "live" /\ status' = "live" => rev <= rev' /\ rev' <= Len(ledger)]_vars
    BY <1>1
  <2> QED
    BY <2>1, <2>2, PTL DEF Spec, RevisionAdvances
<1> QED
  BY <1>2

----------------------------------------------------------------------------
\* What the joiners are given, with torn reads.

\* Torn or overlapping snapshots are harmless until a session is opened from them.
OneLifetime == TornReads \/ OverlapSnapshots => MaxCrashes = 0

\* An apply is between its two assignments, and how far the state has got.
Ahead == \E p \in Peers : pc[p] = "assignRevision"
Reached == IF Ahead THEN rev + 1 ELSE rev

\* A state the document had, no further ahead of the revision than an apply may be.
Past(d) == \E n \in Nat : n <= Len(ledger) /\ n <= rev + 1 /\ d = Prefix(n)

SeenInv ==
    /\ status = "closed" => snap = NoSnapshot
    /\ status # "closed" => doc = Prefix(Reached)
    /\ status # "live" => acked = {}
    /\ \A o \in acked : \E i \in 1..rev : i <= Len(ledger) /\ ledger[i].op = o
    /\ \A p \in Peers : joinDoc[p] # NoView => Past(joinDoc[p])

LEMMA ReachedType ==
    ASSUME NInv, status # "closed"
    PROVE  /\ Reached \in Nat /\ Reached <= Len(ledger) /\ rev <= Reached /\ Reached <= rev + 1
           /\ rev \in Nat /\ Len(ledger) \in Nat /\ 1 <= rev
<1>1. rev \in Nat /\ Len(ledger) \in Nat /\ 1 <= rev /\ rev <= Len(ledger)
  BY Types DEF NInv, OpenInv
<1>2. Ahead => rev + 1 <= Len(ledger)
  BY DEF Ahead, NInv, StageInv, StageOK
<1> QED
  BY <1>1, <1>2 DEF Reached

LEMMA DocIsPast ==
    ASSUME NInv, SeenInv, status = "live"
    PROVE  Past(doc) /\ acked \subseteq OpsIn(doc)
<1>1. /\ Reached \in Nat /\ Reached <= Len(ledger) /\ rev <= Reached /\ Reached <= rev + 1 /\ rev \in Nat
      /\ doc = Prefix(Reached)
  BY ReachedType DEF SeenInv
<1>2. Past(doc)
  BY <1>1 DEF Past
<1>3. ASSUME NEW o \in acked PROVE o \in OpsIn(doc)
  <2>1. PICK i \in 1..rev : ledger[i].op = o
    BY DEF SeenInv
  <2>2. i \in 1..Reached
    BY <1>1, <2>1
  <2> HIDE DEF Reached
  <2>3. i \in DOMAIN doc /\ doc[i] = o
    BY <1>1, <2>1, <2>2 DEF Prefix, StateAfter
  <2> QED
    BY <2>3 DEF OpsIn
<1> QED
  BY <1>2, <1>3

\* The history only grows, and the revision with it.
LedgerKept == ledger' = ledger \/ \E e : ledger' = Append(ledger, e)

LEMMA AppendedKeeps ==
    ASSUME NEW S, NEW l \in Seq(S), NEW e
    PROVE  Len(Append(l, e)) = Len(l) + 1 /\ \A i \in 1..Len(l) : Append(l, e)[i] = l[i]
OBVIOUS

LEMMA PastKept ==
    ASSUME NInv, rev' \in Nat, rev <= rev', NEW d, Past(d), rev \in Nat,
           LedgerKept
    PROVE  Past(d)'
<1>1. PICK n \in Nat : n <= Len(ledger) /\ n <= rev + 1 /\ d = Prefix(n)
  BY DEF Past
<1>2. ledger \in Seq(StoredOpType) /\ Len(ledger) \in Nat
  BY Types DEF NInv
<1>3. n <= Len(ledger') /\ StateAfter(ledger', n) = StateAfter(ledger, n)
  <2>1. CASE ledger' = ledger
    BY <1>1, <2>1
  <2>2. CASE \E e : ledger' = Append(ledger, e)
    <3>1. PICK e : ledger' = Append(ledger, e)
      BY <2>2
    <3>2. Len(ledger') = Len(ledger) + 1
      BY <1>2, <3>1
    <3> QED
      BY <1>1, <1>2, <3>1, <3>2, StateAfterKept
  <2> QED
    BY <2>1, <2>2 DEF LedgerKept
<1>4. n <= rev' + 1
  <2>1. \A k, a, b \in Nat : k <= a + 1 /\ a <= b => k <= b + 1
    OBVIOUS
  <2> QED
    BY <1>1, <2>1
<1>5. d = Prefix(n)'
  BY <1>1, <1>3 DEF Prefix
<1> QED
  BY <1>1, <1>3, <1>4, <1>5 DEF Past

LEMMA SeenKept ==
    ASSUME NInv, SeenInv, status = "live", status' = "live", rev' \in Nat, rev <= rev',
           LedgerKept,
           \/ doc' = Prefix(Reached)'
           \/ doc' = doc /\ rev' = rev /\ (Ahead' <=> Ahead),
           \A o \in acked' : o \in acked \/ (rev <= Len(ledger) /\ o = ledger[rev].op /\ ledger' = ledger),
           \A p \in Peers : joinDoc'[p] \in {joinDoc[p], NoView} \/ (joinDoc'[p] = doc /\ ledger' = ledger)
    PROVE  SeenInv'
<1>1. /\ Reached \in Nat /\ Reached <= Len(ledger) /\ rev <= Reached /\ Reached <= rev + 1
      /\ rev \in Nat /\ Len(ledger) \in Nat /\ 1 <= rev /\ doc = Prefix(Reached)
  BY ReachedType DEF SeenInv
<1>2. ledger \in Seq(StoredOpType) /\ DOMAIN ledger = 1..Len(ledger)
  BY Types DEF NInv
<1>3. Len(ledger) <= Len(ledger') /\ \A i \in 1..Len(ledger) : ledger'[i] = ledger[i]
  <2>1. CASE ledger' = ledger
    BY <1>1, <2>1
  <2>2. CASE \E e : ledger' = Append(ledger, e)
    <3>1. PICK e : ledger' = Append(ledger, e)
      BY <2>2
    <3>2. Len(ledger') = Len(ledger) + 1 /\ \A i \in 1..Len(ledger) : ledger'[i] = ledger[i]
      <4>1. /\ Len(Append(ledger, e)) = Len(ledger) + 1
            /\ \A i \in 1..Len(ledger) : Append(ledger, e)[i] = ledger[i]
        BY <1>2, AppendedKeeps
      <4> QED
        BY <3>1, <4>1
    <3> QED
      BY <1>1, <3>1, <3>2
  <2> QED
    BY <2>1, <2>2 DEF LedgerKept
<1>4. doc' = Prefix(Reached)'
  <2>1. CASE doc' = doc /\ rev' = rev /\ (Ahead' <=> Ahead)
    <3>1. Reached' = Reached
      BY <2>1 DEF Reached
    <3> HIDE DEF Reached
    <3>2. StateAfter(ledger', Reached) = StateAfter(ledger, Reached)
      <4>1. \A e : StateAfter(Append(ledger, e), Reached) = StateAfter(ledger, Reached)
        BY <1>1, <1>2, StateAfterKept
      <4> QED
        BY <4>1 DEF LedgerKept
    <3> QED
      BY <1>1, <2>1, <3>1, <3>2 DEF Prefix
  <2> QED
    BY <2>1
<1>5. ASSUME NEW o \in acked' PROVE \E i \in 1..rev' : i <= Len(ledger') /\ ledger'[i].op = o
  <2>1. PICK i \in 1..rev : i <= Len(ledger) /\ ledger[i].op = o
    <3>1. CASE o \in acked
      BY <3>1 DEF SeenInv
    <3>2. CASE o \notin acked
      BY <1>1, <3>2
    <3> QED
      BY <3>1, <3>2
  <2>2. i \in 1..rev' /\ i \in 1..Len(ledger)
    BY <1>1, <2>1
  <2> QED
    BY <1>1, <1>2, <1>3, <2>1, <2>2
<1>6. ASSUME NEW p \in Peers, joinDoc'[p] # NoView PROVE Past(joinDoc[p])'
  <2>1. PICK d : d = joinDoc'[p]
    OBVIOUS
  <2>2. Past(d)
    BY <1>6, <2>1, DocIsPast DEF SeenInv
  <2>3. Past(d)'
    BY <2>2, <1>1, PastKept
  <2> QED
    BY <2>1, <2>3 DEF Past
<1> QED
  BY <1>4, <1>5, <1>6 DEF SeenInv

LEMMA SeenInit == Init => SeenInv
BY DEF Init, SeenInv

LEMMA SeenOpen ==
    ASSUME ConstantsAssumption, NInv, SeenInv, Open
    PROVE  SeenInv'
<1>1. /\ \A p \in Peers : pc[p] = "idle" /\ pc'[p] = "idle" /\ joinDoc'[p] = NoView
      /\ ~Ahead /\ ~Ahead' /\ Reached = rev /\ Reached' = rev' /\ acked' = {}
  <2>1. status # "live" /\ UNCHANGED <<pc, joinDoc, acked>>
    BY DEF Open, OpenSeeded, OpenFromSnapshot, Rehydrate, Opened, calls, readers, history
  <2>2. \A p \in Peers : pc[p] = "idle" /\ pc'[p] = "idle" /\ joinDoc'[p] = NoView
    BY <2>1 DEF NInv, OpenInv
  <2> QED
    BY <2>1, <2>2 DEF Ahead, Reached, SeenInv
<1> HIDE DEF Reached
<1>2. ASSUME status' # "closed", doc' = Prefix(rev)' PROVE SeenInv'
  BY <1>1, <1>2 DEF SeenInv
<1>3. CASE OpenSeeded
  <2>1. ledger = <<>> /\ DOMAIN ledger = {}
    BY <1>3 DEF OpenSeeded, NoSnapshot, NInv, NumberInv
  <2>2. ledger'[1] = StoredOp(1, Seed, 0)
    BY <1>3, <2>1 DEF OpenSeeded
  <2>3. StateAfter(ledger', 1) = <<Seed>>
    BY <2>2 DEF StateAfter, StoredOp
  <2>4. status' = "opening" /\ rev' = 1 /\ doc' = <<Seed>>
    BY <1>3 DEF OpenSeeded
  <2> QED
    BY <1>2, <2>3, <2>4 DEF Prefix
<1>4. CASE OpenFromSnapshot
  BY <1>4 DEF OpenFromSnapshot, SeenInv
<1>5. CASE Rehydrate
  <2>1. PICK r \in Streamed(rev) : /\ \A q \in Streamed(rev) : r <= q
                                   /\ rev' = r /\ doc' = Append(doc, hot[r].op)
    BY <1>5 DEF Rehydrate
  <2>2. /\ status = "opening" /\ status' = "opening" /\ ledger' = ledger
        /\ Covered(rev) /\ doc = Prefix(rev)
    BY <1>1, <1>5 DEF Rehydrate, history, NInv, OpenInv, SeenInv
  <2>3. rev \in Nat /\ Len(ledger) \in Nat /\ ledger \in Seq(StoredOpType) /\ DOMAIN ledger = 1..Len(ledger)
    BY Types DEF NInv
  <2>4. r > rev /\ r \in 1..Len(ledger) /\ r \in DOMAIN hot /\ hot[r] = ledger[r]
    BY <2>3 DEF Streamed, NInv, NumberInv, HotIsSuffix
  <2>5. r = rev + 1
    <3>1. rev + 1 \in DOMAIN hot
      BY <2>2, <2>3, <2>4 DEF Covered
    <3>2. r <= rev + 1
      BY <2>1, <2>3, <3>1 DEF Streamed
    <3> QED
      BY <2>3, <2>4, <3>2
  <2>6. Append(StateAfter(ledger, rev), ledger[rev + 1].op) = StateAfter(ledger, rev + 1)
    <3>1. rev < Len(ledger)
      BY <2>3, <2>4, <2>5
    <3> QED
      BY <2>3, <3>1, StateAfterExtended
  <2> QED
    BY <1>2, <2>1, <2>2, <2>4, <2>5, <2>6 DEF Prefix
<1>6. CASE Opened
  <2>1. status # "closed" /\ status' # "closed" /\ UNCHANGED <<doc, rev, ledger>>
    BY <1>6 DEF Opened, history
  <2> QED
    BY <1>1, <1>2, <2>1 DEF SeenInv, Prefix
<1> QED
  BY <1>3, <1>4, <1>5, <1>6 DEF Open

\* The two assignments of an apply.
LEMMA SeenAssigned ==
    ASSUME NInv, SeenInv, NEW p \in Peers, AssignState(p) \/ AssignRevision(p)
    PROVE  SeenInv'
<1>1. /\ status = "live" /\ rev \in Nat /\ rev + 1 \in Nat /\ Len(ledger) \in Nat
      /\ rev + 1 <= Len(ledger) /\ ledger[rev + 1].op = req[p].op /\ req[p].next = rev + 1
      /\ pc[p] \in Critical /\ doc = Prefix(Reached) /\ rev <= rev + 1
  BY CalledIsLive DEF AssignState, AssignRevision, NInv, StageInv, StageOK, Critical, SeenInv
<1>2. UNCHANGED <<status, ledger, acked, joinDoc>>
  BY DEF AssignState, AssignRevision, readers, history
<1>3. \A q \in Peers \ {p} : pc[q] # "assignRevision" /\ pc'[q] = pc[q]
  <2>1. \A q \in Peers \ {p} : pc[q] \in {"idle", "waiting"}
    BY <1>1, OneInside DEF NInv
  <2> QED
    BY <2>1 DEF AssignState, AssignRevision, NInv, TypeOK, LockTypeOK
<1>4. /\ rev' \in {rev, rev + 1} /\ Reached' = rev + 1
      /\ AssignState(p) => Reached = rev /\ doc' = Append(doc, req[p].op)
      /\ AssignRevision(p) => Reached = rev + 1 /\ doc' = doc
  <2>1. CASE AssignState(p)
    <3>1. /\ pc[p] = "assignState" /\ pc'[p] \in {"assignRevision", "history"}
          /\ doc' = Append(doc, req[p].op)
          /\ pc'[p] = "assignRevision" => rev' = rev
          /\ pc'[p] = "history" => rev' = rev + 1
      BY <1>1, <2>1 DEF AssignState, NInv, TypeOK, LockTypeOK
    <3>2. ~Ahead /\ (Ahead' <=> (pc'[p] = "assignRevision"))
      BY <1>3, <3>1 DEF Ahead
    <3> QED
      BY <1>1, <3>1, <3>2 DEF Reached, AssignRevision
  <2>2. CASE AssignRevision(p)
    <3>1. pc[p] = "assignRevision" /\ pc'[p] = "history" /\ rev' = rev + 1 /\ doc' = doc
      BY <1>1, <2>2 DEF AssignRevision, NInv, TypeOK, LockTypeOK
    <3>2. Ahead /\ ~Ahead'
      BY <1>3, <3>1 DEF Ahead
    <3> QED
      BY <3>1, <3>2 DEF Reached, AssignState
  <2> QED
    BY <2>1, <2>2
<1> HIDE DEF Reached
<1>5. doc' = Prefix(Reached)'
  <2>1. CASE AssignState(p)
    <3>1. Append(StateAfter(ledger, rev), ledger[rev + 1].op) = StateAfter(ledger, rev + 1)
      <4>1. ledger \in Seq(StoredOpType) /\ rev < Len(ledger)
        BY <1>1, Types DEF NInv
      <4> QED
        BY <1>1, <4>1, StateAfterExtended
    <3> QED
      BY <1>1, <1>2, <1>4, <2>1, <3>1 DEF Prefix
  <2>2. CASE AssignRevision(p)
    BY <1>1, <1>2, <1>4, <2>2 DEF Prefix
  <2> QED
    BY <2>1, <2>2
<1> QED
  BY <1>1, <1>2, <1>4, <1>5, SeenKept DEF LedgerKept

\* Every other step of a live session.
LEMMA SeenServed ==
    ASSUME NInv, SeenInv, NEW p \in Peers,
           Submit(p) \/ Cancelled(p) \/ ApplyOp(p) \/ JoinStep(p) \/ LeaveStep(p),
           ~(AssignState(p) \/ AssignRevision(p))
    PROVE  SeenInv'
<1> USE DEF store, session, calls, readers, history
<1>1. status = "live" /\ rev \in Nat /\ rev <= rev /\ rev <= Len(ledger)
  BY CalledIsLive
     DEF Submit, Cancelled, ApplyOp, Acquire, RebaseRefused, RebaseAbsorbed, Rebased, AppendOp, AppendFails,
         RecordHistory, WriteSnapshot, Compact, Publish, LateFailure, JoinStep, JoinAtOnce, JoinSerialize,
         JoinReadRevision, LeaveStep, Leave, LeaveAndSnapshot, LeaveReadRevision, LeaveWriteSnapshot,
         LeaveCompact, LeaveFails
<1>2. CASE Submit(p) \/ Cancelled(p) \/ ApplyOp(p)
  <2>1. UNCHANGED <<status, doc, rev, joinDoc>>
    BY <1>2
       DEF Submit, Cancelled, ApplyOp, Acquire, RebaseRefused, RebaseAbsorbed, Rebased, AppendOp, AppendFails,
           RecordHistory, WriteSnapshot, Compact, Publish, LateFailure, Fail
  <2>2. Ahead' <=> Ahead
    <3>1. /\ \A q \in Peers \ {p} : pc'[q] = pc[q]
          /\ pc[p] # "assignRevision" /\ pc'[p] # "assignRevision"
      BY <1>2
         DEF Submit, Cancelled, ApplyOp, Acquire, RebaseRefused, RebaseAbsorbed, Rebased, AppendOp,
             AppendFails, RecordHistory, WriteSnapshot, Compact, Publish, LateFailure, Fail, Finish,
             NInv, TypeOK, LockTypeOK
    <3> QED
      BY <3>1 DEF Ahead
  <2>3. LedgerKept
    BY <1>2
       DEF Submit, Cancelled, ApplyOp, Acquire, RebaseRefused, RebaseAbsorbed, Rebased, AppendOp, AppendFails,
           Stored, RecordHistory, WriteSnapshot, Compact, Publish, LateFailure, Fail, LedgerKept
  <2>4. \A o \in acked' : o \in acked \/ (rev <= Len(ledger) /\ o = ledger[rev].op /\ ledger' = ledger)
    <3>1. CASE Publish(p)
      <4>1. ledger[rev].op = req[p].op
        BY <3>1 DEF Publish, NInv, StageInv, StageOK, Assigned
      <4> QED
        BY <1>1, <3>1, <4>1 DEF Publish
    <3>2. CASE ~Publish(p)
      BY <1>2, <3>2
         DEF Submit, Cancelled, ApplyOp, Acquire, RebaseRefused, RebaseAbsorbed, Rebased, AppendOp,
             AppendFails, RecordHistory, WriteSnapshot, Compact, LateFailure, Fail
    <3> QED
      BY <3>1, <3>2
  <2> QED
    BY <1>1, <2>1, <2>2, <2>3, <2>4, SeenKept
<1>3. CASE JoinStep(p) \/ LeaveStep(p)
  <2>1. UNCHANGED <<status, doc, rev, pc, ledger, acked>>
    BY <1>3
       DEF JoinStep, JoinAtOnce, JoinSerialize, JoinReadRevision, LeaveStep, Leave, LeaveAndSnapshot,
           LeaveReadRevision, LeaveWriteSnapshot, LeaveCompact, LeaveFails
  <2>2. \A q \in Peers : joinDoc'[q] \in {joinDoc[q], NoView} \/ joinDoc'[q] = doc
    BY <1>3
       DEF JoinStep, JoinAtOnce, JoinSerialize, JoinReadRevision, LeaveStep, Leave, LeaveAndSnapshot,
           LeaveReadRevision, LeaveWriteSnapshot, LeaveCompact, LeaveFails, NInv, TypeOK, ReaderTypeOK
  <2>3. Ahead' <=> Ahead
    BY <2>1 DEF Ahead
  <2> QED
    BY <1>1, <2>1, <2>2, <2>3, SeenKept DEF LedgerKept
<1> QED
  BY <1>2, <1>3

LEMMA SeenStep == ConstantsAssumption /\ MaxCrashes = 0 /\ NInv /\ SeenInv /\ [Next]_vars => SeenInv'
<1> SUFFICES ASSUME ConstantsAssumption, MaxCrashes = 0, NInv, SeenInv, [Next]_vars PROVE SeenInv'
  OBVIOUS
<1>1. CASE UNCHANGED vars
  BY <1>1 DEF vars, store, session, calls, readers, history, SeenInv, Ahead, Reached, Past, Prefix, StateAfter
<1>2. CASE Open
  BY <1>2, SeenOpen
<1>3. CASE Crash
  BY <1>3 DEF Crash, NInv, TypeOK, BoundTypeOK
<1>4. ASSUME NEW p \in Peers, Submit(p) \/ Cancelled(p) \/ ApplyOp(p) \/ JoinStep(p) \/ LeaveStep(p)
      PROVE  SeenInv'
  BY <1>4, SeenAssigned, SeenServed
<1> QED
  BY <1>1, <1>2, <1>3, <1>4 DEF Next

\* What a join reads is a state of the history when the session's state is one.
LEMMA JoinReads ==
    ASSUME NInv, [Next]_vars, status = "live" => Past(doc) /\ acked \subseteq OpsIn(doc),
           \A p \in Peers : joinDoc[p] # NoView => Past(joinDoc[p]),
           NEW p \in Peers
    PROVE  /\ joinDoc[p] = NoView /\ joinDoc'[p] # NoView => acked \subseteq OpsIn(joinDoc'[p])
           /\ view'[p] \notin {view[p], NoView} =>
                 LET n == Len(view'[p].doc)
                 IN  /\ n <= Len(ledger) /\ view'[p].doc = Prefix(n)
                     /\ n <= view'[p].rev + 1 /\ view'[p].rev <= Len(ledger)
<1> USE DEF store, session, calls, readers, history
<1>1. /\ \/ joinDoc'[p] \in {joinDoc[p], NoView}
         \/ joinDoc'[p] = doc /\ status = "live"
      /\ \/ view'[p] \in {view[p], NoView}
         \/ view'[p] = [rev |-> rev, doc |-> doc] /\ status = "live"
         \/ view'[p] = [rev |-> rev, doc |-> joinDoc[p]] /\ joinDoc[p] # NoView
  <2>1. CASE UNCHANGED vars
    BY <2>1 DEF vars
  <2>2. CASE Open \/ Crash
    BY <2>2 DEF Open, OpenSeeded, OpenFromSnapshot, Rehydrate, Opened, Crash
  <2>3. ASSUME NEW q \in Peers, Submit(q) \/ Cancelled(q) \/ ApplyOp(q)
        PROVE  UNCHANGED <<joinDoc, view>>
    BY <2>3
       DEF Submit, Cancelled, ApplyOp, Acquire, RebaseRefused, RebaseAbsorbed, Rebased, AppendOp, AppendFails,
           AssignState, AssignRevision, RecordHistory, WriteSnapshot, Compact, Publish, LateFailure, Fail
  <2>4. ASSUME NEW q \in Peers, LeaveStep(q) PROVE UNCHANGED <<joinDoc, view>>
    BY <2>4 DEF LeaveStep, Leave, LeaveAndSnapshot, LeaveReadRevision, LeaveWriteSnapshot, LeaveCompact, LeaveFails
  <2>5. ASSUME NEW q \in Peers, JoinStep(q)
        PROVE  /\ \/ joinDoc'[p] \in {joinDoc[p], NoView}
                  \/ joinDoc'[p] = doc /\ status = "live"
               /\ \/ view'[p] = view[p]
                  \/ view'[p] = [rev |-> rev, doc |-> doc] /\ status = "live"
                  \/ view'[p] = [rev |-> rev, doc |-> joinDoc[p]] /\ joinDoc[p] # NoView
    BY <2>5 DEF JoinStep, JoinAtOnce, JoinSerialize, JoinReadRevision, NInv, TypeOK, ReaderTypeOK
  <2> QED
    BY <2>1, <2>2, <2>3, <2>4, <2>5 DEF Next
<1>3. ASSUME view'[p] \notin {view[p], NoView}
      PROVE  \E d : view'[p] = [rev |-> rev, doc |-> d] /\ Past(d) /\ rev <= Len(ledger)
  <2>1. CASE view'[p] = [rev |-> rev, doc |-> doc] /\ status = "live"
    BY <2>1, CalledIsLive
  <2>2. CASE view'[p] = [rev |-> rev, doc |-> joinDoc[p]] /\ joinDoc[p] # NoView
    BY <2>2, CalledIsLive
  <2> QED
    BY <1>1, <1>3, <2>1, <2>2
<1>4. ASSUME view'[p] \notin {view[p], NoView}
      PROVE  /\ Len(view'[p].doc) <= Len(ledger) /\ view'[p].doc = Prefix(Len(view'[p].doc))
             /\ Len(view'[p].doc) <= view'[p].rev + 1 /\ view'[p].rev <= Len(ledger)
  <2>1. PICK d : view'[p] = [rev |-> rev, doc |-> d] /\ Past(d) /\ rev <= Len(ledger)
    BY <1>3, <1>4
  <2>2. PICK n \in Nat : n <= Len(ledger) /\ n <= rev + 1 /\ d = Prefix(n)
    BY <2>1 DEF Past
  <2>3. Len(d) = n
    BY <2>2 DEF Prefix, StateAfter
  <2>4. view'[p].doc = d /\ view'[p].rev = rev
    BY <2>1
  <2> QED
    BY <2>1, <2>2, <2>3, <2>4
<1> QED
  BY <1>1, <1>4

\* A joiner is given a state the document once had, in which everything acknowledged before
\* it asked is in place, and a revision that state is at most one operation ahead of
\* (JoinAsync against ApplyOpAsync) - however torn its two reads.
THEOREM JoinersGivenHistory == OneLifetime /\ Spec => JoinersSeeHistory
<1>1. ASSUME MaxCrashes = 0 PROVE Spec => JoinersSeeHistory
  <2>1. Spec => []NInv
    BY <1>1, NumberAlways DEF NoStaleReopen
  <2>2. NInv /\ SeenInv /\ [Next]_vars => SeenInv'
    BY <1>1, ConstantsAssumption, SeenStep
  <2>3. ASSUME NInv, SeenInv, [Next]_vars, NEW p \in Peers
        PROVE  /\ joinDoc[p] = NoView /\ joinDoc'[p] # NoView => acked \subseteq OpsIn(joinDoc'[p])
               /\ view'[p] \notin {view[p], NoView} =>
                     LET n == Len(view'[p].doc)
                     IN  /\ n <= Len(ledger) /\ view'[p].doc = Prefix(n)
                         /\ n <= view'[p].rev + 1 /\ view'[p].rev <= Len(ledger)
    <3>1. status = "live" => Past(doc) /\ acked \subseteq OpsIn(doc)
      BY <2>3, DocIsPast
    <3>2. \A q \in Peers : joinDoc[q] # NoView => Past(joinDoc[q])
      BY <2>3 DEF SeenInv
    <3> QED
      BY <2>3, <3>1, <3>2, JoinReads
  <2>4. NInv /\ SeenInv /\ [Next]_vars =>
           [\A p \in Peers :
               /\ joinDoc[p] = NoView /\ joinDoc'[p] # NoView => acked \subseteq OpsIn(joinDoc'[p])
               /\ view'[p] \notin {view[p], NoView} =>
                     LET n == Len(view'[p].doc)
                     IN  /\ n <= Len(ledger) /\ view'[p].doc = Prefix(n)
                         /\ n <= view'[p].rev + 1 /\ view'[p].rev <= Len(ledger)]_vars
    BY <2>3
  <2> QED
    BY <2>1, <2>2, <2>4, SeenInit, PTL DEF Spec, JoinersSeeHistory
<1>2. ASSUME Atomicity PROVE Spec => JoinersSeeHistory
  <2>1. Spec => []NInv /\ []IInv
    BY <1>2, NumberAlways, InvAlways DEF NoStaleReopen, Atomicity
  <2>2. ASSUME NInv, IInv, [Next]_vars, NEW p \in Peers
        PROVE  /\ joinDoc[p] = NoView /\ joinDoc'[p] # NoView => acked \subseteq OpsIn(joinDoc'[p])
               /\ view'[p] \notin {view[p], NoView} =>
                     LET n == Len(view'[p].doc)
                     IN  /\ n <= Len(ledger) /\ view'[p].doc = Prefix(n)
                         /\ n <= view'[p].rev + 1 /\ view'[p].rev <= Len(ledger)
    <3>1. status = "live" => Past(doc) /\ acked \subseteq OpsIn(doc)
      <4>1. SUFFICES ASSUME status = "live" PROVE Past(doc) /\ acked \subseteq OpsIn(doc)
        OBVIOUS
      <4>2. /\ rev \in Nat /\ rev <= Len(ledger) /\ rev <= rev + 1 /\ doc = Prefix(rev)
            /\ acked \subseteq {ledger[i].op : i \in 1..rev}
        BY <2>2, <4>1, Types DEF NInv, IInv, SessionInv
      <4>3. Past(doc)
        BY <4>2 DEF Past
      <4>4. acked \subseteq OpsIn(doc)
        BY <4>2 DEF OpsIn, Prefix, StateAfter
      <4> QED
        BY <4>3, <4>4
    <3>2. \A q \in Peers : joinDoc[q] # NoView => Past(joinDoc[q])
      BY <2>2 DEF IInv, ViewInv
    <3> QED
      BY <2>2, <3>1, <3>2, JoinReads
  <2>3. NInv /\ IInv /\ [Next]_vars =>
           [\A p \in Peers :
               /\ joinDoc[p] = NoView /\ joinDoc'[p] # NoView => acked \subseteq OpsIn(joinDoc'[p])
               /\ view'[p] \notin {view[p], NoView} =>
                     LET n == Len(view'[p].doc)
                     IN  /\ n <= Len(ledger) /\ view'[p].doc = Prefix(n)
                         /\ n <= view'[p].rev + 1 /\ view'[p].rev <= Len(ledger)]_vars
    BY <2>2
  <2> QED
    BY <2>1, <2>3, PTL DEF Spec, JoinersSeeHistory
<1> QED
  BY <1>1, <1>2 DEF OneLifetime, Atomicity

----------------------------------------------------------------------------
\* An operation is minted once and stored at most once.

LEMMA FreshUnchanged ==
    ASSUME Fresh, UNCHANGED <<ledger, minted>>,
           \A p \in Peers : pc'[p] \in Unstored => pc[p] \in Unstored /\ req'[p].op = req[p].op
    PROVE  Fresh'
BY DEF Fresh

LEMMA FreshSubmit ==
    ASSUME ConstantsAssumption, TypeOK, Fresh, NEW p \in Peers, Submit(p)
    PROVE  Fresh'
<1>1. ledger' = ledger /\ minted' = minted + 1 /\ minted \in Nat /\ pc[p] = "idle"
  BY DEF Submit, history, TypeOK, BoundTypeOK, ConstantsAssumption
<1>2. /\ \A i \in DOMAIN ledger : ledger[i].op \in Nat
      /\ \A q \in Peers : req[q].op \in Nat
  <2>1. \A i \in DOMAIN ledger : ledger[i] \in StoredOpType
    BY Types
  <2>2. \A q \in Peers : req[q] \in [op : OpIds, base : Nat, seen : Nat, next : Nat]
    BY Types
  <2> QED
    BY <2>1, <2>2 DEF StoredOpType, OpIds, ConstantsAssumption
<1>3. \A i \in DOMAIN ledger : ledger[i].op <= minted
  BY DEF Fresh
<1>4. \A i \in DOMAIN ledger : ledger[i].op <= minted + 1 /\ ledger[i].op # minted + 1
  BY <1>1, <1>2, <1>3
<1>5. \A q \in Peers : pc[q] \in Unstored =>
         1 <= req[q].op /\ req[q].op <= minted + 1 /\ req[q].op # minted + 1
  BY <1>1, <1>2 DEF Fresh
<1>6. \A q \in Peers \ {p} : pc'[q] = pc[q] /\ req'[q] = req[q]
  BY DEF Submit, calls, TypeOK, LockTypeOK, RequestTypeOK
<1>7. pc'[p] \in Unstored => req'[p].op = minted + 1
  BY <1>1 DEF Submit, calls, Unstored, TypeOK, LockTypeOK, RequestTypeOK
<1>8. 1 <= minted + 1 /\ minted + 1 <= minted + 1
  BY <1>1
<1> QED
  BY <1>1, <1>4, <1>5, <1>6, <1>7, <1>8 DEF Fresh

LEMMA FreshStored ==
    ASSUME TypeOK, Fresh, NEW p \in Peers, pc[p] = "append", Stored(p), UNCHANGED minted,
           pc'[p] \notin Unstored,
           \A q \in Peers \ {p} : pc'[q] = pc[q] /\ req'[q] = req[q]
    PROVE  Fresh'
<1> DEFINE e == StoredOp(req[p].next, req[p].op, req[p].seen)
<1>1. ledger' = Append(ledger, e) /\ e.op = req[p].op
  BY DEF Stored, StoredOp
<1> HIDE DEF e
<1>2. /\ Len(ledger) \in Nat /\ DOMAIN ledger = 1..Len(ledger)
      /\ DOMAIN ledger' = 1..(Len(ledger) + 1)
      /\ ledger'[Len(ledger) + 1] = e
      /\ \A i \in DOMAIN ledger : ledger'[i] = ledger[i]
  BY <1>1, Types
<1>3. \A i \in DOMAIN ledger' : i \in DOMAIN ledger \/ i = Len(ledger) + 1
  BY <1>2
<1>4. /\ req[p].op <= minted
      /\ \A i \in DOMAIN ledger : ledger[i].op # req[p].op
      /\ \A q \in Peers \ {p} : pc[q] \in Unstored => req[q].op # req[p].op
  BY DEF Fresh, Unstored
<1>5. \A i \in DOMAIN ledger' : ledger'[i].op <= minted
  BY <1>1, <1>2, <1>3, <1>4 DEF Fresh
<1>6. \A i, j \in DOMAIN ledger' : ledger'[i].op = ledger'[j].op => i = j
  BY <1>1, <1>2, <1>3, <1>4 DEF Fresh
<1>7. ASSUME NEW q \in Peers, pc'[q] \in Unstored
      PROVE  /\ 1 <= req'[q].op /\ req'[q].op <= minted
             /\ \A i \in DOMAIN ledger' : ledger'[i].op # req'[q].op
             /\ \A r \in Peers : pc'[r] \in Unstored /\ req'[r].op = req'[q].op => q = r
  <2>1. q # p /\ pc[q] \in Unstored /\ req'[q] = req[q]
    BY <1>7
  <2>2. \A i \in DOMAIN ledger' : ledger'[i].op # req[q].op
    BY <1>1, <1>2, <1>3, <1>4, <2>1 DEF Fresh
  <2> QED
    BY <1>7, <2>1, <2>2 DEF Fresh
<1> QED
  BY <1>5, <1>6, <1>7 DEF Fresh

LEMMA FreshStep == ConstantsAssumption /\ NInv /\ Fresh /\ [Next]_vars => Fresh'
<1> SUFFICES ASSUME ConstantsAssumption, NInv, Fresh, [Next]_vars PROVE Fresh'
  OBVIOUS
<1>1. TypeOK
  BY DEF NInv
<1>2. CASE UNCHANGED vars
  BY <1>2, FreshUnchanged DEF vars, calls, history, bounds
<1>3. CASE OpenSeeded
  <2>1. DOMAIN ledger = {} /\ ledger = <<>>
    <3>1. snap.rev = 0
      BY <1>3 DEF OpenSeeded, NoSnapshot
    <3> QED
      BY <3>1 DEF NInv, NumberInv
  <2>2. DOMAIN ledger' = {1} /\ ledger'[1].op = 0
    BY <1>3, <2>1 DEF OpenSeeded, StoredOp, Seed
  <2>3. 0 <= minted /\ minted' = minted /\ UNCHANGED calls
    BY <1>1, <1>3 DEF OpenSeeded, bounds, TypeOK, BoundTypeOK
  <2>4. \A p \in Peers : pc'[p] \notin Unstored
    BY <1>3, <2>3 DEF OpenSeeded, NInv, OpenInv, Unstored, calls
  <2> QED
    BY <2>2, <2>3, <2>4 DEF Fresh
<1>4. CASE OpenFromSnapshot \/ Rehydrate \/ Opened
  BY <1>4, FreshUnchanged DEF OpenFromSnapshot, Rehydrate, Opened, calls, history, bounds
<1>5. CASE Crash
  BY <1>5, FreshUnchanged DEF Crash, history, Unstored
<1>6. ASSUME NEW p \in Peers, Submit(p) \/ Cancelled(p) \/ ApplyOp(p) \/ JoinStep(p) \/ LeaveStep(p)
      PROVE  Fresh'
  <2>1. CASE Submit(p)
    BY <1>1, <2>1, FreshSubmit
  <2>2. CASE JoinStep(p) \/ LeaveStep(p)
    BY <2>2, FreshUnchanged
       DEF JoinStep, JoinAtOnce, JoinSerialize, JoinReadRevision, LeaveStep, Leave, LeaveAndSnapshot,
           LeaveReadRevision, LeaveWriteSnapshot, LeaveCompact, LeaveFails, calls, history, bounds
  <2>3. CASE Stored(p) /\ (AppendOp(p) \/ AppendFails(p))
    <3>1. pc[p] = "append" /\ UNCHANGED minted
      BY <2>3 DEF AppendOp, AppendFails, Fail, bounds
    <3>2. pc'[p] \notin Unstored /\ \A q \in Peers \ {p} : pc'[q] = pc[q] /\ req'[q] = req[q]
      <4>1. CASE AppendOp(p)
        BY <1>1, <4>1 DEF AppendOp, Unstored, TypeOK, LockTypeOK
      <4>2. CASE AppendFails(p)
        BY <1>1, <4>2 DEF AppendFails, Fail, Finish, Unstored, TypeOK, LockTypeOK, RequestTypeOK
      <4> QED
        BY <2>3, <4>1, <4>2
    <3> QED
      BY <1>1, <2>3, <3>1, <3>2, FreshStored
  <2>4. CASE Cancelled(p) \/ (ApplyOp(p) /\ ~(Stored(p) /\ (AppendOp(p) \/ AppendFails(p))))
    <3>1. ledger' = ledger /\ minted' = minted
      BY <2>4
         DEF Cancelled, ApplyOp, Acquire, RebaseRefused, RebaseAbsorbed, Rebased, AppendOp, AppendFails,
             AssignState, AssignRevision, RecordHistory, WriteSnapshot, Compact, Publish, LateFailure,
             Fail, history, bounds
    <3>2. \A q \in Peers \ {p} : pc'[q] = pc[q] /\ req'[q] = req[q]
      BY <1>1, <2>4
         DEF Cancelled, ApplyOp, Acquire, RebaseRefused, RebaseAbsorbed, Rebased, AppendOp, AppendFails,
             AssignState, AssignRevision, RecordHistory, WriteSnapshot, Compact, Publish, LateFailure,
             Fail, Finish, TypeOK, LockTypeOK, RequestTypeOK
    <3>3. pc'[p] \in Unstored => pc[p] \in Unstored /\ req'[p].op = req[p].op
      <4>1. CASE Rebased(p)
        <5>1. PICK s, n : \/ req' = [req EXCEPT ![p].next = n]
                          \/ req' = [req EXCEPT ![p].seen = s, ![p].next = n]
          BY <4>1 DEF Rebased
        <5>2. req'[p].op = req[p].op
          BY <1>1, <5>1 DEF TypeOK, RequestTypeOK
        <5>3. pc[p] = "rebase"
          BY <4>1 DEF Rebased
        <5> QED
          BY <5>2, <5>3 DEF Unstored
      <4>2. CASE Acquire(p)
        BY <4>2 DEF Acquire, Unstored
      <4>3. CASE ~Rebased(p) /\ ~Acquire(p)
        BY <1>1, <2>4, <4>3
           DEF Cancelled, ApplyOp, RebaseRefused, RebaseAbsorbed, AppendOp, AppendFails,
               AssignState, AssignRevision, RecordHistory, WriteSnapshot, Compact, Publish, LateFailure,
               Fail, Finish, Unstored, TypeOK, LockTypeOK
      <4> QED
        BY <4>1, <4>2, <4>3
    <3> QED
      BY <3>1, <3>2, <3>3, FreshUnchanged
  <2> QED
    BY <1>6, <2>1, <2>2, <2>3, <2>4
<1> QED
  BY <1>2, <1>3, <1>4, <1>5, <1>6 DEF Next, Open

----------------------------------------------------------------------------
\* The session implements OpLog: the abstract log is the sequence of the operations that
\* became durable, what was acknowledged and what joiners were given is the same.

AbstractLog == [i \in DOMAIN ledger |-> ledger[i].op]

\* One more durable operation is one more entry of the abstract log.
LEMMA LogGrew ==
    ASSUME ledger \in Seq(StoredOpType), NEW e \in StoredOpType, ledger' = Append(ledger, e)
    PROVE  AbstractLog' = Append(AbstractLog, e.op)
<1>1. /\ Len(ledger) \in Nat /\ DOMAIN ledger = 1..Len(ledger)
      /\ DOMAIN ledger' = 1..(Len(ledger) + 1)
      /\ ledger'[Len(ledger) + 1] = e
      /\ \A i \in DOMAIN ledger : ledger'[i] = ledger[i] /\ ledger[i].op \in OpIds
  <2> HIDE DEF StoredOpType
  <2>1. /\ Len(ledger) \in Nat /\ DOMAIN ledger = 1..Len(ledger)
        /\ DOMAIN ledger' = 1..(Len(ledger) + 1)
        /\ ledger'[Len(ledger) + 1] = e
        /\ \A i \in DOMAIN ledger : ledger'[i] = ledger[i]
    OBVIOUS
  <2>2. \A i \in DOMAIN ledger : ledger[i] \in StoredOpType
    BY SeqElement
  <2> QED
    BY <2>1, <2>2 DEF StoredOpType
<1>2. AbstractLog \in Seq(OpIds) /\ Len(AbstractLog) = Len(ledger)
  BY <1>1 DEF AbstractLog
<1>3. e.op \in OpIds
  BY DEF StoredOpType
<1>4. Append(AbstractLog, e.op) =
        [i \in 1..(Len(ledger) + 1) |-> IF i = Len(ledger) + 1 THEN e.op ELSE AbstractLog[i]]
  BY <1>1, <1>2, <1>3
<1>5. AbstractLog' =
        [i \in 1..(Len(ledger) + 1) |-> IF i = Len(ledger) + 1 THEN e.op ELSE AbstractLog[i]]
  BY <1>1 DEF AbstractLog
<1> QED
  BY <1>4, <1>5

LEMMA CommitIsStep == ASSUME NEW o \in OpIds, Promise!Commit(o) PROVE Promise!Next
BY DEF Promise!Next

\* Storing an operation is Commit.
LEMMA StoredCommits ==
    ASSUME ConstantsAssumption, TypeOK, Fresh, NEW p \in Peers, pc[p] = "append", Stored(p),
           UNCHANGED <<acked, view>>
    PROVE  Promise!Next
<1> DEFINE e == StoredOp(req[p].next, req[p].op, req[p].seen)
<1>1. ledger' = Append(ledger, e) /\ e.op = req[p].op
  BY DEF Stored, StoredOp
<1>2. e \in StoredOpType /\ req[p].op \in OpIds
  BY Types DEF StoredOp, StoredOpType
<1> HIDE DEF e
<1>3. ledger \in Seq(StoredOpType)
  BY Types
<1>4. AbstractLog' = Append(AbstractLog, req[p].op)
  BY <1>1, <1>2, <1>3, LogGrew
<1>5. req[p].op \notin {AbstractLog[i] : i \in DOMAIN AbstractLog}
  BY DEF AbstractLog, Fresh, Unstored
<1>6. ASSUME NEW o \in OpIds, o = req[p].op PROVE Promise!Next
  <2>1. Promise!Commit(o)
    BY <1>4, <1>5, <1>6 DEF Promise!Commit, Promise!Committed, AbstractLog
  <2> QED
    BY <2>1, CommitIsStep
<1> QED
  BY <1>2, <1>6

LEMMA PromiseInit == Init => Promise!Init
<1> SUFFICES ASSUME Init PROVE Promise!Init
  OBVIOUS
<1>1. AbstractLog = <<>>
  BY DEF Init, AbstractLog
<1> QED
  BY <1>1 DEF Init, Promise!Init, AbstractLog

\* The steps of the session that the promise does not see.
LEMMA PromiseStutters ==
    ASSUME UNCHANGED <<ledger, acked, view>>
    PROVE  UNCHANGED Promise!vars
BY DEF Promise!vars

LEMMA PromiseStep ==
    ConstantsAssumption /\ Atomicity /\ IInv /\ NInv /\ Fresh /\ [Next]_vars
        => [Promise!Next]_(Promise!vars)
<1> SUFFICES ASSUME ConstantsAssumption, Atomicity, IInv, NInv, Fresh, [Next]_vars
             PROVE  Promise!Next \/ UNCHANGED Promise!vars
  OBVIOUS
<1>1. TypeOK
  BY DEF NInv
<1>2. CASE UNCHANGED vars
  BY <1>2, PromiseStutters DEF vars, readers, history
\* The seed that creates the document is the first operation committed.
<1>3. CASE OpenSeeded
  <2>1. ledger = <<>>
    <3>1. snap.rev = 0
      BY <1>3 DEF OpenSeeded, NoSnapshot
    <3> QED
      BY <3>1 DEF NInv, NumberInv
  <2>2. AbstractLog = <<>> /\ DOMAIN AbstractLog = {}
    BY <2>1 DEF AbstractLog
  <2>3. AbstractLog' = Append(AbstractLog, Seed)
    <3>1. StoredOp(1, Seed, 0) \in StoredOpType /\ StoredOp(1, Seed, 0).op = Seed
      BY DEF StoredOp, StoredOpType, OpIds, Seed, ConstantsAssumption
    <3>2. ledger \in Seq(StoredOpType) /\ ledger' = Append(ledger, StoredOp(1, Seed, 0))
      BY <1>1, <1>3, Types DEF OpenSeeded
    <3> QED
      BY <3>1, <3>2, LogGrew
  <2>4. Promise!Commit(Seed)
    BY <1>3, <2>2, <2>3 DEF OpenSeeded, readers, Promise!Commit, Promise!Committed, AbstractLog
  <2>5. Seed \in OpIds
    BY DEF Seed, OpIds, ConstantsAssumption
  <2> QED
    BY <2>4, <2>5 DEF Promise!Next
<1>4. CASE OpenFromSnapshot \/ Rehydrate \/ Opened
  BY <1>4, PromiseStutters DEF OpenFromSnapshot, Rehydrate, Opened, readers, history
\* A crash disconnects everybody and loses nothing.
<1>5. CASE Crash
  BY <1>5 DEF Crash, history, Promise!Next, Promise!Disconnect
<1>6. ASSUME NEW p \in Peers, Submit(p) \/ Cancelled(p) \/ ApplyOp(p) \/ JoinStep(p) \/ LeaveStep(p)
      PROVE  Promise!Next \/ UNCHANGED Promise!vars
  <2>1. CASE Stored(p) /\ (AppendOp(p) \/ AppendFails(p))
    BY <1>1, <2>1, StoredCommits DEF AppendOp, AppendFails, Fail, readers
  <2>2. CASE Publish(p)
    <3>1. /\ acked' = acked \cup {req[p].op} /\ UNCHANGED <<ledger, view>> /\ pc[p] = "publish"
      BY <2>2 DEF Publish, readers
    <3>2. rev \in DOMAIN ledger /\ ledger[rev].op = req[p].op
      BY <1>1, <3>1, CalledIsLive, Types DEF NInv, StageInv, StageOK, Assigned
    <3>3. req[p].op \in {AbstractLog[i] : i \in DOMAIN AbstractLog}
      BY <3>2 DEF AbstractLog
    <3>4. Promise!Acknowledge(req[p].op)
      BY <3>1, <3>3 DEF Promise!Acknowledge, Promise!Committed, AbstractLog
    <3>5. req[p].op \in OpIds
      BY <1>1, Types
    <3> QED
      BY <3>4, <3>5 DEF Promise!Next
  <2>3. CASE JoinStep(p)
    <3>1. JoinAtOnce(p)
      BY <2>3 DEF JoinStep, JoinSerialize, JoinReadRevision, Atomicity, IInv, ViewInv
    <3>2. /\ UNCHANGED <<ledger, acked>> /\ status = "live"
          /\ view' = [view EXCEPT ![p] = [rev |-> rev, doc |-> doc]]
      BY <3>1 DEF JoinAtOnce, history
    <3>3. /\ rev \in DOMAIN AbstractLog /\ doc = StateAfter(ledger, rev)
          /\ \A i \in 1..rev : i \in DOMAIN ledger
          /\ acked \subseteq {ledger[i].op : i \in 1..rev}
      BY <1>1, <3>2, Types DEF IInv, SessionInv, AbstractLog, Prefix
    <3>4. doc = [i \in 1..rev |-> AbstractLog[i]]
      BY <3>3 DEF StateAfter, AbstractLog
    <3>5. acked \subseteq {AbstractLog[i] : i \in 1..rev}
      BY <3>3 DEF AbstractLog
    <3>6. Promise!Join(p, rev)
      BY <3>2, <3>4, <3>5 DEF Promise!Join, Promise!Prefix, AbstractLog
    <3> QED
      BY <3>3, <3>6 DEF Promise!Next, AbstractLog
  <2>4. CASE \/ Submit(p) \/ Cancelled(p) \/ LeaveStep(p)
             \/ ApplyOp(p) /\ ~Publish(p) /\ ~(Stored(p) /\ (AppendOp(p) \/ AppendFails(p)))
    <3>1. UNCHANGED <<ledger, acked, view>>
      <4>1. CASE Submit(p) \/ Cancelled(p) \/ LeaveStep(p)
        BY <4>1 DEF Submit, Cancelled, LeaveStep, Leave, LeaveAndSnapshot, LeaveReadRevision,
                    LeaveWriteSnapshot, LeaveCompact, LeaveFails, readers, history
      <4>2. CASE ApplyOp(p) /\ ~Publish(p) /\ ~(Stored(p) /\ (AppendOp(p) \/ AppendFails(p)))
        BY <4>2 DEF ApplyOp, Acquire, RebaseRefused, RebaseAbsorbed, Rebased, AppendOp, AppendFails,
                    AssignState, AssignRevision, RecordHistory, WriteSnapshot, Compact, LateFailure,
                    Fail, readers, history
      <4> QED
        BY <2>4, <4>1, <4>2
    <3> QED
      BY <3>1, PromiseStutters
  <2> QED
    BY <1>6, <2>1, <2>2, <2>3, <2>4
<1> QED
  BY <1>2, <1>3, <1>4, <1>5, <1>6 DEF Next, Open

\* The live session with the store underneath it, through crashes and failures of the
\* store, keeps the promise of OpLog: a history in which each operation is committed once,
\* answers only for committed operations, joiners given a prefix of the history that has
\* everything that was answered for.
THEOREM SessionKeepsPromise == Atomicity /\ Spec => ImplementsOpLog
<1>1. ASSUME Atomicity PROVE Spec => Promise!Spec
  <2>1. Spec => []IInv
    BY <1>1, InvAlways
  <2>2. NoStaleReopen
    BY <1>1 DEF Atomicity, NoStaleReopen
  <2>3. Spec => []NInv
    BY <2>2, NumberAlways
  <2>4. Init => Fresh
    BY ConstantsAssumption, NumberInit
  <2>5. NInv /\ Fresh /\ [Next]_vars => Fresh'
    BY ConstantsAssumption, FreshStep
  <2>6. Init => Promise!Init
    BY PromiseInit
  <2>7. IInv /\ NInv /\ Fresh /\ [Next]_vars => [Promise!Next]_(Promise!vars)
    BY <1>1, ConstantsAssumption, PromiseStep
  <2> QED
    BY <2>1, <2>3, <2>4, <2>5, <2>6, <2>7, PTL DEF Spec, Promise!Spec
<1> QED
  BY <1>1 DEF ImplementsOpLog

=============================================================================
