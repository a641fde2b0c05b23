---------------------------------- MODULE Comments ----------------------------------
(***************************************************************************)
(* Anchored comments of one document, on the node that owns it: the        *)
(* mutations of CommentRouter, the hook with which the session moves the   *)
(* anchors after every operation (CommentAnchorRebaseHook), the replay of  *)
(* the hook when a session is opened again, and the compaction of          *)
(* CompactWithAnchorsService, over a comment store that survives the node  *)
(* (EfCoreCommentStore).                                                   *)
(*                                                                         *)
(* An operation is known by what it does to the text of each comment:      *)
(* keeps it where it is, moves it, or deletes it.  An anchor is known by   *)
(* how often it was moved for each operation, so that the anchor drawn at  *)
(* revision b and brought to revision r is the one moved once for each     *)
(* moving operation of b+1..r.  Replies, which have no anchor, bodies and  *)
(* the messages to the peers are left out, and so are the pins of version  *)
(* tags, which only lower the revision a compaction is asked for.          *)
(***************************************************************************)
EXTENDS Naturals, FiniteSets, FiniteSetsExt

CONSTANTS
    Comments,         \* the ids of the comments: each is created at most once
    Callers,          \* the calls to CommentRouter that may be under way
    None,             \* no comment
    EngineType,       \* the name stored with an operation: that of its class
    Registrations,    \* what the host may register anchor engines under: sets of names
    MaxOps,           \* bound: operations
    MaxCrashes,       \* bound: crashes of the node
    MaxFailures,      \* bound: calls to the comment store that fail
    MaxCompactions,   \* bound: compactions
    MaxEvents,        \* bound: crashes, failures and compactions together
    MaxMissed,        \* bound: comments whose anchor was left behind
    MaxLag            \* bound: operations a commenter has not seen yet

ASSUME BoundsAssumption ==
    /\ MaxOps \in Nat /\ MaxCrashes \in Nat /\ MaxFailures \in Nat
    /\ MaxCompactions \in Nat /\ MaxEvents \in Nat /\ MaxMissed \in Nat
    /\ MaxLag \in Nat

ASSUME NoneAssumption == None \notin Nat

VARIABLES
    last,         \* the revision of the latest operation that was committed
    effect,       \* revision -> comment -> what the operation does to its text
    hot,          \* the revisions in the store's operation log
    snap,         \* the revision of the stored snapshot
    session,      \* the document's session: its step, revision, loaded comments
    comments,     \* the comment store: comment -> its record, or None
    engines,      \* the names the registry of anchor engines knows
    call,         \* caller -> the mutation under way
    compaction,   \* the compaction under way
    count,        \* how many crashes, failures and compactions there were
    drawn,        \* comment -> the revision its anchor was drawn at, or None
    missed        \* the comments whose anchor was or may be left behind (see below)

docVars == <<last, effect, hot, snap>>
vars == <<docVars, session, comments, engines, call, compaction, count, drawn, missed>>

Revisions == 1..MaxOps
Effects == {"keeps", "moves", "deletes"}

Count(what) ==
    /\ count[what] < [crashes |-> MaxCrashes, failures |-> MaxFailures,
                      compactions |-> MaxCompactions][what]
    /\ count.crashes + count.failures + count.compactions < MaxEvents
    /\ count' = [count EXCEPT ![what] = @ + 1]

\* Nothing new begins when more anchors than that were left behind.
Beginning == Cardinality(missed) <= MaxMissed

Unmoved == [r \in Revisions |-> 0]
Idle == [step |-> "idle"]
Closed == [step |-> "closed", rev |-> 0, opening |-> FALSE, loaded |-> None]

Init ==
    /\ last = 0
    /\ effect = [r \in Revisions |-> [c \in Comments |-> "keeps"]]
    /\ hot = {}
    /\ snap = 0
    /\ session = Closed
    /\ comments = [c \in Comments |-> None]
    /\ engines \in Registrations
    /\ call = [p \in Callers |-> Idle]
    /\ compaction = Idle
    /\ count = [crashes |-> 0, failures |-> 0, compactions |-> 0]
    /\ drawn = [c \in Comments |-> None]
    /\ missed = {}

\* The comments the store returns for the document, resolved ones among them.
LoadOpen == [c \in {x \in Comments : comments[x] # None} |-> comments[c]]

\* The revisions of a set that change the text of comment c.
Touching(c, revs) == {r \in revs : effect[r][c] # "keeps"}

----------------------------------------------------------------------------
(***************************************************************************)
(* Moving anchors.                                                         *)
(***************************************************************************)

\* Rebase: the anchor and the orphan flag of a comment, taken over operation r.
Rebase(c, record, r) ==
    CASE effect[r][c] = "keeps" -> record
      [] effect[r][c] = "moves" -> [record EXCEPT !.moved[r] = @ + 1]
      [] effect[r][c] = "deletes" -> [record EXCEPT !.orphaned = TRUE]

\* Mutant of Affected: the revision of the anchor is not looked at.
AffectedAnyRevision(loaded, r) ==
    {c \in DOMAIN loaded : ~loaded[c].orphaned /\ effect[r][c] # "keeps"}

\* The comments the hook moves: not those orphaned, at this revision already, or
\* that stay where they are.
Affected(loaded, r) ==
    {c \in DOMAIN loaded :
        ~loaded[c].orphaned /\ loaded[c].at < r /\ effect[r][c] # "keeps"}

\* UpdateAnchorsAsync: new anchors for the comments that are still there.
UpdateAnchors(updates, r) ==
    comments' = [c \in Comments |->
        IF c \in DOMAIN updates /\ comments[c] # None
        THEN [comments[c] EXCEPT !.moved = updates[c].moved, !.at = r,
                                 !.orphaned = updates[c].orphaned \/ @]
        ELSE comments[c]]

----------------------------------------------------------------------------
(***************************************************************************)
(* The session: one operation at a time, under its lock.                   *)
(***************************************************************************)
Ready == session.step = "ready"

\* ApplyOpAsync, up to the operation in the log and the session's new revision.
Apply ==
    /\ Ready /\ session.rev < MaxOps /\ Beginning
    /\ \E op \in [Comments -> Effects] :
           /\ last' = session.rev + 1
           /\ effect' = [effect EXCEPT ![session.rev + 1] = op]
           /\ hot' = hot \cup {session.rev + 1}
           /\ session' = [session EXCEPT !.rev = @ + 1, !.step = "applied"]
    /\ UNCHANGED <<snap, comments, engines, call, compaction, count, drawn, missed>>

\* OpAddedAsync: the snapshot policy takes a snapshot and trims the log, or not.
OpAdded ==
    /\ session.step = "applied"
    /\ \/ UNCHANGED <<snap, hot>>
       \/ snap' = session.rev /\ hot' = {r \in hot : r > session.rev}
    /\ session' = [session EXCEPT !.step = "hook"]
    /\ UNCHANGED <<last, effect, comments, engines, call, compaction, count, drawn, missed>>

\* AfterApplyAsync, first half: the comments are loaded, and the hook is over when
\* none of them is affected.
HookLoads ==
    /\ session.step = "hook"
    /\ session' = IF Affected(LoadOpen, session.rev) = {}
                  THEN [session EXCEPT !.step = IF session.opening THEN "replaying" ELSE "ready"]
                  ELSE [session EXCEPT !.step = "moving", !.loaded = LoadOpen]
    /\ UNCHANGED <<docVars, comments, engines, call, compaction, count, drawn, missed>>

HookDone == [session EXCEPT !.step = IF session.opening THEN "replaying" ELSE "ready",
                            !.loaded = None]

\* Second half: the moved anchors are written.
HookUpdates ==
    /\ session.step = "moving"
    /\ LET moved == Affected(session.loaded, session.rev)
       IN  UpdateAnchors([c \in moved |-> Rebase(c, session.loaded[c], session.rev)],
                         session.rev)
    /\ session' = HookDone
    /\ UNCHANGED <<docVars, engines, call, compaction, count, drawn, missed>>

\* The comment store fails: that is logged, and the operation stays committed.
HookFails ==
    /\ session.step \in {"hook", "moving"}
    /\ Count("failures")
    /\ session' = HookDone
    /\ missed' = missed \cup
           {c \in Comments : comments[c] # None /\ effect[session.rev][c] # "keeps"}
    /\ UNCHANGED <<docVars, comments, engines, call, compaction, drawn>>

----------------------------------------------------------------------------
(***************************************************************************)
(* Opening, closing and losing the session.                                *)
(***************************************************************************)

\* What opening the document needs: no operation is missing after the snapshot.
\* "Ensure a snapshot exists at (or is written for) the target revision" is how
\* mkdocs/docs/concepts/compaction.md:11 has it hold over a compaction.
Rebuildable == snap + 1..last \subseteq hot

\* GetOrOpenAsync, at the latest snapshot.  A document that cannot be rebuilt is
\* not opened in the model.
Open ==
    /\ session.step = "closed" /\ Rebuildable /\ Beginning
    /\ session' = [Closed EXCEPT !.step = "replaying", !.rev = snap, !.opening = TRUE]
    /\ UNCHANGED <<docVars, comments, engines, call, compaction, count, drawn, missed>>

\* Mutant of Rehydrate: the replayed operation has no hook.
RehydrateWithoutHook ==
    /\ session.step = "replaying" /\ session.rev < last
    /\ session' = [session EXCEPT !.rev = @ + 1]
    /\ UNCHANGED <<docVars, comments, engines, call, compaction, count, drawn, missed>>

\* RehydrateOpAsync: the next operation of the log, and then its hook.
Rehydrate ==
    /\ session.step = "replaying" /\ session.rev < last
    /\ session' = [session EXCEPT !.rev = @ + 1, !.step = "hook"]
    /\ UNCHANGED <<docVars, comments, engines, call, compaction, count, drawn, missed>>

\* Mutant of Opened: the session is registered before the log is replayed.
OpenedEarly ==
    /\ session.step = "replaying"
    /\ session' = [session EXCEPT !.step = "ready", !.opening = FALSE]
    /\ UNCHANGED <<docVars, comments, engines, call, compaction, count, drawn, missed>>

\* The session is registered: calls find it.
Opened ==
    /\ session.step = "replaying" /\ session.rev = last
    /\ session' = [session EXCEPT !.step = "ready", !.opening = FALSE]
    /\ UNCHANGED <<docVars, comments, engines, call, compaction, count, drawn, missed>>

\* The last peer leaves: a snapshot of what was applied since the last one, and
\* the session is closed.
Close ==
    /\ Ready
    /\ snap' = session.rev
    /\ hot' = {r \in hot : r > session.rev}
    /\ session' = Closed
    /\ UNCHANGED <<last, effect, comments, engines, call, compaction, count, drawn, missed>>

\* The node goes down with what is in its memory; the comments are in a store that
\* survives it.  A snapshot may already be past the operation whose hook is lost.
Crash ==
    /\ Count("crashes") /\ Beginning
    /\ session' = Closed
    /\ call' = [p \in Callers |-> Idle]
    /\ compaction' = Idle
    /\ missed' = IF session.step \in {"hook", "moving"} /\ snap >= session.rev
                 THEN missed \cup {c \in Comments :
                          comments[c] # None /\ effect[session.rev][c] # "keeps"}
                 ELSE missed
    /\ UNCHANGED <<docVars, comments, engines, drawn>>

----------------------------------------------------------------------------
(***************************************************************************)
(* CommentRouter: each mutation reads, and then writes.                    *)
(***************************************************************************)

\* CreateAsync, first half: the anchor was drawn on the text at the commenter's
\* revision and is given the session's, or 0 when there is no session.
SnapshotRevision(p, c) ==
    /\ call[p] = Idle /\ drawn[c] = None /\ Beginning
    /\ session.step \in {"ready", "closed"} \/ session.opening
    /\ \E seen \in 0..last :
           /\ seen + MaxLag >= last
           /\ drawn' = [drawn EXCEPT ![c] = seen]
    /\ call' = [call EXCEPT ![p] =
           [step |-> "add", id |-> c, rev |-> IF Ready THEN session.rev ELSE 0]]
    /\ UNCHANGED <<docVars, session, comments, engines, compaction, count, missed>>

\* Whether the hooks of all the operations after revision r are still to come.
HooksToCome(r) ==
    r + 1..last \subseteq (IF session.step \in {"applied", "hook"} THEN {session.rev} ELSE {})

\* Second half: the comment is stored, wherever the document is by now.
Add(p) ==
    /\ call[p].step = "add"
    /\ LET c == call[p].id
       IN  /\ comments' = [comments EXCEPT ![c] =
                  [at |-> call[p].rev, moved |-> Unmoved, orphaned |-> FALSE,
                   resolved |-> FALSE]]
           /\ missed' = IF drawn[c] = call[p].rev /\ HooksToCome(call[p].rev)
                        THEN missed ELSE missed \cup {c}
    /\ call' = [call EXCEPT ![p] = Idle]
    /\ UNCHANGED <<docVars, session, engines, compaction, count, drawn>>

\* EditAsync and ResolveAsync, first half: the whole record is read.
Get(p, c, kind) ==
    /\ call[p] = Idle /\ comments[c] # None /\ Beginning
    /\ call' = [call EXCEPT ![p] = [step |-> kind, id |-> c, copy |-> comments[c]]]
    /\ UNCHANGED <<docVars, session, comments, engines, compaction, count, drawn, missed>>

\* Second half: the whole record is written over what became of it meanwhile.
Update(p) ==
    /\ call[p].step \in {"edit", "resolve"}
    /\ LET c == call[p].id
           new == [call[p].copy EXCEPT !.resolved = @ \/ call[p].step = "resolve"]
       IN  /\ comments' = IF comments[c] = None THEN comments ELSE [comments EXCEPT ![c] = new]
           /\ missed' = IF comments[c] # None /\ comments[c].at # new.at
                        THEN missed \cup {c} ELSE missed
    /\ call' = [call EXCEPT ![p] = Idle]
    /\ UNCHANGED <<docVars, session, engines, compaction, count, drawn>>

\* DeleteAsync.
Delete(c) ==
    /\ comments[c] # None
    /\ comments' = [comments EXCEPT ![c] = None]
    /\ UNCHANGED <<docVars, session, engines, call, compaction, count, drawn, missed>>

----------------------------------------------------------------------------
(***************************************************************************)
(* CompactWithAnchorsService.CompactAsync, which takes no lock.            *)
(***************************************************************************)

\* The lowest revision of an anchor, over the comments that are not resolved.
MinAnchored == {comments[c].at : c \in {x \in DOMAIN LoadOpen : ~comments[x].resolved}}

\* The request, and whether there are anchors to rebase first.
Compact(upTo) ==
    /\ compaction = Idle /\ Beginning
    /\ Count("compactions")
    /\ compaction' =
           IF \E r \in MinAnchored : r <= upTo
           THEN [step |-> "load", upTo |-> upTo, from |-> Min(MinAnchored)]
           ELSE [step |-> "trim", upTo |-> upTo]
    /\ UNCHANGED <<docVars, session, comments, engines, call, drawn, missed>>

\* LoadOpenAsync: the anchors that are not orphaned.
CompactLoads ==
    /\ compaction.step = "load"
    /\ LET roots == {c \in DOMAIN LoadOpen : ~comments[c].orphaned}
       IN  compaction' =
               IF roots = {}
               THEN [step |-> "trim", upTo |-> compaction.upTo]
               ELSE [step |-> "rebase", upTo |-> compaction.upTo, from |-> compaction.from,
                     loaded |-> [c \in roots |-> comments[c]]]
    /\ UNCHANGED <<docVars, session, comments, engines, call, count, drawn, missed>>

\* The anchors after the operations that are streamed: those of a document type
\* that has an anchor engine, where the name of the operation's class is looked up.
Rebased(c, record, revs) ==
    LET moving == IF EngineType \in engines
                  THEN {r \in revs : r > record.at /\ effect[r][c] # "keeps"} ELSE {}
        deleted == {r \in moving : effect[r][c] = "deletes"}
        before == IF deleted = {} THEN moving ELSE {r \in moving : r < Min(deleted)}
    IN  [record EXCEPT !.moved = [r \in Revisions |-> @[r] + IF r \in before THEN 1 ELSE 0],
                       !.orphaned = deleted # {}]

\* StreamOpsAsync and UpdateAnchorsAsync: all anchors are written at one revision.
CompactRebases ==
    /\ compaction.step = "rebase"
    /\ LET streamed == {r \in hot : r >= compaction.from /\ r <= compaction.upTo}
           lastRebased == Max(streamed \cup {IF compaction.from = 0 THEN 0
                                             ELSE compaction.from - 1})
           final == IF lastRebased > 0 THEN lastRebased ELSE compaction.upTo
           loaded == compaction.loaded
           new == [c \in DOMAIN loaded |-> Rebased(c, loaded[c], streamed)]
       IN  /\ UpdateAnchors(new, final)
           /\ missed' = missed \cup
                  {c \in DOMAIN loaded :
                      \/ final > last
                      \/ comments[c] # loaded[c]
                      \/ Touching(c, final + 1..loaded[c].at) # {}
                      \/ /\ Touching(c, loaded[c].at + 1..final) # {}
                         /\ ~ (/\ EngineType \in engines
                               /\ loaded[c].at + 1..final \subseteq streamed)}
    /\ compaction' = [step |-> "trim", upTo |-> compaction.upTo]
    /\ UNCHANGED <<docVars, session, engines, call, count, drawn>>

\* IDocumentStore.CompactAsync: no snapshot is looked for, and none is taken.
CompactTrims ==
    /\ compaction.step = "trim"
    /\ hot' = {r \in hot : r > compaction.upTo}
    /\ compaction' = Idle
    /\ UNCHANGED <<last, effect, snap, session, comments, engines, call, count, drawn, missed>>

----------------------------------------------------------------------------
SessionStep ==
    \/ Apply \/ OpAdded \/ HookLoads \/ HookUpdates \/ HookFails
    \/ Open \/ Rehydrate \/ Opened \/ Close \/ Crash

CommentStep ==
    \/ \E p \in Callers, c \in Comments :
           SnapshotRevision(p, c) \/ Get(p, c, "edit") \/ Get(p, c, "resolve")
    \/ \E p \in Callers : Add(p) \/ Update(p)
    \/ \E c \in Comments : Delete(c)

CompactionStep ==
    \/ \E upTo \in Revisions : Compact(upTo)
    \/ CompactLoads \/ CompactRebases \/ CompactTrims

Next == SessionStep \/ CommentStep \/ CompactionStep

Spec == Init /\ [][Next]_vars

----------------------------------------------------------------------------
(***************************************************************************)
(* Properties.                                                             *)
(***************************************************************************)

\* The types of the variables.
Record == [at : 0..MaxOps, moved : [Revisions -> Nat], orphaned : BOOLEAN, resolved : BOOLEAN]

Anchored(c) == comments[c] # None /\ c \notin missed

\* What the anchor of comment c is when it was taken over the operations up to r,
\* each once: those that move its text, until one that deletes it.
Followed(c, r) ==
    LET deleted == {q \in drawn[c] + 1..r : effect[q][c] = "deletes"}
    IN  [moved    |-> [q \in Revisions |->
             IF /\ q \in drawn[c] + 1..r /\ effect[q][c] = "moves"
                /\ \A d \in deleted : q < d
             THEN 1 ELSE 0],
         orphaned |-> deleted # {}]

Anchor(c) == [moved |-> comments[c].moved, orphaned |-> comments[c].orphaned]

TypeOK ==
    /\ last \in 0..MaxOps /\ snap \in 0..last /\ hot \subseteq 1..last
    /\ effect \in [Revisions -> [Comments -> Effects]]
    /\ session.rev \in 0..last
    /\ session.step \in {"closed", "replaying", "ready", "applied", "hook", "moving"}
    /\ session.step = "moving" => Affected(session.loaded, session.rev) # {}
    /\ session.step \in {"ready", "applied"} => session.rev = last
    /\ \A c \in Comments : comments[c] = None \/ comments[c] \in Record
    /\ \A c \in Comments : comments[c] # None => drawn[c] \in 0..last
    /\ \A p \in Callers : call[p].step \in {"idle", "add", "edit", "resolve"}
    /\ compaction.step \in {"idle", "load", "rebase", "trim"}

\* An anchor that nothing went wrong for has been moved by each operation up to its
\* revision exactly once, over crashes and replays, and is orphaned when its text
\* is gone ("Anchors at or above this revision have already been accounted for",
\* CommentAnchorRebaseHook.cs:59); when the session is at rest it is where its text
\* is in the document.
RebasedOnce ==
    \A c \in Comments : Anchored(c) =>
        /\ Anchor(c) = Followed(c, comments[c].at)
        /\ Ready => Anchor(c) = Followed(c, session.rev)

=============================================================================
