---------------------------- MODULE DocumentLifecycle ----------------------------
(***************************************************************************)
(* How one document is opened, kept and closed on its owner node           *)
(* (DocumentRouter.cs and the registries it orchestrates): connections     *)
(* join and disconnect concurrently, the first opens the session under the *)
(* document's gate, the last one to leave takes a snapshot, notifies the   *)
(* drain handlers and arms the idle timer or deletes the document, and     *)
(* timers, deletions and evictions close the session.                      *)
(*                                                                         *)
(* Abstractions.  What a session holds is left to DocumentSession; here a  *)
(* session is the set of its active peers.  A connection joins once, so    *)
(* that the session, the gate, the timer and the subscription it may       *)
(* create are named after it.  The ownership manager is the local one:     *)
(* this node owns the document.                                            *)
(***************************************************************************)
EXTENDS Naturals, FiniteSets

CONSTANTS
    Peers,          \* the connections
    Evictors,       \* administrative deletions and evictions, each happening once
    DrainHandlers,  \* has the host registered drain handlers?
    Faults,         \* may a call of the store or the backplane throw?
    Overlap,        \* may a join overlap a disconnect or a close?
    None            \* no entry

ASSUME ConstantsAssumption ==
    /\ {DrainHandlers, Faults, Overlap} \subseteq BOOLEAN
    /\ Peers \cap Evictors = {}
    /\ None \notin Peers \cup (Peers \X {"session", "presence"})

VARIABLES
    session,    \* the entry of _sessions: the connection whose call opened it
    members,    \* _activePeers of the session each connection's call opened
    presence,   \* does _awareness hold an entry?
    gate,       \* the entry of _locks
    holder,     \* who holds each gate ever created
    timer,      \* the entry of _idleTimers
    armed,      \* timers that have neither fired nor been disposed
    sub,        \* the entry of _backplaneSubscriptions
    subs,       \* subscriptions live at the backplane
    tracked,    \* the connections PeerRegistry has joined to the document
    pc,         \* the step of each connection's call
    at,         \* the session the call holds a reference to
    waitsAt,    \* the gate the call waits at
    closing,    \* the CloseSessionAsync each closer has in progress
    zeroes,     \* history: transitions of an active-peer count to zero
    drains,     \* history: notifications of the drain handlers
    erased      \* history: who deleted the document's data

registry == <<session, members, presence>>
gates == <<gate, holder>>
timers == <<timer, armed>>
subscriptions == <<sub, subs>>
calls == <<pc, at, waitsAt>>
history == <<zeroes, drains, erased>>
vars == <<registry, gates, timers, subscriptions, tracked, calls, closing, history>>

Gates == Peers \X {"session", "presence"}
Closers == Peers \cup Evictors

JoinSteps == {"find", "wait", "load", "enter", "attend", "attendWait", "check", "subscribe", "keep"}
LeaveSteps == {"leave", "final", "count", "drain", "arm", "deleting"}
CloseSteps == {"session", "presence", "subscription", "unsubscribe", "timer", "gate", "erase"}

NotClosing == [step |-> "idle", drops |-> None, erases |-> FALSE]
ClosedBy == [step |-> "done", drops |-> None, erases |-> FALSE]
ClosingFor(erases) == [step |-> "session", drops |-> None, erases |-> erases]

Joining == {p \in Peers : pc[p] \in JoinSteps}
Leaving == {p \in Peers : pc[p] \in LeaveSteps}
Joined == {p \in Peers : pc[p] = "joined"}
ClosesInProgress == {c \in Closers : closing[c].step \in CloseSteps}

----------------------------------------------------------------------------
\* The idle timer and the gates.

\* Mutation of CancelIdleClosure: the entry is removed, the timer still runs.
CancelWithoutDisposing ==
    /\ timer' = None
    /\ UNCHANGED armed

CancelIdleClosure ==
    /\ timer' = None
    /\ armed' = armed \ {timer}

\* Mutation of WaitAtGate: every caller makes itself a gate.
WaitAtOwnGate(p, purpose) ==
    /\ gate' = <<p, purpose>>
    /\ waitsAt' = [waitsAt EXCEPT ![p] = gate']
    /\ UNCHANGED holder

\* DocumentLockRegistry.AcquireAsync, up to its wait: GetOrAdd.
WaitAtGate(p, purpose) ==
    /\ gate' = IF gate = None THEN <<p, purpose>> ELSE gate
    /\ waitsAt' = [waitsAt EXCEPT ![p] = gate']
    /\ UNCHANGED holder

GateFree(p) == holder[waitsAt[p]] = None

----------------------------------------------------------------------------
\* JoinDocumentAsync.

JoinBegins(p) ==
    /\ pc[p] = "new"
    /\ Overlap \/ (Leaving = {} /\ ClosesInProgress = {})
    /\ tracked' = tracked \cup {p}
    /\ CancelIdleClosure
    /\ pc' = [pc EXCEPT ![p] = "find"]
    /\ UNCHANGED <<registry, gates, subscriptions, at, waitsAt, closing, history>>

\* GetOrOpenAsync finds the session at once, or queues at the document's gate.
FindSession(p) ==
    /\ pc[p] = "find"
    /\ \/ /\ session # None
          /\ at' = [at EXCEPT ![p] = session]
          /\ pc' = [pc EXCEPT ![p] = "enter"]
          /\ UNCHANGED <<gates, waitsAt>>
       \/ /\ session = None
          /\ WaitAtGate(p, "session")
          /\ pc' = [pc EXCEPT ![p] = "wait"]
          /\ UNCHANGED at
    /\ UNCHANGED <<registry, timers, subscriptions, tracked, closing, history>>

\* Mutation of BeginLoad: the registry is not read again once the gate is held.
BeginLoadUnchecked(p) ==
    /\ pc[p] = "wait"
    /\ GateFree(p)
    /\ holder' = [holder EXCEPT ![waitsAt[p]] = p]
    /\ pc' = [pc EXCEPT ![p] = "load"]
    /\ UNCHANGED <<registry, gate, timers, subscriptions, tracked, at, waitsAt, closing, history>>

\* Another call opened the session while this one waited.
FoundBehindGate(p) ==
    /\ pc[p] = "wait"
    /\ GateFree(p)
    /\ session # None
    /\ at' = [at EXCEPT ![p] = session]
    /\ pc' = [pc EXCEPT ![p] = "enter"]
    /\ UNCHANGED <<registry, gates, timers, subscriptions, tracked, waitsAt, closing, history>>

BeginLoad(p) ==
    /\ pc[p] = "wait"
    /\ GateFree(p)
    /\ session = None
    /\ holder' = [holder EXCEPT ![waitsAt[p]] = p]
    /\ pc' = [pc EXCEPT ![p] = "load"]
    /\ UNCHANGED <<registry, gate, timers, subscriptions, tracked, at, waitsAt, closing, history>>

Release(p) == holder' = [holder EXCEPT ![waitsAt[p]] = None]

\* The snapshot and the log have been read: TryAdd keeps the session that is registered
\* already, but the call goes on with its own.
Opened(p) ==
    /\ pc[p] = "load"
    /\ session' = IF session = None THEN p ELSE session
    /\ at' = [at EXCEPT ![p] = p]
    /\ Release(p)
    /\ pc' = [pc EXCEPT ![p] = "enter"]
    /\ UNCHANGED <<members, presence, gate, timers, subscriptions, tracked, waitsAt, closing, history>>

OpenFails(p) ==
    /\ Faults
    /\ pc[p] = "load"
    /\ Release(p)
    /\ pc' = [pc EXCEPT ![p] = "refused"]
    /\ UNCHANGED <<registry, gate, timers, subscriptions, tracked, at, waitsAt, closing, history>>

\* DocumentSession.JoinAsync
Enter(p) ==
    /\ pc[p] = "enter"
    /\ members' = [members EXCEPT ![at[p]] = @ \cup {p}]
    /\ pc' = [pc EXCEPT ![p] = "attend"]
    /\ UNCHANGED <<session, presence, gates, timers, subscriptions, tracked, at, waitsAt, closing,
                   history>>

\* AwarenessSessionRegistry.GetOrCreateAsync
FindPresence(p) ==
    /\ pc[p] = "attend"
    /\ \/ /\ presence
          /\ pc' = [pc EXCEPT ![p] = "check"]
          /\ UNCHANGED <<gates, waitsAt>>
       \/ /\ ~presence
          /\ WaitAtGate(p, "presence")
          /\ pc' = [pc EXCEPT ![p] = "attendWait"]
    /\ UNCHANGED <<registry, timers, subscriptions, tracked, at, closing, history>>

CreatePresence(p) ==
    /\ pc[p] = "attendWait"
    /\ GateFree(p)
    /\ presence' = TRUE
    /\ pc' = [pc EXCEPT ![p] = "check"]
    /\ UNCHANGED <<session, members, gates, timers, subscriptions, tracked, at, waitsAt, closing,
                   history>>

\* EnsureBackplaneSubscriptionAsync: ContainsKey, SubscribeAsync, TryAdd.
CheckSubscription(p) ==
    /\ pc[p] = "check"
    /\ pc' = [pc EXCEPT ![p] = IF sub = None THEN "subscribe" ELSE "joined"]
    /\ UNCHANGED <<registry, gates, timers, subscriptions, tracked, at, waitsAt, closing, history>>

Subscribe(p) ==
    /\ pc[p] = "subscribe"
    /\ subs' = subs \cup {p}
    /\ pc' = [pc EXCEPT ![p] = "keep"]
    /\ UNCHANGED <<registry, gates, timers, sub, tracked, at, waitsAt, closing, history>>

SubscribeFails(p) ==
    /\ Faults
    /\ pc[p] = "subscribe"
    /\ pc' = [pc EXCEPT ![p] = "refused"]
    /\ UNCHANGED <<registry, gates, timers, subscriptions, tracked, at, waitsAt, closing, history>>

\* Mutation of KeepSubscription: the loser of the race forgets its subscription.
ForgetSubscription(p) ==
    /\ pc[p] = "keep"
    /\ sub' = IF sub = None THEN p ELSE sub
    /\ pc' = [pc EXCEPT ![p] = "joined"]
    /\ UNCHANGED <<registry, gates, timers, subs, tracked, at, waitsAt, closing, history>>

\* Mutation of KeepSubscription: the test of TryAdd's result is the wrong way round.
KeepSwapped(p) ==
    /\ pc[p] = "keep"
    /\ IF sub = None
       THEN sub' = p /\ subs' = subs \ {p}
       ELSE UNCHANGED subscriptions
    /\ pc' = [pc EXCEPT ![p] = "joined"]
    /\ UNCHANGED <<registry, gates, timers, tracked, at, waitsAt, closing, history>>

KeepSubscription(p) ==
    /\ pc[p] = "keep"
    /\ IF sub = None
       THEN sub' = p /\ UNCHANGED subs
       ELSE subs' = subs \ {p} /\ UNCHANGED sub
    /\ pc' = [pc EXCEPT ![p] = "joined"]
    /\ UNCHANGED <<registry, gates, timers, tracked, at, waitsAt, closing, history>>

JoinStep(p) ==
    \/ FindSession(p) \/ FoundBehindGate(p) \/ BeginLoad(p) \/ Opened(p) \/ OpenFails(p)
    \/ Enter(p) \/ FindPresence(p) \/ CreatePresence(p)
    \/ CheckSubscription(p) \/ Subscribe(p) \/ SubscribeFails(p) \/ KeepSubscription(p)

----------------------------------------------------------------------------
\* RemovePeerFromAllSessionsAsync.

Disconnect(p) ==
    /\ pc[p] \in {"joined", "refused"}
    /\ p \in tracked
    /\ Overlap \/ Joining = {}
    /\ tracked' = tracked \ {p}
    /\ pc' = [pc EXCEPT ![p] = "leave"]
    /\ UNCHANGED <<registry, gates, timers, subscriptions, at, waitsAt, closing, history>>

\* The document has no session on this node any more.
LeaveNothing(p) ==
    /\ pc[p] = "leave"
    /\ session = None
    /\ pc' = [pc EXCEPT ![p] = "gone"]
    /\ UNCHANGED <<registry, gates, timers, subscriptions, tracked, at, waitsAt, closing, history>>

\* Mutation of LeaveSession: the last peer is not removed, the session being about to close.
LeaveKeepingLast(p) ==
    /\ pc[p] = "leave"
    /\ session # None
    /\ at' = [at EXCEPT ![p] = session]
    /\ members' = [members EXCEPT ![session] = IF @ = {p} THEN @ ELSE @ \ {p}]
    /\ pc' = [pc EXCEPT ![p] = IF members[session] \subseteq {p} THEN "final" ELSE "count"]
    /\ zeroes' = IF members[session] = {p} THEN zeroes + 1 ELSE zeroes
    /\ UNCHANGED <<session, presence, gates, timers, subscriptions, tracked, waitsAt, closing,
                   drains, erased>>

\* Mutation of LeaveSession: it trusts the session its join found, but the join may have failed.
LeaveJoinedSession(p) ==
    /\ pc[p] = "leave"
    /\ session # None
    /\ members' = [members EXCEPT ![session] = @ \ {p}]
    /\ pc' = [pc EXCEPT ![p] = IF members'[session] = {} THEN "final" ELSE "count"]
    /\ zeroes' = IF members[session] = {p} THEN zeroes + 1 ELSE zeroes
    /\ UNCHANGED <<session, presence, gates, timers, subscriptions, tracked, at, waitsAt, closing,
                   drains, erased>>

\* DocumentSession.LeaveAsync removes the peer; with nobody left a snapshot is taken.
LeaveSession(p) ==
    /\ pc[p] = "leave"
    /\ session # None
    /\ at' = [at EXCEPT ![p] = session]
    /\ members' = [members EXCEPT ![session] = @ \ {p}]
    /\ pc' = [pc EXCEPT ![p] = IF members'[session] = {} THEN "final" ELSE "count"]
    /\ zeroes' = IF members[session] = {p} THEN zeroes + 1 ELSE zeroes
    /\ UNCHANGED <<session, presence, gates, timers, subscriptions, tracked, waitsAt, closing,
                   drains, erased>>

FinalSnapshot(p) ==
    /\ pc[p] = "final"
    /\ pc' = [pc EXCEPT ![p] = "count"]
    /\ UNCHANGED <<registry, gates, timers, subscriptions, tracked, at, waitsAt, closing, history>>

\* The store throws: the rest of the disconnect is skipped.
FinalSnapshotFails(p) ==
    /\ Faults
    /\ pc[p] = "final"
    /\ pc' = [pc EXCEPT ![p] = "gone"]
    /\ UNCHANGED <<registry, gates, timers, subscriptions, tracked, at, waitsAt, closing, history>>

\* Mutation of CountPeers: every disconnect is treated as the last one.
CountIgnored(p) ==
    /\ pc[p] = "count"
    /\ pc' = [pc EXCEPT ![p] = IF DrainHandlers THEN "drain" ELSE "arm"]
    /\ drains' = IF DrainHandlers THEN drains + 1 ELSE drains
    /\ UNCHANGED <<registry, gates, timers, subscriptions, tracked, at, waitsAt, closing, zeroes,
                   erased>>

\* ActivePeersCount is read again; the drain handlers are called if it is zero.
CountPeers(p) ==
    /\ pc[p] = "count"
    /\ \/ /\ members[at[p]] # {}
          /\ pc' = [pc EXCEPT ![p] = "gone"]
          /\ UNCHANGED drains
       \/ /\ members[at[p]] = {}
          /\ DrainHandlers
          /\ pc' = [pc EXCEPT ![p] = "drain"]
          /\ drains' = drains + 1
       \/ /\ members[at[p]] = {}
          /\ ~DrainHandlers
          /\ pc' = [pc EXCEPT ![p] = "arm"]
          /\ UNCHANGED drains
    /\ UNCHANGED <<registry, gates, timers, subscriptions, tracked, at, waitsAt, closing, zeroes,
                   erased>>

\* The handlers answered: keep the document, or delete it.
Drained(p) ==
    /\ pc[p] = "drain"
    /\ \/ /\ pc' = [pc EXCEPT ![p] = "arm"]
          /\ UNCHANGED closing
       \/ /\ pc' = [pc EXCEPT ![p] = "deleting"]
          /\ closing' = [closing EXCEPT ![p] = ClosingFor(TRUE)]
    /\ UNCHANGED <<registry, gates, timers, subscriptions, tracked, at, waitsAt, history>>

\* Mutation of ScheduleClosure: the timer it replaces is not disposed.
ScheduleKeepingOld(p) ==
    /\ pc[p] = "arm"
    /\ timer' = p
    /\ armed' = armed \cup {p}
    /\ pc' = [pc EXCEPT ![p] = "gone"]
    /\ UNCHANGED <<registry, gates, subscriptions, tracked, at, waitsAt, closing, history>>

ScheduleClosure(p) ==
    /\ pc[p] = "arm"
    /\ timer' = p
    /\ armed' = (armed \ {timer}) \cup {p}
    /\ pc' = [pc EXCEPT ![p] = "gone"]
    /\ UNCHANGED <<registry, gates, subscriptions, tracked, at, waitsAt, closing, history>>

LeaveStep(p) ==
    \/ LeaveNothing(p) \/ LeaveSession(p) \/ FinalSnapshot(p) \/ FinalSnapshotFails(p)
    \/ CountPeers(p) \/ Drained(p) \/ ScheduleClosure(p)

----------------------------------------------------------------------------
\* CloseSessionAsync, run by an idle timer, a drain that deletes, or an eviction.

IdleTimeout(p) ==
    /\ p \in armed
    /\ armed' = armed \ {p}
    /\ closing' = [closing EXCEPT ![p] = ClosingFor(FALSE)]
    /\ UNCHANGED <<registry, gates, timer, subscriptions, tracked, calls, history>>

\* EvictSessionAsync for a tenant, or DeleteDocument of the database commands.
Evict(e) ==
    /\ closing[e] = NotClosing
    /\ \E erases \in BOOLEAN : closing' = [closing EXCEPT ![e] = ClosingFor(erases)]
    /\ UNCHANGED <<registry, gates, timers, subscriptions, tracked, calls, history>>

CloseSession(c) ==
    /\ closing[c].step = "session"
    /\ session' = None
    /\ closing' = [closing EXCEPT ![c].step = "presence"]
    /\ UNCHANGED <<members, presence, gates, timers, subscriptions, tracked, calls, history>>

ClosePresence(c) ==
    /\ closing[c].step = "presence"
    /\ presence' = FALSE
    /\ closing' = [closing EXCEPT ![c].step = "subscription"]
    /\ UNCHANGED <<session, members, gates, timers, subscriptions, tracked, calls, history>>

CloseSubscription(c) ==
    /\ closing[c].step = "subscription"
    /\ sub' = None
    /\ closing' = [closing EXCEPT ![c].step = IF sub = None THEN "timer" ELSE "unsubscribe",
                                  ![c].drops = sub]
    /\ UNCHANGED <<registry, gates, timers, subs, tracked, calls, history>>

Unsubscribe(c) ==
    /\ closing[c].step = "unsubscribe"
    /\ subs' = subs \ {closing[c].drops}
    /\ closing' = [closing EXCEPT ![c].step = "timer", ![c].drops = None]
    /\ UNCHANGED <<registry, gates, timers, sub, tracked, calls, history>>

CloseTimer(c) ==
    /\ closing[c].step = "timer"
    /\ CancelIdleClosure
    /\ closing' = [closing EXCEPT ![c].step = "gate"]
    /\ UNCHANGED <<registry, gates, subscriptions, tracked, calls, history>>

\* The last step forgets the gate, whoever holds it or waits at it.
CloseGate(c) ==
    /\ closing[c].step = "gate"
    /\ gate' = None
    /\ IF closing[c].erases
       THEN closing' = [closing EXCEPT ![c].step = "erase"] /\ UNCHANGED pc
       ELSE /\ closing' = [closing EXCEPT ![c] = ClosedBy]
            /\ pc' = [p \in Peers |-> IF p = c THEN "gone" ELSE pc[p]]
    /\ UNCHANGED <<registry, holder, timers, subscriptions, tracked, at, waitsAt, history>>

\* The data is deleted, and the broadcast of it evicts the document on every node, this
\* one included: the close is run again.
Erase(c) ==
    /\ closing[c].step = "erase"
    /\ erased' = erased \cup {c}
    /\ closing' = [closing EXCEPT ![c] = ClosingFor(FALSE)]
    /\ UNCHANGED <<registry, gates, timers, subscriptions, tracked, calls, zeroes, drains>>

CloseStep(c) ==
    \/ CloseSession(c) \/ ClosePresence(c) \/ CloseSubscription(c) \/ Unsubscribe(c)
    \/ CloseTimer(c) \/ CloseGate(c) \/ Erase(c)

----------------------------------------------------------------------------

Init ==
    /\ session = None
    /\ members = [p \in Peers |-> {}]
    /\ presence = FALSE
    /\ gate = None
    /\ holder = [g \in Gates |-> None]
    /\ timer = None
    /\ armed = {}
    /\ sub = None
    /\ subs = {}
    /\ tracked = {}
    /\ pc = [p \in Peers |-> "new"]
    /\ at = [p \in Peers |-> None]
    /\ waitsAt = [p \in Peers |-> None]
    /\ closing = [c \in Closers |-> NotClosing]
    /\ zeroes = 0
    /\ drains = 0
    /\ erased = {}

Next ==
    \/ \E p \in Peers : JoinBegins(p) \/ JoinStep(p) \/ Disconnect(p) \/ LeaveStep(p) \/ IdleTimeout(p)
    \/ \E e \in Evictors : Evict(e)
    \/ \E c \in Closers : CloseStep(c)

Spec == Init /\ [][Next]_vars

\* Every awaited call returns or throws, a free gate is granted and a timer fires in the end.
\* Connections need neither come nor go.
FairSpec ==
    /\ Spec
    /\ \A p \in Peers : WF_vars(JoinStep(p)) /\ WF_vars(LeaveStep(p)) /\ WF_vars(IdleTimeout(p))
    /\ \A c \in Closers : WF_vars(CloseStep(c))

----------------------------------------------------------------------------
\* Properties.

Closing == [step : CloseSteps \cup {"idle", "done"}, drops : Peers \cup {None}, erases : BOOLEAN]

\* Types; a call past GetOrOpenAsync refers to a session, a waiting one to a gate.
TypeOK ==
    /\ session \in Peers \cup {None}
    /\ members \in [Peers -> SUBSET Peers]
    /\ presence \in BOOLEAN
    /\ gate \in Gates \cup {None}
    /\ holder \in [Gates -> Peers \cup {None}]
    /\ timer \in Peers \cup {None}
    /\ armed \subseteq Peers
    /\ sub \in Peers \cup {None}
    /\ subs \subseteq Peers
    /\ tracked \subseteq Peers
    /\ pc \in [Peers -> {"new", "joined", "refused", "gone"} \cup JoinSteps \cup LeaveSteps]
    /\ at \in [Peers -> Peers \cup {None}]
    /\ waitsAt \in [Peers -> Gates \cup {None}]
    /\ closing \in [Closers -> Closing]
    /\ zeroes \in Nat
    /\ drains \in Nat
    /\ erased \subseteq Closers
    /\ \A p \in Peers : pc[p] \in {"enter", "final", "count"} => at[p] # None
    /\ \A p \in Peers : pc[p] \in {"wait", "load", "attendWait"} => waitsAt[p] # None

\* A connection whose join was answered is an active peer of the session that operations and
\* the disconnect will be routed to (sessions.TryGet).
JoinedServed == \A p \in Joined : session # None /\ p \in members[session]

\* It receives the document's broadcasts: the registered subscription is live.
JoinedSubscribed == Joined # {} => sub # None /\ sub \in subs

\* No idle timer runs for a document that somebody has joined (SessionRegistryOptions).
JoinedNotTimed == Joined # {} => armed = {}

\* The registered session's peers are connected: none is left behind that would keep the
\* document from ever draining.
NoGhosts == session # None => \A p \in members[session] : pc[p] \notin {"new", "gone"}

\* Every timer that can still fire is the one a join would cancel.
TimersAccounted == armed \subseteq {timer}

\* Every live subscription is the registered one, or about to be registered or disposed.
SubscriptionsAccounted ==
    \A s \in subs :
        \/ s = sub
        \/ pc[s] = "keep"
        \/ \E c \in Closers : closing[c].step = "unsubscribe" /\ closing[c].drops = s

\* DocumentLockRegistry provides mutual exclusion: one call opens the document at a time.
OneOpener == Cardinality({p \in Peers : pc[p] = "load"}) <= 1

\* The drain handlers are called once each time the active-peer count becomes zero.
DrainedOncePerZero == drains <= zeroes

\* A drained document is deleted only while nobody has it open; it fails when a join
\* overlaps the decision of the drain handlers.
ErasedOnlyDrained ==
    [][\A c \in Closers : c \in erased' \ erased => Joined = {}]_vars

\* Once all connections are gone the session is closed, unless somebody joins again.
AllGone == \A p \in Peers : pc[p] \in {"new", "gone"}
IdleClosed == AllGone ~> (session = None \/ ~AllGone)

=============================================================================
