------------------------ MODULE DocumentLifecycleProofs ------------------------
(***************************************************************************)
(* Proofs about DocumentLifecycle, for every set of connections.           *)
(*                                                                         *)
(* Whatever overlaps whatever: types, NoGhosts, TimersAccounted and        *)
(* SubscriptionsAccounted.  When joins overlap neither disconnects nor     *)
(* closes and nobody evicts (Serialized): JoinedServed, JoinedSubscribed,  *)
(* JoinedNotTimed and OneOpener; DocumentLifecycle_closed_under_peer and   *)
(* DocumentLifecycle_two_openers show JoinedServed and OneOpener to need   *)
(* it.                                                                     *)
(***************************************************************************)
EXTENDS DocumentLifecycle, FiniteSetTheorems, TLAPS

\* The environment in which who joined stays served.
Serialized == ~Overlap /\ Evictors = {}

----------------------------------------------------------------------------
\* The inductive invariants, part by part.

\* Steps of a call before its session exists, and after its peer has left the session.
Opening == {"new", "find", "wait", "load"}
Left == {"final", "count", "drain", "arm", "deleting", "gone"}
Inside == {"attend", "attendWait", "check", "subscribe", "keep", "joined"}

\* What holds whatever overlaps what: a close is run by nobody who is still connected, a
\* session is entered only once it has been opened, and who left is in no registered session.
CloseInv ==
    /\ \A p \in Peers : pc[p] \notin {"gone", "deleting"} => closing[p] = NotClosing
    /\ \A p \in armed : pc[p] = "gone" /\ closing[p] = NotClosing

MemberInv ==
    /\ session # None => pc[session] \notin Opening
    /\ \A p \in Peers : pc[p] = "enter" => pc[at[p]] \notin Opening
    /\ \A s \in Peers : \A p \in members[s] :
          /\ pc[s] \notin Opening
          /\ pc[p] \notin Opening
          /\ pc[p] \in Left => session # s

\* A gate is held exactly by the call that loads behind it.
GateInv ==
    /\ \A p \in Peers : pc[p] = "load" => holder[waitsAt[p]] = p
    /\ \A g \in Gates : holder[g] # None => pc[holder[g]] = "load" /\ waitsAt[holder[g]] = g

AnyOverlapInv == TypeOK /\ CloseInv /\ MemberInv /\ GateInv /\ TimersAccounted /\ SubscriptionsAccounted

\* What holds when joins overlap neither disconnects nor closes.
PhaseInv ==
    /\ Joining # {} => Leaving = {} /\ ClosesInProgress = {} /\ armed = {}
    /\ Joined # {} => ClosesInProgress = {} /\ armed = {}
    /\ \A p \in Peers : pc[p] \in {"drain", "arm", "deleting"} => Joined = {}

ServedInv ==
    /\ \A p \in Peers : pc[p] \in {"final", "count"} => session \in {None, at[p]}
    /\ \A p \in Peers : pc[p] \in {"wait", "load", "attendWait"} => waitsAt[p] = gate
    /\ \A p \in Peers : pc[p] = "load" => session = None
    /\ \A p \in Peers : pc[p] = "enter" => at[p] = session
    /\ \A p \in Peers : pc[p] \in Inside => session # None /\ p \in members[session]

SubscribedInv ==
    /\ \A p \in Peers : pc[p] = "keep" => p \in subs
    /\ sub # None => sub \in subs /\ pc[sub] \notin JoinSteps \cup {"new"}
    /\ \A c \in Closers : closing[c].step = "unsubscribe" => sub = None
    /\ Joined # {} => sub # None

SerialInv == AnyOverlapInv /\ PhaseInv /\ ServedInv /\ SubscribedInv

USE DEF registry, gates, timers, subscriptions, calls, history

----------------------------------------------------------------------------
\* Each part is preserved by each action.

\* A step of a close changes one record of closing.
LEMMA ClosingType ==
    ASSUME TypeOK, NEW c \in Closers, NEW r \in Closing, closing' = [closing EXCEPT ![c] = r]
    PROVE  closing' \in [Closers -> Closing]
BY DEF TypeOK

\* The step of a close moves on, the rest of its record stays.
LEMMA CloseStepType ==
    ASSUME TypeOK, NEW c \in Closers, NEW s \in CloseSteps, closing' = [closing EXCEPT ![c].step = s]
    PROVE  closing' \in [Closers -> Closing]
<1>1. [closing[c] EXCEPT !.step = s] \in Closing
  BY DEF TypeOK, Closing
<1>. QED  BY <1>1, ClosingType

\* Its subscription too.
LEMMA CloseDropType ==
    ASSUME TypeOK, NEW c \in Closers, NEW s \in CloseSteps, NEW d \in Peers \cup {None},
           closing' = [closing EXCEPT ![c].step = s, ![c].drops = d]
    PROVE  closing' \in [Closers -> Closing]
<1>. DEFINE S == CloseSteps \cup {"idle", "done"}
            D == Peers \cup {None}
            E == BOOLEAN
<1>1. Closing = [step : S, drops : D, erases : E]
  BY DEF Closing
<1>2. closing \in [Closers -> [step : S, drops : D, erases : E]]
  BY <1>1 DEF TypeOK
<1>3. s \in S /\ d \in D
  OBVIOUS
<1>. HIDE DEF S, D, E
<1>. QED  BY <1>1, <1>2, <1>3

\* Every step keeps the types.
LEMMA TypeStep ==
    ASSUME TypeOK, [Next]_vars
    PROVE  TypeOK'
<1>1. ASSUME NEW p \in Peers, JoinBegins(p) PROVE TypeOK'
  BY <1>1, ConstantsAssumption DEF JoinBegins, CancelIdleClosure, TypeOK, Closing, Closers, Gates, JoinSteps, LeaveSteps, CloseSteps
<1>2. ASSUME NEW p \in Peers, FindSession(p) PROVE TypeOK'
  <2>1. <<p, "session">> \in Gates
    BY DEF Gates
  <2>2. gate' \in Gates \cup {None} /\ waitsAt' \in [Peers -> Gates \cup {None}]
    BY <1>2, <2>1 DEF FindSession, WaitAtGate, TypeOK
  <2>3. CASE session # None
    BY <1>2, <2>3, ConstantsAssumption DEF FindSession, TypeOK, JoinSteps
  <2>4. CASE session = None
    <3>1. waitsAt' = [waitsAt EXCEPT ![p] = gate'] /\ gate' # None
      BY <1>2, <2>1, <2>4, ConstantsAssumption DEF FindSession, WaitAtGate
    <3>. HIDE DEF Gates
    <3>. QED  BY <1>2, <2>2, <2>4, <3>1 DEF FindSession, WaitAtGate, TypeOK, Closing, Closers, JoinSteps, LeaveSteps, CloseSteps
  <2>. QED  BY <2>3, <2>4
<1>3. ASSUME NEW p \in Peers, FoundBehindGate(p) PROVE TypeOK'
  BY <1>3, ConstantsAssumption DEF FoundBehindGate, GateFree, TypeOK, Closing, Closers, Gates, JoinSteps, LeaveSteps, CloseSteps
<1>4. ASSUME NEW p \in Peers, BeginLoad(p) PROVE TypeOK'
  BY <1>4, ConstantsAssumption DEF BeginLoad, GateFree, TypeOK, Closing, Closers, Gates, JoinSteps, LeaveSteps, CloseSteps
<1>5. ASSUME NEW p \in Peers, Opened(p) PROVE TypeOK'
  BY <1>5, ConstantsAssumption DEF Opened, Release, TypeOK, Closing, Closers, Gates, JoinSteps, LeaveSteps, CloseSteps
<1>6. ASSUME NEW p \in Peers, OpenFails(p) PROVE TypeOK'
  BY <1>6, ConstantsAssumption DEF OpenFails, Release, TypeOK, Closing, Closers, Gates, JoinSteps, LeaveSteps, CloseSteps
<1>7. ASSUME NEW p \in Peers, Enter(p) PROVE TypeOK'
  BY <1>7, ConstantsAssumption DEF Enter, TypeOK, Closing, Closers, Gates, JoinSteps, LeaveSteps, CloseSteps
<1>8. ASSUME NEW p \in Peers, FindPresence(p) PROVE TypeOK'
  <2>1. <<p, "presence">> \in Gates
    BY DEF Gates
  <2>2. gate' \in Gates \cup {None} /\ waitsAt' \in [Peers -> Gates \cup {None}]
    BY <1>8, <2>1 DEF FindPresence, WaitAtGate, TypeOK
  <2>3. CASE presence
    BY <1>8, <2>3, ConstantsAssumption DEF FindPresence, TypeOK, JoinSteps
  <2>4. CASE ~presence
    <3>1. waitsAt' = [waitsAt EXCEPT ![p] = gate'] /\ gate' # None
      BY <1>8, <2>1, <2>4, ConstantsAssumption DEF FindPresence, WaitAtGate
    <3>. HIDE DEF Gates
    <3>. QED  BY <1>8, <2>2, <2>4, <3>1 DEF FindPresence, WaitAtGate, TypeOK, Closing, Closers, JoinSteps, LeaveSteps, CloseSteps
  <2>. QED  BY <2>3, <2>4
<1>9. ASSUME NEW p \in Peers, CreatePresence(p) PROVE TypeOK'
  BY <1>9, ConstantsAssumption DEF CreatePresence, GateFree, TypeOK, Closing, Closers, Gates, JoinSteps, LeaveSteps, CloseSteps
<1>10. ASSUME NEW p \in Peers, CheckSubscription(p) PROVE TypeOK'
  BY <1>10, ConstantsAssumption DEF CheckSubscription, TypeOK, Closing, Closers, Gates, JoinSteps, LeaveSteps, CloseSteps
<1>11. ASSUME NEW p \in Peers, Subscribe(p) PROVE TypeOK'
  BY <1>11, ConstantsAssumption DEF Subscribe, TypeOK, Closing, Closers, Gates, JoinSteps, LeaveSteps, CloseSteps
<1>12. ASSUME NEW p \in Peers, SubscribeFails(p) PROVE TypeOK'
  BY <1>12, ConstantsAssumption DEF SubscribeFails, TypeOK, Closing, Closers, Gates, JoinSteps, LeaveSteps, CloseSteps
<1>13. ASSUME NEW p \in Peers, KeepSubscription(p) PROVE TypeOK'
  BY <1>13, ConstantsAssumption DEF KeepSubscription, TypeOK, Closing, Closers, Gates, JoinSteps, LeaveSteps, CloseSteps
<1>14. ASSUME NEW p \in Peers, Disconnect(p) PROVE TypeOK'
  BY <1>14, ConstantsAssumption DEF Disconnect, TypeOK, Closing, Closers, Gates, JoinSteps, LeaveSteps, CloseSteps
<1>15. ASSUME NEW p \in Peers, LeaveNothing(p) PROVE TypeOK'
  BY <1>15, ConstantsAssumption DEF LeaveNothing, TypeOK, Closing, Closers, Gates, JoinSteps, LeaveSteps, CloseSteps
<1>16. ASSUME NEW p \in Peers, LeaveSession(p) PROVE TypeOK'
  BY <1>16, ConstantsAssumption DEF LeaveSession, TypeOK, Closing, Closers, Gates, JoinSteps, LeaveSteps, CloseSteps
<1>17. ASSUME NEW p \in Peers, FinalSnapshot(p) PROVE TypeOK'
  BY <1>17, ConstantsAssumption DEF FinalSnapshot, TypeOK, Closing, Closers, Gates, JoinSteps, LeaveSteps, CloseSteps
<1>18. ASSUME NEW p \in Peers, FinalSnapshotFails(p) PROVE TypeOK'
  BY <1>18, ConstantsAssumption DEF FinalSnapshotFails, TypeOK, Closing, Closers, Gates, JoinSteps, LeaveSteps, CloseSteps
<1>19. ASSUME NEW p \in Peers, CountPeers(p) PROVE TypeOK'
  <2>1. pc' \in [Peers -> {"new", "joined", "refused", "gone"} \cup JoinSteps \cup LeaveSteps]
    BY <1>19 DEF CountPeers, TypeOK, LeaveSteps
  <2>2. \A q \in Peers : pc'[q] = pc[q] \/ pc'[q] \in {"gone", "drain", "arm"}
    BY <1>19 DEF CountPeers, TypeOK
  <2>3. drains' \in Nat
    BY <1>19 DEF CountPeers, TypeOK
  <2>. QED  BY <1>19, <2>1, <2>2, <2>3 DEF CountPeers, TypeOK
<1>20. ASSUME NEW p \in Peers, Drained(p) PROVE TypeOK'
  <2>1. ClosingFor(TRUE) \in Closing
    BY DEF ClosingFor, Closing, CloseSteps
  <2>2. closing' \in [Closers -> Closing]
    BY <1>20, <2>1 DEF Drained, TypeOK, Closers
  <2>3. pc' \in [Peers -> {"new", "joined", "refused", "gone"} \cup JoinSteps \cup LeaveSteps]
    <3>1. \E s \in LeaveSteps : pc' = [pc EXCEPT ![p] = s]
      BY <1>20 DEF Drained, LeaveSteps
    <3>. QED  BY <3>1 DEF TypeOK
  <2>4. \A q \in Peers : pc'[q] = pc[q] \/ pc'[q] \in {"arm", "deleting"}
    BY <1>20 DEF Drained, TypeOK
  <2>. QED  BY <1>20, <2>2, <2>3, <2>4 DEF Drained, TypeOK
<1>21. ASSUME NEW p \in Peers, ScheduleClosure(p) PROVE TypeOK'
  BY <1>21, ConstantsAssumption DEF ScheduleClosure, TypeOK, Closing, Closers, Gates, JoinSteps, LeaveSteps, CloseSteps
<1>22. ASSUME NEW p \in Peers, IdleTimeout(p) PROVE TypeOK'
  BY <1>22, ConstantsAssumption DEF IdleTimeout, ClosingFor, TypeOK, Closing, Closers, Gates, JoinSteps, LeaveSteps, CloseSteps
<1>23. ASSUME NEW e \in Evictors, Evict(e) PROVE TypeOK'
  BY <1>23, ConstantsAssumption DEF Evict, ClosingFor, NotClosing, TypeOK, Closing, Closers, Gates, JoinSteps, LeaveSteps, CloseSteps
<1>24. ASSUME NEW c \in Closers, CloseSession(c) PROVE TypeOK'
  <2>1. closing' \in [Closers -> Closing]
    BY <1>24, CloseStepType DEF CloseSession, CloseSteps
  <2>. QED  BY <1>24, <2>1 DEF CloseSession, TypeOK
<1>25. ASSUME NEW c \in Closers, ClosePresence(c) PROVE TypeOK'
  <2>1. closing' \in [Closers -> Closing]
    BY <1>25, CloseStepType DEF ClosePresence, CloseSteps
  <2>2. presence' \in BOOLEAN
    BY <1>25 DEF ClosePresence
  <2>. QED  BY <1>25, <2>1, <2>2 DEF ClosePresence, TypeOK
<1>26. ASSUME NEW c \in Closers, CloseSubscription(c) PROVE TypeOK'
  <2>1. closing' \in [Closers -> Closing]
    <3>1. PICK s \in CloseSteps : closing' = [closing EXCEPT ![c].step = s, ![c].drops = sub]
      BY <1>26 DEF CloseSubscription, CloseSteps
    <3>. QED  BY <3>1, CloseDropType DEF TypeOK
  <2>. QED  BY <1>26, <2>1 DEF CloseSubscription, TypeOK
<1>27. ASSUME NEW c \in Closers, Unsubscribe(c) PROVE TypeOK'
  <2>1. closing' \in [Closers -> Closing]
    <3>1. closing' = [closing EXCEPT ![c].step = "timer", ![c].drops = None]
      BY <1>27 DEF Unsubscribe
    <3>2. "timer" \in CloseSteps
      BY DEF CloseSteps
    <3>. QED  BY <3>1, <3>2, CloseDropType
  <2>. QED  BY <1>27, <2>1 DEF Unsubscribe, TypeOK
<1>28. ASSUME NEW c \in Closers, CloseTimer(c) PROVE TypeOK'
  <2>1. closing' \in [Closers -> Closing]
    BY <1>28, CloseStepType DEF CloseTimer, CloseSteps
  <2>. QED  BY <1>28, <2>1 DEF CloseTimer, CancelIdleClosure, TypeOK
<1>29. ASSUME NEW c \in Closers, CloseGate(c) PROVE TypeOK'
  <2>1. closing' \in [Closers -> Closing]
    <3>1. CASE closing[c].erases
      BY <1>29, <3>1, CloseStepType DEF CloseGate, CloseSteps
    <3>2. CASE ~closing[c].erases
      <4>1. ClosedBy \in Closing
        BY DEF ClosedBy, Closing
      <4>. QED  BY <1>29, <3>2, <4>1 DEF CloseGate, TypeOK
    <3>. QED  BY <3>1, <3>2
  <2>2. pc' \in [Peers -> {"new", "joined", "refused", "gone"} \cup JoinSteps \cup LeaveSteps]
    BY <1>29 DEF CloseGate, TypeOK
  <2>3. \A q \in Peers : pc'[q] = pc[q] \/ pc'[q] = "gone"
    BY <1>29 DEF CloseGate, TypeOK
  <2>4. gate' \in Gates \cup {None}
    BY <1>29 DEF CloseGate
  <2>. QED  BY <1>29, <2>1, <2>2, <2>3, <2>4 DEF CloseGate, TypeOK
<1>30. ASSUME NEW c \in Closers, Erase(c) PROVE TypeOK'
  BY <1>30, ConstantsAssumption DEF Erase, ClosingFor, TypeOK, Closing, Closers, Gates, JoinSteps, LeaveSteps, CloseSteps
<1>31. CASE UNCHANGED vars
  BY <1>31, ConstantsAssumption DEF vars, calls, history, TypeOK, Closing, Closers, Gates, JoinSteps, LeaveSteps, CloseSteps
<1>. QED
  BY <1>1, <1>2, <1>3, <1>4, <1>5, <1>6, <1>7, <1>8, <1>9, <1>10, <1>11, <1>12, <1>13,
    <1>14, <1>15, <1>16, <1>17, <1>18, <1>19, <1>20, <1>21, <1>22, <1>23, <1>24, <1>25, <1>26,
    <1>27, <1>28, <1>29, <1>30, <1>31
    DEF Next, JoinStep, LeaveStep, CloseStep

\* Only a connection that is gone, or whose drain deletes, runs a close.
LEMMA CloseInvStep ==
    ASSUME TypeOK, CloseInv, [Next]_vars
    PROVE  CloseInv'
<1>1. ASSUME NEW p \in Peers, JoinBegins(p) PROVE CloseInv'
  BY <1>1 DEF JoinBegins, CancelIdleClosure, CloseInv, NotClosing, TypeOK
<1>2. ASSUME NEW p \in Peers, FindSession(p) PROVE CloseInv'
  BY <1>2 DEF FindSession, WaitAtGate, CloseInv, NotClosing, TypeOK
<1>3. ASSUME NEW p \in Peers, FoundBehindGate(p) PROVE CloseInv'
  BY <1>3 DEF FoundBehindGate, GateFree, CloseInv, NotClosing, TypeOK
<1>4. ASSUME NEW p \in Peers, BeginLoad(p) PROVE CloseInv'
  BY <1>4 DEF BeginLoad, GateFree, CloseInv, NotClosing, TypeOK
<1>5. ASSUME NEW p \in Peers, Opened(p) PROVE CloseInv'
  BY <1>5 DEF Opened, Release, CloseInv, NotClosing, TypeOK
<1>6. ASSUME NEW p \in Peers, OpenFails(p) PROVE CloseInv'
  BY <1>6 DEF OpenFails, Release, CloseInv, NotClosing, TypeOK
<1>7. ASSUME NEW p \in Peers, Enter(p) PROVE CloseInv'
  BY <1>7 DEF Enter, CloseInv, NotClosing, TypeOK
<1>8. ASSUME NEW p \in Peers, FindPresence(p) PROVE CloseInv'
  BY <1>8 DEF FindPresence, WaitAtGate, CloseInv, NotClosing, TypeOK
<1>9. ASSUME NEW p \in Peers, CreatePresence(p) PROVE CloseInv'
  BY <1>9 DEF CreatePresence, GateFree, CloseInv, NotClosing, TypeOK
<1>10. ASSUME NEW p \in Peers, CheckSubscription(p) PROVE CloseInv'
  BY <1>10 DEF CheckSubscription, CloseInv, NotClosing, TypeOK
<1>11. ASSUME NEW p \in Peers, Subscribe(p) PROVE CloseInv'
  BY <1>11 DEF Subscribe, CloseInv, NotClosing, TypeOK
<1>12. ASSUME NEW p \in Peers, SubscribeFails(p) PROVE CloseInv'
  BY <1>12 DEF SubscribeFails, CloseInv, NotClosing, TypeOK
<1>13. ASSUME NEW p \in Peers, KeepSubscription(p) PROVE CloseInv'
  BY <1>13 DEF KeepSubscription, CloseInv, NotClosing, TypeOK
<1>14. ASSUME NEW p \in Peers, Disconnect(p) PROVE CloseInv'
  BY <1>14 DEF Disconnect, CloseInv, NotClosing, TypeOK
<1>15. ASSUME NEW p \in Peers, LeaveNothing(p) PROVE CloseInv'
  BY <1>15 DEF LeaveNothing, CloseInv, NotClosing, TypeOK
<1>16. ASSUME NEW p \in Peers, LeaveSession(p) PROVE CloseInv'
  BY <1>16 DEF LeaveSession, CloseInv, NotClosing, TypeOK
<1>17. ASSUME NEW p \in Peers, FinalSnapshot(p) PROVE CloseInv'
  BY <1>17 DEF FinalSnapshot, CloseInv, NotClosing, TypeOK
<1>18. ASSUME NEW p \in Peers, FinalSnapshotFails(p) PROVE CloseInv'
  BY <1>18 DEF FinalSnapshotFails, CloseInv, NotClosing, TypeOK
<1>19. ASSUME NEW p \in Peers, CountPeers(p) PROVE CloseInv'
  BY <1>19 DEF CountPeers, CloseInv, NotClosing, TypeOK
<1>20. ASSUME NEW p \in Peers, Drained(p) PROVE CloseInv'
  BY <1>20 DEF Drained, ClosingFor, Closers, CloseInv, NotClosing, TypeOK
<1>21. ASSUME NEW p \in Peers, ScheduleClosure(p) PROVE CloseInv'
  BY <1>21 DEF ScheduleClosure, CloseInv, NotClosing, TypeOK
<1>22. ASSUME NEW p \in Peers, IdleTimeout(p) PROVE CloseInv'
  BY <1>22 DEF IdleTimeout, ClosingFor, Closers, CloseInv, NotClosing, TypeOK
<1>23. ASSUME NEW e \in Evictors, Evict(e) PROVE CloseInv'
  <2>1. \A q \in Peers : closing'[q] = closing[q]
    BY <1>23, ConstantsAssumption DEF Evict, TypeOK, Closers
  <2>. QED  BY <1>23, <2>1 DEF Evict, CloseInv, TypeOK
<1>24. ASSUME NEW c \in Closers, CloseSession(c) PROVE CloseInv'
  <2>1. c \in Peers => pc[c] \in {"gone", "deleting"} /\ c \notin armed
    BY <1>24 DEF CloseSession, CloseInv, NotClosing
  <2>2. \A q \in Peers \ {c} : closing'[q] = closing[q] /\ pc'[q] = pc[q]
    BY <1>24 DEF CloseSession, TypeOK, Closers
  <2>3. armed' \subseteq armed
    BY <1>24 DEF CloseSession
  <2>. QED  BY <1>24, <2>1, <2>2, <2>3 DEF CloseSession, CloseInv, TypeOK
<1>25. ASSUME NEW c \in Closers, ClosePresence(c) PROVE CloseInv'
  <2>1. c \in Peers => pc[c] \in {"gone", "deleting"} /\ c \notin armed
    BY <1>25 DEF ClosePresence, CloseInv, NotClosing
  <2>2. \A q \in Peers \ {c} : closing'[q] = closing[q] /\ pc'[q] = pc[q]
    BY <1>25 DEF ClosePresence, TypeOK, Closers
  <2>3. armed' \subseteq armed
    BY <1>25 DEF ClosePresence
  <2>. QED  BY <1>25, <2>1, <2>2, <2>3 DEF ClosePresence, CloseInv, TypeOK
<1>26. ASSUME NEW c \in Closers, CloseSubscription(c) PROVE CloseInv'
  <2>1. c \in Peers => pc[c] \in {"gone", "deleting"} /\ c \notin armed
    BY <1>26 DEF CloseSubscription, CloseInv, NotClosing
  <2>2. \A q \in Peers \ {c} : closing'[q] = closing[q] /\ pc'[q] = pc[q]
    BY <1>26 DEF CloseSubscription, TypeOK, Closers
  <2>3. armed' \subseteq armed
    BY <1>26 DEF CloseSubscription
  <2>. QED  BY <1>26, <2>1, <2>2, <2>3 DEF CloseSubscription, CloseInv, TypeOK
<1>27. ASSUME NEW c \in Closers, Unsubscribe(c) PROVE CloseInv'
  <2>1. c \in Peers => pc[c] \in {"gone", "deleting"} /\ c \notin armed
    BY <1>27 DEF Unsubscribe, CloseInv, NotClosing
  <2>2. \A q \in Peers \ {c} : closing'[q] = closing[q] /\ pc'[q] = pc[q]
    BY <1>27 DEF Unsubscribe, TypeOK, Closers
  <2>3. armed' \subseteq armed
    BY <1>27 DEF Unsubscribe
  <2>. QED  BY <1>27, <2>1, <2>2, <2>3 DEF Unsubscribe, CloseInv, TypeOK
<1>28. ASSUME NEW c \in Closers, CloseTimer(c) PROVE CloseInv'
  <2>1. c \in Peers => pc[c] \in {"gone", "deleting"} /\ c \notin armed
    BY <1>28 DEF CloseTimer, CloseInv, NotClosing
  <2>2. \A q \in Peers \ {c} : closing'[q] = closing[q] /\ pc'[q] = pc[q]
    BY <1>28 DEF CloseTimer, TypeOK, Closers
  <2>3. armed' \subseteq armed
    BY <1>28 DEF CloseTimer, CancelIdleClosure
  <2>. QED  BY <1>28, <2>1, <2>2, <2>3 DEF CloseTimer, CloseInv, TypeOK
<1>29. ASSUME NEW c \in Closers, CloseGate(c) PROVE CloseInv'
  <2>1. c \in Peers => pc[c] \in {"gone", "deleting"} /\ c \notin armed
    BY <1>29 DEF CloseGate, CloseInv, NotClosing
  <2>2. \A q \in Peers \ {c} : closing'[q] = closing[q] /\ pc'[q] = pc[q]
    BY <1>29 DEF CloseGate, TypeOK, Closers
  <2>3. armed' \subseteq armed
    BY <1>29 DEF CloseGate
  <2>4. c \in Peers => pc'[c] \in {"gone", pc[c]}
    BY <1>29 DEF CloseGate, TypeOK
  <2>. QED  BY <2>1, <2>2, <2>3, <2>4 DEF CloseInv, TypeOK
<1>30. ASSUME NEW c \in Closers, Erase(c) PROVE CloseInv'
  <2>1. c \in Peers => pc[c] \in {"gone", "deleting"} /\ c \notin armed
    BY <1>30 DEF Erase, CloseInv, NotClosing
  <2>2. \A q \in Peers \ {c} : closing'[q] = closing[q] /\ pc'[q] = pc[q]
    BY <1>30 DEF Erase, TypeOK, Closers
  <2>3. armed' \subseteq armed
    BY <1>30 DEF Erase
  <2>. QED  BY <1>30, <2>1, <2>2, <2>3 DEF Erase, CloseInv, TypeOK
<1>31. CASE UNCHANGED vars
  BY <1>31 DEF vars, calls, history, CloseInv, NotClosing, TypeOK
<1>. QED
  BY <1>1, <1>2, <1>3, <1>4, <1>5, <1>6, <1>7, <1>8, <1>9, <1>10, <1>11, <1>12, <1>13,
    <1>14, <1>15, <1>16, <1>17, <1>18, <1>19, <1>20, <1>21, <1>22, <1>23, <1>24, <1>25, <1>26,
    <1>27, <1>28, <1>29, <1>30, <1>31
    DEF Next, JoinStep, LeaveStep, CloseStep

\* Who has left is a peer of no session that is or will be registered.
LEMMA MemberInvStep ==
    ASSUME TypeOK, CloseInv, MemberInv, [Next]_vars
    PROVE  MemberInv'
<1>1. ASSUME NEW p \in Peers, JoinBegins(p) PROVE MemberInv'
  BY <1>1 DEF JoinBegins, CancelIdleClosure, MemberInv, Opening, Left, TypeOK
<1>2. ASSUME NEW p \in Peers, FindSession(p) PROVE MemberInv'
  BY <1>2, ConstantsAssumption DEF FindSession, WaitAtGate, MemberInv, Opening, Left, TypeOK
<1>3. ASSUME NEW p \in Peers, FoundBehindGate(p) PROVE MemberInv'
  BY <1>3, ConstantsAssumption DEF FoundBehindGate, GateFree, MemberInv, Opening, Left, TypeOK
<1>4. ASSUME NEW p \in Peers, BeginLoad(p) PROVE MemberInv'
  BY <1>4 DEF BeginLoad, GateFree, MemberInv, Opening, Left, TypeOK
<1>5. ASSUME NEW p \in Peers, Opened(p) PROVE MemberInv'
  BY <1>5, ConstantsAssumption DEF Opened, Release, MemberInv, Opening, Left, TypeOK
<1>6. ASSUME NEW p \in Peers, OpenFails(p) PROVE MemberInv'
  BY <1>6 DEF OpenFails, Release, MemberInv, Opening, Left, TypeOK
<1>7. ASSUME NEW p \in Peers, Enter(p) PROVE MemberInv'
  BY <1>7 DEF Enter, MemberInv, Opening, Left, TypeOK
<1>8. ASSUME NEW p \in Peers, FindPresence(p) PROVE MemberInv'
  BY <1>8 DEF FindPresence, WaitAtGate, MemberInv, Opening, Left, TypeOK
<1>9. ASSUME NEW p \in Peers, CreatePresence(p) PROVE MemberInv'
  BY <1>9 DEF CreatePresence, GateFree, MemberInv, Opening, Left, TypeOK
<1>10. ASSUME NEW p \in Peers, CheckSubscription(p) PROVE MemberInv'
  BY <1>10 DEF CheckSubscription, MemberInv, Opening, Left, TypeOK
<1>11. ASSUME NEW p \in Peers, Subscribe(p) PROVE MemberInv'
  BY <1>11 DEF Subscribe, MemberInv, Opening, Left, TypeOK
<1>12. ASSUME NEW p \in Peers, SubscribeFails(p) PROVE MemberInv'
  BY <1>12 DEF SubscribeFails, MemberInv, Opening, Left, TypeOK
<1>13. ASSUME NEW p \in Peers, KeepSubscription(p) PROVE MemberInv'
  BY <1>13 DEF KeepSubscription, MemberInv, Opening, Left, TypeOK
<1>14. ASSUME NEW p \in Peers, Disconnect(p) PROVE MemberInv'
  BY <1>14 DEF Disconnect, MemberInv, Opening, Left, TypeOK
<1>15. ASSUME NEW p \in Peers, LeaveNothing(p) PROVE MemberInv'
  BY <1>15, ConstantsAssumption DEF LeaveNothing, MemberInv, Opening, Left, TypeOK
<1>16. ASSUME NEW p \in Peers, LeaveSession(p) PROVE MemberInv'
  BY <1>16, ConstantsAssumption DEF LeaveSession, MemberInv, Opening, Left, TypeOK
<1>17. ASSUME NEW p \in Peers, FinalSnapshot(p) PROVE MemberInv'
  BY <1>17 DEF FinalSnapshot, MemberInv, Opening, Left, TypeOK
<1>18. ASSUME NEW p \in Peers, FinalSnapshotFails(p) PROVE MemberInv'
  BY <1>18 DEF FinalSnapshotFails, MemberInv, Opening, Left, TypeOK
<1>19. ASSUME NEW p \in Peers, CountPeers(p) PROVE MemberInv'
  BY <1>19 DEF CountPeers, MemberInv, Opening, Left, TypeOK
<1>20. ASSUME NEW p \in Peers, Drained(p) PROVE MemberInv'
  BY <1>20 DEF Drained, ClosingFor, MemberInv, Opening, Left, TypeOK
<1>21. ASSUME NEW p \in Peers, ScheduleClosure(p) PROVE MemberInv'
  BY <1>21 DEF ScheduleClosure, MemberInv, Opening, Left, TypeOK
<1>22. ASSUME NEW p \in Peers, IdleTimeout(p) PROVE MemberInv'
  BY <1>22 DEF IdleTimeout, ClosingFor, MemberInv, Opening, Left, TypeOK
<1>23. ASSUME NEW e \in Evictors, Evict(e) PROVE MemberInv'
  BY <1>23 DEF Evict, ClosingFor, NotClosing, MemberInv, Opening, Left, TypeOK
<1>24. ASSUME NEW c \in Closers, CloseSession(c) PROVE MemberInv'
  BY <1>24, ConstantsAssumption DEF CloseSession, MemberInv, Opening, Left, TypeOK
<1>25. ASSUME NEW c \in Closers, ClosePresence(c) PROVE MemberInv'
  BY <1>25 DEF ClosePresence, MemberInv, Opening, Left, TypeOK
<1>26. ASSUME NEW c \in Closers, CloseSubscription(c) PROVE MemberInv'
  BY <1>26 DEF CloseSubscription, MemberInv, Opening, Left, TypeOK
<1>27. ASSUME NEW c \in Closers, Unsubscribe(c) PROVE MemberInv'
  BY <1>27 DEF Unsubscribe, MemberInv, Opening, Left, TypeOK
<1>28. ASSUME NEW c \in Closers, CloseTimer(c) PROVE MemberInv'
  BY <1>28 DEF CloseTimer, CancelIdleClosure, NotClosing, MemberInv, Opening, Left, TypeOK
<1>29. ASSUME NEW c \in Closers, CloseGate(c) PROVE MemberInv'
  BY <1>29 DEF CloseGate, ClosedBy, CloseInv, NotClosing, MemberInv, Opening, Left, TypeOK
<1>30. ASSUME NEW c \in Closers, Erase(c) PROVE MemberInv'
  BY <1>30 DEF Erase, ClosingFor, MemberInv, Opening, Left, TypeOK
<1>31. CASE UNCHANGED vars
  BY <1>31 DEF vars, calls, history, MemberInv, Opening, Left, TypeOK
<1>. QED
  BY <1>1, <1>2, <1>3, <1>4, <1>5, <1>6, <1>7, <1>8, <1>9, <1>10, <1>11, <1>12, <1>13,
    <1>14, <1>15, <1>16, <1>17, <1>18, <1>19, <1>20, <1>21, <1>22, <1>23, <1>24, <1>25, <1>26,
    <1>27, <1>28, <1>29, <1>30, <1>31
    DEF Next, JoinStep, LeaveStep, CloseStep

\* A gate is held by the call that loads behind it.
LEMMA GateInvStep ==
    ASSUME TypeOK, CloseInv, GateInv, [Next]_vars
    PROVE  GateInv'
<1>1. ASSUME NEW p \in Peers, JoinBegins(p) PROVE GateInv'
  BY <1>1 DEF JoinBegins, CancelIdleClosure, GateInv, TypeOK
<1>2. ASSUME NEW p \in Peers, FindSession(p) PROVE GateInv'
  BY <1>2 DEF FindSession, WaitAtGate, GateInv, TypeOK
<1>3. ASSUME NEW p \in Peers, FoundBehindGate(p) PROVE GateInv'
  BY <1>3 DEF FoundBehindGate, GateFree, GateInv, TypeOK
<1>4. ASSUME NEW p \in Peers, BeginLoad(p) PROVE GateInv'
  BY <1>4, ConstantsAssumption DEF BeginLoad, GateFree, GateInv, TypeOK
<1>5. ASSUME NEW p \in Peers, Opened(p) PROVE GateInv'
  BY <1>5, ConstantsAssumption DEF Opened, Release, GateInv, TypeOK
<1>6. ASSUME NEW p \in Peers, OpenFails(p) PROVE GateInv'
  BY <1>6, ConstantsAssumption DEF OpenFails, Release, GateInv, TypeOK
<1>7. ASSUME NEW p \in Peers, Enter(p) PROVE GateInv'
  BY <1>7 DEF Enter, GateInv, TypeOK
<1>8. ASSUME NEW p \in Peers, FindPresence(p) PROVE GateInv'
  BY <1>8 DEF FindPresence, WaitAtGate, GateInv, TypeOK
<1>9. ASSUME NEW p \in Peers, CreatePresence(p) PROVE GateInv'
  BY <1>9 DEF CreatePresence, GateFree, GateInv, TypeOK
<1>10. ASSUME NEW p \in Peers, CheckSubscription(p) PROVE GateInv'
  BY <1>10 DEF CheckSubscription, GateInv, TypeOK
<1>11. ASSUME NEW p \in Peers, Subscribe(p) PROVE GateInv'
  BY <1>11 DEF Subscribe, GateInv, TypeOK
<1>12. ASSUME NEW p \in Peers, SubscribeFails(p) PROVE GateInv'
  BY <1>12 DEF SubscribeFails, GateInv, TypeOK
<1>13. ASSUME NEW p \in Peers, KeepSubscription(p) PROVE GateInv'
  BY <1>13 DEF KeepSubscription, GateInv, TypeOK
<1>14. ASSUME NEW p \in Peers, Disconnect(p) PROVE GateInv'
  BY <1>14 DEF Disconnect, GateInv, TypeOK
<1>15. ASSUME NEW p \in Peers, LeaveNothing(p) PROVE GateInv'
  BY <1>15 DEF LeaveNothing, GateInv, TypeOK
<1>16. ASSUME NEW p \in Peers, LeaveSession(p) PROVE GateInv'
  BY <1>16 DEF LeaveSession, GateInv, TypeOK
<1>17. ASSUME NEW p \in Peers, FinalSnapshot(p) PROVE GateInv'
  BY <1>17 DEF FinalSnapshot, GateInv, TypeOK
<1>18. ASSUME NEW p \in Peers, FinalSnapshotFails(p) PROVE GateInv'
  BY <1>18 DEF FinalSnapshotFails, GateInv, TypeOK
<1>19. ASSUME NEW p \in Peers, CountPeers(p) PROVE GateInv'
  BY <1>19 DEF CountPeers, GateInv, TypeOK
<1>20. ASSUME NEW p \in Peers, Drained(p) PROVE GateInv'
  BY <1>20 DEF Drained, ClosingFor, GateInv, TypeOK
<1>21. ASSUME NEW p \in Peers, ScheduleClosure(p) PROVE GateInv'
  BY <1>21 DEF ScheduleClosure, GateInv, TypeOK
<1>22. ASSUME NEW p \in Peers, IdleTimeout(p) PROVE GateInv'
  BY <1>22 DEF IdleTimeout, ClosingFor, GateInv, TypeOK
<1>23. ASSUME NEW e \in Evictors, Evict(e) PROVE GateInv'
  BY <1>23 DEF Evict, ClosingFor, NotClosing, GateInv, TypeOK
<1>24. ASSUME NEW c \in Closers, CloseSession(c) PROVE GateInv'
  BY <1>24 DEF CloseSession, GateInv, TypeOK
<1>25. ASSUME NEW c \in Closers, ClosePresence(c) PROVE GateInv'
  BY <1>25 DEF ClosePresence, GateInv, TypeOK
<1>26. ASSUME NEW c \in Closers, CloseSubscription(c) PROVE GateInv'
  BY <1>26 DEF CloseSubscription, GateInv, TypeOK
<1>27. ASSUME NEW c \in Closers, Unsubscribe(c) PROVE GateInv'
  BY <1>27 DEF Unsubscribe, GateInv, TypeOK
<1>28. ASSUME NEW c \in Closers, CloseTimer(c) PROVE GateInv'
  BY <1>28 DEF CloseTimer, CancelIdleClosure, NotClosing, GateInv, TypeOK
<1>29. ASSUME NEW c \in Closers, CloseGate(c) PROVE GateInv'
  BY <1>29 DEF CloseGate, ClosedBy, CloseInv, NotClosing, GateInv, TypeOK
<1>30. ASSUME NEW c \in Closers, Erase(c) PROVE GateInv'
  BY <1>30 DEF Erase, ClosingFor, GateInv, TypeOK
<1>31. CASE UNCHANGED vars
  BY <1>31 DEF vars, calls, history, GateInv, TypeOK
<1>. QED
  BY <1>1, <1>2, <1>3, <1>4, <1>5, <1>6, <1>7, <1>8, <1>9, <1>10, <1>11, <1>12, <1>13,
    <1>14, <1>15, <1>16, <1>17, <1>18, <1>19, <1>20, <1>21, <1>22, <1>23, <1>24, <1>25, <1>26,
    <1>27, <1>28, <1>29, <1>30, <1>31
    DEF Next, JoinStep, LeaveStep, CloseStep

\* A timer in the table is disposed before it is replaced or removed.
LEMMA TimersStep ==
    ASSUME TypeOK, TimersAccounted, [Next]_vars
    PROVE  TimersAccounted'
<1>1. ASSUME NEW p \in Peers, JoinBegins(p) PROVE TimersAccounted'
  BY <1>1 DEF JoinBegins, CancelIdleClosure, TimersAccounted, TypeOK
<1>2. ASSUME NEW p \in Peers, FindSession(p) PROVE TimersAccounted'
  BY <1>2 DEF FindSession, WaitAtGate, TimersAccounted, TypeOK
<1>3. ASSUME NEW p \in Peers, FoundBehindGate(p) PROVE TimersAccounted'
  BY <1>3 DEF FoundBehindGate, GateFree, TimersAccounted, TypeOK
<1>4. ASSUME NEW p \in Peers, BeginLoad(p) PROVE TimersAccounted'
  BY <1>4 DEF BeginLoad, GateFree, TimersAccounted, TypeOK
<1>5. ASSUME NEW p \in Peers, Opened(p) PROVE TimersAccounted'
  BY <1>5 DEF Opened, Release, TimersAccounted, TypeOK
<1>6. ASSUME NEW p \in Peers, OpenFails(p) PROVE TimersAccounted'
  BY <1>6 DEF OpenFails, Release, TimersAccounted, TypeOK
<1>7. ASSUME NEW p \in Peers, Enter(p) PROVE TimersAccounted'
  BY <1>7 DEF Enter, TimersAccounted, TypeOK
<1>8. ASSUME NEW p \in Peers, FindPresence(p) PROVE TimersAccounted'
  BY <1>8 DEF FindPresence, WaitAtGate, TimersAccounted, TypeOK
<1>9. ASSUME NEW p \in Peers, CreatePresence(p) PROVE TimersAccounted'
  BY <1>9 DEF CreatePresence, GateFree, TimersAccounted, TypeOK
<1>10. ASSUME NEW p \in Peers, CheckSubscription(p) PROVE TimersAccounted'
  BY <1>10 DEF CheckSubscription, TimersAccounted, TypeOK
<1>11. ASSUME NEW p \in Peers, Subscribe(p) PROVE TimersAccounted'
  BY <1>11 DEF Subscribe, TimersAccounted, TypeOK
<1>12. ASSUME NEW p \in Peers, SubscribeFails(p) PROVE TimersAccounted'
  BY <1>12 DEF SubscribeFails, TimersAccounted, TypeOK
<1>13. ASSUME NEW p \in Peers, KeepSubscription(p) PROVE TimersAccounted'
  BY <1>13 DEF KeepSubscription, TimersAccounted, TypeOK
<1>14. ASSUME NEW p \in Peers, Disconnect(p) PROVE TimersAccounted'
  BY <1>14 DEF Disconnect, TimersAccounted, TypeOK
<1>15. ASSUME NEW p \in Peers, LeaveNothing(p) PROVE TimersAccounted'
  BY <1>15 DEF LeaveNothing, TimersAccounted, TypeOK
<1>16. ASSUME NEW p \in Peers, LeaveSession(p) PROVE TimersAccounted'
  BY <1>16 DEF LeaveSession, TimersAccounted, TypeOK
<1>17. ASSUME NEW p \in Peers, FinalSnapshot(p) PROVE TimersAccounted'
  BY <1>17 DEF FinalSnapshot, TimersAccounted, TypeOK
<1>18. ASSUME NEW p \in Peers, FinalSnapshotFails(p) PROVE TimersAccounted'
  BY <1>18 DEF FinalSnapshotFails, TimersAccounted, TypeOK
<1>19. ASSUME NEW p \in Peers, CountPeers(p) PROVE TimersAccounted'
  BY <1>19 DEF CountPeers, TimersAccounted, TypeOK
<1>20. ASSUME NEW p \in Peers, Drained(p) PROVE TimersAccounted'
  BY <1>20 DEF Drained, ClosingFor, TimersAccounted, TypeOK
<1>21. ASSUME NEW p \in Peers, ScheduleClosure(p) PROVE TimersAccounted'
  BY <1>21 DEF ScheduleClosure, TimersAccounted, TypeOK
<1>22. ASSUME NEW p \in Peers, IdleTimeout(p) PROVE TimersAccounted'
  BY <1>22 DEF IdleTimeout, ClosingFor, TimersAccounted, TypeOK
<1>23. ASSUME NEW e \in Evictors, Evict(e) PROVE TimersAccounted'
  BY <1>23 DEF Evict, ClosingFor, NotClosing, TimersAccounted, TypeOK
<1>24. ASSUME NEW c \in Closers, CloseSession(c) PROVE TimersAccounted'
  BY <1>24 DEF CloseSession, TimersAccounted, TypeOK
<1>25. ASSUME NEW c \in Closers, ClosePresence(c) PROVE TimersAccounted'
  BY <1>25 DEF ClosePresence, TimersAccounted, TypeOK
<1>26. ASSUME NEW c \in Closers, CloseSubscription(c) PROVE TimersAccounted'
  BY <1>26 DEF CloseSubscription, TimersAccounted, TypeOK
<1>27. ASSUME NEW c \in Closers, Unsubscribe(c) PROVE TimersAccounted'
  BY <1>27 DEF Unsubscribe, TimersAccounted, TypeOK
<1>28. ASSUME NEW c \in Closers, CloseTimer(c) PROVE TimersAccounted'
  BY <1>28 DEF CloseTimer, CancelIdleClosure, NotClosing, TimersAccounted, TypeOK
<1>29. ASSUME NEW c \in Closers, CloseGate(c) PROVE TimersAccounted'
  BY <1>29 DEF CloseGate, ClosedBy, TimersAccounted, TypeOK
<1>30. ASSUME NEW c \in Closers, Erase(c) PROVE TimersAccounted'
  BY <1>30 DEF Erase, ClosingFor, TimersAccounted, TypeOK
<1>31. CASE UNCHANGED vars
  BY <1>31 DEF vars, calls, history, TimersAccounted, TypeOK
<1>. QED
  BY <1>1, <1>2, <1>3, <1>4, <1>5, <1>6, <1>7, <1>8, <1>9, <1>10, <1>11, <1>12, <1>13,
    <1>14, <1>15, <1>16, <1>17, <1>18, <1>19, <1>20, <1>21, <1>22, <1>23, <1>24, <1>25, <1>26,
    <1>27, <1>28, <1>29, <1>30, <1>31
    DEF Next, JoinStep, LeaveStep, CloseStep

\* A subscription that leaves the table is being disposed.
LEMMA SubscriptionsStep ==
    ASSUME TypeOK, CloseInv, SubscriptionsAccounted, [Next]_vars
    PROVE  SubscriptionsAccounted'
<1>1. ASSUME NEW p \in Peers, JoinBegins(p) PROVE SubscriptionsAccounted'
  BY <1>1 DEF JoinBegins, CancelIdleClosure, SubscriptionsAccounted, TypeOK, Closers
<1>2. ASSUME NEW p \in Peers, FindSession(p) PROVE SubscriptionsAccounted'
  BY <1>2 DEF FindSession, WaitAtGate, SubscriptionsAccounted, TypeOK, Closers
<1>3. ASSUME NEW p \in Peers, FoundBehindGate(p) PROVE SubscriptionsAccounted'
  BY <1>3 DEF FoundBehindGate, GateFree, SubscriptionsAccounted, TypeOK, Closers
<1>4. ASSUME NEW p \in Peers, BeginLoad(p) PROVE SubscriptionsAccounted'
  BY <1>4 DEF BeginLoad, GateFree, SubscriptionsAccounted, TypeOK, Closers
<1>5. ASSUME NEW p \in Peers, Opened(p) PROVE SubscriptionsAccounted'
  BY <1>5 DEF Opened, Release, SubscriptionsAccounted, TypeOK, Closers
<1>6. ASSUME NEW p \in Peers, OpenFails(p) PROVE SubscriptionsAccounted'
  BY <1>6 DEF OpenFails, Release, SubscriptionsAccounted, TypeOK, Closers
<1>7. ASSUME NEW p \in Peers, Enter(p) PROVE SubscriptionsAccounted'
  BY <1>7 DEF Enter, SubscriptionsAccounted, TypeOK, Closers
<1>8. ASSUME NEW p \in Peers, FindPresence(p) PROVE SubscriptionsAccounted'
  BY <1>8 DEF FindPresence, WaitAtGate, SubscriptionsAccounted, TypeOK, Closers
<1>9. ASSUME NEW p \in Peers, CreatePresence(p) PROVE SubscriptionsAccounted'
  BY <1>9 DEF CreatePresence, GateFree, SubscriptionsAccounted, TypeOK, Closers
<1>10. ASSUME NEW p \in Peers, CheckSubscription(p) PROVE SubscriptionsAccounted'
  BY <1>10 DEF CheckSubscription, SubscriptionsAccounted, TypeOK, Closers
<1>11. ASSUME NEW p \in Peers, Subscribe(p) PROVE SubscriptionsAccounted'
  BY <1>11 DEF Subscribe, SubscriptionsAccounted, TypeOK, Closers
<1>12. ASSUME NEW p \in Peers, SubscribeFails(p) PROVE SubscriptionsAccounted'
  BY <1>12 DEF SubscribeFails, SubscriptionsAccounted, TypeOK, Closers
<1>13. ASSUME NEW p \in Peers, KeepSubscription(p) PROVE SubscriptionsAccounted'
  BY <1>13, ConstantsAssumption DEF KeepSubscription, SubscriptionsAccounted, TypeOK, Closers
<1>14. ASSUME NEW p \in Peers, Disconnect(p) PROVE SubscriptionsAccounted'
  BY <1>14 DEF Disconnect, SubscriptionsAccounted, TypeOK, Closers
<1>15. ASSUME NEW p \in Peers, LeaveNothing(p) PROVE SubscriptionsAccounted'
  BY <1>15 DEF LeaveNothing, SubscriptionsAccounted, TypeOK, Closers
<1>16. ASSUME NEW p \in Peers, LeaveSession(p) PROVE SubscriptionsAccounted'
  BY <1>16 DEF LeaveSession, SubscriptionsAccounted, TypeOK, Closers
<1>17. ASSUME NEW p \in Peers, FinalSnapshot(p) PROVE SubscriptionsAccounted'
  BY <1>17 DEF FinalSnapshot, SubscriptionsAccounted, TypeOK, Closers
<1>18. ASSUME NEW p \in Peers, FinalSnapshotFails(p) PROVE SubscriptionsAccounted'
  BY <1>18 DEF FinalSnapshotFails, SubscriptionsAccounted, TypeOK, Closers
<1>19. ASSUME NEW p \in Peers, CountPeers(p) PROVE SubscriptionsAccounted'
  BY <1>19 DEF CountPeers, SubscriptionsAccounted, TypeOK, Closers
<1>20. ASSUME NEW p \in Peers, Drained(p) PROVE SubscriptionsAccounted'
  BY <1>20 DEF Drained, ClosingFor, CloseInv, NotClosing, SubscriptionsAccounted, TypeOK, Closers
<1>21. ASSUME NEW p \in Peers, ScheduleClosure(p) PROVE SubscriptionsAccounted'
  BY <1>21 DEF ScheduleClosure, SubscriptionsAccounted, TypeOK, Closers
<1>22. ASSUME NEW p \in Peers, IdleTimeout(p) PROVE SubscriptionsAccounted'
  BY <1>22 DEF IdleTimeout, ClosingFor, CloseInv, NotClosing, SubscriptionsAccounted, TypeOK, Closers
<1>23. ASSUME NEW e \in Evictors, Evict(e) PROVE SubscriptionsAccounted'
  BY <1>23, ConstantsAssumption DEF Evict, ClosingFor, NotClosing, CloseInv, SubscriptionsAccounted, TypeOK, Closers
<1>24. ASSUME NEW c \in Closers, CloseSession(c) PROVE SubscriptionsAccounted'
  BY <1>24 DEF CloseSession, SubscriptionsAccounted, TypeOK, Closers
<1>25. ASSUME NEW c \in Closers, ClosePresence(c) PROVE SubscriptionsAccounted'
  BY <1>25 DEF ClosePresence, SubscriptionsAccounted, TypeOK, Closers
<1>26. ASSUME NEW c \in Closers, CloseSubscription(c) PROVE SubscriptionsAccounted'
  BY <1>26, ConstantsAssumption DEF CloseSubscription, SubscriptionsAccounted, TypeOK, Closers
<1>27. ASSUME NEW c \in Closers, Unsubscribe(c) PROVE SubscriptionsAccounted'
  BY <1>27 DEF Unsubscribe, SubscriptionsAccounted, TypeOK, Closers
<1>28. ASSUME NEW c \in Closers, CloseTimer(c) PROVE SubscriptionsAccounted'
  BY <1>28 DEF CloseTimer, CancelIdleClosure, NotClosing, SubscriptionsAccounted, TypeOK, Closers
<1>29. ASSUME NEW c \in Closers, CloseGate(c) PROVE SubscriptionsAccounted'
  <2>1. \A d \in Closers : closing[d].step = "unsubscribe" => closing'[d] = closing[d]
    BY <1>29 DEF CloseGate, TypeOK
  <2>2. \A s \in Peers : pc[s] = "keep" => pc'[s] = "keep"
    BY <1>29 DEF CloseGate, CloseInv, NotClosing, TypeOK
  <2>. QED  BY <1>29, <2>1, <2>2 DEF CloseGate, SubscriptionsAccounted, TypeOK
<1>30. ASSUME NEW c \in Closers, Erase(c) PROVE SubscriptionsAccounted'
  BY <1>30 DEF Erase, ClosingFor, SubscriptionsAccounted, TypeOK, Closers
<1>31. CASE UNCHANGED vars
  BY <1>31 DEF vars, calls, history, SubscriptionsAccounted, TypeOK, Closers
<1>. QED
  BY <1>1, <1>2, <1>3, <1>4, <1>5, <1>6, <1>7, <1>8, <1>9, <1>10, <1>11, <1>12, <1>13,
    <1>14, <1>15, <1>16, <1>17, <1>18, <1>19, <1>20, <1>21, <1>22, <1>23, <1>24, <1>25, <1>26,
    <1>27, <1>28, <1>29, <1>30, <1>31
    DEF Next, JoinStep, LeaveStep, CloseStep

\* Joins, disconnects and closes take turns, and only an abandoned document is timed or closed.
LEMMA PhaseInvStep ==
    ASSUME Serialized, TypeOK, CloseInv, MemberInv, TimersAccounted, PhaseInv, ServedInv, [Next]_vars
    PROVE  PhaseInv'
<1>1. ASSUME NEW p \in Peers, JoinBegins(p) PROVE PhaseInv'
  BY <1>1 DEF JoinBegins, CancelIdleClosure, Serialized, TimersAccounted, PhaseInv, Joining, Leaving, Joined, ClosesInProgress, JoinSteps, LeaveSteps, TypeOK
<1>2. ASSUME NEW p \in Peers, FindSession(p) PROVE PhaseInv'
  BY <1>2 DEF FindSession, WaitAtGate, PhaseInv, Joining, Leaving, Joined, ClosesInProgress, JoinSteps, LeaveSteps, TypeOK
<1>3. ASSUME NEW p \in Peers, FoundBehindGate(p) PROVE PhaseInv'
  BY <1>3 DEF FoundBehindGate, GateFree, PhaseInv, Joining, Leaving, Joined, ClosesInProgress, JoinSteps, LeaveSteps, TypeOK
<1>4. ASSUME NEW p \in Peers, BeginLoad(p) PROVE PhaseInv'
  BY <1>4 DEF BeginLoad, GateFree, PhaseInv, Joining, Leaving, Joined, ClosesInProgress, JoinSteps, LeaveSteps, TypeOK
<1>5. ASSUME NEW p \in Peers, Opened(p) PROVE PhaseInv'
  BY <1>5 DEF Opened, Release, PhaseInv, Joining, Leaving, Joined, ClosesInProgress, JoinSteps, LeaveSteps, TypeOK
<1>6. ASSUME NEW p \in Peers, OpenFails(p) PROVE PhaseInv'
  BY <1>6 DEF OpenFails, Release, PhaseInv, Joining, Leaving, Joined, ClosesInProgress, JoinSteps, LeaveSteps, TypeOK
<1>7. ASSUME NEW p \in Peers, Enter(p) PROVE PhaseInv'
  BY <1>7 DEF Enter, PhaseInv, Joining, Leaving, Joined, ClosesInProgress, JoinSteps, LeaveSteps, TypeOK
<1>8. ASSUME NEW p \in Peers, FindPresence(p) PROVE PhaseInv'
  BY <1>8 DEF FindPresence, WaitAtGate, PhaseInv, Joining, Leaving, Joined, ClosesInProgress, JoinSteps, LeaveSteps, TypeOK
<1>9. ASSUME NEW p \in Peers, CreatePresence(p) PROVE PhaseInv'
  BY <1>9 DEF CreatePresence, GateFree, PhaseInv, Joining, Leaving, Joined, ClosesInProgress, JoinSteps, LeaveSteps, TypeOK
<1>10. ASSUME NEW p \in Peers, CheckSubscription(p) PROVE PhaseInv'
  BY <1>10 DEF CheckSubscription, PhaseInv, Joining, Leaving, Joined, ClosesInProgress, JoinSteps, LeaveSteps, TypeOK
<1>11. ASSUME NEW p \in Peers, Subscribe(p) PROVE PhaseInv'
  BY <1>11 DEF Subscribe, PhaseInv, Joining, Leaving, Joined, ClosesInProgress, JoinSteps, LeaveSteps, TypeOK
<1>12. ASSUME NEW p \in Peers, SubscribeFails(p) PROVE PhaseInv'
  BY <1>12 DEF SubscribeFails, PhaseInv, Joining, Leaving, Joined, ClosesInProgress, JoinSteps, LeaveSteps, TypeOK
<1>13. ASSUME NEW p \in Peers, KeepSubscription(p) PROVE PhaseInv'
  BY <1>13 DEF KeepSubscription, PhaseInv, Joining, Leaving, Joined, ClosesInProgress, JoinSteps, LeaveSteps, TypeOK
<1>14. ASSUME NEW p \in Peers, Disconnect(p) PROVE PhaseInv'
  BY <1>14 DEF Disconnect, Serialized, PhaseInv, Joining, Leaving, Joined, ClosesInProgress, JoinSteps, LeaveSteps, TypeOK
<1>15. ASSUME NEW p \in Peers, LeaveNothing(p) PROVE PhaseInv'
  BY <1>15 DEF LeaveNothing, PhaseInv, Joining, Leaving, Joined, ClosesInProgress, JoinSteps, LeaveSteps, TypeOK
<1>16. ASSUME NEW p \in Peers, LeaveSession(p) PROVE PhaseInv'
  BY <1>16 DEF LeaveSession, PhaseInv, Joining, Leaving, Joined, ClosesInProgress, JoinSteps, LeaveSteps, TypeOK
<1>17. ASSUME NEW p \in Peers, FinalSnapshot(p) PROVE PhaseInv'
  BY <1>17 DEF FinalSnapshot, PhaseInv, Joining, Leaving, Joined, ClosesInProgress, JoinSteps, LeaveSteps, TypeOK
<1>18. ASSUME NEW p \in Peers, FinalSnapshotFails(p) PROVE PhaseInv'
  BY <1>18 DEF FinalSnapshotFails, PhaseInv, Joining, Leaving, Joined, ClosesInProgress, JoinSteps, LeaveSteps, TypeOK
<1>19. ASSUME NEW p \in Peers, CountPeers(p) PROVE PhaseInv'
  <2>1. ASSUME members[at[p]] = {} PROVE Joined = {}
    BY <1>19, <2>1 DEF CountPeers, ServedInv, Inside, Joined, TypeOK
  <2>2. pc[p] \in LeaveSteps /\ pc' = [pc EXCEPT ![p] = pc'[p]]
    BY <1>19 DEF CountPeers, LeaveSteps, TypeOK
  <2>3. pc'[p] \in {"gone", "drain", "arm"} /\ (pc'[p] # "gone" => Joined = {})
    BY <1>19, <2>1 DEF CountPeers, TypeOK
  <2>. QED
    BY <1>19, <2>2, <2>3 DEF CountPeers, PhaseInv, Joining, Leaving, Joined, ClosesInProgress, JoinSteps,
       LeaveSteps, TypeOK
<1>20. ASSUME NEW p \in Peers, Drained(p) PROVE PhaseInv'
  BY <1>20 DEF Drained, ClosingFor, Closers, CloseSteps, PhaseInv, Joining, Leaving, Joined, ClosesInProgress, JoinSteps, LeaveSteps, TypeOK
<1>21. ASSUME NEW p \in Peers, ScheduleClosure(p) PROVE PhaseInv'
  BY <1>21 DEF ScheduleClosure, PhaseInv, Joining, Leaving, Joined, ClosesInProgress, JoinSteps, LeaveSteps, TypeOK
<1>22. ASSUME NEW p \in Peers, IdleTimeout(p) PROVE PhaseInv'
  BY <1>22 DEF IdleTimeout, ClosingFor, Closers, CloseSteps, PhaseInv, Joining, Leaving, Joined, ClosesInProgress, JoinSteps, LeaveSteps, TypeOK
<1>23. ASSUME NEW e \in Evictors, Evict(e) PROVE PhaseInv'
  BY <1>23 DEF Serialized
<1>24. ASSUME NEW c \in Closers, CloseSession(c) PROVE PhaseInv'
  BY <1>24 DEF CloseSession, Closers, CloseSteps, PhaseInv, Joining, Leaving, Joined, ClosesInProgress, JoinSteps, LeaveSteps, TypeOK
<1>25. ASSUME NEW c \in Closers, ClosePresence(c) PROVE PhaseInv'
  BY <1>25 DEF ClosePresence, Closers, CloseSteps, PhaseInv, Joining, Leaving, Joined, ClosesInProgress, JoinSteps, LeaveSteps, TypeOK
<1>26. ASSUME NEW c \in Closers, CloseSubscription(c) PROVE PhaseInv'
  BY <1>26 DEF CloseSubscription, Closers, CloseSteps, PhaseInv, Joining, Leaving, Joined, ClosesInProgress, JoinSteps, LeaveSteps, TypeOK
<1>27. ASSUME NEW c \in Closers, Unsubscribe(c) PROVE PhaseInv'
  BY <1>27 DEF Unsubscribe, Closers, CloseSteps, PhaseInv, Joining, Leaving, Joined, ClosesInProgress, JoinSteps, LeaveSteps, TypeOK
<1>28. ASSUME NEW c \in Closers, CloseTimer(c) PROVE PhaseInv'
  BY <1>28 DEF CloseTimer, CancelIdleClosure, NotClosing, Closers, CloseSteps, PhaseInv, Joining, Leaving, Joined, ClosesInProgress, JoinSteps, LeaveSteps, TypeOK
<1>29. ASSUME NEW c \in Closers, CloseGate(c) PROVE PhaseInv'
  BY <1>29 DEF CloseGate, ClosedBy, Closers, CloseSteps, PhaseInv, Joining, Leaving, Joined, ClosesInProgress, JoinSteps, LeaveSteps, TypeOK
<1>30. ASSUME NEW c \in Closers, Erase(c) PROVE PhaseInv'
  BY <1>30 DEF Erase, ClosingFor, Closers, CloseSteps, PhaseInv, Joining, Leaving, Joined, ClosesInProgress, JoinSteps, LeaveSteps, TypeOK
<1>31. CASE UNCHANGED vars
  BY <1>31 DEF vars, calls, history, PhaseInv, Joining, Leaving, Joined, ClosesInProgress, JoinSteps, LeaveSteps, TypeOK
<1>. QED
  BY <1>1, <1>2, <1>3, <1>4, <1>5, <1>6, <1>7, <1>8, <1>9, <1>10, <1>11, <1>12, <1>13,
    <1>14, <1>15, <1>16, <1>17, <1>18, <1>19, <1>20, <1>21, <1>22, <1>23, <1>24, <1>25, <1>26,
    <1>27, <1>28, <1>29, <1>30, <1>31
    DEF Next, JoinStep, LeaveStep, CloseStep

\* A call joins the registered session and nothing removes it while it stays.
LEMMA ServedInvStep ==
    ASSUME Serialized, TypeOK, CloseInv, GateInv, PhaseInv, ServedInv, [Next]_vars
    PROVE  ServedInv'
<1>1. ASSUME NEW p \in Peers, JoinBegins(p) PROVE ServedInv'
  BY <1>1 DEF JoinBegins, CancelIdleClosure, ServedInv, Inside, TypeOK
<1>2. ASSUME NEW p \in Peers, FindSession(p) PROVE ServedInv'
  BY <1>2 DEF FindSession, WaitAtGate, ServedInv, Inside, TypeOK
<1>3. ASSUME NEW p \in Peers, FoundBehindGate(p) PROVE ServedInv'
  BY <1>3 DEF FoundBehindGate, GateFree, ServedInv, Inside, TypeOK
<1>4. ASSUME NEW p \in Peers, BeginLoad(p) PROVE ServedInv'
  BY <1>4 DEF BeginLoad, GateFree, ServedInv, Inside, TypeOK
<1>5. ASSUME NEW p \in Peers, Opened(p) PROVE ServedInv'
  <2>1. \A q \in Peers : pc[q] \notin LeaveSteps
    BY <1>5 DEF Opened, PhaseInv, Joining, Leaving, JoinSteps
  <2>2. session = None /\ session' = p
    BY <1>5 DEF Opened, ServedInv
  <2>3. \A q \in Peers \ {p} : pc[q] \notin {"load", "enter"} \cup Inside
    <3>1. \A q \in Peers \ {p} : pc[q] # "load"
      BY <1>5 DEF Opened, ServedInv, GateInv
    <3>2. \A q \in Peers : pc[q] \notin {"enter"} \cup Inside
      BY <2>2 DEF ServedInv, Inside, TypeOK
    <3>. QED  BY <3>1, <3>2
  <2>. QED
    BY <1>5, <2>1, <2>2, <2>3, ConstantsAssumption DEF Opened, ServedInv, Inside, LeaveSteps, TypeOK
<1>6. ASSUME NEW p \in Peers, OpenFails(p) PROVE ServedInv'
  BY <1>6 DEF OpenFails, Release, ServedInv, Inside, TypeOK
<1>7. ASSUME NEW p \in Peers, Enter(p) PROVE ServedInv'
  BY <1>7 DEF Enter, ServedInv, Inside, TypeOK
<1>8. ASSUME NEW p \in Peers, FindPresence(p) PROVE ServedInv'
  BY <1>8 DEF FindPresence, WaitAtGate, ServedInv, Inside, TypeOK
<1>9. ASSUME NEW p \in Peers, CreatePresence(p) PROVE ServedInv'
  BY <1>9 DEF CreatePresence, GateFree, ServedInv, Inside, TypeOK
<1>10. ASSUME NEW p \in Peers, CheckSubscription(p) PROVE ServedInv'
  BY <1>10 DEF CheckSubscription, ServedInv, Inside, TypeOK
<1>11. ASSUME NEW p \in Peers, Subscribe(p) PROVE ServedInv'
  BY <1>11 DEF Subscribe, ServedInv, Inside, TypeOK
<1>12. ASSUME NEW p \in Peers, SubscribeFails(p) PROVE ServedInv'
  BY <1>12 DEF SubscribeFails, ServedInv, Inside, TypeOK
<1>13. ASSUME NEW p \in Peers, KeepSubscription(p) PROVE ServedInv'
  BY <1>13 DEF KeepSubscription, ServedInv, Inside, TypeOK
<1>14. ASSUME NEW p \in Peers, Disconnect(p) PROVE ServedInv'
  BY <1>14 DEF Disconnect, ServedInv, Inside, TypeOK
<1>15. ASSUME NEW p \in Peers, LeaveNothing(p) PROVE ServedInv'
  BY <1>15 DEF LeaveNothing, ServedInv, Inside, TypeOK
<1>16. ASSUME NEW p \in Peers, LeaveSession(p) PROVE ServedInv'
  BY <1>16 DEF LeaveSession, ServedInv, Inside, TypeOK
<1>17. ASSUME NEW p \in Peers, FinalSnapshot(p) PROVE ServedInv'
  BY <1>17 DEF FinalSnapshot, ServedInv, Inside, TypeOK
<1>18. ASSUME NEW p \in Peers, FinalSnapshotFails(p) PROVE ServedInv'
  BY <1>18 DEF FinalSnapshotFails, ServedInv, Inside, TypeOK
<1>19. ASSUME NEW p \in Peers, CountPeers(p) PROVE ServedInv'
  BY <1>19 DEF CountPeers, ServedInv, Inside, TypeOK
<1>20. ASSUME NEW p \in Peers, Drained(p) PROVE ServedInv'
  BY <1>20 DEF Drained, ClosingFor, ServedInv, Inside, TypeOK
<1>21. ASSUME NEW p \in Peers, ScheduleClosure(p) PROVE ServedInv'
  BY <1>21 DEF ScheduleClosure, ServedInv, Inside, TypeOK
<1>22. ASSUME NEW p \in Peers, IdleTimeout(p) PROVE ServedInv'
  BY <1>22 DEF IdleTimeout, ClosingFor, ServedInv, Inside, TypeOK
<1>23. ASSUME NEW e \in Evictors, Evict(e) PROVE ServedInv'
  BY <1>23 DEF Serialized
<1>24. ASSUME NEW c \in Closers, CloseSession(c) PROVE ServedInv'
  <2>1. \A q \in Peers : pc[q] \notin JoinSteps /\ pc[q] # "joined"
    BY <1>24 DEF CloseSession, PhaseInv, Joining, Joined, ClosesInProgress, CloseSteps
  <2>. QED  BY <1>24, <2>1 DEF CloseSession, ServedInv, Inside, JoinSteps, TypeOK
<1>25. ASSUME NEW c \in Closers, ClosePresence(c) PROVE ServedInv'
  BY <1>25 DEF ClosePresence, ServedInv, Inside, TypeOK
<1>26. ASSUME NEW c \in Closers, CloseSubscription(c) PROVE ServedInv'
  BY <1>26 DEF CloseSubscription, ServedInv, Inside, TypeOK
<1>27. ASSUME NEW c \in Closers, Unsubscribe(c) PROVE ServedInv'
  BY <1>27 DEF Unsubscribe, ServedInv, Inside, TypeOK
<1>28. ASSUME NEW c \in Closers, CloseTimer(c) PROVE ServedInv'
  BY <1>28 DEF CloseTimer, CancelIdleClosure, NotClosing, ServedInv, Inside, TypeOK
<1>29. ASSUME NEW c \in Closers, CloseGate(c) PROVE ServedInv'
  <2>1. \A q \in Peers : pc[q] \notin JoinSteps /\ pc[q] # "joined"
    BY <1>29 DEF CloseGate, PhaseInv, Joining, Joined, ClosesInProgress, CloseSteps
  <2>2. \A q \in Peers : pc'[q] \in {pc[q], "gone"}
    BY <1>29 DEF CloseGate, TypeOK
  <2>. QED  BY <1>29, <2>1, <2>2 DEF CloseGate, ServedInv, Inside, JoinSteps, TypeOK
<1>30. ASSUME NEW c \in Closers, Erase(c) PROVE ServedInv'
  BY <1>30 DEF Erase, ClosingFor, ServedInv, Inside, TypeOK
<1>31. CASE UNCHANGED vars
  BY <1>31 DEF vars, calls, history, ServedInv, Inside, TypeOK
<1>. QED
  BY <1>1, <1>2, <1>3, <1>4, <1>5, <1>6, <1>7, <1>8, <1>9, <1>10, <1>11, <1>12, <1>13,
    <1>14, <1>15, <1>16, <1>17, <1>18, <1>19, <1>20, <1>21, <1>22, <1>23, <1>24, <1>25, <1>26,
    <1>27, <1>28, <1>29, <1>30, <1>31
    DEF Next, JoinStep, LeaveStep, CloseStep

\* The registered subscription is live.
LEMMA SubscribedInvStep ==
    ASSUME Serialized, TypeOK, CloseInv, PhaseInv, SubscribedInv, [Next]_vars
    PROVE  SubscribedInv'
<1>1. ASSUME NEW p \in Peers, JoinBegins(p) PROVE SubscribedInv'
  BY <1>1 DEF JoinBegins, CancelIdleClosure, SubscribedInv, Joined, JoinSteps, TypeOK
<1>2. ASSUME NEW p \in Peers, FindSession(p) PROVE SubscribedInv'
  BY <1>2 DEF FindSession, WaitAtGate, SubscribedInv, Joined, JoinSteps, TypeOK
<1>3. ASSUME NEW p \in Peers, FoundBehindGate(p) PROVE SubscribedInv'
  BY <1>3 DEF FoundBehindGate, GateFree, SubscribedInv, Joined, JoinSteps, TypeOK
<1>4. ASSUME NEW p \in Peers, BeginLoad(p) PROVE SubscribedInv'
  BY <1>4 DEF BeginLoad, GateFree, SubscribedInv, Joined, JoinSteps, TypeOK
<1>5. ASSUME NEW p \in Peers, Opened(p) PROVE SubscribedInv'
  BY <1>5 DEF Opened, Release, SubscribedInv, Joined, JoinSteps, TypeOK
<1>6. ASSUME NEW p \in Peers, OpenFails(p) PROVE SubscribedInv'
  BY <1>6 DEF OpenFails, Release, SubscribedInv, Joined, JoinSteps, TypeOK
<1>7. ASSUME NEW p \in Peers, Enter(p) PROVE SubscribedInv'
  BY <1>7 DEF Enter, SubscribedInv, Joined, JoinSteps, TypeOK
<1>8. ASSUME NEW p \in Peers, FindPresence(p) PROVE SubscribedInv'
  BY <1>8 DEF FindPresence, WaitAtGate, SubscribedInv, Joined, JoinSteps, TypeOK
<1>9. ASSUME NEW p \in Peers, CreatePresence(p) PROVE SubscribedInv'
  BY <1>9 DEF CreatePresence, GateFree, SubscribedInv, Joined, JoinSteps, TypeOK
<1>10. ASSUME NEW p \in Peers, CheckSubscription(p) PROVE SubscribedInv'
  BY <1>10 DEF CheckSubscription, SubscribedInv, Joined, JoinSteps, TypeOK
<1>11. ASSUME NEW p \in Peers, Subscribe(p) PROVE SubscribedInv'
  BY <1>11, ConstantsAssumption DEF Subscribe, SubscribedInv, Joined, JoinSteps, TypeOK
<1>12. ASSUME NEW p \in Peers, SubscribeFails(p) PROVE SubscribedInv'
  BY <1>12 DEF SubscribeFails, SubscribedInv, Joined, JoinSteps, TypeOK
<1>13. ASSUME NEW p \in Peers, KeepSubscription(p) PROVE SubscribedInv'
  <2>1. \A d \in Closers : closing[d].step # "unsubscribe"
    BY <1>13 DEF KeepSubscription, PhaseInv, Joining, ClosesInProgress, JoinSteps, CloseSteps
  <2>. QED
    BY <1>13, <2>1, ConstantsAssumption DEF KeepSubscription, SubscribedInv, Joined, JoinSteps, TypeOK
<1>14. ASSUME NEW p \in Peers, Disconnect(p) PROVE SubscribedInv'
  BY <1>14 DEF Disconnect, SubscribedInv, Joined, JoinSteps, TypeOK
<1>15. ASSUME NEW p \in Peers, LeaveNothing(p) PROVE SubscribedInv'
  BY <1>15 DEF LeaveNothing, SubscribedInv, Joined, JoinSteps, TypeOK
<1>16. ASSUME NEW p \in Peers, LeaveSession(p) PROVE SubscribedInv'
  BY <1>16 DEF LeaveSession, SubscribedInv, Joined, JoinSteps, TypeOK
<1>17. ASSUME NEW p \in Peers, FinalSnapshot(p) PROVE SubscribedInv'
  BY <1>17 DEF FinalSnapshot, SubscribedInv, Joined, JoinSteps, TypeOK
<1>18. ASSUME NEW p \in Peers, FinalSnapshotFails(p) PROVE SubscribedInv'
  BY <1>18 DEF FinalSnapshotFails, SubscribedInv, Joined, JoinSteps, TypeOK
<1>19. ASSUME NEW p \in Peers, CountPeers(p) PROVE SubscribedInv'
  BY <1>19 DEF CountPeers, SubscribedInv, Joined, JoinSteps, TypeOK
<1>20. ASSUME NEW p \in Peers, Drained(p) PROVE SubscribedInv'
  BY <1>20 DEF Drained, ClosingFor, Closers, SubscribedInv, Joined, JoinSteps, TypeOK
<1>21. ASSUME NEW p \in Peers, ScheduleClosure(p) PROVE SubscribedInv'
  BY <1>21 DEF ScheduleClosure, SubscribedInv, Joined, JoinSteps, TypeOK
<1>22. ASSUME NEW p \in Peers, IdleTimeout(p) PROVE SubscribedInv'
  BY <1>22 DEF IdleTimeout, ClosingFor, Closers, SubscribedInv, Joined, JoinSteps, TypeOK
<1>23. ASSUME NEW e \in Evictors, Evict(e) PROVE SubscribedInv'
  BY <1>23 DEF Serialized
<1>24. ASSUME NEW c \in Closers, CloseSession(c) PROVE SubscribedInv'
  BY <1>24 DEF CloseSession, Closers, SubscribedInv, Joined, JoinSteps, TypeOK
<1>25. ASSUME NEW c \in Closers, ClosePresence(c) PROVE SubscribedInv'
  BY <1>25 DEF ClosePresence, Closers, SubscribedInv, Joined, JoinSteps, TypeOK
<1>26. ASSUME NEW c \in Closers, CloseSubscription(c) PROVE SubscribedInv'
  <2>1. \A q \in Peers : pc[q] \notin JoinSteps /\ pc[q] # "joined"
    BY <1>26 DEF CloseSubscription, PhaseInv, Joining, Joined, ClosesInProgress, CloseSteps
  <2>2. \A d \in Closers : closing'[d].step = "unsubscribe" => sub' = None
    BY <1>26 DEF CloseSubscription
  <2>. QED  BY <1>26, <2>1, <2>2 DEF CloseSubscription, SubscribedInv, Joined, JoinSteps, TypeOK
<1>27. ASSUME NEW c \in Closers, Unsubscribe(c) PROVE SubscribedInv'
  <2>1. \A q \in Peers : pc[q] \notin JoinSteps /\ pc[q] # "joined"
    BY <1>27 DEF Unsubscribe, PhaseInv, Joining, Joined, ClosesInProgress, CloseSteps
  <2>2. sub' = None
    BY <1>27 DEF Unsubscribe, SubscribedInv
  <2>. QED  BY <1>27, <2>1, <2>2 DEF Unsubscribe, SubscribedInv, Joined, JoinSteps, TypeOK
<1>28. ASSUME NEW c \in Closers, CloseTimer(c) PROVE SubscribedInv'
  BY <1>28 DEF CloseTimer, CancelIdleClosure, NotClosing, Closers, SubscribedInv, Joined, JoinSteps, TypeOK
<1>29. ASSUME NEW c \in Closers, CloseGate(c) PROVE SubscribedInv'
  <2>1. \A q \in Peers : pc'[q] \in {pc[q], "gone"}
    BY <1>29 DEF CloseGate, TypeOK
  <2>2. \A d \in Closers : closing'[d].step = "unsubscribe" => closing[d].step = "unsubscribe"
    <3>1. \A d \in Closers \ {c} : closing'[d] = closing[d]
      BY <1>29 DEF CloseGate, TypeOK
    <3>2. closing'[c].step \in {"erase", "done"}
      BY <1>29 DEF CloseGate, ClosedBy, TypeOK, Closing
    <3>. QED  BY <3>1, <3>2
  <2>. QED  BY <1>29, <2>1, <2>2 DEF CloseGate, SubscribedInv, Joined, JoinSteps, TypeOK
<1>30. ASSUME NEW c \in Closers, Erase(c) PROVE SubscribedInv'
  BY <1>30 DEF Erase, ClosingFor, Closers, SubscribedInv, Joined, JoinSteps, TypeOK
<1>31. CASE UNCHANGED vars
  BY <1>31 DEF vars, calls, history, SubscribedInv, Joined, JoinSteps, TypeOK
<1>. QED
  BY <1>1, <1>2, <1>3, <1>4, <1>5, <1>6, <1>7, <1>8, <1>9, <1>10, <1>11, <1>12, <1>13,
    <1>14, <1>15, <1>16, <1>17, <1>18, <1>19, <1>20, <1>21, <1>22, <1>23, <1>24, <1>25, <1>26,
    <1>27, <1>28, <1>29, <1>30, <1>31
    DEF Next, JoinStep, LeaveStep, CloseStep

----------------------------------------------------------------------------
\* The theorems.

LEMMA AnyOverlapAlways == Spec => []AnyOverlapInv
<1>1. Init => AnyOverlapInv
  <2>. SUFFICES ASSUME Init PROVE AnyOverlapInv
    OBVIOUS
  <2>1. NotClosing \in Closing
    BY DEF NotClosing, Closing
  <2>2. TypeOK
    BY <2>1 DEF Init, TypeOK
  <2>3. CloseInv /\ MemberInv
    BY DEF Init, CloseInv, MemberInv, Closers
  <2>4. GateInv /\ TimersAccounted /\ SubscriptionsAccounted
    BY DEF Init, GateInv, TimersAccounted, SubscriptionsAccounted
  <2>. QED  BY <2>2, <2>3, <2>4 DEF AnyOverlapInv
<1>2. AnyOverlapInv /\ [Next]_vars => AnyOverlapInv'
  BY TypeStep, CloseInvStep, MemberInvStep, GateInvStep, TimersStep, SubscriptionsStep
     DEF AnyOverlapInv
<1>. QED  BY <1>1, <1>2, PTL DEF Spec

\* Every reachable state is well typed: no call enters a session before it has one, and none
\* waits at a gate it has not asked DocumentLockRegistry for.
THEOREM LifecycleTypes == Spec => []TypeOK
<1>1. AnyOverlapInv => TypeOK
  BY DEF AnyOverlapInv
<1>. QED  BY <1>1, AnyOverlapAlways, PTL

\* However joins, disconnects, closes and failures overlap, a connection that has gone is an
\* active peer of no registered session, so it cannot keep the document from draining.
THEOREM NobodyLeftBehind == Spec => []NoGhosts
<1>1. AnyOverlapInv => NoGhosts
  BY DEF AnyOverlapInv, TypeOK, MemberInv, NoGhosts, Opening, Left
<1>. QED  BY <1>1, AnyOverlapAlways, PTL

\* ScheduleClosure and CancelIdleClosure never lose a running timer: the next join can
\* cancel every timer that could still close the document.
THEOREM TimersInTable == Spec => []TimersAccounted
<1>1. AnyOverlapInv => TimersAccounted
  BY DEF AnyOverlapInv
<1>. QED  BY <1>1, AnyOverlapAlways, PTL

\* The check-then-act race of EnsureBackplaneSubscriptionAsync leaks no subscription.
THEOREM SubscriptionsInTable == Spec => []SubscriptionsAccounted
<1>1. AnyOverlapInv => SubscriptionsAccounted
  BY DEF AnyOverlapInv
<1>. QED  BY <1>1, AnyOverlapAlways, PTL

LEMMA SerialAlways ==
    ASSUME Serialized
    PROVE  Spec => []SerialInv
<1>1. Init => PhaseInv /\ ServedInv /\ SubscribedInv
  BY DEF Init, PhaseInv, ServedInv, SubscribedInv, Inside, Joining, Joined, ClosesInProgress, JoinSteps,
     CloseSteps, NotClosing, Closers
<1>2. AnyOverlapInv /\ PhaseInv /\ ServedInv /\ SubscribedInv /\ [Next]_vars
        => (PhaseInv /\ ServedInv /\ SubscribedInv)'
  BY PhaseInvStep, ServedInvStep, SubscribedInvStep DEF AnyOverlapInv
<1>. QED  BY <1>1, <1>2, AnyOverlapAlways, PTL DEF Spec, SerialInv

\* Without overlap, a connection whose join was answered is an active peer of the session its
\* operations are routed to, through drains, idle timers, failed joins and reopenings.
THEOREM WhoJoinedIsServed ==
    ASSUME Serialized
    PROVE  Spec => []JoinedServed
<1>1. SerialInv => JoinedServed
  BY DEF SerialInv, ServedInv, JoinedServed, Joined, Inside
<1>. QED  BY <1>1, SerialAlways, PTL

\* Without overlap, it receives the document's broadcasts.
THEOREM WhoJoinedIsSubscribed ==
    ASSUME Serialized
    PROVE  Spec => []JoinedSubscribed
<1>1. SerialInv => JoinedSubscribed
  BY DEF SerialInv, SubscribedInv, JoinedSubscribed
<1>. QED  BY <1>1, SerialAlways, PTL

\* Without overlap, no idle timer runs under it; the join that races the last disconnect's
\* timer is excluded.
LEMMA WhoJoinedIsNotTimed ==
    ASSUME Serialized
    PROVE  Spec => []JoinedNotTimed
<1>1. SerialInv => JoinedNotTimed
  BY DEF SerialInv, PhaseInv, JoinedNotTimed
<1>. QED  BY <1>1, SerialAlways, PTL

\* Without overlap, simultaneous first joins open the document once.
THEOREM GatesExclude ==
    ASSUME Serialized
    PROVE  Spec => []OneOpener
<1>1. SerialInv => OneOpener
  <2>. SUFFICES ASSUME SerialInv PROVE OneOpener
    OBVIOUS
  <2>. DEFINE L == {p \in Peers : pc[p] = "load"}
  <2>1. \A p, q \in L : p = q
    BY DEF SerialInv, AnyOverlapInv, GateInv, ServedInv
  <2>2. CASE L = {}
    BY <2>2, FS_EmptySet DEF OneOpener
  <2>3. CASE L # {}
    <3>1. PICK p \in L : L = {p}
      BY <2>1, <2>3
    <3>2. Cardinality(L) = 1
      BY <3>1, FS_Singleton
    <3>. QED  BY <3>2 DEF OneOpener
  <2>. QED  BY <2>2, <2>3
<1>. QED  BY <1>1, SerialAlways, PTL

=============================================================================
