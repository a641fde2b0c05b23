------------------------------- MODULE CommentsProofs -------------------------------
(***************************************************************************)
(* Proofs about Comments, for every set of comments and callers, every     *)
(* registration of anchor engines and every bound.                         *)
(*                                                                         *)
(* An anchor for which nothing went wrong is that of its revision: it was  *)
(* moved once for each operation up to it.  Every operation since then     *)
(* leaves it where it is, but for the last one, whose hook may be still to *)
(* come: a session does not take the next operation before the hook of the *)
(* last is over, and an opened one does not before it was replayed.        *)
(***************************************************************************)
EXTENDS Comments, Recursion

----------------------------------------------------------------------------
\* The inductive invariant, part by part.

Loads == UNION {[D -> Record] : D \in SUBSET Comments}
Roots == {l \in Loads : \A c \in DOMAIN l : ~l[c].orphaned}
Sessions == [step : {"closed", "replaying", "ready", "applied", "hook", "moving"},
             rev : Nat, opening : BOOLEAN, loaded : Loads \cup {None}]
Adding == [step : {"add"}, id : Comments, rev : 0..MaxOps]
Editing == [step : {"edit", "resolve"}, id : Comments, copy : Record]
Loading == [step : {"load"}, upTo : Revisions, from : 0..MaxOps]
Rebasing == [step : {"rebase"}, upTo : Revisions, from : 0..MaxOps, loaded : Roots]
Trimming == [step : {"trim"}, upTo : Revisions]

StateOK ==
    /\ last \in 0..MaxOps /\ snap \in 0..last /\ hot \subseteq 1..last
    /\ effect \in [Revisions -> [Comments -> Effects]]
    /\ session \in Sessions
    /\ comments \in [Comments -> Record \cup {None}]
    /\ drawn \in [Comments -> (0..last) \cup {None}]
    /\ call \in [Callers -> Adding \cup Editing \cup {Idle}]
    /\ compaction \in Loading \cup Rebasing \cup Trimming \cup {Idle}

\* Where the session is in the log: at its end unless it is opening, and never before the
\* snapshot; what it has loaded is not None.
SessionInv ==
    /\ session.rev <= last
    /\ session.step # "closed" => snap <= session.rev
    /\ session.step # "closed" /\ ~session.opening => session.rev = last
    /\ session.step = "closed" => ~session.opening
    /\ session.step = "applied" => snap < session.rev
    /\ session.step \in {"ready", "applied"} => ~session.opening
    /\ session.step = "replaying" => session.opening
    /\ session.step \in {"applied", "hook", "moving"} => 1 <= session.rev
    /\ session.step = "moving" =>
           session.loaded \in Loads /\ Affected(session.loaded, session.rev) # {}

\* An anchor is drawn before it is stored, loaded or copied.
DrawnInv ==
    /\ \A c \in Comments : comments[c] # None => drawn[c] # None
    /\ \A p \in Callers : call[p].step # "idle" => drawn[call[p].id] # None
    /\ session.step = "moving" => \A c \in DOMAIN session.loaded : drawn[c] # None

\* The anchor is the one of its revision, which may be before it was drawn if nothing has
\* changed the text since.
Right(c, m) ==
    /\ m.at <= last
    /\ m.moved = Followed(c, m.at).moved
    /\ m.orphaned = Followed(c, m.at).orphaned
    /\ Touching(c, m.at + 1..drawn[c]) = {}

\* The hook of the last operation is still to come for comment c.
Pending(c) ==
    \/ session.step \in {"applied", "hook"} /\ session.rev = last
    \/ session.step = "moving" /\ session.rev = last /\ c \in Affected(session.loaded, session.rev)
    \/ session.step = "closed" /\ snap < last
    \/ session.opening /\ session.rev < last

\* What the anchor has not been taken over yet does not touch it, but for the last operation.
Settled(c, m) ==
    \/ m.orphaned
    \/ \A q \in Touching(c, m.at + 1..last) : q = last /\ Pending(c)

AnchorsInv ==
    \A c \in Comments : \A m \in Record :
        Anchored(c) /\ m = comments[c] => Right(c, m) /\ Settled(c, m)

\* A copy of the record, taken by a caller, is right as well.
CopiesInv ==
    \A p \in Callers : \A c \in Comments \ missed : \A m \in Record :
        call[p].step \in {"edit", "resolve"} /\ call[p].id = c /\ call[p].copy = m => Right(c, m)

\* What the hook has loaded to move is one step behind.
MovingInv ==
    session.step = "moving" =>
        \A c \in Affected(session.loaded, session.rev) \ missed : \A m \in Record :
            m = session.loaded[c] =>
                /\ session.rev = last
                /\ Right(c, m)
                /\ Touching(c, m.at + 1..last) = {last}

TypeInv == StateOK /\ SessionInv /\ DrawnInv
IInv == TypeInv /\ AnchorsInv /\ CopiesInv /\ MovingInv

----------------------------------------------------------------------------
\* Records and what is loaded.

LEMMA RecordShape ==
    ASSUME NEW m \in Record
    PROVE  /\ m.at \in 0..MaxOps /\ m.moved \in [Revisions -> Nat]
           /\ m.orphaned \in BOOLEAN /\ m.resolved \in BOOLEAN
BY DEF Record

LEMMA LoadShape ==
    ASSUME NEW l \in Loads, NEW c \in DOMAIN l
    PROVE  c \in Comments /\ l[c] \in Record
BY DEF Loads

LEMMA LoadOpenShape ==
    ASSUME StateOK
    PROVE  /\ LoadOpen \in Loads
           /\ DOMAIN LoadOpen = {c \in Comments : comments[c] # None}
           /\ \A c \in DOMAIN LoadOpen : LoadOpen[c] = comments[c] /\ comments[c] \in Record
<1> DEFINE D == {c \in Comments : comments[c] # None}
<1>1. comments \in [Comments -> Record \cup {None}]
  BY DEF StateOK
<1>2. \A c \in D : comments[c] \in Record
  BY <1>1
<1>3. LoadOpen = [c \in D |-> comments[c]]
  BY DEF LoadOpen
<1> HIDE DEF D
<1>4. LoadOpen \in [D -> Record] /\ DOMAIN LoadOpen = D /\ \A c \in D : LoadOpen[c] = comments[c]
  BY <1>2, <1>3
<1>5. D \in SUBSET Comments
  BY DEF D
<1> QED
  BY <1>2, <1>4, <1>5 DEF Loads, D

LEMMA RebaseShape ==
    ASSUME StateOK, NEW c \in Comments, NEW m \in Record, NEW r \in Revisions
    PROVE  /\ Rebase(c, m, r) \in Record
           /\ effect[r][c] = "moves" =>
                  /\ Rebase(c, m, r).moved = [m.moved EXCEPT ![r] = @ + 1]
                  /\ Rebase(c, m, r).orphaned = m.orphaned
           /\ effect[r][c] = "deletes" =>
                  Rebase(c, m, r).moved = m.moved /\ Rebase(c, m, r).orphaned = TRUE
<1>1. effect[r][c] \in {"keeps", "moves", "deletes"}
  BY DEF StateOK, Effects
<1>2. m.moved \in [Revisions -> Nat] /\ [m.moved EXCEPT ![r] = @ + 1] \in [Revisions -> Nat]
  BY RecordShape
<1>3. CASE effect[r][c] = "keeps"
  <2>1. Rebase(c, m, r) = m
    BY <1>3 DEF Rebase
  <2> QED
    BY <1>3, <2>1
<1>4. CASE effect[r][c] = "moves"
  <2>1. Rebase(c, m, r) = [m EXCEPT !.moved = [m.moved EXCEPT ![r] = @ + 1]]
    BY <1>4 DEF Rebase, Record
  <2> QED
    BY <1>2, <1>4, <2>1 DEF Record
<1>5. CASE effect[r][c] = "deletes"
  <2>1. Rebase(c, m, r) = [m EXCEPT !.orphaned = TRUE]
    BY <1>5 DEF Rebase
  <2> QED
    BY <1>5, <2>1 DEF Record
<1> QED
  BY <1>1, <1>3, <1>4, <1>5

\* What UpdateAnchorsAsync leaves in the store.
LEMMA Updated ==
    ASSUME StateOK, NEW u \in Loads, NEW r \in 0..MaxOps, UpdateAnchors(u, r)
    PROVE  /\ comments' \in [Comments -> Record \cup {None}]
           /\ \A c \in Comments : comments[c] = None => comments'[c] = None
           /\ \A c \in Comments \ DOMAIN u : comments'[c] = comments[c]
           /\ \A c \in DOMAIN u : comments[c] # None =>
                  /\ comments'[c] \in Record
                  /\ comments'[c].at = r /\ comments'[c].moved = u[c].moved
                  /\ comments'[c].orphaned = (u[c].orphaned \/ comments[c].orphaned)
<1> DEFINE new(c) == [comments[c] EXCEPT !.moved = u[c].moved, !.at = r,
                                         !.orphaned = u[c].orphaned \/ @]
<1>1. comments' = [c \in Comments |-> IF c \in DOMAIN u /\ comments[c] # None THEN new(c) ELSE comments[c]]
  BY DEF UpdateAnchors
<1>2. ASSUME NEW c \in DOMAIN u, comments[c] # None
      PROVE  /\ new(c) \in Record /\ new(c).at = r /\ new(c).moved = u[c].moved
             /\ new(c).orphaned = (u[c].orphaned \/ comments[c].orphaned)
  <2>1. c \in Comments /\ u[c] \in Record
    BY LoadShape
  <2>2. comments[c] \in Record
    BY <1>2, <2>1 DEF StateOK
  <2>3. u[c].moved \in [Revisions -> Nat] /\ u[c].orphaned \in BOOLEAN /\ comments[c].orphaned \in BOOLEAN
    BY <2>1, <2>2, RecordShape
  <2>4. (u[c].orphaned \/ comments[c].orphaned) \in BOOLEAN
    BY <2>3
  <2>5. \A mv \in [Revisions -> Nat], o \in BOOLEAN :
            LET n == [comments[c] EXCEPT !.moved = mv, !.at = r, !.orphaned = o]
            IN  n \in Record /\ n.at = r /\ n.moved = mv /\ n.orphaned = o
    BY <2>2 DEF Record
  <2>6. new(c) = [comments[c] EXCEPT !.moved = u[c].moved, !.at = r,
                                     !.orphaned = u[c].orphaned \/ comments[c].orphaned]
    BY <2>2 DEF Record
  <2> QED
    BY <2>3, <2>4, <2>5, <2>6, ZenonT(60)
<1>3. comments \in [Comments -> Record \cup {None}] /\ \A c \in DOMAIN u : c \in Comments
  BY LoadShape DEF StateOK
<1> HIDE DEF new
<1> QED
  BY <1>1, <1>2, <1>3

----------------------------------------------------------------------------
\* Type correctness.

Assumptions == BoundsAssumption /\ NoneAssumption

LEMMA TypeInit == Assumptions /\ Init => TypeInv
<1> SUFFICES ASSUME Assumptions, Init PROVE TypeInv
  OBVIOUS
<1>1. /\ last = 0 /\ snap = 0 /\ hot = {} /\ 0 \in 0..MaxOps /\ 0 \in 0..0
      /\ effect \in [Revisions -> [Comments -> Effects]]
  BY DEF Assumptions, BoundsAssumption, Init, Effects
<1>2. session = Closed /\ Closed \in Sessions
  BY DEF Init, Closed, Sessions
<1>3. /\ comments \in [Comments -> Record \cup {None}] /\ \A c \in Comments : comments[c] = None
      /\ drawn \in [Comments -> (0..last) \cup {None}]
      /\ call \in [Callers -> Adding \cup Editing \cup {Idle}] /\ \A p \in Callers : call[p] = Idle
      /\ compaction \in Loading \cup Rebasing \cup Trimming \cup {Idle}
  BY DEF Init
<1>4. StateOK
  BY <1>1, <1>2, <1>3 DEF StateOK
<1>5. SessionInv
  BY <1>1, <1>2 DEF SessionInv, Closed
<1>6. DrawnInv
  BY <1>2, <1>3 DEF DrawnInv, Idle, Closed
<1> QED
  BY <1>4, <1>5, <1>6 DEF TypeInv

\* The session at another revision.
LEMMA SessionAt ==
    ASSUME NEW s \in Sessions, NEW r \in Nat, NEW t \in {"applied", "hook"}
    PROVE  /\ [s EXCEPT !.rev = r, !.step = t] \in Sessions
           /\ [s EXCEPT !.rev = r, !.step = t].step = t
           /\ [s EXCEPT !.rev = r, !.step = t].rev = r
           /\ [s EXCEPT !.rev = r, !.step = t].opening = s.opening
BY DEF Sessions

\* The steps that change the session, or where the document is.
LEMMA SessionTypes ==
    ASSUME Assumptions, TypeInv, SessionStep
    PROVE  /\ last' \in 0..MaxOps /\ last <= last' /\ snap' \in 0..last' /\ hot' \subseteq 1..last'
           /\ effect' \in [Revisions -> [Comments -> Effects]]
           /\ \A q \in 1..last : effect'[q] = effect[q]
           /\ session' \in Sessions
           /\ SessionInv'
<1>0. /\ last \in 0..MaxOps /\ snap \in 0..last /\ hot \subseteq 1..last /\ MaxOps \in Nat
      /\ effect \in [Revisions -> [Comments -> Effects]]
      /\ session \in Sessions
  BY DEF Assumptions, BoundsAssumption, TypeInv, StateOK
<1> DEFINE Same == UNCHANGED docVars /\ session' \in Sessions /\ SessionInv'
<1>a. ASSUME Same
      PROVE  /\ last' \in 0..MaxOps /\ last <= last' /\ snap' \in 0..last' /\ hot' \subseteq 1..last'
             /\ effect' \in [Revisions -> [Comments -> Effects]]
             /\ \A q \in 1..last : effect'[q] = effect[q]
             /\ session' \in Sessions
             /\ SessionInv'
  BY <1>0, <1>a DEF docVars
<1> DEFINE Trimmed == /\ UNCHANGED <<last, effect>> /\ snap' \in 0..last /\ hot' \subseteq hot
                      /\ session' \in Sessions /\ SessionInv'
<1>b. ASSUME Trimmed
      PROVE  /\ last' \in 0..MaxOps /\ last <= last' /\ snap' \in 0..last' /\ hot' \subseteq 1..last'
             /\ effect' \in [Revisions -> [Comments -> Effects]]
             /\ \A q \in 1..last : effect'[q] = effect[q]
             /\ session' \in Sessions
             /\ SessionInv'
  BY <1>0, <1>b
<1> HIDE DEF Same, Trimmed
<1>c. /\ session.rev \in Nat /\ session.rev <= last /\ session.opening \in BOOLEAN
      /\ session.step # "closed" => snap <= session.rev
      /\ session.step # "closed" /\ ~session.opening => session.rev = last
      /\ session.step \in {"ready", "applied"} => ~session.opening
      /\ session.step = "applied" => snap < session.rev
      /\ session.step \in {"applied", "hook", "moving"} => 1 <= session.rev
  BY <1>0 DEF Sessions, TypeInv, SessionInv
<1>d. Closed \in Sessions /\ (UNCHANGED last /\ session' = Closed => SessionInv')
  BY <1>0 DEF Closed, Sessions, SessionInv
<1>e. ASSUME session.step \in {"hook", "moving"}, session' = HookDone
      PROVE  session' \in Sessions /\ (UNCHANGED <<last, snap>> => SessionInv')
  <2>1. /\ session'.step = IF session.opening THEN "replaying" ELSE "ready"
        /\ session'.rev = session.rev /\ session'.opening = session.opening /\ session'.loaded = None
        /\ session' \in Sessions
    BY <1>0, <1>e DEF HookDone, Sessions
  <2> QED
    BY <1>0, <1>c, <1>e, <2>1 DEF SessionInv
<1>1. CASE Apply
  <2>1. /\ session.step = "ready" /\ session.rev < MaxOps
        /\ last' = session.rev + 1 /\ hot' = hot \cup {session.rev + 1} /\ snap' = snap
        /\ session' = [session EXCEPT !.rev = session.rev + 1, !.step = "applied"]
        /\ \E op \in [Comments -> Effects] : effect' = [effect EXCEPT ![session.rev + 1] = op]
    BY <1>1 DEF Apply, Ready
  <2>2. /\ session'.step = "applied" /\ session'.rev = session.rev + 1
        /\ session'.opening = session.opening /\ session' \in Sessions
    <3>1. session.rev + 1 \in Nat /\ session \in Sessions
      BY <1>0, <1>c
    <3>2. session' = [session EXCEPT !.rev = session.rev + 1, !.step = "applied"]
      BY <2>1
    <3> QED
      BY <3>1, <3>2, SessionAt, ZenonT(60)
  <2>3. ~session.opening /\ session.rev = last /\ snap <= session.rev
    BY <1>c, <2>1
  <2>4. SessionInv'
    BY <1>0, <1>c, <2>1, <2>2, <2>3 DEF SessionInv
  <2>5. last + 1 \in Revisions
    BY <1>0, <2>1, <2>3 DEF Revisions
  <2>6. effect' \in [Revisions -> [Comments -> Effects]] /\ \A q \in 1..last : effect'[q] = effect[q]
    BY <1>0, <2>1, <2>3, <2>5
  <2> QED
    BY <1>0, <2>1, <2>2, <2>3, <2>4, <2>6
<1>2. CASE OpAdded
  <2>1. /\ session.step = "applied" /\ UNCHANGED <<last, effect>>
        /\ session' = [session EXCEPT !.step = "hook"]
        /\ snap' \in {snap, session.rev} /\ hot' \subseteq hot
    BY <1>2 DEF OpAdded
  <2>2. /\ session'.step = "hook" /\ session'.rev = session.rev
        /\ session'.opening = session.opening /\ session' \in Sessions
    BY <1>0, <2>1 DEF Sessions
  <2>3. SessionInv' /\ snap' \in 0..last
    BY <1>0, <1>c, <2>1, <2>2 DEF SessionInv
  <2> QED
    BY <1>b, <2>1, <2>2, <2>3 DEF Trimmed
<1>3. CASE HookLoads
  <2>0. session.step = "hook" /\ UNCHANGED docVars /\ UNCHANGED comments
    BY <1>3 DEF HookLoads
  <2>1. CASE Affected(LoadOpen, session.rev) = {}
    <3>1. session' = [session EXCEPT !.step = IF session.opening THEN "replaying" ELSE "ready"]
      BY <1>3, <2>1 DEF HookLoads
    <3>2. /\ session'.step = IF session.opening THEN "replaying" ELSE "ready"
          /\ session'.rev = session.rev
          /\ session'.opening = session.opening /\ session' \in Sessions
      BY <1>0, <3>1 DEF Sessions
    <3>3. SessionInv'
      BY <1>0, <1>c, <2>0, <3>2 DEF SessionInv, docVars
    <3> QED
      BY <1>a, <2>0, <3>2, <3>3 DEF Same
  <2>2. CASE Affected(LoadOpen, session.rev) # {}
    <3>1. session' = [session EXCEPT !.step = "moving", !.loaded = LoadOpen]
      BY <1>3, <2>2 DEF HookLoads
    <3>2. LoadOpen \in Loads
      BY LoadOpenShape DEF TypeInv
    <3>3. /\ session'.step = "moving" /\ session'.rev = session.rev
          /\ session'.opening = session.opening /\ session'.loaded = LoadOpen /\ session' \in Sessions
      BY <1>0, <3>1, <3>2 DEF Sessions
    <3>4. Affected(session.loaded, session.rev)' # {}
      BY <2>0, <2>2, <3>3 DEF Affected, docVars
    <3>5. SessionInv'
      BY <1>0, <1>c, <2>0, <3>2, <3>3, <3>4 DEF SessionInv, docVars
    <3> QED
      BY <1>a, <2>0, <3>3, <3>5 DEF Same
  <2> QED
    BY <2>1, <2>2
<1>4. CASE HookUpdates \/ HookFails
  BY <1>4, <1>a, <1>e DEF HookUpdates, HookFails, Same, docVars
<1>5. CASE Open
  <2>1. UNCHANGED docVars /\ session' = [Closed EXCEPT !.step = "replaying", !.rev = snap, !.opening = TRUE]
    BY <1>5 DEF Open
  <2>2. session' \in Sessions /\ session'.step = "replaying" /\ session'.rev = snap /\ session'.opening
    <3>1. snap \in Nat
      BY <1>0
    <3>2. session' = [step |-> "replaying", rev |-> snap, opening |-> TRUE, loaded |-> None]
      BY <2>1 DEF Closed
    <3> QED
      BY <3>1, <3>2 DEF Sessions
  <2>3. SessionInv'
    BY <1>0, <2>1, <2>2 DEF SessionInv, docVars
  <2> QED
    BY <1>a, <2>1, <2>2, <2>3 DEF Same
<1>6. CASE Rehydrate
  <2>1. /\ UNCHANGED docVars /\ session.step = "replaying" /\ session.rev < last
        /\ session' = [session EXCEPT !.rev = session.rev + 1, !.step = "hook"]
    BY <1>6 DEF Rehydrate
  <2>2. /\ session' \in Sessions /\ session'.step = "hook" /\ session'.rev = session.rev + 1
        /\ session'.opening = session.opening
    <3>1. session.rev + 1 \in Nat /\ session \in Sessions
      BY <1>0, <1>c
    <3>2. session' = [session EXCEPT !.rev = session.rev + 1, !.step = "hook"]
      BY <2>1
    <3> QED
      BY <3>1, <3>2, SessionAt, ZenonT(60)
  <2>3. session.opening
    BY <2>1 DEF TypeInv, SessionInv
  <2>4. SessionInv'
    BY <1>0, <1>c, <2>1, <2>2, <2>3 DEF SessionInv, docVars
  <2> QED
    BY <1>a, <2>1, <2>2, <2>4 DEF Same
<1>7. CASE Opened
  <2>1. /\ UNCHANGED docVars /\ session.step = "replaying" /\ session.rev = last
        /\ session' = [session EXCEPT !.step = "ready", !.opening = FALSE]
    BY <1>7 DEF Opened
  <2>2. session' \in Sessions /\ session'.step = "ready" /\ session'.rev = last /\ ~session'.opening
    BY <1>0, <1>c, <2>1 DEF Sessions
  <2>3. SessionInv'
    BY <1>0, <1>c, <2>1, <2>2 DEF SessionInv, docVars
  <2> QED
    BY <1>a, <2>1, <2>2, <2>3 DEF Same
<1>8. CASE Close
  BY <1>8, <1>0, <1>b, <1>c, <1>d DEF Close, Trimmed
<1>9. CASE Crash
  BY <1>9, <1>a, <1>d DEF Crash, Same, docVars
<1> QED
  BY <1>1, <1>2, <1>3, <1>4, <1>5, <1>6, <1>7, <1>8, <1>9 DEF SessionStep

\* What the hook writes.
LEMMA Hooked ==
    ASSUME Assumptions, TypeInv, HookUpdates
    PROVE  \E l, u \in Loads :
               /\ l = session.loaded /\ session.step = "moving"
               /\ session.rev \in 1..last /\ session.rev \in Revisions /\ session.rev \in 0..MaxOps
               /\ DOMAIN u = Affected(l, session.rev) /\ DOMAIN u \subseteq DOMAIN l
               /\ \A c \in DOMAIN u : u[c] = Rebase(c, l[c], session.rev)
               /\ UpdateAnchors(u, session.rev)
<1>1. PICK l \in Loads : l = session.loaded
  BY DEF HookUpdates, TypeInv, SessionInv
<1>2. session.step = "moving" /\ session.rev \in 1..last /\ session.rev \in Revisions /\ session.rev \in 0..MaxOps
  BY DEF HookUpdates, TypeInv, SessionInv, StateOK, Sessions, Revisions, Assumptions, BoundsAssumption
<1> DEFINE D == Affected(l, session.rev)
           u == [c \in D |-> Rebase(c, l[c], session.rev)]
<1>3. UpdateAnchors(u, session.rev)
  BY <1>1 DEF HookUpdates
<1>4. D \subseteq DOMAIN l
  BY DEF Affected
<1> HIDE DEF D
<1>5. \A c \in D : Rebase(c, l[c], session.rev) \in Record /\ c \in Comments
  BY <1>2, <1>4, LoadShape, RebaseShape DEF TypeInv
<1>6. u \in [D -> Record] /\ D \in SUBSET Comments /\ DOMAIN u = D
      /\ \A c \in D : u[c] = Rebase(c, l[c], session.rev)
  BY <1>5
<1> HIDE DEF u
<1>7. u \in Loads
  BY <1>6 DEF Loads
<1> QED
  BY <1>1, <1>2, <1>3, <1>4, <1>6, <1>7 DEF D

\* The operations that a compaction takes an anchor over, those among them that delete its
\* text, and those before the first of these.
Moving(c, m, revs) ==
    IF EngineType \in engines THEN {r \in revs : r > m.at /\ effect[r][c] # "keeps"} ELSE {}
Deleting(c, m, revs) == {r \in Moving(c, m, revs) : effect[r][c] = "deletes"}
Before(c, m, revs) ==
    IF Deleting(c, m, revs) = {} THEN Moving(c, m, revs)
    ELSE {r \in Moving(c, m, revs) : r < Min(Deleting(c, m, revs))}

LEMMA RebasedShape ==
    ASSUME NEW c \in Comments, NEW m \in Record, NEW revs
    PROVE  /\ Rebased(c, m, revs) \in Record
           /\ Rebased(c, m, revs).moved =
                  [r \in Revisions |-> m.moved[r] + IF r \in Before(c, m, revs) THEN 1 ELSE 0]
           /\ Rebased(c, m, revs).orphaned = (Deleting(c, m, revs) # {})
<1> DEFINE mv == [r \in Revisions |-> m.moved[r] + IF r \in Before(c, m, revs) THEN 1 ELSE 0]
           o == Deleting(c, m, revs) # {}
<1>1. Rebased(c, m, revs) = [m EXCEPT !.moved = mv, !.orphaned = o]
  BY DEF Rebased, Moving, Deleting, Before, Record
<1>2. mv \in [Revisions -> Nat]
  BY RecordShape
<1>3. o \in BOOLEAN
  OBVIOUS
<1> HIDE DEF mv, o
<1>4. \A p \in BOOLEAN : LET n == [m EXCEPT !.moved = mv, !.orphaned = p]
                         IN  n \in Record /\ n.moved = mv /\ n.orphaned = p
  BY <1>2 DEF Record
<1>5. /\ Rebased(c, m, revs) \in Record /\ Rebased(c, m, revs).moved = mv
      /\ Rebased(c, m, revs).orphaned = o
  BY <1>1, <1>3, <1>4
<1> QED
  BY <1>5 DEF mv, o

\* What a compaction writes: the records l rebased over what was streamed, all at revision
\* final.
CompactedBy(l, u, streamed, final) ==
    /\ l \in Roots
    /\ \A r \in streamed : r \in 1..final
    /\ DOMAIN u = DOMAIN l
    /\ \A c \in DOMAIN l : u[c] = Rebased(c, l[c], streamed)
    /\ UpdateAnchors(u, final)
    /\ missed' = missed \cup
           {c \in DOMAIN l :
               \/ final > last
               \/ comments[c] # l[c]
               \/ Touching(c, final + 1..l[c].at) # {}
               \/ /\ Touching(c, l[c].at + 1..final) # {}
                  /\ ~ (EngineType \in engines /\ l[c].at + 1..final \subseteq streamed)}

LEMMA Compacted ==
    ASSUME Assumptions, TypeInv, CompactRebases
    PROVE  \E l, u \in Loads, streamed \in SUBSET Nat, final \in 0..MaxOps :
               CompactedBy(l, u, streamed, final)
<1>1. compaction \in Rebasing
  BY DEF CompactRebases, TypeInv, StateOK, Loading, Trimming, Idle
<1>2. /\ compaction.loaded \in Roots /\ compaction.upTo \in Revisions /\ compaction.from \in 0..MaxOps
      /\ MaxOps \in Nat /\ hot \subseteq 1..MaxOps /\ StateOK
  BY <1>1 DEF Rebasing, Assumptions, BoundsAssumption, TypeInv, StateOK
<1> DEFINE l == compaction.loaded
           streamed == {r \in hot : r >= compaction.from /\ r <= compaction.upTo}
           least == IF compaction.from = 0 THEN 0 ELSE compaction.from - 1
           lastRebased == Max(streamed \cup {least})
           final == IF lastRebased > 0 THEN lastRebased ELSE compaction.upTo
           u == [c \in DOMAIN l |-> Rebased(c, l[c], streamed)]
           left == {c \in DOMAIN l :
                        \/ final > last
                        \/ comments[c] # l[c]
                        \/ Touching(c, final + 1..l[c].at) # {}
                        \/ /\ Touching(c, l[c].at + 1..final) # {}
                           /\ ~ (EngineType \in engines /\ l[c].at + 1..final \subseteq streamed)}
<1>3. UpdateAnchors(u, final)
  BY DEF CompactRebases
<1>13. missed' = missed \cup left
  BY DEF CompactRebases
<1>4. streamed \subseteq 1..MaxOps /\ least \in 0..MaxOps
  <2>1. streamed \subseteq hot
    OBVIOUS
  <2>2. least \in 0..MaxOps
    BY <1>2
  <2> QED
    BY <1>2, <2>1, <2>2
<1> HIDE DEF streamed, least
<1>5. streamed \cup {least} \in SUBSET (0..MaxOps)
  BY <1>2, <1>4
<1>6. lastRebased \in 0..MaxOps /\ \A r \in streamed : r <= lastRebased
  BY <1>2, <1>5, Greatest
<1> HIDE DEF lastRebased
<1>7. final \in 0..MaxOps /\ \A r \in streamed : r \in 1..final
  BY <1>2, <1>4, <1>6 DEF Revisions
<1> HIDE DEF final, l
<1>8. l \in Loads
  BY <1>2 DEF l, Roots
<1>9. ASSUME NEW c \in DOMAIN l PROVE Rebased(c, l[c], streamed) \in Record /\ c \in Comments
  <2>1. c \in Comments /\ l[c] \in Record
    BY <1>8, LoadShape
  <2> QED
    BY <1>2, <2>1, RebasedShape
<1>10. u \in [DOMAIN l -> Record] /\ DOMAIN l \in SUBSET Comments
  BY <1>9
<1>11. u \in Loads /\ DOMAIN u = DOMAIN l /\ \A c \in DOMAIN l : u[c] = Rebased(c, l[c], streamed)
  <2>1. DOMAIN u = DOMAIN l /\ \A c \in DOMAIN l : u[c] = Rebased(c, l[c], streamed)
    OBVIOUS
  <2> HIDE DEF u
  <2>2. u \in Loads
    BY <1>10 DEF Loads
  <2> QED
    BY <2>1, <2>2
<1>12. streamed \in SUBSET Nat
  BY <1>4
<1>14. CompactedBy(l, u, streamed, final)
  BY <1>2, <1>3, <1>7, <1>11, <1>13 DEF CompactedBy, l
<1> HIDE DEF u, left
<1> QED
  BY <1>7, <1>8, <1>11, <1>12, <1>14

\* The steps that are not the session's leave it where it is.
LEMMA SessionStays ==
    ASSUME TypeInv, UNCHANGED <<last, effect, snap, session>>
    PROVE  SessionInv'
<1>1. SessionInv /\ (session.step = "moving" => session.loaded \in Loads)
  BY DEF TypeInv, SessionInv
<1>2. Affected(session.loaded, session.rev)' = Affected(session.loaded, session.rev)
  BY DEF Affected
<1> QED
  BY <1>1, <1>2 DEF SessionInv

\* What the comment store, the callers and the compaction hold.
StoreOK ==
    /\ comments \in [Comments -> Record \cup {None}]
    /\ drawn \in [Comments -> (0..last) \cup {None}]
    /\ call \in [Callers -> Adding \cup Editing \cup {Idle}]
    /\ compaction \in Loading \cup Rebasing \cup Trimming \cup {Idle}

LEMMA StoreStep ==
    ASSUME Assumptions, TypeInv, Next, last <= last', last' \in Nat
    PROVE  StoreOK'
<1>0. /\ StateOK /\ StoreOK /\ MaxOps \in Nat /\ last \in 0..MaxOps
      /\ session.rev \in 0..MaxOps
  BY DEF Assumptions, BoundsAssumption, TypeInv, StateOK, StoreOK, SessionInv, Sessions
<1>a. drawn' = drawn => drawn' \in [Comments -> (0..last') \cup {None}]
  BY <1>0 DEF StoreOK
<1>b. UNCHANGED <<comments, call, compaction, drawn>> => StoreOK'
  BY <1>0, <1>a DEF StoreOK
<1>1. CASE SessionStep
  <2>1. UNCHANGED drawn
    BY <1>1 DEF SessionStep, Apply, OpAdded, HookLoads, HookUpdates, HookFails, Open, Rehydrate,
                Opened, Close, Crash
  <2>2. CASE HookUpdates
    <3>1. comments' \in [Comments -> Record \cup {None}]
      BY <1>0, <2>2, Hooked, Updated
    <3> QED
      BY <1>0, <1>a, <2>1, <2>2, <3>1 DEF HookUpdates, StoreOK
  <2>3. CASE Crash
    BY <1>0, <1>a, <2>1, <2>3 DEF Crash, StoreOK
  <2>4. CASE ~HookUpdates /\ ~Crash
    <3>1. UNCHANGED <<comments, call, compaction>>
      BY <1>1, <2>4 DEF SessionStep, Apply, OpAdded, HookLoads, HookFails, Open, Rehydrate, Opened, Close
    <3> QED
      BY <1>b, <2>1, <3>1
  <2> QED
    BY <2>2, <2>3, <2>4
<1>2. ASSUME NEW p \in Callers, NEW c \in Comments, SnapshotRevision(p, c) PROVE StoreOK'
  <2>1. PICK seen \in 0..last : drawn' = [drawn EXCEPT ![c] = seen]
    BY <1>2 DEF SnapshotRevision
  <2> DEFINE r == IF Ready THEN session.rev ELSE 0
             x == [step |-> "add", id |-> c, rev |-> r]
  <2>2. call' = [call EXCEPT ![p] = x] /\ UNCHANGED <<last, comments, compaction>>
    BY <1>2 DEF SnapshotRevision, docVars
  <2>3. x \in Adding
    <3>1. r \in 0..MaxOps
      BY <1>0
    <3> HIDE DEF r
    <3> QED
      BY <3>1 DEF Adding
  <2> HIDE DEF x
  <2>4. drawn' \in [Comments -> (0..last) \cup {None}]
    BY <1>0, <2>1 DEF StoreOK
  <2> QED
    BY <1>0, <2>2, <2>3, <2>4 DEF StoreOK
<1>3. ASSUME NEW p \in Callers, NEW c \in Comments, NEW kind \in {"edit", "resolve"}, Get(p, c, kind)
      PROVE  StoreOK'
  <2> DEFINE x == [step |-> kind, id |-> c, copy |-> comments[c]]
  <2>1. /\ call' = [call EXCEPT ![p] = x] /\ UNCHANGED <<last, comments, compaction, drawn>>
        /\ comments[c] \in Record
    BY <1>0, <1>3 DEF Get, docVars, StoreOK
  <2>2. x \in Editing
    BY <2>1 DEF Editing
  <2> HIDE DEF x
  <2> QED
    BY <1>0, <1>a, <2>1, <2>2 DEF StoreOK
<1>4. ASSUME NEW p \in Callers, Add(p) PROVE StoreOK'
  <2>1. call[p] \in Adding
    BY <1>0, <1>4 DEF Add, StoreOK, Editing, Idle
  <2> DEFINE n == [at |-> call[p].rev, moved |-> Unmoved, orphaned |-> FALSE, resolved |-> FALSE]
  <2>2. n \in Record
    <3>1. call[p].rev \in 0..MaxOps /\ Unmoved \in [Revisions -> Nat]
      BY <2>1 DEF Adding, Unmoved
    <3> QED
      BY <3>1 DEF Record
  <2>3. comments' = [comments EXCEPT ![call[p].id] = n]
    BY <1>4 DEF Add
  <2> HIDE DEF n
  <2>4. comments' \in [Comments -> Record \cup {None}]
    BY <1>0, <2>2, <2>3 DEF StoreOK
  <2> QED
    BY <1>0, <1>4, <1>a, <2>4 DEF Add, StoreOK, docVars
<1>5. ASSUME NEW p \in Callers, Update(p) PROVE StoreOK'
  <2>1. call[p] \in Editing
    BY <1>0, <1>5 DEF Update, StoreOK, Adding, Idle
  <2> DEFINE o == call[p].copy.resolved \/ call[p].step = "resolve"
             n == [call[p].copy EXCEPT !.resolved = o]
  <2>2. n \in Record
    <3>1. call[p].copy \in Record /\ call[p].copy.resolved \in BOOLEAN
      BY <2>1, RecordShape DEF Editing
    <3>2. o \in BOOLEAN
      BY <3>1
    <3> HIDE DEF o
    <3> QED
      BY <3>1, <3>2 DEF Record
  <2>3. comments' \in {comments, [comments EXCEPT ![call[p].id] = n]}
    BY <1>5, <2>1 DEF Update, Editing, Record
  <2> HIDE DEF n
  <2>4. comments' \in [Comments -> Record \cup {None}]
    BY <1>0, <2>2, <2>3 DEF StoreOK
  <2> QED
    BY <1>0, <1>5, <1>a, <2>4 DEF Update, StoreOK, docVars
<1>6. ASSUME NEW c \in Comments, Delete(c) PROVE StoreOK'
  BY <1>0, <1>6, <1>a DEF Delete, StoreOK, docVars
<1>7. ASSUME NEW upTo \in Revisions, Compact(upTo) PROVE StoreOK'
  <2>0. UNCHANGED <<last, comments, call, drawn>>
    BY <1>7 DEF Compact, docVars
  <2>1. MinAnchored \in SUBSET (0..MaxOps)
    BY <1>0, LoadOpenShape, RecordShape DEF MinAnchored
  <2>2. compaction' \in Loading \cup Trimming
    <3>1. CASE \E r \in MinAnchored : r <= upTo
      <4>1. Min(MinAnchored) \in MinAnchored
        <5>1. MinAnchored \in SUBSET Nat /\ MinAnchored # {}
          BY <1>0, <2>1, <3>1
        <5> QED
          BY <5>1, Smallest
      <4> DEFINE from == Min(MinAnchored)
      <4>2. from \in 0..MaxOps
        BY <2>1, <4>1
      <4>3. compaction' = [step |-> "load", upTo |-> upTo, from |-> from]
        BY <1>7, <3>1 DEF Compact
      <4> HIDE DEF from
      <4> QED
        BY <4>2, <4>3 DEF Loading
    <3>2. CASE ~ \E r \in MinAnchored : r <= upTo
      BY <1>7, <3>2 DEF Compact, Trimming
    <3> QED
      BY <3>1, <3>2
  <2> QED
    BY <1>0, <1>a, <2>0, <2>2 DEF StoreOK
<1>8. CASE CompactLoads
  <2>1. compaction \in Loading
    BY <1>0, <1>8 DEF CompactLoads, StoreOK, Rebasing, Trimming, Idle
  <2> DEFINE roots == {c \in DOMAIN LoadOpen : ~comments[c].orphaned}
             f == [c \in roots |-> comments[c]]
  <2>2. \A c \in roots : c \in Comments /\ comments[c] \in Record /\ ~comments[c].orphaned
    BY <1>0, LoadOpenShape
  <2>3. compaction' = IF roots = {} THEN [step |-> "trim", upTo |-> compaction.upTo]
                      ELSE [step |-> "rebase", upTo |-> compaction.upTo, from |-> compaction.from,
                            loaded |-> f]
    BY <1>8 DEF CompactLoads
  <2> HIDE DEF roots
  <2>4. /\ f \in [roots -> Record] /\ roots \in SUBSET Comments
        /\ DOMAIN f = roots /\ \A c \in roots : f[c] = comments[c]
    BY <2>2
  <2> HIDE DEF f
  <2>7. f \in Loads
    BY <2>4 DEF Loads
  <2>5. f \in Roots /\ compaction.upTo \in Revisions /\ compaction.from \in 0..MaxOps
    BY <2>1, <2>2, <2>4, <2>7 DEF Roots, Loading
  <2>6. compaction' \in Rebasing \cup Trimming
    BY <2>3, <2>5 DEF Rebasing, Trimming
  <2> QED
    BY <1>0, <1>8, <1>a, <2>6 DEF CompactLoads, StoreOK, docVars
<1>9. CASE CompactRebases
  <2>1. comments' \in [Comments -> Record \cup {None}]
    <3>1. PICK l \in Loads, u \in Loads, streamed \in SUBSET Nat, final \in 0..MaxOps :
              CompactedBy(l, u, streamed, final)
      BY <1>9, Compacted
    <3> QED
      BY <1>0, <3>1, Updated DEF CompactedBy
  <2>2. compaction \in Rebasing /\ compaction' = [step |-> "trim", upTo |-> compaction.upTo]
    BY <1>0, <1>9 DEF CompactRebases, StoreOK, Loading, Trimming, Idle
  <2>3. compaction' \in Trimming
    BY <2>2 DEF Rebasing, Trimming
  <2> QED
    BY <1>0, <1>9, <1>a, <2>1, <2>3 DEF CompactRebases, StoreOK, docVars
<1>10. CASE CompactTrims
  BY <1>0, <1>10, <1>a DEF CompactTrims, StoreOK
<1> QED
  BY <1>1, <1>2, <1>3, <1>4, <1>5, <1>6, <1>7, <1>8, <1>9, <1>10 DEF Next, CommentStep, CompactionStep

\* What was drawn stays drawn.
DrawnStays == \A c \in Comments : drawn[c] # None => drawn'[c] = drawn[c]

LEMMA DrawnStep ==
    ASSUME Assumptions, TypeInv, Next
    PROVE  DrawnInv' /\ DrawnStays
<1>0. /\ StateOK /\ StoreOK /\ DrawnInv
      /\ call \in [Callers -> Adding \cup Editing \cup {Idle}] /\ comments \in [Comments -> Record \cup {None}]
      /\ session.step = "moving" => session.loaded \in Loads
      /\ \A c \in Comments : comments[c] # None => drawn[c] # None
      /\ \A p \in Callers : call[p].step # "idle" => drawn[call[p].id] # None /\ call[p].id \in Comments
      /\ session.step = "moving" => \A c \in DOMAIN session.loaded : drawn[c] # None
  BY DEF TypeInv, StateOK, StoreOK, SessionInv, DrawnInv, Adding, Editing, Idle
<1>a. ASSUME UNCHANGED drawn, \A c \in Comments : comments'[c] # None => drawn[c] # None,
             \A p \in Callers : call'[p] = call[p] \/ call'[p] = Idle,
             UNCHANGED session \/ session'.step # "moving"
      PROVE  DrawnInv' /\ DrawnStays
  BY <1>0, <1>a DEF DrawnInv, DrawnStays, Idle
<1>b. UNCHANGED <<drawn, comments, call, session>> => DrawnInv' /\ DrawnStays
  BY <1>0, <1>a
<1>1. CASE SessionStep
  <2>1. UNCHANGED drawn
    BY <1>1 DEF SessionStep, Apply, OpAdded, HookLoads, HookUpdates, HookFails, Open, Rehydrate,
                Opened, Close, Crash
  <2>2. CASE HookUpdates
    <3>1. \A c \in Comments : comments[c] = None => comments'[c] = None
      BY <1>0, <2>2, Hooked, Updated
    <3>2. UNCHANGED call /\ session'.step # "moving"
      BY <1>0, <2>2 DEF HookUpdates, HookDone, StateOK, Sessions
    <3> QED
      BY <1>0, <1>a, <2>1, <3>1, <3>2
  <2>3. CASE HookLoads
    <3>1. UNCHANGED <<call, comments>> /\ session.step = "hook"
      BY <2>3 DEF HookLoads
    <3>2. CASE Affected(LoadOpen, session.rev) = {}
      <4>1. session'.step # "moving"
        BY <1>0, <2>3, <3>2 DEF HookLoads, StateOK, Sessions
      <4> QED
        BY <1>0, <1>a, <2>1, <3>1, <4>1
    <3>3. CASE Affected(LoadOpen, session.rev) # {}
      <4>1. session'.loaded = LoadOpen
        BY <1>0, <2>3, <3>3 DEF HookLoads, StateOK, Sessions
      <4>2. \A c \in DOMAIN LoadOpen : drawn[c] # None
        BY <1>0, LoadOpenShape
      <4> QED
        BY <1>0, <2>1, <3>1, <4>1, <4>2 DEF DrawnInv, DrawnStays
    <3> QED
      BY <3>2, <3>3
  <2>4. CASE ~HookUpdates /\ ~HookLoads
    <3>1. /\ UNCHANGED comments /\ \A p \in Callers : call'[p] = call[p] \/ call'[p] = Idle
      BY <1>1, <2>4 DEF SessionStep, Apply, OpAdded, HookFails, Open, Rehydrate, Opened, Close, Crash
    <3>a. session \in Sessions
      BY <1>0 DEF StateOK
    <3>b. ASSUME Apply \/ OpAdded \/ Rehydrate \/ Opened PROVE session'.step # "moving"
      BY <3>a, <3>b DEF Apply, OpAdded, Rehydrate, Opened, Sessions
    <3>c. ASSUME HookFails PROVE session'.step # "moving"
      <4>1. session' = HookDone
        BY <3>c DEF HookFails
      <4> QED
        BY <3>a, <4>1 DEF HookDone, Sessions
    <3>d. ASSUME Open \/ Close \/ Crash PROVE session'.step # "moving"
      <4>1. session' = Closed \/ session' = [Closed EXCEPT !.step = "replaying", !.rev = snap, !.opening = TRUE]
        BY <3>d DEF Open, Close, Crash
      <4>2. Closed.step = "closed" /\ Closed \in [step : {"closed"}, rev : {0}, opening : {FALSE}, loaded : {None}]
        BY DEF Closed
      <4> QED
        BY <4>1, <4>2
    <3>2. session'.step # "moving"
      BY <1>1, <2>4, <3>b, <3>c, <3>d DEF SessionStep
    <3> QED
      BY <1>0, <1>a, <2>1, <3>1, <3>2
  <2> QED
    BY <2>2, <2>3, <2>4
<1>2. ASSUME NEW p \in Callers, NEW c \in Comments, SnapshotRevision(p, c) PROVE DrawnInv' /\ DrawnStays
  <2>1. PICK seen \in 0..last : drawn' = [drawn EXCEPT ![c] = seen]
    BY <1>2 DEF SnapshotRevision
  <2>2. /\ call' = [call EXCEPT ![p] = [step |-> "add", id |-> c, rev |-> IF Ready THEN session.rev ELSE 0]]
        /\ UNCHANGED <<last, comments, session>> /\ drawn[c] = None
    BY <1>2 DEF SnapshotRevision, docVars
  <2>3. seen # None
    BY DEF TypeInv, StateOK, Assumptions, BoundsAssumption, NoneAssumption
  <2>4. /\ \A b \in Comments : drawn'[b] = drawn[b] \/ (b = c /\ drawn'[b] # None)
        /\ \A b \in Comments : drawn[b] # None => drawn'[b] = drawn[b]
    BY <1>0, <2>1, <2>2, <2>3 DEF StateOK
  <2>5. \A q \in Callers : call'[q] = call[q] \/ call'[q].id = c
    BY <1>0, <2>2
  <2>6. \A b \in Comments : drawn[b] # None => drawn'[b] # None
    BY <2>4
  <2>7. drawn'[c] # None
    BY <1>0, <2>1, <2>3 DEF StateOK
  <2>8. \A q \in Callers : call'[q].step # "idle" => drawn'[call'[q].id] # None
    BY <1>0, <2>5, <2>6, <2>7
  <2>9. session.step = "moving" => \A b \in DOMAIN session.loaded : b \in Comments
    BY <1>0, LoadShape
  <2> QED
    BY <1>0, <2>2, <2>4, <2>6, <2>8, <2>9 DEF DrawnInv, DrawnStays
<1>3. ASSUME NEW p \in Callers, NEW c \in Comments, NEW kind \in {"edit", "resolve"}, Get(p, c, kind)
      PROVE  DrawnInv' /\ DrawnStays
  <2>1. /\ call' = [call EXCEPT ![p] = [step |-> kind, id |-> c, copy |-> comments[c]]]
        /\ UNCHANGED <<comments, drawn, session>> /\ drawn[c] # None
    BY <1>0, <1>3 DEF Get
  <2>2. \A q \in Callers : call'[q] = call[q] \/ call'[q].id = c
    BY <1>0, <2>1
  <2> QED
    BY <1>0, <2>1, <2>2 DEF DrawnInv, DrawnStays
<1>4. ASSUME NEW p \in Callers, Add(p) PROVE DrawnInv' /\ DrawnStays
  <2>1. call[p].id \in Comments /\ drawn[call[p].id] # None
    BY <1>0, <1>4 DEF Add
  <2>2. /\ UNCHANGED <<drawn, session>> /\ call' = [call EXCEPT ![p] = Idle]
        /\ \A b \in Comments : comments'[b] = comments[b] \/ b = call[p].id
    BY <1>0, <1>4 DEF Add
  <2> QED
    BY <1>0, <1>a, <2>1, <2>2
<1>5. ASSUME NEW p \in Callers, Update(p) PROVE DrawnInv' /\ DrawnStays
  <2>1. /\ UNCHANGED <<drawn, session>> /\ call' = [call EXCEPT ![p] = Idle]
        /\ \A b \in Comments : comments'[b] = comments[b] \/ (b = call[p].id /\ comments[b] # None)
    BY <1>0, <1>5 DEF Update
  <2> QED
    BY <1>0, <1>a, <2>1
<1>6. ASSUME NEW c \in Comments, Delete(c) PROVE DrawnInv' /\ DrawnStays
  BY <1>0, <1>6, <1>a DEF Delete
<1>7. ASSUME NEW upTo \in Revisions, Compact(upTo) PROVE DrawnInv' /\ DrawnStays
  BY <1>7, <1>b DEF Compact
<1>8. CASE CompactLoads
  BY <1>8, <1>b DEF CompactLoads
<1>9. CASE CompactRebases
  <2>1. \A c \in Comments : comments[c] = None => comments'[c] = None
    <3>1. PICK l \in Loads, u \in Loads, streamed \in SUBSET Nat, final \in 0..MaxOps :
              CompactedBy(l, u, streamed, final)
      BY <1>9, Compacted
    <3> QED
      BY <1>0, <3>1, Updated DEF CompactedBy
  <2> QED
    BY <1>0, <1>9, <1>a, <2>1 DEF CompactRebases
<1>10. CASE CompactTrims
  BY <1>10, <1>b DEF CompactTrims
<1> QED
  BY <1>1, <1>2, <1>3, <1>4, <1>5, <1>6, <1>7, <1>8, <1>9, <1>10 DEF Next, CommentStep, CompactionStep

\* Where the document is: it only grows, and the operations in it stay what they are.
Grows ==
    /\ last' \in Nat /\ last <= last'
    /\ \A q \in 1..last : effect'[q] = effect[q]

LEMMA TypeStep == Assumptions /\ TypeInv /\ [Next]_vars => TypeInv' /\ Grows /\ DrawnStays
<1> SUFFICES ASSUME Assumptions, TypeInv, [Next]_vars PROVE TypeInv' /\ Grows /\ DrawnStays
  OBVIOUS
<1>0. last \in Nat /\ StateOK /\ MaxOps \in Nat
  BY DEF TypeInv, StateOK, Assumptions, BoundsAssumption
<1>1. CASE SessionStep
  <2>1. /\ last' \in 0..MaxOps /\ last <= last' /\ snap' \in 0..last' /\ hot' \subseteq 1..last'
        /\ effect' \in [Revisions -> [Comments -> Effects]]
        /\ \A q \in 1..last : effect'[q] = effect[q]
        /\ session' \in Sessions
        /\ SessionInv'
    BY <1>1, SessionTypes
  <2>2. Grows
    BY <1>0, <2>1 DEF Grows
  <2>3. StoreOK' /\ DrawnInv' /\ DrawnStays
    BY <1>1, <2>2, StoreStep, DrawnStep DEF Next, Grows
  <2>4. StateOK'
    BY <2>1, <2>3 DEF StateOK, StoreOK, Revisions, Effects, Record, Sessions, Loads, Roots, Adding, Editing,
                      Loading, Rebasing, Trimming, Idle
  <2> QED
    BY <2>1, <2>2, <2>3, <2>4 DEF TypeInv
<1>2. CASE CommentStep \/ CompactionStep
  <2>1. UNCHANGED <<last, effect, snap, session>> /\ hot' \subseteq hot
    BY <1>2 DEF CommentStep, CompactionStep, SnapshotRevision, Get, Add, Update, Delete, Compact,
                CompactLoads, CompactRebases, CompactTrims, docVars
  <2>2. Grows /\ SessionInv'
    BY <1>0, <2>1, SessionStays DEF Grows
  <2>3. StoreOK' /\ DrawnInv' /\ DrawnStays
    BY <1>2, <2>2, StoreStep, DrawnStep DEF Next, Grows
  <2>4. StateOK'
    BY <1>0, <2>1, <2>3 DEF StateOK, StoreOK, Revisions, Effects, Record, Sessions, Loads, Roots, Adding, Editing,
                      Loading, Rebasing, Trimming, Idle
  <2> QED
    BY <2>2, <2>3, <2>4 DEF TypeInv
<1>3. CASE UNCHANGED vars
  <2>1. Grows /\ DrawnStays /\ SessionInv'
    BY <1>0, <1>3, SessionStays DEF Grows, DrawnStays, vars, docVars
  <2>2. StateOK' /\ DrawnInv'
    BY <1>0, <1>3 DEF TypeInv, StateOK, DrawnInv, vars, docVars, Revisions, Effects, Record, Sessions, Loads,
                      Adding, Editing, Loading, Rebasing, Trimming, Idle
  <2> QED
    BY <2>1, <2>2 DEF TypeInv
<1> QED
  BY <1>1, <1>2, <1>3 DEF Next

LEMMA TypeFollows == Assumptions /\ TypeInv => TypeOK
<1> SUFFICES ASSUME Assumptions, TypeInv PROVE TypeOK
  OBVIOUS
<1>1. /\ last \in 0..MaxOps /\ snap \in 0..last /\ hot \subseteq 1..last
      /\ effect \in [Revisions -> [Comments -> Effects]]
  BY DEF TypeInv, StateOK
<1>2. /\ session.rev \in 0..last
      /\ session.step \in {"closed", "replaying", "ready", "applied", "hook", "moving"}
      /\ session.step = "moving" => Affected(session.loaded, session.rev) # {}
      /\ session.step \in {"ready", "applied"} => session.rev = last
  <2>1. session \in Sessions /\ session.rev \in Nat /\ last \in Nat
    BY <1>1 DEF TypeInv, StateOK, Sessions, Assumptions, BoundsAssumption
  <2> QED
    BY <2>1 DEF TypeInv, SessionInv, Sessions
<1>3. /\ \A c \in Comments : comments[c] = None \/ comments[c] \in Record
      /\ \A c \in Comments : comments[c] # None => drawn[c] \in 0..last
      /\ \A p \in Callers : call[p].step \in {"idle", "add", "edit", "resolve"}
      /\ compaction.step \in {"idle", "load", "rebase", "trim"}
  BY DEF TypeInv, StateOK, DrawnInv, Adding, Editing, Loading, Rebasing, Trimming, Idle
<1> QED
  BY <1>1, <1>2, <1>3 DEF TypeOK

\* Every variable keeps its type; in particular the session is at the end of the log when it
\* takes an operation, and what the hook has loaded to move is never nothing.
THEOREM TypeCorrect == Spec => []TypeOK
<1>0. Assumptions
  BY BoundsAssumption, NoneAssumption DEF Assumptions
<1>1. Init => TypeInv
  BY <1>0, TypeInit
<1>2. TypeInv /\ [Next]_vars => TypeInv'
  BY <1>0, TypeStep
<1>3. TypeInv => TypeOK
  BY <1>0, TypeFollows
<1> QED
  BY <1>1, <1>2, <1>3, PTL DEF Spec

----------------------------------------------------------------------------
\* The anchors.

\* Operation q has moved the anchor of comment c, and an operation has deleted its text,
\* by revision r.
MovedBy(c, r, q) ==
    /\ q \in drawn[c] + 1..r /\ effect[q][c] = "moves"
    /\ \A d \in drawn[c] + 1..r : effect[d][c] = "deletes" => q < d
DeletedBy(c, r) == \E d \in drawn[c] + 1..r : effect[d][c] = "deletes"

\* What it is for a record to be right, operation by operation.
LEMMA RightMeans ==
    ASSUME NEW c \in Comments, NEW m \in Record
    PROVE  Right(c, m) <=>
               /\ m.at <= last
               /\ \A q \in Revisions : m.moved[q] = IF MovedBy(c, m.at, q) THEN 1 ELSE 0
               /\ m.orphaned <=> DeletedBy(c, m.at)
               /\ Touching(c, m.at + 1..drawn[c]) = {}
<1> DEFINE r == m.at
           deleted == {q \in drawn[c] + 1..r : effect[q][c] = "deletes"}
           mv == [q \in Revisions |->
                     IF /\ q \in drawn[c] + 1..r /\ effect[q][c] = "moves"
                        /\ \A d \in deleted : q < d
                     THEN 1 ELSE 0]
           o == deleted # {}
<1>1. Followed(c, m.at) = [moved |-> mv, orphaned |-> o]
  BY DEF Followed
<1>2. ASSUME NEW q \in Revisions PROVE mv[q] = IF MovedBy(c, r, q) THEN 1 ELSE 0
  <2>1. MovedBy(c, r, q) <=> /\ q \in drawn[c] + 1..r /\ effect[q][c] = "moves"
                             /\ \A d \in deleted : q < d
    BY DEF MovedBy
  <2> QED
    BY <2>1
<1>3. o <=> DeletedBy(c, r)
  BY DEF DeletedBy
<1>4. m.moved \in [Revisions -> Nat] /\ m.orphaned \in BOOLEAN
  BY RecordShape
<1>5. mv = [q \in Revisions |-> mv[q]] /\ o \in BOOLEAN
  OBVIOUS
<1> HIDE DEF mv, o, r
<1>6. Followed(c, m.at).moved = mv /\ Followed(c, m.at).orphaned = o
  BY <1>1
<1>7. m.moved = [q \in Revisions |-> m.moved[q]]
  BY <1>4
<1>8. m.moved = mv <=> \A q \in Revisions : m.moved[q] = mv[q]
  <2>1. ASSUME \A q \in Revisions : m.moved[q] = mv[q] PROVE m.moved = mv
    BY <1>5, <1>7, <2>1
  <2> QED
    BY <2>1
<1>9. m.moved = mv <=> \A q \in Revisions : m.moved[q] = IF MovedBy(c, r, q) THEN 1 ELSE 0
  BY <1>2, <1>8
<1>10. m.orphaned = o <=> (m.orphaned <=> DeletedBy(c, r))
  BY <1>3, <1>4, <1>5
<1> QED
  BY <1>6, <1>9, <1>10 DEF Right, r

\* Of the operations up to revision r, only those after the anchor was drawn count, and these
\* stay what they are.
LEMMA RightKept ==
    ASSUME StateOK, Grows, MaxOps \in Nat, NEW c \in Comments, NEW m \in Record, Right(c, m),
           drawn[c] # None, drawn'[c] = drawn[c]
    PROVE  Right(c, m)'
<1>1. m.at \in Nat /\ m.at <= last /\ last \in Nat /\ last <= last' /\ last' \in Nat /\ drawn[c] \in 0..last
  BY RecordShape DEF StateOK, Right, Grows
<1>2. \A q \in drawn[c] + 1..m.at : effect'[q] = effect[q]
  BY <1>1 DEF Grows
<1>3. \A q \in m.at + 1..drawn[c] : effect'[q] = effect[q]
  BY <1>1 DEF Grows
<1>4. Followed(c, m.at)' = Followed(c, m.at)
  BY <1>1, <1>2 DEF Followed
<1>5. Touching(c, m.at + 1..drawn[c])' = Touching(c, m.at + 1..drawn[c])
  BY <1>3 DEF Touching
<1> QED
  BY <1>1, <1>4, <1>5 DEF Right

\* A record that differs in nothing else is as right.
LEMMA RightOf ==
    ASSUME NEW c \in Comments, NEW m \in Record, NEW n \in Record, Right(c, m),
           n.at = m.at, n.moved = m.moved, n.orphaned = m.orphaned
    PROVE  Right(c, n)
BY DEF Right

\* The hook takes the anchor over the last operation, which is the only one it is behind.
LEMMA RightAfterHook ==
    ASSUME StateOK, MaxOps \in Nat, NEW c \in Comments, NEW m \in Record, Right(c, m), ~m.orphaned,
           drawn[c] # None, Touching(c, m.at + 1..last) = {last}, NEW n \in Record, n.at = last,
           n.moved = Rebase(c, m, last).moved, n.orphaned = Rebase(c, m, last).orphaned
    PROVE  Right(c, n)
<1>1. /\ m.at \in Nat /\ last \in Nat /\ drawn[c] \in Nat /\ drawn[c] <= last /\ last <= MaxOps
      /\ m.moved \in [Revisions -> Nat] /\ n.moved \in [Revisions -> Nat]
  BY RecordShape DEF StateOK
<1>2. last \in m.at + 1..last /\ effect[last][c] # "keeps" /\ m.at < last /\ last \in Revisions
  BY <1>1 DEF Touching, Revisions
<1>3. effect[last][c] \in {"moves", "deletes"}
  BY <1>2 DEF StateOK, Effects
<1>4. drawn[c] < last
  <2>1. last \notin m.at + 1..drawn[c]
    BY <1>2 DEF Right, Touching
  <2> QED
    BY <1>1, <1>2, <2>1
<1>5. \A q \in m.at + 1..last : q # last => effect[q][c] = "keeps"
  BY DEF Touching
<1>6. /\ \A d \in drawn[c] + 1..m.at : effect[d][c] # "deletes"
      /\ \A q \in Revisions : m.moved[q] = IF MovedBy(c, m.at, q) THEN 1 ELSE 0
  BY RightMeans DEF DeletedBy
<1>8. ASSUME NEW d \in drawn[c] + 1..last, effect[d][c] = "deletes" PROVE d = last
  BY <1>1, <1>5, <1>6, <1>8
<1>a. last \in drawn[c] + 1..last
  BY <1>1, <1>4
<1>9. n.orphaned <=> DeletedBy(c, last)
  <2>1. n.orphaned <=> effect[last][c] = "deletes"
    <3>1. m.orphaned = FALSE
      BY RecordShape
    <3>2. /\ effect[last][c] = "moves" => Rebase(c, m, last).orphaned = m.orphaned
          /\ effect[last][c] = "deletes" => Rebase(c, m, last).orphaned = TRUE
      BY <1>2, RebaseShape
    <3>3. CASE effect[last][c] = "moves"
      BY <3>1, <3>2, <3>3
    <3>4. CASE effect[last][c] = "deletes"
      BY <3>2, <3>4
    <3> QED
      BY <1>3, <3>3, <3>4
  <2>2. DeletedBy(c, last) <=> effect[last][c] = "deletes"
    BY <1>8, <1>a DEF DeletedBy
  <2> QED
    BY <2>1, <2>2
<1>b. /\ effect[last][c] = "moves" => n.moved = [m.moved EXCEPT ![last] = m.moved[last] + 1]
      /\ effect[last][c] = "deletes" => n.moved = m.moved
  BY <1>2, RebaseShape
<1>10. ASSUME NEW q \in Revisions
       PROVE  n.moved[q] = IF MovedBy(c, last, q) THEN 1 ELSE 0
  <2>0. q \in Nat
    BY DEF Revisions
  <2>1. CASE q = last
    <3>1. m.moved[q] = 0
      <4>1. ~MovedBy(c, m.at, q)
        BY <1>1, <1>2, <2>1 DEF MovedBy
      <4> QED
        BY <1>6, <4>1
    <3>2. CASE effect[last][c] = "moves"
      <4>1. n.moved[q] = 1
        BY <1>1, <1>2, <1>b, <2>1, <3>1, <3>2
      <4>2. \A d \in drawn[c] + 1..last : effect[d][c] # "deletes"
        BY <1>8, <3>2
      <4>3. MovedBy(c, last, q)
        BY <1>a, <2>1, <3>2, <4>2 DEF MovedBy
      <4> QED
        BY <4>1, <4>3
    <3>3. CASE effect[last][c] = "deletes"
      <4>1. n.moved[q] = 0
        BY <1>b, <3>1, <3>3
      <4>2. ~MovedBy(c, last, q)
        BY <2>1, <3>3 DEF MovedBy
      <4> QED
        BY <4>1, <4>2
    <3> QED
      BY <1>3, <3>2, <3>3
  <2>2. CASE q # last
    <3>1. n.moved[q] = m.moved[q]
      BY <1>1, <1>2, <1>3, <1>b, <2>2
    <3>2. q \in drawn[c] + 1..last /\ effect[q][c] = "moves"
              <=> q \in drawn[c] + 1..m.at /\ effect[q][c] = "moves"
      BY <1>1, <1>2, <1>5, <2>0, <2>2
    <3>3. q \in drawn[c] + 1..last => \A d \in drawn[c] + 1..last : effect[d][c] = "deletes" => q < d
      BY <1>1, <1>8, <2>0, <2>2
    <3>4. MovedBy(c, last, q) <=> MovedBy(c, m.at, q)
      BY <1>6, <3>2, <3>3 DEF MovedBy
    <3> QED
      BY <1>6, <3>1, <3>4
  <2> QED
    BY <2>1, <2>2
<1>12. Touching(c, last + 1..drawn[c]) = {}
  BY <1>1 DEF Touching
<1> QED
  BY <1>1, <1>9, <1>10, <1>12, RightMeans, SMTT(30)

\* The compaction takes the anchor over the operations it has streamed, or there is none to
\* take it over.
LEMMA RightAfterCompaction ==
    ASSUME StateOK, MaxOps \in Nat, NEW c \in Comments, NEW m \in Record, Right(c, m), ~m.orphaned,
           drawn[c] # None, NEW revs \in SUBSET Nat, NEW final \in 0..MaxOps, final <= last,
           \A r \in revs : r \in 1..final,
           Touching(c, final + 1..m.at) = {},
           \/ Touching(c, m.at + 1..final) = {}
           \/ EngineType \in engines /\ m.at + 1..final \subseteq revs,
           NEW n \in Record, n.at = final,
           n.moved = Rebased(c, m, revs).moved, n.orphaned = Rebased(c, m, revs).orphaned
    PROVE  Right(c, n)
<1>1. /\ m.at \in Nat /\ m.at <= last /\ last \in Nat /\ drawn[c] \in Nat /\ drawn[c] <= last /\ final \in Nat
      /\ m.moved \in [Revisions -> Nat] /\ n.moved \in [Revisions -> Nat]
  BY RecordShape DEF StateOK, Right
<1> DEFINE M == Moving(c, m, revs)
           D == Deleting(c, m, revs)
           B == Before(c, m, revs)
<1>2. \A q \in Nat : q \in M <=> q \in m.at + 1..final /\ effect[q][c] # "keeps"
  <2>1. \A q \in M : q \in revs /\ q > m.at /\ effect[q][c] # "keeps" /\ EngineType \in engines
    BY DEF Moving
  <2>2. EngineType \in engines => \A q \in revs : q > m.at /\ effect[q][c] # "keeps" => q \in M
    BY DEF Moving
  <2> HIDE DEF M
  <2>3. \A q \in M : q \in m.at + 1..final
    <3> SUFFICES ASSUME NEW q \in M PROVE q \in m.at + 1..final
      OBVIOUS
    <3>1. q \in revs /\ q > m.at
      BY <2>1
    <3>2. q \in 1..final
      BY <3>1
    <3> QED
      BY <1>1, <3>1, <3>2
  <2>4. CASE Touching(c, m.at + 1..final) = {}
    <3>1. \A q \in m.at + 1..final : effect[q][c] = "keeps"
      BY <2>4 DEF Touching
    <3> QED
      BY <2>1, <2>3, <3>1
  <2>5. CASE EngineType \in engines /\ m.at + 1..final \subseteq revs
    <3>1. \A q \in m.at + 1..final : q \in revs /\ q > m.at
      BY <1>1, <2>5
    <3> QED
      BY <2>1, <2>2, <2>3, <2>5, <3>1
  <2> QED
    BY <2>4, <2>5
<1>3. D \subseteq M /\ M \subseteq Nat /\ \A q \in M : q \in D <=> effect[q][c] = "deletes"
  BY DEF Deleting, Moving
<1>4. B = IF D = {} THEN M ELSE {q \in M : q < Min(D)}
  BY DEF Before
<1> HIDE DEF M, D, B
<1>5. /\ \A d \in drawn[c] + 1..m.at : effect[d][c] # "deletes"
      /\ \A q \in Revisions : m.moved[q] = IF MovedBy(c, m.at, q) THEN 1 ELSE 0
  BY RightMeans DEF DeletedBy
<1>6. /\ \A q \in m.at + 1..drawn[c] : effect[q][c] = "keeps"
      /\ \A q \in final + 1..m.at : effect[q][c] = "keeps"
  BY DEF Touching, Right
<1>7. \A q \in M : q \in drawn[c] + 1..final /\ q > m.at
  BY <1>1, <1>2, <1>3, <1>6
<1>8. \A d \in drawn[c] + 1..final : effect[d][c] = "deletes" => d \in D
  <2> SUFFICES ASSUME NEW d \in drawn[c] + 1..final, effect[d][c] = "deletes" PROVE d \in D
    OBVIOUS
  <2>1. d \in Nat /\ d > m.at
    BY <1>1, <1>5
  <2>2. d \in M
    BY <1>1, <1>2, <2>1
  <2> QED
    BY <1>3, <2>2
<1>9. \A d \in D : d \in drawn[c] + 1..final /\ effect[d][c] = "deletes" /\ d > m.at
  BY <1>3, <1>7
<1>10. n.orphaned <=> DeletedBy(c, final)
  <2>1. n.orphaned = (D # {})
    BY RebasedShape DEF D
  <2> QED
    BY <1>8, <1>9, <2>1 DEF DeletedBy
<1>11. \A q \in Revisions : n.moved[q] = m.moved[q] + IF q \in B THEN 1 ELSE 0
  <2>1. n.moved = [r \in Revisions |-> m.moved[r] + IF r \in B THEN 1 ELSE 0]
    BY RebasedShape DEF B
  <2> QED
    BY <2>1
<1>12. D # {} => Min(D) \in D /\ \A d \in D : Min(D) <= d
  <2>1. D \in SUBSET Nat
    BY <1>3
  <2> QED
    BY <2>1, Smallest
<1>13. ASSUME NEW q \in Revisions
       PROVE  n.moved[q] = IF MovedBy(c, final, q) THEN 1 ELSE 0
  <2>0. q \in Nat /\ n.moved[q] = m.moved[q] + (IF q \in B THEN 1 ELSE 0) /\ m.moved[q] \in Nat
    BY <1>1, <1>11 DEF Revisions
  <2>1. CASE q <= m.at
    <3>1. q \notin B
      BY <1>4, <1>7, <2>0, <2>1, <1>1
    <3>2. MovedBy(c, m.at, q) <=> q \in drawn[c] + 1..m.at /\ effect[q][c] = "moves"
      BY <1>5 DEF MovedBy
    <3>3. \A d \in drawn[c] + 1..final : effect[d][c] = "deletes" => q < d
      BY <1>1, <1>8, <1>9, <2>0, <2>1
    <3>4. MovedBy(c, final, q) <=> q \in drawn[c] + 1..final /\ effect[q][c] = "moves"
      BY <3>3 DEF MovedBy
    <3>5. MovedBy(c, final, q) <=> MovedBy(c, m.at, q)
      BY <1>1, <1>6, <2>0, <2>1, <3>2, <3>4
    <3> QED
      BY <1>5, <2>0, <3>1, <3>5
  <2>2. CASE q > m.at
    <3>1. m.moved[q] = 0
      <4>1. ~MovedBy(c, m.at, q)
        BY <1>1, <2>0, <2>2 DEF MovedBy
      <4> QED
        BY <1>5, <4>1
    <3>2. ASSUME q \in B PROVE MovedBy(c, final, q)
      <4>1. q \in M /\ (D # {} => q < Min(D))
        BY <1>4, <3>2
      <4>2. q \in drawn[c] + 1..final /\ effect[q][c] # "keeps"
        BY <1>2, <1>7, <2>0, <4>1
      <4>3. q \notin D
        <5>1. ASSUME q \in D PROVE FALSE
          <6>1. Min(D) \in Nat /\ Min(D) <= q /\ q < Min(D)
            BY <1>3, <1>12, <4>1, <5>1
          <6> QED
            BY <2>0, <6>1
        <5> QED
          BY <5>1
      <4>4. effect[q][c] = "moves"
        <5>1. effect[q][c] \in {"keeps", "moves", "deletes"}
          BY DEF StateOK, Effects
        <5> QED
          BY <1>3, <4>1, <4>2, <4>3, <5>1
      <4>5. \A d \in D : q < d
        <5> SUFFICES ASSUME NEW d \in D PROVE q < d
          OBVIOUS
        <5>1. Min(D) \in Nat /\ Min(D) <= d /\ q < Min(D) /\ d \in Nat
          BY <1>3, <1>12, <4>1
        <5> QED
          BY <2>0, <5>1
      <4> QED
        BY <1>8, <4>2, <4>4, <4>5 DEF MovedBy
    <3>3. ASSUME MovedBy(c, final, q) PROVE q \in B
      <4>1. /\ q \in drawn[c] + 1..final /\ effect[q][c] = "moves"
            /\ \A d \in drawn[c] + 1..final : effect[d][c] = "deletes" => q < d
        BY <3>3 DEF MovedBy
      <4>2. q \in M
        BY <1>1, <1>2, <2>0, <2>2, <4>1
      <4>3. D # {} => q < Min(D)
        BY <1>9, <1>12, <4>1
      <4> QED
        BY <1>4, <4>2, <4>3
    <3>4. n.moved[q] = IF q \in B THEN 1 ELSE 0
      BY <2>0, <3>1
    <3> QED
      BY <3>2, <3>3, <3>4
  <2> QED
    BY <1>1, <2>0, <2>1, <2>2
<1>14. Touching(c, final + 1..drawn[c]) = {}
  <2>1. \A q \in final + 1..drawn[c] : effect[q][c] = "keeps"
    BY <1>1, <1>6
  <2> QED
    BY <2>1 DEF Touching
<1> QED
  BY <1>1, <1>10, <1>13, <1>14, RightMeans

\* The anchor of a comment that nothing is written for: its hook, if it is still to come,
\* must stay so.
LEMMA AnchorStays ==
    ASSUME Assumptions, TypeInv, Grows, UNCHANGED <<last, effect>>,
           NEW c \in Comments, NEW m \in Record, Right(c, m), Settled(c, m),
           drawn[c] # None, drawn'[c] = drawn[c],
           ~m.orphaned /\ m.at < last /\ effect[last][c] # "keeps" /\ Pending(c) => Pending(c)'
    PROVE  Right(c, m)' /\ Settled(c, m)'
<1>1. Right(c, m)'
  BY RightKept DEF TypeInv, Assumptions, BoundsAssumption
<1>2. Touching(c, m.at + 1..last)' = Touching(c, m.at + 1..last)
  BY DEF Touching
<1>3. CASE m.orphaned
  BY <1>1, <1>3 DEF Settled
<1>4. CASE ~m.orphaned
  <2>1. ASSUME NEW q \in Touching(c, m.at + 1..last) PROVE q = last /\ Pending(c)'
    <3>1. q = last /\ Pending(c)
      BY <1>4 DEF Settled
    <3>2. m.at < last /\ effect[last][c] # "keeps"
      <4>1. q \in m.at + 1..last /\ effect[q][c] # "keeps" /\ m.at \in Nat /\ last \in Nat
        BY RecordShape DEF Touching, TypeInv, StateOK
      <4> QED
        BY <3>1, <4>1
    <3> QED
      BY <1>4, <3>1, <3>2
  <2>2. \A q \in Touching(c, m.at + 1..last) : q = last /\ Pending(c)'
    BY <2>1
  <2>3. \A q \in Touching(c, m.at + 1..last)' : q = last' /\ Pending(c)'
    BY <1>2, <2>2
  <2> QED
    BY <1>1, <2>3 DEF Settled
<1> QED
  BY <1>3, <1>4

\* An anchor at the revision of the document is settled.
LEMMA SettledAtLast ==
    ASSUME TypeInv, NEW c \in Comments, NEW m \in Record, m.at = last
    PROVE  Settled(c, m)
<1>1. last + 1..last = {}
  BY DEF TypeInv, StateOK
<1> QED
  BY <1>1 DEF Settled, Touching

\* At rest no hook is to come.
LEMMA NonePending ==
    ASSUME Assumptions, TypeInv, NEW c \in Comments,
           \/ session.step = "ready"
           \/ session.step = "replaying" /\ session.rev = last
    PROVE  ~Pending(c)
BY DEF Pending, TypeInv, StateOK, SessionInv, Sessions, Assumptions, BoundsAssumption

\* What holds of a comment when nothing went wrong for it.
LEMMA AnchoredNow ==
    ASSUME TypeInv, AnchorsInv, NEW c \in Comments, NEW m \in Record, m = comments[c], c \notin missed
    PROVE  comments[c] # None => Right(c, m) /\ Settled(c, m) /\ drawn[c] # None
BY DEF AnchorsInv, Anchored, TypeInv, DrawnInv

\* An operation is applied: it is the only one that any anchor has not been taken over.
LEMMA AnchorsAfterApply ==
    ASSUME Assumptions, TypeInv, AnchorsInv, Grows, DrawnStays, Apply
    PROVE  AnchorsInv'
<1> SUFFICES ASSUME NEW c \in Comments, NEW m \in Record, Anchored(c)', m = comments'[c]
             PROVE  Right(c, m)' /\ Settled(c, m)'
  BY DEF AnchorsInv, Record, Revisions
<1>1. /\ UNCHANGED <<comments, missed>> /\ session.step = "ready" /\ session.rev = last
      /\ last' = last + 1 /\ last \in Nat /\ MaxOps \in Nat /\ StateOK
      /\ session' = [session EXCEPT !.rev = @ + 1, !.step = "applied"] /\ session \in Sessions
  BY DEF Apply, Ready, TypeInv, StateOK, SessionInv, Assumptions, BoundsAssumption
<1>2. Right(c, m) /\ Settled(c, m) /\ drawn[c] # None
  BY <1>1, AnchoredNow DEF Anchored
<1>3. Right(c, m)'
  BY <1>1, <1>2, RightKept DEF DrawnStays
<1>4. ~m.orphaned => Touching(c, m.at + 1..last) = {}
  BY <1>1, <1>2, NonePending DEF Settled
<1>5. Pending(c)'
  BY <1>1 DEF Pending, Sessions
<1>6. ~m.orphaned => \A q \in Touching(c, m.at + 1..last)' : q = last'
  <2> SUFFICES ASSUME ~m.orphaned, NEW q \in Touching(c, m.at + 1..last)' PROVE q = last'
    OBVIOUS
  <2>1. q \in m.at + 1..last' /\ effect'[q][c] # "keeps" /\ m.at \in Nat
    BY RecordShape DEF Touching
  <2>2. ASSUME q \in 1..last PROVE FALSE
    <3>1. effect'[q] = effect[q]
      BY <2>2 DEF Grows
    <3>2. q \in m.at + 1..last
      BY <1>1, <2>1, <2>2
    <3> QED
      BY <1>4, <2>1, <3>1, <3>2 DEF Touching
  <2> QED
    BY <1>1, <2>1, <2>2
<1> QED
  BY <1>3, <1>5, <1>6 DEF Settled

\* The hook is over for the comments it does not affect, and to come for the others.
LEMMA AnchorsAfterHookLoads ==
    ASSUME Assumptions, TypeInv, AnchorsInv, Grows, DrawnStays, HookLoads
    PROVE  AnchorsInv'
<1> SUFFICES ASSUME NEW c \in Comments, NEW m \in Record, Anchored(c)', m = comments'[c]
             PROVE  Right(c, m)' /\ Settled(c, m)'
  BY DEF AnchorsInv, Record, Revisions
<1>1. /\ UNCHANGED <<comments, missed, last, effect, snap, drawn>> /\ session.step = "hook"
      /\ session \in Sessions /\ StateOK
  BY DEF HookLoads, TypeInv, StateOK, docVars
<1>2. Right(c, m) /\ Settled(c, m) /\ drawn[c] # None
  BY <1>1, AnchoredNow DEF Anchored
<1>3. session'.rev = session.rev /\ session'.opening = session.opening
  BY <1>1 DEF HookLoads, Sessions
<1>4. ASSUME ~m.orphaned, m.at < last, effect[last][c] # "keeps", Pending(c)
      PROVE  Pending(c)'
  <2>1. CASE session.rev < last
    <3>1. session.opening
      BY <1>1, <2>1 DEF TypeInv, SessionInv, StateOK, Sessions
    <3> QED
      BY <1>1, <1>3, <2>1, <3>1 DEF Pending
  <2>2. CASE ~(session.rev < last)
    <3>0. session.rev = last
      BY <2>2 DEF TypeInv, SessionInv, StateOK, Sessions
    <3>1. comments[c] # None /\ m = comments[c]
      BY <1>1 DEF Anchored
    <3>2. c \in Affected(LoadOpen, session.rev)
      BY <1>1, <1>4, <3>0, <3>1, LoadOpenShape DEF Affected
    <3>3. session' = [session EXCEPT !.step = "moving", !.loaded = LoadOpen]
      BY <3>2 DEF HookLoads
    <3>4. session'.step = "moving" /\ session'.loaded = LoadOpen
      BY <1>1, <3>3 DEF Sessions
    <3>5. Affected(session.loaded, session.rev)' = Affected(LoadOpen, session.rev)
      BY <1>1, <1>3, <3>4 DEF Affected
    <3> QED
      BY <1>1, <1>3, <3>0, <3>2, <3>4, <3>5 DEF Pending
  <2> QED
    BY <2>1, <2>2
<1> QED
  BY <1>1, <1>2, <1>4, AnchorStays

\* The hook has written: what it has moved is at the last revision.
LEMMA AnchorsAfterHook ==
    ASSUME Assumptions, TypeInv, AnchorsInv, MovingInv, Grows, DrawnStays, HookUpdates
    PROVE  AnchorsInv'
<1> SUFFICES ASSUME NEW c \in Comments, NEW n \in Record, Anchored(c)', n = comments'[c]
             PROVE  Right(c, n)' /\ Settled(c, n)'
  BY DEF AnchorsInv, Record, Revisions
<1>1. PICK l \in Loads, u \in Loads :
          /\ l = session.loaded /\ session.step = "moving"
          /\ session.rev \in 1..last /\ session.rev \in Revisions /\ session.rev \in 0..MaxOps
          /\ DOMAIN u = Affected(l, session.rev) /\ DOMAIN u \subseteq DOMAIN l
          /\ \A b \in DOMAIN u : u[b] = Rebase(b, l[b], session.rev)
          /\ UpdateAnchors(u, session.rev)
  BY Hooked
<1>2. /\ UNCHANGED <<missed, last, effect, snap, drawn>> /\ StateOK /\ MaxOps \in Nat /\ last \in Nat
      /\ session \in Sessions /\ session' = HookDone
  BY DEF HookUpdates, TypeInv, StateOK, docVars, Assumptions, BoundsAssumption
<1>3. session'.rev = session.rev /\ session'.opening = session.opening
  BY <1>2 DEF HookDone, Sessions
<1>4. /\ c \notin missed /\ comments'[c] # None
      /\ comments[c] = None => comments'[c] = None
      /\ c \notin DOMAIN u => comments'[c] = comments[c]
      /\ c \in DOMAIN u /\ comments[c] # None =>
             /\ comments'[c].at = session.rev /\ comments'[c].moved = u[c].moved
             /\ comments'[c].orphaned = (u[c].orphaned \/ comments[c].orphaned)
  BY <1>1, <1>2, Updated DEF Anchored
<1>5. comments[c] # None /\ comments[c] \in Record
  BY <1>2, <1>4 DEF StateOK
<1>6. PICK m \in Record : m = comments[c]
  BY <1>5
<1>7. Right(c, m) /\ Settled(c, m) /\ drawn[c] # None
  BY <1>4, <1>5, <1>6, AnchoredNow
<1>8. CASE c \notin DOMAIN u
  <2>1. n = m
    BY <1>4, <1>6, <1>8
  <2>2. ASSUME Pending(c) PROVE Pending(c)'
    <3>1. session.opening /\ session.rev < last
      BY <1>1, <1>8, <2>2 DEF Pending
    <3> QED
      BY <1>2, <1>3, <3>1 DEF Pending
  <2> QED
    BY <1>2, <1>7, <2>1, <2>2, AnchorStays
<1>9. CASE c \in DOMAIN u
  <2>1. c \in Affected(session.loaded, session.rev) \ missed
    BY <1>1, <1>4, <1>9
  <2>2. PICK k \in Record : k = l[c]
    BY <1>1, <1>9, LoadShape
  <2>3. session.rev = last /\ Right(c, k) /\ Touching(c, k.at + 1..last) = {last} /\ ~k.orphaned
    BY <1>1, <2>1, <2>2 DEF MovingInv, Affected
  <2>4. u[c] = Rebase(c, k, last)
    BY <1>1, <1>9, <2>2, <2>3
  <2>5. /\ n.at = last /\ n.moved = Rebase(c, k, last).moved
        /\ n.orphaned = (Rebase(c, k, last).orphaned \/ m.orphaned)
    BY <1>4, <1>5, <1>6, <1>9, <2>3, <2>4
  <2>6. Rebase(c, k, last) \in Record
    BY <1>1, <1>2, <2>3, RebaseShape
  <2>7. PICK x \in Record : x.at = last /\ x.moved = Rebase(c, k, last).moved
                             /\ x.orphaned = Rebase(c, k, last).orphaned
    <3> DEFINE y == Rebase(c, k, last)
    <3>1. y \in Record /\ last \in 0..MaxOps
      BY <1>2, <2>6 DEF StateOK
    <3> HIDE DEF y
    <3>2. [y EXCEPT !.at = last] \in Record
      BY <3>1 DEF Record
    <3>3. /\ [y EXCEPT !.at = last].at = last /\ [y EXCEPT !.at = last].moved = y.moved
          /\ [y EXCEPT !.at = last].orphaned = y.orphaned
      BY <3>1 DEF Record
    <3> QED
      BY <3>2, <3>3 DEF y
  <2>8. Right(c, x)
    BY <1>2, <1>7, <2>3, <2>7, RightAfterHook
  <2>9. m.orphaned => x.orphaned
    <3>1. m.orphaned => DeletedBy(c, m.at)
      BY <1>7, RightMeans
    <3>2. m.at \in Nat /\ m.at <= last
      BY <1>7, RecordShape DEF Right
    <3>3. drawn[c] \in Nat
      BY <1>2, <1>7 DEF StateOK
    <3>4. DeletedBy(c, m.at) => DeletedBy(c, last)
      BY <1>2, <3>2, <3>3 DEF DeletedBy
    <3> QED
      BY <2>7, <2>8, <3>1, <3>4, RightMeans
  <2>10. n.orphaned = x.orphaned
    BY <1>6, <2>5, <2>7, <2>9, RecordShape
  <2>11. Right(c, n)
    BY <2>5, <2>7, <2>8, <2>10, RightOf
  <2>12. Right(c, n)'
    BY <1>2, <1>7, <2>11, RightKept DEF DrawnStays
  <2>13. last' + 1..last' = {}
    BY <1>2
  <2>14. Settled(c, n)'
    <3>1. n.at + 1..last' = {}
      BY <1>2, <2>5, <2>13
    <3> QED
      BY <3>1 DEF Settled, Touching
  <2> QED
    BY <2>12, <2>14
<1> QED
  BY <1>8, <1>9

\* The other steps of the session write no anchor: a hook that is to come stays so, is replayed
\* when the session is opened again, or leaves the comment behind.
LEMMA AnchorsAfterOthers ==
    ASSUME Assumptions, TypeInv, AnchorsInv, Grows, DrawnStays,
           OpAdded \/ HookFails \/ Open \/ Rehydrate \/ Opened \/ Close \/ Crash
    PROVE  AnchorsInv'
<1> SUFFICES ASSUME NEW c \in Comments, NEW m \in Record, Anchored(c)', m = comments'[c]
             PROVE  Right(c, m)' /\ Settled(c, m)'
  BY DEF AnchorsInv, Record, Revisions
<1>1. /\ UNCHANGED <<comments, last, effect, drawn>> /\ missed \subseteq missed'
      /\ session \in Sessions /\ last \in Nat /\ snap \in 0..last /\ session.rev \in Nat
  BY DEF OpAdded, HookFails, Open, Rehydrate, Opened, Close, Crash, TypeInv, StateOK, docVars, Sessions,
         Assumptions, BoundsAssumption
<1>2. c \notin missed /\ comments[c] # None /\ m = comments[c]
  BY <1>1 DEF Anchored
<1>3. Right(c, m) /\ Settled(c, m) /\ drawn[c] # None
  BY <1>2, AnchoredNow
<1>4. /\ session.rev <= last
      /\ session.step # "closed" => snap <= session.rev
      /\ session.step # "closed" /\ ~session.opening => session.rev = last
      /\ session.step = "closed" => ~session.opening
      /\ session.step = "applied" => snap < session.rev
      /\ session.step = "replaying" => session.opening
      /\ session.step \in {"ready", "applied"} => ~session.opening
  BY DEF TypeInv, SessionInv
<1>5. ASSUME effect[last][c] # "keeps", Pending(c) PROVE Pending(c)'
  <2>1. CASE OpAdded
    <3>1. session.step = "applied" /\ session.rev = last
      BY <1>4, <2>1 DEF OpAdded
    <3>2. session'.step = "hook" /\ session'.rev = session.rev
      BY <1>1, <2>1 DEF OpAdded, Sessions
    <3> QED
      BY <1>1, <3>1, <3>2 DEF Pending
  <2>2. CASE HookFails
    <3>1. session.rev # last
      BY <1>2, <1>5, <2>2 DEF HookFails, Anchored
    <3>2. session.opening /\ session.rev < last
      BY <1>1, <1>4, <2>2, <3>1 DEF HookFails
    <3>3. session'.rev = session.rev /\ session'.opening = session.opening
      BY <1>1, <2>2 DEF HookFails, HookDone, Sessions
    <3> QED
      BY <1>1, <3>2, <3>3 DEF Pending
  <2>3. CASE Open
    <3>1. session.step = "closed" /\ snap < last
      BY <1>4, <1>5, <2>3 DEF Open, Pending
    <3>2. session' = [step |-> "replaying", rev |-> snap, opening |-> TRUE, loaded |-> None]
      BY <2>3 DEF Open, Closed
    <3> QED
      BY <1>1, <3>1, <3>2 DEF Pending
  <2>4. CASE Rehydrate
    <3>1. session.rev < last /\ session.opening
      BY <1>4, <2>4 DEF Rehydrate
    <3>2. session' = [session EXCEPT !.rev = session.rev + 1, !.step = "hook"]
      BY <2>4 DEF Rehydrate
    <3>3. session'.step = "hook" /\ session'.rev = session.rev + 1 /\ session'.opening = session.opening
      <4>1. session.rev + 1 \in Nat /\ session \in Sessions
        BY <1>1
      <4> QED
        BY <3>2, <4>1, SessionAt, ZenonT(60)
    <3>4. session.rev + 1 = last \/ session.rev + 1 < last
      BY <1>1, <3>1
    <3> QED
      BY <1>1, <3>1, <3>3, <3>4 DEF Pending
  <2>5. CASE Opened
    BY <1>5, <2>5, NonePending DEF Opened
  <2>6. CASE Close
    BY <1>5, <2>6, NonePending DEF Close, Ready
  <2>7. CASE Crash
    <3>1. session'.step = "closed" /\ UNCHANGED snap
      BY <2>7 DEF Crash, Closed, docVars
    <3>2. CASE snap < last
      BY <1>1, <3>1, <3>2 DEF Pending
    <3>3. CASE snap = last
      <4>1. session.step # "closed" /\ session.rev = last
        BY <1>1, <1>4, <1>5, <3>3 DEF Pending
      <4>2. session.step \in {"hook", "moving"}
        BY <1>1, <1>4, <1>5, <3>3, <4>1 DEF Pending
      <4>3. c \in missed'
        BY <1>1, <1>2, <1>5, <2>7, <3>3, <4>1, <4>2 DEF Crash
      <4> QED
        BY <4>3 DEF Anchored
    <3> QED
      BY <1>1, <3>2, <3>3
  <2> QED
    BY <2>1, <2>2, <2>3, <2>4, <2>5, <2>6, <2>7
<1> QED
  BY <1>1, <1>3, <1>5, AnchorStays

\* The copies of the callers stay right, whatever becomes of the anchors.
LEMMA CopiesStay ==
    ASSUME Assumptions, TypeInv, CopiesInv, Grows, DrawnStays, missed \subseteq missed',
           \A p \in Callers : call'[p] = call[p] \/ call'[p].step \notin {"edit", "resolve"}
    PROVE  CopiesInv'
<1> SUFFICES ASSUME NEW p \in Callers, NEW c \in Comments, c \notin missed', NEW m \in Record,
                    call'[p].step \in {"edit", "resolve"}, call'[p].id = c, call'[p].copy = m
             PROVE  Right(c, m)'
  BY DEF CopiesInv, Record, Revisions
<1>1. call'[p] = call[p] /\ c \notin missed
  OBVIOUS
<1>2. Right(c, m)
  BY <1>1 DEF CopiesInv
<1>3. drawn[c] # None
  BY <1>1 DEF TypeInv, DrawnInv
<1> QED
  BY <1>2, <1>3, RightKept DEF DrawnStays, TypeInv, Assumptions, BoundsAssumption

\* So does what the hook has loaded.
LEMMA MovingStays ==
    ASSUME Assumptions, TypeInv, MovingInv, Grows, DrawnStays, missed \subseteq missed',
           UNCHANGED <<last, effect>>, UNCHANGED session \/ session'.step # "moving"
    PROVE  MovingInv'
<1> SUFFICES ASSUME UNCHANGED session, session.step = "moving",
                    NEW c \in Affected(session.loaded, session.rev)', c \notin missed', NEW m \in Record,
                    m = session'.loaded[c]
             PROVE  /\ session'.rev = last'
                    /\ Right(c, m)'
                    /\ Touching(c, m.at + 1..last)' = {last'}
  BY DEF MovingInv, Record, Revisions
<1>1. c \in Affected(session.loaded, session.rev) /\ c \notin missed /\ m = session.loaded[c]
  BY DEF Affected
<1>2. session.rev = last /\ Right(c, m) /\ Touching(c, m.at + 1..last) = {last}
  BY <1>1 DEF MovingInv
<1>3. c \in Comments /\ drawn[c] # None
  <2>1. c \in DOMAIN session.loaded /\ session.loaded \in Loads
    BY <1>1 DEF Affected, TypeInv, SessionInv
  <2> QED
    BY <2>1, LoadShape DEF TypeInv, DrawnInv
<1>4. Right(c, m)'
  BY <1>2, <1>3, RightKept DEF DrawnStays, TypeInv, Assumptions, BoundsAssumption
<1> QED
  BY <1>2, <1>4 DEF Touching

\* A step that leaves the session and the anchor of a comment alone.
LEMMA AnchorAlone ==
    ASSUME Assumptions, TypeInv, AnchorsInv, Grows, DrawnStays,
           UNCHANGED <<last, effect, snap, session>>, missed \subseteq missed',
           NEW c \in Comments, NEW m \in Record, Anchored(c)', m = comments'[c], comments'[c] = comments[c]
    PROVE  Right(c, m)' /\ Settled(c, m)'
<1>1. comments[c] # None /\ m = comments[c] /\ c \notin missed
  BY DEF Anchored
<1>2. Right(c, m) /\ Settled(c, m) /\ drawn[c] # None
  BY <1>1, AnchoredNow
<1>3. Pending(c) => Pending(c)'
  BY DEF Pending, Affected
<1> QED
  BY <1>2, <1>3, AnchorStays DEF DrawnStays

\* A comment is stored: its anchor is that of the revision it was drawn at, and the hooks of
\* all the operations after it are still to come, or it counts as left behind.
LEMMA AnchorsAfterAdd ==
    ASSUME Assumptions, TypeInv, AnchorsInv, Grows, DrawnStays, NEW p \in Callers, Add(p)
    PROVE  AnchorsInv'
<1> SUFFICES ASSUME NEW c \in Comments, NEW m \in Record, Anchored(c)', m = comments'[c]
             PROVE  Right(c, m)' /\ Settled(c, m)'
  BY DEF AnchorsInv, Record, Revisions
<1>1. /\ UNCHANGED <<last, effect, snap, session, drawn>> /\ missed \subseteq missed'
      /\ StateOK /\ last \in Nat /\ MaxOps \in Nat /\ comments \in [Comments -> Record \cup {None}]
      /\ session.rev \in Nat /\ session.rev <= last
  BY DEF Add, docVars, TypeInv, StateOK, SessionInv, Sessions, Assumptions, BoundsAssumption
<1>2. comments' = [comments EXCEPT ![call[p].id] =
          [at |-> call[p].rev, moved |-> Unmoved, orphaned |-> FALSE, resolved |-> FALSE]]
  BY DEF Add
<1>3. CASE c # call[p].id
  BY <1>1, <1>2, <1>3, AnchorAlone
<1>4. CASE c = call[p].id
  <2>1. m.at = call[p].rev /\ m.moved = Unmoved /\ m.orphaned = FALSE
    BY <1>1, <1>2, <1>4
  <2>2. drawn[c] = m.at /\ HooksToCome(m.at)
    <3>1. c \notin missed'
      BY DEF Anchored
    <3> QED
      BY <1>4, <2>1, <3>1 DEF Add
  <2>3. m.at \in Nat /\ m.at <= last /\ drawn[c] # None
    <3>1. m.at \in Nat /\ drawn[c] \in (0..last) \cup {None}
      BY <1>1, RecordShape DEF StateOK
    <3> QED
      BY <1>1, <2>2, <3>1 DEF Assumptions, NoneAssumption
  <2>4. Right(c, m)
    <3>1. drawn[c] + 1..m.at = {} /\ m.at + 1..drawn[c] = {}
      BY <2>2, <2>3
    <3>2. \A q \in Revisions : m.moved[q] = 0 /\ ~MovedBy(c, m.at, q)
      BY <2>1, <3>1 DEF MovedBy, Unmoved
    <3>3. m.orphaned <=> DeletedBy(c, m.at)
      BY <2>1, <3>1 DEF DeletedBy
    <3>4. Touching(c, m.at + 1..drawn[c]) = {}
      BY <3>1 DEF Touching
    <3> QED
      BY <2>3, <3>2, <3>3, <3>4, RightMeans
  <2>5. Settled(c, m)
    <3>1. ASSUME NEW q \in Touching(c, m.at + 1..last) PROVE q = last /\ Pending(c)
      <4>1. q \in m.at + 1..last
        BY DEF Touching
      <4>2. last \in m.at + 1..last
        BY <1>1, <2>3, <4>1
      <4>3. /\ session.step \in {"applied", "hook"} /\ q = session.rev /\ last = session.rev
        BY <2>2, <4>1, <4>2 DEF HooksToCome
      <4> QED
        BY <4>3 DEF Pending
    <3> QED
      BY <3>1 DEF Settled
  <2>6. Pending(c) => Pending(c)'
    BY <1>1 DEF Pending, Affected
  <2> QED
    BY <1>1, <2>3, <2>4, <2>5, <2>6, AnchorStays
<1> QED
  BY <1>3, <1>4

\* A whole record is written back: at the revision where the stored one is, it has the same
\* anchor.
LEMMA AnchorsAfterUpdate ==
    ASSUME Assumptions, TypeInv, AnchorsInv, CopiesInv, Grows, DrawnStays, NEW p \in Callers, Update(p)
    PROVE  AnchorsInv'
<1> SUFFICES ASSUME NEW c \in Comments, NEW n \in Record, Anchored(c)', n = comments'[c]
             PROVE  Right(c, n)' /\ Settled(c, n)'
  BY DEF AnchorsInv, Record, Revisions
<1> DEFINE o == call[p].copy.resolved \/ call[p].step = "resolve"
           new == [call[p].copy EXCEPT !.resolved = o]
<1>1. /\ UNCHANGED <<last, effect, snap, session, drawn>> /\ missed \subseteq missed'
      /\ StateOK /\ comments \in [Comments -> Record \cup {None}] /\ call[p] \in Editing
  BY DEF Update, docVars, TypeInv, StateOK, Adding, Idle
<1>2. comments' = IF comments[call[p].id] = None THEN comments ELSE [comments EXCEPT ![call[p].id] = new]
  BY <1>1 DEF Update, Editing, Record
<1>3. new.at = call[p].copy.at /\ new.moved = call[p].copy.moved /\ new.orphaned = call[p].copy.orphaned
  <2>1. call[p].copy \in Record
    BY <1>1 DEF Editing
  <2> HIDE DEF o
  <2> QED
    BY <2>1 DEF Record
<1>4. missed' = IF comments[call[p].id] # None /\ comments[call[p].id].at # new.at
                THEN missed \cup {call[p].id} ELSE missed
  BY <1>1 DEF Update, Editing, Record
<1> HIDE DEF new
<1>5. CASE comments'[c] = comments[c]
  BY <1>1, <1>5, AnchorAlone
<1>6. CASE comments'[c] # comments[c]
  <2>1. c = call[p].id /\ comments[c] # None /\ n = new
    BY <1>1, <1>2, <1>6
  <2>2. PICK m \in Record : m = comments[c]
    BY <1>1, <2>1
  <2>3. c \notin missed /\ m.at = n.at
    <3>1. c \notin missed'
      BY DEF Anchored
    <3> QED
      BY <1>1, <1>4, <2>1, <2>2, <3>1
  <2>4. Right(c, m) /\ Settled(c, m) /\ drawn[c] # None
    BY <2>1, <2>2, <2>3, AnchoredNow
  <2>5. PICK k \in Record : k = call[p].copy
    BY <1>1 DEF Editing
  <2>6. Right(c, k)
    BY <1>1, <2>1, <2>3, <2>5 DEF CopiesInv, Editing
  <2>7. Right(c, n)
    BY <1>3, <2>1, <2>5, <2>6, RightOf
  <2>8. n.orphaned = m.orphaned
    BY <2>3, <2>4, <2>7 DEF Right
  <2>9. Settled(c, n)
    BY <2>3, <2>4, <2>8 DEF Settled
  <2>10. Pending(c) => Pending(c)'
    BY <1>1 DEF Pending, Affected
  <2> QED
    BY <1>1, <2>4, <2>7, <2>9, <2>10, AnchorStays
<1> QED
  BY <1>5, <1>6

\* A compaction rebases anchors: those it leaves behind are told, and the others are those of
\* the revision it gives them.
LEMMA AnchorsAfterCompaction ==
    ASSUME Assumptions, TypeInv, AnchorsInv, Grows, DrawnStays, CompactRebases
    PROVE  AnchorsInv'
<1> SUFFICES ASSUME NEW c \in Comments, NEW n \in Record, Anchored(c)', n = comments'[c]
             PROVE  Right(c, n)' /\ Settled(c, n)'
  BY DEF AnchorsInv, Record, Revisions
<1>1. PICK l \in Loads, u \in Loads, revs \in SUBSET Nat, final \in 0..MaxOps :
          CompactedBy(l, u, revs, final)
  BY Compacted
<1>2. /\ UNCHANGED <<last, effect, snap, session, drawn>> /\ missed \subseteq missed'
      /\ StateOK /\ MaxOps \in Nat /\ last \in Nat /\ comments \in [Comments -> Record \cup {None}]
  BY DEF CompactRebases, docVars, TypeInv, StateOK, Assumptions, BoundsAssumption
<1>3. /\ l \in Roots /\ DOMAIN u = DOMAIN l
      /\ \A r \in revs : r \in 1..final
      /\ UpdateAnchors(u, final)
  BY <1>1 DEF CompactedBy
<1>4. /\ comments[c] = None => comments'[c] = None
      /\ c \notin DOMAIN u => comments'[c] = comments[c]
      /\ c \in DOMAIN u /\ comments[c] # None =>
             /\ comments'[c].at = final /\ comments'[c].moved = u[c].moved
             /\ comments'[c].orphaned = (u[c].orphaned \/ comments[c].orphaned)
  BY <1>2, <1>3, Updated
<1>5. comments[c] # None /\ comments[c] \in Record /\ c \notin missed' /\ c \notin missed
  BY <1>2, <1>4 DEF Anchored
<1>6. PICK m \in Record : m = comments[c]
  BY <1>5
<1>7. Right(c, m) /\ Settled(c, m) /\ drawn[c] # None
  BY <1>5, <1>6, AnchoredNow
<1>8. CASE c \notin DOMAIN l
  BY <1>2, <1>3, <1>4, <1>8, AnchorAlone
<1>9. CASE c \in DOMAIN l
  <2>1. /\ ~(final > last) /\ m = l[c] /\ Touching(c, final + 1..m.at) = {}
        /\ \/ Touching(c, m.at + 1..final) = {}
           \/ EngineType \in engines /\ m.at + 1..final \subseteq revs
        /\ u[c] = Rebased(c, l[c], revs)
    BY <1>1, <1>5, <1>6, <1>9 DEF CompactedBy
  <2>2. final <= last /\ m.at \in Nat /\ final \in Nat
    BY <1>2, <2>1, RecordShape
  <2>3. ~m.orphaned
    BY <1>3, <1>9, <2>1 DEF Roots
  <2>4. n.at = final /\ n.moved = Rebased(c, m, revs).moved /\ n.orphaned = Rebased(c, m, revs).orphaned
    <3>1. Rebased(c, m, revs).orphaned \in BOOLEAN
      BY RebasedShape, RecordShape
    <3> QED
      BY <1>3, <1>4, <1>5, <1>6, <1>9, <2>1, <2>3, <3>1
  <2>5. Right(c, n)
    BY <1>2, <1>3, <1>7, <2>1, <2>2, <2>3, <2>4, RightAfterCompaction
  <2>6. Settled(c, n)
    <3>1. ASSUME NEW q \in Touching(c, n.at + 1..last) PROVE q = last /\ Pending(c)
      <4>1. q \in final + 1..last /\ effect[q][c] # "keeps"
        BY <2>4 DEF Touching
      <4>2. q \notin final + 1..m.at
        BY <2>1, <4>1 DEF Touching
      <4>3. q \in m.at + 1..last
        BY <1>2, <2>2, <4>1, <4>2
      <4>4. q \in Touching(c, m.at + 1..last)
        BY <4>1, <4>3 DEF Touching
      <4> QED
        BY <1>7, <2>3, <4>4 DEF Settled
    <3> QED
      BY <3>1 DEF Settled
  <2>7. Pending(c) => Pending(c)'
    BY <1>2 DEF Pending, Affected
  <2> QED
    BY <1>2, <1>7, <2>5, <2>6, <2>7, AnchorStays
<1> QED
  BY <1>8, <1>9

LEMMA AnchorsStep ==
    ASSUME Assumptions, TypeInv, AnchorsInv, CopiesInv, MovingInv, Grows, DrawnStays, [Next]_vars
    PROVE  AnchorsInv'
<1>a. ASSUME UNCHANGED <<last, effect, snap, session, comments>>, missed \subseteq missed'
      PROVE  AnchorsInv'
  <2> SUFFICES ASSUME NEW c \in Comments, NEW m \in Record, Anchored(c)', m = comments'[c]
               PROVE  Right(c, m)' /\ Settled(c, m)'
    BY DEF AnchorsInv, Record, Revisions
  <2> QED
    BY <1>a, AnchorAlone
<1>1. CASE SessionStep
  BY <1>1, AnchorsAfterApply, AnchorsAfterHookLoads, AnchorsAfterHook, AnchorsAfterOthers DEF SessionStep
<1>2. ASSUME NEW p \in Callers, NEW c \in Comments,
             SnapshotRevision(p, c) \/ Get(p, c, "edit") \/ Get(p, c, "resolve")
      PROVE  AnchorsInv'
  BY <1>2, <1>a DEF SnapshotRevision, Get, docVars
<1>3. ASSUME NEW p \in Callers, Add(p) \/ Update(p) PROVE AnchorsInv'
  BY <1>3, AnchorsAfterAdd, AnchorsAfterUpdate
<1>4. ASSUME NEW b \in Comments, Delete(b) PROVE AnchorsInv'
  <2> SUFFICES ASSUME NEW c \in Comments, NEW m \in Record, Anchored(c)', m = comments'[c]
               PROVE  Right(c, m)' /\ Settled(c, m)'
    BY DEF AnchorsInv, Record, Revisions
  <2>1. /\ UNCHANGED <<last, effect, snap, session, missed>> /\ comments' = [comments EXCEPT ![b] = None]
        /\ comments \in [Comments -> Record \cup {None}]
    BY <1>4 DEF Delete, docVars, TypeInv, StateOK
  <2>2. comments'[c] = comments[c]
    BY <2>1 DEF Anchored
  <2> QED
    BY <2>1, <2>2, AnchorAlone
<1>5. CASE CompactionStep
  <2>1. ASSUME NEW upTo \in Revisions, Compact(upTo) PROVE AnchorsInv'
    BY <1>a, <2>1 DEF Compact, docVars
  <2>2. CASE CompactLoads \/ CompactTrims
    BY <1>a, <2>2 DEF CompactLoads, CompactTrims, docVars
  <2> QED
    BY <1>5, <2>1, <2>2, AnchorsAfterCompaction DEF CompactionStep
<1>6. CASE UNCHANGED vars
  BY <1>6, <1>a DEF vars, docVars
<1> QED
  BY <1>1, <1>2, <1>3, <1>4, <1>5, <1>6 DEF Next, CommentStep

LEMMA CopiesStep ==
    ASSUME Assumptions, TypeInv, AnchorsInv, CopiesInv, Grows, DrawnStays, [Next]_vars
    PROVE  CopiesInv'
<1>0. call \in [Callers -> Adding \cup Editing \cup {Idle}] /\ Idle.step = "idle"
  BY DEF TypeInv, StateOK, Idle
<1>1. CASE SessionStep
  <2>1. missed \subseteq missed' /\ \A p \in Callers : call'[p] = call[p] \/ call'[p] = Idle
    BY <1>1 DEF SessionStep, Apply, OpAdded, HookLoads, HookUpdates, HookFails, Open, Rehydrate,
                Opened, Close, Crash
  <2> QED
    BY <1>0, <2>1, CopiesStay
<1>2. ASSUME NEW p \in Callers, NEW c \in Comments, SnapshotRevision(p, c) PROVE CopiesInv'
  <2>1. missed' = missed /\ \A q \in Callers : call'[q] = call[q] \/ call'[q].step = "add"
    BY <1>0, <1>2 DEF SnapshotRevision
  <2> QED
    BY <1>0, <2>1, CopiesStay
<1>3. ASSUME NEW p \in Callers, NEW b \in Comments, NEW kind \in {"edit", "resolve"}, Get(p, b, kind)
      PROVE  CopiesInv'
  <2> SUFFICES ASSUME NEW q \in Callers, NEW c \in Comments, c \notin missed', NEW m \in Record,
                      call'[q].step \in {"edit", "resolve"}, call'[q].id = c, call'[q].copy = m
               PROVE  Right(c, m)'
    BY DEF CopiesInv, Record, Revisions
  <2>1. /\ UNCHANGED <<last, effect, drawn, missed>> /\ comments[b] # None
        /\ call' = [call EXCEPT ![p] = [step |-> kind, id |-> b, copy |-> comments[b]]]
    BY <1>3 DEF Get, docVars
  <2>2. CASE q = p
    <3>1. c = b /\ m = comments[c]
      BY <1>0, <2>1, <2>2
    <3>2. Right(c, m) /\ drawn[c] # None
      BY <2>1, <3>1, AnchoredNow
    <3> QED
      BY <2>1, <3>2, RightKept DEF TypeInv, Assumptions, BoundsAssumption
  <2>3. CASE q # p
    <3>1. call[q] = call'[q]
      BY <1>0, <2>1, <2>3
    <3>2. Right(c, m) /\ drawn[c] # None
      BY <2>1, <3>1 DEF CopiesInv, TypeInv, DrawnInv
    <3> QED
      BY <2>1, <3>2, RightKept DEF TypeInv, Assumptions, BoundsAssumption
  <2> QED
    BY <2>2, <2>3
<1>4. ASSUME NEW p \in Callers, Add(p) \/ Update(p) PROVE CopiesInv'
  <2>1. missed \subseteq missed' /\ \A q \in Callers : call'[q] = call[q] \/ call'[q] = Idle
    BY <1>0, <1>4 DEF Add, Update
  <2> QED
    BY <1>0, <2>1, CopiesStay
<1>5. ASSUME UNCHANGED call, missed \subseteq missed' PROVE CopiesInv'
  BY <1>5, CopiesStay
<1>6. ASSUME NEW c \in Comments, Delete(c) PROVE CopiesInv'
  BY <1>5, <1>6 DEF Delete
<1>7. CASE CompactionStep
  BY <1>5, <1>7 DEF CompactionStep, Compact, CompactLoads, CompactRebases, CompactTrims
<1>8. CASE UNCHANGED vars
  BY <1>5, <1>8 DEF vars
<1> QED
  BY <1>1, <1>2, <1>3, <1>4, <1>6, <1>7, <1>8 DEF Next, CommentStep

LEMMA MovingStep ==
    ASSUME Assumptions, TypeInv, AnchorsInv, MovingInv, Grows, DrawnStays, [Next]_vars
    PROVE  MovingInv'
<1>0. session \in Sessions
  BY DEF TypeInv, StateOK
<1>1. ASSUME UNCHANGED <<last, effect, session>>, missed \subseteq missed' PROVE MovingInv'
  BY <1>1, MovingStays
<1>2. ASSUME session'.step # "moving" PROVE MovingInv'
  BY <1>2 DEF MovingInv
<1>3. CASE SessionStep
  <2>1. CASE HookLoads
    <3>1. CASE Affected(LoadOpen, session.rev) = {}
      <4>1. session' = [session EXCEPT !.step = IF session.opening THEN "replaying" ELSE "ready"]
        BY <2>1, <3>1 DEF HookLoads
      <4>2. session'.step # "moving"
        BY <1>0, <4>1 DEF Sessions
      <4> QED
        BY <1>2, <4>2
    <3>2. CASE Affected(LoadOpen, session.rev) # {}
      <4>1. /\ session'.step = "moving" /\ session'.loaded = LoadOpen /\ session'.rev = session.rev
            /\ UNCHANGED <<last, effect, drawn, missed>> /\ session.rev \in Nat /\ session.rev <= last
            /\ last \in Nat
        BY <1>0, <2>1, <3>2 DEF HookLoads, docVars, Sessions, TypeInv, StateOK, SessionInv,
                                Assumptions, BoundsAssumption
      <4> SUFFICES ASSUME NEW c \in Affected(session.loaded, session.rev)', c \notin missed',
                          NEW m \in Record, m = session'.loaded[c]
                   PROVE  /\ session'.rev = last'
                          /\ Right(c, m)'
                          /\ Touching(c, m.at + 1..last)' = {last'}
        BY DEF MovingInv, Record, Revisions
      <4>2. c \in DOMAIN LoadOpen /\ m = LoadOpen[c] /\ ~m.orphaned /\ m.at < session.rev
            /\ effect[session.rev][c] # "keeps"
        BY <4>1 DEF Affected
      <4>3. c \in Comments /\ comments[c] # None /\ m = comments[c]
        BY <4>2, LoadOpenShape DEF TypeInv
      <4>4. Right(c, m) /\ Settled(c, m) /\ drawn[c] # None
        BY <4>1, <4>3, AnchoredNow
      <4>5. session.rev \in Touching(c, m.at + 1..last) /\ m.at \in Nat
        BY <4>1, <4>2, RecordShape DEF Touching
      <4>6. session.rev = last /\ Touching(c, m.at + 1..last) = {last}
        BY <4>2, <4>4, <4>5 DEF Settled
      <4>7. Right(c, m)'
        BY <4>1, <4>3, <4>4, RightKept DEF TypeInv, Assumptions, BoundsAssumption
      <4> QED
        BY <4>1, <4>6, <4>7 DEF Touching
    <3> QED
      BY <3>1, <3>2
  <2>2. CASE Apply \/ OpAdded \/ Rehydrate \/ Opened
    <3>1. session'.step # "moving"
      BY <1>0, <2>2 DEF Apply, OpAdded, Rehydrate, Opened, Sessions
    <3> QED
      BY <1>2, <3>1
  <2>3. CASE HookUpdates \/ HookFails
    <3>1. session' = HookDone
      BY <2>3 DEF HookUpdates, HookFails
    <3>2. session'.step # "moving"
      BY <1>0, <3>1 DEF HookDone, Sessions
    <3> QED
      BY <1>2, <3>2
  <2>4. CASE Open
    <3>1. session' = [Closed EXCEPT !.step = "replaying", !.rev = snap, !.opening = TRUE]
      BY <2>4 DEF Open
    <3>2. session' = [step |-> "replaying", rev |-> snap, opening |-> TRUE, loaded |-> None]
      BY <3>1 DEF Closed
    <3> QED
      BY <1>2, <3>2
  <2>5. CASE Close \/ Crash
    <3>1. session' = Closed
      BY <2>5 DEF Close, Crash
    <3> QED
      BY <1>2, <3>1 DEF Closed
  <2> QED
    BY <1>3, <2>1, <2>2, <2>3, <2>4, <2>5 DEF SessionStep
<1>4. CASE CommentStep \/ CompactionStep
  BY <1>1, <1>4 DEF CommentStep, CompactionStep, SnapshotRevision, Get, Add, Update, Delete, Compact,
                    CompactLoads, CompactRebases, CompactTrims, docVars
<1>5. CASE UNCHANGED vars
  BY <1>1, <1>5 DEF vars, docVars
<1> QED
  BY <1>3, <1>4, <1>5 DEF Next

LEMMA InvInit == Assumptions /\ Init => IInv
<1> SUFFICES ASSUME Assumptions, Init PROVE IInv
  OBVIOUS
<1>1. TypeInv
  BY TypeInit
<1>2. AnchorsInv
  BY DEF Init, AnchorsInv, Anchored
<1>3. CopiesInv
  BY DEF Init, CopiesInv, Idle
<1>4. MovingInv
  BY DEF Init, MovingInv, Closed
<1> QED
  BY <1>1, <1>2, <1>3, <1>4 DEF IInv

LEMMA InvStep == Assumptions /\ IInv /\ [Next]_vars => IInv'
<1> SUFFICES ASSUME Assumptions, IInv, [Next]_vars PROVE IInv'
  OBVIOUS
<1>1. TypeInv' /\ Grows /\ DrawnStays
  BY TypeStep DEF IInv
<1> QED
  BY <1>1, AnchorsStep, CopiesStep, MovingStep DEF IInv

\* At rest the anchor is also that of the session's revision: nothing after its own touches it.
LEMMA AtRest ==
    ASSUME Assumptions, TypeInv, session.step = "ready", NEW c \in Comments, NEW m \in Record,
           Right(c, m), Settled(c, m), drawn[c] # None
    PROVE  m.moved = Followed(c, last).moved /\ m.orphaned = Followed(c, last).orphaned
<1>1. /\ m.at \in Nat /\ m.at <= last /\ last \in Nat /\ drawn[c] \in Nat /\ drawn[c] <= last
      /\ last \in 0..MaxOps /\ StateOK
  BY RecordShape DEF TypeInv, StateOK, Right, Assumptions, BoundsAssumption
<1>2. m.orphaned \/ Touching(c, m.at + 1..last) = {}
  BY NonePending DEF Settled
<1>3. PICK n \in Record : n.at = last /\ n.moved = m.moved /\ n.orphaned = m.orphaned
  <2>1. [m EXCEPT !.at = last] \in Record
    BY <1>1 DEF Record
  <2>2. /\ [m EXCEPT !.at = last].at = last /\ [m EXCEPT !.at = last].moved = m.moved
        /\ [m EXCEPT !.at = last].orphaned = m.orphaned
    BY DEF Record
  <2> QED
    BY <2>1, <2>2
<1>4. /\ \A q \in Revisions : m.moved[q] = IF MovedBy(c, m.at, q) THEN 1 ELSE 0
      /\ m.orphaned <=> DeletedBy(c, m.at)
      /\ Touching(c, m.at + 1..drawn[c]) = {}
  BY RightMeans
<1>5. \A q \in m.at + 1..drawn[c] : effect[q][c] = "keeps"
  BY <1>4 DEF Touching
<1>6. n.orphaned <=> DeletedBy(c, last)
  <2>1. DeletedBy(c, m.at) => DeletedBy(c, last)
    BY <1>1 DEF DeletedBy
  <2>2. ASSUME DeletedBy(c, last), ~m.orphaned PROVE FALSE
    <3>1. PICK d \in drawn[c] + 1..last : effect[d][c] = "deletes"
      BY <2>2 DEF DeletedBy
    <3>2. d \notin m.at + 1..last
      BY <1>2, <2>2, <3>1 DEF Touching
    <3>3. d \in drawn[c] + 1..m.at
      BY <1>1, <3>1, <3>2
    <3> QED
      BY <1>4, <2>2, <3>1, <3>3 DEF DeletedBy
  <2> QED
    BY <1>3, <1>4, <2>1, <2>2
<1>7. ASSUME NEW q \in Revisions PROVE MovedBy(c, m.at, q) <=> MovedBy(c, last, q)
  <2>1. CASE m.orphaned
    <3>1. PICK d \in drawn[c] + 1..m.at : effect[d][c] = "deletes"
      BY <1>4, <2>1 DEF DeletedBy
    <3>2. ASSUME MovedBy(c, last, q) PROVE MovedBy(c, m.at, q)
      <4>1. q < d /\ q \in drawn[c] + 1..last /\ effect[q][c] = "moves"
        BY <1>1, <3>1, <3>2 DEF MovedBy
      <4>2. \A e \in drawn[c] + 1..m.at : e \in drawn[c] + 1..last
        BY <1>1
      <4>3. q \in drawn[c] + 1..m.at
        BY <1>1, <3>1, <4>1
      <4> QED
        BY <3>2, <4>1, <4>2, <4>3 DEF MovedBy
    <3>3. ASSUME MovedBy(c, m.at, q) PROVE MovedBy(c, last, q)
      <4>1. /\ q < d /\ q \in drawn[c] + 1..m.at /\ effect[q][c] = "moves"
            /\ \A e \in drawn[c] + 1..m.at : effect[e][c] = "deletes" => q < e
        BY <3>1, <3>3 DEF MovedBy
      <4>2. \A e \in drawn[c] + 1..last : e \in drawn[c] + 1..m.at \/ q < e
        BY <1>1, <4>1
      <4> QED
        BY <1>1, <4>1, <4>2 DEF MovedBy
    <3> QED
      BY <3>2, <3>3
  <2>2. CASE ~m.orphaned
    <3>1. \A e \in m.at + 1..last : effect[e][c] = "keeps"
      BY <1>2, <2>2 DEF Touching
    <3>2. \A e \in drawn[c] + 1..last : effect[e][c] # "keeps" => e \in drawn[c] + 1..m.at
      BY <1>1, <3>1
    <3>3. \A e \in drawn[c] + 1..m.at : e \in drawn[c] + 1..last
      BY <1>1
    <3> QED
      BY <3>2, <3>3 DEF MovedBy
  <2> QED
    BY <2>1, <2>2
<1>8. Touching(c, last + 1..drawn[c]) = {}
  BY <1>1 DEF Touching
<1>9. Right(c, n)
  <2>1. \A q \in Revisions : n.moved[q] = IF MovedBy(c, last, q) THEN 1 ELSE 0
    BY <1>3, <1>4, <1>7
  <2> QED
    BY <1>1, <1>3, <1>6, <1>8, <2>1, RightMeans
<1> QED
  BY <1>3, <1>9 DEF Right

LEMMA InvMeans == Assumptions /\ IInv => RebasedOnce
<1> SUFFICES ASSUME Assumptions, IInv, NEW c \in Comments, Anchored(c)
             PROVE  /\ Anchor(c) = Followed(c, comments[c].at)
                    /\ Ready => Anchor(c) = Followed(c, session.rev)
  BY DEF RebasedOnce
<1>1. comments[c] # None /\ comments[c] \in Record /\ c \notin missed
  BY DEF Anchored, IInv, TypeInv, StateOK
<1>2. PICK m \in Record : m = comments[c]
  BY <1>1
<1>3. Right(c, m) /\ Settled(c, m) /\ drawn[c] # None
  BY <1>1, <1>2, AnchoredNow DEF IInv
<1>4. ASSUME NEW r PROVE Followed(c, r) = [moved |-> Followed(c, r).moved, orphaned |-> Followed(c, r).orphaned]
  BY DEF Followed
<1>5. Anchor(c) = [moved |-> m.moved, orphaned |-> m.orphaned]
  BY <1>2 DEF Anchor
<1>6. Anchor(c) = Followed(c, m.at)
  BY <1>3, <1>4, <1>5 DEF Right
<1>7. ASSUME Ready PROVE Anchor(c) = Followed(c, session.rev)
  <2>1. session.step = "ready" /\ session.rev = last
    BY <1>7 DEF Ready, IInv, TypeInv, SessionInv, StateOK, Sessions
  <2>2. m.moved = Followed(c, last).moved /\ m.orphaned = Followed(c, last).orphaned
    BY <1>3, <2>1, AtRest DEF IInv
  <2> QED
    BY <1>4, <1>5, <2>1, <2>2
<1> QED
  BY <1>2, <1>6, <1>7

\* Over hooks, replays, crashes, edits and compactions, an anchor for which nothing went wrong
\* is moved by every operation up to its revision exactly once, and at rest it is where its
\* text is in the document.
THEOREM MovedOnce == Spec => []RebasedOnce
<1>0. Assumptions
  BY BoundsAssumption, NoneAssumption DEF Assumptions
<1>1. Init => IInv
  BY <1>0, InvInit
<1>2. IInv /\ [Next]_vars => IInv'
  BY <1>0, InvStep
<1>3. IInv => RebasedOnce
  BY <1>0, InvMeans
<1> QED
  BY <1>1, <1>2, <1>3, PTL DEF Spec

=============================================================================
