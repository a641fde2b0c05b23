------------------------- MODULE CollabSessionProofs -------------------------
(***************************************************************************)
(* What TLAPS proves about CollabSession and JsonCrdt, for any number of   *)
(* clients, objects, edits and failures and under each sample editor.      *)
(*                                                                         *)
(* TypeInv gives the variables their values and says that nothing is about *)
(* an object that was never added.  EchoInv counts, for the writes in the  *)
(* log and those a client has not got there yet, an edit each.  OrderInv   *)
(* tells the registers by the set of the operations that were applied.     *)
(* SameInv says of a client how far what it sees of an object is behind    *)
(* the document, or ahead of it.                                           *)
(***************************************************************************)
EXTENDS CollabSession, Recursion, FiniteSetTheorems

Whole(i) == <<i>>
Place(i) == <<i, "position">>

\* The operations on the objects of U, and those a client sends: it deletes no property
\* alone.  The editors and documents that have no other objects.
Written(U) == {op \in Records : IdOf(op) \in U}
Sent(U) == {op \in Ops : IdOf(op) \in U}
Images(U) == {x \in [id : Ids, value : Values, late : BOOLEAN] : x.id \in U}
Screens(U) == {s \in [Ids -> Seq(Values)] : \A i \in Ids : s[i] # <<>> => i \in U}
Editors(U) == [show : Screens(U), loading : SUBSET Images(U)]
Documents(U) ==
    {r \in [Paths -> Written(U) \cup {NoRegister}] :
        \A p \in Paths : r[p] # NoRegister => r[p].path = p}

----------------------------------------------------------------------------
\* Paths and operations.

LEMMA PathsAre ==
    /\ \A p \in Paths : \E i \in Ids : p = Whole(i) \/ p = Place(i)
    /\ \A i \in Ids : /\ Whole(i) \in Paths /\ Place(i) \in Paths /\ Whole(i) # Place(i)
                      /\ Len(Whole(i)) = 1 /\ Len(Place(i)) = 2
                      /\ Whole(i)[1] = i /\ Place(i)[1] = i
<1>1. \A i \in Ids : Len(Whole(i)) = 1 /\ Len(Place(i)) = 2
  BY DEF Whole, Place
<1>2. \A i \in Ids : Whole(i)[1] = i /\ Place(i)[1] = i
  BY DEF Whole, Place
<1>3. \A i \in Ids : Whole(i) # Place(i)
  BY <1>1
<1> QED
  BY <1>1, <1>2, <1>3, BoundsAssumption DEF Whole, Place

LEMMA FirstName ==
    ASSUME NEW i \in Ids
    PROVE  /\ SubSeq(Whole(i), 1, 1) = Whole(i) /\ SubSeq(Place(i), 1, 1) = Whole(i)
           /\ SubSeq(Place(i), 1, 2) = Place(i)
<1> DEFINE S == Ids \cup {"position"}
           first == SubSeq(Place(i), 1, 1)
<1>1. Whole(i) \in Seq(S) /\ Place(i) \in Seq(S)
  BY DEF Whole, Place
<1>2. Len(Whole(i)) = 1 /\ Len(Place(i)) = 2 /\ Whole(i)[1] = i /\ Place(i)[1] = i
  BY PathsAre
<1>3. SubSeq(Whole(i), 1, 1) = Whole(i) /\ SubSeq(Place(i), 1, 2) = Place(i)
  BY <1>1, <1>2, SubSeqFull
<1> HIDE DEF S
<1>4. \A k \in 1..1 : Place(i)[k] \in S
  BY <1>1, <1>2, ElementOfSeq
<1>5. first \in Seq(S) /\ Len(first) = 1 /\ first[1] = i
  BY <1>2, <1>4, SubSeqProperties
<1>6. \A k \in 1..1 : first[k] = Whole(i)[k]
  BY <1>2, <1>5
<1>7. first = Whole(i)
  BY <1>1, <1>2, <1>5, <1>6, SeqEqual
<1> QED
  BY <1>3, <1>7

LEMMA AboveIs ==
    ASSUME NEW p \in Paths, NEW q \in Paths
    PROVE  Above(p, q) <=> \E i \in Ids : p = Whole(i) /\ q = Place(i)
<1>1. ASSUME NEW i \in Ids PROVE Above(Whole(i), Place(i))
  <2>1. Len(Whole(i)) = 1 /\ Len(Place(i)) = 2 /\ Whole(i) # Place(i)
    BY PathsAre
  <2>2. SubSeq(Whole(i), 1, 1) = SubSeq(Place(i), 1, 1)
    BY FirstName
  <2> HIDE DEF Whole, Place
  <2> QED
    BY <2>1, <2>2 DEF Above, IsStrictPrefix, IsPrefix
<1>2. ASSUME Above(p, q) PROVE \E i \in Ids : p = Whole(i) /\ q = Place(i)
  <2>1. p # q /\ Len(p) <= Len(q) /\ SubSeq(p, 1, Len(p)) = SubSeq(q, 1, Len(p))
    BY <1>2 DEF Above, IsStrictPrefix, IsPrefix
  <2>2. PICK i \in Ids : p = Whole(i) \/ p = Place(i)
    BY PathsAre
  <2>3. PICK j \in Ids : q = Whole(j) \/ q = Place(j)
    BY PathsAre
  <2>4. Len(p) \in 1..2 /\ Len(q) \in 1..2 /\ Len(p) <= Len(q)
    BY <2>1, <2>2, <2>3, PathsAre
  <2>a. SubSeq(p, 1, Len(p)) = p
    BY <2>2, FirstName, PathsAre
  <2>5. Len(p) # Len(q)
    <3> SUFFICES ASSUME Len(p) = Len(q) PROVE FALSE
      OBVIOUS
    <3>1. SubSeq(q, 1, Len(p)) = q
      BY <2>3, FirstName, PathsAre
    <3> QED
      BY <2>1, <2>a, <3>1
  <2>6. p = Whole(i) /\ q = Place(j)
    <3>1. Len(Whole(i)) = 1 /\ Len(Place(i)) = 2 /\ Len(Whole(j)) = 1 /\ Len(Place(j)) = 2
      BY PathsAre
    <3>2. CASE p = Whole(i)
      BY <2>3, <2>5, <3>1, <3>2
    <3>3. CASE p = Place(i)
      BY <2>3, <2>4, <2>5, <3>1, <3>3
    <3> QED
      BY <2>2, <3>2, <3>3
  <2>7. SubSeq(q, 1, Len(p)) = Whole(j)
    BY <2>6, FirstName, PathsAre
  <2>8. p[1] = i /\ Whole(j)[1] = j
    BY <2>6, PathsAre
  <2> QED
    BY <2>1, <2>6, <2>7, <2>8, <2>a
<1> QED
  BY <1>1, <1>2

LEMMA OpsAre ==
    /\ Records \subseteq Writes /\ NoRegister \notin Records /\ Ops \subseteq Records
    /\ Values \subseteq Nat /\ Deleted \notin Values /\ Deleted \in Nat
    /\ \A op \in Records : /\ op.path \in Paths /\ IdOf(op) \in Ids /\ op.value \in Values \cup {Deleted}
                       /\ op.ts \in Nat /\ op.peer \in Nat /\ op.peer \in Clients
    /\ \A op \in Writes : op.path \in Paths /\ op.value \in Nat /\ op.ts \in Nat /\ op.peer \in Nat
<1>1. Values \subseteq Nat /\ Deleted \notin Values /\ Deleted \in Nat
  BY BoundsAssumption, PathAssumption DEF Values
<1>2. Records \subseteq Writes
  <2> SUFFICES ASSUME NEW op \in Records PROVE op \in Writes
    OBVIOUS
  <2>1. op = [path |-> op.path, value |-> op.value, ts |-> op.ts, peer |-> op.peer]
    BY DEF Records
  <2>2. op.path \in Paths /\ op.value \in Nat /\ op.ts \in Nat /\ op.peer \in Nat
    <3>1. op.path \in Paths /\ op.value \in Values \cup {Deleted} /\ op.ts \in 1..MaxClock /\ op.peer \in Clients
      BY DEF Records
    <3>2. Clients \subseteq Nat /\ 1..MaxClock \subseteq Nat
      BY BoundsAssumption
    <3> QED
      BY <1>1, <3>1, <3>2
  <2> QED
    BY <2>1, <2>2 DEF Writes
<1>3. \A p \in Paths : p[1] \in Ids
  BY PathsAre
<1>4. \A op \in Records : op.path \in Paths /\ op.value \in Values \cup {Deleted} /\ op.ts \in Nat /\ op.peer \in Clients
  BY BoundsAssumption DEF Records
<1>5. \A op \in Records : op.peer \in Nat /\ IdOf(op) \in Ids
  BY <1>3, <1>4, BoundsAssumption DEF IdOf
<1>6. \A op \in Writes : op.path \in Paths /\ op.value \in Nat /\ op.ts \in Nat /\ op.peer \in Nat
  BY DEF Writes
<1> QED
  BY <1>1, <1>2, <1>4, <1>5, <1>6, RegisterAssumption DEF Ops

LEMMA WriteIs ==
    ASSUME NEW p, NEW v, NEW ts, NEW peer
    PROVE  /\ Write(p, v, ts, peer).path = p /\ Write(p, v, ts, peer).value = v
           /\ Write(p, v, ts, peer).ts = ts /\ Write(p, v, ts, peer).peer = peer
BY DEF Write

LEMMA WriteType ==
    ASSUME NEW U, NEW p \in Paths, p[1] \in U, NEW v \in Values \cup {Deleted},
           NEW ts \in 1..MaxClock, NEW peer \in Clients
    PROVE  Write(p, v, ts, peer) \in Written(U)
BY DEF Write, Written, Records, IdOf

LEMMA WrittenIs ==
    /\ \A U : Written(U) \subseteq Records
    /\ \A U : \A op \in Written(U) : IdOf(op) \in U
    /\ \A U, V : U \subseteq V => Written(U) \subseteq Written(V)
BY DEF Written

----------------------------------------------------------------------------
\* The document.

LEMMA SingleType ==
    ASSUME NEW U, NEW r \in Documents(U), NEW op \in Written(U), NEW written
    PROVE  ApplySingleOp(r, op, written) \in Documents(U)
<1> DEFINE new == ApplySingleOp(r, op, written)
<1>1. op \in Records /\ op.path \in Paths /\ op.ts \in 1..MaxClock /\ op.peer \in Clients /\ IdOf(op) \in U
  BY DEF Written, Records
<1>2. r \in [Paths -> Written(U) \cup {NoRegister}] /\ \A p \in Paths : r[p] # NoRegister => r[p].path = p
  BY DEF Documents
<1> DEFINE tomb(p) == Write(p, Deleted, op.ts, op.peer)
<1>3. ASSUME NEW p \in Paths, Above(op.path, p) PROVE tomb(p) \in Written(U) /\ tomb(p).path = p
  <2>1. PICK i \in Ids : op.path = Whole(i) /\ p = Place(i)
    BY <1>1, <1>3, AboveIs
  <2>2. p[1] = IdOf(op)
    BY <2>1, PathsAre DEF IdOf
  <2> QED
    BY <1>1, <2>2, WriteType, WriteIs
<1> HIDE DEF tomb
<1>4. new = r \/ \E over : new = [p \in Paths |-> IF p = op.path THEN op
                                                  ELSE IF Above(op.path, p) /\ p \in over THEN tomb(p) ELSE r[p]]
  <2> DEFINE over == {p \in Paths : p \notin written /\ r[p] # NoRegister /\ WinsLWW(op, r[p], FALSE)}
  <2>1. new = r \/ new = [p \in Paths |-> IF p = op.path THEN op
                                                  ELSE IF Above(op.path, p) /\ p \in over THEN tomb(p) ELSE r[p]]
    BY DEF ApplySingleOp, tomb
  <2> QED
    BY <2>1
<1> HIDE DEF new
<1>5. new \in [Paths -> Written(U) \cup {NoRegister}]
  BY <1>2, <1>3, <1>4
<1>6. \A p \in Paths : new[p] # NoRegister => new[p].path = p
  BY <1>2, <1>3, <1>4
<1> QED
  BY <1>5, <1>6 DEF Documents, new
LEMMA DocumentsAre ==
    ASSUME NEW U
    PROVE  /\ Documents(U) \subseteq Registers
           /\ Empty \in Documents(U)
           /\ \A r \in Documents(U) : \A p \in Paths :
                 r[p] # NoRegister => r[p] \in Written(U) /\ r[p] \in Records /\ r[p].path = p
<1>1. Written(U) \subseteq Records /\ Records \subseteq Writes
  BY WrittenIs, OpsAre
<1>2. Documents(U) \subseteq Registers
  BY <1>1 DEF Documents, Registers
<1>3. Empty \in Documents(U)
  BY DEF Empty, Documents
<1>4. \A r \in Documents(U) : \A p \in Paths :
          r[p] # NoRegister => r[p] \in Written(U) /\ r[p].path = p
  BY DEF Documents
<1> QED
  BY <1>1, <1>2, <1>3, <1>4

LEMMA AddedType ==
    /\ \A done \in Registers, op \in Writes : Added(done, op) \in Registers
    /\ \A U : \A done \in Documents(U), op \in Written(U) : Added(done, op) \in Documents(U)
<1>1. ASSUME NEW done \in Registers, NEW op \in Writes PROVE Added(done, op) \in Registers
  BY DEF Added, Registers
<1>2. ASSUME NEW U, NEW done \in Documents(U), NEW op \in Written(U)
      PROVE  Added(done, op) \in Documents(U)
  <2>1. op \in Records /\ op.path \in Paths
    BY WrittenIs, OpsAre
  <2>2. op # NoRegister
    BY <2>1, OpsAre
  <2> QED
    BY <2>1, <2>2 DEF Added, Documents
<1> QED
  BY <1>1, <1>2

LEMMA AddedIs ==
    /\ added \in [Registers \X Writes -> Registers]
    /\ \A done \in Registers, op \in Writes : added[<<done, op>>] = Added(done, op)
<1>1. ASSUME NEW p \in Registers \X Writes PROVE Added(p[1], p[2]) \in Registers
  <2>1. p[1] \in Registers /\ p[2] \in Writes
    OBVIOUS
  <2> QED
    BY <2>1, AddedType
<1> QED
  BY <1>1 DEF added

LEMMA ComposeIs ==
    ASSUME NEW batch
    PROVE  Compose(batch) = FoldFn(added, Empty, batch)
BY DEF Compose, FoldLeft, MapThenFoldSet, FoldFn

LEMMA BatchType ==
    ASSUME NEW U, NEW batch \in Seq(Written(U))
    PROVE  batch \in Seq(Records) /\ batch \in Seq(Writes)
<1>1. Written(U) \subseteq Records /\ Records \subseteq Writes
  BY WrittenIs, OpsAre
<1> QED
  BY <1>1, SeqMonotonic

LEMMA EmptyType == Empty \in Registers
BY DEF Empty, Registers

LEMMA ComposeType ==
    ASSUME NEW U, NEW batch \in Seq(Written(U))
    PROVE  Compose(batch) \in Documents(U)
<1>1. Foldable(Registers, Writes, added, Empty, batch)
  BY AddedIs, EmptyType, BatchType DEF Foldable
<1>2. \A d \in Documents(U) : \A op \in Written(U) : added[<<d, op>>] \in Documents(U)
  <2>1. Documents(U) \subseteq Registers /\ Written(U) \subseteq Writes
    BY DocumentsAre, WrittenIs, OpsAre
  <2> QED
    BY <2>1, AddedIs, AddedType
<1>3. Documents(U) \in SUBSET Registers /\ Empty \in Documents(U) /\ Written(U) \in SUBSET Writes
  BY DocumentsAre, WrittenIs, OpsAre
<1>4. FoldFn(added, Empty, batch) \in Documents(U)
  BY <1>1, <1>2, <1>3, FoldKept
<1> QED
  BY <1>4, ComposeIs

\* The step of Apply, for what is left of the batch.
PathsOf(left) == {p \in Paths : left[p] # NoRegister}

Applying(left) ==
    [p \in Registers \X Writes |->
        IF left[p[2].path] = p[2] THEN ApplySingleOp(p[1], p[2], PathsOf(left)) ELSE p[1]]

LEMMA ApplyIs ==
    ASSUME NEW r, NEW batch
    PROVE  Apply(r, batch) = FoldFn(Applying(Compose(batch)), r, batch)
BY DEF Apply, Applying, PathsOf, FoldLeft, MapThenFoldSet, FoldFn

LEMMA ApplyingIs ==
    ASSUME NEW left
    PROVE  /\ Applying(left) \in [Registers \X Writes -> Registers]
           /\ \A r \in Registers, op \in Writes :
                 Applying(left)[<<r, op>>] =
                     IF left[op.path] = op THEN ApplySingleOp(r, op, PathsOf(left)) ELSE r
<1>1. ASSUME NEW r \in Registers, NEW op \in Writes
      PROVE  ApplySingleOp(r, op, PathsOf(left)) \in Registers
  <2>1. op.path \in Paths /\ op.ts \in Nat /\ op.peer \in Nat /\ Deleted \in Nat
    BY OpsAre
  <2>2. \A p \in Paths : Write(p, Deleted, op.ts, op.peer) \in Writes
    BY <2>1 DEF Write, Writes
  <2> QED
    BY <2>1, <2>2 DEF ApplySingleOp, Registers
<1>2. ASSUME NEW p \in Registers \X Writes
      PROVE  (IF left[p[2].path] = p[2] THEN ApplySingleOp(p[1], p[2], PathsOf(left)) ELSE p[1]) \in Registers
  <2>1. p[1] \in Registers /\ p[2] \in Writes
    OBVIOUS
  <2> QED
    BY <1>1, <2>1
<1> QED
  BY <1>2 DEF Applying

LEMMA ApplyType ==
    ASSUME NEW U, NEW r \in Documents(U), NEW batch \in Seq(Written(U))
    PROVE  Apply(r, batch) \in Documents(U)
<1> DEFINE left == Compose(batch)
<1>1. r \in Registers /\ batch \in Seq(Writes)
  BY DocumentsAre, BatchType
<1>2. Foldable(Registers, Writes, Applying(left), r, batch)
  BY <1>1, ApplyingIs DEF Foldable
<1>3. \A d \in Documents(U) : \A op \in Written(U) : Applying(left)[<<d, op>>] \in Documents(U)
  <2> SUFFICES ASSUME NEW d \in Documents(U), NEW op \in Written(U)
               PROVE  Applying(left)[<<d, op>>] \in Documents(U)
    OBVIOUS
  <2>1. d \in Registers /\ op \in Writes
    BY DocumentsAre, WrittenIs, OpsAre
  <2>2. Applying(left)[<<d, op>>] = IF left[op.path] = op THEN ApplySingleOp(d, op, PathsOf(left)) ELSE d
    BY <2>1, ApplyingIs
  <2> QED
    BY <2>2, SingleType
<1>4. Documents(U) \in SUBSET Registers /\ Written(U) \in SUBSET Writes
  BY DocumentsAre, WrittenIs, OpsAre
<1> HIDE DEF left
<1>5. FoldFn(Applying(left), r, batch) \in Documents(U)
  BY <1>2, <1>3, <1>4, FoldKept
<1> QED
  BY <1>5, ApplyIs DEF left

----------------------------------------------------------------------------
\* The editors.

LEMMA Changed ==
    ASSUME NEW S, NEW s \in Seq(S), NEW v \in S, NEW k
    PROVE  /\ [s EXCEPT ![k] = v] \in Seq(S)
           /\ s # <<>> => Tail(s) \in Seq(S) /\ Head(s) \in S
           /\ s # <<>> => [s EXCEPT ![k] = v] # <<>>
           /\ Append(s, v) \in Seq(S) /\ <<v>> \in Seq(S)
<1>1. PICK n \in Nat : s \in [1..n -> S]
  BY SeqDef
<1>2. [s EXCEPT ![k] = v] \in [1..n -> S]
  BY <1>1
<1>3. [s EXCEPT ![k] = v] \in Seq(S)
  BY <1>2, SeqDef
<1>4. DOMAIN [s EXCEPT ![k] = v] = DOMAIN s
  OBVIOUS
<1>5. s # <<>> => Len(s) \in Nat \ {0}
  BY EmptySeq
<1>6. s # <<>> => [s EXCEPT ![k] = v] # <<>>
  <2>1. s # <<>> => DOMAIN s # {}
    <3> SUFFICES ASSUME s # <<>> PROVE DOMAIN s # {}
      OBVIOUS
    <3>1. DOMAIN s = 1..Len(s)
      BY LenProperties
    <3>2. 1 \in 1..Len(s)
      BY <1>5
    <3> QED
      BY <3>1, <3>2
  <2>2. DOMAIN <<>> = {}
    OBVIOUS
  <2> QED
    BY <1>4, <2>1, <2>2
<1>7. s # <<>> => Tail(s) \in Seq(S) /\ Head(s) \in S
  BY HeadTailProperties
<1> QED
  BY <1>3, <1>6, <1>7

LEMMA ScreensAre ==
    ASSUME NEW U, NEW s \in Screens(U), NEW id \in Ids
    PROVE  /\ s[id] \in Seq(Values) /\ (s[id] # <<>> => id \in U)
           /\ \A objs \in Seq(Values) :
                 (id \in U \/ objs = <<>>) => [s EXCEPT ![id] = objs] \in Screens(U)
BY DEF Screens

LEMMA EditorsAre ==
    ASSUME NEW U, NEW ed \in Editors(U)
    PROVE  /\ ed.show \in Screens(U) /\ ed.loading \in SUBSET Images(U)
           /\ ed = [show |-> ed.show, loading |-> ed.loading]
           /\ Images(U) \subseteq [id : Ids, value : Values, late : BOOLEAN]
           /\ ed \in Editor
BY DEF Editors, Editor, Screens, Images

LEMMA EditorIs ==
    ASSUME NEW U, NEW s \in Screens(U), NEW l \in SUBSET Images(U)
    PROVE  /\ [show |-> s, loading |-> l] \in Editors(U)
           /\ [show |-> s, loading |-> l].show = s /\ [show |-> s, loading |-> l].loading = l
BY DEF Editors

LEMMA ShowingType ==
    ASSUME NEW U, NEW ed \in Editors(U), NEW id \in Ids, NEW objs \in Seq(Values),
           id \in U \/ objs = <<>>
    PROVE  /\ Showing(ed, id, objs) \in Editors(U)
           /\ Showing(ed, id, objs).loading = ed.loading
           /\ Showing(ed, id, objs).show = [ed.show EXCEPT ![id] = objs]
<1>1. ed.show \in Screens(U) /\ ed.loading \in SUBSET Images(U) /\ ed = [show |-> ed.show, loading |-> ed.loading]
  BY EditorsAre
<1>2. [ed.show EXCEPT ![id] = objs] \in Screens(U)
  BY <1>1, ScreensAre
<1>3. Showing(ed, id, objs) = [show |-> [ed.show EXCEPT ![id] = objs], loading |-> ed.loading]
  BY <1>1 DEF Showing
<1> QED
  BY <1>1, <1>2, <1>3, EditorIs

LEMMA LoadingType ==
    ASSUME NEW U, NEW ed \in Editors(U), NEW id \in Ids, id \in U, NEW v \in Values
    PROVE  Loading(ed, id, v) \in Editors(U)
<1>1. ed.show \in Screens(U) /\ ed.loading \in SUBSET Images(U) /\ ed = [show |-> ed.show, loading |-> ed.loading]
  BY EditorsAre
<1>2. [id |-> id, value |-> v, late |-> FALSE] \in Images(U)
  BY DEF Images
<1>3. Loading(ed, id, v) = [show |-> ed.show, loading |-> ed.loading \cup {[id |-> id, value |-> v, late |-> FALSE]}]
  BY <1>1 DEF Loading
<1> QED
  <2>1. ed.loading \cup {[id |-> id, value |-> v, late |-> FALSE]} \in SUBSET Images(U)
    BY <1>1, <1>2
  <2> QED
    BY <1>1, <1>3, <2>1, EditorIs

LEMMA UnplacedType ==
    ASSUME NEW U, NEW loads \in SUBSET Images(U), NEW id
    PROVE  Unplaced(loads, id) \in SUBSET Images(U)
<1>1. ASSUME NEW x \in Images(U) PROVE [x EXCEPT !.late = TRUE] \in Images(U)
  BY DEF Images
<1> QED
  BY <1>1 DEF Unplaced
Apps == {"cards", "canvas", "stage", "diagram", "scene"}

LEMMA SentIs ==
    /\ \A U : Sent(U) \subseteq Written(U) /\ Sent(U) \subseteq Ops
    /\ \A U : \A op \in Sent(U) : /\ IdOf(op) \in U /\ (op.value = Deleted => Len(op.path) = 1)
    /\ \A U, V : U \subseteq V => Sent(U) \subseteq Sent(V)
BY DEF Sent, Written, Ops

LEMMA ApplyOpType ==
    ASSUME app \in Apps, NEW U, NEW ed \in Editors(U), NEW op \in Sent(U)
    PROVE  ApplyOp(ed, op) \in Editors(U)
<1> DEFINE id == IdOf(op)
           v == op.value
<1>1. id \in Ids /\ id \in U /\ v \in Values \cup {Deleted} /\ op.path \in Paths /\ op.path[1] = id
  BY SentIs, OpsAre DEF IdOf
<1>0. v = Deleted => Len(op.path) = 1
  BY SentIs
<1> HIDE DEF id, v
<1>2. ed.show \in Screens(U) /\ ed.loading \in SUBSET Images(U)
  BY EditorsAre
<1>3. ed.show[id] \in Seq(Values) /\ (ed.show[id] # <<>> => Tail(ed.show[id]) \in Seq(Values))
  BY <1>1, <1>2, ScreensAre, HeadTailProperties
<1>4. <<>> \in Seq(Values) /\ (v # Deleted => v \in Values /\ <<v>> \in Seq(Values))
  BY <1>1
<1>5. \A objs \in Seq(Values) : Showing(ed, id, objs) \in Editors(U)
  BY <1>1, ShowingType
<1>6. ApplyCard(ed, id, v) \in Editors(U)
  BY <1>4, <1>5 DEF ApplyCard
<1>7. ApplyCanvas(ed, id, v) \in Editors(U)
  <2>1. Showing(ed, id, IF ed.show[id] = <<>> THEN <<>> ELSE Tail(ed.show[id])) \in Editors(U)
    BY <1>3, <1>4, <1>5
  <2> QED
    BY <1>1, <1>4, <2>1, LoadingType DEF ApplyCanvas
<1>8. ApplyShape(ed, id, v) \in Editors(U)
  <2>1. CASE v = Deleted /\ ed.show[id] = <<>>
    BY <2>1 DEF ApplyShape
  <2>2. CASE v = Deleted /\ ed.show[id] # <<>>
    <3> DEFINE less == Showing(ed, id, Tail(ed.show[id]))
    <3>1. less \in Editors(U)
      BY <1>3, <1>5, <2>2
    <3>2. ApplyShape(ed, id, v) = [less EXCEPT !.loading = Unplaced(@, id)]
      BY <2>2 DEF ApplyShape
    <3> HIDE DEF less
    <3>3. less.show \in Screens(U) /\ Unplaced(less.loading, id) \in SUBSET Images(U)
      BY <3>1, EditorsAre, UnplacedType
    <3>4. [less EXCEPT !.loading = Unplaced(@, id)] = [show |-> less.show, loading |-> Unplaced(less.loading, id)]
      BY <3>1, EditorsAre
    <3> QED
      BY <3>2, <3>3, <3>4, EditorIs
  <2>3. CASE v # Deleted /\ ed.show[id] # <<>>
    <3>1. [ed.show[id] EXCEPT ![1] = v] \in Seq(Values)
      BY <1>3, <1>4, <2>3, Changed
    <3> QED
      BY <1>5, <2>3, <3>1 DEF ApplyShape
  <2>4. CASE v # Deleted /\ ed.show[id] = <<>>
    <3>1. Showing(ed, id, <<v>>) \in Editors(U)
      BY <1>4, <1>5, <2>4
    <3> QED
      BY <1>1, <1>4, <2>4, <3>1, LoadingType DEF ApplyShape
  <2> QED
    BY <2>1, <2>2, <2>3, <2>4
<1>9. ApplyPath(ed, op.path, v) \in Editors(U)
  <2>1. ApplyPath(ed, op.path, v) = ed \/ ApplyPath(ed, op.path, v) = Showing(ed, id, <<>>)
        \/ (v # Deleted /\ ApplyPath(ed, op.path, v) = Showing(ed, id, <<v>>))
    BY <1>0, <1>1 DEF ApplyPath
  <2> QED
    BY <1>4, <1>5, <2>1
<1> QED
  BY <1>6, <1>7, <1>8, <1>9 DEF ApplyOp, Apps, id, v
\* What the editors do, as a function.
Shown == [p \in Editor \X Ops |-> ApplyOp(p[1], p[2])]

EditorOf(c) == [show |-> show[c], loading |-> loading[c]]

LEMMA AllIds ==
    /\ Editors(Ids) = Editor /\ Sent(Ids) = Ops
    /\ \A U : Editors(U) \subseteq Editor
<1>1. Screens(Ids) = [Ids -> Seq(Values)]
  BY DEF Screens
<1>2. Images(Ids) = [id : Ids, value : Values, late : BOOLEAN]
  BY DEF Images
<1>3. Sent(Ids) = Ops
  BY OpsAre DEF Sent
<1> QED
  BY <1>1, <1>2, <1>3, EditorsAre DEF Editors, Editor

LEMMA ApplyOpsIs ==
    ASSUME NEW c, NEW batch
    PROVE  ApplyOps(c, batch) = FoldFn(Shown, EditorOf(c), batch)
BY DEF ApplyOps, Shown, EditorOf, FoldLeft, MapThenFoldSet, FoldFn

LEMMA ShownIs ==
    ASSUME app \in Apps
    PROVE  /\ Shown \in [Editor \X Ops -> Editor]
           /\ \A ed \in Editor, op \in Ops : Shown[<<ed, op>>] = ApplyOp(ed, op)
<1>1. ASSUME NEW p \in Editor \X Ops PROVE ApplyOp(p[1], p[2]) \in Editor
  <2>1. p[1] \in Editors(Ids) /\ p[2] \in Sent(Ids)
    BY AllIds
  <2>2. ApplyOp(p[1], p[2]) \in Editors(Ids)
    BY <2>1, ApplyOpType
  <2> QED
    BY <2>2, AllIds
<1> QED
  BY <1>1 DEF Shown

LEMMA ApplyOpsType ==
    ASSUME app \in Apps, NEW U, NEW c, EditorOf(c) \in Editors(U), NEW batch \in Seq(Sent(U))
    PROVE  ApplyOps(c, batch) \in Editors(U)
<1>1. Editors(U) \in SUBSET Editor /\ Sent(U) \in SUBSET Ops
  BY AllIds, SentIs
<1>2. batch \in Seq(Ops)
  BY <1>1, SeqMonotonic
<1>3. Foldable(Editor, Ops, Shown, EditorOf(c), batch)
  BY <1>1, <1>2, ShownIs DEF Foldable
<1>4. \A ed \in Editors(U) : \A op \in Sent(U) : Shown[<<ed, op>>] \in Editors(U)
  BY <1>1, ShownIs, ApplyOpType
<1>5. FoldFn(Shown, EditorOf(c), batch) \in Editors(U)
  BY <1>1, <1>3, <1>4, FoldKept
<1> QED
  BY <1>5, ApplyOpsIs

----------------------------------------------------------------------------
\* The outbox, and the snapshot.

Boxes(U) == [pending : Seq(Sent(U)), sending : Seq(Sent(U))]
BoxOf(c) == [pending |-> pending[c], sending |-> sending[c]]

LEMMA BoxIs ==
    ASSUME NEW U, NEW p \in Seq(Sent(U)), NEW s \in Seq(Sent(U))
    PROVE  /\ [pending |-> p, sending |-> s] \in Boxes(U)
           /\ [pending |-> p, sending |-> s].pending = p /\ [pending |-> p, sending |-> s].sending = s
BY DEF Boxes

LEMMA BoxesAre ==
    ASSUME NEW U, NEW box \in Boxes(U)
    PROVE  /\ box.pending \in Seq(Sent(U)) /\ box.sending \in Seq(Sent(U))
           /\ box = [pending |-> box.pending, sending |-> box.sending]
BY DEF Boxes

\* One write more: at most one more operation, and something is in flight.
LEMMA EnqueueType ==
    ASSUME NEW U, NEW box \in Boxes(U), NEW op \in Sent(U)
    PROVE  /\ Enqueue(box, op) \in Boxes(U)
           /\ Enqueue(box, op).sending # <<>>
           /\ Len(Enqueue(box, op).pending) + Len(Enqueue(box, op).sending)
                 <= Len(box.pending) + Len(box.sending) + 1
           /\ box.sending # <<>> => Enqueue(box, op).sending = box.sending
<1> DEFINE P == box.pending
           at == {i \in DOMAIN P : P[i].path = op.path}
           waiting == IF at = {} THEN Append(P, op) ELSE [i \in DOMAIN P |-> IF i \in at THEN op ELSE P[i]]
<1>1. P \in Seq(Sent(U)) /\ box.sending \in Seq(Sent(U)) /\ box = [pending |-> P, sending |-> box.sending]
  BY BoxesAre
<1>2. Len(P) \in Nat /\ Len(box.sending) \in Nat /\ DOMAIN P = 1..Len(P)
  BY <1>1
<1>3. /\ waiting \in Seq(Sent(U)) /\ Len(waiting) \in Nat
      /\ Len(waiting) <= Len(P) + 1 /\ waiting # <<>>
  <2>1. CASE at = {}
    <3>1. waiting = Append(P, op)
      BY <2>1
    <3> QED
      BY <1>1, <1>2, <3>1, AppendProperties
  <2>2. CASE at # {}
    <3>1. waiting = [i \in 1..Len(P) |-> IF i \in at THEN op ELSE P[i]]
      BY <1>2, <2>2
    <3>2. \A i \in 1..Len(P) : (IF i \in at THEN op ELSE P[i]) \in Sent(U)
      BY <1>1
    <3>3. waiting \in Seq(Sent(U))
      BY <1>2, <3>1, <3>2, IsASeq
    <3>4. DOMAIN waiting = 1..Len(P) /\ 1..Len(P) # {}
      BY <1>2, <2>2, <3>1
    <3> HIDE DEF waiting, at, P
    <3>5. Len(waiting) = Len(P)
      BY <1>2, <3>3, <3>4
    <3>6. waiting # <<>>
      BY <3>4
    <3> QED
      BY <1>2, <3>3, <3>5, <3>6
  <2> QED
    BY <2>1, <2>2
<1>4. Enqueue(box, op) = IF box.sending = <<>> THEN [pending |-> <<>>, sending |-> waiting]
                         ELSE [pending |-> waiting, sending |-> box.sending]
  <2>1. Enqueue(box, op) = IF box.sending = <<>> THEN [pending |-> <<>>, sending |-> waiting]
                           ELSE [box EXCEPT !.pending = waiting]
    BY DEF Enqueue
  <2>2. \A w : [box EXCEPT !.pending = w] = [pending |-> w, sending |-> box.sending]
    BY <1>1
  <2> HIDE DEF waiting
  <2> QED
    BY <2>1, <2>2
<1> HIDE DEF waiting, P
<1>5. <<>> \in Seq(Sent(U)) /\ Len(<<>>) = 0
  BY EmptySeq
<1>6. CASE box.sending = <<>>
  <2>1. Enqueue(box, op) = [pending |-> <<>>, sending |-> waiting]
    BY <1>4, <1>6
  <2>2. Enqueue(box, op) \in Boxes(U) /\ Enqueue(box, op).pending = <<>> /\ Enqueue(box, op).sending = waiting
    <3>1. /\ [pending |-> <<>>, sending |-> waiting] \in Boxes(U)
          /\ [pending |-> <<>>, sending |-> waiting].pending = <<>>
          /\ [pending |-> <<>>, sending |-> waiting].sending = waiting
      BY <1>3, <1>5, BoxIs
    <3> QED
      BY <2>1, <3>1
  <2> QED
    BY <1>2, <1>3, <1>5, <1>6, <2>2 DEF P
<1>7. CASE box.sending # <<>>
  <2>1. Enqueue(box, op) = [pending |-> waiting, sending |-> box.sending]
    BY <1>4, <1>7
  <2>2. Enqueue(box, op) \in Boxes(U) /\ Enqueue(box, op).pending = waiting /\ Enqueue(box, op).sending = box.sending
    BY <1>1, <1>3, <2>1, BoxIs
  <2> QED
    <3>1. Len(box.pending) = Len(P)
      BY DEF P
    <3> QED
      BY <1>2, <1>3, <1>7, <2>2, <3>1
<1> QED
  BY <1>6, <1>7

LEMMA EnqueuedIs ==
    /\ enqueued \in [Box \X Ops -> Box] /\ Boxes(Ids) = Box
    /\ \A box \in Box, op \in Ops : enqueued[<<box, op>>] = Enqueue(box, op)
    /\ \A U : Boxes(U) \subseteq Box
<1>1. Boxes(Ids) = Box
  BY AllIds DEF Boxes, Box
<1>2. ASSUME NEW p \in Box \X Ops PROVE Enqueue(p[1], p[2]) \in Box
  <2>1. p[1] \in Boxes(Ids) /\ p[2] \in Sent(Ids)
    BY <1>1, AllIds
  <2> QED
    BY <1>1, <2>1, EnqueueType
<1>3. ASSUME NEW U, NEW b \in Boxes(U) PROVE b \in Box
  <2>1. Sent(U) \subseteq Ops
    BY SentIs
  <2>2. b.pending \in Seq(Ops) /\ b.sending \in Seq(Ops)
    BY <2>1, BoxesAre, SeqMonotonic
  <2> QED
    BY <2>2, BoxesAre DEF Box
<1> QED
  BY <1>1, <1>2, <1>3 DEF enqueued
\* What is in the outbox, and how much.
Size(box) == Len(box.pending) + Len(box.sending)

LEMMA SizeIs ==
    ASSUME NEW U, NEW box \in Boxes(U)
    PROVE  Size(box) \in Nat
<1>1. box.pending \in Seq(Sent(U)) /\ box.sending \in Seq(Sent(U))
  BY BoxesAre
<1> DEFINE m == Len(box.pending)
           n == Len(box.sending)
<1>2. m \in Nat /\ n \in Nat
  BY <1>1, LenProperties
<1>3. Size(box) = m + n
  BY DEF Size
<1> HIDE DEF m, n
<1> QED
  BY <1>2, <1>3

LEMMA EnqueueFold ==
    ASSUME NEW U, NEW base \in Boxes(U), NEW ops \in Seq(Sent(U))
    PROVE  LET box == FoldFn(enqueued, base, ops)
           IN  /\ box \in Boxes(U)
               /\ Size(box) <= Size(base) + Len(ops)
               /\ base.sending # <<>> => box.sending = base.sending
<1>1. Boxes(U) \subseteq Box /\ Sent(U) \subseteq Ops
  BY EnqueuedIs, SentIs
<1>2. ops \in Seq(Ops) /\ Len(ops) \in Nat /\ \A k \in 1..Len(ops) : ops[k] \in Sent(U)
  BY <1>1, SeqMonotonic, LenProperties, ElementOfSeq
<1>3. Foldable(Box, Ops, enqueued, base, ops)
  BY <1>1, <1>2, EnqueuedIs DEF Foldable
<1>4. PICK h \in [0..Len(ops) -> Box] : Trace(h, enqueued, base, ops)
  BY <1>3, TraceExists
<1> DEFINE Fine(k) == /\ h[k] \in Boxes(U)
                      /\ Size(h[k]) <= Size(base) + k
                      /\ base.sending # <<>> => h[k].sending = base.sending
           S == {k \in Nat : k <= Len(ops) => Fine(k)}
<1>5. 0 \in S
  <2>1. h[0] = base
    BY <1>4 DEF Trace
  <2> QED
    BY <2>1, SizeIs
<1>6. ASSUME NEW k \in Nat, k \in S PROVE k + 1 \in S
  <2> SUFFICES ASSUME k + 1 <= Len(ops) PROVE Fine(k + 1)
    OBVIOUS
  <2>1. Fine(k) /\ k + 1 \in 1..Len(ops)
    BY <1>2, <1>6
  <2>2. h[k + 1] = enqueued[<<h[k], ops[k + 1]>>]
    <3>1. h[k + 1] = enqueued[<<h[(k + 1) - 1], ops[k + 1]>>]
      BY <1>4, <2>1 DEF Trace
    <3>2. (k + 1) - 1 = k
      OBVIOUS
    <3> QED
      BY <3>1, <3>2
  <2>3. ops[k + 1] \in Sent(U)
    BY <1>2, <2>1
  <2>4. h[k + 1] = Enqueue(h[k], ops[k + 1])
    BY <1>1, <2>1, <2>2, <2>3, EnqueuedIs
  <2>5. /\ h[k + 1] \in Boxes(U) /\ Size(h[k + 1]) <= Size(h[k]) + 1
        /\ h[k].sending # <<>> => h[k + 1].sending = h[k].sending
    BY <2>1, <2>3, <2>4, EnqueueType DEF Size
  <2>6. Size(h[k + 1]) \in Nat /\ Size(h[k]) \in Nat /\ Size(base) \in Nat
    BY <2>1, <2>5, SizeIs
  <2> QED
    BY <2>1, <2>5, <2>6
<1> HIDE DEF S, Fine
<1>7. Nat \subseteq S
  BY <1>5, <1>6, Induction
<1>8. Fine(Len(ops))
  BY <1>2, <1>7 DEF S
<1>9. FoldFn(enqueued, base, ops) = h[Len(ops)]
  BY <1>3, <1>4, FoldTrace
<1> QED
  BY <1>8, <1>9 DEF Fine

LEMMA EnqueueAllIs ==
    ASSUME NEW U, NEW c \in Clients, NEW ops \in Seq(Sent(U)), EnqueueAll(c, ops),
           pending[c] \in Seq(Sent(U)), sending[c] \in Seq(Sent(U))
    PROVE  \E box \in Boxes(U) :
              /\ Size(box) <= Len(pending[c]) + Len(sending[c]) + Len(ops)
              /\ sending[c] # <<>> => box.sending = sending[c]
              /\ pending' = [pending EXCEPT ![c] = box.pending]
              /\ sending' = [sending EXCEPT ![c] = box.sending]
              /\ request' = [request EXCEPT ![c] = IF @ = "none" /\ box.sending # <<>> THEN "sent" ELSE @]
<1> DEFINE box == FoldFn(enqueued, BoxOf(c), ops)
<1>1. /\ pending' = [pending EXCEPT ![c] = box.pending]
      /\ sending' = [sending EXCEPT ![c] = box.sending]
      /\ request' = [request EXCEPT ![c] = IF @ = "none" /\ box.sending # <<>> THEN "sent" ELSE @]
  BY DEF EnqueueAll, BoxOf, FoldLeft, MapThenFoldSet, FoldFn
<1>2. BoxOf(c) \in Boxes(U) /\ BoxOf(c).pending = pending[c] /\ BoxOf(c).sending = sending[c]
  BY BoxIs DEF BoxOf
<1> HIDE DEF box
<1>3. box \in Boxes(U) /\ Size(box) <= Size(BoxOf(c)) + Len(ops)
      /\ (BoxOf(c).sending # <<>> => box.sending = BoxOf(c).sending)
  BY <1>2, EnqueueFold DEF box
<1>4. Size(BoxOf(c)) = Len(pending[c]) + Len(sending[c])
  BY <1>2 DEF Size
<1> QED
  BY <1>1, <1>2, <1>3, <1>4

LEMMA Orders ==
    ASSUME NEW S, IsFiniteSet(S), NEW s \in SetToSeqs(S)
    PROVE  /\ s \in Seq(S) /\ Len(s) = Cardinality(S) /\ Len(s) \in Nat
           /\ \A i, j \in 1..Len(s) : i # j => s[i] # s[j]
<1>1. Cardinality(S) \in Nat
  BY FS_CardinalityType
<1>2. s \in [1..Cardinality(S) -> S] /\ \A i, j \in 1..Cardinality(S) : i # j => s[i] # s[j]
  BY DEF SetToSeqs
<1>3. s \in Seq(S)
  BY <1>1, <1>2, SeqDef
<1>4. Len(s) = Cardinality(S)
  BY <1>1, <1>2, <1>3
<1> QED
  BY <1>1, <1>2, <1>3, <1>4

LEMMA FiniteImage ==
    ASSUME NEW S, IsFiniteSet(S), NEW f
    PROVE  IsFiniteSet({f[x] : x \in S})
<1> DEFINE T == {f[x] : x \in S}
           g == [x \in S |-> f[x]]
<1>1. g \in [S -> T] /\ \A t \in T : \E x \in S : g[x] = t
  OBVIOUS
<1>2. g \in Surjection(S, T)
  BY <1>1 DEF Surjection
<1> HIDE DEF g, T
<1>3. IsFiniteSet(T)
  BY <1>2, FS_Surjection
<1> QED
  BY <1>3 DEF T

LEMMA PathsFinite == IsFiniteSet(Paths)
<1> DEFINE whole == [i \in Ids |-> <<i>>]
           place == [i \in Ids |-> <<i, "position">>]
<1>1. {whole[i] : i \in Ids} = {<<i>> : i \in Ids} /\ {place[i] : i \in Ids} = {<<i, "position">> : i \in Ids}
  OBVIOUS
<1> HIDE DEF whole, place
<1>2. IsFiniteSet({whole[i] : i \in Ids}) /\ IsFiniteSet({place[i] : i \in Ids})
  BY FiniteImage, BoundsAssumption
<1> QED
  BY <1>1, <1>2, FS_Union, BoundsAssumption

LEMMA SnapshotType ==
    ASSUME NEW U, NEW r \in Documents(U), NEW ops \in SnapshotOps(r)
    PROVE  ops \in Seq(Sent(U))
<1> DEFINE seen == {q \in Paths : r[q] # NoRegister /\ Live(r, q) # Deleted}
           there == {r[p] : p \in seen}
<1>1. ops \in SetToSeqs(there)
  BY DEF SnapshotOps
<1>2. IsFiniteSet(seen)
  BY PathsFinite, FS_Subset
<1>3. there \subseteq Sent(U)
  <2> SUFFICES ASSUME NEW p \in seen PROVE r[p] \in Sent(U)
    OBVIOUS
  <2>1. r[p] \in Written(U) /\ r[p].value # Deleted
    BY DocumentsAre DEF Live
  <2> QED
    BY <2>1 DEF Written, Sent, Ops
<1> HIDE DEF seen
<1>4. IsFiniteSet(there)
  BY <1>2, FiniteImage
<1> HIDE DEF there
<1>5. ops \in Seq(there)
  BY <1>1, <1>4, Orders
<1> QED
  BY <1>3, <1>5, SeqMonotonic
----------------------------------------------------------------------------
(***************************************************************************)
(* The types, and what they rest on: whatever is on its way, in an outbox, *)
(* on a screen or in the document is about an object that was added.       *)
(***************************************************************************)
Requests == {"none", "sent", "done", "failed"}
Steps == {"asked", "read", "grouped", "answered", "loaded", "done"}
Messages(U) == [type : {"join", "op"}, ops : Seq(Sent(U))]
Joins(U) == [step : Steps, snapshot : Seq(Sent(U))]

ServerTyped(U) ==
    /\ regs \in Documents(U) /\ log \in Seq(Seq(Sent(U))) /\ members \subseteq Clients
    /\ join \in [Clients -> Joins(U)] /\ net \in [Clients -> Seq(Messages(U))]
    /\ contended \subseteq U /\ disturbed \subseteq Clients

ClientsTyped(U) ==
    /\ app \in Apps
    /\ show \in [Clients -> Screens(U)] /\ baseline \in [Clients -> Screens(U)]
    /\ loading \in [Clients -> SUBSET Images(U)]
    /\ pending \in [Clients -> Seq(Sent(U))] /\ sending \in [Clients -> Seq(Sent(U))]
    /\ request \in [Clients -> Requests]
    /\ clock \in [Clients -> Nat \ {0}]

CountTyped == count \in [edits : Nat, failures : Nat]

\* A batch is in flight exactly while the client is flushing.
Flushing == \A c \in Clients : (sending[c] = <<>>) = (request[c] = "none")

Typed(U) == ServerTyped(U) /\ ClientsTyped(U) /\ CountTyped /\ Flushing

TypeInv == used \subseteq Ids /\ Typed(used)

LEMMA Wider ==
    ASSUME NEW U, NEW V, U \subseteq V
    PROVE  /\ Sent(U) \subseteq Sent(V) /\ Seq(Sent(U)) \subseteq Seq(Sent(V))
           /\ Documents(U) \subseteq Documents(V) /\ Screens(U) \subseteq Screens(V)
           /\ Images(U) \subseteq Images(V)
           /\ Joins(U) \subseteq Joins(V)
           /\ Seq(Seq(Sent(U))) \subseteq Seq(Seq(Sent(V)))
           /\ Seq(Messages(U)) \subseteq Seq(Messages(V))
<1>1. Sent(U) \subseteq Sent(V) /\ Written(U) \subseteq Written(V)
  BY SentIs, WrittenIs
<1>2. Seq(Sent(U)) \subseteq Seq(Sent(V))
  BY <1>1, SeqMonotonic
<1>3. Documents(U) \subseteq Documents(V)
  BY <1>1 DEF Documents
<1>4. Screens(U) \subseteq Screens(V) /\ Images(U) \subseteq Images(V)
  BY DEF Screens, Images
<1>5. Joins(U) \subseteq Joins(V)
  BY <1>2 DEF Joins
<1>6. Messages(U) \subseteq Messages(V)
  BY <1>2 DEF Messages
<1> QED
  BY <1>1, <1>2, <1>3, <1>4, <1>5, <1>6, SeqMonotonic

LEMMA TypedWider ==
    ASSUME NEW U, NEW V, U \subseteq V
    PROVE  /\ ServerTyped(U) => ServerTyped(V)
           /\ ClientsTyped(U) => ClientsTyped(V)
<1>1. ServerTyped(U) => ServerTyped(V)
  BY Wider DEF ServerTyped
<1>2. ClientsTyped(U) => ClientsTyped(V)
  BY Wider DEF ClientsTyped
<1> QED
  BY <1>1, <1>2

LEMMA TypeInit == Init => TypeInv
<1> SUFFICES ASSUME Init PROVE TypeInv
  OBVIOUS
<1>1. \A S : <<>> \in Seq(S)
  OBVIOUS
<1>2. regs \in Documents({}) /\ log \in Seq(Seq(Sent({}))) /\ members \subseteq Clients
  BY <1>1, DocumentsAre, BoundsAssumption DEF Init
<1>3. [i \in Ids |-> <<>>] \in Screens({})
  BY <1>1 DEF Screens
<1>4. show \in [Clients -> Screens({})] /\ baseline \in [Clients -> Screens({})]
  BY <1>3 DEF Init
<1>5. join \in [Clients -> Joins({})] /\ net \in [Clients -> Seq(Messages({}))]
  BY <1>1 DEF Init, Joins, Steps
<1>6. ServerTyped({})
  BY <1>2, <1>5 DEF Init, ServerTyped
<1>7. ClientsTyped({})
  BY <1>1, <1>4 DEF Init, ClientsTyped, Apps, Requests
<1>8. CountTyped /\ Flushing
  BY DEF Init, CountTyped, Flushing
<1>9. used = {}
  BY DEF Init
<1> QED
  BY <1>6, <1>7, <1>8, <1>9 DEF TypeInv, Typed

LEMMA IdsOfType ==
    ASSUME NEW U, NEW batch \in Seq(Sent(U))
    PROVE  IdsOf(batch) \subseteq U /\ \A op \in Range(batch) : op \in Sent(U)
<1>1. \A op \in Range(batch) : op \in Sent(U)
  BY DEF Range
<1> QED
  BY <1>1, SentIs DEF IdsOf

LEMMA ComingType ==
    ASSUME NEW U, ServerTyped(U), NEW c \in Clients
    PROVE  Coming(c) \subseteq U
<1>1. \A m \in Range(net[c]) : m.ops \in Seq(Sent(U))
  <2>1. net[c] \in Seq(Messages(U))
    BY DEF ServerTyped
  <2>2. \A m \in Range(net[c]) : m \in Messages(U)
    BY <2>1 DEF Range
  <2> QED
    BY <2>2 DEF Messages
<1> QED
  BY <1>1, IdsOfType DEF Coming

LEMMA CountType ==
    ASSUME CountTyped, NEW what \in {"edits", "failures"}, Count(what)
    PROVE  /\ CountTyped'
           /\ what = "edits" => count'.edits = count.edits + 1
           /\ what = "failures" => count'.edits = count.edits
BY DEF CountTyped, Count

\* The write that is queued, in what is typed for the objects V.
LEMMA QueuedType ==
    ASSUME NEW V, ClientsTyped(V), Flushing, NEW c \in Clients, NEW ops \in Seq(Sent(V)),
           EnqueueAll(c, ops)
    PROVE  /\ pending' \in [Clients -> Seq(Sent(V))] /\ sending' \in [Clients -> Seq(Sent(V))]
           /\ request' \in [Clients -> Requests]
           /\ Flushing'
<1>1. pending \in [Clients -> Seq(Sent(V))] /\ sending \in [Clients -> Seq(Sent(V))]
      /\ request \in [Clients -> Requests]
  BY DEF ClientsTyped
<1>2. PICK box \in Boxes(V) :
          /\ sending[c] # <<>> => box.sending = sending[c]
          /\ pending' = [pending EXCEPT ![c] = box.pending]
          /\ sending' = [sending EXCEPT ![c] = box.sending]
          /\ request' = [request EXCEPT ![c] = IF @ = "none" /\ box.sending # <<>> THEN "sent" ELSE @]
  BY <1>1, EnqueueAllIs
<1>3. box.pending \in Seq(Sent(V)) /\ box.sending \in Seq(Sent(V))
  BY BoxesAre
<1>4. request' \in [Clients -> Requests]
  BY <1>1, <1>2 DEF Requests
<1>5. Flushing'
  <2> SUFFICES ASSUME NEW d \in Clients PROVE (sending'[d] = <<>>) = (request'[d] = "none")
    BY DEF Flushing
  <2>1. (sending[d] = <<>>) = (request[d] = "none")
    BY DEF Flushing
  <2>2. CASE d # c
    BY <1>1, <1>2, <2>1, <2>2
  <2>3. CASE d = c
    <3>1. sending'[d] = box.sending
          /\ request'[d] = IF request[d] = "none" /\ box.sending # <<>> THEN "sent" ELSE request[d]
      BY <1>1, <1>2, <2>3
    <3> QED
      BY <1>2, <2>1, <2>3, <3>1
  <2> QED
    BY <2>2, <2>3
<1> QED
  BY <1>1, <1>2, <1>3, <1>4, <1>5

\* An edit, except for the images that are being loaded.
LEMMA EditType ==
    ASSUME TypeInv, NEW c \in Clients, NEW id \in Ids, NEW path \in Paths, path[1] = id,
           NEW v \in Values \cup {Deleted}, v = Deleted => Len(path) = 1,
           NEW objs \in Seq(Values), Edit(c, id, path, v, objs),
           loading' \in [Clients -> SUBSET Images(used \cup {id})]
    PROVE  TypeInv'
<1>0. PICK V : V = used \cup {id}
  OBVIOUS
<1>1. used' = V /\ V \subseteq Ids /\ used \subseteq V /\ id \in V
  BY <1>0 DEF Edit, TypeInv
<1>2. ServerTyped(V) /\ ClientsTyped(V) /\ CountTyped /\ Flushing /\ ServerTyped(used)
  BY <1>1, TypedWider DEF TypeInv, Typed
<1>3. CountTyped'
  BY <1>2, CountType DEF Edit
<1>4. show' \in [Clients -> Screens(V)]
  <2>1. show' = [show EXCEPT ![c] = [show[c] EXCEPT ![id] = objs]]
    BY DEF Edit
  <2>2. show \in [Clients -> Screens(V)]
    BY <1>2 DEF ClientsTyped
  <2>3. [show[c] EXCEPT ![id] = objs] \in Screens(V)
    BY <1>1, <2>2, ScreensAre
  <2> QED
    BY <2>1, <2>2, <2>3
<1>5. /\ pending' \in [Clients -> Seq(Sent(V))] /\ sending' \in [Clients -> Seq(Sent(V))]
      /\ request' \in [Clients -> Requests]
      /\ clock' \in [Clients -> Nat \ {0}] /\ Flushing'
  <2>1. CASE UNCHANGED <<outboxVars, clock>>
    BY <1>2, <2>1 DEF outboxVars, ClientsTyped, Flushing
  <2>2. ASSUME NEW now \in clock[c]..MaxClock,
               clock' = [clock EXCEPT ![c] = now], EnqueueAll(c, <<Write(path, v, now, c)>>)
        PROVE  /\ pending' \in [Clients -> Seq(Sent(V))] /\ sending' \in [Clients -> Seq(Sent(V))]
               /\ request' \in [Clients -> Requests]
               /\ clock' \in [Clients -> Nat \ {0}] /\ Flushing'
    <3>1. clock \in [Clients -> Nat \ {0}]
      BY <1>2 DEF ClientsTyped
    <3>2. now \in 1..MaxClock /\ now \in Nat \ {0}
      BY <3>1, BoundsAssumption
    <3>3. Write(path, v, now, c) \in Sent(V)
      <4>1. Write(path, v, now, c) \in Written(V)
        BY <1>1, <3>2, WriteType
      <4> QED
        BY <4>1, WriteIs DEF Sent, Ops, Written
    <3>4. <<Write(path, v, now, c)>> \in Seq(Sent(V))
      BY <3>3
    <3>5. clock' \in [Clients -> Nat \ {0}]
      BY <2>2, <3>1, <3>2
    <3> QED
      BY <1>2, <2>2, <3>4, <3>5, QueuedType
  <2> QED
    BY <2>1, <2>2 DEF Edit
<1>6. contended' \subseteq V /\ disturbed' \subseteq Clients
  BY <1>1, <1>2 DEF Edit, ServerTyped
<1>7. UNCHANGED <<app, regs, log, members, baseline, join, net>>
  BY DEF Edit, serverVars
<1>8. ServerTyped(V)'
  BY <1>2, <1>6, <1>7 DEF ServerTyped
<1>9. ClientsTyped(V)'
  BY <1>0, <1>2, <1>4, <1>5, <1>7 DEF ClientsTyped
<1> QED
  BY <1>1, <1>3, <1>5, <1>8, <1>9 DEF TypeInv, Typed, ServerTyped, ClientsTyped
LEMMA AddObjectType ==
    ASSUME TypeInv, NEW c \in Clients, AddObject(c)
    PROVE  TypeInv'
<1>1. PICK id \in Ids \ used, v \in NewObjects : Edit(c, id, <<id>>, v, <<v>>)
  BY DEF AddObject
<1>2. v \in Values
  BY BoundsAssumption DEF Values
<1>3. <<id>> \in Paths /\ <<id>>[1] = id /\ Len(<<id>>) = 1
  BY PathsAre DEF Whole
<1>4. <<v>> \in Seq(Values)
  BY <1>2
<1>5. loading' \in [Clients -> SUBSET Images(used \cup {id})]
  <2>1. loading' = loading /\ loading \in [Clients -> SUBSET Images(used)]
    BY DEF AddObject, TypeInv, Typed, ClientsTyped
  <2>2. Images(used) \subseteq Images(used \cup {id})
    BY Wider
  <2> QED
    BY <2>1, <2>2
<1> QED
  BY <1>1, <1>2, <1>3, <1>4, <1>5, EditType

LEMMA ChangeObjectType ==
    ASSUME TypeInv, NEW c \in Clients, ChangeObject(c)
    PROVE  TypeInv'
<1>1. PICK id \in Ids, v \in Values :
          Edit(c, id, IF app = "scene" THEN <<id, "position">> ELSE <<id>>, v, [show[c][id] EXCEPT ![1] = v])
  BY DEF ChangeObject, Values
<1> DEFINE path == IF app = "scene" THEN <<id, "position">> ELSE <<id>>
<1>2. path \in Paths /\ path[1] = id
  BY PathsAre DEF Whole, Place
<1>3. show[c] \in Screens(used)
  BY DEF TypeInv, Typed, ClientsTyped
<1>4. [show[c][id] EXCEPT ![1] = v] \in Seq(Values)
  BY <1>3, ScreensAre, Changed
<1>5. loading' \in [Clients -> SUBSET Images(used \cup {id})]
  <2>1. loading' = loading /\ loading \in [Clients -> SUBSET Images(used)]
    BY DEF ChangeObject, TypeInv, Typed, ClientsTyped
  <2>2. Images(used) \subseteq Images(used \cup {id})
    BY Wider
  <2> QED
    BY <2>1, <2>2
<1>6. v # Deleted
  BY OpsAre
<1> HIDE DEF path
<1>7. Edit(c, id, path, v, [show[c][id] EXCEPT ![1] = v])
  BY <1>1 DEF path
<1> QED
  BY <1>2, <1>4, <1>5, <1>6, <1>7, EditType

LEMMA RemoveObjectType ==
    ASSUME TypeInv, NEW c \in Clients, RemoveObject(c)
    PROVE  TypeInv'
<1>1. PICK id \in {i \in Ids : show[c][i] # <<>>} :
          /\ Edit(c, id, <<id>>, Deleted, Tail(show[c][id]))
          /\ loading' = [loading EXCEPT ![c] = Unplaced(@, id)]
  BY DEF RemoveObject
<1>2. <<id>> \in Paths /\ <<id>>[1] = id /\ Len(<<id>>) = 1
  BY PathsAre DEF Whole
<1>3. show[c] \in Screens(used) /\ loading \in [Clients -> SUBSET Images(used)]
  BY DEF TypeInv, Typed, ClientsTyped
<1>4. Tail(show[c][id]) \in Seq(Values)
  BY <1>1, <1>3, ScreensAre, HeadTailProperties
<1>5. loading' \in [Clients -> SUBSET Images(used \cup {id})]
  <2>1. Unplaced(loading[c], id) \in SUBSET Images(used)
    BY <1>3, UnplacedType
  <2>2. Images(used) \subseteq Images(used \cup {id})
    BY Wider
  <2> QED
    BY <1>1, <1>3, <2>1, <2>2
<1> QED
  BY <1>1, <1>2, <1>4, <1>5, EditType

\* What the diagram writes at the end of a transaction.
LEMMA FinishWrites ==
    ASSUME TypeInv, NEW c \in Clients, NEW now \in 1..MaxClock,
           NEW changed, changed = {i \in Ids : show[c][i] # baseline[c][i]},
           NEW W, W = {Write(<<i>>, IF show[c][i] = <<>> THEN Deleted ELSE Head(show[c][i]), now, c) :
                          i \in changed}
    PROVE  /\ W \subseteq Sent(used) /\ IsFiniteSet(W) /\ IsFiniteSet(changed)
           /\ Cardinality(W) <= Cardinality(changed)
           /\ Cardinality(W) \in Nat /\ Cardinality(changed) \in Nat
<1> DEFINE f == [i \in changed |-> Write(<<i>>, IF show[c][i] = <<>> THEN Deleted ELSE Head(show[c][i]), now, c)]
<1>1. \A i \in changed : f[i] \in Sent(used)
  <2> SUFFICES ASSUME NEW i \in changed PROVE f[i] \in Sent(used)
    OBVIOUS
  <2> DEFINE v == IF show[c][i] = <<>> THEN Deleted ELSE Head(show[c][i])
  <2>1. i \in Ids /\ show[c][i] # baseline[c][i]
    OBVIOUS
  <2>2. show[c] \in Screens(used) /\ baseline[c] \in Screens(used)
    BY DEF TypeInv, Typed, ClientsTyped
  <2>3. i \in used
    BY <2>1, <2>2, ScreensAre
  <2>4. v \in Values \cup {Deleted}
    BY <2>1, <2>2, ScreensAre, HeadTailProperties
  <2>5. <<i>> \in Paths /\ <<i>>[1] = i /\ Len(<<i>>) = 1
    BY <2>1, PathsAre DEF Whole
  <2> HIDE DEF v
  <2>6. Write(<<i>>, v, now, c) \in Written(used)
    BY <2>3, <2>4, <2>5, WriteType
  <2>7. Write(<<i>>, v, now, c) \in Sent(used)
    BY <2>5, <2>6, WriteIs DEF Sent, Ops, Written
  <2> QED
    BY <2>7 DEF v
<1>2. W = {f[i] : i \in changed}
  OBVIOUS
<1>3. \A x \in W : \E i \in changed : f[i] = x
  BY <1>2
<1>4. f \in Surjection(changed, W)
  BY <1>2, <1>3 DEF Surjection
<1> HIDE DEF f
<1>5. IsFiniteSet(changed)
  BY BoundsAssumption, FS_Subset
<1>6. IsFiniteSet(W) /\ Cardinality(W) <= Cardinality(changed)
  BY <1>4, <1>5, FS_Surjection
<1> QED
  BY <1>1, <1>2, <1>5, <1>6, FS_CardinalityType

LEMMA FinishType ==
    ASSUME TypeInv, NEW c \in Clients, Finish(c)
    PROVE  TypeInv'
<1> DEFINE changed == {i \in Ids : show[c][i] # baseline[c][i]}
           W(now) == {Write(<<i>>, IF show[c][i] = <<>> THEN Deleted ELSE Head(show[c][i]), now, c) : i \in changed}
<1>1. PICK now \in clock[c]..MaxClock :
          /\ clock' = [clock EXCEPT ![c] = now]
          /\ \E ops \in SetToSeqs(W(now)) : EnqueueAll(c, ops)
  BY DEF Finish
<1>2. clock \in [Clients -> Nat \ {0}] /\ ClientsTyped(used) /\ Flushing
  BY DEF TypeInv, Typed, ClientsTyped
<1>3. now \in 1..MaxClock /\ now \in Nat \ {0}
  BY <1>2, BoundsAssumption
<1>4. PICK ops \in SetToSeqs(W(now)) : EnqueueAll(c, ops)
  BY <1>1
<1>5. W(now) \subseteq Sent(used) /\ IsFiniteSet(W(now))
  BY <1>3, FinishWrites
<1>6. ops \in Seq(Sent(used))
  <2> HIDE DEF W
  <2>1. ops \in Seq(W(now))
    BY <1>5, Orders
  <2> QED
    BY <1>5, <2>1, SeqMonotonic
<1>7. /\ pending' \in [Clients -> Seq(Sent(used))] /\ sending' \in [Clients -> Seq(Sent(used))]
      /\ request' \in [Clients -> Requests]
      /\ Flushing'
  BY <1>2, <1>4, <1>6, QueuedType
<1>8. clock' \in [Clients -> Nat \ {0}]
  BY <1>1, <1>2, <1>3
<1>9. baseline' \in [Clients -> Screens(used)]
  <2>1. baseline' = [baseline EXCEPT ![c] = show[c]]
    BY DEF Finish
  <2> QED
    BY <1>2, <2>1 DEF ClientsTyped
<1>10. UNCHANGED <<app, regs, log, members, show, loading, join, net, used, count, contended, disturbed>>
  BY DEF Finish, serverVars
<1> QED
  BY <1>7, <1>8, <1>9, <1>10 DEF TypeInv, Typed, ServerTyped, ClientsTyped, CountTyped

LEMMA LoadedType ==
    ASSUME TypeInv, NEW c \in Clients, Loaded(c)
    PROVE  TypeInv'
<1>1. PICK x \in loading[c] :
        /\ loading' = [loading EXCEPT ![c] = @ \ {x}]
        /\ show' = [show EXCEPT ![c] = [show[c] EXCEPT ![x.id] =
                       IF app = "canvas" \/ x.late THEN Append(@, x.value)
                       ELSE [@ EXCEPT ![1] = x.value]]]
  BY DEF Loaded
<1>2. show \in [Clients -> Screens(used)] /\ loading \in [Clients -> SUBSET Images(used)] /\ Flushing
  BY DEF TypeInv, Typed, ClientsTyped
<1>3. x.id \in Ids /\ x.id \in used /\ x.value \in Values
  BY <1>2 DEF Images
<1> DEFINE objs == IF app = "canvas" \/ x.late THEN Append(show[c][x.id], x.value)
                   ELSE [show[c][x.id] EXCEPT ![1] = x.value]
<1>4. objs \in Seq(Values)
  BY <1>2, <1>3, ScreensAre, Changed
<1>5. show' = [show EXCEPT ![c] = [show[c] EXCEPT ![x.id] = objs]]
  BY <1>1, <1>2, <1>3 DEF Screens
<1> HIDE DEF objs
<1>6. show' \in [Clients -> Screens(used)]
  <2>1. [show[c] EXCEPT ![x.id] = objs] \in Screens(used)
    BY <1>2, <1>3, <1>4, ScreensAre
  <2> QED
    BY <1>2, <1>5, <2>1
<1>7. loading' \in [Clients -> SUBSET Images(used)]
  BY <1>1, <1>2
<1>8. UNCHANGED <<app, regs, log, members, baseline, pending, sending, request, join, net, clock, used,
                  count, contended, disturbed>>
  BY DEF Loaded, serverVars, outboxVars
<1> QED
  BY <1>2, <1>6, <1>7, <1>8 DEF TypeInv, Typed, ServerTyped, ClientsTyped, CountTyped, Flushing

LEMMA JoinStepType ==
    ASSUME TypeInv, NEW c \in Clients, NEW from \in Steps, NEW to \in Steps, JoinStep(c, from, to)
    PROVE  join' \in [Clients -> Joins(used)] /\ join[c].snapshot \in Seq(Sent(used))
<1>1. join \in [Clients -> Joins(used)] /\ regs \in Documents(used)
  BY DEF TypeInv, Typed, ServerTyped
<1>2. PICK ops \in (IF from = "asked" THEN SnapshotOps(regs) ELSE {join[c].snapshot}) :
          join' = [join EXCEPT ![c] = [[join[c] EXCEPT !.step = to] EXCEPT !.snapshot = ops]]
  <2>1. \A ops : [join EXCEPT ![c].step = to, ![c].snapshot = ops]
                 = [join EXCEPT ![c] = [[join[c] EXCEPT !.step = to] EXCEPT !.snapshot = ops]]
    BY <1>1
  <2> QED
    BY <2>1 DEF JoinStep
<1>3. join[c] \in Joins(used) /\ join[c].snapshot \in Seq(Sent(used))
  BY <1>1 DEF Joins
<1>4. ops \in Seq(Sent(used))
  BY <1>1, <1>2, <1>3, SnapshotType
<1>5. [[join[c] EXCEPT !.step = to] EXCEPT !.snapshot = ops] \in Joins(used)
  BY <1>3, <1>4 DEF Joins
<1> QED
  BY <1>1, <1>2, <1>3, <1>5

LEMMA JoiningType ==
    ASSUME TypeInv, NEW c \in Clients, ReadDocument(c) \/ AddToGroup(c) \/ AnswerJoin(c)
    PROVE  TypeInv'
<1>0. Flushing /\ {"asked", "read", "grouped", "answered"} \subseteq Steps
  BY DEF TypeInv, Typed, Steps
<1>1. CASE ReadDocument(c)
  <2>1. join' \in [Clients -> Joins(used)]
    BY <1>0, <1>1, JoinStepType DEF ReadDocument
  <2> QED
    BY <1>0, <1>1, <2>1 DEF ReadDocument, TypeInv, Typed, ServerTyped, ClientsTyped, CountTyped, Flushing,
                  serverVars, editorVars, outboxVars
<1>2. CASE AddToGroup(c)
  <2>1. join' \in [Clients -> Joins(used)]
    BY <1>0, <1>2, JoinStepType DEF AddToGroup
  <2> QED
    BY <1>0, <1>2, <2>1 DEF AddToGroup, TypeInv, Typed, ServerTyped, ClientsTyped, CountTyped, Flushing,
                  editorVars, outboxVars
<1>3. CASE AnswerJoin(c)
  <2>1. join' \in [Clients -> Joins(used)] /\ join[c].snapshot \in Seq(Sent(used))
    BY <1>0, <1>3, JoinStepType DEF AnswerJoin
  <2>2. [type |-> "join", ops |-> join[c].snapshot] \in Messages(used)
    BY <2>1 DEF Messages
  <2>3. net' \in [Clients -> Seq(Messages(used))]
    BY <1>3, <2>2, AppendProperties DEF AnswerJoin, TypeInv, Typed, ServerTyped
  <2> QED
    BY <1>0, <1>3, <2>1, <2>3 DEF AnswerJoin, TypeInv, Typed, ServerTyped, ClientsTyped, CountTyped, Flushing,
                  serverVars, editorVars, outboxVars
<1> QED
  BY <1>1, <1>2, <1>3
\* What SendOp does once it has committed the batch of c, whether it succeeds or not.
Committing(c) == Commit(c) \/ FailAfterCommit(c)

LEMMA CommittingIs ==
    ASSUME TypeInv, NEW c \in Clients, Committing(c)
    PROVE  /\ \E told \in SUBSET (members \ {c}) :
                  CommitBatch(c, told) /\ members \ ({c} \cup told) \subseteq disturbed'
           /\ \E to \in {"done", "failed"} :
                  /\ request' = [request EXCEPT ![c] = to]
                  /\ c \in disturbed' \/ to = "done"
           /\ disturbed \cup Missing(c) \subseteq disturbed' /\ disturbed' \subseteq Clients
           /\ CountTyped' /\ count'.edits = count.edits /\ c \notin Missing(c)
<1>1. CountTyped /\ members \subseteq Clients /\ disturbed \subseteq Clients
      /\ Missing(c) \subseteq Clients /\ c \notin Missing(c)
  BY DEF TypeInv, Typed, ServerTyped, Missing
<1>2. CASE Commit(c)
  BY <1>1, <1>2 DEF Commit, CountTyped
<1>3. CASE FailAfterCommit(c)
  <2>1. PICK told \in {{}, members \ {c}} :
            /\ CommitBatch(c, told)
            /\ disturbed' = disturbed \cup {c} \cup (members \ told) \cup Missing(c)
    BY <1>3 DEF FailAfterCommit
  <2>2. CountTyped' /\ count'.edits = count.edits
    BY <1>1, <1>3, CountType DEF FailAfterCommit, Count, CountTyped
  <2>3. \E to \in {"done", "failed"} : request' = [request EXCEPT ![c] = to]
    BY <1>3 DEF FailAfterCommit
  <2>4. c \in disturbed' /\ disturbed \cup Missing(c) \subseteq disturbed' /\ disturbed' \subseteq Clients
    BY <1>1, <2>1
  <2>5. told \in SUBSET (members \ {c}) /\ members \ ({c} \cup told) \subseteq disturbed'
    BY <2>1
  <2> QED
    BY <1>1, <2>1, <2>2, <2>3, <2>4, <2>5
<1> QED
  BY <1>2, <1>3 DEF Committing

LEMMA CommitType ==
    ASSUME TypeInv, NEW c \in Clients, Committing(c)
    PROVE  TypeInv'
<1>0. PICK told \in SUBSET (members \ {c}) : CommitBatch(c, told)
  BY CommittingIs
<1>1. /\ regs \in Documents(used) /\ log \in Seq(Seq(Sent(used))) /\ net \in [Clients -> Seq(Messages(used))]
      /\ sending \in [Clients -> Seq(Sent(used))] /\ contended \subseteq used /\ disturbed \subseteq Clients
      /\ request \in [Clients -> Requests] /\ Flushing
  BY DEF TypeInv, Typed, ServerTyped, ClientsTyped
<1>2. regs' \in Documents(used)
  BY <1>1, ApplyType, SentIs, SeqMonotonic, <1>0 DEF CommitBatch
<1>3. log' \in Seq(Seq(Sent(used)))
  BY <1>0, <1>1, AppendProperties DEF CommitBatch
<1>4. net' \in [Clients -> Seq(Messages(used))]
  <2>1. [type |-> "op", ops |-> sending[c]] \in Messages(used)
    BY <1>1 DEF Messages
  <2>2. \A d \in Clients : Append(net[d], [type |-> "op", ops |-> sending[c]]) \in Seq(Messages(used))
    BY <1>1, <2>1, AppendProperties
  <2> QED
    BY <1>0, <1>1, <2>2 DEF CommitBatch
<1>5. contended' \subseteq used
  <2>1. IdsOf(sending[c]) \subseteq used /\ \A op \in Range(sending[c]) : op \in Sent(used)
    BY <1>1, IdsOfType
  <2>2. \A op \in Range(sending[c]) : IdOf(op) \in used
    BY <2>1, SentIs
  <2> QED
    BY <1>0, <1>1, <2>1, <2>2 DEF CommitBatch
<1>6. disturbed' \subseteq Clients /\ CountTyped'
  BY CommittingIs
<1>7. request' \in [Clients -> Requests] /\ Flushing'
  <2>1. request[c] = "sent" /\ sending' = sending
    BY <1>0 DEF CommitBatch
  <2>3. PICK to \in {"done", "failed"} : request' = [request EXCEPT ![c] = to]
    BY CommittingIs
  <2>2. request' \in [Clients -> Requests]
    BY <1>1, <2>3 DEF Requests
  <2> QED
    BY <1>1, <2>1, <2>2, <2>3 DEF Flushing
<1>8. UNCHANGED <<app, members, show, loading, baseline, pending, sending, join, clock, used>>
  BY <1>0 DEF CommitBatch, editorVars
<1> QED
  BY <1>2, <1>3, <1>4, <1>5, <1>6, <1>7, <1>8 DEF TypeInv, Typed, ServerTyped, ClientsTyped

LEMMA RefuseType ==
    ASSUME TypeInv, NEW c \in Clients, Refuse(c)
    PROVE  TypeInv'
<1>1. CountTyped'
  BY CountType DEF TypeInv, Typed, Refuse
<1>2. request' \in [Clients -> Requests] /\ Flushing'
  <2>1. request[c] = "sent" /\ sending' = sending /\ request \in [Clients -> Requests] /\ Flushing
    BY DEF Refuse, TypeInv, Typed, ClientsTyped
  <2>2. PICK to \in {"done", "failed"} : request' = [request EXCEPT ![c] = to]
    BY DEF Refuse
  <2>3. request' \in [Clients -> Requests]
    BY <2>1, <2>2 DEF Requests
  <2> QED
    BY <2>1, <2>2, <2>3 DEF Flushing
<1>3. UNCHANGED <<app, regs, log, members, show, loading, baseline, pending, sending, join, net, clock, used, contended>>
  BY DEF Refuse, serverVars, editorVars
<1>4. disturbed' = disturbed \cup {c}
  BY DEF Refuse
<1> QED
  BY <1>1, <1>2, <1>3, <1>4 DEF TypeInv, Typed, ServerTyped, ClientsTyped

LEMMA AnsweredType ==
    ASSUME TypeInv, NEW c \in Clients, Answered(c)
    PROVE  TypeInv'
<1>1. pending \in [Clients -> Seq(Sent(used))] /\ sending \in [Clients -> Seq(Sent(used))]
      /\ request \in [Clients -> Requests] /\ Flushing
  BY DEF TypeInv, Typed, ClientsTyped
<1>2. /\ pending' \in [Clients -> Seq(Sent(used))] /\ sending' \in [Clients -> Seq(Sent(used))]
      /\ request' \in [Clients -> Requests] /\ Flushing'
  <2>1. CASE request[c] = "done" /\ pending[c] # <<>>
    <3>1. /\ sending' = [sending EXCEPT ![c] = pending[c]]
          /\ pending' = [pending EXCEPT ![c] = <<>>]
          /\ request' = [request EXCEPT ![c] = "sent"]
      BY <2>1 DEF Answered
    <3>2. Flushing'
      BY <1>1, <2>1, <3>1 DEF Flushing
    <3> QED
      BY <1>1, <3>1, <3>2 DEF Requests
  <2>2. CASE ~(request[c] = "done" /\ pending[c] # <<>>)
    <3>1. /\ sending' = [sending EXCEPT ![c] = <<>>]
          /\ request' = [request EXCEPT ![c] = "none"]
          /\ UNCHANGED pending
      BY <2>2 DEF Answered
    <3>2. Flushing'
      BY <1>1, <3>1 DEF Flushing
    <3> QED
      BY <1>1, <3>1, <3>2 DEF Requests
  <2> QED
    BY <2>1, <2>2
<1>3. UNCHANGED <<app, regs, log, members, show, loading, baseline, join, net, clock, used, count, contended, disturbed>>
  BY DEF Answered, serverVars, editorVars
<1> QED
  BY <1>2, <1>3 DEF TypeInv, Typed, ServerTyped, ClientsTyped, CountTyped

\* A message that arrives.
LEMMA HeadType ==
    ASSUME TypeInv, NEW c \in Clients, net[c] # <<>>
    PROVE  /\ Head(net[c]) \in Messages(used) /\ Head(net[c]).ops \in Seq(Sent(used))
           /\ Tail(net[c]) \in Seq(Messages(used))
<1>1. net[c] \in Seq(Messages(used))
  BY DEF TypeInv, Typed, ServerTyped
<1>2. Head(net[c]) \in Messages(used) /\ Tail(net[c]) \in Seq(Messages(used))
  BY <1>1, HeadTailProperties
<1> QED
  BY <1>2 DEF Messages

LEMMA ReceivedType ==
    ASSUME TypeInv, NEW c \in Clients, NEW batch \in Seq(Sent(used)), Received(c, batch)
    PROVE  /\ show' \in [Clients -> Screens(used)] /\ baseline' \in [Clients -> Screens(used)]
           /\ loading' \in [Clients -> SUBSET Images(used)]
           /\ ApplyOps(c, batch) \in Editors(used)
           /\ show' = [show EXCEPT ![c] = ApplyOps(c, batch).show]
           /\ loading' = [loading EXCEPT ![c] = ApplyOps(c, batch).loading]
           /\ baseline' = [baseline EXCEPT ![c] = IF app = "diagram" THEN ApplyOps(c, batch).show ELSE @]
<1> DEFINE ed == ApplyOps(c, batch)
<1>1. /\ show \in [Clients -> Screens(used)] /\ baseline \in [Clients -> Screens(used)]
      /\ loading \in [Clients -> SUBSET Images(used)] /\ app \in Apps
  BY DEF TypeInv, Typed, ClientsTyped
<1>2. EditorOf(c) \in Editors(used)
  BY <1>1, EditorIs DEF EditorOf
<1>3. ed \in Editors(used)
  BY <1>1, <1>2, ApplyOpsType
<1>4. /\ show' = [show EXCEPT ![c] = ed.show]
      /\ loading' = [loading EXCEPT ![c] = ed.loading]
      /\ baseline' = [baseline EXCEPT ![c] = IF app = "diagram" THEN ed.show ELSE @]
  BY DEF Received
<1>5. ed.show \in Screens(used) /\ ed.loading \in SUBSET Images(used)
  BY <1>3, EditorsAre
<1> HIDE DEF ed
<1>6. /\ show' \in [Clients -> Screens(used)] /\ baseline' \in [Clients -> Screens(used)]
      /\ loading' \in [Clients -> SUBSET Images(used)]
  BY <1>1, <1>4, <1>5
<1> QED
  BY <1>3, <1>4, <1>6 DEF ed

LEMMA ReceiveType ==
    ASSUME TypeInv, NEW c \in Clients, Receive(c)
    PROVE  TypeInv'
<1> DEFINE m == Head(net[c])
<1>1. /\ Received(c, m.ops)
      /\ net' = [net EXCEPT ![c] = Tail(@)]
      /\ \E to \in {"loaded", "done"} : join' \in {[join EXCEPT ![c].step = to], join}
      /\ contended' = contended \cup (IdsOf(m.ops) \cap Unsent(c))
      /\ disturbed' \subseteq disturbed \cup {c}
      /\ net[c] # <<>>
  BY DEF Receive
<1>2. m.ops \in Seq(Sent(used)) /\ Tail(net[c]) \in Seq(Messages(used))
  BY <1>1, HeadType
<1> HIDE DEF m
<1>3. /\ show' \in [Clients -> Screens(used)] /\ baseline' \in [Clients -> Screens(used)]
      /\ loading' \in [Clients -> SUBSET Images(used)]
  BY <1>1, <1>2, ReceivedType
<1>4. net \in [Clients -> Seq(Messages(used))] /\ join \in [Clients -> Joins(used)]
      /\ contended \subseteq used /\ disturbed \subseteq Clients /\ Flushing
  BY DEF TypeInv, Typed, ServerTyped
<1>5. net' \in [Clients -> Seq(Messages(used))]
  BY <1>1, <1>2, <1>4
<1>6. join' \in [Clients -> Joins(used)]
  BY <1>1, <1>4 DEF Joins, Steps
<1>7. contended' \subseteq used
  BY <1>1, <1>2, <1>4, IdsOfType
<1>8. UNCHANGED <<app, regs, log, members, pending, sending, request, clock, used, count>>
  BY DEF Receive, serverVars, outboxVars
<1>9. disturbed' \subseteq Clients
  BY <1>1, <1>4
<1> QED
  BY <1>3, <1>4, <1>5, <1>6, <1>7, <1>8, <1>9
     DEF TypeInv, Typed, ServerTyped, ClientsTyped, CountTyped, Flushing

LEMMA InstallType ==
    ASSUME TypeInv, NEW c \in Clients, Install(c)
    PROVE  TypeInv'
<1>1. /\ join \in [Clients -> Joins(used)] /\ disturbed \subseteq Clients /\ Flushing
      /\ show \in [Clients -> Screens(used)] /\ baseline \in [Clients -> Screens(used)]
  BY DEF TypeInv, Typed, ServerTyped, ClientsTyped
<1>2. join' \in [Clients -> Joins(used)]
  BY <1>1 DEF Install, Joins, Steps
<1>3. baseline' \in [Clients -> Screens(used)] /\ disturbed' \subseteq Clients
  BY <1>1 DEF Install
<1>4. UNCHANGED <<app, regs, log, members, net, show, loading, pending, sending, request, clock,
                  used, count, contended>>
  BY DEF Install, serverVars, outboxVars
<1> QED
  BY <1>1, <1>2, <1>3, <1>4 DEF TypeInv, Typed, ServerTyped, ClientsTyped, CountTyped, Flushing

LEMMA ReconnectType ==
    ASSUME TypeInv, NEW c \in Clients, Reconnect(c)
    PROVE  TypeInv'
<1>1. CountTyped'
  BY CountType DEF TypeInv, Typed, Reconnect
<1>2. request' \in [Clients -> Requests] /\ Flushing'
  <2>1. request' = [request EXCEPT ![c] = IF @ = "none" THEN @ ELSE "failed"] /\ sending' = sending
        /\ request \in [Clients -> Requests] /\ Flushing
    BY DEF Reconnect, TypeInv, Typed, ClientsTyped
  <2>2. request' \in [Clients -> Requests]
    BY <2>1 DEF Requests
  <2> QED
    BY <2>1, <2>2 DEF Flushing
<1>3. UNCHANGED <<app, regs, log, show, loading, baseline, pending, sending, join, clock, used, contended>>
  BY DEF Reconnect, editorVars
<1>4. disturbed' = disturbed \cup {c} /\ members' = members \ {c} /\ net' = [net EXCEPT ![c] = <<>>]
  BY DEF Reconnect
<1>5. net' \in [Clients -> Seq(Messages(used))]
  BY <1>4 DEF TypeInv, Typed, ServerTyped
<1> QED
  BY <1>1, <1>2, <1>3, <1>4, <1>5 DEF TypeInv, Typed, ServerTyped, ClientsTyped

LEMMA TypeStep == TypeInv /\ [Next]_vars => TypeInv'
<1> SUFFICES ASSUME TypeInv, [Next]_vars PROVE TypeInv'
  OBVIOUS
<1>1. ASSUME NEW c \in Clients, AddObject(c) \/ ChangeObject(c) \/ RemoveObject(c) PROVE TypeInv'
  BY <1>1, AddObjectType, ChangeObjectType, RemoveObjectType
<1>2. ASSUME NEW c \in Clients, Refuse(c) \/ FailAfterCommit(c) \/ Reconnect(c) PROVE TypeInv'
  BY <1>2, RefuseType, CommitType, ReconnectType DEF Committing
<1>3. ASSUME NEW c \in Clients, Work(c) PROVE TypeInv'
  BY <1>3, JoiningType, CommitType, AnsweredType, ReceiveType, InstallType, LoadedType, FinishType
     DEF Work, Committing
<1>4. CASE UNCHANGED vars
  BY <1>4 DEF vars, serverVars, editorVars, outboxVars, TypeInv, Typed, ServerTyped, ClientsTyped,
              CountTyped, Flushing
<1> QED
  BY <1>1, <1>2, <1>3, <1>4 DEF Next

LEMMA TypeIsOK == TypeInv => TypeOK
<1> SUFFICES ASSUME TypeInv PROVE TypeOK
  OBVIOUS
<1>1. Sent(used) \subseteq Ops /\ Written(used) \subseteq Records
  BY SentIs, WrittenIs
<1>2. \A p \in Paths : regs[p] \in Records \cup {NoRegister}
  BY <1>1 DEF TypeInv, Typed, ServerTyped, Documents
<1>3. ASSUME NEW c \in Clients
      PROVE  /\ \A i \in Ids : Range(show[c][i]) \subseteq Values
             /\ Range(pending[c]) \cup Range(sending[c]) \subseteq Ops
             /\ request[c] \in {"none", "sent", "done", "failed"}
             /\ (sending[c] = <<>>) = (request[c] = "none")
             /\ \A m \in Range(net[c]) : Range(m.ops) \subseteq Ops
  <2>1. /\ show[c] \in Screens(used) /\ pending[c] \in Seq(Sent(used)) /\ sending[c] \in Seq(Sent(used))
        /\ request[c] \in Requests /\ net[c] \in Seq(Messages(used)) /\ Flushing
    BY DEF TypeInv, Typed, ServerTyped, ClientsTyped
  <2>2. \A i \in Ids : show[c][i] \in Seq(Values)
    BY <2>1, ScreensAre
  <2>3. \A i \in Ids : Range(show[c][i]) \subseteq Values
    BY <2>2 DEF Range
  <2>4. Range(pending[c]) \cup Range(sending[c]) \subseteq Ops
    BY <1>1, <2>1, IdsOfType
  <2>5. \A m \in Range(net[c]) : m.ops \in Seq(Sent(used))
    <3>1. \A m \in Range(net[c]) : m \in Messages(used)
      BY <2>1 DEF Range
    <3> QED
      BY <3>1 DEF Messages
  <2> QED
    BY <1>1, <2>1, <2>3, <2>4, <2>5, IdsOfType DEF Requests, Flushing
<1>4. contended \subseteq used /\ members \subseteq Clients /\ disturbed \subseteq Clients
  BY DEF TypeInv, Typed, ServerTyped
<1> QED
  BY <1>2, <1>3, <1>4 DEF TypeOK

\* Registers, screens, outboxes and messages have their types, an object that was
\* written was added, and a batch is in flight exactly while a client is flushing:
\* _flush resets its flag in every case.
THEOREM TypeCorrect == Spec => []TypeOK
BY TypeInit, TypeStep, TypeIsOK, PTL DEF Spec
----------------------------------------------------------------------------
(***************************************************************************)
(* Nothing is echoed.  What a client owes the server is what is in its     *)
(* outbox and, of the diagram, what differs from the baseline; together    *)
(* with the log it never exceeds the edits.                                *)
(***************************************************************************)
Batches == Seq(Ops)
Lengths == [b \in Batches |-> Len(b)]
People == SetToSeq(Clients)

Unwritten(c) == {i \in Ids : show[c][i] # baseline[c][i]}
Debt(c) == Len(Outbox(c)) + (IF app = "diagram" THEN Cardinality(Unwritten(c)) ELSE 0)
Debts == [c \in Clients |-> Debt(c)]

\* The diagram loads no images.
NoImages == app = "diagram" => \A c \in Clients : loading[c] = {}

EchoInv ==
    /\ NoImages
    /\ Amount(log) + Total(Clients, Debts, People) <= count.edits

LEMMA LengthsAre ==
    /\ Lengths \in [Batches -> Nat] /\ \A b \in Batches : Lengths[b] = Len(b) /\ Len(b) \in Nat
    /\ \A batches : Amount(batches) = Total(Batches, Lengths, batches)
<1>1. \A b \in Batches : Len(b) \in Nat
  BY LenProperties DEF Batches
<1>2. Lengths \in [Batches -> Nat] /\ \A b \in Batches : Lengths[b] = Len(b)
  BY <1>1 DEF Lengths
<1>3. \A b \in Batches : Lengths[b] = Len(b) /\ Len(b) \in Nat
  BY <1>1, <1>2
<1>4. ASSUME NEW batches PROVE Amount(batches) = Total(Batches, Lengths, batches)
  <2>1. Amount(batches) = FoldFn(counted, 0, batches)
    BY DEF Amount, FoldLeft, MapThenFoldSet, FoldFn
  <2>2. counted = Weighed(Batches, Lengths)
    <3>1. \A p \in Nat \X Batches : p[2] \in Batches
      OBVIOUS
    <3>2. \A p \in Nat \X Batches : p[1] + Len(p[2]) = p[1] + Lengths[p[2]]
      BY <1>2, <3>1
    <3>3. counted = [p \in Nat \X Batches |-> p[1] + Len(p[2])]
      BY DEF counted, Batches
    <3> QED
      BY <3>2, <3>3 DEF Weighed
  <2> QED
    BY <2>1, <2>2 DEF Total
<1> QED
  BY <1>2, <1>3, <1>4

LEMMA PeopleAre ==
    /\ People \in Seq(Clients) /\ Len(People) \in Nat
    /\ \A i, j \in 1..Len(People) : People[i] = People[j] => i = j
    /\ \A c \in Clients : \E j \in 1..Len(People) : People[j] = c
<1> DEFINE n == Cardinality(Clients)
<1>1. IsFiniteSet(Clients)
  BY BoundsAssumption
<1>2. n \in Nat /\ ExistsBijection(1..n, Clients)
  BY <1>1, FS_CardinalityType
<1>3. \E f \in [1..n -> Clients] : IsInjective(f)
  BY <1>2 DEF ExistsBijection, Bijection, Injection
<1>4. People \in [1..n -> Clients] /\ IsInjective(People)
  BY <1>3 DEF People, SetToSeq
<1>5. People \in Seq(Clients) /\ Len(People) = n
  BY <1>2, <1>4, SeqDef
<1>6. \A i, j \in 1..n : People[i] = People[j] => i = j
  BY <1>4 DEF IsInjective
<1> DEFINE T == {People[i] : i \in 1..n}
<1>7. T \subseteq Clients
  BY <1>4
<1>8. People \in [1..n -> T] /\ \A x \in T : \E i \in 1..n : People[i] = x
  BY <1>4
<1>9. People \in Surjection(1..n, T) /\ People \in Injection(1..n, T)
  BY <1>4, <1>8 DEF Surjection, Injection
<1>10. IsFiniteSet(1..n) /\ Cardinality(1..n) = n
  BY <1>2, FS_Interval
<1> HIDE DEF n, T
<1>11. Cardinality(T) = n
  BY <1>9, <1>10, FS_Surjection
<1>12. T = Clients
  BY <1>1, <1>7, <1>11, FS_Subset DEF n
<1> QED
  BY <1>2, <1>5, <1>6, <1>8, <1>12

LEMMA OutboxType ==
    ASSUME TypeInv, NEW c \in Clients
    PROVE  /\ Outbox(c) \in Batches /\ Len(Outbox(c)) \in Nat
           /\ Cardinality(Unwritten(c)) \in Nat
           /\ Debt(c) \in Nat /\ Len(Outbox(c)) <= Debt(c)
           /\ Len(pending[c]) \in Nat /\ Len(sending[c]) \in Nat
           /\ request[c] = "sent" => Len(Outbox(c)) = Len(sending[c]) + Len(pending[c])
           /\ request[c] # "sent" => Len(Outbox(c)) = Len(pending[c])
<1>1. Sent(used) \subseteq Ops
  BY SentIs
<1>2. pending[c] \in Seq(Ops) /\ sending[c] \in Seq(Ops)
  <2>1. pending[c] \in Seq(Sent(used)) /\ sending[c] \in Seq(Sent(used))
    BY DEF TypeInv, Typed, ClientsTyped
  <2> QED
    BY <1>1, <2>1, SeqMonotonic
<1>3. /\ sending[c] \o pending[c] \in Seq(Ops)
      /\ Len(sending[c] \o pending[c]) = Len(sending[c]) + Len(pending[c])
  BY <1>2, ConcatProperties
<1>4. Outbox(c) \in Batches /\ Len(Outbox(c)) \in Nat /\ Len(pending[c]) \in Nat /\ Len(sending[c]) \in Nat
  BY <1>2, <1>3, LenProperties DEF Outbox, Batches
<1>5. Cardinality(Unwritten(c)) \in Nat
  <2>1. IsFiniteSet(Unwritten(c))
    BY BoundsAssumption, FS_Subset DEF Unwritten
  <2> QED
    BY <2>1, FS_CardinalityType
<1>6. Debt(c) \in Nat /\ Len(Outbox(c)) <= Debt(c)
  <2> DEFINE m == Len(Outbox(c))
             k == Cardinality(Unwritten(c))
  <2>1. m \in Nat /\ k \in Nat
    BY <1>4, <1>5
  <2>2. Debt(c) = m + k \/ Debt(c) = m + 0
    BY DEF Debt
  <2> HIDE DEF m, k
  <2>3. Debt(c) \in Nat /\ m <= Debt(c)
    BY <2>1, <2>2
  <2> QED
    BY <2>3 DEF m
<1>7. request[c] = "sent" => Len(Outbox(c)) = Len(sending[c]) + Len(pending[c])
  BY <1>3 DEF Outbox
<1>8. request[c] # "sent" => Len(Outbox(c)) = Len(pending[c])
  BY DEF Outbox
<1> QED
  BY <1>4, <1>5, <1>6, <1>7, <1>8

LEMMA LogType ==
    ASSUME TypeInv
    PROVE  /\ log \in Seq(Batches) /\ Amount(log) \in Nat
           /\ Debts \in [Clients -> Nat] /\ Total(Clients, Debts, People) \in Nat
           /\ count.edits \in Nat
<1>1. log \in Seq(Batches)
  <2>1. Seq(Sent(used)) \subseteq Batches
    BY SentIs, SeqMonotonic DEF Batches
  <2>2. log \in Seq(Seq(Sent(used)))
    BY DEF TypeInv, Typed, ServerTyped
  <2> QED
    BY <2>1, <2>2, SeqMonotonic
<1>2. Amount(log) \in Nat
  BY <1>1, LengthsAre, TotalFirst
<1>3. Debts \in [Clients -> Nat]
  BY OutboxType DEF Debts
<1>4. Total(Clients, Debts, People) \in Nat
  BY <1>3, PeopleAre, TotalFirst
<1> QED
  BY <1>1, <1>2, <1>3, <1>4 DEF TypeInv, Typed, CountTyped

LEMMA EchoIsNothing == TypeInv /\ EchoInv => NothingEchoed
<1> SUFFICES ASSUME TypeInv, EchoInv PROVE NothingEchoed
  OBVIOUS
<1> DEFINE boxes == [i \in DOMAIN People |-> Outbox(People[i])]
<1>1. DOMAIN People = 1..Len(People) /\ \A i \in 1..Len(People) : People[i] \in Clients
  BY PeopleAre
<1>2. \A i \in 1..Len(People) : Outbox(People[i]) \in Batches
  BY <1>1, OutboxType
<1>3. boxes \in Seq(Batches) /\ Len(boxes) = Len(People)
  <2>1. boxes \in [1..Len(People) -> Batches]
    BY <1>1, <1>2
  <2> QED
    BY <2>1, PeopleAre, SeqDef
<1>4. \A i \in 1..Len(People) : Lengths[boxes[i]] <= Debts[People[i]]
  BY <1>1, OutboxType, LengthsAre DEF Debts
<1> HIDE DEF boxes
<1>5. Total(Batches, Lengths, boxes) <= Total(Clients, Debts, People)
  <2>1. Len(People) + 1 \in Nat \ {0} /\ Len(People) + 1 > Len(People) /\ ~(Len(People) + 1 <= Len(People))
    BY PeopleAre
  <2>2. Debts \in [Clients -> Nat] /\ Lengths \in [Batches -> Nat] /\ People \in Seq(Clients) /\ 0 \in Nat
    BY LogType, LengthsAre, PeopleAre
  <2> QED
    BY <1>3, <1>4, <2>1, <2>2, TotalCompared
<1>6. Amount(boxes) = Total(Batches, Lengths, boxes) /\ Amount(boxes) \in Nat
  BY <1>3, LengthsAre, TotalFirst
<1>7. Amount(log) + Amount(boxes) <= count.edits
  BY <1>5, <1>6, LogType DEF EchoInv
<1> QED
  BY <1>7 DEF NothingEchoed, boxes, People
LEMMA EchoInit == Init => EchoInv
<1> SUFFICES ASSUME Init PROVE EchoInv
  OBVIOUS
<1>1. NoImages
  BY DEF Init, NoImages
<1>2. TypeInv
  BY TypeInit
<1>3. ASSUME NEW c \in Clients PROVE Debt(c) = 0
  <2>1. Outbox(c) = <<>>
    BY DEF Init, Outbox
  <2>2. Unwritten(c) = {}
    BY DEF Init, Unwritten
  <2>3. Len(Outbox(c)) = 0 /\ Cardinality(Unwritten(c)) = 0
    BY <2>1, <2>2, FS_EmptySet
  <2> QED
    BY <2>3 DEF Debt
<1>4. \A i \in 1..Len(People) : Debts[People[i]] = 0
  BY <1>3, PeopleAre DEF Debts
<1>5. Total(Clients, Debts, People) = 0
  BY <1>2, <1>4, LogType, PeopleAre, TotalNone
<1>6. Amount(log) = 0
  <2>1. log = <<>>
    BY DEF Init
  <2> QED
    BY <2>1, LengthsAre, TotalFirst
<1>7. count.edits = 0
  BY DEF Init
<1> QED
  BY <1>1, <1>5, <1>6, <1>7 DEF EchoInv

\* A step of c that commits a operations and is b edits.
LEMMA EchoMoved ==
    ASSUME TypeInv, EchoInv, TypeInv', NoImages', NEW c \in Clients, NEW a \in Nat, NEW b \in Nat,
           \A d \in Clients : d # c => Debt(d)' = Debt(d),
           Debt(c)' + a <= Debt(c) + b,
           Amount(log') = Amount(log) + a, count'.edits = count.edits + b
    PROVE  EchoInv'
<1>1. /\ Debts \in [Clients -> Nat] /\ Total(Clients, Debts, People) \in Nat /\ Amount(log) \in Nat
      /\ count.edits \in Nat
  BY LogType
<1>2. /\ Debts' \in [Clients -> Nat] /\ Total(Clients, Debts', People) \in Nat
  <2>1. (TypeInv => Debts \in [Clients -> Nat] /\ Total(Clients, Debts, People) \in Nat)'
    BY LogType, PTL
  <2> QED
    BY <2>1
<1>3. PICK j \in 1..Len(People) : People[j] = c
  BY PeopleAre
<1>4. People \in Seq(Clients) /\ j \in Nat \ {0} /\ j <= Len(People) /\ Len(People) \in Nat
  BY <1>3, PeopleAre
<1>5. \A i \in 1..Len(People) : i # j => Debts'[People[i]] <= Debts[People[i]]
  <2> SUFFICES ASSUME NEW i \in 1..Len(People), i # j PROVE Debts'[People[i]] <= Debts[People[i]]
    OBVIOUS
  <2>1. People[i] \in Clients /\ People[i] # c
    <3>1. People[i] = People[j] => i = j
      BY <1>3, PeopleAre
    <3>2. People[i] \in Clients
      BY PeopleAre
    <3> QED
      BY <1>3, <3>1, <3>2
  <2>2. Debts'[People[i]] = Debts[People[i]] /\ Debts[People[i]] \in Nat
    BY <1>1, <2>1 DEF Debts
  <2> QED
    BY <2>2
<1>6. Debts'[People[j]] + a <= Debts[People[j]] + b
  BY <1>3 DEF Debts
<1>7. Total(Clients, Debts', People) + a <= Total(Clients, Debts, People) + b
  BY <1>1, <1>2, <1>4, <1>5, <1>6, TotalCompared
<1>8. Amount(log) + Total(Clients, Debts, People) <= count.edits
  BY DEF EchoInv
<1> DEFINE x == Total(Clients, Debts, People)
           y == Total(Clients, Debts', People)
           m == Amount(log)
           n == count.edits
<1>9. x \in Nat /\ y \in Nat /\ m \in Nat /\ n \in Nat /\ y + a <= x + b /\ m + x <= n
  BY <1>1, <1>2, <1>7, <1>8
<1>10. Amount(log') = m + a /\ count'.edits = n + b
  OBVIOUS
<1>11. m + a + y <= n + b
  <2> HIDE DEF x, y, m, n
  <2> QED
    BY <1>9
<1>12. Amount(log') + Total(Clients, Debts', People) <= count'.edits
  BY <1>10, <1>11
<1> QED
  BY <1>12 DEF EchoInv

LEMMA DebtStays ==
    ASSUME NEW d \in Clients, app' = app, show'[d] = show[d], baseline'[d] = baseline[d],
           pending'[d] = pending[d], sending'[d] = sending[d], request'[d] = request[d]
    PROVE  Debt(d)' = Debt(d)
BY DEF Debt, Outbox, Unwritten

\* Queueing adds no more to the outbox than what is queued.
LEMMA QueuedMore ==
    ASSUME TypeInv, NEW V, used \subseteq V, NEW c \in Clients, NEW ops \in Seq(Sent(V)), EnqueueAll(c, ops)
    PROVE  /\ Len(Outbox(c)') <= Len(Outbox(c)) + Len(ops) /\ Len(Outbox(c)') \in Nat
           /\ \A d \in Clients : d # c => /\ pending'[d] = pending[d] /\ sending'[d] = sending[d]
                                          /\ request'[d] = request[d]
<1>1. ClientsTyped(V) /\ Flushing
  BY TypedWider DEF TypeInv, Typed
<1>2. /\ pending \in [Clients -> Seq(Sent(V))] /\ sending \in [Clients -> Seq(Sent(V))]
      /\ request \in [Clients -> Requests]
  BY <1>1 DEF ClientsTyped
<1>3. PICK box \in Boxes(V) :
          /\ Size(box) <= Len(pending[c]) + Len(sending[c]) + Len(ops)
          /\ sending[c] # <<>> => box.sending = sending[c]
          /\ pending' = [pending EXCEPT ![c] = box.pending]
          /\ sending' = [sending EXCEPT ![c] = box.sending]
          /\ request' = [request EXCEPT ![c] = IF @ = "none" /\ box.sending # <<>> THEN "sent" ELSE @]
  BY <1>2, EnqueueAllIs
<1>4. /\ pending'[c] = box.pending /\ sending'[c] = box.sending
      /\ request'[c] = IF request[c] = "none" /\ box.sending # <<>> THEN "sent" ELSE request[c]
  BY <1>2, <1>3
<1>5. box.pending \in Seq(Sent(V)) /\ box.sending \in Seq(Sent(V))
  BY BoxesAre
<1> DEFINE bp == Len(box.pending)
           bs == Len(box.sending)
           p == Len(pending[c])
           s == Len(sending[c])
           k == Len(ops)
           new == Len(Outbox(c)')
           old == Len(Outbox(c))
<1>6. bp \in Nat /\ bs \in Nat /\ p \in Nat /\ s \in Nat /\ k \in Nat /\ old \in Nat
  BY <1>2, <1>5, OutboxType, LenProperties
<1>7. bp + bs <= p + s + k
  BY <1>3 DEF Size
<1>8. (request'[c] = "sent" => new = bs + bp) /\ (request'[c] # "sent" => new = bp)
  <2>1. Outbox(c)' = IF request'[c] = "sent" THEN box.sending \o box.pending ELSE box.pending
    BY <1>4 DEF Outbox
  <2>2. Len(box.sending \o box.pending) = bs + bp
    BY <1>5, ConcatProperties
  <2> QED
    BY <2>1, <2>2
<1>9. (request[c] = "sent" => old = s + p) /\ (request[c] # "sent" => old = p)
  BY OutboxType
<1>10. sending[c] = <<>> => s = 0
  OBVIOUS
<1>11. sending[c] # <<>> => bs = s /\ request'[c] = request[c]
  <2>1. sending[c] # <<>> => request[c] # "none"
    BY <1>1 DEF Flushing
  <2> QED
    BY <1>3, <1>4, <2>1
<1>12. sending[c] = <<>> => request[c] # "sent"
  BY <1>1 DEF Flushing
<1> HIDE DEF bp, bs, p, s, k, new, old
<1>13. new <= old + k /\ new \in Nat
  <2>1. CASE sending[c] = <<>>
    <3>1. old = p /\ s = 0
      BY <1>9, <1>10, <1>12, <2>1
    <3>2. new <= bs + bp /\ new \in Nat
      BY <1>6, <1>8
    <3> QED
      BY <1>6, <1>7, <3>1, <3>2
  <2>2. CASE sending[c] # <<>>
    <3>1. bs = s /\ request'[c] = request[c]
      BY <1>11, <2>2
    <3> QED
      BY <1>6, <1>7, <1>8, <1>9, <3>1
  <2> QED
    BY <2>1, <2>2
<1>14. \A d \in Clients : d # c => /\ pending'[d] = pending[d] /\ sending'[d] = sending[d]
                                   /\ request'[d] = request[d]
  BY <1>2, <1>3
<1> QED
  BY <1>13, <1>14 DEF new, old, k
LEMMA FewerUnwritten ==
    ASSUME NEW S \in SUBSET Ids, NEW T \in SUBSET Ids, NEW id, T \subseteq S \cup {id}
    PROVE  Cardinality(T) <= Cardinality(S) + 1 /\ Cardinality(T) \in Nat /\ Cardinality(S) \in Nat
<1>1. IsFiniteSet(S) /\ IsFiniteSet(T)
  BY BoundsAssumption, FS_Subset
<1>2. /\ IsFiniteSet(S \cup {id})
      /\ Cardinality(S \cup {id}) = IF id \in S THEN Cardinality(S) ELSE Cardinality(S) + 1
  BY <1>1, FS_AddElement
<1>3. Cardinality(T) <= Cardinality(S \cup {id})
  BY <1>2, FS_Subset
<1>4. Cardinality(T) \in Nat /\ Cardinality(S) \in Nat
  BY <1>1, FS_CardinalityType
<1> QED
  BY <1>2, <1>3, <1>4

LEMMA EditEcho ==
    ASSUME TypeInv, EchoInv, TypeInv', NoImages', NEW c \in Clients, NEW id \in Ids, NEW path \in Paths,
           path[1] = id, NEW v \in Values \cup {Deleted}, v = Deleted => Len(path) = 1,
           NEW objs, Edit(c, id, path, v, objs)
    PROVE  EchoInv'
<1>0. PICK V : V = used \cup {id}
  OBVIOUS
<1>1. show \in [Clients -> Screens(used)] /\ clock \in [Clients -> Nat \ {0}]
  BY DEF TypeInv, Typed, ClientsTyped
<1>2. /\ show' = [show EXCEPT ![c][id] = objs] /\ app' = app /\ baseline' = baseline /\ log' = log
      /\ count'.edits = count.edits + 1
  BY CountType DEF Edit, serverVars, TypeInv, Typed
<1>3. /\ Len(Outbox(c)') \in Nat /\ Len(Outbox(c)') <= Len(Outbox(c)) + 1
      /\ app = "diagram" => Outbox(c)' = Outbox(c)
      /\ \A d \in Clients : d # c => /\ pending'[d] = pending[d] /\ sending'[d] = sending[d]
                                     /\ request'[d] = request[d]
  <2>1. CASE UNCHANGED <<outboxVars, clock>>
    <3>1. Outbox(c)' = Outbox(c)
      BY <2>1 DEF outboxVars, Outbox
    <3>2. Len(Outbox(c)) \in Nat
      BY OutboxType
    <3> QED
      BY <2>1, <3>1, <3>2 DEF outboxVars
  <2>2. ASSUME app # "diagram", NEW now \in clock[c]..MaxClock, EnqueueAll(c, <<Write(path, v, now, c)>>)
        PROVE  /\ Len(Outbox(c)') \in Nat /\ Len(Outbox(c)') <= Len(Outbox(c)) + 1
               /\ \A d \in Clients : d # c => /\ pending'[d] = pending[d] /\ sending'[d] = sending[d]
                                              /\ request'[d] = request[d]
    <3>1. now \in 1..MaxClock
      BY <1>1, BoundsAssumption
    <3>2. Write(path, v, now, c) \in Written(V)
      BY <1>0, <3>1, WriteType
    <3>3. Write(path, v, now, c) \in Sent(V)
      BY <3>2, WriteIs DEF Sent, Ops, Written
    <3>4. <<Write(path, v, now, c)>> \in Seq(Sent(V)) /\ Len(<<Write(path, v, now, c)>>) = 1
      BY <3>3
    <3>5. used \subseteq V
      BY <1>0
    <3> QED
      BY <2>2, <3>4, <3>5, QueuedMore
  <2> QED
    BY <2>1, <2>2 DEF Edit
<1>4. Unwritten(c)' \in SUBSET Ids /\ Unwritten(c) \in SUBSET Ids /\ Unwritten(c)' \subseteq Unwritten(c) \cup {id}
  BY <1>1, <1>2 DEF Unwritten, Screens
<1>5. Cardinality(Unwritten(c)') <= Cardinality(Unwritten(c)) + 1
      /\ Cardinality(Unwritten(c)') \in Nat /\ Cardinality(Unwritten(c)) \in Nat
  BY <1>4, FewerUnwritten
<1>6. \A d \in Clients : d # c => Debt(d)' = Debt(d)
  <2> SUFFICES ASSUME NEW d \in Clients, d # c PROVE Debt(d)' = Debt(d)
    OBVIOUS
  <2>1. show'[d] = show[d] /\ baseline'[d] = baseline[d]
    BY <1>1, <1>2
  <2> QED
    BY <1>2, <1>3, <2>1, DebtStays
<1>7. Debt(c)' + 0 <= Debt(c) + 1
  <2>1. Len(Outbox(c)) \in Nat
    BY OutboxType
  <2> DEFINE m == Len(Outbox(c))
             n == Len(Outbox(c)')
             x == Cardinality(Unwritten(c))
             y == Cardinality(Unwritten(c)')
  <2>2. Debt(c) = m + (IF app = "diagram" THEN x ELSE 0) /\ Debt(c)' = n + (IF app = "diagram" THEN y ELSE 0)
    BY <1>2 DEF Debt
  <2>3. m \in Nat /\ n \in Nat /\ n <= m + 1 /\ x \in Nat /\ y \in Nat /\ y <= x + 1
        /\ (app = "diagram" => n = m)
    BY <1>3, <1>5, <2>1
  <2> HIDE DEF m, n, x, y
  <2> QED
    BY <2>2, <2>3
<1>8. Amount(log') = Amount(log) + 0
  BY <1>2, LogType
<1> QED
  BY <1>2, <1>6, <1>7, <1>8, EchoMoved

\* The diagram keeps to having no images.
LEMMA NoImagesNext == TypeInv /\ NoImages /\ Next => NoImages'
<1> SUFFICES ASSUME TypeInv, NoImages, Next, app' = "diagram" PROVE \A c \in Clients : loading'[c] = {}
  BY DEF NoImages
<1>1. PICK c \in Clients :
        \/ AddObject(c) \/ ChangeObject(c) \/ RemoveObject(c)
        \/ Refuse(c) \/ FailAfterCommit(c) \/ Reconnect(c) \/ Work(c)
  BY DEF Next
<1>2. app' = app
  BY <1>1 DEF AddObject, ChangeObject, RemoveObject, Edit, Refuse, FailAfterCommit, Reconnect, Work, ReadDocument,
              AddToGroup, AnswerJoin, CommitBatch, Commit, Answered, Receive, Install, Loaded, Finish
<1>3. app = "diagram" /\ loading \in [Clients -> SUBSET Images(used)] /\ \A d \in Clients : loading[d] = {}
  BY <1>2 DEF NoImages, TypeInv, Typed, ClientsTyped
<1>4. CASE RemoveObject(c)
  BY <1>3, <1>4 DEF RemoveObject, Unplaced
<1>5. CASE Loaded(c)
  BY <1>3, <1>5 DEF Loaded
<1>6. CASE Receive(c)
  <2> DEFINE batch == Head(net[c]).ops
  <2>1. batch \in Seq(Sent(used)) /\ Received(c, batch)
    BY <1>6, HeadType DEF Receive
  <2> HIDE DEF batch
  <2>2. loading' = [loading EXCEPT ![c] = ApplyOps(c, batch).loading]
    BY <2>1, ReceivedType
  <2>3. ApplyOps(c, batch).loading = {}
    <3> DEFINE B == {ed \in Editor : ed.loading = {}}
    <3>1. app \in Apps /\ EditorOf(c) \in Editors(used) /\ Editors(used) \subseteq Editor /\ Sent(used) \subseteq Ops
      BY EditorIs, AllIds, SentIs DEF EditorOf, TypeInv, Typed, ClientsTyped
    <3>2. Foldable(Editor, Ops, Shown, EditorOf(c), batch)
      BY <2>1, <3>1, ShownIs, SeqMonotonic DEF Foldable
    <3>3. EditorOf(c) \in B /\ B \in SUBSET Editor
      BY <1>3, <3>1 DEF EditorOf
    <3>4. ASSUME NEW ed \in B, NEW op \in Ops PROVE Shown[<<ed, op>>] \in B
      <4>1. Shown[<<ed, op>>] = ApplyOp(ed, op) /\ Shown[<<ed, op>>] \in Editor
        BY <3>1, ShownIs
      <4>2. ApplyOp(ed, op) = ApplyCard(ed, IdOf(op), op.value)
        BY <1>3 DEF ApplyOp
      <4>3. ApplyCard(ed, IdOf(op), op.value).loading = ed.loading
        <5>1. ed = [show |-> ed.show, loading |-> ed.loading]
          BY DEF Editor
        <5>2. \A objs : Showing(ed, IdOf(op), objs).loading = ed.loading
          BY <5>1 DEF Showing
        <5> QED
          BY <5>2 DEF ApplyCard
      <4> QED
        BY <4>1, <4>2, <4>3
    <3> HIDE DEF B
    <3>5. FoldFn(Shown, EditorOf(c), batch) \in B
      BY <3>2, <3>3, <3>4, FoldWithin
    <3> QED
      BY <3>5, ApplyOpsIs DEF B
  <2> QED
    BY <1>3, <2>2, <2>3
<1>7. CASE ~RemoveObject(c) /\ ~Loaded(c) /\ ~Receive(c)
  <2>1. loading' = loading
    BY <1>1, <1>7 DEF AddObject, ChangeObject, Refuse, FailAfterCommit, Reconnect, Work, ReadDocument,
              AddToGroup, AnswerJoin, CommitBatch, Commit, Answered, Install, Finish, editorVars
  <2> QED
    BY <1>3, <2>1
<1> QED
  BY <1>4, <1>5, <1>6, <1>7
LEMMA FinishEcho ==
    ASSUME TypeInv, EchoInv, TypeInv', NoImages', NEW c \in Clients, Finish(c)
    PROVE  EchoInv'
<1> DEFINE changed == Unwritten(c)
           W(now) == {Write(<<i>>, IF show[c][i] = <<>> THEN Deleted ELSE Head(show[c][i]), now, c) : i \in changed}
<1>1. PICK now \in clock[c]..MaxClock : \E ops \in SetToSeqs(W(now)) : EnqueueAll(c, ops)
  BY DEF Finish, Unwritten
<1>2. /\ show \in [Clients -> Screens(used)] /\ baseline \in [Clients -> Screens(used)]
      /\ clock \in [Clients -> Nat \ {0}]
  BY DEF TypeInv, Typed, ClientsTyped
<1>3. now \in 1..MaxClock
  BY <1>2, BoundsAssumption
<1>4. PICK ops \in SetToSeqs(W(now)) : EnqueueAll(c, ops)
  BY <1>1
<1>5. /\ W(now) \subseteq Sent(used) /\ IsFiniteSet(W(now))
      /\ Cardinality(W(now)) <= Cardinality(changed)
      /\ Cardinality(W(now)) \in Nat /\ Cardinality(changed) \in Nat
  BY <1>3, FinishWrites DEF Unwritten
<1>6. ops \in Seq(Sent(used)) /\ Len(ops) <= Cardinality(changed) /\ Len(ops) \in Nat
  <2> HIDE DEF W, changed
  <2>1. ops \in Seq(W(now)) /\ Len(ops) = Cardinality(W(now))
    BY <1>5, Orders
  <2> QED
    BY <1>5, <2>1, SeqMonotonic
<1>7. /\ Len(Outbox(c)') <= Len(Outbox(c)) + Len(ops) /\ Len(Outbox(c)') \in Nat
      /\ \A d \in Clients : d # c => /\ pending'[d] = pending[d] /\ sending'[d] = sending[d]
                                     /\ request'[d] = request[d]
  BY <1>4, <1>6, QueuedMore
<1>8. /\ baseline' = [baseline EXCEPT ![c] = show[c]] /\ show' = show /\ app' = app /\ app = "diagram"
      /\ log' = log /\ count' = count
  BY DEF Finish, serverVars
<1>9. \A d \in Clients : d # c => Debt(d)' = Debt(d)
  BY <1>2, <1>7, <1>8, DebtStays
<1>10. Debt(c)' + 0 <= Debt(c) + 0
  <2>1. Unwritten(c)' = {}
    BY <1>2, <1>8 DEF Unwritten
  <2>2. Cardinality(Unwritten(c)') = 0
    BY <2>1, FS_EmptySet
  <2>3. Debt(c) = Len(Outbox(c)) + Cardinality(changed) /\ Debt(c)' = Len(Outbox(c)') + 0
    BY <1>8, <2>2 DEF Debt
  <2>4. Len(Outbox(c)) \in Nat
    BY OutboxType
  <2> DEFINE m == Len(Outbox(c))
             n == Len(Outbox(c)')
             k == Len(ops)
             x == Cardinality(changed)
  <2>5. Debt(c) = m + x /\ Debt(c)' = n /\ m \in Nat /\ n \in Nat /\ k \in Nat /\ x \in Nat /\ n <= m + k /\ k <= x
    BY <1>5, <1>6, <1>7, <2>3, <2>4
  <2> HIDE DEF m, n, k, x
  <2> QED
    BY <2>5
<1>11. Amount(log') = Amount(log) + 0 /\ count'.edits = count.edits + 0
  BY <1>8, LogType
<1> QED
  BY <1>9, <1>10, <1>11, EchoMoved

LEMMA CommitEcho ==
    ASSUME TypeInv, EchoInv, TypeInv', NoImages', NEW c \in Clients, Committing(c)
    PROVE  EchoInv'
<1>0. PICK told \in SUBSET (members \ {c}) : CommitBatch(c, told)
  BY CommittingIs
<1>1. /\ request[c] = "sent" /\ log' = Append(log, sending[c])
      /\ \E to \in {"done", "failed"} : request' = [request EXCEPT ![c] = to]
      /\ UNCHANGED <<app, show, baseline, pending, sending>> /\ count'.edits = count.edits
  BY <1>0, CommittingIs DEF CommitBatch, editorVars
<1>2. request \in [Clients -> Requests] /\ sending[c] \in Batches
  <2>1. sending[c] \in Seq(Sent(used)) /\ request \in [Clients -> Requests]
    BY DEF TypeInv, Typed, ClientsTyped
  <2>2. Seq(Sent(used)) \subseteq Batches
    BY SentIs, SeqMonotonic DEF Batches
  <2> QED
    BY <2>1, <2>2
<1>3. \A d \in Clients : d # c => Debt(d)' = Debt(d)
  BY <1>1, <1>2, DebtStays
<1>4. Debt(c)' + Len(sending[c]) <= Debt(c) + 0
  <2> DEFINE m == Len(Outbox(c))
             n == Len(Outbox(c)')
             k == Len(sending[c])
             x == IF app = "diagram" THEN Cardinality(Unwritten(c)) ELSE 0
  <2>1. m \in Nat /\ k \in Nat /\ x \in Nat
    BY OutboxType
  <2>2. n = Len(pending[c]) /\ m = k + Len(pending[c]) /\ Len(pending[c]) \in Nat
    <3>1. Outbox(c)' = pending[c]
      BY <1>1, <1>2 DEF Outbox
    <3> QED
      BY <1>1, <3>1, OutboxType
  <2>3. Debt(c) = m + x /\ Debt(c)' = n + x
    <3>1. Unwritten(c)' = Unwritten(c)
      BY <1>1 DEF Unwritten
    <3> QED
      BY <1>1, <3>1 DEF Debt
  <2> DEFINE p == Len(pending[c])
  <2>4. n = p /\ m = k + p /\ p \in Nat
    BY <2>2
  <2> HIDE DEF m, n, k, x, p
  <2>5. Debt(c)' + k <= Debt(c) + 0
    BY <2>1, <2>3, <2>4
  <2> QED
    BY <2>5 DEF k
<1>5. Amount(log') = Amount(log) + Len(sending[c]) /\ Len(sending[c]) \in Nat
  <2>1. log \in Seq(Batches) /\ Lengths \in [Batches -> Nat] /\ Lengths[sending[c]] = Len(sending[c])
    BY <1>2, LogType, LengthsAre
  <2>2. Total(Batches, Lengths, Append(log, sending[c])) = Total(Batches, Lengths, log) + Lengths[sending[c]]
    BY <1>2, <2>1, TotalFirst
  <2> QED
    BY <1>1, <1>2, <2>1, <2>2, LengthsAre
<1>6. count'.edits = count.edits + 0
  BY <1>1, LogType
<1> QED
  BY <1>3, <1>4, <1>5, <1>6, EchoMoved

\* A step that changes nothing but the outbox of c, or what its diagram compares, and
\* leaves it no fuller.
LEMMA QuietEcho ==
    ASSUME TypeInv, EchoInv, TypeInv', NoImages', NEW c \in Clients,
           app' = app, log' = log, count'.edits = count.edits,
           \A d \in Clients : d # c => /\ pending'[d] = pending[d] /\ sending'[d] = sending[d]
                                       /\ request'[d] = request[d]
                                       /\ show'[d] = show[d] /\ baseline'[d] = baseline[d],
           Len(Outbox(c)') <= Len(Outbox(c)),
           app = "diagram" => Unwritten(c)' \subseteq Unwritten(c)
    PROVE  EchoInv'
<1>1. \A d \in Clients : d # c => Debt(d)' = Debt(d)
  BY DebtStays
<1>2. Len(Outbox(c)) \in Nat /\ Len(Outbox(c)') \in Nat
  <2>1. (TypeInv => Len(Outbox(c)) \in Nat)'
    BY OutboxType, PTL
  <2> QED
    BY <2>1, OutboxType
<1> DEFINE m == Len(Outbox(c))
           n == Len(Outbox(c)')
           x == IF app = "diagram" THEN Cardinality(Unwritten(c)) ELSE 0
           y == IF app = "diagram" THEN Cardinality(Unwritten(c)') ELSE 0
<1>3. x \in Nat /\ y \in Nat /\ y <= x
  <2>1. CASE app = "diagram"
    <3>1. Unwritten(c) \in SUBSET Ids /\ Unwritten(c)' \subseteq Unwritten(c)
      BY <2>1 DEF Unwritten
    <3>2. IsFiniteSet(Unwritten(c)) /\ IsFiniteSet(Unwritten(c)')
      BY <3>1, BoundsAssumption, FS_Subset
    <3>3. Cardinality(Unwritten(c)') <= Cardinality(Unwritten(c))
      BY <3>1, <3>2, FS_Subset
    <3> QED
      BY <2>1, <3>2, <3>3, FS_CardinalityType
  <2> QED
    BY <2>1
<1>4. Debt(c) = m + x /\ Debt(c)' = n + y
  BY DEF Debt
<1>5. n <= m /\ m \in Nat /\ n \in Nat
  BY <1>2
<1>6. Debt(c)' + 0 <= Debt(c) + 0
  <2> HIDE DEF m, n, x, y
  <2> QED
    BY <1>3, <1>4, <1>5
<1>7. Amount(log') = Amount(log) + 0 /\ count'.edits = count.edits + 0
  BY LogType
<1> QED
  BY <1>1, <1>6, <1>7, EchoMoved

LEMMA QuietSteps ==
    ASSUME TypeInv, EchoInv, TypeInv', NoImages', NEW c \in Clients,
           ReadDocument(c) \/ AddToGroup(c) \/ AnswerJoin(c) \/ Answered(c) \/ Receive(c) \/ Install(c)
              \/ Loaded(c) \/ Refuse(c) \/ Reconnect(c)
    PROVE  EchoInv'
<1>1. /\ show \in [Clients -> Screens(used)] /\ baseline \in [Clients -> Screens(used)]
      /\ pending \in [Clients -> Seq(Sent(used))] /\ sending \in [Clients -> Seq(Sent(used))]
      /\ request \in [Clients -> Requests] /\ Flushing /\ CountTyped
  BY DEF TypeInv, Typed, ClientsTyped
<1>2. Len(Outbox(c)) \in Nat /\ Len(pending[c]) \in Nat /\ Len(sending[c]) \in Nat
      /\ (request[c] = "sent" => Len(Outbox(c)) = Len(sending[c]) + Len(pending[c]))
      /\ (request[c] # "sent" => Len(Outbox(c)) = Len(pending[c]))
  BY OutboxType
<1>3. Len(pending[c]) <= Len(Outbox(c))
  <2> DEFINE m == Len(Outbox(c))
             p == Len(pending[c])
             s == Len(sending[c])
  <2>1. p \in Nat /\ s \in Nat /\ (m = s + p \/ m = p)
    BY <1>2
  <2> HIDE DEF m, p, s
  <2>2. p <= m
    BY <2>1
  <2> QED
    BY <2>2 DEF m, p
<1>4. CASE ReadDocument(c) \/ AddToGroup(c) \/ AnswerJoin(c)
  <2>1. UNCHANGED <<app, log, count, show, baseline, pending, sending, request>>
    BY <1>4 DEF ReadDocument, AddToGroup, AnswerJoin, serverVars, editorVars, outboxVars
  <2>2. Outbox(c)' = Outbox(c) /\ Unwritten(c)' = Unwritten(c)
    BY <2>1 DEF Outbox, Unwritten
  <2> QED
    BY <1>2, <2>1, <2>2, QuietEcho
<1>5. CASE Answered(c)
  <2>1. UNCHANGED <<app, log, count, show, baseline>>
    BY <1>5 DEF Answered, serverVars, editorVars
  <2>2. /\ request[c] \in {"done", "failed"}
        /\ IF request[c] = "done" /\ pending[c] # <<>>
           THEN /\ sending' = [sending EXCEPT ![c] = pending[c]]
                /\ pending' = [pending EXCEPT ![c] = <<>>]
                /\ request' = [request EXCEPT ![c] = "sent"]
           ELSE /\ sending' = [sending EXCEPT ![c] = <<>>]
                /\ request' = [request EXCEPT ![c] = "none"]
                /\ UNCHANGED pending
    BY <1>5 DEF Answered
  <2>3. \A d \in Clients : d # c => /\ pending'[d] = pending[d] /\ sending'[d] = sending[d]
                                    /\ request'[d] = request[d]
    BY <1>1, <2>2
  <2>4. Outbox(c)' = Outbox(c)
    <3>1. pending[c] \o <<>> = pending[c] /\ Outbox(c) = pending[c]
      BY <1>1, <2>2, ConcatEmptySeq DEF Outbox
    <3>2. CASE request[c] = "done" /\ pending[c] # <<>>
      BY <1>1, <2>2, <3>1, <3>2 DEF Outbox
    <3>3. CASE ~(request[c] = "done" /\ pending[c] # <<>>)
      BY <1>1, <2>2, <3>1, <3>3 DEF Outbox
    <3> QED
      BY <3>2, <3>3
  <2>5. Unwritten(c)' = Unwritten(c)
    BY <2>1 DEF Unwritten
  <2> QED
    BY <1>2, <2>1, <2>3, <2>4, <2>5, QuietEcho
<1>6. CASE Receive(c)
  <2> DEFINE batch == Head(net[c]).ops
  <2>1. batch \in Seq(Sent(used)) /\ Received(c, batch)
    BY <1>6, HeadType DEF Receive
  <2>2. UNCHANGED <<app, log, count, pending, sending, request>>
    BY <1>6 DEF Receive, serverVars, outboxVars
  <2> HIDE DEF batch
  <2>3. /\ show' = [show EXCEPT ![c] = ApplyOps(c, batch).show]
        /\ baseline' = [baseline EXCEPT ![c] = IF app = "diagram" THEN ApplyOps(c, batch).show ELSE @]
    BY <2>1, ReceivedType
  <2>4. app = "diagram" => Unwritten(c)' = {}
    BY <1>1, <2>3 DEF Unwritten
  <2>5. Outbox(c)' = Outbox(c)
    BY <2>2 DEF Outbox
  <2>6. \A d \in Clients : d # c => show'[d] = show[d] /\ baseline'[d] = baseline[d]
    BY <1>1, <2>3
  <2> QED
    BY <1>2, <2>2, <2>4, <2>5, <2>6, QuietEcho
<1>7. CASE Loaded(c)
  <2>1. UNCHANGED <<app, log, count, baseline, pending, sending, request>>
    BY <1>7 DEF Loaded, serverVars, outboxVars
  <2>2. app # "diagram"
    BY <1>7 DEF Loaded, EchoInv, NoImages
  <2>3. \A d \in Clients : d # c => show'[d] = show[d]
    <3>1. PICK x : show' = [show EXCEPT ![c] = x]
      BY <1>7 DEF Loaded
    <3> QED
      BY <1>1, <3>1
  <2>4. Outbox(c)' = Outbox(c)
    BY <2>1 DEF Outbox
  <2> QED
    BY <1>2, <2>1, <2>2, <2>3, <2>4, QuietEcho
<1>8. CASE Refuse(c)
  <2>1. /\ UNCHANGED <<app, log, show, baseline, pending, sending>>
        /\ \E to \in {"done", "failed"} : request' = [request EXCEPT ![c] = to]
        /\ count'.edits = count.edits
    BY <1>1, <1>8, CountType DEF Refuse, serverVars, editorVars
  <2>2. Outbox(c)' = pending[c] /\ Unwritten(c)' = Unwritten(c)
    BY <1>1, <2>1 DEF Outbox, Unwritten
  <2> QED
    BY <1>1, <1>3, <2>1, <2>2, QuietEcho
<1>9. CASE Reconnect(c)
  <2>1. /\ UNCHANGED <<app, log, show, baseline, pending, sending>>
        /\ request' = [request EXCEPT ![c] = IF @ = "none" THEN @ ELSE "failed"]
        /\ count'.edits = count.edits
    BY <1>1, <1>9, CountType DEF Reconnect, editorVars
  <2>2. Outbox(c)' = pending[c] /\ Unwritten(c)' = Unwritten(c)
    BY <1>1, <2>1 DEF Outbox, Unwritten
  <2> QED
    BY <1>1, <1>3, <2>1, <2>2, QuietEcho
<1>10. CASE Install(c)
  <2>1. /\ UNCHANGED <<app, log, count, show, pending, sending, request>>
        /\ baseline' = [baseline EXCEPT ![c] = IF app = "diagram" THEN show[c] ELSE @]
    BY <1>10 DEF Install, serverVars, outboxVars
  <2>2. Outbox(c)' = Outbox(c) /\ (app = "diagram" => Unwritten(c)' = {})
    BY <1>1, <2>1 DEF Outbox, Unwritten
  <2>3. \A d \in Clients : d # c => baseline'[d] = baseline[d]
    BY <1>1, <2>1
  <2> QED
    BY <1>2, <2>1, <2>2, <2>3, QuietEcho
<1> QED
  BY <1>4, <1>5, <1>6, <1>7, <1>8, <1>9, <1>10

LEMMA EditsEcho ==
    ASSUME TypeInv, EchoInv, TypeInv', NoImages', NEW c \in Clients,
           AddObject(c) \/ ChangeObject(c) \/ RemoveObject(c)
    PROVE  EchoInv'
<1>1. CASE AddObject(c)
  <2>1. PICK id \in Ids \ used, v \in NewObjects : Edit(c, id, <<id>>, v, <<v>>)
    BY <1>1 DEF AddObject
  <2>2. <<id>> \in Paths /\ <<id>>[1] = id /\ Len(<<id>>) = 1 /\ v \in Values
    BY PathsAre, BoundsAssumption DEF Whole, Values
  <2> QED
    BY <2>1, <2>2, EditEcho
<1>2. CASE ChangeObject(c)
  <2>1. PICK id \in Ids, v \in Values :
          Edit(c, id, IF app = "scene" THEN <<id, "position">> ELSE <<id>>, v, [show[c][id] EXCEPT ![1] = v])
    BY <1>2 DEF ChangeObject, Values
  <2> DEFINE path == IF app = "scene" THEN <<id, "position">> ELSE <<id>>
  <2>2. path \in Paths /\ path[1] = id /\ v # Deleted
    BY PathsAre, OpsAre DEF Whole, Place
  <2> HIDE DEF path
  <2>3. Edit(c, id, path, v, [show[c][id] EXCEPT ![1] = v])
    BY <2>1 DEF path
  <2> QED
    BY <2>2, <2>3, EditEcho
<1>3. CASE RemoveObject(c)
  <2>1. PICK id \in Ids : Edit(c, id, <<id>>, Deleted, Tail(show[c][id]))
    BY <1>3 DEF RemoveObject
  <2>2. <<id>> \in Paths /\ <<id>>[1] = id /\ Len(<<id>>) = 1
    BY PathsAre DEF Whole
  <2> QED
    BY <2>1, <2>2, EditEcho
<1> QED
  BY <1>1, <1>2, <1>3

LEMMA EchoStep == TypeInv /\ EchoInv /\ TypeInv' /\ [Next]_vars => EchoInv'
<1> SUFFICES ASSUME TypeInv, EchoInv, TypeInv', [Next]_vars PROVE EchoInv'
  OBVIOUS
<1>1. CASE Next
  <2>1. NoImages'
    BY <1>1, NoImagesNext DEF EchoInv
  <2>2. PICK c \in Clients :
          \/ AddObject(c) \/ ChangeObject(c) \/ RemoveObject(c)
          \/ Refuse(c) \/ FailAfterCommit(c) \/ Reconnect(c) \/ Work(c)
    BY <1>1 DEF Next
  <2> QED
    BY <2>1, <2>2, EditsEcho, FinishEcho, CommitEcho, QuietSteps DEF Work, Committing
<1>2. CASE UNCHANGED vars
  <2>1. UNCHANGED <<app, log, count, loading, show, baseline, pending, sending, request>>
    BY <1>2 DEF vars, serverVars, editorVars, outboxVars
  <2>2. Debts' = Debts
    BY <2>1 DEF Debts, Debt, Outbox, Unwritten
  <2>3. Amount(log') = Amount(log) /\ NoImages'
    BY <2>1 DEF EchoInv, NoImages
  <2> QED
    BY <2>1, <2>2, <2>3 DEF EchoInv
<1> QED
  BY <1>1, <1>2

\* An editor that applies what others wrote does not write it again: the hooks are off
\* meanwhile, and the diagram takes all it shows then as its baseline.
THEOREM EchoesNothing == Spec => []NothingEchoed
<1>1. Init => TypeInv /\ EchoInv
  BY TypeInit, EchoInit
<1>2. TypeInv /\ EchoInv /\ [Next]_vars => (TypeInv /\ EchoInv)'
  BY TypeStep, EchoStep
<1>3. TypeInv /\ EchoInv => NothingEchoed
  BY EchoIsNothing
<1> QED
  BY <1>1, <1>2, <1>3, PTL DEF Spec

----------------------------------------------------------------------------
(***************************************************************************)
(* The document does not depend on the order of the batches.  What an      *)
(* object's two registers are is told of the set of the operations that    *)
(* were applied, whatever their order: the object as a whole is the        *)
(* latest of them; its property is the latest, unless the object as a      *)
(* whole is later: then it is not there or a tombstone.                    *)
(***************************************************************************)
Newer(x, y) == x.ts > y.ts \/ (x.ts = y.ts /\ x.peer > y.peer)
Same(x, y) == x.ts = y.ts /\ x.peer = y.peer

LEMMA NewerLaws ==
    ASSUME NEW x \in Writes, NEW y \in Writes
    PROVE  /\ Newer(x, y) \/ Same(x, y) \/ Newer(y, x)
           /\ Newer(x, y) => ~Newer(y, x) /\ ~Same(x, y) /\ ~Same(y, x)
           /\ Same(x, y) => Same(y, x) /\ ~Newer(x, y) /\ ~Newer(y, x)
           /\ Same(x, x) /\ ~Newer(x, x)
<1>1. x.ts \in Nat /\ x.peer \in Nat /\ y.ts \in Nat /\ y.peer \in Nat
  BY OpsAre
<1> QED
  BY <1>1 DEF Newer, Same

LEMMA NewerSteps ==
    ASSUME NEW x \in Writes, NEW y \in Writes, NEW z \in Writes
    PROVE  /\ Newer(x, y) /\ Newer(y, z) => Newer(x, z)
           /\ Newer(x, y) /\ ~Newer(z, y) => Newer(x, z)
           /\ ~Newer(y, x) /\ Newer(y, z) => Newer(x, z)
           /\ ~Newer(y, x) /\ ~Newer(z, y) => ~Newer(z, x)
           /\ Same(x, y) => (Newer(x, z) <=> Newer(y, z)) /\ (Newer(z, x) <=> Newer(z, y))
<1>1. /\ x.ts \in Nat /\ x.peer \in Nat /\ y.ts \in Nat /\ y.peer \in Nat
      /\ z.ts \in Nat /\ z.peer \in Nat
  BY OpsAre
<1> QED
  BY <1>1 DEF Newer, Same

LEMMA WinsIs ==
    ASSUME NEW x \in Writes, NEW y \in Writes, NEW same \in BOOLEAN
    PROVE  /\ Newer(x, y) => WinsLWW(x, y, same)
           /\ Newer(y, x) => ~WinsLWW(x, y, same)
           /\ Same(x, y) => WinsLWW(x, y, TRUE)
           /\ ~WinsLWW(x, x, FALSE)
<1>1. /\ x.ts \in Nat /\ x.peer \in Nat /\ y.ts \in Nat /\ y.peer \in Nat
      /\ x.value \in Nat /\ y.value \in Nat
  BY OpsAre
<1> QED
  BY <1>1 DEF Newer, Same, WinsLWW

\* A batch C of which nothing is void, and none of which is of the stamp of one of O.
Of(T, path) == {x \in T : x.path = path}

Batch(O, C) ==
    /\ O \subseteq Writes /\ C \subseteq Writes
    /\ \A x \in O, y \in C : ~Same(x, y)
    /\ \A x, y \in C : x.path = y.path => x = y
    /\ \A i \in Ids : \A x \in Of(C, Whole(i)), y \in Of(C, Place(i)) : ~Newer(x, y)

\* The registers w and p of the object i after the operations T, while P are to come.
Latest(w, S) == w \in S /\ \A x \in S : x = w \/ Newer(w, x)

WholeIs(w, T, i) == IF w = NoRegister THEN Of(T, Whole(i)) = {} ELSE Latest(w, Of(T, Whole(i)))

Alive(w, p, T, P, i) ==
    /\ Latest(p, Of(T, Place(i)))
    /\ \/ w = NoRegister \/ ~Newer(w, p)
       \/ \E y \in Of(P, Place(i)) : ~Newer(w, y)

Tombstone(p, T, P, i) ==
    /\ p.value = Deleted
    /\ \E x \in Of(T, Whole(i)) : Same(p, x)
    /\ \A y \in Of(P, Place(i)) : ~Same(p, y)

Dead(w, p, T, P, i) ==
    /\ \A x \in Of(T, Place(i)) : w # NoRegister /\ Newer(w, x)
    /\ p = NoRegister \/ Tombstone(p, T, P, i)

Cell(w, p, T, P, i) == WholeIs(w, T, i) /\ (Alive(w, p, T, P, i) \/ Dead(w, p, T, P, i))

Reflects(r, T, P) == \A i \in Ids : Cell(r[Whole(i)], r[Place(i)], T, P, i)

LEMMA SingleOther ==
    ASSUME NEW r \in Registers, NEW op \in Writes, NEW written, NEW i \in Ids,
           op.path # Whole(i), op.path # Place(i)
    PROVE  /\ ApplySingleOp(r, op, written)[Whole(i)] = r[Whole(i)]
           /\ ApplySingleOp(r, op, written)[Place(i)] = r[Place(i)]
<1>1. Whole(i) \in Paths /\ Place(i) \in Paths /\ op.path \in Paths
  BY PathsAre, OpsAre
<1>2. ~Above(op.path, Whole(i)) /\ ~Above(op.path, Place(i))
  <2>1. \A j \in Ids : Whole(i) # Place(j) /\ (Place(j) = Place(i) => j = i)
    <3> TAKE j \in Ids
    <3>1. Len(Whole(i)) = 1 /\ Len(Place(j)) = 2 /\ Place(j)[1] = j /\ Place(i)[1] = i
      BY PathsAre
    <3> QED
      BY <3>1
  <2> QED
    BY <1>1, <2>1, AboveIs
<1> QED
  BY <1>1, <1>2 DEF ApplySingleOp

LEMMA SingleWhole ==
    ASSUME NEW r \in Registers, NEW op \in Writes, NEW written, NEW i \in Ids, op.path = Whole(i)
    PROVE  /\ (r[Whole(i)] # NoRegister /\ ~WinsLWW(op, r[Whole(i)], FALSE)) =>
              /\ ApplySingleOp(r, op, written)[Whole(i)] = r[Whole(i)]
              /\ ApplySingleOp(r, op, written)[Place(i)] = r[Place(i)]
           /\ ~(r[Whole(i)] # NoRegister /\ ~WinsLWW(op, r[Whole(i)], FALSE)) => ApplySingleOp(r, op, written)[Whole(i)] = op
<1>1. Whole(i) \in Paths /\ Place(i) \in Paths /\ Whole(i) # Place(i)
  BY PathsAre
<1>2. Above(Whole(i), Place(i))
  BY <1>1, AboveIs
<1>3. \A a \in Paths : ~Above(a, Whole(i))
  <2> SUFFICES ASSUME NEW j \in Ids PROVE Whole(i) # Place(j)
    BY <1>1, AboveIs
  <2> QED
    BY PathsAre
<1> QED
  BY <1>1, <1>2, <1>3 DEF ApplySingleOp

LEMMA SingleOver ==
    ASSUME NEW r \in Registers, NEW op \in Writes, NEW written, NEW i \in Ids, op.path = Whole(i)
    PROVE  ~(r[Whole(i)] # NoRegister /\ ~WinsLWW(op, r[Whole(i)], FALSE)) /\ (Place(i) \notin written /\ r[Place(i)] # NoRegister /\ WinsLWW(op, r[Place(i)], FALSE)) =>
              ApplySingleOp(r, op, written)[Place(i)] = Write(Place(i), Deleted, op.ts, op.peer)
<1>1. Whole(i) \in Paths /\ Place(i) \in Paths /\ Whole(i) # Place(i)
  BY PathsAre
<1>2. Above(Whole(i), Place(i))
  BY <1>1, AboveIs
<1>3. \A a \in Paths : ~Above(a, Whole(i))
  <2> SUFFICES ASSUME NEW j \in Ids PROVE Whole(i) # Place(j)
    BY <1>1, AboveIs
  <2> QED
    BY PathsAre
<1> QED
  BY <1>1, <1>2, <1>3 DEF ApplySingleOp

LEMMA SingleUnder ==
    ASSUME NEW r \in Registers, NEW op \in Writes, NEW written, NEW i \in Ids, op.path = Whole(i)
    PROVE  ~(r[Whole(i)] # NoRegister /\ ~WinsLWW(op, r[Whole(i)], FALSE)) /\ ~(Place(i) \notin written /\ r[Place(i)] # NoRegister /\ WinsLWW(op, r[Place(i)], FALSE)) =>
              ApplySingleOp(r, op, written)[Place(i)] = r[Place(i)]
<1>1. Whole(i) \in Paths /\ Place(i) \in Paths /\ Whole(i) # Place(i)
  BY PathsAre
<1>2. Above(Whole(i), Place(i))
  BY <1>1, AboveIs
<1>3. \A a \in Paths : ~Above(a, Whole(i))
  <2> SUFFICES ASSUME NEW j \in Ids PROVE Whole(i) # Place(j)
    BY <1>1, AboveIs
  <2> QED
    BY PathsAre
<1> QED
  BY <1>1, <1>2, <1>3 DEF ApplySingleOp

LEMMA SinglePlace ==
    ASSUME NEW r \in Registers, NEW op \in Writes, NEW written, NEW i \in Ids, op.path = Place(i)
    PROVE  /\ ApplySingleOp(r, op, written)[Whole(i)] = r[Whole(i)]
           /\ (r[Whole(i)] # NoRegister /\ ~WinsLWW(op, r[Whole(i)], Whole(i) \in written)) \/ (r[Place(i)] # NoRegister /\ ~WinsLWW(op, r[Place(i)], FALSE)) =>
              ApplySingleOp(r, op, written)[Place(i)] = r[Place(i)]
<1>1. Whole(i) \in Paths /\ Place(i) \in Paths /\ Whole(i) # Place(i)
  BY PathsAre
<1>2. Above(Whole(i), Place(i))
  BY <1>1, AboveIs
<1>3. \A a \in Paths : Above(a, Place(i)) => a = Whole(i)
  <2> SUFFICES ASSUME NEW j \in Ids, Place(i) = Place(j) PROVE i = j
    BY <1>1, AboveIs
  <2>1. Place(i)[1] = i /\ Place(j)[1] = j
    BY PathsAre
  <2> QED
    BY <2>1
<1>4. ~Above(Place(i), Whole(i))
  <2> SUFFICES ASSUME NEW j \in Ids PROVE Whole(i) # Place(j)
    BY <1>1, AboveIs
  <2> QED
    BY PathsAre
<1> QED
  BY <1>1, <1>2, <1>3, <1>4 DEF ApplySingleOp
LEMMA SinglePlaced ==
    ASSUME NEW r \in Registers, NEW op \in Writes, NEW written, NEW i \in Ids, op.path = Place(i)
    PROVE  ~(r[Whole(i)] # NoRegister /\ ~WinsLWW(op, r[Whole(i)], Whole(i) \in written)) /\ ~(r[Place(i)] # NoRegister /\ ~WinsLWW(op, r[Place(i)], FALSE)) =>
              ApplySingleOp(r, op, written)[Place(i)] = op
<1>1. Whole(i) \in Paths /\ Place(i) \in Paths /\ Whole(i) # Place(i)
  BY PathsAre
<1>2. Above(Whole(i), Place(i))
  BY <1>1, AboveIs
<1>3. \A a \in Paths : Above(a, Place(i)) => a = Whole(i)
  <2> SUFFICES ASSUME NEW j \in Ids, Place(i) = Place(j) PROVE i = j
    BY <1>1, AboveIs
  <2>1. Place(i)[1] = i /\ Place(j)[1] = j
    BY PathsAre
  <2> QED
    BY <2>1
<1>4. ~Above(Place(i), Whole(i))
  <2> SUFFICES ASSUME NEW j \in Ids PROVE Whole(i) # Place(j)
    BY <1>1, AboveIs
  <2> QED
    BY PathsAre
<1> QED
  BY <1>1, <1>2, <1>3, <1>4 DEF ApplySingleOp
LEMMA CellTypes ==
    ASSUME NEW O, NEW C, Batch(O, C), NEW D \in SUBSET C, NEW r \in Registers, NEW i \in Ids,
           WholeIs(r[Whole(i)], O \cup D, i)
    PROVE  /\ Whole(i) \in Paths /\ Place(i) \in Paths /\ Whole(i) # Place(i)
           /\ r[Whole(i)] \in Writes \cup {NoRegister} /\ r[Place(i)] \in Writes \cup {NoRegister}
           /\ NoRegister \notin Writes /\ O \subseteq Writes /\ C \subseteq Writes
           /\ r[Whole(i)] # NoRegister => r[Whole(i)] \in Of(O \cup D, Whole(i))
BY PathsAre, RegisterAssumption DEF Registers, Batch, WholeIs, Latest

LEMMA CellOther ==
    ASSUME NEW O, NEW C, Batch(O, C), NEW D \in SUBSET C, NEW r \in Registers, NEW i \in Ids,
           NEW op \in C, op.path # Whole(i), op.path # Place(i), NEW written,
           Cell(r[Whole(i)], r[Place(i)], O \cup D, C \ D, i)
    PROVE  LET new == ApplySingleOp(r, op, written)
           IN  Cell(new[Whole(i)], new[Place(i)], O \cup (D \cup {op}), C \ (D \cup {op}), i)
<1> DEFINE T == O \cup D
           P == C \ D
           U == O \cup (D \cup {op})
           Q == C \ (D \cup {op})
           new == ApplySingleOp(r, op, written)
<1>1. op \in Writes
  BY DEF Batch
<1>2. new[Whole(i)] = r[Whole(i)] /\ new[Place(i)] = r[Place(i)]
  BY <1>1, SingleOther
<1>3. /\ Of(U, Whole(i)) = Of(T, Whole(i)) /\ Of(U, Place(i)) = Of(T, Place(i))
      /\ Of(Q, Place(i)) = Of(P, Place(i))
  BY DEF Of
<1>4. Cell(r[Whole(i)], r[Place(i)], T, P, i)
  OBVIOUS
<1> HIDE DEF T, P, U, Q, new
<1>5. Cell(r[Whole(i)], r[Place(i)], U, Q, i)
  BY <1>3, <1>4 DEF Cell, WholeIs, Alive, Dead, Tombstone
<1> QED
  BY <1>2, <1>5 DEF U, Q, new

LEMMA CellWhole ==
    ASSUME NEW O, NEW C, Batch(O, C), NEW D \in SUBSET C, NEW r \in Registers, NEW i \in Ids,
           NEW a \in C, a.path = Whole(i), NEW written, written = {x.path : x \in C},
           Cell(r[Whole(i)], r[Place(i)], O \cup D, C \ D, i)
    PROVE  LET new == ApplySingleOp(r, a, written)
           IN  Cell(new[Whole(i)], new[Place(i)], O \cup (D \cup {a}), C \ (D \cup {a}), i)
<1> DEFINE T == O \cup D
           P == C \ D
           U == O \cup (D \cup {a})
           Q == C \ (D \cup {a})
           new == ApplySingleOp(r, a, written)
           w == r[Whole(i)]
           p == r[Place(i)]
           lost == w # NoRegister /\ ~WinsLWW(a, w, FALSE)
           over == Place(i) \notin written /\ p # NoRegister /\ WinsLWW(a, p, FALSE)
<1>a. WholeIs(w, T, i) /\ (Alive(w, p, T, P, i) \/ Dead(w, p, T, P, i))
  BY DEF Cell
<1>b. /\ Whole(i) # Place(i) /\ w \in Writes \cup {NoRegister} /\ p \in Writes \cup {NoRegister}
      /\ NoRegister \notin Writes /\ O \subseteq Writes /\ C \subseteq Writes /\ a \in Writes
      /\ w # NoRegister => w \in Of(T, Whole(i))
  BY <1>a, CellTypes
<1>c. /\ Of(U, Whole(i)) = Of(T, Whole(i)) \cup {a} /\ Of(U, Place(i)) = Of(T, Place(i))
      /\ Of(Q, Place(i)) = Of(P, Place(i))
  BY <1>b DEF Of
<1>d. /\ Of(T, Whole(i)) \subseteq Writes /\ Of(T, Place(i)) \subseteq Writes
      /\ Of(P, Place(i)) \subseteq Writes
  BY <1>b DEF Of
<1>e. w # NoRegister /\ w # a => ~Same(w, a) /\ ~Same(a, w)
  <2> SUFFICES ASSUME w # NoRegister, w # a PROVE ~Same(w, a) /\ ~Same(a, w)
    OBVIOUS
  <2>1. w \in T /\ w.path = Whole(i)
    BY <1>b DEF Of
  <2>2. w \in O
    BY <2>1 DEF Batch
  <2>3. ~Same(w, a)
    BY <2>2 DEF Batch
  <2> QED
    BY <2>3 DEF Same
<1>f. /\ lost => new[Whole(i)] = w /\ new[Place(i)] = p
      /\ ~lost => new[Whole(i)] = a
      /\ ~lost /\ over => new[Place(i)] = Write(Place(i), Deleted, a.ts, a.peer)
      /\ ~lost /\ ~over => new[Place(i)] = p
  <2>1. a \in Writes /\ a.path = Whole(i)
    BY <1>b
  <2>2. (lost => new[Whole(i)] = w /\ new[Place(i)] = p) /\ (~lost => new[Whole(i)] = a)
    BY <2>1, SingleWhole
  <2>3. ~lost /\ over => new[Place(i)] = Write(Place(i), Deleted, a.ts, a.peer)
    BY <2>1, SingleOver
  <2>4. ~lost /\ ~over => new[Place(i)] = p
    BY <2>1, SingleUnder
  <2> QED
    BY <2>2, <2>3, <2>4
<1>g. Place(i) \in written => \E y \in Of(C, Place(i)) : ~Newer(a, y)
  BY DEF Of, Batch
<1>h. Place(i) \notin written => Of(P, Place(i)) = {} /\ Of(T, Place(i)) \subseteq O
  BY DEF Of
<1>i. \A y \in Of(C, Place(i)) : y \in Of(P, Place(i)) \/ y \in Of(T, Place(i))
  BY DEF Of
<1>j. \A x \in O : ~Same(x, a)
  BY DEF Batch
<1> HIDE DEF T, P, U, Q, new, w, p
<1>1. CASE w # NoRegister /\ ~WinsLWW(a, w, FALSE)
  <2>1. w = a \/ Newer(w, a)
    BY <1>1, <1>b, <1>e, NewerLaws, WinsIs
  <2>2. WholeIs(w, U, i)
    BY <1>1, <1>a, <1>c, <2>1 DEF WholeIs, Latest
  <2>3. Alive(w, p, T, P, i) => Alive(w, p, U, Q, i)
    BY <1>c DEF Alive
  <2>4. Dead(w, p, T, P, i) => Dead(w, p, U, Q, i)
    BY <1>c DEF Dead, Tombstone
  <2> QED
    BY <1>1, <1>a, <1>f, <2>2, <2>3, <2>4 DEF Cell, U, Q, new
<1>2. CASE ~(w # NoRegister /\ ~WinsLWW(a, w, FALSE))
  <2>1. w # NoRegister => w # a /\ Newer(a, w)
    BY <1>2, <1>b, <1>e, NewerLaws, WinsIs
  <2>2. WholeIs(a, U, i)
    <3>1. ASSUME NEW x \in Of(T, Whole(i)) PROVE Newer(a, x)
      <4>1. w # NoRegister /\ (x = w \/ Newer(w, x))
        BY <1>a DEF WholeIs, Latest
      <4> QED
        BY <1>b, <1>d, <2>1, <4>1, NewerSteps
    <3> QED
      BY <1>b, <1>c, <3>1 DEF WholeIs, Latest
  <2>3. \A x \in Of(T, Place(i)) : w # NoRegister /\ Newer(w, x) => Newer(a, x)
    BY <1>b, <1>d, <2>1, NewerSteps
  <2>4. CASE Place(i) \in written
    <3>1. new[Whole(i)] = a /\ new[Place(i)] = p
      BY <1>2, <1>f, <2>4
    <3>2. PICK y \in Of(C, Place(i)) : ~Newer(a, y)
      BY <1>g, <2>4
    <3>3. ASSUME Alive(w, p, T, P, i) PROVE Alive(a, p, U, Q, i)
      <4>1. Latest(p, Of(T, Place(i)))
        BY <3>3 DEF Alive
      <4>2. CASE y \in Of(P, Place(i))
        BY <1>c, <3>2, <4>1, <4>2 DEF Alive
      <4>3. CASE y \in Of(T, Place(i))
        <5>1. p \in Writes /\ y \in Writes /\ (y = p \/ Newer(p, y))
          BY <1>d, <4>1, <4>3 DEF Latest
        <5>2. ~Newer(a, p)
          BY <1>b, <3>2, <5>1, NewerSteps, NewerLaws
        <5> QED
          BY <1>c, <4>1, <5>2 DEF Alive
      <4> QED
        BY <1>i, <4>2, <4>3
    <3>4. ASSUME Dead(w, p, T, P, i) PROVE Dead(a, p, U, Q, i)
      <4>1. \A x \in Of(U, Place(i)) : Newer(a, x)
        BY <1>c, <2>3, <3>4 DEF Dead
      <4>2. p = NoRegister \/ Tombstone(p, U, Q, i)
        BY <1>c, <3>4 DEF Dead, Tombstone
      <4> QED
        BY <1>b, <4>1, <4>2 DEF Dead
    <3> QED
      BY <1>a, <2>2, <3>1, <3>3, <3>4 DEF Cell, U, Q, new
  <2>5. CASE Place(i) \notin written
    <3> DEFINE t == Write(Place(i), Deleted, a.ts, a.peer)
    <3>1. Of(U, Place(i)) \subseteq O /\ Of(Q, Place(i)) = {}
      BY <1>c, <1>h, <2>5
    <3>2. Tombstone(t, U, Q, i)
      <4>1. t.value = Deleted /\ Same(t, a)
        BY WriteIs DEF Same
      <4>2. a \in Of(U, Whole(i))
        BY <1>c
      <4> HIDE DEF t
      <4> QED
        BY <3>1, <4>1, <4>2 DEF Tombstone
    <3>3. /\ new[Whole(i)] = a
          /\ new[Place(i)] = IF p # NoRegister /\ WinsLWW(a, p, FALSE) THEN t ELSE p
      BY <1>2, <1>f, <2>5
    <3> HIDE DEF t
    <3>4. ASSUME Dead(w, p, T, P, i) PROVE Dead(a, new[Place(i)], U, Q, i)
      <4>1. \A x \in Of(U, Place(i)) : Newer(a, x)
        BY <1>c, <2>3, <3>4 DEF Dead
      <4>2. p = NoRegister \/ Tombstone(p, U, Q, i)
        BY <1>c, <3>4 DEF Dead, Tombstone
      <4> QED
        BY <1>b, <3>2, <3>3, <4>1, <4>2 DEF Dead
    <3>5. ASSUME Alive(w, p, T, P, i)
          PROVE  Alive(a, new[Place(i)], U, Q, i) \/ Dead(a, new[Place(i)], U, Q, i)
      <4>1. Latest(p, Of(U, Place(i)))
        BY <1>c, <3>5 DEF Alive
      <4>2. p \in O /\ p \in Writes /\ p # NoRegister /\ ~Same(p, a)
        BY <1>b, <1>j, <3>1, <4>1 DEF Latest
      <4>3. CASE Newer(a, p)
        <5>1. new[Place(i)] = t
          BY <1>b, <3>3, <4>2, <4>3, WinsIs
        <5>2. \A x \in Of(U, Place(i)) : Newer(a, x)
          <6> TAKE x \in Of(U, Place(i))
          <6>1. x \in Writes /\ (x = p \/ Newer(p, x))
            BY <1>c, <1>d, <4>1 DEF Latest
          <6> QED
            BY <1>b, <4>2, <4>3, <6>1, NewerSteps
        <5> QED
          BY <1>b, <3>2, <5>1, <5>2 DEF Dead
      <4>4. CASE Newer(p, a)
        <5>1. new[Place(i)] = p /\ ~Newer(a, p)
          BY <1>b, <3>3, <4>2, <4>4, WinsIs, NewerLaws
        <5> QED
          BY <4>1, <5>1 DEF Alive
      <4> QED
        BY <1>b, <4>2, <4>3, <4>4, NewerLaws
    <3> QED
      BY <1>a, <2>2, <3>3, <3>4, <3>5 DEF Cell, U, Q, new
  <2> QED
    BY <2>4, <2>5
<1> QED
  BY <1>1, <1>2

LEMMA CellPlace ==
    ASSUME NEW O, NEW C, Batch(O, C), NEW D \in SUBSET C, NEW r \in Registers, NEW i \in Ids,
           NEW b \in C, b.path = Place(i), NEW written, written = {x.path : x \in C},
           Cell(r[Whole(i)], r[Place(i)], O \cup D, C \ D, i)
    PROVE  LET new == ApplySingleOp(r, b, written)
           IN  Cell(new[Whole(i)], new[Place(i)], O \cup (D \cup {b}), C \ (D \cup {b}), i)
<1> DEFINE T == O \cup D
           P == C \ D
           U == O \cup (D \cup {b})
           Q == C \ (D \cup {b})
           new == ApplySingleOp(r, b, written)
           w == r[Whole(i)]
           p == r[Place(i)]
           stale == w # NoRegister /\ ~WinsLWW(b, w, Whole(i) \in written)
           lost == p # NoRegister /\ ~WinsLWW(b, p, FALSE)
<1>a. WholeIs(w, T, i) /\ (Alive(w, p, T, P, i) \/ Dead(w, p, T, P, i))
  BY DEF Cell
<1>b. /\ Whole(i) # Place(i) /\ w \in Writes \cup {NoRegister} /\ p \in Writes \cup {NoRegister}
      /\ NoRegister \notin Writes /\ O \subseteq Writes /\ C \subseteq Writes /\ b \in Writes
      /\ w # NoRegister => w \in Of(T, Whole(i))
  BY <1>a, CellTypes
<1>c. /\ Of(U, Whole(i)) = Of(T, Whole(i)) /\ Of(U, Place(i)) = Of(T, Place(i)) \cup {b}
      /\ Of(Q, Place(i)) = {}
  BY <1>b DEF Of, Batch
<1>d. Of(T, Whole(i)) \subseteq Writes /\ Of(T, Place(i)) \subseteq Writes
  BY <1>b DEF Of
<1>e. /\ new[Whole(i)] = w
      /\ stale \/ lost => new[Place(i)] = p
      /\ ~stale /\ ~lost => new[Place(i)] = b
  <2>1. b \in Writes /\ b.path = Place(i)
    BY <1>b
  <2>2. new[Whole(i)] = w /\ (stale \/ lost => new[Place(i)] = p)
    BY <2>1, SinglePlace
  <2>3. ~stale /\ ~lost => new[Place(i)] = b
    BY <2>1, SinglePlaced
  <2> QED
    BY <2>2, <2>3
<1>f. /\ b \in D => Of(P, Place(i)) = {} /\ b \in Of(T, Place(i))
      /\ b \notin D => Of(P, Place(i)) = {b} /\ Of(T, Place(i)) \subseteq O
  BY DEF Of, Batch
<1>g. \A x \in O : ~Same(x, b)
  BY DEF Batch
<1>h. w # NoRegister => ~Same(w, b) \/ (Whole(i) \in written /\ ~Newer(w, b))
  <2> SUFFICES ASSUME w # NoRegister
               PROVE  ~Same(w, b) \/ (Whole(i) \in written /\ ~Newer(w, b))
    OBVIOUS
  <2>1. w \in T /\ w.path = Whole(i)
    BY <1>b DEF Of
  <2>2. CASE w \in O
    BY <1>g, <2>2
  <2>3. CASE w \in D
    <3>1. w \in Of(C, Whole(i)) /\ b \in Of(C, Place(i)) /\ w \in C
      BY <2>1, <2>3 DEF Of
    <3>2. ~Newer(w, b)
      BY <3>1 DEF Batch
    <3>3. Whole(i) \in written
      BY <2>1, <3>1
    <3> QED
      BY <3>2, <3>3
  <2> QED
    BY <2>1, <2>2, <2>3
<1>i. (Whole(i) \in written) \in BOOLEAN
  OBVIOUS
<1> HIDE DEF T, P, U, Q, new, w, p
<1>j. stale <=> w # NoRegister /\ Newer(w, b)
  <2> SUFFICES ASSUME w # NoRegister
               PROVE  ~WinsLWW(b, w, Whole(i) \in written) <=> Newer(w, b)
    OBVIOUS
  <2>1. w \in Writes
    BY <1>b
  <2>2. CASE Newer(w, b)
    BY <1>b, <1>i, <2>1, <2>2, WinsIs
  <2>3. CASE Newer(b, w)
    <3>1. ~Newer(w, b)
      BY <1>b, <2>1, <2>3, NewerLaws
    <3>2. WinsLWW(b, w, Whole(i) \in written)
      BY <1>b, <1>i, <2>1, <2>3, WinsIs
    <3> QED
      BY <3>1, <3>2
  <2>4. CASE Same(w, b)
    <3>1. (Whole(i) \in written) = TRUE
      BY <1>h, <2>4
    <3>2. WinsLWW(b, w, TRUE) /\ ~Newer(w, b)
      BY <1>b, <2>1, <2>4, WinsIs, NewerLaws
    <3> QED
      BY <3>1, <3>2
  <2> QED
    BY <1>b, <2>1, <2>2, <2>3, <2>4, NewerLaws
<1> HIDE DEF stale
<1>k. WholeIs(w, U, i)
  BY <1>a, <1>c DEF WholeIs
<1>1. CASE b \in D
  <2>1. Of(U, Place(i)) = Of(T, Place(i)) /\ Of(Q, Place(i)) = Of(P, Place(i)) /\ Of(P, Place(i)) = {}
    BY <1>1, <1>c, <1>f
  <2>2. ASSUME Alive(w, p, T, P, i) PROVE new[Place(i)] = p /\ Alive(w, p, U, Q, i)
    <3>1. p \in Writes /\ (p = b \/ Newer(p, b))
      BY <1>1, <1>d, <1>f, <2>2 DEF Alive, Latest
    <3>2. lost
      BY <1>b, <3>1, WinsIs
    <3> QED
      BY <1>e, <2>1, <2>2, <3>2 DEF Alive
  <2>3. ASSUME Dead(w, p, T, P, i) PROVE new[Place(i)] = p /\ Dead(w, p, U, Q, i)
    <3>1. stale
      BY <1>1, <1>f, <1>j, <2>3 DEF Dead
    <3> QED
      BY <1>c, <1>e, <2>1, <2>3, <3>1 DEF Dead, Tombstone
  <2> QED
    BY <1>a, <1>e, <1>k, <2>2, <2>3 DEF Cell, U, Q, new
<1>2. CASE b \notin D
  <2>1. Of(P, Place(i)) = {b} /\ Of(T, Place(i)) \subseteq O
    BY <1>2, <1>f
  <2>2. ASSUME Alive(w, p, T, P, i) PROVE Alive(w, new[Place(i)], U, Q, i)
    <3>1. Latest(p, Of(T, Place(i)))
      BY <2>2 DEF Alive
    <3>2. p \in O /\ p \in Writes /\ p # NoRegister /\ ~Same(p, b)
      BY <1>b, <1>g, <2>1, <3>1 DEF Latest
    <3>3. Newer(p, b) => Latest(p, Of(U, Place(i)))
      BY <1>c, <3>1 DEF Latest
    <3>4. CASE stale
      <4>1. w \in Writes /\ Newer(w, b)
        BY <1>b, <1>j, <3>4
      <4>2. ~Newer(w, p)
        BY <1>b, <2>1, <2>2, <4>1 DEF Alive
      <4>3. Newer(p, b)
        BY <1>b, <3>2, <4>1, <4>2, NewerSteps
      <4> QED
        BY <1>e, <3>3, <3>4, <4>2, <4>3 DEF Alive
    <3>5. CASE ~stale
      <4>1. w = NoRegister \/ (w \in Writes /\ ~Newer(w, b))
        <5>1. ~(w # NoRegister /\ Newer(w, b))
          BY <1>j, <3>5
        <5>2. w = NoRegister \/ w \in Writes
          BY <1>b
        <5> QED
          BY <5>1, <5>2
      <4>2. CASE Newer(p, b)
        <5>1. new[Place(i)] = p
          BY <1>b, <1>e, <3>2, <4>2, WinsIs
        <5>2. w = NoRegister \/ ~Newer(w, p)
          BY <1>b, <3>2, <4>1, <4>2, NewerSteps, NewerLaws
        <5> QED
          BY <3>3, <4>2, <5>1, <5>2 DEF Alive
      <4>3. CASE Newer(b, p)
        <5>1. new[Place(i)] = b
          BY <1>b, <1>e, <3>2, <3>5, <4>3, WinsIs
        <5>2. ASSUME NEW x \in Of(T, Place(i)) PROVE Newer(b, x)
          <6>1. x \in Writes /\ (x = p \/ Newer(p, x))
            BY <1>d, <3>1 DEF Latest
          <6> QED
            BY <1>b, <3>2, <4>3, <6>1, NewerSteps
        <5>3. Latest(b, Of(U, Place(i)))
          BY <1>c, <5>2 DEF Latest
        <5> QED
          BY <4>1, <5>1, <5>3 DEF Alive
      <4> QED
        BY <1>b, <3>2, <4>2, <4>3, NewerLaws
    <3> QED
      BY <3>4, <3>5
  <2>3. ASSUME Dead(w, p, T, P, i)
        PROVE  Alive(w, new[Place(i)], U, Q, i) \/ Dead(w, new[Place(i)], U, Q, i)
    <3>1. \A x \in Of(T, Place(i)) : x \in Writes /\ w # NoRegister /\ Newer(w, x)
      BY <1>d, <2>3 DEF Dead
    <3>2. CASE stale
      <4>1. \A x \in Of(U, Place(i)) : w # NoRegister /\ Newer(w, x)
        BY <1>c, <1>j, <3>1, <3>2
      <4>2. p = NoRegister \/ Tombstone(p, U, Q, i)
        BY <1>c, <2>3 DEF Dead, Tombstone
      <4> QED
        BY <1>e, <3>2, <4>1, <4>2 DEF Dead
    <3>3. CASE ~stale
      <4>1. w = NoRegister \/ (w \in Writes /\ ~Newer(w, b))
        <5>1. ~(w # NoRegister /\ Newer(w, b))
          BY <1>j, <3>3
        <5>2. w = NoRegister \/ w \in Writes
          BY <1>b
        <5> QED
          BY <5>1, <5>2
      <4>2. ~lost
        <5> SUFFICES ASSUME p # NoRegister PROVE WinsLWW(b, p, FALSE)
          OBVIOUS
        <5>1. Tombstone(p, T, P, i) /\ p \in Writes
          BY <1>b, <2>3 DEF Dead
        <5>2. PICK x \in Of(T, Whole(i)) : Same(p, x)
          BY <5>1 DEF Tombstone
        <5>3. ~Same(p, b) /\ x \in Writes
          BY <1>d, <2>1, <5>1 DEF Tombstone
        <5>4. w \in Writes /\ (x = w \/ Newer(w, x))
          BY <1>a, <1>b DEF WholeIs, Latest
        <5>5. ~Newer(w, b)
          BY <1>b, <4>1, <5>4
        <5>6. ~Newer(p, b)
          BY <1>b, <5>1, <5>2, <5>3, <5>4, <5>5, NewerSteps
        <5>7. Newer(b, p)
          BY <1>b, <5>1, <5>3, <5>6, NewerLaws
        <5> QED
          BY <1>b, <5>1, <5>7, WinsIs
      <4>3. new[Place(i)] = b
        BY <1>e, <3>3, <4>2
      <4>4. ASSUME NEW x \in Of(T, Place(i)) PROVE Newer(b, x)
        BY <1>b, <3>1, <4>1, NewerSteps
      <4>5. Latest(b, Of(U, Place(i)))
        BY <1>c, <4>4 DEF Latest
      <4> QED
        BY <4>1, <4>3, <4>5 DEF Alive
    <3> QED
      BY <3>2, <3>3
  <2> QED
    BY <1>a, <1>e, <1>k, <2>2, <2>3 DEF Cell, U, Q, new
<1> QED
  BY <1>1, <1>2

\* One more operation of a batch.
LEMMA ReflectsStep ==
    ASSUME NEW O, NEW C, Batch(O, C), NEW D \in SUBSET C, NEW r \in Registers, NEW op \in C,
           Reflects(r, O \cup D, C \ D)
    PROVE  Reflects(ApplySingleOp(r, op, {x.path : x \in C}), O \cup (D \cup {op}), C \ (D \cup {op}))
<1> DEFINE new == ApplySingleOp(r, op, {x.path : x \in C})
<1> SUFFICES ASSUME NEW i \in Ids
             PROVE  Cell(new[Whole(i)], new[Place(i)], O \cup (D \cup {op}), C \ (D \cup {op}), i)
  BY DEF Reflects
<1>1. Cell(r[Whole(i)], r[Place(i)], O \cup D, C \ D, i)
  BY DEF Reflects
<1>2. CASE op.path = Whole(i)
  BY <1>1, <1>2, CellWhole
<1>3. CASE op.path = Place(i)
  BY <1>1, <1>3, CellPlace
<1>4. CASE op.path # Whole(i) /\ op.path # Place(i)
  BY <1>1, <1>4, CellOther
<1> QED
  BY <1>2, <1>3, <1>4

\* What is left of a batch.
Left(batch) == {Compose(batch)[p] : p \in PathsOf(Compose(batch))}

LEMMA VoidsIs ==
    ASSUME NEW x \in Writes, NEW y \in Writes
    PROVE  Voids(x, y) <=> Above(x.path, y.path) /\ Newer(x, y)
<1>1. x.ts \in Nat /\ x.peer \in Nat /\ y.ts \in Nat /\ y.peer \in Nat
  BY OpsAre
<1> QED
  BY <1>1 DEF Voids, WinsLWW, Newer

\* Dictionaries of which nothing is void, of the operations S.
Entries(S) ==
    {d \in Registers :
        /\ \A p \in Paths : d[p] # NoRegister => d[p] \in S /\ d[p].path = p
        /\ \A i \in Ids : d[Whole(i)] # NoRegister /\ d[Place(i)] # NoRegister
                             => ~Newer(d[Whole(i)], d[Place(i)])}

LEMMA AddedEntries ==
    ASSUME NEW S, S \subseteq Writes, NEW d \in Entries(S), NEW op \in S
    PROVE  Added(d, op) \in Entries(S)
<1> DEFINE new == Added(d, op)
<1>1. /\ d \in Registers /\ op \in Writes /\ op.path \in Paths /\ op # NoRegister
      /\ \A p \in Paths : d[p] # NoRegister => d[p] \in S /\ d[p].path = p
  BY OpsAre, RegisterAssumption DEF Entries
<1>2. new \in Registers
  BY <1>1, AddedType
<1>3. \/ new = d
      \/ /\ \A p \in Paths : d[p] # NoRegister => ~Voids(d[p], op)
         /\ \A p \in Paths : new[p] = IF p = op.path THEN op
                                      ELSE IF d[p] # NoRegister /\ Voids(op, d[p]) THEN NoRegister ELSE d[p]
  BY DEF Added
<1> HIDE DEF new
<1>4. CASE new = d
  BY <1>4 DEF new
<1>5. CASE /\ \A p \in Paths : d[p] # NoRegister => ~Voids(d[p], op)
           /\ \A p \in Paths : new[p] = IF p = op.path THEN op
                                        ELSE IF d[p] # NoRegister /\ Voids(op, d[p]) THEN NoRegister ELSE d[p]
  <2>1. \A p \in Paths : new[p] # NoRegister => new[p] \in S /\ new[p].path = p
    BY <1>1, <1>5
  <2>2. ASSUME NEW i \in Ids, new[Whole(i)] # NoRegister, new[Place(i)] # NoRegister
        PROVE  ~Newer(new[Whole(i)], new[Place(i)])
    <3>1. Whole(i) \in Paths /\ Place(i) \in Paths /\ Whole(i) # Place(i)
      BY PathsAre
    <3>2. Above(Whole(i), Place(i))
      BY <3>1, AboveIs
    <3>3. CASE op.path = Whole(i)
      <4>1. new[Whole(i)] = op /\ new[Place(i)] = d[Place(i)] /\ ~Voids(op, d[Place(i)]) /\ d[Place(i)] # NoRegister
        BY <1>5, <2>2, <3>1, <3>3
      <4>2. d[Place(i)] \in Writes /\ d[Place(i)].path = Place(i)
        BY <1>1, <3>1, <4>1
      <4> QED
        BY <1>1, <3>2, <3>3, <4>1, <4>2, VoidsIs
    <3>4. CASE op.path = Place(i)
      <4>1. new[Place(i)] = op /\ new[Whole(i)] = d[Whole(i)] /\ d[Whole(i)] # NoRegister /\ ~Voids(d[Whole(i)], op)
        BY <1>5, <2>2, <3>1, <3>4
      <4>2. d[Whole(i)] \in Writes /\ d[Whole(i)].path = Whole(i)
        BY <1>1, <3>1, <4>1
      <4> QED
        BY <1>1, <3>2, <3>4, <4>1, <4>2, VoidsIs
    <3>5. CASE op.path # Whole(i) /\ op.path # Place(i)
      <4>1. new[Whole(i)] = d[Whole(i)] /\ new[Place(i)] = d[Place(i)]
        BY <1>5, <2>2, <3>1, <3>5
      <4> QED
        BY <2>2, <4>1 DEF Entries
    <3> QED
      BY <3>3, <3>4, <3>5
  <2> QED
    BY <1>2, <2>1, <2>2 DEF Entries, new
<1> QED
  BY <1>3, <1>4, <1>5

LEMMA ComposeEntries ==
    ASSUME NEW S, S \subseteq Writes, NEW batch \in Seq(S)
    PROVE  Compose(batch) \in Entries(S)
<1>1. batch \in Seq(Writes)
  BY SeqMonotonic
<1>2. Foldable(Registers, Writes, added, Empty, batch)
  BY <1>1, AddedIs, EmptyType DEF Foldable
<1>3. Entries(S) \in SUBSET Registers /\ S \in SUBSET Writes
  BY DEF Entries
<1>4. Empty \in Entries(S)
  BY EmptyType, PathsAre DEF Entries, Empty
<1>5. \A d \in Entries(S) : \A op \in S : added[<<d, op>>] \in Entries(S)
  BY <1>3, AddedIs, AddedEntries
<1>6. FoldFn(added, Empty, batch) \in Entries(S)
  BY <1>2, <1>3, <1>4, <1>5, FoldKept
<1> QED
  BY <1>6, ComposeIs

LEMMA LeftIs ==
    ASSUME NEW batch \in Seq(Writes)
    PROVE  /\ Left(batch) \subseteq Writes
           /\ \A x \in Left(batch) : \E m \in 1..Len(batch) : batch[m] = x
           /\ \A x \in Writes : x \in Left(batch) <=> Compose(batch)[x.path] = x
           /\ PathsOf(Compose(batch)) = {x.path : x \in Left(batch)}
           /\ \A x, y \in Left(batch) : x.path = y.path => x = y
           /\ \A i \in Ids : \A x \in Of(Left(batch), Whole(i)), y \in Of(Left(batch), Place(i)) : ~Newer(x, y)
<1> DEFINE d == Compose(batch)
           S == {batch[m] : m \in 1..Len(batch)}
<1>1. S \subseteq Writes /\ batch \in Seq(S)
  <2>1. \A m \in 1..Len(batch) : batch[m] \in Writes
    BY ElementOfSeq
  <2>2. Len(batch) \in Nat /\ batch \in [1..Len(batch) -> S]
    BY LenProperties
  <2> HIDE DEF S
  <2>3. batch \in Seq(S)
    BY <2>2, SeqDef
  <2> QED
    BY <2>1, <2>3 DEF S
<1>2. d \in Entries(S)
  BY <1>1, ComposeEntries
<1>3. /\ \A p \in Paths : d[p] # NoRegister => d[p] \in S /\ d[p].path = p
      /\ \A i \in Ids : d[Whole(i)] # NoRegister /\ d[Place(i)] # NoRegister
                             => ~Newer(d[Whole(i)], d[Place(i)])
  BY <1>2 DEF Entries
<1>4. \A x \in S : \E m \in 1..Len(batch) : batch[m] = x
  OBVIOUS
<1> HIDE DEF d, S
<1>5. Left(batch) = {d[p] : p \in {q \in Paths : d[q] # NoRegister}}
  BY DEF Left, PathsOf, d
<1>6. \A x \in Left(batch) : x \in S /\ x.path \in Paths /\ x # NoRegister /\ d[x.path] = x
  BY <1>3, <1>5
<1>7. ASSUME NEW x \in Writes PROVE x \in Left(batch) <=> d[x.path] = x
  BY <1>5, <1>6, OpsAre, RegisterAssumption
<1>8. PathsOf(d) = {x.path : x \in Left(batch)}
  BY <1>3, <1>5, <1>6 DEF PathsOf
<1>9. ASSUME NEW i \in Ids, NEW x \in Of(Left(batch), Whole(i)), NEW y \in Of(Left(batch), Place(i))
      PROVE  ~Newer(x, y)
  BY <1>3, <1>6 DEF Of
<1>10. \A x, y \in Left(batch) : x.path = y.path => x = y
  BY <1>6
<1>11. Left(batch) \subseteq Writes /\ \A x \in Left(batch) : \E m \in 1..Len(batch) : batch[m] = x
  BY <1>1, <1>4, <1>6
<1> QED
  BY <1>7, <1>8, <1>9, <1>10, <1>11 DEF d

\* No operation of O was made by one peer in one millisecond with one of the batch.
Strangers(O, batch) == \A x \in O : \A m \in 1..Len(batch) : ~Same(x, batch[m])

LEMMA LeftBatch ==
    ASSUME NEW O, O \subseteq Writes, NEW batch \in Seq(Writes), Strangers(O, batch)
    PROVE  Batch(O, Left(batch))
BY LeftIs DEF Batch, Strangers

\* Before a batch, nothing is to come.
LEMMA ReflectsBefore ==
    ASSUME NEW O, NEW C, Batch(O, C), NEW r, Reflects(r, O, {})
    PROVE  Reflects(r, O, C)
<1> SUFFICES ASSUME NEW i \in Ids PROVE Cell(r[Whole(i)], r[Place(i)], O, C, i)
  BY DEF Reflects
<1> DEFINE w == r[Whole(i)]
           p == r[Place(i)]
<1>1. Cell(w, p, O, {}, i)
  BY DEF Reflects
<1> HIDE DEF w, p
<1>2. Alive(w, p, O, {}, i) => Alive(w, p, O, C, i)
  BY DEF Alive, Of
<1>3. Tombstone(p, O, {}, i) => Tombstone(p, O, C, i)
  <2> SUFFICES ASSUME Tombstone(p, O, {}, i), NEW y \in Of(C, Place(i)) PROVE ~Same(p, y)
    BY DEF Tombstone
  <2>1. PICK x \in Of(O, Whole(i)) : Same(p, x)
    BY DEF Tombstone
  <2>2. ~Same(x, y)
    BY DEF Of, Batch
  <2> QED
    BY <2>1, <2>2 DEF Same
<1>4. Dead(w, p, O, {}, i) => Dead(w, p, O, C, i)
  BY <1>3 DEF Dead
<1> QED
  BY <1>1, <1>2, <1>4 DEF Cell, w, p

LEMMA ApplyRegisters ==
    ASSUME NEW r \in Registers, NEW batch \in Seq(Writes)
    PROVE  Apply(r, batch) \in Registers
<1>1. Foldable(Registers, Writes, Applying(Compose(batch)), r, batch)
  BY ApplyingIs DEF Foldable
<1> QED
  BY <1>1, FoldIn, ApplyIs

LEMMA ApplyReflects ==
    ASSUME NEW O, O \subseteq Writes, NEW batch \in Seq(Writes), Strangers(O, batch),
           NEW r \in Registers, Reflects(r, O, {})
    PROVE  Reflects(Apply(r, batch), O \cup Left(batch), {})
<1> DEFINE C == Left(batch)
           n == Len(batch)
           g == Applying(Compose(batch))
           D(k) == {x \in C : \E m \in 1..k : batch[m] = x}
<1>1. Foldable(Registers, Writes, g, r, batch)
  BY ApplyingIs DEF Foldable
<1> HIDE DEF g
<1>2. PICK h \in [0..n -> Registers] : Trace(h, g, r, batch)
  BY <1>1, TraceExists
<1>3. h[0] = r /\ \A k \in 1..n : h[k] = g[<<h[k - 1], batch[k]>>]
  BY <1>2 DEF Trace
<1>4. n \in Nat /\ \A k \in 1..n : batch[k] \in Writes
  BY LenProperties, ElementOfSeq
<1>5. Batch(O, C)
  BY LeftBatch
<1> DEFINE S == {k \in Nat : k <= n => Reflects(h[k], O \cup D(k), C \ D(k))}
<1>6. 0 \in S
  <2>1. D(0) = {}
    OBVIOUS
  <2>2. O \cup D(0) = O /\ C \ D(0) = C
    BY <2>1
  <2>3. Reflects(r, O, C)
    BY <1>5, ReflectsBefore
  <2> QED
    BY <1>3, <2>2, <2>3
<1>7. ASSUME NEW k \in Nat, k \in S PROVE k + 1 \in S
  <2> SUFFICES ASSUME k + 1 <= n PROVE Reflects(h[k + 1], O \cup D(k + 1), C \ D(k + 1))
    OBVIOUS
  <2> DEFINE op == batch[k + 1]
  <2>1. k + 1 \in 1..n /\ k \in 0..n /\ (k + 1) - 1 = k /\ 1..(k + 1) = 1..k \cup {k + 1}
    BY <1>4
  <2>2. op \in Writes /\ h[k] \in Registers /\ h[k + 1] = g[<<h[k], op>>]
    BY <1>3, <1>4, <2>1
  <2>3. Reflects(h[k], O \cup D(k), C \ D(k))
    BY <1>4, <1>7
  <2>4. D(k) \in SUBSET C
    OBVIOUS
  <2>5. h[k + 1] = IF op \in C THEN ApplySingleOp(h[k], op, {x.path : x \in C}) ELSE h[k]
    <3>1. g[<<h[k], op>>] = IF Compose(batch)[op.path] = op
                            THEN ApplySingleOp(h[k], op, PathsOf(Compose(batch))) ELSE h[k]
      BY <2>2, ApplyingIs DEF g
    <3>2. op \in C <=> Compose(batch)[op.path] = op
      BY <2>2, LeftIs
    <3>3. PathsOf(Compose(batch)) = {x.path : x \in C}
      BY LeftIs
    <3> QED
      BY <2>2, <3>1, <3>2, <3>3
  <2>6. CASE op \in C
    <3>1. D(k + 1) = D(k) \cup {op}
      BY <2>1, <2>6
    <3> HIDE DEF C, D, op
    <3>2. Reflects(ApplySingleOp(h[k], op, {x.path : x \in C}), O \cup (D(k) \cup {op}), C \ (D(k) \cup {op}))
      BY <1>5, <2>2, <2>3, <2>4, <2>6, ReflectsStep
    <3> QED
      BY <2>5, <2>6, <3>1, <3>2
  <2>7. CASE op \notin C
    <3>1. D(k + 1) = D(k)
      BY <2>1, <2>7
    <3> QED
      BY <2>3, <2>5, <2>7, <3>1
  <2> QED
    BY <2>6, <2>7
<1> HIDE DEF S
<1>8. Nat \subseteq S
  BY <1>6, <1>7, Induction
<1>9. Reflects(h[n], O \cup D(n), C \ D(n))
  BY <1>4, <1>8 DEF S
<1>10. D(n) = C
  BY LeftIs
<1>11. O \cup D(n) = O \cup C /\ C \ D(n) = {}
  BY <1>10
<1>12. Apply(r, batch) = h[n]
  BY <1>1, <1>2, FoldTrace, ApplyIs DEF g
<1> QED
  BY <1>9, <1>11, <1>12

\* What is left of the batches N of a log, no two of which are of one millisecond and peer.
Gathered(entries, N) == UNION {Left(entries[n]) : n \in N}

Apart(entries) ==
    \A m, n \in DOMAIN entries : m # n =>
        \A j \in 1..Len(entries[m]), k \in 1..Len(entries[n]) : ~Same(entries[m][j], entries[n][k])

LEMMA GatheredOne ==
    ASSUME NEW entries \in Seq(Seq(Writes)), Apart(entries), NEW N \in SUBSET DOMAIN entries,
           NEW n \in DOMAIN entries, n \notin N, NEW r \in Registers,
           Reflects(r, Gathered(entries, N), {})
    PROVE  /\ Reflects(Apply(r, entries[n]), Gathered(entries, N \cup {n}), {})
           /\ Apply(r, entries[n]) \in Registers
<1>1. DOMAIN entries = 1..Len(entries) /\ \A m \in DOMAIN entries : entries[m] \in Seq(Writes)
  BY LenProperties, ElementOfSeq
<1>2. Gathered(entries, N) \subseteq Writes
  BY <1>1, LeftIs DEF Gathered
<1>3. Strangers(Gathered(entries, N), entries[n])
  <2> SUFFICES ASSUME NEW m \in N, NEW x \in Left(entries[m]), NEW k \in 1..Len(entries[n])
               PROVE  ~Same(x, entries[n][k])
    BY DEF Strangers, Gathered
  <2>1. PICK j \in 1..Len(entries[m]) : entries[m][j] = x
    BY <1>1, LeftIs
  <2> QED
    BY <2>1 DEF Apart
<1>4. Gathered(entries, N) \cup Left(entries[n]) = Gathered(entries, N \cup {n})
  BY DEF Gathered
<1>5. entries[n] \in Seq(Writes)
  BY <1>1
<1> QED
  BY <1>2, <1>3, <1>4, <1>5, ApplyReflects, ApplyRegisters

LEMMA EmptyReflects == Reflects(Empty, {}, {})
<1>1. \A i \in Ids : Empty[Whole(i)] = NoRegister /\ Empty[Place(i)] = NoRegister
  BY PathsAre DEF Empty
<1>2. \A i \in Ids : Of({}, Whole(i)) = {} /\ Of({}, Place(i)) = {}
  BY DEF Of
<1> QED
  BY <1>1, <1>2 DEF Reflects, Cell, WholeIs, Dead

\* The batches of a log applied in an order.
Replaying(entries) == [p \in Registers \X DOMAIN entries |-> Apply(p[1], entries[p[2]])]

LEMMA ReplayFoldable ==
    ASSUME NEW entries \in Seq(Seq(Writes)), NEW order \in Seq(DOMAIN entries)
    PROVE  /\ Foldable(Registers, DOMAIN entries, Replaying(entries), Empty, order)
           /\ FoldFn(Replaying(entries), Empty, order) \in Registers
           /\ \A r \in Registers, m \in DOMAIN entries :
                 Replaying(entries)[<<r, m>>] = Apply(r, entries[m])
<1> DEFINE D == DOMAIN entries
<1>1. \A r \in Registers, m \in D : Apply(r, entries[m]) \in Registers
  <2>1. \A m \in D : entries[m] \in Seq(Writes)
    BY LenProperties, ElementOfSeq
  <2> QED
    BY <2>1, ApplyRegisters
<1> HIDE DEF D
<1>2. ASSUME NEW p \in Registers \X D PROVE Apply(p[1], entries[p[2]]) \in Registers
  <2>1. p[1] \in Registers /\ p[2] \in D
    OBVIOUS
  <2> QED
    BY <1>1, <2>1
<1>3. /\ Replaying(entries) \in [Registers \X D -> Registers]
      /\ \A r \in Registers, m \in D : Replaying(entries)[<<r, m>>] = Apply(r, entries[m])
  BY <1>2 DEF Replaying, D
<1>4. Foldable(Registers, D, Replaying(entries), Empty, order)
  BY <1>3, EmptyType DEF Foldable, D
<1> QED
  BY <1>3, <1>4, FoldIn DEF D

LEMMA ReplayReflects ==
    ASSUME NEW entries \in Seq(Seq(Writes)), Apart(entries), NEW order \in Seq(DOMAIN entries),
           \A j, k \in 1..Len(order) : j # k => order[j] # order[k]
    PROVE  Reflects(FoldFn(Replaying(entries), Empty, order),
                    Gathered(entries, {order[k] : k \in 1..Len(order)}), {})
<1> DEFINE n == Len(order)
           g == Replaying(entries)
           D == DOMAIN entries
           N(k) == {order[j] : j \in 1..k}
<1>2. \A r \in Registers, m \in D : g[<<r, m>>] = Apply(r, entries[m])
  BY ReplayFoldable
<1>3. Foldable(Registers, D, g, Empty, order)
  BY ReplayFoldable
<1> HIDE DEF g
<1>4. PICK h \in [0..n -> Registers] : Trace(h, g, Empty, order)
  BY <1>3, TraceExists
<1>5. h[0] = Empty /\ \A k \in 1..n : h[k] = g[<<h[k - 1], order[k]>>]
  BY <1>4 DEF Trace
<1>6. n \in Nat /\ \A k \in 1..n : order[k] \in D
  BY LenProperties, ElementOfSeq
<1>a. n \in Nat /\ n <= n
  BY <1>6
<1> DEFINE S == {k \in Nat : k <= n => Reflects(h[k], Gathered(entries, N(k)), {})}
<1>7. 0 \in S
  <2>1. N(0) = {}
    OBVIOUS
  <2>2. Gathered(entries, N(0)) = {}
    BY <2>1 DEF Gathered
  <2> QED
    BY <1>5, <2>2, EmptyReflects
<1>8. ASSUME NEW k \in Nat, k \in S PROVE k + 1 \in S
  <2> SUFFICES ASSUME k + 1 <= n PROVE Reflects(h[k + 1], Gathered(entries, N(k + 1)), {})
    OBVIOUS
  <2> DEFINE m == order[k + 1]
  <2>1. /\ k + 1 \in 1..n /\ k \in 0..n /\ (k + 1) - 1 = k /\ 1..(k + 1) = 1..k \cup {k + 1}
        /\ \A j \in 1..k : j \in 1..n /\ j # k + 1
    <3>1. n \in Nat
      BY <1>6
    <3> HIDE DEF n, N, S, D
    <3>2. k + 1 \in 1..n /\ k \in 0..n /\ (k + 1) - 1 = k
      BY <3>1
    <3>3. 1..(k + 1) = 1..k \cup {k + 1}
      OBVIOUS
    <3>4. \A j \in 1..k : j \in 1..n /\ j # k + 1
      BY <3>1
    <3> QED
      BY <3>2, <3>3, <3>4
  <2>2. m \in D /\ h[k] \in Registers /\ h[k + 1] = Apply(h[k], entries[m])
    BY <1>2, <1>5, <1>6, <2>1
  <2>3. Reflects(h[k], Gathered(entries, N(k)), {})
    BY <1>6, <1>8
  <2>4. N(k) \in SUBSET D /\ m \notin N(k) /\ N(k + 1) = N(k) \cup {m}
    BY <1>6, <2>1
  <2> HIDE DEF N, m, D, n
  <2>5. Reflects(Apply(h[k], entries[m]), Gathered(entries, N(k) \cup {m}), {})
    BY <2>2, <2>3, <2>4, GatheredOne DEF D
  <2> QED
    BY <2>2, <2>4, <2>5
<1> HIDE DEF S
<1>9. Nat \subseteq S
  BY <1>7, <1>8, Induction
<1>10. Reflects(h[n], Gathered(entries, N(n)), {})
  <2> HIDE DEF n, N
  <2>1. n \in S
    BY <1>a, <1>9
  <2> QED
    BY <1>a, <2>1 DEF S
<1>11. FoldFn(g, Empty, order) = h[n]
  BY <1>3, <1>4, FoldTrace
<1> QED
  BY <1>10, <1>11 DEF g

\* Documents of the same operations show the same.
LEMMA SameLive ==
    ASSUME NEW T, T \subseteq Writes, NEW r \in Registers, NEW s \in Registers,
           Reflects(r, T, {}), Reflects(s, T, {})
    PROVE  \A p \in Paths : Live(r, p) = Live(s, p)
<1>1. ASSUME NEW x, NEW y, NEW S \in SUBSET Writes, Latest(x, S), Latest(y, S) PROVE x = y
  BY <1>1, NewerLaws DEF Latest
<1>2. ASSUME NEW i \in Ids
      PROVE  Live(r, Whole(i)) = Live(s, Whole(i)) /\ Live(r, Place(i)) = Live(s, Place(i))
  <2> DEFINE w == r[Whole(i)]
             v == s[Whole(i)]
             p == r[Place(i)]
             q == s[Place(i)]
             W == Of(T, Whole(i))
             L == Of(T, Place(i))
  <2>1. Cell(w, p, T, {}, i) /\ Cell(v, q, T, {}, i)
    BY DEF Reflects
  <2>2. W \in SUBSET Writes /\ L \in SUBSET Writes /\ NoRegister \notin Writes
    BY RegisterAssumption DEF Of
  <2> HIDE DEF w, v, p, q
  <2>3. w = v
    <3>1. \A x : Latest(x, W) => x \in W
      BY DEF Latest
    <3> QED
      BY <1>1, <2>1, <2>2, <3>1 DEF Cell, WholeIs
  <2>4. (p = q /\ p # NoRegister) \/ (Dead(w, p, T, {}, i) /\ Dead(w, q, T, {}, i))
    <3>1. \A x : Alive(w, x, T, {}, i) => /\ Latest(x, L) /\ x \in L /\ x # NoRegister
                                         /\ ~(w # NoRegister /\ Newer(w, x))
      <4> SUFFICES ASSUME NEW x, Alive(w, x, T, {}, i)
                   PROVE  Latest(x, L) /\ x \in L /\ x # NoRegister /\ ~(w # NoRegister /\ Newer(w, x))
        OBVIOUS
      <4>1. Latest(x, L) /\ x \in L
        BY DEF Alive, Latest
      <4>2. w = NoRegister \/ ~Newer(w, x)
        BY DEF Alive, Of
      <4> QED
        BY <2>2, <4>1, <4>2
    <3>2. \A x : Dead(w, x, T, {}, i) => \A y \in L : w # NoRegister /\ Newer(w, y)
      BY DEF Dead
    <3>3. /\ Alive(w, p, T, {}, i) \/ Dead(w, p, T, {}, i)
          /\ Alive(w, q, T, {}, i) \/ Dead(w, q, T, {}, i)
      BY <2>1, <2>3 DEF Cell
    <3>4. CASE Alive(w, p, T, {}, i) /\ Alive(w, q, T, {}, i)
      BY <1>1, <2>2, <3>1, <3>4
    <3> QED
      BY <3>1, <3>2, <3>3, <3>4
  <2>5. Whole(i) \in Paths /\ Place(i) \in Paths
    BY PathsAre
  <2>6. Live(r, Whole(i)) = Live(s, Whole(i))
    BY <2>3 DEF Live, w, v
  <2>7. Live(r, Place(i)) = Live(s, Place(i))
    <3>1. CASE p = q
      BY <3>1 DEF Live, p, q
    <3>2. CASE Dead(w, p, T, {}, i) /\ Dead(w, q, T, {}, i)
      <4>1. (p = NoRegister \/ p.value = Deleted) /\ (q = NoRegister \/ q.value = Deleted)
        BY <3>2 DEF Dead, Tombstone
      <4> QED
        BY <4>1 DEF Live, p, q
    <3> QED
      BY <2>4, <3>1, <3>2
  <2> QED
    BY <2>6, <2>7
<1> QED
  BY <1>2, PathsAre

\* The document is told of what is left of the batches of the log.
OrderInv == Apart(log) => Reflects(regs, Gathered(log, DOMAIN log), {})

LEMMA LogWrites ==
    ASSUME TypeInv
    PROVE  /\ log \in Seq(Seq(Writes)) /\ regs \in Registers
           /\ \A c \in Clients : sending[c] \in Seq(Writes)
<1>1. Sent(used) \subseteq Writes
  BY SentIs, OpsAre
<1>2. Seq(Sent(used)) \subseteq Seq(Writes)
  BY <1>1, SeqMonotonic
<1>3. Seq(Seq(Sent(used))) \subseteq Seq(Seq(Writes))
  BY <1>2, SeqMonotonic
<1>4. /\ log \in Seq(Seq(Sent(used))) /\ regs \in Documents(used)
      /\ sending \in [Clients -> Seq(Sent(used))]
  BY DEF TypeInv, Typed, ServerTyped, ClientsTyped
<1> QED
  BY <1>2, <1>3, <1>4, DocumentsAre

LEMMA OrderCommit ==
    ASSUME TypeInv, OrderInv, NEW c \in Clients, Committing(c)
    PROVE  OrderInv'
<1>1. log' = Append(log, sending[c]) /\ regs' = Apply(regs, sending[c])
  BY CommittingIs DEF CommitBatch
<1> DEFINE n == Len(log)
           more == Append(log, sending[c])
<1>2. log \in Seq(Seq(Writes)) /\ regs \in Registers /\ sending[c] \in Seq(Writes)
  BY LogWrites
<1>3. /\ n \in Nat /\ DOMAIN log = 1..n /\ more \in Seq(Seq(Writes)) /\ DOMAIN more = 1..(n + 1)
      /\ \A m \in 1..n : more[m] = log[m]
      /\ more[n + 1] = sending[c]
  BY <1>2, AppendProperties, LenProperties
<1> HIDE DEF n, more
<1> SUFFICES ASSUME Apart(more)
             PROVE  Reflects(Apply(regs, sending[c]), Gathered(more, DOMAIN more), {})
  BY <1>1 DEF OrderInv, more
<1>4. 1..(n + 1) = 1..n \cup {n + 1} /\ n + 1 \notin 1..n
  BY <1>3
<1>5. Apart(log)
  BY <1>3, <1>4 DEF Apart
<1>6. Gathered(log, DOMAIN log) = Gathered(more, 1..n)
  BY <1>3 DEF Gathered
<1>7. Reflects(regs, Gathered(more, 1..n), {})
  BY <1>5, <1>6 DEF OrderInv
<1>8. 1..n \in SUBSET DOMAIN more /\ n + 1 \in DOMAIN more
  BY <1>3, <1>4
<1>9. Reflects(Apply(regs, more[n + 1]), Gathered(more, 1..n \cup {n + 1}), {})
  BY <1>2, <1>3, <1>4, <1>7, <1>8, GatheredOne
<1> QED
  BY <1>3, <1>4, <1>9

LEMMA OrderStep == TypeInv /\ OrderInv /\ [Next]_vars => OrderInv'
<1> SUFFICES ASSUME TypeInv, OrderInv, [Next]_vars PROVE OrderInv'
  OBVIOUS
<1>1. CASE \E c \in Clients : Committing(c)
  BY <1>1, OrderCommit
<1>2. CASE UNCHANGED <<log, regs>>
  BY <1>2 DEF OrderInv
<1>3. ASSUME NEW c \in Clients,
             \/ AddObject(c) \/ ChangeObject(c) \/ RemoveObject(c) \/ Refuse(c) \/ Reconnect(c)
             \/ ReadDocument(c) \/ AddToGroup(c) \/ AnswerJoin(c)
             \/ Answered(c) \/ Receive(c) \/ Install(c) \/ Loaded(c) \/ Finish(c)
      PROVE  UNCHANGED <<log, regs>>
  BY <1>3 DEF AddObject, ChangeObject, RemoveObject, Edit, Refuse, Reconnect, ReadDocument, AddToGroup,
              AnswerJoin, Answered, Receive, Install, Loaded, Finish, serverVars
<1>4. UNCHANGED vars => UNCHANGED <<log, regs>>
  BY DEF vars, serverVars
<1> QED
  BY <1>1, <1>2, <1>3, <1>4 DEF Next, Work, Committing

LEMMA OrderInit == Init => OrderInv
<1> SUFFICES ASSUME Init PROVE OrderInv
  OBVIOUS
<1>1. regs = Empty /\ log = <<>> /\ DOMAIN log = {}
  BY DEF Init
<1>2. Gathered(log, DOMAIN log) = {}
  BY <1>1 DEF Gathered
<1> QED
  BY <1>1, <1>2, EmptyReflects DEF OrderInv

\* An order of a finite set lists all of it.
LEMMA OrderIs ==
    ASSUME NEW n \in Nat, NEW order \in SetToSeqs(1..n)
    PROVE  /\ order \in Seq(1..n)
           /\ \A j, k \in 1..Len(order) : j # k => order[j] # order[k]
           /\ {order[k] : k \in 1..Len(order)} = 1..n
<1>1. IsFiniteSet(1..n) /\ Cardinality(1..n) = n
  BY FS_Interval
<1>2. order \in [1..n -> 1..n] /\ \A j, k \in 1..n : j # k => order[j] # order[k]
  BY <1>1 DEF SetToSeqs
<1>3. order \in Seq(1..n) /\ Len(order) = n
  BY <1>2, SeqDef
<1> DEFINE T == {order[k] : k \in 1..n}
<1>4. T \subseteq 1..n
  BY <1>2
<1>5. order \in [1..n -> T] /\ \A x \in T : \E k \in 1..n : order[k] = x
  BY <1>2
<1>6. order \in Surjection(1..n, T) /\ order \in Injection(1..n, T)
  <2> HIDE DEF T
  <2> QED
    BY <1>2, <1>5 DEF Surjection, Injection, IsInjective
<1> HIDE DEF T
<1>7. Cardinality(T) = n
  BY <1>1, <1>6, FS_Surjection
<1>8. T = 1..n
  BY <1>1, <1>4, <1>7, FS_Subset
<1> QED
  BY <1>2, <1>3, <1>8 DEF T

LEMMA OrderIsIndependent == TypeInv /\ OrderInv => OrderIndependent
<1> SUFFICES ASSUME TypeInv, OrderInv PROVE OrderIndependent
  OBVIOUS
<1> DEFINE Stamps(n) == {<<op.ts, op.peer>> : op \in Range(log[n])}
<1> SUFFICES ASSUME \A m, n \in DOMAIN log : m # n => Stamps(m) \cap Stamps(n) = {},
                    NEW order \in SetToSeqs(DOMAIN log)
             PROVE  \A p \in Paths : Live(FoldFn(Replaying(log), Empty, order), p) = Live(regs, p)
  <2>1. \A order : FoldLeft(LAMBDA r, n : Replaying(log)[<<r, n>>], Empty, order)
                     = FoldFn(Replaying(log), Empty, order)
    BY FoldLeftIs
  <2> QED
    BY <2>1 DEF OrderIndependent, Replaying
<1>1. log \in Seq(Seq(Writes)) /\ regs \in Registers
  BY LogWrites
<1>2. DOMAIN log = 1..Len(log) /\ Len(log) \in Nat /\ \A n \in DOMAIN log : log[n] \in Seq(Writes)
  BY <1>1, LenProperties, ElementOfSeq
<1>3. Apart(log)
  <2> SUFFICES ASSUME NEW m \in DOMAIN log, NEW n \in DOMAIN log, m # n,
                      NEW j \in 1..Len(log[m]), NEW k \in 1..Len(log[n]),
                      Same(log[m][j], log[n][k])
               PROVE  FALSE
    BY DEF Apart
  <2>1. log[m][j] \in Range(log[m]) /\ log[n][k] \in Range(log[n])
    BY <1>2, LenProperties DEF Range
  <2> DEFINE x == log[m][j]
             y == log[n][k]
  <2>2. <<x.ts, x.peer>> \in Stamps(m) /\ <<y.ts, y.peer>> \in Stamps(n)
    BY <2>1
  <2>3. <<x.ts, x.peer>> = <<y.ts, y.peer>>
    BY DEF Same
  <2> QED
    BY <2>2, <2>3
<1>4. /\ order \in Seq(DOMAIN log)
      /\ \A j, k \in 1..Len(order) : j # k => order[j] # order[k]
      /\ {order[k] : k \in 1..Len(order)} = DOMAIN log
  BY <1>2, OrderIs
<1> DEFINE other == FoldFn(Replaying(log), Empty, order)
           T == Gathered(log, DOMAIN log)
<1>5. Reflects(other, T, {})
  BY <1>1, <1>3, <1>4, ReplayReflects
<1>6. Reflects(regs, T, {})
  BY <1>3 DEF OrderInv
<1>7. other \in Registers
  BY <1>1, <1>4, ReplayFoldable
<1>8. T \subseteq Writes
  BY <1>2, LeftIs DEF Gathered
<1> HIDE DEF other, T
<1>9. \A p \in Paths : Live(other, p) = Live(regs, p)
  BY <1>1, <1>5, <1>6, <1>7, <1>8, SameLive
<1> QED
  BY <1>9 DEF other

\* Whatever the order in which the batches reach the server, the document is the same,
\* as long as no peer writes in two batches within one millisecond.
THEOREM AnyOrder == Spec => []OrderIndependent
<1>1. Init => TypeInv /\ OrderInv
  BY TypeInit, OrderInit
<1>2. TypeInv /\ OrderInv /\ [Next]_vars => (TypeInv /\ OrderInv)'
  BY TypeStep, OrderStep
<1>3. TypeInv /\ OrderInv => OrderIndependent
  BY OrderIsIndependent
<1> QED
  BY <1>1, <1>2, <1>3, PTL DEF Spec

----------------------------------------------------------------------------
(***************************************************************************)
(* Everyone comes to show what the server would give.                      *)
(***************************************************************************)
\* What a set of operations with at most one of each path has at a path.
At(S, q) == IF Of(S, q) = {} THEN NoRegister ELSE CHOOSE x \in Of(S, q) : TRUE

\* What is shown of an object: nothing, or a value.
OneShown == {<<>>} \cup {<<v>> : v \in Values}

\* What the sample a shows of an object of which it showed d, after a write of the object
\* as a whole, after one of its property, and after a set of operations.
AfterWhole(a, d, w) ==
    IF w = NoRegister THEN d
    ELSE IF w.value = Deleted THEN <<>>
    ELSE IF a = "scene" /\ d # <<>> THEN d ELSE <<w.value>>
AfterPlace(d, p) == IF p = NoRegister \/ d = <<>> THEN d ELSE <<p.value>>
Outcome(a, d, S, i) == AfterPlace(AfterWhole(a, d, At(S, Whole(i))), At(S, Place(i)))

AfterOne(a, d, op) ==
    IF op.path = Whole(IdOf(op)) THEN AfterWhole(a, d, op) ELSE AfterPlace(d, op)

\* Batches with one operation of a path; that write whole objects only; in which an object
\* that is added comes before its property, and is not newer.
Distinct(b) == \A j, k \in 1..Len(b) : b[j].path = b[k].path => j = k
WholeOnly(b) == \A k \in 1..Len(b) : b[k].path = Whole(IdOf(b[k]))
Ordered(b, i) ==
    \A j, k \in 1..Len(b) :
        b[j].path = Whole(i) /\ b[k].path = Place(i) /\ b[j].value # Deleted
            => j < k /\ ~Newer(b[j], b[k])

LEMMA AtNone ==
    ASSUME NEW S, NEW q
    PROVE  (\A x \in S : x.path # q) => At(S, q) = NoRegister
BY DEF At, Of

LEMMA AtOne ==
    ASSUME NEW S, NEW x \in S, \A y \in S : y.path = x.path => y = x
    PROVE  At(S, x.path) = x
<1>1. Of(S, x.path) = {x}
  BY DEF Of
<1> QED
  BY <1>1 DEF At

LEMMA AtSame ==
    ASSUME NEW S, NEW T, NEW q, \A x : (x \in S /\ x.path = q) <=> (x \in T /\ x.path = q)
    PROVE  At(S, q) = At(T, q)
<1>1. Of(S, q) = Of(T, q)
  BY DEF Of
<1> QED
  BY <1>1 DEF At

LEMMA AtIs ==
    ASSUME NEW S, S \subseteq Ops, NEW q
    PROVE  /\ At(S, q) # NoRegister => At(S, q) \in S /\ At(S, q) \in Ops /\ At(S, q).path = q
           /\ At(S, q) = NoRegister => \A x \in S : x.path # q
<1>1. NoRegister \notin Ops
  BY OpsAre
<1>2. ASSUME Of(S, q) # {} PROVE At(S, q) \in Of(S, q)
  BY <1>2 DEF At
<1>3. Of(S, q) \subseteq S /\ \A x \in Of(S, q) : x.path = q
  BY DEF Of
<1>4. ASSUME Of(S, q) = {} PROVE At(S, q) = NoRegister /\ \A x \in S : x.path # q
  BY <1>4 DEF At, Of
<1> QED
  BY <1>1, <1>2, <1>3, <1>4

\* One operation more, of a path of which there was none.
LEMMA AtAdded ==
    ASSUME NEW S, NEW op, \A x \in S : x.path # op.path
    PROVE  /\ At(S \cup {op}, op.path) = op
           /\ \A q : q # op.path => At(S \cup {op}, q) = At(S, q)
           /\ At(S, op.path) = NoRegister
<1>1. At(S \cup {op}, op.path) = op
  BY AtOne
<1>2. ASSUME NEW q, q # op.path PROVE At(S \cup {op}, q) = At(S, q)
  BY <1>2, AtSame
<1> QED
  BY <1>1, <1>2, AtNone

LEMMA OneShownIs ==
    /\ <<>> \in OneShown /\ \A v \in Values : <<v>> \in OneShown /\ <<v>> # <<>>
    /\ OneShown \subseteq Seq(Values)
    /\ \A d \in OneShown : d # <<>> => /\ Head(d) \in Values /\ d = <<Head(d)>> /\ Tail(d) = <<>>
                                       /\ \A v : [d EXCEPT ![1] = v] = <<v>>
<1>1. \A v \in Values : <<v>> \in Seq(Values)
  OBVIOUS
<1>2. \A v \in Values : <<v>> # <<>> /\ Head(<<v>>) = v /\ Tail(<<v>>) = <<>>
  OBVIOUS
<1>3. \A v, u : [<<v>> EXCEPT ![1] = u] = <<u>>
  OBVIOUS
<1>4. ASSUME NEW d \in OneShown, d # <<>>
      PROVE  /\ Head(d) \in Values /\ d = <<Head(d)>> /\ Tail(d) = <<>>
             /\ \A v : [d EXCEPT ![1] = v] = <<v>>
  <2>1. PICK v \in Values : d = <<v>>
    BY <1>4 DEF OneShown
  <2> QED
    BY <1>2, <1>3, <2>1
<1>5. <<>> \in OneShown /\ \A v \in Values : <<v>> \in OneShown
  BY DEF OneShown
<1>6. OneShown \subseteq Seq(Values)
  <2>1. <<>> \in Seq(Values)
    OBVIOUS
  <2> QED
    BY <1>1, <2>1 DEF OneShown
<1> QED
  BY <1>2, <1>4, <1>5, <1>6

LEMMA OpIs ==
    ASSUME NEW op \in Ops
    PROVE  /\ IdOf(op) \in Ids /\ op.path \in Paths /\ op.value \in Values \cup {Deleted} /\ op # NoRegister
           /\ op.path = Whole(IdOf(op)) \/ op.path = Place(IdOf(op))
           /\ op.path # Whole(IdOf(op)) => op.value \in Values
           /\ \A i \in Ids : (op.path = Whole(i) \/ op.path = Place(i)) => IdOf(op) = i
<1>1. op \in Records /\ op.path \in Paths /\ IdOf(op) \in Ids /\ op.value \in Values \cup {Deleted} /\ op # NoRegister
  BY OpsAre
<1>2. PICK i \in Ids : op.path = Whole(i) \/ op.path = Place(i)
  BY <1>1, PathsAre
<1>3. \A j \in Ids : (op.path = Whole(j) \/ op.path = Place(j)) => IdOf(op) = j
  BY PathsAre DEF IdOf
<1>4. op.path = Whole(IdOf(op)) \/ op.path = Place(IdOf(op))
  BY <1>2, <1>3
<1>5. op.path # Whole(IdOf(op)) => op.value # Deleted
  <2>1. op.value = Deleted => Len(op.path) = 1
    BY DEF Ops
  <2> QED
    BY <1>1, <1>4, <2>1, PathsAre
<1> QED
  BY <1>1, <1>3, <1>4, <1>5

LEMMA AfterType ==
    ASSUME NEW a, NEW d \in OneShown
    PROVE  /\ \A w \in Ops : AfterWhole(a, d, w) \in OneShown
           /\ \A p \in Ops : p.value # Deleted => AfterPlace(d, p) \in OneShown
           /\ AfterWhole(a, d, NoRegister) = d /\ AfterPlace(d, NoRegister) = d
           /\ \A op \in Ops : AfterOne(a, d, op) \in OneShown
<1>1. ASSUME NEW w \in Ops PROVE AfterWhole(a, d, w) \in OneShown
  BY OpIs, OneShownIs DEF AfterWhole
<1>2. ASSUME NEW p \in Ops, p.value # Deleted PROVE AfterPlace(d, p) \in OneShown
  BY <1>2, OpIs, OneShownIs DEF AfterPlace
<1>3. AfterWhole(a, d, NoRegister) = d /\ AfterPlace(d, NoRegister) = d
  BY DEF AfterWhole, AfterPlace
<1>4. ASSUME NEW op \in Ops PROVE AfterOne(a, d, op) \in OneShown
  <2>1. op.path # Whole(IdOf(op)) => op.value # Deleted
    BY OpIs, OpsAre
  <2> QED
    BY <1>1, <1>2, <2>1 DEF AfterOne
<1> QED
  BY <1>1, <1>2, <1>3, <1>4

LEMMA OutcomeType ==
    ASSUME NEW a, NEW d \in OneShown, NEW S, S \subseteq Ops, NEW i \in Ids
    PROVE  /\ Outcome(a, d, S, i) \in OneShown
           /\ (\A x \in S : IdOf(x) # i) => Outcome(a, d, S, i) = d
           /\ At(S, Place(i)) # NoRegister => At(S, Place(i)).value # Deleted
<1> DEFINE w == At(S, Whole(i))
           p == At(S, Place(i))
<1>1. w # NoRegister => w \in Ops
  BY AtIs
<1>2. p # NoRegister => p \in Ops /\ p.value # Deleted
  <2>1. p # NoRegister => p \in Ops /\ p.path = Place(i)
    BY AtIs
  <2>2. Whole(i) # Place(i)
    BY PathsAre
  <2> HIDE DEF p
  <2> QED
    BY <2>1, <2>2, OpIs, OpsAre
<1>3. ASSUME \A x \in S : IdOf(x) # i PROVE w = NoRegister /\ p = NoRegister
  <2>1. \A x \in S : x.path # Whole(i) /\ x.path # Place(i)
    BY <1>3, OpIs
  <2> QED
    BY <2>1, AtNone
<1> HIDE DEF w, p
<1>4. AfterWhole(a, d, w) \in OneShown
  BY <1>1, AfterType
<1>5. AfterPlace(AfterWhole(a, d, w), p) \in OneShown
  BY <1>2, <1>4, AfterType
<1>6. Outcome(a, d, S, i) = AfterPlace(AfterWhole(a, d, w), p)
  BY DEF Outcome, w, p
<1>7. (\A x \in S : IdOf(x) # i) => Outcome(a, d, S, i) = d
  BY <1>3, <1>6, AfterType
<1> QED
  BY <1>2, <1>5, <1>6, <1>7 DEF p

\* Only the operations on the object count.
LEMMA OutcomeSame ==
    ASSUME NEW S, S \subseteq Ops, NEW T, T \subseteq Ops, NEW i \in Ids,
           \A x \in Ops : IdOf(x) = i => (x \in S <=> x \in T)
    PROVE  \A a, d : Outcome(a, d, S, i) = Outcome(a, d, T, i)
<1>1. \A x \in Ops : (x.path = Whole(i) \/ x.path = Place(i)) => IdOf(x) = i
  BY OpIs
<1>2. At(S, Whole(i)) = At(T, Whole(i)) /\ At(S, Place(i)) = At(T, Place(i))
  BY <1>1, AtSame
<1> QED
  BY <1>2 DEF Outcome

\* One operation more, of a path of which there was none.
LEMMA OutcomeAdded ==
    ASSUME NEW a, NEW d \in OneShown, NEW S, S \subseteq Ops, NEW i \in Ids, NEW op \in Ops,
           At(S, op.path) = NoRegister,
           op.path # Whole(i) \/ op.value = Deleted \/ At(S, Place(i)) = NoRegister,
           NEW T, T = S \cup {op}
    PROVE  /\ IdOf(op) = i => Outcome(a, d, T, i) = AfterOne(a, Outcome(a, d, S, i), op)
           /\ IdOf(op) # i => Outcome(a, d, T, i) = Outcome(a, d, S, i)
<1> DEFINE w == At(S, Whole(i))
           p == At(S, Place(i))
<1>0. Whole(i) # Place(i)
  BY PathsAre
<1>1. Outcome(a, d, S, i) = AfterPlace(AfterWhole(a, d, w), p)
  BY DEF Outcome
<1>2. Outcome(a, d, T, i) = AfterPlace(AfterWhole(a, d, At(T, Whole(i))), At(T, Place(i)))
  BY DEF Outcome
<1>c. \A x \in S : x.path # op.path
  BY AtIs
<1>a. /\ At(T, op.path) = op /\ \A q : q # op.path => At(T, q) = At(S, q)
      /\ At(S, op.path) = NoRegister
  <2>1. At(S \cup {op}, op.path) = op /\ At(S, op.path) = NoRegister
    BY <1>c, AtAdded
  <2>2. ASSUME NEW q, q # op.path PROVE At(S \cup {op}, q) = At(S, q)
    BY <2>2, AtSame
  <2> QED
    BY <2>1, <2>2
<1>b. p # NoRegister => p.value # Deleted
  BY OutcomeType
<1>3. CASE op.path = Whole(i)
  <2>1. IdOf(op) = i
    BY <1>3, OpIs
  <2>2. At(T, Whole(i)) = op /\ At(T, Place(i)) = p /\ w = NoRegister
    BY <1>0, <1>3, <1>a
  <2>3. CASE op.value = Deleted
    <3>1. AfterWhole(a, d, op) = <<>> /\ \A e : AfterWhole(a, e, op) = <<>>
      BY <2>3, OpIs DEF AfterWhole
    <3>2. AfterPlace(<<>>, p) = <<>>
      BY DEF AfterPlace
    <3> HIDE DEF p, w
    <3>3. Outcome(a, d, T, i) = <<>>
      BY <1>2, <2>2, <3>1, <3>2
    <3> QED
      BY <1>3, <2>1, <3>1, <3>3 DEF AfterOne
  <2>4. CASE op.value # Deleted
    <3>1. p = NoRegister
      BY <1>3, <2>4
    <3> HIDE DEF p, w
    <3>2. Outcome(a, d, S, i) = d
      BY <1>1, <2>2, <3>1, AfterType
    <3>3. Outcome(a, d, T, i) = AfterWhole(a, d, op)
      <4>1. AfterWhole(a, d, op) \in OneShown
        BY AfterType
      <4> QED
        BY <1>2, <2>2, <3>1, <4>1, AfterType
    <3> QED
      BY <1>3, <2>1, <3>2, <3>3 DEF AfterOne
  <2> QED
    BY <2>3, <2>4
<1>4. CASE op.path = Place(i)
  <2>1. IdOf(op) = i
    BY <1>4, OpIs
  <2>2. At(T, Whole(i)) = w /\ At(T, Place(i)) = op /\ p = NoRegister
    BY <1>0, <1>4, <1>a
  <2> HIDE DEF p, w
  <2>3. Outcome(a, d, S, i) = AfterWhole(a, d, w)
    BY <1>1, <2>2 DEF AfterPlace
  <2>4. Outcome(a, d, T, i) = AfterPlace(AfterWhole(a, d, w), op)
    BY <1>2, <2>2
  <2> QED
    BY <1>0, <1>4, <2>1, <2>3, <2>4 DEF AfterOne
<1>5. CASE op.path # Whole(i) /\ op.path # Place(i)
  <2>1. IdOf(op) # i
    BY <1>5, OpIs
  <2>2. At(T, Whole(i)) = w /\ At(T, Place(i)) = p
    BY <1>5, <1>a
  <2> HIDE DEF p, w
  <2> QED
    BY <1>1, <1>2, <2>1, <2>2
<1> QED
  BY <1>3, <1>4, <1>5

----------------------------------------------------------------------------
\* What an editor shows of an object, or is about to when its image is loaded.
SeenIn(ed, i) ==
    IF \E x \in ed.loading : x.id = i THEN <<(CHOOSE x \in ed.loading : x.id = i).value>> ELSE ed.show[i]

Busy(ed) == {x.id : x \in ed.loading}

\* An editor that shows one object of an id, and loads one image for it.
TidyEditor(a, ed) ==
    /\ \A i \in Ids : ed.show[i] \in OneShown
    /\ a \notin {"canvas", "stage"} => ed.loading = {}
    /\ \A x \in ed.loading : ~x.late /\ ed.show[x.id] = IF a = "canvas" THEN <<>> ELSE <<x.value>>
    /\ \A x, y \in ed.loading : x.id = y.id => x = y

LEMMA SeenIs ==
    ASSUME NEW a, NEW ed \in Editor, TidyEditor(a, ed), NEW i \in Ids
    PROVE  /\ SeenIn(ed, i) \in OneShown
           /\ i \notin Busy(ed) => SeenIn(ed, i) = ed.show[i]
           /\ \A x \in ed.loading : x.id = i => SeenIn(ed, i) = <<x.value>>
<1>1. CASE i \notin Busy(ed)
  BY <1>1 DEF SeenIn, Busy, TidyEditor
<1>2. CASE i \in Busy(ed)
  <2>1. PICK x \in ed.loading : x.id = i
    BY <1>2 DEF Busy
  <2>2. \A y \in ed.loading : y.id = i => y = x
    BY <2>1 DEF TidyEditor
  <2>3. (CHOOSE y \in ed.loading : y.id = i) = x
    BY <2>1, <2>2
  <2>4. x.value \in Values
    BY DEF Editor
  <2> QED
    BY <1>2, <2>1, <2>2, <2>3, <2>4, OneShownIs DEF SeenIn
<1> QED
  BY <1>1, <1>2

LEMMA ShowingIs ==
    ASSUME NEW ed \in Editor, NEW i \in Ids, NEW objs \in Seq(Values)
    PROVE  /\ Showing(ed, i, objs) \in Editor
           /\ Showing(ed, i, objs).loading = ed.loading
           /\ Showing(ed, i, objs).show = [ed.show EXCEPT ![i] = objs]
           /\ ed.show \in [Ids -> Seq(Values)]
           /\ ed.loading \subseteq [id : Ids, value : Values, late : BOOLEAN]
<1>1. ed \in Editors(Ids)
  BY AllIds
<1>2. Showing(ed, i, objs) \in Editors(Ids) /\ Showing(ed, i, objs).loading = ed.loading
      /\ Showing(ed, i, objs).show = [ed.show EXCEPT ![i] = objs]
  BY <1>1, ShowingType
<1>3. ed.show \in [Ids -> Seq(Values)] /\ ed.loading \subseteq [id : Ids, value : Values, late : BOOLEAN]
  BY DEF Editor
<1> QED
  BY <1>2, <1>3, AllIds

LEMMA ShowingLoads ==
    ASSUME NEW ed \in Editor, NEW i \in Ids
    PROVE  \A objs \in Seq(Values) : Showing(ed, i, objs) \in Editor /\ Showing(ed, i, objs).loading = ed.loading
<1> TAKE objs \in Seq(Values)
<1>1. ed \in Editors(Ids)
  BY AllIds
<1>2. Showing(ed, i, objs) \in Editors(Ids) /\ Showing(ed, i, objs).loading = ed.loading
      /\ Showing(ed, i, objs).show = [ed.show EXCEPT ![i] = objs]
  BY <1>1, ShowingType
<1> QED
  BY <1>2, AllIds

LEMMA LoadingIs ==
    ASSUME NEW ed \in Editor, NEW i \in Ids, NEW v \in Values
    PROVE  /\ Loading(ed, i, v) \in Editor
           /\ Loading(ed, i, v).show = ed.show
           /\ Loading(ed, i, v).loading = ed.loading \cup {[id |-> i, value |-> v, late |-> FALSE]}
<1>1. ed = [show |-> ed.show, loading |-> ed.loading] /\ ed \in Editors(Ids)
  BY AllIds, EditorsAre
<1>2. Loading(ed, i, v) \in Editor
  BY <1>1, AllIds, LoadingType
<1> QED
  BY <1>1, <1>2 DEF Loading

LEMMA ShowingTidy ==
    ASSUME NEW a, NEW ed \in Editor, TidyEditor(a, ed), NEW i \in Ids, i \notin Busy(ed),
           NEW objs \in OneShown, NEW new, new = Showing(ed, i, objs)
    PROVE  /\ new \in Editor /\ TidyEditor(a, new) /\ Busy(new) = Busy(ed)
           /\ SeenIn(new, i) = objs
           /\ \A j \in Ids : j # i => SeenIn(new, j) = SeenIn(ed, j)
<1>1. objs \in Seq(Values)
  BY OneShownIs
<1>2. /\ new \in Editor /\ new.loading = ed.loading /\ new.show = [ed.show EXCEPT ![i] = objs]
      /\ ed.show \in [Ids -> Seq(Values)] /\ ed.loading \subseteq [id : Ids, value : Values, late : BOOLEAN]
  BY <1>1, ShowingIs
<1>3. Busy(new) = Busy(ed)
  BY <1>2 DEF Busy
<1>4. \A x \in ed.loading : x.id # i /\ x.id \in Ids
  BY <1>2 DEF Busy
<1>5. new.show[i] = objs /\ \A j \in Ids : j # i => new.show[j] = ed.show[j]
  BY <1>2
<1>6. TidyEditor(a, new)
  BY <1>2, <1>4, <1>5 DEF TidyEditor
<1>7. SeenIn(new, i) = objs
  BY <1>2, <1>4, <1>5 DEF SeenIn
<1>8. \A j \in Ids : j # i => SeenIn(new, j) = SeenIn(ed, j)
  BY <1>2, <1>5 DEF SeenIn
<1> QED
  BY <1>2, <1>3, <1>6, <1>7, <1>8

LEMMA LoadingTidy ==
    ASSUME NEW a \in {"canvas", "stage"}, NEW ed \in Editor, TidyEditor(a, ed), NEW i \in Ids, i \notin Busy(ed),
           NEW v \in Values, ed.show[i] = IF a = "canvas" THEN <<>> ELSE <<v>>,
           NEW new, new = Loading(ed, i, v)
    PROVE  /\ new \in Editor /\ TidyEditor(a, new) /\ Busy(new) = Busy(ed) \cup {i}
           /\ SeenIn(new, i) = <<v>>
           /\ \A j \in Ids : j # i => SeenIn(new, j) = SeenIn(ed, j)
<1> DEFINE x == [id |-> i, value |-> v, late |-> FALSE]
<1>1. x.id = i /\ x.value = v /\ x.late = FALSE
  OBVIOUS
<1>2. new \in Editor /\ new.show = ed.show /\ new.loading = ed.loading \cup {x}
  BY LoadingIs
<1> HIDE DEF x
<1>3. Busy(new) = Busy(ed) \cup {i}
  BY <1>1, <1>2 DEF Busy
<1>4. \A y \in ed.loading : y.id # i
  BY DEF Busy
<1>5. TidyEditor(a, new)
  <2>1. \A y \in new.loading : ~y.late /\ new.show[y.id] = IF a = "canvas" THEN <<>> ELSE <<y.value>>
    BY <1>1, <1>2 DEF TidyEditor
  <2>2. \A y, z \in new.loading : y.id = z.id => y = z
    BY <1>1, <1>2, <1>4 DEF TidyEditor
  <2> QED
    BY <1>2, <2>1, <2>2 DEF TidyEditor
<1>6. SeenIn(new, i) = <<v>>
  BY <1>1, <1>2, <1>5, SeenIs
<1>7. ASSUME NEW j \in Ids, j # i PROVE SeenIn(new, j) = SeenIn(ed, j)
  <2>1. \A y : (y \in new.loading /\ y.id = j) <=> (y \in ed.loading /\ y.id = j)
    BY <1>1, <1>2, <1>7
  <2>2. CASE j \in Busy(ed)
    <3>1. PICK y \in ed.loading : y.id = j
      BY <2>2 DEF Busy
    <3> QED
      BY <1>2, <1>5, <2>1, <3>1, SeenIs
  <2>3. CASE j \notin Busy(ed)
    BY <1>2, <1>3, <1>5, <1>7, <2>3, SeenIs
  <2> QED
    BY <2>2, <2>3
<1> QED
  BY <1>2, <1>3, <1>5, <1>6, <1>7

\* One operation, on an object for which no image is being loaded.
LEMMA AppliedOne ==
    ASSUME app \in Apps, NEW ed \in Editor, TidyEditor(app, ed), NEW op \in Ops,
           app # "scene" => op.path = Whole(IdOf(op)), IdOf(op) \notin Busy(ed),
           NEW new, new = ApplyOp(ed, op)
    PROVE  /\ new \in Editor /\ TidyEditor(app, new) /\ Busy(new) \subseteq Busy(ed) \cup {IdOf(op)}
           /\ SeenIn(new, IdOf(op)) = AfterOne(app, SeenIn(ed, IdOf(op)), op)
           /\ \A j \in Ids : j # IdOf(op) => SeenIn(new, j) = SeenIn(ed, j)
<1> DEFINE id == IdOf(op)
           v == op.value
           d == ed.show[id]
           Goal == /\ new \in Editor /\ TidyEditor(app, new) /\ Busy(new) \subseteq Busy(ed) \cup {id}
                   /\ SeenIn(new, id) = AfterOne(app, SeenIn(ed, id), op)
                   /\ \A j \in Ids : j # id => SeenIn(new, j) = SeenIn(ed, j)
<1> SUFFICES Goal
  OBVIOUS
<1>1. id \in Ids /\ v \in Values \cup {Deleted} /\ op # NoRegister /\ op.path \in Paths /\ op.path[1] = id
      /\ (op.path = Whole(id) \/ op.path = Place(id)) /\ (op.path # Whole(id) => v \in Values)
  BY OpIs DEF IdOf
<1>2. d \in OneShown /\ SeenIn(ed, id) = d
  BY <1>1, SeenIs DEF TidyEditor
<1>3. <<>> \in OneShown /\ (v # Deleted => v \in Values /\ <<v>> \in OneShown /\ <<v>> # <<>>)
  BY <1>1, OneShownIs
<1>4. Len(Whole(id)) = 1 /\ Len(Place(id)) = 2
  BY <1>1, PathsAre
<1>5. AfterOne(app, d, op) = IF op.path = Whole(id) THEN AfterWhole(app, d, op) ELSE AfterPlace(d, op)
  BY DEF AfterOne
<1>6. /\ v = Deleted => AfterWhole(app, d, op) = <<>>
      /\ v # Deleted /\ (app # "scene" \/ d = <<>>) => AfterWhole(app, d, op) = <<v>>
      /\ v # Deleted /\ app = "scene" /\ d # <<>> => AfterWhole(app, d, op) = d
      /\ AfterPlace(d, op) = IF d = <<>> THEN d ELSE <<v>>
  BY <1>1 DEF AfterWhole, AfterPlace
<1>7. ASSUME NEW objs \in OneShown, new = Showing(ed, id, objs), objs = AfterOne(app, d, op) PROVE Goal
  BY <1>1, <1>2, <1>7, ShowingTidy
<1>8. ASSUME new = ed, d = AfterOne(app, d, op) PROVE Goal
  BY <1>2, <1>8
<1> HIDE DEF id, v, d, Goal
<1>9. CASE app \in {"cards", "diagram"}
  <2>1. new = Showing(ed, id, IF v = Deleted THEN <<>> ELSE <<v>>)
    BY <1>9 DEF ApplyOp, ApplyCard, id, v
  <2>2. AfterOne(app, d, op) = IF v = Deleted THEN <<>> ELSE <<v>>
    BY <1>5, <1>6, <1>9 DEF id
  <2> QED
    BY <1>3, <1>7, <2>1, <2>2
<1>10. CASE app = "scene"
  <2>1. new = ApplyPath(ed, op.path, v)
    BY <1>10 DEF ApplyOp, v
  <2>2. CASE op.path = Whole(id)
    <3>1. new = IF v = Deleted THEN Showing(ed, id, <<>>) ELSE IF d # <<>> THEN ed ELSE Showing(ed, id, <<v>>)
      BY <1>1, <1>4, <2>1, <2>2 DEF ApplyPath, d
    <3> QED
      BY <1>3, <1>5, <1>6, <1>7, <1>8, <1>10, <2>2, <3>1
  <2>3. CASE op.path = Place(id)
    <3>1. new = IF d = <<>> THEN ed ELSE Showing(ed, id, <<v>>)
      BY <1>1, <1>4, <2>1, <2>3 DEF ApplyPath, d
    <3>2. v # Deleted /\ op.path # Whole(id)
      BY <1>1, <1>4, <2>3, OpsAre
    <3> QED
      BY <1>3, <1>5, <1>6, <1>7, <1>8, <3>1, <3>2
  <2> QED
    BY <1>1, <2>2, <2>3
<1>11. CASE app = "canvas"
  <2> DEFINE rem == Showing(ed, id, <<>>)
  <2>1. new = IF v = Deleted THEN rem ELSE Loading(rem, id, v)
    <3>1. (IF d = <<>> THEN <<>> ELSE Tail(d)) = <<>>
      BY <1>2, OneShownIs
    <3>2. new = LET removed == Showing(ed, id, IF d = <<>> THEN <<>> ELSE Tail(d))
                IN  IF v = Deleted THEN removed ELSE Loading(removed, id, v)
      BY <1>11 DEF ApplyOp, ApplyCanvas, id, v, d
    <3> QED
      BY <3>1, <3>2
  <2>2. op.path = Whole(id) /\ AfterOne(app, d, op) = IF v = Deleted THEN <<>> ELSE <<v>>
    BY <1>5, <1>6, <1>11 DEF id
  <2>3. CASE v = Deleted
    BY <1>3, <1>7, <2>1, <2>2, <2>3
  <2>4. CASE v # Deleted
    <3>1. /\ rem \in Editor /\ TidyEditor(app, rem) /\ Busy(rem) = Busy(ed)
          /\ SeenIn(rem, id) = <<>>
          /\ \A j \in Ids : j # id => SeenIn(rem, j) = SeenIn(ed, j)
      BY <1>1, <1>3, ShowingTidy DEF id
    <3>2. id \notin Busy(rem)
      BY <3>1 DEF id
    <3>3. rem.show[id] = <<>>
      BY <1>1, <3>1, <3>2, SeenIs
    <3> HIDE DEF rem
    <3>4. new = Loading(rem, id, v) /\ v \in Values /\ app \in {"canvas", "stage"}
      BY <1>3, <1>11, <2>1, <2>4
    <3>5. /\ new \in Editor /\ TidyEditor(app, new) /\ Busy(new) = Busy(rem) \cup {id}
          /\ SeenIn(new, id) = <<v>>
          /\ \A j \in Ids : j # id => SeenIn(new, j) = SeenIn(rem, j)
      BY <1>1, <1>11, <3>1, <3>2, <3>3, <3>4, LoadingTidy
    <3> QED
      BY <1>2, <2>2, <2>4, <3>1, <3>5 DEF Goal
  <2> QED
    BY <2>3, <2>4
<1>12. CASE app = "stage"
  <2>1. new = ApplyShape(ed, id, v)
    BY <1>12 DEF ApplyOp, id, v
  <2>2. op.path = Whole(id) /\ AfterOne(app, d, op) = IF v = Deleted THEN <<>> ELSE <<v>>
    BY <1>5, <1>6, <1>12 DEF id
  <2>3. CASE v = Deleted /\ d = <<>>
    BY <1>8, <2>1, <2>2, <2>3 DEF ApplyShape, d
  <2>4. CASE v = Deleted /\ d # <<>>
    <3>1. Tail(d) = <<>>
      BY <1>2, <2>4, OneShownIs
    <3>2. new = [Showing(ed, id, <<>>) EXCEPT !.loading = Unplaced(@, id)]
      BY <2>1, <2>4, <3>1 DEF ApplyShape, d
    <3>3. <<>> \in Seq(Values)
      OBVIOUS
    <3>4. Showing(ed, id, <<>>) \in Editor /\ Showing(ed, id, <<>>).loading = ed.loading
      <4>1. \A objs \in Seq(Values) : Showing(ed, id, objs) \in Editor /\ Showing(ed, id, objs).loading = ed.loading
        BY <1>1, ShowingLoads
      <4> QED
        BY <3>3, <4>1
    <3>5. Unplaced(ed.loading, id) = ed.loading
      <4>1. \A x \in ed.loading : x.id # id
        BY DEF Busy, id
      <4> QED
        BY <4>1 DEF Unplaced
    <3>6. \A e \in Editor : [e EXCEPT !.loading = e.loading] = e
      BY DEF Editor
    <3>7. new = Showing(ed, id, <<>>)
      BY <3>2, <3>4, <3>5, <3>6
    <3> QED
      BY <1>3, <1>7, <2>2, <2>4, <3>7
  <2>5. CASE v # Deleted /\ d # <<>>
    <3>1. new = Showing(ed, id, [d EXCEPT ![1] = v])
      BY <2>1, <2>5 DEF ApplyShape, d
    <3>2. [d EXCEPT ![1] = v] = <<v>>
      BY <1>2, <2>5, OneShownIs
    <3> QED
      BY <1>3, <1>7, <2>2, <2>5, <3>1, <3>2
  <2>6. CASE v # Deleted /\ d = <<>>
    <3> DEFINE put == Showing(ed, id, <<v>>)
    <3>0. new = Loading(put, id, v) /\ v \in Values /\ app \in {"canvas", "stage"}
      BY <1>3, <1>12, <2>1, <2>6 DEF ApplyShape, d
    <3>1. /\ put \in Editor /\ TidyEditor(app, put) /\ Busy(put) = Busy(ed)
          /\ SeenIn(put, id) = <<v>>
          /\ \A j \in Ids : j # id => SeenIn(put, j) = SeenIn(ed, j)
      BY <1>1, <1>3, <2>6, ShowingTidy DEF id
    <3>2. id \notin Busy(put)
      BY <3>1 DEF id
    <3>3. put.show[id] = <<v>>
      BY <1>1, <3>1, <3>2, SeenIs
    <3> HIDE DEF put
    <3>5. /\ new \in Editor /\ TidyEditor(app, new) /\ Busy(new) = Busy(put) \cup {id}
          /\ SeenIn(new, id) = <<v>>
          /\ \A j \in Ids : j # id => SeenIn(new, j) = SeenIn(put, j)
      BY <1>1, <1>12, <3>0, <3>1, <3>2, <3>3, LoadingTidy
    <3> QED
      BY <1>2, <2>2, <2>6, <3>1, <3>5 DEF Goal
  <2> QED
    BY <2>3, <2>4, <2>5, <2>6
<1> QED
  BY <1>9, <1>10, <1>11, <1>12 DEF Apps

\* What holds of nothing and no element, and of each result with one element more, holds of
\* the fold.
LEMMA FoldInduction ==
    ASSUME NEW A, NEW C, NEW g, NEW base, NEW seq, Foldable(A, C, g, base, seq),
           NEW H, <<0, base>> \in H,
           \A k \in Nat, s \in A :
               k + 1 \in 1..Len(seq) /\ <<k, s>> \in H => <<k + 1, g[<<s, seq[k + 1]>>]>> \in H
    PROVE  <<Len(seq), FoldFn(g, base, seq)>> \in H
<1>1. PICK h \in [0..Len(seq) -> A] : Trace(h, g, base, seq)
  BY TraceExists
<1>2. Len(seq) \in Nat
  BY DEF Foldable
<1> DEFINE S == {k \in Nat : k <= Len(seq) => <<k, h[k]>> \in H}
<1>3. 0 \in S
  BY <1>1 DEF Trace
<1>4. ASSUME NEW k \in Nat, k \in S PROVE k + 1 \in S
  <2> SUFFICES ASSUME k + 1 <= Len(seq) PROVE <<k + 1, h[k + 1]>> \in H
    OBVIOUS
  <2>1. <<k, h[k]>> \in H /\ k + 1 \in 1..Len(seq) /\ k \in 0..Len(seq)
    BY <1>2, <1>4
  <2>2. h[k + 1] = g[<<h[k], seq[k + 1]>>]
    <3>1. h[k + 1] = g[<<h[(k + 1) - 1], seq[k + 1]>>]
      BY <1>1, <2>1 DEF Trace
    <3>2. (k + 1) - 1 = k
      OBVIOUS
    <3> QED
      BY <3>1, <3>2
  <2>3. h[k] \in A
    BY <1>1, <2>1
  <2>4. <<k + 1, g[<<h[k], seq[k + 1]>>]>> \in H
    BY <2>1, <2>3
  <2> QED
    BY <2>2, <2>4
<1> HIDE DEF S
<1>5. Nat \subseteq S
  BY <1>3, <1>4, Induction
<1>6. <<Len(seq), h[Len(seq)]>> \in H
  BY <1>2, <1>5 DEF S
<1>7. FoldFn(g, base, seq) = h[Len(seq)]
  BY <1>1, FoldTrace
<1> QED
  BY <1>6, <1>7

\* The first n elements of a sequence, as a set.
FirstOf(b, n) == {b[k] : k \in 1..n}

LEMMA FirstOfIs ==
    ASSUME NEW T, NEW b \in Seq(T)
    PROVE  /\ FirstOf(b, 0) = {} /\ FirstOf(b, Len(b)) = Range(b) /\ Len(b) \in Nat
           /\ \A n \in Nat : n + 1 \in 1..Len(b) => /\ FirstOf(b, n + 1) = FirstOf(b, n) \cup {b[n + 1]}
                                                    /\ FirstOf(b, n) \subseteq T /\ b[n + 1] \in T
                                                    /\ FirstOf(b, n) \subseteq Range(b) /\ b[n + 1] \in Range(b)
<1>1. FirstOf(b, 0) = {}
  BY DEF FirstOf
<1>2. Len(b) \in Nat /\ DOMAIN b = 1..Len(b) /\ \A k \in 1..Len(b) : b[k] \in T
  BY LenProperties, ElementOfSeq
<1>3. FirstOf(b, Len(b)) = Range(b)
  BY <1>2 DEF FirstOf, Range
<1>4. ASSUME NEW n \in Nat, n + 1 \in 1..Len(b)
      PROVE  /\ FirstOf(b, n + 1) = FirstOf(b, n) \cup {b[n + 1]}
             /\ FirstOf(b, n) \subseteq T /\ b[n + 1] \in T
             /\ FirstOf(b, n) \subseteq Range(b) /\ b[n + 1] \in Range(b)
  <2>1. 1..(n + 1) = (1..n) \cup {n + 1}
    OBVIOUS
  <2>2. 1..n \subseteq 1..Len(b)
    BY <1>2, <1>4
  <2>3. FirstOf(b, n + 1) = FirstOf(b, n) \cup {b[n + 1]}
    BY <2>1 DEF FirstOf
  <2> QED
    BY <1>2, <1>4, <2>2, <2>3 DEF FirstOf, Range
<1> QED
  BY <1>1, <1>2, <1>3, <1>4

\* The editor shows the outcome of a batch.
LEMMA BatchApplied ==
    ASSUME app \in Apps, NEW c, NEW ed, ed = EditorOf(c), ed \in Editor, TidyEditor(app, ed),
           NEW b \in Seq(Ops), Distinct(b), app # "scene" => WholeOnly(b),
           \A k \in 1..Len(b) : IdOf(b[k]) \notin Busy(ed),
           NEW new, new = ApplyOps(c, b)
    PROVE  /\ new \in Editor /\ TidyEditor(app, new)
           /\ Busy(new) \subseteq Busy(ed) \cup IdsOf(b)
           /\ \A i \in Ids : Ordered(b, i) => SeenIn(new, i) = Outcome(app, SeenIn(ed, i), Range(b), i)
<1> DEFINE Fine(k, e) ==
               /\ TidyEditor(app, e)
               /\ Busy(e) \subseteq Busy(ed) \cup {IdOf(op) : op \in FirstOf(b, k)}
               /\ \A i \in Ids : Ordered(b, i) => SeenIn(e, i) = Outcome(app, SeenIn(ed, i), FirstOf(b, k), i)
           H == {p \in Nat \X Editor : Fine(p[1], p[2])}
<1>1. Foldable(Editor, Ops, Shown, ed, b)
  BY ShownIs DEF Foldable
<1>2. \A i \in Ids : SeenIn(ed, i) \in OneShown
  BY SeenIs
<1>3. <<0, ed>> \in H
  <2>1. FirstOf(b, 0) = {}
    BY FirstOfIs
  <2>2. \A i \in Ids : Outcome(app, SeenIn(ed, i), {}, i) = SeenIn(ed, i)
    BY <1>2, OutcomeType
  <2> QED
    BY <2>1, <2>2
<1>4. ASSUME NEW k \in Nat, NEW e \in Editor, k + 1 \in 1..Len(b), <<k, e>> \in H
      PROVE  <<k + 1, Shown[<<e, b[k + 1]>>]>> \in H
  <2> DEFINE op == b[k + 1]
             F == FirstOf(b, k)
             f == ApplyOp(e, op)
  <2>1. Fine(k, e)
    BY <1>4
  <2>2. FirstOf(b, k + 1) = F \cup {op} /\ F \subseteq Ops /\ op \in Ops
    BY <1>4, FirstOfIs
  <2>3. \A x \in F : \E j \in 1..k : x = b[j]
    BY DEF FirstOf
  <2>4. \A j \in 1..k : j \in 1..Len(b) /\ j # k + 1
    BY <1>4
  <2>5. \A x \in F : x.path # op.path
    BY <1>4, <2>3, <2>4 DEF Distinct
  <2>6. app # "scene" => op.path = Whole(IdOf(op)) /\ \A x \in F : x.path = Whole(IdOf(x))
    BY <1>4, <2>3, <2>4 DEF WholeOnly
  <2>7. IdOf(op) \notin Busy(e)
    <3>1. CASE app = "scene"
      BY <2>1, <3>1 DEF TidyEditor, Busy
    <3>2. CASE app # "scene"
      <4>1. \A x \in F : IdOf(x) # IdOf(op)
        BY <2>5, <2>6, <3>2
      <4>2. IdOf(op) \notin Busy(ed)
        BY <1>4
      <4> HIDE DEF op, F
      <4> QED
        BY <2>1, <4>1, <4>2 DEF F
    <3> QED
      BY <3>1, <3>2
  <2>8. Shown[<<e, op>>] = f
    BY <2>2, ShownIs
  <2> HIDE DEF op, F, f
  <2>9. /\ f \in Editor /\ TidyEditor(app, f) /\ Busy(f) \subseteq Busy(e) \cup {IdOf(op)}
        /\ SeenIn(f, IdOf(op)) = AfterOne(app, SeenIn(e, IdOf(op)), op)
        /\ \A j \in Ids : j # IdOf(op) => SeenIn(f, j) = SeenIn(e, j)
    <3>1. app # "scene" => op.path = Whole(IdOf(op))
      BY <2>6
    <3> QED
      BY <2>1, <2>2, <2>7, <3>1, AppliedOne DEF f
  <2>10. Busy(f) \subseteq Busy(ed) \cup {IdOf(x) : x \in FirstOf(b, k + 1)}
    BY <2>1, <2>2, <2>9 DEF F
  <2>11. ASSUME NEW i \in Ids, Ordered(b, i)
         PROVE  SeenIn(f, i) = Outcome(app, SeenIn(ed, i), FirstOf(b, k + 1), i)
    <3>1. SeenIn(e, i) = Outcome(app, SeenIn(ed, i), F, i)
      BY <2>1, <2>11 DEF F
    <3>2. op.path = Whole(i) /\ op.value # Deleted => \A x \in F : x.path # Place(i)
      <4> SUFFICES ASSUME op.path = Whole(i), op.value # Deleted, NEW j \in 1..k, b[j].path = Place(i) PROVE FALSE
        BY <2>3
      <4>1. j \in 1..Len(b) /\ ~(k + 1 < j)
        BY <2>4
      <4> QED
        BY <1>4, <2>11, <4>1 DEF Ordered, op
    <3>3. Outcome(app, SeenIn(ed, i), F \cup {op}, i) =
              IF IdOf(op) = i THEN AfterOne(app, SeenIn(e, i), op) ELSE SeenIn(e, i)
      <4> DEFINE d == SeenIn(ed, i)
      <4>1. d \in OneShown
        BY <1>2
      <4> HIDE DEF d
      <4>2. Outcome(app, d, F \cup {op}, i) =
                IF IdOf(op) = i THEN AfterOne(app, Outcome(app, d, F, i), op) ELSE Outcome(app, d, F, i)
        <5>1. At(F, op.path) = NoRegister
          BY <2>5, AtNone
        <5>2. op.path # Whole(i) \/ op.value = Deleted \/ At(F, Place(i)) = NoRegister
          BY <3>2, AtNone
        <5>3. F \subseteq Ops /\ op \in Ops
          BY <2>2
        <5> DEFINE G == F \cup {op}
        <5>4. G = F \cup {op}
          OBVIOUS
        <5> HIDE DEF G
        <5>5. IdOf(op) = i => Outcome(app, d, G, i) = AfterOne(app, Outcome(app, d, F, i), op)
          BY <4>1, <5>1, <5>2, <5>3, <5>4, OutcomeAdded
        <5>6. IdOf(op) # i => Outcome(app, d, G, i) = Outcome(app, d, F, i)
          BY <5>3, <5>4, OutcomeSame
        <5> QED
          BY <5>5, <5>6 DEF G
      <4> QED
        BY <3>1, <4>2 DEF d
    <3> QED
      BY <2>2, <2>9, <3>3
  <2>12. Fine(k + 1, f)
    BY <2>9, <2>10, <2>11
  <2> HIDE DEF Fine
  <2>13. <<k + 1, f>> \in H
    BY <2>9, <2>12
  <2> QED
    BY <2>8, <2>13 DEF op
<1> HIDE DEF H
<1>5. <<Len(b), FoldFn(Shown, ed, b)>> \in H
  BY <1>1, <1>3, <1>4, FoldInduction
<1>6. FoldFn(Shown, ed, b) = new
  BY ApplyOpsIs
<1>7. Fine(Len(b), new) /\ new \in Editor
  BY <1>5, <1>6 DEF H
<1>8. FirstOf(b, Len(b)) = Range(b)
  BY FirstOfIs
<1> QED
  BY <1>7, <1>8 DEF IdsOf

----------------------------------------------------------------------------
\* What the messages on their way make of what is shown.
Taking(a, i) == [p \in OneShown \X Messages(Ids) |-> Outcome(a, p[1], Range(p[2].ops), i)]
Chain(a, d, msgs, i) == FoldFn(Taking(a, i), d, msgs)

LEMMA MessageIs ==
    ASSUME NEW m \in Messages(Ids)
    PROVE  m.ops \in Seq(Ops) /\ Range(m.ops) \subseteq Ops
<1>1. m.ops \in Seq(Ops)
  BY AllIds DEF Messages
<1> QED
  BY <1>1 DEF Range

LEMMA TakingIs ==
    ASSUME NEW a, NEW i \in Ids
    PROVE  /\ Taking(a, i) \in [OneShown \X Messages(Ids) -> OneShown]
           /\ \A d \in OneShown, m \in Messages(Ids) : Taking(a, i)[<<d, m>>] = Outcome(a, d, Range(m.ops), i)
<1>1. ASSUME NEW p \in OneShown \X Messages(Ids) PROVE Outcome(a, p[1], Range(p[2].ops), i) \in OneShown
  <2>1. p[1] \in OneShown /\ Range(p[2].ops) \subseteq Ops
    BY MessageIs
  <2> QED
    BY <2>1, OutcomeType
<1> QED
  BY <1>1 DEF Taking

LEMMA ChainType ==
    ASSUME NEW a, NEW i \in Ids, NEW d \in OneShown, NEW msgs \in Seq(Messages(Ids))
    PROVE  Chain(a, d, msgs, i) \in OneShown /\ Foldable(OneShown, Messages(Ids), Taking(a, i), d, msgs)
<1>1. Foldable(OneShown, Messages(Ids), Taking(a, i), d, msgs)
  BY TakingIs DEF Foldable
<1> QED
  BY <1>1, FoldIn DEF Chain

LEMMA ChainEmpty ==
    ASSUME NEW a, NEW i, NEW d
    PROVE  Chain(a, d, <<>>, i) = d
BY FoldEmpty DEF Chain

LEMMA ChainAppend ==
    ASSUME NEW a, NEW i \in Ids, NEW d \in OneShown, NEW msgs \in Seq(Messages(Ids)), NEW m \in Messages(Ids)
    PROVE  Chain(a, d, Append(msgs, m), i) = Outcome(a, Chain(a, d, msgs, i), Range(m.ops), i)
<1>1. Foldable(OneShown, Messages(Ids), Taking(a, i), d, msgs)
  BY ChainType
<1>2. FoldFn(Taking(a, i), d, Append(msgs, m)) = Taking(a, i)[<<FoldFn(Taking(a, i), d, msgs), m>>]
  BY <1>1, FoldAppend
<1>3. FoldFn(Taking(a, i), d, msgs) \in OneShown
  BY ChainType DEF Chain
<1> QED
  BY <1>2, <1>3, TakingIs DEF Chain

LEMMA ChainFirst ==
    ASSUME NEW a, NEW i \in Ids, NEW d \in OneShown, NEW msgs \in Seq(Messages(Ids)), msgs # <<>>
    PROVE  Chain(a, d, msgs, i) = Chain(a, Outcome(a, d, Range(Head(msgs).ops), i), Tail(msgs), i)
<1> DEFINE m == Head(msgs)
           rest == Tail(msgs)
<1>1. m \in Messages(Ids) /\ rest \in Seq(Messages(Ids))
  BY HeadTailProperties
<1>2. msgs = <<m>> \o rest
  BY HeadTailProperties
<1> HIDE DEF m, rest
<1>3. Foldable(OneShown, Messages(Ids), Taking(a, i), d, rest)
  BY <1>1, ChainType
<1>4. FoldFn(Taking(a, i), d, <<m>> \o rest) = FoldFn(Taking(a, i), Taking(a, i)[<<d, m>>], rest)
  BY <1>1, <1>3, FoldCons
<1>5. Taking(a, i)[<<d, m>>] = Outcome(a, d, Range(m.ops), i)
  BY <1>1, TakingIs
<1> QED
  BY <1>2, <1>4, <1>5 DEF Chain, m, rest

\* Messages that are not about the object.
LEMMA ChainIdle ==
    ASSUME NEW a, NEW i \in Ids, NEW d \in OneShown, NEW msgs \in Seq(Messages(Ids)),
           \A m \in Range(msgs) : i \notin IdsOf(m.ops)
    PROVE  Chain(a, d, msgs, i) = d
<1> DEFINE D == {m \in Messages(Ids) : i \notin IdsOf(m.ops)}
<1>1. Foldable(OneShown, Messages(Ids), Taking(a, i), d, msgs)
  BY ChainType
<1>2. msgs \in Seq(D)
  <2>1. Len(msgs) \in Nat /\ \A k \in 1..Len(msgs) : msgs[k] \in Messages(Ids) /\ msgs[k] \in Range(msgs)
    BY LenProperties, ElementOfSeq DEF Range
  <2>2. msgs \in [1..Len(msgs) -> D]
    BY <2>1, LenProperties
  <2> HIDE DEF D
  <2> QED
    BY <2>1, <2>2, SeqDef
<1> DEFINE B == {d}
<1>3. \A b \in B : \A m \in D : Taking(a, i)[<<b, m>>] \in B
  <2> SUFFICES ASSUME NEW m \in D PROVE Taking(a, i)[<<d, m>>] = d
    OBVIOUS
  <2>1. m \in Messages(Ids) /\ \A x \in Range(m.ops) : IdOf(x) # i
    BY DEF IdsOf
  <2>2. Range(m.ops) \subseteq Ops
    BY <2>1, MessageIs
  <2>3. Taking(a, i)[<<d, m>>] = Outcome(a, d, Range(m.ops), i)
    BY <2>1, TakingIs
  <2> QED
    BY <2>1, <2>2, <2>3, OutcomeType
<1>4. D \in SUBSET Messages(Ids) /\ B \in SUBSET OneShown /\ d \in B
  OBVIOUS
<1> HIDE DEF D, B
<1>5. FoldFn(Taking(a, i), d, msgs) \in B
  BY <1>1, <1>2, <1>3, <1>4, FoldKept
<1> QED
  BY <1>5 DEF Chain, B

----------------------------------------------------------------------------
\* The document.
Doc(r, i) ==
    IF Live(r, Whole(i)) = Deleted THEN <<>>
    ELSE IF Live(r, Place(i)) = Deleted THEN <<r[Whole(i)].value>> ELSE <<r[Place(i)].value>>

LEMMA DocIs ==
    ASSUME NEW i \in Ids
    PROVE  Document(i) = Doc(regs, i)
<1>1. Deleted \in Nat
  BY OpsAre
<1>2. Whole(i) = <<i>> /\ Place(i) = <<i, "position">>
  BY DEF Whole, Place
<1>3. Document(i) = LET whole == Live(regs, Whole(i))
                       place == Live(regs, Place(i))
                   IN  IF whole = Deleted THEN <<>>
                       ELSE IF place = Deleted THEN <<whole>> ELSE <<place>>
  BY DEF Document, Whole, Place
<1> HIDE DEF Whole, Place
<1> QED
  BY <1>3 DEF Doc, Live

LEMMA DocType ==
    ASSUME NEW U, NEW r \in Documents(U), NEW i \in Ids
    PROVE  /\ Doc(r, i) \in OneShown
           /\ Doc(r, i) = <<>> <=> Live(r, Whole(i)) = Deleted
<1>1. Whole(i) \in Paths /\ Place(i) \in Paths
  BY PathsAre
<1>2. \A p \in Paths : Live(r, p) # Deleted => r[p].value \in Values
  BY DocumentsAre, OpsAre DEF Live
<1>3. \A v \in Values : <<v>> \in OneShown /\ <<v>> # <<>>
  BY OneShownIs
<1> QED
  BY <1>1, <1>2, <1>3, OneShownIs DEF Doc

----------------------------------------------------------------------------
\* The outbox.
Waiting(P, op) ==
    LET at == {i \in DOMAIN P : P[i].path = op.path}
    IN  IF at = {} THEN Append(P, op) ELSE [i \in DOMAIN P |-> IF i \in at THEN op ELSE P[i]]

\* The operation goes to the end of what waits, or to the place of the one of its path.
AtEnd(P, op, W) ==
    /\ Len(W) = Len(P) + 1 /\ W[Len(P) + 1] = op
    /\ \A k \in 1..Len(P) : W[k] = P[k] /\ P[k].path # op.path
InPlace(P, op, W) ==
    /\ Len(W) = Len(P)
    /\ \A k \in 1..Len(P) : W[k] = IF P[k].path = op.path THEN op ELSE P[k]
    /\ \E k \in 1..Len(P) : P[k].path = op.path

LEMMA WaitingIs ==
    ASSUME NEW P \in Seq(Ops), NEW op \in Ops, NEW W, W = Waiting(P, op)
    PROVE  /\ W \in Seq(Ops) /\ W # <<>> /\ Len(P) \in Nat
           /\ AtEnd(P, op, W) \/ InPlace(P, op, W)
<1> DEFINE at == {i \in DOMAIN P : P[i].path = op.path}
<1>1. Len(P) \in Nat /\ DOMAIN P = 1..Len(P) /\ \A k \in 1..Len(P) : P[k] \in Ops
  BY LenProperties, ElementOfSeq
<1>2. W = IF at = {} THEN Append(P, op) ELSE [i \in DOMAIN P |-> IF i \in at THEN op ELSE P[i]]
  BY DEF Waiting
<1>3. CASE at = {}
  <2>1. W = Append(P, op)
    BY <1>2, <1>3
  <2>2. W \in Seq(Ops) /\ Len(W) = Len(P) + 1 /\ W[Len(P) + 1] = op /\ \A k \in 1..Len(P) : W[k] = P[k]
    BY <1>1, <2>1, AppendProperties
  <2>3. W # <<>>
    BY <1>1, <2>2, EmptySeq
  <2> QED
    BY <1>1, <1>3, <2>2, <2>3 DEF AtEnd
<1>4. CASE at # {}
  <2>1. W = [i \in 1..Len(P) |-> IF P[i].path = op.path THEN op ELSE P[i]]
    BY <1>1, <1>2, <1>4
  <2>2. \A k \in 1..Len(P) : W[k] = IF P[k].path = op.path THEN op ELSE P[k]
    BY <2>1
  <2>3. \A k \in 1..Len(P) : W[k] \in Ops
    BY <1>1, <2>2
  <2>4. W \in [1..Len(P) -> Ops]
    BY <2>1, <2>3
  <2>5. W \in Seq(Ops)
    BY <1>1, <2>4, SeqDef
  <2>6. Len(W) = Len(P)
    BY <1>1, <2>4, <2>5, LenProperties
  <2>7. \E k \in 1..Len(P) : P[k].path = op.path
    BY <1>1, <1>4
  <2>8. W # <<>>
    BY <1>1, <2>6, <2>7, EmptySeq
  <2> QED
    BY <1>1, <2>2, <2>5, <2>6, <2>7, <2>8 DEF InPlace
<1> QED
  BY <1>3, <1>4

LEMMA EnqueueIs ==
    ASSUME NEW box \in Box, NEW op \in Ops, NEW W, W = Waiting(box.pending, op)
    PROVE  /\ box.sending = <<>> => Enqueue(box, op).pending = <<>> /\ Enqueue(box, op).sending = W
           /\ box.sending # <<>> => Enqueue(box, op).pending = W /\ Enqueue(box, op).sending = box.sending
<1>1. \A w : [box EXCEPT !.pending = w] = [pending |-> w, sending |-> box.sending]
  BY DEF Box
<1>2. Enqueue(box, op) = IF box.sending = <<>> THEN [pending |-> <<>>, sending |-> W]
                         ELSE [box EXCEPT !.pending = W]
  BY DEF Enqueue, Waiting
<1>3. \A p, s : [pending |-> p, sending |-> s].pending = p /\ [pending |-> p, sending |-> s].sending = s
  OBVIOUS
<1> QED
  BY <1>1, <1>2, <1>3

\* What waits is what waited on other paths, and the operation.
LEMMA WaitingRange ==
    ASSUME NEW P \in Seq(Ops), NEW op \in Ops, NEW W, W = Waiting(P, op)
    PROVE  /\ Range(W) = {x \in Range(P) : x.path # op.path} \cup {op}
           /\ Range(W) \subseteq Ops /\ Range(P) \subseteq Ops
           /\ IdsOf(W) = IdsOf(P) \cup {IdOf(op)}
<1>1. W \in Seq(Ops) /\ Len(P) \in Nat /\ (AtEnd(P, op, W) \/ InPlace(P, op, W))
  BY WaitingIs
<1>2. Range(P) = {P[k] : k \in 1..Len(P)} /\ Range(W) = {W[k] : k \in 1..Len(W)}
  BY <1>1, LenProperties DEF Range
<1>3. Range(W) = {x \in Range(P) : x.path # op.path} \cup {op}
  <2>1. CASE AtEnd(P, op, W)
    <3>1. \A k \in 1..Len(W) : k \in 1..Len(P) \/ k = Len(P) + 1
      BY <1>1, <2>1 DEF AtEnd
    <3>2. \A k \in 1..Len(P) : k \in 1..Len(W)
      BY <1>1, <2>1 DEF AtEnd
    <3>3. Len(P) + 1 \in 1..Len(W)
      BY <1>1, <2>1 DEF AtEnd
    <3> QED
      BY <1>2, <2>1, <3>1, <3>2, <3>3 DEF AtEnd
  <2>2. CASE InPlace(P, op, W)
    BY <1>2, <2>2 DEF InPlace
  <2> QED
    BY <1>1, <2>1, <2>2
<1>4. Range(P) \subseteq Ops
  BY DEF Range
<1>5. IdsOf(W) = IdsOf(P) \cup {IdOf(op)}
  BY <1>3 DEF IdsOf, IdOf
<1> QED
  BY <1>3, <1>4, <1>5

LEMMA WaitingAt ==
    ASSUME NEW P \in Seq(Ops), NEW op \in Ops, NEW W, W = Waiting(P, op)
    PROVE  /\ At(Range(W), op.path) = op
           /\ \A q : q # op.path => At(Range(W), q) = At(Range(P), q)
<1>1. Range(W) = {x \in Range(P) : x.path # op.path} \cup {op}
  BY WaitingRange
<1>2. At(Range(W), op.path) = op
  BY <1>1, AtOne
<1>3. ASSUME NEW q, q # op.path PROVE At(Range(W), q) = At(Range(P), q)
  BY <1>1, <1>3, AtSame
<1> QED
  BY <1>2, <1>3

LEMMA WaitingShape ==
    ASSUME NEW P \in Seq(Ops), NEW op \in Ops, NEW W, W = Waiting(P, op), Distinct(P)
    PROVE  /\ Distinct(W)
           /\ WholeOnly(P) /\ op.path = Whole(IdOf(op)) => WholeOnly(W)
<1>1. W \in Seq(Ops) /\ Len(P) \in Nat /\ (AtEnd(P, op, W) \/ InPlace(P, op, W))
  BY WaitingIs
<1>2. CASE AtEnd(P, op, W)
  <2>1. \A k \in 1..Len(W) : (k \in 1..Len(P) /\ W[k] = P[k] /\ P[k].path # op.path) \/ (k = Len(P) + 1 /\ W[k] = op)
    BY <1>1, <1>2 DEF AtEnd
  <2>2. Distinct(W)
    BY <2>1 DEF Distinct
  <2>3. WholeOnly(P) /\ op.path = Whole(IdOf(op)) => WholeOnly(W)
    BY <2>1 DEF WholeOnly
  <2> QED
    BY <2>2, <2>3
<1>3. CASE InPlace(P, op, W)
  <2>1. Len(W) = Len(P) /\ \A k \in 1..Len(P) : W[k].path = P[k].path /\ (W[k] = P[k] \/ W[k] = op)
    BY <1>3 DEF InPlace
  <2>2. Distinct(W)
    BY <2>1 DEF Distinct
  <2>3. WholeOnly(P) /\ op.path = Whole(IdOf(op)) => WholeOnly(W)
    BY <2>1 DEF WholeOnly
  <2> QED
    BY <2>2, <2>3
<1> QED
  BY <1>1, <1>2, <1>3

LEMMA WaitingOrdered ==
    ASSUME NEW P \in Seq(Ops), NEW op \in Ops, NEW W, W = Waiting(P, op), NEW i \in Ids, Ordered(P, i),
           op.path = Place(i) => \A x \in Range(P) : x.path = Whole(i) => ~Newer(x, op),
           op.path = Whole(i) /\ op.value # Deleted => \A x \in Range(P) : x.path # Place(i)
    PROVE  Ordered(W, i)
<1>1. W \in Seq(Ops) /\ Len(P) \in Nat /\ (AtEnd(P, op, W) \/ InPlace(P, op, W))
  BY WaitingIs
<1>2. \A k \in 1..Len(P) : P[k] \in Range(P)
  BY LenProperties DEF Range
<1>3. Whole(i) # Place(i)
  BY PathsAre
<1> SUFFICES ASSUME NEW j \in 1..Len(W), NEW k \in 1..Len(W),
                    W[j].path = Whole(i), W[k].path = Place(i), W[j].value # Deleted
             PROVE  j < k /\ ~Newer(W[j], W[k])
  BY DEF Ordered
<1>4. CASE AtEnd(P, op, W)
  <2>1. \A n \in 1..Len(W) : (n \in 1..Len(P) /\ W[n] = P[n]) \/ (n = Len(P) + 1 /\ W[n] = op)
    BY <1>1, <1>4 DEF AtEnd
  <2>2. CASE k = Len(P) + 1 /\ W[k] = op
    <3>1. j \in 1..Len(P) /\ W[j] = P[j]
      BY <1>3, <2>1, <2>2
    <3> QED
      BY <1>1, <1>2, <2>2, <3>1
  <2>3. CASE k \in 1..Len(P) /\ W[k] = P[k]
    <3>1. j \in 1..Len(P) /\ W[j] = P[j]
      BY <1>2, <2>1, <2>3
    <3> QED
      BY <2>3, <3>1 DEF Ordered
  <2> QED
    BY <2>1, <2>2, <2>3
<1>5. CASE InPlace(P, op, W)
  <2>1. /\ j \in 1..Len(P) /\ k \in 1..Len(P)
        /\ W[j].path = P[j].path /\ (W[j] = P[j] \/ W[j] = op)
        /\ W[k].path = P[k].path /\ (W[k] = P[k] \/ W[k] = op)
    BY <1>5 DEF InPlace
  <2>2. W[j] = P[j]
    BY <1>2, <2>1
  <2>3. CASE W[k] = P[k]
    BY <2>1, <2>2, <2>3 DEF Ordered
  <2>4. CASE W[k] = op
    <3>1. j < k
      BY <2>1, <2>2 DEF Ordered
    <3>2. ~Newer(P[j], op)
      BY <1>2, <2>1, <2>2, <2>4
    <3> QED
      BY <2>2, <2>4, <3>1, <3>2
  <2> QED
    BY <2>1, <2>3, <2>4
<1> QED
  BY <1>1, <1>4, <1>5

\* The server.

\* The operation of a path among the first of a batch.
LEMMA AtFirst ==
    ASSUME NEW b \in Seq(Ops), Distinct(b), NEW k \in Nat, k + 1 \in 1..Len(b), NEW q
    PROVE  /\ b[k + 1].path = q => /\ At(FirstOf(b, k + 1), q) = b[k + 1]
                                   /\ At(FirstOf(b, k), q) = NoRegister /\ At(Range(b), q) = b[k + 1]
           /\ b[k + 1].path # q => At(FirstOf(b, k + 1), q) = At(FirstOf(b, k), q)
           /\ At(FirstOf(b, k), q) # NoRegister => At(FirstOf(b, k), q) = At(Range(b), q)
<1> DEFINE F == FirstOf(b, k)
           op == b[k + 1]
<1>1. FirstOf(b, k + 1) = F \cup {op} /\ F \subseteq Ops /\ op \in Ops /\ F \subseteq Range(b) /\ op \in Range(b)
  BY FirstOfIs
<1>2. Len(b) \in Nat /\ \A x \in Range(b) : \E j \in 1..Len(b) : x = b[j]
  BY LenProperties DEF Range
<1>3. \A x \in Range(b), y \in Range(b) : x.path = y.path => x = y
  BY <1>2 DEF Distinct
<1>4. \A x \in F : x.path # op.path
  <2>1. \A x \in F : \E j \in 1..k : x = b[j]
    BY DEF FirstOf
  <2>2. \A j \in 1..k : j \in 1..Len(b) /\ j # k + 1
    BY <1>2
  <2> QED
    BY <2>1, <2>2 DEF Distinct
<1> HIDE DEF F, op
<1>5. At(F \cup {op}, op.path) = op /\ At(F, op.path) = NoRegister
  BY <1>4, AtAdded
<1>6. At(Range(b), op.path) = op
  BY <1>1, <1>3, AtOne
<1>7. ASSUME op.path # q PROVE At(F \cup {op}, q) = At(F, q)
  BY <1>7, AtSame
<1>8. ASSUME At(F, q) # NoRegister PROVE At(F, q) = At(Range(b), q)
  <2>1. At(F, q) \in F /\ At(F, q).path = q
    BY <1>1, <1>8, AtIs
  <2>2. At(Range(b), At(F, q).path) = At(F, q)
    BY <1>1, <1>3, <2>1, AtOne
  <2> QED
    BY <2>1, <2>2
<1> QED
  BY <1>1, <1>5, <1>6, <1>7, <1>8 DEF F, op

LEMMA SeqOps ==
    ASSUME NEW b \in Seq(Ops)
    PROVE  /\ b \in Seq(Written(Ids)) /\ b \in Seq(Writes) /\ Range(b) \subseteq Ops /\ Len(b) \in Nat
           /\ \A k \in 1..Len(b) : b[k] \in Ops /\ b[k] \in Range(b)
           /\ \A x \in Range(b) : \E k \in 1..Len(b) : x = b[k]
<1>1. Ops \subseteq Written(Ids) /\ Ops \subseteq Writes
  BY OpsAre DEF Written
<1>2. \A k \in 1..Len(b) : b[k] \in Ops
  BY ElementOfSeq
<1>3. Len(b) \in Nat /\ DOMAIN b = 1..Len(b)
  BY LenProperties
<1>4. b \in Seq(Written(Ids)) /\ b \in Seq(Writes)
  BY <1>1, SeqMonotonic
<1> QED
  BY <1>2, <1>3, <1>4 DEF Range

\* One operation more in what is left of a batch.
LEMMA AddedAt ==
    ASSUME NEW d \in Documents(Ids), NEW op \in Ops, NEW i \in Ids, NEW e, e = Added(d, op)
    PROVE  /\ op.path = Whole(i) /\ d[Whole(i)] = NoRegister => e[Whole(i)] = op
           /\ op.path = Whole(i) /\ d[Whole(i)] = NoRegister /\ (d[Place(i)] = NoRegister \/ ~Newer(op, d[Place(i)]))
                 => e[Place(i)] = d[Place(i)]
           /\ op.path = Place(i) => e[Whole(i)] = d[Whole(i)]
           /\ op.path = Place(i) /\ d[Place(i)] = NoRegister /\ (d[Whole(i)] = NoRegister \/ ~Newer(d[Whole(i)], op))
                 => e[Place(i)] = op
           /\ op.path # Whole(i) /\ op.path # Place(i) => e[Whole(i)] = d[Whole(i)] /\ e[Place(i)] = d[Place(i)]
<1>1. Whole(i) \in Paths /\ Place(i) \in Paths /\ Whole(i) # Place(i) /\ op \in Writes /\ op.path \in Paths
  BY PathsAre, OpsAre
<1>2. \A p \in Paths : d[p] # NoRegister => d[p] \in Writes /\ d[p].path = p
  BY DocumentsAre, OpsAre
<1>3. \A p \in Paths : ~Above(p, Whole(i))
  <2> SUFFICES ASSUME NEW j \in Ids PROVE Whole(i) # Place(j)
    BY <1>1, AboveIs
  <2> QED
    BY PathsAre
<1>4. \A p \in Paths : Above(p, Place(i)) => p = Whole(i)
  <2> SUFFICES ASSUME NEW j \in Ids, Place(i) = Place(j) PROVE i = j
    BY <1>1, AboveIs
  <2>1. Place(i)[1] = i /\ Place(j)[1] = j
    BY PathsAre
  <2> QED
    BY <2>1
<1>5. \A p \in Paths : d[p] # NoRegister => /\ Voids(d[p], op) <=> Above(p, op.path) /\ Newer(d[p], op)
                                            /\ Voids(op, d[p]) <=> Above(op.path, p) /\ Newer(op, d[p])
  BY <1>1, <1>2, VoidsIs
<1>6. \/ /\ e = d
         /\ \/ \E p \in Paths : d[p] # NoRegister /\ Voids(d[p], op)
            \/ d[op.path] # NoRegister
      \/ \A p \in Paths : e[p] = IF p = op.path THEN op
                                 ELSE IF d[p] # NoRegister /\ Voids(op, d[p]) THEN NoRegister ELSE d[p]
  BY DEF Added
<1>7. CASE op.path = Whole(i)
  <2>1. ~\E p \in Paths : d[p] # NoRegister /\ Voids(d[p], op)
    BY <1>3, <1>5, <1>7
  <2> QED
    BY <1>1, <1>5, <1>6, <1>7, <2>1
<1>8. CASE op.path = Place(i)
  <2>1. (d[Whole(i)] = NoRegister \/ ~Newer(d[Whole(i)], op)) => ~\E p \in Paths : d[p] # NoRegister /\ Voids(d[p], op)
    BY <1>4, <1>5, <1>8
  <2>2. d[Whole(i)] # NoRegister => ~Voids(op, d[Whole(i)])
    BY <1>1, <1>3, <1>5, <1>8
  <2> QED
    BY <1>1, <1>6, <1>8, <2>1, <2>2
<1>9. CASE op.path # Whole(i) /\ op.path # Place(i)
  <2>1. ~Above(op.path, Whole(i)) /\ ~Above(op.path, Place(i))
    BY <1>1, <1>3, <1>4, <1>9
  <2> QED
    BY <1>1, <1>5, <1>6, <1>9, <2>1
<1> QED
  BY <1>7, <1>8, <1>9

\* What is left of a batch: every whole object, and every property that is not void.
LEMMA ComposeKeeps ==
    ASSUME NEW b \in Seq(Ops), Distinct(b), NEW i \in Ids,
           NEW w, w = At(Range(b), Whole(i)), NEW p, p = At(Range(b), Place(i))
    PROVE  /\ Compose(b)[Whole(i)] = w
           /\ w = NoRegister \/ p = NoRegister \/ ~Newer(w, p) => Compose(b)[Place(i)] = p
<1> DEFINE Valid == w = NoRegister \/ p = NoRegister \/ ~Newer(w, p)
           Fine(k, d) == /\ d \in Documents(Ids)
                         /\ d[Whole(i)] = At(FirstOf(b, k), Whole(i))
                         /\ Valid => d[Place(i)] = At(FirstOf(b, k), Place(i))
           H == {x \in Nat \X Registers : Fine(x[1], x[2])}
<1>1. Foldable(Registers, Writes, added, Empty, b)
  BY SeqOps, AddedIs, EmptyType DEF Foldable
<1>2. <<0, Empty>> \in H
  <2>1. FirstOf(b, 0) = {} /\ \A q : At({}, q) = NoRegister
    BY FirstOfIs, AtNone
  <2>2. Empty \in Documents(Ids) /\ Empty \in Registers /\ Empty[Whole(i)] = NoRegister /\ Empty[Place(i)] = NoRegister
    BY DocumentsAre, EmptyType, PathsAre DEF Empty
  <2> QED
    BY <2>1, <2>2
<1>3. ASSUME NEW k \in Nat, NEW d \in Registers, k + 1 \in 1..Len(b), <<k, d>> \in H
      PROVE  <<k + 1, added[<<d, b[k + 1]>>]>> \in H
  <2> DEFINE op == b[k + 1]
             e == Added(d, op)
  <2>1. Fine(k, d)
    BY <1>3
  <2>2. op \in Ops /\ op \in Writes /\ op \in Written(Ids)
    BY <1>3, SeqOps, OpsAre DEF Written
  <2>3. added[<<d, op>>] = e /\ e \in Registers /\ e \in Documents(Ids)
    BY <2>1, <2>2, AddedIs, AddedType
  <2>4. /\ op.path = Whole(i) => /\ At(FirstOf(b, k + 1), Whole(i)) = op
                                 /\ At(FirstOf(b, k), Whole(i)) = NoRegister /\ w = op
        /\ op.path # Whole(i) => At(FirstOf(b, k + 1), Whole(i)) = At(FirstOf(b, k), Whole(i))
        /\ At(FirstOf(b, k), Whole(i)) # NoRegister => At(FirstOf(b, k), Whole(i)) = w
    BY <1>3, AtFirst
  <2>5. /\ op.path = Place(i) => /\ At(FirstOf(b, k + 1), Place(i)) = op
                                 /\ At(FirstOf(b, k), Place(i)) = NoRegister /\ p = op
        /\ op.path # Place(i) => At(FirstOf(b, k + 1), Place(i)) = At(FirstOf(b, k), Place(i))
        /\ At(FirstOf(b, k), Place(i)) # NoRegister => At(FirstOf(b, k), Place(i)) = p
    BY <1>3, AtFirst
  <2>6. Whole(i) # Place(i)
    BY PathsAre
  <2> DEFINE F == At(FirstOf(b, k), Whole(i))
             G == At(FirstOf(b, k), Place(i))
             F1 == At(FirstOf(b, k + 1), Whole(i))
             G1 == At(FirstOf(b, k + 1), Place(i))
  <2> HIDE DEF op, F, G, F1, G1, Valid
  <2>7. d \in Documents(Ids) /\ d[Whole(i)] = F /\ (Valid => d[Place(i)] = G)
    BY <2>1 DEF F, G
  <2>a. e = Added(d, op)
    OBVIOUS
  <2> HIDE DEF e
  <2> DEFINE Done == e[Whole(i)] = F1 /\ (Valid => e[Place(i)] = G1)
  <2>8. ASSUME op.path = Whole(i) PROVE Done
    <3>1. F1 = op /\ F = NoRegister /\ w = op /\ G1 = G /\ (G # NoRegister => G = p)
      BY <2>4, <2>5, <2>6, <2>8 DEF F, G, F1, G1
    <3>2. e[Whole(i)] = op
      BY <2>2, <2>7, <2>8, <2>a, <3>1, AddedAt
    <3>3. ASSUME Valid PROVE e[Place(i)] = G
      <4>1. d[Place(i)] = NoRegister \/ ~Newer(op, d[Place(i)])
        BY <2>2, <2>7, <3>1, <3>3, OpsAre DEF Valid
      <4> QED
        BY <2>2, <2>7, <2>8, <2>a, <3>1, <3>3, <4>1, AddedAt
    <3> QED
      BY <3>1, <3>2, <3>3
  <2>9. ASSUME op.path = Place(i) PROVE Done
    <3>1. G1 = op /\ G = NoRegister /\ p = op /\ F1 = F /\ (F # NoRegister => F = w)
      BY <2>4, <2>5, <2>6, <2>9 DEF F, G, F1, G1
    <3>2. e[Whole(i)] = F
      BY <2>2, <2>7, <2>9, <2>a, <3>1, AddedAt
    <3>3. ASSUME Valid PROVE e[Place(i)] = op
      <4>1. d[Whole(i)] = NoRegister \/ ~Newer(d[Whole(i)], op)
        BY <2>2, <2>7, <3>1, <3>3, OpsAre DEF Valid
      <4> QED
        BY <2>2, <2>7, <2>9, <2>a, <3>1, <3>3, <4>1, AddedAt
    <3> QED
      BY <3>1, <3>2, <3>3
  <2>10. ASSUME op.path # Whole(i), op.path # Place(i) PROVE Done
    <3>1. G1 = G /\ F1 = F
      BY <2>4, <2>5, <2>10 DEF F, G, F1, G1
    <3>2. e[Whole(i)] = d[Whole(i)] /\ e[Place(i)] = d[Place(i)]
      BY <2>2, <2>7, <2>10, <2>a, AddedAt
    <3> QED
      BY <2>7, <3>1, <3>2
  <2>11. Done
    BY <2>8, <2>9, <2>10
  <2>12. Fine(k + 1, e)
    BY <2>3, <2>11 DEF F1, G1, e
  <2> HIDE DEF Fine
  <2> QED
    BY <2>3, <2>12 DEF op, e
<1> HIDE DEF H
<1>4. <<Len(b), FoldFn(added, Empty, b)>> \in H
  BY <1>1, <1>2, <1>3, FoldInduction
<1>5. Fine(Len(b), Compose(b))
  BY <1>4, ComposeIs DEF H
<1>6. FirstOf(b, Len(b)) = Range(b)
  BY FirstOfIs
<1> QED
  BY <1>5, <1>6
\* The operation comes late to the registers: one of its path or above it is not older.
LosesTo(r, op) ==
    \E q \in Paths : (q = op.path \/ Above(q, op.path)) /\ r[q] # NoRegister /\ ~WinsLWW(op, r[q], FALSE)

LEMMA LosesIs ==
    ASSUME NEW r, NEW op \in Ops, ~LosesTo(r, op), NEW i \in Ids
    PROVE  /\ op.path = Whole(i) => r[Whole(i)] = NoRegister \/ WinsLWW(op, r[Whole(i)], FALSE)
           /\ op.path = Place(i) => r[Place(i)] = NoRegister \/ WinsLWW(op, r[Place(i)], FALSE)
           /\ op.path = Place(i) => r[Whole(i)] = NoRegister \/ WinsLWW(op, r[Whole(i)], FALSE)
<1>1. Whole(i) \in Paths /\ Place(i) \in Paths
  BY PathsAre
<1>2. Above(Whole(i), Place(i))
  BY <1>1, AboveIs
<1>3. \A q \in Paths : q = op.path \/ Above(q, op.path) => r[q] = NoRegister \/ WinsLWW(op, r[q], FALSE)
  BY DEF LosesTo
<1> QED
  BY <1>1, <1>2, <1>3

\* The operations of an object may be applied one by one: its property was never written,
\* if the object as a whole is, and comes behind it.
Calm(r, b, i) ==
    At(Range(b), Whole(i)) # NoRegister =>
        /\ r[Place(i)] = NoRegister
        /\ \A j, k \in 1..Len(b) : b[j].path = Whole(i) /\ b[k].path = Place(i) => j < k /\ ~Newer(b[j], b[k])

LEMMA Applied ==
    ASSUME NEW r \in Documents(Ids), NEW b \in Seq(Ops), Distinct(b), NEW i \in Ids,
           \A op \in Range(b) : IdOf(op) = i => ~LosesTo(r, op),
           NEW w, w = At(Range(b), Whole(i)), NEW p, p = At(Range(b), Place(i)), NEW new, new = Apply(r, b)
    PROVE  /\ new[Whole(i)] = IF w = NoRegister THEN r[Whole(i)] ELSE w
           /\ Calm(r, b, i) => new[Place(i)] = IF p = NoRegister THEN r[Place(i)] ELSE p
<1> DEFINE left == Compose(b)
           C == Calm(r, b, i)
           F(k) == At(FirstOf(b, k), Whole(i))
           G(k) == At(FirstOf(b, k), Place(i))
           FineW(k, s) == s[Whole(i)] = IF F(k) = NoRegister THEN r[Whole(i)] ELSE F(k)
           FineP(k, s) == C => s[Place(i)] = IF G(k) = NoRegister THEN r[Place(i)] ELSE G(k)
           H == {x \in Nat \X Registers : FineW(x[1], x[2]) /\ FineP(x[1], x[2])}
<1>0. Whole(i) \in Paths /\ Place(i) \in Paths /\ Whole(i) # Place(i)
  BY PathsAre
<1>1. r \in Registers /\ Foldable(Registers, Writes, Applying(left), r, b)
  BY DocumentsAre, SeqOps, ApplyingIs DEF Foldable
<1>2. <<0, r>> \in H
  <2>1. FirstOf(b, 0) = {} /\ \A q : At({}, q) = NoRegister
    BY FirstOfIs, AtNone
  <2> QED
    BY <1>1, <2>1
<1>3. left[Whole(i)] = w /\ (w = NoRegister \/ p = NoRegister \/ ~Newer(w, p) => left[Place(i)] = p)
  BY ComposeKeeps
<1>4. Range(b) \subseteq Ops /\ (w # NoRegister => w \in Range(b) /\ w \in Ops /\ w.path = Whole(i))
      /\ (p # NoRegister => p \in Range(b) /\ p \in Ops /\ p.path = Place(i))
  BY SeqOps, AtIs
<1>5. C /\ w # NoRegister /\ p # NoRegister => ~Newer(w, p)
  <2> SUFFICES ASSUME C, w # NoRegister, p # NoRegister PROVE ~Newer(w, p)
    OBVIOUS
  <2>1. PICK j \in 1..Len(b) : w = b[j]
    BY <1>4, SeqOps
  <2>2. PICK k \in 1..Len(b) : p = b[k]
    BY <1>4, SeqOps
  <2> QED
    BY <1>4, <2>1, <2>2 DEF Calm
<1>6. ASSUME NEW k \in Nat, NEW s \in Registers, k + 1 \in 1..Len(b), <<k, s>> \in H
      PROVE  <<k + 1, Applying(left)[<<s, b[k + 1]>>]>> \in H
  <2> DEFINE op == b[k + 1]
             e == Applying(left)[<<s, op>>]
             one == ApplySingleOp(s, op, PathsOf(left))
             DoneW == FineW(k + 1, e)
             DoneP == FineP(k + 1, e)
  <2>1. FineW(k, s) /\ FineP(k, s)
    BY <1>6
  <2>2. op \in Ops /\ op \in Writes /\ op \in Range(b) /\ (IdOf(op) = i => ~LosesTo(r, op))
    BY <1>6, SeqOps, OpsAre
  <2>3. e = (IF left[op.path] = op THEN one ELSE s) /\ e \in Registers
    BY <2>2, ApplyingIs
  <2>4. /\ op.path = Whole(i) => F(k + 1) = op /\ F(k) = NoRegister /\ w = op
        /\ op.path # Whole(i) => F(k + 1) = F(k)
        /\ F(k) # NoRegister => F(k) = w
    BY <1>6, AtFirst
  <2>5. /\ op.path = Place(i) => G(k + 1) = op /\ G(k) = NoRegister /\ p = op
        /\ op.path # Place(i) => G(k + 1) = G(k)
        /\ G(k) # NoRegister => G(k) = p
    BY <1>6, AtFirst
  <2>6. op # NoRegister /\ (op.path = Whole(i) \/ op.path = Place(i) => IdOf(op) = i)
    BY <2>2, OpIs
  <2>7. FirstOf(b, k) \subseteq Ops /\ \A x \in FirstOf(b, k) : \E j \in 1..k : x = b[j]
    BY <1>6, FirstOfIs DEF FirstOf
  <2>8. \A j \in 1..k : j \in 1..Len(b) /\ j < k + 1 /\ ~(k + 1 < j)
    BY <1>6, SeqOps
  <2>9. C /\ op.path = Whole(i) => G(k) = NoRegister
    <3> SUFFICES ASSUME C, op.path = Whole(i), G(k) # NoRegister PROVE FALSE
      OBVIOUS
    <3>1. G(k) \in FirstOf(b, k) /\ G(k).path = Place(i)
      BY <2>7, AtIs
    <3>2. PICK j \in 1..k : G(k) = b[j]
      BY <2>7, <3>1
    <3>3. w # NoRegister
      BY <2>4, <2>6
    <3> QED
      BY <1>6, <2>8, <3>1, <3>2, <3>3 DEF Calm
  <2>10. C /\ op.path = Place(i) /\ w # NoRegister => F(k) = w
    <3> SUFFICES ASSUME C, op.path = Place(i), w # NoRegister PROVE F(k) = w
      OBVIOUS
    <3>1. PICK j \in 1..Len(b) : w = b[j]
      BY <1>4, SeqOps
    <3>2. j < k + 1
      BY <1>4, <1>6, <3>1 DEF Calm
    <3>3. j \in 1..k
      BY <3>2
    <3>4. w \in FirstOf(b, k)
      BY <3>1, <3>3 DEF FirstOf
    <3>5. F(k) # NoRegister
      BY <1>4, <2>7, <3>4, AtIs
    <3> QED
      BY <2>4, <3>5
  <2> HIDE DEF op, F, G, left
  <2>11. ASSUME op.path = Whole(i) PROVE DoneW /\ DoneP
    <3>1. e = one /\ F(k + 1) = op /\ F(k) = NoRegister /\ w = op /\ G(k + 1) = G(k)
      BY <1>0, <1>3, <2>3, <2>4, <2>5, <2>11
    <3>2. s[Whole(i)] = r[Whole(i)] /\ (s[Whole(i)] = NoRegister \/ WinsLWW(op, s[Whole(i)], FALSE))
      BY <2>1, <2>2, <2>6, <2>11, <3>1, LosesIs
    <3> HIDE DEF FineW, FineP, e
    <3>3. one[Whole(i)] = op
      BY <2>2, <2>11, <3>2, SingleWhole
    <3>4. DoneW
      BY <2>6, <3>1, <3>3 DEF FineW
    <3>5. ASSUME C PROVE one[Place(i)] = r[Place(i)] /\ G(k) = NoRegister
      <4>1. G(k) = NoRegister /\ s[Place(i)] = r[Place(i)] /\ r[Place(i)] = NoRegister
        BY <2>1, <2>6, <2>9, <2>11, <3>1, <3>5 DEF FineP, Calm
      <4>2. one[Place(i)] = s[Place(i)]
        BY <2>2, <2>11, <3>2, <4>1, SingleUnder
      <4> QED
        BY <4>1, <4>2
    <3>6. DoneP
      BY <3>1, <3>5 DEF FineP
    <3> QED
      BY <3>4, <3>6
  <2>12. ASSUME op.path = Place(i) PROVE DoneW /\ DoneP
    <3>1. G(k + 1) = op /\ G(k) = NoRegister /\ p = op /\ F(k + 1) = F(k) /\ (F(k) # NoRegister => F(k) = w)
      BY <1>0, <2>4, <2>5, <2>12
    <3>2. one[Whole(i)] = s[Whole(i)]
      BY <2>2, <2>12, SinglePlace
    <3>3. e[Whole(i)] = s[Whole(i)]
      BY <2>3, <3>2
    <3>4. DoneW
      BY <2>1, <3>1, <3>3
    <3>5. ASSUME C PROVE e[Place(i)] = op
      <4>1. w = NoRegister \/ ~Newer(w, p)
        BY <1>5, <2>6, <3>1, <3>5
      <4>2. left[Place(i)] = op
        BY <1>3, <3>1, <4>1
      <4>3. e = one
        BY <2>3, <2>12, <4>2
      <4>4. s[Place(i)] = r[Place(i)] /\ (s[Place(i)] = NoRegister \/ WinsLWW(op, s[Place(i)], FALSE))
        BY <2>1, <2>2, <2>6, <2>12, <3>1, <3>5, LosesIs
      <4>5. s[Whole(i)] = NoRegister \/ WinsLWW(op, s[Whole(i)], Whole(i) \in PathsOf(left))
        <5>1. CASE w = NoRegister
          <6>1. s[Whole(i)] = r[Whole(i)]
            BY <2>1, <3>1, <5>1
          <6>2. (Whole(i) \in PathsOf(left)) = FALSE
            BY <1>3, <5>1 DEF PathsOf
          <6>3. r[Whole(i)] = NoRegister \/ WinsLWW(op, r[Whole(i)], FALSE)
            BY <2>2, <2>6, <2>12, LosesIs
          <6> HIDE DEF FineW, FineP, e
          <6> QED
            BY <6>1, <6>2, <6>3
        <5>2. CASE w # NoRegister
          <6>1. s[Whole(i)] = w /\ w \in Writes
            BY <1>4, <2>1, <2>10, <2>12, <3>5, <5>2, OpsAre
          <6>2. (Whole(i) \in PathsOf(left)) = TRUE
            BY <1>0, <1>3, <5>2 DEF PathsOf
          <6>3. ~Newer(w, op)
            BY <3>1, <4>1, <5>2
          <6> HIDE DEF FineW, FineP, e
          <6>4. Newer(op, w) \/ Same(op, w)
            BY <2>2, <6>1, <6>3, NewerLaws
          <6>5. WinsLWW(op, w, TRUE)
            <7>1. TRUE \in BOOLEAN
              OBVIOUS
            <7> QED
              BY <2>2, <6>1, <6>4, <7>1, WinsIs
          <6> QED
            BY <6>1, <6>2, <6>5
        <5> QED
          BY <5>1, <5>2
      <4> HIDE DEF FineW, FineP, e
      <4>6. one[Place(i)] = op
        BY <2>2, <2>12, <4>4, <4>5, SinglePlaced
      <4> QED
        BY <4>3, <4>6
    <3>6. DoneP
      BY <2>6, <3>1, <3>5
    <3> QED
      BY <3>4, <3>6
  <2>13. ASSUME op.path # Whole(i), op.path # Place(i) PROVE DoneW /\ DoneP
    <3>1. G(k + 1) = G(k) /\ F(k + 1) = F(k)
      BY <2>4, <2>5, <2>13
    <3>2. one[Whole(i)] = s[Whole(i)] /\ one[Place(i)] = s[Place(i)]
      BY <2>2, <2>13, SingleOther
    <3>3. e[Whole(i)] = s[Whole(i)] /\ e[Place(i)] = s[Place(i)]
      BY <2>3, <3>2
    <3> QED
      BY <2>1, <3>1, <3>3
  <2>14. DoneW /\ DoneP
    BY <2>11, <2>12, <2>13
  <2> HIDE DEF e, FineW, FineP
  <2> QED
    BY <2>3, <2>14 DEF op, e
<1> HIDE DEF H
<1>7. <<Len(b), FoldFn(Applying(left), r, b)>> \in H
  BY <1>1, <1>2, <1>6, FoldInduction
<1>8. FineW(Len(b), new) /\ FineP(Len(b), new)
  BY <1>7, ApplyIs DEF H
<1>9. FirstOf(b, Len(b)) = Range(b)
  BY FirstOfIs
<1> QED
  BY <1>8, <1>9
\* Only the scene's objects have a property of their own, and what is shown of one is not
\* older than the object.
RegTidy(a, r, i) ==
    /\ a # "scene" => r[Place(i)] = NoRegister
    /\ Live(r, Whole(i)) # Deleted /\ Live(r, Place(i)) # Deleted => ~Newer(r[Whole(i)], r[Place(i)])

Adds(b, i) == \E op \in Range(b) : op.path = Whole(i) /\ op.value # Deleted

\* A batch that does not mention the object.
LEMMA AppliedElsewhere ==
    ASSUME NEW r \in Documents(Ids), NEW b \in Seq(Ops), Distinct(b), NEW i \in Ids, i \notin IdsOf(b),
           NEW new, new = Apply(r, b)
    PROVE  new[Whole(i)] = r[Whole(i)] /\ new[Place(i)] = r[Place(i)]
<1>1. \A x \in Range(b) : IdOf(x) # i
  BY DEF IdsOf
<1>2. Range(b) \subseteq Ops /\ \A k \in 1..Len(b) : b[k] \in Range(b)
  BY SeqOps
<1>3. \A x \in Range(b) : x.path # Whole(i) /\ x.path # Place(i)
  BY <1>1, <1>2, OpIs
<1>4. At(Range(b), Whole(i)) = NoRegister /\ At(Range(b), Place(i)) = NoRegister
  BY <1>3, AtNone
<1>5. Calm(r, b, i)
  BY <1>4 DEF Calm
<1>6. \A op \in Range(b) : IdOf(op) = i => ~LosesTo(r, op)
  BY <1>1
<1> QED
  BY <1>4, <1>5, <1>6, Applied

LEMMA DocSame ==
    ASSUME NEW r, NEW s, NEW i, r[Whole(i)] = s[Whole(i)], r[Place(i)] = s[Place(i)]
    PROVE  Doc(r, i) = Doc(s, i) /\ \A a : RegTidy(a, r, i) <=> RegTidy(a, s, i)
BY DEF Doc, Live, RegTidy

\* What a batch makes of the document is what it makes of an editor that shows it.
LEMMA Committed ==
    ASSUME NEW a, NEW r \in Documents(Ids), NEW b \in Seq(Ops), Distinct(b), NEW i \in Ids,
           a # "scene" => WholeOnly(b), Ordered(b, i), RegTidy(a, r, i),
           \A op \in Range(b) : IdOf(op) = i => ~LosesTo(r, op),
           a = "scene" /\ Adds(b, i) => r[Whole(i)] = NoRegister /\ r[Place(i)] = NoRegister,
           NEW new, new = Apply(r, b)
    PROVE  Doc(new, i) = Outcome(a, Doc(r, i), Range(b), i) /\ RegTidy(a, new, i)
<1> DEFINE w == At(Range(b), Whole(i))
           p == At(Range(b), Place(i))
           d == Doc(r, i)
<1>0. Whole(i) \in Paths /\ Place(i) \in Paths /\ Whole(i) # Place(i)
  BY PathsAre
<1>1. /\ new[Whole(i)] = IF w = NoRegister THEN r[Whole(i)] ELSE w
      /\ Calm(r, b, i) => new[Place(i)] = IF p = NoRegister THEN r[Place(i)] ELSE p
  BY Applied
<1>2. Range(b) \subseteq Ops
  BY SeqOps
<1>3. /\ w # NoRegister => w \in Range(b) /\ w \in Ops /\ w.path = Whole(i)
      /\ p # NoRegister => p \in Range(b) /\ p \in Ops /\ p.path = Place(i)
  BY <1>2, AtIs
<1>4. p # NoRegister => p.value # Deleted
  BY <1>2, DocType, OutcomeType
<1>5. d \in OneShown /\ (d = <<>> <=> Live(r, Whole(i)) = Deleted)
  BY DocType
<1>6. Outcome(a, d, Range(b), i) = AfterPlace(AfterWhole(a, d, w), p)
  BY DEF Outcome
<1>7. \A x \in Range(b) : \E k \in 1..Len(b) : x = b[k]
  BY SeqOps
<1>8. a # "scene" => p = NoRegister
  <2> SUFFICES ASSUME a # "scene", p # NoRegister PROVE FALSE
    OBVIOUS
  <2>1. PICK k \in 1..Len(b) : p = b[k]
    BY <1>3, <1>7
  <2>2. p.path = Whole(IdOf(p))
    BY <2>1 DEF WholeOnly
  <2>3. IdOf(p) = i
    BY <1>3, OpIs
  <2> QED
    BY <1>0, <1>3, <2>2, <2>3
<1>9. w = NoRegister \/ w.value = Deleted \/ w.value # Deleted
  OBVIOUS
<1> HIDE DEF w, p, d
<1>10. CASE w = NoRegister
  <2>1. Calm(r, b, i)
    BY <1>10 DEF Calm, w
  <2>2. new[Whole(i)] = r[Whole(i)] /\ AfterWhole(a, d, w) = d
    BY <1>1, <1>10 DEF AfterWhole
  <2>3. CASE p = NoRegister
    <3>1. new[Place(i)] = r[Place(i)] /\ AfterPlace(d, p) = d
      BY <1>1, <2>1, <2>3 DEF AfterPlace
    <3>2. Doc(new, i) = d /\ RegTidy(a, new, i)
      BY <2>2, <3>1, DocSame DEF d
    <3> QED
      BY <1>6, <2>2, <3>1, <3>2 DEF d
  <2>4. CASE p # NoRegister
    <3>1. new[Place(i)] = p /\ Live(new, Place(i)) = p.value /\ Live(new, Whole(i)) = Live(r, Whole(i))
      BY <1>1, <2>1, <2>2, <2>4 DEF Live
    <3>2. Doc(new, i) = IF d = <<>> THEN <<>> ELSE <<p.value>>
      BY <1>4, <1>5, <2>4, <3>1 DEF Doc
    <3>3. AfterPlace(d, p) = IF d = <<>> THEN <<>> ELSE <<p.value>>
      BY <2>4 DEF AfterPlace
    <3>4. RegTidy(a, new, i)
      <4>1. IdOf(p) = i /\ ~LosesTo(r, p)
        BY <1>3, <2>4, OpIs
      <4>2. r[Whole(i)] = NoRegister \/ WinsLWW(p, r[Whole(i)], FALSE)
        BY <1>3, <2>4, <4>1, LosesIs
      <4>3. r[Whole(i)] # NoRegister => r[Whole(i)] \in Writes
        BY <1>0, DocumentsAre, OpsAre
      <4>4. r[Whole(i)] # NoRegister => ~Newer(r[Whole(i)], p)
        <5>1. FALSE \in BOOLEAN /\ p \in Writes
          BY <1>3, <2>4, OpsAre
        <5> QED
          BY <4>2, <4>3, <5>1, WinsIs
      <4>5. Live(new, Whole(i)) # Deleted => r[Whole(i)] # NoRegister
        BY <3>1 DEF Live
      <4> QED
        BY <1>8, <2>2, <2>4, <3>1, <4>4, <4>5 DEF RegTidy
    <3> QED
      BY <1>6, <2>2, <3>2, <3>3, <3>4 DEF d
  <2> QED
    BY <2>3, <2>4
<1>11. CASE w # NoRegister /\ w.value = Deleted
  <2>1. new[Whole(i)] = w /\ Live(new, Whole(i)) = Deleted
    BY <1>1, <1>11 DEF Live
  <2>2. Doc(new, i) = <<>>
    BY <2>1 DEF Doc
  <2>3. AfterPlace(AfterWhole(a, d, w), p) = <<>>
    BY <1>11 DEF AfterWhole, AfterPlace
  <2>4. a # "scene" => new[Place(i)] = NoRegister
    <3> SUFFICES ASSUME a # "scene" PROVE new[Place(i)] = NoRegister
      OBVIOUS
    <3>1. r[Place(i)] = NoRegister /\ p = NoRegister
      BY <1>8 DEF RegTidy
    <3>2. \A x \in Range(b) : x.path # Place(i)
      BY <1>2, <3>1, AtIs DEF p
    <3>3. \A k \in 1..Len(b) : b[k].path # Place(i)
      BY <3>2, SeqOps
    <3>4. Calm(r, b, i)
      BY <3>1, <3>3 DEF Calm
    <3> QED
      BY <1>1, <3>1, <3>4
  <2> QED
    BY <1>6, <2>1, <2>2, <2>3, <2>4 DEF RegTidy, d
<1>12. CASE w # NoRegister /\ w.value # Deleted
  <2>1. Adds(b, i)
    BY <1>3, <1>12 DEF Adds
  <2>2. r[Place(i)] = NoRegister /\ (a = "scene" => r[Whole(i)] = NoRegister)
    BY <2>1 DEF RegTidy
  <2>3. \A k \in 1..Len(b) : b[k].path = Whole(i) => b[k] = w
    <3>1. PICK k \in 1..Len(b) : w = b[k]
      BY <1>3, <1>7, <1>12
    <3> QED
      BY <1>3, <1>12, <3>1 DEF Distinct
  <2>4. Calm(r, b, i)
    BY <1>12, <2>2, <2>3 DEF Calm, Ordered
  <2>5. new[Whole(i)] = w /\ Live(new, Whole(i)) = w.value
    BY <1>1, <1>12 DEF Live
  <2>6. a = "scene" => d = <<>>
    BY <1>5, <2>2 DEF Live
  <2>7. AfterWhole(a, d, w) = <<w.value>>
    BY <1>12, <2>6 DEF AfterWhole
  <2>8. CASE p = NoRegister
    <3>1. new[Place(i)] = NoRegister /\ Live(new, Place(i)) = Deleted
      BY <1>1, <2>2, <2>4, <2>8 DEF Live
    <3>2. Doc(new, i) = <<w.value>>
      BY <1>12, <2>5, <3>1 DEF Doc
    <3> QED
      BY <1>6, <2>7, <2>8, <3>1, <3>2 DEF AfterPlace, RegTidy, d
  <2>9. CASE p # NoRegister
    <3>1. new[Place(i)] = p /\ Live(new, Place(i)) = p.value
      BY <1>1, <2>4, <2>9 DEF Live
    <3>2. Doc(new, i) = <<p.value>>
      BY <1>4, <1>12, <2>5, <2>9, <3>1 DEF Doc
    <3>3. AfterPlace(AfterWhole(a, d, w), p) = <<p.value>>
      BY <2>7, <2>9 DEF AfterPlace
    <3>4. ~Newer(w, p)
      <4>1. PICK j \in 1..Len(b) : w = b[j]
        BY <1>3, <1>7, <1>12
      <4>2. PICK k \in 1..Len(b) : p = b[k]
        BY <1>3, <1>7, <2>9
      <4> QED
        BY <1>3, <1>12, <2>9, <4>1, <4>2 DEF Ordered
    <3>5. RegTidy(a, new, i)
      BY <1>8, <2>5, <2>9, <3>1, <3>4 DEF RegTidy
    <3> QED
      BY <1>6, <3>2, <3>3, <3>5 DEF d
  <2> QED
    BY <2>8, <2>9
<1> QED
  BY <1>10, <1>11, <1>12

\* The snapshot of a join.
LEMMA OrdersAll ==
    ASSUME NEW S, IsFiniteSet(S), NEW s \in SetToSeqs(S)
    PROVE  \A x \in S : \E k \in 1..Len(s) : s[k] = x
<1> DEFINE D == 1..Len(s)
<1>1. Len(s) \in Nat /\ Len(s) = Cardinality(S) /\ s \in [D -> S] /\ \A i, j \in D : i # j => s[i] # s[j]
  <2>1. Len(s) \in Nat /\ Len(s) = Cardinality(S) /\ \A i, j \in D : i # j => s[i] # s[j]
    BY Orders
  <2>2. s \in [1..Cardinality(S) -> S]
    BY DEF SetToSeqs
  <2> QED
    BY <2>1, <2>2
<1>2. IsFiniteSet(D) /\ Cardinality(D) = Len(s)
  BY <1>1, FS_Interval
<1>3. s \in Injection(D, S)
  BY <1>1 DEF Injection, IsInjective
<1>4. s \in Surjection(D, S)
  BY <1>1, <1>2, <1>3, FS_Injection
<1> QED
  BY <1>4 DEF Surjection

\* It has what is there of every path.
LEMMA SnapshotHas ==
    ASSUME NEW r \in Documents(Ids), NEW ops \in SnapshotOps(r)
    PROVE  /\ ops \in Seq(Ops) /\ Distinct(ops)
           /\ \A x \in Range(ops) : x = r[x.path] /\ x.path \in Paths
           /\ \A q \in Paths : At(Range(ops), q) = IF Live(r, q) = Deleted THEN NoRegister ELSE r[q]
           /\ \A j, k \in 1..Len(ops) :
                 j < k => ~(\/ ops[k].ts < ops[j].ts
                            \/ ops[k].ts = ops[j].ts /\ ops[k].peer < ops[j].peer
                            \/ ops[k].ts = ops[j].ts /\ ops[k].peer = ops[j].peer
                                 /\ Len(ops[k].path) < Len(ops[j].path))
<1> DEFINE seen == {q \in Paths : r[q] # NoRegister /\ Live(r, q) # Deleted}
           there == {r[p] : p \in seen}
<1>1. ops \in SetToSeqs(there) /\ \A j, k \in DOMAIN ops :
                 j < k => ~(\/ ops[k].ts < ops[j].ts
                            \/ ops[k].ts = ops[j].ts /\ ops[k].peer < ops[j].peer
                            \/ ops[k].ts = ops[j].ts /\ ops[k].peer = ops[j].peer
                                 /\ Len(ops[k].path) < Len(ops[j].path))
  BY DEF SnapshotOps
<1>2. ops \in Seq(Ops)
  BY SnapshotType, AllIds
<1>3. \A q \in seen : r[q].path = q /\ q \in Paths /\ r[q] # NoRegister
  BY DocumentsAre
<1>4. \A q \in Paths : q \in seen <=> Live(r, q) # Deleted
  BY DEF Live
<1>5. IsFiniteSet(seen)
  BY PathsFinite, FS_Subset
<1> HIDE DEF seen
<1>6. IsFiniteSet(there)
  BY <1>5, FiniteImage
<1>7. \A x \in there : x.path \in seen /\ x = r[x.path]
  BY <1>3
<1>8. \A q \in seen : r[q] \in there
  OBVIOUS
<1> HIDE DEF there
<1>9. Range(ops) = there
  <2>1. \A x \in there : \E k \in 1..Len(ops) : ops[k] = x
    BY <1>1, <1>6, OrdersAll
  <2>2. ops \in Seq(there)
    BY <1>1, <1>6, Orders
  <2> QED
    BY <2>1, <2>2 DEF Range
<1>10. Distinct(ops)
  <2> SUFFICES ASSUME NEW j \in 1..Len(ops), NEW k \in 1..Len(ops), ops[j].path = ops[k].path PROVE j = k
    BY DEF Distinct
  <2>1. ops[j] \in there /\ ops[k] \in there
    BY <1>2, <1>9, SeqOps
  <2>2. ops[j] = ops[k]
    BY <1>7, <2>1
  <2>3. \A i, l \in 1..Len(ops) : i # l => ops[i] # ops[l]
    BY <1>1, <1>6, Orders
  <2> QED
    BY <2>2, <2>3
<1>11. ASSUME NEW q \in Paths PROVE At(Range(ops), q) = IF Live(r, q) = Deleted THEN NoRegister ELSE r[q]
  <2>1. CASE Live(r, q) = Deleted
    <3>1. \A x \in Range(ops) : x.path # q
      BY <1>4, <1>7, <1>9, <2>1
    <3> QED
      BY <2>1, <3>1, AtNone
  <2>2. CASE Live(r, q) # Deleted
    <3>1. q \in seen
      BY <1>4, <2>2
    <3>2. r[q] \in Range(ops) /\ r[q].path = q
      BY <1>3, <1>8, <1>9, <3>1
    <3>3. \A y \in Range(ops) : y.path = r[q].path => y = r[q]
      BY <1>7, <1>9, <3>2
    <3> QED
      BY <2>2, <3>2, <3>3, AtOne
  <2> QED
    BY <2>1, <2>2
<1>12. DOMAIN ops = 1..Len(ops)
  BY <1>2
<1>13. \A x \in Range(ops) : x = r[x.path] /\ x.path \in Paths
  BY <1>3, <1>7, <1>9
<1>14. \A j, k \in 1..Len(ops) :
                 j < k => ~(\/ ops[k].ts < ops[j].ts
                            \/ ops[k].ts = ops[j].ts /\ ops[k].peer < ops[j].peer
                            \/ ops[k].ts = ops[j].ts /\ ops[k].peer = ops[j].peer
                                 /\ Len(ops[k].path) < Len(ops[j].path))
  BY <1>1, <1>12
<1> QED
  BY <1>2, <1>10, <1>11, <1>13, <1>14

\* It builds the document.
LEMMA SnapshotBuilds ==
    ASSUME NEW a, NEW r \in Documents(Ids), NEW ops \in SnapshotOps(r), NEW i \in Ids
    PROVE  /\ Outcome(a, <<>>, Range(ops), i) = Doc(r, i)
           /\ RegTidy(a, r, i) => Ordered(ops, i)
           /\ r[Whole(i)] = NoRegister /\ r[Place(i)] = NoRegister => i \notin IdsOf(ops)
<1>0. Whole(i) \in Paths /\ Place(i) \in Paths /\ Len(Whole(i)) = 1 /\ Len(Place(i)) = 2
  BY PathsAre
<1>1. /\ At(Range(ops), Whole(i)) = IF Live(r, Whole(i)) = Deleted THEN NoRegister ELSE r[Whole(i)]
      /\ At(Range(ops), Place(i)) = IF Live(r, Place(i)) = Deleted THEN NoRegister ELSE r[Place(i)]
  BY <1>0, SnapshotHas
<1>2. ops \in Seq(Ops) /\ \A x \in Range(ops) : x = r[x.path] /\ x.path \in Paths
  BY SnapshotHas
<1>3. Range(ops) \subseteq Ops /\ \A k \in 1..Len(ops) : ops[k] \in Ops /\ ops[k] \in Range(ops)
  BY <1>2, SeqOps
<1>4. \A q \in Paths : Live(r, q) # Deleted => r[q] # NoRegister /\ r[q].value = Live(r, q)
  BY DEF Live
<1>5. Outcome(a, <<>>, Range(ops), i) = Doc(r, i)
  <2>1. CASE Live(r, Whole(i)) = Deleted
    BY <1>1, <2>1 DEF Outcome, AfterWhole, AfterPlace, Doc
  <2>2. CASE Live(r, Whole(i)) # Deleted
    <3>1. AfterWhole(a, <<>>, At(Range(ops), Whole(i))) = <<r[Whole(i)].value>>
      BY <1>0, <1>1, <1>4, <2>2 DEF AfterWhole
    <3>2. AfterPlace(<<r[Whole(i)].value>>, At(Range(ops), Place(i)))
             = IF Live(r, Place(i)) = Deleted THEN <<r[Whole(i)].value>> ELSE <<r[Place(i)].value>>
      BY <1>0, <1>1, <1>4 DEF AfterPlace
    <3> QED
      BY <2>2, <3>1, <3>2 DEF Outcome, Doc
  <2> QED
    BY <2>1, <2>2
<1>6. ASSUME RegTidy(a, r, i) PROVE Ordered(ops, i)
  <2> SUFFICES ASSUME NEW j \in 1..Len(ops), NEW k \in 1..Len(ops),
                      ops[j].path = Whole(i), ops[k].path = Place(i), ops[j].value # Deleted
               PROVE  j < k /\ ~Newer(ops[j], ops[k])
    BY DEF Ordered
  <2> DEFINE x == ops[j]
             y == ops[k]
  <2>1. x \in Ops /\ y \in Ops /\ x = r[Whole(i)] /\ y = r[Place(i)]
    BY <1>2, <1>3
  <2>2. x # NoRegister /\ y # NoRegister /\ y.value # Deleted
    <3>1. y.path # Whole(i)
      BY PathsAre
    <3>2. IdOf(y) = i /\ y.value \in Values
      BY <2>1, <3>1, OpIs
    <3> QED
      BY <2>1, <3>2, OpIs, OpsAre
  <2>3. ~Newer(x, y)
    BY <1>6, <2>1, <2>2 DEF RegTidy, Live
  <2>4. x.ts \in Nat /\ y.ts \in Nat /\ x.peer \in Nat /\ y.peer \in Nat
    BY <2>1, OpsAre
  <2>5. j # k
    BY PathsAre
  <2>6. ~(k < j)
    <3> SUFFICES ASSUME k < j PROVE FALSE
      OBVIOUS
    <3>1. ~(\/ x.ts < y.ts
            \/ x.ts = y.ts /\ x.peer < y.peer
            \/ x.ts = y.ts /\ x.peer = y.peer /\ Len(x.path) < Len(y.path))
      BY SnapshotHas
    <3> QED
      BY <1>0, <2>3, <2>4, <3>1 DEF Newer
  <2>7. j \in Nat /\ k \in Nat
    BY <1>2, SeqOps
  <2> QED
    BY <2>3, <2>5, <2>6, <2>7
<1>7. ASSUME r[Whole(i)] = NoRegister, r[Place(i)] = NoRegister PROVE i \notin IdsOf(ops)
  <2> SUFFICES ASSUME NEW x \in Range(ops), IdOf(x) = i PROVE FALSE
    BY DEF IdsOf
  <2>1. x \in Ops /\ x = r[x.path]
    BY <1>2, <1>3
  <2> QED
    BY <1>7, <2>1, OpIs
<1> QED
  BY <1>5, <1>6, <1>7

LEMMA SnapshotWhole ==
    ASSUME NEW r \in Documents(Ids), NEW ops \in SnapshotOps(r), \A i \in Ids : r[Place(i)] = NoRegister
    PROVE  WholeOnly(ops)
<1> SUFFICES ASSUME NEW k \in 1..Len(ops) PROVE ops[k].path = Whole(IdOf(ops[k]))
  BY DEF WholeOnly
<1>1. ops \in Seq(Ops) /\ \A x \in Range(ops) : x = r[x.path]
  BY SnapshotHas
<1>2. ops[k] \in Ops /\ ops[k] = r[ops[k].path]
  BY <1>1, SeqOps
<1> QED
  BY <1>2, OpIs

\* What an edit leaves of an object, and what a client will have made of the document d of
\* an object when F, which is in flight, and P, which waits, are committed.
AfterEdit(v) == IF v = Deleted THEN <<>> ELSE <<v>>
Awaits(a, d, F, P, i) == Outcome(a, Outcome(a, d, Range(F), i), Range(P), i)

\* What is in flight, and the state of the request when S is to be sent.
Flying(q, S) == IF q = "sent" THEN S ELSE <<>>
Asking(q, S) == IF q = "none" /\ S # <<>> THEN "sent" ELSE q

\* The outbox P, S becomes P2, S2.
BoxStep(P, S, op, P2, S2) ==
    \/ S = <<>> /\ P2 = <<>> /\ S2 = Waiting(P, op)
    \/ S # <<>> /\ P2 = Waiting(P, op) /\ S2 = S

\* The operation is on an object of which e is shown now, as the editors make them.
Fits(a, e, S, P, op) ==
    \/ /\ op.path = Whole(IdOf(op))
       /\ op.value = Deleted \/ a # "scene" \/ (IdOf(op) \notin IdsOf(P) \cup IdsOf(S) /\ e = <<>>)
    \/ op.path = Place(IdOf(op)) /\ e # <<>>

LEMMA NoneOf ==
    /\ Range(<<>>) = {} /\ IdsOf(<<>>) = {} /\ <<>> \in Seq(Ops)
    /\ \A a, i : \A d \in OneShown : Outcome(a, d, {}, i) = d
    /\ Distinct(<<>>) /\ WholeOnly(<<>>) /\ \A i : Ordered(<<>>, i) /\ ~Adds(<<>>, i)
<1>1. Range(<<>>) = {} /\ <<>> \in Seq(Ops) /\ Len(<<>>) = 0
  BY DEF Range
<1>2. IdsOf(<<>>) = {} /\ \A i : ~Adds(<<>>, i)
  BY <1>1 DEF IdsOf, Adds
<1>3. \A q : At({}, q) = NoRegister
  BY DEF At, Of
<1>4. \A a, i : \A d \in OneShown : Outcome(a, d, {}, i) = d
  BY <1>3 DEF Outcome, AfterWhole, AfterPlace
<1>5. 1..Len(<<>>) = {}
  BY <1>1
<1>6. Distinct(<<>>) /\ WholeOnly(<<>>) /\ \A i : Ordered(<<>>, i)
  BY <1>5 DEF Distinct, WholeOnly, Ordered
<1> QED
  BY <1>1, <1>2, <1>4, <1>6

LEMMA AwaitsType ==
    ASSUME NEW a, NEW d \in OneShown, NEW F \in Seq(Ops), NEW P \in Seq(Ops), NEW i \in Ids
    PROVE  /\ Awaits(a, d, F, P, i) \in OneShown /\ Outcome(a, d, Range(F), i) \in OneShown
           /\ i \notin IdsOf(F) => Outcome(a, d, Range(F), i) = d
           /\ i \notin IdsOf(P) => Awaits(a, d, F, P, i) = Outcome(a, d, Range(F), i)
<1>1. Range(F) \subseteq Ops /\ Range(P) \subseteq Ops
  BY SeqOps
<1>2. Outcome(a, d, Range(F), i) \in OneShown
  BY <1>1, OutcomeType
<1>3. Awaits(a, d, F, P, i) \in OneShown
  BY <1>1, <1>2, OutcomeType DEF Awaits
<1>4. ASSUME i \notin IdsOf(F) PROVE Outcome(a, d, Range(F), i) = d
  <2>1. \A x \in Range(F) : IdOf(x) # i
    BY <1>4 DEF IdsOf
  <2> QED
    BY <1>1, <2>1, OutcomeType
<1>5. ASSUME i \notin IdsOf(P) PROVE Awaits(a, d, F, P, i) = Outcome(a, d, Range(F), i)
  <2>1. \A x \in Range(P) : IdOf(x) # i
    BY <1>5 DEF IdsOf
  <2> QED
    BY <1>1, <1>2, <2>1, OutcomeType DEF Awaits
<1> QED
  BY <1>2, <1>3, <1>4, <1>5

\* A batch that writes whole objects has no property.
LEMMA NoPlace ==
    ASSUME NEW b \in Seq(Ops), WholeOnly(b), NEW i \in Ids
    PROVE  At(Range(b), Place(i)) = NoRegister /\ Ordered(b, i)
<1>0. Whole(i) # Place(i)
  BY PathsAre
<1>1. \A k \in 1..Len(b) : b[k].path # Place(i)
  <2> SUFFICES ASSUME NEW k \in 1..Len(b), b[k].path = Place(i) PROVE FALSE
    OBVIOUS
  <2>1. b[k] \in Ops /\ b[k].path = Whole(IdOf(b[k]))
    BY SeqOps DEF WholeOnly
  <2>2. IdOf(b[k]) = i
    BY <2>1, OpIs
  <2> QED
    BY <1>0, <2>1, <2>2
<1>2. \A x \in Range(b) : x.path # Place(i)
  BY <1>1, SeqOps
<1> QED
  BY <1>1, <1>2, AtNone DEF Ordered

LEMMA WaitsMore ==
    ASSUME NEW a, NEW d \in OneShown, NEW P \in Seq(Ops), NEW op \in Ops, NEW W, W = Waiting(P, op),
           NEW i \in Ids, i = IdOf(op), a # "scene" => WholeOnly(P),
           \/ /\ op.path = Whole(i)
              /\ op.value = Deleted \/ a # "scene" \/ (i \notin IdsOf(P) /\ d = <<>>)
           \/ op.path = Place(i) /\ Outcome(a, d, Range(P), i) # <<>>
    PROVE  Outcome(a, d, Range(W), i) = AfterEdit(op.value)
<1> DEFINE w == At(Range(P), Whole(i))
           p == At(Range(P), Place(i))
<1>0. Whole(i) # Place(i) /\ op # NoRegister /\ (op.path # Whole(i) => op.value # Deleted)
  BY PathsAre, OpIs, OpsAre
<1>1. At(Range(W), op.path) = op /\ \A q : q # op.path => At(Range(W), q) = At(Range(P), q)
  BY WaitingAt
<1>2. Outcome(a, d, Range(W), i) = AfterPlace(AfterWhole(a, d, At(Range(W), Whole(i))), At(Range(W), Place(i)))
  BY DEF Outcome
<1>3. Outcome(a, d, Range(P), i) = AfterPlace(AfterWhole(a, d, w), p)
  BY DEF Outcome
<1> HIDE DEF w, p
<1>4. CASE op.path = Whole(i)
  <2>1. At(Range(W), Whole(i)) = op /\ At(Range(W), Place(i)) = p
    BY <1>0, <1>1, <1>4 DEF p
  <2>2. CASE op.value = Deleted
    <3>1. AfterWhole(a, d, op) = <<>> /\ AfterPlace(<<>>, p) = <<>>
      BY <1>0, <2>2 DEF AfterWhole, AfterPlace
    <3> QED
      BY <1>2, <2>1, <2>2, <3>1 DEF AfterEdit
  <2>3. CASE op.value # Deleted
    <3>1. p = NoRegister
      <4>1. CASE a # "scene"
        BY <4>1, NoPlace DEF p
      <4>2. CASE i \notin IdsOf(P)
        <5>1. \A x \in Range(P) : x.path # Place(i)
          <6>1. Range(P) \subseteq Ops /\ \A x \in Range(P) : IdOf(x) # i
            BY <4>2, SeqOps DEF IdsOf
          <6> QED
            BY <6>1, OpIs
        <5> QED
          BY <5>1, AtNone DEF p
      <4> QED
        BY <1>0, <1>4, <2>3, <4>1, <4>2
    <3>2. AfterWhole(a, d, op) = <<op.value>>
      BY <1>0, <1>4, <2>3 DEF AfterWhole
    <3> QED
      BY <1>2, <2>1, <2>3, <3>1, <3>2 DEF AfterEdit, AfterPlace
  <2> QED
    BY <2>2, <2>3
<1>5. CASE op.path = Place(i)
  <2>1. At(Range(W), Whole(i)) = w /\ At(Range(W), Place(i)) = op
    BY <1>0, <1>1, <1>5 DEF w
  <2>2. AfterWhole(a, d, w) # <<>>
    <3> SUFFICES ASSUME AfterWhole(a, d, w) = <<>> PROVE FALSE
      OBVIOUS
    <3>1. AfterPlace(<<>>, p) = <<>>
      BY DEF AfterPlace
    <3> QED
      BY <1>0, <1>3, <1>5, <3>1
  <2>3. AfterPlace(AfterWhole(a, d, w), op) = <<op.value>>
    BY <1>0, <2>2 DEF AfterPlace
  <2> QED
    BY <1>0, <1>2, <1>5, <2>1, <2>3 DEF AfterEdit
<1> QED
  BY <1>4, <1>5

LEMMA WaitsSame ==
    ASSUME NEW a, NEW d, NEW P \in Seq(Ops), NEW op \in Ops, NEW W, W = Waiting(P, op), NEW i \in Ids, i # IdOf(op)
    PROVE  Outcome(a, d, Range(W), i) = Outcome(a, d, Range(P), i)
<1>1. Whole(i) # op.path /\ Place(i) # op.path
  BY OpIs
<1>2. \A q : q # op.path => At(Range(W), q) = At(Range(P), q)
  BY WaitingAt
<1> QED
  BY <1>1, <1>2 DEF Outcome

\* Only the objects of J are changed; the object i becomes what an edit leaves.
Keeps(a, F, P, F2, P2, J) ==
    \A d \in OneShown, i \in Ids : i \notin J => Awaits(a, d, F2, P2, i) = Awaits(a, d, F, P, i)
Takes(a, F, P, i, v) == \A d \in OneShown : Awaits(a, d, F, P, i) = AfterEdit(v)

\* The objects that the outbox names are those of J and those it named before.
Queues(P, F, P2, F2, J) == IdsOf(P2) \cup IdsOf(F2) = IdsOf(P) \cup IdsOf(F) \cup J

\* If the operation fits what a document comes to, it becomes what the edit leaves.
TakesFit(a, F, P, S, op, F2, P2) ==
    \A d \in OneShown, i \in Ids : i = IdOf(op) /\ Fits(a, Awaits(a, d, F, P, i), S, P, op)
        => Awaits(a, d, F2, P2, i) = AfterEdit(op.value)

\* One operation more in an outbox of an editor for which nothing went wrong.
MayBox(a, P, S, q, op, P2, S2) ==
    /\ P \in Seq(Ops) /\ S \in Seq(Ops) /\ (S = <<>> <=> q = "none") /\ (S = <<>> => P = <<>>)
    /\ (a # "scene" => WholeOnly(P)) /\ BoxStep(P, S, op, P2, S2)
Boxed(a, P, S, q, op, P2, S2) ==
    LET F  == Flying(q, S)
        F2 == Flying(Asking(q, S2), S2)
    IN  /\ P2 \in Seq(Ops) /\ S2 \in Seq(Ops) /\ S2 # <<>> /\ Asking(q, S2) # "none"
        /\ Queues(P, F, P2, F2, {IdOf(op)})
        /\ Keeps(a, F, P, F2, P2, {IdOf(op)}) /\ TakesFit(a, F, P, S, op, F2, P2)

LEMMA OneMore ==
    ASSUME NEW a, NEW P, NEW S, NEW q, NEW op \in Ops, NEW P2, NEW S2, MayBox(a, P, S, q, op, P2, S2)
    PROVE  Boxed(a, P, S, q, op, P2, S2)
<1> DEFINE q2 == Asking(q, S2)
           F  == Flying(q, S)
           F2 == Flying(q2, S2)
<1>20. /\ P \in Seq(Ops) /\ S \in Seq(Ops) /\ (S = <<>> <=> q = "none") /\ (S = <<>> => P = <<>>)
       /\ (a # "scene" => WholeOnly(P)) /\ BoxStep(P, S, op, P2, S2)
  BY DEF MayBox
<1>21. q2 = Asking(q, S2) /\ F = Flying(q, S) /\ F2 = Flying(q2, S2)
  OBVIOUS
<1> HIDE DEF q2, F, F2
<1> USE <1>20, <1>21
<1> SUFFICES /\ P2 \in Seq(Ops) /\ S2 \in Seq(Ops) /\ S2 # <<>> /\ q2 # "none"
             /\ Queues(P, F, P2, F2, {IdOf(op)})
             /\ Keeps(a, F, P, F2, P2, {IdOf(op)}) /\ TakesFit(a, F, P, S, op, F2, P2)
  BY DEF Boxed, q2, F, F2
<1> DEFINE W == Waiting(P, op)
<1>1. W \in Seq(Ops) /\ W # <<>> /\ IdsOf(W) = IdsOf(P) \cup {IdOf(op)}
  BY WaitingIs, WaitingRange
<1>2. IdOf(op) \in Ids
  BY OpIs
<1>3. F \in Seq(Ops) /\ IdsOf(F) \subseteq IdsOf(S)
  BY NoneOf DEF Flying
<1> HIDE DEF W
<1>4. CASE S = <<>>
  <2>1. P = <<>> /\ q = "none" /\ F = <<>> /\ P2 = <<>> /\ S2 = W /\ q2 = "sent" /\ F2 = W
    BY <1>1, <1>4 DEF BoxStep, Flying, Asking, W
  <2>0. Range(F) = {} /\ Range(P) = {} /\ Range(P2) = {} /\ \A i : \A d \in OneShown : Outcome(a, d, {}, i) = d
    BY <2>1, NoneOf
  <2>2. \A d \in OneShown, i \in Ids : Awaits(a, d, F, P, i) = d /\ Outcome(a, d, Range(P), i) = d
    BY <2>0 DEF Awaits
  <2>3. \A d \in OneShown, i \in Ids : Awaits(a, d, F2, P2, i) = Outcome(a, d, Range(W), i)
    <3> SUFFICES ASSUME NEW d \in OneShown, NEW i \in Ids
                 PROVE  Awaits(a, d, F2, P2, i) = Outcome(a, d, Range(W), i)
      OBVIOUS
    <3>1. Outcome(a, d, Range(W), i) \in OneShown
      BY <1>1, AwaitsType, NoneOf
    <3> QED
      BY <2>0, <2>1, <3>1 DEF Awaits
  <2>4. ASSUME NEW d \in OneShown, NEW i \in Ids, i # IdOf(op)
        PROVE  Awaits(a, d, F2, P2, i) = Awaits(a, d, F, P, i)
    <3>1. Outcome(a, d, Range(W), i) = Outcome(a, d, Range(P), i)
      BY <2>4, WaitsSame DEF W
    <3> QED
      BY <2>2, <2>3, <3>1
  <2>5. ASSUME NEW d \in OneShown, NEW i \in Ids, i = IdOf(op), Fits(a, Awaits(a, d, F, P, i), S, P, op)
        PROVE  Awaits(a, d, F2, P2, i) = AfterEdit(op.value)
    <3>1. Awaits(a, d, F, P, i) = d /\ Outcome(a, d, Range(P), i) = d
      BY <2>2
    <3>2. \/ /\ op.path = Whole(i)
             /\ op.value = Deleted \/ a # "scene" \/ (i \notin IdsOf(P) /\ d = <<>>)
          \/ op.path = Place(i) /\ Outcome(a, d, Range(P), i) # <<>>
      BY <2>5, <3>1 DEF Fits
    <3>3. Outcome(a, d, Range(W), i) = AfterEdit(op.value)
      BY <2>5, <3>2, WaitsMore DEF W
    <3> QED
      BY <2>3, <3>3
  <2>6. Queues(P, F, P2, F2, {IdOf(op)})
    BY <1>1, <2>1, NoneOf DEF Queues
  <2>7. Keeps(a, F, P, F2, P2, {IdOf(op)}) /\ TakesFit(a, F, P, S, op, F2, P2)
    BY <2>4, <2>5 DEF Keeps, TakesFit
  <2> QED
    BY <1>1, <2>1, <2>6, <2>7, NoneOf
<1>5. CASE S # <<>>
  <2>1. P2 = W /\ S2 = S /\ q2 = q /\ q # "none" /\ F2 = F
    BY <1>5 DEF BoxStep, Flying, Asking, W
  <2>2. ASSUME NEW d \in OneShown, NEW i \in Ids, i # IdOf(op)
        PROVE  Awaits(a, d, F2, P2, i) = Awaits(a, d, F, P, i)
    BY <2>1, <2>2, WaitsSame DEF W, Awaits
  <2>3. ASSUME NEW d \in OneShown, NEW i \in Ids, i = IdOf(op), Fits(a, Awaits(a, d, F, P, i), S, P, op)
        PROVE  Awaits(a, d, F2, P2, i) = AfterEdit(op.value)
    <3> DEFINE e == Outcome(a, d, Range(F), i)
    <3>1. e \in OneShown /\ Awaits(a, d, F, P, i) = Outcome(a, e, Range(P), i)
      BY <1>3, AwaitsType DEF Awaits
    <3>2. i \notin IdsOf(P) \cup IdsOf(S) => Awaits(a, d, F, P, i) = e
      BY <1>3, AwaitsType
    <3> HIDE DEF e
    <3>3. \/ /\ op.path = Whole(i)
             /\ op.value = Deleted \/ a # "scene" \/ (i \notin IdsOf(P) /\ e = <<>>)
          \/ op.path = Place(i) /\ Outcome(a, e, Range(P), i) # <<>>
      BY <2>3, <3>1, <3>2 DEF Fits
    <3>4. Outcome(a, e, Range(W), i) = AfterEdit(op.value)
      BY <2>3, <3>1, <3>3, WaitsMore DEF W
    <3> QED
      BY <2>1, <3>4 DEF Awaits, e
  <2>4. Queues(P, F, P2, F2, {IdOf(op)})
    BY <1>1, <2>1 DEF Queues
  <2>5. Keeps(a, F, P, F2, P2, {IdOf(op)}) /\ TakesFit(a, F, P, S, op, F2, P2)
    BY <2>2, <2>3 DEF Keeps, TakesFit
  <2> QED
    BY <1>1, <1>5, <2>1, <2>4, <2>5
<1> QED
  BY <1>4, <1>5

LEMMA WholeMore ==
    ASSUME NEW a, a # "scene", NEW P \in Seq(Ops), NEW S \in Seq(Ops), NEW q, S = <<>> <=> q = "none",
           S = <<>> => P = <<>>, WholeOnly(P), NEW op \in Ops, op.path = Whole(IdOf(op)),
           NEW P2, NEW S2, BoxStep(P, S, op, P2, S2), NEW q2, q2 = Asking(q, S2)
    PROVE  /\ S2 # <<>> /\ q2 # "none"
           /\ Queues(P, Flying(q, S), P2, Flying(q2, S2), {IdOf(op)})
           /\ Keeps(a, Flying(q, S), P, Flying(q2, S2), P2, {IdOf(op)})
           /\ Takes(a, Flying(q2, S2), P2, IdOf(op), op.value)
<1> DEFINE F == Flying(q, S)
           F2 == Flying(q2, S2)
<1>1. /\ S2 # <<>> /\ q2 # "none"
      /\ Queues(P, F, P2, F2, {IdOf(op)})
      /\ Keeps(a, F, P, F2, P2, {IdOf(op)}) /\ TakesFit(a, F, P, S, op, F2, P2)
  <2>1. MayBox(a, P, S, q, op, P2, S2)
    BY DEF MayBox
  <2>2. Boxed(a, P, S, q, op, P2, S2)
    BY <2>1, OneMore
  <2> QED
    BY <2>2 DEF Boxed
<1>2. \A e : Fits(a, e, S, P, op)
  BY DEF Fits
<1>3. IdOf(op) \in Ids
  BY OpIs
<1> HIDE DEF F, F2
<1>4. Takes(a, F2, P2, IdOf(op), op.value)
  BY <1>1, <1>2, <1>3 DEF Takes, TakesFit
<1> QED
  BY <1>1, <1>4 DEF F, F2

\* A batch as the sample a writes them, the objects of K being contended.
Shaped(a, b, K) ==
    /\ Distinct(b)
    /\ a # "scene" => WholeOnly(b)
    /\ \A i \in Ids \ K : Ordered(b, i)

LEMMA ShapedWider ==
    ASSUME NEW a, NEW b, NEW K, NEW L, K \subseteq L, Shaped(a, b, K)
    PROVE  Shaped(a, b, L)
BY DEF Shaped

LEMMA ShapedMore ==
    ASSUME NEW a, NEW K, NEW P \in Seq(Ops), NEW S \in Seq(Ops), Shaped(a, P, K), Shaped(a, S, K), NEW op \in Ops,
           NEW P2, NEW S2, BoxStep(P, S, op, P2, S2),
           a # "scene" => op.path = Whole(IdOf(op)),
           op.path = Whole(IdOf(op)) => op.value = Deleted \/ a # "scene" \/ IdOf(op) \notin IdsOf(P),
           op.path = Place(IdOf(op)) => \A x \in Range(P) : x.path = Whole(IdOf(op)) => ~Newer(x, op)
    PROVE  Shaped(a, P2, K) /\ Shaped(a, S2, K)
<1> DEFINE W == Waiting(P, op)
<1>1. W \in Seq(Ops)
  BY WaitingIs
<1>2. Distinct(W) /\ (a # "scene" => WholeOnly(W))
  BY WaitingShape DEF Shaped
<1>3. ASSUME NEW i \in Ids \ K PROVE Ordered(W, i)
  <2>1. CASE a # "scene"
    BY <1>1, <1>2, <2>1, NoPlace
  <2>2. CASE a = "scene"
    <3>1. Ordered(P, i) /\ Range(P) \subseteq Ops
      BY SeqOps DEF Shaped
    <3>2. op.path = Whole(i) \/ op.path = Place(i) => IdOf(op) = i
      BY OpIs
    <3>3. op.path = Place(i) => \A x \in Range(P) : x.path = Whole(i) => ~Newer(x, op)
      BY <3>2
    <3>4. op.path = Whole(i) /\ op.value # Deleted => \A x \in Range(P) : x.path # Place(i)
      <4> SUFFICES ASSUME op.path = Whole(i), op.value # Deleted, NEW x \in Range(P), x.path = Place(i) PROVE FALSE
        OBVIOUS
      <4>1. IdOf(x) = i
        BY <3>1, OpIs
      <4> QED
        BY <2>2, <3>2, <4>1 DEF IdsOf
    <3> QED
      BY <3>1, <3>3, <3>4, WaitingOrdered
  <2> QED
    BY <2>1, <2>2
<1>4. Shaped(a, W, K)
  BY <1>2, <1>3 DEF Shaped
<1>5. Shaped(a, <<>>, K)
  BY NoneOf DEF Shaped
<1> QED
  BY <1>4, <1>5 DEF BoxStep

LEMMA EnqueueStep ==
    ASSUME NEW box \in Box, NEW op \in Ops
    PROVE  BoxStep(box.pending, box.sending, op, Enqueue(box, op).pending, Enqueue(box, op).sending)
BY EnqueueIs DEF BoxStep

\* One write in the outbox of c.
LEMMA EnqueueOne ==
    ASSUME NEW c \in Clients, NEW op \in Ops, EnqueueAll(c, <<op>>),
           pending[c] \in Seq(Ops), sending[c] \in Seq(Ops)
    PROVE  \E P2, S2 :
              /\ BoxStep(pending[c], sending[c], op, P2, S2)
              /\ pending' = [pending EXCEPT ![c] = P2]
              /\ sending' = [sending EXCEPT ![c] = S2]
              /\ request' = [request EXCEPT ![c] = Asking(request[c], S2)]
<1> DEFINE ops == <<op>>
           box == FoldFn(enqueued, BoxOf(c), ops)
<1>1. /\ pending' = [pending EXCEPT ![c] = box.pending]
      /\ sending' = [sending EXCEPT ![c] = box.sending]
      /\ request' = [request EXCEPT ![c] = Asking(request[c], box.sending)]
  BY DEF EnqueueAll, BoxOf, FoldLeft, MapThenFoldSet, FoldFn, Asking
<1>2. BoxOf(c) \in Box /\ BoxOf(c).pending = pending[c] /\ BoxOf(c).sending = sending[c]
  BY DEF Box, BoxOf
<1>3. box = Enqueue(BoxOf(c), op)
  <2> DEFINE base == BoxOf(c)
  <2> HIDE DEF base
  <2>1. base \in Box
    BY <1>2 DEF base
  <2>2. <<>> \in Seq(Ops) /\ Append(<<>>, op) = <<op>>
    OBVIOUS
  <2>3. Foldable(Box, Ops, enqueued, base, <<>>)
    BY <2>1, <2>2, EnqueuedIs DEF Foldable
  <2>4. FoldFn(enqueued, base, Append(<<>>, op)) = enqueued[<<FoldFn(enqueued, base, <<>>), op>>]
    <3>1. ASSUME NEW z, Foldable(Box, Ops, enqueued, base, z)
          PROVE  FoldFn(enqueued, base, Append(z, op)) = enqueued[<<FoldFn(enqueued, base, z), op>>]
      BY <3>1, FoldAppend
    <3> QED
      BY <2>3, <3>1, Zenon
  <2>5. FoldFn(enqueued, base, <<>>) = base
    BY FoldEmpty
  <2>6. enqueued[<<base, op>>] = Enqueue(base, op)
    BY <2>1, EnqueuedIs
  <2> QED
    BY <2>2, <2>4, <2>5, <2>6 DEF base
<1> HIDE DEF box
<1>4. BoxStep(pending[c], sending[c], op, box.pending, box.sending)
  BY <1>2, <1>3, EnqueueStep
<1> QED
  BY <1>1, <1>4

\* The diagram writes several objects at once.
LEMMA FoldShaped ==
    ASSUME NEW a, a # "scene", NEW K, NEW base \in Box, Shaped(a, base.pending, K), Shaped(a, base.sending, K),
           NEW ops \in Seq(Ops), WholeOnly(ops), NEW box, box = FoldFn(enqueued, base, ops)
    PROVE  box \in Box /\ Shaped(a, box.pending, K) /\ Shaped(a, box.sending, K)
<1> DEFINE B == {b \in Box : Shaped(a, b.pending, K) /\ Shaped(a, b.sending, K)}
           D == {op \in Ops : op.path = Whole(IdOf(op))}
<1>1. Foldable(Box, Ops, enqueued, base, ops)
  BY EnqueuedIs DEF Foldable
<1>2. ops \in Seq(D)
  <2>1. Len(ops) \in Nat /\ \A k \in 1..Len(ops) : ops[k] \in D
    BY SeqOps DEF WholeOnly
  <2>2. ops \in [1..Len(ops) -> D]
    <3>1. ops \in [1..Len(ops) -> Ops]
      BY LenProperties
    <3> QED
      BY <2>1, <3>1
  <2> HIDE DEF D
  <2> QED
    BY <2>1, <2>2, SeqDef
<1>3. ASSUME NEW b \in B, NEW op \in D PROVE enqueued[<<b, op>>] \in B
  <2> DEFINE e == Enqueue(b, op)
  <2>1. b \in Box /\ op \in Ops /\ e \in Box /\ enqueued[<<b, op>>] = e
    <3>1. Enqueue(b, op) = enqueued[<<b, op>>]
      BY EnqueuedIs
    <3> QED
      BY <3>1, EnqueuedIs
  <2>2. BoxStep(b.pending, b.sending, op, e.pending, e.sending)
    BY <2>1, EnqueueStep
  <2>3. b.pending \in Seq(Ops) /\ b.sending \in Seq(Ops)
    BY <2>1 DEF Box
  <2>4. op.path = Whole(IdOf(op)) /\ op.path # Place(IdOf(op))
    BY <2>1, OpIs, PathsAre
  <2> HIDE DEF e
  <2>5. Shaped(a, e.pending, K) /\ Shaped(a, e.sending, K)
    BY <2>1, <2>2, <2>3, <2>4, ShapedMore
  <2> QED
    BY <2>1, <2>5
<1>4. base \in B /\ B \in SUBSET Box /\ D \in SUBSET Ops
  OBVIOUS
<1> HIDE DEF B, D
<1>5. box \in B
  BY <1>1, <1>2, <1>3, <1>4, FoldKept
<1> QED
  BY <1>5 DEF B

\* The operations of the batch on the object write v.
Sets(b, i, v) == \A op \in Range(b) : IdOf(op) = i => op.value = v

\* What the outbox amounts to for the object i.
LEMMA FoldAwaits ==
    ASSUME NEW a, a # "scene", NEW base \in Box, NEW K, Shaped(a, base.pending, K), Shaped(a, base.sending, K),
           NEW q, base.sending = <<>> <=> q = "none", base.sending = <<>> => base.pending = <<>>,
           NEW ops \in Seq(Ops), WholeOnly(ops), NEW box, box = FoldFn(enqueued, base, ops),
           NEW F, F = Flying(q, base.sending), NEW G, G = Flying(Asking(q, box.sending), box.sending)
    PROVE  /\ box.sending = <<>> => box.pending = <<>>
           /\ Queues(base.pending, F, box.pending, G, IdsOf(ops))
           /\ Keeps(a, F, base.pending, G, box.pending, IdsOf(ops))
           /\ \A i \in IdsOf(ops) : \A v : Sets(ops, i, v) => Takes(a, G, box.pending, i, v)
<1> DEFINE Ask(b) == Asking(q, b.sending)
           Fly(b) == Flying(Ask(b), b.sending)
           Names(k) == {IdOf(op) : op \in FirstOf(ops, k)}
           Kept(k, b) == Keeps(a, F, base.pending, Fly(b), b.pending, Names(k))
           More(k, b) == \A i \in Names(k) : \A v : Sets(ops, i, v) => Takes(a, Fly(b), b.pending, i, v)
           Named(k, b) == Queues(base.pending, F, b.pending, Fly(b), Names(k))
           Fine(k, b) == /\ Shaped(a, b.pending, K) /\ Shaped(a, b.sending, K)
                         /\ b.sending = <<>> => b.pending = <<>>
                         /\ b.sending = <<>> <=> Ask(b) = "none"
                         /\ Named(k, b) /\ Kept(k, b) /\ More(k, b)
           H == {p \in Nat \X Box : Fine(p[1], p[2])}
<1>1. Foldable(Box, Ops, enqueued, base, ops)
  BY EnqueuedIs DEF Foldable
<1>2. <<0, base>> \in H
  <2>1. Ask(base) = q /\ Fly(base) = F
    BY DEF Asking
  <2>2. Names(0) = {}
    BY FirstOfIs
  <2>3. Fine(0, base)
    BY <2>1, <2>2 DEF Keeps, Queues
  <2> HIDE DEF Fine
  <2> QED
    BY <2>3
<1>3. ASSUME NEW k \in Nat, NEW b \in Box, k + 1 \in 1..Len(ops), <<k, b>> \in H
      PROVE  <<k + 1, enqueued[<<b, ops[k + 1]>>]>> \in H
  <2> DEFINE op == ops[k + 1]
             e == Enqueue(b, op)
  <2>1. Fine(k, b)
    BY <1>3
  <2>2. op \in Ops /\ op \in Range(ops) /\ Names(k + 1) = Names(k) \cup {IdOf(op)} /\ op.path = Whole(IdOf(op))
    BY <1>3, FirstOfIs DEF WholeOnly
  <2>3. e \in Box /\ enqueued[<<b, op>>] = e
    <3>1. Enqueue(b, op) = enqueued[<<b, op>>]
      BY <2>2, EnqueuedIs
    <3> QED
      BY <2>2, <3>1, EnqueuedIs
  <2> HIDE DEF op, e
  <2>4. BoxStep(b.pending, b.sending, op, e.pending, e.sending)
    BY <2>2, EnqueueStep DEF e
  <2>5. b.pending \in Seq(Ops) /\ b.sending \in Seq(Ops)
    BY DEF Box
  <2>6. op.path # Place(IdOf(op)) /\ IdOf(op) \in Ids
    BY <2>2, OpIs, PathsAre
  <2>7. Shaped(a, e.pending, K) /\ Shaped(a, e.sending, K)
    BY <2>1, <2>2, <2>4, <2>5, <2>6, ShapedMore
  <2>8. b.sending # <<>> => e.sending = b.sending
    BY <2>4 DEF BoxStep
  <2>9. Ask(e) = Asking(Ask(b), e.sending)
    BY <2>8 DEF Asking
  <2>10. Fly(b) = Flying(Ask(b), b.sending) /\ Fly(e) = Flying(Ask(e), e.sending)
    OBVIOUS
  <2>11. (b.sending = <<>> <=> Ask(b) = "none") /\ (b.sending = <<>> => b.pending = <<>>) /\ WholeOnly(b.pending)
    BY <2>1 DEF Shaped
  <2>12. Kept(k, b) /\ More(k, b) /\ Named(k, b)
    BY <2>1
  <2> HIDE DEF Ask, Fly, Names, Kept, More, Named
  <2>13. /\ e.sending # <<>> /\ Ask(e) # "none"
         /\ Queues(b.pending, Fly(b), e.pending, Fly(e), {IdOf(op)})
         /\ Keeps(a, Fly(b), b.pending, Fly(e), e.pending, {IdOf(op)})
         /\ Takes(a, Fly(e), e.pending, IdOf(op), op.value)
    BY <2>2, <2>4, <2>5, <2>9, <2>10, <2>11, WholeMore
  <2>14. Named(k + 1, e)
    BY <2>2, <2>12, <2>13 DEF Named, Queues
  <2>15. Kept(k + 1, e)
    BY <2>2, <2>12, <2>13 DEF Kept, Keeps
  <2>16. More(k + 1, e)
    <3> SUFFICES ASSUME NEW i \in Names(k + 1), NEW v, Sets(ops, i, v)
                 PROVE  Takes(a, Fly(e), e.pending, i, v)
      BY DEF More
    <3>1. CASE i = IdOf(op)
      <4>1. op.value = v
        BY <2>2, <3>1 DEF Sets
      <4> QED
        BY <2>13, <3>1, <4>1
    <3>2. CASE i # IdOf(op)
      <4>1. i \in Names(k)
        BY <2>2, <3>2
      <4>2. Takes(a, Fly(b), b.pending, i, v)
        BY <2>12, <4>1 DEF More
      <4>3. i \in Ids
        <5>1. \A x \in FirstOf(ops, k) : x \in Ops
          BY <1>3, FirstOfIs
        <5> QED
          BY <4>1, <5>1, OpIs DEF Names
      <4> QED
        BY <2>13, <3>2, <4>2, <4>3 DEF Takes, Keeps
    <3> QED
      BY <3>1, <3>2
  <2>17. Fine(k + 1, e)
    BY <2>7, <2>13, <2>14, <2>15, <2>16
  <2> HIDE DEF Fine
  <2> QED
    BY <2>3, <2>17 DEF op
<1> HIDE DEF H
<1>4. <<Len(ops), box>> \in H
  BY <1>1, <1>2, <1>3, FoldInduction
<1>5. Fine(Len(ops), box)
  BY <1>4 DEF H
<1>6. Names(Len(ops)) = IdsOf(ops)
  BY FirstOfIs DEF IdsOf
<1>7. Fly(box) = G
  OBVIOUS
<1> HIDE DEF Fly, Names, Ask
<1> QED
  BY <1>5, <1>6, <1>7

\* What an outbox becomes when the batch is written: it names the objects of the batch, and
\* amounts to what the batch writes.
Enqueues(a, P, S, q, ops, P2, S2) ==
    LET F == Flying(q, S)
        G == Flying(Asking(q, S2), S2)
    IN  /\ S2 = <<>> => P2 = <<>>
        /\ Queues(P, F, P2, G, IdsOf(ops))
        /\ Keeps(a, F, P, G, P2, IdsOf(ops))
        /\ \A i \in IdsOf(ops) : \A v : Sets(ops, i, v) => Takes(a, G, P2, i, v)

LEMMA EnqueueMany ==
    ASSUME NEW a, a # "scene", NEW c \in Clients, NEW ops \in Seq(Ops), WholeOnly(ops), EnqueueAll(c, ops),
           pending[c] \in Seq(Ops), sending[c] \in Seq(Ops),
           NEW K, Shaped(a, pending[c], K), Shaped(a, sending[c], K),
           sending[c] = <<>> <=> request[c] = "none"
    PROVE  \E P2, S2 :
              /\ pending' = [pending EXCEPT ![c] = P2]
              /\ sending' = [sending EXCEPT ![c] = S2]
              /\ request' = [request EXCEPT ![c] = Asking(request[c], S2)]
              /\ Shaped(a, P2, K) /\ Shaped(a, S2, K)
              /\ (sending[c] = <<>> => pending[c] = <<>>)
                    => Enqueues(a, pending[c], sending[c], request[c], ops, P2, S2)
<1> DEFINE base == BoxOf(c)
           box == FoldFn(enqueued, base, ops)
<1>1. /\ pending' = [pending EXCEPT ![c] = box.pending]
      /\ sending' = [sending EXCEPT ![c] = box.sending]
      /\ request' = [request EXCEPT ![c] = Asking(request[c], box.sending)]
  BY DEF EnqueueAll, BoxOf, FoldLeft, MapThenFoldSet, FoldFn, Asking
<1>2. base \in Box /\ base.pending = pending[c] /\ base.sending = sending[c]
  BY DEF Box, BoxOf
<1>3. box = FoldFn(enqueued, base, ops)
  OBVIOUS
<1> HIDE DEF base, box
<1>4. Shaped(a, box.pending, K) /\ Shaped(a, box.sending, K)
  BY <1>2, <1>3, FoldShaped
<1>5. ASSUME sending[c] = <<>> => pending[c] = <<>>
      PROVE  Enqueues(a, pending[c], sending[c], request[c], ops, box.pending, box.sending)
  <2> DEFINE q == request[c]
             F == Flying(q, base.sending)
             G == Flying(Asking(q, box.sending), box.sending)
  <2>1. /\ box.sending = <<>> => box.pending = <<>>
        /\ Queues(base.pending, F, box.pending, G, IdsOf(ops))
        /\ Keeps(a, F, base.pending, G, box.pending, IdsOf(ops))
        /\ \A i \in IdsOf(ops) : \A v : Sets(ops, i, v) => Takes(a, G, box.pending, i, v)
    <3>1. /\ (base.sending = <<>> <=> q = "none") /\ (base.sending = <<>> => base.pending = <<>>)
          /\ Shaped(a, base.pending, K) /\ Shaped(a, base.sending, K)
      BY <1>2, <1>5
    <3>2. F = Flying(q, base.sending) /\ G = Flying(Asking(q, box.sending), box.sending)
      OBVIOUS
    <3> HIDE DEF q, F, G
    <3> QED
      BY <1>2, <1>3, <3>1, <3>2, FoldAwaits
  <2> QED
    BY <1>2, <2>1 DEF Enqueues
<1> QED
  BY <1>1, <1>4, <1>5

----------------------------------------------------------------------------
(***************************************************************************)
(* The invariant.  It says of every batch that it is as the sample writes  *)
(* them, of the registers that they are as the sample leaves them, of a    *)
(* new object of the scene that nobody else knows it before it is          *)
(* committed; and of a client that nothing went wrong for how far what it  *)
(* sees of an object is behind the document, or ahead of it.               *)
(***************************************************************************)
InFlight(c) == Flying(request[c], sending[c])
See(c, i) == IF app = "diagram" THEN baseline[c][i] ELSE SeenIn(EditorOf(c), i)
Topics(msgs) == UNION {IdsOf(m.ops) : m \in Range(msgs)}

\* If the client owes nothing of the object, the messages on their way lead to the document;
\* if none is on its way, what it owes leads from the document to what it sees.
Tracks(a, r, see, msgs, F, P, i) ==
    /\ i \notin IdsOf(P) \cup IdsOf(F) => Chain(a, see, msgs, i) = Doc(r, i)
    /\ i \notin Topics(msgs) => see = Awaits(a, Doc(r, i), F, P, i)

BatchesInv ==
    \A c \in Clients : /\ Shaped(app, pending[c], contended) /\ Shaped(app, sending[c], contended)
                       /\ Shaped(app, join[c].snapshot, contended)
                       /\ \A m \in Range(net[c]) : Shaped(app, m.ops, contended)
ClocksInv ==
    app = "scene" => \A c \in Clients : \A op \in Range(pending[c]) : op.ts <= clock[c] /\ op.peer = c
RegsInv ==
    \A i \in Ids : /\ app # "scene" => regs[Place(i)] = NoRegister
                   /\ i \notin contended => RegTidy(app, regs, i)

\* A client to which nothing speaks of the object.
Unaware(d, i) ==
    /\ show[d] \in Screens(Ids \ {i}) /\ loading[d] \subseteq Images(Ids \ {i})
    /\ pending[d] \in Seq(Sent(Ids \ {i})) /\ sending[d] \in Seq(Sent(Ids \ {i}))
    /\ net[d] \in Seq(Messages(Ids \ {i})) /\ join[d].snapshot \in Seq(Sent(Ids \ {i}))
Absent(r, i) == r[Whole(i)] = NoRegister /\ r[Place(i)] = NoRegister
Private(c, i) ==
    /\ Absent(regs, i)
    /\ \A d \in Clients \ {c} : Unaware(d, i)
    /\ Adds(pending[c], i) => i \notin IdsOf(sending[c])
PrivateInv ==
    app = "scene" => \A c \in Clients, i \in Ids :
        Adds(pending[c], i) \/ Adds(InFlight(c), i) => Private(c, i)

EditorInv(c) ==
    TidyEditor(app, EditorOf(c)) /\ (app = "diagram" => \A i \in Ids : baseline[c][i] \in OneShown)
OutboxInv(c) == (sending[c] = <<>> => pending[c] = <<>>) /\ request[c] # "failed"
Blank(c) ==
    /\ \A i \in Ids : show[c][i] = <<>> /\ baseline[c][i] = <<>>
    /\ loading[c] = {} /\ net[c] = <<>> /\ pending[c] = <<>> /\ sending[c] = <<>>
JoinInv(c) ==
    /\ join[c].step \in {"asked", "read", "grouped"} => Blank(c)
    /\ join[c].step \in {"asked", "read"} => c \notin members
    /\ join[c].step \in {"grouped", "answered", "loaded", "done"} => c \in members
    /\ join[c].step \in {"read", "grouped"} =>
          \A i \in Ids \ contended : Outcome(app, <<>>, Range(join[c].snapshot), i) = Doc(regs, i)
FollowInv(c) ==
    join[c].step \in {"answered", "loaded", "done"} =>
        \A i \in Ids \ contended : Tracks(app, regs, See(c, i), net[c], InFlight(c), pending[c], i)
ClientInv(c) == EditorInv(c) /\ OutboxInv(c) /\ JoinInv(c) /\ FollowInv(c)

SameInv ==
    /\ BatchesInv /\ ClocksInv /\ RegsInv /\ PrivateInv
    /\ \A c \in Clients \ disturbed : ClientInv(c)

\* A client that a step does not touch.
Untouched(d) ==
    /\ show'[d] = show[d] /\ loading'[d] = loading[d] /\ baseline'[d] = baseline[d]
    /\ pending'[d] = pending[d] /\ sending'[d] = sending[d] /\ request'[d] = request[d]
    /\ join'[d] = join[d] /\ net'[d] = net[d]

LEMMA UntouchedIs ==
    ASSUME NEW d, Untouched(d), app' = app
    PROVE  /\ EditorOf(d)' = EditorOf(d) /\ InFlight(d)' = InFlight(d)
           /\ \A i : See(d, i)' = See(d, i)
BY DEF Untouched, EditorOf, InFlight, See

LEMMA ClientStays ==
    ASSUME NEW d \in Clients, ClientInv(d), Untouched(d), app' = app, regs' = regs,
           d \in members' <=> d \in members, contended \subseteq contended'
    PROVE  ClientInv(d)'
<1>1. EditorOf(d)' = EditorOf(d) /\ InFlight(d)' = InFlight(d) /\ \A i : See(d, i)' = See(d, i)
  BY UntouchedIs
<1>2. EditorInv(d)' /\ OutboxInv(d)' /\ Blank(d)' = Blank(d)
  BY <1>1 DEF ClientInv, EditorInv, OutboxInv, Blank, Untouched
<1>3. JoinInv(d)'
  BY <1>2 DEF ClientInv, JoinInv, Untouched
<1>4. FollowInv(d)'
  BY <1>1 DEF ClientInv, FollowInv, Untouched
<1> QED
  BY <1>2, <1>3, <1>4 DEF ClientInv

LEMMA UnawareStays ==
    ASSUME NEW d, NEW i, Unaware(d, i), Untouched(d)
    PROVE  Unaware(d, i)'
BY DEF Unaware, Untouched

\* The types, of one client.
LEMMA ClientTypes ==
    ASSUME TypeInv, NEW c \in Clients
    PROVE  /\ app \in Apps /\ regs \in Documents(used) /\ regs \in Documents(Ids) /\ used \subseteq Ids
           /\ show[c] \in Screens(used) /\ baseline[c] \in Screens(used) /\ loading[c] \subseteq Images(used)
           /\ pending[c] \in Seq(Ops) /\ sending[c] \in Seq(Ops)
           /\ pending[c] \in Seq(Sent(used)) /\ sending[c] \in Seq(Sent(used))
           /\ net[c] \in Seq(Messages(used)) /\ net[c] \in Seq(Messages(Ids))
           /\ join[c].snapshot \in Seq(Ops) /\ join[c].snapshot \in Seq(Sent(used))
           /\ request[c] \in Requests /\ (sending[c] = <<>> <=> request[c] = "none")
           /\ clock[c] \in Nat \ {0} /\ EditorOf(c) \in Editor /\ EditorOf(c) \in Editors(used)
           /\ contended \subseteq used
<1>1. used \subseteq Ids /\ ServerTyped(used) /\ ClientsTyped(used) /\ Flushing
  BY DEF TypeInv, Typed
<1>2. Sent(Ids) = Ops /\ Editors(Ids) = Editor /\ Editors(used) \subseteq Editor
  BY AllIds
<1>3. /\ Seq(Sent(used)) \subseteq Seq(Sent(Ids)) /\ Documents(used) \subseteq Documents(Ids)
      /\ Seq(Messages(used)) \subseteq Seq(Messages(Ids))
  BY <1>1, Wider
<1>4. /\ app \in Apps /\ regs \in Documents(used)
      /\ show[c] \in Screens(used) /\ baseline[c] \in Screens(used) /\ loading[c] \subseteq Images(used)
      /\ pending[c] \in Seq(Sent(used)) /\ sending[c] \in Seq(Sent(used))
      /\ net[c] \in Seq(Messages(used)) /\ join[c] \in Joins(used)
      /\ request[c] \in Requests /\ clock[c] \in Nat \ {0} /\ contended \subseteq used
  BY <1>1 DEF ServerTyped, ClientsTyped
<1>5. join[c].snapshot \in Seq(Sent(used))
  BY <1>4 DEF Joins
<1>6. EditorOf(c) \in Editors(used)
  BY <1>4, EditorIs DEF EditorOf
<1>7. sending[c] = <<>> <=> request[c] = "none"
  BY <1>1 DEF Flushing
<1> QED
  BY <1>1, <1>2, <1>3, <1>4, <1>5, <1>6, <1>7

LEMMA SeeType ==
    ASSUME TypeInv, NEW c \in Clients, EditorInv(c), NEW i \in Ids
    PROVE  See(c, i) \in OneShown
<1>1. EditorOf(c) \in Editor
  BY ClientTypes
<1> QED
  BY <1>1, SeenIs DEF EditorInv, See

LEMMA InFlightType ==
    ASSUME TypeInv, NEW c \in Clients
    PROVE  /\ InFlight(c) \in Seq(Ops) /\ Coming(c) = Topics(net[c])
           /\ IdsOf(pending[c]) \cup IdsOf(InFlight(c)) \subseteq Unsent(c)
           /\ \A i \in Ids : Doc(regs, i) \in OneShown
<1>1. sending[c] \in Seq(Ops) /\ regs \in Documents(Ids)
  BY ClientTypes
<1>2. InFlight(c) = IF request[c] = "sent" THEN sending[c] ELSE <<>>
  BY DEF InFlight, Flying
<1>3. IdsOf(pending[c]) \cup IdsOf(InFlight(c)) \subseteq Unsent(c)
  BY <1>2, NoneOf DEF Unsent
<1>4. Coming(c) = Topics(net[c])
  BY DEF Coming, Topics
<1>5. InFlight(c) \in Seq(Ops)
  BY <1>1, <1>2, NoneOf
<1> QED
  BY <1>1, <1>3, <1>4, <1>5, DocType

\* Where a client has nothing left to do it shows the document.
LEMMA FollowsIsSame == TypeInv /\ SameInv => SameAsServer
<1> SUFFICES ASSUME TypeInv, SameInv, NEW c \in Clients \ disturbed, NEW i \in Ids \ contended, Settled(c, i)
             PROVE  show[c][i] = Document(i)
  BY DEF SameAsServer
<1>1. ClientInv(c)
  BY DEF SameInv
<1>2. join[c].step = "done" /\ net[c] = <<>> /\ i \notin Unsent(c) /\ \A x \in loading[c] : x.id # i
  BY DEF Settled
<1>3. i \notin IdsOf(pending[c]) \cup IdsOf(InFlight(c))
  BY <1>2, InFlightType
<1>4. Chain(app, See(c, i), <<>>, i) = Doc(regs, i)
  BY <1>1, <1>2, <1>3 DEF ClientInv, FollowInv, Tracks
<1>5. See(c, i) = Doc(regs, i)
  BY <1>4, ChainEmpty
<1>6. See(c, i) = show[c][i]
  <2>1. CASE app = "diagram"
    BY <1>2, <2>1 DEF See, Unsent
  <2>2. CASE app # "diagram"
    <3>1. SeenIn(EditorOf(c), i) = show[c][i]
      BY <1>2 DEF SeenIn, EditorOf
    <3> QED
      BY <2>2, <3>1 DEF See
  <2> QED
    BY <2>1, <2>2
<1> QED
  BY <1>5, <1>6, DocIs

LEMMA SameInit == Init => SameInv
<1> SUFFICES ASSUME Init PROVE SameInv
  OBVIOUS
<1>0. TypeInv
  BY TypeInit
<1>1. /\ regs = Empty /\ members = Present
      /\ \A c \in Clients : /\ pending[c] = <<>> /\ sending[c] = <<>> /\ net[c] = <<>> /\ loading[c] = {}
                            /\ request[c] = "none" /\ join[c].snapshot = <<>>
                            /\ join[c].step = IF c \in Present THEN "done" ELSE "asked"
                            /\ \A i \in Ids : show[c][i] = <<>> /\ baseline[c][i] = <<>>
  BY DEF Init
<1>2. \A a, K : Shaped(a, <<>>, K)
  BY NoneOf DEF Shaped
<1>3. BatchesInv
  BY <1>1, <1>2, NoneOf DEF BatchesInv
<1>4. ClocksInv
  BY <1>1, NoneOf DEF ClocksInv
<1>5. \A i \in Ids : Absent(regs, i) /\ RegTidy(app, regs, i) /\ Doc(regs, i) = <<>>
  <2>1. \A i \in Ids : regs[Whole(i)] = NoRegister /\ regs[Place(i)] = NoRegister
    BY <1>1, PathsAre DEF Empty
  <2> QED
    BY <2>1 DEF Absent, RegTidy, Live, Doc
<1>6. RegsInv
  BY <1>5 DEF RegsInv, Absent
<1>7. \A c \in Clients : InFlight(c) = <<>>
  BY <1>1 DEF InFlight, Flying
<1>8. PrivateInv
  BY <1>1, <1>7, NoneOf DEF PrivateInv
<1>9. ASSUME NEW c \in Clients PROVE ClientInv(c)
  <2>1. EditorOf(c).show = show[c] /\ EditorOf(c).loading = {}
    BY <1>1 DEF EditorOf
  <2>2. <<>> \in OneShown
    BY OneShownIs
  <2>3. EditorInv(c)
    BY <1>1, <2>1, <2>2 DEF EditorInv, TidyEditor
  <2>4. OutboxInv(c) /\ Blank(c)
    BY <1>1 DEF OutboxInv, Blank
  <2>5. JoinInv(c)
    BY <1>1, <2>4 DEF JoinInv
  <2>6. FollowInv(c)
    <3> SUFFICES ASSUME NEW i \in Ids PROVE Tracks(app, regs, See(c, i), net[c], InFlight(c), pending[c], i)
      BY DEF FollowInv
    <3>1. See(c, i) = <<>>
      BY <1>1, <2>1 DEF See, SeenIn
    <3>2. Doc(regs, i) = <<>> /\ net[c] = <<>> /\ InFlight(c) = <<>> /\ pending[c] = <<>>
      BY <1>1, <1>5, <1>7
    <3>3. Chain(app, <<>>, <<>>, i) = <<>>
      BY ChainEmpty
    <3>4. Awaits(app, <<>>, <<>>, <<>>, i) = <<>>
      <4>1. Range(<<>>) = {} /\ Outcome(app, <<>>, {}, i) = <<>>
        BY <2>2, NoneOf
      <4> QED
        BY <4>1 DEF Awaits
    <3> QED
      BY <3>1, <3>2, <3>3, <3>4 DEF Tracks
  <2> QED
    BY <2>3, <2>4, <2>5, <2>6 DEF ClientInv
<1> QED
  BY <1>3, <1>4, <1>6, <1>8, <1>9 DEF SameInv

\* The parts of the invariant after a step that changes no batch but those that are sent,
\* where the sets of contended objects and disturbed clients have not become smaller.
LEMMA BatchesStay ==
    ASSUME BatchesInv, NEW d \in Clients, app' = app, contended \subseteq contended', Untouched(d)
    PROVE  /\ Shaped(app, pending[d], contended)' /\ Shaped(app, sending[d], contended)'
           /\ Shaped(app, join[d].snapshot, contended)'
           /\ \A m \in Range(net'[d]) : Shaped(app', m.ops, contended')
<1>1. \A b : Shaped(app, b, contended) => Shaped(app', b, contended')
  BY ShapedWider
<1> QED
  BY <1>1 DEF BatchesInv, Untouched

\* A step of c that leaves the registers as they are.
LEMMA OthersSame ==
    ASSUME TypeInv, SameInv, NEW c \in Clients, app' = app, contended \subseteq contended', disturbed \subseteq disturbed',
           regs' = regs, \A d \in Clients \ {c} : Untouched(d) /\ (d \in members' <=> d \in members) /\ clock'[d] = clock[d],
           Shaped(app, pending[c], contended)', Shaped(app, sending[c], contended)',
           Shaped(app, join[c].snapshot, contended)', \A m \in Range(net'[c]) : Shaped(app', m.ops, contended')
    PROVE  /\ BatchesInv' /\ RegsInv'
           /\ \A d \in Clients \ disturbed' : d # c => ClientInv(d)'
           /\ (app = "scene" => \A op \in Range(pending'[c]) : op.ts <= clock'[c] /\ op.peer = c) => ClocksInv'
<1>1. BatchesInv'
  <2>1. \A d \in Clients \ {c} : /\ Shaped(app, pending[d], contended)' /\ Shaped(app, sending[d], contended)'
                                 /\ Shaped(app, join[d].snapshot, contended)'
                                 /\ \A m \in Range(net'[d]) : Shaped(app', m.ops, contended')
    BY BatchesStay DEF SameInv
  <2> QED
    BY <2>1 DEF BatchesInv
<1>2. RegsInv'
  BY DEF SameInv, RegsInv
<1>3. \A d \in Clients \ disturbed' : d # c => ClientInv(d)'
  BY ClientStays DEF SameInv
<1>4. ASSUME app = "scene" => \A op \in Range(pending'[c]) : op.ts <= clock'[c] /\ op.peer = c PROVE ClocksInv'
  BY <1>4 DEF SameInv, ClocksInv, Untouched
<1> QED
  BY <1>1, <1>2, <1>3, <1>4

\* Only c does something, and it adds nothing to what it adds already.
LEMMA PrivateSame ==
    ASSUME TypeInv, SameInv, NEW c \in Clients, app' = app,
           \A d \in Clients \ {c} : Untouched(d),
           app = "scene" => \A i \in Ids : Absent(regs, i) /\ i \in used => Absent(regs', i) /\ (Unaware(c, i) => Unaware(c, i)'),
           app = "scene" => \A i \in Ids : Adds(pending'[c], i) \/ Adds(InFlight(c)', i) =>
               /\ Adds(pending[c], i) \/ Adds(InFlight(c), i) \/ i \notin used
               /\ Absent(regs, i) => Absent(regs', i)
               /\ Adds(pending'[c], i) => i \notin IdsOf(sending'[c]) \/ (Adds(pending[c], i) /\ sending'[c] = sending[c]) 
    PROVE  PrivateInv'
<1> SUFFICES ASSUME app = "scene", NEW d \in Clients, NEW i \in Ids,
                    Adds(pending'[d], i) \/ Adds(InFlight(d)', i)
             PROVE  Private(d, i)'
  BY DEF PrivateInv
<1>1. PrivateInv /\ regs \in Documents(used)
  BY ClientTypes DEF SameInv
<1>2. CASE d = c
  <2>1. CASE i \notin used
    <3>1. Absent(regs, i)
      <4>1. \A p \in Paths : regs[p] # NoRegister => regs[p] \in Written(used) /\ regs[p].path = p
        BY <1>1, DocumentsAre
      <4> QED
        BY <2>1, <4>1, PathsAre, WrittenIs DEF Absent, IdOf
    <3>2. \A e \in Clients : Unaware(e, i)
      <4> SUFFICES ASSUME NEW e \in Clients PROVE Unaware(e, i)
        OBVIOUS
      <4>1. used \subseteq Ids \ {i}
        BY <2>1, ClientTypes
      <4>2. /\ Seq(Sent(used)) \subseteq Seq(Sent(Ids \ {i})) /\ Screens(used) \subseteq Screens(Ids \ {i})
            /\ Images(used) \subseteq Images(Ids \ {i}) /\ Seq(Messages(used)) \subseteq Seq(Messages(Ids \ {i}))
        BY <4>1, Wider
      <4> QED
        BY <4>2, ClientTypes DEF Unaware
    <3>3. \A e \in Clients \ {c} : Unaware(e, i)'
      BY <3>2, UnawareStays
    <3>4. Adds(pending'[c], i) => i \notin IdsOf(sending'[c])
      <4>1. \A x \in Range(sending[c]) : IdOf(x) # i
        <5>1. sending[c] \in Seq(Sent(used))
          BY ClientTypes
        <5> QED
          BY <2>1, <5>1, IdsOfType, SentIs
      <4>2. i \notin IdsOf(sending[c])
        BY <4>1 DEF IdsOf
      <4> QED
        BY <1>2, <4>2
    <3> QED
      BY <1>2, <3>1, <3>3, <3>4 DEF Private
  <2>2. CASE i \in used
    <3>1. Private(c, i)
      BY <1>1, <1>2, <2>2 DEF PrivateInv
    <3>2. \A e \in Clients \ {c} : Unaware(e, i)'
      BY <3>1, UnawareStays DEF Private
    <3> QED
      BY <1>2, <3>1, <3>2 DEF Private
  <2> QED
    BY <2>1, <2>2
<1>3. CASE d # c
  <2>1. pending'[d] = pending[d] /\ InFlight(d)' = InFlight(d) /\ sending'[d] = sending[d]
    BY <1>3, UntouchedIs DEF Untouched
  <2>2. Private(d, i)
    BY <1>1, <2>1 DEF PrivateInv
  <2>3. i \in used
    <3>1. \A b \in Seq(Sent(used)) : Adds(b, i) => i \in used
      <4> SUFFICES ASSUME NEW b \in Seq(Sent(used)), NEW op \in Range(b), op.path = Whole(i) PROVE i \in used
        BY DEF Adds
      <4>1. op \in Sent(used)
        BY IdsOfType
      <4>2. IdOf(op) = i
        BY <4>1, SentIs, OpIs
      <4> QED
        BY <4>1, <4>2, SentIs
    <3>2. InFlight(d) = <<>> \/ InFlight(d) = sending[d]
      BY DEF InFlight, Flying
    <3>3. pending[d] \in Seq(Sent(used)) /\ sending[d] \in Seq(Sent(used)) /\ ~Adds(<<>>, i)
      BY ClientTypes, NoneOf
    <3> QED
      BY <2>1, <3>1, <3>2, <3>3
  <2>4. Absent(regs', i) /\ Unaware(c, i)'
    BY <1>3, <2>2, <2>3 DEF Private
  <2>5. \A e \in Clients \ {c} : Unaware(e, i) => Unaware(e, i)'
    BY UnawareStays
  <2> QED
    BY <2>1, <2>2, <2>4, <2>5 DEF Private
<1> QED
  BY <1>2, <1>3

\* The invariant, for the steps of c that leave the registers, the clocks and the outboxes
\* of the others as they are.
LEMMA SameStep ==
    ASSUME TypeInv, SameInv, NEW c \in Clients, app' = app, contended \subseteq contended', disturbed \subseteq disturbed',
           regs' = regs, \A d \in Clients \ {c} : Untouched(d) /\ (d \in members' <=> d \in members) /\ clock'[d] = clock[d],
           Shaped(app, pending[c], contended)', Shaped(app, sending[c], contended)',
           Shaped(app, join[c].snapshot, contended)', \A m \in Range(net'[c]) : Shaped(app', m.ops, contended'),
           app = "scene" => \A op \in Range(pending'[c]) : op.ts <= clock'[c] /\ op.peer = c,
           c \notin disturbed' => ClientInv(c)',
           app = "scene" => \A i \in Ids : Absent(regs, i) /\ i \in used /\ Unaware(c, i) => Unaware(c, i)',
           app = "scene" => \A i \in Ids : Adds(pending'[c], i) \/ Adds(InFlight(c)', i) =>
               /\ Adds(pending[c], i) \/ Adds(InFlight(c), i) \/ i \notin used
               /\ Adds(pending'[c], i) => i \notin IdsOf(sending'[c]) \/ (Adds(pending[c], i) /\ sending'[c] = sending[c])
    PROVE  SameInv'
<1>1. /\ BatchesInv' /\ RegsInv' /\ ClocksInv'
      /\ \A d \in Clients \ disturbed' : d # c => ClientInv(d)'
  <2> DEFINE Y == app = "scene" => \A op \in Range(pending'[c]) : op.ts <= clock'[c] /\ op.peer = c
  <2>1. Y
    OBVIOUS
  <2>2. /\ BatchesInv' /\ RegsInv'
        /\ \A d \in Clients \ disturbed' : d # c => ClientInv(d)'
    BY OthersSame
  <2>3. Y => ClocksInv'
    BY OthersSame
  <2> QED
    BY <2>1, <2>2, <2>3
<1>2. PrivateInv'
  <2>1. app = "scene" => \A i \in Ids : Absent(regs, i) /\ i \in used => Absent(regs', i) /\ (Unaware(c, i) => Unaware(c, i)')
    OBVIOUS
  <2>2. app = "scene" => \A i \in Ids : Adds(pending'[c], i) \/ Adds(InFlight(c)', i) =>
               /\ Adds(pending[c], i) \/ Adds(InFlight(c), i) \/ i \notin used
               /\ Absent(regs, i) => Absent(regs', i)
               /\ Adds(pending'[c], i) => i \notin IdsOf(sending'[c]) \/ (Adds(pending[c], i) /\ sending'[c] = sending[c])
    OBVIOUS
  <2> QED
    BY <2>1, <2>2, PrivateSame
<1> QED
  BY <1>1, <1>2 DEF SameInv

\* The batches of a client that a step leaves with what it had.
LEMMA BatchesKept ==
    ASSUME SameInv, NEW c \in Clients, app' = app, contended \subseteq contended'
    PROVE  /\ \A b : Shaped(app, b, contended) => Shaped(app', b, contended')
           /\ Shaped(app', pending[c], contended') /\ Shaped(app', sending[c], contended')
           /\ Shaped(app', join[c].snapshot, contended')
           /\ \A m \in Range(net[c]) : Shaped(app', m.ops, contended')
<1>1. \A b : Shaped(app, b, contended) => Shaped(app', b, contended')
  BY ShapedWider
<1> QED
  BY <1>1 DEF SameInv, BatchesInv

\* A step that leaves the outbox of c as it is.
LEMMA OutboxKept ==
    ASSUME SameInv, NEW c \in Clients, app' = app, pending'[c] = pending[c], sending'[c] = sending[c],
           request'[c] = request[c] \/ request'[c] # "sent", clock'[c] = clock[c]
    PROVE  /\ app = "scene" => \A op \in Range(pending'[c]) : op.ts <= clock'[c] /\ op.peer = c
           /\ app = "scene" => \A i \in Ids : Adds(pending'[c], i) \/ Adds(InFlight(c)', i) =>
               /\ Adds(pending[c], i) \/ Adds(InFlight(c), i) \/ i \notin used
               /\ Adds(pending'[c], i) => i \notin IdsOf(sending'[c]) \/ (Adds(pending[c], i) /\ sending'[c] = sending[c])
<1>1. app = "scene" => \A op \in Range(pending'[c]) : op.ts <= clock'[c] /\ op.peer = c
  BY DEF SameInv, ClocksInv
<1>2. InFlight(c)' = InFlight(c) \/ InFlight(c)' = <<>>
  BY DEF InFlight, Flying
<1>3. \A i : ~Adds(<<>>, i)
  BY NoneOf
<1> QED
  BY <1>1, <1>2, <1>3

----------------------------------------------------------------------------
\* A request is answered, or fails; a client reconnects.

LEMMA SameRefuse ==
    ASSUME TypeInv, SameInv, NEW c \in Clients, Refuse(c)
    PROVE  SameInv'
<1>1. /\ app' = app /\ regs' = regs /\ members' = members /\ contended' = contended
      /\ disturbed' = disturbed \cup {c} /\ show' = show /\ loading' = loading /\ baseline' = baseline
      /\ pending' = pending /\ sending' = sending /\ join' = join /\ net' = net /\ clock' = clock
      /\ \E to \in {"done", "failed"} : request' = [request EXCEPT ![c] = to]
  BY DEF Refuse, serverVars, editorVars
<1>2. request \in [Clients -> Requests]
  BY DEF TypeInv, Typed, ClientsTyped
<1>3. \A d \in Clients \ {c} : Untouched(d) /\ (d \in members' <=> d \in members) /\ clock'[d] = clock[d]
  BY <1>1, <1>2 DEF Untouched
<1>4. request'[c] # "sent"
  BY <1>1, <1>2
<1>5. /\ Shaped(app, pending[c], contended)' /\ Shaped(app, sending[c], contended)'
      /\ Shaped(app, join[c].snapshot, contended)' /\ \A m \in Range(net'[c]) : Shaped(app', m.ops, contended')
  BY <1>1, BatchesKept
<1>6. \A i \in Ids : Unaware(c, i) => Unaware(c, i)'
  BY <1>1 DEF Unaware
<1>7. contended \subseteq contended' /\ disturbed \subseteq disturbed' /\ c \in disturbed'
  BY <1>1
<1> QED
  BY <1>1, <1>3, <1>4, <1>5, <1>6, <1>7, OutboxKept, SameStep

LEMMA SameInstall ==
    ASSUME TypeInv, SameInv, NEW c \in Clients, Install(c)
    PROVE  SameInv'
<1>1. /\ app' = app /\ regs' = regs /\ members' = members /\ contended' = contended
      /\ show' = show /\ loading' = loading /\ request' = request
      /\ pending' = pending /\ sending' = sending /\ net' = net /\ clock' = clock
      /\ join[c].step = "loaded" /\ join' = [join EXCEPT ![c].step = "done"]
      /\ baseline' = [baseline EXCEPT ![c] = IF app = "diagram" THEN show[c] ELSE baseline[c]]
      /\ disturbed' = IF app = "diagram" /\ show[c] # baseline[c] THEN disturbed \cup {c} ELSE disturbed
  BY DEF Install, serverVars, outboxVars
<1>2. join \in [Clients -> Joins(used)] /\ baseline \in [Clients -> Screens(used)]
  BY DEF TypeInv, Typed, ClientsTyped, ServerTyped
<1>3. join'[c].step = "done" /\ join'[c].snapshot = join[c].snapshot /\ \A d \in Clients \ {c} : join'[d] = join[d]
  BY <1>1, <1>2 DEF Joins
<1>4. \A d \in Clients \ {c} : Untouched(d) /\ (d \in members' <=> d \in members) /\ clock'[d] = clock[d]
  BY <1>1, <1>2, <1>3 DEF Untouched
<1>5. /\ Shaped(app, pending[c], contended)' /\ Shaped(app, sending[c], contended)'
      /\ Shaped(app, join[c].snapshot, contended)' /\ \A m \in Range(net'[c]) : Shaped(app', m.ops, contended')
  BY <1>1, <1>3, BatchesKept
<1>6. \A i \in Ids : Unaware(c, i) => Unaware(c, i)'
  BY <1>1, <1>3 DEF Unaware
<1>7. contended \subseteq contended' /\ disturbed \subseteq disturbed'
  BY <1>1
<1>8. ASSUME c \notin disturbed' PROVE ClientInv(c)'
  <2>1. ClientInv(c) /\ baseline'[c] = baseline[c]
    BY <1>1, <1>2, <1>8 DEF SameInv
  <2>2. EditorOf(c)' = EditorOf(c) /\ InFlight(c)' = InFlight(c) /\ \A i : See(c, i)' = See(c, i)
    BY <1>1, <2>1 DEF EditorOf, InFlight, See
  <2>3. EditorInv(c)' /\ OutboxInv(c)' /\ JoinInv(c)' /\ FollowInv(c)'
    BY <1>1, <1>3, <2>1, <2>2 DEF ClientInv, EditorInv, OutboxInv, JoinInv, FollowInv
  <2> QED
    BY <2>3 DEF ClientInv
<1> QED
  BY <1>1, <1>4, <1>5, <1>6, <1>7, <1>8, OutboxKept, SameStep

LEMMA SameReconnect ==
    ASSUME TypeInv, SameInv, NEW c \in Clients, Reconnect(c)
    PROVE  SameInv'
<1>1. /\ app' = app /\ regs' = regs /\ members' = members \ {c} /\ contended' = contended
      /\ disturbed' = disturbed \cup {c} /\ show' = show /\ loading' = loading /\ baseline' = baseline
      /\ pending' = pending /\ sending' = sending /\ join' = join /\ clock' = clock
      /\ net' = [net EXCEPT ![c] = <<>>]
      /\ request' = [request EXCEPT ![c] = IF request[c] = "none" THEN request[c] ELSE "failed"]
  BY DEF Reconnect, editorVars
<1>2. request \in [Clients -> Requests] /\ net \in [Clients -> Seq(Messages(used))]
  BY DEF TypeInv, Typed, ClientsTyped, ServerTyped
<1>3. \A d \in Clients \ {c} : Untouched(d) /\ (d \in members' <=> d \in members) /\ clock'[d] = clock[d]
  BY <1>1, <1>2 DEF Untouched
<1>4. request'[c] # "sent"
  BY <1>1, <1>2
<1>5. /\ Shaped(app, pending[c], contended)' /\ Shaped(app, sending[c], contended)'
      /\ Shaped(app, join[c].snapshot, contended)' /\ \A m \in Range(net'[c]) : Shaped(app', m.ops, contended')
  <2>1. net'[c] = <<>> /\ Range(net'[c]) = {}
    BY <1>1, <1>2, NoneOf
  <2> QED
    BY <1>1, <2>1, BatchesKept
<1>6. \A i \in Ids : Unaware(c, i) => Unaware(c, i)'
  <2>1. net'[c] = <<>> /\ \A U : <<>> \in Seq(Messages(U))
    BY <1>1, <1>2
  <2> QED
    BY <1>1, <2>1 DEF Unaware
<1>7. contended \subseteq contended' /\ disturbed \subseteq disturbed' /\ c \in disturbed'
  BY <1>1
<1> QED
  BY <1>1, <1>3, <1>4, <1>5, <1>6, <1>7, OutboxKept, SameStep

LEMMA SameAnswered ==
    ASSUME TypeInv, SameInv, NEW c \in Clients, Answered(c)
    PROVE  SameInv'
<1>1. /\ app' = app /\ regs' = regs /\ members' = members /\ contended' = contended
      /\ disturbed' = disturbed /\ show' = show /\ loading' = loading /\ baseline' = baseline
      /\ join' = join /\ net' = net /\ clock' = clock
  BY DEF Answered, serverVars, editorVars
<1>2. request \in [Clients -> Requests] /\ pending \in [Clients -> Seq(Sent(used))] /\ sending \in [Clients -> Seq(Sent(used))]
  BY DEF TypeInv, Typed, ClientsTyped
<1>3. \/ /\ request[c] = "done" /\ pending[c] # <<>>
         /\ sending' = [sending EXCEPT ![c] = pending[c]] /\ pending' = [pending EXCEPT ![c] = <<>>]
         /\ request' = [request EXCEPT ![c] = "sent"]
      \/ /\ request[c] = "failed" \/ pending[c] = <<>>
         /\ sending' = [sending EXCEPT ![c] = <<>>] /\ request' = [request EXCEPT ![c] = "none"] /\ pending' = pending
  BY DEF Answered
<1>4. request[c] \in {"done", "failed"}
  BY DEF Answered
<1>5. \/ /\ request[c] = "done" /\ pending[c] # <<>>
         /\ sending'[c] = pending[c] /\ pending'[c] = <<>> /\ request'[c] = "sent"
      \/ /\ request[c] = "failed" \/ pending[c] = <<>>
         /\ sending'[c] = <<>> /\ request'[c] = "none" /\ pending'[c] = pending[c]
  BY <1>2, <1>3
<1>6. \A d \in Clients \ {c} : Untouched(d) /\ (d \in members' <=> d \in members) /\ clock'[d] = clock[d]
  BY <1>1, <1>2, <1>3 DEF Untouched
<1>7. \A b : b = pending[c] \/ b = <<>> => Shaped(app', b, contended')
  BY <1>1, BatchesKept, NoneOf DEF Shaped
<1>8. /\ Shaped(app, pending[c], contended)' /\ Shaped(app, sending[c], contended)'
      /\ Shaped(app, join[c].snapshot, contended)' /\ \A m \in Range(net'[c]) : Shaped(app', m.ops, contended')
  BY <1>1, <1>5, <1>7, BatchesKept
<1>9. \A i \in Ids : Unaware(c, i) => Unaware(c, i)'
  <2> SUFFICES ASSUME NEW i \in Ids, Unaware(c, i) PROVE Unaware(c, i)'
    OBVIOUS
  <2>1. pending[c] \in Seq(Sent(Ids \ {i})) /\ <<>> \in Seq(Sent(Ids \ {i}))
    BY DEF Unaware
  <2>2. pending'[c] \in Seq(Sent(Ids \ {i})) /\ sending'[c] \in Seq(Sent(Ids \ {i}))
    BY <1>5, <2>1
  <2> QED
    BY <1>1, <2>2 DEF Unaware
<1>10. InFlight(c) = <<>> /\ InFlight(c)' = IF request'[c] = "sent" THEN sending'[c] ELSE <<>>
  BY <1>4 DEF InFlight, Flying
<1>11. app = "scene" => \A op \in Range(pending'[c]) : op.ts <= clock'[c] /\ op.peer = c
  BY <1>1, <1>5, NoneOf DEF SameInv, ClocksInv
<1>12. app = "scene" => \A i \in Ids : Adds(pending'[c], i) \/ Adds(InFlight(c)', i) =>
               /\ Adds(pending[c], i) \/ Adds(InFlight(c), i) \/ i \notin used
               /\ Adds(pending'[c], i) => i \notin IdsOf(sending'[c]) \/ (Adds(pending[c], i) /\ sending'[c] = sending[c])
  <2>1. \A i : ~Adds(<<>>, i) /\ i \notin IdsOf(<<>>)
    BY NoneOf
  <2> QED
    BY <1>5, <1>10, <2>1
<1>13. ASSUME c \notin disturbed' PROVE ClientInv(c)'
  <2>1. ClientInv(c)
    BY <1>1, <1>13 DEF SameInv
  <2>2. request[c] = "done"
    BY <1>4, <2>1 DEF ClientInv, OutboxInv
  <2>3. EditorOf(c)' = EditorOf(c) /\ \A i : See(c, i)' = See(c, i)
    BY <1>1 DEF EditorOf, See
  <2>4. EditorInv(c)'
    BY <1>1, <2>1, <2>3 DEF ClientInv, EditorInv
  <2>5. OutboxInv(c)'
    BY <1>5, <2>2 DEF OutboxInv
  <2>6. join[c].step \notin {"asked", "read", "grouped"}
    BY <1>4, <2>1, ClientTypes DEF ClientInv, JoinInv, Blank
  <2>7. JoinInv(c)'
    BY <1>1, <2>1, <2>6 DEF ClientInv, JoinInv
  <2>8. FollowInv(c)'
    <3> SUFFICES ASSUME join[c].step \in {"answered", "loaded", "done"}, NEW i \in Ids \ contended
                 PROVE  Tracks(app, regs, See(c, i), net[c], InFlight(c)', pending'[c], i)
      BY <1>1, <2>3 DEF FollowInv
    <3>1. Tracks(app, regs, See(c, i), net[c], <<>>, pending[c], i)
      BY <1>10, <2>1 DEF ClientInv, FollowInv
    <3>2. CASE pending[c] = <<>>
      BY <1>5, <1>10, <3>1, <3>2
    <3>3. CASE pending[c] # <<>>
      <4>1. InFlight(c)' = pending[c] /\ pending'[c] = <<>>
        BY <1>5, <1>10, <2>2, <3>3
      <4> DEFINE d == Doc(regs, i)
                 P == pending[c]
      <4>2. d \in OneShown /\ P \in Seq(Ops)
        BY InFlightType, ClientTypes
      <4> HIDE DEF d, P
      <4>3. Range(<<>>) = {} /\ IdsOf(<<>>) = {} /\ \A e \in OneShown : Outcome(app, e, {}, i) = e
        BY NoneOf
      <4>4. Outcome(app, d, Range(P), i) \in OneShown
        BY <4>2, AwaitsType
      <4>5. Awaits(app, d, P, <<>>, i) = Awaits(app, d, <<>>, P, i)
        BY <4>2, <4>3, <4>4 DEF Awaits
      <4>6. IdsOf(<<>>) \cup IdsOf(P) = IdsOf(P) \cup IdsOf(<<>>)
        OBVIOUS
      <4> QED
        BY <3>1, <4>1, <4>5, <4>6 DEF Tracks, d, P
    <3> QED
      BY <3>2, <3>3
  <2> QED
    BY <2>4, <2>5, <2>7, <2>8 DEF ClientInv
<1>14. contended \subseteq contended' /\ disturbed \subseteq disturbed'
  BY <1>1
<1> QED
  BY <1>1, <1>6, <1>8, <1>9, <1>11, <1>12, <1>13, <1>14, SameStep

----------------------------------------------------------------------------
\* An image is loaded.

\* The image shows what the client saw of the object.
LEMMA LoadedEditor ==
    ASSUME NEW a, NEW ed \in Editor, TidyEditor(a, ed), NEW x \in ed.loading, NEW new,
           new = [show |-> [ed.show EXCEPT ![x.id] = IF a = "canvas" \/ x.late THEN Append(ed.show[x.id], x.value)
                                                     ELSE [ed.show[x.id] EXCEPT ![1] = x.value]],
                  loading |-> ed.loading \ {x}]
    PROVE  TidyEditor(a, new) /\ \A i \in Ids : SeenIn(new, i) = SeenIn(ed, i)
<1>1. /\ ed.show \in [Ids -> Seq(Values)] /\ ed.loading \subseteq [id : Ids, value : Values, late : BOOLEAN]
      /\ x.id \in Ids /\ x.value \in Values
  BY DEF Editor
<1>2. /\ ~x.late /\ ed.show[x.id] = IF a = "canvas" THEN <<>> ELSE <<x.value>>
      /\ a \in {"canvas", "stage"} /\ \A y \in ed.loading : y.id = x.id => y = x
  BY DEF TidyEditor
<1>3. new.show = [ed.show EXCEPT ![x.id] = <<x.value>>] /\ new.loading = ed.loading \ {x}
  <2>1. CASE a = "canvas"
    <3>1. Append(<<>>, x.value) = <<x.value>>
      OBVIOUS
    <3> QED
      BY <1>2, <2>1, <3>1
  <2>2. CASE a # "canvas"
    <3>1. <<x.value>> \in OneShown /\ <<x.value>> # <<>>
      BY <1>1, OneShownIs
    <3>2. [<<x.value>> EXCEPT ![1] = x.value] = <<x.value>>
      OBVIOUS
    <3> QED
      BY <1>2, <2>2, <3>2
  <2> QED
    BY <2>1, <2>2
<1>4. new.show[x.id] = <<x.value>> /\ \A i \in Ids : i # x.id => new.show[i] = ed.show[i]
  BY <1>1, <1>3
<1>5. <<x.value>> \in OneShown
  BY <1>1, OneShownIs
<1>6. \A y \in new.loading : y \in ed.loading /\ y.id # x.id /\ y.id \in Ids
  BY <1>1, <1>2, <1>3
<1>7. TidyEditor(a, new)
  BY <1>2, <1>4, <1>5, <1>6 DEF TidyEditor
<1>8. ASSUME NEW i \in Ids PROVE SeenIn(new, i) = SeenIn(ed, i)
  <2>1. CASE i = x.id
    <3>1. ~ \E y \in new.loading : y.id = i
      BY <1>6, <2>1
    <3>2. SeenIn(new, i) = <<x.value>>
      BY <1>4, <2>1, <3>1 DEF SeenIn
    <3>3. SeenIn(ed, i) = <<x.value>>
      BY <2>1, SeenIs
    <3> QED
      BY <3>2, <3>3
  <2>2. CASE i # x.id
    <3>1. \A y : (y \in new.loading /\ y.id = i) <=> (y \in ed.loading /\ y.id = i)
      BY <1>3, <2>2
    <3>2. (CHOOSE y \in new.loading : y.id = i) = (CHOOSE y \in ed.loading : y.id = i)
      BY <3>1
    <3> QED
      BY <1>4, <2>2, <3>1, <3>2 DEF SeenIn
  <2> QED
    BY <2>1, <2>2
<1> QED
  BY <1>7, <1>8

LEMMA SameLoaded ==
    ASSUME TypeInv, SameInv, NEW c \in Clients, Loaded(c)
    PROVE  SameInv'
<1>1. /\ app' = app /\ regs' = regs /\ members' = members /\ contended' = contended
      /\ disturbed' = disturbed /\ baseline' = baseline
      /\ pending' = pending /\ sending' = sending /\ request' = request /\ join' = join /\ net' = net /\ clock' = clock
  BY DEF Loaded, serverVars, outboxVars
<1>2. PICK x \in loading[c] :
        /\ loading' = [loading EXCEPT ![c] = loading[c] \ {x}]
        /\ show' = [show EXCEPT ![c] = [show[c] EXCEPT ![x.id] =
                       IF app = "canvas" \/ x.late THEN Append(show[c][x.id], x.value)
                       ELSE [show[c][x.id] EXCEPT ![1] = x.value]]]
  BY DEF Loaded
<1>3. show \in [Clients -> Screens(used)] /\ loading \in [Clients -> SUBSET Images(used)]
  BY DEF TypeInv, Typed, ClientsTyped
<1>4. \A d \in Clients \ {c} : Untouched(d) /\ (d \in members' <=> d \in members) /\ clock'[d] = clock[d]
  BY <1>1, <1>2, <1>3 DEF Untouched
<1>5. /\ Shaped(app, pending[c], contended)' /\ Shaped(app, sending[c], contended)'
      /\ Shaped(app, join[c].snapshot, contended)' /\ \A m \in Range(net'[c]) : Shaped(app', m.ops, contended')
  BY <1>1, BatchesKept
<1>6. /\ loading'[c] = loading[c] \ {x}
      /\ show'[c] = [show[c] EXCEPT ![x.id] =
                       IF app = "canvas" \/ x.late THEN Append(show[c][x.id], x.value)
                       ELSE [show[c][x.id] EXCEPT ![1] = x.value]]
  BY <1>2, <1>3
<1>7. ASSUME NEW i \in Ids, Unaware(c, i) PROVE Unaware(c, i)'
  <2>1. loading[c] \subseteq Images(Ids \ {i}) /\ show[c] \in Screens(Ids \ {i})
    BY <1>7 DEF Unaware
  <2>2. x \in Images(Ids \ {i}) /\ x.id \in Ids \ {i} /\ x.value \in Values
    BY <2>1 DEF Images
  <2>3. show[c][x.id] \in Seq(Values)
    BY <2>1, <2>2, ScreensAre
  <2> DEFINE objs == IF app = "canvas" \/ x.late THEN Append(show[c][x.id], x.value)
                     ELSE [show[c][x.id] EXCEPT ![1] = x.value]
  <2>4. objs \in Seq(Values)
    BY <2>2, <2>3, Changed
  <2> HIDE DEF objs
  <2>5. [show[c] EXCEPT ![x.id] = objs] \in Screens(Ids \ {i})
    BY <2>1, <2>2, <2>4, ScreensAre
  <2>6. show'[c] \in Screens(Ids \ {i}) /\ loading'[c] \subseteq Images(Ids \ {i})
    BY <1>6, <2>1, <2>5 DEF objs
  <2> QED
    BY <1>1, <1>7, <2>6 DEF Unaware
<1>8. ASSUME c \notin disturbed' PROVE ClientInv(c)'
  <2>1. ClientInv(c)
    BY <1>1, <1>8 DEF SameInv
  <2>2. TidyEditor(app, EditorOf(c)) /\ EditorOf(c) \in Editor
    BY <2>1, ClientTypes DEF ClientInv, EditorInv
  <2>3. EditorOf(c).show = show[c] /\ EditorOf(c).loading = loading[c] /\ x \in EditorOf(c).loading
    BY DEF EditorOf
  <2>4. EditorOf(c)' = [show |-> [EditorOf(c).show EXCEPT ![x.id] =
                                    IF app = "canvas" \/ x.late THEN Append(EditorOf(c).show[x.id], x.value)
                                    ELSE [EditorOf(c).show[x.id] EXCEPT ![1] = x.value]],
                        loading |-> EditorOf(c).loading \ {x}]
    BY <1>6, <2>3 DEF EditorOf
  <2>5. TidyEditor(app, EditorOf(c)') /\ \A i \in Ids : SeenIn(EditorOf(c)', i) = SeenIn(EditorOf(c), i)
    <3> DEFINE new == EditorOf(c)'
               ed == EditorOf(c)
    <3>1. ed \in Editor /\ TidyEditor(app, ed) /\ x \in ed.loading
      BY <2>2, <2>3
    <3>2. new = [show |-> [ed.show EXCEPT ![x.id] = IF app = "canvas" \/ x.late THEN Append(ed.show[x.id], x.value)
                                                     ELSE [ed.show[x.id] EXCEPT ![1] = x.value]],
                 loading |-> ed.loading \ {x}]
      BY <2>4
    <3> HIDE DEF new, ed
    <3>3. TidyEditor(app, new) /\ \A i \in Ids : SeenIn(new, i) = SeenIn(ed, i)
      BY <3>1, <3>2, LoadedEditor
    <3> QED
      BY <3>3 DEF new, ed
  <2>6. \A i \in Ids : See(c, i)' = See(c, i)
    BY <1>1, <2>5 DEF See
  <2>7. EditorInv(c)'
    BY <1>1, <2>1, <2>5 DEF ClientInv, EditorInv
  <2>8. OutboxInv(c)' /\ InFlight(c)' = InFlight(c)
    BY <1>1, <2>1 DEF ClientInv, OutboxInv, InFlight
  <2>9. join[c].step \notin {"asked", "read", "grouped"}
    BY <2>1 DEF ClientInv, JoinInv, Blank
  <2>10. JoinInv(c)'
    BY <1>1, <2>1, <2>9 DEF ClientInv, JoinInv
  <2>11. FollowInv(c)'
    BY <1>1, <2>1, <2>6, <2>8 DEF ClientInv, FollowInv
  <2> QED
    BY <2>7, <2>8, <2>10, <2>11 DEF ClientInv
<1>9. contended \subseteq contended' /\ disturbed \subseteq disturbed'
  BY <1>1
<1>10. /\ pending'[c] = pending[c] /\ sending'[c] = sending[c] /\ request'[c] = request[c] /\ clock'[c] = clock[c]
  BY <1>1
<1>11. /\ app = "scene" => \A op \in Range(pending'[c]) : op.ts <= clock'[c] /\ op.peer = c
       /\ app = "scene" => \A i \in Ids : Adds(pending'[c], i) \/ Adds(InFlight(c)', i) =>
               /\ Adds(pending[c], i) \/ Adds(InFlight(c), i) \/ i \notin used
               /\ Adds(pending'[c], i) => i \notin IdsOf(sending'[c]) \/ (Adds(pending[c], i) /\ sending'[c] = sending[c])
  BY <1>1, <1>10, OutboxKept
<1> QED
  BY <1>1, <1>4, <1>5, <1>7, <1>8, <1>9, <1>11, SameStep

----------------------------------------------------------------------------
\* A client joins.

\* What is in a sequence with one more.
LEMMA RangeAppend ==
    ASSUME NEW T, NEW s \in Seq(T), NEW e \in T
    PROVE  /\ \A x \in Range(Append(s, e)) : x \in Range(s) \/ x = e
           /\ e \in Range(Append(s, e)) /\ \A x \in Range(s) : x \in Range(Append(s, e))
<1>1. /\ Append(s, e) \in Seq(T) /\ Len(Append(s, e)) = Len(s) + 1
      /\ \A k \in 1..Len(s) : Append(s, e)[k] = s[k]
      /\ Append(s, e)[Len(s) + 1] = e
  BY AppendProperties
<1>2. Len(s) \in Nat /\ DOMAIN s = 1..Len(s) /\ DOMAIN Append(s, e) = 1..(Len(s) + 1)
  BY <1>1, LenProperties
<1> QED
  BY <1>1, <1>2 DEF Range

\* The three steps of a join.
LEMMA JoinStepIs ==
    ASSUME TypeInv, NEW c \in Clients, NEW from, NEW to, JoinStep(c, from, to)
    PROVE  /\ join[c].step = from /\ join'[c].step = to
           /\ \A d \in Clients \ {c} : join'[d] = join[d]
           /\ join'[c].snapshot \in IF from = "asked" THEN SnapshotOps(regs) ELSE {join[c].snapshot}
<1>1. join \in [Clients -> Joins(used)]
  BY DEF TypeInv, Typed, ServerTyped
<1>2. PICK ops \in (IF from = "asked" THEN SnapshotOps(regs) ELSE {join[c].snapshot}) :
          join' = [join EXCEPT ![c] = [[join[c] EXCEPT !.step = to] EXCEPT !.snapshot = ops]]
  <2>1. \A ops : [join EXCEPT ![c].step = to, ![c].snapshot = ops]
                 = [join EXCEPT ![c] = [[join[c] EXCEPT !.step = to] EXCEPT !.snapshot = ops]]
    BY <1>1
  <2> QED
    BY <2>1 DEF JoinStep
<1>3. join[c] \in Joins(used) /\ join[c].step = from
  BY <1>1 DEF JoinStep
<1>4. /\ [[join[c] EXCEPT !.step = to] EXCEPT !.snapshot = ops].step = to
      /\ [[join[c] EXCEPT !.step = to] EXCEPT !.snapshot = ops].snapshot = ops
  <2>1. PICK s \in Steps, o \in Seq(Sent(used)) : join[c] = [step |-> s, snapshot |-> o]
    BY <1>3 DEF Joins
  <2> QED
    BY <2>1
<1>5. join'[c].step = to /\ join'[c].snapshot = ops /\ \A d \in Clients \ {c} : join'[d] = join[d]
  BY <1>1, <1>2, <1>4
<1> QED
  BY <1>2, <1>3, <1>5

\* A step of the join that leaves everything but the join, the group and the messages of c.
LEMMA SameJoin ==
    ASSUME TypeInv, SameInv, NEW c \in Clients, app' = app, regs' = regs, contended' = contended, disturbed' = disturbed,
           show' = show, loading' = loading, baseline' = baseline, pending' = pending, sending' = sending,
           request' = request, clock' = clock,
           \A d \in Clients \ {c} : join'[d] = join[d] /\ net'[d] = net[d] /\ (d \in members' <=> d \in members),
           Shaped(app, join[c].snapshot, contended)', \A m \in Range(net'[c]) : Shaped(app', m.ops, contended'),
           app = "scene" => \A i \in Ids : Absent(regs, i) /\ Unaware(c, i) =>
               join'[c].snapshot \in Seq(Sent(Ids \ {i})) /\ net'[c] \in Seq(Messages(Ids \ {i})),
           c \notin disturbed => JoinInv(c)' /\ FollowInv(c)'
    PROVE  SameInv'
<1>1. \A d \in Clients \ {c} : Untouched(d) /\ (d \in members' <=> d \in members) /\ clock'[d] = clock[d]
  BY DEF Untouched
<1>2. Shaped(app, pending[c], contended)' /\ Shaped(app, sending[c], contended)'
  BY BatchesKept
<1>3. app = "scene" => \A i \in Ids : Absent(regs, i) /\ i \in used /\ Unaware(c, i) => Unaware(c, i)'
  BY DEF Unaware
<1>4. /\ app = "scene" => \A op \in Range(pending'[c]) : op.ts <= clock'[c] /\ op.peer = c
      /\ app = "scene" => \A i \in Ids : Adds(pending'[c], i) \/ Adds(InFlight(c)', i) =>
               /\ Adds(pending[c], i) \/ Adds(InFlight(c), i) \/ i \notin used
               /\ Adds(pending'[c], i) => i \notin IdsOf(sending'[c]) \/ (Adds(pending[c], i) /\ sending'[c] = sending[c])
  BY OutboxKept
<1>5. ASSUME c \notin disturbed' PROVE ClientInv(c)'
  <2>1. ClientInv(c)
    BY <1>5 DEF SameInv
  <2>2. EditorOf(c)' = EditorOf(c)
    BY DEF EditorOf
  <2>3. EditorInv(c)' /\ OutboxInv(c)'
    BY <2>1, <2>2 DEF ClientInv, EditorInv, OutboxInv
  <2> QED
    BY <1>5, <2>3 DEF ClientInv
<1>6. contended \subseteq contended' /\ disturbed \subseteq disturbed'
  OBVIOUS
<1> QED
  BY <1>1, <1>2, <1>3, <1>4, <1>5, <1>6, SameStep

LEMMA SameReadDocument ==
    ASSUME TypeInv, SameInv, NEW c \in Clients, ReadDocument(c)
    PROVE  SameInv'
<1>1. /\ app' = app /\ regs' = regs /\ members' = members /\ contended' = contended
      /\ disturbed' = disturbed /\ show' = show /\ loading' = loading /\ baseline' = baseline /\ net' = net
      /\ pending' = pending /\ sending' = sending /\ request' = request /\ clock' = clock
  BY DEF ReadDocument, serverVars, outboxVars, editorVars
<1>2. /\ join[c].step = "asked" /\ join'[c].step = "read" /\ \A d \in Clients \ {c} : join'[d] = join[d]
      /\ join'[c].snapshot \in SnapshotOps(regs)
  BY JoinStepIs DEF ReadDocument
<1> DEFINE ops == join'[c].snapshot
<1>3. ops \in SnapshotOps(regs)
  BY <1>2
<1> HIDE DEF ops
<1>4. regs \in Documents(Ids) /\ ops \in Seq(Ops) /\ Distinct(ops)
  BY <1>3, ClientTypes, SnapshotHas
<1>5. \A i \in Ids : /\ Outcome(app, <<>>, Range(ops), i) = Doc(regs, i)
                     /\ RegTidy(app, regs, i) => Ordered(ops, i)
                     /\ Absent(regs, i) => i \notin IdsOf(ops)
  BY <1>3, <1>4, SnapshotBuilds DEF Absent
<1>6. Shaped(app, ops, contended)
  <2>1. app # "scene" => WholeOnly(ops)
    BY <1>3, <1>4, SnapshotWhole DEF SameInv, RegsInv
  <2>2. \A i \in Ids \ contended : Ordered(ops, i)
    BY <1>5 DEF SameInv, RegsInv
  <2> QED
    BY <1>4, <2>1, <2>2 DEF Shaped
<1>7. ASSUME NEW i \in Ids, Absent(regs, i), Unaware(c, i)
      PROVE  ops \in Seq(Sent(Ids \ {i})) /\ net'[c] \in Seq(Messages(Ids \ {i}))
  <2>1. i \notin IdsOf(ops) /\ Len(ops) \in Nat /\ \A k \in 1..Len(ops) : ops[k] \in Ops /\ ops[k] \in Range(ops)
    BY <1>4, <1>5, <1>7, SeqOps
  <2>2. \A k \in 1..Len(ops) : ops[k] \in Sent(Ids \ {i})
    BY <2>1, OpIs DEF Sent, IdsOf
  <2>3. ops \in Seq(Sent(Ids \ {i}))
    <3> DEFINE T == Sent(Ids \ {i})
    <3>1. \A k \in 1..Len(ops) : ops[k] \in T
      BY <2>2
    <3> HIDE DEF T
    <3>2. ops \in [1..Len(ops) -> Ops]
      BY <1>4, LenProperties
    <3>3. ops \in [1..Len(ops) -> T]
      BY <3>1, <3>2
    <3> QED
      BY <2>1, <3>3, SeqDef DEF T
  <2> QED
    BY <1>1, <1>7, <2>3 DEF Unaware
<1>8. ASSUME c \notin disturbed PROVE JoinInv(c)' /\ FollowInv(c)'
  <2>1. JoinInv(c)
    BY <1>8 DEF SameInv, ClientInv
  <2>2. Blank(c)' = Blank(c)
    BY <1>1 DEF Blank
  <2> QED
    BY <1>1, <1>2, <1>5, <2>1, <2>2 DEF JoinInv, FollowInv, ops
<1>9. Shaped(app, join[c].snapshot, contended)' /\ \A m \in Range(net'[c]) : Shaped(app', m.ops, contended')
  <2>1. contended \subseteq contended'
    BY <1>1
  <2> QED
    BY <1>1, <1>6, <2>1, BatchesKept DEF ops
<1>10. \A d \in Clients \ {c} : join'[d] = join[d] /\ net'[d] = net[d] /\ (d \in members' <=> d \in members)
  BY <1>1, <1>2
<1>11. \A i \in Ids : Absent(regs, i) /\ Unaware(c, i) =>
               join'[c].snapshot \in Seq(Sent(Ids \ {i})) /\ net'[c] \in Seq(Messages(Ids \ {i}))
  BY <1>7 DEF ops
<1> QED
  BY <1>1, <1>8, <1>9, <1>10, <1>11, SameJoin

LEMMA SameAddToGroup ==
    ASSUME TypeInv, SameInv, NEW c \in Clients, AddToGroup(c)
    PROVE  SameInv'
<1>1. /\ app' = app /\ regs' = regs /\ members' = members \cup {c} /\ contended' = contended
      /\ disturbed' = disturbed /\ show' = show /\ loading' = loading /\ baseline' = baseline /\ net' = net
      /\ pending' = pending /\ sending' = sending /\ request' = request /\ clock' = clock
  BY DEF AddToGroup, outboxVars, editorVars
<1>2. /\ join[c].step = "read" /\ join'[c].step = "grouped" /\ \A d \in Clients \ {c} : join'[d] = join[d]
      /\ join'[c].snapshot = join[c].snapshot
  BY JoinStepIs DEF AddToGroup
<1>3. ASSUME c \notin disturbed PROVE JoinInv(c)' /\ FollowInv(c)'
  <2>1. JoinInv(c)
    BY <1>3 DEF SameInv, ClientInv
  <2>2. Blank(c)' = Blank(c)
    BY <1>1 DEF Blank
  <2> QED
    BY <1>1, <1>2, <2>1, <2>2 DEF JoinInv, FollowInv
<1>4. Shaped(app, join[c].snapshot, contended)' /\ \A m \in Range(net'[c]) : Shaped(app', m.ops, contended')
  <2>1. contended \subseteq contended'
    BY <1>1
  <2> QED
    BY <1>1, <1>2, <2>1, BatchesKept
<1>5. \A d \in Clients \ {c} : join'[d] = join[d] /\ net'[d] = net[d] /\ (d \in members' <=> d \in members)
  BY <1>1, <1>2
<1>6. \A i \in Ids : Absent(regs, i) /\ Unaware(c, i) =>
               join'[c].snapshot \in Seq(Sent(Ids \ {i})) /\ net'[c] \in Seq(Messages(Ids \ {i}))
  BY <1>1, <1>2 DEF Unaware
<1> QED
  BY <1>1, <1>3, <1>4, <1>5, <1>6, SameJoin

LEMMA SameAnswerJoin ==
    ASSUME TypeInv, SameInv, NEW c \in Clients, AnswerJoin(c)
    PROVE  SameInv'
<1> DEFINE m == [type |-> "join", ops |-> join[c].snapshot]
<1>1. /\ app' = app /\ regs' = regs /\ members' = members /\ contended' = contended
      /\ disturbed' = disturbed /\ show' = show /\ loading' = loading /\ baseline' = baseline
      /\ pending' = pending /\ sending' = sending /\ request' = request /\ clock' = clock
      /\ net' = [net EXCEPT ![c] = Append(net[c], m)]
  BY DEF AnswerJoin, serverVars, outboxVars, editorVars
<1>2. /\ join[c].step = "grouped" /\ join'[c].step = "answered" /\ \A d \in Clients \ {c} : join'[d] = join[d]
      /\ join'[c].snapshot = join[c].snapshot
  BY JoinStepIs DEF AnswerJoin
<1>3. net \in [Clients -> Seq(Messages(used))]
  BY DEF TypeInv, Typed, ServerTyped
<1>4. net'[c] = Append(net[c], m) /\ \A d \in Clients \ {c} : net'[d] = net[d]
  BY <1>1, <1>3
<1>5. m.ops = join[c].snapshot /\ join[c].snapshot \in Seq(Ops) /\ net[c] \in Seq(Messages(Ids)) /\ m \in Messages(Ids)
  BY ClientTypes, AllIds DEF Messages
<1>6. \A x \in Range(net'[c]) : x \in Range(net[c]) \/ x = m
  BY <1>4, <1>5, RangeAppend
<1>7. Shaped(app, join[c].snapshot, contended)' /\ \A x \in Range(net'[c]) : Shaped(app', x.ops, contended')
  <2>1. contended \subseteq contended'
    BY <1>1
  <2> HIDE DEF m
  <2> QED
    BY <1>1, <1>2, <1>5, <1>6, <2>1, BatchesKept
<1>8. ASSUME NEW i \in Ids, Unaware(c, i)
      PROVE  join'[c].snapshot \in Seq(Sent(Ids \ {i})) /\ net'[c] \in Seq(Messages(Ids \ {i}))
  <2>1. m \in Messages(Ids \ {i})
    BY <1>8 DEF Unaware, Messages
  <2> HIDE DEF m
  <2> QED
    BY <1>2, <1>4, <1>8, <2>1, AppendProperties DEF Unaware
<1> HIDE DEF m
<1>9. ASSUME c \notin disturbed PROVE JoinInv(c)' /\ FollowInv(c)'
  <2>1. ClientInv(c) /\ JoinInv(c) /\ Blank(c)
    BY <1>2, <1>9 DEF SameInv, ClientInv, JoinInv
  <2>2. JoinInv(c)'
    BY <1>1, <1>2, <2>1 DEF JoinInv
  <2>3. net[c] = <<>> /\ pending[c] = <<>> /\ sending[c] = <<>> /\ InFlight(c)' = <<>>
    BY <1>1, <2>1 DEF Blank, InFlight, Flying
  <2>4. FollowInv(c)'
    <3> SUFFICES ASSUME NEW i \in Ids \ contended
                 PROVE  Tracks(app, regs, See(c, i)', net'[c], <<>>, <<>>, i)
      BY <1>1, <2>3 DEF FollowInv
    <3> DEFINE d == Doc(regs, i)
               b == join[c].snapshot
    <3>1. See(c, i)' = <<>>
      <4>1. See(c, i)' = See(c, i)
        BY <1>1 DEF See, EditorOf
      <4>2. EditorOf(c).show = show[c] /\ EditorOf(c).loading = loading[c]
        BY DEF EditorOf
      <4> QED
        BY <2>1, <4>1, <4>2 DEF Blank, See, SeenIn
    <3>2. Outcome(app, <<>>, Range(b), i) = d /\ d \in OneShown /\ <<>> \in OneShown
      BY <1>2, <2>1, InFlightType, OneShownIs DEF JoinInv, ClientInv
    <3>3. b \in Seq(Ops) /\ m.ops = b /\ net'[c] = Append(<<>>, m)
      BY <1>4, <1>5, <2>3
    <3> HIDE DEF d, b
    <3>4. Chain(app, <<>>, net'[c], i) = d
      <4>1. ASSUME NEW z \in Seq(Messages(Ids))
            PROVE  Chain(app, <<>>, Append(z, m), i) = Outcome(app, Chain(app, <<>>, z, i), Range(m.ops), i)
        BY <1>5, <3>2, ChainAppend
      <4>2. <<>> \in Seq(Messages(Ids)) /\ Chain(app, <<>>, <<>>, i) = <<>>
        BY ChainEmpty
      <4>3. Chain(app, <<>>, Append(<<>>, m), i) = Outcome(app, Chain(app, <<>>, <<>>, i), Range(m.ops), i)
        BY <4>1, <4>2, Zenon
      <4> QED
        BY <3>2, <3>3, <4>2, <4>3
    <3>5. ASSUME i \notin Topics(net'[c]) PROVE <<>> = Awaits(app, d, <<>>, <<>>, i)
      <4>1. m \in Range(net'[c])
        <5>1. m \in Range(Append(net[c], m))
          BY <1>5, RangeAppend
        <5> QED
          BY <1>4, <5>1
      <4>2. i \notin IdsOf(b)
        BY <3>3, <3>5, <4>1 DEF Topics
      <4>3. Outcome(app, <<>>, Range(b), i) = <<>>
        <5>1. Range(b) \subseteq Ops /\ \A x \in Range(b) : IdOf(x) # i
          BY <3>3, <4>2, SeqOps DEF IdsOf
        <5>2. ASSUME NEW z \in OneShown PROVE Outcome(app, z, Range(b), i) = z
          BY <5>1, OutcomeType
        <5> QED
          BY <3>2, <5>2
      <4>4. d = <<>>
        BY <3>2, <4>3
      <4>5. Range(<<>>) = {} /\ Outcome(app, <<>>, {}, i) = <<>>
        BY <3>2, NoneOf
      <4> QED
        BY <4>4, <4>5 DEF Awaits
    <3> QED
      BY <3>1, <3>4, <3>5 DEF Tracks, d
  <2> QED
    BY <2>2, <2>4
<1>10. \A d \in Clients \ {c} : join'[d] = join[d] /\ net'[d] = net[d] /\ (d \in members' <=> d \in members)
  BY <1>1, <1>2, <1>4
<1>11. \A i \in Ids : Absent(regs, i) /\ Unaware(c, i) =>
               join'[c].snapshot \in Seq(Sent(Ids \ {i})) /\ net'[c] \in Seq(Messages(Ids \ {i}))
  BY <1>8
<1> QED
  BY <1>1, <1>7, <1>9, <1>10, <1>11, SameJoin

----------------------------------------------------------------------------
\* A user edits.

\* The three edits of a user, for what they have in common.
Edits(c, id, path, v, objs) ==
    /\ Edit(c, id, path, v, objs)
    /\ loading' = loading \/ loading' = [loading EXCEPT ![c] = Unplaced(loading[c], id)]
    /\ path = Whole(id) \/ path = Place(id)
    /\ v \in Values \cup {Deleted} /\ (v = Deleted => path = Whole(id))
    /\ objs \in Seq(Values) /\ (show[c][id] \in OneShown => objs = AfterEdit(v))
    /\ app # "scene" => path = Whole(id)
    /\ \/ id \notin used /\ path = Whole(id)
       \/ show[c][id] # <<>> /\ (app = "scene" => path = Place(id) \/ v = Deleted)

LEMMA EditFrame ==
    ASSUME TypeInv, NEW c \in Clients, NEW id \in Ids, NEW path, NEW v, NEW objs, Edits(c, id, path, v, objs)
    PROVE  /\ app' = app /\ regs' = regs /\ members' = members /\ baseline' = baseline /\ join' = join /\ net' = net
           /\ contended' = (IF id \in Coming(c) THEN contended \cup {id} ELSE contended)
           /\ contended \subseteq contended' /\ disturbed \subseteq disturbed'
           /\ c \notin disturbed' => c \notin disturbed /\ join[c].step = "done" /\ \A x \in loading[c] : x.id # id
           /\ show'[c] = [show[c] EXCEPT ![id] = objs]
           /\ \A d \in Clients \ {c} : show'[d] = show[d] /\ loading'[d] = loading[d]
           /\ loading'[c] = loading[c] \/ loading'[c] = Unplaced(loading[c], id)
<1>1. show \in [Clients -> Screens(used)] /\ loading \in [Clients -> SUBSET Images(used)]
  BY DEF TypeInv, Typed, ClientsTyped
<1>2. show' = [show EXCEPT ![c] = [show[c] EXCEPT ![id] = objs]]
  BY DEF Edits, Edit
<1>3. /\ app' = app /\ regs' = regs /\ members' = members /\ baseline' = baseline /\ join' = join /\ net' = net
      /\ contended' = (IF id \in Coming(c) THEN contended \cup {id} ELSE contended)
      /\ disturbed' = (IF join[c].step # "done" \/ \E x \in loading[c] : x.id = id
                       THEN disturbed \cup {c} ELSE disturbed)
  BY DEF Edits, Edit, serverVars
<1>4. /\ show'[c] = [show[c] EXCEPT ![id] = objs]
      /\ \A d \in Clients \ {c} : show'[d] = show[d]
  BY <1>1, <1>2
<1>5. /\ \A d \in Clients \ {c} : loading'[d] = loading[d]
      /\ loading'[c] = loading[c] \/ loading'[c] = Unplaced(loading[c], id)
  BY <1>1 DEF Edits
<1> QED
  BY <1>3, <1>4, <1>5

\* What goes to the outbox: nothing, or the write.
LEMMA EditBox ==
    ASSUME TypeInv, NEW c \in Clients, NEW id \in Ids, NEW path, NEW v, NEW objs, Edits(c, id, path, v, objs)
    PROVE  \/ /\ app = "diagram" \/ ~Capturing(c)
              /\ pending' = pending /\ sending' = sending /\ request' = request /\ clock' = clock
           \/ /\ app # "diagram"
              /\ \E op \in Ops : \E P2, S2 :
                    /\ op.path = path /\ op.value = v /\ op.peer = c /\ IdOf(op) = id
                    /\ clock[c] <= op.ts /\ clock' = [clock EXCEPT ![c] = op.ts]
                    /\ BoxStep(pending[c], sending[c], op, P2, S2)
                    /\ pending' = [pending EXCEPT ![c] = P2]
                    /\ sending' = [sending EXCEPT ![c] = S2]
                    /\ request' = [request EXCEPT ![c] = Asking(request[c], S2)]
<1>1. CASE app = "diagram" \/ ~Capturing(c)
  BY <1>1 DEF Edits, Edit, outboxVars
<1>2. CASE ~(app = "diagram" \/ ~Capturing(c))
  <2>1. PICK now \in clock[c]..MaxClock :
            clock' = [clock EXCEPT ![c] = now] /\ EnqueueAll(c, <<Write(path, v, now, c)>>)
    BY <1>2 DEF Edits, Edit
  <2>2. clock[c] \in Nat \ {0} /\ pending[c] \in Seq(Ops) /\ sending[c] \in Seq(Ops)
    BY ClientTypes
  <2>3. now \in 1..MaxClock /\ clock[c] <= now
    BY <2>1, <2>2, BoundsAssumption
  <2>4. path \in Paths /\ path[1] = id /\ v \in Values \cup {Deleted}
    BY PathsAre DEF Edits
  <2>5. v = Deleted => Len(path) = 1
    BY PathsAre DEF Edits
  <2> DEFINE op == Write(path, v, now, c)
  <2>6. op.path = path /\ op.value = v /\ op.ts = now /\ op.peer = c
    BY WriteIs
  <2>7. op \in Written(Ids)
    BY <2>3, <2>4, WriteType
  <2>8. op \in Ops /\ IdOf(op) = id
    BY <2>4, <2>5, <2>6, <2>7 DEF Ops, Written, IdOf
  <2>9. EnqueueAll(c, <<op>>)
    BY <2>1
  <2> HIDE DEF op
  <2>10. \E P2, S2 :
              /\ BoxStep(pending[c], sending[c], op, P2, S2)
              /\ pending' = [pending EXCEPT ![c] = P2]
              /\ sending' = [sending EXCEPT ![c] = S2]
              /\ request' = [request EXCEPT ![c] = Asking(request[c], S2)]
    BY <2>2, <2>8, <2>9, EnqueueOne
  <2>11. clock[c] <= op.ts /\ clock' = [clock EXCEPT ![c] = op.ts]
    BY <2>1, <2>3, <2>6
  <2>12. op \in Ops /\ op.path = path /\ op.value = v /\ op.peer = c /\ IdOf(op) = id /\ app # "diagram"
    BY <1>2, <2>6, <2>8
  <2>13. PICK P2, S2 :
              /\ BoxStep(pending[c], sending[c], op, P2, S2)
              /\ pending' = [pending EXCEPT ![c] = P2]
              /\ sending' = [sending EXCEPT ![c] = S2]
              /\ request' = [request EXCEPT ![c] = Asking(request[c], S2)]
    BY <2>10
  <2> QED
    BY <2>11, <2>12, <2>13, Zenon
<1> QED
  BY <1>1, <1>2

\* The editor of a client for which nothing goes wrong.
LEMMA EditShown ==
    ASSUME TypeInv, SameInv, NEW c \in Clients, NEW id \in Ids, NEW path, NEW v, NEW objs,
           Edits(c, id, path, v, objs), c \notin disturbed'
    PROVE  /\ ClientInv(c) /\ join[c].step = "done" /\ EditorInv(c)' /\ objs = AfterEdit(v)
           /\ app = "diagram" => \A j \in Ids : See(c, j)' = See(c, j)
           /\ app # "diagram" => See(c, id)' = AfterEdit(v) /\ \A j \in Ids : j # id => See(c, j)' = See(c, j)
           /\ See(c, id) = show[c][id] \/ app = "diagram"
<1>1. c \notin disturbed /\ join[c].step = "done" /\ (\A x \in loading[c] : x.id # id) /\ app' = app /\ baseline' = baseline
  BY EditFrame
<1>2. ClientInv(c)
  BY <1>1 DEF SameInv
<1> DEFINE ed == EditorOf(c)
           new == EditorOf(c)'
<1>3. ed \in Editor /\ TidyEditor(app, ed) /\ ed.show = show[c] /\ ed.loading = loading[c] /\ ed = [show |-> show[c], loading |-> loading[c]]
  BY <1>2, ClientTypes DEF ClientInv, EditorInv, EditorOf
<1>4. id \notin Busy(ed)
  BY <1>1, <1>3 DEF Busy
<1>5. show[c][id] \in OneShown
  BY <1>3 DEF TidyEditor
<1>6. objs = AfterEdit(v) /\ objs \in OneShown
  BY <1>5, OneShownIs DEF Edits, AfterEdit
<1>7. loading'[c] = loading[c]
  <2>1. loading[c] = Unplaced(loading[c], id)
    BY <1>1 DEF Unplaced
  <2> QED
    BY <2>1, EditFrame
<1>8. new = [show |-> [show[c] EXCEPT ![id] = objs], loading |-> loading[c]]
  <2>1. show'[c] = [show[c] EXCEPT ![id] = objs]
    BY EditFrame
  <2> QED
    BY <1>7, <2>1 DEF EditorOf
<1>9. new = Showing(ed, id, objs)
  BY <1>3, <1>8 DEF Showing
<1>10. ed.show[id] = show[c][id]
  BY <1>3
<1> HIDE DEF ed, new
<1>11. /\ new \in Editor /\ TidyEditor(app, new) /\ Busy(new) = Busy(ed)
       /\ SeenIn(new, id) = objs
       /\ \A j \in Ids : j # id => SeenIn(new, j) = SeenIn(ed, j)
  BY <1>3, <1>4, <1>6, <1>9, ShowingTidy
<1>12. SeenIn(ed, id) = show[c][id]
  BY <1>3, <1>4, <1>10, SeenIs
<1>13. EditorInv(c)'
  BY <1>1, <1>2, <1>11 DEF ClientInv, EditorInv, new
<1>14. app = "diagram" => \A j \in Ids : See(c, j)' = See(c, j)
  BY <1>1 DEF See
<1>15. app # "diagram" => See(c, id)' = AfterEdit(v) /\ \A j \in Ids : j # id => See(c, j)' = See(c, j)
  BY <1>1, <1>6, <1>11 DEF See, new, ed
<1>16. See(c, id) = show[c][id] \/ app = "diagram"
  BY <1>12 DEF See, ed
<1> QED
  BY <1>1, <1>2, <1>6, <1>13, <1>14, <1>15, <1>16

LEMMA SeqIn ==
    ASSUME NEW S, NEW T, NEW b \in Seq(S), Range(b) \subseteq T
    PROVE  b \in Seq(T)
<1>1. Len(b) \in Nat /\ b \in [1..Len(b) -> S] /\ DOMAIN b = 1..Len(b)
  BY LenProperties
<1>2. \A k \in 1..Len(b) : b[k] \in T
  BY <1>1 DEF Range
<1>3. b \in [1..Len(b) -> T]
  BY <1>1, <1>2
<1> QED
  BY <1>1, <1>3, SeqDef

LEMMA InSeq ==
    ASSUME NEW T, NEW b \in Seq(T)
    PROVE  Range(b) \subseteq T
<1>1. Len(b) \in Nat /\ b \in [1..Len(b) -> T] /\ DOMAIN b = 1..Len(b)
  BY LenProperties
<1> QED
  BY <1>1 DEF Range

LEMMA BoxIn ==
    ASSUME NEW T, NEW P \in Seq(Ops), NEW S \in Seq(Ops), P \in Seq(T), S \in Seq(T), NEW op \in Ops, op \in T,
           NEW P2, NEW S2, BoxStep(P, S, op, P2, S2)
    PROVE  P2 \in Seq(T) /\ S2 \in Seq(T)
<1> DEFINE W == Waiting(P, op)
<1>1. /\ W \in Seq(Ops) /\ Range(W) = {x \in Range(P) : x.path # op.path} \cup {op}
  BY WaitingIs, WaitingRange
<1>2. Range(P) \subseteq T
  BY InSeq
<1>3. Range(W) \subseteq T
  BY <1>1, <1>2
<1>4. W \in Seq(T) /\ <<>> \in Seq(T)
  BY <1>1, <1>3, SeqIn
<1> HIDE DEF W
<1>5. \/ P2 = <<>> /\ S2 = W
      \/ P2 = W /\ S2 = S
  BY DEF BoxStep, W
<1> QED
  BY <1>4, <1>5

\* What is not mentioned to c stays so, if the edit is of another object.
LEMMA EditUnaware ==
    ASSUME TypeInv, NEW c \in Clients, NEW id \in Ids, NEW path, NEW v, NEW objs, Edits(c, id, path, v, objs),
           NEW i \in Ids, i \in used, Unaware(c, i)
    PROVE  /\ i # id /\ show'[c] \in Screens(Ids \ {i}) /\ loading'[c] \subseteq Images(Ids \ {i})
           /\ net'[c] \in Seq(Messages(Ids \ {i})) /\ join'[c].snapshot \in Seq(Sent(Ids \ {i}))
<1>1. show[c] \in Screens(Ids \ {i}) /\ loading[c] \subseteq Images(Ids \ {i})
  BY DEF Unaware
<1>2. i # id
  BY <1>1, ScreensAre DEF Edits
<1>3. [show[c] EXCEPT ![id] = objs] \in Screens(Ids \ {i})
  BY <1>1, <1>2, ScreensAre DEF Edits
<1>4. Unplaced(loading[c], id) \in SUBSET Images(Ids \ {i})
  BY <1>1, UnplacedType
<1>5. /\ net' = net /\ join' = join /\ show'[c] = [show[c] EXCEPT ![id] = objs]
      /\ loading'[c] = loading[c] \/ loading'[c] = Unplaced(loading[c], id)
  BY EditFrame
<1> QED
  BY <1>1, <1>2, <1>3, <1>4, <1>5 DEF Unaware

\* An edit that writes nothing yet.
LEMMA SameQuiet ==
    ASSUME TypeInv, SameInv, NEW c \in Clients, NEW id \in Ids, NEW path, NEW v, NEW objs,
           Edits(c, id, path, v, objs), app = "diagram" \/ ~Capturing(c),
           pending' = pending, sending' = sending, request' = request, clock' = clock
    PROVE  SameInv'
<1>1. /\ app' = app /\ regs' = regs /\ members' = members /\ baseline' = baseline /\ join' = join /\ net' = net
      /\ contended \subseteq contended' /\ disturbed \subseteq disturbed'
      /\ \A d \in Clients \ {c} : show'[d] = show[d] /\ loading'[d] = loading[d]
  BY EditFrame
<1>2. \A d \in Clients \ {c} : Untouched(d) /\ (d \in members' <=> d \in members) /\ clock'[d] = clock[d]
  BY <1>1 DEF Untouched
<1>3. /\ Shaped(app, pending[c], contended)' /\ Shaped(app, sending[c], contended)'
      /\ Shaped(app, join[c].snapshot, contended)' /\ \A m \in Range(net'[c]) : Shaped(app', m.ops, contended')
  BY <1>1, BatchesKept
<1>4. ASSUME NEW i \in Ids, i \in used, Unaware(c, i) PROVE Unaware(c, i)'
  <2>1. /\ show'[c] \in Screens(Ids \ {i}) /\ loading'[c] \subseteq Images(Ids \ {i})
        /\ net'[c] \in Seq(Messages(Ids \ {i})) /\ join'[c].snapshot \in Seq(Sent(Ids \ {i}))
    BY <1>4, EditUnaware
  <2> QED
    BY <1>4, <2>1 DEF Unaware
<1>5. ASSUME c \notin disturbed' PROVE ClientInv(c)'
  <2>1. ClientInv(c) /\ join[c].step = "done" /\ EditorInv(c)' /\ (app = "diagram" => \A j \in Ids : See(c, j)' = See(c, j))
    BY <1>5, EditShown
  <2>2. \A j \in Ids : See(c, j)' = See(c, j)
    BY <2>1 DEF Capturing
  <2>3. OutboxInv(c)' /\ InFlight(c)' = InFlight(c)
    BY <2>1 DEF ClientInv, OutboxInv, InFlight
  <2>4. JoinInv(c)'
    BY <1>1, <2>1 DEF ClientInv, JoinInv
  <2>5. FollowInv(c)'
    BY <1>1, <2>1, <2>2, <2>3 DEF ClientInv, FollowInv
  <2> QED
    BY <2>1, <2>3, <2>4, <2>5 DEF ClientInv
<1>6. /\ pending'[c] = pending[c] /\ sending'[c] = sending[c] /\ request'[c] = request[c] /\ clock'[c] = clock[c]
  OBVIOUS
<1>7. /\ app = "scene" => \A op \in Range(pending'[c]) : op.ts <= clock'[c] /\ op.peer = c
      /\ app = "scene" => \A i \in Ids : Adds(pending'[c], i) \/ Adds(InFlight(c)', i) =>
               /\ Adds(pending[c], i) \/ Adds(InFlight(c), i) \/ i \notin used
               /\ Adds(pending'[c], i) => i \notin IdsOf(sending'[c]) \/ (Adds(pending[c], i) /\ sending'[c] = sending[c])
  BY <1>1, <1>6, OutboxKept
<1> QED
  BY <1>1, <1>2, <1>3, <1>4, <1>5, <1>7, SameStep

\* What the outbox has after a write.
LEMMA BoxHas ==
    ASSUME NEW P \in Seq(Ops), NEW S \in Seq(Ops), NEW op \in Ops, NEW P2, NEW S2, BoxStep(P, S, op, P2, S2)
    PROVE  /\ \A x \in Range(P2) : x = op \/ x \in Range(P)
           /\ S = <<>> => P2 = <<>> /\ \A x \in Range(S2) : x = op \/ x \in Range(P)
           /\ S # <<>> => S2 = S
<1> DEFINE W == Waiting(P, op)
<1>1. Range(W) = {x \in Range(P) : x.path # op.path} \cup {op}
  BY WaitingRange
<1>2. Range(<<>>) = {}
  BY NoneOf
<1> HIDE DEF W
<1>3. \/ S = <<>> /\ P2 = <<>> /\ S2 = W
      \/ S # <<>> /\ P2 = W /\ S2 = S
  BY DEF BoxStep, W
<1>4. \A x \in Range(W) : x = op \/ x \in Range(P)
  BY <1>1
<1> QED
  BY <1>2, <1>3, <1>4

\* The write, for what it is of.
LEMMA EditWrites ==
    ASSUME TypeInv, NEW c \in Clients, NEW id \in Ids, NEW path, NEW v, NEW objs, Edits(c, id, path, v, objs),
           NEW op \in Ops, op.path = path, op.value = v, IdOf(op) = id
    PROVE  /\ op.path = Whole(id) \/ (op.path = Place(id) /\ app = "scene" /\ show[c][id] # <<>>)
           /\ op.path = Whole(id) => \/ op.value = Deleted \/ app # "scene"
                                     \/ id \notin used /\ id \notin IdsOf(pending[c]) \cup IdsOf(sending[c])
                                          /\ show[c][id] = <<>>
           /\ \A i : op.path = Whole(i) /\ op.value # Deleted /\ app = "scene" => i = id /\ id \notin used
                        /\ id \notin IdsOf(sending[c])
<1>1. Whole(id) # Place(id)
  BY PathsAre
<1>2. op.path = Whole(id) \/ (op.path = Place(id) /\ app = "scene" /\ show[c][id] # <<>>)
  BY <1>1 DEF Edits
<1>3. ASSUME op.path = Whole(id), op.value # Deleted, app = "scene"
      PROVE  id \notin used /\ id \notin IdsOf(pending[c]) \cup IdsOf(sending[c]) /\ show[c][id] = <<>>
  <2>1. id \notin used
    BY <1>1, <1>3 DEF Edits
  <2>2. IdsOf(pending[c]) \subseteq used /\ IdsOf(sending[c]) \subseteq used /\ show[c] \in Screens(used)
    BY ClientTypes, IdsOfType
  <2>3. show[c][id] = <<>>
    BY <2>1, <2>2, ScreensAre
  <2> QED
    BY <2>1, <2>2, <2>3
<1>4. \A i : op.path = Whole(i) => i = id
  BY DEF Whole, IdOf
<1> QED
  BY <1>2, <1>3, <1>4

\* How c follows an object after a write of its own.
LEMMA EditFollows ==
    ASSUME TypeInv, SameInv, NEW c \in Clients, NEW id \in Ids, NEW path, NEW v, NEW objs,
           Edits(c, id, path, v, objs), app # "diagram", c \notin disturbed',
           NEW op \in Ops, op.path = path, op.value = v, IdOf(op) = id,
           NEW P2, NEW S2, BoxStep(pending[c], sending[c], op, P2, S2),
           NEW q2, q2 = Asking(request[c], S2), NEW F2, F2 = Flying(q2, S2), NEW i \in Ids \ contended'
    PROVE  Tracks(app, regs, See(c, i)', net[c], F2, P2, i) /\ S2 # <<>>
<1> DEFINE P == pending[c]
           S == sending[c]
           q == request[c]
           F == InFlight(c)
           d == Doc(regs, i)
<1>1. /\ ClientInv(c) /\ join[c].step = "done" /\ objs = AfterEdit(v)
      /\ See(c, id)' = AfterEdit(v) /\ (\A j \in Ids : j # id => See(c, j)' = See(c, j))
      /\ See(c, id) = show[c][id]
  BY EditShown
<1>2. /\ i \notin contended /\ (i = id => i \notin Coming(c))
  BY EditFrame
<1>3. P \in Seq(Ops) /\ S \in Seq(Ops) /\ (S = <<>> <=> q = "none") /\ F = Flying(q, S)
  BY ClientTypes DEF InFlight
<1>4. (S = <<>> => P = <<>>) /\ (app # "scene" => WholeOnly(P))
  BY <1>1 DEF ClientInv, OutboxInv, SameInv, BatchesInv, Shaped
<1>5. d \in OneShown /\ Coming(c) = Topics(net[c])
  BY InFlightType
<1>6. Tracks(app, regs, See(c, i), net[c], F, P, i)
  BY <1>1, <1>2 DEF ClientInv, FollowInv
<1>7. Fits(app, show[c][id], S, P, op)
  <2>1. /\ op.path = Whole(id) \/ (op.path = Place(id) /\ show[c][id] # <<>>)
        /\ op.path = Whole(id) => \/ op.value = Deleted \/ app # "scene"
                                  \/ id \notin IdsOf(P) \cup IdsOf(S) /\ show[c][id] = <<>>
    BY EditWrites
  <2> QED
    BY <2>1 DEF Fits
<1>8. BoxStep(P, S, op, P2, S2) /\ q2 = Asking(q, S2)
  OBVIOUS
<1> HIDE DEF P, S, q, F, d
<1>9. /\ S2 # <<>> /\ Queues(P, F, P2, F2, {IdOf(op)})
      /\ Keeps(app, F, P, F2, P2, {IdOf(op)}) /\ TakesFit(app, F, P, S, op, F2, P2)
  <2>1. MayBox(app, P, S, q, op, P2, S2)
    BY <1>3, <1>4, <1>8 DEF MayBox
  <2>2. Boxed(app, P, S, q, op, P2, S2)
    BY <2>1, OneMore
  <2>3. F2 = Flying(Asking(q, S2), S2) /\ F = Flying(q, S)
    BY <1>3, <1>8
  <2> QED
    BY <2>2, <2>3 DEF Boxed
<1>10. CASE i = id
  <2>1. i \in IdsOf(P2) \cup IdsOf(F2)
    BY <1>9, <1>10 DEF Queues
  <2>2. show[c][id] = Awaits(app, d, F, P, i)
    BY <1>1, <1>2, <1>5, <1>6, <1>10 DEF Tracks, d
  <2>3. Awaits(app, d, F2, P2, i) = AfterEdit(op.value)
    BY <1>5, <1>7, <1>9, <1>10, <2>2 DEF TakesFit
  <2> QED
    BY <1>1, <1>9, <1>10, <2>1, <2>3 DEF Tracks, d
<1>11. CASE i # id
  <2>1. i \in IdsOf(P2) \cup IdsOf(F2) <=> i \in IdsOf(P) \cup IdsOf(F)
    BY <1>9, <1>11 DEF Queues
  <2>2. Awaits(app, d, F2, P2, i) = Awaits(app, d, F, P, i)
    BY <1>5, <1>9, <1>11 DEF Keeps
  <2>3. See(c, i)' = See(c, i)
    BY <1>1, <1>11
  <2> QED
    BY <1>6, <1>9, <2>1, <2>2, <2>3 DEF Tracks, d
<1> QED
  BY <1>10, <1>11

\* An edit that goes to the outbox.
LEMMA SameBoxed ==
    ASSUME TypeInv, SameInv, NEW c \in Clients, NEW id \in Ids, NEW path, NEW v, NEW objs,
           Edits(c, id, path, v, objs), app # "diagram",
           NEW op \in Ops, op.path = path, op.value = v, op.peer = c, IdOf(op) = id,
           clock[c] <= op.ts, clock' = [clock EXCEPT ![c] = op.ts],
           NEW P2, NEW S2, BoxStep(pending[c], sending[c], op, P2, S2),
           pending' = [pending EXCEPT ![c] = P2], sending' = [sending EXCEPT ![c] = S2],
           request' = [request EXCEPT ![c] = Asking(request[c], S2)]
    PROVE  SameInv'
<1>1. /\ app' = app /\ regs' = regs /\ members' = members /\ baseline' = baseline /\ join' = join /\ net' = net
      /\ contended \subseteq contended' /\ disturbed \subseteq disturbed'
      /\ \A d \in Clients \ {c} : show'[d] = show[d] /\ loading'[d] = loading[d]
  BY EditFrame
<1>2. /\ pending \in [Clients -> Seq(Sent(used))] /\ sending \in [Clients -> Seq(Sent(used))]
      /\ request \in [Clients -> Requests] /\ clock \in [Clients -> Nat \ {0}]
  BY DEF TypeInv, Typed, ClientsTyped
<1>3. pending'[c] = P2 /\ sending'[c] = S2 /\ request'[c] = Asking(request[c], S2) /\ clock'[c] = op.ts
  BY <1>2
<1>4. \A d \in Clients \ {c} : Untouched(d) /\ (d \in members' <=> d \in members) /\ clock'[d] = clock[d]
  BY <1>1, <1>2 DEF Untouched
<1>5. /\ pending[c] \in Seq(Ops) /\ sending[c] \in Seq(Ops) /\ (sending[c] = <<>> <=> request[c] = "none")
      /\ clock[c] \in Nat /\ Range(pending[c]) \subseteq Ops
  BY ClientTypes, SeqOps
<1>6. /\ op.path = Whole(id) \/ (op.path = Place(id) /\ app = "scene")
      /\ op.path = Whole(id) => op.value = Deleted \/ app # "scene" \/ id \notin IdsOf(pending[c])
      /\ \A i : op.path = Whole(i) /\ op.value # Deleted /\ app = "scene" => i = id /\ id \notin used
                        /\ id \notin IdsOf(sending[c])
  BY EditWrites
<1>7. \A x \in Ops : x.ts \in Nat
  BY OpsAre
<1>8. app = "scene" => \A x \in Range(pending[c]) : x.ts <= clock[c] /\ x.peer = c
  BY DEF SameInv, ClocksInv
<1>9. /\ \A x \in Range(P2) : x = op \/ x \in Range(pending[c])
      /\ sending[c] = <<>> => P2 = <<>> /\ \A x \in Range(S2) : x = op \/ x \in Range(pending[c])
      /\ sending[c] # <<>> => S2 = sending[c]
  BY <1>5, BoxHas
<1>10. Shaped(app, P2, contended) /\ Shaped(app, S2, contended)
  <2>1. Shaped(app, pending[c], contended) /\ Shaped(app, sending[c], contended)
    BY DEF SameInv, BatchesInv
  <2>2. app # "scene" => op.path = Whole(IdOf(op))
    BY <1>6
  <2>3. op.path = Whole(IdOf(op)) => op.value = Deleted \/ app # "scene" \/ IdOf(op) \notin IdsOf(pending[c])
    BY <1>6
  <2>4. op.path = Place(IdOf(op)) => \A x \in Range(pending[c]) : x.path = Whole(IdOf(op)) => ~Newer(x, op)
    <3> SUFFICES ASSUME op.path = Place(id), NEW x \in Range(pending[c])
                 PROVE  ~Newer(x, op)
      OBVIOUS
    <3>1. app = "scene"
      BY <1>6, PathsAre
    <3>2. x.ts <= clock[c] /\ x.peer = c /\ x \in Ops
      BY <1>5, <1>8, <3>1
    <3>3. x.ts \in Nat /\ op.ts \in Nat /\ x.peer \in Nat
      BY <3>2, OpsAre
    <3> QED
      BY <1>5, <3>2, <3>3 DEF Newer
  <2> QED
    BY <1>5, <2>1, <2>2, <2>3, <2>4, ShapedMore
<1>11. /\ Shaped(app, pending[c], contended)' /\ Shaped(app, sending[c], contended)'
       /\ Shaped(app, join[c].snapshot, contended)' /\ \A m \in Range(net'[c]) : Shaped(app', m.ops, contended')
  BY <1>1, <1>3, <1>10, BatchesKept
<1>12. app = "scene" => \A x \in Range(pending'[c]) : x.ts <= clock'[c] /\ x.peer = c
  <2> SUFFICES ASSUME app = "scene", NEW x \in Range(P2) PROVE x.ts <= op.ts /\ x.peer = c
    BY <1>3
  <2>1. CASE x = op
    BY <1>7, <2>1
  <2>2. CASE x \in Range(pending[c])
    <3>1. x.ts \in Nat /\ op.ts \in Nat /\ x.ts <= clock[c] /\ x.peer = c
      BY <1>5, <1>7, <1>8, <2>2
    <3> QED
      BY <1>5, <3>1
  <2> QED
    BY <1>9, <2>1, <2>2
<1>13. ASSUME NEW i \in Ids, i \in used, Unaware(c, i) PROVE Unaware(c, i)'
  <2>1. /\ i # id /\ show'[c] \in Screens(Ids \ {i}) /\ loading'[c] \subseteq Images(Ids \ {i})
        /\ net'[c] \in Seq(Messages(Ids \ {i})) /\ join'[c].snapshot \in Seq(Sent(Ids \ {i}))
    BY <1>13, EditUnaware
  <2>2. op \in Sent(Ids \ {i})
    BY <2>1 DEF Sent
  <2>3. pending[c] \in Seq(Sent(Ids \ {i})) /\ sending[c] \in Seq(Sent(Ids \ {i}))
    BY <1>13 DEF Unaware
  <2>4. P2 \in Seq(Sent(Ids \ {i})) /\ S2 \in Seq(Sent(Ids \ {i}))
    BY <1>5, <2>2, <2>3, BoxIn
  <2> QED
    BY <1>3, <2>1, <2>4 DEF Unaware
<1>14. app = "scene" => \A i \in Ids : Adds(pending'[c], i) \/ Adds(InFlight(c)', i) =>
               /\ Adds(pending[c], i) \/ Adds(InFlight(c), i) \/ i \notin used
               /\ Adds(pending'[c], i) => i \notin IdsOf(sending'[c]) \/ (Adds(pending[c], i) /\ sending'[c] = sending[c])
  <2> SUFFICES ASSUME app = "scene", NEW i \in Ids, Adds(P2, i) \/ Adds(InFlight(c)', i)
               PROVE  /\ Adds(pending[c], i) \/ Adds(InFlight(c), i) \/ i \notin used
                      /\ Adds(P2, i) => i \notin IdsOf(S2) \/ (Adds(pending[c], i) /\ S2 = sending[c])
    BY <1>3
  <2>1. \A x : x = op \/ x \in Range(pending[c]) =>
            (x.path = Whole(i) /\ x.value # Deleted => Adds(pending[c], i) \/ (i \notin used /\ i \notin IdsOf(sending[c])))
    BY <1>6 DEF Adds
  <2>2. Adds(P2, i) => Adds(pending[c], i) \/ (i \notin used /\ i \notin IdsOf(sending[c]))
    BY <1>9, <2>1 DEF Adds
  <2>3. CASE sending[c] = <<>>
    <3>1. ~Adds(P2, i)
      BY <1>9, <2>3, NoneOf
    <3>2. InFlight(c)' = S2 \/ InFlight(c)' = <<>>
      BY <1>3 DEF InFlight, Flying
    <3>3. Adds(S2, i)
      BY <3>1, <3>2, NoneOf
    <3>4. Adds(pending[c], i) \/ i \notin used
      BY <1>9, <2>1, <2>3, <3>3 DEF Adds
    <3> QED
      BY <3>1, <3>4
  <2>4. CASE sending[c] # <<>>
    <3>1. S2 = sending[c] /\ request'[c] = request[c]
      BY <1>3, <1>5, <1>9, <2>4 DEF Asking
    <3>2. InFlight(c)' = InFlight(c)
      BY <1>3, <3>1 DEF InFlight
    <3> QED
      BY <2>2, <3>1, <3>2
  <2> QED
    BY <2>3, <2>4
<1>15. ASSUME c \notin disturbed' PROVE ClientInv(c)'
  <2>1. ClientInv(c) /\ join[c].step = "done" /\ EditorInv(c)'
    BY <1>15, EditShown
  <2>2. JoinInv(c)'
    BY <1>1, <2>1 DEF ClientInv, JoinInv
  <2>3. InFlight(c)' = Flying(Asking(request[c], S2), S2)
    BY <1>3 DEF InFlight
  <2>4. ASSUME NEW i \in Ids \ contended'
        PROVE  Tracks(app, regs, See(c, i)', net[c], InFlight(c)', P2, i) /\ S2 # <<>>
    BY <1>15, <2>3, <2>4, EditFollows
  <2>5. FollowInv(c)'
    BY <1>1, <1>3, <2>4 DEF FollowInv
  <2>6. S2 # <<>>
    <3>1. sending[c] # <<>> => S2 # <<>>
      BY <1>9
    <3>2. sending[c] = <<>> => S2 = Waiting(pending[c], op)
      BY DEF BoxStep
    <3>3. Waiting(pending[c], op) # <<>>
      BY <1>5, WaitingIs
    <3> QED
      BY <3>1, <3>2, <3>3
  <2>7. OutboxInv(c)'
    <3>1. request'[c] # "failed"
      BY <1>3, <2>1 DEF ClientInv, OutboxInv, Asking
    <3> QED
      BY <1>3, <2>6, <3>1 DEF OutboxInv
  <2> QED
    BY <2>1, <2>2, <2>5, <2>7 DEF ClientInv
<1> QED
  BY <1>1, <1>4, <1>11, <1>12, <1>13, <1>14, <1>15, SameStep

LEMMA SameEdit ==
    ASSUME TypeInv, SameInv, NEW c \in Clients, NEW id \in Ids, NEW path, NEW v, NEW objs, Edits(c, id, path, v, objs)
    PROVE  SameInv'
<1>1. CASE /\ app = "diagram" \/ ~Capturing(c)
           /\ pending' = pending /\ sending' = sending /\ request' = request /\ clock' = clock
  BY <1>1, SameQuiet
<1>2. ASSUME app # "diagram", NEW op \in Ops, NEW P2, NEW S2,
             op.path = path, op.value = v, op.peer = c, IdOf(op) = id,
             clock[c] <= op.ts, clock' = [clock EXCEPT ![c] = op.ts],
             BoxStep(pending[c], sending[c], op, P2, S2),
             pending' = [pending EXCEPT ![c] = P2], sending' = [sending EXCEPT ![c] = S2],
             request' = [request EXCEPT ![c] = Asking(request[c], S2)]
      PROVE  SameInv'
  BY <1>2, SameBoxed
<1>3. \/ /\ app = "diagram" \/ ~Capturing(c)
         /\ pending' = pending /\ sending' = sending /\ request' = request /\ clock' = clock
      \/ /\ app # "diagram"
         /\ \E op \in Ops : \E P2, S2 :
                    /\ op.path = path /\ op.value = v /\ op.peer = c /\ IdOf(op) = id
                    /\ clock[c] <= op.ts /\ clock' = [clock EXCEPT ![c] = op.ts]
                    /\ BoxStep(pending[c], sending[c], op, P2, S2)
                    /\ pending' = [pending EXCEPT ![c] = P2]
                    /\ sending' = [sending EXCEPT ![c] = S2]
                    /\ request' = [request EXCEPT ![c] = Asking(request[c], S2)]
  BY EditBox
<1> QED
  BY <1>1, <1>2, <1>3, Zenon

LEMMA SameEdits ==
    ASSUME TypeInv, SameInv, NEW c \in Clients, AddObject(c) \/ ChangeObject(c) \/ RemoveObject(c)
    PROVE  SameInv'
<1>1. show[c] \in Screens(used)
  BY ClientTypes
<1>2. CASE AddObject(c)
  <2>1. PICK id \in Ids \ used, v \in NewObjects : Edit(c, id, <<id>>, v, <<v>>)
    BY <1>2 DEF AddObject
  <2>2. v \in Values /\ v # Deleted /\ loading' = loading
    BY <1>2, BoundsAssumption DEF Values, AddObject
  <2>3. Edits(c, id, <<id>>, v, <<v>>)
    BY <2>1, <2>2 DEF Edits, Whole, AfterEdit
  <2> QED
    BY <2>1, <2>3, SameEdit
<1>3. CASE ChangeObject(c)
  <2>1. PICK id \in Ids :
          /\ show[c][id] # <<>>
          /\ \E v \in (IF app = "scene" THEN Places ELSE Objects) \ {Head(show[c][id])} :
               Edit(c, id, IF app = "scene" THEN <<id, "position">> ELSE <<id>>, v, [show[c][id] EXCEPT ![1] = v])
    BY <1>3 DEF ChangeObject
  <2>2. PICK v \in (IF app = "scene" THEN Places ELSE Objects) :
               Edit(c, id, IF app = "scene" THEN <<id, "position">> ELSE <<id>>, v, [show[c][id] EXCEPT ![1] = v])
    BY <2>1
  <2>3. v \in Values /\ v # Deleted /\ loading' = loading
    BY <1>3, BoundsAssumption DEF Values, ChangeObject
  <2> DEFINE path == IF app = "scene" THEN <<id, "position">> ELSE <<id>>
             objs == [show[c][id] EXCEPT ![1] = v]
  <2>4. path = IF app = "scene" THEN Place(id) ELSE Whole(id)
    BY DEF Place, Whole
  <2>5. objs \in Seq(Values)
    BY <1>1, <2>3, ScreensAre, Changed
  <2>6. show[c][id] \in OneShown => objs = AfterEdit(v)
    BY <2>1, <2>3, OneShownIs DEF AfterEdit
  <2> HIDE DEF objs
  <2>7. Edit(c, id, path, v, objs)
    BY <2>2 DEF objs
  <2> HIDE DEF path
  <2>8. Edits(c, id, path, v, objs)
    BY <2>1, <2>3, <2>4, <2>5, <2>6, <2>7 DEF Edits
  <2> QED
    BY <2>8, SameEdit
<1>4. CASE RemoveObject(c)
  <2>1. PICK id \in Ids :
          /\ show[c][id] # <<>>
          /\ Edit(c, id, <<id>>, Deleted, Tail(show[c][id]))
          /\ loading' = [loading EXCEPT ![c] = Unplaced(loading[c], id)]
    BY <1>4 DEF RemoveObject
  <2> DEFINE objs == Tail(show[c][id])
  <2>2. objs \in Seq(Values)
    BY <1>1, <2>1, ScreensAre, HeadTailProperties
  <2>3. show[c][id] \in OneShown => objs = AfterEdit(Deleted)
    BY <2>1, OneShownIs DEF AfterEdit
  <2>4. Edit(c, id, <<id>>, Deleted, objs)
    BY <2>1
  <2> HIDE DEF objs
  <2>5. Edits(c, id, <<id>>, Deleted, objs)
    BY <2>1, <2>2, <2>3, <2>4 DEF Edits, Whole
  <2> QED
    BY <2>5, SameEdit
<1> QED
  BY <1>2, <1>3, <1>4

----------------------------------------------------------------------------
\* The diagram writes at the end of a transaction.

\* What it writes of an object.
NewValue(c, i) == IF show[c][i] = <<>> THEN Deleted ELSE Head(show[c][i])
Differing(c) == {i \in Ids : show[c][i] # baseline[c][i]}

LEMMA FinishBox ==
    ASSUME TypeInv, NEW c \in Clients, Finish(c)
    PROVE  \E ops \in Seq(Ops) :
              /\ EnqueueAll(c, ops) /\ WholeOnly(ops) /\ IdsOf(ops) = Differing(c)
              /\ \A i \in Ids : Sets(ops, i, NewValue(c, i))
<1> DEFINE W(now) == {Write(<<i>>, IF show[c][i] = <<>> THEN Deleted ELSE Head(show[c][i]), now, c) : i \in Differing(c)}
<1>1. PICK now \in clock[c]..MaxClock : \E ops \in SetToSeqs(W(now)) : EnqueueAll(c, ops)
  BY DEF Finish, Differing
<1>2. clock[c] \in Nat \ {0}
  BY ClientTypes
<1>3. now \in 1..MaxClock
  BY <1>2, BoundsAssumption
<1>4. PICK ops \in SetToSeqs(W(now)) : EnqueueAll(c, ops)
  BY <1>1
<1>5. W(now) \subseteq Sent(used) /\ IsFiniteSet(W(now))
  BY <1>3, FinishWrites DEF Differing
<1>6. W(now) \subseteq Ops
  BY <1>5 DEF Sent
<1>7. \A x \in W(now) : \E i \in Differing(c) : x.path = Whole(i) /\ x.value = NewValue(c, i) /\ IdOf(x) = i
  <2> SUFFICES ASSUME NEW x \in W(now)
               PROVE  \E i \in Differing(c) : x.path = Whole(i) /\ x.value = NewValue(c, i) /\ IdOf(x) = i
    OBVIOUS
  <2>1. PICK i \in Differing(c) : x = Write(<<i>>, NewValue(c, i), now, c)
    BY DEF NewValue
  <2>2. x.path = <<i>> /\ x.value = NewValue(c, i)
    BY <2>1, WriteIs
  <2> QED
    BY <2>2 DEF Whole, IdOf
<1>8. \A i \in Differing(c) : \E x \in W(now) : IdOf(x) = i
  <2> SUFFICES ASSUME NEW i \in Differing(c) PROVE \E x \in W(now) : IdOf(x) = i
    OBVIOUS
  <2>1. Write(<<i>>, NewValue(c, i), now, c) \in W(now)
    BY DEF NewValue
  <2>2. Write(<<i>>, NewValue(c, i), now, c).path = <<i>>
    BY WriteIs
  <2> QED
    BY <2>1, <2>2 DEF IdOf
<1>9. ops \in Seq(W(now)) /\ \A x \in W(now) : \E k \in 1..Len(ops) : ops[k] = x
  <2> HIDE DEF W
  <2> QED
    BY <1>4, <1>5, Orders, OrdersAll
<1>10. ops \in Seq(Ops)
  <2> HIDE DEF W
  <2> QED
    BY <1>6, <1>9, SeqMonotonic
<1> DEFINE V == W(now)
<1>11. V = W(now)
  OBVIOUS
<1> HIDE DEF W, V
<1>12. Range(ops) = V
  <2>1. Range(ops) \subseteq V
    BY <1>9, <1>11, InSeq
  <2>2. V \subseteq Range(ops)
    BY <1>9, <1>10, <1>11, SeqOps
  <2> QED
    BY <2>1, <2>2
<1>13. \A x \in V : \E i \in Differing(c) : x.path = Whole(i) /\ x.value = NewValue(c, i) /\ IdOf(x) = i
  BY <1>7, <1>11
<1>14. WholeOnly(ops)
  BY <1>10, <1>12, <1>13, SeqOps DEF WholeOnly
<1>15. IdsOf(ops) = Differing(c)
  <2>1. IdsOf(ops) \subseteq Differing(c)
    BY <1>12, <1>13 DEF IdsOf
  <2>2. Differing(c) \subseteq IdsOf(ops)
    BY <1>8, <1>11, <1>12 DEF IdsOf
  <2> QED
    BY <2>1, <2>2
<1>16. \A i \in Ids : Sets(ops, i, NewValue(c, i))
  BY <1>12, <1>13 DEF Sets
<1> QED
  BY <1>4, <1>10, <1>14, <1>15, <1>16

LEMMA SameFinish ==
    ASSUME TypeInv, SameInv, NEW c \in Clients, Finish(c)
    PROVE  SameInv'
<1>1. /\ app' = app /\ app = "diagram" /\ Capturing(c) /\ regs' = regs /\ members' = members /\ contended' = contended
      /\ disturbed' = disturbed /\ show' = show /\ loading' = loading /\ join' = join /\ net' = net
      /\ baseline' = [baseline EXCEPT ![c] = show[c]]
  BY DEF Finish, serverVars
<1>2. /\ pending \in [Clients -> Seq(Sent(used))] /\ sending \in [Clients -> Seq(Sent(used))]
      /\ request \in [Clients -> Requests] /\ clock \in [Clients -> Nat \ {0}] /\ baseline \in [Clients -> Screens(used)]
  BY DEF TypeInv, Typed, ClientsTyped
<1>3. PICK ops \in Seq(Ops) :
              /\ EnqueueAll(c, ops) /\ WholeOnly(ops) /\ IdsOf(ops) = Differing(c)
              /\ \A i \in Ids : Sets(ops, i, NewValue(c, i))
  BY FinishBox
<1>4. /\ pending[c] \in Seq(Ops) /\ sending[c] \in Seq(Ops) /\ (sending[c] = <<>> <=> request[c] = "none")
      /\ app \in Apps
  BY ClientTypes
<1>5. Shaped(app, pending[c], contended) /\ Shaped(app, sending[c], contended)
  BY DEF SameInv, BatchesInv
<1>6. app # "scene"
  BY <1>1
<1>7. PICK P2, S2 :
              /\ pending' = [pending EXCEPT ![c] = P2]
              /\ sending' = [sending EXCEPT ![c] = S2]
              /\ request' = [request EXCEPT ![c] = Asking(request[c], S2)]
              /\ Shaped(app, P2, contended) /\ Shaped(app, S2, contended)
              /\ (sending[c] = <<>> => pending[c] = <<>>)
                    => Enqueues(app, pending[c], sending[c], request[c], ops, P2, S2)
  BY <1>3, <1>4, <1>5, <1>6, EnqueueMany
<1>8. /\ pending'[c] = P2 /\ sending'[c] = S2 /\ request'[c] = Asking(request[c], S2)
      /\ \A d \in Clients \ {c} : pending'[d] = pending[d] /\ sending'[d] = sending[d] /\ request'[d] = request[d]
  BY <1>2, <1>7
<1>9. baseline'[c] = show[c] /\ \A d \in Clients \ {c} : baseline'[d] = baseline[d]
  BY <1>1, <1>2
<1>10. \A d \in Clients \ {c} : clock'[d] = clock[d]
  BY <1>2 DEF Finish
<1>11. \A d \in Clients \ {c} : Untouched(d) /\ (d \in members' <=> d \in members) /\ clock'[d] = clock[d]
  BY <1>1, <1>8, <1>9, <1>10 DEF Untouched
<1>12. /\ Shaped(app, pending[c], contended)' /\ Shaped(app, sending[c], contended)'
       /\ Shaped(app, join[c].snapshot, contended)' /\ \A m \in Range(net'[c]) : Shaped(app', m.ops, contended')
  BY <1>1, <1>7, <1>8, BatchesKept
<1>13. ASSUME c \notin disturbed' PROVE ClientInv(c)'
  <2>1. ClientInv(c)
    BY <1>1, <1>13 DEF SameInv
  <2>2. join[c].step = "done"
    BY <1>1 DEF Capturing
  <2>3. TidyEditor(app, EditorOf(c)) /\ EditorOf(c).show = show[c]
    BY <2>1 DEF ClientInv, EditorInv, EditorOf
  <2>4. \A i \in Ids : show[c][i] \in OneShown
    BY <2>3 DEF TidyEditor
  <2>5. EditorInv(c)'
    BY <1>1, <1>9, <2>3, <2>4 DEF EditorInv, EditorOf
  <2>6. JoinInv(c)'
    BY <1>1, <2>1, <2>2 DEF ClientInv, JoinInv
  <2> DEFINE P == pending[c]
             S == sending[c]
             q == request[c]
             F == Flying(q, S)
             G == Flying(Asking(q, S2), S2)
  <2>7. Enqueues(app, P, S, q, ops, P2, S2)
    BY <1>7, <2>1 DEF ClientInv, OutboxInv
  <2>8. /\ S2 = <<>> => P2 = <<>>
        /\ Queues(P, F, P2, G, IdsOf(ops))
        /\ Keeps(app, F, P, G, P2, IdsOf(ops))
        /\ \A i \in IdsOf(ops) : \A v : Sets(ops, i, v) => Takes(app, G, P2, i, v)
    BY <2>7 DEF Enqueues
  <2>9. OutboxInv(c)'
    <3>1. request'[c] # "failed"
      BY <1>8, <2>1 DEF ClientInv, OutboxInv, Asking
    <3> QED
      BY <1>8, <2>8, <3>1 DEF OutboxInv
  <2>10. InFlight(c) = F /\ InFlight(c)' = G
    BY <1>8 DEF InFlight
  <2>11. FollowInv(c)'
    <3> SUFFICES ASSUME NEW i \in Ids \ contended
                 PROVE  Tracks(app, regs, show[c][i], net[c], G, P2, i)
      BY <1>1, <1>8, <1>9, <2>10 DEF FollowInv, See
    <3>1. Doc(regs, i) \in OneShown
      BY InFlightType
    <3>2. CASE i \in Differing(c)
      <4>1. i \in IdsOf(P2) \cup IdsOf(G)
        BY <1>3, <2>8, <3>2 DEF Queues
      <4>2. Takes(app, G, P2, i, NewValue(c, i))
        BY <1>3, <2>8, <3>2
      <4>3. AfterEdit(NewValue(c, i)) = show[c][i]
        <5>1. show[c][i] # <<>> => Head(show[c][i]) \in Values /\ show[c][i] = <<Head(show[c][i])>>
          BY <2>4, OneShownIs
        <5>2. Deleted \notin Values
          BY OpsAre
        <5>3. CASE show[c][i] = <<>>
          BY <5>3 DEF NewValue, AfterEdit
        <5>4. CASE show[c][i] # <<>>
          BY <5>1, <5>2, <5>4 DEF NewValue, AfterEdit
        <5> QED
          BY <5>3, <5>4
      <4> QED
        BY <3>1, <4>1, <4>2, <4>3 DEF Tracks, Takes
    <3>3. CASE i \notin Differing(c)
      <4>1. Tracks(app, regs, baseline[c][i], net[c], F, P, i)
        BY <1>1, <2>1, <2>2, <2>10 DEF ClientInv, FollowInv, See
      <4>2. baseline[c][i] = show[c][i]
        BY <3>3 DEF Differing
      <4>3. Awaits(app, Doc(regs, i), G, P2, i) = Awaits(app, Doc(regs, i), F, P, i)
        BY <1>3, <2>8, <3>1, <3>3 DEF Keeps
      <4>4. i \in IdsOf(P2) \cup IdsOf(G) <=> i \in IdsOf(P) \cup IdsOf(F)
        BY <1>3, <2>8, <3>3 DEF Queues
      <4> HIDE DEF P, S, q, F, G
      <4> QED
        BY <4>1, <4>2, <4>3, <4>4 DEF Tracks
    <3> QED
      BY <3>2, <3>3
  <2> QED
    BY <2>5, <2>6, <2>9, <2>11 DEF ClientInv
<1>14. contended \subseteq contended' /\ disturbed \subseteq disturbed'
  BY <1>1
<1> QED
  BY <1>1, <1>6, <1>11, <1>12, <1>13, <1>14, SameStep

----------------------------------------------------------------------------
\* A message arrives.

LEMMA RangeFirst ==
    ASSUME NEW T, NEW s \in Seq(T), s # <<>>
    PROVE  /\ \A x \in Range(s) : x = Head(s) \/ x \in Range(Tail(s))
           /\ Head(s) \in Range(s) /\ \A x \in Range(Tail(s)) : x \in Range(s)
<1>1. /\ Len(s) \in Nat \ {0} /\ DOMAIN s = 1..Len(s) /\ Head(s) = s[1] /\ Tail(s) \in Seq(T)
      /\ Len(Tail(s)) = Len(s) - 1 /\ \A k \in 1..Len(Tail(s)) : Tail(s)[k] = s[k + 1]
  <2>1. Len(s) \in Nat /\ DOMAIN s = 1..Len(s)
    BY LenProperties
  <2>2. Len(s) # 0
    BY EmptySeq
  <2> QED
    BY <2>1, <2>2, HeadTailProperties
<1>2. DOMAIN Tail(s) = 1..Len(Tail(s))
  BY <1>1, LenProperties
<1>3. ASSUME NEW x \in Range(s) PROVE x = Head(s) \/ x \in Range(Tail(s))
  <2>1. PICK k \in 1..Len(s) : x = s[k]
    BY <1>1 DEF Range
  <2>2. CASE k = 1
    BY <1>1, <2>1, <2>2
  <2>3. CASE k # 1
    <3>1. k - 1 \in 1..Len(Tail(s)) /\ Tail(s)[k - 1] = s[(k - 1) + 1] /\ (k - 1) + 1 = k
      BY <1>1, <2>1, <2>3
    <3> QED
      BY <1>2, <2>1, <3>1 DEF Range
  <2> QED
    BY <2>2, <2>3
<1>4. ASSUME NEW x \in Range(Tail(s)) PROVE x \in Range(s)
  <2>1. PICK k \in 1..Len(Tail(s)) : x = Tail(s)[k]
    BY <1>2 DEF Range
  <2>2. x = s[k + 1] /\ k + 1 \in 1..Len(s)
    BY <1>1, <2>1
  <2> QED
    BY <1>1, <2>2 DEF Range
<1>5. Head(s) \in Range(s)
  BY <1>1 DEF Range
<1> QED
  BY <1>3, <1>4, <1>5

\* What a message that arrives changes.
LEMMA ReceiveFrame ==
    ASSUME TypeInv, NEW c \in Clients, Receive(c), NEW m, m = Head(net[c]), NEW new, new = ApplyOps(c, m.ops)
    PROVE  /\ net[c] # <<>> /\ m \in Messages(Ids) /\ m \in Range(net[c]) /\ m.ops \in Seq(Ops) /\ m.ops \in Seq(Sent(used))
           /\ app' = app /\ regs' = regs /\ members' = members /\ pending' = pending /\ sending' = sending
           /\ request' = request /\ clock' = clock
           /\ contended' = contended \cup (IdsOf(m.ops) \cap Unsent(c)) /\ disturbed \subseteq disturbed'
           /\ c \notin disturbed' => /\ c \notin disturbed
                                     /\ app = "diagram" => \A i \in Ids : show[c][i] = baseline[c][i]
                                     /\ \A i \in IdsOf(m.ops) : i \notin Busy(EditorOf(c))
           /\ EditorOf(c)' = new /\ baseline'[c] = (IF app = "diagram" THEN new.show ELSE baseline[c])
           /\ net'[c] = Tail(net[c]) /\ join'[c].snapshot = join[c].snapshot
           /\ join'[c].step = join[c].step \/ join'[c].step \in {"loaded", "done"}
           /\ \A d \in Clients \ {c} : Untouched(d)
           /\ new \in Editor
<1> DEFINE mine == IF app = "diagram" THEN {i \in Ids : show[c][i] # baseline[c][i]} ELSE {}
           busy == {x.id : x \in loading[c]}
           to == IF app \in {"canvas", "diagram"} THEN "loaded" ELSE "done"
<1>1. /\ net[c] # <<>> /\ Received(c, m.ops) /\ net' = [net EXCEPT ![c] = Tail(net[c])]
      /\ join' = IF m.type = "join" THEN [join EXCEPT ![c].step = to] ELSE join
      /\ contended' = contended \cup (IdsOf(m.ops) \cap Unsent(c))
      /\ disturbed' = (IF mine # {} \/ IdsOf(m.ops) \cap busy # {} THEN disturbed \cup {c} ELSE disturbed)
      /\ app' = app /\ regs' = regs /\ members' = members /\ pending' = pending /\ sending' = sending
      /\ request' = request /\ clock' = clock
  BY DEF Receive, serverVars, outboxVars
<1>2. m \in Messages(used) /\ m.ops \in Seq(Sent(used))
  BY <1>1, HeadType
<1>3. m \in Messages(Ids) /\ m.ops \in Seq(Ops) /\ m \in Range(net[c])
  <2>1. net[c] \in Seq(Messages(Ids))
    BY ClientTypes
  <2>2. m \in Range(net[c])
    BY <1>1, <2>1, RangeFirst
  <2> QED
    BY <2>1, <2>2, InSeq, MessageIs
<1>4. /\ show' = [show EXCEPT ![c] = new.show] /\ loading' = [loading EXCEPT ![c] = new.loading]
      /\ baseline' = [baseline EXCEPT ![c] = IF app = "diagram" THEN new.show ELSE baseline[c]]
      /\ new \in Editors(used)
  BY <1>1, <1>2, ReceivedType
<1>5. /\ show \in [Clients -> Screens(used)] /\ baseline \in [Clients -> Screens(used)]
      /\ loading \in [Clients -> SUBSET Images(used)]
      /\ net \in [Clients -> Seq(Messages(used))] /\ join \in [Clients -> Joins(used)]
  BY DEF TypeInv, Typed, ClientsTyped, ServerTyped
<1>6. new = [show |-> new.show, loading |-> new.loading] /\ new \in Editor
  BY <1>4, EditorsAre
<1>7. show'[c] = new.show /\ loading'[c] = new.loading
  BY <1>4, <1>5
<1>8. EditorOf(c)' = new
  BY <1>6, <1>7 DEF EditorOf
<1>9. baseline'[c] = (IF app = "diagram" THEN new.show ELSE baseline[c])
  BY <1>4, <1>5
<1>10. /\ \A d \in Clients \ {c} : join'[d] = join[d]
       /\ join'[c].snapshot = join[c].snapshot /\ (join'[c].step = join[c].step \/ join'[c].step \in {"loaded", "done"})
  <2>1. CASE m.type = "join"
    <3>1. join' = [join EXCEPT ![c] = [join[c] EXCEPT !.step = to]]
      BY <1>1, <1>5, <2>1
    <3>2. PICK s \in Steps, o \in Seq(Sent(used)) : join[c] = [step |-> s, snapshot |-> o]
      BY <1>5 DEF Joins
    <3>3. [join[c] EXCEPT !.step = to].step = to /\ [join[c] EXCEPT !.step = to].snapshot = join[c].snapshot
      BY <3>2
    <3> QED
      BY <1>5, <3>1, <3>3
  <2>2. CASE m.type # "join"
    BY <1>1, <2>2
  <2> QED
    BY <2>1, <2>2
<1>11. \A d \in Clients \ {c} : Untouched(d)
  BY <1>1, <1>4, <1>5, <1>10 DEF Untouched
<1>12. c \notin disturbed' => /\ c \notin disturbed
                              /\ app = "diagram" => \A i \in Ids : show[c][i] = baseline[c][i]
                              /\ \A i \in IdsOf(m.ops) : i \notin Busy(EditorOf(c))
  <2>1. Busy(EditorOf(c)) = busy
    BY DEF Busy, EditorOf
  <2> QED
    BY <1>1, <2>1
<1>13. net'[c] = Tail(net[c])
  BY <1>1, <1>5
<1>14. disturbed \subseteq disturbed'
  BY <1>1
<1> QED
  BY <1>1, <1>2, <1>3, <1>6, <1>8, <1>9, <1>10, <1>11, <1>12, <1>13, <1>14

\* What c sees of the objects after the message.
LEMMA ReceiveSees ==
    ASSUME TypeInv, SameInv, NEW c \in Clients, Receive(c), c \notin disturbed', NEW m, m = Head(net[c])
    PROVE  /\ EditorInv(c)'
           /\ \A i \in Ids \ contended : See(c, i)' = Outcome(app, See(c, i), Range(m.ops), i)
<1> DEFINE new == ApplyOps(c, m.ops)
           ed == EditorOf(c)
           b == m.ops
<1>1. /\ m \in Range(net[c]) /\ b \in Seq(Ops) /\ app' = app
      /\ c \notin disturbed
      /\ app = "diagram" => \A i \in Ids : show[c][i] = baseline[c][i]
      /\ \A i \in IdsOf(b) : i \notin Busy(ed)
      /\ EditorOf(c)' = new /\ baseline'[c] = (IF app = "diagram" THEN new.show ELSE baseline[c])
  BY ReceiveFrame
<1>2. ClientInv(c)
  BY <1>1 DEF SameInv
<1>3. ed \in Editor /\ TidyEditor(app, ed) /\ app \in Apps /\ ed.show = show[c]
  BY <1>2, ClientTypes DEF ClientInv, EditorInv, EditorOf
<1>4. Distinct(b) /\ (app # "scene" => WholeOnly(b)) /\ \A i \in Ids \ contended : Ordered(b, i)
  BY <1>1 DEF SameInv, BatchesInv, Shaped
<1>5. \A k \in 1..Len(b) : IdOf(b[k]) \notin Busy(ed)
  <2>1. \A k \in 1..Len(b) : b[k] \in Range(b)
    BY <1>1, SeqOps
  <2> QED
    BY <1>1, <2>1 DEF IdsOf
<1>6. ed = EditorOf(c) /\ new = ApplyOps(c, b)
  OBVIOUS
<1> HIDE DEF new, ed, b
<1>7. /\ new \in Editor /\ TidyEditor(app, new)
      /\ Busy(new) \subseteq Busy(ed) \cup IdsOf(b)
      /\ \A i \in Ids : Ordered(b, i) => SeenIn(new, i) = Outcome(app, SeenIn(ed, i), Range(b), i)
  BY <1>1, <1>3, <1>4, <1>5, <1>6, BatchApplied
<1>8. EditorInv(c)'
  <2>1. app = "diagram" => \A i \in Ids : baseline'[c][i] \in OneShown
    BY <1>1, <1>7 DEF TidyEditor
  <2> QED
    BY <1>1, <1>7, <2>1 DEF EditorInv
<1>9. \A i \in Ids : See(c, i) = SeenIn(ed, i) /\ See(c, i)' = SeenIn(new, i)
  <2> SUFFICES ASSUME NEW i \in Ids PROVE See(c, i) = SeenIn(ed, i) /\ See(c, i)' = SeenIn(new, i)
    OBVIOUS
  <2>1. CASE app = "diagram"
    <3>1. ed.loading = {} /\ new.loading = {}
      BY <1>3, <1>7, <2>1 DEF TidyEditor
    <3>2. SeenIn(ed, i) = ed.show[i] /\ SeenIn(new, i) = new.show[i]
      BY <3>1 DEF SeenIn
    <3>3. See(c, i) = baseline[c][i] /\ See(c, i)' = new.show[i]
      BY <1>1, <2>1 DEF See
    <3>4. ed.show[i] = baseline[c][i]
      BY <1>1, <1>3, <2>1
    <3> QED
      BY <3>2, <3>3, <3>4
  <2>2. CASE app # "diagram"
    BY <1>1, <1>6, <2>2 DEF See
  <2> QED
    BY <2>1, <2>2
<1> QED
  BY <1>4, <1>7, <1>8, <1>9 DEF b

\* How far c follows the object after the message.
LEMMA TracksFirst ==
    ASSUME NEW a, NEW r, NEW i \in Ids, NEW d, d = Doc(r, i), d \in OneShown, NEW see \in OneShown,
           NEW msgs \in Seq(Messages(Ids)), msgs # <<>>, NEW F \in Seq(Ops), NEW P \in Seq(Ops),
           Tracks(a, r, see, msgs, F, P, i),
           NEW m, m = Head(msgs), i \in IdsOf(m.ops) => i \notin IdsOf(P) \cup IdsOf(F),
           NEW see2, see2 = Outcome(a, see, Range(m.ops), i)
    PROVE  Tracks(a, r, see2, Tail(msgs), F, P, i)
<1>1. /\ Tail(msgs) \in Seq(Messages(Ids)) /\ m \in Range(msgs) /\ m \in Messages(Ids)
      /\ \A x \in Range(msgs) : x = m \/ x \in Range(Tail(msgs))
  BY RangeFirst, HeadTailProperties, InSeq
<1>2. m.ops \in Seq(Ops) /\ Range(m.ops) \subseteq Ops
  BY <1>1, MessageIs
<1>3. see2 \in OneShown /\ (i \notin IdsOf(m.ops) => see2 = see)
  <2>1. i \notin IdsOf(m.ops) => \A x \in Range(m.ops) : IdOf(x) # i
    BY DEF IdsOf
  <2> QED
    BY <1>2, <2>1, OutcomeType
<1>4. i \notin IdsOf(P) \cup IdsOf(F) => Chain(a, see2, Tail(msgs), i) = d
  BY ChainFirst DEF Tracks
<1>5. ASSUME i \notin Topics(Tail(msgs)) PROVE see2 = Awaits(a, d, F, P, i)
  <2>1. CASE i \in IdsOf(m.ops)
    <3>1. i \notin IdsOf(P) \cup IdsOf(F)
      BY <2>1
    <3>2. \A x \in Range(Tail(msgs)) : i \notin IdsOf(x.ops)
      BY <1>5 DEF Topics
    <3>3. Chain(a, see2, Tail(msgs), i) = see2
      BY <1>1, <1>3, <3>2, ChainIdle
    <3>4. Awaits(a, d, F, P, i) = d
      BY <3>1, AwaitsType
    <3> QED
      BY <1>4, <3>1, <3>3, <3>4
  <2>2. CASE i \notin IdsOf(m.ops)
    <3>1. i \notin Topics(msgs)
      BY <1>1, <1>5, <2>2 DEF Topics
    <3> QED
      BY <1>3, <2>2, <3>1 DEF Tracks
  <2> QED
    BY <2>1, <2>2
<1> QED
  BY <1>4, <1>5 DEF Tracks

LEMMA SameReceive ==
    ASSUME TypeInv, SameInv, NEW c \in Clients, Receive(c)
    PROVE  SameInv'
<1> DEFINE m == Head(net[c])
           new == ApplyOps(c, m.ops)
<1>1. /\ net[c] # <<>> /\ m \in Messages(Ids) /\ m \in Range(net[c]) /\ m.ops \in Seq(Ops) /\ m.ops \in Seq(Sent(used))
      /\ app' = app /\ regs' = regs /\ members' = members /\ pending' = pending /\ sending' = sending
      /\ request' = request /\ clock' = clock
      /\ contended' = contended \cup (IdsOf(m.ops) \cap Unsent(c)) /\ disturbed \subseteq disturbed'
      /\ c \notin disturbed' => /\ c \notin disturbed
                                /\ app = "diagram" => \A i \in Ids : show[c][i] = baseline[c][i]
                                /\ \A i \in IdsOf(m.ops) : i \notin Busy(EditorOf(c))
      /\ EditorOf(c)' = new /\ baseline'[c] = (IF app = "diagram" THEN new.show ELSE baseline[c])
      /\ net'[c] = Tail(net[c]) /\ join'[c].snapshot = join[c].snapshot
      /\ join'[c].step = join[c].step \/ join'[c].step \in {"loaded", "done"}
      /\ \A d \in Clients \ {c} : Untouched(d)
      /\ new \in Editor
  BY ReceiveFrame
<1>2. contended \subseteq contended' /\ \A d \in Clients \ {c} : Untouched(d) /\ (d \in members' <=> d \in members) /\ clock'[d] = clock[d]
  BY <1>1
<1>3. net[c] \in Seq(Messages(Ids)) /\ \A x \in Range(Tail(net[c])) : x \in Range(net[c])
  BY <1>1, ClientTypes, RangeFirst
<1>4. /\ Shaped(app, pending[c], contended)' /\ Shaped(app, sending[c], contended)'
      /\ Shaped(app, join[c].snapshot, contended)' /\ \A x \in Range(net'[c]) : Shaped(app', x.ops, contended')
  BY <1>1, <1>2, <1>3, BatchesKept
<1>5. /\ pending'[c] = pending[c] /\ sending'[c] = sending[c] /\ request'[c] = request[c] /\ clock'[c] = clock[c]
  BY <1>1
<1>6. /\ app = "scene" => \A op \in Range(pending'[c]) : op.ts <= clock'[c] /\ op.peer = c
      /\ app = "scene" => \A i \in Ids : Adds(pending'[c], i) \/ Adds(InFlight(c)', i) =>
               /\ Adds(pending[c], i) \/ Adds(InFlight(c), i) \/ i \notin used
               /\ Adds(pending'[c], i) => i \notin IdsOf(sending'[c]) \/ (Adds(pending[c], i) /\ sending'[c] = sending[c])
  BY <1>1, <1>5, OutboxKept
<1>7. ASSUME NEW i \in Ids, Unaware(c, i) PROVE Unaware(c, i)'
  <2> DEFINE U == Ids \ {i}
  <2>1. /\ show[c] \in Screens(U) /\ loading[c] \subseteq Images(U) /\ net[c] \in Seq(Messages(U))
        /\ pending[c] \in Seq(Sent(U)) /\ sending[c] \in Seq(Sent(U)) /\ join[c].snapshot \in Seq(Sent(U))
    BY <1>7 DEF Unaware
  <2>2. EditorOf(c) \in Editors(U) /\ app \in Apps
    BY <2>1, EditorIs, ClientTypes DEF EditorOf
  <2>3. m \in Messages(U) /\ Tail(net[c]) \in Seq(Messages(U))
    BY <1>1, <2>1, HeadTailProperties
  <2>4. m.ops \in Seq(Sent(U))
    BY <2>3 DEF Messages
  <2> HIDE DEF U, m
  <2>5. new \in Editors(U)
    BY <2>2, <2>4, ApplyOpsType
  <2>6. new.show \in Screens(U) /\ new.loading \in SUBSET Images(U)
    BY <2>5, EditorsAre
  <2>7. show'[c] = new.show /\ loading'[c] = new.loading
    <3> HIDE DEF new
    <3>1. EditorOf(c)'.show = show'[c] /\ EditorOf(c)'.loading = loading'[c]
      BY DEF EditorOf
    <3> QED
      BY <1>1, <3>1
  <2> QED
    BY <1>1, <2>1, <2>3, <2>6, <2>7 DEF Unaware, U
<1>8. ASSUME c \notin disturbed' PROVE ClientInv(c)'
  <2>1. ClientInv(c)
    BY <1>1, <1>8 DEF SameInv
  <2>2. EditorInv(c)' /\ \A i \in Ids \ contended : See(c, i)' = Outcome(app, See(c, i), Range(m.ops), i)
    BY <1>8, ReceiveSees
  <2>3. OutboxInv(c)' /\ InFlight(c)' = InFlight(c)
    BY <1>1, <2>1 DEF ClientInv, OutboxInv, InFlight
  <2>4. join[c].step \in {"answered", "loaded", "done"}
    <3>1. join[c].step \notin {"asked", "read", "grouped"}
      BY <1>1, <2>1 DEF ClientInv, JoinInv, Blank
    <3>2. join \in [Clients -> Joins(used)]
      BY DEF TypeInv, Typed, ServerTyped
    <3>3. join[c].step \in Steps
      BY <3>2 DEF Joins
    <3> QED
      BY <3>1, <3>3 DEF Steps
  <2>5. JoinInv(c)'
    BY <1>1, <2>1, <2>4 DEF ClientInv, JoinInv
  <2>6. FollowInv(c)'
    <3> SUFFICES ASSUME NEW i \in Ids \ contended'
                 PROVE  Tracks(app, regs, See(c, i)', Tail(net[c]), InFlight(c), pending[c], i)
      BY <1>1, <2>3 DEF FollowInv
    <3>1. i \in Ids \ contended
      BY <1>2
    <3>2. Tracks(app, regs, See(c, i), net[c], InFlight(c), pending[c], i)
      BY <2>1, <2>4, <3>1 DEF ClientInv, FollowInv
    <3>3. See(c, i) \in OneShown /\ Doc(regs, i) \in OneShown
      BY <2>1, SeeType, InFlightType DEF ClientInv
    <3>4. i \in IdsOf(m.ops) => i \notin IdsOf(pending[c]) \cup IdsOf(InFlight(c))
      <4>1. i \in IdsOf(m.ops) => i \notin Unsent(c)
        BY <1>1
      <4> QED
        BY <4>1, InFlightType
    <3>5. InFlight(c) \in Seq(Ops) /\ pending[c] \in Seq(Ops)
      BY InFlightType, ClientTypes
    <3>6. See(c, i)' = Outcome(app, See(c, i), Range(m.ops), i)
      BY <2>2, <3>1
    <3> DEFINE F == InFlight(c)
               P == pending[c]
               msgs == net[c]
               see == See(c, i)
               see2 == See(c, i)'
    <3>7. /\ msgs \in Seq(Messages(Ids)) /\ msgs # <<>> /\ m = Head(msgs) /\ see2 = Outcome(app, see, Range(m.ops), i)
          /\ Tracks(app, regs, see, msgs, F, P, i) /\ see \in OneShown /\ F \in Seq(Ops) /\ P \in Seq(Ops)
          /\ (i \in IdsOf(m.ops) => i \notin IdsOf(P) \cup IdsOf(F))
      BY <1>1, <1>3, <3>2, <3>3, <3>4, <3>5, <3>6
    <3> HIDE DEF F, P, msgs, see, see2, m
    <3>8. Tracks(app, regs, see2, Tail(msgs), F, P, i)
      BY <3>3, <3>7, TracksFirst
    <3> QED
      BY <3>8 DEF F, P, msgs, see2
  <2> QED
    BY <2>2, <2>3, <2>5, <2>6 DEF ClientInv
<1> QED
  BY <1>1, <1>2, <1>4, <1>6, <1>7, <1>8, SameStep

----------------------------------------------------------------------------
\* The server commits a batch.

\* A batch that writes whole objects leaves no property behind.
LEMMA SingleBare ==
    ASSUME NEW r \in Registers, NEW op \in Ops, op.path = Whole(IdOf(op)), NEW written, NEW i \in Ids,
           r[Place(i)] = NoRegister
    PROVE  ApplySingleOp(r, op, written)[Place(i)] = NoRegister
<1>1. op \in Writes /\ IdOf(op) \in Ids
  BY OpsAre, OpIs
<1> DEFINE new == ApplySingleOp(r, op, written)[Place(i)]
           lost == r[Whole(i)] # NoRegister /\ ~WinsLWW(op, r[Whole(i)], FALSE)
<1>2. CASE IdOf(op) = i
  <2>1. lost => new = r[Place(i)]
    BY <1>1, <1>2, SingleWhole
  <2>2. ~lost => new = r[Place(i)]
    BY <1>1, <1>2, SingleUnder
  <2> QED
    BY <2>1, <2>2
<1>3. CASE IdOf(op) # i
  <2>1. op.path # Whole(i) /\ op.path # Place(i)
    BY <1>1, <1>3, OpIs
  <2>2. new = r[Place(i)]
    BY <1>1, <2>1, SingleOther
  <2> QED
    BY <2>2
<1> QED
  BY <1>2, <1>3

LEMMA AppliedBare ==
    ASSUME NEW r \in Documents(Ids), NEW b \in Seq(Ops), WholeOnly(b), NEW i \in Ids, r[Place(i)] = NoRegister
    PROVE  Apply(r, b)[Place(i)] = NoRegister
<1> DEFINE left == Compose(b)
           g == Applying(left)
           T == {op \in Ops : op.path = Whole(IdOf(op))}
           D == {d \in Registers : d[Place(i)] = NoRegister}
<1>1. r \in Registers /\ b \in Seq(Writes) /\ Ops \subseteq Writes
  BY DocumentsAre, SeqOps, OpsAre
<1>2. b \in Seq(T)
  <2>1. \A x \in Range(b) : x \in T
    BY SeqOps DEF WholeOnly
  <2> QED
    BY <2>1, SeqIn
<1>3. Foldable(Registers, Writes, g, r, b)
  BY <1>1, ApplyingIs DEF Foldable
<1>4. \A d \in D : \A op \in T : g[<<d, op>>] \in D
  <2> SUFFICES ASSUME NEW d \in D, NEW op \in T PROVE g[<<d, op>>] \in D
    OBVIOUS
  <2>1. /\ d \in Registers /\ d[Place(i)] = NoRegister /\ op \in Writes /\ op \in Ops /\ op.path = Whole(IdOf(op))
    BY <1>1
  <2>2. /\ g[<<d, op>>] = IF left[op.path] = op THEN ApplySingleOp(d, op, PathsOf(left)) ELSE d
        /\ g[<<d, op>>] \in Registers
    <3>1. g \in [Registers \X Writes -> Registers] /\ <<d, op>> \in Registers \X Writes
      BY <2>1, ApplyingIs
    <3>2. g[<<d, op>>] = IF left[op.path] = op THEN ApplySingleOp(d, op, PathsOf(left)) ELSE d
      BY <2>1, ApplyingIs
    <3> HIDE DEF g
    <3> QED
      BY <3>1, <3>2
  <2>3. ApplySingleOp(d, op, PathsOf(left))[Place(i)] = NoRegister
    BY <2>1, SingleBare
  <2> QED
    BY <2>1, <2>2, <2>3
<1>5. D \in SUBSET Registers /\ T \in SUBSET Writes /\ r \in D
  BY <1>1
<1> HIDE DEF D, T, g, left
<1>6. FoldFn(g, r, b) \in D
  BY <1>2, <1>3, <1>4, <1>5, FoldKept
<1>7. Apply(r, b) = FoldFn(g, r, b)
  BY ApplyIs DEF g, left
<1> QED
  BY <1>6, <1>7 DEF D

\* What a commit changes.
Broadcast(c) == [type |-> "op", ops |-> sending[c]]

LEMMA CommitFrame ==
    ASSUME TypeInv, NEW c \in Clients, Committing(c)
    PROVE  /\ app' = app /\ members' = members /\ show' = show /\ loading' = loading /\ baseline' = baseline
           /\ pending' = pending /\ sending' = sending /\ join' = join /\ clock' = clock
           /\ regs' = Apply(regs, sending[c])
           /\ request[c] = "sent" /\ request'[c] # "sent" /\ (c \notin disturbed' => request'[c] = "done")
           /\ \A d \in Clients \ {c} : request'[d] = request[d]
           /\ net'[c] = net[c] /\ \A d \in Clients : net'[d] \in {net[d], Append(net[d], Broadcast(c))}
           /\ \A d \in Clients \ {c} : d \notin members => net'[d] = net[d]
           /\ \A d \in members \ {c} : d \notin disturbed' => net'[d] = Append(net[d], Broadcast(c))
           /\ contended \subseteq contended'
           /\ \A i \in Ids \ contended' : i \notin IdsOf(sending[c]) \cap Coming(c)
           /\ \A op \in Range(sending[c]) : IdOf(op) \notin contended' => ~LosesTo(regs, op)
           /\ disturbed \subseteq disturbed'
           /\ \A d \in Clients \ {c} : join[d].step \in {"read", "grouped"} => d \in disturbed'
<1> DEFINE Loses(op) == \E p \in Paths : /\ p = op.path \/ Above(p, op.path)
                                         /\ regs[p] # NoRegister
                                         /\ ~WinsLWW(op, regs[p], FALSE)
<1>1. PICK told \in SUBSET (members \ {c}) : CommitBatch(c, told) /\ members \ ({c} \cup told) \subseteq disturbed'
  BY CommittingIs
<1>2. /\ app' = app /\ members' = members /\ show' = show /\ loading' = loading /\ baseline' = baseline
      /\ pending' = pending /\ sending' = sending /\ join' = join /\ clock' = clock
      /\ regs' = Apply(regs, sending[c]) /\ request[c] = "sent"
      /\ contended' = contended \cup (IdsOf(sending[c]) \cap Coming(c))
                               \cup {IdOf(op) : op \in {o \in Range(sending[c]) : Loses(o)}}
  BY <1>1 DEF CommitBatch, editorVars
<1>3. net' = [d \in Clients |-> IF d \in told THEN Append(net[d], Broadcast(c)) ELSE net[d]]
  BY <1>1 DEF CommitBatch, Broadcast
<1>4. PICK to \in {"done", "failed"} : request' = [request EXCEPT ![c] = to] /\ (c \in disturbed' \/ to = "done")
  BY CommittingIs
<1>5. request \in [Clients -> Requests] /\ members \subseteq Clients
  BY DEF TypeInv, Typed, ClientsTyped, ServerTyped
<1>6. /\ request'[c] # "sent" /\ (c \notin disturbed' => request'[c] = "done")
      /\ \A d \in Clients \ {c} : request'[d] = request[d]
  BY <1>4, <1>5
<1>7. /\ net'[c] = net[c] /\ \A d \in Clients : net'[d] \in {net[d], Append(net[d], Broadcast(c))}
      /\ \A d \in Clients \ {c} : d \notin members => net'[d] = net[d]
      /\ \A d \in members \ {c} : d \notin disturbed' => net'[d] = Append(net[d], Broadcast(c))
  BY <1>1, <1>3, <1>5
<1>8. \A op : Loses(op) <=> LosesTo(regs, op)
  BY DEF LosesTo
<1> HIDE DEF Loses
<1>9. \A op \in Range(sending[c]) : IdOf(op) \notin contended' => ~LosesTo(regs, op)
  BY <1>2, <1>8
<1>10. contended \subseteq contended' /\ \A i \in Ids \ contended' : i \notin IdsOf(sending[c]) \cap Coming(c)
  BY <1>2
<1>11. disturbed \subseteq disturbed' /\ \A d \in Clients \ {c} : join[d].step \in {"read", "grouped"} => d \in disturbed'
  BY CommittingIs DEF Missing
<1> QED
  BY <1>2, <1>6, <1>7, <1>9, <1>10, <1>11

\* What it makes of the registers.
LEMMA CommitRegs ==
    ASSUME TypeInv, SameInv, NEW c \in Clients, Committing(c), NEW b, b = sending[c]
    PROVE  /\ b \in Seq(Ops) /\ Shaped(app, b, contended)
           /\ \A i \in Ids : i \notin IdsOf(b) => Doc(regs', i) = Doc(regs, i) /\ (Absent(regs, i) => Absent(regs', i))
           /\ \A i \in Ids \ contended' : Doc(regs', i) = Outcome(app, Doc(regs, i), Range(b), i)
           /\ RegsInv'
<1>1. /\ app' = app /\ regs' = Apply(regs, b) /\ request[c] = "sent" /\ contended \subseteq contended'
      /\ \A op \in Range(b) : IdOf(op) \notin contended' => ~LosesTo(regs, op)
  BY CommitFrame
<1>2. regs \in Documents(Ids) /\ b \in Seq(Ops)
  BY ClientTypes
<1>3. Shaped(app, b, contended)
  BY DEF SameInv, BatchesInv
<1>4. Distinct(b) /\ (app # "scene" => WholeOnly(b)) /\ \A i \in Ids \ contended : Ordered(b, i)
  BY <1>3 DEF Shaped
<1>5. ASSUME NEW i \in Ids, i \notin IdsOf(b)
      PROVE  Doc(regs', i) = Doc(regs, i) /\ (Absent(regs, i) => Absent(regs', i))
  <2> DEFINE new == Apply(regs, b)
  <2>1. new[Whole(i)] = regs[Whole(i)] /\ new[Place(i)] = regs[Place(i)]
    BY <1>2, <1>4, <1>5, AppliedElsewhere
  <2> HIDE DEF new
  <2>2. regs' = new
    BY <1>1 DEF new
  <2>3. Doc(new, i) = Doc(regs, i)
    BY <2>1, DocSame
  <2> QED
    BY <2>1, <2>2, <2>3 DEF Absent
<1>6. ASSUME NEW i \in Ids \ contended'
      PROVE  Doc(regs', i) = Outcome(app, Doc(regs, i), Range(b), i) /\ RegTidy(app', regs', i)
  <2>1. i \in Ids \ contended
    BY <1>1
  <2>2. Ordered(b, i) /\ RegTidy(app, regs, i)
    BY <1>4, <2>1 DEF SameInv, RegsInv
  <2>3. \A op \in Range(b) : IdOf(op) = i => ~LosesTo(regs, op)
    BY <1>1
  <2>4. app = "scene" /\ Adds(b, i) => regs[Whole(i)] = NoRegister /\ regs[Place(i)] = NoRegister
    <3>1. InFlight(c) = b
      BY <1>1 DEF InFlight, Flying
    <3> QED
      BY <3>1 DEF SameInv, PrivateInv, Private, Absent
  <2> DEFINE new == Apply(regs, b)
             a == app
  <2>5. new = Apply(regs, b) /\ regs' = new /\ app' = a
    BY <1>1
  <2>6. (a # "scene" => WholeOnly(b)) /\ RegTidy(a, regs, i)
    BY <1>4, <2>2
  <2>7. a = "scene" /\ Adds(b, i) => regs[Whole(i)] = NoRegister /\ regs[Place(i)] = NoRegister
    BY <2>4
  <2> HIDE DEF new, a
  <2>8. Doc(new, i) = Outcome(a, Doc(regs, i), Range(b), i) /\ RegTidy(a, new, i)
    BY <1>2, <1>4, <2>2, <2>3, <2>5, <2>6, <2>7, Committed
  <2> QED
    BY <2>5, <2>8 DEF a
<1>7. RegsInv'
  <2> SUFFICES ASSUME NEW i \in Ids
               PROVE  (app' # "scene" => regs'[Place(i)] = NoRegister) /\ (i \notin contended' => RegTidy(app', regs', i))
    BY DEF RegsInv
  <2>1. app' # "scene" => regs'[Place(i)] = NoRegister
    BY <1>1, <1>2, <1>4, AppliedBare DEF SameInv, RegsInv
  <2> QED
    BY <1>6, <2>1
<1> QED
  BY <1>2, <1>3, <1>5, <1>6, <1>7

\* One batch more on its way, to an editor that follows the document.
LEMMA TracksAppend ==
    ASSUME NEW a, NEW r, NEW r2, NEW i \in Ids, Doc(r, i) \in OneShown, NEW see \in OneShown,
           NEW msgs \in Seq(Messages(Ids)), NEW F \in Seq(Ops), NEW P \in Seq(Ops),
           Tracks(a, r, see, msgs, F, P, i), NEW m \in Messages(Ids),
           Doc(r2, i) = Outcome(a, Doc(r, i), Range(m.ops), i)
    PROVE  Tracks(a, r2, see, Append(msgs, m), F, P, i)
<1> DEFINE d == Doc(r, i)
<1>1. Chain(a, see, Append(msgs, m), i) = Outcome(a, Chain(a, see, msgs, i), Range(m.ops), i)
  BY ChainAppend
<1>2. i \notin IdsOf(P) \cup IdsOf(F) => Chain(a, see, Append(msgs, m), i) = Doc(r2, i)
  BY <1>1 DEF Tracks
<1>3. ASSUME i \notin Topics(Append(msgs, m)) PROVE see = Awaits(a, Doc(r2, i), F, P, i)
  <2>1. m \in Range(Append(msgs, m)) /\ \A x \in Range(msgs) : x \in Range(Append(msgs, m))
    BY RangeAppend
  <2>2. i \notin IdsOf(m.ops) /\ i \notin Topics(msgs)
    BY <1>3, <2>1 DEF Topics
  <2>3. m.ops \in Seq(Ops) /\ Range(m.ops) \subseteq Ops /\ \A x \in Range(m.ops) : IdOf(x) # i
    BY <2>2, MessageIs DEF IdsOf
  <2>4. Doc(r2, i) = Doc(r, i)
    BY <2>3, OutcomeType
  <2> QED
    BY <2>2, <2>4 DEF Tracks
<1> QED
  BY <1>2, <1>3 DEF Tracks

\* The batch of the client itself, of which no message speaks.
LEMMA TracksOwn ==
    ASSUME NEW a, NEW r, NEW r2, NEW i \in Ids, Doc(r, i) \in OneShown, NEW see \in OneShown,
           NEW msgs \in Seq(Messages(Ids)), NEW F \in Seq(Ops), NEW P \in Seq(Ops),
           Tracks(a, r, see, msgs, F, P, i), i \in IdsOf(F) => i \notin Topics(msgs),
           Doc(r2, i) = Outcome(a, Doc(r, i), Range(F), i)
    PROVE  Tracks(a, r2, see, msgs, <<>>, P, i)
<1> DEFINE d == Doc(r2, i)
<1>1. d \in OneShown /\ Range(F) \subseteq Ops
  BY SeqOps, OutcomeType
<1>2. Range(<<>>) = {} /\ IdsOf(<<>>) = {} /\ Outcome(a, d, {}, i) = d
  BY <1>1, NoneOf
<1>3. Awaits(a, d, <<>>, P, i) = Outcome(a, d, Range(P), i) /\ Awaits(a, Doc(r, i), F, P, i) = Outcome(a, d, Range(P), i)
  BY <1>2 DEF Awaits
<1>4. i \notin Topics(msgs) => see = Awaits(a, d, <<>>, P, i)
  BY <1>3 DEF Tracks
<1>5. ASSUME i \notin IdsOf(P) PROVE Chain(a, see, msgs, i) = d
  <2>1. Outcome(a, d, Range(P), i) = d
    <3>1. Range(P) \subseteq Ops /\ \A x \in Range(P) : IdOf(x) # i
      BY <1>5, SeqOps DEF IdsOf
    <3> HIDE DEF d
    <3> QED
      BY <1>1, <3>1, OutcomeType
  <2>2. CASE i \in IdsOf(F)
    <3>1. i \notin Topics(msgs)
      BY <2>2
    <3>2. \A x \in Range(msgs) : i \notin IdsOf(x.ops)
      BY <3>1 DEF Topics
    <3>3. Chain(a, see, msgs, i) = see
      BY <3>2, ChainIdle
    <3> QED
      BY <1>3, <1>4, <2>1, <3>1, <3>3
  <2>3. CASE i \notin IdsOf(F)
    <3>1. Outcome(a, Doc(r, i), Range(F), i) = Doc(r, i)
      <4>1. \A x \in Range(F) : IdOf(x) # i
        BY <2>3 DEF IdsOf
      <4> QED
        BY <1>1, <4>1, OutcomeType
    <3> QED
      BY <1>5, <2>3, <3>1 DEF Tracks
  <2> QED
    BY <2>2, <2>3
<1> QED
  BY <1>2, <1>4, <1>5 DEF Tracks

\* A client that follows the document does so after the batch of c.
LEMMA CommitFollows ==
    ASSUME TypeInv, SameInv, NEW c \in Clients, Committing(c), NEW d \in Clients, d \notin disturbed'
    PROVE  ClientInv(d)'
<1> DEFINE b == sending[c]
           m == Broadcast(c)
<1>1. /\ app' = app /\ members' = members /\ show' = show /\ loading' = loading /\ baseline' = baseline
      /\ pending' = pending /\ sending' = sending /\ join' = join /\ clock' = clock
      /\ request[c] = "sent" /\ request'[c] # "sent" /\ (c \notin disturbed' => request'[c] = "done")
      /\ \A e \in Clients \ {c} : request'[e] = request[e]
      /\ net'[c] = net[c] /\ \A e \in Clients \ {c} : e \notin members => net'[e] = net[e]
      /\ \A e \in members \ {c} : e \notin disturbed' => net'[e] = Append(net[e], m)
      /\ contended \subseteq contended' /\ disturbed \subseteq disturbed'
      /\ \A i \in Ids \ contended' : i \notin IdsOf(b) \cap Coming(c)
      /\ \A e \in Clients \ {c} : join[e].step \in {"read", "grouped"} => e \in disturbed'
  BY CommitFrame
<1>2. /\ b \in Seq(Ops)
      /\ \A i \in Ids \ contended' : Doc(regs', i) = Outcome(app, Doc(regs, i), Range(b), i)
  BY CommitRegs
<1>3. ClientInv(d)
  BY <1>1 DEF SameInv
<1>4. m \in Messages(Ids) /\ m.ops = b
  BY <1>2, AllIds DEF Messages, Broadcast
<1>5. sending[c] # <<>>
  BY <1>1, ClientTypes
<1>6. EditorOf(d)' = EditorOf(d) /\ \A i : See(d, i)' = See(d, i)
  BY <1>1 DEF EditorOf, See
<1>7. EditorInv(d)' /\ OutboxInv(d)'
  BY <1>1, <1>3, <1>6 DEF ClientInv, EditorInv, OutboxInv
<1>8. join[d].step \in {"asked", "read", "grouped"} => d # c /\ join[d].step = "asked" /\ net'[d] = net[d]
  <2>1. join[d].step \in {"asked", "read", "grouped"} => d # c
    BY <1>3, <1>5 DEF ClientInv, JoinInv, Blank
  <2>2. join[d].step = "asked" => d \notin members
    BY <1>3 DEF ClientInv, JoinInv
  <2> QED
    BY <1>1, <2>1, <2>2
<1>9. JoinInv(d)'
  <2>1. join[d].step \in {"asked", "read", "grouped"} => Blank(d)'
    BY <1>1, <1>3, <1>8 DEF ClientInv, JoinInv, Blank
  <2> QED
    BY <1>1, <1>3, <1>8, <2>1 DEF ClientInv, JoinInv
<1>10. FollowInv(d)'
  <2> SUFFICES ASSUME join[d].step \in {"answered", "loaded", "done"}, NEW i \in Ids \ contended'
               PROVE  Tracks(app, regs', See(d, i), net'[d], InFlight(d)', pending[d], i)
    BY <1>1, <1>6 DEF FollowInv
  <2> DEFINE F == InFlight(d)
             P == pending[d]
             msgs == net[d]
             see == See(d, i)
             r == regs
             r2 == regs'
  <2>1. Tracks(app, r, see, msgs, F, P, i)
    BY <1>1, <1>3 DEF ClientInv, FollowInv
  <2>2. see \in OneShown /\ Doc(r, i) \in OneShown
    BY <1>3, SeeType, InFlightType DEF ClientInv
  <2>3. F \in Seq(Ops) /\ P \in Seq(Ops) /\ msgs \in Seq(Messages(Ids))
    BY InFlightType, ClientTypes
  <2>4. Doc(r2, i) = Outcome(app, Doc(r, i), Range(b), i)
    BY <1>2
  <2>5. d # c => InFlight(d)' = F /\ net'[d] = Append(msgs, m)
    <3>1. d \in members
      BY <1>3 DEF ClientInv, JoinInv
    <3> QED
      BY <1>1, <3>1 DEF InFlight
  <2>6. d = c => /\ F = b /\ InFlight(d)' = <<>> /\ net'[d] = msgs
                 /\ i \in IdsOf(F) => i \notin Topics(msgs)
    <3>1. Coming(c) = Topics(net[c])
      BY InFlightType
    <3> QED
      BY <1>1, <3>1 DEF InFlight, Flying
  <2> HIDE DEF F, P, msgs, see, r, r2, b, m
  <2>7. CASE d = c
    <3>1. Tracks(app, r2, see, msgs, <<>>, P, i)
      BY <2>1, <2>2, <2>3, <2>4, <2>6, <2>7, TracksOwn
    <3> QED
      BY <2>6, <2>7, <3>1 DEF r2, see, P
  <2>8. CASE d # c
    <3>1. Tracks(app, r2, see, Append(msgs, m), F, P, i)
      BY <1>4, <2>1, <2>2, <2>3, <2>4, TracksAppend
    <3> QED
      BY <2>5, <2>8, <3>1 DEF r2, see, P
  <2> QED
    BY <2>7, <2>8
<1> QED
  BY <1>7, <1>9, <1>10 DEF ClientInv

\* A batch that does not speak of the object leaves it private.
LEMMA CommitPrivate ==
    ASSUME TypeInv, SameInv, NEW c \in Clients, Committing(c), NEW d \in Clients, NEW i \in Ids, Private(d, i),
           sending[c] \in Seq(Sent(Ids \ {i}))
    PROVE  Private(d, i)'
<1> DEFINE U == Ids \ {i}
           m == Broadcast(c)
<1>1. /\ show' = show /\ loading' = loading /\ pending' = pending /\ sending' = sending /\ join' = join
      /\ \A e \in Clients : net'[e] \in {net[e], Append(net[e], m)}
  BY CommitFrame
<1>2. m \in Messages(U)
  BY DEF Messages, Broadcast
<1> HIDE DEF m
<1>3. i \notin IdsOf(sending[c])
  <2>1. IdsOf(sending[c]) \subseteq U
    BY IdsOfType
  <2> QED
    BY <2>1
<1>4. Absent(regs, i)'
  BY <1>3, CommitRegs DEF Private, Absent
<1>5. ASSUME NEW e \in Clients \ {d} PROVE Unaware(e, i)'
  <2>1. Unaware(e, i)
    BY <1>5 DEF Private
  <2>2. net[e] \in Seq(Messages(U))
    BY <2>1 DEF Unaware
  <2>3. Append(net[e], m) \in Seq(Messages(U))
    BY <1>2, <2>2, AppendProperties
  <2>4. net'[e] \in Seq(Messages(U))
    BY <1>1, <2>2, <2>3
  <2> QED
    BY <1>1, <2>1, <2>4 DEF Unaware
<1> QED
  BY <1>1, <1>4, <1>5 DEF Private

LEMMA SameCommit ==
    ASSUME TypeInv, SameInv, NEW c \in Clients, Committing(c)
    PROVE  SameInv'
<1>1. /\ app' = app /\ members' = members /\ pending' = pending /\ sending' = sending /\ join' = join /\ clock' = clock
      /\ request[c] = "sent" /\ request'[c] # "sent" /\ \A d \in Clients \ {c} : request'[d] = request[d]
      /\ \A d \in Clients : net'[d] \in {net[d], Append(net[d], Broadcast(c))}
      /\ contended \subseteq contended' /\ disturbed \subseteq disturbed'
  BY CommitFrame
<1>2. sending[c] \in Seq(Ops) /\ Shaped(app, sending[c], contended) /\ RegsInv'
  BY CommitRegs
<1>3. BatchesInv'
  <2> SUFFICES ASSUME NEW d \in Clients
               PROVE  /\ Shaped(app', pending'[d], contended') /\ Shaped(app', sending'[d], contended')
                      /\ Shaped(app', join'[d].snapshot, contended')
                      /\ \A x \in Range(net'[d]) : Shaped(app', x.ops, contended')
    BY DEF BatchesInv
  <2>1. /\ Shaped(app', pending[d], contended') /\ Shaped(app', sending[d], contended')
        /\ Shaped(app', join[d].snapshot, contended')
        /\ \A x \in Range(net[d]) : Shaped(app', x.ops, contended')
        /\ Shaped(app', sending[c], contended')
    BY <1>1, BatchesKept
  <2>2. Broadcast(c) \in Messages(Ids) /\ Broadcast(c).ops = sending[c] /\ net[d] \in Seq(Messages(Ids))
    BY <1>2, AllIds, ClientTypes DEF Messages, Broadcast
  <2>3. \A x \in Range(Append(net[d], Broadcast(c))) : x \in Range(net[d]) \/ x = Broadcast(c)
    BY <2>2, RangeAppend
  <2> QED
    BY <1>1, <2>1, <2>2, <2>3
<1>4. ClocksInv'
  BY <1>1 DEF SameInv, ClocksInv
<1>5. PrivateInv'
  <2> SUFFICES ASSUME app = "scene", NEW d \in Clients, NEW i \in Ids, Adds(pending[d], i) \/ Adds(InFlight(d)', i)
               PROVE  Private(d, i)'
    BY <1>1 DEF PrivateInv
  <2>1. InFlight(c)' = <<>> /\ (d # c => InFlight(d)' = InFlight(d))
    BY <1>1 DEF InFlight, Flying
  <2>2. ~Adds(<<>>, i)
    BY NoneOf
  <2>3. Adds(pending[d], i) \/ (d # c /\ Adds(InFlight(d), i))
    BY <2>1, <2>2
  <2>4. Private(d, i)
    BY <2>3 DEF SameInv, PrivateInv
  <2>5. sending[c] \in Seq(Sent(Ids \ {i}))
    <3>1. CASE d = c
      <4>1. i \notin IdsOf(sending[c])
        BY <2>3, <2>4, <3>1 DEF Private
      <4>2. \A x \in Range(sending[c]) : x \in Ops /\ IdOf(x) \in Ids \ {i}
        BY <1>2, <4>1, SeqOps, OpIs DEF IdsOf
      <4>3. Range(sending[c]) \subseteq Sent(Ids \ {i})
        BY <4>2 DEF Sent
      <4> QED
        BY <1>2, <4>3, SeqIn
    <3>2. CASE d # c
      BY <2>4, <3>2 DEF Private, Unaware
    <3> QED
      BY <3>1, <3>2
  <2> QED
    BY <2>4, <2>5, CommitPrivate
<1>6. \A d \in Clients \ disturbed' : ClientInv(d)'
  BY CommitFollows
<1> QED
  BY <1>2, <1>3, <1>4, <1>5, <1>6 DEF SameInv

----------------------------------------------------------------------------
\* Every step.

LEMMA SameNext == TypeInv /\ SameInv /\ [Next]_vars => SameInv'
<1> SUFFICES ASSUME TypeInv, SameInv, [Next]_vars PROVE SameInv'
  OBVIOUS
<1>1. CASE Next
  <2>1. PICK c \in Clients :
          \/ AddObject(c) \/ ChangeObject(c) \/ RemoveObject(c)
          \/ Refuse(c) \/ FailAfterCommit(c) \/ Reconnect(c) \/ Work(c)
    BY <1>1 DEF Next
  <2>2. CASE AddObject(c) \/ ChangeObject(c) \/ RemoveObject(c)
    BY <2>2, SameEdits
  <2>3. CASE Refuse(c) \/ Reconnect(c)
    BY <2>3, SameRefuse, SameReconnect
  <2>4. CASE ReadDocument(c) \/ AddToGroup(c) \/ AnswerJoin(c)
    BY <2>4, SameReadDocument, SameAddToGroup, SameAnswerJoin
  <2>5. CASE Commit(c) \/ FailAfterCommit(c) \/ Answered(c)
    BY <2>5, SameCommit, SameAnswered DEF Committing
  <2>6. CASE Receive(c) \/ Install(c)
    BY <2>6, SameReceive, SameInstall
  <2>7. CASE Loaded(c) \/ Finish(c)
    BY <2>7, SameLoaded, SameFinish
  <2> QED
    BY <2>1, <2>2, <2>3, <2>4, <2>5, <2>6, <2>7 DEF Work
<1>2. CASE UNCHANGED vars
  <2>1. /\ app' = app /\ regs' = regs /\ members' = members /\ clock' = clock /\ contended' = contended
        /\ disturbed' = disturbed /\ pending' = pending /\ sending' = sending /\ request' = request
        /\ join' = join /\ net' = net /\ \A d : Untouched(d)
    BY <1>2 DEF vars, serverVars, editorVars, outboxVars, Untouched
  <2>2. BatchesInv' /\ ClocksInv' /\ RegsInv'
    BY <2>1 DEF SameInv, BatchesInv, ClocksInv, RegsInv
  <2>3. PrivateInv'
    <3>1. \A d \in Clients, i \in Ids : Unaware(d, i) => Unaware(d, i)'
      BY <2>1, UnawareStays
    <3>2. \A d : InFlight(d)' = InFlight(d)
      BY <2>1, UntouchedIs
    <3>3. \A c \in Clients, i \in Ids : Private(c, i) => Private(c, i)'
      BY <2>1, <3>1 DEF Private, Absent
    <3> QED
      BY <2>1, <3>2, <3>3 DEF SameInv, PrivateInv
  <2>4. \A d \in Clients \ disturbed' : ClientInv(d)'
    BY <2>1, ClientStays DEF SameInv
  <2> QED
    BY <2>2, <2>3, <2>4 DEF SameInv
<1> QED
  BY <1>1, <1>2

\* An undisturbed client shows an object as the server would give it to a client that joins
\* now, once it owes nothing of the object, none of its images is loading and no message is
\* on its way, if the object was only ever written by clients that had seen its latest
\* write, with a later timestamp: the outbox loses no gesture, the batches are merged in
\* order, and the editors apply what the registers say.
THEOREM EveryoneFollows == Spec => []SameAsServer
<1>1. Init => TypeInv /\ SameInv
  BY TypeInit, SameInit
<1>2. TypeInv /\ SameInv /\ [Next]_vars => (TypeInv /\ SameInv)'
  BY TypeStep, SameNext
<1>3. TypeInv /\ SameInv => SameAsServer
  BY FollowsIsSame
<1> QED
  BY <1>1, <1>2, <1>3, PTL DEF Spec

=============================================================================
