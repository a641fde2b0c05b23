--------------------------- MODULE ClientSyncProofs ---------------------------
(***************************************************************************)
(* Proofs about the editors and their connections (ClientSync), for every  *)
(* set of clients, every text and every bound: that an open editor shows   *)
(* the server's text at its revision with what it has not been answered    *)
(* for on top of it.                                                       *)
(***************************************************************************)
EXTENDS ClientSync, TextOtProofs

----------------------------------------------------------------------------
\* Sequences.

LEMMA Appending ==
    ASSUME NEW S, NEW s \in Seq(S), NEW e \in S
    PROVE  /\ Append(s, e) \in Seq(S) /\ Len(Append(s, e)) = Len(s) + 1 /\ Len(s) \in Nat
           /\ \A i \in 1..Len(s) : Append(s, e)[i] = s[i]
           /\ Append(s, e)[Len(s) + 1] = e
BY AppendProperties

LEMMA Pieces ==
    ASSUME NEW S, NEW s \in Seq(S), NEW m \in Nat, NEW n \in Nat, n <= Len(s)
    PROVE  /\ SubSeq(s, m + 1, n) \in Seq(S)
           /\ Len(SubSeq(s, m + 1, n)) = IF m < n THEN n - m ELSE 0
           /\ \A i \in 1..(n - m) : SubSeq(s, m + 1, n)[i] = s[m + i]
<1>1. m + 1 \in Int /\ n \in Int /\ \A i \in (m + 1)..n : s[i] \in S
  OBVIOUS
<1>2. /\ SubSeq(s, m + 1, n) \in Seq(S)
      /\ Len(SubSeq(s, m + 1, n)) = IF m + 1 <= n THEN n - (m + 1) + 1 ELSE 0
      /\ \A i \in 1..(n - (m + 1) + 1) : SubSeq(s, m + 1, n)[i] = s[(m + 1) + i - 1]
  BY <1>1, SubSeqProperties
<1> QED
  BY <1>2

LEMMA SameSequence ==
    ASSUME NEW S, NEW s \in Seq(S), NEW t \in Seq(S), Len(s) = Len(t),
           \A i \in 1..Len(s) : s[i] = t[i]
    PROVE  s = t
OBVIOUS

LEMMA OtherElements ==
    ASSUME NEW S, NEW T, NEW s \in Seq(S), \A i \in 1..Len(s) : s[i] \in T
    PROVE  s \in Seq(T)
OBVIOUS

\* One more element at the end of a piece, and one in front of it.
LEMMA PieceLast ==
    ASSUME NEW S, NEW s \in Seq(S), NEW m \in Nat, NEW n \in Nat, m <= n, n + 1 <= Len(s)
    PROVE  /\ s[n + 1] \in S
           /\ SubSeq(s, m + 1, n + 1) = Append(SubSeq(s, m + 1, n), s[n + 1])
<1> DEFINE a == SubSeq(s, m + 1, n + 1)
           b == SubSeq(s, m + 1, n)
           e == s[n + 1]
<1>0. n + 1 \in Nat /\ n <= Len(s) /\ Len(s) \in Nat /\ e \in S
  OBVIOUS
<1>1. /\ a \in Seq(S) /\ Len(a) = IF m < n + 1 THEN (n + 1) - m ELSE 0
      /\ \A i \in 1..((n + 1) - m) : a[i] = s[m + i]
  BY <1>0, Pieces
<1>2. /\ b \in Seq(S) /\ Len(b) = IF m < n THEN n - m ELSE 0
      /\ \A i \in 1..(n - m) : b[i] = s[m + i]
  BY <1>0, Pieces
<1> HIDE DEF a, b
<1>3. /\ Append(b, e) \in Seq(S) /\ Len(Append(b, e)) = Len(b) + 1
      /\ \A i \in 1..Len(b) : Append(b, e)[i] = b[i]
      /\ Append(b, e)[Len(b) + 1] = e
  BY <1>0, <1>2, Appending
<1>4. Len(b) = n - m /\ Len(a) = (n - m) + 1
  BY <1>1, <1>2
<1>5. \A i \in 1..Len(a) : a[i] = Append(b, e)[i]
  <2> TAKE i \in 1..Len(a)
  <2>1. CASE i <= n - m
    <3>1. i \in 1..(n - m) /\ i \in 1..Len(b) /\ i \in 1..((n + 1) - m)
      BY <2>1, <1>4
    <3> QED
      BY <3>1, <1>1, <1>2, <1>3
  <2>2. CASE i = (n - m) + 1
    <3>1. a[i] = s[m + i] /\ m + i = n + 1
      BY <2>2, <1>1
    <3> QED
      BY <3>1, <2>2, <1>3, <1>4 DEF e
  <2> QED
    BY <2>1, <2>2, <1>4
<1> QED
  BY <1>0, <1>1, <1>3, <1>4, <1>5, SameSequence DEF a, b

LEMMA PieceFirst ==
    ASSUME NEW S, NEW s \in Seq(S), NEW m \in Nat, NEW n \in Nat, m < n, n <= Len(s)
    PROVE  /\ s[m + 1] \in S
           /\ SubSeq(s, m + 1, n) = <<s[m + 1]>> \o SubSeq(s, (m + 1) + 1, n)
<1>1. m + 1 \in 1..Len(s) /\ n \in (m + 1)..Len(s)
  OBVIOUS
<1> QED
  BY <1>1, SubSeqRecursiveFirst

LEMMA PieceEmpty ==
    ASSUME NEW s, NEW m \in Nat, NEW n \in Nat, n <= m
    PROVE  SubSeq(s, m + 1, n) = <<>>
BY SubSeqEmpty

\* What is appended to a sequence does not change its pieces.
LEMMA PieceStays ==
    ASSUME NEW S, NEW s \in Seq(S), NEW e \in S, NEW m \in Nat, NEW n \in Nat, n <= Len(s)
    PROVE  SubSeq(Append(s, e), m + 1, n) = SubSeq(s, m + 1, n)
<1> DEFINE t == Append(s, e)
           a == SubSeq(t, m + 1, n)
           b == SubSeq(s, m + 1, n)
<1>1. t \in Seq(S) /\ Len(t) = Len(s) + 1 /\ Len(s) \in Nat /\ \A i \in 1..Len(s) : t[i] = s[i]
  BY Appending
<1> HIDE DEF t
<1>2. /\ a \in Seq(S) /\ Len(a) = IF m < n THEN n - m ELSE 0
      /\ \A i \in 1..(n - m) : a[i] = t[m + i]
  BY <1>1, Pieces, SMTT(30)
<1>3. /\ b \in Seq(S) /\ Len(b) = IF m < n THEN n - m ELSE 0
      /\ \A i \in 1..(n - m) : b[i] = s[m + i]
  BY Pieces
<1> HIDE DEF a, b
<1>4. \A i \in 1..Len(a) : a[i] = b[i]
  <2> TAKE i \in 1..Len(a)
  <2>1. i \in 1..(n - m) /\ m + i \in 1..Len(s)
    BY <1>1, <1>2
  <2> QED
    BY <2>1, <1>1, <1>2, <1>3
<1>5. a = b
  BY <1>2, <1>3, <1>4, SameSequence
<1> QED
  BY <1>5 DEF a, b, t

----------------------------------------------------------------------------
\* The document after some operations of the log l, and an operation as it is
\* past the operations m + 1 to n of it.

DocOf(l, n) == FoldFn(applied, Seed, SubSeq(l, 0 + 1, n))

Past(l, op, m, n) == FoldFn(overtaken, op, SubSeq(l, m + 1, n))

LEMMA FoldsAre ==
    /\ \A n : DocAt(n) = DocOf(log, n)
    /\ \A op, m : Transformed(op, m) = Past(log, op, m, Len(log))
<1>1. ASSUME NEW n PROVE DocAt(n) = DocOf(log, n)
  <2>1. 0 + 1 = 1
    OBVIOUS
  <2> QED
    BY <2>1, FoldLeftIs DEF DocAt, DocOf, FoldLeft, MapThenFoldSet, FoldFn
<1>2. ASSUME NEW op, NEW m PROVE Transformed(op, m) = Past(log, op, m, Len(log))
  BY FoldLeftIs DEF Transformed, Past, FoldLeft, MapThenFoldSet, FoldFn
<1> QED
  BY <1>1, <1>2

LEMMA AppliedType ==
    /\ applied \in [Seq(Char) \X Op -> Seq(Char)]
    /\ \A t \in Seq(Char), op \in Op : applied[<<t, op>>] = apply(t, op)
<1>1. \A t \in Seq(Char), op \in Op : apply(t, op) \in Seq(Char)
  BY ApplyType
<1> QED
  BY <1>1 DEF applied

LEMMA OvertakenType ==
    /\ overtaken \in [Op \X Op -> Op]
    /\ \A a, b \in Op : overtaken[<<a, b>>] = transform(a, b, "existingWins")
<1>1. \A a, b \in Op : transform(a, b, "existingWins") \in Op
  BY TransformsOf
<1> QED
  BY <1>1 DEF overtaken

LEMMA DocFoldable ==
    ASSUME NEW l \in Seq(Op), NEW n \in Nat, n <= Len(l)
    PROVE  Foldable(Seq(Char), Op, applied, Seed, SubSeq(l, 0 + 1, n))
<1>1. SubSeq(l, 0 + 1, n) \in Seq(Op)
  BY Pieces
<1> QED
  BY <1>1, AppliedType, BoundsAssumption DEF Foldable

LEMMA DocType ==
    ASSUME NEW l \in Seq(Op), NEW n \in Nat, n <= Len(l)
    PROVE  DocOf(l, n) \in Seq(Char)
BY DocFoldable, FoldIn DEF DocOf

LEMMA DocNext ==
    ASSUME NEW l \in Seq(Op), NEW n \in Nat, n + 1 <= Len(l)
    PROVE  l[n + 1] \in Op /\ DocOf(l, n + 1) = apply(DocOf(l, n), l[n + 1])
<1> DEFINE e == l[n + 1]
           s == SubSeq(l, 0 + 1, n)
<1>1. e \in Op /\ SubSeq(l, 0 + 1, n + 1) = Append(s, e) /\ n <= Len(l)
  BY PieceLast
<1>2. Foldable(Seq(Char), Op, applied, Seed, s) /\ DocOf(l, n) \in Seq(Char)
  BY <1>1, DocFoldable, DocType
<1> HIDE DEF e, s
<1>3. FoldFn(applied, Seed, Append(s, e)) = applied[<<FoldFn(applied, Seed, s), e>>]
  BY <1>1, <1>2, FoldAppend
<1>4. DocOf(l, n + 1) = applied[<<DocOf(l, n), e>>]
  BY <1>1, <1>3 DEF DocOf, s
<1> QED
  BY <1>1, <1>2, <1>4, AppliedType DEF e

LEMMA DocStays ==
    ASSUME NEW l \in Seq(Op), NEW e \in Op, NEW n \in Nat, n <= Len(l)
    PROVE  DocOf(Append(l, e), n) = DocOf(l, n)
BY PieceStays, ZenonT(60) DEF DocOf

LEMMA PastFoldable ==
    ASSUME NEW l \in Seq(Op), NEW op \in Op, NEW m \in Nat, NEW n \in Nat, n <= Len(l)
    PROVE  /\ Foldable(Op, Op, overtaken, op, SubSeq(l, m + 1, n))
           /\ Past(l, op, m, n) \in Op
<1>1. SubSeq(l, m + 1, n) \in Seq(Op)
  BY Pieces
<1>2. Foldable(Op, Op, overtaken, op, SubSeq(l, m + 1, n))
  BY <1>1, OvertakenType DEF Foldable
<1> QED
  BY <1>2, FoldIn DEF Past

LEMMA PastNone ==
    ASSUME NEW l, NEW op, NEW m \in Nat, NEW n \in Nat, n <= m
    PROVE  Past(l, op, m, n) = op
BY PieceEmpty, FoldEmpty DEF Past

LEMMA PastFirst ==
    ASSUME NEW l \in Seq(Op), NEW op \in Op, NEW m \in Nat, NEW n \in Nat, m < n, n <= Len(l)
    PROVE  Past(l, op, m, n) = Past(l, transform(op, l[m + 1], "existingWins"), m + 1, n)
<1> DEFINE e == l[m + 1]
           s == SubSeq(l, (m + 1) + 1, n)
<1>1. e \in Op /\ SubSeq(l, m + 1, n) = <<e>> \o s
  BY PieceFirst
<1>2. Foldable(Op, Op, overtaken, op, s)
  <2>1. m + 1 \in Nat
    OBVIOUS
  <2> QED
    BY <2>1, PastFoldable
<1> HIDE DEF e, s
<1>3. FoldFn(overtaken, op, <<e>> \o s) = FoldFn(overtaken, overtaken[<<op, e>>], s)
  BY <1>1, <1>2, FoldCons
<1>4. overtaken[<<op, e>>] = transform(op, e, "existingWins")
  BY <1>1, OvertakenType
<1> QED
  BY <1>1, <1>3, <1>4 DEF Past, e, s

LEMMA PastLast ==
    ASSUME NEW l \in Seq(Op), NEW op \in Op, NEW m \in Nat, NEW n \in Nat, m <= n, n + 1 <= Len(l)
    PROVE  Past(l, op, m, n + 1) = transform(Past(l, op, m, n), l[n + 1], "existingWins")
<1> DEFINE e == l[n + 1]
           s == SubSeq(l, m + 1, n)
<1>1. e \in Op /\ SubSeq(l, m + 1, n + 1) = Append(s, e) /\ n <= Len(l)
  BY PieceLast
<1>2. Foldable(Op, Op, overtaken, op, s) /\ Past(l, op, m, n) \in Op
  BY <1>1, PastFoldable
<1> HIDE DEF e, s
<1>3. FoldFn(overtaken, op, Append(s, e)) = overtaken[<<FoldFn(overtaken, op, s), e>>]
  BY <1>1, <1>2, FoldAppend
<1>4. Past(l, op, m, n + 1) = overtaken[<<Past(l, op, m, n), e>>]
  BY <1>1, <1>3 DEF Past, s
<1> QED
  BY <1>1, <1>2, <1>4, OvertakenType DEF e

LEMMA PastStays ==
    ASSUME NEW l \in Seq(Op), NEW e \in Op, NEW op, NEW m \in Nat, NEW n \in Nat, n <= Len(l)
    PROVE  Past(Append(l, e), op, m, n) = Past(l, op, m, n)
BY PieceStays DEF Past

----------------------------------------------------------------------------
\* The values of the variables.

\* What is told is no later than the log's k operations.
Known(m, k) == m.type # "error" => m.rev <= k

Queue(k) == {q \in Seq(Message) : \A i \in DOMAIN q : Known(q[i], k)}

Answers(k) == {m \in Message : m.type # "op" /\ Known(m, k)}

OpRequest == [type : {"op"}, op : Op, base : Nat]

\* A join is the first request of a connection.
Requests == {u \in Seq(Request) : \A i \in DOMAIN u : i > 1 => u[i] \in OpRequest}

TypeInv ==
    /\ log \in Seq(Op) /\ late \in Seq(OpRequest)
    /\ text \in [Clients -> Seq(Char)] /\ revision \in [Clients -> 0..Len(log)]
    /\ inflight \in [Clients -> Op \cup {Null}] /\ buffer \in [Clients -> Op \cup {Null}]
    /\ phase \in [Clients -> {"joining", "open", "down", "disposed"}]
    /\ up \in [Clients -> Requests]
    /\ net \in [Clients -> Queue(Len(log))]
    /\ owed \in [Clients -> Answers(Len(log)) \cup {Null}]
    /\ members \subseteq Clients /\ disturbed \subseteq Clients
    /\ count \in [edits : 0..MaxEdits, breaks : 0..MaxBreaks, refusals : 0..MaxRefusals]

LEMMA Messages ==
    /\ \A m \in Message : \/ m.type = "op" /\ m.op \in Op /\ m.rev \in Nat
                          \/ m.type = "answer" /\ m.success \in BOOLEAN /\ m.rev \in Nat
                          \/ m.type = "joined" /\ m.text \in Seq(Char) /\ m.rev \in Nat
                          \/ m.type = "error"
    /\ \A op \in Op, n \in Nat : [type |-> "op", op |-> op, rev |-> n] \in Message
    /\ \A b \in BOOLEAN, n \in Nat : Answer(b, n) \in Message
    /\ \A t \in Seq(Char), n \in Nat : [type |-> "joined", text |-> t, rev |-> n] \in Message
    /\ [type |-> "error"] \in Message
BY DEF Message, Answer

LEMMA RequestsAre ==
    /\ \A r \in Request : r = [type |-> "join"] \/ r \in OpRequest
    /\ \A r \in Request : r.type = "op" => r \in OpRequest
    /\ \A r \in OpRequest : r.type = "op" /\ r.op \in Op /\ r.base \in Nat /\ r \in Request
    /\ \A op \in Op, n \in Nat : [type |-> "op", op |-> op, base |-> n] \in OpRequest
    /\ [type |-> "join"] \in Request
BY DEF Request, OpRequest

LEMMA QueueIs ==
    ASSUME NEW k, NEW q
    PROVE  q \in Queue(k) <=> q \in Seq(Message) /\ \A i \in 1..Len(q) : Known(q[i], k)
BY DEF Queue

LEMMA RequestsIs ==
    ASSUME NEW u
    PROVE  u \in Requests <=>
               u \in Seq(Request) /\ \A i \in 1..Len(u) : i > 1 => u[i] \in OpRequest
BY DEF Requests

LEMMA QueueLonger ==
    ASSUME NEW k \in Nat
    PROVE  Queue(k) \subseteq Queue(k + 1) /\ Answers(k) \subseteq Answers(k + 1) /\ <<>> \in Queue(k)
<1>1. \A m \in Message : Known(m, k) => Known(m, k + 1)
  BY Messages DEF Known
<1> QED
  BY <1>1 DEF Queue, Answers

LEMMA QueueAppend ==
    ASSUME NEW k \in Nat, NEW q \in Queue(k), NEW m \in Message, Known(m, k)
    PROVE  Append(q, m) \in Queue(k)
<1>1. q \in Seq(Message) /\ \A i \in 1..Len(q) : Known(q[i], k)
  BY QueueIs
<1>2. /\ Append(q, m) \in Seq(Message) /\ Len(Append(q, m)) = Len(q) + 1 /\ Len(q) \in Nat
      /\ \A i \in 1..Len(q) : Append(q, m)[i] = q[i]
      /\ Append(q, m)[Len(q) + 1] = m
  BY <1>1, Appending
<1>3. \A i \in 1..Len(Append(q, m)) : Known(Append(q, m)[i], k)
  BY <1>1, <1>2
<1> QED
  BY <1>2, <1>3, QueueIs

LEMMA QueueTail ==
    ASSUME NEW k \in Nat, NEW q \in Queue(k), q # <<>>
    PROVE  /\ Head(q) \in Message /\ Known(Head(q), k) /\ Tail(q) \in Queue(k)
           /\ Len(q) \in Nat /\ Len(q) > 0 /\ Head(q) = q[1] /\ Len(Tail(q)) = Len(q) - 1
           /\ \A i \in 1..(Len(q) - 1) : Tail(q)[i] = q[i + 1]
<1>1. q \in Seq(Message) /\ \A i \in 1..Len(q) : Known(q[i], k)
  BY QueueIs
<1>2. /\ Tail(q) \in Seq(Message) /\ Len(Tail(q)) = Len(q) - 1 /\ Head(q) = q[1] /\ Head(q) \in Message
      /\ \A i \in 1..Len(Tail(q)) : Tail(q)[i] = q[i + 1]
      /\ Len(q) \in Nat /\ Len(q) > 0
  BY <1>1, HeadTailProperties
<1>3. \A i \in 1..Len(Tail(q)) : Known(Tail(q)[i], k)
  BY <1>1, <1>2
<1> QED
  <2>1. Tail(q) \in Queue(k)
    BY <1>2, <1>3, QueueIs
  <2> QED
    BY <2>1, <1>1, <1>2

LEMMA RequestsAppend ==
    ASSUME NEW u \in Requests, NEW r \in OpRequest
    PROVE  Append(u, r) \in Requests
<1>1. u \in Seq(Request) /\ r \in Request /\ \A i \in 1..Len(u) : i > 1 => u[i] \in OpRequest
  BY RequestsAre, RequestsIs
<1>2. /\ Append(u, r) \in Seq(Request) /\ Len(Append(u, r)) = Len(u) + 1 /\ Len(u) \in Nat
      /\ \A i \in 1..Len(u) : Append(u, r)[i] = u[i]
      /\ Append(u, r)[Len(u) + 1] = r
  BY <1>1, Appending
<1>3. \A i \in 1..Len(Append(u, r)) : i > 1 => Append(u, r)[i] \in OpRequest
  BY <1>1, <1>2
<1> QED
  BY <1>2, <1>3, RequestsIs

LEMMA RequestsTail ==
    ASSUME NEW u \in Requests, u # <<>>
    PROVE  /\ Head(u) \in Request /\ Head(u) = u[1] /\ Tail(u) \in Seq(OpRequest) /\ Tail(u) \in Requests
           /\ Len(u) \in Nat /\ Len(u) > 0 /\ Len(Tail(u)) = Len(u) - 1
<1>1. u \in Seq(Request) /\ \A i \in 1..Len(u) : i > 1 => u[i] \in OpRequest
  BY RequestsIs
<1>2. /\ Tail(u) \in Seq(Request) /\ Len(Tail(u)) = Len(u) - 1 /\ Head(u) = u[1] /\ Head(u) \in Request
      /\ \A i \in 1..Len(Tail(u)) : Tail(u)[i] = u[i + 1]
      /\ Len(u) \in Nat /\ Len(u) > 0
  BY <1>1, HeadTailProperties
<1>3. \A i \in 1..Len(Tail(u)) : Tail(u)[i] \in OpRequest
  <2> TAKE i \in 1..Len(Tail(u))
  <2>1. i + 1 \in 1..Len(u) /\ i + 1 > 1
    BY <1>2
  <2> QED
    BY <2>1, <1>1, <1>2
<1> HIDE DEF OpRequest
<1>4. Tail(u) \in Seq(OpRequest)
  BY <1>2, <1>3, OtherElements
<1>5. Tail(u) \in Requests
  BY <1>2, <1>3, RequestsIs
<1> QED
  BY <1>2, <1>4, <1>5

LEMMA NoRequests ==
    <<>> \in Requests /\ <<[type |-> "join"]>> \in Requests
<1>1. <<[type |-> "join"]>> \in Seq(Request) /\ Len(<<[type |-> "join"]>>) = 1
  BY RequestsAre
<1>2. <<[type |-> "join"]>> \in Requests
  <2> DEFINE u == <<[type |-> "join"]>>
  <2> HIDE DEF u
  <2>1. u \in Seq(Request) /\ \A i \in 1..Len(u) : i > 1 => u[i] \in OpRequest
    BY <1>1 DEF u
  <2> QED
    BY <2>1, RequestsIs DEF u
<1>3. <<>> \in Seq(Request) /\ \A i \in 1..Len(<<>>) : i > 1 => <<>>[i] \in OpRequest
  OBVIOUS
<1> QED
  BY <1>2, <1>3, RequestsIs

LEMMA TypeInit == Init => TypeInv
<1> SUFFICES ASSUME Init PROVE TypeInv
  OBVIOUS
<1>1. log \in Seq(Op) /\ Len(log) = 0 /\ late \in Seq(OpRequest) /\ <<>> \in Seq(Char)
  BY DEF Init
<1>2. <<>> \in Queue(Len(log)) /\ <<[type |-> "join"]>> \in Requests
  BY <1>1, QueueLonger, NoRequests
<1>3. count \in [edits : 0..MaxEdits, breaks : 0..MaxBreaks, refusals : 0..MaxRefusals]
  BY BoundsAssumption DEF Init
<1> HIDE DEF Op
<1> QED
  BY <1>1, <1>2, <1>3 DEF Init, TypeInv

LEMMA KeystrokeIs ==
    ASSUME NEW n \in Nat, TypeInv, Count("edits"), NEW change \in Keystroke(n)
    PROVE  /\ Event(n, {change}) /\ change \in Change
           /\ count.edits + 1 \in DOMAIN Keys /\ Keys[count.edits + 1] \in Char
           /\ change.text = <<>> \/ change.text = <<Keys[count.edits + 1]>>
<1>1. count.edits \in 0..MaxEdits /\ count.edits < MaxEdits
  BY DEF TypeInv, Count
<1>2. Keys \in Seq(Char) /\ count.edits + 1 \in 1..Len(Keys)
  BY <1>1, BoundsAssumption
<1>3. Keys[count.edits + 1] \in Char
  BY <1>2
<1>4. /\ change \in Change /\ change.rangeOffset + change.rangeLength <= n
      /\ change.text = <<>> \/ change.text = <<Keys[count.edits + 1]>>
  <2> DEFINE key == <<Keys[count.edits + 1]>>
  <2>0. key \in Seq(Char) /\ <<>> \in Seq(Char)
    BY <1>3
  <2> HIDE DEF key
  <2>1. CASE change \in [rangeOffset : 0..n, rangeLength : {0}, text : {key}]
    <3>1. change.rangeOffset \in 0..n /\ change.rangeLength = 0 /\ change.text = key
      BY <2>1
    <3>2. change \in Change
      BY <2>0, <2>1 DEF Change
    <3> QED
      BY <3>1, <3>2 DEF key
  <2>2. CASE change \in [rangeOffset : 0..(n - 1), rangeLength : {1}, text : {<<>>}]
    <3>1. change.rangeOffset \in 0..(n - 1) /\ change.rangeLength = 1 /\ change.text = <<>>
      BY <2>2
    <3> DEFINE Places == 0..(n - 1)
               none == <<>>
    <3>2. Places \subseteq Nat /\ 1 \in Nat /\ none \in Seq(Char)
      OBVIOUS
    <3>3. change \in [rangeOffset : Places, rangeLength : {1}, text : {none}]
      BY <2>2
    <3> HIDE DEF Places, none
    <3>4. change \in Change
      BY <3>2, <3>3 DEF Change
    <3> QED
      BY <3>1, <3>4
  <2> QED
    BY <2>1, <2>2 DEF Keystroke, key
<1>5. Event(n, {change})
  BY <1>4 DEF Event
<1> QED
  BY <1>2, <1>3, <1>4, <1>5

LEMMA Keystrokes ==
    ASSUME NEW n \in Nat, TypeInv, Count("edits"), NEW change \in Keystroke(n)
    PROVE  LET op == fromMonacoChanges({change}) IN op \in Op /\ Reach(op) <= n
BY KeystrokeIs, MonacoType

LEMMA CountType ==
    ASSUME TypeInv, NEW what \in {"edits", "breaks", "refusals"}, Count(what)
    PROVE  count' \in [edits : 0..MaxEdits, breaks : 0..MaxBreaks, refusals : 0..MaxRefusals]
BY BoundsAssumption, SMTT(30) DEF TypeInv, Count

LEMMA SendType ==
    ASSUME NEW u, u = up, up \in [Clients -> Requests], NEW c \in Clients, NEW op \in Op,
           NEW rev \in Nat, SendOp(c, op, rev)
    PROVE  up' \in [Clients -> Requests]
<1> DEFINE r == [type |-> "op", op |-> op, base |-> rev]
<1>1. r \in OpRequest
  BY RequestsAre
<1> HIDE DEF r
<1>2. Append(up[c], r) \in Requests
  BY <1>1, RequestsAppend
<1>3. CASE phase[c] \in {"joining", "open"}
  <2>1. up' = [up EXCEPT ![c] = Append(up[c], r)]
    BY <1>3 DEF SendOp, r
  <2> QED
    BY <1>2, <2>1
<1>4. CASE phase[c] \notin {"joining", "open"}
  BY <1>4 DEF SendOp
<1> QED
  BY <1>3, <1>4

LEMMA ComposeType ==
    ASSUME NEW a \in Op \cup {Null}, NEW b \in Op \cup {Null}
    PROVE  compose(a, b) \in Op \cup {Null}
<1>1. CASE a = Null \/ b = Null
  BY <1>1 DEF compose
<1>2. CASE a # Null /\ b # Null
  <2> DEFINE r == merged[<<a, b>>]
  <2>1. r \in Op
    BY <1>2, Merged DEF Pairs
  <2> HIDE DEF r
  <2>2. compact(r) \in Op
    BY <2>1, CompactEffect
  <2> QED
    BY <1>2, <2>2 DEF compose, r
<1> QED
  BY <1>1, <1>2

LEMMA EditType ==
    ASSUME TypeInv, NEW c \in Clients, Edit(c)
    PROVE  TypeInv'
<1>1. PICK change \in Keystroke(Len(text[c])) :
        LET op == fromMonacoChanges({change})
        IN  /\ text' = [text EXCEPT ![c] = apply(@, op)]
            /\ IF inflight[c] = Null
               THEN /\ inflight' = [inflight EXCEPT ![c] = op]
                    /\ SendOp(c, op, revision[c])
                    /\ UNCHANGED buffer
               ELSE /\ buffer' = [buffer EXCEPT ![c] = compose(@, op)]
                    /\ UNCHANGED <<inflight, up>>
  BY DEF Edit
<1> DEFINE op == fromMonacoChanges({change})
<1>2. text[c] \in Seq(Char) /\ inflight[c] \in Op \cup {Null} /\ buffer[c] \in Op \cup {Null}
      /\ revision[c] \in Nat /\ Len(text[c]) \in Nat
  BY DEF TypeInv
<1>3. op \in Op
  BY <1>2, Keystrokes DEF Edit
<1>4. apply(text[c], op) \in Seq(Char) /\ compose(buffer[c], op) \in Op \cup {Null}
  <2>1. apply(text[c], op) \in Seq(Char)
    BY <1>2, <1>3, ApplyType
  <2>2. compose(buffer[c], op) \in Op \cup {Null}
    BY <1>2, <1>3, ComposeType
  <2> QED
    BY <2>1, <2>2
<1> HIDE DEF op
<1>5. text' \in [Clients -> Seq(Char)]
  BY <1>1, <1>4 DEF TypeInv, op
<1>6. inflight' \in [Clients -> Op \cup {Null}] /\ buffer' \in [Clients -> Op \cup {Null}]
  BY <1>1, <1>3, <1>4 DEF TypeInv, op
<1>7. up' \in [Clients -> Requests]
  BY <1>1, <1>2, <1>3, SendType DEF TypeInv, op
<1>8. count' \in [edits : 0..MaxEdits, breaks : 0..MaxBreaks, refusals : 0..MaxRefusals]
  BY CountType DEF Edit
<1> QED
  BY <1>5, <1>6, <1>7, <1>8 DEF TypeInv, Edit, serverVars

LEMMA NotNull == \A m \in Message : m # Null
BY AnswerAssumption

\* What the answer to an operation and what somebody's operation do to the editor.
LEMMA ReceiveType ==
    ASSUME TypeInv, NEW c \in Clients, Receive(c)
    PROVE  TypeInv'
<1> DEFINE m == Head(net[c])
<1>1. /\ net[c] \in Queue(Len(log)) /\ net[c] # <<>> /\ Len(log) \in Nat
      /\ inflight[c] \in Op \cup {Null} /\ buffer[c] \in Op \cup {Null} /\ text[c] \in Seq(Char)
  BY DEF TypeInv, Receive
<1>2. m \in Message /\ Known(m, Len(log)) /\ Tail(net[c]) \in Queue(Len(log))
  BY <1>1, QueueTail
<1> HIDE DEF m
<1>3. net' \in [Clients -> Queue(Len(log))] /\ log' = log
  BY <1>2 DEF TypeInv, Receive, serverVars
<1>4. /\ m.type = "op" => ReceiveOp(c, m)
      /\ m.type = "answer" => ReceiveAnswer(c, m)
      /\ m.type = "joined" => Seeded(c, m)
      /\ m.type = "error" => SendFails
  BY DEF Receive, m
<1> SUFFICES /\ text' \in [Clients -> Seq(Char)] /\ revision' \in [Clients -> 0..Len(log)]
             /\ inflight' \in [Clients -> Op \cup {Null}] /\ buffer' \in [Clients -> Op \cup {Null}]
             /\ phase' \in [Clients -> {"joining", "open", "down", "disposed"}]
             /\ up' \in [Clients -> Requests]
  BY <1>3 DEF TypeInv, Receive, serverVars
<1>5. CASE m.type = "op"
  <2> DEFINE past1 == IF inflight[c] = Null THEN m.op
                      ELSE transform(m.op, inflight[c], "incomingWins")
             past2 == IF buffer[c] = Null THEN past1
                      ELSE transform(past1, buffer[c], "incomingWins")
             pending == IF buffer[c] = Null THEN Null
                        ELSE transform(buffer[c], past1, "existingWins")
  <2>1. m.op \in Op /\ m.rev \in 0..Len(log)
    BY <1>1, <1>2, <1>5, Messages DEF Known
  <2>2. past1 \in Op
    BY <1>1, <2>1, TransformsOf
  <2> HIDE DEF past1
  <2>3. past2 \in Op /\ pending \in Op \cup {Null}
    BY <1>1, <2>2, TransformsOf
  <2>4. inflight[c] # Null => transform(inflight[c], m.op, "existingWins") \in Op
    BY <1>1, <2>1, TransformsOf
  <2>5. apply(text[c], past2) \in Seq(Char)
    BY <1>1, <2>3, ApplyType
  <2> HIDE DEF past2, pending
  <2>6. /\ inflight' = [inflight EXCEPT ![c] =
                            IF inflight[c] = Null THEN Null
                            ELSE transform(inflight[c], m.op, "existingWins")]
        /\ buffer' = [buffer EXCEPT ![c] = IF isNoOp(pending) THEN Null ELSE pending]
        /\ revision' = [revision EXCEPT ![c] = m.rev]
        /\ text' = [text EXCEPT ![c] = IF isNoOp(past2) THEN text[c] ELSE apply(text[c], past2)]
        /\ UNCHANGED <<phase, up>>
    BY <1>4, <1>5 DEF ReceiveOp, past1, past2, pending
  <2> QED
    BY <1>1, <2>1, <2>3, <2>4, <2>5, <2>6 DEF TypeInv
<1>6. CASE m.type = "answer"
  <2>1. m.rev \in 0..Len(log)
    BY <1>1, <1>2, <1>6, Messages DEF Known
  <2>2. /\ revision' = [revision EXCEPT ![c] = IF m.success \/ m.rev # 0 THEN m.rev ELSE revision[c]]
        /\ inflight' = [inflight EXCEPT ![c] = buffer[c]]
        /\ buffer' = [buffer EXCEPT ![c] = Null]
        /\ IF buffer[c] = Null THEN UNCHANGED up ELSE SendOp(c, buffer[c], revision'[c])
        /\ UNCHANGED <<text, phase>>
    BY <1>4, <1>6 DEF ReceiveAnswer
  <2>3. revision' \in [Clients -> 0..Len(log)] /\ revision'[c] \in Nat
    BY <1>1, <2>1, <2>2 DEF TypeInv
  <2>4. up' \in [Clients -> Requests]
    BY <1>1, <2>2, <2>3, SendType DEF TypeInv
  <2> QED
    BY <1>1, <2>2, <2>3, <2>4 DEF TypeInv
<1>7. CASE m.type = "joined"
  <2>1. m.rev \in 0..Len(log) /\ m.text \in Seq(Char)
    BY <1>1, <1>2, <1>7, Messages DEF Known
  <2> QED
    BY <1>4, <1>7, <2>1 DEF TypeInv, Seeded
<1>8. CASE m.type = "error"
  BY <1>4, <1>8 DEF TypeInv, SendFails, editorVars
<1> QED
  BY <1>2, <1>5, <1>6, <1>7, <1>8, Messages

LEMMA LeftBehindType ==
    ASSUME NEW u \in Requests, NEW n \in 0..Len(u)
    PROVE  LeftBehind(SubSeq(u, 1, n)) \in Seq(OpRequest)
<1> DEFINE v == SubSeq(u, 0 + 1, n)
<1>1. u \in Seq(Request) /\ Len(u) \in Nat /\ \A i \in 1..Len(u) : i > 1 => u[i] \in OpRequest
  BY RequestsIs
<1>2. n \in Nat /\ n <= Len(u)
  BY <1>1
<1>3. /\ v \in Seq(Request) /\ Len(v) = IF 0 < n THEN n - 0 ELSE 0
      /\ \A i \in 1..(n - 0) : v[i] = u[0 + i]
  BY <1>1, <1>2, Pieces
<1> HIDE DEF v
<1>4. v \in Requests
  <2>1. \A i \in 1..Len(v) : i > 1 => v[i] \in OpRequest
    <3> SUFFICES ASSUME NEW i \in 1..Len(v), i > 1 PROVE v[i] \in OpRequest
      OBVIOUS
    <3>1. i \in 1..n /\ i \in 1..Len(u)
      BY <1>1, <1>2, <1>3
    <3> QED
      BY <3>1, <1>1, <1>3
  <2> QED
    BY <1>3, <2>1, RequestsIs
<1>5. LeftBehind(v) \in Seq(OpRequest)
  <2>1. CASE v = <<>>
    <3>1. LeftBehind(v) = <<>>
      BY <2>1 DEF LeftBehind
    <3> QED
      BY <3>1
  <2>2. CASE v # <<>> /\ Head(v).type = "join"
    BY <1>4, <2>2, RequestsTail DEF LeftBehind
  <2>3. CASE v # <<>> /\ Head(v).type # "join"
    <3>1. v[1] \in OpRequest
      BY <1>4, <2>3, RequestsTail, RequestsAre
    <3>2. \A i \in 1..Len(v) : v[i] \in OpRequest
      BY <3>1, <1>4, RequestsIs
    <3>3. v \in Seq(OpRequest)
      BY <1>3, <3>2, OtherElements
    <3> QED
      BY <2>3, <3>3 DEF LeftBehind
  <2> QED
    BY <2>1, <2>2, <2>3
<1>6. v = SubSeq(u, 1, n)
  BY DEF v
<1> QED
  BY <1>5, <1>6

LEMMA HangsType ==
    ASSUME TypeInv, NEW c \in Clients, NEW then \in {"down", "disposed"}, Hangs(c, then)
    PROVE  /\ log' \in Seq(Op) /\ late' \in Seq(OpRequest)
           /\ text' \in [Clients -> Seq(Char)] /\ revision' \in [Clients -> 0..Len(log')]
           /\ inflight' \in [Clients -> Op \cup {Null}] /\ buffer' \in [Clients -> Op \cup {Null}]
           /\ phase' \in [Clients -> {"joining", "open", "down", "disposed"}]
           /\ up' \in [Clients -> Requests]
           /\ net' \in [Clients -> Queue(Len(log'))]
           /\ owed' \in [Clients -> Answers(Len(log')) \cup {Null}]
           /\ members' \subseteq Clients
<1>1. PICK n \in 0..Len(up[c]) : late' = late \o LeftBehind(SubSeq(up[c], 1, n))
  BY DEF Hangs
<1>2. up[c] \in Requests /\ late \in Seq(OpRequest) /\ Len(log) \in Nat
  BY DEF TypeInv
<1>3. LeftBehind(SubSeq(up[c], 1, n)) \in Seq(OpRequest)
  BY <1>2, LeftBehindType
<1>4. late' \in Seq(OpRequest)
  BY <1>1, <1>2, <1>3
<1>5. <<>> \in Requests /\ <<>> \in Queue(Len(log))
  BY <1>2, NoRequests, QueueLonger
<1> QED
  BY <1>4, <1>5 DEF TypeInv, Hangs

LEMMA BreakType ==
    ASSUME TypeInv, NEW c \in Clients, Break(c) \/ Dispose(c)
    PROVE  TypeInv'
<1>1. count' \in [edits : 0..MaxEdits, breaks : 0..MaxBreaks, refusals : 0..MaxRefusals]
  BY CountType DEF Break, Dispose
<1>2. Hangs(c, "down") \/ Hangs(c, "disposed")
  BY DEF Break, Dispose
<1>3. disturbed' \subseteq Clients
  BY DEF Break, Dispose, TypeInv
<1> QED
  BY <1>1, <1>2, <1>3, HangsType DEF TypeInv

LEMMA ReconnectType ==
    ASSUME TypeInv, NEW c \in Clients, Reconnect(c)
    PROVE  TypeInv'
BY NoRequests DEF TypeInv, Reconnect, serverVars

LEMMA TookType ==
    ASSUME TypeInv, NEW c \in Clients, Took(c)
    PROVE  /\ up' \in [Clients -> Requests] /\ Head(up[c]) \in Request
           /\ Head(up[c]).type = "op" => Head(up[c]) \in OpRequest
<1>1. up[c] \in Requests /\ up[c] # <<>>
  BY DEF TypeInv, Took
<1>2. Head(up[c]) \in Request /\ Tail(up[c]) \in Requests
  BY <1>1, RequestsTail
<1> QED
  BY <1>2, RequestsAre DEF TypeInv, Took

LEMMA TransformedType ==
    ASSUME log \in Seq(Op), NEW r \in OpRequest
    PROVE  Transformed(r.op, r.base) \in Op
BY FoldsAre, RequestsAre, PastFoldable

LEMMA CommitType ==
    ASSUME TypeInv, NEW r \in OpRequest, NEW told, NEW lost \in SUBSET Clients, Commit(r, told, lost)
    PROVE  /\ log' \in Seq(Op) /\ Len(log') = Len(log) + 1 /\ Len(log) \in Nat
           /\ revision \in [Clients -> 0..Len(log')]
           /\ net' \in [Clients -> Queue(Len(log'))]
           /\ owed \in [Clients -> Answers(Len(log')) \cup {Null}]
           /\ disturbed' \subseteq Clients
<1> DEFINE op == Transformed(r.op, r.base)
           k == Len(log)
           m == [type |-> "op", op |-> op, rev |-> k + 1]
<1>1. op \in Op
  BY TransformedType DEF TypeInv
<1> HIDE DEF op
<1>2. log' = Append(log, op) /\ log \in Seq(Op)
  BY DEF Commit, op, TypeInv
<1>3. log' \in Seq(Op) /\ Len(log') = k + 1 /\ k \in Nat
  BY <1>1, <1>2, Appending
<1> HIDE DEF k
<1>4. m \in Message /\ Known(m, k + 1)
  BY <1>1, <1>3, Messages DEF Known
<1> HIDE DEF m
<1>5. net \in [Clients -> Queue(k)] /\ owed \in [Clients -> Answers(k) \cup {Null}]
      /\ revision \in [Clients -> 0..k]
  BY DEF TypeInv, k
<1>6. Queue(k) \subseteq Queue(k + 1) /\ Answers(k) \subseteq Answers(k + 1)
  BY <1>3, QueueLonger
<1>7. \A d \in Clients : net[d] \in Queue(k + 1) /\ Append(net[d], m) \in Queue(k + 1)
  <2> TAKE d \in Clients
  <2>1. net[d] \in Queue(k + 1) /\ k + 1 \in Nat
    BY <1>3, <1>5, <1>6
  <2> QED
    BY <2>1, <1>4, QueueAppend
<1>8. net' = [d \in Clients |-> IF d \in told THEN Append(net[d], m) ELSE net[d]]
  BY DEF Commit, m, op, k
<1>9. net' \in [Clients -> Queue(k + 1)]
  BY <1>7, <1>8
<1>10. disturbed' \subseteq Clients
  BY DEF Commit, TypeInv
<1>11. revision \in [Clients -> 0..(k + 1)]
  BY <1>3, <1>5
<1>12. owed \in [Clients -> Answers(k + 1) \cup {Null}]
  BY <1>5, <1>6
<1> QED
  BY <1>3, <1>9, <1>10, <1>11, <1>12 DEF k

LEMMA AnswerType ==
    ASSUME NEW k \in Nat
    PROVE  /\ \A b \in BOOLEAN : Answer(b, k) \in Answers(k)
           /\ [type |-> "error"] \in Answers(k)
           /\ \A t \in Seq(Char) : [type |-> "joined", text |-> t, rev |-> k] \in Answers(k)
BY Messages DEF Answers, Known, Answer

LEMMA ServeJoinType ==
    ASSUME TypeInv, NEW c \in Clients, ServeJoin(c)
    PROVE  TypeInv'
<1>1. up' \in [Clients -> Requests]
  BY TookType DEF ServeJoin
<1>2. log \in Seq(Op) /\ Len(log) \in Nat
  BY DEF TypeInv
<1>3. DocAt(Len(log)) \in Seq(Char)
  BY <1>2, FoldsAre, DocType
<1>4. [type |-> "joined", text |-> DocAt(Len(log)), rev |-> Len(log)] \in Answers(Len(log))
  BY <1>2, <1>3, AnswerType
<1>5. owed' \in [Clients -> Answers(Len(log)) \cup {Null}]
  BY <1>4 DEF TypeInv, ServeJoin
<1> QED
  BY <1>1, <1>5 DEF TypeInv, ServeJoin, Took, editorVars

LEMMA ServeOpType ==
    ASSUME TypeInv, NEW c \in Clients, ServeOp(c)
    PROVE  TypeInv'
<1> DEFINE r == Head(up[c])
<1>1. up' \in [Clients -> Requests] /\ r \in OpRequest
  BY TookType DEF ServeOp
<1>2. Len(log) \in Nat /\ log \in Seq(Op)
  BY DEF TypeInv
<1> HIDE DEF r
<1>3. CASE Absorbed(r)
  <2>1. owed' = [owed EXCEPT ![c] = Answer(TRUE, Len(log))] /\ UNCHANGED <<log, net, disturbed>>
    BY <1>3 DEF ServeOp, r
  <2>2. owed' \in [Clients -> Answers(Len(log)) \cup {Null}]
    BY <1>2, <2>1, AnswerType DEF TypeInv
  <2> QED
    BY <1>1, <2>1, <2>2 DEF TypeInv, ServeOp, Took, editorVars
<1>4. CASE ~Absorbed(r)
  <2>1. Commit(r, members \ {c}, {}) /\ owed' = [owed EXCEPT ![c] = Answer(TRUE, Len(log'))]
    BY <1>4 DEF ServeOp, r
  <2>2. /\ log' \in Seq(Op) /\ Len(log') = Len(log) + 1
        /\ revision \in [Clients -> 0..Len(log')]
        /\ net' \in [Clients -> Queue(Len(log'))]
        /\ owed \in [Clients -> Answers(Len(log')) \cup {Null}]
        /\ disturbed' \subseteq Clients
    BY <1>1, <2>1, CommitType
  <2>3. owed' \in [Clients -> Answers(Len(log')) \cup {Null}]
    <3>1. Len(log') \in Nat
      BY <1>2, <2>2
    <3> DEFINE k == Len(log')
               a == Answer(TRUE, k)
    <3>2. a \in Answers(k)
      BY <3>1, AnswerType
    <3> HIDE DEF a
    <3>3. owed' = [owed EXCEPT ![c] = a] /\ owed \in [Clients -> Answers(k) \cup {Null}]
      BY <2>1, <2>2 DEF a
    <3> HIDE DEF k
    <3>4. owed' \in [Clients -> Answers(k) \cup {Null}]
      BY <3>2, <3>3
    <3> QED
      BY <3>4 DEF k
  <2> QED
    BY <1>1, <2>2, <2>3 DEF TypeInv, ServeOp, Took, editorVars
<1> QED
  BY <1>3, <1>4

LEMMA RefuseType ==
    ASSUME TypeInv, NEW c \in Clients, Refuse(c)
    PROVE  TypeInv'
<1>1. up' \in [Clients -> Requests]
  BY TookType DEF Refuse
<1>2. Len(log) \in Nat
  BY DEF TypeInv
<1>3. \A m \in {[type |-> "error"], Answer(FALSE, Len(log))} : m \in Answers(Len(log))
  BY <1>2, AnswerType
<1>4. owed' \in [Clients -> Answers(Len(log)) \cup {Null}]
  BY <1>3, ZenonT(60) DEF TypeInv, Refuse
<1>5. count' \in [edits : 0..MaxEdits, breaks : 0..MaxBreaks, refusals : 0..MaxRefusals]
  BY CountType DEF Refuse
<1> QED
  BY <1>1, <1>4, <1>5 DEF TypeInv, Refuse, Took, editorVars

LEMMA SendAnswerType ==
    ASSUME TypeInv, NEW c \in Clients, SendAnswer(c)
    PROVE  TypeInv'
<1>1. owed[c] \in Answers(Len(log)) /\ net[c] \in Queue(Len(log)) /\ Len(log) \in Nat
  BY DEF TypeInv, SendAnswer
<1>2. owed[c] \in Message /\ Known(owed[c], Len(log))
  BY <1>1 DEF Answers
<1>3. Append(net[c], owed[c]) \in Queue(Len(log))
  BY <1>1, <1>2, QueueAppend
<1> QED
  BY <1>3 DEF TypeInv, SendAnswer, serverVars, editorVars

LEMMA FailAfterCommitType ==
    ASSUME TypeInv, NEW c \in Clients, FailAfterCommit(c)
    PROVE  TypeInv'
<1> DEFINE r == Head(up[c])
<1>1. up' \in [Clients -> Requests] /\ r \in OpRequest
  BY TookType DEF FailAfterCommit
<1>2. \E told \in {{}, members \ {c}} : Commit(r, told, {c} \cup (members \ told))
  BY DEF FailAfterCommit
<1> HIDE DEF r
<1>3. PICK told \in {{}, members \ {c}} : Commit(r, told, {c} \cup (members \ told))
  BY <1>2
<1>4. {c} \cup (members \ told) \in SUBSET Clients
  BY DEF TypeInv
<1> DEFINE k == Len(log')
<1>5. /\ log' \in Seq(Op) /\ k = Len(log) + 1 /\ Len(log) \in Nat
      /\ revision \in [Clients -> 0..k]
      /\ net' \in [Clients -> Queue(k)]
      /\ owed \in [Clients -> Answers(k) \cup {Null}]
      /\ disturbed' \subseteq Clients
  BY <1>1, <1>3, <1>4, CommitType
<1>6. \A m \in {[type |-> "error"], Answer(FALSE, k)} : m \in Answers(k)
  <2>1. k \in Nat
    BY <1>5
  <2> HIDE DEF k
  <2> QED
    BY <2>1, AnswerType
<1>7. \E m \in {[type |-> "error"], Answer(FALSE, k)} : owed' = [owed EXCEPT ![c] = m]
  BY DEF FailAfterCommit
<1>8. owed' \in [Clients -> Answers(k) \cup {Null}]
  <2> HIDE DEF k
  <2> QED
    BY <1>5, <1>6, <1>7
<1>9. count' \in [edits : 0..MaxEdits, breaks : 0..MaxBreaks, refusals : 0..MaxRefusals]
  BY CountType DEF FailAfterCommit
<1> QED
  BY <1>1, <1>5, <1>8, <1>9 DEF TypeInv, FailAfterCommit, Took, editorVars

LEMMA ServeLateType ==
    ASSUME TypeInv, ServeLate \/ FailLate
    PROVE  TypeInv'
<1> DEFINE r == Head(late)
<1>1. r \in OpRequest /\ late' \in Seq(OpRequest)
  <2>1. late \in Seq(OpRequest) /\ late # <<>> /\ late' = Tail(late)
    BY DEF TypeInv, ServeLate, FailLate
  <2> QED
    BY <2>1, HeadTailProperties
<1>2. /\ UNCHANGED <<editorVars, up, owed, members>>
      /\ \/ UNCHANGED <<log, net, disturbed>>
         \/ \E told \in SUBSET members, lost \in SUBSET Clients : Commit(r, told, lost)
  BY DEF ServeLate, FailLate, TypeInv
<1> HIDE DEF r
<1>0. count' \in [edits : 0..MaxEdits, breaks : 0..MaxBreaks, refusals : 0..MaxRefusals]
  BY CountType DEF ServeLate, FailLate, TypeInv
<1>3. CASE UNCHANGED <<log, net, disturbed>>
  BY <1>0, <1>1, <1>2, <1>3 DEF TypeInv, editorVars
<1>4. CASE \E told \in SUBSET members, lost \in SUBSET Clients : Commit(r, told, lost)
  <2>1. PICK told \in SUBSET members, lost \in SUBSET Clients : Commit(r, told, lost)
    BY <1>4
  <2>2. /\ log' \in Seq(Op) /\ Len(log') = Len(log) + 1
        /\ revision \in [Clients -> 0..Len(log')]
        /\ net' \in [Clients -> Queue(Len(log'))]
        /\ owed \in [Clients -> Answers(Len(log')) \cup {Null}]
        /\ disturbed' \subseteq Clients
    BY <1>1, <2>1, CommitType
  <2> QED
    BY <1>0, <1>1, <1>2, <2>2 DEF TypeInv, editorVars
<1> QED
  BY <1>2, <1>3, <1>4

LEMMA TypeStep ==
    TypeInv /\ [Next]_vars => TypeInv'
<1> SUFFICES ASSUME TypeInv, [Next]_vars PROVE TypeInv'
  OBVIOUS
<1>1. CASE UNCHANGED vars
  BY <1>1 DEF TypeInv, vars, serverVars, editorVars, wire
<1>2. ASSUME NEW c \in Clients, SendAnswer(c) \/ Reconnect(c) \/ ServeJoin(c)
      PROVE  TypeInv'
  BY <1>2, SendAnswerType, ReconnectType, ServeJoinType
<1>3. ASSUME NEW c \in Clients, ServeOp(c) \/ Receive(c)
      PROVE  TypeInv'
  BY <1>3, ServeOpType, ReceiveType
<1>4. CASE ServeLate \/ FailLate
  BY <1>4, ServeLateType
<1>5. ASSUME NEW c \in Clients, Edit(c) \/ Break(c) \/ Dispose(c) \/ Refuse(c)
      PROVE  TypeInv'
  BY <1>5, EditType, BreakType, RefuseType
<1>6. ASSUME NEW c \in Clients, FailAfterCommit(c)
      PROVE  TypeInv'
  BY <1>6, FailAfterCommitType
<1> QED
  BY <1>1, <1>2, <1>3, <1>4, <1>5, <1>6 DEF Next, Work

LEMMA TypeIsOK == TypeInv => TypeOK
<1> SUFFICES ASSUME TypeInv PROVE TypeOK
  OBVIOUS
<1>1. late \in Seq(Request)
  <2>1. \A i \in 1..Len(late) : late[i] \in Request
    BY RequestsAre DEF TypeInv
  <2> QED
    BY <2>1, OtherElements DEF TypeInv
<1>2. up \in [Clients -> Seq(Request)] /\ net \in [Clients -> Seq(Message)]
      /\ owed \in [Clients -> Message \cup {Null}]
  BY DEF TypeInv, Requests, Queue, Answers
<1> QED
  BY <1>1, <1>2 DEF TypeInv, TypeOK

\* The values of the variables (WebSocketTransport.cs:100-197, monaco-collab.js:
\* 84-141): no editor builds on a revision that the log does not have, whatever
\* was lost, refused, or sent late.
THEOREM TypeCorrect == Spec => []TypeOK
BY TypeInit, TypeStep, TypeIsOK, PTL DEF Spec

----------------------------------------------------------------------------
\* What is said of an open editor, whose connection goes by the book: the text
\* t it shows at revision n, with i in flight and b in the buffer.  The log is
\* l, the requests of the editor u, its messages q, and the answer to come o.

News(l, n) == [type |-> "op", op |-> l[n], rev |-> n]

\* After the first k messages, q tells of every operation past revision n.
Tells(l, q, k, n) ==
    /\ Len(q) - k = Len(l) - n /\ n <= Len(l)
    /\ \A j \in (k + 1)..Len(q) : q[j] = News(l, n + (j - k))

\* The answer to the operation in flight is the message p of q: before it are
\* the operations that went before the editor's own, which has become the next
\* one of the log or was absorbed; after it is what has been committed since.
Answered(l, n, i, q, p) ==
    /\ p \in 1..Len(q) /\ q[p].type = "answer" /\ q[p].success /\ q[p].rev \in Nat
    /\ \A j \in 1..(p - 1) : q[j] = News(l, n + j)
    /\ n + (p - 1) <= Len(l)
    /\ Tells(l, q, p, q[p].rev)
    /\ \/ q[p].rev = n + p /\ l[n + p] = Past(l, i, n, n + (p - 1))
       \/ q[p].rev = n + (p - 1) /\ isNoOp(Past(l, i, n, n + (p - 1)))

Coming(q, o) == IF o = Null THEN q ELSE Append(q, o)

Idle(l, n, i, u, q, o) == i = Null /\ u = <<>> /\ o = Null /\ Tells(l, q, 0, n)

\* The request stands for what is in flight, which has moved on meanwhile.
Sent(l, n, i, u, q, o) ==
    /\ i # Null /\ o = Null /\ Tells(l, q, 0, n)
    /\ \E r \in OpRequest :
          u = <<r>> /\ r.base <= n /\ Past(l, r.op, r.base, Len(l)) = Past(l, i, n, Len(l))

Served(l, n, i, u, q, o) ==
    i # Null /\ u = <<>> /\ \E p \in Nat : Answered(l, n, i, Coming(q, o), p)

OnTop(l, t, n, i, b) ==
    /\ t = Effect(Effect(DocOf(l, n), i), b)
    /\ i # Null => Reach(i) <= Len(DocOf(l, n))
    /\ b # Null => i # Null /\ Reach(b) <= Len(Effect(DocOf(l, n), i))

\* A new connection, from its join to the answer.
Entering(l, u, q, o, member) ==
    \/ u = <<[type |-> "join"]>> /\ q = <<>> /\ o = Null /\ ~member
    \/ /\ u = <<>> /\ q = <<>> /\ ~member
       /\ o = [type |-> "joined", text |-> DocOf(l, Len(l)), rev |-> Len(l)]
    \/ /\ u = <<>> /\ o = Null /\ member
       /\ q # <<>> /\ q[1].type = "joined" /\ q[1].text = DocOf(l, q[1].rev)
       /\ Tells(l, q, 1, q[1].rev)

BookOf(l, t, n, i, b, ph, u, q, o, member) ==
    /\ ph = "joining" => Entering(l, u, q, o, member)
    /\ ph = "open" => /\ member /\ OnTop(l, t, n, i, b)
                      /\ Idle(l, n, i, u, q, o) \/ Sent(l, n, i, u, q, o) \/ Served(l, n, i, u, q, o)

Book(c) ==
    BookOf(log, text[c], revision[c], inflight[c], buffer[c], phase[c], up[c], net[c], owed[c],
           c \in members)

BookInv == \A c \in Clients \ disturbed : Book(c)

\* A connection that is not there carries nothing.
AwayInv ==
    \A c \in Clients : phase[c] \in {"down", "disposed"} =>
        up[c] = <<>> /\ net[c] = <<>> /\ owed[c] = Null /\ c \notin members

IInv == TypeInv /\ AwayInv /\ BookInv

----------------------------------------------------------------------------
\* What is told when another operation is committed, and when a message is received.

LEMMA LogGrows ==
    ASSUME NEW l \in Seq(Op), NEW e \in Op
    PROVE  /\ Append(l, e) \in Seq(Op) /\ Len(Append(l, e)) = Len(l) + 1 /\ Len(l) \in Nat
           /\ \A n \in 1..Len(l) : News(Append(l, e), n) = News(l, n)
           /\ News(Append(l, e), Len(l) + 1) = [type |-> "op", op |-> e, rev |-> Len(l) + 1]
           /\ News(Append(l, e), Len(l) + 1) \in Message
<1>1. /\ Append(l, e) \in Seq(Op) /\ Len(Append(l, e)) = Len(l) + 1 /\ Len(l) \in Nat
      /\ \A n \in 1..Len(l) : Append(l, e)[n] = l[n]
      /\ Append(l, e)[Len(l) + 1] = e
  BY Appending
<1>2. [type |-> "op", op |-> e, rev |-> Len(l) + 1] \in Message
  BY <1>1, Messages
<1> QED
  BY <1>1, <1>2 DEF News

LEMMA TellsMore ==
    ASSUME NEW l \in Seq(Op), NEW e \in Op, NEW q \in Seq(Message), NEW k \in Nat, NEW n \in Nat,
           k <= Len(q), Tells(l, q, k, n)
    PROVE  Tells(Append(l, e), Append(q, News(Append(l, e), Len(l) + 1)), k, n)
<1> DEFINE g == Append(l, e)
           m == News(g, Len(l) + 1)
           s == Append(q, m)
<1>1. /\ Len(g) = Len(l) + 1 /\ Len(l) \in Nat /\ m \in Message
      /\ \A j \in 1..Len(l) : News(g, j) = News(l, j)
  BY LogGrows
<1> HIDE DEF g
<1>2. m = News(g, Len(l) + 1)
  OBVIOUS
<1> HIDE DEF m
<1>3. /\ Len(s) = Len(q) + 1 /\ Len(q) \in Nat /\ s[Len(q) + 1] = m
      /\ \A j \in 1..Len(q) : s[j] = q[j]
  BY <1>1, Appending
<1> HIDE DEF s
<1>4. Len(q) - k = Len(l) - n /\ n <= Len(l) /\ \A j \in (k + 1)..Len(q) : q[j] = News(l, n + (j - k))
  BY DEF Tells
<1>5. \A j \in (k + 1)..Len(s) : s[j] = News(g, n + (j - k))
  <2> TAKE j \in (k + 1)..Len(s)
  <2>1. CASE j = Len(q) + 1
    <3>1. n + (j - k) = Len(l) + 1
      BY <2>1, <1>1, <1>3, <1>4
    <3> QED
      BY <3>1, <2>1, <1>2, <1>3
  <2>2. CASE j # Len(q) + 1
    <3>1. j \in (k + 1)..Len(q) /\ j \in 1..Len(q) /\ n + (j - k) \in 1..Len(l)
      BY <2>2, <1>1, <1>3, <1>4
    <3> QED
      BY <3>1, <1>1, <1>3, <1>4
  <2> QED
    BY <2>1, <2>2
<1>6. Tells(g, s, k, n)
  <2>1. Len(s) - k = Len(g) - n /\ n <= Len(g)
    BY <1>1, <1>3, <1>4
  <2> QED
    BY <2>1, <1>5 DEF Tells
<1> QED
  BY <1>6 DEF s, m, g

LEMMA TellsNext ==
    ASSUME NEW l \in Seq(Op), NEW q \in Seq(Message), q # <<>>, NEW n \in Nat, Tells(l, q, 0, n)
    PROVE  n + 1 <= Len(l) /\ Head(q) = News(l, n + 1) /\ Tells(l, Tail(q), 0, n + 1)
<1>1. /\ Len(q) \in Nat /\ Len(q) > 0 /\ Head(q) = q[1] /\ Len(Tail(q)) = Len(q) - 1
      /\ \A j \in 1..Len(Tail(q)) : Tail(q)[j] = q[j + 1]
  BY HeadTailProperties
<1>2. Len(q) - 0 = Len(l) - n /\ \A j \in (0 + 1)..Len(q) : q[j] = News(l, n + (j - 0))
  BY DEF Tells
<1>3. Len(l) \in Nat
  OBVIOUS
<1>4. n + 1 <= Len(l) /\ Len(Tail(q)) - 0 = Len(l) - (n + 1)
  BY <1>1, <1>2, <1>3
<1>5. Head(q) = News(l, n + 1)
  <2>1. 1 \in (0 + 1)..Len(q) /\ n + (1 - 0) = n + 1
    BY <1>1
  <2> QED
    BY <2>1, <1>1, <1>2
<1>6. \A j \in (0 + 1)..Len(Tail(q)) : Tail(q)[j] = News(l, (n + 1) + (j - 0))
  <2> TAKE j \in (0 + 1)..Len(Tail(q))
  <2>1. /\ j \in 1..Len(Tail(q)) /\ j + 1 \in (0 + 1)..Len(q)
        /\ n + ((j + 1) - 0) = (n + 1) + (j - 0)
    BY <1>1
  <2> QED
    BY <2>1, <1>1, <1>2
<1> QED
  BY <1>4, <1>5, <1>6 DEF Tells

LEMMA TellsShift ==
    ASSUME NEW l \in Seq(Op), NEW q \in Seq(Message), NEW k \in Nat, k + 1 <= Len(q), NEW n \in Nat,
           Tells(l, q, k + 1, n)
    PROVE  Tells(l, Tail(q), k, n)
<1>1. q # <<>> /\ Len(q) \in Nat
  OBVIOUS
<1>2. /\ Len(Tail(q)) = Len(q) - 1 /\ \A j \in 1..Len(Tail(q)) : Tail(q)[j] = q[j + 1]
  BY <1>1, HeadTailProperties
<1>3. /\ Len(q) - (k + 1) = Len(l) - n /\ n <= Len(l)
      /\ \A j \in ((k + 1) + 1)..Len(q) : q[j] = News(l, n + (j - (k + 1)))
  BY DEF Tells
<1>4. Len(l) \in Nat
  OBVIOUS
<1>5. \A j \in (k + 1)..Len(Tail(q)) : Tail(q)[j] = News(l, n + (j - k))
  <2> TAKE j \in (k + 1)..Len(Tail(q))
  <2>1. /\ j \in 1..Len(Tail(q)) /\ j + 1 \in ((k + 1) + 1)..Len(q)
        /\ n + ((j + 1) - (k + 1)) = n + (j - k)
    BY <1>1, <1>2
  <2> QED
    BY <2>1, <1>2, <1>3
<1>6. Len(Tail(q)) - k = Len(l) - n
  BY <1>1, <1>2, <1>3, <1>4
<1> QED
  BY <1>3, <1>5, <1>6 DEF Tells

LEMMA AnsweredMore ==
    ASSUME NEW l \in Seq(Op), NEW e \in Op, NEW n \in Nat, NEW i \in Op, NEW q \in Seq(Message),
           NEW p \in Nat, Answered(l, n, i, q, p)
    PROVE  Answered(Append(l, e), n, i, Append(q, News(Append(l, e), Len(l) + 1)), p)
<1> DEFINE g == Append(l, e)
           m == News(g, Len(l) + 1)
           s == Append(q, m)
<1>1. /\ Len(g) = Len(l) + 1 /\ Len(l) \in Nat /\ m \in Message
      /\ \A j \in 1..Len(l) : News(g, j) = News(l, j)
      /\ \A j \in 1..Len(l) : g[j] = l[j]
  <2>1. \A j \in 1..Len(l) : g[j] = l[j]
    BY Appending
  <2> QED
    BY <2>1, LogGrows
<1>2. /\ Len(s) = Len(q) + 1 /\ Len(q) \in Nat /\ \A j \in 1..Len(q) : s[j] = q[j]
  BY <1>1, Appending
<1>3. /\ p \in 1..Len(q) /\ q[p].type = "answer" /\ q[p].success /\ q[p].rev \in Nat
      /\ \A j \in 1..(p - 1) : q[j] = News(l, n + j)
      /\ n + (p - 1) <= Len(l) /\ Tells(l, q, p, q[p].rev)
  BY DEF Answered
<1>4. \/ q[p].rev = n + p /\ l[n + p] = Past(l, i, n, n + (p - 1))
      \/ q[p].rev = n + (p - 1) /\ isNoOp(Past(l, i, n, n + (p - 1)))
  BY DEF Answered
<1>5. n + (p - 1) \in Nat /\ Past(g, i, n, n + (p - 1)) = Past(l, i, n, n + (p - 1))
  <2>1. n + (p - 1) \in Nat
    BY <1>3
  <2> QED
    BY <2>1, <1>3, PastStays
<1>6. Tells(g, s, p, q[p].rev)
  <2>1. p <= Len(q)
    BY <1>2, <1>3
  <2> QED
    BY <2>1, <1>3, TellsMore
<1>7. q[p].rev <= Len(l)
  BY <1>3 DEF Tells
<1>8. q[p].rev = n + p => n + p \in 1..Len(l)
  BY <1>3, <1>5, <1>7
<1> HIDE DEF g, s, m
<1>9. s[p] = q[p] /\ p \in 1..Len(s)
  BY <1>2, <1>3
<1>10. \A j \in 1..(p - 1) : s[j] = News(g, n + j)
  <2> TAKE j \in 1..(p - 1)
  <2>1. j \in 1..Len(q) /\ n + j \in 1..Len(l)
    BY <1>1, <1>2, <1>3
  <2> QED
    BY <2>1, <1>1, <1>2, <1>3
<1>11. n + (p - 1) <= Len(g)
  BY <1>1, <1>3, <1>5
<1>12. Answered(g, n, i, s, p)
  BY <1>1, <1>3, <1>4, <1>5, <1>6, <1>8, <1>9, <1>10, <1>11 DEF Answered
<1> QED
  BY <1>12 DEF g, s, m

LEMMA AnsweredNext ==
    ASSUME NEW l \in Seq(Op), NEW n \in Nat, NEW i \in Op, NEW q \in Seq(Message),
           NEW p \in Nat, Answered(l, n, i, q, p), p # 1
    PROVE  /\ n + 1 <= Len(l) /\ Head(q) = News(l, n + 1)
           /\ Answered(l, n + 1, transform(i, l[n + 1], "existingWins"), Tail(q), p - 1)
<1> DEFINE e == l[n + 1]
           k == transform(i, e, "existingWins")
           x == p - 1
           s == Tail(q)
<1>1. /\ p \in 1..Len(q) /\ q[p].type = "answer" /\ q[p].success /\ q[p].rev \in Nat
      /\ \A j \in 1..(p - 1) : q[j] = News(l, n + j)
      /\ n + (p - 1) <= Len(l) /\ Tells(l, q, p, q[p].rev)
  BY DEF Answered
<1>2. \/ q[p].rev = n + p /\ l[n + p] = Past(l, i, n, n + (p - 1))
      \/ q[p].rev = n + (p - 1) /\ isNoOp(Past(l, i, n, n + (p - 1)))
  BY DEF Answered
<1>3. q # <<>> /\ Len(q) \in Nat /\ Len(l) \in Nat
  BY <1>1
<1>4. /\ Len(s) = Len(q) - 1 /\ Head(q) = q[1] /\ \A j \in 1..Len(s) : s[j] = q[j + 1]
  BY <1>3, HeadTailProperties
<1>5. x \in Nat /\ x >= 1 /\ p = x + 1 /\ n + 1 <= Len(l) /\ 1 \in 1..(p - 1)
  BY <1>1, <1>3
<1>6. Head(q) = News(l, n + 1)
  BY <1>1, <1>4, <1>5
<1>7. Past(l, i, n, n + (p - 1)) = Past(l, k, n + 1, n + (p - 1))
  <2>1. n < n + (p - 1) /\ n + (p - 1) \in Nat
    BY <1>5
  <2> QED
    BY <2>1, <1>1, PastFirst
<1>8. Tells(l, s, x, q[p].rev)
  <2>1. x + 1 <= Len(q) /\ Tells(l, q, x + 1, q[p].rev)
    BY <1>1, <1>3, <1>5
  <2> QED
    BY <2>1, <1>1, <1>5, TellsShift
<1> HIDE DEF e, k, s
<1>9. x \in 1..Len(s) /\ s[x] = q[p]
  BY <1>1, <1>3, <1>4, <1>5
<1>10. (n + 1) + (x - 1) = n + (p - 1) /\ (n + 1) + x = n + p
  BY <1>5
<1>11. \A j \in 1..(x - 1) : s[j] = News(l, (n + 1) + j)
  <2> TAKE j \in 1..(x - 1)
  <2>1. j \in 1..Len(s) /\ j + 1 \in 1..(p - 1) /\ n + (j + 1) = (n + 1) + j
    BY <1>5, <1>9, <1>3, <1>4
  <2> QED
    BY <2>1, <1>1, <1>4
<1> HIDE DEF x
<1>12. Answered(l, n + 1, k, s, x)
  BY <1>1, <1>2, <1>7, <1>8, <1>9, <1>10, <1>11 DEF Answered
<1> QED
  BY <1>5, <1>6, <1>12 DEF e, k, s, x

LEMMA AnsweredNow ==
    ASSUME NEW l \in Seq(Op), NEW n \in Nat, NEW i \in Op, NEW q \in Seq(Message),
           Answered(l, n, i, q, 1)
    PROVE  /\ q # <<>> /\ Head(q) = q[1] /\ q[1].type = "answer" /\ q[1].success /\ q[1].rev \in Nat
           /\ q[1].rev <= Len(l) /\ Tells(l, Tail(q), 0, q[1].rev)
           /\ \/ q[1].rev = n + 1 /\ n + 1 <= Len(l) /\ l[n + 1] = i
              \/ q[1].rev = n /\ isNoOp(i)
<1>1. /\ 1 \in 1..Len(q) /\ q[1].type = "answer" /\ q[1].success /\ q[1].rev \in Nat
      /\ n + (1 - 1) <= Len(l) /\ Tells(l, q, 1, q[1].rev)
      /\ \/ q[1].rev = n + 1 /\ l[n + 1] = Past(l, i, n, n + (1 - 1))
         \/ q[1].rev = n + (1 - 1) /\ isNoOp(Past(l, i, n, n + (1 - 1)))
  BY DEF Answered
<1>2. n + (1 - 1) = n /\ Past(l, i, n, n) = i
  BY PastNone
<1>3. q # <<>> /\ Head(q) = q[1] /\ q[1].rev <= Len(l)
  <2>1. q # <<>>
    BY <1>1
  <2> QED
    BY <2>1, <1>1 DEF Tells
<1>4. Tells(l, Tail(q), 0, q[1].rev)
  <2>1. 0 + 1 <= Len(q) /\ Tells(l, q, 0 + 1, q[1].rev)
    BY <1>1
  <2> QED
    BY <2>1, <1>1, TellsShift
<1> QED
  BY <1>1, <1>2, <1>3, <1>4

----------------------------------------------------------------------------
\* The text of the editor.

LEMMA NoOpSame ==
    ASSUME NEW op \in Op, isNoOp(op), NEW t \in Seq(Char)
    PROVE  apply(t, op) = t
<1>1. op # Null
  BY NullAssumption
<1> QED
  BY <1>1, NoOpEffect DEF isNoOp

LEMMA EffectType ==
    ASSUME NEW t \in Seq(Char), NEW op \in Op \cup {Null}
    PROVE  /\ Effect(t, op) \in Seq(Char)
           /\ op # Null => Effect(t, op) = apply(t, op)
           /\ op = Null => Effect(t, op) = t
BY ApplyType DEF Effect

LEMMA OnTopStays ==
    ASSUME NEW l \in Seq(Op), NEW e \in Op, NEW t, NEW n \in Nat, n <= Len(l), NEW i, NEW b,
           OnTop(l, t, n, i, b)
    PROVE  OnTop(Append(l, e), t, n, i, b)
BY DocStays DEF OnTop

\* What the editor does with the operation e of someone else: e past what is in
\* flight, the text it shows, and what becomes of the operation in flight and of
\* the buffer.
Beside(i, e) == IF i = Null THEN e ELSE transform(e, i, "incomingWins")

Showing(t, i, b, e) ==
    LET past2 == IF b = Null THEN Beside(i, e) ELSE transform(Beside(i, e), b, "incomingWins")
    IN  IF isNoOp(past2) THEN t ELSE apply(t, past2)

Moved(i, e) == IF i = Null THEN Null ELSE transform(i, e, "existingWins")

Remaining(i, b, e) ==
    LET pending == IF b = Null THEN Null ELSE transform(b, Beside(i, e), "existingWins")
    IN  IF isNoOp(pending) THEN Null ELSE pending

LEMMA OnTopReceived ==
    ASSUME NEW l \in Seq(Op), NEW t \in Seq(Char), NEW n \in Nat, n + 1 <= Len(l),
           NEW i \in Op \cup {Null}, NEW b \in Op \cup {Null}, OnTop(l, t, n, i, b),
           NEW e, e = l[n + 1]
    PROVE  OnTop(l, Showing(t, i, b, e), n + 1, Moved(i, e), Remaining(i, b, e))
<1> DEFINE d == DocOf(l, n)
           f == DocOf(l, n + 1)
           past1 == IF i = Null THEN e ELSE transform(e, i, "incomingWins")
           past2 == IF b = Null THEN past1 ELSE transform(past1, b, "incomingWins")
           pending == IF b = Null THEN Null ELSE transform(b, past1, "existingWins")
           shown == IF isNoOp(past2) THEN t ELSE apply(t, past2)
           moved == IF i = Null THEN Null ELSE transform(i, e, "existingWins")
           left == IF isNoOp(pending) THEN Null ELSE pending
           u == Effect(d, i)
           v == Effect(f, moved)
<1>1. d \in Seq(Char) /\ f \in Seq(Char) /\ e \in Op /\ f = apply(d, e)
  <2>1. n <= Len(l) /\ n + 1 \in Nat
    OBVIOUS
  <2> QED
    BY <2>1, DocType, DocNext
<1>2. /\ t = Effect(u, b) /\ (i # Null => Reach(i) <= Len(d))
      /\ b # Null => i # Null /\ Reach(b) <= Len(u)
  BY DEF OnTop
<1>3. u \in Seq(Char)
  BY <1>1, EffectType
<1>4. past1 \in Op /\ moved \in Op \cup {Null}
  BY <1>1, TransformsOf
<1>5. past2 \in Op /\ pending \in Op \cup {Null}
  BY <1>4, TransformsOf
<1> HIDE DEF d, f
<1>6. v = apply(u, past1) /\ (moved # Null => Reach(moved) <= Len(f)) /\ (moved = Null <=> i = Null)
  <2>1. CASE i = Null
    <3>1. moved = Null /\ past1 = e /\ u = d /\ v = f
      BY <2>1 DEF Effect
    <3> QED
      BY <3>1, <2>1, <1>1
  <2>2. CASE i # Null
    <3>1. /\ i \in Op /\ moved = transform(i, e, "existingWins") /\ u = apply(d, i)
          /\ past1 = transform(e, i, "incomingWins")
      BY <2>2 DEF Effect
    <3>2. moved # Null /\ moved \in Op
      BY <3>1, <1>4, <1>1, TransformsOf, NullAssumption
    <3>3. v = apply(f, moved)
      BY <3>2 DEF Effect
    <3>4. /\ Reach(transform(i, e, "existingWins")) <= Len(apply(d, e))
          /\ apply(apply(d, i), transform(e, i, "incomingWins"))
                 = apply(apply(d, e), transform(i, e, "existingWins"))
      BY <1>1, <1>2, <2>2, <3>1, MeetOn
    <3> QED
      BY <3>1, <3>2, <3>3, <3>4, <2>2, <1>1
  <2> QED
    BY <2>1, <2>2
<1>7. v \in Seq(Char)
  BY <1>1, <1>4, EffectType
<1> HIDE DEF u, v, moved
<1>8. /\ shown = apply(t, past2)
  <2>1. t \in Seq(Char)
    OBVIOUS
  <2> QED
    BY <2>1, <1>5, NoOpSame
<1>9. shown = Effect(v, left) /\ (left # Null => i # Null /\ Reach(left) <= Len(v))
  <2>1. CASE b = Null
    <3>1. pending = Null /\ past2 = past1 /\ t = u
      BY <2>1, <1>2 DEF Effect
    <3>2. left = Null
      BY <3>1
    <3> QED
      BY <3>1, <3>2, <1>6, <1>8 DEF Effect
  <2>2. CASE b # Null
    <3>1. /\ b \in Op /\ pending = transform(b, past1, "existingWins")
          /\ past2 = transform(past1, b, "incomingWins") /\ t = apply(u, b)
      BY <2>2, <1>2 DEF Effect
    <3>2. pending \in Op /\ pending # Null
      BY <3>1, <1>4, TransformsOf, NullAssumption
    <3>3. /\ Reach(transform(b, past1, "existingWins")) <= Len(apply(u, past1))
          /\ apply(apply(u, b), transform(past1, b, "incomingWins"))
                 = apply(apply(u, past1), transform(b, past1, "existingWins"))
      BY <1>2, <1>3, <1>4, <2>2, <3>1, MeetOn
    <3>4. shown = apply(v, pending) /\ Reach(pending) <= Len(v)
      BY <3>1, <3>3, <1>6, <1>8
    <3> HIDE DEF shown
    <3>5. CASE isNoOp(pending)
      <4>1. left = Null /\ apply(v, pending) = v
        BY <3>2, <3>5, <1>7, NoOpSame
      <4> QED
        BY <4>1, <3>4 DEF Effect
    <3>6. CASE ~isNoOp(pending)
      <4>1. left = pending
        BY <3>6
      <4> QED
        BY <4>1, <3>2, <3>4, <1>2, <2>2 DEF Effect
    <3> QED
      BY <3>5, <3>6
  <2> QED
    BY <2>1, <2>2
<1> HIDE DEF shown, left
<1>10. OnTop(l, shown, n + 1, moved, left)
  BY <1>6, <1>9 DEF OnTop, v, f
<1>11. shown = Showing(t, i, b, e) /\ moved = Moved(i, e) /\ left = Remaining(i, b, e)
  BY DEF shown, moved, left, Showing, Moved, Remaining, Beside
<1> QED
  BY <1>10, <1>11

\* The operation in flight is the next one of the log, or was absorbed.
LEMMA OnTopAnswered ==
    ASSUME NEW l \in Seq(Op), NEW t, NEW n \in Nat, n <= Len(l), NEW i \in Op,
           NEW b, OnTop(l, t, n, i, b), NEW k,
           \/ k = n + 1 /\ n + 1 <= Len(l) /\ l[n + 1] = i
           \/ k = n /\ isNoOp(i)
    PROVE  OnTop(l, t, k, b, Null)
<1> DEFINE d == DocOf(l, n)
<1>1. d \in Seq(Char) /\ i # Null
  BY DocType, NullAssumption
<1>2. t = Effect(Effect(d, i), b) /\ (b # Null => Reach(b) <= Len(Effect(d, i)))
  BY DEF OnTop
<1>3. DocOf(l, k) = Effect(d, i)
  <2>1. Effect(d, i) = apply(d, i)
    BY <1>1 DEF Effect
  <2>2. CASE k = n + 1 /\ n + 1 <= Len(l) /\ l[n + 1] = i
    BY <2>1, <2>2, DocNext
  <2>3. CASE k = n /\ isNoOp(i)
    BY <2>1, <2>3, <1>1, NoOpSame
  <2> QED
    BY <2>2, <2>3
<1> QED
  BY <1>2, <1>3 DEF OnTop, Effect

LEMMA OnTopEdited ==
    ASSUME NEW l \in Seq(Op), NEW t \in Seq(Char), NEW n \in Nat, n <= Len(l),
           NEW i \in Op \cup {Null}, NEW b \in Op \cup {Null}, OnTop(l, t, n, i, b),
           NEW op \in Op, Reach(op) <= Len(t)
    PROVE  /\ i = Null => OnTop(l, apply(t, op), n, op, b) /\ b = Null
           /\ i # Null => OnTop(l, apply(t, op), n, i, compose(b, op))
<1> DEFINE d == DocOf(l, n)
           u == Effect(d, i)
<1>1. d \in Seq(Char) /\ op # Null
  BY DocType, NullAssumption
<1>2. /\ t = Effect(u, b) /\ (i # Null => Reach(i) <= Len(d))
      /\ b # Null => i # Null /\ Reach(b) <= Len(u)
  BY DEF OnTop
<1>3. CASE i = Null
  <2>1. b = Null /\ u = d /\ t = d
    BY <1>2, <1>3 DEF Effect
  <2>2. Effect(Effect(d, op), b) = apply(t, op)
    BY <2>1, <1>1 DEF Effect
  <2> QED
    BY <2>1, <2>2, <1>3 DEF OnTop
<1>4. CASE i # Null
  <2> DEFINE c == compose(b, op)
  <2>1. u \in Seq(Char)
    BY <1>1, EffectType
  <2> HIDE DEF u, d
  <2>2. /\ Effect(u, compose(b, op)) = Effect(Effect(u, b), op)
        /\ (compose(b, op) # Null /\ (op # Null => Reach(op) <= Len(Effect(u, b))))
               => Reach(compose(b, op)) <= Len(u)
    BY <2>1, <1>2, ComposeFollows
  <2> HIDE DEF c
  <2>3. Effect(u, c) = apply(t, op) /\ (c # Null => Reach(c) <= Len(u))
    BY <2>2, <1>1, <1>2 DEF Effect, c
  <2>4. OnTop(l, apply(t, op), n, i, c)
    BY <2>3, <1>2, <1>4 DEF OnTop, u, d
  <2> QED
    BY <2>4, <1>4 DEF c
<1> QED
  BY <1>3, <1>4

----------------------------------------------------------------------------
\* A client of which no answer is under way, when another operation is committed.

LEMMA EnteringMore ==
    ASSUME NEW l \in Seq(Op), NEW e \in Op, NEW u, NEW q \in Seq(Message), NEW member \in BOOLEAN,
           Entering(l, u, q, Null, member)
    PROVE  Entering(Append(l, e), u,
                   IF member THEN Append(q, News(Append(l, e), Len(l) + 1)) ELSE q, Null, member)
<1> DEFINE g == Append(l, e)
           m == News(g, Len(l) + 1)
           s == Append(q, m)
           joined == [type |-> "joined", text |-> DocOf(l, Len(l)), rev |-> Len(l)]
<1>1. m \in Message
  BY LogGrows
<1>2. joined # Null
  <2>1. Len(l) \in Nat /\ DocOf(l, Len(l)) \in Seq(Char)
    BY DocType
  <2> QED
    BY <2>1, Messages, AnswerAssumption
<1> HIDE DEF joined
<1>3. CASE u = <<[type |-> "join"]>> /\ q = <<>> /\ ~member
  BY <1>3 DEF Entering
<1>4. CASE /\ u = <<>> /\ member /\ q # <<>> /\ q[1].type = "joined" /\ q[1].text = DocOf(l, q[1].rev)
           /\ Tells(l, q, 1, q[1].rev)
  <2>1. Len(q) \in Nat /\ 1 <= Len(q) /\ q[1] \in Message
    BY <1>4
  <2>2. q[1].rev \in Nat /\ q[1].rev <= Len(l)
    BY <2>1, <1>4, Messages DEF Tells
  <2>3. s[1] = q[1] /\ s # <<>>
    BY <2>1, <1>1, Appending
  <2>4. Tells(g, s, 1, q[1].rev)
    BY <2>1, <2>2, <1>4, TellsMore
  <2>5. DocOf(g, q[1].rev) = DocOf(l, q[1].rev)
    BY <2>2, DocStays
  <2> HIDE DEF g, s, m
  <2>6. Entering(g, u, s, Null, member)
    BY <2>3, <2>4, <2>5, <1>4 DEF Entering
  <2> QED
    BY <2>6, <1>4 DEF g, s, m
<1> QED
  BY <1>2, <1>3, <1>4 DEF Entering, joined

LEMMA WaitingMore ==
    ASSUME NEW l \in Seq(Op), NEW e \in Op, NEW n \in Nat, n <= Len(l), NEW i \in Op \cup {Null},
           NEW u, NEW q \in Seq(Message),
           Idle(l, n, i, u, q, Null) \/ Sent(l, n, i, u, q, Null) \/ Served(l, n, i, u, q, Null)
    PROVE  LET g == Append(l, e)
               s == Append(q, News(g, Len(l) + 1))
           IN  Idle(g, n, i, u, s, Null) \/ Sent(g, n, i, u, s, Null) \/ Served(g, n, i, u, s, Null)
<1> DEFINE g == Append(l, e)
           m == News(g, Len(l) + 1)
           s == Append(q, m)
<1>1. Tells(l, q, 0, n) => Tells(g, s, 0, n)
  <2>1. 0 <= Len(q) /\ 0 \in Nat
    OBVIOUS
  <2> QED
    BY <2>1, TellsMore
<1>2. /\ g \in Seq(Op) /\ Len(g) = Len(l) + 1 /\ Len(l) \in Nat /\ g[Len(l) + 1] = e
  BY Appending
<1>3. CASE Idle(l, n, i, u, q, Null)
  <2> HIDE DEF g, s, m
  <2>1. Idle(g, n, i, u, s, Null)
    BY <1>1, <1>3 DEF Idle
  <2> QED
    BY <2>1 DEF g, s, m
<1>4. CASE Sent(l, n, i, u, q, Null)
  <2>1. PICK r \in OpRequest :
            u = <<r>> /\ r.base <= n /\ Past(l, r.op, r.base, Len(l)) = Past(l, i, n, Len(l))
    BY <1>4 DEF Sent
  <2>2. i \in Op /\ r.op \in Op /\ r.base \in Nat /\ r.base <= Len(l) /\ Len(l) + 1 <= Len(g)
    BY <1>2, <1>4, <2>1, RequestsAre DEF Sent
  <2> DEFINE k == Len(l)
  <2> HIDE DEF g, s, m
  <2>a. g \in Seq(Op) /\ k \in Nat /\ k + 1 <= Len(g) /\ g[k + 1] = e /\ r.base <= k /\ n <= k
    BY <1>2, <2>2
  <2> HIDE DEF k
  <2>b. \A op \in Op, j \in Nat : j <= k => Past(g, op, j, k + 1) = transform(Past(g, op, j, k), e, "existingWins")
    BY <2>a, PastLast
  <2>3. Past(g, r.op, r.base, Len(l) + 1) = transform(Past(g, r.op, r.base, Len(l)), e, "existingWins")
    BY <2>2, <2>a, <2>b DEF k
  <2>4. Past(g, i, n, Len(l) + 1) = transform(Past(g, i, n, Len(l)), e, "existingWins")
    BY <2>2, <2>a, <2>b DEF k
  <2>5. /\ Past(g, r.op, r.base, Len(l)) = Past(l, r.op, r.base, Len(l))
        /\ Past(g, i, n, Len(l)) = Past(l, i, n, Len(l))
    BY <1>2, <2>2, PastStays DEF g
  <2>6. Past(g, r.op, r.base, Len(g)) = Past(g, i, n, Len(g))
    BY <1>2, <2>1, <2>3, <2>4, <2>5
  <2>7. Sent(g, n, i, u, s, Null)
    BY <1>1, <1>4, <2>1, <2>6 DEF Sent
  <2> QED
    BY <2>7 DEF g, s, m
<1>5. CASE Served(l, n, i, u, q, Null)
  <2>1. PICK p \in Nat : Answered(l, n, i, q, p)
    BY <1>5 DEF Served, Coming
  <2>2. i \in Op
    BY <1>5 DEF Served
  <2>3. Answered(g, n, i, s, p)
    BY <2>1, <2>2, AnsweredMore
  <2> HIDE DEF g, s, m
  <2>4. Served(g, n, i, u, s, Null)
    BY <1>5, <2>1, <2>3 DEF Served, Coming
  <2> QED
    BY <2>4 DEF g, s, m
<1> QED
  BY <1>3, <1>4, <1>5

LEMMA BookMore ==
    ASSUME NEW l \in Seq(Op), NEW e \in Op, NEW t, NEW n \in Nat, n <= Len(l),
           NEW i \in Op \cup {Null}, NEW b, NEW ph, NEW u, NEW q \in Seq(Message), NEW member \in BOOLEAN,
           BookOf(l, t, n, i, b, ph, u, q, Null, member)
    PROVE  BookOf(Append(l, e), t, n, i, b, ph, u,
                  IF member THEN Append(q, News(Append(l, e), Len(l) + 1)) ELSE q, Null, member)
<1> DEFINE g == Append(l, e)
           s == Append(q, News(g, Len(l) + 1))
           v == IF member THEN s ELSE q
<1>1. ph = "joining" => Entering(g, u, v, Null, member)
  BY EnteringMore DEF BookOf
<1>2. ASSUME ph = "open"
      PROVE  /\ member /\ OnTop(g, t, n, i, b)
             /\ Idle(g, n, i, u, v, Null) \/ Sent(g, n, i, u, v, Null) \/ Served(g, n, i, u, v, Null)
  <2>1. /\ member /\ OnTop(l, t, n, i, b)
        /\ Idle(l, n, i, u, q, Null) \/ Sent(l, n, i, u, q, Null) \/ Served(l, n, i, u, q, Null)
    BY <1>2 DEF BookOf
  <2>2. OnTop(g, t, n, i, b)
    BY <2>1, OnTopStays
  <2>3. Idle(g, n, i, u, s, Null) \/ Sent(g, n, i, u, s, Null) \/ Served(g, n, i, u, s, Null)
    BY <2>1, WaitingMore
  <2>4. v = s
    BY <2>1
  <2> HIDE DEF g, s, v
  <2> QED
    BY <2>1, <2>2, <2>3, <2>4
<1> HIDE DEF g, s, v
<1>3. BookOf(g, t, n, i, b, ph, u, v, Null, member)
  BY <1>1, <1>2 DEF BookOf
<1> QED
  BY <1>3 DEF g, s, v

\* What is known of one client, from the type invariant.
LEMMA TypesOf ==
    ASSUME TypeInv, NEW c \in Clients
    PROVE  /\ log \in Seq(Op) /\ Len(log) \in Nat
           /\ text[c] \in Seq(Char) /\ revision[c] \in Nat /\ revision[c] <= Len(log)
           /\ inflight[c] \in Op \cup {Null} /\ buffer[c] \in Op \cup {Null}
           /\ up[c] \in Requests /\ net[c] \in Queue(Len(log)) /\ net[c] \in Seq(Message)
           /\ owed[c] \in Answers(Len(log)) \cup {Null} /\ (owed[c] # Null => owed[c] \in Message)
           /\ phase[c] \in {"joining", "open", "down", "disposed"}
           /\ (c \in members) \in BOOLEAN
BY DEF TypeInv, Queue, Answers

\* The other clients, when an operation is committed.
LEMMA OthersCommitted ==
    ASSUME TypeInv, BookInv, NEW r \in OpRequest, NEW told, NEW lost, Commit(r, told, lost),
           NEW d \in Clients, d \notin disturbed', d \in told <=> d \in members,
           UNCHANGED <<editorVars, members>>, up'[d] = up[d], owed'[d] = owed[d]
    PROVE  Book(d)'
<1> DEFINE op == Transformed(r.op, r.base)
           k == Len(log) + 1
           m == [type |-> "op", op |-> op, rev |-> k]
<1>1. op \in Op
  BY TransformedType DEF TypeInv
<1>2. /\ log' = Append(log, op) /\ d \in Clients /\ d \notin disturbed /\ owed[d] = Null
      /\ net'[d] = IF d \in members THEN Append(net[d], m) ELSE net[d]
  BY DEF Commit
<1> HIDE DEF op
<1>3. m = News(Append(log, op), k)
  BY <1>1, LogGrows DEF TypeInv
<1> HIDE DEF m
<1>4. Book(d)
  BY <1>2 DEF BookInv
<1>5. BookOf(Append(log, op), text[d], revision[d], inflight[d], buffer[d], phase[d], up[d],
             IF d \in members THEN Append(net[d], News(Append(log, op), Len(log) + 1)) ELSE net[d], Null,
             d \in members)
  <2>1. BookOf(log, text[d], revision[d], inflight[d], buffer[d], phase[d], up[d], net[d], Null,
               d \in members)
    BY <1>2, <1>4 DEF Book
  <2>2. /\ log \in Seq(Op) /\ revision[d] \in Nat /\ revision[d] <= Len(log)
        /\ inflight[d] \in Op \cup {Null} /\ net[d] \in Seq(Message) /\ (d \in members) \in BOOLEAN
    BY <1>2, TypesOf
  <2> DEFINE t == text[d]
             n == revision[d]
             i == inflight[d]
             b == buffer[d]
             ph == phase[d]
             u == up[d]
             q == net[d]
             member == d \in members
  <2>3. BookOf(log, t, n, i, b, ph, u, q, Null, member)
    BY <2>1
  <2>4. n \in Nat /\ n <= Len(log) /\ i \in Op \cup {Null} /\ q \in Seq(Message) /\ member \in BOOLEAN
    BY <2>2
  <2> HIDE DEF t, n, i, b, ph, u, q, member
  <2>5. BookOf(Append(log, op), t, n, i, b, ph, u,
               IF member THEN Append(q, News(Append(log, op), Len(log) + 1)) ELSE q, Null, member)
    BY <2>2, <2>3, <2>4, <1>1, BookMore
  <2> QED
    BY <2>5 DEF t, n, i, b, ph, u, q, member
<1> QED
  BY <1>2, <1>3, <1>5 DEF Book, editorVars

----------------------------------------------------------------------------
\* A connection that is not there.

LEMMA AwayCommitted ==
    ASSUME TypeInv, AwayInv, NEW r, NEW told \in SUBSET members, NEW lost, Commit(r, told, lost),
           NEW d \in Clients, phase[d] \in {"down", "disposed"}
    PROVE  net'[d] = <<>>
BY DEF AwayInv, Commit

LEMMA AwayStep ==
    TypeInv /\ AwayInv /\ [Next]_vars => AwayInv'
<1> SUFFICES ASSUME TypeInv, AwayInv, [Next]_vars, NEW d \in Clients, phase'[d] \in {"down", "disposed"}
             PROVE  up'[d] = <<>> /\ net'[d] = <<>> /\ owed'[d] = Null /\ d \notin members'
  BY DEF AwayInv
<1> DEFINE Gone == up'[d] = <<>> /\ net'[d] = <<>> /\ owed'[d] = Null /\ d \notin members'
<1>0. phase[d] \in {"down", "disposed"} =>
          up[d] = <<>> /\ net[d] = <<>> /\ owed[d] = Null /\ d \notin members
  BY DEF AwayInv
<1>1. CASE UNCHANGED vars
  BY <1>0, <1>1 DEF vars, serverVars, editorVars, wire
<1>2. ASSUME NEW c \in Clients, SendAnswer(c) PROVE Gone
  <2>1. phase[d] \in {"down", "disposed"} /\ owed[c] # Null
    BY <1>2 DEF SendAnswer, editorVars
  <2> QED
    BY <1>0, <1>2, <2>1 DEF SendAnswer, TypeInv, editorVars
<1>3. ASSUME NEW c \in Clients, Reconnect(c) PROVE Gone
  BY <1>0, <1>3 DEF Reconnect, TypeInv
<1>4. ASSUME NEW c \in Clients, ServeJoin(c) PROVE Gone
  BY <1>0, <1>4 DEF ServeJoin, Took, TypeInv, editorVars
<1>5. ASSUME NEW c \in Clients, ServeOp(c) PROVE Gone
  <2>1. phase' = phase /\ members' = members /\ up' = [up EXCEPT ![c] = Tail(@)] /\ up[c] # <<>>
    BY <1>5 DEF ServeOp, Took, editorVars
  <2>2. d # c
    BY <1>0, <2>1
  <2>3. net'[d] = <<>>
    <3>1. CASE UNCHANGED net
      BY <1>0, <2>1, <3>1
    <3>2. CASE Commit(Head(up[c]), members \ {c}, {})
      BY <2>1, <3>2, AwayCommitted
    <3> QED
      BY <1>5, <3>1, <3>2 DEF ServeOp
  <2>4. owed'[d] = owed[d]
    BY <1>5, <2>2 DEF ServeOp, TypeInv
  <2> QED
    BY <1>0, <2>1, <2>2, <2>3, <2>4 DEF TypeInv
<1>6. ASSUME NEW c \in Clients, Receive(c) PROVE Gone
  <2>1. net[c] # <<>> /\ net' = [net EXCEPT ![c] = Tail(@)] /\ UNCHANGED <<owed, members>>
    BY <1>6 DEF Receive
  <2> DEFINE m == Head(net[c])
  <2>2. m \in Message
    BY <2>1, TypesOf, QueueTail
  <2>3. ReceiveOp(c, m) \/ ReceiveAnswer(c, m) \/ Seeded(c, m) \/ SendFails
    BY <1>6, <2>2, Messages DEF Receive
  <2> HIDE DEF m
  <2>4. (phase' = phase \/ phase' = [phase EXCEPT ![c] = "open"]) /\ (d # c => up'[d] = up[d])
    BY <2>3 DEF ReceiveOp, ReceiveAnswer, Seeded, SendFails, SendOp, editorVars, TypeInv
  <2>5. phase[d] \in {"down", "disposed"} /\ d # c
    BY <1>0, <2>1, <2>4 DEF TypeInv
  <2> QED
    BY <1>0, <2>1, <2>4, <2>5 DEF TypeInv
<1>7. CASE ServeLate \/ FailLate
  <2>1. phase' = phase /\ UNCHANGED <<up, owed, members>>
    BY <1>7 DEF ServeLate, FailLate, editorVars
  <2>2. net'[d] = <<>>
    <3>1. CASE UNCHANGED net
      BY <1>0, <2>1, <3>1
    <3>2. ASSUME NEW told \in SUBSET members, NEW lost, Commit(Head(late), told, lost)
          PROVE  net'[d] = <<>>
      BY <2>1, <3>2, AwayCommitted
    <3> QED
      BY <1>7, <3>1, <3>2 DEF ServeLate, FailLate
  <2> QED
    BY <1>0, <2>1, <2>2
<1>8. ASSUME NEW c \in Clients, Edit(c) PROVE Gone
  <2>1. phase' = phase /\ UNCHANGED <<net, owed, members>>
    BY <1>8 DEF Edit
  <2>2. up'[d] = up[d]
    BY <1>8, <2>1 DEF Edit, SendOp, TypeInv
  <2> QED
    BY <1>0, <2>1, <2>2
<1>9. ASSUME NEW c \in Clients, Break(c) \/ Dispose(c) PROVE Gone
  <2>1. Hangs(c, "down") \/ Hangs(c, "disposed")
    BY <1>9 DEF Break, Dispose
  <2> QED
    BY <1>0, <2>1 DEF Hangs, TypeInv
<1>10. ASSUME NEW c \in Clients, Refuse(c) PROVE Gone
  <2>1. phase' = phase /\ members' = members /\ up' = [up EXCEPT ![c] = Tail(@)] /\ up[c] # <<>>
        /\ net' = net
    BY <1>10 DEF Refuse, Took, editorVars
  <2>2. d # c
    BY <1>0, <2>1
  <2>3. owed'[d] = owed[d]
    BY <1>10, <2>2 DEF Refuse, TypeInv
  <2> QED
    BY <1>0, <2>1, <2>2, <2>3 DEF TypeInv
<1>11. ASSUME NEW c \in Clients, FailAfterCommit(c) PROVE Gone
  <2>1. /\ phase' = phase /\ members' = members /\ up' = [up EXCEPT ![c] = Tail(@)] /\ up[c] # <<>>
        /\ \E told \in {{}, members \ {c}} : Commit(Head(up[c]), told, {c} \cup (members \ told))
    BY <1>11 DEF FailAfterCommit, Took, editorVars
  <2>2. d # c
    BY <1>0, <2>1
  <2>3. net'[d] = <<>>
    <3>1. PICK told \in {{}, members \ {c}} : Commit(Head(up[c]), told, {c} \cup (members \ told))
      BY <2>1
    <3>2. told \in SUBSET members
      OBVIOUS
    <3> QED
      BY <2>1, <3>1, <3>2, AwayCommitted
  <2>4. owed'[d] = owed[d]
    BY <1>11, <2>2 DEF FailAfterCommit, TypeInv
  <2> QED
    BY <1>0, <2>1, <2>2, <2>3, <2>4 DEF TypeInv
<1> QED
  BY <1>1, <1>2, <1>3, <1>4, <1>5, <1>6, <1>7, <1>8, <1>9, <1>10, <1>11 DEF Next, Work

----------------------------------------------------------------------------
\* A connection that goes by the book, one action after the other.

\* What a step does not touch.
LEMMA BookStays ==
    ASSUME BookInv, NEW d \in Clients \ disturbed, log' = log,
           text'[d] = text[d], revision'[d] = revision[d], inflight'[d] = inflight[d],
           buffer'[d] = buffer[d], phase'[d] = phase[d], up'[d] = up[d], net'[d] = net[d],
           owed'[d] = owed[d], (d \in members') <=> (d \in members)
    PROVE  Book(d)'
<1>1. Book(d)
  BY DEF BookInv
<1>2. (d \in members') = (d \in members)
  OBVIOUS
<1> QED
  BY <1>1, <1>2 DEF Book

LEMMA BookAway ==
    ASSUME NEW d, phase'[d] \in {"down", "disposed"}
    PROVE  Book(d)'
BY DEF Book, BookOf

LEMMA EditBook ==
    ASSUME IInv, NEW c \in Clients, Edit(c), NEW d \in Clients \ disturbed'
    PROVE  Book(d)'
<1>0. /\ TypeInv /\ BookInv /\ d \notin disturbed
      /\ UNCHANGED <<log, revision, phase, net, owed, members>>
      /\ d = c => phase[c] # "joining" /\ phase[c] # "disposed"
  BY DEF IInv, Edit, serverVars
<1>1. PICK change \in Keystroke(Len(text[c])) :
        LET op == fromMonacoChanges({change})
        IN  /\ text' = [text EXCEPT ![c] = apply(@, op)]
            /\ IF inflight[c] = Null
               THEN /\ inflight' = [inflight EXCEPT ![c] = op]
                    /\ SendOp(c, op, revision[c])
                    /\ UNCHANGED buffer
               ELSE /\ buffer' = [buffer EXCEPT ![c] = compose(@, op)]
                    /\ UNCHANGED <<inflight, up>>
  BY DEF Edit
<1> DEFINE op == fromMonacoChanges({change})
<1>2. op \in Op /\ Reach(op) <= Len(text[c])
  <2>1. Len(text[c]) \in Nat /\ Count("edits")
    BY <1>0, TypesOf DEF Edit
  <2> QED
    BY <1>0, <2>1, Keystrokes
<1>3. /\ text' = [text EXCEPT ![c] = apply(text[c], op)]
      /\ inflight[c] = Null => /\ inflight' = [inflight EXCEPT ![c] = op]
                               /\ SendOp(c, op, revision[c]) /\ buffer' = buffer
      /\ inflight[c] # Null => /\ buffer' = [buffer EXCEPT ![c] = compose(buffer[c], op)]
                               /\ inflight' = inflight /\ up' = up
  BY <1>1
<1> HIDE DEF op
<1>4. CASE d # c
  <2>1. text'[d] = text[d] /\ inflight'[d] = inflight[d] /\ buffer'[d] = buffer[d] /\ up'[d] = up[d]
    BY <1>0, <1>3, <1>4 DEF TypeInv, SendOp
  <2> QED
    BY <1>0, <2>1, BookStays
<1>5. CASE d = c /\ phase[c] # "open"
  <2>1. phase'[d] \in {"down", "disposed"}
    BY <1>0, <1>5, TypesOf
  <2> QED
    BY <2>1, BookAway
<1>6. CASE d = c /\ phase[c] = "open"
  <2> DEFINE l == log
             t == text[c]
             n == revision[c]
             i == inflight[c]
             b == buffer[c]
             u == up[c]
             q == net[c]
             o == owed[c]
  <2>1. /\ l \in Seq(Op) /\ t \in Seq(Char) /\ n \in Nat /\ n <= Len(l)
        /\ i \in Op \cup {Null} /\ b \in Op \cup {Null}
    BY <1>0, TypesOf
  <2>2. /\ c \in members /\ OnTop(l, t, n, i, b)
        /\ Idle(l, n, i, u, q, o) \/ Sent(l, n, i, u, q, o) \/ Served(l, n, i, u, q, o)
    BY <1>0, <1>6 DEF BookInv, Book, BookOf
  <2>3. text'[c] = apply(t, op)
    BY <1>0, <1>3 DEF TypeInv
  <2>4. CASE i = Null
    <3> DEFINE r == [type |-> "op", op |-> op, base |-> n]
    <3>1. inflight'[c] = op /\ buffer'[c] = b /\ up'[c] = Append(u, r)
      BY <1>0, <1>3, <1>6, <2>4 DEF TypeInv, SendOp
    <3>2. Idle(l, n, i, u, q, o)
      BY <2>2, <2>4 DEF Sent, Served
    <3>3. u = <<>> /\ o = Null /\ Tells(l, q, 0, n)
      BY <3>2 DEF Idle
    <3>4. r \in OpRequest /\ r.op = op /\ r.base = n
      BY <1>2, <2>1, RequestsAre
    <3>5. op # Null
      BY <1>2, NullAssumption
    <3> HIDE DEF r, l, t, n, i, b, u, q, o
    <3>6. Append(u, r) = <<r>>
      BY <3>3
    <3>7. Sent(l, n, op, Append(u, r), q, o)
      BY <2>1, <3>3, <3>4, <3>5, <3>6 DEF Sent
    <3>8. OnTop(l, apply(t, op), n, op, b)
      BY <1>2, <2>1, <2>2, <2>4, OnTopEdited DEF t
    <3>9. BookOf(l, apply(t, op), n, op, b, "open", Append(u, r), q, o, TRUE)
      BY <3>7, <3>8 DEF BookOf
    <3> QED
      BY <1>0, <1>6, <2>2, <2>3, <3>1, <3>9 DEF Book, l, t, n, b, u, q, o
  <2>5. CASE i # Null
    <3>1. inflight'[c] = i /\ buffer'[c] = compose(b, op) /\ up'[c] = u
      BY <1>0, <1>3, <2>5 DEF TypeInv
    <3> HIDE DEF l, t, n, i, b, u, q, o
    <3>2. OnTop(l, apply(t, op), n, i, compose(b, op))
      BY <1>2, <2>1, <2>2, <2>5, OnTopEdited DEF t
    <3>3. BookOf(l, apply(t, op), n, i, compose(b, op), "open", u, q, o, TRUE)
      BY <2>2, <3>2 DEF BookOf
    <3> QED
      BY <1>0, <1>6, <2>2, <2>3, <3>1, <3>3 DEF Book, l, t, n, i, b, u, q, o
  <2> QED
    BY <2>4, <2>5
<1> QED
  BY <1>4, <1>5, <1>6

\* The first message of a queue, with an answer to come after it.
LEMMA ComingHead ==
    ASSUME NEW q \in Seq(Message), q # <<>>, NEW o \in Message \cup {Null}
    PROVE  /\ Coming(q, o) \in Seq(Message) /\ Coming(q, o) # <<>>
           /\ Head(Coming(q, o)) = Head(q) /\ Tail(Coming(q, o)) = Coming(Tail(q), o)
           /\ o # Null => /\ Len(Coming(q, o)) = Len(q) + 1 /\ Len(q) >= 1
                          /\ Coming(q, o)[Len(q) + 1] = o
<1>1. CASE o = Null
  BY <1>1 DEF Coming
<1>2. CASE o # Null
  <2> DEFINE s == Append(q, o)
  <2>1. o \in Message /\ Coming(q, o) = s /\ Coming(Tail(q), o) = Append(Tail(q), o)
    BY <1>2 DEF Coming
  <2>2. /\ s \in Seq(Message) /\ Len(s) = Len(q) + 1 /\ s[Len(q) + 1] = o
        /\ s # <<>> /\ Head(s) = Head(q) /\ Tail(s) = Append(Tail(q), o)
    BY <2>1, Appending, HeadTailAppend
  <2>3. Len(q) >= 1
    OBVIOUS
  <2> HIDE DEF s
  <2> QED
    BY <2>1, <2>2, <2>3
<1> QED
  BY <1>1, <1>2

\* An operation of someone else is received.
LEMMA OpReceived ==
    ASSUME NEW l \in Seq(Op), NEW n \in Nat, n <= Len(l), NEW i \in Op \cup {Null}, NEW u,
           NEW q \in Seq(Message), q # <<>>, NEW o \in Message \cup {Null},
           Head(q).type = "op",
           Idle(l, n, i, u, q, o) \/ Sent(l, n, i, u, q, o) \/ Served(l, n, i, u, q, o),
           NEW k, k = Moved(i, l[n + 1])
    PROVE  /\ n + 1 <= Len(l) /\ Head(q) = News(l, n + 1) /\ n + 1 \in Nat
           /\ \/ Idle(l, n + 1, k, u, Tail(q), o) \/ Sent(l, n + 1, k, u, Tail(q), o)
              \/ Served(l, n + 1, k, u, Tail(q), o)
<1>0. n + 1 \in Nat /\ Len(l) \in Nat
  OBVIOUS
<1>1. CASE Idle(l, n, i, u, q, o)
  <2>1. n + 1 <= Len(l) /\ Head(q) = News(l, n + 1) /\ Tells(l, Tail(q), 0, n + 1)
    BY <1>1, TellsNext DEF Idle
  <2>2. Idle(l, n + 1, k, u, Tail(q), o)
    BY <1>1, <2>1 DEF Idle, Moved
  <2> QED
    BY <1>0, <2>1, <2>2
<1>2. CASE Sent(l, n, i, u, q, o)
  <2>1. n + 1 <= Len(l) /\ Head(q) = News(l, n + 1) /\ Tells(l, Tail(q), 0, n + 1)
    BY <1>2, TellsNext DEF Sent
  <2>2. PICK r \in OpRequest :
            u = <<r>> /\ r.base <= n /\ Past(l, r.op, r.base, Len(l)) = Past(l, i, n, Len(l))
    BY <1>2 DEF Sent
  <2>3. i \in Op /\ o = Null /\ r.base \in Nat /\ k = transform(i, l[n + 1], "existingWins")
    BY <1>2, RequestsAre DEF Sent, Moved
  <2>4. Past(l, i, n, Len(l)) = Past(l, k, n + 1, Len(l))
    <3>1. n < Len(l)
      BY <1>0, <2>1
    <3> QED
      BY <3>1, <1>0, <2>3, PastFirst
  <2>5. r.base <= n + 1
    BY <2>2, <2>3
  <2>6. k # Null
    <3>1. l[n + 1] \in Op
      BY <1>0, <2>1
    <3> QED
      BY <3>1, <2>3, TransformsOf, NullAssumption
  <2>7. Sent(l, n + 1, k, u, Tail(q), o)
    BY <2>1, <2>2, <2>3, <2>4, <2>5, <2>6 DEF Sent
  <2> QED
    BY <1>0, <2>1, <2>7
<1>3. CASE Served(l, n, i, u, q, o)
  <2> DEFINE s == Coming(q, o)
  <2>1. /\ s \in Seq(Message) /\ s # <<>> /\ Head(s) = Head(q) /\ Tail(s) = Coming(Tail(q), o)
    BY ComingHead
  <2>2. i \in Op /\ u = <<>> /\ k = transform(i, l[n + 1], "existingWins")
    BY <1>3 DEF Served, Moved
  <2>3. PICK p \in Nat : Answered(l, n, i, s, p)
    BY <1>3 DEF Served
  <2> HIDE DEF s
  <2>4. p # 1
    BY <2>1, <2>2, <2>3, AnsweredNow
  <2>5. /\ n + 1 <= Len(l) /\ Head(s) = News(l, n + 1)
        /\ Answered(l, n + 1, k, Tail(s), p - 1)
    BY <2>1, <2>2, <2>3, <2>4, AnsweredNext
  <2>6. k # Null
    <3>1. l[n + 1] \in Op
      BY <1>0, <2>5
    <3> QED
      BY <3>1, <2>2, TransformsOf, NullAssumption
  <2>7. p - 1 \in Nat
    BY <2>3, <2>4 DEF Answered
  <2>8. Served(l, n + 1, k, u, Tail(q), o)
    BY <2>1, <2>2, <2>5, <2>6, <2>7 DEF Served
  <2> QED
    BY <1>0, <2>1, <2>5, <2>8
<1> QED
  BY <1>1, <1>2, <1>3

\* The answer to the operation in flight is received: there is nothing else on
\* its way to the server or back but what has been committed since.
LEMMA AnswerReceived ==
    ASSUME NEW l \in Seq(Op), NEW n \in Nat, n <= Len(l), NEW i \in Op \cup {Null}, NEW u,
           NEW q \in Seq(Message), q # <<>>, NEW o \in Message \cup {Null},
           o # Null => o.type # "op", Head(q).type # "op",
           Idle(l, n, i, u, q, o) \/ Sent(l, n, i, u, q, o) \/ Served(l, n, i, u, q, o)
    PROVE  /\ i \in Op /\ u = <<>> /\ o = Null /\ Head(q).type = "answer" /\ Head(q).success
           /\ Head(q).rev \in Nat /\ Head(q).rev <= Len(l) /\ Tells(l, Tail(q), 0, Head(q).rev)
           /\ \/ Head(q).rev = n + 1 /\ n + 1 <= Len(l) /\ l[n + 1] = i
              \/ Head(q).rev = n /\ isNoOp(i)
<1> DEFINE s == Coming(q, o)
<1>1. /\ s \in Seq(Message) /\ s # <<>> /\ Head(s) = Head(q) /\ Tail(s) = Coming(Tail(q), o)
      /\ o # Null => Len(s) = Len(q) + 1 /\ Len(q) >= 1 /\ s[Len(q) + 1] = o
  BY ComingHead
<1>2. ~Tells(l, q, 0, n)
  <2>1. Tells(l, q, 0, n) => Head(q) = News(l, n + 1)
    BY TellsNext
  <2>2. News(l, n + 1).type = "op"
    BY DEF News
  <2> QED
    BY <2>1, <2>2
<1>3. i \in Op /\ u = <<>> /\ \E p \in Nat : Answered(l, n, i, s, p)
  BY <1>2 DEF Idle, Sent, Served
<1>4. PICK p \in Nat : Answered(l, n, i, s, p)
  BY <1>3
<1> HIDE DEF s
<1>5. p = 1
  <2>1. p # 1 => Head(s) = News(l, n + 1)
    BY <1>1, <1>3, <1>4, AnsweredNext
  <2>2. News(l, n + 1).type = "op"
    BY DEF News
  <2> QED
    BY <2>1, <2>2, <1>1
<1>6. /\ Head(s) = s[1] /\ s[1].type = "answer" /\ s[1].success /\ s[1].rev \in Nat
      /\ s[1].rev <= Len(l) /\ Tells(l, Tail(s), 0, s[1].rev)
      /\ \/ s[1].rev = n + 1 /\ n + 1 <= Len(l) /\ l[n + 1] = i
         \/ s[1].rev = n /\ isNoOp(i)
  BY <1>1, <1>3, <1>4, <1>5, AnsweredNow
<1>7. o = Null
  <2> SUFFICES ASSUME o # Null PROVE FALSE
    OBVIOUS
  <2>1. Tells(l, s, 1, s[1].rev)
    BY <1>4, <1>5 DEF Answered
  <2>2. Len(s) \in (1 + 1)..Len(s) /\ s[Len(s)] = o
    BY <1>1
  <2>3. s[Len(s)] = News(l, s[1].rev + (Len(s) - 1))
    BY <2>1, <2>2 DEF Tells
  <2>4. o.type = "op"
    BY <2>2, <2>3 DEF News
  <2> QED
    BY <2>4
<1>8. s = q
  BY <1>7 DEF s, Coming
<1> QED
  BY <1>3, <1>6, <1>7, <1>8

LEMMA ReceiveBook ==
    ASSUME IInv, NEW c \in Clients, Receive(c), NEW d \in Clients \ disturbed'
    PROVE  Book(d)'
<1> DEFINE m == Head(net[c])
<1>0. /\ TypeInv /\ BookInv /\ AwayInv /\ d \notin disturbed
      /\ UNCHANGED <<log, owed, members>> /\ net[c] # <<>> /\ net' = [net EXCEPT ![c] = Tail(@)]
  BY DEF IInv, Receive, serverVars
<1>1. /\ m.type = "op" => ReceiveOp(c, m)
      /\ m.type = "answer" => ReceiveAnswer(c, m)
      /\ m.type = "joined" => Seeded(c, m)
      /\ m.type = "error" => SendFails
  BY DEF Receive
<1>2. m \in Message /\ net'[c] = Tail(net[c])
  BY <1>0, TypesOf, QueueTail DEF TypeInv
<1> HIDE DEF m
<1>3. CASE d # c
  <2>1. ReceiveOp(c, m) \/ ReceiveAnswer(c, m) \/ Seeded(c, m) \/ SendFails
    BY <1>1, <1>2, Messages
  <2>2. /\ text'[d] = text[d] /\ revision'[d] = revision[d] /\ inflight'[d] = inflight[d]
        /\ buffer'[d] = buffer[d] /\ phase'[d] = phase[d] /\ up'[d] = up[d] /\ net'[d] = net[d]
    <3>1. net'[d] = net[d]
      BY <1>0, <1>3 DEF TypeInv
    <3>2. CASE ReceiveOp(c, m)
      BY <1>0, <1>3, <3>1, <3>2 DEF TypeInv, ReceiveOp
    <3>3. CASE ReceiveAnswer(c, m)
      BY <1>0, <1>3, <3>1, <3>3 DEF TypeInv, ReceiveAnswer, SendOp
    <3>4. CASE Seeded(c, m)
      BY <1>0, <1>3, <3>1, <3>4 DEF TypeInv, Seeded
    <3>5. CASE SendFails
      BY <1>0, <1>3, <3>1, <3>5 DEF TypeInv, SendFails, editorVars
    <3> QED
      BY <2>1, <3>2, <3>3, <3>4, <3>5
  <2> QED
    BY <1>0, <2>2, BookStays
<1> DEFINE l == log
           t == text[c]
           n == revision[c]
           i == inflight[c]
           b == buffer[c]
           u == up[c]
           q == net[c]
           o == owed[c]
<1>4. /\ l \in Seq(Op) /\ Len(l) \in Nat /\ t \in Seq(Char) /\ n \in Nat /\ n <= Len(l)
      /\ i \in Op \cup {Null} /\ b \in Op \cup {Null} /\ q \in Seq(Message) /\ q # <<>>
      /\ o \in Message \cup {Null} /\ (o # Null => o.type # "op")
      /\ phase[c] \in {"joining", "open", "down", "disposed"}
  <2>1. o # Null => o.type # "op"
    BY <1>0 DEF TypeInv, Answers
  <2>2. /\ log \in Seq(Op) /\ Len(log) \in Nat
        /\ text[c] \in Seq(Char) /\ revision[c] \in Nat /\ revision[c] <= Len(log)
        /\ inflight[c] \in Op \cup {Null} /\ buffer[c] \in Op \cup {Null}
        /\ net[c] \in Seq(Message) /\ (owed[c] # Null => owed[c] \in Message)
        /\ phase[c] \in {"joining", "open", "down", "disposed"}
    BY <1>0, TypesOf
  <2> QED
    BY <1>0, <2>1, <2>2
<1>5. m = Head(q)
  BY DEF m
<1>6. CASE d = c /\ phase[c] \in {"down", "disposed"}
  BY <1>0, <1>6 DEF AwayInv
<1>7. CASE d = c /\ phase[c] = "joining"
  <2>1. Entering(l, u, q, o, c \in members)
    BY <1>0, <1>7 DEF BookInv, Book, BookOf
  <2>2. /\ u = <<>> /\ o = Null /\ c \in members
        /\ q[1].type = "joined" /\ q[1].text = DocOf(l, q[1].rev) /\ Tells(l, q, 1, q[1].rev)
    BY <2>1, <1>4 DEF Entering
  <2> DEFINE k == q[1].rev
  <2>3. m = q[1] /\ k \in Nat /\ k <= Len(l) /\ 0 + 1 <= Len(q)
    <3>1. m = q[1] /\ Len(q) >= 1
      BY <1>4, <1>5, HeadTailProperties
    <3> QED
      BY <3>1, <1>2, <2>2, Messages DEF Tells
  <2>4. Tells(l, Tail(q), 0, k)
    <3>1. Tells(l, q, 0 + 1, k)
      BY <2>2
    <3> QED
      BY <3>1, <1>4, <2>3, TellsShift
  <2>5. /\ text'[c] = DocOf(l, k) /\ revision'[c] = k /\ inflight'[c] = Null /\ buffer'[c] = Null
        /\ phase'[c] = "open" /\ up'[c] = u
    BY <1>0, <1>1, <2>2, <2>3 DEF Seeded, TypeInv
  <2> HIDE DEF l, t, n, i, b, u, q, o, k
  <2>6. Idle(l, k, Null, u, Tail(q), o)
    BY <2>2, <2>4 DEF Idle
  <2>7. OnTop(l, DocOf(l, k), k, Null, Null)
    BY DEF OnTop, Effect
  <2>8. BookOf(l, DocOf(l, k), k, Null, Null, "open", u, Tail(q), o, TRUE)
    BY <2>6, <2>7 DEF BookOf
  <2> QED
    BY <1>0, <1>2, <1>7, <2>2, <2>5, <2>8 DEF Book, l, q, o
<1>8. CASE d = c /\ phase[c] = "open"
  <2>1. /\ c \in members /\ OnTop(l, t, n, i, b)
        /\ Idle(l, n, i, u, q, o) \/ Sent(l, n, i, u, q, o) \/ Served(l, n, i, u, q, o)
    BY <1>0, <1>8 DEF BookInv, Book, BookOf
  <2>2. CASE m.type = "op"
    <3> DEFINE e == m.op
               k == Moved(i, e)
               shown == Showing(t, i, b, e)
               left == Remaining(i, b, e)
    <3>1. /\ inflight' = [inflight EXCEPT ![c] = k] /\ buffer' = [buffer EXCEPT ![c] = left]
          /\ revision' = [revision EXCEPT ![c] = m.rev] /\ text' = [text EXCEPT ![c] = shown]
          /\ UNCHANGED <<phase, up>>
      BY <1>1, <2>2 DEF ReceiveOp, Showing, Moved, Remaining, Beside
    <3>2. /\ inflight'[c] = k /\ buffer'[c] = left /\ revision'[c] = m.rev /\ text'[c] = shown
          /\ phase'[c] = "open" /\ up'[c] = u
      <4> HIDE DEF k, left, shown
      <4> QED
        BY <1>0, <1>8, <3>1 DEF TypeInv
    <3> DEFINE kk == Moved(i, l[n + 1])
    <3>3. /\ n + 1 <= Len(l) /\ m = News(l, n + 1) /\ n + 1 \in Nat
          /\ \/ Idle(l, n + 1, kk, u, Tail(q), o) \/ Sent(l, n + 1, kk, u, Tail(q), o)
             \/ Served(l, n + 1, kk, u, Tail(q), o)
      <4> HIDE DEF l, t, n, i, b, u, q, o
      <4>1. \A x : x = kk =>
               /\ n + 1 <= Len(l) /\ Head(q) = News(l, n + 1) /\ n + 1 \in Nat
               /\ \/ Idle(l, n + 1, x, u, Tail(q), o) \/ Sent(l, n + 1, x, u, Tail(q), o)
                  \/ Served(l, n + 1, x, u, Tail(q), o)
        BY <1>4, <1>5, <2>1, <2>2, OpReceived
      <4> QED
        BY <4>1, <1>5
    <3>4. e = l[n + 1] /\ m.rev = n + 1
      BY <3>3 DEF News
    <3>5. k = kk
      BY <3>4
    <3>6. OnTop(l, shown, n + 1, k, left)
      <4> HIDE DEF l, t, n, i, b, u, q, o, e
      <4>1. /\ OnTop(l, t, n, i, b) /\ n + 1 <= Len(l) /\ e = l[n + 1]
            /\ l \in Seq(Op) /\ t \in Seq(Char) /\ n \in Nat
            /\ i \in Op \cup {Null} /\ b \in Op \cup {Null}
        BY <1>4, <2>1, <3>3, <3>4
      <4> QED
        BY <4>1, OnTopReceived
    <3> HIDE DEF l, t, n, i, b, u, q, o, e, k, kk, shown, left
    <3>7. BookOf(l, shown, n + 1, k, left, "open", u, Tail(q), o, TRUE)
      BY <3>3, <3>5, <3>6 DEF BookOf
    <3> QED
      BY <1>0, <1>2, <1>8, <2>1, <3>2, <3>4, <3>7 DEF Book, l, q, o
  <2>3. CASE m.type # "op"
    <3> DEFINE k == m.rev
    <3>1. /\ i \in Op /\ u = <<>> /\ o = Null /\ m.type = "answer" /\ m.success
          /\ k \in Nat /\ k <= Len(l) /\ Tells(l, Tail(q), 0, k)
          /\ \/ k = n + 1 /\ n + 1 <= Len(l) /\ l[n + 1] = i
             \/ k = n /\ isNoOp(i)
      <4> HIDE DEF l, t, n, i, b, u, q, o
      <4> QED
        BY <1>4, <1>5, <2>1, <2>3, AnswerReceived
    <3>2. /\ revision' = [revision EXCEPT ![c] = k] /\ inflight' = [inflight EXCEPT ![c] = b]
          /\ buffer' = [buffer EXCEPT ![c] = Null] /\ UNCHANGED <<text, phase>>
          /\ IF b = Null THEN UNCHANGED up ELSE SendOp(c, b, revision'[c])
      BY <1>1, <3>1 DEF ReceiveAnswer
    <3>3. /\ revision'[c] = k /\ inflight'[c] = b /\ buffer'[c] = Null /\ text'[c] = t /\ phase'[c] = "open"
      BY <1>0, <1>8, <3>2 DEF TypeInv
    <3>4. OnTop(l, t, k, b, Null)
      <4> HIDE DEF l, t, n, i, b, u, q, o, k
      <4> QED
        BY <1>4, <2>1, <3>1, OnTopAnswered
    <3>5. CASE b = Null
      <4>1. up'[c] = u
        BY <3>2, <3>5
      <4> HIDE DEF l, t, n, i, b, u, q, o, k
      <4>2. Idle(l, k, b, u, Tail(q), o)
        BY <3>1, <3>5 DEF Idle
      <4>3. BookOf(l, t, k, b, Null, "open", u, Tail(q), o, TRUE)
        BY <3>4, <4>2 DEF BookOf
      <4> QED
        BY <1>0, <1>2, <1>8, <2>1, <3>3, <4>1, <4>3 DEF Book, l, q, o
    <3>6. CASE b # Null
      <4> DEFINE r == [type |-> "op", op |-> b, base |-> k]
      <4>1. up'[c] = Append(u, r)
        BY <1>0, <1>8, <3>2, <3>3, <3>6 DEF SendOp, TypeInv
      <4>2. r \in OpRequest /\ r.op = b /\ r.base = k
        BY <1>4, <3>1, <3>6, RequestsAre
      <4> HIDE DEF l, t, n, i, b, u, q, o, k, r
      <4>3. Append(u, r) = <<r>>
        BY <3>1
      <4>4. Sent(l, k, b, Append(u, r), Tail(q), o)
        BY <3>1, <3>6, <4>2, <4>3 DEF Sent
      <4>5. BookOf(l, t, k, b, Null, "open", Append(u, r), Tail(q), o, TRUE)
        BY <3>4, <4>4 DEF BookOf
      <4> QED
        BY <1>0, <1>2, <1>8, <2>1, <3>3, <4>1, <4>5 DEF Book, l, q, o
    <3> QED
      BY <3>5, <3>6
  <2> QED
    BY <2>2, <2>3
<1> QED
  BY <1>3, <1>4, <1>6, <1>7, <1>8

LEMMA SendAnswerBook ==
    ASSUME IInv, NEW c \in Clients, SendAnswer(c), NEW d \in Clients \ disturbed'
    PROVE  Book(d)'
<1>0. /\ TypeInv /\ BookInv /\ AwayInv /\ d \notin disturbed /\ owed[c] # Null
      /\ UNCHANGED <<log, text, revision, inflight, buffer, phase, up>>
      /\ net' = [net EXCEPT ![c] = Append(net[c], owed[c])] /\ owed' = [owed EXCEPT ![c] = Null]
      /\ members' = IF owed[c].type = "joined" THEN members \cup {c} ELSE members
  BY DEF IInv, SendAnswer, serverVars, editorVars
<1>1. CASE d # c
  <2>1. net'[d] = net[d] /\ owed'[d] = owed[d] /\ ((d \in members') <=> (d \in members))
    BY <1>0, <1>1 DEF TypeInv
  <2> QED
    BY <1>0, <2>1, BookStays
<1> DEFINE l == log
           u == up[c]
           q == net[c]
           o == owed[c]
           s == Append(q, o)
<1>2. /\ net'[c] = s /\ owed'[c] = Null /\ phase[c] \in {"joining", "open", "down", "disposed"}
      /\ o \in Message /\ l \in Seq(Op) /\ Len(l) \in Nat
  BY <1>0, TypesOf DEF TypeInv
<1>3. phase[c] \in {"joining", "open"}
  BY <1>0, <1>2 DEF AwayInv
<1>4. CASE d = c /\ phase[c] = "joining"
  <2>1. Entering(l, u, q, o, c \in members)
    BY <1>0, <1>4 DEF BookInv, Book, BookOf
  <2>2. /\ u = <<>> /\ q = <<>>
        /\ o = [type |-> "joined", text |-> DocOf(l, Len(l)), rev |-> Len(l)]
    BY <2>1, <1>0 DEF Entering
  <2>3. c \in members'
    BY <1>0, <2>2
  <2> HIDE DEF l, u, q, o
  <2>4. s = <<o>>
    BY <2>2
  <2>5. /\ s # <<>> /\ s[1] = o /\ Len(s) = 1
        /\ o.type = "joined" /\ o.text = DocOf(l, Len(l)) /\ o.rev = Len(l)
    BY <2>2, <2>4
  <2> HIDE DEF s
  <2>6. Tells(l, s, 1, Len(l))
    BY <1>2, <2>5 DEF Tells
  <2>7. Entering(l, u, s, Null, TRUE)
    BY <2>2, <2>5, <2>6 DEF Entering
  <2>8. phase'[c] = "joining" /\ log' = l /\ up'[c] = u
    BY <1>0, <1>4 DEF l, u
  <2> QED
    BY <1>2, <1>4, <2>3, <2>7, <2>8 DEF Book, BookOf
<1>5. CASE d = c /\ phase[c] = "open"
  <2> DEFINE t == text[c]
             n == revision[c]
             i == inflight[c]
             b == buffer[c]
  <2>1. /\ c \in members /\ OnTop(l, t, n, i, b)
        /\ Idle(l, n, i, u, q, o) \/ Sent(l, n, i, u, q, o) \/ Served(l, n, i, u, q, o)
    BY <1>0, <1>5 DEF BookInv, Book, BookOf
  <2>2. Served(l, n, i, u, q, o)
    BY <2>1, <1>0 DEF Idle, Sent
  <2>3. c \in members'
    BY <1>0, <2>1
  <2>4. /\ phase'[c] = "open" /\ log' = l /\ up'[c] = u /\ text'[c] = t /\ revision'[c] = n
        /\ inflight'[c] = i /\ buffer'[c] = b
    BY <1>0, <1>5
  <2>5. Coming(q, o) = s /\ Coming(s, Null) = s
    BY <1>0 DEF Coming
  <2> HIDE DEF l, t, n, i, b, u, q, o, s
  <2>6. Served(l, n, i, u, s, Null)
    BY <2>2, <2>5 DEF Served
  <2>7. BookOf(l, t, n, i, b, "open", u, s, Null, TRUE)
    BY <2>1, <2>6 DEF BookOf
  <2> QED
    BY <1>2, <1>5, <2>3, <2>4, <2>7 DEF Book
<1> QED
  BY <1>1, <1>3, <1>4, <1>5

LEMMA ServeJoinBook ==
    ASSUME IInv, NEW c \in Clients, ServeJoin(c), NEW d \in Clients \ disturbed'
    PROVE  Book(d)'
<1> DEFINE joined == [type |-> "joined", text |-> DocAt(Len(log)), rev |-> Len(log)]
<1>0. /\ TypeInv /\ BookInv /\ AwayInv /\ d \notin disturbed
      /\ UNCHANGED <<log, text, revision, inflight, buffer, phase, net, members>>
      /\ up[c] # <<>> /\ Head(up[c]).type = "join" /\ owed[c] = Null
      /\ up' = [up EXCEPT ![c] = Tail(up[c])] /\ owed' = [owed EXCEPT ![c] = joined]
  BY DEF IInv, ServeJoin, Took, editorVars
<1> HIDE DEF joined
<1>1. CASE d # c
  <2>1. up'[d] = up[d] /\ owed'[d] = owed[d]
    BY <1>0, <1>1 DEF TypeInv
  <2> QED
    BY <1>0, <2>1, BookStays
<1>2. phase[c] \in {"joining", "open"}
  <2>1. phase[c] \in {"joining", "open", "down", "disposed"}
    BY <1>0, TypesOf
  <2> QED
    BY <1>0, <2>1 DEF AwayInv
<1>3. CASE d = c /\ phase[c] = "joining"
  <2>1. Entering(log, up[c], net[c], owed[c], c \in members)
    BY <1>0, <1>3 DEF BookInv, Book, BookOf
  <2>2. up[c] = <<[type |-> "join"]>> /\ net[c] = <<>> /\ c \notin members
    BY <1>0, <2>1 DEF Entering
  <2>3. up'[c] = Tail(up[c]) /\ owed'[c] = joined
    BY <1>0 DEF TypeInv
  <2>4. up'[c] = <<>>
    BY <2>2, <2>3
  <2>5. joined = [type |-> "joined", text |-> DocOf(log, Len(log)), rev |-> Len(log)]
    BY FoldsAre DEF joined
  <2>6. Entering(log, up'[c], net[c], owed'[c], FALSE)
    BY <2>2, <2>3, <2>4, <2>5 DEF Entering
  <2>7. net'[c] = net[c] /\ log' = log /\ (c \in members') = FALSE /\ phase'[c] = "joining"
    BY <1>0, <1>3, <2>2
  <2> QED
    BY <1>3, <2>6, <2>7 DEF Book, BookOf
<1>4. CASE d = c /\ phase[c] = "open"
  <2> DEFINE u == up[c]
  <2>1. \/ Idle(log, revision[c], inflight[c], u, net[c], owed[c])
        \/ Sent(log, revision[c], inflight[c], u, net[c], owed[c])
        \/ Served(log, revision[c], inflight[c], u, net[c], owed[c])
    BY <1>0, <1>4 DEF BookInv, Book, BookOf
  <2>2. Sent(log, revision[c], inflight[c], u, net[c], owed[c])
    BY <1>0, <2>1 DEF Idle, Served
  <2>3. PICK r \in OpRequest : u = <<r>>
    BY <2>2 DEF Sent
  <2>4. Head(u).type = "op"
    BY <2>3, RequestsAre
  <2> QED
    BY <1>0, <2>4
<1> QED
  BY <1>1, <1>2, <1>3, <1>4

LEMMA BreakBook ==
    ASSUME IInv, NEW c \in Clients, Break(c) \/ Dispose(c), NEW d \in Clients \ disturbed'
    PROVE  Book(d)'
<1>0. /\ TypeInv /\ BookInv /\ d \notin disturbed
      /\ Hangs(c, "down") \/ Hangs(c, "disposed")
  BY DEF IInv, Break, Dispose
<1>1. CASE d = c
  <2>1. phase'[c] \in {"down", "disposed"}
    BY <1>0 DEF Hangs, TypeInv
  <2> QED
    BY <2>1, <1>1, BookAway
<1>2. CASE d # c
  <2>1. /\ phase'[d] = phase[d] /\ up'[d] = up[d] /\ net'[d] = net[d] /\ owed'[d] = owed[d]
        /\ (d \in members') <=> (d \in members)
        /\ UNCHANGED <<log, text, revision, inflight, buffer>>
    BY <1>0, <1>2 DEF Hangs, TypeInv
  <2> QED
    BY <1>0, <2>1, BookStays
<1> QED
  BY <1>1, <1>2

LEMMA ReconnectBook ==
    ASSUME IInv, NEW c \in Clients, Reconnect(c), NEW d \in Clients \ disturbed'
    PROVE  Book(d)'
<1> DEFINE join == [type |-> "join"]
<1>0. /\ TypeInv /\ BookInv /\ AwayInv /\ phase[c] = "down" /\ disturbed' = disturbed \ {c}
      /\ phase' = [phase EXCEPT ![c] = "joining"] /\ up' = [up EXCEPT ![c] = <<join>>]
      /\ UNCHANGED <<log, text, revision, inflight, buffer, net, owed, members>>
  BY DEF IInv, Reconnect, serverVars
<1>1. CASE d = c
  <2>1. net[c] = <<>> /\ owed[c] = Null /\ c \notin members
    BY <1>0 DEF AwayInv
  <2>2. up'[c] = <<join>> /\ phase'[c] = "joining"
    BY <1>0 DEF TypeInv
  <2>3. Entering(log, up'[c], net[c], owed[c], FALSE)
    BY <2>1, <2>2 DEF Entering
  <2>4. net'[c] = net[c] /\ owed'[c] = owed[c] /\ log' = log /\ (c \in members') = FALSE
    BY <1>0, <2>1
  <2> QED
    BY <1>1, <2>2, <2>3, <2>4 DEF Book, BookOf
<1>2. CASE d # c
  <2>1. phase'[d] = phase[d] /\ up'[d] = up[d] /\ d \in Clients \ disturbed
    BY <1>0, <1>2 DEF TypeInv
  <2> QED
    BY <1>0, <2>1, BookStays
<1> QED
  BY <1>1, <1>2

LEMMA RefuseBook ==
    ASSUME IInv, NEW c \in Clients, Refuse(c), NEW d \in Clients \ disturbed'
    PROVE  Book(d)'
<1>1. /\ TypeInv /\ BookInv /\ d \in Clients \ disturbed /\ d # c
      /\ UNCHANGED <<log, text, revision, inflight, buffer, phase, net, members>>
      /\ up' = [up EXCEPT ![c] = Tail(up[c])]
  BY DEF IInv, Refuse, Took, editorVars
<1>2. up'[d] = up[d] /\ owed'[d] = owed[d]
  BY <1>1 DEF Refuse, TypeInv
<1> QED
  BY <1>1, <1>2, BookStays

LEMMA ServeLateBook ==
    ASSUME IInv, ServeLate \/ FailLate, NEW d \in Clients \ disturbed'
    PROVE  Book(d)'
<1> DEFINE r == Head(late)
<1>1. /\ TypeInv /\ BookInv /\ UNCHANGED <<editorVars, up, owed, members>>
      /\ UNCHANGED <<log, net, disturbed>> \/ Commit(r, members, {}) \/ Commit(r, {}, members)
  BY DEF IInv, ServeLate, FailLate
<1>2. r \in OpRequest
  BY HeadTailProperties DEF TypeInv, ServeLate, FailLate, IInv
<1> HIDE DEF r
<1>3. CASE UNCHANGED <<log, net, disturbed>>
  BY <1>1, <1>3, BookStays DEF editorVars
<1>4. CASE Commit(r, members, {})
  BY <1>1, <1>2, <1>4, OthersCommitted
<1>5. CASE Commit(r, {}, members)
  <2>1. d \notin members
    BY <1>5 DEF Commit
  <2> QED
    BY <1>1, <1>2, <1>5, <2>1, OthersCommitted
<1> QED
  BY <1>1, <1>3, <1>4, <1>5

LEMMA FailAfterCommitBook ==
    ASSUME IInv, NEW c \in Clients, FailAfterCommit(c), NEW d \in Clients \ disturbed'
    PROVE  Book(d)'
<1> DEFINE r == Head(up[c])
<1>1. /\ TypeInv /\ BookInv /\ UNCHANGED <<editorVars, members>>
      /\ up' = [up EXCEPT ![c] = Tail(up[c])]
      /\ \E told \in {{}, members \ {c}} : Commit(r, told, {c} \cup (members \ told))
  BY DEF IInv, FailAfterCommit, Took
<1>2. r \in OpRequest
  BY TookType DEF FailAfterCommit, IInv
<1> HIDE DEF r
<1>3. PICK told \in {{}, members \ {c}} : Commit(r, told, {c} \cup (members \ told))
  BY <1>1
<1>4. d # c /\ (d \in told <=> d \in members)
  BY <1>3 DEF Commit
<1>5. up'[d] = up[d] /\ owed'[d] = owed[d]
  BY <1>1, <1>4 DEF FailAfterCommit, TypeInv
<1> QED
  BY <1>1, <1>2, <1>3, <1>4, <1>5, OthersCommitted

\* The answer to an operation that has just been committed, as x, or absorbed.
LEMMA AnsweredAtOnce ==
    ASSUME NEW l \in Seq(Op), NEW n \in Nat, n <= Len(l), NEW i \in Op, NEW q \in Seq(Message),
           Tells(l, q, 0, n), NEW x \in Op, x = Past(l, i, n, Len(l))
    PROVE  /\ Answered(Append(l, x), n, i, Append(q, Answer(TRUE, Len(l) + 1)), Len(q) + 1)
           /\ isNoOp(x) => Answered(l, n, i, Append(q, Answer(TRUE, Len(l))), Len(q) + 1)
<1> DEFINE k == Len(l)
           p == Len(q) + 1
           g == Append(l, x)
<1>1. /\ k \in Nat /\ Len(q) \in Nat /\ p \in Nat /\ p - 1 = Len(q) /\ n + (p - 1) = k /\ n + p = k + 1
      /\ \A j \in 1..(p - 1) : q[j] = News(l, n + j) /\ n + j \in 1..k
  <2>1. Len(q) - 0 = Len(l) - n /\ \A j \in (0 + 1)..Len(q) : q[j] = News(l, n + (j - 0))
    BY DEF Tells
  <2>2. Len(l) \in Nat /\ Len(q) \in Nat
    OBVIOUS
  <2>3. p \in Nat /\ p - 1 = Len(q) /\ n + (p - 1) = Len(l) /\ n + p = Len(l) + 1
    BY <2>1, <2>2, SMTT(30)
  <2>4. \A j \in 1..(p - 1) : q[j] = News(l, n + j) /\ n + j \in 1..Len(l)
    <3> TAKE j \in 1..(p - 1)
    <3>1. j \in (0 + 1)..Len(q) /\ n + (j - 0) = n + j /\ n + j \in 1..Len(l)
      BY <2>2, <2>3
    <3> QED
      BY <3>1, <2>1
  <2> QED
    BY <2>2, <2>3, <2>4
<1>2. /\ Len(g) = k + 1 /\ g[k + 1] = x /\ \A j \in 1..k : News(g, j) = News(l, j)
  <2>1. Len(g) = k + 1 /\ g[k + 1] = x
    BY Appending
  <2> QED
    BY <2>1, LogGrows
<1>3. Past(g, i, n, k) = Past(l, i, n, k)
  <2>1. k \in Nat /\ k <= Len(l)
    BY <1>1
  <2> QED
    BY <2>1, PastStays
<1>4. x = Past(l, i, n, k)
  OBVIOUS
<1>5. \A m \in Message :
         /\ Len(Append(q, m)) = p /\ Append(q, m)[p] = m
         /\ \A j \in 1..(p - 1) : Append(q, m)[j] = q[j]
  BY <1>1, Appending
<1>6. \A v \in {k, k + 1} : /\ Answer(TRUE, v) \in Message /\ Answer(TRUE, v).type = "answer"
                           /\ Answer(TRUE, v).success /\ Answer(TRUE, v).rev = v /\ v \in Nat
  <2>1. \A v \in Nat : Answer(TRUE, v) \in Message
    BY Messages
  <2>2. \A v \in Nat : /\ Answer(TRUE, v).type = "answer" /\ Answer(TRUE, v).success
                       /\ Answer(TRUE, v).rev = v
    BY DEF Answer
  <2>3. k \in Nat /\ k + 1 \in Nat
    BY <1>1
  <2> HIDE DEF k
  <2> QED
    BY <2>1, <2>2, <2>3
<1> HIDE DEF k, p, g
<1>7. Answered(g, n, i, Append(q, Answer(TRUE, k + 1)), p)
  <2> DEFINE a == Answer(TRUE, k + 1)
             s == Append(q, a)
  <2>1. a \in Message /\ a.type = "answer" /\ a.success /\ a.rev = k + 1 /\ k + 1 \in Nat
    BY <1>6
  <2> HIDE DEF a
  <2>2. Len(s) = p /\ s[p] = a /\ \A j \in 1..(p - 1) : s[j] = News(g, n + j)
    BY <2>1, <1>1, <1>2, <1>5
  <2> HIDE DEF s
  <2>3. Tells(g, s, p, a.rev)
    BY <1>1, <1>2, <2>1, <2>2 DEF Tells
  <2>4. Answered(g, n, i, s, p)
    <3>1. p \in 1..Len(s) /\ n + (p - 1) <= Len(g) /\ a.rev = n + p
      BY <1>1, <1>2, <2>1, <2>2
    <3>2. g[n + p] = Past(g, i, n, n + (p - 1))
      BY <1>1, <1>2, <1>3, <1>4
    <3> QED
      BY <3>1, <3>2, <2>1, <2>2, <2>3 DEF Answered
  <2> QED
    BY <2>4 DEF s, a
<1>8. ASSUME isNoOp(x) PROVE Answered(l, n, i, Append(q, Answer(TRUE, k)), p)
  <2> DEFINE a == Answer(TRUE, k)
             s == Append(q, a)
  <2>1. a \in Message /\ a.type = "answer" /\ a.success /\ a.rev = k /\ k \in Nat
    BY <1>6
  <2> HIDE DEF a
  <2>2. Len(s) = p /\ s[p] = a /\ \A j \in 1..(p - 1) : s[j] = News(l, n + j)
    BY <2>1, <1>1, <1>5
  <2> HIDE DEF s
  <2>3. Len(l) = k
    BY DEF k
  <2>4. Tells(l, s, p, a.rev)
    BY <1>1, <2>1, <2>2, <2>3 DEF Tells
  <2>5. Answered(l, n, i, s, p)
    <3>1. p \in 1..Len(s) /\ n + (p - 1) <= Len(l) /\ a.rev = n + (p - 1)
      BY <1>1, <2>1, <2>2, <2>3
    <3>2. isNoOp(Past(l, i, n, n + (p - 1)))
      BY <1>1, <1>4, <1>8
    <3> QED
      BY <3>1, <3>2, <2>1, <2>2, <2>4 DEF Answered
  <2> QED
    BY <2>5 DEF s, a
<1> QED
  BY <1>7, <1>8 DEF k, p, g

LEMMA ServeOpBook ==
    ASSUME IInv, NEW c \in Clients, ServeOp(c), NEW d \in Clients \ disturbed'
    PROVE  Book(d)'
<1> DEFINE r == Head(up[c])
<1>0. /\ TypeInv /\ BookInv /\ AwayInv /\ up[c] # <<>> /\ r.type = "op" /\ owed[c] = Null
      /\ UNCHANGED <<editorVars, members>> /\ up' = [up EXCEPT ![c] = Tail(up[c])]
  BY DEF IInv, ServeOp, Took
<1>1. \/ /\ Absorbed(r) /\ owed' = [owed EXCEPT ![c] = Answer(TRUE, Len(log))]
         /\ UNCHANGED <<log, net, disturbed>>
      \/ Commit(r, members \ {c}, {}) /\ owed' = [owed EXCEPT ![c] = Answer(TRUE, Len(log'))]
  BY DEF ServeOp
<1>2. r \in OpRequest
  BY TookType DEF ServeOp, IInv
<1> HIDE DEF r
<1>3. d \notin disturbed
  BY <1>1 DEF Commit
<1>4. CASE d # c
  <2>1. up'[d] = up[d] /\ owed'[d] = owed[d]
    BY <1>0, <1>1, <1>4 DEF TypeInv
  <2>2. CASE UNCHANGED <<log, net, disturbed>>
    BY <1>0, <1>3, <2>1, <2>2, BookStays DEF editorVars
  <2>3. CASE Commit(r, members \ {c}, {})
    <3>1. d \in members \ {c} <=> d \in members
      BY <1>4
    <3> QED
      BY <1>0, <1>2, <2>1, <2>3, <3>1, OthersCommitted
  <2> QED
    BY <1>1, <2>2, <2>3
<1>5. CASE d = c
  <2> DEFINE l == log
             t == text[c]
             n == revision[c]
             i == inflight[c]
             b == buffer[c]
             u == up[c]
             q == net[c]
             o == owed[c]
             x == Transformed(r.op, r.base)
  <2>1. /\ l \in Seq(Op) /\ Len(l) \in Nat /\ n \in Nat /\ n <= Len(l) /\ i \in Op \cup {Null}
        /\ q \in Seq(Message) /\ phase[c] \in {"joining", "open", "down", "disposed"}
        /\ u # <<>> /\ Head(u) = r
    BY <1>0, TypesOf DEF r
  <2>2. phase[c] = "open"
    <3>1. phase[c] \notin {"down", "disposed"}
      BY <1>0 DEF AwayInv
    <3>2. ASSUME phase[c] = "joining" PROVE FALSE
      <4>1. Entering(l, u, q, o, c \in members)
        BY <1>0, <1>3, <1>5, <3>2 DEF BookInv, Book, BookOf
      <4>2. u = <<[type |-> "join"]>>
        BY <4>1, <2>1 DEF Entering
      <4>3. r = [type |-> "join"]
        BY <4>2, <2>1
      <4> QED
        BY <4>3, <1>0
    <3> QED
      BY <2>1, <3>1, <3>2
  <2>3. /\ c \in members /\ OnTop(l, t, n, i, b)
        /\ Idle(l, n, i, u, q, o) \/ Sent(l, n, i, u, q, o) \/ Served(l, n, i, u, q, o)
    BY <1>0, <1>3, <1>5, <2>2 DEF BookInv, Book, BookOf
  <2>4. /\ i \in Op /\ i # Null /\ Tells(l, q, 0, n) /\ Tail(u) = <<>>
        /\ x = Past(l, i, n, Len(l))
    <3>1. Sent(l, n, i, u, q, o)
      BY <2>1, <2>3 DEF Idle, Served
    <3>2. PICK rr \in OpRequest :
              u = <<rr>> /\ rr.base <= n /\ Past(l, rr.op, rr.base, Len(l)) = Past(l, i, n, Len(l))
      BY <3>1 DEF Sent
    <3>3. rr = r /\ Tail(u) = <<>>
      BY <3>2, <2>1
    <3>4. x = Past(l, r.op, r.base, Len(l))
      BY FoldsAre
    <3> QED
      BY <2>1, <3>1, <3>2, <3>3, <3>4 DEF Sent
  <2>5. x \in Op
    BY <1>2, <2>1, TransformedType
  <2>6. /\ text'[c] = t /\ revision'[c] = n /\ inflight'[c] = i /\ buffer'[c] = b /\ phase'[c] = "open"
        /\ up'[c] = <<>> /\ c \in members'
    BY <1>0, <2>2, <2>3, <2>4 DEF TypeInv, editorVars
  <2>7. \A a : Coming(q, a) = IF a = Null THEN q ELSE Append(q, a)
    BY DEF Coming
  <2>8. \A v \in Nat : Answer(TRUE, v) \in Message /\ Answer(TRUE, v) # Null
    BY Messages, AnswerAssumption
  <2>9. Len(q) + 1 \in Nat
    BY <2>1
  <2>10. CASE Absorbed(r) /\ owed' = [owed EXCEPT ![c] = Answer(TRUE, Len(log))]
              /\ UNCHANGED <<log, net, disturbed>>
    <3> DEFINE a == Answer(TRUE, Len(l))
    <3>1. owed'[c] = a /\ log' = l /\ net'[c] = q /\ isNoOp(x)
      BY <1>0, <2>10 DEF TypeInv, Absorbed
    <3>2. a # Null
      BY <2>1, <2>8
    <3> HIDE DEF l, t, n, i, b, u, q, o, x
    <3>3. Answered(l, n, i, Append(q, a), Len(q) + 1)
      BY <2>1, <2>4, <2>5, <3>1, AnsweredAtOnce
    <3> HIDE DEF a
    <3>4. Served(l, n, i, <<>>, q, a)
      BY <2>4, <2>7, <2>9, <3>2, <3>3 DEF Served
    <3>5. BookOf(l, t, n, i, b, "open", <<>>, q, a, TRUE)
      BY <2>3, <3>4 DEF BookOf
    <3> QED
      BY <1>5, <2>6, <3>1, <3>5 DEF Book
  <2>11. CASE Commit(r, members \ {c}, {}) /\ owed' = [owed EXCEPT ![c] = Answer(TRUE, Len(log'))]
    <3> DEFINE g == Append(l, x)
               a == Answer(TRUE, Len(l) + 1)
    <3>1. log' = g /\ net'[c] = q
      BY <1>0, <2>11 DEF Commit
    <3>2. Len(log') = Len(l) + 1
      BY <2>1, <2>5, <3>1, Appending
    <3>3. owed'[c] = a
      BY <1>0, <2>11, <3>2 DEF TypeInv
    <3>4. a # Null
      <4>1. Len(l) + 1 \in Nat
        BY <2>1
      <4> QED
        BY <2>8, <4>1
    <3> HIDE DEF l, t, n, i, b, u, q, o, x
    <3>5. Answered(g, n, i, Append(q, a), Len(q) + 1)
      BY <2>1, <2>4, <2>5, AnsweredAtOnce
    <3>6. OnTop(g, t, n, i, b)
      BY <2>1, <2>3, <2>5, OnTopStays
    <3> HIDE DEF a, g
    <3>7. Served(g, n, i, <<>>, q, a)
      BY <2>4, <2>7, <2>9, <3>4, <3>5 DEF Served
    <3>8. BookOf(g, t, n, i, b, "open", <<>>, q, a, TRUE)
      BY <3>6, <3>7 DEF BookOf
    <3> QED
      BY <1>5, <2>6, <3>1, <3>3, <3>8 DEF Book
  <2> QED
    BY <1>1, <2>10, <2>11
<1> QED
  BY <1>4, <1>5

----------------------------------------------------------------------------
\* Every step.

LEMMA IInvInit == Init => IInv
<1> SUFFICES ASSUME Init PROVE IInv
  OBVIOUS
<1>1. TypeInv
  BY TypeInit
<1>2. AwayInv
  BY DEF Init, AwayInv
<1>3. ASSUME NEW c \in Clients PROVE Book(c)
  <2>1. /\ phase[c] = "joining" /\ up[c] = <<[type |-> "join"]>> /\ net[c] = <<>> /\ owed[c] = Null
        /\ c \notin members
    BY DEF Init
  <2> QED
    BY <2>1 DEF Book, BookOf, Entering
<1> QED
  BY <1>1, <1>2, <1>3 DEF IInv, BookInv

LEMMA IInvStep ==
    IInv /\ [Next]_vars => IInv'
<1> SUFFICES ASSUME IInv, [Next]_vars PROVE IInv'
  OBVIOUS
<1>1. TypeInv'
  BY TypeStep DEF IInv
<1>2. AwayInv'
  BY AwayStep DEF IInv
<1>3. ASSUME NEW d \in Clients \ disturbed' PROVE Book(d)'
  <2>1. CASE UNCHANGED vars
    <3>1. UNCHANGED <<log, text, revision, inflight, buffer, phase, up, net, owed, members, disturbed>>
      BY <2>1 DEF vars, serverVars, editorVars, wire
    <3> QED
      BY <3>1, BookStays DEF IInv
  <2>2. ASSUME NEW c \in Clients, SendAnswer(c) \/ Reconnect(c) \/ ServeJoin(c)
        PROVE  Book(d)'
    BY <2>2, SendAnswerBook, ReconnectBook, ServeJoinBook
  <2>3. ASSUME NEW c \in Clients, ServeOp(c) \/ Receive(c)
        PROVE  Book(d)'
    BY <2>3, ServeOpBook, ReceiveBook
  <2>4. CASE ServeLate \/ FailLate
    BY <2>4, ServeLateBook
  <2>5. ASSUME NEW c \in Clients, Edit(c) \/ Break(c) \/ Dispose(c) \/ Refuse(c)
        PROVE  Book(d)'
    BY <2>5, EditBook, BreakBook, RefuseBook
  <2>6. ASSUME NEW c \in Clients, FailAfterCommit(c)
        PROVE  Book(d)'
    BY <2>6, FailAfterCommitBook
  <2> QED
    BY <2>1, <2>2, <2>3, <2>4, <2>5, <2>6 DEF Next, Work
<1> QED
  BY <1>1, <1>2, <1>3 DEF IInv, BookInv

LEMMA OnTopIs == IInv => PendingOnTop
<1> SUFFICES ASSUME IInv, NEW c \in Clients \ disturbed, phase[c] = "open"
             PROVE  text[c] = Effect(Effect(DocAt(revision[c]), inflight[c]), buffer[c])
  BY DEF PendingOnTop
<1>1. OnTop(log, text[c], revision[c], inflight[c], buffer[c])
  BY DEF IInv, BookInv, Book, BookOf
<1> QED
  BY <1>1, FoldsAre DEF OnTop

\* What an editor shows is at every moment the server's text at the revision it
\* builds on, then what is in flight, then what is buffered, as long as its own
\* connection goes by the book - for any number of editors, any text and any
\* keys, through any order of broadcasts, answers, broken connections and
\* requests that arrive late (monaco-collab.js:84-141, 412-430;
\* DocumentSession.cs:155-274).
THEOREM PendingKept == Spec => []PendingOnTop
BY IInvInit, IInvStep, OnTopIs, PTL DEF Spec

----------------------------------------------------------------------------
\* A character that is typed is in one place at a time: in the document, in a
\* request that a lost connection left behind, or with one editor, in a request on
\* its way to the server or in the buffer.

\* How often the requests s insert the character k, and the buffer b.
Brought(k) == [r \in Request |-> IF r.type = "op" THEN Inserted(r.op, k) ELSE 0]

Word(s, k) == Total(Request, Brought(k), s)

Buffered(b, k) == IF b = Null THEN 0 ELSE Inserted(b, k)

\* Of the characters that everybody has (n) and those that each client c has (w[c])
\* there are at most m together.
AtMost(m, n, w) ==
    /\ n <= m
    /\ \A c \in Clients : n + w[c] <= m
    /\ \A c, d \in Clients : c # d => w[c] + w[d] <= m

Held(k) == Copies(DocOf(log, Len(log)), k) + Word(late, k)

Own(k) == [c \in Clients |-> Word(up[c], k) + Buffered(buffer[c], k)]

\* A key that has not been typed is nowhere.
Room(k) == IF \E i \in DOMAIN Keys : i > count.edits /\ Keys[i] = k THEN 0 ELSE 1

OnceInv == \A k \in Char : AtMost(Room(k), Held(k), Own(k))

LEMMA BroughtIs ==
    ASSUME NEW k
    PROVE  /\ Brought(k) \in [Request -> Nat]
           /\ \A r \in OpRequest : Brought(k)[r] = Inserted(r.op, k)
           /\ Brought(k)[[type |-> "join"]] = 0
<1>1. \A r \in Request : r.type = "op" => r.op \in Op
  BY RequestsAre
<1>2. \A op \in Op : Inserted(op, k) \in Nat
  BY InsertedLaws
<1>3. Brought(k) \in [Request -> Nat]
  BY <1>1, <1>2 DEF Brought
<1> QED
  BY <1>3, RequestsAre DEF Brought

LEMMA WordLaws ==
    ASSUME NEW k
    PROVE  /\ Word(<<>>, k) = 0
           /\ \A s \in Seq(Request) : Word(s, k) \in Nat
           /\ \A s \in Seq(Request), r \in Request :
                  Word(Append(s, r), k) = Word(s, k) + Brought(k)[r]
           /\ \A s, t \in Seq(Request) : Word(s \o t, k) = Word(s, k) + Word(t, k)
           /\ \A s \in Seq(Request), n \in Nat :
                  n <= Len(s) => Word(SubSeq(s, 1, n), k) <= Word(s, k)
<1>1. Brought(k) \in [Request -> Nat]
  BY BroughtIs
<1>2. \A s \in Seq(Request), n \in Nat :
          n <= Len(s) => Total(Request, Brought(k), SubSeq(s, 1, n)) <= Total(Request, Brought(k), s)
  BY <1>1, TotalOfFirst
<1> QED
  BY <1>1, <1>2, TotalFirst, TotalJoined DEF Word

LEMMA WordTail ==
    ASSUME NEW k, NEW s \in Seq(Request), s # <<>>
    PROVE  /\ Tail(s) \in Seq(Request) /\ Head(s) \in Request
           /\ Word(s, k) = Brought(k)[Head(s)] + Word(Tail(s), k)
           /\ Brought(k)[Head(s)] \in Nat
<1>1. Tail(s) \in Seq(Request) /\ Head(s) \in Request /\ s = <<Head(s)>> \o Tail(s)
  BY HeadTailProperties
<1>2. Brought(k) \in [Request -> Nat]
  BY BroughtIs
<1>3. Total(Request, Brought(k), <<Head(s)>> \o Tail(s))
        = Brought(k)[Head(s)] + Total(Request, Brought(k), Tail(s))
  BY <1>1, <1>2, TotalFirst
<1> QED
  BY <1>1, <1>2, <1>3 DEF Word

LEMMA RequestSeqs ==
    /\ Requests \subseteq Seq(Request)
    /\ Seq(OpRequest) \subseteq Seq(Request)
<1>1. \A s \in Seq(OpRequest) : \A i \in 1..Len(s) : s[i] \in Request
  BY RequestsAre
<1>2. \A s \in Seq(OpRequest) : s \in Seq(Request)
  BY <1>1, OtherElements
<1> QED
  BY <1>2 DEF Requests

LEMMA BufferedType ==
    ASSUME NEW k, NEW b \in Op \cup {Null}
    PROVE  Buffered(b, k) \in Nat
BY InsertedLaws DEF Buffered

\* What there is of every character is a number.
OnceTyped ==
    \A k \in Char :
        /\ Held(k) \in Nat /\ Own(k) \in [Clients -> Nat]
        /\ Copies(DocOf(log, Len(log)), k) \in Nat /\ Word(late, k) \in Nat
        /\ \A c \in Clients : /\ Word(up[c], k) \in Nat /\ Buffered(buffer[c], k) \in Nat
                              /\ Own(k)[c] = Word(up[c], k) + Buffered(buffer[c], k)

LEMMA OwnType == TypeInv => OnceTyped
<1> SUFFICES ASSUME TypeInv, NEW k \in Char
             PROVE  /\ Held(k) \in Nat /\ Own(k) \in [Clients -> Nat]
                    /\ Copies(DocOf(log, Len(log)), k) \in Nat /\ Word(late, k) \in Nat
                    /\ \A c \in Clients :
                          /\ Word(up[c], k) \in Nat /\ Buffered(buffer[c], k) \in Nat
                          /\ Own(k)[c] = Word(up[c], k) + Buffered(buffer[c], k)
  BY DEF OnceTyped
<1>1. log \in Seq(Op) /\ Len(log) \in Nat /\ Len(log) <= Len(log) /\ late \in Seq(Request)
  BY RequestSeqs DEF TypeInv
<1>2. Copies(DocOf(log, Len(log)), k) \in Nat /\ Word(late, k) \in Nat
  <2>1. DocOf(log, Len(log)) \in Seq(Char)
    BY <1>1, DocType
  <2> QED
    BY <1>1, <2>1, CopiesLaws, WordLaws
<1>3. ASSUME NEW c \in Clients PROVE Word(up[c], k) \in Nat /\ Buffered(buffer[c], k) \in Nat
  <2>1. up[c] \in Seq(Request) /\ buffer[c] \in Op \cup {Null}
    BY RequestSeqs DEF TypeInv
  <2> QED
    BY <2>1, WordLaws, BufferedType
<1> QED
  BY <1>2, <1>3 DEF Held, Own

LEMMA OwnTypeNext == TypeInv' => OnceTyped'
<1>1. (TypeInv => OnceTyped)'
  BY OwnType, PTL
<1> QED
  BY <1>1

LEMMA RoomStays ==
    ASSUME NEW k, count'.edits = count.edits
    PROVE  Room(k)' = Room(k)
BY DEF Room

\* What does not put a character anywhere.
LEMMA AtMostLess ==
    ASSUME NEW m \in Nat, NEW n \in Nat, NEW w \in [Clients -> Nat],
           NEW o \in Nat, NEW v \in [Clients -> Nat],
           AtMost(m, n, w), o <= n, \A c \in Clients : v[c] <= w[c]
    PROVE  AtMost(m, o, v)
<1>1. \A c \in Clients : w[c] \in Nat /\ v[c] \in Nat
  OBVIOUS
<1>2. ASSUME NEW c \in Clients PROVE o + v[c] <= m
  <2>1. n + w[c] <= m /\ v[c] <= w[c]
    BY DEF AtMost
  <2> QED
    BY <1>1, <2>1
<1>3. ASSUME NEW c \in Clients, NEW d \in Clients, c # d PROVE v[c] + v[d] <= m
  <2>1. w[c] + w[d] <= m /\ v[c] <= w[c] /\ v[d] <= w[d]
    BY <1>3 DEF AtMost
  <2> QED
    BY <1>1, <2>1
<1> QED
  BY <1>2, <1>3 DEF AtMost

\* One that the client a had comes to everybody, or is lost.
LEMMA AtMostMoved ==
    ASSUME NEW m \in {0, 1}, NEW n \in Nat, NEW w \in [Clients -> Nat],
           NEW o \in Nat, NEW v \in [Clients -> Nat], NEW a \in Clients,
           AtMost(m, n, w), o + v[a] <= n + w[a], v[a] <= w[a],
           \A c \in Clients \ {a} : v[c] = w[c]
    PROVE  AtMost(m, o, v)
<1>1. \A c \in Clients : w[c] \in Nat /\ v[c] \in Nat /\ v[c] <= w[c] /\ n + w[c] <= m
  BY DEF AtMost
<1>2. ASSUME NEW c \in Clients PROVE o + v[c] <= m
  <2>1. CASE c = a
    BY <1>1, <2>1
  <2>2. CASE c # a
    <3>1. w[a] + w[c] <= m /\ v[c] = w[c]
      BY <2>2 DEF AtMost
    <3> DEFINE p == w[a]
               q == w[c]
               r == v[a]
    <3>2. p \in Nat /\ q \in Nat /\ r \in Nat /\ n + p <= m /\ n + q <= m /\ p + q <= m /\ o + r <= n + p
      BY <1>1, <3>1
    <3> HIDE DEF p, q, r
    <3>3. o + q <= m
      BY <3>2
    <3> QED
      BY <3>1, <3>3 DEF q
  <2> QED
    BY <2>1, <2>2
<1>3. ASSUME NEW c \in Clients, NEW d \in Clients, c # d PROVE v[c] + v[d] <= m
  <2>1. w[c] + w[d] <= m /\ v[c] <= w[c] /\ v[d] <= w[d]
    BY <1>1, <1>3 DEF AtMost
  <2> QED
    BY <1>1, <2>1
<1>4. o <= m
  BY <1>1, <1>2
<1> QED
  BY <1>2, <1>3, <1>4 DEF AtMost

\* A new one comes to the client a.
LEMMA AtMostNew ==
    ASSUME NEW n \in Nat, NEW w \in [Clients -> Nat],
           NEW v \in [Clients -> Nat], NEW a \in Clients,
           AtMost(0, n, w), v[a] <= w[a] + 1, \A c \in Clients \ {a} : v[c] = w[c]
    PROVE  AtMost(1, n, v)
<1>1. n = 0 /\ \A c \in Clients : w[c] = 0
  BY DEF AtMost
<1>2. \A c \in Clients : v[c] \in Nat /\ v[c] <= 1 /\ (c # a => v[c] = 0)
  BY <1>1
<1> QED
  BY <1>1, <1>2 DEF AtMost
\* The two ways in which a step can leave the invariant.
LEMMA OnceLess ==
    ASSUME TypeInv, TypeInv', OnceInv, count'.edits = count.edits,
           \A k \in Char : Held(k)' <= Held(k) /\ \A c \in Clients : Own(k)'[c] <= Own(k)[c]
    PROVE  OnceInv'
<1> SUFFICES ASSUME NEW k \in Char PROVE AtMost(Room(k), Held(k), Own(k))'
  BY DEF OnceInv
<1>1. /\ Held(k) \in Nat /\ Own(k) \in [Clients -> Nat]
      /\ Held(k)' \in Nat /\ Own(k)' \in [Clients -> Nat]
  BY OwnType, OwnTypeNext DEF OnceTyped
<1>2. Room(k)' = Room(k) /\ Room(k) \in Nat
  BY RoomStays DEF Room
<1>3. AtMost(Room(k), Held(k), Own(k))
  BY DEF OnceInv
<1> DEFINE n == Held(k)
           o == Held(k)'
           w == Own(k)
           v == Own(k)'
<1>4. o <= n /\ \A c \in Clients : v[c] <= w[c]
  OBVIOUS
<1>5. n \in Nat /\ w \in [Clients -> Nat] /\ o \in Nat /\ v \in [Clients -> Nat]
  BY <1>1
<1> HIDE DEF n, o, w, v
<1>6. AtMost(Room(k), o, v)
  BY <1>2, <1>3, <1>4, <1>5, AtMostLess DEF n, w
<1> QED
  BY <1>2, <1>6 DEF AtMost, o, v

LEMMA OnceMoved ==
    ASSUME TypeInv, TypeInv', OnceInv, count'.edits = count.edits, NEW a \in Clients,
           \A c \in Clients \ {a} : up'[c] = up[c] /\ buffer'[c] = buffer[c],
           \A k \in Char : /\ Held(k)' + Own(k)'[a] <= Held(k) + Own(k)[a]
                           /\ Own(k)'[a] <= Own(k)[a]
    PROVE  OnceInv'
<1> SUFFICES ASSUME NEW k \in Char PROVE AtMost(Room(k), Held(k), Own(k))'
  BY DEF OnceInv
<1>1. /\ Held(k) \in Nat /\ Own(k) \in [Clients -> Nat]
      /\ Held(k)' \in Nat /\ Own(k)' \in [Clients -> Nat]
  BY OwnType, OwnTypeNext DEF OnceTyped
<1>2. Room(k)' = Room(k) /\ Room(k) \in {0, 1}
  BY RoomStays DEF Room
<1>3. AtMost(Room(k), Held(k), Own(k))
  BY DEF OnceInv
<1>4. \A c \in Clients \ {a} : Own(k)'[c] = Own(k)[c]
  BY OwnType, OwnTypeNext DEF OnceTyped
<1> DEFINE n == Held(k)
           o == Held(k)'
           w == Own(k)
           v == Own(k)'
<1>5. o + v[a] <= n + w[a] /\ v[a] <= w[a] /\ \A c \in Clients \ {a} : v[c] = w[c]
  BY <1>4
<1>6. n \in Nat /\ w \in [Clients -> Nat] /\ o \in Nat /\ v \in [Clients -> Nat]
  BY <1>1
<1> HIDE DEF n, o, w, v
<1>7. AtMost(Room(k), o, v)
  BY <1>2, <1>3, <1>5, <1>6, AtMostMoved DEF n, w
<1> QED
  BY <1>2, <1>7 DEF AtMost, o, v

----------------------------------------------------------------------------
\* The characters to begin with.

LEMMA KeysDiffer ==
    /\ \A i, j \in DOMAIN Seed : i # j => Seed[i] # Seed[j]
    /\ \A i, j \in DOMAIN Keys : i # j => Keys[i] # Keys[j]
    /\ \A i \in DOMAIN Seed, j \in DOMAIN Keys : Seed[i] # Keys[j]
<1> DEFINE all == Seed \o Keys
           n == Len(Seed)
<1>1. Seed \in Seq(Char) /\ Keys \in Seq(Char) /\ n \in Nat /\ Len(Keys) \in Nat
  BY BoundsAssumption
<1>2. /\ DOMAIN all = 1..(n + Len(Keys)) /\ DOMAIN Seed = 1..n /\ DOMAIN Keys = 1..Len(Keys)
      /\ \A i \in 1..n : all[i] = Seed[i]
      /\ \A j \in 1..Len(Keys) : all[n + j] = Keys[j]
  BY <1>1
<1>3. \A i, j \in DOMAIN all : i # j => all[i] # all[j]
  BY KeysAssumption
<1> HIDE DEF all, n
<1>4. \A i \in 1..n : i \in DOMAIN all
  BY <1>1, <1>2
<1>5. \A j \in 1..Len(Keys) : n + j \in DOMAIN all /\ j \in Nat
  BY <1>1, <1>2
<1>6. \A i \in 1..n, j \in 1..Len(Keys) : i # n + j
  BY <1>1
<1>7. \A i, j \in 1..Len(Keys) : i # j => n + i # n + j
  BY <1>1
<1> QED
  BY <1>2, <1>3, <1>4, <1>5, <1>6, <1>7

\* A character that a text has at one place only is in it once.
LEMMA CopiesOnce ==
    ASSUME NEW t \in Seq(Char), NEW k \in Char, \A i, j \in DOMAIN t : i # j => t[i] # t[j]
    PROVE  Copies(t, k) <= 1
<1>1. CASE k \notin Range(t)
  BY <1>1, CopiesAbsent
<1>2. CASE k \in Range(t)
  <2>1. PICK i \in 1..Len(t) : t[i] = k
    BY <1>2 DEF Range
  <2> DEFINE n == i - 1
             x == SubSeq(t, 0 + 1, n)
             y == SubSeq(t, (n + 1) + 1, Len(t))
  <2>2. /\ n \in Nat /\ n < Len(t) /\ n <= Len(t) /\ Len(t) \in Nat /\ n + 1 = i
        /\ n + 1 \in Nat /\ Len(t) <= Len(t)
    OBVIOUS
  <2>3. /\ x \in Seq(Char) /\ Len(x) = IF 0 < n THEN n - 0 ELSE 0
        /\ \A j \in 1..(n - 0) : x[j] = t[0 + j]
    BY <2>2, Pieces
  <2>4. /\ y \in Seq(Char) /\ Len(y) = IF n + 1 < Len(t) THEN Len(t) - (n + 1) ELSE 0
        /\ \A j \in 1..(Len(t) - (n + 1)) : y[j] = t[(n + 1) + j]
    BY <2>2, Pieces
  <2>5. SubSeq(t, n + 1, Len(t)) = <<k>> \o y
    BY <2>1, <2>2, PieceFirst
  <2>6. t = x \o (<<k>> \o y)
    <3>1. Cut(t, 0, n) \o Cut(t, n, Len(t)) = t
      BY <2>2, CutsMake
    <3>2. Cut(t, 0, n) = x /\ Cut(t, n, Len(t)) = SubSeq(t, n + 1, Len(t))
      BY <2>2 DEF Cut, Least
    <3> QED
      BY <2>5, <3>1, <3>2
  <2> HIDE DEF x, y
  <2>7. k \notin Range(x)
    <3>1. ASSUME NEW j \in 1..Len(x) PROVE x[j] # k
      <4>1. j \in 1..(n - 0) /\ j \in 1..Len(t) /\ j # i /\ 0 + j = j
        BY <2>2, <2>3
      <4>2. x[j] = t[j]
        BY <2>3, <4>1
      <4> QED
        BY <2>1, <4>1, <4>2
    <3> QED
      BY <2>3, <3>1 DEF Range
  <2>8. k \notin Range(y)
    <3>1. ASSUME NEW j \in 1..Len(y) PROVE y[j] # k
      <4>1. j \in 1..(Len(t) - (n + 1)) /\ (n + 1) + j \in 1..Len(t) /\ (n + 1) + j # i
        BY <2>2, <2>4
      <4>2. y[j] = t[(n + 1) + j]
        BY <2>4, <4>1
      <4> QED
        BY <2>1, <4>1, <4>2
    <3> QED
      BY <2>4, <3>1 DEF Range
  <2>9. Copies(x, k) = 0 /\ Copies(y, k) = 0 /\ Copies(<<k>>, k) = 1
    BY <2>3, <2>4, <2>7, <2>8, CopiesAbsent, CopyOfOne
  <2>10. <<k>> \in Seq(Char) /\ <<k>> \o y \in Seq(Char)
    BY <2>4, Joining
  <2>11. Copies(<<k>> \o y, k) = 1 + 0
    <3>1. Copies(<<k>> \o y, k) = Copies(<<k>>, k) + Copies(y, k)
      BY <2>4, <2>10, CopiesLaws
    <3> QED
      BY <2>9, <3>1
  <2>12. Copies(x \o (<<k>> \o y), k) = 0 + (1 + 0)
    <3> DEFINE z == <<k>> \o y
    <3>1. z \in Seq(Char) /\ Copies(z, k) = 1
      BY <2>10, <2>11
    <3> HIDE DEF z
    <3>2. Copies(x \o z, k) = Copies(x, k) + Copies(z, k)
      BY <2>3, <3>1, CopiesLaws
    <3>3. Copies(x \o z, k) = 0 + (1 + 0)
      BY <2>9, <3>1, <3>2
    <3> QED
      BY <3>3 DEF z
  <2> QED
    BY <2>6, <2>12
<1> QED
  BY <1>1, <1>2

LEMMA OnceInit == Init => OnceInv
<1> SUFFICES ASSUME Init, NEW k \in Char PROVE AtMost(Room(k), Held(k), Own(k))
  BY DEF OnceInv
<1>1. Seed \in Seq(Char) /\ Keys \in Seq(Char)
  BY BoundsAssumption
<1>2. Held(k) = Copies(Seed, k)
  <2>1. log = <<>> /\ Len(log) = 0 /\ late = <<>>
    BY DEF Init
  <2>2. SubSeq(log, 0 + 1, 0) = <<>>
    BY PieceEmpty
  <2>3. DocOf(log, 0) = Seed
    BY <2>2, FoldEmpty DEF DocOf
  <2>4. Word(late, k) = 0 /\ Copies(Seed, k) \in Nat
    BY <1>1, <2>1, WordLaws, CopiesLaws
  <2> QED
    BY <2>1, <2>3, <2>4 DEF Held
<1>3. \A c \in Clients : Own(k)[c] = 0
  <2> DEFINE j == [type |-> "join"]
  <2>1. ASSUME NEW c \in Clients PROVE up[c] = <<j>> /\ buffer[c] = Null
    BY DEF Init
  <2>2. Word(<<j>>, k) = 0
    <3>1. <<j>> = Append(<<>>, j) /\ <<>> \in Seq(Request)
      OBVIOUS
    <3>2. j \in Request /\ Brought(k)[j] = 0
      BY RequestsAre, BroughtIs
    <3> HIDE DEF j
    <3>3. Word(Append(<<>>, j), k) = Word(<<>>, k) + Brought(k)[j]
      BY <3>1, <3>2, WordLaws
    <3>4. Word(<<>>, k) = 0
      BY WordLaws
    <3> QED
      BY <3>1, <3>2, <3>3, <3>4
  <2> HIDE DEF j
  <2> QED
    BY <2>1, <2>2 DEF Own, Buffered
<1>4. Copies(Seed, k) \in Nat /\ Copies(Seed, k) <= Room(k)
  <2>1. Copies(Seed, k) \in Nat /\ Copies(Seed, k) <= 1
    BY <1>1, KeysDiffer, CopiesOnce, CopiesLaws
  <2>2. ASSUME NEW i \in DOMAIN Keys, Keys[i] = k PROVE Copies(Seed, k) = 0
    <3>1. k \notin Range(Seed)
      BY <2>2, KeysDiffer DEF Range
    <3> QED
      BY <1>1, <3>1, CopiesAbsent
  <2> QED
    BY <2>1, <2>2 DEF Room
<1>5. Room(k) \in Nat
  BY DEF Room
<1> QED
  BY <1>2, <1>3, <1>4, <1>5 DEF AtMost

----------------------------------------------------------------------------
\* What a keystroke types.

LEMMA SortedOfOne ==
    ASSUME NEW c
    PROVE  sorted({c}) = <<c>>
<1>1. SetToSeqs({c}) = {<<c>>}
  <2>1. Cardinality({c}) = 1
    BY FS_Singleton
  <2>2. \A s \in [1..1 -> {c}] : s = <<c>>
    OBVIOUS
  <2>3. <<c>> \in [1..1 -> {c}]
    OBVIOUS
  <2> QED
    BY <2>1, <2>2, <2>3 DEF SetToSeqs
<1>2. \A i, j \in DOMAIN <<c>> : i < j => <<c>>[i].rangeOffset < <<c>>[j].rangeOffset
  OBVIOUS
<1> QED
  BY <1>1, <1>2 DEF sorted

LEMMA MonacoInserted ==
    ASSUME NEW c \in Change, NEW k
    PROVE  Inserted(fromMonacoChanges({c}), k) = Copies(c.text, k)
<1> DEFINE s == <<insert(c.text)>>
           d == <<del(c.rangeLength)>> \o s
<1>1. /\ c.rangeOffset \in Nat /\ c.rangeLength \in Nat /\ c.text \in Seq(Char)
      /\ Copies(c.text, k) \in Nat
  BY ChangeAt, CopiesLaws
<1>2. Gathered(0, <<c>>) = Part(0, c)
  <2>1. <<c>> \o <<>> = <<c>> /\ <<>> \in Seq(Change) /\ 0 \in Nat
    OBVIOUS
  <2>2. End(c) \in Nat /\ Part(0, c) \in Op
    BY PartType
  <2>3. Gathered(0, <<c>> \o <<>>) = Part(0, c) \o Gathered(End(c), <<>>)
    BY <2>1, GatheredFirst
  <2>4. Gathered(End(c), <<>>) = <<>>
    BY FoldEmpty DEF Gathered, To
  <2>5. Part(0, c) \o <<>> = Part(0, c)
    BY <2>2, ConcatEmptySeq DEF Op
  <2> QED
    BY <2>1, <2>3, <2>4, <2>5
<1>3. <<>> \in Op /\ Inserted(<<>>, k) = 0
  BY InsertedLaws DEF Op
<1>4. s \in Op /\ Inserted(s, k) = Copies(c.text, k)
  <2>1. insert(c.text) \in Component
    BY <1>1, Constructors
  <2>2. s \in Op /\ <<insert(c.text)>> \o <<>> = s
    BY <2>1 DEF Op
  <2>3. Inserted(<<insert(c.text)>> \o <<>>, k) = Copies(c.text, k) + Inserted(<<>>, k)
    BY <1>1, <1>3, InsertedFirst
  <2> QED
    BY <1>1, <1>3, <2>2, <2>3
<1> HIDE DEF s
<1>5. d \in Op /\ Inserted(d, k) = Copies(c.text, k)
  <2>1. del(c.rangeLength) \in Component
    BY <1>1, Constructors
  <2>2. <<del(c.rangeLength)>> \in Op /\ d \in Op
    BY <1>4, <2>1 DEF Op
  <2> QED
    BY <1>1, <1>4, <2>2, InsertedFirst
<1>6. Part(0, c) = Gap(0, c) \o d
  BY DEF Part, d, s
<1> HIDE DEF d
<1>7. Inserted(Part(0, c), k) = Copies(c.text, k) /\ Part(0, c) \in Op
  <2>1. CASE c.rangeOffset > 0
    <3>1. c.rangeOffset - 0 \in Nat /\ Gap(0, c) = <<retain(c.rangeOffset - 0)>>
      BY <1>1, <2>1 DEF Gap
    <3>2. Inserted(<<retain(c.rangeOffset - 0)>> \o d, k) = Inserted(d, k)
      BY <1>5, <3>1, InsertedFirst
    <3> QED
      BY <1>5, <1>6, <3>1, <3>2, PartType
  <2>2. CASE ~(c.rangeOffset > 0)
    <3>1. Gap(0, c) = <<>> /\ <<>> \o d = d
      BY <1>5, <2>2, ConcatEmptySeq DEF Gap, Op
    <3> QED
      BY <1>5, <1>6, <3>1
  <2> QED
    BY <2>1, <2>2
<1>8. fromMonacoChanges({c}) = compact(Part(0, c))
  BY <1>2, MonacoIs, SortedOfOne
<1> QED
  BY <1>7, <1>8, CompactInserted

----------------------------------------------------------------------------
\* The editors.

LEMMA SendWord ==
    ASSUME TypeInv, NEW c \in Clients, NEW op \in Op, NEW rev \in Nat, SendOp(c, op, rev)
    PROVE  /\ \A d \in Clients \ {c} : up'[d] = up[d]
           /\ \A k \in Char : Word(up'[c], k) <= Word(up[c], k) + Inserted(op, k)
<1> DEFINE r == [type |-> "op", op |-> op, base |-> rev]
<1>1. r \in OpRequest /\ r \in Request /\ r.op = op
  BY RequestsAre
<1>2. up[c] \in Seq(Request) /\ up \in [Clients -> Requests]
  BY RequestSeqs DEF TypeInv
<1> HIDE DEF r
<1>3. \A k \in Char : Inserted(op, k) \in Nat /\ Word(up[c], k) \in Nat
  BY <1>2, InsertedLaws, WordLaws
<1>4. CASE phase[c] \in {"joining", "open"}
  <2>1. up' = [up EXCEPT ![c] = Append(up[c], r)]
    BY <1>4 DEF SendOp, r
  <2>2. ASSUME NEW k \in Char PROVE Word(Append(up[c], r), k) = Word(up[c], k) + Inserted(op, k)
    <3>1. Word(Append(up[c], r), k) = Word(up[c], k) + Brought(k)[r]
      BY <1>1, <1>2, WordLaws
    <3> QED
      BY <1>1, <3>1, BroughtIs
  <2> QED
    BY <1>2, <1>3, <2>1, <2>2
<1>5. CASE phase[c] \notin {"joining", "open"}
  BY <1>3, <1>5 DEF SendOp
<1> QED
  BY <1>4, <1>5

LEMMA ComposedBuffer ==
    ASSUME NEW b \in Op \cup {Null}, NEW op \in Op, NEW k
    PROVE  Buffered(compose(b, op), k) <= Buffered(b, k) + Inserted(op, k)
<1>1. op # Null /\ Inserted(op, k) \in Nat /\ Buffered(b, k) \in Nat
  BY NullAssumption, InsertedLaws, BufferedType
<1>2. CASE b = Null
  <2>1. compose(b, op) = op /\ Buffered(b, k) = 0 /\ Buffered(op, k) = Inserted(op, k)
    BY <1>1, <1>2 DEF compose, Buffered
  <2> QED
    BY <1>1, <2>1
<1>3. CASE b # Null
  <2>1. b \in Op /\ Buffered(b, k) = Inserted(b, k)
    BY <1>3 DEF Buffered
  <2>2. CASE compose(b, op) = Null
    BY <1>1, <2>2 DEF Buffered
  <2>3. CASE compose(b, op) # Null
    BY <2>1, <2>3, ComposeInserted DEF Buffered
  <2> QED
    BY <2>2, <2>3
<1> QED
  BY <1>2, <1>3

\* What a keystroke does to what the editor has of the character k.
LEMMA EditOwn ==
    ASSUME TypeInv, TypeInv', NEW c \in Clients, Edit(c), NEW k \in Char
    PROVE  /\ Held(k)' = Held(k)
           /\ \A d \in Clients \ {c} : Own(k)'[d] = Own(k)[d]
           /\ Own(k)'[c] <= Own(k)[c] + (IF k = Keys[count.edits + 1] THEN 1 ELSE 0)
<1>1. PICK change \in Keystroke(Len(text[c])) :
        LET op == fromMonacoChanges({change})
        IN  /\ text' = [text EXCEPT ![c] = apply(@, op)]
            /\ IF inflight[c] = Null
               THEN /\ inflight' = [inflight EXCEPT ![c] = op]
                    /\ SendOp(c, op, revision[c])
                    /\ UNCHANGED buffer
               ELSE /\ buffer' = [buffer EXCEPT ![c] = compose(@, op)]
                    /\ UNCHANGED <<inflight, up>>
  BY DEF Edit
<1> DEFINE op == fromMonacoChanges({change})
           typed == IF k = Keys[count.edits + 1] THEN 1 ELSE 0
<1>2. buffer[c] \in Op \cup {Null} /\ revision[c] \in Nat /\ Len(text[c]) \in Nat
  BY DEF TypeInv
<1>3. op \in Op
  BY <1>2, Keystrokes DEF Edit
<1>4. Inserted(op, k) <= typed /\ Inserted(op, k) \in Nat /\ typed \in Nat
  <2>1. /\ change \in Change /\ Keys[count.edits + 1] \in Char
        /\ change.text = <<>> \/ change.text = <<Keys[count.edits + 1]>>
    BY <1>2, KeystrokeIs DEF Edit
  <2>2. Inserted(op, k) = Copies(change.text, k)
    BY <2>1, MonacoInserted
  <2>3. Copies(<<>>, k) = 0 /\ Copies(<<Keys[count.edits + 1]>>, k) = typed
    BY <2>1, CopiesLaws, CopyOfOne
  <2> QED
    BY <2>1, <2>2, <2>3
<1>5. Held(k)' = Held(k)
  BY DEF Edit, serverVars, Held
<1> HIDE DEF op
<1>6. /\ \A d \in Clients : /\ Word(up[d], k) \in Nat /\ Buffered(buffer[d], k) \in Nat
                            /\ Own(k)[d] = Word(up[d], k) + Buffered(buffer[d], k)
      /\ \A d \in Clients : /\ Word(up'[d], k) \in Nat /\ Buffered(buffer'[d], k) \in Nat
                            /\ Own(k)'[d] = Word(up'[d], k) + Buffered(buffer'[d], k)
  BY OwnType, OwnTypeNext DEF OnceTyped
<1>7. /\ \A d \in Clients \ {c} : up'[d] = up[d] /\ buffer'[d] = buffer[d]
      /\ \/ Word(up'[c], k) <= Word(up[c], k) + Inserted(op, k) /\ buffer'[c] = buffer[c]
         \/ /\ up'[c] = up[c]
            /\ Buffered(buffer'[c], k) <= Buffered(buffer[c], k) + Inserted(op, k)
  <2>1. CASE inflight[c] = Null
    <3>1. SendOp(c, op, revision[c]) /\ buffer' = buffer
      BY <1>1, <2>1 DEF op
    <3> QED
      BY <1>2, <1>3, <3>1, SendWord
  <2>2. CASE inflight[c] # Null
    <3>1. buffer' = [buffer EXCEPT ![c] = compose(buffer[c], op)] /\ up' = up
      BY <1>1, <2>2 DEF op
    <3>2. buffer \in [Clients -> Op \cup {Null}]
      BY DEF TypeInv
    <3>3. buffer'[c] = compose(buffer[c], op) /\ \A d \in Clients \ {c} : buffer'[d] = buffer[d]
      BY <3>1, <3>2
    <3> QED
      BY <1>2, <1>3, <3>1, <3>3, ComposedBuffer
  <2> QED
    BY <2>1, <2>2
<1>8. \A d \in Clients \ {c} : Own(k)'[d] = Own(k)[d]
  BY <1>6, <1>7
<1>9. Own(k)'[c] <= Own(k)[c] + typed
  <2> DEFINE u == Word(up[c], k)
             b == Buffered(buffer[c], k)
             u2 == Word(up'[c], k)
             b2 == Buffered(buffer'[c], k)
             x == Inserted(op, k)
  <2>1. /\ u \in Nat /\ b \in Nat /\ u2 \in Nat /\ b2 \in Nat /\ x \in Nat /\ x <= typed
        /\ (u2 <= u + x /\ b2 = b) \/ (u2 = u /\ b2 <= b + x)
    BY <1>4, <1>6, <1>7
  <2>2. Own(k)[c] = u + b /\ Own(k)'[c] = u2 + b2
    BY <1>6
  <2> HIDE DEF u, b, u2, b2, x, typed
  <2>3. u2 + b2 <= (u + b) + typed
    BY <1>4, <2>1
  <2> QED
    BY <2>2, <2>3
<1> QED
  BY <1>5, <1>8, <1>9

LEMMA EditOnce ==
    ASSUME TypeInv, TypeInv', OnceInv, NEW c \in Clients, Edit(c)
    PROVE  OnceInv'
<1> SUFFICES ASSUME NEW k \in Char PROVE AtMost(Room(k), Held(k), Own(k))'
  BY DEF OnceInv
<1> DEFINE e == count.edits
           n == Held(k)
           w == Own(k)
           v == Own(k)'
<1>1. e \in Nat /\ count'.edits = e + 1 /\ e + 1 \in DOMAIN Keys /\ Len(Keys) \in Nat
      /\ DOMAIN Keys = 1..Len(Keys)
  <2>1. PICK change \in Keystroke(Len(text[c])) : TRUE
    BY DEF Edit
  <2>2. Len(text[c]) \in Nat /\ Count("edits") /\ count.edits \in Nat
    BY DEF TypeInv, Edit
  <2>3. count.edits + 1 \in DOMAIN Keys
    BY <2>1, <2>2, KeystrokeIs
  <2>4. count'.edits = count.edits + 1
    BY <2>2 DEF Count, TypeInv
  <2>5. Keys \in Seq(Char)
    BY BoundsAssumption
  <2> QED
    BY <2>2, <2>3, <2>4, <2>5
<1>2. /\ n \in Nat /\ w \in [Clients -> Nat] /\ v \in [Clients -> Nat]
  BY OwnType, OwnTypeNext DEF OnceTyped
<1>3. /\ Held(k)' = n /\ \A d \in Clients \ {c} : v[d] = w[d]
      /\ v[c] <= w[c] + (IF k = Keys[e + 1] THEN 1 ELSE 0)
  BY EditOwn
<1>4. AtMost(Room(k), n, w)
  BY DEF OnceInv
<1>5. CASE k = Keys[e + 1]
  <2>1. Room(k) = 0
    <3>1. e + 1 > count.edits
      BY <1>1
    <3> QED
      BY <1>1, <1>5, <3>1 DEF Room
  <2>2. Room(k)' = 1
    <3>1. \A i \in DOMAIN Keys : i > e + 1 => Keys[i] # k
      <4>1. \A i \in DOMAIN Keys : i > e + 1 => i # e + 1
        BY <1>1
      <4> QED
        BY <1>1, <1>5, <4>1, KeysDiffer
    <3> QED
      BY <1>1, <3>1 DEF Room
  <2>3. AtMost(1, n, v)
    <3>1. v[c] <= w[c] + 1
      BY <1>3, <1>5
    <3>2. AtMost(0, n, w)
      BY <1>4, <2>1
    <3> HIDE DEF n, w, v
    <3> QED
      BY <1>2, <1>3, <3>1, <3>2, AtMostNew
  <2> QED
    BY <1>3, <2>2, <2>3 DEF AtMost
<1>6. CASE k # Keys[e + 1]
  <2>1. Room(k)' = Room(k)
    <3>1. \A i \in DOMAIN Keys : Keys[i] = k => (i > e + 1 <=> i > e)
      <4> SUFFICES ASSUME NEW i \in DOMAIN Keys, Keys[i] = k PROVE i > e + 1 <=> i > e
        OBVIOUS
      <4>1. i # e + 1 /\ i \in Nat
        BY <1>1, <1>6
      <4> QED
        BY <1>1, <4>1
    <3> QED
      BY <1>1, <3>1 DEF Room
  <2>2. AtMost(Room(k), n, v)
    <3>1. \A d \in Clients : v[d] <= w[d]
      <4>1. \A d \in Clients : v[d] \in Nat /\ w[d] \in Nat
        BY <1>2
      <4>2. v[c] <= w[c] + 0
        BY <1>3, <1>6
      <4> HIDE DEF v, w
      <4> QED
        BY <1>3, <4>1, <4>2
    <3>2. Room(k) \in Nat /\ n <= n
      BY <1>2 DEF Room
    <3> HIDE DEF n, w, v
    <3> QED
      BY <1>2, <1>4, <3>1, <3>2, AtMostLess
  <2> QED
    BY <1>3, <2>1, <2>2 DEF AtMost
<1> QED
  BY <1>5, <1>6

\* What an operation that comes in does to the buffer, and what an answer does.
LEMMA ReceiveOnce ==
    ASSUME TypeInv, TypeInv', OnceInv, NEW c \in Clients, Receive(c)
    PROVE  OnceInv'
<1> DEFINE m == Head(net[c])
<1>1. /\ net[c] \in Queue(Len(log)) /\ net[c] # <<>>
      /\ inflight[c] \in Op \cup {Null} /\ buffer[c] \in Op \cup {Null} /\ revision'[c] \in Nat
      /\ buffer \in [Clients -> Op \cup {Null}] /\ up \in [Clients -> Requests]
  BY DEF TypeInv, Receive
<1>2. m \in Message
  BY <1>1, QueueTail
<1> HIDE DEF m
<1>3. /\ m.type = "op" => ReceiveOp(c, m)
      /\ m.type = "answer" => ReceiveAnswer(c, m)
      /\ m.type = "joined" => Seeded(c, m)
      /\ m.type = "error" => SendFails
  BY DEF Receive, m
<1>4. log' = log /\ late' = late /\ count' = count
  BY DEF Receive, serverVars
<1>5. /\ \A d \in Clients \ {c} : up'[d] = up[d] /\ buffer'[d] = buffer[d]
      /\ \A k \in Char : \/ up'[c] = up[c] /\ Buffered(buffer'[c], k) <= Buffered(buffer[c], k)
                         \/ /\ Word(up'[c], k) <= Word(up[c], k) + Buffered(buffer[c], k)
                            /\ Buffered(buffer'[c], k) = 0
  <2>1. CASE m.type = "op"
    <3> DEFINE past1 == IF inflight[c] = Null THEN m.op
                        ELSE transform(m.op, inflight[c], "incomingWins")
               pending == IF buffer[c] = Null THEN Null
                          ELSE transform(buffer[c], past1, "existingWins")
               left == IF isNoOp(pending) THEN Null ELSE pending
    <3>1. m.op \in Op
      BY <1>2, <2>1, Messages
    <3>2. past1 \in Op
      BY <1>1, <3>1, TransformsOf
    <3> HIDE DEF past1
    <3>3. buffer' = [buffer EXCEPT ![c] = left] /\ up' = up
      BY <1>3, <2>1 DEF ReceiveOp, past1, pending, left
    <3>4. ASSUME NEW k \in Char PROVE Buffered(left, k) <= Buffered(buffer[c], k)
      <4>1. Buffered(buffer[c], k) \in Nat
        BY <1>1, BufferedType
      <4>2. CASE left = Null
        BY <4>1, <4>2 DEF Buffered
      <4>3. CASE left # Null
        <5>1. buffer[c] # Null /\ left = transform(buffer[c], past1, "existingWins")
          BY <4>3 DEF isNoOp
        <5> HIDE DEF left
        <5>2. Inserted(left, k) = Inserted(buffer[c], k)
          BY <1>1, <3>2, <5>1, TransformInserted
        <5> QED
          BY <4>1, <4>3, <5>1, <5>2 DEF Buffered
      <4> QED
        BY <4>2, <4>3
    <3> HIDE DEF left
    <3> QED
      BY <1>1, <3>3, <3>4
  <2>2. CASE m.type = "answer"
    <3>1. /\ buffer' = [buffer EXCEPT ![c] = Null]
          /\ IF buffer[c] = Null THEN UNCHANGED up ELSE SendOp(c, buffer[c], revision'[c])
      BY <1>3, <2>2 DEF ReceiveAnswer
    <3>2. /\ \A d \in Clients \ {c} : buffer'[d] = buffer[d]
          /\ \A k \in Char : Buffered(buffer'[c], k) = 0
      BY <1>1, <3>1 DEF Buffered
    <3>3. CASE buffer[c] = Null
      <4>1. \A k \in Char : Buffered(buffer[c], k) = 0
        BY <3>3 DEF Buffered
      <4> QED
        BY <3>1, <3>2, <3>3, <4>1
    <3>4. CASE buffer[c] # Null
      <4>1. /\ \A d \in Clients \ {c} : up'[d] = up[d]
            /\ \A k \in Char : Word(up'[c], k) <= Word(up[c], k) + Inserted(buffer[c], k)
        BY <1>1, <3>1, <3>4, SendWord
      <4> QED
        BY <3>2, <3>4, <4>1 DEF Buffered
    <3> QED
      BY <3>3, <3>4
  <2>3. CASE m.type = "joined"
    <3>1. buffer' = [buffer EXCEPT ![c] = Null] /\ up' = up
      BY <1>3, <2>3 DEF Seeded
    <3>2. \A k \in Char : Buffered(buffer'[c], k) = 0 /\ Buffered(buffer[c], k) \in Nat
      BY <1>1, <3>1, BufferedType DEF Buffered
    <3>3. \A k \in Char : Buffered(buffer'[c], k) <= Buffered(buffer[c], k)
      BY <3>2
    <3> QED
      BY <1>1, <3>1, <3>3
  <2>4. CASE m.type = "error"
    <3>1. buffer' = buffer /\ up' = up
      BY <1>3, <2>4 DEF SendFails, editorVars
    <3>2. \A k \in Char : Buffered(buffer[c], k) \in Nat
      BY <1>1, BufferedType
    <3> QED
      BY <3>1, <3>2
  <2> QED
    BY <1>2, <2>1, <2>2, <2>3, <2>4, Messages
<1>6. \A k \in Char : Held(k)' = Held(k) /\ Held(k) \in Nat
  BY <1>4, OwnType DEF Held, OnceTyped
<1>7. \A k \in Char : Own(k)'[c] <= Own(k)[c] /\ Own(k)[c] \in Nat /\ Own(k)'[c] \in Nat
  BY <1>5, OwnType, OwnTypeNext DEF OnceTyped
<1>8. \A k \in Char : Held(k)' + Own(k)'[c] <= Held(k) + Own(k)[c]
  <2> TAKE k \in Char
  <2> DEFINE h == Held(k)
             v == Own(k)'[c]
             w == Own(k)[c]
  <2>1. h \in Nat /\ v \in Nat /\ w \in Nat /\ v <= w /\ Held(k)' = h
    BY <1>6, <1>7
  <2> HIDE DEF h, v, w
  <2>2. h + v <= h + w
    BY <2>1
  <2> QED
    BY <2>1, <2>2 DEF h, v, w
<1> QED
  BY <1>4, <1>5, <1>7, <1>8, OnceMoved

----------------------------------------------------------------------------
\* The connections.

LEMMA LeftWord ==
    ASSUME NEW u \in Requests, NEW n \in 0..Len(u), NEW k \in Char
    PROVE  Word(LeftBehind(SubSeq(u, 1, n)), k) <= Word(u, k)
<1> DEFINE v == SubSeq(u, 1, n)
<1>1. u \in Seq(Request) /\ n \in Nat /\ n <= Len(u)
  BY RequestSeqs
<1>2. v \in Seq(Request)
  BY <1>1, Pieces
<1>3. Word(v, k) <= Word(u, k)
  BY <1>1, WordLaws
<1> HIDE DEF v
<1>4. Word(v, k) \in Nat /\ Word(u, k) \in Nat
  BY <1>1, <1>2, WordLaws
<1>5. CASE v # <<>> /\ Head(v).type = "join"
  <2>1. LeftBehind(v) = Tail(v)
    BY <1>5 DEF LeftBehind
  <2>2. /\ Tail(v) \in Seq(Request) /\ Brought(k)[Head(v)] \in Nat
        /\ Word(v, k) = Brought(k)[Head(v)] + Word(Tail(v), k)
    BY <1>2, <1>5, WordTail
  <2>3. Word(Tail(v), k) \in Nat
    BY <2>2, WordLaws
  <2>4. Word(Tail(v), k) <= Word(v, k)
    BY <2>2, <2>3
  <2> QED
    <3>1. Word(Tail(v), k) <= Word(u, k)
      BY <1>3, <1>4, <2>3, <2>4
    <3>2. Word(LeftBehind(v), k) <= Word(u, k)
      BY <2>1, <3>1
    <3> QED
      BY <3>2 DEF v
<1>6. CASE ~(v # <<>> /\ Head(v).type = "join")
  <2>1. LeftBehind(v) = v
    BY <1>6 DEF LeftBehind
  <2> QED
    BY <1>3, <2>1 DEF v
<1> QED
  BY <1>5, <1>6

LEMMA HangsOnce ==
    ASSUME TypeInv, TypeInv', OnceInv, NEW c \in Clients, NEW then, Hangs(c, then),
           count'.edits = count.edits
    PROVE  OnceInv'
<1>1. PICK n \in 0..Len(up[c]) : late' = late \o LeftBehind(SubSeq(up[c], 1, n))
  BY DEF Hangs
<1> DEFINE s == LeftBehind(SubSeq(up[c], 1, n))
<1>2. up[c] \in Requests /\ up \in [Clients -> Requests] /\ late \in Seq(Request)
  BY RequestSeqs DEF TypeInv
<1>3. s \in Seq(Request)
  BY <1>2, LeftBehindType, RequestSeqs
<1>4. \A k \in Char : Word(s, k) <= Word(up[c], k)
  BY <1>2, LeftWord
<1>5. late' = late \o s
  BY <1>1
<1> HIDE DEF s
<1>6. /\ up'[c] = <<>> /\ buffer' = buffer /\ log' = log
      /\ \A d \in Clients \ {c} : up'[d] = up[d]
  BY <1>2 DEF Hangs
<1>7. ASSUME NEW k \in Char
      PROVE  Held(k)' + Own(k)'[c] <= Held(k) + Own(k)[c] /\ Own(k)'[c] <= Own(k)[c]
  <2> DEFINE x == Copies(DocOf(log, Len(log)), k)
             l == Word(late, k)
             u == Word(up[c], k)
             b == Buffered(buffer[c], k)
             z == Word(s, k)
  <2>1. x \in Nat /\ l \in Nat /\ u \in Nat /\ b \in Nat /\ Own(k)[c] = u + b
    BY OwnType DEF OnceTyped
  <2>2. z \in Nat /\ z <= u
    BY <1>3, <1>4, WordLaws
  <2>3. Word(late', k) = l + z /\ Word(up'[c], k) = 0
    BY <1>2, <1>3, <1>5, <1>6, WordLaws
  <2>4. Own(k)'[c] = 0 + b
    <3>1. Own(k)'[c] = Word(up'[c], k) + Buffered(buffer'[c], k)
      BY OwnTypeNext DEF OnceTyped
    <3> QED
      BY <1>6, <2>3, <3>1
  <2>5. Held(k)' = x + (l + z) /\ Held(k) = x + l
    BY <1>6, <2>3 DEF Held
  <2> HIDE DEF x, l, u, b, z
  <2> QED
    BY <2>1, <2>2, <2>4, <2>5
<1> QED
  BY <1>6, <1>7, OnceMoved

LEMMA BreakOnce ==
    ASSUME TypeInv, TypeInv', OnceInv, NEW c \in Clients, Break(c) \/ Dispose(c)
    PROVE  OnceInv'
<1>1. Hangs(c, "down") \/ Hangs(c, "disposed")
  BY DEF Break, Dispose
<1>2. count'.edits = count.edits
  BY DEF Break, Dispose, Count, TypeInv
<1> QED
  BY <1>1, <1>2, HangsOnce

LEMMA ReconnectOnce ==
    ASSUME TypeInv, TypeInv', OnceInv, NEW c \in Clients, Reconnect(c)
    PROVE  OnceInv'
<1> DEFINE j == [type |-> "join"]
<1>1. /\ up'[c] = <<j>> /\ \A d \in Clients \ {c} : up'[d] = up[d]
      /\ buffer' = buffer /\ log' = log /\ late' = late /\ count' = count
  BY DEF Reconnect, serverVars, TypeInv
<1>2. ASSUME NEW k \in Char PROVE Word(<<j>>, k) = 0
  <2>1. <<j>> = Append(<<>>, j) /\ <<>> \in Seq(Request)
    OBVIOUS
  <2>2. j \in Request /\ Brought(k)[j] = 0
    BY RequestsAre, BroughtIs
  <2> HIDE DEF j
  <2>3. Word(Append(<<>>, j), k) = Word(<<>>, k) + Brought(k)[j] /\ Word(<<>>, k) = 0
    BY <2>1, <2>2, WordLaws
  <2> QED
    BY <2>1, <2>2, <2>3
<1> HIDE DEF j
<1>3. ASSUME NEW k \in Char
      PROVE  Held(k)' + Own(k)'[c] <= Held(k) + Own(k)[c] /\ Own(k)'[c] <= Own(k)[c]
  <2> DEFINE h == Held(k)
             u == Word(up[c], k)
             b == Buffered(buffer[c], k)
  <2>1. h \in Nat /\ u \in Nat /\ b \in Nat /\ Own(k)[c] = u + b
    BY OwnType DEF OnceTyped
  <2>2. Own(k)'[c] = 0 + b
    <3>1. Own(k)'[c] = Word(up'[c], k) + Buffered(buffer'[c], k)
      BY OwnTypeNext DEF OnceTyped
    <3> QED
      BY <1>1, <1>2, <3>1
  <2>3. Held(k)' = h
    BY <1>1 DEF Held
  <2> HIDE DEF h, u, b
  <2>4. h + (0 + b) <= h + (u + b) /\ 0 + b <= u + b
    BY <2>1
  <2> QED
    BY <2>1, <2>2, <2>3, <2>4 DEF h
<1> QED
  BY <1>1, <1>3, OnceMoved

----------------------------------------------------------------------------
\* The server.

\* An operation inserts what it inserted, whatever it is transformed past.
LEMMA PastInserted ==
    ASSUME NEW l \in Seq(Op), NEW op \in Op, NEW m \in Nat, NEW k \in Char
    PROVE  Inserted(Past(l, op, m, Len(l)), k) = Inserted(op, k)
<1> DEFINE S == {j \in Nat : m + j <= Len(l) => Inserted(Past(l, op, m, m + j), k) = Inserted(op, k)}
<1>1. 0 \in S
  <2>1. Past(l, op, m, m) = op /\ m + 0 = m
    BY PastNone
  <2> QED
    BY <2>1
<1>2. ASSUME NEW j \in Nat, j \in S PROVE j + 1 \in S
  <2> SUFFICES ASSUME m + (j + 1) <= Len(l)
               PROVE  Inserted(Past(l, op, m, m + (j + 1)), k) = Inserted(op, k)
    OBVIOUS
  <2> DEFINE n == m + j
  <2>1. n \in Nat /\ m <= n /\ n + 1 <= Len(l) /\ n <= Len(l) /\ m + (j + 1) = n + 1
    OBVIOUS
  <2>2. Inserted(Past(l, op, m, n), k) = Inserted(op, k)
    BY <1>2, <2>1
  <2> HIDE DEF n
  <2>3. Past(l, op, m, n + 1) = transform(Past(l, op, m, n), l[n + 1], "existingWins")
    BY <2>1, PastLast
  <2>4. Past(l, op, m, n) \in Op /\ l[n + 1] \in Op
    BY <2>1, PastFoldable, PieceLast
  <2>5. Inserted(Past(l, op, m, n + 1), k) = Inserted(Past(l, op, m, n), k)
    BY <2>3, <2>4, TransformInserted
  <2> QED
    BY <2>1, <2>2, <2>5
<1> HIDE DEF S
<1>3. Nat \subseteq S
  BY <1>1, <1>2, Induction
<1>4. CASE Len(l) <= m
  <2>1. Past(l, op, m, Len(l)) = op
    BY <1>4, PastNone
  <2> QED
    BY <2>1
<1>5. CASE ~(Len(l) <= m)
  <2>1. Len(l) - m \in Nat /\ m + (Len(l) - m) = Len(l) /\ Len(l) <= Len(l)
    BY <1>5
  <2> QED
    BY <1>3, <2>1 DEF S
<1> QED
  BY <1>4, <1>5

\* The document has no more of a character than it had and the operation brings.
LEMMA CommitCopies ==
    ASSUME TypeInv, NEW r \in OpRequest, NEW told, NEW lost, Commit(r, told, lost), NEW k \in Char
    PROVE  Copies(DocOf(log', Len(log')), k) <= Copies(DocOf(log, Len(log)), k) + Inserted(r.op, k)
<1> DEFINE op == Transformed(r.op, r.base)
           n == Len(log)
           t == DocOf(log, n)
<1>1. log \in Seq(Op) /\ n \in Nat /\ n <= Len(log) /\ r.op \in Op /\ r.base \in Nat
  BY RequestsAre DEF TypeInv
<1>2. op \in Op /\ Inserted(op, k) = Inserted(r.op, k)
  <2>1. op = Past(log, r.op, r.base, Len(log))
    BY FoldsAre
  <2>2. op \in Op
    BY <1>1, TransformedType
  <2> QED
    BY <1>1, <2>1, <2>2, PastInserted
<1>3. log' = Append(log, op)
  BY DEF Commit
<1>4. t \in Seq(Char)
  BY <1>1, DocType
<1> HIDE DEF op
<1>5. /\ log' \in Seq(Op) /\ Len(log') = n + 1 /\ log'[n + 1] = op
      /\ DocOf(log', n) = t
  BY <1>1, <1>2, <1>3, Appending, DocStays
<1>6. DocOf(log', n + 1) = apply(t, op)
  <2>1. n + 1 <= Len(log')
    BY <1>1, <1>5
  <2> HIDE DEF n
  <2> DEFINE l == log'
  <2>2. l \in Seq(Op) /\ n + 1 <= Len(l) /\ n \in Nat
    BY <1>1, <1>5, <2>1
  <2> HIDE DEF l
  <2>3. DocOf(l, n + 1) = apply(DocOf(l, n), l[n + 1])
    BY <2>2, DocNext
  <2> QED
    BY <1>5, <2>3 DEF l
<1>7. Copies(apply(t, op), k) <= Copies(t, k) + Inserted(op, k)
  BY <1>2, <1>4, ApplyCopies
<1> QED
  BY <1>2, <1>5, <1>6, <1>7

\* The request at the head of a queue leaves it.
LEMMA TookWord ==
    ASSUME TypeInv, NEW c \in Clients, Took(c)
    PROVE  /\ \A d \in Clients \ {c} : up'[d] = up[d]
           /\ buffer' = buffer /\ late' = late
           /\ Head(up[c]) \in Request
           /\ \A k \in Char : /\ Word(up[c], k) = Brought(k)[Head(up[c])] + Word(up'[c], k)
                              /\ Brought(k)[Head(up[c])] \in Nat
<1>1. up[c] \in Seq(Request) /\ up[c] # <<>> /\ up \in [Clients -> Requests]
  BY RequestSeqs DEF TypeInv, Took
<1>2. up'[c] = Tail(up[c]) /\ \A d \in Clients \ {c} : up'[d] = up[d]
  BY <1>1 DEF Took
<1> QED
  BY <1>1, <1>2, WordTail DEF Took, editorVars

\* What is left of a served or refused request is in the document or nowhere.
LEMMA ServedOnce ==
    ASSUME TypeInv, TypeInv', OnceInv, NEW c \in Clients, Took(c), count'.edits = count.edits,
           \/ log' = log
           \/ \A k \in Char : Copies(DocOf(log', Len(log')), k)
                                 <= Copies(DocOf(log, Len(log)), k) + Brought(k)[Head(up[c])]
    PROVE  OnceInv'
<1>1. /\ \A d \in Clients \ {c} : up'[d] = up[d]
      /\ buffer' = buffer /\ late' = late
      /\ \A k \in Char : /\ Word(up[c], k) = Brought(k)[Head(up[c])] + Word(up'[c], k)
                         /\ Brought(k)[Head(up[c])] \in Nat
  BY TookWord
<1>2. ASSUME NEW k \in Char
      PROVE  Held(k)' + Own(k)'[c] <= Held(k) + Own(k)[c] /\ Own(k)'[c] <= Own(k)[c]
  <2> DEFINE x == Copies(DocOf(log, Len(log)), k)
             y == Copies(DocOf(log', Len(log')), k)
             l == Word(late, k)
             u == Word(up[c], k)
             v == Word(up'[c], k)
             b == Buffered(buffer[c], k)
             z == Brought(k)[Head(up[c])]
  <2>1. x \in Nat /\ l \in Nat /\ u \in Nat /\ b \in Nat /\ Own(k)[c] = u + b
    BY OwnType DEF OnceTyped
  <2>2. y \in Nat /\ v \in Nat /\ Own(k)'[c] = v + b
    <3>1. y \in Nat /\ v \in Nat /\ Own(k)'[c] = Word(up'[c], k) + Buffered(buffer'[c], k)
      BY OwnTypeNext DEF OnceTyped
    <3> QED
      BY <1>1, <3>1
  <2>3. z \in Nat /\ u = z + v
    BY <1>1
  <2>4. y <= x + z
    <3>1. CASE log' = log
      <4>1. y = x
        BY <3>1
      <4> HIDE DEF x, y, z
      <4> QED
        BY <2>1, <2>3, <4>1
    <3>2. CASE log' # log
      BY <3>2
    <3> QED
      BY <3>1, <3>2
  <2>5. Held(k) = x + l /\ Held(k)' = y + l
    BY <1>1 DEF Held
  <2> HIDE DEF x, y, l, u, v, b, z
  <2> QED
    BY <2>1, <2>2, <2>3, <2>4, <2>5
<1> QED
  BY <1>1, <1>2, OnceMoved

LEMMA ServeOnce ==
    ASSUME TypeInv, TypeInv', OnceInv, NEW c \in Clients,
           ServeJoin(c) \/ ServeOp(c) \/ Refuse(c) \/ FailAfterCommit(c)
    PROVE  OnceInv'
<1>1. Took(c) /\ count'.edits = count.edits
  BY DEF ServeJoin, ServeOp, Refuse, FailAfterCommit, Count, TypeInv
<1>2. CASE ServeJoin(c) \/ Refuse(c)
  <2>1. log' = log
    BY <1>2 DEF ServeJoin, Refuse
  <2> QED
    BY <1>1, <2>1, ServedOnce
<1>3. CASE ServeOp(c) \/ FailAfterCommit(c)
  <2> DEFINE r == Head(up[c])
  <2>1. r \in OpRequest /\ \A k \in Char : Brought(k)[r] = Inserted(r.op, k)
    BY <1>1, <1>3, TookType, BroughtIs DEF ServeOp, FailAfterCommit
  <2>2. log' = log \/ \E told \in SUBSET Clients, lost \in SUBSET Clients : Commit(r, told, lost)
    BY <1>3 DEF ServeOp, FailAfterCommit, TypeInv
  <2>3. CASE log' = log
    BY <1>1, <2>3, ServedOnce
  <2>4. ASSUME NEW told \in SUBSET Clients, NEW lost \in SUBSET Clients, Commit(r, told, lost)
        PROVE  OnceInv'
    <3>1. \A k \in Char : Copies(DocOf(log', Len(log')), k)
                             <= Copies(DocOf(log, Len(log)), k) + Inserted(r.op, k)
      BY <2>1, <2>4, CommitCopies
    <3> QED
      BY <1>1, <2>1, <3>1, ServedOnce
  <2> QED
    BY <2>2, <2>3, <2>4
<1> QED
  BY <1>2, <1>3

LEMMA ServeLateOnce ==
    ASSUME TypeInv, TypeInv', OnceInv, ServeLate \/ FailLate
    PROVE  OnceInv'
<1> DEFINE r == Head(late)
<1>1. late \in Seq(Request) /\ late # <<>> /\ late' = Tail(late) /\ r \in OpRequest
  BY RequestSeqs, HeadTailProperties DEF TypeInv, ServeLate, FailLate
<1>2. up' = up /\ buffer' = buffer /\ count'.edits = count.edits
  BY DEF ServeLate, FailLate, Count, TypeInv, editorVars
<1>3. log' = log \/ Commit(r, members, {}) \/ Commit(r, {}, members)
  BY DEF ServeLate, FailLate
<1>4. ASSUME NEW k \in Char
      PROVE  Held(k)' <= Held(k) /\ \A c \in Clients : Own(k)'[c] <= Own(k)[c]
  <2> DEFINE x == Copies(DocOf(log, Len(log)), k)
             y == Copies(DocOf(log', Len(log')), k)
             l == Word(late, k)
             v == Word(late', k)
             z == Inserted(r.op, k)
  <2>1. x \in Nat /\ l \in Nat /\ \A c \in Clients : Own(k)[c] \in Nat
    BY OwnType DEF OnceTyped
  <2>2. y \in Nat /\ v \in Nat
    BY OwnTypeNext DEF OnceTyped
  <2>3. l = z + v /\ z \in Nat
    <3>1. Word(late, k) = Brought(k)[r] + Word(Tail(late), k) /\ Brought(k)[r] \in Nat
      BY <1>1, WordTail
    <3>2. Brought(k)[r] = Inserted(r.op, k)
      BY <1>1, BroughtIs
    <3> QED
      BY <1>1, <3>1, <3>2
  <2>4. y <= x + z
    <3>1. CASE log' = log
      <4>1. y = x
        BY <3>1
      <4> HIDE DEF x, y, z
      <4> QED
        BY <2>1, <2>3, <4>1
    <3>2. CASE Commit(r, members, {}) \/ Commit(r, {}, members)
      BY <1>1, <3>2, CommitCopies
    <3> QED
      BY <1>3, <3>1, <3>2
  <2>5. Held(k) = x + l /\ Held(k)' = y + v
    BY DEF Held
  <2>6. \A c \in Clients : Own(k)'[c] = Own(k)[c]
    BY <1>2 DEF Own
  <2> HIDE DEF x, y, l, v, z
  <2>7. y + v <= x + l
    BY <2>1, <2>2, <2>3, <2>4
  <2> QED
    BY <2>1, <2>5, <2>6, <2>7
<1> QED
  BY <1>2, <1>4, OnceLess

LEMMA SendAnswerOnce ==
    ASSUME OnceInv, log' = log, late' = late, up' = up, buffer' = buffer, count' = count
    PROVE  OnceInv'
BY DEF OnceInv, AtMost, Room, Held, Own

LEMMA OnceStep ==
    ASSUME TypeInv, TypeInv', OnceInv, [Next]_vars
    PROVE  OnceInv'
<1>1. CASE UNCHANGED vars
  BY <1>1, SendAnswerOnce DEF vars, serverVars, editorVars, wire
<1>2. ASSUME NEW c \in Clients, SendAnswer(c)
      PROVE  OnceInv'
  BY <1>2, SendAnswerOnce DEF SendAnswer, serverVars, editorVars
<1>3. ASSUME NEW c \in Clients, Reconnect(c) \/ ServeJoin(c) \/ ServeOp(c) \/ Receive(c)
      PROVE  OnceInv'
  BY <1>3, ReconnectOnce, ServeOnce, ReceiveOnce
<1>4. CASE ServeLate \/ FailLate
  BY <1>4, ServeLateOnce
<1>5. ASSUME NEW c \in Clients, Edit(c) \/ Break(c) \/ Dispose(c) \/ Refuse(c)
      PROVE  OnceInv'
  BY <1>5, EditOnce, BreakOnce, ServeOnce
<1>6. ASSUME NEW c \in Clients, FailAfterCommit(c)
      PROVE  OnceInv'
  BY <1>6, ServeOnce
<1> QED
  BY <1>1, <1>2, <1>3, <1>4, <1>5, <1>6 DEF Next, Work

LEMMA OnceIsTyped == TypeInv /\ OnceInv => TypedOnce
<1> SUFFICES ASSUME TypeInv, OnceInv PROVE TypedOnce
  OBVIOUS
<1> DEFINE doc == DocOf(log, Len(log))
<1>1. log \in Seq(Op) /\ Len(log) \in Nat /\ Len(log) <= Len(log)
  BY DEF TypeInv
<1>2. doc \in Seq(Char) /\ DocAt(Len(log)) = doc
  BY <1>1, DocType, FoldsAre
<1>3. ASSUME NEW i \in DOMAIN doc, NEW j \in DOMAIN doc, i # j PROVE doc[i] # doc[j]
  <2> DEFINE k == doc[i]
  <2>1. i \in 1..Len(doc) /\ j \in 1..Len(doc) /\ k \in Char
    BY <1>2
  <2>2. Held(k) <= Room(k) /\ Room(k) <= 1
    BY <2>1 DEF OnceInv, AtMost, Room
  <2>3. /\ Copies(doc, k) \in Nat /\ Word(late, k) \in Nat
        /\ Held(k) = Copies(doc, k) + Word(late, k)
    BY <2>1, OwnType DEF OnceTyped, Held
  <2>4. Copies(doc, k) <= 1
    <3> DEFINE x == Copies(doc, k)
               y == Word(late, k)
               h == Held(k)
               m == Room(k)
    <3>1. x \in Nat /\ y \in Nat /\ h = x + y /\ h <= m /\ m <= 1 /\ m \in Nat
      BY <2>2, <2>3 DEF Room
    <3> HIDE DEF x, y, h, m
    <3>2. x <= 1
      BY <3>1
    <3> QED
      BY <3>2 DEF x
  <2> HIDE DEF doc
  <2>5. doc[i] = doc[j] => Copies(doc, doc[i]) >= 2
    BY <1>2, <1>3, <2>1, CopiesFound
  <2> QED
    BY <2>1, <2>3, <2>4, <2>5
<1> QED
  BY <1>2, <1>3 DEF TypedOnce

\* Nothing that was typed comes into the document twice: with any number of
\* editors, a character that was typed is in the document, or in a request left
\* behind, or with one editor that still has to send it, and in one of these places
\* only (monaco-collab.js:97-120, 412-430).
THEOREM NothingTypedTwice == Spec => []TypedOnce
<1>1. TypeInv /\ [Next]_vars => TypeInv'
  BY TypeStep
<1>2. TypeInv /\ OnceInv /\ [Next]_vars => TypeInv' /\ OnceInv'
  BY <1>1, OnceStep
<1> QED
  BY <1>2, TypeInit, OnceInit, OnceIsTyped, PTL DEF Spec

=============================================================================
