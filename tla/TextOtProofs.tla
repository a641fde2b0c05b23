---------------------------- MODULE TextOtProofs ----------------------------
(***************************************************************************)
(* Proofs about the transformation of text, for texts and operations of    *)
(* every length; and, from this theory, the laws that the run of TextEdits *)
(* checks on small inputs, for all texts, editor events and operations of  *)
(* other clients.                                                          *)
(***************************************************************************)
EXTENDS TextEdits, Recursion, FiniteSetTheorems

----------------------------------------------------------------------------
\* Pieces of a text.

LEMMA Joining ==
    \A x, y, z \in Seq(Char) : x \o y \in Seq(Char) /\ (x \o y) \o z = x \o (y \o z)
BY ConcatProperties, ConcatAssociative

LEMMA OpJoining ==
    \A x, y, z \in Op : x \o y \in Op /\ (x \o y) \o z = x \o (y \o z)
<1>1. \A x, y, z \in Seq(Component) : x \o y \in Seq(Component) /\ (x \o y) \o z = x \o (y \o z)
  BY ConcatProperties, ConcatAssociative
<1> QED
  BY <1>1 DEF Op

LEMMA TextAssociative ==
    ASSUME NEW x \in Seq(Char), NEW y \in Seq(Char), NEW z \in Seq(Char)
    PROVE  (x \o y) \o z = x \o (y \o z)
BY Joining

LEMMA TextClosed ==
    ASSUME NEW x \in Seq(Char), NEW y \in Seq(Char)
    PROVE  x \o y \in Seq(Char)
BY Joining

LEMMA OpAssociative ==
    ASSUME NEW x \in Op, NEW y \in Op, NEW z \in Op
    PROVE  (x \o y) \o z = x \o (y \o z)
BY OpJoining, ZenonT(60)

LEMMA OpClosed ==
    ASSUME NEW x \in Op, NEW y \in Op
    PROVE  x \o y \in Op
BY OpJoining

\* What lies between the places i and j of the text t.
Cut(t, i, j) == SubSeq(t, i + 1, Least(j, Len(t)))

LEMMA CutProperties ==
    ASSUME NEW t \in Seq(Char), NEW i \in Nat, NEW j \in Nat
    PROVE  /\ Cut(t, i, j) \in Seq(Char)
           /\ Len(Cut(t, i, j)) = IF i < Least(j, Len(t)) THEN Least(j, Len(t)) - i ELSE 0
           /\ \A k \in 1..Len(Cut(t, i, j)) : Cut(t, i, j)[k] = t[i + k]
<1> DEFINE m == i + 1
           n == Least(j, Len(t))
<1>1. m \in Int /\ n \in Int /\ Len(t) \in Nat /\ n <= Len(t) /\ m \in 1..m
  BY DEF Least
<1>2. \A k \in m..n : t[k] \in Char
  BY <1>1
<1> HIDE DEF n, m
<1>3. /\ SubSeq(t, m, n) \in Seq(Char)
      /\ Len(SubSeq(t, m, n)) = IF m <= n THEN n - m + 1 ELSE 0
      /\ \A k \in 1..(n - m + 1) : SubSeq(t, m, n)[k] = t[m + k - 1]
  BY <1>1, <1>2, SubSeqProperties
<1>4. Cut(t, i, j) = SubSeq(t, m, n)
  BY DEF Cut, m, n
<1>5. m <= n <=> i < n
  BY <1>1 DEF m
<1>6. Len(Cut(t, i, j)) = IF i < n THEN n - i ELSE 0
  BY <1>1, <1>3, <1>4, <1>5 DEF m
<1>7. ASSUME NEW k \in 1..Len(Cut(t, i, j)) PROVE Cut(t, i, j)[k] = t[i + k]
  <2>1. k \in 1..(n - m + 1) /\ m + k - 1 = i + k
    BY <1>1, <1>6 DEF m
  <2> QED
    BY <1>3, <1>4, <2>1
<1> QED
  BY <1>3, <1>4, <1>6, <1>7 DEF n

LEMMA CutWhole ==
    ASSUME NEW t \in Seq(Char)
    PROVE  Cut(t, 0, Len(t)) = t
BY SubSeqFull DEF Cut, Least

\* Neighbouring pieces make up one.
LEMMA CutJoin ==
    ASSUME NEW t \in Seq(Char), NEW i \in Nat, NEW j \in Nat, NEW k \in Nat, i <= j, j <= k
    PROVE  Cut(t, i, j) \o Cut(t, j, k) = Cut(t, i, k)
<1> DEFINE a == Cut(t, i, j)
           b == Cut(t, j, k)
           c == Cut(t, i, k)
           L == Len(t)
<1>0. L \in Nat
  OBVIOUS
<1>1. /\ a \in Seq(Char)
      /\ Len(a) = IF i < Least(j, L) THEN Least(j, L) - i ELSE 0
      /\ \A x \in 1..Len(a) : a[x] = t[i + x]
  BY CutProperties
<1>2. /\ b \in Seq(Char)
      /\ Len(b) = IF j < Least(k, L) THEN Least(k, L) - j ELSE 0
      /\ \A x \in 1..Len(b) : b[x] = t[j + x]
  BY CutProperties
<1>3. /\ c \in Seq(Char)
      /\ Len(c) = IF i < Least(k, L) THEN Least(k, L) - i ELSE 0
      /\ \A x \in 1..Len(c) : c[x] = t[i + x]
  BY CutProperties
<1> HIDE DEF a, b, c, L
<1>4. Len(a) \in Nat /\ Len(b) \in Nat /\ Len(c) = Len(a) + Len(b) /\ (Len(b) > 0 => Len(a) = j - i)
  BY <1>0, <1>1, <1>2, <1>3 DEF Least
<1>5. /\ a \o b \in Seq(Char)
      /\ Len(a \o b) = Len(a) + Len(b)
      /\ \A x \in 1..(Len(a) + Len(b)) : (a \o b)[x] = IF x <= Len(a) THEN a[x] ELSE b[x - Len(a)]
  BY <1>1, <1>2, ConcatProperties
<1>6. ASSUME NEW x \in 1..Len(a \o b) PROVE (a \o b)[x] = c[x]
  <2>1. c[x] = t[i + x]
    BY <1>3, <1>4, <1>5
  <2>2. CASE x <= Len(a)
    <3>1. x \in 1..Len(a) /\ x \in 1..(Len(a) + Len(b))
      BY <1>4, <1>5, <2>2
    <3> QED
      BY <1>1, <1>5, <2>1, <2>2, <3>1
  <2>3. CASE ~(x <= Len(a))
    <3>1. x - Len(a) \in 1..Len(b) /\ Len(a) = j - i /\ x \in 1..(Len(a) + Len(b))
      BY <1>4, <1>5, <2>3
    <3>2. b[x - Len(a)] = t[j + (x - Len(a))] /\ j + (x - Len(a)) = i + x
      BY <1>2, <3>1
    <3> QED
      BY <1>5, <2>1, <2>3, <3>1, <3>2
  <2> QED
    BY <2>2, <2>3
<1>7. a \o b = c
  BY <1>3, <1>4, <1>5, <1>6, SeqEqual
<1> QED
  BY <1>7 DEF a, b, c

\* A piece of the end of a text is a piece of the text.
LEMMA CutOfRest ==
    ASSUME NEW t \in Seq(Char), NEW n \in Nat, NEW i \in Nat, NEW j \in Nat
    PROVE  Cut(Cut(t, n, Len(t)), i, j) = Cut(t, n + i, n + j)
<1> DEFINE u == Cut(t, n, Len(t))
           a == Cut(u, i, j)
           b == Cut(t, n + i, n + j)
           L == Len(t)
<1>0. L \in Nat /\ n + i \in Nat /\ n + j \in Nat
  OBVIOUS
<1>1. /\ u \in Seq(Char)
      /\ Len(u) = IF n < Least(L, L) THEN Least(L, L) - n ELSE 0
      /\ \A x \in 1..Len(u) : u[x] = t[n + x]
  BY <1>0, CutProperties
<1> HIDE DEF u
<1>2. /\ a \in Seq(Char)
      /\ Len(a) = IF i < Least(j, Len(u)) THEN Least(j, Len(u)) - i ELSE 0
      /\ \A x \in 1..Len(a) : a[x] = u[i + x]
  BY <1>1, CutProperties
<1>3. /\ b \in Seq(Char)
      /\ Len(b) = IF n + i < Least(n + j, L) THEN Least(n + j, L) - (n + i) ELSE 0
      /\ \A x \in 1..Len(b) : b[x] = t[(n + i) + x]
  BY <1>0, CutProperties
<1> HIDE DEF a, b, L
<1>4. Len(a) \in Nat /\ Len(a) = Len(b) /\ (Len(a) > 0 => i + Len(a) <= Len(u)) /\ Len(u) \in Nat
  <2>1. Len(u) \in Nat /\ Len(u) = IF n < L THEN L - n ELSE 0
    BY <1>0, <1>1 DEF Least
  <2>2. Len(a) = IF j <= Len(u) THEN (IF i < j THEN j - i ELSE 0)
                 ELSE (IF i < Len(u) THEN Len(u) - i ELSE 0)
    BY <1>2, <2>1 DEF Least
  <2>3. Len(b) = IF n + j <= L THEN (IF i < j THEN j - i ELSE 0)
                 ELSE (IF n + i < L THEN L - (n + i) ELSE 0)
    BY <1>0, <1>3 DEF Least
  <2> DEFINE x == Len(a)
             y == Len(b)
             z == Len(u)
  <2> HIDE DEF x, y, z
  <2>4. CASE n < L
    BY <1>0, <2>1, <2>2, <2>3, <2>4
  <2>5. CASE ~(n < L)
    BY <1>0, <2>1, <2>2, <2>3, <2>5
  <2> QED
    BY <2>4, <2>5
<1>5. ASSUME NEW x \in 1..Len(a) PROVE a[x] = b[x]
  <2>1. i + x \in 1..Len(u) /\ x \in 1..Len(b) /\ n + (i + x) = (n + i) + x
    BY <1>4
  <2> QED
    BY <1>1, <1>2, <1>3, <2>1
<1>6. a = b
  BY <1>2, <1>3, <1>4, <1>5, SeqEqual
<1> QED
  BY <1>6 DEF a, b, u

----------------------------------------------------------------------------
\* The components.

LEMMA Constructors ==
    /\ \A n \in Nat : retain(n) \in Component /\ del(n) \in Component
    /\ \A x \in Seq(Char) : insert(x) \in Component
BY DEF Component, retain, del, insert

LEMMA Components ==
    ASSUME NEW c \in Component
    PROVE  \/ c.type = "retain" /\ c.count \in Nat /\ c = retain(c.count)
           \/ c.type = "insert" /\ c.text \in Seq(Char) /\ c = insert(c.text)
           \/ c.type = "delete" /\ c.count \in Nat /\ c = del(c.count)
BY DEF Component, retain, del, insert

----------------------------------------------------------------------------
\* The effect of an operation.

At(o, i) == [out |-> o, index |-> i]

Covered(t, s, op) == FoldFn(covered(t), s, op)

Completed(t, s) == s.out \o Cut(t, s.index, Len(t))

LEMMA ApplyIs ==
    ASSUME NEW t \in Seq(Char), NEW op
    PROVE  apply(t, op) = Completed(t, Covered(t, At(<<>>, 0), op))
<1> DEFINE s == Covered(t, At(<<>>, 0), op)
<1>1. apply(t, op) = s.out \o SubSeq(t, s.index + 1, Len(t))
  BY FoldLeftIs DEF apply, Covered, At, FoldLeft, MapThenFoldSet, FoldFn
<1>2. Least(Len(t), Len(t)) = Len(t)
  BY DEF Least
<1> QED
  BY <1>1, <1>2 DEF Completed, Cut

LEMMA ProgressAt ==
    /\ \A s \in Progress : s = At(s.out, s.index) /\ s.out \in Seq(Char) /\ s.index \in Nat
    /\ \A o \in Seq(Char), i \in Nat : At(o, i) \in Progress /\ At(o, i).out = o /\ At(o, i).index = i
BY DEF Progress, At

LEMMA CoveringOne ==
    ASSUME NEW t, NEW o \in Seq(Char), NEW i \in Nat
    PROVE  /\ \A n \in Nat : covered(t)[<<At(o, i), retain(n)>>] = At(o \o Cut(t, i, i + n), i + n)
           /\ \A x \in Seq(Char) : covered(t)[<<At(o, i), insert(x)>>] = At(o \o x, i)
           /\ \A n \in Nat : covered(t)[<<At(o, i), del(n)>>] = At(o, i + n)
<1>1. At(o, i) \in Progress
  BY ProgressAt
<1>2. ASSUME NEW n \in Nat
      PROVE  covered(t)[<<At(o, i), retain(n)>>] = At(o \o Cut(t, i, i + n), i + n)
  <2>1. retain(n) \in Component
    BY Constructors
  <2> QED
    BY <1>1, <2>1 DEF covered, Passed, At, retain, Cut
<1>3. ASSUME NEW x \in Seq(Char) PROVE covered(t)[<<At(o, i), insert(x)>>] = At(o \o x, i)
  <2>1. insert(x) \in Component
    BY Constructors
  <2> QED
    BY <1>1, <2>1 DEF covered, Passed, At, insert
<1>4. ASSUME NEW n \in Nat PROVE covered(t)[<<At(o, i), del(n)>>] = At(o, i + n)
  <2>1. del(n) \in Component
    BY Constructors
  <2> QED
    BY <1>1, <2>1 DEF covered, Passed, At, del
<1> QED
  BY <1>2, <1>3, <1>4

LEMMA CoveringType ==
    ASSUME NEW t \in Seq(Char)
    PROVE  covered(t) \in [Progress \X Component -> Progress]
<1>1. ASSUME NEW s \in Progress, NEW c \in Component PROVE covered(t)[<<s, c>>] \in Progress
  <2>1. s = At(s.out, s.index) /\ s.out \in Seq(Char) /\ s.index \in Nat
    BY ProgressAt
  <2>2. CASE c.type = "retain" /\ c.count \in Nat /\ c = retain(c.count)
    <3>1. covered(t)[<<s, c>>] = At(s.out \o Cut(t, s.index, s.index + c.count), s.index + c.count)
      BY <2>1, <2>2, CoveringOne
    <3>2. s.index + c.count \in Nat
      BY <2>1, <2>2
    <3>3. s.out \o Cut(t, s.index, s.index + c.count) \in Seq(Char)
      BY <2>1, <3>2, CutProperties, Joining
    <3>4. At(s.out \o Cut(t, s.index, s.index + c.count), s.index + c.count) \in Progress
      BY <3>2, <3>3 DEF At, Progress
    <3> QED
      BY <3>1, <3>4
  <2>3. CASE c.type = "insert" /\ c.text \in Seq(Char) /\ c = insert(c.text)
    <3>1. covered(t)[<<s, c>>] = At(s.out \o c.text, s.index)
      BY <2>1, <2>3, CoveringOne
    <3>2. s.out \o c.text \in Seq(Char)
      BY <2>1, <2>3, Joining
    <3>3. At(s.out \o c.text, s.index) \in Progress
      BY <2>1, <3>2 DEF At, Progress
    <3> QED
      BY <3>1, <3>3
  <2>4. CASE c.type = "delete" /\ c.count \in Nat /\ c = del(c.count)
    <3>1. covered(t)[<<s, c>>] = At(s.out, s.index + c.count)
      BY <2>1, <2>4, CoveringOne
    <3>2. s.index + c.count \in Nat
      BY <2>1, <2>4
    <3>3. At(s.out, s.index + c.count) \in Progress
      BY <2>1, <3>2 DEF At, Progress
    <3> QED
      BY <3>1, <3>3
  <2> QED
    BY <2>2, <2>3, <2>4, Components
<1>2. \A p \in Progress \X Component : \E s \in Progress : \E c \in Component : p = <<s, c>>
  OBVIOUS
<1>3. \A p \in Progress \X Component : covered(t)[p] \in Progress
  BY <1>1, <1>2
<1>4. covered(t) = [p \in Progress \X Component |-> covered(t)[p]]
  BY DEF covered
<1> QED
  BY <1>3, <1>4

LEMMA CoveredType ==
    ASSUME NEW t \in Seq(Char), NEW s \in Progress, NEW op \in Op
    PROVE  /\ Foldable(Progress, Component, covered(t), s, op)
           /\ Covered(t, s, op) \in Progress
<1>1. Foldable(Progress, Component, covered(t), s, op)
  BY CoveringType DEF Foldable, Op
<1> QED
  BY <1>1, FoldIn DEF Covered

\* Applied from the place n on, an operation does to the text what it does to the rest of it.
LEMMA CoveringRest ==
    ASSUME NEW t \in Seq(Char), NEW n \in Nat, NEW o \in Seq(Char),
           NEW s \in Progress, NEW c \in Component
    PROVE  LET r == covered(Cut(t, n, Len(t)))[<<s, c>>]
           IN  covered(t)[<<At(o \o s.out, n + s.index), c>>] = At(o \o r.out, n + r.index)
<1> DEFINE u == Cut(t, n, Len(t))
           x == s.out
           i == s.index
           y == o \o x
           m == n + i
<1>1. s = At(x, i) /\ x \in Seq(Char) /\ i \in Nat
  BY ProgressAt
<1> HIDE DEF u, x, i
<1>2. m \in Nat /\ y \in Seq(Char)
  BY <1>1, Joining
<1> HIDE DEF y, m
<1>3. CASE c.type = "retain" /\ c.count \in Nat /\ c = retain(c.count)
  <2> DEFINE j == i + c.count
             p == Cut(u, i, j)
  <2>1. covered(u)[<<s, c>>] = At(x \o p, j)
    BY <1>1, <1>3, CoveringOne
  <2>2. covered(t)[<<At(y, m), c>>] = At(y \o Cut(t, m, m + c.count), m + c.count)
    BY <1>2, <1>3, CoveringOne
  <2>3. m + c.count = n + j /\ j \in Nat
    BY <1>1, <1>3 DEF m
  <2>4. Cut(t, m, n + j) = p
    <3> HIDE DEF j
    <3> QED
      BY <1>1, <2>3, CutOfRest DEF u, m
  <2>5. p \in Seq(Char)
    <3>1. u \in Seq(Char)
      BY CutProperties DEF u
    <3> QED
      BY <1>1, <2>3, <3>1, CutProperties
  <2> HIDE DEF j, p
  <2>6. y \o p = o \o (x \o p)
    BY <1>1, <2>5, Joining DEF y
  <2>7. At(x \o p, j).out = x \o p /\ At(x \o p, j).index = j
    BY DEF At
  <2>8. covered(t)[<<At(y, m), c>>] = At(o \o (x \o p), n + j)
    BY <2>2, <2>3, <2>4, <2>6
  <2> QED
    BY <2>1, <2>7, <2>8 DEF u, x, i, y, m
<1>4. CASE c.type = "insert" /\ c.text \in Seq(Char) /\ c = insert(c.text)
  <2> DEFINE p == c.text
  <2>1. covered(u)[<<s, c>>] = At(x \o p, i)
    BY <1>1, <1>4, CoveringOne, SMTT(30)
  <2>2. covered(t)[<<At(y, m), c>>] = At(y \o p, m)
    BY <1>2, <1>4, CoveringOne
  <2>3. p \in Seq(Char)
    BY <1>4
  <2> HIDE DEF p
  <2>4. y \o p = o \o (x \o p)
    BY <1>1, <2>3, Joining DEF y
  <2>5. At(x \o p, i).out = x \o p /\ At(x \o p, i).index = i
    BY DEF At
  <2> QED
    BY <2>1, <2>2, <2>4, <2>5 DEF u, x, i, y, m
<1>5. CASE c.type = "delete" /\ c.count \in Nat /\ c = del(c.count)
  <2> DEFINE j == i + c.count
  <2>1. covered(u)[<<s, c>>] = At(x, j)
    BY <1>1, <1>5, CoveringOne
  <2>2. covered(t)[<<At(y, m), c>>] = At(y, m + c.count)
    BY <1>2, <1>5, CoveringOne
  <2>3. m + c.count = n + j
    BY <1>1, <1>5 DEF m
  <2> HIDE DEF j
  <2>4. At(x, j).out = x /\ At(x, j).index = j
    BY DEF At
  <2> QED
    BY <2>1, <2>2, <2>3, <2>4 DEF u, x, i, y, m
<1> QED
  BY <1>3, <1>4, <1>5, Components

LEMMA CoveredRest ==
    ASSUME NEW t \in Seq(Char), NEW n \in Nat, NEW o \in Seq(Char), NEW op \in Op
    PROVE  LET f == Covered(Cut(t, n, Len(t)), At(<<>>, 0), op)
           IN  Covered(t, At(o, n), op) = At(o \o f.out, n + f.index)
<1> DEFINE u == Cut(t, n, Len(t))
           f == Covered(u, At(<<>>, 0), op)
<1>1. u \in Seq(Char)
  BY CutProperties
<1>2. At(<<>>, 0) \in Progress /\ At(o, n) \in Progress
  BY ProgressAt, EmptySeq
<1> HIDE DEF u
<1>3. /\ Foldable(Progress, Component, covered(u), At(<<>>, 0), op)
      /\ Foldable(Progress, Component, covered(t), At(o, n), op)
  BY <1>1, <1>2, CoveredType
<1>4. PICK h \in [0..Len(op) -> Progress] : Trace(h, covered(u), At(<<>>, 0), op)
  BY <1>3, TraceExists
<1>5. Len(op) \in Nat /\ \A k \in 1..Len(op) : op[k] \in Component
  BY DEF Op
<1> DEFINE g == [k \in 0..Len(op) |-> At(o \o h[k].out, n + h[k].index)]
<1>6. g[0] = At(o, n)
  <2>1. g[0] = At(o \o h[0].out, n + h[0].index)
    BY <1>5
  <2>2. h[0] = At(<<>>, 0)
    BY <1>4 DEF Trace
  <2>3. h[0].out = <<>> /\ h[0].index = 0
    BY <2>2 DEF At
  <2>4. o \o <<>> = o /\ n + 0 = n
    BY ConcatEmptySeq
  <2> QED
    BY <2>1, <2>3, <2>4
<1>7. ASSUME NEW k \in 1..Len(op) PROVE g[k] = covered(t)[<<g[k - 1], op[k]>>]
  <2>1. k \in 0..Len(op) /\ k - 1 \in 0..Len(op)
    BY <1>5
  <2>2. h[k - 1] \in Progress /\ op[k] \in Component
    BY <1>4, <1>5, <2>1
  <2>3. h[k] = covered(u)[<<h[k - 1], op[k]>>]
    BY <1>4 DEF Trace
  <2>4. covered(t)[<<At(o \o h[k - 1].out, n + h[k - 1].index), op[k]>>]
        = At(o \o h[k].out, n + h[k].index)
    BY <2>2, <2>3, CoveringRest DEF u
  <2> QED
    BY <2>1, <2>4
<1>8. g[Len(op)] = At(o \o h[Len(op)].out, n + h[Len(op)].index)
  BY <1>5
<1> HIDE DEF g
<1>9. Trace(g, covered(t), At(o, n), op)
  BY <1>6, <1>7 DEF Trace
<1>10. Covered(t, At(o, n), op) = g[Len(op)]
  BY <1>3, <1>9, FoldTrace DEF Covered
<1>11. f = h[Len(op)]
  BY <1>3, <1>4, FoldTrace DEF Covered
<1> QED
  BY <1>8, <1>10, <1>11 DEF u

\* apply, one component at a time.
LEMMA ApplyNone ==
    ASSUME NEW t \in Seq(Char)
    PROVE  apply(t, <<>>) = t
<1>1. Covered(t, At(<<>>, 0), <<>>) = At(<<>>, 0)
  BY FoldEmpty DEF Covered
<1>2. Completed(t, At(<<>>, 0)) = <<>> \o Cut(t, 0, Len(t))
  BY DEF Completed, At
<1> QED
  BY <1>1, <1>2, ApplyIs, CutWhole, ConcatEmptySeq

LEMMA ApplyType ==
    ASSUME NEW t \in Seq(Char), NEW op \in Op
    PROVE  apply(t, op) \in Seq(Char)
<1> DEFINE f == Covered(t, At(<<>>, 0), op)
<1>1. f \in Progress
  BY CoveredType, ProgressAt, EmptySeq
<1> HIDE DEF f
<1>2. f.out \in Seq(Char) /\ f.index \in Nat /\ Len(t) \in Nat
  BY <1>1, ProgressAt
<1>3. Cut(t, f.index, Len(t)) \in Seq(Char)
  BY <1>2, CutProperties
<1>4. Completed(t, f) \in Seq(Char)
  BY <1>2, <1>3, Joining DEF Completed
<1> QED
  BY <1>4, ApplyIs DEF f

\* An operation that has produced o from the first n characters.
LEMMA ApplyFrom ==
    ASSUME NEW t \in Seq(Char), NEW n \in Nat, NEW o \in Seq(Char), NEW op \in Op
    PROVE  Completed(t, Covered(t, At(o, n), op)) = o \o apply(Cut(t, n, Len(t)), op)
<1> DEFINE u == Cut(t, n, Len(t))
           f == Covered(u, At(<<>>, 0), op)
<1>1. u \in Seq(Char)
  BY CutProperties
<1>2. Covered(t, At(o, n), op) = At(o \o f.out, n + f.index)
  BY CoveredRest
<1>3. f \in Progress
  <2> HIDE DEF u
  <2> QED
    BY <1>1, CoveredType, ProgressAt, EmptySeq
<1>4. apply(u, op) = f.out \o Cut(u, f.index, Len(u))
  <2> HIDE DEF u
  <2> QED
    BY <1>1, ApplyIs DEF Completed
<1> HIDE DEF f
<1>5. f.out \in Seq(Char) /\ f.index \in Nat /\ Len(t) \in Nat /\ Len(u) \in Nat
  BY <1>1, <1>3, ProgressAt
<1>6. Cut(u, f.index, Len(u)) = Cut(t, n + f.index, n + Len(u))
  <2>1. \A i, j \in Nat : Cut(u, i, j) = Cut(t, n + i, n + j)
    BY CutOfRest
  <2> HIDE DEF u
  <2> QED
    BY <1>5, <2>1
<1>7. Cut(t, n + f.index, n + Len(u)) = Cut(t, n + f.index, Len(t))
  <2>1. Len(u) = IF n < Least(Len(t), Len(t)) THEN Least(Len(t), Len(t)) - n ELSE 0
    BY <1>5, CutProperties
  <2>2. Least(n + Len(u), Len(t)) = Len(t) /\ Least(Len(t), Len(t)) = Len(t)
    <3> HIDE DEF u
    <3> QED
      BY <1>5, <2>1 DEF Least
  <2> QED
    BY <2>2 DEF Cut
<1>8. Cut(u, f.index, Len(u)) \in Seq(Char)
  BY <1>1, <1>5, CutProperties
<1> HIDE DEF u
<1>9. Completed(t, At(o \o f.out, n + f.index)) = (o \o f.out) \o Cut(t, n + f.index, Len(t))
  BY DEF Completed, At
<1>10. (o \o f.out) \o Cut(u, f.index, Len(u)) = o \o (f.out \o Cut(u, f.index, Len(u)))
  BY <1>5, <1>8, Joining
<1> QED
  BY <1>2, <1>4, <1>6, <1>7, <1>9, <1>10 DEF u

LEMMA CoveredFirst ==
    ASSUME NEW t \in Seq(Char), NEW s \in Progress, NEW c \in Component, NEW op \in Op
    PROVE  Covered(t, s, <<c>> \o op) = Covered(t, covered(t)[<<s, c>>], op)
BY CoveredType, FoldCons DEF Covered

LEMMA ApplyInsert ==
    ASSUME NEW t \in Seq(Char), NEW x \in Seq(Char), NEW op \in Op
    PROVE  apply(t, <<insert(x)>> \o op) = x \o apply(t, op)
<1>1. At(<<>>, 0) \in Progress /\ <<>> \in Seq(Char) /\ 0 \in Nat
  BY ProgressAt, EmptySeq
<1>2. covered(t)[<<At(<<>>, 0), insert(x)>>] = At(<<>> \o x, 0)
  <2>1. \A o \in Seq(Char), i \in Nat : covered(t)[<<At(o, i), insert(x)>>] = At(o \o x, i)
    BY CoveringOne
  <2> QED
    BY <1>1, <2>1, Zenon
<1>3. <<>> \o x = x
  BY ConcatEmptySeq
<1>4. insert(x) \in Component
  BY Constructors
<1>5. Covered(t, At(<<>>, 0), <<insert(x)>> \o op) = Covered(t, At(x, 0), op)
  BY <1>1, <1>2, <1>3, <1>4, CoveredFirst
<1>6. Completed(t, Covered(t, At(x, 0), op)) = x \o apply(Cut(t, 0, Len(t)), op)
  BY <1>1, ApplyFrom
<1> QED
  BY <1>5, <1>6, ApplyIs, CutWhole

LEMMA ApplyRetain ==
    ASSUME NEW t \in Seq(Char), NEW n \in Nat, NEW op \in Op
    PROVE  apply(t, <<retain(n)>> \o op) = Cut(t, 0, n) \o apply(Cut(t, n, Len(t)), op)
<1>1. At(<<>>, 0) \in Progress /\ <<>> \in Seq(Char) /\ 0 \in Nat
  BY ProgressAt, EmptySeq
<1>2. covered(t)[<<At(<<>>, 0), retain(n)>>] = At(<<>> \o Cut(t, 0, 0 + n), 0 + n)
  <2>1. \A o \in Seq(Char), i \in Nat : covered(t)[<<At(o, i), retain(n)>>] = At(o \o Cut(t, i, i + n), i + n)
    BY CoveringOne
  <2> QED
    BY <1>1, <2>1, Zenon
<1>3. Cut(t, 0, n) \in Seq(Char) /\ 0 + n = n
  BY <1>1, CutProperties
<1>4. <<>> \o Cut(t, 0, n) = Cut(t, 0, n)
  BY <1>3, ConcatEmptySeq
<1>5. retain(n) \in Component
  BY Constructors
<1>6. Covered(t, At(<<>>, 0), <<retain(n)>> \o op) = Covered(t, At(Cut(t, 0, n), n), op)
  BY <1>1, <1>2, <1>3, <1>4, <1>5, CoveredFirst
<1>7. Completed(t, Covered(t, At(Cut(t, 0, n), n), op)) = Cut(t, 0, n) \o apply(Cut(t, n, Len(t)), op)
  BY <1>3, ApplyFrom
<1> QED
  BY <1>6, <1>7, ApplyIs

LEMMA ApplyDelete ==
    ASSUME NEW t \in Seq(Char), NEW n \in Nat, NEW op \in Op
    PROVE  apply(t, <<del(n)>> \o op) = apply(Cut(t, n, Len(t)), op)
<1>1. At(<<>>, 0) \in Progress /\ <<>> \in Seq(Char) /\ 0 \in Nat
  BY ProgressAt, EmptySeq
<1>2. covered(t)[<<At(<<>>, 0), del(n)>>] = At(<<>>, 0 + n)
  <2>1. \A o \in Seq(Char), i \in Nat : covered(t)[<<At(o, i), del(n)>>] = At(o, i + n)
    BY CoveringOne
  <2> QED
    BY <1>1, <2>1, Zenon
<1>3. 0 + n = n
  OBVIOUS
<1>4. del(n) \in Component
  BY Constructors
<1>5. Covered(t, At(<<>>, 0), <<del(n)>> \o op) = Covered(t, At(<<>>, n), op)
  BY <1>1, <1>2, <1>3, <1>4, CoveredFirst
<1>6. Completed(t, Covered(t, At(<<>>, n), op)) = <<>> \o apply(Cut(t, n, Len(t)), op)
  BY <1>1, ApplyFrom
<1>7. apply(Cut(t, n, Len(t)), op) \in Seq(Char)
  <2>1. Cut(t, n, Len(t)) \in Seq(Char)
    BY CutProperties
  <2> QED
    BY <2>1, ApplyType
<1> QED
  BY <1>5, <1>6, <1>7, ApplyIs, ConcatEmptySeq

----------------------------------------------------------------------------
\* Compaction.

LEMMA FrontLast ==
    ASSUME NEW op \in Op, op # <<>>
    PROVE  Front(op) \in Op /\ Last(op) \in Component /\ op = Append(Front(op), Last(op))
<1>1. op \in Seq(Component) /\ Len(op) \in Nat /\ Len(op) > 0
  BY EmptySeq DEF Op
<1>2. Front(op) \in Seq(Component)
  BY <1>1 DEF Front
<1>3. Last(op) \in Component
  BY <1>1 DEF Last
<1>4. op = Append(Front(op), Last(op))
  BY <1>1 DEF Front, Last
<1> QED
  BY <1>2, <1>3, <1>4 DEF Op

LEMMA CoveredLast ==
    ASSUME NEW t \in Seq(Char), NEW s \in Progress, NEW c \in Component, NEW op \in Op
    PROVE  Covered(t, s, Append(op, c)) = covered(t)[<<Covered(t, s, op), c>>]
BY CoveredType, FoldAppend DEF Covered

\* An empty component has no effect, and two of one type have the effect of the joined one.
LEMMA PassEmpty ==
    ASSUME NEW t \in Seq(Char), NEW s \in Progress, NEW c \in Component, compLen(c) = 0
    PROVE  covered(t)[<<s, c>>] = s
<1> DEFINE x == s.out
           i == s.index
<1>1. s = At(x, i) /\ x \in Seq(Char) /\ i \in Nat /\ i + 0 = i
  BY ProgressAt
<1> HIDE DEF x, i
<1>2. x \o <<>> = x
  BY <1>1, ConcatEmptySeq
<1>3. CASE c.type = "retain" /\ c.count \in Nat /\ c = retain(c.count)
  <2>1. c.count = 0
    BY <1>3 DEF compLen
  <2>2. covered(t)[<<s, c>>] = At(x \o Cut(t, i, i + 0), i + 0)
    BY <1>1, <1>3, <2>1, CoveringOne
  <2>3. Cut(t, i, i) \in Seq(Char) /\ Len(Cut(t, i, i)) = IF i < Least(i, Len(t)) THEN Least(i, Len(t)) - i ELSE 0
    BY <1>1, CutProperties
  <2>4. Len(Cut(t, i, i)) = 0
    BY <1>1, <2>3 DEF Least
  <2>5. Cut(t, i, i) = <<>>
    BY <2>3, <2>4, EmptySeq
  <2> QED
    BY <1>1, <1>2, <2>2, <2>5
<1>4. CASE c.type = "insert" /\ c.text \in Seq(Char) /\ c = insert(c.text)
  <2>1. c.text = <<>>
    BY <1>4, EmptySeq DEF compLen
  <2>2. covered(t)[<<s, c>>] = At(x \o c.text, i)
    BY <1>1, <1>4, CoveringOne
  <2> QED
    BY <1>1, <1>2, <2>1, <2>2
<1>5. CASE c.type = "delete" /\ c.count \in Nat /\ c = del(c.count)
  <2>1. c.count = 0
    BY <1>5 DEF compLen
  <2>2. covered(t)[<<s, c>>] = At(x, i + 0)
    BY <1>1, <1>5, <2>1, CoveringOne
  <2> QED
    BY <1>1, <2>2
<1> QED
  BY <1>3, <1>4, <1>5, Components

LEMMA PassJoined ==
    ASSUME NEW t \in Seq(Char), NEW s \in Progress, NEW c \in Component, NEW d \in Component,
           c.type = d.type
    PROVE  /\ Joined(c, d) \in Component
           /\ covered(t)[<<covered(t)[<<s, c>>], d>>] = covered(t)[<<s, Joined(c, d)>>]
<1> DEFINE x == s.out
           i == s.index
<1>1. s = At(x, i) /\ x \in Seq(Char) /\ i \in Nat
  BY ProgressAt
<1> HIDE DEF x, i
<1>3. CASE c.type = "retain" /\ c.count \in Nat /\ c = retain(c.count)
  <2> DEFINE m == c.count
             n == d.count
             j == i + m
             y == x \o Cut(t, i, j)
  <2>1. n \in Nat /\ d = retain(n)
    BY <1>3, Components
  <2>2. Joined(c, d) = retain(m + n)
    BY <1>3, <2>1 DEF Joined, retain
  <2>3. m \in Nat /\ m + n \in Nat /\ j \in Nat /\ j + n \in Nat /\ j + n = i + (m + n)
    BY <1>1, <1>3, <2>1
  <2>4. covered(t)[<<s, c>>] = At(y, j)
    BY <1>1, <1>3, CoveringOne
  <2>5. Cut(t, i, j) \in Seq(Char) /\ Cut(t, j, j + n) \in Seq(Char)
    <3> HIDE DEF j, n
    <3> QED
      BY <1>1, <2>3, CutProperties
  <2>6. y \in Seq(Char)
    BY <1>1, <2>5, Joining
  <2>7. covered(t)[<<At(y, j), d>>] = At(y \o Cut(t, j, j + n), j + n)
    <3> HIDE DEF y, j, n
    <3> QED
      BY <2>1, <2>3, <2>6, CoveringOne
  <2>8. Cut(t, i, j) \o Cut(t, j, j + n) = Cut(t, i, j + n)
    <3>1. i <= j /\ j <= j + n
      BY <1>1, <1>3, <2>1
    <3> HIDE DEF j, n
    <3> QED
      BY <1>1, <2>3, <3>1, CutJoin
  <2>9. y \o Cut(t, j, j + n) = x \o Cut(t, i, j + n)
    <3> DEFINE p == Cut(t, i, j)
               q == Cut(t, j, j + n)
    <3>1. p \in Seq(Char) /\ q \in Seq(Char) /\ p \o q = Cut(t, i, j + n)
      BY <2>5, <2>8
    <3> HIDE DEF p, q
    <3>2. (x \o p) \o q = x \o (p \o q)
      BY <1>1, <3>1, Joining
    <3> QED
      BY <3>1, <3>2 DEF p, q
  <2>10. covered(t)[<<s, retain(m + n)>>] = At(x \o Cut(t, i, i + (m + n)), i + (m + n))
    <3> HIDE DEF m, n
    <3> QED
      BY <1>1, <2>3, CoveringOne
  <2>11. retain(m + n) \in Component
    <3> HIDE DEF m, n
    <3> QED
      BY <2>3, Constructors
  <2> HIDE DEF m, n, j, y
  <2> QED
    BY <2>2, <2>3, <2>4, <2>7, <2>9, <2>10, <2>11
<1>4. CASE c.type = "insert" /\ c.text \in Seq(Char) /\ c = insert(c.text)
  <2> DEFINE a == c.text
             b == d.text
             y == x \o a
             e == a \o b
  <2>1. a \in Seq(Char) /\ b \in Seq(Char) /\ d = insert(b)
    BY <1>4, Components
  <2>2. Joined(c, d) = insert(e)
    BY <1>4 DEF Joined
  <2>3. y \in Seq(Char) /\ e \in Seq(Char) /\ y \o b = x \o e
    <3> HIDE DEF a, b
    <3> QED
      BY <1>1, <2>1, Joining
  <2>4. covered(t)[<<s, c>>] = At(y, i)
    BY <1>1, <1>4, CoveringOne
  <2> HIDE DEF a, b, y, e
  <2>5. covered(t)[<<At(y, i), d>>] = At(y \o b, i)
    <3>1. \A z \in Seq(Char) : covered(t)[<<At(y, i), insert(z)>>] = At(y \o z, i)
      BY <1>1, <2>3, CoveringOne
    <3> QED
      BY <2>1, <3>1
  <2>6. covered(t)[<<s, insert(e)>>] = At(x \o e, i)
    BY <1>1, <2>3, CoveringOne
  <2>7. insert(e) \in Component
    BY <2>3, Constructors
  <2> QED
    BY <2>2, <2>3, <2>4, <2>5, <2>6, <2>7
<1>5. CASE c.type = "delete" /\ c.count \in Nat /\ c = del(c.count)
  <2> DEFINE m == c.count
             n == d.count
             j == i + m
             k == m + n
  <2>1. n \in Nat /\ d = del(n)
    BY <1>5, Components
  <2>2. Joined(c, d) = del(k)
    BY <1>5, <2>1 DEF Joined, del
  <2>3. k \in Nat /\ j \in Nat /\ j + n = i + k
    BY <1>1, <1>5, <2>1
  <2>4. covered(t)[<<s, c>>] = At(x, j)
    BY <1>1, <1>5, CoveringOne
  <2> HIDE DEF m, n, j, k
  <2>5. covered(t)[<<At(x, j), d>>] = At(x, j + n)
    BY <1>1, <2>1, <2>3, CoveringOne
  <2>6. covered(t)[<<s, del(k)>>] = At(x, i + k)
    BY <1>1, <2>3, CoveringOne
  <2>7. del(k) \in Component
    BY <2>3, Constructors
  <2> QED
    BY <2>2, <2>3, <2>4, <2>5, <2>6, <2>7
<1> QED
  BY <1>3, <1>4, <1>5, Components

\* One more component has its effect, however it is put at the end of an operation.
LEMMA PushEffect ==
    ASSUME NEW out \in Op, NEW c \in Component
    PROVE  /\ Pushed(out, c) \in Op
           /\ \A t \in Seq(Char), s \in Progress :
                  Covered(t, s, Pushed(out, c)) = covered(t)[<<Covered(t, s, out), c>>]
<1>1. CASE compLen(c) = 0
  <2>1. Pushed(out, c) = out
    BY <1>1 DEF Pushed
  <2> QED
    BY <1>1, <2>1, PassEmpty, CoveredType
<1>2. CASE compLen(c) # 0 /\ out # <<>> /\ Last(out).type = c.type
  <2> DEFINE f == Front(out)
             l == Last(out)
             j == Joined(l, c)
  <2>1. Pushed(out, c) = Append(f, j)
    BY <1>2 DEF Pushed
  <2>2. f \in Op /\ l \in Component /\ out = Append(f, l) /\ l.type = c.type
    BY <1>2, FrontLast
  <2> HIDE DEF f, l
  <2>3. j \in Component
    <3>1. <<>> \in Seq(Char) /\ At(<<>>, 0) \in Progress
      BY EmptySeq, ProgressAt
    <3> QED
      BY <2>2, <3>1, PassJoined
  <2>4. ASSUME NEW t \in Seq(Char), NEW s \in Progress
        PROVE  Covered(t, s, Append(f, j)) = covered(t)[<<Covered(t, s, Append(f, l)), c>>]
    <3> DEFINE r == Covered(t, s, f)
    <3>1. r \in Progress
      BY <2>2, CoveredType
    <3>2. Covered(t, s, Append(f, l)) = covered(t)[<<r, l>>]
      BY <2>2, CoveredLast
    <3>3. Covered(t, s, Append(f, j)) = covered(t)[<<r, j>>]
      BY <2>2, <2>3, CoveredLast
    <3>4. covered(t)[<<covered(t)[<<r, l>>], c>>] = covered(t)[<<r, j>>]
      BY <2>2, <3>1, PassJoined
    <3> QED
      BY <3>2, <3>3, <3>4
  <2> HIDE DEF j
  <2>5. Append(f, j) \in Op
    BY <2>2, <2>3 DEF Op
  <2> QED
    BY <2>1, <2>2, <2>4, <2>5
<1>3. CASE compLen(c) # 0 /\ ~(out # <<>> /\ Last(out).type = c.type)
  <2>1. Pushed(out, c) = Append(out, c)
    BY <1>3 DEF Pushed
  <2>2. Append(out, c) \in Op
    BY DEF Op
  <2> QED
    BY <2>1, <2>2, CoveredLast
<1> QED
  BY <1>1, <1>2, <1>3

LEMMA PushType == push \in [Op \X Component -> Op]
<1>1. \A p \in Op \X Component : p[1] \in Op /\ p[2] \in Component
  OBVIOUS
<1>2. \A p \in Op \X Component : Pushed(p[1], p[2]) \in Op
  BY <1>1, PushEffect
<1> QED
  BY <1>2 DEF push

LEMMA CompactIs ==
    ASSUME NEW op
    PROVE  compact(op) = FoldFn(push, <<>>, op)
BY FoldLeftIs DEF compact, FoldLeft, MapThenFoldSet, FoldFn

LEMMA PushFoldable ==
    ASSUME NEW op \in Op
    PROVE  Foldable(Op, Component, push, <<>>, op)
<1>1. <<>> \in Op
  BY EmptySeq DEF Op
<1> QED
  BY <1>1, PushType DEF Foldable, Op

\* Compaction keeps the effect of an operation on every text.
LEMMA CompactEffect ==
    ASSUME NEW op \in Op
    PROVE  /\ compact(op) \in Op
           /\ \A t \in Seq(Char) : apply(t, compact(op)) = apply(t, op)
<1>1. PICK h \in [0..Len(op) -> Op] : Trace(h, push, <<>>, op)
  BY PushFoldable, TraceExists
<1>2. compact(op) = h[Len(op)]
  BY <1>1, PushFoldable, CompactIs, FoldTrace
<1>3. Len(op) \in Nat /\ \A k \in 1..Len(op) : op[k] \in Component
  BY DEF Op
<1>4. h[Len(op)] \in Op
  BY <1>1, <1>3
<1>5. ASSUME NEW t \in Seq(Char) PROVE apply(t, compact(op)) = apply(t, op)
  <2> DEFINE s == At(<<>>, 0)
             g == [k \in 0..Len(op) |-> Covered(t, s, h[k])]
  <2>1. s \in Progress
    BY EmptySeq, ProgressAt
  <2> HIDE DEF s
  <2>2. g[0] = s
    <3>1. 0 \in 0..Len(op) /\ h[0] = <<>>
      BY <1>1, <1>3 DEF Trace
    <3> QED
      BY <3>1, FoldEmpty DEF Covered
  <2>3. ASSUME NEW k \in 1..Len(op) PROVE g[k] = covered(t)[<<g[k - 1], op[k]>>]
    <3>1. k \in 0..Len(op) /\ k - 1 \in 0..Len(op) /\ op[k] \in Component
      BY <1>3
    <3>2. h[k - 1] \in Op
      BY <1>1, <3>1
    <3>3. h[k] = Pushed(h[k - 1], op[k])
      BY <1>1, <3>1, <3>2 DEF Trace, push
    <3>4. Covered(t, s, Pushed(h[k - 1], op[k])) = covered(t)[<<Covered(t, s, h[k - 1]), op[k]>>]
      BY <2>1, <3>1, <3>2, PushEffect
    <3> QED
      BY <3>1, <3>3, <3>4
  <2>4. g[Len(op)] = Covered(t, s, h[Len(op)])
    BY <1>3
  <2> HIDE DEF g
  <2>5. Trace(g, covered(t), s, op)
    BY <2>2, <2>3 DEF Trace
  <2>6. Covered(t, s, op) = g[Len(op)]
    BY <2>1, <2>5, CoveredType, FoldTrace DEF Covered
  <2> QED
    BY <1>2, <2>4, <2>6, ApplyIs DEF s
<1> QED
  BY <1>2, <1>4, <1>5

\* What compaction returns is compact.
LEMMA CompactForm ==
    ASSUME NEW op \in Op
    PROVE  Compact(compact(op))
<1> DEFINE B == {out \in Op : Compact(out)}
<1>1. B \in SUBSET Op /\ <<>> \in B
  BY EmptySeq DEF Op, Compact
<1>2. ASSUME NEW out \in B, NEW c \in Component PROVE Pushed(out, c) \in B
  <2>1. out \in Op /\ Compact(out) /\ Pushed(out, c) \in Op
    BY PushEffect
  <2>2. CASE compLen(c) = 0
    BY <2>1, <2>2 DEF Pushed
  <2>3. compLen(c) \in Nat
    <3>1. c.type = "insert" => c.text \in Seq(Char)
      BY Components
    <3>2. c.type # "insert" => c.count \in Nat
      BY Components
    <3> QED
      BY <3>1, <3>2 DEF compLen
  <2>4. Len(out) \in Nat /\ \A i \in 1..Len(out) : out[i] \in Component
    BY <2>1 DEF Op
  <2>5. CASE compLen(c) # 0 /\ out # <<>> /\ Last(out).type = c.type
    <3> DEFINE f == Front(out)
               l == Last(out)
               j == Joined(l, c)
               r == Append(f, j)
               n == Len(out)
    <3>1. Pushed(out, c) = r
      BY <2>5 DEF Pushed
    <3>2. n > 0 /\ l = out[n] /\ f \in Op /\ l \in Component /\ l.type = c.type
      BY <2>1, <2>4, <2>5, FrontLast, EmptySeq DEF Last, Op
    <3>3. Len(f) = n - 1 /\ \A i \in 1..(n - 1) : f[i] = out[i]
      <4>1. f = SubSeq(out, 1, n - 1) /\ n - 1 \in Int /\ \A i \in 1..(n - 1) : out[i] \in Component
        BY <2>4 DEF Front
      <4> HIDE DEF f
      <4>2. /\ Len(f) = IF 1 <= n - 1 THEN (n - 1) - 1 + 1 ELSE 0
            /\ \A i \in 1..((n - 1) - 1 + 1) : f[i] = out[1 + i - 1]
        BY <4>1, SubSeqProperties
      <4> HIDE DEF n
      <4>3. n \in Nat /\ n > 0
        BY <2>4, <3>2 DEF n
      <4>4. \A i \in 1..(n - 1) : i \in 1..((n - 1) - 1 + 1) /\ 1 + i - 1 = i
        BY <4>3
      <4> QED
        BY <4>2, <4>3, <4>4
    <3>4. j.type = c.type /\ compLen(j) > 0
      <4>1. compLen(l) > 0
        BY <2>1, <2>4, <3>2 DEF Compact, Op
      <4>2. CASE l.type = "insert"
        <5>1. l.text \in Seq(Char) /\ c.text \in Seq(Char) /\ c.type = "insert"
          BY <3>2, <4>2, Components
        <5>2. Len(l.text \o c.text) = Len(l.text) + Len(c.text) /\ Len(c.text) \in Nat /\ Len(l.text) \in Nat
          BY <5>1, ConcatProperties
        <5>3. j = insert(l.text \o c.text)
          BY <4>2 DEF Joined
        <5> HIDE DEF l, j
        <5>4. j.type = "insert" /\ j.text = l.text \o c.text
          BY <5>3 DEF insert
        <5>5. Len(l.text) > 0
          BY <4>1, <4>2 DEF compLen
        <5>6. Len(j.text) > 0
          <6>1. Len(l.text \o c.text) > 0
            <7> DEFINE a == Len(l.text)
                       b == Len(c.text)
            <7>1. a > 0 /\ a \in Nat /\ b \in Nat /\ Len(l.text \o c.text) = a + b
              BY <5>2, <5>5
            <7> HIDE DEF a, b
            <7> QED
              BY <7>1
          <6> QED
            BY <5>4, <6>1
        <5> QED
          BY <5>1, <5>4, <5>6 DEF compLen
      <4>3. CASE l.type # "insert"
        <5>1. l.count \in Nat /\ c.count \in Nat /\ (l = retain(l.count) \/ l = del(l.count)) /\ c.type # "insert"
          BY <3>2, <4>3, Components
        <5>2. j = [l EXCEPT !.count = @ + c.count]
          BY <4>3 DEF Joined
        <5> HIDE DEF l, j
        <5>3. j.type = l.type /\ j.count = l.count + c.count
          BY <5>1, <5>2 DEF retain, del
        <5> QED
          BY <3>2, <4>1, <4>3, <5>1, <5>3 DEF compLen
      <4> QED
        BY <4>2, <4>3
    <3>5. j \in Component
      <4>1. <<>> \in Seq(Char) /\ At(<<>>, 0) \in Progress
        BY EmptySeq, ProgressAt
      <4> QED
        BY <3>2, <4>1, PassJoined
    <3> HIDE DEF f, l, j
    <3>6. DOMAIN r = 1..n /\ Len(r) = n /\ r[n] = j /\ \A i \in 1..(n - 1) : r[i] = out[i]
      BY <2>4, <3>2, <3>3, <3>5, AppendProperties DEF Op
    <3> HIDE DEF r
    <3>7. DOMAIN out = 1..n
      BY <2>1 DEF Op
    <3> HIDE DEF n
    <3>8. ASSUME NEW i \in DOMAIN r PROVE compLen(r[i]) > 0
      <4>1. CASE i = n
        BY <3>4, <3>6, <4>1
      <4>2. CASE i # n
        <5>1. i \in 1..(n - 1) /\ i \in DOMAIN out
          BY <2>4, <3>2, <3>6, <3>7, <4>2 DEF n
        <5> QED
          BY <2>1, <3>6, <5>1 DEF Compact
      <4> QED
        BY <4>1, <4>2
    <3>9. ASSUME NEW i \in 1..(n - 1) PROVE r[i].type # r[i + 1].type
      <4>1. out[i].type # out[i + 1].type
        BY <2>1 DEF Compact, n
      <4>2. CASE i = n - 1
        <5>1. i + 1 = n
          BY <2>4, <4>2 DEF n
        <5> QED
          BY <3>2, <3>4, <3>6, <4>1, <5>1
      <4>3. CASE i # n - 1
        <5>1. i + 1 \in 1..(n - 1)
          BY <2>4, <4>3 DEF n
        <5> QED
          BY <3>6, <4>1, <5>1
      <4> QED
        BY <4>2, <4>3
    <3> QED
      BY <2>1, <3>1, <3>6, <3>8, <3>9 DEF Compact
  <2>6. CASE compLen(c) # 0 /\ ~(out # <<>> /\ Last(out).type = c.type)
    <3> DEFINE r == Append(out, c)
               n == Len(out)
    <3>1. Pushed(out, c) = r
      BY <2>6 DEF Pushed
    <3>2. DOMAIN r = 1..(n + 1) /\ Len(r) = n + 1 /\ r[n + 1] = c /\ \A i \in 1..n : r[i] = out[i]
      BY <2>1, AppendProperties DEF Op
    <3>3. DOMAIN out = 1..n /\ (n > 0 => out # <<>> /\ out[n].type # c.type)
      BY <2>1, <2>4, <2>6, EmptySeq DEF Op, Last
    <3> HIDE DEF r
    <3>4. ASSUME NEW i \in DOMAIN r PROVE compLen(r[i]) > 0
      <4>1. CASE i = n + 1
        BY <2>3, <2>6, <3>2, <4>1
      <4>2. CASE i # n + 1
        <5>1. i \in 1..n
          BY <2>4, <3>2, <4>2
        <5> QED
          BY <2>1, <3>2, <3>3, <5>1 DEF Compact
      <4> QED
        BY <4>1, <4>2
    <3>5. ASSUME NEW i \in 1..n PROVE r[i].type # r[i + 1].type
      <4>1. CASE i = n
        BY <2>4, <3>2, <3>3, <4>1
      <4>2. CASE i # n
        <5>1. i \in 1..(n - 1) /\ i + 1 \in 1..n
          BY <2>4, <4>2
        <5>2. out[i].type # out[i + 1].type
          BY <2>1, <5>1 DEF Compact
        <5> QED
          BY <3>2, <5>1, <5>2
      <4> QED
        BY <4>1, <4>2
    <3>6. (n + 1) - 1 = n
      BY <2>4
    <3> QED
      BY <2>1, <3>1, <3>2, <3>4, <3>5, <3>6 DEF Compact
  <2> QED
    BY <2>2, <2>5, <2>6
<1>3. \A out \in B : \A c \in Component : push[<<out, c>>] \in B
  <2>1. \A out \in B : \A c \in Component : push[<<out, c>>] = Pushed(out, c)
    BY <1>1 DEF push
  <2> HIDE DEF B
  <2> QED
    BY <1>2, <2>1
<1> HIDE DEF B
<1>4. FoldFn(push, <<>>, op) \in B
  BY <1>1, <1>3, PushFoldable, FoldWithin
<1> QED
  BY <1>4, CompactIs DEF B

----------------------------------------------------------------------------
\* The head of an operation in two.

LEMMA HeadTail ==
    ASSUME NEW op \in Op, op # <<>>
    PROVE  /\ Head(op) \in Component /\ Tail(op) \in Op /\ op = <<Head(op)>> \o Tail(op)
           /\ Len(op) \in Nat /\ Len(Tail(op)) \in Nat /\ Len(op) = Len(Tail(op)) + 1
<1>1. op \in Seq(Component) /\ Len(op) \in Nat /\ Len(op) > 0
  BY EmptySeq DEF Op
<1>2. Head(op) \in Component /\ Tail(op) \in Seq(Component) /\ Len(Tail(op)) = Len(op) - 1
  BY <1>1, HeadTailProperties
<1>3. op = <<Head(op)>> \o Tail(op)
  BY <1>1
<1> QED
  BY <1>1, <1>2, <1>3 DEF Op

LEMMA ConsType ==
    ASSUME NEW c \in Component, NEW op \in Op
    PROVE  /\ <<c>> \o op \in Op
           /\ Len(<<c>> \o op) = Len(op) + 1 /\ Len(op) \in Nat
           /\ Head(<<c>> \o op) = c /\ Tail(<<c>> \o op) = op /\ <<c>> \o op # <<>>
BY DEF Op

\* The first n characters of a text that has them, and the others.
LEMMA CutLength ==
    ASSUME NEW t \in Seq(Char), NEW n \in Nat, n <= Len(t)
    PROVE  /\ Cut(t, 0, n) \in Seq(Char) /\ Len(Cut(t, 0, n)) = n
           /\ Cut(t, n, Len(t)) \in Seq(Char) /\ Len(Cut(t, n, Len(t))) = Len(t) - n
<1> DEFINE m == Len(t)
<1>1. m \in Nat /\ n <= m /\ 0 \in Nat
  OBVIOUS
<1>2. \A i, j \in Nat : /\ Cut(t, i, j) \in Seq(Char)
                        /\ Len(Cut(t, i, j)) = IF i < Least(j, m) THEN Least(j, m) - i ELSE 0
  BY CutProperties
<1> HIDE DEF m
<1>3. Least(n, m) = n /\ Least(m, m) = m
  BY <1>1 DEF Least
<1>4. /\ Cut(t, 0, n) \in Seq(Char)
      /\ Len(Cut(t, 0, n)) = IF 0 < n THEN n - 0 ELSE 0
  BY <1>1, <1>2, <1>3
<1>5. /\ Cut(t, n, m) \in Seq(Char)
      /\ Len(Cut(t, n, m)) = IF n < m THEN m - n ELSE 0
  BY <1>1, <1>2, <1>3
<1>6. Len(Cut(t, 0, n)) = n
  BY <1>4
<1>7. Len(Cut(t, n, m)) = m - n
  BY <1>1, <1>5
<1> QED
  BY <1>4, <1>5, <1>6, <1>7 DEF m

\* What lies after the place n + i, of the text or of its rest from n on.
LEMMA CutRest ==
    ASSUME NEW t \in Seq(Char), NEW n \in Nat, NEW i \in Nat
    PROVE  LET u == Cut(t, n, Len(t)) IN Cut(u, i, Len(u)) = Cut(t, n + i, Len(t))
<1> DEFINE u == Cut(t, n, Len(t))
<1>0. Len(t) \in Nat
  OBVIOUS
<1>1. u \in Seq(Char)
  BY <1>0, CutProperties
<1>2. Len(t) \in Nat /\ Len(u) \in Nat
  <2> HIDE DEF u
  <2> QED
    BY <1>0, <1>1
<1>3. Cut(u, i, Len(u)) = Cut(t, n + i, n + Len(u))
  <2>1. \A j \in Nat : Cut(u, i, j) = Cut(t, n + i, n + j)
    BY CutOfRest
  <2> HIDE DEF u
  <2> QED
    BY <1>2, <2>1
<1>4. Len(u) = IF n < Least(Len(t), Len(t)) THEN Least(Len(t), Len(t)) - n ELSE 0
  BY <1>2, CutProperties
<1>5. Least(n + Len(u), Len(t)) = Len(t) /\ Least(Len(t), Len(t)) = Len(t)
  <2> HIDE DEF u
  <2> QED
    BY <1>2, <1>4 DEF Least
<1>6. Cut(t, n + i, n + Len(u)) = Cut(t, n + i, Len(t))
  BY <1>5 DEF Cut
<1> QED
  BY <1>3, <1>6

\* An operation that starts with a retain or a delete, cut after n characters.
LEMMA SplitRetain ==
    ASSUME NEW m \in Nat, NEW rest \in Op, NEW n \in Nat, n <= m
    PROVE  LET op == <<retain(m)>> \o rest
           IN  /\ next(op, n) = retain(n)
               /\ remainder(op, n) \in Op
               /\ Len(remainder(op, n)) = IF n = m THEN Len(rest) ELSE Len(rest) + 1
               /\ \A t \in Seq(Char) :
                      apply(t, op) = Cut(t, 0, n) \o apply(Cut(t, n, Len(t)), remainder(op, n))
<1> DEFINE op == <<retain(m)>> \o rest
           left == m - n
           r == IF n = m THEN rest ELSE <<retain(left)>> \o rest
<1>1. retain(m) \in Component /\ left \in Nat /\ n + left = m
  BY Constructors
<1>2. retain(left) \in Component
  <2> HIDE DEF left
  <2> QED
    BY <1>1, Constructors
<1>3. Head(op) = retain(m) /\ Tail(op) = rest
  BY <1>1, ConsType
<1>4. next(op, n) = retain(n) /\ remainder(op, n) = r
  <2>1. [retain(m) EXCEPT !.count = n] = retain(n) /\ [retain(m) EXCEPT !.count = @ - n] = retain(left)
    BY DEF retain
  <2>2. retain(m).type = "retain" /\ compLen(retain(m)) = m
    BY DEF retain, compLen
  <2>3. next(op, n) = retain(n)
    BY <1>3, <2>1, <2>2 DEF next
  <2>4. remainder(op, n) = IF m = n THEN rest ELSE <<retain(left)>> \o rest
    BY <1>3, <2>1, <2>2 DEF remainder
  <2> QED
    BY <2>3, <2>4
<1>5. r \in Op /\ Len(r) = IF n = m THEN Len(rest) ELSE Len(rest) + 1
  <2> HIDE DEF left
  <2> QED
    BY <1>2, ConsType
<1>6. ASSUME NEW t \in Seq(Char) PROVE apply(t, op) = Cut(t, 0, n) \o apply(Cut(t, n, Len(t)), r)
  <2>1. CASE n = m
    BY <2>1, ApplyRetain
  <2>2. CASE n # m
    <3> HIDE DEF left
    <3> DEFINE u == Cut(t, n, Len(t))
               v == Cut(t, m, Len(t))
    <3>1. u \in Seq(Char) /\ v \in Seq(Char)
      BY CutProperties
    <3>2. apply(t, op) = Cut(t, 0, m) \o apply(v, rest)
      BY ApplyRetain
    <3>3. Cut(u, 0, left) = Cut(t, n, m)
      <4>1. \A j \in Nat : Cut(u, 0, j) = Cut(t, n + 0, n + j)
        BY CutOfRest
      <4> HIDE DEF u
      <4>2. n + 0 = n
        OBVIOUS
      <4> QED
        BY <1>1, <4>1, <4>2
    <3>4. Cut(u, left, Len(u)) = v
      BY <1>1, CutRest
    <3>5. Cut(t, 0, n) \in Seq(Char) /\ Cut(t, n, m) \in Seq(Char)
      BY CutProperties
    <3>6. Cut(t, 0, n) \o Cut(t, n, m) = Cut(t, 0, m)
      BY CutJoin
    <3> HIDE DEF u, v
    <3>7. apply(u, r) = Cut(t, n, m) \o apply(v, rest)
      <4>1. apply(u, <<retain(left)>> \o rest) = Cut(u, 0, left) \o apply(Cut(u, left, Len(u)), rest)
        BY <1>1, <3>1, ApplyRetain
      <4> QED
        BY <2>2, <3>3, <3>4, <4>1
    <3> DEFINE a == Cut(t, 0, n)
               b == Cut(t, n, m)
               c == apply(v, rest)
    <3>8. c \in Seq(Char)
      BY <3>1, ApplyType
    <3>9. (a \o b) \o c = a \o (b \o c)
      <4>1. a \in Seq(Char) /\ b \in Seq(Char)
        BY <3>5
      <4> HIDE DEF a, b, c
      <4> QED
        BY <3>8, <4>1, Joining, SMTT(30)
    <3> QED
      BY <3>2, <3>6, <3>7, <3>9 DEF u
  <2> QED
    BY <2>1, <2>2
<1> QED
  BY <1>4, <1>5, <1>6

LEMMA SplitDelete ==
    ASSUME NEW m \in Nat, NEW rest \in Op, NEW n \in Nat, n <= m
    PROVE  LET op == <<del(m)>> \o rest
           IN  /\ next(op, n) = del(n)
               /\ remainder(op, n) \in Op
               /\ Len(remainder(op, n)) = IF n = m THEN Len(rest) ELSE Len(rest) + 1
               /\ \A t \in Seq(Char) : apply(t, op) = apply(Cut(t, n, Len(t)), remainder(op, n))
<1> DEFINE op == <<del(m)>> \o rest
           left == m - n
           r == IF n = m THEN rest ELSE <<del(left)>> \o rest
<1>1. del(m) \in Component /\ left \in Nat /\ n + left = m
  BY Constructors
<1>2. del(left) \in Component
  <2> HIDE DEF left
  <2> QED
    BY <1>1, Constructors
<1>3. Head(op) = del(m) /\ Tail(op) = rest
  BY <1>1, ConsType
<1>4. next(op, n) = del(n) /\ remainder(op, n) = r
  <2>1. [del(m) EXCEPT !.count = n] = del(n) /\ [del(m) EXCEPT !.count = @ - n] = del(left)
    BY DEF del
  <2>2. del(m).type = "delete" /\ compLen(del(m)) = m
    BY DEF del, compLen
  <2>3. next(op, n) = del(n)
    BY <1>3, <2>1, <2>2 DEF next
  <2>4. remainder(op, n) = IF m = n THEN rest ELSE <<del(left)>> \o rest
    BY <1>3, <2>1, <2>2 DEF remainder
  <2> QED
    BY <2>3, <2>4
<1>5. r \in Op /\ Len(r) = IF n = m THEN Len(rest) ELSE Len(rest) + 1
  <2> HIDE DEF left
  <2> QED
    BY <1>2, ConsType
<1>6. ASSUME NEW t \in Seq(Char) PROVE apply(t, op) = apply(Cut(t, n, Len(t)), r)
  <2>1. CASE n = m
    BY <2>1, ApplyDelete
  <2>2. CASE n # m
    <3> HIDE DEF left
    <3> DEFINE u == Cut(t, n, Len(t))
               v == Cut(t, m, Len(t))
    <3>1. u \in Seq(Char)
      BY CutProperties
    <3>2. apply(t, op) = apply(v, rest)
      BY ApplyDelete
    <3>3. Cut(u, left, Len(u)) = v
      BY <1>1, CutRest
    <3> HIDE DEF u, v
    <3>4. apply(u, r) = apply(v, rest)
      BY <1>1, <2>2, <3>1, <3>3, ApplyDelete
    <3> QED
      BY <3>2, <3>4 DEF u
  <2> QED
    BY <2>1, <2>2
<1> QED
  BY <1>4, <1>5, <1>6

LEMMA SplitInsert ==
    ASSUME NEW x \in Seq(Char), NEW rest \in Op, NEW n \in Nat, n <= Len(x)
    PROVE  LET op == <<insert(x)>> \o rest
           IN  /\ next(op, n) = insert(Cut(x, 0, n))
               /\ remainder(op, n) \in Op
               /\ Len(remainder(op, n)) = IF n = Len(x) THEN Len(rest) ELSE Len(rest) + 1
               /\ \A t \in Seq(Char) : apply(t, op) = Cut(x, 0, n) \o apply(t, remainder(op, n))
<1> DEFINE op == <<insert(x)>> \o rest
           y == Cut(x, 0, n)
           z == Cut(x, n, Len(x))
           r == IF n = Len(x) THEN rest ELSE <<insert(z)>> \o rest
<1>0. Len(x) \in Nat /\ y \in Seq(Char) /\ z \in Seq(Char)
  BY CutProperties
<1>1. y \o z = x
  <2>1. y \o z = Cut(x, 0, Len(x))
    BY <1>0, CutJoin
  <2> QED
    BY <2>1, CutWhole
<1>2. y = SubSeq(x, 1, n) /\ z = SubSeq(x, n + 1, Len(x))
  BY <1>0 DEF Cut, Least
<1>3. insert(x) \in Component /\ insert(z) \in Component
  BY <1>0, Constructors
<1> HIDE DEF y, z
<1>4. Head(op) = insert(x) /\ Tail(op) = rest
  BY <1>3, ConsType
<1>5. next(op, n) = insert(y) /\ remainder(op, n) = r
  <2>1. insert(x).type = "insert" /\ insert(x).text = x /\ compLen(insert(x)) = Len(x)
    BY DEF insert, compLen
  <2>2. next(op, n) = insert(y)
    BY <1>2, <1>4, <2>1 DEF next
  <2>3. remainder(op, n) = IF Len(x) = n THEN rest ELSE <<insert(z)>> \o rest
    BY <1>2, <1>4, <2>1 DEF remainder
  <2> QED
    BY <2>2, <2>3
<1>6. r \in Op /\ Len(r) = IF n = Len(x) THEN Len(rest) ELSE Len(rest) + 1
  BY <1>3, ConsType
<1>7. ASSUME NEW t \in Seq(Char) PROVE apply(t, op) = y \o apply(t, r)
  <2>1. apply(t, op) = x \o apply(t, rest) /\ apply(t, rest) \in Seq(Char)
    BY ApplyInsert, ApplyType
  <2>2. CASE n = Len(x)
    <3>1. y = x
      BY <2>2, CutWhole DEF y
    <3> QED
      BY <2>1, <2>2, <3>1
  <2>3. CASE n # Len(x)
    <3>1. apply(t, r) = z \o apply(t, rest)
      BY <1>0, <2>3, ApplyInsert
    <3>2. (y \o z) \o apply(t, rest) = y \o (z \o apply(t, rest))
      BY <1>0, <2>1, Joining, SMTT(30)
    <3> QED
      BY <1>1, <2>1, <3>1, <3>2
  <2> QED
    BY <2>2, <2>3
<1> QED
  BY <1>5, <1>6, <1>7 DEF y

----------------------------------------------------------------------------
\* How far an operation reaches.

Extent(c) == IF c.type = "insert" THEN 0 ELSE c.count

Reached == [p \in Nat \X Component |-> IF p[2].type = "insert" THEN p[1] ELSE p[1] + p[2].count]

LEMMA ReachIs ==
    ASSUME NEW op
    PROVE  Reach(op) = FoldFn(Reached, 0, op)
BY FoldLeftIs DEF Reach, Reached, FoldLeft, MapThenFoldSet, FoldFn

LEMMA ExtentType ==
    ASSUME NEW c \in Component
    PROVE  /\ Extent(c) \in Nat /\ compLen(c) \in Nat
           /\ c.type # "insert" => compLen(c) = Extent(c)
           /\ \A n \in Nat : Reached[<<n, c>>] = n + Extent(c)
<1>1. c.type = "insert" => c.text \in Seq(Char)
  BY Components
<1>2. c.type # "insert" => c.count \in Nat
  BY Components
<1>3. Extent(c) \in Nat /\ compLen(c) \in Nat /\ (c.type # "insert" => compLen(c) = Extent(c))
  BY <1>1, <1>2 DEF Extent, compLen
<1>4. ASSUME NEW n \in Nat PROVE Reached[<<n, c>>] = n + Extent(c)
  <2>1. Reached[<<n, c>>] = IF c.type = "insert" THEN n ELSE n + c.count
    BY DEF Reached
  <2> QED
    BY <1>2, <2>1 DEF Extent
<1> QED
  BY <1>3, <1>4

LEMMA ReachedFoldable ==
    ASSUME NEW op \in Op, NEW n \in Nat
    PROVE  Foldable(Nat, Component, Reached, n, op)
<1>1. \A p \in Nat \X Component : \E k \in Nat : \E c \in Component : p = <<k, c>>
  OBVIOUS
<1>2. ASSUME NEW k \in Nat, NEW c \in Component PROVE Reached[<<k, c>>] \in Nat
  <2>1. Reached[<<k, c>>] = k + Extent(c) /\ Extent(c) \in Nat
    BY ExtentType
  <2> QED
    BY <2>1
<1>3. \A p \in Nat \X Component : Reached[p] \in Nat
  BY <1>1, <1>2
<1>4. Reached = [p \in Nat \X Component |-> Reached[p]]
  BY DEF Reached
<1>5. Reached \in [Nat \X Component -> Nat]
  BY <1>3, <1>4
<1> QED
  BY <1>5 DEF Foldable, Op

LEMMA ReachLaws ==
    /\ Reach(<<>>) = 0
    /\ \A op \in Op : Reach(op) \in Nat
    /\ \A op \in Op, c \in Component : Reach(<<c>> \o op) = Extent(c) + Reach(op)
<1>1. Reach(<<>>) = 0
  BY ReachIs, FoldEmpty
<1>2. ASSUME NEW op \in Op PROVE Reach(op) \in Nat
  BY ReachIs, ReachedFoldable, FoldIn
<1>3. ASSUME NEW op \in Op, NEW n \in Nat PROVE FoldFn(Reached, n, op) = n + FoldFn(Reached, 0, op)
  <2>1. Foldable(Nat, Component, Reached, 0, op) /\ Foldable(Nat, Component, Reached, n, op)
    BY ReachedFoldable
  <2>2. PICK h \in [0..Len(op) -> Nat] : Trace(h, Reached, 0, op)
    BY <2>1, TraceExists
  <2>3. Len(op) \in Nat /\ \A k \in 1..Len(op) : op[k] \in Component
    BY DEF Op
  <2> DEFINE g == [k \in 0..Len(op) |-> n + h[k]]
  <2>4. g[0] = n
    BY <2>2, <2>3 DEF Trace
  <2>5. ASSUME NEW k \in 1..Len(op) PROVE g[k] = Reached[<<g[k - 1], op[k]>>]
    <3>1. k \in 0..Len(op) /\ k - 1 \in 0..Len(op) /\ op[k] \in Component
      BY <2>3
    <3>2. h[k - 1] \in Nat /\ g[k - 1] = n + h[k - 1] /\ g[k - 1] \in Nat /\ g[k] = n + h[k]
      BY <2>2, <3>1
    <3>3. h[k] = Reached[<<h[k - 1], op[k]>>]
      BY <2>2 DEF Trace
    <3> HIDE DEF g
    <3>4. h[k] = h[k - 1] + Extent(op[k]) /\ Extent(op[k]) \in Nat
      BY <3>1, <3>2, <3>3, ExtentType
    <3>5. Reached[<<g[k - 1], op[k]>>] = g[k - 1] + Extent(op[k])
      BY <3>1, <3>2, ExtentType
    <3> QED
      BY <3>2, <3>4, <3>5
  <2>6. g[Len(op)] = n + h[Len(op)]
    BY <2>3
  <2> HIDE DEF g
  <2>7. Trace(g, Reached, n, op)
    BY <2>4, <2>5 DEF Trace
  <2>8. FoldFn(Reached, n, op) = g[Len(op)] /\ FoldFn(Reached, 0, op) = h[Len(op)]
    BY <2>1, <2>2, <2>7, FoldTrace
  <2> QED
    BY <2>6, <2>8
<1>4. ASSUME NEW op \in Op, NEW c \in Component PROVE Reach(<<c>> \o op) = Extent(c) + Reach(op)
  <2>1. FoldFn(Reached, 0, <<c>> \o op) = FoldFn(Reached, Reached[<<0, c>>], op)
    BY ReachedFoldable, FoldCons
  <2>2. Reached[<<0, c>>] = Extent(c) /\ Extent(c) \in Nat
    BY ExtentType
  <2> QED
    BY <1>3, <2>1, <2>2, ReachIs
<1> QED
  BY <1>1, <1>2, <1>4

----------------------------------------------------------------------------
\* The overlap of two operations.

LEMMA HeadCut ==
    ASSUME NEW op \in Op, op # <<>>, Head(op).type # "insert",
           NEW n \in Nat, n <= compLen(Head(op))
    PROVE  /\ next(op, n) \in Component /\ remainder(op, n) \in Op
           /\ Len(remainder(op, n)) \in Nat
           /\ Len(remainder(op, n)) = IF n = compLen(Head(op)) THEN Len(op) - 1 ELSE Len(op)
           /\ Reach(op) = n + Reach(remainder(op, n))
           /\ Head(op).type = "retain" =>
                  /\ next(op, n) = retain(n)
                  /\ \A t \in Seq(Char) :
                         apply(t, op) = Cut(t, 0, n) \o apply(Cut(t, n, Len(t)), remainder(op, n))
           /\ Head(op).type = "delete" =>
                  /\ next(op, n) = del(n)
                  /\ \A t \in Seq(Char) : apply(t, op) = apply(Cut(t, n, Len(t)), remainder(op, n))
<1> DEFINE c == Head(op)
           rest == Tail(op)
           m == c.count
           left == m - n
<1>1. /\ c \in Component /\ rest \in Op /\ op = <<c>> \o rest
      /\ Len(op) = Len(rest) + 1 /\ Len(rest) \in Nat
  BY HeadTail
<1>2. c.type # "insert" /\ n <= compLen(c)
  OBVIOUS
<1>3. remainder(op, n) = IF compLen(c) = n THEN rest ELSE <<[c EXCEPT !.count = @ - n]>> \o rest
  BY <1>2 DEF remainder
<1> HIDE DEF c, rest
<1>4. m \in Nat /\ compLen(c) = m /\ left \in Nat /\ Reach(op) = m + Reach(rest) /\ Reach(rest) \in Nat
  <2>1. m \in Nat /\ compLen(c) = m /\ Extent(c) = m
    BY <1>1, <1>2, Components DEF compLen, Extent
  <2>2. Reach(op) = Extent(c) + Reach(rest) /\ Reach(rest) \in Nat
    BY <1>1, ReachLaws
  <2> QED
    BY <1>2, <2>1, <2>2
<1>5. retain(n) \in Component /\ del(n) \in Component
  BY Constructors
<1>6. retain(left) \in Component /\ del(left) \in Component
  <2> HIDE DEF left
  <2> QED
    BY <1>4, Constructors
<1>7. Extent(retain(left)) = left /\ Extent(del(left)) = left
  BY DEF Extent, retain, del
<1>8. Reach(<<retain(left)>> \o rest) = left + Reach(rest) /\ Reach(<<del(left)>> \o rest) = left + Reach(rest)
  BY <1>1, <1>6, <1>7, ReachLaws
<1>9. CASE c.type = "retain"
  <2>1. c = retain(m)
    BY <1>1, <1>9, Components
  <2>2. [c EXCEPT !.count = @ - n] = retain(left)
    BY <2>1 DEF retain
  <2> HIDE DEF m
  <2>3. LET o == <<retain(m)>> \o rest
        IN  /\ next(o, n) = retain(n)
            /\ remainder(o, n) \in Op
            /\ Len(remainder(o, n)) = IF n = m THEN Len(rest) ELSE Len(rest) + 1
            /\ \A t \in Seq(Char) :
                   apply(t, o) = Cut(t, 0, n) \o apply(Cut(t, n, Len(t)), remainder(o, n))
    <3>1. m \in Nat /\ n <= m /\ rest \in Op
      BY <1>1, <1>2, <1>4
    <3> QED
      BY <3>1, SplitRetain, ZenonT(60)
  <2>4. op = <<retain(m)>> \o rest
    BY <1>1, <2>1
  <2>5. /\ next(op, n) = retain(n)
        /\ remainder(op, n) \in Op
        /\ Len(remainder(op, n)) = IF n = m THEN Len(rest) ELSE Len(rest) + 1
        /\ \A t \in Seq(Char) :
               apply(t, op) = Cut(t, 0, n) \o apply(Cut(t, n, Len(t)), remainder(op, n))
    BY <2>3, <2>4
  <2>6. Reach(op) = n + Reach(remainder(op, n))
    <3>1. CASE n = m
      BY <1>3, <1>4, <3>1
    <3>2. CASE n # m
      <4>1. Reach(remainder(op, n)) = left + Reach(rest)
        BY <1>3, <1>4, <1>8, <2>2, <3>2
      <4> QED
        BY <1>4, <4>1 DEF left
    <3> QED
      BY <3>1, <3>2
  <2> QED
    BY <1>1, <1>4, <1>5, <1>9, <2>5, <2>6 DEF c
<1>10. CASE c.type = "delete"
  <2>1. c = del(m)
    BY <1>1, <1>10, Components
  <2>2. [c EXCEPT !.count = @ - n] = del(left)
    BY <2>1 DEF del
  <2> HIDE DEF m
  <2>3. LET o == <<del(m)>> \o rest
        IN  /\ next(o, n) = del(n)
            /\ remainder(o, n) \in Op
            /\ Len(remainder(o, n)) = IF n = m THEN Len(rest) ELSE Len(rest) + 1
            /\ \A t \in Seq(Char) : apply(t, o) = apply(Cut(t, n, Len(t)), remainder(o, n))
    <3>1. m \in Nat /\ n <= m /\ rest \in Op
      BY <1>1, <1>2, <1>4
    <3> QED
      BY <3>1, SplitDelete
  <2>4. op = <<del(m)>> \o rest
    BY <1>1, <2>1
  <2>5. /\ next(op, n) = del(n)
        /\ remainder(op, n) \in Op
        /\ Len(remainder(op, n)) = IF n = m THEN Len(rest) ELSE Len(rest) + 1
        /\ \A t \in Seq(Char) : apply(t, op) = apply(Cut(t, n, Len(t)), remainder(op, n))
    BY <2>3, <2>4
  <2>6. Reach(op) = n + Reach(remainder(op, n))
    <3>1. CASE n = m
      BY <1>3, <1>4, <3>1
    <3>2. CASE n # m
      <4>1. Reach(remainder(op, n)) = left + Reach(rest)
        BY <1>3, <1>4, <1>8, <2>2, <3>2
      <4> QED
        BY <1>4, <4>1 DEF left
    <3> QED
      BY <3>1, <3>2
  <2> QED
    BY <1>1, <1>4, <1>5, <1>10, <2>5, <2>6 DEF c
<1> QED
  BY <1>1, <1>2, <1>9, <1>10, Components

LEMMA HeadCutInsert ==
    ASSUME NEW op \in Op, op # <<>>, Head(op).type = "insert",
           NEW n \in Nat, n <= compLen(Head(op))
    PROVE  LET x == Cut(Head(op).text, 0, n)
           IN  /\ next(op, n) = insert(x) /\ next(op, n) \in Component /\ remainder(op, n) \in Op
               /\ x \in Seq(Char) /\ Len(x) = n
               /\ Len(remainder(op, n)) \in Nat
               /\ Len(remainder(op, n)) = IF n = compLen(Head(op)) THEN Len(op) - 1 ELSE Len(op)
               /\ Reach(op) = Reach(remainder(op, n))
               /\ \A t \in Seq(Char) : apply(t, op) = x \o apply(t, remainder(op, n))
<1> DEFINE w == Head(op).text
           rest == Tail(op)
           x == Cut(w, 0, n)
           z == Cut(w, n, Len(w))
<1>1. /\ Head(op) \in Component /\ rest \in Op /\ op = <<Head(op)>> \o rest
      /\ Len(op) = Len(rest) + 1 /\ Len(rest) \in Nat
  BY HeadTail
<1>2. w \in Seq(Char) /\ Head(op) = insert(w) /\ compLen(Head(op)) = Len(w) /\ Len(w) \in Nat
  <2>1. w \in Seq(Char) /\ Head(op) = insert(w)
    BY <1>1, Components
  <2> QED
    BY <2>1, LenProperties DEF compLen
<1> HIDE DEF w, rest
<1>3. /\ x \in Seq(Char) /\ Len(x) = n /\ z \in Seq(Char)
  BY <1>2, CutLength
<1>4. insert(x) \in Component /\ insert(z) \in Component
  <2> HIDE DEF x, z
  <2> QED
    BY <1>3, Constructors
<1>5. LET o == <<insert(w)>> \o rest
      IN  /\ next(o, n) = insert(x)
          /\ remainder(o, n) \in Op
          /\ Len(remainder(o, n)) = IF n = Len(w) THEN Len(rest) ELSE Len(rest) + 1
          /\ \A t \in Seq(Char) : apply(t, o) = x \o apply(t, remainder(o, n))
  <2>1. w \in Seq(Char) /\ rest \in Op /\ n <= Len(w)
    BY <1>1, <1>2
  <2> QED
    BY <2>1, SplitInsert, ZenonT(60)
<1>6. op = <<insert(w)>> \o rest
  BY <1>1, <1>2
<1>7. Reach(op) = Reach(remainder(op, n))
  <2>1. remainder(op, n) = IF Len(w) = n THEN rest ELSE <<insert(z)>> \o rest
    <3>1. Head(op).type = "insert" /\ Head(op).text = w /\ Tail(op) = rest
      BY DEF w, rest
    <3>2. z = SubSeq(w, n + 1, Len(w))
      BY <1>2 DEF Cut, Least
    <3> QED
      BY <1>2, <3>1, <3>2 DEF remainder
  <2>2. Extent(insert(w)) = 0 /\ Extent(insert(z)) = 0
    BY DEF Extent, insert
  <2> HIDE DEF z
  <2>3. Reach(op) = 0 + Reach(rest) /\ Reach(<<insert(z)>> \o rest) = 0 + Reach(rest) /\ Reach(rest) \in Nat
    BY <1>1, <1>2, <1>4, <1>6, <2>2, ReachLaws
  <2> QED
    BY <2>1, <2>3
<1>8. /\ next(op, n) = insert(x)
      /\ remainder(op, n) \in Op
      /\ Len(remainder(op, n)) = IF n = Len(w) THEN Len(rest) ELSE Len(rest) + 1
      /\ \A t \in Seq(Char) : apply(t, op) = x \o apply(t, remainder(op, n))
  BY <1>5, <1>6
<1> HIDE DEF x
<1> QED
  BY <1>1, <1>2, <1>3, <1>4, <1>7, <1>8 DEF x, w

LEMMA HeadCutType ==
    ASSUME NEW op \in Op, op # <<>>, NEW n \in Nat, n <= compLen(Head(op))
    PROVE  /\ next(op, n) \in Component /\ remainder(op, n) \in Op
           /\ Len(remainder(op, n)) \in Nat
           /\ Len(remainder(op, n)) = IF n = compLen(Head(op)) THEN Len(op) - 1 ELSE Len(op)
<1>1. CASE Head(op).type = "insert"
  BY <1>1, HeadCutInsert
<1>2. CASE Head(op).type # "insert"
  BY <1>2, HeadCut
<1> QED
  BY <1>1, <1>2

LEMMA Overlapping ==
    ASSUME NEW a \in Op, NEW b \in Op, a # <<>>, b # <<>>
    PROVE  /\ Overlap(a, b) \in Nat /\ Overlap(b, a) = Overlap(a, b)
           /\ Overlap(a, b) <= compLen(Head(a)) /\ Overlap(a, b) <= compLen(Head(b))
           /\ Overlap(a, b) = compLen(Head(a)) \/ Overlap(a, b) = compLen(Head(b))
<1> DEFINE m == compLen(Head(a))
           n == compLen(Head(b))
<1>1. m \in Nat /\ n \in Nat
  BY HeadTail, ExtentType
<1>2. Overlap(a, b) = Least(m, n) /\ Overlap(b, a) = Least(n, m)
  BY DEF Overlap
<1> HIDE DEF m, n
<1>3. /\ Least(m, n) \in Nat /\ Least(n, m) = Least(m, n) /\ Least(m, n) <= m /\ Least(m, n) <= n
      /\ Least(m, n) = m \/ Least(m, n) = n
  BY <1>1 DEF Least
<1> QED
  BY <1>2, <1>3 DEF m, n

----------------------------------------------------------------------------
\* A recursion over two operations, each of whose steps uses up the head of one of them.

Pairs == Op \X Op

\* The next pair, what the step puts in front, and the pairs at which the recursion ends.
Advances(nxt, prefix, stop) ==
    /\ nxt \in [Pairs -> Pairs]
    /\ prefix \in [Pairs -> Op]
    /\ \A q \in Pairs \ stop :
           Len(nxt[q][1]) + Len(nxt[q][2]) < Len(q[1]) + Len(q[2])

Runs(f, nxt, prefix, stop, base) ==
    \A q \in Pairs : f[q] = IF q \in stop THEN base[q] ELSE prefix[q] \o f[nxt[q]]

LEMMA RunsExists ==
    ASSUME NEW nxt, NEW prefix, NEW stop, Advances(nxt, prefix, stop), NEW base \in [Pairs -> Op]
    PROVE  \E f \in [Pairs -> Op] : Runs(f, nxt, prefix, stop, base)
<1> DEFINE m == [q \in Pairs |-> Len(q[1]) + Len(q[2])]
           step == [p \in Pairs \X Op |-> prefix[p[1]] \o p[2]]
<1>1. \A q \in Pairs : q[1] \in Op /\ q[2] \in Op /\ Len(q[1]) \in Nat /\ Len(q[2]) \in Nat
  BY DEF Pairs, Op
<1>2. m \in [Pairs -> Nat]
  <2>1. ASSUME NEW q \in Pairs PROVE Len(q[1]) + Len(q[2]) \in Nat
    <3> DEFINE x == Len(q[1])
               y == Len(q[2])
    <3>1. x \in Nat /\ y \in Nat
      BY <1>1
    <3> HIDE DEF x, y
    <3>2. x + y \in Nat
      BY <3>1
    <3> QED
      BY <3>2 DEF x, y
  <2> QED
    BY <2>1
<1>3. nxt \in [Pairs -> Pairs] /\ prefix \in [Pairs -> Op]
  BY DEF Advances
<1>4. step \in [Pairs \X Op -> Op]
  <2>1. \A x, y \in Op : x \o y \in Op
    BY ConcatProperties DEF Op
  <2>2. \A p \in Pairs \X Op : prefix[p[1]] \in Op /\ p[2] \in Op
    BY <1>3
  <2>3. \A p \in Pairs \X Op : prefix[p[1]] \o p[2] \in Op
    BY <2>1, <2>2
  <2> QED
    BY <2>3
<1>5. \A q \in Pairs \ stop : m[nxt[q]] < m[q]
  <2>1. \A q \in Pairs : m[q] = Len(q[1]) + Len(q[2])
    OBVIOUS
  <2> HIDE DEF m
  <2> QED
    BY <1>3, <2>1 DEF Advances
<1> HIDE DEF m, step
<1>6. PICK f \in [Pairs -> Op] : Solves(f, Pairs, nxt, stop, base, step)
  BY <1>2, <1>3, <1>4, <1>5, Recursive
<1>7. ASSUME NEW q \in Pairs PROVE f[q] = IF q \in stop THEN base[q] ELSE prefix[q] \o f[nxt[q]]
  <2>1. f[nxt[q]] \in Op
    BY <1>3
  <2>2. step[<<q, f[nxt[q]]>>] = prefix[q] \o f[nxt[q]]
    BY <2>1 DEF step
  <2>3. f[q] = IF q \in stop THEN base[q] ELSE step[<<q, f[nxt[q]]>>]
    BY <1>6 DEF Solves
  <2> QED
    BY <2>2, <2>3
<1> QED
  BY <1>6, <1>7 DEF Runs

LEMMA RunsType ==
    ASSUME NEW nxt, NEW prefix, NEW stop, Advances(nxt, prefix, stop), NEW base \in [Pairs -> Op],
           NEW f, Runs(f, nxt, prefix, stop, base)
    PROVE  \A q \in Pairs : f[q] \in Op
<1> DEFINE S == {n \in Nat : \A q \in Pairs : Len(q[1]) + Len(q[2]) = n => f[q] \in Op}
<1>1. \A q \in Pairs : Len(q[1]) + Len(q[2]) \in Nat
  <2>1. \A a, b \in Op : Len(a) + Len(b) \in Nat
    BY DEF Op
  <2> QED
    BY <2>1 DEF Pairs
<1>2. ASSUME NEW n \in Nat, \A k \in 0..(n - 1) : k \in S PROVE n \in S
  <2> SUFFICES ASSUME NEW q \in Pairs, Len(q[1]) + Len(q[2]) = n PROVE f[q] \in Op
    OBVIOUS
  <2>1. CASE q \in stop
    BY <2>1 DEF Runs
  <2>2. CASE q \notin stop
    <3>1. nxt[q] \in Pairs /\ prefix[q] \in Op
      BY DEF Advances
    <3> DEFINE k == Len(nxt[q][1]) + Len(nxt[q][2])
    <3>2. k \in Nat /\ k < n
      BY <1>1, <2>2, <3>1 DEF Advances
    <3>3. k \in 0..(n - 1)
      <4> HIDE DEF k
      <4> QED
        BY <3>2
    <3>4. f[nxt[q]] \in Op
      BY <1>2, <3>1, <3>3
    <3>5. f[q] = prefix[q] \o f[nxt[q]]
      BY <2>2 DEF Runs
    <3> QED
      BY <3>1, <3>4, <3>5, ConcatProperties DEF Op
  <2> QED
    BY <2>1, <2>2
<1> HIDE DEF S
<1>3. Nat \subseteq S
  BY <1>2, StrongInduction
<1> QED
  BY <1>1, <1>3 DEF S

LEMMA StartsInsert ==
    ASSUME NEW op \in Op, starts(op, "insert")
    PROVE  /\ op # <<>> /\ Tail(op) \in Op /\ Len(op) \in Nat /\ Len(Tail(op)) \in Nat
           /\ Len(Tail(op)) < Len(op)
           /\ Head(op) \in Component /\ Head(op).text \in Seq(Char)
           /\ op = <<insert(Head(op).text)>> \o Tail(op) /\ Head(op) = insert(Head(op).text)
           /\ Reach(op) = Reach(Tail(op))
<1>1. op # <<>> /\ Head(op).type = "insert"
  BY DEF starts
<1>2. /\ Head(op) \in Component /\ Tail(op) \in Op /\ op = <<Head(op)>> \o Tail(op)
      /\ Len(op) \in Nat /\ Len(Tail(op)) \in Nat /\ Len(op) = Len(Tail(op)) + 1
  BY <1>1, HeadTail
<1>3. Head(op).text \in Seq(Char) /\ Head(op) = insert(Head(op).text)
  BY <1>1, <1>2, Components
<1>4. Reach(op) = Extent(Head(op)) + Reach(Tail(op)) /\ Reach(Tail(op)) \in Nat
  BY <1>2, ReachLaws
<1>5. Extent(Head(op)) = 0
  BY <1>1 DEF Extent
<1> QED
  BY <1>1, <1>2, <1>3, <1>4, <1>5

\* What the components at the heads of two operations have in common.
LEMMA BothHeads ==
    ASSUME NEW a \in Op, NEW b \in Op, a # <<>>, b # <<>>
    PROVE  LET n == Overlap(a, b)
           IN  /\ n \in Nat /\ n <= compLen(Head(a)) /\ n <= compLen(Head(b)) /\ Overlap(b, a) = n
               /\ next(a, n) \in Component /\ remainder(a, n) \in Op /\ remainder(b, n) \in Op
               /\ Len(remainder(a, n)) \in Nat /\ Len(remainder(b, n)) \in Nat
               /\ Len(remainder(a, n)) + Len(remainder(b, n)) < Len(a) + Len(b)
<1> DEFINE n == Overlap(a, b)
<1>1. /\ n \in Nat /\ Overlap(b, a) = n /\ n <= compLen(Head(a)) /\ n <= compLen(Head(b))
      /\ n = compLen(Head(a)) \/ n = compLen(Head(b))
  BY Overlapping
<1>2. Len(a) \in Nat /\ Len(b) \in Nat
  BY HeadTail
<1> HIDE DEF n
<1>3. /\ next(a, n) \in Component /\ remainder(a, n) \in Op /\ Len(remainder(a, n)) \in Nat
      /\ Len(remainder(a, n)) = IF n = compLen(Head(a)) THEN Len(a) - 1 ELSE Len(a)
  BY <1>1, HeadCutType
<1>4. /\ remainder(b, n) \in Op /\ Len(remainder(b, n)) \in Nat
      /\ Len(remainder(b, n)) = IF n = compLen(Head(b)) THEN Len(b) - 1 ELSE Len(b)
  BY <1>1, HeadCutType
<1>5. Len(remainder(a, n)) + Len(remainder(b, n)) < Len(a) + Len(b)
  <2> DEFINE x == Len(remainder(a, n))
             y == Len(remainder(b, n))
             u == Len(a)
             v == Len(b)
  <2>1. x \in Nat /\ y \in Nat /\ u \in Nat /\ v \in Nat
    BY <1>2, <1>3, <1>4
  <2>2. (x = u - 1 \/ x = u) /\ (y = v - 1 \/ y = v) /\ (x = u - 1 \/ y = v - 1)
    BY <1>1, <1>3, <1>4
  <2> HIDE DEF x, y, u, v
  <2>3. x + y < u + v
    BY <2>1, <2>2
  <2> QED
    BY <2>3 DEF x, y, u, v
<1> QED
  BY <1>1, <1>3, <1>4, <1>5 DEF n

----------------------------------------------------------------------------
\* The transformation of one operation past another.

GoesFirst(priority, i, e) ==
    starts(e, "insert") /\ (starts(i, "insert") => priority = "existingWins")

\* One step of the transformation, with f for the ones after it.
Rebasing(f, priority, i, e) ==
    IF GoesFirst(priority, i, e) THEN <<retain(Len(Head(e).text))>> \o f[<<i, Tail(e)>>]
    ELSE IF starts(i, "insert") THEN <<Head(i)>> \o f[<<Tail(i), e>>]
    ELSE IF i = <<>> THEN <<>>
    ELSE IF e = <<>> THEN i
    ELSE (IF Head(e).type = "retain" THEN <<next(i, Overlap(i, e))>> ELSE <<>>)
         \o f[<<remainder(i, Overlap(i, e)), remainder(e, Overlap(i, e))>>]

\* Where the transformation goes on, and what this step adds to it.
RebasingNext(priority, i, e) ==
    IF GoesFirst(priority, i, e) THEN <<i, Tail(e)>>
    ELSE IF starts(i, "insert") THEN <<Tail(i), e>>
    ELSE <<remainder(i, Overlap(i, e)), remainder(e, Overlap(i, e))>>

RebasingPart(priority, i, e) ==
    IF GoesFirst(priority, i, e) THEN <<retain(Len(Head(e).text))>>
    ELSE IF starts(i, "insert") THEN <<Head(i)>>
    ELSE IF Head(e).type = "retain" THEN <<next(i, Overlap(i, e))>> ELSE <<>>

RebasingEnds(priority, i, e) ==
    ~GoesFirst(priority, i, e) /\ ~starts(i, "insert") /\ (i = <<>> \/ e = <<>>)

LEMMA RebasingAdvances ==
    ASSUME NEW priority, NEW i \in Op, NEW e \in Op, ~RebasingEnds(priority, i, e)
    PROVE  LET n == RebasingNext(priority, i, e)
           IN  /\ n \in Pairs /\ RebasingPart(priority, i, e) \in Op
               /\ Len(n[1]) + Len(n[2]) < Len(i) + Len(e)
<1>1. Len(i) \in Nat /\ Len(e) \in Nat
  BY DEF Op
<1>2. \A c \in Component : <<c>> \in Op
  BY DEF Op
<1>3. CASE GoesFirst(priority, i, e)
  <2>1. /\ Tail(e) \in Op /\ Len(Tail(e)) \in Nat /\ Len(Tail(e)) < Len(e) /\ Head(e).text \in Seq(Char)
    BY <1>3, StartsInsert DEF GoesFirst
  <2>2. Len(Head(e).text) \in Nat
    BY <2>1, LenProperties
  <2>3. retain(Len(Head(e).text)) \in Component
    BY <2>2, Constructors
  <2>4. RebasingNext(priority, i, e) = <<i, Tail(e)>>
    BY <1>3 DEF RebasingNext
  <2>5. RebasingPart(priority, i, e) = <<retain(Len(Head(e).text))>>
    BY <1>3 DEF RebasingPart
  <2>6. <<i, Tail(e)>> \in Pairs /\ <<retain(Len(Head(e).text))>> \in Op
    BY <1>2, <2>1, <2>3 DEF Pairs
  <2>7. Len(i) + Len(Tail(e)) < Len(i) + Len(e)
    BY <1>1, <2>1
  <2> QED
    BY <2>4, <2>5, <2>6, <2>7
<1>4. CASE ~GoesFirst(priority, i, e) /\ starts(i, "insert")
  <2>1. /\ Tail(i) \in Op /\ Len(Tail(i)) \in Nat /\ Len(Tail(i)) < Len(i) /\ Head(i) \in Component
    BY <1>4, StartsInsert
  <2>2. RebasingNext(priority, i, e) = <<Tail(i), e>>
    BY <1>4 DEF RebasingNext
  <2>3. RebasingPart(priority, i, e) = <<Head(i)>>
    BY <1>4 DEF RebasingPart
  <2>4. <<Tail(i), e>> \in Pairs /\ <<Head(i)>> \in Op
    BY <1>2, <2>1 DEF Pairs
  <2>5. Len(Tail(i)) + Len(e) < Len(i) + Len(e)
    BY <1>1, <2>1
  <2> QED
    BY <2>2, <2>3, <2>4, <2>5
<1>5. CASE ~GoesFirst(priority, i, e) /\ ~starts(i, "insert")
  <2> DEFINE n == Overlap(i, e)
             ri == remainder(i, n)
             re == remainder(e, n)
  <2>1. i # <<>> /\ e # <<>> /\ Head(i).type # "insert" /\ Head(e).type # "insert"
    BY <1>5 DEF RebasingEnds, GoesFirst, starts
  <2>2. /\ next(i, n) \in Component /\ ri \in Op /\ re \in Op
        /\ Len(ri) + Len(re) < Len(i) + Len(e)
    BY <2>1, BothHeads
  <2>3. RebasingNext(priority, i, e) = <<ri, re>>
    BY <1>5 DEF RebasingNext
  <2>4. RebasingPart(priority, i, e) = IF Head(e).type = "retain" THEN <<next(i, n)>> ELSE <<>>
    BY <1>5 DEF RebasingPart
  <2> HIDE DEF n, ri, re
  <2>5. <<>> \in Op
    BY EmptySeq DEF Op
  <2> QED
    BY <1>2, <2>2, <2>3, <2>4, <2>5 DEF Pairs
<1> QED
  BY <1>3, <1>4, <1>5

\* A function that joins what the steps add is the one that the transformation is.
LEMMA RebasingStep ==
    ASSUME NEW priority, NEW f, NEW i \in Op, NEW e \in Op
    PROVE  Rebasing(f, priority, i, e) =
               IF RebasingEnds(priority, i, e) THEN i
               ELSE RebasingPart(priority, i, e) \o f[RebasingNext(priority, i, e)]
<1>1. CASE RebasingEnds(priority, i, e)
  <2>1. ~GoesFirst(priority, i, e) /\ ~starts(i, "insert") /\ (i = <<>> \/ e = <<>>)
    BY <1>1 DEF RebasingEnds
  <2> QED
    BY <1>1, <2>1 DEF Rebasing
<1>2. CASE ~RebasingEnds(priority, i, e) /\ GoesFirst(priority, i, e)
  BY <1>2 DEF Rebasing, RebasingNext, RebasingPart
<1>3. CASE ~RebasingEnds(priority, i, e) /\ ~GoesFirst(priority, i, e) /\ starts(i, "insert")
  BY <1>3 DEF Rebasing, RebasingNext, RebasingPart
<1>4. CASE ~RebasingEnds(priority, i, e) /\ ~GoesFirst(priority, i, e) /\ ~starts(i, "insert")
  <2>1. i # <<>> /\ e # <<>>
    BY <1>4 DEF RebasingEnds
  <2> QED
    BY <1>4, <2>1 DEF Rebasing, RebasingNext, RebasingPart
<1> QED
  BY <1>1, <1>2, <1>3, <1>4

LEMMA RebasedIs ==
    ASSUME NEW priority
    PROVE  rebased(priority) =
               CHOOSE f : f = [q \in Pairs |-> Rebasing(f, priority, q[1], q[2])]
BY DEF rebased, Rebasing, GoesFirst, Pairs

LEMMA Rebased ==
    ASSUME NEW priority
    PROVE  /\ rebased(priority) \in [Pairs -> Op]
           /\ \A i, e \in Op :
                  rebased(priority)[<<i, e>>] = Rebasing(rebased(priority), priority, i, e)
<1> DEFINE P(f) == f = [q \in Pairs |-> Rebasing(f, priority, q[1], q[2])]
           r == CHOOSE f : P(f)
           stop == {q \in Pairs : RebasingEnds(priority, q[1], q[2])}
           nxt == [q \in Pairs |-> IF q \in stop THEN q ELSE RebasingNext(priority, q[1], q[2])]
           prefix == [q \in Pairs |-> IF q \in stop THEN <<>> ELSE RebasingPart(priority, q[1], q[2])]
           base == [q \in Pairs |-> q[1]]
<1>1. rebased(priority) = r
  BY RebasedIs
<1>2. \A q \in Pairs : q[1] \in Op /\ q[2] \in Op /\ q = <<q[1], q[2]>>
  BY DEF Pairs
<1>3. \A q \in Pairs \ stop :
          /\ RebasingNext(priority, q[1], q[2]) \in Pairs
          /\ RebasingPart(priority, q[1], q[2]) \in Op
          /\ Len(RebasingNext(priority, q[1], q[2])[1]) + Len(RebasingNext(priority, q[1], q[2])[2])
             < Len(q[1]) + Len(q[2])
  BY <1>2, RebasingAdvances
<1>4. <<>> \in Op
  BY EmptySeq DEF Op
<1>5. Advances(nxt, prefix, stop)
  BY <1>3, <1>4 DEF Advances
<1>6. base \in [Pairs -> Op]
  BY <1>2
<1> HIDE DEF nxt, prefix, base
<1>7. PICK f \in [Pairs -> Op] : Runs(f, nxt, prefix, stop, base)
  BY <1>5, <1>6, RunsExists
<1>8. ASSUME NEW q \in Pairs PROVE f[q] = Rebasing(f, priority, q[1], q[2])
  <2>1. CASE q \in stop
    <3>1. f[q] = q[1]
      BY <1>7, <2>1 DEF Runs, base
    <3>2. RebasingEnds(priority, q[1], q[2])
      BY <2>1
    <3> QED
      BY <1>2, <3>1, <3>2, RebasingStep
  <2>2. CASE q \notin stop
    <3>1. f[q] = prefix[q] \o f[nxt[q]]
      BY <1>7, <2>2 DEF Runs
    <3>2. ~RebasingEnds(priority, q[1], q[2])
      BY <2>2
    <3>3. nxt[q] = RebasingNext(priority, q[1], q[2]) /\ prefix[q] = RebasingPart(priority, q[1], q[2])
      BY <2>2 DEF nxt, prefix
    <3> HIDE DEF stop
    <3> QED
      BY <1>2, <3>1, <3>2, <3>3, RebasingStep, ZenonT(60)
  <2> QED
    BY <2>1, <2>2
<1>9. P(f)
  BY <1>8
<1> HIDE DEF P
<1>10. P(r)
  BY <1>9
<1> HIDE DEF r
<1>11. r = [q \in Pairs |-> Rebasing(r, priority, q[1], q[2])]
  BY <1>10 DEF P
<1>12. ASSUME NEW q \in Pairs
       PROVE  r[q] = IF q \in stop THEN q[1] ELSE prefix[q] \o r[nxt[q]]
  <2>1. r[q] = Rebasing(r, priority, q[1], q[2])
    BY <1>11
  <2>2. q \in stop <=> RebasingEnds(priority, q[1], q[2])
    OBVIOUS
  <2>3. q \notin stop => /\ nxt[q] = RebasingNext(priority, q[1], q[2])
                         /\ prefix[q] = RebasingPart(priority, q[1], q[2])
    BY DEF nxt, prefix
  <2> HIDE DEF stop
  <2>4. q[1] \in Op /\ q[2] \in Op
    BY <1>2
  <2>5. Rebasing(r, priority, q[1], q[2]) =
            IF RebasingEnds(priority, q[1], q[2]) THEN q[1]
            ELSE RebasingPart(priority, q[1], q[2]) \o r[RebasingNext(priority, q[1], q[2])]
    BY <2>4, RebasingStep
  <2> QED
    BY <2>1, <2>2, <2>3, <2>5
<1>13. r \in [Pairs -> Op]
  <2>1. \A q \in Pairs : r[q] \in Op
    <3>1. Runs(r, nxt, prefix, stop, base)
      BY <1>12 DEF Runs, base
    <3> QED
      BY <1>5, <1>6, <3>1, RunsType
  <2> QED
    BY <1>11, <2>1
<1>14. \A i, e \in Op : r[<<i, e>>] = Rebasing(r, priority, i, e)
  BY <1>11 DEF Pairs
<1> QED
  BY <1>1, <1>13, <1>14

\* A text whose beginning is known, cut after it.
LEMMA CutPast ==
    ASSUME NEW a \in Seq(Char), NEW v \in Seq(Char)
    PROVE  LET t == a \o v
           IN  /\ Cut(t, 0, Len(a)) = a /\ Cut(t, Len(a), Len(t)) = v
               /\ t \in Seq(Char) /\ Len(t) = Len(a) + Len(v)
<1> DEFINE t == a \o v
           n == Len(a)
           b == Cut(t, 0, n)
           w == Cut(t, n, Len(t))
<1>1. /\ t \in Seq(Char) /\ Len(t) = n + Len(v) /\ n \in Nat /\ Len(v) \in Nat
      /\ \A k \in 1..(n + Len(v)) : t[k] = IF k <= n THEN a[k] ELSE v[k - n]
  BY ConcatProperties
<1> HIDE DEF t, n
<1>2. Least(n, Len(t)) = n /\ Least(Len(t), Len(t)) = Len(t) /\ Len(t) \in Nat
  BY <1>1 DEF Least
<1>3. b = a
  <2>0. \A j \in Nat :
           LET g == Cut(t, 0, j)
           IN  /\ g \in Seq(Char)
               /\ Len(g) = IF 0 < Least(j, Len(t)) THEN Least(j, Len(t)) - 0 ELSE 0
               /\ \A k \in 1..Len(g) : g[k] = t[0 + k]
    BY <1>1, CutProperties
  <2>1. b \in Seq(Char) /\ Len(b) = (IF 0 < n THEN n - 0 ELSE 0) /\ \A k \in 1..Len(b) : b[k] = t[0 + k]
    BY <1>1, <1>2, <2>0
  <2>2. Len(b) = n
    BY <1>1, <2>1
  <2>3. \A k \in 1..Len(b) : b[k] = a[k]
    <3>1. \A k \in 1..n : 0 + k = k /\ k \in 1..(n + Len(v)) /\ k <= n
      BY <1>1
    <3> HIDE DEF b
    <3> QED
      BY <1>1, <2>1, <2>2, <3>1
  <2> HIDE DEF b
  <2> QED
    BY <2>1, <2>2, <2>3, SeqEqual DEF n
<1>4. w = v
  <2>0. \A j \in Nat :
           LET g == Cut(t, n, j)
           IN  /\ g \in Seq(Char)
               /\ Len(g) = IF n < Least(j, Len(t)) THEN Least(j, Len(t)) - n ELSE 0
               /\ \A k \in 1..Len(g) : g[k] = t[n + k]
    BY <1>1, CutProperties
  <2>1. /\ w \in Seq(Char) /\ Len(w) = (IF n < Len(t) THEN Len(t) - n ELSE 0)
        /\ \A k \in 1..Len(w) : w[k] = t[n + k]
    BY <1>2, <2>0
  <2> HIDE DEF w
  <2>2. Len(w) = Len(v)
    BY <1>1, <2>1
  <2>3. ASSUME NEW k \in 1..Len(w) PROVE w[k] = v[k]
    <3>1. n + k \in 1..(n + Len(v)) /\ ~(n + k <= n) /\ (n + k) - n = k
      BY <1>1, <2>2
    <3> QED
      BY <1>1, <2>1, <3>1
  <2> QED
    BY <2>1, <2>2, <2>3, SeqEqual
<1> QED
  BY <1>1, <1>3, <1>4 DEF t, n

\* An operation that starts by passing the characters of a, on a text that starts with them.
LEMMA ApplyPast ==
    ASSUME NEW a \in Seq(Char), NEW v \in Seq(Char), NEW op \in Op
    PROVE  /\ apply(a \o v, <<retain(Len(a))>> \o op) = a \o apply(v, op)
           /\ apply(a \o v, <<del(Len(a))>> \o op) = apply(v, op)
<1> DEFINE t == a \o v
           n == Len(a)
<1>1. n \in Nat /\ t \in Seq(Char) /\ Cut(t, 0, n) = a /\ Cut(t, n, Len(t)) = v
  BY CutPast
<1> HIDE DEF t, n
<1>2. apply(t, <<retain(n)>> \o op) = Cut(t, 0, n) \o apply(Cut(t, n, Len(t)), op)
  BY <1>1, ApplyRetain
<1>3. apply(t, <<del(n)>> \o op) = apply(Cut(t, n, Len(t)), op)
  BY <1>1, ApplyDelete
<1> QED
  BY <1>1, <1>2, <1>3 DEF t, n

\* The two ways round from a text lead to one text when one of the operations
\* finds its characters there; and that one finds them after the other one too.
Meet(i, e) ==
    \A t \in Seq(Char) :
        LET r == rebased("existingWins")[<<i, e>>]
            s == rebased("incomingWins")[<<e, i>>]
        IN  /\ Reach(i) <= Len(t) \/ Reach(e) <= Len(t) => apply(apply(t, e), r) = apply(apply(t, i), s)
            /\ Reach(i) <= Len(t) => Reach(r) <= Len(apply(t, e))
            /\ Reach(e) <= Len(t) => Reach(s) <= Len(apply(t, i))

LEMMA LenJoined ==
    ASSUME NEW x \in Seq(Char), NEW y \in Seq(Char)
    PROVE  Len(x \o y) = Len(x) + Len(y) /\ Len(x) \in Nat /\ Len(y) \in Nat
OBVIOUS

LEMMA ReachOfFirst ==
    ASSUME NEW op \in Op
    PROVE  /\ Reach(op) \in Nat
           /\ \A n \in Nat : Reach(<<retain(n)>> \o op) = n + Reach(op)
           /\ \A n \in Nat : Reach(<<del(n)>> \o op) = n + Reach(op)
           /\ \A x \in Seq(Char) : Reach(<<insert(x)>> \o op) = Reach(op)
<1>1. Reach(op) \in Nat
  BY ReachLaws
<1>2. ASSUME NEW n \in Nat
      PROVE  Reach(<<retain(n)>> \o op) = n + Reach(op) /\ Reach(<<del(n)>> \o op) = n + Reach(op)
  <2>1. /\ retain(n) \in Component /\ Extent(retain(n)) = n
        /\ del(n) \in Component /\ Extent(del(n)) = n
    BY Constructors DEF Extent, retain, del
  <2> QED
    BY <2>1, ReachLaws
<1>3. ASSUME NEW x \in Seq(Char) PROVE Reach(<<insert(x)>> \o op) = Reach(op)
  <2>1. insert(x) \in Component /\ Extent(insert(x)) = 0
    BY Constructors DEF Extent, insert
  <2>2. Reach(<<insert(x)>> \o op) = 0 + Reach(op)
    BY <2>1, ReachLaws
  <2> QED
    BY <1>1, <2>2
<1> QED
  BY <1>1, <1>2, <1>3

LEMMA MeetInsertExisting ==
    ASSUME NEW i \in Op, NEW e \in Op, starts(e, "insert"), Meet(i, Tail(e))
    PROVE  Meet(i, e)
<1> DEFINE x == Head(e).text
           f == Tail(e)
           r == rebased("existingWins")[<<i, f>>]
           s == rebased("incomingWins")[<<f, i>>]
<1>1. /\ f \in Op /\ x \in Seq(Char) /\ e = <<insert(x)>> \o f /\ Head(e) = insert(x)
      /\ Reach(e) = Reach(f)
  BY StartsInsert
<1>2. r \in Op /\ s \in Op
  BY <1>1, Rebased DEF Pairs
<1>3. rebased("existingWins")[<<i, e>>] = <<retain(Len(x))>> \o r
  <2>1. GoesFirst("existingWins", i, e)
    BY DEF GoesFirst
  <2>2. rebased("existingWins")[<<i, e>>] = Rebasing(rebased("existingWins"), "existingWins", i, e)
    BY Rebased
  <2> QED
    BY <2>1, <2>2 DEF Rebasing
<1>4. rebased("incomingWins")[<<e, i>>] = <<insert(x)>> \o s
  <2>1. ~GoesFirst("incomingWins", e, i)
    BY DEF GoesFirst
  <2>2. rebased("incomingWins")[<<e, i>>] = Rebasing(rebased("incomingWins"), "incomingWins", e, i)
    BY Rebased
  <2>3. rebased("incomingWins")[<<e, i>>] = <<Head(e)>> \o s
    BY <2>1, <2>2 DEF Rebasing
  <2> QED
    BY <1>1, <2>3
<1>5. Meet(i, f)
  OBVIOUS
<1> HIDE DEF x, f
<1>6. ASSUME NEW t \in Seq(Char), Reach(i) <= Len(t) \/ Reach(e) <= Len(t)
      PROVE  apply(apply(t, e), <<retain(Len(x))>> \o r) = apply(apply(t, i), <<insert(x)>> \o s)
  <2>1. apply(apply(t, f), r) = apply(apply(t, i), s)
    BY <1>1, <1>5, <1>6 DEF Meet
  <2> HIDE DEF r, s
  <2>2. apply(t, f) \in Seq(Char) /\ apply(t, i) \in Seq(Char)
    BY <1>1, ApplyType
  <2>3. apply(t, e) = x \o apply(t, f)
    BY <1>1, ApplyInsert
  <2>4. apply(x \o apply(t, f), <<retain(Len(x))>> \o r) = x \o apply(apply(t, f), r)
    BY <1>1, <1>2, <2>2, ApplyPast, ZenonT(60)
  <2>5. apply(apply(t, i), <<insert(x)>> \o s) = x \o apply(apply(t, i), s)
    BY <1>1, <1>2, <2>2, ApplyInsert
  <2> QED
    BY <2>1, <2>3, <2>4, <2>5
<1>7. ASSUME NEW t \in Seq(Char)
      PROVE  /\ Reach(i) <= Len(t) => Reach(<<retain(Len(x))>> \o r) <= Len(apply(t, e))
             /\ Reach(e) <= Len(t) => Reach(<<insert(x)>> \o s) <= Len(apply(t, i))
  <2> DEFINE q == apply(t, f)
  <2>1. /\ Reach(i) <= Len(t) => Reach(r) <= Len(q)
        /\ Reach(e) <= Len(t) => Reach(s) <= Len(apply(t, i))
    BY <1>1, <1>5 DEF Meet
  <2> HIDE DEF r, s
  <2>2. q \in Seq(Char) /\ apply(t, e) = x \o q
    BY <1>1, ApplyType, ApplyInsert
  <2> HIDE DEF q
  <2>3. Len(apply(t, e)) = Len(x) + Len(q) /\ Len(x) \in Nat /\ Len(q) \in Nat
    BY <1>1, <2>2, LenJoined
  <2>4. /\ Reach(<<retain(Len(x))>> \o r) = Len(x) + Reach(r) /\ Reach(r) \in Nat
        /\ Reach(<<insert(x)>> \o s) = Reach(s)
    BY <1>1, <1>2, <2>3, ReachOfFirst
  <2> QED
    BY <2>1, <2>3, <2>4
<1> QED
  BY <1>3, <1>4, <1>6, <1>7 DEF Meet

LEMMA MeetInsertIncoming ==
    ASSUME NEW i \in Op, NEW e \in Op, ~starts(e, "insert"), starts(i, "insert"), Meet(Tail(i), e)
    PROVE  Meet(i, e)
<1> DEFINE x == Head(i).text
           f == Tail(i)
           r == rebased("existingWins")[<<f, e>>]
           s == rebased("incomingWins")[<<e, f>>]
<1>1. /\ f \in Op /\ x \in Seq(Char) /\ i = <<insert(x)>> \o f /\ Head(i) = insert(x)
      /\ Reach(i) = Reach(f)
  BY StartsInsert
<1>2. r \in Op /\ s \in Op
  BY <1>1, Rebased DEF Pairs
<1>3. rebased("existingWins")[<<i, e>>] = <<insert(x)>> \o r
  <2>1. ~GoesFirst("existingWins", i, e)
    BY DEF GoesFirst
  <2>2. rebased("existingWins")[<<i, e>>] = Rebasing(rebased("existingWins"), "existingWins", i, e)
    BY Rebased
  <2>3. rebased("existingWins")[<<i, e>>] = <<Head(i)>> \o r
    BY <2>1, <2>2 DEF Rebasing
  <2> QED
    BY <1>1, <2>3
<1>4. rebased("incomingWins")[<<e, i>>] = <<retain(Len(x))>> \o s
  <2>1. GoesFirst("incomingWins", e, i)
    BY DEF GoesFirst
  <2>2. rebased("incomingWins")[<<e, i>>] = Rebasing(rebased("incomingWins"), "incomingWins", e, i)
    BY Rebased
  <2> QED
    BY <2>1, <2>2 DEF Rebasing
<1>5. Meet(f, e)
  OBVIOUS
<1> HIDE DEF x, f
<1>6. ASSUME NEW t \in Seq(Char), Reach(i) <= Len(t) \/ Reach(e) <= Len(t)
      PROVE  apply(apply(t, e), <<insert(x)>> \o r) = apply(apply(t, i), <<retain(Len(x))>> \o s)
  <2>1. apply(apply(t, e), r) = apply(apply(t, f), s)
    BY <1>1, <1>5, <1>6 DEF Meet
  <2> HIDE DEF r, s
  <2>2. apply(t, f) \in Seq(Char) /\ apply(t, e) \in Seq(Char)
    BY <1>1, ApplyType
  <2>3. apply(t, i) = x \o apply(t, f)
    BY <1>1, ApplyInsert
  <2>4. apply(x \o apply(t, f), <<retain(Len(x))>> \o s) = x \o apply(apply(t, f), s)
    BY <1>1, <1>2, <2>2, ApplyPast, ZenonT(60)
  <2>5. apply(apply(t, e), <<insert(x)>> \o r) = x \o apply(apply(t, e), r)
    BY <1>1, <1>2, <2>2, ApplyInsert
  <2> QED
    BY <2>1, <2>3, <2>4, <2>5
<1>7. ASSUME NEW t \in Seq(Char)
      PROVE  /\ Reach(i) <= Len(t) => Reach(<<insert(x)>> \o r) <= Len(apply(t, e))
             /\ Reach(e) <= Len(t) => Reach(<<retain(Len(x))>> \o s) <= Len(apply(t, i))
  <2> DEFINE q == apply(t, f)
  <2>1. /\ Reach(i) <= Len(t) => Reach(r) <= Len(apply(t, e))
        /\ Reach(e) <= Len(t) => Reach(s) <= Len(q)
    BY <1>1, <1>5 DEF Meet
  <2> HIDE DEF r, s
  <2>2. q \in Seq(Char) /\ apply(t, i) = x \o q
    BY <1>1, ApplyType, ApplyInsert
  <2> HIDE DEF q
  <2>3. Len(apply(t, i)) = Len(x) + Len(q) /\ Len(x) \in Nat /\ Len(q) \in Nat
    BY <1>1, <2>2, LenJoined
  <2>4. /\ Reach(<<retain(Len(x))>> \o s) = Len(x) + Reach(s) /\ Reach(s) \in Nat
        /\ Reach(<<insert(x)>> \o r) = Reach(r)
    BY <1>1, <1>2, <2>3, ReachOfFirst
  <2> QED
    BY <2>1, <2>3, <2>4
<1> QED
  BY <1>3, <1>4, <1>6, <1>7 DEF Meet

LEMMA MeetAtEnd ==
    ASSUME NEW i \in Op, NEW e \in Op, ~starts(e, "insert"), ~starts(i, "insert"), i = <<>> \/ e = <<>>
    PROVE  Meet(i, e)
<1>1. ~GoesFirst("existingWins", i, e) /\ ~GoesFirst("incomingWins", e, i)
  BY DEF GoesFirst
<1>2. /\ rebased("existingWins")[<<i, e>>] = Rebasing(rebased("existingWins"), "existingWins", i, e)
      /\ rebased("incomingWins")[<<e, i>>] = Rebasing(rebased("incomingWins"), "incomingWins", e, i)
  BY Rebased
<1>3. rebased("existingWins")[<<i, e>>] = i /\ rebased("incomingWins")[<<e, i>>] = e
  BY <1>1, <1>2 DEF Rebasing
<1>4. ASSUME NEW t \in Seq(Char)
      PROVE  /\ apply(apply(t, e), i) = apply(apply(t, i), e)
             /\ Reach(i) <= Len(t) => Reach(i) <= Len(apply(t, e))
             /\ Reach(e) <= Len(t) => Reach(e) <= Len(apply(t, i))
  <2>1. apply(t, e) \in Seq(Char) /\ apply(t, i) \in Seq(Char)
    BY ApplyType
  <2>2. Reach(<<>>) = 0 /\ Len(apply(t, e)) \in Nat /\ Len(apply(t, i)) \in Nat
    BY <2>1, ReachLaws
  <2>3. CASE i = <<>>
    BY <2>1, <2>2, <2>3, ApplyNone
  <2>4. CASE e = <<>>
    BY <2>1, <2>2, <2>4, ApplyNone
  <2> QED
    BY <2>3, <2>4
<1> QED
  BY <1>3, <1>4 DEF Meet

\* What the two have in common of the first stretch of the text.
LEMMA MeetOverlap ==
    ASSUME NEW i \in Op, NEW e \in Op, i # <<>>, e # <<>>,
           Head(i).type # "insert", Head(e).type # "insert",
           Meet(remainder(i, Overlap(i, e)), remainder(e, Overlap(i, e)))
    PROVE  Meet(i, e)
<1> DEFINE n == Overlap(i, e)
           x == remainder(i, n)
           y == remainder(e, n)
           r == rebased("existingWins")[<<x, y>>]
           s == rebased("incomingWins")[<<y, x>>]
<1>1. /\ n \in Nat /\ n <= compLen(Head(i)) /\ n <= compLen(Head(e)) /\ Overlap(e, i) = n
      /\ x \in Op /\ y \in Op
  BY BothHeads
<1>2. rebased("existingWins")[<<i, e>>]
      = (IF Head(e).type = "retain" THEN <<next(i, n)>> ELSE <<>>) \o r
  <2>1. ~GoesFirst("existingWins", i, e) /\ ~starts(i, "insert")
    BY DEF GoesFirst, starts
  <2>2. rebased("existingWins")[<<i, e>>] = Rebasing(rebased("existingWins"), "existingWins", i, e)
    BY Rebased
  <2> QED
    BY <2>1, <2>2 DEF Rebasing
<1>3. rebased("incomingWins")[<<e, i>>]
      = (IF Head(i).type = "retain" THEN <<next(e, n)>> ELSE <<>>) \o s
  <2>1. ~GoesFirst("incomingWins", e, i) /\ ~starts(e, "insert")
    BY DEF GoesFirst, starts
  <2>2. rebased("incomingWins")[<<e, i>>] = Rebasing(rebased("incomingWins"), "incomingWins", e, i)
    BY Rebased
  <2> QED
    BY <1>1, <2>1, <2>2 DEF Rebasing
<1>4. r \in Op /\ s \in Op
  BY <1>1, Rebased DEF Pairs
<1>5. Meet(x, y)
  OBVIOUS
<1> HIDE DEF n, x
<1>6. /\ Reach(i) = n + Reach(x) /\ Reach(x) \in Nat
      /\ Head(i).type = "retain" =>
             /\ next(i, n) = retain(n)
             /\ \A t \in Seq(Char) : apply(t, i) = Cut(t, 0, n) \o apply(Cut(t, n, Len(t)), x)
      /\ Head(i).type = "delete" =>
             /\ next(i, n) = del(n)
             /\ \A t \in Seq(Char) : apply(t, i) = apply(Cut(t, n, Len(t)), x)
  <2>1. Reach(x) \in Nat
    BY <1>1, ReachLaws
  <2> QED
    BY <1>1, <2>1, HeadCut DEF x
<1> HIDE DEF y
<1>7. /\ Reach(e) = n + Reach(y) /\ Reach(y) \in Nat
      /\ Head(e).type = "retain" =>
             /\ next(e, n) = retain(n)
             /\ \A t \in Seq(Char) : apply(t, e) = Cut(t, 0, n) \o apply(Cut(t, n, Len(t)), y)
      /\ Head(e).type = "delete" =>
             /\ next(e, n) = del(n)
             /\ \A t \in Seq(Char) : apply(t, e) = apply(Cut(t, n, Len(t)), y)
  <2>1. Reach(y) \in Nat
    BY <1>1, ReachLaws
  <2> QED
    BY <1>1, <2>1, HeadCut DEF y
<1>8. Head(i).type \in {"retain", "delete"} /\ Head(e).type \in {"retain", "delete"}
  BY HeadTail, Components
<1>9. <<>> \o r = r /\ <<>> \o s = s
  BY <1>4, ConcatEmptySeq DEF Op
<1> HIDE DEF r
<1> HIDE DEF s
<1> DEFINE rr == (IF Head(e).type = "retain" THEN <<next(i, n)>> ELSE <<>>) \o r
           ss == (IF Head(i).type = "retain" THEN <<next(e, n)>> ELSE <<>>) \o s
<1>10. ASSUME NEW t \in Seq(Char), Reach(i) <= Len(t) \/ Reach(e) <= Len(t)
       PROVE  /\ apply(apply(t, e), rr) = apply(apply(t, i), ss)
              /\ Reach(i) <= Len(t) => Reach(rr) <= Len(apply(t, e))
              /\ Reach(e) <= Len(t) => Reach(ss) <= Len(apply(t, i))
  <2> DEFINE a == Cut(t, 0, n)
             v == Cut(t, n, Len(t))
             p == apply(v, x)
             q == apply(v, y)
  <2>1. /\ a \in Seq(Char) /\ Len(a) = n /\ v \in Seq(Char) /\ Len(v) = Len(t) - n
    <3>1. n <= Len(t)
      BY <1>1, <1>6, <1>7, <1>10
    <3> QED
      BY <1>1, <3>1, CutLength
  <2>2. /\ Reach(i) <= Len(t) => Reach(x) <= Len(v)
        /\ Reach(e) <= Len(t) => Reach(y) <= Len(v)
    <3>1. Len(t) \in Nat
      OBVIOUS
    <3> HIDE DEF v
    <3> QED
      BY <1>1, <1>6, <1>7, <2>1, <3>1
  <2>3. /\ apply(q, r) = apply(p, s)
        /\ Reach(i) <= Len(t) => Reach(r) <= Len(q)
        /\ Reach(e) <= Len(t) => Reach(s) <= Len(p)
    BY <1>5, <1>10, <2>1, <2>2 DEF Meet, r, s
  <2>4. p \in Seq(Char) /\ q \in Seq(Char)
    BY <1>1, <2>1, ApplyType
  <2>5. Head(i).type = "retain" => next(i, n) = retain(n) /\ apply(t, i) = a \o p
    BY <1>6
  <2>6. Head(i).type = "delete" => next(i, n) = del(n) /\ apply(t, i) = p
    BY <1>6
  <2>7. Head(e).type = "retain" => next(e, n) = retain(n) /\ apply(t, e) = a \o q
    BY <1>7
  <2>8. Head(e).type = "delete" => next(e, n) = del(n) /\ apply(t, e) = q
    BY <1>7
  <2> HIDE DEF a, v, p, q
  <2>9. /\ apply(a \o q, <<retain(n)>> \o r) = a \o apply(q, r)
        /\ apply(a \o q, <<del(n)>> \o r) = apply(q, r)
    BY <1>4, <2>1, <2>4, ApplyPast, ZenonT(60)
  <2>10. /\ apply(a \o p, <<retain(n)>> \o s) = a \o apply(p, s)
         /\ apply(a \o p, <<del(n)>> \o s) = apply(p, s)
    BY <1>4, <2>1, <2>4, ApplyPast, ZenonT(60)
  <2>15. /\ Len(a \o q) = n + Len(q) /\ Len(a \o p) = n + Len(p) /\ Len(p) \in Nat /\ Len(q) \in Nat
    BY <2>1, <2>4, LenJoined
  <2>16. /\ Reach(<<retain(n)>> \o r) = n + Reach(r) /\ Reach(<<del(n)>> \o r) = n + Reach(r)
         /\ Reach(<<retain(n)>> \o s) = n + Reach(s) /\ Reach(<<del(n)>> \o s) = n + Reach(s)
         /\ Reach(r) \in Nat /\ Reach(s) \in Nat
    BY <1>1, <1>4, ReachOfFirst
  <2>11. Head(i).type = "retain" /\ Head(e).type = "retain" =>
             /\ rr = <<retain(n)>> \o r /\ ss = <<retain(n)>> \o s
             /\ apply(t, i) = a \o p /\ apply(t, e) = a \o q
    BY <2>5, <2>7
  <2>12. Head(i).type = "retain" /\ Head(e).type = "delete" =>
             /\ rr = r /\ ss = <<del(n)>> \o s
             /\ apply(t, i) = a \o p /\ apply(t, e) = q
    BY <1>9, <2>5, <2>8
  <2>13. Head(i).type = "delete" /\ Head(e).type = "retain" =>
             /\ rr = <<del(n)>> \o r /\ ss = s
             /\ apply(t, i) = p /\ apply(t, e) = a \o q
    BY <1>9, <2>6, <2>7
  <2>14. Head(i).type = "delete" /\ Head(e).type = "delete" =>
             /\ rr = r /\ ss = s
             /\ apply(t, i) = p /\ apply(t, e) = q
    BY <1>9, <2>6, <2>8
  <2> HIDE DEF rr, ss
  <2>17. apply(apply(t, e), rr) = apply(apply(t, i), ss)
    BY <1>8, <2>3, <2>9, <2>10, <2>11, <2>12, <2>13, <2>14
  <2>18. Reach(i) <= Len(t) => Reach(rr) <= Len(apply(t, e))
    <3> SUFFICES ASSUME Reach(i) <= Len(t) PROVE Reach(rr) <= Len(apply(t, e))
      OBVIOUS
    <3>1. Reach(r) <= Len(q) /\ n + Reach(r) <= n + Len(q)
      BY <1>1, <2>3, <2>15, <2>16
    <3> QED
      BY <1>8, <2>11, <2>12, <2>13, <2>14, <2>15, <2>16, <3>1
  <2>19. Reach(e) <= Len(t) => Reach(ss) <= Len(apply(t, i))
    <3> SUFFICES ASSUME Reach(e) <= Len(t) PROVE Reach(ss) <= Len(apply(t, i))
      OBVIOUS
    <3>1. Reach(s) <= Len(p) /\ n + Reach(s) <= n + Len(p)
      BY <1>1, <2>3, <2>15, <2>16
    <3> QED
      BY <1>8, <2>11, <2>12, <2>13, <2>14, <2>15, <2>16, <3>1
  <2> QED
    BY <2>17, <2>18, <2>19
<1> HIDE DEF rr, ss
<1>11. rebased("existingWins")[<<i, e>>] = rr /\ rebased("incomingWins")[<<e, i>>] = ss
  BY <1>2, <1>3 DEF rr, ss
<1> QED
  BY <1>10, <1>11 DEF Meet

LEMMA MeetAll ==
    \A i, e \in Op : Meet(i, e)
<1> DEFINE S == {m \in Nat : \A i, e \in Op : Len(i) + Len(e) = m => Meet(i, e)}
<1>1. ASSUME NEW m \in Nat, \A k \in 0..(m - 1) : k \in S PROVE m \in S
  <2> SUFFICES ASSUME NEW i \in Op, NEW e \in Op, Len(i) + Len(e) = m PROVE Meet(i, e)
    OBVIOUS
  <2>1. ASSUME NEW j \in Op, NEW f \in Op, Len(j) + Len(f) < Len(i) + Len(e) PROVE Meet(j, f)
    <3> DEFINE k == Len(j) + Len(f)
    <3>1. k \in Nat /\ k < m
      <4>1. \A u, w \in Nat : u + w \in Nat
        OBVIOUS
      <4>2. Len(j) \in Nat /\ Len(f) \in Nat
        BY DEF Op
      <4> QED
        BY <2>1, <4>1, <4>2
    <3>2. k \in 0..(m - 1)
      <4> HIDE DEF k
      <4> QED
        BY <3>1
    <3>3. k \in S
      BY <1>1, <3>2
    <3> QED
      BY <3>3
  <2> HIDE DEF S
  <2>2. Len(i) \in Nat /\ Len(e) \in Nat
    BY DEF Op
  <2>3. CASE starts(e, "insert")
    <3>1. Tail(e) \in Op /\ Len(Tail(e)) \in Nat /\ Len(Tail(e)) < Len(e)
      BY <2>3, StartsInsert
    <3>2. Len(i) + Len(Tail(e)) < Len(i) + Len(e)
      BY <2>2, <3>1
    <3> QED
      BY <2>1, <2>3, <3>1, <3>2, MeetInsertExisting
  <2>4. CASE ~starts(e, "insert") /\ starts(i, "insert")
    <3>1. Tail(i) \in Op /\ Len(Tail(i)) \in Nat /\ Len(Tail(i)) < Len(i)
      BY <2>4, StartsInsert
    <3>2. Len(Tail(i)) + Len(e) < Len(i) + Len(e)
      BY <2>2, <3>1
    <3> QED
      BY <2>1, <2>4, <3>1, <3>2, MeetInsertIncoming
  <2>5. CASE ~starts(e, "insert") /\ ~starts(i, "insert") /\ (i = <<>> \/ e = <<>>)
    BY <2>5, MeetAtEnd
  <2>6. CASE ~starts(e, "insert") /\ ~starts(i, "insert") /\ i # <<>> /\ e # <<>>
    <3>1. Head(i).type # "insert" /\ Head(e).type # "insert"
      BY <2>6 DEF starts
    <3> DEFINE n == Overlap(i, e)
               x == remainder(i, n)
               y == remainder(e, n)
    <3>2. x \in Op /\ y \in Op /\ Len(x) + Len(y) < Len(i) + Len(e)
      BY <2>6, <3>1, BothHeads
    <3> HIDE DEF x, y
    <3>3. Meet(x, y)
      BY <2>1, <3>2
    <3> QED
      BY <2>6, <3>1, <3>3, MeetOverlap DEF x, y
  <2> QED
    BY <2>3, <2>4, <2>5, <2>6
<1> HIDE DEF S
<1>2. Nat \subseteq S
  BY <1>1, StrongInduction
<1>3. ASSUME NEW i \in Op, NEW e \in Op PROVE Len(i) + Len(e) \in Nat
  <2>1. \A u, w \in Nat : u + w \in Nat
    OBVIOUS
  <2> QED
    BY <2>1 DEF Op
<1> QED
  BY <1>2, <1>3 DEF S

\* Compaction does not change how far an operation reaches.
LEMMA ReachLast ==
    ASSUME NEW op \in Op, NEW c \in Component
    PROVE  Reach(Append(op, c)) = Reach(op) + Extent(c)
<1>1. FoldFn(Reached, 0, Append(op, c)) = Reached[<<FoldFn(Reached, 0, op), c>>]
  BY ReachedFoldable, FoldAppend
<1>2. Reach(op) \in Nat
  BY ReachLaws
<1> QED
  BY <1>1, <1>2, ReachIs, ExtentType

LEMMA JoinedExtent ==
    ASSUME NEW c \in Component, NEW d \in Component, c.type = d.type
    PROVE  Extent(Joined(c, d)) = Extent(c) + Extent(d)
<1>1. CASE c.type = "insert"
  <2>1. Joined(c, d) = insert(c.text \o d.text)
    BY <1>1 DEF Joined
  <2>2. Extent(insert(c.text \o d.text)) = 0 /\ Extent(c) = 0 /\ Extent(d) = 0
    BY <1>1 DEF Extent, insert
  <2> QED
    BY <2>1, <2>2
<1>2. CASE c.type = "retain"
  <2>1. c = retain(c.count) /\ d = retain(d.count)
    BY <1>2, Components
  <2>2. Joined(c, d) = [c EXCEPT !.count = @ + d.count]
    BY <1>2 DEF Joined
  <2>3. [c EXCEPT !.count = @ + d.count] = retain(c.count + d.count)
    BY <2>1 DEF retain
  <2>4. Extent(retain(c.count + d.count)) = c.count + d.count
    BY DEF Extent, retain
  <2> QED
    BY <1>2, <2>2, <2>3, <2>4 DEF Extent
<1>3. CASE c.type = "delete"
  <2>1. c = del(c.count) /\ d = del(d.count)
    BY <1>3, Components
  <2>2. Joined(c, d) = [c EXCEPT !.count = @ + d.count]
    BY <1>3 DEF Joined
  <2>3. [c EXCEPT !.count = @ + d.count] = del(c.count + d.count)
    BY <2>1 DEF del
  <2>4. Extent(del(c.count + d.count)) = c.count + d.count
    BY DEF Extent, del
  <2> QED
    BY <1>3, <2>2, <2>3, <2>4 DEF Extent
<1> QED
  BY <1>1, <1>2, <1>3, Components

LEMMA PushReach ==
    ASSUME NEW out \in Op, NEW c \in Component
    PROVE  Reach(Pushed(out, c)) = Reach(out) + Extent(c)
<1>1. Reach(out) \in Nat
  BY ReachLaws
<1>2. CASE compLen(c) = 0
  <2>1. Extent(c) = 0
    BY <1>2, ExtentType DEF Extent
  <2>2. Pushed(out, c) = out
    BY <1>2 DEF Pushed
  <2> QED
    BY <1>1, <2>1, <2>2
<1>3. CASE compLen(c) # 0 /\ out # <<>> /\ Last(out).type = c.type
  <2> DEFINE f == Front(out)
             l == Last(out)
             j == Joined(l, c)
  <2>1. Pushed(out, c) = Append(f, j)
    BY <1>3 DEF Pushed
  <2>2. f \in Op /\ l \in Component /\ out = Append(f, l) /\ l.type = c.type
    BY <1>3, FrontLast
  <2> HIDE DEF f, l
  <2>3. j \in Component
    <3>1. <<>> \in Seq(Char) /\ At(<<>>, 0) \in Progress
      BY EmptySeq, ProgressAt
    <3> QED
      BY <2>2, <3>1, PassJoined
  <2>4. Extent(j) = Extent(l) + Extent(c) /\ Extent(l) \in Nat /\ Extent(c) \in Nat
    BY <2>2, JoinedExtent, ExtentType
  <2> HIDE DEF j
  <2>5. Reach(Append(f, j)) = Reach(f) + Extent(j) /\ Reach(out) = Reach(f) + Extent(l) /\ Reach(f) \in Nat
    BY <2>2, <2>3, ReachLast, ReachLaws
  <2> QED
    BY <2>1, <2>4, <2>5
<1>4. CASE compLen(c) # 0 /\ ~(out # <<>> /\ Last(out).type = c.type)
  <2>1. Pushed(out, c) = Append(out, c)
    BY <1>4 DEF Pushed
  <2> QED
    BY <2>1, ReachLast
<1> QED
  BY <1>2, <1>3, <1>4

LEMMA CompactReach ==
    ASSUME NEW op \in Op
    PROVE  Reach(compact(op)) = Reach(op)
<1>1. PICK h \in [0..Len(op) -> Op] : Trace(h, push, <<>>, op)
  BY PushFoldable, TraceExists
<1>2. compact(op) = h[Len(op)]
  BY <1>1, PushFoldable, CompactIs, FoldTrace
<1>3. Len(op) \in Nat /\ \A k \in 1..Len(op) : op[k] \in Component
  BY DEF Op
<1> DEFINE g == [k \in 0..Len(op) |-> Reach(h[k])]
<1>4. g[0] = 0
  <2>1. 0 \in 0..Len(op) /\ h[0] = <<>>
    BY <1>1, <1>3 DEF Trace
  <2> QED
    BY <2>1, ReachLaws
<1>5. ASSUME NEW k \in 1..Len(op) PROVE g[k] = Reached[<<g[k - 1], op[k]>>]
  <2>1. k \in 0..Len(op) /\ k - 1 \in 0..Len(op) /\ op[k] \in Component
    BY <1>3
  <2>2. h[k - 1] \in Op
    BY <1>1, <2>1
  <2>3. h[k] = Pushed(h[k - 1], op[k])
    BY <1>1, <2>1, <2>2 DEF Trace, push
  <2>4. Reach(Pushed(h[k - 1], op[k])) = Reach(h[k - 1]) + Extent(op[k]) /\ Reach(h[k - 1]) \in Nat
    BY <2>1, <2>2, PushReach, ReachLaws
  <2>5. Reached[<<Reach(h[k - 1]), op[k]>>] = Reach(h[k - 1]) + Extent(op[k])
    BY <2>1, <2>4, ExtentType
  <2> QED
    BY <2>1, <2>3, <2>4, <2>5
<1>6. g[Len(op)] = Reach(h[Len(op)])
  BY <1>3
<1> HIDE DEF g
<1>7. Trace(g, Reached, 0, op)
  BY <1>4, <1>5 DEF Trace
<1>8. FoldFn(Reached, 0, op) = g[Len(op)]
  BY <1>7, ReachedFoldable, FoldTrace
<1> QED
  BY <1>2, <1>6, <1>8, ReachIs

LEMMA TransformsOf ==
    ASSUME NEW a \in Op, NEW b \in Op, NEW q
    PROVE  /\ transform(a, b, q) \in Op /\ Compact(transform(a, b, q))
           /\ Reach(transform(a, b, q)) = Reach(rebased(q)[<<a, b>>])
           /\ \A t \in Seq(Char) : apply(t, transform(a, b, q)) = apply(t, rebased(q)[<<a, b>>])
<1> DEFINE x == rebased(q)[<<a, b>>]
<1>1. x \in Op
  BY Rebased DEF Pairs
<1>2. transform(a, b, q) = compact(x)
  BY DEF transform
<1> HIDE DEF x
<1>3. /\ compact(x) \in Op /\ Compact(compact(x)) /\ Reach(compact(x)) = Reach(x)
      /\ \A t \in Seq(Char) : apply(t, compact(x)) = apply(t, x)
  BY <1>1, CompactEffect, CompactForm, CompactReach
<1> QED
  BY <1>2, <1>3 DEF x

LEMMA MeetOn ==
    ASSUME NEW t \in Seq(Char), NEW a \in Op, NEW b \in Op, Reach(a) <= Len(t)
    PROVE  /\ Reach(transform(a, b, "existingWins")) <= Len(apply(t, b))
           /\ Reach(transform(a, b, "incomingWins")) <= Len(apply(t, b))
           /\ apply(apply(t, a), transform(b, a, "existingWins"))
                  = apply(apply(t, b), transform(a, b, "incomingWins"))
           /\ apply(apply(t, a), transform(b, a, "incomingWins"))
                  = apply(apply(t, b), transform(a, b, "existingWins"))
<1>1. Meet(a, b) /\ Meet(b, a)
  BY MeetAll
<1>2. apply(t, a) \in Seq(Char) /\ apply(t, b) \in Seq(Char)
  BY ApplyType
<1>3. /\ apply(apply(t, b), rebased("existingWins")[<<a, b>>]) = apply(apply(t, a), rebased("incomingWins")[<<b, a>>])
      /\ Reach(rebased("existingWins")[<<a, b>>]) <= Len(apply(t, b))
  BY <1>1 DEF Meet
<1>4. /\ apply(apply(t, a), rebased("existingWins")[<<b, a>>]) = apply(apply(t, b), rebased("incomingWins")[<<a, b>>])
      /\ Reach(rebased("incomingWins")[<<a, b>>]) <= Len(apply(t, b))
  BY <1>1 DEF Meet
<1>5. \A q : /\ Reach(transform(a, b, q)) = Reach(rebased(q)[<<a, b>>])
             /\ apply(apply(t, b), transform(a, b, q)) = apply(apply(t, b), rebased(q)[<<a, b>>])
             /\ apply(apply(t, a), transform(b, a, q)) = apply(apply(t, a), rebased(q)[<<b, a>>])
  BY <1>2, TransformsOf
<1> QED
  BY <1>3, <1>4, <1>5

\* Two operations on one text, each transformed past the other, lead to one
\* text whichever is applied first, for every text and all operations of which
\* one finds its characters in it, as long as the two sides favour the same one
\* of two insertions at one place; what is transformed is in the compact form, and
\* the operation that found its characters before finds them afterwards
\* (transform, ot-text.js:78-136; TextOtEngine.cs:64-146).
THEOREM TransformsMeet ==
    ASSUME NEW t \in Seq(Char), NEW a \in Op, NEW b \in Op,
           Reach(a) <= Len(t) \/ Reach(b) <= Len(t),
           NEW p \in {<<"existingWins", "incomingWins">>, <<"incomingWins", "existingWins">>}
    PROVE  LET afterA == transform(b, a, p[1])
               afterB == transform(a, b, p[2])
           IN  /\ afterA \in Op /\ Compact(afterA)
               /\ afterB \in Op /\ Compact(afterB)
               /\ apply(apply(t, a), afterA) = apply(apply(t, b), afterB)
               /\ Reach(b) <= Len(t) => Reach(afterA) <= Len(apply(t, a))
               /\ Reach(a) <= Len(t) => Reach(afterB) <= Len(apply(t, b))
<1>1. \A q : /\ transform(a, b, q) \in Op /\ Compact(transform(a, b, q))
             /\ transform(b, a, q) \in Op /\ Compact(transform(b, a, q))
  BY TransformsOf
<1>2. Reach(a) <= Len(t) =>
          /\ Reach(transform(a, b, "existingWins")) <= Len(apply(t, b))
          /\ Reach(transform(a, b, "incomingWins")) <= Len(apply(t, b))
          /\ apply(apply(t, a), transform(b, a, "existingWins"))
                 = apply(apply(t, b), transform(a, b, "incomingWins"))
          /\ apply(apply(t, a), transform(b, a, "incomingWins"))
                 = apply(apply(t, b), transform(a, b, "existingWins"))
  BY MeetOn
<1>3. Reach(b) <= Len(t) =>
          /\ Reach(transform(b, a, "existingWins")) <= Len(apply(t, a))
          /\ Reach(transform(b, a, "incomingWins")) <= Len(apply(t, a))
          /\ apply(apply(t, b), transform(a, b, "existingWins"))
                 = apply(apply(t, a), transform(b, a, "incomingWins"))
          /\ apply(apply(t, b), transform(a, b, "incomingWins"))
                 = apply(apply(t, a), transform(b, a, "existingWins"))
  BY MeetOn
<1>4. CASE p = <<"existingWins", "incomingWins">>
  <2>1. p[1] = "existingWins" /\ p[2] = "incomingWins"
    BY <1>4
  <2> QED
    BY <1>1, <1>2, <1>3, <2>1
<1>5. CASE p = <<"incomingWins", "existingWins">>
  <2>1. p[1] = "incomingWins" /\ p[2] = "existingWins"
    BY <1>5
  <2> QED
    BY <1>1, <1>2, <1>3, <2>1
<1> QED
  BY <1>4, <1>5

----------------------------------------------------------------------------
\* The composition of two operations, the second one on the text of the first.

MergedHeads(x, y, n) ==
    CASE Head(y).type = "retain"                              -> <<next(x, n)>>
      [] Head(y).type = "delete" /\ Head(x).type = "retain"   -> <<del(n)>>
      [] OTHER                                                -> <<>>

\* One step of the composition, with f for the ones after it.
Merging(f, x, y) ==
    IF starts(x, "delete") THEN <<Head(x)>> \o f[<<Tail(x), y>>]
    ELSE IF starts(y, "insert") THEN <<Head(y)>> \o f[<<x, Tail(y)>>]
    ELSE IF x = <<>> THEN y
    ELSE IF y = <<>> THEN x
    ELSE MergedHeads(x, y, Overlap(x, y)) \o f[<<remainder(x, Overlap(x, y)), remainder(y, Overlap(x, y))>>]

\* Where the composition goes on, what this step adds to it, and where it ends.
MergingNext(x, y) ==
    IF starts(x, "delete") THEN <<Tail(x), y>>
    ELSE IF starts(y, "insert") THEN <<x, Tail(y)>>
    ELSE <<remainder(x, Overlap(x, y)), remainder(y, Overlap(x, y))>>

MergingPart(x, y) ==
    IF starts(x, "delete") THEN <<Head(x)>>
    ELSE IF starts(y, "insert") THEN <<Head(y)>>
    ELSE MergedHeads(x, y, Overlap(x, y))

MergingEnds(x, y) == ~starts(x, "delete") /\ ~starts(y, "insert") /\ (x = <<>> \/ y = <<>>)

MergingEnd(x, y) == IF x = <<>> THEN y ELSE x

LEMMA MergingAdvances ==
    ASSUME NEW x \in Op, NEW y \in Op, ~MergingEnds(x, y)
    PROVE  LET n == MergingNext(x, y)
           IN  /\ n \in Pairs /\ MergingPart(x, y) \in Op
               /\ Len(n[1]) + Len(n[2]) < Len(x) + Len(y)
<1>1. Len(x) \in Nat /\ Len(y) \in Nat
  BY DEF Op
<1>2. /\ \A c \in Component : <<c>> \in Op
      /\ <<>> \in Op
  BY EmptySeq DEF Op
<1>3. CASE starts(x, "delete")
  <2>1. Tail(x) \in Op /\ Len(Tail(x)) \in Nat /\ Len(Tail(x)) < Len(x) /\ Head(x) \in Component
    <3>1. x # <<>>
      BY <1>3 DEF starts
    <3>2. /\ Head(x) \in Component /\ Tail(x) \in Op /\ Len(x) \in Nat /\ Len(Tail(x)) \in Nat
          /\ Len(x) = Len(Tail(x)) + 1
      BY <3>1, HeadTail
    <3> QED
      BY <3>2
  <2>2. MergingNext(x, y) = <<Tail(x), y>>
    BY <1>3 DEF MergingNext
  <2>4. MergingPart(x, y) = <<Head(x)>>
    BY <1>3 DEF MergingPart
  <2>5. <<Tail(x), y>> \in Pairs /\ <<Head(x)>> \in Op
    BY <1>2, <2>1 DEF Pairs
  <2>3. Len(Tail(x)) + Len(y) < Len(x) + Len(y)
    BY <1>1, <2>1
  <2> QED
    BY <2>2, <2>3, <2>4, <2>5
<1>4. CASE ~starts(x, "delete") /\ starts(y, "insert")
  <2>1. Tail(y) \in Op /\ Len(Tail(y)) \in Nat /\ Len(Tail(y)) < Len(y) /\ Head(y) \in Component
    BY <1>4, StartsInsert
  <2>2. MergingNext(x, y) = <<x, Tail(y)>>
    BY <1>4 DEF MergingNext
  <2>4. MergingPart(x, y) = <<Head(y)>>
    BY <1>4 DEF MergingPart
  <2>5. <<x, Tail(y)>> \in Pairs /\ <<Head(y)>> \in Op
    BY <1>2, <2>1 DEF Pairs
  <2>3. Len(x) + Len(Tail(y)) < Len(x) + Len(y)
    BY <1>1, <2>1
  <2> QED
    BY <2>2, <2>3, <2>4, <2>5
<1>5. CASE ~starts(x, "delete") /\ ~starts(y, "insert")
  <2> DEFINE n == Overlap(x, y)
             rx == remainder(x, n)
             ry == remainder(y, n)
  <2>1. x # <<>> /\ y # <<>>
    BY <1>5 DEF MergingEnds
  <2>2. /\ n \in Nat /\ next(x, n) \in Component /\ rx \in Op /\ ry \in Op
        /\ Len(rx) + Len(ry) < Len(x) + Len(y)
    BY <2>1, BothHeads
  <2>3. MergingNext(x, y) = <<rx, ry>> /\ MergingPart(x, y) = MergedHeads(x, y, n)
    BY <1>5 DEF MergingNext, MergingPart
  <2> HIDE DEF n, rx, ry
  <2>4. MergedHeads(x, y, n) \in Op
    <3>1. del(n) \in Component
      BY <2>2, Constructors
    <3> QED
      BY <1>2, <2>2, <3>1 DEF MergedHeads
  <2> QED
    BY <2>2, <2>3, <2>4 DEF Pairs
<1> QED
  BY <1>3, <1>4, <1>5

LEMMA MergingStep ==
    ASSUME NEW f, NEW x \in Op, NEW y \in Op
    PROVE  Merging(f, x, y) =
               IF MergingEnds(x, y) THEN MergingEnd(x, y)
               ELSE MergingPart(x, y) \o f[MergingNext(x, y)]
<1>1. CASE MergingEnds(x, y)
  <2>1. ~starts(x, "delete") /\ ~starts(y, "insert") /\ (x = <<>> \/ y = <<>>)
    BY <1>1 DEF MergingEnds
  <2> QED
    BY <1>1, <2>1 DEF Merging, MergingEnd
<1>2. CASE ~MergingEnds(x, y) /\ starts(x, "delete")
  BY <1>2 DEF Merging, MergingNext, MergingPart
<1>3. CASE ~MergingEnds(x, y) /\ ~starts(x, "delete") /\ starts(y, "insert")
  BY <1>3 DEF Merging, MergingNext, MergingPart
<1>4. CASE ~MergingEnds(x, y) /\ ~starts(x, "delete") /\ ~starts(y, "insert")
  <2>1. x # <<>> /\ y # <<>>
    BY <1>4 DEF MergingEnds
  <2> QED
    BY <1>4, <2>1 DEF Merging, MergingNext, MergingPart
<1> QED
  BY <1>1, <1>2, <1>3, <1>4

LEMMA NextOfHead ==
    ASSUME NEW x \in Op, NEW n
    PROVE  next(<<Head(x)>>, n) = next(x, n)
<1>1. Head(<<Head(x)>>) = Head(x)
  <2>1. \A e : Head(<<e>>) = e
    OBVIOUS
  <2> QED
    BY <2>1
<1> QED
  BY <1>1 DEF next

LEMMA MergedIs ==
    merged = CHOOSE f : f = [q \in Pairs |-> Merging(f, q[1], q[2])]
<1>1. \A x \in Op : \A n : next(<<Head(x)>>, n) = next(x, n)
  BY NextOfHead
<1>2. \A f : [q \in Pairs |-> Merging(f, q[1], q[2])] =
             [q \in Pairs |->
                 IF starts(q[1], "delete") THEN <<Head(q[1])>> \o f[<<Tail(q[1]), q[2]>>]
                 ELSE IF starts(q[2], "insert") THEN <<Head(q[2])>> \o f[<<q[1], Tail(q[2])>>]
                 ELSE IF q[1] = <<>> THEN q[2]
                 ELSE IF q[2] = <<>> THEN q[1]
                 ELSE (CASE Head(q[2]).type = "retain" -> <<next(<<Head(q[1])>>, Overlap(q[1], q[2]))>>
                         [] Head(q[2]).type = "delete" /\ Head(q[1]).type = "retain"
                                 -> <<del(Overlap(q[1], q[2]))>>
                         [] OTHER -> <<>>)
                      \o f[<<remainder(q[1], Overlap(q[1], q[2])), remainder(q[2], Overlap(q[1], q[2]))>>]]
  BY <1>1 DEF Merging, MergedHeads, Pairs
<1> QED
  BY <1>2, ZenonT(60) DEF merged, Pairs

LEMMA Merged ==
    /\ merged \in [Pairs -> Op]
    /\ \A x, y \in Op : merged[<<x, y>>] = Merging(merged, x, y)
<1> DEFINE P(f) == f = [q \in Pairs |-> Merging(f, q[1], q[2])]
           r == CHOOSE f : P(f)
           stop == {q \in Pairs : MergingEnds(q[1], q[2])}
           nxt == [q \in Pairs |-> IF q \in stop THEN q ELSE MergingNext(q[1], q[2])]
           prefix == [q \in Pairs |-> IF q \in stop THEN <<>> ELSE MergingPart(q[1], q[2])]
           base == [q \in Pairs |-> MergingEnd(q[1], q[2])]
<1>1. merged = r
  BY MergedIs
<1>2. \A q \in Pairs : q[1] \in Op /\ q[2] \in Op /\ q = <<q[1], q[2]>>
  BY DEF Pairs
<1>3. \A q \in Pairs \ stop :
          /\ MergingNext(q[1], q[2]) \in Pairs
          /\ MergingPart(q[1], q[2]) \in Op
          /\ Len(MergingNext(q[1], q[2])[1]) + Len(MergingNext(q[1], q[2])[2]) < Len(q[1]) + Len(q[2])
  BY <1>2, MergingAdvances
<1>4. <<>> \in Op
  BY EmptySeq DEF Op
<1>5. Advances(nxt, prefix, stop)
  BY <1>3, <1>4 DEF Advances
<1>6. base \in [Pairs -> Op]
  BY <1>2 DEF MergingEnd
<1> HIDE DEF nxt, prefix, base
<1>7. PICK f \in [Pairs -> Op] : Runs(f, nxt, prefix, stop, base)
  BY <1>5, <1>6, RunsExists
<1>8. ASSUME NEW q \in Pairs PROVE f[q] = Merging(f, q[1], q[2])
  <2>1. CASE q \in stop
    <3>1. f[q] = MergingEnd(q[1], q[2])
      BY <1>7, <2>1 DEF Runs, base
    <3>2. MergingEnds(q[1], q[2])
      BY <2>1
    <3> QED
      BY <1>2, <3>1, <3>2, MergingStep
  <2>2. CASE q \notin stop
    <3>1. f[q] = prefix[q] \o f[nxt[q]]
      BY <1>7, <2>2 DEF Runs
    <3>2. ~MergingEnds(q[1], q[2])
      BY <2>2
    <3>3. nxt[q] = MergingNext(q[1], q[2]) /\ prefix[q] = MergingPart(q[1], q[2])
      BY <2>2 DEF nxt, prefix
    <3> HIDE DEF stop
    <3> QED
      BY <1>2, <3>1, <3>2, <3>3, MergingStep
  <2> QED
    BY <2>1, <2>2
<1>9. P(f)
  BY <1>8
<1> HIDE DEF P
<1>10. P(r)
  BY <1>9
<1> HIDE DEF r
<1>11. r = [q \in Pairs |-> Merging(r, q[1], q[2])]
  BY <1>10 DEF P
<1>12. ASSUME NEW q \in Pairs
       PROVE  r[q] = IF q \in stop THEN base[q] ELSE prefix[q] \o r[nxt[q]]
  <2>1. r[q] = Merging(r, q[1], q[2])
    BY <1>11
  <2>2. q \in stop <=> MergingEnds(q[1], q[2])
    OBVIOUS
  <2>3. q \notin stop => /\ nxt[q] = MergingNext(q[1], q[2])
                         /\ prefix[q] = MergingPart(q[1], q[2])
    BY DEF nxt, prefix
  <2>4. base[q] = MergingEnd(q[1], q[2])
    BY DEF base
  <2> HIDE DEF stop
  <2>5. q[1] \in Op /\ q[2] \in Op
    BY <1>2
  <2>6. Merging(r, q[1], q[2]) =
            IF MergingEnds(q[1], q[2]) THEN MergingEnd(q[1], q[2])
            ELSE MergingPart(q[1], q[2]) \o r[MergingNext(q[1], q[2])]
    BY <2>5, MergingStep
  <2> QED
    BY <2>1, <2>2, <2>3, <2>4, <2>6
<1>13. r \in [Pairs -> Op]
  <2>1. \A q \in Pairs : r[q] \in Op
    <3>1. Runs(r, nxt, prefix, stop, base)
      BY <1>12 DEF Runs
    <3> QED
      BY <1>5, <1>6, <3>1, RunsType
  <2> QED
    BY <1>11, <2>1
<1>14. \A x, y \in Op : r[<<x, y>>] = Merging(r, x, y)
  BY <1>11 DEF Pairs
<1> QED
  BY <1>1, <1>13, <1>14

\* The composition has the effect of the two, and finds its characters in the
\* text when each of the two finds its own.
Follow(x, y) ==
    \A t \in Seq(Char) :
        Reach(x) <= Len(t) =>
            /\ apply(t, merged[<<x, y>>]) = apply(apply(t, x), y)
            /\ Reach(y) <= Len(apply(t, x)) => Reach(merged[<<x, y>>]) <= Len(t)

LEMMA FollowDelete ==
    ASSUME NEW x \in Op, NEW y \in Op, starts(x, "delete"), Follow(Tail(x), y)
    PROVE  Follow(x, y)
<1> DEFINE n == Head(x).count
           w == Tail(x)
           r == merged[<<w, y>>]
<1>1. x # <<>> /\ Head(x).type = "delete"
  BY DEF starts
<1>2. Head(x) \in Component /\ w \in Op /\ x = <<Head(x)>> \o w
  BY <1>1, HeadTail
<1>3. n \in Nat /\ Head(x) = del(n) /\ Extent(Head(x)) = n
  BY <1>1, <1>2, Components DEF Extent
<1>4. Reach(x) = n + Reach(w) /\ Reach(w) \in Nat
  BY <1>2, <1>3, ReachLaws
<1>5. r \in Op
  BY <1>2, Merged DEF Pairs
<1>6. merged[<<x, y>>] = <<del(n)>> \o r
  <2>1. merged[<<x, y>>] = Merging(merged, x, y)
    BY Merged
  <2>2. merged[<<x, y>>] = <<Head(x)>> \o r
    BY <2>1 DEF Merging
  <2> QED
    BY <1>3, <2>2
<1>7. Reach(<<del(n)>> \o r) = n + Reach(r) /\ Reach(r) \in Nat
  <2>1. del(n) \in Component /\ Extent(del(n)) = n
    BY <1>2, <1>3
  <2> HIDE DEF n
  <2> QED
    BY <1>5, <2>1, ReachLaws
<1>8. x = <<del(n)>> \o w
  BY <1>2, <1>3
<1>9. Follow(w, y)
  OBVIOUS
<1> HIDE DEF n, w
<1>10. ASSUME NEW t \in Seq(Char), Reach(x) <= Len(t)
       PROVE  /\ apply(t, <<del(n)>> \o r) = apply(apply(t, x), y)
              /\ Reach(y) <= Len(apply(t, x)) => Reach(<<del(n)>> \o r) <= Len(t)
  <2> DEFINE v == Cut(t, n, Len(t))
             m == Len(t)
  <2>1. m \in Nat /\ n <= m
    BY <1>3, <1>4, <1>10
  <2>2. v \in Seq(Char) /\ Len(v) = m - n
    BY <1>3, <2>1, CutLength
  <2>3. Reach(w) <= Len(v)
    <3>1. Reach(x) <= m
      BY <1>10
    <3> HIDE DEF v, m
    <3> QED
      BY <1>3, <1>4, <2>1, <2>2, <3>1
  <2>4. apply(t, x) = apply(v, w)
    BY <1>2, <1>3, <1>8, ApplyDelete
  <2> HIDE DEF r
  <2>5. apply(t, <<del(n)>> \o r) = apply(v, r)
    BY <1>3, <1>5, ApplyDelete
  <2> HIDE DEF v, m
  <2>6. /\ apply(v, r) = apply(apply(v, w), y)
        /\ Reach(y) <= Len(apply(v, w)) => Reach(r) <= Len(v)
    BY <1>9, <2>2, <2>3 DEF Follow, r
  <2>7. Reach(r) <= Len(v) => n + Reach(r) <= m
    BY <1>3, <1>7, <2>1, <2>2
  <2> QED
    BY <1>7, <2>4, <2>5, <2>6, <2>7 DEF m
<1> QED
  BY <1>6, <1>10 DEF Follow

LEMMA FollowInsert ==
    ASSUME NEW x \in Op, NEW y \in Op, ~starts(x, "delete"), starts(y, "insert"), Follow(x, Tail(y))
    PROVE  Follow(x, y)
<1> DEFINE z == Head(y).text
           w == Tail(y)
           r == merged[<<x, w>>]
<1>1. /\ w \in Op /\ z \in Seq(Char) /\ y = <<insert(z)>> \o w /\ Head(y) = insert(z)
      /\ Reach(y) = Reach(w) /\ insert(z) \in Component
  BY StartsInsert, Constructors
<1>2. r \in Op
  BY <1>1, Merged DEF Pairs
<1>3. merged[<<x, y>>] = <<insert(z)>> \o r
  <2>1. merged[<<x, y>>] = Merging(merged, x, y)
    BY Merged
  <2>2. merged[<<x, y>>] = <<Head(y)>> \o r
    BY <2>1 DEF Merging
  <2> QED
    BY <1>1, <2>2
<1>4. Follow(x, w)
  OBVIOUS
<1> HIDE DEF z, w
<1>5. Reach(<<insert(z)>> \o r) = Reach(r)
  <2>1. Extent(insert(z)) = 0
    BY DEF Extent, insert
  <2> HIDE DEF r
  <2>2. Reach(<<insert(z)>> \o r) = 0 + Reach(r) /\ Reach(r) \in Nat
    BY <1>1, <1>2, <2>1, ReachLaws
  <2> QED
    BY <2>2
<1>6. ASSUME NEW t \in Seq(Char), Reach(x) <= Len(t)
      PROVE  /\ apply(t, <<insert(z)>> \o r) = apply(apply(t, x), y)
             /\ Reach(y) <= Len(apply(t, x)) => Reach(<<insert(z)>> \o r) <= Len(t)
  <2>1. /\ apply(t, r) = apply(apply(t, x), w)
        /\ Reach(w) <= Len(apply(t, x)) => Reach(r) <= Len(t)
    BY <1>4, <1>6 DEF Follow
  <2> HIDE DEF r
  <2>2. apply(t, <<insert(z)>> \o r) = z \o apply(t, r)
    BY <1>1, <1>2, ApplyInsert
  <2>3. apply(t, x) \in Seq(Char)
    BY ApplyType
  <2>4. apply(apply(t, x), y) = z \o apply(apply(t, x), w)
    BY <1>1, <2>3, ApplyInsert
  <2> QED
    BY <1>1, <1>5, <2>1, <2>2, <2>4
<1> QED
  BY <1>3, <1>6 DEF Follow

LEMMA FollowEnd ==
    ASSUME NEW x \in Op, NEW y \in Op, MergingEnds(x, y)
    PROVE  Follow(x, y)
<1>1. merged[<<x, y>>] = MergingEnd(x, y)
  BY Merged, MergingStep
<1>2. CASE x = <<>>
  <2>1. MergingEnd(x, y) = y
    BY <1>2 DEF MergingEnd
  <2>2. \A t \in Seq(Char) : apply(t, x) = t
    BY <1>2, ApplyNone
  <2> QED
    BY <1>1, <2>1, <2>2 DEF Follow
<1>3. CASE x # <<>> /\ y = <<>>
  <2>1. MergingEnd(x, y) = x
    BY <1>3 DEF MergingEnd
  <2>2. \A t \in Seq(Char) : apply(apply(t, x), y) = apply(t, x)
    BY <1>3, ApplyNone, ApplyType
  <2> QED
    BY <1>1, <2>1, <2>2 DEF Follow
<1> QED
  BY <1>2, <1>3 DEF MergingEnds

\* An operation whose head covers the characters of a, on a text that starts with them.
LEMMA HeadPast ==
    ASSUME NEW y \in Op, y # <<>>, Head(y).type # "insert",
           NEW a \in Seq(Char), Len(a) <= compLen(Head(y)), NEW p \in Seq(Char)
    PROVE  LET w == remainder(y, Len(a))
           IN  /\ w \in Op
               /\ Head(y).type = "retain" => apply(a \o p, y) = a \o apply(p, w)
               /\ Head(y).type = "delete" => apply(a \o p, y) = apply(p, w)
               /\ Reach(y) <= Len(a \o p) => Reach(w) <= Len(p)
<1> DEFINE n == Len(a)
           w == remainder(y, n)
           t == a \o p
<1>1. n \in Nat
  OBVIOUS
<1>2. /\ w \in Op
      /\ Reach(y) = n + Reach(w)
      /\ Head(y).type = "retain" => apply(t, y) = Cut(t, 0, n) \o apply(Cut(t, n, Len(t)), w)
      /\ Head(y).type = "delete" => apply(t, y) = apply(Cut(t, n, Len(t)), w)
  <2>1. t \in Seq(Char)
    BY CutPast
  <2> HIDE DEF t, n
  <2> QED
    BY <1>1, <2>1, HeadCut DEF n
<1>3. Cut(t, 0, n) = a /\ Cut(t, n, Len(t)) = p /\ Len(t) = n + Len(p) /\ Len(p) \in Nat
  BY CutPast
<1> HIDE DEF n, w, t
<1>4. Reach(w) \in Nat
  BY <1>2, ReachLaws
<1>5. Reach(y) <= Len(t) => Reach(w) <= Len(p)
  BY <1>1, <1>2, <1>3, <1>4
<1> QED
  BY <1>2, <1>3, <1>5 DEF n, w, t

LEMMA FollowOverlap ==
    ASSUME NEW x \in Op, NEW y \in Op, x # <<>>, y # <<>>,
           ~starts(x, "delete"), ~starts(y, "insert"),
           Follow(remainder(x, Overlap(x, y)), remainder(y, Overlap(x, y)))
    PROVE  Follow(x, y)
<1> DEFINE n == Overlap(x, y)
           u == remainder(x, n)
           w == remainder(y, n)
           r == merged[<<u, w>>]
           H == MergedHeads(x, y, n)
<1>1. n \in Nat /\ n <= compLen(Head(x)) /\ n <= compLen(Head(y)) /\ u \in Op /\ w \in Op
  BY BothHeads
<1>2. r \in Op
  BY <1>1, Merged DEF Pairs
<1>3. merged[<<x, y>>] = H \o r
  <2>1. merged[<<x, y>>] = Merging(merged, x, y)
    BY Merged
  <2> QED
    BY <2>1 DEF Merging
<1>4. Follow(u, w)
  OBVIOUS
<1>5. Head(x).type \in {"retain", "insert"} /\ Head(y).type \in {"retain", "delete"}
  BY HeadTail, Components DEF starts
<1> HIDE DEF n
<1>6. ASSUME NEW a \in Seq(Char), Len(a) = n, NEW p \in Seq(Char)
      PROVE  /\ Head(y).type = "retain" => apply(a \o p, y) = a \o apply(p, w)
             /\ Head(y).type = "delete" => apply(a \o p, y) = apply(p, w)
             /\ Reach(y) <= Len(a \o p) => Reach(w) <= Len(p)
  <2>1. Head(y).type # "insert" /\ Len(a) <= compLen(Head(y))
    BY <1>1, <1>5, <1>6
  <2> QED
    BY <1>6, <2>1, HeadPast
<1>7. /\ Reach(r) \in Nat
      /\ Reach(<<retain(n)>> \o r) = n + Reach(r)
      /\ Reach(<<del(n)>> \o r) = n + Reach(r)
      /\ \A z \in Seq(Char) : Reach(<<insert(z)>> \o r) = Reach(r)
  <2> HIDE DEF r
  <2>1. Reach(r) \in Nat
    BY <1>2, ReachLaws
  <2>2. retain(n) \in Component /\ del(n) \in Component /\ Extent(retain(n)) = n /\ Extent(del(n)) = n
    BY <1>1, Constructors DEF Extent, retain, del
  <2>3. ASSUME NEW z \in Seq(Char) PROVE Reach(<<insert(z)>> \o r) = Reach(r)
    <3>1. insert(z) \in Component /\ Extent(insert(z)) = 0
      BY Constructors DEF Extent, insert
    <3>2. Reach(<<insert(z)>> \o r) = 0 + Reach(r)
      BY <1>2, <3>1, ReachLaws
    <3> QED
      BY <2>1, <3>2
  <2> QED
    BY <1>2, <2>1, <2>2, <2>3, ReachLaws
<1>8. <<>> \o r = r
  BY <1>2, ConcatEmptySeq DEF Op
<1>9. ASSUME NEW t \in Seq(Char), Reach(x) <= Len(t), Head(x).type = "retain"
      PROVE  /\ apply(t, H \o r) = apply(apply(t, x), y)
             /\ Reach(y) <= Len(apply(t, x)) => Reach(H \o r) <= Len(t)
  <2> DEFINE m == Len(t)
             a == Cut(t, 0, n)
             v == Cut(t, n, m)
             p == apply(v, u)
  <2>1. /\ Reach(x) = n + Reach(u) /\ next(x, n) = retain(n)
        /\ apply(t, x) = a \o p
    BY <1>1, <1>9, HeadCut
  <2>2. Reach(u) \in Nat /\ m \in Nat /\ Reach(x) <= m
    BY <1>1, <1>9, ReachLaws
  <2>3. a \in Seq(Char) /\ Len(a) = n /\ v \in Seq(Char) /\ Len(v) = m - n
    <3>1. n <= m
      <4> HIDE DEF m, u
      <4> QED
        BY <1>1, <2>1, <2>2
    <3> QED
      BY <1>1, <3>1, CutLength
  <2>4. Reach(u) <= Len(v)
    <3> HIDE DEF m, v, u
    <3> QED
      BY <1>1, <2>1, <2>2, <2>3
  <2>5. p \in Seq(Char)
    BY <1>1, <2>3, ApplyType
  <2>6. apply(v, r) = apply(p, w) /\ (Reach(w) <= Len(p) => Reach(r) <= Len(v))
    BY <1>4, <2>3, <2>4 DEF Follow
  <2>7. H = IF Head(y).type = "retain" THEN <<retain(n)>> ELSE <<del(n)>>
    BY <1>5, <1>9, <2>1 DEF MergedHeads
  <2>8. /\ apply(t, <<retain(n)>> \o r) = a \o apply(v, r)
        /\ apply(t, <<del(n)>> \o r) = apply(v, r)
    <3> HIDE DEF r
    <3> QED
      BY <1>1, <1>2, ApplyRetain, ApplyDelete
  <2> HIDE DEF a, v, p, m, H, r, w, u
  <2>9. /\ Head(y).type = "retain" => apply(a \o p, y) = a \o apply(p, w)
        /\ Head(y).type = "delete" => apply(a \o p, y) = apply(p, w)
        /\ Reach(y) <= Len(a \o p) => Reach(w) <= Len(p)
    BY <1>6, <2>3, <2>5
  <2>10. Reach(r) <= Len(v) => n + Reach(r) <= m
    BY <1>1, <1>7, <2>2, <2>3
  <2>11. Reach(H \o r) = n + Reach(r)
    BY <1>7, <2>7
  <2>12. apply(t, H \o r) = apply(a \o p, y)
    BY <1>5, <2>6, <2>7, <2>8, <2>9
  <2> QED
    BY <2>1, <2>6, <2>9, <2>10, <2>11, <2>12 DEF m
<1>10. ASSUME NEW t \in Seq(Char), Reach(x) <= Len(t), Head(x).type = "insert"
       PROVE  /\ apply(t, H \o r) = apply(apply(t, x), y)
              /\ Reach(y) <= Len(apply(t, x)) => Reach(H \o r) <= Len(t)
  <2> DEFINE z == Cut(Head(x).text, 0, n)
             p == apply(t, u)
  <2>1. /\ Reach(x) = Reach(u) /\ next(x, n) = insert(z) /\ z \in Seq(Char) /\ Len(z) = n
        /\ apply(t, x) = z \o p
    BY <1>1, <1>10, HeadCutInsert
  <2>2. p \in Seq(Char)
    BY <1>1, <1>10, ApplyType
  <2>3. apply(t, r) = apply(p, w) /\ (Reach(w) <= Len(p) => Reach(r) <= Len(t))
    BY <1>4, <1>10, <2>1 DEF Follow
  <2> HIDE DEF z
  <2>4. H = IF Head(y).type = "retain" THEN <<insert(z)>> ELSE <<>>
    BY <1>5, <1>10, <2>1 DEF MergedHeads
  <2>5. apply(t, <<insert(z)>> \o r) = z \o apply(t, r)
    <3> HIDE DEF r
    <3> QED
      BY <1>2, <2>1, ApplyInsert
  <2> HIDE DEF p, H, r, w, u
  <2>6. /\ Head(y).type = "retain" => apply(z \o p, y) = z \o apply(p, w)
        /\ Head(y).type = "delete" => apply(z \o p, y) = apply(p, w)
        /\ Reach(y) <= Len(z \o p) => Reach(w) <= Len(p)
    BY <1>6, <2>1, <2>2
  <2>7. Reach(H \o r) = Reach(r)
    BY <1>7, <1>8, <2>1, <2>4
  <2>8. apply(t, H \o r) = apply(z \o p, y)
    BY <1>5, <1>8, <2>3, <2>4, <2>5, <2>6
  <2> QED
    BY <2>1, <2>3, <2>6, <2>7, <2>8
<1> QED
  BY <1>3, <1>5, <1>9, <1>10 DEF Follow

LEMMA FollowAll ==
    \A x, y \in Op : Follow(x, y)
<1> DEFINE S == {m \in Nat : \A x, y \in Op : Len(x) + Len(y) = m => Follow(x, y)}
<1>1. ASSUME NEW m \in Nat, \A k \in 0..(m - 1) : k \in S PROVE m \in S
  <2> SUFFICES ASSUME NEW x \in Op, NEW y \in Op, Len(x) + Len(y) = m PROVE Follow(x, y)
    OBVIOUS
  <2>1. ASSUME NEW j \in Op, NEW f \in Op, Len(j) + Len(f) < Len(x) + Len(y) PROVE Follow(j, f)
    <3> DEFINE k == Len(j) + Len(f)
    <3>1. k \in Nat /\ k < m
      <4>1. \A u, w \in Nat : u + w \in Nat
        OBVIOUS
      <4>2. Len(j) \in Nat /\ Len(f) \in Nat
        BY DEF Op
      <4> QED
        BY <2>1, <4>1, <4>2
    <3>2. k \in 0..(m - 1)
      <4> HIDE DEF k
      <4> QED
        BY <3>1
    <3>3. k \in S
      BY <1>1, <3>2
    <3> QED
      BY <3>3
  <2> HIDE DEF S
  <2>2. Len(x) \in Nat /\ Len(y) \in Nat
    BY DEF Op
  <2>3. CASE starts(x, "delete")
    <3>1. x # <<>>
      BY <2>3 DEF starts
    <3>2. Tail(x) \in Op /\ Len(Tail(x)) \in Nat /\ Len(x) = Len(Tail(x)) + 1
      BY <3>1, HeadTail
    <3>3. Len(Tail(x)) + Len(y) < Len(x) + Len(y)
      BY <2>2, <3>2
    <3> QED
      BY <2>1, <2>3, <3>2, <3>3, FollowDelete
  <2>4. CASE ~starts(x, "delete") /\ starts(y, "insert")
    <3>1. Tail(y) \in Op /\ Len(Tail(y)) \in Nat /\ Len(Tail(y)) < Len(y)
      BY <2>4, StartsInsert
    <3>2. Len(x) + Len(Tail(y)) < Len(x) + Len(y)
      BY <2>2, <3>1
    <3> QED
      BY <2>1, <2>4, <3>1, <3>2, FollowInsert
  <2>5. CASE MergingEnds(x, y)
    BY <2>5, FollowEnd
  <2>6. CASE ~starts(x, "delete") /\ ~starts(y, "insert") /\ x # <<>> /\ y # <<>>
    <3> DEFINE n == Overlap(x, y)
               u == remainder(x, n)
               w == remainder(y, n)
    <3>1. u \in Op /\ w \in Op /\ Len(u) + Len(w) < Len(x) + Len(y)
      BY <2>6, BothHeads
    <3> HIDE DEF u, w
    <3>2. Follow(u, w)
      BY <2>1, <3>1
    <3> QED
      BY <2>6, <3>2, FollowOverlap DEF u, w
  <2> QED
    BY <2>3, <2>4, <2>5, <2>6 DEF MergingEnds
<1> HIDE DEF S
<1>2. Nat \subseteq S
  BY <1>1, StrongInduction
<1>3. ASSUME NEW x \in Op, NEW y \in Op PROVE Len(x) + Len(y) \in Nat
  <2>1. \A u, w \in Nat : u + w \in Nat
    OBVIOUS
  <2> QED
    BY <2>1 DEF Op
<1> QED
  BY <1>2, <1>3 DEF S

\* An operation that only retains changes nothing.
LEMMA NoOpEffect ==
    ASSUME NEW op \in Op, \A i \in DOMAIN op : op[i].type = "retain"
    PROVE  \A t \in Seq(Char) : apply(t, op) = t
<1> DEFINE NoOp(o) == \A i \in DOMAIN o : o[i].type = "retain"
           S == {m \in Nat : \A o \in Op : Len(o) = m /\ NoOp(o) => \A t \in Seq(Char) : apply(t, o) = t}
<1>1. 0 \in S
  <2>1. \A o \in Op : Len(o) = 0 => o = <<>>
    BY EmptySeq DEF Op
  <2> QED
    BY <2>1, ApplyNone
<1>2. ASSUME NEW m \in Nat, m \in S PROVE m + 1 \in S
  <2>1. ASSUME NEW o \in Op, Len(o) = m + 1, NoOp(o), NEW t \in Seq(Char) PROVE apply(t, o) = t
    <3> DEFINE c == Head(o)
               w == Tail(o)
               n == c.count
    <3>1. o # <<>>
      BY <2>1
    <3>2. /\ c \in Component /\ w \in Op /\ o = <<c>> \o w
          /\ Len(o) \in Nat /\ Len(w) \in Nat /\ Len(o) = Len(w) + 1
      BY <3>1, HeadTail
    <3>3. Len(w) = m
      BY <2>1, <3>2
    <3>4. /\ c.type = "retain"
          /\ NoOp(w)
      <4>1. DOMAIN o = 1..(m + 1) /\ c = o[1]
        BY <2>1, <3>1 DEF Op
      <4>2. DOMAIN w = 1..m /\ \A i \in 1..m : w[i] = o[i + 1]
        BY <2>1, <3>1, <3>3 DEF Op
      <4>3. \A i \in 1..m : i + 1 \in 1..(m + 1)
        OBVIOUS
      <4>4. 1 \in 1..(m + 1)
        OBVIOUS
      <4> QED
        BY <2>1, <4>1, <4>2, <4>3, <4>4
    <3>5. n \in Nat /\ c = retain(n)
      BY <3>2, <3>4, Components
    <3>6. o = <<retain(n)>> \o w
      BY <3>2, <3>5
    <3> HIDE DEF c, w, n
    <3>7. apply(t, o) = Cut(t, 0, n) \o apply(Cut(t, n, Len(t)), w)
      <4>1. n \in Nat /\ w \in Op
        BY <3>2, <3>5
      <4>2. apply(t, <<retain(n)>> \o w) = Cut(t, 0, n) \o apply(Cut(t, n, Len(t)), w)
        BY <4>1, ApplyRetain
      <4> QED
        BY <3>6, <4>2, Zenon
    <3>8. \A u \in Seq(Char) : apply(u, w) = u
      BY <1>2, <3>2, <3>3, <3>4
    <3>9. Cut(t, n, Len(t)) \in Seq(Char) /\ Cut(t, 0, n) \o Cut(t, n, Len(t)) = t
      <4>1. Cut(t, n, Len(t)) \in Seq(Char) /\ Len(t) \in Nat
        BY <3>5, CutProperties
      <4>2. CASE n <= Len(t)
        <5>1. Cut(t, 0, n) \o Cut(t, n, Len(t)) = Cut(t, 0, Len(t))
          BY <3>5, <4>1, <4>2, CutJoin
        <5> QED
          BY <4>1, <5>1, CutWhole
      <4>3. CASE ~(n <= Len(t))
        <5>1. Cut(t, 0, n) = t
          <6>1. Least(n, Len(t)) = Len(t) /\ Least(Len(t), Len(t)) = Len(t)
            BY <3>5, <4>1, <4>3 DEF Least
          <6>2. Cut(t, 0, n) = Cut(t, 0, Len(t))
            BY <6>1 DEF Cut
          <6> QED
            BY <6>2, CutWhole
        <5>2. Cut(t, n, Len(t)) = <<>>
          <6>1. Len(Cut(t, n, Len(t))) = IF n < Least(Len(t), Len(t)) THEN Least(Len(t), Len(t)) - n ELSE 0
            BY <3>5, <4>1, CutProperties
          <6>2. Len(Cut(t, n, Len(t))) = 0
            BY <3>5, <4>1, <4>3, <6>1 DEF Least
          <6> QED
            BY <4>1, <6>2, EmptySeq
        <5> QED
          BY <4>1, <5>1, <5>2, ConcatEmptySeq
      <4> QED
        BY <4>2, <4>3
    <3> QED
      BY <3>7, <3>8, <3>9
  <2> QED
    BY <2>1
<1> HIDE DEF S
<1>3. Nat \subseteq S
  BY <1>1, <1>2, Induction
<1>4. Len(op) \in Nat
  BY DEF Op
<1> QED
  BY <1>3, <1>4 DEF S

\* Two operations, the second one on the text that the first one leaves, can be
\* sent as one: it has the effect of the two on every text that holds the
\* characters of the first, it finds its own characters there, and it is dropped
\* only when it changes nothing (compose, ot-text.js:163-189, with which
\* monaco-collab.js:81 joins what it has not sent; TextOtEngine.cs:273-334).
THEOREM ComposeFollows ==
    ASSUME NEW t \in Seq(Char), NEW a \in Op \cup {Null}, NEW b \in Op \cup {Null},
           a # Null => Reach(a) <= Len(t)
    PROVE  LET c == compose(a, b)
           IN  /\ c \in Op \cup {Null}
               /\ Effect(t, c) = Effect(Effect(t, a), b)
               /\ (c # Null /\ (b # Null => Reach(b) <= Len(Effect(t, a)))) => Reach(c) <= Len(t)
<1>1. CASE a = Null
  <2>1. compose(a, b) = b /\ Effect(t, a) = t
    BY <1>1 DEF compose, Effect
  <2> QED
    BY <2>1
<1>2. CASE a # Null /\ b = Null
  <2>1. compose(a, b) = a /\ \A u : Effect(u, b) = u
    BY <1>2 DEF compose, Effect
  <2> QED
    BY <1>2, <2>1
<1>3. CASE a # Null /\ b # Null
  <2> DEFINE r == merged[<<a, b>>]
             k == compact(r)
  <2>1. a \in Op /\ b \in Op /\ Reach(a) <= Len(t)
    BY <1>3
  <2>2. r \in Op
    BY <2>1, Merged DEF Pairs
  <2>3. /\ apply(t, r) = apply(apply(t, a), b)
        /\ Reach(b) <= Len(apply(t, a)) => Reach(r) <= Len(t)
    <3>1. Follow(a, b)
      BY <2>1, FollowAll
    <3> QED
      BY <2>1, <3>1 DEF Follow
  <2>4. compose(a, b) = IF isNoOp(k) THEN Null ELSE k
    BY <1>3 DEF compose
  <2> HIDE DEF r
  <2>5. k \in Op /\ apply(t, k) = apply(t, r) /\ Reach(k) = Reach(r)
    BY <2>2, CompactEffect, CompactReach
  <2> HIDE DEF k
  <2>6. k # Null
    BY <2>5, NullAssumption
  <2>7. Effect(t, a) = apply(t, a) /\ Effect(Effect(t, a), b) = apply(apply(t, a), b)
    BY <1>3 DEF Effect
  <2>8. CASE isNoOp(k)
    <3>1. apply(t, k) = t
      BY <2>5, <2>6, <2>8, NoOpEffect DEF isNoOp
    <3>2. Effect(t, Null) = t
      BY DEF Effect
    <3> QED
      BY <2>3, <2>4, <2>5, <2>7, <2>8, <3>1, <3>2
  <2>9. CASE ~isNoOp(k)
    <3>1. Effect(t, k) = apply(t, k)
      BY <2>6 DEF Effect
    <3> QED
      BY <1>3, <2>3, <2>4, <2>5, <2>7, <2>9, <3>1
  <2> QED
    BY <2>8, <2>9
<1> QED
  BY <1>1, <1>2, <1>3

----------------------------------------------------------------------------
\* The inverse of an operation.

\* How far an operation has been inverted: its inverse so far, and how much of
\* the text it was applied to has been passed.
Undoing == [inv : Op, offset : Nat]

Back(v, k) == [inv |-> v, offset |-> k]

Undone(t, s, op) == FoldFn(undone(t), s, op)

InverseOf(t, op) == Undone(t, Back(<<>>, 0), op).inv

LEMMA InvertIs ==
    ASSUME NEW t, NEW op
    PROVE  Invert(op, t) = compact(InverseOf(t, op))
<1>1. FoldLeft(LAMBDA s, c : undone(t)[<<s, c>>], Back(<<>>, 0), op) = Undone(t, Back(<<>>, 0), op)
  BY FoldLeftIs DEF FoldLeft, MapThenFoldSet, FoldFn, Undone
<1> QED
  BY <1>1 DEF Invert, Back, InverseOf

LEMMA BackAt ==
    /\ \A v \in Op, k \in Nat : Back(v, k) \in Undoing /\ Back(v, k).inv = v /\ Back(v, k).offset = k
    /\ \A s \in Undoing : s = Back(s.inv, s.offset) /\ s.inv \in Op /\ s.offset \in Nat
BY DEF Back, Undoing

\* What the inverse of one component is.
Inverted(t, k, c) ==
    CASE c.type = "retain" -> c
      [] c.type = "insert" -> del(Len(c.text))
      [] c.type = "delete" -> insert(Cut(t, k, k + c.count))

LEMMA InvertingOne ==
    ASSUME NEW t \in Seq(Char), NEW v \in Op, NEW k \in Nat, NEW c \in Component
    PROVE  /\ Inverted(t, k, c) \in Component
           /\ undone(t)[<<Back(v, k), c>>] = Back(Append(v, Inverted(t, k, c)), k + Extent(c))
           /\ k + Extent(c) \in Nat /\ Append(v, Inverted(t, k, c)) \in Op
<1>1. undone(t)[<<Back(v, k), c>>] = Reverted(t, Back(v, k), c)
  <2>1. Back(v, k) \in [inv : Op, offset : Nat]
    BY DEF Back
  <2> QED
    BY <2>1 DEF undone
<1>2. Extent(c) \in Nat
  BY ExtentType
<1>3. CASE c.type = "retain" /\ c.count \in Nat /\ c = retain(c.count)
  <2>1. Inverted(t, k, c) = c /\ Extent(c) = c.count
    BY <1>3 DEF Inverted, Extent
  <2>2. Reverted(t, Back(v, k), c) = Back(Append(v, c), k + c.count)
    BY <1>3 DEF Reverted, Back
  <2> QED
    BY <1>1, <1>2, <2>1, <2>2 DEF Op
<1>4. CASE c.type = "insert" /\ c.text \in Seq(Char) /\ c = insert(c.text)
  <2>1. Inverted(t, k, c) = del(Len(c.text)) /\ Extent(c) = 0
    BY <1>4 DEF Inverted, Extent
  <2>2. Reverted(t, Back(v, k), c) = Back(Append(v, del(Len(c.text))), k)
    BY <1>4 DEF Reverted, Back
  <2>3. del(Len(c.text)) \in Component
    <3>1. Len(c.text) \in Nat
      BY <1>4, LenProperties
    <3> QED
      BY <3>1, Constructors
  <2>4. k + 0 = k
    OBVIOUS
  <2> QED
    BY <1>1, <1>2, <2>1, <2>2, <2>3, <2>4 DEF Op
<1>5. CASE c.type = "delete" /\ c.count \in Nat /\ c = del(c.count)
  <2> DEFINE n == c.count
             j == k + n
             x == Cut(t, k, j)
  <2>1. Inverted(t, k, c) = insert(x) /\ Extent(c) = n
    BY <1>5 DEF Inverted, Extent
  <2>2. Reverted(t, Back(v, k), c) = Back(Append(v, insert(x)), j)
    BY <1>5 DEF Reverted, Back, Cut
  <2>3. j \in Nat
    BY <1>5
  <2> HIDE DEF j
  <2>4. x \in Seq(Char)
    BY <2>3, CutProperties
  <2> HIDE DEF x
  <2>5. insert(x) \in Component
    BY <2>4, Constructors
  <2> QED
    BY <1>1, <1>2, <2>1, <2>2, <2>3, <2>5 DEF Op, j
<1> QED
  BY <1>3, <1>4, <1>5, Components

LEMMA UndoneType ==
    ASSUME NEW t \in Seq(Char), NEW s \in Undoing, NEW op \in Op
    PROVE  /\ Foldable(Undoing, Component, undone(t), s, op)
           /\ Undone(t, s, op) \in Undoing
<1>1. ASSUME NEW r \in Undoing, NEW c \in Component PROVE undone(t)[<<r, c>>] \in Undoing
  <2>1. r = Back(r.inv, r.offset) /\ r.inv \in Op /\ r.offset \in Nat
    BY BackAt
  <2>2. \A v \in Op, k \in Nat : undone(t)[<<Back(v, k), c>>] \in Undoing
    BY InvertingOne, BackAt
  <2> QED
    BY <2>1, <2>2
<1>2. \A p \in Undoing \X Component : \E s1 \in Undoing : \E c \in Component : p = <<s1, c>>
  OBVIOUS
<1>3. \A p \in Undoing \X Component : undone(t)[p] \in Undoing
  BY <1>1, <1>2
<1>4. undone(t) = [p \in Undoing \X Component |-> undone(t)[p]]
  BY DEF undone, Undoing
<1>5. undone(t) \in [Undoing \X Component -> Undoing]
  BY <1>3, <1>4
<1>6. Foldable(Undoing, Component, undone(t), s, op)
  BY <1>5 DEF Foldable, Op
<1> QED
  BY <1>6, FoldIn DEF Undone

\* Inverted from the place n on, an operation is inverted as on the rest of the text.
LEMMA InvertedRest ==
    ASSUME NEW t \in Seq(Char), NEW n \in Nat, NEW k \in Nat, NEW c \in Component
    PROVE  Inverted(t, n + k, c) = Inverted(Cut(t, n, Len(t)), k, c)
<1>1. CASE c.type = "retain" \/ c.type = "insert"
  BY <1>1 DEF Inverted
<1>2. CASE c.type = "delete" /\ c.count \in Nat
  <2> DEFINE j == k + c.count
  <2>1. (n + k) + c.count = n + j /\ j \in Nat
    BY <1>2
  <2>2. Inverted(t, n + k, c) = insert(Cut(t, n + k, (n + k) + c.count))
    BY <1>2 DEF Inverted
  <2>3. Inverted(Cut(t, n, Len(t)), k, c) = insert(Cut(Cut(t, n, Len(t)), k, j))
    BY <1>2 DEF Inverted
  <2> HIDE DEF j
  <2>4. Cut(Cut(t, n, Len(t)), k, j) = Cut(t, n + k, n + j)
    BY <2>1, CutOfRest
  <2> QED
    BY <2>1, <2>2, <2>3, <2>4
<1> QED
  BY <1>1, <1>2, Components

LEMMA UndoneRest ==
    ASSUME NEW t \in Seq(Char), NEW n \in Nat, NEW v \in Op, NEW op \in Op
    PROVE  LET f == Undone(Cut(t, n, Len(t)), Back(<<>>, 0), op)
           IN  Undone(t, Back(v, n), op) = Back(v \o f.inv, n + f.offset)
<1> DEFINE u == Cut(t, n, Len(t))
           f == Undone(u, Back(<<>>, 0), op)
<1>1. u \in Seq(Char) /\ <<>> \in Op
  BY CutProperties, EmptySeq DEF Op
<1>2. Back(<<>>, 0) \in Undoing /\ Back(v, n) \in Undoing
  BY <1>1, BackAt
<1> HIDE DEF u
<1>3. /\ Foldable(Undoing, Component, undone(u), Back(<<>>, 0), op)
      /\ Foldable(Undoing, Component, undone(t), Back(v, n), op)
  BY <1>1, <1>2, UndoneType
<1>4. PICK h \in [0..Len(op) -> Undoing] : Trace(h, undone(u), Back(<<>>, 0), op)
  BY <1>3, TraceExists
<1>5. Len(op) \in Nat /\ \A k \in 1..Len(op) : op[k] \in Component
  BY DEF Op
<1> DEFINE g == [k \in 0..Len(op) |-> Back(v \o h[k].inv, n + h[k].offset)]
<1>6. g[0] = Back(v, n)
  <2>1. g[0] = Back(v \o h[0].inv, n + h[0].offset)
    BY <1>5
  <2>2. h[0] = Back(<<>>, 0)
    BY <1>4 DEF Trace
  <2>3. h[0].inv = <<>> /\ h[0].offset = 0
    BY <2>2 DEF Back
  <2>4. v \o <<>> = v /\ n + 0 = n
    BY ConcatEmptySeq DEF Op
  <2> QED
    BY <2>1, <2>3, <2>4
<1>7. ASSUME NEW k \in 1..Len(op) PROVE g[k] = undone(t)[<<g[k - 1], op[k]>>]
  <2> DEFINE w == h[k - 1].inv
             i == h[k - 1].offset
             c == op[k]
             d == Inverted(u, i, c)
             e == Extent(c)
  <2>1. k \in 0..Len(op) /\ k - 1 \in 0..Len(op)
    BY <1>5
  <2>2. h[k - 1] \in Undoing /\ c \in Component
    BY <1>4, <1>5, <2>1
  <2>3. h[k - 1] = Back(w, i) /\ w \in Op /\ i \in Nat /\ e \in Nat
    BY <2>2, BackAt, ExtentType
  <2>4. h[k] = undone(u)[<<h[k - 1], c>>]
    BY <1>4 DEF Trace
  <2>5. g[k] = Back(v \o h[k].inv, n + h[k].offset) /\ g[k - 1] = Back(v \o w, n + i)
    BY <2>1
  <2> HIDE DEF g, w, i, c, e, d
  <2>6. d \in Component /\ h[k] = Back(Append(w, d), i + e)
    BY <1>1, <2>2, <2>3, <2>4, InvertingOne DEF d, e
  <2>7. v \o w \in Op /\ n + i \in Nat
    BY <2>3, ConcatProperties DEF Op
  <2> DEFINE vw == v \o w
             ni == n + i
  <2>8. Inverted(t, ni, c) = d
    BY <2>2, <2>3, InvertedRest DEF d, u
  <2> HIDE DEF vw, ni
  <2>9. undone(t)[<<Back(vw, ni), c>>] = Back(Append(vw, d), ni + e)
    BY <2>2, <2>7, <2>8, InvertingOne DEF vw, ni, e
  <2>10. Append(vw, d) = v \o Append(w, d)
    <3>1. \A x \in Op : Append(x, d) = x \o <<d>>
      BY <2>6, AppendIsConcat DEF Op
    <3>2. <<d>> \in Op
      BY <2>6 DEF Op
    <3>3. (v \o w) \o <<d>> = v \o (w \o <<d>>)
      <4>1. v \in Op /\ w \in Op /\ <<d>> \in Op
        BY <2>3, <3>2
      <4> QED
        BY <4>1, OpJoining
    <3> QED
      BY <2>3, <2>7, <3>1, <3>3 DEF vw
  <2>11. ni + e = n + (i + e)
    BY <2>3 DEF ni
  <2>12. h[k].inv = Append(w, d) /\ h[k].offset = i + e
    BY <2>6 DEF Back
  <2> QED
    BY <2>5, <2>9, <2>10, <2>11, <2>12 DEF vw, ni, c
<1>8. g[Len(op)] = Back(v \o h[Len(op)].inv, n + h[Len(op)].offset)
  BY <1>5
<1> HIDE DEF g
<1>9. Trace(g, undone(t), Back(v, n), op)
  BY <1>6, <1>7 DEF Trace
<1>10. Undone(t, Back(v, n), op) = g[Len(op)]
  BY <1>3, <1>9, FoldTrace DEF Undone
<1>11. f = h[Len(op)]
  BY <1>3, <1>4, FoldTrace DEF Undone
<1> QED
  BY <1>8, <1>10, <1>11 DEF u

\* InverseOf, one component at a time.
LEMMA InverseType ==
    ASSUME NEW t \in Seq(Char), NEW op \in Op
    PROVE  InverseOf(t, op) \in Op
<1>1. <<>> \in Op
  BY EmptySeq DEF Op
<1>2. Undone(t, Back(<<>>, 0), op) \in Undoing
  BY <1>1, UndoneType, BackAt
<1> QED
  BY <1>2, BackAt DEF InverseOf

LEMMA InverseNone ==
    ASSUME NEW t
    PROVE  InverseOf(t, <<>>) = <<>>
BY FoldEmpty DEF InverseOf, Undone, Back

LEMMA InverseFirst ==
    ASSUME NEW t \in Seq(Char), NEW c \in Component, NEW op \in Op
    PROVE  InverseOf(t, <<c>> \o op) =
               <<Inverted(t, 0, c)>> \o InverseOf(Cut(t, Extent(c), Len(t)), op)
<1> DEFINE d == Inverted(t, 0, c)
           e == Extent(c)
           f == Undone(Cut(t, e, Len(t)), Back(<<>>, 0), op)
<1>1. <<>> \in Op /\ 0 \in Nat
  BY EmptySeq DEF Op
<1>2. \A v \in Op, k \in Nat :
          /\ Inverted(t, k, c) \in Component
          /\ undone(t)[<<Back(v, k), c>>] = Back(Append(v, Inverted(t, k, c)), k + Extent(c))
  BY InvertingOne
<1>3. d \in Component /\ undone(t)[<<Back(<<>>, 0), c>>] = Back(Append(<<>>, d), 0 + e)
  BY <1>1, <1>2, Zenon
<1>4. e \in Nat
  BY ExtentType
<1> HIDE DEF d, e
<1>5. 0 + e = e /\ Append(<<>>, d) = <<d>> /\ <<d>> \in Op
  BY <1>3, <1>4 DEF Op
<1>6. Undone(t, Back(<<>>, 0), <<c>> \o op) = Undone(t, undone(t)[<<Back(<<>>, 0), c>>], op)
  <2>1. Back(<<>>, 0) \in Undoing
    BY <1>1, BackAt
  <2>2. Foldable(Undoing, Component, undone(t), Back(<<>>, 0), op)
    BY <2>1, UndoneType
  <2> QED
    BY <2>2, FoldCons DEF Undone
<1>7. Undone(t, Back(<<d>>, e), op) = Back(<<d>> \o f.inv, e + f.offset)
  BY <1>4, <1>5, UndoneRest
<1>8. Undone(t, Back(<<>>, 0), <<c>> \o op).inv = <<d>> \o f.inv
  <2>1. Undone(t, Back(<<>>, 0), <<c>> \o op) = Undone(t, Back(<<d>>, e), op)
    BY <1>3, <1>5, <1>6
  <2>2. \A v, k : Back(v, k).inv = v
    BY DEF Back
  <2> HIDE DEF f
  <2> QED
    BY <1>7, <2>1, <2>2
<1> QED
  BY <1>8 DEF InverseOf, d, e

\* The inverse takes the text back.
TakesBack(op) ==
    \A t \in Seq(Char) :
        Reach(op) <= Len(t) => apply(apply(t, op), InverseOf(t, op)) = t

LEMMA TakesBackFirst ==
    ASSUME NEW c \in Component, NEW w \in Op, TakesBack(w)
    PROVE  TakesBack(<<c>> \o w)
<1> DEFINE op == <<c>> \o w
           e == Extent(c)
<1>1. Reach(op) = e + Reach(w) /\ e \in Nat /\ Reach(w) \in Nat
  BY ReachLaws, ExtentType
<1> SUFFICES ASSUME NEW t \in Seq(Char), Reach(op) <= Len(t)
             PROVE  apply(apply(t, op), InverseOf(t, op)) = t
  BY DEF TakesBack
<1> DEFINE m == Len(t)
           a == Cut(t, 0, e)
           v == Cut(t, e, m)
           r == InverseOf(v, w)
           q == apply(v, w)
<1>2. m \in Nat /\ e <= m
  BY <1>1
<1>3. a \in Seq(Char) /\ Len(a) = e /\ v \in Seq(Char) /\ Len(v) = m - e /\ a \o v = t
  <2>1. a \in Seq(Char) /\ Len(a) = e /\ v \in Seq(Char) /\ Len(v) = m - e
    BY <1>1, <1>2, CutLength
  <2>2. a \o v = Cut(t, 0, m)
    <3> HIDE DEF e
    <3> QED
      BY <1>1, <1>2, CutJoin
  <2>3. Cut(t, 0, m) = t
    BY CutWhole
  <2> QED
    BY <2>1, <2>2, <2>3
<1>4. InverseOf(t, op) = <<Inverted(t, 0, c)>> \o r
  BY InverseFirst
<1> HIDE DEF m, e
<1>5. Reach(w) <= Len(v)
  <2>1. Reach(op) <= m
    BY DEF m
  <2> HIDE DEF op, v
  <2> QED
    BY <1>1, <1>2, <1>3, <2>1
<1>6. apply(q, r) = v
  BY <1>3, <1>5 DEF TakesBack
<1>7. r \in Op /\ q \in Seq(Char)
  BY <1>3, InverseType, ApplyType
<1>8. op = <<c>> \o w
  OBVIOUS
<1> HIDE DEF a, v, r, q, op
<1>9. CASE c.type = "retain" /\ c.count \in Nat /\ c = retain(c.count)
  <2>1. c = retain(e) /\ Inverted(t, 0, c) = retain(e)
    BY <1>9 DEF Inverted, Extent, e
  <2>2. apply(t, op) = a \o q
    <3>1. apply(t, <<retain(e)>> \o w) = Cut(t, 0, e) \o apply(Cut(t, e, Len(t)), w)
      BY <1>1, ApplyRetain
    <3> QED
      BY <1>8, <2>1, <3>1 DEF a, q, v, m
  <2>3. apply(a \o q, <<retain(e)>> \o r) = a \o apply(q, r)
    BY <1>3, <1>7, ApplyPast
  <2> QED
    BY <1>3, <1>4, <1>6, <2>1, <2>2, <2>3
<1>10. CASE c.type = "insert" /\ c.text \in Seq(Char) /\ c = insert(c.text)
  <2> DEFINE x == c.text
  <2>1. Inverted(t, 0, c) = del(Len(x)) /\ e = 0
    BY <1>10 DEF Inverted, Extent, e
  <2>2. v = t
    BY <2>1, CutWhole DEF v, m
  <2>3. apply(t, op) = x \o q
    <3>1. apply(t, <<insert(x)>> \o w) = x \o apply(t, w)
      BY <1>10, ApplyInsert
    <3> QED
      BY <1>8, <1>10, <2>2, <3>1 DEF q
  <2>4. apply(x \o q, <<del(Len(x))>> \o r) = apply(q, r)
    BY <1>7, <1>10, ApplyPast
  <2> QED
    BY <1>4, <1>6, <2>1, <2>2, <2>3, <2>4
<1>11. CASE c.type = "delete" /\ c.count \in Nat /\ c = del(c.count)
  <2>1. c = del(e) /\ Inverted(t, 0, c) = insert(a)
    <3>1. c = del(e) /\ Inverted(t, 0, c) = insert(Cut(t, 0, 0 + e))
      BY <1>11 DEF Inverted, Extent, e
    <3>2. 0 + e = e
      BY <1>1
    <3> QED
      BY <3>1, <3>2 DEF a
  <2>2. apply(t, op) = q
    <3>1. apply(t, <<del(e)>> \o w) = apply(Cut(t, e, Len(t)), w)
      BY <1>1, ApplyDelete
    <3> QED
      BY <1>8, <2>1, <3>1 DEF q, v, m
  <2>3. apply(q, <<insert(a)>> \o r) = a \o apply(q, r)
    BY <1>3, <1>7, ApplyInsert
  <2> QED
    BY <1>3, <1>4, <1>6, <2>1, <2>2, <2>3
<1> QED
  BY <1>9, <1>10, <1>11, Components

LEMMA TakesBackAll ==
    \A op \in Op : TakesBack(op)
<1> DEFINE S == {m \in Nat : \A op \in Op : Len(op) = m => TakesBack(op)}
<1>1. 0 \in S
  <2>1. \A op \in Op : Len(op) = 0 => op = <<>>
    BY EmptySeq DEF Op
  <2>2. TakesBack(<<>>)
    BY ApplyNone, InverseNone DEF TakesBack
  <2> QED
    BY <2>1, <2>2
<1>2. ASSUME NEW m \in Nat, m \in S PROVE m + 1 \in S
  <2>1. ASSUME NEW op \in Op, Len(op) = m + 1 PROVE TakesBack(op)
    <3>1. op # <<>>
      BY <2>1
    <3>2. /\ Head(op) \in Component /\ Tail(op) \in Op /\ op = <<Head(op)>> \o Tail(op)
          /\ Len(Tail(op)) \in Nat /\ Len(op) = Len(Tail(op)) + 1
      BY <3>1, HeadTail
    <3>3. Len(Tail(op)) = m
      BY <2>1, <3>2
    <3>4. TakesBack(Tail(op))
      BY <1>2, <3>2, <3>3
    <3>5. \A c \in Component, w \in Op : TakesBack(w) => TakesBack(<<c>> \o w)
      BY TakesBackFirst
    <3> QED
      BY <3>2, <3>4, <3>5
  <2> QED
    BY <2>1
<1> HIDE DEF S
<1>3. Nat \subseteq S
  BY <1>1, <1>2, Induction
<1>4. \A op \in Op : Len(op) \in Nat
  BY DEF Op
<1> QED
  BY <1>3, <1>4 DEF S

\* The inverse of an operation, applied to the text that the operation left,
\* restores the text it was applied to, for every text and every operation that
\* finds its characters in it (TextOtEngine.Invert, TextOtEngine.cs:150-187).
THEOREM InvertTakesBack ==
    ASSUME NEW t \in Seq(Char), NEW op \in Op, Reach(op) <= Len(t)
    PROVE  /\ Invert(op, t) \in Op /\ Compact(Invert(op, t))
           /\ apply(apply(t, op), Invert(op, t)) = t
<1>1. TakesBack(op)
  BY TakesBackAll
<1>2. apply(apply(t, op), InverseOf(t, op)) = t
  BY <1>1 DEF TakesBack
<1>3. InverseOf(t, op) \in Op /\ apply(t, op) \in Seq(Char)
  BY InverseType, ApplyType
<1>4. Invert(op, t) = compact(InverseOf(t, op))
  BY InvertIs
<1> QED
  BY <1>2, <1>3, <1>4, CompactEffect, CompactForm

----------------------------------------------------------------------------
\* The operation of an editor event.

\* The replacements of one event on a text of n characters: no two of them touch.
Event(n, E) ==
    /\ E \subseteq Change
    /\ \A c \in E : c.rangeOffset + c.rangeLength <= n
    /\ \A c, d \in E : c # d => \/ c.rangeOffset + c.rangeLength < d.rangeOffset
                                \/ d.rangeOffset + d.rangeLength < c.rangeOffset

LEMMA ChangeAt ==
    ASSUME NEW c \in Change
    PROVE  /\ c.rangeOffset \in Nat /\ c.rangeLength \in Nat /\ c.text \in Seq(Char)
           /\ c.rangeOffset + c.rangeLength \in Nat
BY DEF Change

\* The replacements of an event are as many as their places, which are finitely many.
LEMMA EventFinite ==
    ASSUME NEW n \in Nat, NEW E, Event(n, E)
    PROVE  IsFiniteSet(E)
<1> DEFINE f == [c \in E |-> c.rangeOffset]
<1>1. ASSUME NEW c \in E PROVE c.rangeOffset \in 0..n
  <2>1. c \in Change /\ c.rangeOffset + c.rangeLength <= n
    BY DEF Event
  <2> QED
    BY <2>1, ChangeAt
<1>2. ASSUME NEW c \in E, NEW d \in E, c.rangeOffset = d.rangeOffset PROVE c = d
  <2>1. c \in Change /\ d \in Change
    BY DEF Event
  <2>2. ~(c.rangeOffset + c.rangeLength < d.rangeOffset) /\ ~(d.rangeOffset + d.rangeLength < c.rangeOffset)
    BY <1>2, <2>1, ChangeAt
  <2> QED
    BY <2>2 DEF Event
<1>3. f \in Injection(E, 0..n)
  BY <1>1, <1>2 DEF Injection, IsInjective
<1>4. IsFiniteSet(0..n)
  BY FS_Interval
<1> QED
  BY <1>3, <1>4, FS_Injection

LEMMA EventPart ==
    ASSUME NEW n \in Nat, NEW E, Event(n, E), NEW T \in SUBSET E
    PROVE  Event(n, T)
BY DEF Event

\* The last replacement of an event.
LEMMA EventLast ==
    ASSUME NEW n \in Nat, NEW E, Event(n, E), E # {}
    PROVE  \E c \in E : \A d \in E \ {c} : d.rangeOffset < c.rangeOffset
<1> DEFINE O == {c.rangeOffset : c \in E}
<1>1. \A c \in E : c \in Change /\ c.rangeOffset + c.rangeLength <= n
  BY DEF Event
<1>2. \A c \in E : c.rangeOffset \in 0..n
  BY <1>1, ChangeAt
<1>3. O \in SUBSET (0..n) /\ O # {}
  BY <1>2
<1>4. Max(O) \in O /\ \A o \in O : o <= Max(O)
  BY <1>3, Greatest
<1>5. PICK c \in E : Max(O) = c.rangeOffset
  <2>1. \A o \in O : \E c \in E : o = c.rangeOffset
    OBVIOUS
  <2> HIDE DEF O
  <2> QED
    BY <1>4, <2>1
<1>6. ASSUME NEW d \in E \ {c} PROVE d.rangeOffset < c.rangeOffset
  <2>1. d.rangeOffset <= c.rangeOffset
    BY <1>4, <1>5
  <2>2. c \in Change /\ d \in Change
    BY <1>1
  <2>3. \/ c.rangeOffset + c.rangeLength < d.rangeOffset
        \/ d.rangeOffset + d.rangeLength < c.rangeOffset
    BY DEF Event
  <2> QED
    BY <2>1, <2>2, <2>3, ChangeAt
<1> QED
  BY <1>6

InOrder(s) == \A i, j \in DOMAIN s : i < j => s[i].rangeOffset < s[j].rangeOffset

LEMMA SortedExists ==
    ASSUME NEW n \in Nat
    PROVE  \A E : Event(n, E) => \E s \in [1..Cardinality(E) -> E] : InOrder(s)
<1> DEFINE S == {m \in Nat : \A E : Event(n, E) /\ Cardinality(E) = m =>
                                 \E s \in [1..m -> E] : InOrder(s)}
<1>1. 0 \in S
  <2>1. ASSUME NEW E, Event(n, E), Cardinality(E) = 0 PROVE \E s \in [1..0 -> E] : InOrder(s)
    <3>1. E = {} /\ 1..0 = {}
      BY <2>1, EventFinite, FS_EmptySet
    <3>2. [i \in {} |-> i] \in [1..0 -> E] /\ InOrder([i \in {} |-> i])
      BY <3>1 DEF InOrder
    <3> QED
      BY <3>2
  <2> QED
    BY <2>1
<1>2. ASSUME NEW m \in Nat, m \in S PROVE m + 1 \in S
  <2>1. ASSUME NEW E, Event(n, E), Cardinality(E) = m + 1
        PROVE  \E s \in [1..(m + 1) -> E] : InOrder(s)
    <3>1. IsFiniteSet(E) /\ E # {}
      BY <2>1, EventFinite, FS_EmptySet
    <3>2. PICK c \in E : \A d \in E \ {c} : d.rangeOffset < c.rangeOffset
      BY <2>1, <3>1, EventLast
    <3> DEFINE T == E \ {c}
    <3>3. Event(n, T) /\ Cardinality(T) = m
      <4>1. Cardinality(T) = Cardinality(E) - 1
        BY <3>1, FS_RemoveElement
      <4>2. Event(n, T)
        BY <2>1, EventPart
      <4> QED
        BY <2>1, <4>1, <4>2
    <3>4. PICK r \in [1..m -> T] : InOrder(r)
      BY <1>2, <3>3
    <3> DEFINE s == [i \in 1..(m + 1) |-> IF i = m + 1 THEN c ELSE r[i]]
    <3>5. \A i \in 1..(m + 1) : i # m + 1 => i \in 1..m
      OBVIOUS
    <3>6. s \in [1..(m + 1) -> E]
      BY <3>5
    <3>7. ASSUME NEW i \in 1..(m + 1), NEW j \in 1..(m + 1), i < j
          PROVE  s[i].rangeOffset < s[j].rangeOffset
      <4>1. i \in 1..m /\ s[i] = r[i]
        BY <3>7
      <4>2. CASE j = m + 1
        BY <3>2, <4>1, <4>2
      <4>3. CASE j # m + 1
        <5>1. j \in 1..m /\ s[j] = r[j]
          BY <4>3
        <5> QED
          BY <3>4, <3>7, <4>1, <5>1 DEF InOrder
      <4> QED
        BY <4>2, <4>3
    <3>8. InOrder(s)
      BY <3>7 DEF InOrder
    <3> QED
      BY <3>6, <3>8
  <2> QED
    BY <2>1
<1> HIDE DEF S
<1>3. Nat \subseteq S
  BY <1>1, <1>2, Induction
<1>4. \A E : Event(n, E) => Cardinality(E) \in Nat
  BY EventFinite, FS_CardinalityType
<1> QED
  BY <1>3, <1>4 DEF S

\* Replacements in the order of their places, from the place k of a text of n
\* characters on.
Placed(k, n, s) ==
    /\ s \in Seq(Change)
    /\ \A i \in DOMAIN s : k <= s[i].rangeOffset /\ s[i].rangeOffset + s[i].rangeLength <= n
    /\ \A i, j \in DOMAIN s : i < j => s[i].rangeOffset + s[i].rangeLength <= s[j].rangeOffset

LEMMA SortedPlaced ==
    ASSUME NEW n \in Nat, NEW E, Event(n, E)
    PROVE  Placed(0, n, sorted(E))
<1> DEFINE s == sorted(E)
           m == Cardinality(E)
<1>1. m \in Nat
  BY EventFinite, FS_CardinalityType
<1>2. PICK r \in [1..m -> E] : InOrder(r)
  BY SortedExists
<1>3. r \in SetToSeqs(E)
  <2>1. ASSUME NEW i \in 1..m, NEW j \in 1..m, i # j PROVE r[i] # r[j]
    <3>1. r[i] \in Change /\ r[j] \in Change
      BY DEF Event
    <3>2. r[i].rangeOffset < r[j].rangeOffset \/ r[j].rangeOffset < r[i].rangeOffset
      BY <1>1, <1>2, <2>1 DEF InOrder
    <3> QED
      BY <3>1, <3>2, ChangeAt
  <2> QED
    BY <1>2, <2>1 DEF SetToSeqs
<1>4. s \in SetToSeqs(E) /\ InOrder(s)
  BY <1>2, <1>3 DEF sorted, InOrder
<1>5. s \in [1..m -> E]
  BY <1>4 DEF SetToSeqs
<1> HIDE DEF s, m
<1>6. \A i \in DOMAIN s : s[i] \in E /\ s[i] \in Change
  BY <1>5 DEF Event
<1>7. s \in Seq(Change)
  <2>1. s \in [1..m -> Change]
    BY <1>5, <1>6
  <2> QED
    BY <1>1, <2>1
<1>8. ASSUME NEW i \in DOMAIN s
      PROVE  0 <= s[i].rangeOffset /\ s[i].rangeOffset + s[i].rangeLength <= n
  <2>1. s[i].rangeOffset \in Nat
    BY <1>6, ChangeAt
  <2> QED
    BY <1>6, <2>1 DEF Event
<1>9. ASSUME NEW i \in DOMAIN s, NEW j \in DOMAIN s, i < j
      PROVE  s[i].rangeOffset + s[i].rangeLength <= s[j].rangeOffset
  <2> DEFINE c == s[i]
             d == s[j]
  <2>1. c \in E /\ d \in E /\ c \in Change /\ d \in Change /\ c.rangeOffset < d.rangeOffset
    BY <1>4, <1>6, <1>9 DEF InOrder
  <2> HIDE DEF c, d
  <2>2. /\ c.rangeOffset \in Nat /\ c.rangeLength \in Nat
        /\ d.rangeOffset \in Nat /\ d.rangeLength \in Nat
    BY <2>1, ChangeAt
  <2>3. c # d
    BY <2>1, <2>2
  <2>4. \/ c.rangeOffset + c.rangeLength < d.rangeOffset
        \/ d.rangeOffset + d.rangeLength < c.rangeOffset
    BY <2>1, <2>3 DEF Event
  <2>5. c.rangeOffset + c.rangeLength <= d.rangeOffset
    BY <2>1, <2>2, <2>4
  <2> QED
    BY <2>5 DEF c, d
<1> QED
  BY <1>7, <1>8, <1>9 DEF Placed, s

To(v, k) == [comps |-> v, pos |-> k]

\* The components of the replacements s, from the place k of the text on.
Gathered(k, s) == FoldFn(swept, To(<<>>, k), s).comps

\* Those of the replacement c alone.
Gap(k, c) == IF c.rangeOffset > k THEN <<retain(c.rangeOffset - k)>> ELSE <<>>
Part(k, c) == Gap(k, c) \o <<del(c.rangeLength), insert(c.text)>>
End(c) == c.rangeOffset + c.rangeLength

LEMMA MonacoIs ==
    ASSUME NEW E
    PROVE  fromMonacoChanges(E) = compact(Gathered(0, sorted(E)))
<1>1. FoldLeft(LAMBDA s, c : swept[<<s, c>>], To(<<>>, 0), sorted(E)) = FoldFn(swept, To(<<>>, 0), sorted(E))
  BY FoldLeftIs DEF FoldLeft, MapThenFoldSet, FoldFn
<1> QED
  BY <1>1 DEF fromMonacoChanges, To, Gathered

LEMMA ToAt ==
    /\ \A v \in Op, k \in Nat : To(v, k) \in Sweep /\ To(v, k).comps = v /\ To(v, k).pos = k
    /\ \A s \in Sweep : s = To(s.comps, s.pos) /\ s.comps \in Op /\ s.pos \in Nat
BY DEF To, Sweep

LEMMA PartType ==
    ASSUME NEW k \in Nat, NEW c \in Change
    PROVE  /\ Gap(k, c) \in Op /\ Part(k, c) \in Op /\ End(c) \in Nat
           /\ Part(k, c) = Gap(k, c) \o (<<del(c.rangeLength)>> \o <<insert(c.text)>>)
<1>1. /\ c.rangeOffset \in Nat /\ c.rangeLength \in Nat /\ c.text \in Seq(Char)
      /\ End(c) \in Nat
  BY ChangeAt DEF End
<1>2. Gap(k, c) \in Op
  <2>1. CASE c.rangeOffset > k
    <3>1. c.rangeOffset - k \in Nat
      BY <1>1, <2>1
    <3>2. retain(c.rangeOffset - k) \in Component
      BY <3>1, Constructors
    <3> QED
      BY <2>1, <3>2 DEF Gap, Op
  <2>2. CASE ~(c.rangeOffset > k)
    BY <2>2, EmptySeq DEF Gap, Op
  <2> QED
    BY <2>1, <2>2
<1>3. del(c.rangeLength) \in Component /\ insert(c.text) \in Component
  BY <1>1, Constructors
<1>4. <<del(c.rangeLength), insert(c.text)>> \in Op
  BY <1>3 DEF Op
<1>5. <<del(c.rangeLength), insert(c.text)>> = <<del(c.rangeLength)>> \o <<insert(c.text)>>
  OBVIOUS
<1> QED
  BY <1>1, <1>2, <1>4, <1>5, OpJoining DEF Part

LEMMA SweepingOne ==
    ASSUME NEW v \in Op, NEW k \in Nat, NEW c \in Change
    PROVE  swept[<<To(v, k), c>>] = To(v \o Part(k, c), End(c))
<1>1. To(v, k) \in Sweep /\ To(v, k).comps = v /\ To(v, k).pos = k
  BY ToAt
<1>2. swept[<<To(v, k), c>>] = Swept(To(v, k), c)
  BY <1>1 DEF swept
<1> DEFINE g == Gap(k, c)
           d == <<del(c.rangeLength), insert(c.text)>>
<1>3. Swept(To(v, k), c) = To((v \o g) \o d, End(c))
  BY <1>1 DEF Swept, To, Gap, End
<1>4. g \in Op /\ d \in Op
  <2>1. del(c.rangeLength) \in Component /\ insert(c.text) \in Component
    BY ChangeAt, Constructors
  <2>2. d \in Op
    BY <2>1 DEF Op
  <2>3. g \in Op
    BY PartType
  <2> QED
    BY <2>2, <2>3
<1>5. Part(k, c) = g \o d
  BY DEF Part
<1> HIDE DEF g, d
<1>6. (v \o g) \o d = v \o (g \o d)
  BY <1>4, OpJoining
<1> QED
  BY <1>2, <1>3, <1>5, <1>6

LEMMA SweepType ==
    ASSUME NEW s \in Sweep, NEW q \in Seq(Change)
    PROVE  /\ Foldable(Sweep, Change, swept, s, q)
           /\ FoldFn(swept, s, q) \in Sweep
<1>1. ASSUME NEW r \in Sweep, NEW c \in Change PROVE swept[<<r, c>>] \in Sweep
  <2>1. r = To(r.comps, r.pos) /\ r.comps \in Op /\ r.pos \in Nat
    BY ToAt
  <2>2. swept[<<r, c>>] = To(r.comps \o Part(r.pos, c), End(c))
    BY <2>1, SweepingOne
  <2>3. r.comps \o Part(r.pos, c) \in Op /\ End(c) \in Nat
    BY <2>1, PartType, OpJoining
  <2> QED
    BY <2>2, <2>3, ToAt
<1>2. \A p \in Sweep \X Change : \E s1 \in Sweep : \E c \in Change : p = <<s1, c>>
  OBVIOUS
<1>3. \A p \in Sweep \X Change : swept[p] \in Sweep
  BY <1>1, <1>2
<1>4. swept = [p \in Sweep \X Change |-> swept[p]]
  BY DEF swept
<1>5. swept \in [Sweep \X Change -> Sweep]
  BY <1>3, <1>4
<1>6. Foldable(Sweep, Change, swept, s, q)
  BY <1>5 DEF Foldable
<1> QED
  BY <1>6, FoldIn

LEMMA GatheredType ==
    ASSUME NEW k \in Nat, NEW s \in Seq(Change)
    PROVE  Gathered(k, s) \in Op
<1>1. <<>> \in Op
  BY EmptySeq DEF Op
<1> QED
  BY <1>1, SweepType, ToAt DEF Gathered

LEMMA ChangesHeadTail ==
    ASSUME NEW s \in Seq(Change), s # <<>>
    PROVE  /\ Head(s) \in Change /\ Tail(s) \in Seq(Change) /\ s = <<Head(s)>> \o Tail(s)
           /\ Len(s) \in Nat /\ Len(Tail(s)) \in Nat /\ Len(s) = Len(Tail(s)) + 1
           /\ Head(s) = s[1] /\ \A i \in 1..Len(Tail(s)) : Tail(s)[i] = s[i + 1]
<1>1. Len(s) \in Nat /\ Len(s) > 0
  OBVIOUS
<1>2. Head(s) \in Change /\ Tail(s) \in Seq(Change) /\ Len(Tail(s)) = Len(s) - 1
  OBVIOUS
<1>3. s = <<Head(s)>> \o Tail(s)
  OBVIOUS
<1> QED
  BY <1>1, <1>2, <1>3

\* What is in front of the swept replacements stays there.
LEMMA SweepPast ==
    \A s \in Seq(Change) : \A v \in Op, k \in Nat : FoldFn(swept, To(v, k), s).comps = v \o Gathered(k, s)
<1> DEFINE P(s) == \A v \in Op, k \in Nat : FoldFn(swept, To(v, k), s).comps = v \o Gathered(k, s)
           S == {m \in Nat : \A s \in Seq(Change) : Len(s) = m => P(s)}
<1>1. 0 \in S
  <2>1. \A s \in Seq(Change) : Len(s) = 0 => s = <<>>
    BY EmptySeq
  <2>2. ASSUME NEW v \in Op, NEW k \in Nat
        PROVE  FoldFn(swept, To(v, k), <<>>).comps = v \o Gathered(k, <<>>)
    <3>1. FoldFn(swept, To(v, k), <<>>) = To(v, k) /\ FoldFn(swept, To(<<>>, k), <<>>) = To(<<>>, k)
      BY FoldEmpty
    <3>2. v \o <<>> = v
      BY ConcatEmptySeq DEF Op
    <3>3. \A w : To(w, k).comps = w
      BY DEF To
    <3>4. FoldFn(swept, To(v, k), <<>>).comps = v /\ Gathered(k, <<>>) = <<>>
      BY <3>1, <3>3 DEF Gathered
    <3> QED
      BY <3>2, <3>4
  <2> QED
    BY <2>1, <2>2
<1>2. ASSUME NEW m \in Nat, m \in S PROVE m + 1 \in S
  <2>1. ASSUME NEW s \in Seq(Change), Len(s) = m + 1, NEW v \in Op, NEW k \in Nat
        PROVE  FoldFn(swept, To(v, k), s).comps = v \o Gathered(k, s)
    <3> DEFINE c == Head(s)
               r == Tail(s)
               p == Part(k, c)
               e == End(c)
    <3>1. s # <<>>
      BY <2>1
    <3>2. c \in Change /\ r \in Seq(Change) /\ s = <<c>> \o r /\ Len(r) = m
      BY <2>1, <3>1, ChangesHeadTail
    <3> HIDE DEF c, r
    <3>3. p \in Op /\ e \in Nat /\ <<>> \in Op
      BY <3>2, PartType, EmptySeq DEF Op
    <3>4. \A w \in Op : FoldFn(swept, To(w, k), s).comps = (w \o p) \o Gathered(e, r)
      <4> TAKE w \in Op
      <4>1. Foldable(Sweep, Change, swept, To(w, k), r)
        BY <3>2, SweepType, ToAt
      <4>2. FoldFn(swept, To(w, k), <<c>> \o r) = FoldFn(swept, swept[<<To(w, k), c>>], r)
        BY <3>2, <4>1, FoldCons
      <4>3. swept[<<To(w, k), c>>] = To(w \o p, e)
        BY <3>2, SweepingOne
      <4>4. P(r)
        BY <1>2, <3>2
      <4>5. w \o p \in Op
        BY <3>3, OpJoining
      <4> HIDE DEF p, e
      <4> QED
        BY <3>2, <3>3, <4>2, <4>3, <4>4, <4>5
    <3> HIDE DEF p, e
    <3>5. Gathered(k, s) = (<<>> \o p) \o Gathered(e, r)
      BY <3>3, <3>4 DEF Gathered
    <3>6. <<>> \o p = p
      BY <3>3, ConcatEmptySeq DEF Op
    <3>7. Gathered(e, r) \in Op
      BY <3>2, <3>3, GatheredType
    <3>8. (v \o p) \o Gathered(e, r) = v \o (p \o Gathered(e, r))
      BY <3>3, <3>7, OpJoining
    <3>9. Gathered(k, s) = p \o Gathered(e, r)
      BY <3>5, <3>6
    <3> QED
      BY <3>4, <3>8, <3>9
  <2> QED
    BY <2>1
<1> HIDE DEF S
<1>3. Nat \subseteq S
  BY <1>1, <1>2, Induction
<1>4. \A s \in Seq(Change) : Len(s) \in Nat
  OBVIOUS
<1> QED
  BY <1>3, <1>4 DEF S

LEMMA GatheredFirst ==
    ASSUME NEW k \in Nat, NEW c \in Change, NEW s \in Seq(Change)
    PROVE  Gathered(k, <<c>> \o s) = Part(k, c) \o Gathered(End(c), s)
<1>1. <<>> \in Op
  BY EmptySeq DEF Op
<1>2. Foldable(Sweep, Change, swept, To(<<>>, k), s)
  BY <1>1, SweepType, ToAt
<1>3. FoldFn(swept, To(<<>>, k), <<c>> \o s) = FoldFn(swept, swept[<<To(<<>>, k), c>>], s)
  BY <1>2, FoldCons
<1>4. \A v \in Op : swept[<<To(v, k), c>>] = To(v \o Part(k, c), End(c))
  BY SweepingOne
<1> DEFINE p == Part(k, c)
<1>5. p \in Op /\ End(c) \in Nat
  BY PartType
<1> HIDE DEF p
<1>6. <<>> \o p = p
  BY <1>5, ConcatEmptySeq DEF Op
<1>7. swept[<<To(<<>>, k), c>>] = To(p, End(c))
  <2>1. swept[<<To(<<>>, k), c>>] = To(<<>> \o p, End(c))
    BY <1>1, <1>4 DEF p
  <2> QED
    BY <1>6, <2>1
<1>8. FoldFn(swept, To(p, End(c)), s).comps = p \o Gathered(End(c), s)
  BY <1>5, SweepPast
<1> QED
  BY <1>3, <1>7, <1>8 DEF Gathered, p

LEMMA JoiningFour ==
    ASSUME NEW x \in Op, NEW y \in Op, NEW z \in Op, NEW w \in Op
    PROVE  (x \o (y \o z)) \o w = x \o (y \o (z \o w))
<1> DEFINE yz == y \o z
<1>1. yz \in Op /\ z \o w \in Op
  BY OpClosed
<1>2. yz \o w = y \o (z \o w)
  BY OpAssociative
<1>3. y \o (z \o w) \in Op
  BY <1>1, OpClosed
<1> HIDE DEF yz
<1>4. (x \o yz) \o w = x \o (yz \o w)
  BY <1>1, OpAssociative, SMTT(30)
<1> QED
  BY <1>1, <1>2, <1>3, <1>4 DEF yz

LEMMA PartJoined ==
    ASSUME NEW k \in Nat, NEW c \in Change, NEW op \in Op
    PROVE  /\ Part(k, c) \o op = Gap(k, c) \o (<<del(c.rangeLength)>> \o (<<insert(c.text)>> \o op))
           /\ <<insert(c.text)>> \o op \in Op
           /\ <<del(c.rangeLength)>> \o (<<insert(c.text)>> \o op) \in Op
<1> DEFINE g == Gap(k, c)
           d == <<del(c.rangeLength)>>
           i == <<insert(c.text)>>
<1>1. g \in Op /\ d \in Op /\ i \in Op
  <2>1. del(c.rangeLength) \in Component /\ insert(c.text) \in Component
    BY ChangeAt, Constructors
  <2>2. d \in Op /\ i \in Op
    BY <2>1 DEF Op
  <2> QED
    BY <2>2, PartType
<1>2. Part(k, c) = g \o (d \o i)
  BY PartType
<1> HIDE DEF g, d, i
<1>3. (g \o (d \o i)) \o op = g \o (d \o (i \o op))
  <2>1. \A x, y, z, w \in Op : (x \o (y \o z)) \o w = x \o (y \o (z \o w))
    BY JoiningFour
  <2>2. op \in Op
    OBVIOUS
  <2>3. \A y, z, w \in Op : (g \o (y \o z)) \o w = g \o (y \o (z \o w))
    BY <1>1, <2>1
  <2>4. \A z, w \in Op : (g \o (d \o z)) \o w = g \o (d \o (z \o w))
    BY <1>1, <2>3
  <2>5. \A w \in Op : (g \o (d \o i)) \o w = g \o (d \o (i \o w))
    BY <1>1, <2>4
  <2> QED
    BY <2>2, <2>5
<1>4. i \o op \in Op /\ d \o (i \o op) \in Op
  BY <1>1, OpClosed
<1> QED
  BY <1>2, <1>3, <1>4 DEF g, d, i

\* What the components of one replacement find and do in the text from the place k on.
LEMMA PartReach ==
    ASSUME NEW k \in Nat, NEW c \in Change, k <= c.rangeOffset, NEW op \in Op
    PROVE  Reach(Part(k, c) \o op) = (End(c) - k) + Reach(op)
<1> DEFINE i == <<insert(c.text)>> \o op
           d == <<del(c.rangeLength)>> \o i
           o == c.rangeOffset
           l == c.rangeLength
<1>1. Part(k, c) \o op = Gap(k, c) \o d /\ i \in Op /\ d \in Op
  BY PartJoined
<1>2. o \in Nat /\ l \in Nat /\ c.text \in Seq(Char) /\ Reach(op) \in Nat /\ End(c) = o + l
  BY ChangeAt, ReachLaws DEF End
<1>3. Reach(i) = Reach(op)
  <2>1. insert(c.text) \in Component /\ Extent(insert(c.text)) = 0
    BY <1>2, Constructors DEF Extent, insert
  <2>2. Reach(i) = 0 + Reach(op)
    BY <2>1, ReachLaws
  <2> QED
    BY <1>2, <2>2
<1>4. Reach(d) = l + Reach(op)
  <2>1. del(l) \in Component /\ Extent(del(l)) = l
    BY <1>2, Constructors DEF Extent, del
  <2> HIDE DEF i
  <2>2. Reach(d) = l + Reach(i)
    BY <1>1, <2>1, ReachLaws
  <2> QED
    BY <1>3, <2>2
<1> HIDE DEF d
<1>5. CASE o > k
  <2>1. o - k \in Nat
    BY <1>2, <1>5
  <2>2. Gap(k, c) = <<retain(o - k)>>
    BY <1>5 DEF Gap
  <2>3. retain(o - k) \in Component /\ Extent(retain(o - k)) = o - k
    BY <2>1, Constructors DEF Extent, retain
  <2>4. Reach(<<retain(o - k)>> \o d) = (o - k) + Reach(d)
    BY <1>1, <2>3, ReachLaws
  <2>5. Reach(Part(k, c) \o op) = (o - k) + (l + Reach(op))
    BY <1>1, <1>4, <2>2, <2>4
  <2> HIDE DEF o, l
  <2> QED
    BY <1>2, <2>5
<1>6. CASE ~(o > k)
  <2>1. o = k
    BY <1>2, <1>6
  <2>2. Gap(k, c) = <<>> /\ <<>> \o d = d
    BY <1>1, <1>6, ConcatEmptySeq DEF Gap, Op
  <2>3. Reach(Part(k, c) \o op) = l + Reach(op)
    BY <1>1, <1>4, <2>2
  <2> HIDE DEF o, l
  <2> QED
    BY <1>2, <2>1, <2>3
<1> QED
  BY <1>5, <1>6

LEMMA PartEffect ==
    ASSUME NEW t \in Seq(Char), NEW k \in Nat, NEW c \in Change, k <= c.rangeOffset, NEW op \in Op
    PROVE  apply(Cut(t, k, Len(t)), Part(k, c) \o op) =
               Cut(t, k, c.rangeOffset) \o (c.text \o apply(Cut(t, End(c), Len(t)), op))
<1> DEFINE i == <<insert(c.text)>> \o op
           d == <<del(c.rangeLength)>> \o i
           o == c.rangeOffset
           l == c.rangeLength
           n == Len(t)
           u == Cut(t, k, n)
           w == Cut(t, o, n)
           v == Cut(t, End(c), n)
<1>1. Part(k, c) \o op = Gap(k, c) \o d /\ i \in Op /\ d \in Op
  BY PartJoined
<1>2. o \in Nat /\ l \in Nat /\ c.text \in Seq(Char) /\ End(c) = o + l /\ End(c) \in Nat
  BY ChangeAt DEF End
<1>3. n \in Nat /\ u \in Seq(Char) /\ w \in Seq(Char) /\ v \in Seq(Char)
  BY <1>2, CutProperties
<1>4. apply(v, i) = c.text \o apply(v, op)
  BY <1>2, <1>3, ApplyInsert
<1>5. apply(w, d) = c.text \o apply(v, op)
  <2> HIDE DEF i, w, v
  <2>1. apply(w, d) = apply(Cut(w, l, Len(w)), i)
    BY <1>1, <1>2, <1>3, ApplyDelete
  <2>2. Cut(w, l, Len(w)) = v
    <3>1. \A m, j \in Nat : LET x == Cut(t, m, Len(t)) IN Cut(x, j, Len(x)) = Cut(t, m + j, Len(t))
      BY CutRest
    <3>2. Cut(w, l, Len(w)) = Cut(t, o + l, n)
      BY <1>2, <3>1 DEF w
    <3> QED
      BY <1>2, <3>2 DEF v
  <2> QED
    BY <1>4, <2>1, <2>2
<1> HIDE DEF d, w, u, v
<1>6. CASE o > k
  <2> DEFINE m == o - k
  <2>1. m \in Nat /\ k + m = o /\ k + 0 = k
    BY <1>2, <1>6
  <2>2. Gap(k, c) = <<retain(m)>>
    BY <1>6 DEF Gap
  <2> HIDE DEF m
  <2>3. apply(u, <<retain(m)>> \o d) = Cut(u, 0, m) \o apply(Cut(u, m, Len(u)), d)
    BY <1>1, <1>3, <2>1, ApplyRetain
  <2>4. Cut(u, 0, m) = Cut(t, k, o)
    <3>1. Cut(Cut(t, k, Len(t)), 0, m) = Cut(t, k + 0, k + m)
      BY <2>1, CutOfRest
    <3> QED
      BY <2>1, <3>1 DEF u
  <2>5. Cut(u, m, Len(u)) = w
    BY <2>1, CutRest DEF u, w
  <2> QED
    BY <1>1, <1>5, <2>2, <2>3, <2>4, <2>5 DEF u, v
<1>7. CASE ~(o > k)
  <2>1. o = k
    BY <1>2, <1>7
  <2>2. Gap(k, c) = <<>> /\ <<>> \o d = d
    BY <1>1, <1>7, ConcatEmptySeq DEF Gap, Op
  <2>3. u = w
    BY <2>1 DEF u, w
  <2>4. Cut(t, k, o) = <<>>
    <3>1. Cut(t, k, k) \in Seq(Char) /\ Len(Cut(t, k, k)) = IF k < Least(k, n) THEN Least(k, n) - k ELSE 0
      BY CutProperties
    <3>2. ~(k < Least(k, n))
      BY <1>3 DEF Least
    <3>3. Len(Cut(t, k, k)) = 0
      BY <3>1, <3>2
    <3> QED
      BY <2>1, <3>1, <3>3, EmptySeq
  <2>5. c.text \o apply(v, op) \in Seq(Char)
    BY <1>2, <1>3, ApplyType, Joining
  <2>6. <<>> \o (c.text \o apply(v, op)) = c.text \o apply(v, op)
    BY <2>5, ConcatEmptySeq
  <2> QED
    BY <1>1, <1>5, <2>2, <2>3, <2>4, <2>6 DEF u, v
<1> QED
  BY <1>6, <1>7

\* The replacements of an ordered sequence, the first one and the others.
LEMMA PlacedFirst ==
    ASSUME NEW k \in Nat, NEW n \in Nat, NEW s, Placed(k, n, s), s # <<>>
    PROVE  LET c == Head(s)
               r == Tail(s)
           IN  /\ c \in Change /\ r \in Seq(Change) /\ s = <<c>> \o r
               /\ Len(s) \in Nat /\ Len(r) \in Nat /\ Len(s) = Len(r) + 1
               /\ k <= c.rangeOffset /\ End(c) \in Nat /\ End(c) <= n
               /\ Placed(End(c), n, r)
<1> DEFINE c == Head(s)
           r == Tail(s)
<1>1. s \in Seq(Change)
  BY DEF Placed
<1>2. /\ c \in Change /\ r \in Seq(Change) /\ s = <<c>> \o r
      /\ Len(s) \in Nat /\ Len(r) \in Nat /\ Len(s) = Len(r) + 1
      /\ c = s[1] /\ \A i \in 1..Len(r) : r[i] = s[i + 1]
  BY <1>1, ChangesHeadTail
<1>3. DOMAIN s = 1..Len(s) /\ DOMAIN r = 1..Len(r)
  BY <1>1, <1>2
<1> HIDE DEF c, r
<1>4. 1 \in DOMAIN s /\ \A i \in DOMAIN r : i + 1 \in DOMAIN s /\ 1 < i + 1 /\ i \in Nat
  BY <1>2, <1>3
<1>5. k <= c.rangeOffset /\ c.rangeOffset + c.rangeLength <= n
  BY <1>2, <1>4 DEF Placed
<1>6. ASSUME NEW i \in DOMAIN r
      PROVE  End(c) <= r[i].rangeOffset /\ r[i].rangeOffset + r[i].rangeLength <= n
  BY <1>2, <1>3, <1>4 DEF Placed, End
<1>7. ASSUME NEW i \in DOMAIN r, NEW j \in DOMAIN r, i < j
      PROVE  r[i].rangeOffset + r[i].rangeLength <= r[j].rangeOffset
  <2>1. i + 1 < j + 1
    BY <1>4, <1>7
  <2>2. s[i + 1].rangeOffset + s[i + 1].rangeLength <= s[j + 1].rangeOffset
    BY <1>4, <2>1 DEF Placed
  <2> QED
    BY <1>2, <1>3, <2>2
<1>8. Placed(End(c), n, r)
  BY <1>2, <1>6, <1>7 DEF Placed
<1> QED
  BY <1>2, <1>5, <1>8, PartType DEF End, c, r

LEMMA GatheredReach ==
    ASSUME NEW n \in Nat
    PROVE  \A s : \A k \in 0..n : Placed(k, n, s) => Reach(Gathered(k, s)) <= n - k
<1> DEFINE S == {m \in Nat : \A s : \A k \in 0..n :
                     Placed(k, n, s) /\ Len(s) = m => Reach(Gathered(k, s)) <= n - k}
<1>1. 0 \in S
  <2>1. ASSUME NEW s, NEW k \in 0..n, Placed(k, n, s), Len(s) = 0 PROVE Reach(Gathered(k, s)) <= n - k
    <3>1. s = <<>>
      BY <2>1, EmptySeq DEF Placed
    <3>2. Gathered(k, s) = <<>>
      BY <3>1, FoldEmpty DEF Gathered, To
    <3> QED
      BY <3>2, ReachLaws
  <2> QED
    BY <2>1
<1>2. ASSUME NEW m \in Nat, m \in S PROVE m + 1 \in S
  <2>1. ASSUME NEW s, NEW k \in 0..n, Placed(k, n, s), Len(s) = m + 1
        PROVE  Reach(Gathered(k, s)) <= n - k
    <3> DEFINE c == Head(s)
               r == Tail(s)
    <3>1. s # <<>> /\ k \in Nat
      BY <2>1
    <3>2. /\ c \in Change /\ r \in Seq(Change) /\ s = <<c>> \o r /\ Len(r) = m
          /\ k <= c.rangeOffset /\ End(c) \in 0..n /\ Placed(End(c), n, r)
      BY <2>1, <3>1, PlacedFirst
    <3> HIDE DEF c, r
    <3>3. Reach(Gathered(End(c), r)) <= n - End(c)
      BY <1>2, <3>2
    <3>4. Gathered(End(c), r) \in Op /\ Reach(Gathered(End(c), r)) \in Nat
      BY <3>2, GatheredType, ReachLaws
    <3>5. Reach(Gathered(k, s)) = (End(c) - k) + Reach(Gathered(End(c), r))
      <4>1. Gathered(k, s) = Part(k, c) \o Gathered(End(c), r)
        BY <3>1, <3>2, GatheredFirst
      <4> QED
        BY <3>1, <3>2, <3>4, <4>1, PartReach, ZenonT(60)
    <3> QED
      BY <3>1, <3>2, <3>3, <3>4, <3>5
  <2> QED
    BY <2>1
<1> HIDE DEF S
<1>3. Nat \subseteq S
  BY <1>1, <1>2, Induction
<1>4. \A s : \A k \in 0..n : Placed(k, n, s) => Len(s) \in Nat
  BY DEF Placed
<1> QED
  BY <1>3, <1>4 DEF S

\* The operation of an event is one of the text it was reported on: typed,
\* compact, and of no more characters than the text has.
LEMMA MonacoType ==
    ASSUME NEW n \in Nat, NEW E, Event(n, E)
    PROVE  LET op == fromMonacoChanges(E) IN op \in Op /\ Compact(op) /\ Reach(op) <= n
<1> DEFINE s == sorted(E)
<1>1. Placed(0, n, s)
  BY SortedPlaced
<1> HIDE DEF s
<1>2. s \in Seq(Change)
  BY <1>1 DEF Placed
<1>3. Gathered(0, s) \in Op /\ Reach(Gathered(0, s)) <= n - 0
  BY <1>1, <1>2, GatheredType, GatheredReach
<1>4. fromMonacoChanges(E) = compact(Gathered(0, s))
  BY MonacoIs DEF s
<1> QED
  BY <1>3, <1>4, CompactEffect, CompactForm, CompactReach

----------------------------------------------------------------------------
\* The replacements of an event, carried out by the editor.

One == [p \in Seq(Char) \X Change |->
            SubSeq(p[1], 1, Least(p[2].rangeOffset, Len(p[1]))) \o p[2].text
            \o SubSeq(p[1], p[2].rangeOffset + p[2].rangeLength + 1, Len(p[1]))]

LEMMA ReplacedIs ==
    ASSUME NEW t, NEW E
    PROVE  Replaced(t, E) = FoldFn(One, t, Reverse(sorted(E)))
<1>1. FoldLeft(LAMBDA s, c : One[<<s, c>>], t, Reverse(sorted(E))) = FoldFn(One, t, Reverse(sorted(E)))
  BY FoldLeftIs DEF FoldLeft, MapThenFoldSet, FoldFn
<1> QED
  BY <1>1 DEF Replaced, One

LEMMA OneIs ==
    ASSUME NEW t \in Seq(Char), NEW c \in Change
    PROVE  /\ One[<<t, c>>] = (Cut(t, 0, c.rangeOffset) \o c.text) \o Cut(t, End(c), Len(t))
           /\ One[<<t, c>>] \in Seq(Char)
<1> DEFINE o == c.rangeOffset
           m == Len(t)
<1>1. o \in Nat /\ c.text \in Seq(Char) /\ End(c) \in Nat /\ End(c) = o + c.rangeLength /\ m \in Nat
  BY ChangeAt, SMTT(30) DEF End
<1>2. One[<<t, c>>] = (SubSeq(t, 1, Least(o, m)) \o c.text) \o SubSeq(t, End(c) + 1, m)
  BY DEF One, End
<1>3. SubSeq(t, 1, Least(o, m)) = Cut(t, 0, o)
  <2>1. 0 + 1 = 1
    OBVIOUS
  <2> QED
    BY <2>1 DEF Cut
<1>4. SubSeq(t, End(c) + 1, m) = Cut(t, End(c), m)
  <2>1. Least(m, m) = m
    BY DEF Least
  <2> QED
    BY <2>1 DEF Cut
<1>5. Cut(t, 0, o) \in Seq(Char) /\ Cut(t, End(c), m) \in Seq(Char)
  BY <1>1, CutProperties
<1> HIDE DEF o, m
<1>6. One[<<t, c>>] = (Cut(t, 0, o) \o c.text) \o Cut(t, End(c), m)
  BY <1>2, <1>3, <1>4
<1>7. Cut(t, 0, o) \o c.text \in Seq(Char)
  BY <1>1, <1>5, Joining
<1>8. One[<<t, c>>] \in Seq(Char)
  BY <1>5, <1>6, <1>7, Joining
<1> QED
  BY <1>6, <1>8 DEF o, m

LEMMA OneFoldable ==
    ASSUME NEW t \in Seq(Char), NEW s \in Seq(Change)
    PROVE  Foldable(Seq(Char), Change, One, t, s)
<1>1. \A p \in Seq(Char) \X Change : \E u \in Seq(Char) : \E c \in Change : p = <<u, c>>
  OBVIOUS
<1>2. \A p \in Seq(Char) \X Change : One[p] \in Seq(Char)
  BY <1>1, OneIs
<1>3. One = [p \in Seq(Char) \X Change |-> One[p]]
  BY DEF One
<1> QED
  BY <1>2, <1>3 DEF Foldable

LEMMA ReverseFirst ==
    ASSUME NEW c \in Change, NEW s \in Seq(Change)
    PROVE  Reverse(s) \in Seq(Change) /\ Reverse(<<c>> \o s) = Append(Reverse(s), c)
<1> DEFINE m == Len(s)
           l == <<c>> \o s
<1>1. m \in Nat /\ l \in Seq(Change) /\ Len(l) = m + 1 /\ l[1] = c /\ \A i \in 1..m : l[i + 1] = s[i]
  OBVIOUS
<1>2. \A i \in 1..m : (m - i) + 1 \in 1..m /\ s[(m - i) + 1] \in Change
  BY <1>1
<1>3. Reverse(s) = [i \in 1..m |-> s[(m - i) + 1]]
  BY DEF Reverse
<1>4. Reverse(s) \in Seq(Change) /\ Len(Reverse(s)) = m
  <2>1. [i \in 1..m |-> s[(m - i) + 1]] \in [1..m -> Change]
    BY <1>2
  <2> HIDE DEF m
  <2> QED
    BY <1>1, <1>3, <2>1
<1> HIDE DEF l
<1>5. Reverse(l) = [i \in 1..(m + 1) |-> l[((m + 1) - i) + 1]]
  BY <1>1 DEF Reverse
<1>6. ASSUME NEW i \in 1..(m + 1) PROVE l[((m + 1) - i) + 1] = Append(Reverse(s), c)[i]
  <2>1. CASE i = m + 1
    <3>1. ((m + 1) - i) + 1 = 1
      BY <1>1, <2>1
    <3>2. Append(Reverse(s), c)[m + 1] = c
      BY <1>4
    <3> QED
      BY <1>1, <2>1, <3>1, <3>2
  <2>2. CASE i # m + 1
    <3> DEFINE j == (m - i) + 1
    <3>1. i \in 1..m /\ j \in 1..m /\ ((m + 1) - i) + 1 = j + 1
      BY <1>1, <2>2
    <3>2. Append(Reverse(s), c)[i] = Reverse(s)[i]
      BY <1>4, <3>1
    <3>3. Reverse(s)[i] = s[j]
      BY <1>3, <3>1
    <3> HIDE DEF j
    <3> QED
      BY <1>1, <3>1, <3>2, <3>3
  <2> QED
    BY <2>1, <2>2
<1>7. Append(Reverse(s), c) = [i \in 1..(m + 1) |-> Append(Reverse(s), c)[i]]
  <2> DEFINE z == Reverse(s)
  <2> HIDE DEF z, m
  <2>1. Append(z, c) \in Seq(Change) /\ Len(Append(z, c)) = m + 1
    BY <1>1, <1>4 DEF z
  <2> DEFINE y == Append(z, c)
  <2> HIDE DEF y
  <2>2. y \in Seq(Change) /\ Len(y) = m + 1
    BY <2>1 DEF y
  <2>3. y = [i \in 1..(m + 1) |-> y[i]]
    BY <2>2
  <2> QED
    BY <2>3 DEF y, z
<1>8. Reverse(l) = Append(Reverse(s), c)
  BY <1>5, <1>6, <1>7
<1> QED
  BY <1>4, <1>8 DEF l

\* What the editor makes of the text from the first replacement on is what the
\* operation built from the replacements makes of it.
LEMMA CarriedOut ==
    ASSUME NEW t \in Seq(Char)
    PROVE  \A s : \A k \in 0..Len(t) :
               Placed(k, Len(t), s) =>
                   FoldFn(One, t, Reverse(s)) = Cut(t, 0, k) \o apply(Cut(t, k, Len(t)), Gathered(k, s))
<1> DEFINE n == Len(t)
           Done(k, s) == FoldFn(One, t, Reverse(s)) = Cut(t, 0, k) \o apply(Cut(t, k, n), Gathered(k, s))
           S == {m \in Nat : \A s : \A k \in 0..n : Placed(k, n, s) /\ Len(s) = m => Done(k, s)}
<1>0. n \in Nat /\ Cut(t, 0, n) = t
  BY CutWhole
<1>1. 0 \in S
  <2>1. ASSUME NEW s, NEW k \in 0..n, Placed(k, n, s), Len(s) = 0 PROVE Done(k, s)
    <3>1. s = <<>>
      BY <2>1, EmptySeq DEF Placed
    <3>2. Reverse(s) = <<>>
      BY <3>1 DEF Reverse
    <3>3. FoldFn(One, t, Reverse(s)) = t
      BY <3>2, FoldEmpty
    <3>4. Gathered(k, s) = <<>>
      BY <3>1, FoldEmpty DEF Gathered, To
    <3>5. Cut(t, k, n) \in Seq(Char) /\ Cut(t, 0, k) \o Cut(t, k, n) = Cut(t, 0, n)
      <4> HIDE DEF n
      <4>1. k \in Nat /\ 0 <= k /\ k <= n
        BY <1>0, <2>1
      <4> QED
        BY <1>0, <4>1, CutProperties, CutJoin
    <3>6. apply(Cut(t, k, n), <<>>) = Cut(t, k, n)
      BY <3>5, ApplyNone
    <3> HIDE DEF n
    <3> QED
      BY <1>0, <3>3, <3>4, <3>5, <3>6
  <2> QED
    BY <2>1
<1>2. ASSUME NEW m \in Nat, m \in S PROVE m + 1 \in S
  <2>1. ASSUME NEW s, NEW k \in 0..n, Placed(k, n, s), Len(s) = m + 1 PROVE Done(k, s)
    <3> DEFINE c == Head(s)
               r == Tail(s)
               e == End(c)
               o == c.rangeOffset
               x == c.text
               g == Gathered(e, r)
               q == apply(Cut(t, e, n), g)
               a == Cut(t, 0, e)
               b == Cut(t, 0, o)
               f == FoldFn(One, t, Reverse(r))
    <3>1. s # <<>> /\ k \in Nat /\ k <= n
      BY <2>1
    <3>2. /\ c \in Change /\ r \in Seq(Change) /\ s = <<c>> \o r /\ Len(r) = m
          /\ k <= o /\ e \in 0..n /\ Placed(e, n, r)
      BY <2>1, <3>1, <1>0, PlacedFirst
    <3>3. f = a \o q
      <4> HIDE DEF e, n, r
      <4>1. Done(e, r)
        BY <1>2, <3>2
      <4> QED
        BY <4>1
    <3> HIDE DEF c, r
    <3>4. o \in Nat /\ x \in Seq(Char) /\ e \in Nat /\ o <= e /\ e <= n
      <4>1. o \in Nat /\ c.rangeLength \in Nat /\ e = o + c.rangeLength
        BY <3>2, ChangeAt DEF End
      <4> HIDE DEF e, n
      <4> QED
        BY <1>0, <3>2, <4>1, ChangeAt
    <3>5. g \in Op
      BY <3>2, <3>4, GatheredType
    <3> HIDE DEF e, o, n, g
    <3>6. Cut(t, e, n) \in Seq(Char) /\ q \in Seq(Char)
      <4>1. Cut(t, e, n) \in Seq(Char)
        BY <1>0, <3>4, CutProperties
      <4> QED
        BY <3>5, <4>1, ApplyType
    <3>7. /\ a \in Seq(Char) /\ Len(a) = e /\ b \in Seq(Char) /\ Len(b) = o
      <4>1. \A i \in Nat : i <= Len(t) => Cut(t, 0, i) \in Seq(Char) /\ Len(Cut(t, 0, i)) = i
        BY CutLength
      <4>2. e <= Len(t) /\ o <= Len(t)
        BY <1>0, <3>4 DEF n
      <4> QED
        BY <3>4, <4>1, <4>2
    <3>8. /\ Cut(t, o, e) \in Seq(Char) /\ b \o Cut(t, o, e) = a
          /\ Cut(t, 0, k) \in Seq(Char) /\ Cut(t, k, o) \in Seq(Char) /\ Cut(t, 0, k) \o Cut(t, k, o) = b
      <4>1. /\ 0 <= k /\ k <= o /\ 0 <= o /\ o <= e
            /\ 0 \in Nat /\ k \in Nat /\ o \in Nat /\ e \in Nat
        BY <3>1, <3>2, <3>4
      <4>2. b \o Cut(t, o, e) = a
        BY <4>1, CutJoin
      <4>3. Cut(t, 0, k) \o Cut(t, k, o) = b
        BY <4>1, CutJoin
      <4>4. Cut(t, o, e) \in Seq(Char) /\ Cut(t, 0, k) \in Seq(Char) /\ Cut(t, k, o) \in Seq(Char)
        BY <4>1, CutProperties
      <4> QED
        BY <4>2, <4>3, <4>4
    <3> DEFINE d == Cut(t, o, e)
               w == d \o q
    <3> HIDE DEF q, a, b, x
    <3>9. w \in Seq(Char) /\ f = b \o w
      <4> HIDE DEF f
      <4>1. (b \o d) \o q = b \o (d \o q) /\ d \o q \in Seq(Char)
        <5>1. d \in Seq(Char) /\ q \in Seq(Char) /\ b \in Seq(Char)
          BY <3>6, <3>7, <3>8
        <5> HIDE DEF d
        <5>2. (b \o d) \o q = b \o (d \o q)
          BY <5>1, TextAssociative
        <5>3. d \o q \in Seq(Char)
          BY <5>1, TextClosed
        <5> QED
          BY <5>2, <5>3
      <4> QED
        BY <3>3, <3>8, <4>1
    <3> HIDE DEF f, w
    <3>10. Cut(f, 0, o) = b /\ f \in Seq(Char)
      <4>1. Cut(b \o w, 0, Len(b)) = b /\ b \o w \in Seq(Char)
        BY <3>7, <3>9, CutPast
      <4> QED
        BY <3>7, <3>9, <4>1
    <3>11. Cut(f, e, Len(f)) = q
      <4>1. Cut(a \o q, Len(a), Len(a \o q)) = q
        BY <3>6, <3>7, CutPast
      <4> QED
        BY <3>3, <3>7, <4>1
    <3>12. FoldFn(One, t, Reverse(s)) = One[<<f, c>>]
      <4>1. Reverse(r) \in Seq(Change) /\ Reverse(s) = Append(Reverse(r), c)
        BY <3>2, ReverseFirst
      <4>2. Foldable(Seq(Char), Change, One, t, Reverse(r))
        BY <4>1, OneFoldable
      <4>3. FoldFn(One, t, Append(Reverse(r), c)) = One[<<FoldFn(One, t, Reverse(r)), c>>]
        BY <3>2, <4>2, FoldAppend
      <4> QED
        BY <4>1, <4>3 DEF f
    <3>13. One[<<f, c>>] = (b \o x) \o q
      <4>1. One[<<f, c>>] = (Cut(f, 0, o) \o x) \o Cut(f, e, Len(f))
        BY <3>2, <3>10, OneIs DEF o, x, e
      <4> QED
        BY <3>10, <3>11, <4>1
    <3>14. apply(Cut(t, k, n), Gathered(k, s)) = Cut(t, k, o) \o (x \o q)
      <4>1. Gathered(k, s) = Part(k, c) \o g
        BY <3>1, <3>2, GatheredFirst DEF g, e
      <4>2. apply(Cut(t, k, Len(t)), Part(k, c) \o g)
                = Cut(t, k, c.rangeOffset) \o (c.text \o apply(Cut(t, End(c), Len(t)), g))
        BY <3>1, <3>2, <3>5, PartEffect DEF o
      <4> QED
        BY <4>1, <4>2 DEF n, o, x, q, e
    <3>15. Cut(t, 0, k) \o (Cut(t, k, o) \o (x \o q)) = (b \o x) \o q
      <4> DEFINE y == x \o q
                 z == Cut(t, 0, k)
                 v == Cut(t, k, o)
      <4>1. y \in Seq(Char) /\ (b \o x) \o q = b \o y
        <5>1. x \in Seq(Char) /\ q \in Seq(Char) /\ b \in Seq(Char)
          BY <3>4, <3>6, <3>7
        <5> QED
          BY <5>1, TextAssociative, TextClosed
      <4>2. z \in Seq(Char) /\ v \in Seq(Char) /\ z \o v = b
        BY <3>8
      <4> HIDE DEF y, z, v
      <4>3. (z \o v) \o y = z \o (v \o y)
        BY <4>1, <4>2, TextAssociative
      <4> QED
        BY <4>1, <4>2, <4>3 DEF y, z, v
    <3> QED
      BY <3>12, <3>13, <3>14, <3>15
  <2> QED
    BY <2>1
<1> HIDE DEF S
<1>3. Nat \subseteq S
  BY <1>1, <1>2, Induction
<1>4. \A s : \A k \in 0..n : Placed(k, n, s) => Len(s) \in Nat
  BY DEF Placed
<1> QED
  BY <1>3, <1>4 DEF S

\* The operation of an event does to the text what the editor did.
LEMMA MonacoEffect ==
    ASSUME NEW t \in Seq(Char), NEW E, Event(Len(t), E)
    PROVE  apply(t, fromMonacoChanges(E)) = Replaced(t, E)
<1> DEFINE s == sorted(E)
           n == Len(t)
           g == Gathered(0, s)
<1>1. n \in Nat /\ Cut(t, 0, n) = t
  BY CutWhole
<1>2. Placed(0, n, s)
  BY <1>1, SortedPlaced
<1> HIDE DEF s, n
<1>3. s \in Seq(Change)
  BY <1>2 DEF Placed
<1>4. g \in Op
  BY <1>3, GatheredType
<1> HIDE DEF g
<1>5. apply(t, fromMonacoChanges(E)) = apply(t, g)
  BY <1>4, MonacoIs, CompactEffect DEF s, g
<1>6. FoldFn(One, t, Reverse(s)) = Cut(t, 0, 0) \o apply(Cut(t, 0, n), g)
  <2>1. 0 \in 0..n
    BY <1>1
  <2> QED
    BY <1>2, <2>1, CarriedOut DEF n, g
<1>7. Cut(t, 0, 0) = <<>>
  <2>1. Cut(t, 0, 0) \in Seq(Char) /\ Len(Cut(t, 0, 0)) = 0
    BY CutLength
  <2> QED
    BY <2>1, EmptySeq
<1>8. <<>> \o apply(t, g) = apply(t, g)
  <2>1. apply(t, g) \in Seq(Char)
    BY <1>4, ApplyType
  <2> QED
    BY <2>1, ConcatEmptySeq
<1> QED
  BY <1>1, <1>5, <1>6, <1>7, <1>8, ReplacedIs DEF s

----------------------------------------------------------------------------
\* The inputs drawn so far belong together: each operation is one of the text it
\* is applied to.

Drawn ==
    /\ origin \in Seq(Char)
    /\ Event(Len(origin), changes)
    /\ changes = {} => again = {} /\ rival = Null
    /\ Event(Len(AfterFirst), again)
    /\ rival # Null => rival \in Op /\ Reach(rival) <= Len(origin)

LEMMA ReplacementIs ==
    ASSUME NEW n \in Nat, NEW c \in Replacement(n)
    PROVE  c \in Change /\ c.rangeOffset + c.rangeLength <= n
<1>1. /\ c \in [rangeOffset : 0..n, rangeLength : 0..n, text : Typed \cup {<<>>}]
      /\ c.rangeOffset + c.rangeLength <= n
  BY DEF Replacement
<1>2. Typed \cup {<<>>} \subseteq Seq(Char)
  BY InputsAssumption, EmptySeq
<1>3. 0..n \subseteq Nat
  OBVIOUS
<1> QED
  BY <1>1, <1>2, <1>3 DEF Change

LEMMA NoEvent ==
    ASSUME NEW n
    PROVE  Event(n, {})
BY DEF Event

LEMMA EventOfOne ==
    ASSUME NEW n \in Nat, NEW c \in Replacement(n)
    PROVE  Event(n, {c})
BY ReplacementIs DEF Event

LEMMA EventsAre ==
    ASSUME NEW n \in Nat, NEW E \in Events(n)
    PROVE  Event(n, E)
<1>1. E \subseteq Replacement(n) /\ \A c, d \in E : c # d => Apart(c, d)
  BY DEF Events, kSubset
<1> QED
  BY <1>1, ReplacementIs DEF Event, Apart

\* What the laws are about, in a state.
LEMMA Operations ==
    ASSUME Drawn
    PROVE  /\ First \in Op /\ Compact(First) /\ Reach(First) <= Len(origin)
           /\ AfterFirst \in Seq(Char) /\ Len(AfterFirst) \in Nat /\ AfterFirst = Effect(origin, First)
           /\ Second \in Op /\ Reach(Second) <= Len(AfterFirst)
<1>1. origin \in Seq(Char) /\ Len(origin) \in Nat
  BY DEF Drawn
<1>2. First \in Op /\ Compact(First) /\ Reach(First) <= Len(origin)
  BY <1>1, MonacoType DEF Drawn, First
<1>3. AfterFirst \in Seq(Char) /\ Len(AfterFirst) \in Nat
  <2>1. AfterFirst \in Seq(Char)
    BY <1>1, <1>2, ApplyType DEF AfterFirst
  <2> QED
    BY <2>1
<1>4. AfterFirst = Effect(origin, First)
  BY <1>2, NullAssumption DEF AfterFirst, Effect
<1>5. Second \in Op /\ Reach(Second) <= Len(AfterFirst)
  BY <1>3, MonacoType DEF Drawn, Second
<1> QED
  BY <1>2, <1>3, <1>4, <1>5

LEMMA DrawnInvariant ==
    Inputs => []Drawn
<1>1. NoInputs => Drawn
  <2> SUFFICES ASSUME NoInputs PROVE Drawn
    OBVIOUS
  <2>1. origin \in Seq(Char) /\ changes = {} /\ again = {} /\ rival = Null
    BY InputsAssumption DEF NoInputs
  <2>2. Event(Len(origin), changes) /\ Event(Len(AfterFirst), again)
    BY <2>1, NoEvent
  <2> QED
    BY <2>1, <2>2 DEF Drawn
<1>2. ASSUME Drawn, EditFirst PROVE Drawn'
  <2>1. origin \in Seq(Char) /\ Len(origin) \in Nat /\ changes = {} /\ changes' \in Events(Len(origin))
    BY <1>2 DEF Drawn, EditFirst
  <2>2. origin' = origin /\ again' = {} /\ rival' = Null
    BY <1>2 DEF Drawn, EditFirst
  <2>4. Event(Len(origin'), changes')
    BY <2>1, <2>2, EventsAre
  <2>5. Event(Len(AfterFirst'), again')
    BY <2>2, NoEvent
  <2>6. origin' \in Seq(Char)
    BY <2>1, <2>2
  <2>7. changes' = {} => again' = {} /\ rival' = Null
    BY <2>2
  <2> QED
    BY <2>2, <2>4, <2>5, <2>6, <2>7 DEF Drawn
<1>3. ASSUME Drawn, EditAgain PROVE Drawn'
  <2>1. changes # {} /\ rival = Null /\ UNCHANGED <<origin, changes, rival>>
    BY <1>3 DEF EditAgain
  <2>2. Len(AfterFirst) \in Nat
    BY <1>3, Operations
  <2>3. PICK c \in Replacement(Len(AfterFirst)) : again' = {c}
    BY <1>3 DEF EditAgain
  <2>4. AfterFirst' = AfterFirst
    BY <2>1 DEF AfterFirst, First
  <2>5. Event(Len(AfterFirst), {c})
    BY <2>2, EventOfOne
  <2> QED
    BY <1>3, <2>1, <2>3, <2>4, <2>5 DEF Drawn
<1>4. ASSUME Drawn, RivalEdits PROVE Drawn'
  <2>1. /\ changes # {} /\ UNCHANGED <<origin, changes, again>>
        /\ rival' \in RivalOps /\ Reach(rival') <= Len(origin)
    BY <1>4 DEF RivalEdits
  <2>2. rival' \in Op
    BY <2>1, InputsAssumption
  <2>3. AfterFirst' = AfterFirst
    BY <2>1 DEF AfterFirst, First
  <2> QED
    BY <1>4, <2>1, <2>2, <2>3 DEF Drawn
<1>5. ASSUME Drawn, UNCHANGED inputs PROVE Drawn'
  BY <1>5 DEF Drawn, inputs, AfterFirst, First
<1>6. Drawn /\ [Input]_inputs => Drawn'
  BY <1>2, <1>3, <1>4, <1>5 DEF Input
<1> QED
  BY <1>1, <1>6, PTL DEF Inputs

----------------------------------------------------------------------------
\* The laws.

\* The operation the browser builds from an editor event is compact and does to
\* the text exactly what the editor did, for any number of ranges in any order
\* (fromMonacoChanges, ot-text.js:213-224).
THEOREM EventsCaptured ==
    Inputs => []EventCaptured
<1>1. ASSUME Drawn PROVE EventCaptured
  <2>1. First \in Op /\ Compact(First)
    BY <1>1, Operations
  <2>2. apply(origin, First) = Replaced(origin, changes)
    BY <1>1, MonacoEffect DEF Drawn, First
  <2> QED
    BY <2>1, <2>2 DEF EventCaptured, AfterFirst
<1> QED
  BY <1>1, DrawnInvariant, PTL

\* The browser's operation and another client's one, transformed past each other
\* with opposite priorities, lead the browser and the server to one text
\* (transform, ot-text.js:78-136 and TextOtEngine.cs; monaco-collab.js:117-139).
THEOREM TextsConverge ==
    Inputs => []TextsMeet
<1>1. ASSUME Drawn PROVE TextsMeet
  <2> SUFFICES ASSUME rival # Null,
                      NEW p \in {<<"existingWins", "incomingWins">>, <<"incomingWins", "existingWins">>}
               PROVE  /\ Compact(transform(rival, First, p[1])) /\ Compact(transform(First, rival, p[2]))
                      /\ apply(AfterFirst, transform(rival, First, p[1]))
                             = apply(apply(origin, rival), transform(First, rival, p[2]))
    BY DEF TextsMeet
  <2>1. origin \in Seq(Char) /\ rival \in Op /\ Reach(rival) <= Len(origin)
    BY <1>1 DEF Drawn
  <2>2. First \in Op /\ Reach(First) <= Len(origin)
    BY <1>1, Operations
  <2> QED
    <3>1. /\ Compact(transform(rival, First, p[1])) /\ Compact(transform(First, rival, p[2]))
      BY <2>1, <2>2, TransformsOf
    <3>2. apply(apply(origin, First), transform(rival, First, p[1]))
              = apply(apply(origin, rival), transform(First, rival, p[2]))
      <4>1. /\ apply(apply(origin, First), transform(rival, First, "existingWins"))
                   = apply(apply(origin, rival), transform(First, rival, "incomingWins"))
            /\ apply(apply(origin, First), transform(rival, First, "incomingWins"))
                   = apply(apply(origin, rival), transform(First, rival, "existingWins"))
        BY <2>1, <2>2, MeetOn
      <4> QED
        BY <4>1
    <3> QED
      BY <3>1, <3>2 DEF AfterFirst
<1> QED
  BY <1>1, DrawnInvariant, PTL

\* What the browser buffers while it waits for an answer can be sent as one
\* operation, which is left out only when it changes nothing (compose,
\* ot-text.js:163-189; monaco-collab.js:81).
THEOREM BufferedAsOne ==
    Inputs => []EditsCompose
<1>1. ASSUME Drawn PROVE EditsCompose
  <2>1. /\ First \in Op /\ Reach(First) <= Len(origin) /\ AfterFirst = Effect(origin, First)
        /\ Second \in Op
    BY <1>1, Operations
  <2>2. origin \in Seq(Char)
    BY <1>1 DEF Drawn
  <2>3. Effect(origin, compose(First, Second)) = Effect(Effect(origin, First), Second)
    BY <2>1, <2>2, ComposeFollows
  <2>4. Effect(AfterFirst, Second) = apply(AfterFirst, Second)
    BY <2>1, NullAssumption DEF Effect
  <2> QED
    BY <2>1, <2>3, <2>4 DEF EditsCompose
<1> QED
  BY <1>1, DrawnInvariant, PTL

\* Undoing an operation on the text it left restores the text it was applied to,
\* also when two edits were merged into it (TextOtEngine.Invert,
\* TextOtEngine.cs:146-189).
THEOREM EditsUndoable ==
    Inputs => []Undoable
<1>1. ASSUME Drawn PROVE Undoable
  <2> DEFINE both == compose(First, Second)
             op == IF rival # Null THEN rival ELSE IF both = Null THEN First ELSE both
  <2>1. /\ First \in Op /\ Reach(First) <= Len(origin) /\ AfterFirst = Effect(origin, First)
        /\ Second \in Op /\ Reach(Second) <= Len(AfterFirst)
    BY <1>1, Operations
  <2>2. origin \in Seq(Char)
    BY <1>1 DEF Drawn
  <2>3. both \in Op \cup {Null} /\ (both # Null => Reach(both) <= Len(origin))
    BY <2>1, <2>2, ComposeFollows
  <2> HIDE DEF both
  <2>4. op \in Op /\ Reach(op) <= Len(origin)
    BY <1>1, <2>1, <2>3 DEF Drawn
  <2> HIDE DEF op
  <2>5. apply(apply(origin, op), Invert(op, origin)) = origin
    BY <2>2, <2>4, InvertTakesBack
  <2> QED
    BY <2>5 DEF Undoable, op, both
<1> QED
  BY <1>1, DrawnInvariant, PTL

----------------------------------------------------------------------------
\* The caret.

Kept(op) == \A i \in DOMAIN op : op[i].type = "retain"

AtMostOne(op) ==
    \A i, j \in DOMAIN op : op[i].type # "retain" /\ op[j].type # "retain" => i = j

LEMMA ConsPlaces ==
    ASSUME NEW c \in Component, NEW op \in Op
    PROVE  LET e == <<c>> \o op
           IN  /\ DOMAIN e = 1..(Len(op) + 1) /\ DOMAIN op = 1..Len(op) /\ Len(op) \in Nat
               /\ e[1] = c /\ \A i \in 1..Len(op) : e[i + 1] = op[i]
BY DEF Op

\* When an operation changes something in one place only, so does what is left of it.
LEMMA OneChange ==
    ASSUME NEW c \in Component, NEW op \in Op, AtMostOne(<<c>> \o op)
    PROVE  IF c.type = "retain" THEN AtMostOne(op) ELSE Kept(op)
<1> DEFINE e == <<c>> \o op
<1>1. /\ DOMAIN e = 1..(Len(op) + 1) /\ DOMAIN op = 1..Len(op) /\ Len(op) \in Nat
      /\ e[1] = c /\ \A i \in 1..Len(op) : e[i + 1] = op[i]
  BY ConsPlaces
<1>2. AtMostOne(e)
  OBVIOUS
<1> HIDE DEF e
<1>3. ASSUME NEW i \in 1..Len(op), op[i].type # "retain"
      PROVE  /\ c.type = "retain"
             /\ \A j \in 1..Len(op) : op[j].type # "retain" => i = j
  <2>1. 1 \in DOMAIN e /\ i + 1 \in DOMAIN e /\ e[i + 1] = op[i] /\ i + 1 # 1
    BY <1>1
  <2>2. c.type = "retain"
    BY <1>1, <1>2, <1>3, <2>1 DEF AtMostOne
  <2>3. ASSUME NEW j \in 1..Len(op), op[j].type # "retain" PROVE i = j
    <3>1. j + 1 \in DOMAIN e /\ e[j + 1] = op[j]
      BY <1>1
    <3>2. i + 1 = j + 1
      BY <1>2, <1>3, <2>1, <2>3, <3>1 DEF AtMostOne
    <3> QED
      BY <3>2
  <2> QED
    BY <2>2, <2>3
<1> QED
  BY <1>1, <1>3 DEF AtMostOne, Kept

LEMMA KeptIsOne ==
    ASSUME NEW op \in Op, Kept(op)
    PROVE  AtMostOne(op)
BY DEF Kept, AtMostOne

On(p, o) == [pos |-> p, out |-> o]

CaretFrom(p, o, op) == FoldFn(carried, On(p, o), op).out

LEMMA CaretOn ==
    /\ \A p, o \in Nat : On(p, o) \in Caret /\ On(p, o).pos = p /\ On(p, o).out = o
    /\ \A s \in Caret : s.pos \in Nat /\ s.out \in Nat /\ s = On(s.pos, s.out)
BY DEF Caret, On

LEMMA CarriedOne ==
    ASSUME NEW p \in Nat, NEW o \in Nat
    PROVE  /\ On(p, o) \in Caret
           /\ \A n \in Nat : carried[<<On(p, o), retain(n)>>] = On(p + n, o)
           /\ \A x \in Seq(Char) :
                  carried[<<On(p, o), insert(x)>>]
                      = On(p, IF p <= o THEN o + Len(x) ELSE o)
           /\ \A n \in Nat :
                  carried[<<On(p, o), del(n)>>]
                      = On(p + n, IF p < o THEN o - Least(n, o - p) ELSE o)
<1> DEFINE s == On(p, o)
<1>1. s \in Caret /\ s.pos = p /\ s.out = o
  BY CaretOn
<1>2. \A c \in Component : carried[<<s, c>>] = Carried(s, c)
  <2>1. \A c \in Component : <<s, c>> \in Caret \X Component
    BY <1>1
  <2> QED
    BY <2>1 DEF carried
<1> HIDE DEF s
<1>3. ASSUME NEW n \in Nat PROVE carried[<<s, retain(n)>>] = On(p + n, o)
  <2>1. Carried(s, retain(n)) = [s EXCEPT !.pos = @ + n]
    BY DEF Carried, retain
  <2>2. [s EXCEPT !.pos = @ + n] = On(p + n, o)
    BY <1>1 DEF Caret, On
  <2> QED
    BY <1>2, <2>1, <2>2, Constructors
<1>4. ASSUME NEW x \in Seq(Char)
      PROVE  carried[<<s, insert(x)>>] = On(p, IF p <= o THEN o + Len(x) ELSE o)
  <2>1. Carried(s, insert(x)) = [s EXCEPT !.out = IF s.pos <= @ THEN @ + Len(x) ELSE @]
    BY DEF Carried, insert
  <2>2. [s EXCEPT !.out = IF s.pos <= @ THEN @ + Len(x) ELSE @]
            = On(p, IF p <= o THEN o + Len(x) ELSE o)
    BY <1>1 DEF Caret, On
  <2> QED
    BY <1>2, <2>1, <2>2, Constructors
<1>5. ASSUME NEW n \in Nat
      PROVE  carried[<<s, del(n)>>] = On(p + n, IF p < o THEN o - Least(n, o - p) ELSE o)
  <2>1. Carried(s, del(n)) = [pos |-> s.pos + n,
                              out |-> IF s.pos < s.out THEN s.out - Least(n, s.out - s.pos) ELSE s.out]
    BY DEF Carried, del
  <2>2. Carried(s, del(n)) = On(p + n, IF p < o THEN o - Least(n, o - p) ELSE o)
    BY <1>1, <2>1 DEF On
  <2> QED
    BY <1>2, <2>2, Constructors
<1> QED
  BY <1>1, <1>3, <1>4, <1>5 DEF s

LEMMA CarriedType ==
    carried \in [Caret \X Component -> Caret]
<1>1. ASSUME NEW s \in Caret, NEW c \in Component PROVE carried[<<s, c>>] \in Caret
  <2>1. PICK p \in Nat, o \in Nat : s = On(p, o)
    BY CaretOn
  <2>2. CASE c.type = "retain"
    BY <2>1, <2>2, CarriedOne, Components
  <2>3. CASE c.type = "insert"
    <3>1. c.text \in Seq(Char) /\ c = insert(c.text) /\ Len(c.text) \in Nat
      BY <2>3, Components
    <3>2. carried[<<s, c>>] = On(p, IF p <= o THEN o + Len(c.text) ELSE o)
      BY <2>1, <3>1, CarriedOne
    <3> QED
      BY <3>1, <3>2, CaretOn
  <2>4. CASE c.type = "delete"
    <3>1. c.count \in Nat /\ c = del(c.count)
      BY <2>4, Components
    <3>2. carried[<<s, c>>] = On(p + c.count, IF p < o THEN o - Least(c.count, o - p) ELSE o)
      BY <2>1, <3>1, CarriedOne
    <3>3. p < o => o - Least(c.count, o - p) \in Nat
      BY <3>1 DEF Least
    <3> QED
      BY <3>1, <3>2, <3>3, CaretOn
  <2> QED
    BY <2>2, <2>3, <2>4, Components
<1>2. \A q \in Caret \X Component : \E s \in Caret : \E c \in Component : q = <<s, c>>
  OBVIOUS
<1>3. \A q \in Caret \X Component : carried[q] \in Caret
  BY <1>1, <1>2
<1>4. carried = [q \in Caret \X Component |-> carried[q]]
  BY DEF carried
<1> QED
  BY <1>3, <1>4

LEMMA CaretFirst ==
    ASSUME NEW p \in Nat, NEW o \in Nat, NEW op \in Op
    PROVE  /\ CaretFrom(p, o, op) \in Nat
           /\ CaretFrom(p, o, <<>>) = o
           /\ \A n \in Nat : CaretFrom(p, o, <<retain(n)>> \o op) = CaretFrom(p + n, o, op)
           /\ \A x \in Seq(Char) :
                  CaretFrom(p, o, <<insert(x)>> \o op)
                      = CaretFrom(p, IF p <= o THEN o + Len(x) ELSE o, op)
           /\ \A n \in Nat :
                  CaretFrom(p, o, <<del(n)>> \o op)
                      = CaretFrom(p + n, IF p < o THEN o - Least(n, o - p) ELSE o, op)
<1> DEFINE s == On(p, o)
<1>1. s \in Caret
  BY CarriedOne
<1>2. Foldable(Caret, Component, carried, s, op)
  BY <1>1, CarriedType DEF Foldable, Op
<1>3. FoldFn(carried, s, op) \in Caret
  BY <1>2, FoldIn
<1>4. FoldFn(carried, s, <<>>) = s
  BY FoldEmpty
<1>5. ASSUME NEW c \in Component
      PROVE  FoldFn(carried, s, <<c>> \o op) = FoldFn(carried, carried[<<s, c>>], op)
  <2> HIDE DEF s
  <2> QED
    BY <1>2, FoldCons
<1>6. CaretFrom(p, o, op) \in Nat /\ CaretFrom(p, o, <<>>) = o
  BY <1>3, <1>4, CaretOn DEF CaretFrom
<1> HIDE DEF s
<1>7. s = On(p, o)
  BY DEF s
<1>8. /\ \A n \in Nat : carried[<<s, retain(n)>>] = On(p + n, o)
      /\ \A x \in Seq(Char) : carried[<<s, insert(x)>>] = On(p, IF p <= o THEN o + Len(x) ELSE o)
      /\ \A n \in Nat : carried[<<s, del(n)>>] = On(p + n, IF p < o THEN o - Least(n, o - p) ELSE o)
  BY <1>7, CarriedOne
<1>9. /\ \A n \in Nat : retain(n) \in Component /\ del(n) \in Component
      /\ \A x \in Seq(Char) : insert(x) \in Component
  BY Constructors
<1>10. \A c \in Component : CaretFrom(p, o, <<c>> \o op) = FoldFn(carried, carried[<<s, c>>], op).out
  BY <1>5, <1>7 DEF CaretFrom
<1> QED
  BY <1>6, <1>8, <1>9, <1>10 DEF CaretFrom

\* A caret that the operation has passed stays where it is; so does one that
\* the operation only moves past.
LEMMA CaretPassed ==
    ASSUME NEW p \in Nat, NEW o \in Nat, NEW op \in Op, p > o
    PROVE  CaretFrom(p, o, op) = o
<1> DEFINE s == On(p, o)
           B == {t \in Caret : t.pos > o /\ t.out = o}
<1>1. s \in Caret /\ s.pos = p /\ s.out = o
  BY CaretOn
<1>2. ASSUME NEW t \in B, NEW c \in Component PROVE carried[<<t, c>>] \in B
  <2>1. PICK q \in Nat : t = On(q, o) /\ q > o
    BY CaretOn
  <2>2. \A n \in Nat : On(q + n, o) \in B
    BY <2>1, CaretOn
  <2>3. CASE c.type = "retain"
    <3>1. c.count \in Nat /\ c = retain(c.count)
      BY <2>3, Components
    <3>2. carried[<<t, c>>] = On(q + c.count, o)
      BY <2>1, <3>1, CarriedOne
    <3> QED
      BY <2>2, <3>1, <3>2
  <2>4. CASE c.type = "insert"
    <3>1. c.text \in Seq(Char) /\ c = insert(c.text)
      BY <2>4, Components
    <3>2. carried[<<t, c>>] = On(q, o)
      BY <2>1, <3>1, CarriedOne
    <3> QED
      BY <2>1, <3>2
  <2>5. CASE c.type = "delete"
    <3>1. c.count \in Nat /\ c = del(c.count)
      BY <2>5, Components
    <3>2. carried[<<t, c>>] = On(q + c.count, o)
      BY <2>1, <3>1, CarriedOne
    <3> QED
      BY <2>2, <3>1, <3>2
  <2> QED
    BY <2>3, <2>4, <2>5, Components
<1>3. s \in B /\ B \in SUBSET Caret
  BY <1>1
<1>4. Foldable(Caret, Component, carried, s, op)
  BY <1>1, CarriedType DEF Foldable, Op
<1> HIDE DEF B, s
<1>5. FoldFn(carried, s, op) \in B
  BY <1>2, <1>3, <1>4, FoldWithin
<1> QED
  BY <1>5 DEF B, s, CaretFrom

LEMMA CaretKept ==
    ASSUME NEW o \in Nat
    PROVE  \A op \in Op, p \in Nat : Kept(op) => CaretFrom(p, o, op) = o
<1> DEFINE S == {n \in Nat : \A op \in Op, p \in Nat :
                                  Len(op) = n /\ Kept(op) => CaretFrom(p, o, op) = o}
<1>1. 0 \in S
  <2>1. \A op \in Op : Len(op) = 0 => op = <<>>
    BY EmptySeq DEF Op
  <2>2. <<>> \in Op
    BY DEF Op
  <2>3. \A p \in Nat : CaretFrom(p, o, <<>>) = o
    BY <2>2, CaretFirst
  <2> QED
    BY <2>1, <2>3
<1>2. ASSUME NEW n \in S PROVE n + 1 \in S
  <2> SUFFICES ASSUME NEW op \in Op, NEW p \in Nat, Len(op) = n + 1, Kept(op)
               PROVE  CaretFrom(p, o, op) = o
    OBVIOUS
  <2>1. op # <<>>
    OBVIOUS
  <2> DEFINE r == Tail(op)
             c == Head(op)
  <2>2. c \in Component /\ r \in Op /\ op = <<c>> \o r /\ Len(r) = n
    BY <2>1, HeadTail
  <2>3. c.type = "retain" /\ Kept(r)
    BY <2>2, ConsPlaces DEF Kept
  <2> HIDE DEF c, r
  <2>4. c.count \in Nat /\ c = retain(c.count)
    BY <2>2, <2>3, Components
  <2>5. CaretFrom(p, o, op) = CaretFrom(p + c.count, o, r)
    <3>1. \A m \in Nat : CaretFrom(p, o, <<retain(m)>> \o r) = CaretFrom(p + m, o, r)
      BY <2>2, CaretFirst
    <3> QED
      BY <2>2, <2>4, <3>1
  <2> QED
    BY <2>2, <2>3, <2>4, <2>5
<1> HIDE DEF S
<1>3. Nat \subseteq S
  BY <1>1, <1>2, Induction
<1>4. \A op \in Op : Len(op) \in Nat
  BY DEF Op
<1> QED
  BY <1>3, <1>4 DEF S

\* op puts the marker, and nothing else, at place p of a text that is long enough for it.
Lands(op, p) ==
    /\ op \in Op /\ p \in Nat /\ p <= Reach(op)
    /\ \A u \in Seq(Char) :
           Reach(op) <= Len(u) => apply(u, op) = (Cut(u, 0, p) \o <<Marker>>) \o Cut(u, p, Len(u))

LEMMA MarkerIs ==
    <<Marker>> \in Seq(Char) /\ insert(<<Marker>>) \in Component /\ Len(<<Marker>>) = 1
<1>1. <<Marker>> \in Seq(Char)
  BY MarkerAssumption
<1> QED
  BY <1>1, Constructors

LEMMA LandsHere ==
    ASSUME NEW r \in Op, Kept(r)
    PROVE  Lands(<<insert(<<Marker>>)>> \o r, 0)
<1> DEFINE op == <<insert(<<Marker>>)>> \o r
<1>1. op \in Op /\ Reach(op) \in Nat /\ 0 <= Reach(op)
  <2>1. op \in Op
    BY MarkerIs, ConsType
  <2> QED
    BY <2>1, ReachLaws
<1>2. ASSUME NEW u \in Seq(Char)
      PROVE  apply(u, op) = (Cut(u, 0, 0) \o <<Marker>>) \o Cut(u, 0, Len(u))
  <2>1. apply(u, op) = <<Marker>> \o apply(u, r)
    BY MarkerIs, ApplyInsert
  <2>2. apply(u, r) = u
    BY NoOpEffect DEF Kept
  <2>3. Cut(u, 0, Len(u)) = u
    BY CutWhole
  <2>4. Cut(u, 0, 0) = <<>>
    <3>1. Cut(u, 0, 0) \in Seq(Char) /\ Len(Cut(u, 0, 0)) = 0
      BY CutLength
    <3> QED
      BY <3>1, EmptySeq
  <2>5. <<>> \o <<Marker>> = <<Marker>>
    BY MarkerIs, ConcatEmptySeq
  <2> QED
    BY <2>1, <2>2, <2>3, <2>4, <2>5
<1> QED
  BY <1>1, <1>2 DEF Lands

LEMMA LandsAfter ==
    ASSUME NEW op \in Op, NEW p \in Nat, Lands(op, p), NEW n \in Nat
    PROVE  Lands(<<retain(n)>> \o op, n + p)
<1> DEFINE long == <<retain(n)>> \o op
<1>1. long \in Op
  BY Constructors, ConsType
<1>2. Reach(long) = n + Reach(op) /\ Reach(op) \in Nat /\ p <= Reach(op)
  BY ReachOfFirst DEF Lands
<1>3. ASSUME NEW u \in Seq(Char), Reach(long) <= Len(u)
      PROVE  apply(u, long) = (Cut(u, 0, n + p) \o <<Marker>>) \o Cut(u, n + p, Len(u))
  <2> DEFINE v == Cut(u, n, Len(u))
             a == Cut(u, 0, n)
             b == Cut(v, 0, p)
             d == Cut(v, p, Len(v))
  <2>1. n <= Len(u) /\ Len(u) \in Nat
    BY <1>2, <1>3
  <2>2. v \in Seq(Char) /\ Len(v) = Len(u) - n /\ a \in Seq(Char)
    BY <2>1, CutLength
  <2>3. apply(u, long) = a \o apply(v, op)
    BY ApplyRetain
  <2>4. b = Cut(u, n, n + p)
    <3>1. n + 0 = n
      OBVIOUS
    <3> QED
      BY <3>1, CutOfRest
  <2>5. d = Cut(u, n + p, Len(u))
    BY CutRest
  <2>6. a \o b = Cut(u, 0, n + p)
    <3>1. n + p \in Nat /\ 0 <= n /\ n <= n + p
      OBVIOUS
    <3> QED
      BY <2>4, <3>1, CutJoin
  <2>7. b \in Seq(Char) /\ d \in Seq(Char)
    <3>1. p <= Len(v) /\ p \in Nat
      BY <1>2, <1>3, <2>1, <2>2
    <3> QED
      BY <2>2, <3>1, CutLength
  <2> HIDE DEF v, a, b, d, long
  <2>8. apply(v, op) = (b \o <<Marker>>) \o d
    <3>1. Reach(op) <= Len(v)
      BY <1>2, <1>3, <2>1, <2>2
    <3> QED
      BY <2>2, <3>1 DEF Lands, b, d
  <2>9. a \o ((b \o <<Marker>>) \o d) = ((a \o b) \o <<Marker>>) \o d
    <3>1. b \o <<Marker>> \in Seq(Char)
      BY <2>7, MarkerIs, TextClosed
    <3>2. a \o ((b \o <<Marker>>) \o d) = (a \o (b \o <<Marker>>)) \o d
      BY <2>2, <2>7, <3>1, TextAssociative
    <3>3. a \o (b \o <<Marker>>) = (a \o b) \o <<Marker>>
      BY <2>2, <2>7, MarkerIs, TextAssociative
    <3> QED
      BY <3>2, <3>3
  <2> QED
    BY <2>3, <2>5, <2>6, <2>8, <2>9
<1> HIDE DEF long
<1>4. n + p \in Nat /\ n + p <= Reach(long)
  BY <1>2
<1>5. Lands(long, n + p)
  BY <1>1, <1>3, <1>4 DEF Lands
<1> QED
  BY <1>5 DEF long

\* Past the end of an operation, another one's insertions are only moved over.
LEMMA NothingLeft ==
    ASSUME NEW q
    PROVE  \A e \in Op : Kept(rebased(q)[<<<<>>, e>>]) /\ rebased(q)[<<<<>>, e>>] \in Op
<1> DEFINE R(e) == rebased(q)[<<<<>>, e>>]
           S == {n \in Nat : \A e \in Op : Len(e) = n => Kept(R(e))}
<1>0. <<>> \in Op /\ ~starts(<<>>, "insert")
  BY DEF Op, starts
<1>1. ASSUME NEW e \in Op, ~starts(e, "insert") PROVE Kept(R(e))
  <2>1. R(e) = Rebasing(rebased(q), q, <<>>, e)
    BY <1>0, Rebased
  <2>2. R(e) = <<>>
    BY <1>0, <1>1, <2>1 DEF Rebasing, GoesFirst
  <2> QED
    BY <2>2 DEF Kept
<1>2. 0 \in S
  <2>1. \A e \in Op : Len(e) = 0 => e = <<>>
    BY EmptySeq DEF Op
  <2> QED
    BY <1>0, <1>1, <2>1
<1>3. ASSUME NEW n \in S PROVE n + 1 \in S
  <2> SUFFICES ASSUME NEW e \in Op, Len(e) = n + 1, starts(e, "insert") PROVE Kept(R(e))
    BY <1>1
  <2> DEFINE x == Head(e).text
             r == Tail(e)
  <2>1. r \in Op /\ x \in Seq(Char) /\ e = <<insert(x)>> \o r
    BY StartsInsert
  <2>2. Len(r) = n
    BY <2>1, HeadTail DEF starts
  <2>3. R(e) = <<retain(Len(x))>> \o R(r)
    <3>1. R(e) = Rebasing(rebased(q), q, <<>>, e)
      BY <1>0, Rebased
    <3> QED
      BY <1>0, <3>1 DEF Rebasing, GoesFirst
  <2>4. Kept(R(r)) /\ R(r) \in Op
    <3>1. R(r) \in Op
      BY <1>0, <2>1, Rebased DEF Pairs
    <3> QED
      BY <2>1, <2>2, <3>1
  <2>5. Len(x) \in Nat
    BY <2>1
  <2> HIDE DEF R, x, r
  <2> DEFINE c == retain(Len(x))
             long == <<c>> \o R(r)
  <2>6. c \in Component /\ c.type = "retain"
    BY <2>5, Constructors DEF retain
  <2> HIDE DEF c
  <2>7. /\ DOMAIN long = 1..(Len(R(r)) + 1) /\ DOMAIN R(r) = 1..Len(R(r)) /\ Len(R(r)) \in Nat
        /\ long[1] = c /\ \A i \in 1..Len(R(r)) : long[i + 1] = R(r)[i]
    BY <2>4, <2>6, ConsPlaces
  <2>8. ASSUME NEW i \in DOMAIN long PROVE long[i].type = "retain"
    <3>1. CASE i = 1
      BY <2>6, <2>7, <3>1
    <3>2. CASE i # 1
      <4>1. i - 1 \in 1..Len(R(r)) /\ (i - 1) + 1 = i
        BY <2>7, <3>2
      <4> QED
        BY <2>4, <2>7, <4>1 DEF Kept
    <3> QED
      BY <3>1, <3>2
  <2> HIDE DEF long
  <2>9. Kept(long)
    BY <2>8 DEF Kept
  <2> QED
    BY <2>3, <2>9 DEF long, c
<1>4. \A e \in Op : R(e) \in Op
  BY <1>0, Rebased DEF Pairs
<1> HIDE DEF S, R
<1>5. Nat \subseteq S
  BY <1>2, <1>3, Induction
<1>6. \A e \in Op : Len(e) \in Nat
  BY DEF Op
<1> QED
  BY <1>4, <1>5, <1>6 DEF S, R

LEMMA RemainderIs ==
    ASSUME NEW m \in Nat, NEW n \in Nat, NEW r \in Op
    PROVE  /\ remainder(<<retain(m)>> \o r, n) = IF m = n THEN r ELSE <<retain(m - n)>> \o r
           /\ remainder(<<del(m)>> \o r, n) = IF m = n THEN r ELSE <<del(m - n)>> \o r
<1>1. /\ Head(<<retain(m)>> \o r) = retain(m) /\ Tail(<<retain(m)>> \o r) = r
      /\ Head(<<del(m)>> \o r) = del(m) /\ Tail(<<del(m)>> \o r) = r
  BY Constructors, ConsType
<1>2. /\ compLen(retain(m)) = m /\ compLen(del(m)) = m
      /\ retain(m).type # "insert" /\ del(m).type # "insert"
  BY DEF compLen, retain, del
<1>3. /\ [retain(m) EXCEPT !.count = @ - n] = retain(m - n)
      /\ [del(m) EXCEPT !.count = @ - n] = del(m - n)
  BY DEF retain, del
<1> QED
  BY <1>1, <1>2, <1>3 DEF remainder

\* The marker on its way: still o characters to go, or to be inserted here.
MarkAt(o, i) ==
    \/ i = <<retain(o)>> \o <<insert(<<Marker>>)>>
    \/ o = 0 /\ i = <<insert(<<Marker>>)>>

Marked(i, e) == rebased("existingWins")[<<i, e>>]

LEMMA MarkType ==
    ASSUME NEW o \in Nat
    PROVE  /\ <<insert(<<Marker>>)>> \in Op /\ <<retain(o)>> \o <<insert(<<Marker>>)>> \in Op
           /\ \A i : MarkAt(o, i) => i \in Op /\ i # <<>>
           /\ starts(<<insert(<<Marker>>)>>, "insert")
           /\ ~starts(<<retain(o)>> \o <<insert(<<Marker>>)>>, "insert")
           /\ MarkAt(0, <<insert(<<Marker>>)>>)
           /\ MarkAt(o, <<retain(o)>> \o <<insert(<<Marker>>)>>)
<1> DEFINE m == <<insert(<<Marker>>)>>
           i == <<retain(o)>> \o m
<1>1. m \in Op /\ m # <<>> /\ Head(m) = insert(<<Marker>>)
  BY MarkerIs DEF Op
<1>2. retain(o) \in Component
  BY Constructors
<1>3. i \in Op /\ i # <<>> /\ Head(i) = retain(o)
  BY <1>1, <1>2, ConsType
<1>4. insert(<<Marker>>).type = "insert" /\ retain(o).type # "insert"
  BY DEF insert, retain
<1> QED
  BY <1>1, <1>3, <1>4 DEF MarkAt, starts

\* What another client inserts at the marker's place goes in front of it.
LEMMA MarkedInsert ==
    ASSUME NEW o \in Nat, NEW i, MarkAt(o, i), NEW x \in Seq(Char), NEW r \in Op,
           NEW p \in Nat, Lands(Marked(i, r), p)
    PROVE  Lands(Marked(i, <<insert(x)>> \o r), Len(x) + p)
<1> DEFINE e == <<insert(x)>> \o r
<1>1. e \in Op /\ Head(e) = insert(x) /\ Tail(e) = r /\ e # <<>> /\ i \in Op
  BY Constructors, ConsType, MarkType
<1>2. GoesFirst("existingWins", i, e)
  BY <1>1 DEF GoesFirst, starts, insert
<1>3. Marked(i, e) = <<retain(Len(x))>> \o Marked(i, r)
  <2>1. Marked(i, e) = Rebasing(rebased("existingWins"), "existingWins", i, e)
    BY <1>1, Rebased DEF Marked
  <2>2. insert(x).text = x
    BY DEF insert
  <2> QED
    BY <1>1, <1>2, <2>1, <2>2 DEF Rebasing, Marked
<1>4. Len(x) \in Nat /\ Marked(i, r) \in Op
  BY DEF Lands
<1> QED
  BY <1>3, <1>4, LandsAfter

LEMMA MarkedHere ==
    ASSUME NEW e \in Op, ~starts(e, "insert")
    PROVE  Lands(Marked(<<insert(<<Marker>>)>>, e), 0)
<1> DEFINE i == <<insert(<<Marker>>)>>
<1>1. i \in Op /\ starts(i, "insert") /\ Head(i) = insert(<<Marker>>) /\ Tail(i) = <<>>
  <2>1. 0 \in Nat
    OBVIOUS
  <2>2. i \in Op /\ starts(i, "insert")
    BY <2>1, MarkType
  <2>3. \A c : Head(<<c>>) = c /\ Tail(<<c>>) = <<>>
    OBVIOUS
  <2> QED
    BY <2>2, <2>3
<1>2. Marked(i, e) = <<insert(<<Marker>>)>> \o rebased("existingWins")[<<<<>>, e>>]
  <2>1. Marked(i, e) = Rebasing(rebased("existingWins"), "existingWins", i, e)
    BY <1>1, Rebased DEF Marked
  <2> HIDE DEF i
  <2>2. ~GoesFirst("existingWins", i, e)
    BY DEF GoesFirst
  <2> QED
    BY <1>1, <2>1, <2>2 DEF Rebasing
<1> QED
  BY <1>2, NothingLeft, LandsHere

LEMMA MarkedAtEnd ==
    ASSUME NEW o \in Nat, NEW i, MarkAt(o, i)
    PROVE  Lands(Marked(i, <<>>), o)
<1>0. <<>> \in Op /\ ~starts(<<>>, "insert")
  BY DEF Op, starts
<1>1. CASE o = 0 /\ i = <<insert(<<Marker>>)>>
  BY <1>0, <1>1, MarkedHere
<1>2. CASE i = <<retain(o)>> \o <<insert(<<Marker>>)>>
  <2>1. i \in Op /\ i # <<>> /\ ~starts(i, "insert")
    BY <1>2, MarkType
  <2>2. Marked(i, <<>>) = i
    <3>1. Marked(i, <<>>) = Rebasing(rebased("existingWins"), "existingWins", i, <<>>)
      BY <1>0, <2>1, Rebased DEF Marked
    <3> QED
      BY <1>0, <2>1, <3>1 DEF Rebasing, GoesFirst
  <2>3. Lands(<<insert(<<Marker>>)>> \o <<>>, 0)
    <3>1. Kept(<<>>)
      BY DEF Kept
    <3> QED
      BY <1>0, <3>1, LandsHere
  <2>4. <<insert(<<Marker>>)>> \o <<>> = <<insert(<<Marker>>)>>
    BY MarkType, ConcatEmptySeq DEF Op
  <2>5. Lands(i, o + 0)
    BY <1>2, <2>3, <2>4, MarkType, LandsAfter
  <2> QED
    BY <2>2, <2>5
<1> QED
  BY <1>1, <1>2 DEF MarkAt

\* One step of the marker past what is kept or deleted.
LEMMA MarkedStep ==
    ASSUME NEW o \in Nat, NEW k \in Nat, NEW r \in Op
    PROVE  LET i == <<retain(o)>> \o <<insert(<<Marker>>)>>
               n == Least(o, k)
           IN  /\ Marked(i, <<retain(k)>> \o r)
                      = <<retain(n)>> \o Marked(remainder(i, n), remainder(<<retain(k)>> \o r, n))
               /\ Marked(i, <<del(k)>> \o r)
                      = Marked(remainder(i, n), remainder(<<del(k)>> \o r, n))
<1> DEFINE i == <<retain(o)>> \o <<insert(<<Marker>>)>>
           n == Least(o, k)
           e == <<retain(k)>> \o r
           d == <<del(k)>> \o r
<1>1. i \in Op /\ i # <<>> /\ Head(i) = retain(o) /\ ~starts(i, "insert")
  BY Constructors, ConsType, MarkType
<1>2. /\ e \in Op /\ e # <<>> /\ Head(e) = retain(k)
      /\ d \in Op /\ d # <<>> /\ Head(d) = del(k)
  BY Constructors, ConsType
<1>3. /\ compLen(retain(o)) = o /\ compLen(retain(k)) = k /\ compLen(del(k)) = k
      /\ retain(k).type = "retain" /\ del(k).type = "delete"
      /\ retain(o).type = "retain" /\ n \in Nat
  BY DEF compLen, retain, del, Least
<1>4. Overlap(i, e) = n /\ Overlap(i, d) = n
  BY <1>1, <1>2, <1>3 DEF Overlap
<1>5. ~starts(e, "insert") /\ ~starts(d, "insert")
  BY <1>2, <1>3 DEF starts
<1>6. next(i, n) = retain(n)
  <2>1. next(i, n) = [retain(o) EXCEPT !.count = n]
    BY <1>1, <1>3 DEF next
  <2> QED
    BY <2>1 DEF retain
<1>7. /\ Marked(i, e) = Rebasing(rebased("existingWins"), "existingWins", i, e)
      /\ Marked(i, d) = Rebasing(rebased("existingWins"), "existingWins", i, d)
  BY <1>1, <1>2, Rebased DEF Marked
<1> HIDE DEF i, n, e, d
<1>8. Marked(i, e) = <<retain(n)>> \o Marked(remainder(i, n), remainder(e, n))
  BY <1>1, <1>2, <1>3, <1>4, <1>5, <1>6, <1>7 DEF Rebasing, GoesFirst, Marked
<1>9. Marked(i, d) = Marked(remainder(i, n), remainder(d, n))
  <2>1. Marked(i, d) = <<>> \o Marked(remainder(i, n), remainder(d, n))
    BY <1>1, <1>2, <1>3, <1>4, <1>5, <1>7 DEF Rebasing, GoesFirst, Marked
  <2>2. Marked(remainder(i, n), remainder(d, n)) \in Op
    <3>1. n <= compLen(Head(i)) /\ n <= compLen(Head(d))
      BY <1>1, <1>2, <1>3 DEF n, Least
    <3>2. remainder(i, n) \in Op /\ remainder(d, n) \in Op
      BY <1>1, <1>2, <1>3, <3>1, HeadCutType
    <3> QED
      BY <3>2, Rebased DEF Marked, Pairs
  <2> QED
    BY <2>1, <2>2, ConcatEmptySeq DEF Op
<1> QED
  BY <1>8, <1>9 DEF i, n, e, d

\* Where the marker lands, and the caret with it, when a characters of the text
\* have been passed already.
Together(o, e) ==
    \A i, a : MarkAt(o, i) /\ a \in Nat =>
        /\ CaretFrom(a, a + o, e) >= a
        /\ Lands(Marked(i, e), CaretFrom(a, a + o, e) - a)

LEMMA TogetherInsert ==
    ASSUME NEW o \in Nat, NEW x \in Seq(Char), NEW r \in Op, Kept(r), Together(o, r)
    PROVE  Together(o, <<insert(x)>> \o r)
<1> SUFFICES ASSUME NEW i, NEW a \in Nat, MarkAt(o, i)
             PROVE  /\ CaretFrom(a, a + o, <<insert(x)>> \o r) >= a
                    /\ Lands(Marked(i, <<insert(x)>> \o r), CaretFrom(a, a + o, <<insert(x)>> \o r) - a)
  BY DEF Together
<1> DEFINE n == Len(x)
<1>1. n \in Nat /\ a + o \in Nat /\ (a + o) + n \in Nat /\ a <= a + o
  OBVIOUS
<1>2. CaretFrom(a, a + o, <<insert(x)>> \o r) = (a + o) + n
  <2>1. CaretFrom(a, a + o, <<insert(x)>> \o r) = CaretFrom(a, (a + o) + n, r)
    BY <1>1, CaretFirst
  <2>2. \A q \in Nat : CaretFrom(a, q, r) = q
    BY CaretKept
  <2> QED
    BY <1>1, <2>1, <2>2
<1>3. CaretFrom(a, a + o, r) = a + o
  BY <1>1, CaretKept
<1>4. Lands(Marked(i, r), o)
  <2>1. (a + o) - a = o
    OBVIOUS
  <2> QED
    BY <1>3, <2>1 DEF Together
<1>5. Lands(Marked(i, <<insert(x)>> \o r), n + o)
  BY <1>4, MarkedInsert
<1>6. ((a + o) + n) - a = n + o /\ (a + o) + n >= a
  BY <1>1
<1> QED
  BY <1>2, <1>5, <1>6


\* No component is empty.
Full(op) == \A i \in DOMAIN op : compLen(op[i]) > 0

LEMMA FullRest ==
    ASSUME NEW c \in Component, NEW op \in Op, Full(<<c>> \o op)
    PROVE  compLen(c) > 0 /\ Full(op)
<1> DEFINE e == <<c>> \o op
<1>1. /\ DOMAIN e = 1..(Len(op) + 1) /\ DOMAIN op = 1..Len(op) /\ Len(op) \in Nat
      /\ e[1] = c /\ \A i \in 1..Len(op) : e[i + 1] = op[i]
  BY ConsPlaces
<1>2. Full(e)
  OBVIOUS
<1> HIDE DEF e
<1>3. 1 \in DOMAIN e /\ \A i \in 1..Len(op) : i + 1 \in DOMAIN e
  BY <1>1
<1> QED
  BY <1>1, <1>2, <1>3 DEF Full

\* A component that keeps or deletes as much as is before the marker, or less.
LEMMA TogetherPast ==
    ASSUME NEW o \in Nat, NEW k \in Nat, k <= o, NEW r \in Op, Together(o - k, r), NEW a \in Nat
    PROVE  LET i == <<retain(o)>> \o <<insert(<<Marker>>)>>
           IN  /\ /\ CaretFrom(a, a + o, <<retain(k)>> \o r) >= a
                  /\ Lands(Marked(i, <<retain(k)>> \o r), CaretFrom(a, a + o, <<retain(k)>> \o r) - a)
               /\ Kept(r) =>
                     /\ CaretFrom(a, a + o, <<del(k)>> \o r) >= a
                     /\ Lands(Marked(i, <<del(k)>> \o r), CaretFrom(a, a + o, <<del(k)>> \o r) - a)
<1> DEFINE m == <<insert(<<Marker>>)>>
           i == <<retain(o)>> \o m
           j == remainder(i, k)
<1>1. Least(o, k) = k
  BY DEF Least
<1>2. MarkAt(o - k, j)
  <2>1. m \in Op
    BY MarkType
  <2>2. j = IF o = k THEN m ELSE <<retain(o - k)>> \o m
    BY <2>1, RemainderIs
  <2>3. o = k => o - k = 0
    OBVIOUS
  <2> QED
    BY <2>2, <2>3 DEF MarkAt
<1>3. remainder(<<retain(k)>> \o r, k) = r /\ remainder(<<del(k)>> \o r, k) = r
  BY RemainderIs
<1>4. /\ Marked(i, <<retain(k)>> \o r) = <<retain(k)>> \o Marked(j, r)
      /\ Marked(i, <<del(k)>> \o r) = Marked(j, r)
  <2>1. /\ Marked(i, <<retain(k)>> \o r)
               = <<retain(Least(o, k))>> \o Marked(remainder(i, Least(o, k)), remainder(<<retain(k)>> \o r, Least(o, k)))
        /\ Marked(i, <<del(k)>> \o r)
               = Marked(remainder(i, Least(o, k)), remainder(<<del(k)>> \o r, Least(o, k)))
    BY MarkedStep
  <2> QED
    BY <1>1, <1>3, <2>1
<1> HIDE DEF i, j
<1>5. /\ a + k \in Nat /\ (a + k) + (o - k) = a + o /\ o - k \in Nat /\ a + o \in Nat
      /\ a + (o - k) \in Nat /\ (a + (o - k)) - a = o - k /\ a + (o - k) >= a
  OBVIOUS
<1>6. /\ CaretFrom(a, a + o, <<retain(k)>> \o r) >= a
      /\ Lands(Marked(i, <<retain(k)>> \o r), CaretFrom(a, a + o, <<retain(k)>> \o r) - a)
  <2> DEFINE C == CaretFrom(a + k, a + o, r)
  <2>1. CaretFrom(a, a + o, <<retain(k)>> \o r) = C /\ C \in Nat
    <3> DEFINE p == a + k
               q == a + o
    <3>1. p \in Nat /\ q \in Nat
      OBVIOUS
    <3> HIDE DEF p, q
    <3>2. CaretFrom(p, q, r) \in Nat
      BY <3>1, CaretFirst
    <3>3. CaretFrom(a, q, <<retain(k)>> \o r) = CaretFrom(a + k, q, r)
      BY <3>1, CaretFirst
    <3> QED
      BY <3>2, <3>3 DEF p, q
  <2>2. C >= a + k /\ Lands(Marked(j, r), C - (a + k))
    BY <1>2, <1>5 DEF Together
  <2> HIDE DEF C
  <2>3. C - (a + k) \in Nat /\ k + (C - (a + k)) = C - a /\ C >= a
    BY <2>1, <2>2
  <2>4. Marked(j, r) \in Op
    BY <2>2 DEF Lands
  <2>5. Lands(<<retain(k)>> \o Marked(j, r), k + (C - (a + k)))
    BY <2>2, <2>3, <2>4, LandsAfter
  <2> QED
    BY <1>4, <2>1, <2>3, <2>5
<1>7. ASSUME Kept(r)
      PROVE  /\ CaretFrom(a, a + o, <<del(k)>> \o r) >= a
             /\ Lands(Marked(i, <<del(k)>> \o r), CaretFrom(a, a + o, <<del(k)>> \o r) - a)
  <2>1. CaretFrom(a, a + o, <<del(k)>> \o r) = a + (o - k)
    <3>1. (IF a < a + o THEN (a + o) - Least(k, (a + o) - a) ELSE a + o) = a + (o - k)
      BY DEF Least
    <3>2. CaretFrom(a, a + o, <<del(k)>> \o r) = CaretFrom(a + k, a + (o - k), r)
      <4> DEFINE q == a + o
      <4>1. q \in Nat
        OBVIOUS
      <4> HIDE DEF q
      <4>2. CaretFrom(a, q, <<del(k)>> \o r) = CaretFrom(a + k, IF a < q THEN q - Least(k, q - a) ELSE q, r)
        BY <4>1, CaretFirst
      <4> QED
        BY <3>1, <4>2 DEF q
    <3> QED
      BY <1>5, <1>7, <3>2, CaretKept
  <2>2. CaretFrom(a, a + (o - k), r) = a + (o - k)
    BY <1>5, <1>7, CaretKept
  <2>3. Lands(Marked(j, r), o - k)
    <3>1. Lands(Marked(j, r), CaretFrom(a, a + (o - k), r) - a)
      BY <1>2 DEF Together
    <3> QED
      BY <1>5, <2>2, <3>1
  <2> QED
    BY <1>4, <1>5, <2>1, <2>3
<1> QED
  BY <1>6, <1>7 DEF i

\* A component that keeps or deletes the characters on both sides of the marker.
LEMMA TogetherAcross ==
    ASSUME NEW o \in Nat, NEW k \in Nat, k > o, NEW r \in Op, NEW i, MarkAt(o, i), NEW a \in Nat
    PROVE  /\ /\ CaretFrom(a, a + o, <<retain(k)>> \o r) >= a
              /\ Lands(Marked(i, <<retain(k)>> \o r), CaretFrom(a, a + o, <<retain(k)>> \o r) - a)
           /\ Kept(r) =>
                 /\ CaretFrom(a, a + o, <<del(k)>> \o r) >= a
                 /\ Lands(Marked(i, <<del(k)>> \o r), CaretFrom(a, a + o, <<del(k)>> \o r) - a)
<1> DEFINE m == <<insert(<<Marker>>)>>
           e == <<retain(k)>> \o r
           d == <<del(k)>> \o r
<1>1. /\ a + o \in Nat /\ a + k \in Nat /\ a + k > a + o /\ (a + o) - a = o /\ a + o >= a
      /\ a >= a /\ a - a = 0 /\ k - o \in Nat /\ k # o
  OBVIOUS
<1>2. CaretFrom(a, a + o, e) = a + o
  <2>1. CaretFrom(a, a + o, e) = CaretFrom(a + k, a + o, r)
    BY <1>1, CaretFirst
  <2> QED
    BY <1>1, <2>1, CaretPassed
<1>3. ASSUME Kept(r) PROVE CaretFrom(a, a + o, d) = a
  <2>1. (IF a < a + o THEN (a + o) - Least(k, (a + o) - a) ELSE a + o) = a
    BY DEF Least
  <2>2. CaretFrom(a, a + o, d) = CaretFrom(a + k, a, r)
    <3> DEFINE q == a + o
    <3>1. q \in Nat
      OBVIOUS
    <3> HIDE DEF q
    <3>2. CaretFrom(a, q, d) = CaretFrom(a + k, IF a < q THEN q - Least(k, q - a) ELSE q, r)
      BY <3>1, CaretFirst
    <3> QED
      BY <2>1, <3>2 DEF q
  <2> QED
    BY <1>1, <1>3, <2>2, CaretKept
<1>4. ASSUME NEW n \in Nat
      PROVE  /\ <<retain(n)>> \o r \in Op /\ ~starts(<<retain(n)>> \o r, "insert")
             /\ <<del(n)>> \o r \in Op /\ ~starts(<<del(n)>> \o r, "insert")
  <2>1. retain(n) \in Component /\ del(n) \in Component
    BY Constructors
  <2>2. retain(n).type # "insert" /\ del(n).type # "insert"
    BY DEF retain, del
  <2> QED
    BY <2>1, <2>2, ConsType DEF starts
<1>5. Lands(Marked(i, e), o) /\ Lands(Marked(i, d), 0)
  <2>1. CASE o = 0 /\ i = m
    BY <1>4, <2>1, MarkedHere
  <2>2. CASE i = <<retain(o)>> \o m
    <3>1. Least(o, k) = o
      BY DEF Least
    <3>2. /\ Marked(i, e) = <<retain(o)>> \o Marked(remainder(i, o), remainder(e, o))
          /\ Marked(i, d) = Marked(remainder(i, o), remainder(d, o))
      <4> DEFINE j == <<retain(o)>> \o m
      <4>1. /\ Marked(j, e) = <<retain(Least(o, k))>> \o Marked(remainder(j, Least(o, k)), remainder(e, Least(o, k)))
            /\ Marked(j, d) = Marked(remainder(j, Least(o, k)), remainder(d, Least(o, k)))
        BY MarkedStep
      <4> HIDE DEF e, d, m
      <4> QED
        BY <2>2, <3>1, <4>1
    <3>3. remainder(i, o) = m
      <4>1. m \in Op
        BY MarkType
      <4> QED
        BY <2>2, <4>1, RemainderIs
    <3>4. remainder(e, o) = <<retain(k - o)>> \o r /\ remainder(d, o) = <<del(k - o)>> \o r
      BY <1>1, RemainderIs
    <3>5. Lands(Marked(m, remainder(e, o)), 0) /\ Lands(Marked(m, remainder(d, o)), 0)
      BY <1>1, <1>4, <3>4, MarkedHere
    <3>6. Lands(<<retain(o)>> \o Marked(m, remainder(e, o)), o + 0)
      <4>1. Marked(m, remainder(e, o)) \in Op
        BY <3>5 DEF Lands
      <4> HIDE DEF m, e
      <4> QED
        BY <3>5, <4>1, LandsAfter
    <3>7. o + 0 = o
      OBVIOUS
    <3> QED
      BY <3>2, <3>3, <3>5, <3>6, <3>7
  <2> QED
    BY <2>1, <2>2 DEF MarkAt
<1> QED
  BY <1>1, <1>2, <1>3, <1>5

\* The caret goes where the marker goes, however much of the text lies before them.
LEMMA TogetherAll ==
    \A e \in Op, o \in Nat : AtMostOne(e) /\ Full(e) => Together(o, e)
<1> DEFINE S == {n \in Nat : \A e \in Op, o \in Nat :
                                  Len(e) = n /\ AtMostOne(e) /\ Full(e) => Together(o, e)}
<1>1. 0 \in S
  <2> SUFFICES ASSUME NEW o \in Nat, NEW i, NEW a \in Nat, MarkAt(o, i)
               PROVE  /\ CaretFrom(a, a + o, <<>>) >= a
                      /\ Lands(Marked(i, <<>>), CaretFrom(a, a + o, <<>>) - a)
    <3>1. \A e \in Op : Len(e) = 0 => e = <<>>
      BY EmptySeq DEF Op
    <3> QED
      BY <3>1 DEF Together
  <2>1. a + o \in Nat /\ a + o >= a /\ (a + o) - a = o /\ <<>> \in Op
    BY DEF Op
  <2>2. CaretFrom(a, a + o, <<>>) = a + o
    BY <2>1, CaretFirst
  <2> QED
    BY <2>1, <2>2, MarkedAtEnd
<1>2. ASSUME NEW n \in S PROVE n + 1 \in S
  <2> SUFFICES ASSUME NEW e \in Op, NEW o \in Nat, Len(e) = n + 1, AtMostOne(e), Full(e)
               PROVE  Together(o, e)
    OBVIOUS
  <2> DEFINE c == Head(e)
             r == Tail(e)
  <2>0. e # <<>>
    OBVIOUS
  <2>1. c \in Component /\ r \in Op /\ e = <<c>> \o r /\ Len(r) = n
    BY <2>0, HeadTail
  <2> HIDE DEF c, r
  <2>2. compLen(c) > 0 /\ Full(r)
    BY <2>1, FullRest
  <2>3. IF c.type = "retain" THEN AtMostOne(r) ELSE Kept(r)
    BY <2>1, OneChange
  <2>4. AtMostOne(r)
    BY <2>1, <2>3, KeptIsOne
  <2>5. \A p \in Nat : Together(p, r)
    BY <2>1, <2>2, <2>4
  <2>6. CASE c.type = "insert"
    <3>1. c.text \in Seq(Char) /\ c = insert(c.text)
      BY <2>1, <2>6, Components
    <3>2. Together(o, <<insert(c.text)>> \o r)
      BY <2>1, <2>3, <2>5, <2>6, <3>1, TogetherInsert
    <3> QED
      BY <2>1, <3>1, <3>2
  <2>7. CASE c.type # "insert"
    <3> DEFINE k == c.count
    <3>1. k \in Nat /\ k > 0 /\ ((c.type = "retain" /\ c = retain(k)) \/ (c.type = "delete" /\ c = del(k)))
      <4>1. k \in Nat /\ ((c.type = "retain" /\ c = retain(k)) \/ (c.type = "delete" /\ c = del(k)))
        <5>1. \/ c.type = "retain" /\ c.count \in Nat /\ c = retain(c.count)
              \/ c.type = "insert" /\ c.text \in Seq(Char) /\ c = insert(c.text)
              \/ c.type = "delete" /\ c.count \in Nat /\ c = del(c.count)
          BY <2>1, Components
        <5> QED
          BY <2>7, <5>1
      <4>2. compLen(c) = k
        BY <2>7 DEF compLen
      <4> HIDE DEF k
      <4> QED
        BY <2>2, <4>1, <4>2
    <3> HIDE DEF k
    <3>2. e = <<retain(k)>> \o r \/ (e = <<del(k)>> \o r /\ Kept(r))
      BY <2>1, <2>3, <3>1
    <3> SUFFICES ASSUME NEW i, NEW a \in Nat, MarkAt(o, i)
                 PROVE  /\ CaretFrom(a, a + o, e) >= a
                        /\ Lands(Marked(i, e), CaretFrom(a, a + o, e) - a)
      BY DEF Together
    <3>3. CASE k > o
      BY <2>1, <3>1, <3>2, <3>3, TogetherAcross
    <3>4. CASE k <= o
      <4>1. i = <<retain(o)>> \o <<insert(<<Marker>>)>>
        BY <3>1, <3>4 DEF MarkAt
      <4>2. o - k \in Nat
        BY <3>1, <3>4
      <4>3. Together(o - k, r)
        BY <2>5, <4>2
      <4> QED
        BY <2>1, <3>1, <3>2, <3>4, <4>1, <4>3, TogetherPast
    <3> QED
      BY <3>1, <3>3, <3>4
  <2> QED
    BY <2>6, <2>7
<1> HIDE DEF S
<1>3. Nat \subseteq S
  BY <1>1, <1>2, Induction
<1>4. \A e \in Op : Len(e) \in Nat
  BY DEF Op
<1> QED
  BY <1>3, <1>4 DEF S

----------------------------------------------------------------------------
\* How often a character is in a text, and is inserted by an operation.

Marks(k) == [c \in Char |-> IF c = k THEN 1 ELSE 0]
Copies(t, k) == Total(Char, Marks(k), t)

Weight(k) == [c \in Component |-> IF c.type = "insert" THEN Copies(c.text, k) ELSE 0]
Inserted(op, k) == Total(Component, Weight(k), op)

LEMMA CopiesLaws ==
    ASSUME NEW k
    PROVE  /\ Copies(<<>>, k) = 0
           /\ \A t \in Seq(Char) : Copies(t, k) \in Nat
           /\ \A x, y \in Seq(Char) : Copies(x \o y, k) = Copies(x, k) + Copies(y, k)
<1>1. Marks(k) \in [Char -> Nat]
  BY DEF Marks
<1> QED
  BY <1>1, TotalFirst, TotalJoined DEF Copies

LEMMA CopyOfOne ==
    ASSUME NEW k, NEW c \in Char
    PROVE  Copies(<<c>>, k) = IF c = k THEN 1 ELSE 0
<1>1. Marks(k) \in [Char -> Nat] /\ Marks(k)[c] = IF c = k THEN 1 ELSE 0
  BY DEF Marks
<1>2. <<>> \in Seq(Char) /\ Append(<<>>, c) = <<c>>
  OBVIOUS
<1>3. Total(Char, Marks(k), Append(<<>>, c)) = Total(Char, Marks(k), <<>>) + Marks(k)[c]
  BY <1>1, <1>2, TotalFirst
<1>4. Total(Char, Marks(k), <<>>) = 0
  BY <1>1, TotalFirst
<1> QED
  BY <1>1, <1>2, <1>3, <1>4 DEF Copies

\* A character that is there is counted, and one that is there twice is counted twice.
LEMMA CopiesFound ==
    ASSUME NEW t \in Seq(Char), NEW i \in 1..Len(t)
    PROVE  /\ Copies(t, t[i]) >= 1
           /\ \A j \in 1..Len(t) : i # j /\ t[i] = t[j] => Copies(t, t[i]) >= 2
<1>1. \A k : Marks(k) \in [Char -> Nat] /\ \A c \in Char : Marks(k)[c] = IF c = k THEN 1 ELSE 0
  BY DEF Marks
<1>2. \A j \in 1..Len(t) : t[j] \in Char
  OBVIOUS
<1>0. Len(t) \in Nat
  OBVIOUS
<1>3. ASSUME NEW k, NEW m \in 1..Len(t)
      PROVE  /\ Marks(k)[t[m]] <= Copies(t, k)
             /\ \A j \in 1..(m - 1) : Marks(k)[t[j]] + Marks(k)[t[m]] <= Copies(t, k)
  BY <1>1, TotalOfTwo DEF Copies
<1>4. Copies(t, t[i]) \in Nat
  BY CopiesLaws
<1>5. Copies(t, t[i]) >= 1
  BY <1>1, <1>2, <1>3, <1>4
<1>6. ASSUME NEW j \in 1..Len(t), i # j, t[i] = t[j] PROVE Copies(t, t[i]) >= 2
  <2>1. Marks(t[i])[t[i]] = 1 /\ Marks(t[i])[t[j]] = 1
    BY <1>1, <1>2, <1>6
  <2>2. j \in 1..(i - 1) \/ i \in 1..(j - 1)
    BY <1>0, <1>6
  <2>3. 1 + 1 <= Copies(t, t[i])
    BY <1>3, <2>1, <2>2
  <2> QED
    BY <1>4, <2>3
<1> QED
  BY <1>5, <1>6

\* A text that does not have a character has no copy of it.
LEMMA CopiesAbsent ==
    ASSUME NEW t \in Seq(Char), NEW k, k \notin Range(t)
    PROVE  Copies(t, k) = 0
<1>1. Marks(k) \in [Char -> Nat] /\ \A c \in Char : c # k => Marks(k)[c] = 0
  BY DEF Marks
<1>2. \A i \in 1..Len(t) : t[i] \in Char /\ t[i] # k
  BY DEF Range
<1> QED
  BY <1>1, <1>2, TotalNone DEF Copies

LEMMA CutsMake ==
    ASSUME NEW t \in Seq(Char), NEW n \in Nat
    PROVE  /\ Cut(t, 0, n) \in Seq(Char) /\ Cut(t, n, Len(t)) \in Seq(Char)
           /\ Cut(t, 0, n) \o Cut(t, n, Len(t)) = t
<1>0. Len(t) \in Nat
  OBVIOUS
<1>1. CASE n <= Len(t)
  <2>1. Cut(t, 0, n) \in Seq(Char) /\ Cut(t, n, Len(t)) \in Seq(Char)
    BY <1>1, CutLength
  <2>2. 0 <= n /\ 0 \in Nat
    OBVIOUS
  <2>3. Cut(t, 0, n) \o Cut(t, n, Len(t)) = Cut(t, 0, Len(t))
    BY <1>0, <1>1, <2>2, CutJoin
  <2> QED
    BY <2>1, <2>3, CutWhole
<1>2. CASE n > Len(t)
  <2>1. Least(n, Len(t)) = Len(t) /\ Least(Len(t), Len(t)) = Len(t)
    BY <1>0, <1>2 DEF Least
  <2>2. Cut(t, 0, n) = t
    BY <2>1, CutWhole DEF Cut
  <2>3. Cut(t, n, Len(t)) \in Seq(Char) /\ Len(Cut(t, n, Len(t))) = 0
    BY <1>0, <1>2, <2>1, CutProperties
  <2>4. Cut(t, n, Len(t)) = <<>>
    BY <2>3, EmptySeq
  <2> QED
    BY <2>2, <2>3, <2>4, ConcatEmptySeq
<1> QED
  BY <1>0, <1>1, <1>2

LEMMA WeightIs ==
    ASSUME NEW k
    PROVE  /\ Weight(k) \in [Component -> Nat]
           /\ \A c \in Component : c.type # "insert" => Weight(k)[c] = 0
           /\ \A x \in Seq(Char) : Weight(k)[insert(x)] = Copies(x, k)
           /\ \A n \in Nat : Weight(k)[retain(n)] = 0 /\ Weight(k)[del(n)] = 0
<1>1. \A c \in Component : c.type = "insert" => Copies(c.text, k) \in Nat
  BY Components, CopiesLaws
<1>2. \A x \in Seq(Char) : insert(x) \in Component /\ insert(x).type = "insert" /\ insert(x).text = x
  BY Constructors DEF insert
<1>3. \A n \in Nat : /\ retain(n) \in Component /\ retain(n).type # "insert"
                     /\ del(n) \in Component /\ del(n).type # "insert"
  BY Constructors DEF retain, del
<1> QED
  BY <1>1, <1>2, <1>3 DEF Weight

LEMMA InsertedLaws ==
    ASSUME NEW k
    PROVE  /\ Inserted(<<>>, k) = 0
           /\ \A op \in Op : Inserted(op, k) \in Nat
           /\ \A op \in Op, c \in Component : Inserted(<<c>> \o op, k) = Weight(k)[c] + Inserted(op, k)
           /\ \A op \in Op, c \in Component : Inserted(Append(op, c), k) = Inserted(op, k) + Weight(k)[c]
           /\ \A a, b \in Op : Inserted(a \o b, k) = Inserted(a, k) + Inserted(b, k)
<1> DEFINE w == Weight(k)
<1>1. w \in [Component -> Nat]
  BY WeightIs
<1> HIDE DEF w
<1>2. /\ Total(Component, w, <<>>) = 0
      /\ \A s \in Op : Total(Component, w, s) \in Nat
      /\ \A s \in Op, c \in Component : Total(Component, w, <<c>> \o s) = w[c] + Total(Component, w, s)
      /\ \A s \in Op, c \in Component : Total(Component, w, Append(s, c)) = Total(Component, w, s) + w[c]
  BY <1>1, TotalFirst DEF Op
<1>3. \A s, t \in Op : Total(Component, w, s \o t) = Total(Component, w, s) + Total(Component, w, t)
  BY <1>1, TotalJoined DEF Op
<1> QED
  BY <1>2, <1>3 DEF Inserted, w

LEMMA InsertedFirst ==
    ASSUME NEW k, NEW op \in Op
    PROVE  /\ Inserted(op, k) \in Nat
           /\ \A n \in Nat : Inserted(<<retain(n)>> \o op, k) = Inserted(op, k)
           /\ \A n \in Nat : Inserted(<<del(n)>> \o op, k) = Inserted(op, k)
           /\ \A x \in Seq(Char) : Inserted(<<insert(x)>> \o op, k) = Copies(x, k) + Inserted(op, k)
<1>1. Inserted(op, k) \in Nat
  BY InsertedLaws
<1>2. \A c \in Component : Inserted(<<c>> \o op, k) = Weight(k)[c] + Inserted(op, k)
  BY InsertedLaws
<1>3. ASSUME NEW n \in Nat
      PROVE  Inserted(<<retain(n)>> \o op, k) = Inserted(op, k) /\ Inserted(<<del(n)>> \o op, k) = Inserted(op, k)
  <2>1. retain(n) \in Component /\ del(n) \in Component /\ Weight(k)[retain(n)] = 0 /\ Weight(k)[del(n)] = 0
    BY Constructors, WeightIs
  <2>2. /\ Inserted(<<retain(n)>> \o op, k) = 0 + Inserted(op, k)
        /\ Inserted(<<del(n)>> \o op, k) = 0 + Inserted(op, k)
    BY <1>2, <2>1
  <2> QED
    BY <1>1, <2>2
<1>4. \A x \in Seq(Char) : insert(x) \in Component /\ Weight(k)[insert(x)] = Copies(x, k)
  BY Constructors, WeightIs
<1> QED
  BY <1>1, <1>2, <1>3, <1>4

\* An operation puts no copy in the text but those it inserts.
LEMMA ApplyCopies ==
    ASSUME NEW k
    PROVE  \A op \in Op, t \in Seq(Char) : Copies(apply(t, op), k) <= Copies(t, k) + Inserted(op, k)
<1> DEFINE S == {n \in Nat : \A op \in Op, t \in Seq(Char) :
                     Len(op) = n => Copies(apply(t, op), k) <= Copies(t, k) + Inserted(op, k)}
<1>1. 0 \in S
  <2> SUFFICES ASSUME NEW op \in Op, NEW t \in Seq(Char), Len(op) = 0
               PROVE  Copies(apply(t, op), k) <= Copies(t, k) + Inserted(op, k)
    OBVIOUS
  <2>1. op = <<>>
    BY EmptySeq DEF Op
  <2>2. apply(t, op) = t /\ Inserted(op, k) = 0 /\ Copies(t, k) \in Nat
    BY <2>1, ApplyNone, InsertedLaws, CopiesLaws
  <2> QED
    BY <2>2
<1>2. ASSUME NEW n \in S PROVE n + 1 \in S
  <2> SUFFICES ASSUME NEW op \in Op, NEW t \in Seq(Char), Len(op) = n + 1
               PROVE  Copies(apply(t, op), k) <= Copies(t, k) + Inserted(op, k)
    OBVIOUS
  <2>0. op # <<>>
    OBVIOUS
  <2> DEFINE c == Head(op)
             r == Tail(op)
  <2>1. c \in Component /\ r \in Op /\ op = <<c>> \o r /\ Len(r) = n
    BY <2>0, HeadTail
  <2> HIDE DEF c, r
  <2>2. \A u \in Seq(Char) : /\ Copies(apply(u, r), k) <= Copies(u, k) + Inserted(r, k)
                             /\ apply(u, r) \in Seq(Char)
    BY <2>1, ApplyType
  <2>3. Inserted(r, k) \in Nat /\ Copies(t, k) \in Nat
    BY <2>1, InsertedLaws, CopiesLaws
  <2>4. CASE c.type = "insert"
    <3> DEFINE x == c.text
    <3>1. x \in Seq(Char) /\ c = insert(x)
      BY <2>1, <2>4, Components
    <3> HIDE DEF x
    <3>2. apply(t, op) = x \o apply(t, r)
      BY <2>1, <3>1, ApplyInsert
    <3>3. Copies(x \o apply(t, r), k) = Copies(x, k) + Copies(apply(t, r), k)
      BY <2>2, <3>1, CopiesLaws
    <3>4. Copies(x, k) \in Nat /\ Copies(apply(t, r), k) \in Nat
      BY <2>2, <3>1, CopiesLaws
    <3>5. Inserted(op, k) = Copies(x, k) + Inserted(r, k)
      BY <2>1, <3>1, InsertedFirst
    <3> QED
      BY <2>2, <2>3, <3>2, <3>3, <3>4, <3>5
  <2>5. CASE c.type # "insert"
    <3> DEFINE m == c.count
               u == Cut(t, 0, m)
               v == Cut(t, m, Len(t))
    <3>1. m \in Nat /\ (c = retain(m) \/ c = del(m))
      BY <2>1, <2>5, Components
    <3>2. u \in Seq(Char) /\ v \in Seq(Char) /\ u \o v = t
      BY <3>1, CutsMake
    <3>3. apply(t, op) = u \o apply(v, r) \/ apply(t, op) = apply(v, r)
      <4>1. apply(t, <<retain(m)>> \o r) = u \o apply(v, r) /\ apply(t, <<del(m)>> \o r) = apply(v, r)
        BY <2>1, <3>1, ApplyRetain, ApplyDelete
      <4> QED
        BY <2>1, <3>1, <4>1
    <3>4. Inserted(op, k) = Inserted(r, k)
      BY <2>1, <3>1, InsertedFirst
    <3> HIDE DEF m, u, v
    <3>5. /\ Copies(u \o apply(v, r), k) = Copies(u, k) + Copies(apply(v, r), k)
          /\ Copies(t, k) = Copies(u, k) + Copies(v, k)
          /\ Copies(u, k) \in Nat /\ Copies(v, k) \in Nat /\ Copies(apply(v, r), k) \in Nat
      BY <2>2, <3>2, CopiesLaws
    <3>6. Copies(apply(v, r), k) <= Copies(v, k) + Inserted(r, k)
      BY <2>2, <3>2
    <3> DEFINE A == Copies(u, k)
               B == Copies(v, k)
               D == Copies(apply(v, r), k)
               I == Inserted(r, k)
    <3>7. A \in Nat /\ B \in Nat /\ D \in Nat /\ I \in Nat /\ D <= B + I /\ Copies(t, k) = A + B
      BY <2>3, <3>5, <3>6
    <3>8. Copies(apply(t, op), k) = A + D \/ Copies(apply(t, op), k) = D
      BY <3>3, <3>5
    <3> HIDE DEF A, B, D, I
    <3>9. A + D <= (A + B) + I /\ D <= (A + B) + I
      BY <3>7
    <3>10. Inserted(op, k) = I
      BY <3>4 DEF I
    <3> QED
      BY <3>7, <3>8, <3>9, <3>10
  <2> QED
    BY <2>4, <2>5
<1> HIDE DEF S
<1>3. Nat \subseteq S
  BY <1>1, <1>2, Induction
<1>4. \A op \in Op : Len(op) \in Nat
  BY DEF Op
<1> QED
  BY <1>3, <1>4 DEF S

LEMMA JoinedWeight ==
    ASSUME NEW k, NEW c \in Component, NEW d \in Component, c.type = d.type
    PROVE  Joined(c, d) \in Component /\ Weight(k)[Joined(c, d)] = Weight(k)[c] + Weight(k)[d]
<1>1. Joined(c, d) \in Component
  <2>1. <<>> \in Seq(Char) /\ At(<<>>, 0) \in Progress
    BY EmptySeq, ProgressAt
  <2> QED
    BY <2>1, PassJoined
<1>2. CASE c.type = "insert"
  <2> DEFINE x == c.text
             y == d.text
  <2>1. x \in Seq(Char) /\ y \in Seq(Char) /\ c = insert(x) /\ d = insert(y)
    BY <1>2, Components
  <2>2. Joined(c, d) = insert(x \o y)
    BY <1>2 DEF Joined
  <2> HIDE DEF x, y
  <2>3. x \o y \in Seq(Char) /\ Copies(x \o y, k) = Copies(x, k) + Copies(y, k)
    BY <2>1, TextClosed, CopiesLaws
  <2>4. \A z \in Seq(Char) : Weight(k)[insert(z)] = Copies(z, k)
    BY WeightIs
  <2> QED
    BY <1>1, <2>1, <2>2, <2>3, <2>4
<1>3. CASE c.type # "insert"
  <2>1. Joined(c, d).type = c.type
    <3>1. Joined(c, d) = [c EXCEPT !.count = @ + d.count]
      BY <1>3 DEF Joined
    <3> QED
      BY <1>3, <3>1, Components DEF retain, del
  <2>2. Weight(k)[Joined(c, d)] = 0 /\ Weight(k)[c] = 0 /\ Weight(k)[d] = 0
    BY <1>1, <1>3, <2>1, WeightIs
  <2>3. 0 = 0 + 0
    OBVIOUS
  <2> QED
    BY <1>1, <2>2, <2>3
<1> QED
  BY <1>1, <1>2, <1>3

LEMMA PushInserted ==
    ASSUME NEW k, NEW out \in Op, NEW c \in Component
    PROVE  Inserted(Pushed(out, c), k) = Inserted(out, k) + Weight(k)[c]
<1>1. Inserted(out, k) \in Nat /\ Weight(k)[c] \in Nat
  BY InsertedLaws, WeightIs
<1>2. CASE compLen(c) = 0
  <2>1. Weight(k)[c] = 0
    <3>1. CASE c.type = "insert"
      <4>1. c.text \in Seq(Char) /\ c = insert(c.text)
        BY <3>1, Components
      <4>2. c.text = <<>>
        BY <1>2, <3>1, <4>1, EmptySeq DEF compLen
      <4>3. Weight(k)[c] = Copies(c.text, k)
        BY <4>1, WeightIs
      <4> QED
        BY <4>2, <4>3, CopiesLaws
    <3>2. CASE c.type # "insert"
      BY <3>2, WeightIs
    <3> QED
      BY <3>1, <3>2
  <2>2. Pushed(out, c) = out
    BY <1>2 DEF Pushed
  <2> QED
    BY <1>1, <2>1, <2>2
<1>3. CASE compLen(c) # 0 /\ out # <<>> /\ Last(out).type = c.type
  <2> DEFINE f == Front(out)
             l == Last(out)
             j == Joined(l, c)
  <2>1. Pushed(out, c) = Append(f, j)
    BY <1>3 DEF Pushed
  <2>2. f \in Op /\ l \in Component /\ out = Append(f, l) /\ l.type = c.type
    BY <1>3, FrontLast
  <2> HIDE DEF f, l
  <2>3. j \in Component /\ Weight(k)[j] = Weight(k)[l] + Weight(k)[c] /\ Weight(k)[l] \in Nat
    BY <2>2, JoinedWeight, WeightIs
  <2> HIDE DEF j
  <2>4. \A d \in Component : Inserted(Append(f, d), k) = Inserted(f, k) + Weight(k)[d]
    BY <2>2, InsertedLaws
  <2>5. Inserted(f, k) \in Nat
    BY <2>2, InsertedLaws
  <2>6. /\ Inserted(Append(f, j), k) = Inserted(f, k) + Weight(k)[j]
        /\ Inserted(out, k) = Inserted(f, k) + Weight(k)[l]
    BY <2>2, <2>3, <2>4
  <2> QED
    BY <1>1, <2>1, <2>3, <2>5, <2>6
<1>4. CASE compLen(c) # 0 /\ ~(out # <<>> /\ Last(out).type = c.type)
  <2>1. Pushed(out, c) = Append(out, c)
    BY <1>4 DEF Pushed
  <2> QED
    BY <2>1, InsertedLaws
<1> QED
  BY <1>2, <1>3, <1>4

LEMMA CompactInserted ==
    ASSUME NEW k, NEW op \in Op
    PROVE  Inserted(compact(op), k) = Inserted(op, k)
<1>1. PICK h \in [0..Len(op) -> Op] : Trace(h, push, <<>>, op)
  BY PushFoldable, TraceExists
<1>2. compact(op) = h[Len(op)]
  BY <1>1, PushFoldable, CompactIs, FoldTrace
<1>3. Len(op) \in Nat /\ \A m \in 1..Len(op) : op[m] \in Component
  BY DEF Op
<1> DEFINE w == Weight(k)
           gg == Weighed(Component, w)
           g == [m \in 0..Len(op) |-> Inserted(h[m], k)]
<1>4. g[0] = 0
  <2>1. 0 \in 0..Len(op) /\ h[0] = <<>>
    BY <1>1, <1>3 DEF Trace
  <2> QED
    BY <2>1, InsertedLaws
<1>5. ASSUME NEW m \in 1..Len(op) PROVE g[m] = gg[<<g[m - 1], op[m]>>]
  <2>1. m \in 0..Len(op) /\ m - 1 \in 0..Len(op) /\ op[m] \in Component
    BY <1>3
  <2>2. h[m - 1] \in Op
    BY <1>1, <2>1
  <2>3. h[m] = Pushed(h[m - 1], op[m])
    BY <1>1, <2>1, <2>2 DEF Trace, push
  <2>4. Inserted(Pushed(h[m - 1], op[m]), k) = Inserted(h[m - 1], k) + w[op[m]] /\ Inserted(h[m - 1], k) \in Nat
    BY <2>1, <2>2, PushInserted, InsertedLaws
  <2>5. \A n \in Nat : gg[<<n, op[m]>>] = n + w[op[m]]
    <3>1. w \in [Component -> Nat] /\ <<>> \in Seq(Component)
      BY WeightIs
    <3> HIDE DEF w
    <3>2. \A n \in Nat : \A c \in Component : Weighed(Component, w)[<<n, c>>] = n + w[c]
      BY <3>1, WeighedFoldable
    <3> QED
      BY <2>1, <3>2
  <2> HIDE DEF w, gg
  <2> QED
    BY <2>1, <2>3, <2>4, <2>5
<1>6. g[Len(op)] = Inserted(h[Len(op)], k)
  BY <1>3
<1> HIDE DEF g
<1>7. Trace(g, gg, 0, op)
  BY <1>4, <1>5 DEF Trace
<1>8. Foldable(Nat, Component, gg, 0, op)
  BY WeightIs, WeighedFoldable DEF Op
<1>9. FoldFn(gg, 0, op) = g[Len(op)]
  <2> HIDE DEF gg
  <2> QED
    BY <1>7, <1>8, FoldTrace
<1> QED
  BY <1>2, <1>6, <1>9 DEF Inserted, Total

\* What the head is cut into inserts what the head inserts.
LEMMA HeadInserted ==
    ASSUME NEW k, NEW op \in Op, op # <<>>, NEW n \in Nat, n <= compLen(Head(op))
    PROVE  Inserted(op, k) = Weight(k)[next(op, n)] + Inserted(remainder(op, n), k)
<1> DEFINE c == Head(op)
           r == Tail(op)
<1>1. c \in Component /\ r \in Op /\ op = <<c>> \o r
  BY HeadTail
<1>2. CASE c.type = "insert"
  <2> DEFINE x == c.text
             y == Cut(x, 0, n)
             z == Cut(x, n, Len(x))
  <2>1. x \in Seq(Char) /\ c = insert(x) /\ compLen(c) = Len(x) /\ Len(x) \in Nat
    BY <1>1, <1>2, Components DEF compLen
  <2>2. y \in Seq(Char) /\ z \in Seq(Char) /\ y \o z = x
    BY <2>1, CutsMake
  <2>3. next(op, n) = insert(y)
    <3>1. next(op, n) = insert(SubSeq(x, 1, n))
      BY <1>2 DEF next
    <3>2. Least(n, Len(x)) = n
      BY <2>1 DEF Least
    <3> QED
      BY <3>1, <3>2 DEF Cut
  <2>4. remainder(op, n) = IF Len(x) = n THEN r ELSE <<insert(z)>> \o r
    <3>1. Least(Len(x), Len(x)) = Len(x)
      BY DEF Least
    <3>2. insert(SubSeq(x, n + 1, Len(x))) = insert(z)
      BY <3>1 DEF Cut
    <3> QED
      BY <1>2, <2>1, <3>2 DEF remainder
  <2>5. Len(x) = n => y = x
    BY <2>1, CutWhole
  <2> HIDE DEF c, r, x, y, z
  <2>6. Copies(x, k) = Copies(y, k) + Copies(z, k) /\ Copies(y, k) \in Nat /\ Copies(z, k) \in Nat
    BY <2>2, CopiesLaws
  <2>7. /\ Inserted(op, k) = Copies(x, k) + Inserted(r, k) /\ Inserted(r, k) \in Nat
        /\ Inserted(<<insert(z)>> \o r, k) = Copies(z, k) + Inserted(r, k)
        /\ Weight(k)[insert(y)] = Copies(y, k)
    BY <1>1, <2>1, <2>2, InsertedFirst, WeightIs
  <2> QED
    BY <2>3, <2>4, <2>5, <2>6, <2>7
<1>3. CASE c.type # "insert"
  <2> DEFINE m == c.count
             l == m - n
  <2>1. m \in Nat /\ compLen(c) = m /\ (c = retain(m) \/ c = del(m))
    BY <1>1, <1>3, Components DEF compLen
  <2>2. l \in Nat
    BY <2>1
  <2>3. next(op, n) = retain(n) \/ next(op, n) = del(n)
    BY <1>3, <2>1 DEF next, retain, del
  <2>4. remainder(op, n) = r \/ remainder(op, n) = <<retain(l)>> \o r \/ remainder(op, n) = <<del(l)>> \o r
    <3>1. c = retain(m) => [c EXCEPT !.count = @ - n] = retain(l)
      BY DEF retain
    <3>2. c = del(m) => [c EXCEPT !.count = @ - n] = del(l)
      BY DEF del
    <3> QED
      BY <1>3, <2>1, <3>1, <3>2 DEF remainder
  <2> HIDE DEF c, r, m, l
  <2>5. Weight(k)[next(op, n)] = 0
    BY <2>3, WeightIs
  <2>6. Inserted(op, k) = Inserted(r, k) /\ Inserted(remainder(op, n), k) = Inserted(r, k) /\ Inserted(r, k) \in Nat
    <3>1. /\ \A j \in Nat : /\ Inserted(<<retain(j)>> \o r, k) = Inserted(r, k)
                            /\ Inserted(<<del(j)>> \o r, k) = Inserted(r, k)
          /\ Inserted(r, k) \in Nat
      BY <1>1, InsertedFirst
    <3> QED
      BY <1>1, <2>1, <2>2, <2>4, <3>1
  <2> QED
    BY <2>5, <2>6
<1> QED
  BY <1>2, <1>3

\* A transformation inserts what the transformed operation inserts.
LEMMA RebasedInserted ==
    ASSUME NEW k, NEW q
    PROVE  \A i, e \in Op : Inserted(rebased(q)[<<i, e>>], k) = Inserted(i, k)
<1> DEFINE R(i, e) == rebased(q)[<<i, e>>]
           Same(i, e) == Inserted(R(i, e), k) = Inserted(i, k)
           S == {m \in Nat : \A i, e \in Op : Len(i) + Len(e) = m => Same(i, e)}
<1>1. ASSUME NEW m \in Nat, \A j \in 0..(m - 1) : j \in S PROVE m \in S
  <2> SUFFICES ASSUME NEW i \in Op, NEW e \in Op, Len(i) + Len(e) = m PROVE Same(i, e)
    OBVIOUS
  <2>1. ASSUME NEW j \in Op, NEW f \in Op, Len(j) + Len(f) < Len(i) + Len(e) PROVE Same(j, f)
    <3> DEFINE d == Len(j) + Len(f)
    <3>1. d \in Nat /\ d < m
      <4>1. \A u, w \in Nat : u + w \in Nat
        OBVIOUS
      <4>2. Len(j) \in Nat /\ Len(f) \in Nat
        BY DEF Op
      <4> QED
        BY <2>1, <4>1, <4>2
    <3>2. d \in 0..(m - 1)
      <4> HIDE DEF d
      <4> QED
        BY <3>1
    <3>3. d \in S
      BY <1>1, <3>2
    <3> QED
      BY <3>3
  <2> HIDE DEF S
  <2>2. Len(i) \in Nat /\ Len(e) \in Nat
    BY DEF Op
  <2>3. R(i, e) = Rebasing(rebased(q), q, i, e)
    BY Rebased
  <2>4. \A j, f \in Op : R(j, f) \in Op
    BY Rebased DEF Pairs
  <2>5. CASE GoesFirst(q, i, e)
    <3> DEFINE x == Head(e).text
               r == Tail(e)
    <3>1. r \in Op /\ Len(r) < Len(e) /\ Len(r) \in Nat /\ x \in Seq(Char) /\ Len(x) \in Nat
      <4>1. starts(e, "insert")
        BY <2>5 DEF GoesFirst
      <4>2. r \in Op /\ Len(r) < Len(e) /\ Len(r) \in Nat /\ x \in Seq(Char)
        BY <4>1, StartsInsert
      <4> QED
        BY <4>2, LenProperties
    <3>2. R(i, e) = <<retain(Len(x))>> \o R(i, r)
      BY <2>3, <2>5 DEF Rebasing
    <3> HIDE DEF x, r, Same, R
    <3>3. Same(i, r)
      BY <2>1, <2>2, <3>1
    <3>4. Inserted(<<retain(Len(x))>> \o R(i, r), k) = Inserted(R(i, r), k)
      BY <2>4, <3>1, InsertedFirst
    <3> QED
      BY <3>2, <3>3, <3>4 DEF Same
  <2>6. CASE ~GoesFirst(q, i, e) /\ starts(i, "insert")
    <3> DEFINE x == Head(i)
               r == Tail(i)
    <3>1. r \in Op /\ Len(r) < Len(i) /\ Len(r) \in Nat /\ x \in Component /\ i = <<x>> \o r
      BY <2>6, StartsInsert
    <3>2. R(i, e) = <<x>> \o R(r, e)
      BY <2>3, <2>6 DEF Rebasing
    <3> HIDE DEF x, r, Same, R
    <3>3. Same(r, e)
      BY <2>1, <2>2, <3>1
    <3>4. /\ Inserted(<<x>> \o R(r, e), k) = Weight(k)[x] + Inserted(R(r, e), k)
          /\ Inserted(<<x>> \o r, k) = Weight(k)[x] + Inserted(r, k)
      BY <2>4, <3>1, InsertedLaws
    <3> QED
      BY <3>1, <3>2, <3>3, <3>4 DEF Same
  <2>7. CASE ~GoesFirst(q, i, e) /\ ~starts(i, "insert") /\ (i = <<>> \/ e = <<>>)
    <3>1. R(i, e) = i
      BY <2>3, <2>7 DEF Rebasing
    <3> QED
      BY <3>1
  <2>8. CASE ~GoesFirst(q, i, e) /\ ~starts(i, "insert") /\ i # <<>> /\ e # <<>>
    <3> DEFINE n == Overlap(i, e)
               u == remainder(i, n)
               w == remainder(e, n)
               a == next(i, n)
    <3>1. n \in Nat /\ n <= compLen(Head(i)) /\ a \in Component /\ u \in Op /\ w \in Op /\ Len(u) + Len(w) < Len(i) + Len(e)
      BY <2>8, BothHeads
    <3>2. R(i, e) = (IF Head(e).type = "retain" THEN <<a>> ELSE <<>>) \o R(u, w)
      BY <2>3, <2>8 DEF Rebasing
    <3>3. Weight(k)[a] = 0
      <4>1. Head(i).type # "insert"
        BY <2>8 DEF starts
      <4>2. Head(i) \in Component
        BY <2>8, HeadTail
      <4>3. a = retain(n) \/ a = del(n)
        BY <4>1, <4>2, Components DEF next, retain, del
      <4> HIDE DEF n, a
      <4> QED
        BY <3>1, <4>3, WeightIs
    <3>4. Inserted(i, k) = Weight(k)[a] + Inserted(u, k)
      BY <2>8, <3>1, HeadInserted
    <3> HIDE DEF n, u, w, a, Same, R
    <3>5. Same(u, w)
      BY <2>1, <3>1
    <3>6. Inserted(<<a>> \o R(u, w), k) = Weight(k)[a] + Inserted(R(u, w), k)
      BY <2>4, <3>1, InsertedLaws
    <3>7. <<>> \o R(u, w) = R(u, w) /\ Inserted(R(u, w), k) \in Nat /\ Inserted(u, k) \in Nat
      <4>1. R(u, w) \in Op
        BY <2>4, <3>1
      <4> QED
        BY <3>1, <4>1, ConcatEmptySeq, InsertedLaws DEF Op
    <3>8. \A n1 \in Nat : 0 + n1 = n1
      OBVIOUS
    <3> QED
      BY <3>2, <3>3, <3>4, <3>5, <3>6, <3>7, <3>8 DEF Same
  <2> QED
    BY <2>5, <2>6, <2>7, <2>8
<1> HIDE DEF S, Same
<1>2. Nat \subseteq S
  BY <1>1, StrongInduction
<1>3. ASSUME NEW x \in Op, NEW y \in Op PROVE Len(x) + Len(y) \in Nat
  <2>1. \A u, w \in Nat : u + w \in Nat
    OBVIOUS
  <2> QED
    BY <2>1 DEF Op
<1>4. \A i, e \in Op : Same(i, e)
  BY <1>2, <1>3 DEF S
<1> QED
  BY <1>4 DEF Same

\* Two operations merged into one insert no more than the two do.
LEMMA MergedInserted ==
    ASSUME NEW k
    PROVE  \A x, y \in Op : Inserted(merged[<<x, y>>], k) <= Inserted(x, k) + Inserted(y, k)
<1> DEFINE M(x, y) == merged[<<x, y>>]
           NoMore(x, y) == Inserted(M(x, y), k) <= Inserted(x, k) + Inserted(y, k)
           S == {m \in Nat : \A x, y \in Op : Len(x) + Len(y) = m => NoMore(x, y)}
<1>1. ASSUME NEW m \in Nat, \A j \in 0..(m - 1) : j \in S PROVE m \in S
  <2> SUFFICES ASSUME NEW x \in Op, NEW y \in Op, Len(x) + Len(y) = m PROVE NoMore(x, y)
    OBVIOUS
  <2>1. ASSUME NEW j \in Op, NEW f \in Op, Len(j) + Len(f) < Len(x) + Len(y) PROVE NoMore(j, f)
    <3> DEFINE d == Len(j) + Len(f)
    <3>1. d \in Nat /\ d < m
      <4>1. \A u, w \in Nat : u + w \in Nat
        OBVIOUS
      <4>2. Len(j) \in Nat /\ Len(f) \in Nat
        BY DEF Op
      <4> QED
        BY <2>1, <4>1, <4>2
    <3>2. d \in 0..(m - 1)
      <4> HIDE DEF d
      <4> QED
        BY <3>1
    <3>3. d \in S
      BY <1>1, <3>2
    <3> QED
      BY <3>3
  <2> HIDE DEF S
  <2>2. Len(x) \in Nat /\ Len(y) \in Nat
    BY DEF Op
  <2>3. M(x, y) = Merging(merged, x, y)
    BY Merged
  <2>4. \A j, f \in Op : M(j, f) \in Op
    BY Merged DEF Pairs
  <2>0. \A op \in Op : Inserted(op, k) \in Nat
    BY InsertedLaws
  <2>a. \A j, f \in Op, c \in Component : Inserted(<<c>> \o M(j, f), k) = Weight(k)[c] + Inserted(M(j, f), k)
    BY <2>4, InsertedLaws
  <2>5. CASE starts(x, "delete")
    <3> DEFINE c == Head(x)
               r == Tail(x)
    <3>1. /\ c \in Component /\ c.type = "delete" /\ r \in Op /\ x = <<c>> \o r
          /\ Len(x) = Len(r) + 1 /\ Len(r) \in Nat
      BY <2>5, HeadTail DEF starts
    <3>2. M(x, y) = <<c>> \o M(r, y)
      BY <2>3, <2>5 DEF Merging
    <3> HIDE DEF c, r, M, NoMore
    <3>3. NoMore(r, y)
      BY <2>1, <2>2, <3>1
    <3>4. Inserted(<<c>> \o M(r, y), k) = Weight(k)[c] + Inserted(M(r, y), k)
      BY <2>a, <3>1
    <3>5. Inserted(x, k) = Weight(k)[c] + Inserted(r, k) /\ Weight(k)[c] = 0
      BY <3>1, InsertedLaws, WeightIs
    <3>6. Inserted(M(r, y), k) \in Nat /\ Inserted(r, k) \in Nat
      BY <2>0, <2>4, <3>1
    <3> QED
      BY <3>2, <3>3, <3>4, <3>5, <3>6 DEF NoMore
  <2>6. CASE ~starts(x, "delete") /\ starts(y, "insert")
    <3> DEFINE c == Head(y)
               r == Tail(y)
    <3>1. c \in Component /\ r \in Op /\ y = <<c>> \o r /\ Len(r) < Len(y) /\ Len(r) \in Nat
      BY <2>6, StartsInsert
    <3>2. M(x, y) = <<c>> \o M(x, r)
      BY <2>3, <2>6 DEF Merging
    <3> HIDE DEF c, r, M, NoMore
    <3>3. NoMore(x, r)
      BY <2>1, <2>2, <3>1
    <3>4. Inserted(<<c>> \o M(x, r), k) = Weight(k)[c] + Inserted(M(x, r), k)
      BY <2>a, <3>1
    <3>5. Inserted(y, k) = Weight(k)[c] + Inserted(r, k) /\ Weight(k)[c] \in Nat
      BY <3>1, InsertedLaws, WeightIs
    <3>6. Inserted(M(x, r), k) \in Nat /\ Inserted(r, k) \in Nat /\ Inserted(x, k) \in Nat
      BY <2>0, <2>4, <3>1
    <3> QED
      BY <3>2, <3>3, <3>4, <3>5, <3>6 DEF NoMore
  <2>7. CASE MergingEnds(x, y)
    <3>1. M(x, y) = MergingEnd(x, y)
      BY <2>3, <2>7, MergingStep
    <3>2. M(x, y) = x \/ M(x, y) = y
      BY <3>1 DEF MergingEnd
    <3> HIDE DEF M
    <3>3. Inserted(x, k) \in Nat /\ Inserted(y, k) \in Nat
      BY <2>0
    <3> QED
      BY <3>2, <3>3
  <2>8. CASE ~starts(x, "delete") /\ ~starts(y, "insert") /\ x # <<>> /\ y # <<>>
    <3> DEFINE n == Overlap(x, y)
               u == remainder(x, n)
               w == remainder(y, n)
               a == next(x, n)
               p == MergedHeads(x, y, n)
    <3>1. /\ n \in Nat /\ n <= compLen(Head(x)) /\ n <= compLen(Head(y))
          /\ a \in Component /\ u \in Op /\ w \in Op /\ Len(u) + Len(w) < Len(x) + Len(y)
      BY <2>8, BothHeads
    <3>2. M(x, y) = p \o M(u, w)
      BY <2>3, <2>8 DEF Merging
    <3>3. p = <<a>> \/ p = <<del(n)>> \/ p = <<>>
      BY DEF MergedHeads
    <3>4. Inserted(x, k) = Weight(k)[a] + Inserted(u, k) /\ Weight(k)[a] \in Nat
      BY <2>8, <3>1, HeadInserted, WeightIs
    <3>5. Inserted(y, k) >= Inserted(w, k)
      <4>1. next(y, n) \in Component
        BY <2>8, <3>1, HeadCutType
      <4>2. Inserted(y, k) = Weight(k)[next(y, n)] + Inserted(w, k) /\ Weight(k)[next(y, n)] \in Nat
        BY <2>8, <3>1, <4>1, HeadInserted, WeightIs
      <4> HIDE DEF w, n
      <4> QED
        BY <2>0, <3>1, <4>2
    <3>6. del(n) \in Component /\ Weight(k)[del(n)] = 0
      BY <3>1, Constructors, WeightIs
    <3> HIDE DEF n, u, w, a, p, M, NoMore
    <3>7. NoMore(u, w)
      BY <2>1, <3>1
    <3>8. M(u, w) \in Op
      BY <2>4, <3>1
    <3>9. /\ Inserted(M(u, w), k) \in Nat /\ Inserted(u, k) \in Nat /\ Inserted(w, k) \in Nat
          /\ Inserted(x, k) \in Nat /\ Inserted(y, k) \in Nat
      BY <2>0, <3>1, <3>8
    <3>10. <<>> \o M(u, w) = M(u, w)
      BY <3>8, ConcatEmptySeq DEF Op
    <3>11. /\ Inserted(<<a>> \o M(u, w), k) = Weight(k)[a] + Inserted(M(u, w), k)
           /\ Inserted(<<del(n)>> \o M(u, w), k) = 0 + Inserted(M(u, w), k)
      BY <2>a, <3>1, <3>6
    <3>12. Inserted(M(u, w), k) <= Inserted(u, k) + Inserted(w, k)
      BY <3>7 DEF NoMore
    <3>13. Inserted(M(x, y), k) <= Weight(k)[a] + Inserted(M(u, w), k)
      <4> DEFINE v == Weight(k)[a]
                 z == Inserted(M(u, w), k)
      <4>1. v \in Nat /\ z \in Nat
        BY <3>4, <3>9
      <4>2. Inserted(M(x, y), k) = v + z \/ Inserted(M(x, y), k) = 0 + z \/ Inserted(M(x, y), k) = z
        BY <3>2, <3>3, <3>10, <3>11
      <4> HIDE DEF v, z
      <4>3. Inserted(M(x, y), k) <= v + z
        BY <4>1, <4>2
      <4> QED
        BY <4>3 DEF v, z
    <3>14. Inserted(M(x, y), k) \in Nat
      BY <2>0, <2>4
    <3> QED
      BY <3>4, <3>5, <3>9, <3>12, <3>13, <3>14 DEF NoMore
  <2> QED
    BY <2>5, <2>6, <2>7, <2>8 DEF MergingEnds
<1> HIDE DEF S, NoMore
<1>2. Nat \subseteq S
  BY <1>1, StrongInduction
<1>3. ASSUME NEW x \in Op, NEW y \in Op PROVE Len(x) + Len(y) \in Nat
  <2>1. \A u, w \in Nat : u + w \in Nat
    OBVIOUS
  <2> QED
    BY <2>1 DEF Op
<1>4. \A x, y \in Op : NoMore(x, y)
  BY <1>2, <1>3 DEF S
<1> QED
  BY <1>4 DEF NoMore

\* What the operations of the model insert.
LEMMA TransformInserted ==
    ASSUME NEW k, NEW a \in Op, NEW b \in Op, NEW q
    PROVE  Inserted(transform(a, b, q), k) = Inserted(a, k)
<1>1. rebased(q)[<<a, b>>] \in Op
  BY Rebased DEF Pairs
<1> QED
  BY <1>1, RebasedInserted, CompactInserted DEF transform

LEMMA ComposeInserted ==
    ASSUME NEW k, NEW a \in Op, NEW b \in Op
    PROVE  compose(a, b) # Null => Inserted(compose(a, b), k) <= Inserted(a, k) + Inserted(b, k)
<1>1. merged[<<a, b>>] \in Op
  BY Merged DEF Pairs
<1>2. Inserted(compact(merged[<<a, b>>]), k) <= Inserted(a, k) + Inserted(b, k)
  BY <1>1, MergedInserted, CompactInserted
<1>3. a # Null /\ b # Null
  BY NullAssumption
<1> QED
  BY <1>2, <1>3 DEF compose

\* The texts of the run do not have the marker, and neither has what a rival inserts.
Unmarked ==
    /\ origin \in Texts
    /\ rival # Null => rival \in RivalOps /\ Reach(rival) <= Len(origin)

LEMMA UnmarkedInvariant ==
    Inputs => []Unmarked
<1>1. NoInputs => Unmarked
  BY DEF NoInputs, Unmarked
<1>2. Unmarked /\ [Input]_inputs => Unmarked'
  <2> SUFFICES ASSUME Unmarked, [Input]_inputs PROVE Unmarked'
    OBVIOUS
  <2>1. CASE EditFirst
    BY <2>1 DEF EditFirst, Unmarked
  <2>2. CASE EditAgain
    BY <2>2 DEF EditAgain, Unmarked
  <2>3. CASE RivalEdits
    BY <2>3 DEF RivalEdits, Unmarked
  <2>4. CASE UNCHANGED inputs
    BY <2>4 DEF inputs, Unmarked
  <2> QED
    BY <2>1, <2>2, <2>3, <2>4 DEF Input
<1> QED
  BY <1>1, <1>2, PTL DEF Inputs

\* A text that does not have the marker does not have it after a rival's operation.
LEMMA MarkerNew ==
    ASSUME NEW t \in Texts, NEW e \in RivalOps
    PROVE  Copies(apply(t, e), Marker) = 0
<1>1. t \in Seq(Char) /\ e \in Op
  BY InputsAssumption
<1>2. Copies(t, Marker) = 0
  BY <1>1, MarkerAssumption, CopiesAbsent
<1>3. Inserted(e, Marker) = 0
  <2>1. ASSUME NEW i \in 1..Len(e) PROVE Weight(Marker)[e[i]] = 0
    <3>1. e[i] \in Component /\ e[i] \in Range(e)
      BY <1>1 DEF Op, Range
    <3>2. CASE e[i].type = "insert"
      <4>1. e[i].text \in Seq(Char) /\ e[i] = insert(e[i].text)
        BY <3>1, <3>2, Components
      <4>2. Marker \notin Range(e[i].text)
        BY <3>1, <3>2, MarkerAssumption
      <4>3. Copies(e[i].text, Marker) = 0
        BY <4>1, <4>2, CopiesAbsent
      <4> QED
        BY <4>1, <4>3, WeightIs
    <3>3. CASE e[i].type # "insert"
      BY <3>1, <3>3, WeightIs
    <3> QED
      BY <3>2, <3>3
  <2> QED
    BY <1>1, <2>1, WeightIs, TotalNone DEF Inserted, Op
<1>4. Copies(apply(t, e), Marker) <= 0 + 0
  BY <1>1, <1>2, <1>3, ApplyCopies
<1>5. Copies(apply(t, e), Marker) \in Nat
  BY <1>1, ApplyType, CopiesLaws
<1> QED
  BY <1>4, <1>5

\* A text with the marker at one place only.
LEMMA MarkerPlace ==
    ASSUME NEW x \in Seq(Char), NEW y \in Seq(Char), Copies(x \o y, Marker) = 0
    PROVE  LET u == (x \o <<Marker>>) \o y
           IN  (CHOOSE i \in DOMAIN u : u[i] = Marker) - 1 = Len(x)
<1> DEFINE u == (x \o <<Marker>>) \o y
           p == Len(x)
<1>1. p \in Nat /\ Len(y) \in Nat
  OBVIOUS
<1>2. x \o <<Marker>> \in Seq(Char) /\ u \in Seq(Char)
  BY MarkerIs, TextClosed
<1>3. Copies(u, Marker) = 1
  <2>1. /\ Copies(x \o y, Marker) = Copies(x, Marker) + Copies(y, Marker)
        /\ Copies(x \o <<Marker>>, Marker) = Copies(x, Marker) + Copies(<<Marker>>, Marker)
        /\ Copies(u, Marker) = Copies(x \o <<Marker>>, Marker) + Copies(y, Marker)
        /\ Copies(x, Marker) \in Nat /\ Copies(y, Marker) \in Nat
    BY <1>2, MarkerIs, CopiesLaws
  <2>2. Copies(<<Marker>>, Marker) = 1
    BY MarkerAssumption, CopyOfOne
  <2> QED
    BY <2>1, <2>2
<1>4. p + 1 \in 1..Len(u) /\ u[p + 1] = Marker
  <2>1. Len(u) = (p + 1) + Len(y)
    BY <1>1, <1>2, MarkerIs
  <2>2. u[p + 1] = (x \o <<Marker>>)[p + 1]
    BY <1>1, <1>2, MarkerIs
  <2>3. (x \o <<Marker>>)[p + 1] = Marker
    BY <1>1, MarkerIs
  <2> QED
    BY <1>1, <2>1, <2>2, <2>3
<1> HIDE DEF u, p
<1>5. \A i \in 1..Len(u) : u[i] = Marker => i = p + 1
  <2> SUFFICES ASSUME NEW i \in 1..Len(u), u[i] = Marker, i # p + 1 PROVE FALSE
    OBVIOUS
  <2>1. Copies(u, Marker) >= 2
    BY <1>2, <1>4, CopiesFound
  <2> QED
    BY <1>3, <2>1
<1>6. DOMAIN u = 1..Len(u)
  BY <1>2
<1>7. (CHOOSE i \in DOMAIN u : u[i] = Marker) = p + 1
  BY <1>4, <1>5, <1>6
<1>8. (p + 1) - 1 = p
  BY <1>1
<1> QED
  BY <1>7, <1>8 DEF u, p

\* The caret goes where the marker goes.
LEMMA CaretAtPlace ==
    ASSUME NEW t \in Texts, NEW e \in RivalOps, Reach(e) <= Len(t), AtMostOne(e), Full(e),
           NEW offset \in 0..Len(t)
    PROVE  LET mark  == transform(<<retain(offset), insert(<<Marker>>)>>, e, "existingWins")
               after == apply(apply(t, e), mark)
           IN  transformOffset(offset, e) = (CHOOSE i \in DOMAIN after : after[i] = Marker) - 1
<1> DEFINE i == <<retain(offset)>> \o <<insert(<<Marker>>)>>
           u == apply(t, e)
           p == CaretFrom(0, offset, e)
<1>1. t \in Seq(Char) /\ e \in Op /\ Len(t) \in Nat /\ offset \in Nat /\ offset <= Len(t)
  BY InputsAssumption
<1>2. <<retain(offset), insert(<<Marker>>)>> = i
  OBVIOUS
<1>3. i \in Op /\ MarkAt(offset, i) /\ Reach(i) <= Len(t)
  <2>1. i \in Op /\ <<insert(<<Marker>>)>> \in Op
    BY <1>1, MarkType
  <2>2. Reach(<<insert(<<Marker>>)>>) = 0
    <3>1. <<insert(<<Marker>>)>> = <<insert(<<Marker>>)>> \o <<>> /\ <<>> \in Op
      BY <2>1, ConcatEmptySeq DEF Op
    <3>2. Reach(<<insert(<<Marker>>)>> \o <<>>) = Reach(<<>>)
      BY <3>1, MarkerIs, ReachOfFirst
    <3> QED
      BY <3>1, <3>2, ReachLaws
  <2>3. Reach(i) = offset + 0
    BY <1>1, <2>1, <2>2, ReachOfFirst
  <2> QED
    BY <1>1, <2>1, <2>3 DEF MarkAt
<1>4. transformOffset(offset, e) = p /\ p \in Nat
  <2>1. FoldLeft(LAMBDA s, c : carried[<<s, c>>], On(0, offset), e) = FoldFn(carried, On(0, offset), e)
    BY FoldLeftIs DEF FoldLeft, MapThenFoldSet, FoldFn
  <2>2. p \in Nat
    BY <1>1, CaretFirst
  <2>3. e # Null
    BY <1>1, NullAssumption
  <2>4. ~(p < 0)
    <3> HIDE DEF p
    <3> QED
      BY <2>2
  <2> QED
    BY <2>1, <2>2, <2>3, <2>4 DEF transformOffset, CaretFrom, On
<1> HIDE DEF i, p
<1>5. Lands(Marked(i, e), p)
  <2>1. Together(offset, e)
    BY <1>1, TogetherAll
  <2>2. 0 \in Nat /\ 0 + offset = offset /\ p - 0 = p
    BY <1>1, <1>4
  <2>3. Lands(Marked(i, e), CaretFrom(0, 0 + offset, e) - 0)
    BY <1>3, <2>1, <2>2 DEF Together
  <2> QED
    BY <2>2, <2>3 DEF p
<1>6. u \in Seq(Char) /\ Copies(u, Marker) = 0
  BY <1>1, ApplyType, MarkerNew
<1>7. Reach(Marked(i, e)) <= Len(u)
  <2>1. Reach(transform(i, e, "existingWins")) <= Len(u)
    BY <1>1, <1>3, MeetOn
  <2>2. Reach(transform(i, e, "existingWins")) = Reach(Marked(i, e))
    BY <1>1, <1>3, TransformsOf DEF Marked
  <2> QED
    BY <2>1, <2>2
<1>8. apply(u, transform(i, e, "existingWins")) = apply(u, Marked(i, e))
  BY <1>1, <1>3, <1>6, TransformsOf DEF Marked
<1> HIDE DEF u
<1> DEFINE x == Cut(u, 0, p)
           y == Cut(u, p, Len(u))
<1>9. apply(u, Marked(i, e)) = (x \o <<Marker>>) \o y
  BY <1>5, <1>6, <1>7 DEF Lands
<1>10. x \in Seq(Char) /\ y \in Seq(Char) /\ x \o y = u /\ Len(x) = p
  <2>1. Reach(Marked(i, e)) \in Nat /\ p <= Reach(Marked(i, e)) /\ Len(u) \in Nat
    BY <1>5, <1>6, ReachLaws DEF Lands
  <2>2. p <= Len(u)
    BY <1>4, <1>7, <2>1
  <2>3. x \in Seq(Char) /\ Len(x) = p
    BY <1>4, <1>6, <2>2, CutLength
  <2>4. x \o y = u /\ y \in Seq(Char)
    BY <1>4, <1>6, CutsMake
  <2> QED
    BY <2>3, <2>4
<1> HIDE DEF x, y
<1>11. LET after == (x \o <<Marker>>) \o y
       IN  (CHOOSE j \in DOMAIN after : after[j] = Marker) - 1 = p
  BY <1>6, <1>10, MarkerPlace
<1> QED
  BY <1>2, <1>4, <1>8, <1>9, <1>11 DEF u

\* A caret keeps its place between the characters around it when another client
\* inserts or deletes in one place, for every text, offset and operation
\* (transformOffset, ot-text.js:191-208).
THEOREM CaretKeepsPlace ==
    Inputs => []CaretFollows
<1>1. ASSUME Unmarked PROVE CaretFollows
  <2> DEFINE X == {i \in DOMAIN rival : rival[i].type # "retain"}
  <2> SUFFICES ASSUME rival # Null, Compact(rival), Cardinality(X) = 1, NEW offset \in 0..Len(origin)
               PROVE  transformOffset(offset, rival) = Place(offset, rival)
    BY DEF CaretFollows
  <2>1. origin \in Texts /\ rival \in RivalOps /\ Reach(rival) <= Len(origin) /\ rival \in Op
    BY <1>1, InputsAssumption DEF Unmarked
  <2>2. Full(rival)
    BY DEF Compact, Full
  <2>3. AtMostOne(rival)
    <3>1. IsFiniteSet(1..Len(rival))
      <4>1. 1 \in Int /\ Len(rival) \in Int
        BY <2>1 DEF Op
      <4> QED
        BY <4>1, FS_Interval
    <3>2. X \subseteq 1..Len(rival)
      BY <2>1 DEF Op
    <3>3. IsFiniteSet(X)
      BY <3>1, <3>2, FS_Subset
    <3> HIDE DEF X
    <3>4. \E i : X = {i}
      BY <3>3, FS_Singleton
    <3> QED
      BY <3>4 DEF X, AtMostOne
  <2> QED
    BY <2>1, <2>2, <2>3, CaretAtPlace DEF Place
<1> QED
  BY <1>1, UnmarkedInvariant, PTL

=============================================================================
