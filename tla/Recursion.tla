------------------------------- MODULE Recursion -------------------------------
(***************************************************************************)
(* What the proofs about the models' data rest on: induction over the      *)
(* numbers, functions that are defined by recursion, and the folds over a  *)
(* sequence.  The models compute over the components of an operation and   *)
(* over logs by such functions.                                            *)
(*                                                                         *)
(* Every fact is about sets and functions, never about an operator that    *)
(* the provers would have to find: an induction is over the set of the     *)
(* numbers that have the property, and a step of a recursion is a          *)
(* function.                                                               *)
(***************************************************************************)
EXTENDS Integers, Sequences, SequencesExt, SequenceTheorems, WellFoundedInduction, TLAPS

----------------------------------------------------------------------------
\* The numbers.

LEMMA Smallest ==
    ASSUME NEW S \in SUBSET Nat, S # {}
    PROVE  Min(S) \in S /\ \A s \in S : Min(S) <= s
<1> DEFINE Less == {p \in Nat \X Nat : p[1] < p[2]}
<1>1. IsWellFoundedOn(Less, Nat)
  BY NatLessThanWellFounded DEF OpToRel
<1>2. \A x, y \in Nat : <<y, x>> \notin Less => x <= y
  OBVIOUS
<1> HIDE DEF Less
<1>3. \E x \in S : \A y \in S : ~(<<y, x>> \in Less)
  BY <1>1, WFMin
<1>4. \E x \in S : \A y \in S : x <= y
  BY <1>2, <1>3
<1> QED
  BY <1>4 DEF Min

LEMMA Greatest ==
    ASSUME NEW n \in Nat, NEW S \in SUBSET (0..n), S # {}
    PROVE  Max(S) \in S /\ \A s \in S : s <= Max(S)
<1> DEFINE T == {n - s : s \in S}
<1>0. \A s \in S : s \in Nat /\ n - s \in Nat
  OBVIOUS
<1>1. T \in SUBSET Nat /\ T # {}
  <2>1. T \subseteq Nat
    BY <1>0
  <2>2. PICK s \in S : TRUE
    OBVIOUS
  <2>3. n - s \in T
    OBVIOUS
  <2> QED
    BY <2>1, <2>3
<1>2. Min(T) \in T /\ \A u \in T : Min(T) <= u
  BY <1>1, Smallest
<1>3. PICK s \in S : Min(T) = n - s
  <2>1. \A t \in T : \E s \in S : t = n - s
    OBVIOUS
  <2> HIDE DEF T
  <2> QED
    BY <1>2, <2>1
<1>4. \A u \in S : n - s <= n - u
  BY <1>2, <1>3
<1>5. \A u \in S : s >= u
  BY <1>4
<1> QED
  BY <1>5 DEF Max

LEMMA StrongInduction ==
    ASSUME NEW S, \A n \in Nat : (\A m \in 0..(n - 1) : m \in S) => n \in S
    PROVE  Nat \subseteq S
<1> DEFINE T == Nat \ S
<1> SUFFICES ASSUME T # {} PROVE FALSE
  OBVIOUS
<1>1. T \in SUBSET Nat
  OBVIOUS
<1> DEFINE n == Min(T)
<1>2. n \in T /\ \A s \in T : n <= s
  BY <1>1, Smallest
<1>3. ASSUME NEW m \in 0..(n - 1) PROVE m \in S
  <2>1. n \in Nat /\ m \in Nat /\ m < n
    BY <1>2
  <2>2. m \notin T
    BY <1>2, <2>1
  <2> QED
    BY <2>1, <2>2
<1> HIDE DEF n
<1> QED
  BY <1>2, <1>3

LEMMA Induction ==
    ASSUME NEW S, 0 \in S, \A n \in Nat : n \in S => n + 1 \in S
    PROVE  Nat \subseteq S
<1>1. ASSUME NEW n \in Nat, \A m \in 0..(n - 1) : m \in S PROVE n \in S
  <2>1. CASE n = 0
    BY <2>1
  <2>2. CASE n # 0
    <3>1. n - 1 \in Nat /\ n - 1 \in 0..(n - 1) /\ (n - 1) + 1 = n
      BY <2>2
    <3> QED
      BY <1>1, <3>1
  <2> QED
    BY <2>1, <2>2
<1> QED
  BY <1>1, StrongInduction

----------------------------------------------------------------------------
\* Functions that are defined by recursion.

\* g satisfies the recursion where the measure m is below n: where there is nothing to stop
\* at, its value comes from the one at the next place.
Follows(g, D, m, n, stop, base, nxt, step) ==
    \A p \in D : m[p] < n =>
        g[p] = IF p \in stop THEN base[p] ELSE step[<<p, g[nxt[p]]>>]

LEMMA Approximation ==
    ASSUME NEW D, NEW R, NEW m \in [D -> Nat], NEW nxt \in [D -> D], NEW stop,
           NEW base \in [D -> R], NEW step \in [D \X R -> R],
           \A p \in D \ stop : m[nxt[p]] < m[p]
    PROVE  \A n \in Nat : \E g \in [D -> R] : Follows(g, D, m, n, stop, base, nxt, step)
<1> DEFINE S == {n \in Nat : \E g \in [D -> R] : Follows(g, D, m, n, stop, base, nxt, step)}
<1>1. 0 \in S
  BY DEF Follows
<1>2. ASSUME NEW n \in S PROVE n + 1 \in S
  <2>1. PICK g \in [D -> R] : Follows(g, D, m, n, stop, base, nxt, step)
    OBVIOUS
  <2> DEFINE h == [p \in D |-> IF m[p] < n THEN g[p]
                               ELSE IF p \in stop THEN base[p] ELSE step[<<p, g[nxt[p]]>>]]
  <2>2. h \in [D -> R]
    OBVIOUS
  <2>3. ASSUME NEW p \in D, m[p] < n + 1
        PROVE  h[p] = IF p \in stop THEN base[p] ELSE step[<<p, h[nxt[p]]>>]
    <3>1. p \notin stop => m[nxt[p]] < m[p] /\ nxt[p] \in D /\ m[nxt[p]] \in Nat
      OBVIOUS
    <3>2. m[p] \in Nat /\ n \in Nat
      OBVIOUS
    <3>3. p \notin stop => h[nxt[p]] = g[nxt[p]]
      BY <2>3, <3>1, <3>2
    <3>4. CASE m[p] < n
      <4>1. h[p] = g[p]
        BY <3>4
      <4>2. g[p] = IF p \in stop THEN base[p] ELSE step[<<p, g[nxt[p]]>>]
        BY <2>1, <3>4 DEF Follows
      <4> HIDE DEF h
      <4> QED
        BY <3>3, <4>1, <4>2
    <3>5. CASE ~(m[p] < n)
      <4>1. h[p] = IF p \in stop THEN base[p] ELSE step[<<p, g[nxt[p]]>>]
        BY <3>5
      <4> HIDE DEF h
      <4> QED
        BY <3>3, <4>1
    <3> QED
      BY <3>4, <3>5
  <2> HIDE DEF h
  <2>4. Follows(h, D, m, n + 1, stop, base, nxt, step)
    BY <2>3 DEF Follows
  <2> QED
    BY <2>2, <2>4
<1> HIDE DEF S
<1>3. Nat \subseteq S
  BY <1>1, <1>2, Induction DEF S
<1> QED
  BY <1>3 DEF S

\* There is a function that satisfies it everywhere.
Solves(f, D, nxt, stop, base, step) ==
    \A p \in D : f[p] = IF p \in stop THEN base[p] ELSE step[<<p, f[nxt[p]]>>]

LEMMA Recursive ==
    ASSUME NEW D, NEW R, NEW m \in [D -> Nat], NEW nxt \in [D -> D], NEW stop,
           NEW base \in [D -> R], NEW step \in [D \X R -> R],
           \A p \in D \ stop : m[nxt[p]] < m[p]
    PROVE  \E f \in [D -> R] : Solves(f, D, nxt, stop, base, step)
<1>a. ASSUME NEW g, NEW h, NEW a \in Nat, NEW b \in Nat,
             Follows(g, D, m, a, stop, base, nxt, step), Follows(h, D, m, b, stop, base, nxt, step)
      PROVE  \A q \in D : m[q] < a /\ m[q] < b => g[q] = h[q]
  <2> DEFINE S == {n \in Nat : \A p \in D : m[p] = n /\ n < a /\ n < b => g[p] = h[p]}
  <2>1. ASSUME NEW n \in Nat, \A k \in 0..(n - 1) : k \in S PROVE n \in S
    <3> SUFFICES ASSUME NEW p \in D, m[p] = n, n < a, n < b PROVE g[p] = h[p]
      OBVIOUS
    <3>1. /\ g[p] = IF p \in stop THEN base[p] ELSE step[<<p, g[nxt[p]]>>]
          /\ h[p] = IF p \in stop THEN base[p] ELSE step[<<p, h[nxt[p]]>>]
      BY <1>a DEF Follows
    <3>2. ASSUME p \notin stop PROVE g[nxt[p]] = h[nxt[p]]
      <4>1. nxt[p] \in D /\ m[nxt[p]] \in Nat /\ m[nxt[p]] < n
        BY <3>2
      <4>2. m[nxt[p]] \in 0..(n - 1) /\ m[nxt[p]] < a /\ m[nxt[p]] < b
        BY <4>1
      <4>3. m[nxt[p]] \in S
        BY <2>1, <4>2
      <4> QED
        BY <4>1, <4>2, <4>3
    <3> QED
      BY <3>1, <3>2
  <2> HIDE DEF S
  <2>2. Nat \subseteq S
    BY <2>1, StrongInduction
  <2> QED
    BY <2>2 DEF S
<1> DEFINE to(n) == CHOOSE g \in [D -> R] : Follows(g, D, m, n, stop, base, nxt, step)
           f == [p \in D |-> to(m[p] + 1)[p]]
<1>1. ASSUME NEW n \in Nat PROVE to(n) \in [D -> R] /\ Follows(to(n), D, m, n, stop, base, nxt, step)
  BY Approximation
<1> HIDE DEF to
<1>2. f \in [D -> R]
  BY <1>1
<1>3. ASSUME NEW p \in D PROVE f[p] = IF p \in stop THEN base[p] ELSE step[<<p, f[nxt[p]]>>]
  <2> DEFINE a == m[p] + 1
             b == m[nxt[p]] + 1
  <2>1. a \in Nat /\ b \in Nat /\ m[p] \in Nat /\ m[p] < a /\ nxt[p] \in D /\ m[nxt[p]] \in Nat /\ m[nxt[p]] < b
    OBVIOUS
  <2>2. f[p] = to(a)[p] /\ f[nxt[p]] = to(b)[nxt[p]]
    BY <2>1
  <2> HIDE DEF f
  <2>3. p \notin stop => m[nxt[p]] < a
    BY <2>1
  <2> HIDE DEF a, b
  <2>4. Follows(to(a), D, m, a, stop, base, nxt, step) /\ Follows(to(b), D, m, b, stop, base, nxt, step)
    BY <1>1, <2>1
  <2>5. to(a)[p] = IF p \in stop THEN base[p] ELSE step[<<p, to(a)[nxt[p]]>>]
    BY <2>1, <2>4 DEF Follows
  <2>6. ASSUME p \notin stop PROVE to(a)[nxt[p]] = to(b)[nxt[p]]
    <3>1. \A q \in D : m[q] < a /\ m[q] < b => to(a)[q] = to(b)[q]
      BY <1>a, <2>1, <2>4
    <3> QED
      BY <2>1, <2>3, <2>6, <3>1
  <2> QED
    BY <2>2, <2>5, <2>6
<1> QED
  BY <1>2, <1>3 DEF Solves

----------------------------------------------------------------------------
\* Folds.

\* FoldLeft of a function of the result so far and the next element.
FoldFn(g, base, seq) ==
    LET iter[s \in SUBSET DOMAIN seq] ==
            IF s = {} THEN base
            ELSE LET x == Max(s) IN g[<<iter[s \ {x}], seq[x]>>]
    IN  iter[DOMAIN seq]

\* g, base and seq are fit for a fold whose results are in A and whose elements are in C.
Foldable(A, C, g, base, seq) == g \in [A \X C -> A] /\ base \in A /\ seq \in Seq(C)

\* h lists the results of the fold, from the one of no element to the one of all.
Trace(h, g, base, seq) ==
    /\ h[0] = base
    /\ \A k \in 1..Len(seq) : h[k] = g[<<h[k - 1], seq[k]>>]

LEMMA FoldLeftIs ==
    ASSUME NEW g, NEW base, NEW seq
    PROVE  FoldLeft(LAMBDA s, c : g[<<s, c>>], base, seq) = FoldFn(g, base, seq)
BY DEF FoldLeft, MapThenFoldSet, FoldFn

\* The fold visits the places from the first to the last.
LEMMA FoldTrace ==
    ASSUME NEW A, NEW C, NEW g, NEW base, NEW seq, Foldable(A, C, g, base, seq),
           NEW h, Trace(h, g, base, seq)
    PROVE  FoldFn(g, base, seq) = h[Len(seq)]
<1> DEFINE n == Len(seq)
           D == SUBSET (1..n)
           stop == {{}}
           m == [s \in D |-> IF s = {} THEN 0 ELSE Max(s)]
           nxt == [s \in D |-> IF s = {} THEN {} ELSE s \ {Max(s)}]
           b == [s \in D |-> base]
           step == [p \in D \X A |-> IF p[1] = {} THEN base ELSE g[<<p[2], seq[Max(p[1])]>>]]
           Eq(f) == f = [s \in D |-> IF s = {} THEN base ELSE g[<<f[s \ {Max(s)}], seq[Max(s)]>>]]
           iter == CHOOSE f : Eq(f)
<1> USE DEF Foldable
<1>0. n \in Nat /\ DOMAIN seq = 1..n /\ \A i \in 1..n : seq[i] \in C
  OBVIOUS
<1>1. \A s \in D : s # {} => Max(s) \in 1..n /\ Max(s) \in s /\ \A i \in s : i <= Max(s)
  <2> SUFFICES ASSUME NEW s \in D, s # {}
               PROVE  Max(s) \in 1..n /\ Max(s) \in s /\ \A i \in s : i <= Max(s)
    OBVIOUS
  <2>1. s \in SUBSET (0..n)
    BY <1>0
  <2> QED
    BY <1>0, <2>1, Greatest
<1>2. \E f : Eq(f)
  <2>1. m \in [D -> Nat]
    BY <1>0, <1>1
  <2>2. nxt \in [D -> D]
    BY <1>0
  <2>3. b \in [D -> A]
    OBVIOUS
  <2>4. step \in [D \X A -> A]
    <3>1. ASSUME NEW s \in D, NEW a \in A, s # {} PROVE g[<<a, seq[Max(s)]>>] \in A
      BY <1>0, <1>1, <3>1
    <3>2. ASSUME NEW p \in D \X A
          PROVE  (IF p[1] = {} THEN base ELSE g[<<p[2], seq[Max(p[1])]>>]) \in A
      BY <3>1
    <3> QED
      BY <3>2
  <2>5. ASSUME NEW s \in D \ stop PROVE m[nxt[s]] < m[s]
    <3>1. s # {} /\ m[s] = Max(s) /\ nxt[s] = s \ {Max(s)} /\ nxt[s] \in D
      OBVIOUS
    <3>2. m[nxt[s]] = IF nxt[s] = {} THEN 0 ELSE Max(nxt[s])
      BY <3>1
    <3> HIDE DEF m, nxt
    <3>3. nxt[s] # {} => Max(nxt[s]) \in s /\ Max(nxt[s]) # Max(s)
      BY <1>1, <3>1
    <3>4. \A i \in s : i \in Nat /\ 0 < i /\ i <= Max(s)
      BY <1>0, <1>1, <3>1
    <3>5. Max(s) \in s
      BY <1>1, <3>1
    <3> HIDE DEF D, stop
    <3>6. CASE nxt[s] = {}
      BY <3>1, <3>2, <3>4, <3>5, <3>6
    <3>7. CASE nxt[s] # {}
      <4> DEFINE a == Max(nxt[s])
                 z == Max(s)
      <4>1. a \in Nat /\ z \in Nat /\ a <= z /\ a # z
        BY <3>3, <3>4, <3>5, <3>7
      <4>2. m[nxt[s]] = a /\ m[s] = z
        BY <3>1, <3>2, <3>7
      <4> HIDE DEF a, z
      <4> QED
        BY <4>1, <4>2
    <3> QED
      BY <3>6, <3>7
  <2> HIDE DEF m, step, b, nxt, D, stop
  <2>6. PICK f \in [D -> A] : Solves(f, D, nxt, stop, b, step)
    <3>1. \A s \in D \ stop : m[nxt[s]] < m[s]
      BY <2>5
    <3> HIDE <2>5
    <3> QED
      BY <2>1, <2>2, <2>3, <2>4, <3>1, Recursive
  <2>7. ASSUME NEW s \in D
        PROVE  f[s] = IF s = {} THEN base ELSE g[<<f[s \ {Max(s)}], seq[Max(s)]>>]
    <3>1. CASE s = {}
      BY <2>6, <3>1 DEF stop, b, Solves
    <3>2. CASE s # {}
      <4>1. f[s] = step[<<s, f[nxt[s]]>>]
        BY <2>6, <3>2 DEF stop, Solves
      <4>2. nxt[s] = s \ {Max(s)}
        BY <3>2 DEF nxt
      <4>3. f[nxt[s]] \in A
        BY <2>2
      <4>4. step[<<s, f[nxt[s]]>>] = g[<<f[nxt[s]], seq[Max(s)]>>]
        BY <3>2, <4>3 DEF step
      <4> QED
        BY <3>2, <4>1, <4>2, <4>4
    <3> QED
      BY <3>1, <3>2
  <2>8. Eq(f)
    BY <2>7, SMTT(30)
  <2> QED
    BY <2>8
<1>3. Eq(iter)
  BY <1>2
<1> HIDE DEF iter
<1>4. /\ iter[{}] = base
      /\ \A k \in 1..n : iter[1..k] = g[<<iter[1..(k - 1)], seq[k]>>]
  <2>1. iter[{}] = base
    BY <1>3
  <2>2. ASSUME NEW k \in 1..n PROVE iter[1..k] = g[<<iter[1..(k - 1)], seq[k]>>]
    <3>1. (1..k) \in D /\ k \in 1..k
      BY <1>0
    <3>2. Max(1..k) \in 1..k /\ k <= Max(1..k)
      BY <1>1, <3>1
    <3>3. Max(1..k) = k /\ (1..k) \ {k} = 1..(k - 1)
      BY <1>0, <3>2
    <3> QED
      BY <1>3, <3>1, <3>3
  <2> QED
    BY <2>1, <2>2
<1> DEFINE S == {k \in Nat : k <= n => iter[1..k] = h[k]}
<1>5. 0 \in S
  <2>1. 1..0 = {}
    OBVIOUS
  <2> QED
    BY <1>4, <2>1 DEF Trace
<1>6. ASSUME NEW k \in S PROVE k + 1 \in S
  <2>1. CASE k + 1 <= n
    <3>1. k + 1 \in 1..n /\ (k + 1) - 1 = k
      BY <1>0, <2>1
    <3>2. iter[1..(k + 1)] = g[<<iter[1..k], seq[k + 1]>>]
      BY <1>4, <3>1
    <3>3. h[k + 1] = g[<<h[k], seq[k + 1]>>]
      BY <3>1 DEF Trace
    <3> QED
      BY <1>0, <2>1, <3>2, <3>3
  <2> QED
    BY <2>1
<1> HIDE DEF S
<1>7. Nat \subseteq S
  BY <1>5, <1>6, Induction DEF S
<1>8. iter[1..n] = h[n]
  BY <1>0, <1>7 DEF S
<1>9. FoldFn(g, base, seq) = iter[1..n]
  BY <1>0 DEF FoldFn, iter
<1> QED
  BY <1>8, <1>9

\* Every fold has a trace, and its results lie in whatever set the function keeps to.
LEMMA TraceExists ==
    ASSUME NEW A, NEW C, NEW g, NEW base, NEW seq, Foldable(A, C, g, base, seq)
    PROVE  \E h \in [0..Len(seq) -> A] : Trace(h, g, base, seq)
<1> DEFINE n == Len(seq)
           D == 0..n
           stop == {0}
           m == [k \in D |-> k]
           nxt == [k \in D |-> IF k = 0 THEN 0 ELSE k - 1]
           b == [k \in D |-> base]
           step == [p \in D \X A |-> IF p[1] = 0 THEN base ELSE g[<<p[2], seq[p[1]]>>]]
<1> USE DEF Foldable
<1>0. n \in Nat /\ DOMAIN seq = 1..n /\ \A i \in 1..n : seq[i] \in C
  OBVIOUS
<1>1. m \in [D -> Nat]
  BY <1>0
<1>2. nxt \in [D -> D]
  BY <1>0
<1>3. b \in [D -> A]
  OBVIOUS
<1>4. step \in [D \X A -> A]
  <2>1. ASSUME NEW k \in D, NEW a \in A, k # 0 PROVE g[<<a, seq[k]>>] \in A
    BY <1>0, <2>1
  <2>2. ASSUME NEW p \in D \X A
        PROVE  (IF p[1] = 0 THEN base ELSE g[<<p[2], seq[p[1]]>>]) \in A
    BY <2>1
  <2> QED
    BY <2>2
<1>5. \A k \in D \ stop : m[nxt[k]] < m[k]
  BY <1>0
<1> HIDE DEF m, step, b, nxt, D, stop
<1>6. PICK h \in [D -> A] : Solves(h, D, nxt, stop, b, step)
  BY <1>1, <1>2, <1>3, <1>4, <1>5, Recursive
<1>7. h[0] = base
  <2>1. 0 \in D /\ 0 \in stop /\ b[0] = base
    BY <1>0 DEF D, stop, b
  <2> QED
    BY <1>6, <2>1 DEF Solves
<1>8. ASSUME NEW k \in 1..n PROVE h[k] = g[<<h[k - 1], seq[k]>>]
  <2>1. k \in D /\ k \notin stop /\ k # 0 /\ nxt[k] = k - 1 /\ nxt[k] \in D
    BY <1>0 DEF D, stop, nxt
  <2>2. h[k] = step[<<k, h[nxt[k]]>>]
    BY <1>6, <2>1 DEF Solves
  <2>3. h[nxt[k]] \in A
    BY <2>1
  <2>4. step[<<k, h[nxt[k]]>>] = g[<<h[nxt[k]], seq[k]>>]
    BY <2>1, <2>3 DEF step
  <2> QED
    BY <2>1, <2>2, <2>4
<1> QED
  BY <1>6, <1>7, <1>8 DEF Trace, D

LEMMA FoldKept ==
    ASSUME NEW A, NEW C, NEW g, NEW base, NEW seq, Foldable(A, C, g, base, seq),
           NEW B \in SUBSET A, base \in B, NEW D \in SUBSET C, seq \in Seq(D),
           \A b \in B : \A c \in D : g[<<b, c>>] \in B
    PROVE  FoldFn(g, base, seq) \in B
<1> DEFINE k == [p \in B \X D |-> g[p]]
<1> USE DEF Foldable
<1>1. k \in [B \X D -> B]
  <2>1. \A p \in B \X D : \E b \in B : \E c \in D : p = <<b, c>>
    OBVIOUS
  <2>2. \A p \in B \X D : g[p] \in B
    BY <2>1
  <2> QED
    BY <2>2
<1> HIDE DEF k
<1>2. PICK h \in [0..Len(seq) -> B] : Trace(h, k, base, seq)
  <2>1. Foldable(B, D, k, base, seq)
    BY <1>1
  <2> HIDE DEF Foldable
  <2> QED
    BY <2>1, TraceExists
<1>3. Len(seq) \in Nat /\ \A i \in 1..Len(seq) : seq[i] \in D
  BY LenProperties, ElementOfSeq
<1>4. ASSUME NEW i \in 1..Len(seq) PROVE h[i] = g[<<h[i - 1], seq[i]>>]
  <2>1. h[i - 1] \in B /\ seq[i] \in D
    BY <1>3
  <2>2. h[i] = k[<<h[i - 1], seq[i]>>]
    BY <1>2 DEF Trace
  <2> QED
    BY <2>1, <2>2 DEF k
<1>5. Trace(h, g, base, seq)
  BY <1>2, <1>4 DEF Trace
<1>6. FoldFn(g, base, seq) = h[Len(seq)]
  <2> HIDE DEF Foldable
  <2> QED
    BY <1>5, FoldTrace
<1>7. Len(seq) \in 0..Len(seq)
  BY <1>3
<1> QED
  BY <1>2, <1>6, <1>7

LEMMA FoldWithin ==
    ASSUME NEW A, NEW C, NEW g, NEW base, NEW seq, Foldable(A, C, g, base, seq),
           NEW B \in SUBSET A, base \in B, \A b \in B : \A c \in C : g[<<b, c>>] \in B
    PROVE  FoldFn(g, base, seq) \in B
<1>1. C \in SUBSET C /\ seq \in Seq(C)
  BY DEF Foldable
<1> QED
  BY <1>1, FoldKept

LEMMA FoldIn ==
    ASSUME NEW A, NEW C, NEW g, NEW base, NEW seq, Foldable(A, C, g, base, seq)
    PROVE  FoldFn(g, base, seq) \in A
<1>1. base \in A /\ A \in SUBSET A /\ \A b \in A : \A c \in C : g[<<b, c>>] \in A
  BY DEF Foldable
<1> QED
  BY <1>1, FoldWithin

\* The fold of no element, of one more element at the end, and of one more in front.
LEMMA FoldEmpty ==
    ASSUME NEW g, NEW base
    PROVE  FoldFn(g, base, <<>>) = base
<1> DEFINE Eq(f) == f = [s \in SUBSET {} |-> IF s = {} THEN base
                                             ELSE g[<<f[s \ {Max(s)}], <<>>[Max(s)]>>]]
           iter == CHOOSE f : Eq(f)
<1>1. Eq([s \in SUBSET {} |-> base])
  OBVIOUS
<1>2. Eq(iter)
  BY <1>1
<1> HIDE DEF iter
<1>3. DOMAIN <<>> = {}
  OBVIOUS
<1>4. FoldFn(g, base, <<>>) = iter[{}]
  BY <1>3 DEF FoldFn, iter
<1> QED
  BY <1>2, <1>4

LEMMA FoldAppend ==
    ASSUME NEW A, NEW C, NEW g, NEW base, NEW seq, Foldable(A, C, g, base, seq), NEW c \in C
    PROVE  FoldFn(g, base, Append(seq, c)) = g[<<FoldFn(g, base, seq), c>>]
<1> DEFINE long == Append(seq, c)
           n == Len(seq)
<1>1. /\ long \in Seq(C) /\ n \in Nat /\ Len(long) = n + 1 /\ long[n + 1] = c
      /\ \A i \in 1..n : long[i] = seq[i]
  BY DEF Foldable
<1> HIDE DEF long
<1>0. Foldable(A, C, g, base, long)
  BY <1>1 DEF Foldable
<1>2. PICK h \in [0..Len(long) -> A] : Trace(h, g, base, long)
  BY <1>0, TraceExists
<1>3. Trace(h, g, base, seq)
  <2>1. ASSUME NEW k \in 1..n PROVE h[k] = g[<<h[k - 1], seq[k]>>]
    <3>1. k \in 1..Len(long) /\ long[k] = seq[k]
      BY <1>1
    <3> QED
      BY <1>2, <3>1 DEF Trace
  <2> QED
    BY <1>2, <2>1 DEF Trace
<1>4. FoldFn(g, base, seq) = h[n]
  BY <1>3, FoldTrace
<1>5. FoldFn(g, base, long) = h[n + 1]
  BY <1>0, <1>1, <1>2, FoldTrace
<1>6. h[n + 1] = g[<<h[n], c>>]
  <2>1. n + 1 \in 1..Len(long) /\ (n + 1) - 1 = n
    BY <1>1
  <2> QED
    BY <1>1, <1>2, <2>1 DEF Trace
<1> QED
  BY <1>4, <1>5, <1>6 DEF long

LEMMA FoldCons ==
    ASSUME NEW A, NEW C, NEW g, NEW base, NEW seq, Foldable(A, C, g, base, seq), NEW c \in C
    PROVE  FoldFn(g, base, <<c>> \o seq) = FoldFn(g, g[<<base, c>>], seq)
<1> DEFINE long == <<c>> \o seq
           n == Len(seq)
<1>1. /\ long \in Seq(C) /\ n \in Nat /\ Len(long) = n + 1 /\ long[1] = c
      /\ \A i \in 1..n : long[i + 1] = seq[i]
  BY DEF Foldable
<1> HIDE DEF long
<1>0. Foldable(A, C, g, base, long)
  BY <1>1 DEF Foldable
<1>2. PICK h \in [0..Len(long) -> A] : Trace(h, g, base, long)
  BY <1>0, TraceExists
<1> DEFINE k == [i \in 0..n |-> h[i + 1]]
<1>3. k[0] = g[<<base, c>>]
  <2>1. 1 \in 1..Len(long) /\ 1 - 1 = 0 /\ 0 \in 0..n /\ 0 + 1 = 1
    BY <1>1
  <2>2. h[1] = g[<<h[1 - 1], long[1]>>]
    BY <1>2, <2>1 DEF Trace
  <2>3. h[1] = g[<<base, c>>]
    BY <1>1, <1>2, <2>1, <2>2 DEF Trace
  <2> QED
    BY <2>1, <2>3
<1>4. ASSUME NEW i \in 1..n PROVE k[i] = g[<<k[i - 1], seq[i]>>]
  <2>1. i + 1 \in 1..Len(long) /\ (i + 1) - 1 = i /\ i - 1 \in 0..n /\ i \in 0..n /\ (i - 1) + 1 = i
    BY <1>1
  <2>2. h[i + 1] = g[<<h[i], seq[i]>>]
    BY <1>1, <1>2, <2>1 DEF Trace
  <2> QED
    BY <2>1, <2>2
<1>5. k[n] = h[n + 1]
  BY <1>1
<1> HIDE DEF k
<1>6. Trace(k, g, g[<<base, c>>], seq)
  BY <1>3, <1>4 DEF Trace
<1>7. Foldable(A, C, g, g[<<base, c>>], seq)
  BY DEF Foldable
<1>8. FoldFn(g, g[<<base, c>>], seq) = k[n]
  BY <1>6, <1>7, FoldTrace
<1>9. FoldFn(g, base, long) = h[n + 1]
  BY <1>0, <1>1, <1>2, FoldTrace
<1> QED
  BY <1>5, <1>8, <1>9 DEF long

----------------------------------------------------------------------------
\* The sum of the weights of a sequence's elements.

Weighed(C, w) == [p \in Nat \X C |-> p[1] + w[p[2]]]

Total(C, w, s) == FoldFn(Weighed(C, w), 0, s)

LEMMA WeighedFoldable ==
    ASSUME NEW C, NEW w \in [C -> Nat], NEW s \in Seq(C), NEW n \in Nat
    PROVE  /\ Foldable(Nat, C, Weighed(C, w), n, s)
           /\ \A c \in C : Weighed(C, w)[<<n, c>>] = n + w[c]
<1>1. \A p \in Nat \X C : p[1] + w[p[2]] \in Nat
  <2>1. \A p \in Nat \X C : p[1] \in Nat /\ w[p[2]] \in Nat
    OBVIOUS
  <2>2. \A a, b \in Nat : a + b \in Nat
    OBVIOUS
  <2> QED
    BY <2>1, <2>2
<1> QED
  BY <1>1 DEF Foldable, Weighed

LEMMA TotalFirst ==
    ASSUME NEW C, NEW w \in [C -> Nat]
    PROVE  /\ Total(C, w, <<>>) = 0
           /\ \A s \in Seq(C) : Total(C, w, s) \in Nat
           /\ \A s \in Seq(C), c \in C : Total(C, w, <<c>> \o s) = w[c] + Total(C, w, s)
           /\ \A s \in Seq(C), c \in C : Total(C, w, Append(s, c)) = Total(C, w, s) + w[c]
<1> DEFINE g == Weighed(C, w)
<1>1. Total(C, w, <<>>) = 0
  BY FoldEmpty DEF Total
<1>2. ASSUME NEW s \in Seq(C), NEW n \in Nat
      PROVE  /\ Foldable(Nat, C, g, n, s) /\ FoldFn(g, n, s) \in Nat
             /\ \A c \in C : g[<<n, c>>] = n + w[c]
  <2>1. Foldable(Nat, C, g, n, s) /\ \A c \in C : g[<<n, c>>] = n + w[c]
    BY WeighedFoldable
  <2> HIDE DEF g
  <2> QED
    BY <2>1, FoldIn
<1> HIDE DEF g
<1>3. ASSUME NEW s \in Seq(C), NEW n \in Nat PROVE FoldFn(g, n, s) = n + FoldFn(g, 0, s)
  <2>1. Foldable(Nat, C, g, 0, s) /\ Foldable(Nat, C, g, n, s)
    BY <1>2
  <2>2. PICK h \in [0..Len(s) -> Nat] : Trace(h, g, 0, s)
    BY <2>1, TraceExists
  <2>3. Len(s) \in Nat /\ \A k \in 1..Len(s) : s[k] \in C
    OBVIOUS
  <2> DEFINE f == [k \in 0..Len(s) |-> n + h[k]]
  <2>4. f[0] = n
    BY <2>2, <2>3 DEF Trace
  <2>5. ASSUME NEW k \in 1..Len(s) PROVE f[k] = g[<<f[k - 1], s[k]>>]
    <3>1. k \in 0..Len(s) /\ k - 1 \in 0..Len(s) /\ s[k] \in C
      BY <2>3
    <3>2. h[k - 1] \in Nat /\ f[k - 1] = n + h[k - 1] /\ f[k - 1] \in Nat /\ f[k] = n + h[k]
      BY <2>2, <3>1
    <3>3. h[k] = g[<<h[k - 1], s[k]>>]
      BY <2>2 DEF Trace
    <3> HIDE DEF f
    <3>4. h[k] = h[k - 1] + w[s[k]] /\ w[s[k]] \in Nat
      BY <1>2, <3>1, <3>2, <3>3
    <3>5. g[<<f[k - 1], s[k]>>] = f[k - 1] + w[s[k]]
      BY <1>2, <3>1, <3>2
    <3> QED
      BY <3>2, <3>4, <3>5
  <2>6. f[Len(s)] = n + h[Len(s)]
    BY <2>3
  <2> HIDE DEF f
  <2>7. Trace(f, g, n, s)
    BY <2>4, <2>5 DEF Trace
  <2>8. FoldFn(g, n, s) = f[Len(s)] /\ FoldFn(g, 0, s) = h[Len(s)]
    BY <2>1, <2>2, <2>7, FoldTrace
  <2> QED
    BY <2>6, <2>8
<1>4. ASSUME NEW s \in Seq(C), NEW c \in C
      PROVE  FoldFn(g, 0, <<c>> \o s) = w[c] + FoldFn(g, 0, s)
  <2>1. Foldable(Nat, C, g, 0, s) /\ g[<<0, c>>] = w[c] /\ w[c] \in Nat
    <3>1. 0 \in Nat /\ w[c] \in Nat /\ 0 + w[c] = w[c]
      OBVIOUS
    <3>2. Foldable(Nat, C, g, 0, s) /\ g[<<0, c>>] = 0 + w[c]
      BY <1>2
    <3> QED
      BY <3>1, <3>2
  <2>2. FoldFn(g, 0, <<c>> \o s) = FoldFn(g, g[<<0, c>>], s)
    BY <2>1, FoldCons
  <2> QED
    BY <1>3, <2>1, <2>2
<1>5. ASSUME NEW s \in Seq(C), NEW c \in C
      PROVE  FoldFn(g, 0, Append(s, c)) = FoldFn(g, 0, s) + w[c]
  <2>1. Foldable(Nat, C, g, 0, s) /\ FoldFn(g, 0, s) \in Nat
    BY <1>2
  <2>2. FoldFn(g, 0, Append(s, c)) = g[<<FoldFn(g, 0, s), c>>]
    BY <2>1, FoldAppend
  <2> QED
    BY <1>2, <2>1, <2>2
<1> QED
  BY <1>1, <1>2, <1>4, <1>5 DEF Total, g

LEMMA TotalJoined ==
    ASSUME NEW C, NEW w \in [C -> Nat]
    PROVE  \A s, t \in Seq(C) : Total(C, w, s \o t) = Total(C, w, s) + Total(C, w, t)
<1> DEFINE S == {n \in Nat : \A s, t \in Seq(C) :
                     Len(t) = n => Total(C, w, s \o t) = Total(C, w, s) + Total(C, w, t)}
<1>1. 0 \in S
  <2> SUFFICES ASSUME NEW s \in Seq(C), NEW t \in Seq(C), Len(t) = 0
               PROVE  Total(C, w, s \o t) = Total(C, w, s) + Total(C, w, t)
    OBVIOUS
  <2>1. t = <<>> /\ s \o t = s
    BY EmptySeq, ConcatEmptySeq
  <2> QED
    BY <2>1, TotalFirst
<1>2. ASSUME NEW n \in S PROVE n + 1 \in S
  <2> SUFFICES ASSUME NEW s \in Seq(C), NEW t \in Seq(C), Len(t) = n + 1
               PROVE  Total(C, w, s \o t) = Total(C, w, s) + Total(C, w, t)
    OBVIOUS
  <2> DEFINE r == Tail(t)
             c == Head(t)
             u == Append(s, c)
  <2>1. t # <<>>
    OBVIOUS
  <2>2. c \in C /\ r \in Seq(C) /\ t = <<c>> \o r /\ Len(r) = n
    BY <2>1, HeadTailProperties
  <2> HIDE DEF c, r
  <2>3. u \in Seq(C) /\ u \o r = s \o t
    BY <2>2
  <2>7. u = Append(s, c)
    OBVIOUS
  <2> HIDE DEF u
  <2>4. Total(C, w, u \o r) = Total(C, w, u) + Total(C, w, r)
    BY <2>2, <2>3
  <2>5. Total(C, w, u) = Total(C, w, s) + w[c] /\ Total(C, w, t) = w[c] + Total(C, w, r)
    <3>1. Total(C, w, Append(s, c)) = Total(C, w, s) + w[c] /\ Total(C, w, <<c>> \o r) = w[c] + Total(C, w, r)
      <4>1. \A x \in Seq(C), y \in C : /\ Total(C, w, Append(x, y)) = Total(C, w, x) + w[y]
                                       /\ Total(C, w, <<y>> \o x) = w[y] + Total(C, w, x)
        BY TotalFirst
      <4> QED
        BY <2>2, <4>1
    <3> QED
      BY <2>2, <2>7, <3>1
  <2>6. Total(C, w, s) \in Nat /\ Total(C, w, r) \in Nat /\ w[c] \in Nat
    BY <2>2, TotalFirst
  <2> QED
    BY <2>3, <2>4, <2>5, <2>6
<1> HIDE DEF S
<1>3. Nat \subseteq S
  BY <1>1, <1>2, Induction
<1> QED
  BY <1>3 DEF S

\* The first elements weigh no more than all of them.
LEMMA TotalOfFirst ==
    ASSUME NEW C, NEW w \in [C -> Nat], NEW s \in Seq(C), NEW n \in 0..Len(s)
    PROVE  /\ SubSeq(s, 1, n) \in Seq(C)
           /\ Total(C, w, SubSeq(s, 1, n)) <= Total(C, w, s)
<1> DEFINE a == SubSeq(s, 1, n)
           b == SubSeq(s, n + 1, Len(s))
<1>1. a \in Seq(C) /\ b \in Seq(C) /\ a \o b = s
  <2>0. Len(s) \in Nat /\ n \in Nat /\ n <= Len(s)
    OBVIOUS
  <2>1. a \in Seq(C) /\ Len(a) = n /\ \A i \in 1..n : a[i] = s[i]
    BY <2>0
  <2>2. b \in Seq(C) /\ Len(b) = Len(s) - n /\ \A i \in 1..(Len(s) - n) : b[i] = s[n + i]
    BY <2>0
  <2> HIDE DEF a, b
  <2>3. a \o b \in Seq(C) /\ Len(a \o b) = Len(s)
    BY <2>0, <2>1, <2>2
  <2>4. ASSUME NEW i \in 1..Len(s) PROVE (a \o b)[i] = s[i]
    <3>1. CASE i <= n
      BY <2>0, <2>1, <2>2, <3>1
    <3>2. CASE i > n
      <4>1. i - n \in 1..(Len(s) - n) /\ n + (i - n) = i
        BY <2>0, <3>2
      <4>2. (a \o b)[i] = b[i - n]
        <5>1. i \in 1..(Len(a) + Len(b)) /\ ~(i <= Len(a))
          BY <2>0, <2>1, <2>2, <3>2
        <5>2. \A k \in 1..(Len(a) + Len(b)) : (a \o b)[k] = IF k <= Len(a) THEN a[k] ELSE b[k - Len(a)]
          BY <2>1, <2>2, ConcatProperties
        <5> QED
          BY <2>1, <5>1, <5>2
      <4> QED
        BY <2>2, <4>1, <4>2
    <3>3. i <= n \/ i > n
      BY <2>0
    <3> QED
      BY <3>1, <3>2, <3>3
  <2>5. a \o b = s
    BY <2>3, <2>4, SeqEqual
  <2> QED
    BY <2>1, <2>2, <2>5
<1> HIDE DEF a, b
<1>2. Total(C, w, s) = Total(C, w, a) + Total(C, w, b)
  BY <1>1, TotalJoined
<1>3. Total(C, w, a) \in Nat /\ Total(C, w, b) \in Nat
  BY <1>1, TotalFirst
<1> QED
  BY <1>1, <1>2, <1>3 DEF a

\* An element weighs no more than all of them, and two of them together neither.
LEMMA TotalOfTwo ==
    ASSUME NEW C, NEW w \in [C -> Nat], NEW s \in Seq(C), NEW i \in 1..Len(s)
    PROVE  /\ w[s[i]] <= Total(C, w, s)
           /\ \A j \in 1..(i - 1) : w[s[j]] + w[s[i]] <= Total(C, w, s)
<1> DEFINE n == Len(s)
           Upto(k) == SubSeq(s, 1, k)
           T(k) == Total(C, w, Upto(k))
           all == Total(C, w, s)
<1>0. n \in Nat /\ i \in Nat /\ i >= 1 /\ i <= n /\ all \in Nat
  BY TotalFirst
<1>1. \A k \in 0..n : Upto(k) \in Seq(C) /\ T(k) <= all /\ T(k) \in Nat
  BY TotalOfFirst, TotalFirst
<1>2. ASSUME NEW k \in 1..n
      PROVE  T(k) = T(k - 1) + w[s[k]] /\ w[s[k]] \in Nat
  <2>1. k - 1 \in 0..n /\ s[k] \in C
    BY <1>0
  <2>2. Upto(k - 1) \in Seq(C)
    BY <1>1, <2>1
  <2>3. Upto(k) = Append(Upto(k - 1), s[k])
    BY <1>0
  <2> HIDE DEF Upto
  <2>4. Total(C, w, Append(Upto(k - 1), s[k])) = Total(C, w, Upto(k - 1)) + w[s[k]]
    BY <2>1, <2>2, TotalFirst
  <2> QED
    BY <2>1, <2>3, <2>4
<1>3. ASSUME NEW j \in 0..n, NEW k \in 0..n, j <= k PROVE T(j) <= T(k)
  <2> DEFINE t == Upto(k)
  <2>0. j \in Nat /\ k \in Nat /\ k <= n /\ j <= n
    BY <1>0
  <2>4. t \in Seq(C) /\ Len(t) = k /\ \A x \in 1..k : t[x] = s[x]
    BY <1>0, <1>1, <2>0
  <2>5. Upto(j) \in Seq(C) /\ Len(Upto(j)) = j /\ \A x \in 1..j : Upto(j)[x] = s[x]
    BY <1>0, <1>1, <2>0
  <2>6. SubSeq(t, 1, j) = Upto(j)
    <3> HIDE DEF t, Upto
    <3>1. SubSeq(t, 1, j) \in Seq(C) /\ Len(SubSeq(t, 1, j)) = j /\ \A x \in 1..j : SubSeq(t, 1, j)[x] = t[x]
      BY <1>3, <2>0, <2>4
    <3>2. \A x \in 1..j : x \in 1..k
      BY <1>3, <2>0
    <3> QED
      BY <2>4, <2>5, <3>1, <3>2, SeqEqual
  <2>1. t \in Seq(C) /\ Len(t) = k /\ SubSeq(t, 1, j) = Upto(j)
    BY <2>4, <2>6
  <2> HIDE DEF t
  <2>2. j \in 0..Len(t)
    BY <1>3, <2>1
  <2>3. Total(C, w, SubSeq(t, 1, j)) <= Total(C, w, t)
    BY <2>1, <2>2, TotalOfFirst
  <2> QED
    BY <2>1, <2>3 DEF t
<1> HIDE DEF n, Upto, T, all
<1>4. w[s[i]] <= all
  <2>1. i \in 0..n /\ i - 1 \in 0..n /\ i \in 1..n
    BY <1>0
  <2>2. T(i) <= all /\ T(i - 1) \in Nat /\ T(i) = T(i - 1) + w[s[i]] /\ w[s[i]] \in Nat
    BY <1>1, <1>2, <2>1
  <2> QED
    BY <1>0, <2>2
<1>5. ASSUME NEW j \in 1..(i - 1) PROVE w[s[j]] + w[s[i]] <= all
  <2>1. i \in 0..n /\ i - 1 \in 0..n /\ j \in 0..n /\ j - 1 \in 0..n /\ i \in 1..n /\ j \in 1..n /\ j <= i - 1
    BY <1>0
  <2>2. T(i) <= all /\ T(i) \in Nat /\ T(i - 1) \in Nat /\ T(i) = T(i - 1) + w[s[i]] /\ w[s[i]] \in Nat
    BY <1>1, <1>2, <2>1
  <2>3. T(j) <= T(i - 1)
    BY <1>3, <2>1
  <2>4. T(j) \in Nat /\ T(j - 1) \in Nat /\ T(j) = T(j - 1) + w[s[j]] /\ w[s[j]] \in Nat
    BY <1>1, <1>2, <2>1
  <2> DEFINE x == w[s[i]]
             y == w[s[j]]
  <2>5. x \in Nat /\ y \in Nat /\ y <= T(j) /\ T(i - 1) + x <= all
    BY <2>2, <2>4
  <2> HIDE DEF x, y
  <2>6. y + x <= all
    BY <1>0, <2>2, <2>3, <2>4, <2>5
  <2> QED
    BY <2>6 DEF x, y
<1> QED
  BY <1>4, <1>5 DEF all

\* Weights that are all null.
LEMMA TotalNone ==
    ASSUME NEW C, NEW w \in [C -> Nat]
    PROVE  \A s \in Seq(C) : (\A i \in 1..Len(s) : w[s[i]] = 0) => Total(C, w, s) = 0
<1> DEFINE S == {n \in Nat : \A s \in Seq(C) :
                     Len(s) = n /\ (\A i \in 1..Len(s) : w[s[i]] = 0) => Total(C, w, s) = 0}
<1>1. 0 \in S
  <2>1. \A s \in Seq(C) : Len(s) = 0 => s = <<>>
    BY EmptySeq
  <2> QED
    BY <2>1, TotalFirst
<1>2. ASSUME NEW n \in S PROVE n + 1 \in S
  <2> SUFFICES ASSUME NEW s \in Seq(C), Len(s) = n + 1, \A i \in 1..Len(s) : w[s[i]] = 0
               PROVE  Total(C, w, s) = 0
    OBVIOUS
  <2> DEFINE r == SubSeq(s, 1, n)
  <2>1. r \in Seq(C) /\ Len(r) = n /\ s[n + 1] \in C /\ s = Append(r, s[n + 1])
    OBVIOUS
  <2>2. \A i \in 1..n : r[i] = s[i]
    OBVIOUS
  <2> HIDE DEF r
  <2>3. Total(C, w, r) = 0
    BY <2>1, <2>2
  <2>4. w[s[n + 1]] = 0
    OBVIOUS
  <2>5. Total(C, w, Append(r, s[n + 1])) = Total(C, w, r) + w[s[n + 1]]
    BY <2>1, TotalFirst
  <2>6. Total(C, w, s) = 0 + 0
    BY <2>1, <2>3, <2>4, <2>5
  <2> QED
    BY <2>6
<1> HIDE DEF S
<1>3. Nat \subseteq S
  BY <1>1, <1>2, Induction
<1> QED
  BY <1>3 DEF S
\* Elements that weigh no more than those at the same places of another sequence, but
\* for the place j.
LEMMA TotalCompared ==
    ASSUME NEW C, NEW w \in [C -> Nat], NEW s \in Seq(C), NEW D, NEW v \in [D -> Nat], NEW t \in Seq(D),
           Len(s) = Len(t), NEW j \in Nat \ {0}, NEW a \in Nat, NEW b \in Nat,
           \A i \in 1..Len(s) : i # j => v[t[i]] <= w[s[i]],
           j <= Len(s) => v[t[j]] + a <= w[s[j]] + b
    PROVE  /\ j <= Len(s) => Total(D, v, t) + a <= Total(C, w, s) + b
           /\ j > Len(s) => Total(D, v, t) <= Total(C, w, s)
<1> DEFINE x(n) == Total(D, v, SubSeq(t, 1, n))
           y(n) == Total(C, w, SubSeq(s, 1, n))
           Claim(n) == IF j <= n THEN x(n) + a <= y(n) + b ELSE x(n) <= y(n)
           S == {n \in Nat : n <= Len(s) => Claim(n)}
<1>1. Len(s) \in Nat
  BY LenProperties
<1>a. /\ Total(C, w, <<>>) = 0 /\ \A u \in Seq(C) : Total(C, w, u) \in Nat
      /\ \A u \in Seq(C), c \in C : Total(C, w, Append(u, c)) = Total(C, w, u) + w[c]
  BY TotalFirst
<1>b. /\ Total(D, v, <<>>) = 0 /\ \A u \in Seq(D) : Total(D, v, u) \in Nat
      /\ \A u \in Seq(D), c \in D : Total(D, v, Append(u, c)) = Total(D, v, u) + v[c]
  BY TotalFirst
<1>2. x(0) = 0 /\ y(0) = 0
  <2>1. SubSeq(t, 1, 0) = <<>> /\ SubSeq(s, 1, 0) = <<>>
    BY SubSeqEmpty
  <2> QED
    BY <1>a, <1>b, <2>1
<1>3. ASSUME NEW n \in Nat, n + 1 <= Len(s)
      PROVE  /\ x(n) \in Nat /\ y(n) \in Nat /\ v[t[n + 1]] \in Nat /\ w[s[n + 1]] \in Nat
             /\ x(n + 1) = x(n) + v[t[n + 1]]
             /\ y(n + 1) = y(n) + w[s[n + 1]]
  <2>1. n + 1 \in 1..Len(s) /\ 1 \in 1..Len(s) /\ n \in 0..Len(s)
    BY <1>1, <1>3
  <2>2. t[n + 1] \in D /\ s[n + 1] \in C
    BY <2>1, ElementOfSeq
  <2>3. SubSeq(t, 1, n) \in Seq(D) /\ SubSeq(s, 1, n) \in Seq(C)
    BY <1>1, <2>1, TotalOfFirst
  <2>4. SubSeq(t, 1, n + 1) = Append(SubSeq(t, 1, n), t[n + 1])
    <3>1. SubSeq(t, 1, n + 1) = SubSeq(t, 1, (n + 1) - 1) \o <<t[n + 1]>>
      BY <2>1, SubSeqRecursiveSecond
    <3> QED
      BY <2>2, <2>3, <3>1, AppendIsConcat
  <2>5. SubSeq(s, 1, n + 1) = Append(SubSeq(s, 1, n), s[n + 1])
    <3>1. SubSeq(s, 1, n + 1) = SubSeq(s, 1, (n + 1) - 1) \o <<s[n + 1]>>
      BY <2>1, SubSeqRecursiveSecond
    <3> QED
      BY <2>2, <2>3, <3>1, AppendIsConcat
  <2>6. x(n + 1) = x(n) + v[t[n + 1]] /\ x(n) \in Nat
    BY <1>b, <2>2, <2>3, <2>4
  <2>7. y(n + 1) = y(n) + w[s[n + 1]] /\ y(n) \in Nat
    BY <1>a, <2>2, <2>3, <2>5
  <2> QED
    BY <2>2, <2>6, <2>7
<1> HIDE DEF x, y
<1>4. 0 \in S
  BY <1>2
<1>5. ASSUME NEW n \in Nat, n \in S PROVE n + 1 \in S
  <2> SUFFICES ASSUME n + 1 <= Len(s) PROVE Claim(n + 1)
    OBVIOUS
  <2>1. Claim(n) /\ n + 1 \in 1..Len(s)
    BY <1>1, <1>5
  <2> DEFINE p == v[t[n + 1]]
             q == w[s[n + 1]]
  <2>2. x(n) \in Nat /\ y(n) \in Nat /\ p \in Nat /\ q \in Nat /\ x(n + 1) = x(n) + p /\ y(n + 1) = y(n) + q
    BY <1>3
  <2>3. n + 1 # j => p <= q
    BY <2>1
  <2>4. n + 1 = j => p + a <= q + b
    BY <2>1
  <2>5. CASE n + 1 < j
    <3>1. x(n) <= y(n)
      BY <2>1, <2>5
    <3> HIDE DEF p, q
    <3>2. x(n + 1) <= y(n + 1)
      BY <2>2, <2>3, <2>5, <3>1
    <3> QED
      BY <2>5, <3>2
  <2>6. CASE n + 1 = j
    <3>1. x(n) <= y(n)
      BY <2>1, <2>6
    <3> HIDE DEF p, q
    <3>2. x(n + 1) + a <= y(n + 1) + b
      BY <2>2, <2>4, <2>6, <3>1
    <3> QED
      BY <2>6, <3>2
  <2>7. CASE n + 1 > j
    <3>1. x(n) + a <= y(n) + b
      BY <2>1, <2>7
    <3> HIDE DEF p, q
    <3>2. x(n + 1) + a <= y(n + 1) + b
      BY <2>2, <2>3, <2>7, <3>1
    <3> QED
      BY <2>7, <3>2
  <2> QED
    BY <2>5, <2>6, <2>7
<1> HIDE DEF S, Claim
<1>6. Nat \subseteq S
  BY <1>4, <1>5, Induction
<1>7. Claim(Len(s))
  BY <1>1, <1>6 DEF S
<1>8. x(Len(s)) = Total(D, v, t) /\ y(Len(s)) = Total(C, w, s)
  BY SubSeqFull DEF x, y
<1>9. x(Len(s)) \in Nat /\ y(Len(s)) \in Nat
  BY <1>a, <1>b, <1>8
<1> QED
  BY <1>1, <1>7, <1>8, <1>9 DEF Claim

====
