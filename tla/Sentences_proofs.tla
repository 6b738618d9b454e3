------------------------- MODULE Sentences_proofs -------------------------
(***************************************************************************)
(* What cutting, storing, removing, merging and joining do to every text,  *)
(* for any windows, capacities, ids and bounds.  This needs induction over *)
(* sequences: folds and recursive functions are unfolded from their        *)
(* definitions (FoldExists, WhereIs, WindowsExist), and facts about them   *)
(* go by Induction.                                                        *)
(***************************************************************************)
EXTENDS Sentences, FiniteSetTheorems, SequenceTheorems, WellFoundedInduction, TLAPS

-----------------------------------------------------------------------------
(* Induction, and folds as functions (as in Vectors_proofs, which has other  *)
(* modules to speak of).                                                     *)

\* A set of numbers that has 0, and with each number the next, has all of them.
LEMMA Induction ==
    ASSUME NEW P, 0 \in P, \A n \in Nat : n \in P => n + 1 \in P
    PROVE  Nat \subseteq P
<1> DEFINE S == Nat \ P
<1>1. SUFFICES ASSUME S # {} PROVE FALSE
  OBVIOUS
<1>2. PICK k \in S : \A n \in S : ~(<<n, k>> \in OpToRel(<, Nat))
  <2>1. S \subseteq Nat
    OBVIOUS
  <2> HIDE DEF S
  <2> QED BY <1>1, <2>1, WFMin, NatLessThanWellFounded, Zenon
<1>3. \A n \in S : ~(n < k)
  BY <1>2 DEF OpToRel
<1>4. k \in Nat /\ k # 0
  OBVIOUS
<1>5. k - 1 \in Nat /\ k - 1 < k
  BY <1>4
<1>6. k - 1 \in P
  BY <1>3, <1>5
<1>7. k \in P
  BY <1>4, <1>5, <1>6
<1> QED
  BY <1>7

\* The largest of a range is its end; taking it away leaves the range before it.
LEMMA MaxOfRange ==
    ASSUME NEW k \in Nat, k # 0
    PROVE  Max(1 .. k) = k /\ (1 .. k) \ {k} = 1 .. k - 1
  BY DEF Max

\* A non-empty set of numbers up to n has a largest.
LEMMA MaxIs ==
    ASSUME NEW n \in Nat, NEW s \in SUBSET (1 .. n), s # {}
    PROVE  Max(s) \in s /\ \A x \in s : x <= Max(s)
<1> DEFINE P == {k \in Nat : \A t \in SUBSET (1 .. k) : t # {} => \E x \in t : \A y \in t : x >= y}
<1>1. 0 \in P
  <2>1. SUBSET (1 .. 0) = {{}}
    OBVIOUS
  <2> QED BY <2>1
<1>2. ASSUME NEW k \in Nat, k \in P PROVE k + 1 \in P
  <2> SUFFICES ASSUME NEW t \in SUBSET (1 .. k + 1), t # {}
               PROVE \E x \in t : \A y \in t : x >= y
    OBVIOUS
  <2>1. CASE k + 1 \in t
    BY <2>1
  <2>2. CASE k + 1 \notin t
    <3>1. t \in SUBSET (1 .. k)
      BY <2>2
    <3> QED BY <3>1, <1>2
  <2> QED BY <2>1, <2>2
<1>3. Nat \subseteq P
  <2> HIDE DEF P
  <2> QED BY <1>1, <1>2, Induction
<1>4. \E x \in s : \A y \in s : x >= y
  BY <1>3
<1>5. Max(s) \in s /\ \A y \in s : Max(s) >= y
  BY <1>4 DEF Max
<1> QED
  BY <1>5

\* What a fold over places 1 to n computes: g of a set of places takes the last one
\* and what the others give.
FoldsBy(g, n, T, base, step) ==
    /\ g \in [SUBSET (1 .. n) -> T]
    /\ \A s \in SUBSET (1 .. n) :
          g[s] = IF s = {} THEN base ELSE step[<<Max(s), g[s \ {Max(s)}]>>]

\* What folds are made of: whatever a step does with an element (its place) and
\* what came before, there is a function on the sets of places that does it from
\* the last place to the first.
LEMMA FoldExists ==
    ASSUME NEW n \in Nat, NEW T, NEW base \in T, NEW step \in [(1 .. n) \X T -> T]
    PROVE  \E g : FoldsBy(g, n, T, base, step)
<1> DEFINE Is(g, k) ==
              \A s \in SUBSET (1 .. k) :
                 g[s] = IF s = {} THEN base ELSE step[<<Max(s), g[s \ {Max(s)}]>>]
           P == {k \in Nat : k <= n => \E g \in [SUBSET (1 .. k) -> T] : Is(g, k)}
<1>1. 0 \in P
  <2> DEFINE g == [s \in SUBSET (1 .. 0) |-> base]
  <2>1. SUBSET (1 .. 0) = {{}}
    OBVIOUS
  <2>2. g \in [SUBSET (1 .. 0) -> T] /\ Is(g, 0)
    BY <2>1
  <2> HIDE DEF g, Is
  <2> QED BY <2>2
<1>2. ASSUME NEW k \in Nat, k \in P PROVE k + 1 \in P
  <2> SUFFICES ASSUME k + 1 <= n PROVE \E g \in [SUBSET (1 .. k + 1) -> T] : Is(g, k + 1)
    <3>1. k + 1 \in Nat
      OBVIOUS
    <3> HIDE DEF Is
    <3> QED BY <3>1, Zenon
  <2>1. PICK h \in [SUBSET (1 .. k) -> T] : Is(h, k)
    <3>1. k <= n
      OBVIOUS
    <3> QED BY <3>1, <1>2
  <2> DEFINE g == [s \in SUBSET (1 .. k + 1) |->
                     IF s \in SUBSET (1 .. k) THEN h[s] ELSE step[<<k + 1, h[s \ {k + 1}]>>]]
  <2>2. \A s \in SUBSET (1 .. k + 1) : s \notin SUBSET (1 .. k) =>
           s # {} /\ Max(s) = k + 1 /\ s \ {k + 1} \in SUBSET (1 .. k)
    <3> TAKE s \in SUBSET (1 .. k + 1)
    <3> HAVE s \notin SUBSET (1 .. k)
    <3>1. k + 1 \in s
      OBVIOUS
    <3>2. Max(s) \in s /\ k + 1 <= Max(s)
      BY <3>1, MaxIs, k + 1 \in Nat
    <3>3. Max(s) \in 1 .. k + 1
      BY <3>2
    <3>4. Max(s) = k + 1
      BY <3>2, <3>3
    <3> QED BY <3>1, <3>4
  <2>3. g \in [SUBSET (1 .. k + 1) -> T]
    <3> SUFFICES ASSUME NEW s \in SUBSET (1 .. k + 1)
                 PROVE (IF s \in SUBSET (1 .. k) THEN h[s] ELSE step[<<k + 1, h[s \ {k + 1}]>>]) \in T
      BY Zenon
    <3>1. CASE s \in SUBSET (1 .. k)
      BY <3>1, <2>1
    <3>2. CASE s \notin SUBSET (1 .. k)
      <4>1. h[s \ {k + 1}] \in T
        BY <3>2, <2>1, <2>2
      <4>2. k + 1 \in 1 .. n
        OBVIOUS
      <4> QED BY <3>2, <4>1, <4>2
    <3> QED BY <3>1, <3>2
  <2>4. ASSUME NEW s \in SUBSET (1 .. k + 1)
        PROVE g[s] = IF s = {} THEN base ELSE step[<<Max(s), g[s \ {Max(s)}]>>]
    <3>1. CASE s \in SUBSET (1 .. k)
      <4>1. g[s] = h[s]
        BY <3>1
      <4>2. CASE s = {}
        BY <4>1, <4>2, <3>1, <2>1
      <4>3. CASE s # {}
        <5>1. s \ {Max(s)} \in SUBSET (1 .. k) /\ s \ {Max(s)} \in SUBSET (1 .. k + 1)
          BY <3>1
        <5>2. g[s \ {Max(s)}] = h[s \ {Max(s)}]
          BY <5>1
        <5>3. h[s] = step[<<Max(s), h[s \ {Max(s)}]>>]
          BY <3>1, <2>1, <4>3
        <5> QED BY <4>1, <4>3, <5>2, <5>3
      <4> QED BY <4>2, <4>3
    <3>2. CASE s \notin SUBSET (1 .. k)
      <4>1. s # {} /\ Max(s) = k + 1 /\ s \ {k + 1} \in SUBSET (1 .. k)
        BY <3>2, <2>2
      <4>2. s \ {k + 1} \in SUBSET (1 .. k + 1)
        OBVIOUS
      <4>3. g[s] = step[<<k + 1, h[s \ {k + 1}]>>]
        BY <3>2
      <4>4. g[s \ {k + 1}] = h[s \ {k + 1}]
        BY <4>1, <4>2
      <4> QED BY <4>1, <4>3, <4>4
    <3> QED BY <3>1, <3>2
  <2>5. Is(g, k + 1)
    BY <2>4
  <2> HIDE DEF g, Is
  <2> QED BY <2>3, <2>5
<1>3. Nat \subseteq P
  <2> HIDE DEF P
  <2> QED BY <1>1, <1>2, Induction
<1>4. \E g \in [SUBSET (1 .. n) -> T] : Is(g, n)
  <2>1. n \in P
    <3> HIDE DEF P
    <3> QED BY <1>3
  <2>2. n <= n
    OBVIOUS
  <2> HIDE DEF Is
  <2> QED BY <2>1, <2>2, Zenon
<1> QED
  BY <1>4, Zenon DEF FoldsBy

-----------------------------------------------------------------------------
(* Sentences: lists of places, which is what Where returns. *)

\* h goes on from each place to the next by step.
Recurs(h, n, T, base, step) ==
    /\ h \in [0 .. n -> T] /\ h[0] = base
    /\ \A k \in 1 .. n : h[k] = step[<<k, h[k - 1]>>]

\* iter does to a set of places what step does to its last one and the others.
StepsBy(iter, n, T, step) ==
    \A t \in SUBSET (1 .. n) : (t # {} /\ iter[t \ {Max(t)}] \in T) =>
        iter[t] = step[<<Max(t), iter[t \ {Max(t)}]>>]

\* What a fold over places computes, place by place.
LEMMA FoldUnrolls ==
    ASSUME NEW n \in Nat, NEW T, NEW base \in T, NEW step \in [(1 .. n) \X T -> T],
           NEW iter, iter[{}] = base, StepsBy(iter, n, T, step)
    PROVE  \E h : Recurs(h, n, T, base, step) /\ h[n] = iter[1 .. n]
<1>1. ASSUME NEW k \in 1 .. n, iter[1 .. k - 1] \in T PROVE iter[1 .. k] = step[<<k, iter[1 .. k - 1]>>]
  <2>1. k \in Nat /\ k # 0 /\ k <= n /\ k \in 1 .. k
    OBVIOUS
  <2>2. \A x \in 1 .. k : x \in 1 .. n
    BY <2>1
  <2>3. 1 .. k \in SUBSET (1 .. n) /\ 1 .. k # {}
    BY <2>1, <2>2, Zenon
  <2>4. Max(1 .. k) = k /\ (1 .. k) \ {k} = 1 .. k - 1
    BY <2>1, MaxOfRange
  <2> QED BY <1>1, <2>3, <2>4 DEF StepsBy
<1> DEFINE h == [k \in 0 .. n |-> iter[1 .. k]]
           P == {k \in Nat : k <= n => iter[1 .. k] \in T}
<1>2. 1 .. 0 = {}
  OBVIOUS
<1>3. 0 \in P
  BY <1>2
<1>4. ASSUME NEW k \in Nat, k \in P PROVE k + 1 \in P
  <2> SUFFICES ASSUME k + 1 <= n PROVE iter[1 .. k + 1] \in T
    <3>1. k + 1 \in Nat
      OBVIOUS
    <3> QED BY <3>1, Zenon
  <2>1. (k + 1) - 1 = k /\ k <= n /\ k + 1 \in 1 .. n
    OBVIOUS
  <2>2. iter[1 .. k] \in T
    BY <2>1, <1>4
  <2>3. iter[1 .. k + 1] = step[<<k + 1, iter[1 .. k]>>]
    BY <1>1, <2>1, <2>2
  <2>4. <<k + 1, iter[1 .. k]>> \in (1 .. n) \X T
    BY <2>1, <2>2
  <2> QED BY <2>3, <2>4, Zenon
<1>5. Nat \subseteq P
  <2> HIDE DEF P
  <2> QED BY <1>3, <1>4, Induction
<1>6. h \in [0 .. n -> T]
  BY <1>5
<1>7. h[0] = base /\ h[n] = iter[1 .. n]
  BY <1>2
<1>8. \A k \in 1 .. n : h[k] = step[<<k, h[k - 1]>>]
  <2> TAKE k \in 1 .. n
  <2>1. k \in 0 .. n /\ k - 1 \in 0 .. n
    OBVIOUS
  <2>2. h[k] = iter[1 .. k] /\ h[k - 1] = iter[1 .. k - 1] /\ h[k - 1] \in T
    BY <2>1, <1>6
  <2> HIDE DEF h
  <2> QED BY <2>2, <1>1
<1> HIDE DEF h
<1> QED BY <1>6, <1>7, <1>8 DEF Recurs

\* A recursive function of the places from 0 to n exists.
LEMMA RecursionExists ==
    ASSUME NEW n \in Nat, NEW T, NEW base \in T, NEW step \in [(1 .. n) \X T -> T]
    PROVE  \E h : Recurs(h, n, T, base, step)
<1>1. PICK g : FoldsBy(g, n, T, base, step)
  BY FoldExists, Zenon
<1>2. g[{}] = base
  BY <1>1 DEF FoldsBy
<1>3. StepsBy(g, n, T, step)
  BY <1>1, Zenon DEF FoldsBy, StepsBy
<1>4. \E h : Recurs(h, n, T, base, step) /\ h[n] = g[1 .. n]
  BY <1>2, <1>3, FoldUnrolls, SMTT(40)
<1> QED BY <1>4, Zenon

\* Where, one place further.
Note(s, S, w, k) == IF s[k] \in S THEN Append(w, k) ELSE w

\* What Where has noted of each number of places.
Noting(h, s, n, S) ==
    /\ h \in [0 .. n -> Seq(1 .. n)] /\ h[0] = <<>> /\ Where(s, S) = h[n]
    /\ \A k \in 1 .. n : h[k] = Note(s, S, h[k - 1], k)

\* Where goes through the places one by one.
LEMMA WhereIs ==
    ASSUME NEW s, NEW n \in Nat, n = Len(s), NEW S
    PROVE  \E h : Noting(h, s, n, S)
<1> DEFINE T == Seq(1 .. n)
           Body(it) == [k \in 0 .. n |-> IF k = 0 THEN <<>>
                                         ELSE IF s[k] \in S THEN Append(it[k - 1], k) ELSE it[k - 1]]
           upto == CHOOSE it : it = Body(it)
           step == [p \in (1 .. n) \X T |-> Note(s, S, p[2], p[1])]
<1>1. <<>> \in T
  OBVIOUS
<1>2. step \in [(1 .. n) \X T -> T]
  <2> SUFFICES ASSUME NEW k \in 1 .. n, NEW w \in T PROVE Note(s, S, w, k) \in T
    BY Zenon
  <2>1. Append(w, k) \in T
    BY AppendProperties
  <2> QED BY <2>1 DEF Note
<1>3a. PICK h : Recurs(h, n, T, <<>>, step)
  <2> HIDE DEF step, T
  <2> QED BY <1>1, <1>2, RecursionExists, Zenon
<1>3. h \in [0 .. n -> T] /\ h[0] = <<>> /\ \A k \in 1 .. n : h[k] = step[<<k, h[k - 1]>>]
  <2> HIDE DEF step, T
  <2> QED BY <1>3a DEF Recurs
<1>4. h = Body(h)
  <2> SUFFICES ASSUME NEW k \in 0 .. n
               PROVE  h[k] = IF k = 0 THEN <<>>
                             ELSE IF s[k] \in S THEN Append(h[k - 1], k) ELSE h[k - 1]
    BY <1>3
  <2>1. CASE k = 0
    BY <2>1, <1>3
  <2>2. CASE k # 0
    <3>1. k \in 1 .. n /\ k - 1 \in 0 .. n
      BY <2>2
    <3>2. h[k] = step[<<k, h[k - 1]>>] /\ h[k - 1] \in T
      BY <3>1, <1>3
    <3>3. step[<<k, h[k - 1]>>] = Note(s, S, h[k - 1], k)
      BY <3>1, <3>2
    <3> QED BY <2>2, <3>2, <3>3 DEF Note
  <2> QED BY <2>1, <2>2
<1>5. upto = Body(upto)
  BY <1>4
<1>6. Where(s, S) = upto[n]
  BY DEF Where
<1> HIDE DEF upto, step
<1>7. upto[0] = <<>> /\ \A k \in 1 .. n : upto[k] = Note(s, S, upto[k - 1], k)
  <2>1. 0 \in 0 .. n
    OBVIOUS
  <2>2. ASSUME NEW k \in 1 .. n PROVE upto[k] = Note(s, S, upto[k - 1], k)
    <3>1. k \in 0 .. n /\ k # 0
      OBVIOUS
    <3> QED BY <3>1, <1>5 DEF Note
  <2>3. upto[0] = <<>>
    BY <2>1, <1>5
  <2> QED BY <2>2, <2>3
<1> DEFINE P == {k \in Nat : k <= n => upto[k] \in T}
<1>8. 0 \in P
  BY <1>1, <1>7
<1>9. ASSUME NEW k \in Nat, k \in P PROVE k + 1 \in P
  <2> SUFFICES ASSUME k + 1 <= n PROVE upto[k + 1] \in T
    <3>1. k + 1 \in Nat
      OBVIOUS
    <3> QED BY <3>1, Zenon
  <2>1. (k + 1) - 1 = k /\ k <= n /\ k + 1 \in 1 .. n
    OBVIOUS
  <2>2. upto[k] \in T /\ upto[k + 1] = Note(s, S, upto[k], k + 1)
    BY <1>7, <1>9, <2>1
  <2>3. Append(upto[k], k + 1) \in T
    BY <2>1, <2>2, AppendProperties
  <2> QED BY <2>2, <2>3 DEF Note
<1>10. Nat \subseteq P
  <2> HIDE DEF P
  <2> QED BY <1>8, <1>9, Induction
<1>11. upto \in [0 .. n -> T]
  <2>1. \A k \in 0 .. n : upto[k] \in T
    BY <1>10
  <2> QED BY <1>5, <2>1
<1> QED BY <1>6, <1>7, <1>11 DEF Noting

\* w goes up.
Increasing(w) == \A i, j \in 1 .. Len(w) : i < j => w[i] < w[j]

\* w lists the places in A, which are up to n, in their order.
Lists(w, n, A) == w \in Seq(1 .. n) /\ Increasing(w) /\ {w[j] : j \in 1 .. Len(w)} = A

\* A later place goes to the end of the list.
LEMMA AppendLists ==
    ASSUME NEW n \in Nat, NEW w, NEW A, Lists(w, n, A), NEW x \in 1 .. n, \A a \in A : a < x
    PROVE  Lists(Append(w, x), n, A \union {x})
<1>1. w \in Seq(1 .. n) /\ Increasing(w) /\ {w[j] : j \in 1 .. Len(w)} = A
  BY DEF Lists
<1> DEFINE v == Append(w, x)
<1>2. /\ v \in Seq(1 .. n) /\ Len(v) = Len(w) + 1 /\ Len(w) \in Nat /\ v[Len(w) + 1] = x
      /\ \A i \in 1 .. Len(w) : v[i] = w[i]
  BY <1>1, AppendProperties
<1> HIDE DEF v
<1>3. \A i \in 1 .. Len(v) : i \in 1 .. Len(w) \/ i = Len(w) + 1
  BY <1>2
<1>4. Increasing(v)
  <2> SUFFICES ASSUME NEW i \in 1 .. Len(v), NEW j \in 1 .. Len(v), i < j PROVE v[i] < v[j]
    BY DEF Increasing
  <2>1. CASE j \in 1 .. Len(w)
    <3>1. i \in 1 .. Len(w)
      BY <1>2, <2>1
    <3> QED BY <1>1, <1>2, <2>1, <3>1 DEF Increasing
  <2>2. CASE j = Len(w) + 1
    <3>1. i \in 1 .. Len(w)
      BY <1>2, <2>2
    <3>2. w[i] \in A
      BY <1>1, <3>1
    <3> QED BY <1>2, <2>2, <3>1, <3>2
  <2> QED BY <1>3, <2>1, <2>2
<1>5. {v[j] : j \in 1 .. Len(v)} = A \union {x}
  <2>1. ASSUME NEW j \in 1 .. Len(v) PROVE v[j] \in A \union {x}
    BY <1>1, <1>2, <1>3
  <2>2. ASSUME NEW a \in A PROVE \E j \in 1 .. Len(v) : v[j] = a
    <3>1. PICK j \in 1 .. Len(w) : w[j] = a
      BY <1>1
    <3>2. j \in 1 .. Len(v)
      BY <1>2
    <3> QED BY <1>2, <3>1, <3>2
  <2>3. Len(w) + 1 \in 1 .. Len(v)
    BY <1>2
  <2> QED BY <1>2, <2>1, <2>2, <2>3, ZenonT(40)
<1>6. Lists(v, n, A \union {x})
  BY <1>2, <1>4, <1>5 DEF Lists
<1> QED BY <1>6 DEF v

\* Where lists the places that have a member of the set.
LEMMA WhereLists ==
    ASSUME NEW s, NEW n \in Nat, n = Len(s), NEW S
    PROVE  Lists(Where(s, S), n, {x \in 1 .. n : s[x] \in S})
<1>0. PICK h : Noting(h, s, n, S)
  BY WhereIs, Zenon
<1>1. /\ h \in [0 .. n -> Seq(1 .. n)] /\ h[0] = <<>> /\ Where(s, S) = h[n]
      /\ \A k \in 1 .. n : h[k] = Note(s, S, h[k - 1], k)
  BY <1>0 DEF Noting
<1> DEFINE A(k) == {x \in 1 .. k : s[x] \in S}
           P == {k \in Nat : k <= n => Lists(h[k], n, A(k))}
<1>2. 0 \in P
  <2>1. A(0) = {}
    OBVIOUS
  <2>2. Lists(<<>>, n, {})
    <3>1. <<>> \in Seq(1 .. n) /\ Len(<<>>) = 0 /\ 1 .. 0 = {}
      OBVIOUS
    <3> QED BY <3>1 DEF Lists, Increasing
  <2> QED BY <1>1, <2>1, <2>2
<1>3. ASSUME NEW k \in Nat, k \in P PROVE k + 1 \in P
  <2> SUFFICES ASSUME k + 1 <= n PROVE Lists(h[k + 1], n, A(k + 1))
    <3>1. k + 1 \in Nat
      OBVIOUS
    <3> QED BY <3>1, Zenon
  <2>1. (k + 1) - 1 = k /\ k <= n /\ k + 1 \in 1 .. n
    OBVIOUS
  <2>2. Lists(h[k], n, A(k)) /\ h[k + 1] = Note(s, S, h[k], k + 1)
    BY <1>1, <1>3, <2>1
  <2>3. CASE s[k + 1] \in S
    <3>1. A(k + 1) = A(k) \union {k + 1} /\ \A a \in A(k) : a < k + 1
      BY <2>3
    <3>2. h[k + 1] = Append(h[k], k + 1)
      BY <2>2, <2>3 DEF Note
    <3> HIDE DEF A
    <3>3. Lists(Append(h[k], k + 1), n, A(k) \union {k + 1})
      BY <2>1, <2>2, <3>1, AppendLists
    <3> QED BY <3>1, <3>2, <3>3
  <2>4. CASE s[k + 1] \notin S
    <3>1. A(k + 1) = A(k)
      BY <2>4
    <3>2. h[k + 1] = h[k]
      BY <2>2, <2>4 DEF Note
    <3> HIDE DEF A
    <3> QED BY <2>2, <3>1, <3>2
  <2> QED BY <2>3, <2>4
<1>4. Nat \subseteq P
  <2> HIDE DEF P
  <2> QED BY <1>2, <1>3, Induction
<1>5. Lists(h[n], n, A(n))
  <2> HIDE DEF A
  <2> QED BY <1>4
<1> QED BY <1>1, <1>5

\* What is listed, at which place.
LEMMA ListsAre ==
    ASSUME NEW n \in Nat, NEW A, NEW w, Lists(w, n, A)
    PROVE  /\ Len(w) \in Nat /\ \A j \in 1 .. Len(w) : w[j] \in 1 .. n /\ w[j] \in A
           /\ \A a \in A : \E j \in 1 .. Len(w) : w[j] = a
           /\ \A i, j \in 1 .. Len(w) : i < j => w[i] < w[j]
           /\ \A i, j \in 1 .. Len(w) : w[i] < w[j] => i < j
           /\ \A i, j \in 1 .. Len(w) : w[i] <= w[j] <=> i <= j
<1>1. w \in Seq(1 .. n) /\ Increasing(w) /\ {w[j] : j \in 1 .. Len(w)} = A
  BY DEF Lists
<1>2. Len(w) \in Nat /\ \A j \in 1 .. Len(w) : w[j] \in 1 .. n
  BY <1>1, ElementOfSeq, LenProperties
<1>3. \A i, j \in 1 .. Len(w) : i < j => w[i] < w[j]
  BY <1>1 DEF Increasing
<1>4. \A i, j \in 1 .. Len(w) : w[i] < w[j] => i < j
  <2> TAKE i, j \in 1 .. Len(w)
  <2> HAVE w[i] < w[j]
  <2>1. w[i] \in Int /\ w[j] \in Int /\ i \in Int /\ j \in Int
    BY <1>2
  <2>2. CASE j < i
    BY <1>3, <2>1, <2>2
  <2>3. CASE i = j
    BY <2>1, <2>3
  <2> QED BY <2>1, <2>2, <2>3
<1>5. \A i, j \in 1 .. Len(w) : w[i] <= w[j] <=> i <= j
  <2> TAKE i, j \in 1 .. Len(w)
  <2>1. w[i] \in Int /\ w[j] \in Int /\ i \in Int /\ j \in Int
    BY <1>2
  <2> QED BY <1>3, <1>4, <2>1
<1> QED BY <1>1, <1>2, <1>3, <1>4, <1>5

\* There is one list of a set.
LEMMA ListedAlike ==
    ASSUME NEW n \in Nat, NEW A, NEW v, NEW w, Lists(v, n, A), Lists(w, n, A), NEW k \in Nat, k <= Len(v)
    PROVE  k <= Len(w) /\ \A i \in 1 .. k : v[i] = w[i]

<1>1. /\ Len(v) \in Nat /\ \A j \in 1 .. Len(v) : v[j] \in 1 .. n /\ v[j] \in A
      /\ \A a \in A : \E j \in 1 .. Len(v) : v[j] = a
      /\ \A i, j \in 1 .. Len(v) : i < j => v[i] < v[j]
      /\ \A i, j \in 1 .. Len(v) : v[i] <= v[j] <=> i <= j
  BY ListsAre
<1>2. /\ Len(w) \in Nat /\ \A j \in 1 .. Len(w) : w[j] \in 1 .. n /\ w[j] \in A
      /\ \A a \in A : \E j \in 1 .. Len(w) : w[j] = a
      /\ \A i, j \in 1 .. Len(w) : i < j => w[i] < w[j]
      /\ \A i, j \in 1 .. Len(w) : w[i] <= w[j] <=> i <= j
  BY ListsAre
<1> DEFINE Alike(j) == j <= Len(w) /\ \A i \in 1 .. j : v[i] = w[i]
           P == {j \in Nat : j <= Len(v) => Alike(j)}
<1>3. 0 \in P
  BY <1>2
<1>4. ASSUME NEW j \in Nat, j \in P PROVE j + 1 \in P
  <2> SUFFICES ASSUME j + 1 <= Len(v) PROVE Alike(j + 1)
    <3>1. j + 1 \in Nat
      OBVIOUS
    <3> QED BY <3>1, Zenon
  <2>1. j <= Len(v) /\ j + 1 \in 1 .. Len(v)
    BY <1>1
  <2>2. j <= Len(w) /\ \A i \in 1 .. j : v[i] = w[i]
    BY <1>4, <2>1
  <2>3. PICK m \in 1 .. Len(w) : w[m] = v[j + 1]
    BY <1>1, <1>2, <2>1
  <2>4. m >= j + 1
    <3>1. CASE m <= j
      <4>1. m \in 1 .. j /\ m \in 1 .. Len(v) /\ m < j + 1
        BY <1>1, <2>1, <3>1
      <4>2. v[m] = w[m] /\ v[m] < v[j + 1] /\ v[m] \in Int
        BY <1>1, <2>1, <2>2, <4>1
      <4> QED BY <2>3, <4>2
    <3> QED BY <3>1
  <2>5. j + 1 \in 1 .. Len(w)
    BY <1>2, <2>4
  <2>6. PICK l \in 1 .. Len(v) : v[l] = w[j + 1]
    BY <1>1, <1>2, <2>5
  <2>7. l >= j + 1
    <3>1. CASE l <= j
      <4>1. l \in 1 .. j /\ l \in 1 .. Len(w) /\ l < j + 1
        BY <1>2, <2>2, <3>1
      <4>2. v[l] = w[l] /\ w[l] < w[j + 1] /\ w[l] \in Int
        BY <1>2, <2>2, <2>5, <4>1
      <4> QED BY <2>6, <4>2
    <3> QED BY <3>1
  <2>8. w[j + 1] <= w[m] /\ v[j + 1] <= v[l]
    BY <1>1, <1>2, <2>1, <2>4, <2>5, <2>7
  <2>9. v[j + 1] \in Int /\ w[j + 1] \in Int
    BY <1>1, <1>2, <2>1, <2>5
  <2>10. v[j + 1] = w[j + 1]
    BY <2>3, <2>6, <2>8, <2>9
  <2>11. \A i \in 1 .. j + 1 : i \in 1 .. j \/ i = j + 1
    OBVIOUS
  <2> QED BY <2>2, <2>5, <2>10, <2>11
<1>5. Nat \subseteq P
  <2> HIDE DEF P
  <2> QED BY <1>3, <1>4, Induction
<1> QED BY <1>5

\* A set of places is listed in one way.
LEMMA ListedOnce ==
    ASSUME NEW n \in Nat, NEW A, NEW v, NEW w, Lists(v, n, A), Lists(w, n, A)
    PROVE  v = w
<1>1. v \in Seq(1 .. n) /\ w \in Seq(1 .. n) /\ Len(v) \in Nat /\ Len(w) \in Nat
  BY LenProperties DEF Lists
<1>2. Len(v) <= Len(w) /\ \A i \in 1 .. Len(v) : v[i] = w[i]
  BY <1>1, ListedAlike
<1>3. Len(w) <= Len(v)
  BY <1>1, ListedAlike
<1>4. Len(v) = Len(w)
  BY <1>1, <1>2, <1>3
<1> QED BY <1>1, <1>2, <1>4, SeqEqual

\* p is s from a to b.
IsPart(p, S, s, a, b) ==
    /\ p \in Seq(S) /\ Len(p) = (b - a) + 1
    /\ \A i \in 1 .. (b - a) + 1 : p[i] = s[(a + i) - 1]

\* A part of a sequence.
LEMMA PartIs ==
    ASSUME NEW S, NEW s \in Seq(S), NEW a \in 1 .. Len(s) + 1, NEW b \in a - 1 .. Len(s)
    PROVE  IsPart(SubSeq(s, a, b), S, s, a, b)
<1>1. Len(s) \in Nat /\ a \in Int /\ b \in Int /\ \A i \in a .. b : s[i] \in S
  OBVIOUS
<1>2. SubSeq(s, a, b) \in Seq(S)
  BY <1>1, SubSeqProperties
<1>3. Len(SubSeq(s, a, b)) = (b - a) + 1
  BY <1>1, SubSeqProperties
<1>4. ASSUME NEW i \in 1 .. (b - a) + 1 PROVE SubSeq(s, a, b)[i] = s[(a + i) - 1]
  BY <1>1, SubSeqProperties
<1> QED BY <1>2, <1>3, <1>4 DEF IsPart

\* What is said: characters, and no two tokens without something between them.
TextOK(text) ==
    /\ text \in Seq(Nat \union {Tab})
    /\ \A i \in 1 .. Len(text) - 1 : text[i] > 0 => text[i + 1] \in {Blank, Tab}

\* A text's tokens are listed in their order.
LEMMA TokensAre ==
    ASSUME NEW text, text \in Seq(Nat \union {Tab})
    PROVE  Len(text) \in Nat /\ Lists(Tokens(text), Len(text), {x \in 1 .. Len(text) : text[x] > 0})
<1>1. Len(text) \in Nat /\ \A x \in 1 .. Len(text) : text[x] \in Nat \union {Tab}
  BY LenProperties, ElementOfSeq
<1>2. Lists(Where(text, Nat \ {Blank}), Len(text), {x \in 1 .. Len(text) : text[x] \in Nat \ {Blank}})
  BY <1>1, WhereLists
<1>3. {x \in 1 .. Len(text) : text[x] \in Nat \ {Blank}} = {x \in 1 .. Len(text) : text[x] > 0}
  BY <1>1 DEF Blank, Tab
<1> QED BY <1>1, <1>2, <1>3 DEF Tokens

\* A window of a text with n tokens.
Window(w, n) == w.first \in Nat /\ w.last \in Nat /\ w.first < w.last /\ w.last <= n

\* Where the tokens of a window stand in the text.
LEMMA WindowTokens ==
    ASSUME NEW text, text \in Seq(Nat \union {Tab}), NEW w, Window(w, Len(Tokens(text)))
    PROVE  /\ Len(Tokens(text)) \in Nat
           /\ \A j \in 1 .. w.last - w.first : w.first + j \in 1 .. Len(Tokens(text))
           /\ \A j \in 1 .. Len(Tokens(text)) : Tokens(text)[j] \in 1 .. Len(text)
           /\ Tokens(text)[w.first + 1] <= Tokens(text)[w.last]
           /\ w.first + 1 \in 1 .. Len(Tokens(text)) /\ w.last \in 1 .. Len(Tokens(text))
<1> DEFINE T == Tokens(text)
<1>1. Lists(T, Len(text), {x \in 1 .. Len(text) : text[x] > 0}) /\ Len(text) \in Nat
  BY TokensAre
<1> HIDE DEF T
<1>2. /\ Len(T) \in Nat /\ \A j \in 1 .. Len(T) : T[j] \in 1 .. Len(text)
      /\ \A i, j \in 1 .. Len(T) : T[i] <= T[j] <=> i <= j
  BY <1>1, ListsAre
<1>3. Window(w, Len(T))
  BY DEF T
<1>4. w.first + 1 \in 1 .. Len(T) /\ w.last \in 1 .. Len(T) /\ w.first + 1 <= w.last
  BY <1>2, <1>3 DEF Window
<1>5. T[w.first + 1] <= T[w.last]
  BY <1>2, <1>4
<1>6. \A j \in 1 .. w.last - w.first : w.first + j \in 1 .. Len(T)
  BY <1>2, <1>3, SMTT(40) DEF Window
<1> QED BY <1>2, <1>4, <1>5, <1>6 DEF T

\* A slice is the text from the first token of the window to the last one.
LEMMA SliceIs ==
    ASSUME NEW text, text \in Seq(Nat \union {Tab}), NEW w, Window(w, Len(Tokens(text))),
           NEW a, a = Tokens(text)[w.first + 1], NEW b, b = Tokens(text)[w.last]
    PROVE  /\ a \in 1 .. Len(text) /\ b \in 1 .. Len(text) /\ a <= b
           /\ Slice(text, w) \in Seq(Nat \union {Tab}) /\ Len(Slice(text, w)) = (b - a) + 1
           /\ \A i \in 1 .. (b - a) + 1 : Slice(text, w)[i] = text[(a + i) - 1]
<1>1. a \in 1 .. Len(text) /\ b \in 1 .. Len(text) /\ a <= b
  BY WindowTokens
<1>2. Slice(text, w) = SubSeq(text, a, b)
  BY DEF Slice
<1>3. /\ SubSeq(text, a, b) \in Seq(Nat \union {Tab})
      /\ Len(SubSeq(text, a, b)) = (b - a) + 1
      /\ \A i \in 1 .. (b - a) + 1 : SubSeq(text, a, b)[i] = text[(a + i) - 1]
  <2>1. PICK S : S = Nat \union {Tab}
    OBVIOUS
  <2>2. a \in 1 .. Len(text) + 1 /\ b \in a - 1 .. Len(text) /\ text \in Seq(S)
    BY <1>1, <2>1
  <2>3. /\ SubSeq(text, a, b) \in Seq(S) /\ Len(SubSeq(text, a, b)) = (b - a) + 1
        /\ \A i \in 1 .. (b - a) + 1 : SubSeq(text, a, b)[i] = text[(a + i) - 1]
    <3>1. IsPart(SubSeq(text, a, b), S, text, a, b)
      BY <2>2, PartIs, Zenon
    <3> QED BY <3>1, Zenon DEF IsPart
  <2> QED BY <2>1, <2>3
<1> QED BY <1>1, <1>2, <1>3

\* The tokens of a slice are those of the window, as far apart as in the text.
LEMMA SliceTokens ==
    ASSUME NEW text, text \in Seq(Nat \union {Tab}), NEW w, Window(w, Len(Tokens(text)))
    PROVE  Tokens(Slice(text, w)) =
              [j \in 1 .. w.last - w.first |->
                  (Tokens(text)[w.first + j] - Tokens(text)[w.first + 1]) + 1]
<1> DEFINE T == Tokens(text)
           u == Slice(text, w)
<1>1. PICK a, b : a = T[w.first + 1] /\ b = T[w.last]
  OBVIOUS
<1>2. PICK f, l : f = w.first /\ l = w.last
  OBVIOUS
<1> DEFINE m == (b - a) + 1
           v == [j \in 1 .. l - f |-> (T[f + j] - a) + 1]
           A == {x \in 1 .. Len(text) : text[x] > 0}
<1>3. /\ a \in 1 .. Len(text) /\ b \in 1 .. Len(text) /\ a <= b
      /\ u \in Seq(Nat \union {Tab}) /\ Len(u) = m
      /\ \A i \in 1 .. m : u[i] = text[(a + i) - 1]
  BY <1>1, SliceIs, SMTT(40)
<1>4. Lists(T, Len(text), A) /\ Len(text) \in Nat
  BY TokensAre
<1>5. Lists(Tokens(u), m, {x \in 1 .. m : u[x] > 0})
  <2>1. Lists(Tokens(u), Len(u), {x \in 1 .. Len(u) : u[x] > 0})
    BY <1>3, TokensAre
  <2> QED BY <1>3, <2>1
<1>6. f \in Nat /\ l \in Nat /\ f < l /\ l <= Len(T) /\ a = T[f + 1] /\ b = T[l]
  BY <1>1, <1>2 DEF Window
<1> HIDE DEF T, u
<1>7. /\ Len(T) \in Nat /\ \A j \in 1 .. Len(T) : T[j] \in 1 .. Len(text) /\ T[j] \in A
      /\ \A x \in A : \E j \in 1 .. Len(T) : T[j] = x
      /\ \A i, j \in 1 .. Len(T) : i < j => T[i] < T[j]
      /\ \A i, j \in 1 .. Len(T) : T[i] <= T[j] <=> i <= j
  <2> HIDE DEF A
  <2> QED BY <1>4, ListsAre
<1>8. \A j \in 1 .. l - f : f + j \in 1 .. Len(T) /\ f + 1 \in 1 .. Len(T) /\ l \in 1 .. Len(T)
  BY <1>6, <1>7
<1>9. l - f \in Nat /\ Len(v) = l - f /\ m \in Nat
  BY <1>3, <1>6
<1>10. ASSUME NEW j \in 1 .. l - f PROVE v[j] \in 1 .. m /\ u[v[j]] > 0
  <2>1. T[f + j] \in 1 .. Len(text) /\ a <= T[f + j] /\ T[f + j] <= b /\ text[T[f + j]] > 0
    <3>1. f + 1 <= f + j /\ f + j <= l
      BY <1>6
    <3> QED BY <1>6, <1>7, <1>8, <3>1
  <2>2. v[j] = (T[f + j] - a) + 1
    OBVIOUS
  <2>3. v[j] \in 1 .. m /\ (a + v[j]) - 1 = T[f + j]
    BY <1>3, <2>1, <2>2, SMTT(40)
  <2> HIDE DEF m, v
  <2>4. u[v[j]] = text[T[f + j]]
    BY <1>3, <2>3
  <2> QED BY <2>1, <2>3, <2>4
<1>11. ASSUME NEW i \in 1 .. l - f, NEW j \in 1 .. l - f, i < j PROVE v[i] < v[j]
  <2>1. T[f + i] < T[f + j] /\ T[f + i] \in Int /\ T[f + j] \in Int
    BY <1>6, <1>7, <1>8, <1>11
  <2> QED BY <1>3, <2>1, SMTT(40)
<1>12. ASSUME NEW x \in 1 .. m, u[x] > 0 PROVE \E j \in 1 .. l - f : v[j] = x
  <2>1. (a + x) - 1 \in A /\ a <= (a + x) - 1 /\ (a + x) - 1 <= b
    <3>1. (a + x) - 1 \in 1 .. Len(text)
      BY <1>3, <1>4
    <3> QED BY <1>3, <1>12, <3>1, SMTT(40)
  <2>2. PICK i \in 1 .. Len(T) : T[i] = (a + x) - 1
    BY <1>7, <2>1
  <2>3. f + 1 <= i /\ i <= l
    BY <1>6, <1>7, <1>8, <1>9, <2>1, <2>2, SMTT(40)
  <2>4. i - f \in 1 .. l - f /\ f + (i - f) = i
    BY <1>6, <2>3
  <2>5. v[i - f] = (T[i] - a) + 1
    BY <2>4
  <2>6. v[i - f] = x
    BY <1>3, <2>2, <2>5
  <2> QED BY <2>4, <2>6
<1>13. Lists(v, m, {x \in 1 .. m : u[x] > 0})
  <2>1. v \in [1 .. l - f -> 1 .. m]
    BY <1>10
  <2>2. v \in Seq(1 .. m)
    <3> HIDE DEF v, m
    <3> QED BY <1>9, <2>1
  <2> HIDE DEF v, m
  <2>3. {v[j] : j \in 1 .. Len(v)} = {x \in 1 .. m : u[x] > 0}
    BY <1>9, <1>10, <1>12
  <2> QED BY <1>9, <1>11, <2>2, <2>3 DEF Lists, Increasing
<1>14. Tokens(u) = v
  <2> DEFINE X == {x \in 1 .. m : u[x] > 0}
  <2> HIDE DEF v, m, X
  <2>1. Lists(v, m, X) /\ Lists(Tokens(u), m, X)
    BY <1>5, <1>13 DEF X
  <2> QED BY <1>9, <2>1, ListedOnce, Zenon
<1> QED BY <1>1, <1>2, <1>6, <1>14 DEF T, u

\* Where a text has no tab there is a blank before each token but the first, and
\* one more before the next.
LEMMA BlanksBefore ==
    ASSUME NEW u, u \in Seq(Nat), TextOK(u), NEW k \in 1 .. Len(Tokens(u))
    PROVE  /\ k - 1 <= Len(Where(u, {Blank}))
           /\ k > 1 => Where(u, {Blank})[k - 1] < Tokens(u)[k]
<1> DEFINE U == Tokens(u)
           B == Where(u, {Blank})
           n == Len(u)
           X == {x \in 1 .. n : u[x] > 0}
           Y == {x \in 1 .. n : u[x] \in {Blank}}
<1>1. n \in Nat /\ \A x \in 1 .. n : u[x] \in Nat
  BY LenProperties, ElementOfSeq
<1>2. Lists(U, n, X)
  BY TokensAre DEF TextOK
<1>3. Lists(B, n, Y)
  BY <1>1, WhereLists, Zenon
<1>4. \A i \in 1 .. n - 1 : u[i] > 0 => u[i + 1] = Blank
  BY <1>1 DEF TextOK, Blank, Tab
<1>5. Len(U) \in Nat /\ k \in 1 .. Len(U)
  BY <1>2, ListsAre
<1> HIDE DEF U, B, n
<1>6. /\ \A j \in 1 .. Len(U) : U[j] \in 1 .. n /\ U[j] \in X
      /\ \A i, j \in 1 .. Len(U) : i < j => U[i] < U[j]
  <2> HIDE DEF X
  <2> QED BY <1>1, <1>2, ListsAre
<1>7. /\ Len(B) \in Nat /\ \A j \in 1 .. Len(B) : B[j] \in 1 .. n
      /\ \A x \in Y : \E j \in 1 .. Len(B) : B[j] = x
      /\ \A i, j \in 1 .. Len(B) : B[i] < B[j] => i < j
      /\ \A i, j \in 1 .. Len(B) : B[i] <= B[j] <=> i <= j
  <2> HIDE DEF Y
  <2> QED BY <1>1, <1>3, ListsAre
<1> DEFINE Good(j) == j - 1 <= Len(B) /\ (j > 1 => B[j - 1] < U[j])
           P == {j \in Nat : j \in 1 .. Len(U) => Good(j)}
<1>8. 0 \in P
  OBVIOUS
<1>9. ASSUME NEW j \in Nat, j \in P PROVE j + 1 \in P
  <2> SUFFICES ASSUME j + 1 \in 1 .. Len(U) PROVE Good(j + 1)
    <3>1. j + 1 \in Nat
      OBVIOUS
    <3> QED BY <3>1, Zenon
  <2>1. (j + 1) - 1 = j
    OBVIOUS
  <2>2. CASE j = 0
    BY <1>7, <2>1, <2>2
  <2>3. CASE j # 0
    <3>1. j \in 1 .. Len(U) /\ j < j + 1
      BY <1>5, <2>3
    <3>2. Good(j)
      BY <1>9, <3>1
    <3>3. U[j] < U[j + 1] /\ U[j] \in 1 .. n /\ U[j + 1] \in 1 .. n /\ u[U[j]] > 0 /\ u[U[j + 1]] > 0
      BY <1>6, <3>1
    <3>4. PICK x : x = U[j] + 1
      OBVIOUS
    <3>5. x \in 1 .. n /\ x <= U[j + 1] /\ U[j] < x /\ u[x] = Blank
      <4>1. U[j] \in 1 .. n - 1
        BY <1>1, <3>3, SMTT(40)
      <4>2. u[U[j] + 1] = Blank
        BY <1>4, <3>3, <4>1
      <4>3. PICK y, z : y = U[j] /\ z = U[j + 1]
        OBVIOUS
      <4>4. y < z /\ y \in 1 .. n /\ z \in 1 .. n /\ x = y + 1
        BY <3>3, <3>4, <4>3
      <4>5. x \in 1 .. n /\ x <= z /\ y < x
        BY <1>1, <4>4
      <4> QED BY <3>4, <4>2, <4>3, <4>5
    <3>6. x < U[j + 1]
      BY <1>1, <3>3, <3>5, SMTT(40) DEF Blank
    <3>7. PICK m \in 1 .. Len(B) : B[m] = x
      BY <1>7, <3>5
    <3>8. j <= m
      <4>1. CASE j = 1
        BY <4>1
      <4>2. CASE j > 1
        <5>1. j - 1 \in 1 .. Len(B)
          BY <1>7, <3>1, <3>2, <4>2
        <5>2. B[j - 1] < B[m]
          <6>1. PICK y, z : y = B[j - 1] /\ z = U[j]
            OBVIOUS
          <6>2. y \in 1 .. n
            BY <1>7, <5>1, <6>1
          <6>3. z \in 1 .. n /\ z < x /\ x \in 1 .. n
            BY <3>3, <3>5, <6>1
          <6>4. y < z
            BY <3>2, <4>2, <6>1
          <6>5. y < x
            BY <1>1, <6>2, <6>3, <6>4
          <6> QED BY <3>7, <6>1, <6>5
        <5> QED BY <1>7, <5>1, <5>2, SMTT(40)
      <4> QED BY <3>1, <4>1, <4>2
    <3>9. j \in 1 .. Len(B)
      BY <1>7, <3>1, <3>8
    <3>10. B[j] <= B[m] /\ B[j] \in Int
      BY <1>7, <3>8, <3>9
    <3>11. B[j] < U[j + 1]
      BY <3>3, <3>5, <3>6, <3>7, <3>10
    <3> QED BY <2>1, <3>9, <3>11
  <2> QED BY <2>2, <2>3
<1>10. Nat \subseteq P
  <2> HIDE DEF P
  <2> QED BY <1>8, <1>9, Induction
<1>11. Good(k)
  <2> HIDE DEF Good
  <2> QED BY <1>5, <1>10
<1> QED BY <1>11 DEF U, B

\* Skipping tokens never skips the one after them.
LEMMA SkipBefore ==
    ASSUME NEW u, u \in Seq(Nat), TextOK(u), NEW o \in Nat, o < Len(Tokens(u))
    PROVE  Skip(u, o) \in Nat /\ Skip(u, o) < Tokens(u)[o + 1]
<1> DEFINE U == Tokens(u)
           B == Where(u, {Blank})
<1>1. Len(U) \in Nat /\ \A j \in 1 .. Len(U) : U[j] \in Nat \ {0}
  <2>1. Lists(U, Len(u), {x \in 1 .. Len(u) : u[x] > 0}) /\ Len(u) \in Nat
    BY TokensAre DEF TextOK
  <2>2. Len(U) \in Nat /\ \A j \in 1 .. Len(U) : U[j] \in 1 .. Len(u)
    BY <2>1, ListsAre
  <2> QED BY <2>1, <2>2
<1>2. Len(B) \in Nat /\ \A j \in 1 .. Len(B) : B[j] \in Nat
  <2>0. PICK n : n = Len(u) /\ n \in Nat
    BY LenProperties
  <2>1. Lists(B, n, {x \in 1 .. n : u[x] \in {Blank}}) /\ n \in Nat
    <3>1. Lists(B, n, {x \in 1 .. n : u[x] \in {Blank}})
      BY <2>0, WhereLists, Zenon
    <3> QED BY <2>0, <3>1
  <2>2. Len(B) \in Nat /\ \A j \in 1 .. Len(B) : B[j] \in 1 .. n
    <3>1. PICK A : A = {x \in 1 .. n : u[x] \in {Blank}}
      OBVIOUS
    <3>2. Lists(B, n, A)
      BY <2>1, <3>1
    <3>3. B \in Seq(1 .. n)
      BY <3>2 DEF Lists
    <3> HIDE DEF B
    <3> QED BY <3>3, LenProperties, ElementOfSeq
  <2>3. \A x \in 1 .. n : x \in Nat
    BY <2>0
  <2> HIDE DEF B
  <2> QED BY <2>2, <2>3
<1>3. o + 1 \in 1 .. Len(U) /\ (o + 1) - 1 = o
  BY <1>1
<1>4. o <= Len(B) /\ (o + 1 > 1 => B[o] < U[o + 1])
  BY <1>3, BlanksBefore
<1>5. CASE o = 0
  BY <1>1, <1>3, <1>5 DEF Skip
<1>6. CASE o # 0
  <2>1. Skip(u, o) = B[o]
    BY <1>4, <1>6 DEF Skip
  <2>2. o \in 1 .. Len(B)
    BY <1>2, <1>4, <1>6
  <2> HIDE DEF U, B
  <2>3. Skip(u, o) \in Nat /\ Skip(u, o) < U[o + 1]
    BY <1>2, <1>4, <1>6, <2>1, <2>2
  <2> QED BY <2>3 DEF U
<1> QED BY <1>5, <1>6

\* What a sequence contains.
LEMMA ContainsInConcat ==
    ASSUME NEW S, NEW s \in Seq(S), NEW t \in Seq(S), NEW x, Contains(s, x) \/ Contains(t, x)
    PROVE  Contains(s \o t, x)
<1>1. /\ Len(s) \in Nat /\ Len(t) \in Nat /\ Len(s \o t) = Len(s) + Len(t)
      /\ \A i \in 1 .. Len(s) : (s \o t)[i] = s[i]
      /\ \A i \in 1 .. Len(t) : (s \o t)[Len(s) + i] = t[i]
  BY ConcatProperties
<1>2. CASE Contains(s, x)
  <2>1. PICK i \in 1 .. Len(s) : s[i] = x
    BY <1>2 DEF Contains
  <2>2. i \in 1 .. Len(s \o t) /\ (s \o t)[i] = x
    BY <1>1, <2>1
  <2> QED BY <2>2 DEF Contains
<1>3. CASE Contains(t, x)
  <2>1. PICK i \in 1 .. Len(t) : t[i] = x
    BY <1>3 DEF Contains
  <2>2. Len(s) + i \in 1 .. Len(s \o t) /\ (s \o t)[Len(s) + i] = x
    BY <1>1, <2>1
  <2> QED BY <2>2 DEF Contains
<1> QED BY <1>2, <1>3

\* The end of a sequence contains what stands in it.
LEMMA ContainsInRest ==
    ASSUME NEW S, NEW s \in Seq(S), NEW k \in Nat, NEW i \in k + 1 .. Len(s)
    PROVE  SubSeq(s, k + 1, Len(s)) \in Seq(S) /\ Contains(SubSeq(s, k + 1, Len(s)), s[i])
<1>1. PICK n : n = Len(s) /\ n \in Nat
  BY LenProperties
<1>2. k + 1 \in 1 .. Len(s) + 1 /\ n \in (k + 1) - 1 .. Len(s)
  BY <1>1
<1>3. IsPart(SubSeq(s, k + 1, n), S, s, k + 1, n)
  BY <1>2, PartIs, Zenon
<1>4. i - k \in 1 .. (n - (k + 1)) + 1 /\ ((k + 1) + (i - k)) - 1 = i /\ (n - (k + 1)) + 1 \in Int
  BY <1>1
<1>5. SubSeq(s, k + 1, n)[i - k] = s[i]
  BY <1>3, <1>4 DEF IsPart
<1>6. i - k \in 1 .. Len(SubSeq(s, k + 1, n))
  BY <1>3, <1>4 DEF IsPart
<1>7. SubSeq(s, k + 1, n) \in Seq(S)
  BY <1>3 DEF IsPart
<1> QED BY <1>1, <1>5, <1>6, <1>7 DEF Contains

-----------------------------------------------------------------------------
(* Windows. *)

\* Windows.
Marks == [first : Nat, last : Nat]

\* Where the window after the one from s begins.
Jump(s, size, overlap) ==
    IF s + size - overlap <= s THEN s + 1 ELSE s + size - overlap

\* The windows from s on, when f has those from the places after it.
WindowsFrom(f, s, n, size, overlap) ==
    IF s + size >= n THEN <<[first |-> s, last |-> n]>>
    ELSE <<[first |-> s, last |-> s + size]>> \o f[Jump(s, size, overlap)]

\* The next window begins within this one or right after it.
LEMMA JumpIs ==
    ASSUME NEW n \in Nat, NEW size \in Nat \ {0}, NEW overlap \in 0 .. size - 1, NEW s \in 0 .. n
    PROVE  /\ Jump(s, size, overlap) = (s + size) - overlap
           /\ s < Jump(s, size, overlap)
           /\ s + size < n => Jump(s, size, overlap) \in 0 .. n - 1
  BY DEF Jump

\* The windows from a place on are windows.
LEMMA WindowsFromType ==
    ASSUME NEW n \in Nat, NEW size \in Nat \ {0}, NEW overlap \in 0 .. size - 1, NEW s \in 0 .. n,
           NEW f, s + size < n => f[Jump(s, size, overlap)] \in Seq(Marks)
    PROVE  WindowsFrom(f, s, n, size, overlap) \in Seq(Marks)
<1>1. CASE s + size >= n
  <2>1. [first |-> s, last |-> n] \in Marks
    BY DEF Marks
  <2>2. <<[first |-> s, last |-> n]>> \in Seq(Marks)
    BY <2>1
  <2> QED BY <1>1, <2>2 DEF WindowsFrom
<1>2. CASE ~(s + size >= n)
  <2>1. [first |-> s, last |-> s + size] \in Marks
    BY DEF Marks
  <2>2. <<[first |-> s, last |-> s + size]>> \in Seq(Marks)
    BY <2>1
  <2>3. f[Jump(s, size, overlap)] \in Seq(Marks)
    BY <1>2
  <2>4. <<[first |-> s, last |-> s + size]>> \o f[Jump(s, size, overlap)] \in Seq(Marks)
    BY <2>2, <2>3, ConcatProperties
  <2> QED BY <1>2, <2>4 DEF WindowsFrom
<1> QED BY <1>1, <1>2

\* The recursion of chunk_tokens, from the last token to the first.
LEMMA WindowsExist ==
    ASSUME NEW n \in Nat, NEW size \in Nat \ {0}, NEW overlap \in 0 .. size - 1
    PROVE  \E f \in [0 .. n -> Seq(Marks)] :
              \A s \in 0 .. n : f[s] = WindowsFrom(f, s, n, size, overlap)
<1> DEFINE Goes(f, a) == \A s \in a .. n : f[s] = WindowsFrom(f, s, n, size, overlap)
           P == {k \in Nat : k <= n => \E f \in [n - k .. n -> Seq(Marks)] : Goes(f, n - k)}
<1>1. 0 \in P
  <2> DEFINE g == [s \in n - 0 .. n |-> <<[first |-> n, last |-> n]>>]
  <2>1. <<[first |-> n, last |-> n]>> \in Seq(Marks)
    BY DEF Marks
  <2>2. g \in [n - 0 .. n -> Seq(Marks)]
    BY <2>1
  <2>3. Goes(g, n - 0)
    BY DEF WindowsFrom
  <2> HIDE DEF g, Goes
  <2> QED BY <2>2, <2>3
<1>2. ASSUME NEW k \in Nat, k \in P PROVE k + 1 \in P
  <2> SUFFICES ASSUME k + 1 <= n
               PROVE \E f \in [n - (k + 1) .. n -> Seq(Marks)] : Goes(f, n - (k + 1))
    <3>1. k + 1 \in Nat
      OBVIOUS
    <3> HIDE DEF Goes
    <3> QED BY <3>1, Zenon
  <2>1. PICK f \in [n - k .. n -> Seq(Marks)] : Goes(f, n - k)
    <3>1. k <= n
      OBVIOUS
    <3> HIDE DEF Goes
    <3> QED BY <3>1, <1>2
  <2>2. PICK a : a = n - (k + 1)
    OBVIOUS
  <2>3. a \in 0 .. n /\ n - k = a + 1 /\ \A s \in a .. n : s = a \/ s \in a + 1 .. n
    BY <2>2
  <2> DEFINE g == [s \in a .. n |-> IF s = a THEN WindowsFrom(f, a, n, size, overlap) ELSE f[s]]
  <2>4. \A s \in a .. n : s + size < n =>
           Jump(s, size, overlap) \in a + 1 .. n /\ g[Jump(s, size, overlap)] = f[Jump(s, size, overlap)]
    <3> SUFFICES ASSUME NEW s \in a .. n, s + size < n
                 PROVE  Jump(s, size, overlap) \in a + 1 .. n /\ Jump(s, size, overlap) # a
      BY <2>3
    <3>1. s \in 0 .. n
      BY <2>3
    <3>2. s < Jump(s, size, overlap) /\ Jump(s, size, overlap) \in 0 .. n - 1
      BY <3>1, JumpIs
    <3> QED BY <2>3, <3>2
  <2>5. \A s \in a .. n : WindowsFrom(g, s, n, size, overlap) = WindowsFrom(f, s, n, size, overlap)
    <3> HIDE DEF g
    <3> TAKE s \in a .. n
    <3>1. ~(s + size >= n) => s + size < n
      BY <2>3
    <3> QED BY <2>4, <3>1 DEF WindowsFrom
  <2>6. WindowsFrom(f, a, n, size, overlap) \in Seq(Marks)
    <3>1. a + size < n => f[Jump(a, size, overlap)] \in Seq(Marks)
      <4> HAVE a + size < n
      <4>1. a \in a .. n
        BY <2>3
      <4>2. Jump(a, size, overlap) \in n - k .. n
        BY <2>3, <2>4, <4>1
      <4> QED BY <2>1, <4>2
    <3> QED BY <2>3, <3>1, WindowsFromType
  <2>7. g \in [a .. n -> Seq(Marks)]
    <3>1. ASSUME NEW s \in a .. n PROVE (IF s = a THEN WindowsFrom(f, a, n, size, overlap) ELSE f[s]) \in Seq(Marks)
      BY <2>1, <2>3, <2>6
    <3> QED BY <3>1
  <2>8. Goes(g, a)
    <3> SUFFICES ASSUME NEW s \in a .. n PROVE g[s] = WindowsFrom(g, s, n, size, overlap)
      BY Zenon
    <3>1. CASE s = a
      BY <2>5, <3>1
    <3>2. CASE s # a
      <4>1. s \in n - k .. n
        BY <2>3, <3>2
      <4>2. g[s] = f[s] /\ f[s] = WindowsFrom(f, s, n, size, overlap)
        BY <2>1, <3>2, <4>1
      <4> QED BY <2>5, <4>2
    <3> QED BY <3>1, <3>2
  <2> HIDE DEF g, Goes
  <2> QED BY <2>2, <2>7, <2>8
<1>3. Nat \subseteq P
  <2> HIDE DEF P
  <2> QED BY <1>1, <1>2, Induction
<1>4. \E f \in [n - n .. n -> Seq(Marks)] : Goes(f, n - n)
  <2>1. n \in P /\ n <= n
    <3> HIDE DEF P
    <3> QED BY <1>3
  <2> HIDE DEF Goes
  <2> QED BY <2>1
<1>5. n - n = 0
  OBVIOUS
<1> HIDE DEF P
<1> QED BY <1>4, <1>5

\* What Windows computes.
WindowsGo(f, n, size, overlap) ==
    /\ \A s \in 0 .. n : f[s] = WindowsFrom(f, s, n, size, overlap)
    /\ Windows(n, size, overlap) = IF n = 0 THEN <<>> ELSE f[0]

\* Windows, which is a recursive function, goes from window to window.
LEMMA WindowsRecur ==
    ASSUME NEW n \in Nat, NEW size \in Nat \ {0}, NEW overlap \in 0 .. size - 1
    PROVE  \E f : WindowsGo(f, n, size, overlap)
<1> DEFINE Body(f) == [s \in 0 .. n |->
                          IF s + size >= n THEN <<[first |-> s, last |-> n]>>
                          ELSE <<[first |-> s, last |-> s + size]>>
                               \o f[IF s + size - overlap <= s THEN s + 1 ELSE s + size - overlap]]
           after == CHOOSE f : f = Body(f)
<1>1. PICK g \in [0 .. n -> Seq(Marks)] : \A s \in 0 .. n : g[s] = WindowsFrom(g, s, n, size, overlap)
  BY WindowsExist
<1>2. g = Body(g)
  BY <1>1 DEF WindowsFrom, Jump
<1>3. after = Body(after)
  BY <1>2
<1>4. Windows(n, size, overlap) = IF n = 0 THEN <<>> ELSE after[0]
  BY DEF Windows
<1> HIDE DEF after
<1>5. \A s \in 0 .. n : after[s] = WindowsFrom(after, s, n, size, overlap)
  BY <1>3, Zenon DEF WindowsFrom, Jump
<1> QED BY <1>4, <1>5 DEF WindowsGo

\* The windows of n tokens from token s on: no larger than size, each but the last
\* ending before the last token and followed by one that begins overlap tokens
\* before it ends.
Chain(ws, s, n, size, overlap) ==
    /\ ws \in Seq(Marks) /\ Len(ws) >= 1
    /\ ws[1].first = s /\ ws[Len(ws)].last = n
    /\ ws[1].last = n \/ ws[1].last = s + size
    /\ \A i \in 1 .. Len(ws) : Window(ws[i], n) /\ ws[i].last <= ws[i].first + size
    /\ \A i \in 1 .. Len(ws) - 1 :
          /\ ws[i].last < n /\ ws[i].last = ws[i].first + size
          /\ ws[i + 1].first = ws[i].last - overlap
          /\ ws[i].first < ws[i + 1].first /\ ws[i].last < ws[i + 1].last

\* A window that reaches the end is a chain.
LEMMA ChainEnds ==
    ASSUME NEW n \in Nat, NEW size \in Nat \ {0}, NEW overlap \in 0 .. size - 1,
           NEW s \in 0 .. n - 1, s + size >= n
    PROVE  Chain(<<[first |-> s, last |-> n]>>, s, n, size, overlap)
<1> DEFINE w == [first |-> s, last |-> n]
<1>1. w \in Marks /\ s \in Nat
  BY DEF Marks
<1>2. <<w>> \in Seq(Marks) /\ Len(<<w>>) = 1 /\ <<w>>[1] = w
  BY <1>1
<1>3. w.first = s /\ w.last = n
  OBVIOUS
<1> HIDE DEF w
<1>4. Window(w, n) /\ w.last <= w.first + size
  BY <1>1, <1>3 DEF Window
<1>5. 1 .. Len(<<w>>) - 1 = {} /\ \A i \in 1 .. Len(<<w>>) : i = 1
  BY <1>2
<1>6. Chain(<<w>>, s, n, size, overlap)
  BY <1>2, <1>3, <1>4, <1>5 DEF Chain
<1> QED BY <1>6 DEF w

\* A full window, and a chain that begins overlap tokens before its end.
LEMMA ChainGoesOn ==
    ASSUME NEW n \in Nat, NEW size \in Nat \ {0}, NEW overlap \in 0 .. size - 1,
           NEW s \in 0 .. n - 1, s + size < n, NEW ws, Chain(ws, (s + size) - overlap, n, size, overlap)
    PROVE  Chain(<<[first |-> s, last |-> s + size]>> \o ws, s, n, size, overlap)
<1> DEFINE w == [first |-> s, last |-> s + size]
           v == <<w>> \o ws
<1>1. w \in Marks /\ s \in Nat
  BY DEF Marks
<1>2. <<w>> \in Seq(Marks) /\ Len(<<w>>) = 1 /\ <<w>>[1] = w /\ ws \in Seq(Marks) /\ Len(ws) \in Nat
  BY <1>1, LenProperties DEF Chain
<1>3. w.first = s /\ w.last = s + size
  OBVIOUS
<1> HIDE DEF w
<1>4. /\ v \in Seq(Marks) /\ Len(v) = 1 + Len(ws) /\ v[1] = w
      /\ \A i \in 1 .. Len(ws) : v[1 + i] = ws[i]
  <2>1. PICK S, a, c : S = Marks /\ a = <<w>> /\ c = a \o ws
    OBVIOUS
  <2>2. a \in Seq(S) /\ ws \in Seq(S) /\ Len(a) = 1 /\ a[1] = w /\ Len(ws) \in Nat
    BY <1>2, <2>1
  <2>3. /\ c \in Seq(S) /\ Len(c) = Len(a) + Len(ws)
        /\ \A i \in 1 .. Len(a) + Len(ws) : c[i] = IF i <= Len(a) THEN a[i] ELSE ws[i - Len(a)]
    BY <2>1, <2>2, ConcatProperties
  <2>4. Len(c) = 1 + Len(ws) /\ c[1] = w /\ \A i \in 1 .. Len(ws) : c[1 + i] = ws[i]
    BY <2>2, <2>3
  <2>5. c = v
    BY <2>1
  <2> QED BY <2>1, <2>3, <2>4, <2>5
<1>5. /\ Len(ws) >= 1 /\ ws[1].first = (s + size) - overlap /\ ws[Len(ws)].last = n
      /\ ws[1].last = n \/ ws[1].last = ((s + size) - overlap) + size
      /\ \A i \in 1 .. Len(ws) : Window(ws[i], n) /\ ws[i].last <= ws[i].first + size
      /\ \A i \in 1 .. Len(ws) - 1 :
            /\ ws[i].last < n /\ ws[i].last = ws[i].first + size
            /\ ws[i + 1].first = ws[i].last - overlap
            /\ ws[i].first < ws[i + 1].first /\ ws[i].last < ws[i + 1].last
  BY DEF Chain
<1> HIDE DEF v
<1>6. Len(v) >= 1 /\ v[1].first = s /\ v[Len(v)].last = n /\ v[1].last = s + size
  BY <1>2, <1>3, <1>4, <1>5, SMTT(40)
<1>7. ASSUME NEW i \in 1 .. Len(v) PROVE Window(v[i], n) /\ v[i].last <= v[i].first + size
  <2>1. CASE i = 1
    BY <1>1, <1>3, <1>4, <2>1 DEF Window
  <2>2. CASE i # 1
    <3>1. i - 1 \in 1 .. Len(ws) /\ 1 + (i - 1) = i
      BY <1>2, <1>4, <2>2
    <3> QED BY <1>4, <1>5, <3>1
  <2> QED BY <2>1, <2>2
<1>8. ASSUME NEW i \in 1 .. Len(v) - 1
      PROVE  /\ v[i].last < n /\ v[i].last = v[i].first + size
             /\ v[i + 1].first = v[i].last - overlap
             /\ v[i].first < v[i + 1].first /\ v[i].last < v[i + 1].last
  <2>1. CASE i = 1
    <3>1. v[i] = w /\ v[i + 1] = ws[1]
      BY <1>2, <1>4, <1>5, <2>1
    <3> QED BY <1>1, <1>3, <1>5, <3>1, SMTT(40)
  <2>2. CASE i # 1
    <3>1. PICK m \in Nat : i = m + 1
      BY <2>2
    <3>2. m \in 1 .. Len(ws) - 1 /\ m \in 1 .. Len(ws) /\ m + 1 \in 1 .. Len(ws)
          /\ 1 + m = i /\ 1 + (m + 1) = i + 1
      BY <1>2, <1>4, <2>2, <3>1
    <3>3. v[i] = ws[m] /\ v[i + 1] = ws[m + 1]
      BY <1>4, <3>2
    <3> QED BY <1>5, <3>2, <3>3
  <2> QED BY <2>1, <2>2
<1>9. Chain(v, s, n, size, overlap)
  BY <1>4, <1>6, <1>7, <1>8 DEF Chain
<1> QED BY <1>9 DEF v, w

\* chunk_tokens goes through the tokens window by window to the end.
LEMMA WindowsAre ==
    ASSUME NEW n \in Nat \ {0}, NEW size \in Nat \ {0}, NEW overlap \in 0 .. size - 1
    PROVE  Chain(Windows(n, size, overlap), 0, n, size, overlap)
<1>1. PICK f : WindowsGo(f, n, size, overlap)
  BY WindowsRecur
<1>2. \A s \in 0 .. n : f[s] = WindowsFrom(f, s, n, size, overlap)
  BY <1>1 DEF WindowsGo
<1>3. Windows(n, size, overlap) = f[0]
  BY <1>1 DEF WindowsGo
<1> DEFINE P == {k \in Nat : \A s \in 0 .. n - 1 : n - s <= k => Chain(f[s], s, n, size, overlap)}
<1>4. 0 \in P
  OBVIOUS
<1>5. ASSUME NEW k \in Nat, k \in P PROVE k + 1 \in P
  <2> SUFFICES ASSUME NEW s \in 0 .. n - 1, n - s <= k + 1 PROVE Chain(f[s], s, n, size, overlap)
    <3>1. k + 1 \in Nat
      OBVIOUS
    <3> QED BY <3>1, Zenon
  <2>1. s \in 0 .. n /\ f[s] = WindowsFrom(f, s, n, size, overlap)
    BY <1>2
  <2>2. CASE s + size >= n
    <3>1. f[s] = <<[first |-> s, last |-> n]>>
      BY <2>1, <2>2 DEF WindowsFrom
    <3> QED BY <2>2, <3>1, ChainEnds
  <2>3. CASE s + size < n
    <3>1. Jump(s, size, overlap) = (s + size) - overlap /\ s < Jump(s, size, overlap)
          /\ Jump(s, size, overlap) \in 0 .. n - 1
      BY <2>1, <2>3, JumpIs
    <3>2. ~(s + size >= n)
      BY <2>3
    <3>3. f[s] = <<[first |-> s, last |-> s + size]>> \o f[(s + size) - overlap]
      BY <2>1, <3>1, <3>2 DEF WindowsFrom
    <3>4. (s + size) - overlap \in 0 .. n - 1 /\ n - ((s + size) - overlap) <= k
      BY <3>1
    <3>5. Chain(f[(s + size) - overlap], (s + size) - overlap, n, size, overlap)
      BY <1>5, <3>4
    <3> QED BY <2>3, <3>3, <3>5, ChainGoesOn
  <2> QED BY <2>2, <2>3
<1>6. Nat \subseteq P
  <2> HIDE DEF P
  <2> QED BY <1>4, <1>5, Induction
<1>7. n \in P /\ 0 \in 0 .. n - 1 /\ n - 0 <= n
  <2> HIDE DEF P
  <2> QED BY <1>6
<1>8. Chain(f[0], 0, n, size, overlap)
  BY <1>7
<1> QED BY <1>3, <1>8

\* What a chain is.
LEMMA ChainIs ==
    ASSUME NEW n \in Nat, NEW size \in Nat \ {0}, NEW overlap \in 0 .. size - 1,
           NEW ws, Chain(ws, 0, n, size, overlap)
    PROVE  /\ Len(ws) \in Nat /\ Len(ws) >= 1 /\ ws[1].first = 0 /\ ws[Len(ws)].last = n
           /\ \A i \in 1 .. Len(ws) :
                 /\ ws[i] \in Marks /\ Window(ws[i], n)
                 /\ ws[i].first \in Nat /\ ws[i].last \in Nat /\ ws[i].first < ws[i].last
                 /\ ws[i].last <= n /\ ws[i].last <= ws[i].first + size
           /\ \A i \in 1 .. Len(ws) - 1 :
                 /\ ws[i].last < n /\ ws[i + 1].first = ws[i].last - overlap
                 /\ ws[i].first < ws[i + 1].first /\ ws[i].last < ws[i + 1].last
<1>1. ws \in Seq(Marks) /\ Len(ws) \in Nat
  BY LenProperties DEF Chain
<1>2. \A i \in 1 .. Len(ws) : ws[i] \in Marks
  BY <1>1, ElementOfSeq
<1> QED BY <1>1, <1>2 DEF Chain, Window

\* Windows come in the order of their first tokens, and of their last ones.
LEMMA ChainOrder ==
    ASSUME NEW n \in Nat, NEW size \in Nat \ {0}, NEW overlap \in 0 .. size - 1,
           NEW ws, Chain(ws, 0, n, size, overlap), NEW i \in 1 .. Len(ws), NEW j \in 1 .. Len(ws), i < j
    PROVE  ws[i].first < ws[j].first /\ ws[i].last < ws[j].last
<1>1. Len(ws) \in Nat
  BY ChainIs
<1>2. \A m \in 1 .. Len(ws) : ws[m].first \in Nat /\ ws[m].last \in Nat
  BY ChainIs
<1>3. \A m \in 1 .. Len(ws) - 1 : ws[m].first < ws[m + 1].first /\ ws[m].last < ws[m + 1].last
  BY ChainIs
<1> DEFINE P == {k \in Nat : i + (k + 1) <= Len(ws) =>
                   ws[i].first < ws[i + (k + 1)].first /\ ws[i].last < ws[i + (k + 1)].last}
<1>4. 0 \in P
  <2>1. i + (0 + 1) = i + 1 /\ (i + 1 <= Len(ws) => i \in 1 .. Len(ws) - 1)
    BY <1>1
  <2> QED BY <1>3, <2>1
<1>5. ASSUME NEW k \in Nat, k \in P PROVE k + 1 \in P
  <2> SUFFICES ASSUME i + ((k + 1) + 1) <= Len(ws)
               PROVE  ws[i].first < ws[i + ((k + 1) + 1)].first /\ ws[i].last < ws[i + ((k + 1) + 1)].last
    <3>1. k + 1 \in Nat
      OBVIOUS
    <3> QED BY <3>1, Zenon
  <2>1. PICK m : m = i + (k + 1)
    OBVIOUS
  <2>2. m \in 1 .. Len(ws) - 1 /\ m \in 1 .. Len(ws) /\ m + 1 \in 1 .. Len(ws) /\ i + ((k + 1) + 1) = m + 1
        /\ m <= Len(ws)
    BY <1>1, <2>1
  <2>3. ws[i].first < ws[m].first /\ ws[i].last < ws[m].last
    BY <1>5, <2>1, <2>2
  <2>4. ws[m].first < ws[m + 1].first /\ ws[m].last < ws[m + 1].last
    BY <1>3, <2>2
  <2>5. /\ ws[i].first \in Nat /\ ws[m].first \in Nat /\ ws[m + 1].first \in Nat
        /\ ws[i].last \in Nat /\ ws[m].last \in Nat /\ ws[m + 1].last \in Nat
    BY <1>2, <2>2
  <2>6. PICK a, b, c, d, e, f : /\ a = ws[i].first /\ b = ws[m].first /\ c = ws[m + 1].first
                               /\ d = ws[i].last /\ e = ws[m].last /\ f = ws[m + 1].last
    OBVIOUS
  <2>7. a \in Nat /\ b \in Nat /\ c \in Nat /\ d \in Nat /\ e \in Nat /\ f \in Nat
    BY <2>5, <2>6
  <2>8. a < b /\ b < c /\ d < e /\ e < f
    BY <2>3, <2>4, <2>6
  <2>9. a < c /\ d < f
    BY <2>7, <2>8
  <2> QED BY <2>2, <2>6, <2>9
<1>6. Nat \subseteq P
  <2> HIDE DEF P
  <2> QED BY <1>4, <1>5, Induction
<1>7. (j - i) - 1 \in Nat /\ i + (((j - i) - 1) + 1) = j /\ j <= Len(ws)
  BY <1>1
<1> QED BY <1>6, <1>7

\* Every token is in a window.
LEMMA ChainCovers ==
    ASSUME NEW n \in Nat, NEW size \in Nat \ {0}, NEW overlap \in 0 .. size - 1,
           NEW ws, Chain(ws, 0, n, size, overlap), NEW t \in 1 .. n
    PROVE  \E i \in 1 .. Len(ws) : ws[i].first < t /\ t <= ws[i].last
<1>1. Len(ws) \in Nat /\ Len(ws) >= 1 /\ ws[1].first = 0 /\ ws[Len(ws)].last = n
  BY ChainIs
<1>2. \A m \in 1 .. Len(ws) : ws[m].first \in Nat /\ ws[m].last \in Nat
  BY ChainIs
<1>3. \A m \in 1 .. Len(ws) - 1 : ws[m + 1].first = ws[m].last - overlap
  BY ChainIs
<1> DEFINE P == {k \in Nat : k \in 1 .. Len(ws) /\ t <= ws[k].last =>
                    \E i \in 1 .. Len(ws) : ws[i].first < t /\ t <= ws[i].last}
<1>4. 0 \in P
  OBVIOUS
<1>5. ASSUME NEW k \in Nat, k \in P PROVE k + 1 \in P
  <2> SUFFICES ASSUME k + 1 \in 1 .. Len(ws), t <= ws[k + 1].last
               PROVE  \E i \in 1 .. Len(ws) : ws[i].first < t /\ t <= ws[i].last
    <3>1. k + 1 \in Nat
      OBVIOUS
    <3> QED BY <3>1, Zenon
  <2>1. CASE k = 0
    BY <1>1, <2>1
  <2>2. CASE k # 0
    <3>1. k \in 1 .. Len(ws) - 1 /\ k \in 1 .. Len(ws)
      BY <1>1, <2>2
    <3>2. CASE t <= ws[k].last
      BY <1>5, <3>1, <3>2
    <3>3. CASE ~(t <= ws[k].last)
      <4>1. ws[k + 1].first < t
        BY <1>2, <1>3, <3>1, <3>3
      <4> QED BY <4>1
    <3> QED BY <3>2, <3>3
  <2> QED BY <2>1, <2>2
<1>6. Nat \subseteq P
  <2> HIDE DEF P
  <2> QED BY <1>4, <1>5, Induction
<1>7. Len(ws) \in P /\ Len(ws) \in 1 .. Len(ws)
  <2> HIDE DEF P
  <2> QED BY <1>1, <1>6
<1>8. t <= ws[Len(ws)].last
  BY <1>1
<1> QED BY <1>7, <1>8

\* A sentence that fits one window has one.
LEMMA ChainOfOne ==
    ASSUME NEW n \in Nat, NEW size \in Nat \ {0}, NEW overlap \in 0 .. size - 1,
           NEW ws, Chain(ws, 0, n, size, overlap), n <= size
    PROVE  Len(ws) = 1
<1>1. Len(ws) \in Nat /\ Len(ws) >= 1 /\ ws[1].first = 0
  BY ChainIs
<1>2. \A i \in 1 .. Len(ws) - 1 : ws[i].last < n /\ ws[i].last = ws[i].first + size
  BY DEF Chain
<1>3. CASE Len(ws) # 1
  <2>1. 1 \in 1 .. Len(ws) - 1
    <3>1. PICK k : k = Len(ws)
      OBVIOUS
    <3>2. k \in Nat /\ k >= 1
      BY <1>1, <3>1
    <3>3. k # 1
      BY <1>3, <3>1
    <3> QED BY <3>1, <3>2, <3>3
  <2>2. ws[1].last < n /\ ws[1].last = ws[1].first + size
    BY <1>2, <2>1
  <2> QED BY <1>1, <2>2
<1> QED BY <1>3

\* A product of natural numbers is one.
LEMMA NatTimes == ASSUME NEW a \in Nat, NEW b \in Nat PROVE a * b \in Nat
  OBVIOUS

\* However the windows are set, there are some and they move on.
LEMMA SizesAre ==
    ASSUME config \in Configs
    PROVE  MaxTokens \in Nat \ {0} /\ Overlap \in 0 .. MaxTokens - 1
<1>1. config \in [max_tokens : Nat, overlap : 0 .. 999, model_max : Nat \ {0}, model_overlap : Nat]
  BY ConfigsAssumption
<1>2. /\ config.max_tokens \in Nat /\ config.overlap \in Nat
      /\ config.model_max \in Nat \ {0} /\ config.model_overlap \in Nat
  BY <1>1
<1>3. MaxTokens \in Nat \ {0}
  BY <1>2 DEF MaxTokens
<1>4. config.overlap * MaxTokens \in Nat
  BY <1>2, <1>3, NatTimes
<1>5. (config.overlap * MaxTokens) \div 100000 \in Nat
  BY <1>4
<1>6. Overlap \in 0 .. MaxTokens - 1
  BY <1>2, <1>3, <1>5 DEF Overlap
<1> QED BY <1>3, <1>6

\* The sizes of windows never change.
LEMMA SizesStay ==
    ASSUME config' = config
    PROVE  MaxTokens' = MaxTokens /\ Overlap' = Overlap
<1>1. MaxTokens' = MaxTokens
  BY DEF MaxTokens
<1> QED BY <1>1 DEF Overlap

-----------------------------------------------------------------------------
(* Chunks, entries and shards. *)

\* What the variables have.
Letters == Nat \union {Tab}
ChunkRec == [start_tok : Nat, end_tok : Nat, text : Seq(Letters)]
EntryRec == [sid : Nat, of : Nat, start_tok : Nat, end_tok : Nat, text : Seq(Letters)]
ShardRec == [entries : Seq(EntryRec), free : Seq(Nat), auto_sentence_id : Nat, merged : BOOLEAN]
SaidRec == [text : Texts, sid : Nat \ {0}, whole : BOOLEAN, removed : BOOLEAN, merged : BOOLEAN]

\* The windows of a text, and the chunk that one makes.
Cuts(text, size, overlap) == Windows(Len(Tokens(text)), size, overlap)

\* The chunk of a window.
ChunkOf(text, w) == [start_tok |-> w.first, end_tok |-> w.last, text |-> Slice(text, w)]

\* What the windows of a text are.
CutsOK(text, size, overlap) ==
    LET n == Len(Tokens(text))
        ws == Cuts(text, size, overlap)
    IN /\ n \in Nat /\ Len(ws) \in Nat
       /\ n # 0 => Chain(ws, 0, n, size, overlap)
       /\ \A i \in 1 .. Len(ws) : Window(ws[i], n) /\ ws[i].last - ws[i].first \in 1 .. size

\* The windows of any text are a chain, none larger than size.
LEMMA CutsAre ==
    ASSUME NEW text, text \in Seq(Letters), NEW size \in Nat \ {0}, NEW overlap \in 0 .. size - 1
    PROVE  CutsOK(text, size, overlap)
<1> DEFINE n == Len(Tokens(text))
           ws == Cuts(text, size, overlap)
<1>1. n \in Nat
  <2>1. PICK m, A : m = Len(text) /\ A = {x \in 1 .. Len(text) : text[x] > 0}
    OBVIOUS
  <2>2. Lists(Tokens(text), m, A) /\ m \in Nat
    BY <2>1, TokensAre DEF Letters
  <2> QED BY <2>2, ListsAre
<1> HIDE DEF n
<1>2. ws = Windows(n, size, overlap)
  BY DEF Cuts, n
<1>3. CASE n = 0
  <2>1. ws = <<>>
    <3>1. PICK f : WindowsGo(f, n, size, overlap)
      BY <1>1, WindowsRecur
    <3> QED BY <1>2, <1>3, <3>1 DEF WindowsGo
  <2> HIDE DEF ws
  <2>2. Len(ws) \in Nat /\ 1 .. Len(ws) = {}
    BY <2>1
  <2> QED BY <1>1, <1>3, <2>2 DEF CutsOK, ws, n
<1>4. CASE n # 0
  <2>1. Chain(ws, 0, n, size, overlap)
    BY <1>1, <1>2, <1>4, WindowsAre
  <2> HIDE DEF ws
  <2>2. Len(ws) \in Nat /\ \A i \in 1 .. Len(ws) :
           /\ Window(ws[i], n) /\ ws[i].first \in Nat /\ ws[i].last \in Nat /\ ws[i].first < ws[i].last
           /\ ws[i].last <= ws[i].first + size
    BY <1>1, <2>1, ChainIs
  <2>3. \A i \in 1 .. Len(ws) : Window(ws[i], n) /\ ws[i].last - ws[i].first \in 1 .. size
    <3> TAKE i \in 1 .. Len(ws)
    <3>1. PICK a, b : a = ws[i].first /\ b = ws[i].last
      OBVIOUS
    <3>2. a \in Nat /\ b \in Nat /\ a < b /\ b <= a + size
      BY <2>2, <3>1
    <3>3. b - a \in 1 .. size
      BY <3>2
    <3> QED BY <2>2, <3>1, <3>3
  <2> QED BY <1>1, <2>1, <2>2, <2>3 DEF CutsOK, ws, n
<1> QED BY <1>3, <1>4

\* Each chunk is what a window makes.
LEMMA ChunksAre ==
    ASSUME config \in Configs, NEW text, text \in Seq(Letters)
    PROVE  /\ Chunks(text) \in Seq(ChunkRec)
           /\ Len(Chunks(text)) = Len(Cuts(text, MaxTokens, Overlap))
           /\ \A i \in 1 .. Len(Chunks(text)) : Chunks(text)[i] = ChunkOf(text, Cuts(text, MaxTokens, Overlap)[i])
<1>1. PICK size, overlap : size = MaxTokens /\ overlap = Overlap
  OBVIOUS
<1>2. size \in Nat \ {0} /\ overlap \in 0 .. size - 1
  BY <1>1, SizesAre
<1>3. CutsOK(text, size, overlap)
  BY <1>2, CutsAre
<1>4. PICK ws : ws = Cuts(text, size, overlap)
  OBVIOUS
<1>5. PICK n : n = Len(ws)
  OBVIOUS
<1>6. n \in Nat /\ \A i \in 1 .. n : Window(ws[i], Len(Tokens(text)))
  BY <1>3, <1>4, <1>5 DEF CutsOK
<1>7. Chunks(text) = [i \in 1 .. n |-> ChunkOf(text, ws[i])]
  BY <1>1, <1>4, <1>5 DEF Chunks, ChunkOf, Cuts
<1>8. ASSUME NEW i \in 1 .. n PROVE ChunkOf(text, ws[i]) \in ChunkRec
  <2>1. PICK w : w = ws[i]
    OBVIOUS
  <2>2. Window(w, Len(Tokens(text)))
    BY <1>6, <2>1
  <2>3. Slice(text, w) \in Seq(Letters)
    BY <2>2, SliceIs DEF Letters
  <2> QED BY <2>1, <2>2, <2>3 DEF ChunkOf, ChunkRec, Window
<1>9. [i \in 1 .. n |-> ChunkOf(text, ws[i])] \in Seq(ChunkRec)
  BY <1>6, <1>8
<1>10. PICK c : c = Chunks(text)
  OBVIOUS
<1>11. c \in Seq(ChunkRec) /\ Len(c) = n /\ \A i \in 1 .. n : c[i] = ChunkOf(text, ws[i])
  BY <1>6, <1>7, <1>9, <1>10
<1> QED BY <1>1, <1>4, <1>5, <1>10, <1>11

\* The labels without an entry are those to give out again, each once.
FreeOK(s) ==
    /\ {l \in 1 .. Len(s.entries) : s.entries[l] = NoEntry} = {s.free[k] : k \in 1 .. Len(s.free)}
    /\ \A j, k \in 1 .. Len(s.free) : s.free[j] = s.free[k] => j = k

\* What a shard has.
LEMMA ShardIs ==
    ASSUME NEW s \in ShardRec
    PROVE  /\ s.entries \in Seq(EntryRec) /\ Len(s.entries) \in Nat /\ DOMAIN s.entries = 1 .. Len(s.entries)
           /\ \A l \in 1 .. Len(s.entries) : s.entries[l] \in EntryRec
           /\ s.free \in Seq(Nat) /\ Len(s.free) \in Nat /\ DOMAIN s.free = 1 .. Len(s.free)
           /\ s.auto_sentence_id \in Nat /\ s.merged \in BOOLEAN
<1>1. s.entries \in Seq(EntryRec) /\ s.free \in Seq(Nat) /\ s.auto_sentence_id \in Nat /\ s.merged \in BOOLEAN
  BY DEF ShardRec
<1> QED BY <1>1, LenProperties, ElementOfSeq

\* t is s with entry e at x.
Puts(s, e, x, t) ==
    /\ t \in ShardRec /\ t.auto_sentence_id = s.auto_sentence_id /\ t.merged = s.merged
    /\ x \in 1 .. Len(t.entries) /\ t.entries[x] = e
    /\ \A l \in 1 .. Len(s.entries) : l \in 1 .. Len(t.entries)
    /\ x \in 1 .. Len(s.entries) => s.entries[x] = NoEntry
    /\ \A l \in 1 .. Len(t.entries) : l # x => l \in 1 .. Len(s.entries) /\ t.entries[l] = s.entries[l]

\* An entry goes to the first free label, which is no longer free.
LEMMA PutsFree ==
    ASSUME NEW s \in ShardRec, FreeOK(s), NEW e \in EntryRec, e # NoEntry, s.free # <<>>
    PROVE  \E x : Puts(s, e, x, PutEntry(s, e)) /\ FreeOK(PutEntry(s, e))
<1>1. PICK q, f, x, n : q = s.entries /\ f = s.free /\ x = Head(s.free) /\ n = Len(s.entries)
  OBVIOUS
<1>2. /\ q \in Seq(EntryRec) /\ n = Len(q) /\ n \in Nat /\ f \in Seq(Nat) /\ f # <<>> /\ x = Head(f)
      /\ s.auto_sentence_id \in Nat /\ s.merged \in BOOLEAN
  BY <1>1, ShardIs
<1>3. Len(f) \in Nat /\ Len(f) # 0 /\ x = f[1] /\ Tail(f) \in Seq(Nat) /\ Len(Tail(f)) = Len(f) - 1
      /\ \A k \in 1 .. Len(f) - 1 : Tail(f)[k] = f[k + 1]
  BY <1>2, HeadTailProperties, EmptySeq, LenProperties
<1>4. {l \in 1 .. n : q[l] = NoEntry} = {f[k] : k \in 1 .. Len(f)}
      /\ \A j, k \in 1 .. Len(f) : f[j] = f[k] => j = k
  BY <1>1 DEF FreeOK
<1>5. x \in 1 .. n /\ q[x] = NoEntry
  <2>1. 1 \in 1 .. Len(f)
    BY <1>3
  <2>2. x \in {f[k] : k \in 1 .. Len(f)}
    BY <1>3, <2>1
  <2> QED BY <1>4, <2>2
<1>6. PICK t : t = PutEntry(s, e)
  OBVIOUS
<1>7. PICK p : p = [q EXCEPT ![x] = e]
  OBVIOUS
<1>8. /\ t.entries = p /\ t.free = Tail(f)
      /\ t.auto_sentence_id = s.auto_sentence_id /\ t.merged = s.merged
      /\ t = [s EXCEPT !.entries = p, !.free = Tail(f)]
  <2>1. t = [s EXCEPT !.entries = p, !.free = Tail(f)]
    BY <1>1, <1>2, <1>6, <1>7 DEF PutEntry, ShardRec
  <2> QED BY <2>1 DEF ShardRec
<1>9. p \in Seq(EntryRec) /\ Len(p) = n /\ p[x] = e /\ \A l \in 1 .. n : l # x => p[l] = q[l]
  BY <1>2, <1>5, <1>7, ExceptSeq
<1>10. t \in ShardRec
  BY <1>3, <1>8, <1>9 DEF ShardRec
<1>11. Puts(s, e, x, t)
  BY <1>1, <1>5, <1>8, <1>9, <1>10 DEF Puts
<1>12. FreeOK(t)
  <2>1. ASSUME NEW l \in 1 .. n, p[l] = NoEntry PROVE \E k \in 1 .. Len(f) - 1 : Tail(f)[k] = l
    <3>1. l # x /\ q[l] = NoEntry
      BY <1>9, <2>1
    <3>2. PICK j \in 1 .. Len(f) : f[j] = l
      BY <1>4, <3>1
    <3>3. PICK i : i = j - 1
      OBVIOUS
    <3>4. i \in 1 .. Len(f) - 1 /\ i + 1 = j
      BY <1>3, <3>1, <3>2, <3>3
    <3> QED BY <1>3, <3>2, <3>4
  <2>2. ASSUME NEW k \in 1 .. Len(f) - 1 PROVE Tail(f)[k] \in 1 .. n /\ p[Tail(f)[k]] = NoEntry
    <3>1. k + 1 \in 1 .. Len(f) /\ 1 \in 1 .. Len(f) /\ k + 1 # 1
      BY <1>3
    <3>2. f[k + 1] # x /\ f[k + 1] \in 1 .. n /\ q[f[k + 1]] = NoEntry
      BY <1>3, <1>4, <3>1
    <3> QED BY <1>3, <1>9, <3>2
  <2>3. {l \in 1 .. n : p[l] = NoEntry} = {Tail(f)[k] : k \in 1 .. Len(f) - 1}
    BY <2>1, <2>2
  <2>4. ASSUME NEW i \in 1 .. Len(f) - 1, NEW j \in 1 .. Len(f) - 1, Tail(f)[i] = Tail(f)[j] PROVE i = j
    <3>1. i + 1 \in 1 .. Len(f) /\ j + 1 \in 1 .. Len(f)
      BY <1>3, SMTT(40)
    <3>2. f[i + 1] = f[j + 1]
      BY <1>3, <2>4
    <3>3. i + 1 = j + 1
      BY <1>4, <3>1, <3>2
    <3> QED BY <3>3
  <2> QED BY <1>3, <1>8, <1>9, <2>3, <2>4 DEF FreeOK
<1> QED BY <1>6, <1>11, <1>12

\* Without a free label an entry goes to the next.
LEMMA PutsNew ==
    ASSUME NEW s \in ShardRec, FreeOK(s), NEW e \in EntryRec, e # NoEntry, s.free = <<>>
    PROVE  \E x : Puts(s, e, x, PutEntry(s, e)) /\ FreeOK(PutEntry(s, e))
<1>1. PICK q, n : q = s.entries /\ n = Len(s.entries)
  OBVIOUS
<1>2. /\ q \in Seq(EntryRec) /\ n = Len(q) /\ n \in Nat
      /\ s.auto_sentence_id \in Nat /\ s.merged \in BOOLEAN /\ s.free \in Seq(Nat)
  BY <1>1, ShardIs
<1>3. PICK t, p : t = PutEntry(s, e) /\ p = Append(q, e)
  OBVIOUS
<1>4. /\ t.entries = p /\ t.free = s.free
      /\ t.auto_sentence_id = s.auto_sentence_id /\ t.merged = s.merged
      /\ t = [s EXCEPT !.entries = p]
  <2>1. t = [s EXCEPT !.entries = p]
    BY <1>1, <1>2, <1>3 DEF PutEntry, ShardRec
  <2> QED BY <2>1 DEF ShardRec
<1>5. p \in Seq(EntryRec) /\ Len(p) = n + 1 /\ p[n + 1] = e /\ \A l \in 1 .. n : p[l] = q[l]
  BY <1>2, <1>3, AppendProperties
<1>6. t \in ShardRec
  BY <1>2, <1>4, <1>5 DEF ShardRec
<1>7. /\ n + 1 \in 1 .. n + 1 /\ n + 1 \notin 1 .. n /\ \A l \in 1 .. n : l \in 1 .. n + 1
      /\ \A l \in 1 .. n + 1 : l # n + 1 => l \in 1 .. n
  BY <1>2
<1>8. Puts(s, e, n + 1, t)
  BY <1>1, <1>4, <1>5, <1>6, <1>7 DEF Puts
<1>9. FreeOK(t)
  <2>1. 1 .. Len(s.free) = {}
    OBVIOUS
  <2>2. \A l \in 1 .. n : q[l] # NoEntry
    BY <1>1, <2>1 DEF FreeOK
  <2>3. \A l \in 1 .. n + 1 : p[l] # NoEntry
    BY <1>5, <1>7, <2>2
  <2> QED BY <1>4, <1>5, <2>1, <2>3 DEF FreeOK
<1> QED BY <1>3, <1>8, <1>9

\* allocate_label gives a label without an entry, a free one or the next.
LEMMA PutIs ==
    ASSUME NEW s \in ShardRec, FreeOK(s), NEW e \in EntryRec, e # NoEntry
    PROVE  \E x : Puts(s, e, x, PutEntry(s, e)) /\ FreeOK(PutEntry(s, e))
  BY PutsFree, PutsNew

\* A shard with one entry more is a shard.
LEMMA PutType ==
    ASSUME NEW s \in ShardRec, NEW e \in EntryRec
    PROVE  PutEntry(s, e) \in ShardRec
<1>1. CASE s.free # <<>>
  <2>1. PICK p, f : p = [s.entries EXCEPT ![Head(s.free)] = e] /\ f = Tail(s.free)
    OBVIOUS
  <2>2. PutEntry(s, e) = [s EXCEPT !.entries = p, !.free = f]
    BY <1>1, <2>1 DEF PutEntry, ShardRec
  <2>3. p \in Seq(EntryRec)
    <3>1. PICK q, n, x : q = s.entries /\ n = Len(s.entries) /\ x = Head(s.free)
      OBVIOUS
    <3>2. q \in [1 .. n -> EntryRec] /\ n \in Nat
      BY <3>1, ShardIs
    <3>3. p \in [1 .. n -> EntryRec]
      BY <2>1, <3>1, <3>2
    <3> QED BY <3>2, <3>3
  <2>4. f \in Seq(Nat)
    BY <1>1, <2>1, ShardIs, HeadTailProperties
  <2> QED BY <2>2, <2>3, <2>4 DEF ShardRec
<1>2. CASE s.free = <<>>
  <2>1. PICK p : p = Append(s.entries, e)
    OBVIOUS
  <2>2. PutEntry(s, e) = [s EXCEPT !.entries = p]
    BY <1>2, <2>1 DEF PutEntry, ShardRec
  <2>3. p \in Seq(EntryRec)
    BY <2>1, ShardIs, AppendProperties
  <2> QED BY <2>2, <2>3 DEF ShardRec
<1> QED BY <1>1, <1>2

\* The entries of a sentence that is being stored: the sentence is number new, and no
\* two of them begin at the same token.
NewEntries(es, n, new) ==
    /\ \A c \in 1 .. n : es[c] \in EntryRec /\ es[c].of = new
    /\ \A c, d \in 1 .. n : c # d => es[c].start_tok # es[d].start_tok

\* t is s with the first k of them.
FilledBy(s, es, k, new, t) ==
    /\ t \in ShardRec /\ FreeOK(t)
    /\ t.auto_sentence_id = s.auto_sentence_id /\ t.merged = s.merged
    /\ \A l \in 1 .. Len(s.entries) : s.entries[l] # NoEntry =>
          l \in 1 .. Len(t.entries) /\ t.entries[l] = s.entries[l]
    /\ \A l \in 1 .. Len(t.entries) :
          \/ l \in 1 .. Len(s.entries) /\ t.entries[l] = s.entries[l]
          \/ \E c \in 1 .. k : t.entries[l] = es[c]
    /\ \A c \in 1 .. k : \E l \in 1 .. Len(t.entries) : t.entries[l] = es[c]
    /\ \A l, m \in 1 .. Len(t.entries) :
          l # m /\ t.entries[l].of = new /\ t.entries[m].of = new =>
             t.entries[l].start_tok # t.entries[m].start_tok

\* One more of the new entries.
LEMMA FilledStep ==
    ASSUME NEW s \in ShardRec, NEW n \in Nat, NEW new \in Nat \ {0}, NEW es, NewEntries(es, n, new),
           \A l \in 1 .. Len(s.entries) : s.entries[l].of # new,
           NEW k \in Nat, k + 1 <= n, NEW t, FilledBy(s, es, k, new, t)
    PROVE  FilledBy(s, es, k + 1, new, PutEntry(t, es[k + 1]))
<1>1. PICK e : e = es[k + 1]
  OBVIOUS
<1>2. k + 1 \in 1 .. n /\ \A c \in 1 .. k : c \in 1 .. n /\ c # k + 1 /\ c \in 1 .. k + 1
  OBVIOUS
<1>3. e \in EntryRec /\ e.of = new /\ \A c \in 1 .. k : es[c].start_tok # e.start_tok /\ es[c].of = new
  BY <1>1, <1>2 DEF NewEntries
<1>4. e # NoEntry
  <2>1. NoEntry.of = 0
    BY DEF NoEntry
  <2> QED BY <1>3, <2>1
<1>5. t \in ShardRec /\ FreeOK(t)
  BY DEF FilledBy
<1>6. PICK u : u = PutEntry(t, e)
  OBVIOUS
<1>7. PICK x : Puts(t, e, x, u) /\ FreeOK(u)
  BY <1>3, <1>4, <1>5, <1>6, PutIs
<1>8. /\ u \in ShardRec /\ u.auto_sentence_id = t.auto_sentence_id /\ u.merged = t.merged
      /\ x \in 1 .. Len(u.entries) /\ u.entries[x] = e
      /\ \A l \in 1 .. Len(t.entries) : l \in 1 .. Len(u.entries)
      /\ x \in 1 .. Len(t.entries) => t.entries[x] = NoEntry
      /\ \A l \in 1 .. Len(u.entries) : l # x => l \in 1 .. Len(t.entries) /\ u.entries[l] = t.entries[l]
  BY <1>7 DEF Puts
<1>9. \A l \in 1 .. Len(t.entries) : t.entries[l] # NoEntry => l \in 1 .. Len(u.entries) /\ u.entries[l] = t.entries[l]
  BY <1>8
<1>10. ASSUME NEW l \in 1 .. Len(s.entries), s.entries[l] # NoEntry
       PROVE  l \in 1 .. Len(u.entries) /\ u.entries[l] = s.entries[l]
  <2>1. l \in 1 .. Len(t.entries) /\ t.entries[l] = s.entries[l]
    BY <1>10 DEF FilledBy
  <2> QED BY <1>9, <1>10, <2>1
<1>11. ASSUME NEW l \in 1 .. Len(u.entries)
       PROVE  \/ l \in 1 .. Len(s.entries) /\ u.entries[l] = s.entries[l]
              \/ \E c \in 1 .. k + 1 : u.entries[l] = es[c]
  <2>1. CASE l = x
    <3>1. k + 1 \in 1 .. k + 1 /\ u.entries[l] = es[k + 1]
      BY <1>1, <1>8, <2>1
    <3> QED BY <3>1
  <2>2. CASE l # x
    <3>1. l \in 1 .. Len(t.entries) /\ u.entries[l] = t.entries[l]
      BY <1>8, <2>2
    <3>2. \/ l \in 1 .. Len(s.entries) /\ t.entries[l] = s.entries[l]
          \/ \E c \in 1 .. k : t.entries[l] = es[c]
      BY <3>1 DEF FilledBy
    <3> QED BY <1>2, <3>1, <3>2
  <2> QED BY <2>1, <2>2
<1>12. ASSUME NEW c \in 1 .. k + 1 PROVE \E l \in 1 .. Len(u.entries) : u.entries[l] = es[c]
  <2>1. CASE c = k + 1
    BY <1>1, <1>8, <2>1
  <2>2. CASE c # k + 1
    <3>1. c \in 1 .. k
      BY <2>2
    <3>2. PICK l \in 1 .. Len(t.entries) : t.entries[l] = es[c]
      BY <3>1 DEF FilledBy
    <3>3. es[c] # NoEntry
      <4>1. es[c].of = new /\ NoEntry.of = 0
        BY <1>3, <3>1 DEF NoEntry
      <4> QED BY <4>1
    <3> QED BY <1>9, <3>2, <3>3
  <2> QED BY <2>1, <2>2
<1>13. ASSUME NEW l \in 1 .. Len(t.entries), t.entries[l].of = new PROVE t.entries[l].start_tok # e.start_tok
  <2>1. PICK c \in 1 .. k : t.entries[l] = es[c]
    BY <1>13 DEF FilledBy
  <2> QED BY <1>3, <2>1
<1>14. ASSUME NEW l \in 1 .. Len(u.entries), NEW m \in 1 .. Len(u.entries), l # m,
              u.entries[l].of = new, u.entries[m].of = new
       PROVE  u.entries[l].start_tok # u.entries[m].start_tok
  <2>1. CASE l = x
    <3>1. m \in 1 .. Len(t.entries) /\ u.entries[m] = t.entries[m]
      BY <1>8, <1>14, <2>1
    <3> QED BY <1>8, <1>13, <1>14, <2>1, <3>1
  <2>2. CASE m = x
    <3>1. l \in 1 .. Len(t.entries) /\ u.entries[l] = t.entries[l]
      BY <1>8, <1>14, <2>2
    <3> QED BY <1>8, <1>13, <1>14, <2>2, <3>1
  <2>3. CASE l # x /\ m # x
    <3>1. /\ l \in 1 .. Len(t.entries) /\ u.entries[l] = t.entries[l]
          /\ m \in 1 .. Len(t.entries) /\ u.entries[m] = t.entries[m]
      BY <1>8, <2>3
    <3> QED BY <1>14, <3>1 DEF FilledBy
  <2> QED BY <2>1, <2>2, <2>3
<1>15. u.auto_sentence_id = s.auto_sentence_id /\ u.merged = s.merged
  BY <1>8 DEF FilledBy
<1>16. FilledBy(s, es, k + 1, new, u)
  BY <1>7, <1>8, <1>10, <1>11, <1>12, <1>14, <1>15 DEF FilledBy
<1> QED BY <1>1, <1>6, <1>16

\* h has the shard after each number of entries.
Putting(h, s, n, chunks, sid) ==
    /\ h \in [0 .. n -> ShardRec] /\ h[0] = s
    /\ \A k \in 1 .. n : h[k] = PutEntry(h[k - 1], EntryFor(sid, chunks[k]))
    /\ PutAll(s, sid, chunks) = h[n]

\* PutAll puts one entry after the other.
LEMMA PutAllGoes ==
    ASSUME NEW s \in ShardRec, NEW n \in Nat, NEW chunks, DOMAIN chunks = 1 .. n, NEW sid,
           \A c \in 1 .. n : EntryFor(sid, chunks[c]) \in EntryRec
    PROVE  \E h : Putting(h, s, n, chunks, sid)
<1> DEFINE Body(it) == [t \in SUBSET (1 .. n) |->
                           IF t = {} THEN s ELSE PutEntry(it[t \ {Max(t)}], EntryFor(sid, chunks[Max(t)]))]
           iter == CHOOSE it : it = Body(it)
           step == [p \in (1 .. n) \X ShardRec |-> PutEntry(p[2], EntryFor(sid, chunks[p[1]]))]
<1>0. step \in [(1 .. n) \X ShardRec -> ShardRec]
  <2> SUFFICES ASSUME NEW k \in 1 .. n, NEW t \in ShardRec PROVE PutEntry(t, EntryFor(sid, chunks[k])) \in ShardRec
    BY Zenon
  <2> QED BY PutType
<1>1. PICK g : FoldsBy(g, n, ShardRec, s, step)
  <2> HIDE DEF step
  <2> QED BY <1>0, FoldExists, Zenon
<1>2. g = Body(g)
  <2> g \in [SUBSET (1 .. n) -> ShardRec]
    BY <1>1 DEF FoldsBy
  <2> SUFFICES ASSUME NEW t \in SUBSET (1 .. n)
               PROVE  g[t] = IF t = {} THEN s ELSE PutEntry(g[t \ {Max(t)}], EntryFor(sid, chunks[Max(t)]))
    BY Zenon
  <2>1. CASE t = {}
    BY <1>1, <2>1 DEF FoldsBy
  <2>2. CASE t # {}
    <3>1. Max(t) \in 1 .. n /\ t \ {Max(t)} \in SUBSET (1 .. n)
      BY <2>2, MaxIs
    <3>2. g[t \ {Max(t)}] \in ShardRec
      BY <1>1, <3>1 DEF FoldsBy
    <3>3. g[t] = step[<<Max(t), g[t \ {Max(t)}]>>]
      BY <1>1, <2>2 DEF FoldsBy
    <3> QED BY <2>2, <3>1, <3>2, <3>3
  <2> QED BY <2>1, <2>2
<1>3. iter = Body(iter)
  BY <1>2
<1>4. PutAll(s, sid, chunks) = iter[1 .. n]
  BY DEF PutAll, FoldLeft, MapThenFoldSet
<1> HIDE DEF iter
<1>5. \A t \in SUBSET (1 .. n) :
         iter[t] = IF t = {} THEN s ELSE PutEntry(iter[t \ {Max(t)}], EntryFor(sid, chunks[Max(t)]))
  BY <1>3
<1>6. iter[{}] = s
  BY <1>5
<1>7. StepsBy(iter, n, ShardRec, step)
  <2> SUFFICES ASSUME NEW t \in SUBSET (1 .. n), t # {}, iter[t \ {Max(t)}] \in ShardRec
               PROVE  iter[t] = step[<<Max(t), iter[t \ {Max(t)}]>>]
    BY Zenon DEF StepsBy
  <2>1. Max(t) \in 1 .. n
    BY MaxIs
  <2>2. iter[t] = PutEntry(iter[t \ {Max(t)}], EntryFor(sid, chunks[Max(t)]))
    BY <1>5, Zenon
  <2> QED BY <2>1, <2>2
<1>8. PICK h : Recurs(h, n, ShardRec, s, step) /\ h[n] = iter[1 .. n]
  <2> HIDE DEF step
  <2>1. PICK T, base, at, go : T = ShardRec /\ base = s /\ at = iter /\ go = step
    OBVIOUS
  <2>2. go \in [(1 .. n) \X T -> T]
    BY <1>0, <2>1
  <2>3. base \in T
    BY <2>1
  <2>4. at[{}] = base
    BY <1>6, <2>1
  <2>5. StepsBy(at, n, T, go)
    BY <1>7, <2>1
  <2>6. \E h : Recurs(h, n, T, base, go) /\ h[n] = at[1 .. n]
    BY <2>2, <2>3, <2>4, <2>5, FoldUnrolls, SMTT(40)
  <2> QED BY <2>1, <2>6
<1>9. h \in [0 .. n -> ShardRec] /\ h[0] = s /\ \A k \in 1 .. n : h[k] = step[<<k, h[k - 1]>>]
  <2> HIDE DEF step
  <2> QED BY <1>8 DEF Recurs
<1>10. ASSUME NEW k \in 1 .. n PROVE h[k] = PutEntry(h[k - 1], EntryFor(sid, chunks[k]))
  <2>1. k - 1 \in 0 .. n
    OBVIOUS
  <2>2. h[k - 1] \in ShardRec /\ h[k] = step[<<k, h[k - 1]>>]
    BY <1>9, <2>1
  <2> QED BY <2>2
<1> QED BY <1>4, <1>8, <1>9, <1>10 DEF Putting

\* Storing a sentence puts all its chunks that there is room for into the shard.
LEMMA PutAllFills ==
    ASSUME NEW s \in ShardRec, FreeOK(s), NEW n \in Nat, NEW chunks, DOMAIN chunks = 1 .. n, NEW sid,
           NEW new \in Nat \ {0}, \A l \in 1 .. Len(s.entries) : s.entries[l].of # new,
           NEW es, es = [c \in 1 .. n |-> EntryFor(sid, chunks[c])], NewEntries(es, n, new)
    PROVE  FilledBy(s, es, n, new, PutAll(s, sid, chunks))
<1>1. \A c \in 1 .. n : es[c] = EntryFor(sid, chunks[c]) /\ EntryFor(sid, chunks[c]) \in EntryRec
  BY DEF NewEntries
<1>2a. PICK h : Putting(h, s, n, chunks, sid)
  BY <1>1, PutAllGoes
<1>2. /\ h \in [0 .. n -> ShardRec] /\ h[0] = s
      /\ \A k \in 1 .. n : h[k] = PutEntry(h[k - 1], EntryFor(sid, chunks[k]))
      /\ PutAll(s, sid, chunks) = h[n]
  BY <1>2a DEF Putting
<1>3. FilledBy(s, es, 0, new, s)
  BY ShardIs DEF FilledBy
<1> DEFINE P == {k \in Nat : k <= n => FilledBy(s, es, k, new, h[k])}
<1>4. 0 \in P
  BY <1>2, <1>3
<1>5. ASSUME NEW k \in Nat, k \in P PROVE k + 1 \in P
  <2> SUFFICES ASSUME k + 1 <= n PROVE FilledBy(s, es, k + 1, new, h[k + 1])
    <3>1. k + 1 \in Nat
      OBVIOUS
    <3> QED BY <3>1, Zenon
  <2>1. (k + 1) - 1 = k /\ k <= n /\ k + 1 \in 1 .. n
    OBVIOUS
  <2>2. FilledBy(s, es, k, new, h[k])
    BY <1>5, <2>1
  <2>3. h[k + 1] = PutEntry(h[k], es[k + 1])
    BY <1>1, <1>2, <2>1
  <2> QED BY <2>2, <2>3, FilledStep
<1>6. Nat \subseteq P
  <2> HIDE DEF P
  <2> QED BY <1>4, <1>5, Induction
<1>7. n \in P /\ n <= n
  <2> HIDE DEF P
  <2> QED BY <1>6
<1> QED BY <1>2, <1>7

-----------------------------------------------------------------------------
(* The inductive invariant of Sentences.                                    *)

\* Not merged, or of one window, which a merge changes nothing about.
Regular(d, size) == d.merged => Len(Tokens(d.text)) <= size

\* e has what window w of sentence d has.
Cut(e, d, size, w) ==
    /\ e.text = Slice(d.text, w)
    /\ e.start_tok = IF Regular(d, size) THEN w.first ELSE 0
    /\ e.end_tok = IF Regular(d, size) THEN w.last ELSE w.last - w.first

\* An entry has the id of its sentence and is cut out of it.
CutOut(e, sd, size, overlap) ==
    /\ e.of \in 1 .. Len(sd) /\ e.sid = sd[e.of].sid
    /\ \E j \in 1 .. Len(Cuts(sd[e.of].text, size, overlap)) :
          Cut(e, sd[e.of], size, Cuts(sd[e.of].text, size, overlap)[j])

\* Entries of one sentence begin at different tokens.
Apart(s, sd, size) ==
    \A l, m \in 1 .. Len(s.entries) :
        /\ l # m /\ s.entries[l].of = s.entries[m].of /\ s.entries[l].of \in 1 .. Len(sd)
        /\ Regular(sd[s.entries[l].of], size)
        => s.entries[l].start_tok # s.entries[m].start_tok

\* The labels of a shard that wait are those without an entry, and auto_sentence_id
\* is the largest id it has had.
ShardOK(s, sd, size, overlap) ==
    /\ s \in ShardRec /\ FreeOK(s)
    /\ \A l \in 1 .. Len(s.entries) :
          /\ s.entries[l] = NoEntry \/ CutOut(s.entries[l], sd, size, overlap)
          /\ s.entries[l].sid <= s.auto_sentence_id
    /\ Apart(s, sd, size)

\* All of a sentence is in one shard.
OneHome(ss) ==
    \A i, j \in 1 .. Len(ss) : \A l \in 1 .. Len(ss[i].entries), m \in 1 .. Len(ss[j].entries) :
        ss[i].entries[l].of = ss[j].entries[m].of /\ ss[i].entries[l].of # 0 => i = j

\* Some shard has what window w of sentence k has.
There(ss, sd, k, size, w) ==
    \E i \in 1 .. Len(ss) : \E l \in 1 .. Len(ss[i].entries) :
        ss[i].entries[l].of = k /\ Cut(ss[i].entries[l], sd[k], size, w)

\* A sentence stored whole, of which nothing was removed, has a piece for every window.
AllThere(ss, sd, size, overlap) ==
    \A k \in 1 .. Len(sd) : sd[k].whole /\ ~sd[k].removed =>
        \A j \in 1 .. Len(Cuts(sd[k].text, size, overlap)) :
            There(ss, sd, k, size, Cuts(sd[k].text, size, overlap)[j])

\* The shards and the sentences that were said fit together.
SentOK(ss, sd, size, overlap) ==
    /\ ss \in Seq(ShardRec) /\ Len(ss) # 0 /\ sd \in Seq(SaidRec)
    /\ \A i \in 1 .. Len(ss) : ShardOK(ss[i], sd, size, overlap)
    /\ OneHome(ss) /\ AllThere(ss, sd, size, overlap)

\* The inductive invariant.
SentInv ==
    /\ config \in Configs /\ removals \in 0 .. MaxRemoved /\ merges \in 0 .. MaxMerges
    /\ Len(said) \in 0 .. MaxSentences
    /\ SentOK(shards, said, MaxTokens, Overlap)

\* A sentence that is said later changes nothing about the entries of one before it.
LEMMA CutOutStays ==
    ASSUME NEW sd \in Seq(SaidRec), NEW d \in SaidRec, NEW size, NEW overlap, NEW e, CutOut(e, sd, size, overlap)
    PROVE  CutOut(e, Append(sd, d), size, overlap)
<1>1. Len(sd) \in Nat /\ Len(Append(sd, d)) = Len(sd) + 1 /\ \A k \in 1 .. Len(sd) : Append(sd, d)[k] = sd[k]
  BY AppendProperties
<1>2. e.of \in 1 .. Len(sd) /\ e.of \in 1 .. Len(sd) + 1
  BY <1>1 DEF CutOut
<1> QED BY <1>1, <1>2 DEF CutOut

\* A shard with a sentence more.
LEMMA FilledOK ==
    ASSUME NEW sd \in Seq(SaidRec), NEW d \in SaidRec, ~d.merged,
           NEW size \in Nat \ {0}, NEW overlap \in 0 .. size - 1,
           NEW s, ShardOK(s, sd, size, overlap), d.sid <= s.auto_sentence_id,
           NEW n \in Nat, n <= Len(Cuts(d.text, size, overlap)),
           NEW es, NewEntries(es, n, Len(sd) + 1),
           \A c \in 1 .. n : es[c].sid = d.sid /\ Cut(es[c], d, size, Cuts(d.text, size, overlap)[c]),
           NEW r, FilledBy(s, es, n, Len(sd) + 1, r)
    PROVE  ShardOK(r, Append(sd, d), size, overlap)
<1>1. PICK sd2, new : sd2 = Append(sd, d) /\ new = Len(sd) + 1
  OBVIOUS
<1>2. Len(sd) \in Nat /\ Len(sd2) = new /\ sd2[new] = d /\ \A k \in 1 .. Len(sd) : sd2[k] = sd[k]
  BY <1>1, AppendProperties
<1>3. new \in 1 .. new /\ new \notin 1 .. Len(sd) /\ new # 0
      /\ \A k \in 1 .. new : k = new \/ k \in 1 .. Len(sd)
  BY <1>1, <1>2
<1>4. r \in ShardRec /\ FreeOK(r) /\ r.auto_sentence_id = s.auto_sentence_id
  BY DEF FilledBy
<1>4a. \A l \in 1 .. Len(r.entries) :
          \/ l \in 1 .. Len(s.entries) /\ r.entries[l] = s.entries[l]
          \/ \E c \in 1 .. n : r.entries[l] = es[c]
  BY DEF FilledBy
<1>4b. \A l, m \in 1 .. Len(r.entries) :
          l # m /\ r.entries[l].of = new /\ r.entries[m].of = new =>
             r.entries[l].start_tok # r.entries[m].start_tok
  BY <1>1 DEF FilledBy
<1>5. Len(Cuts(d.text, size, overlap)) \in Nat
  <2>1. d.text \in Seq(Letters)
    BY TextsAssumption DEF SaidRec, Letters
  <2> QED BY <2>1, CutsAre DEF CutsOK
<1>6. ASSUME NEW c \in 1 .. n PROVE CutOut(es[c], sd2, size, overlap) /\ es[c].sid = d.sid /\ es[c].of = new
  <2>1. es[c].of = new
    BY <1>1 DEF NewEntries
  <2>2. c \in 1 .. Len(Cuts(d.text, size, overlap))
    BY <1>5
  <2>3. es[c].sid = d.sid /\ Cut(es[c], d, size, Cuts(d.text, size, overlap)[c])
    OBVIOUS
  <2>4. sd2[es[c].of] = d /\ es[c].of \in 1 .. Len(sd2)
    BY <1>2, <1>3, <2>1
  <2> QED BY <2>1, <2>2, <2>3, <2>4 DEF CutOut
<1>7. ASSUME NEW l \in 1 .. Len(r.entries)
      PROVE  /\ r.entries[l] = NoEntry \/ CutOut(r.entries[l], sd2, size, overlap)
             /\ r.entries[l].sid <= r.auto_sentence_id
  <2>1. CASE l \in 1 .. Len(s.entries) /\ r.entries[l] = s.entries[l]
    <3>1. s.entries[l] = NoEntry \/ CutOut(s.entries[l], sd, size, overlap)
      BY <2>1 DEF ShardOK
    <3>2. s.entries[l] = NoEntry \/ CutOut(s.entries[l], sd2, size, overlap)
      BY <1>1, <3>1, CutOutStays
    <3>3. s.entries[l].sid <= s.auto_sentence_id
      BY <2>1 DEF ShardOK
    <3> QED BY <1>4, <2>1, <3>2, <3>3
  <2>2. CASE \E c \in 1 .. n : r.entries[l] = es[c]
    BY <1>4, <1>6, <2>2
  <2> QED BY <1>4a, <2>1, <2>2
<1>8. ASSUME NEW l \in 1 .. Len(r.entries), NEW m \in 1 .. Len(r.entries), l # m,
             r.entries[l].of = r.entries[m].of, r.entries[l].of \in 1 .. Len(sd2),
             Regular(sd2[r.entries[l].of], size)
      PROVE  r.entries[l].start_tok # r.entries[m].start_tok
  <2>1. CASE r.entries[l].of = new
    BY <1>4b, <1>8, <2>1
  <2>2. CASE r.entries[l].of # new
    <3>1. r.entries[l].of \in 1 .. Len(sd) /\ sd2[r.entries[l].of] = sd[r.entries[l].of]
      BY <1>2, <1>3, <1>8, <2>2
    <3>2. ASSUME NEW k \in 1 .. Len(r.entries), r.entries[k].of # new
          PROVE  k \in 1 .. Len(s.entries) /\ r.entries[k] = s.entries[k]
      BY <1>4a, <1>6, <3>2
    <3>3. /\ l \in 1 .. Len(s.entries) /\ r.entries[l] = s.entries[l]
          /\ m \in 1 .. Len(s.entries) /\ r.entries[m] = s.entries[m]
      BY <1>8, <2>2, <3>2
    <3> QED BY <1>8, <3>1, <3>3 DEF ShardOK, Apart
  <2> QED BY <2>1, <2>2
<1>9. ShardOK(r, sd2, size, overlap)
  BY <1>4, <1>7, <1>8 DEF ShardOK, Apart
<1> QED BY <1>1, <1>9

\* ss2 is ss with r for shard h, a new one or one that had the entries s has.
Extends(ss, ss2, h, s, r) ==
    /\ ss2 \in Seq(ShardRec) /\ Len(ss2) # 0 /\ h \in 1 .. Len(ss2) /\ ss2[h] = r
    /\ \A i \in 1 .. Len(ss2) : i # h => i \in 1 .. Len(ss) /\ ss2[i] = ss[i]
    /\ \A i \in 1 .. Len(ss) : i \in 1 .. Len(ss2)
    /\ h \in 1 .. Len(ss) => s.entries = ss[h].entries
    /\ h \notin 1 .. Len(ss) => s.entries = <<>>

\* An entry is of no sentence or of one that was said.
LEMMA EntriesOf ==
    ASSUME NEW ss, NEW sd, NEW size, NEW overlap, SentOK(ss, sd, size, overlap),
           NEW i \in 1 .. Len(ss), NEW l \in 1 .. Len(ss[i].entries)
    PROVE  /\ ss[i].entries[l] = NoEntry \/ CutOut(ss[i].entries[l], sd, size, overlap)
           /\ ss[i].entries[l].of = 0 \/ ss[i].entries[l].of \in 1 .. Len(sd)
           /\ ss[i].entries[l].of = 0 <=> ss[i].entries[l] = NoEntry
<1>1. ShardOK(ss[i], sd, size, overlap)
  BY DEF SentOK
<1>2. ss[i].entries[l] = NoEntry \/ CutOut(ss[i].entries[l], sd, size, overlap)
  BY <1>1 DEF ShardOK
<1>3. NoEntry.of = 0
  BY DEF NoEntry
<1>4. Len(sd) \in Nat
  BY LenProperties DEF SentOK
<1>5. PICK e : e = ss[i].entries[l]
  OBVIOUS
<1>6. CASE e = NoEntry
  BY <1>2, <1>3, <1>5, <1>6
<1>7. CASE CutOut(e, sd, size, overlap)
  <2>1. e.of \in 1 .. Len(sd)
    BY <1>7 DEF CutOut
  <2>2. e.of # 0 /\ e # NoEntry
    BY <1>3, <1>4, <2>1
  <2> QED BY <1>2, <1>5, <2>1, <2>2
<1> QED BY <1>2, <1>5, <1>6, <1>7

\* A sentence that is said later changes nothing about a shard.
LEMMA ShardStays ==
    ASSUME NEW sd \in Seq(SaidRec), NEW d \in SaidRec, NEW size, NEW overlap,
           NEW s, ShardOK(s, sd, size, overlap)
    PROVE  ShardOK(s, Append(sd, d), size, overlap)
<1>1. PICK sd2 : sd2 = Append(sd, d)
  OBVIOUS
<1>2. Len(sd) \in Nat /\ \A k \in 1 .. Len(sd) : sd2[k] = sd[k]
  BY <1>1, AppendProperties
<1>3. \A l \in 1 .. Len(s.entries) : s.entries[l] = NoEntry \/ CutOut(s.entries[l], sd, size, overlap)
  BY DEF ShardOK
<1>4. \A l \in 1 .. Len(s.entries) : s.entries[l] = NoEntry \/ CutOut(s.entries[l], sd2, size, overlap)
  BY <1>1, <1>3, CutOutStays
<1>5. NoEntry.of = 0
  BY DEF NoEntry
<1>6. \A l \in 1 .. Len(s.entries) : s.entries[l].of \in 1 .. Len(sd2) => s.entries[l].of \in 1 .. Len(sd)
  <2> TAKE l \in 1 .. Len(s.entries)
  <2> HAVE s.entries[l].of \in 1 .. Len(sd2)
  <2>1. CASE s.entries[l] = NoEntry
    BY <1>5, <2>1
  <2>2. CASE CutOut(s.entries[l], sd, size, overlap)
    BY <2>2 DEF CutOut
  <2> QED BY <1>3, <2>1, <2>2
<1>7. Apart(s, sd, size)
  BY DEF ShardOK
<1>8. Apart(s, sd2, size)
  BY <1>2, <1>6, <1>7 DEF Apart
<1> QED BY <1>1, <1>4, <1>8 DEF ShardOK

\* A sentence more.
LEMMA SaidKeeps ==
    ASSUME NEW ss, NEW sd, NEW size \in Nat \ {0}, NEW overlap \in 0 .. size - 1, SentOK(ss, sd, size, overlap),
           NEW d \in SaidRec, ~d.merged, NEW ss2, NEW h, NEW s, NEW r, Extends(ss, ss2, h, s, r),
           NEW n \in Nat, NEW es, NewEntries(es, n, Len(sd) + 1), FilledBy(s, es, n, Len(sd) + 1, r),
           \A c \in 1 .. n : Cut(es[c], d, size, Cuts(d.text, size, overlap)[c]),
           d.whole => n = Len(Cuts(d.text, size, overlap)),
           ShardOK(r, Append(sd, d), size, overlap)
    PROVE  SentOK(ss2, Append(sd, d), size, overlap)
<1>1. PICK sd2, new : sd2 = Append(sd, d) /\ new = Len(sd) + 1
  OBVIOUS
<1>2. /\ sd \in Seq(SaidRec) /\ sd2 \in Seq(SaidRec)
      /\ Len(sd) \in Nat /\ Len(sd2) = new /\ sd2[new] = d /\ \A k \in 1 .. Len(sd) : sd2[k] = sd[k]
  BY <1>1, AppendProperties DEF SentOK
<1>3. new \in 1 .. new /\ new \notin 1 .. Len(sd) /\ new # 0
      /\ \A k \in 1 .. new : k = new \/ k \in 1 .. Len(sd)
  BY <1>1, <1>2
<1>4. /\ ss2 \in Seq(ShardRec) /\ Len(ss2) # 0 /\ h \in 1 .. Len(ss2) /\ ss2[h] = r
      /\ \A i \in 1 .. Len(ss2) : i # h => i \in 1 .. Len(ss) /\ ss2[i] = ss[i]
      /\ \A i \in 1 .. Len(ss) : i \in 1 .. Len(ss2)
      /\ h \in 1 .. Len(ss) => s.entries = ss[h].entries
      /\ h \notin 1 .. Len(ss) => s.entries = <<>>
  BY DEF Extends
<1>5. ASSUME NEW i \in 1 .. Len(ss2) PROVE ShardOK(ss2[i], sd2, size, overlap)
  <2>1. CASE i = h
    BY <1>1, <1>4, <2>1
  <2>2. CASE i # h
    <3>1. i \in 1 .. Len(ss) /\ ss2[i] = ss[i]
      BY <1>4, <2>2
    <3>2. ShardOK(ss[i], sd, size, overlap)
      BY <3>1 DEF SentOK
    <3> QED BY <1>1, <1>2, <3>1, <3>2, ShardStays
  <2> QED BY <2>1, <2>2
<1>6. \A c \in 1 .. n : es[c].of = new
  BY <1>1 DEF NewEntries
<1>7. ASSUME NEW i \in 1 .. Len(ss2), NEW l \in 1 .. Len(ss2[i].entries)
      PROVE  \/ /\ i \in 1 .. Len(ss) /\ l \in 1 .. Len(ss[i].entries)
                /\ ss2[i].entries[l] = ss[i].entries[l]
             \/ i = h /\ ss2[i].entries[l].of = new
  <2>1. CASE i = h
    <3>1. \/ l \in 1 .. Len(s.entries) /\ r.entries[l] = s.entries[l]
          \/ \E c \in 1 .. n : r.entries[l] = es[c]
      BY <1>4, <2>1 DEF FilledBy
    <3>2. CASE l \in 1 .. Len(s.entries) /\ r.entries[l] = s.entries[l]
      <4>1. h \in 1 .. Len(ss)
        <5>1. ASSUME s.entries = <<>> PROVE FALSE
          <6>1. Len(s.entries) = 0
            BY <5>1
          <6> QED BY <3>2, <6>1
        <5> QED BY <1>4, <5>1
      <4> QED BY <1>4, <2>1, <3>2, <4>1
    <3>3. CASE \E c \in 1 .. n : r.entries[l] = es[c]
      BY <1>4, <1>6, <2>1, <3>3
    <3> QED BY <3>1, <3>2, <3>3
  <2>2. CASE i # h
    BY <1>4, <2>2
  <2> QED BY <2>1, <2>2
<1>8. \A i \in 1 .. Len(ss) : \A l \in 1 .. Len(ss[i].entries) : ss[i].entries[l].of # new
  BY <1>3, EntriesOf, SMTT(40)
<1>9. OneHome(ss2)
  <2> SUFFICES ASSUME NEW i \in 1 .. Len(ss2), NEW j \in 1 .. Len(ss2),
                      NEW l \in 1 .. Len(ss2[i].entries), NEW m \in 1 .. Len(ss2[j].entries),
                      ss2[i].entries[l].of = ss2[j].entries[m].of, ss2[i].entries[l].of # 0
               PROVE  i = j
    BY DEF OneHome
  <2>1. CASE ss2[i].entries[l].of = new
    BY <1>7, <1>8, <2>1, ZenonT(40)
  <2>2. CASE ss2[i].entries[l].of # new
    <3>1. /\ i \in 1 .. Len(ss) /\ l \in 1 .. Len(ss[i].entries) /\ ss2[i].entries[l] = ss[i].entries[l]
          /\ j \in 1 .. Len(ss) /\ m \in 1 .. Len(ss[j].entries) /\ ss2[j].entries[m] = ss[j].entries[m]
      BY <1>7, <2>2
    <3>2. OneHome(ss)
      BY DEF SentOK
    <3> QED BY <3>1, <3>2, SMTT(40) DEF OneHome
  <2> QED BY <2>1, <2>2
<1>10. AllThere(ss2, sd2, size, overlap)
  <2> SUFFICES ASSUME NEW k \in 1 .. Len(sd2), sd2[k].whole, ~sd2[k].removed,
                      NEW j \in 1 .. Len(Cuts(sd2[k].text, size, overlap))
               PROVE  There(ss2, sd2, k, size, Cuts(sd2[k].text, size, overlap)[j])
    BY DEF AllThere
  <2>1. CASE k = new
    <3>1. j \in 1 .. n /\ sd2[k] = d
      BY <1>2, <2>1
    <3>2. PICK l \in 1 .. Len(r.entries) : r.entries[l] = es[j]
      BY <3>1 DEF FilledBy
    <3>3. Cut(es[j], d, size, Cuts(d.text, size, overlap)[j])
      BY <3>1
    <3> QED BY <1>4, <1>6, <2>1, <3>1, <3>2, <3>3 DEF There
  <2>2. CASE k # new
    <3>1. k \in 1 .. Len(sd) /\ sd2[k] = sd[k]
      BY <1>2, <1>3, <2>2
    <3>2. There(ss, sd, k, size, Cuts(sd[k].text, size, overlap)[j])
      <4>1. AllThere(ss, sd, size, overlap)
        BY DEF SentOK
      <4> QED BY <3>1, <4>1 DEF AllThere
    <3>3. PICK i \in 1 .. Len(ss) : \E l \in 1 .. Len(ss[i].entries) :
             ss[i].entries[l].of = k /\ Cut(ss[i].entries[l], sd[k], size, Cuts(sd[k].text, size, overlap)[j])
      BY <3>2 DEF There
    <3>3a. PICK l \in 1 .. Len(ss[i].entries) :
             ss[i].entries[l].of = k /\ Cut(ss[i].entries[l], sd[k], size, Cuts(sd[k].text, size, overlap)[j])
      BY <3>3
    <3>4. i \in 1 .. Len(ss2) /\ l \in 1 .. Len(ss2[i].entries) /\ ss2[i].entries[l] = ss[i].entries[l]
      <4>1. CASE i = h
        <5>1. s.entries = ss[i].entries
          BY <1>4, <4>1
        <5>2. s.entries[l] # NoEntry /\ l \in 1 .. Len(s.entries)
          <6>1. NoEntry.of = 0
            BY DEF NoEntry
          <6> QED BY <1>2, <3>1, <3>3a, <5>1, <6>1, SMTT(40)
        <5>3. l \in 1 .. Len(r.entries) /\ r.entries[l] = s.entries[l]
          BY <5>2 DEF FilledBy
        <5> QED BY <1>4, <4>1, <5>1, <5>3
      <4>2. CASE i # h
        BY <1>4, <4>2
      <4> QED BY <4>1, <4>2
    <3> QED BY <3>1, <3>3a, <3>4 DEF There
  <2> QED BY <2>1, <2>2
<1>11. SentOK(ss2, sd2, size, overlap)
  BY <1>2, <1>4, <1>5, <1>9, <1>10 DEF SentOK
<1> QED BY <1>1, <1>11

\* No two windows of a text begin at the same token.
LEMMA CutsApart ==
    ASSUME NEW text, text \in Seq(Letters), NEW size \in Nat \ {0}, NEW overlap \in 0 .. size - 1,
           NEW i \in 1 .. Len(Cuts(text, size, overlap)), NEW j \in 1 .. Len(Cuts(text, size, overlap)), i # j
    PROVE  Cuts(text, size, overlap)[i].first # Cuts(text, size, overlap)[j].first
<1>1. PICK ws, n : ws = Cuts(text, size, overlap) /\ n = Len(Tokens(text))
  OBVIOUS
<1>2. n \in Nat /\ Len(ws) \in Nat /\ (n # 0 => Chain(ws, 0, n, size, overlap)) /\ Window(ws[i], n)
  BY <1>1, CutsAre DEF CutsOK
<1>3. n # 0
  BY <1>2 DEF Window
<1>4. Chain(ws, 0, n, size, overlap) /\ i \in 1 .. Len(ws) /\ j \in 1 .. Len(ws)
  BY <1>1, <1>2, <1>3
<1>5. ws[i].first \in Nat /\ ws[j].first \in Nat
  BY <1>2, <1>4, ChainIs
<1>6. CASE i < j
  <2>1. ws[i].first < ws[j].first
    BY <1>2, <1>4, <1>6, ChainOrder
  <2> QED BY <1>1, <1>5, <2>1
<1>7. CASE j < i
  <2>1. ws[j].first < ws[i].first
    BY <1>2, <1>4, <1>7, ChainOrder
  <2> QED BY <1>1, <1>5, <2>1
<1> QED BY <1>6, <1>7

\* An empty shard has nothing that could be wrong.
LEMMA NewShardOK ==
    ASSUME NEW sd, NEW size, NEW overlap
    PROVE  ShardOK(NewShard, sd, size, overlap)
<1>1. /\ NewShard.entries = <<>> /\ NewShard.free = <<>> /\ NewShard.auto_sentence_id = 0
      /\ NewShard.merged = FALSE
  BY DEF NewShard
<1>2. NewShard \in ShardRec
  <2>1. <<>> \in Seq(EntryRec) /\ <<>> \in Seq(Nat)
    OBVIOUS
  <2> QED BY <2>1 DEF NewShard, ShardRec
<1>3. 1 .. Len(NewShard.entries) = {} /\ 1 .. Len(NewShard.free) = {}
  BY <1>1
<1>4. FreeOK(NewShard)
  BY <1>3 DEF FreeOK
<1> QED BY <1>2, <1>3, <1>4 DEF ShardOK, Apart

\* The id a caller gives is known from then on.
LEMMA KnownOK ==
    ASSUME NEW sd, NEW size, NEW overlap, NEW s, ShardOK(s, sd, size, overlap), NEW sid \in Nat
    PROVE  /\ ShardOK(Known(s, sid), sd, size, overlap) /\ sid <= Known(s, sid).auto_sentence_id
           /\ Known(s, sid).entries = s.entries
<1>1. s \in ShardRec /\ s.auto_sentence_id \in Nat
  BY ShardIs DEF ShardOK
<1>2. PICK t, a : t = Known(s, sid) /\ a = IF sid > s.auto_sentence_id THEN sid ELSE s.auto_sentence_id
  OBVIOUS
<1>3. t = [s EXCEPT !.auto_sentence_id = a]
  BY <1>1, <1>2 DEF Known, ShardRec
<1>4. a \in Nat /\ sid <= a /\ s.auto_sentence_id <= a
  BY <1>1, <1>2
<1>5. t \in ShardRec /\ t.entries = s.entries /\ t.free = s.free /\ t.auto_sentence_id = a
  BY <1>1, <1>3, <1>4 DEF ShardRec
<1>6. FreeOK(t) /\ Apart(t, sd, size)
  BY <1>5 DEF ShardOK, FreeOK, Apart
<1>7. ASSUME NEW l \in 1 .. Len(t.entries)
      PROVE  (t.entries[l] = NoEntry \/ CutOut(t.entries[l], sd, size, overlap)) /\ t.entries[l].sid <= a
  <2>1. l \in 1 .. Len(s.entries) /\ t.entries[l] = s.entries[l]
    BY <1>5
  <2>2. s.entries[l].sid <= s.auto_sentence_id /\ s.entries[l] \in EntryRec
    BY <1>1, <2>1, ShardIs DEF ShardOK
  <2>3. s.entries[l].sid <= a
    BY <1>1, <1>4, <2>2, SMTT(40) DEF EntryRec
  <2> QED BY <2>1, <2>3 DEF ShardOK
<1>8. ShardOK(t, sd, size, overlap)
  BY <1>5, <1>6, <1>7 DEF ShardOK
<1> QED BY <1>2, <1>4, <1>5, <1>8

\* The current shard is the last one or a new one.
LEMMA CurrentIs ==
    ASSUME SentInv
    PROVE  /\ ShardOK(Current, said, MaxTokens, Overlap)
           /\ \A r \in ShardRec : \A s : s.entries = Current.entries =>
                 \E h : Extends(shards, SetCurrent(r), h, s, r)
<1>1. shards \in Seq(ShardRec) /\ Len(shards) # 0 /\ Len(shards) \in Nat
      /\ \A i \in 1 .. Len(shards) : ShardOK(shards[i], said, MaxTokens, Overlap)
  BY LenProperties DEF SentInv, SentOK
<1>2. PICK n : n = Len(shards)
  OBVIOUS
<1>3. n \in Nat /\ n # 0 /\ n \in 1 .. n /\ Last(shards) = shards[n]
  BY <1>1, <1>2 DEF Last
<1>4. CASE Full
  <2>1. Current = NewShard
    BY <1>4 DEF Current
  <2>2. ASSUME NEW r \in ShardRec, NEW s, s.entries = Current.entries
        PROVE  \E h : Extends(shards, SetCurrent(r), h, s, r)
    <3>1. PICK ss2 : ss2 = SetCurrent(r)
      OBVIOUS
    <3>2. ss2 = Append(shards, r)
      BY <1>4, <3>1 DEF SetCurrent
    <3>3. ss2 \in Seq(ShardRec) /\ Len(ss2) = n + 1 /\ ss2[n + 1] = r /\ \A i \in 1 .. n : ss2[i] = shards[i]
      BY <1>1, <1>2, <3>2, AppendProperties
    <3>4. /\ n + 1 \in 1 .. n + 1 /\ n + 1 \notin 1 .. n /\ n + 1 # 0
          /\ \A i \in 1 .. n + 1 : i # n + 1 => i \in 1 .. n
          /\ \A i \in 1 .. n : i \in 1 .. n + 1
      BY <1>3
    <3>5. s.entries = <<>>
      BY <2>1, <2>2 DEF NewShard
    <3>6. Extends(shards, ss2, n + 1, s, r)
      BY <1>2, <3>3, <3>4, <3>5 DEF Extends
    <3> QED BY <3>1, <3>6
  <2> QED BY <2>1, <2>2, NewShardOK
<1>5. CASE ~Full
  <2>1. Current = shards[n]
    BY <1>3, <1>5 DEF Current
  <2>2. ASSUME NEW r \in ShardRec, NEW s, s.entries = Current.entries
        PROVE  \E h : Extends(shards, SetCurrent(r), h, s, r)
    <3>1. PICK ss2 : ss2 = SetCurrent(r)
      OBVIOUS
    <3>2. ss2 = [shards EXCEPT ![n] = r]
      BY <1>2, <1>5, <3>1 DEF SetCurrent
    <3>3. ss2 \in Seq(ShardRec) /\ Len(ss2) = n /\ \A i \in 1 .. n : ss2[i] = IF i = n THEN r ELSE shards[i]
      BY <1>1, <1>2, <1>3, <3>2, ExceptSeq
    <3>4. Extends(shards, ss2, n, s, r)
      BY <1>2, <1>3, <2>1, <2>2, <3>3 DEF Extends
    <3> QED BY <3>1, <3>4
  <2>3. ShardOK(Current, said, MaxTokens, Overlap)
    BY <1>1, <1>2, <1>3, <2>1
  <2> QED BY <2>2, <2>3
<1> QED BY <1>4, <1>5

\* The labels there are for a sentence are counted.
LEMMA RoomIs == ASSUME NEW s \in ShardRec, NEW room \in Room(s) PROVE room \in Nat
<1>1. MaxElements \in Nat
  BY BoundsAssumption
<1>2. CASE s.merged
  BY <1>1, <1>2 DEF Room
<1>3. CASE ~s.merged
  <2>1. PICK a, b : a = Len(s.free) /\ b = Len(s.entries)
    OBVIOUS
  <2>2. a \in Nat /\ b \in Nat
    BY <2>1, ShardIs
  <2>3. room = a + IF b < MaxElements THEN MaxElements - b ELSE 0
    BY <1>3, <2>1 DEF Room
  <2> QED BY <1>1, <2>2, <2>3
<1> QED BY <1>2, <1>3

\* A sentence is stored: as many of its chunks as there is room for.
LEMMA StoreStep ==
    ASSUME SentInv, Len(said) < MaxSentences, NEW sid \in Nat \ {0}, NEW text \in Texts,
           Store(Current, sid, text), UNCHANGED <<config, removals, merges>>
    PROVE  SentInv'
<1>1. PICK size, overlap : size = MaxTokens /\ overlap = Overlap
  OBVIOUS
<1>2. size \in Nat \ {0} /\ overlap \in 0 .. size - 1 /\ MaxTokens' = size /\ Overlap' = overlap
      /\ config \in Configs
  BY <1>1, SizesAre, SizesStay DEF SentInv
<1>3. SentOK(shards, said, size, overlap) /\ said \in Seq(SaidRec) /\ Len(said) \in Nat
  BY <1>1, LenProperties DEF SentInv, SentOK
<1>4. text \in Seq(Letters)
  BY TextsAssumption DEF Letters
<1>5. PICK ws : ws = Cuts(text, size, overlap)
  OBVIOUS
<1>6. PICK all : all = Chunks(text)
  OBVIOUS
<1>7. all \in Seq(ChunkRec) /\ Len(all) = Len(ws) /\ Len(all) \in Nat
      /\ \A c \in 1 .. Len(all) : all[c] = ChunkOf(text, ws[c])
  BY <1>1, <1>2, <1>4, <1>5, <1>6, ChunksAre, LenProperties
<1>8. PICK room \in Room(Current) :
        LET kept == SubSeq(all, 1, IF room < Len(all) THEN room ELSE Len(all))
        IN /\ shards' = SetCurrent(PutAll(Known(Current, sid), sid, kept))
           /\ said' = Append(said, [text |-> text, sid |-> sid, whole |-> room >= Len(all),
                                    removed |-> FALSE, merged |-> FALSE])
  BY <1>6 DEF Store
<1>9. PICK t : t = Known(Current, sid)
  OBVIOUS
<1>10. /\ ShardOK(Current, said, size, overlap) /\ ShardOK(t, said, size, overlap)
       /\ sid <= t.auto_sentence_id /\ t.entries = Current.entries
  <2>1. ShardOK(Current, said, size, overlap)
    BY <1>1, CurrentIs
  <2>2. sid \in Nat
    OBVIOUS
  <2> QED BY <1>9, <2>1, <2>2, KnownOK, SMTT(40)
<1>11. Current \in ShardRec /\ t \in ShardRec /\ FreeOK(t)
  BY <1>10 DEF ShardOK
<1>12. PICK n : n = IF room < Len(all) THEN room ELSE Len(all)
  OBVIOUS
<1>13. n \in Nat /\ n <= Len(all) /\ (room >= Len(all) => n = Len(all)) /\ room \in Nat
  BY <1>7, <1>11, <1>12, RoomIs
<1>14. PICK kept : kept = SubSeq(all, 1, n)
  OBVIOUS
<1>15. kept \in Seq(ChunkRec) /\ Len(kept) = n /\ \A c \in 1 .. n : kept[c] = all[c]
  <2>1. 1 \in 1 .. Len(all) + 1 /\ n \in 1 - 1 .. Len(all) /\ (n - 1) + 1 = n
    BY <1>7, <1>13
  <2>2. IsPart(SubSeq(all, 1, n), ChunkRec, all, 1, n)
    BY <1>7, <2>1, PartIs
  <2>3. \A c \in 1 .. n : (1 + c) - 1 = c
    OBVIOUS
  <2> QED BY <1>14, <2>1, <2>2, <2>3 DEF IsPart
<1>16. \A c \in 1 .. n : c \in 1 .. Len(all) /\ kept[c] = ChunkOf(text, ws[c]) /\ kept[c] \in ChunkRec
  <2>1. \A c \in 1 .. n : c \in 1 .. Len(all)
    BY <1>7, <1>13
  <2> QED BY <1>7, <1>15, <2>1, ElementOfSeq
<1>17. PICK d : d = [text |-> text, sid |-> sid, whole |-> room >= Len(all), removed |-> FALSE, merged |-> FALSE]
  OBVIOUS
<1>18. d \in SaidRec /\ d.text = text /\ d.sid = sid /\ ~d.merged /\ (d.whole => n = Len(ws))
  <2>1. (room >= Len(all)) \in BOOLEAN
    BY <1>7, <1>13
  <2>2. d \in SaidRec
    BY <1>17, <2>1 DEF SaidRec
  <2>3. d.text = text /\ d.sid = sid /\ ~d.merged /\ (d.whole => room >= Len(all))
    BY <1>17
  <2> QED BY <1>7, <1>13, <2>2, <2>3
<1>19. PICK new : new = Len(said) + 1
  OBVIOUS
<1>20. new \in Nat \ {0}
  BY <1>3, <1>19
<1>21. PICK es : es = [c \in 1 .. n |-> EntryFor(sid, kept[c])]
  OBVIOUS
<1>22. ASSUME NEW c \in 1 .. n
       PROVE  /\ es[c] \in EntryRec /\ es[c].of = new /\ es[c].sid = sid
              /\ es[c].start_tok = ws[c].first /\ es[c].end_tok = ws[c].last /\ es[c].text = Slice(text, ws[c])
  <2>1. es[c] = [sid |-> sid, of |-> new, start_tok |-> kept[c].start_tok, end_tok |-> kept[c].end_tok,
                 text |-> kept[c].text]
    BY <1>19, <1>21 DEF EntryFor
  <2>2. kept[c].start_tok \in Nat /\ kept[c].end_tok \in Nat /\ kept[c].text \in Seq(Letters)
    BY <1>16 DEF ChunkRec
  <2>3. kept[c].start_tok = ws[c].first /\ kept[c].end_tok = ws[c].last /\ kept[c].text = Slice(text, ws[c])
    <3>1. kept[c] = ChunkOf(text, ws[c])
      BY <1>16
    <3> QED BY <3>1 DEF ChunkOf
  <2> QED BY <1>20, <2>1, <2>2, <2>3 DEF EntryRec
<1>23. NewEntries(es, n, new)
  <2>1. ASSUME NEW c \in 1 .. n, NEW e \in 1 .. n, c # e PROVE es[c].start_tok # es[e].start_tok
    <3>1. c \in 1 .. Len(ws) /\ e \in 1 .. Len(ws)
      BY <1>7, <1>16
    <3>2. ws[c].first # ws[e].first
      BY <1>2, <1>4, <1>5, <2>1, <3>1, CutsApart
    <3> QED BY <1>22, <3>2
  <2> QED BY <1>22, <2>1 DEF NewEntries
<1>24. \A c \in 1 .. n : es[c].sid = d.sid /\ Cut(es[c], d, size, Cuts(d.text, size, overlap)[c])
  BY <1>5, <1>18, <1>22 DEF Cut, Regular
<1>25. \A l \in 1 .. Len(t.entries) : t.entries[l].of # new
  <2> TAKE l \in 1 .. Len(t.entries)
  <2>1. t.entries[l] = NoEntry \/ CutOut(t.entries[l], said, size, overlap)
    BY <1>10 DEF ShardOK
  <2>2. CASE t.entries[l] = NoEntry
    BY <1>20, <2>2 DEF NoEntry
  <2>3. CASE CutOut(t.entries[l], said, size, overlap)
    <3>1. t.entries[l].of \in 1 .. Len(said)
      BY <2>3 DEF CutOut
    <3> QED BY <1>3, <1>19, <3>1
  <2> QED BY <2>1, <2>2, <2>3
<1>26. PICK r : r = PutAll(t, sid, kept)
  OBVIOUS
<1>27. FilledBy(t, es, n, new, r)
  <2>1. DOMAIN kept = 1 .. n
    BY <1>15
  <2> QED BY <1>11, <1>13, <1>20, <1>21, <1>23, <1>25, <1>26, <2>1, PutAllFills
<1>28. ShardOK(r, Append(said, d), size, overlap)
  <2>1. n <= Len(Cuts(d.text, size, overlap))
    BY <1>5, <1>7, <1>13, <1>18
  <2> QED BY <1>2, <1>3, <1>10, <1>13, <1>18, <1>19, <1>23, <1>24, <1>27, <2>1, FilledOK
<1>29. shards' = SetCurrent(r) /\ said' = Append(said, d)
  BY <1>8, <1>9, <1>12, <1>14, <1>17, <1>26
<1>30. PICK h : Extends(shards, SetCurrent(r), h, t, r)
  <2>1. r \in ShardRec
    BY <1>27 DEF FilledBy
  <2> QED BY <1>10, <2>1, CurrentIs
<1>31. SentOK(shards', said', size, overlap)
  <2>1. d.whole => n = Len(Cuts(d.text, size, overlap))
    BY <1>5, <1>18
  <2>2. PICK ss2 : ss2 = SetCurrent(r)
    OBVIOUS
  <2>3. SentOK(ss2, Append(said, d), size, overlap)
    BY <1>2, <1>3, <1>13, <1>18, <1>19, <1>23, <1>24, <1>27, <1>28, <1>30, <2>1, <2>2, SaidKeeps
  <2> QED BY <1>29, <2>2, <2>3
<1>32. Len(said') \in 0 .. MaxSentences
  <2>1. Len(said') = Len(said) + 1 /\ MaxSentences \in Nat
    BY <1>3, <1>18, <1>29, AppendProperties, BoundsAssumption
  <2> QED BY <1>3, <2>1
<1> QED BY <1>2, <1>31, <1>32 DEF SentInv

\* The same sentences, perhaps with less of them left.
Alike(sd, sd2) ==
    /\ Len(sd2) = Len(sd)
    /\ \A k \in 1 .. Len(sd) :
          /\ sd2[k].text = sd[k].text /\ sd2[k].sid = sd[k].sid /\ sd2[k].merged = sd[k].merged
          /\ sd2[k].whole = sd[k].whole /\ (sd[k].removed => sd2[k].removed)

\* What is cut out of a sentence stays so when more of it is removed.
LEMMA AlikeCutOut ==
    ASSUME NEW sd, NEW sd2, Alike(sd, sd2), NEW size, NEW overlap, NEW e, CutOut(e, sd, size, overlap)
    PROVE  CutOut(e, sd2, size, overlap)
<1>1. e.of \in 1 .. Len(sd) /\ e.of \in 1 .. Len(sd2)
  BY DEF CutOut, Alike
<1>2. PICK a, b : a = sd[e.of] /\ b = sd2[e.of]
  OBVIOUS
<1>3. b.text = a.text /\ b.sid = a.sid /\ b.merged = a.merged
  BY <1>1, <1>2 DEF Alike
<1>4. e.sid = a.sid /\ \E j \in 1 .. Len(Cuts(a.text, size, overlap)) : Cut(e, a, size, Cuts(a.text, size, overlap)[j])
  BY <1>2 DEF CutOut
<1>5. \A w : Cut(e, a, size, w) => Cut(e, b, size, w)
  BY <1>3 DEF Cut, Regular
<1>6. e.sid = b.sid /\ \E j \in 1 .. Len(Cuts(b.text, size, overlap)) : Cut(e, b, size, Cuts(b.text, size, overlap)[j])
  BY <1>3, <1>4, <1>5
<1> QED BY <1>1, <1>2, <1>6 DEF CutOut

\* So do all entries of a shard.
LEMMA AlikeShard ==
    ASSUME NEW sd, NEW sd2, Alike(sd, sd2), NEW size, NEW overlap, NEW s, ShardOK(s, sd, size, overlap)
    PROVE  ShardOK(s, sd2, size, overlap)
<1>1. \A l \in 1 .. Len(s.entries) :
         /\ s.entries[l] = NoEntry \/ CutOut(s.entries[l], sd, size, overlap)
         /\ s.entries[l].sid <= s.auto_sentence_id
  BY DEF ShardOK
<1>2. \A l \in 1 .. Len(s.entries) : s.entries[l] = NoEntry \/ CutOut(s.entries[l], sd2, size, overlap)
  BY <1>1, AlikeCutOut
<1>3. Apart(s, sd, size)
  BY DEF ShardOK
<1>4. Len(sd2) = Len(sd) /\ \A k \in 1 .. Len(sd) : Regular(sd2[k], size) => Regular(sd[k], size)
  BY DEF Alike, Regular
<1>5. Apart(s, sd2, size)
  BY <1>3, <1>4 DEF Apart
<1> QED BY <1>1, <1>2, <1>5 DEF ShardOK

\* A shard without one of its entries.
Without(s, l, t) ==
    /\ t \in ShardRec /\ t.auto_sentence_id = s.auto_sentence_id
    /\ Len(t.entries) = Len(s.entries) /\ t.entries[l] = NoEntry
    /\ \A m \in 1 .. Len(s.entries) : m # l => t.entries[m] = s.entries[m]

\* A label without an entry is of no sentence.
LEMMA NoEntryIs == NoEntry \in EntryRec /\ NoEntry.of = 0 /\ NoEntry.sid = 0
<1>1. <<>> \in Seq(Letters)
  OBVIOUS
<1> QED BY <1>1 DEF NoEntry, EntryRec

\* Removing an entry makes its label free.
LEMMA WithoutIs ==
    ASSUME NEW s \in ShardRec, FreeOK(s), NEW l \in 1 .. Len(s.entries), s.entries[l] # NoEntry,
           NEW t, t = [s EXCEPT !.entries = [s.entries EXCEPT ![l] = NoEntry], !.free = Append(s.free, l)]
    PROVE  Without(s, l, t) /\ FreeOK(t)
<1>1. PICK q, f, n, m : q = s.entries /\ f = s.free /\ n = Len(q) /\ m = Len(f)
  OBVIOUS
<1>2. /\ q \in Seq(EntryRec) /\ n \in Nat /\ f \in Seq(Nat) /\ m \in Nat /\ l \in 1 .. n /\ l \in Nat
      /\ s.auto_sentence_id \in Nat /\ s.merged \in BOOLEAN
  BY <1>1, ShardIs
<1>3. PICK p, g : p = [q EXCEPT ![l] = NoEntry] /\ g = Append(f, l)
  OBVIOUS
<1>4. t = [s EXCEPT !.entries = p, !.free = g]
  BY <1>1, <1>3
<1>5. p \in Seq(EntryRec) /\ Len(p) = n /\ p[l] = NoEntry /\ \A k \in 1 .. n : k # l => p[k] = q[k]
  BY <1>1, <1>2, <1>3, ExceptSeq, NoEntryIs
<1>6. g \in Seq(Nat) /\ Len(g) = m + 1 /\ g[m + 1] = l /\ \A k \in 1 .. m : g[k] = f[k]
  BY <1>1, <1>2, <1>3, AppendProperties
<1>7. /\ t \in ShardRec /\ t.entries = p /\ t.free = g
      /\ t.auto_sentence_id = s.auto_sentence_id
  BY <1>2, <1>4, <1>5, <1>6 DEF ShardRec
<1>8. /\ {k \in 1 .. n : q[k] = NoEntry} = {f[k] : k \in 1 .. m}
      /\ \A j, k \in 1 .. m : f[j] = f[k] => j = k
  BY <1>1 DEF FreeOK
<1>9. q[l] # NoEntry /\ \A k \in 1 .. m : f[k] # l
  BY <1>1, <1>8
<1>10. m + 1 \in 1 .. m + 1 /\ (\A k \in 1 .. m + 1 : k = m + 1 \/ k \in 1 .. m) /\ \A k \in 1 .. m : k \in 1 .. m + 1
  BY <1>2, SMTT(40)
<1>11. {k \in 1 .. n : p[k] = NoEntry} = {g[k] : k \in 1 .. m + 1}
  <2>1. ASSUME NEW k \in 1 .. n, p[k] = NoEntry PROVE \E j \in 1 .. m + 1 : g[j] = k
    <3>1. CASE k = l
      BY <1>6, <1>10, <3>1
    <3>2. CASE k # l
      <4>1. PICK j \in 1 .. m : f[j] = k
        BY <1>5, <1>8, <2>1, <3>2
      <4> QED BY <1>6, <1>10, <4>1
    <3> QED BY <3>1, <3>2
  <2>2. ASSUME NEW j \in 1 .. m + 1 PROVE g[j] \in 1 .. n /\ p[g[j]] = NoEntry
    <3>1. CASE j = m + 1
      BY <1>2, <1>5, <1>6, <3>1
    <3>2. CASE j # m + 1
      <4>1. j \in 1 .. m /\ g[j] = f[j]
        BY <1>6, <1>10, <3>2
      <4>2. f[j] \in 1 .. n /\ q[f[j]] = NoEntry
        BY <1>8, <4>1
      <4> QED BY <1>5, <1>9, <4>1, <4>2
    <3> QED BY <3>1, <3>2
  <2> QED BY <2>1, <2>2
<1>12. ASSUME NEW j \in 1 .. m + 1, NEW k \in 1 .. m + 1, g[j] = g[k] PROVE j = k
  <2>1. CASE j = m + 1 /\ k = m + 1
    BY <2>1
  <2>2. CASE j \in 1 .. m /\ k \in 1 .. m
    BY <1>6, <1>8, <1>12, <2>2
  <2>3. CASE j = m + 1 /\ k \in 1 .. m
    BY <1>6, <1>9, <1>12, <2>3
  <2>4. CASE j \in 1 .. m /\ k = m + 1
    BY <1>6, <1>9, <1>12, <2>4
  <2> QED BY <1>10, <2>1, <2>2, <2>3, <2>4
<1>13. FreeOK(t)
  <2>1. {k \in 1 .. Len(t.entries) : t.entries[k] = NoEntry} = {t.free[k] : k \in 1 .. Len(t.free)}
    <3>1. {k \in 1 .. Len(t.entries) : t.entries[k] = NoEntry} = {k \in 1 .. n : p[k] = NoEntry}
      BY <1>5, <1>7
    <3>2. {t.free[k] : k \in 1 .. Len(t.free)} = {g[k] : k \in 1 .. m + 1}
      <4>1. t.free = g /\ Len(t.free) = m + 1
        BY <1>6, <1>7
      <4> QED BY <4>1
    <3> QED BY <1>11, <3>1, <3>2
  <2>2. \A j, k \in 1 .. Len(t.free) : t.free[j] = t.free[k] => j = k
    BY <1>6, <1>7, <1>12, SMTT(40)
  <2> QED BY <2>1, <2>2 DEF FreeOK
<1>14. Without(s, l, t)
  BY <1>1, <1>5, <1>7 DEF Without
<1> QED BY <1>13, <1>14

\* The entries that remain are as they were.
LEMMA WithoutOK ==
    ASSUME NEW sd, Len(sd) \in Nat, NEW size, NEW overlap, NEW s, ShardOK(s, sd, size, overlap),
           NEW l \in 1 .. Len(s.entries), NEW t, Without(s, l, t), FreeOK(t)
    PROVE  ShardOK(t, sd, size, overlap)
<1>1. s \in ShardRec /\ s.auto_sentence_id \in Nat
  BY ShardIs DEF ShardOK
<1>2. \A m \in 1 .. Len(s.entries) :
         /\ s.entries[m] = NoEntry \/ CutOut(s.entries[m], sd, size, overlap)
         /\ s.entries[m].sid <= s.auto_sentence_id
  BY DEF ShardOK
<1>3. \A m \in 1 .. Len(t.entries) : m \in 1 .. Len(s.entries) /\ (t.entries[m] = NoEntry \/ (m # l /\ t.entries[m] = s.entries[m]))
  <2> TAKE m \in 1 .. Len(t.entries)
  <2>1. m \in 1 .. Len(s.entries)
    BY DEF Without
  <2>2. CASE m = l
    <3>1. t.entries[l] = NoEntry
      BY DEF Without
    <3> QED BY <2>1, <2>2, <3>1
  <2>3. CASE m # l
    BY <2>1, <2>3 DEF Without
  <2> QED BY <2>2, <2>3
<1>4. \A m \in 1 .. Len(t.entries) :
         /\ t.entries[m] = NoEntry \/ CutOut(t.entries[m], sd, size, overlap)
         /\ t.entries[m].sid <= t.auto_sentence_id
  <2> TAKE m \in 1 .. Len(t.entries)
  <2>1. t.auto_sentence_id = s.auto_sentence_id
    BY DEF Without
  <2>2. CASE t.entries[m] = NoEntry
    BY <1>1, <2>1, <2>2, NoEntryIs
  <2>3. CASE m # l /\ t.entries[m] = s.entries[m]
    BY <1>2, <1>3, <2>1, <2>3
  <2> QED BY <1>3, <2>2, <2>3
<1>5. Apart(s, sd, size)
  BY DEF ShardOK
<1>6. \A m \in 1 .. Len(t.entries) : t.entries[m].of \in 1 .. Len(sd) => t.entries[m] = s.entries[m]
  BY <1>3, NoEntryIs
<1>7. Apart(t, sd, size)
  BY <1>3, <1>5, <1>6, ZenonT(40) DEF Apart
<1> QED BY <1>4, <1>7 DEF ShardOK, Without

\* A chunk less.
LEMMA RemovedKeeps ==
    ASSUME NEW ss, NEW sd, NEW size, NEW overlap, SentOK(ss, sd, size, overlap),
           NEW sd2 \in Seq(SaidRec), Alike(sd, sd2), NEW i \in 1 .. Len(ss), NEW l \in 1 .. Len(ss[i].entries),
           ss[i].entries[l] # NoEntry, sd2[ss[i].entries[l].of].removed,
           NEW t, Without(ss[i], l, t), FreeOK(t), NEW ss2, ss2 = [ss EXCEPT ![i] = t]
    PROVE  SentOK(ss2, sd2, size, overlap)
<1>1. PICK n, k : n = Len(ss) /\ k = ss[i].entries[l].of
  OBVIOUS
<1>2. ss \in Seq(ShardRec) /\ n # 0 /\ n \in Nat /\ Len(sd) \in Nat /\ sd \in Seq(SaidRec)
      /\ i \in 1 .. n /\ t \in ShardRec
  BY <1>1, LenProperties DEF SentOK, Without
<1>3. ss2 \in Seq(ShardRec) /\ Len(ss2) = n /\ ss2[i] = t /\ \A j \in 1 .. n : j # i => ss2[j] = ss[j]
  BY <1>1, <1>2, ExceptSeq
<1>4. k \in 1 .. Len(sd) /\ k # 0 /\ sd2[k].removed
  BY <1>1, <1>2, EntriesOf
<1>5. ASSUME NEW j \in 1 .. n PROVE ShardOK(ss2[j], sd2, size, overlap)
  <2>1. ShardOK(ss[j], sd, size, overlap)
    BY <1>1 DEF SentOK
  <2>2. CASE j = i
    <3>1. ShardOK(t, sd, size, overlap)
      BY <1>2, <2>1, <2>2, WithoutOK
    <3> QED BY <1>3, <2>2, <3>1, AlikeShard
  <2>3. CASE j # i
    BY <1>3, <2>1, <2>3, AlikeShard
  <2> QED BY <2>2, <2>3
<1>6. \A m \in 1 .. Len(t.entries) : m \in 1 .. Len(ss[i].entries) /\ (t.entries[m] = NoEntry \/ t.entries[m] = ss[i].entries[m])
  <2> TAKE m \in 1 .. Len(t.entries)
  <2>1. m \in 1 .. Len(ss[i].entries)
    BY DEF Without
  <2>2. CASE m = l
    <3>1. t.entries[l] = NoEntry
      BY DEF Without
    <3> QED BY <2>1, <2>2, <3>1
  <2>3. CASE m # l
    BY <2>1, <2>3 DEF Without
  <2> QED BY <2>2, <2>3
<1>7. ASSUME NEW j \in 1 .. n, NEW m \in 1 .. Len(ss2[j].entries), ss2[j].entries[m].of # 0
      PROVE  m \in 1 .. Len(ss[j].entries) /\ ss2[j].entries[m] = ss[j].entries[m]
  <2>1. CASE j = i
    BY <1>3, <1>6, <1>7, <2>1, NoEntryIs
  <2>2. CASE j # i
    BY <1>3, <2>2
  <2> QED BY <2>1, <2>2
<1>8. OneHome(ss)
  BY DEF SentOK
<1>9. OneHome(ss2)
  <2> SUFFICES ASSUME NEW a \in 1 .. n, NEW b \in 1 .. n,
                      NEW x \in 1 .. Len(ss2[a].entries), NEW y \in 1 .. Len(ss2[b].entries),
                      ss2[a].entries[x].of = ss2[b].entries[y].of, ss2[a].entries[x].of # 0
               PROVE  a = b
    BY <1>3, SMTT(40) DEF OneHome
  <2>1. /\ x \in 1 .. Len(ss[a].entries) /\ ss2[a].entries[x] = ss[a].entries[x]
        /\ y \in 1 .. Len(ss[b].entries) /\ ss2[b].entries[y] = ss[b].entries[y]
    BY <1>7
  <2>2. /\ a \in 1 .. Len(ss) /\ b \in 1 .. Len(ss)
        /\ ss[a].entries[x].of = ss[b].entries[y].of /\ ss[a].entries[x].of # 0
    BY <1>1, <2>1
  <2>3. x \in 1 .. Len(ss[a].entries) /\ y \in 1 .. Len(ss[b].entries)
    BY <2>1
  <2> QED BY <1>8, <2>2, <2>3, Zenon DEF OneHome
<1>10. AllThere(ss, sd, size, overlap)
  BY DEF SentOK
<1>11. AllThere(ss2, sd2, size, overlap)
  <2> SUFFICES ASSUME NEW h \in 1 .. Len(sd), sd2[h].whole, ~sd2[h].removed,
                      NEW j \in 1 .. Len(Cuts(sd2[h].text, size, overlap))
               PROVE  There(ss2, sd2, h, size, Cuts(sd2[h].text, size, overlap)[j])
    BY DEF AllThere, Alike
  <2>1. sd2[h].text = sd[h].text /\ sd2[h].merged = sd[h].merged /\ sd[h].whole /\ ~sd[h].removed /\ h # k
    BY <1>4 DEF Alike
  <2>2. PICK w : w = Cuts(sd2[h].text, size, overlap)[j]
    OBVIOUS
  <2>3. There(ss, sd, h, size, w)
    BY <1>10, <2>1, <2>2 DEF AllThere
  <2>4. PICK a \in 1 .. n : \E m \in 1 .. Len(ss[a].entries) :
           ss[a].entries[m].of = h /\ Cut(ss[a].entries[m], sd[h], size, w)
    BY <1>1, <2>3 DEF There
  <2>5. PICK m \in 1 .. Len(ss[a].entries) : ss[a].entries[m].of = h /\ Cut(ss[a].entries[m], sd[h], size, w)
    BY <2>4
  <2>6. m \in 1 .. Len(ss2[a].entries) /\ ss2[a].entries[m] = ss[a].entries[m]
    <3>1. CASE a = i
      <4>1. m # l
        BY <1>1, <2>1, <2>5, <3>1
      <4> QED BY <1>3, <3>1, <4>1, SMTT(40) DEF Without
    <3>2. CASE a # i
      BY <1>3, <3>2
    <3> QED BY <3>1, <3>2
  <2>7. Cut(ss2[a].entries[m], sd2[h], size, w)
    BY <2>1, <2>5, <2>6 DEF Cut, Regular
  <2> QED BY <1>3, <2>2, <2>5, <2>6, <2>7 DEF There
<1> QED BY <1>2, <1>3, <1>5, <1>9, <1>11 DEF SentOK

\* Removing a chunk keeps the invariant: its sentence is no longer whole.
LEMMA RemoveStep ==
    ASSUME SentInv, NEW i \in DOMAIN shards, NEW l \in DOMAIN shards[i].entries, RemoveChunk(i, l)
    PROVE  SentInv'
<1>1. PICK size, overlap : size = MaxTokens /\ overlap = Overlap
  OBVIOUS
<1>2. MaxTokens' = size /\ Overlap' = overlap /\ config' = config /\ merges' = merges
      /\ removals' = removals + 1 /\ removals < MaxRemoved
  BY <1>1, SizesStay DEF RemoveChunk
<1>3. SentOK(shards, said, size, overlap) /\ said \in Seq(SaidRec) /\ Len(said) \in Nat
      /\ shards \in Seq(ShardRec)
  BY <1>1, LenProperties DEF SentInv, SentOK
<1>4. i \in 1 .. Len(shards) /\ ShardOK(shards[i], said, size, overlap)
  <2>1. i \in 1 .. Len(shards)
    BY <1>3
  <2> QED BY <1>3, <2>1 DEF SentOK
<1>5. shards[i] \in ShardRec /\ FreeOK(shards[i]) /\ l \in 1 .. Len(shards[i].entries)
  BY <1>4, ShardIs DEF ShardOK
<1>6. shards[i].entries[l] # NoEntry
  BY DEF RemoveChunk
<1>7. PICK t : t = [shards[i] EXCEPT !.entries = [shards[i].entries EXCEPT ![l] = NoEntry],
                                     !.free = Append(shards[i].free, l)]
  OBVIOUS
<1>8. shards' = [shards EXCEPT ![i] = t]
  <2>1. shards' = [shards EXCEPT ![i].entries[l] = NoEntry, ![i].free = Append(@, l)]
    BY DEF RemoveChunk
  <2> QED BY <1>3, <1>4, <1>5, <1>7, <2>1 DEF ShardRec
<1>9. Without(shards[i], l, t) /\ FreeOK(t)
  BY <1>5, <1>6, <1>7, WithoutIs
<1>10. PICK k : k = shards[i].entries[l].of
  OBVIOUS
<1>11. k \in 1 .. Len(said)
  BY <1>3, <1>4, <1>5, <1>6, <1>10, EntriesOf
<1>12. PICK d : d = [said[k] EXCEPT !.removed = TRUE]
  OBVIOUS
<1>13. said[k] \in SaidRec
  BY <1>3, <1>11, ElementOfSeq
<1>14. /\ d \in SaidRec /\ d.removed /\ d.text = said[k].text /\ d.sid = said[k].sid
       /\ d.merged = said[k].merged /\ d.whole = said[k].whole
  BY <1>12, <1>13 DEF SaidRec
<1>15. said' = [said EXCEPT ![k] = d]
  BY <1>10, <1>12 DEF RemoveChunk
<1>16. said' \in Seq(SaidRec) /\ Len(said') = Len(said)
       /\ \A j \in 1 .. Len(said) : said'[j] = IF j = k THEN d ELSE said[j]
  BY <1>3, <1>11, <1>14, <1>15, ExceptSeq
<1>17. Alike(said, said') /\ said'[k].removed
  BY <1>11, <1>14, <1>16 DEF Alike
<1>18. SentOK(shards', said', size, overlap)
  BY <1>3, <1>4, <1>5, <1>6, <1>8, <1>9, <1>10, <1>16, <1>17, RemovedKeeps
<1>19. removals' \in 0 .. MaxRemoved /\ Len(said') \in 0 .. MaxSentences
  BY <1>2, <1>16, BoundsAssumption DEF SentInv
<1> QED BY <1>2, <1>18, <1>19 DEF SentInv

\* The largest id of a shard.
LEMMA LargestIs ==
    ASSUME NEW s \in ShardRec
    PROVE  Largest(s) \in Nat /\ \A l \in 1 .. Len(s.entries) : s.entries[l].sid <= Largest(s)
<1>1. PICK q, n : q = s.entries /\ n = Len(q)
  OBVIOUS
<1>2. n \in Nat /\ DOMAIN q = 1 .. n /\ \A l \in 1 .. n : q[l].sid \in Nat
  <2>1. \A l \in 1 .. n : q[l] \in EntryRec
    BY <1>1, ShardIs
  <2> QED BY <1>1, <2>1, ShardIs DEF EntryRec
<1> DEFINE Tops(m, k) == (m = 0 \/ \E l \in 1 .. k : q[l].sid = m) /\ m \in Nat /\ \A l \in 1 .. k : q[l].sid <= m
           P == {k \in Nat : k <= n => \E m : Tops(m, k)}
<1>3. 0 \in P
  <2>1. Tops(0, 0)
    OBVIOUS
  <2> HIDE DEF Tops
  <2> QED BY <2>1
<1>4. ASSUME NEW k \in Nat, k \in P PROVE k + 1 \in P
  <2> SUFFICES ASSUME k + 1 <= n PROVE \E m : Tops(m, k + 1)
    <3>1. k + 1 \in Nat
      OBVIOUS
    <3> HIDE DEF Tops
    <3> QED BY <3>1, Zenon
  <2>1. PICK m : Tops(m, k)
    <3>1. k <= n
      BY <1>2
    <3> HIDE DEF Tops
    <3> QED BY <1>4, <3>1
  <2>2. k + 1 \in 1 .. n /\ (\A l \in 1 .. k + 1 : l = k + 1 \/ l \in 1 .. k) /\ \A l \in 1 .. k : l \in 1 .. k + 1 /\ l \in 1 .. n
    BY <1>2
  <2>3. PICK x : x = q[k + 1].sid
    OBVIOUS
  <2>4. x \in Nat /\ m \in Nat
    BY <1>2, <2>1, <2>2, <2>3
  <2>5. CASE m <= x
    <3>1. ASSUME NEW l \in 1 .. k + 1 PROVE q[l].sid <= x
      <4>1. CASE l = k + 1
        BY <2>3, <2>4, <4>1
      <4>2. CASE l \in 1 .. k
        <5>1. q[l].sid <= m /\ q[l].sid \in Nat
          BY <1>2, <2>1, <2>2, <4>2
        <5> QED BY <2>4, <2>5, <5>1
      <4> QED BY <2>2, <4>1, <4>2
    <3>2. k + 1 \in 1 .. k + 1
      OBVIOUS
    <3>3. Tops(x, k + 1)
      BY <2>3, <2>4, <3>1, <3>2
    <3> HIDE DEF Tops
    <3> QED BY <3>3
  <2>6. CASE ~(m <= x)
    <3>1. ASSUME NEW l \in 1 .. k + 1 PROVE q[l].sid <= m
      <4>1. CASE l = k + 1
        BY <2>3, <2>4, <2>6, <4>1
      <4>2. CASE l \in 1 .. k
        BY <2>1, <4>2
      <4> QED BY <2>2, <4>1, <4>2
    <3>2. m = 0 \/ \E l \in 1 .. k + 1 : q[l].sid = m
      BY <2>1, <2>2
    <3>3. Tops(m, k + 1)
      BY <2>4, <3>1, <3>2
    <3> HIDE DEF Tops
    <3> QED BY <3>3
  <2> QED BY <2>5, <2>6
<1>5. Nat \subseteq P
  <2> HIDE DEF P
  <2> QED BY <1>3, <1>4, Induction
<1>6. PICK m : Tops(m, n)
  <2>1. n \in P /\ n <= n
    <3> HIDE DEF P
    <3> QED BY <1>2, <1>5
  <2> HIDE DEF Tops
  <2> QED BY <2>1
<1>7. PICK sids : sids = {s.entries[l].sid : l \in DOMAIN s.entries} \cup {0}
  OBVIOUS
<1>8. \A x : x \in sids <=> x = 0 \/ \E l \in 1 .. n : q[l].sid = x
  BY <1>1, <1>2, <1>7
<1>9. m \in sids /\ \A x \in sids : x <= m
  BY <1>6, <1>8
<1>10. Largest(s) = CHOOSE z \in sids : \A x \in sids : x <= z
  BY <1>7 DEF Largest
<1>11. Largest(s) \in sids /\ \A x \in sids : x <= Largest(s)
  BY <1>9, <1>10
<1>12. Largest(s) \in Nat
  BY <1>2, <1>8, <1>11
<1>13. \A l \in 1 .. n : q[l].sid <= Largest(s)
  BY <1>8, <1>11
<1> QED BY <1>1, <1>12, <1>13

\* The tokens of a text are counted.
LEMMA TokenCount == ASSUME NEW text, text \in Seq(Letters) PROVE Len(Tokens(text)) \in Nat
<1>1. CutsOK(text, 1, 0)
  <2>1. 1 \in Nat \ {0} /\ 0 \in 0 .. 1 - 1
    OBVIOUS
  <2> QED BY <2>1, CutsAre
<1> QED BY <1>1 DEF CutsOK

\* What a merge appends for an entry has its sentence, id and text, from token 0.
LEMMA AgainIs ==
    ASSUME NEW e \in EntryRec
    PROVE  /\ Again(e) \in EntryRec /\ Again(e).of = e.of /\ Again(e).sid = e.sid /\ Again(e).text = e.text
           /\ Again(e).start_tok = 0 /\ Again(e).end_tok = Len(Tokens(e.text))
<1>1. PICK n : n = Len(Tokens(e.text))
  OBVIOUS
<1>2. n \in Nat
  BY <1>1, TokenCount DEF EntryRec
<1>3. Again(e) = [e EXCEPT !.start_tok = 0, !.end_tok = n]
  BY <1>1 DEF Again
<1>4. e.sid \in Nat /\ e.of \in Nat /\ e.text \in Seq(Letters)
  BY DEF EntryRec
<1>5. Again(e) = [sid |-> e.sid, of |-> e.of, start_tok |-> 0, end_tok |-> n, text |-> e.text]
  BY <1>3 DEF EntryRec
<1>6. Again(e) \in EntryRec
  BY <1>2, <1>4, <1>5 DEF EntryRec
<1>7. /\ Again(e).of = e.of /\ Again(e).sid = e.sid /\ Again(e).text = e.text
      /\ Again(e).start_tok = 0 /\ Again(e).end_tok = n
  BY <1>5
<1> QED BY <1>1, <1>6, <1>7

\* Appended again, an entry is what its window makes of the sentence when that has
\* been merged.
LEMMA AgainCut ==
    ASSUME NEW size \in Nat \ {0}, NEW overlap \in 0 .. size - 1, NEW d \in SaidRec,
           NEW d2, d2 = [d EXCEPT !.merged = TRUE], NEW e \in EntryRec,
           NEW j \in 1 .. Len(Cuts(d.text, size, overlap)), Cut(e, d, size, Cuts(d.text, size, overlap)[j])
    PROVE  Cut(Again(e), d2, size, Cuts(d.text, size, overlap)[j])
<1>1. PICK text, ws, w, n : text = d.text /\ ws = Cuts(d.text, size, overlap) /\ w = ws[j] /\ n = Len(Tokens(text))
  OBVIOUS
<1>2. text \in Seq(Letters) /\ d2.text = text /\ d2.merged
  BY <1>1, TextsAssumption DEF SaidRec, Letters
<1>3. /\ n \in Nat /\ Len(ws) \in Nat /\ (n # 0 => Chain(ws, 0, n, size, overlap))
      /\ Window(w, n)
  BY <1>1, <1>2, CutsAre DEF CutsOK
<1>4. w.first \in Nat /\ w.last \in Nat /\ w.first < w.last /\ n # 0
  BY <1>3 DEF Window
<1>5. e.text = Slice(text, w)
  BY <1>1 DEF Cut
<1>6. Len(Tokens(e.text)) = w.last - w.first
  <2>1. PICK m : m = w.last - w.first
    OBVIOUS
  <2>2. m \in Nat
    BY <1>4, <2>1
  <2>3. Tokens(Slice(text, w)) = [i \in 1 .. m |-> (Tokens(text)[w.first + i] - Tokens(text)[w.first + 1]) + 1]
    <3>1. Window(w, Len(Tokens(text))) /\ text \in Seq(Nat \union {Tab})
      BY <1>1, <1>2, <1>3 DEF Letters
    <3>2. Tokens(Slice(text, w)) =
             [i \in 1 .. w.last - w.first |-> (Tokens(text)[w.first + i] - Tokens(text)[w.first + 1]) + 1]
      BY <3>1, SliceTokens, ZenonT(40)
    <3> QED BY <2>1, <3>2
  <2> QED BY <1>5, <2>1, <2>2, <2>3
<1>7. Regular(d2, size) <=> n <= size
  BY <1>1, <1>2 DEF Regular
<1>8. CASE n <= size
  <2>1. Len(ws) = 1
    BY <1>3, <1>4, <1>8, ChainOfOne
  <2>2. w.first = 0
    <3>1. ws[1].first = 0
      BY <1>3, <1>4, ChainIs
    <3>2. j = 1
      BY <1>1, <2>1
    <3> QED BY <1>1, <3>1, <3>2
  <2> QED BY <1>1, <1>2, <1>4, <1>5, <1>6, <1>7, <1>8, <2>2, AgainIs, SMTT(40) DEF Cut
<1>9. CASE ~(n <= size)
  BY <1>1, <1>2, <1>5, <1>6, <1>7, <1>9, AgainIs DEF Cut
<1> QED BY <1>8, <1>9

\* Two entries of a merged sentence of one window are one.
LEMMA OneWindowOnce ==
    ASSUME NEW sd \in Seq(SaidRec), NEW size \in Nat \ {0}, NEW overlap \in 0 .. size - 1,
           NEW s, ShardOK(s, sd, size, overlap), NEW l \in 1 .. Len(s.entries), NEW m \in 1 .. Len(s.entries),
           s.entries[l] # NoEntry, s.entries[m] # NoEntry, s.entries[l].of = s.entries[m].of,
           Len(Tokens(sd[s.entries[l].of].text)) <= size
    PROVE  l = m
<1>1. PICK e, f, d : e = s.entries[l] /\ f = s.entries[m] /\ d = sd[e.of]
  OBVIOUS
<1>2. CutOut(e, sd, size, overlap) /\ CutOut(f, sd, size, overlap) /\ f.of = e.of
  BY <1>1 DEF ShardOK
<1>3. PICK ws, n : ws = Cuts(d.text, size, overlap) /\ n = Len(Tokens(d.text))
  OBVIOUS
<1>4. e.of \in 1 .. Len(sd) /\ d \in SaidRec
  BY <1>1, <1>2, ElementOfSeq, ZenonT(40) DEF CutOut
<1>5. (\E j \in 1 .. Len(ws) : Cut(e, d, size, ws[j])) /\ \E j \in 1 .. Len(ws) : Cut(f, d, size, ws[j])
  BY <1>1, <1>2, <1>3 DEF CutOut
<1>6. /\ n \in Nat /\ Len(ws) \in Nat /\ (n # 0 => Chain(ws, 0, n, size, overlap))
      /\ \A i \in 1 .. Len(ws) : Window(ws[i], n)
  <2>1. d.text \in Seq(Letters)
    BY <1>4, TextsAssumption DEF SaidRec, Letters
  <2> QED BY <1>3, <2>1, CutsAre DEF CutsOK
<1>7. n # 0 /\ n <= size
  <2>1. PICK j \in 1 .. Len(ws) : Cut(e, d, size, ws[j])
    BY <1>5
  <2>2. Window(ws[j], n)
    BY <1>6
  <2>3. n # 0
    BY <1>6, <2>2 DEF Window
  <2>4. n <= size
    BY <1>1, <1>3
  <2> QED BY <2>3, <2>4
<1>8. Len(ws) = 1
  BY <1>6, <1>7, ChainOfOne
<1>9. Cut(e, d, size, ws[1]) /\ Cut(f, d, size, ws[1])
  BY <1>5, <1>8
<1>10. e.start_tok = f.start_tok
  BY <1>9 DEF Cut
<1>11. Regular(d, size)
  BY <1>3, <1>7 DEF Regular
<1> QED BY <1>1, <1>2, <1>4, <1>10, <1>11 DEF ShardOK, Apart

\* live has the places of all that have an entry, each once.
LiveOK(live, all) ==
    /\ Len(live) \in Nat /\ DOMAIN live = 1 .. Len(live)
    /\ \A p \in 1 .. Len(live) : live[p] \in 1 .. Len(all) /\ all[live[p]] # NoEntry
    /\ \A p, q \in 1 .. Len(live) : live[p] = live[q] => p = q
    /\ \A x \in 1 .. Len(all) : all[x] # NoEntry => \E p \in 1 .. Len(live) : live[p] = x

\* A list of the places that have an entry.
LEMMA LivesAre ==
    ASSUME NEW all \in Seq(EntryRec), NEW n \in Nat, n = Len(all), DOMAIN all = 1 .. n, NEW live, NEW A, Lists(live, n, A),
           \A x \in 1 .. n : x \in A <=> all[x] # NoEntry
    PROVE  LiveOK(live, all)
<1>5. /\ Len(live) \in Nat /\ \A j \in 1 .. Len(live) : live[j] \in 1 .. n /\ live[j] \in A
      /\ \A a \in A : \E j \in 1 .. Len(live) : live[j] = a
      /\ \A i, j \in 1 .. Len(live) : i < j => live[i] < live[j]
  BY ListsAre
<1>6. ASSUME NEW p \in 1 .. Len(live), NEW q \in 1 .. Len(live), live[p] = live[q] PROVE p = q
  <2>0. PICK y : y = live[p]
    OBVIOUS
  <2>1. y \in 1 .. n /\ ~(y < y)
    BY <1>5, <2>0
  <2>2. ~(p < q) /\ ~(q < p)
    BY <1>5, <1>6, <2>0, <2>1
  <2> QED BY <1>5, <2>2
<1>7. DOMAIN live = 1 .. Len(live)
  <2>1. live \in Seq(1 .. n)
    BY DEF Lists
  <2> QED BY <2>1, LenProperties
<1> QED BY <1>5, <1>6, <1>7 DEF LiveOK

\* A merge takes the entries there are, one after the other.
LEMMA LiveAre ==
    ASSUME NEW all \in Seq(EntryRec), NEW live, live = Where(all, ToSet(all) \ {NoEntry})
    PROVE  LiveOK(live, all)
<1>1. PICK n : n = Len(all) /\ n \in Nat
  BY LenProperties
<1>2. DOMAIN all = 1 .. n
  BY <1>1, LenProperties
<1>3. PICK S : S = ToSet(all) \ {NoEntry}
  OBVIOUS
<1>4. Lists(Where(all, S), n, {x \in 1 .. n : all[x] \in S})
  BY <1>1, WhereLists, Zenon
<1>5. PICK A : A = {x \in 1 .. n : all[x] \in S}
  OBVIOUS
<1>6. \A x \in 1 .. n : x \in A <=> all[x] # NoEntry
  BY <1>2, <1>3, <1>5 DEF ToSet
<1>7. Lists(live, n, A)
  BY <1>3, <1>4, <1>5
<1>8. n \in Nat /\ n = Len(all) /\ all \in Seq(EntryRec)
  BY <1>1
<1> QED BY <1>2, <1>6, <1>7, <1>8, LivesAre, Zenon

\* u is q, which has n members, and then r, which has m.
IsConcat(u, S, q, n, r, m) ==
    /\ u \in Seq(S) /\ Len(u) = n + m
    /\ \A l \in 1 .. n : u[l] = q[l]
    /\ \A l \in 1 .. m : u[n + l] = r[l]

\* What two sequences are together.
LEMMA ConcatIs ==
    ASSUME NEW S, NEW q \in Seq(S), NEW r \in Seq(S)
    PROVE  IsConcat(q \o r, S, q, Len(q), r, Len(r))
  BY ConcatProperties DEF IsConcat

\* Place x of the entries of shards a and b is label l of shard i.
At(ss, a, b, x, i, l) ==
    /\ i \in {a, b} /\ l \in 1 .. Len(ss[i].entries)
    /\ i = a => x = l
    /\ i = b => x = Len(ss[a].entries) + l

\* all has the entries of a and b.
HasBoth(all, ss, a, b) ==
    /\ all \in Seq(EntryRec)
    /\ \A x \in 1 .. Len(all) : \E i, l : At(ss, a, b, x, i, l)
    /\ \A i \in {a, b} : \A l \in 1 .. Len(ss[i].entries) :
          \E x \in 1 .. Len(all) : At(ss, a, b, x, i, l)
    /\ \A x \in 1 .. Len(all) : \A i, l : At(ss, a, b, x, i, l) => all[x] = ss[i].entries[l]

\* Every entry of two shards stands at a place when one follows the other.
LEMMA AtIs ==
    ASSUME NEW ss, NEW a, NEW b, a # b, ss[a] \in ShardRec, ss[b] \in ShardRec,
           NEW all, all = ss[a].entries \o ss[b].entries
    PROVE  HasBoth(all, ss, a, b)
<1>1. PICK q, r, n, m : q = ss[a].entries /\ r = ss[b].entries /\ n = Len(q) /\ m = Len(r)
  OBVIOUS
<1>2. q \in Seq(EntryRec) /\ r \in Seq(EntryRec) /\ n \in Nat /\ m \in Nat
  BY <1>1, ShardIs
<1>3. /\ all \in Seq(EntryRec) /\ Len(all) = n + m
      /\ \A l \in 1 .. n : all[l] = q[l]
      /\ \A l \in 1 .. m : all[n + l] = r[l]
  <2>1. IsConcat(q \o r, EntryRec, q, Len(q), r, Len(r))
    BY <1>2, ConcatIs, Zenon
  <2>2. all = q \o r
    BY <1>1
  <2>3. IsConcat(all, EntryRec, q, n, r, m)
    BY <1>1, <2>1, <2>2, Zenon
  <2> QED BY <2>3 DEF IsConcat
<1>4. ASSUME NEW x \in 1 .. Len(all) PROVE \E i, l : At(ss, a, b, x, i, l)
  <2>1. CASE x <= n
    <3>1. x \in 1 .. n
      BY <1>2, <1>3, <2>1
    <3>2. At(ss, a, b, x, a, x)
      BY <1>1, <3>1 DEF At
    <3> QED BY <3>2
  <2>2. CASE ~(x <= n)
    <3>1. PICK l : l = x - n
      OBVIOUS
    <3>2. l \in 1 .. m /\ x = n + l
      BY <1>2, <1>3, <2>2, <3>1
    <3>3. At(ss, a, b, x, b, l)
      BY <1>1, <3>2 DEF At
    <3> QED BY <3>3
  <2> QED BY <2>1, <2>2
<1>5. ASSUME NEW i \in {a, b}, NEW l \in 1 .. Len(ss[i].entries)
      PROVE  \E x \in 1 .. Len(all) : At(ss, a, b, x, i, l)
  <2>1. CASE i = a
    <3>1. l \in 1 .. n /\ l \in 1 .. Len(all)
      <4>1. l \in 1 .. n
        BY <1>1, <2>1
      <4> QED BY <1>2, <1>3, <4>1
    <3>2. At(ss, a, b, l, i, l)
      BY <2>1 DEF At
    <3> QED BY <3>1, <3>2
  <2>2. CASE i = b
    <3>1. l \in 1 .. m /\ n + l \in 1 .. Len(all)
      <4>1. l \in 1 .. m
        BY <1>1, <2>2
      <4> QED BY <1>2, <1>3, <4>1
    <3>2. At(ss, a, b, n + l, i, l)
      BY <1>1, <2>2 DEF At
    <3> QED BY <3>1, <3>2
  <2> QED BY <2>1, <2>2
<1>6. ASSUME NEW x \in 1 .. Len(all), NEW i, NEW l, At(ss, a, b, x, i, l) PROVE all[x] = ss[i].entries[l]
  <2>1. CASE i = a
    BY <1>1, <1>3, <1>6, <2>1 DEF At
  <2>2. CASE i = b
    BY <1>1, <1>3, <1>6, <2>2 DEF At
  <2> QED BY <1>6, <2>1, <2>2 DEF At
<1> QED BY <1>3, <1>4, <1>5, <1>6 DEF HasBoth

\* es has what shards a and b have appended again: entry p is label g[p] of shard f[p].
MergeOf(ss, a, b, es, f, g) ==
    /\ es \in Seq(EntryRec)
    /\ \A p \in 1 .. Len(es) :
          /\ f[p] \in {a, b} /\ g[p] \in 1 .. Len(ss[f[p]].entries)
          /\ ss[f[p]].entries[g[p]] # NoEntry /\ es[p] = Again(ss[f[p]].entries[g[p]])
    /\ \A p, q \in 1 .. Len(es) : f[p] = f[q] /\ g[p] = g[q] => p = q
    /\ \A i \in {a, b} : \A l \in 1 .. Len(ss[i].entries) : ss[i].entries[l] # NoEntry =>
          \E p \in 1 .. Len(es) : es[p] = Again(ss[i].entries[l])

\* An entry stands at one place.
LEMMA AtOnce ==
    ASSUME NEW ss, NEW a, NEW b, NEW x, NEW y, NEW i, NEW l, At(ss, a, b, x, i, l), At(ss, a, b, y, i, l)
    PROVE  x = y
  BY DEF At

\* The entries of a merged shard are those the two shards have.
LEMMA MergeIs ==
    ASSUME NEW ss, NEW a, NEW b, a # b, ss[a] \in ShardRec, ss[b] \in ShardRec,
           NEW all, HasBoth(all, ss, a, b), NEW live, LiveOK(live, all)
    PROVE  \E f, g : MergeOf(ss, a, b, [p \in 1 .. Len(live) |-> Again(all[live[p]])], f, g)
<1>1. /\ all \in Seq(EntryRec)
      /\ \A x \in 1 .. Len(all) : \E i, l : At(ss, a, b, x, i, l)
      /\ \A i \in {a, b} : \A l \in 1 .. Len(ss[i].entries) :
            \E x \in 1 .. Len(all) : At(ss, a, b, x, i, l)
      /\ \A x \in 1 .. Len(all) : \A i, l : At(ss, a, b, x, i, l) => all[x] = ss[i].entries[l]
  BY DEF HasBoth
<1>2. PICK m : m = Len(live)
  OBVIOUS
<1>3. /\ m \in Nat
      /\ \A p \in 1 .. m : live[p] \in 1 .. Len(all) /\ all[live[p]] # NoEntry
      /\ \A p, q \in 1 .. m : live[p] = live[q] => p = q
      /\ \A x \in 1 .. Len(all) : all[x] # NoEntry => \E p \in 1 .. m : live[p] = x
  BY <1>2 DEF LiveOK
<1> DEFINE es == [p \in 1 .. m |-> Again(all[live[p]])]
<1>4. \A x \in 1 .. Len(all) : all[x] \in EntryRec
  BY <1>1, ElementOfSeq
<1>5. \A p \in 1 .. m : es[p] = Again(all[live[p]]) /\ es[p] \in EntryRec
  <2>1. ASSUME NEW p \in 1 .. m PROVE es[p] = Again(all[live[p]]) /\ es[p] \in EntryRec
    <3>1. all[live[p]] \in EntryRec
      BY <1>3, <1>4
    <3>2. es[p] = Again(all[live[p]])
      OBVIOUS
    <3> QED BY <3>1, <3>2, AgainIs
  <2> QED BY <2>1
<1>6. es \in Seq(EntryRec) /\ Len(es) = m
  <2>1. es \in [1 .. m -> EntryRec]
    <3> QED BY <1>5
  <2> HIDE DEF es
  <2>2. DOMAIN es = 1 .. m
    BY <2>1
  <2>3. es \in Seq(EntryRec)
    BY <1>3, <2>1
  <2> QED BY <1>3, <2>2, <2>3, LenProperties
<1> DEFINE f == [p \in 1 .. m |-> CHOOSE i : \E l : At(ss, a, b, live[p], i, l)]
           g == [p \in 1 .. m |-> CHOOSE l : At(ss, a, b, live[p], f[p], l)]
<1>7. \A p \in 1 .. m : At(ss, a, b, live[p], f[p], g[p])
  <2>1. ASSUME NEW p \in 1 .. m PROVE At(ss, a, b, live[p], f[p], g[p])
    <3>1. \E i : \E l : At(ss, a, b, live[p], i, l)
      BY <1>1, <1>3
    <3>2. \E l : At(ss, a, b, live[p], f[p], l)
      BY <3>1, Zenon
    <3> HIDE DEF f
    <3> QED BY <3>2, Zenon
  <2> QED BY <2>1
<1> HIDE DEF f, g, es
<1>8. ASSUME NEW p \in 1 .. m
      PROVE  /\ f[p] \in {a, b} /\ g[p] \in 1 .. Len(ss[f[p]].entries)
             /\ ss[f[p]].entries[g[p]] # NoEntry /\ es[p] = Again(ss[f[p]].entries[g[p]])
  <2>1. f[p] \in {a, b} /\ g[p] \in 1 .. Len(ss[f[p]].entries)
    BY <1>7 DEF At
  <2>2. all[live[p]] = ss[f[p]].entries[g[p]]
    BY <1>1, <1>3, <1>7
  <2>3. all[live[p]] # NoEntry /\ es[p] = Again(all[live[p]])
    BY <1>3, <1>5
  <2> QED BY <2>1, <2>2, <2>3
<1>9. ASSUME NEW p \in 1 .. m, NEW q \in 1 .. m, f[p] = f[q], g[p] = g[q] PROVE p = q
  <2>1. live[p] = live[q]
    <3>1. At(ss, a, b, live[p], f[p], g[p]) /\ At(ss, a, b, live[q], f[p], g[p])
      BY <1>7, <1>9
    <3> QED BY <3>1, AtOnce
  <2> QED BY <1>3, <2>1
<1>10. ASSUME NEW i \in {a, b}, NEW l \in 1 .. Len(ss[i].entries), ss[i].entries[l] # NoEntry
       PROVE  \E p \in 1 .. m : es[p] = Again(ss[i].entries[l])
  <2>1. PICK x \in 1 .. Len(all) : At(ss, a, b, x, i, l)
    BY <1>1
  <2>2. all[x] = ss[i].entries[l]
    BY <1>1, <2>1
  <2>3. PICK p \in 1 .. m : live[p] = x
    BY <1>3, <1>10, <2>2
  <2> QED BY <1>5, <2>2, <2>3
<1>11. MergeOf(ss, a, b, es, f, g)
  BY <1>6, <1>8, <1>9, <1>10 DEF MergeOf
<1>12. MergeOf(ss, a, b, [p \in 1 .. Len(live) |-> Again(all[live[p]])], f, g)
  BY <1>2, <1>11 DEF es
<1> QED BY <1>12

-----------------------------------------------------------------------------
(* Merging, and the steps together. *)

\* The sentences that have an entry in es are merged.
Moved(sd, es, sd2) ==
    /\ sd2 \in Seq(SaidRec) /\ Len(sd2) = Len(sd)
    /\ \A k \in 1 .. Len(sd) :
          sd2[k] = IF \E p \in 1 .. Len(es) : es[p].of = k THEN [sd[k] EXCEPT !.merged = TRUE] ELSE sd[k]

\* A shard none of whose sentences moves stays as it is.
LEMMA ShardKept ==
    ASSUME NEW sd, NEW sd2, Len(sd2) = Len(sd), NEW size, NEW overlap, NEW s, ShardOK(s, sd, size, overlap),
           \A l \in 1 .. Len(s.entries) : s.entries[l].of \in 1 .. Len(sd) =>
               sd2[s.entries[l].of] = sd[s.entries[l].of]
    PROVE  ShardOK(s, sd2, size, overlap)
<1>1. /\ s \in ShardRec /\ FreeOK(s) /\ Apart(s, sd, size)
      /\ \A l \in 1 .. Len(s.entries) :
            /\ s.entries[l] = NoEntry \/ CutOut(s.entries[l], sd, size, overlap)
            /\ s.entries[l].sid <= s.auto_sentence_id
  BY DEF ShardOK
<1>2. ASSUME NEW l \in 1 .. Len(s.entries)
      PROVE  /\ s.entries[l] = NoEntry \/ CutOut(s.entries[l], sd2, size, overlap)
             /\ s.entries[l].sid <= s.auto_sentence_id
  <2>1. PICK e, k : e = s.entries[l] /\ k = e.of
    OBVIOUS
  <2>2. CASE CutOut(e, sd, size, overlap)
    <3>1. k \in 1 .. Len(sd)
      BY <2>1, <2>2 DEF CutOut
    <3>2. sd2[k] = sd[k]
      BY <2>1, <3>1, SMTT(40)
    <3>3. CutOut(e, sd2, size, overlap)
      BY <2>1, <2>2, <3>2 DEF CutOut
    <3> QED BY <1>1, <2>1, <3>3, SMTT(40)
  <2>3. CASE e = NoEntry
    BY <1>1, <2>1, <2>3
  <2> QED BY <1>1, <2>1, <2>2, <2>3
<1>3. Apart(s, sd2, size)
  <2> SUFFICES ASSUME NEW l \in 1 .. Len(s.entries), NEW m \in 1 .. Len(s.entries), l # m,
                      s.entries[l].of = s.entries[m].of, s.entries[l].of \in 1 .. Len(sd2),
                      Regular(sd2[s.entries[l].of], size)
               PROVE  s.entries[l].start_tok # s.entries[m].start_tok
    BY DEF Apart
  <2>1. s.entries[l].of \in 1 .. Len(sd) /\ Regular(sd[s.entries[l].of], size)
    OBVIOUS
  <2> QED BY <1>1, <2>1 DEF Apart
<1> QED BY <1>1, <1>2, <1>3 DEF ShardOK

\* What a merged sentence's entry is after the merge.
LEMMA AgainCutOut ==
    ASSUME NEW sd \in Seq(SaidRec), NEW size \in Nat \ {0}, NEW overlap \in 0 .. size - 1,
           NEW e \in EntryRec, CutOut(e, sd, size, overlap),
           NEW sd2, Len(sd2) = Len(sd), sd2[e.of] = [sd[e.of] EXCEPT !.merged = TRUE]
    PROVE  CutOut(Again(e), sd2, size, overlap)
<1>1. PICK k, d, d2 : k = e.of /\ d = sd[k] /\ d2 = [d EXCEPT !.merged = TRUE]
  OBVIOUS
<1>2. k \in 1 .. Len(sd) /\ e.sid = d.sid
  BY <1>1 DEF CutOut
<1>3. d \in SaidRec
  BY <1>1, <1>2, ElementOfSeq
<1>4. d2.text = d.text /\ d2.sid = d.sid /\ sd2[k] = d2
  BY <1>1, <1>3 DEF SaidRec
<1>5. PICK j \in 1 .. Len(Cuts(d.text, size, overlap)) : Cut(e, d, size, Cuts(d.text, size, overlap)[j])
  BY <1>1 DEF CutOut
<1>6. Cut(Again(e), d2, size, Cuts(d.text, size, overlap)[j])
  BY <1>1, <1>3, <1>5, AgainCut
<1>7. Again(e).of = k /\ Again(e).sid = e.sid
  BY <1>1, AgainIs
<1>8. \E i \in 1 .. Len(Cuts(sd2[k].text, size, overlap)) : Cut(Again(e), sd2[k], size, Cuts(sd2[k].text, size, overlap)[i])
  BY <1>4, <1>5, <1>6
<1>9. k \in 1 .. Len(sd2) /\ Again(e).sid = sd2[k].sid
  BY <1>2, <1>4, <1>7, SMTT(40)
<1> QED BY <1>7, <1>8, <1>9 DEF CutOut

\* t is what a merge makes of the entries es.
MadeOf(t, es) ==
    /\ t \in ShardRec /\ t.entries = es /\ t.free = <<>>
    /\ \A p \in 1 .. Len(es) : es[p].sid <= t.auto_sentence_id

\* Entry p of es is label g[p] of shard f[p], and of a merged sentence.
Comes(ss, sd, sd2, es, f, g, p) ==
    /\ f[p] \in 1 .. Len(ss) /\ g[p] \in 1 .. Len(ss[f[p]].entries)
    /\ ss[f[p]].entries[g[p]].of = es[p].of /\ es[p].of \in 1 .. Len(sd)
    /\ sd2[es[p].of] = [sd[es[p].of] EXCEPT !.merged = TRUE]

\* An entry of the shard a merge makes.
LEMMA MergedEntry ==
    ASSUME NEW ss, NEW sd, NEW size \in Nat \ {0}, NEW overlap \in 0 .. size - 1, SentOK(ss, sd, size, overlap),
           NEW a \in 1 .. Len(ss), NEW b \in 1 .. Len(ss), NEW es, NEW f, NEW g, MergeOf(ss, a, b, es, f, g),
           NEW sd2, Moved(sd, es, sd2), NEW p \in 1 .. Len(es)
    PROVE  f[p] \in {a, b} /\ Comes(ss, sd, sd2, es, f, g, p) /\ CutOut(es[p], sd2, size, overlap)
<1>1. PICK i, l, e : i = f[p] /\ l = g[p] /\ e = ss[i].entries[l]
  OBVIOUS
<1>2. i \in {a, b} /\ i \in 1 .. Len(ss) /\ l \in 1 .. Len(ss[i].entries) /\ e # NoEntry /\ es[p] = Again(e)
  BY <1>1 DEF MergeOf
<1>3. CutOut(e, sd, size, overlap)
  BY <1>1, <1>2, EntriesOf
<1>4. e \in EntryRec
  <2>1. ss[i] \in ShardRec
    BY <1>2 DEF SentOK, ShardOK
  <2> QED BY <1>1, <1>2, <2>1, ShardIs
<1>5. es[p].of = e.of /\ e.of \in 1 .. Len(sd)
  BY <1>2, <1>3, <1>4, AgainIs DEF CutOut
<1>6. sd2[e.of] = [sd[e.of] EXCEPT !.merged = TRUE] /\ Len(sd2) = Len(sd)
  BY <1>5 DEF Moved
<1>7. CutOut(Again(e), sd2, size, overlap)
  <2>1. sd \in Seq(SaidRec)
    BY DEF SentOK
  <2> QED BY <1>3, <1>4, <1>6, <2>1, AgainCutOut
<1> QED BY <1>1, <1>2, <1>5, <1>6, <1>7 DEF Comes

\* The shard a merge makes.
LEMMA MadeShardOK ==
    ASSUME NEW ss, NEW sd, NEW size \in Nat \ {0}, NEW overlap \in 0 .. size - 1, SentOK(ss, sd, size, overlap),
           NEW a \in 1 .. Len(ss), NEW b \in 1 .. Len(ss), NEW es, NEW f, NEW g, MergeOf(ss, a, b, es, f, g),
           NEW sd2, Moved(sd, es, sd2), NEW t, MadeOf(t, es)
    PROVE  ShardOK(t, sd2, size, overlap)
<1>1. t \in ShardRec /\ t.entries = es /\ t.free = <<>> /\ \A p \in 1 .. Len(es) : es[p].sid <= t.auto_sentence_id
  BY DEF MadeOf
<1>2. \A p \in 1 .. Len(es) : CutOut(es[p], sd2, size, overlap) /\ Comes(ss, sd, sd2, es, f, g, p)
  <2>1. ASSUME NEW p \in 1 .. Len(es) PROVE CutOut(es[p], sd2, size, overlap) /\ Comes(ss, sd, sd2, es, f, g, p)
    BY MergedEntry, Zenon
  <2> QED BY <2>1
<1>3. FreeOK(t)
  <2>1. \A p \in 1 .. Len(es) : es[p] # NoEntry
    <3>1. \A p \in 1 .. Len(es) : es[p].of \in 1 .. Len(sd)
      BY <1>2 DEF Comes
    <3>2. ~(0 \in 1 .. Len(sd))
      OBVIOUS
    <3> QED BY <3>1, <3>2, NoEntryIs, Zenon
  <2>2. PICK q : q = t.free
    OBVIOUS
  <2>3. q = <<>> /\ Len(q) = 0
    BY <1>1, <2>2
  <2>4. {l \in 1 .. Len(es) : es[l] = NoEntry} = {}
    BY <2>1
  <2>5. {q[k] : k \in 1 .. Len(q)} = {}
    BY <2>3
  <2>6. \A j, k \in 1 .. Len(q) : q[j] = q[k] => j = k
    BY <2>3
  <2> QED BY <1>1, <2>2, <2>4, <2>5, <2>6 DEF FreeOK
<1>4. Apart(t, sd2, size)
  <2> SUFFICES ASSUME NEW p \in 1 .. Len(es), NEW q \in 1 .. Len(es), p # q,
                      es[p].of = es[q].of, Regular(sd2[es[p].of], size)
               PROVE  es[p].start_tok # es[q].start_tok
    BY <1>1 DEF Apart
  <2>1. PICK i, l, j, m, k : i = f[p] /\ l = g[p] /\ j = f[q] /\ m = g[q] /\ k = es[p].of
    OBVIOUS
  <2>2. /\ i \in 1 .. Len(ss) /\ l \in 1 .. Len(ss[i].entries) /\ ss[i].entries[l].of = k
        /\ k \in 1 .. Len(sd) /\ sd2[k] = [sd[k] EXCEPT !.merged = TRUE]
    <3>1. Comes(ss, sd, sd2, es, f, g, p)
      BY <1>2
    <3> QED BY <2>1, <3>1 DEF Comes
  <2>3. j \in 1 .. Len(ss) /\ m \in 1 .. Len(ss[j].entries) /\ ss[j].entries[m].of = k
    <3>1. Comes(ss, sd, sd2, es, f, g, q)
      BY <1>2
    <3> QED BY <2>1, <3>1 DEF Comes
  <2>4. i = j
    <3>1. OneHome(ss)
      BY DEF SentOK
    <3>2. \A x \in 1 .. Len(ss[i].entries), y \in 1 .. Len(ss[j].entries) :
             ss[i].entries[x].of = ss[j].entries[y].of /\ ss[i].entries[x].of # 0 => i = j
      BY <2>2, <2>3, <3>1 DEF OneHome
    <3>3. ss[i].entries[l].of = ss[j].entries[m].of /\ ss[i].entries[l].of # 0
      BY <2>2, <2>3
    <3> QED BY <2>2, <2>3, <3>2, <3>3
  <2>5. ss[i].entries[l] # NoEntry /\ ss[i].entries[m] # NoEntry
    BY <2>1, <2>2, <2>3, <2>4 DEF MergeOf
  <2>6. sd[k] \in SaidRec /\ sd \in Seq(SaidRec)
    <3>1. sd \in Seq(SaidRec)
      BY DEF SentOK
    <3> QED BY <2>2, <3>1, ElementOfSeq
  <2>7. Len(Tokens(sd[k].text)) <= size
    <3>1. sd2[k].merged /\ sd2[k].text = sd[k].text
      BY <2>2, <2>6 DEF SaidRec
    <3>2. Regular(sd2[k], size)
      BY <2>1
    <3> QED BY <3>1, <3>2 DEF Regular
  <2>8. ShardOK(ss[i], sd, size, overlap)
    BY <2>2 DEF SentOK
  <2>9. l = m
    <3>1. m \in 1 .. Len(ss[i].entries) /\ ss[i].entries[m].of = k
      BY <2>3, <2>4
    <3>2. PICK r : r = ss[i]
      OBVIOUS
    <3>3. /\ ShardOK(r, sd, size, overlap) /\ l \in 1 .. Len(r.entries) /\ m \in 1 .. Len(r.entries)
          /\ r.entries[l] # NoEntry /\ r.entries[m] # NoEntry /\ r.entries[l].of = r.entries[m].of
          /\ Len(Tokens(sd[r.entries[l].of].text)) <= size
      BY <2>2, <2>5, <2>7, <2>8, <3>1, <3>2
    <3> QED BY <2>6, <3>3, OneWindowOnce, SMTT(40)
  <2>10. p = q
    BY <2>1, <2>4, <2>9 DEF MergeOf
  <2> QED BY <2>10
<1> QED BY <1>1, <1>2, <1>3, <1>4 DEF ShardOK

\* ss2 is ss with t for its last two shards.
Shortened(ss, ss2, t) ==
    /\ ss2 \in Seq(ShardRec) /\ Len(ss) > 1 /\ Len(ss2) = Len(ss) - 1 /\ ss2[Len(ss) - 1] = t
    /\ \A i \in 1 .. Len(ss) - 2 : ss2[i] = ss[i]

\* A sentence is in one shard.
LEMMA HomesAgree ==
    ASSUME NEW ss, OneHome(ss), NEW i \in 1 .. Len(ss), NEW l \in 1 .. Len(ss[i].entries),
           NEW j \in 1 .. Len(ss), NEW m \in 1 .. Len(ss[j].entries),
           ss[i].entries[l].of = ss[j].entries[m].of, ss[i].entries[l].of # 0
    PROVE  i = j
<1>1. \A x \in 1 .. Len(ss[i].entries), y \in 1 .. Len(ss[j].entries) :
         ss[i].entries[x].of = ss[j].entries[y].of /\ ss[i].entries[x].of # 0 => i = j
  BY DEF OneHome
<1> QED BY <1>1

\* With more than one shard there is one before the last.
LEMMA MoreThanOne == ASSUME NEW n \in Nat, n > 1 PROVE n - 1 # 0
  OBVIOUS

\* A merge of the last two shards.
LEMMA MergedKeeps ==
    ASSUME NEW ss, NEW sd, NEW size \in Nat \ {0}, NEW overlap \in 0 .. size - 1, SentOK(ss, sd, size, overlap),
           NEW n \in Nat, n = Len(ss), n > 1,
           NEW es, NEW f, NEW g, MergeOf(ss, n - 1, n, es, f, g),
           NEW sd2, Moved(sd, es, sd2), NEW t, MadeOf(t, es), NEW ss2, Shortened(ss, ss2, t)
    PROVE  SentOK(ss2, sd2, size, overlap)
<1>1. /\ ss \in Seq(ShardRec) /\ sd \in Seq(SaidRec) /\ OneHome(ss) /\ AllThere(ss, sd, size, overlap)
      /\ \A i \in 1 .. n : ShardOK(ss[i], sd, size, overlap)
  BY DEF SentOK
<1>2. /\ ss2 \in Seq(ShardRec) /\ Len(ss2) = n - 1 /\ ss2[n - 1] = t
      /\ \A i \in 1 .. n - 2 : ss2[i] = ss[i]
  BY DEF Shortened
<1>3. t \in ShardRec /\ t.entries = es
  BY DEF MadeOf
<1>4. /\ n - 1 \in 1 .. n /\ n \in 1 .. n /\ \A i \in 1 .. n - 2 : i \in 1 .. n /\ i # n - 1 /\ i # n /\ i \in 1 .. n - 1
      /\ \A i \in 1 .. n - 1 : i \in 1 .. n - 2 \/ i = n - 1
      /\ \A i \in 1 .. n : i \in 1 .. n - 2 \/ i \in {n - 1, n}
      /\ n - 1 \in 1 .. n - 1
  OBVIOUS
<1>5. \A p \in 1 .. Len(es) : f[p] \in {n - 1, n} /\ Comes(ss, sd, sd2, es, f, g, p)
  <2>1. ASSUME NEW p \in 1 .. Len(es) PROVE f[p] \in {n - 1, n} /\ Comes(ss, sd, sd2, es, f, g, p)
    <3>1. n - 1 \in 1 .. Len(ss) /\ n \in 1 .. Len(ss)
      BY <1>4
    <3> QED BY <3>1, MergedEntry, Zenon
  <2> QED BY <2>1
<1>6. sd2 \in Seq(SaidRec) /\ Len(sd2) = Len(sd)
  BY DEF Moved
\* What an entry of the others is of does not move.
<1>7. ASSUME NEW i \in 1 .. n - 2, NEW l \in 1 .. Len(ss[i].entries), ss[i].entries[l].of \in 1 .. Len(sd)
      PROVE  /\ sd2[ss[i].entries[l].of] = sd[ss[i].entries[l].of]
             /\ \A p \in 1 .. Len(es) : es[p].of # ss[i].entries[l].of
  <2>1. PICK k : k = ss[i].entries[l].of
    OBVIOUS
  <2>2. k \in 1 .. Len(sd) /\ k # 0
    BY <1>7, <2>1
  <2>3. ASSUME NEW p \in 1 .. Len(es), es[p].of = k PROVE FALSE
    <3>1. /\ f[p] \in {n - 1, n} /\ f[p] \in 1 .. Len(ss) /\ g[p] \in 1 .. Len(ss[f[p]].entries)
          /\ ss[f[p]].entries[g[p]].of = k
      BY <1>5, <2>3 DEF Comes
    <3>2. i \in 1 .. Len(ss)
      BY <1>4
    <3>3. i = f[p]
      BY <1>1, <2>1, <2>2, <3>1, <3>2, HomesAgree, ZenonT(40)
    <3> QED BY <1>4, <3>1, <3>3
  <2>4. sd2[k] = sd[k]
    BY <2>2, <2>3 DEF Moved
  <2> QED BY <2>1, <2>3, <2>4
<1>8. \A i \in 1 .. Len(ss2) : ShardOK(ss2[i], sd2, size, overlap)
  <2>1. ShardOK(t, sd2, size, overlap)
    <3>1. n - 1 \in 1 .. Len(ss) /\ n \in 1 .. Len(ss)
      BY <1>4
    <3> QED BY <3>1, MadeShardOK, Zenon
  <2>2. ASSUME NEW i \in 1 .. n - 2 PROVE ShardOK(ss[i], sd2, size, overlap)
    <3>1. ShardOK(ss[i], sd, size, overlap)
      BY <1>1, <1>4
    <3>2. \A l \in 1 .. Len(ss[i].entries) : ss[i].entries[l].of \in 1 .. Len(sd) =>
             sd2[ss[i].entries[l].of] = sd[ss[i].entries[l].of]
      BY <1>7
    <3> QED BY <1>6, <3>1, <3>2, ShardKept
  <2> QED BY <1>2, <1>4, <2>1, <2>2
<1>9. OneHome(ss2)
  <2>1. ASSUME NEW i \in 1 .. n - 2, NEW l \in 1 .. Len(ss2[i].entries), NEW m \in 1 .. Len(es),
               ss2[i].entries[l].of = es[m].of, ss2[i].entries[l].of # 0
        PROVE  FALSE
    <3>1. l \in 1 .. Len(ss[i].entries) /\ ss2[i].entries[l] = ss[i].entries[l]
      BY <1>2
    <3>2. es[m].of \in 1 .. Len(sd)
      BY <1>5 DEF Comes
    <3>3. PICK k : k = ss[i].entries[l].of
      OBVIOUS
    <3>4. es[m].of = k
      BY <2>1, <3>1, <3>3
    <3>5. k \in 1 .. Len(sd)
      BY <3>2, <3>4
    <3>6. \A p \in 1 .. Len(es) : es[p].of # k
      BY <1>7, <3>1, <3>3, <3>5
    <3> QED BY <3>4, <3>6
  <2> SUFFICES ASSUME NEW i \in 1 .. Len(ss2), NEW j \in 1 .. Len(ss2),
                      NEW l \in 1 .. Len(ss2[i].entries), NEW m \in 1 .. Len(ss2[j].entries),
                      ss2[i].entries[l].of = ss2[j].entries[m].of, ss2[i].entries[l].of # 0
               PROVE  i = j
    BY DEF OneHome
  <2>2. CASE i \in 1 .. n - 2 /\ j \in 1 .. n - 2
    <3>1. /\ i \in 1 .. Len(ss) /\ j \in 1 .. Len(ss) /\ l \in 1 .. Len(ss[i].entries) /\ m \in 1 .. Len(ss[j].entries)
          /\ ss[i].entries[l].of = ss[j].entries[m].of /\ ss[i].entries[l].of # 0
      BY <1>2, <1>4, <2>2
    <3> QED BY <1>1, <3>1, HomesAgree
  <2>3. CASE i \in 1 .. n - 2 /\ j = n - 1
    <3>1. m \in 1 .. Len(es) /\ ss2[i].entries[l].of = es[m].of
      BY <1>2, <1>3, <2>3
    <3> QED BY <2>1, <2>3, <3>1
  <2>4. CASE j \in 1 .. n - 2 /\ i = n - 1
    <3>1. l \in 1 .. Len(es) /\ ss2[j].entries[m].of = es[l].of /\ ss2[j].entries[m].of # 0
      BY <1>2, <1>3, <2>4
    <3> QED BY <2>1, <2>4, <3>1
  <2> QED BY <1>2, <1>4, <2>2, <2>3, <2>4
<1>10. AllThere(ss2, sd2, size, overlap)
  <2> SUFFICES ASSUME NEW k \in 1 .. Len(sd2), sd2[k].whole, ~sd2[k].removed,
                      NEW j \in 1 .. Len(Cuts(sd2[k].text, size, overlap))
               PROVE  There(ss2, sd2, k, size, Cuts(sd2[k].text, size, overlap)[j])
    BY DEF AllThere
  <2>1. k \in 1 .. Len(sd) /\ k # 0 /\ sd[k] \in SaidRec
    <3>1. k \in 1 .. Len(sd) /\ k # 0
      BY <1>6
    <3> QED BY <1>1, <3>1, ElementOfSeq
  <2>2. sd2[k] = sd[k] \/ sd2[k] = [sd[k] EXCEPT !.merged = TRUE]
    BY <2>1 DEF Moved
  <2>3. sd2[k].text = sd[k].text /\ sd[k].whole /\ ~sd[k].removed
    BY <2>1, <2>2 DEF SaidRec
  <2>4. PICK w : w = Cuts(sd[k].text, size, overlap)[j]
    OBVIOUS
  <2>5. j \in 1 .. Len(Cuts(sd[k].text, size, overlap)) /\ w = Cuts(sd2[k].text, size, overlap)[j]
    BY <2>3, <2>4
  <2>6. There(ss, sd, k, size, w)
    <3>1. \A x \in 1 .. Len(Cuts(sd[k].text, size, overlap)) :
             There(ss, sd, k, size, Cuts(sd[k].text, size, overlap)[x])
      BY <1>1, <2>1, <2>3 DEF AllThere
    <3> QED BY <2>4, <2>5, <3>1, Zenon
  <2>7a. PICK i \in 1 .. Len(ss) : \E l \in 1 .. Len(ss[i].entries) :
           ss[i].entries[l].of = k /\ Cut(ss[i].entries[l], sd[k], size, w)
    BY <2>6 DEF There
  <2>7. PICK l \in 1 .. Len(ss[i].entries) : ss[i].entries[l].of = k /\ Cut(ss[i].entries[l], sd[k], size, w)
    BY <2>7a
  <2>8. CASE i \in 1 .. n - 2
    <3>1. sd2[k] = sd[k]
      BY <1>7, <2>1, <2>7, <2>8
    <3>2. i \in 1 .. Len(ss2) /\ ss2[i] = ss[i]
      BY <1>2, <1>4, <2>8
    <3>3. l \in 1 .. Len(ss2[i].entries) /\ ss2[i].entries[l].of = k /\ Cut(ss2[i].entries[l], sd2[k], size, w)
      BY <2>7, <3>1, <3>2
    <3>4. There(ss2, sd2, k, size, w)
      BY <3>2, <3>3 DEF There
    <3> QED BY <2>5, <3>4
  <2>9. CASE i \in {n - 1, n}
    <3>1. PICK e : e = ss[i].entries[l]
      OBVIOUS
    <3>2. e.of = k /\ e # NoEntry /\ Cut(e, sd[k], size, w) /\ e \in EntryRec
      <4>1. ss[i] \in ShardRec
        BY <1>1, <2>7 DEF ShardOK
      <4>2. e \in EntryRec
        BY <2>7, <3>1, <4>1, ShardIs
      <4> QED BY <2>1, <2>7, <3>1, <4>2, NoEntryIs
    <3>3. PICK p \in 1 .. Len(es) : es[p] = Again(e)
      <4>1. \A x \in {n - 1, n} : \A y \in 1 .. Len(ss[x].entries) : ss[x].entries[y] # NoEntry =>
               \E p \in 1 .. Len(es) : es[p] = Again(ss[x].entries[y])
        BY DEF MergeOf
      <4>2. \E p \in 1 .. Len(es) : es[p] = Again(ss[i].entries[l])
        BY <2>9, <3>1, <3>2, <4>1
      <4> QED BY <3>1, <4>2
    <3>4. es[p].of = k
      BY <3>2, <3>3, AgainIs
    <3>5. sd2[k] = [sd[k] EXCEPT !.merged = TRUE]
      BY <2>1, <3>4 DEF Moved
    <3>6. Cut(Again(e), sd2[k], size, w)
      <4>1. Cut(e, sd[k], size, Cuts(sd[k].text, size, overlap)[j])
        BY <2>4, <3>2
      <4>2. PICK d, d2 : d = sd[k] /\ d2 = sd2[k]
        OBVIOUS
      <4>3. /\ d \in SaidRec /\ d2 = [d EXCEPT !.merged = TRUE] /\ j \in 1 .. Len(Cuts(d.text, size, overlap))
            /\ Cut(e, d, size, Cuts(d.text, size, overlap)[j]) /\ e \in EntryRec
        BY <2>1, <2>5, <3>2, <3>5, <4>1, <4>2
      <4>4. Cut(Again(e), d2, size, Cuts(d.text, size, overlap)[j])
        BY <4>3, AgainCut
      <4> QED BY <2>4, <4>2, <4>4
    <3>7. n - 1 \in 1 .. Len(ss2) /\ p \in 1 .. Len(ss2[n - 1].entries) /\ ss2[n - 1].entries[p] = Again(e)
      BY <1>2, <1>3, <1>4, <3>3
    <3>8. There(ss2, sd2, k, size, w)
      BY <3>3, <3>4, <3>6, <3>7 DEF There
    <3> QED BY <2>5, <3>8
  <2> QED BY <1>4, <2>7, <2>8, <2>9
<1>11. Len(ss2) # 0
  <2> QED BY <1>2, MoreThanOne, Zenon
<1> QED BY <1>2, <1>6, <1>8, <1>9, <1>10, <1>11 DEF SentOK

\* The shards a merge leaves.
LEMMA ShortenedIs ==
    ASSUME NEW ss \in Seq(ShardRec), Len(ss) > 1, NEW t \in ShardRec
    PROVE  Shortened(ss, Append(SubSeq(ss, 1, Len(ss) - 2), t), t)
<1>1. PICK n : n = Len(ss)
  OBVIOUS
<1>2. n \in Nat /\ n > 1
  BY <1>1
<1>3. PICK p : p = SubSeq(ss, 1, n - 2)
  OBVIOUS
<1>4. IsPart(SubSeq(ss, 1, n - 2), ShardRec, ss, 1, n - 2)
  <2>1. 1 \in 1 .. Len(ss) + 1 /\ n - 2 \in 1 - 1 .. Len(ss)
    BY <1>1, <1>2
  <2> QED BY <2>1, PartIs, Zenon
<1>5. p \in Seq(ShardRec) /\ Len(p) = n - 2 /\ \A i \in 1 .. n - 2 : p[i] = ss[i]
  BY <1>2, <1>3, <1>4 DEF IsPart
<1>6. /\ Append(p, t) \in Seq(ShardRec) /\ Len(Append(p, t)) = Len(p) + 1 /\ Append(p, t)[Len(p) + 1] = t
      /\ \A i \in 1 .. Len(p) : Append(p, t)[i] = p[i]
  BY <1>5, AppendProperties
<1>7. PICK q : q = Append(p, t)
  OBVIOUS
<1>8. q \in Seq(ShardRec) /\ Len(q) = n - 1 /\ q[n - 1] = t /\ \A i \in 1 .. n - 2 : q[i] = ss[i]
  <2>1. Len(p) + 1 = n - 1
    BY <1>2, <1>5
  <2> QED BY <1>5, <1>6, <1>7, <2>1
<1>9. Shortened(ss, q, t)
  BY <1>1, <1>2, <1>8 DEF Shortened
<1> QED BY <1>1, <1>3, <1>7, <1>9

\* A shard with other entries, which is merged, and one that knows another id.
LEMMA MergedRec ==
    ASSUME NEW n \in ShardRec, NEW es \in Seq(EntryRec), NEW t, t = [n EXCEPT !.entries = es, !.merged = TRUE]
    PROVE  t \in ShardRec /\ t.entries = es /\ t.free = n.free
  BY DEF ShardRec

\* A shard that knows another id.
LEMMA KnownRec ==
    ASSUME NEW n \in ShardRec, NEW m \in Nat, NEW t, t = [n EXCEPT !.auto_sentence_id = m]
    PROVE  t \in ShardRec /\ t.entries = n.entries /\ t.free = n.free /\ t.auto_sentence_id = m
  BY DEF ShardRec

\* The shard a merge makes.
LEMMA MadeIs ==
    ASSUME NEW es \in Seq(EntryRec)
    PROVE  LET made == [NewShard EXCEPT !.entries = es, !.merged = TRUE]
           IN MadeOf([made EXCEPT !.auto_sentence_id = Largest(made)], es)
<1>1. NewShard \in ShardRec /\ NewShard.free = <<>>
  <2>1. <<>> \in Seq(Nat) /\ <<>> \in Seq(EntryRec)
    OBVIOUS
  <2> QED BY <2>1 DEF NewShard, ShardRec
<1>2. PICK made : made = [NewShard EXCEPT !.entries = es, !.merged = TRUE]
  OBVIOUS
<1>3. made \in ShardRec /\ made.entries = es /\ made.free = NewShard.free
  BY <1>1, <1>2, MergedRec, ZenonT(40)
<1>4. Largest(made) \in Nat /\ \A l \in 1 .. Len(made.entries) : made.entries[l].sid <= Largest(made)
  BY <1>3, LargestIs
<1>5. PICK m : m = Largest(made)
  OBVIOUS
<1>6. m \in Nat /\ \A l \in 1 .. Len(es) : es[l].sid <= m
  BY <1>3, <1>4, <1>5
<1>7. PICK t : t = [made EXCEPT !.auto_sentence_id = m]
  OBVIOUS
<1>8. t \in ShardRec /\ t.entries = es /\ t.free = <<>> /\ t.auto_sentence_id = m
  <2>1. t \in ShardRec /\ t.entries = made.entries /\ t.free = made.free /\ t.auto_sentence_id = m
    <3>1. made \in ShardRec
      BY <1>3
    <3>2. m \in Nat
      BY <1>6
    <3> QED BY <1>7, <3>1, <3>2, KnownRec
  <2> QED BY <1>1, <1>3, <2>1
<1>10. MadeOf(t, es)
  BY <1>6, <1>8 DEF MadeOf
<1> QED BY <1>2, <1>5, <1>7, <1>10, Zenon

\* The sentences a merge moves.
LEMMA MovedIs ==
    ASSUME NEW sd \in Seq(SaidRec), NEW all \in Seq(EntryRec), NEW live, LiveOK(live, all)
    PROVE  Moved(sd, [i \in 1 .. Len(live) |-> Again(all[live[i]])],
                 [k \in DOMAIN sd |->
                     IF k \in {all[live[i]].of : i \in DOMAIN live}
                     THEN [sd[k] EXCEPT !.merged = TRUE] ELSE sd[k]])
<1>1. PICK m, n : m = Len(live) /\ n = Len(sd)
  OBVIOUS
<1>2. m \in Nat /\ n \in Nat /\ DOMAIN live = 1 .. m /\ DOMAIN sd = 1 .. n
  BY <1>1, LenProperties DEF LiveOK
<1> DEFINE es == [i \in 1 .. m |-> Again(all[live[i]])]
           moved == {all[live[i]].of : i \in 1 .. m}
           sd2 == [k \in 1 .. n |-> IF k \in moved THEN [sd[k] EXCEPT !.merged = TRUE] ELSE sd[k]]
<1>3. Len(es) = m
  BY <1>2
<1>5. \A i \in 1 .. m : es[i].of = all[live[i]].of
  <2>1. ASSUME NEW i \in 1 .. m PROVE es[i].of = all[live[i]].of
    <3>1. live[i] \in 1 .. Len(all)
      BY <1>1 DEF LiveOK
    <3>2. all[live[i]] \in EntryRec
      BY <3>1, ElementOfSeq
    <3>3. es[i] = Again(all[live[i]])
      OBVIOUS
    <3> QED BY <3>2, <3>3, AgainIs
  <2> QED BY <2>1
<1> HIDE DEF es
<1>7. \A k : k \in moved <=> \E p \in 1 .. Len(es) : es[p].of = k
  BY <1>3, <1>5
<1> HIDE DEF moved
<1>8. \A k \in 1 .. n : sd2[k] = IF k \in moved THEN [sd[k] EXCEPT !.merged = TRUE] ELSE sd[k]
  OBVIOUS
<1>9. \A k \in 1 .. n : sd2[k] \in SaidRec
  <2>1. ASSUME NEW k \in 1 .. n PROVE sd2[k] \in SaidRec
    <3>1. sd[k] \in SaidRec
      BY <1>1, ElementOfSeq
    <3>2. [sd[k] EXCEPT !.merged = TRUE] \in SaidRec
      BY <3>1 DEF SaidRec
    <3> QED BY <1>8, <3>1, <3>2
  <2> QED BY <2>1
<1>10. sd2 \in Seq(SaidRec) /\ Len(sd2) = n
  <2>2. sd2 \in [1 .. n -> SaidRec]
    BY <1>9
  <2> HIDE DEF sd2
  <2> QED BY <1>2, <2>2
<1>11. Moved(sd, es, sd2)
  <2> HIDE DEF sd2
  <2> QED BY <1>1, <1>7, <1>8, <1>10 DEF Moved
<1>12. es = [i \in 1 .. Len(live) |-> Again(all[live[i]])]
  BY <1>1 DEF es
<1>13. moved = {all[live[i]].of : i \in DOMAIN live}
  BY <1>2 DEF moved
<1>14. sd2 = [k \in DOMAIN sd |->
                IF k \in {all[live[i]].of : i \in DOMAIN live}
                THEN [sd[k] EXCEPT !.merged = TRUE] ELSE sd[k]]
  BY <1>2, <1>13
<1> HIDE DEF sd2
<1> QED BY <1>11, <1>12, <1>14

\* The last two shards are merged.
LEMMA MergeStep ==
    ASSUME SentInv, MergeLastTwo
    PROVE  SentInv'
<1>1. /\ config \in Configs /\ removals \in 0 .. MaxRemoved /\ merges \in 0 .. MaxMerges
      /\ Len(said) \in 0 .. MaxSentences /\ SentOK(shards, said, MaxTokens, Overlap)
  BY DEF SentInv
<1>2. MaxTokens \in Nat \ {0} /\ Overlap \in 0 .. MaxTokens - 1
  BY <1>1, SizesAre
<1>3. Len(shards) > 1 /\ merges < MaxMerges /\ merges' = merges + 1 /\ config' = config /\ removals' = removals
  BY DEF MergeLastTwo
<1>4. MaxTokens' = MaxTokens /\ Overlap' = Overlap
  BY <1>3, SizesStay
<1>5. shards \in Seq(ShardRec) /\ said \in Seq(SaidRec)
  BY <1>1 DEF SentOK
<1>6. PICK n : n = Len(shards)
  OBVIOUS
<1>7. n \in Nat /\ n > 1 /\ n - 1 # n /\ n - 1 \in 1 .. n /\ n \in 1 .. n
  BY <1>3, <1>5, <1>6
<1> DEFINE all == shards[Len(shards) - 1].entries \o Last(shards).entries
           live == Where(all, ToSet(all) \ {NoEntry})
           es == [i \in 1 .. Len(live) |-> Again(all[live[i]])]
           made == [NewShard EXCEPT !.entries = es, !.merged = TRUE]
           t == [made EXCEPT !.auto_sentence_id = Largest(made)]
           sd2 == [k \in DOMAIN said |->
                     IF k \in {all[live[i]].of : i \in DOMAIN live}
                     THEN [said[k] EXCEPT !.merged = TRUE] ELSE said[k]]
<1>8. shards' = Append(SubSeq(shards, 1, Len(shards) - 2), t) /\ said' = sd2
  BY DEF MergeLastTwo
<1>9. all = shards[n - 1].entries \o shards[n].entries
  BY <1>6 DEF Last
<1>10. live = Where(all, ToSet(all) \ {NoEntry})
  OBVIOUS
<1> HIDE DEF all
<1>11. shards[n - 1] \in ShardRec /\ shards[n] \in ShardRec
  BY <1>5, <1>6, <1>7, ElementOfSeq
<1>12. HasBoth(all, shards, n - 1, n)
  BY <1>7, <1>9, <1>11, AtIs, Zenon
<1>13. all \in Seq(EntryRec)
  BY <1>12 DEF HasBoth
<1> HIDE DEF live
<1>14. LiveOK(live, all)
  BY <1>10, <1>13, LiveAre, Zenon
<1>15. Moved(said, es, sd2)
  BY <1>5, <1>13, <1>14, MovedIs, Zenon
<1>16. \E f, g : MergeOf(shards, n - 1, n, es, f, g)
  BY <1>7, <1>11, <1>12, <1>14, MergeIs, Zenon
<1> HIDE DEF es
<1>17. PICK f, g : MergeOf(shards, n - 1, n, es, f, g)
  BY <1>16, Zenon
<1>18. MadeOf(t, es)
  <2>1. es \in Seq(EntryRec)
    BY <1>17, Zenon DEF MergeOf
  <2> QED BY <2>1, MadeIs, Zenon
<1> HIDE DEF t, made, sd2
<1>19. Shortened(shards, shards', t)
  <2>1. t \in ShardRec
    BY <1>18, Zenon DEF MadeOf
  <2> QED BY <1>3, <1>5, <1>8, <2>1, ShortenedIs, Zenon
<1>20. Moved(said, es, said')
  BY <1>8, <1>15
<1>21. SentOK(shards', said', MaxTokens, Overlap)
  BY <1>1, <1>2, <1>6, <1>7, <1>17, <1>18, <1>19, <1>20, MergedKeeps, Zenon
<1>22. Len(said') = Len(said)
  BY <1>20 DEF Moved
<1>23. merges' \in 0 .. MaxMerges
  BY <1>1, <1>3, BoundsAssumption
<1> QED BY <1>1, <1>3, <1>4, <1>21, <1>22, <1>23 DEF SentInv

\* The id a shard gives is no less than 1.
LEMMA AutoSidIs == ASSUME NEW s \in ShardRec PROVE AutoSid(s) \in Nat \ {0}
<1>1. Largest(s) \in Nat /\ s.auto_sentence_id \in Nat
  BY LargestIs, ShardIs
<1> QED BY <1>1 DEF AutoSid

\* Init, and each step.
LEMMA SentInit == Init => SentInv
<1> SUFFICES ASSUME Init PROVE SentInv
  OBVIOUS
<1>1. config \in Configs /\ shards = <<NewShard>> /\ said = <<>> /\ removals = 0 /\ merges = 0
  BY DEF Init
<1>2. ShardOK(NewShard, said, MaxTokens, Overlap)
  BY NewShardOK, Zenon
<1>3. NewShard \in ShardRec
  BY <1>2 DEF ShardOK
<1>4. PICK s : s = NewShard
  OBVIOUS
<1>5. shards = <<s>>
  BY <1>1, <1>4
<1>6. shards \in Seq(ShardRec) /\ Len(shards) = 1 /\ shards[1] = s
  BY <1>3, <1>4, <1>5
<1>7. said \in Seq(SaidRec) /\ Len(said) = 0
  BY <1>1
<1>8. OneHome(shards)
  BY <1>6 DEF OneHome
<1>9. AllThere(shards, said, MaxTokens, Overlap)
  BY <1>7 DEF AllThere
<1>10. \A i \in 1 .. Len(shards) : ShardOK(shards[i], said, MaxTokens, Overlap)
  <2>1. \A i \in 1 .. Len(shards) : i = 1
    BY <1>6
  <2> QED BY <1>2, <1>4, <1>6, <2>1
<1>11. SentOK(shards, said, MaxTokens, Overlap)
  BY <1>6, <1>7, <1>8, <1>9, <1>10 DEF SentOK
<1>12. Len(said) \in 0 .. MaxSentences /\ removals \in 0 .. MaxRemoved /\ merges \in 0 .. MaxMerges
  BY <1>1, <1>7, BoundsAssumption
<1> QED BY <1>1, <1>11, <1>12 DEF SentInv

\* Each step keeps the invariant.
LEMMA SentNext == ASSUME SentInv, [Next]_vars PROVE SentInv'
<1>1. ASSUME NEW text \in Texts, AppendAuto(text) PROVE SentInv'
  <2>1. Len(said) < MaxSentences /\ Store(Current, AutoSid(Current), text) /\ UNCHANGED <<config, removals, merges>>
    BY <1>1 DEF AppendAuto
  <2>2. Current \in ShardRec
    BY CurrentIs DEF ShardOK
  <2>3. AutoSid(Current) \in Nat \ {0}
    BY <2>2, AutoSidIs, Zenon
  <2> QED BY <2>1, <2>3, StoreStep, Zenon
<1>2. ASSUME NEW text \in Texts, NEW sid \in Sids, AppendId(sid, text) PROVE SentInv'
  <2>1. Len(said) < MaxSentences /\ Store(Current, sid, text) /\ UNCHANGED <<config, removals, merges>>
    BY <1>2 DEF AppendId
  <2>2. sid \in Nat \ {0}
    BY SidsAssumption
  <2> QED BY <2>1, <2>2, StoreStep, Zenon
<1>3. ASSUME NEW i \in DOMAIN shards, NEW l \in DOMAIN shards[i].entries, RemoveChunk(i, l) PROVE SentInv'
  BY <1>3, RemoveStep, Zenon
<1>4. CASE MergeLastTwo
  BY <1>4, MergeStep, Zenon
<1>5. CASE UNCHANGED vars
  <2>1. config' = config /\ shards' = shards /\ said' = said /\ removals' = removals /\ merges' = merges
    BY <1>5 DEF vars
  <2>2. MaxTokens' = MaxTokens /\ Overlap' = Overlap
    BY <2>1, SizesStay
  <2> QED BY <2>1, <2>2 DEF SentInv
<1> QED BY <1>1, <1>2, <1>3, <1>4, <1>5 DEF Next

\* The inductive invariant of Sentences.
THEOREM SentInvariant == Spec => []SentInv
<1>1. Init => SentInv
  BY SentInit
<1>2. SentInv /\ [Next]_vars => SentInv'
  BY SentNext
<1> QED BY <1>1, <1>2, PTL DEF Spec

\* The id a shard gives is larger than those it has.
LEMMA AutoSidAbove ==
    ASSUME NEW sd, NEW size, NEW overlap, NEW s, ShardOK(s, sd, size, overlap), NEW l \in 1 .. Len(s.entries)
    PROVE  s.entries[l].sid < AutoSid(s)
<1>1. s \in ShardRec /\ s.entries[l].sid <= s.auto_sentence_id
  BY DEF ShardOK
<1>2. Largest(s) \in Nat /\ s.entries[l].sid <= Largest(s) /\ s.auto_sentence_id \in Nat /\ s.entries[l] \in EntryRec
  BY <1>1, LargestIs, ShardIs
<1>3. s.entries[l].sid \in Nat
  BY <1>2 DEF EntryRec
<1>4. PICK x, a, m : x = s.entries[l].sid /\ a = s.auto_sentence_id /\ m = Largest(s)
  OBVIOUS
<1>5. AutoSid(s) = 1 + IF a = 0 THEN m ELSE a
  BY <1>4 DEF AutoSid
<1> QED BY <1>1, <1>2, <1>3, <1>4, <1>5

\* The id that append gives is larger than all the shard has.
LEMMA OwnIdStep ==
    ASSUME SentInv, NEW text \in Texts, AppendAuto(text), NEW j \in DOMAIN said,
           Len(shards) \in Homes(j), Len(shards') = Len(shards)
    PROVE  said[j].sid # said'[Len(said')].sid
<1>1. SentOK(shards, said, MaxTokens, Overlap)
  BY DEF SentInv
<1>2. shards \in Seq(ShardRec) /\ said \in Seq(SaidRec) /\ Len(shards) # 0
  BY <1>1 DEF SentOK
<1>3. PICK n : n = Len(shards)
  OBVIOUS
<1>4. n \in Nat /\ n \in 1 .. n /\ DOMAIN shards = 1 .. n
  BY <1>2, <1>3
<1>5. Store(Current, AutoSid(Current), text)
  BY DEF AppendAuto
<1>6. PICK r, d : shards' = SetCurrent(r) /\ said' = Append(said, d) /\ d.sid = AutoSid(Current)
  <2>1. PICK room \in Room(Current) :
          LET all == Chunks(text)
              kept == SubSeq(all, 1, IF room < Len(all) THEN room ELSE Len(all))
          IN /\ shards' = SetCurrent(PutAll(Known(Current, AutoSid(Current)), AutoSid(Current), kept))
             /\ said' = Append(said, [text |-> text, sid |-> AutoSid(Current), whole |-> room >= Len(all),
                                      removed |-> FALSE, merged |-> FALSE])
    BY <1>5 DEF Store
  <2>2. PICK d : d = [text |-> text, sid |-> AutoSid(Current), whole |-> room >= Len(Chunks(text)),
                      removed |-> FALSE, merged |-> FALSE]
    OBVIOUS
  <2>3. d.sid = AutoSid(Current)
    BY <2>2
  <2> QED BY <2>1, <2>2, <2>3
<1>7. ~Full
  <2> SUFFICES ASSUME Full PROVE FALSE
    OBVIOUS
  <2>1. shards' = Append(shards, r)
    BY <1>6 DEF SetCurrent
  <2>2. Len(shards') = n + 1
    BY <1>2, <1>3, <2>1, AppendProperties
  <2> QED BY <1>3, <1>4, <2>2
<1>8. Current = shards[n]
  BY <1>3, <1>7 DEF Current, Last
<1>9. PICK l \in DOMAIN shards[n].entries : shards[n].entries[l].of = j
  BY <1>3, <1>4 DEF Homes
<1>10. ShardOK(shards[n], said, MaxTokens, Overlap) /\ shards[n] \in ShardRec
  <2>1. ShardOK(shards[n], said, MaxTokens, Overlap)
    BY <1>1, <1>3, <1>4 DEF SentOK
  <2> QED BY <2>1 DEF ShardOK
<1>11. l \in 1 .. Len(shards[n].entries)
  BY <1>9, <1>10, ShardIs
<1>12. j # 0
  BY <1>2
<1>13. CutOut(shards[n].entries[l], said, MaxTokens, Overlap)
  BY <1>9, <1>10, <1>11, <1>12, NoEntryIs DEF ShardOK
<1>14. said[j].sid = shards[n].entries[l].sid
  BY <1>9, <1>13 DEF CutOut
<1>15. said[j].sid < AutoSid(Current)
  BY <1>8, <1>10, <1>11, <1>14, AutoSidAbove
<1>16. said'[Len(said')] = d
  BY <1>2, <1>6, AppendProperties
<1>17. said[j].sid \in Nat /\ AutoSid(Current) \in Nat
  <2>1. said[j] \in SaidRec
    BY <1>2, ElementOfSeq
  <2> QED BY <1>8, <1>10, <2>1, AutoSidIs DEF SaidRec
<1> QED BY <1>6, <1>15, <1>16, <1>17

\* The id a shard gives is that of no sentence it has.
THEOREM OwnIdsDoStayNew == Spec => OwnIdsAreNew
<1>1. SentInv /\ [Next]_vars =>
        [\A text \in Texts : AppendAuto(text) =>
            \A j \in DOMAIN said : Len(shards) \in Homes(j) /\ Len(shards') = Len(shards)
                                      => said[j].sid # said'[Len(said')].sid]_vars
  BY OwnIdStep
<1>2. Spec => [][Next]_vars
  BY PTL DEF Spec
<1> QED BY <1>1, <1>2, SentInvariant, PTL DEF OwnIdsAreNew

\* Types.
LEMMA EntryTypeIs ==
    ASSUME SentInv, NEW e \in EntryRec, e = NoEntry \/ CutOut(e, said, MaxTokens, Overlap)
    PROVE  EntryType(e)
<1>1. SentOK(shards, said, MaxTokens, Overlap) /\ config \in Configs
  BY DEF SentInv
<1>2. MaxTokens \in Nat \ {0} /\ Overlap \in 0 .. MaxTokens - 1
  BY <1>1, SizesAre
<1>3. said \in Seq(SaidRec) /\ Len(said) \in Nat
  BY <1>1 DEF SentOK
<1>4. e.sid \in Nat /\ e.start_tok \in Nat
  BY DEF EntryRec
<1>5. CASE e = NoEntry
  <2>1. e.of = 0 /\ e.end_tok - e.start_tok = 0
    BY <1>5 DEF NoEntry
  <2> QED BY <1>2, <1>3, <1>4, <2>1 DEF EntryType
<1>6. CASE CutOut(e, said, MaxTokens, Overlap)
  <2>1. PICK ws : ws = Cuts(said[e.of].text, MaxTokens, Overlap)
    OBVIOUS
  <2>2. PICK j \in 1 .. Len(ws) : Cut(e, said[e.of], MaxTokens, ws[j])
    BY <1>6, <2>1 DEF CutOut
  <2>3. e.of \in 1 .. Len(said)
    BY <1>6 DEF CutOut
  <2>4. said[e.of].text \in Seq(Letters)
    <3>1. said[e.of] \in SaidRec
      BY <1>3, <2>3, ElementOfSeq
    <3> QED BY <3>1, TextsAssumption DEF SaidRec, Letters
  <2>5. ws[j].last - ws[j].first \in 1 .. MaxTokens /\ ws[j].first \in Nat /\ ws[j].last \in Nat
    BY <1>2, <2>1, <2>4, CutsAre DEF CutsOK, Window
  <2>6. e.end_tok - e.start_tok = ws[j].last - ws[j].first
    BY <2>2, <2>5 DEF Cut
  <2>7. e.end_tok - e.start_tok \in 0 .. MaxTokens
    BY <1>2, <2>5, <2>6
  <2>8. e.of \in 0 .. Len(said)
    BY <1>3, <2>3
  <2> QED BY <1>4, <2>7, <2>8 DEF EntryType
<1> QED BY <1>5, <1>6

\* The invariant has the types.
LEMMA SentTypes == ASSUME SentInv PROVE TypeOK
<1>1. /\ config \in Configs /\ removals \in 0 .. MaxRemoved /\ merges \in 0 .. MaxMerges
      /\ Len(said) \in 0 .. MaxSentences /\ SentOK(shards, said, MaxTokens, Overlap)
  BY DEF SentInv
<1>2. ASSUME NEW i \in DOMAIN shards
      PROVE  /\ \A l \in DOMAIN shards[i].entries : EntryType(shards[i].entries[l])
             /\ {l \in DOMAIN shards[i].entries : shards[i].entries[l] = NoEntry}
                   = {shards[i].free[k] : k \in DOMAIN shards[i].free}
  <2>1. ShardOK(shards[i], said, MaxTokens, Overlap)
    <3>1. shards \in Seq(ShardRec)
      BY <1>1 DEF SentOK
    <3>2. i \in 1 .. Len(shards)
      BY <3>1, LenProperties
    <3> QED BY <1>1, <3>2 DEF SentOK
  <2>2. PICK s : s = shards[i]
    OBVIOUS
  <2>3. s \in ShardRec /\ FreeOK(s)
    BY <2>1, <2>2 DEF ShardOK
  <2>4. DOMAIN s.entries = 1 .. Len(s.entries) /\ DOMAIN s.free = 1 .. Len(s.free)
    BY <2>3, ShardIs
  <2>5. \A l \in 1 .. Len(s.entries) : EntryType(s.entries[l])
    <3>1. ASSUME NEW l \in 1 .. Len(s.entries) PROVE EntryType(s.entries[l])
      <4>1. s.entries[l] \in EntryRec /\ (s.entries[l] = NoEntry \/ CutOut(s.entries[l], said, MaxTokens, Overlap))
        <5>1. s.entries[l] \in EntryRec
          BY <2>3, ShardIs
        <5>2. s.entries[l] = NoEntry \/ CutOut(s.entries[l], said, MaxTokens, Overlap)
          BY <2>1, <2>2 DEF ShardOK
        <5> QED BY <5>1, <5>2
      <4> QED BY <4>1, EntryTypeIs, Zenon
    <3> QED BY <3>1
  <2> QED BY <2>2, <2>3, <2>4, <2>5 DEF FreeOK
<1> QED BY <1>1, <1>2 DEF TypeOK

\* Labels without an entry are those that wait, and no window is larger than the limit.
THEOREM SentTypeCorrect == Spec => []TypeOK
<1>1. SentInv => TypeOK
  BY SentTypes
<1> QED BY <1>1, SentInvariant, PTL

-----------------------------------------------------------------------------
(* A sentence that is whole is covered. *)

\* Sentence k and its windows.
SentenceOK(k) ==
    /\ k \in 1 .. Len(said) /\ said[k] \in SaidRec /\ said[k].text \in Seq(Letters)
    /\ MaxTokens \in Nat \ {0} /\ Overlap \in 0 .. MaxTokens - 1
    /\ CutsOK(said[k].text, MaxTokens, Overlap)

\* Every sentence is one.
LEMMA SentenceIs ==
    ASSUME SentInv, NEW k \in DOMAIN said
    PROVE  SentenceOK(k)
<1>1. said \in Seq(SaidRec) /\ config \in Configs
  BY DEF SentInv, SentOK
<1>2. k \in 1 .. Len(said)
  BY <1>1, LenProperties
<1>3. said[k] \in SaidRec
  BY <1>1, <1>2, ElementOfSeq
<1>4. said[k].text \in Seq(Letters)
  BY <1>3, TextsAssumption DEF SaidRec, Letters
<1>5. MaxTokens \in Nat \ {0} /\ Overlap \in 0 .. MaxTokens - 1
  BY <1>1, SizesAre
<1>6. CutsOK(said[k].text, MaxTokens, Overlap)
  BY <1>4, <1>5, CutsAre, Zenon
<1> QED BY <1>2, <1>3, <1>4, <1>5, <1>6 DEF SentenceOK

\* The windows of sentence k.
Ws(k) == Cuts(said[k].text, MaxTokens, Overlap)

\* A chain of windows of sentence k, which has at least one token.
ChainOK(k) ==
    /\ Count(k) \in Nat /\ Len(Ws(k)) \in Nat
    /\ Count(k) # 0 => Chain(Ws(k), 0, Count(k), MaxTokens, Overlap)
    /\ \A j \in 1 .. Len(Ws(k)) : Window(Ws(k)[j], Count(k)) /\ Ws(k)[j].first \in Nat /\ Ws(k)[j].last \in Nat

\* Its windows are a chain.
LEMMA SentenceChain ==
    ASSUME NEW k, SentenceOK(k)
    PROVE  ChainOK(k)
<1>1. CutsOK(said[k].text, MaxTokens, Overlap)
  BY DEF SentenceOK
<1>2. /\ Count(k) \in Nat /\ Len(Ws(k)) \in Nat
      /\ Count(k) # 0 => Chain(Ws(k), 0, Count(k), MaxTokens, Overlap)
      /\ \A j \in 1 .. Len(Ws(k)) : Window(Ws(k)[j], Count(k))
  BY <1>1 DEF CutsOK, Count, Ws
<1> QED BY <1>2 DEF ChainOK, Window

\* What a piece of a sentence is.
LEMMA PieceIs ==
    ASSUME SentInv, NEW k, SentenceOK(k), NEW e \in Pieces(k)
    PROVE  e \in EntryRec /\ e.of = k /\ e.sid = said[k].sid /\ \E j \in 1 .. Len(Ws(k)) : Cut(e, said[k], MaxTokens, Ws(k)[j])
<1>1. shards \in Seq(ShardRec) /\ SentOK(shards, said, MaxTokens, Overlap)
  BY DEF SentInv, SentOK
<1>2. PICK i \in Homes(k) : e \in ToSet(shards[i].entries) /\ e.of = k
  BY DEF Pieces
<1>3. i \in 1 .. Len(shards)
  BY <1>1, <1>2 DEF Homes
<1>4. ShardOK(shards[i], said, MaxTokens, Overlap)
  BY <1>1, <1>3 DEF SentOK
<1>5. shards[i] \in ShardRec
  BY <1>4 DEF ShardOK
<1>6. PICK l \in 1 .. Len(shards[i].entries) : shards[i].entries[l] = e
  BY <1>2, <1>5, ShardIs DEF ToSet
<1>7. e \in EntryRec
  BY <1>5, <1>6, ShardIs
<1>8. e # NoEntry
  BY <1>2, NoEntryIs DEF SentenceOK
<1>9. CutOut(e, said, MaxTokens, Overlap)
  BY <1>4, <1>6, <1>8 DEF ShardOK
<1>10. e.sid = said[k].sid /\ \E j \in 1 .. Len(Ws(k)) : Cut(e, said[k], MaxTokens, Ws(k)[j])
  BY <1>2, <1>9 DEF CutOut, Ws
<1> QED BY <1>2, <1>7, <1>10

\* Every window of a whole sentence has a piece.
LEMMA WindowHasPiece ==
    ASSUME SentInv, NEW k, SentenceOK(k), said[k].whole, ~said[k].removed, NEW j \in 1 .. Len(Ws(k))
    PROVE  \E e \in Pieces(k) : Cut(e, said[k], MaxTokens, Ws(k)[j])
<1>1. shards \in Seq(ShardRec) /\ SentOK(shards, said, MaxTokens, Overlap) /\ k \in 1 .. Len(said)
  BY DEF SentInv, SentOK, SentenceOK
<1>2. There(shards, said, k, MaxTokens, Ws(k)[j])
  <2>1. \A x \in 1 .. Len(Ws(k)) : There(shards, said, k, MaxTokens, Ws(k)[x])
    BY <1>1 DEF SentOK, AllThere, Ws
  <2> QED BY <2>1
<1>3. PICK i \in 1 .. Len(shards) : \E l \in 1 .. Len(shards[i].entries) :
         shards[i].entries[l].of = k /\ Cut(shards[i].entries[l], said[k], MaxTokens, Ws(k)[j])
  BY <1>2 DEF There
<1>4. PICK l \in 1 .. Len(shards[i].entries) :
         shards[i].entries[l].of = k /\ Cut(shards[i].entries[l], said[k], MaxTokens, Ws(k)[j])
  BY <1>3
<1>5. PICK e : e = shards[i].entries[l]
  OBVIOUS
<1>6. shards[i] \in ShardRec /\ DOMAIN shards = 1 .. Len(shards)
  BY <1>1, ElementOfSeq, LenProperties
<1>7. l \in DOMAIN shards[i].entries /\ i \in DOMAIN shards
  BY <1>6, ShardIs
<1>8. i \in Homes(k)
  BY <1>4, <1>7 DEF Homes
<1>9. e \in ToSet(shards[i].entries) /\ e.of = k
  BY <1>4, <1>5, <1>7 DEF ToSet
<1>10. e \in Pieces(k)
  BY <1>8, <1>9 DEF Pieces
<1> QED BY <1>4, <1>5, <1>10

\* A slice is the text from a to b.
SliceOK(text, w, a, b) ==
    /\ a \in 1 .. Len(text) /\ b \in 1 .. Len(text) /\ a <= b
    /\ Slice(text, w) \in Seq(Nat \union {Tab}) /\ Len(Slice(text, w)) = (b - a) + 1
    /\ \A i \in 1 .. (b - a) + 1 : Slice(text, w)[i] = text[(a + i) - 1]

\* A window of a text is such a slice.
LEMMA SliceAs ==
    ASSUME NEW text, text \in Seq(Nat \union {Tab}), NEW w, Window(w, Len(Tokens(text)))
    PROVE  SliceOK(text, w, Tokens(text)[w.first + 1], Tokens(text)[w.last])
<1>1. PICK a, b : a = Tokens(text)[w.first + 1] /\ b = Tokens(text)[w.last]
  OBVIOUS
<1>2. SliceOK(text, w, a, b)
  BY <1>1, SliceIs, SMTT(40) DEF SliceOK
<1> QED BY <1>1, <1>2

\* A slice contains the tokens of its window.
LEMMA SliceContains ==
    ASSUME NEW text, text \in Seq(Letters), NEW w, Window(w, Len(Tokens(text))),
           NEW t \in Nat, w.first < t, t <= w.last
    PROVE  Contains(Slice(text, w), text[Tokens(text)[t]])
<1>1. PICK T, a, b : T = Tokens(text) /\ a = T[w.first + 1] /\ b = T[w.last]
  OBVIOUS
<1>2. /\ a \in 1 .. Len(text) /\ b \in 1 .. Len(text) /\ a <= b /\ Len(text) \in Nat
      /\ Len(Slice(text, w)) = (b - a) + 1
      /\ \A i \in 1 .. (b - a) + 1 : Slice(text, w)[i] = text[(a + i) - 1]
  <2>1. text \in Seq(Nat \union {Tab})
    BY DEF Letters
  <2>2. a = Tokens(text)[w.first + 1] /\ b = Tokens(text)[w.last]
    BY <1>1
  <2>3. /\ a \in 1 .. Len(text) /\ b \in 1 .. Len(text) /\ a <= b
        /\ Len(Slice(text, w)) = (b - a) + 1
        /\ \A i \in 1 .. (b - a) + 1 : Slice(text, w)[i] = text[(a + i) - 1]
    <3>1. SliceOK(text, w, Tokens(text)[w.first + 1], Tokens(text)[w.last])
      BY <2>1, SliceAs, Zenon
    <3>2. SliceOK(text, w, a, b)
      BY <2>2, <3>1, Zenon
    <3> QED BY <3>2 DEF SliceOK
  <2>4. Len(text) \in Nat
    BY LenProperties
  <2> QED BY <2>3, <2>4
<1>3. Lists(T, Len(text), {x \in 1 .. Len(text) : text[x] > 0}) /\ Len(text) \in Nat
  BY <1>1, TokensAre DEF Letters
<1>4. /\ Len(T) \in Nat /\ \A j \in 1 .. Len(T) : T[j] \in 1 .. Len(text)
      /\ \A i, j \in 1 .. Len(T) : T[i] <= T[j] <=> i <= j
  BY <1>3, ListsAre
<1>5. PICK x : x = T[t]
  OBVIOUS
<1>6. t \in 1 .. Len(T) /\ w.first + 1 \in 1 .. Len(T) /\ w.last \in 1 .. Len(T) /\ w.first + 1 <= t
  BY <1>1, <1>4, SMTT(40) DEF Window
<1>7. x \in Nat /\ a <= x /\ x <= b
  BY <1>1, <1>4, <1>5, <1>6, SMTT(40)
<1>8. (x - a) + 1 \in 1 .. (b - a) + 1 /\ (a + ((x - a) + 1)) - 1 = x
  BY <1>2, <1>7
<1>9. Slice(text, w)[(x - a) + 1] = text[x]
  BY <1>2, <1>8
<1> QED BY <1>1, <1>2, <1>5, <1>8, <1>9 DEF Contains

\* A whole sentence of which nothing was removed is covered by its pieces.
LEMMA WholeIsCovered ==
    ASSUME SentInv, NEW k \in DOMAIN said, said[k].whole, ~said[k].removed
    PROVE  Covered(k)
<1>1. SentenceOK(k) /\ ChainOK(k)
  BY SentenceIs, SentenceChain, Zenon
<1>2. MaxTokens \in Nat \ {0} /\ Overlap \in 0 .. MaxTokens - 1 /\ said[k].text \in Seq(Letters)
  BY <1>1 DEF SentenceOK
<1>3. /\ Count(k) \in Nat /\ Len(Ws(k)) \in Nat
      /\ Count(k) # 0 => Chain(Ws(k), 0, Count(k), MaxTokens, Overlap)
      /\ \A j \in 1 .. Len(Ws(k)) : Window(Ws(k)[j], Count(k)) /\ Ws(k)[j].first \in Nat /\ Ws(k)[j].last \in Nat
  BY <1>1 DEF ChainOK
<1>4. ASSUME NEW t \in 1 .. Count(k) PROVE \E e \in Pieces(k) : Contains(e.text, Token(k, t))
  <2>1. Chain(Ws(k), 0, Count(k), MaxTokens, Overlap)
    BY <1>3
  <2>2. PICK j \in 1 .. Len(Ws(k)) : Ws(k)[j].first < t /\ t <= Ws(k)[j].last
    BY <1>2, <1>3, <2>1, ChainCovers
  <2>3. PICK e \in Pieces(k) : Cut(e, said[k], MaxTokens, Ws(k)[j])
    BY <1>1, WindowHasPiece
  <2>4. e.text = Slice(said[k].text, Ws(k)[j])
    BY <2>3 DEF Cut
  <2>5. Window(Ws(k)[j], Len(Tokens(said[k].text)))
    BY <1>3 DEF Count
  <2>6. Contains(Slice(said[k].text, Ws(k)[j]), said[k].text[Tokens(said[k].text)[t]])
    <3>1. t \in Nat
      OBVIOUS
    <3> QED BY <1>2, <2>2, <2>5, <3>1, SliceContains, Zenon
  <2> QED BY <2>4, <2>6 DEF Token
<1>5. ASSUME ~said[k].merged, NEW e \in Pieces(k), e.end_tok < Count(k)
      PROVE  \E f \in Pieces(k) : f.start_tok = e.end_tok - Overlap
  <2>1. PICK j \in 1 .. Len(Ws(k)) : Cut(e, said[k], MaxTokens, Ws(k)[j])
    BY <1>1, PieceIs
  <2>2. Regular(said[k], MaxTokens)
    BY <1>5 DEF Regular
  <2>3. e.end_tok = Ws(k)[j].last
    BY <2>1, <2>2 DEF Cut
  <2>4. Count(k) # 0
    BY <1>3 DEF Window
  <2>5. /\ Ws(k)[Len(Ws(k))].last = Count(k)
        /\ \A i \in 1 .. Len(Ws(k)) - 1 : Ws(k)[i + 1].first = Ws(k)[i].last - Overlap
    BY <1>2, <1>3, <2>4, ChainIs
  <2>6. j # Len(Ws(k))
    BY <1>3, <1>5, <2>3, <2>5
  <2>7. j \in 1 .. Len(Ws(k)) - 1 /\ j + 1 \in 1 .. Len(Ws(k))
    BY <1>3, <2>6
  <2>8. PICK f \in Pieces(k) : Cut(f, said[k], MaxTokens, Ws(k)[j + 1])
    BY <1>1, <2>7, WindowHasPiece
  <2>9. f.start_tok = Ws(k)[j + 1].first
    BY <2>2, <2>8 DEF Cut
  <2> QED BY <2>3, <2>5, <2>7, <2>9
<1> QED BY <1>4, <1>5 DEF Covered

-----------------------------------------------------------------------------
(* Putting together. *)

\* What grows from each place to the next grows from each to every later one.
LEMMA GrowsOn ==
    ASSUME NEW m \in Nat, NEW f, \A x \in 1 .. m : f[x] \in Nat, \A x \in 1 .. m - 1 : f[x] < f[x + 1],
           NEW x \in 1 .. m, NEW y \in 1 .. m, x < y
    PROVE  f[x] < f[y]
<1> DEFINE P == {k \in Nat : x + (k + 1) <= m => f[x] < f[x + (k + 1)]}
<1>1. 0 \in P
  <2>1. x + (0 + 1) = x + 1 /\ (x + 1 <= m => x \in 1 .. m - 1)
    OBVIOUS
  <2> QED BY <2>1
<1>2. ASSUME NEW k \in Nat, k \in P PROVE k + 1 \in P
  <2> SUFFICES ASSUME x + ((k + 1) + 1) <= m PROVE f[x] < f[x + ((k + 1) + 1)]
    <3>1. k + 1 \in Nat
      OBVIOUS
    <3> QED BY <3>1
  <2>1. PICK z : z = x + (k + 1)
    OBVIOUS
  <2>2. z \in 1 .. m - 1 /\ z \in 1 .. m /\ z + 1 = x + ((k + 1) + 1) /\ z <= m /\ z + 1 \in 1 .. m
    BY <2>1
  <2>3. f[x] < f[z]
    BY <1>2, <2>1, <2>2
  <2>4. f[z] < f[z + 1]
    BY <2>2
  <2>5. PICK a, b, c : a = f[x] /\ b = f[z] /\ c = f[z + 1]
    OBVIOUS
  <2>6. a \in Nat /\ b \in Nat /\ c \in Nat /\ a < b /\ b < c
    BY <2>2, <2>3, <2>4, <2>5
  <2>7. a < c
    BY <2>6
  <2> QED BY <2>2, <2>5, <2>7
<1>3. Nat \subseteq P
  <2> HIDE DEF P
  <2> QED BY <1>1, <1>2, Induction
<1>4. y - (x + 1) \in Nat /\ x + ((y - (x + 1)) + 1) = y
  OBVIOUS
<1>5. y - (x + 1) \in P
  <2> HIDE DEF P
  <2> QED BY <1>3, <1>4
<1> QED BY <1>4, <1>5

\* q has the labels in ls, sorted.
Ordered(s, ls, q, m) ==
    /\ m \in Nat /\ q \in [1 .. m -> ls]
    /\ \A l \in ls : \E x \in 1 .. m : q[x] = l
    /\ \A x, y \in 1 .. m : x < y => s.entries[q[x]].start_tok < s.entries[q[y]].start_tok

\* The entries of ls begin at different tokens.
Begin(s, ls) ==
    /\ ls \subseteq 1 .. Len(s.entries)
    /\ \A l, k \in ls : l # k => s.entries[l].start_tok # s.entries[k].start_tok

\* A one-to-one sequence of as many members as a set has has them all.
LEMMA AllInjected ==
    ASSUME NEW n \in Nat, NEW ls, ls \subseteq 1 .. n, NEW q \in [1 .. Cardinality(ls) -> ls],
           \A i, j \in 1 .. Cardinality(ls) : i # j => q[i] # q[j]
    PROVE  Cardinality(ls) \in Nat /\ \A l \in ls : \E x \in 1 .. Cardinality(ls) : q[x] = l
<1>1. IsFiniteSet(1 .. n)
  BY FS_Interval
<1>2. ls \in SUBSET (1 .. n)
  OBVIOUS
<1>3. IsFiniteSet(ls)
  BY <1>1, <1>2, FS_Subset, Zenon
<1>4. Cardinality(ls) \in Nat
  BY <1>3, FS_CardinalityType, Zenon
<1>5. PICK m : m = Cardinality(ls)
  OBVIOUS
<1>6. Cardinality(1 .. m) = m
  <2>1. Cardinality(1 .. m) = IF 1 > m THEN 0 ELSE (m - 1) + 1
    BY <1>4, <1>5, FS_Interval, SMTT(40)
  <2> QED BY <1>4, <1>5, <2>1
<1>7. q \in [1 .. m -> ls] /\ IsInjective(q)
  BY <1>5 DEF IsInjective
<1>8. q \in Injection(1 .. m, ls)
  BY <1>7 DEF Injection
<1>9. q \in Surjection(1 .. m, ls)
  BY <1>3, <1>5, <1>6, <1>8, FS_Injection
<1>10. \A l \in ls : \E x \in 1 .. m : q[x] = l
  BY <1>9 DEF Surjection
<1> QED BY <1>4, <1>5, <1>10

\* Sorted, the entries begin one after the other.
LEMMA InOrderIs ==
    ASSUME NEW s \in ShardRec, NEW ls, Begin(s, ls), NEW q \in InOrder(s, ls)
    PROVE  \E m : Ordered(s, ls, q, m)
<1>1. PICK m, n : m = Cardinality(ls) /\ n = Len(s.entries)
  OBVIOUS
<1>2. /\ q \in [1 .. m -> ls] /\ \A i, j \in 1 .. m : i # j => q[i] # q[j]
      /\ \A i \in 1 .. Len(q) - 1 : s.entries[q[i]].start_tok <= s.entries[q[i + 1]].start_tok
  BY <1>1 DEF InOrder, SetToSeqs
<1>3. n \in Nat /\ ls \subseteq 1 .. n
  BY <1>1, ShardIs DEF Begin
<1>4. m \in Nat /\ \A l \in ls : \E x \in 1 .. m : q[x] = l
  <2>1. q \in [1 .. Cardinality(ls) -> ls]
    BY <1>1, <1>2
  <2>2. \A i, j \in 1 .. Cardinality(ls) : i # j => q[i] # q[j]
    BY <1>1, <1>2
  <2>3. Cardinality(ls) \in Nat /\ \A l \in ls : \E x \in 1 .. Cardinality(ls) : q[x] = l
    BY <1>3, <2>1, <2>2, AllInjected
  <2> QED BY <1>1, <2>3
<1>5. Len(q) = m
  <2>1. q \in Seq(ls) /\ DOMAIN q = 1 .. m
    BY <1>2, <1>4
  <2> QED BY <1>4, <2>1, LenProperties
<1> DEFINE f == [x \in 1 .. m |-> s.entries[q[x]].start_tok]
<1>6. \A x \in 1 .. m : f[x] \in Nat
  <2>1. ASSUME NEW x \in 1 .. m PROVE f[x] \in Nat
    <3>1. q[x] \in 1 .. Len(s.entries)
      BY <1>1, <1>2, <1>3
    <3>2. s.entries[q[x]] \in EntryRec
      BY <3>1, ShardIs
    <3> QED BY <3>2 DEF EntryRec
  <2> QED BY <2>1
<1>7. \A x \in 1 .. m - 1 : f[x] < f[x + 1]
  <2>1. ASSUME NEW x \in 1 .. m - 1 PROVE f[x] < f[x + 1]
    <3>1. x \in 1 .. m /\ x + 1 \in 1 .. m /\ x # x + 1
      BY <1>4
    <3>2. f[x] <= f[x + 1]
      BY <1>2, <1>5, <3>1
    <3>3. q[x] # q[x + 1] /\ q[x] \in ls /\ q[x + 1] \in ls
      BY <1>2, <3>1
    <3>4. s.entries[q[x]].start_tok # s.entries[q[x + 1]].start_tok
      BY <3>3 DEF Begin
    <3>5. f[x] # f[x + 1]
      BY <3>1, <3>4
    <3>6. f[x] \in Nat /\ f[x + 1] \in Nat
      BY <1>6, <3>1
    <3> HIDE DEF f
    <3> QED BY <3>2, <3>5, <3>6
  <2> QED BY <2>1
<1>8. \A x, y \in 1 .. m : x < y => f[x] < f[y]
  <2> HIDE DEF f
  <2> QED BY <1>4, <1>6, <1>7, GrowsOn
<1>9. \A x, y \in 1 .. m : x < y => s.entries[q[x]].start_tok < s.entries[q[y]].start_tok
  BY <1>8
<1>10. Ordered(s, ls, q, m)
  BY <1>2, <1>4, <1>9 DEF Ordered
<1> QED BY <1>10

\* What joining goes through.
AccRec == [last_end : Nat, text : Seq(Letters)]
NoText == [last_end |-> 0, text |-> <<>>]

\* Where skipping ends is in the text.
LEMMA SkipIn ==
    ASSUME NEW u, u \in Seq(Letters), NEW o \in Nat
    PROVE  Skip(u, o) \in Nat /\ Skip(u, o) <= Len(u)
<1>1. PICK n : n = Len(u)
  OBVIOUS
<1>2. n \in Nat
  BY <1>1, LenProperties
<1>3. PICK B, A : B = Where(u, {Blank}) /\ A = {x \in 1 .. n : u[x] \in {Blank}} /\ Lists(Where(u, {Blank}), n, A)
  BY <1>1, <1>2, WhereLists
<1>4. Lists(B, n, A)
  BY <1>3
<1>5. Len(B) \in Nat /\ \A j \in 1 .. Len(B) : B[j] \in 1 .. n
  BY <1>2, <1>4, ListsAre
<1>6. Skip(u, o) = IF o = 0 THEN 0 ELSE IF o <= Len(B) THEN B[o] ELSE n
  BY <1>1, <1>3 DEF Skip
<1>7. CASE o = 0
  BY <1>1, <1>2, <1>6, <1>7
<1>8. CASE o # 0 /\ o <= Len(B)
  <2>1. o \in 1 .. Len(B)
    BY <1>5, <1>8
  <2>2. B[o] \in 1 .. n
    BY <1>5, <2>1
  <2>3. Skip(u, o) = B[o]
    BY <1>6, <1>8
  <2> QED BY <1>1, <1>2, <2>2, <2>3
<1>9. CASE o # 0 /\ ~(o <= Len(B))
  BY <1>1, <1>2, <1>6, <1>9
<1> QED BY <1>7, <1>8, <1>9

\* How many tokens of e an earlier entry, which ends with token last_end, has.
Common(acc, e) == IF acc.last_end > e.start_tok THEN acc.last_end - e.start_tok ELSE 0

\* What joining makes.
JoinText(acc, e, skip) ==
    IF acc.text = <<>> THEN e.text
    ELSE IF skip < Len(e.text) THEN acc.text \o <<Blank>> \o SubSeq(e.text, skip + 1, Len(e.text))
    ELSE acc.text

\* Joining an entry: common tokens are skipped, the rest follows a blank.
LEMMA JoinIs ==
    ASSUME NEW acc \in AccRec, NEW e \in EntryRec
    PROVE  /\ Common(acc, e) \in Nat /\ Join(acc, e) \in AccRec /\ Join(acc, e).last_end = e.end_tok
           /\ Join(acc, e).text = JoinText(acc, e, Skip(e.text, Common(acc, e)))
<1>1. acc.last_end \in Nat /\ acc.text \in Seq(Letters)
  BY DEF AccRec
<1>2. e.start_tok \in Nat /\ e.end_tok \in Nat /\ e.text \in Seq(Letters)
  BY DEF EntryRec
<1>3. Common(acc, e) \in Nat
  BY <1>1, <1>2 DEF Common
<1>4. PICK skip : skip = Skip(e.text, Common(acc, e))
  OBVIOUS
<1>5. skip \in Nat /\ skip <= Len(e.text)
  BY <1>2, <1>3, <1>4, SkipIn
<1>6. PICK t : t = JoinText(acc, e, skip)
  OBVIOUS
<1>7. t \in Seq(Letters)
  <2>1. CASE acc.text = <<>>
    BY <1>2, <1>6, <2>1 DEF JoinText
  <2>2. CASE acc.text # <<>> /\ skip < Len(e.text)
    <3>1. t = acc.text \o <<Blank>> \o SubSeq(e.text, skip + 1, Len(e.text))
      BY <1>6, <2>2 DEF JoinText
    <3>2. Len(e.text) \in Nat /\ Len(e.text) \in skip + 1 .. Len(e.text)
      BY <1>2, <1>5, <2>2
    <3>3. SubSeq(e.text, skip + 1, Len(e.text)) \in Seq(Letters)
      BY <1>2, <1>5, <3>2, ContainsInRest
    <3>4. <<Blank>> \in Seq(Letters)
      BY DEF Letters, Blank
    <3>5. acc.text \o <<Blank>> \in Seq(Letters)
      BY <1>1, <3>4, ConcatProperties
    <3>6. (acc.text \o <<Blank>>) \o SubSeq(e.text, skip + 1, Len(e.text)) \in Seq(Letters)
      BY <3>3, <3>5, ConcatProperties
    <3> QED BY <3>1, <3>6
  <2>3. CASE acc.text # <<>> /\ ~(skip < Len(e.text))
    BY <1>1, <1>6, <2>3 DEF JoinText
  <2> QED BY <2>1, <2>2, <2>3
<1>8. Join(acc, e) = [last_end |-> e.end_tok, text |-> t]
  BY <1>4, <1>6 DEF Join, JoinText, Common
<1> QED BY <1>2, <1>3, <1>4, <1>6, <1>7, <1>8 DEF AccRec

\* h has what is joined after each number of entries.
Joining(h, s, q, m) ==
    /\ h \in [0 .. m -> AccRec] /\ h[0] = NoText
    /\ \A k \in 1 .. m : h[k] = Join(h[k - 1], s.entries[q[k]])
    /\ JoinAll(s, q) = h[m]

\* JoinAll joins one entry after the other.
LEMMA JoinAllGoes ==
    ASSUME NEW s, NEW m \in Nat, NEW q, DOMAIN q = 1 .. m, \A c \in 1 .. m : s.entries[q[c]] \in EntryRec
    PROVE  \E h : Joining(h, s, q, m)
<1> DEFINE Body(it) == [t \in SUBSET (1 .. m) |->
                           IF t = {} THEN NoText ELSE Join(it[t \ {Max(t)}], s.entries[q[Max(t)]])]
           iter == CHOOSE it : it = Body(it)
           step == [p \in (1 .. m) \X AccRec |-> Join(p[2], s.entries[q[p[1]]])]
<1>0. step \in [(1 .. m) \X AccRec -> AccRec] /\ NoText \in AccRec
  <2>1. NoText \in AccRec
    <3>1. <<>> \in Seq(Letters)
      OBVIOUS
    <3> QED BY <3>1 DEF NoText, AccRec
  <2>2. ASSUME NEW k \in 1 .. m, NEW t \in AccRec PROVE Join(t, s.entries[q[k]]) \in AccRec
    BY JoinIs
  <2>3. step \in [(1 .. m) \X AccRec -> AccRec]
    BY <2>2, Zenon
  <2> QED BY <2>1, <2>3
<1>1. PICK g : FoldsBy(g, m, AccRec, NoText, step)
  <2> HIDE DEF step
  <2> QED BY <1>0, FoldExists, Zenon
<1>2. g = Body(g)
  <2> g \in [SUBSET (1 .. m) -> AccRec]
    BY <1>1 DEF FoldsBy
  <2> SUFFICES ASSUME NEW t \in SUBSET (1 .. m)
               PROVE  g[t] = IF t = {} THEN NoText ELSE Join(g[t \ {Max(t)}], s.entries[q[Max(t)]])
    BY Zenon
  <2>1. CASE t = {}
    BY <1>1, <2>1 DEF FoldsBy
  <2>2. CASE t # {}
    <3>1. Max(t) \in 1 .. m /\ t \ {Max(t)} \in SUBSET (1 .. m)
      BY <2>2, MaxIs
    <3>2. g[t \ {Max(t)}] \in AccRec
      BY <1>1, <3>1 DEF FoldsBy
    <3>3. g[t] = step[<<Max(t), g[t \ {Max(t)}]>>]
      BY <1>1, <2>2 DEF FoldsBy
    <3> QED BY <2>2, <3>1, <3>2, <3>3
  <2> QED BY <2>1, <2>2
<1>3. iter = Body(iter)
  BY <1>2
<1>4. JoinAll(s, q) = iter[1 .. m]
  BY DEF JoinAll, FoldLeft, MapThenFoldSet, NoText
<1> HIDE DEF iter
<1>5. \A t \in SUBSET (1 .. m) :
         iter[t] = IF t = {} THEN NoText ELSE Join(iter[t \ {Max(t)}], s.entries[q[Max(t)]])
  BY <1>3
<1>6. iter[{}] = NoText
  BY <1>5
<1>7. StepsBy(iter, m, AccRec, step)
  <2> SUFFICES ASSUME NEW t \in SUBSET (1 .. m), t # {}, iter[t \ {Max(t)}] \in AccRec
               PROVE  iter[t] = step[<<Max(t), iter[t \ {Max(t)}]>>]
    BY Zenon DEF StepsBy
  <2>1. Max(t) \in 1 .. m
    BY MaxIs
  <2>2. iter[t] = Join(iter[t \ {Max(t)}], s.entries[q[Max(t)]])
    BY <1>5, Zenon
  <2> QED BY <2>1, <2>2
<1>8. PICK h : Recurs(h, m, AccRec, NoText, step) /\ h[m] = iter[1 .. m]
  <2> HIDE DEF step
  <2>1. PICK T, base, at, go : T = AccRec /\ base = NoText /\ at = iter /\ go = step
    OBVIOUS
  <2>2. go \in [(1 .. m) \X T -> T]
    BY <1>0, <2>1
  <2>3. base \in T
    BY <1>0, <2>1
  <2>4. at[{}] = base
    BY <1>6, <2>1
  <2>5. StepsBy(at, m, T, go)
    BY <1>7, <2>1
  <2>6. \E h : Recurs(h, m, T, base, go) /\ h[m] = at[1 .. m]
    BY <2>2, <2>3, <2>4, <2>5, FoldUnrolls
  <2> QED BY <2>1, <2>6
<1>9. h \in [0 .. m -> AccRec] /\ h[0] = NoText /\ \A k \in 1 .. m : h[k] = step[<<k, h[k - 1]>>]
  <2> HIDE DEF step
  <2> QED BY <1>8 DEF Recurs
<1>10. ASSUME NEW k \in 1 .. m PROVE h[k] = Join(h[k - 1], s.entries[q[k]])
  <2>1. k - 1 \in 0 .. m
    OBVIOUS
  <2>2. h[k - 1] \in AccRec /\ h[k] = step[<<k, h[k - 1]>>]
    BY <1>9, <2>1
  <2> QED BY <2>2
<1> QED BY <1>4, <1>8, <1>9, <1>10 DEF Joining

\* e is what window w makes of text.
Matches(e, text, w) == e.start_tok = w.first /\ e.end_tok = w.last /\ e.text = Slice(text, w)

\* Token t of a text.
TokenOf(text, t) == text[Tokens(text)[t]]

\* Where the tokens of a slice are in it.
SliceHas(text, w, u, U) ==
    /\ U = Tokens(u) /\ Len(U) = w.last - w.first /\ Len(u) \in Nat
    /\ \A i \in 1 .. w.last - w.first : U[i] \in 1 .. Len(u) /\ u[U[i]] = TokenOf(text, w.first + i)
    /\ \A i, j \in 1 .. w.last - w.first : U[i] <= U[j] <=> i <= j

\* The tokens of a slice are those of its window.
LEMMA SliceHasTokens ==
    ASSUME NEW text, text \in Seq(Letters), NEW w, Window(w, Len(Tokens(text)))
    PROVE  SliceHas(text, w, Slice(text, w), Tokens(Slice(text, w)))
<1>1. PICK T, a, b, u, f, c : /\ T = Tokens(text) /\ f = w.first /\ c = w.last - w.first /\ u = Slice(text, w)
                              /\ a = T[w.first + 1] /\ b = T[w.last]
  OBVIOUS
<1>2. text \in Seq(Nat \union {Tab})
  BY DEF Letters
<1>3. SliceOK(text, w, a, b)
  BY <1>1, <1>2, SliceAs
<1>4. /\ u \in Seq(Nat \union {Tab}) /\ Len(u) = (b - a) + 1 /\ a \in 1 .. Len(text) /\ b \in 1 .. Len(text) /\ a <= b
      /\ \A i \in 1 .. (b - a) + 1 : u[i] = text[(a + i) - 1]
  BY <1>1, <1>3 DEF SliceOK
<1>5. Lists(T, Len(text), {x \in 1 .. Len(text) : text[x] > 0}) /\ Len(text) \in Nat
  BY <1>1, <1>2, TokensAre
<1>6. /\ Len(T) \in Nat /\ \A j \in 1 .. Len(T) : T[j] \in 1 .. Len(text)
      /\ \A i, j \in 1 .. Len(T) : T[i] <= T[j] <=> i <= j
  BY <1>5, ListsAre
<1>7. f \in Nat /\ c \in Nat /\ w.last = f + c /\ f + c <= Len(T) /\ c # 0
  BY <1>1, SMTT(40) DEF Window
<1>8. PICK U : U = Tokens(u)
  OBVIOUS
<1>9. U = [i \in 1 .. c |-> (T[f + i] - a) + 1]
  <2>1. Tokens(Slice(text, w)) = [i \in 1 .. w.last - w.first |-> (Tokens(text)[w.first + i] - Tokens(text)[w.first + 1]) + 1]
    BY <1>2, SliceTokens, Zenon
  <2> QED BY <1>1, <1>8, <2>1
<1>10. Len(U) = c
  BY <1>7, <1>9
<1>11. ASSUME NEW i \in 1 .. c PROVE /\ T[f + i] \in 1 .. Len(text) /\ a <= T[f + i] /\ T[f + i] <= b
                                    /\ U[i] = (T[f + i] - a) + 1
  <2>1. f + i \in 1 .. Len(T) /\ f + 1 \in 1 .. Len(T) /\ f + c \in 1 .. Len(T) /\ f + 1 <= f + i /\ f + i <= f + c
    BY <1>6, <1>7
  <2>2. T[f + 1] <= T[f + i] /\ T[f + i] <= T[f + c] /\ T[f + i] \in 1 .. Len(text)
    BY <1>6, <2>1
  <2>3. a = T[f + 1] /\ b = T[f + c]
    BY <1>1, <1>7
  <2>4. U[i] = (T[f + i] - a) + 1
    BY <1>9
  <2> QED BY <2>2, <2>3, <2>4
<1>12. ASSUME NEW i \in 1 .. c PROVE U[i] \in 1 .. Len(u) /\ u[U[i]] = TokenOf(text, f + i)
  <2>1. PICK x, y : x = T[f + i] /\ y = U[i]
    OBVIOUS
  <2>2. x \in 1 .. Len(text) /\ a <= x /\ x <= b /\ y = (x - a) + 1
    BY <1>11, <2>1
  <2>3. y \in 1 .. (b - a) + 1 /\ (a + y) - 1 = x
    BY <1>4, <1>5, <2>2
  <2>4. u[y] = text[x]
    BY <1>4, <2>3
  <2> QED BY <1>1, <1>4, <2>1, <2>3, <2>4 DEF TokenOf
<1>13. ASSUME NEW i \in 1 .. c, NEW j \in 1 .. c PROVE U[i] <= U[j] <=> i <= j
  <2>1. f + i \in 1 .. Len(T) /\ f + j \in 1 .. Len(T) /\ (f + i <= f + j <=> i <= j)
    BY <1>6, <1>7
  <2>2. T[f + i] <= T[f + j] <=> i <= j
    BY <1>6, <2>1
  <2>3. PICK x, y : x = T[f + i] /\ y = T[f + j]
    OBVIOUS
  <2>4. x \in Nat /\ y \in Nat /\ a \in Nat
    BY <1>4, <1>5, <1>11, <2>3, SMTT(40)
  <2>5. U[i] = (x - a) + 1 /\ U[j] = (y - a) + 1
    BY <1>11, <2>3
  <2>6. x <= y <=> i <= j
    BY <2>2, <2>3
  <2>7. (x - a) + 1 <= (y - a) + 1 <=> x <= y
    BY <2>4
  <2> QED BY <2>5, <2>6, <2>7, Zenon
<1>14. Len(u) \in Nat
  BY <1>4, LenProperties
<1>15. SliceHas(text, w, u, U)
  BY <1>1, <1>8, <1>10, <1>12, <1>13, <1>14 DEF SliceHas
<1> QED BY <1>1, <1>8, <1>15

\* A slice of a text is one.
LEMMA SliceTextOK ==
    ASSUME NEW text, text \in Seq(Nat), TextOK(text), NEW w, Window(w, Len(Tokens(text)))
    PROVE  Slice(text, w) \in Seq(Nat) /\ TextOK(Slice(text, w))
<1>1. PICK a, b, u, n : a = Tokens(text)[w.first + 1] /\ b = Tokens(text)[w.last] /\ u = Slice(text, w) /\ n = (b - a) + 1
  OBVIOUS
<1>2. text \in Seq(Nat \union {Tab}) /\ \A i \in 1 .. Len(text) - 1 : text[i] > 0 => text[i + 1] \in {Blank, Tab}
  BY DEF TextOK
<1>3. SliceOK(text, w, a, b)
  BY <1>1, <1>2, SliceAs
<1>4. /\ u \in Seq(Nat \union {Tab}) /\ Len(u) = n /\ a \in 1 .. Len(text) /\ b \in 1 .. Len(text) /\ a <= b
      /\ \A i \in 1 .. n : u[i] = text[(a + i) - 1]
  BY <1>1, <1>3 DEF SliceOK
<1>5. Len(text) \in Nat /\ n \in Nat /\ \A i \in 1 .. Len(text) : text[i] \in Nat
  BY <1>1, <1>4, LenProperties, ElementOfSeq
<1>6. \A i \in 1 .. n : (a + i) - 1 \in 1 .. Len(text) /\ (i \in 1 .. n - 1 => (a + i) - 1 \in 1 .. Len(text) - 1)
  <2>1. PICK N : N = Len(text)
    OBVIOUS
  <2>2. N \in Nat /\ a \in 1 .. N /\ b \in 1 .. N /\ a <= b /\ n = (b - a) + 1
    BY <1>1, <1>4, <1>5, <2>1
  <2>3. \A i \in 1 .. n : (a + i) - 1 \in 1 .. N /\ (i \in 1 .. n - 1 => (a + i) - 1 \in 1 .. N - 1)
    BY <2>2
  <2> QED BY <2>1, <2>3
<1>7. \A i \in 1 .. n : u[i] \in Nat
  BY <1>4, <1>5, <1>6
<1>8. u \in Seq(Nat)
  <2>1. DOMAIN u = 1 .. n
    BY <1>4, LenProperties
  <2>2. u \in [1 .. n -> Nat]
    BY <1>4, <1>7, <2>1
  <2> QED BY <1>5, <2>2
<1>9. ASSUME NEW i \in 1 .. n - 1, u[i] > 0 PROVE u[i + 1] \in {Blank, Tab}
  <2>1. PICK x : x = (a + i) - 1
    OBVIOUS
  <2>2. i \in 1 .. n /\ i + 1 \in 1 .. n /\ (a + (i + 1)) - 1 = x + 1 /\ x \in 1 .. Len(text) - 1
    BY <1>4, <1>5, <1>6, <2>1
  <2>3. u[i] = text[x] /\ u[i + 1] = text[x + 1]
    BY <1>4, <2>1, <2>2
  <2> QED BY <1>2, <1>9, <2>2, <2>3
<1>10. TextOK(u)
  BY <1>4, <1>9 DEF TextOK
<1> QED BY <1>1, <1>8, <1>10

\* u has the tokens of a text up to token n.
HasUpTo(u, text, n) == \A t \in 1 .. n : Contains(u, TokenOf(text, t))

\* An entry that begins no later than what was joined ends adds its tokens.
LEMMA JoinKeeps ==
    ASSUME NEW text, text \in Seq(Nat), TextOK(text), NEW w, Window(w, Len(Tokens(text))),
           NEW acc \in AccRec, NEW e \in EntryRec, Matches(e, text, w),
           w.first <= acc.last_end, acc.last_end < w.last, HasUpTo(acc.text, text, acc.last_end)
    PROVE  HasUpTo(Join(acc, e).text, text, w.last)
<1>1. PICK u, U, f, c, l, at, o : /\ u = e.text /\ U = Tokens(u) /\ f = w.first /\ c = w.last - w.first
                              /\ l = acc.last_end /\ at = acc.text /\ o = acc.last_end - w.first
  OBVIOUS
<1>2. u = Slice(text, w) /\ e.start_tok = f /\ e.end_tok = w.last
  BY <1>1 DEF Matches
<1>3. text \in Seq(Letters)
  BY DEF TextOK, Letters
<1>4. u \in Seq(Nat) /\ TextOK(u)
  BY <1>2, SliceTextOK
<1>5. SliceHas(text, w, u, U)
  BY <1>1, <1>2, <1>3, SliceHasTokens
<1>6. f \in Nat /\ c \in Nat /\ l \in Nat /\ o \in Nat /\ o < c /\ w.last = f + c /\ l = f + o /\ at \in Seq(Letters)
  BY <1>1, SMTT(40) DEF Window, AccRec
<1>7. /\ Len(U) = c /\ Len(u) \in Nat
      /\ \A i \in 1 .. c : U[i] \in 1 .. Len(u) /\ u[U[i]] = TokenOf(text, f + i)
      /\ \A i, j \in 1 .. c : U[i] <= U[j] <=> i <= j
  BY <1>1, <1>5 DEF SliceHas
<1>8. Common(acc, e) = o
  BY <1>1, <1>2, <1>6 DEF Common
<1>9. PICK skip : skip = Skip(u, o)
  OBVIOUS
<1>10. skip \in Nat /\ skip < U[o + 1]
  BY <1>1, <1>4, <1>6, <1>7, <1>9, SkipBefore
<1>11. U[o + 1] <= Len(u) /\ U[o + 1] \in Nat
  <2>1. o + 1 \in 1 .. c
    BY <1>6
  <2>2. U[o + 1] \in 1 .. Len(u)
    BY <1>7, <2>1
  <2> QED BY <1>7, <2>2
<1>12. skip < Len(u)
  BY <1>7, <1>10, <1>11
<1>13. PICK r : r = SubSeq(u, skip + 1, Len(u))
  OBVIOUS
<1>14. Join(acc, e).text = IF at = <<>> THEN u ELSE at \o <<Blank>> \o r
  <2>1. Join(acc, e).text = JoinText(acc, e, Skip(e.text, Common(acc, e)))
    BY JoinIs
  <2>2. Join(acc, e).text = JoinText(acc, e, skip)
    BY <1>1, <1>8, <1>9, <2>1
  <2> QED BY <1>1, <1>12, <1>13, <2>2 DEF JoinText
\* The tokens that are new, and those that are not.
<1>15. ASSUME NEW i \in 1 .. c PROVE Contains(u, TokenOf(text, f + i))
  BY <1>7 DEF Contains
<1>16. u \in Seq(Letters)
  <2>1. \A i \in 1 .. Len(u) : u[i] \in Letters
    BY <1>4, ElementOfSeq DEF Letters
  <2>2. u \in [1 .. Len(u) -> Letters]
    BY <1>4, <2>1
  <2> QED BY <1>7, <2>2, SMTT(40)
<1>17. ASSUME NEW i \in o + 1 .. c PROVE r \in Seq(Letters) /\ Contains(r, TokenOf(text, f + i))
  <2>1. i \in 1 .. c /\ o + 1 \in 1 .. c /\ o + 1 <= i
    BY <1>6
  <2>2. U[o + 1] <= U[i] /\ U[i] \in 1 .. Len(u) /\ u[U[i]] = TokenOf(text, f + i)
    BY <1>7, <2>1
  <2>3. PICK x : x = U[i]
    OBVIOUS
  <2>4. x \in skip + 1 .. Len(u)
    BY <1>7, <1>10, <1>11, <2>2, <2>3
  <2>5. r \in Seq(Letters) /\ Contains(r, u[x])
    BY <1>10, <1>13, <1>16, <2>4, ContainsInRest
  <2> QED BY <2>2, <2>3, <2>5
<1>18. ASSUME NEW t \in 1 .. w.last PROVE Contains(Join(acc, e).text, TokenOf(text, t))
  <2>1. CASE at = <<>>
    <3>1. ~(t \in 1 .. l)
      <4>1. ASSUME t \in 1 .. l PROVE FALSE
        <5>1. Contains(at, TokenOf(text, t))
          BY <1>1, <4>1 DEF HasUpTo
        <5> QED BY <2>1, <5>1 DEF Contains
      <4> QED BY <4>1
    <3>2. t - f \in 1 .. c /\ f + (t - f) = t
      BY <1>6, <3>1
    <3> QED BY <1>14, <1>15, <2>1, <3>2
  <2>2. CASE at # <<>>
    <3>1. Join(acc, e).text = (at \o <<Blank>>) \o r
      BY <1>14, <2>2
    <3>2. <<Blank>> \in Seq(Letters) /\ r \in Seq(Letters)
      <4>1. c \in o + 1 .. c
        BY <1>6
      <4>2. r \in Seq(Letters)
        BY <1>17, <4>1
      <4> QED BY <4>2 DEF Letters, Blank
    <3>3a. PICK z : z = at \o <<Blank>>
      OBVIOUS
    <3>3. z \in Seq(Letters) /\ Join(acc, e).text = z \o r
      BY <1>6, <3>1, <3>2, <3>3a, ConcatProperties
    <3>6. ASSUME NEW x, Contains(z, x) \/ Contains(r, x) PROVE Contains(z \o r, x)
      BY <3>2, <3>3, <3>6, ContainsInConcat
    <3>4. CASE t \in 1 .. l
      <4>1. Contains(at, TokenOf(text, t))
        BY <1>1, <3>4 DEF HasUpTo
      <4>2. Contains(at \o <<Blank>>, TokenOf(text, t))
        BY <1>6, <3>2, <4>1, ContainsInConcat
      <4> QED BY <3>3, <3>3a, <3>6, <4>2
    <3>5. CASE ~(t \in 1 .. l)
      <4>1. t - f \in o + 1 .. c /\ f + (t - f) = t
        BY <1>6, <3>5
      <4>2. Contains(r, TokenOf(text, t))
        BY <1>17, <4>1
      <4> QED BY <3>3, <3>6, <4>2
    <3> QED BY <3>4, <3>5
  <2> QED BY <2>1, <2>2
<1> QED BY <1>18 DEF HasUpTo

\* The entries of q are those of windows j[1], j[2], ... of a text.
Reading(s, q, m, text, ws, j) ==
    /\ \A x \in 1 .. m : j[x] \in 1 .. Len(ws) /\ s.entries[q[x]] \in EntryRec /\ Matches(s.entries[q[x]], text, ws[j[x]])
    /\ \A x, y \in 1 .. m : x < y => j[x] < j[y]

\* Sorted by their first tokens, entries are in the order of their windows.
LEMMA ReadingIs ==
    ASSUME NEW s \in ShardRec, NEW ls, Begin(s, ls), NEW q, NEW m, Ordered(s, ls, q, m),
           NEW text, NEW n \in Nat, NEW size \in Nat \ {0}, NEW overlap \in 0 .. size - 1,
           NEW ws, Chain(ws, 0, n, size, overlap),
           \A l \in ls : \E i \in 1 .. Len(ws) : Matches(s.entries[l], text, ws[i])
    PROVE  \E j : Reading(s, q, m, text, ws, j)
<1>1. /\ m \in Nat /\ q \in [1 .. m -> ls]
      /\ \A x, y \in 1 .. m : x < y => s.entries[q[x]].start_tok < s.entries[q[y]].start_tok
  BY DEF Ordered
<1>2. Len(ws) \in Nat /\ \A i \in 1 .. Len(ws) : ws[i].first \in Nat
  BY ChainIs
<1> DEFINE j == [x \in 1 .. m |-> CHOOSE i \in 1 .. Len(ws) : Matches(s.entries[q[x]], text, ws[i])]
<1>3. \A x \in 1 .. m : j[x] \in 1 .. Len(ws) /\ Matches(s.entries[q[x]], text, ws[j[x]])
  <2>1. ASSUME NEW x \in 1 .. m PROVE j[x] \in 1 .. Len(ws) /\ Matches(s.entries[q[x]], text, ws[j[x]])
    <3>1. \E i \in 1 .. Len(ws) : Matches(s.entries[q[x]], text, ws[i])
      BY <1>1
    <3> QED BY <3>1
  <2> QED BY <2>1
<1> HIDE DEF j
<1>4. \A x \in 1 .. m : s.entries[q[x]] \in EntryRec
  <2>1. \A x \in 1 .. m : q[x] \in 1 .. Len(s.entries)
    BY <1>1 DEF Begin
  <2> QED BY <2>1, ShardIs
<1>5. ASSUME NEW x \in 1 .. m, NEW y \in 1 .. m, x < y PROVE j[x] < j[y]
  <2>1. PICK a, b : a = j[x] /\ b = j[y]
    OBVIOUS
  <2>2. a \in 1 .. Len(ws) /\ b \in 1 .. Len(ws)
    BY <1>3, <2>1
  <2>3. ws[a].first < ws[b].first
    BY <1>1, <1>3, <1>5, <2>1 DEF Matches
  <2>4. ~(b < a)
    <3>1. ASSUME b < a PROVE FALSE
      <4>1. ws[b].first < ws[a].first
        BY <2>2, <3>1, ChainOrder
      <4>2. ws[a].first \in Nat /\ ws[b].first \in Nat
        BY <1>2, <2>2
      <4> QED BY <2>3, <4>1, <4>2
    <3> QED BY <3>1
  <2>5. a # b
    <3>1. ASSUME a = b PROVE FALSE
      <4>1. ws[a].first \in Nat /\ ws[a].first < ws[a].first
        BY <1>2, <2>2, <2>3, <3>1
      <4> QED BY <4>1
    <3> QED BY <3>1
  <2>6. a < b
    BY <1>2, <2>2, <2>4, <2>5
  <2> QED BY <2>1, <2>6
<1>6. Reading(s, q, m, text, ws, j)
  BY <1>3, <1>4, <1>5 DEF Reading
<1> QED BY <1>6

\* Shard s has all of sentence k, at labels ls, and nothing else that bears its id.
HomeIs(k, s, ls) ==
    /\ s \in ShardRec /\ ShardOK(s, said, MaxTokens, Overlap)
    /\ ls = LabelsOf(s, said[k].sid) /\ ls \subseteq 1 .. Len(s.entries) /\ ls # {}
    /\ \A l \in ls : s.entries[l].of = k /\ s.entries[l] \in Pieces(k)
    /\ \A e \in Pieces(k) : \E l \in ls : s.entries[l] = e
    /\ ReconstructSid(said[k].sid) = Reconstructions(s, said[k].sid)

\* A sentence that shares its id with no other is read from the shard that has it.
LEMMA HomeExists ==
    ASSUME SentInv, NEW k, SentenceOK(k), Pieces(k) # {}, Alone(k)
    PROVE  \E s, ls : HomeIs(k, s, ls)
<1>1. /\ shards \in Seq(ShardRec) /\ OneHome(shards) /\ k \in 1 .. Len(said) /\ k # 0
      /\ \A i \in 1 .. Len(shards) : ShardOK(shards[i], said, MaxTokens, Overlap)
  BY DEF SentInv, SentOK, SentenceOK
<1>2. DOMAIN shards = 1 .. Len(shards) /\ Len(shards) \in Nat
  BY <1>1, LenProperties
<1>3. PICK sid : sid = said[k].sid
  OBVIOUS
<1>4. \A i \in 1 .. Len(shards) : shards[i] \in ShardRec /\ DOMAIN shards[i].entries = 1 .. Len(shards[i].entries)
  <2>1. ASSUME NEW i \in 1 .. Len(shards)
        PROVE  shards[i] \in ShardRec /\ DOMAIN shards[i].entries = 1 .. Len(shards[i].entries)
    <3>1. shards[i] \in ShardRec
      BY <1>1 DEF ShardOK
    <3> QED BY <3>1, ShardIs
  <2> QED BY <2>1
<1>5. ASSUME NEW i \in 1 .. Len(shards), NEW l \in 1 .. Len(shards[i].entries)
      PROVE  shards[i].entries[l].of = k <=> shards[i].entries[l].sid = sid
  <2>1. ASSUME shards[i].entries[l].sid = sid PROVE shards[i].entries[l].of = k
    <3>1. l \in LabelsOf(shards[i], sid)
      BY <1>4, <2>1 DEF LabelsOf
    <3> QED BY <1>2, <1>3, <3>1 DEF Alone
  <2>2. ASSUME shards[i].entries[l].of = k PROVE shards[i].entries[l].sid = sid
    <3>1. shards[i].entries[l] # NoEntry
      BY <1>1, <2>2, NoEntryIs
    <3>2. CutOut(shards[i].entries[l], said, MaxTokens, Overlap)
      BY <1>1, <3>1 DEF ShardOK
    <3> QED BY <1>3, <2>2, <3>2 DEF CutOut
  <2> QED BY <2>1, <2>2
<1>6. PICK i \in Homes(k) : TRUE
  BY DEF Pieces
<1>7. i \in 1 .. Len(shards) /\ \E l \in 1 .. Len(shards[i].entries) : shards[i].entries[l].of = k
  BY <1>2, <1>4, <1>6 DEF Homes
<1>8. PICK s, ls : s = shards[i] /\ ls = LabelsOf(s, sid)
  OBVIOUS
<1>9. s \in ShardRec /\ ShardOK(s, said, MaxTokens, Overlap) /\ DOMAIN s.entries = 1 .. Len(s.entries)
  BY <1>1, <1>4, <1>7, <1>8
<1>10. \A l : l \in ls <=> l \in 1 .. Len(s.entries) /\ s.entries[l].of = k
  <2>1. \A l : l \in ls <=> l \in 1 .. Len(s.entries) /\ s.entries[l].sid = sid
    BY <1>8, <1>9 DEF LabelsOf
  <2> QED BY <1>5, <1>7, <1>8, <2>1
<1>11. ASSUME NEW x \in 1 .. Len(shards), NEW m \in 1 .. Len(shards[x].entries), shards[x].entries[m].of = k
       PROVE  x = i
  <2>1. PICK l \in 1 .. Len(shards[i].entries) : shards[i].entries[l].of = k
    BY <1>7
  <2> QED BY <1>1, <1>7, <1>11, <2>1, HomesAgree
<1>12. Having(sid) = {i}
  <2>1. ASSUME NEW x \in Having(sid) PROVE x = i
    <3>1. x \in 1 .. Len(shards) /\ LabelsOf(shards[x], sid) # {}
      BY <1>2, <2>1 DEF Having
    <3>2. PICK m \in LabelsOf(shards[x], sid) : TRUE
      BY <3>1
    <3>3. m \in 1 .. Len(shards[x].entries) /\ shards[x].entries[m].sid = sid
      BY <1>4, <3>1, <3>2 DEF LabelsOf
    <3> QED BY <1>5, <1>11, <3>1, <3>3
  <2>2. i \in Having(sid)
    <3>1. ls # {}
      BY <1>7, <1>8, <1>10
    <3> QED BY <1>2, <1>7, <1>8, <3>1 DEF Having
  <2> QED BY <2>1, <2>2
<1>13. ReconstructSid(sid) = Reconstructions(s, sid)
  <2>1. PICK H : H = Having(sid)
    OBVIOUS
  <2>2. ReconstructSid(sid) = Reconstructions(shards[CHOOSE x \in H : \A y \in H : x <= y], sid)
    BY <1>12, <2>1 DEF ReconstructSid
  <2>3. (CHOOSE x \in H : \A y \in H : x <= y) = i
    <3>1. i <= i
      BY <1>2, <1>7
    <3> QED BY <1>12, <2>1, <3>1
  <2> QED BY <1>8, <2>2, <2>3
<1>14. \A l \in ls : s.entries[l] \in Pieces(k)
  <2>1. \A l \in ls : s.entries[l] \in ToSet(shards[i].entries) /\ s.entries[l].of = k
    BY <1>8, <1>9, <1>10 DEF ToSet
  <2> QED BY <1>6, <2>1 DEF Pieces
<1>15. \A e \in Pieces(k) : \E l \in ls : s.entries[l] = e
  <2>1. ASSUME NEW e \in Pieces(k) PROVE \E l \in ls : s.entries[l] = e
    <3>1. PICK x \in Homes(k) : e \in ToSet(shards[x].entries) /\ e.of = k
      BY DEF Pieces
    <3>2. x \in 1 .. Len(shards)
      BY <1>2, <3>1 DEF Homes
    <3>3. PICK m \in 1 .. Len(shards[x].entries) : shards[x].entries[m] = e
      BY <1>4, <3>1, <3>2 DEF ToSet
    <3>4. x = i
      BY <1>11, <3>1, <3>2, <3>3
    <3>5. m \in ls /\ s.entries[m] = e
      BY <1>8, <1>10, <3>1, <3>3, <3>4
    <3> QED BY <3>5
  <2> QED BY <2>1
<1>16. ls # {} /\ ls \subseteq 1 .. Len(s.entries)
  BY <1>7, <1>8, <1>10
<1>17. HomeIs(k, s, ls)
  BY <1>3, <1>8, <1>9, <1>10, <1>13, <1>14, <1>15, <1>16 DEF HomeIs
<1> QED BY <1>17

\* Sentence k is in windows that are read in order.
Readable(k, s, ls) ==
    /\ Begin(s, ls)
    /\ \A l \in ls : s.entries[l] \in EntryRec /\
          \E i \in 1 .. Len(Ws(k)) : Matches(s.entries[l], said[k].text, Ws(k)[i])

\* So is a sentence that was not merged, or has one window only.
LEMMA RegularIsReadable ==
    ASSUME SentInv, NEW k, SentenceOK(k), Regular(said[k], MaxTokens), NEW s, NEW ls, HomeIs(k, s, ls)
    PROVE  Readable(k, s, ls)
<1>1. /\ s \in ShardRec /\ ShardOK(s, said, MaxTokens, Overlap) /\ ls \subseteq 1 .. Len(s.entries)
      /\ \A l \in ls : s.entries[l].of = k /\ s.entries[l] \in Pieces(k)
  BY DEF HomeIs
<1>2. k \in 1 .. Len(said)
  BY DEF SentenceOK
<1>3. Begin(s, ls)
  <2>1. ASSUME NEW l \in ls, NEW m \in ls, l # m PROVE s.entries[l].start_tok # s.entries[m].start_tok
    <3>1. s.entries[l].of = k /\ s.entries[m].of = k /\ l \in 1 .. Len(s.entries) /\ m \in 1 .. Len(s.entries)
      BY <1>1
    <3> QED BY <1>1, <1>2, <2>1, <3>1 DEF ShardOK, Apart
  <2> QED BY <1>1, <2>1 DEF Begin
<1>4. ASSUME NEW l \in ls
      PROVE  s.entries[l] \in EntryRec /\ \E i \in 1 .. Len(Ws(k)) : Matches(s.entries[l], said[k].text, Ws(k)[i])
  <2>1. PICK e : e = s.entries[l]
    OBVIOUS
  <2>2. e \in Pieces(k)
    BY <1>1, <2>1
  <2>3. e \in EntryRec /\ \E i \in 1 .. Len(Ws(k)) : Cut(e, said[k], MaxTokens, Ws(k)[i])
    BY <2>2, PieceIs
  <2> QED BY <2>1, <2>3 DEF Cut, Matches
<1> QED BY <1>3, <1>4 DEF Readable

\* j goes through all windows, one after the other.
Through(j, m, ws) ==
    /\ m >= 1 /\ j[1] = 1 /\ j[m] = Len(ws)
    /\ \A x \in 1 .. m - 1 : j[x + 1] = j[x] + 1

\* Where every window has an entry, the entries are those of the windows in order.
LEMMA AllRead ==
    ASSUME NEW s, NEW ls, NEW q, NEW m, Ordered(s, ls, q, m),
           NEW text, NEW n \in Nat, NEW size \in Nat \ {0}, NEW overlap \in 0 .. size - 1,
           NEW ws, Chain(ws, 0, n, size, overlap), NEW j, Reading(s, q, m, text, ws, j),
           \A i \in 1 .. Len(ws) : \E l \in ls : s.entries[l].start_tok = ws[i].first
    PROVE  Through(j, m, ws)
<1>1. m \in Nat /\ \A l \in ls : \E x \in 1 .. m : q[x] = l
  BY DEF Ordered
<1>2. Len(ws) \in Nat /\ Len(ws) >= 1 /\ \A i \in 1 .. Len(ws) : ws[i].first \in Nat
  BY ChainIs
<1>3. /\ \A x \in 1 .. m : j[x] \in 1 .. Len(ws) /\ s.entries[q[x]].start_tok = ws[j[x]].first
      /\ \A x, y \in 1 .. m : x < y => j[x] < j[y]
  BY DEF Reading, Matches
<1>4. ASSUME NEW a \in 1 .. Len(ws), NEW b \in 1 .. Len(ws), ws[a].first = ws[b].first PROVE a = b
  <2>1. ~(ws[a].first < ws[b].first) /\ ~(ws[b].first < ws[a].first)
    BY <1>2, <1>4
  <2>2. ~(a < b) /\ ~(b < a)
    BY <2>1, ChainOrder
  <2> QED BY <1>2, <2>2
<1>5. ASSUME NEW i \in 1 .. Len(ws) PROVE \E x \in 1 .. m : j[x] = i
  <2>1. PICK l \in ls : s.entries[l].start_tok = ws[i].first
    OBVIOUS
  <2>2. PICK x \in 1 .. m : q[x] = l
    BY <1>1
  <2>3. j[x] \in 1 .. Len(ws) /\ ws[j[x]].first = ws[i].first
    BY <1>3, <2>1, <2>2
  <2>4. j[x] = i
    BY <1>4, <2>3
  <2> QED BY <2>4
<1>6. \A x \in 1 .. m : j[x] \in Nat /\ j[x] <= Len(ws) /\ 1 <= j[x]
  BY <1>2, <1>3
<1>7. m >= 1 /\ j[1] = 1
  <2>1. 1 \in 1 .. Len(ws)
    BY <1>2
  <2>2. PICK x \in 1 .. m : j[x] = 1
    BY <1>5, <2>1
  <2>3. m >= 1 /\ 1 \in 1 .. m
    BY <1>1, <2>2
  <2>4. ~(1 < x)
    <3>1. ASSUME 1 < x PROVE FALSE
      <4>1. j[1] < 1
        BY <1>3, <2>2, <2>3, <3>1
      <4> QED BY <1>6, <2>3, <4>1
    <3> QED BY <3>1
  <2>5. x = 1
    BY <2>4
  <2> QED BY <2>2, <2>3, <2>5
<1>8. j[m] = Len(ws)
  <2>1. Len(ws) \in 1 .. Len(ws) /\ m \in 1 .. m
    BY <1>1, <1>2, <1>7
  <2>2. PICK x \in 1 .. m : j[x] = Len(ws)
    BY <1>5, <2>1
  <2>3. ~(x < m)
    <3>1. ASSUME x < m PROVE FALSE
      <4>1. Len(ws) < j[m]
        BY <1>3, <2>1, <2>2, <3>1
      <4>2. j[m] <= Len(ws) /\ j[m] \in Nat
        BY <1>6, <2>1
      <4> QED BY <1>2, <4>1, <4>2
    <3> QED BY <3>1
  <2>4. x = m
    BY <1>1, <2>3
  <2> QED BY <2>2, <2>4
<1>9. ASSUME NEW x \in 1 .. m - 1 PROVE j[x + 1] = j[x] + 1
  <2>1. x \in 1 .. m /\ x + 1 \in 1 .. m /\ x < x + 1
    BY <1>1
  <2>2. PICK a, b : a = j[x] /\ b = j[x + 1]
    OBVIOUS
  <2>3. a \in Nat /\ b \in Nat /\ 1 <= a /\ b <= Len(ws) /\ a < b
    BY <1>3, <1>6, <2>1, <2>2
  <2>4. a + 1 \in 1 .. Len(ws)
    BY <1>2, <2>3
  <2>5. PICK y \in 1 .. m : j[y] = a + 1
    BY <1>5, <2>4
  <2>6. ~(y < x) /\ y # x
    <3>1. ~(a + 1 < a) /\ a + 1 # a
      BY <2>3
    <3> QED BY <1>3, <2>1, <2>2, <2>5, <3>1
  <2>7. ~(x + 1 < y)
    <3>1. ASSUME x + 1 < y PROVE FALSE
      <4>1. b < a + 1
        BY <1>3, <2>1, <2>2, <2>5, <3>1
      <4> QED BY <2>3, <4>1
    <3> QED BY <3>1
  <2>8. y = x + 1
    BY <1>1, <2>6, <2>7
  <2> QED BY <2>2, <2>5, <2>8
<1> QED BY <1>7, <1>8, <1>9 DEF Through

\* Joined, the entries of all windows have all tokens.
LEMMA JoinedHasAll ==
    ASSUME NEW text, text \in Seq(Nat), TextOK(text), NEW n \in Nat, n = Len(Tokens(text)),
           NEW size \in Nat \ {0}, NEW overlap \in 0 .. size - 1, NEW ws, Chain(ws, 0, n, size, overlap),
           NEW s, NEW q, NEW m \in Nat, NEW j, Reading(s, q, m, text, ws, j), Through(j, m, ws),
           NEW h, Joining(h, s, q, m)
    PROVE  HasUpTo(h[m].text, text, n)
<1>1. /\ \A x \in 1 .. m : j[x] \in 1 .. Len(ws) /\ s.entries[q[x]] \in EntryRec /\ Matches(s.entries[q[x]], text, ws[j[x]])
  BY DEF Reading
<1>2. m >= 1 /\ j[1] = 1 /\ j[m] = Len(ws) /\ \A x \in 1 .. m - 1 : j[x + 1] = j[x] + 1
  BY DEF Through
<1>3. /\ Len(ws) \in Nat /\ Len(ws) >= 1 /\ ws[1].first = 0 /\ ws[Len(ws)].last = n
      /\ \A i \in 1 .. Len(ws) :
            /\ Window(ws[i], n) /\ ws[i].first \in Nat /\ ws[i].last \in Nat /\ ws[i].first < ws[i].last
      /\ \A i \in 1 .. Len(ws) - 1 : ws[i + 1].first = ws[i].last - overlap /\ ws[i].last < ws[i + 1].last
  BY ChainIs
<1>4. /\ h \in [0 .. m -> AccRec] /\ h[0] = NoText
      /\ \A x \in 1 .. m : h[x] = Join(h[x - 1], s.entries[q[x]])
  BY DEF Joining
<1> DEFINE Good(x) == h[x].last_end = ws[j[x]].last /\ HasUpTo(h[x].text, text, ws[j[x]].last)
\* What an entry adds.
<1>5. ASSUME NEW x \in 1 .. m, ws[j[x]].first <= h[x - 1].last_end, h[x - 1].last_end < ws[j[x]].last,
             HasUpTo(h[x - 1].text, text, h[x - 1].last_end)
      PROVE  Good(x)
  <2>1. PICK acc, e, w : acc = h[x - 1] /\ e = s.entries[q[x]] /\ w = ws[j[x]]
    OBVIOUS
  <2>2. x - 1 \in 0 .. m
    OBVIOUS
  <2>3. acc \in AccRec /\ e \in EntryRec /\ Matches(e, text, w) /\ Window(w, Len(Tokens(text))) /\ h[x] = Join(acc, e)
    BY <1>1, <1>3, <1>4, <2>1, <2>2
  <2>4. w.first <= acc.last_end /\ acc.last_end < w.last /\ HasUpTo(acc.text, text, acc.last_end)
    BY <1>5, <2>1
  <2>5. HasUpTo(Join(acc, e).text, text, w.last)
    BY <2>3, <2>4, JoinKeeps
  <2>6. Join(acc, e).last_end = w.last
    BY <2>3, JoinIs DEF Matches
  <2> QED BY <2>1, <2>3, <2>5, <2>6
<1> DEFINE P == {x \in Nat : x \in 1 .. m => Good(x)}
<1>6. 0 \in P
  OBVIOUS
<1>7. ASSUME NEW x \in Nat, x \in P PROVE x + 1 \in P
  <2> SUFFICES ASSUME x + 1 \in 1 .. m PROVE Good(x + 1)
    OBVIOUS
  <2>1. (x + 1) - 1 = x
    OBVIOUS
  <2>2. CASE x = 0
    <3>1. h[x].last_end = 0 /\ HasUpTo(h[x].text, text, 0)
      BY <1>4, <2>2 DEF NoText, HasUpTo
    <3>2. j[x + 1] = 1 /\ ws[1].first = 0 /\ 0 < ws[1].last
      <4>1. 1 \in 1 .. Len(ws)
        BY <1>3
      <4> QED BY <1>2, <1>3, <2>2, <4>1
    <3>3. PICK a, b : a = h[x].last_end /\ b = j[x + 1]
      OBVIOUS
    <3>4. a = 0 /\ ws[b].first <= a /\ a < ws[b].last /\ HasUpTo(h[x].text, text, a)
      BY <3>1, <3>2, <3>3
    <3>5. /\ ws[j[x + 1]].first <= h[(x + 1) - 1].last_end /\ h[(x + 1) - 1].last_end < ws[j[x + 1]].last
          /\ HasUpTo(h[(x + 1) - 1].text, text, h[(x + 1) - 1].last_end)
      BY <2>1, <3>3, <3>4
    <3> HIDE DEF Good
    <3> QED BY <1>5, <3>5
  <2>3. CASE x # 0
    <3>1. x \in 1 .. m - 1 /\ x \in 1 .. m
      BY <2>3
    <3>2. Good(x)
      BY <1>7, <3>1
    <3>3. j[x + 1] = j[x] + 1 /\ j[x] \in 1 .. Len(ws) /\ j[x + 1] \in 1 .. Len(ws)
      BY <1>1, <1>2, <3>1
    <3>4. PICK a : a = j[x]
      OBVIOUS
    <3>5. a \in 1 .. Len(ws) - 1 /\ j[x + 1] = a + 1 /\ a \in 1 .. Len(ws)
      BY <1>3, <3>3, <3>4, SMTT(40)
    <3>6. ws[a + 1].first = ws[a].last - overlap /\ ws[a].last < ws[a + 1].last /\ ws[a].last \in Nat
      BY <1>3, <3>5
    <3>7. ws[a + 1].first <= ws[a].last
      BY <3>6
    <3>8. ws[j[x + 1]].first <= h[x].last_end /\ h[x].last_end < ws[j[x + 1]].last /\ HasUpTo(h[x].text, text, h[x].last_end)
      BY <3>2, <3>4, <3>5, <3>6, <3>7
    <3> HIDE DEF Good
    <3> QED BY <1>5, <2>1, <3>8
  <2> QED BY <2>2, <2>3
<1>8. Nat \subseteq P
  <2> HIDE DEF P
  <2> QED BY <1>6, <1>7, Induction
<1>9. m \in 1 .. m /\ m \in P
  <2> HIDE DEF P
  <2> QED BY <1>2, <1>8
<1>10. Good(m)
  BY <1>9
<1> QED BY <1>2, <1>3, <1>10

\* A whole sentence without a tab comes back with all its tokens.
LEMMA WholeComesBack ==
    ASSUME SentInv, NEW k \in DOMAIN said, said[k].whole, ~said[k].removed, ~said[k].merged, Alone(k),
           ~Contains(said[k].text, Tab), NEW r \in ReconstructSid(said[k].sid), NEW t \in 1 .. Count(k)
    PROVE  Contains(r, Token(k, t))
<1>1. SentenceOK(k) /\ ChainOK(k)
  BY SentenceIs, SentenceChain, Zenon
<1>2. PICK text, n, ws : text = said[k].text /\ n = Count(k) /\ ws = Ws(k)
  OBVIOUS
<1>3. /\ MaxTokens \in Nat \ {0} /\ Overlap \in 0 .. MaxTokens - 1 /\ text \in Seq(Letters) /\ said[k] \in SaidRec
  BY <1>1, <1>2 DEF SentenceOK
<1>4. n \in Nat /\ n # 0 /\ Chain(ws, 0, n, MaxTokens, Overlap) /\ n = Len(Tokens(text))
  <2>1. Count(k) \in Nat /\ Count(k) # 0
    BY <1>1 DEF ChainOK
  <2> QED BY <1>1, <1>2, <2>1 DEF ChainOK, Count
<1>5. TextOK(text)
  BY <1>2, <1>3, TextsAssumption DEF TextOK, SaidRec
<1>6. text \in Seq(Nat)
  <2>1. Len(text) \in Nat /\ DOMAIN text = 1 .. Len(text)
    BY <1>3, LenProperties
  <2>2. \A i \in 1 .. Len(text) : text[i] \in Letters /\ text[i] # Tab
    BY <1>2, <1>3, ElementOfSeq DEF Contains
  <2>3. text \in [1 .. Len(text) -> Nat]
    <3>1. text \in [1 .. Len(text) -> Letters]
      BY <1>3, <2>1
    <3> QED BY <2>2, <3>1 DEF Letters
  <2> QED BY <2>1, <2>3
<1>7. Regular(said[k], MaxTokens)
  BY DEF Regular
<1>8. \A i \in 1 .. Len(ws) : \E e \in Pieces(k) : Cut(e, said[k], MaxTokens, ws[i])
  <2>1. ASSUME NEW i \in 1 .. Len(Ws(k)) PROVE \E e \in Pieces(k) : Cut(e, said[k], MaxTokens, Ws(k)[i])
    BY <1>1, WindowHasPiece
  <2> QED BY <1>2, <2>1
<1>9. Pieces(k) # {}
  <2>1. 1 \in 1 .. Len(ws)
    BY <1>3, <1>4, ChainIs
  <2> QED BY <1>8, <2>1
<1>10. PICK s, ls : HomeIs(k, s, ls)
  BY <1>1, <1>9, HomeExists
<1>11. Readable(k, s, ls)
  BY <1>1, <1>7, <1>10, RegularIsReadable
<1>12. PICK sid : sid = said[k].sid
  OBVIOUS
<1>13. s \in ShardRec /\ ls = LabelsOf(s, sid) /\ r \in Reconstructions(s, sid)
  BY <1>10, <1>12 DEF HomeIs
<1>14. PICK q \in InOrder(s, ls) : r = JoinAll(s, q).text
  BY <1>13 DEF Reconstructions
<1>15. PICK m : Ordered(s, ls, q, m)
  BY <1>11, <1>13, InOrderIs DEF Readable
<1>16. PICK j : Reading(s, q, m, text, ws, j)
  <2>1. \A l \in ls : \E i \in 1 .. Len(ws) : Matches(s.entries[l], text, ws[i])
    BY <1>2, <1>11 DEF Readable
  <2>2. Begin(s, ls)
    BY <1>11 DEF Readable
  <2> QED BY <1>3, <1>4, <1>13, <1>15, <2>1, <2>2, ReadingIs
<1>17. \A i \in 1 .. Len(ws) : \E l \in ls : s.entries[l].start_tok = ws[i].first
  <2>1. ASSUME NEW i \in 1 .. Len(ws) PROVE \E l \in ls : s.entries[l].start_tok = ws[i].first
    <3>1. PICK e \in Pieces(k) : Cut(e, said[k], MaxTokens, ws[i])
      BY <1>8
    <3>2. e.start_tok = ws[i].first
      BY <1>7, <3>1 DEF Cut
    <3>3. PICK l \in ls : s.entries[l] = e
      BY <1>10 DEF HomeIs
    <3> QED BY <3>2, <3>3
  <2> QED BY <2>1
<1>18. Through(j, m, ws)
  BY <1>3, <1>4, <1>15, <1>16, <1>17, AllRead
<1>19. m \in Nat /\ DOMAIN q = 1 .. m
  BY <1>15 DEF Ordered
<1>20. PICK h : Joining(h, s, q, m)
  <2>1. \A c \in 1 .. m : s.entries[q[c]] \in EntryRec
    BY <1>16 DEF Reading
  <2> QED BY <1>19, <2>1, JoinAllGoes
<1>21. HasUpTo(h[m].text, text, n)
  BY <1>3, <1>4, <1>5, <1>6, <1>16, <1>18, <1>19, <1>20, JoinedHasAll
<1>22. r = h[m].text
  BY <1>14, <1>20 DEF Joining
<1> QED BY <1>2, <1>21, <1>22 DEF HasUpTo, TokenOf, Token

\* A sentence stored whole, of which nothing was removed, is covered by its pieces and
\* comes back with every token.
THEOREM NoTokenIsLost == Spec => []LosesNoToken
<1>1. SentInv => LosesNoToken
  <2> SUFFICES ASSUME SentInv PROVE LosesNoToken
    OBVIOUS
  <2>1. TypeOK
    BY SentTypes
  <2>2. ASSUME NEW k \in DOMAIN said, said[k].whole, ~said[k].removed
        PROVE  /\ Covered(k)
               /\ ~said[k].merged /\ Alone(k) /\ ~Contains(said[k].text, Tab) =>
                     \A r \in ReconstructSid(said[k].sid), i \in 1 .. Count(k) : Contains(r, Token(k, i))
    <3>1. Covered(k)
      BY <2>2, WholeIsCovered
    <3>2. ASSUME ~said[k].merged, Alone(k), ~Contains(said[k].text, Tab),
                 NEW r \in ReconstructSid(said[k].sid), NEW i \in 1 .. Count(k)
          PROVE  Contains(r, Token(k, i))
      BY <2>2, <3>2, WholeComesBack
    <3> QED BY <3>1, <3>2
  <2> QED BY <2>1, <2>2 DEF LosesNoToken
<1> QED BY <1>1, SentInvariant, PTL

-----------------------------------------------------------------------------
(* Texts with single blanks. *)

\* A list that grows lists what it has.
LEMMA ListedBy ==
    ASSUME NEW n \in Nat, NEW c \in Nat, NEW w \in [1 .. c -> 1 .. n], \A i, j \in 1 .. c : i < j => w[i] < w[j],
           NEW A, \A x : x \in A <=> \E i \in 1 .. c : w[i] = x
    PROVE  Lists(w, n, A) /\ Len(w) = c
<1>1. w \in Seq(1 .. n) /\ DOMAIN w = 1 .. c
  OBVIOUS
<1>2. Len(w) = c
  BY <1>1, LenProperties
<1>3. Increasing(w)
  BY <1>2 DEF Increasing
<1>4. {w[i] : i \in 1 .. Len(w)} = A
  BY <1>2
<1> QED BY <1>1, <1>2, <1>3, <1>4 DEF Lists

\* u has the tokens of the text in w, with one blank between.
IsSpread(u, text, w) ==
    /\ u \in Seq(Letters) /\ Len(w) \in Nat /\ Len(w) >= 1 /\ Len(u) = (2 * Len(w)) - 1
    /\ \A i \in 1 .. Len(w) : u[(2 * i) - 1] = TokenOf(text, w[i])
    /\ \A i \in 1 .. Len(w) - 1 : u[2 * i] = Blank

\* Odd and even places up to 2 c - 1.
LEMMA OddOrEven ==
    ASSUME NEW c \in Nat, c >= 1
    PROVE  /\ \A x \in 1 .. (2 * c) - 1 : x % 2 = 1 => ((x + 1) \div 2) \in 1 .. c /\ x = (2 * ((x + 1) \div 2)) - 1
           /\ \A x \in 1 .. (2 * c) - 1 : x % 2 # 1 => (x \div 2) \in 1 .. c - 1 /\ x = 2 * (x \div 2) /\ x % 2 = 0
           /\ \A i \in 1 .. c : (2 * i) - 1 \in 1 .. (2 * c) - 1 /\ ((2 * i) - 1) % 2 = 1
           /\ \A i \in 1 .. c - 1 : 2 * i \in 1 .. (2 * c) - 1 /\ (2 * i) % 2 = 0
  OBVIOUS

\* The tokens of a text with single blanks stand at the odd places.
LEMMA SpacedTokens ==
    ASSUME NEW text, text \in Seq(Letters), Spaced(text)
    PROVE  \A i \in 1 .. Len(Tokens(text)) : Tokens(text)[i] = (2 * i) - 1
<1>1. PICK N, c : N = Len(text) /\ c = (Len(text) + 1) \div 2
  OBVIOUS
<1>2. N \in Nat /\ DOMAIN text = 1 .. N /\ c = (N + 1) \div 2
  BY <1>1, LenProperties
<1>3. c \in Nat /\ (2 * c = N \/ 2 * c = N + 1)
  BY <1>2
<1>4. \A i \in 1 .. N : text[i] > 0 <=> i % 2 # 0
  <2>1. \A i \in 1 .. N : (text[i] > 0 \/ text[i] = 0) /\ (i % 2 = 0 <=> text[i] = 0)
    BY <1>2 DEF Spaced, Blank
  <2> QED BY <2>1
<1> DEFINE w == [i \in 1 .. c |-> (2 * i) - 1]
           A == {x \in 1 .. N : text[x] > 0}
<1>5. w \in [1 .. c -> 1 .. N] /\ \A i, j \in 1 .. c : i < j => w[i] < w[j]
  BY <1>2, <1>3
<1>6. \A x : x \in A <=> \E i \in 1 .. c : w[i] = x
  <2>1. ASSUME NEW x \in 1 .. N, x % 2 # 0 PROVE \E i \in 1 .. c : w[i] = x
    <3>1. PICK i : i = (x + 1) \div 2
      OBVIOUS
    <3>2. i \in 1 .. c /\ (2 * i) - 1 = x
      BY <1>2, <1>3, <2>1, <3>1
    <3> QED BY <3>2
  <2>2. ASSUME NEW i \in 1 .. c PROVE w[i] \in 1 .. N /\ w[i] % 2 # 0
    BY <1>2, <1>3
  <2> HIDE DEF w
  <2> QED BY <1>4, <2>1, <2>2
<1>7. Lists(w, N, A)
  <2> HIDE DEF w, A
  <2> QED BY <1>2, <1>3, <1>5, <1>6, ListedBy
<1>8. Lists(Tokens(text), N, A)
  <2>1. Lists(Tokens(text), Len(text), {x \in 1 .. Len(text) : text[x] > 0})
    BY TokensAre DEF Letters
  <2> QED BY <1>1, <2>1
<1>9. Tokens(text) = w
  <2> HIDE DEF w, A
  <2> QED BY <1>2, <1>7, <1>8, ListedOnce, Zenon
<1>10. Len(w) = c
  BY <1>3
<1> QED BY <1>9, <1>10

\* From an odd place to an odd place.
LEMMA OddPart ==
    ASSUME NEW a \in Nat, NEW b \in Nat, NEW f \in Nat, NEW c \in Nat, a = (2 * f) + 1, b = (2 * (f + c)) - 1
    PROVE  /\ (b - a) + 1 = (2 * c) - 1
           /\ \A i \in Nat : (a + i) - 1 = (2 * f) + i
  OBVIOUS

\* A slice of a text with single blanks: its blanks stand at the even places.
SpacedSlice(text, w, u, c) ==
    /\ u = Slice(text, w) /\ c = w.last - w.first /\ c \in Nat /\ c >= 1 /\ u \in Seq(Letters) /\ Len(u) = (2 * c) - 1
    /\ \A i \in 1 .. c : u[(2 * i) - 1] = TokenOf(text, w.first + i)
    /\ \A i \in 1 .. c - 1 : u[2 * i] = Blank
    /\ \A i \in 1 .. c : u[(2 * i) - 1] # Blank

\* Every slice of a text with single blanks is one.
LEMMA SliceIsSpaced ==
    ASSUME NEW text, text \in Seq(Letters), Spaced(text), NEW w, Window(w, Len(Tokens(text)))
    PROVE  \E u, c : SpacedSlice(text, w, u, c)
<1>1. PICK T, a, b, u, f, c : /\ T = Tokens(text) /\ a = T[w.first + 1] /\ b = T[w.last] /\ u = Slice(text, w)
                              /\ f = w.first /\ c = w.last - w.first
  OBVIOUS
<1>2. f \in Nat /\ c \in Nat /\ c >= 1 /\ w.last = f + c /\ f + c <= Len(T) /\ Len(T) \in Nat
  <2>1. Len(Tokens(text)) \in Nat
    BY TokenCount
  <2> QED BY <1>1, <2>1, SMTT(40) DEF Window
<1>3. \A i \in 1 .. Len(T) : T[i] = (2 * i) - 1
  BY <1>1, SpacedTokens
<1>4. a = (2 * f) + 1 /\ b = (2 * (f + c)) - 1
  <2>1. f + 1 \in 1 .. Len(T) /\ f + c \in 1 .. Len(T)
    BY <1>2
  <2>2. a = T[f + 1] /\ b = T[f + c]
    BY <1>1, <1>2
  <2>3. a = (2 * (f + 1)) - 1 /\ b = (2 * (f + c)) - 1
    BY <1>3, <2>1, <2>2
  <2> QED BY <1>2, <2>3
<1>5. SliceOK(text, w, a, b)
  BY <1>1, SliceAs DEF Letters
<1>6. /\ a \in 1 .. Len(text) /\ b \in 1 .. Len(text) /\ a <= b
      /\ u \in Seq(Letters) /\ Len(u) = (b - a) + 1 /\ \A i \in 1 .. (b - a) + 1 : u[i] = text[(a + i) - 1]
  BY <1>1, <1>5 DEF SliceOK, Letters
<1>7. (b - a) + 1 = (2 * c) - 1 /\ \A i \in Nat : (a + i) - 1 = (2 * f) + i
  <2>1. a \in Nat /\ b \in Nat
    <3>1. Len(text) \in Nat
      OBVIOUS
    <3> QED BY <1>6, <3>1
  <2>2. \A x, y, i, j \in Nat : x = (2 * i) + 1 /\ y = (2 * (i + j)) - 1 =>
           (y - x) + 1 = (2 * j) - 1 /\ \A l \in Nat : (x + l) - 1 = (2 * i) + l
    BY OddPart
  <2> QED BY <1>2, <1>4, <2>1, <2>2
<1>8. \A i \in 1 .. (2 * c) - 1 : u[i] = text[(2 * f) + i]
  <2>1. ASSUME NEW i \in 1 .. (2 * c) - 1 PROVE u[i] = text[(2 * f) + i]
    <3>1. i \in 1 .. (b - a) + 1 /\ i \in Nat
      BY <1>7
    <3>2. (a + i) - 1 = (2 * f) + i
      BY <1>7, <3>1
    <3>3. u[i] = text[(a + i) - 1]
      BY <1>6, <3>1
    <3> QED BY <3>2, <3>3
  <2> QED BY <2>1
<1>9. ASSUME NEW i \in 1 .. c PROVE u[(2 * i) - 1] = TokenOf(text, f + i)
  <2>1. (2 * i) - 1 \in 1 .. (2 * c) - 1 /\ (2 * f) + ((2 * i) - 1) = (2 * (f + i)) - 1 /\ f + i \in 1 .. Len(T)
    BY <1>2
  <2>2. u[(2 * i) - 1] = text[(2 * (f + i)) - 1]
    BY <1>8, <2>1
  <2>3. T[f + i] = (2 * (f + i)) - 1
    BY <1>3, <2>1
  <2> QED BY <1>1, <2>2, <2>3 DEF TokenOf
<1>10. DOMAIN text = 1 .. Len(text) /\ Len(text) \in Nat
  BY LenProperties
<1>11. ASSUME NEW i \in 1 .. c - 1 PROVE u[2 * i] = Blank
  <2>1. 2 * i \in 1 .. (2 * c) - 1
    BY <1>2
  <2>2. PICK x : x = (2 * f) + (2 * i)
    OBVIOUS
  <2>3. x \in 1 .. Len(text) /\ x % 2 = 0
    BY <1>2, <1>4, <1>6, <1>10, <2>2
  <2>4. u[2 * i] = text[x]
    BY <1>8, <2>1, <2>2
  <2> QED BY <1>10, <2>3, <2>4 DEF Spaced
<1>12. ASSUME NEW i \in 1 .. c PROVE u[(2 * i) - 1] # Blank
  <2>1. (2 * i) - 1 \in 1 .. (2 * c) - 1
    BY <1>2
  <2>2. PICK x : x = (2 * f) + ((2 * i) - 1)
    OBVIOUS
  <2>3. x \in 1 .. Len(text) /\ x % 2 # 0
    BY <1>2, <1>4, <1>6, <1>10, <2>2
  <2>4. u[(2 * i) - 1] = text[x]
    BY <1>8, <2>1, <2>2
  <2> QED BY <1>10, <2>3, <2>4 DEF Spaced
<1>13. Len(u) = (2 * c) - 1
  BY <1>6, <1>7
<1>14. SpacedSlice(text, w, u, c)
  BY <1>1, <1>2, <1>6, <1>9, <1>11, <1>12, <1>13 DEF SpacedSlice
<1> QED BY <1>14

\* In a slice with single blanks, o tokens and the blanks after them take 2 o places.
LEMMA SpacedSkip ==
    ASSUME NEW text, NEW w, NEW u, NEW c, SpacedSlice(text, w, u, c), NEW o \in Nat, o < c
    PROVE  Skip(u, o) = 2 * o
<1>1. PICK N, d : N = (2 * c) - 1 /\ d = c - 1
  OBVIOUS
<1>2. /\ c \in Nat /\ c >= 1 /\ u \in Seq(Letters) /\ Len(u) = N /\ N \in Nat /\ d \in Nat
      /\ \A i \in 1 .. d : u[2 * i] = Blank
      /\ \A i \in 1 .. c : u[(2 * i) - 1] # Blank
  BY <1>1 DEF SpacedSlice
<1> DEFINE v == [i \in 1 .. d |-> 2 * i]
           A == {x \in 1 .. N : u[x] \in {Blank}}
<1>3. v \in [1 .. d -> 1 .. N] /\ \A i, j \in 1 .. d : i < j => v[i] < v[j]
  BY <1>1, <1>2
<1>4. \A x : x \in A <=> \E i \in 1 .. d : v[i] = x
  <2>1. ASSUME NEW x \in 1 .. N, u[x] = Blank PROVE \E i \in 1 .. d : v[i] = x
    <3>1. x % 2 # 1
      <4>1. ASSUME x % 2 = 1 PROVE FALSE
        <5>1. PICK i : i = (x + 1) \div 2
          OBVIOUS
        <5>2. i \in 1 .. c /\ x = (2 * i) - 1
          BY <1>1, <1>2, <4>1, <5>1, OddOrEven
        <5> QED BY <1>2, <2>1, <5>2
      <4> QED BY <4>1
    <3>2. PICK i : i = x \div 2
      OBVIOUS
    <3>3. i \in 1 .. c - 1 /\ x = 2 * i
      BY <1>1, <1>2, <3>1, <3>2, OddOrEven
    <3> QED BY <1>1, <3>3
  <2>2. ASSUME NEW i \in 1 .. d PROVE v[i] \in 1 .. N /\ u[v[i]] = Blank
    <3>1. v[i] = 2 * i
      OBVIOUS
    <3> QED BY <1>2, <1>3, <3>1
  <2> HIDE DEF v
  <2> QED BY <2>1, <2>2
<1>5. Lists(v, N, A) /\ Len(v) = d
  <2> HIDE DEF v, A
  <2> QED BY <1>2, <1>3, <1>4, ListedBy
<1>6. Lists(Where(u, {Blank}), N, A)
  BY <1>2, WhereLists
<1>7. Where(u, {Blank}) = v
  <2> HIDE DEF v, A
  <2> QED BY <1>2, <1>5, <1>6, ListedOnce
<1>8. CASE o = 0
  BY <1>8 DEF Skip
<1>9. CASE o # 0
  <2>1. o \in 1 .. d /\ v[o] = 2 * o /\ o <= Len(v)
    BY <1>1, <1>2, <1>5, <1>9
  <2> HIDE DEF v
  <2> QED BY <1>7, <1>9, <2>1 DEF Skip
<1> QED BY <1>8, <1>9

\* A list of earlier places, and one of later places after it.
LEMMA ListsConcat ==
    ASSUME NEW n \in Nat, NEW A, NEW B, NEW v, NEW w, Lists(v, n, A), Lists(w, n, B), \A a \in A, b \in B : a < b
    PROVE  Lists(v \o w, n, A \union B) /\ Len(v \o w) = Len(v) + Len(w)
<1>1. PICK p, r, z : p = Len(v) /\ r = Len(w) /\ z = v \o w
  OBVIOUS
<1>2a. /\ Len(v) \in Nat /\ \A j \in 1 .. Len(v) : v[j] \in 1 .. n /\ v[j] \in A
       /\ \A a \in A : \E j \in 1 .. Len(v) : v[j] = a
       /\ \A i, j \in 1 .. Len(v) : i < j => v[i] < v[j]
  BY ListsAre
<1>3a. /\ Len(w) \in Nat /\ \A j \in 1 .. Len(w) : w[j] \in 1 .. n /\ w[j] \in B
       /\ \A b \in B : \E j \in 1 .. Len(w) : w[j] = b
       /\ \A i, j \in 1 .. Len(w) : i < j => w[i] < w[j]
  BY ListsAre
<1>2. /\ p \in Nat /\ v \in Seq(1 .. n) /\ \A j \in 1 .. p : v[j] \in 1 .. n /\ v[j] \in A
      /\ \A a \in A : \E j \in 1 .. p : v[j] = a
      /\ \A i, j \in 1 .. p : i < j => v[i] < v[j]
  BY <1>1, <1>2a DEF Lists
<1>3. /\ r \in Nat /\ w \in Seq(1 .. n) /\ \A j \in 1 .. r : w[j] \in 1 .. n /\ w[j] \in B
      /\ \A b \in B : \E j \in 1 .. r : w[j] = b
      /\ \A i, j \in 1 .. r : i < j => w[i] < w[j]
  BY <1>1, <1>3a DEF Lists
<1>4. /\ z \in Seq(1 .. n) /\ Len(z) = p + r
      /\ \A i \in 1 .. p : z[i] = v[i]
      /\ \A i \in 1 .. r : z[p + i] = w[i]
  BY <1>1, <1>2, <1>3, ConcatProperties
<1>5. ASSUME NEW i \in 1 .. p + r, ~(i \in 1 .. p) PROVE i - p \in 1 .. r /\ z[i] = w[i - p]
  <2>1. i - p \in 1 .. r /\ p + (i - p) = i
    BY <1>2, <1>3, <1>5
  <2> QED BY <1>4, <2>1
<1>6. ASSUME NEW i \in 1 .. p + r, NEW j \in 1 .. p + r, i < j PROVE z[i] < z[j]
  <2>1. CASE j \in 1 .. p
    <3>1. i \in 1 .. p
      BY <1>2, <1>6, <2>1
    <3> QED BY <1>2, <1>4, <1>6, <2>1, <3>1
  <2>2. CASE ~(j \in 1 .. p) /\ i \in 1 .. p
    <3>1. z[i] \in A /\ z[j] \in B
      BY <1>2, <1>3, <1>4, <1>5, <2>2
    <3> QED BY <3>1
  <2>3. CASE ~(j \in 1 .. p) /\ ~(i \in 1 .. p)
    <3>1. i - p \in 1 .. r /\ j - p \in 1 .. r /\ z[i] = w[i - p] /\ z[j] = w[j - p]
      BY <1>5, <2>3
    <3>2. i - p < j - p
      BY <1>2, <1>3, <1>6
    <3> QED BY <1>3, <3>1, <3>2
  <2> QED BY <2>1, <2>2, <2>3
<1>7. Increasing(z)
  BY <1>4, <1>6 DEF Increasing
<1>8. \A x : x \in A \union B <=> \E i \in 1 .. Len(z) : z[i] = x
  <2>1. ASSUME NEW i \in 1 .. p + r PROVE z[i] \in A \union B
    BY <1>2, <1>3, <1>4, <1>5
  <2>2. ASSUME NEW x \in A PROVE \E i \in 1 .. p + r : z[i] = x
    <3>1. PICK i \in 1 .. p : v[i] = x
      BY <1>2
    <3>2. i \in 1 .. p + r
      BY <1>2, <1>3
    <3> QED BY <1>4, <3>1, <3>2
  <2>3. ASSUME NEW x \in B PROVE \E i \in 1 .. p + r : z[i] = x
    <3>1. PICK i \in 1 .. r : w[i] = x
      BY <1>3
    <3>2. p + i \in 1 .. p + r
      BY <1>2, <1>3
    <3> QED BY <1>4, <3>1, <3>2
  <2> QED BY <1>4, <2>1, <2>2, <2>3
<1>9. {z[i] : i \in 1 .. Len(z)} = A \union B
  BY <1>8
<1>10. Lists(z, n, A \union B)
  BY <1>4, <1>7, <1>9 DEF Lists
<1> QED BY <1>1, <1>4, <1>10

\* Two spread texts with a blank between are one.
LEMMA SpreadConcat ==
    ASSUME NEW text, NEW S, NEW v \in Seq(S), NEW w \in Seq(S), NEW a, NEW b,
           IsSpread(a, text, v), IsSpread(b, text, w)
    PROVE  IsSpread((a \o <<Blank>>) \o b, text, v \o w)
<1>1. PICK p, r, y, z, x : p = Len(v) /\ r = Len(w) /\ y = a \o <<Blank>> /\ z = y \o b /\ x = v \o w
  OBVIOUS
<1>2. /\ a \in Seq(Letters) /\ p \in Nat /\ p >= 1 /\ Len(a) = (2 * p) - 1
      /\ \A i \in 1 .. p : a[(2 * i) - 1] = TokenOf(text, v[i])
      /\ \A i \in 1 .. p - 1 : a[2 * i] = Blank
  BY <1>1 DEF IsSpread
<1>3. /\ b \in Seq(Letters) /\ r \in Nat /\ r >= 1 /\ Len(b) = (2 * r) - 1
      /\ \A i \in 1 .. r : b[(2 * i) - 1] = TokenOf(text, w[i])
      /\ \A i \in 1 .. r - 1 : b[2 * i] = Blank
  BY <1>1 DEF IsSpread
<1>4. /\ x \in Seq(S) /\ Len(x) = p + r
      /\ \A i \in 1 .. p : x[i] = v[i]
      /\ \A i \in 1 .. r : x[p + i] = w[i]
  BY <1>1, <1>2, <1>3, ConcatProperties
<1>5. /\ y \in Seq(Letters) /\ Len(y) = 2 * p /\ \A i \in 1 .. (2 * p) - 1 : y[i] = a[i]
      /\ y[2 * p] = Blank
  <2>1. <<Blank>> \in Seq(Letters) /\ Len(<<Blank>>) = 1 /\ <<Blank>>[1] = Blank
    BY DEF Letters, Blank
  <2>2. /\ y \in Seq(Letters) /\ Len(y) = Len(a) + 1
        /\ \A i \in 1 .. Len(a) : y[i] = a[i]
        /\ \A i \in 1 .. 1 : y[Len(a) + i] = <<Blank>>[i]
    <3>1. PICK d : d = <<Blank>>
      OBVIOUS
    <3>2. d \in Seq(Letters) /\ Len(d) = 1 /\ y = a \o d
      BY <1>1, <2>1, <3>1
    <3>3. /\ y \in Seq(Letters) /\ Len(y) = Len(a) + 1
          /\ \A i \in 1 .. Len(a) : y[i] = a[i]
          /\ \A i \in 1 .. 1 : y[Len(a) + i] = d[i]
      <4>1. IsConcat(a \o d, Letters, a, Len(a), d, Len(d))
        BY <1>2, <3>2, ConcatIs, Zenon
      <4>2. IsConcat(y, Letters, a, Len(a), d, 1)
        BY <3>2, <4>1
      <4> QED BY <4>2 DEF IsConcat
    <3> QED BY <3>1, <3>3
  <2>3. Len(a) + 1 = 2 * p /\ 1 \in 1 .. 1
    BY <1>2
  <2>4. y[2 * p] = Blank
    BY <2>1, <2>2, <2>3
  <2> QED BY <1>2, <2>2, <2>3, <2>4
<1>6. /\ z \in Seq(Letters) /\ Len(z) = (2 * p) + ((2 * r) - 1)
      /\ \A i \in 1 .. 2 * p : z[i] = y[i]
      /\ \A i \in 1 .. (2 * r) - 1 : z[(2 * p) + i] = b[i]
  <2>1. IsConcat(y \o b, Letters, y, Len(y), b, Len(b))
    BY <1>3, <1>5, ConcatIs, Zenon
  <2>2. IsConcat(z, Letters, y, 2 * p, b, (2 * r) - 1)
    BY <1>1, <1>3, <1>5, <2>1, Zenon
  <2> QED BY <2>2 DEF IsConcat
<1>7. Len(z) = (2 * Len(x)) - 1 /\ Len(x) \in Nat /\ Len(x) >= 1
  BY <1>2, <1>3, <1>4, <1>6
<1>8. ASSUME NEW i \in 1 .. p + r PROVE z[(2 * i) - 1] = TokenOf(text, x[i])
  <2>1. CASE i \in 1 .. p
    <3>1. (2 * i) - 1 \in 1 .. (2 * p) - 1 /\ (2 * i) - 1 \in 1 .. 2 * p
      BY <1>2, <2>1
    <3>2. z[(2 * i) - 1] = a[(2 * i) - 1]
      BY <1>5, <1>6, <3>1
    <3> QED BY <1>2, <1>4, <2>1, <3>2
  <2>2. CASE ~(i \in 1 .. p)
    <3>1. PICK k : k = i - p
      OBVIOUS
    <3>2. k \in 1 .. r /\ i = p + k /\ (2 * k) - 1 \in 1 .. (2 * r) - 1 /\ (2 * p) + ((2 * k) - 1) = (2 * i) - 1
      BY <1>2, <1>3, <2>2, <3>1
    <3>3. z[(2 * i) - 1] = b[(2 * k) - 1]
      BY <1>6, <3>2
    <3>4. x[i] = w[k]
      BY <1>4, <3>2
    <3> QED BY <1>3, <3>2, <3>3, <3>4
  <2> QED BY <2>1, <2>2
<1>9. ASSUME NEW i \in 1 .. (p + r) - 1 PROVE z[2 * i] = Blank
  <2>1. CASE i \in 1 .. p - 1
    <3>1. 2 * i \in 1 .. (2 * p) - 1 /\ 2 * i \in 1 .. 2 * p
      BY <1>2, <2>1
    <3>2. z[2 * i] = a[2 * i]
      BY <1>5, <1>6, <3>1
    <3> QED BY <1>2, <2>1, <3>2
  <2>2. CASE i = p
    <3>1. 2 * p \in 1 .. 2 * p
      BY <1>2
    <3> QED BY <1>5, <1>6, <2>2, <3>1
  <2>3. CASE ~(i \in 1 .. p - 1) /\ i # p
    <3>1. PICK k : k = i - p
      OBVIOUS
    <3>2. k \in 1 .. r - 1 /\ 2 * k \in 1 .. (2 * r) - 1 /\ (2 * p) + (2 * k) = 2 * i
      BY <1>2, <1>3, <2>3, <3>1
    <3>3. z[2 * i] = b[2 * k]
      BY <1>6, <3>2
    <3> QED BY <1>3, <3>2, <3>3
  <2> QED BY <2>1, <2>2, <2>3
<1>10. IsSpread(z, text, x)
  BY <1>4, <1>6, <1>7, <1>8, <1>9 DEF IsSpread
<1> QED BY <1>1, <1>10

\* The places f + 1 .. f + d.
From(f, d) == [i \in 1 .. d |-> f + i]

\* They are listed by counting.
LEMMA FromLists ==
    ASSUME NEW n \in Nat, NEW f \in Nat, NEW d \in Nat, f + d <= n
    PROVE  Lists(From(f, d), n, {t \in 1 .. n : f < t /\ t <= f + d}) /\ Len(From(f, d)) = d
<1> DEFINE A == {t \in 1 .. n : f < t /\ t <= f + d}
<1>1. PICK v : v = From(f, d)
  OBVIOUS
<1>2. v \in [1 .. d -> 1 .. n] /\ \A i \in 1 .. d : v[i] = f + i
  BY <1>1 DEF From
<1>3. \A i, j \in 1 .. d : i < j => v[i] < v[j]
  BY <1>2
<1>4. \A x : x \in A <=> \E i \in 1 .. d : v[i] = x
  <2>1. ASSUME NEW x \in A PROVE \E i \in 1 .. d : v[i] = x
    <3>1. x - f \in 1 .. d /\ v[x - f] = x
      BY <1>2
    <3> QED BY <3>1
  <2>2. ASSUME NEW i \in 1 .. d PROVE v[i] \in A
    BY <1>2
  <2> QED BY <2>1, <2>2
<1> HIDE DEF A
<1>5. Lists(v, n, A) /\ Len(v) = d
  BY <1>2, <1>3, <1>4, ListedBy
<1> QED BY <1>1, <1>5 DEF A

\* What comes after the first o tokens of a slice is spread.
LEMMA RestIsSpread ==
    ASSUME NEW text, NEW w, NEW u, NEW c, SpacedSlice(text, w, u, c), NEW o \in Nat, o < c, w.first \in Nat,
           NEW r \in Seq(Letters), Len(r) = (2 * (c - o)) - 1,
           \A i \in 1 .. (2 * (c - o)) - 1 : r[i] = u[(2 * o) + i]
    PROVE  IsSpread(r, text, From(w.first + o, c - o))
<1>1. PICK f, d, v : f = w.first /\ d = c - o /\ v = From(w.first + o, c - o)
  OBVIOUS
<1>2. /\ c \in Nat /\ \A i \in 1 .. c : u[(2 * i) - 1] = TokenOf(text, f + i)
      /\ \A i \in 1 .. c - 1 : u[2 * i] = Blank
  BY <1>1 DEF SpacedSlice
<1>3. d \in Nat /\ d >= 1 /\ c = o + d /\ f \in Nat /\ Len(r) = (2 * d) - 1
      /\ \A i \in 1 .. (2 * d) - 1 : r[i] = u[(2 * o) + i]
  BY <1>1, <1>2
<1>4. v = [i \in 1 .. d |-> (f + o) + i]
  BY <1>1 DEF From
<1>5. Len(v) = d
  BY <1>3, <1>4
<1>6. ASSUME NEW i \in 1 .. d PROVE r[(2 * i) - 1] = TokenOf(text, v[i])
  <2>1. PICK x : x = o + i
    OBVIOUS
  <2>2. x \in 1 .. c /\ (2 * i) - 1 \in 1 .. (2 * d) - 1 /\ (2 * o) + ((2 * i) - 1) = (2 * x) - 1 /\ v[i] = f + x
    BY <1>3, <1>4, <2>1
  <2>3. r[(2 * i) - 1] = u[(2 * x) - 1]
    BY <1>3, <2>2
  <2> QED BY <1>2, <2>2, <2>3
<1>7. ASSUME NEW i \in 1 .. d - 1 PROVE r[2 * i] = Blank
  <2>1. PICK x : x = o + i
    OBVIOUS
  <2>2. x \in 1 .. c - 1 /\ 2 * i \in 1 .. (2 * d) - 1 /\ (2 * o) + (2 * i) = 2 * x
    BY <1>3, <2>1
  <2>3. r[2 * i] = u[2 * x]
    BY <1>3, <2>2
  <2> QED BY <1>2, <2>2, <2>3
<1>8. IsSpread(r, text, v)
  BY <1>3, <1>5, <1>6, <1>7 DEF IsSpread
<1> QED BY <1>1, <1>8

\* What a window adds to tokens up to l.
Added(w, l, n) == {t \in 1 .. n : w.first < t /\ l < t /\ t <= w.last}

\* The first entry is spread.
LEMMA FirstIsSpread ==
    ASSUME NEW text, text \in Seq(Letters), Spaced(text), NEW w, Window(w, Len(Tokens(text)))
    PROVE  IsSpread(Slice(text, w), text, From(w.first, w.last - w.first))
<1>1. PICK u, c : SpacedSlice(text, w, u, c)
  BY SliceIsSpaced
<1>2. /\ u = Slice(text, w) /\ c = w.last - w.first /\ c \in Nat /\ c >= 1 /\ u \in Seq(Letters) /\ Len(u) = (2 * c) - 1
      /\ w.first \in Nat
  BY <1>1 DEF SpacedSlice, Window
<1>3. 0 < c /\ c - 0 = c /\ w.first + 0 = w.first /\ 0 \in Nat /\ Len(u) = (2 * (c - 0)) - 1
  BY <1>2
<1>4. \A i \in 1 .. (2 * (c - 0)) - 1 : u[i] = u[(2 * 0) + i]
  <2>1. ASSUME NEW i \in 1 .. (2 * (c - 0)) - 1 PROVE u[i] = u[(2 * 0) + i]
    <3>1. (2 * 0) + i = i
      OBVIOUS
    <3> QED BY <3>1
  <2> QED BY <2>1
<1>5. IsSpread(u, text, From(w.first + 0, c - 0))
  BY <1>1, <1>2, <1>3, <1>4, RestIsSpread, ZenonT(40)
<1> QED BY <1>2, <1>3, <1>5

\* Of c tokens after f, o are up to l and d are not; a and b are where the d begin and
\* end when each token but the last has a blank after it.
Skips(f, c, l, o, d, a, b) ==
    /\ o \in Nat /\ o < c /\ d \in Nat /\ d >= 1 /\ (f + o) + d = f + c /\ l <= f + o
    /\ \A t \in Nat : f + o < t <=> f < t /\ l < t
    /\ a \in 1 .. ((2 * c) - 1) + 1 /\ b \in a - 1 .. (2 * c) - 1
    /\ (b - a) + 1 = (2 * d) - 1 /\ \A i \in Nat : (a + i) - 1 = (2 * o) + i
    /\ 2 * o < (2 * c) - 1

\* They are so when o is how many tokens of the window are up to l.
LEMMA SkipsBy ==
    ASSUME NEW f \in Nat, NEW c \in Nat, c >= 1, NEW l \in Nat, l < f + c, NEW o, o = IF l > f THEN l - f ELSE 0
    PROVE  Skips(f, c, l, o, c - o, (2 * o) + 1, (2 * c) - 1)
  BY DEF Skips

\* Joining adds the tokens of the entry that are not there yet, after a blank.
LEMMA JoinSpread ==
    ASSUME NEW text, text \in Seq(Letters), Spaced(text), NEW n \in Nat, n = Len(Tokens(text)), NEW w, Window(w, n),
           NEW acc \in AccRec, NEW e \in EntryRec, Matches(e, text, w), acc.last_end < w.last,
           NEW W, NEW A, Lists(W, n, A), IsSpread(acc.text, text, W), \A a \in A : a <= acc.last_end
    PROVE  \E V : Lists(V, n, A \union Added(w, acc.last_end, n)) /\ IsSpread(Join(acc, e).text, text, V)
<1>1. PICK u, c : SpacedSlice(text, w, u, c)
  BY SliceIsSpaced
<1>2. PICK f, l, o, at, d : /\ f = w.first /\ l = acc.last_end /\ o = Common(acc, e) /\ at = acc.text /\ d = c - o
  OBVIOUS
<1>3. /\ u = e.text /\ c = w.last - f /\ c \in Nat /\ c >= 1 /\ u \in Seq(Letters) /\ Len(u) = (2 * c) - 1
      /\ f \in Nat /\ e.start_tok = f
  BY <1>1, <1>2 DEF SpacedSlice, Window, Matches
<1>4. l \in Nat /\ at \in Seq(Letters) /\ w.last \in Nat /\ l < w.last /\ w.last = f + c /\ f + c <= n
  BY <1>2, <1>3, SMTT(40) DEF AccRec, Window
<1>5. o = IF l > f THEN l - f ELSE 0
  BY <1>2, <1>3 DEF Common
<1>6a. PICK begin, end : begin = (2 * o) + 1 /\ end = (2 * c) - 1
  OBVIOUS
<1>6b. Skips(f, c, l, o, d, begin, end)
  <2>1. l < f + c
    BY <1>4
  <2>2. Skips(f, c, l, o, c - o, (2 * o) + 1, (2 * c) - 1)
    BY <1>3, <1>4, <1>5, <2>1, SkipsBy, Zenon
  <2> QED BY <1>2, <1>6a, <2>2
<1>6. o \in Nat /\ o < c /\ d \in Nat /\ d >= 1 /\ (f + o) + d = f + c /\ l <= f + o
  BY <1>6b DEF Skips
<1>7. Skip(u, o) = 2 * o
  BY <1>1, <1>6, SpacedSkip
<1>8. at # <<>>
  <2>1. Len(at) >= 1
    BY <1>2 DEF IsSpread
  <2> QED BY <2>1
<1>9. PICK r : r = SubSeq(u, (2 * o) + 1, Len(u))
  OBVIOUS
<1>10. Join(acc, e).text = at \o <<Blank>> \o r
  <2>1. Join(acc, e).text = JoinText(acc, e, 2 * o)
    <3>1. Join(acc, e).text = JoinText(acc, e, Skip(e.text, Common(acc, e)))
      BY JoinIs
    <3> QED BY <1>2, <1>3, <1>7, <3>1
  <2>2. 2 * o < Len(u)
    BY <1>3, <1>6b DEF Skips
  <2> QED BY <1>2, <1>3, <1>8, <1>9, <2>1, <2>2 DEF JoinText
<1>11. r \in Seq(Letters) /\ Len(r) = (2 * d) - 1 /\ \A i \in 1 .. (2 * d) - 1 : r[i] = u[(2 * o) + i]
  <2>1. /\ begin \in 1 .. ((2 * c) - 1) + 1 /\ end \in begin - 1 .. (2 * c) - 1
        /\ (end - begin) + 1 = (2 * d) - 1 /\ \A i \in Nat : (begin + i) - 1 = (2 * o) + i
    BY <1>6b DEF Skips
  <2>2. begin \in 1 .. Len(u) + 1 /\ end \in begin - 1 .. Len(u) /\ r = SubSeq(u, begin, end)
    BY <1>3, <1>6a, <1>9, <2>1
  <2>3. IsPart(r, Letters, u, begin, end)
    BY <1>3, <2>2, PartIs
  <2>4. r \in Seq(Letters) /\ Len(r) = (end - begin) + 1 /\ \A i \in 1 .. (end - begin) + 1 : r[i] = u[(begin + i) - 1]
    BY <2>3 DEF IsPart
  <2>5. ASSUME NEW i \in 1 .. (2 * d) - 1 PROVE r[i] = u[(2 * o) + i]
    <3>1. i \in 1 .. (end - begin) + 1 /\ (begin + i) - 1 = (2 * o) + i
      BY <2>1
    <3> QED BY <2>4, <3>1
  <2> QED BY <2>1, <2>4, <2>5
<1>12. IsSpread(r, text, From(f + o, d))
  <2>1. w.first \in Nat /\ Len(r) = (2 * (c - o)) - 1 /\ \A i \in 1 .. (2 * (c - o)) - 1 : r[i] = u[(2 * o) + i]
    BY <1>2, <1>3, <1>11
  <2>2. IsSpread(r, text, From(w.first + o, c - o))
    BY <1>1, <1>6, <1>11, <2>1, RestIsSpread, Zenon
  <2> QED BY <1>2, <2>2
<1>13. PICK v, B : v = From(f + o, d) /\ B = {t \in 1 .. n : f + o < t /\ t <= (f + o) + d}
  OBVIOUS
<1>14. Lists(v, n, B)
  <2>1. PICK g : g = f + o
    OBVIOUS
  <2>2. g \in Nat /\ g + d <= n
    BY <1>3, <1>4, <1>6, <2>1
  <2>3. Lists(From(g, d), n, {t \in 1 .. n : g < t /\ t <= g + d})
    BY <1>6, <2>2, FromLists
  <2> QED BY <1>13, <2>1, <2>3
<1>15. B = Added(w, l, n)
  <2>1. \A t \in 1 .. n : (f + o < t <=> f < t /\ l < t) /\ (t <= (f + o) + d <=> t <= w.last)
    <3>1. (f + o) + d = w.last /\ \A t \in Nat : f + o < t <=> f < t /\ l < t
      BY <1>4, <1>6b DEF Skips
    <3> QED BY <3>1
  <2> QED BY <1>2, <1>13, <2>1 DEF Added
<1>16. \A a \in A, b \in B : a < b
  <2>1. ASSUME NEW a \in A, NEW b \in B PROVE a < b
    <3>1. a <= l /\ a \in Nat
      <4>1. a \in 1 .. n
        BY ListsAre
      <4> QED BY <1>2, <4>1
    <3>2. b \in Nat /\ f + o < b
      BY <1>13
    <3> QED BY <1>3, <1>4, <1>6, <3>1, <3>2
  <2> QED BY <2>1
<1>17. Lists(W \o v, n, A \union B)
  BY <1>14, <1>16, ListsConcat
<1>18. W \in Seq(1 .. n) /\ v \in Seq(1 .. n)
  BY <1>14 DEF Lists
<1>19. IsSpread((at \o <<Blank>>) \o r, text, W \o v)
  <2>1. IsSpread(at, text, W) /\ IsSpread(r, text, v)
    BY <1>2, <1>12, <1>13
  <2> QED BY <1>18, <2>1, SpreadConcat
<1>20. Join(acc, e).text = (at \o <<Blank>>) \o r
  BY <1>10
<1> QED BY <1>2, <1>15, <1>17, <1>19, <1>20

\* Entries of different windows can be sorted.
LEMMA InOrderExists ==
    ASSUME NEW s \in ShardRec, NEW ls, Begin(s, ls), NEW text,
           NEW n \in Nat, NEW size \in Nat \ {0}, NEW overlap \in 0 .. size - 1, NEW ws, Chain(ws, 0, n, size, overlap),
           \A l \in ls : \E i \in 1 .. Len(ws) : Matches(s.entries[l], text, ws[i])
    PROVE  InOrder(s, ls) # {}
<1>1. PICK N, E : N = Len(ws) /\ E = s.entries
  OBVIOUS
<1>2. /\ N \in Nat /\ \A i \in 1 .. N : ws[i].first \in Nat
      /\ \A i, j \in 1 .. N : i < j => ws[i].first < ws[j].first
  <2>1. Len(ws) \in Nat /\ \A i \in 1 .. Len(ws) : ws[i].first \in Nat
    BY ChainIs
  <2>2. \A i, j \in 1 .. Len(ws) : i < j => ws[i].first < ws[j].first
    BY ChainOrder
  <2> QED BY <1>1, <2>1, <2>2
<1>3. /\ \A l \in ls : \E i \in 1 .. N : E[l].start_tok = ws[i].first
      /\ \A l, k \in ls : l # k => E[l].start_tok # E[k].start_tok
      /\ ls \subseteq 1 .. Len(s.entries)
  BY <1>1 DEF Begin, Matches
\* The windows that have an entry, in their order.
<1> DEFINE marks == [i \in 1 .. N |-> \E l \in ls : E[l].start_tok = ws[i].first]
           A == {i \in 1 .. N : marks[i] \in {TRUE}}
           W == Where(marks, {TRUE})
           m == Len(W)
           q == [x \in 1 .. m |-> CHOOSE l \in ls : E[l].start_tok = ws[W[x]].first]
<1>4. Len(marks) = N
  <2>1. marks \in Seq(BOOLEAN) /\ DOMAIN marks = 1 .. N
    BY <1>2
  <2> HIDE DEF marks
  <2> QED BY <1>2, <2>1, LenProperties
<1>5. Lists(W, N, A)
  <2> HIDE DEF marks
  <2> QED BY <1>2, <1>4, WhereLists, ZenonT(40)
<1>6. /\ m \in Nat /\ \A x \in 1 .. m : W[x] \in 1 .. N /\ W[x] \in A
      /\ \A a \in A : \E x \in 1 .. m : W[x] = a
      /\ \A x, y \in 1 .. m : x < y => W[x] < W[y]
  <2>1. PICK v, B : v = W /\ B = A
    OBVIOUS
  <2>2. Lists(v, N, B)
    BY <1>5, <2>1
  <2>3. /\ Len(v) \in Nat /\ \A x \in 1 .. Len(v) : v[x] \in 1 .. N /\ v[x] \in B
        /\ \A a \in B : \E x \in 1 .. Len(v) : v[x] = a
        /\ \A x, y \in 1 .. Len(v) : x < y => v[x] < v[y]
    <3>1. N \in Nat
      BY <1>2
    <3> HIDE DEF marks, A, W, m, q
    <3> QED BY <2>2, <3>1, ListsAre, SMTT(30)
  <2> HIDE DEF W, A
  <2> QED BY <2>1, <2>3
<1>7. \A i : i \in A <=> i \in 1 .. N /\ \E l \in ls : E[l].start_tok = ws[i].first
  OBVIOUS
<1> HIDE DEF A, W, marks
<1>8. ASSUME NEW x \in 1 .. m PROVE q[x] \in ls /\ E[q[x]].start_tok = ws[W[x]].first
  <2>1. \E l \in ls : E[l].start_tok = ws[W[x]].first
    BY <1>6, <1>7
  <2> QED BY <2>1
<1> HIDE DEF q
<1>9. ASSUME NEW x \in 1 .. m, NEW y \in 1 .. m, x < y
      PROVE  /\ E[q[x]].start_tok \in Nat /\ E[q[y]].start_tok \in Nat
             /\ E[q[x]].start_tok < E[q[y]].start_tok
  <2>1. W[x] < W[y] /\ W[x] \in 1 .. N /\ W[y] \in 1 .. N
    BY <1>6, <1>9
  <2> QED BY <1>2, <1>8, <2>1
<1>10. ASSUME NEW x \in 1 .. m, NEW y \in 1 .. m, x # y PROVE q[x] # q[y]
  <2>1. CASE x < y
    <3>1. ASSUME q[x] = q[y] PROVE FALSE
      <4>1. E[q[x]].start_tok \in Nat /\ E[q[x]].start_tok < E[q[x]].start_tok
        BY <1>9, <2>1, <3>1
      <4> QED BY <4>1
    <3> QED BY <3>1
  <2>2. CASE y < x
    <3>1. ASSUME q[x] = q[y] PROVE FALSE
      <4>1. E[q[y]].start_tok \in Nat /\ E[q[y]].start_tok < E[q[y]].start_tok
        BY <1>9, <2>2, <3>1
      <4> QED BY <4>1
    <3> QED BY <3>1
  <2>3. x < y \/ y < x
    BY <1>6, <1>10
  <2> QED BY <2>1, <2>2, <2>3
<1>11. ASSUME NEW l \in ls PROVE \E x \in 1 .. m : q[x] = l
  <2>1. PICK i \in 1 .. N : E[l].start_tok = ws[i].first
    BY <1>3
  <2>2. i \in A
    BY <1>7, <2>1
  <2>3. PICK x \in 1 .. m : W[x] = i
    BY <1>6, <2>2
  <2>4. q[x] \in ls /\ E[q[x]].start_tok = E[l].start_tok
    BY <1>8, <2>1, <2>3
  <2>5. q[x] = l
    BY <1>3, <2>4
  <2> QED BY <2>5
<1>12. q \in [1 .. m -> ls]
  <2>1. DOMAIN q = 1 .. m /\ q = [x \in 1 .. m |-> q[x]]
    BY DEF q
  <2> QED BY <1>8, <2>1
<1>13. Cardinality(ls) = m
  <2>1. PICK k : k = m
    OBVIOUS
  <2>2. k \in Nat /\ q \in Bijection(1 .. k, ls)
    <3>1. IsInjective(q)
      <4>1. DOMAIN q = 1 .. m
        BY <1>12
      <4> QED BY <1>10, <4>1 DEF IsInjective
    <3>2. q \in Injection(1 .. m, ls)
      BY <1>12, <3>1 DEF Injection
    <3>3. q \in Surjection(1 .. m, ls)
      BY <1>11, <1>12 DEF Surjection
    <3> QED BY <1>6, <2>1, <3>2, <3>3 DEF Bijection
  <2>3. IsFiniteSet(1 .. k) /\ Cardinality(1 .. k) = k
    <3>1. /\ IsFiniteSet(1 .. k) /\ Cardinality(1 .. k) = IF 1 > k THEN 0 ELSE (k - 1) + 1
      BY <2>2, FS_Interval
    <3> QED BY <2>2, <3>1
  <2>4. ExistsBijection(1 .. k, ls)
    BY <2>2 DEF ExistsBijection
  <2>5. Cardinality(ls) = Cardinality(1 .. k)
    BY <2>3, <2>4, FS_Bijection
  <2> QED BY <2>1, <2>3, <2>5
<1>14. q \in SetToSeqs(ls)
  <2>1. q \in [1 .. Cardinality(ls) -> ls] /\ \A x, y \in 1 .. Cardinality(ls) : x # y => q[x] # q[y]
    BY <1>10, <1>12, <1>13
  <2> QED BY <2>1 DEF SetToSeqs
<1>15. Len(q) = m
  <2>1. q \in Seq(ls) /\ DOMAIN q = 1 .. m
    BY <1>6, <1>12, SMTT(40)
  <2> QED BY <1>6, <2>1, LenProperties
<1>16. ASSUME NEW x \in 1 .. Len(q) - 1 PROVE s.entries[q[x]].start_tok <= s.entries[q[x + 1]].start_tok
  <2>1. x \in 1 .. m /\ x + 1 \in 1 .. m /\ x < x + 1
    BY <1>6, <1>15
  <2>2. /\ E[q[x]].start_tok \in Nat /\ E[q[x + 1]].start_tok \in Nat
        /\ E[q[x]].start_tok < E[q[x + 1]].start_tok
    BY <1>9, <2>1
  <2>3. E[q[x]].start_tok <= E[q[x + 1]].start_tok
    BY <2>2
  <2> QED BY <1>1, <2>3
<1>17. q \in InOrder(s, ls)
  BY <1>14, <1>16 DEF InOrder
<1> QED BY <1>17

\* The tokens that windows j[1] .. j[x] have.
ReadBy(j, x, ws, n) == {t \in 1 .. n : \E y \in 1 .. x : ws[j[y]].first < t /\ t <= ws[j[y]].last}

\* u has the tokens of set A, spread.
HasSpread(u, text, n, A) == \E V : Lists(V, n, A) /\ IsSpread(u, text, V)

\* Window j[x + 1] adds to those before it.
OneMore(j, x, ws, n) ==
    /\ ReadBy(j, x + 1, ws, n) = ReadBy(j, x, ws, n) \union Added(ws[j[x + 1]], ws[j[x]].last, n)
    /\ \A t \in ReadBy(j, x, ws, n) : t <= ws[j[x]].last
    /\ ws[j[x]].last < ws[j[x + 1]].last

\* The places of one more window.
LEMMA ReadOneMore ==
    ASSUME NEW n \in Nat, NEW size \in Nat \ {0}, NEW overlap \in 0 .. size - 1, NEW ws, Chain(ws, 0, n, size, overlap),
           NEW m \in Nat, NEW j, \A x \in 1 .. m : j[x] \in 1 .. Len(ws), \A x, y \in 1 .. m : x < y => j[x] < j[y],
           NEW x \in 1 .. m - 1
    PROVE  OneMore(j, x, ws, n)
<1>1. PICK F, L : F = [y \in 1 .. m |-> ws[j[y]].first] /\ L = [y \in 1 .. m |-> ws[j[y]].last]
  OBVIOUS
<1>2. \A y \in 1 .. m : F[y] = ws[j[y]].first /\ L[y] = ws[j[y]].last /\ F[y] \in Nat /\ L[y] \in Nat
  <2>1. \A i \in 1 .. Len(ws) : ws[i].first \in Nat /\ ws[i].last \in Nat
    BY ChainIs
  <2> QED BY <1>1, <2>1
<1>3. \A y, z \in 1 .. m : y < z => F[y] < F[z] /\ L[y] < L[z]
  <2>1. ASSUME NEW y \in 1 .. m, NEW z \in 1 .. m, y < z PROVE F[y] < F[z] /\ L[y] < L[z]
    <3>1. PICK a, b : a = j[y] /\ b = j[z]
      OBVIOUS
    <3>2. a \in 1 .. Len(ws) /\ b \in 1 .. Len(ws) /\ a < b
      BY <2>1, <3>1
    <3>3. ws[a].first < ws[b].first /\ ws[a].last < ws[b].last
      BY <3>2, ChainOrder
    <3> QED BY <1>2, <3>1, <3>3
  <2> QED BY <2>1
<1>4. x \in 1 .. m /\ x + 1 \in 1 .. m /\ \A y \in 1 .. x + 1 : y \in 1 .. m /\ (y \in 1 .. x \/ y = x + 1)
  OBVIOUS
<1>5. ReadBy(j, x, ws, n) = {t \in 1 .. n : \E y \in 1 .. x : F[y] < t /\ t <= L[y]}
  BY <1>2, <1>4, SMTT(40) DEF ReadBy
<1>6. ReadBy(j, x + 1, ws, n) = {t \in 1 .. n : \E y \in 1 .. x + 1 : F[y] < t /\ t <= L[y]}
  BY <1>2, <1>4 DEF ReadBy
<1>7. Added(ws[j[x + 1]], ws[j[x]].last, n) = {t \in 1 .. n : F[x + 1] < t /\ L[x] < t /\ t <= L[x + 1]}
  BY <1>2, <1>4 DEF Added
<1>8. \A t \in ReadBy(j, x, ws, n) : t <= L[x]
  <2>1. ASSUME NEW t \in 1 .. n, NEW y \in 1 .. x, t <= L[y] PROVE t <= L[x]
    <3>1. y = x \/ y < x
      OBVIOUS
    <3>2. y \in 1 .. m /\ L[y] \in Nat /\ L[x] \in Nat
      BY <1>2, <1>4
    <3>3. L[y] <= L[x]
      BY <1>3, <1>4, <3>1, <3>2
    <3> QED BY <2>1, <3>2, <3>3
  <2> QED BY <1>5, <2>1
<1>9. ASSUME NEW t \in 1 .. n
      PROVE  (\E y \in 1 .. x + 1 : F[y] < t /\ t <= L[y])
               <=> (\E y \in 1 .. x : F[y] < t /\ t <= L[y]) \/ (F[x + 1] < t /\ L[x] < t /\ t <= L[x + 1])
  <2>1. F[x] \in Nat /\ L[x] \in Nat /\ F[x + 1] \in Nat /\ F[x] < F[x + 1]
    BY <1>2, <1>3, <1>4
  <2>2. ASSUME F[x + 1] < t, ~(L[x] < t) PROVE x \in 1 .. x /\ F[x] < t /\ t <= L[x]
    BY <2>1, <2>2
  <2>3. \A y : y \in 1 .. x + 1 <=> (y \in 1 .. x \/ y = x + 1)
    OBVIOUS
  <2> QED BY <2>2, <2>3
<1>10. ReadBy(j, x + 1, ws, n) = ReadBy(j, x, ws, n) \union Added(ws[j[x + 1]], ws[j[x]].last, n)
  <2>1. PICK A, B, C : /\ A = {t \in 1 .. n : \E y \in 1 .. x + 1 : F[y] < t /\ t <= L[y]}
                       /\ B = {t \in 1 .. n : \E y \in 1 .. x : F[y] < t /\ t <= L[y]}
                       /\ C = {t \in 1 .. n : F[x + 1] < t /\ L[x] < t /\ t <= L[x + 1]}
    OBVIOUS
  <2>2. \A t : t \in A <=> t \in B \/ t \in C
    BY <1>9, <2>1
  <2>3. A = B \union C
    BY <2>2
  <2> QED BY <1>5, <1>6, <1>7, <2>1, <2>3
<1>11. /\ \A t \in ReadBy(j, x, ws, n) : t <= ws[j[x]].last
       /\ ws[j[x]].last < ws[j[x + 1]].last
  <2>1. L[x] < L[x + 1]
    BY <1>3, <1>4
  <2> QED BY <1>2, <1>4, <1>8, <2>1
<1> QED BY <1>10, <1>11 DEF OneMore

\* Joined, entries have the tokens of their windows.
LEMMA JoinedHasRead ==
    ASSUME NEW text, text \in Seq(Letters), Spaced(text), NEW n \in Nat, n = Len(Tokens(text)),
           NEW size \in Nat \ {0}, NEW overlap \in 0 .. size - 1, NEW ws, Chain(ws, 0, n, size, overlap),
           NEW s, NEW q, NEW m \in Nat, m # 0, NEW j, Reading(s, q, m, text, ws, j),
           NEW h, Joining(h, s, q, m)
    PROVE  HasSpread(h[m].text, text, n, ReadBy(j, m, ws, n))
<1>1. /\ \A x \in 1 .. m : j[x] \in 1 .. Len(ws) /\ s.entries[q[x]] \in EntryRec /\ Matches(s.entries[q[x]], text, ws[j[x]])
      /\ \A x, y \in 1 .. m : x < y => j[x] < j[y]
  BY DEF Reading
<1>2. \A i \in 1 .. Len(ws) : Window(ws[i], n) /\ ws[i].first \in Nat /\ ws[i].last \in Nat
  BY ChainIs
<1>3. /\ h \in [0 .. m -> AccRec] /\ h[0] = NoText
      /\ \A x \in 1 .. m : h[x] = Join(h[x - 1], s.entries[q[x]])
  BY DEF Joining
<1> DEFINE Good(x) == h[x].last_end = ws[j[x]].last /\ HasSpread(h[x].text, text, n, ReadBy(j, x, ws, n))
           P == {x \in Nat : x + 1 \in 1 .. m => Good(x + 1)}
<1>4. 0 \in P
  <2>1. PICK e, w, f, d : e = s.entries[q[1]] /\ w = ws[j[1]] /\ f = w.first /\ d = w.last - w.first
    OBVIOUS
  <2>2. 1 \in 1 .. m /\ 1 - 1 = 0 /\ 0 + 1 = 1
    OBVIOUS
  <2>3. e \in EntryRec /\ Matches(e, text, w) /\ Window(w, n) /\ h[1] = Join(NoText, e)
    BY <1>1, <1>2, <1>3, <2>1, <2>2
  <2>4. NoText \in AccRec
    BY DEF NoText, AccRec
  <2>5. h[1].last_end = w.last /\ h[1].text = e.text
    <3>1. Join(NoText, e).text = JoinText(NoText, e, Skip(e.text, Common(NoText, e))) /\ Join(NoText, e).last_end = e.end_tok
      BY <2>3, <2>4, JoinIs
    <3> QED BY <2>3, <3>1 DEF JoinText, NoText, Matches
  <2>6. IsSpread(e.text, text, From(f, d))
    <3>1. IsSpread(Slice(text, w), text, From(w.first, w.last - w.first))
      BY <2>3, FirstIsSpread
    <3> QED BY <2>1, <2>3, <3>1 DEF Matches
  <2>7. f \in Nat /\ d \in Nat /\ f + d = w.last /\ f + d <= n
    <3>1. PICK a : a = w.last
      OBVIOUS
    <3>2. f \in Nat /\ a \in Nat /\ f < a /\ a <= n /\ d = a - f
      BY <2>1, <2>3, <3>1 DEF Window
    <3>3. d \in Nat /\ f + d = a
      BY <3>2
    <3> QED BY <3>1, <3>2, <3>3
  <2>8. Lists(From(f, d), n, {t \in 1 .. n : f < t /\ t <= f + d})
    BY <2>7, FromLists
  <2>9. ReadBy(j, 1, ws, n) = {t \in 1 .. n : f < t /\ t <= f + d}
    <3>1. \A y : y \in 1 .. 1 <=> y = 1
      OBVIOUS
    <3> QED BY <2>1, <2>7, <3>1 DEF ReadBy
  <2>10. HasSpread(h[1].text, text, n, ReadBy(j, 1, ws, n))
    BY <2>5, <2>6, <2>8, <2>9 DEF HasSpread
  <2> QED BY <2>1, <2>2, <2>5, <2>10
<1>5. ASSUME NEW x0 \in Nat, x0 \in P PROVE x0 + 1 \in P
  <2> SUFFICES ASSUME (x0 + 1) + 1 \in 1 .. m PROVE Good((x0 + 1) + 1)
    OBVIOUS
  <2>1. PICK x : x = x0 + 1
    OBVIOUS
  <2>2. x \in 1 .. m - 1 /\ x \in 1 .. m /\ x + 1 \in 1 .. m /\ (x + 1) - 1 = x /\ x \in 0 .. m
    BY <2>1
  <2>3. Good(x)
    BY <1>5, <2>1, <2>2
  <2>4. PICK acc, e, w, A, l : /\ acc = h[x] /\ e = s.entries[q[x + 1]] /\ w = ws[j[x + 1]]
                               /\ A = ReadBy(j, x, ws, n) /\ l = ws[j[x]].last
    OBVIOUS
  <2>5. acc \in AccRec /\ e \in EntryRec /\ Matches(e, text, w) /\ Window(w, n) /\ h[x + 1] = Join(acc, e)
    BY <1>1, <1>2, <1>3, <2>2, <2>4
  <2>6. /\ ReadBy(j, x + 1, ws, n) = ReadBy(j, x, ws, n) \union Added(ws[j[x + 1]], ws[j[x]].last, n)
        /\ \A t \in ReadBy(j, x, ws, n) : t <= ws[j[x]].last
        /\ ws[j[x]].last < ws[j[x + 1]].last
    <3>1. /\ \A z \in 1 .. m : j[z] \in 1 .. Len(ws)
          /\ \A z, y \in 1 .. m : z < y => j[z] < j[y]
      BY <1>1
    <3>2. OneMore(j, x, ws, n)
      BY <2>2, <3>1, ReadOneMore, Zenon
    <3> QED BY <3>2 DEF OneMore
  <2>7. acc.last_end = l /\ l < w.last /\ \A a \in A : a <= acc.last_end
    BY <2>3, <2>4, <2>6
  <2>8. PICK W : Lists(W, n, A) /\ IsSpread(acc.text, text, W)
    BY <2>3, <2>4 DEF HasSpread
  <2>9. acc.last_end < w.last
    BY <2>7
  <2>10. \E V : Lists(V, n, A \union Added(w, acc.last_end, n)) /\ IsSpread(Join(acc, e).text, text, V)
    BY <2>5, <2>7, <2>8, <2>9, JoinSpread
  <2>11. HasSpread(h[x + 1].text, text, n, ReadBy(j, x + 1, ws, n))
    BY <2>4, <2>5, <2>6, <2>7, <2>10 DEF HasSpread
  <2>12. Join(acc, e).last_end = w.last
    BY <2>5, JoinIs DEF Matches
  <2> QED BY <2>1, <2>4, <2>5, <2>11, <2>12
<1>6. Nat \subseteq P
  <2> HIDE DEF P
  <2> QED BY <1>4, <1>5, Induction
<1>7. m - 1 \in Nat /\ (m - 1) + 1 = m /\ m \in 1 .. m
  OBVIOUS
<1>8. m - 1 \in P
  <2> HIDE DEF P
  <2> QED BY <1>6, <1>7
<1>9. Good((m - 1) + 1)
  BY <1>7, <1>8
<1> QED BY <1>7, <1>9

\* The tokens that sentence k has left.
LeftOf(k) == {x \in 1 .. Count(k) : \E e \in Pieces(k) : e.start_tok < x /\ x <= e.end_tok}

\* They are what Remaining has, spread.
LEMMA SpreadIsRemaining ==
    ASSUME NEW k, Count(k) \in Nat, NEW u, HasSpread(u, said[k].text, Count(k), LeftOf(k))
    PROVE  u = Remaining(k)
<1>1. PICK V : Lists(V, Count(k), LeftOf(k)) /\ IsSpread(u, said[k].text, V)
  BY DEF HasSpread
<1>2. PICK flags, n, c, left : /\ flags = [i \in 1 .. Count(k) |-> \E e \in Pieces(k) : e.start_tok < i /\ i <= e.end_tok]
                               /\ n = Count(k) /\ c = Len(V) /\ left = Where(flags, {TRUE})
  OBVIOUS
<1>3. n \in Nat /\ flags \in Seq(BOOLEAN) /\ Len(flags) = n
  <2>1. n \in Nat /\ flags \in [1 .. n -> BOOLEAN]
    BY <1>2
  <2>2. flags \in Seq(BOOLEAN) /\ DOMAIN flags = 1 .. n
    BY <2>1
  <2> QED BY <2>1, <2>2, LenProperties
<1>4. Lists(left, n, {x \in 1 .. n : flags[x] \in {TRUE}})
  BY <1>2, <1>3, WhereLists, ZenonT(40)
<1>5. {x \in 1 .. n : flags[x] \in {TRUE}} = LeftOf(k)
  BY <1>2 DEF LeftOf
<1>6. left = V
  <2>1. Lists(left, n, LeftOf(k)) /\ Lists(V, n, LeftOf(k))
    BY <1>1, <1>2, <1>4, <1>5
  <2> QED BY <1>3, <2>1, ListedOnce, Zenon
<1>7. Remaining(k) = [j \in 1 .. (2 * c) - 1 |->
                        IF j % 2 = 1 THEN Token(k, V[(j + 1) \div 2]) ELSE Blank]
  BY <1>2, <1>6 DEF Remaining
<1>8. /\ u \in Seq(Letters) /\ c \in Nat /\ c >= 1 /\ Len(u) = (2 * c) - 1
      /\ \A i \in 1 .. c : u[(2 * i) - 1] = TokenOf(said[k].text, V[i])
      /\ \A i \in 1 .. c - 1 : u[2 * i] = Blank
  BY <1>1, <1>2 DEF IsSpread
<1>9. ASSUME NEW j \in 1 .. (2 * c) - 1
      PROVE  u[j] = IF j % 2 = 1 THEN Token(k, V[(j + 1) \div 2]) ELSE Blank
  <2>1. CASE j % 2 = 1
    <3>1. PICK i : i = (j + 1) \div 2
      OBVIOUS
    <3>2. i \in 1 .. c /\ j = (2 * i) - 1
      BY <1>8, <2>1, <3>1, OddOrEven
    <3>3. u[j] = Token(k, V[i])
      BY <1>8, <3>2 DEF TokenOf, Token
    <3> QED BY <2>1, <3>1, <3>3
  <2>2. CASE j % 2 # 1
    <3>1. PICK i : i = j \div 2
      OBVIOUS
    <3>2. i \in 1 .. c - 1 /\ j = 2 * i
      BY <1>8, <2>2, <3>1, OddOrEven
    <3>3. u[j] = Blank
      BY <1>8, <3>2
    <3> QED BY <2>2, <3>3
  <2> QED BY <2>1, <2>2
<1>10. u = [j \in 1 .. (2 * c) - 1 |-> u[j]]
  <2>1. DOMAIN u = 1 .. (2 * c) - 1
    BY <1>8, LenProperties
  <2> QED BY <1>8, <2>1
<1>11. [j \in 1 .. (2 * c) - 1 |-> u[j]] =
           [j \in 1 .. (2 * c) - 1 |-> IF j % 2 = 1 THEN Token(k, V[(j + 1) \div 2]) ELSE Blank]
  BY <1>9
<1> QED BY <1>7, <1>10, <1>11

\* The windows of the entries of a shard have the tokens that are left.
LEMMA ReadIsLeft ==
    ASSUME NEW k, NEW s, NEW ls, HomeIs(k, s, ls), NEW q, NEW m, Ordered(s, ls, q, m),
           NEW j, Reading(s, q, m, said[k].text, Ws(k), j)
    PROVE  ReadBy(j, m, Ws(k), Count(k)) = LeftOf(k)
<1>1. PICK ws, n : ws = Ws(k) /\ n = Count(k)
  OBVIOUS
<1>2. \A x \in 1 .. m : s.entries[q[x]].start_tok = ws[j[x]].first /\ s.entries[q[x]].end_tok = ws[j[x]].last
  BY <1>1 DEF Reading, Matches
<1>3. q \in [1 .. m -> ls] /\ \A l \in ls : \E x \in 1 .. m : q[x] = l
  BY DEF Ordered
<1>4. /\ \A l \in ls : s.entries[l] \in Pieces(k)
      /\ \A e \in Pieces(k) : \E l \in ls : s.entries[l] = e
  BY DEF HomeIs
<1>5. ASSUME NEW t, NEW y \in 1 .. m, ws[j[y]].first < t, t <= ws[j[y]].last
      PROVE  \E e \in Pieces(k) : e.start_tok < t /\ t <= e.end_tok
  <2>1. s.entries[q[y]] \in Pieces(k)
    BY <1>3, <1>4
  <2> QED BY <1>2, <1>5, <2>1
<1>6. ASSUME NEW t, NEW e \in Pieces(k), e.start_tok < t, t <= e.end_tok
      PROVE  \E y \in 1 .. m : ws[j[y]].first < t /\ t <= ws[j[y]].last
  <2>1. PICK y \in 1 .. m : s.entries[q[y]] = e
    BY <1>3, <1>4
  <2> QED BY <1>2, <1>6, <2>1
<1>7. \A t : t \in ReadBy(j, m, ws, n) <=> t \in LeftOf(k)
  BY <1>1, <1>5, <1>6 DEF ReadBy, LeftOf
<1> QED BY <1>1, <1>7

\* A sentence with single blanks comes back as what is left of it.
LEMMA RemainingIs ==
    ASSUME SentInv, NEW k \in DOMAIN said, Pieces(k) # {}, Alone(k), Spaced(said[k].text),
           ~said[k].merged \/ Count(k) <= MaxTokens
    PROVE  ReconstructSid(said[k].sid) = {Remaining(k)}
<1>1. SentenceOK(k) /\ ChainOK(k)
  BY SentenceIs, SentenceChain, Zenon
<1>2. PICK text, n, ws : text = said[k].text /\ n = Count(k) /\ ws = Ws(k)
  OBVIOUS
<1>3. /\ MaxTokens \in Nat \ {0} /\ Overlap \in 0 .. MaxTokens - 1 /\ text \in Seq(Letters) /\ said[k] \in SaidRec
  BY <1>1, <1>2 DEF SentenceOK
<1>4. n \in Nat /\ Chain(ws, 0, n, MaxTokens, Overlap) /\ n = Len(Tokens(text))
  <2>1. Count(k) \in Nat /\ (Count(k) # 0 => Chain(Ws(k), 0, Count(k), MaxTokens, Overlap))
    BY <1>1 DEF ChainOK
  <2>2. PICK e \in Pieces(k) : TRUE
    OBVIOUS
  <2>3. PICK i \in 1 .. Len(Ws(k)) : TRUE
    BY <1>1, <2>2, PieceIs
  <2>4. Window(Ws(k)[i], Count(k))
    BY <1>1, <2>3 DEF ChainOK
  <2>5. Count(k) # 0
    BY <2>1, <2>4 DEF Window
  <2> QED BY <1>2, <2>1, <2>5 DEF Count
<1>5. Regular(said[k], MaxTokens)
  BY <1>3, <1>4 DEF Regular, Count
<1>6. PICK s, ls : HomeIs(k, s, ls)
  BY <1>1, HomeExists
<1>7. Readable(k, s, ls)
  BY <1>1, <1>5, <1>6, RegularIsReadable
<1>8. PICK sid : sid = said[k].sid
  OBVIOUS
<1>9. /\ s \in ShardRec /\ ls = LabelsOf(s, sid) /\ ls # {}
      /\ ReconstructSid(sid) = {JoinAll(s, q).text : q \in InOrder(s, ls)}
  <2>1. /\ s \in ShardRec /\ ls = LabelsOf(s, sid) /\ ls # {}
        /\ ReconstructSid(sid) = Reconstructions(s, sid)
    BY <1>6, <1>8 DEF HomeIs
  <2> QED BY <2>1 DEF Reconstructions
<1>10. Begin(s, ls) /\ \A l \in ls : \E i \in 1 .. Len(ws) : Matches(s.entries[l], text, ws[i])
  BY <1>2, <1>7 DEF Readable
<1>11. ASSUME NEW q \in InOrder(s, ls) PROVE JoinAll(s, q).text = Remaining(k)
  <2>1. PICK m : Ordered(s, ls, q, m)
    BY <1>9, <1>10, InOrderIs
  <2>2. PICK j : Reading(s, q, m, text, ws, j)
    BY <1>3, <1>4, <1>9, <1>10, <2>1, ReadingIs
  <2>3. m \in Nat /\ DOMAIN q = 1 .. m /\ m # 0
    <3>1. m \in Nat /\ DOMAIN q = 1 .. m /\ \A l \in ls : \E x \in 1 .. m : q[x] = l
      BY <2>1 DEF Ordered
    <3>2. \E x \in 1 .. m : TRUE
      BY <1>9, <3>1
    <3> QED BY <3>1, <3>2
  <2>4. PICK h : Joining(h, s, q, m)
    <3>1. \A c \in 1 .. m : s.entries[q[c]] \in EntryRec
      BY <2>2 DEF Reading
    <3> QED BY <2>3, <3>1, JoinAllGoes
  <2>5. HasSpread(h[m].text, text, n, ReadBy(j, m, ws, n))
    BY <1>2, <1>3, <1>4, <2>2, <2>3, <2>4, JoinedHasRead
  <2>6. ReadBy(j, m, ws, n) = LeftOf(k)
    <3>1. Reading(s, q, m, said[k].text, Ws(k), j)
      BY <1>2, <2>2
    <3>2. ReadBy(j, m, Ws(k), Count(k)) = LeftOf(k)
      BY <1>6, <2>1, <3>1, ReadIsLeft
    <3> QED BY <1>2, <3>2
  <2>7. Count(k) \in Nat /\ HasSpread(h[m].text, said[k].text, Count(k), LeftOf(k))
    BY <1>2, <1>4, <2>5, <2>6
  <2>8. h[m].text = Remaining(k)
    BY <2>7, SpreadIsRemaining
  <2> QED BY <2>4, <2>8 DEF Joining
<1>12. InOrder(s, ls) # {}
  BY <1>3, <1>4, <1>9, <1>10, InOrderExists
<1> QED BY <1>8, <1>9, <1>11, <1>12

\* A sentence with single blanks that shares its id with no other comes back as the
\* tokens of the pieces that are left, whatever was removed, whichever labels the
\* pieces have and in whichever shard they are.
THEOREM RemainingComesBack == Spec => []ReconstructsRemaining
<1>1. SentInv => ReconstructsRemaining
  BY RemainingIs DEF ReconstructsRemaining
<1> QED BY <1>1, SentInvariant, PTL

=============================================================================
