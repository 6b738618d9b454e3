------------------------- MODULE HnswGraph_proofs -------------------------
(***************************************************************************)
(* What is proved of the graph, for any number of threads, elements, links *)
(* and levels: GraphSound, NoCircle, FaultHasCause and NotFoundHasCause    *)
(* hold in every state.                                                    *)
(*                                                                         *)
(* The argument.  A thread that inserts an element fills the element's own *)
(* list of a level before it puts the element into anybody else's list of  *)
(* that level, and it goes from its highest level down.  An element that   *)
(* is still being inserted is therefore found only on levels its thread    *)
(* has reached (Listed), where it has its list already; so whatever a      *)
(* search, a descent or an update finds on a level may be linked to there. *)
(* A thread waits for the mutex of an element only where it has found it,  *)
(* hence only for a thread that has got as deep as itself, or deeper; and  *)
(* of those that connect on one level, the last to have selected its       *)
(* neighbours is awaited by none (Acyclic).  The entry point is read after *)
(* the maximum level and may have been raised in between, so a thread      *)
(* knows only that the one is no higher than the level of the other        *)
(* (JobInv).                                                               *)
(*                                                                         *)
(* IInv says all of this; it is inductive, and each part needs the others. *)
(*                                                                         *)
(* Whole adds what a search needs.  However the elements of a level are    *)
(* divided in two, there is a link from one part to the other that is      *)
(* there, or is recorded as given up, or is about to be made by a thread   *)
(* that connects its new element (OnePiece): a list gives up no link       *)
(* without a record, and a new element has neighbours, each of which it    *)
(* will be offered to.  A walk is at an element that has a list on its     *)
(* level (OnLevel), but in an update whose two copies do not fit each      *)
(* other (Torn).  And a search with no result yet has seen marked elements *)
(* only and all that their lists lead to (MarkedOnly), so that one which   *)
(* ends with none has left its level in two pieces.                        *)
(***************************************************************************)
EXTENDS HnswGraph, FiniteSetTheorems, WellFoundedInduction, TLAPS

-----------------------------------------------------------------------------
(* Sets of pairs.                                                           *)

\* A set of natural numbers has a least one.
LEMMA LeastNat ==
    ASSUME NEW S, S \subseteq Nat, S # {}
    PROVE  \E k \in S : \A n \in S : k <= n
<1>1. PICK k \in S : \A n \in S : ~(<<n, k>> \in OpToRel(<, Nat))
  BY WFMin, NatLessThanWellFounded, Zenon
<1>2. \A n \in S : ~(n < k)
  BY <1>1 DEF OpToRel
<1> QED
  BY <1>2

\* The closest of a set of pairs is one of them, and no other is closer.
LEMMA ClosestIs ==
    ASSUME NEW S, S # {}, \A p \in S : p[1] \in Nat
    PROVE  Closest(S) \in S /\ \A q \in S : Closest(S)[1] <= q[1]
<1> DEFINE D == {p[1] : p \in S}
<1>1. D \subseteq Nat /\ D # {}
  OBVIOUS
<1>2. \A p \in S : p[1] \in D
  OBVIOUS
<1> HIDE DEF D
<1>3. PICK d \in D : \A e \in D : d <= e
  BY <1>1, LeastNat
<1>4. \E p \in S : p[1] = d
  BY DEF D
<1>5. \E p \in S : \A q \in S : p[1] <= q[1]
  BY <1>2, <1>3, <1>4
<1> QED
  BY <1>5 DEF Closest

\* A finite set of pairs has one that comes after all others.
LEMMA LastIs ==
    ASSUME NEW S, IsFiniteSet(S), S # {}, S \subseteq Nat \X Int
    PROVE  \E p \in S : \A q \in S \ {p} : Sooner(q, p)
<1> DEFINE Bad(T) == /\ IsFiniteSet(T) /\ T # {} /\ T \subseteq S
                     /\ ~ \E p \in T : \A q \in T \ {p} : Sooner(q, p)
           Sizes == {n \in Nat : \E T \in SUBSET S : Bad(T) /\ Cardinality(T) = n}
<1>1. SUFFICES ASSUME Bad(S) PROVE FALSE
  OBVIOUS
<1>2. Cardinality(S) \in Sizes
  BY <1>1, FS_CardinalityType
<1>3. PICK n \in Sizes : \A m \in Sizes : n <= m
  <2> Sizes \subseteq Nat /\ Sizes # {}
    BY <1>2
  <2> HIDE DEF Sizes
  <2> QED BY LeastNat
<1>4. PICK T \in SUBSET S : Bad(T) /\ Cardinality(T) = n
  BY <1>3
<1>5. PICK x \in T : TRUE
  BY <1>4
<1>6. IsFiniteSet(T \ {x}) /\ Cardinality(T \ {x}) = n - 1 /\ n \in Nat
  BY <1>3, <1>4, <1>5, FS_RemoveElement
<1>7. ~Bad(T \ {x})
  <2>1. SUFFICES ASSUME Bad(T \ {x}) PROVE FALSE
    OBVIOUS
  <2>2. Cardinality(T \ {x}) \in Nat
    BY <1>6, FS_CardinalityType
  <2>3. n - 1 \in Sizes
    BY <1>6, <2>1, <2>2
  <2> QED
    BY <1>3, <1>6, <2>3
<1>8. \E y \in T : \A q \in T \ {x, y} : y # x => Sooner(q, y)
  <2>1. CASE T \ {x} = {}
    BY <1>5, <2>1
  <2>2. CASE T \ {x} # {}
    BY <1>6, <1>7, <2>2
  <2> QED BY <2>1, <2>2
<1>9. \E y \in T : (T \ {x} = {}) \/ (y # x /\ \A q \in T \ {x, y} : Sooner(q, y))
  <2>2. CASE T \ {x} # {}
    BY <1>6, <1>7, <2>2
  <2> QED BY <1>5, <2>2
<1>10. PICK y \in T : (T \ {x} = {}) \/ (y # x /\ \A q \in T \ {x, y} : Sooner(q, y))
  BY <1>9
<1>11. T \ {x} # {}
  BY <1>4, <1>5
<1>12. x \in Nat \X Int /\ y \in Nat \X Int /\ T \subseteq Nat \X Int
  BY <1>5, <1>10
<1>13. Sooner(x, y) \/ Sooner(y, x)
  BY <1>10, <1>11, <1>12 DEF Sooner
<1>14. CASE Sooner(x, y)
  BY <1>4, <1>10, <1>11, <1>14
<1>15. CASE Sooner(y, x)
  <2>1. \A q \in T \ {x, y} : Sooner(q, x)
    <3> SUFFICES ASSUME NEW q \in T \ {x, y} PROVE Sooner(q, x)
      OBVIOUS
    <3>1. Sooner(q, y)
      BY <1>10, <1>11
    <3>2. q \in Nat \X Int
      BY <1>12
    <3> QED
      BY <1>12, <1>15, <3>1, <3>2 DEF Sooner
  <2> QED
    BY <1>4, <1>5, <1>15, <2>1
<1> QED
  BY <1>13, <1>14, <1>15

\* The furthest of a finite set of pairs is one of them.
LEMMA FurthestIs ==
    ASSUME NEW S, IsFiniteSet(S), S # {}, S \subseteq Nat \X Int
    PROVE  Furthest(S) \in S
<1>1. PICK p \in S : \A q \in S \ {p} : Sooner(q, p)
  BY LastIs
<1>2. \A q \in S : p[1] >= q[1]
  <2> SUFFICES ASSUME NEW q \in S PROVE p[1] >= q[1]
    OBVIOUS
  <2>1. p[1] \in Nat /\ q[1] \in Nat
    OBVIOUS
  <2> QED
    BY <1>1, <2>1 DEF Sooner
<1> QED
  BY <1>2 DEF Furthest

\* The image of a finite set of pairs under IdsOf is finite and no larger.
LEMMA IdsOfIs ==
    ASSUME NEW S, IsFiniteSet(S)
    PROVE  IsFiniteSet(IdsOf(S)) /\ Cardinality(IdsOf(S)) <= Cardinality(S)
<1> DEFINE f == [p \in S |-> p[2]]
<1>1. f \in Surjection(S, IdsOf(S))
  BY DEF Surjection, IdsOf
<1> QED
  BY <1>1, FS_Surjection

\* A finite set of ids makes a finite set of pairs.
LEMMA PairsFinite ==
    ASSUME NEW J, IsFiniteSet(J), NEW v
    PROVE  IsFiniteSet({Pair(v, j) : j \in J})
<1> DEFINE T == {Pair(v, j) : j \in J}
           f == [j \in J |-> Pair(v, j)]
<1>1. f \in Surjection(J, T)
  BY DEF Surjection
<1> QED
  BY <1>1, FS_Surjection

\* A set taken from S by the rule of getNeighborsByHeuristic2.
Taken(S, n, taken) ==
    \A p \in S :
        LET before == {r \in taken : Sooner(r, p)}
        IN  p \in taken <=> /\ Cardinality(before) < n
                           /\ \A r \in before : Dist(vec[r[2]], vec[p[2]]) >= p[1]

\* Such a set is there for every finite set of pairs: the last pair is taken or
\* not, after those before it.
LEMMA SomeTaken ==
    ASSUME NEW S, IsFiniteSet(S), S \subseteq Nat \X Int, NEW n \in Nat
    PROVE  \E taken \in SUBSET S : Taken(S, n, taken)
<1> DEFINE Bad(T) == IsFiniteSet(T) /\ T \subseteq S /\ ~ \E taken \in SUBSET T : Taken(T, n, taken)
           Sizes == {k \in Nat : \E T \in SUBSET S : Bad(T) /\ Cardinality(T) = k}
<1>1. SUFFICES ASSUME Bad(S) PROVE FALSE
  OBVIOUS
<1>2. Cardinality(S) \in Sizes
  BY <1>1, FS_CardinalityType
<1>3. PICK k \in Sizes : \A m \in Sizes : k <= m
  <2> Sizes \subseteq Nat /\ Sizes # {}
    BY <1>2
  <2> HIDE DEF Sizes
  <2> QED BY LeastNat
<1>4. PICK T \in SUBSET S : Bad(T) /\ Cardinality(T) = k
  BY <1>3
<1>5. T # {}
  <2>1. SUFFICES ASSUME T = {} PROVE FALSE
    OBVIOUS
  <2>2. Taken(T, n, {})
    BY <2>1 DEF Taken
  <2> QED BY <1>4, <2>2
<1>6. PICK x \in T : \A q \in T \ {x} : Sooner(q, x)
  BY <1>4, <1>5, LastIs
<1>7. IsFiniteSet(T \ {x}) /\ Cardinality(T \ {x}) = k - 1 /\ k \in Nat
  BY <1>3, <1>4, <1>6, FS_RemoveElement
<1>8. ~Bad(T \ {x})
  <2>1. SUFFICES ASSUME Bad(T \ {x}) PROVE FALSE
    OBVIOUS
  <2>2. Cardinality(T \ {x}) \in Nat
    BY <1>7, FS_CardinalityType
  <2>3. k - 1 \in Sizes
    BY <1>7, <2>1, <2>2
  <2> QED
    BY <1>3, <1>7, <2>3
<1>9. PICK U \in SUBSET (T \ {x}) : Taken(T \ {x}, n, U)
  BY <1>7, <1>8
<1> DEFINE old == {r \in U : Sooner(r, x)}
           V == IF /\ Cardinality(old) < n
                   /\ \A r \in old : Dist(vec[r[2]], vec[x[2]]) >= x[1]
                THEN U \cup {x} ELSE U
<1>10. \A p \in T : ~Sooner(x, p)
  <2> SUFFICES ASSUME NEW p \in T PROVE ~Sooner(x, p)
    OBVIOUS
  <2>1. x \in Nat \X Int /\ p \in Nat \X Int
    BY <1>6
  <2>2. p = x \/ Sooner(p, x)
    BY <1>6
  <2> QED
    BY <2>1, <2>2 DEF Sooner
<1>11. \A p \in T : {r \in V : Sooner(r, p)} = {r \in U : Sooner(r, p)}
  BY <1>10
<1>12. Taken(T, n, V)
  <2> SUFFICES ASSUME NEW p \in T
               PROVE  LET before == {r \in V : Sooner(r, p)}
                      IN  p \in V <=> /\ Cardinality(before) < n
                                     /\ \A r \in before : Dist(vec[r[2]], vec[p[2]]) >= p[1]
    BY DEF Taken
  <2>1. {r \in V : Sooner(r, p)} = {r \in U : Sooner(r, p)}
    BY <1>11
  <2>2. CASE p = x
    <3>1. p \in V <=> /\ Cardinality(old) < n
                      /\ \A r \in old : Dist(vec[r[2]], vec[x[2]]) >= x[1]
      BY <2>2, <1>9
    <3> QED BY <2>1, <2>2, <3>1
  <2>3. CASE p # x
    <3>1. p \in V <=> p \in U
      BY <2>3
    <3>2. p \in T \ {x}
      BY <2>3
    <3>3. LET before == {r \in U : Sooner(r, p)}
          IN  p \in U <=> /\ Cardinality(before) < n
                         /\ \A r \in before : Dist(vec[r[2]], vec[p[2]]) >= p[1]
      BY <1>9, <3>2 DEF Taken
    <3> QED BY <2>1, <3>1, <3>3
  <2> QED BY <2>2, <2>3
<1>13. V \in SUBSET T
  BY <1>6, <1>9
<1> QED
  BY <1>4, <1>12, <1>13

\* The heuristic chooses among what it is given, and no more than n.
LEMMA HeuristicIs ==
    ASSUME NEW S, IsFiniteSet(S), S \subseteq Nat \X Int, NEW n \in Nat
    PROVE  /\ Heuristic(S, n) \subseteq S /\ IsFiniteSet(Heuristic(S, n))
           /\ Cardinality(Heuristic(S, n)) <= n
<1> DEFINE H == Heuristic(S, n)
<1>1. CASE Cardinality(S) < n
  <2>1. Cardinality(S) \in Nat
    BY FS_CardinalityType
  <2> QED
    BY <1>1, <2>1 DEF Heuristic
<1>2. CASE ~(Cardinality(S) < n)
  <2>1. H = CHOOSE taken \in SUBSET S : Taken(S, n, taken)
    BY <1>2 DEF Heuristic, Taken
  <2>2. H \in SUBSET S /\ Taken(S, n, H)
    BY <2>1, SomeTaken
  <2> HIDE DEF H
  <2>3. IsFiniteSet(H) /\ Cardinality(H) \in Nat
    BY <2>2, FS_Subset, FS_CardinalityType
  <2>4. CASE H = {}
    BY <2>2, <2>3, <2>4, FS_EmptySet DEF H
  <2>5. CASE H # {}
    <3>1. PICK x \in H : \A q \in H \ {x} : Sooner(q, x)
      BY <2>2, <2>3, <2>5, LastIs
    <3>2. ~Sooner(x, x)
      <4> x \in Nat \X Int
        BY <2>2, <3>1
      <4> QED BY DEF Sooner
    <3>3. {r \in H : Sooner(r, x)} = H \ {x}
      BY <3>1, <3>2
    <3>4. Cardinality(H \ {x}) < n
      BY <2>2, <3>1, <3>3 DEF Taken
    <3>5. Cardinality(H \ {x}) = Cardinality(H) - 1
      BY <2>3, <3>1, FS_RemoveElement
    <3> QED
      BY <2>2, <2>3, <3>4, <3>5 DEF H
  <2> QED BY <2>4, <2>5
<1> QED
  BY <1>1, <1>2

\* The nearest of a set of pairs are some of it.
LEMMA BestIn ==
    ASSUME NEW S, NEW n
    PROVE  Best(S, n) \subseteq S
  BY DEF Best

-----------------------------------------------------------------------------
(* The inductive invariant.                                                 *)

\* The insertion of thread u has got to connecting its element on level l, or beyond.
Reached(u, l) ==
    \/ pc[u] = "publish"
    \/ pc[u] \in {"search", "connect"} /\ at[u] < l
    \/ pc[u] = "connect" /\ at[u] = l

\* What may stand in a list of level l, and be found there: an element that has a list
\* on the level, and if it is still being inserted, is being connected there.
Listed(j, l) ==
    /\ j \in Stored /\ l <= level[j]
    /\ \A u \in Threads : Inserting(u) /\ job[u].id = j => Reached(u, l)

\* An element whose insertion is done.
Present(j) == j \in Stored /\ LockFree(j)

JobType == [id : Ids \cup {None}, update : BOOLEAN, max : Levels \cup {None},
            entry : Ids \cup {None}]
InsertSteps == {"global", "entry", "descend", "search", "connect", "publish"}
UpdateSteps == {"copy", "neighbours", "hops", "rewrite", "descend", "search", "connect"}

ElementTypes ==
    /\ count \in 0 .. MaxElements /\ level \in [Ids -> Levels] /\ deleted \subseteq Stored
    /\ vec \in [Ids -> Vectors \cup {None}] /\ \A i \in Stored : vec[i] \in Vectors
    /\ links \in [Ids -> [Levels -> SUBSET Ids]]
    /\ fault \in BOOLEAN /\ dropped \subseteq Ids \X Levels /\ updates \in 0 .. MaxUpdates

ThreadTypes ==
    /\ pc \in [Threads -> {"idle"} \cup InsertSteps \cup UpdateSteps]
    /\ job \in [Threads -> JobType]
    /\ hop \in [Threads -> SUBSET Ids] /\ rest \in [Threads -> SUBSET Ids]

WalkTypes ==
    /\ at \in [Threads -> Levels] /\ obj \in [Threads -> Ids \cup {None}] /\ near \in [Threads -> Nat]
    /\ top \in [Threads -> SUBSET (Nat \X Ids)] /\ cand \in [Threads -> SUBSET (Nat \X Ids)]
    /\ seen \in [Threads -> SUBSET Ids]

Types == ElementTypes /\ ThreadTypes /\ WalkTypes

ListInv ==
    /\ \A i \in Ids : i >= count => \A l \in Levels : links[i][l] = {}
    /\ \A i \in Ids, l \in Levels :
          /\ Cardinality(links[i][l]) <= MaxLinks(l)
          /\ \A j \in links[i][l] : j # i /\ Listed(j, l) /\ l <= level[i]

EntryInv ==
    /\ \/ enterpoint_node_ = None /\ maxlevel_ = None
       \/ Present(enterpoint_node_) /\ maxlevel_ = level[enterpoint_node_]
    /\ global \in Threads \cup {None}
    /\ global # None => Inserting(global) /\ pc[global] # "global" /\ job[global].max = maxlevel_
    /\ \A i \in Stored :
          \/ level[i] <= maxlevel_
          \/ \E t \in Threads : Inserting(t) /\ job[t].id = i /\ (pc[t] = "global" \/ global = t)

Apart ==
    \A t, u \in Threads : t # u /\ Busy(t) /\ Busy(u) => job[t].id # job[u].id /\ deleted = {}

JobInv(t) ==
    /\ Busy(t) => job[t].id \in Stored \ deleted
    /\ Busy(t) => IF job[t].update THEN pc[t] \in UpdateSteps ELSE pc[t] \in InsertSteps
    /\ Inserting(t) /\ pc[t] # "global" =>
          job[t].max <= maxlevel_ /\ (global = t <=> level[job[t].id] > job[t].max)
    /\ job[t].entry # None => Present(job[t].entry)
    /\ Inserting(t) /\ pc[t] \in {"descend", "search", "connect"} =>
          job[t].entry # None /\ job[t].max # None /\ job[t].max <= level[job[t].entry]
    /\ Busy(t) /\ job[t].update =>
          /\ job[t].max # None => level[job[t].id] <= job[t].max
          /\ pc[t] # "copy" => job[t].max # None /\ job[t].entry # None
          /\ deleted # {} => job[t].max \in {None, maxlevel_}
                             /\ job[t].entry \in {None, enterpoint_node_}
    /\ pc[t] = "publish" => level[job[t].id] > job[t].max

\* Pairs of elements found on level l.
Found(S, l) == IsFiniteSet(S) /\ \A p \in S : Listed(p[2], l)

\* A search that has looked at no list yet.
Fresh(t) ==
    \E p \in cand[t] : /\ cand[t] = {p} /\ p[2] = obj[t]
                       /\ top[t] = cand[t] \/ (top[t] = {} /\ p[1] = Far)

WalkInv(t) ==
    LET i == job[t].id
    IN  /\ pc[t] = "descend" =>
              /\ level[i] < at[t] /\ at[t] <= job[t].max
              /\ Present(obj[t]) \/ Listed(obj[t], at[t])
        /\ pc[t] = "search" =>
              /\ at[t] <= level[i] /\ at[t] <= job[t].max /\ Present(obj[t])
              /\ Fresh(t) \/ (Found(cand[t], at[t]) /\ Found(top[t], at[t]))
        /\ pc[t] = "connect" =>
              /\ at[t] <= level[i] /\ at[t] <= job[t].max
              /\ rest[t] # {} /\ \A j \in rest[t] : Listed(j, at[t]) /\ j # i
              /\ obj[t] \in rest[t] \/ Present(obj[t])
        /\ pc[t] \in {"idle", "copy"} => at[t] = 0
        /\ pc[t] = "neighbours" => at[t] <= level[i]
        /\ pc[t] \in {"hops", "rewrite"} =>
              /\ at[t] <= level[i]
              /\ \A j \in seen[t] : Listed(j, at[t])
              /\ \A j \in hop[t] \cup rest[t] : Listed(j, at[t]) /\ j # i
              /\ hop[t] # {} /\ rest[t] # {}

\* v has yet to connect its element with that of w, on the level that both are at.
Awaits(v, w) ==
    /\ Inserting(v) /\ Inserting(w) /\ pc[v] = "connect" /\ pc[w] = "connect"
    /\ at[v] = at[w] /\ job[w].id \in rest[v]

\* No circle of these: each set of threads has one that awaits none of them.
Acyclic == \A S \in SUBSET Threads : S # {} => \E v \in S : \A w \in S : ~Awaits(v, w)

IInv ==
    /\ Types /\ ListInv /\ EntryInv /\ Apart /\ Acyclic
    /\ \A t \in Threads : JobInv(t) /\ WalkInv(t)

-----------------------------------------------------------------------------
(* What a step of one thread leaves alone.                                  *)

\* The walk of thread u, and all of it.
WalkKept(u) ==
    /\ at'[u] = at[u] /\ obj'[u] = obj[u] /\ near'[u] = near[u]
    /\ top'[u] = top[u] /\ cand'[u] = cand[u] /\ seen'[u] = seen[u]

Kept(u) ==
    /\ pc'[u] = pc[u] /\ job'[u] = job[u] /\ WalkKept(u)
    /\ hop'[u] = hop[u] /\ rest'[u] = rest[u]

\* What the parts of a step write for one thread, they leave alone for another.
LEMMA PartsKeepOthers ==
    ASSUME Types, NEW t \in Threads, NEW u \in Threads, u # t,
           NEW o, NEW l, NEW h
    PROVE  /\ StartSearch(t, o, l) => WalkKept(u) /\ pc'[u] = pc[u]
           /\ StartDescent(t, o, l, h) => WalkKept(u) /\ pc'[u] = pc[u]
           /\ NextLayer(t) => WalkKept(u) /\ pc'[u] = pc[u]
           /\ Return(t) => Kept(u)
           /\ Onward(t, o) => Kept(u)
<1>0. /\ at \in [Threads -> Levels] /\ obj \in [Threads -> Ids \cup {None}] /\ near \in [Threads -> Nat]
      /\ top \in [Threads -> SUBSET (Nat \X Ids)] /\ cand \in [Threads -> SUBSET (Nat \X Ids)]
      /\ seen \in [Threads -> SUBSET Ids] /\ hop \in [Threads -> SUBSET Ids]
      /\ rest \in [Threads -> SUBSET Ids] /\ job \in [Threads -> JobType]
      /\ pc \in [Threads -> {"idle"} \cup InsertSteps \cup UpdateSteps]
  BY DEF Types, ThreadTypes, WalkTypes
<1>1. ASSUME NEW a, NEW b, NEW c, NEW d, NEW e, NEW f, Walk(t, a, b, c, d, e, f) PROVE WalkKept(u)
  BY <1>0, <1>1 DEF Walk, WalkKept, Set1
<1>2. ASSUME NEW p, NEW q, StartSearch(t, p, q) PROVE WalkKept(u) /\ pc'[u] = pc[u]
  BY <1>0, <1>1, <1>2 DEF StartSearch, Set1
<1>3. ASSUME NEW p, NEW q, NEW r, StartDescent(t, p, q, r) PROVE WalkKept(u) /\ pc'[u] = pc[u]
  BY <1>0, <1>1, <1>2, <1>3 DEF StartDescent, Set1
<1>4. ASSUME NextLayer(t) PROVE WalkKept(u) /\ pc'[u] = pc[u]
  BY <1>0, <1>1, <1>3, <1>4 DEF NextLayer, Set1
<1>5. ASSUME Return(t) PROVE Kept(u)
  BY <1>0, <1>1, <1>5 DEF Return, Kept, Set1
<1>6. ASSUME Onward(t, o) PROVE Kept(u)
  BY <1>0, <1>1, <1>2, <1>5, <1>6 DEF Onward, Kept, Set1
<1> QED
  BY <1>2, <1>3, <1>4, <1>5, <1>6

\* A step of one thread changes nothing that belongs to another one.
LEMMA StepKeepsOthers ==
    ASSUME Types, NEW t \in Threads, NEW u \in Threads, u # t, Step(t)
    PROVE  Kept(u)
<1>0. /\ at \in [Threads -> Levels] /\ obj \in [Threads -> Ids \cup {None}] /\ near \in [Threads -> Nat]
      /\ top \in [Threads -> SUBSET (Nat \X Ids)] /\ cand \in [Threads -> SUBSET (Nat \X Ids)]
      /\ seen \in [Threads -> SUBSET Ids] /\ hop \in [Threads -> SUBSET Ids]
      /\ rest \in [Threads -> SUBSET Ids] /\ job \in [Threads -> JobType]
      /\ pc \in [Threads -> {"idle"} \cup InsertSteps \cup UpdateSteps]
  BY DEF Types, ThreadTypes, WalkTypes
<1>1. CASE TakeGlobal(t)
  BY <1>0, <1>1 DEF TakeGlobal, walkVars, Kept, WalkKept, Set1
<1>2. CASE FirstElement(t)
  BY <1>2, PartsKeepOthers DEF FirstElement
<1>3. CASE ReadEntry(t)
  BY <1>0, <1>3, PartsKeepOthers DEF ReadEntry, Kept
<1>4. CASE Descend(t)
  BY <1>0, <1>4, PartsKeepOthers DEF Descend, Kept, WalkKept, Walk, Set1
<1>5. CASE Expand(t)
  BY <1>0, <1>5 DEF Expand, Kept, WalkKept, Walk, Set1
<1>6. CASE ReadsBeyond(t)
  BY <1>6 DEF ReadsBeyond, Kept, WalkKept, walkVars
<1>7. CASE Select(t)
  BY <1>0, <1>7 DEF Select, Kept, WalkKept, Set1
<1>8. CASE SkipLevel(t)
  BY <1>8, PartsKeepOthers DEF SkipLevel
<1>9. CASE Connect(t)
  BY <1>0, <1>9, PartsKeepOthers DEF Connect, Kept, WalkKept, walkVars, Set1
<1>10. CASE Publish(t)
  BY <1>10, PartsKeepOthers DEF Publish
<1>11. CASE CopyMaxLevel(t) \/ CopyEntry(t)
  BY <1>0, <1>11, PartsKeepOthers DEF CopyMaxLevel, CopyEntry, Copy, Kept, WalkKept, walkVars, Set1
<1>12. CASE ReadNeighbours(t)
  BY <1>0, <1>12, PartsKeepOthers DEF ReadNeighbours, Kept, WalkKept, Walk, Set1
<1>13. CASE \E n \in Ids : ReadHop(t, n)
  BY <1>0, <1>13 DEF ReadHop, Kept, WalkKept, Set1
<1>14. CASE \E n \in Ids : Rewrite(t, n)
  BY <1>0, <1>14, PartsKeepOthers DEF Rewrite, Kept, WalkKept, walkVars, Set1
<1> QED
  BY <1>1, <1>2, <1>3, <1>4, <1>5, <1>6, <1>7, <1>8, <1>9, <1>10, <1>11, <1>12, <1>13, <1>14 DEF Step

\* No step of addPoint past its beginning changes elements, vectors or marks.
LEMMA StepKeepsElements ==
    ASSUME NEW t \in Threads, Step(t)
    PROVE  count' = count /\ level' = level /\ vec' = vec /\ deleted' = deleted /\ updates' = updates
  BY DEF Step, TakeGlobal, FirstElement, ReadEntry, Descend, Expand, ReadsBeyond, Select, SkipLevel,
         Connect, Publish, CopyMaxLevel, CopyEntry, Copy, ReadNeighbours, ReadHop, Rewrite, graphVars

\* A thread goes on with its own element, ever further down, or is done with it.
Progress(t) ==
    \/ ~Busy(t)'
    \/ /\ Busy(t) /\ job'[t].id = job[t].id /\ job'[t].update = job[t].update
       /\ \A l \in Levels : Reached(t, l) => Reached(t, l)'

\* What was an element, or in the graph on some level, still is.
Grows ==
    /\ Stored \subseteq Stored'
    /\ \A j \in Stored : level'[j] = level[j] /\ (Present(j) => Present(j)')
    /\ \A j \in Stored, l \in Levels : Listed(j, l) => Listed(j, l)'

\* Levels and ids are numbers, which no mark for an absent one is.
LEMMA NumbersAre ==
    /\ None = -1 /\ None \notin Ids /\ None \notin Levels /\ 0 \in Levels
    /\ \A l \in Levels : l \in Nat
    /\ \A i \in Ids : i \in Nat
    /\ \A S \in SUBSET (Nat \X Ids) : S \subseteq Nat \X Int
  BY GraphAssumption DEF Levels, None, Ids

\* The parts of a step by which a thread goes on only bring it further on its way through
\* the levels, or out of addPoint.
LEMMA PartsProgress ==
    ASSUME Types, NEW t \in Threads, NEW o, Busy(t)
    PROVE  /\ Return(t) => ~Busy(t)'
           /\ pc[t] \in {"search", "connect"} /\ Onward(t, o) => Progress(t)
<1>0. /\ at \in [Threads -> Levels] /\ at[t] \in Levels /\ DOMAIN at = Threads /\ DOMAIN pc = Threads /\ DOMAIN job = Threads
  BY DEF Types, ThreadTypes, WalkTypes
<1>1. Return(t) => ~Busy(t)'
  BY <1>0 DEF Return, Busy, Set1
<1>2. ASSUME pc[t] \in {"search", "connect"}, Onward(t, o), ~Return(t) PROVE Progress(t)
  <2>1. CASE at[t] > 0
    <3>1. pc'[t] = "search" /\ at'[t] = at[t] - 1 /\ job' = job
      BY <1>0, <1>2, <2>1 DEF Onward, StartSearch, Walk, Set1
    <3>2. \A l \in Levels : Reached(t, l) => Reached(t, l)'
      <4> SUFFICES ASSUME NEW l \in Levels, Reached(t, l) PROVE Reached(t, l)'
        OBVIOUS
      <4>1. l \in Nat /\ at[t] \in Nat
        BY <1>0, NumbersAre
      <4>2. at[t] <= l
        BY <1>2, <4>1 DEF Reached
      <4>3. at'[t] < l
        BY <3>1, <4>1, <4>2
      <4> QED BY <3>1, <4>3 DEF Reached
    <3> QED
      BY <3>1, <3>2 DEF Progress
  <2>2. CASE ~(at[t] > 0)
    <3>1. pc'[t] = "publish" /\ job' = job
      BY <1>0, <1>2, <2>2 DEF Onward, Set1
    <3>2. \A l \in Levels : Reached(t, l) => Reached(t, l)'
      BY <3>1 DEF Reached
    <3> QED
      BY <3>1, <3>2 DEF Progress
  <2> QED BY <2>1, <2>2
<1> QED
  BY <1>1, <1>2 DEF Progress

\* A thread never goes back: once it has reached a level it has reached it until it
\* returns.
LEMMA StepProgresses ==
    ASSUME Types, NEW t \in Threads, Step(t)
    PROVE  Progress(t)
<1>0. /\ at \in [Threads -> Levels] /\ at[t] \in Levels /\ DOMAIN at = Threads /\ DOMAIN pc = Threads /\ DOMAIN job = Threads
      /\ job[t] \in JobType
  BY DEF Types, ThreadTypes, WalkTypes
<1> DEFINE Same == job'[t].id = job[t].id /\ job'[t].update = job[t].update
<1>20. ASSUME Busy(t), Same, pc[t] \notin {"search", "connect", "publish"} PROVE Progress(t)
  BY <1>20 DEF Progress, Reached
<1>21. ASSUME pc[t] \in {"search", "connect"}, job' = job, pc'[t] \in {pc[t], "connect"}, at' = at
       PROVE Progress(t)
  <2>1. \A l \in Levels : Reached(t, l) => Reached(t, l)'
    BY <1>21 DEF Reached
  <2> QED
    BY <1>21, <2>1 DEF Progress, Busy
<1>1. CASE TakeGlobal(t)
  <2>1. Same
    BY <1>0, <1>1 DEF TakeGlobal, JobType
  <2> QED BY <1>1, <1>20, <2>1 DEF TakeGlobal, Busy
<1>2. CASE FirstElement(t)
  BY <1>2, PartsProgress DEF FirstElement, Busy, Progress
<1>3. CASE ReadEntry(t)
  <2>1. Same
    BY <1>0, <1>3 DEF ReadEntry, JobType
  <2> QED BY <1>3, <1>20, <2>1 DEF ReadEntry, Busy
<1>4. CASE Descend(t)
  BY <1>4, <1>20 DEF Descend, Busy
<1>5. CASE Expand(t)
  <2>1. pc' = pc /\ job' = job /\ at' = at /\ pc[t] = "search"
    BY <1>0, <1>5 DEF Expand, Walk, Set1
  <2> QED BY <1>21, <2>1
<1>6. CASE ReadsBeyond(t)
  <2>1. pc' = pc /\ job' = job /\ at' = at /\ pc[t] \in {"search", "descend"}
    BY <1>6 DEF ReadsBeyond, Beyond, walkVars
  <2> QED BY <1>20, <1>21, <2>1 DEF Busy
<1>7. CASE Select(t)
  <2>1. pc[t] = "search" /\ pc'[t] = "connect" /\ job' = job /\ at' = at
    BY <1>0, <1>7 DEF Select, Set1
  <2> QED BY <1>21, <2>1
<1>8. CASE SkipLevel(t)
  BY <1>8, PartsProgress DEF SkipLevel, Busy
<1>9. CASE Connect(t)
  <2>0. pc[t] = "connect" /\ Busy(t)
    BY <1>9 DEF Connect, Busy
  <2>1. CASE Onward(t, obj[t])
    BY <2>0, <2>1, PartsProgress
  <2>2. CASE ~Onward(t, obj[t])
    <3>1. pc' = pc /\ job' = job /\ at' = at
      BY <1>9, <2>2 DEF Connect, walkVars
    <3> QED BY <1>21, <2>0, <3>1
  <2> QED BY <2>1, <2>2
<1>10. CASE Publish(t)
  BY <1>10, PartsProgress DEF Publish, Busy, Progress
<1>11. CASE CopyMaxLevel(t) \/ CopyEntry(t)
  <2>0. pc[t] = "copy" /\ Busy(t)
    BY <1>11 DEF CopyMaxLevel, CopyEntry, Busy
  <2>1. ASSUME NEW m, NEW e, Copy(t, m, e) PROVE Same \/ Return(t)
    BY <1>0, <2>1 DEF Copy, JobType
  <2>2. Same \/ Return(t)
    BY <1>11, <2>1 DEF CopyMaxLevel, CopyEntry
  <2> QED BY <1>20, <2>0, <2>2, PartsProgress DEF Progress
<1>12. CASE ReadNeighbours(t)
  BY <1>12, <1>20 DEF ReadNeighbours, Busy
<1>13. CASE \E n \in Ids : ReadHop(t, n) \/ Rewrite(t, n)
  BY <1>13, <1>20 DEF ReadHop, Rewrite, Busy
<1> QED
  BY <1>1, <1>2, <1>3, <1>4, <1>5, <1>6, <1>7, <1>8, <1>9, <1>10, <1>11, <1>12, <1>13 DEF Step

\* What is in the graph on a level, or whole, stays so in a step of addPoint.
LEMMA StepGrows ==
    ASSUME Types, NEW t \in Threads, Step(t)
    PROVE  Grows
<1>1. \A u \in Threads \ {t} : pc'[u] = pc[u] /\ job'[u] = job[u] /\ at'[u] = at[u]
  BY StepKeepsOthers DEF Kept, WalkKept
<1>2. Progress(t)
  BY StepProgresses
<1>3. count' = count /\ level' = level
  BY StepKeepsElements
<1>4. \A u \in Threads : Inserting(u)' =>
          /\ Inserting(u) /\ job'[u].id = job[u].id
          /\ \A l \in Levels : Reached(u, l) => Reached(u, l)'
  <2> SUFFICES ASSUME NEW u \in Threads, Inserting(u)'
               PROVE  /\ Inserting(u) /\ job'[u].id = job[u].id
                      /\ \A l \in Levels : Reached(u, l) => Reached(u, l)'
    OBVIOUS
  <2>1. CASE u = t
    BY <1>2, <2>1 DEF Progress, Inserting
  <2>2. CASE u # t
    BY <1>1, <2>2 DEF Reached, Inserting, Busy
  <2> QED BY <2>1, <2>2
<1>5. \A j \in Stored : LockFree(j) => LockFree(j)'
  BY <1>4 DEF LockFree
<1>6. \A j \in Stored, l \in Levels : Listed(j, l) => Listed(j, l)'
  BY <1>3, <1>4 DEF Listed, Stored
<1> QED
  BY <1>3, <1>5, <1>6 DEF Grows, Present, Stored

\* The elements are ids, and all of them are numbers.
LEMMA StoredIds ==
    ASSUME Types
    PROVE  Stored \subseteq Ids /\ count \in Nat /\ Ids \subseteq Nat
  BY GraphAssumption DEF Types, ElementTypes, Stored, Ids

\* A pair of an element's vector and another element.
LEMMA PairIs ==
    ASSUME Types, NEW i \in Stored, NEW j \in Stored
    PROVE  /\ Pair(vec[i], j) \in Nat \X Ids /\ Pair(vec[i], j)[2] = j
           /\ Pair(vec[i], j)[1] = Dist(vec[i], vec[j]) /\ Dist(vec[i], vec[j]) \in Nat
           /\ Dist(vec[i], vec[j]) < Far /\ Far \in Nat
<1>1. vec[i] \in Vectors /\ vec[j] \in Vectors /\ j \in Ids
  BY StoredIds DEF Types, ElementTypes
<1> QED
  BY <1>1, GraphAssumption DEF Pair

\* Pairs with the elements of a set.
LEMMA PairsAre ==
    ASSUME Types, NEW i \in Stored, NEW J \in SUBSET Stored
    PROVE  LET S == {Pair(vec[i], j) : j \in J}
           IN  /\ S \subseteq Nat \X Ids /\ IsFiniteSet(S) /\ IdsOf(S) = J
               /\ \A p \in S : p[2] \in J
<1> DEFINE S == {Pair(vec[i], j) : j \in J}
<1>1. \A j \in J : Pair(vec[i], j) \in Nat \X Ids /\ Pair(vec[i], j)[2] = j
  BY PairIs
<1>2. IsFiniteSet(J)
  <2>1. IsFiniteSet(Stored)
    BY StoredIds, FS_Interval DEF Stored
  <2> QED BY <2>1, FS_Subset
<1>3. IsFiniteSet(S)
  BY <1>2, PairsFinite
<1>4. IdsOf(S) = J
  BY <1>1 DEF IdsOf
<1> QED
  BY <1>1, <1>3, <1>4

\* The parts of a step leave the walk of the thread well-typed.
LEMMA PartsTyped ==
    ASSUME Types, NEW t \in Threads, job[t].id \in Stored, NEW o \in Stored
    PROVE  /\ \A l \in Levels : StartSearch(t, o, l) =>
                 WalkTypes' /\ pc' \in [Threads -> {"idle"} \cup InsertSteps \cup UpdateSteps]
           /\ \A l \in Levels \cup {None}, h \in Levels : StartDescent(t, o, l, h) =>
                 WalkTypes' /\ pc' \in [Threads -> {"idle"} \cup InsertSteps \cup UpdateSteps]
           /\ Return(t) => WalkTypes' /\ ThreadTypes'
           /\ Onward(t, o) => WalkTypes' /\ ThreadTypes'
<1>0. WalkTypes /\ ThreadTypes /\ 0 \in Levels /\ None \notin Levels /\ 0 \in Nat
      /\ None \in Ids \cup {None} /\ {} \in SUBSET (Nat \X Ids) /\ {} \in SUBSET Ids
  BY NumbersAre DEF Types
<1>1. Pair(Query(t), o) \in Nat \X Ids /\ <<Far, o>> \in Nat \X Ids /\ o \in Ids
      /\ Dist(Query(t), vec[o]) \in Nat
  BY PairIs, StoredIds, GraphAssumption DEF Query
<1>2. ASSUME NEW a \in Levels, NEW b \in Ids \cup {None}, NEW c \in Nat, NEW d \in SUBSET (Nat \X Ids),
             NEW e \in SUBSET (Nat \X Ids), NEW f \in SUBSET Ids, Walk(t, a, b, c, d, e, f)
      PROVE  WalkTypes'
  BY <1>0, <1>2 DEF Walk, WalkTypes, Set1
<1>3. ASSUME NEW l \in Levels, StartSearch(t, o, l)
      PROVE  WalkTypes' /\ pc' \in [Threads -> {"idle"} \cup InsertSteps \cup UpdateSteps]
  <2>1. pc' \in [Threads -> {"idle"} \cup InsertSteps \cup UpdateSteps]
    BY <1>0, <1>3 DEF StartSearch, ThreadTypes, Set1, InsertSteps
  <2>2. CASE o \in deleted
    <3>1. Walk(t, l, o, 0, {}, {<<Far, o>>}, {o})
      BY <1>3, <2>2 DEF StartSearch
    <3>2. {<<Far, o>>} \in SUBSET (Nat \X Ids) /\ {o} \in SUBSET Ids
      BY <1>1
    <3> QED BY <1>1, <1>2, <2>1, <3>1, <3>2
  <2>3. CASE o \notin deleted
    <3>1. Walk(t, l, o, 0, {Pair(Query(t), o)}, {Pair(Query(t), o)}, {o})
      BY <1>3, <2>3 DEF StartSearch
    <3>2. {Pair(Query(t), o)} \in SUBSET (Nat \X Ids) /\ {o} \in SUBSET Ids
      BY <1>1
    <3> QED BY <1>1, <1>2, <2>1, <3>1, <3>2
  <2> QED BY <2>2, <2>3
<1>4. ASSUME NEW l \in Levels \cup {None}, NEW h \in Levels, StartDescent(t, o, l, h)
      PROVE  WalkTypes' /\ pc' \in [Threads -> {"idle"} \cup InsertSteps \cup UpdateSteps]
  <2>1. CASE l > h
    <3>1. l \in Levels
      BY <2>1, NumbersAre
    <3>2. Walk(t, l, o, Dist(Query(t), vec[o]), {}, {}, {}) /\ pc' = Set1(pc, t, "descend")
      BY <1>4, <2>1 DEF StartDescent
    <3>3. WalkTypes'
      BY <1>1, <1>2, <3>1, <3>2
    <3> QED
      BY <1>0, <3>2, <3>3 DEF ThreadTypes, Set1, InsertSteps
  <2>2. CASE ~(l > h)
    BY <1>3, <1>4, <2>2 DEF StartDescent
  <2> QED BY <2>1, <2>2
<1>5. ASSUME Return(t) PROVE WalkTypes' /\ ThreadTypes'
  <2>1. WalkTypes'
    BY <1>0, <1>2, <1>5 DEF Return
  <2>2. NoJob \in JobType
    BY DEF NoJob, JobType
  <2> QED
    BY <1>0, <1>5, <2>1, <2>2 DEF Return, ThreadTypes, Set1
<1>6. ASSUME Onward(t, o), ~Return(t) PROVE WalkTypes' /\ ThreadTypes'
  <2>1. CASE at[t] > 0
    <3>1. at[t] - 1 \in Levels
      <4>1. TopLevel \in Nat /\ at[t] \in 0 .. TopLevel
        BY <1>0, GraphAssumption DEF WalkTypes, Levels
      <4> QED BY <2>1, <4>1 DEF Levels
    <3>2. StartSearch(t, o, at[t] - 1) /\ job' = job /\ hop' = hop /\ rest' = Set1(rest, t, {})
      BY <1>6, <2>1 DEF Onward
    <3> QED
      BY <1>0, <1>3, <3>1, <3>2 DEF ThreadTypes, Set1
  <2>2. CASE ~(at[t] > 0)
    <3>1. Walk(t, 0, None, 0, {}, {}, {}) /\ pc' = Set1(pc, t, "publish") /\ job' = job /\ hop' = hop
          /\ rest' = Set1(rest, t, {})
      BY <1>6, <2>2 DEF Onward
    <3>2. WalkTypes'
      BY <1>0, <1>2, <3>1
    <3> QED
      BY <1>0, <3>1, <3>2 DEF ThreadTypes, Set1, InsertSteps
  <2> QED BY <2>1, <2>2
<1> QED
  BY <1>3, <1>4, <1>5, <1>6

\* A link list is given elements.
LEMMA SetLinksTyped ==
    ASSUME ElementTypes, NEW i \in Ids, NEW l \in Levels, NEW J \in SUBSET Ids, NEW S \in SUBSET Ids,
           SetLinks(i, l, J, S)
    PROVE  links' \in [Ids -> [Levels -> SUBSET Ids]] /\ dropped' \subseteq Ids \X Levels
<1>1. links \in [Ids -> [Levels -> SUBSET Ids]] /\ dropped \subseteq Ids \X Levels
  BY DEF ElementTypes
<1>2. links[i][l] \in SUBSET Ids
  BY <1>1
<1>3. links' \in [Ids -> [Levels -> SUBSET Ids]]
  BY <1>1 DEF SetLinks
<1> QED
  BY <1>1, <1>2, <1>3 DEF SetLinks

-----------------------------------------------------------------------------
(* What a search has found.                                                 *)

\* A search that has not looked at a list yet goes on.
LEMMA FreshGoesOn ==
    ASSUME Types, NEW t \in Threads, Fresh(t)
    PROVE  ~SearchStops(t)
<1>1. PICK p \in cand[t] : cand[t] = {p} /\ (top[t] = cand[t] \/ (top[t] = {} /\ p[1] = Far))
  BY DEF Fresh
<1>2. cand[t] \subseteq Nat \X Ids
  BY DEF Types, WalkTypes
<1>3. p[1] \in Nat
  BY <1>2
<1>4. Closest(cand[t]) = p
  BY <1>1 DEF Closest
<1>5. Furthest(cand[t]) = p
  BY <1>1 DEF Furthest
<1>6. LowerBound(top[t]) = p[1]
  BY <1>1, <1>5 DEF LowerBound
<1> QED
  BY <1>1, <1>3, <1>4, <1>6 DEF SearchStops

\* The nearest candidate is an element, in the graph on this level or whole.
LEMMA CandidateIs ==
    ASSUME Types, NEW t \in Threads, WalkInv(t), pc[t] = "search", ~SearchStops(t)
    PROVE  LET c == Closest(cand[t])
           IN  /\ c \in cand[t] /\ c[2] \in Stored
               /\ Listed(c[2], at[t]) \/ (c[2] = obj[t] /\ cand[t] = {c})
<1>1. cand[t] # {} /\ \A p \in cand[t] : p[1] \in Nat
  BY DEF SearchStops, Types, WalkTypes
<1>2. Closest(cand[t]) \in cand[t]
  BY <1>1, ClosestIs
<1>3. Present(obj[t]) /\ (Fresh(t) \/ Found(cand[t], at[t]))
  BY DEF WalkInv
<1> QED
  BY <1>2, <1>3 DEF Fresh, Found, Listed, Present

\* When a search stops, it has found elements of its level.
LEMMA StopsFound ==
    ASSUME Types, NEW t \in Threads, WalkInv(t), pc[t] = "search", SearchStops(t)
    PROVE  Found(top[t], at[t]) /\ Found(cand[t], at[t])
  BY FreshGoesOn DEF WalkInv

\* The neighbours chosen are no more than M, all of them other elements that are
\* in the graph on the level.
LEMMA ChosenIs ==
    ASSUME IInv, NEW t \in Threads, pc[t] = "search", SearchStops(t)
    PROVE  /\ Chosen(t) \subseteq Nat \X Ids /\ IsFiniteSet(Chosen(t)) /\ Cardinality(Chosen(t)) <= M
           /\ \A p \in Chosen(t) : Listed(p[2], at[t]) /\ p[2] # job[t].id
<1> DEFINE i == job[t].id
           e == job[t].entry
           found == {p \in top[t] : job[t].update => p[2] # i}
           all == found \cup {Pair(Query(t), e)}
<1>0. Types /\ JobInv(t) /\ WalkInv(t) /\ EntryInv
  BY DEF IInv
<1>1. /\ Busy(t) /\ i \in Stored /\ i \notin deleted /\ job[t].update \in BOOLEAN
      /\ at[t] \in Levels /\ top[t] \subseteq Nat \X Ids
  BY <1>0 DEF JobInv, Busy, Types, ThreadTypes, WalkTypes, JobType
<1>2. Found(top[t], at[t]) /\ IsFiniteSet(top[t])
  BY <1>0, StopsFound DEF Found
<1>3. IsFiniteSet(found) /\ found \subseteq Nat \X Ids
  BY <1>1, <1>2, FS_Subset
<1>4. \A p \in found : Listed(p[2], at[t]) /\ p[2] # i
  <2> SUFFICES ASSUME NEW p \in found PROVE Listed(p[2], at[t]) /\ p[2] # i
    OBVIOUS
  <2>1. Listed(p[2], at[t])
    BY <1>2 DEF Found
  <2>2. CASE job[t].update
    BY <2>1, <2>2
  <2>3. CASE ~job[t].update
    <3>1. Inserting(t) /\ ~Reached(t, at[t])
      BY <1>0, <1>1, <2>3 DEF Inserting, Reached, Types, WalkTypes, Levels
    <3> QED BY <2>1, <3>1 DEF Listed
  <2> QED BY <1>1, <2>2, <2>3
<1>5. ASSUME e \in deleted
      PROVE  /\ Listed(e, at[t]) /\ e # i /\ Pair(Query(t), e) \in Nat \X Ids
             /\ Pair(Query(t), e)[2] = e
  <2>1. e # None /\ e \in Stored
    BY <1>0, <1>5, NumbersAre, StoredIds DEF Types, ElementTypes
  <2>2. Present(e)
    BY <1>0, <2>1 DEF JobInv
  <2>3. level[e] \in Levels /\ job[t].max \in Levels \cup {None}
    BY <1>0, <2>1, StoredIds DEF Types, ElementTypes, ThreadTypes, JobType
  <2>4. at[t] <= job[t].max
    BY <1>0 DEF WalkInv
  <2>5. job[t].max # None
    BY <1>1, <2>3, <2>4, NumbersAre
  <2>6. job[t].max <= level[e]
    <3>1. CASE job[t].update
      <4>1. job[t].max = maxlevel_ /\ e = enterpoint_node_
        BY <1>0, <1>1, <1>5, <2>1, <2>5, <3>1 DEF JobInv
      <4>2. maxlevel_ = level[e]
        BY <1>0, <2>1, <4>1 DEF EntryInv
      <4> QED BY <2>3, <4>1, <4>2, NumbersAre
    <3>2. CASE ~job[t].update
      BY <1>0, <1>1, <3>2 DEF JobInv, Inserting
    <3> QED BY <1>1, <3>1, <3>2
  <2>7. at[t] <= level[e]
    BY <1>1, <2>3, <2>4, <2>5, <2>6, NumbersAre
  <2>8. Listed(e, at[t])
    BY <2>1, <2>2, <2>7 DEF Listed, Present, LockFree
  <2> QED
    BY <1>0, <1>1, <1>5, <2>1, <2>8, PairIs DEF Query
<1>6. M \in Nat
  BY GraphAssumption
<1>7. CASE Chosen(t) = Heuristic(found, M)
  <2>1. found \subseteq Nat \X Int
    BY <1>3, NumbersAre
  <2> HIDE DEF found
  <2>2. /\ Heuristic(found, M) \subseteq found /\ IsFiniteSet(Heuristic(found, M))
        /\ Cardinality(Heuristic(found, M)) <= M
    BY <1>3, <1>6, <2>1, HeuristicIs
  <2> QED
    BY <1>3, <1>4, <1>7, <2>2
<1>8. CASE e \in deleted /\ Chosen(t) = Heuristic(Best(all, EfConstruction), M)
  <2>1. all \subseteq Nat \X Ids /\ IsFiniteSet(all)
    BY <1>3, <1>5, <1>8, FS_AddElement
  <2>2. \A p \in all : Listed(p[2], at[t]) /\ p[2] # i
    BY <1>4, <1>5, <1>8
  <2> DEFINE best == Best(all, EfConstruction)
  <2>3. best \subseteq all /\ IsFiniteSet(best)
    BY <2>1, BestIn, FS_Subset
  <2>4. best \subseteq Nat \X Int
    BY <2>1, <2>3, NumbersAre
  <2>5. Chosen(t) = Heuristic(best, M)
    BY <1>8
  <2> HIDE DEF all, best
  <2>6. /\ Heuristic(best, M) \subseteq best /\ IsFiniteSet(Heuristic(best, M))
        /\ Cardinality(Heuristic(best, M)) <= M
    BY <1>6, <2>3, <2>4, HeuristicIs
  <2> QED
    BY <2>1, <2>2, <2>3, <2>5, <2>6
<1> QED
  BY <1>7, <1>8 DEF Chosen

\* A thread inside addPoint has an element, which is not marked.
LEMMA BusyIs ==
    ASSUME IInv, NEW t \in Threads, Busy(t)
    PROVE  /\ job[t].id \in Stored /\ job[t].id \in Ids /\ job[t].id \notin deleted
           /\ level[job[t].id] \in Levels /\ job[t].update \in BOOLEAN
           /\ job[t].max \in Levels \cup {None} /\ job[t].entry \in Ids \cup {None}
           /\ at[t] \in Levels /\ obj[t] \in Ids \cup {None} /\ near[t] \in Nat
           /\ hop[t] \subseteq Ids /\ rest[t] \subseteq Ids /\ seen[t] \subseteq Ids
           /\ top[t] \subseteq Nat \X Ids /\ cand[t] \subseteq Nat \X Ids
<1>1. Types /\ JobInv(t)
  BY DEF IInv
<1>2. job[t].id \in Stored \ deleted /\ Stored \subseteq Ids
  BY <1>1, StoredIds DEF JobInv
<1> QED
  BY <1>1, <1>2 DEF Types, ElementTypes, ThreadTypes, WalkTypes, JobType

\* Elements of one list, and elements of the same level.
LEMMA LinksIs ==
    ASSUME IInv, NEW i \in Ids, NEW l \in Levels
    PROVE  /\ links[i][l] \subseteq Stored /\ IsFiniteSet(links[i][l])
           /\ Cardinality(links[i][l]) <= MaxLinks(l) /\ Cardinality(links[i][l]) \in Nat
           /\ \A j \in links[i][l] : j # i /\ Listed(j, l) /\ l <= level[i]
<1>1. Cardinality(links[i][l]) <= MaxLinks(l) /\ \A j \in links[i][l] : j # i /\ Listed(j, l) /\ l <= level[i]
  BY DEF IInv, ListInv
<1>2. links[i][l] \subseteq Stored
  BY <1>1 DEF Listed
<1>3. IsFiniteSet(Stored)
  BY StoredIds, FS_Interval DEF Stored, IInv
<1>4. IsFiniteSet(links[i][l])
  BY <1>2, <1>3, FS_Subset
<1> QED
  BY <1>1, <1>2, <1>4, FS_CardinalityType

\* A list has room for M elements at least.
LEMMA MaxLinksIs == \A l \in Levels : MaxLinks(l) \in Nat /\ M <= MaxLinks(l) /\ M \in Nat
  BY GraphAssumption DEF MaxLinks

\* The entry point a thread reads is whole, and as high as the level it has copied.
LEMMA EntryIs ==
    ASSUME IInv, NEW t \in Threads, pc[t] = "entry", enterpoint_node_ # None
    PROVE  /\ enterpoint_node_ \in Stored /\ Present(enterpoint_node_)
           /\ job[t].max \in Levels /\ job[t].max <= level[enterpoint_node_] /\ Inserting(t)
           /\ LowerOf(level[job[t].id], job[t].max) \in Levels
<1>1. EntryInv /\ JobInv(t) /\ Types
  BY DEF IInv
<1>2. Present(enterpoint_node_) /\ maxlevel_ = level[enterpoint_node_]
  BY <1>1 DEF EntryInv
<1>3. enterpoint_node_ \in Stored
  BY <1>2 DEF Present
<1>4. level[enterpoint_node_] \in Levels
  BY <1>1, <1>3, StoredIds DEF Types, ElementTypes
<1>5. Inserting(t) /\ Busy(t)
  <2>1. Busy(t)
    BY DEF Busy
  <2>2. "entry" \notin UpdateSteps
    BY DEF UpdateSteps
  <2> QED BY <1>1, <2>1, <2>2 DEF JobInv, Inserting
<1>6. job[t].max <= maxlevel_ /\ (global = t <=> level[job[t].id] > job[t].max)
  BY <1>1, <1>5 DEF JobInv
<1>7. level[job[t].id] \in Levels /\ job[t].max \in Levels \cup {None}
  BY <1>5, BusyIs
<1>8. job[t].max # None
  <2>1. SUFFICES ASSUME job[t].max = None PROVE FALSE
    OBVIOUS
  <2>2. level[job[t].id] > job[t].max
    BY <1>7, <2>1, NumbersAre
  <2>3. global = t /\ global # None
    BY <1>6, <2>2, GraphAssumption
  <2>4. job[t].max = maxlevel_
    BY <1>1, <2>3 DEF EntryInv
  <2> QED BY <1>2, <1>4, <2>1, <2>4, NumbersAre
<1>9. LowerOf(level[job[t].id], job[t].max) \in Levels
  BY <1>7, <1>8 DEF LowerOf
<1> QED
  BY <1>2, <1>3, <1>5, <1>6, <1>7, <1>8, <1>9

\* The nearest of an object and its neighbours, in the greedy descent.
LEMMA DescendIs ==
    ASSUME IInv, NEW t \in Threads, pc[t] = "descend"
    PROVE  LET o    == obj[t]
               best == Closest({<<near[t], o>>} \cup {Pair(Query(t), j) : j \in links[o][at[t]]})
           IN  /\ o \in Stored /\ best[1] \in Nat /\ best[2] \in Stored
               /\ best[1] < near[t] => Listed(best[2], at[t])
<1> DEFINE o == obj[t]
           P == {Pair(Query(t), j) : j \in links[o][at[t]]}
           S == {<<near[t], o>>} \cup P
<1>1. Types /\ WalkInv(t) /\ Busy(t)
  BY DEF IInv, Busy
<1>2. o \in Stored /\ o \in Ids
  BY <1>1, StoredIds DEF WalkInv, Present, Listed
<1>3. job[t].id \in Stored /\ at[t] \in Levels /\ near[t] \in Nat
  BY <1>1, BusyIs
<1>4. links[o][at[t]] \in SUBSET Stored /\ \A j \in links[o][at[t]] : Listed(j, at[t])
  BY <1>2, <1>3, LinksIs
<1>5. P \subseteq Nat \X Ids /\ \A p \in P : p[2] \in links[o][at[t]]
  BY <1>1, <1>3, <1>4, PairsAre DEF Query
<1>6. <<near[t], o>> \in Nat \X Ids
  BY <1>2, <1>3
<1> HIDE DEF P
<1>7. S # {} /\ S \subseteq Nat \X Ids
  BY <1>5, <1>6
<1>8. Closest(S) \in S
  BY <1>7, ClosestIs
<1>9. Closest(S) = <<near[t], o>> \/ Closest(S) \in P
  BY <1>8
<1>10. Closest(S)[1] \in Nat /\ Closest(S)[2] \in Stored
  BY <1>2, <1>3, <1>4, <1>5, <1>9
<1>11. Closest(S)[1] < near[t] => Closest(S) \in P
  BY <1>3, <1>9
<1> QED
  BY <1>2, <1>4, <1>5, <1>10, <1>11 DEF P

\* The neighbour a thread connects its element with next.
LEMMA NeighbourIs ==
    ASSUME IInv, NEW t \in Threads, pc[t] = "connect"
    PROVE  LET n == Furthest({Pair(Query(t), j) : j \in rest[t]})[2]
           IN  n \in rest[t] /\ n \in Stored /\ Listed(n, at[t]) /\ n # job[t].id
<1> DEFINE P == {Pair(Query(t), j) : j \in rest[t]}
<1>1. Types /\ WalkInv(t) /\ Busy(t)
  BY DEF IInv, Busy
<1>2. rest[t] # {} /\ \A j \in rest[t] : Listed(j, at[t]) /\ j # job[t].id
  BY <1>1 DEF WalkInv
<1>3. rest[t] \in SUBSET Stored
  BY <1>2 DEF Listed
<1>4. job[t].id \in Stored
  BY <1>1, BusyIs
<1>5. P \subseteq Nat \X Ids /\ IsFiniteSet(P) /\ \A p \in P : p[2] \in rest[t]
  BY <1>1, <1>3, <1>4, PairsAre DEF Query
<1>6. P # {}
  BY <1>2
<1>7. P \subseteq Nat \X Int
  BY <1>5, NumbersAre
<1> HIDE DEF P
<1>8. Furthest(P) \in P
  BY <1>5, <1>6, <1>7, FurthestIs
<1> QED
  BY <1>2, <1>3, <1>5, <1>8 DEF P

\* The list of a neighbour with the element in it: nobody else is new there, and it
\* is no longer than its place.
LEMMA LinkedIs ==
    ASSUME IInv, NEW n \in Stored, NEW i \in Stored, NEW l \in Levels, NEW update
    PROVE  /\ Linked(n, i, l, update) \subseteq links[n][l] \cup {i}
           /\ Cardinality(Linked(n, i, l, update)) <= MaxLinks(l)
<1> DEFINE J == links[n][l] \cup {i}
           P == {Pair(vec[n], j) : j \in J}
<1>0. Types /\ n \in Ids
  BY StoredIds DEF IInv
<1>1. /\ links[n][l] \subseteq Stored /\ IsFiniteSet(links[n][l])
      /\ Cardinality(links[n][l]) <= MaxLinks(l) /\ Cardinality(links[n][l]) \in Nat
  BY <1>0, LinksIs
<1>2. MaxLinks(l) \in Nat
  BY MaxLinksIs
<1>3. CASE Linked(n, i, l, update) = links[n][l]
  BY <1>1, <1>3
<1>4. CASE Cardinality(links[n][l]) < MaxLinks(l) /\ Linked(n, i, l, update) = J
  <2>1. Cardinality(J) = IF i \in links[n][l] THEN Cardinality(links[n][l]) ELSE Cardinality(links[n][l]) + 1
    BY <1>1, FS_AddElement
  <2> HIDE DEF J
  <2>2. Cardinality(J) <= MaxLinks(l)
    BY <1>1, <1>2, <1>4, <2>1
  <2> QED
    BY <1>4, <2>2 DEF J
<1>5. CASE Linked(n, i, l, update) = IdsOf(Heuristic(P, MaxLinks(l)))
  <2>1. J \in SUBSET Stored
    BY <1>1
  <2> HIDE DEF J
  <2>2. P \subseteq Nat \X Ids /\ IsFiniteSet(P) /\ \A p \in P : p[2] \in J
    BY <1>0, <2>1, PairsAre
  <2>3. P \subseteq Nat \X Int
    BY <2>2, NumbersAre
  <2> HIDE DEF P
  <2> DEFINE H == Heuristic(P, MaxLinks(l))
  <2>4. H \subseteq P /\ IsFiniteSet(H) /\ Cardinality(H) <= MaxLinks(l)
    BY <1>2, <2>2, <2>3, HeuristicIs
  <2> HIDE DEF H
  <2>5. IdsOf(H) \subseteq J
    BY <2>2, <2>4 DEF IdsOf
  <2>6. IsFiniteSet(IdsOf(H)) /\ Cardinality(IdsOf(H)) <= Cardinality(H)
    BY <2>4, IdsOfIs
  <2>7. Cardinality(IdsOf(H)) \in Nat /\ Cardinality(H) \in Nat
    BY <2>4, <2>6, FS_CardinalityType
  <2>8. Cardinality(IdsOf(H)) <= MaxLinks(l)
    BY <1>2, <2>4, <2>6, <2>7
  <2> QED
    BY <1>5, <2>5, <2>8 DEF H, J
<1> QED
  BY <1>3, <1>4, <1>5 DEF Linked

\* What an update writes into the list of a neighbour.
Rewritten(t, n) ==
    IdsOf(Heuristic(Best({Pair(vec[n], j) : j \in seen[t] \ {n}}, EfConstruction), MaxLinks(at[t])))

\* The neighbour that an update rewrites gets elements of the layer, and no more than M.
LEMMA RewrittenIs ==
    ASSUME IInv, NEW t \in Threads, pc[t] = "rewrite", NEW n \in rest[t]
    PROVE  /\ n \in Stored /\ Listed(n, at[t])
           /\ Rewritten(t, n) \subseteq seen[t] \ {n}
           /\ Cardinality(Rewritten(t, n)) <= MaxLinks(at[t])
           /\ \A j \in seen[t] : Listed(j, at[t])
<1> DEFINE J == seen[t] \ {n}
           P == {Pair(vec[n], j) : j \in J}
<1>1. Types /\ WalkInv(t) /\ Busy(t)
  BY DEF IInv, Busy
<1>2. Listed(n, at[t]) /\ \A j \in seen[t] : Listed(j, at[t])
  BY <1>1 DEF WalkInv
<1>3. n \in Stored /\ J \in SUBSET Stored
  BY <1>2 DEF Listed
<1>4. MaxLinks(at[t]) \in Nat
  BY <1>1, BusyIs, MaxLinksIs
<1> HIDE DEF J
<1>5. P \subseteq Nat \X Ids /\ IsFiniteSet(P) /\ \A p \in P : p[2] \in J
  BY <1>1, <1>3, PairsAre
<1> HIDE DEF P
<1> DEFINE B == Best(P, EfConstruction)
<1>6. B \subseteq P /\ IsFiniteSet(B)
  BY <1>5, BestIn, FS_Subset
<1>7. B \subseteq Nat \X Int
  BY <1>5, <1>6, NumbersAre
<1> HIDE DEF B
<1> DEFINE H == Heuristic(B, MaxLinks(at[t]))
<1>8. H \subseteq B /\ IsFiniteSet(H) /\ Cardinality(H) <= MaxLinks(at[t])
  BY <1>4, <1>6, <1>7, HeuristicIs
<1> HIDE DEF H
<1>9. IdsOf(H) \subseteq J
  BY <1>5, <1>6, <1>8 DEF IdsOf
<1>10. IsFiniteSet(IdsOf(H)) /\ Cardinality(IdsOf(H)) <= Cardinality(H)
  BY <1>8, IdsOfIs
<1>11. Cardinality(IdsOf(H)) \in Nat /\ Cardinality(H) \in Nat
  BY <1>8, <1>10, FS_CardinalityType
<1>12. Cardinality(IdsOf(H)) <= MaxLinks(at[t])
  BY <1>4, <1>8, <1>10, <1>11
<1>13. Rewritten(t, n) = IdsOf(H)
  BY DEF Rewritten, H, B, P, J
<1> QED
  BY <1>2, <1>3, <1>9, <1>12, <1>13 DEF J

\* The elements a search meets in the list of its nearest candidate.
LEMMA MetIs ==
    ASSUME IInv, NEW t \in Threads, pc[t] = "search", ~SearchStops(t)
    PROVE  LET c   == Closest(cand[t])
               new == {Pair(Query(t), j) : j \in links[c[2]][at[t]] \ seen[t]}
           IN  /\ new \subseteq Nat \X Ids /\ IsFiniteSet(new)
               /\ \A p \in new : Listed(p[2], at[t])
<1> DEFINE c == Closest(cand[t])
           J == links[c[2]][at[t]] \ seen[t]
<1>1. Types /\ WalkInv(t) /\ Busy(t)
  BY DEF IInv, Busy
<1>2. c[2] \in Stored /\ c[2] \in Ids
  BY <1>1, CandidateIs, StoredIds
<1>3. job[t].id \in Stored /\ at[t] \in Levels
  BY <1>1, BusyIs
<1>4. J \in SUBSET Stored /\ \A j \in J : Listed(j, at[t])
  BY <1>2, <1>3, LinksIs
<1> HIDE DEF J
<1> DEFINE P == {Pair(Query(t), j) : j \in J}
<1>5. P \subseteq Nat \X Ids /\ IsFiniteSet(P) /\ \A p \in P : p[2] \in J
  BY <1>1, <1>3, <1>4, PairsAre DEF Query
<1>6. \A p \in P : Listed(p[2], at[t])
  BY <1>4, <1>5
<1> QED
  BY <1>5, <1>6 DEF J

-----------------------------------------------------------------------------
(* The types.                                                               *)

\* An update goes to its next layer, or to the repair of its own connections.
LEMMA NextLayerTyped ==
    ASSUME IInv, NEW t \in Threads, Busy(t), job[t].update, pc[t] # "copy", NextLayer(t),
           pc[t] \in {"neighbours", "rewrite"}
    PROVE  WalkTypes' /\ pc' \in [Threads -> {"idle"} \cup InsertSteps \cup UpdateSteps]
<1>1. Types /\ JobInv(t) /\ WalkInv(t)
  BY DEF IInv
<1>2. /\ job[t].id \in Stored /\ level[job[t].id] \in Levels /\ at[t] \in Levels
      /\ job[t].max \in Levels \cup {None} /\ job[t].entry \in Ids \cup {None}
  BY BusyIs
<1>3. job[t].entry # None /\ Present(job[t].entry)
  BY <1>1 DEF JobInv
<1>4. job[t].entry \in Stored
  BY <1>3 DEF Present
<1>5. CASE at[t] < level[job[t].id]
  <2>1. at[t] + 1 \in Levels
    <3>1. TopLevel \in Nat /\ at[t] \in 0 .. TopLevel /\ level[job[t].id] \in 0 .. TopLevel
      BY <1>2, GraphAssumption DEF Levels
    <3> QED BY <1>5, <3>1 DEF Levels
  <2>2. pc' = Set1(pc, t, "neighbours") /\ Walk(t, at[t] + 1, None, 0, {}, {}, {})
    BY <1>5 DEF NextLayer
  <2>3. WalkTypes'
    BY <1>1, <2>1, <2>2 DEF Walk, Types, WalkTypes, Set1
  <2>4. pc' \in [Threads -> {"idle"} \cup InsertSteps \cup UpdateSteps]
    BY <1>1, <2>2 DEF Types, ThreadTypes, Set1, UpdateSteps
  <2> QED BY <2>3, <2>4
<1>6. CASE ~(at[t] < level[job[t].id])
  <2>1. StartDescent(t, job[t].entry, job[t].max, level[job[t].id])
    BY <1>6 DEF NextLayer
  <2> QED
    BY <1>1, <1>2, <1>4, <2>1, PartsTyped
<1> QED
  BY <1>5, <1>6

\* A step of addPoint is well-typed.
LEMMA StepKeepsTypes ==
    ASSUME IInv, NEW t \in Threads, Step(t)
    PROVE  Types'
<1> DEFINE PcTyped == pc' \in [Threads -> {"idle"} \cup InsertSteps \cup UpdateSteps]
<1>0. Types /\ JobInv(t) /\ WalkInv(t) /\ EntryInv /\ ElementTypes /\ ThreadTypes /\ WalkTypes
  BY DEF IInv, Types
<1>1. ASSUME links' \in [Ids -> [Levels -> SUBSET Ids]], dropped' \subseteq Ids \X Levels, fault' \in BOOLEAN
      PROVE  ElementTypes'
  BY <1>0, <1>1, StepKeepsElements DEF ElementTypes, Stored
<1>2. ASSUME links' = links, dropped' = dropped, fault' \in BOOLEAN PROVE ElementTypes'
  BY <1>0, <1>1, <1>2 DEF ElementTypes
<1>3. fault \in BOOLEAN
  BY <1>0 DEF ElementTypes
<1>4. CASE TakeGlobal(t)
  <2>1. maxlevel_ \in Levels \cup {None}
    BY <1>0, StoredIds DEF EntryInv, Present, ElementTypes
  <2>2. ThreadTypes' /\ WalkTypes'
    BY <1>0, <1>4, <2>1 DEF TakeGlobal, ThreadTypes, WalkTypes, walkVars, JobType, Set1, InsertSteps
  <2>3. ElementTypes'
    BY <1>2, <1>3, <1>4 DEF TakeGlobal, graphVars
  <2> QED BY <2>2, <2>3 DEF Types
<1>5. CASE FirstElement(t) \/ Publish(t)
  <2>1. Return(t) /\ ElementTypes'
    BY <1>2, <1>3, <1>5 DEF FirstElement, Publish, graphVars
  <2>2. job[t].id \in Stored
    BY <1>5, BusyIs DEF FirstElement, Publish, Busy
  <2> QED BY <1>0, <2>1, <2>2, PartsTyped DEF Types
<1>6. CASE ReadEntry(t)
  <2>1. ElementTypes'
    BY <1>2, <1>3, <1>6 DEF ReadEntry, graphVars
  <2>2. /\ enterpoint_node_ \in Stored /\ enterpoint_node_ \in Ids /\ job[t].max \in Levels
        /\ LowerOf(level[job[t].id], job[t].max) \in Levels /\ Busy(t)
    BY <1>0, <1>6, EntryIs, StoredIds DEF ReadEntry, Inserting
  <2>3. job[t].id \in Stored
    BY <2>2, BusyIs
  <2>4. WalkTypes' /\ PcTyped
    BY <1>0, <1>6, <2>2, <2>3, PartsTyped DEF ReadEntry
  <2>5. ThreadTypes'
    BY <1>0, <1>6, <2>2, <2>4 DEF ReadEntry, ThreadTypes, JobType
  <2> QED BY <2>1, <2>4, <2>5 DEF Types
<1>7. CASE Descend(t)
  <2> DEFINE o == obj[t]
             best == Closest({<<near[t], o>>} \cup {Pair(Query(t), j) : j \in links[o][at[t]]})
  <2>1. ElementTypes'
    BY <1>2, <1>3, <1>7 DEF Descend, graphVars
  <2>2. o \in Stored /\ best[1] \in Nat /\ best[2] \in Stored /\ best[2] \in Ids
    BY <1>0, <1>7, DescendIs, StoredIds DEF Descend
  <2>3. job[t].id \in Stored /\ level[job[t].id] \in Levels /\ at[t] \in Levels
    BY <1>7, BusyIs DEF Descend, Busy
  <2>4. IF best[1] < near[t] THEN Walk(t, at[t], best[2], best[1], {}, {}, {}) /\ pc' = pc
        ELSE StartDescent(t, o, at[t] - 1, level[job[t].id])
    BY <1>7 DEF Descend
  <2>5. job' = job /\ hop' = hop /\ rest' = rest
    BY <1>7 DEF Descend
  <2> HIDE DEF best
  <2>6. WalkTypes' /\ PcTyped
    <3>1. CASE best[1] < near[t]
      BY <1>0, <2>2, <2>3, <2>4, <3>1 DEF Walk, WalkTypes, ThreadTypes, Set1
    <3>2. CASE ~(best[1] < near[t])
      <4>1. at[t] - 1 \in Levels \cup {None}
        <5>1. TopLevel \in Nat /\ at[t] \in 0 .. TopLevel
          BY <2>3, GraphAssumption DEF Levels
        <5> QED BY <5>1 DEF Levels, None
      <4> QED BY <1>0, <2>2, <2>3, <2>4, <3>2, <4>1, PartsTyped
    <3> QED BY <3>1, <3>2
  <2>7. ThreadTypes'
    BY <1>0, <2>5, <2>6 DEF ThreadTypes
  <2> QED BY <2>1, <2>6, <2>7 DEF Types
<1>8. CASE Expand(t)
  <2> DEFINE c == Closest(cand[t])
             new == {Pair(Query(t), j) : j \in links[c[2]][at[t]] \ seen[t]}
             best == Best(top[t] \cup {p \in new : p[2] \notin deleted}, EfConstruction)
             open == (cand[t] \ {c}) \cup {p \in new : \/ Cardinality(best) < EfConstruction
                                                       \/ p[1] <= LowerBound(best)}
  <2>1. ElementTypes'
    BY <1>2, <1>3, <1>8 DEF Expand, graphVars
  <2>2. new \subseteq Nat \X Ids
    BY <1>8, MetIs DEF Expand
  <2>3. Walk(t, at[t], obj[t], 0, best, open, seen[t] \cup IdsOf(new)) /\ pc' = pc /\ job' = job
        /\ hop' = hop /\ rest' = rest
    BY <1>8 DEF Expand
  <2> HIDE DEF new
  <2>4. at[t] \in Levels /\ obj[t] \in Ids \cup {None} /\ top[t] \subseteq Nat \X Ids
        /\ cand[t] \subseteq Nat \X Ids /\ seen[t] \subseteq Ids
    BY <1>8, BusyIs DEF Expand, Busy
  <2>5. best \subseteq Nat \X Ids
    BY <2>2, <2>4, BestIn
  <2> HIDE DEF best
  <2>6. open \subseteq Nat \X Ids
    BY <2>2, <2>4
  <2> HIDE DEF open
  <2>7. IdsOf(new) \subseteq Ids
    BY <2>2 DEF IdsOf
  <2>8. WalkTypes'
    BY <1>0, <2>3, <2>4, <2>5, <2>6, <2>7 DEF Walk, WalkTypes, Set1
  <2>9. ThreadTypes'
    BY <1>0, <2>3 DEF ThreadTypes
  <2> QED BY <2>1, <2>8, <2>9 DEF Types
<1>9. CASE ReadsBeyond(t)
  <2>1. ElementTypes'
    BY <1>2, <1>9 DEF ReadsBeyond, graphVars
  <2> QED BY <1>0, <1>9, <2>1 DEF ReadsBeyond, walkVars, WalkTypes, ThreadTypes, Types
<1>10. CASE Select(t)
  <2>0. pc[t] = "search" /\ SearchStops(t) /\ Chosen(t) # {} /\ Busy(t)
    BY <1>10 DEF Select, Busy
  <2>1. Chosen(t) \subseteq Nat \X Ids
    BY <2>0, ChosenIs
  <2>2. Closest(Chosen(t)) \in Chosen(t)
    BY <2>0, <2>1, ClosestIs
  <2>3. IdsOf(Chosen(t)) \in SUBSET Ids /\ Closest(Chosen(t))[2] \in Ids
    BY <2>1, <2>2 DEF IdsOf
  <2>4. job[t].id \in Ids /\ at[t] \in Levels /\ {} \in SUBSET Ids
    BY <2>0, BusyIs
  <2>5. SetLinks(job[t].id, at[t], {}, IdsOf(Chosen(t))) /\ fault' = fault
    BY <1>10 DEF Select
  <2>6. ElementTypes'
    BY <1>0, <1>1, <1>3, <2>3, <2>4, <2>5, SetLinksTyped
  <2>7. WalkTypes' /\ ThreadTypes'
    BY <1>0, <1>10, <2>3 DEF Select, WalkTypes, ThreadTypes, Set1, InsertSteps
  <2> QED BY <2>6, <2>7 DEF Types
<1>11. CASE SkipLevel(t)
  <2>1. ElementTypes'
    BY <1>2, <1>3, <1>11 DEF SkipLevel, graphVars
  <2>2. job[t].id \in Stored
    BY <1>11, BusyIs DEF SkipLevel, Busy
  <2>3. obj[t] \in Stored /\ Onward(t, obj[t])
    BY <1>0, <1>11 DEF SkipLevel, WalkInv, Present
  <2> QED BY <1>0, <2>1, <2>2, <2>3, PartsTyped DEF Types
<1>12. CASE Connect(t)
  <2> DEFINE n == Furthest({Pair(Query(t), j) : j \in rest[t]})[2]
             i == job[t].id
  <2>0. pc[t] = "connect" /\ Busy(t)
    BY <1>12 DEF Connect, Busy
  <2>1. n \in rest[t] /\ n \in Stored
    BY <2>0, NeighbourIs
  <2>2. SetLinks(n, at[t], {i}, Linked(n, i, at[t], job[t].update)) /\ fault' = fault
    BY <1>12 DEF Connect
  <2>3. IF rest[t] = {n} THEN Onward(t, obj[t])
        ELSE rest' = Set1(rest, t, rest[t] \ {n}) /\ UNCHANGED <<pc, job, walkVars, hop>>
    BY <1>12 DEF Connect
  <2> HIDE DEF n
  <2>4. i \in Stored /\ i \in Ids /\ at[t] \in Levels /\ rest[t] \subseteq Ids
    BY <2>0, BusyIs
  <2>5. Linked(n, i, at[t], job[t].update) \subseteq links[n][at[t]] \cup {i}
    BY <2>1, <2>4, LinkedIs
  <2>6. links[n][at[t]] \subseteq Ids /\ n \in Ids
    BY <1>0, <2>1, <2>4, StoredIds DEF ElementTypes
  <2>7. Linked(n, i, at[t], job[t].update) \in SUBSET Ids /\ {i} \in SUBSET Ids
    BY <2>4, <2>5, <2>6
  <2>8. ElementTypes'
    BY <1>0, <1>1, <1>3, <2>2, <2>4, <2>6, <2>7, SetLinksTyped
  <2>9. CASE rest[t] = {n}
    <3>1. obj[t] \in Stored
      BY <1>0, <2>0, <2>1, <2>9 DEF WalkInv, Present
    <3> QED BY <1>0, <2>3, <2>4, <2>8, <2>9, <3>1, PartsTyped DEF Types
  <2>10. CASE rest[t] # {n}
    BY <1>0, <2>3, <2>4, <2>8, <2>10 DEF ThreadTypes, WalkTypes, walkVars, Set1, Types
  <2> QED BY <2>9, <2>10
<1>13. CASE CopyMaxLevel(t) \/ CopyEntry(t)
  <2>1. maxlevel_ \in Levels \cup {None} /\ enterpoint_node_ \in Ids \cup {None}
    BY <1>0, StoredIds DEF EntryInv, Present, ElementTypes
  <2>2. /\ job[t].id \in Stored /\ job[t].max \in Levels \cup {None} /\ job[t].entry \in Ids \cup {None}
    BY <1>13, BusyIs DEF CopyMaxLevel, CopyEntry, Busy
  <2>3. PICK m \in Levels \cup {None}, e \in Ids \cup {None} : Copy(t, m, e)
    BY <1>13, <2>1, <2>2 DEF CopyMaxLevel, CopyEntry
  <2>4. ElementTypes'
    BY <1>2, <1>3, <2>3 DEF Copy, graphVars
  <2>5. CASE Return(t)
    BY <1>0, <2>2, <2>4, <2>5, PartsTyped DEF Types
  <2>6. CASE ~Return(t)
    <3>1. /\ job' = [job EXCEPT ![t].max = m, ![t].entry = e]
          /\ pc' = pc \/ pc' = Set1(pc, t, "neighbours")
          /\ walkVars' = walkVars /\ hop' = hop /\ rest' = rest
      BY <2>3, <2>6 DEF Copy
    <3>2. job' \in [Threads -> JobType]
      <4>1. [[job[t] EXCEPT !.max = m] EXCEPT !.entry = e] \in JobType
        BY <1>0 DEF ThreadTypes, JobType
      <4>2. job' = [job EXCEPT ![t] = [[job[t] EXCEPT !.max = m] EXCEPT !.entry = e]]
        BY <1>0, <3>1 DEF ThreadTypes, JobType
      <4> QED BY <1>0, <4>1, <4>2 DEF ThreadTypes
    <3>3. PcTyped
      BY <1>0, <3>1 DEF ThreadTypes, Set1, UpdateSteps
    <3> QED BY <1>0, <2>4, <3>1, <3>2, <3>3 DEF ThreadTypes, WalkTypes, walkVars, Types
  <2> QED BY <2>5, <2>6
<1>14. CASE ReadNeighbours(t)
  <2>0. pc[t] = "neighbours" /\ Busy(t) /\ job[t].update
    <3>1. "neighbours" \notin InsertSteps
      BY DEF InsertSteps
    <3> QED BY <1>0, <1>14, <3>1 DEF ReadNeighbours, Busy, JobInv
  <2>1. ElementTypes'
    BY <1>2, <1>3, <1>14 DEF ReadNeighbours, graphVars
  <2>2. job[t].id \in Ids /\ at[t] \in Levels
    BY <2>0, BusyIs
  <2>3. links[job[t].id][at[t]] \subseteq Ids
    BY <1>0, <2>2 DEF ElementTypes
  <2>4. CASE links[job[t].id][at[t]] = {}
    <3>1. NextLayer(t) /\ hop' = hop /\ rest' = rest /\ job' = job
      BY <1>14, <2>4 DEF ReadNeighbours
    <3>2. WalkTypes' /\ PcTyped
      BY <2>0, <3>1, NextLayerTyped
    <3> QED BY <1>0, <2>1, <3>1, <3>2 DEF ThreadTypes, Types
  <2>5. CASE links[job[t].id][at[t]] # {}
    BY <1>0, <1>14, <2>1, <2>2, <2>3, <2>5, SMTT(40)
       DEF ReadNeighbours, ThreadTypes, WalkTypes, Walk, Set1, UpdateSteps, Types
  <2> QED BY <2>4, <2>5
<1>15. ASSUME NEW n \in Ids, ReadHop(t, n) PROVE Types'
  <2>1. ElementTypes'
    BY <1>2, <1>3, <1>15 DEF ReadHop, graphVars
  <2>2. at[t] \in Levels /\ rest[t] \subseteq Ids /\ hop[t] \subseteq Ids /\ seen[t] \subseteq Ids
    BY <1>15, BusyIs DEF ReadHop, Busy
  <2>3. links[n][at[t]] \subseteq Ids
    BY <1>0, <2>2 DEF ElementTypes
  <2>4. WalkTypes'
    BY <1>0, <1>15, <2>2, <2>3 DEF ReadHop, WalkTypes, Set1
  <2>5. ThreadTypes'
    BY <1>0, <1>15, <2>2 DEF ReadHop, ThreadTypes, Set1, UpdateSteps
  <2> QED BY <2>1, <2>4, <2>5 DEF Types
<1>16. ASSUME NEW n \in Ids, Rewrite(t, n) PROVE Types'
  <2>0. pc[t] = "rewrite" /\ Busy(t) /\ job[t].update /\ n \in rest[t]
    <3>1. "rewrite" \notin InsertSteps
      BY DEF InsertSteps
    <3> QED BY <1>0, <1>16, <3>1 DEF Rewrite, Busy, JobInv
  <2>1. at[t] \in Levels /\ seen[t] \subseteq Ids /\ rest[t] \subseteq Ids /\ {} \in SUBSET Ids
    BY <2>0, BusyIs
  <2>2. Rewritten(t, n) \in SUBSET Ids
    BY <2>0, <2>1, RewrittenIs
  <2>3. SetLinks(n, at[t], {}, Rewritten(t, n)) /\ fault' = fault /\ job' = job
    BY <1>16 DEF Rewrite, Rewritten
  <2>4. ElementTypes'
    BY <1>0, <1>1, <1>3, <2>1, <2>2, <2>3, SetLinksTyped
  <2>5. CASE rest[t] = {n}
    <3>1. NextLayer(t) /\ rest' = Set1(rest, t, {}) /\ hop' = Set1(hop, t, {})
      BY <1>16, <2>5 DEF Rewrite
    <3>2. WalkTypes' /\ PcTyped
      BY <2>0, <3>1, NextLayerTyped
    <3> QED BY <1>0, <2>3, <2>4, <3>1, <3>2 DEF ThreadTypes, Set1, Types
  <2>6. CASE rest[t] # {n}
    <3>1. rest' = Set1(rest, t, rest[t] \ {n}) /\ UNCHANGED <<pc, walkVars, hop>>
      BY <1>16, <2>6 DEF Rewrite
    <3> QED BY <1>0, <2>1, <2>3, <2>4, <3>1 DEF ThreadTypes, WalkTypes, walkVars, Set1, Types
  <2> QED BY <2>5, <2>6
<1> QED
  BY <1>4, <1>5, <1>6, <1>7, <1>8, <1>9, <1>10, <1>11, <1>12, <1>13, <1>14, <1>15, <1>16 DEF Step

-----------------------------------------------------------------------------
(* The lists.                                                               *)

\* The lists stay sound when one of them gets sound new contents, or none does.
LEMMA ListsKept ==
    ASSUME IInv, Grows, links' = links, count' \in {count, count + 1}
    PROVE  ListInv'
<1> SUFFICES ASSUME NEW i \in Ids, NEW l \in Levels
             PROVE  /\ i >= count' => links[i][l] = {}
                    /\ Cardinality(links[i][l]) <= MaxLinks(l)
                    /\ \A j \in links[i][l] : j # i /\ Listed(j, l)' /\ l <= level'[i]
  BY DEF ListInv
<1>1. /\ i >= count => links[i][l] = {}
      /\ Cardinality(links[i][l]) <= MaxLinks(l)
      /\ \A j \in links[i][l] : j # i /\ Listed(j, l) /\ l <= level[i]
  BY DEF IInv, ListInv
<1>2. \A j \in Stored : Listed(j, l) => Listed(j, l)'
  BY DEF Grows
<1>3. count \in Nat /\ i \in Nat
  BY StoredIds, NumbersAre DEF IInv
<1>4. CASE i >= count
  <2>1. links[i][l] = {}
    BY <1>1, <1>4
  <2> QED BY <1>1, <2>1
<1>5. CASE ~(i >= count)
  <2>1. i \in Stored /\ level'[i] = level[i]
    BY <1>3, <1>5 DEF Stored, Grows
  <2>2. ~(i >= count')
    BY <1>3, <1>5
  <2> QED BY <1>1, <1>2, <2>1, <2>2 DEF Listed
<1> QED
  BY <1>4, <1>5

\* The lists stay sound when one of them gets what may stand in it, and no more than its
\* places.
LEMMA ListsSet ==
    ASSUME IInv, Grows, count' = count, level' = level,
           NEW n \in Stored, NEW h \in Levels, NEW J, NEW S, SetLinks(n, h, J, S),
           Cardinality(S) <= MaxLinks(h), h <= level[n],
           \A j \in S : j # n /\ Listed(j, h)
    PROVE  ListInv'
<1> SUFFICES ASSUME NEW i \in Ids, NEW l \in Levels
             PROVE  /\ i >= count => links'[i][l] = {}
                    /\ Cardinality(links'[i][l]) <= MaxLinks(l)
                    /\ \A j \in links'[i][l] : j # i /\ Listed(j, l)' /\ l <= level[i]
  BY DEF ListInv
<1>1. /\ i >= count => links[i][l] = {}
      /\ Cardinality(links[i][l]) <= MaxLinks(l)
      /\ \A j \in links[i][l] : j # i /\ Listed(j, l) /\ l <= level[i]
  BY DEF IInv, ListInv
<1>2. \A j \in Stored : Listed(j, l) => Listed(j, l)'
  BY DEF Grows
<1>3. links \in [Ids -> [Levels -> SUBSET Ids]] /\ n \in Ids /\ n < count
  BY StoredIds DEF IInv, Types, ElementTypes, Stored
<1>4. links'[i][l] = IF i = n /\ l = h THEN S ELSE links[i][l]
  BY <1>3 DEF SetLinks
<1>5. CASE i = n /\ l = h
  <2>1. ~(i >= count)
    BY <1>3, <1>5, StoredIds DEF IInv
  <2> QED BY <1>2, <1>4, <1>5, <2>1 DEF Listed
<1>6. CASE ~(i = n /\ l = h)
  BY <1>1, <1>2, <1>4, <1>6 DEF Listed
<1> QED
  BY <1>5, <1>6

\* The own element of a thread that connects it or updates it is in the graph there.
LEMMA OwnListed ==
    ASSUME IInv, NEW t \in Threads, Busy(t), pc[t] = "connect" \/ job[t].update,
           at[t] <= level[job[t].id]
    PROVE  Listed(job[t].id, at[t])
<1> SUFFICES ASSUME NEW u \in Threads, Inserting(u), job[u].id = job[t].id PROVE Reached(u, at[t])
  BY BusyIs DEF Listed
<1>1. u = t
  BY DEF IInv, Apart, Inserting
<1>2. pc[t] = "connect"
  BY <1>1 DEF Inserting
<1> QED
  BY <1>1, <1>2 DEF Reached

\* A step of addPoint leaves every list sound: no longer than its places, and full of
\* other elements that are in the graph on its level.
LEMMA StepKeepsLists ==
    ASSUME IInv, NEW t \in Threads, Step(t)
    PROVE  ListInv'
<1>0. Types /\ WalkInv(t) /\ JobInv(t)
  BY DEF IInv
<1>1. Grows /\ count' = count /\ level' = level
  BY <1>0, StepGrows, StepKeepsElements
<1>2. CASE links' = links
  BY <1>1, <1>2, ListsKept
<1>3. CASE Select(t)
  <2> DEFINE S == IdsOf(Chosen(t))
  <2>1. pc[t] = "search" /\ SearchStops(t) /\ SetLinks(job[t].id, at[t], {}, S) /\ Busy(t)
    BY <1>3 DEF Select, Busy
  <2>2. /\ Chosen(t) \subseteq Nat \X Ids /\ IsFiniteSet(Chosen(t)) /\ Cardinality(Chosen(t)) <= M
        /\ \A p \in Chosen(t) : Listed(p[2], at[t]) /\ p[2] # job[t].id
    BY <2>1, ChosenIs
  <2>3. IsFiniteSet(S) /\ Cardinality(S) <= Cardinality(Chosen(t))
    BY <2>2, IdsOfIs
  <2>4. job[t].id \in Stored /\ at[t] \in Levels
    BY <2>1, BusyIs
  <2>5. Cardinality(S) <= MaxLinks(at[t])
    <3>1. Cardinality(S) \in Nat /\ Cardinality(Chosen(t)) \in Nat
      BY <2>2, <2>3, FS_CardinalityType
    <3>2. MaxLinks(at[t]) \in Nat /\ M <= MaxLinks(at[t]) /\ M \in Nat
      BY <2>4, MaxLinksIs
    <3> HIDE DEF S
    <3> QED BY <2>2, <2>3, <3>1, <3>2
  <2>6. \A j \in S : j # job[t].id /\ Listed(j, at[t])
    BY <2>2 DEF IdsOf
  <2>7. at[t] <= level[job[t].id]
    BY <1>0, <2>1 DEF WalkInv
  <2> HIDE DEF S
  <2> QED BY <1>1, <2>1, <2>4, <2>5, <2>6, <2>7, ListsSet
<1>4. CASE Connect(t)
  <2> DEFINE n == Furthest({Pair(Query(t), j) : j \in rest[t]})[2]
             i == job[t].id
             S == Linked(n, i, at[t], job[t].update)
  <2>1. pc[t] = "connect" /\ SetLinks(n, at[t], {i}, S) /\ Busy(t)
    BY <1>4 DEF Connect, Busy
  <2>2. n \in Stored /\ Listed(n, at[t]) /\ n # i
    BY <2>1, NeighbourIs
  <2> HIDE DEF n
  <2>3. i \in Stored /\ at[t] \in Levels
    BY <2>1, BusyIs
  <2>4. S \subseteq links[n][at[t]] \cup {i} /\ Cardinality(S) <= MaxLinks(at[t])
    BY <2>2, <2>3, LinkedIs
  <2>5. \A j \in links[n][at[t]] : j # n /\ Listed(j, at[t])
    BY <2>2, <2>3, LinksIs, StoredIds DEF IInv
  <2>6. Listed(i, at[t])
    BY <1>0, <2>1, OwnListed DEF WalkInv
  <2>7. \A j \in S : j # n /\ Listed(j, at[t])
    BY <2>2, <2>4, <2>5, <2>6
  <2>8. at[t] <= level[n]
    BY <2>2 DEF Listed
  <2> HIDE DEF S
  <2> QED BY <1>1, <2>1, <2>2, <2>3, <2>4, <2>7, <2>8, ListsSet
<1>5. ASSUME NEW n \in Ids, Rewrite(t, n) PROVE ListInv'
  <2>1. pc[t] = "rewrite" /\ SetLinks(n, at[t], {}, Rewritten(t, n)) /\ Busy(t) /\ n \in rest[t]
    BY <1>5 DEF Rewrite, Busy, Rewritten
  <2>2. /\ n \in Stored /\ Listed(n, at[t]) /\ Rewritten(t, n) \subseteq seen[t] \ {n}
        /\ Cardinality(Rewritten(t, n)) <= MaxLinks(at[t]) /\ \A j \in seen[t] : Listed(j, at[t])
    BY <2>1, RewrittenIs
  <2>3. at[t] \in Levels
    BY <2>1, BusyIs
  <2>4. at[t] <= level[n] /\ \A j \in Rewritten(t, n) : j # n /\ Listed(j, at[t])
    BY <2>2 DEF Listed
  <2> QED BY <1>1, <2>1, <2>2, <2>3, <2>4, ListsSet
<1>6. links' = links \/ Select(t) \/ Connect(t) \/ \E n \in Ids : Rewrite(t, n)
  BY DEF Step, TakeGlobal, FirstElement, ReadEntry, Descend, Expand, ReadsBeyond, SkipLevel,
         Publish, CopyMaxLevel, CopyEntry, Copy, ReadNeighbours, ReadHop, graphVars
<1> QED
  BY <1>2, <1>3, <1>4, <1>5, <1>6

-----------------------------------------------------------------------------
(* One element for each thread, and no circle of those that connect.        *)

\* A thread that is inside addPoint after a step was so before, with the same element.
LEMMA StepKeepsJobs ==
    ASSUME IInv, NEW t \in Threads, Step(t), NEW u \in Threads, Busy(u)'
    PROVE  /\ Busy(u) /\ job'[u].id = job[u].id /\ job'[u].update = job[u].update
           /\ (Inserting(u)' <=> Inserting(u))
<1>0. Types
  BY DEF IInv
<1>1. CASE u = t
  BY <1>0, <1>1, StepProgresses DEF Progress, Inserting
<1>2. CASE u # t
  BY <1>0, <1>2, StepKeepsOthers DEF Kept, Busy, Inserting
<1> QED
  BY <1>1, <1>2

\* A step leaves each thread an element of its own, and nothing marked while two run.
LEMMA StepKeepsApart ==
    ASSUME IInv, NEW t \in Threads, Step(t)
    PROVE  Apart'
  BY StepKeepsJobs, StepKeepsElements DEF IInv, Apart

\* A thread that is not selecting only ever gets nearer to the end of its neighbours.
LEMMA StepConnects ==
    ASSUME IInv, NEW t \in Threads, Step(t), ~Select(t), NEW u \in Threads, pc'[u] = "connect"
    PROVE  pc[u] = "connect" /\ at'[u] = at[u] /\ rest'[u] \subseteq rest[u]
<1>0. Types /\ ThreadTypes /\ WalkTypes
  BY DEF IInv, Types
<1>1. CASE u # t
  BY <1>0, <1>1, StepKeepsOthers DEF Kept, WalkKept
<1>2. CASE u = t
  <2>0. DOMAIN pc = Threads /\ DOMAIN rest = Threads
    BY <1>0 DEF ThreadTypes
  <2>1. ASSUME NEW o, NEW l, NEW h,
               \/ StartSearch(t, o, l) \/ StartDescent(t, o, l, h) \/ NextLayer(t) \/ Return(t)
               \/ Onward(t, o)
        PROVE  pc'[t] # "connect"
    BY <2>0, <2>1 DEF StartSearch, StartDescent, NextLayer, Return, Onward, Set1
  <2>2. CASE TakeGlobal(t)
    BY <1>2, <2>0, <2>2 DEF TakeGlobal, Set1
  <2>3. CASE FirstElement(t) \/ Publish(t) \/ ReadEntry(t) \/ SkipLevel(t)
    BY <1>2, <2>1, <2>3 DEF FirstElement, Publish, ReadEntry, SkipLevel
  <2>4. CASE Descend(t)
    BY <1>2, <2>1, <2>4 DEF Descend
  <2>5. CASE Expand(t) \/ ReadsBeyond(t)
    BY <1>2, <2>5 DEF Expand, ReadsBeyond, Beyond
  <2>6. CASE Connect(t)
    <3> DEFINE n == Furthest({Pair(Query(t), j) : j \in rest[t]})[2]
    <3>1. ~Onward(t, obj[t])
      BY <1>2, <2>1
    <3>2. rest' = Set1(rest, t, rest[t] \ {n}) /\ UNCHANGED <<pc, job, walkVars, hop>>
      BY <2>6, <3>1 DEF Connect
    <3> HIDE DEF n
    <3> QED BY <1>2, <2>0, <3>2 DEF walkVars, Set1
  <2>7. CASE CopyMaxLevel(t) \/ CopyEntry(t)
    BY <1>2, <2>0, <2>1, <2>7 DEF CopyMaxLevel, CopyEntry, Copy, Set1
  <2>8. CASE ReadNeighbours(t)
    BY <1>2, <2>0, <2>1, <2>8 DEF ReadNeighbours, Set1
  <2>9. CASE \E n \in Ids : ReadHop(t, n) \/ Rewrite(t, n)
    BY <1>2, <2>0, <2>1, <2>9 DEF ReadHop, Rewrite, Set1
  <2> QED
    BY <2>2, <2>3, <2>4, <2>5, <2>6, <2>7, <2>8, <2>9 DEF Step
<1> QED
  BY <1>1, <1>2

\* A step makes no circle of threads that await each other on one level: the thread
\* that selects its neighbours is in no list of the level yet, so that nobody awaits it.
LEMMA StepKeepsAcyclic ==
    ASSUME IInv, NEW t \in Threads, Step(t)
    PROVE  Acyclic'
<1>0. Types /\ ThreadTypes /\ WalkTypes /\ Acyclic
  BY DEF IInv, Types
<1>1. CASE ~Select(t)
  <2>1. \A v, w \in Threads : Awaits(v, w)' => Awaits(v, w)
    <3> SUFFICES ASSUME NEW v \in Threads, NEW w \in Threads, Awaits(v, w)' PROVE Awaits(v, w)
      OBVIOUS
    <3>1. Busy(v)' /\ Busy(w)' /\ pc'[v] = "connect" /\ pc'[w] = "connect"
          /\ at'[v] = at'[w] /\ job'[w].id \in rest'[v] /\ Inserting(v)' /\ Inserting(w)'
      BY DEF Awaits, Inserting
    <3>2. Inserting(v) /\ Inserting(w) /\ job'[w].id = job[w].id
      BY <3>1, StepKeepsJobs
    <3>3. /\ pc[v] = "connect" /\ at'[v] = at[v] /\ rest'[v] \subseteq rest[v]
          /\ pc[w] = "connect" /\ at'[w] = at[w]
      BY <1>1, <3>1, StepConnects
    <3> QED BY <3>1, <3>2, <3>3 DEF Awaits
  <2> QED BY <1>0, <2>1 DEF Acyclic
<1>2. CASE Select(t)
  <2>1. \A v, w \in Threads : Awaits(v, w)' => v = t \/ Awaits(v, w) \/ w = t
    <3> SUFFICES ASSUME NEW v \in Threads \ {t}, NEW w \in Threads \ {t}, Awaits(v, w)'
                 PROVE  Awaits(v, w)
      OBVIOUS
    <3>1. Kept(v) /\ Kept(w)
      BY <1>0, StepKeepsOthers
    <3> QED BY <3>1 DEF Kept, WalkKept, Awaits, Inserting, Busy
  <2>2. \A v \in Threads : ~Awaits(v, t)'
    <3> SUFFICES ASSUME NEW v \in Threads, Awaits(v, t)' PROVE FALSE
      OBVIOUS
    <3>0. pc[t] = "search" /\ SearchStops(t) /\ job' = job /\ at' = at
          /\ rest' = Set1(rest, t, IdsOf(Chosen(t)))
      BY <1>2 DEF Select
    <3>1. at[v] = at[t] /\ job[t].id \in rest'[v] /\ Inserting(t)' /\ pc'[v] = "connect"
      BY <3>0 DEF Awaits
    <3>2. CASE v = t
      <4>1. job[t].id \in IdsOf(Chosen(t))
        BY <1>0, <3>0, <3>1, <3>2 DEF ThreadTypes, Set1
      <4>2. \A p \in Chosen(t) : p[2] # job[t].id
        BY <3>0, ChosenIs
      <4> QED BY <4>1, <4>2 DEF IdsOf
    <3>3. CASE v # t
      <4>1. Kept(v)
        BY <1>0, <3>3, StepKeepsOthers
      <4>2. pc[v] = "connect" /\ job[t].id \in rest[v]
        BY <3>1, <4>1 DEF Kept
      <4>3. WalkInv(v)
        BY DEF IInv
      <4>4. Listed(job[t].id, at[t])
        BY <3>1, <4>2, <4>3 DEF WalkInv
      <4>5. Inserting(t)
        BY <3>1, StepKeepsJobs DEF Inserting
      <4>6. Reached(t, at[t])
        BY <4>4, <4>5 DEF Listed
      <4>7. at[t] \in Int
        BY <1>0, NumbersAre DEF WalkTypes
      <4> QED BY <3>0, <4>6, <4>7 DEF Reached
    <3> QED BY <3>2, <3>3
  <2> SUFFICES ASSUME NEW S \in SUBSET Threads, S # {}
               PROVE  \E v \in S : \A w \in S : ~Awaits(v, w)'
    BY DEF Acyclic
  <2>3. CASE S \ {t} = {}
    <3>1. \A w \in S : w = t
      BY <2>3
    <3> QED BY <2>2, <3>1
  <2>4. CASE S \ {t} # {}
    <3>1. PICK v \in S \ {t} : \A w \in S \ {t} : ~Awaits(v, w)
      BY <1>0, <2>4 DEF Acyclic
    <3>2. \A w \in S : ~Awaits(v, w)'
      BY <2>1, <2>2, <3>1
    <3> QED BY <3>2
  <2> QED BY <2>3, <2>4
<1> QED
  BY <1>1, <1>2

-----------------------------------------------------------------------------
(* The entry point, the maximum level and their mutex.                      *)

\* The end of an insertion that raised the maximum, or of the first one.
Raises(t) ==
    /\ Inserting(t) /\ global = t /\ level[job[t].id] > maxlevel_
    /\ enterpoint_node_' = job[t].id /\ maxlevel_' = level[job[t].id] /\ global' = None
    /\ Return(t)

\* A thread that goes on from a level does not return while it has the mutex.
LEMMA OnwardKeepsGlobal ==
    ASSUME IInv, NEW t \in Threads, Inserting(t), pc[t] \in {"search", "connect"}, NEW o, Onward(t, o),
           global = t
    PROVE  Busy(t)' /\ pc'[t] \in {"search", "publish"}
<1>0. ThreadTypes /\ JobInv(t)
  BY DEF IInv, Types
<1>1. level[job[t].id] > job[t].max
  BY <1>0 DEF JobInv
<1>2. pc'[t] \in {"search", "publish"}
  BY <1>0, <1>1 DEF Onward, StartSearch, ThreadTypes, Set1
<1> QED
  BY <1>2 DEF Busy

\* The entry point and its mutex change only when a thread takes the mutex, or
\* raises the maximum and gives it back.
LEMMA EntryStep ==
    ASSUME IInv, NEW t \in Threads, Step(t)
    PROVE  \/ TakeGlobal(t)
           \/ Raises(t)
           \/ /\ enterpoint_node_' = enterpoint_node_ /\ maxlevel_' = maxlevel_ /\ global' = global
              /\ pc[t] # "global" /\ pc'[t] # "global"
              /\ global = t => /\ Busy(t)'
                               /\ job'[t].max = job[t].max
<1>0. Types /\ ThreadTypes /\ JobInv(t) /\ EntryInv
  BY DEF IInv, Types
<1> DEFINE Stays == /\ enterpoint_node_' = enterpoint_node_ /\ maxlevel_' = maxlevel_ /\ global' = global
           Fine == /\ pc[t] # "global" /\ pc'[t] # "global"
                   /\ global = t => Busy(t)' /\ job'[t].max = job[t].max
<1>1. DOMAIN pc = Threads /\ DOMAIN job = Threads /\ job[t] \in JobType
  BY <1>0 DEF ThreadTypes
<1>2. ASSUME NEW o, NEW l, NEW h,
             StartSearch(t, o, l) \/ StartDescent(t, o, l, h) \/ NextLayer(t)
      PROVE  pc'[t] \in {"search", "descend", "neighbours"}
  BY <1>1, <1>2 DEF StartSearch, StartDescent, NextLayer, Set1
<1>3. global = t => Inserting(t)
  BY <1>0, GraphAssumption DEF EntryInv
<1>4. CASE FirstElement(t)
  <2>1. pc[t] = "entry" /\ enterpoint_node_ = None
    BY <1>4 DEF FirstElement
  <2>2. Busy(t) /\ "entry" \notin UpdateSteps
    BY <2>1 DEF Busy, UpdateSteps
  <2>3. Inserting(t)
    BY <1>0, <2>1, <2>2 DEF JobInv, Inserting
  <2>4. maxlevel_ = None
    BY <1>0, <2>1, StoredIds, NumbersAre DEF EntryInv, Present
  <2>5. level[job[t].id] \in Levels
    BY <2>2, BusyIs
  <2>6. level[job[t].id] > maxlevel_
    BY <2>4, <2>5, NumbersAre
  <2>7. job[t].max <= maxlevel_ /\ (global = t <=> level[job[t].id] > job[t].max)
    BY <1>0, <2>1, <2>3 DEF JobInv
  <2>8. job[t].max \in Levels \cup {None}
    BY <2>2, BusyIs
  <2>9. level[job[t].id] > job[t].max
    BY <2>4, <2>5, <2>7, <2>8, NumbersAre
  <2> QED BY <1>4, <2>3, <2>6, <2>7, <2>9 DEF Raises, FirstElement
<1>5. CASE Publish(t)
  <2>1. pc[t] = "publish" /\ Busy(t) /\ "publish" \notin UpdateSteps
    BY <1>5 DEF Publish, Busy, UpdateSteps
  <2>2. Inserting(t)
    BY <1>0, <2>1 DEF JobInv, Inserting
  <2>3. level[job[t].id] > job[t].max /\ global = t
    BY <1>0, <2>1, <2>2 DEF JobInv
  <2>4. job[t].max = maxlevel_
    BY <1>0, <2>3, GraphAssumption DEF EntryInv
  <2> QED BY <1>5, <2>2, <2>3, <2>4 DEF Raises, Publish
<1>6. CASE ReadEntry(t)
  <2>1. pc'[t] # "global" /\ Busy(t)' /\ pc[t] # "global"
    BY <1>2, <1>6 DEF ReadEntry, Busy
  <2>2. job'[t].max = job[t].max
    BY <1>1, <1>6 DEF ReadEntry, JobType
  <2> QED BY <1>6, <2>1, <2>2 DEF ReadEntry, entryVars
<1>7. CASE Descend(t)
  <2>1. pc'[t] # "global" /\ Busy(t)' /\ pc[t] # "global"
    BY <1>2, <1>7 DEF Descend, Busy
  <2> QED BY <1>7, <2>1 DEF Descend, entryVars
<1>8. CASE Expand(t) \/ ReadsBeyond(t)
  BY <1>8 DEF Expand, ReadsBeyond, Beyond, entryVars, Busy
<1>9. CASE Select(t)
  <2>1. pc'[t] = "connect" /\ pc[t] = "search" /\ job' = job
    BY <1>1, <1>9 DEF Select, Set1
  <2> QED BY <1>9, <2>1 DEF Select, entryVars, Busy
<1>10. CASE SkipLevel(t)
  <2>1. pc[t] = "search" /\ job[t].update /\ Onward(t, obj[t])
    BY <1>10 DEF SkipLevel
  <2>2. global # t
    BY <1>3, <2>1 DEF Inserting
  <2>3. pc'[t] # "global"
    BY <1>1, <2>1 DEF Onward, StartSearch, Return, Set1
  <2> QED BY <1>10, <2>1, <2>2, <2>3 DEF SkipLevel, entryVars
<1>11. CASE Connect(t)
  <2>1. pc[t] = "connect" /\ Busy(t)
    BY <1>11 DEF Connect, Busy
  <2>2. CASE Onward(t, obj[t])
    <3>1. pc'[t] # "global"
      BY <1>1, <2>2 DEF Onward, StartSearch, Return, Set1
    <3>2. global = t => Busy(t)'
      BY <1>3, <2>1, <2>2, OnwardKeepsGlobal
    <3>3. Busy(t)' => job' = job
      BY <1>1, <2>2 DEF Onward, Return, Set1, Busy
    <3> QED BY <1>11, <2>1, <3>1, <3>2, <3>3 DEF Connect, entryVars
  <2>3. CASE ~Onward(t, obj[t])
    BY <1>11, <2>1, <2>3 DEF Connect, entryVars, Busy
  <2> QED BY <2>2, <2>3
<1>12. CASE CopyMaxLevel(t) \/ CopyEntry(t)
  <2>1. pc[t] = "copy" /\ Busy(t) /\ "copy" \notin InsertSteps
    BY <1>12 DEF CopyMaxLevel, CopyEntry, Busy, InsertSteps
  <2>2. job[t].update
    BY <1>0, <2>1 DEF JobInv
  <2>3. global # t
    BY <1>3, <2>2 DEF Inserting
  <2>4. pc'[t] # "global"
    BY <1>1, <1>12, <2>1 DEF CopyMaxLevel, CopyEntry, Copy, Return, Set1
  <2> QED BY <1>12, <2>1, <2>3, <2>4 DEF CopyMaxLevel, CopyEntry, Copy, entryVars
<1>13. CASE ReadNeighbours(t)
  <2>1. pc'[t] # "global" /\ Busy(t)' /\ pc[t] # "global"
    BY <1>1, <1>2, <1>13 DEF ReadNeighbours, Busy, Set1
  <2> QED BY <1>13, <2>1 DEF ReadNeighbours, entryVars
<1>14. ASSUME NEW n \in Ids, ReadHop(t, n) PROVE Stays /\ Fine
  BY <1>1, <1>14 DEF ReadHop, entryVars, Busy, Set1
<1>15. ASSUME NEW n \in Ids, Rewrite(t, n) PROVE Stays /\ Fine
  <2>1. pc'[t] # "global" /\ Busy(t)' /\ pc[t] # "global"
    BY <1>1, <1>2, <1>15 DEF Rewrite, Busy
  <2> QED BY <1>15, <2>1 DEF Rewrite, entryVars
<1> QED
  BY <1>4, <1>5, <1>6, <1>7, <1>8, <1>9, <1>10, <1>11, <1>12, <1>13, <1>14, <1>15 DEF Step

\* The maximum level is a level once there is an entry point.
LEMMA MaxLevelIs ==
    ASSUME IInv
    PROVE  /\ maxlevel_ \in Levels \cup {None} /\ maxlevel_ \in Int
           /\ enterpoint_node_ \in Ids \cup {None}
           /\ enterpoint_node_ # None => enterpoint_node_ \in Stored
<1>1. Types /\ EntryInv
  BY DEF IInv
<1>2. enterpoint_node_ = None \/ (enterpoint_node_ \in Stored /\ enterpoint_node_ \in Ids)
  BY <1>1, StoredIds DEF EntryInv, Present
<1>3. maxlevel_ \in Levels \cup {None}
  <2>1. CASE maxlevel_ = None
    BY <2>1
  <2>2. CASE maxlevel_ # None
    <3>1. maxlevel_ = level[enterpoint_node_] /\ Present(enterpoint_node_)
      BY <1>1, <2>2 DEF EntryInv
    <3>2. enterpoint_node_ \in Ids
      BY <1>1, <3>1, StoredIds DEF Present
    <3>3. level \in [Ids -> Levels]
      BY <1>1 DEF Types, ElementTypes
    <3> QED BY <3>1, <3>2, <3>3
  <2> QED BY <2>1, <2>2
<1>4. maxlevel_ \in Int
  BY <1>3, NumbersAre
<1> QED
  BY <1>2, <1>3, <1>4

\* A thread takes the mutex for the maximum level, and copies it.
LEMMA TakeGlobalIs ==
    ASSUME IInv, NEW t \in Threads, TakeGlobal(t)
    PROVE  /\ global = None /\ pc[t] = "global" /\ pc'[t] = "entry" /\ Inserting(t) /\ Inserting(t)'
           /\ global' = IF level[job[t].id] > maxlevel_ THEN t ELSE None
           /\ job'[t].max = maxlevel_ /\ job'[t].id = job[t].id /\ job'[t].update = job[t].update
           /\ job'[t].entry = job[t].entry
           /\ enterpoint_node_' = enterpoint_node_ /\ maxlevel_' = maxlevel_
<1>0. ThreadTypes /\ JobInv(t)
  BY DEF IInv, Types
<1>1. DOMAIN pc = Threads /\ DOMAIN job = Threads /\ job[t] \in JobType
  BY <1>0 DEF ThreadTypes
<1>2. pc[t] = "global" /\ global = None /\ pc' = Set1(pc, t, "entry") /\ job' = [job EXCEPT ![t].max = maxlevel_]
  BY DEF TakeGlobal
<1>3. pc'[t] = "entry" /\ job'[t] = [job[t] EXCEPT !.max = maxlevel_]
  BY <1>1, <1>2 DEF Set1
<1>4. /\ job'[t].max = maxlevel_ /\ job'[t].id = job[t].id /\ job'[t].update = job[t].update
      /\ job'[t].entry = job[t].entry
  BY <1>1, <1>3 DEF JobType
<1>5. Busy(t) /\ "global" \notin UpdateSteps
  BY <1>2 DEF Busy, UpdateSteps
<1>6. Inserting(t)
  BY <1>0, <1>2, <1>5 DEF JobInv, Inserting
<1> QED
  BY <1>2, <1>3, <1>4, <1>6 DEF TakeGlobal, Inserting, Busy

\* A thread that returns is idle and has no element.
LEMMA ReturnIs ==
    ASSUME Types, NEW t \in Threads, Return(t)
    PROVE  /\ pc'[t] = "idle" /\ ~Busy(t)' /\ ~Inserting(t)' /\ job'[t] = NoJob
  BY DEF Types, ThreadTypes, Return, Set1, Busy, Inserting

\* After a step the entry point is whole and on the maximum level, and an element that
\* is higher belongs to the thread that has, or waits for, the mutex of both.
LEMMA StepKeepsEntry ==
    ASSUME IInv, NEW t \in Threads, Step(t)
    PROVE  EntryInv'
<1>0. Types /\ EntryInv /\ Apart /\ Grows /\ JobInv(t) /\ None \notin Threads
  BY StepGrows, GraphAssumption DEF IInv
<1>1. count' = count /\ level' = level /\ Stored' = Stored
  BY StepKeepsElements DEF Stored
<1>2. \A u \in Threads : Busy(u)' => /\ Busy(u) /\ job'[u].id = job[u].id
                                     /\ (Inserting(u)' <=> Inserting(u))
  BY StepKeepsJobs
<1>3. \A u \in Threads \ {t} : pc'[u] = pc[u] /\ job'[u] = job[u] /\ (Inserting(u)' <=> Inserting(u))
  BY <1>0, StepKeepsOthers DEF Kept, Inserting, Busy
<1>4. /\ maxlevel_ \in Int /\ (enterpoint_node_ # None => enterpoint_node_ \in Stored)
  BY MaxLevelIs
<1>5. \A i \in Stored : level[i] \in Levels /\ level[i] \in Int
  BY <1>0, StoredIds, NumbersAre DEF Types, ElementTypes
<1>6. \A i \in Stored : \/ level[i] <= maxlevel_
                        \/ \E u \in Threads : Inserting(u) /\ job[u].id = i /\ (pc[u] = "global" \/ global = u)
  BY <1>0 DEF EntryInv
<1>7. ASSUME enterpoint_node_' = enterpoint_node_, maxlevel_' = maxlevel_
      PROVE  \/ enterpoint_node_' = None /\ maxlevel_' = None
             \/ Present(enterpoint_node_)' /\ maxlevel_' = level'[enterpoint_node_']
  BY <1>0, <1>1, <1>4, <1>7 DEF EntryInv, Grows, Present
<1>8. CASE TakeGlobal(t)
  <2>1. /\ global = None /\ pc[t] = "global" /\ pc'[t] = "entry" /\ Inserting(t) /\ Inserting(t)'
        /\ global' = IF level[job[t].id] > maxlevel_ THEN t ELSE None
        /\ job'[t].max = maxlevel_ /\ job'[t].id = job[t].id
        /\ enterpoint_node_' = enterpoint_node_ /\ maxlevel_' = maxlevel_
    BY <1>8, TakeGlobalIs
  <2>2. \A i \in Stored :
          \/ level[i] <= maxlevel_'
          \/ \E u \in Threads : Inserting(u)' /\ job'[u].id = i /\ (pc'[u] = "global" \/ global' = u)
    <3> SUFFICES ASSUME NEW i \in Stored, ~(level[i] <= maxlevel_)
                 PROVE  \E u \in Threads : Inserting(u)' /\ job'[u].id = i /\ (pc'[u] = "global" \/ global' = u)
      BY <2>1
    <3>1. PICK u \in Threads : Inserting(u) /\ job[u].id = i /\ (pc[u] = "global" \/ global = u)
      BY <1>6
    <3>2. CASE u = t
      <4>1. level[i] > maxlevel_
        BY <1>4, <1>5
      <4> QED BY <2>1, <3>1, <3>2, <4>1
    <3>3. CASE u # t
      <4>1. pc[u] = "global"
        BY <1>0, <2>1, <3>1
      <4> QED BY <1>3, <3>1, <3>3, <4>1
    <3> QED BY <3>2, <3>3
  <2>3. /\ global' \in Threads \cup {None}
        /\ global' # None => Inserting(global)' /\ pc'[global'] # "global" /\ job'[global'].max = maxlevel_'
    BY <2>1 DEF Inserting, Busy
  <2> QED BY <1>1, <1>7, <2>1, <2>2, <2>3 DEF EntryInv
<1>9. CASE Raises(t)
  <2>1. /\ Inserting(t) /\ global = t /\ level[job[t].id] > maxlevel_
        /\ enterpoint_node_' = job[t].id /\ maxlevel_' = level[job[t].id] /\ global' = None
        /\ Return(t)
    BY <1>9 DEF Raises
  <2>2. job[t].id \in Stored
    BY <2>1, BusyIs DEF Inserting
  <2>10. PICK me \in Stored : me = job[t].id
    BY <2>2
  <2>3. Present(me)'
    <3>1. \A u \in Threads : Inserting(u)' => job'[u].id # me
      <4> SUFFICES ASSUME NEW u \in Threads, Inserting(u)' PROVE job'[u].id # me
        OBVIOUS
      <4>1. u # t
        BY <1>0, <2>1, ReturnIs
      <4>2. Inserting(u) /\ job'[u] = job[u]
        BY <1>3, <4>1
      <4> QED BY <1>0, <2>1, <2>10, <4>1, <4>2 DEF Apart, Inserting
    <3> QED BY <1>1, <3>1 DEF Present, LockFree
  <2>4. \A i \in Stored :
          \/ level[i] <= maxlevel_'
          \/ \E u \in Threads : Inserting(u)' /\ job'[u].id = i /\ (pc'[u] = "global" \/ global' = u)
    <3> SUFFICES ASSUME NEW i \in Stored
                 PROVE  \/ level[i] <= maxlevel_'
                        \/ \E u \in Threads : Inserting(u)' /\ job'[u].id = i /\ (pc'[u] = "global" \/ global' = u)
      OBVIOUS
    <3>1. CASE level[i] <= maxlevel_
      <4>1. level[i] \in Int /\ level[job[t].id] \in Int
        BY <1>5, <2>2
      <4> QED BY <1>4, <2>1, <3>1, <4>1
    <3>2. ASSUME NEW u \in Threads, Inserting(u), job[u].id = i, pc[u] = "global" \/ global = u
          PROVE  \/ level[i] <= maxlevel_'
                 \/ \E w \in Threads : Inserting(w)' /\ job'[w].id = i /\ (pc'[w] = "global" \/ global' = w)
      <4>1. CASE u = t
        <5>1. level[job[t].id] \in Int
          BY <1>5, <2>2
        <5> QED BY <2>1, <3>2, <4>1, <5>1
      <4>2. CASE u # t
        BY <1>3, <2>1, <3>2, <4>2
      <4> QED BY <4>1, <4>2
    <3> QED BY <1>6, <3>1, <3>2
  <2>5. Present(enterpoint_node_)' /\ maxlevel_' = level'[enterpoint_node_']
    BY <1>1, <2>1, <2>3, <2>10 DEF Present, LockFree
  <2>6. /\ global' \in Threads \cup {None}
        /\ global' # None => Inserting(global)' /\ pc'[global'] # "global" /\ job'[global'].max = maxlevel_'
    BY <2>1
  <2> QED BY <1>1, <2>4, <2>5, <2>6 DEF EntryInv
<1>10. CASE /\ enterpoint_node_' = enterpoint_node_ /\ maxlevel_' = maxlevel_ /\ global' = global
            /\ pc[t] # "global" /\ pc'[t] # "global"
            /\ global = t => Busy(t)' /\ job'[t].max = job[t].max
  <2>1. /\ global \in Threads \cup {None}
        /\ global # None => Inserting(global) /\ pc[global] # "global" /\ job[global].max = maxlevel_
    BY <1>0 DEF EntryInv
  <2>2. ASSUME global # None
        PROVE  Inserting(global)' /\ pc'[global'] # "global" /\ job'[global'].max = maxlevel_'
    <3>0. PICK g \in Threads : g = global
      BY <2>1, <2>2
    <3>1. Inserting(g) /\ pc[g] # "global" /\ job[g].max = maxlevel_
      BY <2>1, <2>2, <3>0
    <3>2. Inserting(g)' /\ pc'[g] # "global" /\ job'[g].max = maxlevel_'
      <4>1. CASE g = t
        BY <1>2, <1>10, <3>0, <3>1, <4>1
      <4>2. CASE g # t
        BY <1>3, <1>10, <3>1, <4>2
      <4> QED BY <4>1, <4>2
    <3>3. global' = g
      BY <1>10, <3>0
    <3> QED BY <3>2, <3>3 DEF Inserting, Busy
  <2>3. \A i \in Stored :
          \/ level[i] <= maxlevel_'
          \/ \E u \in Threads : Inserting(u)' /\ job'[u].id = i /\ (pc'[u] = "global" \/ global' = u)
    <3> SUFFICES ASSUME NEW i \in Stored, ~(level[i] <= maxlevel_)
                 PROVE  \E u \in Threads : Inserting(u)' /\ job'[u].id = i /\ (pc'[u] = "global" \/ global' = u)
      BY <1>10
    <3>1. PICK u \in Threads : Inserting(u) /\ job[u].id = i /\ (pc[u] = "global" \/ global = u)
      BY <1>6
    <3>2. CASE u = t
      BY <1>2, <1>10, <3>1, <3>2
    <3>3. CASE u # t
      BY <1>3, <1>10, <3>1, <3>3
    <3> QED BY <3>2, <3>3
  <2>4. (global' # None => Inserting(global)' /\ pc'[global'] # "global" /\ job'[global'].max = maxlevel_')
        /\ global' \in Threads \cup {None}
    BY <1>10, <2>1, <2>2
  <2> QED BY <1>1, <1>7, <1>10, <2>3, <2>4 DEF EntryInv
<1> QED
  BY <1>8, <1>9, <1>10, EntryStep

-----------------------------------------------------------------------------
(* What a thread knows of its element and of the entry point.               *)

\* A step of one thread leaves true what another one knows of its element and of the
\* entry point.
LEMMA StepKeepsOtherJobs ==
    ASSUME IInv, NEW t \in Threads, Step(t), NEW u \in Threads, u # t
    PROVE  JobInv(u)'
<1>0. Types /\ Apart /\ Grows /\ JobInv(u) /\ JobInv(t) /\ None \notin Threads
  BY StepGrows, GraphAssumption DEF IInv
<1>1. count' = count /\ level' = level /\ Stored' = Stored /\ deleted' = deleted
  BY StepKeepsElements DEF Stored
<1>2. pc'[u] = pc[u] /\ job'[u] = job[u]
  BY <1>0, StepKeepsOthers DEF Kept
<1>3. maxlevel_ \in Int
  BY MaxLevelIs
<1>4. CASE /\ enterpoint_node_' = enterpoint_node_ /\ maxlevel_' = maxlevel_
           /\ global' = u <=> global = u
  BY <1>0, <1>1, <1>2, <1>4 DEF JobInv, Inserting, Busy, Grows, Present
<1>5. CASE Raises(t)
  <2>1. /\ Inserting(t) /\ global = t /\ global' = None /\ maxlevel_' > maxlevel_ /\ maxlevel_' \in Int
    <3>1. level[job[t].id] \in Levels
      BY <1>5, BusyIs DEF Raises, Inserting
    <3> QED BY <1>5, <3>1, NumbersAre DEF Raises
  <2>2. global # u /\ global' # u
    BY <1>0, <2>1
  <2>3. Busy(u) => deleted = {}
    BY <1>0, <2>1 DEF Apart, Inserting
  <2>4. Inserting(u) /\ pc[u] # "global" => job[u].max <= maxlevel_'
    <3> SUFFICES ASSUME Inserting(u), pc[u] # "global" PROVE job[u].max <= maxlevel_'
      OBVIOUS
    <3>1. job[u].max \in Int
      BY BusyIs, NumbersAre DEF Inserting
    <3>2. job[u].max <= maxlevel_
      BY <1>0 DEF JobInv
    <3> QED BY <1>3, <2>1, <3>1, <3>2
  <2> QED
    BY <1>0, <1>1, <1>2, <2>2, <2>3, <2>4 DEF JobInv, Inserting, Busy, Grows, Present
<1>6. CASE TakeGlobal(t)
  <2>1. global = None /\ global' \in {t, None} /\ enterpoint_node_' = enterpoint_node_ /\ maxlevel_' = maxlevel_
    BY <1>6, TakeGlobalIs
  <2> QED BY <1>0, <1>4, <2>1
<1> QED
  BY <1>4, <1>5, <1>6, EntryStep

\* A thread that keeps its job and goes from one step to another one of its kind.
LEMMA SameJobKept ==
    ASSUME IInv, NEW t \in Threads, Step(t), Busy(t), job'[t] = job[t], pc[t] # "global",
           enterpoint_node_' = enterpoint_node_, maxlevel_' = maxlevel_, global' = global,
           pc'[t] \in IF job[t].update THEN UpdateSteps ELSE InsertSteps,
           Inserting(t) /\ pc'[t] \in {"descend", "search", "connect"} =>
               pc[t] \in {"descend", "search", "connect"},
           pc[t] = "copy" => pc'[t] = "copy",
           pc'[t] = "publish" => level[job[t].id] > job[t].max
    PROVE  JobInv(t)'
<1>0. Types /\ Grows /\ JobInv(t)
  BY StepGrows DEF IInv
<1>1. count' = count /\ level' = level /\ Stored' = Stored /\ deleted' = deleted
  BY StepKeepsElements DEF Stored
<1>2. job[t].entry # None => Present(job[t].entry)'
  <2> SUFFICES ASSUME job[t].entry # None PROVE Present(job[t].entry)'
    OBVIOUS
  <2>1. PICK e \in Stored : e = job[t].entry
    BY <1>0 DEF JobInv, Present
  <2>2. Present(e)'
    BY <1>0, <2>1 DEF JobInv, Grows
  <2> QED BY <2>1, <2>2 DEF Present, LockFree
<1> QED
  BY <1>0, <1>1, <1>2 DEF JobInv, Inserting, Busy, Present, LockFree

\* Where the parts of a step bring a thread.
LEMMA PartsLead ==
    ASSUME Types, NEW t \in Threads, NEW o, NEW l, NEW h
    PROVE  /\ StartSearch(t, o, l) => pc'[t] = "search"
           /\ StartDescent(t, o, l, h) => pc'[t] \in {"descend", "search"}
           /\ NextLayer(t) => pc'[t] \in {"neighbours", "descend", "search"}
           /\ Onward(t, o) => \/ job' = job /\ pc'[t] = "search"
                              \/ /\ job' = job /\ pc'[t] = "publish" /\ Inserting(t)
                                 /\ level[job[t].id] > job[t].max
                              \/ Return(t)
<1>0. DOMAIN pc = Threads
  BY DEF Types, ThreadTypes
<1>1. ASSUME NEW p, NEW q, StartSearch(t, p, q) PROVE pc'[t] = "search"
  BY <1>0, <1>1 DEF StartSearch, Set1
<1>2. ASSUME NEW p, NEW q, NEW r, StartDescent(t, p, q, r) PROVE pc'[t] \in {"descend", "search"}
  BY <1>0, <1>1, <1>2 DEF StartDescent, Set1
<1>3. ASSUME NextLayer(t) PROVE pc'[t] \in {"neighbours", "descend", "search"}
  BY <1>0, <1>2, <1>3 DEF NextLayer, Set1
<1>4. ASSUME Onward(t, o), ~Return(t)
      PROVE  \/ job' = job /\ pc'[t] = "search"
             \/ job' = job /\ pc'[t] = "publish" /\ Inserting(t) /\ level[job[t].id] > job[t].max
  BY <1>0, <1>1, <1>4 DEF Onward, Set1
<1> QED
  BY <1>1, <1>2, <1>3, <1>4

\* A thread that returns knows nothing that could be wrong.
LEMMA ReturnKeepsJob ==
    ASSUME Types, NEW t \in Threads, Return(t)
    PROVE  JobInv(t)'
  BY ReturnIs DEF JobInv, NoJob, Inserting, Busy

\* The first copy an update takes of the maximum level is no lower than its element.
LEMMA UpdateIsBelow ==
    ASSUME IInv, NEW t \in Threads, Busy(t), job[t].update
    PROVE  level[job[t].id] <= maxlevel_
<1>1. EntryInv /\ Apart /\ job[t].id \in Stored
  BY BusyIs DEF IInv
<1>2. ASSUME NEW u \in Threads, Inserting(u), job[u].id = job[t].id PROVE FALSE
  <2>1. u # t
    BY <1>2 DEF Inserting
  <2> QED BY <1>1, <1>2, <2>1 DEF Apart, Inserting
<1> QED
  BY <1>1, <1>2 DEF EntryInv

\* What a thread knows of its element and of the entry point is true after its step.
LEMMA StepKeepsOwnJob ==
    ASSUME IInv, NEW t \in Threads, Step(t)
    PROVE  JobInv(t)'
<1>0. Types /\ ThreadTypes /\ Grows /\ JobInv(t) /\ EntryInv /\ None \notin Threads
  BY StepGrows, GraphAssumption DEF IInv, Types
<1>1. count' = count /\ level' = level /\ Stored' = Stored /\ deleted' = deleted
  BY StepKeepsElements DEF Stored
<1>2. DOMAIN pc = Threads /\ DOMAIN job = Threads /\ job[t] \in JobType
  BY <1>0 DEF ThreadTypes
<1>3. ASSUME NEW e \in Stored, Present(e) PROVE Present(e)' /\ level'[e] = level[e]
  BY <1>0, <1>3 DEF Grows
<1>4. ASSUME NEW e, Present(e), NEW f, f = e PROVE f \in Stored' /\ LockFree(e)'
  BY <1>1, <1>3, <1>4 DEF Present
<1>5. CASE FirstElement(t) \/ Publish(t)
  BY <1>0, <1>5, ReturnKeepsJob DEF FirstElement, Publish
<1>6. CASE TakeGlobal(t)
  <2>1. /\ global = None /\ pc[t] = "global" /\ pc'[t] = "entry" /\ Inserting(t) /\ Inserting(t)'
        /\ global' = IF level[job[t].id] > maxlevel_ THEN t ELSE None
        /\ job'[t].max = maxlevel_ /\ job'[t].id = job[t].id /\ job'[t].update = job[t].update
        /\ job'[t].entry = job[t].entry
        /\ enterpoint_node_' = enterpoint_node_ /\ maxlevel_' = maxlevel_
    BY <1>6, TakeGlobalIs
  <2>2. job'[t].id \in Stored' \ deleted' /\ maxlevel_ \in Int
    BY <1>1, <2>1, BusyIs, MaxLevelIs DEF Inserting
  <2>3. job'[t].entry # None => Present(job[t].entry)'
    <3> SUFFICES ASSUME job[t].entry # None PROVE Present(job[t].entry)'
      BY <2>1
    <3>1. PICK e \in Stored : e = job[t].entry /\ Present(e)
      BY <1>0 DEF JobInv, Present
    <3>2. Present(e)' /\ job'[t].entry = e
      BY <1>3, <2>1, <3>1
    <3> QED BY <3>2 DEF Present, LockFree
  <2>4. "entry" \in InsertSteps /\ "entry" \notin UpdateSteps
    BY DEF InsertSteps, UpdateSteps
  <2> QED BY <1>0, <1>1, <2>1, <2>2, <2>3, <2>4 DEF JobInv, Inserting, Busy
<1>7. CASE ReadEntry(t)
  <2>1. pc[t] = "entry" /\ enterpoint_node_ # None /\ pc'[t] \in {"descend", "search"}
        /\ enterpoint_node_' = enterpoint_node_ /\ maxlevel_' = maxlevel_ /\ global' = global
    BY <1>0, <1>7, PartsLead DEF ReadEntry, entryVars
  <2>2. /\ enterpoint_node_ \in Stored /\ Present(enterpoint_node_)
        /\ job[t].max \in Levels /\ job[t].max <= level[enterpoint_node_] /\ Inserting(t)
    BY <2>1, EntryIs
  <2>3. job'[t] = [job[t] EXCEPT !.entry = enterpoint_node_]
    BY <1>2, <1>7 DEF ReadEntry
  <2>4. /\ job'[t].id = job[t].id /\ job'[t].update = job[t].update /\ job'[t].max = job[t].max
        /\ job'[t].entry = enterpoint_node_
    BY <1>2, <2>3 DEF JobType
  <2>5. PICK e \in Stored : e = enterpoint_node_
    BY <2>2
  <2>6. Present(e)' /\ level'[e] = level[e]
    BY <1>3, <2>2, <2>5
  <2>7. Present(job[t].entry)'
    BY <2>4, <2>5, <2>6 DEF Present, LockFree
  <2>8. job'[t].max <= level'[job'[t].entry] /\ job'[t].max # None /\ job'[t].entry # None
    BY <2>1, <2>2, <2>4, <2>5, <2>6, NumbersAre
  <2>9. pc'[t] \in InsertSteps /\ pc'[t] # "publish" /\ pc'[t] # "global" /\ ~job[t].update
    BY <2>1, <2>2 DEF InsertSteps, Inserting
  <2>10. job'[t].id \in Stored' \ deleted' /\ Busy(t)
    BY <1>1, <2>2, <2>4, BusyIs DEF Inserting
  <2>11. job'[t].max <= maxlevel_' /\ (global' = t <=> level'[job'[t].id] > job'[t].max)
    BY <1>0, <1>1, <2>1, <2>2, <2>4 DEF JobInv
  <2> QED BY <2>4, <2>7, <2>8, <2>9, <2>10, <2>11 DEF JobInv, Inserting, Busy
<1>8. CASE Descend(t)
  <2>1. pc[t] = "descend" /\ pc'[t] \in {"descend", "search"} /\ job' = job /\ Busy(t)
        /\ enterpoint_node_' = enterpoint_node_ /\ maxlevel_' = maxlevel_ /\ global' = global
    BY <1>0, <1>8, PartsLead DEF Descend, entryVars, Busy
  <2> QED BY <1>0, <2>1, SameJobKept DEF InsertSteps, UpdateSteps
<1>9. CASE Expand(t) \/ ReadsBeyond(t)
  <2>1. pc[t] \in {"descend", "search"} /\ pc' = pc /\ job' = job /\ Busy(t)
        /\ enterpoint_node_' = enterpoint_node_ /\ maxlevel_' = maxlevel_ /\ global' = global
    BY <1>9 DEF Expand, ReadsBeyond, Beyond, entryVars, Busy
  <2> QED BY <1>0, <2>1, SameJobKept DEF InsertSteps, UpdateSteps
<1>10. CASE Select(t)
  <2>1. pc[t] = "search" /\ pc'[t] = "connect" /\ job' = job /\ Busy(t)
        /\ enterpoint_node_' = enterpoint_node_ /\ maxlevel_' = maxlevel_ /\ global' = global
    BY <1>2, <1>10 DEF Select, entryVars, Busy, Set1
  <2> QED BY <1>0, <2>1, SameJobKept DEF InsertSteps, UpdateSteps
<1>11. CASE SkipLevel(t) \/ Connect(t)
  <2>1. pc[t] \in {"search", "connect"} /\ Busy(t)
        /\ enterpoint_node_' = enterpoint_node_ /\ maxlevel_' = maxlevel_ /\ global' = global
    BY <1>11 DEF SkipLevel, Connect, entryVars, Busy
  <2>2. Onward(t, obj[t]) \/ (job' = job /\ pc' = pc)
    BY <1>11 DEF SkipLevel, Connect
  <2>3. \/ job' = job /\ pc'[t] \in {"search", pc[t]}
        \/ job' = job /\ pc'[t] = "publish" /\ Inserting(t) /\ level[job[t].id] > job[t].max
        \/ Return(t)
    BY <1>0, <2>2, PartsLead
  <2>4. CASE Return(t)
    BY <1>0, <2>4, ReturnKeepsJob
  <2>5. CASE job' = job /\ pc'[t] \in {"search", pc[t]}
    BY <1>0, <2>1, <2>5, SameJobKept DEF InsertSteps, UpdateSteps
  <2>6. CASE job' = job /\ pc'[t] = "publish" /\ Inserting(t) /\ level[job[t].id] > job[t].max
    BY <1>0, <2>1, <2>6, SameJobKept DEF InsertSteps, Inserting
  <2> QED BY <2>3, <2>4, <2>5, <2>6
<1>12. CASE ReadNeighbours(t) \/ \E n \in Ids : ReadHop(t, n) \/ Rewrite(t, n)
  <2>1. pc[t] \in {"neighbours", "hops", "rewrite"} /\ job' = job
        /\ enterpoint_node_' = enterpoint_node_ /\ maxlevel_' = maxlevel_ /\ global' = global
    BY <1>12 DEF ReadNeighbours, ReadHop, Rewrite, entryVars
  <2>2. Busy(t) /\ pc[t] \notin InsertSteps
    BY <2>1 DEF Busy, InsertSteps
  <2>3. job[t].update
    BY <1>0, <2>2 DEF JobInv
  <2>4. pc'[t] \in {"neighbours", "descend", "search", "hops", "rewrite"}
    <3>1. CASE ReadNeighbours(t)
      BY <1>0, <1>2, <3>1, PartsLead DEF ReadNeighbours, Set1
    <3>2. ASSUME NEW n \in Ids, ReadHop(t, n) PROVE pc'[t] \in {"hops", "rewrite"}
      BY <1>2, <3>2 DEF ReadHop, Set1
    <3>3. ASSUME NEW n \in Ids, Rewrite(t, n)
          PROVE  pc'[t] \in {"neighbours", "descend", "search", "rewrite"}
      BY <1>0, <3>3, PartsLead DEF Rewrite
    <3> QED BY <1>12, <3>1, <3>2, <3>3
  <2> QED BY <1>0, <2>1, <2>2, <2>3, <2>4, SameJobKept DEF UpdateSteps, Inserting
<1>13. CASE CopyMaxLevel(t) \/ CopyEntry(t)
  <2>1. pc[t] = "copy" /\ Busy(t) /\ "copy" \notin InsertSteps
        /\ enterpoint_node_' = enterpoint_node_ /\ maxlevel_' = maxlevel_ /\ global' = global
    BY <1>13 DEF CopyMaxLevel, CopyEntry, Copy, Busy, InsertSteps, entryVars
  <2>2. job[t].update
    BY <1>0, <2>1 DEF JobInv
  <2>3. CASE Return(t)
    BY <1>0, <2>3, ReturnKeepsJob
  <2>4. CASE ~Return(t)
    <3>1. PICK m, e : /\ Copy(t, m, e)
                      /\ m = job[t].max \/ m = maxlevel_
                      /\ e = job[t].entry \/ e = enterpoint_node_
      BY <1>13 DEF CopyMaxLevel, CopyEntry
    <3>2. /\ job'[t] = [[job[t] EXCEPT !.max = m] EXCEPT !.entry = e]
          /\ IF m = None \/ e = None THEN pc' = pc ELSE pc' = Set1(pc, t, "neighbours")
      BY <1>2, <2>4, <3>1 DEF Copy
    <3>3. /\ job'[t].id = job[t].id /\ job'[t].update = job[t].update /\ job'[t].max = m /\ job'[t].entry = e
      BY <1>2, <3>2 DEF JobType
    <3>4. IF m = None \/ e = None THEN pc'[t] = "copy" ELSE pc'[t] = "neighbours"
      BY <1>2, <2>1, <3>2 DEF Set1
    <3>5. pc'[t] \in UpdateSteps /\ pc'[t] # "publish" /\ Busy(t)' /\ ~Inserting(t)'
      BY <2>2, <3>3, <3>4 DEF UpdateSteps, Inserting, Busy
    <3>6. job'[t].id \in Stored' \ deleted'
      BY <1>1, <2>1, <3>3, BusyIs
    <3>7. e # None => Present(job[t].entry)'
      <4> SUFFICES ASSUME e # None PROVE Present(job[t].entry)'
        OBVIOUS
      <4>1. Present(e)
        BY <1>0, <3>1 DEF JobInv, EntryInv
      <4>2. e \in Stored
        BY <4>1 DEF Present
      <4>3. Present(e)'
        BY <1>3, <4>1, <4>2
      <4> QED BY <3>3, <4>3 DEF Present, LockFree
    <3>8. m # None => level'[job'[t].id] <= m
      BY <1>0, <1>1, <2>1, <2>2, <3>1, <3>3, UpdateIsBelow DEF JobInv
    <3>9. deleted' # {} => m \in {None, maxlevel_'} /\ e \in {None, enterpoint_node_'}
      BY <1>0, <1>1, <2>1, <2>2, <3>1 DEF JobInv
    <3> QED BY <2>2, <3>3, <3>4, <3>5, <3>6, <3>7, <3>8, <3>9 DEF JobInv
  <2> QED BY <2>3, <2>4
<1> QED
  BY <1>5, <1>6, <1>7, <1>8, <1>9, <1>10, <1>11, <1>12, <1>13 DEF Step

-----------------------------------------------------------------------------
(* The walk.                                                                *)

\* A walk that goes nowhere is as sound as before.
LEMMA KeptWalks ==
    ASSUME IInv, Grows, NEW u \in Threads, Kept(u)
    PROVE  WalkInv(u)'
<1>0. Types /\ WalkInv(u) /\ WalkTypes
  BY DEF IInv, Types
<1>1. /\ pc'[u] = pc[u] /\ job'[u] = job[u] /\ at'[u] = at[u] /\ obj'[u] = obj[u]
      /\ top'[u] = top[u] /\ cand'[u] = cand[u] /\ seen'[u] = seen[u]
      /\ hop'[u] = hop[u] /\ rest'[u] = rest[u]
  BY DEF Kept, WalkKept
<1>2. PICK l \in Levels : l = at[u]
  BY <1>0 DEF WalkTypes
<1>3. \A j : Listed(j, l) => Listed(j, l)'
  BY DEF Grows, Listed
<1>4. \A j : Present(j) => Present(j)'
  BY DEF Grows, Present
<1>5. PICK o : o = obj[u]
  OBVIOUS
<1>6. (Present(obj[u]) => Present(obj[u])') /\ (Listed(obj[u], at[u]) => Listed(obj[u], at[u])')
  <2>1. Present(o)' <=> Present(obj[u])'
    BY <1>1, <1>5 DEF Present, LockFree
  <2>2. Listed(o, l)' <=> Listed(obj[u], at[u])'
    BY <1>1, <1>2, <1>5 DEF Listed, Reached
  <2> QED BY <1>2, <1>3, <1>4, <1>5, <2>1, <2>2
<1>7. \A j : Listed(j, at[u]) => Listed(j, at[u])'
  <2>1. \A j : Listed(j, l)' <=> Listed(j, at[u])'
    BY <1>1, <1>2 DEF Listed, Reached
  <2> QED BY <1>2, <1>3, <2>1
<1>8. Found(cand[u], at[u]) => Found(cand[u], at[u])'
  BY <1>1, <1>7 DEF Found
<1>9. Found(top[u], at[u]) => Found(top[u], at[u])'
  BY <1>1, <1>7 DEF Found
<1>10. Fresh(u) => Fresh(u)'
  BY <1>1 DEF Fresh
<1>11. (pc[u] \in {"idle", "copy"} => at[u] = 0) /\ (pc[u] = "neighbours" => at[u] <= level[job[u].id])
  BY <1>0 DEF WalkInv
<1>12. pc[u] = "descend" =>
          /\ level[job[u].id] < at[u] /\ at[u] <= job[u].max
          /\ Present(obj[u])' \/ Listed(obj[u], at[u])'
  BY <1>0, <1>6 DEF WalkInv
<1>13. pc[u] = "search" =>
          /\ at[u] <= level[job[u].id] /\ at[u] <= job[u].max /\ Present(obj[u])'
          /\ Fresh(u)' \/ (Found(cand[u], at[u])' /\ Found(top[u], at[u])')
  BY <1>0, <1>6, <1>8, <1>9, <1>10 DEF WalkInv
<1>14. pc[u] = "connect" =>
          /\ at[u] <= level[job[u].id] /\ at[u] <= job[u].max
          /\ rest[u] # {} /\ \A j \in rest[u] : Listed(j, at[u])' /\ j # job[u].id
          /\ obj[u] \in rest[u] \/ Present(obj[u])'
  BY <1>0, <1>6, <1>7 DEF WalkInv
<1>15. pc[u] \in {"hops", "rewrite"} =>
          /\ at[u] <= level[job[u].id]
          /\ \A j \in seen[u] : Listed(j, at[u])'
          /\ \A j \in hop[u] \cup rest[u] : Listed(j, at[u])' /\ j # job[u].id
          /\ hop[u] # {} /\ rest[u] # {}
  BY <1>0, <1>7 DEF WalkInv
<1>16. Busy(u) => level'[job[u].id] = level[job[u].id]
  BY BusyIs DEF Grows
<1> QED
  BY <1>1, <1>11, <1>12, <1>13, <1>14, <1>15, <1>16 DEF WalkInv, Busy

\* A search begins at an element that is whole.
LEMMA SearchBegins ==
    ASSUME Types, NEW t \in Threads, NEW o, NEW l \in Levels, Present(o)', StartSearch(t, o, l),
           l <= level'[job'[t].id], l <= job'[t].max
    PROVE  WalkInv(t)'
<1>0. /\ DOMAIN pc = Threads /\ DOMAIN at = Threads /\ DOMAIN obj = Threads /\ DOMAIN cand = Threads
      /\ DOMAIN top = Threads
  BY DEF Types, ThreadTypes, WalkTypes
<1>1. pc'[t] = "search" /\ at'[t] = l /\ obj'[t] = o
  BY <1>0 DEF StartSearch, Walk, Set1
<1>2. \/ cand'[t] = {<<Far, o>>} /\ top'[t] = {}
      \/ cand'[t] = {Pair(Query(t), o)} /\ top'[t] = {Pair(Query(t), o)}
  BY <1>0 DEF StartSearch, Walk, Set1
<1>3. Fresh(t)'
  <2>1. CASE cand'[t] = {<<Far, o>>} /\ top'[t] = {}
    <3> DEFINE p == <<Far, o>>
    <3>1. p \in cand'[t] /\ cand'[t] = {p} /\ p[2] = obj'[t] /\ top'[t] = {} /\ p[1] = Far
      BY <1>1, <2>1
    <3> QED BY <3>1 DEF Fresh
  <2>2. CASE cand'[t] = {Pair(Query(t), o)} /\ top'[t] = {Pair(Query(t), o)}
    <3> DEFINE p == Pair(Query(t), o)
    <3>1. p[2] = o
      BY DEF Pair
    <3> HIDE DEF p
    <3>2. p \in cand'[t] /\ cand'[t] = {p} /\ p[2] = obj'[t] /\ top'[t] = cand'[t]
      BY <1>1, <2>2, <3>1 DEF p
    <3> QED BY <3>2 DEF Fresh
  <2> QED BY <1>2, <2>1, <2>2
<1>4. Present(obj[t])'
  BY <1>1 DEF Present, LockFree
<1> QED
  BY <1>1, <1>3, <1>4 DEF WalkInv

\* A descent, or the search that takes its place, begins at an element that is whole.
LEMMA DescentBegins ==
    ASSUME Types, NEW t \in Threads, NEW o, NEW l \in Levels \cup {None}, NEW h \in Levels,
           Present(o)', StartDescent(t, o, l, h),
           IF l > h THEN level'[job'[t].id] < l /\ l <= job'[t].max
           ELSE h <= level'[job'[t].id] /\ h <= job'[t].max
    PROVE  WalkInv(t)'
<1>0. DOMAIN pc = Threads /\ DOMAIN at = Threads /\ DOMAIN obj = Threads
  BY DEF Types, ThreadTypes, WalkTypes
<1>1. CASE l > h
  <2>1. pc'[t] = "descend" /\ at'[t] = l /\ obj'[t] = o
    BY <1>0, <1>1 DEF StartDescent, Walk, Set1
  <2>2. Present(obj[t])'
    BY <2>1 DEF Present, LockFree
  <2> QED BY <1>1, <2>1, <2>2 DEF WalkInv
<1>2. CASE ~(l > h)
  BY <1>2, SearchBegins DEF StartDescent
<1> QED
  BY <1>1, <1>2

\* A thread that returns walks nowhere.
LEMMA ReturnWalks ==
    ASSUME Types, NEW t \in Threads, Return(t)
    PROVE  WalkInv(t)'
<1>1. pc'[t] = "idle" /\ at'[t] = 0
  BY DEF Types, ThreadTypes, WalkTypes, Return, Walk, Set1
<1> QED
  BY <1>1 DEF WalkInv

\* From one level a thread goes on to a search of the level below, or to the end.
LEMMA OnwardWalks ==
    ASSUME IInv, NEW t \in Threads, NEW o, Present(o)', Onward(t, o), level' = level,
           at[t] <= level[job[t].id], at[t] <= job[t].max, Busy(t)
    PROVE  WalkInv(t)'
<1>0. Types
  BY DEF IInv
<1>1. CASE Return(t)
  BY <1>0, <1>1, ReturnWalks
<1>2. CASE at[t] > 0
  <2>1. StartSearch(t, o, at[t] - 1) /\ job' = job
    BY <1>2 DEF Onward
  <2>2. at[t] - 1 \in Levels
    <3>1. TopLevel \in Nat /\ at[t] \in 0 .. TopLevel
      BY <1>0, GraphAssumption DEF Types, WalkTypes, Levels
    <3> QED BY <1>2, <3>1 DEF Levels
  <2>3. at[t] \in Int /\ level[job[t].id] \in Int /\ job[t].max \in Int
    BY BusyIs, NumbersAre
  <2>4. at[t] - 1 <= level'[job'[t].id] /\ at[t] - 1 <= job'[t].max
    BY <2>1, <2>3
  <2> QED BY <1>0, <2>1, <2>2, <2>4, SearchBegins
<1>3. CASE ~Return(t) /\ ~(at[t] > 0)
  <2>1. pc'[t] = "publish"
    BY <1>0, <1>3 DEF Onward, Set1, Types, ThreadTypes
  <2> QED BY <2>1 DEF WalkInv
<1> QED
  BY <1>1, <1>2, <1>3

\* From one layer an update goes on to the layer above, or to the descent that repairs
\* the connections of its own element.
LEMMA NextLayerWalks ==
    ASSUME IInv, Grows, NEW t \in Threads, Busy(t), job[t].update, pc[t] # "copy", NextLayer(t),
           level' = level, job' = job
    PROVE  WalkInv(t)'
<1>0. Types /\ JobInv(t)
  BY DEF IInv
<1>1. /\ level[job[t].id] \in Levels /\ at[t] \in Levels /\ job[t].max \in Levels \cup {None}
      /\ level[job[t].id] \in Int /\ at[t] \in Int /\ job[t].max \in Int
  BY BusyIs, NumbersAre
<1>2. job[t].entry # None /\ Present(job[t].entry) /\ job[t].max # None /\ level[job[t].id] <= job[t].max
  BY <1>0 DEF JobInv
<1>3. CASE at[t] < level[job[t].id]
  <2>1. pc'[t] = "neighbours" /\ at'[t] = at[t] + 1
    BY <1>0, <1>3 DEF NextLayer, Walk, Set1, Types, ThreadTypes, WalkTypes
  <2> QED BY <1>1, <1>3, <2>1 DEF WalkInv
<1>4. CASE ~(at[t] < level[job[t].id])
  <2>1. StartDescent(t, job[t].entry, job[t].max, level[job[t].id])
    BY <1>4 DEF NextLayer
  <2>2. PICK e \in Stored : e = job[t].entry
    BY <1>2 DEF Present
  <2>3. Present(e)'
    BY <1>2, <2>2 DEF Grows
  <2>4. IF job[t].max > level[job[t].id]
        THEN level'[job'[t].id] < job[t].max /\ job[t].max <= job'[t].max
        ELSE level[job[t].id] <= level'[job'[t].id] /\ level[job[t].id] <= job'[t].max
    BY <1>1, <1>2
  <2>5. StartDescent(t, e, job[t].max, level[job[t].id])
    BY <2>1, <2>2
  <2> QED BY <1>0, <1>1, <2>3, <2>4, <2>5, DescentBegins
<1> QED
  BY <1>3, <1>4

\* What was in the graph on a level, or whole, is so after a step.
LEMMA StepKeepsListed ==
    ASSUME IInv, NEW t \in Threads, Step(t)
    PROVE  /\ Grows /\ count' = count /\ level' = level
           /\ \A j, l : l \in Levels /\ Listed(j, l) => Listed(j, l)'
           /\ \A j : Present(j) => Present(j)'
<1>1. Grows /\ count' = count /\ level' = level
  BY StepGrows, StepKeepsElements DEF IInv
<1> QED
  BY <1>1 DEF Grows, Listed, Present

\* A greedy descent stays among elements that are in the graph on its level.
LEMMA DescendWalks ==
    ASSUME IInv, NEW t \in Threads, Descend(t)
    PROVE  WalkInv(t)'
<1> DEFINE o == obj[t]
           best == Closest({<<near[t], o>>} \cup {Pair(Query(t), j) : j \in links[o][at[t]]})
<1>0. Types /\ WalkInv(t) /\ Step(t) /\ Busy(t) /\ pc[t] = "descend"
  BY DEF IInv, Step, Descend, Busy
<1>1. /\ \A j, l : l \in Levels /\ Listed(j, l) => Listed(j, l)'
      /\ \A j : Present(j) => Present(j)'
      /\ level' = level
  BY <1>0, StepKeepsListed
<1>2. o \in Stored /\ best[1] \in Nat /\ best[2] \in Stored /\ (best[1] < near[t] => Listed(best[2], at[t]))
  BY <1>0, DescendIs
<1>3. /\ LockFree(o) /\ job' = job
      /\ IF best[1] < near[t] THEN Walk(t, at[t], best[2], best[1], {}, {}, {}) /\ pc' = pc
         ELSE StartDescent(t, o, at[t] - 1, level[job[t].id])
  BY DEF Descend
<1>4. level[job[t].id] < at[t] /\ at[t] <= job[t].max
  BY <1>0 DEF WalkInv
<1>5. /\ at[t] \in Levels /\ level[job[t].id] \in Levels /\ at[t] \in Int /\ level[job[t].id] \in Nat
      /\ job[t].max \in Int
  BY <1>0, BusyIs, NumbersAre
<1> HIDE DEF best
<1>6. CASE best[1] < near[t]
  <2>1. pc'[t] = "descend" /\ at'[t] = at[t] /\ obj'[t] = best[2]
    BY <1>0, <1>3, <1>6 DEF Walk, Set1, Types, ThreadTypes, WalkTypes
  <2>2. PICK j \in Stored, l \in Levels : j = best[2] /\ l = at[t]
    BY <1>2, <1>5
  <2>3. Listed(j, l)'
    BY <1>1, <1>2, <1>6, <2>2
  <2>4. Listed(obj[t], at[t])'
    BY <2>1, <2>2, <2>3 DEF Listed, Reached
  <2> QED BY <1>1, <1>3, <1>4, <2>1, <2>4 DEF WalkInv
<1>7. CASE ~(best[1] < near[t])
  <2>1. StartDescent(t, o, at[t] - 1, level[job[t].id])
    BY <1>3, <1>7
  <2>2. PICK p \in Stored : p = o
    BY <1>2
  <2>3. Present(p)'
    BY <1>1, <1>3, <2>2 DEF Present
  <2>4. at[t] - 1 \in Levels \cup {None}
    <3>1. TopLevel \in Nat /\ at[t] \in 0 .. TopLevel
      BY <1>5, GraphAssumption DEF Levels
    <3> QED BY <3>1 DEF Levels, None
  <2>5. IF at[t] - 1 > level[job[t].id]
        THEN level'[job'[t].id] < at[t] - 1 /\ at[t] - 1 <= job'[t].max
        ELSE level[job[t].id] <= level'[job'[t].id] /\ level[job[t].id] <= job'[t].max
    BY <1>1, <1>3, <1>4, <1>5
  <2>6. StartDescent(t, p, at[t] - 1, level[job[t].id])
    BY <2>1, <2>2
  <2> QED BY <1>0, <1>5, <2>3, <2>4, <2>5, <2>6, DescentBegins
<1> QED
  BY <1>6, <1>7

\* A search that looks at one list stays among elements that are in the graph on its
\* level.
LEMMA ExpandWalks ==
    ASSUME IInv, NEW t \in Threads, Expand(t)
    PROVE  WalkInv(t)'
<1> DEFINE c == Closest(cand[t])
           new == {Pair(Query(t), j) : j \in links[c[2]][at[t]] \ seen[t]}
           best == Best(top[t] \cup {p \in new : p[2] \notin deleted}, EfConstruction)
           open == (cand[t] \ {c}) \cup {p \in new : \/ Cardinality(best) < EfConstruction
                                                     \/ p[1] <= LowerBound(best)}
<1>0. Types /\ WalkInv(t) /\ Step(t) /\ Busy(t) /\ pc[t] = "search" /\ ~SearchStops(t)
  BY DEF IInv, Step, Expand, Busy
<1>1. /\ \A j, l : l \in Levels /\ Listed(j, l) => Listed(j, l)'
      /\ \A j : Present(j) => Present(j)'
      /\ level' = level
  BY <1>0, StepKeepsListed
<1>2. new \subseteq Nat \X Ids /\ IsFiniteSet(new) /\ \A p \in new : Listed(p[2], at[t])
  BY <1>0, MetIs
<1>3. Walk(t, at[t], obj[t], 0, best, open, seen[t] \cup IdsOf(new)) /\ pc' = pc /\ job' = job
      /\ level[c[2]] >= at[t] /\ LockFree(c[2])
  BY DEF Expand
<1> HIDE DEF new
<1>4. c \in cand[t] /\ c[2] \in Stored /\ (Listed(c[2], at[t]) \/ (c[2] = obj[t] /\ cand[t] = {c}))
  BY <1>0, CandidateIs
<1> HIDE DEF c
<1>5. /\ at[t] <= level[job[t].id] /\ at[t] <= job[t].max /\ Present(obj[t])
      /\ Fresh(t) \/ (Found(cand[t], at[t]) /\ Found(top[t], at[t]))
  BY <1>0 DEF WalkInv
<1>6. at[t] \in Levels /\ at[t] \in Int /\ level[c[2]] \in Int
  BY <1>0, <1>4, BusyIs, NumbersAre, StoredIds DEF Types, ElementTypes
<1>7. Listed(c[2], at[t])
  BY <1>3, <1>4, <1>6 DEF Listed, LockFree
<1>8. /\ IsFiniteSet(top[t]) /\ \A p \in top[t] : Listed(p[2], at[t])
      /\ IsFiniteSet(cand[t] \ {c}) /\ \A p \in cand[t] \ {c} : Listed(p[2], at[t])
  <2>1. CASE Fresh(t)
    <3>1. cand[t] = {c} /\ top[t] \subseteq {c}
      BY <1>4, <2>1 DEF Fresh
    <3>2. IsFiniteSet({c}) /\ IsFiniteSet({})
      BY FS_Singleton, FS_EmptySet
    <3>3. IsFiniteSet(top[t]) /\ cand[t] \ {c} = {}
      BY <3>1, <3>2, FS_Subset
    <3> QED BY <1>7, <3>1, <3>2, <3>3
  <2>2. CASE Found(cand[t], at[t]) /\ Found(top[t], at[t])
    <3>1. IsFiniteSet(cand[t] \ {c})
      BY <2>2, FS_RemoveElement DEF Found
    <3> QED BY <2>2, <3>1 DEF Found
  <2> QED BY <1>5, <2>1, <2>2
<1> DEFINE added == {p \in new : p[2] \notin deleted}
<1>9. IsFiniteSet(added) /\ added \subseteq new
  BY <1>2, FS_Subset
<1>10. IsFiniteSet(best) /\ \A p \in best : Listed(p[2], at[t])
  <2>1. IsFiniteSet(top[t] \cup added)
    BY <1>8, <1>9, FS_Union
  <2>2. best \subseteq top[t] \cup added
    BY BestIn
  <2>3. IsFiniteSet(best)
    BY <2>1, <2>2, FS_Subset
  <2> QED BY <1>2, <1>8, <1>9, <2>2, <2>3
<1> HIDE DEF best, added
<1>11. IsFiniteSet(open) /\ \A p \in open : Listed(p[2], at[t])
  <2> DEFINE more == {p \in new : \/ Cardinality(best) < EfConstruction \/ p[1] <= LowerBound(best)}
  <2>1. IsFiniteSet(more) /\ more \subseteq new
    BY <1>2, FS_Subset
  <2>2. open = (cand[t] \ {c}) \cup more
    OBVIOUS
  <2> HIDE DEF more, open
  <2>3. IsFiniteSet(open)
    BY <1>8, <2>1, <2>2, FS_Union
  <2> QED BY <1>2, <1>8, <2>1, <2>2, <2>3
<1> HIDE DEF open
<1>12. pc'[t] = "search" /\ at'[t] = at[t] /\ obj'[t] = obj[t] /\ top'[t] = best /\ cand'[t] = open
  BY <1>0, <1>3 DEF Walk, Set1, Types, ThreadTypes, WalkTypes
<1>13. PICK l \in Levels, o \in Ids \cup {None} : l = at[t] /\ o = obj[t]
  BY <1>0, <1>6, BusyIs
<1>14. \A j : Listed(j, at[t])' <=> Listed(j, l)'
  BY <1>12, <1>13 DEF Listed, Reached
<1>15. Found(cand[t], at[t])' /\ Found(top[t], at[t])'
  BY <1>1, <1>10, <1>11, <1>12, <1>13, <1>14 DEF Found
<1>16. Present(obj[t])'
  <2>1. Present(o)'
    BY <1>1, <1>5, <1>13
  <2> QED BY <1>12, <1>13, <2>1 DEF Present, LockFree
<1> QED
  BY <1>1, <1>3, <1>5, <1>12, <1>15, <1>16 DEF WalkInv

\* The neighbours that a thread selects are in the graph on the level, and others than
\* its own element.
LEMMA SelectWalks ==
    ASSUME IInv, NEW t \in Threads, Select(t)
    PROVE  WalkInv(t)'
<1>0. Types /\ WalkInv(t) /\ Step(t) /\ Busy(t) /\ pc[t] = "search" /\ SearchStops(t) /\ Chosen(t) # {}
  BY DEF IInv, Step, Select, Busy
<1>1. /\ \A j, l : l \in Levels /\ Listed(j, l) => Listed(j, l)'
      /\ level' = level
  BY <1>0, StepKeepsListed
<1>2. /\ Chosen(t) \subseteq Nat \X Ids
      /\ \A p \in Chosen(t) : Listed(p[2], at[t]) /\ p[2] # job[t].id
  BY <1>0, ChosenIs
<1>3. Closest(Chosen(t)) \in Chosen(t)
  BY <1>0, <1>2, ClosestIs
<1>4. /\ pc'[t] = "connect" /\ rest'[t] = IdsOf(Chosen(t)) /\ obj'[t] = Closest(Chosen(t))[2]
      /\ job' = job /\ at' = at
  BY <1>0 DEF Select, Set1, Types, ThreadTypes, WalkTypes
<1>5. PICK l \in Levels : l = at[t]
  BY <1>0, BusyIs
<1>6. \A j : Listed(j, at[t])' <=> Listed(j, l)'
  BY <1>4, <1>5 DEF Listed, Reached
<1>7. \A j \in IdsOf(Chosen(t)) : Listed(j, at[t])' /\ j # job[t].id
  BY <1>1, <1>2, <1>5, <1>6 DEF IdsOf
<1>8. IdsOf(Chosen(t)) # {} /\ Closest(Chosen(t))[2] \in IdsOf(Chosen(t))
  BY <1>3 DEF IdsOf
<1>9. at[t] <= level[job[t].id] /\ at[t] <= job[t].max
  BY <1>0 DEF WalkInv
<1> QED
  BY <1>1, <1>4, <1>7, <1>8, <1>9 DEF WalkInv

\* A thread that connects its element goes on with the neighbours left, or to the next
\* level with one that it has connected.
LEMMA ConnectWalks ==
    ASSUME IInv, NEW t \in Threads, Connect(t)
    PROVE  WalkInv(t)'
<1> DEFINE n == Furthest({Pair(Query(t), j) : j \in rest[t]})[2]
<1>0. Types /\ WalkInv(t) /\ Step(t) /\ Busy(t) /\ pc[t] = "connect"
  BY DEF IInv, Step, Connect, Busy
<1>1. /\ \A j, l : l \in Levels /\ Listed(j, l) => Listed(j, l)'
      /\ \A j : Present(j) => Present(j)'
      /\ level' = level
  BY <1>0, StepKeepsListed
<1>2. n \in rest[t] /\ n \in Stored
  BY <1>0, NeighbourIs
<1>3. /\ LockFree(n)
      /\ IF rest[t] = {n} THEN Onward(t, obj[t])
         ELSE rest' = Set1(rest, t, rest[t] \ {n}) /\ UNCHANGED <<pc, job, walkVars, hop>>
  BY DEF Connect
<1> HIDE DEF n
<1>4. /\ at[t] <= level[job[t].id] /\ at[t] <= job[t].max
      /\ rest[t] # {} /\ \A j \in rest[t] : Listed(j, at[t]) /\ j # job[t].id
      /\ obj[t] \in rest[t] \/ Present(obj[t])
  BY <1>0 DEF WalkInv
<1>5. obj[t] = n => Present(obj[t])
  BY <1>2, <1>3 DEF Present
<1>6. PICK l \in Levels, o \in Ids \cup {None} : o = obj[t] /\ l = at[t]
  BY <1>0, BusyIs
<1>7. CASE rest[t] = {n}
  <2>1. Present(o)'
    BY <1>1, <1>4, <1>5, <1>6, <1>7
  <2>2. Onward(t, o)
    BY <1>3, <1>6, <1>7
  <2> QED BY <1>0, <1>1, <1>4, <2>1, <2>2, OnwardWalks
<1>8. CASE rest[t] # {n}
  <2>1. pc'[t] = "connect" /\ job' = job /\ at' = at /\ obj' = obj /\ rest'[t] = rest[t] \ {n}
    BY <1>0, <1>3, <1>8 DEF walkVars, Set1, Types, ThreadTypes
  <2>2. rest'[t] # {}
    BY <1>2, <1>8, <2>1
  <2>3. \A j : Listed(j, at[t])' <=> Listed(j, l)'
    BY <1>6, <2>1 DEF Listed, Reached
  <2>4. \A j \in rest'[t] : Listed(j, at[t])' /\ j # job[t].id
    BY <1>1, <1>4, <1>6, <2>1, <2>3
  <2>5. obj[t] \in rest'[t] \/ Present(o)
    BY <1>4, <1>5, <1>6, <2>1
  <2>6. obj[t] \in rest'[t] \/ Present(obj[t])'
    <3>1. Present(o)' <=> Present(obj[t])'
      BY <1>6, <2>1 DEF Present, LockFree
    <3> QED BY <1>1, <2>5, <3>1
  <2> QED BY <1>1, <1>4, <2>1, <2>2, <2>4, <2>6 DEF WalkInv
<1> QED
  BY <1>7, <1>8

\* The walk of an update along the links that its element has.
LEMMA UpdateWalks ==
    ASSUME IInv, NEW t \in Threads, ReadNeighbours(t) \/ \E n \in Ids : ReadHop(t, n) \/ Rewrite(t, n)
    PROVE  WalkInv(t)'
<1>0. Types /\ WalkInv(t) /\ Step(t) /\ Busy(t) /\ job[t].update /\ job' = job
      /\ pc[t] \in {"neighbours", "hops", "rewrite"}
  <2>1. pc[t] \in {"neighbours", "hops", "rewrite"} /\ Step(t) /\ job' = job
    BY DEF Step, ReadNeighbours, ReadHop, Rewrite
  <2>2. Busy(t) /\ pc[t] \notin InsertSteps
    BY <2>1 DEF Busy, InsertSteps
  <2>3. Types /\ WalkInv(t) /\ JobInv(t)
    BY DEF IInv
  <2> QED BY <2>1, <2>2, <2>3 DEF JobInv
<1>1. /\ \A j, l : l \in Levels /\ Listed(j, l) => Listed(j, l)'
      /\ level' = level /\ Grows
  BY <1>0, StepKeepsListed
<1>2. PICK l \in Levels : l = at[t]
  BY <1>0, BusyIs
<1>3. DOMAIN pc = Threads /\ at \in [Threads -> Levels] /\ DOMAIN seen = Threads /\ DOMAIN hop = Threads
      /\ DOMAIN rest = Threads
  BY <1>0 DEF Types, ThreadTypes, WalkTypes
<1>4. at'[t] = at[t] => \A j : Listed(j, at[t])' <=> Listed(j, l)'
  BY <1>2 DEF Listed, Reached
<1>5. at[t] <= level[job[t].id]
  BY <1>0 DEF WalkInv
<1>6. pc[t] \in {"hops", "rewrite"} =>
          /\ \A j \in seen[t] : Listed(j, l)
          /\ \A j \in hop[t] \cup rest[t] : Listed(j, l) /\ j # job[t].id
          /\ hop[t] # {} /\ rest[t] # {}
  BY <1>0, <1>2 DEF WalkInv
<1>7. CASE ReadNeighbours(t)
  <2> DEFINE i == job[t].id
             S == links[i][at[t]]
  <2>0. pc[t] = "neighbours"
    BY <1>7 DEF ReadNeighbours
  <2>1. CASE S = {}
    <3>1. NextLayer(t)
      BY <1>7, <2>1 DEF ReadNeighbours
    <3> QED BY <1>0, <1>1, <2>0, <3>1, NextLayerWalks
  <2>2. CASE S # {}
    <3>1. i \in Ids
      BY <1>0, BusyIs
    <3>2. \A j \in S : j # i /\ Listed(j, l)
      BY <1>2, <3>1, LinksIs
    <3>3. Listed(i, l)
      BY <1>0, <1>2, <1>5, OwnListed
    <3>4. /\ pc'[t] = "hops" /\ hop'[t] = S /\ rest'[t] = S /\ seen'[t] = S \cup {i} /\ at'[t] = at[t]
      BY <1>3, <1>7, <2>2 DEF ReadNeighbours, Walk, Set1
    <3> HIDE DEF S
    <3>5. /\ \A j \in seen'[t] : Listed(j, at[t])'
          /\ \A j \in hop'[t] \cup rest'[t] : Listed(j, at[t])' /\ j # i
      BY <1>1, <1>4, <3>2, <3>3, <3>4
    <3> QED BY <1>0, <1>1, <1>5, <2>2, <3>4, <3>5 DEF WalkInv
  <2> QED BY <2>1, <2>2
<1>8. ASSUME NEW n \in Ids, ReadHop(t, n) PROVE WalkInv(t)'
  <2>1. pc[t] = "hops" /\ n \in rest[t] /\ at' = at /\ hop' = hop
        /\ seen'[t] = seen[t] \cup links[n][at[t]]
    BY <1>3, <1>8 DEF ReadHop, Set1
  <2>2. \/ pc'[t] = "rewrite" /\ rest'[t] = hop[t]
        \/ pc'[t] = "hops" /\ rest'[t] = rest[t] \ {n} /\ rest[t] # {n}
    BY <1>3, <1>8 DEF ReadHop, Set1
  <2>3. \A j \in links[n][at[t]] : Listed(j, l)
    BY <1>2, LinksIs
  <2>4. \A j \in seen'[t] : Listed(j, at[t])'
    BY <1>1, <1>4, <1>6, <2>1, <2>3
  <2>5. rest'[t] \subseteq hop[t] \cup rest[t] /\ rest'[t] # {}
    BY <1>6, <2>1, <2>2
  <2>6. \A j \in hop'[t] \cup rest'[t] : Listed(j, at[t])' /\ j # job[t].id
    BY <1>1, <1>4, <1>6, <2>1, <2>5
  <2> QED BY <1>0, <1>1, <1>5, <1>6, <2>1, <2>2, <2>4, <2>5, <2>6 DEF WalkInv
<1>9. ASSUME NEW n \in Ids, Rewrite(t, n) PROVE WalkInv(t)'
  <2>0. pc[t] = "rewrite"
    BY <1>9 DEF Rewrite
  <2>1. CASE rest[t] = {n}
    <3>1. NextLayer(t)
      BY <1>9, <2>1 DEF Rewrite
    <3> QED BY <1>0, <1>1, <2>0, <3>1, NextLayerWalks
  <2>2. CASE rest[t] # {n}
    <3>1. pc' = pc /\ at' = at /\ seen' = seen /\ hop' = hop /\ rest'[t] = rest[t] \ {n} /\ n \in rest[t]
      BY <1>3, <1>9, <2>2 DEF Rewrite, walkVars, Set1
    <3>2. \A j \in seen'[t] : Listed(j, at[t])'
      BY <1>1, <1>4, <1>6, <2>0, <3>1
    <3>3. rest'[t] # {} /\ \A j \in hop'[t] \cup rest'[t] : Listed(j, at[t])' /\ j # job[t].id
      BY <1>1, <1>4, <1>6, <2>0, <2>2, <3>1
    <3> QED BY <1>0, <1>1, <1>5, <1>6, <2>0, <3>1, <3>2, <3>3 DEF WalkInv
  <2> QED BY <2>1, <2>2
<1> QED
  BY <1>7, <1>8, <1>9

\* The walk of an update begins at level 0, and the copies it takes do not change that.
LEMMA CopyWalks ==
    ASSUME IInv, NEW t \in Threads, CopyMaxLevel(t) \/ CopyEntry(t)
    PROVE  WalkInv(t)'
<1>0. Types /\ WalkInv(t) /\ Busy(t) /\ pc[t] = "copy"
  BY DEF IInv, CopyMaxLevel, CopyEntry, Busy
<1>1. at[t] = 0 /\ level[job[t].id] \in Nat
  BY <1>0, BusyIs, NumbersAre DEF WalkInv
<1>2. CASE Return(t)
  BY <1>0, <1>2, ReturnWalks
<1>3. CASE ~Return(t)
  <2>1. PICK m, e : Copy(t, m, e)
    BY DEF CopyMaxLevel, CopyEntry
  <2>2. /\ pc'[t] \in {"copy", "neighbours"} /\ at'[t] = at[t]
        /\ job'[t] = [[job[t] EXCEPT !.max = m] EXCEPT !.entry = e]
    BY <1>0, <1>3, <2>1 DEF Copy, walkVars, Set1, Types, ThreadTypes
  <2>3. job'[t].id = job[t].id
    BY <1>0, <2>2 DEF Types, ThreadTypes, JobType
  <2>4. level' = level
    BY <2>1 DEF Copy, graphVars
  <2> QED BY <1>1, <2>2, <2>3, <2>4 DEF WalkInv
<1> QED
  BY <1>2, <1>3

\* A thread that reads the entry point begins its descent there, or leaves.
LEMMA ReadEntryWalks ==
    ASSUME IInv, NEW t \in Threads, ReadEntry(t)
    PROVE  WalkInv(t)'
<1>0. Types /\ Step(t) /\ Busy(t) /\ pc[t] = "entry" /\ enterpoint_node_ # None
  BY DEF IInv, Step, ReadEntry, Busy
<1>1. /\ \A j : Present(j) => Present(j)'
      /\ level' = level
  BY <1>0, StepKeepsListed
<1> DEFINE low == LowerOf(level[job[t].id], job[t].max)
<1>2. /\ enterpoint_node_ \in Stored /\ Present(enterpoint_node_)
      /\ job[t].max \in Levels /\ low \in Levels
  BY <1>0, EntryIs
<1>3. PICK o \in Stored : o = enterpoint_node_
  BY <1>2
<1>4. StartDescent(t, o, job[t].max, low) /\ Present(o)'
  BY <1>1, <1>2, <1>3 DEF ReadEntry
<1>5. job'[t].id = job[t].id /\ job'[t].max = job[t].max
  BY <1>0 DEF ReadEntry, Types, ThreadTypes, JobType
<1>6. job[t].max \in Int /\ level[job[t].id] \in Int
  BY <1>0, <1>2, BusyIs, NumbersAre
<1>7. IF job[t].max > low THEN level'[job'[t].id] < job[t].max /\ job[t].max <= job'[t].max
      ELSE low <= level'[job'[t].id] /\ low <= job'[t].max
  BY <1>1, <1>5, <1>6 DEF LowerOf
<1> HIDE DEF low
<1> QED
  BY <1>0, <1>2, <1>4, <1>7, DescentBegins

\* Where a thread has got to after its step, and what it has found there, is sound.
LEMMA StepKeepsOwnWalk ==
    ASSUME IInv, NEW t \in Threads, Step(t)
    PROVE  WalkInv(t)'
<1>0. Types /\ WalkInv(t)
  BY DEF IInv
<1>1. CASE TakeGlobal(t)
  <2>1. pc'[t] = "entry"
    BY <1>1, TakeGlobalIs
  <2> QED BY <2>1 DEF WalkInv
<1>2. CASE FirstElement(t) \/ Publish(t)
  BY <1>0, <1>2, ReturnWalks DEF FirstElement, Publish
<1>3. CASE ReadsBeyond(t)
  <2>1. Grows /\ count' = count /\ level' = level
    BY StepKeepsListed
  <2>2. Kept(t)
    BY <1>3 DEF ReadsBeyond, Kept, WalkKept, walkVars
  <2> QED BY <2>1, <2>2, KeptWalks
<1>4. CASE SkipLevel(t)
  <2>1. pc[t] = "search" /\ Onward(t, obj[t]) /\ Busy(t)
    BY <1>4 DEF SkipLevel, Busy
  <2>2. at[t] <= level[job[t].id] /\ at[t] <= job[t].max /\ Present(obj[t])
    BY <1>0, <2>1 DEF WalkInv
  <2>3. PICK o : o = obj[t]
    OBVIOUS
  <2>4. Present(o)' /\ level' = level /\ Onward(t, o)
    BY <2>1, <2>2, <2>3, StepKeepsListed
  <2> QED BY <2>1, <2>2, <2>4, OnwardWalks
<1> QED
  BY <1>1, <1>2, <1>3, <1>4, ReadEntryWalks, DescendWalks, ExpandWalks, SelectWalks, ConnectWalks,
     CopyWalks, UpdateWalks DEF Step

-----------------------------------------------------------------------------
(* The beginning of addPoint, and the marks.                                *)

\* Nothing that a thread knows changes when another one begins.
LEMMA KeptJobs ==
    ASSUME IInv, Grows, NEW u \in Threads, Kept(u), entryVars' = entryVars,
           Busy(u) => deleted' \subseteq deleted
    PROVE  JobInv(u)'
<1>0. JobInv(u)
  BY DEF IInv
<1>1. /\ pc'[u] = pc[u] /\ job'[u] = job[u] /\ global' = global /\ maxlevel_' = maxlevel_
      /\ enterpoint_node_' = enterpoint_node_
  BY DEF Kept, entryVars
<1>2. job[u].entry # None => Present(job[u].entry)' /\ level'[job[u].entry] = level[job[u].entry]
  <2> SUFFICES ASSUME job[u].entry # None
               PROVE  Present(job[u].entry)' /\ level'[job[u].entry] = level[job[u].entry]
    OBVIOUS
  <2>1. PICK e \in Stored : e = job[u].entry /\ Present(e)
    BY <1>0 DEF JobInv, Present
  <2>2. Present(e)' /\ level'[e] = level[e]
    BY <2>1 DEF Grows
  <2> QED BY <1>1, <2>1, <2>2 DEF Present, LockFree
<1>3. Busy(u) => /\ job[u].id \in Stored /\ level'[job[u].id] = level[job[u].id]
                 /\ job[u].id \in Stored' \ deleted'
  BY <1>0, BusyIs DEF Grows
<1>4. (Busy(u)' <=> Busy(u)) /\ (Inserting(u)' <=> Inserting(u))
  BY <1>1 DEF Busy, Inserting
<1>5. Busy(u) => IF job[u].update THEN pc[u] \in UpdateSteps ELSE pc[u] \in InsertSteps
  BY <1>0 DEF JobInv
<1>6. Inserting(u) /\ pc[u] # "global" =>
          job[u].max <= maxlevel_ /\ (global = u <=> level'[job[u].id] > job[u].max)
  BY <1>0, <1>3 DEF JobInv, Inserting
<1>7. Inserting(u) /\ pc[u] \in {"descend", "search", "connect"} =>
          job[u].entry # None /\ job[u].max # None /\ job[u].max <= level'[job[u].entry]
  BY <1>0, <1>2 DEF JobInv
<1>8. Busy(u) /\ job[u].update =>
          /\ job[u].max # None => level'[job[u].id] <= job[u].max
          /\ pc[u] # "copy" => job[u].max # None /\ job[u].entry # None
          /\ deleted' # {} => job[u].max \in {None, maxlevel_} /\ job[u].entry \in {None, enterpoint_node_}
  BY <1>0, <1>3 DEF JobInv
<1>9. pc[u] = "publish" => level'[job[u].id] > job[u].max
  BY <1>0, <1>3 DEF JobInv, Busy
<1> QED
  BY <1>1, <1>2, <1>3, <1>4, <1>5, <1>6, <1>7, <1>8, <1>9 DEF JobInv

\* The entry point is sound after a step that leaves it alone and the threads that
\* insert, one that begins apart.
LEMMA KeptEntry ==
    ASSUME IInv, Grows, entryVars' = entryVars,
           \A u \in Threads : Inserting(u) => Inserting(u)' /\ pc'[u] = pc[u] /\ job'[u] = job[u],
           \A i \in Stored' \ Stored :
               \E u \in Threads : Inserting(u)' /\ job'[u].id = i /\ pc'[u] = "global"
    PROVE  EntryInv'
<1>0. EntryInv
  BY DEF IInv
<1>1. global' = global /\ maxlevel_' = maxlevel_ /\ enterpoint_node_' = enterpoint_node_
  BY DEF entryVars
<1>2. \/ enterpoint_node_' = None /\ maxlevel_' = None
      \/ Present(enterpoint_node_)' /\ maxlevel_' = level'[enterpoint_node_']
  <2>1. CASE enterpoint_node_ = None /\ maxlevel_ = None
    BY <1>1, <2>1
  <2>2. CASE Present(enterpoint_node_) /\ maxlevel_ = level[enterpoint_node_]
    <3>1. PICK e \in Stored : e = enterpoint_node_ /\ Present(e)
      BY <2>2 DEF Present
    <3>2. Present(e)' /\ level'[e] = level[e]
      BY <3>1 DEF Grows
    <3> QED BY <1>1, <2>2, <3>1, <3>2 DEF Present, LockFree
  <2> QED BY <1>0, <2>1, <2>2 DEF EntryInv
<1>3. /\ global' \in Threads \cup {None}
      /\ global' # None => Inserting(global)' /\ pc'[global'] # "global" /\ job'[global'].max = maxlevel_'
  <2>1. global \in Threads \cup {None}
    BY <1>0 DEF EntryInv
  <2>2. ASSUME global # None
        PROVE  Inserting(global)' /\ pc'[global'] # "global" /\ job'[global'].max = maxlevel_'
    <3>1. PICK g \in Threads : g = global
      BY <2>1, <2>2
    <3>2. Inserting(g) /\ pc[g] # "global" /\ job[g].max = maxlevel_
      BY <1>0, <2>2, <3>1 DEF EntryInv
    <3>3. Inserting(g)' /\ pc'[g] = pc[g] /\ job'[g] = job[g]
      BY <3>2
    <3> QED BY <1>1, <3>1, <3>2, <3>3 DEF Inserting, Busy
  <2> QED BY <1>1, <2>1, <2>2
<1>4. ASSUME NEW i \in Stored'
      PROVE  \/ level'[i] <= maxlevel_'
             \/ \E u \in Threads : Inserting(u)' /\ job'[u].id = i /\ (pc'[u] = "global" \/ global' = u)
  <2>1. CASE i \notin Stored
    BY <2>1
  <2>2. CASE i \in Stored /\ level[i] <= maxlevel_
    BY <1>1, <2>2 DEF Grows
  <2>3. ASSUME NEW u \in Threads, Inserting(u), job[u].id = i, pc[u] = "global" \/ global = u
        PROVE  \E w \in Threads : Inserting(w)' /\ job'[w].id = i /\ (pc'[w] = "global" \/ global' = w)
    <3>1. Inserting(u)' /\ pc'[u] = pc[u] /\ job'[u] = job[u]
      BY <2>3
    <3> QED BY <1>1, <2>3, <3>1
  <2> QED BY <1>0, <2>1, <2>2, <2>3 DEF EntryInv
<1> QED
  BY <1>1, <1>2, <1>3, <1>4 DEF EntryInv

\* There is no circle after a step in which nobody comes to connect, or chooses anew.
LEMMA KeptAcyclic ==
    ASSUME IInv,
           \A u \in Threads : pc'[u] = "connect" => Kept(u)
    PROVE  Acyclic'
<1>1. \A v, w \in Threads : Awaits(v, w)' => Awaits(v, w)
  BY DEF Awaits, Kept, WalkKept, Inserting, Busy
<1> QED
  BY <1>1 DEF IInv, Acyclic

\* What both ways to begin have in common.
LEMMA BeginKeeps ==
    ASSUME IInv, Grows, NEW t \in Threads, ~Busy(t), \A u \in Threads \ {t} : Kept(u),
           entryVars' = entryVars, links' = links, count' \in {count, count + 1}, deleted' \subseteq deleted,
           pc'[t] \in {"global", "copy"},
           job'[t].id \in Stored' \ deleted', job'[t].update = (pc'[t] = "copy"), job'[t].max = None,
           job'[t].entry = None, at'[t] = at[t],
           \A u \in Threads \ {t} : Busy(u) => job[u].id # job'[t].id /\ deleted = {},
           Stored' \ Stored \subseteq {job'[t].id},
           Stored' # Stored => pc'[t] = "global",
           Types'
    PROVE  IInv'
<1>1. ListInv'
  BY ListsKept
<1>2. EntryInv'
  <2>1. \A u \in Threads : Inserting(u) => Inserting(u)' /\ pc'[u] = pc[u] /\ job'[u] = job[u]
    BY DEF Kept, Inserting, Busy
  <2>2. \A i \in Stored' \ Stored :
            \E u \in Threads : Inserting(u)' /\ job'[u].id = i /\ pc'[u] = "global"
    <3> SUFFICES ASSUME NEW i \in Stored' \ Stored
                 PROVE  Inserting(t)' /\ job'[t].id = i /\ pc'[t] = "global"
      OBVIOUS
    <3> QED BY DEF Inserting, Busy
  <2> QED BY <2>1, <2>2, KeptEntry
<1>3. Apart'
  <2> SUFFICES ASSUME NEW u \in Threads, NEW w \in Threads, u # w, Busy(u)', Busy(w)'
               PROVE  job'[u].id # job'[w].id /\ deleted' = {}
    BY DEF Apart
  <2>1. \A x \in Threads \ {t} : job'[x] = job[x] /\ (Busy(x)' <=> Busy(x))
    BY DEF Kept, Busy
  <2> QED BY <2>1 DEF IInv, Apart
<1>4. Acyclic'
  <2>1. \A u \in Threads : pc'[u] = "connect" => Kept(u)
    OBVIOUS
  <2> QED BY <2>1, KeptAcyclic
<1>5. \A u \in Threads \ {t} : JobInv(u)' /\ WalkInv(u)'
  BY KeptJobs, KeptWalks
<1>6. JobInv(t)'
  <2>1. "global" \in InsertSteps /\ "copy" \in UpdateSteps
    BY DEF InsertSteps, UpdateSteps
  <2> QED BY <2>1 DEF JobInv, Inserting, Busy
<1>7. WalkInv(t)'
  <2>1. at[t] = 0
    BY DEF IInv, WalkInv, Busy
  <2> QED BY <2>1 DEF WalkInv
<1> QED
  BY <1>1, <1>2, <1>3, <1>4, <1>5, <1>6, <1>7 DEF IInv

\* A step that only changes elements, vectors, marks and the beginning of one thread
\* keeps what is in the graph.
LEMMA BeginGrows ==
    ASSUME IInv, NEW t \in Threads, \A u \in Threads \ {t} : Kept(u),
           Stored \subseteq Stored', \A j \in Stored : level'[j] = level[j],
           Inserting(t)' => job'[t].id \notin Stored
    PROVE  Grows
<1>1. \A u \in Threads, j \in Stored : Inserting(u)' /\ job'[u].id = j =>
          Inserting(u) /\ job[u].id = j /\ \A l \in Levels : Reached(u, l) => Reached(u, l)'
  BY DEF Kept, WalkKept, Inserting, Busy, Reached
<1>2. \A j \in Stored : LockFree(j) => LockFree(j)'
  BY <1>1 DEF LockFree
<1>3. \A j \in Stored, l \in Levels : Listed(j, l) => Listed(j, l)'
  BY <1>1 DEF Listed
<1> QED
  BY <1>2, <1>3 DEF Grows, Present

\* addPoint of a new label keeps the invariant.
LEMMA AddNewKeeps ==
    ASSUME IInv, NEW t \in Threads, NEW v \in Vectors, NEW h \in Levels, AddNew(t, v, h)
    PROVE  IInv'
<1>0. Types /\ ElementTypes /\ ThreadTypes /\ WalkTypes
  BY DEF IInv, Types
<1>1. /\ ~Busy(t) /\ \A u \in Threads \ {t} : Busy(u) => deleted = {}
      /\ count < MaxElements /\ count' = count + 1
      /\ level' = Set1(level, count, h) /\ vec' = Set1(vec, count, v)
      /\ job' = Set1(job, t, [NoJob EXCEPT !.id = count]) /\ pc' = Set1(pc, t, "global")
      /\ deleted' = deleted /\ links' = links /\ entryVars' = entryVars /\ walkVars' = walkVars
      /\ hop' = hop /\ rest' = rest /\ dropped' = dropped /\ fault' = fault /\ updates' = updates
  BY DEF AddNew, Begins
<1>2. /\ count \in Nat /\ MaxElements \in Nat /\ count \in Ids /\ Stored' = Stored \cup {count}
      /\ count \notin Stored /\ count' \in 0 .. MaxElements
  BY <1>0, <1>1, StoredIds, GraphAssumption DEF Ids, Stored
<1>3. /\ pc'[t] = "global" /\ job'[t].id = count /\ ~job'[t].update
      /\ job'[t].max = None /\ job'[t].entry = None /\ at' = at
  BY <1>0, <1>1 DEF ThreadTypes, Set1, NoJob, walkVars
<1>4. \A u \in Threads \ {t} : Kept(u)
  BY <1>0, <1>1 DEF Kept, WalkKept, ThreadTypes, Set1, walkVars
<1>5. \A j \in Stored : level'[j] = level[j] /\ vec'[j] = vec[j]
  BY <1>0, <1>1, <1>2, StoredIds DEF ElementTypes, Set1
<1>6. Grows
  BY <1>2, <1>3, <1>4, <1>5, BeginGrows
<1>7. Types'
  <2>1. level' \in [Ids -> Levels] /\ vec' \in [Ids -> Vectors \cup {None}] /\ vec'[count] \in Vectors
    BY <1>0, <1>1, <1>2 DEF ElementTypes, Set1
  <2>2. \A i \in Stored' : vec'[i] \in Vectors
    BY <1>0, <1>2, <1>5, <2>1 DEF ElementTypes
  <2>3. deleted' \subseteq Stored'
    BY <1>0, <1>1, <1>2 DEF ElementTypes
  <2>4. ElementTypes'
    BY <1>0, <1>1, <1>2, <2>1, <2>2, <2>3 DEF ElementTypes
  <2>5. [NoJob EXCEPT !.id = count] \in JobType
    BY <1>2 DEF NoJob, JobType
  <2>6. ThreadTypes'
    BY <1>0, <1>1, <2>5 DEF ThreadTypes, Set1, InsertSteps
  <2>7. WalkTypes'
    BY <1>0, <1>1 DEF WalkTypes, walkVars
  <2> QED BY <2>4, <2>6, <2>7 DEF Types
<1>8. count \in Stored' \ deleted' /\ deleted' \subseteq deleted
  BY <1>0, <1>1, <1>2 DEF ElementTypes
<1>9. \A u \in Threads \ {t} : Busy(u) => job[u].id # job'[t].id /\ deleted = {}
  BY <1>1, <1>2, <1>3, BusyIs
<1>10. Stored' \ Stored \subseteq {job'[t].id}
  BY <1>2, <1>3
<1>11. job'[t].update = (pc'[t] = "copy")
  BY <1>0, <1>1 DEF ThreadTypes, Set1, NoJob
<1> QED
  BY <1>1, <1>3, <1>4, <1>6, <1>7, <1>8, <1>9, <1>10, <1>11, BeginKeeps

\* addPoint of a label that is there keeps the invariant.
LEMMA AddExistingKeeps ==
    ASSUME IInv, NEW t \in Threads, NEW v \in Vectors, NEW i \in Ids, AddExisting(t, i, v)
    PROVE  IInv'
<1>0. Types /\ ElementTypes /\ ThreadTypes /\ WalkTypes
  BY DEF IInv, Types
<1>1. /\ ~Busy(t) /\ \A u \in Threads \ {t} : Busy(u) => job[u].id # i /\ deleted = {}
      /\ i < count /\ updates < MaxUpdates /\ updates' = updates + 1
      /\ vec' = Set1(vec, i, v) /\ deleted' = deleted \ {i}
      /\ job' = Set1(job, t, [NoJob EXCEPT !.id = i, !.update = TRUE]) /\ pc' = Set1(pc, t, "copy")
      /\ count' = count /\ level' = level
      /\ links' = links /\ entryVars' = entryVars /\ walkVars' = walkVars
      /\ hop' = hop /\ rest' = rest /\ dropped' = dropped /\ fault' = fault
  BY DEF AddExisting, Begins
<1>2. i \in Stored /\ Stored' = Stored
  BY <1>0, <1>1, StoredIds, NumbersAre DEF Stored
<1>3. /\ pc'[t] = "copy" /\ job'[t].id = i /\ job'[t].update = TRUE
      /\ job'[t].max = None /\ job'[t].entry = None /\ at' = at
  BY <1>0, <1>1 DEF ThreadTypes, Set1, NoJob, walkVars
<1>4. \A u \in Threads \ {t} : Kept(u)
  BY <1>0, <1>1 DEF Kept, WalkKept, ThreadTypes, Set1, walkVars
<1>5. Grows
  BY <1>1, <1>2, <1>3, <1>4, BeginGrows DEF Inserting
<1>6. Types'
  <2>1. vec' \in [Ids -> Vectors \cup {None}] /\ \A j \in Stored : vec'[j] \in Vectors
    BY <1>0, <1>1 DEF ElementTypes, Set1
  <2>2. deleted' \subseteq Stored'
    BY <1>0, <1>1, <1>2 DEF ElementTypes
  <2>3. updates' \in 0 .. MaxUpdates
    BY <1>0, <1>1, GraphAssumption DEF ElementTypes
  <2>4. ElementTypes'
    BY <1>0, <1>1, <1>2, <2>1, <2>2, <2>3 DEF ElementTypes
  <2>5. [NoJob EXCEPT !.id = i, !.update = TRUE] \in JobType
    BY DEF NoJob, JobType
  <2>6. ThreadTypes'
    BY <1>0, <1>1, <2>5 DEF ThreadTypes, Set1, UpdateSteps
  <2>7. WalkTypes'
    BY <1>0, <1>1 DEF WalkTypes, walkVars
  <2> QED BY <2>4, <2>6, <2>7 DEF Types
<1>7. i \in Stored' \ deleted' /\ deleted' \subseteq deleted
  BY <1>1, <1>2
<1>8. Stored' \ Stored \subseteq {job'[t].id} /\ (job'[t].update = (pc'[t] = "copy"))
  BY <1>2, <1>3
<1> QED
  BY <1>1, <1>2, <1>3, <1>4, <1>5, <1>6, <1>7, <1>8, BeginKeeps

\* markDelete and unmarkDelete keep the invariant: they run alone.
LEMMA MarksKeep ==
    ASSUME IInv, NEW i \in Ids, MarkDelete(i) \/ UnmarkDelete(i)
    PROVE  IInv'
<1>0. Types /\ ElementTypes /\ ThreadTypes /\ WalkTypes
  BY DEF IInv, Types
<1>1. /\ \A t \in Threads : ~Busy(t)
      /\ deleted' \subseteq deleted \cup {i} /\ (i < count \/ i \in deleted)
      /\ UNCHANGED <<count, level, vec, links, entryVars, pc, job, walkVars,
                     hop, rest, dropped, fault, updates>>
  BY DEF MarkDelete, UnmarkDelete
<1>2. i \in Stored /\ Stored' = Stored
  BY <1>0, <1>1, StoredIds, NumbersAre DEF Stored, ElementTypes
<1>3. \A u \in Threads : Kept(u) /\ ~Busy(u)'
  BY <1>1 DEF Kept, WalkKept, walkVars, Busy
<1>4. Types'
  <2>1. deleted' \subseteq Stored'
    BY <1>0, <1>1, <1>2 DEF ElementTypes
  <2>2. ElementTypes'
    BY <1>0, <1>1, <1>2, <2>1 DEF ElementTypes
  <2> QED BY <1>0, <1>1, <2>2 DEF Types, ThreadTypes, WalkTypes, walkVars
<1>5. Grows
  <2>1. \A j \in Stored : LockFree(j) => LockFree(j)'
    BY <1>3 DEF LockFree, Inserting
  <2>2. \A j \in Stored, l \in Levels : Listed(j, l) => Listed(j, l)'
    BY <1>1, <1>2, <1>3 DEF Listed, Inserting
  <2> QED BY <1>1, <1>2, <2>1, <2>2 DEF Grows, Present
<1>6. ListInv'
  BY <1>1, <1>5, ListsKept
<1>7. EntryInv'
  BY <1>1, <1>2, <1>5, KeptEntry DEF Inserting
<1>8. Apart'
  BY <1>3 DEF Apart
<1>9. Acyclic'
  BY <1>3, KeptAcyclic
<1>10. \A u \in Threads : JobInv(u)' /\ WalkInv(u)'
  BY <1>1, <1>3, <1>5, KeptJobs, KeptWalks
<1> QED
  BY <1>4, <1>6, <1>7, <1>8, <1>9, <1>10 DEF IInv

\* Every step inside addPoint keeps the invariant.
LEMMA StepKeepsInv ==
    ASSUME IInv, NEW t \in Threads, Step(t)
    PROVE  IInv'
<1>1. \A u \in Threads : JobInv(u)' /\ WalkInv(u)'
  <2> SUFFICES ASSUME NEW u \in Threads PROVE JobInv(u)' /\ WalkInv(u)'
    OBVIOUS
  <2>1. CASE u = t
    BY <2>1, StepKeepsOwnJob, StepKeepsOwnWalk
  <2>2. CASE u # t
    <3>1. Kept(u) /\ Grows
      BY <2>2, StepKeepsOthers, StepKeepsListed DEF IInv
    <3> QED BY <2>2, <3>1, StepKeepsOtherJobs, KeptWalks
  <2> QED BY <2>1, <2>2
<1> QED
  BY <1>1, StepKeepsTypes, StepKeepsLists, StepKeepsEntry, StepKeepsApart, StepKeepsAcyclic DEF IInv

\* The empty graph satisfies the invariant.
LEMMA InitInv == Init => IInv
<1> SUFFICES ASSUME Init PROVE IInv
  OBVIOUS
<1>1. /\ count = 0 /\ Stored = {} /\ 0 \in Levels /\ NoJob \in JobType
      /\ enterpoint_node_ = None /\ maxlevel_ = None /\ global = None
      /\ \A t \in Threads : pc[t] = "idle" /\ job[t] = NoJob /\ at[t] = 0
      /\ \A i \in Ids, l \in Levels : links[i][l] = {}
  BY NumbersAre DEF Init, Stored, NoJob, JobType
<1>2. ElementTypes
  <2>1. count \in 0 .. MaxElements /\ updates \in 0 .. MaxUpdates
    BY <1>1, GraphAssumption DEF Init
  <2>2. level \in [Ids -> Levels] /\ vec \in [Ids -> Vectors \cup {None}]
    BY <1>1 DEF Init
  <2>3. links \in [Ids -> [Levels -> SUBSET Ids]]
    BY DEF Init
  <2>4. deleted \subseteq Stored /\ fault \in BOOLEAN /\ dropped \subseteq Ids \X Levels
    BY DEF Init
  <2> QED BY <1>1, <2>1, <2>2, <2>3, <2>4 DEF ElementTypes
<1>3. ThreadTypes /\ WalkTypes
  BY <1>1, NumbersAre DEF ThreadTypes, WalkTypes, Init
<1>4. \A t \in Threads : ~Busy(t) /\ ~Inserting(t)
  BY <1>1 DEF Busy, Inserting
<1>5. ListInv
  <2>1. Cardinality({}) = 0
    BY FS_EmptySet
  <2>2. \A l \in Levels : 0 <= MaxLinks(l)
    BY MaxLinksIs
  <2> QED BY <1>1, <2>1, <2>2 DEF ListInv
<1>6. EntryInv
  BY <1>1 DEF EntryInv
<1>7. Apart /\ Acyclic
  BY <1>4 DEF Apart, Acyclic, Awaits
<1>8. \A t \in Threads : JobInv(t) /\ WalkInv(t)
  BY <1>1, <1>4 DEF JobInv, WalkInv, NoJob
<1> QED
  BY <1>2, <1>3, <1>5, <1>6, <1>7, <1>8 DEF IInv, Types

\* Every step of the specification keeps the invariant.
LEMMA NextInv == IInv /\ [Next]_vars => IInv'
<1> SUFFICES ASSUME IInv, [Next]_vars PROVE IInv'
  OBVIOUS
<1>1. CASE Next
  BY <1>1, AddNewKeeps, AddExistingKeeps, StepKeepsInv, MarksKeep DEF Next
<1>2. CASE UNCHANGED vars
  <2>1. UNCHANGED <<count, level, vec, deleted, links, enterpoint_node_, maxlevel_, global, pc, job,
                    at, obj, near, top, cand, seen, hop, rest, dropped, fault, updates>>
    BY <1>2 DEF vars, graphVars, entryVars, walkVars
  <2>2. Types' /\ ListInv' /\ EntryInv' /\ Apart' /\ Acyclic'
    BY <2>1 DEF IInv, Types, ElementTypes, ThreadTypes, WalkTypes, ListInv, EntryInv, Apart, Acyclic,
           Stored, Listed, Present, LockFree, Inserting, Busy, Reached, Awaits
  <2>3. \A u \in Threads : JobInv(u)' /\ WalkInv(u)'
    BY <2>1 DEF IInv, JobInv, WalkInv, Stored, Listed, Present, LockFree, Inserting, Busy, Reached,
           Fresh, Found
  <2> QED BY <2>2, <2>3 DEF IInv
<1> QED
  BY <1>1, <1>2

\* In every state of every behaviour, for any number of threads, elements and levels:
\* the lists, the entry point, and what each thread knows of both are as IInv says.
THEOREM InductiveInvariant == Spec => []IInv
  BY InitInv, NextInv, PTL DEF Spec

-----------------------------------------------------------------------------
(* What follows.                                                            *)

\* The graph is sound in every state: types, the length of each list, no link to the
\* own element, to no element or to one without a list on the level, and an entry
\* point on the highest level whenever nobody is raising it.
THEOREM GraphSoundHolds == Spec => []GraphSound
<1>1. ASSUME IInv PROVE GraphSound
  <2>0. Types /\ ElementTypes /\ EntryInv
    BY <1>1 DEF IInv, Types
  <2>1. Stored \subseteq Ids /\ count \in Nat
    BY <2>0, StoredIds
  <2>2. TypeOK
    <3>1. maxlevel_ \in Levels \cup {None} /\ enterpoint_node_ \in Ids \cup {None}
      BY <1>1, MaxLevelIs
    <3> QED BY <2>0, <2>1, <3>1 DEF TypeOK, ElementTypes, EntryInv
  <2>3. \A i \in Ids, l \in Levels :
            /\ Cardinality(links[i][l]) <= MaxLinks(l)
            /\ \A j \in links[i][l] : j # i /\ j < count /\ l <= level[j] /\ l <= level[i]
    <3> SUFFICES ASSUME NEW i \in Ids, NEW l \in Levels
                 PROVE  /\ Cardinality(links[i][l]) <= MaxLinks(l)
                        /\ \A j \in links[i][l] : j # i /\ j < count /\ l <= level[j] /\ l <= level[i]
      OBVIOUS
    <3>1. /\ Cardinality(links[i][l]) <= MaxLinks(l)
          /\ \A j \in links[i][l] : j # i /\ Listed(j, l) /\ l <= level[i]
      BY <1>1, LinksIs
    <3> QED BY <2>1, <3>1 DEF Listed, Stored
  <2>4. ASSUME global = None, enterpoint_node_ # None
        PROVE  /\ maxlevel_ = level[enterpoint_node_]
               /\ \A i \in 0 .. count - 1 :
                     (\A t \in Threads : job[t].id = i => pc[t] # "global") => level[i] <= maxlevel_
    <3>1. maxlevel_ = level[enterpoint_node_]
      BY <2>0, <2>4 DEF EntryInv
    <3>2. \A t \in Threads : global # t
      BY <2>4, GraphAssumption
    <3> QED BY <2>0, <3>1, <3>2 DEF EntryInv, Stored
  <2> QED BY <2>2, <2>3, <2>4 DEF GraphSound
<1> QED
  BY <1>1, InductiveInvariant, PTL

\* An inserting thread that is past the mutex of the maximum level and cannot go on
\* waits for one that is further down.
LEMMA WaitsForDeeper ==
    ASSUME IInv, NEW u \in Threads, Inserting(u), Wanted(u) # {},
           \A i \in Wanted(u) : ~LockFree(i)
    PROVE  \E w \in Threads :
              /\ Inserting(w)
              /\ pc[w] = "publish" \/ pc[w] \in {"search", "connect"}
              /\ pc[w] # "publish" =>
                    \/ at[w] < at[u]
                    \/ at[w] = at[u] /\ pc[w] = "connect" /\ (pc[u] = "connect" => Awaits(u, w))
<1>0. Types /\ WalkInv(u) /\ JobInv(u) /\ Busy(u)
  BY DEF IInv, Inserting
<1>1. pc[u] \in {"descend", "search", "connect"}
  <2>1. pc[u] \in InsertSteps
    BY <1>0 DEF JobInv, Inserting
  <2> QED BY <2>1 DEF InsertSteps, Wanted
<1>2. PICK i \in Wanted(u) : Listed(i, at[u]) /\ (pc[u] = "connect" => i \in rest[u])
  <2>1. CASE pc[u] = "descend"
    <3>1. Wanted(u) = {obj[u]}
      BY <2>1 DEF Wanted
    <3> QED BY <1>0, <2>1, <3>1 DEF WalkInv, Present
  <2>2. CASE pc[u] = "search"
    <3>1. ~SearchStops(u) /\ Wanted(u) = {Closest(cand[u])[2]}
      BY <2>2 DEF Wanted
    <3>2. Listed(Closest(cand[u])[2], at[u]) \/ Closest(cand[u])[2] = obj[u]
      BY <1>0, <2>2, <3>1, CandidateIs
    <3>3. Present(obj[u])
      BY <1>0, <2>2 DEF WalkInv
    <3>4. Listed(Closest(cand[u])[2], at[u])
      BY <3>1, <3>2, <3>3 DEF Present
    <3> QED BY <2>2, <3>1, <3>4
  <2>3. CASE pc[u] = "connect"
    <3> DEFINE n == Furthest({Pair(Query(u), j) : j \in rest[u]})[2]
    <3>1. Wanted(u) = {n}
      BY <2>3 DEF Wanted
    <3>2. n \in rest[u] /\ Listed(n, at[u])
      BY <2>3, NeighbourIs
    <3> HIDE DEF n
    <3> QED BY <3>1, <3>2
  <2> QED BY <1>1, <2>1, <2>2, <2>3
<1>3. PICK w \in Threads : Inserting(w) /\ job[w].id = i
  BY <1>2 DEF LockFree
<1>4. Reached(w, at[u])
  BY <1>2, <1>3 DEF Listed
<1>5. CASE pc[w] = "publish"
  BY <1>3, <1>5
<1>6. CASE pc[w] \in {"search", "connect"} /\ at[w] < at[u]
  BY <1>3, <1>6
<1>7. CASE pc[w] = "connect" /\ at[w] = at[u]
  <2>1. pc[u] = "connect" => Awaits(u, w)
    BY <1>2, <1>3, <1>7 DEF Awaits
  <2> QED BY <1>3, <1>7, <2>1
<1> QED
  BY <1>4, <1>5, <1>6, <1>7 DEF Reached

\* The mutexes of link lists and maximum level are never waited for in a circle, by
\* however many threads: while threads are in addPoint, one of them can go on.
THEOREM NoCircleHolds == Spec => []NoCircle
<1>1. ASSUME IInv PROVE NoCircle
  <2>0. Types /\ EntryInv /\ Acyclic
    BY <1>1 DEF IInv
  <2>1. SUFFICES ASSUME ~AllIdle, \A t \in Threads : Busy(t) => Waits(t) PROVE FALSE
    BY DEF NoCircle
  <2>2. \A u \in Threads : Inserting(u) /\ pc[u] # "global" =>
            Wanted(u) # {} /\ \A i \in Wanted(u) : ~LockFree(i)
    BY <2>1 DEF Waits, Inserting
  <2>3. \A u \in Threads : pc[u] = "publish" => ~Inserting(u)
    <3>1. \A u \in Threads : pc[u] = "publish" => Wanted(u) = {}
      BY DEF Wanted
    <3> QED BY <2>2, <3>1
  <2> DEFINE D == {w \in Threads : Inserting(w) /\ pc[w] \in {"search", "connect"}}
  <2>4. ASSUME NEW u \in Threads, Inserting(u), pc[u] # "global"
        PROVE  \E w \in D : \/ at[w] < at[u]
                            \/ at[w] = at[u] /\ pc[w] = "connect" /\ (pc[u] = "connect" => Awaits(u, w))
    <3>1. Wanted(u) # {} /\ \A i \in Wanted(u) : ~LockFree(i)
      BY <2>2, <2>4
    <3>2. PICK w \in Threads :
              /\ Inserting(w)
              /\ pc[w] = "publish" \/ pc[w] \in {"search", "connect"}
              /\ pc[w] # "publish" =>
                    \/ at[w] < at[u]
                    \/ at[w] = at[u] /\ pc[w] = "connect" /\ (pc[u] = "connect" => Awaits(u, w))
      BY <1>1, <2>4, <3>1, WaitsForDeeper
    <3>3. pc[w] # "publish"
      BY <2>3, <3>2
    <3> QED BY <3>2, <3>3
  <2>5. D # {}
    <3>1. PICK t \in Threads : Busy(t)
      BY <2>1 DEF AllIdle
    <3>2. \E u \in Threads : Inserting(u) /\ pc[u] # "global"
      <4>1. CASE global # None
        BY <2>0, <4>1 DEF EntryInv
      <4>2. CASE global = None
        <5>1. Wanted(t) # {} /\ \A i \in Wanted(t) : ~LockFree(i)
          BY <2>1, <3>1, <4>2 DEF Waits
        <5>2. PICK u \in Threads : Inserting(u)
          BY <5>1 DEF LockFree
        <5>3. Waits(u)
          BY <2>1, <5>2 DEF Inserting
        <5>4. pc[u] # "global"
          <6>1. pc[u] = "global" => Wanted(u) = {}
            BY DEF Wanted
          <6> QED BY <4>2, <5>3, <6>1 DEF Waits
        <5> QED BY <5>2, <5>4
      <4> QED BY <4>1, <4>2
    <3> QED BY <2>4, <3>2
  <2> DEFINE A == {at[w] : w \in D}
  <2>6. A \subseteq Nat /\ A # {} /\ \A w \in D : at[w] \in A /\ at[w] \in Nat
    BY <2>0, <2>5, NumbersAre DEF Types, WalkTypes
  <2>7. PICK a \in A : \A b \in A : a <= b
    <3> HIDE DEF A
    <3> QED BY <2>6, LeastNat
  <2> DEFINE S == {w \in D : at[w] = a /\ pc[w] = "connect"}
  <2>8. ASSUME NEW u \in D, at[u] = a
        PROVE  \E w \in S : pc[u] = "connect" => Awaits(u, w)
    <3>1. PICK w \in D : \/ at[w] < at[u]
                         \/ at[w] = at[u] /\ pc[w] = "connect" /\ (pc[u] = "connect" => Awaits(u, w))
      BY <2>4
    <3>2. ~(at[w] < at[u])
      <4>1. at[w] \in A /\ at[w] \in Nat /\ a \in Nat
        BY <2>6, <2>7
      <4>2. a <= at[w]
        BY <2>7, <4>1
      <4> HIDE DEF A
      <4> QED BY <2>8, <4>1, <4>2
    <3> QED BY <2>8, <3>1, <3>2
  <2>9. S # {} /\ S \subseteq Threads
    <3>1. PICK u \in D : at[u] = a
      BY <2>7
    <3> QED BY <2>8, <3>1
  <2>10. \A v \in S : \E w \in S : Awaits(v, w)
    BY <2>8
  <2> HIDE DEF S
  <2> QED BY <2>0, <2>9, <2>10 DEF Acyclic
<1> QED
  BY <1>1, InductiveInvariant, PTL

-----------------------------------------------------------------------------
(* The graph is in one piece, but for the links that lists gave up.         *)

\* The elements that are in the graph on level l.
Members(l) == {j \in Stored : Listed(j, l)}

\* A link from s to u: it is there, or was given up, or is about to be made.
Joined(s, u, l) ==
    \/ u \in links[s][l] \/ <<u, l>> \in dropped
    \/ \E t \in Threads : /\ pc[t] = "connect" /\ at[t] = l /\ Inserting(t)
                          /\ job[t].id = u /\ s \in rest[t]

\* However level l is divided in two, one part is joined to the other.
OnePiece(l) ==
    \A S \in SUBSET Members(l) : S # {} /\ S # Members(l) =>
        \E s \in S, u \in Members(l) \ S : Joined(s, u, l)

\* A list that gets new contents loses no link without a record of it, and takes in
\* what is offered or records that too.
LEMMA SetLinksIs ==
    ASSUME Types, NEW n \in Ids, NEW h \in Levels, NEW J, NEW S, SetLinks(n, h, J, S)
    PROVE  /\ dropped \subseteq dropped'
           /\ \A s \in Ids, l \in Levels : \A u \in links[s][l] : u \in links'[s][l] \/ <<u, l>> \in dropped'
           /\ \A u \in J : u \in links'[n][h] \/ <<u, h>> \in dropped'
           /\ links'[n][h] = S
<1>1. links \in [Ids -> [Levels -> SUBSET Ids]]
  BY DEF Types, ElementTypes
<1>2. \A s \in Ids, l \in Levels : links'[s][l] = IF s = n /\ l = h THEN S ELSE links[s][l]
  BY <1>1 DEF SetLinks
<1>3. dropped' = dropped \cup {<<j, h>> : j \in (links[n][h] \cup J) \ S}
  BY DEF SetLinks
<1> QED
  BY <1>2, <1>3

\* No step of addPoint loses a link without a record of it.
LEMMA StepKeepsLinks ==
    ASSUME IInv, NEW t \in Threads, Step(t)
    PROVE  /\ dropped \subseteq dropped'
           /\ \A s \in Ids, l \in Levels : \A u \in links[s][l] : u \in links'[s][l] \/ <<u, l>> \in dropped'
<1>0. Types
  BY DEF IInv
<1>1. CASE Select(t)
  <2>1. job[t].id \in Ids /\ at[t] \in Levels
    BY <1>1, BusyIs DEF Select, Busy
  <2> QED BY <1>0, <1>1, <2>1, SetLinksIs DEF Select
<1>2. CASE Connect(t)
  <2> DEFINE n == Furthest({Pair(Query(t), j) : j \in rest[t]})[2]
  <2>1. pc[t] = "connect" /\ Busy(t)
    BY <1>2 DEF Connect, Busy
  <2>2. n \in Ids /\ at[t] \in Levels
    BY <1>0, <2>1, NeighbourIs, BusyIs, StoredIds
  <2>3. SetLinks(n, at[t], {job[t].id}, Linked(n, job[t].id, at[t], job[t].update))
    BY <1>2 DEF Connect
  <2> HIDE DEF n
  <2> QED BY <1>0, <2>2, <2>3, SetLinksIs
<1>3. CASE \E n \in Ids : Rewrite(t, n)
  <2>1. PICK n \in Ids : Rewrite(t, n)
    BY <1>3
  <2>2. at[t] \in Levels
    BY <2>1, BusyIs DEF Rewrite, Busy
  <2> QED BY <1>0, <2>1, <2>2, SetLinksIs DEF Rewrite
<1>4. CASE links' = links /\ dropped' = dropped
  BY <1>4
<1>5. Select(t) \/ Connect(t) \/ (\E n \in Ids : Rewrite(t, n)) \/ (links' = links /\ dropped' = dropped)
  BY DEF Step, TakeGlobal, FirstElement, ReadEntry, Descend, Expand, ReadsBeyond, SkipLevel, Publish,
         CopyMaxLevel, CopyEntry, Copy, ReadNeighbours, ReadHop, graphVars
<1> QED
  BY <1>1, <1>2, <1>3, <1>4, <1>5

\* The link that a thread is about to make is made, or given up, when it comes to it.
LEMMA PendingKept ==
    ASSUME IInv, NEW t \in Threads, Step(t), NEW w \in Threads, NEW s \in Stored, NEW l \in Levels,
           NEW u, pc[w] = "connect", at[w] = l, Inserting(w), job[w].id = u, s \in rest[w]
    PROVE  Joined(s, u, l)'
<1>0. Types
  BY DEF IInv
<1>1. CASE w # t
  <2>1. Kept(w)
    BY <1>0, <1>1, StepKeepsOthers
  <2> QED BY <2>1 DEF Kept, WalkKept, Joined, Inserting, Busy
<1>2. CASE w = t
  <2> DEFINE n == Furthest({Pair(Query(t), j) : j \in rest[t]})[2]
  <2>1. Connect(t)
    BY <1>2 DEF Step, TakeGlobal, FirstElement, ReadEntry, Descend, Expand, ReadsBeyond, Beyond, Select,
                SkipLevel, Publish, CopyMaxLevel, CopyEntry, ReadNeighbours, ReadHop, Rewrite
  <2>2. n \in Ids /\ n \in Stored /\ n \in rest[t]
    BY <1>0, <1>2, NeighbourIs, StoredIds
  <2>3. /\ SetLinks(n, at[t], {job[t].id}, Linked(n, job[t].id, at[t], job[t].update))
        /\ IF rest[t] = {n} THEN Onward(t, obj[t])
           ELSE rest' = Set1(rest, t, rest[t] \ {n}) /\ UNCHANGED <<pc, job, walkVars, hop>>
    BY <2>1 DEF Connect
  <2> HIDE DEF n
  <2>4. CASE s = n
    <3>1. u \in links'[n][l] \/ <<u, l>> \in dropped'
      BY <1>0, <1>2, <2>2, <2>3, SetLinksIs
    <3> QED BY <2>4, <3>1 DEF Joined
  <2>5. CASE s # n
    <3>1. rest'[t] = rest[t] \ {n} /\ pc' = pc /\ job' = job /\ at' = at
      BY <1>0, <1>2, <2>3, <2>5 DEF Types, ThreadTypes, Set1, walkVars
    <3>2. s \in rest'[t] /\ Inserting(t)'
      BY <1>2, <2>5, <3>1 DEF Inserting, Busy
    <3> QED BY <1>2, <3>1, <3>2 DEF Joined
  <2> QED BY <2>4, <2>5
<1> QED
  BY <1>1, <1>2

\* What is joined stays so.
LEMMA JoinedKept ==
    ASSUME IInv, NEW t \in Threads, Step(t), NEW s \in Stored, NEW u \in Stored, NEW l \in Levels,
           Joined(s, u, l)
    PROVE  Joined(s, u, l)'
<1>1. s \in Ids
  BY StoredIds DEF IInv
<1>2. CASE u \in links[s][l] \/ <<u, l>> \in dropped
  BY <1>1, <1>2, StepKeepsLinks DEF Joined
<1>3. CASE \E w \in Threads : /\ pc[w] = "connect" /\ at[w] = l /\ Inserting(w)
                              /\ job[w].id = u /\ s \in rest[w]
  BY <1>3, PendingKept
<1> QED
  BY <1>2, <1>3 DEF Joined

\* Above the maximum there is nobody but the element of the thread that raises it.
LEMMA NobodyAbove ==
    ASSUME IInv, NEW t \in Threads, Inserting(t), pc[t] # "global", global = t,
           NEW l \in Levels, l > maxlevel_, ~Reached(t, l)
    PROVE  Members(l) = {}
<1> SUFFICES ASSUME NEW j \in Stored, Listed(j, l) PROVE FALSE
  BY DEF Members
<1>1. EntryInv /\ level[j] \in Levels
  BY StoredIds DEF IInv, Types, ElementTypes
<1>2. ~(level[j] <= maxlevel_)
  BY <1>1, MaxLevelIs, NumbersAre DEF Listed
<1>3. PICK v \in Threads : Inserting(v) /\ job[v].id = j /\ (pc[v] = "global" \/ global = v)
  BY <1>1, <1>2 DEF EntryInv
<1>4. Reached(v, l)
  BY <1>3 DEF Listed
<1> QED
  BY <1>3, <1>4 DEF Reached

\* An insertion that goes on to a search of the level below the maximum, or of its own
\* highest one, has passed no level but those above the maximum.
LEMMA RaisedOnly ==
    ASSUME IInv, NEW t \in Threads, Inserting(t), pc[t] # "global", NEW l \in Levels, ~Reached(t, l),
           l <= level[job[t].id], l > job[t].max
    PROVE  Members(l) = {}
<1>1. JobInv(t) /\ EntryInv /\ job[t].max \in Int /\ level[job[t].id] \in Int /\ None \notin Threads
  BY BusyIs, NumbersAre, GraphAssumption DEF IInv, Inserting
<1>2. global = t /\ job[t].max = maxlevel_
  <2>1. level[job[t].id] > job[t].max
    BY <1>1, NumbersAre
  <2> QED BY <1>1, <2>1 DEF JobInv, EntryInv
<1> QED
  BY <1>2, NobodyAbove

\* An element comes into the graph on a level when its thread selects its neighbours
\* there, or when nobody else has that level.
LEMMA NewlyListed ==
    ASSUME IInv, NEW t \in Threads, Step(t), NEW j \in Stored, NEW l \in Levels,
           Listed(j, l)', ~Listed(j, l)
    PROVE  /\ j = job[t].id /\ Inserting(t)
           /\ (Select(t) /\ l = at[t]) \/ Members(l) = {}
<1>0. Types /\ JobInv(t) /\ EntryInv /\ level' = level /\ count' = count
  BY StepKeepsElements DEF IInv
<1>1. PICK u \in Threads : Inserting(u) /\ job[u].id = j /\ ~Reached(u, l)
  BY <1>0 DEF Listed
<1>2. u = t
  <2> SUFFICES ASSUME u # t PROVE FALSE
    OBVIOUS
  <2>1. pc'[u] = pc[u] /\ job'[u] = job[u] /\ at'[u] = at[u]
    BY <1>0, StepKeepsOthers DEF Kept, WalkKept
  <2>2. Inserting(u)' /\ job'[u].id = j /\ ~Reached(u, l)'
    BY <1>1, <2>1 DEF Inserting, Busy, Reached
  <2> QED BY <2>2 DEF Listed
<1>3. Inserting(t)' => Reached(t, l)'
  <2>1. Inserting(t)' => job'[t].id = job[t].id
    BY <1>0, StepProgresses DEF Progress, Inserting
  <2> QED BY <1>1, <1>2, <2>1 DEF Listed
<1>4. l <= level[job[t].id] /\ Inserting(t) /\ ~Reached(t, l) /\ job[t].id = j
  BY <1>0, <1>1, <1>2 DEF Listed
<1>5. DOMAIN pc = Threads /\ DOMAIN at = Threads /\ DOMAIN job = Threads /\ job[t] \in JobType
  BY <1>0 DEF Types, ThreadTypes, WalkTypes
<1>6. at[t] \in Int /\ l \in Int /\ l >= 0 /\ level[job[t].id] \in Int /\ job[t].max \in Int
  BY <1>4, BusyIs, NumbersAre DEF Inserting
<1>7. pc[t] \in InsertSteps
  BY <1>0, <1>4 DEF JobInv, Inserting
<1>8. ASSUME pc'[t] = pc[t] \/ pc'[t] \in {"entry", "descend"}, job' = job \/ TakeGlobal(t), at' = at \/ pc'[t] \in {"entry", "descend"}
      PROVE  FALSE
  <2>1. Inserting(t)'
    BY <1>4, <1>8, TakeGlobalIs DEF Inserting, Busy
  <2>2. ~Reached(t, l)'
    BY <1>4, <1>8 DEF Reached
  <2> QED BY <1>3, <2>1, <2>2
<1>9. ASSUME NEW o, NEW h \in Int, h <= level[job[t].id], StartSearch(t, o, h), job'[t].update = job[t].update
      PROVE  h < l
  <2>1. pc'[t] = "search" /\ at'[t] = h
    BY <1>5, <1>9 DEF StartSearch, Walk, Set1
  <2>2. Inserting(t)'
    BY <1>4, <1>9, <2>1 DEF Inserting, Busy
  <2> QED BY <1>3, <2>1, <2>2 DEF Reached
<1>10. CASE TakeGlobal(t)
  <2>1. pc'[t] = "entry"
    BY <1>10, TakeGlobalIs
  <2> QED BY <1>8, <1>10, <2>1
<1>11. CASE FirstElement(t)
  <2>1. pc[t] = "entry" /\ maxlevel_ = None
    BY <1>0, <1>11, NumbersAre, StoredIds DEF FirstElement, EntryInv, Present
  <2>2. job[t].max <= maxlevel_
    BY <1>0, <1>4, <2>1 DEF JobInv
  <2>3. l > job[t].max
    BY <1>6, <2>1, <2>2, NumbersAre
  <2> QED BY <1>1, <1>2, <1>4, <2>1, <2>3, RaisedOnly
<1>12. CASE ReadEntry(t)
  <2> DEFINE h == LowerOf(level[job[t].id], job[t].max)
             e == enterpoint_node_
  <2>1. pc[t] = "entry" /\ StartDescent(t, e, job[t].max, h) /\ job' = [job EXCEPT ![t].entry = e]
    BY <1>12 DEF ReadEntry
  <2>2. job'[t].update = job[t].update /\ job'[t].id = job[t].id
    BY <1>5, <2>1 DEF JobType
  <2>3. h \in Int /\ h <= level[job[t].id] /\ h <= job[t].max /\ (h = job[t].max \/ h = level[job[t].id])
    BY <1>6 DEF LowerOf
  <2>4. CASE job[t].max > h
    <3>1. pc'[t] = "descend"
      BY <1>5, <2>1, <2>4 DEF StartDescent, Set1
    <3>2. Inserting(t)' /\ ~Reached(t, l)'
      BY <1>4, <2>2, <3>1 DEF Inserting, Busy, Reached
    <3> QED BY <1>3, <3>2
  <2>5. CASE ~(job[t].max > h)
    <3>1. StartSearch(t, e, h)
      BY <2>1, <2>5 DEF StartDescent
    <3> HIDE DEF h
    <3>2. h < l
      BY <1>9, <2>2, <2>3, <3>1
    <3>3. l > job[t].max
      BY <1>6, <2>3, <2>5, <3>2
    <3> QED BY <1>1, <1>2, <1>4, <2>1, <3>3, RaisedOnly
  <2> QED BY <2>4, <2>5
<1>13. CASE Descend(t)
  <2> DEFINE o == obj[t]
             best == Closest({<<near[t], o>>} \cup {Pair(Query(t), j1) : j1 \in links[o][at[t]]})
  <2>1. /\ pc[t] = "descend" /\ job' = job
        /\ IF best[1] < near[t]
           THEN Walk(t, at[t], best[2], best[1], {}, {}, {}) /\ UNCHANGED pc
           ELSE StartDescent(t, o, at[t] - 1, level[job[t].id])
    BY <1>13 DEF Descend
  <2> HIDE DEF best, o
  <2>2. pc'[t] # "descend"
    BY <1>8, <2>1
  <2>3. StartDescent(t, o, at[t] - 1, level[job[t].id])
    BY <2>1, <2>2
  <2>4. StartSearch(t, o, level[job[t].id])
    BY <1>5, <2>2, <2>3 DEF StartDescent, Set1
  <2>5. level[job[t].id] < l
    BY <1>6, <1>9, <2>1, <2>4
  <2> QED BY <1>4, <1>6, <2>5
<1>14. CASE Expand(t) \/ ReadsBeyond(t)
  <2>1. pc' = pc /\ job' = job
    BY <1>14 DEF Expand, ReadsBeyond
  <2>2. at' = at
    <3>1. CASE Expand(t)
      <4>1. at' = Set1(at, t, at[t])
        BY <3>1 DEF Expand, Walk
      <4>2. at \in [Threads -> Levels]
        BY <1>0 DEF Types, WalkTypes
      <4> QED BY <4>1, <4>2 DEF Set1
    <3>2. CASE ReadsBeyond(t)
      BY <3>2 DEF ReadsBeyond, walkVars
    <3> QED BY <1>14, <3>1, <3>2
  <2> QED BY <1>8, <2>1, <2>2
<1>15. CASE Select(t)
  <2>1. pc[t] = "search" /\ pc'[t] = "connect" /\ at' = at /\ job' = job
    BY <1>5, <1>15 DEF Select, Set1
  <2>2. Reached(t, l)'
    BY <1>3, <1>4, <2>1 DEF Inserting, Busy
  <2>3. at[t] = l
    BY <1>4, <2>1, <2>2 DEF Reached
  <2> QED BY <1>1, <1>2, <1>15, <2>3
<1>16. CASE Connect(t)
  <2> DEFINE n == Furthest({Pair(Query(t), j1) : j1 \in rest[t]})[2]
  <2>1. /\ pc[t] = "connect"
        /\ IF rest[t] = {n} THEN Onward(t, obj[t])
           ELSE rest' = Set1(rest, t, rest[t] \ {n}) /\ UNCHANGED <<pc, job, walkVars, hop>>
    BY <1>16 DEF Connect
  <2> HIDE DEF n
  <2>2. l < at[t]
    BY <1>4, <1>6, <2>1 DEF Reached
  <2>3. rest[t] = {n}
    BY <1>8, <2>1 DEF walkVars
  <2>4. at[t] > 0
    BY <1>6, <2>2
  <2>5. StartSearch(t, obj[t], at[t] - 1) /\ job' = job
    BY <2>1, <2>3, <2>4 DEF Onward
  <2>6. at[t] <= level[job[t].id]
    BY <2>1 DEF IInv, WalkInv
  <2>7. at[t] - 1 < l
    BY <1>6, <1>9, <2>5, <2>6
  <2> QED BY <1>6, <2>2, <2>7
<1>17. CASE Publish(t)
  BY <1>4, <1>17 DEF Publish, Reached
<1>18. CASE \/ SkipLevel(t) \/ CopyMaxLevel(t) \/ CopyEntry(t) \/ ReadNeighbours(t)
            \/ \E n \in Ids : ReadHop(t, n) \/ Rewrite(t, n)
  BY <1>4, <1>7, <1>18 DEF SkipLevel, CopyMaxLevel, CopyEntry, ReadNeighbours, ReadHop, Rewrite, InsertSteps, Inserting
<1> QED
  BY <1>10, <1>11, <1>12, <1>13, <1>14, <1>15, <1>16, <1>17, <1>18 DEF Step

\* Two parts stay joined when the members are the same, or the new one is alone.
LEMMA PieceKept ==
    ASSUME NEW l \in Levels, OnePiece(l), Members(l)' = Members(l),
           \A s \in Members(l), u \in Members(l) : Joined(s, u, l) => Joined(s, u, l)'
    PROVE  OnePiece(l)'
<1> SUFFICES ASSUME NEW S \in SUBSET Members(l), S # {}, S # Members(l)
             PROVE  \E s \in S, u \in Members(l) \ S : Joined(s, u, l)'
  BY DEF OnePiece
<1>1. PICK s \in S, u \in Members(l) \ S : Joined(s, u, l)
  BY DEF OnePiece
<1> QED
  BY <1>1

\* The new element is joined to the neighbours it got, and they to it.
LEMMA SelectKeepsPiece ==
    ASSUME IInv, NEW t \in Threads, Select(t), Inserting(t), NEW l \in Levels, l = at[t], OnePiece(l)
    PROVE  OnePiece(l)'
<1> PICK i, C : i = job[t].id /\ C = IdsOf(Chosen(t))
  OBVIOUS
<1>0. Types /\ Step(t) /\ Busy(t) /\ pc[t] = "search" /\ SearchStops(t) /\ Chosen(t) # {}
  BY DEF IInv, Step, Select, Busy
<1>1. /\ Grows /\ count' = count /\ level' = level
      /\ \A j, h : h \in Levels /\ Listed(j, h) => Listed(j, h)'
  BY <1>0, StepKeepsListed
<1>2. C # {} /\ \A c \in C : Listed(c, l)
  BY <1>0, ChosenIs DEF IdsOf
<1>3. C # {} /\ C \subseteq Members(l)
  BY <1>2 DEF Members, Listed
<1>4. i \notin Members(l) /\ i \in Ids /\ i \in Stored
  <2>1. ~Reached(t, l)
    BY <1>0, NumbersAre DEF Reached
  <2>2. i \in Ids /\ i \in Stored
    BY <1>0, BusyIs
  <2> QED BY <2>1, <2>2 DEF Members, Listed
<1>5. /\ pc'[t] = "connect" /\ rest'[t] = C /\ at' = at /\ job' = job
      /\ SetLinks(i, l, {}, C)
  BY <1>0 DEF Select, Types, ThreadTypes, Set1
<1>6. links'[i][l] = C
  BY <1>0, <1>4, <1>5, SetLinksIs
<1>7. Inserting(t)'
  BY <1>5 DEF Inserting, Busy
<1>8. \A c \in C : Joined(i, c, l)' /\ Joined(c, i, l)'
  BY <1>5, <1>6, <1>7 DEF Joined
<1>9. Members(l) \subseteq Members(l)' /\ Members(l)' \subseteq Members(l) \cup {i}
  BY <1>0, <1>1, NewlyListed DEF Members, Stored
<1>10. \A s \in Members(l), u \in Members(l) : Joined(s, u, l) => Joined(s, u, l)'
  BY <1>0, JoinedKept DEF Members
<1> SUFFICES ASSUME NEW S \in SUBSET (Members(l)'), S # {}, S # Members(l)'
             PROVE  \E s \in S, u \in Members(l)' \ S : Joined(s, u, l)'
  BY DEF OnePiece
<1> DEFINE A == S \ {i}
<1>11. A \subseteq Members(l)
  BY <1>9
<1>12. CASE A = {}
  <2>1. S = {i}
    BY <1>12
  <2> QED BY <1>3, <1>4, <1>8, <1>9, <2>1
<1>13. CASE A = Members(l)
  <2>1. i \notin S /\ i \in Members(l)'
    BY <1>9, <1>13
  <2>2. PICK c \in C : TRUE
    BY <1>3
  <2>3. c \in S
    BY <1>3, <1>13, <2>2
  <2> QED BY <1>8, <2>1, <2>3
<1>14. CASE A # {} /\ A # Members(l)
  <2>1. PICK s \in A, u \in Members(l) \ A : Joined(s, u, l)
    BY <1>11, <1>14 DEF OnePiece
  <2>2. u \notin S /\ u \in Members(l)' /\ s \in Members(l)
    BY <1>4, <1>9, <1>11, <2>1
  <2> QED BY <1>10, <2>1, <2>2
<1> QED
  BY <1>12, <1>13, <1>14

\* A step of addPoint leaves each level in one piece.
LEMMA StepKeepsPieces ==
    ASSUME IInv, NEW t \in Threads, Step(t), NEW l \in Levels, OnePiece(l)
    PROVE  OnePiece(l)'
<1>1. /\ Grows /\ count' = count /\ level' = level
      /\ \A j, h : h \in Levels /\ Listed(j, h) => Listed(j, h)'
  BY StepKeepsListed
<1>2. Members(l) \subseteq Members(l)' /\ Members(l)' \subseteq Stored
  BY <1>1 DEF Members, Stored
<1>3. \A s \in Members(l), u \in Members(l) : Joined(s, u, l) => Joined(s, u, l)'
  BY JoinedKept DEF Members
<1>4. CASE Members(l)' = Members(l)
  BY <1>3, <1>4, PieceKept
<1>5. CASE Members(l)' # Members(l)
  <2>1. PICK j \in Stored : Listed(j, l)' /\ ~Listed(j, l)
    BY <1>1, <1>2, <1>5 DEF Members, Stored
  <2>2. /\ Inserting(t)
        /\ (Select(t) /\ l = at[t]) \/ Members(l) = {}
    BY <2>1, NewlyListed
  <2>3. CASE Members(l) = {}
    <3>1. Members(l)' \subseteq {job[t].id}
      <4> SUFFICES ASSUME NEW k \in Stored, Listed(k, l)' PROVE k = job[t].id
        BY <1>1 DEF Members, Stored
      <4>1. ~Listed(k, l)
        BY <2>3 DEF Members
      <4> QED BY <4>1, NewlyListed
    <3>2. \A S \in SUBSET (Members(l)') : S = {} \/ S = Members(l)'
      BY <3>1
    <3> QED BY <3>2 DEF OnePiece
  <2>4. CASE Select(t) /\ l = at[t]
    BY <2>2, <2>4, SelectKeepsPiece
  <2> QED BY <2>2, <2>3, <2>4
<1> QED
  BY <1>4, <1>5

\* So does a step that changes neither the links nor who is in the graph.
LEMMA KeptPieces ==
    ASSUME IInv, Grows, links' = links, dropped' = dropped,
           \A u \in Threads : pc[u] = "connect" => Kept(u),
           NEW l \in Levels, \A j : Listed(j, l)' => Listed(j, l), OnePiece(l)
    PROVE  OnePiece(l)'
<1>1. Members(l)' = Members(l)
  BY DEF Members, Grows, Listed
<1>2. \A s, u : Joined(s, u, l) => Joined(s, u, l)'
  BY DEF Joined, Kept, WalkKept, Inserting, Busy
<1> QED
  BY <1>1, <1>2, PieceKept

-----------------------------------------------------------------------------
(* Where a walk may read what is no list, and a search find nobody.         *)

\* An update whose copy of the entry point has no list on its copy of the maximum level.
Torn(t) == job[t].update /\ level[job[t].entry] < job[t].max

OnLevel(t) ==
    pc[t] \in {"descend", "search", "connect"} => at[t] <= level[obj[t]] \/ Torn(t)

\* An insertion has found nobody yet: what it has seen is marked, and leads to nothing
\* else but by its candidates.
MarkedOnly(t) ==
    pc[t] = "search" /\ Inserting(t) /\ top[t] = {} =>
        /\ obj[t] \in seen[t] /\ seen[t] \subseteq deleted
        /\ \A n \in seen[t] : Listed(n, at[t])
        /\ \A n \in seen[t] : n \in IdsOf(cand[t]) \/ links[n][at[t]] \subseteq seen[t]

\* A walk that begins at the copy of the entry point is at a list, unless that is torn.
LEMMA EntryOnLevel ==
    ASSUME IInv', NEW t \in Threads, pc'[t] \in {"descend", "search"}, obj'[t] = job'[t].entry
    PROVE  OnLevel(t)'
<1>1. Busy(t)' /\ JobInv(t)' /\ WalkInv(t)' /\ Types'
  BY DEF IInv, Busy
<1>2. at'[t] <= job'[t].max
  <2>1. CASE pc'[t] = "descend"
    BY <1>1, <2>1 DEF WalkInv
  <2>2. CASE pc'[t] = "search"
    BY <1>1, <2>2 DEF WalkInv
  <2> QED BY <2>1, <2>2
<1>3. /\ at'[t] \in Levels /\ job'[t] \in JobType /\ obj'[t] \in Stored' /\ Stored' \subseteq Ids
      /\ level' \in [Ids -> Levels]
  <2>1. /\ at'[t] \in Levels /\ job'[t] \in JobType /\ level' \in [Ids -> Levels]
        /\ count' \in 0 .. MaxElements
    BY <1>1 DEF Types, ThreadTypes, WalkTypes, ElementTypes
  <2>2. obj'[t] \in Stored'
    BY <1>1 DEF WalkInv, Present, Listed
  <2>3. Stored' \subseteq Ids
    BY <2>1, GraphAssumption DEF Stored, Ids
  <2> QED BY <2>1, <2>2, <2>3
<1>4. level'[obj'[t]] \in Levels /\ job'[t].max \in Levels \cup {None} /\ job'[t].update \in BOOLEAN
  BY <1>3 DEF JobType
<1>5. CASE job'[t].max <= level'[obj'[t]]
  BY <1>2, <1>3, <1>4, <1>5, NumbersAre DEF OnLevel
<1>6. CASE ~(job'[t].max <= level'[obj'[t]])
  <2>1. job'[t].update
    BY <1>1, <1>4, <1>6 DEF JobInv, Inserting
  <2>2. level'[job'[t].entry] < job'[t].max
    BY <1>4, <1>6, NumbersAre
  <2> QED BY <2>1, <2>2 DEF OnLevel, Torn
<1> QED
  BY <1>5, <1>6

\* The parts of a step that go on with the walk keep it at a list.
LEMMA OnwardOnLevel ==
    ASSUME IInv, NEW t \in Threads, Onward(t, obj[t]), level' = level,
           pc[t] \in {"search", "connect"}, OnLevel(t)
    PROVE  OnLevel(t)'
<1>1. Types /\ Busy(t)
  BY DEF IInv, Busy
<1>2. DOMAIN pc = Threads /\ DOMAIN at = Threads /\ DOMAIN obj = Threads
  BY <1>1 DEF Types, ThreadTypes, WalkTypes
<1>3. CASE at[t] > 0
  <2>1. StartSearch(t, obj[t], at[t] - 1) /\ job' = job
    BY <1>3 DEF Onward
  <2>2. at'[t] = at[t] - 1 /\ obj'[t] = obj[t]
    BY <1>2, <2>1 DEF StartSearch, Walk, Set1
  <2>3. CASE Torn(t)
    BY <2>1, <2>3 DEF OnLevel, Torn
  <2>4. CASE at[t] <= level[obj[t]]
    <3>1. at[t] \in Int /\ level[obj[t]] \in Int
      <4>1. pc[t] \in {"search", "connect"} => obj[t] \in Stored
        BY DEF IInv, WalkInv, Present, Listed
      <4> QED BY <1>1, <4>1, StoredIds, BusyIs, NumbersAre DEF Types, ElementTypes
    <3>2. at[t] - 1 <= level[obj[t]]
      BY <2>4, <3>1
    <3> QED BY <2>2, <3>2 DEF OnLevel
  <2> QED BY <2>3, <2>4 DEF OnLevel
<1>4. CASE ~(at[t] > 0)
  BY <1>2, <1>4, ReturnIs, <1>1 DEF Onward, OnLevel, Set1
<1> QED
  BY <1>3, <1>4

\* The layers of an update are those its element has, and the descent that repairs it
\* begins at its copy of the entry point.
LEMMA NextLayerOnLevel ==
    ASSUME IInv, IInv', NEW t \in Threads, NextLayer(t), job' = job
    PROVE  OnLevel(t)'
<1>1. DOMAIN pc = Threads /\ DOMAIN at = Threads /\ DOMAIN obj = Threads
  BY DEF IInv, Types, ThreadTypes, WalkTypes
<1>2. CASE at[t] < level[job[t].id]
  BY <1>1, <1>2 DEF NextLayer, OnLevel, Set1
<1>3. CASE ~(at[t] < level[job[t].id])
  <2>1. StartDescent(t, job[t].entry, job[t].max, level[job[t].id])
    BY <1>3 DEF NextLayer
  <2>2. pc'[t] \in {"descend", "search"} /\ obj'[t] = job'[t].entry
    BY <1>1, <2>1 DEF StartDescent, StartSearch, Walk, Set1
  <2> QED BY <2>2, EntryOnLevel
<1> QED
  BY <1>2, <1>3

\* A greedy descent moves to elements of its level, and goes down from one.
LEMMA DescendOnLevel ==
    ASSUME IInv, NEW t \in Threads, Descend(t)
    PROVE  OnLevel(t)'
<1> DEFINE best == Closest({<<near[t], obj[t]>>} \cup {Pair(Query(t), j) : j \in links[obj[t]][at[t]]})
<1>0. /\ Types /\ WalkInv(t) /\ Busy(t) /\ pc[t] = "descend" /\ job' = job /\ level' = level
      /\ level[obj[t]] >= at[t]
      /\ IF best[1] < near[t]
         THEN Walk(t, at[t], best[2], best[1], {}, {}, {}) /\ UNCHANGED pc
         ELSE StartDescent(t, obj[t], at[t] - 1, level[job[t].id])
  BY DEF IInv, Descend, Busy, graphVars
<1>1. DOMAIN pc = Threads /\ DOMAIN at = Threads /\ DOMAIN obj = Threads
  BY <1>0 DEF Types, ThreadTypes, WalkTypes
<1>2. best[1] < near[t] => Listed(best[2], at[t])
  BY <1>0, DescendIs
<1> HIDE DEF best
<1>3. CASE best[1] < near[t]
  <2>1. at'[t] = at[t] /\ obj'[t] = best[2]
    BY <1>0, <1>1, <1>3 DEF Walk, Set1
  <2>2. at[t] <= level[best[2]]
    BY <1>2, <1>3 DEF Listed
  <2> QED BY <1>0, <2>1, <2>2 DEF OnLevel
<1>4. CASE ~(best[1] < near[t])
  <2>1. StartDescent(t, obj[t], at[t] - 1, level[job[t].id])
    BY <1>0, <1>4
  <2>2. at'[t] \in {at[t] - 1, level[job[t].id]} /\ obj'[t] = obj[t]
    BY <1>1, <2>1 DEF StartDescent, StartSearch, Walk, Set1
  <2>3. at[t] \in Int /\ level[job[t].id] \in Int /\ level[obj[t]] \in Int
    <3>1. obj[t] \in Ids
      BY <1>0, DescendIs, StoredIds
    <3> QED BY <1>0, <3>1, BusyIs, NumbersAre DEF Types, ElementTypes
  <2>4. level[job[t].id] < at[t]
    BY <1>0 DEF WalkInv
  <2>5. at'[t] <= level[obj[t]]
    BY <1>0, <2>2, <2>3, <2>4
  <2> QED BY <1>0, <2>2, <2>5 DEF OnLevel
<1> QED
  BY <1>3, <1>4

\* The nearest of the neighbours selected is on the level.
LEMMA SelectOnLevel ==
    ASSUME IInv, NEW t \in Threads, Select(t)
    PROVE  OnLevel(t)'
<1>0. Types /\ pc[t] = "search" /\ SearchStops(t) /\ Chosen(t) # {}
  BY DEF IInv, Select
<1>1. /\ Chosen(t) \subseteq Nat \X Ids
      /\ \A p \in Chosen(t) : Listed(p[2], at[t])
  BY <1>0, ChosenIs
<1>2. Closest(Chosen(t)) \in Chosen(t)
  BY <1>0, <1>1, ClosestIs
<1>3. obj'[t] = Closest(Chosen(t))[2] /\ at' = at /\ level' = level
  BY <1>0 DEF Select, Set1, Types, WalkTypes
<1>4. at[t] <= level[Closest(Chosen(t))[2]]
  BY <1>1, <1>2 DEF Listed
<1> QED
  BY <1>3, <1>4 DEF OnLevel

\* Each thread's walk is at a list after a step of its own, and after one of another.
LEMMA StepKeepsOnLevel ==
    ASSUME IInv, IInv', NEW t \in Threads, Step(t), NEW u \in Threads, OnLevel(u)
    PROVE  OnLevel(u)'
<1>0. Types /\ level' = level
  BY StepKeepsElements DEF IInv
<1>1. CASE u # t
  BY <1>0, <1>1, StepKeepsOthers DEF Kept, WalkKept, OnLevel, Torn
<1> SUFFICES ASSUME u = t PROVE OnLevel(t)'
  BY <1>1
<1>2. DOMAIN pc = Threads /\ DOMAIN at = Threads /\ DOMAIN obj = Threads /\ DOMAIN job = Threads
      /\ job[t] \in JobType
  BY <1>0 DEF Types, ThreadTypes, WalkTypes
<1>3. CASE TakeGlobal(t) \/ FirstElement(t) \/ Publish(t)
  BY <1>0, <1>3, TakeGlobalIs, ReturnIs DEF FirstElement, Publish, OnLevel
<1>4. CASE ReadEntry(t)
  <2>1. /\ StartDescent(t, enterpoint_node_, job[t].max, LowerOf(level[job[t].id], job[t].max))
        /\ job' = [job EXCEPT ![t].entry = enterpoint_node_]
    BY <1>4 DEF ReadEntry
  <2>2. job'[t].entry = enterpoint_node_
    BY <1>2, <2>1 DEF JobType
  <2>3. pc'[t] \in {"descend", "search"} /\ obj'[t] = enterpoint_node_
    BY <1>2, <2>1 DEF StartDescent, StartSearch, Walk, Set1
  <2> QED BY <2>2, <2>3, EntryOnLevel
<1>5. CASE Descend(t)
  BY <1>5, DescendOnLevel
<1>6. CASE Expand(t)
  <2>1. pc' = pc /\ job' = job /\ at'[t] = at[t] /\ obj'[t] = obj[t]
    BY <1>2, <1>6 DEF Expand, Walk, Set1
  <2> QED BY <1>0, <2>1 DEF OnLevel, Torn
<1>7. CASE ReadsBeyond(t)
  BY <1>0, <1>7 DEF ReadsBeyond, walkVars, OnLevel, Torn
<1>8. CASE Select(t)
  BY <1>8, SelectOnLevel
<1>9. CASE SkipLevel(t)
  BY <1>0, <1>9, OnwardOnLevel DEF SkipLevel
<1>10. CASE Connect(t)
  <2> DEFINE n == Furthest({Pair(Query(t), j) : j \in rest[t]})[2]
  <2>1. /\ pc[t] = "connect"
        /\ IF rest[t] = {n} THEN Onward(t, obj[t])
           ELSE rest' = Set1(rest, t, rest[t] \ {n}) /\ UNCHANGED <<pc, job, walkVars, hop>>
    BY <1>10 DEF Connect
  <2> HIDE DEF n
  <2>2. CASE rest[t] = {n}
    BY <1>0, <2>1, <2>2, OnwardOnLevel
  <2>3. CASE rest[t] # {n}
    BY <1>0, <2>1, <2>3 DEF walkVars, OnLevel, Torn
  <2> QED BY <2>2, <2>3
<1>11. CASE CopyMaxLevel(t) \/ CopyEntry(t)
  <2>1. pc[t] = "copy"
    BY <1>11 DEF CopyMaxLevel, CopyEntry
  <2>2. PICK m, e : Copy(t, m, e)
    BY <1>11 DEF CopyMaxLevel, CopyEntry
  <2>3. pc'[t] \in {"copy", "idle", "neighbours"}
    BY <1>2, <2>1, <2>2 DEF Copy, Return, Set1
  <2> QED BY <2>3 DEF OnLevel
<1>12. CASE ReadNeighbours(t)
  <2>1. CASE NextLayer(t)
    BY <1>12, <2>1, NextLayerOnLevel DEF ReadNeighbours
  <2>2. CASE pc' = Set1(pc, t, "hops")
    BY <1>2, <2>2 DEF Set1, OnLevel
  <2> QED BY <1>12, <2>1, <2>2 DEF ReadNeighbours
<1>13. CASE \E n \in Ids : ReadHop(t, n)
  <2>1. pc'[t] \in {"hops", "rewrite"}
    BY <1>2, <1>13 DEF ReadHop, Set1
  <2> QED BY <2>1 DEF OnLevel
<1>14. CASE \E n \in Ids : Rewrite(t, n)
  <2>1. NextLayer(t) \/ pc'[t] = "rewrite"
    BY <1>14 DEF Rewrite
  <2>2. job' = job
    BY <1>14 DEF Rewrite
  <2> QED BY <2>1, <2>2, NextLayerOnLevel DEF OnLevel
<1> QED
  BY <1>3, <1>4, <1>5, <1>6, <1>7, <1>8, <1>9, <1>10, <1>11, <1>12, <1>13, <1>14 DEF Step

-----------------------------------------------------------------------------
\* A search begins with one element that it has seen, as a candidate.
LEMMA BeginsMarked ==
    ASSUME IInv, IInv', NEW t \in Threads, NEW o, NEW l, StartSearch(t, o, l), deleted' = deleted,
           OnLevel(t)'
    PROVE  MarkedOnly(t)'
<1> SUFFICES ASSUME Inserting(t)', top'[t] = {}, pc'[t] = "search"
             PROVE  /\ obj'[t] \in seen'[t] /\ seen'[t] \subseteq deleted'
                    /\ \A n \in seen'[t] : Listed(n, at[t])'
                    /\ \A n \in seen'[t] : n \in IdsOf(cand[t])' \/ (links[n][at[t]])' \subseteq seen'[t]
  BY DEF MarkedOnly
<1>1. /\ DOMAIN at = Threads /\ DOMAIN obj = Threads /\ DOMAIN top = Threads /\ DOMAIN cand = Threads
      /\ DOMAIN seen = Threads
  BY DEF IInv, Types, WalkTypes
<1>2. o \in deleted /\ obj'[t] = o /\ seen'[t] = {o} /\ cand'[t] = {<<Far, o>>}
  BY <1>1 DEF StartSearch, Walk, Set1
<1>3. o \in IdsOf(cand[t])'
  BY <1>2 DEF IdsOf
<1>4. Present(obj[t])' /\ at'[t] <= level'[obj'[t]]
  BY DEF IInv, WalkInv, OnLevel, Torn, Inserting
<1>5. Listed(obj[t], at[t])'
  BY <1>4 DEF Present, LockFree, Listed
<1>6. \A n \in seen'[t] : Listed(n, at[t])'
  <2> SUFFICES ASSUME NEW n \in seen'[t] PROVE Listed(n, at[t])'
    OBVIOUS
  <2>1. n = obj'[t]
    BY <1>2
  <2> QED BY <1>5, <2>1 DEF Listed
<1> QED
  BY <1>2, <1>3, <1>6

\* Of some pairs, the nearest are some.
LEMMA BestSome ==
    ASSUME NEW S, S # {}, S \subseteq Nat \X Ids, NEW n \in Nat \ {0}
    PROVE  Best(S, n) # {}
<1>1. Closest(S) \in S /\ \A q \in S : Closest(S)[1] <= q[1]
  BY ClosestIs
<1>2. {q \in S : q[1] < Closest(S)[1]} = {}
  BY <1>1
<1>3. Cardinality({q \in S : q[1] < Closest(S)[1]}) < n
  BY <1>2, FS_EmptySet
<1> QED
  BY <1>1, <1>3 DEF Best

\* Of some pairs, the heuristic takes one at least.
LEMMA HeuristicSome ==
    ASSUME NEW S, S # {}, IsFiniteSet(S), S \subseteq Nat \X Int, NEW n \in Nat \ {0}
    PROVE  Heuristic(S, n) # {}
<1> DEFINE H == Heuristic(S, n)
<1>1. CASE Cardinality(S) < n
  BY <1>1 DEF Heuristic
<1>2. CASE ~(Cardinality(S) < n)
  <2>1. H = CHOOSE taken \in SUBSET S : Taken(S, n, taken)
    BY <1>2 DEF Heuristic, Taken
  <2>2. Taken(S, n, H)
    BY <2>1, SomeTaken
  <2> HIDE DEF H
  <2>3. SUFFICES ASSUME H = {} PROVE FALSE
    BY DEF H
  <2>4. PICK p \in S : TRUE
    OBVIOUS
  <2>5. {r \in H : Sooner(r, p)} = {}
    BY <2>3
  <2>6. Cardinality({r \in H : Sooner(r, p)}) < n
    BY <2>5, FS_EmptySet
  <2>7. p \in H
    BY <2>2, <2>5, <2>6 DEF Taken
  <2> QED BY <2>3, <2>7
<1> QED
  BY <1>1, <1>2

\* While a search has found nobody, it keeps all it meets as candidates.
LEMMA ExpandMarked ==
    ASSUME IInv, NEW t \in Threads, Expand(t), MarkedOnly(t)
    PROVE  MarkedOnly(t)'
<1>0. Types /\ Step(t) /\ WalkInv(t) /\ Busy(t) /\ pc[t] = "search" /\ ~SearchStops(t)
  BY DEF IInv, Step, Expand, Busy
<1>1. PICK c, n, l : c = Closest(cand[t]) /\ n = c[2] /\ l = at[t]
  OBVIOUS
<1>2. PICK new : new = {Pair(Query(t), j) : j \in links[n][l] \ seen[t]}
  OBVIOUS
<1>3. PICK best : best = Best(top[t] \cup {p \in new : p[2] \notin deleted}, EfConstruction)
  OBVIOUS
<1>4. /\ Walk(t, l, obj[t], 0, best,
              (cand[t] \ {c}) \cup {p \in new : Cardinality(best) < EfConstruction \/ p[1] <= LowerBound(best)},
              seen[t] \cup IdsOf(new))
      /\ pc' = pc /\ job' = job /\ deleted' = deleted /\ links' = links
  BY <1>1, <1>2, <1>3 DEF Expand, graphVars
<1>5. /\ at'[t] = l /\ obj'[t] = obj[t] /\ top'[t] = best /\ seen'[t] = seen[t] \cup IdsOf(new)
      /\ cand'[t] = (cand[t] \ {c}) \cup {p \in new : Cardinality(best) < EfConstruction \/ p[1] <= LowerBound(best)}
  BY <1>0, <1>4 DEF Types, WalkTypes, Walk, Set1
<1>6. /\ new \subseteq Nat \X Ids /\ \A p \in new : Listed(p[2], l)
      /\ c \in cand[t] /\ n \in Stored /\ l \in Levels
  BY <1>0, <1>1, <1>2, MetIs, CandidateIs, BusyIs
<1>7. IdsOf(new) = links[n][l] \ seen[t]
  <2> DEFINE J == links[n][l] \ seen[t]
  <2>1. \A j : Pair(Query(t), j)[2] = j
    BY DEF Pair
  <2> HIDE DEF J
  <2>2. IdsOf({Pair(Query(t), j) : j \in J}) \subseteq J
    BY <2>1 DEF IdsOf
  <2>3. ASSUME NEW j \in J PROVE j \in IdsOf({Pair(Query(t), k) : k \in J})
    <3>1. Pair(Query(t), j) \in {Pair(Query(t), k) : k \in J}
      OBVIOUS
    <3> QED BY <2>1, <3>1 DEF IdsOf
  <2> QED BY <1>2, <2>2, <2>3 DEF J
<1> SUFFICES ASSUME Inserting(t)', top'[t] = {}
             PROVE  /\ obj'[t] \in seen'[t] /\ seen'[t] \subseteq deleted'
                    /\ \A k \in seen'[t] : Listed(k, at[t])'
                    /\ \A k \in seen'[t] : k \in IdsOf(cand[t])' \/ (links[k][at[t]])' \subseteq seen'[t]
  BY DEF MarkedOnly
<1>8. EfConstruction \in Nat \ {0}
  BY GraphAssumption
<1>9. top[t] = {} /\ \A p \in new : p[2] \in deleted
  <2>1. top[t] \cup {p \in new : p[2] \notin deleted} \subseteq Nat \X Ids
    BY <1>0, <1>6 DEF Types, WalkTypes
  <2>2. top[t] \cup {p \in new : p[2] \notin deleted} = {}
    BY <1>3, <1>5, <1>8, <2>1, BestSome
  <2> QED BY <2>2
<1>10. Inserting(t)
  BY <1>4 DEF Inserting, Busy
<1>11. /\ obj[t] \in seen[t] /\ seen[t] \subseteq deleted
       /\ \A k \in seen[t] : Listed(k, l)
       /\ \A k \in seen[t] : k \in IdsOf(cand[t]) \/ links[k][l] \subseteq seen[t]
  BY <1>0, <1>1, <1>9, <1>10 DEF MarkedOnly
<1>12. cand'[t] = (cand[t] \ {c}) \cup new
  <2>1. best = {} /\ Cardinality({}) = 0
    BY <1>5, FS_EmptySet
  <2>2. Cardinality(best) < EfConstruction
    BY <1>8, <2>1
  <2> QED BY <1>5, <2>2
<1>13. seen'[t] \subseteq deleted'
  BY <1>4, <1>5, <1>9, <1>11 DEF IdsOf
<1>14. \A k \in seen'[t] : Listed(k, at[t])'
  <2>1. \A k \in seen'[t] : Listed(k, l)
    BY <1>5, <1>6, <1>11 DEF IdsOf
  <2>2. \A k : Listed(k, l) => Listed(k, l)'
    BY <1>0, <1>6, StepKeepsListed
  <2>3. \A k : Listed(k, l)' => Listed(k, at[t])'
    BY <1>5 DEF Listed, Reached
  <2> QED BY <2>1, <2>2, <2>3
<1>15. \A k \in seen'[t] : k \in IdsOf(cand[t])' \/ links[k][l] \subseteq seen'[t]
  <2> SUFFICES ASSUME NEW k \in seen'[t], k \notin IdsOf(cand[t])' PROVE links[k][l] \subseteq seen'[t]
    OBVIOUS
  <2>1. \A p \in (cand[t] \ {c}) \cup new : p[2] # k
    BY <1>12 DEF IdsOf
  <2>2. k \in seen[t]
    BY <1>5, <2>1 DEF IdsOf
  <2>3. CASE links[k][l] \subseteq seen[t]
    BY <1>5, <2>3
  <2>4. CASE k \in IdsOf(cand[t])
    <3>1. PICK p \in cand[t] : p[2] = k
      BY <2>4 DEF IdsOf
    <3>2. k = n
      BY <1>1, <2>1, <3>1
    <3> QED BY <1>5, <1>7, <3>2
  <2> QED BY <1>11, <2>2, <2>3, <2>4
<1>16. \A k \in seen'[t] : (links[k][at[t]])' = links[k][l]
  BY <1>4, <1>5
<1>17. obj'[t] \in seen'[t]
  BY <1>5, <1>11
<1> QED
  BY <1>13, <1>14, <1>15, <1>16, <1>17

\* An insertion that finds nobody has met marks, and some list has given up a link.
LEMMA NobodyFound ==
    ASSUME IInv, NEW t \in Threads, pc[t] = "search", SearchStops(t), Chosen(t) = {}, Inserting(t),
           MarkedOnly(t), OnePiece(at[t])
    PROVE  deleted # {} /\ dropped # {}
<1> DEFINE e == job[t].entry
           found == {p \in top[t] : job[t].update => p[2] # job[t].id}
           l == at[t]
<1>0. Types /\ WalkInv(t) /\ JobInv(t) /\ Apart /\ Busy(t) /\ l \in Levels /\ ~job[t].update
  BY BusyIs DEF IInv, Inserting
<1>1. M \in Nat \ {0} /\ EfConstruction \in Nat \ {0}
  BY GraphAssumption
<1>2. found = top[t] /\ top[t] \subseteq Nat \X Ids /\ IsFiniteSet(top[t])
  BY <1>0, StopsFound DEF Found, Types, WalkTypes
<1>3. Present(e) /\ l <= level[e] /\ e \in Stored
  <2>1. /\ Present(e) /\ job[t].max # None /\ job[t].max <= level[e]
    BY <1>0 DEF JobInv
  <2>2. l <= job[t].max
    BY <1>0 DEF WalkInv
  <2>3. l \in Int /\ job[t].max \in Int /\ level[e] \in Int
    BY <1>0, <2>1, BusyIs, NumbersAre, StoredIds DEF Present, Types, ElementTypes
  <2> QED BY <2>1, <2>2, <2>3 DEF Present
<1>4. e \notin deleted
  <2> SUFFICES ASSUME e \in deleted PROVE FALSE
    OBVIOUS
  <2> DEFINE all == top[t] \cup {Pair(Query(t), e)}
  <2>1. all # {} /\ all \subseteq Nat \X Ids /\ IsFiniteSet(all)
    <3>1. Pair(Query(t), e) \in Nat \X Ids
      BY <1>0, <1>3, BusyIs, PairIs DEF Query
    <3> QED BY <1>2, <3>1, FS_AddElement
  <2>2. Chosen(t) = Heuristic(Best(all, EfConstruction), M)
    BY <1>0, <1>2 DEF Chosen
  <2> HIDE DEF all
  <2> DEFINE best == Best(all, EfConstruction)
  <2>3. best # {} /\ IsFiniteSet(best) /\ best \subseteq Nat \X Ids
    BY <1>1, <2>1, BestSome, BestIn, FS_Subset
  <2> HIDE DEF best
  <2>4. Heuristic(best, M) # {}
    BY <1>1, <2>3, NumbersAre, HeuristicSome
  <2> QED BY <2>2, <2>4 DEF best
<1>5. top[t] = {}
  <2>1. Chosen(t) = Heuristic(top[t], M)
    BY <1>0, <1>4 DEF Chosen
  <2> QED BY <1>1, <1>2, <2>1, NumbersAre, HeuristicSome
<1>6. /\ obj[t] \in seen[t] /\ seen[t] \subseteq deleted
      /\ \A n \in seen[t] : Listed(n, l)
      /\ \A n \in seen[t] : n \in IdsOf(cand[t]) \/ links[n][l] \subseteq seen[t]
  BY <1>5 DEF MarkedOnly
<1>7. cand[t] = {}
  <2>1. Cardinality(top[t]) # EfConstruction
    BY <1>1, <1>5, FS_EmptySet
  <2> QED BY <2>1 DEF SearchStops
<1>8. \A n \in seen[t] : links[n][l] \subseteq seen[t]
  BY <1>6, <1>7 DEF IdsOf
<1>9. seen[t] \in SUBSET Members(l) /\ seen[t] # {} /\ e \in Members(l) /\ e \notin seen[t]
  BY <1>3, <1>4, <1>6 DEF Members, Listed, Present, LockFree
<1>10. PICK s \in seen[t], u \in Members(l) \ seen[t] : Joined(s, u, l)
  BY <1>9 DEF OnePiece
<1>11. \A w \in Threads : pc[w] # "connect"
  <2> SUFFICES ASSUME NEW w \in Threads, pc[w] = "connect" PROVE FALSE
    OBVIOUS
  <2>1. w # t /\ Busy(w)
    BY DEF Busy
  <2> QED BY <1>0, <1>6, <2>1 DEF Apart
<1>12. u \notin links[s][l]
  BY <1>8, <1>10
<1>13. <<u, l>> \in dropped
  BY <1>10, <1>11, <1>12 DEF Joined
<1> QED
  BY <1>6, <1>13

\* While a search has found nobody, its thread is alone: there are marks.
LEMMA FindsNobodyAlone ==
    ASSUME NEW u \in Threads, MarkedOnly(u), pc[u] = "search", Inserting(u), top[u] = {}
    PROVE  deleted # {} /\ Busy(u)
  BY DEF MarkedOnly, Inserting

\* A thread that steps is inside addPoint.
LEMMA StepIsBusy ==
    ASSUME NEW t \in Threads, Step(t)
    PROVE  Busy(t)
  BY DEF Step, TakeGlobal, FirstElement, ReadEntry, Descend, Expand, ReadsBeyond, Beyond, Select, SkipLevel,
         Connect, Publish, CopyMaxLevel, CopyEntry, ReadNeighbours, ReadHop, Rewrite, Busy

\* The steps that bring a thread to a search, or leave it in one.
LEMMA LeadsToSearch ==
    ASSUME IInv, NEW t \in Threads, Step(t), pc'[t] = "search"
    PROVE  Expand(t) \/ ReadsBeyond(t) \/ \E o, l : StartSearch(t, o, l)
<1>0. DOMAIN pc = Threads
  BY DEF IInv, Types, ThreadTypes
<1>1. ASSUME NEW o, NEW l, NEW h, StartDescent(t, o, l, h) PROVE StartSearch(t, o, h)
  BY <1>0, <1>1 DEF StartDescent, Set1
<1>2. ASSUME NextLayer(t) PROVE \E o, l : StartSearch(t, o, l)
  BY <1>0, <1>1, <1>2 DEF NextLayer, Set1
<1>3. ASSUME Return(t) PROVE FALSE
  BY <1>0, <1>3 DEF Return, Set1
<1>4. ASSUME NEW o, Onward(t, o) PROVE \E p, l : StartSearch(t, p, l)
  BY <1>0, <1>3, <1>4 DEF Onward, Set1
<1>5. CASE Select(t) \/ TakeGlobal(t) \/ FirstElement(t) \/ Publish(t)
  BY <1>0, <1>3, <1>5 DEF Select, TakeGlobal, FirstElement, Publish, Set1
<1>6. CASE ReadEntry(t)
  BY <1>1, <1>6 DEF ReadEntry
<1>7. CASE Descend(t)
  <2>1. CASE StartDescent(t, obj[t], at[t] - 1, level[job[t].id])
    BY <1>1, <2>1
  <2>2. CASE pc' = pc
    BY <1>7, <2>2 DEF Descend
  <2> QED BY <1>7, <2>1, <2>2 DEF Descend
<1>8. CASE SkipLevel(t)
  BY <1>4, <1>8 DEF SkipLevel
<1>9. CASE Connect(t)
  <2>1. pc[t] = "connect"
    BY <1>9 DEF Connect
  <2>2. Onward(t, obj[t]) \/ pc' = pc
    BY <1>9 DEF Connect
  <2> QED BY <1>4, <2>1, <2>2
<1>10. CASE CopyMaxLevel(t) \/ CopyEntry(t)
  <2>1. pc[t] = "copy"
    BY <1>10 DEF CopyMaxLevel, CopyEntry
  <2>2. PICK m, e : Copy(t, m, e)
    BY <1>10 DEF CopyMaxLevel, CopyEntry
  <2> QED BY <1>0, <1>3, <2>1, <2>2 DEF Copy, Set1
<1>11. CASE ReadNeighbours(t)
  BY <1>0, <1>2, <1>11 DEF ReadNeighbours, Set1
<1>12. CASE \E n \in Ids : ReadHop(t, n)
  BY <1>0, <1>12 DEF ReadHop, Set1
<1>13. CASE \E n \in Ids : Rewrite(t, n)
  BY <1>0, <1>2, <1>13 DEF Rewrite
<1> QED
  BY <1>5, <1>6, <1>7, <1>8, <1>9, <1>10, <1>11, <1>12, <1>13 DEF Step

\* What is said of a search that has found nobody holds after every step of addPoint.
LEMMA StepKeepsMarked ==
    ASSUME IInv, IInv', NEW t \in Threads, Step(t), NEW u \in Threads, MarkedOnly(u), OnLevel(u)'
    PROVE  MarkedOnly(u)'
<1>0. Types /\ Apart /\ Busy(t) /\ deleted' = deleted
  BY StepIsBusy, StepKeepsElements DEF IInv
<1>1. CASE u # t
  <2>1. Kept(u)
    BY <1>0, <1>1, StepKeepsOthers
  <2>2. pc[u] = "search" /\ Inserting(u) => top[u] # {}
    BY <1>0, <1>1, FindsNobodyAlone DEF Apart
  <2> QED BY <2>1, <2>2 DEF Kept, WalkKept, MarkedOnly, Inserting, Busy
<1>2. CASE u = t
  <2>1. CASE Expand(t)
    BY <1>2, <2>1, ExpandMarked
  <2>2. CASE ReadsBeyond(t)
    BY <1>2, <2>2 DEF ReadsBeyond, graphVars, walkVars, MarkedOnly, Listed, Stored, Inserting, Busy, Reached
  <2>3. CASE \E o, l : StartSearch(t, o, l)
    BY <1>0, <1>2, <2>3, BeginsMarked
  <2>4. CASE pc'[t] # "search"
    BY <1>2, <2>4 DEF MarkedOnly
  <2> QED BY <2>1, <2>2, <2>3, <2>4, LeadsToSearch
<1> QED
  BY <1>1, <1>2

-----------------------------------------------------------------------------
\* The levels are in one piece, each walk is at a list or its update torn.
Whole ==
    /\ \A l \in Levels : OnePiece(l)
    /\ \A t \in Threads : OnLevel(t) /\ MarkedOnly(t)

\* What reads beyond a list, or finds no neighbour, has a cause.
LEMMA BeyondHasCause ==
    ASSUME IInv, Whole, NEW t \in Threads, Beyond(t)
    PROVE  Torn(t) \/ (~job[t].update /\ deleted # {} /\ dropped # {})
<1>0. Types /\ WalkInv(t) /\ Busy(t) /\ OnLevel(t) /\ MarkedOnly(t)
  BY DEF IInv, Whole, Beyond, Busy
<1>1. at[t] \in Levels /\ at[t] \in Int
  BY <1>0, BusyIs, NumbersAre
<1>2. \A i \in Stored : level[i] \in Int
  BY <1>0, StoredIds, NumbersAre DEF Types, ElementTypes
<1>3. CASE pc[t] = "descend" /\ level[obj[t]] < at[t]
  <2>1. obj[t] \in Stored
    BY <1>3, DescendIs
  <2>2. ~(at[t] <= level[obj[t]])
    BY <1>1, <1>2, <1>3, <2>1
  <2> QED BY <1>0, <1>3, <2>2 DEF OnLevel
<1>4. CASE pc[t] = "search" /\ ~SearchStops(t) /\ level[Closest(cand[t])[2]] < at[t]
  <2>1. PICK n : n = Closest(cand[t])[2]
    OBVIOUS
  <2>2. n \in Stored /\ (Listed(n, at[t]) \/ n = obj[t])
    BY <1>0, <1>4, <2>1, CandidateIs
  <2>3. ~(at[t] <= level[n])
    BY <1>1, <1>2, <1>4, <2>1, <2>2
  <2>4. n = obj[t]
    BY <2>2, <2>3 DEF Listed
  <2> QED BY <1>0, <1>4, <2>3, <2>4 DEF OnLevel
<1>5. CASE pc[t] = "search" /\ SearchStops(t) /\ Chosen(t) = {} /\ ~job[t].update
  <2>1. Inserting(t) /\ OnePiece(at[t])
    BY <1>0, <1>1, <1>5 DEF Inserting, Whole
  <2> QED BY <1>0, <1>5, <2>1, NobodyFound
<1> QED
  BY <1>3, <1>4, <1>5 DEF Beyond

\* A thread that begins changes nothing of this.
LEMMA BeginKeepsWhole ==
    ASSUME IInv, Whole, Grows, NEW t \in Threads, ~Busy(t), \A u \in Threads \ {t} : Kept(u),
           links' = links, dropped' = dropped, pc'[t] \in {"global", "copy"},
           \A u \in Threads \ {t} : Busy(u) => deleted = {},
           Stored' = Stored \/ (Inserting(t)' /\ pc'[t] = "global" /\ Stored' \ Stored \subseteq {job'[t].id})
    PROVE  Whole'
<1>1. \A u \in Threads : Inserting(u) => u # t /\ Inserting(u)' /\ job'[u] = job[u] /\ pc'[u] = pc[u] /\ at'[u] = at[u]
  BY DEF Inserting, Busy, Kept, WalkKept
<1>2. \A j \in Stored : level'[j] = level[j] /\ Stored \subseteq Stored'
  BY DEF Grows
<1>3. ASSUME NEW l \in Levels, NEW j, Listed(j, l)' PROVE Listed(j, l)
  <2>1. j \in Stored
    BY <1>3 DEF Listed, Reached
  <2>2. \A u \in Threads : Inserting(u) /\ job[u].id = j => Reached(u, l)
    BY <1>1, <1>3 DEF Listed, Reached
  <2> QED BY <1>2, <1>3, <2>1, <2>2 DEF Listed
<1>4. \A u \in Threads : pc[u] = "connect" => Kept(u)
  BY DEF Busy
<1>5. \A l \in Levels : OnePiece(l)'
  BY <1>3, <1>4, KeptPieces DEF Whole
<1>6. ASSUME NEW u \in Threads PROVE OnLevel(u)' /\ MarkedOnly(u)'
  <2>1. CASE u = t
    BY <2>1 DEF OnLevel, MarkedOnly
  <2>2. CASE u # t
    <3>1. Kept(u) /\ OnLevel(u) /\ MarkedOnly(u) /\ WalkInv(u) /\ JobInv(u)
      BY <2>2 DEF IInv, Whole
    <3>2. pc[u] \in {"descend", "search", "connect"} => level'[obj[u]] = level[obj[u]]
      BY <1>2, <3>1 DEF WalkInv, Present, Listed
    <3>3. pc[u] \in {"descend", "search", "connect"} /\ job[u].update => level'[job[u].entry] = level[job[u].entry]
      BY <1>2, <3>1 DEF JobInv, Present, Busy
    <3>4. OnLevel(u)'
      BY <3>1, <3>2, <3>3 DEF OnLevel, Torn, Kept, WalkKept
    <3>5. pc[u] = "search" /\ Inserting(u) => top[u] # {}
      BY <2>2, <3>1, FindsNobodyAlone
    <3>6. MarkedOnly(u)'
      BY <3>1, <3>5 DEF MarkedOnly, Kept, WalkKept, Inserting, Busy
    <3> QED BY <3>4, <3>6
  <2> QED BY <2>1, <2>2
<1> QED
  BY <1>5, <1>6 DEF Whole

\* addPoint of a new label begins.
LEMMA AddNewKeepsWhole ==
    ASSUME IInv, Whole, NEW t \in Threads, NEW v \in Vectors, NEW h \in Levels, AddNew(t, v, h)
    PROVE  Whole'
<1>0. Types /\ ElementTypes /\ ThreadTypes /\ WalkTypes
  BY DEF IInv, Types
<1>1. /\ ~Busy(t) /\ \A u \in Threads \ {t} : Busy(u) => deleted = {}
      /\ count < MaxElements /\ count' = count + 1
      /\ level' = Set1(level, count, h)
      /\ job' = Set1(job, t, [NoJob EXCEPT !.id = count]) /\ pc' = Set1(pc, t, "global")
      /\ links' = links /\ walkVars' = walkVars /\ hop' = hop /\ rest' = rest /\ dropped' = dropped
  BY DEF AddNew, Begins
<1>2. /\ count \in Nat /\ MaxElements \in Nat /\ count \in Ids /\ Stored' = Stored \cup {count}
      /\ count \notin Stored
  BY <1>0, <1>1, StoredIds, GraphAssumption DEF Ids, Stored
<1>3. pc'[t] = "global" /\ job'[t].id = count /\ ~job'[t].update /\ Inserting(t)'
  BY <1>0, <1>1 DEF ThreadTypes, Set1, NoJob, Inserting, Busy
<1>4. \A u \in Threads \ {t} : Kept(u)
  BY <1>0, <1>1 DEF Kept, WalkKept, ThreadTypes, Set1, walkVars
<1>5. \A j \in Stored : level'[j] = level[j]
  BY <1>0, <1>1, <1>2, StoredIds DEF ElementTypes, Set1
<1>6. Grows
  BY <1>2, <1>3, <1>4, <1>5, BeginGrows
<1> QED
  BY <1>1, <1>2, <1>3, <1>4, <1>6, BeginKeepsWhole

\* addPoint of a label that is there begins.
LEMMA AddExistingKeepsWhole ==
    ASSUME IInv, Whole, NEW t \in Threads, NEW v \in Vectors, NEW i \in Ids, AddExisting(t, i, v)
    PROVE  Whole'
<1>0. Types /\ ThreadTypes
  BY DEF IInv, Types
<1>1. /\ ~Busy(t) /\ \A u \in Threads \ {t} : Busy(u) => deleted = {}
      /\ count' = count /\ level' = level
      /\ job' = Set1(job, t, [NoJob EXCEPT !.id = i, !.update = TRUE]) /\ pc' = Set1(pc, t, "copy")
      /\ links' = links /\ walkVars' = walkVars /\ hop' = hop /\ rest' = rest /\ dropped' = dropped
  BY DEF AddExisting, Begins
<1>2. pc'[t] = "copy" /\ job'[t].update /\ Stored' = Stored
  BY <1>0, <1>1 DEF ThreadTypes, Set1, NoJob, Stored
<1>3. \A u \in Threads \ {t} : Kept(u)
  BY <1>0, <1>1 DEF Kept, WalkKept, ThreadTypes, Set1, walkVars
<1>4. Grows
  BY <1>1, <1>2, <1>3, BeginGrows DEF Inserting
<1> QED
  BY <1>1, <1>2, <1>3, <1>4, BeginKeepsWhole

\* Marks change nothing of the lists, and nobody walks while they are set.
LEMMA MarksKeepWhole ==
    ASSUME Whole, NEW i \in Ids, MarkDelete(i) \/ UnmarkDelete(i)
    PROVE  Whole'
<1>1. /\ \A t \in Threads : ~Busy(t)
      /\ UNCHANGED <<count, level, links, pc, job, at, rest, dropped>>
  BY DEF MarkDelete, UnmarkDelete, walkVars
<1>2. \A t \in Threads : OnLevel(t)' /\ MarkedOnly(t)'
  BY <1>1 DEF OnLevel, MarkedOnly, Busy
<1>3. \A l \in Levels : OnePiece(l)'
  <2>1. \A j, l : Listed(j, l)' <=> Listed(j, l)
    BY <1>1 DEF Listed, Stored, Inserting, Busy, Reached
  <2>2. \A l : Members(l)' = Members(l)
    BY <1>1, <2>1 DEF Members, Stored
  <2>3. \A s, u, l : Joined(s, u, l) => Joined(s, u, l)'
    BY <1>1 DEF Joined, Inserting, Busy
  <2> QED BY <2>2, <2>3, PieceKept DEF Whole
<1> QED
  BY <1>2, <1>3 DEF Whole

\* While elements, lists and walks stay as they are, the levels stay whole, and what
\* reads beyond a list still would.
LEMMA SameKeepsWhole ==
    ASSUME UNCHANGED <<graphVars, pc, job, walkVars, rest, dropped>>
    PROVE  (Whole => Whole') /\ \A t \in Threads : Beyond(t) => Beyond(t)'
<1>1. /\ count' = count /\ level' = level /\ vec' = vec /\ deleted' = deleted /\ links' = links
      /\ pc' = pc /\ job' = job /\ rest' = rest /\ dropped' = dropped
      /\ at' = at /\ obj' = obj /\ top' = top /\ cand' = cand /\ seen' = seen
  BY DEF graphVars, walkVars
<1>2. ASSUME Whole PROVE Whole'
  <2>1. \A j, l : Listed(j, l)' <=> Listed(j, l)
    BY <1>1 DEF Listed, Stored, Inserting, Busy, Reached
  <2>2. \A l : Members(l)' = Members(l)
    BY <1>1, <2>1 DEF Members, Stored
  <2>3. \A s, u, l : Joined(s, u, l) => Joined(s, u, l)'
    BY <1>1 DEF Joined, Inserting, Busy
  <2>4. \A l \in Levels : OnePiece(l)'
    BY <1>2, <2>2, <2>3, PieceKept DEF Whole
  <2>5. \A t \in Threads : OnLevel(t)'
    BY <1>1, <1>2 DEF Whole, OnLevel, Torn
  <2>6. \A t \in Threads : MarkedOnly(t)'
    BY <1>1, <1>2, <2>1 DEF Whole, MarkedOnly, Inserting, Busy, IdsOf
  <2> QED BY <2>4, <2>5, <2>6 DEF Whole
<1>3. ASSUME NEW t \in Threads PROVE Beyond(t) => Beyond(t)'
  <2>1. LowerBound(top[t])' = LowerBound(top[t])
    BY <1>1 DEF LowerBound, Furthest
  <2>2. Closest(cand[t])' = Closest(cand[t])
    BY <1>1 DEF Closest
  <2>3. SearchStops(t)' <=> SearchStops(t)
    BY <1>1, <2>1, <2>2 DEF SearchStops
  <2>4. \A S, n : Heuristic(S, n)' = Heuristic(S, n)
    BY <1>1 DEF Heuristic, Sooner
  <2>5. Chosen(t)' = Chosen(t)
    BY <1>1, <2>4 DEF Chosen, Query, Pair, Best
  <2> QED BY <1>1, <2>2, <2>3, <2>5 DEF Beyond
<1> QED
  BY <1>2, <1>3

\* Every step of the specification keeps the levels whole.
LEMMA NextKeepsWhole ==
    ASSUME IInv, IInv', Whole, [Next]_vars
    PROVE  Whole'
<1>1. ASSUME NEW t \in Threads, Step(t) PROVE Whole'
  BY <1>1, StepKeepsPieces, StepKeepsOnLevel, StepKeepsMarked DEF Whole
<1>2. CASE UNCHANGED vars
  BY <1>2, SameKeepsWhole DEF vars
<1>3. CASE \E t \in Threads, v \in Vectors :
             (\E h \in Levels : AddNew(t, v, h)) \/ (\E i \in Ids : AddExisting(t, i, v))
  BY <1>3, AddNewKeepsWhole, AddExistingKeepsWhole
<1>4. CASE \E i \in Ids : MarkDelete(i) \/ UnmarkDelete(i)
  BY <1>4, MarksKeepWhole
<1> QED
  BY <1>1, <1>2, <1>3, <1>4 DEF Next

\* The empty graph is whole.
LEMMA InitWhole ==
    ASSUME Init
    PROVE  Whole
<1>1. \A l : Members(l) = {}
  BY DEF Init, Members, Stored
<1>2. \A t \in Threads : pc[t] = "idle"
  BY DEF Init
<1> QED
  BY <1>1, <1>2 DEF Whole, OnePiece, OnLevel, MarkedOnly

\* In every state, however threads insert and update at the same time: a level is in one
\* piece but for the links that lists have given up, or that are about to be made.
THEOREM WholeHolds == Spec => []Whole
<1>1. Init => Whole
  BY InitWhole
<1>2. IInv /\ IInv' /\ Whole /\ [Next]_vars => Whole'
  BY NextKeepsWhole
<1> QED
  BY <1>1, <1>2, InductiveInvariant, PTL DEF Spec

\* What is no link list is read only by an update with torn copies of entry point and
\* maximum level, and an insertion finds no neighbour only with marks and given-up links.
THEOREM FaultHasCauseHolds == Spec => []FaultHasCause
<1>1. Init => FaultHasCause
  BY DEF Init, FaultHasCause
<1>2. ASSUME IInv, Whole, FaultHasCause, [Next]_vars PROVE FaultHasCause'
  <2>1. CASE UNCHANGED vars
    <3>1. \A t \in Threads : Beyond(t) => Beyond(t)'
      BY <2>1, SameKeepsWhole DEF vars
    <3> QED BY <1>2, <2>1, <3>1 DEF vars, graphVars, FaultHasCause
  <2>2. CASE \E t \in Threads : ReadsBeyond(t)
    <3>1. PICK t \in Threads : ReadsBeyond(t)
      BY <2>2
    <3>2. Beyond(t) /\ UNCHANGED <<graphVars, entryVars, pc, job, walkVars, hop, rest, dropped, updates>>
      BY <3>1 DEF ReadsBeyond
    <3>3. Torn(t) \/ (~job[t].update /\ deleted # {} /\ dropped # {})
      BY <1>2, <3>2, BeyondHasCause
    <3>4. Beyond(t)'
      BY <3>2, SameKeepsWhole
    <3> QED BY <3>2, <3>3, <3>4 DEF FaultHasCause, Torn, graphVars
  <2>3. CASE fault' = FALSE
    BY <2>3 DEF FaultHasCause
  <2>4. ASSUME Next, ~ \E t \in Threads : ReadsBeyond(t) PROVE fault' = FALSE
    <3>1. ~fault /\ fault \in BOOLEAN
      BY <1>2, <2>4 DEF Next, IInv, Types, ElementTypes
    <3>2. ASSUME NEW t \in Threads, Step(t) PROVE fault' = fault
      <4>1. TakeGlobal(t) \/ FirstElement(t) \/ ReadEntry(t) \/ Descend(t) \/ Expand(t) \/ Select(t)
              => fault' = fault
        BY DEF TakeGlobal, FirstElement, ReadEntry, Descend, Expand, Select
      <4>2. SkipLevel(t) \/ Connect(t) \/ Publish(t) \/ CopyMaxLevel(t) \/ CopyEntry(t) \/ ReadNeighbours(t)
              => fault' = fault
        BY DEF SkipLevel, Connect, Publish, CopyMaxLevel, CopyEntry, Copy, ReadNeighbours
      <4>3. \A n \in Ids : ReadHop(t, n) \/ Rewrite(t, n) => fault' = fault
        BY DEF ReadHop, Rewrite
      <4> QED BY <2>4, <3>2, <4>1, <4>2, <4>3 DEF Step
    <3>3. \A t \in Threads, v \in Vectors :
            /\ \A h \in Levels : AddNew(t, v, h) => fault' = fault
            /\ \A i \in Ids : AddExisting(t, i, v) => fault' = fault
      BY DEF AddNew, AddExisting
    <3>4. \A i \in Ids : MarkDelete(i) \/ UnmarkDelete(i) => fault' = fault
      BY DEF MarkDelete, UnmarkDelete
    <3> QED BY <2>4, <3>1, <3>2, <3>3, <3>4 DEF Next
  <2> QED BY <1>2, <2>1, <2>2, <2>3, <2>4
<1> QED
  BY <1>1, <1>2, InductiveInvariant, WholeHolds, PTL DEF Spec

-----------------------------------------------------------------------------
(* What a search finds in a graph that is whole.                            *)

\* What is reached is closed, and holds where it began.
LEMMA ReachedIs ==
    ASSUME NEW to, NEW o \in DOMAIN to, \A a \in DOMAIN to : to[a] \subseteq DOMAIN to
    PROVE  /\ ReachedFrom(o, to) \subseteq DOMAIN to /\ o \in ReachedFrom(o, to)
           /\ \A a \in ReachedFrom(o, to) : to[a] \subseteq ReachedFrom(o, to)
  BY DEF ReachedFrom

\* The nearest of a list is an element, and no other element than a nearer one.
LEMMA NearerIs ==
    ASSUME IInv, NEW q \in Vectors, NEW o \in Stored, NEW l \in Levels
    PROVE  /\ Nearer(q, o, l) \in Stored
           /\ Nearer(q, o, l) = o \/ Dist(q, vec[Nearer(q, o, l)]) < Dist(q, vec[o])
<1> DEFINE J == links[o][l] \cup {o}
           S == {Pair(q, j) : j \in J}
<1>1. J \subseteq Stored
  BY StoredIds, LinksIs DEF IInv
<1>2. \A j \in Stored : vec[j] \in Vectors
  BY DEF IInv, Types, ElementTypes
<1>3. \A j \in J : Pair(q, j)[1] = Dist(q, vec[j]) /\ Pair(q, j)[2] = j /\ Dist(q, vec[j]) \in Nat
  BY <1>1, <1>2, GraphAssumption DEF Pair
<1>4. S # {} /\ \A p \in S : p[1] \in Nat /\ p[2] \in J /\ p[1] = Dist(q, vec[p[2]])
  BY <1>3
<1> HIDE DEF S
<1>5. Closest(S) \in S
  BY <1>4, ClosestIs
<1>6. Nearer(q, o, l) = IF Closest(S)[1] < Dist(q, vec[o]) THEN Closest(S)[2] ELSE o
  BY DEF Nearer, S
<1> QED
  BY <1>1, <1>4, <1>5, <1>6

\* The greedy walk along a level ends at an element.
LEMMA NearestIs ==
    ASSUME IInv, NEW q \in Vectors, NEW o \in Stored, NEW l \in Levels
    PROVE  Nearest(q, o, l) \in Stored
<1> DEFINE to == [i \in Stored |-> {Nearer(q, i, l)}]
           R == ReachedFrom(o, to)
           D == {Dist(q, vec[x]) : x \in R}
<1>1. R \subseteq Stored /\ o \in R /\ \A a \in R : Nearer(q, a, l) \in R
  <2>1. DOMAIN to = Stored /\ \A a \in Stored : to[a] = {Nearer(q, a, l)} /\ to[a] \subseteq Stored
    BY NearerIs
  <2> HIDE DEF to
  <2>2. R \subseteq Stored /\ o \in R /\ \A a \in R : to[a] \subseteq R
    BY <2>1, ReachedIs
  <2> QED BY <2>1, <2>2
<1> HIDE DEF R
<1>2. \A x \in R : Dist(q, vec[x]) \in Nat /\ Dist(q, vec[x]) \in D
  BY <1>1, GraphAssumption DEF IInv, Types, ElementTypes
<1>3. D \subseteq Nat /\ D # {}
  BY <1>1, <1>2
<1>4. PICK d \in D : \A e \in D : d <= e
  <2> HIDE DEF D
  <2> QED BY <1>3, LeastNat
<1>5. PICK x \in R : Dist(q, vec[x]) = d
  OBVIOUS
<1>6. Nearer(q, x, l) = x
  <2>1. Nearer(q, x, l) \in R /\ x \in Stored
    BY <1>1
  <2>2. d <= Dist(q, vec[Nearer(q, x, l)]) /\ Dist(q, vec[Nearer(q, x, l)]) \in Nat /\ d \in Nat
    BY <1>2, <1>3, <1>4, <2>1
  <2>3. Nearer(q, x, l) = x \/ Dist(q, vec[Nearer(q, x, l)]) < Dist(q, vec[x])
    BY <2>1, NearerIs
  <2> QED BY <1>5, <2>2, <2>3
<1>7. Nearest(q, o, l) \in R
  BY <1>6 DEF Nearest, R
<1> QED
  BY <1>1, <1>7

\* So the walk down to level 0 ends at one.
LEMMA DescendedIs ==
    ASSUME IInv, NEW q \in Vectors, maxlevel_ \in Levels, enterpoint_node_ \in Stored
    PROVE  Descended(q) \in Stored
<1> DEFINE m == maxlevel_
           Walks(w, k) == /\ w \in [0 .. m -> Stored] /\ w[m] = enterpoint_node_
                          /\ \A l \in k + 1 .. m : w[l - 1] = Nearest(q, w[l], l)
           L == {k \in 0 .. m : \E w : Walks(w, k)}
<1>1. m \in Nat /\ \A l \in 0 .. m : l \in Levels
  BY GraphAssumption DEF Levels
<1>2. m \in L
  <2>1. Walks([l \in 0 .. m |-> enterpoint_node_], m)
    BY <1>1
  <2> QED BY <1>1, <2>1
<1>3. PICK k \in L : \A n \in L : k <= n
  <2>1. L \subseteq 0 .. m
    OBVIOUS
  <2> HIDE DEF L
  <2>2. L \subseteq Nat /\ L # {}
    BY <1>1, <1>2, <2>1
  <2> QED BY <2>2, LeastNat
<1>4. k \in 0 .. m
  OBVIOUS
<1>5. k = 0
  <2>1. SUFFICES ASSUME k # 0 PROVE FALSE
    OBVIOUS
  <2>2. PICK w : Walks(w, k)
    OBVIOUS
  <2>3. k - 1 \in 0 .. m /\ w[k] \in Stored /\ k \in Levels
    BY <1>1, <1>4, <2>1, <2>2
  <2>4. Nearest(q, w[k], k) \in Stored
    BY <2>3, NearestIs
  <2> DEFINE u == [w EXCEPT ![k - 1] = Nearest(q, w[k], k)]
  <2>5. u \in [0 .. m -> Stored] /\ \A l \in 0 .. m : u[l] = IF l = k - 1 THEN Nearest(q, w[k], k) ELSE w[l]
    BY <2>2, <2>3, <2>4
  <2>6. u[m] = enterpoint_node_
    BY <1>1, <1>4, <2>2, <2>5
  <2>7. ASSUME NEW l \in (k - 1) + 1 .. m PROVE u[l - 1] = Nearest(q, u[l], l)
    <3>1. l \in 0 .. m /\ l - 1 \in 0 .. m /\ l # k - 1
      BY <1>1, <1>4, <2>1
    <3>2. CASE l = k
      BY <2>5, <3>1, <3>2
    <3>3. CASE l # k
      <4>1. l \in k + 1 .. m /\ l - 1 # k - 1
        BY <1>1, <1>4, <2>1, <3>3
      <4> QED BY <2>2, <2>5, <3>1, <4>1
    <3> QED BY <3>2, <3>3
  <2>8. Walks(u, k - 1)
    BY <2>5, <2>6, <2>7
  <2>9. k - 1 \in L
    BY <2>3, <2>8
  <2> QED BY <1>3, <1>4, <2>9
<1>6. \E w \in [0 .. m -> Stored] : /\ w[m] = enterpoint_node_
                                    /\ \A l \in 1 .. m : w[l - 1] = Nearest(q, w[l], l)
  <2>1. PICK w : Walks(w, k)
    OBVIOUS
  <2>2. k + 1 .. m = 1 .. m
    BY <1>1, <1>5
  <2> QED BY <2>1, <2>2
<1> DEFINE walk == CHOOSE w \in [0 .. maxlevel_ -> Stored] :
                      /\ w[maxlevel_] = enterpoint_node_
                      /\ \A l \in 1 .. maxlevel_ : w[l - 1] = Nearest(q, w[l], l)
<1>7. walk \in [0 .. m -> Stored]
  BY <1>6
<1>8. Descended(q) = walk[0]
  BY DEF Descended
<1> HIDE DEF walk
<1>9. 0 \in 0 .. m
  BY <1>1
<1> QED
  BY <1>7, <1>8, <1>9

\* When nobody inserts, a graph with elements has an entry point.
LEMMA IdleEntry ==
    ASSUME IInv, AllIdle, count > 0
    PROVE  maxlevel_ \in Levels /\ enterpoint_node_ \in Stored
<1>1. Types /\ EntryInv
  BY DEF IInv
<1>2. 0 \in Stored /\ level[0] \in Nat
  <2>1. 0 \in Stored
    BY <1>1, StoredIds DEF Stored
  <2> QED BY <1>1, <2>1, StoredIds, NumbersAre DEF Types, ElementTypes
<1>3. level[0] <= maxlevel_
  BY <1>1, <1>2 DEF EntryInv, AllIdle, Inserting
<1>4. maxlevel_ # None
  BY <1>2, <1>3 DEF None
<1>5. Present(enterpoint_node_) /\ maxlevel_ = level[enterpoint_node_]
  BY <1>1, <1>4 DEF EntryInv
<1>6. enterpoint_node_ \in Stored /\ enterpoint_node_ \in Ids
  BY <1>1, <1>5, StoredIds DEF Present
<1> QED
  BY <1>1, <1>5, <1>6 DEF Types, ElementTypes

\* When nobody inserts, what a search does not find is cut off by a given-up link.
LEMMA LostHasCause ==
    ASSUME IInv, Whole
    PROVE  NotFoundHasCause
<1>1. SUFFICES ASSUME AllIdle, count > 0, NEW q \in Vectors,
                      NEW z \in (Stored \ deleted) \ SearchKnn(q)
               PROVE  \E i \in ((Stored \ deleted) \ SearchKnn(q)) \cup deleted : <<i, 0>> \in dropped
  BY DEF NotFoundHasCause
<1> DEFINE to == [i \in Stored |-> links[i][0]]
           R == ReachedFrom(Descended(q), to)
<1>2. Types /\ OnePiece(0) /\ Stored \subseteq Ids
  BY NumbersAre, StoredIds DEF IInv, Whole
<1>3. Descended(q) \in Stored
  BY <1>1, IdleEntry, DescendedIs
<1>4. R \subseteq Stored /\ Descended(q) \in R /\ \A a \in R : links[a][0] \subseteq R
  <2>1. DOMAIN to = Stored /\ \A a \in Stored : to[a] = links[a][0] /\ to[a] \subseteq Stored
    BY <1>2, LinksIs, NumbersAre
  <2> HIDE DEF to
  <2>2. R \subseteq Stored /\ Descended(q) \in R /\ \A a \in R : to[a] \subseteq R
    BY <1>3, <2>1, ReachedIs
  <2> QED BY <2>1, <2>2
<1>5. SearchKnn(q) = R \ deleted
  BY DEF SearchKnn
<1> HIDE DEF R
<1>6. Members(0) = Stored
  <2> SUFFICES ASSUME NEW j \in Stored PROVE Listed(j, 0)
    BY DEF Members
  <2>1. 0 <= level[j]
    BY <1>2, NumbersAre DEF Types, ElementTypes
  <2> QED BY <1>1, <2>1 DEF Listed, AllIdle, Inserting
<1>7. R # {} /\ R # Members(0) /\ R \in SUBSET Members(0)
  BY <1>1, <1>4, <1>5, <1>6
<1>8. PICK s \in R, u \in Stored \ R : Joined(s, u, 0)
  BY <1>2, <1>6, <1>7 DEF OnePiece
<1>9. <<u, 0>> \in dropped
  BY <1>1, <1>4, <1>8 DEF Joined, AllIdle, Inserting
<1> QED
  BY <1>5, <1>8, <1>9

\* In every state with nobody in addPoint, what a search does not find is cut off by a
\* link that a list has given up or not taken in.
THEOREM NotFoundHasCauseHolds == Spec => []NotFoundHasCause
<1>1. IInv /\ Whole => NotFoundHasCause
  BY LostHasCause
<1> QED
  BY <1>1, InductiveInvariant, WholeHolds, PTL
=============================================================================
