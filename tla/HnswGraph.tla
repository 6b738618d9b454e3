----------------------------- MODULE HnswGraph -----------------------------
(***************************************************************************)
(* The graph of hnswlib/hnswalg.h as this program uses it: threads insert  *)
(* points and replace those whose label is there already, each access to a *)
(* link list under that list's mutex a step of its own.  The workers of a  *)
(* parallel merge do this to one graph at the same time.                   *)
(*                                                                         *)
(* An element stands for its label, which it keeps.  Vectors are points    *)
(* with a distance; no two elements have the same one, so no queue meets a *)
(* tie, and a link list is the set of its elements, whose order decides    *)
(* nothing else.                                                           *)
(***************************************************************************)
EXTENDS Integers, FiniteSets

CONSTANTS Threads,         \* that call addPoint
          Vectors,
          Dist(_, _),      \* fstdistfunc_
          Far,             \* the largest number of its type, which no distance is
          MaxElements, EfConstruction,
          M, MaxM0,        \* links of a new element, and places of a list at level 0
          TopLevel,        \* bound on the random level of an element
          MaxHigh,         \* bound on the elements above level 0
          MaxCalls,        \* bound on the calls of addPoint
          MaxUpdates,
          MaxMarked        \* bound on the marked elements

None   == -1

ASSUME GraphAssumption ==
    /\ None \notin Threads /\ None \notin Vectors
    /\ MaxElements \in Nat \ {0} /\ TopLevel \in Nat
    /\ M \in Nat \ {0} /\ MaxM0 \in Nat /\ M <= MaxM0
    /\ EfConstruction \in Nat /\ EfConstruction >= M
    /\ MaxHigh \in Nat /\ MaxCalls \in Nat /\ MaxUpdates \in Nat /\ MaxMarked \in Nat
    /\ \A v, w \in Vectors : Dist(v, w) \in Nat /\ Dist(v, w) = Dist(w, v)
    /\ Far \in Nat /\ \A v, w \in Vectors : Dist(v, w) < Far

Ids    == 0 .. MaxElements - 1
Levels == 0 .. TopLevel

VARIABLES
    count,             \* cur_element_count
    level, vec,        \* element_levels_ and the vector of each id
    deleted,           \* the ids with DELETE_MARK
    links,             \* the link list of each id at each level
    enterpoint_node_, maxlevel_,
    global,            \* the thread that holds the mutex of this name
    pc,                \* where in addPoint each thread is
    job,               \* its element, and copies of the two above
    at, obj, near,     \* level, currObj, curdist
    top, cand, seen,   \* the queues and the visited list of searchBaseLayer;
                       \* in updatePoint, seen is sCand
    hop, rest,         \* listOneHop; the neighbours a loop still has to visit
    dropped,           \* history: <<id, level>> taken out of a link list, or not let in
    fault,             \* memory was read that is no link list and no neighbour
    updates            \* history, for the bound

graphVars == <<count, level, vec, deleted, links>>
entryVars == <<enterpoint_node_, maxlevel_, global>>
walkVars  == <<at, obj, near, top, cand, seen>>
vars == <<graphVars, entryVars, pc, job, walkVars, hop, rest, dropped, fault, updates>>

-----------------------------------------------------------------------------
(* Pairs of a distance and an id, as the queues hold them.                  *)

Pair(v, i)  == <<Dist(v, vec[i]), i>>
IdsOf(S)    == {p[2] : p \in S}
Closest(S)  == CHOOSE p \in S : \A q \in S : p[1] <= q[1]
Furthest(S) == CHOOSE p \in S : \A q \in S : p[1] >= q[1]
Best(S, n)  == {p \in S : Cardinality({q \in S : q[1] < p[1]}) < n}

\* lowerBound: the distance a candidate has to beat.
LowerBound(S) == IF S = {} THEN Far ELSE Furthest(S)[1]

\* The order in which queue_closest returns pairs.
Sooner(p, q) == p[1] < q[1] \/ (p[1] = q[1] /\ p[2] > q[2])

\* getNeighborsByHeuristic2: from the nearest on, those that are not nearer to
\* one already taken, until they are n.
Heuristic(S, n) ==
    IF Cardinality(S) < n THEN S
    ELSE CHOOSE taken \in SUBSET S : \A p \in S :
            LET before == {r \in taken : Sooner(r, p)}
            IN  p \in taken <=> /\ Cardinality(before) < n
                               /\ \A r \in before : Dist(vec[r[2]], vec[p[2]]) >= p[1]

MaxLinks(l) == IF l = 0 THEN MaxM0 ELSE M

-----------------------------------------------------------------------------
Set1(f, t, x) == [f EXCEPT ![t] = x]
Query(t)      == vec[job[t].id]
Busy(t)       == pc[t] # "idle"
Inserting(t)  == Busy(t) /\ ~job[t].update

\* A thread that inserts an element holds the mutex of its lists to the end, and
\* would wait for itself; other lists are locked for one step only.
LockFree(i) == \A u \in Threads : Inserting(u) => job[u].id # i

NoJob == [id |-> None, update |-> FALSE, max |-> None, entry |-> None]

Walk(t, l, o, d, best, open, visited) ==
    /\ at' = Set1(at, t, l) /\ obj' = Set1(obj, t, o) /\ near' = Set1(near, t, d)
    /\ top' = Set1(top, t, best) /\ cand' = Set1(cand, t, open)
    /\ seen' = Set1(seen, t, visited)

\* searchBaseLayer begins at o.
StartSearch(t, o, l) ==
    /\ pc' = Set1(pc, t, "search")
    /\ IF o \in deleted
       THEN Walk(t, l, o, 0, {}, {<<Far, o>>}, {o})
       ELSE Walk(t, l, o, 0, {Pair(Query(t), o)}, {Pair(Query(t), o)}, {o})

\* The greedy descent begins at the entry point, if there are levels to descend.
StartDescent(t, o, from, to) ==
    IF from > to
    THEN /\ pc' = Set1(pc, t, "descend")
         /\ Walk(t, from, o, Dist(Query(t), vec[o]), {}, {}, {})
    ELSE StartSearch(t, o, to)

\* addPoint returns, and its mutexes are released.
Return(t) ==
    /\ pc' = Set1(pc, t, "idle") /\ job' = Set1(job, t, NoJob)
    /\ Walk(t, 0, None, 0, {}, {}, {})
    /\ hop' = Set1(hop, t, {}) /\ rest' = Set1(rest, t, {})

OnwardAboveZero(t, o) ==
    IF at[t] > 1
    THEN StartSearch(t, o, at[t] - 1) /\ rest' = Set1(rest, t, {}) /\ UNCHANGED <<job, hop>>
    ELSE IF Inserting(t) /\ level[job[t].id] > job[t].max
    THEN /\ pc' = Set1(pc, t, "publish") /\ rest' = Set1(rest, t, {})
         /\ Walk(t, 0, None, 0, {}, {}, {}) /\ UNCHANGED <<job, hop>>
    ELSE Return(t)

\* After one level: the level below, the new entry point, or the end.
Onward(t, o) ==
    IF at[t] > 0
    THEN StartSearch(t, o, at[t] - 1) /\ rest' = Set1(rest, t, {}) /\ UNCHANGED <<job, hop>>
    ELSE IF Inserting(t) /\ level[job[t].id] > job[t].max
    THEN /\ pc' = Set1(pc, t, "publish") /\ rest' = Set1(rest, t, {})
         /\ Walk(t, 0, None, 0, {}, {}, {}) /\ UNCHANGED <<job, hop>>
    ELSE Return(t)

\* A link list gets new contents; offered is to come in.
SetLinks(i, l, offered, S) ==
    /\ links' = [links EXCEPT ![i][l] = S]
    /\ dropped' = dropped \cup {<<j, l>> : j \in (links[i][l] \cup offered) \ S}

-----------------------------------------------------------------------------
Init ==
    /\ count = 0 /\ level = [i \in Ids |-> 0] /\ vec = [i \in Ids |-> None]
    /\ deleted = {} /\ links = [i \in Ids |-> [l \in Levels |-> {}]]
    /\ enterpoint_node_ = None /\ maxlevel_ = None /\ global = None
    /\ pc = [t \in Threads |-> "idle"] /\ job = [t \in Threads |-> NoJob]
    /\ at = [t \in Threads |-> 0] /\ obj = [t \in Threads |-> None]
    /\ near = [t \in Threads |-> 0]
    /\ top = [t \in Threads |-> {}] /\ cand = [t \in Threads |-> {}]
    /\ seen = [t \in Threads |-> {}]
    /\ hop = [t \in Threads |-> {}] /\ rest = [t \in Threads |-> {}]
    /\ dropped = {} /\ fault = FALSE
    /\ updates = 0

\* A label's operations are serialised by its mutex.  Marks are set by the one
\* caller of an index, so a graph with marks sees one thread at a time.
Begins(t, i) ==
    /\ ~Busy(t)
    /\ \A u \in Threads \ {t} : Busy(u) => job[u].id # i /\ deleted = {}

Unused(v, i) == \A j \in 0 .. count - 1 : j # i => vec[j] # v

\* addPoint, of a label that is new, up to the mutex for the maximum level.
AddNew(t, v, h) ==
    /\ Begins(t, count) /\ count < MaxElements /\ count + updates < MaxCalls /\ Unused(v, count)
    /\ h > 0 => Cardinality({i \in Ids : level[i] > 0}) < MaxHigh
    /\ count' = count + 1
    /\ level' = Set1(level, count, h) /\ vec' = Set1(vec, count, v)
    /\ job' = Set1(job, t, [NoJob EXCEPT !.id = count])
    /\ pc' = Set1(pc, t, "global")
    /\ UNCHANGED <<deleted, links, entryVars, walkVars, hop, rest,
                   dropped, fault, updates>>

TakeGlobalKept(t) ==
    /\ pc[t] = "global" /\ global = None
    /\ global' = t
    /\ job' = [job EXCEPT ![t].max = maxlevel_]
    /\ pc' = Set1(pc, t, "entry")
    /\ UNCHANGED <<graphVars, enterpoint_node_, maxlevel_, walkVars, hop, rest,
                   dropped, fault, updates>>

\* An element that raises the maximum keeps the mutex till the end.
TakeGlobal(t) ==
    /\ pc[t] = "global" /\ global = None
    /\ global' = IF level[job[t].id] > maxlevel_ THEN t ELSE None
    /\ job' = [job EXCEPT ![t].max = maxlevel_]
    /\ pc' = Set1(pc, t, "entry")
    /\ UNCHANGED <<graphVars, enterpoint_node_, maxlevel_, walkVars, hop, rest,
                   dropped, fault, updates>>

FirstElement(t) ==
    /\ pc[t] = "entry" /\ enterpoint_node_ = None
    /\ enterpoint_node_' = job[t].id /\ maxlevel_' = level[job[t].id]
    /\ global' = None /\ Return(t)
    /\ UNCHANGED <<graphVars, dropped, fault, updates>>

LowerOf(a, b) == IF a <= b THEN a ELSE b

ReadEntryNoMin(t) ==
    /\ pc[t] = "entry" /\ enterpoint_node_ # None
    /\ job' = [job EXCEPT ![t].entry = enterpoint_node_]
    /\ StartDescent(t, enterpoint_node_, job[t].max, level[job[t].id])
    /\ UNCHANGED <<graphVars, entryVars, hop, rest, dropped, fault, updates>>

ReadEntry(t) ==
    /\ pc[t] = "entry" /\ enterpoint_node_ # None
    /\ job' = [job EXCEPT ![t].entry = enterpoint_node_]
    /\ StartDescent(t, enterpoint_node_, job[t].max,
                    LowerOf(level[job[t].id], job[t].max))
    /\ UNCHANGED <<graphVars, entryVars, hop, rest,
                   dropped, fault, updates>>

-----------------------------------------------------------------------------
(* The walk through the levels, of an insertion and of an update's repair.  *)

\* One turn of the greedy loop: the nearest of currObj and its neighbours.
Descend(t) ==
    LET o    == obj[t]
        best == Closest({<<near[t], o>>} \cup {Pair(Query(t), j) : j \in links[o][at[t]]})
    IN  /\ pc[t] = "descend" /\ LockFree(o) /\ level[o] >= at[t]
        /\ IF best[1] < near[t]
           THEN Walk(t, at[t], best[2], best[1], {}, {}, {}) /\ UNCHANGED pc
           ELSE StartDescent(t, o, at[t] - 1, level[job[t].id])
        /\ UNCHANGED <<graphVars, entryVars, job, hop, rest,
                       dropped, fault, updates>>

SearchStops(t) ==
    \/ cand[t] = {}
    \/ /\ cand[t] # {} /\ Closest(cand[t])[1] > LowerBound(top[t])
       /\ Cardinality(top[t]) = EfConstruction

\* searchBaseLayer looks at the list of its nearest candidate.
Expand(t) ==
    LET c    == Closest(cand[t])
        n    == c[2]
        new  == {Pair(Query(t), j) : j \in links[n][at[t]] \ seen[t]}
        best == Best(top[t] \cup {p \in new : p[2] \notin deleted}, EfConstruction)
    IN  /\ pc[t] = "search" /\ ~SearchStops(t)
        /\ LockFree(n) /\ level[n] >= at[t]
        /\ Walk(t, at[t], obj[t], 0, best,
                (cand[t] \ {c}) \cup {p \in new : \/ Cardinality(best) < EfConstruction
                                                  \/ p[1] <= LowerBound(best)},
                seen[t] \cup IdsOf(new))
        /\ UNCHANGED <<graphVars, entryVars, pc, job, hop, rest,
                       dropped, fault, updates>>

ChosenWithSelf(t) ==
    LET e == job[t].entry
    IN  IF e \in deleted
        THEN Heuristic(Best(top[t] \cup {Pair(Query(t), e)}, EfConstruction), M)
        ELSE Heuristic(top[t], M)

\* What the search found, in an update without the element itself, and the entry
\* point if it is a deleted one: from these the neighbours are chosen.
Chosen(t) ==
    LET found == {p \in top[t] : job[t].update => p[2] # job[t].id}
        e     == job[t].entry
    IN  IF e \in deleted /\ (job[t].update => found # {})
        THEN Heuristic(Best(found \cup {Pair(Query(t), e)}, EfConstruction), M)
        ELSE Heuristic(found, M)

\* The walk is at an element that has no list for the level; or an insertion that
\* found nobody takes the last of no neighbours.
Beyond(t) ==
    \/ pc[t] = "descend" /\ level[obj[t]] < at[t]
    \/ pc[t] = "search" /\ ~SearchStops(t) /\ level[Closest(cand[t])[2]] < at[t]
    \/ pc[t] = "search" /\ SearchStops(t) /\ Chosen(t) = {} /\ ~job[t].update

ReadsBeyond(t) ==
    /\ Beyond(t) /\ fault' = TRUE
    /\ UNCHANGED <<graphVars, entryVars, pc, job, walkVars, hop, rest,
                   dropped, updates>>

\* mutuallyConnectNewElement fills the element's own list.
Select(t) ==
    /\ pc[t] = "search" /\ SearchStops(t) /\ Chosen(t) # {}
    /\ SetLinks(job[t].id, at[t], {}, IdsOf(Chosen(t)))
    /\ obj' = Set1(obj, t, Closest(Chosen(t))[2])
    /\ rest' = Set1(rest, t, IdsOf(Chosen(t))) /\ pc' = Set1(pc, t, "connect")
    /\ top' = Set1(top, t, {}) /\ cand' = Set1(cand, t, {}) /\ seen' = Set1(seen, t, {})
    /\ UNCHANGED <<count, level, vec, deleted, entryVars, job, at, near, hop, fault, updates>>

\* An update that finds nobody else leaves the level as it is.
SkipLevel(t) ==
    /\ pc[t] = "search" /\ SearchStops(t) /\ Chosen(t) = {} /\ job[t].update
    /\ Onward(t, obj[t])
    /\ UNCHANGED <<graphVars, entryVars, dropped, fault, updates>>

\* The list of a neighbour n with the element i in it.
Linked(n, i, l, update) ==
    IF update /\ i \in links[n][l] THEN links[n][l]
    ELSE IF Cardinality(links[n][l]) < MaxLinks(l) THEN links[n][l] \cup {i}
    ELSE IdsOf(Heuristic({Pair(vec[n], j) : j \in links[n][l] \cup {i}}, MaxLinks(l)))

Connect(t) ==
    LET n == Furthest({Pair(Query(t), j) : j \in rest[t]})[2]
    IN  /\ pc[t] = "connect" /\ LockFree(n)
        /\ SetLinks(n, at[t], {job[t].id}, Linked(n, job[t].id, at[t], job[t].update))
        /\ IF rest[t] = {n} THEN Onward(t, obj[t])
           ELSE rest' = Set1(rest, t, rest[t] \ {n}) /\ UNCHANGED <<pc, job, walkVars, hop>>
        /\ UNCHANGED <<count, level, vec, deleted, entryVars, fault, updates>>

\* The end of an insertion that raised the maximum.
Publish(t) ==
    /\ pc[t] = "publish"
    /\ enterpoint_node_' = job[t].id /\ maxlevel_' = level[job[t].id]
    /\ global' = None /\ Return(t)
    /\ UNCHANGED <<graphVars, dropped, fault, updates>>

-----------------------------------------------------------------------------
(* addPoint of a label that is there: updatePoint.                          *)

AddExisting(t, i, v) ==
    /\ Begins(t, i) /\ i < count /\ updates < MaxUpdates /\ count + updates < MaxCalls /\ Unused(v, i)
    /\ updates' = updates + 1
    /\ vec' = Set1(vec, i, v) /\ deleted' = deleted \ {i}
    /\ job' = Set1(job, t, [NoJob EXCEPT !.id = i, !.update = TRUE])
    /\ pc' = Set1(pc, t, "copy")
    /\ UNCHANGED <<count, level, links, entryVars, walkVars, hop, rest,
                   dropped, fault>>

\* The two copies are read without a mutex, and the build may order the reads
\* either way; the only element has nobody to be connected to.
Copy(t, max, entry) ==
    /\ IF max = None \/ entry = None
       THEN /\ job' = [job EXCEPT ![t].max = max, ![t].entry = entry]
            /\ UNCHANGED <<pc, walkVars, hop, rest>>
       ELSE IF entry = job[t].id /\ count = 1 THEN Return(t)
       ELSE /\ job' = [job EXCEPT ![t].max = max, ![t].entry = entry]
            /\ pc' = Set1(pc, t, "neighbours") /\ UNCHANGED <<walkVars, hop, rest>>
    /\ UNCHANGED <<graphVars, entryVars, dropped, fault, updates>>

CopyMaxLevel(t) ==
    pc[t] = "copy" /\ job[t].max = None /\ Copy(t, maxlevel_, job[t].entry)

CopyEntry(t) ==
    pc[t] = "copy" /\ job[t].entry = None /\ Copy(t, job[t].max, enterpoint_node_)

\* The next layer of the element, or the repair of its own connections.
NextLayer(t) ==
    IF at[t] < level[job[t].id]
    THEN pc' = Set1(pc, t, "neighbours") /\ Walk(t, at[t] + 1, None, 0, {}, {}, {})
    ELSE StartDescent(t, job[t].entry, job[t].max, level[job[t].id])

ReadNeighbours(t) ==
    LET i == job[t].id
        S == links[i][at[t]]
    IN  /\ pc[t] = "neighbours"
        /\ IF S = {} THEN NextLayer(t) /\ UNCHANGED <<hop, rest>>
           ELSE /\ pc' = Set1(pc, t, "hops")
                /\ hop' = Set1(hop, t, S) /\ rest' = Set1(rest, t, S)
                /\ Walk(t, at[t], None, 0, {}, {}, S \cup {i})
        /\ UNCHANGED <<graphVars, entryVars, job, dropped, fault, updates>>

ReadHop(t, n) ==
    /\ pc[t] = "hops" /\ n \in rest[t] /\ LockFree(n)
    /\ seen' = Set1(seen, t, seen[t] \cup links[n][at[t]])
    /\ IF rest[t] = {n}
       THEN pc' = Set1(pc, t, "rewrite") /\ rest' = Set1(rest, t, hop[t])
       ELSE rest' = Set1(rest, t, rest[t] \ {n}) /\ UNCHANGED pc
    /\ UNCHANGED <<graphVars, entryVars, job, at, obj, near, top, cand, hop,
                   dropped, fault, updates>>

\* A neighbour gets the best of what was read, in place of what it has now.
Rewrite(t, n) ==
    /\ pc[t] = "rewrite" /\ n \in rest[t] /\ LockFree(n)
    /\ SetLinks(n, at[t], {},
          IdsOf(Heuristic(Best({Pair(vec[n], j) : j \in seen[t] \ {n}}, EfConstruction),
                          MaxLinks(at[t]))))
    /\ IF rest[t] = {n} THEN NextLayer(t) /\ rest' = Set1(rest, t, {}) /\ hop' = Set1(hop, t, {})
       ELSE rest' = Set1(rest, t, rest[t] \ {n}) /\ UNCHANGED <<pc, walkVars, hop>>
    /\ UNCHANGED <<count, level, vec, deleted, entryVars, job, fault, updates>>

-----------------------------------------------------------------------------
MarkDelete(i) ==
    /\ \A t \in Threads : ~Busy(t)
    /\ i < count /\ i \notin deleted /\ Cardinality(deleted) < MaxMarked
    /\ deleted' = deleted \cup {i}
    /\ UNCHANGED <<count, level, vec, links, entryVars, pc, job, walkVars,
                   hop, rest, dropped, fault, updates>>

UnmarkDelete(i) ==
    /\ \A t \in Threads : ~Busy(t)
    /\ i \in deleted
    /\ deleted' = deleted \ {i}
    /\ UNCHANGED <<count, level, vec, links, entryVars, pc, job, walkVars,
                   hop, rest, dropped, fault, updates>>

\* Every step of a thread within addPoint.
Step(t) ==
    \/ TakeGlobal(t) \/ FirstElement(t) \/ ReadEntry(t)
    \/ Descend(t) \/ Expand(t) \/ ReadsBeyond(t)
    \/ Select(t) \/ SkipLevel(t)
    \/ Connect(t) \/ Publish(t)
    \/ CopyMaxLevel(t) \/ CopyEntry(t) \/ ReadNeighbours(t)
    \/ \E n \in Ids : ReadHop(t, n) \/ Rewrite(t, n)

Next ==
    /\ ~fault
    /\ \/ \E t \in Threads, v \in Vectors :
             (\E h \in Levels : AddNew(t, v, h)) \/ (\E i \in Ids : AddExisting(t, i, v))
       \/ \E t \in Threads : Step(t)
       \/ \E i \in Ids : MarkDelete(i) \/ UnmarkDelete(i)

Spec == Init /\ [][Next]_vars

-----------------------------------------------------------------------------
(* What a search sees: searchKnn with room for every element.               *)

Stored == 0 .. count - 1

\* What is reached from o where each element a leads to the elements to[a].
ReachedFrom(o, to) ==
    {x \in DOMAIN to : \A S \in SUBSET DOMAIN to :
        o \in S /\ (\A a \in S : to[a] \subseteq S) => x \in S}

\* The nearest of an element's list, if it is nearer than the element itself.
Nearer(q, o, l) ==
    LET b == Closest({Pair(q, j) : j \in links[o][l] \cup {o}})
    IN  IF b[1] < Dist(q, vec[o]) THEN b[2] ELSE o

\* Where the greedy walk along level l ends.
Nearest(q, o, l) ==
    CHOOSE x \in ReachedFrom(o, [i \in Stored |-> {Nearer(q, i, l)}]) : Nearer(q, x, l) = x

\* Down to level 0: w[l] is where the walk along level l begins.
Descended(q) ==
    LET walk == CHOOSE w \in [0 .. maxlevel_ -> Stored] :
                    /\ w[maxlevel_] = enterpoint_node_
                    /\ \A l \in 1 .. maxlevel_ : w[l - 1] = Nearest(q, w[l], l)
    IN  walk[0]

SearchKnn(q) ==
    ReachedFrom(Descended(q), [i \in Stored |-> links[i][0]]) \ deleted

-----------------------------------------------------------------------------
AllIdle == \A t \in Threads : ~Busy(t)

TypeOK ==
    /\ count \in 0 .. MaxElements /\ level \in [Ids -> Levels] /\ deleted \subseteq Ids
    /\ \A i \in Ids : vec[i] \in Vectors \cup {None}
    /\ links \in [Ids -> [Levels -> SUBSET Ids]]
    /\ enterpoint_node_ \in Ids \cup {None} /\ maxlevel_ \in Levels \cup {None}
    /\ global \in Threads \cup {None}
    /\ fault \in BOOLEAN /\ dropped \subseteq Ids \X Levels
    /\ updates \in 0 .. MaxUpdates

\* The graph is sound in every state: its types; a list is no longer than its
\* place, never names its own element, and only names elements that have a list
\* on that level; and when nobody is raising it, the entry point is on the
\* highest level of all elements that are in the graph.
GraphSound ==
    /\ TypeOK
    /\ \A i \in Ids, l \in Levels :
          /\ Cardinality(links[i][l]) <= MaxLinks(l)
          /\ \A j \in links[i][l] : j # i /\ j < count /\ l <= level[j] /\ l <= level[i]
    /\ global = None /\ enterpoint_node_ # None =>
          /\ maxlevel_ = level[enterpoint_node_]
          /\ \A i \in 0 .. count - 1 :
                (\A t \in Threads : job[t].id = i => pc[t] # "global") => level[i] <= maxlevel_

\* checkIntegrity and searchKnn: an element that no search can reach is cut off
\* by a link that some list gave up for another one, or did not take in.  Threads
\* that insert at the same time lose none.
NotFoundHasCause ==
    AllIdle /\ count > 0 =>
        \A q \in Vectors :
            LET lost == (Stored \ deleted) \ SearchKnn(q)
            IN  lost = {} \/ \E i \in lost \cup deleted : <<i, 0>> \in dropped

\* Memory that is no link list is read only by an update whose copies of the
\* entry point and the maximum level are from before and after an insertion that
\* raised them; an insertion finds no neighbour only when elements are marked and
\* a list has given up a link.
FaultHasCause ==
    fault => \E t \in Threads :
        /\ Beyond(t)
        /\ \/ job[t].update /\ level[job[t].entry] < job[t].max
           \/ ~job[t].update /\ deleted # {} /\ dropped # {}

\* The lists a thread may lock next, and whether it has to wait.
Wanted(t) ==
    CASE pc[t] = "descend" -> {obj[t]}
      [] pc[t] = "search" /\ ~SearchStops(t) -> {Closest(cand[t])[2]}
      [] pc[t] = "connect" -> {Furthest({Pair(Query(t), j) : j \in rest[t]})[2]}
      [] pc[t] \in {"hops", "rewrite"} -> rest[t]
      [] OTHER -> {}

Waits(t) == \/ pc[t] = "global" /\ global # None
            \/ Wanted(t) # {} /\ \A i \in Wanted(t) : ~LockFree(i)

\* The mutexes of link lists and maximum level are never waited for in a circle,
\* nor by their holder: while threads are in addPoint, one of them can go on.
NoCircle == AllIdle \/ \E t \in Threads : Busy(t) /\ ~Waits(t)
=============================================================================
