---------------------------- MODULE IndexManager ----------------------------
(***************************************************************************)
(* The manager that keeps the indexes in use open                          *)
(* (src/src/BertIndexManager.cpp, src/include/LRUCache.hpp) and the bridge *)
(* that searches through it for a document store                           *)
(* (src/src/EmbeddingIndexer.cpp).  More names are used than fit into the  *)
(* cache: the one not used for longest is saved and closed, and opened     *)
(* again from its files when it is next used.                              *)
(*                                                                         *)
(* There is one caller.  Every index has one shard, of which the model     *)
(* keeps labels, vectors, entries and marks of deletion; a chunk is a      *)
(* number and stands for the document it came from.                        *)
(***************************************************************************)
EXTENDS Integers, Sequences, FiniteSets, SequencesExt

CONSTANTS
    Names,          \* of indexes
    Capacity,       \* indexes the cache keeps open
    MaxElements,    \* cfg.max_elements: labels of an index
    K,              \* cfg.default_k: candidates of a search
    Percent,        \* cfg.deletion_threshold_pc, in percent
    MaxDocs,        \* bound: chunks appended
    MaxGone,        \* bound: documents deleted in the store
    MaxCrashes      \* bound

\* calculate_cache_size gives 1 to 1000.
ASSUME ConstantsAssumption ==
    /\ Capacity \in 1 .. 1000 /\ {MaxElements, K} \subseteq Nat \ {0} /\ Percent \in 0 .. 100
    /\ {MaxDocs, MaxGone, MaxCrashes} \subseteq Nat

Labels == 0 .. MaxElements - 1
Nothing == [l \in Labels |-> 0]
NoGraph == [vec |-> Nothing, del |-> {}]
Closed == [open |-> FALSE]

VARIABLES
    usage,      \* the names in the cache, that used last first
    index,      \* the open indexes
    hix, obn,   \* the saved graph and the offset entries of each name
    query,      \* the search of the bridge that is under way
    answer,     \* what the last one returned
    gone,       \* documents the store has deleted
    docs, cleared, taken, reopened, age, crashes
                \* history: chunks so far, those taken out by clear (and whether it found
                \* a file) and by a search, the names opened again over saved files, the
                \* names by their last use, crashes

history == <<docs, cleared, taken, reopened, crashes>>
searching == <<query, answer>>
vars == <<usage, index, hix, obn, searching, gone, history, age>>

NoQuery == [on |-> FALSE]
Smaller(a, b) == IF a < b THEN a ELSE b
Larger(a, b) == IF a > b THEN a ELSE b

OpenIndex(n) ==
    [open |-> TRUE, shards |-> 1, vec |-> hix[n].vec, del |-> hix[n].del,
     next |-> 0, free |-> <<>>, unsaved |-> FALSE]

Graph(s) == [vec |-> s.vec, del |-> s.del]
InGraph(s) == {l \in Labels : s.vec[l] # 0 /\ l \notin s.del}

\* Chunks found under the name: vector, entry and no mark.
Holds(n) ==
    LET s == IF index[n].open THEN index[n] ELSE OpenIndex(n)
    IN {s.vec[l] : l \in {k \in InGraph(s) : s.shards = 1 /\ obn[n][k] = s.vec[k]}}

-----------------------------------------------------------------------------
(* Mutants: plausible bugs.  The specification uses none of them.           *)

Unsaved(h, n) == h[n]
TwoAtLeast(R) == Larger(1, (Cardinality(R) * Percent) \div 100) + 1
KeepsEntry(n, L) == obn[n]
LeavesStale == UNCHANGED <<usage, index, hix, obn, gone, history, age>>
EvictsUnsaved(n) == hix

-----------------------------------------------------------------------------
\* The destructor of an index, and the flush before it: only a graph with
\* additions is written.
Saved(h, n) == IF index[n].open /\ index[n].unsaved THEN Graph(index[n]) ELSE h[n]

(* The cache.                                                               *)

\* put: with a name too many in it, the cache gives up that used longest ago.
Evicted(n) == IF index[n].open \/ Len(usage) < Capacity THEN {} ELSE {Last(usage)}

\* A list in which n has come to the front.
Place(s, n) == CHOOSE p \in 1 .. Len(s) : s[p] = n
ToFront(s, n) == <<n>> \o (IF n \in ToSet(s) THEN RemoveAt(s, Place(s, n)) ELSE s)

\* get and put move the name to the front; evict_one takes the last one away.
UsageAfter(n) == IF Evicted(n) = {} THEN ToFront(usage, n) ELSE Front(ToFront(usage, n))

\* getOrCreate: the index, opened if it is not in the cache.
The(n) == IF index[n].open THEN index[n] ELSE OpenIndex(n)

\* What it leaves, if the index found is then s: the evicted one is saved, closed.
GetOrCreate(n, s) ==
    /\ usage' = UsageAfter(n)
    /\ index' = [m \in Names |-> IF m = n THEN s
                                 ELSE IF m \in Evicted(n) THEN Closed ELSE index[m]]
    /\ reopened' = IF ~index[n].open /\ hix[n] # NoGraph THEN reopened \cup {n} ELSE reopened
    /\ age' = ToFront(age, n)
HixAfter(n) == [m \in Names |-> IF m \in Evicted(n) THEN Saved(hix, m) ELSE hix[m]]

\* An operation that leaves the index s; with its flush, or before it is due.
Leaves(n, s) ==
    \/ GetOrCreate(n, s) /\ hix' = HixAfter(n)
    \/ /\ GetOrCreate(n, [s EXCEPT !.unsaved = FALSE])
       /\ hix' = IF s.unsaved THEN [HixAfter(n) EXCEPT ![n] = Graph(s)] ELSE HixAfter(n)

Idle == ~query.on

Init ==
    /\ usage = <<>> /\ index = [n \in Names |-> Closed]
    /\ hix = [n \in Names |-> NoGraph] /\ obn = [n \in Names |-> Nothing]
    /\ query = NoQuery /\ answer = {} /\ gone = {}
    /\ docs = 0 /\ cleared = {} /\ taken = {} /\ reopened = {} /\ age = <<>> /\ crashes = 0

\* getOrCreate alone, as the command `use` and the searches of the manager do.
Use(n) ==
    /\ Idle /\ GetOrCreate(n, The(n)) /\ hix' = HixAfter(n)
    /\ UNCHANGED <<obn, searching, gone, docs, cleared, taken, crashes>>

\* allocate_label
Label(s) == IF s.free # <<>> THEN Head(s.free) ELSE s.next
HasLabel(s) == s.free # <<>> \/ s.next < MaxElements
Full(s) == \A l \in Labels : s.vec[l] # 0

\* append, to an index that is not full: that would open a second shard.
AppendChunk(n) ==
    /\ Idle /\ docs < MaxDocs
    /\ LET s == The(n)
           l == Label(s)
       IN /\ s.shards = 1 /\ HasLabel(s) /\ ~Full(s)
          /\ Leaves(n, [s EXCEPT !.vec[l] = docs + 1, !.del = @ \ {l}, !.unsaved = TRUE,
                                 !.next = IF s.free = <<>> THEN @ + 1 ELSE @,
                                 !.free = IF @ = <<>> THEN @ ELSE Tail(@)])
          /\ obn' = [obn EXCEPT ![n][l] = docs + 1]
    /\ docs' = docs + 1
    /\ UNCHANGED <<searching, gone, cleared, taken, crashes>>

\* append throws: after a clear there is no shard, or there is no label left.
AppendRefused(n) ==
    /\ Idle
    /\ LET s == The(n) IN s.shards = 0 \/ (~HasLabel(s) /\ ~Full(s))
    /\ GetOrCreate(n, The(n)) /\ hix' = HixAfter(n)
    /\ UNCHANGED <<obn, searching, gone, docs, cleared, taken, crashes>>

Flush(n) ==
    /\ Idle /\ GetOrCreate(n, [The(n) EXCEPT !.unsaved = FALSE])
    /\ hix' = [HixAfter(n) EXCEPT ![n] = Saved(hix, n)]
    /\ UNCHANGED <<obn, searching, gone, docs, cleared, taken, crashes>>

\* flush_all goes through the cache and moves nothing.
FlushAll ==
    /\ Idle /\ hix' = [n \in Names |-> Saved(hix, n)]
    /\ index' = [n \in Names |-> IF index[n].open THEN [index[n] EXCEPT !.unsaved = FALSE]
                                                  ELSE Closed]
    /\ UNCHANGED <<usage, obn, searching, gone, history, age>>

\* ShardedIndex::Exists looks for the file of the graph.
Exists(n) == hix[n] # NoGraph

\* clear: the files are removed, and the index is left without a shard.
Clear(n) ==
    /\ Idle /\ Exists(n) /\ The(n).shards = 1
    /\ GetOrCreate(n, [The(n) EXCEPT !.shards = 0, !.unsaved = FALSE])
    /\ hix' = [HixAfter(n) EXCEPT ![n] = NoGraph]
    /\ obn' = [obn EXCEPT ![n] = Nothing]
    /\ cleared' = cleared \cup Holds(n) \X {TRUE}
    /\ UNCHANGED <<searching, gone, docs, taken, crashes>>

\* get returned no index: clear does nothing, and says nothing.
ClearIgnored(n) ==
    /\ Idle /\ ~Exists(n) /\ cleared' = cleared \cup Holds(n) \X {FALSE}
    /\ UNCHANGED <<usage, index, hix, obn, searching, gone, docs, taken, reopened, age, crashes>>

NoneOpen == usage' = <<>> /\ index' = [n \in Names |-> Closed] /\ age' = <<>>

\* The manager is destroyed: every index saves itself.
Quit ==
    /\ Idle /\ NoneOpen /\ hix' = [n \in Names |-> Saved(hix, n)]
    /\ UNCHANGED <<obn, searching, gone, history>>

Crash ==
    /\ crashes < MaxCrashes /\ crashes' = crashes + 1 /\ NoneOpen /\ query' = NoQuery
    /\ UNCHANGED <<hix, obn, answer, gone, docs, cleared, taken, reopened>>

-----------------------------------------------------------------------------
(* The bridge.                                                              *)

\* The store deletes a document; the index learns of it when a search meets it.
Delete(d) ==
    /\ Idle /\ d <= docs /\ Cardinality(gone) < MaxGone /\ gone' = gone \cup {d}
    /\ UNCHANGED <<usage, index, hix, obn, searching, history, age>>

\* The candidates are of the graph; one without entry is passed over.
Results(n, s, C) == {l \in C : obn[n][l] # 0}
Candidates(s) == {C \in SUBSET InGraph(s) : /\ Cardinality(C) = Smaller(K, Cardinality(InGraph(s)))
                                            /\ s.shards = 1}
Threshold(R) == Larger(1, (Cardinality(R) * Percent) \div 100)

\* search: no index when there is no file; else its first results.
SearchNone(n) ==
    /\ Idle /\ ~Exists(n) /\ answer' = {}
    /\ UNCHANGED <<usage, index, hix, obn, query, gone, history, age>>

SearchBegin(n) ==
    /\ Idle /\ Exists(n)
    /\ GetOrCreate(n, The(n)) /\ hix' = HixAfter(n)
    /\ \E C \in Candidates(The(n)) :
          query' = [on |-> TRUE, name |-> n, results |-> Results(n, The(n), C),
                    threshold |-> Threshold(Results(n, The(n), C))]
    /\ UNCHANGED <<obn, answer, gone, docs, cleared, taken, crashes>>

\* process_results: those of deleted documents are removed, in the order of their
\* scores: marked, the entry zeroed, the label recycled.
Stale == {l \in query.results : obn[query.name][l] \in gone}
Zeroed(n, L) == [l \in Labels |-> IF l \in L THEN 0 ELSE obn[n][l]]
Without(s, L) ==
    {[s EXCEPT !.del = @ \cup L, !.free = @ \o order] :
        order \in {q \in [1 .. Cardinality(L) -> L] : ToSet(q) = L}}
RemoveStale ==
    LET n == query.name
    IN /\ obn' = [obn EXCEPT ![n] = Zeroed(n, Stale)]
       /\ \E s \in Without(index[n], Stale) :
             \/ index' = [index EXCEPT ![n] = s] /\ UNCHANGED hix
             \/ /\ Stale # {} /\ s.unsaved
                /\ index' = [index EXCEPT ![n] = [s EXCEPT !.unsaved = FALSE]]
                /\ hix' = [hix EXCEPT ![n] = Graph(s)]
       /\ taken' = taken \cup {obn[n][l] : l \in Stale}
       /\ UNCHANGED <<usage, gone, docs, cleared, reopened, age, crashes>>

\* When they are many the search is done again.
SearchAgain ==
    /\ query.on /\ Cardinality(Stale) >= query.threshold /\ RemoveStale
    /\ \E C \in Candidates(index'[query.name]) :
          query' = [query EXCEPT !.results = {l \in C : obn'[query.name][l] # 0}]
    /\ UNCHANGED answer

SearchEnd ==
    /\ query.on /\ Cardinality(Stale) < query.threshold /\ RemoveStale
    /\ answer' = {obn[query.name][l] : l \in query.results \ Stale}
    /\ query' = NoQuery

Next ==
    \/ \E n \in Names :
          \/ Use(n) \/ AppendChunk(n) \/ AppendRefused(n) \/ Flush(n)
          \/ Clear(n) \/ ClearIgnored(n) \/ SearchNone(n) \/ SearchBegin(n)
    \/ FlushAll \/ Quit \/ Crash \/ SearchAgain \/ SearchEnd
    \/ \E d \in 1 .. MaxDocs : Delete(d)

\* The one caller is in the search until it returns.
Spec == Init /\ [][Next]_vars /\ WF_vars(SearchAgain \/ SearchEnd)

-----------------------------------------------------------------------------
Docs == 1 .. MaxDocs
GraphType == [vec : [Labels -> 0 .. MaxDocs], del : SUBSET Labels]

TypeOK ==
    /\ usage \in Seq(Names) /\ age \in Seq(Names) /\ hix \in [Names -> GraphType]
    /\ obn \in [Names -> [Labels -> 0 .. MaxDocs]]
    /\ \A n \in Names : index[n].open => Graph(index[n]) \in GraphType
    /\ query.on => index[query.name].open /\ query.results \subseteq Labels
    /\ gone \subseteq Docs /\ docs \in 0 .. MaxDocs /\ cleared \subseteq Docs \X BOOLEAN
    /\ taken \subseteq gone /\ reopened \subseteq Names /\ answer \subseteq Docs

\* The indexes held open are those used last, as many as the cache may hold.  Where
\* there are chunks but no file of the graph, so that a search of the bridge and a
\* clear take the index for missing, the index is open and its chunks are unsaved.
CacheSound ==
    /\ TypeOK
    /\ {n \in Names : index[n].open} = ToSet(usage)
    /\ usage = SubSeq(age, 1, Smaller(Capacity, Len(age)))
    /\ \A n \in Names : ~Exists(n) /\ Holds(n) # {} => index[n].open /\ index[n].unsaved

\* What a clear took out is not found again, whatever is closed, opened and lost
\* later, unless it took the index for missing; nor is a document that a search met
\* as deleted, though its mark is lost when the index is closed.
GoneStaysGone ==
    \A n \in Names : \A d \in Holds(n) : <<d, TRUE>> \notin cleared /\ d \notin taken

\* A chunk once found is found from then on, across eviction and restart, unless a
\* clear or a search takes it out, or its index was opened again and gives its label
\* to another chunk, or the process dies before it is saved.
LossHasCause ==
    [][\A n \in Names : \A d \in Holds(n) \ Holds(n)' :
          \/ <<d, TRUE>> \in cleared' \/ d \in taken'
          \/ docs' > docs /\ n \in reopened' /\ d \in Holds(n)
             /\ \E l \in Labels : obn[n][l] = d /\ obn'[n][l] = docs'
          \/ crashes' > crashes /\ index[n].unsaved]_vars

\* Candidates that are no result: their mark was lost, or their chunk was.
Ghosts(n) == {l \in InGraph(The(n)) : obn[n][l] = 0}

\* A search that ends returns as many documents as it may, less than the threshold
\* short, unless the index was opened again since documents were taken out.
AnswersInFull ==
    [][query.on /\ ~query'.on /\ crashes' = crashes =>
          LET live == Holds(query.name) \ gone
          IN \/ Cardinality(answer') + Larger(1, (K * Percent) \div 100) > Smaller(K, Cardinality(live))
             \/ query.name \in reopened /\ Ghosts(query.name) # {}]_vars

\* A search of the bridge ends, however many deleted documents it meets.
SearchEnds == query.on ~> ~query.on
=============================================================================
