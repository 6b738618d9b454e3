------------------------ MODULE IndexManager_proofs ------------------------
(***************************************************************************)
(* Proofs about IndexManager, for any names, sizes and bounds: what the    *)
(* manager found once it finds again, but for the named losses, and what   *)
(* was taken out it does not; the cache holds what was used last; and a    *)
(* search of the bridge answers with as many as it may.                    *)
(***************************************************************************)
EXTENDS IndexManager, FiniteSetTheorems, SequenceTheorems, TLAPS

-----------------------------------------------------------------------------
(* What is kept of each name.                                              *)

\* An open index; h is its saved graph, e its entries.
IndexType ==
    [open : {TRUE}, shards : {0, 1}, vec : [Labels -> 0 .. MaxDocs], del : SUBSET Labels,
     next : Nat, free : Seq(Labels), unsaved : BOOLEAN]

\* The labels to recycle are different, and have no entry.
Recycled(s, e) ==
    /\ \A i, j \in 1 .. Len(s.free) : s.free[i] = s.free[j] => i = j
    /\ \A i \in 1 .. Len(s.free) : e[s.free[i]] = 0

\* An index that began empty gives out labels one after the other.
InOrder(s) ==
    /\ \A i \in 1 .. Len(s.free) : s.free[i] < s.next
    /\ \A l \in Labels : l >= s.next => s.vec[l] = 0

\* With nothing unsaved, the saved graph has the same vectors, and marks none that
\* the index does not.
InFile(s, h) == s.vec = h.vec /\ h.del \subseteq s.del

Good(s, h, e) ==
    s \in IndexType /\ Recycled(s, e) /\ (~s.unsaved /\ s.shards = 1 => InFile(s, h))

NameInv ==
    \A n \in Names :
        \/ index[n] = Closed
        \/ Good(index[n], hix[n], obn[n]) /\ (n \notin reopened => InOrder(index[n]))

-----------------------------------------------------------------------------
(* The documents.                                                          *)

\* A document has one entry, in one index.
Once ==
    \A m, n \in Names : \A k, l \in Labels :
        obn[m][k] = obn[n][l] /\ obn[m][k] # 0 => m = n /\ k = l

\* One that a clear or a search took out has none.
Out ==
    \A n \in Names : \A l \in Labels :
        /\ obn[n][l] <= docs
        /\ obn[n][l] # 0 => <<obn[n][l], TRUE>> \notin cleared /\ obn[n][l] \notin taken

\* A search has vectors of an open index.
QueryInv ==
    \/ query = NoQuery
    \/ /\ query = [on |-> TRUE, name |-> query.name, results |-> query.results,
                   threshold |-> query.threshold]
       /\ query.name \in Names /\ index[query.name].open
       /\ query.results \subseteq {l \in Labels : index[query.name].vec[l] # 0}

Maps ==
    /\ index \in [Names -> {Closed} \cup IndexType] /\ hix \in [Names -> GraphType]
    /\ obn \in [Names -> [Labels -> 0 .. MaxDocs]]

Numbers ==
    /\ docs \in 0 .. MaxDocs /\ gone \subseteq Docs
    /\ \A d \in Docs : <<d, TRUE>> \in cleared => d <= docs
    /\ \A d \in taken : d \in Docs /\ d <= docs

Typed == Maps /\ Numbers

IInv == Typed /\ NameInv /\ Once /\ Out /\ QueryInv /\ crashes \in Nat

-----------------------------------------------------------------------------
(* One name.                                                               *)

\* The name is not what the step is about: its index stays as it is, or is closed and
\* its graph saved.
Rests(m) ==
    /\ obn'[m] = obn[m] /\ (m \in reopened' <=> m \in reopened)
    /\ \/ index'[m] = index[m] /\ hix'[m] = hix[m]
       \/ index'[m] = Closed /\ hix'[m] = Saved(hix, m)

\* Chunk d is found under label l.
HasAt(s, e, d, l) == s.shards = 1 /\ s.vec[l] = d /\ d # 0 /\ l \notin s.del /\ e[l] = d

\* What is found, spelled out, before a step and after it.
LEMMA HoldsIs ==
    ASSUME NEW n \in Names, NEW d
    PROVE  /\ d \in Holds(n) <=> \E l \in Labels : HasAt(The(n), obn[n], d, l)
           /\ (d \in Holds(n))' <=> \E l \in Labels : HasAt(The(n)', obn'[n], d, l)
<1>1. d \in Holds(n) <=> \E l \in Labels : HasAt(The(n), obn[n], d, l)
  BY DEF Holds, InGraph, The, HasAt
<1>2. (d \in Holds(n))' <=> \E l \in Labels : HasAt(The(n)', obn'[n], d, l)
  BY DEF Holds, InGraph, The, OpenIndex, HasAt
<1> QED
  BY <1>1, <1>2

\* The types of one name's parts.
LEMMA Types ==
    ASSUME Maps, NEW n \in Names
    PROVE  /\ index[n] = Closed \/ index[n] \in IndexType
           /\ index[n] = Closed <=> ~index[n].open
           /\ hix[n] \in GraphType /\ obn[n] \in [Labels -> 0 .. MaxDocs]
           /\ MaxElements \in Nat \ {0} /\ MaxDocs \in Nat
<1>1. index[n] = Closed \/ index[n] \in IndexType
  BY DEF Maps
<1>2. index[n] \in IndexType => index[n].open = TRUE
  BY DEF IndexType
<1>3. Closed.open = FALSE
  BY DEF Closed
<1> QED
  BY <1>1, <1>2, <1>3, ConstantsAssumption DEF Maps

\* Opened again, an index is as the invariant has it.
LEMMA OpenedGood ==
    ASSUME Maps, NEW n \in Names
    PROVE  /\ Good(OpenIndex(n), hix[n], obn[n])
           /\ hix[n] = NoGraph => InOrder(OpenIndex(n))
<1>1. /\ hix[n] \in GraphType /\ OpenIndex(n).free = <<>> /\ OpenIndex(n).next = 0
      /\ OpenIndex(n).vec = hix[n].vec /\ OpenIndex(n).del = hix[n].del /\ Len(<<>>) = 0
  BY Types DEF OpenIndex
<1>2. OpenIndex(n) \in IndexType
  BY <1>1 DEF OpenIndex, IndexType, GraphType
<1>3. Recycled(OpenIndex(n), obn[n]) /\ InFile(OpenIndex(n), hix[n])
  BY <1>1 DEF Recycled, InFile
<1>4. hix[n] = NoGraph => InOrder(OpenIndex(n))
  BY <1>1 DEF InOrder, Nothing, NoGraph
<1> QED
  BY <1>2, <1>3, <1>4 DEF Good

\* What getOrCreate does.
LEMMA Called ==
    ASSUME Maps, NameInv, NEW n \in Names, NEW s, GetOrCreate(n, s),
           \A m \in Names : m # n => obn'[m] = obn[m] /\ hix'[m] = HixAfter(n)[m]
    PROVE  /\ \A m \in Names : m # n => Rests(m)
           /\ index'[n] = s /\ index' = [m \in Names |-> index'[m]]
           /\ Good(The(n), hix[n], obn[n]) /\ (n \notin reopened' => InOrder(The(n)))
           /\ HixAfter(n)[n] = hix[n] /\ DOMAIN HixAfter(n) = Names
           /\ n \in reopened => n \in reopened'
<1>1. ASSUME NEW m \in Names, m # n PROVE Rests(m)
  <2>1. obn'[m] = obn[m] /\ (m \in reopened' <=> m \in reopened)
    BY <1>1 DEF GetOrCreate
  <2>2. CASE m \in Evicted(n)
    <3>1. index'[m] = Closed /\ hix'[m] = Saved(hix, m)
      BY <1>1, <2>2 DEF GetOrCreate, HixAfter
    <3> QED
      BY <2>1, <3>1 DEF Rests
  <2>3. CASE m \notin Evicted(n)
    <3>1. index'[m] = index[m] /\ hix'[m] = hix[m]
      BY <1>1, <2>3 DEF GetOrCreate, HixAfter
    <3> QED
      BY <2>1, <3>1 DEF Rests
  <2> QED
    BY <2>2, <2>3
<1>2. index'[n] = s /\ index' = [m \in Names |-> index'[m]]
  BY DEF GetOrCreate
<1>3. /\ n \in reopened => n \in reopened'
      /\ ~index[n].open /\ hix[n] # NoGraph => n \in reopened'
      /\ index[n].open => (n \in reopened' <=> n \in reopened)
  BY DEF GetOrCreate
<1>4. Good(The(n), hix[n], obn[n]) /\ (n \notin reopened' => InOrder(The(n)))
  <2>1. CASE index[n].open
    <3>1. The(n) = index[n] /\ index[n] # Closed
      BY <2>1, Types DEF The
    <3> QED
      BY <1>3, <2>1, <3>1 DEF NameInv
  <2>2. CASE ~index[n].open
    <3>1. The(n) = OpenIndex(n)
      BY <2>2 DEF The
    <3> QED
      BY <1>3, <2>2, <3>1, OpenedGood
  <2> QED
    BY <2>1, <2>2
<1>5. HixAfter(n)[n] = hix[n] /\ DOMAIN HixAfter(n) = Names
  BY DEF HixAfter, Evicted, Saved
<1> QED
  BY <1>1, <1>2, <1>3, <1>4, <1>5

\* A name that rests is as the invariant has it.
LEMMA RestsGood ==
    ASSUME Maps, NameInv, NEW m \in Names, Rests(m)
    PROVE  /\ \/ index'[m] = Closed
              \/ Good(index'[m], hix'[m], obn'[m]) /\ (m \notin reopened' => InOrder(index'[m]))
           /\ index'[m] \in {Closed} \cup IndexType /\ hix'[m] \in GraphType
           /\ obn'[m] \in [Labels -> 0 .. MaxDocs]
<1>1. index'[m] \in {Closed} \cup IndexType /\ obn'[m] \in [Labels -> 0 .. MaxDocs]
  BY Types DEF Rests
<1>2. hix'[m] \in GraphType
  <2>1. hix[m] \in GraphType /\ Saved(hix, m) \in GraphType
    BY Types DEF Saved, Graph, IndexType, GraphType
  <2> QED
    BY <2>1 DEF Rests
<1>3. \/ index'[m] = Closed
      \/ Good(index'[m], hix'[m], obn'[m]) /\ (m \notin reopened' => InOrder(index'[m]))
  BY DEF Rests, NameInv
<1> QED
  BY <1>1, <1>2, <1>3

\* And what was found in it is found still.
LEMMA RestsHolds ==
    ASSUME Maps, NameInv, NEW m \in Names, Rests(m), NEW d \in Holds(m)
    PROVE  (d \in Holds(m))'
<1>1. PICK l \in Labels : HasAt(The(m), obn[m], d, l)
  BY HoldsIs
<1>2. obn'[m] = obn[m]
  BY DEF Rests
<1>3. CASE index'[m] = index[m] /\ hix'[m] = hix[m]
  <2>1. The(m)' = The(m)
    BY <1>3 DEF The, OpenIndex
  <2> QED
    BY <1>1, <1>2, <2>1, HoldsIs
<1>4. CASE index'[m] = Closed /\ hix'[m] = Saved(hix, m)
  <2>1. /\ The(m)'.vec = Saved(hix, m).vec /\ The(m)'.del = Saved(hix, m).del
        /\ The(m)'.shards = 1
    BY <1>4 DEF The, OpenIndex, Closed
  <2>2. Saved(hix, m).vec = The(m).vec /\ Saved(hix, m).del \subseteq The(m).del
    <3>1. CASE ~index[m].open
      BY <3>1 DEF The, OpenIndex, Saved
    <3>2. CASE index[m].open /\ index[m].unsaved
      BY <3>2 DEF The, Saved, Graph
    <3>3. CASE index[m].open /\ ~index[m].unsaved
      <4>1. The(m) = index[m] /\ Saved(hix, m) = hix[m] /\ index[m] # Closed
        BY <3>3, Types DEF The, Saved
      <4>2. InFile(index[m], hix[m])
        BY <1>1, <3>3, <4>1 DEF NameInv, Good, HasAt
      <4> QED
        BY <4>1, <4>2 DEF InFile
    <3> QED
      BY <3>1, <3>2, <3>3
  <2>3. HasAt(The(m)', obn'[m], d, l)
    BY <1>1, <1>2, <2>1, <2>2 DEF HasAt
  <2> QED
    BY <2>3, HoldsIs
<1> QED
  BY <1>3, <1>4 DEF Rests

\* What a step on one name has to show.
LEMMA Lifted ==
    ASSUME Maps, NameInv, NEW n \in Names, \A m \in Names : m # n => Rests(m),
           index' = [m \in Names |-> index'[m]], hix' = [m \in Names |-> hix'[m]],
           obn' = [m \in Names |-> obn'[m]],
           hix'[n] \in GraphType, obn'[n] \in [Labels -> 0 .. MaxDocs],
           Good(index'[n], hix'[n], obn'[n]), n \notin reopened' => InOrder(index'[n])
    PROVE  Maps' /\ NameInv'
<1>1. index'[n] \in IndexType
  BY DEF Good
<1>2. \A m \in Names : /\ index'[m] \in {Closed} \cup IndexType /\ hix'[m] \in GraphType
                       /\ obn'[m] \in [Labels -> 0 .. MaxDocs]
  BY <1>1, RestsGood
<1>3. Maps'
  BY <1>2 DEF Maps
<1>4. NameInv'
  BY RestsGood DEF NameInv
<1> QED
  BY <1>3, <1>4

\* A call that leaves the index as it found it.
LEMMA OnlyCalled ==
    ASSUME Maps, NameInv, NEW n \in Names, GetOrCreate(n, The(n)), hix' = HixAfter(n), obn' = obn
    PROVE  /\ Maps' /\ NameInv' /\ index'[n] = The(n)
           /\ \A m \in Names : \A d \in Holds(m) : (d \in Holds(m))'
<1>1. /\ \A m \in Names : m # n => Rests(m)
      /\ index'[n] = The(n) /\ index' = [m \in Names |-> index'[m]]
      /\ Good(The(n), hix[n], obn[n]) /\ (n \notin reopened' => InOrder(The(n)))
      /\ hix'[n] = hix[n] /\ DOMAIN HixAfter(n) = Names
  BY Called
<1>2. hix' = [m \in Names |-> hix'[m]] /\ obn' = [m \in Names |-> obn'[m]]
  BY <1>1 DEF HixAfter, Maps
<1>3. hix'[n] \in GraphType /\ obn'[n] \in [Labels -> 0 .. MaxDocs]
  BY <1>1, Types
<1>4. Good(index'[n], hix'[n], obn'[n])
  BY <1>1
<1>5. Maps' /\ NameInv'
  BY <1>1, <1>2, <1>3, <1>4, Lifted
<1>6. (The(n))' = The(n)
  <2>1. The(n).open = TRUE
    BY <1>1 DEF Good, IndexType
  <2> QED
    BY <1>1, <2>1 DEF The
<1>7. ASSUME NEW d \in Holds(n) PROVE (d \in Holds(n))'
  BY <1>6, HoldsIs
<1> QED
  BY <1>1, <1>5, <1>7, RestsHolds

-----------------------------------------------------------------------------
(* append.                                                                 *)

\* The index after the chunk, before its flush.
WithChunk(s) ==
    [s EXCEPT !.vec[Label(s)] = docs + 1, !.del = @ \ {Label(s)}, !.unsaved = TRUE,
              !.next = IF s.free = <<>> THEN @ + 1 ELSE @,
              !.free = IF @ = <<>> THEN @ ELSE Tail(@)]

\* The label is one to recycle, or the next one.
LEMMA LabelIs ==
    ASSUME NEW s \in IndexType, HasLabel(s)
    PROVE  /\ Label(s) \in Labels /\ MaxElements \in Nat
           /\ \/ s.free = <<>> /\ Label(s) = s.next /\ s.next \in Nat
              \/ /\ s.free # <<>> /\ Label(s) = s.free[1] /\ Len(s.free) \in Nat \ {0}
                 /\ Tail(s.free) \in Seq(Labels) /\ Len(Tail(s.free)) = Len(s.free) - 1
                 /\ \A i \in 1 .. Len(s.free) - 1 : Tail(s.free)[i] = s.free[i + 1]
<1>1. s.free \in Seq(Labels) /\ s.next \in Nat /\ MaxElements \in Nat
  BY ConstantsAssumption DEF IndexType
<1>2. CASE s.free = <<>>
  BY <1>1, <1>2 DEF Label, HasLabel, Labels
<1>3. CASE s.free # <<>>
  <2>1. /\ Len(s.free) \in Nat \ {0} /\ s.free[1] \in Labels /\ Head(s.free) = s.free[1]
        /\ Tail(s.free) \in Seq(Labels) /\ Len(Tail(s.free)) = Len(s.free) - 1
        /\ \A i \in 1 .. Len(s.free) - 1 : Tail(s.free)[i] = s.free[i + 1]
    BY <1>1, <1>3, EmptySeq, LenProperties, ElementOfSeq, HeadTailProperties
  <2> QED
    BY <1>1, <1>3, <2>1 DEF Label
<1> QED
  BY <1>2, <1>3

\* Its parts, one by one.
LEMMA WithChunkIs ==
    ASSUME NEW s \in IndexType, HasLabel(s), docs \in Nat, docs + 1 \in 0 .. MaxDocs
    PROVE  /\ WithChunk(s) \in IndexType
           /\ WithChunk(s).vec = [s.vec EXCEPT ![Label(s)] = docs + 1]
           /\ WithChunk(s).del = s.del \ {Label(s)} /\ WithChunk(s).shards = s.shards
           /\ WithChunk(s).unsaved = TRUE
           /\ WithChunk(s).next = (IF s.free = <<>> THEN s.next + 1 ELSE s.next)
           /\ WithChunk(s).free = (IF s.free = <<>> THEN <<>> ELSE Tail(s.free))
<1>1. WithChunk(s).vec = [s.vec EXCEPT ![Label(s)] = docs + 1]
  BY DEF WithChunk, IndexType
<1>2. WithChunk(s).del = s.del \ {Label(s)} /\ WithChunk(s).shards = s.shards
  BY DEF WithChunk, IndexType
<1>3. WithChunk(s).unsaved = TRUE
  BY DEF WithChunk, IndexType
<1>4. WithChunk(s).next = (IF s.free = <<>> THEN s.next + 1 ELSE s.next)
  BY DEF WithChunk, IndexType
<1>5. WithChunk(s).free = (IF s.free = <<>> THEN <<>> ELSE Tail(s.free))
  BY DEF WithChunk, IndexType
<1>6. WithChunk(s) \in IndexType
  <2> DEFINE v == [s.vec EXCEPT ![Label(s)] = docs + 1]
             d == s.del \ {Label(s)}
             x == IF s.free = <<>> THEN s.next + 1 ELSE s.next
             f == IF s.free = <<>> THEN <<>> ELSE Tail(s.free)
  <2>1. WithChunk(s) = [s EXCEPT !.vec = v, !.del = d, !.unsaved = TRUE, !.next = x, !.free = f]
    BY DEF WithChunk, IndexType
  <2>2. v \in [Labels -> 0 .. MaxDocs] /\ d \in SUBSET Labels
    BY DEF IndexType
  <2>3. x \in Nat /\ f \in Seq(Labels)
    BY LabelIs DEF IndexType
  <2> HIDE DEF v, d, x, f
  <2>4. [s EXCEPT !.vec = v, !.del = d, !.unsaved = TRUE, !.next = x, !.free = f] \in IndexType
    BY <2>2, <2>3 DEF IndexType
  <2> QED
    BY <2>1, <2>4
<1> QED
  BY <1>1, <1>2, <1>3, <1>4, <1>5, <1>6

\* The queue stays one of labels without entries, and the order of labels is kept.
LEMMA Appended ==
    ASSUME NEW s \in IndexType, HasLabel(s), docs \in Nat, docs + 1 \in 0 .. MaxDocs,
           NEW e \in [Labels -> 0 .. MaxDocs], Recycled(s, e)
    PROVE  /\ Recycled(WithChunk(s), [e EXCEPT ![Label(s)] = docs + 1])
           /\ InOrder(s) => InOrder(WithChunk(s))
<1> DEFINE t == WithChunk(s)
           l == Label(s)
<1>1. /\ t.vec = [s.vec EXCEPT ![l] = docs + 1]
      /\ t.next = (IF s.free = <<>> THEN s.next + 1 ELSE s.next)
      /\ t.free = (IF s.free = <<>> THEN <<>> ELSE Tail(s.free))
      /\ s.vec \in [Labels -> 0 .. MaxDocs] /\ s.next \in Nat /\ s.free \in Seq(Labels)
  BY WithChunkIs DEF IndexType
<1>2. l \in Labels /\ \A k \in Labels : k \in Int
  BY LabelIs DEF Labels
<1> HIDE DEF t, l
<1>3. CASE s.free = <<>>
  <2>1. l = s.next /\ t.next = s.next + 1 /\ Len(t.free) = 0
    BY <1>1, <1>3, LabelIs, EmptySeq DEF l
  <2>2. Recycled(t, [e EXCEPT ![l] = docs + 1])
    BY <2>1 DEF Recycled
  <2>3. ASSUME InOrder(s) PROVE InOrder(t)
    <3>1. ASSUME NEW k \in Labels, k >= t.next PROVE t.vec[k] = 0
      BY <1>1, <1>2, <2>1, <2>3, <3>1 DEF InOrder
    <3> QED
      BY <2>1, <3>1 DEF InOrder
  <2> QED
    BY <2>2, <2>3 DEF t, l
<1>4. CASE s.free # <<>>
  <2>1. /\ l = s.free[1] /\ t.next = s.next /\ Len(s.free) \in Nat \ {0}
        /\ Len(t.free) = Len(s.free) - 1
        /\ \A i \in 1 .. Len(s.free) - 1 : t.free[i] = s.free[i + 1]
    BY <1>1, <1>4, LabelIs DEF l
  <2>2. \A i \in 1 .. Len(t.free) : /\ t.free[i] = s.free[i + 1] /\ i + 1 \in 1 .. Len(s.free)
                                    /\ i + 1 # 1 /\ 1 \in 1 .. Len(s.free)
    BY <2>1
  <2>3. \A i \in 1 .. Len(t.free) : t.free[i] # l
    BY <2>1, <2>2 DEF Recycled
  <2>4. \A i \in 1 .. Len(t.free) : [e EXCEPT ![l] = docs + 1][t.free[i]] = 0
    <3>1. \A i \in 1 .. Len(s.free) : s.free[i] \in Labels
      BY <1>1, ElementOfSeq
    <3> QED
      BY <2>2, <2>3, <3>1, SMTT(40) DEF Recycled
  <2>5. \A i, j \in 1 .. Len(t.free) : t.free[i] = t.free[j] => i = j
    <3>1. ASSUME NEW i \in 1 .. Len(t.free), NEW j \in 1 .. Len(t.free), t.free[i] = t.free[j]
          PROVE  i = j
      <4>1. i + 1 = j + 1
        BY <2>2, <3>1 DEF Recycled
      <4> QED
        BY <2>1, <4>1
    <3> QED
      BY <3>1
  <2>6. ASSUME InOrder(s) PROVE InOrder(t)
    <3>1. l < s.next
      BY <2>1, <2>6 DEF InOrder
    <3>2. \A i \in 1 .. Len(t.free) : t.free[i] < t.next
      BY <2>1, <2>2, <2>6 DEF InOrder
    <3>3. ASSUME NEW k \in Labels, k >= t.next PROVE t.vec[k] = 0
      <4>1. k # l
        BY <1>1, <1>2, <2>1, <3>1, <3>3
      <4> QED
        BY <1>1, <2>1, <2>6, <3>3, <4>1 DEF InOrder
    <3> QED
      BY <3>2, <3>3 DEF InOrder
  <2> QED
    BY <2>4, <2>5, <2>6 DEF t, l, Recycled
<1> QED
  BY <1>3, <1>4

\* The step of append: other names rest, and this one gets the chunk.
LEMMA AppendStep ==
    ASSUME Typed, NameInv, NEW n \in Names, AppendChunk(n)
    PROVE  /\ Maps' /\ NameInv' /\ \A m \in Names : m # n => Rests(m)
           /\ The(n) \in IndexType /\ Label(The(n)) \in Labels
           /\ n \notin reopened' => InOrder(The(n))
           /\ HasLabel(The(n)) /\ Recycled(The(n), obn[n]) /\ docs + 1 \in 1 .. MaxDocs
           /\ The(n)' = index'[n] /\ index'[n].shards = 1 /\ The(n).shards = 1
           /\ index'[n].vec = [The(n).vec EXCEPT ![Label(The(n))] = docs + 1]
           /\ index'[n].del = The(n).del \ {Label(The(n))}
<1> DEFINE s == The(n)
           t == WithChunk(s)
           u == [t EXCEPT !.unsaved = FALSE]
           l == Label(s)
<1>1. /\ HasLabel(s) /\ s.shards = 1 /\ Leaves(n, t) /\ docs < MaxDocs
      /\ obn' = [obn EXCEPT ![n][l] = docs + 1]
  BY DEF AppendChunk, WithChunk
<1>2. \E i : GetOrCreate(n, i)
  BY <1>1 DEF Leaves
<1>3. Maps /\ docs + 1 \in 0 .. MaxDocs /\ docs \in Nat /\ docs + 1 \in 1 .. MaxDocs
  BY <1>1, ConstantsAssumption DEF Typed, Numbers
<1>4. /\ obn[n] \in [Labels -> 0 .. MaxDocs]
      /\ obn'[n] = [obn[n] EXCEPT ![l] = docs + 1] /\ \A m \in Names : m # n => obn'[m] = obn[m]
      /\ obn' = [m \in Names |-> obn'[m]]
  BY <1>1, <1>3, Types DEF Maps
<1>5. \/ GetOrCreate(n, t) /\ hix' = HixAfter(n)
      \/ /\ GetOrCreate(n, u)
         /\ hix' = IF t.unsaved THEN [HixAfter(n) EXCEPT ![n] = Graph(t)] ELSE HixAfter(n)
  BY <1>1 DEF Leaves
<1>6. \A m \in Names : m # n => hix'[m] = HixAfter(n)[m]
  BY <1>5 DEF HixAfter
<1>7. DOMAIN HixAfter(n) = Names /\ HixAfter(n) = [m \in Names |-> HixAfter(n)[m]]
  BY DEF HixAfter
<1> HIDE DEF t, u, s, l
<1>8. /\ \A m \in Names : m # n => Rests(m)
      /\ \/ index'[n] = t \/ index'[n] = u
      /\ index' = [m \in Names |-> index'[m]] /\ HixAfter(n)[n] = hix[n]
      /\ Good(s, hix[n], obn[n]) /\ (n \notin reopened' => InOrder(s))
  BY <1>3, <1>4, <1>5, <1>6, Called DEF s
<1>9. s \in IndexType /\ Recycled(s, obn[n])
  BY <1>8 DEF Good
<1>10. /\ t \in IndexType /\ t.vec = [s.vec EXCEPT ![l] = docs + 1] /\ t.del = s.del \ {l}
       /\ t.shards = 1 /\ t.unsaved = TRUE /\ l \in Labels
  BY <1>1, <1>3, <1>9, WithChunkIs, LabelIs DEF t, l
<1>11. Recycled(t, obn'[n]) /\ (InOrder(s) => InOrder(t))
  BY <1>1, <1>3, <1>4, <1>9, Appended DEF t, l
<1>12. /\ u \in IndexType /\ u.vec = t.vec /\ u.del = t.del /\ u.shards = t.shards
       /\ u.unsaved = FALSE /\ u.next = t.next /\ u.free = t.free
  BY <1>10 DEF u, IndexType
<1>13. Recycled(u, obn'[n]) /\ (InOrder(t) => InOrder(u))
  BY <1>11, <1>12 DEF Recycled, InOrder
<1>14. obn'[n] \in [Labels -> 0 .. MaxDocs]
  BY <1>3, <1>4
<1>15. /\ hix'[n] \in GraphType /\ Good(index'[n], hix'[n], obn'[n])
       /\ hix' = [m \in Names |-> hix'[m]]
  <2>1. CASE GetOrCreate(n, t) /\ hix' = HixAfter(n)
    <3>1. hix'[n] = hix[n] /\ index'[n] = t
      BY <1>8, <2>1 DEF GetOrCreate
    <3>2. Good(t, hix'[n], obn'[n])
      BY <1>10, <1>11 DEF Good
    <3> QED
      BY <1>3, <1>7, <2>1, <3>1, <3>2, Types
  <2>2. CASE GetOrCreate(n, u) /\ hix' = [HixAfter(n) EXCEPT ![n] = Graph(t)]
    <3>1. hix'[n] = Graph(t) /\ index'[n] = u
      BY <1>7, <2>2 DEF GetOrCreate
    <3>2. Graph(t) \in GraphType /\ Graph(t).vec = u.vec /\ Graph(t).del = u.del
      BY <1>10, <1>12 DEF Graph, GraphType, IndexType
    <3>3. Good(u, hix'[n], obn'[n])
      BY <1>12, <1>13, <3>1, <3>2 DEF Good, InFile
    <3> QED
      BY <1>7, <2>2, <3>1, <3>2, <3>3
  <2> QED
    BY <1>5, <1>10, <2>1, <2>2
<1>16. n \notin reopened' => InOrder(index'[n])
  BY <1>8, <1>11, <1>13
<1>17. Maps' /\ NameInv'
  BY <1>3, <1>4, <1>8, <1>14, <1>15, <1>16, Lifted
<1>18. The(n)' = index'[n]
  <2>1. index'[n].open = TRUE
    BY <1>8, <1>10, <1>12 DEF IndexType
  <2> QED
    BY <2>1 DEF The
<1> QED
  BY <1>1, <1>3, <1>8, <1>9, <1>10, <1>12, <1>17, <1>18 DEF s, l

-----------------------------------------------------------------------------
(* flush and clear, on one name and on all.                                 *)

\* flush: other names rest, this one is saved, and nothing is lost.
LEMMA FlushStep ==
    ASSUME Typed, NameInv, NEW n \in Names, Flush(n)
    PROVE  /\ Maps' /\ NameInv' /\ \A m \in Names : m # n => Rests(m)
           /\ \A m \in Names : \A d \in Holds(m) : (d \in Holds(m))'
<1> DEFINE s == The(n)
           u == [s EXCEPT !.unsaved = FALSE]
<1>1. GetOrCreate(n, u) /\ hix' = [HixAfter(n) EXCEPT ![n] = Saved(hix, n)] /\ obn' = obn /\ Maps
  BY DEF Flush, Typed
<1>2. DOMAIN HixAfter(n) = Names /\ HixAfter(n) = [m \in Names |-> HixAfter(n)[m]]
  BY DEF HixAfter
<1>3. \A m \in Names : m # n => obn'[m] = obn[m] /\ hix'[m] = HixAfter(n)[m]
  BY <1>1, <1>2
<1> HIDE DEF u, s
<1>4. /\ \A m \in Names : m # n => Rests(m)
      /\ index'[n] = u /\ index' = [m \in Names |-> index'[m]] /\ HixAfter(n)[n] = hix[n]
      /\ Good(s, hix[n], obn[n]) /\ (n \notin reopened' => InOrder(s))
  BY <1>1, <1>3, Called DEF s
<1>5. s \in IndexType /\ Recycled(s, obn[n])
  BY <1>4 DEF Good
<1>6. /\ u \in IndexType /\ u.vec = s.vec /\ u.del = s.del /\ u.shards = s.shards
      /\ u.unsaved = FALSE /\ u.next = s.next /\ u.free = s.free /\ u.open = TRUE
  BY <1>5 DEF u, IndexType
<1>7. /\ hix'[n] = Saved(hix, n) /\ hix' = [m \in Names |-> hix'[m]]
      /\ obn' = [m \in Names |-> obn'[m]] /\ obn'[n] = obn[n]
  BY <1>1, <1>2 DEF Maps
<1>8. hix'[n] \in GraphType /\ (s.shards = 1 => InFile(s, hix'[n]))
  <2>1. CASE index[n].open /\ index[n].unsaved
    <3>1. s = index[n] /\ hix'[n] = Graph(s)
      BY <1>7, <2>1 DEF s, The, Saved
    <3>2. Graph(s) \in GraphType /\ Graph(s).vec = s.vec /\ Graph(s).del = s.del
      BY <1>5 DEF Graph, GraphType, IndexType
    <3> QED
      BY <3>1, <3>2 DEF InFile
  <2>2. CASE index[n].open /\ ~index[n].unsaved
    <3>1. s = index[n] /\ hix'[n] = hix[n]
      BY <1>7, <2>2 DEF s, The, Saved
    <3>2. hix'[n] \in GraphType /\ ~s.unsaved
      BY <1>1, <2>2, <3>1, Types
    <3> QED
      BY <1>4, <3>1, <3>2 DEF Good
  <2>3. CASE ~index[n].open
    <3>1. s = OpenIndex(n) /\ hix'[n] = hix[n]
      BY <1>7, <2>3 DEF s, The, Saved
    <3>2. s.vec = hix[n].vec /\ s.del = hix[n].del
      BY <3>1 DEF OpenIndex
    <3> QED
      BY <1>1, <3>1, <3>2, Types DEF InFile
  <2> QED
    BY <2>1, <2>2, <2>3
<1>9. Recycled(u, obn'[n]) /\ (InOrder(s) => InOrder(u)) /\ (s.shards = 1 => InFile(u, hix'[n]))
  BY <1>5, <1>6, <1>7, <1>8 DEF Recycled, InOrder, InFile
<1>10. Good(index'[n], hix'[n], obn'[n]) /\ (n \notin reopened' => InOrder(index'[n]))
  BY <1>4, <1>6, <1>9 DEF Good
<1>11. obn'[n] \in [Labels -> 0 .. MaxDocs]
  BY <1>1, <1>7, Types
<1>12. Maps' /\ NameInv'
  BY <1>1, <1>4, <1>7, <1>8, <1>10, <1>11, Lifted
<1>13. ASSUME NEW d \in Holds(n) PROVE (d \in Holds(n))'
  <2>1. The(n)' = u
    BY <1>4, <1>6 DEF The
  <2>2. PICK l \in Labels : HasAt(s, obn[n], d, l)
    BY HoldsIs DEF s
  <2>3. HasAt(u, obn'[n], d, l)
    BY <1>6, <1>7, <2>2 DEF HasAt
  <2>4. HasAt(The(n)', obn'[n], d, l)
    BY <2>1, <2>3
  <2> QED
    BY <2>4, HoldsIs
<1> QED
  BY <1>1, <1>4, <1>12, <1>13, RestsHolds

\* clear: other names rest, and this one has no file and no entry.
LEMMA ClearStep ==
    ASSUME Typed, NameInv, NEW n \in Names, Clear(n)
    PROVE  /\ Maps' /\ NameInv' /\ \A m \in Names : m # n => Rests(m)
           /\ obn'[n] = Nothing
<1> DEFINE s == The(n)
           u == [s EXCEPT !.shards = 0, !.unsaved = FALSE]
<1>1. GetOrCreate(n, u) /\ hix' = [HixAfter(n) EXCEPT ![n] = NoGraph] /\ Maps
      /\ obn' = [obn EXCEPT ![n] = Nothing]
  BY DEF Clear, Typed
<1>2. DOMAIN HixAfter(n) = Names /\ HixAfter(n) = [m \in Names |-> HixAfter(n)[m]]
  BY DEF HixAfter
<1>3. /\ \A m \in Names : m # n => obn'[m] = obn[m] /\ hix'[m] = HixAfter(n)[m]
      /\ hix'[n] = NoGraph /\ hix' = [m \in Names |-> hix'[m]]
      /\ obn'[n] = Nothing /\ obn' = [m \in Names |-> obn'[m]]
  BY <1>1, <1>2 DEF Maps
<1> HIDE DEF u, s
<1>4. /\ \A m \in Names : m # n => Rests(m)
      /\ index'[n] = u /\ index' = [m \in Names |-> index'[m]]
      /\ Good(s, hix[n], obn[n]) /\ (n \notin reopened' => InOrder(s))
  BY <1>1, <1>3, Called DEF s
<1>5. s \in IndexType /\ Recycled(s, obn[n])
  BY <1>4 DEF Good
<1>6. /\ u \in IndexType /\ u.vec = s.vec /\ u.shards = 0 /\ u.next = s.next /\ u.free = s.free
  BY <1>5 DEF u, IndexType
<1>7. hix'[n] \in GraphType /\ obn'[n] \in [Labels -> 0 .. MaxDocs]
  BY <1>3, ConstantsAssumption DEF NoGraph, Nothing, GraphType
<1>8. \A i \in 1 .. Len(u.free) : u.free[i] \in Labels
  BY <1>6, ElementOfSeq DEF IndexType
<1>9. Recycled(u, obn'[n]) /\ (InOrder(s) => InOrder(u))
  BY <1>3, <1>5, <1>6, <1>8 DEF Recycled, InOrder, Nothing
<1>10. Good(index'[n], hix'[n], obn'[n]) /\ (n \notin reopened' => InOrder(index'[n]))
  BY <1>4, <1>6, <1>9 DEF Good
<1> QED
  BY <1>1, <1>3, <1>4, <1>7, <1>10, Lifted

\* flush_all: every graph is saved.
LEMMA FlushAllStep ==
    ASSUME Typed, NameInv, FlushAll
    PROVE  /\ Maps' /\ NameInv'
           /\ \A m \in Names : \A d \in Holds(m) : (d \in Holds(m))'
<1>1. /\ hix' = [n \in Names |-> Saved(hix, n)] /\ obn' = obn /\ reopened' = reopened /\ Maps
      /\ index' = [n \in Names |-> IF index[n].open THEN [index[n] EXCEPT !.unsaved = FALSE]
                                                    ELSE Closed]
  BY DEF FlushAll, history, Typed
<1>2. ASSUME NEW n \in Names, ~index[n].open PROVE Rests(n) /\ index'[n] = Closed
  BY <1>1, <1>2, Types DEF Rests
<1>3. ASSUME NEW n \in Names, index[n].open
      PROVE  /\ index'[n] \in IndexType /\ hix'[n] \in GraphType
             /\ Good(index'[n], hix'[n], obn'[n]) /\ (n \notin reopened' => InOrder(index'[n]))
             /\ The(n) = index[n] /\ The(n)' = index'[n] /\ obn'[n] = obn[n]
             /\ index'[n].vec = index[n].vec /\ index'[n].del = index[n].del
             /\ index'[n].shards = index[n].shards
  <2> DEFINE s == index[n]
             u == [s EXCEPT !.unsaved = FALSE]
  <2>1. index'[n] = u /\ hix'[n] = Saved(hix, n) /\ s # Closed
    BY <1>1, <1>3, Types
  <2> HIDE DEF s, u
  <2>2. /\ Good(s, hix[n], obn[n]) /\ (n \notin reopened => InOrder(s))
        /\ s \in IndexType /\ Recycled(s, obn[n])
    BY <2>1 DEF NameInv, Good, s
  <2>3. /\ u \in IndexType /\ u.vec = s.vec /\ u.del = s.del /\ u.shards = s.shards
        /\ u.unsaved = FALSE /\ u.next = s.next /\ u.free = s.free /\ u.open = TRUE
    BY <2>2 DEF u, IndexType
  <2>4. hix'[n] \in GraphType /\ (s.shards = 1 => InFile(s, hix'[n]))
    <3>1. CASE s.unsaved
      <4>1. hix'[n] = Graph(s)
        BY <1>3, <2>1, <3>1 DEF s, Saved
      <4> QED
        BY <2>2, <4>1 DEF Graph, GraphType, IndexType, InFile
    <3>2. CASE ~s.unsaved
      <4>1. hix'[n] = hix[n]
        BY <2>1, <3>2 DEF s, Saved
      <4> QED
        BY <1>1, <2>2, <3>2, <4>1, Types DEF Good
    <3> QED
      BY <3>1, <3>2
  <2>5. Recycled(u, obn'[n]) /\ (InOrder(s) => InOrder(u)) /\ (s.shards = 1 => InFile(u, hix'[n]))
    BY <1>1, <2>2, <2>3, <2>4 DEF Recycled, InOrder, InFile
  <2>6. Good(u, hix'[n], obn'[n]) /\ (n \notin reopened' => InOrder(u))
    BY <1>1, <2>2, <2>3, <2>5 DEF Good
  <2>7. The(n) = s /\ The(n)' = u
    BY <1>3, <2>1, <2>3 DEF The, s
  <2> QED
    BY <1>1, <2>1, <2>3, <2>4, <2>6, <2>7 DEF s
<1>4. \A n \in Names : obn'[n] \in [Labels -> 0 .. MaxDocs]
  BY <1>1, Types
<1>5. Maps'
  <2>1. \A n \in Names : index'[n] \in {Closed} \cup IndexType /\ hix'[n] \in GraphType
    BY <1>1, <1>2, <1>3, RestsGood
  <2> QED
    BY <1>1, <1>4, <2>1 DEF Maps
<1>6. NameInv'
  BY <1>2, <1>3 DEF NameInv
<1>7. ASSUME NEW n \in Names, NEW d \in Holds(n) PROVE (d \in Holds(n))'
  <2>1. CASE index[n].open
    <3>1. PICK l \in Labels : HasAt(The(n), obn[n], d, l)
      BY HoldsIs
    <3>2. HasAt(The(n)', obn'[n], d, l)
      BY <1>3, <2>1, <3>1 DEF HasAt
    <3> QED
      BY <3>2, HoldsIs
  <2> QED
    BY <1>1, <1>2, <2>1, RestsHolds
<1> QED
  BY <1>5, <1>6, <1>7

\* The manager saves all and is gone.
LEMMA QuitStep ==
    ASSUME Typed, NameInv, Quit
    PROVE  /\ Maps' /\ NameInv'
           /\ \A m \in Names : \A d \in Holds(m) : (d \in Holds(m))'
<1>1. /\ hix' = [n \in Names |-> Saved(hix, n)] /\ obn' = obn /\ reopened' = reopened /\ Maps
      /\ index' = [n \in Names |-> Closed]
  BY DEF Quit, NoneOpen, history, Typed
<1>2. \A n \in Names : Rests(n)
  BY <1>1 DEF Rests
<1>3. \A n \in Names : hix'[n] \in GraphType
  BY <1>1, <1>2, RestsGood
<1>4. Maps' /\ NameInv'
  BY <1>1, <1>3 DEF Maps, NameInv
<1> QED
  BY <1>1, <1>2, <1>4, RestsHolds

-----------------------------------------------------------------------------
(* A crash, and the removal of what a search found deleted.                 *)

\* A crash closes every index as it stands; one with nothing unsaved loses nothing.
LEMMA CrashStep ==
    ASSUME Typed, NameInv, Crash
    PROVE  /\ Maps' /\ NameInv'
           /\ \A m \in Names : ~(index[m].open /\ index[m].unsaved) => Rests(m)
<1>1. hix' = hix /\ obn' = obn /\ reopened' = reopened /\ Maps /\ index' = [n \in Names |-> Closed]
  BY DEF Crash, NoneOpen, Typed
<1>2. Maps' /\ NameInv'
  BY <1>1 DEF Maps, NameInv
<1>3. ASSUME NEW m \in Names, ~(index[m].open /\ index[m].unsaved) PROVE Rests(m)
  <2>1. Saved(hix, m) = hix[m]
    BY <1>3 DEF Saved
  <2> QED
    BY <1>1, <2>1 DEF Rests
<1> QED
  BY <1>2, <1>3

\* Each label is queued once.
LEMMA OrderIs ==
    ASSUME NEW L \in SUBSET Labels, NEW q \in [1 .. Cardinality(L) -> L], ToSet(q) = L
    PROVE  /\ q \in Seq(Labels) /\ Len(q) = Cardinality(L) /\ Cardinality(L) \in Nat
           /\ \A i \in 1 .. Cardinality(L) : q[i] \in L
           /\ \A i, j \in 1 .. Cardinality(L) : q[i] = q[j] => i = j
<1>1. IsFiniteSet(L)
  <2>1. 0 \in Int /\ MaxElements - 1 \in Int
    BY ConstantsAssumption
  <2>2. IsFiniteSet(Labels)
    BY <2>1, FS_Interval DEF Labels
  <2> QED
    BY <2>2, FS_Subset
<1> DEFINE c == Cardinality(L)
<1>2. c \in Nat
  BY <1>1, FS_CardinalityType
<1> HIDE DEF c
<1>3. IsFiniteSet(1 .. c) /\ Cardinality(1 .. c) = c
  BY <1>2, FS_Interval
<1>4. q \in [1 .. c -> L]
  BY DEF c
<1>5. q \in Surjection(1 .. c, L)
  BY <1>4 DEF Surjection, ToSet
<1>6. q \in Injection(1 .. c, L)
  <2>1. Cardinality(L) = Cardinality(1 .. c)
    BY <1>3 DEF c
  <2> QED
    BY <1>3, <1>5, <2>1, FS_Surjection
<1>7. \A i, j \in 1 .. c : q[i] = q[j] => i = j
  BY <1>4, <1>6 DEF Injection, IsInjective
<1>8. q \in Seq(Labels) /\ Len(q) = c
  <2>1. q \in [1 .. c -> Labels]
    BY <1>4
  <2> QED
    BY <1>2, <2>1
<1> QED
  BY <1>2, <1>4, <1>7, <1>8 DEF c

\* process_results: the labels of deleted documents are marked, zeroed and queued.
LEMMA RemoveStaleStep ==
    ASSUME Typed, NameInv, QueryInv, query.on, RemoveStale, NEW n, n = query.name
    PROVE  /\ Maps' /\ NameInv' /\ n \in Names /\ \A m \in Names : m # n => Rests(m)
           /\ obn'[n] = Zeroed(n, Stale) /\ Stale \subseteq Labels
           /\ \A l \in Stale : obn[n][l] \in taken'
           /\ The(n) = index[n] /\ The(n)' = index'[n] /\ index'[n].open = TRUE
           /\ index'[n].shards = index[n].shards /\ index'[n].vec = index[n].vec
           /\ index'[n].del = index[n].del \cup Stale
<1> DEFINE o == index[n]
           e == Zeroed(n, Stale)
<1>1. n \in Names /\ o.open /\ query.results \subseteq {l \in Labels : o.vec[l] # 0}
  BY DEF QueryInv, NoQuery
<1>2. /\ o # Closed /\ o \in IndexType /\ Maps
      /\ hix[n] \in GraphType /\ obn[n] \in [Labels -> 0 .. MaxDocs] /\ MaxDocs \in Nat
  BY <1>1, Types DEF Typed
<1>3. Good(o, hix[n], obn[n]) /\ (n \notin reopened => InOrder(o))
  BY <1>1, <1>2 DEF NameInv
<1>4. /\ Stale \subseteq Labels /\ \A l \in Stale : o.vec[l] # 0 /\ obn[n][l] \in gone
  BY <1>1 DEF Stale
<1>5. \A l \in Stale : obn[n][l] # 0
  BY <1>4 DEF Typed, Numbers, Docs
<1>6. PICK s \in Without(o, Stale) :
         \/ index' = [index EXCEPT ![n] = s] /\ UNCHANGED hix
         \/ /\ Stale # {} /\ s.unsaved
            /\ index' = [index EXCEPT ![n] = [s EXCEPT !.unsaved = FALSE]]
            /\ hix' = [hix EXCEPT ![n] = Graph(s)]
  BY DEF RemoveStale
<1>7. PICK q \in [1 .. Cardinality(Stale) -> Stale] :
         ToSet(q) = Stale /\ s = [o EXCEPT !.del = @ \cup Stale, !.free = @ \o q]
  BY <1>6 DEF Without
<1>8. /\ obn' = [obn EXCEPT ![n] = e] /\ reopened' = reopened
      /\ \A l \in Stale : obn[n][l] \in taken'
  BY DEF RemoveStale
<1> DEFINE c == Cardinality(Stale)
           f == o.free \o q
<1>9. /\ q \in Seq(Labels) /\ Len(q) = c /\ c \in Nat /\ \A i \in 1 .. c : q[i] \in Stale
      /\ \A i, j \in 1 .. c : q[i] = q[j] => i = j
  BY <1>4, <1>7, OrderIs
<1>10. /\ o.free \in Seq(Labels) /\ Recycled(o, obn[n])
       /\ \A i \in 1 .. Len(o.free) : o.free[i] \in Labels
  BY <1>2, <1>3, ElementOfSeq DEF IndexType, Good
<1>11. /\ obn'[n] = e /\ e \in [Labels -> 0 .. MaxDocs]
       /\ \A l \in Labels : e[l] = IF l \in Stale THEN 0 ELSE obn[n][l]
  <2>1. e = [l \in Labels |-> IF l \in Stale THEN 0 ELSE obn[n][l]]
    BY DEF Zeroed
  <2> HIDE DEF e
  <2>2. obn'[n] = e
    BY <1>1, <1>2, <1>8 DEF Maps
  <2>3. e \in [Labels -> 0 .. MaxDocs]
    BY <1>2, <2>1
  <2> QED
    BY <2>1, <2>2, <2>3
<1> HIDE DEF c, f, e, o
<1>12. /\ f \in Seq(Labels)
       /\ \A i, j \in 1 .. Len(f) : f[i] = f[j] => i = j
       /\ \A i \in 1 .. Len(f) : \/ i \in 1 .. Len(o.free) /\ f[i] = o.free[i]
                                 \/ f[i] \in Stale
  <2>1. \A i \in 1 .. Len(o.free), j \in 1 .. c : o.free[i] # q[j]
    BY <1>5, <1>9, <1>10 DEF Recycled
  <2>2. \A i, j \in 1 .. Len(o.free) : o.free[i] = o.free[j] => i = j
    BY <1>10 DEF Recycled
  <2> DEFINE a == Len(o.free)
  <2>3. /\ f \in Seq(Labels) /\ Len(f) = a + Len(q) /\ a \in Nat
        /\ \A i \in 1 .. a + Len(q) : f[i] = IF i <= a THEN o.free[i] ELSE q[i - a]
    <3>1. o.free \in Seq(Labels) /\ q \in Seq(Labels)
      BY <1>9, <1>10
    <3> QED
      BY <3>1, ConcatProperties, LenProperties DEF f
  <2>4. /\ Len(f) = a + c
        /\ \A i \in 1 .. a + c : f[i] = IF i <= a THEN o.free[i] ELSE q[i - a]
    BY <1>9, <2>3
  <2> HIDE DEF a
  <2>5. \A i \in 1 .. a + c : \/ i \in 1 .. a /\ f[i] = o.free[i]
                              \/ i - a \in 1 .. c /\ f[i] = q[i - a] /\ i > a
    BY <1>9, <2>3, <2>4
  <2>6. ASSUME NEW i \in 1 .. a + c, NEW j \in 1 .. a + c, f[i] = f[j] PROVE i = j
    <3>1. CASE i \in 1 .. a /\ f[i] = o.free[i] /\ j \in 1 .. a /\ f[j] = o.free[j]
      BY <2>2, <2>6, <3>1 DEF a
    <3>2. CASE /\ i - a \in 1 .. c /\ f[i] = q[i - a] /\ i > a
               /\ j - a \in 1 .. c /\ f[j] = q[j - a] /\ j > a
      <4>1. i - a = j - a
        BY <1>9, <2>6, <3>2
      <4> QED
        BY <1>9, <2>3, <4>1
    <3>3. CASE i \in 1 .. a /\ f[i] = o.free[i] /\ j - a \in 1 .. c /\ f[j] = q[j - a]
      BY <2>1, <2>6, <3>3 DEF a
    <3>4. CASE j \in 1 .. a /\ f[j] = o.free[j] /\ i - a \in 1 .. c /\ f[i] = q[i - a]
      BY <2>1, <2>6, <3>4 DEF a
    <3> QED
      BY <2>5, <3>1, <3>2, <3>3, <3>4
  <2>7. \A i, j \in 1 .. Len(f) : f[i] = f[j] => i = j
    BY <2>4, <2>6
  <2>8. \A i \in 1 .. Len(f) : \/ i \in 1 .. Len(o.free) /\ f[i] = o.free[i]
                              \/ f[i] \in Stale
    BY <1>9, <2>4, <2>5 DEF a
  <2> QED
    BY <2>3, <2>7, <2>8
<1>13. /\ s \in IndexType /\ s.vec = o.vec /\ s.del = o.del \cup Stale /\ s.free = f
       /\ s.shards = o.shards /\ s.next = o.next /\ s.unsaved = o.unsaved /\ s.open = TRUE
  <2> DEFINE d == o.del \cup Stale
  <2>1. s = [o EXCEPT !.del = d, !.free = f]
    BY <1>2, <1>7 DEF IndexType, f
  <2>2. d \in SUBSET Labels
    BY <1>2, <1>4 DEF IndexType
  <2> HIDE DEF d
  <2>3. [o EXCEPT !.del = d, !.free = f] \in IndexType
    BY <1>2, <1>12, <2>2 DEF IndexType
  <2>4. /\ s.vec = o.vec /\ s.del = d /\ s.free = f /\ s.open = TRUE
        /\ s.shards = o.shards /\ s.next = o.next /\ s.unsaved = o.unsaved
    BY <1>2, <2>1 DEF IndexType
  <2>5. s \in IndexType
    BY <2>1, <2>3, Zenon
  <2> QED
    BY <2>4, <2>5 DEF d
<1>14. Recycled(s, e) /\ (InOrder(o) => InOrder(s))
  <2>1. Recycled(s, e)
    <3>1. ASSUME NEW i \in 1 .. Len(f) PROVE e[f[i]] = 0
      <4>1. CASE f[i] \in Stale
        BY <1>4, <1>11, <4>1
      <4>2. CASE i \in 1 .. Len(o.free) /\ f[i] = o.free[i]
        <5>1. o.free[i] \in Labels /\ obn[n][o.free[i]] = 0
          BY <1>10, <4>2 DEF Recycled
        <5> QED
          BY <1>11, <4>2, <5>1
      <4> QED
        BY <1>12, <3>1, <4>1, <4>2
    <3> QED
      BY <1>12, <1>13, <3>1 DEF Recycled
  <2>2. ASSUME InOrder(o) PROVE InOrder(s)
    <3>1. \A l \in Stale : l < o.next
      <4>1. o.next \in Nat /\ \A l \in Stale : l \in Labels /\ l \in Int
        BY <1>2, <1>4 DEF Labels, IndexType
      <4> QED
        BY <1>4, <2>2, <4>1 DEF InOrder
    <3> QED
      BY <1>12, <1>13, <2>2, <3>1 DEF InOrder
  <2> QED
    BY <2>1, <2>2
<1> DEFINE u == [s EXCEPT !.unsaved = FALSE]
<1>15. /\ u \in IndexType /\ u.vec = s.vec /\ u.del = s.del /\ u.shards = s.shards
       /\ u.unsaved = FALSE /\ u.next = s.next /\ u.free = s.free /\ u.open = TRUE
  BY <1>13 DEF IndexType
<1> HIDE DEF u
<1>16. Recycled(u, e) /\ (InOrder(o) => InOrder(u))
  BY <1>14, <1>15 DEF Recycled, InOrder
<1>17. index' = [m \in Names |-> index'[m]] /\ hix' = [m \in Names |-> hix'[m]]
       /\ obn' = [m \in Names |-> obn'[m]] /\ \A m \in Names : m # n => Rests(m)
  <2>1. \A m \in Names : m # n => index'[m] = index[m] /\ hix'[m] = hix[m] /\ obn'[m] = obn[m]
    <3>1. DOMAIN index = Names /\ DOMAIN hix = Names /\ DOMAIN obn = Names
      BY <1>2 DEF Maps
    <3> QED
      BY <1>6, <1>8, <3>1
  <2>2. \A m \in Names : m # n => Rests(m)
    BY <1>8, <2>1 DEF Rests
  <2>3. index' = [m \in Names |-> index'[m]] /\ hix' = [m \in Names |-> hix'[m]]
    BY <1>2, <1>6 DEF Maps
  <2> QED
    BY <1>2, <1>8, <2>2, <2>3 DEF Maps
<1>18. /\ index'[n] \in {s, u} /\ Good(index'[n], hix'[n], obn'[n]) /\ hix'[n] \in GraphType
       /\ InOrder(o) => InOrder(index'[n])
  <2>1. CASE index' = [index EXCEPT ![n] = s] /\ hix' = hix
    <3>1. index'[n] = s
      BY <1>1, <1>2, <2>1 DEF Maps
    <3>2. ~s.unsaved /\ s.shards = 1 => InFile(s, hix[n])
      BY <1>3, <1>13 DEF Good, InFile
    <3> QED
      BY <1>2, <1>11, <1>13, <1>14, <2>1, <3>1, <3>2 DEF Good
  <2>2. CASE index' = [index EXCEPT ![n] = u] /\ hix' = [hix EXCEPT ![n] = Graph(s)]
    <3>1. index'[n] = u /\ hix'[n] = Graph(s)
      BY <1>1, <1>2, <2>2 DEF Maps
    <3>2. Graph(s) \in GraphType /\ Graph(s).vec = s.vec /\ Graph(s).del = s.del
      BY <1>13 DEF Graph, GraphType, IndexType
    <3>3. InFile(u, hix'[n])
      BY <1>15, <3>1, <3>2 DEF InFile
    <3> QED
      BY <1>11, <1>15, <1>16, <3>1, <3>2, <3>3 DEF Good
  <2> QED
    BY <1>6, <2>1, <2>2 DEF u
<1>19. Maps' /\ NameInv'
  <2>1. /\ n \in Names /\ obn'[n] \in [Labels -> 0 .. MaxDocs]
        /\ n \notin reopened' => InOrder(index'[n])
    BY <1>1, <1>3, <1>8, <1>11, <1>18
  <2> QED
    BY <1>2, <1>17, <1>18, <2>1, Lifted
<1>20. /\ index'[n].open = TRUE /\ index'[n].shards = o.shards /\ index'[n].vec = o.vec
       /\ index'[n].del = o.del \cup Stale
  BY <1>13, <1>15, <1>18
<1>21. The(n) = o /\ The(n)' = index'[n]
  BY <1>1, <1>20 DEF The, o
<1> QED
  BY <1>1, <1>4, <1>8, <1>11, <1>17, <1>19, <1>20, <1>21 DEF o, e

-----------------------------------------------------------------------------
(* The documents.                                                           *)

\* What is found has an entry.
LEMMA HoldsHasEntry ==
    ASSUME NEW n \in Names, NEW d \in Holds(n)
    PROVE  \E l \in Labels : obn[n][l] = d /\ d # 0
<1>1. PICK l \in Labels : HasAt(The(n), obn[n], d, l)
  BY HoldsIs
<1> QED
  BY <1>1 DEF HasAt

\* The types of documents and entries.
LEMMA DocsAre ==
    ASSUME Typed
    PROVE  /\ Maps /\ docs \in Nat /\ MaxDocs \in Nat /\ docs <= MaxDocs
           /\ \A n \in Names : \A l \in Labels : obn[n][l] \in Nat /\ obn[n][l] <= MaxDocs
<1>1. MaxDocs \in Nat /\ docs \in 0 .. MaxDocs /\ Maps
  BY ConstantsAssumption DEF Typed, Numbers
<1>2. ASSUME NEW n \in Names, NEW l \in Labels PROVE obn[n][l] \in Nat /\ obn[n][l] <= MaxDocs
  <2>1. obn[n] \in [Labels -> 0 .. MaxDocs]
    BY <1>1, Types
  <2>2. obn[n][l] \in 0 .. MaxDocs
    BY <2>1
  <2> QED
    BY <1>1, <2>2
<1> QED
  BY <1>1, <1>2

\* A step that adds no entry, and removes those of what it takes out.
LEMMA Fewer ==
    ASSUME Typed, Once, Out, docs' = docs,
           \A n \in Names : \A l \in Labels :
               /\ obn'[n][l] \in {0, obn[n][l]}
               /\ obn'[n][l] # 0 => <<obn[n][l], TRUE>> \notin cleared' /\ obn[n][l] \notin taken'
    PROVE  Once' /\ Out'
<1>1. Once'
  <2>1. ASSUME NEW m \in Names, NEW n \in Names, NEW k \in Labels, NEW l \in Labels,
               obn'[m][k] = obn'[n][l], obn'[m][k] # 0
        PROVE  m = n /\ k = l
    <3>1. obn'[m][k] = obn[m][k]
      BY <2>1
    <3>2. obn'[n][l] = obn[n][l]
      BY <2>1
    <3>3. obn[m][k] = obn[n][l] /\ obn[m][k] # 0
      BY <2>1, <3>1, <3>2, Zenon
    <3> QED
      BY <3>3 DEF Once
  <2> QED
    BY <2>1 DEF Once
<1>2. ASSUME NEW n \in Names, NEW l \in Labels PROVE obn'[n][l] <= docs'
  <2>1. obn[n][l] \in Nat /\ obn[n][l] <= docs /\ docs \in Nat
    BY DocsAre DEF Out
  <2>2. obn'[n][l] = 0 \/ obn'[n][l] = obn[n][l]
    OBVIOUS
  <2> QED
    BY <2>1, <2>2
<1>3. Out'
  BY <1>2 DEF Out
<1> QED
  BY <1>1, <1>3

\* A step that leaves the entries alone, and takes nothing out.
LEMMA SameDocs ==
    ASSUME Typed, Once, Out, obn' = obn, docs' = docs, taken' = taken, gone' \subseteq Docs,
           \A d : <<d, TRUE>> \in cleared' <=> <<d, TRUE>> \in cleared
    PROVE  Once' /\ Out' /\ Numbers'
<1>1. Once' /\ Out'
  BY Fewer DEF Typed, Out
<1>2. Numbers'
  BY DEF Typed, Numbers
<1> QED
  BY <1>1, <1>2

\* The chunk appended has the next number, which no entry had.
LEMMA AppendDocs ==
    ASSUME Typed, Once, Out, NameInv, NEW n \in Names, AppendChunk(n)
    PROVE  Once' /\ Out' /\ Numbers'
<1> DEFINE k == Label(The(n))
<1>1. k \in Labels /\ docs + 1 \in 1 .. MaxDocs /\ docs \in Nat /\ MaxDocs \in Nat /\ Maps
  <2>1. k \in Labels /\ docs + 1 \in 1 .. MaxDocs
    BY AppendStep
  <2> QED
    BY <2>1, DocsAre
<1>2. /\ obn' = [obn EXCEPT ![n][k] = docs + 1] /\ docs' = docs + 1
      /\ cleared' = cleared /\ taken' = taken /\ gone' = gone
  BY DEF AppendChunk
<1> HIDE DEF k
<1>3. \A m \in Names : \A l \in Labels :
         /\ obn'[m][l] = IF m = n /\ l = k THEN docs + 1 ELSE obn[m][l]
         /\ obn[m][l] \in Nat /\ obn[m][l] <= docs /\ obn[m][l] # docs + 1
  <2>1. \A m \in Names : \A l \in Labels :
           obn'[m][l] = IF m = n /\ l = k THEN docs + 1 ELSE obn[m][l]
    BY <1>1, <1>2 DEF Maps
  <2>2. \A m \in Names : \A l \in Labels : obn[m][l] \in Nat /\ obn[m][l] <= docs
    BY DocsAre DEF Out
  <2> QED
    BY <1>1, <2>1, <2>2
<1>4. Once'
  BY <1>1, <1>3 DEF Once
<1>5. Out'
  <2>0. cleared' = cleared /\ taken' = taken
    BY <1>2
  <2>1. <<docs + 1, TRUE>> \notin cleared /\ docs + 1 \notin taken
    <3>1. docs + 1 \in Docs /\ ~(docs + 1 <= docs)
      BY <1>1 DEF Docs
    <3> QED
      BY <3>1 DEF Typed, Numbers
  <2>2. ASSUME NEW m \in Names, NEW l \in Labels
        PROVE  /\ obn'[m][l] <= docs'
               /\ obn'[m][l] # 0 => <<obn'[m][l], TRUE>> \notin cleared' /\ obn'[m][l] \notin taken'
    <3>1. CASE m = n /\ l = k
      <4>1. obn'[m][l] = docs + 1
        BY <1>3, <3>1
      <4>2. obn'[m][l] <= docs'
        BY <1>1, <1>2, <4>1
      <4> QED
        BY <2>0, <2>1, <4>1, <4>2
    <3>2. CASE ~(m = n /\ l = k)
      <4>1. obn'[m][l] = obn[m][l] /\ obn[m][l] \in Nat /\ obn[m][l] <= docs
        BY <1>3, <3>2
      <4>2. obn[m][l] # 0 => <<obn[m][l], TRUE>> \notin cleared /\ obn[m][l] \notin taken
        BY DEF Out
      <4>3. obn'[m][l] <= docs'
        BY <1>1, <1>2, <4>1
      <4> QED
        BY <2>0, <4>1, <4>2, <4>3
    <3> QED
      BY <3>1, <3>2
  <2> QED
    BY <2>2 DEF Out
<1>6. Numbers'
  <2>1. docs' \in 0 .. MaxDocs /\ \A d \in Docs : d <= docs => d <= docs'
    BY <1>1, <1>2 DEF Docs
  <2> QED
    BY <1>2, <2>1 DEF Typed, Numbers
<1> QED
  BY <1>4, <1>5, <1>6

\* clear removes the entries of what it takes out.
LEMMA ClearDocs ==
    ASSUME Typed, Once, Out, NameInv, NEW n \in Names, Clear(n)
    PROVE  Once' /\ Out' /\ Numbers'
<1>1. /\ obn' = [obn EXCEPT ![n] = Nothing] /\ docs' = docs /\ taken' = taken /\ gone' = gone
      /\ cleared' = cleared \cup Holds(n) \X {TRUE} /\ Maps
  BY DEF Clear, Typed
<1>2. \A m \in Names : \A l \in Labels : obn'[m][l] = IF m = n THEN 0 ELSE obn[m][l]
  BY <1>1 DEF Maps, Nothing
<1>3. ASSUME NEW m \in Names, NEW l \in Labels, m # n, obn[m][l] # 0 PROVE obn[m][l] \notin Holds(n)
  BY <1>3, HoldsHasEntry DEF Once
<1>4. \A m \in Names : \A l \in Labels :
         /\ obn'[m][l] \in {0, obn[m][l]}
         /\ obn'[m][l] # 0 => <<obn[m][l], TRUE>> \notin cleared' /\ obn[m][l] \notin taken'
  <2> SUFFICES ASSUME NEW m \in Names, NEW l \in Labels
               PROVE  /\ obn'[m][l] \in {0, obn[m][l]}
                      /\ obn'[m][l] # 0 =>
                            <<obn[m][l], TRUE>> \notin cleared' /\ obn[m][l] \notin taken'
    OBVIOUS
  <2>1. obn[m][l] # 0 => <<obn[m][l], TRUE>> \notin cleared /\ obn[m][l] \notin taken
    BY DEF Out
  <2>2. CASE m = n
    BY <1>2, <2>2
  <2>3. CASE m # n
    <3>1. obn'[m][l] = obn[m][l] /\ (obn[m][l] # 0 => obn[m][l] \notin Holds(n))
      BY <1>2, <1>3, <2>3
    <3>2. obn[m][l] # 0 => <<obn[m][l], TRUE>> \notin cleared'
      BY <1>1, <2>1, <3>1
    <3> QED
      BY <1>1, <2>1, <3>1, <3>2, Zenon
  <2> QED
    BY <2>2, <2>3
<1>5. Once' /\ Out'
  BY <1>1, <1>4, Fewer
<1>6. ASSUME NEW d \in Docs, <<d, TRUE>> \in cleared' PROVE d <= docs'
  <2>1. CASE <<d, TRUE>> \in cleared
    BY <1>1, <2>1 DEF Typed, Numbers
  <2>2. CASE d \in Holds(n)
    BY <1>1, <2>2, HoldsHasEntry DEF Out
  <2> QED
    BY <1>1, <1>6, <2>1, <2>2
<1>7. Numbers'
  BY <1>1, <1>6 DEF Typed, Numbers
<1> QED
  BY <1>5, <1>7

\* So does the search, of what it found deleted.
LEMMA RemoveStaleDocs ==
    ASSUME Typed, Once, Out, NameInv, QueryInv, query.on, RemoveStale
    PROVE  Once' /\ Out' /\ Numbers'
<1> DEFINE n == query.name
           L == Stale
<1>1. L \subseteq Labels /\ n \in Names /\ Maps
  BY RemoveStaleStep DEF Typed
<1>2. /\ obn' = [obn EXCEPT ![n] = Zeroed(n, L)] /\ docs' = docs /\ cleared' = cleared
      /\ gone' = gone /\ taken' = taken \cup {obn[n][l] : l \in L}
  BY DEF RemoveStale
<1>3. \A l \in L : obn[n][l] \in gone /\ obn[n][l] \in Docs /\ obn[n][l] # 0
  <2>1. \A l \in L : obn[n][l] \in gone
    BY DEF Stale
  <2>2. gone \subseteq Docs /\ \A d \in Docs : d # 0
    BY DEF Typed, Numbers, Docs
  <2> QED
    BY <2>1, <2>2
<1> HIDE DEF n, L
<1>4. \A m \in Names : \A l \in Labels : obn'[m][l] = IF m = n /\ l \in L THEN 0 ELSE obn[m][l]
  BY <1>1, <1>2 DEF Maps, Zeroed
<1>5. ASSUME NEW m \in Names, NEW l \in Labels, obn'[m][l] # 0
      PROVE  <<obn[m][l], TRUE>> \notin cleared' /\ obn[m][l] \notin taken'
  <2>1. obn'[m][l] = obn[m][l] /\ ~(m = n /\ l \in L)
    BY <1>4, <1>5
  <2>2. \A k \in L : obn[m][l] # obn[n][k]
    BY <1>1, <1>3, <1>5, <2>1 DEF Once
  <2> QED
    BY <1>2, <1>5, <2>1, <2>2 DEF Out
<1>6. Once' /\ Out'
  <2>1. \A m \in Names : \A l \in Labels : obn'[m][l] \in {0, obn[m][l]}
    BY <1>4
  <2> QED
    BY <1>1, <1>2, <1>5, <2>1, Fewer
<1>7. \A d \in taken' : d \in Docs /\ d <= docs
  <2>1. \A l \in L : obn[n][l] <= docs
    BY <1>1 DEF Out
  <2> QED
    BY <1>2, <1>3, <2>1 DEF Typed, Numbers
<1>8. Numbers'
  BY <1>2, <1>7 DEF Typed, Numbers
<1> QED
  BY <1>6, <1>8

-----------------------------------------------------------------------------
(* The search, and the steps together.                                      *)

\* The first results have vectors in the index just opened.
LEMMA SearchBeginStep ==
    ASSUME Typed, NameInv, NEW n \in Names, SearchBegin(n)
    PROVE  QueryInv'
<1>1. /\ index'[n] = The(n) /\ Good(The(n), hix[n], obn[n])
  <2>1. GetOrCreate(n, The(n)) /\ hix' = HixAfter(n) /\ obn' = obn /\ Maps
    BY DEF SearchBegin, Typed
  <2>2. \A m \in Names : m # n => obn'[m] = obn[m] /\ hix'[m] = HixAfter(n)[m]
    BY <2>1
  <2> QED
    BY <2>1, <2>2, Called
<1>2. The(n).open = TRUE
  BY <1>1 DEF Good, IndexType
<1>3. PICK C \in Candidates(The(n)) :
         query' = [on |-> TRUE, name |-> n, results |-> Results(n, The(n), C),
                   threshold |-> Threshold(Results(n, The(n), C))]
  BY DEF SearchBegin
<1>4. /\ query'.name = n /\ query'.results = Results(n, The(n), C)
      /\ query' = [on |-> TRUE, name |-> query'.name, results |-> query'.results,
                   threshold |-> query'.threshold]
  BY <1>3
<1>5. Results(n, The(n), C) \subseteq {l \in Labels : The(n).vec[l] # 0}
  BY DEF Candidates, InGraph, Results
<1> QED
  BY <1>1, <1>2, <1>4, <1>5 DEF QueryInv

\* And those of the search done again.
LEMMA SearchAgainStep ==
    ASSUME Typed, NameInv, QueryInv, SearchAgain
    PROVE  QueryInv'
<1> DEFINE n == query.name
           R == query'.results
<1>1. /\ query.on /\ RemoveStale /\ n \in Names
      /\ query = [on |-> TRUE, name |-> n, results |-> query.results, threshold |-> query.threshold]
  BY DEF SearchAgain, QueryInv, NoQuery
<1>2. PICK C \in Candidates(index'[n]) :
         query' = [query EXCEPT !.results = {l \in C : obn'[n][l] # 0}]
  BY DEF SearchAgain
<1>3. \A i : i = n => index'[i].open = TRUE
  BY <1>1, RemoveStaleStep
<1>4. /\ query'.name = n /\ R = {l \in C : obn'[n][l] # 0}
      /\ query' = [on |-> TRUE, name |-> query'.name, results |-> R, threshold |-> query'.threshold]
  BY <1>1, <1>2
<1>5. C \subseteq {l \in Labels : index'[n].vec[l] # 0}
  BY DEF Candidates, InGraph
<1> QED
  BY <1>1, <1>3, <1>4, <1>5 DEF QueryInv

\* No query is begun or goes on in a step of another kind.
LEMMA SameQuery ==
    ASSUME QueryInv, ~query.on, query' = query
    PROVE  QueryInv'
BY DEF QueryInv

\* Crashes are counted.
LEMMA CrashesCounted ==
    ASSUME [Next]_vars
    PROVE  crashes' \in {crashes, crashes + 1}
<1>1. ASSUME NEW n \in Names, Use(n) \/ AppendChunk(n) \/ AppendRefused(n) \/ Flush(n)
      PROVE  crashes' = crashes
  BY <1>1 DEF Use, AppendChunk, AppendRefused, Flush
<1>2. ASSUME NEW n \in Names, Clear(n) \/ ClearIgnored(n) \/ SearchNone(n) \/ SearchBegin(n)
      PROVE  crashes' = crashes
  BY <1>2 DEF Clear, ClearIgnored, SearchNone, SearchBegin, history
<1>3. ASSUME FlushAll \/ Quit \/ SearchAgain \/ SearchEnd PROVE crashes' = crashes
  BY <1>3 DEF FlushAll, Quit, SearchAgain, SearchEnd, RemoveStale, history
<1>4. ASSUME NEW d \in 1 .. MaxDocs, Delete(d) PROVE crashes' = crashes
  BY <1>4 DEF Delete, history
<1>5. ASSUME Crash PROVE crashes' = crashes + 1
  BY <1>5 DEF Crash
<1>6. ASSUME UNCHANGED vars PROVE crashes' = crashes
  BY <1>6 DEF vars, history
<1> QED
  BY <1>1, <1>2, <1>3, <1>4, <1>5, <1>6 DEF Next

\* Initially there is nothing.
LEMMA InitIInv == Init => IInv
<1> SUFFICES ASSUME Init PROVE IInv
  OBVIOUS
<1>1. Nothing \in [Labels -> 0 .. MaxDocs] /\ MaxDocs \in Nat /\ NoGraph \in GraphType
  BY ConstantsAssumption DEF Nothing, NoGraph, GraphType
<1>2. Typed
  BY <1>1 DEF Init, Typed, Maps, Numbers, Docs
<1>3. NameInv /\ QueryInv /\ crashes \in Nat
  BY DEF Init, NameInv, QueryInv
<1>4. Once /\ Out
  <2>1. \A n \in Names : \A l \in Labels : obn[n][l] = 0 /\ docs = 0
    BY DEF Init, Nothing
  <2>2. Once
    BY <2>1 DEF Once
  <2>3. \A n \in Names : \A l \in Labels : obn[n][l] <= docs
    BY <2>1
  <2> QED
    BY <2>1, <2>2, <2>3 DEF Out
<1> QED
  BY <1>2, <1>3, <1>4 DEF IInv

\* Every step keeps the invariant.
LEMMA NextIInv == IInv /\ [Next]_vars => IInv'
<1> SUFFICES ASSUME IInv, [Next]_vars PROVE IInv'
  OBVIOUS
<1> USE DEF IInv
<1>0. crashes' \in Nat
  BY CrashesCounted
<1>1. Maps /\ gone \subseteq Docs
  BY DEF Typed, Numbers
<1> DEFINE Names1 == Maps' /\ NameInv'
           Docs1 == Once' /\ Out' /\ Numbers'
<1>2. ASSUME NEW n \in Names, Use(n) \/ AppendRefused(n) PROVE IInv'
  <2>1. /\ GetOrCreate(n, The(n)) /\ hix' = HixAfter(n) /\ obn' = obn
        /\ ~query.on /\ query' = query /\ docs' = docs /\ taken' = taken /\ gone' = gone
        /\ cleared' = cleared
    BY <1>2 DEF Use, AppendRefused, Idle, searching
  <2>2. Names1
    BY <1>1, <2>1, OnlyCalled
  <2>3. Docs1
    BY <1>1, <2>1, SameDocs
  <2> QED
    BY <1>0, <2>1, <2>2, <2>3, SameQuery DEF Typed
<1>3. ASSUME NEW n \in Names, AppendChunk(n) PROVE IInv'
  <2>1. ~query.on /\ query' = query
    BY <1>3 DEF AppendChunk, Idle, searching
  <2> QED
    BY <1>0, <1>3, <2>1, AppendStep, AppendDocs, SameQuery DEF Typed
<1>4. ASSUME NEW n \in Names, Flush(n) PROVE IInv'
  <2>1. /\ ~query.on /\ query' = query /\ obn' = obn /\ docs' = docs /\ taken' = taken
        /\ gone' = gone /\ cleared' = cleared
    BY <1>4 DEF Flush, Idle, searching
  <2>2. Docs1
    BY <1>1, <2>1, SameDocs
  <2> QED
    BY <1>0, <1>4, <2>1, <2>2, FlushStep, SameQuery DEF Typed
<1>5. ASSUME NEW n \in Names, Clear(n) PROVE IInv'
  <2>1. ~query.on /\ query' = query
    BY <1>5 DEF Clear, Idle, searching
  <2> QED
    BY <1>0, <1>5, <2>1, ClearStep, ClearDocs, SameQuery DEF Typed
<1>6. ASSUME UNCHANGED <<index, hix, obn, query, docs, taken, reopened>>, gone' \subseteq Docs,
             \A d : <<d, TRUE>> \in cleared' <=> <<d, TRUE>> \in cleared
      PROVE  IInv'
  <2>1. Docs1
    BY <1>6, SameDocs
  <2>2. Names1
    BY <1>1, <1>6 DEF Maps, NameInv
  <2>3. QueryInv'
    BY <1>6 DEF QueryInv
  <2> QED
    BY <1>0, <2>1, <2>2, <2>3 DEF Typed
<1>7. ASSUME NEW n \in Names, ClearIgnored(n) PROVE IInv'
  <2>1. UNCHANGED <<index, hix, obn, query, docs, taken, reopened>> /\ gone' = gone
    BY <1>7 DEF ClearIgnored, searching
  <2>2. \A d : <<d, TRUE>> \in cleared' <=> <<d, TRUE>> \in cleared
    BY <1>7 DEF ClearIgnored
  <2> QED
    BY <1>1, <1>6, <2>1, <2>2
<1>8. ASSUME NEW n \in Names, SearchNone(n) PROVE IInv'
  <2>1. /\ UNCHANGED <<index, hix, obn, query, docs, taken, reopened>>
        /\ gone' = gone /\ cleared' = cleared
    BY <1>8 DEF SearchNone, history
  <2> QED
    BY <1>1, <1>6, <2>1
<1>9. ASSUME NEW n \in Names, SearchBegin(n) PROVE IInv'
  <2>1. /\ GetOrCreate(n, The(n)) /\ hix' = HixAfter(n) /\ obn' = obn
        /\ docs' = docs /\ taken' = taken /\ gone' = gone /\ cleared' = cleared
    BY <1>9 DEF SearchBegin
  <2>2. Names1
    BY <1>1, <2>1, OnlyCalled
  <2>3. Docs1
    BY <1>1, <2>1, SameDocs
  <2> QED
    BY <1>0, <1>9, <2>2, <2>3, SearchBeginStep DEF Typed
<1>10. ASSUME FlushAll PROVE IInv'
  <2>1. /\ ~query.on /\ query' = query /\ obn' = obn /\ docs' = docs /\ taken' = taken
        /\ gone' = gone /\ cleared' = cleared
    BY <1>10 DEF FlushAll, Idle, searching, history
  <2>2. Docs1
    BY <1>1, <2>1, SameDocs
  <2> QED
    BY <1>0, <1>10, <2>1, <2>2, FlushAllStep, SameQuery DEF Typed
<1>11. ASSUME Quit PROVE IInv'
  <2>1. /\ ~query.on /\ query' = query /\ obn' = obn /\ docs' = docs /\ taken' = taken
        /\ gone' = gone /\ cleared' = cleared
    BY <1>11 DEF Quit, Idle, searching, history
  <2>2. Docs1
    BY <1>1, <2>1, SameDocs
  <2> QED
    BY <1>0, <1>11, <2>1, <2>2, QuitStep, SameQuery DEF Typed
<1>12. ASSUME Crash PROVE IInv'
  <2>1. /\ query' = NoQuery /\ obn' = obn /\ docs' = docs /\ taken' = taken
        /\ gone' = gone /\ cleared' = cleared
    BY <1>12 DEF Crash
  <2>2. Docs1
    BY <1>1, <2>1, SameDocs
  <2>3. QueryInv'
    BY <2>1 DEF QueryInv
  <2> QED
    BY <1>0, <1>12, <2>2, <2>3, CrashStep DEF Typed
<1>13. ASSUME query.on, RemoveStale, QueryInv' PROVE IInv'
  <2>1. Names1
    BY <1>13, RemoveStaleStep
  <2>2. Docs1
    BY <1>13, RemoveStaleDocs
  <2> QED
    BY <1>0, <1>13, <2>1, <2>2 DEF Typed
<1>14. ASSUME SearchAgain PROVE IInv'
  BY <1>13, <1>14, SearchAgainStep DEF SearchAgain
<1>15. ASSUME SearchEnd PROVE IInv'
  <2>1. QueryInv'
    BY <1>15 DEF SearchEnd, QueryInv
  <2> QED
    BY <1>13, <1>15, <2>1 DEF SearchEnd
<1>16. ASSUME NEW d \in 1 .. MaxDocs, Delete(d) PROVE IInv'
  <2>1. /\ UNCHANGED <<index, hix, obn, query, docs, taken, reopened>>
        /\ gone' \subseteq Docs /\ cleared' = cleared
    BY <1>1, <1>16 DEF Delete, Docs, searching, history
  <2> QED
    BY <1>6, <2>1
<1>17. CASE UNCHANGED vars
  <2>1. /\ UNCHANGED <<index, hix, obn, query, docs, taken, reopened>>
        /\ gone' = gone /\ cleared' = cleared
    BY <1>17 DEF vars, searching, history
  <2> QED
    BY <1>1, <1>6, <2>1
<1> HIDE DEF IInv
<1> QED
  BY <1>2, <1>3, <1>4, <1>5, <1>7, <1>8, <1>9, <1>10, <1>11, <1>12,
     <1>14, <1>15, <1>16, <1>17 DEF Next

\* The invariant holds in every state of the manager.
THEOREM Invariance == Spec => []IInv
<1>1. Init => IInv
  BY InitIInv
<1>2. IInv /\ [Next]_vars => IInv'
  BY NextIInv
<1> QED
  BY <1>1, <1>2, PTL DEF Spec

-----------------------------------------------------------------------------
(* What the manager finds.                                                  *)

\* BertIndexManager::clear and EmbeddingIndexer::search: for any names, size of the
\* cache and number of labels, a document that a clear took out with its files, or a
\* search because the store had deleted it, is found again under no name, across
\* eviction, reopening and crashes.
THEOREM GoneStaysGoneHolds == Spec => []GoneStaysGone
<1>1. IInv => GoneStaysGone
  <2> SUFFICES ASSUME IInv, NEW n \in Names, NEW d \in Holds(n)
               PROVE  <<d, TRUE>> \notin cleared /\ d \notin taken
    BY DEF GoneStaysGone
  <2>1. PICK l \in Labels : obn[n][l] = d /\ d # 0
    BY HoldsHasEntry
  <2> QED
    BY <2>1 DEF IInv, Out
<1> QED
  BY <1>1, Invariance, PTL

\* ShardedIndex::Exists: the bridge and clear take an index for missing when its graph
\* has no file; then what can be found in it is unsaved, in an open index.
MissingIsUnsaved ==
    \A n \in Names : ~Exists(n) /\ Holds(n) # {} => index[n].open /\ index[n].unsaved

THEOREM MissingIsUnsavedHolds == Spec => []MissingIsUnsaved
<1>1. IInv => MissingIsUnsaved
  <2> SUFFICES ASSUME IInv, NEW n \in Names, hix[n] = NoGraph, NEW d \in Holds(n),
                      ~(index[n].open /\ index[n].unsaved)
               PROVE  FALSE
    BY DEF MissingIsUnsaved, Exists
  <2>1. PICK l \in Labels : HasAt(The(n), obn[n], d, l)
    BY HoldsIs
  <2>2. hix[n].vec[l] = 0
    BY DEF NoGraph, Nothing
  <2>3. The(n).vec = hix[n].vec
    <3>1. CASE ~index[n].open
      BY <3>1 DEF The, OpenIndex
    <3>2. CASE index[n].open /\ ~index[n].unsaved
      <4>1. The(n) = index[n] /\ index[n] # Closed
        BY <3>2 DEF The, Closed
      <4>2. Good(index[n], hix[n], obn[n]) /\ index[n].shards = 1
        BY <2>1, <4>1 DEF IInv, NameInv, HasAt
      <4> QED
        BY <3>2, <4>1, <4>2 DEF Good, InFile
    <3> QED
      BY <3>1, <3>2
  <2> QED
    BY <2>1, <2>2, <2>3 DEF HasAt
<1> QED
  BY <1>1, Invariance, PTL

\* What took chunk d from the name n, as LossHasCause has it.
Cause(n, d) ==
    \/ <<d, TRUE>> \in cleared' \/ d \in taken'
    \/ docs' > docs /\ n \in reopened' /\ d \in Holds(n)
       /\ \E l \in Labels : obn[n][l] = d /\ obn'[n][l] = docs'
    \/ crashes' > crashes /\ index[n].unsaved

\* An append loses only the chunk whose label it gives out again.
LEMMA AppendLoss ==
    ASSUME IInv, NEW n \in Names, AppendChunk(n), NEW m \in Names, NEW d \in Holds(m),
           ~(d \in Holds(m))'
    PROVE  Cause(m, d)
<1> DEFINE s == The(n)
           k == Label(The(n))
<1>1. Typed /\ NameInv /\ Maps /\ docs \in Nat
  BY DocsAre DEF IInv
<1>2. /\ \A i \in Names : i # n => Rests(i)
      /\ s \in IndexType /\ k \in Labels /\ (n \notin reopened' => InOrder(s))
      /\ HasLabel(s) /\ Recycled(s, obn[n])
      /\ The(n)' = index'[n] /\ index'[n].shards = 1 /\ s.shards = 1
      /\ index'[n].vec = [s.vec EXCEPT ![k] = docs + 1] /\ index'[n].del = s.del \ {k}
  BY <1>1, AppendStep
<1>3. m = n
  BY <1>1, <1>2, RestsHolds
<1>4. obn' = [obn EXCEPT ![n][k] = docs + 1] /\ docs' = docs + 1
  BY DEF AppendChunk
<1>5. PICK l \in Labels : HasAt(s, obn[n], d, l)
  BY <1>3, HoldsIs
<1> HIDE DEF k, s
<1>6. obn'[n] = [obn[n] EXCEPT ![k] = docs + 1] /\ obn[n] \in [Labels -> 0 .. MaxDocs]
  BY <1>1, <1>4, Types DEF Maps
<1>7. l = k
  <2> SUFFICES ASSUME l # k PROVE FALSE
    OBVIOUS
  <2>1. index'[n].vec[l] = s.vec[l] /\ obn'[n][l] = obn[n][l]
    BY <1>2, <1>6 DEF IndexType
  <2>2. HasAt(index'[n], obn'[n], d, l)
    BY <1>2, <1>5, <2>1 DEF HasAt
  <2>3. HasAt(The(n)', obn'[n], d, l)
    BY <1>2, <2>2
  <2> QED
    BY <1>3, <2>3, HoldsIs
<1>8. n \in reopened'
  <2> SUFFICES ASSUME n \notin reopened' PROVE FALSE
    OBVIOUS
  <2>1. InOrder(s) /\ s.vec[k] # 0 /\ obn[n][k] # 0
    BY <1>2, <1>5, <1>7 DEF HasAt
  <2>2. CASE s.free = <<>> /\ k = s.next /\ s.next \in Nat
    BY <1>2, <2>1, <2>2 DEF InOrder
  <2>3. CASE s.free # <<>> /\ k = s.free[1] /\ Len(s.free) \in Nat \ {0}
    BY <1>2, <2>1, <2>3 DEF Recycled
  <2> QED
    BY <1>2, <2>2, <2>3, LabelIs DEF s, k
<1>9. obn[n][k] = d /\ obn'[n][k] = docs'
  BY <1>2, <1>4, <1>5, <1>6, <1>7 DEF HasAt
<1> QED
  BY <1>1, <1>2, <1>3, <1>4, <1>8, <1>9 DEF Cause

\* The removal of what the store deleted loses only that.
LEMMA RemoveStaleLoss ==
    ASSUME IInv, query.on, RemoveStale, NEW m \in Names, NEW d \in Holds(m),
           ~(d \in Holds(m))'
    PROVE  d \in taken'
<1>1. PICK n : n = query.name
  OBVIOUS
<1>2. Typed /\ NameInv /\ QueryInv /\ Maps
  BY DEF IInv, Typed
<1>3. /\ n \in Names /\ \A i \in Names : i # n => Rests(i)
      /\ obn'[n] = Zeroed(n, Stale) /\ \A l \in Stale : obn[n][l] \in taken'
      /\ The(n) = index[n] /\ The(n)' = index'[n]
      /\ index'[n].shards = index[n].shards /\ index'[n].vec = index[n].vec
      /\ index'[n].del = index[n].del \cup Stale
  BY <1>1, <1>2, RemoveStaleStep
<1>4. m = n
  BY <1>2, <1>3, RestsHolds
<1>5. PICK l \in Labels : HasAt(The(n), obn[n], d, l)
  BY <1>4, HoldsIs
<1>6. CASE l \in Stale
  BY <1>3, <1>5, <1>6 DEF HasAt
<1>7. CASE l \notin Stale
  <2>1. obn'[n][l] = obn[n][l]
    BY <1>3, <1>7 DEF Zeroed
  <2>2. HasAt(The(n)', obn'[n], d, l)
    BY <1>3, <1>5, <1>7, <2>1 DEF HasAt
  <2> QED
    BY <1>4, <2>2, HoldsIs
<1> QED
  BY <1>6, <1>7

\* No other step loses any, but clear and a crash.
LEMMA NextLoss ==
    ASSUME IInv, [Next]_vars, NEW m \in Names, NEW d \in Holds(m), ~(d \in Holds(m))'
    PROVE  Cause(m, d)
<1>1. Typed /\ NameInv /\ Maps
  BY DEF IInv, Typed
<1>2. ASSUME NEW n \in Names, Use(n) \/ AppendRefused(n) \/ SearchBegin(n) PROVE FALSE
  <2>1. GetOrCreate(n, The(n)) /\ hix' = HixAfter(n) /\ obn' = obn
    BY <1>2 DEF Use, AppendRefused, SearchBegin
  <2> QED
    BY <1>1, <2>1, OnlyCalled
<1>3. ASSUME NEW n \in Names, AppendChunk(n) PROVE Cause(m, d)
  BY <1>3, AppendLoss
<1>4. ASSUME NEW n \in Names, Flush(n) PROVE FALSE
  BY <1>1, <1>4, FlushStep
<1>5. ASSUME NEW n \in Names, Clear(n) PROVE Cause(m, d)
  <2>1. m = n
    BY <1>1, <1>5, ClearStep, RestsHolds
  <2> QED
    BY <1>5, <2>1 DEF Clear, Cause
<1>6. ASSUME UNCHANGED <<index, hix, obn>> PROVE FALSE
  <2>1. Holds(m)' = Holds(m)
    BY <1>6 DEF Holds, OpenIndex, InGraph
  <2> QED
    BY <2>1
<1>7. ASSUME NEW n \in Names, ClearIgnored(n) \/ SearchNone(n) PROVE FALSE
  BY <1>6, <1>7 DEF ClearIgnored, SearchNone
<1>8. ASSUME FlushAll PROVE FALSE
  BY <1>1, <1>8, FlushAllStep
<1>9. ASSUME Quit PROVE FALSE
  BY <1>1, <1>9, QuitStep
<1>10. ASSUME Crash PROVE Cause(m, d)
  <2>1. index[m].open /\ index[m].unsaved
    BY <1>1, <1>10, CrashStep, RestsHolds
  <2>2. crashes' > crashes
    BY <1>10 DEF Crash, IInv
  <2> QED
    BY <2>1, <2>2 DEF Cause
<1>11. ASSUME SearchAgain \/ SearchEnd PROVE Cause(m, d)
  BY <1>11, RemoveStaleLoss DEF SearchAgain, SearchEnd, Cause
<1>12. ASSUME NEW e \in 1 .. MaxDocs, Delete(e) PROVE FALSE
  BY <1>6, <1>12 DEF Delete
<1>13. CASE UNCHANGED vars
  BY <1>6, <1>13 DEF vars
<1> QED
  BY <1>2, <1>3, <1>4, <1>5, <1>7, <1>8, <1>9, <1>10, <1>11, <1>12, <1>13 DEF Next

\* BertIndexManager and LRUCache: for any names and any size of the cache, a chunk once
\* found is lost only to a clear, to a search that found it deleted, to an append in an
\* index opened again, whose labels begin at 0, or to a crash before it was saved.
THEOREM LossHasCauses == Spec => LossHasCause
<1>1. IInv /\ [Next]_vars =>
         [\A n \in Names : \A d \in Holds(n) \ Holds(n)' :
             \/ <<d, TRUE>> \in cleared' \/ d \in taken'
             \/ docs' > docs /\ n \in reopened' /\ d \in Holds(n)
                /\ \E l \in Labels : obn[n][l] = d /\ obn'[n][l] = docs'
             \/ crashes' > crashes /\ index[n].unsaved]_vars
  BY NextLoss DEF Cause
<1> QED
  BY <1>1, Invariance, PTL DEF Spec, LossHasCause

-----------------------------------------------------------------------------
(* The cache.                                                               *)

\* A list of names that names none twice.
Unrepeated(s) == \A i, j \in 1 .. Len(s) : s[i] = s[j] => i = j

\* What ToFront returns, place by place.
LEMMA ToFrontIs ==
    ASSUME NEW s \in Seq(Names), NEW n \in Names
    PROVE  /\ ToFront(s, n) \in Seq(Names) /\ ToFront(s, n)[1] = n
           /\ n \notin ToSet(s) =>
                /\ Len(ToFront(s, n)) = Len(s) + 1
                /\ \A i \in 1 .. Len(s) : ToFront(s, n)[i + 1] = s[i]
           /\ n \in ToSet(s) =>
                /\ Len(ToFront(s, n)) = Len(s)
                /\ \E p \in 1 .. Len(s) :
                      /\ s[p] = n
                      /\ \A i \in 1 .. Len(s) :
                            ToFront(s, n)[i] = IF i = 1 THEN n ELSE IF i <= p THEN s[i - 1] ELSE s[i]
<1>1. Len(s) \in Nat /\ DOMAIN s = 1 .. Len(s) /\ \A i \in 1 .. Len(s) : s[i] \in Names
  OBVIOUS
<1>2. PICK h : h = <<n>>
  OBVIOUS
<1>3. h \in Seq(Names) /\ Len(h) = 1 /\ h[1] = n
  BY <1>2
<1>4. PICK r : r = ToFront(s, n)
  OBVIOUS
<1>5. CASE n \notin ToSet(s)
  <2>1. r = h \o s
    BY <1>2, <1>4, <1>5 DEF ToFront
  <2>2. /\ r \in Seq(Names) /\ Len(r) = 1 + Len(s)
        /\ \A i \in 1 .. 1 + Len(s) : r[i] = IF i <= 1 THEN h[i] ELSE s[i - 1]
    BY <1>3, <2>1, ConcatProperties
  <2>3. r[1] = n /\ \A i \in 1 .. Len(s) : r[i + 1] = s[i]
    BY <1>1, <1>3, <2>2
  <2>4. Len(r) = Len(s) + 1
    BY <1>1, <2>2
  <2> QED
    BY <1>4, <1>5, <2>2, <2>3, <2>4, Zenon
<1>6. CASE n \in ToSet(s)
  <2>1. PICK p \in 1 .. Len(s) : p = Place(s, n) /\ s[p] = n
    <3>1. \E q \in 1 .. Len(s) : s[q] = n
      BY <1>1, <1>6 DEF ToSet
    <3> QED
      BY <3>1 DEF Place
  <2>2. PICK a, b, c : a = SubSeq(s, 1, p - 1) /\ b = SubSeq(s, p + 1, Len(s)) /\ c = a \o b
    OBVIOUS
  <2>10. c = a \o b
    BY <2>2
  <2>3. r = h \o c
    BY <1>2, <1>4, <1>6, <2>1, <2>2 DEF ToFront, RemoveAt
  <2>4. /\ a \in Seq(Names) /\ Len(a) = p - 1 /\ \A i \in 1 .. p - 1 : a[i] = s[i]
    <3>1. p - 1 \in Int /\ \A i \in 1 .. p - 1 : s[i] \in Names
      BY <1>1, <2>1
    <3> QED
      BY <2>1, <2>2, <3>1, SubSeqProperties, SMTT(20)
  <2>5. /\ b \in Seq(Names) /\ Len(b) = Len(s) - p
        /\ \A i \in 1 .. Len(s) - p : b[i] = s[p + i]
    <3>1. p + 1 \in Int /\ Len(s) \in Int /\ \A i \in p + 1 .. Len(s) : s[i] \in Names
      BY <1>1, <2>1
    <3>2. /\ b \in Seq(Names)
          /\ Len(b) = IF p + 1 <= Len(s) THEN Len(s) - (p + 1) + 1 ELSE 0
          /\ \A i \in 1 .. Len(s) - (p + 1) + 1 : b[i] = s[(p + 1) + i - 1]
      BY <2>2, <3>1, SubSeqProperties
    <3>3. \A i \in 1 .. Len(s) - p : i \in 1 .. Len(s) - (p + 1) + 1 /\ (p + 1) + i - 1 = p + i
      BY <1>1, <2>1
    <3> QED
      BY <1>1, <2>1, <3>2, <3>3
  <2>6. /\ c \in Seq(Names) /\ Len(c) = Len(s) - 1
        /\ \A i \in 1 .. Len(s) - 1 : c[i] = IF i <= p - 1 THEN s[i] ELSE s[i + 1]
    <3>1. /\ c \in Seq(Names) /\ Len(c) = Len(a) + Len(b)
          /\ \A i \in 1 .. Len(a) + Len(b) :
                c[i] = IF i <= Len(a) THEN a[i] ELSE b[i - Len(a)]
      <4>1. a \in Seq(Names) /\ b \in Seq(Names)
        BY <2>4, <2>5
      <4> QED
        BY <2>10, <4>1, ConcatProperties
    <3>2. Len(a) + Len(b) = Len(s) - 1 /\ Len(a) = p - 1
      BY <1>1, <2>1, <2>4, <2>5
    <3>3. ASSUME NEW i \in 1 .. Len(s) - 1 PROVE c[i] = IF i <= p - 1 THEN s[i] ELSE s[i + 1]
      <4>1. CASE i <= p - 1
        BY <1>1, <2>1, <2>4, <3>1, <3>2, <4>1
      <4>2. CASE ~(i <= p - 1)
        <5>1. i - (p - 1) \in 1 .. Len(s) - p /\ p + (i - (p - 1)) = i + 1
          BY <1>1, <2>1, <4>2
        <5> QED
          BY <2>5, <3>1, <3>2, <4>2, <5>1
      <4> QED
        BY <4>1, <4>2
    <3> QED
      BY <3>1, <3>2, <3>3
  <2>7. /\ r \in Seq(Names) /\ Len(r) = Len(s)
        /\ \A i \in 1 .. Len(s) : r[i] = IF i <= 1 THEN h[i] ELSE c[i - 1]
    <3>1. /\ r \in Seq(Names) /\ Len(r) = 1 + Len(c)
          /\ \A i \in 1 .. 1 + Len(c) : r[i] = IF i <= 1 THEN h[i] ELSE c[i - 1]
      <4>1. h \in Seq(Names) /\ c \in Seq(Names) /\ Len(h) = 1
        BY <1>3, <2>6
      <4>2. /\ r \in Seq(Names) /\ Len(r) = Len(h) + Len(c)
            /\ \A i \in 1 .. Len(h) + Len(c) : r[i] = IF i <= Len(h) THEN h[i] ELSE c[i - Len(h)]
        BY <2>3, <4>1, ConcatProperties
      <4> QED
        BY <4>1, <4>2
    <3> QED
      BY <1>1, <2>6, <3>1
  <2>8. \A i \in 1 .. Len(s) : r[i] = IF i = 1 THEN n ELSE IF i <= p THEN s[i - 1] ELSE s[i]
    BY <1>1, <1>3, <2>1, <2>6, <2>7
  <2>9. r[1] = n
    BY <1>1, <2>1, <2>8
  <2> QED
    BY <1>4, <1>6, <2>1, <2>7, <2>8, <2>9, Zenon
<1> QED
  BY <1>5, <1>6

\* It names what s names, and n, none twice.
LEMMA ToFrontKeeps ==
    ASSUME NEW s \in Seq(Names), NEW n \in Names, Unrepeated(s)
    PROVE  /\ ToFront(s, n) \in Seq(Names) /\ Unrepeated(ToFront(s, n))
           /\ ToSet(ToFront(s, n)) = ToSet(s) \cup {n}
<1> DEFINE r == ToFront(s, n)
<1>1. Len(s) \in Nat /\ DOMAIN s = 1 .. Len(s)
  OBVIOUS
<1>2. r \in Seq(Names) /\ r[1] = n /\ Len(r) \in Nat /\ DOMAIN r = 1 .. Len(r)
  BY ToFrontIs
<1>3. CASE n \notin ToSet(s)
  <2>1. Len(r) = Len(s) + 1 /\ \A i \in 1 .. Len(s) : r[i + 1] = s[i]
    BY <1>3, ToFrontIs
  <2> HIDE DEF r
  <2>2. \A i \in 2 .. Len(r) : i - 1 \in 1 .. Len(s) /\ r[i] = s[i - 1] /\ r[i] # n
    <3> SUFFICES ASSUME NEW i \in 2 .. Len(r)
                 PROVE  i - 1 \in 1 .. Len(s) /\ r[i] = s[i - 1] /\ r[i] # n
      OBVIOUS
    <3>1. i - 1 \in 1 .. Len(s) /\ i = (i - 1) + 1
      BY <1>1, <2>1
    <3>2. r[i] = s[i - 1]
      BY <2>1, <3>1
    <3> QED
      BY <1>1, <1>3, <3>1, <3>2 DEF ToSet
  <2>3. Unrepeated(r)
    <3> SUFFICES ASSUME NEW i \in 1 .. Len(r), NEW j \in 1 .. Len(r), r[i] = r[j], i # j
                 PROVE  FALSE
      BY DEF Unrepeated
    <3>1. CASE i # 1 /\ j # 1
      <4>1. s[i - 1] = s[j - 1] /\ i - 1 \in 1 .. Len(s) /\ j - 1 \in 1 .. Len(s)
        BY <1>2, <2>2, <3>1
      <4> QED
        BY <4>1 DEF Unrepeated
    <3>2. CASE i = 1 \/ j = 1
      BY <1>2, <2>2, <3>2
    <3> QED
      BY <3>1, <3>2
  <2>4. \A x : x \in ToSet(r) <=> x = n \/ x \in ToSet(s)
    <3> TAKE x
    <3>1. x \in ToSet(r) => x = n \/ x \in ToSet(s)
      BY <1>1, <1>2, <2>2 DEF ToSet
    <3>2. n \in ToSet(r)
      BY <1>1, <1>2, <2>1 DEF ToSet
    <3>3. ASSUME NEW i \in 1 .. Len(s) PROVE s[i] \in ToSet(r)
      BY <1>1, <1>2, <2>1 DEF ToSet
    <3> QED
      BY <1>1, <3>1, <3>2, <3>3 DEF ToSet
  <2> QED
    BY <1>2, <2>3, <2>4 DEF r
<1>4. CASE n \in ToSet(s)
  <2>1. Len(r) = Len(s)
    BY <1>4, ToFrontIs
  <2>2. PICK p \in 1 .. Len(s) :
           /\ s[p] = n
           /\ \A i \in 1 .. Len(s) :
                 r[i] = IF i = 1 THEN n ELSE IF i <= p THEN s[i - 1] ELSE s[i]
    BY <1>4, ToFrontIs
  <2> HIDE DEF r
  <2> DEFINE from(i) == IF i = 1 THEN p ELSE IF i <= p THEN i - 1 ELSE i
  <2>3. \A i \in 1 .. Len(s) : from(i) \in 1 .. Len(s) /\ r[i] = s[from(i)]
    BY <1>1, <2>2
  <2>4. \A i, j \in 1 .. Len(s) : from(i) = from(j) => i = j
    BY <1>1, <2>2
  <2>5. \A k \in 1 .. Len(s) : \E i \in 1 .. Len(s) : from(i) = k
    <3> TAKE k \in 1 .. Len(s)
    <3>1. CASE k = p
      <4>1. from(1) = k /\ 1 \in 1 .. Len(s)
        BY <1>1, <2>2, <3>1
      <4> QED
        BY <4>1
    <3>2. CASE k < p
      <4>1. from(k + 1) = k /\ k + 1 \in 1 .. Len(s)
        BY <1>1, <2>2, <3>2
      <4> QED
        BY <4>1
    <3>3. CASE k > p
      <4>1. from(k) = k
        BY <1>1, <2>2, <3>3
      <4> QED
        BY <4>1
    <3> QED
      BY <1>1, <2>2, <3>1, <3>2, <3>3
  <2> HIDE DEF from
  <2>6. Unrepeated(r)
    <3> SUFFICES ASSUME NEW i \in 1 .. Len(s), NEW j \in 1 .. Len(s), r[i] = r[j] PROVE i = j
      BY <2>1 DEF Unrepeated
    <3> QED
      BY <2>3, <2>4 DEF Unrepeated
  <2>7. ToSet(r) = ToSet(s)
    <3>1. \A x : x \in ToSet(r) => x \in ToSet(s)
      BY <1>1, <1>2, <2>1, <2>3 DEF ToSet
    <3>2. \A x : x \in ToSet(s) => x \in ToSet(r)
      BY <1>1, <1>2, <2>1, <2>3, <2>5 DEF ToSet
    <3> QED
      BY <3>1, <3>2
  <2> QED
    BY <1>2, <1>4, <2>6, <2>7 DEF r
<1> QED
  BY <1>3, <1>4

\* The two cases of it.
LEMMA NewToFront ==
    ASSUME NEW s \in Seq(Names), NEW n \in Names, n \notin ToSet(s)
    PROVE  /\ ToFront(s, n) \in Seq(Names) /\ ToFront(s, n)[1] = n
           /\ Len(ToFront(s, n)) = Len(s) + 1
           /\ \A i \in 1 .. Len(s) : ToFront(s, n)[i + 1] = s[i]
BY ToFrontIs, Zenon

LEMMA OldToFront ==
    ASSUME NEW s \in Seq(Names), NEW n \in Names, n \in ToSet(s)
    PROVE  /\ Len(ToFront(s, n)) = Len(s)
           /\ \E p \in 1 .. Len(s) :
                 /\ s[p] = n
                 /\ \A i \in 1 .. Len(s) :
                       ToFront(s, n)[i] = IF i = 1 THEN n ELSE IF i <= p THEN s[i - 1] ELSE s[i]
BY ToFrontIs, Zenon

\* The cache holds the names used last, none twice, and theirs are the open indexes.
CacheInv ==
    /\ age \in Seq(Names) /\ Unrepeated(age)
    /\ usage \in Seq(Names) /\ Len(usage) = Smaller(Capacity, Len(age))
    /\ \A i \in 1 .. Len(usage) : usage[i] = age[i]
    /\ \A n \in Names : index[n].open <=> \E i \in 1 .. Len(usage) : usage[i] = n

\* A name that is open comes to the front of both.
LEMMA OpenToFront ==
    ASSUME CacheInv, NEW n \in Names, index[n].open
    PROVE  /\ UsageAfter(n) = ToFront(usage, n) /\ Evicted(n) = {}
           /\ Len(ToFront(usage, n)) = Len(usage) /\ Len(ToFront(age, n)) = Len(age)
           /\ \A i \in 1 .. Len(usage) : ToFront(usage, n)[i] = ToFront(age, n)[i]
<1>1. Evicted(n) = {} /\ UsageAfter(n) = ToFront(usage, n)
  BY DEF Evicted, UsageAfter
<1>2. /\ Len(usage) \in Nat /\ Len(age) \in Nat /\ Len(usage) <= Len(age)
      /\ DOMAIN usage = 1 .. Len(usage) /\ DOMAIN age = 1 .. Len(age)
      /\ usage \in Seq(Names) /\ age \in Seq(Names)
  BY ConstantsAssumption DEF CacheInv, Smaller
<1>3. n \in ToSet(usage) /\ n \in ToSet(age)
  BY <1>2 DEF CacheInv, ToSet
<1>4. PICK p \in 1 .. Len(usage) :
         /\ usage[p] = n
         /\ \A i \in 1 .. Len(usage) :
               ToFront(usage, n)[i] = IF i = 1 THEN n ELSE IF i <= p THEN usage[i - 1] ELSE usage[i]
  BY <1>2, <1>3, OldToFront
<1>5. PICK q \in 1 .. Len(age) :
         /\ age[q] = n
         /\ \A i \in 1 .. Len(age) :
               ToFront(age, n)[i] = IF i = 1 THEN n ELSE IF i <= q THEN age[i - 1] ELSE age[i]
  BY <1>2, <1>3, OldToFront
<1>6. p = q
  BY <1>2, <1>4, <1>5 DEF CacheInv, Unrepeated
<1>7. \A i \in 1 .. Len(usage) : ToFront(usage, n)[i] = ToFront(age, n)[i]
  <2> TAKE i \in 1 .. Len(usage)
  <2>1. usage[i] = age[i] /\ (i # 1 => usage[i - 1] = age[i - 1])
    BY <1>2 DEF CacheInv
  <2>2. i \in 1 .. Len(age)
    BY <1>2
  <2> QED
    BY <1>4, <1>5, <1>6, <2>1, <2>2
<1>8. Len(ToFront(usage, n)) = Len(usage) /\ Len(ToFront(age, n)) = Len(age)
  BY <1>2, <1>3, OldToFront
<1> QED
  BY <1>1, <1>7, <1>8

\* One that is not, while there is room: then no name was ever evicted.
LEMMA RoomToFront ==
    ASSUME CacheInv, NEW n \in Names, ~index[n].open, Len(usage) < Capacity
    PROVE  /\ UsageAfter(n) = ToFront(usage, n) /\ Evicted(n) = {}
           /\ Len(ToFront(usage, n)) = Len(usage) + 1 /\ Len(ToFront(age, n)) = Len(usage) + 1
           /\ \A i \in 1 .. Len(usage) + 1 : ToFront(usage, n)[i] = ToFront(age, n)[i]
<1>1. Evicted(n) = {} /\ UsageAfter(n) = ToFront(usage, n)
  BY DEF Evicted, UsageAfter
<1>2. /\ Len(usage) \in Nat /\ Len(age) = Len(usage)
      /\ DOMAIN usage = 1 .. Len(usage) /\ DOMAIN age = 1 .. Len(age)
      /\ usage \in Seq(Names) /\ age \in Seq(Names)
  BY ConstantsAssumption DEF CacheInv, Smaller
<1>3. n \notin ToSet(usage) /\ n \notin ToSet(age)
  BY <1>2 DEF CacheInv, ToSet
<1>4. /\ Len(ToFront(usage, n)) = Len(usage) + 1 /\ Len(ToFront(age, n)) = Len(usage) + 1
      /\ ToFront(usage, n)[1] = n /\ ToFront(age, n)[1] = n
      /\ \A i \in 1 .. Len(usage) :
            ToFront(usage, n)[i + 1] = usage[i] /\ ToFront(age, n)[i + 1] = age[i]
  <2>1. usage \in Seq(Names) /\ age \in Seq(Names)
    BY <1>2
  <2>2. /\ Len(ToFront(usage, n)) = Len(usage) + 1 /\ ToFront(usage, n)[1] = n
        /\ \A i \in 1 .. Len(usage) : ToFront(usage, n)[i + 1] = usage[i]
    BY <1>3, <2>1, NewToFront, Zenon
  <2>3. /\ Len(ToFront(age, n)) = Len(age) + 1 /\ ToFront(age, n)[1] = n
        /\ \A i \in 1 .. Len(age) : ToFront(age, n)[i + 1] = age[i]
    BY <1>3, <2>1, NewToFront, Zenon
  <2> QED
    BY <1>2, <2>2, <2>3
<1>5. ASSUME NEW i \in 1 .. Len(usage) + 1 PROVE ToFront(usage, n)[i] = ToFront(age, n)[i]
  <2>1. CASE i = 1
    BY <1>4, <2>1
  <2>2. CASE i # 1
    <3>1. i - 1 \in 1 .. Len(usage) /\ i = (i - 1) + 1
      BY <1>2, <2>2
    <3>2. usage[i - 1] = age[i - 1]
      BY <3>1 DEF CacheInv
    <3> QED
      BY <1>4, <3>1, <3>2
  <2> QED
    BY <2>1, <2>2
<1> QED
  BY <1>1, <1>4, <1>5

\* One that is not, when the cache is full: the last name is evicted.
LEMMA FullToFront ==
    ASSUME CacheInv, NEW n \in Names, ~index[n].open, ~(Len(usage) < Capacity)
    PROVE  /\ Evicted(n) = {usage[Capacity]} /\ Len(usage) = Capacity
           /\ UsageAfter(n) \in Seq(Names) /\ Len(UsageAfter(n)) = Capacity
           /\ Len(ToFront(age, n)) >= Capacity /\ Len(ToFront(age, n)) \in Nat
           /\ UsageAfter(n)[1] = n
           /\ \A i \in 1 .. Capacity - 1 : UsageAfter(n)[i + 1] = usage[i]
           /\ \A i \in 1 .. Capacity : UsageAfter(n)[i] = ToFront(age, n)[i]
<1>1. /\ Capacity \in Nat \ {0} /\ Len(usage) = Capacity
      /\ Len(age) \in Nat /\ Len(age) >= Capacity
      /\ DOMAIN usage = 1 .. Len(usage) /\ DOMAIN age = 1 .. Len(age)
      /\ usage \in Seq(Names) /\ age \in Seq(Names)
  BY ConstantsAssumption DEF CacheInv, Smaller
<1>2. Evicted(n) = {usage[Capacity]}
  BY <1>1 DEF Evicted, Last
<1>3. n \notin ToSet(usage)
  BY <1>1 DEF CacheInv, ToSet
<1>4. PICK r : r = ToFront(usage, n)
  OBVIOUS
<1>5. /\ r \in Seq(Names) /\ Len(r) = Capacity + 1 /\ r[1] = n
      /\ \A i \in 1 .. Capacity : r[i + 1] = usage[i]
  <2>1. usage \in Seq(Names)
    BY <1>1
  <2>2. /\ r \in Seq(Names) /\ r[1] = n /\ Len(r) = Len(usage) + 1
        /\ \A i \in 1 .. Len(usage) : r[i + 1] = usage[i]
    BY <1>3, <1>4, <2>1, NewToFront, Zenon
  <2> QED
    BY <1>1, <2>2
<1>6. PICK u : u = UsageAfter(n)
  OBVIOUS
<1>7. u = SubSeq(r, 1, Len(r) - 1)
  BY <1>2, <1>4, <1>6 DEF UsageAfter, Front
<1>8. /\ u \in Seq(Names) /\ Len(u) = Capacity
      /\ \A i \in 1 .. Capacity : u[i] = r[i]
  <2>1. 1 \in Int /\ Len(r) - 1 \in Int /\ \A i \in 1 .. Len(r) - 1 : r[i] \in Names
    BY <1>1, <1>5
  <2>2. /\ u \in Seq(Names)
        /\ Len(u) = IF 1 <= Len(r) - 1 THEN (Len(r) - 1) - 1 + 1 ELSE 0
        /\ \A i \in 1 .. (Len(r) - 1) - 1 + 1 : u[i] = r[1 + i - 1]
    BY <1>7, <2>1, SubSeqProperties
  <2>3. Len(u) = Capacity /\ (Len(r) - 1) - 1 + 1 = Capacity
    BY <1>1, <1>5, <2>2
  <2>4. \A i \in 1 .. Capacity : 1 + i - 1 = i
    BY <1>1
  <2> QED
    BY <2>2, <2>3, <2>4
<1>9. u[1] = n /\ \A i \in 1 .. Capacity - 1 : u[i + 1] = usage[i]
  BY <1>1, <1>5, <1>8
<1>10. PICK a : a = ToFront(age, n)
  OBVIOUS
<1>11. Len(a) >= Capacity /\ Len(a) \in Nat /\ \A i \in 1 .. Capacity : u[i] = a[i]
  <2>1. CASE n \notin ToSet(age)
    <3>1. /\ Len(a) = Len(age) + 1 /\ a[1] = n
          /\ \A i \in 1 .. Len(age) : a[i + 1] = age[i]
      <4>1. age \in Seq(Names)
        BY <1>1
      <4> QED
        BY <1>10, <2>1, <4>1, NewToFront, Zenon
    <3>2. ASSUME NEW i \in 1 .. Capacity PROVE u[i] = a[i]
      <4>1. CASE i = 1
        BY <1>9, <3>1, <4>1
      <4>2. CASE i # 1
        <5>1. i - 1 \in 1 .. Capacity - 1 /\ i = (i - 1) + 1 /\ i - 1 \in 1 .. Len(age)
          BY <1>1, <4>2
        <5>2. usage[i - 1] = age[i - 1]
          BY <1>1, <5>1 DEF CacheInv
        <5> QED
          BY <1>9, <3>1, <5>1, <5>2
      <4> QED
        BY <4>1, <4>2
    <3> QED
      BY <1>1, <3>1, <3>2
  <2>2. CASE n \in ToSet(age)
    <3>1. PICK q \in 1 .. Len(age) :
             /\ age[q] = n
             /\ \A i \in 1 .. Len(age) :
                   ToFront(age, n)[i] = IF i = 1 THEN n ELSE IF i <= q THEN age[i - 1] ELSE age[i]
      <4>1. age \in Seq(Names)
        BY <1>1
      <4> QED
        BY <2>2, <4>1, OldToFront, Zenon
    <3>2. Len(a) = Len(age)
      <4>1. age \in Seq(Names)
        BY <1>1
      <4> QED
        BY <1>10, <2>2, <4>1, OldToFront, Zenon
    <3>3. q > Capacity
      <4> SUFFICES ASSUME q \in 1 .. Capacity PROVE FALSE
        BY <1>1, <3>1
      <4>1. usage[q] = n
        BY <1>1, <3>1 DEF CacheInv
      <4> QED
        BY <1>1, <1>3, <4>1 DEF ToSet
    <3>4. ASSUME NEW i \in 1 .. Capacity PROVE u[i] = a[i]
      <4>1. i \in 1 .. Len(age) /\ i <= q
        BY <1>1, <3>3
      <4>2. a[i] = IF i = 1 THEN n ELSE age[i - 1]
        BY <1>10, <3>1, <4>1
      <4>3. CASE i = 1
        BY <1>9, <4>2, <4>3
      <4>4. CASE i # 1
        <5>1. i - 1 \in 1 .. Capacity - 1 /\ i = (i - 1) + 1
          BY <1>1, <4>4
        <5>2. usage[i - 1] = age[i - 1]
          BY <1>1, <5>1 DEF CacheInv
        <5> QED
          BY <1>9, <4>2, <4>4, <5>1, <5>2
      <4> QED
        BY <4>3, <4>4
    <3> QED
      BY <1>1, <3>2, <3>4
  <2> QED
    BY <2>1, <2>2
<1> QED
  BY <1>1, <1>2, <1>6, <1>8, <1>9, <1>10, <1>11, Zenon

\* getOrCreate, of an index that is open then.
LEMMA CacheCalled ==
    ASSUME CacheInv, Maps, NEW n \in Names, NEW s, s.open, GetOrCreate(n, s)
    PROVE  CacheInv'
<1>1. usage' = UsageAfter(n) /\ age' = ToFront(age, n)
  BY DEF GetOrCreate
<1>2. \A m \in Names : index'[m] = IF m = n THEN s
                                   ELSE IF m \in Evicted(n) THEN Closed ELSE index[m]
  BY DEF GetOrCreate
<1>3. ~Closed.open
  BY DEF Closed
<1>4. age' \in Seq(Names) /\ Unrepeated(age')
  BY <1>1, ToFrontKeeps DEF CacheInv
<1>5. /\ Len(usage) \in Nat /\ Len(age) \in Nat /\ Capacity \in Nat \ {0}
      /\ usage \in Seq(Names) /\ age \in Seq(Names)
      /\ DOMAIN usage = 1 .. Len(usage) /\ DOMAIN age = 1 .. Len(age)
      /\ Len(usage) = Smaller(Capacity, Len(age))
      /\ \A m \in Names : index[m].open <=> \E i \in 1 .. Len(usage) : usage[i] = m
  BY ConstantsAssumption DEF CacheInv
<1>6. \A i, j \in 1 .. Len(usage) : usage[i] = usage[j] => i = j
  BY <1>5 DEF CacheInv, Unrepeated, Smaller
<1>7. CASE index[n].open \/ Len(usage) < Capacity
  <2>1. /\ usage' = ToFront(usage, n) /\ Evicted(n) = {} /\ Len(usage') \in Nat
        /\ \A i \in 1 .. Len(usage') : usage'[i] = age'[i]
        /\ Len(usage') = Smaller(Capacity, Len(age'))
    <3>1. CASE index[n].open
      <4>1. /\ UsageAfter(n) = ToFront(usage, n) /\ Evicted(n) = {}
            /\ Len(ToFront(usage, n)) = Len(usage) /\ Len(ToFront(age, n)) = Len(age)
            /\ \A i \in 1 .. Len(usage) : ToFront(usage, n)[i] = ToFront(age, n)[i]
        BY <3>1, OpenToFront
      <4> QED
        BY <1>1, <1>5, <4>1
    <3>2. CASE ~index[n].open /\ Len(usage) < Capacity
      <4>1. /\ UsageAfter(n) = ToFront(usage, n) /\ Evicted(n) = {}
            /\ Len(ToFront(usage, n)) = Len(usage) + 1 /\ Len(ToFront(age, n)) = Len(usage) + 1
            /\ \A i \in 1 .. Len(usage) + 1 : ToFront(usage, n)[i] = ToFront(age, n)[i]
        BY <3>2, RoomToFront
      <4>2. Len(usage) + 1 = Smaller(Capacity, Len(usage) + 1)
        BY <1>5, <3>2 DEF Smaller
      <4> QED
        BY <1>1, <1>5, <4>1, <4>2
    <3> QED
      BY <1>7, <3>1, <3>2
  <2>2. usage' \in Seq(Names) /\ ToSet(usage') = ToSet(usage) \cup {n}
    <3>1. Unrepeated(usage)
      BY <1>6 DEF Unrepeated
    <3> QED
      BY <1>5, <2>1, <3>1, ToFrontKeeps
  <2>3. DOMAIN usage' = 1 .. Len(usage')
    BY <2>2
  <2>4. ASSUME NEW m \in Names
        PROVE  index'[m].open <=> \E i \in 1 .. Len(usage') : usage'[i] = m
    <3>1. index'[m].open <=> m = n \/ index[m].open
      BY <1>2, <2>1
    <3>2. index[m].open <=> m \in ToSet(usage)
      BY <1>5 DEF ToSet
    <3>3. m \in ToSet(usage') <=> \E i \in 1 .. Len(usage') : usage'[i] = m
      BY <2>3 DEF ToSet
    <3> QED
      BY <2>2, <3>1, <3>2, <3>3
  <2> QED
    BY <1>4, <2>1, <2>2, <2>4 DEF CacheInv
<1>8. CASE ~index[n].open /\ ~(Len(usage) < Capacity)
  <2>1. /\ Evicted(n) = {usage[Capacity]} /\ Len(usage) = Capacity
        /\ usage' \in Seq(Names) /\ Len(usage') = Capacity
        /\ Len(age') >= Capacity /\ Len(age') \in Nat
        /\ usage'[1] = n
        /\ \A i \in 1 .. Capacity - 1 : usage'[i + 1] = usage[i]
        /\ \A i \in 1 .. Capacity : usage'[i] = age'[i]
    BY <1>1, <1>8, FullToFront
  <2>2. Len(usage') = Smaller(Capacity, Len(age'))
    BY <1>5, <2>1 DEF Smaller
  <2>3. ASSUME NEW m \in Names
        PROVE  index'[m].open <=> \E i \in 1 .. Len(usage') : usage'[i] = m
    <3>1. CASE m = n
      <4>1. index'[m].open
        BY <1>2, <3>1
      <4>2. 1 \in 1 .. Len(usage') /\ usage'[1] = m
        BY <1>5, <2>1, <3>1
      <4> QED
        BY <4>1, <4>2
    <3>2. CASE m # n
      <4>1. index'[m].open => \E i \in 1 .. Len(usage') : usage'[i] = m
        <5> SUFFICES ASSUME index'[m].open PROVE \E i \in 1 .. Len(usage') : usage'[i] = m
          OBVIOUS
        <5>1. index[m].open /\ m # usage[Capacity]
          BY <1>2, <1>3, <2>1, <3>2
        <5>2. PICK i \in 1 .. Capacity : usage[i] = m
          BY <1>5, <2>1, <5>1
        <5>3. i \in 1 .. Capacity - 1 /\ i + 1 \in 1 .. Len(usage')
          BY <1>5, <2>1, <5>1, <5>2
        <5> QED
          BY <2>1, <5>2, <5>3
      <4>2. ASSUME NEW i \in 1 .. Len(usage'), usage'[i] = m PROVE index'[m].open
        <5>1. i - 1 \in 1 .. Capacity - 1 /\ i = (i - 1) + 1 /\ i - 1 \in 1 .. Len(usage)
              /\ Capacity \in 1 .. Len(usage) /\ i - 1 # Capacity
          BY <1>5, <2>1, <3>2, <4>2
        <5>2. usage[i - 1] = m
          BY <2>1, <4>2, <5>1
        <5>3. m # usage[Capacity] /\ index[m].open
          BY <1>5, <1>6, <5>1, <5>2
        <5> QED
          BY <1>2, <2>1, <3>2, <5>3
      <4> QED
        BY <4>1, <4>2
    <3> QED
      BY <3>1, <3>2
  <2> QED
    BY <1>4, <2>1, <2>2, <2>3 DEF CacheInv
<1> QED
  BY <1>7, <1>8

\* A step that calls no getOrCreate, opens none and closes none.
LEMMA CacheSame ==
    ASSUME CacheInv, usage' = usage, age' = age, \A m \in Names : index'[m].open <=> index[m].open
    PROVE  CacheInv'
BY DEF CacheInv

LEMMA TheIsOpen ==
    ASSUME Maps, NEW n \in Names
    PROVE  The(n).open = TRUE /\ The(n) \in IndexType
<1>1. CASE index[n].open
  BY <1>1, Types DEF The, IndexType
<1>2. CASE ~index[n].open
  BY <1>2, OpenedGood DEF The, OpenIndex, Good
<1> QED
  BY <1>1, <1>2

\* The cache stays so.
LEMMA NextCacheInv == IInv /\ CacheInv /\ [Next]_vars => CacheInv'
<1> SUFFICES ASSUME IInv, CacheInv, [Next]_vars PROVE CacheInv'
  OBVIOUS
<1>1. Typed /\ NameInv /\ QueryInv /\ Maps
  BY DEF IInv, Typed
<1>2. ASSUME NEW n \in Names, Use(n) \/ AppendRefused(n) \/ SearchBegin(n) PROVE CacheInv'
  <2>1. GetOrCreate(n, The(n)) /\ The(n).open
    BY <1>1, <1>2, TheIsOpen DEF Use, AppendRefused, SearchBegin
  <2> QED
    BY <1>1, <2>1, CacheCalled
<1>3. ASSUME NEW n \in Names, AppendChunk(n) PROVE CacheInv'
  <2> DEFINE t == WithChunk(The(n))
             u == [t EXCEPT !.unsaved = FALSE]
  <2>1. GetOrCreate(n, t) \/ GetOrCreate(n, u)
    BY <1>3 DEF AppendChunk, WithChunk, Leaves
  <2>2. The(n) \in IndexType /\ HasLabel(The(n)) /\ docs \in Nat /\ docs + 1 \in 0 .. MaxDocs
    <3>1. docs + 1 \in 1 .. MaxDocs /\ The(n) \in IndexType /\ HasLabel(The(n))
      BY <1>1, <1>3, AppendStep
    <3>2. docs \in Nat /\ MaxDocs \in Nat
      BY <1>1, DocsAre
    <3> QED
      BY <3>1, <3>2
  <2>3. t \in IndexType
    BY <2>2, WithChunkIs
  <2> HIDE DEF t
  <2>4. t.open /\ u.open
    BY <2>3 DEF IndexType
  <2> HIDE DEF u
  <2> QED
    BY <1>1, <2>1, <2>4, CacheCalled
<1>4. ASSUME NEW n \in Names, Flush(n) \/ Clear(n) PROVE CacheInv'
  <2> DEFINE t == [The(n) EXCEPT !.unsaved = FALSE]
             u == [The(n) EXCEPT !.shards = 0, !.unsaved = FALSE]
  <2>1. GetOrCreate(n, t) \/ GetOrCreate(n, u)
    BY <1>4 DEF Flush, Clear
  <2>2. t.open /\ u.open
    BY <1>1, TheIsOpen DEF IndexType
  <2> HIDE DEF t, u
  <2> QED
    BY <1>1, <2>1, <2>2, CacheCalled
<1>5. ASSUME NEW n \in Names, ClearIgnored(n) \/ SearchNone(n) PROVE CacheInv'
  BY <1>5, CacheSame DEF ClearIgnored, SearchNone
<1>6. ASSUME FlushAll PROVE CacheInv'
  <2>1. ASSUME NEW m \in Names PROVE index'[m].open <=> index[m].open
    <3>1. index'[m] = IF index[m].open THEN [index[m] EXCEPT !.unsaved = FALSE] ELSE Closed
      BY <1>6 DEF FlushAll
    <3>2. CASE index[m].open
      <4>1. index[m] \in IndexType
        BY <1>1, <3>2, Types
      <4> QED
        BY <3>1, <3>2, <4>1 DEF IndexType
    <3>3. CASE ~index[m].open
      BY <3>1, <3>3 DEF Closed
    <3> QED
      BY <3>2, <3>3
  <2> QED
    BY <1>6, <2>1, CacheSame DEF FlushAll
<1>7. ASSUME Quit \/ Crash PROVE CacheInv'
  <2>1. usage' = <<>> /\ age' = <<>> /\ \A n \in Names : ~index'[n].open
    BY <1>7 DEF Quit, Crash, NoneOpen, Closed
  <2>2. Len(usage') = 0 /\ Len(age') = 0 /\ usage' \in Seq(Names) /\ age' \in Seq(Names)
        /\ Smaller(Capacity, 0) = 0
    BY <2>1, ConstantsAssumption DEF Smaller
  <2> QED
    BY <2>1, <2>2 DEF CacheInv, Unrepeated
<1>8. ASSUME SearchAgain \/ SearchEnd PROVE CacheInv'
  <2>1. query.on /\ RemoveStale
    BY <1>8 DEF SearchAgain, SearchEnd
  <2>2. ASSUME NEW m \in Names PROVE index'[m].open <=> index[m].open
    <3>1. PICK n : n = query.name
      OBVIOUS
    <3>2. index'[n].open = TRUE
      BY <1>1, <2>1, <3>1, RemoveStaleStep
    <3>3. index[n].open
      BY <1>1, <2>1, <3>1 DEF QueryInv, NoQuery
    <3>4. CASE m # n
      <4>1. \E s : index' = [index EXCEPT ![n] = s]
        BY <2>1, <3>1 DEF RemoveStale
      <4>2. index'[m] = index[m]
        BY <1>1, <3>4, <4>1 DEF Maps
      <4> QED
        BY <4>2
    <3> QED
      BY <3>2, <3>3, <3>4
  <2>3. usage' = usage /\ age' = age
    BY <2>1 DEF RemoveStale
  <2> QED
    BY <2>2, <2>3, CacheSame
<1>9. ASSUME NEW d \in 1 .. MaxDocs, Delete(d) PROVE CacheInv'
  BY <1>9, CacheSame DEF Delete, history
<1>10. CASE UNCHANGED vars
  BY <1>10, CacheSame DEF vars
<1> QED
  BY <1>2, <1>3, <1>4, <1>5, <1>6, <1>7, <1>8, <1>9, <1>10 DEF Next

\* What is written down of clears, searches and openings, and what a search has and
\* answers with: results that have an entry.
BooksInv ==
    /\ cleared \subseteq Docs \X BOOLEAN /\ taken \subseteq gone /\ reopened \subseteq Names
    /\ answer \subseteq Docs
    /\ query.on => \A l \in query.results : obn[query.name][l] # 0

LEMMA HoldsDocs ==
    ASSUME Typed, NEW n \in Names
    PROVE  Holds(n) \subseteq Docs
<1> SUFFICES ASSUME NEW d \in Holds(n) PROVE d \in Docs
  OBVIOUS
<1>1. PICK l \in Labels : obn[n][l] = d /\ d # 0
  BY HoldsHasEntry
<1>2. MaxDocs \in Nat /\ d \in Nat /\ d <= MaxDocs
  BY <1>1, DocsAre
<1> QED
  BY <1>1, <1>2 DEF Docs

LEMMA NextBooksInv == IInv /\ BooksInv /\ [Next]_vars => BooksInv'
<1> SUFFICES ASSUME IInv, BooksInv, [Next]_vars PROVE BooksInv'
  OBVIOUS
<1>1. Typed /\ NameInv /\ QueryInv /\ Maps
  BY DEF IInv, Typed
<1>2. ASSUME NEW n \in Names, Use(n) \/ AppendChunk(n) \/ AppendRefused(n) \/ Flush(n)
      PROVE  BooksInv'
  <2>1. /\ cleared' = cleared /\ taken' = taken /\ gone' = gone /\ answer' = answer
        /\ query' = query /\ ~query.on
    BY <1>2 DEF Use, AppendChunk, AppendRefused, Flush, Idle, searching
  <2>2. reopened' \subseteq reopened \cup {n}
    BY <1>2 DEF Use, AppendChunk, AppendRefused, Flush, Leaves, GetOrCreate
  <2> QED
    BY <2>1, <2>2 DEF BooksInv
<1>3. ASSUME NEW n \in Names, Clear(n) \/ ClearIgnored(n) PROVE BooksInv'
  <2>1. /\ taken' = taken /\ gone' = gone /\ answer' = answer /\ query' = query /\ ~query.on
    BY <1>3 DEF Clear, ClearIgnored, Idle, searching
  <2>2. reopened' \subseteq reopened \cup {n}
    BY <1>3 DEF Clear, ClearIgnored, GetOrCreate
  <2>3. \E b \in BOOLEAN : cleared' = cleared \cup Holds(n) \X {b}
    BY <1>3 DEF Clear, ClearIgnored
  <2>4. cleared' \subseteq Docs \X BOOLEAN
    BY <1>1, <2>3, HoldsDocs DEF BooksInv
  <2> QED
    BY <2>1, <2>2, <2>4 DEF BooksInv, Docs
<1>4. ASSUME NEW n \in Names, SearchNone(n) PROVE BooksInv'
  BY <1>4 DEF SearchNone, BooksInv, history, Idle, Docs
<1>5. ASSUME NEW n \in Names, SearchBegin(n) PROVE BooksInv'
  <2>1. /\ cleared' = cleared /\ taken' = taken /\ gone' = gone /\ answer' = answer /\ obn' = obn
        /\ reopened' \subseteq reopened \cup {n}
    BY <1>5 DEF SearchBegin, GetOrCreate
  <2>2. PICK C : query' = [on |-> TRUE, name |-> n, results |-> Results(n, The(n), C),
                           threshold |-> Threshold(Results(n, The(n), C))]
    BY <1>5 DEF SearchBegin
  <2>3. \A l \in query'.results : obn'[query'.name][l] # 0
    BY <2>1, <2>2 DEF Results
  <2> QED
    BY <2>1, <2>3 DEF BooksInv, Docs
<1>6. ASSUME FlushAll \/ Quit PROVE BooksInv'
  BY <1>6 DEF FlushAll, Quit, searching, history, BooksInv, Docs
<1>7. ASSUME Crash PROVE BooksInv'
  BY <1>7 DEF Crash, BooksInv, NoQuery, Docs
<1>8. ASSUME RemoveStale
      PROVE  /\ cleared' = cleared /\ gone' = gone /\ reopened' = reopened
             /\ taken' \subseteq gone'
  BY <1>8 DEF RemoveStale, Stale, BooksInv
<1>9. ASSUME SearchAgain PROVE BooksInv'
  <2>1. /\ query = [on |-> TRUE, name |-> query.name, results |-> query.results,
                    threshold |-> query.threshold]
    BY <1>1, <1>9 DEF SearchAgain, QueryInv, NoQuery
  <2>2. PICK C : query' = [query EXCEPT !.results = {l \in C : obn'[query.name][l] # 0}]
    BY <1>9 DEF SearchAgain
  <2>3. query'.name = query.name /\ query'.results = {l \in C : obn'[query.name][l] # 0}
    BY <2>1, <2>2
  <2>4. \A l \in query'.results : obn'[query'.name][l] # 0
    BY <2>3
  <2>5. answer' = answer
    BY <1>9 DEF SearchAgain
  <2> QED
    BY <1>8, <1>9, <2>4, <2>5 DEF SearchAgain, BooksInv, Docs
<1>10. ASSUME SearchEnd PROVE BooksInv'
  <2>1. query.name \in Names /\ query.results \subseteq Labels /\ query.on
    BY <1>1, <1>10 DEF SearchEnd, QueryInv, NoQuery
  <2>2. \A l \in query.results : obn[query.name][l] \in Docs
    <3>1. obn[query.name] \in [Labels -> 0 .. MaxDocs] /\ MaxDocs \in Nat
      BY <1>1, <2>1, Types
    <3> QED
      BY <2>1, <3>1 DEF BooksInv, Docs
  <2>3. answer' \subseteq Docs /\ ~query'.on
    BY <1>10, <2>2 DEF SearchEnd, NoQuery
  <2> QED
    BY <1>8, <1>10, <2>3 DEF SearchEnd, BooksInv, Docs
<1>11. ASSUME NEW d \in 1 .. MaxDocs, Delete(d) PROVE BooksInv'
  <2>1. /\ cleared' = cleared /\ taken' = taken /\ reopened' = reopened /\ answer' = answer
        /\ obn' = obn /\ query' = query /\ gone' = gone \cup {d}
    BY <1>11 DEF Delete, history, searching
  <2> QED
    BY <2>1 DEF BooksInv, Docs
<1>12. CASE UNCHANGED vars
  BY <1>12 DEF vars, searching, history, BooksInv, Docs
<1> QED
  BY <1>2, <1>3, <1>4, <1>5, <1>6, <1>7, <1>9, <1>10, <1>11, <1>12 DEF Next

\* LRUCache: for any names and any capacity, the cache holds exactly the indexes that are
\* open, those used last, as many as it may; and what a search or a clear takes for
\* missing, though it holds chunks, is open and unsaved.
THEOREM CacheSoundHolds == Spec => []CacheSound
<1>1. Init => CacheInv /\ BooksInv
  <2> SUFFICES ASSUME Init PROVE CacheInv /\ BooksInv
    OBVIOUS
  <2>1. usage = <<>> /\ age = <<>> /\ \A n \in Names : ~index[n].open
    BY DEF Init, Closed
  <2>2. Len(usage) = 0 /\ Len(age) = 0 /\ usage \in Seq(Names) /\ age \in Seq(Names)
        /\ Smaller(Capacity, 0) = 0
    BY <2>1, ConstantsAssumption DEF Smaller
  <2>3. CacheInv
    BY <2>1, <2>2 DEF CacheInv, Unrepeated
  <2>4. BooksInv
    BY DEF Init, BooksInv, NoQuery
  <2> QED
    BY <2>3, <2>4
<1>2. IInv /\ CacheInv /\ BooksInv => TypeOK
  <2> SUFFICES ASSUME IInv, CacheInv, BooksInv PROVE TypeOK
    OBVIOUS
  <2>1. Maps /\ Numbers /\ QueryInv
    BY DEF IInv, Typed
  <2>2. ASSUME NEW n \in Names, index[n].open PROVE Graph(index[n]) \in GraphType
    <3>1. index[n] \in IndexType
      BY <2>1, <2>2, Types
    <3> QED
      BY <3>1 DEF IndexType, Graph, GraphType
  <2>3. query.on => index[query.name].open /\ query.results \subseteq Labels
    BY <2>1 DEF QueryInv, NoQuery
  <2>4. usage \in Seq(Names) /\ age \in Seq(Names)
    BY DEF CacheInv
  <2> QED
    BY <2>1, <2>2, <2>3, <2>4 DEF TypeOK, Maps, Numbers, BooksInv
<1>3. CacheInv => /\ {n \in Names : index[n].open} = ToSet(usage)
                  /\ usage = SubSeq(age, 1, Smaller(Capacity, Len(age)))
  <2> SUFFICES ASSUME CacheInv
               PROVE  /\ {n \in Names : index[n].open} = ToSet(usage)
                      /\ usage = SubSeq(age, 1, Smaller(Capacity, Len(age)))
    OBVIOUS
  <2>1. /\ usage \in Seq(Names) /\ age \in Seq(Names) /\ DOMAIN usage = 1 .. Len(usage)
        /\ Len(usage) \in Nat /\ Len(age) \in Nat /\ Len(usage) <= Len(age)
        /\ \A i \in 1 .. Len(usage) : usage[i] \in Names
    BY ConstantsAssumption DEF CacheInv, Smaller
  <2>2. {n \in Names : index[n].open} = ToSet(usage)
    BY <2>1 DEF CacheInv, ToSet
  <2>3. PICK k : k = Len(usage) /\ k = Smaller(Capacity, Len(age)) /\ k \in Nat
    BY <2>1 DEF CacheInv
  <2>4. PICK s : s = SubSeq(age, 1, k)
    OBVIOUS
  <2>5. s \in Seq(Names) /\ Len(s) = k /\ \A i \in 1 .. k : s[i] = age[i]
    <3>1. 1 \in Int /\ k \in Int /\ \A i \in 1 .. k : age[i] \in Names
      BY <2>1, <2>3
    <3>2. /\ s \in Seq(Names) /\ Len(s) = IF 1 <= k THEN k - 1 + 1 ELSE 0
          /\ \A i \in 1 .. k - 1 + 1 : s[i] = age[1 + i - 1]
      BY <2>4, <3>1, SubSeqProperties
    <3>3. k - 1 + 1 = k /\ \A i \in 1 .. k : 1 + i - 1 = i
      BY <2>3
    <3> QED
      BY <2>3, <3>2, <3>3
  <2>6. usage = s
    <3>1. \A i \in 1 .. k : usage[i] = s[i]
      BY <2>3, <2>5 DEF CacheInv
    <3>2. Len(usage) = Len(s) /\ usage \in Seq(Names) /\ s \in Seq(Names)
      BY <2>1, <2>3, <2>5
    <3>3. \A i \in 1 .. Len(usage) : usage[i] = s[i]
      BY <2>3, <3>1
    <3> QED
      BY <3>2, <3>3, SeqEqual
  <2> QED
    BY <2>2, <2>3, <2>4, <2>6
<1>4. IInv /\ CacheInv /\ BooksInv /\ MissingIsUnsaved => CacheSound
  BY <1>2, <1>3 DEF CacheSound, MissingIsUnsaved
<1> QED
  BY <1>1, <1>4, Invariance, MissingIsUnsavedHolds, NextCacheInv, NextBooksInv, PTL DEF Spec

-----------------------------------------------------------------------------
(* How many a search answers with.                                          *)

\* What is in the graph has an entry, until the index is opened over a saved graph.
Entered(s, e) == s.shards = 1 => \A l \in InGraph(s) : e[l] # 0
AllEntered ==
    \A n \in Names : index[n].open /\ n \notin reopened => Entered(index[n], obn[n])

\* A threshold of the bridge is no larger than this.
Largest == Larger(1, (K * Percent) \div 100)

\* A search has its candidates, as many as there may be, without those that have no entry.
FullQuery(q, s, e) ==
    /\ q.threshold \in Int /\ q.threshold <= Largest
    /\ \E C \in Candidates(s) : q.results = {l \in C : e[l] # 0}
QueryFull == query.on => FullQuery(query, index[query.name], obn[query.name])

\* getOrCreate returns an index like that.
LEMMA CalledEntered ==
    ASSUME Maps, AllEntered, NEW n \in Names, NEW s, GetOrCreate(n, s), n \notin reopened'
    PROVE  Entered(The(n), obn[n])
<1>1. CASE index[n].open
  BY <1>1 DEF GetOrCreate, The, AllEntered
<1>2. CASE ~index[n].open
  <2>1. hix[n] = NoGraph /\ The(n) = OpenIndex(n)
    BY <1>2 DEF GetOrCreate, The
  <2>2. The(n).vec = Nothing
    BY <2>1 DEF OpenIndex, NoGraph
  <2>3. InGraph(The(n)) = {}
    BY <2>2 DEF InGraph, Nothing
  <2> QED
    BY <2>3 DEF Entered
<1> QED
  BY <1>1, <1>2

\* A name that rests stays so.
LEMMA RestsEntered ==
    ASSUME Maps, AllEntered, NEW m \in Names, Rests(m), index'[m].open, m \notin reopened'
    PROVE  Entered(index'[m], obn'[m])
<1>1. index'[m] = index[m]
  BY DEF Rests, Closed
<1> QED
  BY <1>1 DEF Rests, AllEntered

LEMMA NextAllEntered == IInv /\ AllEntered /\ [Next]_vars => AllEntered'
<1> SUFFICES ASSUME IInv, AllEntered, [Next]_vars PROVE AllEntered'
  OBVIOUS
<1>1. Typed /\ NameInv /\ QueryInv /\ Maps
  BY DEF IInv, Typed
<1>2. ASSUME NEW n \in Names, \A m \in Names : m # n => Rests(m),
             n \notin reopened' => Entered(index'[n], obn'[n])
      PROVE  AllEntered'
  <2> SUFFICES ASSUME NEW m \in Names, index'[m].open, m \notin reopened'
               PROVE  Entered(index'[m], obn'[m])
    BY DEF AllEntered, Entered, InGraph
  <2> QED
    BY <1>1, <1>2, RestsEntered
<1>3. ASSUME NEW n \in Names, Use(n) \/ AppendRefused(n) \/ SearchBegin(n) PROVE AllEntered'
  <2>1. GetOrCreate(n, The(n)) /\ hix' = HixAfter(n) /\ obn' = obn
    BY <1>3 DEF Use, AppendRefused, SearchBegin
  <2>2. /\ \A m \in Names : m # n => Rests(m)
        /\ index'[n] = The(n)
    BY <1>1, <2>1, Called
  <2>3. n \notin reopened' => Entered(index'[n], obn'[n])
    BY <1>1, <2>1, <2>2, CalledEntered
  <2> QED
    BY <1>2, <2>2, <2>3
<1>4. ASSUME NEW n \in Names, AppendChunk(n) PROVE AllEntered'
  <2> DEFINE s == The(n)
             k == Label(The(n))
  <2>1. /\ \A i \in Names : i # n => Rests(i)
        /\ s \in IndexType /\ k \in Labels
        /\ index'[n].vec = [s.vec EXCEPT ![k] = docs + 1] /\ index'[n].del = s.del \ {k}
        /\ s.shards = 1 /\ docs + 1 \in 1 .. MaxDocs
    BY <1>1, <1>4, AppendStep
  <2>2. obn' = [obn EXCEPT ![n][k] = docs + 1]
    BY <1>4 DEF AppendChunk
  <2>3. \E i : GetOrCreate(n, i)
    BY <1>4 DEF AppendChunk, Leaves
  <2>4. n \notin reopened' => Entered(s, obn[n])
    BY <1>1, <2>3, CalledEntered
  <2> HIDE DEF s, k
  <2>5. obn'[n] = [obn[n] EXCEPT ![k] = docs + 1] /\ obn[n] \in [Labels -> 0 .. MaxDocs]
    BY <1>1, <2>2, Types DEF Maps
  <2>6. ASSUME n \notin reopened' PROVE Entered(index'[n], obn'[n])
    <3> SUFFICES ASSUME NEW l \in Labels, index'[n].vec[l] # 0, l \notin index'[n].del
                 PROVE  obn'[n][l] # 0
      BY DEF Entered, InGraph
    <3>1. CASE l = k
      BY <2>1, <2>5, <3>1
    <3>2. CASE l # k
      <4>1. s.vec[l] # 0 /\ l \notin s.del
        BY <2>1, <3>2 DEF IndexType
      <4> QED
        BY <2>1, <2>4, <2>5, <2>6, <3>2, <4>1 DEF Entered, InGraph
    <3> QED
      BY <3>1, <3>2
  <2> QED
    BY <1>2, <2>1, <2>6
<1>5. ASSUME NEW n \in Names, Flush(n) PROVE AllEntered'
  <2> DEFINE s == The(n)
             u == [s EXCEPT !.unsaved = FALSE]
  <2>1. GetOrCreate(n, u) /\ obn' = obn
    BY <1>5 DEF Flush
  <2>2. s \in IndexType
    BY <1>1, TheIsOpen
  <2>3. n \notin reopened' => Entered(s, obn[n])
    BY <1>1, <2>1, CalledEntered
  <2> HIDE DEF s
  <2>4. index'[n] = u /\ u.vec = s.vec /\ u.del = s.del /\ u.shards = s.shards
    BY <2>1, <2>2 DEF GetOrCreate, IndexType
  <2>5. n \notin reopened' => Entered(index'[n], obn'[n])
    BY <2>1, <2>3, <2>4 DEF Entered, InGraph
  <2>6. \A m \in Names : m # n => Rests(m)
    BY <1>1, <1>5, FlushStep
  <2> QED
    BY <1>2, <2>5, <2>6
<1>6. ASSUME NEW n \in Names, Clear(n) PROVE AllEntered'
  <2>1. index'[n] = [The(n) EXCEPT !.shards = 0, !.unsaved = FALSE]
    BY <1>6 DEF Clear, GetOrCreate
  <2>2. index'[n].shards = 0
    BY <1>1, <2>1, TheIsOpen DEF IndexType
  <2>3. \A m \in Names : m # n => Rests(m)
    BY <1>1, <1>6, ClearStep
  <2> QED
    BY <1>2, <2>2, <2>3 DEF Entered
<1>7. ASSUME index' = index, obn' = obn, reopened' = reopened PROVE AllEntered'
  BY <1>7 DEF AllEntered, Entered, InGraph
<1>8. ASSUME NEW n \in Names, ClearIgnored(n) \/ SearchNone(n) PROVE AllEntered'
  BY <1>7, <1>8 DEF ClearIgnored, SearchNone, history
<1>9. ASSUME FlushAll PROVE AllEntered'
  <2> SUFFICES ASSUME NEW n \in Names, index'[n].open, n \notin reopened'
               PROVE  Entered(index'[n], obn'[n])
    BY DEF AllEntered, Entered, InGraph
  <2>1. obn' = obn /\ reopened' = reopened
    BY <1>9 DEF FlushAll, history
  <2>2. index'[n] = IF index[n].open THEN [index[n] EXCEPT !.unsaved = FALSE] ELSE Closed
    BY <1>9 DEF FlushAll
  <2>3. index[n].open /\ index'[n] = [index[n] EXCEPT !.unsaved = FALSE]
    BY <2>2 DEF Closed
  <2>4. index[n] \in IndexType
    BY <1>1, <2>3, Types
  <2>5. /\ index'[n].vec = index[n].vec /\ index'[n].del = index[n].del
        /\ index'[n].shards = index[n].shards
    BY <2>3, <2>4 DEF IndexType
  <2> QED
    BY <2>1, <2>3, <2>5 DEF AllEntered, Entered, InGraph
<1>10. ASSUME Quit \/ Crash PROVE AllEntered'
  <2>1. \A n \in Names : ~index'[n].open
    BY <1>10 DEF Quit, Crash, NoneOpen, Closed
  <2> QED
    BY <2>1 DEF AllEntered
<1>11. ASSUME SearchAgain \/ SearchEnd PROVE AllEntered'
  <2>1. query.on /\ RemoveStale
    BY <1>11 DEF SearchAgain, SearchEnd
  <2>2. PICK n : n = query.name
    OBVIOUS
  <2>3. /\ n \in Names /\ \A m \in Names : m # n => Rests(m)
        /\ obn'[n] = Zeroed(n, Stale)
        /\ The(n) = index[n]
        /\ index'[n].shards = index[n].shards /\ index'[n].vec = index[n].vec
        /\ index'[n].del = index[n].del \cup Stale
    BY <1>1, <2>1, <2>2, RemoveStaleStep
  <2>4. reopened' = reopened
    BY <2>1 DEF RemoveStale
  <2>5. index[n].open
    BY <1>1, <2>1, <2>2 DEF QueryInv, NoQuery
  <2>6. n \notin reopened' => Entered(index'[n], obn'[n])
    <3> SUFFICES ASSUME n \notin reopened', index[n].shards = 1, NEW l \in InGraph(index'[n])
                 PROVE  obn'[n][l] # 0
      BY <2>3 DEF Entered
    <3>1. l \in InGraph(index[n]) /\ l \notin Stale /\ l \in Labels
      BY <2>3 DEF InGraph
    <3>2. obn[n][l] # 0
      BY <2>3, <2>4, <2>5, <3>1 DEF AllEntered, Entered
    <3> QED
      BY <2>3, <3>1, <3>2 DEF Zeroed
  <2> QED
    BY <1>2, <2>3, <2>6
<1>12. ASSUME NEW d \in 1 .. MaxDocs, Delete(d) PROVE AllEntered'
  BY <1>7, <1>12 DEF Delete, history
<1>13. CASE UNCHANGED vars
  BY <1>7, <1>13 DEF vars, history
<1> QED
  BY <1>3, <1>4, <1>5, <1>6, <1>8, <1>9, <1>10, <1>11, <1>12, <1>13 DEF Next

\* Sets of labels are finite.
LEMMA LabelSets ==
    ASSUME NEW L \in SUBSET Labels
    PROVE  IsFiniteSet(L) /\ Cardinality(L) \in Nat
<1>1. 0 \in Int /\ MaxElements - 1 \in Int
  BY ConstantsAssumption
<1>2. IsFiniteSet(Labels)
  BY <1>1, FS_Interval DEF Labels
<1>3. IsFiniteSet(L)
  BY <1>2, FS_Subset
<1> QED
  BY <1>3, FS_CardinalityType

LEMMA ProductGrows ==
    ASSUME NEW a \in Nat, NEW b \in Nat, NEW c \in Nat, a <= b
    PROVE  a * c <= b * c
<1>1. \E d \in Nat : b = a + d
  <2>1. b - a \in Nat /\ b = a + (b - a)
    OBVIOUS
  <2> QED
    BY <2>1
<1>2. PICK d \in Nat : b = a + d
  BY <1>1
<1>3. b * c = a * c + d * c /\ d * c >= 0 /\ a * c \in Int /\ d * c \in Int
  BY <1>2
<1> QED
  BY <1>3

\* The threshold for a set of results, of at most K.
LEMMA ThresholdIs ==
    ASSUME NEW R \in SUBSET Labels, Cardinality(R) <= K
    PROVE  Threshold(R) \in Int /\ Threshold(R) <= Largest
<1>1. Cardinality(R) \in Nat /\ K \in Nat /\ Percent \in Nat
  BY LabelSets, ConstantsAssumption
<1>2. PICK a, b \in Nat : a = Cardinality(R) * Percent /\ b = K * Percent
  BY <1>1
<1>3. a <= b
  BY <1>1, <1>2, ProductGrows
<1>4. a \div 100 <= b \div 100 /\ a \div 100 \in Int /\ b \div 100 \in Int
  BY <1>3
<1> QED
  BY <1>2, <1>4 DEF Threshold, Largest, Larger

LEMMA NextQueryFull == IInv /\ QueryFull /\ [Next]_vars => QueryFull'
<1> SUFFICES ASSUME IInv, QueryFull, [Next]_vars, query'.on PROVE QueryFull'
  BY DEF QueryFull
<1>1. Typed /\ NameInv /\ QueryInv /\ Maps
  BY DEF IInv, Typed
<1>2. CASE \E n \in Names : SearchBegin(n)
  <2>1. PICK n \in Names : SearchBegin(n)
    BY <1>2
  <2>2. GetOrCreate(n, The(n)) /\ obn' = obn
    BY <2>1 DEF SearchBegin
  <2>3. index'[n] = The(n)
    BY <2>2 DEF GetOrCreate
  <2>4. PICK C \in Candidates(The(n)) :
           query' = [on |-> TRUE, name |-> n, results |-> Results(n, The(n), C),
                     threshold |-> Threshold(Results(n, The(n), C))]
    BY <2>1 DEF SearchBegin
  <2>5. /\ query'.name = n /\ query'.results = {l \in C : obn'[n][l] # 0}
        /\ query'.threshold = Threshold(query'.results)
    BY <2>2, <2>4 DEF Results
  <2>6. Cardinality(C) <= K /\ C \subseteq Labels /\ Cardinality(C) \in Nat
    <3>1. C \subseteq Labels /\ InGraph(The(n)) \subseteq Labels
      BY <2>4 DEF Candidates, InGraph
    <3>2. Cardinality(C) = Smaller(K, Cardinality(InGraph(The(n))))
      BY <2>4 DEF Candidates
    <3> QED
      BY <3>1, <3>2, LabelSets, ConstantsAssumption DEF Smaller
  <2>7. query'.results \in SUBSET Labels /\ Cardinality(query'.results) <= K
    <3>1. query'.results \in SUBSET C /\ IsFiniteSet(C)
      BY <2>5, <2>6, LabelSets
    <3>2. Cardinality(query'.results) <= Cardinality(C)
      BY <3>1, FS_Subset
    <3>3. query'.results \in SUBSET Labels
      BY <2>6, <3>1
    <3> QED
      BY <2>6, <3>2, <3>3, LabelSets, ConstantsAssumption
  <2>8. query'.threshold \in Int /\ query'.threshold <= Largest
    BY <2>5, <2>7, ThresholdIs
  <2> QED
    BY <2>3, <2>4, <2>5, <2>8 DEF QueryFull, FullQuery
<1>3. CASE SearchAgain
  <2>1. query.on
    BY <1>3 DEF SearchAgain
  <2>2. query = [on |-> TRUE, name |-> query.name, results |-> query.results,
                 threshold |-> query.threshold]
    BY <1>1, <2>1 DEF QueryInv, NoQuery
  <2>3. PICK C \in Candidates(index'[query.name]) :
           query' = [query EXCEPT !.results = {l \in C : obn'[query.name][l] # 0}]
    BY <1>3 DEF SearchAgain
  <2>4. /\ query'.name = query.name /\ query'.threshold = query.threshold
        /\ query'.results = {l \in C : obn'[query.name][l] # 0}
    BY <2>2, <2>3
  <2> QED
    BY <2>1, <2>3, <2>4 DEF QueryFull, FullQuery
<1>4. CASE UNCHANGED vars
  BY <1>4 DEF QueryFull, vars, searching
<1>5. CASE ~(\E n \in Names : SearchBegin(n)) /\ ~SearchAgain /\ ~UNCHANGED vars
  <2>1. CASE SearchEnd \/ Crash
    BY <2>1 DEF SearchEnd, Crash, NoQuery
  <2>2. CASE ~(SearchEnd \/ Crash)
    <3>1. CASE FlushAll \/ Quit
      BY <3>1 DEF FlushAll, Quit, Idle, searching
    <3>2. CASE \E d \in 1 .. MaxDocs : Delete(d)
      BY <3>2 DEF Delete, Idle, searching
    <3>3. CASE \E n \in Names : Use(n) \/ AppendChunk(n) \/ AppendRefused(n) \/ Flush(n)
                                \/ Clear(n) \/ ClearIgnored(n) \/ SearchNone(n)
      BY <3>3 DEF Use, AppendChunk, AppendRefused, Flush, Clear, ClearIgnored, SearchNone,
                  Idle, searching
    <3> QED
      BY <1>5, <2>2, <3>1, <3>2, <3>3 DEF Next
  <2> QED
    BY <2>1, <2>2
<1> QED
  BY <1>2, <1>3, <1>4, <1>5

\* A function that takes each value once keeps the size of a set of labels.
LEMMA ImageSize ==
    ASSUME NEW f, NEW A \in SUBSET Labels
    PROVE  /\ IsFiniteSet({f[l] : l \in A}) /\ Cardinality({f[l] : l \in A}) \in Nat
           /\ Cardinality({f[l] : l \in A}) <= Cardinality(A)
           /\ (\A k, l \in A : f[k] = f[l] => k = l) =>
                 Cardinality({f[l] : l \in A}) = Cardinality(A)
<1> DEFINE B == {f[l] : l \in A}
           g == [l \in A |-> f[l]]
<1>1. g \in [A -> B] /\ \A x \in B : \E l \in A : g[l] = x
  OBVIOUS
<1>2. g \in Surjection(A, B)
  BY <1>1 DEF Surjection
<1>3. (\A k, l \in A : f[k] = f[l] => k = l) => g \in Injection(A, B)
  BY <1>1 DEF Injection, IsInjective
<1>4. IsFiniteSet(A)
  BY LabelSets
<1> HIDE DEF g, B
<1>5. IsFiniteSet(B) /\ Cardinality(B) <= Cardinality(A)
      /\ (Cardinality(B) = Cardinality(A) <=> g \in Injection(A, B))
  BY <1>2, <1>4, FS_Surjection
<1>6. Cardinality(B) \in Nat
  BY <1>5, FS_CardinalityType
<1> QED
  BY <1>3, <1>5, <1>6 DEF B

\* What is found under a name is no more than its graph holds.
LEMMA LiveIsFewer ==
    ASSUME Maps, NEW n \in Names, NEW D
    PROVE  /\ Cardinality(Holds(n) \ D) \in Nat /\ Cardinality(InGraph(The(n))) \in Nat
           /\ Cardinality(Holds(n) \ D) <= Cardinality(InGraph(The(n)))
<1> DEFINE s == The(n)
           A == {k \in InGraph(s) : s.shards = 1 /\ obn[n][k] = s.vec[k]}
<1>1. Holds(n) = {s.vec[l] : l \in A}
  BY DEF Holds, The
<1>2. A \in SUBSET InGraph(s) /\ InGraph(s) \in SUBSET Labels /\ A \in SUBSET Labels
  BY DEF InGraph
<1> HIDE DEF A, s
<1>3. IsFiniteSet(Holds(n)) /\ Cardinality(Holds(n)) \in Nat /\ Cardinality(Holds(n)) <= Cardinality(A)
  BY <1>1, <1>2, ImageSize
<1>4. /\ Cardinality(A) <= Cardinality(InGraph(s)) /\ Cardinality(A) \in Nat
      /\ Cardinality(InGraph(s)) \in Nat
  BY <1>2, LabelSets, FS_Subset
<1>5. Holds(n) \ D \in SUBSET Holds(n)
  OBVIOUS
<1>6. /\ IsFiniteSet(Holds(n) \ D)
      /\ Cardinality(Holds(n) \ D) <= Cardinality(Holds(n))
  BY <1>3, <1>5, FS_Subset
<1>7. Cardinality(Holds(n) \ D) \in Nat
  BY <1>6, FS_CardinalityType
<1> QED
  BY <1>3, <1>4, <1>6, <1>7 DEF s

\* The end of a search.
LEMMA EndsInFull ==
    ASSUME IInv, AllEntered, QueryFull, SearchEnd
    PROVE  LET live == Holds(query.name) \ gone
           IN \/ Cardinality(answer') + Larger(1, (K * Percent) \div 100)
                    > Smaller(K, Cardinality(live))
              \/ query.name \in reopened /\ Ghosts(query.name) # {}
<1> SUFFICES ASSUME ~(query.name \in reopened /\ Ghosts(query.name) # {})
             PROVE  Cardinality(answer') + Largest
                       > Smaller(K, Cardinality(Holds(query.name) \ gone))
  BY DEF Largest
<1>1. Typed /\ NameInv /\ QueryInv /\ Maps /\ Once /\ query.on
  BY DEF IInv, Typed, SearchEnd
<1>2. PICK n : n = query.name
  OBVIOUS
<1> DEFINE s == index[n]
           R == query.results
           A == R \ Stale
<1>3. n \in Names /\ s.open /\ The(n) = s
  BY <1>1, <1>2 DEF QueryInv, NoQuery, The
<1>4. query.threshold \in Int /\ query.threshold <= Largest
  BY <1>1 DEF QueryFull, FullQuery
<1>5. PICK C \in Candidates(s) : R = {l \in C : obn[n][l] # 0}
  BY <1>1, <1>2 DEF QueryFull, FullQuery
<1>6. /\ C \subseteq InGraph(s) /\ InGraph(s) \subseteq Labels /\ s.shards = 1
      /\ Cardinality(C) = Smaller(K, Cardinality(InGraph(s)))
  BY <1>5 DEF Candidates, InGraph
<1>7. \A l \in InGraph(s) : obn[n][l] # 0
  <2>1. CASE n \notin reopened
    BY <1>3, <1>6, <2>1 DEF AllEntered, Entered
  <2>2. CASE Ghosts(n) = {}
    BY <1>3, <2>2 DEF Ghosts
  <2> QED
    BY <1>2, <2>1, <2>2
<1>8. R = C /\ R \in SUBSET Labels /\ Stale \in SUBSET R /\ A \in SUBSET Labels
  BY <1>5, <1>6, <1>7 DEF Stale
<1>9. Cardinality(Stale) < query.threshold
  BY DEF SearchEnd
<1>10. Cardinality(A) = Cardinality(R) - Cardinality(Stale)
       /\ Cardinality(R) \in Nat /\ Cardinality(Stale) \in Nat /\ Cardinality(A) \in Nat
  <2>1. R \cap Stale = Stale /\ IsFiniteSet(R) /\ Stale \in SUBSET Labels
    BY <1>8, LabelSets
  <2>2. Cardinality(R \ Stale) = Cardinality(R) - Cardinality(R \cap Stale)
    BY <2>1, FS_Difference
  <2> QED
    BY <1>8, <2>1, <2>2, LabelSets
<1>11. Cardinality(answer') = Cardinality(A)
  <2>1. answer' = {obn[n][l] : l \in A}
    BY <1>2 DEF SearchEnd
  <2>2. \A k, l \in A : obn[n][k] = obn[n][l] => k = l
    BY <1>1, <1>3, <1>5, <1>8 DEF Once
  <2>3. A \in SUBSET Labels
    BY <1>8
  <2> HIDE DEF A
  <2>4. PICK f : f = obn[n]
    OBVIOUS
  <2>5. \A k, l \in A : f[k] = f[l] => k = l
    BY <2>2, <2>4
  <2>6. Cardinality({f[l] : l \in A}) = Cardinality(A)
    BY <2>3, <2>5, ImageSize, ZenonT(40)
  <2> QED
    BY <2>1, <2>4, <2>6
<1>12. PICK a : a = Cardinality(Holds(n) \ gone)
  OBVIOUS
<1>13. a \in Nat /\ Cardinality(InGraph(s)) \in Nat /\ a <= Cardinality(InGraph(s))
  BY <1>1, <1>3, <1>12, LiveIsFewer
<1>14. Smaller(K, a) <= Cardinality(R) /\ Smaller(K, a) \in Nat /\ Largest \in Int
  <2>1. K \in Nat /\ Percent \in Nat
    BY ConstantsAssumption
  <2>2. K * Percent \in Int
    BY <2>1
  <2> QED
    BY <1>6, <1>8, <1>13, <2>1, <2>2 DEF Smaller, Larger, Largest
<1>15. Cardinality(A) + Largest > Smaller(K, a)
  <2> HIDE DEF A, R
  <2> QED
    BY <1>4, <1>9, <1>10, <1>14
<1> QED
  BY <1>2, <1>11, <1>12, <1>15

\* EmbeddingIndexer::process_results, for any K and any percentage: a search of the bridge
\* returns fewer than the threshold less than it could, unless its index was opened again,
\* which forgets marks and leaves candidates without an entry.
THEOREM AnswersInFullHolds == Spec => AnswersInFull
<1>1. Init => AllEntered /\ QueryFull
  BY DEF Init, AllEntered, QueryFull, NoQuery, Closed
<1>2. IInv /\ AllEntered /\ QueryFull /\ [Next]_vars =>
         [query.on /\ ~query'.on /\ crashes' = crashes =>
             LET live == Holds(query.name) \ gone
             IN \/ Cardinality(answer') + Larger(1, (K * Percent) \div 100)
                      > Smaller(K, Cardinality(live))
                \/ query.name \in reopened /\ Ghosts(query.name) # {}]_vars
  <2> SUFFICES ASSUME IInv, AllEntered, QueryFull, [Next]_vars, query.on, ~query'.on,
                      crashes' = crashes
               PROVE  LET live == Holds(query.name) \ gone
                      IN \/ Cardinality(answer') + Larger(1, (K * Percent) \div 100)
                               > Smaller(K, Cardinality(live))
                         \/ query.name \in reopened /\ Ghosts(query.name) # {}
    OBVIOUS
  <2>1. SearchEnd
    <3>1. CASE FlushAll \/ Quit
      BY <3>1 DEF FlushAll, Quit, Idle
    <3>2. CASE \E d \in 1 .. MaxDocs : Delete(d)
      BY <3>2 DEF Delete, Idle
    <3>3. CASE \E n \in Names : Use(n) \/ AppendChunk(n) \/ AppendRefused(n) \/ Flush(n)
                                \/ Clear(n) \/ ClearIgnored(n) \/ SearchNone(n) \/ SearchBegin(n)
      BY <3>3 DEF Use, AppendChunk, AppendRefused, Flush, Clear, ClearIgnored, SearchNone,
                  SearchBegin, Idle
    <3>4. CASE Crash
      BY <3>4 DEF Crash, IInv
    <3>5. CASE SearchAgain
      <4>1. query = [on |-> TRUE, name |-> query.name, results |-> query.results,
                     threshold |-> query.threshold]
        BY DEF IInv, QueryInv, NoQuery
      <4>2. PICK C : query' = [query EXCEPT !.results = {l \in C : obn'[query.name][l] # 0}]
        BY <3>5 DEF SearchAgain
      <4> QED
        BY <4>1, <4>2
    <3>6. CASE UNCHANGED vars
      BY <3>6 DEF vars, searching
    <3> QED
      BY <3>1, <3>2, <3>3, <3>4, <3>5, <3>6 DEF Next
  <2> QED
    BY <2>1, EndsInFull
<1> QED
  BY <1>1, <1>2, Invariance, NextAllEntered, NextQueryFull, PTL DEF Spec, AnswersInFull
=============================================================================
