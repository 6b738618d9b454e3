--------------------------- MODULE BertIndex_proofs ---------------------------
(***************************************************************************)
(* What a shard keeps whatever the capacity, the thresholds, the sentence  *)
(* ids and the number of chunks, sessions and crashes are.                 *)
(***************************************************************************)
EXTENDS BertIndex, FiniteSetTheorems, TLAPS

-----------------------------------------------------------------------------
(* Facts about the helpers.                                                *)

\* The chunks a caller marks in one call can be counted.
LEMMA CountOfLabels ==
    ASSUME NEW S \in SUBSET Labels
    PROVE  Cardinality(S) \in Nat
<1>1. IsFiniteSet(Labels)
  BY FS_Interval, ConstantsAssumption DEF Labels
<1>2. IsFiniteSet(S)
  BY <1>1, FS_Subset
<1> QED
  BY <1>2, FS_CardinalityType

\* allocate_label returns a label of the shard and keeps the allocator's types.
LEMMA AllocateLabelType ==
    ASSUME TypeOK, ~CannotAllocate, AllocateLabel
    PROVE  /\ NewLabel \in Labels
           /\ next_label' \in 0 .. MaxElements
           /\ free_labels' \in Seq(Labels)
<1>1. CASE free_labels = <<>>
  BY <1>1, ConstantsAssumption
     DEF TypeOK, TypeCounters, CannotAllocate, AllocateLabel, NewLabel, Labels
<1>2. CASE free_labels # <<>>
  <2>1. free_labels \in Seq(Labels) /\ next_label \in 0 .. MaxElements
    BY DEF TypeOK, TypeCounters, TypeQueues
  <2>2. Head(free_labels) \in Labels /\ Tail(free_labels) \in Seq(Labels)
    BY <2>1, <1>2
  <2> QED
    BY <1>2, <2>1, <2>2 DEF AllocateLabel, NewLabel
<1> QED
  BY <1>1, <1>2

\* Docs known before a chunk is handed over are known after it.
LEMMA SeqOfDocsGrows ==
    ASSUME NEW n \in Nat, NEW s \in Seq(1 .. n)
    PROVE  s \in Seq(1 .. n + 1)
  OBVIOUS

\* The store is a sequence of docs, before and after a chunk is stored.
LEMMA StoreChunkType ==
    ASSUME TypeOK, StoreChunk(docs + 1), docs' = docs + 1
    PROVE  sentBuf' \in Seq(1 .. docs') /\ sentFile' \in Seq(1 .. docs')
<1>1. docs \in Nat /\ sentBuf \in Seq(1 .. docs) /\ sentFile \in Seq(1 .. docs)
  BY DEF TypeOK, TypeCounters, TypeQueues
<1>2. sentBuf \in Seq(1 .. docs + 1) /\ sentFile \in Seq(1 .. docs + 1)
  BY <1>1, SeqOfDocsGrows
<1>3. docs + 1 \in 1 .. docs + 1
  BY <1>1
<1>4. Store \in Seq(1 .. docs + 1)
  BY <1>2 DEF Store
<1>5. /\ <<docs + 1>> \in Seq(1 .. docs + 1)
      /\ <<>> \in Seq(1 .. docs + 1)
      /\ Append(Store, docs + 1) \in Seq(1 .. docs + 1)
  BY <1>3, <1>4
<1> QED
  BY <1>2, <1>4, <1>5 DEF StoreChunk

\* What FlushIf does to the counters and the image: it saves or it counts.
FlushOutcome(v, d, n) ==
    \/ SaveGraph(v, d, additions)
    \/ dirty_count' = n /\ UNCHANGED <<additions, idxVars>>

\* save and the flush an operation may end with keep the types.
LEMMA SaveGraphType ==
    ASSUME TypeOK, NEW ACTION v, v \in [Labels -> 0 .. docs],
           NEW ACTION d, d \in SUBSET Labels,
           SaveGraph(v, d, additions)
    PROVE  /\ additions' \in Nat /\ dirty_count' \in Nat
           /\ idxState' \in {"none", "ok", "torn"}
           /\ idxVec' \in [Labels -> 0 .. docs] /\ idxDel' \subseteq Labels
<1>1. CASE WritesGraph(v, additions)
  BY <1>1 DEF SaveGraph
<1>2. CASE ~WritesGraph(v, additions)
  BY <1>2 DEF SaveGraph, TypeOK, TypeCounters, TypeTables, idxVars
<1> QED
  BY <1>1, <1>2

LEMMA FlushOutcomeType ==
    ASSUME TypeOK, NEW ACTION v, v \in [Labels -> 0 .. docs],
           NEW ACTION d, d \in SUBSET Labels, NEW ACTION n, n \in Nat,
           FlushOutcome(v, d, n)
    PROVE  /\ additions' \in Nat /\ dirty_count' \in Nat
           /\ idxState' \in {"none", "ok", "torn"}
           /\ idxVec' \in [Labels -> 0 .. docs] /\ idxDel' \subseteq Labels
<1>1. CASE SaveGraph(v, d, additions)
  BY <1>1, SaveGraphType
<1>2. CASE dirty_count' = n /\ UNCHANGED <<additions, idxVars>>
  BY <1>2 DEF TypeOK, TypeCounters, TypeTables, idxVars
<1> QED
  BY <1>1, <1>2 DEF FlushOutcome

\* Taking a label's entry out keeps the types of entries and history.
LEMMA TakeOutType ==
    ASSUME TypeOK, NEW l \in Labels, TakeOut(l)
    PROVE  offs' \in [Labels -> [sid : Nat, at : Nat]] /\ removed' \subseteq 1 .. docs
<1>1. offs \in [Labels -> [sid : Nat, at : Nat]] /\ vec[l] \in 0 .. docs
      /\ removed \subseteq 1 .. docs
  BY DEF TypeOK, TypeTables
<1>2. NoEntry \in [sid : Nat, at : Nat]
  BY DEF NoEntry
<1>3. {vec[l]} \ {0} \subseteq 1 .. docs
  BY <1>1, TypeOK DEF TypeOK, TypeCounters
<1> QED
  BY <1>1, <1>2, <1>3 DEF TakeOut, ZeroEntry

-----------------------------------------------------------------------------
(* Type correctness.                                                       *)

\* Every step keeps the types.
LEMMA TypeStep == TypeOK /\ [Next]_vars => TypeOK'
<1> SUFFICES ASSUME TypeOK, [Next]_vars PROVE TypeOK'
  OBVIOUS
<1> USE DEF memVars, jobVars, sentVars, idxVars, bookVars, TypeOK
<1>s. docs \in Nat /\ Store \in Seq(1 .. docs)
  BY DEF Store, TypeQueues, TypeCounters
<1>1. ASSUME Open
      PROVE  TypeOK'
  <2>f. TypeFlags'
    BY <1>1 DEF Open, TypeFlags
  <2>c. TypeCounters'
    BY <1>1, ConstantsAssumption DEF Open, TypeCounters
  <2>t. TypeTables'
    BY <1>1, <1>s DEF Open, TypeTables, DiskVec, DiskDel, NoGraph
  <2>q. TypeQueues'
    BY <1>1 DEF Open, TypeQueues
  <2> QED
    BY <2>f, <2>c, <2>t, <2>q
<1>2. ASSUME NEW sid \in Nat \ {0}, NEW n \in 0 .. MaxChunks,
             BeginAppend(sid, n), auto_sentence_id' \in Nat
      PROVE  TypeOK'
  <2>f. TypeFlags'
    BY <1>2 DEF BeginAppend, TypeFlags, Idle
  <2>c. TypeCounters'
    BY <1>2, ConstantsAssumption DEF BeginAppend, TypeCounters
  <2>t. TypeTables'
    BY <1>2 DEF BeginAppend, TypeTables
  <2>q. TypeQueues'
    BY <1>2 DEF BeginAppend, TypeQueues
  <2> QED
    BY <2>f, <2>c, <2>t, <2>q
<1>3. ASSUME NEW n \in 0 .. MaxChunks, AppendAuto(n)
      PROVE  TypeOK'
  <2>1. PICK sid \in 1 .. MaxSid : BeginAppend(sid, n) /\ auto_sentence_id' = sid
    BY <1>3 DEF AppendAuto
  <2> QED
    BY <1>2, <2>1, ConstantsAssumption
<1>4. ASSUME NEW n \in 0 .. MaxChunks, NEW sid \in Sids, AppendId(sid, n)
      PROVE  TypeOK'
  <2>1. sid \in Nat \ {0} /\ auto_sentence_id' \in Nat
    BY <1>4, ConstantsAssumption DEF AppendId, TypeCounters
  <2> QED
    BY <1>2, <1>4, <2>1 DEF AppendId
<1>5. ASSUME AppendChunk
      PROVE  TypeOK'
  <2>1. /\ NewLabel \in Labels /\ next_label' \in 0 .. MaxElements
        /\ free_labels' \in Seq(Labels)
    BY <1>5, AllocateLabelType DEF AppendChunk
  <2>2. docs' = docs + 1 /\ 0 .. docs \subseteq 0 .. docs' /\ docs + 1 \in 0 .. docs'
    BY <1>5, <1>s DEF AppendChunk
  <2>3. sentBuf' \in Seq(1 .. docs') /\ sentFile' \in Seq(1 .. docs')
    BY <1>5, StoreChunkType DEF AppendChunk
  <2>4. StoreAddress \in Nat
    BY <1>s DEF StoreAddress, BadAddress
  <2>f. TypeFlags'
    BY <1>5 DEF AppendChunk, AddPoint, TypeFlags
  <2>c. TypeCounters'
    BY <1>5, <1>s, <2>1, <2>2, ConstantsAssumption
       DEF AppendChunk, AddPoint, TypeCounters
  <2>t. TypeTables'
    <3>1. vec' \in [Labels -> 0 .. docs'] /\ del' \subseteq Labels
      BY <1>5, <2>1, <2>2 DEF AppendChunk, AddPoint, TypeTables
    <3>2. offs' \in [Labels -> [sid : Nat, at : Nat]]
      BY <1>5, <2>1, <2>4 DEF AppendChunk, TypeTables, TypeCounters
    <3>3. idxVec' \in [Labels -> 0 .. docs'] /\ removed' \subseteq 1 .. docs'
      BY <1>5, <1>s, <2>2 DEF AppendChunk, TypeTables
    <3> QED
      BY <1>5, <3>1, <3>2, <3>3 DEF AppendChunk, TypeTables
  <2>q. TypeQueues'
    BY <1>5, <2>1, <2>3 DEF AppendChunk, AddPoint, TypeQueues
  <2> QED
    BY <2>f, <2>c, <2>t, <2>q
<1>6. ASSUME AppendRejected
      PROVE  TypeOK'
  <2>1. /\ NewLabel \in Labels /\ next_label' \in 0 .. MaxElements
        /\ free_labels' \in Seq(Labels)
    BY <1>6, AllocateLabelType DEF AppendRejected
  <2>2. docs' = docs + 1 /\ 0 .. docs \subseteq 0 .. docs' /\ docs + 1 \in 0 .. docs'
    BY <1>6, <1>s DEF AppendRejected
  <2>3. sentBuf' \in Seq(1 .. docs') /\ sentFile' \in Seq(1 .. docs')
    BY <1>6, StoreChunkType DEF AppendRejected
  <2>f. TypeFlags'
    BY <1>6 DEF AppendRejected, TypeFlags
  <2>c. TypeCounters'
    BY <1>6, <1>s, <2>1, <2>2, ConstantsAssumption
       DEF AppendRejected, TypeCounters
  <2>t. TypeTables'
    BY <1>6, <1>s, <2>1, <2>2, SMTT(40) DEF AppendRejected, TypeTables
  <2>q. TypeQueues'
    BY <1>6, <2>1, <2>3 DEF AppendRejected, TypeQueues
  <2> QED
    BY <2>f, <2>c, <2>t, <2>q
<1>7. ASSUME AppendFull
      PROVE  TypeOK'
  <2>f. TypeFlags'
    BY <1>7 DEF AppendFull, TypeFlags
  <2>c. TypeCounters'
    BY <1>7, ConstantsAssumption DEF AppendFull, TypeCounters
  <2>t. TypeTables'
    BY <1>7 DEF AppendFull, TypeTables
  <2>q. TypeQueues'
    BY <1>7 DEF AppendFull, TypeQueues
  <2> QED
    BY <2>f, <2>c, <2>t, <2>q
<1>8. ASSUME AppendDone
      PROVE  TypeOK'
  <2>o. FlushOutcome(vec, del, dirty_count + 1)
    BY <1>8 DEF AppendDone, FlushIf, FlushOutcome
  <2>1. /\ additions' \in Nat /\ dirty_count' \in Nat
        /\ idxState' \in {"none", "ok", "torn"}
        /\ idxVec' \in [Labels -> 0 .. docs] /\ idxDel' \subseteq Labels
    BY <2>o, FlushOutcomeType DEF TypeCounters, TypeTables
  <2>f. TypeFlags'
    BY <1>8 DEF AppendDone, TypeFlags
  <2>c. TypeCounters'
    BY <1>8, <2>1 DEF AppendDone, TypeCounters
  <2>t. TypeTables'
    BY <1>8, <2>1 DEF AppendDone, TypeTables
  <2>q. TypeQueues'
    BY <1>8 DEF AppendDone, TypeQueues
  <2> QED
    BY <2>f, <2>c, <2>t, <2>q
<1>9. ASSUME NEW l \in Labels, Remove(l)
      PROVE  TypeOK'
  <2>1. del' \in SUBSET Labels
    BY <1>9 DEF Remove, TypeTables
  <2>o. FlushOutcome(vec, del', dirty_count + 1)
    BY <1>9 DEF Remove, FlushIf, FlushOutcome
  <2>2. /\ additions' \in Nat /\ dirty_count' \in Nat
        /\ idxState' \in {"none", "ok", "torn"}
        /\ idxVec' \in [Labels -> 0 .. docs] /\ idxDel' \subseteq Labels
    BY <2>1, <2>o, FlushOutcomeType DEF TypeCounters, TypeTables
  <2>3. offs' \in [Labels -> [sid : Nat, at : Nat]] /\ removed' \subseteq 1 .. docs
    BY <1>9, TakeOutType DEF Remove
  <2>f. TypeFlags'
    BY <1>9 DEF Remove, TypeFlags, Idle
  <2>c. TypeCounters'
    BY <1>9, <2>2 DEF Remove, TypeCounters
  <2>t. TypeTables'
    BY <1>9, <2>1, <2>2, <2>3 DEF Remove, TypeTables
  <2>q. TypeQueues'
    BY <1>9 DEF Remove, TypeQueues
  <2> QED
    BY <2>f, <2>c, <2>t, <2>q
<1>10. ASSUME NEW S \in SUBSET Labels, RemoveDeleted(S)
      PROVE  TypeOK'
  <2>1. del' \in SUBSET Labels
    BY <1>10 DEF RemoveDeleted, TypeTables
  <2>2. dirty_count + Cardinality(S) \in Nat
    BY CountOfLabels DEF TypeCounters
  <2>o. FlushOutcome(vec, del', dirty_count + Cardinality(S))
    BY <1>10 DEF RemoveDeleted, FlushIf, FlushOutcome
  <2>3. /\ additions' \in Nat /\ dirty_count' \in Nat
        /\ idxState' \in {"none", "ok", "torn"}
        /\ idxVec' \in [Labels -> 0 .. docs] /\ idxDel' \subseteq Labels
    BY <2>1, <2>2, <2>o, FlushOutcomeType DEF TypeCounters, TypeTables
  <2>f. TypeFlags'
    BY <1>10 DEF RemoveDeleted, TypeFlags, Idle
  <2>c. TypeCounters'
    BY <1>10, <2>3 DEF RemoveDeleted, TypeCounters
  <2>t. TypeTables'
    BY <1>10, <2>1, <2>3 DEF RemoveDeleted, TypeTables
  <2>q. TypeQueues'
    BY <1>10 DEF RemoveDeleted, TypeQueues
  <2> QED
    BY <2>f, <2>c, <2>t, <2>q
<1>11. ASSUME NEW S \in SUBSET Labels, NEW done \in SUBSET S,
              RemoveDeletedThrows(S, done)
      PROVE  TypeOK'
  <2>f. TypeFlags'
    BY <1>11 DEF RemoveDeletedThrows, TypeFlags, Idle
  <2>c. TypeCounters'
    BY <1>11 DEF RemoveDeletedThrows, TypeCounters
  <2>t. TypeTables'
    BY <1>11 DEF RemoveDeletedThrows, TypeTables
  <2>q. TypeQueues'
    BY <1>11 DEF RemoveDeletedThrows, TypeQueues
  <2> QED
    BY <2>f, <2>c, <2>t, <2>q
<1>12. ASSUME NEW l \in Labels, Undelete(l)
      PROVE  TypeOK'
  <2>1. del' \in SUBSET Labels
    BY <1>12 DEF Undelete, TypeTables
  <2>o. FlushOutcome(vec, del', dirty_count + 1)
    BY <1>12 DEF Undelete, FlushIf, FlushOutcome
  <2>2. /\ additions' \in Nat /\ dirty_count' \in Nat
        /\ idxState' \in {"none", "ok", "torn"}
        /\ idxVec' \in [Labels -> 0 .. docs] /\ idxDel' \subseteq Labels
    BY <2>1, <2>o, FlushOutcomeType DEF TypeCounters, TypeTables
  <2>f. TypeFlags'
    BY <1>12 DEF Undelete, TypeFlags, Idle
  <2>c. TypeCounters'
    BY <1>12, <2>2 DEF Undelete, TypeCounters
  <2>t. TypeTables'
    BY <1>12, <2>1, <2>2 DEF Undelete, TypeTables
  <2>q. TypeQueues'
    BY <1>12 DEF Undelete, TypeQueues
  <2> QED
    BY <2>f, <2>c, <2>t, <2>q
<1>13. ASSUME Flush
      PROVE  TypeOK'
  <2>1. /\ additions' \in Nat /\ dirty_count' \in Nat
        /\ idxState' \in {"none", "ok", "torn"}
        /\ idxVec' \in [Labels -> 0 .. docs] /\ idxDel' \subseteq Labels
    BY <1>13, SaveGraphType, ConstantsAssumption
       DEF Flush, TypeCounters, TypeTables
  <2>f. TypeFlags'
    BY <1>13 DEF Flush, TypeFlags, Idle
  <2>c. TypeCounters'
    BY <1>13, <2>1 DEF Flush, TypeCounters
  <2>t. TypeTables'
    BY <1>13, <2>1 DEF Flush, TypeTables
  <2>q. TypeQueues'
    BY <1>13 DEF Flush, TypeQueues
  <2> QED
    BY <2>f, <2>c, <2>t, <2>q
<1>14. ASSUME Search
      PROVE  TypeOK'
  <2>f. TypeFlags'
    BY <1>14 DEF Search, TypeFlags, Idle
  <2>c. TypeCounters'
    BY <1>14 DEF Search, TypeCounters
  <2>t. TypeTables'
    BY <1>14 DEF Search, TypeTables
  <2>q. TypeQueues'
    BY <1>14, <1>s DEF Search, TypeQueues
  <2> QED
    BY <2>f, <2>c, <2>t, <2>q
<1>15. ASSUME Clear
      PROVE  TypeOK'
  <2>f. TypeFlags'
    BY <1>15 DEF Clear, TypeFlags, Idle
  <2>c. TypeCounters'
    BY <1>15, ConstantsAssumption DEF Clear, TypeCounters
  <2>t. TypeTables'
    BY <1>15 DEF Clear, TypeTables, DropImage, NoGraph, NoEntry, TypeCounters
  <2>q. TypeQueues'
    BY <1>15 DEF Clear, TypeQueues
  <2> QED
    BY <2>f, <2>c, <2>t, <2>q
<1>16. ASSUME Close
      PROVE  TypeOK'
  <2>1. /\ additions' \in Nat /\ dirty_count' \in Nat
        /\ idxState' \in {"none", "ok", "torn"}
        /\ idxVec' \in [Labels -> 0 .. docs] /\ idxDel' \subseteq Labels
    BY <1>16, SaveGraphType, ConstantsAssumption
       DEF Close, TypeCounters, TypeTables
  <2>f. TypeFlags'
    BY <1>16 DEF Close, TypeFlags, Gone
  <2>c. TypeCounters'
    BY <1>16, <2>1, ConstantsAssumption DEF Close, TypeCounters, Gone
  <2>t. TypeTables'
    BY <1>16, <2>1, <1>s DEF Close, TypeTables, Gone, NoGraph
  <2>q. TypeQueues'
    BY <1>16, <1>s DEF Close, TypeQueues, Gone
  <2> QED
    BY <2>f, <2>c, <2>t, <2>q
<1>17. ASSUME Crash
      PROVE  TypeOK'
  <2>f. TypeFlags'
    BY <1>17 DEF Crash, TypeFlags, Gone
  <2>c. TypeCounters'
    BY <1>17, ConstantsAssumption DEF Crash, TypeCounters, Gone
  <2>t. TypeTables'
    BY <1>17, <1>s DEF Crash, TypeTables, Gone, NoGraph
  <2>q. TypeQueues'
    BY <1>17 DEF Crash, TypeQueues, Gone
  <2> QED
    BY <2>f, <2>c, <2>t, <2>q
<1>18. ASSUME CrashInSave
      PROVE  TypeOK'
  <2>1. offs' \in [Labels -> [sid : Nat, at : Nat]] /\ removed' \subseteq 1 .. docs
    BY <1>18, TakeOutType DEF CrashInSave, TypeTables
  <2>f. TypeFlags'
    BY <1>18 DEF CrashInSave, TypeFlags, Gone
  <2>c. TypeCounters'
    BY <1>18, ConstantsAssumption DEF CrashInSave, TypeCounters, Gone
  <2>t. TypeTables'
    BY <1>18, <1>s, <2>1 DEF CrashInSave, TypeTables, Gone, NoGraph
  <2>q. TypeQueues'
    BY <1>18, <1>s DEF CrashInSave, TypeQueues, Gone
  <2> QED
    BY <2>f, <2>c, <2>t, <2>q
<1>19. ASSUME UNCHANGED vars
      PROVE  TypeOK'
  <2>f. TypeFlags'
    BY <1>19 DEF vars, TypeFlags
  <2>c. TypeCounters'
    BY <1>19 DEF vars, TypeCounters
  <2>t. TypeTables'
    BY <1>19 DEF vars, TypeTables
  <2>q. TypeQueues'
    BY <1>19 DEF vars, TypeQueues
  <2> QED
    BY <2>f, <2>c, <2>t, <2>q
<1> QED
  BY <1>1, <1>3, <1>4, <1>5, <1>6, <1>7, <1>8, <1>9, <1>10,
     <1>11, <1>12, <1>13, <1>14, <1>15, <1>16, <1>17, <1>18, <1>19 DEF Next

\* A directory without files and a process that has not opened it.
LEMMA InitType == Init => TypeOK
<1> SUFFICES ASSUME Init PROVE TypeOK
  OBVIOUS
<1>1. TypeFlags
  BY DEF Init, TypeFlags
<1>2. TypeCounters
  BY ConstantsAssumption DEF Init, TypeCounters
<1>3. TypeTables
  BY DEF Init, TypeTables, NoGraph, NoEntry
<1>4. TypeQueues
  BY DEF Init, TypeQueues
<1> QED
  BY <1>1, <1>2, <1>3, <1>4 DEF TypeOK

\* Every variable of a shard keeps its type in every behaviour.
THEOREM TypeCorrect == Spec => []TypeOK
  BY InitType, TypeStep, PTL DEF Spec

-----------------------------------------------------------------------------
(* The inductive invariant.                                                *)

\* The graph's own flush, which forgets additions, is never reached.
FewDocs == MaxDocs <= IndexFlushThreshold

\* additions_since_flush_ never exceeds the chunks handed over.
BoundInv == additions <= docs /\ (busy => docs + left <= MaxDocs)

\* A graph with nothing to save is the saved one; an emptied graph has no image.
SavedInv ==
    FewDocs /\ isOpen => /\ additions = 0 => vec = DiskVec
                         /\ vec = NoGraph => DiskVec = NoGraph

\* The text an entry names is that of the label's vector, not one removed.
NamesItsVector(l) ==
    /\ offs[l].at \in 1 .. Len(Store)
    /\ Store[offs[l].at] = CurrentVec[l]
    /\ CurrentVec[l] # 0
    /\ CurrentVec[l] \notin removed

\* No two labels have the vector of the same chunk.
VectorsDiffer ==
    \A k, l \in Labels : CurrentVec[k] = CurrentVec[l] /\ k # l => CurrentVec[k] = 0

TextInv ==
    FewDocs /\ crashes = 0 =>
        VectorsDiffer /\ \A l \in Labels : NamesText(l) => NamesItsVector(l)

LEMMA BoundStep == TypeOK /\ BoundInv /\ [Next]_vars => BoundInv'
<1> SUFFICES ASSUME TypeOK, BoundInv, [Next]_vars PROVE BoundInv'
  OBVIOUS
<1> USE ConstantsAssumption
    DEF memVars, jobVars, sentVars, idxVars, bookVars, TypeOK, TypeCounters, BoundInv
<1>1. ASSUME docs' = docs, busy' => docs + left' <= MaxDocs,
             additions' \in {0, additions}
      PROVE  BoundInv'
  BY <1>1
<1>3. ASSUME Open PROVE BoundInv'
  BY <1>1, <1>3 DEF Open, TypeFlags
<1>4. ASSUME NEW n \in 0 .. MaxChunks, NEW sid, BeginAppend(sid, n)
      PROVE  BoundInv'
  BY <1>1, <1>4 DEF BeginAppend
<1>5. ASSUME AppendChunk PROVE BoundInv'
  BY <1>5 DEF AppendChunk, AddPoint
<1>6. ASSUME AppendRejected PROVE BoundInv'
  BY <1>6 DEF AppendRejected
<1>7. ASSUME AppendFull PROVE BoundInv'
  BY <1>1, <1>7 DEF AppendFull
<1>8. ASSUME AppendDone PROVE BoundInv'
  BY <1>1, <1>8 DEF AppendDone, FlushIf, SaveGraph
<1>9. ASSUME NEW l \in Labels, Remove(l) \/ Undelete(l) PROVE BoundInv'
  BY <1>1, <1>9 DEF Remove, TakeOut, Undelete, FlushIf, SaveGraph
<1>10. ASSUME NEW S \in SUBSET Labels, RemoveDeleted(S) PROVE BoundInv'
  BY <1>1, <1>10 DEF RemoveDeleted, FlushIf, SaveGraph
<1>11. ASSUME NEW S, NEW done, RemoveDeletedThrows(S, done) PROVE BoundInv'
  BY <1>1, <1>11 DEF RemoveDeletedThrows
<1>12. ASSUME Flush \/ Search \/ Clear PROVE BoundInv'
  BY <1>1, <1>12 DEF Flush, Search, Clear, SaveGraph
<1>13. ASSUME Close PROVE BoundInv'
  BY <1>1, <1>13 DEF Close, Gone, SaveGraph
<1>14. ASSUME Crash \/ CrashInSave PROVE BoundInv'
  BY <1>1, <1>14 DEF Crash, CrashInSave, Gone
<1>15. ASSUME UNCHANGED vars PROVE BoundInv'
  BY <1>1, <1>15 DEF vars
<1> QED
  BY <1>3, <1>4, <1>5, <1>6, <1>7, <1>8, <1>9, <1>10, <1>11, <1>12, <1>13, <1>14,
     <1>15 DEF Next, AppendAuto, AppendId

\* A step that leaves the vectors alone, or saves them as FlushOutcome does.
LEMMA SavedFrame ==
    ASSUME SavedInv, isOpen, vec' = vec,
           NEW ACTION d, NEW ACTION n, FlushOutcome(vec, d, n)
    PROVE  SavedInv'
<1>1. CASE SaveGraph(vec, d, additions) /\ WritesGraph(vec, additions)
  <2>1. idxState' = "ok" /\ idxVec' = vec
    BY <1>1 DEF SaveGraph
  <2>2. DiskVec' = vec'
    BY <2>1 DEF DiskVec
  <2> QED
    BY <2>2 DEF SavedInv, FewDocs
<1>2. CASE /\ \/ SaveGraph(vec, d, additions) /\ ~WritesGraph(vec, additions)
              \/ dirty_count' = n /\ UNCHANGED <<additions, idxVars>>
  <2>1. additions' = additions /\ DiskVec' = DiskVec
    BY <1>2 DEF SaveGraph, DiskVec, idxVars
  <2> QED
    BY <2>1 DEF SavedInv, FewDocs
<1> QED
  BY <1>1, <1>2 DEF FlushOutcome

LEMMA SavedStep == TypeOK /\ BoundInv /\ SavedInv /\ [Next]_vars => SavedInv'
<1> SUFFICES ASSUME TypeOK, BoundInv, SavedInv, [Next]_vars PROVE SavedInv'
  OBVIOUS
<1> USE DEF memVars, jobVars, sentVars, idxVars, bookVars
<1>1. ASSUME UNCHANGED <<vec, additions, idxVars>>, isOpen' => isOpen
      PROVE  SavedInv'
  BY <1>1 DEF SavedInv, FewDocs, DiskVec
<1>2. ASSUME ~isOpen' PROVE SavedInv'
  BY <1>2 DEF SavedInv
<1>3. ASSUME Open PROVE SavedInv'
  <2>1. vec' = DiskVec /\ DiskVec' = DiskVec
    BY <1>3 DEF Open, DiskVec
  <2> QED
    BY <2>1 DEF SavedInv
<1>4. ASSUME NEW n, NEW sid, BeginAppend(sid, n) PROVE SavedInv'
  BY <1>1, <1>4 DEF BeginAppend
<1>5. ASSUME AppendChunk PROVE SavedInv'
  <2>1. NewLabel \in Labels
    BY <1>5, AllocateLabelType DEF AppendChunk
  <2>2. vec'[NewLabel] # 0 /\ vec' # NoGraph
    BY <1>5, <2>1 DEF AppendChunk, AddPoint, TypeOK, TypeTables, TypeCounters, NoGraph
  <2>3. FewDocs => additions' # 0
    BY <1>5, ConstantsAssumption
       DEF AppendChunk, AddPoint, BoundInv, FewDocs, TypeOK, TypeCounters
  <2> QED
    BY <2>2, <2>3 DEF SavedInv, FewDocs
<1>6. ASSUME AppendRejected \/ AppendFull PROVE SavedInv'
  BY <1>1, <1>6 DEF AppendRejected, AppendFull
<1>7. ASSUME AppendDone PROVE SavedInv'
  <2>1. FlushOutcome(vec, del, dirty_count + 1)
    BY <1>7 DEF AppendDone, FlushIf, FlushOutcome
  <2> QED
    BY <1>7, <2>1, SavedFrame DEF AppendDone
<1>8. ASSUME NEW l \in Labels, Remove(l) \/ Undelete(l) PROVE SavedInv'
  <2>1. FlushOutcome(vec, del', dirty_count + 1)
    BY <1>8 DEF Remove, Undelete, FlushIf, FlushOutcome
  <2> QED
    BY <1>8, <2>1, SavedFrame DEF Remove, Undelete, Idle
<1>9. ASSUME NEW S \in SUBSET Labels, RemoveDeleted(S) PROVE SavedInv'
  <2>1. FlushOutcome(vec, del', dirty_count + Cardinality(S))
    BY <1>9 DEF RemoveDeleted, FlushIf, FlushOutcome
  <2> QED
    BY <1>9, <2>1, SavedFrame DEF RemoveDeleted, Idle
<1>10. ASSUME NEW S, NEW done, RemoveDeletedThrows(S, done) PROVE SavedInv'
  BY <1>1, <1>10 DEF RemoveDeletedThrows
<1>11. ASSUME Flush PROVE SavedInv'
  <2>1. FlushOutcome(vec, del, 0)
    BY <1>11 DEF Flush, FlushOutcome
  <2> QED
    BY <1>11, <2>1, SavedFrame DEF Flush, Idle
<1>12. ASSUME Search PROVE SavedInv'
  BY <1>1, <1>12 DEF Search
<1>13. ASSUME Clear PROVE SavedInv'
  <2>1. vec' = NoGraph /\ DiskVec' = NoGraph
    BY <1>13 DEF Clear, DropImage, DiskVec
  <2> QED
    BY <2>1 DEF SavedInv
<1>14. ASSUME Close \/ Crash \/ CrashInSave PROVE SavedInv'
  BY <1>2, <1>14 DEF Close, Crash, CrashInSave, Gone
<1>15. ASSUME UNCHANGED vars PROVE SavedInv'
  BY <1>1, <1>15 DEF vars
<1> QED
  BY <1>3, <1>4, <1>5, <1>6, <1>7, <1>8, <1>9, <1>10, <1>11, <1>12, <1>13, <1>14,
     <1>15 DEF Next, AppendAuto, AppendId

\* The stored text is never rewritten while the store is not cleared.
LEMMA StoreGrows ==
    ASSUME TypeOK, StoreChunk(docs + 1)
    PROVE  \/ ~sentOpen /\ Store' = Store
           \/ sentOpen /\ Store' = Append(Store, docs + 1)
<1>1. sentBuf \in Seq(1 .. docs) /\ sentFile \in Seq(1 .. docs)
  BY DEF TypeOK, TypeQueues
<1>2. Store \in Seq(1 .. docs)
  BY <1>1 DEF Store
<1>3. CASE ~sentOpen
  BY <1>3 DEF StoreChunk, Store
<1>4. CASE sentFile' = Store /\ sentBuf' = <<docs + 1>> /\ sentOpen
  <2>1. Store \o <<docs + 1>> = Append(Store, docs + 1)
    BY <1>2
  <2> QED
    BY <1>4, <2>1 DEF Store
<1>5. CASE sentFile' = Append(Store, docs + 1) /\ sentBuf' = <<>> /\ sentOpen
  <2>1. Append(Store, docs + 1) \o <<>> = Append(Store, docs + 1)
    BY <1>2
  <2> QED
    BY <1>5, <2>1 DEF Store
<1> QED
  BY <1>3, <1>4, <1>5 DEF StoreChunk

\* Writing the buffer out leaves the text where it is.
LEMMA FlushedStore ==
    ASSUME TypeOK, sentFile' = Store, sentBuf' = <<>>
    PROVE  Store' = Store
<1>1. Store \in Seq(1 .. docs)
  BY DEF TypeOK, TypeQueues, Store
<1>2. Store \o <<>> = Store
  BY <1>1
<1> QED
  BY <1>2 DEF Store

\* A step that changes neither entries nor vectors and only adds text.
LEMMA TextFrame ==
    ASSUME TypeOK, TextInv, CurrentVec' = CurrentVec,
           UNCHANGED <<offs, removed, crashes>>,
           \/ Store' = Store
           \/ Store' = Append(Store, docs + 1)
    PROVE  TextInv'
<1>1. Store \in Seq(1 .. docs)
  BY DEF TypeOK, TypeQueues, Store
<1>2. Len(Store') \in Nat /\ Len(Store) \in Nat /\ Len(Store) <= Len(Store')
  BY <1>1
<1>3. \A i \in 1 .. Len(Store) : Store'[i] = Store[i]
  BY <1>1
<1>4. ASSUME NEW l \in Labels, NamesItsVector(l) PROVE NamesItsVector(l)'
  BY <1>2, <1>3, <1>4 DEF NamesItsVector
<1>5. ASSUME NEW l \in Labels PROVE NamesText(l)' <=> NamesText(l)
  BY DEF NamesText, BadAddress
<1>6. VectorsDiffer' <=> VectorsDiffer
  BY DEF VectorsDiffer
<1> QED
  BY <1>4, <1>5, <1>6 DEF TextInv, FewDocs

\* The vector and the entry of a stored chunk name the same new text.
LEMMA TextOfNewChunk ==
    TypeOK /\ BoundInv /\ TextInv /\ AppendChunk => TextInv'
<1> SUFFICES ASSUME TypeOK, BoundInv, TextInv, AppendChunk, FewDocs, crashes = 0
             PROVE  VectorsDiffer' /\ \A l \in Labels : NamesText(l)' => NamesItsVector(l)'
  BY DEF TextInv, FewDocs, AppendChunk
<1>1. PICK new \in Labels : new = NewLabel
  BY AllocateLabelType DEF AppendChunk
<1>2. Store \in Seq(1 .. docs) /\ docs \in Nat
  BY DEF TypeOK, TypeQueues, TypeCounters, Store
<1>3. vec \in [Labels -> 0 .. docs] /\ offs \in [Labels -> [sid : Nat, at : Nat]]
      /\ removed \subseteq 1 .. docs
  BY DEF TypeOK, TypeTables
<1>4. /\ vec' = [vec EXCEPT ![new] = docs + 1]
      /\ offs' = [offs EXCEPT ![new] = [sid |-> job_sid, at |-> StoreAddress]]
      /\ isOpen /\ isOpen' /\ removed' = removed
  BY <1>1 DEF AppendChunk, AddPoint
<1>5. CurrentVec = vec /\ CurrentVec' = vec'
  BY <1>4 DEF CurrentVec
<1>6. VectorsDiffer /\ \A l \in Labels : NamesText(l) => NamesItsVector(l)
  BY DEF TextInv
<1>7. VectorsDiffer'
  BY <1>1, <1>2, <1>3, <1>4, <1>5, <1>6 DEF VectorsDiffer
<1>8. \/ ~sentOpen /\ Store' = Store
      \/ sentOpen /\ Store' = Append(Store, docs + 1)
  BY StoreGrows DEF AppendChunk
<1>9. /\ Len(Store) \in Nat /\ Len(Store') \in Nat /\ Len(Store) <= Len(Store')
      /\ \A i \in 1 .. Len(Store) : Store'[i] = Store[i]
  BY <1>2, <1>8
<1>10. ASSUME NEW l \in Labels \ {new}, NamesText(l)' PROVE NamesItsVector(l)'
  <2>1. offs'[l] = offs[l] /\ vec'[l] = vec[l]
    BY <1>3, <1>4
  <2>2. NamesItsVector(l)
    BY <1>6, <1>10, <2>1 DEF NamesText, BadAddress
  <2> QED
    BY <1>4, <1>5, <1>9, <2>1, <2>2 DEF NamesItsVector
<1>11. ASSUME NamesText(new)' PROVE NamesItsVector(new)'
  <2>1. offs'[new].at = StoreAddress /\ vec'[new] = docs + 1
    BY <1>1, <1>3, <1>4
  <2>2. sentOpen /\ StoreAddress = Len(Store) + 1
    BY <1>11, <2>1 DEF NamesText, StoreAddress, BadAddress
  <2>3. Len(Store') = Len(Store) + 1 /\ Store'[Len(Store) + 1] = docs + 1
    BY <1>2, <1>8, <2>2
  <2>4. docs + 1 # 0 /\ docs + 1 \notin removed
    BY <1>2, <1>3
  <2> QED
    BY <1>4, <1>5, <1>9, <2>1, <2>2, <2>3, <2>4 DEF NamesItsVector
<1> QED
  BY <1>7, <1>10, <1>11

\* Taking a label's entry out forgets the text of that label and of no other.
LEMMA TextOfRemoved ==
    ASSUME TypeOK, TextInv, NEW l \in Labels, Remove(l)
    PROVE  TextInv'
<1> SUFFICES ASSUME FewDocs, crashes = 0
             PROVE  VectorsDiffer' /\ \A k \in Labels : NamesText(k)' => NamesItsVector(k)'
  BY DEF TextInv, FewDocs, Remove
<1>1. isOpen /\ isOpen' /\ vec' = vec /\ UNCHANGED sentVars
  BY DEF Remove, Idle
<1>2. Store' = Store /\ CurrentVec = vec /\ CurrentVec' = vec
  BY <1>1 DEF Store, CurrentVec, sentVars
<1>3. offs' = [offs EXCEPT ![l] = NoEntry] /\ removed' = removed \cup ({vec[l]} \ {0})
  BY DEF Remove, TakeOut, ZeroEntry
<1>4. VectorsDiffer /\ \A k \in Labels : NamesText(k) => NamesItsVector(k)
  BY DEF TextInv
<1>5. VectorsDiffer'
  BY <1>2, <1>4 DEF VectorsDiffer
<1>6. offs \in [Labels -> [sid : Nat, at : Nat]]
  BY DEF TypeOK, TypeTables
<1>7. ASSUME NEW k \in Labels, NamesText(k)' PROVE NamesItsVector(k)'
  <2>1. k # l
    BY <1>3, <1>6, <1>7 DEF NamesText, NoEntry
  <2>2. offs'[k] = offs[k]
    BY <1>3, <1>6, <2>1
  <2>3. NamesItsVector(k)
    BY <1>4, <1>7, <2>2 DEF NamesText, BadAddress
  <2>4. vec[k] # 0 /\ vec[k] # vec[l]
    BY <1>2, <1>4, <2>1, <2>3 DEF VectorsDiffer, NamesItsVector
  <2> QED
    BY <1>2, <1>3, <2>2, <2>3, <2>4 DEF NamesItsVector
<1> QED
  BY <1>5, <1>7

LEMMA TextStep ==
    TypeOK /\ BoundInv /\ SavedInv /\ TextInv /\ [Next]_vars => TextInv'
<1> SUFFICES ASSUME TypeOK, BoundInv, SavedInv, TextInv, [Next]_vars PROVE TextInv'
  OBVIOUS
<1> USE DEF memVars, jobVars, sentVars, idxVars, bookVars
<1>1. ASSUME isOpen, isOpen', UNCHANGED <<vec, sentBuf, sentFile, offs, removed, crashes>>
      PROVE  TextInv'
  <2>1. CurrentVec' = CurrentVec /\ Store' = Store
    BY <1>1 DEF CurrentVec, Store
  <2> QED
    BY <1>1, <2>1, TextFrame
<1>2. ASSUME crashes' # 0 PROVE TextInv'
  BY <1>2 DEF TextInv
<1>3. ASSUME Open PROVE TextInv'
  <2>1. CurrentVec' = CurrentVec /\ Store' = Store
    BY <1>3 DEF Open, CurrentVec, DiskVec, Store
  <2> QED
    BY <1>3, <2>1, TextFrame DEF Open
<1>4. ASSUME NEW n, NEW sid, BeginAppend(sid, n) PROVE TextInv'
  BY <1>1, <1>4 DEF BeginAppend, Idle
<1>5. ASSUME AppendChunk PROVE TextInv'
  BY <1>5, TextOfNewChunk
<1>6. ASSUME AppendRejected PROVE TextInv'
  <2>1. CurrentVec' = CurrentVec
    BY <1>6 DEF AppendRejected, CurrentVec
  <2>2. Store' = Store \/ Store' = Append(Store, docs + 1)
    BY <1>6, StoreGrows DEF AppendRejected
  <2> QED
    BY <1>6, <2>1, <2>2, TextFrame DEF AppendRejected
<1>7. ASSUME AppendFull \/ AppendDone PROVE TextInv'
  BY <1>1, <1>7 DEF AppendFull, AppendDone
<1>8. ASSUME NEW l \in Labels, Remove(l) PROVE TextInv'
  BY <1>8, TextOfRemoved
<1>9. ASSUME NEW S, NEW done, RemoveDeleted(S) \/ RemoveDeletedThrows(S, done)
      PROVE  TextInv'
  BY <1>1, <1>9 DEF RemoveDeleted, RemoveDeletedThrows, Idle
<1>10. ASSUME NEW l, Undelete(l) \/ Flush PROVE TextInv'
  BY <1>1, <1>10 DEF Undelete, Flush, Idle
<1>11. ASSUME Search PROVE TextInv'
  <2>1. CurrentVec' = CurrentVec
    BY <1>11 DEF Search, Idle, CurrentVec
  <2> QED
    BY <1>11, <2>1, FlushedStore, TextFrame DEF Search
<1>12. ASSUME Clear PROVE TextInv'
  <2>1. \A l \in Labels : CurrentVec'[l] = 0 /\ ~NamesText(l)'
    BY <1>12 DEF Clear, Idle, CurrentVec, NoGraph, NamesText, NoEntry
  <2>2. VectorsDiffer'
    BY <2>1 DEF VectorsDiffer
  <2> QED
    BY <2>1, <2>2 DEF TextInv
<1>13. ASSUME Close PROVE TextInv'
  <2>1. Store' = Store
    BY <1>13, FlushedStore DEF Close, Gone
  <2>2. FewDocs => CurrentVec' = CurrentVec
    <3>1. CurrentVec = vec /\ CurrentVec' = DiskVec'
      BY <1>13 DEF Close, Gone, Idle, CurrentVec
    <3>2. CASE WritesGraph(vec, additions)
      BY <1>13, <3>1, <3>2 DEF Close, SaveGraph, DiskVec
    <3>3. CASE ~WritesGraph(vec, additions)
      <4>1. DiskVec' = DiskVec
        BY <1>13, <3>3 DEF Close, SaveGraph, DiskVec
      <4>2. additions = 0 \/ vec = NoGraph
        BY <3>3 DEF WritesGraph, TypeOK, TypeTables, TypeCounters, NoGraph
      <4> QED
        BY <1>13, <3>1, <4>1, <4>2 DEF SavedInv, Close, Idle
    <3> QED
      BY <3>2, <3>3
  <2>3. CASE FewDocs
    BY <1>13, <2>1, <2>2, <2>3, TextFrame DEF Close
  <2>4. CASE ~FewDocs
    BY <2>4 DEF TextInv, FewDocs
  <2> QED
    BY <2>3, <2>4
<1>14. ASSUME Crash \/ CrashInSave PROVE TextInv'
  BY <1>2, <1>14 DEF Crash, CrashInSave, TypeOK, TypeCounters
<1>15. ASSUME UNCHANGED vars PROVE TextInv'
  <2>1. CurrentVec' = CurrentVec /\ Store' = Store
    BY <1>15 DEF vars, CurrentVec, DiskVec, Store
  <2> QED
    BY <1>15, <2>1, TextFrame DEF vars
<1> QED
  BY <1>3, <1>4, <1>5, <1>6, <1>7, <1>8, <1>9, <1>10, <1>11, <1>12, <1>13, <1>14,
     <1>15 DEF Next, AppendAuto, AppendId

IInv == TypeOK /\ BoundInv /\ SavedInv /\ TextInv

LEMMA Invariance == Spec => []IInv
<1>1. ASSUME Init PROVE IInv
  <2>1. TypeOK
    BY <1>1, InitType
  <2>2. BoundInv /\ SavedInv
    BY <1>1, ConstantsAssumption DEF Init, BoundInv, SavedInv
  <2>3. TextInv
    BY <1>1 DEF Init, TextInv, VectorsDiffer, NamesText, NoEntry, CurrentVec,
                DiskVec, NoGraph
  <2> QED
    BY <2>1, <2>2, <2>3 DEF IInv
<1>2. IInv /\ [Next]_vars => IInv'
  BY TypeStep, BoundStep, SavedStep, TextStep DEF IInv
<1> QED
  BY <1>1, <1>2, PTL DEF Spec

\* However often the shard is opened, whatever is removed, undeleted, flushed,
\* searched and cleared, and in whatever order: while the process does not
\* crash and the graph's own flush is not reached, the text an entry names is
\* that of the vector the graph holds under the entry's label.
THEOREM TextMatchesVectorHolds == Spec => []TextMatchesVector
<1>1. IInv => TextMatchesVector
  BY DEF IInv, TextInv, FewDocs, TextMatchesVector, NamesItsVector
<1> QED
  BY <1>1, Invariance, PTL

\* A graph that saveIndex leaves unsaved has the vectors of its image, over
\* any number of sessions, crashes and interrupted saves.
THEOREM NothingToSaveIsSavedHolds == Spec => []NothingToSaveIsSaved
<1>1. IInv => NothingToSaveIsSaved
  BY DEF IInv, SavedInv, FewDocs, NothingToSaveIsSaved
<1> QED
  BY <1>1, Invariance, PTL

\* The text of a chunk taken out with remove(label) is named by no entry again.
THEOREM RemovedIsForgottenHolds == Spec => []RemovedIsForgotten
<1>1. IInv => RemovedIsForgotten
  BY DEF IInv, TextInv, FewDocs, RemovedIsForgotten, NamesItsVector
<1> QED
  BY <1>1, Invariance, PTL

-----------------------------------------------------------------------------
(* The label allocator.                                                    *)

\* Steps that hand out and recycle no label, and revive none.
LEMMA AccountedFrame ==
    ASSUME TypeOK, Accounted, isOpen, UNCHANGED <<free_labels, next_label, vec, offs>>,
           del \subseteq del'
    PROVE  Accounted'
<1>1. QueuedOnce /\ QueuedDead /\ UntouchedEmpty
  BY DEF Accounted
<1>2. QueuedOnce' /\ UntouchedEmpty'
  BY <1>1 DEF QueuedOnce, UntouchedEmpty
<1>3. QueuedDead'
  BY <1>1 DEF QueuedDead
<1> QED
  BY <1>2, <1>3 DEF Accounted

\* allocate_label hands out a label that is dead and without an entry, once.
LEMMA AllocatedLabelIsFree ==
    ASSUME TypeOK, Accounted, isOpen, ~CannotAllocate, AllocateLabel
    PROVE  /\ NewLabel \in Labels
           /\ vec[NewLabel] # 0 => NewLabel \in del
           /\ offs[NewLabel].sid = 0
           /\ NewLabel < next_label'
           /\ next_label <= next_label'
           /\ \A i \in DOMAIN free_labels' : free_labels'[i] # NewLabel
           /\ QueuedOnce'
           /\ \A i \in DOMAIN free_labels' :
                 \E j \in DOMAIN free_labels : free_labels'[i] = free_labels[j]
<1>1. QueuedOnce /\ QueuedDead /\ UntouchedEmpty /\ NewLabel \in Labels
  BY AllocateLabelType DEF Accounted
<1>2. free_labels \in Seq(Labels) /\ next_label \in Nat
  BY DEF TypeOK, TypeQueues, TypeCounters
<1>3. CASE free_labels = <<>>
  <2>1. NewLabel = next_label /\ next_label' = next_label + 1 /\ free_labels' = <<>>
    BY <1>3 DEF AllocateLabel, NewLabel
  <2> QED
    BY <1>1, <1>2, <2>1 DEF UntouchedEmpty, QueuedOnce
<1>4. CASE free_labels # <<>>
  <2>1. /\ NewLabel = free_labels[1] /\ next_label' = next_label
        /\ free_labels' = Tail(free_labels) /\ 1 \in DOMAIN free_labels
    BY <1>2, <1>4 DEF AllocateLabel, NewLabel
  <2>2. \A i \in DOMAIN free_labels' :
           /\ i \in Nat /\ i + 1 # 1
           /\ i + 1 \in DOMAIN free_labels
           /\ free_labels'[i] = free_labels[i + 1]
    BY <1>2, <2>1
  <2>3. QueuedOnce'
    <3> SUFFICES ASSUME NEW i \in DOMAIN free_labels', NEW j \in DOMAIN free_labels',
                        free_labels'[i] = free_labels'[j]
                 PROVE  i = j
      BY DEF QueuedOnce
    <3>1. i + 1 = j + 1
      BY <1>1, <2>2 DEF QueuedOnce
    <3> QED
      BY <2>2, <3>1
  <2>4. \A i \in DOMAIN free_labels' : free_labels'[i] # NewLabel
    BY <1>1, <2>1, <2>2 DEF QueuedOnce
  <2>5. /\ NewLabel < next_label
        /\ vec[NewLabel] # 0 => NewLabel \in del
        /\ offs[NewLabel].sid = 0
    BY <1>1, <2>1 DEF QueuedDead
  <2> QED
    BY <1>1, <1>2, <2>1, <2>2, <2>3, <2>4, <2>5
<1> QED
  BY <1>3, <1>4

\* The label handed out stays out of the queue, whatever append does with it.
LEMMA AccountedAllocate ==
    ASSUME TypeOK, Accounted, isOpen, ~CannotAllocate, AllocateLabel,
           \A l \in Labels \ {NewLabel} :
              /\ vec'[l] = vec[l] /\ offs'[l] = offs[l]
              /\ l \in del => l \in del'
    PROVE  Accounted'
<1>1. PICK new \in Labels : new = NewLabel
  BY AllocatedLabelIsFree
<1>2. QueuedOnce /\ QueuedDead /\ UntouchedEmpty
  BY DEF Accounted
<1>3. QueuedOnce'
  BY AllocatedLabelIsFree
<1>4. free_labels \in Seq(Labels) /\ next_label \in Nat /\ next_label' \in Nat
  BY AllocateLabelType DEF TypeOK, TypeQueues, TypeCounters
<1>5. next_label <= next_label' /\ new < next_label'
  BY <1>1, AllocatedLabelIsFree
<1>6. QueuedDead'
  <2> SUFFICES ASSUME NEW i \in DOMAIN free_labels'
               PROVE  /\ free_labels'[i] < next_label'
                      /\ vec'[free_labels'[i]] # 0 => free_labels'[i] \in del'
                      /\ offs'[free_labels'[i]].sid = 0
    BY DEF QueuedDead
  <2>1. PICK j \in DOMAIN free_labels : free_labels'[i] = free_labels[j]
    BY AllocatedLabelIsFree
  <2>2. PICK l \in Labels : l = free_labels[j] /\ l = free_labels'[i] /\ l # new
    BY <1>1, <1>4, <2>1, AllocatedLabelIsFree
  <2>3. l < next_label /\ (vec[l] # 0 => l \in del) /\ offs[l].sid = 0
    BY <1>2, <2>2 DEF QueuedDead
  <2>4. vec'[l] = vec[l] /\ offs'[l] = offs[l] /\ (l \in del => l \in del')
    BY <1>1, <2>2
  <2>5. l \in Nat
    BY ConstantsAssumption DEF Labels
  <2> QED
    BY <1>4, <1>5, <2>2, <2>3, <2>4, <2>5
<1>7. UntouchedEmpty'
  <2> SUFFICES ASSUME NEW l \in Labels, l >= next_label'
               PROVE  vec'[l] = 0 /\ offs'[l].sid = 0
    BY DEF UntouchedEmpty
  <2>1. l # new /\ l >= next_label
    BY <1>4, <1>5, ConstantsAssumption DEF Labels
  <2> QED
    BY <1>1, <1>2, <2>1 DEF UntouchedEmpty
<1> QED
  BY <1>3, <1>6, <1>7 DEF Accounted

\* A label taken out of a graph is live, so it is in the queue only once.
LEMMA AccountedRemove ==
    ASSUME TypeOK, Accounted, hasGraph, NEW l \in Labels, Remove(l)
    PROVE  Accounted'
<1>1. /\ isOpen /\ vec[l] # 0 /\ l \notin del /\ vec' = vec /\ next_label' = next_label
      /\ del' = del \cup {l} /\ free_labels' = Append(free_labels, l)
      /\ offs' = [offs EXCEPT ![l] = NoEntry]
  BY DEF Remove, Removable, TakeOut, ZeroEntry, Idle
<1>2. QueuedOnce /\ QueuedDead /\ UntouchedEmpty
  BY <1>1 DEF Accounted
<1>3. free_labels \in Seq(Labels) /\ next_label \in Nat /\ l \in Nat
      /\ offs \in [Labels -> [sid : Nat, at : Nat]]
  <2>1. free_labels \in Seq(Labels) /\ offs \in [Labels -> [sid : Nat, at : Nat]]
    BY DEF TypeOK, TypeQueues, TypeTables
  <2>2. next_label \in Nat /\ l \in Nat
    BY ConstantsAssumption DEF TypeOK, TypeCounters, Labels
  <2> QED
    BY <2>1, <2>2
<1>4. l < next_label
  BY <1>1, <1>2, <1>3 DEF UntouchedEmpty
<1>5. /\ DOMAIN free_labels' = 1 .. Len(free_labels) + 1
      /\ \A i \in DOMAIN free_labels : free_labels'[i] = free_labels[i]
      /\ free_labels'[Len(free_labels) + 1] = l
      /\ DOMAIN free_labels = 1 .. Len(free_labels) /\ Len(free_labels) \in Nat
  BY <1>1, <1>3
<1>6. \A i \in DOMAIN free_labels : free_labels[i] \in Labels \ {l}
  BY <1>1, <1>2, <1>3 DEF QueuedDead
<1>7. QueuedOnce'
  BY <1>2, <1>5, <1>6 DEF QueuedOnce
<1>8. /\ \A k \in Labels : offs[k].sid = 0 => offs'[k].sid = 0
      /\ offs'[l].sid = 0
  BY <1>1, <1>3 DEF NoEntry
<1>9. QueuedDead'
  <2> SUFFICES ASSUME NEW i \in DOMAIN free_labels'
               PROVE  /\ free_labels'[i] < next_label'
                      /\ vec'[free_labels'[i]] # 0 => free_labels'[i] \in del'
                      /\ offs'[free_labels'[i]].sid = 0
    BY DEF QueuedDead
  <2>1. CASE i \in DOMAIN free_labels
    BY <1>1, <1>2, <1>5, <1>6, <1>8, <2>1 DEF QueuedDead
  <2>2. CASE i = Len(free_labels) + 1
    BY <1>1, <1>4, <1>5, <1>8, <2>2
  <2> QED
    BY <1>5, <2>1, <2>2
<1>10. UntouchedEmpty'
  BY <1>1, <1>2, <1>8 DEF UntouchedEmpty
<1> QED
  BY <1>7, <1>9, <1>10 DEF Accounted

LEMMA AccountedStep ==
    ASSUME TypeOK, Accounted, [Next]_vars, ~Open,
           \A l \in Labels : ~Undelete(l) /\ (hasGraph \/ ~Remove(l))
    PROVE  Accounted'
<1> USE DEF memVars, jobVars, sentVars, idxVars, bookVars
<1>1. ASSUME ~isOpen' PROVE Accounted'
  BY <1>1 DEF Accounted
<1>2. ASSUME NEW n, NEW sid, BeginAppend(sid, n) PROVE Accounted'
  BY <1>2, AccountedFrame DEF BeginAppend, Idle
<1>3. ASSUME AppendChunk PROVE Accounted'
  <2>1. NewLabel \in Labels /\ vec \in [Labels -> 0 .. docs]
        /\ offs \in [Labels -> [sid : Nat, at : Nat]]
    BY <1>3, AllocateLabelType DEF AppendChunk, AddPoint, TypeOK, TypeTables
  <2>2. \A l \in Labels \ {NewLabel} :
           /\ vec'[l] = vec[l] /\ offs'[l] = offs[l]
           /\ l \in del => l \in del'
    BY <1>3, <2>1 DEF AppendChunk, AddPoint
  <2> QED
    BY <1>3, <2>2, AccountedAllocate DEF AppendChunk
<1>4. ASSUME AppendRejected PROVE Accounted'
  BY <1>4, AccountedAllocate DEF AppendRejected
<1>5. ASSUME AppendFull \/ AppendDone PROVE Accounted'
  BY <1>5, AccountedFrame DEF AppendFull, AppendDone
<1>6. ASSUME NEW l \in Labels, Remove(l) PROVE Accounted'
  BY <1>6, AccountedRemove
<1>7. ASSUME NEW S, NEW done, RemoveDeleted(S) \/ RemoveDeletedThrows(S, done)
      PROVE  Accounted'
  BY <1>7, AccountedFrame DEF RemoveDeleted, RemoveDeletedThrows, Idle
<1>8. ASSUME Flush \/ Search PROVE Accounted'
  BY <1>8, AccountedFrame DEF Flush, Search, Idle
<1>9. ASSUME Clear PROVE Accounted'
  <2>1. QueuedOnce' /\ QueuedDead'
    BY <1>9 DEF Clear, QueuedOnce, QueuedDead
  <2>2. UntouchedEmpty'
    BY <1>9 DEF Clear, UntouchedEmpty, NoGraph, NoEntry
  <2> QED
    BY <2>1, <2>2 DEF Accounted
<1>10. ASSUME Close \/ Crash \/ CrashInSave PROVE Accounted'
  BY <1>1, <1>10 DEF Close, Crash, CrashInSave, Gone
<1>11. ASSUME UNCHANGED vars PROVE Accounted'
  BY <1>11 DEF vars, Accounted, QueuedOnce, QueuedDead, UntouchedEmpty
<1> QED
  BY <1>2, <1>3, <1>4, <1>5, <1>6, <1>7, <1>8, <1>9, <1>10, <1>11
     DEF Next, AppendAuto, AppendId

\* Only opening an existing shard, undelete, and remove without a graph can
\* make the allocator lose account of its labels.
THEOREM AccountingLostHolds == Spec => AccountingLost
<1>1. TypeOK /\ [Next]_vars =>
         [Accounted /\ ~Accounted' =>
             \/ Open
             \/ \E l \in Labels : Undelete(l)
             \/ ~hasGraph /\ \E l \in Labels : Remove(l)]_vars
  BY AccountedStep
<1> QED
  BY <1>1, TypeCorrect, PTL DEF Spec, AccountingLost

\* While the labels are accounted for, append overwrites neither a vector that
\* a search can return nor an entry in use.
THEOREM LiveLabelsNotReusedHolds == Spec => LiveLabelsNotReused
<1> USE DEF memVars, jobVars, sentVars, idxVars, bookVars
<1> DEFINE Kept == \A l \in Labels : /\ vec[l] # 0 /\ l \notin del => vec'[l] = vec[l]
                                     /\ offs[l].sid # 0 => offs'[l] = offs[l]
<1>1. ASSUME TypeOK, Next, Accounted, busy, isOpen' PROVE Kept
  <2>1. CASE AppendChunk
    <3>1. /\ vec[NewLabel] # 0 => NewLabel \in del
          /\ offs[NewLabel].sid = 0 /\ NewLabel \in Labels
      BY <1>1, <2>1, AllocatedLabelIsFree DEF AppendChunk
    <3>2. vec \in [Labels -> 0 .. docs] /\ offs \in [Labels -> [sid : Nat, at : Nat]]
      BY <1>1 DEF TypeOK, TypeTables
    <3> QED
      BY <2>1, <3>1, <3>2 DEF AppendChunk, AddPoint
  <2>2. CASE AppendRejected \/ AppendFull \/ AppendDone
    BY <2>2 DEF AppendRejected, AppendFull, AppendDone
  <2>3. ~Idle /\ ~Open /\ ~Crash /\ ~CrashInSave
    BY <1>1 DEF Idle, Open, Crash, CrashInSave, Gone, TypeOK, TypeFlags
  <2> QED
    BY <1>1, <2>1, <2>2, <2>3
       DEF Next, AppendAuto, AppendId, BeginAppend, Remove, Undelete, RemoveDeleted,
           RemoveDeletedThrows, Flush, Search, Clear, Close
<1>2. TypeOK /\ [Next]_vars => [Accounted /\ busy /\ isOpen' => Kept]_vars
  BY <1>1
<1> QED
  BY <1>2, TypeCorrect, PTL DEF Spec, LiveLabelsNotReused

-----------------------------------------------------------------------------
(* Sentence ids.                                                           *)

LEMMA LargestStep ==
    ASSUME TypeOK, Next, LargestKnown,
           ~(auto_sentence_id = 0 /\ \E sid \in Sids, n \in 0 .. MaxChunks : AppendId(sid, n))
    PROVE  LargestKnown'
<1> USE ConstantsAssumption
    DEF LargestKnown, memVars, jobVars, sentVars, idxVars, bookVars
<1>1. /\ \A l \in Labels : offs[l].sid \in Nat
      /\ auto_sentence_id \in Nat /\ job_sid \in Nat
      /\ offs \in [Labels -> [sid : Nat, at : Nat]]
  BY DEF TypeOK, TypeTables, TypeFlags, TypeCounters
<1>2. ASSUME ~isOpen' \/ auto_sentence_id' = 0 PROVE LargestKnown'
  BY <1>2
<1>3. ASSUME UNCHANGED <<isOpen, auto_sentence_id, offs>>,
             busy' => UNCHANGED <<busy, job_sid>>
      PROVE  LargestKnown'
  BY <1>3
<1>4. CASE \E n \in 0 .. MaxChunks : AppendAuto(n)
  BY <1>1, <1>4 DEF AppendAuto, BeginAppend, LargestSid, Idle
<1>5. ASSUME NEW sid \in Sids, NEW n \in 0 .. MaxChunks, AppendId(sid, n)
      PROVE  LargestKnown'
  BY <1>1, <1>5 DEF AppendId, BeginAppend, Idle
<1>6. CASE AppendChunk
  <2>1. \A l \in Labels : offs'[l].sid \in {offs[l].sid, job_sid}
    BY <1>1, <1>6 DEF AppendChunk
  <2> QED
    BY <1>1, <1>6, <2>1 DEF AppendChunk, AllocateLabel
<1>7. ASSUME NEW l \in Labels, Remove(l) PROVE LargestKnown'
  <2>1. \A k \in Labels : offs'[k].sid \in {offs[k].sid, 0}
    BY <1>1, <1>7 DEF Remove, TakeOut, ZeroEntry, NoEntry
  <2> QED
    BY <1>1, <1>7, <2>1 DEF Remove, FlushIf
<1> HIDE DEF LargestKnown
<1> QED
  BY <1>2, <1>3, <1>4, <1>5, <1>6, <1>7
     DEF Next, Open, AppendRejected, AppendFull, AppendDone, Undelete, RemoveDeleted,
         RemoveDeletedThrows, Flush, Search, Clear, Close, Crash, CrashInSave, Gone,
         Idle, FlushIf, AllocateLabel

\* An automatic id repeats one of an earlier sentence only in a session whose
\* first append came with an id of the caller's.
THEOREM LargestSidLostHolds == Spec => LargestSidLost
<1>1. TypeOK /\ [Next]_vars =>
          [LargestKnown /\ ~LargestKnown' =>
              auto_sentence_id = 0 /\ \E sid \in Sids, n \in 0 .. MaxChunks : AppendId(sid, n)]_vars
  BY LargestStep
<1> QED
  BY <1>1, TypeCorrect, PTL DEF Spec, LargestSidLost
=============================================================================
