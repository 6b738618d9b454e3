------------------------ MODULE ParallelMerge_proofs ------------------------
(***************************************************************************)
(* For any number of workers and texts, each way in which a parallel merge *)
(* can go wrong needs two workers in the same few statements of append.    *)
(***************************************************************************)
EXTENDS ParallelMerge, FiniteSetTheorems, SequenceTheorems, TLAPS

-----------------------------------------------------------------------------
(* The stages of an append, and how many workers are in them.              *)

Unlabelled == {"sid", "label", "bump"}
Unwritten == Unlabelled \cup {"seek", "write"}
Uncounted == Unwritten \cup {"graph", "create", "insert", "count", "counted"}
InText == Uncounted \cup {"entry"}
Written == {"graph", "create", "insert", "count", "counted", "entry"}
Placed == Written \cup {"seek", "write"}
Fresh == {"seek", "write", "graph", "create", "insert"}
Inserted == {"count", "counted", "entry"}

At(P) == {w \in Workers : pc[w] \in P}

\* A worker in one of the places is counted there.
LEMMA Counted ==
    ASSUME TypeOK, NEW P
    PROVE  /\ Cardinality(At(P)) \in Nat /\ IsFiniteSet(At(P))
           /\ \A w \in Workers : pc[w] \in P => Cardinality(At(P)) >= 1
<1>1. IsFiniteSet(Workers) /\ At(P) \in SUBSET Workers
  BY ConstantsAssumption DEF At
<1>2. IsFiniteSet(At(P)) /\ Cardinality(At(P)) \in Nat
  BY <1>1, FS_Subset, FS_CardinalityType
<1>3. ASSUME NEW w \in Workers, pc[w] \in P PROVE Cardinality(At(P)) >= 1
  <2>1. At(P) # {}
    BY <1>3 DEF At
  <2> QED
    BY <1>2, <2>1, FS_EmptySet
<1> QED
  BY <1>2, <1>3

\* One worker goes to another place.
LEMMA Moved ==
    ASSUME TypeOK, NEW w \in Workers, NEW place, Go(w, place), NEW P
    PROVE  Cardinality(At(P)') = Cardinality(At(P)) + (IF place \in P THEN 1 ELSE 0)
                                                    - (IF pc[w] \in P THEN 1 ELSE 0)
<1>1. IsFiniteSet(At(P)) /\ Cardinality(At(P)) \in Nat
  BY Counted
<1>2. At(P)' = IF place \in P THEN At(P) \cup {w} ELSE At(P) \ {w}
  BY DEF At, Go, TypeOK
<1>3. w \in At(P) <=> pc[w] \in P
  BY DEF At
<1>4. /\ Cardinality(At(P) \cup {w}) = IF w \in At(P) THEN Cardinality(At(P)) ELSE Cardinality(At(P)) + 1
      /\ Cardinality(At(P) \ {w}) = IF w \in At(P) THEN Cardinality(At(P)) - 1 ELSE Cardinality(At(P))
  BY <1>1, FS_AddElement, FS_RemoveElement
<1> QED
  BY <1>1, <1>2, <1>3, <1>4

-----------------------------------------------------------------------------
(* Room: nobody goes beyond the texts there are.                           *)

\* The text of an append.
ItemInv == \A w \in Workers : pc[w] \in InText => item[w] \in 1 .. taken

\* Labels given out, and those still to come, are no more than the texts taken.
LabelRoom ==
    /\ next_label + Cardinality(At(Unlabelled)) <= taken
    /\ \A w \in Workers : pc[w] = "bump" =>
          register[w] \in Nat /\ register[w] + Cardinality(At(Unlabelled)) <= taken

\* The same of the sentence file.
TextRoom == Len(sentences) + Cardinality(At(Unwritten)) <= taken

\* Each worker creates one graph at most.
GraphRoom == graph + Cardinality(At({"create"})) <= Cardinality(Workers)

\* Who leaves, leaves nothing to do; and the merge goes on when all have left.
PhaseInv ==
    /\ \A w \in Workers : pc[w] = "exit" => taken = Len(Sids)
    /\ phase \in {"flush", "done"} => \A w \in Workers : pc[w] = "exit"

RoomInv == ItemInv /\ LabelRoom /\ TextRoom /\ GraphRoom /\ PhaseInv

\* The types in four parts.
TypeWork ==
    /\ phase \in {"work", "flush", "done", "dead"} /\ taken \in 0 .. Len(Sids)
    /\ pc \in [Workers -> Places] /\ item \in [Workers -> 0 .. Len(Sids)]
    /\ saves \in 0 .. MaxSaves
    /\ raced \subseteq {"sid", "label", "text", "graph", "count", "save"}
TypeText ==
    /\ label \in [Workers -> Labels \cup {0}] /\ pos \in [Workers -> 0 .. Len(Sids)]
    /\ auto_sentence_id \in Nat /\ next_label \in 0 .. Len(Sids)
    /\ sentences \in Seq(Items) /\ Len(sentences) <= Len(Sids)
    /\ entries \in [Labels -> [item : 0 .. Len(Sids), pos : 0 .. Len(Sids)]]
TypeNumbers ==
    /\ register \in [Workers -> Int] /\ mine \in [Workers -> Nat] /\ snap \in [Workers -> Int]
    /\ additions \in Int
TypeGraph ==
    /\ graph \in 0 .. Cardinality(Workers) /\ vec \in [Labels -> 0 .. Len(Sids)]
    /\ image \in [Labels -> 0 .. Len(Sids)] \cup {Torn}
    /\ disturbed \subseteq Savers

LEMMA TypeParts == TypeOK <=> TypeWork /\ TypeText /\ TypeNumbers /\ TypeGraph
  BY DEF TypeOK, TypeWork, TypeText, TypeNumbers, TypeGraph

\* What the steps of a worker have in hand.
LEMMA InHand ==
    ASSUME TypeOK, RoomInv, NEW w \in Workers
    PROVE  /\ Len(Sids) \in Nat /\ Sids \in [1 .. Len(Sids) -> Nat \ {0}] /\ Items = 1 .. Len(Sids)
           /\ taken \in Nat /\ taken <= Len(Sids)
           /\ pc[w] \in InText => item[w] \in Items /\ item[w] <= taken /\ label[w] \in Labels
           /\ pc[w] = "bump" => register[w] \in Nat /\ register[w] + 1 <= taken
           /\ pc[w] \in Unwritten => Len(sentences) \in Nat /\ Len(sentences) + 1 <= taken
           /\ pc[w] = "create" => graph + 1 <= Cardinality(Workers)
<1>1. Len(Sids) \in Nat /\ Sids \in [1 .. Len(Sids) -> Nat \ {0}] /\ Items = 1 .. Len(Sids)
  BY ConstantsAssumption, LenProperties DEF Items
<1>2. taken \in Nat /\ taken <= Len(Sids)
  BY <1>1, TypeParts DEF TypeWork
<1>3. pc[w] \in InText => item[w] \in Items /\ item[w] <= taken
  BY <1>1, <1>2 DEF RoomInv, ItemInv
<1>4. pc[w] \in InText => label[w] \in Labels
  BY <1>1, <1>2, <1>3, TypeParts DEF TypeText, Labels
<1>5. \A P : /\ Cardinality(At(P)) \in Nat
             /\ pc[w] \in P => Cardinality(At(P)) >= 1
  BY Counted
<1>6. pc[w] = "bump" => register[w] \in Nat /\ register[w] + 1 <= taken
  BY <1>2, <1>5 DEF RoomInv, LabelRoom, Unlabelled
<1>7. pc[w] \in Unwritten => Len(sentences) \in Nat /\ Len(sentences) + 1 <= taken
  BY <1>2, <1>5, TypeParts, LenProperties DEF RoomInv, TextRoom, TypeText
<1>8. pc[w] = "create" => graph + 1 <= Cardinality(Workers)
  <2>1. Cardinality(At({"create"})) \in Nat /\ (pc[w] = "create" => Cardinality(At({"create"})) >= 1)
    BY <1>5
  <2>2. graph \in Nat /\ Cardinality(Workers) \in Nat
    BY ConstantsAssumption, FS_CardinalityType, TypeParts DEF TypeGraph
  <2> QED
    BY <2>1, <2>2 DEF RoomInv, GraphRoom
<1> QED
  BY <1>1, <1>2, <1>3, <1>4, <1>6, <1>7, <1>8

\* No step leaves the types.
LEMMA TypeStep ==
    ASSUME TypeOK, RoomInv, Next
    PROVE  TypeOK'
<1> SUFFICES TypeWork' /\ TypeText' /\ TypeNumbers' /\ TypeGraph'
  BY TypeParts DEF TypeOK, TypeWork, TypeText, TypeNumbers, TypeGraph
<1>0. TypeWork /\ TypeText /\ TypeNumbers /\ TypeGraph
  BY TypeParts
<1> USE DEF work, local, text, index, saving, InText, Uncounted, Unwritten, Unlabelled
<1>1. ASSUME NEW w \in Workers, Take(w) PROVE TypeWork' /\ TypeText' /\ TypeNumbers' /\ TypeGraph'
  <2>1. TypeWork'
    BY <1>0, <1>1, InHand DEF Take, Go, Meet, TypeWork, Places
  <2>2. TypeText'
    BY <1>0, <1>1, InHand DEF Take, Go, TypeText, TypeWork
  <2>3. TypeNumbers'
    BY <1>0, <1>1, InHand DEF Take, Go, TypeNumbers, TypeText
  <2>4. TypeGraph'
    BY <1>0, <1>1, InHand DEF Take, Go, TypeGraph, TypeWork, TypeText, Savers
  <2> QED
    BY <2>1, <2>2, <2>3, <2>4
<1>2. ASSUME NEW w \in Workers, Exit(w) PROVE TypeWork' /\ TypeText' /\ TypeNumbers' /\ TypeGraph'
  <2>1. TypeWork'
    BY <1>0, <1>2, InHand DEF Exit, Go, Meet, TypeWork, Places
  <2>2. TypeText'
    BY <1>0, <1>2, InHand DEF Exit, Go, TypeText, TypeWork
  <2>3. TypeNumbers'
    BY <1>0, <1>2, InHand DEF Exit, Go, TypeNumbers, TypeText
  <2>4. TypeGraph'
    BY <1>0, <1>2, InHand DEF Exit, Go, TypeGraph, TypeWork, TypeText, Savers
  <2> QED
    BY <2>1, <2>2, <2>3, <2>4
<1>3. ASSUME NEW w \in Workers, NoteSid(w) PROVE TypeWork' /\ TypeText' /\ TypeNumbers' /\ TypeGraph'
  <2>1. TypeWork'
    BY <1>0, <1>3, InHand DEF NoteSid, Go, Meet, TypeWork, Places
  <2>2. TypeText'
    BY <1>0, <1>3, InHand DEF NoteSid, Go, TypeText, TypeWork
  <2>3. TypeNumbers'
    BY <1>0, <1>3, InHand DEF NoteSid, Go, TypeNumbers, TypeText
  <2>4. TypeGraph'
    BY <1>0, <1>3, InHand DEF NoteSid, Go, TypeGraph, TypeWork, TypeText, Savers
  <2> QED
    BY <2>1, <2>2, <2>3, <2>4
<1>4. ASSUME NEW w \in Workers, ReadLabel(w) PROVE TypeWork' /\ TypeText' /\ TypeNumbers' /\ TypeGraph'
  <2>1. TypeWork'
    BY <1>0, <1>4, InHand DEF ReadLabel, Go, Meet, TypeWork, Places
  <2>2. TypeText'
    BY <1>0, <1>4, InHand DEF ReadLabel, Go, TypeText, TypeWork
  <2>3. TypeNumbers'
    BY <1>0, <1>4, InHand DEF ReadLabel, Go, TypeNumbers, TypeText
  <2>4. TypeGraph'
    BY <1>0, <1>4, InHand DEF ReadLabel, Go, TypeGraph, TypeWork, TypeText, Savers
  <2> QED
    BY <2>1, <2>2, <2>3, <2>4
<1>5. ASSUME NEW w \in Workers, WriteLabel(w) PROVE TypeWork' /\ TypeText' /\ TypeNumbers' /\ TypeGraph'
  <2>1. TypeWork'
    BY <1>0, <1>5, InHand DEF WriteLabel, Go, Bump, Meet, TypeWork, Places
  <2>2. TypeText'
    <3>1. register[w] \in Nat /\ register[w] + 1 <= Len(Sids) /\ Len(Sids) \in Nat
      BY <1>5, InHand DEF WriteLabel
    <3> QED
      BY <1>0, <1>5, <3>1 DEF WriteLabel, Bump, TypeText, Labels
  <2>3. TypeNumbers'
    BY <1>0, <1>5, InHand DEF WriteLabel, Go, Bump, TypeNumbers, TypeText
  <2>4. TypeGraph'
    BY <1>0, <1>5, InHand DEF WriteLabel, Go, Bump, TypeGraph, TypeWork, TypeText, Savers
  <2> QED
    BY <2>1, <2>2, <2>3, <2>4
<1>6. ASSUME NEW w \in Workers, Seek(w) PROVE TypeWork' /\ TypeText' /\ TypeNumbers' /\ TypeGraph'
  <2>1. TypeWork'
    BY <1>0, <1>6, InHand DEF Seek, Go, Meet, TypeWork, Places
  <2>2. TypeText'
    BY <1>0, <1>6, InHand DEF Seek, Go, TypeText, TypeWork
  <2>3. TypeNumbers'
    BY <1>0, <1>6, InHand DEF Seek, Go, TypeNumbers, TypeText
  <2>4. TypeGraph'
    BY <1>0, <1>6, InHand DEF Seek, Go, TypeGraph, TypeWork, TypeText, Savers
  <2> QED
    BY <2>1, <2>2, <2>3, <2>4
<1>7. ASSUME NEW w \in Workers, Write(w) PROVE TypeWork' /\ TypeText' /\ TypeNumbers' /\ TypeGraph'
  <2>1. TypeWork'
    BY <1>0, <1>7, InHand DEF Write, Go, Meet, TypeWork, Places
  <2>2. TypeText'
    BY <1>0, <1>7, InHand DEF Write, Go, TypeText, TypeWork
  <2>3. TypeNumbers'
    BY <1>0, <1>7, InHand DEF Write, Go, TypeNumbers, TypeText
  <2>4. TypeGraph'
    BY <1>0, <1>7, InHand DEF Write, Go, TypeGraph, TypeWork, TypeText, Savers
  <2> QED
    BY <2>1, <2>2, <2>3, <2>4
<1>8. ASSUME NEW w \in Workers, FindGraph(w) PROVE TypeWork' /\ TypeText' /\ TypeNumbers' /\ TypeGraph'
  <2>1. TypeWork'
    BY <1>0, <1>8, InHand DEF FindGraph, Go, Meet, TypeWork, Places
  <2>2. TypeText'
    BY <1>0, <1>8, InHand DEF FindGraph, Go, TypeText, TypeWork
  <2>3. TypeNumbers'
    BY <1>0, <1>8 DEF FindGraph, TypeNumbers, TypeGraph
  <2>4. TypeGraph'
    BY <1>0, <1>8, InHand DEF FindGraph, Go, TypeGraph, TypeWork, TypeText, Savers
  <2> QED
    BY <2>1, <2>2, <2>3, <2>4
<1>9. ASSUME NEW w \in Workers, CreateGraph(w) PROVE TypeWork' /\ TypeText' /\ TypeNumbers' /\ TypeGraph'
  <2>1. TypeWork'
    BY <1>0, <1>9, InHand DEF CreateGraph, Go, Nothing, Meet, TypeWork, Places
  <2>2. TypeText'
    BY <1>0, <1>9, InHand DEF CreateGraph, Go, Nothing, TypeText, TypeWork
  <2>3. TypeNumbers'
    BY <1>0, <1>9 DEF CreateGraph, TypeNumbers, TypeGraph
  <2>4. TypeGraph'
    BY <1>0, <1>9, InHand DEF CreateGraph, Go, Nothing, TypeGraph, TypeWork, TypeText, Savers
  <2> QED
    BY <2>1, <2>2, <2>3, <2>4
<1>10. ASSUME NEW w \in Workers, Insert(w) PROVE TypeWork' /\ TypeText' /\ TypeNumbers' /\ TypeGraph'
  <2>1. TypeWork'
    BY <1>0, <1>10, InHand DEF Insert, Go, Meet, TypeWork, Places
  <2>2. TypeText'
    BY <1>0, <1>10, InHand DEF Insert, Go, TypeText, TypeWork
  <2>3. TypeNumbers'
    BY <1>0, <1>10, InHand DEF Insert, Go, TypeNumbers, TypeText
  <2>4. TypeGraph'
    BY <1>0, <1>10, InHand DEF Insert, Go, TypeGraph, TypeWork, TypeText, Savers
  <2> QED
    BY <2>1, <2>2, <2>3, <2>4
<1>11. ASSUME NEW w \in Workers, Faults(w) PROVE TypeWork' /\ TypeText' /\ TypeNumbers' /\ TypeGraph'
  <2>1. TypeWork'
    BY <1>0, <1>11, InHand DEF Faults, Meet, TypeWork, Places
  <2>2. TypeText'
    BY <1>0, <1>11, InHand DEF Faults, TypeText, TypeWork
  <2>3. TypeNumbers'
    BY <1>0, <1>11, InHand DEF Faults, TypeNumbers, TypeText
  <2>4. TypeGraph'
    BY <1>0, <1>11, InHand DEF Faults, TypeGraph, TypeWork, TypeText, Savers
  <2> QED
    BY <2>1, <2>2, <2>3, <2>4
<1>12. ASSUME NEW w \in Workers, ReadCount(w) PROVE TypeWork' /\ TypeText' /\ TypeNumbers' /\ TypeGraph'
  <2>1. TypeWork'
    BY <1>0, <1>12, InHand DEF ReadCount, Go, Meet, TypeWork, Places
  <2>2. TypeText'
    BY <1>0, <1>12, InHand DEF ReadCount, Go, TypeText, TypeWork
  <2>3. TypeNumbers'
    BY <1>0, <1>12, InHand DEF ReadCount, Go, TypeNumbers, TypeText
  <2>4. TypeGraph'
    BY <1>0, <1>12, InHand DEF ReadCount, Go, TypeGraph, TypeWork, TypeText, Savers
  <2> QED
    BY <2>1, <2>2, <2>3, <2>4
<1>13. ASSUME NEW w \in Workers, WriteCount(w) PROVE TypeWork' /\ TypeText' /\ TypeNumbers' /\ TypeGraph'
  <2>1. TypeWork'
    BY <1>0, <1>13, InHand DEF WriteCount, Go, Meet, TypeWork, Places
  <2>2. TypeText'
    BY <1>0, <1>13, InHand DEF WriteCount, Go, TypeText, TypeWork
  <2>3. TypeNumbers'
    BY <1>0, <1>13, InHand DEF WriteCount, Go, TypeNumbers, TypeText
  <2>4. TypeGraph'
    BY <1>0, <1>13, InHand DEF WriteCount, Go, TypeGraph, TypeWork, TypeText, Savers
  <2> QED
    BY <2>1, <2>2, <2>3, <2>4
<1>14. ASSUME NEW w \in Workers, WriteEntry(w) PROVE TypeWork' /\ TypeText' /\ TypeNumbers' /\ TypeGraph'
  <2>1. TypeWork'
    <3>1. phase' = phase /\ taken' = taken /\ raced' = raced /\ item' = [item EXCEPT ![w] = 0]
      BY <1>14 DEF WriteEntry, Return
    <3>2. saves' \in 0 .. MaxSaves
      BY <1>0, <1>14, ConstantsAssumption DEF WriteEntry, TypeWork
    <3>3. pc' = [pc EXCEPT ![w] = "idle"] \/ pc' = [pc EXCEPT ![w] = "save"]
      BY <1>14 DEF WriteEntry, Go
    <3> QED
      BY <1>0, <3>1, <3>2, <3>3, InHand DEF TypeWork, Places
  <2>2. TypeText'
    BY <1>0, <1>14, InHand DEF WriteEntry, Go, PutEntry, Return, TypeText, TypeWork
  <2>3. TypeNumbers'
    BY <1>0, <1>14, InHand DEF WriteEntry, Go, PutEntry, Return, TypeNumbers, TypeText
  <2>4. TypeGraph'
    BY <1>0, <1>14, InHand DEF WriteEntry, Go, PutEntry, Return, TypeGraph, TypeWork, TypeText,
       Savers
  <2> QED
    BY <2>1, <2>2, <2>3, <2>4
<1>15. ASSUME NEW w \in Workers, NothingToSave(w) PROVE TypeWork' /\ TypeText' /\ TypeNumbers' /\ TypeGraph'
  <2>1. TypeWork'
    BY <1>0, <1>15, InHand DEF NothingToSave, Go, Nothing, Meet, TypeWork, Places
  <2>2. TypeText'
    BY <1>0, <1>15, InHand DEF NothingToSave, Go, Nothing, TypeText, TypeWork
  <2>3. TypeNumbers'
    BY <1>0, <1>15, InHand DEF NothingToSave, Go, Nothing, TypeNumbers, TypeText
  <2>4. TypeGraph'
    BY <1>0, <1>15, InHand DEF NothingToSave, Go, Nothing, TypeGraph, TypeWork, TypeText, Savers
  <2> QED
    BY <2>1, <2>2, <2>3, <2>4
<1>16. ASSUME NEW w \in Workers, BeginSave(w) PROVE TypeWork' /\ TypeText' /\ TypeNumbers' /\ TypeGraph'
  <2>1. TypeWork'
    BY <1>0, <1>16, InHand DEF BeginSave, Go, Meet, TypeWork, Places
  <2>2. TypeText'
    BY <1>0, <1>16, InHand DEF BeginSave, Go, TypeText, TypeWork
  <2>3. TypeNumbers'
    BY <1>0, <1>16, InHand DEF BeginSave, Go, TypeNumbers, TypeText
  <2>4. TypeGraph'
    BY <1>0, <1>16, InHand DEF BeginSave, Go, TypeGraph, TypeWork, TypeText, Savers
  <2> QED
    BY <2>1, <2>2, <2>3, <2>4
<1>17. ASSUME NEW w \in Workers, EndImage(w) PROVE TypeWork' /\ TypeText' /\ TypeNumbers' /\ TypeGraph'
  <2>1. TypeWork'
    BY <1>0, <1>17, InHand DEF EndImage, Go, Meet, TypeWork, Places
  <2>2. TypeText'
    BY <1>0, <1>17, InHand DEF EndImage, Go, TypeText, TypeWork
  <2>3. TypeNumbers'
    BY <1>0, <1>17, InHand DEF EndImage, Go, TypeNumbers, TypeText
  <2>4. TypeGraph'
    BY <1>0, <1>17, InHand DEF EndImage, Go, TypeGraph, TypeWork, TypeText, Savers
  <2> QED
    BY <2>1, <2>2, <2>3, <2>4
<1>18. ASSUME NEW w \in Workers, EndSave(w) PROVE TypeWork' /\ TypeText' /\ TypeNumbers' /\ TypeGraph'
  <2>1. TypeWork'
    <3>1. phase' = phase /\ taken' = taken /\ item' = item /\ raced' \subseteq raced \cup {"count"}
      BY <1>18 DEF EndSave, Meet
    <3>2. saves' \in 0 .. MaxSaves
      BY <1>0, <1>18, ConstantsAssumption DEF EndSave, TypeWork
    <3>3. pc' = [pc EXCEPT ![w] = "idle"] \/ pc' = [pc EXCEPT ![w] = "save"]
      BY <1>18 DEF EndSave, Go
    <3> QED
      BY <1>0, <3>1, <3>2, <3>3 DEF TypeWork, Places
  <2>2. TypeText'
    BY <1>0, <1>18, InHand DEF EndSave, Go, Discount, TypeText, TypeWork
  <2>3. TypeNumbers'
    BY <1>0, <1>18, InHand DEF EndSave, Go, Discount, TypeNumbers, TypeText
  <2>4. TypeGraph'
    BY <1>0, <1>18, InHand DEF EndSave, Go, Discount, TypeGraph, TypeWork, TypeText, Savers
  <2> QED
    BY <2>1, <2>2, <2>3, <2>4
<1>19. CASE Join
  BY <1>0, <1>19 DEF Join, TypeWork, TypeText, TypeNumbers, TypeGraph, Savers
<1>20. CASE FinalFlush
  <2>1. TypeWork' /\ TypeNumbers'
    BY <1>0, <1>20 DEF FinalFlush, TypeWork, TypeNumbers
  <2>2. TypeText'
    BY <1>0, <1>20 DEF FinalFlush, TypeText
  <2>3. TypeGraph'
    BY <1>0, <1>20 DEF FinalFlush, TypeGraph, Savers
  <2> QED
    BY <2>1, <2>2, <2>3
<1> QED
  BY <1>1, <1>2, <1>3, <1>4, <1>5, <1>6, <1>7, <1>8, <1>9, <1>10, <1>11, <1>12, <1>13, <1>14,
     <1>15, <1>16, <1>17, <1>18, <1>19, <1>20 DEF Next, Append1

\* No step leaves the room.
LEMMA RoomStep ==
    ASSUME TypeOK, TypeOK', RoomInv, Next
    PROVE  RoomInv'
<1>0. /\ TypeWork /\ TypeText /\ TypeNumbers /\ TypeGraph
      /\ TypeWork' /\ TypeText' /\ TypeNumbers' /\ TypeGraph'
  BY TypeParts DEF TypeOK, TypeWork, TypeText, TypeNumbers, TypeGraph
<1>00. \A P : Cardinality(At(P)) \in Nat
  BY Counted
<1>N. Cardinality(Workers) \in Nat /\ Len(Sids) \in Nat
  BY ConstantsAssumption, FS_CardinalityType, LenProperties
<1> USE DEF work, local, text, index, saving
<1>1. ASSUME NEW w \in Workers, Take(w) PROVE RoomInv'
  <2>0. pc[w] = "idle" /\ \E place \in {"sid", "label"} : Go(w, place)
    BY <1>1 DEF Take
  <2>1. /\ Cardinality(At(Unlabelled)') = Cardinality(At(Unlabelled)) + 1
        /\ Cardinality(At(Unwritten)') = Cardinality(At(Unwritten)) + 1
        /\ Cardinality(At({"create"})') = Cardinality(At({"create"}))
    BY <1>00, <2>0, Moved DEF Unlabelled, Unwritten
  <2>2. ItemInv'
    BY <1>0, <1>1 DEF Take, Go, RoomInv, ItemInv, TypeWork, InText, Uncounted, Unwritten, Unlabelled
  <2>3. LabelRoom'
    <3>1. taken' = taken + 1 /\ next_label' = next_label /\ register' = register
      BY <1>1 DEF Take
    <3>2. \A v \in Workers : pc'[v] = "bump" => pc[v] = "bump"
      BY <1>0, <1>1 DEF Take, Go, TypeWork
    <3>3. taken \in Nat /\ next_label \in Nat /\ register \in [Workers -> Int]
      BY <1>0, <1>N DEF TypeWork, TypeText, TypeNumbers
    <3>4. Cardinality(At(Unlabelled)) \in Nat
      BY <1>00
    <3>5. next_label' + Cardinality(At(Unlabelled))' <= taken'
      BY <2>1, <3>1, <3>3, <3>4 DEF RoomInv, LabelRoom
    <3>6. ASSUME NEW v \in Workers, pc'[v] = "bump"
          PROVE  register'[v] \in Nat /\ register'[v] + Cardinality(At(Unlabelled))' <= taken'
      <4>1. register[v] \in Nat /\ register[v] + Cardinality(At(Unlabelled)) <= taken
        BY <3>2, <3>6 DEF RoomInv, LabelRoom
      <4> QED
        BY <2>1, <3>1, <3>3, <3>4, <4>1
    <3> QED
      BY <3>5, <3>6 DEF LabelRoom
  <2>4. TextRoom'
    BY <1>0, <1>00, <1>1, <2>1 DEF Take, RoomInv, TextRoom, TypeWork, TypeText
  <2>5. GraphRoom'
    BY <1>0, <1>00, <1>N, <1>1, <2>1 DEF Take, RoomInv, GraphRoom, TypeGraph
  <2>6. PhaseInv'
    BY <1>0, <1>N, <1>1 DEF Take, Go, RoomInv, PhaseInv, TypeWork
  <2> QED
    BY <2>2, <2>3, <2>4, <2>5, <2>6 DEF RoomInv
<1>2. ASSUME NEW w \in Workers, Exit(w) PROVE RoomInv'
  <2>0. pc[w] = "idle" /\ \E place \in {"exit"} : Go(w, place)
    BY <1>2 DEF Exit
  <2>1. /\ Cardinality(At(Unlabelled)') = Cardinality(At(Unlabelled))
        /\ Cardinality(At(Unwritten)') = Cardinality(At(Unwritten))
        /\ Cardinality(At({"create"})') = Cardinality(At({"create"}))
    BY <1>00, <2>0, Moved DEF Unlabelled, Unwritten
  <2>2. ItemInv'
    BY <1>0, <1>2 DEF Exit, Go, RoomInv, ItemInv, TypeWork, InText, Uncounted, Unwritten, Unlabelled
  <2>3. LabelRoom'
    BY <1>0, <1>00, <1>2, <2>1 DEF Exit, Go, RoomInv, LabelRoom, TypeWork, TypeText, TypeNumbers
  <2>4. TextRoom'
    BY <1>0, <1>00, <1>2, <2>1 DEF Exit, RoomInv, TextRoom, TypeWork, TypeText
  <2>5. GraphRoom'
    BY <1>0, <1>00, <1>N, <1>2, <2>1 DEF Exit, RoomInv, GraphRoom, TypeGraph
  <2>6. PhaseInv'
    BY <1>0, <1>N, <1>2 DEF Exit, Go, RoomInv, PhaseInv, TypeWork
  <2> QED
    BY <2>2, <2>3, <2>4, <2>5, <2>6 DEF RoomInv
<1>3. ASSUME NEW w \in Workers, NoteSid(w) PROVE RoomInv'
  <2>0. pc[w] = "sid" /\ \E place \in {"label"} : Go(w, place)
    BY <1>3 DEF NoteSid
  <2>1. /\ Cardinality(At(Unlabelled)') = Cardinality(At(Unlabelled))
        /\ Cardinality(At(Unwritten)') = Cardinality(At(Unwritten))
        /\ Cardinality(At({"create"})') = Cardinality(At({"create"}))
    BY <1>00, <2>0, Moved DEF Unlabelled, Unwritten
  <2>2. ItemInv'
    BY <1>0, <1>3 DEF NoteSid, Go, RoomInv, ItemInv, TypeWork, InText, Uncounted, Unwritten,
       Unlabelled
  <2>3. LabelRoom'
    BY <1>0, <1>00, <1>3, <2>1 DEF NoteSid, Go, RoomInv, LabelRoom, TypeWork, TypeText, TypeNumbers
  <2>4. TextRoom'
    BY <1>0, <1>00, <1>3, <2>1 DEF NoteSid, RoomInv, TextRoom, TypeWork, TypeText
  <2>5. GraphRoom'
    BY <1>0, <1>00, <1>N, <1>3, <2>1 DEF NoteSid, RoomInv, GraphRoom, TypeGraph
  <2>6. PhaseInv'
    BY <1>0, <1>N, <1>3 DEF NoteSid, Go, RoomInv, PhaseInv, TypeWork
  <2> QED
    BY <2>2, <2>3, <2>4, <2>5, <2>6 DEF RoomInv
<1>4. ASSUME NEW w \in Workers, ReadLabel(w) PROVE RoomInv'
  <2>0. pc[w] = "label" /\ \E place \in {"bump"} : Go(w, place)
    BY <1>4 DEF ReadLabel
  <2>1. /\ Cardinality(At(Unlabelled)') = Cardinality(At(Unlabelled))
        /\ Cardinality(At(Unwritten)') = Cardinality(At(Unwritten))
        /\ Cardinality(At({"create"})') = Cardinality(At({"create"}))
    BY <1>00, <2>0, Moved DEF Unlabelled, Unwritten
  <2>2. ItemInv'
    BY <1>0, <1>4 DEF ReadLabel, Go, RoomInv, ItemInv, TypeWork, InText, Uncounted, Unwritten,
       Unlabelled
  <2>3. LabelRoom'
    BY <1>0, <1>00, <1>4, <2>1 DEF ReadLabel, Go, RoomInv, LabelRoom, TypeWork, TypeText,
       TypeNumbers
  <2>4. TextRoom'
    BY <1>0, <1>00, <1>4, <2>1 DEF ReadLabel, RoomInv, TextRoom, TypeWork, TypeText
  <2>5. GraphRoom'
    BY <1>0, <1>00, <1>N, <1>4, <2>1 DEF ReadLabel, RoomInv, GraphRoom, TypeGraph
  <2>6. PhaseInv'
    BY <1>0, <1>N, <1>4 DEF ReadLabel, Go, RoomInv, PhaseInv, TypeWork
  <2> QED
    BY <2>2, <2>3, <2>4, <2>5, <2>6 DEF RoomInv
<1>5. ASSUME NEW w \in Workers, WriteLabel(w) PROVE RoomInv'
  <2>0. pc[w] = "bump" /\ \E place \in {"seek"} : Go(w, place)
    BY <1>5 DEF WriteLabel
  <2>1. /\ Cardinality(At(Unlabelled)') = Cardinality(At(Unlabelled)) - 1
        /\ Cardinality(At(Unwritten)') = Cardinality(At(Unwritten))
        /\ Cardinality(At({"create"})') = Cardinality(At({"create"}))
    BY <1>00, <2>0, Moved DEF Unlabelled, Unwritten
  <2>2. ItemInv'
    BY <1>0, <1>5 DEF WriteLabel, Go, Bump, RoomInv, ItemInv, TypeWork, InText, Uncounted,
       Unwritten, Unlabelled
  <2>3. LabelRoom'
    <3>1. /\ taken' = taken /\ next_label' = register[w] + 1 /\ register' = [register EXCEPT ![w] = 0]
          /\ pc' = [pc EXCEPT ![w] = "seek"] /\ pc[w] = "bump"
      BY <1>5 DEF WriteLabel, Bump, Go
    <3>2. next_label' + Cardinality(At(Unlabelled))' <= taken'
      BY <1>0, <1>00, <2>1, <3>1, SMTT(40) DEF RoomInv, LabelRoom, TypeWork, TypeNumbers
    <3>3. ASSUME NEW v \in Workers, pc'[v] = "bump"
          PROVE  register'[v] \in Nat /\ register'[v] + Cardinality(At(Unlabelled))' <= taken'
      <4>1. v # w /\ pc[v] = "bump" /\ register'[v] = register[v]
        BY <1>0, <3>1, <3>3 DEF TypeWork, TypeNumbers
      <4>2. register[v] \in Nat /\ register[v] + Cardinality(At(Unlabelled)) <= taken
        BY <4>1 DEF RoomInv, LabelRoom
      <4>3. taken \in Nat /\ Cardinality(At(Unlabelled)) \in Nat
        BY <1>0, <1>00, <1>N DEF TypeWork
      <4> QED
        BY <2>1, <3>1, <4>1, <4>2, <4>3
    <3> QED
      BY <3>2, <3>3 DEF LabelRoom
  <2>4. TextRoom'
    BY <1>0, <1>00, <1>5, <2>1 DEF WriteLabel, Bump, RoomInv, TextRoom, TypeWork, TypeText
  <2>5. GraphRoom'
    BY <1>0, <1>00, <1>N, <1>5, <2>1 DEF WriteLabel, Bump, RoomInv, GraphRoom, TypeGraph
  <2>6. PhaseInv'
    BY <1>0, <1>N, <1>5 DEF WriteLabel, Go, Bump, RoomInv, PhaseInv, TypeWork
  <2> QED
    BY <2>2, <2>3, <2>4, <2>5, <2>6 DEF RoomInv
<1>6. ASSUME NEW w \in Workers, Seek(w) PROVE RoomInv'
  <2>0. pc[w] = "seek" /\ \E place \in {"write"} : Go(w, place)
    BY <1>6 DEF Seek
  <2>1. /\ Cardinality(At(Unlabelled)') = Cardinality(At(Unlabelled))
        /\ Cardinality(At(Unwritten)') = Cardinality(At(Unwritten))
        /\ Cardinality(At({"create"})') = Cardinality(At({"create"}))
    BY <1>00, <2>0, Moved DEF Unlabelled, Unwritten
  <2>2. ItemInv'
    BY <1>0, <1>6 DEF Seek, Go, RoomInv, ItemInv, TypeWork, InText, Uncounted, Unwritten, Unlabelled
  <2>3. LabelRoom'
    BY <1>0, <1>00, <1>6, <2>1 DEF Seek, Go, RoomInv, LabelRoom, TypeWork, TypeText, TypeNumbers
  <2>4. TextRoom'
    BY <1>0, <1>00, <1>6, <2>1 DEF Seek, RoomInv, TextRoom, TypeWork, TypeText
  <2>5. GraphRoom'
    BY <1>0, <1>00, <1>N, <1>6, <2>1 DEF Seek, RoomInv, GraphRoom, TypeGraph
  <2>6. PhaseInv'
    BY <1>0, <1>N, <1>6 DEF Seek, Go, RoomInv, PhaseInv, TypeWork
  <2> QED
    BY <2>2, <2>3, <2>4, <2>5, <2>6 DEF RoomInv
<1>7. ASSUME NEW w \in Workers, Write(w) PROVE RoomInv'
  <2>0. pc[w] = "write" /\ \E place \in {"graph"} : Go(w, place)
    BY <1>7 DEF Write
  <2>1. /\ Cardinality(At(Unlabelled)') = Cardinality(At(Unlabelled))
        /\ Cardinality(At(Unwritten)') = Cardinality(At(Unwritten)) - 1
        /\ Cardinality(At({"create"})') = Cardinality(At({"create"}))
    BY <1>00, <2>0, Moved DEF Unlabelled, Unwritten
  <2>2. ItemInv'
    BY <1>0, <1>7 DEF Write, Go, RoomInv, ItemInv, TypeWork, InText, Uncounted, Unwritten,
       Unlabelled
  <2>3. LabelRoom'
    BY <1>0, <1>00, <1>7, <2>1 DEF Write, Go, RoomInv, LabelRoom, TypeWork, TypeText, TypeNumbers
  <2>4. TextRoom'
    BY <1>0, <1>00, <1>7, <2>1 DEF Write, RoomInv, TextRoom, TypeWork, TypeText
  <2>5. GraphRoom'
    BY <1>0, <1>00, <1>N, <1>7, <2>1 DEF Write, RoomInv, GraphRoom, TypeGraph
  <2>6. PhaseInv'
    BY <1>0, <1>N, <1>7 DEF Write, Go, RoomInv, PhaseInv, TypeWork
  <2> QED
    BY <2>2, <2>3, <2>4, <2>5, <2>6 DEF RoomInv
<1>8. ASSUME NEW w \in Workers, FindGraph(w) PROVE RoomInv'
  <2>0. pc[w] = "graph" /\ \E place \in {"create", "insert"} : Go(w, place)
    BY <1>8 DEF FindGraph
  <2>1. /\ Cardinality(At(Unlabelled)') = Cardinality(At(Unlabelled))
        /\ Cardinality(At(Unwritten)') = Cardinality(At(Unwritten))
        /\ Cardinality(At({"create"})') - Cardinality(At({"create"})) \in {0, 1}
    BY <1>00, <2>0, Moved DEF Unlabelled, Unwritten
  <2>2. ItemInv'
    BY <1>0, <1>8 DEF FindGraph, Go, RoomInv, ItemInv, TypeWork, InText, Uncounted, Unwritten,
       Unlabelled
  <2>3. LabelRoom'
    BY <1>0, <1>00, <1>8, <2>1 DEF FindGraph, Go, RoomInv, LabelRoom, TypeWork, TypeText,
       TypeNumbers
  <2>4. TextRoom'
    BY <1>0, <1>00, <1>8, <2>1 DEF FindGraph, RoomInv, TextRoom, TypeWork, TypeText
  <2>5. GraphRoom'
    <3>1. CASE graph = 0
      <4>1. At({"create"})' \subseteq Workers /\ IsFiniteSet(Workers)
        BY ConstantsAssumption DEF At
      <4>2. /\ Cardinality(At({"create"})') <= Cardinality(Workers)
            /\ Cardinality(At({"create"})') \in Nat
        BY <4>1, FS_Subset, FS_CardinalityType
      <4>3. graph' = 0
        BY <1>8, <3>1 DEF FindGraph
      <4> QED
        BY <4>2, <4>3 DEF GraphRoom
    <3>2. CASE graph # 0
      <4>1. Go(w, "insert") /\ pc[w] = "graph" /\ graph' = graph
        BY <1>8, <3>2 DEF FindGraph
      <4>2. Cardinality(At({"create"})') = Cardinality(At({"create"}))
        BY <1>00, <4>1, Moved
      <4> QED
        BY <4>1, <4>2 DEF RoomInv, GraphRoom
    <3> QED
      BY <3>1, <3>2
  <2>6. PhaseInv'
    BY <1>0, <1>N, <1>8 DEF FindGraph, Go, RoomInv, PhaseInv, TypeWork
  <2> QED
    BY <2>2, <2>3, <2>4, <2>5, <2>6 DEF RoomInv
<1>9. ASSUME NEW w \in Workers, CreateGraph(w) PROVE RoomInv'
  <2>0. pc[w] = "create" /\ \E place \in {"insert"} : Go(w, place)
    BY <1>9 DEF CreateGraph
  <2>1. /\ Cardinality(At(Unlabelled)') = Cardinality(At(Unlabelled))
        /\ Cardinality(At(Unwritten)') = Cardinality(At(Unwritten))
        /\ Cardinality(At({"create"})') = Cardinality(At({"create"})) - 1
    BY <1>00, <2>0, Moved DEF Unlabelled, Unwritten
  <2>2. ItemInv'
    BY <1>0, <1>9 DEF CreateGraph, Go, RoomInv, ItemInv, TypeWork, InText, Uncounted, Unwritten,
       Unlabelled
  <2>3. LabelRoom'
    BY <1>0, <1>00, <1>9, <2>1 DEF CreateGraph, Go, RoomInv, LabelRoom, TypeWork, TypeText,
       TypeNumbers
  <2>4. TextRoom'
    BY <1>0, <1>00, <1>9, <2>1 DEF CreateGraph, RoomInv, TextRoom, TypeWork, TypeText
  <2>5. GraphRoom'
    BY <1>0, <1>00, <1>N, <1>9, <2>1 DEF CreateGraph, RoomInv, GraphRoom, TypeGraph
  <2>6. PhaseInv'
    BY <1>0, <1>N, <1>9 DEF CreateGraph, Go, RoomInv, PhaseInv, TypeWork
  <2> QED
    BY <2>2, <2>3, <2>4, <2>5, <2>6 DEF RoomInv
<1>10. ASSUME NEW w \in Workers, Insert(w) PROVE RoomInv'
  <2>0. pc[w] = "insert" /\ \E place \in {"count"} : Go(w, place)
    BY <1>10 DEF Insert
  <2>1. /\ Cardinality(At(Unlabelled)') = Cardinality(At(Unlabelled))
        /\ Cardinality(At(Unwritten)') = Cardinality(At(Unwritten))
        /\ Cardinality(At({"create"})') = Cardinality(At({"create"}))
    BY <1>00, <2>0, Moved DEF Unlabelled, Unwritten
  <2>2. ItemInv'
    BY <1>0, <1>10 DEF Insert, Go, RoomInv, ItemInv, TypeWork, InText, Uncounted, Unwritten,
       Unlabelled
  <2>3. LabelRoom'
    BY <1>0, <1>00, <1>10, <2>1 DEF Insert, Go, RoomInv, LabelRoom, TypeWork, TypeText, TypeNumbers
  <2>4. TextRoom'
    BY <1>0, <1>00, <1>10, <2>1 DEF Insert, RoomInv, TextRoom, TypeWork, TypeText
  <2>5. GraphRoom'
    BY <1>0, <1>00, <1>N, <1>10, <2>1 DEF Insert, RoomInv, GraphRoom, TypeGraph
  <2>6. PhaseInv'
    BY <1>0, <1>N, <1>10 DEF Insert, Go, RoomInv, PhaseInv, TypeWork
  <2> QED
    BY <2>2, <2>3, <2>4, <2>5, <2>6 DEF RoomInv
<1>11. ASSUME NEW w \in Workers, ReadCount(w) PROVE RoomInv'
  <2>0. pc[w] = "count" /\ \E place \in {"counted"} : Go(w, place)
    BY <1>11 DEF ReadCount
  <2>1. /\ Cardinality(At(Unlabelled)') = Cardinality(At(Unlabelled))
        /\ Cardinality(At(Unwritten)') = Cardinality(At(Unwritten))
        /\ Cardinality(At({"create"})') = Cardinality(At({"create"}))
    BY <1>00, <2>0, Moved DEF Unlabelled, Unwritten
  <2>2. ItemInv'
    BY <1>0, <1>11 DEF ReadCount, Go, RoomInv, ItemInv, TypeWork, InText, Uncounted, Unwritten,
       Unlabelled
  <2>3. LabelRoom'
    BY <1>0, <1>00, <1>11, <2>1 DEF ReadCount, Go, RoomInv, LabelRoom, TypeWork, TypeText,
       TypeNumbers
  <2>4. TextRoom'
    BY <1>0, <1>00, <1>11, <2>1 DEF ReadCount, RoomInv, TextRoom, TypeWork, TypeText
  <2>5. GraphRoom'
    BY <1>0, <1>00, <1>N, <1>11, <2>1 DEF ReadCount, RoomInv, GraphRoom, TypeGraph
  <2>6. PhaseInv'
    BY <1>0, <1>N, <1>11 DEF ReadCount, Go, RoomInv, PhaseInv, TypeWork
  <2> QED
    BY <2>2, <2>3, <2>4, <2>5, <2>6 DEF RoomInv
<1>12. ASSUME NEW w \in Workers, WriteCount(w) PROVE RoomInv'
  <2>0. pc[w] = "counted" /\ \E place \in {"entry"} : Go(w, place)
    BY <1>12 DEF WriteCount
  <2>1. /\ Cardinality(At(Unlabelled)') = Cardinality(At(Unlabelled))
        /\ Cardinality(At(Unwritten)') = Cardinality(At(Unwritten))
        /\ Cardinality(At({"create"})') = Cardinality(At({"create"}))
    BY <1>00, <2>0, Moved DEF Unlabelled, Unwritten
  <2>2. ItemInv'
    BY <1>0, <1>12 DEF WriteCount, Go, RoomInv, ItemInv, TypeWork, InText, Uncounted, Unwritten,
       Unlabelled
  <2>3. LabelRoom'
    BY <1>0, <1>00, <1>12, <2>1 DEF WriteCount, Go, RoomInv, LabelRoom, TypeWork, TypeText,
       TypeNumbers
  <2>4. TextRoom'
    BY <1>0, <1>00, <1>12, <2>1 DEF WriteCount, RoomInv, TextRoom, TypeWork, TypeText
  <2>5. GraphRoom'
    BY <1>0, <1>00, <1>N, <1>12, <2>1 DEF WriteCount, RoomInv, GraphRoom, TypeGraph
  <2>6. PhaseInv'
    BY <1>0, <1>N, <1>12 DEF WriteCount, Go, RoomInv, PhaseInv, TypeWork
  <2> QED
    BY <2>2, <2>3, <2>4, <2>5, <2>6 DEF RoomInv
<1>13. ASSUME NEW w \in Workers, WriteEntry(w) PROVE RoomInv'
  <2>0. pc[w] = "entry" /\ \E place \in {"idle", "save"} : Go(w, place)
    BY <1>13 DEF WriteEntry
  <2>1. /\ Cardinality(At(Unlabelled)') = Cardinality(At(Unlabelled))
        /\ Cardinality(At(Unwritten)') = Cardinality(At(Unwritten))
        /\ Cardinality(At({"create"})') = Cardinality(At({"create"}))
    BY <1>00, <2>0, Moved DEF Unlabelled, Unwritten
  <2>2. ItemInv'
    BY <1>0, <1>13 DEF WriteEntry, Go, Return, PutEntry, RoomInv, ItemInv, TypeWork, InText,
       Uncounted, Unwritten, Unlabelled
  <2>3. LabelRoom'
    BY <1>0, <1>00, <1>13, <2>1 DEF WriteEntry, Go, Return, PutEntry, RoomInv, LabelRoom,
       TypeWork, TypeText, TypeNumbers
  <2>4. TextRoom'
    BY <1>0, <1>00, <1>13, <2>1 DEF WriteEntry, Return, PutEntry, RoomInv, TextRoom, TypeWork,
       TypeText
  <2>5. GraphRoom'
    BY <1>0, <1>00, <1>N, <1>13, <2>1 DEF WriteEntry, Return, PutEntry, RoomInv, GraphRoom,
       TypeGraph
  <2>6. PhaseInv'
    BY <1>0, <1>N, <1>13 DEF WriteEntry, Go, Return, PutEntry, RoomInv, PhaseInv, TypeWork
  <2> QED
    BY <2>2, <2>3, <2>4, <2>5, <2>6 DEF RoomInv
<1>14. ASSUME NEW w \in Workers, NothingToSave(w) PROVE RoomInv'
  <2>0. pc[w] = "save" /\ \E place \in {"idle"} : Go(w, place)
    BY <1>14 DEF NothingToSave
  <2>1. /\ Cardinality(At(Unlabelled)') = Cardinality(At(Unlabelled))
        /\ Cardinality(At(Unwritten)') = Cardinality(At(Unwritten))
        /\ Cardinality(At({"create"})') = Cardinality(At({"create"}))
    BY <1>00, <2>0, Moved DEF Unlabelled, Unwritten
  <2>2. ItemInv'
    BY <1>0, <1>14 DEF NothingToSave, Go, RoomInv, ItemInv, TypeWork, InText, Uncounted,
       Unwritten, Unlabelled
  <2>3. LabelRoom'
    BY <1>0, <1>00, <1>14, <2>1 DEF NothingToSave, Go, RoomInv, LabelRoom, TypeWork, TypeText,
       TypeNumbers
  <2>4. TextRoom'
    BY <1>0, <1>00, <1>14, <2>1 DEF NothingToSave, RoomInv, TextRoom, TypeWork, TypeText
  <2>5. GraphRoom'
    BY <1>0, <1>00, <1>N, <1>14, <2>1 DEF NothingToSave, RoomInv, GraphRoom, TypeGraph
  <2>6. PhaseInv'
    BY <1>0, <1>N, <1>14 DEF NothingToSave, Go, RoomInv, PhaseInv, TypeWork
  <2> QED
    BY <2>2, <2>3, <2>4, <2>5, <2>6 DEF RoomInv
<1>15. ASSUME NEW w \in Workers, BeginSave(w) PROVE RoomInv'
  <2>0. pc[w] = "save" /\ \E place \in {"saving"} : Go(w, place)
    BY <1>15 DEF BeginSave
  <2>1. /\ Cardinality(At(Unlabelled)') = Cardinality(At(Unlabelled))
        /\ Cardinality(At(Unwritten)') = Cardinality(At(Unwritten))
        /\ Cardinality(At({"create"})') = Cardinality(At({"create"}))
    BY <1>00, <2>0, Moved DEF Unlabelled, Unwritten
  <2>2. ItemInv'
    BY <1>0, <1>15 DEF BeginSave, Go, RoomInv, ItemInv, TypeWork, InText, Uncounted, Unwritten,
       Unlabelled
  <2>3. LabelRoom'
    BY <1>0, <1>00, <1>15, <2>1 DEF BeginSave, Go, RoomInv, LabelRoom, TypeWork, TypeText,
       TypeNumbers
  <2>4. TextRoom'
    BY <1>0, <1>00, <1>15, <2>1 DEF BeginSave, RoomInv, TextRoom, TypeWork, TypeText
  <2>5. GraphRoom'
    BY <1>0, <1>00, <1>N, <1>15, <2>1 DEF BeginSave, RoomInv, GraphRoom, TypeGraph
  <2>6. PhaseInv'
    BY <1>0, <1>N, <1>15 DEF BeginSave, Go, RoomInv, PhaseInv, TypeWork
  <2> QED
    BY <2>2, <2>3, <2>4, <2>5, <2>6 DEF RoomInv
<1>16. ASSUME NEW w \in Workers, EndImage(w) PROVE RoomInv'
  <2>0. pc[w] = "saving" /\ \E place \in {"minus"} : Go(w, place)
    BY <1>16 DEF EndImage
  <2>1. /\ Cardinality(At(Unlabelled)') = Cardinality(At(Unlabelled))
        /\ Cardinality(At(Unwritten)') = Cardinality(At(Unwritten))
        /\ Cardinality(At({"create"})') = Cardinality(At({"create"}))
    BY <1>00, <2>0, Moved DEF Unlabelled, Unwritten
  <2>2. ItemInv'
    BY <1>0, <1>16 DEF EndImage, Go, RoomInv, ItemInv, TypeWork, InText, Uncounted, Unwritten,
       Unlabelled
  <2>3. LabelRoom'
    BY <1>0, <1>00, <1>16, <2>1 DEF EndImage, Go, RoomInv, LabelRoom, TypeWork, TypeText,
       TypeNumbers
  <2>4. TextRoom'
    BY <1>0, <1>00, <1>16, <2>1 DEF EndImage, RoomInv, TextRoom, TypeWork, TypeText
  <2>5. GraphRoom'
    BY <1>0, <1>00, <1>N, <1>16, <2>1 DEF EndImage, RoomInv, GraphRoom, TypeGraph
  <2>6. PhaseInv'
    BY <1>0, <1>N, <1>16 DEF EndImage, Go, RoomInv, PhaseInv, TypeWork
  <2> QED
    BY <2>2, <2>3, <2>4, <2>5, <2>6 DEF RoomInv
<1>17. ASSUME NEW w \in Workers, EndSave(w) PROVE RoomInv'
  <2>0. pc[w] = "minus" /\ \E place \in {"idle", "save"} : Go(w, place)
    BY <1>17 DEF EndSave
  <2>1. /\ Cardinality(At(Unlabelled)') = Cardinality(At(Unlabelled))
        /\ Cardinality(At(Unwritten)') = Cardinality(At(Unwritten))
        /\ Cardinality(At({"create"})') = Cardinality(At({"create"}))
    BY <1>00, <2>0, Moved DEF Unlabelled, Unwritten
  <2>2. ItemInv'
    BY <1>0, <1>17 DEF EndSave, Go, Discount, RoomInv, ItemInv, TypeWork, InText, Uncounted,
       Unwritten, Unlabelled
  <2>3. LabelRoom'
    BY <1>0, <1>00, <1>17, <2>1 DEF EndSave, Go, Discount, RoomInv, LabelRoom, TypeWork,
       TypeText, TypeNumbers
  <2>4. TextRoom'
    BY <1>0, <1>00, <1>17, <2>1 DEF EndSave, Discount, RoomInv, TextRoom, TypeWork, TypeText
  <2>5. GraphRoom'
    BY <1>0, <1>00, <1>N, <1>17, <2>1 DEF EndSave, Discount, RoomInv, GraphRoom, TypeGraph
  <2>6. PhaseInv'
    BY <1>0, <1>N, <1>17 DEF EndSave, Go, Discount, RoomInv, PhaseInv, TypeWork
  <2> QED
    BY <2>2, <2>3, <2>4, <2>5, <2>6 DEF RoomInv
<1>18. ASSUME NEW w \in Workers, Faults(w) PROVE RoomInv'
  BY <1>0, <1>18 DEF Faults, RoomInv, ItemInv, LabelRoom, TextRoom, GraphRoom, PhaseInv, At
<1>19. CASE Join
  BY <1>0, <1>19 DEF Join, RoomInv, ItemInv, LabelRoom, TextRoom, GraphRoom, PhaseInv, At
<1>20. CASE FinalFlush
  BY <1>0, <1>20 DEF FinalFlush, RoomInv, ItemInv, LabelRoom, TextRoom, GraphRoom, PhaseInv, At
<1> QED
  BY <1>1, <1>2, <1>3, <1>4, <1>5, <1>6, <1>7, <1>8, <1>9, <1>10, <1>11, <1>12, <1>13, <1>14,
     <1>15, <1>16, <1>17, <1>18, <1>19, <1>20 DEF Next, Append1

-----------------------------------------------------------------------------
(* The sentence ids.                                                       *)

\* Unless two noted theirs at once, the largest id is noted or about to be.
SidInv ==
    "sid" \notin raced =>
        /\ \A w \in Workers : pc[w] = "sid" => Sids[item[w]] > auto_sentence_id
        /\ \A i \in 1 .. taken : \/ Sids[i] <= auto_sentence_id
                                 \/ \E w \in Workers : pc[w] = "sid" /\ item[w] = i

\* Each step keeps the ids.
LEMMA SidStep ==
    ASSUME TypeOK, TypeOK', RoomInv, SidInv, Next
    PROVE  SidInv'
<1>0. TypeWork /\ TypeText /\ TypeNumbers /\ TypeGraph
  BY TypeParts
<1>N. Len(Sids) \in Nat /\ Items = 1 .. Len(Sids) /\ Sids \in [1 .. Len(Sids) -> Nat \ {0}]
  BY ConstantsAssumption, LenProperties DEF Items
<1> USE DEF work, local, text, index, saving
<1>1. ASSUME NEW w \in Workers, Take(w) PROVE SidInv'
  <2> SUFFICES ASSUME "sid" \notin raced
               PROVE  /\ \A v \in Workers : pc'[v] = "sid" => Sids[item'[v]] > auto_sentence_id
                      /\ \A i \in 1 .. taken + 1 : \/ Sids[i] <= auto_sentence_id
                                                   \/ \E v \in Workers : pc'[v] = "sid" /\ item'[v] = i
    BY <1>1 DEF Take, SidInv
  <2>1. taken \in Nat /\ taken + 1 \in 1 .. Len(Sids) /\ Sids[taken + 1] \in Nat /\ auto_sentence_id \in Nat
    <3>1. taken \in Nat /\ taken < Len(Sids) /\ Len(Sids) \in Nat
      BY <1>1, InHand DEF Take
    <3>2. taken + 1 \in 1 .. Len(Sids)
      BY <3>1
    <3> QED
      BY <1>0, <1>N, <3>1, <3>2 DEF TypeText
  <2>2. \A v \in Workers : v # w => pc'[v] = pc[v] /\ item'[v] = item[v]
    BY <1>0, <1>1 DEF Take, Go, TypeWork
  <2>3. item'[w] = taken + 1 /\ (pc'[w] = "sid" <=> Sids[taken + 1] > auto_sentence_id) /\ pc[w] = "idle"
    BY <1>0, <1>1 DEF Take, Go, NewSid, TypeWork
  <2>4. ASSUME NEW v \in Workers, pc'[v] = "sid" PROVE Sids[item'[v]] > auto_sentence_id
    BY <2>2, <2>3, <2>4 DEF SidInv
  <2>5. ASSUME NEW i \in 1 .. taken + 1, ~(Sids[i] <= auto_sentence_id)
        PROVE  \E v \in Workers : pc'[v] = "sid" /\ item'[v] = i
    <3>1. CASE i = taken + 1
      BY <2>1, <2>3, <2>5, <3>1
    <3>2. CASE i \in 1 .. taken
      <4>1. PICK v \in Workers : pc[v] = "sid" /\ item[v] = i
        BY <2>5, <3>2 DEF SidInv
      <4> QED
        BY <2>2, <2>3, <4>1
    <3> QED
      BY <2>1, <3>1, <3>2
  <2> QED
    BY <2>4, <2>5
<1>2. ASSUME NEW w \in Workers, Exit(w) PROVE SidInv'
  BY <1>0, <1>2 DEF Exit, Go, SidInv, TypeWork
<1>3. ASSUME NEW w \in Workers, NoteSid(w) PROVE SidInv'
  <2>1. Sids[item[w]] \in Nat /\ item[w] \in 1 .. taken /\ taken \in Nat /\ auto_sentence_id \in Nat
    BY <1>0, <1>N, <1>3, InHand DEF NoteSid, InText, Uncounted, Unwritten, Unlabelled, TypeText
  <2> SUFFICES ASSUME "sid" \notin raced'
               PROVE  /\ \A v \in Workers : pc'[v] = "sid" => Sids[item'[v]] > auto_sentence_id'
                      /\ \A i \in 1 .. taken' : \/ Sids[i] <= auto_sentence_id'
                                                \/ \E v \in Workers : pc'[v] = "sid" /\ item'[v] = i
    BY DEF SidInv
  <2>2. "sid" \notin raced /\ \A v \in Workers : pc[v] = "sid" => v = w
    BY <1>3 DEF NoteSid, Meet, Others
  <2>3. Sids[item[w]] > auto_sentence_id /\ auto_sentence_id' = Sids[item[w]] /\ taken' = taken
    BY <2>2, <1>3 DEF NoteSid, SidInv
  <2>4. \A v \in Workers : pc'[v] # "sid"
    BY <1>0, <2>2, <1>3 DEF NoteSid, Go, TypeWork
  <2>5. ASSUME NEW i \in 1 .. taken PROVE Sids[i] <= auto_sentence_id'
    <3>1. Sids[i] \in Nat
      BY <1>0, <1>N, <2>5 DEF TypeWork
    <3>2. Sids[i] <= auto_sentence_id \/ i = item[w]
      BY <2>2, <2>5 DEF SidInv
    <3> QED
      BY <2>1, <2>3, <3>1, <3>2
  <2> QED
    BY <2>3, <2>4, <2>5
<1>4. ASSUME NEW w \in Workers, ReadLabel(w) PROVE SidInv'
  BY <1>0, <1>4 DEF ReadLabel, Go, SidInv, TypeWork
<1>5. ASSUME NEW w \in Workers, WriteLabel(w) PROVE SidInv'
  BY <1>0, <1>5 DEF WriteLabel, Go, Bump, Meet, Others, SidInv, TypeWork
<1>6. ASSUME NEW w \in Workers, Seek(w) PROVE SidInv'
  BY <1>0, <1>6 DEF Seek, Go, SidInv, TypeWork
<1>7. ASSUME NEW w \in Workers, Write(w) PROVE SidInv'
  BY <1>0, <1>7 DEF Write, Go, Meet, Others, SidInv, TypeWork
<1>8. ASSUME NEW w \in Workers, FindGraph(w) PROVE SidInv'
  BY <1>0, <1>8 DEF FindGraph, Go, SidInv, TypeWork
<1>9. ASSUME NEW w \in Workers, CreateGraph(w) PROVE SidInv'
  BY <1>0, <1>9 DEF CreateGraph, Go, Savers, SidInv, TypeWork
<1>10. ASSUME NEW w \in Workers, Insert(w) PROVE SidInv'
  BY <1>0, <1>10 DEF Insert, Go, Savers, SidInv, TypeWork
<1>11. ASSUME NEW w \in Workers, Faults(w) PROVE SidInv'
  BY <1>0, <1>11 DEF Faults, SidInv, TypeWork
<1>12. ASSUME NEW w \in Workers, ReadCount(w) PROVE SidInv'
  BY <1>0, <1>12 DEF ReadCount, Go, SidInv, TypeWork
<1>13. ASSUME NEW w \in Workers, WriteCount(w) PROVE SidInv'
  BY <1>0, <1>13 DEF WriteCount, Go, Meet, Others, SidInv, TypeWork
<1>14. ASSUME NEW w \in Workers, WriteEntry(w) PROVE SidInv'
  <2>1. /\ raced' = raced /\ auto_sentence_id' = auto_sentence_id /\ taken' = taken
        /\ pc[w] = "entry" /\ item' = [item EXCEPT ![w] = 0]
    BY <1>14 DEF WriteEntry, Return
  <2>2. pc' = [pc EXCEPT ![w] = "idle"] \/ pc' = [pc EXCEPT ![w] = "save"]
    BY <1>14 DEF WriteEntry, Go
  <2>3. /\ pc[w] # "sid" /\ pc'[w] # "sid"
        /\ \A v \in Workers : v # w => pc'[v] = pc[v] /\ item'[v] = item[v]
    BY <1>0, <2>1, <2>2 DEF TypeWork
  <2> QED
    BY <2>1, <2>3 DEF SidInv
<1>15. ASSUME NEW w \in Workers, NothingToSave(w) PROVE SidInv'
  BY <1>0, <1>15 DEF NothingToSave, Go, SidInv, TypeWork
<1>16. ASSUME NEW w \in Workers, BeginSave(w) PROVE SidInv'
  BY <1>0, <1>16 DEF BeginSave, Go, Savers, Meet, Others, SidInv, TypeWork
<1>17. ASSUME NEW w \in Workers, EndImage(w) PROVE SidInv'
  BY <1>0, <1>17 DEF EndImage, Go, SidInv, TypeWork
<1>18. ASSUME NEW w \in Workers, EndSave(w) PROVE SidInv'
  BY <1>0, <1>18 DEF EndSave, Go, Discount, Meet, Others, SidInv, TypeWork
<1>19. CASE Join
  BY <1>19 DEF Join, SidInv
<1>20. CASE FinalFlush
  BY <1>20 DEF FinalFlush, SidInv
<1> QED
  BY <1>1, <1>2, <1>3, <1>4, <1>5, <1>6, <1>7, <1>8, <1>9, <1>10, <1>11, <1>12, <1>13, <1>14,
     <1>15, <1>16, <1>17, <1>18, <1>19, <1>20 DEF Next, Append1

-----------------------------------------------------------------------------
(* The labels.                                                             *)

\* Unless two were in allocate_label at once, each append has a label of its own.
LabelInv ==
    "label" \notin raced =>
        /\ \A w \in Workers : pc[w] = "bump" => register[w] = next_label
        /\ \A w \in Workers : pc[w] \in Placed => label[w] < next_label
        /\ \A v, w \in Workers : pc[v] \in Placed /\ pc[w] \in Placed /\ label[v] = label[w] => v = w

\* Then a vector belongs to the text of its entry, or to the append that will write it.
MixedInv ==
    "label" \notin raced =>
        /\ \A l \in Labels : l >= next_label => vec[l] = 0
        /\ \A w \in Workers :
              /\ pc[w] \in Fresh => vec[label[w]] = 0
              /\ pc[w] \in Inserted => vec[label[w]] \in {0, item[w]}
        /\ \A l \in Labels :
              \/ vec[l] \in {0, entries[l].item}
              \/ \E w \in Workers : pc[w] \in Inserted /\ label[w] = l

\* Each step keeps the labels apart.
LEMMA LabelStep ==
    ASSUME TypeOK, TypeOK', RoomInv, LabelInv, Next
    PROVE  LabelInv'
<1>0. TypeWork /\ TypeText /\ TypeNumbers /\ TypeGraph
  BY TypeParts
<1>N. Len(Sids) \in Nat /\ Items = 1 .. Len(Sids) /\ Sids \in [1 .. Len(Sids) -> Nat \ {0}]
  BY ConstantsAssumption, LenProperties DEF Items
<1> USE DEF work, local, text, index, saving
<1>1. ASSUME NEW w \in Workers, Take(w) PROVE LabelInv'
  BY <1>0, <1>1 DEF Take, Go, NewSid, LabelInv, TypeWork, TypeText, Placed, Written
<1>2. ASSUME NEW w \in Workers, Exit(w) PROVE LabelInv'
  BY <1>0, <1>2 DEF Exit, Go, LabelInv, TypeWork, TypeText, Placed, Written
<1>3. ASSUME NEW w \in Workers, NoteSid(w) PROVE LabelInv'
  BY <1>0, <1>3 DEF NoteSid, Go, Meet, Others, LabelInv, TypeWork, TypeText, Placed, Written
<1>4. ASSUME NEW w \in Workers, ReadLabel(w) PROVE LabelInv'
  <2>1. /\ raced' = raced /\ next_label' = next_label /\ label' = label
        /\ register' = [register EXCEPT ![w] = next_label] /\ pc' = [pc EXCEPT ![w] = "bump"]
    BY <1>4 DEF ReadLabel, Go
  <2>2. /\ register'[w] = next_label
        /\ \A v \in Workers : v # w => pc'[v] = pc[v] /\ register'[v] = register[v]
    BY <1>0, <2>1 DEF TypeWork, TypeNumbers
  <2>3. pc'[w] \notin Placed
    BY <1>0, <2>1 DEF TypeWork, Placed, Written
  <2> QED
    BY <2>1, <2>2, <2>3 DEF LabelInv
<1>5. ASSUME NEW w \in Workers, WriteLabel(w) PROVE LabelInv'
  <2> SUFFICES ASSUME "label" \notin raced'
               PROVE  LabelInv'
    BY DEF LabelInv
  <2>1. "label" \notin raced /\ \A v \in Workers : pc[v] = "bump" => v = w
    BY <1>5 DEF WriteLabel, Meet, Others
  <2>2. next_label \in Nat /\ register[w] = next_label
    BY <1>0, <1>N, <2>1, <1>5 DEF TypeText, WriteLabel, LabelInv
  <2>3. next_label' = next_label + 1 /\ label'[w] = next_label
    BY <1>0, <2>2, <1>5 DEF WriteLabel, Bump, TypeText
  <2>4. \A v \in Workers : v # w => pc'[v] = pc[v] /\ label'[v] = label[v] /\ pc[v] # "bump"
    BY <1>0, <2>1, <1>5 DEF WriteLabel, Go, TypeWork, TypeText
  <2>5. pc'[w] = "seek"
    BY <1>0, <1>5 DEF WriteLabel, Go, TypeWork
  <2>6. \A v \in Workers : v # w /\ pc[v] \in Placed => label[v] \in Nat /\ label[v] < next_label
    BY <1>0, <1>N, <2>1 DEF LabelInv, TypeText, Labels
  <2>7. \A u, v \in Workers : u # w /\ v # w /\ pc[u] \in Placed /\ pc[v] \in Placed /\ label[u] = label[v] => u = v
    BY <2>1 DEF LabelInv
  <2>8. \A v \in Workers : pc'[v] \in Placed => label'[v] < next_label'
    BY <2>2, <2>3, <2>4, <2>6
  <2>9. \A u, v \in Workers : pc'[u] \in Placed /\ pc'[v] \in Placed /\ label'[u] = label'[v] => u = v
    BY <2>2, <2>3, <2>4, <2>6, <2>7
  <2> QED
    BY <2>4, <2>5, <2>8, <2>9 DEF LabelInv
<1>6. ASSUME NEW w \in Workers, Seek(w) PROVE LabelInv'
  BY <1>0, <1>6 DEF Seek, Go, LabelInv, TypeWork, TypeText, Placed, Written
<1>7. ASSUME NEW w \in Workers, Write(w) PROVE LabelInv'
  BY <1>0, <1>7 DEF Write, Go, Meet, Others, LabelInv, TypeWork, TypeText, Placed, Written
<1>8. ASSUME NEW w \in Workers, FindGraph(w) PROVE LabelInv'
  BY <1>0, <1>8 DEF FindGraph, Go, LabelInv, TypeWork, TypeText, Placed, Written
<1>9. ASSUME NEW w \in Workers, CreateGraph(w) PROVE LabelInv'
  BY <1>0, <1>9 DEF CreateGraph, Go, Savers, LabelInv, TypeWork, TypeText, Placed, Written
<1>10. ASSUME NEW w \in Workers, Insert(w) PROVE LabelInv'
  BY <1>0, <1>10 DEF Insert, Go, Savers, LabelInv, TypeWork, TypeText, Placed, Written
<1>11. ASSUME NEW w \in Workers, Faults(w) PROVE LabelInv'
  BY <1>0, <1>11 DEF Faults, LabelInv, TypeWork, TypeText, Placed, Written
<1>12. ASSUME NEW w \in Workers, ReadCount(w) PROVE LabelInv'
  <2>1. /\ raced' = raced /\ next_label' = next_label /\ label' = label /\ pc[w] = "count"
        /\ register' = [register EXCEPT ![w] = additions] /\ pc' = [pc EXCEPT ![w] = "counted"]
    BY <1>12 DEF ReadCount, Go
  <2>2. \A v \in Workers : v # w => pc'[v] = pc[v] /\ register'[v] = register[v]
    BY <1>0, <2>1 DEF TypeWork, TypeNumbers
  <2>3. pc[w] \in Placed /\ pc'[w] = "counted"
    BY <1>0, <2>1 DEF TypeWork, Placed, Written
  <2> QED
    BY <2>1, <2>2, <2>3 DEF LabelInv
<1>13. ASSUME NEW w \in Workers, WriteCount(w) PROVE LabelInv'
  <2>1. /\ raced \subseteq raced' /\ next_label' = next_label /\ label' = label /\ pc[w] = "counted"
        /\ register' = [register EXCEPT ![w] = 0] /\ pc' = [pc EXCEPT ![w] = "entry"]
    BY <1>13 DEF WriteCount, Meet, Go
  <2>2. \A v \in Workers : v # w => pc'[v] = pc[v] /\ register'[v] = register[v]
    BY <1>0, <2>1 DEF TypeWork, TypeNumbers
  <2>3. pc[w] \in Placed /\ pc'[w] = "entry"
    BY <1>0, <2>1 DEF TypeWork, Placed, Written
  <2> QED
    BY <2>1, <2>2, <2>3 DEF LabelInv
<1>14. ASSUME NEW w \in Workers, WriteEntry(w) PROVE LabelInv'
  <2>1. /\ pc[w] = "entry" /\ raced' = raced /\ register' = register /\ next_label' = next_label
        /\ label' = [label EXCEPT ![w] = 0]
    BY <1>14 DEF WriteEntry, Return
  <2>2. pc' = [pc EXCEPT ![w] = "idle"] \/ pc' = [pc EXCEPT ![w] = "save"]
    BY <1>14 DEF WriteEntry, Go
  <2>3. /\ pc'[w] \notin Placed /\ pc'[w] # "bump"
        /\ \A v \in Workers : v # w => pc'[v] = pc[v] /\ label'[v] = label[v]
    BY <1>0, <2>1, <2>2 DEF TypeWork, TypeText, Placed, Written
  <2> QED
    BY <2>1, <2>3 DEF LabelInv
<1>15. ASSUME NEW w \in Workers, NothingToSave(w) PROVE LabelInv'
  BY <1>0, <1>15 DEF NothingToSave, Go, LabelInv, TypeWork, TypeText, Placed, Written
<1>16. ASSUME NEW w \in Workers, BeginSave(w) PROVE LabelInv'
  BY <1>0, <1>16 DEF BeginSave, Go, Savers, Meet, Others, LabelInv, TypeWork, TypeText, Placed,
     Written
<1>17. ASSUME NEW w \in Workers, EndImage(w) PROVE LabelInv'
  <2>1. /\ raced' = raced /\ next_label' = next_label /\ label' = label
        /\ register' = [register EXCEPT ![w] = additions] /\ pc' = [pc EXCEPT ![w] = "minus"]
    BY <1>17 DEF EndImage, Go
  <2>2. \A v \in Workers : v # w => pc'[v] = pc[v] /\ register'[v] = register[v]
    BY <1>0, <2>1 DEF TypeWork, TypeNumbers
  <2>3. pc'[w] \notin Placed /\ pc'[w] # "bump"
    BY <1>0, <2>1 DEF TypeWork, Placed, Written
  <2> QED
    BY <2>1, <2>2, <2>3 DEF LabelInv
<1>18. ASSUME NEW w \in Workers, EndSave(w) PROVE LabelInv'
  <2>1. /\ pc[w] = "minus" /\ raced \subseteq raced' /\ next_label' = next_label /\ label' = label
        /\ register' = [register EXCEPT ![w] = 0]
    BY <1>18 DEF EndSave, Meet
  <2>2. pc' = [pc EXCEPT ![w] = "idle"] \/ pc' = [pc EXCEPT ![w] = "save"]
    BY <1>18 DEF EndSave, Go
  <2>3. /\ pc'[w] \notin Placed /\ pc'[w] # "bump"
        /\ \A v \in Workers : v # w => pc'[v] = pc[v] /\ register'[v] = register[v]
    BY <1>0, <2>1, <2>2 DEF TypeWork, TypeNumbers, Placed, Written
  <2> QED
    BY <2>1, <2>3 DEF LabelInv
<1>19. CASE Join
  BY <1>19 DEF Join, LabelInv
<1>20. CASE FinalFlush
  BY <1>20 DEF FinalFlush, LabelInv
<1> QED
  BY <1>1, <1>2, <1>3, <1>4, <1>5, <1>6, <1>7, <1>8, <1>9, <1>10, <1>11, <1>12, <1>13, <1>14,
     <1>15, <1>16, <1>17, <1>18, <1>19, <1>20 DEF Next, Append1

\* Each step keeps vectors and entries together.
LEMMA MixedStep ==
    ASSUME TypeOK, TypeOK', RoomInv, LabelInv, LabelInv', MixedInv, Next
    PROVE  MixedInv'
<1>0. TypeWork /\ TypeText /\ TypeNumbers /\ TypeGraph
  BY TypeParts
<1>N. Len(Sids) \in Nat /\ Items = 1 .. Len(Sids) /\ Sids \in [1 .. Len(Sids) -> Nat \ {0}]
  BY ConstantsAssumption, LenProperties DEF Items
<1> USE DEF work, local, text, index, saving
<1>1. ASSUME NEW w \in Workers, Take(w) PROVE MixedInv'
  BY <1>0, <1>1 DEF Take, Go, NewSid, MixedInv, TypeWork, Fresh, Inserted
<1>2. ASSUME NEW w \in Workers, Exit(w) PROVE MixedInv'
  BY <1>0, <1>2 DEF Exit, Go, MixedInv, TypeWork, Fresh, Inserted
<1>3. ASSUME NEW w \in Workers, NoteSid(w) PROVE MixedInv'
  BY <1>0, <1>3 DEF NoteSid, Go, Meet, Others, MixedInv, TypeWork, Fresh, Inserted
<1>4. ASSUME NEW w \in Workers, ReadLabel(w) PROVE MixedInv'
  BY <1>0, <1>4 DEF ReadLabel, Go, MixedInv, TypeWork, Fresh, Inserted
<1>5. ASSUME NEW w \in Workers, WriteLabel(w) PROVE MixedInv'
  <2> SUFFICES ASSUME "label" \notin raced'
               PROVE  MixedInv'
    BY DEF MixedInv
  <2>1. /\ "label" \notin raced /\ vec' = vec /\ entries' = entries /\ item' = item
        /\ pc[w] = "bump" /\ pc' = [pc EXCEPT ![w] = "seek"]
    BY <1>5 DEF WriteLabel, Meet, Go
  <2>2. next_label \in Nat /\ next_label' = next_label + 1 /\ label'[w] = next_label
    BY <1>0, <1>N, <2>1, <1>5 DEF WriteLabel, Bump, TypeText, LabelInv
  <2>3. \A v \in Workers : v # w => pc'[v] = pc[v] /\ label'[v] = label[v]
    BY <1>0, <2>1, <1>5 DEF WriteLabel, TypeWork, TypeText
  <2>4. \A l \in Labels : l >= next_label => vec[l] = 0
    BY <2>1 DEF MixedInv
  <2>5. next_label \in Labels
    BY <1>N, <2>1, <2>2, <1>5, InHand DEF InText, Uncounted, Unwritten, Unlabelled, LabelInv, Labels
  <2>6. \A l \in Labels : l >= next_label' => vec'[l] = 0
    BY <2>1, <2>2, <2>4 DEF Labels
  <2>7. pc'[w] = "seek" /\ vec'[label'[w]] = 0
    BY <1>0, <2>1, <2>2, <2>4, <2>5 DEF TypeWork
  <2>8. \A l \in Labels :
           \/ vec'[l] \in {0, entries'[l].item}
           \/ \E v \in Workers : pc'[v] \in Inserted /\ label'[v] = l
    BY <2>1, <2>3 DEF MixedInv, Inserted
  <2>9. \A v \in Workers :
          /\ pc'[v] \in Fresh => vec'[label'[v]] = 0
          /\ pc'[v] \in Inserted => vec'[label'[v]] \in {0, item'[v]}
    BY <2>1, <2>3, <2>7 DEF MixedInv, Inserted, Fresh
  <2> QED
    BY <2>6, <2>8, <2>9 DEF MixedInv
<1>6. ASSUME NEW w \in Workers, Seek(w) PROVE MixedInv'
  BY <1>0, <1>6 DEF Seek, Go, MixedInv, TypeWork, Fresh, Inserted
<1>7. ASSUME NEW w \in Workers, Write(w) PROVE MixedInv'
  BY <1>0, <1>7 DEF Write, Go, Meet, Others, MixedInv, TypeWork, Fresh, Inserted
<1>8. ASSUME NEW w \in Workers, FindGraph(w) PROVE MixedInv'
  BY <1>0, <1>8 DEF FindGraph, Go, MixedInv, TypeWork, Fresh, Inserted
<1>9. ASSUME NEW w \in Workers, CreateGraph(w) PROVE MixedInv'
  <2>1. /\ raced \subseteq raced' /\ vec' = [l \in Labels |-> 0] /\ label' = label
        /\ pc' = [pc EXCEPT ![w] = "insert"]
    BY <1>9 DEF CreateGraph, Nothing, Go
  <2>2. \A v \in Workers : pc'[v] \in Fresh \cup Inserted => label'[v] \in Labels
    <3>1. \A v \in Workers : pc'[v] \in Fresh \cup Inserted => pc[v] \in InText
      BY <1>0, <2>1, <1>9 DEF CreateGraph, TypeWork, Fresh, Inserted, InText, Uncounted,
         Unwritten, Unlabelled
    <3> QED
      BY <2>1, <3>1, InHand
  <2> QED
    BY <2>1, <2>2 DEF MixedInv, Fresh, Inserted
<1>10. ASSUME NEW w \in Workers, Insert(w) PROVE MixedInv'
  <2> SUFFICES ASSUME "label" \notin raced
               PROVE  MixedInv'
    BY <1>10 DEF MixedInv, Insert
  <2>1. /\ raced' = raced /\ entries' = entries /\ item' = item /\ label' = label
        /\ next_label' = next_label
        /\ pc[w] = "insert" /\ pc' = [pc EXCEPT ![w] = "count"]
    BY <1>10 DEF Insert, Go
  <2>2. label[w] \in Labels /\ item[w] \in Items
    BY <2>1, InHand DEF InText, Uncounted
  <2>3. label[w] < next_label /\ vec[label[w]] = 0
    BY <2>1 DEF LabelInv, MixedInv, Placed, Written, Fresh
  <2>4. vec'[label[w]] \in {0, item[w]} /\ \A l \in Labels : l # label[w] => vec'[l] = vec[l]
    BY <1>0, <2>2, <2>3, <1>10 DEF Insert, TypeGraph
  <2>5. \A v \in Workers : v # w /\ pc[v] \in Placed => label[v] # label[w] /\ label[v] \in Labels
    <3>1. \A v \in Workers : pc[v] \in Placed => pc[v] \in InText
      BY DEF Placed, Written, InText, Uncounted, Unwritten
    <3> QED
      BY <2>1, <3>1, InHand DEF LabelInv, Placed, Written
  <2>6. pc'[w] = "count" /\ \A v \in Workers : v # w => pc'[v] = pc[v]
    BY <1>0, <2>1 DEF TypeWork
  <2>7. \A l \in Labels : l >= next_label' => vec'[l] = 0
    <3>1. label[w] \in Int /\ next_label \in Int
      BY <1>0, <1>N, <2>2 DEF TypeText, Labels
    <3>2. \A l \in Labels : l \in Int /\ (l >= next_label => l # label[w])
      BY <2>3, <3>1, <1>N DEF Labels
    <3> QED
      BY <2>1, <2>4, <3>2 DEF MixedInv
  <2>8. \A v \in Workers :
          /\ pc'[v] \in Fresh => vec'[label'[v]] = 0
          /\ pc'[v] \in Inserted => vec'[label'[v]] \in {0, item'[v]}
    <3>1. ASSUME NEW v \in Workers, v # w, pc[v] \in Placed
          PROVE  /\ pc'[v] \in Fresh => vec'[label'[v]] = 0
                 /\ pc'[v] \in Inserted => vec'[label'[v]] \in {0, item'[v]}
      BY <2>1, <2>4, <2>5, <2>6, <3>1 DEF MixedInv
    <3>2. \A v \in Workers : pc[v] \in Fresh \cup Inserted => pc[v] \in Placed
      BY DEF Fresh, Inserted, Placed, Written
    <3>3. pc'[w] \notin Fresh /\ vec'[label'[w]] \in {0, item'[w]}
      BY <2>1, <2>4, <2>6 DEF Fresh
    <3> QED
      BY <2>6, <3>1, <3>2, <3>3
  <2>9. \A l \in Labels :
           \/ vec'[l] \in {0, entries'[l].item}
           \/ \E v \in Workers : pc'[v] \in Inserted /\ label'[v] = l
    <3>1. pc'[w] \in Inserted /\ pc[w] \notin Inserted
      BY <2>1, <2>6 DEF Inserted
    <3> QED
      BY <2>1, <2>4, <2>6, <3>1 DEF MixedInv
  <2> QED
    BY <2>1, <2>7, <2>8, <2>9 DEF MixedInv
<1>11. ASSUME NEW w \in Workers, Faults(w) PROVE MixedInv'
  BY <1>11 DEF Faults, MixedInv
<1>12. ASSUME NEW w \in Workers, ReadCount(w) PROVE MixedInv'
  BY <1>0, <1>12 DEF ReadCount, Go, MixedInv, TypeWork, Fresh, Inserted
<1>13. ASSUME NEW w \in Workers, WriteCount(w) PROVE MixedInv'
  BY <1>0, <1>13 DEF WriteCount, Go, Meet, Others, MixedInv, TypeWork, Fresh, Inserted
<1>14. ASSUME NEW w \in Workers, WriteEntry(w) PROVE MixedInv'
  <2>1. /\ pc[w] = "entry" /\ raced' = raced /\ next_label' = next_label /\ vec' = vec
        /\ label' = [label EXCEPT ![w] = 0] /\ item' = [item EXCEPT ![w] = 0]
        /\ entries' = [entries EXCEPT ![label[w]] = [item |-> item[w], pos |-> pos[w]]]
    BY <1>14 DEF WriteEntry, Return, PutEntry
  <2>2. pc' = [pc EXCEPT ![w] = "idle"] \/ pc' = [pc EXCEPT ![w] = "save"]
    BY <1>14 DEF WriteEntry, Go
  <2> SUFFICES ASSUME "label" \notin raced
               PROVE  MixedInv'
    BY <2>1 DEF MixedInv
  <2>3. /\ pc'[w] \notin Fresh \cup Inserted
        /\ \A v \in Workers : v # w => pc'[v] = pc[v] /\ label'[v] = label[v] /\ item'[v] = item[v]
    BY <1>0, <2>1, <2>2 DEF TypeWork, TypeText, Fresh, Inserted
  <2>4. label[w] \in Labels /\ vec[label[w]] \in {0, item[w]}
    BY <2>1, InHand DEF InText, MixedInv, Inserted
  <2>5. /\ entries'[label[w]].item = item[w]
        /\ \A l \in Labels : l # label[w] => entries'[l] = entries[l]
    BY <1>0, <2>1, <2>4 DEF TypeText
  <2>6. ASSUME NEW l \in Labels, vec'[l] \notin {0, entries'[l].item}
        PROVE  \E v \in Workers : pc'[v] \in Inserted /\ label'[v] = l
    <3>1. l # label[w]
      BY <2>1, <2>4, <2>5, <2>6
    <3>2. PICK v \in Workers : pc[v] \in Inserted /\ label[v] = l
      BY <2>1, <2>5, <2>6, <3>1 DEF MixedInv
    <3> QED
      BY <2>3, <3>1, <3>2
  <2>7. \A v \in Workers :
          /\ pc'[v] \in Fresh => vec'[label'[v]] = 0
          /\ pc'[v] \in Inserted => vec'[label'[v]] \in {0, item'[v]}
    BY <2>1, <2>3 DEF MixedInv
  <2>8. \A l \in Labels : l >= next_label' => vec'[l] = 0
    BY <2>1 DEF MixedInv
  <2> QED
    BY <2>6, <2>7, <2>8 DEF MixedInv
<1>15. ASSUME NEW w \in Workers, NothingToSave(w) PROVE MixedInv'
  BY <1>0, <1>15 DEF NothingToSave, Go, MixedInv, TypeWork, Fresh, Inserted
<1>16. ASSUME NEW w \in Workers, BeginSave(w) PROVE MixedInv'
  BY <1>0, <1>16 DEF BeginSave, Go, Savers, Meet, Others, MixedInv, TypeWork, Fresh, Inserted
<1>17. ASSUME NEW w \in Workers, EndImage(w) PROVE MixedInv'
  BY <1>0, <1>17 DEF EndImage, Go, MixedInv, TypeWork, Fresh, Inserted
<1>18. ASSUME NEW w \in Workers, EndSave(w) PROVE MixedInv'
  <2>1. /\ pc[w] = "minus" /\ raced \subseteq raced' /\ next_label' = next_label /\ label' = label
        /\ vec' = vec /\ entries' = entries /\ item' = item
    BY <1>18 DEF EndSave, Meet
  <2>2. pc' = [pc EXCEPT ![w] = "idle"] \/ pc' = [pc EXCEPT ![w] = "save"]
    BY <1>18 DEF EndSave, Go
  <2>3. /\ pc[w] \notin Fresh \cup Inserted /\ pc'[w] \notin Fresh \cup Inserted
        /\ \A v \in Workers : v # w => pc'[v] = pc[v]
    BY <1>0, <2>1, <2>2 DEF TypeWork, Fresh, Inserted
  <2> QED
    BY <2>1, <2>3 DEF MixedInv
<1>19. CASE Join
  BY <1>19 DEF Join, MixedInv
<1>20. CASE FinalFlush
  BY <1>20 DEF FinalFlush, MixedInv
<1> QED
  BY <1>1, <1>2, <1>3, <1>4, <1>5, <1>6, <1>7, <1>8, <1>9, <1>10, <1>11, <1>12, <1>13, <1>14,
     <1>15, <1>16, <1>17, <1>18, <1>19, <1>20 DEF Next, Append1

-----------------------------------------------------------------------------
(* The sentence store.                                                     *)

\* Unless two were between the seek and the write at once, a text is where its append
\* believes it to be.
PosInv ==
    "text" \notin raced =>
        \A w \in Workers :
            /\ pc[w] = "write" => pos[w] = Len(sentences) + 1
            /\ pc[w] \in Written => pos[w] \in 1 .. Len(sentences) /\ sentences[pos[w]] = item[w]

\* Each step keeps the texts where their appends believe them to be.
LEMMA PosStep ==
    ASSUME TypeOK, TypeOK', RoomInv, PosInv, Next
    PROVE  PosInv'
<1>0. TypeWork /\ TypeText /\ TypeNumbers /\ TypeGraph
  BY TypeParts
<1>N. Len(Sids) \in Nat /\ Items = 1 .. Len(Sids) /\ Sids \in [1 .. Len(Sids) -> Nat \ {0}]
  BY ConstantsAssumption, LenProperties DEF Items
<1> USE DEF work, local, text, index, saving
<1>1. ASSUME NEW w \in Workers, Take(w) PROVE PosInv'
  BY <1>0, <1>1 DEF Take, Go, NewSid, PosInv, TypeWork, TypeText, Written
<1>2. ASSUME NEW w \in Workers, Exit(w) PROVE PosInv'
  BY <1>0, <1>2 DEF Exit, Go, PosInv, TypeWork, TypeText, Written
<1>3. ASSUME NEW w \in Workers, NoteSid(w) PROVE PosInv'
  BY <1>0, <1>3 DEF NoteSid, Go, Meet, Others, PosInv, TypeWork, TypeText, Written
<1>4. ASSUME NEW w \in Workers, ReadLabel(w) PROVE PosInv'
  BY <1>0, <1>4 DEF ReadLabel, Go, PosInv, TypeWork, TypeText, Written
<1>5. ASSUME NEW w \in Workers, WriteLabel(w) PROVE PosInv'
  BY <1>0, <1>5 DEF WriteLabel, Go, Bump, Meet, Others, PosInv, TypeWork, TypeText, Written
<1>6. ASSUME NEW w \in Workers, Seek(w) PROVE PosInv'
  <2>1. /\ raced' = raced /\ sentences' = sentences /\ item' = item
        /\ pos' = [pos EXCEPT ![w] = Len(sentences) + 1] /\ pc' = [pc EXCEPT ![w] = "write"]
    BY <1>6 DEF Seek, Go
  <2>2. /\ pos'[w] = Len(sentences) + 1 /\ pc'[w] = "write"
        /\ \A v \in Workers : v # w => pc'[v] = pc[v] /\ pos'[v] = pos[v]
    BY <1>0, <2>1 DEF TypeWork, TypeText
  <2>3. "write" \notin Written
    BY DEF Written
  <2> QED
    BY <2>1, <2>2, <2>3 DEF PosInv
<1>7. ASSUME NEW w \in Workers, Write(w) PROVE PosInv'
  <2> SUFFICES ASSUME "text" \notin raced'
               PROVE  PosInv'
    BY DEF PosInv
  <2>1. /\ "text" \notin raced /\ sentences' = Append(sentences, item[w]) /\ item' = item /\ pos' = pos
        /\ pc[w] = "write" /\ pc' = [pc EXCEPT ![w] = "graph"]
        /\ \A v \in Workers : v # w => pc[v] # "write"
    BY <1>7 DEF Write, Meet, Others, Go
  <2>2. item[w] \in Items /\ sentences \in Seq(Items) /\ Len(sentences) \in Nat
    BY <1>0, <2>1, InHand, LenProperties DEF InText, Uncounted, Unwritten, TypeText
  <2>3. /\ Len(sentences') = Len(sentences) + 1 /\ sentences'[Len(sentences) + 1] = item[w]
        /\ \A p \in 1 .. Len(sentences) : sentences'[p] = sentences[p]
    BY <2>1, <2>2, AppendProperties
  <2>4. pc'[w] = "graph" /\ \A v \in Workers : v # w => pc'[v] = pc[v]
    BY <1>0, <2>1 DEF TypeWork
  <2>5. pos'[w] = Len(sentences) + 1
    BY <2>1 DEF PosInv
  <2>6. \A v \in Workers : pc[v] \in Written =>
           pos[v] \in 1 .. Len(sentences) /\ sentences[pos[v]] = item[v]
    BY <2>1 DEF PosInv
  <2>7. ASSUME NEW v \in Workers, pc'[v] \in Written
        PROVE  pos'[v] \in 1 .. Len(sentences') /\ sentences'[pos'[v]] = item'[v]
    <3>1. CASE v = w
      BY <2>1, <2>2, <2>3, <2>5, <3>1
    <3>2. CASE v # w
      <4>1. pos[v] \in 1 .. Len(sentences) /\ sentences[pos[v]] = item[v]
        BY <2>4, <2>6, <2>7, <3>2
      <4> QED
        BY <2>1, <2>2, <2>3, <4>1
    <3> QED
      BY <3>1, <3>2
  <2> QED
    BY <2>1, <2>4, <2>7 DEF PosInv
<1>8. ASSUME NEW w \in Workers, FindGraph(w) PROVE PosInv'
  BY <1>0, <1>8 DEF FindGraph, Go, PosInv, TypeWork, TypeText, Written
<1>9. ASSUME NEW w \in Workers, CreateGraph(w) PROVE PosInv'
  BY <1>0, <1>9 DEF CreateGraph, Go, Savers, PosInv, TypeWork, TypeText, Written
<1>10. ASSUME NEW w \in Workers, Insert(w) PROVE PosInv'
  BY <1>0, <1>10 DEF Insert, Go, Savers, PosInv, TypeWork, TypeText, Written
<1>11. ASSUME NEW w \in Workers, Faults(w) PROVE PosInv'
  BY <1>11 DEF Faults, PosInv
<1>12. ASSUME NEW w \in Workers, ReadCount(w) PROVE PosInv'
  BY <1>0, <1>12 DEF ReadCount, Go, PosInv, TypeWork, TypeText, Written
<1>13. ASSUME NEW w \in Workers, WriteCount(w) PROVE PosInv'
  BY <1>0, <1>13 DEF WriteCount, Go, Meet, Others, PosInv, TypeWork, TypeText, Written
<1>14. ASSUME NEW w \in Workers, WriteEntry(w) PROVE PosInv'
  <2>1. /\ pc[w] = "entry" /\ raced' = raced /\ sentences' = sentences
        /\ pos' = [pos EXCEPT ![w] = 0] /\ item' = [item EXCEPT ![w] = 0]
    BY <1>14 DEF WriteEntry, Return
  <2>2. pc' = [pc EXCEPT ![w] = "idle"] \/ pc' = [pc EXCEPT ![w] = "save"]
    BY <1>14 DEF WriteEntry, Go
  <2>3. /\ pc'[w] \notin Written \cup {"write"}
        /\ \A v \in Workers : v # w => pc'[v] = pc[v] /\ pos'[v] = pos[v] /\ item'[v] = item[v]
    BY <1>0, <2>1, <2>2 DEF TypeWork, TypeText, Written
  <2> QED
    BY <2>1, <2>3 DEF PosInv
<1>15. ASSUME NEW w \in Workers, NothingToSave(w) PROVE PosInv'
  BY <1>0, <1>15 DEF NothingToSave, Go, PosInv, TypeWork, TypeText, Written
<1>16. ASSUME NEW w \in Workers, BeginSave(w) PROVE PosInv'
  BY <1>0, <1>16 DEF BeginSave, Go, Savers, Meet, Others, PosInv, TypeWork, TypeText, Written
<1>17. ASSUME NEW w \in Workers, EndImage(w) PROVE PosInv'
  BY <1>0, <1>17 DEF EndImage, Go, PosInv, TypeWork, TypeText, Written
<1>18. ASSUME NEW w \in Workers, EndSave(w) PROVE PosInv'
  <2>1. /\ pc[w] = "minus" /\ raced \subseteq raced' /\ sentences' = sentences /\ pos' = pos /\ item' = item
    BY <1>18 DEF EndSave, Meet
  <2>2. pc' = [pc EXCEPT ![w] = "idle"] \/ pc' = [pc EXCEPT ![w] = "save"]
    BY <1>18 DEF EndSave, Go
  <2>3. /\ pc'[w] \notin Written \cup {"write"}
        /\ \A v \in Workers : v # w => pc'[v] = pc[v]
    BY <1>0, <2>1, <2>2 DEF TypeWork, Written
  <2> QED
    BY <2>1, <2>3 DEF PosInv
<1>19. CASE Join
  BY <1>19 DEF Join, PosInv
<1>20. CASE FinalFlush
  BY <1>20 DEF FinalFlush, PosInv
<1> QED
  BY <1>1, <1>2, <1>3, <1>4, <1>5, <1>6, <1>7, <1>8, <1>9, <1>10, <1>11, <1>12, <1>13, <1>14,
     <1>15, <1>16, <1>17, <1>18, <1>19, <1>20 DEF Next, Append1

-----------------------------------------------------------------------------
(* The graph.                                                              *)

\* Unless two were in allocate_label or creating the graph at once, a point goes into
\* the one graph there is, and stays there.
GraphInv ==
    raced \cap {"label", "graph"} = {} =>
        /\ \A w \in Workers :
              /\ pc[w] = "insert" => mine[w] = graph
              /\ pc[w] \in Inserted \cup {"insert"} => graph > 0
              /\ pc[w] \in Inserted => vec[label[w]] = item[w]
        /\ graph = 0 => vec = Nothing

\* Each step keeps the points in the graph.
LEMMA GraphStep ==
    ASSUME TypeOK, TypeOK', RoomInv, LabelInv, GraphInv, Next
    PROVE  GraphInv'
<1>0. TypeWork /\ TypeText /\ TypeNumbers /\ TypeGraph
  BY TypeParts
<1>N. Len(Sids) \in Nat /\ Items = 1 .. Len(Sids) /\ Sids \in [1 .. Len(Sids) -> Nat \ {0}]
  BY ConstantsAssumption, LenProperties DEF Items
<1> USE DEF work, local, text, index, saving
<1>1. ASSUME NEW w \in Workers, Take(w) PROVE GraphInv'
  BY <1>0, <1>1 DEF Take, Go, NewSid, GraphInv, TypeWork, TypeText, TypeNumbers, Inserted
<1>2. ASSUME NEW w \in Workers, Exit(w) PROVE GraphInv'
  BY <1>0, <1>2 DEF Exit, Go, GraphInv, TypeWork, TypeText, TypeNumbers, Inserted
<1>3. ASSUME NEW w \in Workers, NoteSid(w) PROVE GraphInv'
  BY <1>0, <1>3 DEF NoteSid, Go, Meet, Others, GraphInv, TypeWork, TypeText, TypeNumbers, Inserted
<1>4. ASSUME NEW w \in Workers, ReadLabel(w) PROVE GraphInv'
  BY <1>0, <1>4 DEF ReadLabel, Go, GraphInv, TypeWork, TypeText, TypeNumbers, Inserted
<1>5. ASSUME NEW w \in Workers, WriteLabel(w) PROVE GraphInv'
  BY <1>0, <1>5 DEF WriteLabel, Go, Bump, Meet, Others, GraphInv, TypeWork, TypeText,
     TypeNumbers, Inserted
<1>6. ASSUME NEW w \in Workers, Seek(w) PROVE GraphInv'
  BY <1>0, <1>6 DEF Seek, Go, GraphInv, TypeWork, TypeText, TypeNumbers, Inserted
<1>7. ASSUME NEW w \in Workers, Write(w) PROVE GraphInv'
  BY <1>0, <1>7 DEF Write, Go, Meet, Others, GraphInv, TypeWork, TypeText, TypeNumbers, Inserted
<1>8. ASSUME NEW w \in Workers, FindGraph(w) PROVE GraphInv'
  <2>1. /\ raced' = raced /\ graph' = graph /\ vec' = vec /\ label' = label /\ item' = item
        /\ mine' = [mine EXCEPT ![w] = graph]
        /\ pc' = [pc EXCEPT ![w] = IF graph = 0 THEN "create" ELSE "insert"]
    BY <1>8 DEF FindGraph, Go
  <2>2. /\ mine'[w] = graph /\ graph \in Nat /\ pc'[w] \notin Inserted
        /\ (pc'[w] = "insert" => graph > 0)
        /\ \A v \in Workers : v # w => pc'[v] = pc[v] /\ mine'[v] = mine[v]
    BY <1>0, <2>1 DEF TypeWork, TypeNumbers, TypeGraph, Inserted
  <2> QED
    BY <2>1, <2>2 DEF GraphInv
<1>9. ASSUME NEW w \in Workers, CreateGraph(w) PROVE GraphInv'
  <2> SUFFICES ASSUME raced' \cap {"label", "graph"} = {}
               PROVE  GraphInv'
    BY DEF GraphInv
  <2>1. /\ raced \cap {"label", "graph"} = {} /\ graph \in Nat /\ graph = 0 /\ vec = Nothing
        /\ graph' = 1 /\ vec' = vec /\ label' = label /\ item' = item
        /\ mine' = [mine EXCEPT ![w] = 1] /\ pc' = [pc EXCEPT ![w] = "insert"]
    <3>1. graph \in Nat
      BY <1>0 DEF TypeGraph
    <3>2. raced' = raced /\ graph = 0
      BY <3>1, <1>9 DEF CreateGraph
    <3>3. vec = Nothing
      BY <3>2 DEF GraphInv
    <3> QED
      BY <3>1, <3>2, <3>3, <1>9 DEF CreateGraph, Go
  <2>2. /\ mine'[w] = 1 /\ pc'[w] = "insert" /\ \A v \in Workers : v # w => pc'[v] = pc[v]
    BY <1>0, <2>1 DEF TypeWork, TypeNumbers
  <2>3. \A v \in Workers : pc[v] \notin Inserted \cup {"insert"}
    BY <2>1 DEF GraphInv
  <2>4. "insert" \notin Inserted
    BY DEF Inserted
  <2> QED
    BY <2>1, <2>2, <2>3, <2>4 DEF GraphInv
<1>10. ASSUME NEW w \in Workers, Insert(w) PROVE GraphInv'
  <2> SUFFICES ASSUME raced \cap {"label", "graph"} = {}
               PROVE  GraphInv'
    BY <1>10 DEF Insert, GraphInv
  <2>1. /\ graph' = graph /\ label' = label /\ item' = item /\ mine' = [mine EXCEPT ![w] = 0]
        /\ pc[w] = "insert" /\ pc' = [pc EXCEPT ![w] = "count"]
    BY <1>10 DEF Insert, Go
  <2>2. label[w] \in Labels /\ graph > 0 /\ graph \in Nat
    BY <1>0, <2>1, InHand DEF InText, Uncounted, TypeGraph, GraphInv
  <2>3. vec'[label[w]] = item[w] /\ \A l \in Labels : l # label[w] => vec'[l] = vec[l]
    BY <1>0, <2>1, <2>2, <1>10 DEF Insert, TypeGraph, GraphInv
  <2>4. /\ pc'[w] = "count"
        /\ \A v \in Workers : v # w => pc'[v] = pc[v] /\ mine'[v] = mine[v]
    BY <1>0, <2>1 DEF TypeWork, TypeNumbers
  <2>5. ASSUME NEW v \in Workers, v # w, pc[v] \in Inserted
        PROVE  vec'[label[v]] = item[v]
    <3>1. pc[v] \in Placed /\ pc[w] \in Placed /\ pc[v] \in InText
      BY <2>1, <2>5 DEF Inserted, Placed, Written, InText, Uncounted
    <3>2. label[v] # label[w]
      BY <2>5, <3>1 DEF LabelInv
    <3>3. label[v] \in Labels /\ vec[label[v]] = item[v]
      BY <2>5, <3>1, InHand DEF GraphInv
    <3> QED
      BY <2>3, <3>2, <3>3
  <2> QED
    BY <2>1, <2>2, <2>3, <2>4, <2>5 DEF GraphInv
<1>11. ASSUME NEW w \in Workers, Faults(w) PROVE GraphInv'
  BY <1>11 DEF Faults, GraphInv
<1>12. ASSUME NEW w \in Workers, ReadCount(w) PROVE GraphInv'
  BY <1>0, <1>12 DEF ReadCount, Go, GraphInv, TypeWork, TypeText, TypeNumbers, Inserted
<1>13. ASSUME NEW w \in Workers, WriteCount(w) PROVE GraphInv'
  BY <1>0, <1>13 DEF WriteCount, Go, Meet, Others, GraphInv, TypeWork, TypeText, TypeNumbers,
     Inserted
<1>14. ASSUME NEW w \in Workers, WriteEntry(w) PROVE GraphInv'
  <2>1. /\ pc[w] = "entry" /\ raced' = raced /\ graph' = graph /\ vec' = vec /\ mine' = mine
        /\ label' = [label EXCEPT ![w] = 0] /\ item' = [item EXCEPT ![w] = 0]
    BY <1>14 DEF WriteEntry, Return
  <2>2. pc' = [pc EXCEPT ![w] = "idle"] \/ pc' = [pc EXCEPT ![w] = "save"]
    BY <1>14 DEF WriteEntry, Go
  <2>3. /\ pc'[w] \notin Inserted \cup {"insert"}
        /\ \A v \in Workers : v # w => pc'[v] = pc[v] /\ label'[v] = label[v] /\ item'[v] = item[v]
    BY <1>0, <2>1, <2>2 DEF TypeWork, TypeText, Inserted
  <2> QED
    BY <2>1, <2>3 DEF GraphInv
<1>15. ASSUME NEW w \in Workers, NothingToSave(w) PROVE GraphInv'
  BY <1>0, <1>15 DEF NothingToSave, Go, GraphInv, TypeWork, TypeText, TypeNumbers, Inserted
<1>16. ASSUME NEW w \in Workers, BeginSave(w) PROVE GraphInv'
  BY <1>0, <1>16 DEF BeginSave, Go, Savers, Meet, Others, GraphInv, TypeWork, TypeText,
     TypeNumbers, Inserted
<1>17. ASSUME NEW w \in Workers, EndImage(w) PROVE GraphInv'
  BY <1>0, <1>17 DEF EndImage, Go, GraphInv, TypeWork, TypeText, TypeNumbers, Inserted
<1>18. ASSUME NEW w \in Workers, EndSave(w) PROVE GraphInv'
  <2>1. /\ pc[w] = "minus" /\ raced \subseteq raced' /\ graph' = graph /\ vec' = vec /\ mine' = mine
        /\ label' = label /\ item' = item
    BY <1>18 DEF EndSave, Meet
  <2>2. pc' = [pc EXCEPT ![w] = "idle"] \/ pc' = [pc EXCEPT ![w] = "save"]
    BY <1>18 DEF EndSave, Go
  <2>3. /\ pc'[w] \notin Inserted \cup {"insert"}
        /\ \A v \in Workers : v # w => pc'[v] = pc[v]
    BY <1>0, <2>1, <2>2 DEF TypeWork, Inserted
  <2> QED
    BY <2>1, <2>3 DEF GraphInv
<1>19. CASE Join
  BY <1>19 DEF Join, GraphInv
<1>20. CASE FinalFlush
  BY <1>20 DEF FinalFlush, GraphInv
<1> QED
  BY <1>1, <1>2, <1>3, <1>4, <1>5, <1>6, <1>7, <1>8, <1>9, <1>10, <1>11, <1>12, <1>13, <1>14,
     <1>15, <1>16, <1>17, <1>18, <1>19, <1>20 DEF Next, Append1

-----------------------------------------------------------------------------
(* The texts.                                                              *)

\* A text that its append has left in the shard, under a label no append has now.
Kept(i) ==
    \E l \in Labels :
        /\ l < next_label /\ vec[l] = i /\ entries[l].item = i
        /\ entries[l].pos \in 1 .. Len(sentences) /\ sentences[entries[l].pos] = i
        /\ \A w \in Workers : pc[w] \in Placed => label[w] # l

\* Without any of these races, a text that was taken is in the hands of its worker, or
\* kept.
KeptInv ==
    raced \cap {"label", "text", "graph"} = {} =>
        \A i \in 1 .. taken : \/ Kept(i)
                              \/ \E w \in Workers : pc[w] \in InText /\ item[w] = i

\* A step that leaves the shard and the labels in use alone keeps what is kept.
LEMMA StillKept ==
    ASSUME NEW i, Kept(i), vec' = vec, entries' = entries, sentences' = sentences,
           next_label' = next_label,
           \A v \in Workers : pc'[v] \in Placed => pc[v] \in Placed /\ label'[v] = label[v]
    PROVE  Kept(i)'
  BY DEF Kept

\* So it keeps the texts.
LEMMA KeptFrame ==
    ASSUME KeptInv, raced \subseteq raced', taken' = taken,
           vec' = vec, entries' = entries, sentences' = sentences, next_label' = next_label,
           \A v \in Workers : pc'[v] \in Placed => pc[v] \in Placed /\ label'[v] = label[v],
           \A v \in Workers : pc[v] \in InText => pc'[v] \in InText /\ item'[v] = item[v]
    PROVE  KeptInv'
  BY StillKept DEF KeptInv

\* Each step keeps the texts.
LEMMA KeptStep ==
    ASSUME TypeOK, TypeOK', RoomInv, LabelInv, PosInv, GraphInv, KeptInv, Next
    PROVE  KeptInv'
<1>0. TypeWork /\ TypeText /\ TypeNumbers /\ TypeGraph
  BY TypeParts
<1>N. Len(Sids) \in Nat /\ Items = 1 .. Len(Sids) /\ Sids \in [1 .. Len(Sids) -> Nat \ {0}]
  BY ConstantsAssumption, LenProperties DEF Items
<1> USE DEF work, local, text, index, saving
<1>1. ASSUME NEW w \in Workers, Take(w) PROVE KeptInv'
  <2> SUFFICES ASSUME raced \cap {"label", "text", "graph"} = {}, NEW i \in 1 .. taken + 1, ~(Kept(i)')
               PROVE  \E v \in Workers : pc'[v] \in InText /\ item'[v] = i
    BY <1>1 DEF KeptInv, Take
  <2>1. /\ vec' = vec /\ entries' = entries /\ sentences' = sentences /\ next_label' = next_label
        /\ label' = label /\ item' = [item EXCEPT ![w] = taken + 1] /\ pc[w] = "idle"
        /\ pc' = [pc EXCEPT ![w] = IF NewSid(w) THEN "sid" ELSE "label"]
    BY <1>1 DEF Take, Go
  <2>2. /\ pc'[w] \in InText /\ pc'[w] \notin Placed /\ item'[w] = taken + 1 /\ pc[w] \notin InText
        /\ \A v \in Workers : v # w => pc'[v] = pc[v] /\ item'[v] = item[v]
    BY <1>0, <2>1 DEF TypeWork, Placed, Written, InText, Uncounted, Unwritten, Unlabelled
  <2>3. ~Kept(i)
    BY <2>1, <2>2, StillKept
  <2>4. taken \in Nat
    BY <1>0, <1>N DEF TypeWork
  <2>5. CASE i = taken + 1
    BY <2>2, <2>5
  <2>6. CASE i \in 1 .. taken
    <3>1. PICK v \in Workers : pc[v] \in InText /\ item[v] = i
      BY <2>3, <2>6 DEF KeptInv
    <3> QED
      BY <2>2, <3>1
  <2> QED
    BY <2>4, <2>5, <2>6
<1>2. ASSUME NEW w \in Workers, Exit(w) PROVE KeptInv'
  <2>1. /\ raced \subseteq raced' /\ taken' = taken /\ vec' = vec /\ entries' = entries
        /\ sentences' = sentences /\ next_label' = next_label
    BY <1>2 DEF Exit, Go
  <2>2. \A v \in Workers :
           /\ pc'[v] \in Placed => pc[v] \in Placed /\ label'[v] = label[v]
           /\ pc[v] \in InText => pc'[v] \in InText /\ item'[v] = item[v]
    BY <1>0, <1>2 DEF Exit, Go, TypeWork, Placed, Written, InText, Uncounted, Unwritten, Unlabelled
  <2> QED
    BY <2>1, <2>2, KeptFrame
<1>3. ASSUME NEW w \in Workers, NoteSid(w) PROVE KeptInv'
  <2>1. /\ raced \subseteq raced' /\ taken' = taken /\ vec' = vec /\ entries' = entries
        /\ sentences' = sentences /\ next_label' = next_label
    BY <1>3 DEF NoteSid, Go, Meet, Others
  <2>2. \A v \in Workers :
           /\ pc'[v] \in Placed => pc[v] \in Placed /\ label'[v] = label[v]
           /\ pc[v] \in InText => pc'[v] \in InText /\ item'[v] = item[v]
    BY <1>0, <1>3 DEF NoteSid, Go, Meet, Others, TypeWork, Placed, Written, InText, Uncounted,
       Unwritten, Unlabelled
  <2> QED
    BY <2>1, <2>2, KeptFrame
<1>4. ASSUME NEW w \in Workers, ReadLabel(w) PROVE KeptInv'
  <2>1. /\ raced \subseteq raced' /\ taken' = taken /\ vec' = vec /\ entries' = entries
        /\ sentences' = sentences /\ next_label' = next_label
    BY <1>4 DEF ReadLabel, Go
  <2>2. \A v \in Workers :
           /\ pc'[v] \in Placed => pc[v] \in Placed /\ label'[v] = label[v]
           /\ pc[v] \in InText => pc'[v] \in InText /\ item'[v] = item[v]
    BY <1>0, <1>4 DEF ReadLabel, Go, TypeWork, Placed, Written, InText, Uncounted, Unwritten,
       Unlabelled
  <2> QED
    BY <2>1, <2>2, KeptFrame
<1>5. ASSUME NEW w \in Workers, WriteLabel(w) PROVE KeptInv'
  <2> SUFFICES ASSUME raced' \cap {"label", "text", "graph"} = {}
               PROVE  KeptInv'
    BY DEF KeptInv
  <2>1. /\ raced \cap {"label", "text", "graph"} = {}
        /\ vec' = vec /\ entries' = entries /\ sentences' = sentences /\ item' = item /\ taken' = taken
        /\ pc[w] = "bump" /\ pc' = [pc EXCEPT ![w] = "seek"]
    BY <1>5 DEF WriteLabel, Meet, Go
  <2>2. next_label \in Nat /\ next_label' = next_label + 1 /\ label'[w] = next_label
    BY <1>0, <1>N, <2>1, <1>5 DEF WriteLabel, Bump, TypeText, LabelInv
  <2>3. \A v \in Workers : v # w => pc'[v] = pc[v] /\ label'[v] = label[v]
    BY <1>0, <2>1, <1>5 DEF WriteLabel, TypeWork, TypeText
  <2>4. pc[w] \in InText /\ pc'[w] \in InText
    BY <1>0, <2>1 DEF TypeWork, InText, Uncounted, Unwritten, Unlabelled
  <2>5. ASSUME NEW i \in 1 .. taken, Kept(i) PROVE Kept(i)'
    <3>1. PICK l \in Labels :
             /\ l < next_label /\ vec[l] = i /\ entries[l].item = i
             /\ entries[l].pos \in 1 .. Len(sentences) /\ sentences[entries[l].pos] = i
             /\ \A v \in Workers : pc[v] \in Placed => label[v] # l
      BY <2>5 DEF Kept
    <3>2. l < next_label' /\ l # next_label
      BY <1>N, <2>2, <3>1 DEF Labels
    <3>3. \A v \in Workers : pc'[v] \in Placed => label'[v] # l
      BY <2>2, <2>3, <3>1, <3>2
    <3> QED
      BY <2>1, <3>1, <3>2, <3>3 DEF Kept
  <2> QED
    BY <2>1, <2>3, <2>4, <2>5 DEF KeptInv
<1>6. ASSUME NEW w \in Workers, Seek(w) PROVE KeptInv'
  <2>1. /\ raced \subseteq raced' /\ taken' = taken /\ vec' = vec /\ entries' = entries
        /\ sentences' = sentences /\ next_label' = next_label
    BY <1>6 DEF Seek, Go
  <2>2. \A v \in Workers :
           /\ pc'[v] \in Placed => pc[v] \in Placed /\ label'[v] = label[v]
           /\ pc[v] \in InText => pc'[v] \in InText /\ item'[v] = item[v]
    BY <1>0, <1>6 DEF Seek, Go, TypeWork, Placed, Written, InText, Uncounted, Unwritten, Unlabelled
  <2> QED
    BY <2>1, <2>2, KeptFrame
<1>7. ASSUME NEW w \in Workers, Write(w) PROVE KeptInv'
  <2>1. /\ raced \subseteq raced' /\ vec' = vec /\ entries' = entries /\ item' = item /\ taken' = taken
        /\ sentences' = Append(sentences, item[w]) /\ next_label' = next_label /\ label' = label
        /\ pc[w] = "write" /\ pc' = [pc EXCEPT ![w] = "graph"]
    BY <1>7 DEF Write, Meet, Go
  <2>2. item[w] \in Items /\ sentences \in Seq(Items) /\ Len(sentences) \in Nat
    BY <1>0, <2>1, InHand, LenProperties DEF InText, Uncounted, Unwritten, TypeText
  <2>3. /\ Len(sentences') = Len(sentences) + 1
        /\ \A p \in 1 .. Len(sentences) : p \in 1 .. Len(sentences') /\ sentences'[p] = sentences[p]
    BY <2>1, <2>2, AppendProperties
  <2>4. \A v \in Workers :
           /\ pc'[v] \in Placed => pc[v] \in Placed
           /\ pc[v] \in InText => pc'[v] \in InText
    BY <1>0, <2>1 DEF TypeWork, Placed, Written, InText, Uncounted, Unwritten
  <2>5. ASSUME NEW i \in 1 .. taken, Kept(i) PROVE Kept(i)'
    <3>1. PICK l \in Labels :
             /\ l < next_label /\ vec[l] = i /\ entries[l].item = i
             /\ entries[l].pos \in 1 .. Len(sentences) /\ sentences[entries[l].pos] = i
             /\ \A v \in Workers : pc[v] \in Placed => label[v] # l
      BY <2>5 DEF Kept
    <3> QED
      BY <2>1, <2>3, <2>4, <3>1 DEF Kept
  <2> QED
    BY <2>1, <2>4, <2>5 DEF KeptInv
<1>8. ASSUME NEW w \in Workers, FindGraph(w) PROVE KeptInv'
  <2>1. /\ raced \subseteq raced' /\ taken' = taken /\ vec' = vec /\ entries' = entries
        /\ sentences' = sentences /\ next_label' = next_label
    BY <1>8 DEF FindGraph, Go
  <2>2. \A v \in Workers :
           /\ pc'[v] \in Placed => pc[v] \in Placed /\ label'[v] = label[v]
           /\ pc[v] \in InText => pc'[v] \in InText /\ item'[v] = item[v]
    BY <1>0, <1>8 DEF FindGraph, Go, TypeWork, Placed, Written, InText, Uncounted, Unwritten,
       Unlabelled
  <2> QED
    BY <2>1, <2>2, KeptFrame
<1>9. ASSUME NEW w \in Workers, CreateGraph(w) PROVE KeptInv'
  <2> SUFFICES ASSUME raced' \cap {"label", "text", "graph"} = {}
               PROVE  KeptInv'
    BY DEF KeptInv
  <2>1. /\ raced' = raced /\ graph = 0 /\ taken' = taken /\ entries' = entries
        /\ sentences' = sentences /\ next_label' = next_label
    <3>1. graph \in Nat
      BY <1>0 DEF TypeGraph
    <3> QED
      BY <3>1, <1>9 DEF CreateGraph
  <2>2. vec' = vec
    BY <2>1, <1>9 DEF CreateGraph, GraphInv
  <2>3. \A v \in Workers :
           /\ pc'[v] \in Placed => pc[v] \in Placed /\ label'[v] = label[v]
           /\ pc[v] \in InText => pc'[v] \in InText /\ item'[v] = item[v]
    BY <1>0, <1>9 DEF CreateGraph, Go, TypeWork, Placed, Written, InText, Uncounted, Unwritten,
       Unlabelled
  <2> QED
    BY <2>1, <2>2, <2>3, KeptFrame
<1>10. ASSUME NEW w \in Workers, Insert(w) PROVE KeptInv'
  <2>1. /\ raced' = raced /\ taken' = taken /\ entries' = entries /\ label' = label
        /\ sentences' = sentences /\ next_label' = next_label /\ pc[w] = "insert"
    BY <1>10 DEF Insert
  <2>2. \A v \in Workers :
           /\ pc'[v] \in Placed => pc[v] \in Placed
           /\ pc[v] \in InText => pc'[v] \in InText /\ item'[v] = item[v]
    BY <1>0, <1>10 DEF Insert, Go, TypeWork, Placed, Written, InText, Uncounted, Unwritten,
       Unlabelled
  <2>3. pc[w] \in Placed /\ label[w] \in Labels
    BY <2>1, InHand DEF Placed, Written, InText, Uncounted
  <2>4. \A l \in Labels : l # label[w] => vec'[l] = vec[l]
    BY <1>0, <2>3, <1>10 DEF Insert, TypeGraph
  <2>5. ASSUME NEW i \in 1 .. taken, Kept(i) PROVE Kept(i)'
    <3>1. PICK l \in Labels :
             /\ l < next_label /\ vec[l] = i /\ entries[l].item = i
             /\ entries[l].pos \in 1 .. Len(sentences) /\ sentences[entries[l].pos] = i
             /\ \A v \in Workers : pc[v] \in Placed => label[v] # l
      BY <2>5 DEF Kept
    <3> QED
      BY <2>1, <2>2, <2>3, <2>4, <3>1 DEF Kept
  <2> QED
    BY <2>1, <2>2, <2>5 DEF KeptInv
<1>11. ASSUME NEW w \in Workers, Faults(w) PROVE KeptInv'
  BY <1>11, KeptFrame DEF Faults
<1>12. ASSUME NEW w \in Workers, ReadCount(w) PROVE KeptInv'
  <2>1. /\ raced \subseteq raced' /\ taken' = taken /\ vec' = vec /\ entries' = entries
        /\ sentences' = sentences /\ next_label' = next_label
    BY <1>12 DEF ReadCount, Go
  <2>2. \A v \in Workers :
           /\ pc'[v] \in Placed => pc[v] \in Placed /\ label'[v] = label[v]
           /\ pc[v] \in InText => pc'[v] \in InText /\ item'[v] = item[v]
    BY <1>0, <1>12 DEF ReadCount, Go, TypeWork, Placed, Written, InText, Uncounted, Unwritten,
       Unlabelled
  <2> QED
    BY <2>1, <2>2, KeptFrame
<1>13. ASSUME NEW w \in Workers, WriteCount(w) PROVE KeptInv'
  <2>1. /\ raced \subseteq raced' /\ taken' = taken /\ vec' = vec /\ entries' = entries
        /\ sentences' = sentences /\ next_label' = next_label
    BY <1>13 DEF WriteCount, Go, Meet, Others
  <2>2. \A v \in Workers :
           /\ pc'[v] \in Placed => pc[v] \in Placed /\ label'[v] = label[v]
           /\ pc[v] \in InText => pc'[v] \in InText /\ item'[v] = item[v]
    BY <1>0, <1>13 DEF WriteCount, Go, Meet, Others, TypeWork, Placed, Written, InText,
       Uncounted, Unwritten, Unlabelled
  <2> QED
    BY <2>1, <2>2, KeptFrame
<1>14. ASSUME NEW w \in Workers, WriteEntry(w) PROVE KeptInv'
  <2>1. /\ pc[w] = "entry" /\ raced' = raced /\ taken' = taken /\ vec' = vec /\ sentences' = sentences
        /\ next_label' = next_label
        /\ label' = [label EXCEPT ![w] = 0] /\ item' = [item EXCEPT ![w] = 0]
        /\ entries' = [entries EXCEPT ![label[w]] = [item |-> item[w], pos |-> pos[w]]]
    BY <1>14 DEF WriteEntry, Return, PutEntry
  <2>2. pc' = [pc EXCEPT ![w] = "idle"] \/ pc' = [pc EXCEPT ![w] = "save"]
    BY <1>14 DEF WriteEntry, Go
  <2> SUFFICES ASSUME raced \cap {"label", "text", "graph"} = {}
               PROVE  KeptInv'
    BY <2>1 DEF KeptInv
  <2>3. /\ pc'[w] \notin Placed /\ pc[w] \in Placed /\ pc[w] \in Written /\ pc[w] \in Inserted
        /\ \A v \in Workers : v # w => pc'[v] = pc[v] /\ label'[v] = label[v] /\ item'[v] = item[v]
    BY <1>0, <2>1, <2>2 DEF TypeWork, TypeText, Placed, Written, Inserted
  <2>4. label[w] \in Labels /\ item[w] \in Items
    BY <2>1, InHand DEF InText
  <2>5. /\ entries'[label[w]] = [item |-> item[w], pos |-> pos[w]]
        /\ \A l \in Labels : l # label[w] => entries'[l] = entries[l]
    BY <1>0, <2>1, <2>4 DEF TypeText
  <2>6. ASSUME NEW i \in 1 .. taken, Kept(i) PROVE Kept(i)'
    <3>1. PICK l \in Labels :
             /\ l < next_label /\ vec[l] = i /\ entries[l].item = i
             /\ entries[l].pos \in 1 .. Len(sentences) /\ sentences[entries[l].pos] = i
             /\ \A v \in Workers : pc[v] \in Placed => label[v] # l
      BY <2>6 DEF Kept
    <3>2. l # label[w]
      BY <2>3, <3>1
    <3> QED
      BY <2>1, <2>3, <2>5, <3>1, <3>2 DEF Kept
  <2>7. ASSUME NEW i, i = item[w] PROVE Kept(i)'
    <3>1. label[w] < next_label
      BY <2>3 DEF LabelInv
    <3>2. vec[label[w]] = item[w]
      BY <2>3 DEF GraphInv
    <3>3. pos[w] \in 1 .. Len(sentences) /\ sentences[pos[w]] = item[w]
      BY <2>3 DEF PosInv
    <3>4. \A v \in Workers : pc'[v] \in Placed => label'[v] # label[w]
      BY <2>3 DEF LabelInv
    <3> QED
      BY <2>1, <2>4, <2>5, <2>7, <3>1, <3>2, <3>3, <3>4 DEF Kept
  <2>8. ASSUME NEW i \in 1 .. taken, ~(Kept(i)')
        PROVE  \E v \in Workers : pc'[v] \in InText /\ item'[v] = i
    <3>1. PICK v \in Workers : pc[v] \in InText /\ item[v] = i
      BY <2>6, <2>8 DEF KeptInv
    <3>2. v # w
      BY <2>7, <2>8, <3>1
    <3> QED
      BY <2>3, <3>1, <3>2
  <2> QED
    BY <2>1, <2>8 DEF KeptInv
<1>15. ASSUME NEW w \in Workers, NothingToSave(w) PROVE KeptInv'
  <2>1. /\ raced \subseteq raced' /\ taken' = taken /\ vec' = vec /\ entries' = entries
        /\ sentences' = sentences /\ next_label' = next_label
    BY <1>15 DEF NothingToSave, Go
  <2>2. \A v \in Workers :
           /\ pc'[v] \in Placed => pc[v] \in Placed /\ label'[v] = label[v]
           /\ pc[v] \in InText => pc'[v] \in InText /\ item'[v] = item[v]
    BY <1>0, <1>15 DEF NothingToSave, Go, TypeWork, Placed, Written, InText, Uncounted,
       Unwritten, Unlabelled
  <2> QED
    BY <2>1, <2>2, KeptFrame
<1>16. ASSUME NEW w \in Workers, BeginSave(w) PROVE KeptInv'
  <2>1. /\ raced \subseteq raced' /\ taken' = taken /\ vec' = vec /\ entries' = entries
        /\ sentences' = sentences /\ next_label' = next_label
    BY <1>16 DEF BeginSave, Go, Savers, Meet, Others
  <2>2. \A v \in Workers :
           /\ pc'[v] \in Placed => pc[v] \in Placed /\ label'[v] = label[v]
           /\ pc[v] \in InText => pc'[v] \in InText /\ item'[v] = item[v]
    BY <1>0, <1>16 DEF BeginSave, Go, Savers, Meet, Others, TypeWork, Placed, Written, InText,
       Uncounted, Unwritten, Unlabelled
  <2> QED
    BY <2>1, <2>2, KeptFrame
<1>17. ASSUME NEW w \in Workers, EndImage(w) PROVE KeptInv'
  <2>1. /\ raced \subseteq raced' /\ taken' = taken /\ vec' = vec /\ entries' = entries
        /\ sentences' = sentences /\ next_label' = next_label
    BY <1>17 DEF EndImage, Go
  <2>2. \A v \in Workers :
           /\ pc'[v] \in Placed => pc[v] \in Placed /\ label'[v] = label[v]
           /\ pc[v] \in InText => pc'[v] \in InText /\ item'[v] = item[v]
    BY <1>0, <1>17 DEF EndImage, Go, TypeWork, Placed, Written, InText, Uncounted, Unwritten,
       Unlabelled
  <2> QED
    BY <2>1, <2>2, KeptFrame
<1>18. ASSUME NEW w \in Workers, EndSave(w) PROVE KeptInv'
  <2>1. /\ pc[w] = "minus" /\ raced \subseteq raced' /\ taken' = taken /\ vec' = vec /\ entries' = entries
        /\ sentences' = sentences /\ next_label' = next_label /\ label' = label /\ item' = item
    BY <1>18 DEF EndSave, Meet
  <2>2. pc' = [pc EXCEPT ![w] = "idle"] \/ pc' = [pc EXCEPT ![w] = "save"]
    BY <1>18 DEF EndSave, Go
  <2>3. \A v \in Workers :
           /\ pc'[v] \in Placed => pc[v] \in Placed /\ label'[v] = label[v]
           /\ pc[v] \in InText => pc'[v] \in InText /\ item'[v] = item[v]
    BY <1>0, <2>1, <2>2 DEF TypeWork, Placed, Written, InText, Uncounted, Unwritten, Unlabelled
  <2> QED
    BY <2>1, <2>3, KeptFrame
<1>19. CASE Join
  BY <1>19, KeptFrame DEF Join
<1>20. CASE FinalFlush
  BY <1>20, KeptFrame DEF FinalFlush
<1> QED
  BY <1>1, <1>2, <1>3, <1>4, <1>5, <1>6, <1>7, <1>8, <1>9, <1>10, <1>11, <1>12, <1>13, <1>14,
     <1>15, <1>16, <1>17, <1>18, <1>19, <1>20 DEF Next, Append1

-----------------------------------------------------------------------------
(* The saves.                                                              *)

Saving == {"saving", "minus"}

\* What SavedHasCause excludes: two saves at once, a save and a count, a threshold that
\* the graph's own flush reaches.
Undisturbed == Len(Sids) <= IndexFlushThreshold /\ raced \cap {"count", "save"} = {}

\* Then there is one save at a time, additions_since_flush_ is what it was when a worker
\* read it, and never less than what the save will take from it.
CountInv ==
    Undisturbed =>
        /\ additions \in Nat /\ additions + Cardinality(At(Uncounted)) <= taken
        /\ \A w \in Workers : pc[w] \in {"counted", "minus"} => register[w] = additions
        /\ \A v, w \in Workers : pc[v] \in Saving /\ pc[w] \in Saving => v = w
        /\ \A w \in Workers : pc[w] \in Saving => snap[w] \in 1 .. additions

\* A worker is counting its point.
Counting == \E w \in Workers : pc[w] \in {"count", "counted"}

\* And what the image lacks is counted, beyond what a save will discount, or about to be.
ImageInv ==
    Undisturbed =>
        /\ vec # Nothing =>
              /\ \/ image = vec \/ additions > 0 \/ Counting
                 \/ \E w \in Workers : pc[w] \in Saving
              /\ \A w \in Workers :
                    \/ pc[w] = "saving" /\ w \in disturbed
                    \/ pc[w] = "minus" /\ image # vec
                    => additions > snap[w] \/ Counting
        /\ phase = "done" => image = vec

\* A step that leaves the numbers of the savers and counters alone.
LEMMA CountFrame ==
    ASSUME CountInv, raced \subseteq raced', taken' = taken, additions' = additions, snap' = snap,
           Cardinality(At(Uncounted)') = Cardinality(At(Uncounted)),
           \A v \in Workers :
              /\ pc'[v] \in {"counted", "minus"} => pc[v] \in {"counted", "minus"} /\ register'[v] = register[v]
              /\ pc'[v] \in Saving => pc[v] \in Saving
    PROVE  CountInv'
  BY DEF CountInv, Undisturbed

\* The count goes up by one, for the texts do not reach the threshold.
LEMMA CountUp ==
    ASSUME TypeOK, RoomInv, CountInv, NEW w \in Workers, WriteCount(w), Undisturbed'
    PROVE  /\ Undisturbed /\ additions \in Nat /\ additions' = additions + 1
           /\ Cardinality(At(Uncounted)) >= 1 /\ additions + Cardinality(At(Uncounted)) <= taken
<1>1. Undisturbed
  BY DEF WriteCount, Meet, Undisturbed
<1>2. /\ additions \in Nat /\ additions + Cardinality(At(Uncounted)) <= taken
      /\ register[w] = additions /\ pc[w] = "counted"
  BY <1>1 DEF CountInv, WriteCount
<1>3. Cardinality(At(Uncounted)) \in Nat /\ Cardinality(At(Uncounted)) >= 1
  BY <1>2, Counted DEF Uncounted
<1>4. taken \in Nat /\ taken <= Len(Sids) /\ Len(Sids) \in Nat /\ Len(Sids) <= IndexFlushThreshold
  BY <1>1, InHand DEF Undisturbed
<1>5. additions + 1 <= IndexFlushThreshold /\ IndexFlushThreshold \in Nat
  BY <1>2, <1>3, <1>4, ConstantsAssumption
<1>6. additions' = additions + 1
  BY <1>2, <1>5 DEF WriteCount
<1> QED
  BY <1>1, <1>2, <1>3, <1>6

\* Each step keeps the count.
LEMMA CountStep ==
    ASSUME TypeOK, TypeOK', RoomInv, CountInv, Next
    PROVE  CountInv'
<1>0. TypeWork /\ TypeText /\ TypeNumbers /\ TypeGraph
  BY TypeParts
<1>N. Len(Sids) \in Nat /\ Items = 1 .. Len(Sids) /\ Sids \in [1 .. Len(Sids) -> Nat \ {0}]
  BY ConstantsAssumption, LenProperties DEF Items
<1>C. Cardinality(At(Uncounted)) \in Nat /\ taken \in Nat /\ additions \in Int
  BY <1>0, <1>N, Counted DEF TypeWork, TypeNumbers
<1> USE DEF work, local, text, index, saving
<1>1. ASSUME NEW w \in Workers, Take(w) PROVE CountInv'
  <2>1. /\ raced' = raced /\ taken' = taken + 1 /\ additions' = additions /\ snap' = snap
        /\ register' = register
    BY <1>1 DEF Take
  <2>2. PICK place \in {"sid", "label"} : pc[w] = "idle" /\ Go(w, place)
    BY <1>1 DEF Take
  <2>3. Cardinality(At(Uncounted)') = Cardinality(At(Uncounted)) + 1
    BY <1>C, <2>2, Moved DEF Uncounted, Unwritten, Unlabelled
  <2>4. \A v \in Workers : pc'[v] \in {"counted", "minus"} \cup Saving => pc'[v] = pc[v]
    BY <1>0, <2>2 DEF Go, TypeWork, Saving
  <2>5. additions + Cardinality(At(Uncounted)) <= taken =>
           additions' + Cardinality(At(Uncounted))' <= taken'
    BY <1>C, <2>1, <2>3
  <2> QED
    BY <2>1, <2>4, <2>5 DEF CountInv, Undisturbed
<1>2. ASSUME NEW w \in Workers, Exit(w) PROVE CountInv'
  <2>1. /\ raced \subseteq raced' /\ taken' = taken /\ additions' = additions /\ snap' = snap
        /\ register' = register
    BY <1>2 DEF Exit
  <2>2. PICK place \in {"exit"} : pc[w] = "idle" /\ Go(w, place)
    BY <1>2 DEF Exit
  <2>3. Cardinality(At(Uncounted)') = Cardinality(At(Uncounted))
    BY <1>C, <2>2, Moved DEF Uncounted, Unwritten, Unlabelled
  <2>4. /\ pc'[w] \notin {"counted", "minus"} \cup Saving
        /\ \A v \in Workers : v # w => pc'[v] = pc[v] /\ register'[v] = register[v]
    BY <1>0, <2>1, <2>2 DEF Go, TypeWork, TypeNumbers, Saving
  <2> QED
    BY <2>1, <2>3, <2>4, CountFrame
<1>3. ASSUME NEW w \in Workers, NoteSid(w) PROVE CountInv'
  <2>1. /\ raced \subseteq raced' /\ taken' = taken /\ additions' = additions /\ snap' = snap
        /\ register' = register
    BY <1>3 DEF NoteSid, Meet
  <2>2. PICK place \in {"label"} : pc[w] = "sid" /\ Go(w, place)
    BY <1>3 DEF NoteSid
  <2>3. Cardinality(At(Uncounted)') = Cardinality(At(Uncounted))
    BY <1>C, <2>2, Moved DEF Uncounted, Unwritten, Unlabelled
  <2>4. /\ pc'[w] \notin {"counted", "minus"} \cup Saving
        /\ \A v \in Workers : v # w => pc'[v] = pc[v] /\ register'[v] = register[v]
    BY <1>0, <2>1, <2>2 DEF Go, TypeWork, TypeNumbers, Saving
  <2> QED
    BY <2>1, <2>3, <2>4, CountFrame
<1>4. ASSUME NEW w \in Workers, ReadLabel(w) PROVE CountInv'
  <2>1. /\ raced \subseteq raced' /\ taken' = taken /\ additions' = additions /\ snap' = snap
        /\ register' = [register EXCEPT ![w] = next_label]
    BY <1>4 DEF ReadLabel
  <2>2. PICK place \in {"bump"} : pc[w] = "label" /\ Go(w, place)
    BY <1>4 DEF ReadLabel
  <2>3. Cardinality(At(Uncounted)') = Cardinality(At(Uncounted))
    BY <1>C, <2>2, Moved DEF Uncounted, Unwritten, Unlabelled
  <2>4. /\ pc'[w] \notin {"counted", "minus"} \cup Saving
        /\ \A v \in Workers : v # w => pc'[v] = pc[v] /\ register'[v] = register[v]
    BY <1>0, <2>1, <2>2 DEF Go, TypeWork, TypeNumbers, Saving
  <2> QED
    BY <2>1, <2>3, <2>4, CountFrame
<1>5. ASSUME NEW w \in Workers, WriteLabel(w) PROVE CountInv'
  <2>1. /\ raced \subseteq raced' /\ taken' = taken /\ additions' = additions /\ snap' = snap
        /\ register' = [register EXCEPT ![w] = 0]
    BY <1>5 DEF WriteLabel, Meet
  <2>2. PICK place \in {"seek"} : pc[w] = "bump" /\ Go(w, place)
    BY <1>5 DEF WriteLabel
  <2>3. Cardinality(At(Uncounted)') = Cardinality(At(Uncounted))
    BY <1>C, <2>2, Moved DEF Uncounted, Unwritten, Unlabelled
  <2>4. /\ pc'[w] \notin {"counted", "minus"} \cup Saving
        /\ \A v \in Workers : v # w => pc'[v] = pc[v] /\ register'[v] = register[v]
    BY <1>0, <2>1, <2>2 DEF Go, TypeWork, TypeNumbers, Saving
  <2> QED
    BY <2>1, <2>3, <2>4, CountFrame
<1>6. ASSUME NEW w \in Workers, Seek(w) PROVE CountInv'
  <2>1. /\ raced \subseteq raced' /\ taken' = taken /\ additions' = additions /\ snap' = snap
        /\ register' = register
    BY <1>6 DEF Seek
  <2>2. PICK place \in {"write"} : pc[w] = "seek" /\ Go(w, place)
    BY <1>6 DEF Seek
  <2>3. Cardinality(At(Uncounted)') = Cardinality(At(Uncounted))
    BY <1>C, <2>2, Moved DEF Uncounted, Unwritten, Unlabelled
  <2>4. /\ pc'[w] \notin {"counted", "minus"} \cup Saving
        /\ \A v \in Workers : v # w => pc'[v] = pc[v] /\ register'[v] = register[v]
    BY <1>0, <2>1, <2>2 DEF Go, TypeWork, TypeNumbers, Saving
  <2> QED
    BY <2>1, <2>3, <2>4, CountFrame
<1>7. ASSUME NEW w \in Workers, Write(w) PROVE CountInv'
  <2>1. /\ raced \subseteq raced' /\ taken' = taken /\ additions' = additions /\ snap' = snap
        /\ register' = register
    BY <1>7 DEF Write, Meet
  <2>2. PICK place \in {"graph"} : pc[w] = "write" /\ Go(w, place)
    BY <1>7 DEF Write
  <2>3. Cardinality(At(Uncounted)') = Cardinality(At(Uncounted))
    BY <1>C, <2>2, Moved DEF Uncounted, Unwritten, Unlabelled
  <2>4. /\ pc'[w] \notin {"counted", "minus"} \cup Saving
        /\ \A v \in Workers : v # w => pc'[v] = pc[v] /\ register'[v] = register[v]
    BY <1>0, <2>1, <2>2 DEF Go, TypeWork, TypeNumbers, Saving
  <2> QED
    BY <2>1, <2>3, <2>4, CountFrame
<1>8. ASSUME NEW w \in Workers, FindGraph(w) PROVE CountInv'
  <2>1. /\ raced \subseteq raced' /\ taken' = taken /\ additions' = additions /\ snap' = snap
        /\ register' = register
    BY <1>8 DEF FindGraph
  <2>2. PICK place \in {"create", "insert"} : pc[w] = "graph" /\ Go(w, place)
    BY <1>8 DEF FindGraph
  <2>3. Cardinality(At(Uncounted)') = Cardinality(At(Uncounted))
    BY <1>C, <2>2, Moved DEF Uncounted, Unwritten, Unlabelled
  <2>4. /\ pc'[w] \notin {"counted", "minus"} \cup Saving
        /\ \A v \in Workers : v # w => pc'[v] = pc[v] /\ register'[v] = register[v]
    BY <1>0, <2>1, <2>2 DEF Go, TypeWork, TypeNumbers, Saving
  <2> QED
    BY <2>1, <2>3, <2>4, CountFrame
<1>9. ASSUME NEW w \in Workers, CreateGraph(w) PROVE CountInv'
  <2>1. /\ raced \subseteq raced' /\ taken' = taken /\ additions' = additions /\ snap' = snap
        /\ register' = register
    BY <1>9 DEF CreateGraph
  <2>2. PICK place \in {"insert"} : pc[w] = "create" /\ Go(w, place)
    BY <1>9 DEF CreateGraph
  <2>3. Cardinality(At(Uncounted)') = Cardinality(At(Uncounted))
    BY <1>C, <2>2, Moved DEF Uncounted, Unwritten, Unlabelled
  <2>4. /\ pc'[w] \notin {"counted", "minus"} \cup Saving
        /\ \A v \in Workers : v # w => pc'[v] = pc[v] /\ register'[v] = register[v]
    BY <1>0, <2>1, <2>2 DEF Go, TypeWork, TypeNumbers, Saving
  <2> QED
    BY <2>1, <2>3, <2>4, CountFrame
<1>10. ASSUME NEW w \in Workers, Insert(w) PROVE CountInv'
  <2>1. /\ raced \subseteq raced' /\ taken' = taken /\ additions' = additions /\ snap' = snap
        /\ register' = register
    BY <1>10 DEF Insert
  <2>2. PICK place \in {"count"} : pc[w] = "insert" /\ Go(w, place)
    BY <1>10 DEF Insert
  <2>3. Cardinality(At(Uncounted)') = Cardinality(At(Uncounted))
    BY <1>C, <2>2, Moved DEF Uncounted, Unwritten, Unlabelled
  <2>4. /\ pc'[w] \notin {"counted", "minus"} \cup Saving
        /\ \A v \in Workers : v # w => pc'[v] = pc[v] /\ register'[v] = register[v]
    BY <1>0, <2>1, <2>2 DEF Go, TypeWork, TypeNumbers, Saving
  <2> QED
    BY <2>1, <2>3, <2>4, CountFrame
<1>11. ASSUME NEW w \in Workers, Faults(w) PROVE CountInv'
  <2>1. At(Uncounted)' = At(Uncounted)
    BY <1>11 DEF Faults, At
  <2> QED
    BY <1>11, <2>1, CountFrame DEF Faults
<1>12. ASSUME NEW w \in Workers, ReadCount(w) PROVE CountInv'
  <2>1. /\ raced' = raced /\ taken' = taken /\ additions' = additions /\ snap' = snap
        /\ register' = [register EXCEPT ![w] = additions] /\ pc[w] = "count" /\ Go(w, "counted")
    BY <1>12 DEF ReadCount
  <2>2. Cardinality(At(Uncounted)') = Cardinality(At(Uncounted))
    BY <1>C, <2>1, Moved DEF Uncounted
  <2>3. /\ pc'[w] = "counted" /\ register'[w] = additions
        /\ \A v \in Workers : v # w => pc'[v] = pc[v] /\ register'[v] = register[v]
    BY <1>0, <2>1 DEF Go, TypeWork, TypeNumbers
  <2>4. "counted" \notin Saving
    BY DEF Saving
  <2> QED
    BY <2>1, <2>2, <2>3, <2>4 DEF CountInv, Undisturbed
<1>13. ASSUME NEW w \in Workers, WriteCount(w) PROVE CountInv'
  <2> SUFFICES ASSUME Undisturbed'
               PROVE  CountInv'
    BY DEF CountInv
  <2>1. /\ taken' = taken /\ snap' = snap /\ Undisturbed
        /\ register' = [register EXCEPT ![w] = 0] /\ pc[w] = "counted" /\ Go(w, "entry")
        /\ \A v \in Workers : v # w => pc[v] \notin {"counted", "minus"}
    BY <1>13 DEF WriteCount, Meet, Others, Undisturbed
  <2>2. Cardinality(At(Uncounted)') = Cardinality(At(Uncounted)) - 1
    BY <1>C, <2>1, Moved DEF Uncounted, Unwritten, Unlabelled
  <2>3. /\ additions \in Nat /\ additions' = additions + 1
        /\ Cardinality(At(Uncounted)) >= 1 /\ additions + Cardinality(At(Uncounted)) <= taken
    BY <1>13, CountUp
  <2>4. additions' \in Nat /\ additions' + Cardinality(At(Uncounted))' <= taken'
    BY <1>C, <2>1, <2>2, <2>3
  <2>5. pc'[w] = "entry" /\ \A v \in Workers : v # w => pc'[v] = pc[v]
    BY <1>0, <2>1 DEF Go, TypeWork
  <2>6. \A v \in Workers : pc'[v] \notin {"counted", "minus"} /\ (pc'[v] \in Saving => pc[v] \in Saving)
    BY <2>1, <2>5 DEF Saving
  <2>7. \A v \in Workers : pc[v] \in Saving => snap[v] \in 1 .. additions
    BY <2>1 DEF CountInv
  <2>8. \A v \in Workers : pc'[v] \in Saving => snap'[v] \in 1 .. additions'
    BY <2>1, <2>3, <2>6, <2>7
  <2> QED
    BY <2>1, <2>4, <2>6, <2>8 DEF CountInv
<1>14. ASSUME NEW w \in Workers, WriteEntry(w) PROVE CountInv'
  <2>1. /\ raced \subseteq raced' /\ taken' = taken /\ additions' = additions /\ snap' = snap
        /\ register' = register
    BY <1>14 DEF WriteEntry, Return
  <2>2. PICK place \in {"idle", "save"} : pc[w] = "entry" /\ Go(w, place)
    BY <1>14 DEF WriteEntry
  <2>3. Cardinality(At(Uncounted)') = Cardinality(At(Uncounted))
    BY <1>C, <2>2, Moved DEF Uncounted, Unwritten, Unlabelled
  <2>4. /\ pc'[w] \notin {"counted", "minus"} \cup Saving
        /\ \A v \in Workers : v # w => pc'[v] = pc[v] /\ register'[v] = register[v]
    BY <1>0, <2>1, <2>2 DEF Go, TypeWork, TypeNumbers, Saving
  <2> QED
    BY <2>1, <2>3, <2>4, CountFrame
<1>15. ASSUME NEW w \in Workers, NothingToSave(w) PROVE CountInv'
  <2>1. /\ raced \subseteq raced' /\ taken' = taken /\ additions' = additions /\ snap' = snap
        /\ register' = register
    BY <1>15 DEF NothingToSave
  <2>2. PICK place \in {"idle"} : pc[w] = "save" /\ Go(w, place)
    BY <1>15 DEF NothingToSave
  <2>3. Cardinality(At(Uncounted)') = Cardinality(At(Uncounted))
    BY <1>C, <2>2, Moved DEF Uncounted, Unwritten, Unlabelled
  <2>4. /\ pc'[w] \notin {"counted", "minus"} \cup Saving
        /\ \A v \in Workers : v # w => pc'[v] = pc[v] /\ register'[v] = register[v]
    BY <1>0, <2>1, <2>2 DEF Go, TypeWork, TypeNumbers, Saving
  <2> QED
    BY <2>1, <2>3, <2>4, CountFrame
<1>16. ASSUME NEW w \in Workers, BeginSave(w) PROVE CountInv'
  <2> SUFFICES ASSUME Undisturbed'
               PROVE  CountInv'
    BY DEF CountInv
  <2>1. /\ taken' = taken /\ additions' = additions /\ register' = register /\ Undisturbed
        /\ snap' = [snap EXCEPT ![w] = additions] /\ additions # 0 /\ pc[w] = "save" /\ Go(w, "saving")
        /\ \A v \in Workers : v # w => pc[v] \notin Saving
    BY <1>16 DEF BeginSave, Meet, Others, Undisturbed, Saving
  <2>2. Cardinality(At(Uncounted)') = Cardinality(At(Uncounted))
    BY <1>C, <2>1, Moved DEF Uncounted, Unwritten, Unlabelled
  <2>3. pc'[w] = "saving" /\ snap'[w] = additions /\ \A v \in Workers : v # w => pc'[v] = pc[v]
    BY <1>0, <2>1 DEF Go, TypeWork, TypeNumbers
  <2>4. /\ additions \in Nat /\ additions + Cardinality(At(Uncounted)) <= taken
        /\ \A v \in Workers : pc[v] \in {"counted", "minus"} => register[v] = additions
    BY <2>1 DEF CountInv
  <2>5. additions \in 1 .. additions
    BY <2>1, <2>4
  <2> QED
    BY <2>1, <2>2, <2>3, <2>4, <2>5 DEF CountInv
<1>17. ASSUME NEW w \in Workers, EndImage(w) PROVE CountInv'
  <2>1. /\ raced' = raced /\ taken' = taken /\ additions' = additions /\ snap' = snap
        /\ register' = [register EXCEPT ![w] = additions] /\ pc[w] = "saving" /\ Go(w, "minus")
    BY <1>17 DEF EndImage
  <2>2. Cardinality(At(Uncounted)') = Cardinality(At(Uncounted))
    BY <1>C, <2>1, Moved DEF Uncounted, Unwritten, Unlabelled
  <2>3. /\ pc'[w] = "minus" /\ register'[w] = additions
        /\ \A v \in Workers : v # w => pc'[v] = pc[v] /\ register'[v] = register[v]
    BY <1>0, <2>1 DEF Go, TypeWork, TypeNumbers
  <2>4. pc[w] \in Saving
    BY <2>1 DEF Saving
  <2> QED
    BY <2>1, <2>2, <2>3, <2>4 DEF CountInv, Undisturbed
<1>18. ASSUME NEW w \in Workers, EndSave(w) PROVE CountInv'
  <2> SUFFICES ASSUME Undisturbed'
               PROVE  CountInv'
    BY DEF CountInv
  <2>1. /\ taken' = taken /\ Undisturbed /\ pc[w] = "minus" /\ additions' = register[w] - snap[w]
        /\ snap' = [snap EXCEPT ![w] = 0] /\ register' = [register EXCEPT ![w] = 0]
        /\ \A v \in Workers : v # w => pc[v] \notin {"counted", "minus"}
    BY <1>18 DEF EndSave, Discount, Meet, Others, Undisturbed
  <2>2. PICK place \in {"idle", "save"} : Go(w, place)
    BY <1>18 DEF EndSave
  <2>3. Cardinality(At(Uncounted)') = Cardinality(At(Uncounted))
    BY <1>C, <2>1, <2>2, Moved DEF Uncounted, Unwritten, Unlabelled
  <2>4. /\ additions \in Nat /\ additions + Cardinality(At(Uncounted)) <= taken
        /\ register[w] = additions /\ snap[w] \in 1 .. additions
        /\ \A v \in Workers : pc[v] \in Saving => v = w
    BY <2>1 DEF CountInv, Saving
  <2>5. additions' \in Nat /\ additions' + Cardinality(At(Uncounted))' <= taken'
    BY <1>C, <2>1, <2>3, <2>4
  <2>6. pc'[w] \in {"idle", "save"} /\ \A v \in Workers : v # w => pc'[v] = pc[v]
    BY <1>0, <2>2 DEF Go, TypeWork
  <2>7. \A v \in Workers : pc'[v] \notin {"counted", "minus"} \cup Saving
    BY <2>1, <2>4, <2>6 DEF Saving
  <2> QED
    BY <2>5, <2>7 DEF CountInv
<1>19. CASE Join
  <2>1. At(Uncounted)' = At(Uncounted)
    BY <1>19 DEF Join, At
  <2> QED
    BY <1>19, <2>1, CountFrame DEF Join
<1>20. CASE FinalFlush
  <2>1. At(Uncounted)' = At(Uncounted) /\ additions' \in {0, additions} /\ taken' = taken /\ pc' = pc
    BY <1>20 DEF FinalFlush, At
  <2>2. \A v \in Workers : pc'[v] \notin {"counted", "minus"} \cup Saving
    BY <2>1, <1>20 DEF FinalFlush, RoomInv, PhaseInv, Saving
  <2>3. Undisturbed' => Undisturbed
    BY <1>20 DEF FinalFlush, Undisturbed
  <2>4. additions \in Nat /\ additions + Cardinality(At(Uncounted)) <= taken =>
           additions' \in Nat /\ additions' + Cardinality(At(Uncounted))' <= taken'
    BY <1>C, <2>1
  <2> QED
    BY <2>2, <2>3, <2>4 DEF CountInv
<1> QED
  BY <1>1, <1>2, <1>3, <1>4, <1>5, <1>6, <1>7, <1>8, <1>9, <1>10, <1>11, <1>12, <1>13, <1>14,
     <1>15, <1>16, <1>17, <1>18, <1>19, <1>20 DEF Next, Append1

\* A step that leaves the graph, the image and the savers alone.
LEMMA ImageFrame ==
    ASSUME ImageInv, raced \subseteq raced', phase' = "done" => phase = "done",
           vec' = vec, image' = image, additions' = additions, snap' = snap, disturbed' = disturbed,
           \A v \in Workers :
              /\ pc[v] \in {"count", "counted"} => pc'[v] \in {"count", "counted"}
              /\ pc[v] = "saving" <=> pc'[v] = "saving"
              /\ pc[v] = "minus" <=> pc'[v] = "minus"
    PROVE  ImageInv'
<1> SUFFICES ASSUME Undisturbed' PROVE ImageInv'
  BY DEF ImageInv
<1>1. Undisturbed
  BY DEF Undisturbed
<1>2. Counting => Counting'
  BY DEF Counting
<1>3. (\E v \in Workers : pc[v] \in Saving) => \E v \in Workers : pc'[v] \in Saving
  BY DEF Saving
<1> QED
  BY <1>1, <1>2, <1>3 DEF ImageInv

\* Each step keeps what the image lacks counted.
LEMMA ImageStep ==
    ASSUME TypeOK, TypeOK', RoomInv, CountInv, CountInv', ImageInv, Next
    PROVE  ImageInv'
<1>0. TypeWork /\ TypeText /\ TypeNumbers /\ TypeGraph
  BY TypeParts
<1>N. Len(Sids) \in Nat /\ Items = 1 .. Len(Sids) /\ Sids \in [1 .. Len(Sids) -> Nat \ {0}]
  BY ConstantsAssumption, LenProperties DEF Items
<1> USE DEF work, local, text, index, saving
<1>1. ASSUME NEW w \in Workers, Take(w) PROVE ImageInv'
  <2>1. /\ raced \subseteq raced' /\ phase' = phase /\ vec' = vec /\ image' = image
        /\ additions' = additions /\ snap' = snap /\ disturbed' = disturbed
    BY <1>1 DEF Take, Go, NewSid
  <2>2. \A v \in Workers :
           /\ pc[v] \in {"count", "counted"} => pc'[v] \in {"count", "counted"}
           /\ pc[v] = "saving" <=> pc'[v] = "saving"
           /\ pc[v] = "minus" <=> pc'[v] = "minus"
    BY <1>0, <1>1 DEF Take, Go, NewSid, TypeWork
  <2> QED
    BY <2>1, <2>2, ImageFrame
<1>2. ASSUME NEW w \in Workers, Exit(w) PROVE ImageInv'
  <2>1. /\ raced \subseteq raced' /\ phase' = phase /\ vec' = vec /\ image' = image
        /\ additions' = additions /\ snap' = snap /\ disturbed' = disturbed
    BY <1>2 DEF Exit, Go
  <2>2. \A v \in Workers :
           /\ pc[v] \in {"count", "counted"} => pc'[v] \in {"count", "counted"}
           /\ pc[v] = "saving" <=> pc'[v] = "saving"
           /\ pc[v] = "minus" <=> pc'[v] = "minus"
    BY <1>0, <1>2 DEF Exit, Go, TypeWork
  <2> QED
    BY <2>1, <2>2, ImageFrame
<1>3. ASSUME NEW w \in Workers, NoteSid(w) PROVE ImageInv'
  <2>1. /\ raced \subseteq raced' /\ phase' = phase /\ vec' = vec /\ image' = image
        /\ additions' = additions /\ snap' = snap /\ disturbed' = disturbed
    BY <1>3 DEF NoteSid, Go, Meet, Others
  <2>2. \A v \in Workers :
           /\ pc[v] \in {"count", "counted"} => pc'[v] \in {"count", "counted"}
           /\ pc[v] = "saving" <=> pc'[v] = "saving"
           /\ pc[v] = "minus" <=> pc'[v] = "minus"
    BY <1>0, <1>3 DEF NoteSid, Go, Meet, Others, TypeWork
  <2> QED
    BY <2>1, <2>2, ImageFrame
<1>4. ASSUME NEW w \in Workers, ReadLabel(w) PROVE ImageInv'
  <2>1. /\ raced \subseteq raced' /\ phase' = phase /\ vec' = vec /\ image' = image
        /\ additions' = additions /\ snap' = snap /\ disturbed' = disturbed
    BY <1>4 DEF ReadLabel, Go
  <2>2. \A v \in Workers :
           /\ pc[v] \in {"count", "counted"} => pc'[v] \in {"count", "counted"}
           /\ pc[v] = "saving" <=> pc'[v] = "saving"
           /\ pc[v] = "minus" <=> pc'[v] = "minus"
    BY <1>0, <1>4 DEF ReadLabel, Go, TypeWork
  <2> QED
    BY <2>1, <2>2, ImageFrame
<1>5. ASSUME NEW w \in Workers, WriteLabel(w) PROVE ImageInv'
  <2>1. /\ raced \subseteq raced' /\ phase' = phase /\ vec' = vec /\ image' = image
        /\ additions' = additions /\ snap' = snap /\ disturbed' = disturbed
    BY <1>5 DEF WriteLabel, Go, Bump, Meet, Others
  <2>2. \A v \in Workers :
           /\ pc[v] \in {"count", "counted"} => pc'[v] \in {"count", "counted"}
           /\ pc[v] = "saving" <=> pc'[v] = "saving"
           /\ pc[v] = "minus" <=> pc'[v] = "minus"
    BY <1>0, <1>5 DEF WriteLabel, Go, Bump, Meet, Others, TypeWork
  <2> QED
    BY <2>1, <2>2, ImageFrame
<1>6. ASSUME NEW w \in Workers, Seek(w) PROVE ImageInv'
  <2>1. /\ raced \subseteq raced' /\ phase' = phase /\ vec' = vec /\ image' = image
        /\ additions' = additions /\ snap' = snap /\ disturbed' = disturbed
    BY <1>6 DEF Seek, Go
  <2>2. \A v \in Workers :
           /\ pc[v] \in {"count", "counted"} => pc'[v] \in {"count", "counted"}
           /\ pc[v] = "saving" <=> pc'[v] = "saving"
           /\ pc[v] = "minus" <=> pc'[v] = "minus"
    BY <1>0, <1>6 DEF Seek, Go, TypeWork
  <2> QED
    BY <2>1, <2>2, ImageFrame
<1>7. ASSUME NEW w \in Workers, Write(w) PROVE ImageInv'
  <2>1. /\ raced \subseteq raced' /\ phase' = phase /\ vec' = vec /\ image' = image
        /\ additions' = additions /\ snap' = snap /\ disturbed' = disturbed
    BY <1>7 DEF Write, Go, Meet, Others
  <2>2. \A v \in Workers :
           /\ pc[v] \in {"count", "counted"} => pc'[v] \in {"count", "counted"}
           /\ pc[v] = "saving" <=> pc'[v] = "saving"
           /\ pc[v] = "minus" <=> pc'[v] = "minus"
    BY <1>0, <1>7 DEF Write, Go, Meet, Others, TypeWork
  <2> QED
    BY <2>1, <2>2, ImageFrame
<1>8. ASSUME NEW w \in Workers, FindGraph(w) PROVE ImageInv'
  <2>1. /\ raced \subseteq raced' /\ phase' = phase /\ vec' = vec /\ image' = image
        /\ additions' = additions /\ snap' = snap /\ disturbed' = disturbed
    BY <1>8 DEF FindGraph, Go
  <2>2. \A v \in Workers :
           /\ pc[v] \in {"count", "counted"} => pc'[v] \in {"count", "counted"}
           /\ pc[v] = "saving" <=> pc'[v] = "saving"
           /\ pc[v] = "minus" <=> pc'[v] = "minus"
    BY <1>0, <1>8 DEF FindGraph, Go, TypeWork
  <2> QED
    BY <2>1, <2>2, ImageFrame
<1>9. ASSUME NEW w \in Workers, CreateGraph(w) PROVE ImageInv'
  BY <1>9 DEF CreateGraph, ImageInv
<1>10. ASSUME NEW w \in Workers, Insert(w) PROVE ImageInv'
  <2>1. phase' = "work" /\ pc' = [pc EXCEPT ![w] = "count"] /\ Undisturbed' = Undisturbed
    BY <1>10 DEF Insert, Go, Undisturbed
  <2>2. Counting'
    BY <1>0, <2>1 DEF Counting, TypeWork
  <2> QED
    BY <2>1, <2>2 DEF ImageInv
<1>11. ASSUME NEW w \in Workers, Faults(w) PROVE ImageInv'
  BY <1>11, ImageFrame DEF Faults
<1>12. ASSUME NEW w \in Workers, ReadCount(w) PROVE ImageInv'
  <2>1. /\ raced \subseteq raced' /\ phase' = phase /\ vec' = vec /\ image' = image
        /\ additions' = additions /\ snap' = snap /\ disturbed' = disturbed
    BY <1>12 DEF ReadCount, Go
  <2>2. \A v \in Workers :
           /\ pc[v] \in {"count", "counted"} => pc'[v] \in {"count", "counted"}
           /\ pc[v] = "saving" <=> pc'[v] = "saving"
           /\ pc[v] = "minus" <=> pc'[v] = "minus"
    BY <1>0, <1>12 DEF ReadCount, Go, TypeWork
  <2> QED
    BY <2>1, <2>2, ImageFrame
<1>13. ASSUME NEW w \in Workers, WriteCount(w) PROVE ImageInv'
  <2> SUFFICES ASSUME Undisturbed'
               PROVE  ImageInv'
    BY DEF ImageInv
  <2>1. additions \in Nat /\ additions' = additions + 1 /\ Undisturbed
    BY <1>13, CountUp
  <2>2. /\ phase' = "work" /\ vec' = vec /\ image' = image /\ snap' = snap
        /\ pc' = [pc EXCEPT ![w] = "entry"]
    BY <1>13 DEF WriteCount, Go
  <2>3. \A v \in Workers : pc'[v] \in Saving => pc[v] \in Saving
    BY <1>0, <2>2 DEF TypeWork, Saving
  <2>4. \A v \in Workers : pc[v] \in Saving => snap[v] \in 1 .. additions
    BY <2>1 DEF CountInv
  <2>5. \A v \in Workers : pc'[v] \in Saving => additions' > snap'[v]
    BY <2>1, <2>2, <2>3, <2>4
  <2>6. additions' > 0
    BY <2>1
  <2> QED
    BY <2>2, <2>5, <2>6 DEF ImageInv, Saving
<1>14. ASSUME NEW w \in Workers, WriteEntry(w) PROVE ImageInv'
  <2>1. /\ raced' = raced /\ phase' = phase /\ vec' = vec /\ image' = image
        /\ additions' = additions /\ snap' = snap /\ disturbed' = disturbed /\ pc[w] = "entry"
    BY <1>14 DEF WriteEntry
  <2>2. pc' = [pc EXCEPT ![w] = "idle"] \/ pc' = [pc EXCEPT ![w] = "save"]
    BY <1>14 DEF WriteEntry, Go
  <2>3. \A v \in Workers :
           /\ pc[v] \in {"count", "counted"} => pc'[v] \in {"count", "counted"}
           /\ pc[v] = "saving" <=> pc'[v] = "saving"
           /\ pc[v] = "minus" <=> pc'[v] = "minus"
    BY <1>0, <2>1, <2>2 DEF TypeWork
  <2> QED
    BY <2>1, <2>3, ImageFrame
<1>15. ASSUME NEW w \in Workers, NothingToSave(w) PROVE ImageInv'
  <2>1. /\ raced' = raced /\ phase' = "work" /\ phase = "work" /\ vec' = vec
        /\ additions' = additions /\ snap' = snap /\ disturbed' = disturbed
    BY <1>15 DEF NothingToSave
  <2>2. CASE vec = Nothing
    BY <2>1, <2>2 DEF ImageInv, Nothing
  <2>3. CASE vec # Nothing
    <3>1. image' = image
      BY <2>3, <1>15 DEF NothingToSave
    <3>2. \A v \in Workers :
             /\ pc[v] \in {"count", "counted"} => pc'[v] \in {"count", "counted"}
             /\ pc[v] = "saving" <=> pc'[v] = "saving"
             /\ pc[v] = "minus" <=> pc'[v] = "minus"
      BY <1>0, <1>15 DEF NothingToSave, Go, TypeWork
    <3> QED
      BY <2>1, <3>1, <3>2, ImageFrame
  <2> QED
    BY <2>2, <2>3
<1>16. ASSUME NEW w \in Workers, BeginSave(w) PROVE ImageInv'
  <2> SUFFICES ASSUME Undisturbed'
               PROVE  ImageInv'
    BY DEF ImageInv
  <2>1. phase' = "work" /\ pc[w] = "save" /\ pc' = [pc EXCEPT ![w] = "saving"]
    BY <1>16 DEF BeginSave, Go
  <2>2. \A v \in Workers : v # w => pc[v] \notin Saving
    BY <1>16 DEF BeginSave, Meet, Others, Undisturbed, Saving
  <2>3. Savers = {}
    BY <2>1, <2>2 DEF Savers, Saving
  <2>4. disturbed' = {}
    BY <1>0, <2>3, <1>16 DEF BeginSave, TypeGraph
  <2>5. pc'[w] = "saving" /\ \A v \in Workers : v # w => pc'[v] \notin Saving
    BY <1>0, <2>1, <2>2 DEF TypeWork
  <2> QED
    BY <2>1, <2>4, <2>5 DEF ImageInv, Saving
<1>17. ASSUME NEW w \in Workers, EndImage(w) PROVE ImageInv'
  <2> SUFFICES ASSUME Undisturbed'
               PROVE  ImageInv'
    BY DEF ImageInv
  <2>1. /\ Undisturbed /\ phase' = "work" /\ vec' = vec /\ additions' = additions /\ snap' = snap
        /\ image' = (IF w \in disturbed THEN Torn ELSE vec)
        /\ pc[w] = "saving" /\ pc' = [pc EXCEPT ![w] = "minus"]
    BY <1>17 DEF EndImage, Go, Undisturbed
  <2>2. pc'[w] = "minus" /\ \A v \in Workers : v # w => pc'[v] = pc[v]
    BY <1>0, <2>1 DEF TypeWork
  <2>3. \A v \in Workers : v # w => pc[v] \notin Saving
    BY <2>1 DEF CountInv, Saving
  <2>4. Counting => Counting'
    BY <2>1, <2>2 DEF Counting
  <2>5. vec # Nothing /\ image' # vec => additions > snap[w] \/ Counting
    BY <2>1 DEF ImageInv
  <2> QED
    BY <2>1, <2>2, <2>3, <2>4, <2>5 DEF ImageInv, Saving
<1>18. ASSUME NEW w \in Workers, EndSave(w) PROVE ImageInv'
  <2> SUFFICES ASSUME Undisturbed'
               PROVE  ImageInv'
    BY DEF ImageInv
  <2>1. /\ Undisturbed /\ phase' = "work" /\ vec' = vec /\ image' = image
        /\ additions' = register[w] - snap[w] /\ pc[w] = "minus"
    BY <1>18 DEF EndSave, Discount, Meet, Undisturbed
  <2>2. pc' = [pc EXCEPT ![w] = "idle"] \/ pc' = [pc EXCEPT ![w] = "save"]
    BY <1>18 DEF EndSave, Go
  <2>3. pc'[w] \in {"idle", "save"} /\ \A v \in Workers : v # w => pc'[v] = pc[v]
    BY <1>0, <2>2 DEF TypeWork
  <2>4. \A v \in Workers : v # w => pc[v] \notin Saving
    BY <2>1 DEF CountInv, Saving
  <2>5. \A v \in Workers : pc'[v] \notin Saving
    BY <2>3, <2>4 DEF Saving
  <2>6. Counting => Counting'
    BY <2>1, <2>3 DEF Counting
  <2>7. additions \in Nat /\ register[w] = additions /\ snap[w] \in 1 .. additions
    BY <2>1 DEF CountInv, Saving
  <2>8. vec # Nothing /\ image # vec => additions > snap[w] \/ Counting
    BY <2>1 DEF ImageInv
  <2>9. vec # Nothing /\ image # vec => additions' > 0 \/ Counting'
    BY <2>1, <2>6, <2>7, <2>8
  <2> QED
    BY <2>1, <2>5, <2>9 DEF ImageInv, Saving
<1>19. CASE Join
  BY <1>19, ImageFrame DEF Join
<1>20. CASE FinalFlush
  <2> SUFFICES ASSUME Undisturbed'
               PROVE  ImageInv'
    BY DEF ImageInv
  <2>1. Undisturbed /\ vec' = vec /\ pc' = pc
    BY <1>20 DEF FinalFlush, Undisturbed
  <2>2. \A v \in Workers : pc[v] = "exit"
    BY <1>20 DEF FinalFlush, RoomInv, PhaseInv
  <2>3. ~Counting /\ \A v \in Workers : pc[v] \notin Saving
    BY <2>2 DEF Counting, Saving
  <2>4. vec # Nothing /\ additions = 0 => image = vec
    BY <2>1, <2>3 DEF ImageInv
  <2>5. image' = vec
    BY <2>4, <1>20 DEF FinalFlush
  <2> QED
    BY <2>1, <2>2, <2>5 DEF ImageInv
<1> QED
  BY <1>1, <1>2, <1>3, <1>4, <1>5, <1>6, <1>7, <1>8, <1>9, <1>10, <1>11, <1>12, <1>13, <1>14,
     <1>15, <1>16, <1>17, <1>18, <1>19, <1>20 DEF Next, Append1

-----------------------------------------------------------------------------
(* The inductive invariant.                                                *)

IInv ==
    /\ TypeOK /\ RoomInv /\ SidInv /\ LabelInv /\ MixedInv /\ PosInv /\ GraphInv /\ KeptInv
    /\ CountInv /\ ImageInv

\* The merge begins so.
LEMMA InitIInv == Init => IInv
<1> SUFFICES ASSUME Init PROVE IInv
  OBVIOUS
<1>1. Len(Sids) \in Nat /\ Items = 1 .. Len(Sids) /\ Cardinality(Workers) \in Nat
  BY ConstantsAssumption, LenProperties, FS_CardinalityType DEF Items
<1>2. \A P : "idle" \notin P => At(P) = {}
  BY DEF Init, At
<1>3. Cardinality({}) = 0
  BY FS_EmptySet
<1>4. \A P : "idle" \notin P => Cardinality(At(P)) = 0
  BY <1>2, <1>3
<1>5. /\ Cardinality(At(Unlabelled)) = 0 /\ Cardinality(At(Unwritten)) = 0
      /\ Cardinality(At(Uncounted)) = 0 /\ Cardinality(At({"create"})) = 0
  BY <1>4 DEF Unlabelled, Unwritten, Uncounted
<1>6. \A w \in Workers : pc[w] = "idle"
  BY DEF Init
<1>7. Len(sentences) = 0 /\ sentences \in Seq(Items)
  BY EmptySeq DEF Init
<1>8. Nothing \in [Labels -> 0 .. Len(Sids)]
  BY <1>1 DEF Nothing
<1>9. TypeOK
  <2>1. TypeWork
    BY <1>1, ConstantsAssumption DEF Init, TypeWork, Places
  <2>2. TypeText
    BY <1>1, <1>7 DEF Init, TypeText, NoEntry
  <2>3. TypeNumbers
    BY DEF Init, TypeNumbers
  <2>4. TypeGraph
    BY <1>1, <1>8 DEF Init, TypeGraph
  <2> QED
    BY <2>1, <2>2, <2>3, <2>4, TypeParts
<1>10. RoomInv
  BY <1>1, <1>5, <1>6, <1>7
     DEF Init, RoomInv, ItemInv, LabelRoom, TextRoom, GraphRoom, PhaseInv, InText, Uncounted, Unwritten, Unlabelled
<1>11. SidInv /\ LabelInv /\ PosInv /\ GraphInv /\ KeptInv
  BY <1>6 DEF Init, SidInv, LabelInv, PosInv, GraphInv, KeptInv, Placed, Written, Inserted
<1>12. MixedInv
  BY <1>6 DEF Init, MixedInv, Nothing, Fresh, Inserted
<1>13. CountInv /\ ImageInv
  BY <1>5, <1>6 DEF Init, CountInv, ImageInv, Saving, Undisturbed
<1> QED
  BY <1>9, <1>10, <1>11, <1>12, <1>13 DEF IInv

\* And no step ends it.
LEMMA NextIInv == IInv /\ [Next]_vars => IInv'
<1> SUFFICES ASSUME IInv, [Next]_vars PROVE IInv'
  OBVIOUS
<1> USE DEF IInv
<1>1. CASE Next
  <2>1. TypeOK'
    BY <1>1, TypeStep
  <2>2. RoomInv'
    BY <1>1, <2>1, RoomStep
  <2>3. SidInv' /\ LabelInv' /\ PosInv'
    BY <1>1, <2>1, SidStep, LabelStep, PosStep
  <2>4. MixedInv'
    BY <1>1, <2>1, <2>3, MixedStep
  <2>5. GraphInv' /\ KeptInv'
    BY <1>1, <2>1, GraphStep, KeptStep
  <2>6. CountInv'
    BY <1>1, <2>1, CountStep
  <2>7. ImageInv'
    BY <1>1, <2>1, <2>6, ImageStep
  <2> QED
    BY <2>1, <2>2, <2>3, <2>4, <2>5, <2>6, <2>7
<1>2. CASE UNCHANGED vars
  <2> USE <1>2 DEF vars, work, local, text, index, saving
  <2>1. TypeOK'
    BY DEF TypeOK, Savers
  <2>2. RoomInv'
    BY DEF RoomInv, ItemInv, LabelRoom, TextRoom, GraphRoom, PhaseInv, At
  <2>3. SidInv' /\ LabelInv' /\ PosInv' /\ MixedInv' /\ GraphInv'
    BY DEF SidInv, LabelInv, PosInv, MixedInv, GraphInv
  <2>4. KeptInv'
    BY DEF KeptInv, Kept
  <2>5. CountInv' /\ ImageInv'
    BY DEF CountInv, ImageInv, Undisturbed, Counting, At
  <2> QED
    BY <2>1, <2>2, <2>3, <2>4, <2>5
<1> QED
  BY <1>1, <1>2

\* The invariant holds in every state of every merge.
THEOREM Invariance == Spec => []IInv
<1>1. Init => IInv
  BY InitIInv
<1>2. IInv /\ [Next]_vars => IInv'
  BY NextIInv
<1> QED
  BY <1>1, <1>2, PTL DEF Spec

\* When the merge is over, every text was taken, and no worker is within an append.
LEMMA AllTaken ==
    ASSUME IInv, phase = "done"
    PROVE  /\ 1 .. taken = Items
           /\ \A w \in Workers : pc[w] = "exit"
<1>1. \A w \in Workers : pc[w] = "exit" /\ taken = Len(Sids)
  BY DEF IInv, RoomInv, PhaseInv
<1>2. Items = 1 .. Len(Sids)
  BY ConstantsAssumption, LenProperties DEF Items
<1> QED
  BY <1>1, <1>2, ConstantsAssumption

\* merge_two_parallel and append: with any number of threads and texts, a label has the
\* vector of one text and the entry of another only if two threads were in
\* allocate_label at once, and the next automatic id is taken only if two noted theirs
\* at once.
THEOREM NumbersHaveCauses == Spec => []NumbersHaveCause
<1>1. IInv => NumbersHaveCause
  <2> SUFFICES ASSUME IInv PROVE NumbersHaveCause
    OBVIOUS
  <2>1. TypeOK
    BY DEF IInv
  <2>2. ASSUME phase = "done", "label" \notin raced, NEW l \in Labels, vec[l] # 0
        PROVE  entries[l].item = vec[l]
    <3>1. \A w \in Workers : pc[w] \notin Inserted
      BY <2>2, AllTaken DEF Inserted
    <3> QED
      BY <2>2, <3>1 DEF IInv, MixedInv
  <2>3. ASSUME phase = "done", "sid" \notin raced, NEW i \in Items
        PROVE  Sids[i] <= auto_sentence_id
    BY <2>3, AllTaken DEF IInv, SidInv
  <2> QED
    BY <2>1, <2>2, <2>3 DEF NumbersHaveCause
<1> QED
  BY <1>1, Invariance, PTL

\* merge_two_parallel and append: with any number of threads and texts, a text is
\* missing from the merged shard, or shown wrong, only if two threads were in
\* allocate_label, between the seek and the write of the sentence store, or creating
\* the graph at once.
THEOREM LossHasCauses == Spec => []LossHasCause
<1>1. IInv => LossHasCause
  <2> SUFFICES ASSUME IInv, phase = "done", raced \cap {"label", "text", "graph"} = {}, NEW i \in Items
               PROVE  Found(i)
    BY DEF LossHasCause
  <2>1. \A w \in Workers : pc[w] \notin InText
    BY AllTaken DEF InText, Uncounted, Unwritten, Unlabelled
  <2>2. Kept(i)
    BY <2>1, AllTaken DEF IInv, KeptInv
  <2>3. DOMAIN sentences = 1 .. Len(sentences)
    BY LenProperties DEF IInv, TypeOK
  <2> QED
    BY <2>2, <2>3 DEF Kept, Found
<1> QED
  BY <1>1, Invariance, PTL

\* SingleIndex::save and flush, called from append by the threads of a merge: after the
\* last flush the image is the graph, unless two saves met, or a save and the count of
\* additions; points added during a save are made up for.
THEOREM SavesHaveCauses == Spec => []SavedHasCause
<1>1. IInv => SavedHasCause
  BY DEF IInv, ImageInv, Undisturbed, SavedHasCause
<1> QED
  BY <1>1, Invariance, PTL
=============================================================================
