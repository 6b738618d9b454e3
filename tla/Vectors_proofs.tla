--------------------------- MODULE Vectors_proofs ---------------------------
(***************************************************************************)
(* What becomes of vectors.                                                *)
(*                                                                         *)
(* VectorStorage, which keeps them for rescoring: what it guarantees for   *)
(* any number of indexes, labels, vectors, sessions and failures, and any  *)
(* thresholds.                                                             *)
(*                                                                         *)
(* Quantization, which makes codes of them: what packing, rounding and     *)
(* training do to vectors of every dimension and to all samples.  This     *)
(* needs induction over sequences: folds are recursive functions, and are  *)
(* unfolded by FoldExists.                                                 *)
(***************************************************************************)
EXTENDS VectorStorage, Quantization, FiniteSetTheorems, SequenceTheorems, WellFoundedInduction, TLAPS

-----------------------------------------------------------------------------
(* Deltas.                                                                 *)

\* A nonempty set of indexes has a first and a last one.  The intervals up to,
\* or from, its members are finite sets, among which there is a smallest.
LEMMA FirstAndLast ==
    ASSUME NEW n \in Nat, NEW H \in SUBSET (1 .. n), H # {}
    PROVE  /\ \E m \in H : \A j \in H : m <= j
           /\ \E m \in H : \A j \in H : j <= m
<1> DEFINE Up == {1 .. i : i \in H}
           Down == {i .. n : i \in H}
<1>1. Up \subseteq FiniteSubsetsOf(Nat) /\ Down \subseteq FiniteSubsetsOf(Nat)
  <2>1. \A i \in H : i \in Int /\ n \in Int /\ 1 .. i \subseteq Nat /\ i .. n \subseteq Nat
    OBVIOUS
  <2>2. \A i \in H : IsFiniteSet(1 .. i) /\ IsFiniteSet(i .. n)
    BY <2>1, FS_Interval
  <2>3. \A i \in H : 1 .. i \in FiniteSubsetsOf(Nat) /\ i .. n \in FiniteSubsetsOf(Nat)
    BY <2>1, <2>2 DEF FiniteSubsetsOf
  <2> QED BY <2>3
<1>2. Up # {} /\ Down # {}
  OBVIOUS
<1> HIDE DEF Up, Down
<1>3. PICK x \in Up : \A y \in Up : <<y, x>> \notin StrictSubsetOrdering(Nat)
  BY <1>1, <1>2, WFMin, FS_StrictSubsetOrderingWellFounded
<1>4. PICK m \in H : x = 1 .. m
  BY DEF Up
<1>5. ASSUME NEW j \in H, j < m PROVE FALSE
  <2>1. 1 .. j \in Up
    BY DEF Up
  <2>2. (1 .. j) \in SUBSET x /\ (1 .. j) # x /\ x \in SUBSET Nat /\ (1 .. j) \in SUBSET Nat
    BY <1>4, <1>5
  <2> QED BY <1>3, <2>1, <2>2 DEF StrictSubsetOrdering
<1>6. PICK z \in Down : \A y \in Down : <<y, z>> \notin StrictSubsetOrdering(Nat)
  BY <1>1, <1>2, WFMin, FS_StrictSubsetOrderingWellFounded
<1>7. PICK k \in H : z = k .. n
  BY DEF Down
<1>8. ASSUME NEW j \in H, k < j PROVE FALSE
  <2>1. j .. n \in Down
    BY DEF Down
  <2>2. (j .. n) \in SUBSET z /\ (j .. n) # z /\ z \in SUBSET Nat /\ (j .. n) \in SUBSET Nat
    BY <1>7, <1>8
  <2> QED BY <1>6, <2>1, <2>2 DEF StrictSubsetOrdering
<1> QED BY <1>5, <1>8

\* The first and the last delta that hold a label hold a vector of it.
LEMMA HeldVector ==
    ASSUME NEW cs \in Seq(Maps), NEW l \in Labels, Holding(cs, l) # {}
    PROVE  /\ Oldest(cs, l) \in Vectors \cup {Garbage}
           /\ Newest(cs, l) \in Vectors \cup {Garbage}
<1>1. Holding(cs, l) \in SUBSET (1 .. Len(cs)) /\ Len(cs) \in Nat
  BY DEF Holding
<1>2. /\ \E m \in Holding(cs, l) : \A j \in Holding(cs, l) : m <= j
      /\ \E m \in Holding(cs, l) : \A j \in Holding(cs, l) : j <= m
  BY <1>1, FirstAndLast
<1>3. \A i \in Holding(cs, l) : cs[i][l] \in Vectors \cup {Garbage}
  BY <1>1 DEF Holding, Maps, None
<1>4. /\ (CHOOSE i \in Holding(cs, l) : \A j \in Holding(cs, l) : i <= j) \in Holding(cs, l)
      /\ (CHOOSE i \in Holding(cs, l) : \A j \in Holding(cs, l) : j <= i) \in Holding(cs, l)
  BY <1>2
<1> QED BY <1>3, <1>4 DEF Oldest, Newest

\* Appending a delta hides the older vectors of the labels it holds, and those
\* only.
LEMMA DeltaAppended ==
    ASSUME NEW cs \in Seq(Maps), NEW d \in Maps, NEW l \in Labels
    PROVE  /\ d[l] # None =>
                 /\ Holding(Append(cs, d), l) = Holding(cs, l) \cup {Len(cs) + 1}
                 /\ Newest(Append(cs, d), l) = d[l]
           /\ d[l] = None =>
                 /\ Holding(Append(cs, d), l) = Holding(cs, l)
                 /\ Holding(cs, l) # {} => Newest(Append(cs, d), l) = Newest(cs, l)
<1> DEFINE ds == Append(cs, d)
           n == Len(cs)
<1>1. /\ n \in Nat /\ DOMAIN ds = 1 .. (n + 1) /\ ds[n + 1] = d
      /\ \A i \in 1 .. n : ds[i] = cs[i]
      /\ DOMAIN cs = 1 .. n
  OBVIOUS
<1> HIDE DEF ds, n
<1>2. Holding(cs, l) \in SUBSET (1 .. n)
  BY <1>1 DEF Holding
<1>3. CASE d[l] # None
  <2>1. Holding(ds, l) = Holding(cs, l) \cup {n + 1}
    BY <1>1, <1>3 DEF Holding
  <2>2. ASSUME NEW i \in Holding(ds, l)
        PROVE  (\A j \in Holding(ds, l) : j <= i) <=> i = n + 1
    <3>1. i \in Nat /\ (i = n + 1 \/ i <= n) /\ n + 1 \in Holding(ds, l)
      BY <1>1, <1>2, <2>1
    <3>2. \A j \in Holding(ds, l) : j \in Nat /\ j <= n + 1
      BY <1>1, <1>2, <2>1
    <3> QED BY <1>1, <3>1, <3>2
  <2>3. (CHOOSE i \in Holding(ds, l) : \A j \in Holding(ds, l) : j <= i) = n + 1
    BY <2>1, <2>2
  <2> QED BY <1>1, <1>3, <2>1, <2>3 DEF Newest, ds, n
<1>4. CASE d[l] = None
  <2>1. Holding(ds, l) = Holding(cs, l)
    BY <1>1, <1>4 DEF Holding
  <2>2. ASSUME Holding(cs, l) # {} PROVE Newest(ds, l) = Newest(cs, l)
    <3>1. /\ \E m \in Holding(cs, l) : \A j \in Holding(cs, l) : j <= m
      BY <1>1, <1>2, <2>2, FirstAndLast
    <3>2. (CHOOSE i \in Holding(cs, l) : \A j \in Holding(cs, l) : j <= i) \in 1 .. n
      BY <1>2, <3>1
    <3> QED BY <1>1, <2>1, <3>2 DEF Newest
  <2> QED BY <1>4, <2>1, <2>2 DEF ds
<1> QED BY <1>3, <1>4

-----------------------------------------------------------------------------
(* The inductive invariant.                                                *)

\* No label was added more often than addPoint was called.
Counted == \A s \in Stores, l \in Labels : adds[s][l] <= calls

\* An index that is not open has no vectors.
ClosedIsEmpty ==
    \A s \in Stores :
       ~open[s] => current[s] = Nothing /\ caches[s] = <<>> /\ main[s] = Nothing

\* Files are named after the index, or after none.
NamedAfter ==
    \A s \in Stores :
       /\ base[s] # NoFile /\ base[s][1] \in {0, s}
       /\ mapped[s] # NoFile => mapped[s][1] \in {0, s}

\* Without failures each compact file is in the list of an index that has it as
\* the current one.
Listed ==
    faults = 0 =>
       \A n \in disk : \E s \in Stores :
          open[s] /\ currentFile[s] = n /\ n \in compactFiles[s]

Inductive == TypeOK /\ Counted /\ ClosedIsEmpty /\ NamedAfter /\ Listed

LEMMA NothingIsMap == Nothing \in Maps
  BY DEF Nothing, Maps

\* What addPoint adds is a vector, and it is counted.
LEMMA AddedVector ==
    ASSUME TypeOK, Counted, NEW s \in Stores, NEW l \in Labels, Adding(s, l)
    PROVE  /\ adds[s][l] + 1 \in Vectors
           /\ Added(s, l) \in Maps
           /\ Added(s, l) = [current[s] EXCEPT ![l] = adds[s][l] + 1]
           /\ adds' \in [Stores -> [Labels -> 0 .. MaxCalls]]
           /\ calls' \in 0 .. MaxCalls
           /\ Counted'
<1>1. /\ adds[s][l] \in Nat /\ calls \in Nat /\ adds[s][l] <= calls
      /\ calls + 1 <= MaxCalls /\ calls' = calls + 1
      /\ MaxCalls \in Nat /\ open[s]
  BY ThresholdAssumption DEF TypeOK, TypeVars, Counted, Adding
<1>2. adds[s][l] + 1 \in Vectors /\ calls' \in 0 .. MaxCalls
  BY <1>1 DEF Vectors
<1>3. Added(s, l) = [current[s] EXCEPT ![l] = adds[s][l] + 1]
  BY DEF Added, Set
<1>4. Added(s, l) \in Maps
  BY <1>2, <1>3 DEF TypeOK, TypeVars, Maps
<1>5. adds' = [adds EXCEPT ![s][l] = adds[s][l] + 1]
  BY DEF Adding
<1>6. adds' \in [Stores -> [Labels -> 0 .. MaxCalls]]
  BY <1>1, <1>5 DEF TypeOK, TypeVars
<1>7. \A t \in Stores, k \in Labels :
         adds'[t][k] = IF t = s /\ k = l THEN adds[s][l] + 1 ELSE adds[t][k]
  BY <1>5 DEF TypeOK, TypeVars
<1>8. \A t \in Stores, k \in Labels : adds[t][k] \in Nat /\ adds[t][k] <= calls
  BY DEF TypeOK, TypeVars, Counted
<1>9. Counted'
  BY <1>1, <1>7, <1>8 DEF Counted
<1> QED BY <1>2, <1>3, <1>4, <1>6, <1>9

\* What for_each_vector gathers are vectors, one for each label that is held.
LEMMA GatheredVectors ==
    ASSUME TypeOK, NEW s \in Stores, NEW cs \in Seq(Maps)
    PROVE  /\ Gather(s, cs) \in Maps
           /\ \A l \in Labels :
                 Gather(s, cs)[l] # None <=> Holding(cs, l) # {} \/ main[s][l] # None
<1>1. \A l \in Labels : main[s][l] \in Vectors \cup {None, Garbage}
  BY DEF TypeOK, TypeVars, Maps
<1>2. \A l \in Labels : Holding(cs, l) # {} =>
         /\ Oldest(cs, l) \in Vectors \cup {Garbage}
         /\ Newest(cs, l) \in Vectors \cup {Garbage}
  BY HeldVector
<1>3. None \notin Vectors /\ None # Garbage
  BY DEF Vectors, None, Garbage
<1>4. \A l \in Labels : Gather(s, cs)[l] =
         IF Holding(cs, l) = {} THEN main[s][l]
         ELSE IF main[s][l] # None THEN Oldest(cs, l) ELSE Newest(cs, l)
  BY DEF Gather
<1>5. Gather(s, cs) \in Maps
  <2>1. \A l \in Labels : Gather(s, cs)[l] \in Vectors \cup {None, Garbage}
    BY <1>1, <1>2, <1>4
  <2> QED BY <2>1 DEF Gather, Maps
<1> QED BY <1>1, <1>2, <1>3, <1>4, <1>5

\* A compaction leaves maps of vectors behind in every index, and no vector in
\* an index that maps no file.
LEMMA OverwrittenMaps ==
    ASSUME TypeOK, ClosedIsEmpty, NEW s \in Stores, NEW x \in Maps
    PROVE  /\ Overwritten(s, x) \in [Stores -> Maps]
           /\ Overwritten(s, x)[s] = x
           /\ \A t \in Stores \ {s} :
                 /\ mapped[t] = NoFile =>
                       \A l \in Labels : Overwritten(s, x)[t][l] \in {None, Garbage}
                 /\ main[t] = Nothing => Overwritten(s, x)[t] = Nothing
<1>1. main \in [Stores -> Maps]
  BY DEF TypeOK, TypeVars
<1>2. [l \in Labels |-> None] = Nothing
  BY DEF Nothing
<1>3. \A t \in Stores : [l \in Labels |-> IF main[t][l] = None THEN None ELSE Garbage] \in Maps
  BY DEF Maps
<1>4. Overwritten(s, x) \in [Stores -> Maps]
  BY <1>1, <1>3 DEF Overwritten
<1>5. ASSUME NEW t \in Stores \ {s}
      PROVE  /\ mapped[t] = NoFile =>
                   \A l \in Labels : Overwritten(s, x)[t][l] \in {None, Garbage}
             /\ main[t] = Nothing => Overwritten(s, x)[t] = Nothing
  <2>1. Overwritten(s, x)[t] =
           IF linked[t] /\ mapped[t] = NextFile(s)
           THEN [l \in Labels |-> IF main[t][l] = None THEN None ELSE Garbage]
           ELSE main[t]
    BY DEF Overwritten
  <2>2. mapped[t] = NoFile => \A l \in Labels : main[t][l] \in {None, Garbage}
    BY DEF TypeOK
  <2> QED BY <1>2, <2>1, <2>2 DEF Nothing
<1>6. Overwritten(s, x)[s] = x
  BY DEF Overwritten
<1> QED BY <1>4, <1>5, <1>6

LEMMA NextFileIsName ==
    ASSUME TypeOK, NamedAfter, NEW s \in Stores
    PROVE  /\ NextFile(s) \in Names /\ NextFile(s) # NoFile
           /\ NextFile(s)[1] = base[s][1]
<1>1. base[s] \in Seq(Nat \cup Stores) /\ version[s] + 1 \in Nat \cup Stores /\ base[s] # << >>
  BY DEF TypeOK, TypeVars, Names, NamedAfter, NoFile
<1> QED BY <1>1 DEF NextFile, Names, NoFile

-----------------------------------------------------------------------------
LEMMA InitInductive == Init => Inductive
<1> SUFFICES ASSUME Init PROVE Inductive
  OBVIOUS
<1>1. TypeOK
  BY NothingIsMap, ThresholdAssumption
     DEF Init, TypeOK, TypeVars, Names, NoFile, Maps, Nothing, None, Garbage
<1>2. Counted /\ ClosedIsEmpty /\ Listed
  BY ThresholdAssumption DEF Init, Counted, ClosedIsEmpty, Listed, Nothing, None
<1>3. NamedAfter
  BY DEF Init, NamedAfter, NoFile
<1> QED BY <1>1, <1>2, <1>3 DEF Inductive

\* Every step keeps the types.
LEMMA TypeStep == Inductive /\ [Next]_vars => TypeOK'
<1> SUFFICES ASSUME Inductive, [Next]_vars PROVE TypeOK'
  OBVIOUS
<1> USE ThresholdAssumption, NothingIsMap
<1>0. TypeOK /\ TypeVars /\ Counted /\ ClosedIsEmpty /\ NamedAfter
  BY DEF Inductive, TypeOK
<1>00. /\ NoFile \in Names /\ <<0>> \in Names /\ << >> \in Seq(Maps)
       /\ \A s \in Stores : <<s>> \in Names
  BY DEF Names, NoFile
<1>000. 0 < FlushThreshold
  OBVIOUS
<1> USE <1>0, <1>00, <1>000 DEF Set
<1>1. ASSUME NEW s \in Stores, Open(s) PROVE TypeOK'
  BY <1>1 DEF TypeOK, TypeVars, Open, deltaVars, mainVars, nameVars, diskVars
<1>2. ASSUME NEW s \in Stores, Load(s) PROVE TypeOK'
  <2>1. main' = [main EXCEPT ![s] = [l \in Labels |-> IF l \in image[s] THEN Garbage ELSE None]]
    BY <1>2 DEF Load
  <2>2. main' \in [Stores -> Maps]
    BY <2>1 DEF TypeVars, Maps
  <2>3. \A l \in Labels : main'[s][l] \in {None, Garbage}
    BY <2>1 DEF TypeVars
  <2>4. TypeVars'
    BY <1>2, <2>2 DEF Load, TypeVars, deltaVars, diskVars
  <2> QED BY <1>2, <2>1, <2>3, <2>4 DEF Load, TypeOK, TypeVars, deltaVars, diskVars
<1>3. ASSUME NEW s \in Stores, LoadLeftover(s) PROVE TypeOK'
  <2>1. linked' \in [Stores -> BOOLEAN]
    BY <1>3 DEF LoadLeftover, Unlinked, TypeVars
  <2>2. /\ disk' = disk \ {Latest(s)} /\ Latest(s) \notin short
        /\ opens' = opens + 1 /\ opens < MaxOpens
        /\ UNCHANGED <<open, deltaVars, main, mapped, nameVars, short, image, adds, calls, faults>>
    BY <1>3 DEF LoadLeftover
  <2>3. TypeVars'
    BY <2>1, <2>2 DEF TypeVars, deltaVars, nameVars
  <2> QED BY <2>2, <2>3 DEF TypeOK, deltaVars, nameVars
<1>4. ASSUME NEW s \in Stores, NEW l \in Labels, AddPoint(s, l) PROVE TypeOK'
  <2>1. /\ Adding(s, l) /\ additions[s] + 1 < FlushThreshold
        /\ current' = [current EXCEPT ![s] = Added(s, l)]
        /\ additions' = [additions EXCEPT ![s] = additions[s] + 1]
        /\ UNCHANGED <<open, caches, mainVars, nameVars, diskVars, image, opens, faults>>
    BY <1>4 DEF AddPoint, Full, TypeVars
  <2>2. TypeVars'
    BY <2>1, AddedVector, SMTT(40) DEF TypeVars, mainVars, nameVars, diskVars
  <2> QED BY <2>1, <2>2 DEF TypeOK, TypeVars, mainVars, nameVars, diskVars
<1>5. ASSUME NEW s \in Stores, NEW cs \in Seq(Maps), Flush(s, cs)
      PROVE  /\ current' \in [Stores -> Maps] /\ caches' \in [Stores -> Seq(Maps)]
             /\ additions' = [additions EXCEPT ![s] = 0]
             /\ additions' \in [Stores -> Nat]
  BY <1>5 DEF Flush, TypeVars
<1>6. ASSUME NEW s \in Stores, NEW l \in Labels, AddFlushes(s, l) PROVE TypeOK'
  <2>1. /\ Adding(s, l) /\ Flush(s, Append(caches[s], Added(s, l)))
        /\ UNCHANGED <<open, mainVars, nameVars, diskVars, image, opens, faults>>
    BY <1>6 DEF AddFlushes
  <2>2. Append(caches[s], Added(s, l)) \in Seq(Maps)
    BY <2>1, AddedVector DEF TypeVars
  <2>3. TypeVars'
    BY <1>5, <2>1, <2>2, AddedVector DEF TypeVars, mainVars, nameVars, diskVars
  <2>4. additions' = [additions EXCEPT ![s] = 0]
    BY <1>5, <2>1, <2>2
  <2>5. faults' = 0 => \A t \in Stores : additions'[t] < FlushThreshold
    BY <2>1, <2>4 DEF TypeOK, TypeVars
  <2> QED BY <2>1, <2>3, <2>5 DEF TypeOK, mainVars, nameVars
<1>7. ASSUME NEW s \in Stores, NEW l \in Labels, AddCannotFlush(s, l) PROVE TypeOK'
  <2>1. /\ Adding(s, l) /\ faults < MaxFaults /\ faults' = faults + 1
        /\ current' = [current EXCEPT ![s] = Added(s, l)]
        /\ additions' = [additions EXCEPT ![s] = additions[s] + 1]
        /\ version' \in {version, [version EXCEPT ![s] = version[s] + 1]}
        /\ UNCHANGED <<open, caches, mainVars, base, compactFiles, currentFile,
                       diskVars, image, opens>>
    BY <1>7 DEF AddCannotFlush
  <2>2. version' \in [Stores -> Nat] /\ additions' \in [Stores -> Nat]
    <3>1. version \in [Stores -> Nat] /\ additions \in [Stores -> Nat]
      BY DEF TypeVars
    <3>2. [version EXCEPT ![s] = version[s] + 1] \in [Stores -> Nat]
      BY <3>1
    <3> QED BY <2>1, <3>1, <3>2
  <2>3. TypeVars'
    BY <2>1, <2>2, AddedVector, SMTT(40) DEF TypeVars, mainVars, diskVars
  <2> QED BY <2>1, <2>3, SMTT(40) DEF TypeOK, TypeVars, mainVars, diskVars
<1>8. ASSUME NEW s \in Stores, NEW l \in Labels, AddCompacts(s, l) PROVE TypeOK'
  <2> DEFINE cs == Append(caches[s], Added(s, l))
             file == NextFile(s)
  <2>1. Adding(s, l) /\ version' = [version EXCEPT ![s] = version[s] + 1]
    BY <1>8 DEF AddCompacts, Compacting
  <2>2. cs \in Seq(Maps)
    BY <2>1, AddedVector DEF TypeVars
  <2>3. /\ file \in Names /\ file # NoFile
        /\ Gather(s, cs) \in Maps
        /\ << >> \in Seq(Maps) /\ Flush(s, << >>)
    BY <1>8, <2>2, NextFileIsName, GatheredVectors DEF AddCompacts
  <2>4. /\ main' = Overwritten(s, Gather(s, cs))
        /\ mapped' = [mapped EXCEPT ![s] = file]
        /\ linked' = [Unlinked(Removed(s, file)) EXCEPT ![s] = TRUE]
        /\ base' = [base EXCEPT ![s] = file] /\ currentFile' = [currentFile EXCEPT ![s] = file]
        /\ compactFiles' = [compactFiles EXCEPT ![s] = {file}]
        /\ disk' = (disk \cup {file}) \ Removed(s, file)
        /\ short' = short \ (Removed(s, file) \cup {file})
        /\ UNCHANGED <<open, image, opens, faults>>
    BY <1>8 DEF AddCompacts
  <2> HIDE DEF cs, file
  <2>5. main' \in [Stores -> Maps] /\ \A t \in Stores : mapped'[t] = NoFile =>
           \A k \in Labels : main'[t][k] \in {None, Garbage}
    BY <2>3, <2>4, OverwrittenMaps, SMTT(40) DEF TypeVars
  <2>6. linked' \in [Stores -> BOOLEAN]
    BY <2>4 DEF TypeVars, Unlinked
  <2>7. short' \subseteq disk' /\ disk' \subseteq Names
    BY <2>3, <2>4 DEF TypeVars
  <2>8. TypeVars'
    <3>1. /\ current' \in [Stores -> Maps] /\ caches' \in [Stores -> Seq(Maps)]
          /\ additions' \in [Stores -> Nat]
      BY <1>5, <2>3
    <3>2. /\ adds' \in [Stores -> [Labels -> 0 .. MaxCalls]] /\ calls' \in 0 .. MaxCalls
      BY <2>1, AddedVector
    <3>3. /\ version' \in [Stores -> Nat] /\ compactFiles' \in [Stores -> SUBSET Names]
          /\ mapped' \in [Stores -> Names] /\ base' \in [Stores -> Names]
          /\ currentFile' \in [Stores -> Names]
      BY <2>1, <2>3, <2>4 DEF TypeVars
    <3> QED BY <2>4, <2>5, <2>6, <2>7, <3>1, <3>2, <3>3 DEF TypeVars
  <2>9. faults' = 0 => \A t \in Stores :
           /\ additions'[t] < FlushThreshold
           /\ mapped'[t] # NoFile => mapped'[t] = currentFile'[t]
    <3>1. additions' = [additions EXCEPT ![s] = 0]
      BY <1>5, <2>3
    <3> QED BY <2>4, <3>1 DEF TypeOK, TypeVars
  <2> QED BY <2>5, <2>8, <2>9 DEF TypeOK
<1>9. ASSUME NEW s \in Stores, NEW l \in Labels, AddCompactsShort(s, l) PROVE TypeOK'
  <2> DEFINE cs == Append(caches[s], Added(s, l))
             file == NextFile(s)
  <2>1. Adding(s, l) /\ version' = [version EXCEPT ![s] = version[s] + 1]
    BY <1>9 DEF AddCompactsShort, Compacting
  <2>2. cs \in Seq(Maps) /\ Flush(s, cs) /\ file \in Names
    BY <1>9, <2>1, AddedVector, NextFileIsName DEF TypeVars, AddCompactsShort
  <2>3. /\ faults < MaxFaults /\ faults' = faults + 1
        /\ main' = Overwritten(s, Nothing)
        /\ mapped' = [mapped EXCEPT ![s] = NoFile] /\ linked' = [linked EXCEPT ![s] = FALSE]
        /\ currentFile' = [currentFile EXCEPT ![s] = file]
        /\ disk' = disk \cup {file} /\ short' = short \cup {file}
        /\ UNCHANGED <<open, base, compactFiles, image, opens>>
    BY <1>9 DEF AddCompactsShort
  <2> HIDE DEF cs, file
  <2>4. main' \in [Stores -> Maps] /\ \A t \in Stores : mapped'[t] = NoFile =>
           \A k \in Labels : main'[t][k] \in {None, Garbage}
    <3>1. \A k \in Labels : Nothing[k] = None
      BY DEF Nothing
    <3>2. /\ main' \in [Stores -> Maps] /\ main'[s] = Nothing
          /\ \A t \in Stores \ {s} : mapped[t] = NoFile =>
                \A k \in Labels : main'[t][k] \in {None, Garbage}
      BY <2>3, OverwrittenMaps, NothingIsMap
    <3>3. \A t \in Stores \ {s} : mapped'[t] = mapped[t]
      BY <2>3 DEF TypeOK, TypeVars
    <3> QED BY <3>1, <3>2, <3>3
  <2>5. TypeVars'
    <3>1. /\ current' \in [Stores -> Maps] /\ caches' \in [Stores -> Seq(Maps)]
          /\ additions' \in [Stores -> Nat]
      BY <1>5, <2>2
    <3>2. /\ adds' \in [Stores -> [Labels -> 0 .. MaxCalls]] /\ calls' \in 0 .. MaxCalls
      BY <2>1, AddedVector
    <3>3. /\ version' \in [Stores -> Nat] /\ mapped' \in [Stores -> Names]
          /\ currentFile' \in [Stores -> Names] /\ linked' \in [Stores -> BOOLEAN]
      BY <2>1, <2>2, <2>3 DEF TypeVars
    <3> QED BY <2>2, <2>3, <2>4, <3>1, <3>2, <3>3, SMTT(40) DEF TypeVars
  <2>6. faults' # 0
    BY <2>3 DEF TypeVars
  <2> QED BY <2>4, <2>5, <2>6 DEF TypeOK
<1>10. ASSUME NEW s \in Stores, Save(s) PROVE TypeOK'
  <2> DEFINE cs == IF current[s] = Nothing THEN caches[s] ELSE Append(caches[s], current[s])
  <2>1. cs \in Seq(Maps)
    BY DEF TypeVars
  <2>2. /\ caches' = [caches EXCEPT ![s] = cs]
        /\ image' = [image EXCEPT ![s] = {l \in Labels : Gather(s, cs)[l] # None}]
        /\ current' = [current EXCEPT ![s] = Nothing]
        /\ additions' = IF current[s] = Nothing THEN additions ELSE [additions EXCEPT ![s] = 0]
        /\ UNCHANGED <<open, mainVars, nameVars, diskVars, bookVars>>
    BY <1>10 DEF Save
  <2> HIDE DEF cs
  <2> QED BY <2>1, <2>2
          DEF TypeOK, TypeVars, mainVars, nameVars, diskVars, bookVars
<1>11. ASSUME NEW s \in Stores, Drop(s)
       PROVE  /\ main' \in [Stores -> Maps] /\ mapped' \in [Stores -> Names]
              /\ linked' \in [Stores -> BOOLEAN] /\ caches' \in [Stores -> Seq(Maps)]
              /\ compactFiles' \in [Stores -> SUBSET Names]
              /\ disk' \subseteq Names /\ short' \subseteq disk'
              /\ mapped' = [mapped EXCEPT ![s] = NoFile]
              /\ \A t \in Stores : mapped'[t] = NoFile =>
                    \A k \in Labels : main'[t][k] \in {None, Garbage}
  <2>1. linked' \in [Stores -> BOOLEAN]
    BY <1>11 DEF Drop, TypeVars, Unlinked
  <2> QED BY <1>11, <2>1 DEF Drop, TypeOK, TypeVars, Nothing
<1>12. ASSUME NEW s \in Stores, Clear(s) PROVE TypeOK'
  <2>1. Drop(s)
    BY <1>12 DEF Clear
  <2> QED BY <1>11, <1>12, <2>1 DEF Clear, TypeOK, TypeVars, bookVars
<1>13. ASSUME NEW s \in Stores, Close(s) PROVE TypeOK'
  <2>1. Drop(s)
    BY <1>13 DEF Close
  <2> QED BY <1>11, <1>13, <2>1, SMTT(40) DEF Close, TypeOK, TypeVars, bookVars
<1>14. ASSUME Crash PROVE TypeOK'
  <2>2. /\ faults < MaxFaults /\ faults' = faults + 1
        /\ open' = [s \in Stores |-> FALSE] /\ main' = [s \in Stores |-> Nothing]
        /\ linked' = [s \in Stores |-> FALSE]
        /\ current' = [s \in Stores |-> Nothing] /\ additions' = [s \in Stores |-> 0]
        /\ caches' = [s \in Stores |-> <<>>]
        /\ mapped' = [s \in Stores |-> NoFile] /\ currentFile' = [s \in Stores |-> NoFile]
        /\ base' = [s \in Stores |-> <<0>>] /\ version' = [s \in Stores |-> 0]
        /\ compactFiles' = [s \in Stores |-> {}]
        /\ UNCHANGED <<diskVars, image, adds, calls, opens>>
    BY <1>14 DEF Crash
  <2>3. TypeVars'
    BY <2>2 DEF TypeVars, diskVars
  <2>4. faults' # 0
    BY <2>2 DEF TypeVars
  <2>5. \A s \in Stores, l \in Labels : main'[s][l] = None
    BY <2>2 DEF Nothing
  <2> QED BY <2>3, <2>4, <2>5 DEF TypeOK
<1>15. CASE UNCHANGED vars
  BY <1>15 DEF TypeOK, TypeVars, vars, deltaVars, mainVars, nameVars, diskVars, bookVars
<1> QED BY <1>1, <1>2, <1>3, <1>4, <1>6, <1>7, <1>8, <1>9, <1>10, <1>12, <1>13, <1>14,
           <1>15 DEF Next, Add

\* Every step counts what it adds.
LEMMA CountedStep == Inductive /\ [Next]_vars => Counted'
<1> SUFFICES ASSUME Inductive, [Next]_vars PROVE Counted'
  OBVIOUS
<1>0. TypeOK /\ Counted
  BY DEF Inductive
<1>1. ASSUME NEW s \in Stores, NEW l \in Labels, Add(s, l) PROVE Counted'
  <2>1. Adding(s, l)
    BY <1>1 DEF Add, AddPoint, AddFlushes, AddCannotFlush, AddCompacts, AddCompactsShort,
                Compacting
  <2> QED BY <1>0, <2>1, AddedVector
<1>2. ASSUME UNCHANGED <<adds, calls>> PROVE Counted'
  BY <1>0, <1>2 DEF Counted
<1>3. ASSUME NEW s \in Stores, \/ Open(s) \/ Load(s) \/ LoadLeftover(s)
                               \/ Save(s) \/ Clear(s) \/ Close(s)
      PROVE  UNCHANGED <<adds, calls>>
  BY <1>3 DEF Open, Load, LoadLeftover, Save, Clear, Close, bookVars
<1>4. Crash \/ UNCHANGED vars => UNCHANGED <<adds, calls>>
  BY DEF Crash, vars, bookVars
<1> QED BY <1>1, <1>2, <1>3, <1>4 DEF Next

\* No step puts vectors into an index that is not open.
LEMMA ClosedStep == Inductive /\ [Next]_vars => ClosedIsEmpty'
<1> SUFFICES ASSUME Inductive, [Next]_vars PROVE ClosedIsEmpty'
  OBVIOUS
<1>0. TypeOK /\ TypeVars /\ ClosedIsEmpty /\ Counted
  BY DEF Inductive, TypeOK
<1>1. ASSUME NEW s \in Stores, Open(s) \/ Load(s) PROVE ClosedIsEmpty'
  BY <1>0, <1>1, ZenonT(40) DEF Open, Load, Set, ClosedIsEmpty, TypeVars, deltaVars, mainVars
<1>2. ASSUME NEW s \in Stores, LoadLeftover(s) PROVE ClosedIsEmpty'
  BY <1>0, <1>2 DEF LoadLeftover, ClosedIsEmpty, deltaVars
<1>3. ASSUME NEW s \in Stores, NEW l \in Labels, Add(s, l) PROVE ClosedIsEmpty'
  <2>1. open[s] /\ open' = open
    BY <1>3 DEF Add, AddPoint, AddFlushes, AddCannotFlush, AddCompacts, AddCompactsShort,
                Compacting, Adding
  <2>2. \A t \in Stores \ {s} : current'[t] = current[t] /\ caches'[t] = caches[t]
    BY <1>0, <1>3 DEF Add, AddPoint, AddFlushes, AddCannotFlush, AddCompacts,
                      AddCompactsShort, Flush, Set, TypeVars
  <2>3. \A t \in Stores \ {s} : main[t] = Nothing => main'[t] = Nothing
    <3>1. CASE \E x \in Maps : main' = Overwritten(s, x)
      BY <1>0, <3>1, OverwrittenMaps
    <3>2. CASE main' = main
      BY <3>2
    <3>3. ASSUME AddCompacts(s, l) PROVE \E x \in Maps : main' = Overwritten(s, x)
      <4>1. Append(caches[s], Added(s, l)) \in Seq(Maps)
        BY <1>0, <3>3, AddedVector DEF AddCompacts, Compacting, TypeVars
      <4>2. Gather(s, Append(caches[s], Added(s, l))) \in Maps
        BY <1>0, <4>1, GatheredVectors
      <4> QED BY <3>3, <4>2 DEF AddCompacts
    <3>4. AddCompactsShort(s, l) => main' = Overwritten(s, Nothing)
      BY DEF AddCompactsShort
    <3>5. AddPoint(s, l) \/ AddFlushes(s, l) \/ AddCannotFlush(s, l) => main' = main
      BY DEF AddPoint, AddFlushes, AddCannotFlush, mainVars
    <3> QED BY <1>3, <3>1, <3>2, <3>3, <3>4, <3>5, NothingIsMap DEF Add
  <2> QED BY <1>0, <2>1, <2>2, <2>3 DEF ClosedIsEmpty
<1>4. ASSUME NEW s \in Stores, Save(s) PROVE ClosedIsEmpty'
  <2>1. /\ open[s] /\ open' = open /\ main' = main
        /\ current' = [current EXCEPT ![s] = Nothing]
        /\ \A t \in Stores \ {s} : caches'[t] = caches[t]
    BY <1>0, <1>4 DEF Save, Set, mainVars, TypeVars
  <2> QED BY <1>0, <2>1 DEF ClosedIsEmpty, TypeVars
<1>5. ASSUME NEW s \in Stores, Clear(s) \/ Close(s) PROVE ClosedIsEmpty'
  <2>1. /\ open[s] /\ main' = [main EXCEPT ![s] = Nothing]
        /\ caches' = [caches EXCEPT ![s] = <<>>]
    BY <1>5 DEF Clear, Close, Drop, Set
  <2>2. \/ open' = open /\ current' = current
        \/ open' = [open EXCEPT ![s] = FALSE] /\ current' = [current EXCEPT ![s] = Nothing]
    BY <1>5 DEF Clear, Close, Set
  <2> QED BY <1>0, <2>1, <2>2 DEF ClosedIsEmpty, TypeVars
<1>6. ASSUME Crash PROVE ClosedIsEmpty'
  BY <1>6 DEF Crash, ClosedIsEmpty
<1>7. CASE UNCHANGED vars
  BY <1>0, <1>7 DEF ClosedIsEmpty, vars, deltaVars, mainVars
<1> QED BY <1>1, <1>2, <1>3, <1>4, <1>5, <1>6, <1>7 DEF Next

\* Every step names files after the index that writes them, or after none.
LEMMA NamedStep == Inductive /\ [Next]_vars => NamedAfter'
<1> SUFFICES ASSUME Inductive, [Next]_vars PROVE NamedAfter'
  OBVIOUS
<1>0. TypeOK /\ TypeVars /\ NamedAfter
  BY DEF Inductive, TypeOK
<1>1. ASSUME UNCHANGED <<base, mapped>> PROVE NamedAfter'
  BY <1>0, <1>1 DEF NamedAfter
<1>2. ASSUME NEW s \in Stores, Load(s) PROVE NamedAfter'
  BY <1>0, <1>2 DEF Load, Set, NamedAfter, NoFile, TypeVars
<1>3. ASSUME NEW s \in Stores, NEW l \in Labels, AddCompacts(s, l) PROVE NamedAfter'
  <2>1. /\ base' = [base EXCEPT ![s] = NextFile(s)]
        /\ mapped' = [mapped EXCEPT ![s] = NextFile(s)]
    BY <1>3 DEF AddCompacts, Set
  <2>2. NextFile(s) # NoFile /\ NextFile(s)[1] \in {0, s}
    BY <1>0, NextFileIsName DEF NamedAfter
  <2> QED BY <1>0, <2>1, <2>2 DEF NamedAfter, TypeVars
<1>4. ASSUME NEW s \in Stores, UNCHANGED base, mapped' = [mapped EXCEPT ![s] = NoFile]
      PROVE  NamedAfter'
  BY <1>0, <1>4 DEF NamedAfter, TypeVars
<1>5. ASSUME NEW s \in Stores, NEW l \in Labels, AddCompactsShort(s, l) PROVE NamedAfter'
  BY <1>4, <1>5 DEF AddCompactsShort, Set
<1>6. ASSUME NEW s \in Stores, Clear(s) PROVE NamedAfter'
  BY <1>4, <1>6 DEF Clear, Drop, Set
<1>7. ASSUME NEW s \in Stores, Close(s) PROVE NamedAfter'
  <2>1. base' = [base EXCEPT ![s] = <<0>>] /\ mapped' = [mapped EXCEPT ![s] = NoFile]
    BY <1>7 DEF Close, Drop, Set
  <2> QED BY <1>0, <2>1 DEF NamedAfter, NoFile, TypeVars
<1>8. ASSUME Crash PROVE NamedAfter'
  <2>1. base' = [s \in Stores |-> <<0>>] /\ mapped' = [s \in Stores |-> NoFile]
    BY <1>8 DEF Crash
  <2> QED BY <2>1 DEF NamedAfter, NoFile
<1>9. ASSUME NEW s \in Stores, NEW l \in Labels,
             \/ Open(s) \/ LoadLeftover(s) \/ Save(s)
             \/ AddPoint(s, l) \/ AddFlushes(s, l) \/ AddCannotFlush(s, l)
      PROVE  UNCHANGED <<base, mapped>>
  BY <1>9 DEF Open, LoadLeftover, Save, AddPoint, AddFlushes, AddCannotFlush, mainVars, nameVars
<1>10. \A s \in Stores : Open(s) \/ LoadLeftover(s) \/ Save(s) => UNCHANGED <<base, mapped>>
  BY DEF Open, LoadLeftover, Save, mainVars, nameVars
<1>11. UNCHANGED vars => UNCHANGED <<base, mapped>>
  BY DEF vars, mainVars, nameVars
<1> QED BY <1>1, <1>2, <1>3, <1>5, <1>6, <1>7, <1>8, <1>9, <1>10, <1>11 DEF Next, Add

\* Every step that makes a compact file lists it, and removes those no longer
\* listed.
LEMMA ListedStep == Inductive /\ [Next]_vars => Listed'
<1> SUFFICES ASSUME Inductive, [Next]_vars PROVE Listed'
  OBVIOUS
<1>0. TypeOK /\ TypeVars /\ Listed
  BY DEF Inductive, TypeOK
<1>1. ASSUME faults' = faults, disk' \subseteq disk, UNCHANGED <<currentFile, compactFiles>>,
             \A t \in Stores : open[t] => open'[t]
      PROVE  Listed'
  BY <1>0, <1>1 DEF Listed
<1>2. ASSUME NEW s \in Stores, Open(s) \/ Load(s) PROVE Listed'
  <2>1. \A t \in Stores : open[t] => open'[t]
    BY <1>0, <1>2 DEF Open, Load, Set, TypeVars
  <2> QED BY <1>1, <1>2, <2>1 DEF Open, Load, nameVars, diskVars
<1>3. ASSUME NEW s \in Stores, LoadLeftover(s) \/ Save(s) PROVE Listed'
  <2>1. /\ faults' = faults /\ disk' \subseteq disk /\ open' = open
        /\ UNCHANGED <<currentFile, compactFiles>>
    BY <1>3 DEF LoadLeftover, Save, nameVars, diskVars, bookVars
  <2> QED BY <1>1, <2>1
<1>4. ASSUME NEW s \in Stores, NEW l \in Labels, AddPoint(s, l) \/ AddFlushes(s, l)
      PROVE  Listed'
  BY <1>1, <1>4 DEF AddPoint, AddFlushes, nameVars, diskVars
<1>5. ASSUME faults' = faults + 1 PROVE Listed'
  BY <1>0, <1>5 DEF Listed, TypeVars
<1>6. ASSUME NEW s \in Stores, NEW l \in Labels, AddCompacts(s, l) PROVE Listed'
  <2> DEFINE file == NextFile(s)
  <2>1. /\ open[s] /\ currentFile' = [currentFile EXCEPT ![s] = file]
        /\ compactFiles' = [compactFiles EXCEPT ![s] = {file}]
        /\ disk' = (disk \cup {file}) \ (compactFiles[s] \ {file})
        /\ open' = open /\ faults' = faults
    BY <1>6 DEF AddCompacts, Set, Compacting, Adding, Removed
  <2> HIDE DEF file
  <2> SUFFICES ASSUME faults = 0, NEW n \in disk'
               PROVE  \E t \in Stores : open'[t] /\ currentFile'[t] = n /\ n \in compactFiles'[t]
    BY <2>1 DEF Listed
  <2>2. currentFile'[s] = file /\ compactFiles'[s] = {file}
    BY <1>0, <2>1 DEF TypeVars
  <2>3. CASE n = file
    BY <2>1, <2>2, <2>3
  <2>4. CASE n # file
    <3>1. n \in disk /\ n \notin compactFiles[s]
      BY <2>1, <2>4
    <3>2. PICK t \in Stores : open[t] /\ currentFile[t] = n /\ n \in compactFiles[t]
      BY <1>0, <3>1 DEF Listed
    <3>3. t # s /\ currentFile'[t] = currentFile[t] /\ compactFiles'[t] = compactFiles[t]
      BY <1>0, <2>1, <3>1, <3>2 DEF TypeVars
    <3> QED BY <2>1, <3>2, <3>3
  <2> QED BY <2>3, <2>4
<1>7. ASSUME NEW s \in Stores, Clear(s) \/ Close(s) PROVE Listed'
  <2>1. /\ disk' = disk \ {currentFile[s]} /\ faults' = faults
        /\ \A t \in Stores \ {s} : /\ open'[t] = open[t] /\ currentFile'[t] = currentFile[t]
                                   /\ compactFiles'[t] = compactFiles[t]
    BY <1>0, <1>7 DEF Clear, Close, Drop, Set, bookVars, TypeVars
  <2> QED BY <1>0, <2>1 DEF Listed
<1>8. ASSUME NEW s \in Stores, NEW l \in Labels, AddCannotFlush(s, l) \/ AddCompactsShort(s, l)
      PROVE  Listed'
  BY <1>5, <1>8 DEF AddCannotFlush, AddCompactsShort
<1>9. Crash => Listed'
  BY <1>5 DEF Crash
<1>10. CASE UNCHANGED vars
  BY <1>0, <1>10 DEF Listed, vars, nameVars, diskVars, bookVars
<1> QED BY <1>2, <1>3, <1>4, <1>6, <1>7, <1>8, <1>9, <1>10 DEF Next, Add

LEMMA InductiveStep == Inductive /\ [Next]_vars => Inductive'
  BY TypeStep, CountedStep, ClosedStep, NamedStep, ListedStep DEF Inductive

LEMMA InductiveHolds == Spec => []Inductive
<1>1. Init => Inductive
  BY InitInductive
<1>2. Inductive /\ [Next]_vars => Inductive'
  BY InductiveStep
<1> QED BY <1>1, <1>2, PTL DEF Spec

-----------------------------------------------------------------------------
(* The theorems.                                                           *)

\* Every variable of the storage keeps its type; only a failed write lets a delta
\* grow beyond its threshold, and an index that maps no compact file has no
\* vector it could rescore with but those in its deltas.
THEOREM TypeCorrect == Spec => []TypeOK
<1>1. Inductive => TypeOK
  BY DEF Inductive
<1> QED BY <1>1, InductiveHolds, PTL

\* Without crashes and failed writes every compact file on disk is the current
\* one of an open index, however many indexes share a name.
THEOREM NoFileLeftHolds == Spec => []NoFileLeft
<1>1. Inductive => NoFileLeft
  BY DEF Inductive, Listed, NoFileLeft
<1> QED BY <1>1, InductiveHolds, PTL

-----------------------------------------------------------------------------
(* Lookups.                                                                *)

\* get_vector over a current delta, caches and a main file.
Shown(d, cs, m, l) ==
    IF d[l] # None THEN d[l]
    ELSE IF Holding(cs, l) # {} THEN Newest(cs, l)
    ELSE m[l]

LEMMA GetIsShown ==
    ASSUME NEW s \in Stores, NEW l \in Labels
    PROVE  /\ Get(s, l) = Shown(current[s], caches[s], main[s], l)
           /\ Get(s, l)' = Shown(current'[s], caches'[s], main'[s], l)
  BY DEF Get, Shown, Holding, Newest

\* Turning the current delta into a cache changes no lookup.
LEMMA FlushKeepsLookups ==
    ASSUME NEW cs \in Seq(Maps), NEW d \in Maps, NEW m \in Maps, NEW l \in Labels
    PROVE  Shown(Nothing, Append(cs, d), m, l) = Shown(d, cs, m, l)
<1>1. Nothing[l] = None
  BY DEF Nothing
<1> QED BY <1>1, DeltaAppended, SMTT(40) DEF Shown

\* Merging the deltas with the main file changes no lookup of a label that was
\* not replaced twice.
LEMMA GatherKeepsLookups ==
    ASSUME NEW s \in Stores, NEW cs \in Seq(Maps), NEW l \in Labels, ~Outdated(s, l, cs)
    PROVE  Shown(Nothing, << >>, Gather(s, cs), l) = Shown(Nothing, cs, main[s], l)
<1>1. Nothing[l] = None /\ Holding(<< >>, l) = {}
  BY DEF Nothing, Holding
<1>2. Shown(Nothing, << >>, Gather(s, cs), l) = Gather(s, cs)[l]
  BY <1>1 DEF Shown
<1>3. ASSUME Holding(cs, l) # {}, main[s][l] # None PROVE Oldest(cs, l) = Newest(cs, l)
  <2>1. PICK i \in Holding(cs, l) : Holding(cs, l) = {i}
    BY <1>3 DEF Outdated
  <2>2. i \in Nat
    BY <2>1 DEF Holding
  <2>3. /\ (CHOOSE k \in Holding(cs, l) : \A j \in Holding(cs, l) : k <= j) = i
        /\ (CHOOSE k \in Holding(cs, l) : \A j \in Holding(cs, l) : j <= k) = i
    BY <2>1, <2>2
  <2> QED BY <2>3 DEF Oldest, Newest
<1> QED BY <1>1, <1>2, <1>3 DEF Shown, Gather

\* What a lookup finds once addPoint has put its vector into the delta.
LEMMA AddedIsShown ==
    ASSUME TypeOK, Counted, NEW s \in Stores, NEW k \in Labels, Adding(s, k),
           NEW l \in Labels
    PROVE  Shown(Added(s, k), caches[s], main[s], l) =
              IF adds'[s][l] # adds[s][l] THEN adds'[s][l] ELSE Get(s, l)
<1>1. adds' = [adds EXCEPT ![s][k] = adds[s][k] + 1]
  BY DEF Adding
<1>2. adds[s][k] \in Nat /\ adds[s][k] + 1 # adds[s][k] /\ adds[s][k] + 1 # None
  BY DEF TypeOK, TypeVars, None
<1>3. adds'[s][l] = IF l = k THEN adds[s][k] + 1 ELSE adds[s][l]
  BY <1>1 DEF TypeOK, TypeVars
<1>4. Added(s, k)[l] = IF l = k THEN adds[s][k] + 1 ELSE current[s][l]
  BY AddedVector, SMTT(40) DEF TypeOK, TypeVars, Maps
<1>5. Get(s, l) = Shown(current[s], caches[s], main[s], l)
  BY GetIsShown
<1> QED BY <1>2, <1>3, <1>4, <1>5 DEF Shown

\* A step of the lookup property, for one label of one index.
LastOf(s, l) ==
    \/ Get(s, l)' = IF adds'[s][l] # adds[s][l] THEN adds'[s][l] ELSE Get(s, l)
    \/ LookupLost(s, l)

\* A step that leaves alone what a lookup reads.
LEMMA LookupFrame ==
    ASSUME NEW s \in Stores, NEW l \in Labels, adds'[s][l] = adds[s][l],
           current'[s] = current[s], caches'[s] = caches[s], main'[s] = main[s]
    PROVE  LastOf(s, l)
  BY GetIsShown DEF LastOf

\* The index that the vector is added to.
LEMMA OwnLookups ==
    ASSUME Inductive, NEW s \in Stores, NEW k \in Labels, Add(s, k), NEW l \in Labels
    PROVE  LastOf(s, l)
<1> DEFINE d == Added(s, k)
           cs == Append(caches[s], d)
<1>0. /\ TypeOK /\ TypeVars /\ Counted /\ ClosedIsEmpty /\ Adding(s, k)
      /\ caches[s] \in Seq(Maps) /\ main[s] \in Maps /\ Nothing \in Maps
  BY NothingIsMap DEF Inductive, TypeOK, TypeVars, Add, AddPoint, AddFlushes, AddCannotFlush,
                      AddCompacts, AddCompactsShort, Compacting
<1>1. d \in Maps /\ cs \in Seq(Maps)
  BY <1>0, AddedVector
<1>2. Shown(d, caches[s], main[s], l) =
         IF adds'[s][l] # adds[s][l] THEN adds'[s][l] ELSE Get(s, l)
  BY <1>0, AddedIsShown
<1>3. Get(s, l)' = Shown(current'[s], caches'[s], main'[s], l)
  BY GetIsShown
<1>4. Shown(Nothing, cs, main[s], l) = Shown(d, caches[s], main[s], l)
  BY <1>0, <1>1, FlushKeepsLookups
<1> HIDE DEF d, cs
<1>5. CASE AddPoint(s, k) \/ AddCannotFlush(s, k)
  <2>1. current'[s] = d /\ caches'[s] = caches[s] /\ main'[s] = main[s]
    BY <1>0, <1>5 DEF AddPoint, AddCannotFlush, Set, mainVars, TypeVars, d
  <2> QED BY <1>2, <1>3, <2>1 DEF LastOf
<1>6. CASE AddFlushes(s, k)
  <2>1. current'[s] = Nothing /\ caches'[s] = cs /\ main'[s] = main[s]
    BY <1>0, <1>6 DEF AddFlushes, Flush, Set, mainVars, TypeVars, cs, d
  <2> QED BY <1>2, <1>3, <1>4, <2>1 DEF LastOf
<1>7. CASE AddCompacts(s, k)
  <2>1. CASE Outdated(s, l, cs)
    BY <1>7, <2>1 DEF LastOf, LookupLost, cs, d
  <2>2. CASE ~Outdated(s, l, cs)
    <3>1. Gather(s, cs) \in Maps
      BY <1>0, <1>1, GatheredVectors
    <3>2. current'[s] = Nothing /\ caches'[s] = << >> /\ main'[s] = Gather(s, cs)
      BY <1>0, <1>7, <3>1, OverwrittenMaps DEF AddCompacts, Flush, Set, TypeVars, cs, d
    <3>3. Shown(Nothing, << >>, Gather(s, cs), l) = Shown(Nothing, cs, main[s], l)
      BY <1>1, <2>2, GatherKeepsLookups
    <3> QED BY <1>2, <1>3, <1>4, <3>2, <3>3 DEF LastOf
  <2> QED BY <2>1, <2>2
<1>8. CASE AddCompactsShort(s, k)
  <2>1. CASE main[s][l] # None
    BY <1>8, <2>1 DEF LastOf, LookupLost
  <2>2. CASE main[s][l] = None
    <3>1. current'[s] = Nothing /\ caches'[s] = cs /\ main'[s] = Nothing
      BY <1>0, <1>8, OverwrittenMaps DEF AddCompactsShort, Flush, Set, TypeVars, cs, d
    <3>2. Nothing[l] = main[s][l]
      BY <2>2 DEF Nothing
    <3>3. Shown(Nothing, cs, Nothing, l) = Shown(Nothing, cs, main[s], l)
      BY <3>2 DEF Shown
    <3> QED BY <1>2, <1>3, <1>4, <3>1, <3>3 DEF LastOf
  <2> QED BY <2>1, <2>2
<1> QED BY <1>5, <1>6, <1>7, <1>8 DEF Add

\* The other indexes: only one that maps the file now written is disturbed, and
\* two indexes have one name for a file only if neither was loaded.
LEMMA OtherLookups ==
    ASSUME Inductive, NEW t \in Stores, NEW k \in Labels, Add(t, k),
           NEW s \in Stores \ {t}, NEW l \in Labels
    PROVE  LastOf(s, l)
<1>0. TypeOK /\ TypeVars /\ NamedAfter
  BY DEF Inductive, TypeOK
<1>1. current'[s] = current[s] /\ caches'[s] = caches[s]
  BY <1>0 DEF Add, AddPoint, AddFlushes, AddCannotFlush, AddCompacts, AddCompactsShort,
              Flush, Set, TypeVars
<1>2. adds'[s][l] = adds[s][l]
  <2>1. adds' = [adds EXCEPT ![t][k] = adds[t][k] + 1]
    BY DEF Add, AddPoint, AddFlushes, AddCannotFlush, AddCompacts, AddCompactsShort,
           Compacting, Adding
  <2> QED BY <1>0, <2>1 DEF TypeVars
<1>3. CASE main'[s] = main[s]
  BY <1>1, <1>2, <1>3, LookupFrame
<1>4. CASE main'[s] # main[s]
  <2>1. AddCompacts(t, k) \/ AddCompactsShort(t, k)
    BY <1>4 DEF Add, AddPoint, AddFlushes, AddCannotFlush, mainVars
  <2>2. mapped[s] = NextFile(t)
    BY <1>4, <2>1 DEF AddCompacts, AddCompactsShort, Overwritten
  <2>3. mapped[s] # NoFile /\ mapped[s][1] = base[t][1]
    BY <1>0, <2>2, NextFileIsName
  <2>4. mapped[s][1] \in {0, s} /\ base[t][1] \in {0, t} /\ s # t
    BY <1>0, <2>3 DEF NamedAfter
  <2>5. mapped[s][1] = 0 /\ base[t][1] = 0
    BY <2>3, <2>4
  <2> QED BY <2>1, <2>2, <2>3, <2>5 DEF LastOf, LookupLost
<1> QED BY <1>3, <1>4

LEMMA LookupStep ==
    ASSUME Inductive, [Next]_vars, NEW s \in Stores, NEW l \in Labels
    PROVE  LastOf(s, l) \/ UNCHANGED vars
<1>0. TypeOK /\ TypeVars /\ ClosedIsEmpty
  BY DEF Inductive, TypeOK
<1>1. ASSUME NEW t \in Stores, Open(t) \/ LoadLeftover(t) PROVE LastOf(s, l)
  BY <1>1, LookupFrame DEF Open, LoadLeftover, deltaVars, mainVars
<1>2. ASSUME NEW t \in Stores, Load(t) \/ Clear(t) \/ Close(t) PROVE LastOf(s, l)
  <2>1. CASE t = s
    <3>1. Load(s) \/ Close(s) => open'[s] # open[s]
      BY <1>0 DEF Load, Close, Set, TypeVars
    <3> QED BY <1>2, <2>1, <3>1 DEF LastOf, LookupLost
  <2>2. CASE t # s
    <3>1. /\ adds'[s][l] = adds[s][l] /\ current'[s] = current[s]
          /\ caches'[s] = caches[s] /\ main'[s] = main[s]
      BY <1>0, <1>2, <2>2 DEF Load, Clear, Close, Drop, Set, deltaVars, bookVars, TypeVars
    <3> QED BY <3>1, LookupFrame
  <2> QED BY <2>1, <2>2
<1>3. ASSUME NEW t \in Stores, NEW k \in Labels, Add(t, k) PROVE LastOf(s, l)
  <2>1. CASE t = s
    BY <1>3, <2>1, OwnLookups
  <2>2. CASE t # s
    BY <1>3, <2>2, OtherLookups
  <2> QED BY <2>1, <2>2
<1>4. ASSUME NEW t \in Stores, Save(t) PROVE LastOf(s, l)
  <2>1. adds' = adds /\ main' = main
    BY <1>4 DEF Save, bookVars, mainVars
  <2>2. CASE t # s \/ current[t] = Nothing
    <3>1. current'[s] = current[s] /\ caches'[s] = caches[s]
      BY <1>0, <1>4, <2>2 DEF Save, Set, TypeVars
    <3> QED BY <2>1, <3>1, LookupFrame
  <2>3. CASE t = s /\ current[s] # Nothing
    <3>1. current'[s] = Nothing /\ caches'[s] = Append(caches[s], current[s])
      BY <1>0, <1>4, <2>3 DEF Save, Set, TypeVars
    <3>2. caches[s] \in Seq(Maps) /\ current[s] \in Maps /\ main[s] \in Maps
      BY <1>0 DEF TypeVars
    <3>3. Shown(Nothing, Append(caches[s], current[s]), main[s], l) =
             Shown(current[s], caches[s], main[s], l)
      BY <3>2, FlushKeepsLookups
    <3> QED BY <2>1, <3>1, <3>3, GetIsShown DEF LastOf
  <2> QED BY <2>2, <2>3
<1>5. ASSUME Crash PROVE LastOf(s, l)
  <2>1. open'[s] = FALSE /\ adds' = adds
    BY <1>5 DEF Crash
  <2>2. CASE open[s]
    BY <2>1, <2>2 DEF LastOf, LookupLost
  <2>3. CASE ~open[s]
    <3>1. current'[s] = Nothing /\ caches'[s] = << >> /\ main'[s] = Nothing
      BY <1>5 DEF Crash
    <3> QED BY <1>0, <2>1, <2>3, <3>1, LookupFrame DEF ClosedIsEmpty
  <2> QED BY <2>2, <2>3
<1> QED BY <1>1, <1>2, <1>3, <1>4, <1>5 DEF Next

\* Flushes, compactions and saves, with any number of indexes in one directory,
\* leave every lookup at the vector added last but for the steps that LookupLost
\* names.
THEOREM LookupIsLastHolds == Spec => LookupIsLast
<1>1. Inductive /\ [Next]_vars =>
         [\A s \in Stores, l \in Labels :
             \/ Get(s, l)' = IF adds'[s][l] # adds[s][l] THEN adds'[s][l] ELSE Get(s, l)
             \/ LookupLost(s, l)]_vars
  BY LookupStep DEF LastOf
<1> QED BY <1>1, InductiveHolds, PTL DEF Spec, LookupIsLast

\* The image has the labels that a lookup finds, whether their vectors are in the
\* main file, in older deltas or in the current one.
THEOREM SaveCoversLookupsHolds == Spec => SaveCoversLookups
<1>1. ASSUME Inductive, NEW s \in Stores, Save(s)
      PROVE  image'[s] = {l \in Labels : Get(s, l) # None}
  <2> DEFINE cs == IF current[s] = Nothing THEN caches[s] ELSE Append(caches[s], current[s])
  <2>0. /\ TypeOK /\ TypeVars /\ caches[s] \in Seq(Maps) /\ current[s] \in Maps
        /\ cs \in Seq(Maps)
    BY <1>1 DEF Inductive, TypeOK, TypeVars
  <2>1. image'[s] = {l \in Labels : Gather(s, cs)[l] # None}
    BY <1>1, <2>0 DEF Save, Set, TypeVars
  <2>2. ASSUME NEW l \in Labels PROVE Gather(s, cs)[l] # None <=> Get(s, l) # None
    <3>1. Gather(s, cs)[l] # None <=> Holding(cs, l) # {} \/ main[s][l] # None
      BY <2>0, GatheredVectors
    <3>2. Holding(cs, l) # {} <=> current[s][l] # None \/ Holding(caches[s], l) # {}
      <4>1. CASE current[s] = Nothing
        BY <4>1 DEF Nothing
      <4>2. CASE current[s] # Nothing
        <5>1. cs = Append(caches[s], current[s])
          BY <4>2
        <5>2. /\ current[s][l] # None =>
                    Holding(cs, l) = Holding(caches[s], l) \cup {Len(caches[s]) + 1}
              /\ current[s][l] = None => Holding(cs, l) = Holding(caches[s], l)
          BY <2>0, <5>1, DeltaAppended
        <5> QED BY <5>2
      <4> QED BY <4>1, <4>2
    <3>3. Holding(caches[s], l) # {} => Newest(caches[s], l) # None
      BY <2>0, HeldVector DEF Vectors, None, Garbage
    <3> QED BY <3>1, <3>2, <3>3 DEF Get
  <2> QED BY <2>1, <2>2
<1>2. Inductive /\ [Next]_vars =>
         [\A s \in Stores : Save(s) => image'[s] = {l \in Labels : Get(s, l) # None}]_vars
  BY <1>1
<1> QED BY <1>2, InductiveHolds, PTL DEF Spec, SaveCoversLookups

-----------------------------------------------------------------------------
(* Codes: induction, and folds as functions.                               *)

\* A set of numbers that has 0, and with each number the next, has all of them.
LEMMA Induction ==
    ASSUME NEW P, 0 \in P, \A n \in Nat : n \in P => n + 1 \in P
    PROVE  Nat \subseteq P
<1> DEFINE S == Nat \ P
<1>1. SUFFICES ASSUME S # {} PROVE FALSE
  OBVIOUS
<1>2. PICK k \in S : \A n \in S : ~(<<n, k>> \in OpToRel(<, Nat))
  <2>1. S \subseteq Nat
    OBVIOUS
  <2> HIDE DEF S
  <2> QED BY <1>1, <2>1, WFMin, NatLessThanWellFounded, Zenon
<1>3. \A n \in S : ~(n < k)
  BY <1>2 DEF OpToRel
<1>4. k \in Nat /\ k # 0
  OBVIOUS
<1>5. k - 1 \in Nat /\ k - 1 < k
  BY <1>4
<1>6. k - 1 \in P
  BY <1>3, <1>5
<1>7. k \in P
  BY <1>4, <1>5, <1>6
<1> QED
  BY <1>7

\* The largest of a range is its end; taking it away leaves the range before it.
LEMMA MaxOfRange ==
    ASSUME NEW k \in Nat, k # 0
    PROVE  Max(1 .. k) = k /\ (1 .. k) \ {k} = 1 .. k - 1
  BY DEF Max

\* A non-empty set of numbers up to n has a largest.
LEMMA MaxIs ==
    ASSUME NEW n \in Nat, NEW s \in SUBSET (1 .. n), s # {}
    PROVE  Max(s) \in s /\ \A x \in s : x <= Max(s)
<1> DEFINE P == {k \in Nat : \A t \in SUBSET (1 .. k) : t # {} => \E x \in t : \A y \in t : x >= y}
<1>1. 0 \in P
  <2>1. SUBSET (1 .. 0) = {{}}
    OBVIOUS
  <2> QED BY <2>1
<1>2. ASSUME NEW k \in Nat, k \in P PROVE k + 1 \in P
  <2> SUFFICES ASSUME NEW t \in SUBSET (1 .. k + 1), t # {}
               PROVE \E x \in t : \A y \in t : x >= y
    OBVIOUS
  <2>1. CASE k + 1 \in t
    BY <2>1
  <2>2. CASE k + 1 \notin t
    <3>1. t \in SUBSET (1 .. k)
      BY <2>2
    <3> QED BY <3>1, <1>2
  <2> QED BY <2>1, <2>2
<1>3. Nat \subseteq P
  <2> HIDE DEF P
  <2> QED BY <1>1, <1>2, Induction
<1>4. \E x \in s : \A y \in s : x >= y
  BY <1>3
<1>5. Max(s) \in s /\ \A y \in s : Max(s) >= y
  BY <1>4 DEF Max
<1> QED
  BY <1>5

\* What a fold over places 1 to n computes: g of a set of places takes the last one
\* and what the others give.
FoldsBy(g, n, T, start, step) ==
    /\ g \in [SUBSET (1 .. n) -> T]
    /\ \A s \in SUBSET (1 .. n) :
          g[s] = IF s = {} THEN start ELSE step[<<Max(s), g[s \ {Max(s)}]>>]

\* What folds are made of: whatever a step does with an element (its place) and
\* what came before, there is a function on the sets of places that does it from
\* the last place to the first.
LEMMA FoldExists ==
    ASSUME NEW n \in Nat, NEW T, NEW start \in T, NEW step \in [(1 .. n) \X T -> T]
    PROVE  \E g : FoldsBy(g, n, T, start, step)
<1> DEFINE Is(g, k) ==
              \A s \in SUBSET (1 .. k) :
                 g[s] = IF s = {} THEN start ELSE step[<<Max(s), g[s \ {Max(s)}]>>]
           P == {k \in Nat : k <= n => \E g \in [SUBSET (1 .. k) -> T] : Is(g, k)}
<1>1. 0 \in P
  <2> DEFINE g == [s \in SUBSET (1 .. 0) |-> start]
  <2>1. SUBSET (1 .. 0) = {{}}
    OBVIOUS
  <2>2. g \in [SUBSET (1 .. 0) -> T] /\ Is(g, 0)
    BY <2>1
  <2> HIDE DEF g, Is
  <2> QED BY <2>2
<1>2. ASSUME NEW k \in Nat, k \in P PROVE k + 1 \in P
  <2> SUFFICES ASSUME k + 1 <= n PROVE \E g \in [SUBSET (1 .. k + 1) -> T] : Is(g, k + 1)
    <3>1. k + 1 \in Nat
      OBVIOUS
    <3> HIDE DEF Is
    <3> QED BY <3>1, Zenon
  <2>1. PICK h \in [SUBSET (1 .. k) -> T] : Is(h, k)
    <3>1. k <= n
      OBVIOUS
    <3> QED BY <3>1, <1>2
  <2> DEFINE g == [s \in SUBSET (1 .. k + 1) |->
                     IF s \in SUBSET (1 .. k) THEN h[s] ELSE step[<<k + 1, h[s \ {k + 1}]>>]]
  <2>2. \A s \in SUBSET (1 .. k + 1) : s \notin SUBSET (1 .. k) =>
           s # {} /\ Max(s) = k + 1 /\ s \ {k + 1} \in SUBSET (1 .. k)
    <3> TAKE s \in SUBSET (1 .. k + 1)
    <3> HAVE s \notin SUBSET (1 .. k)
    <3>1. k + 1 \in s
      OBVIOUS
    <3>2. Max(s) \in s /\ k + 1 <= Max(s)
      BY <3>1, MaxIs, k + 1 \in Nat
    <3>3. Max(s) \in 1 .. k + 1
      BY <3>2
    <3>4. Max(s) = k + 1
      BY <3>2, <3>3
    <3> QED BY <3>1, <3>4
  <2>3. g \in [SUBSET (1 .. k + 1) -> T]
    <3> SUFFICES ASSUME NEW s \in SUBSET (1 .. k + 1)
                 PROVE (IF s \in SUBSET (1 .. k) THEN h[s] ELSE step[<<k + 1, h[s \ {k + 1}]>>]) \in T
      BY Zenon
    <3>1. CASE s \in SUBSET (1 .. k)
      BY <3>1, <2>1
    <3>2. CASE s \notin SUBSET (1 .. k)
      <4>1. h[s \ {k + 1}] \in T
        BY <3>2, <2>1, <2>2
      <4>2. k + 1 \in 1 .. n
        OBVIOUS
      <4> QED BY <3>2, <4>1, <4>2
    <3> QED BY <3>1, <3>2
  <2>4. ASSUME NEW s \in SUBSET (1 .. k + 1)
        PROVE g[s] = IF s = {} THEN start ELSE step[<<Max(s), g[s \ {Max(s)}]>>]
    <3>1. CASE s \in SUBSET (1 .. k)
      <4>1. g[s] = h[s]
        BY <3>1
      <4>2. CASE s = {}
        BY <4>1, <4>2, <3>1, <2>1
      <4>3. CASE s # {}
        <5>1. s \ {Max(s)} \in SUBSET (1 .. k) /\ s \ {Max(s)} \in SUBSET (1 .. k + 1)
          BY <3>1
        <5>2. g[s \ {Max(s)}] = h[s \ {Max(s)}]
          BY <5>1
        <5>3. h[s] = step[<<Max(s), h[s \ {Max(s)}]>>]
          BY <3>1, <2>1, <4>3
        <5> QED BY <4>1, <4>3, <5>2, <5>3
      <4> QED BY <4>2, <4>3
    <3>2. CASE s \notin SUBSET (1 .. k)
      <4>1. s # {} /\ Max(s) = k + 1 /\ s \ {k + 1} \in SUBSET (1 .. k)
        BY <3>2, <2>2
      <4>2. s \ {k + 1} \in SUBSET (1 .. k + 1)
        OBVIOUS
      <4>3. g[s] = step[<<k + 1, h[s \ {k + 1}]>>]
        BY <3>2
      <4>4. g[s \ {k + 1}] = h[s \ {k + 1}]
        BY <4>1, <4>2
      <4> QED BY <4>1, <4>3, <4>4
    <3> QED BY <3>1, <3>2
  <2>5. Is(g, k + 1)
    BY <2>4
  <2> HIDE DEF g, Is
  <2> QED BY <2>3, <2>5
<1>3. Nat \subseteq P
  <2> HIDE DEF P
  <2> QED BY <1>1, <1>2, Induction
<1>4. \E g \in [SUBSET (1 .. n) -> T] : Is(g, n)
  <2>1. n \in P
    <3> HIDE DEF P
    <3> QED BY <1>3
  <2>2. n <= n
    OBVIOUS
  <2> HIDE DEF Is
  <2> QED BY <2>1, <2>2, Zenon
<1> QED
  BY <1>4, Zenon DEF FoldsBy

\* A sum is what its numbers add up to, one after the other.
LEMMA SumIs ==
    ASSUME NEW n \in Nat, NEW s \in [1 .. n -> Int]
    PROVE  \E h \in [0 .. n -> Int] :
              /\ h[0] = 0
              /\ \A k \in 1 .. n : h[k] = h[k - 1] + s[k]
              /\ Sum(s) = h[n]
<1> DEFINE Body(it) == [t \in SUBSET (1 .. n) |->
                           IF t = {} THEN 0 ELSE it[t \ {Max(t)}] + s[Max(t)]]
           iter == CHOOSE it : it = Body(it)
           step == [p \in (1 .. n) \X Int |-> p[2] + s[p[1]]]
<1>1. PICK g : FoldsBy(g, n, Int, 0, step)
  <2>1. step \in [(1 .. n) \X Int -> Int]
    OBVIOUS
  <2>2. 0 \in Int
    OBVIOUS
  <2> HIDE DEF step
  <2> QED BY <2>1, <2>2, FoldExists, Zenon
<1>2. g = Body(g)
  <2> g \in [SUBSET (1 .. n) -> Int]
    BY <1>1 DEF FoldsBy
  <2> SUFFICES ASSUME NEW t \in SUBSET (1 .. n)
               PROVE  g[t] = IF t = {} THEN 0 ELSE g[t \ {Max(t)}] + s[Max(t)]
    OBVIOUS
  <2>1. CASE t = {}
    BY <1>1, <2>1 DEF FoldsBy
  <2>2. CASE t # {}
    <3>1. Max(t) \in 1 .. n /\ t \ {Max(t)} \in SUBSET (1 .. n)
      BY <2>2, MaxIs
    <3>2. g[t \ {Max(t)}] \in Int
      BY <1>1, <3>1 DEF FoldsBy
    <3>3. g[t] = step[<<Max(t), g[t \ {Max(t)}]>>]
      BY <1>1, <2>2 DEF FoldsBy
    <3> QED BY <2>2, <3>1, <3>2, <3>3
  <2> QED BY <2>1, <2>2
<1>3. iter = Body(iter)
  BY <1>2
<1>4. Sum(s) = iter[1 .. n]
  BY DEF Sum, FoldLeft, MapThenFoldSet
<1> HIDE DEF iter
<1>5. \A t \in SUBSET (1 .. n) : iter[t] = IF t = {} THEN 0 ELSE iter[t \ {Max(t)}] + s[Max(t)]
  BY <1>3
<1>6. iter[{}] = 0
  BY <1>5
<1>7. ASSUME NEW k \in 1 .. n PROVE iter[1 .. k] = iter[1 .. k - 1] + s[k]
  <2>1. k \in Nat /\ k # 0 /\ k <= n /\ k \in 1 .. k
    OBVIOUS
  <2>2. \A x \in 1 .. k : x \in 1 .. n
    BY <2>1
  <2>3. 1 .. k \in SUBSET (1 .. n) /\ 1 .. k # {}
    BY <2>1, <2>2, Zenon
  <2> QED BY <2>1, <2>3, <1>5, MaxOfRange
<1> DEFINE h == [k \in 0 .. n |-> iter[1 .. k]]
           P == {k \in Nat : k <= n => iter[1 .. k] \in Int}
<1>8. 1 .. 0 = {}
  OBVIOUS
<1>9. 0 \in P
  BY <1>6, <1>8
<1>10. ASSUME NEW k \in Nat, k \in P PROVE k + 1 \in P
  <2> SUFFICES ASSUME k + 1 <= n PROVE iter[1 .. k + 1] \in Int
    <3>1. k + 1 \in Nat
      OBVIOUS
    <3> QED BY <3>1, Zenon
  <2>1. iter[1 .. k + 1] = iter[1 .. (k + 1) - 1] + s[k + 1]
    BY <1>7
  <2>2. (k + 1) - 1 = k /\ k <= n /\ k + 1 \in 1 .. n
    OBVIOUS
  <2> QED BY <2>1, <2>2, <1>10
<1>11. Nat \subseteq P
  <2> HIDE DEF P
  <2> QED BY <1>9, <1>10, Induction
<1>12. h \in [0 .. n -> Int]
  BY <1>11
<1>13. h[0] = 0 /\ \A k \in 1 .. n : h[k] = h[k - 1] + s[k]
  BY <1>6, <1>7, <1>8
<1>14. h[n] = Sum(s)
  BY <1>4
<1> HIDE DEF h
<1> QED
  BY <1>12, <1>13, <1>14

\* A sum of integers is one.
LEMMA SumType ==
    ASSUME NEW n \in Nat, NEW s \in [1 .. n -> Int]
    PROVE  Sum(s) \in Int
  BY SumIs

\* Numbers up to b have a sum of at most as many times b, and less when one of
\* them is less.
LEMMA SumAtMost ==
    ASSUME NEW n \in Nat, NEW s \in [1 .. n -> Int], NEW b \in Int, \A k \in 1 .. n : s[k] <= b
    PROVE  /\ Sum(s) <= b * n
           /\ (\E k \in 1 .. n : s[k] < b) => Sum(s) < b * n
<1>1. PICK h \in [0 .. n -> Int] : /\ h[0] = 0
                                   /\ \A k \in 1 .. n : h[k] = h[k - 1] + s[k]
                                   /\ Sum(s) = h[n]
  BY SumIs
<1> DEFINE P == {k \in Nat : k <= n => /\ h[k] <= b * k
                                       /\ (\E i \in 1 .. k : s[i] < b) => h[k] < b * k}
<1>2. 0 \in P
  <2>1. b * 0 = 0
    OBVIOUS
  <2> QED BY <1>1, <2>1
<1>3. ASSUME NEW k \in Nat, k \in P PROVE k + 1 \in P
  <2> SUFFICES ASSUME k + 1 <= n
               PROVE /\ h[k + 1] <= b * (k + 1)
                     /\ (\E i \in 1 .. k + 1 : s[i] < b) => h[k + 1] < b * (k + 1)
    OBVIOUS
  <2>1. k + 1 \in 1 .. n /\ (k + 1) - 1 = k /\ b * (k + 1) = (b * k) + b /\ b * k \in Int
    OBVIOUS
  <2>2. h[k] \in Int /\ h[k] <= b * k /\ ((\E i \in 1 .. k : s[i] < b) => h[k] < b * k)
    BY <1>3
  <2>3. h[k + 1] = h[k] + s[k + 1] /\ s[k + 1] \in Int /\ s[k + 1] <= b
    BY <1>1, <2>1
  <2>4. h[k + 1] <= b * (k + 1)
    BY <2>1, <2>2, <2>3
  <2>5. ASSUME NEW i \in 1 .. k + 1, s[i] < b PROVE h[k + 1] < b * (k + 1)
    <3>1. CASE i = k + 1
      BY <2>1, <2>2, <2>3, <2>5, <3>1
    <3>2. CASE i # k + 1
      <4>1. i \in 1 .. k
        BY <3>2
      <4>2. h[k] < b * k
        BY <2>2, <2>5, <4>1
      <4> QED BY <2>1, <2>2, <2>3, <4>2
    <3> QED BY <3>1, <3>2
  <2> QED BY <2>4, <2>5
<1>4. Nat \subseteq P
  <2> HIDE DEF P
  <2> QED BY <1>2, <1>3, Induction
<1>5. n \in P
  BY <1>4
<1> QED
  BY <1>1, <1>5

\* The same from below: what the numbers' negatives add up to.
LEMMA SumAtLeast ==
    ASSUME NEW n \in Nat, NEW s \in [1 .. n -> Int], NEW a \in Int, \A k \in 1 .. n : s[k] >= a
    PROVE  /\ Sum(s) >= a * n
           /\ (\E k \in 1 .. n : s[k] > a) => Sum(s) > a * n
<1>1. PICK h \in [0 .. n -> Int] : /\ h[0] = 0
                                   /\ \A k \in 1 .. n : h[k] = h[k - 1] + s[k]
                                   /\ Sum(s) = h[n]
  BY SumIs
<1> DEFINE P == {k \in Nat : k <= n => /\ h[k] >= a * k
                                       /\ (\E i \in 1 .. k : s[i] > a) => h[k] > a * k}
<1>2. 0 \in P
  <2>1. a * 0 = 0
    OBVIOUS
  <2> QED BY <1>1, <2>1
<1>3. ASSUME NEW k \in Nat, k \in P PROVE k + 1 \in P
  <2> SUFFICES ASSUME k + 1 <= n
               PROVE /\ h[k + 1] >= a * (k + 1)
                     /\ (\E i \in 1 .. k + 1 : s[i] > a) => h[k + 1] > a * (k + 1)
    OBVIOUS
  <2>1. k + 1 \in 1 .. n /\ (k + 1) - 1 = k /\ a * (k + 1) = (a * k) + a /\ a * k \in Int
    OBVIOUS
  <2>2. h[k] \in Int /\ h[k] >= a * k /\ ((\E i \in 1 .. k : s[i] > a) => h[k] > a * k)
    BY <1>3
  <2>3. h[k + 1] = h[k] + s[k + 1] /\ s[k + 1] \in Int /\ s[k + 1] >= a
    BY <1>1, <2>1
  <2>4. h[k + 1] >= a * (k + 1)
    BY <2>1, <2>2, <2>3
  <2>5. ASSUME NEW i \in 1 .. k + 1, s[i] > a PROVE h[k + 1] > a * (k + 1)
    <3>1. CASE i = k + 1
      BY <2>1, <2>2, <2>3, <2>5, <3>1
    <3>2. CASE i # k + 1
      <4>1. i \in 1 .. k
        BY <3>2
      <4>2. h[k] > a * k
        BY <2>2, <2>5, <4>1
      <4> QED BY <2>1, <2>2, <2>3, <4>2, SMTT(40)
    <3> QED BY <3>1, <3>2
  <2> QED BY <2>4, <2>5
<1>4. Nat \subseteq P
  <2> HIDE DEF P
  <2> QED BY <1>2, <1>3, Induction
<1>5. n \in P
  BY <1>4
<1> QED
  BY <1>1, <1>5

\* Numbers that are all the same.
LEMMA SumConstant ==
    ASSUME NEW n \in Nat, NEW s \in [1 .. n -> Int], NEW c \in Int, \A k \in 1 .. n : s[k] = c
    PROVE  Sum(s) = c * n
<1>1. \A k \in 1 .. n : s[k] <= c /\ s[k] >= c
  OBVIOUS
<1>2. Sum(s) <= c * n
  BY <1>1, SumAtMost
<1>3. Sum(s) >= c * n
  BY <1>1, SumAtLeast
<1>4. Sum(s) \in Int /\ c * n \in Int
  BY SumType
<1> QED
  BY <1>2, <1>3, <1>4

\* The powers of two that shifts within a byte take.
LEMMA Powers ==
    /\ Pow2(0) = 1 /\ Pow2(1) = 2 /\ Pow2(2) = 4 /\ Pow2(3) = 8 /\ Pow2(4) = 16
    /\ Pow2(5) = 32 /\ Pow2(6) = 64 /\ Pow2(7) = 128 /\ Pow2(8) = 256
  BY DEF Pow2

\* They are between 1 and 256.
LEMMA PowerType == \A i \in 0 .. 8 : Pow2(i) \in 1 .. 256
<1>1. \A i \in 0 .. 8 : i \in {0, 1, 2, 3, 4, 5, 6, 7, 8}
  OBVIOUS
<1> QED
  BY <1>1, Powers

Accs == [out : Seq(0 .. 255), bitpos : 0 .. 7, cur : 0 .. 255]
Empty == [out |-> <<>>, bitpos |-> 0, cur |-> 0]

\* What a number adds to bytes with room for it: in the byte that is being filled,
\* and what of it goes to the next.
Filled(c, p, q) == (c + q * Pow2(p)) % 256
Carried(p, q, w) == (q \div Pow2(8 - p)) % Pow2((p + w) - 8)

\* The byte that is being filled stays a byte.
LEMMA FilledType ==
    ASSUME NEW p \in 0 .. 7, NEW c \in 0 .. 255, NEW q \in 0 .. 255
    PROVE  Filled(c, p, q) \in 0 .. 255
<1>1. Pow2(p) \in 1 .. 256
  BY PowerType
<1>2. PICK m \in 1 .. 256 : m = Pow2(p)
  BY <1>1
<1>3. q * m \in Int
  OBVIOUS
<1>4. (c + q * m) % 256 \in 0 .. 255
  BY <1>3
<1> QED
  BY <1>2, <1>4 DEF Filled

\* What is carried into the next byte is a byte.
LEMMA CarriedType ==
    ASSUME NEW p \in 0 .. 7, NEW q \in 0 .. 255, NEW w \in 1 .. 8, p + w >= 8
    PROVE  Carried(p, q, w) \in 0 .. 255
<1>1. (p + w) - 8 \in 0 .. 7 /\ 8 - p \in 0 .. 8
  OBVIOUS
<1>2. Pow2((p + w) - 8) \in 1 .. 256 /\ Pow2(8 - p) \in 1 .. 256
  BY <1>1, PowerType, SMTT(40)
<1>3. PICK m \in 1 .. 256, k \in 1 .. 256 : m = Pow2((p + w) - 8) /\ k = Pow2(8 - p)
  BY <1>2
<1>4. q \div k \in Int
  OBVIOUS
<1>5. (q \div k) % m \in 0 .. 255
  BY <1>4
<1> QED
  BY <1>3, <1>5 DEF Carried

\* One number, put behind the bits there are: it fills the byte, or does not.
Fills(o, p, c, q, w) ==
    [out |-> Append(o, Filled(c, p, q)), bitpos |-> (p + w) - 8, cur |-> Carried(p, q, w)]
Fits(o, p, c, q, w) == [out |-> o, bitpos |-> p + w, cur |-> Filled(c, p, q)]

\* PutBits, when the number fills the byte.
LEMMA PutBitsFills ==
    ASSUME NEW o, NEW p \in 0 .. 7, NEW c \in 0 .. 255, NEW w \in 1 .. 8, NEW q \in 0 .. 255,
           p + w >= 8
    PROVE  PutBits([out |-> o, bitpos |-> p, cur |-> c], q, w) = Fills(o, p, c, q, w)
<1> DEFINE acc == [out |-> o, bitpos |-> p, cur |-> c]
<1>1. w - ((p + w) - 8) = 8 - p
  OBVIOUS
<1>2. acc.out = o /\ acc.bitpos = p /\ acc.cur = c
  OBVIOUS
<1> HIDE DEF acc
<1>3. PutBits(acc, q, w) =
         [out |-> Append(acc.out, (acc.cur + q * Pow2(acc.bitpos)) % 256),
          bitpos |-> (acc.bitpos + w) - 8,
          cur |-> (q \div Pow2(w - ((acc.bitpos + w) - 8))) % Pow2((acc.bitpos + w) - 8)]
  <2>1. acc.bitpos + w >= 8
    BY <1>2
  <2> QED BY <2>1, Zenon DEF PutBits
<1>4. PutBits(acc, q, w) =
         [out |-> Append(o, (c + q * Pow2(p)) % 256), bitpos |-> (p + w) - 8,
          cur |-> (q \div Pow2(8 - p)) % Pow2((p + w) - 8)]
  BY <1>1, <1>2, <1>3, ZenonT(40)
<1> QED
  BY <1>4, Zenon DEF Filled, Carried, acc, Fills

\* PutBits, when the byte has room for more.
LEMMA PutBitsFits ==
    ASSUME NEW o, NEW p \in 0 .. 7, NEW c \in 0 .. 255, NEW w \in 1 .. 8, NEW q \in 0 .. 255,
           ~(p + w >= 8)
    PROVE  PutBits([out |-> o, bitpos |-> p, cur |-> c], q, w) = Fits(o, p, c, q, w)
<1>1. PutBits([out |-> o, bitpos |-> p, cur |-> c], q, w) =
         [[out |-> o, bitpos |-> p, cur |-> c] EXCEPT !.cur = Filled(c, p, q), !.bitpos = p + w]
  BY DEF PutBits, Filled
<1> HIDE DEF Filled
<1> QED
  BY <1>1 DEF Fits

\* PutBits keeps the type of what it accumulates.
LEMMA PutBitsType ==
    ASSUME NEW acc \in Accs, NEW w \in 1 .. 8, NEW q \in 0 .. 255
    PROVE  PutBits(acc, q, w) \in Accs
<1>0. PICK o \in Seq(0 .. 255), p \in 0 .. 7, c \in 0 .. 255 :
             acc = [out |-> o, bitpos |-> p, cur |-> c]
  BY DEF Accs
<1>1. SUFFICES PutBits([out |-> o, bitpos |-> p, cur |-> c], q, w) \in Accs
  BY <1>0
<1>2. Filled(c, p, q) \in 0 .. 255
  BY FilledType, ZenonT(40)
<1>3. CASE p + w >= 8
  <2>1. Carried(p, q, w) \in 0 .. 255
    BY <1>3, CarriedType, Zenon
  <2>2. Append(o, Filled(c, p, q)) \in Seq(0 .. 255)
    BY <1>2
  <2>3. (p + w) - 8 \in 0 .. 7
    BY <1>3
  <2>4. PutBits([out |-> o, bitpos |-> p, cur |-> c], q, w) = Fills(o, p, c, q, w)
    BY <1>3, PutBitsFills, ZenonT(40)
  <2>5. \A a \in Seq(0 .. 255), b \in 0 .. 7, d \in 0 .. 255 :
           [out |-> a, bitpos |-> b, cur |-> d] \in Accs
    BY DEF Accs
  <2> QED BY <1>2, <2>1, <2>2, <2>3, <2>4, <2>5, ZenonT(40) DEF Fills
<1>4. CASE ~(p + w >= 8)
  <2>1. p + w \in 0 .. 7
    BY <1>4
  <2>2. PutBits([out |-> o, bitpos |-> p, cur |-> c], q, w) = Fits(o, p, c, q, w)
    BY <1>4, PutBitsFits, ZenonT(40)
  <2> QED BY <1>2, <2>1, <2>2 DEF Accs, Fits
<1> QED
  BY <1>3, <1>4

\* PackCarry is what PutBits makes of the numbers, one after the other, and the
\* byte that is not full.
LEMMA CarryIs ==
    ASSUME NEW n \in Nat, NEW q \in [1 .. n -> 0 .. 255], NEW w \in 1 .. 8
    PROVE  \E h \in [0 .. n -> Accs] :
              /\ h[0] = Empty
              /\ \A k \in 1 .. n : h[k] = PutBits(h[k - 1], q[k], w)
              /\ PackCarry(q, w) = IF h[n].bitpos > 0 THEN Append(h[n].out, h[n].cur) ELSE h[n].out
<1> DEFINE Body(it) == [t \in SUBSET (1 .. n) |->
                           IF t = {} THEN Empty ELSE PutBits(it[t \ {Max(t)}], q[Max(t)], w)]
           iter == CHOOSE it : it = Body(it)
           step == [p \in (1 .. n) \X Accs |-> PutBits(p[2], q[p[1]], w)]
<1>0. Empty \in Accs
  BY DEF Empty, Accs
<1>1. PICK g : FoldsBy(g, n, Accs, Empty, step)
  <2>1. step \in [(1 .. n) \X Accs -> Accs]
    BY PutBitsType, ZenonT(40)
  <2> HIDE DEF step
  <2> QED BY <2>1, <1>0, FoldExists, Zenon
<1>2. g = Body(g)
  <2> g \in [SUBSET (1 .. n) -> Accs]
    BY <1>1 DEF FoldsBy
  <2> SUFFICES ASSUME NEW t \in SUBSET (1 .. n)
               PROVE  g[t] = IF t = {} THEN Empty ELSE PutBits(g[t \ {Max(t)}], q[Max(t)], w)
    BY Zenon
  <2>1. CASE t = {}
    BY <1>1, <2>1 DEF FoldsBy
  <2>2. CASE t # {}
    <3>1. Max(t) \in 1 .. n /\ t \ {Max(t)} \in SUBSET (1 .. n)
      BY <2>2, MaxIs
    <3>2. g[t \ {Max(t)}] \in Accs
      BY <1>1, <3>1 DEF FoldsBy
    <3>3. g[t] = step[<<Max(t), g[t \ {Max(t)}]>>]
      BY <1>1, <2>2 DEF FoldsBy
    <3> QED BY <2>2, <3>1, <3>2, <3>3
  <2> QED BY <2>1, <2>2
<1>3. iter = Body(iter)
  BY <1>2
<1>4. PackCarry(q, w) = IF iter[1 .. n].bitpos > 0
                        THEN Append(iter[1 .. n].out, iter[1 .. n].cur) ELSE iter[1 .. n].out
  BY DEF PackCarry, FoldLeft, MapThenFoldSet, Empty
<1> HIDE DEF iter
<1>5. \A t \in SUBSET (1 .. n) :
         iter[t] = IF t = {} THEN Empty ELSE PutBits(iter[t \ {Max(t)}], q[Max(t)], w)
  BY <1>3
<1>6. iter[{}] = Empty
  BY <1>5
<1>7. ASSUME NEW k \in 1 .. n PROVE iter[1 .. k] = PutBits(iter[1 .. k - 1], q[k], w)
  <2>1. k \in Nat /\ k # 0 /\ k <= n /\ k \in 1 .. k
    OBVIOUS
  <2>2. \A x \in 1 .. k : x \in 1 .. n
    BY <2>1
  <2>3. 1 .. k \in SUBSET (1 .. n) /\ 1 .. k # {}
    BY <2>1, <2>2, Zenon
  <2> QED BY <2>1, <2>3, <1>5, MaxOfRange
<1> DEFINE h == [k \in 0 .. n |-> iter[1 .. k]]
           P == {k \in Nat : k <= n => iter[1 .. k] \in Accs}
<1>8. 1 .. 0 = {}
  OBVIOUS
<1>9. 0 \in P
  BY <1>0, <1>6, <1>8
<1>10. ASSUME NEW k \in Nat, k \in P PROVE k + 1 \in P
  <2> SUFFICES ASSUME k + 1 <= n PROVE iter[1 .. k + 1] \in Accs
    <3>1. k + 1 \in Nat
      OBVIOUS
    <3> QED BY <3>1, Zenon
  <2>1. (k + 1) - 1 = k /\ k <= n /\ k + 1 \in 1 .. n
    OBVIOUS
  <2>2. iter[1 .. k + 1] = PutBits(iter[1 .. k], q[k + 1], w)
    BY <1>7, <2>1
  <2>3. iter[1 .. k] \in Accs /\ q[k + 1] \in 0 .. 255
    BY <2>1, <1>10, SMTT(40)
  <2>4. PICK a \in Accs : a = iter[1 .. k]
    BY <2>3
  <2>5. PutBits(a, q[k + 1], w) \in Accs
    BY <2>3, PutBitsType
  <2> QED BY <2>2, <2>4, <2>5
<1>11. Nat \subseteq P
  <2> HIDE DEF P
  <2> QED BY <1>9, <1>10, Induction
<1>12. h \in [0 .. n -> Accs]
  BY <1>11
<1>13. h[0] = Empty /\ \A k \in 1 .. n : h[k] = PutBits(h[k - 1], q[k], w)
  BY <1>6, <1>7, <1>8
<1>14. h[n] = iter[1 .. n]
  OBVIOUS
<1> HIDE DEF h
<1> QED
  BY <1>4, <1>12, <1>13, <1>14

\* A product of integers is one.
LEMMA Times ==
    ASSUME NEW a \in Int, NEW b \in Int
    PROVE  a * b \in Int
  OBVIOUS

\* What division and remainder are.
LEMMA Divided ==
    ASSUME NEW n \in Int, NEW d \in Nat \ {0}
    PROVE  /\ n \div d \in Int /\ n % d \in 0 .. d - 1
           /\ n = ((n \div d) * d) + (n % d)
           /\ n \in Nat => n \div d \in Nat
<1>1. n \div d \in Int /\ n % d \in 0 .. d - 1 /\ n = ((n \div d) * d) + (n % d)
  OBVIOUS
<1>2. ASSUME n \in Nat PROVE n \div d >= 0
  <2>1. SUFFICES ASSUME n \div d <= -1 PROVE FALSE
    BY <1>1
  <2>2. (n \div d) * d <= (-1) * d
    BY <1>1, <2>1
  <2> QED BY <1>1, <1>2, <2>2
<1> QED
  BY <1>1, <1>2

\* What is added below the divisor is the remainder, and the rest the quotient.
LEMMA Division ==
    ASSUME NEW d \in Nat \ {0}, NEW k \in Int, NEW r \in 0 .. d - 1
    PROVE  ((k * d) + r) \div d = k /\ ((k * d) + r) % d = r
<1> DEFINE n == k * d + r
<1>1. n \in Int /\ k * d \in Int
  BY Times
<1>2. PICK a \in Int, b \in 0 .. d - 1 : a = n \div d /\ b = n % d /\ n = a * d + b
  BY <1>1, Divided
<1>3. (k - a) * d = b - r
  BY <1>2
<1>4. k - a = 0
  <2>1. CASE k - a >= 1
    <3>1. (k - a) * d >= d
      BY <2>1
    <3> QED BY <3>1, <1>3, <1>2
  <2>2. CASE k - a <= -1
    <3>1. (k - a) * d <= -d
      BY <2>2
    <3> QED BY <3>1, <1>3, <1>2
  <2> QED BY <2>1, <2>2
<1>5. k = a /\ b = r
  BY <1>3, <1>4
<1> QED
  BY <1>2, <1>5

\* The quotient of a number given by quotient and remainder.
LEMMA Quotient ==
    ASSUME NEW n, NEW d \in Nat \ {0}, NEW k \in Int, NEW r \in Int,
           n = (k * d) + r, 0 <= r, r < d
    PROVE  n \div d = k
<1>1. r \in 0 .. d - 1
  OBVIOUS
<1> QED
  BY <1>1, Division

\* And its remainder.
LEMMA Remainder ==
    ASSUME NEW n, NEW d \in Nat \ {0}, NEW k \in Int, NEW r \in Int,
           n = (k * d) + r, 0 <= r, r < d
    PROVE  n % d = r
<1>1. r \in 0 .. d - 1
  OBVIOUS
<1> QED
  BY <1>1, Division

\* Adding a multiple of the divisor leaves the remainder.
LEMMA AddsMultiple ==
    ASSUME NEW d \in Nat \ {0}, NEW n \in Int, NEW k \in Int
    PROVE  (n + (k * d)) % d = n % d
<1>1. PICK a \in Int, b \in 0 .. d - 1 : b = n % d /\ n = (a * d) + b
  <2>1. n \div d \in Int /\ n % d \in 0 .. d - 1 /\ n = ((n \div d) * d) + (n % d)
    BY Divided
  <2> QED BY <2>1, Zenon
<1>2. n + (k * d) = ((a + k) * d) + b
  BY <1>1
<1>3. a + k \in Int /\ b \in Int /\ 0 <= b /\ b < d
  OBVIOUS
<1>4. (n + (k * d)) % d = b
  BY <1>2, <1>3, Remainder, Zenon
<1> QED
  BY <1>1, <1>4, Zenon

\* Powers add up.
LEMMA MorePowers ==
    /\ Pow2(9) = 512 /\ Pow2(10) = 1024 /\ Pow2(11) = 2048 /\ Pow2(12) = 4096
    /\ Pow2(13) = 8192 /\ Pow2(14) = 16384 /\ Pow2(15) = 32768 /\ Pow2(16) = 65536
  BY DEF Pow2

\* A shift by a sum is two shifts.
LEMMA PowerSum ==
    ASSUME NEW a \in 0 .. 8, NEW b \in 0 .. 8
    PROVE  Pow2(a + b) = Pow2(a) * Pow2(b)
<1>1. CASE a = 0
  BY <1>1, Powers, PowerType
<1>2. CASE a = 1
  BY <1>2, Powers, MorePowers
<1>3. CASE a = 2
  BY <1>3, Powers, MorePowers
<1>4. CASE a = 3
  BY <1>4, Powers, MorePowers
<1>5. CASE a = 4
  BY <1>5, Powers, MorePowers
<1>6. CASE a = 5
  BY <1>6, Powers, MorePowers
<1>7. CASE a = 6
  BY <1>7, Powers, MorePowers
<1>8. CASE a = 7
  BY <1>8, Powers, MorePowers
<1>9. CASE a = 8
  BY <1>9, Powers, MorePowers
<1> QED
  BY <1>1, <1>2, <1>3, <1>4, <1>5, <1>6, <1>7, <1>8, <1>9

\* A byte with the low p bits c and q above them.
LEMMA FilledIs ==
    ASSUME NEW p \in 0 .. 7, NEW c \in 0 .. 255, NEW q \in 0 .. 255, c < Pow2(p)
    PROVE  Filled(c, p, q) = c + ((q % Pow2(8 - p)) * Pow2(p))
<1>1. 8 - p \in 0 .. 8 /\ p \in 0 .. 8 /\ p + (8 - p) = 8
  OBVIOUS
<1>2. Pow2(p) \in 1 .. 256 /\ Pow2(8 - p) \in 1 .. 256 /\ Pow2(p) * Pow2(8 - p) = 256
  BY <1>1, PowerType, PowerSum, Powers
<1>3. PICK P \in 1 .. 256, R \in 1 .. 256 : P = Pow2(p) /\ R = Pow2(8 - p) /\ P * R = 256
  BY <1>2
<1>4. PICK a \in Int, b \in 0 .. R - 1 : a = q \div R /\ b = q % R /\ q = (a * R) + b
  <2>1. q \in Int /\ R \in Nat \ {0}
    OBVIOUS
  <2>2. q \div R \in Int /\ q % R \in 0 .. R - 1 /\ q = ((q \div R) * R) + (q % R)
    BY <2>1, Divided, Zenon
  <2> QED BY <2>2, Zenon
<1>5. q * P = (a * 256) + (b * P)
  BY <1>3, <1>4
<1>6. c + (q * P) = (a * 256) + (c + (b * P))
  BY <1>5
<1>7. c + (b * P) \in 0 .. 255
  <2>1. b * P <= (R - 1) * P /\ b * P >= 0
    BY <1>4
  <2>2. (R - 1) * P = 256 - P
    BY <1>3
  <2>3. c < P
    BY <1>3
  <2> QED BY <2>1, <2>2, <2>3
<1>8. (c + (q * P)) % 256 = c + (b * P)
  <2>1. PICK x, y : x = c + (q * P) /\ y = c + (b * P)
    OBVIOUS
  <2>2. 256 \in Nat \ {0} /\ y \in Int /\ 0 <= y /\ y < 256 /\ x = (a * 256) + y
    BY <1>6, <1>7, <2>1
  <2>3. x % 256 = y
    BY <2>2, Remainder, ZenonT(40)
  <2> QED BY <2>1, <2>3, Zenon
<1>9. Filled(c, p, q) = (c + (q * P)) % 256
  BY <1>3 DEF Filled
<1> QED
  BY <1>3, <1>4, <1>8, <1>9, Zenon

\* A number that ends in its byte can be read from it.
LEMMA FitsByte ==
    ASSUME NEW p \in 0 .. 7, NEW c \in 0 .. 255, NEW w \in 1 .. 8, NEW q \in 0 .. 255,
           c < Pow2(p), q < Pow2(w), p + w <= 8
    PROVE  (Filled(c, p, q) \div Pow2(p)) % Pow2(w) = q
<1>1. 8 - p \in 0 .. 8 /\ p \in 0 .. 8 /\ (8 - p) - w \in 0 .. 8 /\ w + ((8 - p) - w) = 8 - p
  OBVIOUS
<1>2. Pow2(8 - p) = Pow2(w) * Pow2((8 - p) - w)
  <2>1. Pow2(w + ((8 - p) - w)) = Pow2(w) * Pow2((8 - p) - w)
    <3>1. w \in 0 .. 8
      OBVIOUS
    <3> QED BY <1>1, <3>1, PowerSum, Zenon
  <2> QED BY <1>1, <2>1, Zenon
<1>3. PICK P \in 1 .. 256, R \in 1 .. 256, W \in 1 .. 256, E \in 1 .. 256 :
            P = Pow2(p) /\ R = Pow2(8 - p) /\ W = Pow2(w) /\ E = Pow2((8 - p) - w) /\ R = W * E
  <2>1. w \in 0 .. 8
    OBVIOUS
  <2>2. /\ Pow2(p) \in 1 .. 256 /\ Pow2(8 - p) \in 1 .. 256 /\ Pow2(w) \in 1 .. 256
        /\ Pow2((8 - p) - w) \in 1 .. 256
    BY <1>1, <2>1, PowerType, Zenon
  <2> QED BY <1>2, <2>2, ZenonT(40)
<1>4. q < R
  <2>1. W * E >= W
    OBVIOUS
  <2> QED BY <1>3, <2>1
<1>5. q % R = q /\ q % W = q
  <2>1. 0 <= q /\ q < R /\ q < W /\ q \in Int
    BY <1>3, <1>4
  <2>2. 0 \in Int /\ R \in Nat \ {0} /\ W \in Nat \ {0}
    OBVIOUS
  <2>3. q = (0 * R) + q
    OBVIOUS
  <2>4. q = (0 * W) + q
    OBVIOUS
  <2>5. q % R = q
    BY <2>1, <2>2, <2>3, Remainder, Zenon
  <2>6. q % W = q
    BY <2>1, <2>2, <2>4, Remainder, Zenon
  <2> QED BY <2>5, <2>6
<1>6. Filled(c, p, q) = c + (q * P)
  BY <1>3, <1>5, FilledIs, ZenonT(40)
<1>7. c + (q * P) = (q * P) + c
  OBVIOUS
<1>8. Filled(c, p, q) \div P = q
  <2>1. P \in Nat \ {0} /\ q \in Int /\ c \in Int /\ 0 <= c /\ c < P
    BY <1>3
  <2>2. Filled(c, p, q) = (q * P) + c
    BY <1>6, <1>7
  <2> QED BY <2>1, <2>2, Quotient, Zenon
<1> QED
  BY <1>3, <1>5, <1>8, Zenon

\* A power within a byte, by a name.
LEMMA PowerIs ==
    ASSUME NEW i \in 0 .. 8
    PROVE  \E P \in 1 .. 256 : P = Pow2(i)
  BY PowerType, Zenon

\* A number that ends in the next byte can be read from the two.
LEMMA CrossesBytes ==
    ASSUME NEW p \in 0 .. 7, NEW c \in 0 .. 255, NEW w \in 1 .. 8, NEW q \in 0 .. 255,
           c < Pow2(p), q < Pow2(w), p + w > 8
    PROVE  ((Filled(c, p, q) \div Pow2(p)) + (Carried(p, q, w) * Pow2(8 - p))) % Pow2(w) = q
<1>1. /\ 8 - p \in 0 .. 8 /\ p \in 0 .. 8 /\ w \in 0 .. 8
      /\ (p + w) - 8 \in 0 .. 8 /\ (8 - p) + ((p + w) - 8) = w
  OBVIOUS
<1>2. PICK P \in 1 .. 256 : P = Pow2(p)
  BY <1>1, PowerIs, Zenon
<1>3. PICK R \in 1 .. 256 : R = Pow2(8 - p)
  BY <1>1, PowerIs, Zenon
<1>4. PICK W \in 1 .. 256 : W = Pow2(w)
  BY <1>1, PowerIs, Zenon
<1>5. PICK M \in 1 .. 256 : M = Pow2((p + w) - 8)
  BY <1>1, PowerIs, Zenon
<1>6. W = R * M
  <2>1. Pow2((8 - p) + ((p + w) - 8)) = Pow2(8 - p) * Pow2((p + w) - 8)
    BY <1>1, PowerSum, Zenon
  <2> QED BY <1>1, <1>3, <1>4, <1>5, <2>1, Zenon
<1>7. PICK a \in Int, b \in 0 .. R - 1 : a = q \div R /\ b = q % R /\ q = (a * R) + b
  <2>1. q \in Int /\ R \in Nat \ {0}
    OBVIOUS
  <2>2. q \div R \in Int /\ q % R \in 0 .. R - 1 /\ q = ((q \div R) * R) + (q % R)
    BY <2>1, Divided, Zenon
  <2> QED BY <2>2, Zenon
<1>8. a >= 0 /\ a < M
  <2>1. q < W
    BY <1>4
  <2>2. a * R < M * R
    BY <2>1, <1>6, <1>7
  <2>3. ASSUME a >= M PROVE FALSE
    <3>1. a * R >= M * R
      BY <2>3
    <3> QED BY <2>2, <3>1
  <2>4. ASSUME a <= -1 PROVE FALSE
    <3>1. a * R <= (-1) * R
      BY <2>4
    <3> QED BY <1>7, <3>1
  <2> QED BY <2>3, <2>4
<1>9. Carried(p, q, w) = a
  <2>1. Carried(p, q, w) = a % M
    BY <1>3, <1>5, <1>7, Zenon DEF Carried
  <2>2. a = (0 * M) + a /\ M \in Nat \ {0} /\ 0 \in Int
    OBVIOUS
  <2>3. 0 <= a /\ a < M
    BY <1>8
  <2>4. a % M = a
    BY <2>2, <2>3, Remainder, Zenon
  <2> QED BY <2>1, <2>4, Zenon
<1>10. Filled(c, p, q) \div P = b
  <2>1. Filled(c, p, q) = c + (b * P)
    BY <1>2, <1>3, <1>7, FilledIs, ZenonT(40)
  <2>2. Filled(c, p, q) = (b * P) + c
    BY <2>1
  <2>3. P \in Nat \ {0} /\ b \in Int /\ c \in Int /\ 0 <= c /\ c < P
    BY <1>2
  <2> QED BY <2>2, <2>3, Quotient, Zenon
<1>11. (b + (a * R)) % W = q
  <2>1. b + (a * R) = q
    BY <1>7
  <2>2. q = (0 * W) + q /\ W \in Nat \ {0} /\ 0 \in Int /\ q \in Int /\ 0 <= q
    OBVIOUS
  <2>3. q < W
    BY <1>4
  <2>4. q % W = q
    BY <2>2, <2>3, Remainder, Zenon
  <2> QED BY <2>1, <2>4, Zenon
<1> QED
  BY <1>2, <1>3, <1>4, <1>9, <1>10, <1>11, Zenon

\* A number put behind bit b changes nothing of what is read before it: from one
\* byte, or from the end of one and the start of the next.
Keeps(c, b, q, p, w) == (Filled(c, b, q) \div Pow2(p)) % Pow2(w) = (c \div Pow2(p)) % Pow2(w)
KeepsNext(x, c, b, q, p, w) ==
    (x + (Filled(c, b, q) * Pow2(8 - p))) % Pow2(w) = (x + (c * Pow2(8 - p))) % Pow2(w)

\* A number that ends before bit b of its byte.
LEMMA KeepsByte ==
    ASSUME NEW p \in 0 .. 7, NEW b \in 0 .. 7, NEW c \in 0 .. 255, NEW w \in 1 .. 8,
           NEW q \in 0 .. 255, c < Pow2(b), p + w <= b
    PROVE  Keeps(c, b, q, p, w)
<1>1. /\ 8 - b \in 0 .. 8 /\ p \in 0 .. 8 /\ w \in 0 .. 8 /\ b \in 0 .. 8
      /\ b - (p + w) \in 0 .. 8 /\ b - p \in 0 .. 8
      /\ p + (b - p) = b /\ w + (b - (p + w)) = b - p
  OBVIOUS
<1>2. PICK P \in 1 .. 256 : P = Pow2(p)
  BY <1>1, PowerIs, Zenon
<1>3. PICK B \in 1 .. 256 : B = Pow2(b)
  BY <1>1, PowerIs, Zenon
<1>4. PICK W \in 1 .. 256 : W = Pow2(w)
  BY <1>1, PowerIs, Zenon
<1>5. PICK E \in 1 .. 256 : E = Pow2(b - (p + w))
  BY <1>1, PowerIs, Zenon
<1>6. PICK R \in 1 .. 256 : R = Pow2(8 - b)
  BY <1>1, PowerIs, ZenonT(40)
<1>7. B = P * (W * E)
  <2>1. Pow2(p + (b - p)) = Pow2(p) * Pow2(b - p)
    BY <1>1, PowerSum, Zenon
  <2>2. Pow2(w + (b - (p + w))) = Pow2(w) * Pow2(b - (p + w))
    BY <1>1, PowerSum, Zenon
  <2> QED BY <1>1, <1>2, <1>3, <1>4, <1>5, <2>1, <2>2, Zenon
<1>8. PICK t \in Int : t = q % R
  <2>1. q % R \in Int
    OBVIOUS
  <2> QED BY <2>1, Zenon
<1>9. Filled(c, b, q) = c + (t * B)
  BY <1>3, <1>6, <1>8, FilledIs, ZenonT(40)
<1>10. PICK u \in Int, v \in 0 .. P - 1 : u = c \div P /\ c = (u * P) + v
  <2>1. c \in Int /\ P \in Nat \ {0}
    OBVIOUS
  <2>2. c \div P \in Int /\ c % P \in 0 .. P - 1 /\ c = ((c \div P) * P) + (c % P)
    BY <2>1, Divided, Zenon
  <2> QED BY <2>2, Zenon
<1>11. Filled(c, b, q) \div P = u + ((t * E) * W)
  <2>1. t * B = ((t * E) * W) * P
    BY <1>7
  <2>2. PICK m \in Int : m = (t * E) * W
    OBVIOUS
  <2>4. (u + m) * P = (u * P) + (m * P)
    OBVIOUS
  <2>5. t * B = m * P
    BY <2>1, <2>2
  <2>6. Filled(c, b, q) = ((u + m) * P) + v
    BY <1>9, <1>10, <2>4, <2>5
  <2>7. Filled(c, b, q) = ((u + ((t * E) * W)) * P) + v
    BY <2>2, <2>6, Zenon
  <2>3. P \in Nat \ {0} /\ u + ((t * E) * W) \in Int /\ v \in Int /\ 0 <= v /\ v < P
    OBVIOUS
  <2> QED BY <2>7, <2>3, Quotient, Zenon
<1>12. (u + ((t * E) * W)) % W = u % W
  BY AddsMultiple, W \in Nat \ {0}, t * E \in Int, Zenon
<1> QED
  BY <1>2, <1>4, <1>10, <1>11, <1>12, Zenon DEF Keeps

\* A number that ends before bit b of the next byte.
LEMMA KeepsCarried ==
    ASSUME NEW p \in 0 .. 7, NEW b \in 0 .. 7, NEW c \in 0 .. 255, NEW w \in 1 .. 8,
           NEW q \in 0 .. 255, NEW x \in Int, c < Pow2(b), p + w > 8, p + w <= b + 8
    PROVE  KeepsNext(x, c, b, q, p, w)
<1>1. /\ 8 - b \in 0 .. 8 /\ 8 - p \in 0 .. 8 /\ w \in 0 .. 8 /\ b \in 0 .. 8
      /\ (b + (8 - p)) - w \in 0 .. 8 /\ w + ((b + (8 - p)) - w) = b + (8 - p)
  OBVIOUS
<1>2. PICK B \in 1 .. 256 : B = Pow2(b)
  BY <1>1, PowerIs, Zenon
<1>3. PICK W \in 1 .. 256 : W = Pow2(w)
  BY <1>1, PowerIs, Zenon
<1>4. PICK R \in 1 .. 256 : R = Pow2(8 - p)
  BY <1>1, PowerIs, Zenon
<1>5. PICK K \in 1 .. 256 : K = Pow2((b + (8 - p)) - w)
  BY <1>1, PowerIs, Zenon
<1>6. PICK Q \in 1 .. 256 : Q = Pow2(8 - b)
  BY <1>1, PowerIs, Zenon
<1>7. B * R = W * K
  <2>1. Pow2(b + (8 - p)) = Pow2(b) * Pow2(8 - p)
    BY <1>1, PowerSum, Zenon
  <2>2. Pow2(w + ((b + (8 - p)) - w)) = Pow2(w) * Pow2((b + (8 - p)) - w)
    BY <1>1, PowerSum, Zenon
  <2> QED BY <1>1, <1>2, <1>3, <1>4, <1>5, <2>1, <2>2, Zenon
<1>8. PICK t \in Int : t = q % Q
  <2>1. q % Q \in Int
    OBVIOUS
  <2> QED BY <2>1, Zenon
<1>9. Filled(c, b, q) = c + (t * B)
  BY <1>2, <1>6, <1>8, FilledIs, ZenonT(40)
<1>10. PICK z \in Int : z = x + (c * R)
  OBVIOUS
<1>11. x + (Filled(c, b, q) * R) = z + ((t * K) * W)
  <2>1. (t * B) * R = (t * K) * W
    BY <1>7
  <2>2. (c + (t * B)) * R = (c * R) + ((t * B) * R)
    OBVIOUS
  <2> QED BY <1>9, <1>10, <2>1, <2>2
<1>12. (z + ((t * K) * W)) % W = z % W
  BY AddsMultiple, W \in Nat \ {0}, t * K \in Int, Zenon
<1> QED
  BY <1>3, <1>4, <1>10, <1>11, <1>12, Zenon DEF KeepsNext

\* A byte that has room for more has no bit beyond those put there.
LEMMA FilledBits ==
    ASSUME NEW p \in 0 .. 7, NEW c \in 0 .. 255, NEW w \in 1 .. 8, NEW q \in 0 .. 255,
           c < Pow2(p), q < Pow2(w), p + w < 8
    PROVE  Filled(c, p, q) < Pow2(p + w)
<1>1. 8 - p \in 0 .. 8 /\ p \in 0 .. 8 /\ w \in 0 .. 8
  OBVIOUS
<1>2. PICK P \in 1 .. 256 : P = Pow2(p)
  BY <1>1, PowerIs, Zenon
<1>3. PICK W \in 1 .. 256 : W = Pow2(w)
  BY <1>1, PowerIs, Zenon
<1>4. PICK R \in 1 .. 256 : R = Pow2(8 - p)
  BY <1>1, PowerIs, Zenon
<1>5. Pow2(p + w) = P * W
  BY <1>1, <1>2, <1>3, PowerSum, Zenon
<1>6. PICK t \in 0 .. q : t = q % R
  <2>1. q \in Int /\ R \in Nat \ {0}
    OBVIOUS
  <2>4. q \in Nat
    OBVIOUS
  <2>5. q \div R \in Nat /\ q % R \in 0 .. R - 1 /\ q = ((q \div R) * R) + (q % R)
    BY <2>1, <2>4, Divided, Zenon
  <2>2. PICK a \in Nat, b \in 0 .. R - 1 : b = q % R /\ q = (a * R) + b
    BY <2>5, Zenon
  <2>3. a * R >= 0
    BY <2>2
  <2> QED BY <2>2, <2>3
<1>7. Filled(c, p, q) = c + (t * P)
  BY <1>2, <1>4, <1>6, FilledIs, ZenonT(40)
<1>8. t <= W - 1 /\ c < P
  BY <1>2, <1>3, <1>6
<1>9. t * P <= (W - 1) * P
  BY <1>8
<1>10. c + (t * P) < P * W
  BY <1>8, <1>9
<1> QED
  BY <1>5, <1>7, <1>10, Zenon

\* Nor has the byte that the rest of a number was carried to.
LEMMA CarriedBits ==
    ASSUME NEW p \in 0 .. 7, NEW w \in 1 .. 8, NEW q \in 0 .. 255, p + w >= 8
    PROVE  Carried(p, q, w) < Pow2((p + w) - 8)
<1>1. 8 - p \in 0 .. 8 /\ (p + w) - 8 \in 0 .. 8
  OBVIOUS
<1>2. PICK R \in 1 .. 256 : R = Pow2(8 - p)
  BY <1>1, PowerIs, Zenon
<1>3. PICK M \in 1 .. 256 : M = Pow2((p + w) - 8)
  BY <1>1, PowerIs, Zenon
<1>4. q \div R \in Int
  OBVIOUS
<1>5. (q \div R) % M < M
  BY <1>4
<1> QED
  BY <1>2, <1>3, <1>5, Zenon DEF Carried

\* The bytes there would be if the packing ended here.
Bytes(acc) == IF acc.bitpos > 0 THEN Append(acc.out, acc.cur) ELSE acc.out

Acc(o, p, c) == [out |-> o, bitpos |-> p, cur |-> c]

\* Bits r to r + w of a byte and of the one behind it.
Read(byte, next, r, w) ==
    ((byte \div Pow2(r)) + (IF r + w > 8 THEN next * Pow2(8 - r) ELSE 0)) % Pow2(w)

\* A byte shifted is a number.
LEMMA Shifted ==
    ASSUME NEW c \in 0 .. 255, NEW r \in 0 .. 7
    PROVE  c \div Pow2(r) \in Int
<1>1. PICK R \in 1 .. 256 : R = Pow2(r)
  BY PowerIs, r \in 0 .. 8
<1>2. c \div R \in Int
  OBVIOUS
<1> QED
  BY <1>1, <1>2, Zenon

\* Field reads bit (d - 1) * w of the code and what follows.
FieldReads(code, w, d, rest, e, r) ==
    Field(code, w, d, rest) = Read(ByteAt(code, e + 1, rest), ByteAt(code, e + 2, rest), r, w)

\* Field, by the byte and the bit that a number begins at.
LEMMA FieldIs ==
    ASSUME NEW code, NEW w \in 1 .. 8, NEW d \in Nat, NEW rest,
           NEW e \in Int, NEW r \in 0 .. 7, (d - 1) * w = (e * 8) + r
    PROVE  FieldReads(code, w, d, rest, e, r)
<1>1. ((d - 1) * w) \div 8 = e /\ ((d - 1) * w) % 8 = r
  <2>1. 8 \in Nat \ {0} /\ r \in Int /\ 0 <= r /\ r < 8
    OBVIOUS
  <2> QED BY <2>1, Quotient, Remainder, Zenon
<1>2. (e + 1) + 1 = e + 2
  OBVIOUS
<1> HIDE DEF ByteAt
<1> QED
  BY <1>1, <1>2, Zenon DEF Field, Read, FieldReads

\* What is read at each byte, before one more number and after it.
Holds(b, o, p, c, rest) ==
    /\ \A i \in 1 .. Len(o) : ByteAt(b, i, rest) = o[i]
    /\ p > 0 => ByteAt(b, Len(o) + 1, rest) = c
HoldsAfter(b, o, p, c, w, q, rest) ==
    /\ \A i \in 1 .. Len(o) : ByteAt(b, i, rest) = o[i]
    /\ ByteAt(b, Len(o) + 1, rest) = Filled(c, p, q)
    /\ p + w > 8 => ByteAt(b, Len(o) + 2, rest) = Carried(p, q, w)

\* The bytes there would be are bytes.
LEMMA BytesType ==
    ASSUME NEW o \in Seq(0 .. 255), NEW p \in 0 .. 7, NEW c \in 0 .. 255
    PROVE  /\ Bytes(Acc(o, p, c)) \in Seq(0 .. 255)
           /\ Len(Bytes(Acc(o, p, c))) = IF p > 0 THEN Len(o) + 1 ELSE Len(o)
<1>1. Bytes(Acc(o, p, c)) = IF p > 0 THEN Append(o, c) ELSE o
  BY DEF Bytes, Acc
<1>2. Append(o, c) \in Seq(0 .. 255) /\ Len(Append(o, c)) = Len(o) + 1
  OBVIOUS
<1> QED
  BY <1>1, <1>2, Zenon

\* They are those written, and the one being filled.
LEMMA BytesAre ==
    ASSUME NEW o \in Seq(0 .. 255), NEW p \in 0 .. 7, NEW c \in 0 .. 255, NEW rest
    PROVE  Holds(Bytes(Acc(o, p, c)), o, p, c, rest)
<1>1. Bytes(Acc(o, p, c)) = IF p > 0 THEN Append(o, c) ELSE o
  BY DEF Bytes, Acc
<1>2. CASE p > 0
  <2>1. Bytes(Acc(o, p, c)) = Append(o, c)
    BY <1>1, <1>2
  <2>2. /\ Append(o, c) \in Seq(0 .. 255) /\ Len(Append(o, c)) = Len(o) + 1
        /\ \A i \in 1 .. Len(o) : Append(o, c)[i] = o[i]
        /\ Append(o, c)[Len(o) + 1] = c
    OBVIOUS
  <2> HIDE DEF Bytes
  <2> QED BY <1>2, <2>1, <2>2 DEF ByteAt, Holds
<1>3. CASE ~(p > 0)
  <2>1. Bytes(Acc(o, p, c)) = o
    BY <1>1, <1>3
  <2> QED BY <1>3, <2>1 DEF ByteAt, Holds
<1> QED
  BY <1>2, <1>3

\* And after one more number.
LEMMA BytesAfter ==
    ASSUME NEW o \in Seq(0 .. 255), NEW p \in 0 .. 7, NEW c \in 0 .. 255,
           NEW w \in 1 .. 8, NEW q \in 0 .. 255, NEW rest
    PROVE  HoldsAfter(Bytes(PutBits(Acc(o, p, c), q, w)), o, p, c, w, q, rest)
<1>1. Filled(c, p, q) \in 0 .. 255
  BY FilledType, ZenonT(40)
<1>2. CASE p + w >= 8
  <2>1. PutBits(Acc(o, p, c), q, w) = Acc(Append(o, Filled(c, p, q)), (p + w) - 8, Carried(p, q, w))
    BY <1>2, PutBitsFills, ZenonT(40) DEF Acc, Fills
  <2>14. (p + w) - 8 \in 0 .. 7
    BY <1>2
  <2>2. Carried(p, q, w) \in 0 .. 255 /\ (p + w) - 8 \in 0 .. 7
    BY <1>2, <2>14, CarriedType, ZenonT(40)
  <2>3. PICK f \in 0 .. 255, v \in 0 .. 255, s \in 0 .. 7 :
              f = Filled(c, p, q) /\ v = Carried(p, q, w) /\ s = (p + w) - 8
    BY <1>1, <2>2, ZenonT(40)
  <2>4. /\ Append(o, f) \in Seq(0 .. 255) /\ Len(Append(o, f)) = Len(o) + 1
        /\ \A i \in 1 .. Len(o) : Append(o, f)[i] = o[i]
        /\ Append(o, f)[Len(o) + 1] = f
    OBVIOUS
  <2>5. PutBits(Acc(o, p, c), q, w) = Acc(Append(o, f), s, v)
    BY <2>1, <2>3, Zenon
  <2>6. PICK a \in Seq(0 .. 255) : a = Append(o, f)
    BY <2>4
  <2>7. Holds(Bytes(Acc(a, s, v)), a, s, v, rest)
    BY BytesAre, ZenonT(40)
  <2>8. Len(o) \in Nat /\ Len(a) = Len(o) + 1 /\ (p + w > 8 => s > 0) /\ Len(a) + 1 = Len(o) + 2
    BY <2>3, <2>4, <2>6
  <2>9. PutBits(Acc(o, p, c), q, w) = Acc(a, s, v)
    BY <2>5, <2>6, Zenon
  <2>10. \A i \in 1 .. Len(o) : i \in 1 .. Len(a) /\ a[i] = o[i]
    BY <2>4, <2>6, <2>8
  <2>11. Len(o) + 1 \in 1 .. Len(a) /\ a[Len(o) + 1] = f
    BY <2>4, <2>6, <2>8
  <2>12. p + w > 8 => ByteAt(Bytes(Acc(a, s, v)), Len(o) + 2, rest) = v
    BY <2>7, <2>8, Zenon DEF Holds
  <2>13. /\ \A i \in 1 .. Len(o) : ByteAt(Bytes(Acc(a, s, v)), i, rest) = o[i]
         /\ ByteAt(Bytes(Acc(a, s, v)), Len(o) + 1, rest) = f
    BY <2>7, <2>10, <2>11, Zenon DEF Holds
  <2> QED BY <2>3, <2>9, <2>12, <2>13, Zenon DEF HoldsAfter
<1>3. CASE ~(p + w >= 8)
  <2>1. PutBits(Acc(o, p, c), q, w) = Acc(o, p + w, Filled(c, p, q))
    BY <1>3, PutBitsFits, ZenonT(40) DEF Acc, Fits
  <2>2. p + w \in 0 .. 7 /\ p + w > 0 /\ ~(p + w > 8)
    BY <1>3
  <2>3. PICK f \in 0 .. 255, s \in 0 .. 7 : f = Filled(c, p, q) /\ s = p + w
    BY <1>1, <2>2
  <2>4. Holds(Bytes(Acc(o, s, f)), o, s, f, rest)
    BY BytesAre, Zenon
  <2> QED BY <2>1, <2>2, <2>3, <2>4, Zenon DEF Holds, HoldsAfter
<1> QED
  BY <1>2, <1>3

\* The number put last can be read.
LEMMA ReadsLast ==
    ASSUME NEW o \in Seq(0 .. 255), NEW p \in 0 .. 7, NEW c \in 0 .. 255,
           NEW w \in 1 .. 8, NEW q \in 0 .. 255, NEW rest, NEW d \in Nat,
           c < Pow2(p), q < Pow2(w), (d - 1) * w = (Len(o) * 8) + p
    PROVE  Field(Bytes(PutBits(Acc(o, p, c), q, w)), w, d, rest) = q
<1> DEFINE b == Bytes(PutBits(Acc(o, p, c), q, w))
<1>1. /\ ByteAt(b, Len(o) + 1, rest) = Filled(c, p, q)
      /\ p + w > 8 => ByteAt(b, Len(o) + 2, rest) = Carried(p, q, w)
  <2>1. HoldsAfter(b, o, p, c, w, q, rest)
    BY BytesAfter, ZenonT(40)
  <2> HIDE DEF b
  <2> QED BY <2>1, Zenon DEF HoldsAfter
<1>2. w \in 1 .. 8 /\ Len(o) \in Int
  OBVIOUS
<1> HIDE DEF b
<1>3. Field(b, w, d, rest) = Read(ByteAt(b, Len(o) + 1, rest), ByteAt(b, Len(o) + 2, rest), p, w)
  BY <1>2, FieldIs, ZenonT(40) DEF FieldReads
<1>4. CASE p + w > 8
  <2>1. Field(b, w, d, rest) =
           ((Filled(c, p, q) \div Pow2(p)) + (Carried(p, q, w) * Pow2(8 - p))) % Pow2(w)
    BY <1>1, <1>3, <1>4, Zenon DEF Read
  <2> QED BY <1>2, <1>4, <2>1, CrossesBytes, ZenonT(40) DEF b
<1>5. CASE ~(p + w > 8)
  <2>1. p + w <= 8
    BY <1>5
  <2>2. Field(b, w, d, rest) = ((Filled(c, p, q) \div Pow2(p)) + 0) % Pow2(w)
    BY <1>1, <1>3, <1>5, Zenon DEF Read
  <2>3. Filled(c, p, q) \div Pow2(p) \in Int
    BY FilledType, Shifted, ZenonT(40)
  <2>4. (Filled(c, p, q) \div Pow2(p)) + 0 = Filled(c, p, q) \div Pow2(p)
    BY <2>3
  <2>5. (Filled(c, p, q) \div Pow2(p)) % Pow2(w) = q
    BY <1>2, <2>1, FitsByte, ZenonT(40)
  <2> QED BY <2>2, <2>4, <2>5, Zenon DEF b
<1> QED
  BY <1>4, <1>5

\* And the earlier ones as before.
ReadsAlike(b, a, w, d, rest) == Field(b, w, d, rest) = Field(a, w, d, rest)

\* One more number leaves what is read of those before it.
LEMMA ReadsEarlier ==
    ASSUME NEW o \in Seq(0 .. 255), NEW p \in 0 .. 7, NEW c \in 0 .. 255,
           NEW w \in 1 .. 8, NEW q \in 0 .. 255, NEW rest, NEW d \in Nat \ {0},
           c < Pow2(p), d * w <= (Len(o) * 8) + p
    PROVE  ReadsAlike(Bytes(PutBits(Acc(o, p, c), q, w)), Bytes(Acc(o, p, c)), w, d, rest)
<1> DEFINE b == Bytes(PutBits(Acc(o, p, c), q, w))
           a == Bytes(Acc(o, p, c))
<1>1. /\ \A i \in 1 .. Len(o) : ByteAt(b, i, rest) = o[i]
      /\ ByteAt(b, Len(o) + 1, rest) = Filled(c, p, q)
  <2>1. HoldsAfter(b, o, p, c, w, q, rest)
    BY BytesAfter, ZenonT(40)
  <2> HIDE DEF b
  <2> QED BY <2>1, Zenon DEF HoldsAfter
<1>2. /\ \A i \in 1 .. Len(o) : ByteAt(a, i, rest) = o[i]
      /\ p > 0 => ByteAt(a, Len(o) + 1, rest) = c
  <2>1. Holds(a, o, p, c, rest)
    BY BytesAre, Zenon
  <2> HIDE DEF a
  <2> QED BY <2>1, Zenon DEF Holds
<1> HIDE DEF b, a
<1>3. w \in 1 .. 8 /\ d \in Nat
  OBVIOUS
<1>4. PICK L \in Nat : L = Len(o)
  OBVIOUS
<1>5. (d - 1) * w \in Int /\ (d - 1) * w >= 0 /\ d * w = ((d - 1) * w) + w
  OBVIOUS
<1>6. PICK s \in Nat : s = (d - 1) * w
  BY <1>5
<1>7. PICK e \in Nat, r \in 0 .. 7 : (d - 1) * w = (e * 8) + r
  <2>1. 8 \in Nat \ {0} /\ s \in Int
    OBVIOUS
  <2>2. s \div 8 \in Nat /\ s % 8 \in 0 .. 8 - 1 /\ s = ((s \div 8) * 8) + (s % 8)
    BY <2>1, Divided, Zenon
  <2>3. 8 - 1 = 7
    OBVIOUS
  <2> QED BY <1>6, <2>2, <2>3, Zenon
<1>8. Field(b, w, d, rest) = Read(ByteAt(b, e + 1, rest), ByteAt(b, e + 2, rest), r, w)
  <2>1. e \in Int /\ d \in Nat
    OBVIOUS
  <2>2. FieldReads(b, w, d, rest, e, r)
    BY <1>7, <2>1, FieldIs, Zenon
  <2> QED BY <2>2, Zenon DEF FieldReads
<1>9. Field(a, w, d, rest) = Read(ByteAt(a, e + 1, rest), ByteAt(a, e + 2, rest), r, w)
  <2>1. e \in Int /\ d \in Nat
    OBVIOUS
  <2>2. FieldReads(a, w, d, rest, e, r)
    BY <1>7, <2>1, FieldIs, Zenon
  <2> QED BY <2>2, Zenon DEF FieldReads
<1>10. (e * 8) + r + w <= (L * 8) + p
  BY <1>4, <1>5, <1>6, <1>7
<1>11. CASE e = L
  <2>1. r + w <= p /\ p > 0 /\ ~(r + w > 8)
    BY <1>10, <1>11
  <2>2. Field(b, w, d, rest) = ((Filled(c, p, q) \div Pow2(r)) + 0) % Pow2(w)
    BY <1>1, <1>4, <1>8, <1>11, <2>1, Zenon DEF Read
  <2>3. Field(a, w, d, rest) = ((c \div Pow2(r)) + 0) % Pow2(w)
    BY <1>2, <1>4, <1>9, <1>11, <2>1, Zenon DEF Read
  <2>7. Filled(c, p, q) \div Pow2(r) \in Int /\ c \div Pow2(r) \in Int
    BY FilledType, Shifted, ZenonT(40)
  <2>4. (Filled(c, p, q) \div Pow2(r)) + 0 = Filled(c, p, q) \div Pow2(r)
    BY <2>7
  <2>5. (c \div Pow2(r)) + 0 = c \div Pow2(r)
    BY <2>7
  <2>6. Keeps(c, p, q, r, w)
    BY <2>1, KeepsByte, ZenonT(40)
  <2> QED BY <2>2, <2>3, <2>4, <2>5, <2>6, Zenon DEF a, b, Keeps, ReadsAlike
<1>12. CASE e < L /\ ~(r + w > 8)
  <2>1. e + 1 \in 1 .. L
    BY <1>12
  <2>2. ByteAt(b, e + 1, rest) = ByteAt(a, e + 1, rest)
    BY <1>1, <1>2, <1>4, <2>1, Zenon
  <2> QED BY <1>8, <1>9, <1>12, <2>2, Zenon DEF a, b, Read, ReadsAlike
<1>13. CASE e + 1 < L /\ r + w > 8
  <2>1. e + 1 \in 1 .. L /\ e + 2 \in 1 .. L
    BY <1>13
  <2>2. ByteAt(b, e + 1, rest) = ByteAt(a, e + 1, rest) /\ ByteAt(b, e + 2, rest) = ByteAt(a, e + 2, rest)
    BY <1>1, <1>2, <1>4, <2>1, Zenon
  <2> QED BY <1>8, <1>9, <2>2, Zenon DEF a, b, ReadsAlike
<1>14. CASE e + 1 = L /\ r + w > 8
  <2>1. e + 1 \in 1 .. L /\ e + 2 = L + 1 /\ r + w <= p + 8 /\ p > 0
    BY <1>10, <1>14
  <2>2. ByteAt(b, e + 1, rest) = o[e + 1] /\ ByteAt(a, e + 1, rest) = o[e + 1]
    BY <1>1, <1>2, <1>4, <2>1, Zenon
  <2>3. ByteAt(b, e + 2, rest) = Filled(c, p, q) /\ ByteAt(a, e + 2, rest) = c
    BY <1>1, <1>2, <1>4, <2>1, Zenon
  <2>6. o[e + 1] \in 0 .. 255
    BY <1>4, <2>1, SMTT(40)
  <2>4. PICK x \in Int : x = o[e + 1] \div Pow2(r)
    BY <2>6, Shifted, Zenon
  <2>5. KeepsNext(x, c, p, q, r, w)
    BY <1>14, <2>1, KeepsCarried, ZenonT(40)
  <2> QED BY <1>8, <1>9, <1>14, <2>2, <2>3, <2>4, <2>5, Zenon DEF a, b, Read, KeepsNext, ReadsAlike
<1>15. e <= L
  BY <1>10
<1> QED
  BY <1>11, <1>12, <1>13, <1>14, <1>15

\* An accumulator: as many bits as there are, none above them.
Sized(o, p, c, bits) ==
    /\ o \in Seq(0 .. 255) /\ p \in 0 .. 7 /\ c \in 0 .. 255
    /\ c < Pow2(p)
    /\ bits = (Len(o) * 8) + p

Grows(acc, bits) == \E o, p, c : acc = Acc(o, p, c) /\ Sized(o, p, c, bits)

\* One more number makes it w bits longer.
LEMMA PutHolds ==
    ASSUME NEW o, NEW p, NEW c, NEW bits \in Nat, NEW w \in 1 .. 8, NEW q \in 0 .. 255,
           Sized(o, p, c, bits), q < Pow2(w)
    PROVE  Grows(PutBits(Acc(o, p, c), q, w), bits + w)
<1>1. o \in Seq(0 .. 255) /\ p \in 0 .. 7 /\ c \in 0 .. 255 /\ c < Pow2(p)
  BY DEF Sized
<1>2. Len(o) \in Nat /\ bits = (Len(o) * 8) + p
  BY <1>1 DEF Sized
<1>3. Filled(c, p, q) \in 0 .. 255
  BY <1>1, FilledType, ZenonT(40)
<1>4. CASE p + w >= 8
  <2>1. PutBits(Acc(o, p, c), q, w) = Acc(Append(o, Filled(c, p, q)), (p + w) - 8, Carried(p, q, w))
    BY <1>1, <1>4, PutBitsFills, ZenonT(40) DEF Acc, Fills
  <2>2. (p + w) - 8 \in 0 .. 7
    BY <1>1, <1>4
  <2>3. Carried(p, q, w) \in 0 .. 255
    BY <1>1, <1>4, CarriedType, Zenon
  <2>4. Carried(p, q, w) < Pow2((p + w) - 8)
    BY <1>1, <1>4, CarriedBits, Zenon
  <2>5. Append(o, Filled(c, p, q)) \in Seq(0 .. 255) /\ Len(Append(o, Filled(c, p, q))) = Len(o) + 1
    BY <1>1, <1>3
  <2>6. bits + w = ((Len(o) + 1) * 8) + ((p + w) - 8)
    BY <1>1, <1>2
  <2>7. Sized(Append(o, Filled(c, p, q)), (p + w) - 8, Carried(p, q, w), bits + w)
    BY <2>2, <2>3, <2>4, <2>5, <2>6, Zenon DEF Sized
  <2> QED BY <2>1, <2>7, Zenon DEF Grows
<1>5. CASE ~(p + w >= 8)
  <2>1. PutBits(Acc(o, p, c), q, w) = Acc(o, p + w, Filled(c, p, q))
    BY <1>1, <1>5, PutBitsFits, ZenonT(40) DEF Acc, Fits
  <2>2. p + w \in 0 .. 7 /\ p + w < 8
    BY <1>1, <1>5
  <2>3. Filled(c, p, q) < Pow2(p + w)
    BY <1>1, <2>2, FilledBits, Zenon
  <2>4. bits + w = (Len(o) * 8) + (p + w)
    BY <1>1, <1>2
  <2>5. Sized(o, p + w, Filled(c, p, q), bits + w)
    BY <1>1, <1>3, <2>2, <2>3, <2>4, Zenon DEF Sized
  <2> QED BY <2>1, <2>5, Zenon DEF Grows
<1> QED
  BY <1>4, <1>5

\* The numbers q[d] up to k, in a code.
Reads(code, q, w, k) == \A d \in 1 .. k : \A rest : Field(code, w, d, rest) = q[d]

\* Numbers of w bits, packed with carry, are bytes, as many as it takes, and can
\* be read again, whatever lies behind them.
LEMMA PackCarryReads ==
    ASSUME NEW n \in Nat, NEW w \in 1 .. 8, NEW q \in [1 .. n -> 0 .. 255],
           \A d \in 1 .. n : q[d] < Pow2(w)
    PROVE  /\ PackCarry(q, w) \in Seq(0 .. 255)
           /\ Len(PackCarry(q, w)) = ((n * w) + 7) \div 8
           /\ Reads(PackCarry(q, w), q, w, n)
<1>1. PICK h \in [0 .. n -> Accs] :
         /\ h[0] = Empty
         /\ \A k \in 1 .. n : h[k] = PutBits(h[k - 1], q[k], w)
         /\ PackCarry(q, w) = IF h[n].bitpos > 0 THEN Append(h[n].out, h[n].cur) ELSE h[n].out
  BY CarryIs, Zenon
<1> DEFINE Good(k) == \E o, p, c : /\ h[k] = Acc(o, p, c) /\ Sized(o, p, c, k * w)
                                   /\ Reads(Bytes(h[k]), q, w, k)
           P == {k \in Nat : k <= n => Good(k)}
<1>2. 0 \in P
  <2>1. h[0] = Acc(<<>>, 0, 0)
    BY <1>1 DEF Empty, Acc
  <2>2. <<>> \in Seq(0 .. 255) /\ Len(<<>>) = 0 /\ 0 * w = (0 * 8) + 0 /\ 0 \in 0 .. 7 /\ 0 \in 0 .. 255
    OBVIOUS
  <2>3. 0 < Pow2(0)
    BY Powers
  <2>4. Sized(<<>>, 0, 0, 0 * w)
    BY <2>2, <2>3, Zenon DEF Sized
  <2>5. Reads(Bytes(h[0]), q, w, 0)
    BY DEF Reads
  <2> QED BY <2>1, <2>4, <2>5
<1>3. ASSUME NEW k \in Nat, k \in P PROVE k + 1 \in P
  <2>0. k + 1 \in Nat
    OBVIOUS
  <2> SUFFICES ASSUME k + 1 <= n PROVE Good(k + 1)
    <3> HIDE DEF Good
    <3> QED BY <2>0, Zenon
  <2>1. k <= n /\ k + 1 \in 1 .. n /\ (k + 1) - 1 = k /\ k * w \in Nat /\ (k + 1) * w = (k * w) + w
    OBVIOUS
  <2>2. Good(k)
    <3> HIDE DEF Good
    <3> QED BY <1>3, <2>1, Zenon
  <2>3. PICK o, p, c : /\ h[k] = Acc(o, p, c) /\ Sized(o, p, c, k * w)
                       /\ Reads(Bytes(h[k]), q, w, k)
    BY <2>2
  <2>4. q[k + 1] \in 0 .. 255 /\ q[k + 1] < Pow2(w)
    BY <2>1
  <2>5. h[k + 1] = PutBits(Acc(o, p, c), q[k + 1], w)
    BY <1>1, <2>1, <2>3, Zenon
  <2>6. PICK o2, p2, c2 : h[k + 1] = Acc(o2, p2, c2) /\ Sized(o2, p2, c2, (k + 1) * w)
    <3>1. PICK x \in 0 .. 255 : x = q[k + 1] /\ x < Pow2(w)
      BY <2>4, Zenon
    <3>2. Grows(PutBits(Acc(o, p, c), x, w), (k * w) + w)
      BY <2>1, <2>3, <3>1, PutHolds, ZenonT(40)
    <3>3. Grows(h[k + 1], (k + 1) * w)
      BY <2>1, <2>5, <3>1, <3>2, Zenon
    <3> QED BY <3>3, Zenon DEF Grows
  <2>7. /\ o \in Seq(0 .. 255) /\ p \in 0 .. 7 /\ c \in 0 .. 255 /\ c < Pow2(p)
        /\ k * w = (Len(o) * 8) + p
    BY <2>3, Zenon DEF Sized
  <2>8. ASSUME NEW rest PROVE Field(Bytes(h[k + 1]), w, k + 1, rest) = q[k + 1]
    <3>1. ((k + 1) - 1) * w = (Len(o) * 8) + p
      BY <2>1, <2>7, Zenon DEF Grows
    <3> QED BY <2>0, <2>4, <2>5, <2>7, <3>1, ReadsLast, ZenonT(40)
  <2>9. ASSUME NEW d \in 1 .. k, NEW rest PROVE Field(Bytes(h[k + 1]), w, d, rest) = q[d]
    <3>1. d \in Nat \ {0} /\ d * w <= k * w
      OBVIOUS
    <3>2. d * w <= (Len(o) * 8) + p
      BY <3>1, <2>7, Zenon
    <3>5. ReadsAlike(Bytes(PutBits(Acc(o, p, c), q[k + 1], w)), Bytes(Acc(o, p, c)), w, d, rest)
      BY <2>4, <2>7, <3>1, <3>2, ReadsEarlier, ZenonT(40)
    <3>3. Field(Bytes(h[k + 1]), w, d, rest) = Field(Bytes(Acc(o, p, c)), w, d, rest)
      BY <2>5, <3>5, Zenon DEF ReadsAlike
    <3>4. Field(Bytes(h[k]), w, d, rest) = q[d]
      BY <2>3, Zenon DEF Reads
    <3> QED BY <2>3, <3>3, <3>4, Zenon
  <2>10. \A d \in 1 .. k + 1 : d \in 1 .. k \/ d = k + 1
    OBVIOUS
  <2>11. Reads(Bytes(h[k + 1]), q, w, k + 1)
    BY <2>8, <2>9, <2>10, Zenon DEF Reads
  <2> QED BY <2>6, <2>11
<1>4. Good(n)
  <2>1. Nat \subseteq P
    <3> HIDE DEF P
    <3> QED BY <1>2, <1>3, Induction
  <2>2. n <= n /\ n \in P
    BY <2>1
  <2> HIDE DEF Good
  <2> QED BY <2>2, Zenon
<1>5. PICK o, p, c : h[n] = Acc(o, p, c) /\ Sized(o, p, c, n * w) /\ Reads(Bytes(h[n]), q, w, n)
  BY <1>4
<1>6. PackCarry(q, w) = Bytes(h[n])
  BY <1>1 DEF Bytes
<1>7. o \in Seq(0 .. 255) /\ p \in 0 .. 7 /\ c \in 0 .. 255 /\ n * w = (Len(o) * 8) + p
  BY <1>5, Zenon DEF Sized
<1>8. /\ Bytes(Acc(o, p, c)) \in Seq(0 .. 255)
      /\ Len(Bytes(Acc(o, p, c))) = IF p > 0 THEN Len(o) + 1 ELSE Len(o)
  BY <1>7, BytesType, ZenonT(40)
<1>9. ((n * w) + 7) \div 8 = IF p > 0 THEN Len(o) + 1 ELSE Len(o)
  <2>1. Len(o) \in Nat
    BY <1>7
  <2>2. PICK L \in Nat : L = Len(o)
    BY <2>1, Zenon
  <2>3. (n * w) + 7 = (L * 8) + (p + 7)
    BY <1>7, <2>2
  <2>4. CASE p > 0
    <3>1. (n * w) + 7 = ((L + 1) * 8) + (p - 1) /\ 0 <= p - 1 /\ p - 1 < 8
      BY <1>7, <2>3, <2>4
    <3>2. 8 \in Nat \ {0} /\ L + 1 \in Int /\ p - 1 \in Int
      BY <1>7
    <3>3. ((n * w) + 7) \div 8 = L + 1
      BY <3>1, <3>2, Quotient, Zenon
    <3> QED BY <2>2, <2>4, <3>3
  <2>5. CASE ~(p > 0)
    <3>1. (n * w) + 7 = (L * 8) + 7 /\ 0 <= 7 /\ 7 < 8
      BY <1>7, <2>3, <2>5
    <3>2. 8 \in Nat \ {0} /\ L \in Int /\ 7 \in Int
      OBVIOUS
    <3>3. ((n * w) + 7) \div 8 = L
      BY <3>1, <3>2, Quotient, Zenon
    <3> QED BY <2>2, <2>5, <3>3
  <2> QED BY <2>4, <2>5
<1>10. Len(Bytes(h[n])) = ((n * w) + 7) \div 8
  <2>1. h[n] = Acc(o, p, c)
    BY <1>5
  <2>2. Len(Bytes(Acc(o, p, c))) = ((n * w) + 7) \div 8
    BY <1>8, <1>9
  <2> QED BY <2>1, <2>2, Zenon
<1>11. Bytes(h[n]) \in Seq(0 .. 255)
  BY <1>5, <1>8, Zenon
<1> QED
  BY <1>5, <1>6, <1>10, <1>11, Zenon

\* With room for a number of w bits above the bits there are, the byte is their sum.
LEMMA FilledSum ==
    ASSUME NEW p \in 0 .. 7, NEW c \in 0 .. 255, NEW w \in 1 .. 8, NEW q \in 0 .. 255,
           c < Pow2(p), q < Pow2(w), p + w <= 8
    PROVE  Filled(c, p, q) = c + (q * Pow2(p))
<1>1. 8 - p \in 0 .. 8 /\ (8 - p) - w \in 0 .. 8 /\ w + ((8 - p) - w) = 8 - p /\ w \in 0 .. 8
  OBVIOUS
<1>2. Pow2(w + ((8 - p) - w)) = Pow2(w) * Pow2((8 - p) - w)
  BY <1>1, PowerSum, Zenon
<1>3. PICK R \in 1 .. 256 : R = Pow2(8 - p)
  BY <1>1, PowerIs, Zenon
<1>4. PICK W \in 1 .. 256 : W = Pow2(w)
  BY <1>1, PowerIs, Zenon
<1>5. PICK E \in 1 .. 256 : E = Pow2((8 - p) - w)
  BY <1>1, PowerIs, Zenon
<1>6. R = W * E
  BY <1>1, <1>2, <1>3, <1>4, <1>5, Zenon
<1>7. q < R
  <2>1. W * E >= W
    OBVIOUS
  <2> QED BY <1>4, <1>6, <2>1
<1>8. q % R = q
  <2>1. 0 \in Int /\ R \in Nat \ {0} /\ q \in Int /\ 0 <= q /\ q < R /\ q = (0 * R) + q
    BY <1>7
  <2> QED BY <2>1, Remainder, Zenon
<1> QED
  BY <1>3, <1>8, FilledIs, Zenon

\* A byte has eight bits.
LEMMA ByteBelow == \A x \in 0 .. 255 : x < Pow2(8)
  BY Powers

\* A number in a byte, between bits.
Within(byte, r, w, q) == (byte \div Pow2(r)) % Pow2(w) = q

\* A byte of numbers of w bits is a byte, and has each of them at its bits.
LEMMA WholeByte ==
    ASSUME NEW w \in 1 .. 8, NEW m \in Nat, w * m = 8, NEW t \in [1 .. m -> 0 .. 255],
           \A j \in 1 .. m : t[j] < Pow2(w)
    PROVE  LET byte == Sum([j \in 1 .. m |-> t[j] * Pow2(w * (j - 1))])
           IN  byte \in 0 .. 255 /\ \A j \in 1 .. m : Within(byte, w * (j - 1), w, t[j])
<1> DEFINE s == [j \in 1 .. m |-> t[j] * Pow2(w * (j - 1))]
<1>1. ASSUME NEW k \in Nat, k + 1 <= m PROVE w * k \in 0 .. 7 /\ (w * k) + w <= 8 /\ w * (k + 1) = (w * k) + w
  <2>1. w * (k + 1) = (w * k) + w
    OBVIOUS
  <2>2. w * (k + 1) <= w * m
    BY <1>1
  <2>3. w * k \in Nat
    OBVIOUS
  <2> QED BY <2>1, <2>2, <2>3
<1>2. \A j \in 1 .. m : w * (j - 1) \in 0 .. 7
  <2> TAKE j \in 1 .. m
  <2>1. j - 1 \in Nat /\ (j - 1) + 1 <= m
    OBVIOUS
  <2> QED BY <1>1, <2>1, Zenon
<1>3. s \in [1 .. m -> Int]
  <2>1. ASSUME NEW j \in 1 .. m PROVE t[j] * Pow2(w * (j - 1)) \in Int
    <3>1. PICK i \in 0 .. 7 : i = w * (j - 1)
      BY <1>2
    <3>2. PICK R \in 1 .. 256 : R = Pow2(i)
      BY PowerIs, i \in 0 .. 8
    <3>4. PICK q \in 0 .. 255 : q = t[j]
      OBVIOUS
    <3>3. q * R \in Int
      OBVIOUS
    <3> QED BY <3>1, <3>2, <3>3, <3>4, Zenon
  <2> QED BY <2>1
<1>4. PICK h \in [0 .. m -> Int] : /\ h[0] = 0
                                   /\ \A k \in 1 .. m : h[k] = h[k - 1] + s[k]
                                   /\ Sum(s) = h[m]
  <2> HIDE DEF s
  <2> QED BY <1>3, SumIs, Zenon
<1> DEFINE Good(k) == /\ h[k] \in 0 .. 255 /\ h[k] < Pow2(w * k)
                      /\ \A j \in 1 .. k : Within(h[k], w * (j - 1), w, t[j])
           P == {k \in Nat : k <= m => Good(k)}
<1>5. 0 \in P
  <2>1. w * 0 = 0
    OBVIOUS
  <2> QED BY <1>4, <2>1, Powers, SMTT(40)
<1>6. ASSUME NEW k \in Nat, k \in P PROVE k + 1 \in P
  <2>0. k + 1 \in Nat
    OBVIOUS
  <2> SUFFICES ASSUME k + 1 <= m PROVE Good(k + 1)
    <3> HIDE DEF Good
    <3> QED BY <2>0, Zenon
  <2>1. k <= m /\ k + 1 \in 1 .. m /\ (k + 1) - 1 = k
    OBVIOUS
  <2>2. h[k] \in 0 .. 255 /\ h[k] < Pow2(w * k) /\ \A j \in 1 .. k : Within(h[k], w * (j - 1), w, t[j])
    <3>1. Good(k)
      <4> HIDE DEF Good
      <4> QED BY <1>6, <2>1, Zenon
    <3> QED BY <3>1
  <2>3. PICK c \in 0 .. 255 : c = h[k]
    BY <2>2
  <2>4. PICK p \in 0 .. 7 : p = w * k
    BY <1>1
  <2>5. PICK q \in 0 .. 255 : q = t[k + 1]
    BY <2>1
  <2>6. c < Pow2(p) /\ q < Pow2(w) /\ p + w <= 8 /\ w * (k + 1) = p + w
    BY <1>1, <2>1, <2>2, <2>3, <2>4, <2>5
  <2>7. h[k + 1] = Filled(c, p, q)
    <3>1. h[k + 1] = h[k] + s[k + 1]
      BY <1>4, <2>1
    <3>2. s[k + 1] = t[k + 1] * Pow2(w * ((k + 1) - 1))
      BY <2>1
    <3>3. h[k + 1] = c + (q * Pow2(p))
      BY <2>1, <2>3, <2>4, <2>5, <3>1, <3>2
    <3> QED BY <2>6, <3>3, FilledSum, ZenonT(40)
  <2>8. h[k + 1] \in 0 .. 255
    <3>1. Filled(c, p, q) \in 0 .. 255
      BY FilledType, ZenonT(40)
    <3> QED BY <2>7, <3>1
  <2>9. h[k + 1] < Pow2(w * (k + 1))
    <3>1. CASE p + w < 8
      <4>1. Filled(c, p, q) < Pow2(p + w)
        BY <2>6, <3>1, FilledBits, Zenon
      <4>2. w * (k + 1) = p + w
        BY <2>6
      <4> QED BY <2>7, <4>1, <4>2, Zenon
    <3>2. CASE p + w = 8
      <4>1. w * (k + 1) = 8
        BY <2>6, <3>2
      <4>2. h[k + 1] < Pow2(8)
        BY <2>8, ByteBelow, Zenon
      <4> QED BY <4>1, <4>2, Zenon
    <3> QED BY <2>6, <3>1, <3>2
  <2>10. Within(h[k + 1], w * k, w, t[k + 1])
    <3>1. (Filled(c, p, q) \div Pow2(p)) % Pow2(w) = q
      BY <2>6, FitsByte, ZenonT(40)
    <3> QED BY <2>4, <2>5, <2>7, <3>1, Zenon DEF Within
  <2>11. ASSUME NEW j \in 1 .. k PROVE Within(h[k + 1], w * (j - 1), w, t[j])
    <3>1. j - 1 \in Nat /\ (j - 1) + 1 <= m /\ (w * (j - 1)) + w = w * j /\ w * j <= w * k
      BY <2>1
    <3>2. w * (j - 1) \in 0 .. 7
      BY <1>1, <3>1, Zenon
    <3>3. PICK r \in 0 .. 7 : r = w * (j - 1)
      BY <3>2, Zenon
    <3>4. r + w <= p
      BY <2>4, <3>1, <3>3
    <3>5. Keeps(c, p, q, r, w)
      BY <2>6, <3>4, KeepsByte, ZenonT(40)
    <3>6. Within(c, r, w, t[j])
      BY <2>2, <2>3, <3>3, Zenon
    <3> QED BY <2>7, <3>3, <3>5, <3>6, Zenon DEF Keeps, Within
  <2>12. \A j \in 1 .. k + 1 : j \in 1 .. k \/ (j = k + 1 /\ j - 1 = k)
    OBVIOUS
  <2>13. \A j \in 1 .. k + 1 : Within(h[k + 1], w * (j - 1), w, t[j])
    BY <2>10, <2>11, <2>12, Zenon
  <2> QED BY <2>8, <2>9, <2>13
<1>7. Good(m)
  <2>1. Nat \subseteq P
    <3> HIDE DEF P
    <3> QED BY <1>5, <1>6, Induction
  <2>2. m <= m /\ m \in P
    BY <2>1
  <2> HIDE DEF Good
  <2> QED BY <2>2, Zenon
<1> QED
  BY <1>4, <1>7, Zenon

\* What a byte of PackWhole has at place j.
Term(q, b, m, j) == LET d == (b - 1) * m + j IN IF d <= Dim THEN q[d] ELSE 0

\* A byte of PackWhole is the sum of its numbers, each at its place.
LEMMA WholeIs ==
    ASSUME NEW w \in 1 .. 8, NEW m \in Nat, w * m = 8, NEW q \in [Dims -> 0 .. 255],
           NEW b \in 1 .. BytesPerVector(w)
    PROVE  PackWhole(q, w)[b] = Sum([j \in 1 .. m |-> Term(q, b, m, j) * Pow2(w * (j - 1))])
<1>1. 8 \div w = m
  <2>1. 8 = (m * w) + 0 /\ 0 \in Int /\ 0 <= 0 /\ 0 < w /\ w \in Nat \ {0} /\ m \in Int
    OBVIOUS
  <2> QED BY <2>1, Quotient, Zenon
<1>2. ASSUME NEW j \in 1 .. m
      PROVE  Term(q, b, m, j) * Pow2(w * (j - 1)) =
                 LET d == (b - 1) * m + j IN IF d <= Dim THEN q[d] * Pow2(w * (j - 1)) ELSE 0
  <2>1. PICK i \in 0 .. 7 : i = w * (j - 1)
    <3>1. w * (j - 1) = (w * j) - w /\ w * j <= w * m /\ w * (j - 1) >= 0
      OBVIOUS
    <3> QED BY <3>1
  <2>2. PICK R \in 1 .. 256 : R = Pow2(i)
    BY PowerIs, i \in 0 .. 8
  <2>3. 0 * R = 0
    OBVIOUS
  <2> QED BY <2>1, <2>2, <2>3, Zenon DEF Term
<1>3. [j \in 1 .. m |-> Term(q, b, m, j) * Pow2(w * (j - 1))] =
         [j \in 1 .. m |-> LET d == (b - 1) * m + j IN IF d <= Dim THEN q[d] * Pow2(w * (j - 1)) ELSE 0]
  BY <1>2
<1> QED
  BY <1>1, <1>3, Zenon DEF PackWhole

\* BytesPerVector is a number.
LEMMA BytesAreMany == ASSUME NEW w \in 1 .. 8 PROVE BytesPerVector(w) \in Nat
<1>1. Dim \in Nat
  BY DimAssumption
<1>2. (Dim * w) + 7 \in Nat
  BY <1>1
<1>3. 8 \in Nat \ {0} /\ (Dim * w) + 7 \in Int
  BY <1>2
<1> QED
  BY <1>2, <1>3, Divided, Zenon DEF BytesPerVector

\* Numbers of w bits, packed whole, are bytes and can be read again.
LEMMA PackWholeReads ==
    ASSUME NEW w \in 1 .. 8, NEW m \in Nat, w * m = 8, NEW q \in [Dims -> 0 .. 255],
           \A d \in Dims : q[d] < Pow2(w)
    PROVE  /\ PackWhole(q, w) \in [1 .. BytesPerVector(w) -> 0 .. 255]
           /\ Reads(PackWhole(q, w), q, w, Dim)
<1> DEFINE n == BytesPerVector(w)
<1>1. n \in Nat /\ Dim \in Nat
  BY BytesAreMany, DimAssumption
<1>2. ASSUME NEW b \in 1 .. n
      PROVE  /\ PackWhole(q, w)[b] \in 0 .. 255
             /\ \A j \in 1 .. m : Within(PackWhole(q, w)[b], w * (j - 1), w, Term(q, b, m, j))
  <2> DEFINE t == [j \in 1 .. m |-> Term(q, b, m, j)]
  <2>1. ASSUME NEW j \in 1 .. m PROVE Term(q, b, m, j) \in 0 .. 255 /\ Term(q, b, m, j) < Pow2(w)
    <3>1. PICK d \in Nat : d = ((b - 1) * m) + j /\ d >= 1
      <4>1. b - 1 \in Nat /\ (b - 1) * m \in Nat
        BY <1>1
      <4> QED BY <4>1
    <3>2. Term(q, b, m, j) = IF d <= Dim THEN q[d] ELSE 0
      BY <3>1 DEF Term
    <3>3. 0 < Pow2(w)
      BY PowerType, SMTT(40)
    <3>4. d <= Dim => d \in Dims
      BY <1>1, <3>1 DEF Dims
    <3> QED BY <3>2, <3>3, <3>4
  <2>2. t \in [1 .. m -> 0 .. 255] /\ \A j \in 1 .. m : t[j] < Pow2(w)
    BY <2>1
  <2>3. PackWhole(q, w)[b] = Sum([j \in 1 .. m |-> Term(q, b, m, j) * Pow2(w * (j - 1))])
    BY WholeIs, Zenon
  <2>4. \A j \in 1 .. m : t[j] = Term(q, b, m, j)
    OBVIOUS
  <2>5. [j \in 1 .. m |-> Term(q, b, m, j) * Pow2(w * (j - 1))] = [j \in 1 .. m |-> t[j] * Pow2(w * (j - 1))]
    BY <2>4
  <2> HIDE DEF t
  <2>6. LET byte == Sum([j \in 1 .. m |-> t[j] * Pow2(w * (j - 1))])
        IN  byte \in 0 .. 255 /\ \A j \in 1 .. m : Within(byte, w * (j - 1), w, t[j])
    BY <2>2, WholeByte, ZenonT(40)
  <2> QED BY <2>3, <2>4, <2>5, <2>6, ZenonT(40)
<1>3. PackWhole(q, w) \in [1 .. n -> 0 .. 255]
  <2>1. PackWhole(q, w) = [b \in 1 .. n |-> PackWhole(q, w)[b]]
    BY DEF PackWhole
  <2> HIDE DEF n
  <2> QED BY <1>2, <2>1
<1>4. ASSUME NEW d \in 1 .. Dim, NEW rest PROVE Field(PackWhole(q, w), w, d, rest) = q[d]
  <2>1. m \in Nat \ {0} /\ d - 1 \in Nat /\ d - 1 \in Int /\ d \in Nat
    BY <1>1
  <2>2. (d - 1) \div m \in Nat /\ (d - 1) % m \in 0 .. m - 1 /\ d - 1 = (((d - 1) \div m) * m) + ((d - 1) % m)
    BY <2>1, Divided, Zenon
  <2>3. PICK e \in Nat, i \in 0 .. m - 1 : d - 1 = (e * m) + i
    BY <2>2, Zenon
  <2>4. PICK r \in Nat : r = w * i
    OBVIOUS
  <2>5. r + w <= 8 /\ r \in 0 .. 7
    <3>1. w * i <= w * (m - 1) /\ w * (m - 1) = (w * m) - w
      BY <2>1
    <3> QED BY <2>4, <3>1
  <2>6. (d - 1) * w = (e * 8) + r
    <3>1. (d - 1) * w = ((e * m) + i) * w
      BY <2>3
    <3>2. ((e * m) + i) * w = (e * (w * m)) + (w * i)
      OBVIOUS
    <3> QED BY <2>4, <3>1, <3>2
  <2>7. e + 1 \in 1 .. n
    <3>1. d * w = ((d - 1) * w) + w /\ d * w <= Dim * w
      BY <1>1
    <3>2. PICK x \in Nat : x = Dim * w
      BY <1>1
    <3>3. (e * 8) + r + w <= x
      BY <2>6, <3>1, <3>2
    <3>4. 8 \in Nat \ {0} /\ x + 7 \in Int
      OBVIOUS
    <3>5. (x + 7) \div 8 \in Int /\ (x + 7) % 8 \in 0 .. 8 - 1 /\ x + 7 = (((x + 7) \div 8) * 8) + ((x + 7) % 8)
      BY <3>4, Divided, Zenon
    <3>6. n = (x + 7) \div 8
      BY <3>2 DEF BytesPerVector
    <3>7. PICK y \in Int, z \in 0 .. 7 : y = n /\ x + 7 = (y * 8) + z
      <4>1. 8 - 1 = 7
        OBVIOUS
      <4> HIDE DEF n
      <4> QED BY <3>5, <3>6, <4>1, Zenon
    <3>8. e + 1 <= y
      BY <3>3, <3>7
    <3> HIDE DEF n
    <3> QED BY <3>7, <3>8
  <2> DEFINE code == PackWhole(q, w)
  <2>8. ByteAt(code, e + 1, rest) = code[e + 1]
    <3>1. Len(code) = n
      BY <1>1 DEF PackWhole
    <3> HIDE DEF n, code
    <3> QED BY <2>7, <3>1 DEF ByteAt
  <2>9. FieldReads(code, w, d, rest, e, r)
    <3>1. e \in Int /\ d \in Nat
      BY <1>1
    <3> HIDE DEF code
    <3> QED BY <2>5, <2>6, <3>1, FieldIs, Zenon
  <2>10. i + 1 \in 1 .. m /\ (i + 1) - 1 = i /\ (e + 1) - 1 = e
    OBVIOUS
  <2>11. Term(q, e + 1, m, i + 1) = q[d]
    <3>1. (((e + 1) - 1) * m) + (i + 1) = d
      BY <2>3, <2>10
    <3>2. d <= Dim
      OBVIOUS
    <3> QED BY <3>1, <3>2, Zenon DEF Term
  <2>12. Within(code[e + 1], r, w, q[d])
    <3>1. Within(code[e + 1], w * ((i + 1) - 1), w, Term(q, e + 1, m, i + 1))
      BY <1>2, <2>7, <2>10, Zenon
    <3> QED BY <2>4, <2>10, <2>11, <3>1, Zenon
  <2>13. code[e + 1] \in 0 .. 255
    BY <1>2, <2>7, Zenon
  <2>14. code[e + 1] \div Pow2(r) \in Int
    BY <2>5, <2>13, Shifted, Zenon
  <2>15. (code[e + 1] \div Pow2(r)) + 0 = code[e + 1] \div Pow2(r)
    BY <2>14
  <2>16. ~(r + w > 8)
    BY <2>5
  <2> HIDE DEF code
  <2>17. Field(code, w, d, rest) = ((code[e + 1] \div Pow2(r)) + 0) % Pow2(w)
    BY <2>8, <2>9, <2>16, Zenon DEF FieldReads, Read
  <2> QED BY <2>12, <2>15, <2>17, Zenon DEF Within, code
<1> QED
  BY <1>3, <1>4, Zenon DEF Reads

\* Among some of the numbers of a sequence there is a least and a greatest one.
LEMMA LeastIs ==
    ASSUME NEW n \in Nat, NEW f \in [1 .. n -> Int], NEW I \in SUBSET (1 .. n), I # {}
    PROVE  \E i \in I : \A j \in I : f[i] <= f[j]
<1> DEFINE P == {k \in Nat : k <= n => \A J \in SUBSET (1 .. k) : J # {} => \E i \in J : \A j \in J : f[i] <= f[j]}
<1>1. 0 \in P
  <2>1. SUBSET (1 .. 0) = {{}}
    OBVIOUS
  <2> QED BY <2>1
<1>2. ASSUME NEW k \in Nat, k \in P PROVE k + 1 \in P
  <2> SUFFICES ASSUME k + 1 <= n, NEW J \in SUBSET (1 .. k + 1), J # {}
               PROVE  \E i \in J : \A j \in J : f[i] <= f[j]
    <3>1. k + 1 \in Nat
      OBVIOUS
    <3> QED BY <3>1, Zenon
  <2>1. \A J2 \in SUBSET (1 .. k) : J2 # {} => \E i \in J2 : \A j \in J2 : f[i] <= f[j]
    BY <1>2
  <2>2. CASE k + 1 \notin J
    <3>1. J \in SUBSET (1 .. k)
      BY <2>2
    <3> QED BY <3>1, <2>1
  <2>3. CASE k + 1 \in J /\ J \ {k + 1} = {}
    <3>1. \A j \in J : j = k + 1
      BY <2>3
    <3>2. f[k + 1] <= f[k + 1]
      OBVIOUS
    <3> QED BY <2>3, <3>1, <3>2
  <2>4. CASE k + 1 \in J /\ J \ {k + 1} # {}
    <3>1. J \ {k + 1} \in SUBSET (1 .. k)
      OBVIOUS
    <3>2. PICK i \in J \ {k + 1} : \A j \in J \ {k + 1} : f[i] <= f[j]
      BY <2>1, <2>4, <3>1
    <3>3. f[i] \in Int /\ f[k + 1] \in Int
      OBVIOUS
    <3>4. CASE f[i] <= f[k + 1]
      BY <3>2, <3>4
    <3>5. CASE ~(f[i] <= f[k + 1])
      <4>1. ASSUME NEW j \in J PROVE f[k + 1] <= f[j]
        <5>1. CASE j = k + 1
          BY <3>3, <5>1
        <5>2. CASE j # k + 1
          <6>1. f[i] <= f[j] /\ f[j] \in Int
            BY <3>2, <5>2
          <6> QED BY <3>3, <3>5, <6>1
        <5> QED BY <5>1, <5>2
      <4> QED BY <2>4, <4>1
    <3> QED BY <3>4, <3>5
  <2> QED BY <2>2, <2>3, <2>4
<1>3. Nat \subseteq P
  <2> HIDE DEF P
  <2> QED BY <1>1, <1>2, Induction
<1>4. n \in P /\ n <= n
  BY <1>3
<1> QED
  BY <1>4, Zenon

\* And a greatest one.
LEMMA GreatestIs ==
    ASSUME NEW n \in Nat, NEW f \in [1 .. n -> Int], NEW I \in SUBSET (1 .. n), I # {}
    PROVE  \E i \in I : \A j \in I : f[i] >= f[j]
<1> DEFINE g == [i \in 1 .. n |-> -f[i]]
<1>1. g \in [1 .. n -> Int]
  OBVIOUS
<1>2. PICK i \in I : \A j \in I : g[i] <= g[j]
  <2> HIDE DEF g
  <2> QED BY <1>1, LeastIs
<1>3. ASSUME NEW j \in I PROVE f[i] >= f[j]
  <2>1. f[i] \in Int /\ f[j] \in Int /\ -f[i] <= -f[j]
    BY <1>2
  <2> QED BY <2>1
<1> QED
  BY <1>3

\* What fit may be given.
Samples(S) == S \in Seq([Dims -> Int]) /\ S # <<>>

\* One dimension of the samples.
LEMMA ColumnIs ==
    ASSUME NEW S, Samples(S), NEW d \in Dims
    PROVE  /\ Len(S) \in Nat \ {0} /\ DOMAIN S = 1 .. Len(S)
           /\ Column(S, d) \in [1 .. Len(S) -> Int]
           /\ \A i \in 1 .. Len(S) : Column(S, d)[i] = S[i][d] /\ S[i][d] \in Int
           /\ ToSet(Column(S, d)) = {S[i][d] : i \in 1 .. Len(S)}
<1>1. Len(S) \in Nat \ {0} /\ DOMAIN S = 1 .. Len(S) /\ \A i \in 1 .. Len(S) : S[i] \in [Dims -> Int]
  BY DEF Samples
<1>2. \A i \in 1 .. Len(S) : S[i][d] \in Int
  BY <1>1
<1>3. Column(S, d) = [i \in 1 .. Len(S) |-> S[i][d]]
  BY <1>1 DEF Column
<1>4. Column(S, d) \in [1 .. Len(S) -> Int] /\ \A i \in 1 .. Len(S) : Column(S, d)[i] = S[i][d]
  BY <1>2, <1>3
<1>5. ToSet(Column(S, d)) = {S[i][d] : i \in 1 .. Len(S)}
  BY <1>3 DEF ToSet
<1> QED
  BY <1>1, <1>2, <1>4, <1>5

\* The least and the greatest number of a dimension.
LEMMA LoIs ==
    ASSUME NEW S, Samples(S), NEW d \in Dims
    PROVE  /\ Lo(S, d) \in Int
           /\ \E i \in 1 .. Len(S) : Lo(S, d) = S[i][d]
           /\ \A i \in 1 .. Len(S) : Lo(S, d) <= S[i][d]
<1>1. /\ Len(S) \in Nat \ {0} /\ Column(S, d) \in [1 .. Len(S) -> Int]
      /\ \A i \in 1 .. Len(S) : Column(S, d)[i] = S[i][d] /\ S[i][d] \in Int
      /\ ToSet(Column(S, d)) = {S[i][d] : i \in 1 .. Len(S)}
  BY ColumnIs
<1>2. PICK i \in 1 .. Len(S) : \A j \in 1 .. Len(S) : Column(S, d)[i] <= Column(S, d)[j]
  <2>1. Len(S) \in Nat /\ 1 .. Len(S) \in SUBSET (1 .. Len(S)) /\ 1 .. Len(S) # {}
    BY <1>1
  <2> QED BY <1>1, <2>1, LeastIs, Zenon
<1>3. \E x \in ToSet(Column(S, d)) : \A y \in ToSet(Column(S, d)) : x <= y
  <2>1. \A j \in 1 .. Len(S) : S[i][d] <= S[j][d]
    BY <1>1, <1>2, Zenon
  <2>2. S[i][d] \in ToSet(Column(S, d))
    BY <1>1, Zenon
  <2>3. \A y \in ToSet(Column(S, d)) : S[i][d] <= y
    BY <1>1, <2>1, Zenon
  <2> QED BY <2>2, <2>3, Zenon
<1>4. Lo(S, d) \in ToSet(Column(S, d)) /\ \A y \in ToSet(Column(S, d)) : Lo(S, d) <= y
  BY <1>3 DEF Lo, Min
<1> QED
  BY <1>1, <1>4

\* And the greatest.
LEMMA HiIs ==
    ASSUME NEW S, Samples(S), NEW d \in Dims
    PROVE  /\ Hi(S, d) \in Int
           /\ \E i \in 1 .. Len(S) : Hi(S, d) = S[i][d]
           /\ \A i \in 1 .. Len(S) : S[i][d] <= Hi(S, d)
<1>1. /\ Len(S) \in Nat \ {0} /\ Column(S, d) \in [1 .. Len(S) -> Int]
      /\ \A i \in 1 .. Len(S) : Column(S, d)[i] = S[i][d] /\ S[i][d] \in Int
      /\ ToSet(Column(S, d)) = {S[i][d] : i \in 1 .. Len(S)}
  BY ColumnIs
<1>2. PICK i \in 1 .. Len(S) : \A j \in 1 .. Len(S) : Column(S, d)[i] >= Column(S, d)[j]
  <2>1. Len(S) \in Nat /\ 1 .. Len(S) \in SUBSET (1 .. Len(S)) /\ 1 .. Len(S) # {}
    BY <1>1
  <2> QED BY <1>1, <2>1, GreatestIs, Zenon
<1>3. \E x \in ToSet(Column(S, d)) : \A y \in ToSet(Column(S, d)) : x >= y
  <2>1. \A j \in 1 .. Len(S) : S[i][d] >= S[j][d]
    BY <1>1, <1>2, Zenon
  <2>2. S[i][d] \in ToSet(Column(S, d))
    BY <1>1, Zenon
  <2>3. \A y \in ToSet(Column(S, d)) : S[i][d] >= y
    BY <1>1, <2>1, Zenon
  <2> QED BY <2>2, <2>3, Zenon
<1>4. Hi(S, d) \in ToSet(Column(S, d)) /\ \A y \in ToSet(Column(S, d)) : Hi(S, d) >= y
  BY <1>3 DEF Hi, Max
<1> QED
  BY <1>1, <1>4

\* The sum of a dimension, between as many times the least and the greatest.
LEMMA TotalIs ==
    ASSUME NEW S, Samples(S), NEW d \in Dims
    PROVE  /\ Total(S, d) \in Int
           /\ Lo(S, d) * Len(S) <= Total(S, d) /\ Total(S, d) <= Hi(S, d) * Len(S)
           /\ Lo(S, d) < Hi(S, d) =>
                 Lo(S, d) * Len(S) < Total(S, d) /\ Total(S, d) < Hi(S, d) * Len(S)
<1>1. /\ Len(S) \in Nat /\ Column(S, d) \in [1 .. Len(S) -> Int]
      /\ \A i \in 1 .. Len(S) : Column(S, d)[i] = S[i][d] /\ S[i][d] \in Int
  BY ColumnIs
<1>2. Lo(S, d) \in Int /\ \A i \in 1 .. Len(S) : Column(S, d)[i] >= Lo(S, d)
  BY <1>1, LoIs
<1>3. Hi(S, d) \in Int /\ \A i \in 1 .. Len(S) : Column(S, d)[i] <= Hi(S, d)
  BY <1>1, HiIs
<1>4. Total(S, d) \in Int
  BY <1>1, SumType, Zenon DEF Total
<1>5. Total(S, d) <= Hi(S, d) * Len(S)
      /\ ((\E i \in 1 .. Len(S) : Column(S, d)[i] < Hi(S, d)) => Total(S, d) < Hi(S, d) * Len(S))
  BY <1>1, <1>3, SumAtMost, Zenon DEF Total
<1>6. Total(S, d) >= Lo(S, d) * Len(S)
      /\ ((\E i \in 1 .. Len(S) : Column(S, d)[i] > Lo(S, d)) => Total(S, d) > Lo(S, d) * Len(S))
  BY <1>1, <1>2, SumAtLeast, Zenon DEF Total
<1>7. PICK x \in Int, y \in Int : x = Lo(S, d) * Len(S) /\ y = Hi(S, d) * Len(S)
  BY <1>1, <1>2, <1>3
<1>8. ASSUME Lo(S, d) < Hi(S, d)
      PROVE  /\ \E i \in 1 .. Len(S) : Column(S, d)[i] < Hi(S, d)
             /\ \E i \in 1 .. Len(S) : Column(S, d)[i] > Lo(S, d)
  <2>1. PICK i \in 1 .. Len(S) : Lo(S, d) = S[i][d]
    BY LoIs
  <2>2. PICK j \in 1 .. Len(S) : Hi(S, d) = S[j][d]
    BY HiIs
  <2> QED BY <1>1, <1>2, <1>3, <1>8, <2>1, <2>2
<1> QED
  BY <1>4, <1>5, <1>6, <1>7, <1>8

\* No number of a dimension is further from its mean.
LEMMA FurthestIs ==
    ASSUME NEW S, Samples(S), NEW d \in Dims
    PROVE  /\ Furthest(S, d) \in Nat
           /\ (Hi(S, d) * Len(S)) - Total(S, d) <= Furthest(S, d)
           /\ Total(S, d) - (Lo(S, d) * Len(S)) <= Furthest(S, d)
<1>1. Len(S) \in Nat /\ Lo(S, d) \in Int /\ Hi(S, d) \in Int
  BY ColumnIs, LoIs, HiIs
<1>2. /\ Total(S, d) \in Int
      /\ Lo(S, d) * Len(S) <= Total(S, d) /\ Total(S, d) <= Hi(S, d) * Len(S)
  BY TotalIs
<1>3. Len(S) * Hi(S, d) = Hi(S, d) * Len(S) /\ Len(S) * Lo(S, d) = Lo(S, d) * Len(S)
  BY <1>1
<1>4. PICK x \in Int, y \in Int : x = Lo(S, d) * Len(S) /\ y = Hi(S, d) * Len(S)
  BY <1>1
<1>5. PICK t \in Int : t = Total(S, d)
  BY <1>2
<1>6. Furthest(S, d) = IF y - t > t - x THEN y - t ELSE t - x
  BY <1>3, <1>4, <1>5, Zenon DEF Furthest
<1> QED
  BY <1>2, <1>4, <1>5, <1>6

Below(S, d, v) == {i \in DOMAIN S : S[i][d] < v}
UpTo(S, d, v) == {i \in DOMAIN S : S[i][d] <= v}

\* The samples on one side of a number can be counted.
LEMMA SidesAreFinite ==
    ASSUME NEW S, Samples(S), NEW d \in Dims, NEW v
    PROVE  /\ IsFiniteSet(Below(S, d, v)) /\ Cardinality(Below(S, d, v)) \in Nat
           /\ IsFiniteSet(UpTo(S, d, v)) /\ Cardinality(UpTo(S, d, v)) \in Nat
           /\ Cardinality(1 .. Len(S)) = Len(S) /\ IsFiniteSet(1 .. Len(S))
<1>1. Len(S) \in Nat /\ Len(S) # 0 /\ DOMAIN S = 1 .. Len(S)
  BY ColumnIs
<1>2. IsFiniteSet(1 .. Len(S)) /\ Cardinality(1 .. Len(S)) = Len(S)
  <2>1. 1 \in Int /\ Len(S) \in Int
    BY <1>1
  <2>2. IsFiniteSet(1 .. Len(S)) /\ Cardinality(1 .. Len(S)) = IF 1 > Len(S) THEN 0 ELSE Len(S) - 1 + 1
    BY <2>1, FS_Interval, Zenon
  <2>3. Len(S) - 1 + 1 = Len(S) /\ ~(1 > Len(S))
    BY <1>1
  <2> QED BY <2>2, <2>3
<1>3. Below(S, d, v) \subseteq 1 .. Len(S) /\ UpTo(S, d, v) \subseteq 1 .. Len(S)
  BY <1>1 DEF Below, UpTo
<1>4. IsFiniteSet(Below(S, d, v)) /\ IsFiniteSet(UpTo(S, d, v))
  BY <1>2, <1>3, FS_Subset
<1> QED
  BY <1>2, <1>4, FS_CardinalityType

\* Below an order statistic are at most as many samples as its place, and up to
\* it more than these: the number that the sorted column has there.
LEMMA RankedIs ==
    ASSUME NEW S, Samples(S), NEW d \in Dims, NEW k \in Nat, k < Len(S)
    PROVE  /\ Ranked(S, d, k) \in Int
           /\ \E i \in 1 .. Len(S) : Ranked(S, d, k) = S[i][d]
           /\ Cardinality(Below(S, d, Ranked(S, d, k))) <= k
           /\ Cardinality(UpTo(S, d, Ranked(S, d, k))) > k
<1> DEFINE f == Column(S, d)
           n == Len(S)
           I == {i \in 1 .. n : Cardinality(UpTo(S, d, S[i][d])) > k}
<1>1. /\ n \in Nat \ {0} /\ DOMAIN S = 1 .. n /\ f \in [1 .. n -> Int]
      /\ \A i \in 1 .. n : f[i] = S[i][d] /\ S[i][d] \in Int
      /\ ToSet(f) = {S[i][d] : i \in 1 .. n}
  BY ColumnIs
<1>2. I # {}
  <2>1. PICK i \in 1 .. n : Hi(S, d) = S[i][d]
    BY HiIs
  <2>2. \A j \in 1 .. n : S[j][d] <= S[i][d]
    BY <2>1, HiIs, Zenon
  <2>3. UpTo(S, d, S[i][d]) = 1 .. n
    BY <1>1, <2>2, Zenon DEF UpTo
  <2>4. Cardinality(UpTo(S, d, S[i][d])) = n
    BY <2>3, SidesAreFinite
  <2>5. Cardinality(UpTo(S, d, S[i][d])) > k
    BY <2>4, <1>1
  <2> QED BY <2>5
<1>3. PICK i \in I : \A j \in I : f[i] <= f[j]
  <2>1. n \in Nat /\ I \in SUBSET (1 .. n)
    BY <1>1
  <2> HIDE DEF I, n, f
  <2> QED BY <1>1, <1>2, <2>1, LeastIs, Zenon
<1>4. i \in 1 .. n /\ Cardinality(UpTo(S, d, S[i][d])) > k
  OBVIOUS
<1>5. Cardinality(Below(S, d, S[i][d])) <= k
  <2> DEFINE J == Below(S, d, S[i][d])
  <2>1. Cardinality(J) \in Nat /\ IsFiniteSet(J)
    BY SidesAreFinite
  <2>0. PICK c \in Nat : c = Cardinality(J)
    BY <2>1, Zenon
  <2>11. c > k \/ c <= k
    OBVIOUS
  <2>2. SUFFICES ASSUME c > k PROVE FALSE
    BY <2>0, <2>11, Zenon
  <2>3. J # {}
    <3>1. Cardinality({}) = 0
      BY FS_EmptySet
    <3>2. c # 0
      BY <2>2
    <3> HIDE DEF J
    <3> QED BY <2>0, <3>1, <3>2, Zenon
  <2>4. J \in SUBSET (1 .. n)
    BY <1>1 DEF Below
  <2>5. PICK j \in J : \A m \in J : f[j] >= f[m]
    <3> HIDE DEF J, f, n
    <3> QED BY <1>1, <2>3, <2>4, GreatestIs, n \in Nat
  <2>6. j \in 1 .. n /\ S[j][d] < S[i][d]
    BY <2>4 DEF Below
  <2>7. J \subseteq UpTo(S, d, S[j][d])
    <3> SUFFICES ASSUME NEW m \in J PROVE m \in UpTo(S, d, S[j][d])
      OBVIOUS
    <3>1. m \in 1 .. n /\ f[j] >= f[m]
      BY <2>4, <2>5
    <3>2. S[m][d] <= S[j][d]
      BY <1>1, <2>6, <3>1
    <3> QED BY <1>1, <3>1, <3>2 DEF UpTo
  <2>8. Cardinality(J) <= Cardinality(UpTo(S, d, S[j][d])) /\ Cardinality(UpTo(S, d, S[j][d])) \in Nat
    <3> HIDE DEF J
    <3> QED BY <2>7, SidesAreFinite, FS_Subset
  <2>9. Cardinality(UpTo(S, d, S[j][d])) > k
    <3>1. PICK e \in Nat : e = Cardinality(UpTo(S, d, S[j][d])) /\ c <= e
      BY <2>0, <2>8, Zenon
    <3>2. e > k
      BY <2>2, <3>1
    <3> QED BY <3>1, <3>2, Zenon
  <2>10. f[i] <= f[j]
    BY <1>3, <2>6, <2>9
  <2> QED BY <1>1, <1>4, <2>6, <2>10
<1>6. Ranked(S, d, k) \in ToSet(f) /\ Cardinality(Below(S, d, Ranked(S, d, k))) <= k
         /\ Cardinality(UpTo(S, d, Ranked(S, d, k))) > k
  <2>1. \E v \in ToSet(f) : Cardinality(Below(S, d, v)) <= k /\ Cardinality(UpTo(S, d, v)) > k
    BY <1>1, <1>4, <1>5
  <2>2. \E v \in ToSet(f) : /\ Cardinality({m \in DOMAIN S : S[m][d] < v}) <= k
                            /\ Cardinality({m \in DOMAIN S : S[m][d] <= v}) > k
    BY <2>1, Zenon DEF Below, UpTo
  <2> QED BY <2>2, Zenon DEF Ranked, Below, UpTo
<1> QED
  BY <1>1, <1>6, Zenon

\* Whole bytes, when w divides 8.
LEMMA PackedWhole ==
    ASSUME NEW w \in 1 .. 8, NEW m \in Nat, w * m = 8, 8 % w = 0, NEW q \in [Dims -> 0 .. 255],
           \A d \in Dims : q[d] < Pow2(w)
    PROVE  /\ Pack(q, w) \in [1 .. BytesPerVector(w) -> 0 .. 255]
           /\ Reads(Pack(q, w), q, w, Dim)
<1>1. Pack(q, w) = PackWhole(q, w)
  BY Zenon DEF Pack
<1>2. /\ PackWhole(q, w) \in [1 .. BytesPerVector(w) -> 0 .. 255]
      /\ Reads(PackWhole(q, w), q, w, Dim)
  BY PackWholeReads, Zenon
<1> QED
  BY <1>1, <1>2, Zenon

\* Numbers of w bits, packed, are as many bytes as bytes_per_vector, and each can
\* be read again, whatever lies behind them.
LEMMA PackReads ==
    ASSUME NEW w \in {1, 2, 3, 4, 5, 6, 8}, NEW q \in [Dims -> 0 .. 255],
           \A d \in Dims : q[d] < Pow2(w)
    PROVE  /\ Pack(q, w) \in [1 .. BytesPerVector(w) -> 0 .. 255]
           /\ Reads(Pack(q, w), q, w, Dim)
<1>1. w \in 1 .. 8 /\ Dim \in Nat
  BY DimAssumption
<1>3. CASE w = 1
  <2>1. 1 * 8 = 8 /\ 8 % 1 = 0 /\ 8 \in Nat /\ 1 \in 1 .. 8
    OBVIOUS
  <2>2. \A d \in Dims : q[d] < Pow2(1)
    BY <1>3
  <2>3. /\ Pack(q, 1) \in [1 .. BytesPerVector(1) -> 0 .. 255]
        /\ Reads(Pack(q, 1), q, 1, Dim)
    BY <2>1, <2>2, PackedWhole, Zenon
  <2> QED BY <1>3, <2>3
<1>4. CASE w = 2
  <2>1. 2 * 4 = 8 /\ 8 % 2 = 0 /\ 4 \in Nat /\ 2 \in 1 .. 8
    OBVIOUS
  <2>2. \A d \in Dims : q[d] < Pow2(2)
    BY <1>4
  <2>3. /\ Pack(q, 2) \in [1 .. BytesPerVector(2) -> 0 .. 255]
        /\ Reads(Pack(q, 2), q, 2, Dim)
    BY <2>1, <2>2, PackedWhole, Zenon
  <2> QED BY <1>4, <2>3
<1>5. CASE w = 4
  <2>1. 4 * 2 = 8 /\ 8 % 4 = 0 /\ 2 \in Nat /\ 4 \in 1 .. 8
    OBVIOUS
  <2>2. \A d \in Dims : q[d] < Pow2(4)
    BY <1>5
  <2>3. /\ Pack(q, 4) \in [1 .. BytesPerVector(4) -> 0 .. 255]
        /\ Reads(Pack(q, 4), q, 4, Dim)
    BY <2>1, <2>2, PackedWhole, Zenon
  <2> QED BY <1>5, <2>3
<1>6. CASE w = 8
  <2>1. 8 * 1 = 8 /\ 8 % 8 = 0 /\ 1 \in Nat /\ 8 \in 1 .. 8
    OBVIOUS
  <2>2. \A d \in Dims : q[d] < Pow2(8)
    BY <1>6
  <2>3. /\ Pack(q, 8) \in [1 .. BytesPerVector(8) -> 0 .. 255]
        /\ Reads(Pack(q, 8), q, 8, Dim)
    BY <2>1, <2>2, PackedWhole, Zenon
  <2> QED BY <1>6, <2>3
<1>7. CASE w \in {3, 5, 6}
  <2>1. 8 % w # 0
    BY <1>7
  <2>2. Pack(q, w) = PackCarry(q, w)
    BY <2>1, Zenon DEF Pack
  <2>3. q \in [1 .. Dim -> 0 .. 255] /\ \A d \in 1 .. Dim : q[d] < Pow2(w)
    BY DEF Dims
  <2>4. /\ PackCarry(q, w) \in Seq(0 .. 255)
        /\ Len(PackCarry(q, w)) = ((Dim * w) + 7) \div 8
        /\ Reads(PackCarry(q, w), q, w, Dim)
    BY <1>1, <2>3, PackCarryReads, Zenon
  <2>5. Len(PackCarry(q, w)) = BytesPerVector(w)
    BY <2>4 DEF BytesPerVector
  <2>6. PackCarry(q, w) \in [1 .. Len(PackCarry(q, w)) -> 0 .. 255]
    BY <2>4, LenProperties, ZenonT(40)
  <2> QED BY <2>2, <2>4, <2>5, <2>6, ZenonT(40)
<1> QED
  BY <1>3, <1>4, <1>5, <1>6, <1>7

-----------------------------------------------------------------------------
(* Types. *)

\* What each type has.
LEMMA BitsAre ==
    /\ BitsPerElement("BIN1") = 1 /\ BitsPerElement("INT2") = 2 /\ BitsPerElement("INT3") = 3
    /\ BitsPerElement("INT4") = 4 /\ BitsPerElement("INT5") = 5 /\ BitsPerElement("INT6") = 6
    /\ BitsPerElement("INT8") = 8 /\ BitsPerElement("INT158") = 2
  BY DEF BitsPerElement

\* The number of bits of each type is one of seven.
LEMMA BitsType ==
    ASSUME NEW type \in PassTypes \union TrainedTypes
    PROVE  BitsPerElement(type) \in {1, 2, 3, 4, 5, 6, 8}
  BY BitsAre DEF PassTypes, TrainedTypes

\* A space has one of the metrics, and in each mode one of its types.
LEMMA SpaceIs ==
    ASSUME space \in Spaces
    PROVE  /\ space.metric \in {"L2", "IP"}
           /\ space.type \in PassTypes \union TrainedTypes
           /\ space.mode = "PASS" => space.type \in PassTypes
           /\ space.mode # "PASS" => space.mode \in {"STANDARD", "CENTROID"} /\ space.type \in TrainedTypes
<1>1. space \in AllSpaces
  BY SpacesAssumption
<1>2. CASE space \in [metric : {"L2", "IP"}, mode : {"PASS"}, type : PassTypes]
  BY <1>2
<1>3. CASE space \in [metric : {"L2", "IP"}, mode : {"STANDARD", "CENTROID"}, type : TrainedTypes]
  BY <1>3
<1> QED
  BY <1>1, <1>2, <1>3 DEF AllSpaces

\* Clamp stays between its bounds.
LEMMA ClampType ==
    ASSUME NEW v \in Int, NEW low \in Int, NEW high \in Int, low <= high
    PROVE  Clamp(v, low, high) \in low .. high
  BY DEF Clamp

\* Round gives an integer.
LEMMA RoundType == ASSUME NEW n \in Int, NEW d \in Nat \ {0} PROVE Round(n, d) \in Int
<1>1. Abs(n) \in Nat
  BY DEF Abs
<1>2. 2 * d \in Nat \ {0} /\ (2 * n) + d \in Int /\ (2 * Abs(n)) + d \in Int
  BY <1>1
<1>3. ((2 * n) + d) \div (2 * d) \in Int /\ ((2 * Abs(n)) + d) \div (2 * d) \in Int
  BY <1>2, Divided, Zenon
<1> QED
  BY <1>3 DEF Round

\* Nibble gives four bits.
LEMMA NibbleType == ASSUME NEW v \in Int PROVE Nibble(v) \in 0 .. 15
<1>1. Round(v * 64, Unit) \in Int
  BY RoundType DEF Unit
<1>2. PICK x \in 0 .. 255 : x = Round(v * 64, Unit) % 256
  BY <1>1
<1>3. Signed(x, 8) \in Int
  BY Powers DEF Signed
<1>4. Clamp(Signed(x, 8), -8, 7) \in -8 .. 7
  <2>1. -8 \in Int /\ 7 \in Int /\ -8 <= 7
    OBVIOUS
  <2> QED BY <1>3, <2>1, ClampType, Zenon
<1> QED
  BY <1>2, <1>4 DEF Nibble

\* What passes through are numbers of as many bits as the type has.
LEMMA PassCodeType ==
    ASSUME NEW v \in Int, NEW type \in PassTypes
    PROVE  PassCode(v, type) \in 0 .. 255 /\ PassCode(v, type) < Pow2(BitsPerElement(type))
<1>1. CASE type = "BIN1"
  BY <1>1, BitsAre, Powers DEF PassCode
<1>2. CASE type = "INT4"
  <2>1. PassCode(v, type) = Nibble(v)
    BY <1>2 DEF PassCode
  <2>2. Nibble(v) \in 0 .. 15
    BY NibbleType
  <2> QED BY <1>2, <2>1, <2>2, BitsAre, Powers
<1>3. CASE type # "BIN1" /\ type # "INT4"
  <2>1. PassCode(v, type) = Clamp(Round(v, Unit), 0, Pow2(BitsPerElement(type)) - 1)
    BY <1>3 DEF PassCode
  <2>2. Round(v, Unit) \in Int
    BY RoundType DEF Unit
  <2>3. Pow2(BitsPerElement(type)) \in 1 .. 256
    <3>1. BitsPerElement(type) \in 0 .. 8
      BY BitsType
    <3> QED BY <3>1, PowerType
  <2>4. PICK P \in 1 .. 256 : P = Pow2(BitsPerElement(type))
    BY <2>3, Zenon
  <2>5. Clamp(Round(v, Unit), 0, P - 1) \in 0 .. P - 1
    <3>1. 0 \in Int /\ P - 1 \in Int /\ 0 <= P - 1
      OBVIOUS
    <3> QED BY <2>2, <3>1, ClampType, Zenon
  <2> QED BY <2>1, <2>4, <2>5
<1> QED
  BY <1>1, <1>2, <1>3

\* NearbyInt gives an integer.
LEMMA NearbyIntType == ASSUME NEW n \in Int, NEW d \in Nat \ {0} PROVE NearbyInt(n, d) \in Int
<1>1. n \div d \in Int
  BY Divided, Zenon
<1> QED
  BY <1>1 DEF NearbyInt

\* There are 16 or 256 levels, counted from 0.
LEMMA LevelsAre == \A type : Levels(type) \in {15, 255}
  BY DEF Levels

\* The parameters of one dimension, and of all.
GoodBounds(p) ==
    /\ p \in [low : Int, high : Int, offset2 : Nat, den : Nat \ {0}]
    /\ Linear(space.type) => p.high > p.low
GoodParams(ps) == ps \in Params /\ \A d \in Dims : GoodBounds(ps[d])

\* LinearCode gives one of the levels.
LEMMA LinearCodeType ==
    ASSUME NEW v \in Int, NEW p, GoodBounds(p), Linear(space.type)
    PROVE  LinearCode(v, p) \in 0 .. Levels(space.type)
<1>1. p.low \in Int /\ p.high \in Int /\ p.den \in Int /\ p.high - p.low \in Nat \ {0}
  BY DEF GoodBounds
<1>2. PICK L \in Nat : L = Levels(space.type)
  BY LevelsAre
<1>3. (((v * p.den) - p.low) * L) \in Int
  BY <1>1
<1>4. NearbyInt(((v * p.den) - p.low) * L, p.high - p.low) \in Int
  BY <1>1, <1>3, NearbyIntType, Zenon
<1>5. PICK N \in Int : N = NearbyInt(((v * p.den) - p.low) * L, p.high - p.low)
  BY <1>4, Zenon
<1>6. LinearCode(v, p) = Clamp(N, 0, L)
  BY <1>2, <1>5, Zenon DEF LinearCode
<1>7. Clamp(N, 0, L) \in 0 .. L
  BY ClampType
<1> QED
  BY <1>2, <1>6, <1>7, Zenon

\* Trained codes have as many bits as the type.
LEMMA TrainedCodeType ==
    ASSUME NEW v \in Int, NEW p, GoodBounds(p), space.type \in TrainedTypes
    PROVE  TrainedCode(v, p) \in 0 .. 255 /\ TrainedCode(v, p) < Pow2(BitsPerElement(space.type))
<1>1. CASE space.type = "BIN1"
  <2>1. BinCode(v, p) \in {0, 1} /\ BinCodeIP(v, p) \in {0, 1}
    BY DEF BinCode, BinCodeIP
  <2>2. TrainedCode(v, p) \in {0, 1}
    BY <1>1, <2>1 DEF TrainedCode
  <2> QED BY <1>1, <2>2, BitsAre, Powers
<1>2. CASE space.type = "INT158"
  <2>1. TernaryCode(v, p) \in {0, 1, 2}
    BY DEF TernaryCode
  <2>2. TrainedCode(v, p) \in {0, 1, 2}
    BY <1>2, <2>1 DEF TrainedCode
  <2> QED BY <1>2, <2>2, BitsAre, Powers
<1>3. CASE space.type \in {"INT4", "INT8"}
  <2>1. TrainedCode(v, p) = LinearCode(v, p)
    BY <1>3 DEF TrainedCode
  <2>2. LinearCode(v, p) \in 0 .. Levels(space.type)
    BY <1>3, LinearCodeType DEF Linear
  <2>3. CASE space.type = "INT4"
    BY <2>1, <2>2, <2>3, BitsAre, Powers DEF Levels
  <2>4. CASE space.type = "INT8"
    BY <2>1, <2>2, <2>4, BitsAre, Powers DEF Levels
  <2> QED BY <1>3, <2>3, <2>4
<1> QED
  BY <1>1, <1>2, <1>3 DEF TrainedTypes

\* The number that stands for a component.
CodeOf(vec, ps, d) == IF space.mode = "PASS" THEN PassCode(vec[d], space.type) ELSE TrainedCode(vec[d], ps[d])

\* It has as many bits as the type.
LEMMA CodeOfType ==
    ASSUME space \in Spaces, NEW vec \in [Dims -> Int], NEW ps, GoodParams(ps), NEW d \in Dims
    PROVE  CodeOf(vec, ps, d) \in 0 .. 255 /\ CodeOf(vec, ps, d) < Pow2(BitsPerElement(space.type))
<1>1. vec[d] \in Int /\ GoodBounds(ps[d])
  BY DEF GoodParams
<1>2. CASE space.mode = "PASS"
  BY <1>1, <1>2, SpaceIs, PassCodeType, ZenonT(40) DEF CodeOf
<1>3. CASE space.mode # "PASS"
  BY <1>1, <1>3, SpaceIs, TrainedCodeType, Zenon DEF CodeOf
<1> QED
  BY <1>2, <1>3

\* A quantised vector is bytes, and each of its numbers can be read.
LEMMA QuantizeReads ==
    ASSUME space \in Spaces, NEW vec \in [Dims -> Int], NEW ps, GoodParams(ps)
    PROVE  /\ Quantize(vec, ps) \in Codes
           /\ \A d \in Dims : \A rest :
                 Field(Quantize(vec, ps), BitsPerElement(space.type), d, rest) = CodeOf(vec, ps, d)
<1> DEFINE q == [d \in Dims |-> CodeOf(vec, ps, d)]
<1>1. PICK w \in {1, 2, 3, 4, 5, 6, 8} : w = BitsPerElement(space.type)
  BY SpaceIs, BitsType, Zenon
<1>2. q \in [Dims -> 0 .. 255] /\ \A d \in Dims : q[d] < Pow2(w)
  BY <1>1, CodeOfType
<1>3. Quantize(vec, ps) = Pack(q, w)
  BY <1>1 DEF Quantize, CodeOf
<1>4. \A d \in Dims : q[d] = CodeOf(vec, ps, d)
  OBVIOUS
<1> HIDE DEF q
<1>5. /\ Pack(q, w) \in [1 .. BytesPerVector(w) -> 0 .. 255]
      /\ Reads(Pack(q, w), q, w, Dim)
  BY <1>2, PackReads, Zenon
<1>6. \A d \in Dims : \A rest : Field(Pack(q, w), w, d, rest) = q[d]
  BY <1>5, Zenon DEF Reads, Dims
<1> QED
  BY <1>1, <1>3, <1>4, <1>5, <1>6, Zenon DEF Codes

-----------------------------------------------------------------------------
(* Training. *)

\* What fit is given are samples.
LEMMA SamplesAre == ASSUME NEW S \in SampleSets PROVE Samples(S) /\ S # Absent
  BY SamplesAssumption DEF Samples, Absent, Dims

\* A scale is never 0.
LEMMA SpanIs ==
    ASSUME NEW range \in Nat, NEW den \in Nat \ {0}
    PROVE  /\ Span(range, den) \in Nat \ {0}
           /\ range # 0 => Span(range, den) = range
           /\ range = 0 => Span(range, den) = (Levels(space.type) * Unit) * den
<1>1. PICK L \in {15, 255} : L = Levels(space.type)
  BY LevelsAre
<1>2. (L * 16) * den \in Nat \ {0}
  <2>1. (15 * 16) * den >= 1 /\ (255 * 16) * den >= 1
    OBVIOUS
  <2> QED BY <2>1
<1> QED
  BY <1>1, <1>2 DEF Span, Unit

\* The places of the percentiles.
LEMMA PlacesAre ==
    ASSUME NEW n \in Nat \ {0}
    PROVE  n \div 2 \in Nat /\ n \div 2 < n /\ n \div 3 \in Nat /\ n \div 3 < n
           /\ (2 * n) \div 3 \in Nat /\ (2 * n) \div 3 < n
  OBVIOUS

BoundsOk(p) == p \in [low : Int, high : Int, offset2 : Nat, den : Nat \ {0}]

\* Bounds has the type of parameters, and the fields it was given.
LEMMA BoundsType ==
    ASSUME NEW low \in Int, NEW high \in Int, NEW offset2 \in Nat, NEW den \in Nat \ {0}
    PROVE  /\ BoundsOk(Bounds(low, high, offset2, den))
           /\ Bounds(low, high, offset2, den).low = low /\ Bounds(low, high, offset2, den).high = high
           /\ Bounds(low, high, offset2, den).offset2 = offset2 /\ Bounds(low, high, offset2, den).den = den
  BY DEF Bounds, BoundsOk

\* It is good when the lower bound is below the upper one, or need not be.
LEMMA GoodIs ==
    ASSUME NEW low \in Int, NEW high \in Int, NEW offset2 \in Nat, NEW den \in Nat \ {0},
           ~Linear(space.type) \/ high > low
    PROVE  GoodBounds(Bounds(low, high, offset2, den))
<1> DEFINE b == Bounds(low, high, offset2, den)
<1>1. BoundsOk(b) /\ b.low = low /\ b.high = high
  BY DEF Bounds, BoundsOk
<1> HIDE DEF b
<1>2. GoodBounds(b)
  BY <1>1, Zenon DEF GoodBounds, BoundsOk
<1> QED
  BY <1>2, Zenon DEF b

\* What is spread to each side of the mean.
RangeOf(S, d) ==
    IF space.mode = "CENTROID" THEN 4 * Furthest(S, d) ELSE 2 * Len(S) * (Hi(S, d) - Lo(S, d))
Half(S, d) == Span(RangeOf(S, d), 2 * Len(S)) \div 2

\* Half is positive, and half of the range when there is one.
LEMMA HalfIs ==
    ASSUME NEW S, Samples(S), NEW d \in Dims
    PROVE  /\ Half(S, d) \in Nat \ {0}
           /\ RangeOf(S, d) \in Nat
           /\ RangeOf(S, d) # 0 => 2 * Half(S, d) = RangeOf(S, d)
<1>1. Len(S) \in Nat \ {0} /\ Furthest(S, d) \in Nat /\ Lo(S, d) \in Int /\ Hi(S, d) \in Int
  BY ColumnIs, FurthestIs, LoIs, HiIs
<1>2. Hi(S, d) - Lo(S, d) \in Nat
  <2>1. PICK i \in 1 .. Len(S) : Lo(S, d) = S[i][d]
    BY LoIs
  <2>2. Lo(S, d) <= Hi(S, d)
    BY <2>1, HiIs
  <2> QED BY <1>1, <2>2
<1>3. PICK n \in Nat \ {0}, f \in Nat, g \in Nat : n = Len(S) /\ f = Furthest(S, d) /\ g = Hi(S, d) - Lo(S, d)
  BY <1>1, <1>2
<1>4. PICK x \in Nat : RangeOf(S, d) = 2 * x
  <2>1. n * g \in Nat /\ (2 * n) * g = 2 * (n * g) /\ 4 * f = 2 * (2 * f)
    OBVIOUS
  <2>2. RangeOf(S, d) = IF space.mode = "CENTROID" THEN 4 * f ELSE (2 * n) * g
    BY <1>3, Zenon DEF RangeOf
  <2>3. CASE space.mode = "CENTROID"
    BY <2>1, <2>2, <2>3
  <2>4. CASE space.mode # "CENTROID"
    BY <2>1, <2>2, <2>4
  <2> QED BY <2>3, <2>4
<1>5. PICK L \in {15, 255} : L = Levels(space.type)
  BY LevelsAre
<1>6. PICK y \in Nat \ {0} : Span(2 * x, 2 * n) = 2 * y /\ (x # 0 => y = x)
  <2>1. CASE x # 0
    <3>1. Span(2 * x, 2 * n) = 2 * x
      BY <2>1, SpanIs
    <3> QED BY <2>1, <3>1
  <2>2. CASE x = 0
    <3>1. Span(2 * x, 2 * n) = (L * 16) * (2 * n)
      BY <1>5, <2>2, SpanIs DEF Unit
    <3>2. (L * 16) * (2 * n) = 2 * ((L * 16) * n) /\ (L * 16) * n \in Nat \ {0}
      OBVIOUS
    <3> QED BY <2>2, <3>1, <3>2
  <2> QED BY <2>1, <2>2
<1>7. (2 * y) \div 2 = y
  OBVIOUS
<1>8. Half(S, d) = y
  BY <1>3, <1>4, <1>6, <1>7, Zenon DEF Half
<1>9. 2 * x # 0 => x # 0
  OBVIOUS
<1> QED
  BY <1>4, <1>6, <1>8, <1>9

\* ComputeScaleOffset, by Half.
LEMMA ScaleOffsetIs ==
    ASSUME NEW S, Samples(S), NEW d \in Dims
    PROVE  ComputeScaleOffset(S)[d] = Bounds(2 * Total(S, d) - Half(S, d), 2 * Total(S, d) + Half(S, d),
                                             Levels(space.type), 2 * Len(S))
  BY Zenon DEF ComputeScaleOffset, Half, RangeOf

\* The thresholds of BIN1 and INT158 are good bounds.
LEMMA ThresholdsGood ==
    ASSUME NEW S, Samples(S), NEW d \in Dims, ~Linear(space.type)
    PROVE  /\ GoodBounds(ComputeThresholds(S)[d])
           /\ GoodBounds(ComputeMean(S)[d])
           /\ GoodBounds(ComputeTernaryThresholds(S)[d])
           /\ GoodBounds(ComputeTernaryThresholdsFromCentroid(S)[d])
<1>1. Len(S) \in Nat \ {0} /\ Total(S, d) \in Int /\ 0 \in Nat /\ 1 \in Nat \ {0}
  BY ColumnIs, TotalIs
<1>2. /\ Len(S) \div 2 \in Nat /\ Len(S) \div 2 < Len(S) /\ Len(S) \div 3 \in Nat /\ Len(S) \div 3 < Len(S)
      /\ (2 * Len(S)) \div 3 \in Nat /\ (2 * Len(S)) \div 3 < Len(S)
  BY <1>1, PlacesAre
<1>3. /\ Ranked(S, d, Len(S) \div 2) \in Int /\ Ranked(S, d, Len(S) \div 3) \in Int
      /\ Ranked(S, d, (2 * Len(S)) \div 3) \in Int
  BY <1>2, RankedIs, Zenon
<1>4. GoodBounds(ComputeThresholds(S)[d])
  <2>1. ComputeThresholds(S)[d] = Bounds(Ranked(S, d, Len(S) \div 2), Ranked(S, d, Len(S) \div 2), 0, 1)
    BY Zenon DEF ComputeThresholds
  <2> QED BY <1>1, <1>3, <2>1, GoodIs, Zenon
<1>5. GoodBounds(ComputeMean(S)[d])
  <2>1. ComputeMean(S)[d] = Bounds(Total(S, d), Total(S, d), 0, Len(S))
    BY Zenon DEF ComputeMean
  <2> QED BY <1>1, <2>1, GoodIs, Zenon
<1>6. GoodBounds(ComputeTernaryThresholds(S)[d])
  <2>1. ComputeTernaryThresholds(S)[d] =
           Bounds(Ranked(S, d, Len(S) \div 3), Ranked(S, d, (2 * Len(S)) \div 3), 0, 1)
    BY Zenon DEF ComputeTernaryThresholds
  <2> QED BY <1>1, <1>3, <2>1, GoodIs, Zenon
<1>7. GoodBounds(ComputeTernaryThresholdsFromCentroid(S)[d])
  <2>1. PICK n \in Nat \ {0}, c \in Int : n = Len(S) /\ c = 10 * Total(S, d)
    BY <1>1
  <2>2. PICK from \in Int : from = IF space.metric = "L2" THEN 0 ELSE c
    OBVIOUS
  <2>3. PICK offset \in Int : offset = IF c = from THEN Unit * n ELSE Abs(c - from) \div 2
    <3>1. Abs(c - from) \in Int
      BY DEF Abs
    <3>2. Abs(c - from) \div 2 \in Int
      BY <3>1
    <3> QED BY <3>2 DEF Unit
  <2>4. ComputeTernaryThresholdsFromCentroid(S)[d] = Bounds(c - offset, c + offset, 0, 10 * n)
    BY <2>1, <2>2, <2>3, Zenon DEF ComputeTernaryThresholdsFromCentroid
  <2>5. c - offset \in Int /\ c + offset \in Int /\ 10 * n \in Nat \ {0}
    OBVIOUS
  <2> QED BY <1>1, <2>4, <2>5, GoodIs, ZenonT(40)
<1> QED
  BY <1>4, <1>5, <1>6, <1>7

\* The scales of linear codes are good bounds.
LEMMA ScalesGood ==
    ASSUME NEW S, Samples(S), NEW d \in Dims
    PROVE  /\ GoodBounds(ComputeScaleMin(S)[d])
           /\ GoodBounds(ComputeScaleMinFromCentroid(S)[d])
           /\ GoodBounds(ComputeScaleOffset(S)[d])
<1>1. /\ Len(S) \in Nat \ {0} /\ Total(S, d) \in Int /\ Furthest(S, d) \in Nat
      /\ Lo(S, d) \in Int /\ Hi(S, d) \in Int /\ 0 \in Nat /\ 1 \in Nat \ {0}
  BY ColumnIs, TotalIs, FurthestIs, LoIs, HiIs
<1>2. Hi(S, d) - Lo(S, d) \in Nat
  <2>1. PICK i \in 1 .. Len(S) : Lo(S, d) = S[i][d]
    BY LoIs
  <2>2. Lo(S, d) <= Hi(S, d)
    BY <2>1, HiIs
  <2> QED BY <1>1, <2>2
<1>3. GoodBounds(ComputeScaleMin(S)[d])
  <2>1. PICK s \in Nat \ {0} : s = Span(Hi(S, d) - Lo(S, d), 1)
    BY <1>1, <1>2, SpanIs, Zenon
  <2>2. ComputeScaleMin(S)[d] = Bounds(Lo(S, d), Lo(S, d) + s, 0, 1)
    BY <2>1, Zenon DEF ComputeScaleMin
  <2>3. Lo(S, d) + s \in Int /\ Lo(S, d) + s > Lo(S, d)
    BY <1>1
  <2> QED BY <1>1, <2>2, <2>3, GoodIs, Zenon
<1>4. GoodBounds(ComputeScaleMinFromCentroid(S)[d])
  <2>1. 2 * Furthest(S, d) \in Nat
    BY <1>1
  <2>2. PICK s \in Nat \ {0} : s = Span(2 * Furthest(S, d), Len(S))
    BY <1>1, <2>1, SpanIs, Zenon
  <2>3. PICK low \in Int : low = Total(S, d) - Furthest(S, d)
    BY <1>1
  <2>4. ComputeScaleMinFromCentroid(S)[d] = Bounds(low, low + s, 0, Len(S))
    BY <2>2, <2>3, Zenon DEF ComputeScaleMinFromCentroid
  <2>5. low + s \in Int /\ low + s > low
    OBVIOUS
  <2> QED BY <1>1, <2>4, <2>5, GoodIs, Zenon
<1>5. GoodBounds(ComputeScaleOffset(S)[d])
  <2>1. PICK half \in Nat \ {0} : half = Half(S, d)
    BY HalfIs, Zenon
  <2>2. PICK t \in Int, n \in Nat \ {0} : t = 2 * Total(S, d) /\ n = 2 * Len(S)
    BY <1>1
  <2>3. ComputeScaleOffset(S)[d] = Bounds(t - half, t + half, Levels(space.type), n)
    BY <2>1, <2>2, ScaleOffsetIs, Zenon
  <2>4. t - half \in Int /\ t + half \in Int /\ t + half > t - half
    OBVIOUS
  <2>5. Levels(space.type) \in Nat
    BY LevelsAre
  <2> QED BY <2>3, <2>4, <2>5, GoodIs, Zenon
<1> QED
  BY <1>3, <1>4, <1>5

\* space_->train
Train(S) == IF space.metric = "L2" THEN TrainL2(S) ELSE TrainIP(S)

\* Training gives bounds, the lower one of linear codes below the upper one.
LEMMA TrainGood ==
    ASSUME space \in Spaces, space.mode # "PASS", NEW S, Samples(S)
    PROVE  GoodParams(Train(S))
<1>1. space.metric \in {"L2", "IP"} /\ space.type \in TrainedTypes
  BY SpaceIs
<1>2. CASE ~Linear(space.type)
  <2>1. Train(S) \in {ComputeThresholds(S), ComputeMean(S), ComputeTernaryThresholds(S),
                      ComputeTernaryThresholdsFromCentroid(S)}
    BY <1>1, <1>2 DEF Train, TrainL2, TrainIP, TrainTernary, Linear, TrainedTypes
  <2>2. DOMAIN Train(S) = Dims /\ Train(S) = [d \in Dims |-> Train(S)[d]]
    BY <2>1 DEF ComputeThresholds, ComputeMean, ComputeTernaryThresholds, ComputeTernaryThresholdsFromCentroid
  <2>3. \A d \in Dims : GoodBounds(Train(S)[d])
    BY <1>2, <2>1, ThresholdsGood
  <2> QED BY <2>2, <2>3 DEF GoodParams, Params, GoodBounds
<1>3. CASE Linear(space.type)
  <2>1. Train(S) \in {ComputeScaleMin(S), ComputeScaleMinFromCentroid(S), ComputeScaleOffset(S)}
    BY <1>1, <1>3 DEF Train, TrainL2, TrainIP, TrainTernary, Linear, TrainedTypes
  <2>2. DOMAIN Train(S) = Dims /\ Train(S) = [d \in Dims |-> Train(S)[d]]
    BY <2>1 DEF ComputeScaleMin, ComputeScaleMinFromCentroid, ComputeScaleOffset
  <2>3. \A d \in Dims : GoodBounds(Train(S)[d])
    BY <2>1, ScalesGood
  <2> QED BY <2>2, <2>3 DEF GoodParams, Params, GoodBounds
<1> QED
  BY <1>2, <1>3

\* The parameters of a new space are good.
LEMMA DefaultGood == GoodParams(DefaultParams)
<1>1. Span(0, 1) \in Nat \ {0}
  BY SpanIs
<1>2. ASSUME NEW d \in Dims PROVE GoodBounds(DefaultParams[d])
  <2>1. PICK s \in Nat \ {0} : s = Span(0, 1)
    BY <1>1
  <2>2. DefaultParams[d] = IF Linear(space.type) THEN Bounds(0, s, 0, 1) ELSE Bounds(0, 0, 0, 1)
    BY <2>1 DEF DefaultParams
  <2>3. s > 0 /\ 0 \in Int /\ s \in Int /\ 0 \in Nat /\ 1 \in Nat \ {0}
    OBVIOUS
  <2> QED BY <2>2, <2>3, GoodIs, Zenon
<1>3. DefaultParams = [d \in Dims |-> DefaultParams[d]]
  BY DEF DefaultParams
<1> QED
  BY <1>2, <1>3 DEF GoodParams, Params, GoodBounds

-----------------------------------------------------------------------------
(* The inductive invariant.                                                *)

\* Parameters come from the samples next to them, or from nowhere.
Fitted(ps, S) == IF S = Absent THEN ps = DefaultParams ELSE space.mode # "PASS" /\ ps = Train(S)

\* A point has the code that its vector has now, unless other parameters came since.
Coded(point, ps) ==
    (point # Absent /\ (space.mode = "PASS" \/ ~point.refitted)) => point.code = Quantize(point.vec, ps)

QuantInv ==
    /\ QuantTypeOK
    /\ Fitted(params, samples)
    /\ Coded(stored, params)
    /\ indexFile # Absent =>
          /\ Fitted(indexFile.quantization.params, indexFile.quantization.samples)
          /\ Coded(indexFile.stored, indexFile.quantization.params)

\* Parameters that were fitted, or not yet, are good.
LEMMA FittedGood ==
    ASSUME space \in Spaces, NEW ps, NEW S \in SampleSets \union {Absent}, Fitted(ps, S)
    PROVE  GoodParams(ps)
<1>1. CASE S = Absent
  BY <1>1, DefaultGood DEF Fitted
<1>2. CASE S # Absent
  <2>1. Samples(S)
    BY <1>2, SamplesAre
  <2> QED BY <1>2, <2>1, TrainGood, Zenon DEF Fitted
<1> QED
  BY <1>1, <1>2

\* Good parameters are parameters.
LEMMA GoodIsParams == ASSUME NEW ps, GoodParams(ps) PROVE ps \in Params
  BY DEF GoodParams

\* What a step that leaves the space alone leaves alone.
LEMMA SpaceStays ==
    ASSUME space' = space
    PROVE  /\ Codes' = Codes /\ StoredPoints' = StoredPoints /\ DefaultParams' = DefaultParams
           /\ \A S : Train(S)' = Train(S)
           /\ \A vec, ps : Quantize(vec, ps)' = Quantize(vec, ps)
           /\ \A ps, S : Fitted(ps, S)' = Fitted(ps, S)
           /\ \A point, ps : Coded(point, ps)' = Coded(point, ps)
<1>1. Codes' = Codes
  BY DEF Codes, BitsPerElement, BytesPerVector
<1>2. StoredPoints' = StoredPoints
  BY <1>1 DEF StoredPoints
<1>3. DefaultParams' = DefaultParams
  BY DEF DefaultParams, Span, Levels, Linear, Bounds
<1>4. ASSUME NEW S PROVE Train(S)' = Train(S)
  BY DEF Train, TrainL2, TrainIP, TrainTernary, ComputeThresholds, ComputeMean, ComputeTernaryThresholds,
         ComputeTernaryThresholdsFromCentroid, ComputeScaleMin, ComputeScaleMinFromCentroid,
         ComputeScaleOffset, Span, Levels
<1>5. ASSUME NEW vec, NEW ps PROVE Quantize(vec, ps)' = Quantize(vec, ps)
  BY DEF Quantize, TrainedCode, BinCode, BinCodeIP, TernaryCode, LinearCode, Levels
<1>6. ASSUME NEW ps, NEW S PROVE Fitted(ps, S)' = Fitted(ps, S)
  BY <1>3, <1>4, Zenon DEF Fitted
<1>7. ASSUME NEW point, NEW ps PROVE Coded(point, ps)' = Coded(point, ps)
  BY <1>5, Zenon DEF Coded
<1> QED
  BY <1>1, <1>2, <1>3, <1>4, <1>5, <1>6, <1>7, Zenon

\* A new index has the invariant.
LEMMA QuantInitInv == QuantInit => QuantInv
<1> SUFFICES ASSUME QuantInit PROVE QuantInv
  OBVIOUS
<1>1. space \in Spaces /\ params = DefaultParams /\ samples = Absent /\ stored = Absent
      /\ unsaved = FALSE /\ indexFile = Absent
  BY DEF QuantInit
<1>2. params \in Params
  BY <1>1, DefaultGood, GoodIsParams, Zenon
<1>3. QuantTypeOK
  BY <1>1, <1>2, Zenon DEF QuantTypeOK, StoredPoints
<1> QED
  BY <1>1, <1>3, Zenon DEF QuantInv, Fitted, Coded

\* Saved parameters and samples, and files, as QuantTypeOK has them.
Quantizations == [params : Params, samples : SampleSets \union {Absent}]
Files == {Absent} \union [quantization : Quantizations, stored : StoredPoints]

\* What is to be shown of a step, when it leaves the space alone.
Held(p2, s2, t2, d2) ==
    /\ p2 \in Params /\ s2 \in SampleSets \union {Absent} /\ t2 \in StoredPoints
    /\ d2 \in Files
    /\ Fitted(p2, s2) /\ Coded(t2, p2)
    /\ d2 # Absent => /\ Fitted(d2.quantization.params, d2.quantization.samples)
                       /\ Coded(d2.stored, d2.quantization.params)

\* The invariant, by the variables.
LEMMA NowHeld == ASSUME QuantInv PROVE space \in Spaces /\ Held(params, samples, stored, indexFile)
<1>1. QuantTypeOK
  BY DEF QuantInv
<1> QED
  BY <1>1, Zenon DEF QuantInv, QuantTypeOK, Held, Files, Quantizations

\* A step that keeps the space and all of this keeps the invariant.
LEMMA HeldNext ==
    ASSUME space \in Spaces, space' = space, unsaved' \in BOOLEAN,
           NEW p2, NEW s2, NEW t2, NEW d2, Held(p2, s2, t2, d2),
           params' = p2, samples' = s2, stored' = t2, indexFile' = d2
    PROVE  QuantInv'
<1>1. /\ p2 \in Params /\ s2 \in SampleSets \union {Absent} /\ t2 \in StoredPoints
      /\ d2 \in Files
      /\ Fitted(p2, s2) /\ Coded(t2, p2)
      /\ d2 # Absent => /\ Fitted(d2.quantization.params, d2.quantization.samples)
                         /\ Coded(d2.stored, d2.quantization.params)
  BY Zenon DEF Held
<1>2. StoredPoints' = StoredPoints
  BY SpaceStays
<1>3. QuantTypeOK'
  BY <1>1, <1>2 DEF QuantTypeOK, Files, Quantizations
<1>4. Fitted(p2, s2)' /\ Coded(t2, p2)'
  BY <1>1, SpaceStays, Zenon
<1>5. d2 # Absent => /\ Fitted(d2.quantization.params, d2.quantization.samples)'
                      /\ Coded(d2.stored, d2.quantization.params)'
  BY <1>1, SpaceStays, Zenon
<1>6. Fitted(params, samples)' /\ Coded(stored, params)'
  BY <1>4
<1>7. indexFile' # Absent => /\ Fitted(indexFile.quantization.params, indexFile.quantization.samples)'
                         /\ Coded(indexFile.stored, indexFile.quantization.params)'
  BY <1>5
<1> QED
  BY <1>3, <1>6, <1>7, Zenon DEF QuantInv

\* Points keep their type when they are marked.
LEMMA RefittedType ==
    ASSUME stored \in StoredPoints, NEW ps
    PROVE  /\ Refitted(ps) \in StoredPoints
           /\ space.mode # "PASS" /\ Coded(stored, params) => Coded(Refitted(ps), ps)
<1>1. CASE stored = Absent \/ ps = params
  <2>1. Refitted(ps) = stored
    BY <1>1, Zenon DEF Refitted
  <2>2. stored = Absent => Coded(stored, ps)
    BY Zenon DEF Coded
  <2> QED BY <1>1, <2>1, <2>2, Zenon
<1>2. CASE stored # Absent /\ ps # params
  <2>1. Refitted(ps) = [stored EXCEPT !.refitted = TRUE]
    BY <1>2, Zenon DEF Refitted
  <2>2. PICK c \in Codes, v \in [Dims -> Int], r \in BOOLEAN : stored = [code |-> c, vec |-> v, refitted |-> r]
    BY <1>2 DEF StoredPoints
  <2>3. Refitted(ps) = [code |-> c, vec |-> v, refitted |-> TRUE]
    BY <2>1, <2>2
  <2>4. [code |-> c, vec |-> v, refitted |-> TRUE] \in StoredPoints
    BY DEF StoredPoints
  <2>5. [code |-> c, vec |-> v, refitted |-> TRUE].refitted = TRUE
    OBVIOUS
  <2> QED BY <2>3, <2>4, <2>5, Zenon DEF Coded
<1> QED
  BY <1>1, <1>2

\* fit keeps the invariant: the point is marked if the parameters are others.
LEMMA FitStep == ASSUME QuantInv, NEW S \in SampleSets, Fit(S) PROVE QuantInv'
<1>1. /\ space \in Spaces /\ params \in Params /\ samples \in SampleSets \union {Absent}
      /\ stored \in StoredPoints /\ indexFile \in Files /\ unsaved \in BOOLEAN
      /\ Fitted(params, samples) /\ Coded(stored, params)
      /\ indexFile # Absent => /\ Fitted(indexFile.quantization.params, indexFile.quantization.samples)
                           /\ Coded(indexFile.stored, indexFile.quantization.params)
  BY NowHeld, Zenon DEF Held, QuantInv, QuantTypeOK
<1>2. PICK ps : ps = Train(S)
  OBVIOUS
<1>3. /\ space.mode # "PASS" /\ params' = ps /\ samples' = S /\ stored' = Refitted(params')
      /\ space' = space /\ unsaved' = unsaved /\ indexFile' = indexFile
  BY <1>2, Zenon DEF Fit, Train
<1>4. Samples(S) /\ S # Absent
  BY SamplesAre
<1>5. GoodParams(ps)
  BY <1>1, <1>2, <1>3, <1>4, TrainGood, Zenon
<1>6. Fitted(ps, S)
  BY <1>2, <1>3, <1>4, Zenon DEF Fitted
<1>7. Refitted(ps) \in StoredPoints /\ Coded(Refitted(ps), ps)
  BY <1>1, <1>3, RefittedType, Zenon
<1>8. PICK t2 : t2 = Refitted(ps)
  OBVIOUS
<1>9. PICK d2 : d2 = indexFile
  OBVIOUS
<1>10. stored' = t2
  BY <1>3, <1>8 DEF Refitted
<1>11. ps \in Params
  BY <1>5, GoodIsParams, Zenon
<1>12. Held(ps, S, t2, d2)
  BY <1>1, <1>6, <1>7, <1>8, <1>9, <1>11, Zenon DEF Held
<1> QED
  BY <1>1, <1>3, <1>9, <1>10, <1>12, HeldNext, Zenon

\* Adding a point keeps it: its code is the one its vector has.
LEMMA AddVectorStep ==
    ASSUME QuantInv, NEW vec \in [Dims -> Int], AddVector(vec) PROVE QuantInv'
<1>1. /\ space \in Spaces /\ params \in Params /\ samples \in SampleSets \union {Absent}
      /\ indexFile \in Files /\ Fitted(params, samples)
      /\ indexFile # Absent => /\ Fitted(indexFile.quantization.params, indexFile.quantization.samples)
                           /\ Coded(indexFile.stored, indexFile.quantization.params)
  BY NowHeld, Zenon DEF Held
<1>2. PICK ps, s2, d2 : ps = params /\ s2 = samples /\ d2 = indexFile
  OBVIOUS
<1>3. GoodParams(ps)
  BY <1>1, <1>2, FittedGood, Zenon
<1>4. PICK c : c = Quantize(vec, ps)
  OBVIOUS
<1>5. c \in Codes
  BY <1>1, <1>3, <1>4, QuantizeReads, Zenon
<1>6. PICK t2 : t2 = [code |-> c, vec |-> vec, refitted |-> FALSE]
  OBVIOUS
<1>7. /\ stored' = t2 /\ unsaved' = TRUE /\ space' = space /\ params' = ps /\ samples' = s2 /\ indexFile' = d2
  BY <1>2, <1>4, <1>6, Zenon DEF AddVector
<1>8. t2 \in StoredPoints /\ t2.code = c /\ t2.vec = vec
  BY <1>5, <1>6 DEF StoredPoints
<1>9. Coded(t2, ps)
  BY <1>4, <1>8, Zenon DEF Coded
<1>10. Held(ps, s2, t2, d2)
  BY <1>1, <1>2, <1>8, <1>9, Zenon DEF Held
<1>11. unsaved' \in BOOLEAN
  BY <1>7
<1> QED
  BY <1>1, <1>7, <1>10, <1>11, HeldNext, Zenon

\* Saving keeps it: the file has the parameters that go with the codes.
LEMMA SaveIndexStep == ASSUME QuantInv, SaveIndex PROVE QuantInv'
<1>1. /\ space \in Spaces /\ params \in Params /\ samples \in SampleSets \union {Absent}
      /\ stored \in StoredPoints /\ Fitted(params, samples) /\ Coded(stored, params)
  BY NowHeld, Zenon DEF Held
<1>2. PICK ps, s2, t2 : ps = params /\ s2 = samples /\ t2 = stored
  OBVIOUS
<1>3. PICK d2 : d2 = [quantization |-> [params |-> ps, samples |-> s2], stored |-> t2]
  OBVIOUS
<1>4. /\ indexFile' = d2 /\ unsaved' = FALSE /\ space' = space /\ params' = ps /\ samples' = s2 /\ stored' = t2
  BY <1>2, <1>3, Zenon DEF SaveIndex, SaveQuantizationParams
<1>5. /\ d2 \in Files /\ d2.quantization.params = ps /\ d2.quantization.samples = s2 /\ d2.stored = t2
  BY <1>1, <1>2, <1>3 DEF Files, Quantizations
<1>6. Held(ps, s2, t2, d2)
  BY <1>1, <1>2, <1>5, Zenon DEF Held
<1>7. unsaved' \in BOOLEAN
  BY <1>4
<1> QED
  BY <1>1, <1>4, <1>6, <1>7, HeldNext, Zenon

\* Loading keeps it, with a file and without one.
LEMMA ReopenStep == ASSUME QuantInv, Reopen PROVE QuantInv'
<1>1. /\ space \in Spaces /\ indexFile \in Files
      /\ indexFile # Absent => /\ Fitted(indexFile.quantization.params, indexFile.quantization.samples)
                           /\ Coded(indexFile.stored, indexFile.quantization.params)
  BY NowHeld, Zenon DEF Held
<1>2. PICK d2 : d2 = indexFile
  OBVIOUS
<1>3. space' = space /\ indexFile' = d2 /\ unsaved' = FALSE
  BY <1>2 DEF Reopen
<1>4. unsaved' \in BOOLEAN
  BY <1>3
<1>5. CASE d2 = Absent
  <2>1. PICK ps : ps = DefaultParams
    OBVIOUS
  <2>2. params' = ps /\ samples' = Absent /\ stored' = Absent
    BY <1>2, <1>5, <2>1 DEF Reopen, LoadQuantizationParams
  <2>3. ps \in Params
    BY <2>1, DefaultGood, GoodIsParams, Zenon
  <2>4. Fitted(ps, Absent) /\ Coded(Absent, ps) /\ Absent \in StoredPoints
    BY <2>1, Zenon DEF Fitted, Coded, StoredPoints
  <2>5. Held(ps, Absent, Absent, d2)
    BY <1>1, <1>2, <1>5, <2>3, <2>4, Zenon DEF Held
  <2> QED BY <1>1, <1>3, <1>4, <2>2, <2>5, HeldNext, Zenon
<1>6. CASE d2 # Absent
  <2>1. PICK ps, s2, t2 : ps = d2.quantization.params /\ s2 = d2.quantization.samples /\ t2 = d2.stored
    OBVIOUS
  <2>2. params' = ps /\ samples' = s2 /\ stored' = t2
    BY <1>2, <1>6, <2>1 DEF Reopen, LoadQuantizationParams
  <2>3. ps \in Params /\ s2 \in SampleSets \union {Absent} /\ t2 \in StoredPoints
    BY <1>1, <1>2, <1>6, <2>1 DEF Files, Quantizations
  <2>4. Held(ps, s2, t2, d2)
    BY <1>1, <1>2, <1>6, <2>1, <2>3, Zenon DEF Held
  <2> QED BY <1>1, <1>3, <1>4, <2>2, <2>4, HeldNext, Zenon
<1> QED
  BY <1>5, <1>6

\* Points are vectors.
LEMMA PointsAre == PassPoints \subseteq [Dims -> Int] /\ TrainedPoints \subseteq [Dims -> Int]
  BY PointsAssumption DEF Dims

\* Every step keeps the invariant.
LEMMA QuantStepInv == ASSUME QuantInv, [QuantNext]_quantVars PROVE QuantInv'
<1>1. ASSUME QuantNext PROVE QuantInv'
  <2>1. ASSUME NEW S \in SampleSets, Fit(S) PROVE QuantInv'
    BY <2>1, FitStep
  <2>2. ASSUME NEW vec \in IF space.mode = "PASS" THEN PassPoints ELSE TrainedPoints, AddVector(vec) PROVE QuantInv'
    <3>1. vec \in [Dims -> Int]
      BY PointsAre
    <3> QED BY <2>2, <3>1, AddVectorStep
  <2>3. ASSUME SaveIndex PROVE QuantInv'
    BY <2>3, SaveIndexStep
  <2>4. ASSUME Reopen PROVE QuantInv'
    BY <2>4, ReopenStep
  <2> QED BY <1>1, <2>1, <2>2, <2>3, <2>4, Zenon DEF QuantNext
<1>2. ASSUME UNCHANGED quantVars PROVE QuantInv'
  <2>1. /\ space' = space /\ params' = params /\ samples' = samples /\ stored' = stored
        /\ unsaved' = unsaved /\ indexFile' = indexFile
    BY <1>2 DEF quantVars
  <2>2. PICK ps, s2, t2, d2 : ps = params /\ s2 = samples /\ t2 = stored /\ d2 = indexFile
    OBVIOUS
  <2>3. space \in Spaces /\ Held(ps, s2, t2, d2)
    BY <2>2, NowHeld, Zenon
  <2>4. unsaved' \in BOOLEAN
    BY <2>1 DEF QuantInv, QuantTypeOK
  <2>5. params' = ps /\ samples' = s2 /\ stored' = t2 /\ indexFile' = d2
    BY <2>1, <2>2
  <2> QED BY <2>1, <2>3, <2>4, <2>5, HeldNext, Zenon
<1> QED
  BY <1>1, <1>2

\* In every reachable state the parameters are those of the samples next to them,
\* in memory and in the file, and a point that no other parameters came after has
\* the code that its vector has.
THEOREM QuantInvariant == QuantSpec => []QuantInv
  BY QuantInitInv, QuantStepInv, PTL DEF QuantSpec

\* QuantTypeOK: codes are bytes, as many as bytes_per_vector.
THEOREM QuantTypeCorrect == QuantSpec => []QuantTypeOK
<1>1. QuantInv => QuantTypeOK
  BY DEF QuantInv
<1> QED
  BY QuantInvariant, <1>1, PTL

-----------------------------------------------------------------------------
(* Distances.                                                              *)

\* What is read from a code are numbers of w bits.
LEMMA FieldType ==
    ASSUME NEW n \in Nat, NEW code \in [1 .. n -> 0 .. 255], NEW w \in 1 .. 8, NEW d \in Nat \ {0},
           NEW rest \in 0 .. 255
    PROVE  Field(code, w, d, rest) \in Nat /\ Field(code, w, d, rest) < Pow2(w)
<1>1. \A i \in Nat \ {0} : ByteAt(code, i, rest) \in 0 .. 255
  <2>1. Len(code) = n
    OBVIOUS
  <2> QED BY <2>1, SMTT(40) DEF ByteAt
<1>2. PICK s \in Nat : s = (d - 1) * w
  OBVIOUS
<1>3. PICK e \in Nat, r \in 0 .. 7 : s = (e * 8) + r
  <2>1. 8 \in Nat \ {0} /\ s \in Int
    OBVIOUS
  <2>2. s \div 8 \in Nat /\ s % 8 \in 0 .. 8 - 1 /\ s = ((s \div 8) * 8) + (s % 8)
    BY <2>1, Divided, Zenon
  <2>3. 8 - 1 = 7
    OBVIOUS
  <2> QED BY <2>2, <2>3, Zenon
<1>4. FieldReads(code, w, d, rest, e, r)
  <2>1. e \in Int /\ d \in Nat /\ (d - 1) * w = (e * 8) + r
    BY <1>2, <1>3
  <2> QED BY <2>1, FieldIs, Zenon
<1>5. PICK a \in 0 .. 255, b \in 0 .. 255 : a = ByteAt(code, e + 1, rest) /\ b = ByteAt(code, e + 2, rest)
  <2>1. e + 1 \in Nat \ {0} /\ e + 2 \in Nat \ {0}
    OBVIOUS
  <2> QED BY <1>1, <2>1, Zenon
<1>6. PICK W \in 1 .. 256 : W = Pow2(w)
  BY PowerIs, w \in 0 .. 8
<1>7. PICK x \in Int : x = (a \div Pow2(r)) + (IF r + w > 8 THEN b * Pow2(8 - r) ELSE 0)
  <2>1. a \div Pow2(r) \in Int
    BY Shifted, Zenon
  <2>2. PICK R \in 1 .. 256 : R = Pow2(8 - r)
    BY PowerIs, 8 - r \in 0 .. 8
  <2>3. b * R \in Int
    OBVIOUS
  <2>4. PICK y \in Int : y = IF r + w > 8 THEN b * Pow2(8 - r) ELSE 0
    BY <2>2, <2>3, SMTT(40)
  <2> QED BY <2>1, <2>4
<1>8. Field(code, w, d, rest) = x % W
  BY <1>4, <1>5, <1>6, <1>7, Zenon DEF FieldReads, Read
<1>9. x % W \in Nat /\ x % W < W
  OBVIOUS
<1> QED
  BY <1>6, <1>8, <1>9, ZenonT(40)

\* A signed number is a number.
LEMMA SignedType ==
    ASSUME NEW w \in 1 .. 8, NEW x \in Int PROVE Signed(x, w) \in Int
<1>1. PICK P \in 1 .. 256, Q \in 1 .. 256 : P = Pow2(w) /\ Q = Pow2(w - 1)
  <2>1. w \in 0 .. 8 /\ w - 1 \in 0 .. 8
    OBVIOUS
  <2> QED BY <2>1, PowerIs, Zenon
<1> QED
  BY <1>1 DEF Signed

\* The bits of a type are between 1 and 8.
LEMMA BitsIs == ASSUME space \in Spaces PROVE \E w \in 1 .. 8 : w = BitsPerElement(space.type)
<1>1. \A x \in {1, 2, 3, 4, 5, 6, 8} : x \in 1 .. 8
  OBVIOUS
<1> QED
  BY <1>1, SpaceIs, BitsType, Zenon

\* Codes are functions from the numbers up to their length.
LEMMA CodeIs ==
    ASSUME space \in Spaces, NEW code \in Codes
    PROVE  \E m \in Nat : code \in [1 .. m -> 0 .. 255] /\ Len(code) = m
<1>1. PICK w \in 1 .. 8 : w = BitsPerElement(space.type)
  BY BitsIs, Zenon
<1>2. PICK m \in Nat : m = BytesPerVector(w)
  BY BytesAreMany, Zenon
<1>3. code \in [1 .. m -> 0 .. 255]
  BY <1>1, <1>2 DEF Codes
<1>4. Len(code) = m
  BY <1>3
<1> QED
  BY <1>3, <1>4

\* Nibbles of a code with enough bytes are within it.
LEMMA NibblesWithin ==
    ASSUME NEW n \in Nat, NEW code \in [1 .. n -> 0 .. 255], n >= BytesPerVector(4),
           NEW d \in Dims, NEW ra, NEW rb
    PROVE  Field(code, 4, d, ra) = Field(code, 4, d, rb)
<1>1. Len(code) = n /\ Dim \in Nat /\ d \in 1 .. Dim
  BY DimAssumption DEF Dims
<1>2. PICK s \in Nat : s = d - 1
  BY <1>1
<1>3. PICK e \in Nat, i \in 0 .. 1 : s = (e * 2) + i
  <2>1. 2 \in Nat \ {0} /\ s \in Int
    OBVIOUS
  <2>2. s \div 2 \in Nat /\ s % 2 \in 0 .. 2 - 1 /\ s = ((s \div 2) * 2) + (s % 2)
    BY <2>1, Divided, Zenon
  <2>3. 2 - 1 = 1
    OBVIOUS
  <2> QED BY <2>2, <2>3, Zenon
<1>4. PICK r \in 0 .. 7 : r = i * 4 /\ r <= 4
  OBVIOUS
<1>5. (d - 1) * 4 = (e * 8) + r
  <2>1. ((e * 2) + i) * 4 = (e * 8) + (i * 4)
    OBVIOUS
  <2> QED BY <1>2, <1>3, <1>4, <2>1, Zenon
<1>6. e + 1 <= n
  <2>1. BytesPerVector(4) = ((Dim * 4) + 7) \div 8
    BY DEF BytesPerVector
  <2>2. ((Dim * 4) + 7) \div 8 >= e + 1
    BY <1>1, <1>5
  <2>3. ((Dim * 4) + 7) \div 8 \in Int
    BY <1>1
  <2> QED BY <2>1, <2>2, <2>3
<1>7. e \in Int /\ d \in Nat /\ 4 \in 1 .. 8
  BY <1>1
<1>8. FieldReads(code, 4, d, ra, e, r) /\ FieldReads(code, 4, d, rb, e, r)
  BY <1>5, <1>7, FieldIs, Zenon
<1>9. ByteAt(code, e + 1, ra) = code[e + 1] /\ ByteAt(code, e + 1, rb) = code[e + 1]
  BY <1>1, <1>6 DEF ByteAt
<1>10. ~(r + 4 > 8)
  BY <1>4
<1> QED
  BY <1>8, <1>9, <1>10, Zenon DEF FieldReads, Read

\* A number less itself squares to 0.
LEMMA SquareOfNothing == ASSUME NEW x \in Int PROVE Square(x - x) = 0
  BY DEF Square

\* Sums over the dimensions.
LEMMA SumOfZeros ==
    ASSUME NEW f \in [Dims -> Int], \A d \in Dims : f[d] = 0 PROVE Sum(f) = 0
<1>1. Dim \in Nat /\ f \in [1 .. Dim -> Int] /\ \A k \in 1 .. Dim : f[k] = 0
  BY DimAssumption DEF Dims
<1>2. Sum(f) = 0 * Dim
  BY <1>1, 0 \in Int, SumConstant, Zenon
<1>3. 0 * Dim = 0
  BY <1>1
<1> QED
  BY <1>2, <1>3, Zenon

\* Ones, one for each dimension, add up to Dim.
LEMMA SumOfOnes ==
    ASSUME NEW f \in [Dims -> Int], \A d \in Dims : f[d] = 1 PROVE Sum(f) = Dim
<1>1. Dim \in Nat /\ f \in [1 .. Dim -> Int] /\ \A k \in 1 .. Dim : f[k] = 1
  BY DimAssumption DEF Dims
<1>2. Sum(f) = 1 * Dim
  BY <1>1, 1 \in Int, SumConstant, Zenon
<1>3. 1 * Dim = Dim
  BY <1>1
<1> QED
  BY <1>2, <1>3, Zenon

\* Ternary gives a number.
LEMMA TernaryType == \A n : Ternary(n) \in Int
  BY DEF Ternary

\* What a code stands for is a number.
LEMMA ValueType ==
    ASSUME space \in Spaces, GoodParams(params), NEW code \in Codes, NEW d \in Dims
    PROVE  Value(code, d) \in Int
<1>1. PICK w \in 1 .. 8 : w = BitsPerElement(space.type)
  BY BitsIs, Zenon
<1>2. PICK m \in Nat : m = BytesPerVector(w)
  BY BytesAreMany, Zenon
<1>3. Field(code, w, d, 0) \in Nat
  <2>1. code \in [1 .. m -> 0 .. 255]
    BY <1>1, <1>2 DEF Codes
  <2>2. d \in Nat \ {0} /\ 0 \in 0 .. 255
    BY DimAssumption DEF Dims
  <2> QED BY <2>1, <2>2, FieldType, Zenon
<1>4. PICK n \in Nat : n = Field(code, w, d, 0)
  BY <1>3, Zenon
<1>5. params[d].offset2 \in Nat
  BY DEF GoodParams, GoodBounds
<1>6. Value(code, d) = IF space.type = "INT158" THEN Ternary(n)
                        ELSE IF space.metric = "L2" THEN n
                        ELSE IF space.type = "BIN1" THEN 2 * n - 1
                        ELSE 2 * n - params[d].offset2
  BY <1>1, <1>4 DEF Value
<1> QED
  BY <1>5, <1>6, TernaryType, SpaceIs

\* The same code twice.
LEMMA DistanceToItself ==
    ASSUME space \in Spaces, GoodParams(params), NEW code \in Codes,
           NEW ra \in 0 .. 255, NEW rb \in 0 .. 255, space.metric = "L2",
           space.mode = "PASS" => Len(code) >= BytesPerVector(4)
    PROVE  Distance(code, code, ra, rb) = 0
<1>1. PICK m \in Nat : code \in [1 .. m -> 0 .. 255] /\ Len(code) = m
  BY CodeIs, Zenon
<1>2. CASE space.mode = "PASS"
  <2> DEFINE f == [d \in Dims |-> Square(SignedField(code, L2Bits, d, ra) - SignedField(code, L2Bits, d, rb))]
  <2>1. ASSUME NEW d \in Dims PROVE f[d] = 0
    <3>1. Field(code, 4, d, ra) = Field(code, 4, d, rb)
      BY <1>1, <1>2, NibblesWithin, SMTT(40)
    <3>2. Field(code, 4, d, ra) \in Nat
      <4>1. d \in Nat \ {0} /\ 4 \in 1 .. 8
        BY DimAssumption DEF Dims
      <4> QED BY <1>1, <4>1, FieldType, Zenon
    <3>3. PICK x \in Int : x = Signed(Field(code, 4, d, ra), 4)
      <4>1. 4 \in 1 .. 8 /\ Field(code, 4, d, ra) \in Int
        BY <3>2
      <4> QED BY <4>1, SignedType, Zenon
    <3>4. f[d] = Square(x - x)
      BY <3>1, <3>3, Zenon DEF SignedField, L2Bits
    <3> QED BY <3>4, SquareOfNothing, Zenon
  <2>2. f \in [Dims -> Int]
    <3>1. f = [d \in Dims |-> f[d]]
      OBVIOUS
    <3> HIDE DEF f
    <3> QED BY <2>1, <3>1
  <2>3. Distance(code, code, ra, rb) = Sum(f)
    BY <1>2 DEF Distance, ComputeDistL2Pass
  <2> HIDE DEF f
  <2> QED BY <2>1, <2>2, <2>3, SumOfZeros, Zenon
<1>3. CASE space.mode # "PASS"
  <2> DEFINE f == [d \in Dims |-> Square(Value(code, d) - Value(code, d))]
  <2>1. ASSUME NEW d \in Dims PROVE f[d] = 0
    <3>1. PICK x \in Int : x = Value(code, d)
      BY ValueType, Zenon
    <3>2. f[d] = Square(x - x)
      BY <3>1, Zenon
    <3> QED BY <3>2, SquareOfNothing, Zenon
  <2>2. f \in [Dims -> Int]
    <3>1. f = [d \in Dims |-> f[d]]
      OBVIOUS
    <3> HIDE DEF f
    <3> QED BY <2>1, <3>1
  <2>3. Distance(code, code, ra, rb) = Sum(f)
    BY <1>3 DEF Distance, ComputeDist
  <2> HIDE DEF f
  <2> QED BY <2>1, <2>2, <2>3, SumOfZeros, Zenon
<1> QED
  BY <1>2, <1>3

\* Of BIN1, every dimension agrees.
LEMMA ProductWithItself ==
    ASSUME space \in Spaces, GoodParams(params), NEW vec \in [Dims -> Int],
           NEW ra, NEW rb, space.metric # "L2", space.mode # "PASS", space.type = "BIN1"
    PROVE  Distance(Quantize(vec, params), Quantize(vec, params), ra, rb) = Dim
<1> DEFINE code == Quantize(vec, params)
           f == [d \in Dims |-> Value(code, d) * Value(code, d)]
<1>1. ASSUME NEW d \in Dims PROVE f[d] = 1
  <2>1. Field(code, BitsPerElement(space.type), d, 0) = CodeOf(vec, params, d)
    BY QuantizeReads, Zenon
  <2>2. CodeOf(vec, params, d) \in 0 .. 255 /\ CodeOf(vec, params, d) < Pow2(BitsPerElement(space.type))
    BY CodeOfType, Zenon
  <2>3. Pow2(BitsPerElement(space.type)) = 2
    BY BitsAre, Powers
  <2>4. PICK n \in {0, 1} : n = Field(code, BitsPerElement(space.type), d, 0)
    BY <2>1, <2>2, <2>3
  <2>5. Value(code, d) = 2 * n - 1
    <3> HIDE DEF code
    <3> QED BY <2>4 DEF Value
  <2>6. (2 * n - 1) * (2 * n - 1) = 1
    OBVIOUS
  <2> QED BY <2>5, <2>6, Zenon
<1>2. f \in [Dims -> Int]
  <2>1. f = [d \in Dims |-> f[d]]
    OBVIOUS
  <2> HIDE DEF f
  <2> QED BY <1>1, <2>1
<1>3. Distance(code, code, ra, rb) = Sum(f)
  BY DEF Distance, ComputeDistIP
<1> HIDE DEF f
<1> QED
  BY <1>1, <1>2, <1>3, SumOfOnes, Zenon

\* The invariant implies FindsItself.
LEMMA InvFinds == ASSUME QuantInv PROVE FindsItself
<1>1. /\ space \in Spaces /\ params \in Params /\ samples \in SampleSets \union {Absent}
      /\ stored \in StoredPoints /\ Fitted(params, samples) /\ Coded(stored, params)
  BY NowHeld, Zenon DEF Held
<1>2. GoodParams(params)
  BY <1>1, FittedGood, Zenon
<1>8. space \in Spaces
  BY <1>1
<1>9. \A c \in Codes : \E k \in Nat : k = Len(c)
  BY <1>8, CodeIs, Zenon
<1>10. ASSUME NEW v \in [Dims -> Int], NEW x, NEW y,
              space.metric # "L2", space.mode # "PASS", space.type = "BIN1"
       PROVE  Distance(Quantize(v, params), Quantize(v, params), x, y) = Dim
  BY <1>2, <1>8, <1>10, ProductWithItself, Zenon
<1>11. PICK Rests : Rests = {0, 255}
  OBVIOUS
<1> SUFFICES ASSUME stored # Absent,
                    space.metric = "L2" \/ (space.mode # "PASS" /\ space.type = "BIN1"),
                    ~stored.refitted,
                    ~(space.mode = "PASS" /\ Len(stored.code) < BytesPerVector(L2Bits))
             PROVE  \A ra, rb \in {0, 255} : Distance(Quantize(stored.vec, params), stored.code, ra, rb) =
                                              IF space.metric = "L2" THEN 0 ELSE Dim
  BY Zenon DEF FindsItself
<1>3. PICK vec \in [Dims -> Int], code \in Codes : vec = stored.vec /\ code = stored.code
  BY <1>1 DEF StoredPoints
<1>4. code = Quantize(vec, params)
  BY <1>1, <1>3, Zenon DEF Coded
<1>5. space.mode = "PASS" => Len(code) >= BytesPerVector(4)
  <2>1. PICK m \in Nat : m = BytesPerVector(4)
    BY BytesAreMany, 4 \in 1 .. 8
  <2>2. PICK k \in Nat : k = Len(code)
    BY <1>9, Zenon
  <2>3. space.mode = "PASS" => ~(k < m)
    BY <1>3, <2>1, <2>2, Zenon DEF L2Bits
  <2>4. ~(k < m) => k >= m
    OBVIOUS
  <2> QED BY <2>1, <2>2, <2>3, <2>4, Zenon
<1>6. ASSUME NEW ra \in 0 .. 255, NEW rb \in 0 .. 255
      PROVE  Distance(Quantize(stored.vec, params), stored.code, ra, rb) =
                IF space.metric = "L2" THEN 0 ELSE Dim
  <2>1. CASE space.metric = "L2"
    <3>1. Distance(code, code, ra, rb) = 0
      BY <1>2, <1>5, <1>8, <2>1, DistanceToItself, Zenon
    <3> QED BY <1>3, <1>4, <2>1, <3>1, Zenon
  <2>2. CASE space.metric # "L2"
    <3>1. space.mode # "PASS" /\ space.type = "BIN1"
      BY <2>2
    <3>2. Distance(Quantize(vec, params), Quantize(vec, params), ra, rb) = Dim
      BY <2>2, <1>10, <3>1, ZenonT(40)
    <3> QED BY <1>3, <1>4, <2>2, <3>2, Zenon
  <2> QED BY <2>1, <2>2
<1> DEFINE At(x, y) == Distance(Quantize(stored.vec, params), stored.code, x, y) =
                          IF space.metric = "L2" THEN 0 ELSE Dim
<1>12. \A x, y \in 0 .. 255 : At(x, y)
  BY <1>6
<1>13. \A r \in Rests : r \in 0 .. 255
  BY <1>11
<1>14. \A x, y \in Rests : At(x, y)
  <2> HIDE DEF At
  <2> QED BY <1>12, <1>13, Zenon
<1> QED
  BY <1>11, <1>14

\* A signed number of w bits is read as itself.
LEMMA SignedNibble == \A y \in -8 .. 7 : Signed(y % 16, 4) = y
<1> SUFFICES ASSUME NEW y \in -8 .. 7 PROVE Signed(y % 16, 4) = y
  OBVIOUS
<1>1. PICK P, Q : P = Pow2(4) /\ Q = Pow2(4 - 1)
  OBVIOUS
<1>2. P = 16 /\ Q = 8
  BY <1>1, Powers
<1>3. Signed(y % 16, 4) = IF y % 16 >= Q THEN (y % 16) - P ELSE y % 16
  BY <1>1, Zenon DEF Signed
<1> QED
  BY <1>2, <1>3

\* And one of 8 bits.
LEMMA SignedByte == \A y \in -128 .. 127 : Signed(y % 256, 8) = y
<1> SUFFICES ASSUME NEW y \in -128 .. 127 PROVE Signed(y % 256, 8) = y
  OBVIOUS
<1>1. PICK P, Q : P = Pow2(8) /\ Q = Pow2(8 - 1)
  OBVIOUS
<1>2. P = 256 /\ Q = 128
  BY <1>1, Powers
<1>3. Signed(y % 256, 8) = IF y % 256 >= Q THEN (y % 256) - P ELSE y % 256
  BY <1>1, Zenon DEF Signed
<1> QED
  BY <1>2, <1>3

\* An INT4 component that does not wrap is what is left of it.
LEMMA NibbleKept ==
    ASSUME NEW v \in Int, Round(v * 64, Unit) \in -128 .. 127
    PROVE  Kept(v, "INT4") \in -8 .. 7 /\ Nibble(v) = Kept(v, "INT4") % 16
<1>1. PICK R \in -128 .. 127 : R = Round(v * 64, Unit)
  OBVIOUS
<1>2. Signed(R % 256, 8) = R
  BY SignedByte
<1>3. Kept(v, "INT4") = Clamp(R, -8, 7)
  BY <1>1 DEF Kept
<1>4. Nibble(v) = Clamp(R, -8, 7) % 16
  BY <1>1, <1>2, Zenon DEF Nibble
<1>5. Clamp(R, -8, 7) \in -8 .. 7
  <2>1. -8 \in Int /\ 7 \in Int /\ -8 <= 7 /\ R \in Int
    OBVIOUS
  <2> QED BY <2>1, ClampType, Zenon
<1> QED
  BY <1>3, <1>4, <1>5, Zenon

\* The number read for a component of a packed vector: what was kept of it, or
\* with BIN1 its negative.
ReadsKept(v, d, rest, x) ==
    x = IF space.type = "BIN1" THEN -Kept(v[d], space.type) ELSE Kept(v[d], space.type)

\* What is kept of a component is a number.
LEMMA KeptType ==
    ASSUME NEW v \in Int, NEW type \in PassTypes PROVE Kept(v, type) \in Int
<1>1. CASE type = "BIN1"
  BY <1>1 DEF Kept
<1>2. CASE type = "INT4"
  <2>1. Round(v * 64, Unit) \in Int
    BY RoundType DEF Unit
  <2>2. Clamp(Round(v * 64, Unit), -8, 7) \in -8 .. 7
    <3>1. -8 \in Int /\ 7 \in Int /\ -8 <= 7
      OBVIOUS
    <3> QED BY <2>1, <3>1, ClampType, Zenon
  <2> QED BY <1>2, <2>2 DEF Kept
<1>3. CASE type # "BIN1" /\ type # "INT4"
  <2>1. PassCode(v, type) = Kept(v, type)
    BY <1>3 DEF PassCode, Kept
  <2>2. PassCode(v, type) \in 0 .. 255
    BY PassCodeType
  <2> QED BY <2>1, <2>2
<1> QED
  BY <1>1, <1>2, <1>3

\* The number read for a component of a packed vector is what was kept of it, or
\* with BIN1 its negative, unless it is read as negative or wrapped.
LEMMA FieldKept ==
    ASSUME space \in Spaces, space.mode = "PASS", GoodParams(params), NEW v \in [Dims -> Int],
           ~ReadAsNegative(v), ~Wraps(v), NEW d \in Dims, NEW rest
    PROVE  SignedField(Quantize(v, params), BitsPerElement(space.type), d, rest) =
              IF space.type = "BIN1" THEN -Kept(v[d], space.type) ELSE Kept(v[d], space.type)
<1>1. PICK type \in PassTypes : type = space.type
  BY SpaceIs, Zenon
<1>2. PICK w \in 1 .. 8 : w = BitsPerElement(type)
  BY <1>1, BitsIs, Zenon
<1>3. PICK y \in Int : y = v[d]
  OBVIOUS
<1>4. PICK n \in 0 .. 255 : n = PassCode(y, type) /\ n < Pow2(BitsPerElement(type))
  BY PassCodeType, Zenon
<1>5. SignedField(Quantize(v, params), w, d, rest) = Signed(n, w)
  <2>1. Field(Quantize(v, params), BitsPerElement(space.type), d, rest) = CodeOf(v, params, d)
    BY QuantizeReads, Zenon
  <2>2. CodeOf(v, params, d) = n
    BY <1>1, <1>3, <1>4, Zenon DEF CodeOf
  <2> QED BY <1>1, <1>2, <2>1, <2>2, Zenon DEF SignedField
<1>6. CASE type = "BIN1"
  <2>1. w = 1 /\ n = Kept(y, type) /\ n \in {0, 1}
    BY <1>2, <1>4, <1>6, BitsAre DEF PassCode, Kept
  <2>2. PICK P, Q : P = Pow2(1) /\ Q = Pow2(1 - 1)
    OBVIOUS
  <2>3. P = 2 /\ Q = 1
    BY <2>2, Powers
  <2>4. Signed(n, 1) = IF n >= Q THEN n - P ELSE n
    BY <2>2, Zenon DEF Signed
  <2>5. Signed(n, 1) = -n
    BY <2>1, <2>3, <2>4
  <2> QED BY <1>1, <1>2, <1>3, <1>5, <1>6, <2>1, <2>5, Zenon
<1>7. CASE type = "INT4"
  <2>1. w = 4 /\ n = Nibble(y)
    BY <1>2, <1>4, <1>7, BitsAre DEF PassCode
  <2>2. Round(y * 64, Unit) \in -128 .. 127
    BY <1>1, <1>3, <1>7, Zenon DEF Wraps
  <2>3. PICK k \in -8 .. 7 : k = Kept(y, "INT4") /\ n = k % 16
    BY <2>1, <2>2, NibbleKept, Zenon
  <2>4. Signed(n, 4) = k
    BY <2>3, SignedNibble, Zenon
  <2>5. type # "BIN1"
    BY <1>7
  <2> QED BY <1>1, <1>2, <1>3, <1>5, <1>7, <2>1, <2>3, <2>4, <2>5, Zenon
<1>8. CASE type # "BIN1" /\ type # "INT4"
  <2>1. n = Kept(y, type)
    BY <1>4, <1>8 DEF PassCode, Kept
  <2>2. ~(Kept(y, type) >= Pow2(w - 1))
    BY <1>1, <1>2, <1>3, <1>8 DEF ReadAsNegative
  <2>3. Signed(n, w) = n
    BY <2>1, <2>2, Zenon DEF Signed
  <2> QED BY <1>1, <1>2, <1>3, <1>5, <1>8, <2>1, <2>3, Zenon
<1> QED
  BY <1>6, <1>7, <1>8

\* Two negatives have the product of the two numbers.
LEMMA Negatives == ASSUME NEW x \in Int, NEW y \in Int PROVE (-x) * (-y) = x * y
  OBVIOUS

\* The product of two packed vectors is that of what was kept of them.
LEMMA ProductKept ==
    ASSUME space \in Spaces, space.mode = "PASS", GoodParams(params), NEW a \in [Dims -> Int],
           NEW b \in [Dims -> Int], ~ReadAsNegative(a), ~Wraps(a), ~ReadAsNegative(b), ~Wraps(b),
           NEW ra, NEW rb
    PROVE  ComputeDistPass(Quantize(a, params), Quantize(b, params), ra, rb) =
              Sum([d \in Dims |-> Kept(a[d], space.type) * Kept(b[d], space.type)])
<1> DEFINE w == BitsPerElement(space.type)
           f == [d \in Dims |-> SignedField(Quantize(a, params), w, d, ra) *
                                SignedField(Quantize(b, params), w, d, rb)]
           g == [d \in Dims |-> Kept(a[d], space.type) * Kept(b[d], space.type)]
<1>1. ASSUME NEW d \in Dims PROVE f[d] = g[d]
  <2>1. a[d] \in Int /\ b[d] \in Int /\ space.type \in PassTypes
    BY SpaceIs
  <2>2. PICK x \in Int, y \in Int : x = Kept(a[d], space.type) /\ y = Kept(b[d], space.type)
    BY <2>1, KeptType, Zenon
  <2>3. CASE space.type = "BIN1"
    <3>1. /\ SignedField(Quantize(a, params), w, d, ra) = -x
          /\ SignedField(Quantize(b, params), w, d, rb) = -y
      BY <2>2, <2>3, FieldKept, Zenon
    <3> QED BY <2>2, <3>1, Negatives, ZenonT(40)
  <2>4. CASE space.type # "BIN1"
    <3>1. /\ SignedField(Quantize(a, params), w, d, ra) = x
          /\ SignedField(Quantize(b, params), w, d, rb) = y
      BY <2>2, <2>4, FieldKept, Zenon
    <3> QED BY <2>2, <3>1, Zenon
  <2> QED BY <2>3, <2>4
<1>2. f = g
  BY <1>1
<1>3. ComputeDistPass(Quantize(a, params), Quantize(b, params), ra, rb) = Sum(f)
  BY DEF ComputeDistPass
<1> HIDE DEF f, g
<1>4. ComputeDistPass(Quantize(a, params), Quantize(b, params), ra, rb) = Sum(g)
  BY <1>2, <1>3, Zenon
<1> QED
  BY <1>4 DEF g

\* So is the squared distance, when nibbles are what was packed.
LEMMA SquareKept ==
    ASSUME space \in Spaces, space.mode = "PASS", GoodParams(params), NEW a \in [Dims -> Int],
           NEW b \in [Dims -> Int], ~Wraps(a), ~Wraps(b), space.type = "INT4",
           NEW ra, NEW rb
    PROVE  ComputeDistL2Pass(Quantize(a, params), Quantize(b, params), ra, rb) =
              Sum([d \in Dims |-> Square(Kept(a[d], space.type) - Kept(b[d], space.type))])
<1> DEFINE f == [d \in Dims |-> Square(SignedField(Quantize(a, params), L2Bits, d, ra) -
                                       SignedField(Quantize(b, params), L2Bits, d, rb))]
           g == [d \in Dims |-> Square(Kept(a[d], space.type) - Kept(b[d], space.type))]
<1>1. ~ReadAsNegative(a) /\ ~ReadAsNegative(b) /\ BitsPerElement(space.type) = L2Bits /\ space.type # "BIN1"
  BY BitsAre DEF ReadAsNegative, L2Bits
<1>2. ASSUME NEW d \in Dims PROVE f[d] = g[d]
  <2>1. /\ SignedField(Quantize(a, params), L2Bits, d, ra) = Kept(a[d], space.type)
        /\ SignedField(Quantize(b, params), L2Bits, d, rb) = Kept(b[d], space.type)
    BY <1>1, FieldKept, Zenon
  <2> QED BY <2>1, Zenon
<1>3. f = g
  BY <1>2
<1>4. ComputeDistL2Pass(Quantize(a, params), Quantize(b, params), ra, rb) = Sum(f)
  BY DEF ComputeDistL2Pass
<1> HIDE DEF f, g
<1>5. ComputeDistL2Pass(Quantize(a, params), Quantize(b, params), ra, rb) = Sum(g)
  BY <1>3, <1>4, Zenon
<1> QED
  BY <1>5 DEF g

\* Whatever lies behind them, the two codes have the distance of what was kept.
PassesThrough(vec, ra, rb) ==
    Distance(stored.code, Quantize(vec, params), ra, rb) =
       IF space.metric = "L2"
       THEN Sum([d \in Dims |-> Square(Kept(stored.vec[d], space.type) - Kept(vec[d], space.type))])
       ELSE Sum([d \in Dims |-> Kept(stored.vec[d], space.type) * Kept(vec[d], space.type)])

\* The stored point and a packed vector have the distance they should have.
LEMMA StoredPasses ==
    ASSUME QuantInv, space.mode = "PASS", stored # Absent, NEW vec \in PassPoints, NEW ra, NEW rb,
           ~ReadAsNibbles, ~ReadAsNegative(vec), ~Wraps(vec),
           ~ReadAsNegative(stored.vec), ~Wraps(stored.vec)
    PROVE  PassesThrough(vec, ra, rb)
<1>1. /\ space \in Spaces /\ params \in Params /\ samples \in SampleSets \union {Absent}
      /\ stored \in StoredPoints /\ Fitted(params, samples) /\ Coded(stored, params)
  BY NowHeld, Zenon DEF Held
<1>2. GoodParams(params)
  BY <1>1, FittedGood, Zenon
<1>3. PICK a \in [Dims -> Int], code \in Codes : a = stored.vec /\ code = stored.code
  BY <1>1 DEF StoredPoints
<1>4. code = Quantize(a, params)
  BY <1>1, <1>3, Zenon DEF Coded
<1>5. vec \in [Dims -> Int]
  BY PointsAre
<1>6. ~ReadAsNegative(a) /\ ~Wraps(a)
  BY <1>3
<1>7. CASE space.metric = "L2"
  <2>1. space.type = "INT4"
    BY <1>7 DEF ReadAsNibbles
  <2>2. Distance(code, Quantize(vec, params), ra, rb) = ComputeDistL2Pass(code, Quantize(vec, params), ra, rb)
    BY <1>7, Zenon DEF Distance
  <2>3. ComputeDistL2Pass(Quantize(a, params), Quantize(vec, params), ra, rb) =
           Sum([d \in Dims |-> Square(Kept(a[d], space.type) - Kept(vec[d], space.type))])
    BY <1>1, <1>2, <1>5, <1>6, <2>1, SquareKept, Zenon
  <2> QED BY <1>3, <1>4, <1>7, <2>2, <2>3, Zenon DEF PassesThrough
<1>8. CASE space.metric # "L2"
  <2>2. Distance(code, Quantize(vec, params), ra, rb) = ComputeDistPass(code, Quantize(vec, params), ra, rb)
    BY <1>8, Zenon DEF Distance
  <2>3. ComputeDistPass(Quantize(a, params), Quantize(vec, params), ra, rb) =
           Sum([d \in Dims |-> Kept(a[d], space.type) * Kept(vec[d], space.type)])
    BY <1>1, <1>2, <1>5, <1>6, ProductKept, ZenonT(40)
  <2> QED BY <1>3, <1>4, <1>8, <2>2, <2>3, Zenon DEF PassesThrough
<1> QED
  BY <1>7, <1>8

\* The invariant implies PassedDistanceHasCause.
LEMMA InvPassed == ASSUME QuantInv PROVE PassedDistanceHasCause
<1> SUFFICES ASSUME space.mode = "PASS", stored # Absent, NEW vec \in PassPoints,
                    NEW ra \in {0, 255}, NEW rb \in {0, 170}
             PROVE  \/ PassesThrough(vec, ra, rb)
                    \/ ReadAsNibbles
                    \/ \E v \in {vec, stored.vec} : ReadAsNegative(v) \/ Wraps(v)
  BY DEF PassedDistanceHasCause, PassesThrough
<1> QED
  BY StoredPasses

\* A larger factor gives a larger product.
LEMMA Monotone ==
    ASSUME NEW a \in Int, NEW b \in Int, NEW d \in Nat, a <= b PROVE a * d <= b * d
<1>1. PICK c \in Nat : b = a + c
  <2>1. b - a \in Nat /\ b = a + (b - a)
    OBVIOUS
  <2> QED BY <2>1
<1>2. (a + c) * d = (a * d) + (c * d)
  OBVIOUS
<1>3. c * d \in Nat
  OBVIOUS
<1>4. a * d \in Int
  OBVIOUS
<1> QED
  BY <1>1, <1>2, <1>3, <1>4

\* Rounding is off by at most a half, and stays between whole bounds.
LEMMA NearbyIntIs ==
    ASSUME NEW n \in Int, NEW d \in Nat \ {0}
    PROVE  /\ NearbyInt(n, d) \in Int
           /\ 2 * (n - NearbyInt(n, d) * d) <= d
           /\ 2 * (NearbyInt(n, d) * d - n) <= d
           /\ n >= 0 => NearbyInt(n, d) >= 0
           /\ \A L \in Nat : n <= L * d => NearbyInt(n, d) <= L
<1>1. PICK q \in Int, r \in 0 .. d - 1 : q = n \div d /\ r = n % d /\ n = (q * d) + r
  <2>1. n \div d \in Int /\ n % d \in 0 .. d - 1 /\ n = ((n \div d) * d) + (n % d)
    BY Divided, Zenon
  <2> QED BY <2>1, Zenon
<1>2. NearbyInt(n, d) = IF 2 * r < d \/ (2 * r = d /\ q % 2 = 0) THEN q ELSE q + 1
  BY <1>1, Zenon DEF NearbyInt
<1>3. PICK N \in {q, q + 1} : N = NearbyInt(n, d) /\ (N = q => 2 * r <= d) /\ (N = q + 1 => 2 * r >= d)
  <2>1. CASE 2 * r < d \/ (2 * r = d /\ q % 2 = 0)
    BY <1>2, <2>1
  <2>2. CASE ~(2 * r < d \/ (2 * r = d /\ q % 2 = 0))
    BY <1>2, <2>2
  <2> QED BY <2>1, <2>2
<1>4. (q + 1) * d = (q * d) + d
  OBVIOUS
<1>5. PICK Q \in Int, M \in Int : Q = q * d /\ M = N * d /\ M = Q + (IF N = q THEN 0 ELSE d)
  BY <1>4
<1>6. 2 * (n - M) <= d /\ 2 * (M - n) <= d
  <2>1. n = Q + r
    BY <1>1, <1>5
  <2> QED BY <1>3, <1>5, <2>1
<1>7. n >= 0 => N >= 0
  <2>1. ASSUME q <= -1 PROVE n < 0
    <3>1. q * d <= (-1) * d
      BY <2>1, Monotone
    <3> QED BY <1>1, <1>5, <3>1
  <2> QED BY <2>1
<1>8. ASSUME NEW L \in Nat, n <= L * d PROVE N <= L
  <2>1. PICK P \in Int : P = L * d
    OBVIOUS
  <2>2. ASSUME q >= L + 1 PROVE FALSE
    <3>1. (L + 1) * d <= q * d /\ (L + 1) * d = P + d
      BY <2>1, <2>2, Monotone
    <3> QED BY <1>1, <1>5, <1>8, <2>1, <3>1
  <2>3. ASSUME q = L PROVE N = q
    <3>1. Q = P
      BY <1>5, <2>1, <2>3
    <3>2. r = 0
      BY <1>1, <1>5, <1>8, <2>1, <3>1
    <3>3. 2 * r < d
      BY <3>2
    <3> QED BY <1>2, <1>3, <3>3
  <2> QED BY <2>2, <2>3
<1>9. N \in Int
  OBVIOUS
<1> QED
  BY <1>3, <1>5, <1>6, <1>7, <1>8, <1>9

\* A linear code of what the bounds cover is a level within half a step of it.
Near(c, v, p) ==
    2 * Abs(c * (p.high - p.low) - (v * p.den - p.low) * Levels(space.type)) <= p.high - p.low

\* Near holds of the codes of numbers between the bounds.
LEMMA LinearCodeIs ==
    ASSUME NEW v \in Int, NEW p, GoodBounds(p), Linear(space.type), v * p.den \in p.low .. p.high
    PROVE  Near(LinearCode(v, p), v, p)
<1>1. p.low \in Int /\ p.high \in Int /\ p.den \in Int /\ p.high > p.low
  BY DEF GoodBounds
<1>2. PICK L \in Nat : L = Levels(space.type)
  BY LevelsAre
<1>3. PICK range \in Nat \ {0} : range = p.high - p.low
  BY <1>1
<1>4. PICK w \in Nat : w = (v * p.den) - p.low /\ w <= range
  <2>1. v * p.den \in Int
    BY <1>1
  <2> QED BY <1>1, <1>3, <2>1
<1>5. PICK x \in Int : x = w * L /\ x >= 0 /\ x <= L * range
  <2>1. w * L <= range * L /\ 0 * L <= w * L
    BY <1>4, Monotone
  <2> QED BY <2>1
<1>6. PICK N \in Int : N = NearbyInt(x, range)
  BY NearbyIntIs
<1>7. /\ 2 * (x - N * range) <= range /\ 2 * (N * range - x) <= range /\ N >= 0 /\ N <= L
  <2>1. /\ 2 * (x - NearbyInt(x, range) * range) <= range
        /\ 2 * (NearbyInt(x, range) * range - x) <= range
        /\ x >= 0 => NearbyInt(x, range) >= 0
        /\ \A l \in Nat : x <= l * range => NearbyInt(x, range) <= l
    BY NearbyIntIs
  <2> QED BY <1>5, <1>6, <2>1
<1>8. LinearCode(v, p) = Clamp(N, 0, L)
  BY <1>2, <1>3, <1>4, <1>5, <1>6, Zenon DEF LinearCode
<1>9. Clamp(N, 0, L) = N
  BY <1>7 DEF Clamp
<1>10. 2 * Abs(N * range - x) <= range
  <2>1. PICK y \in Int : y = N * range - x
    OBVIOUS
  <2>2. 2 * y <= range /\ 2 * (-y) <= range
    BY <1>7, <2>1
  <2>3. 2 * Abs(y) <= range
    BY <2>2 DEF Abs
  <2> QED BY <2>1, <2>3, Zenon
<1> QED
  BY <1>2, <1>3, <1>4, <1>5, <1>8, <1>9, <1>10, Zenon DEF Near

\* The invariant implies Decodes.
LEMMA InvDecodes ==
    ASSUME QuantInv, stored # Absent, space.mode # "PASS", Linear(space.type) PROVE Decodes
<1>1. /\ space \in Spaces /\ params \in Params /\ samples \in SampleSets \union {Absent}
      /\ stored \in StoredPoints /\ Fitted(params, samples) /\ Coded(stored, params)
  BY NowHeld, Zenon DEF Held
<1>2. GoodParams(params)
  BY <1>1, FittedGood, Zenon
<1>3. PICK a \in [Dims -> Int] : a = stored.vec
  BY <1>1 DEF StoredPoints
<1>4. ASSUME NEW d \in Dims, ~stored.refitted, a[d] * params[d].den \in params[d].low .. params[d].high
      PROVE  Near(Field(stored.code, BitsPerElement(space.type), d, 0), a[d], params[d])
  <2>1. stored.code = Quantize(a, params)
    BY <1>1, <1>3, <1>4, Zenon DEF Coded
  <2>2. Field(stored.code, BitsPerElement(space.type), d, 0) = CodeOf(a, params, d)
    BY <1>1, <1>2, <2>1, QuantizeReads, Zenon
  <2>3. space.type # "BIN1" /\ space.type # "INT158"
    BY DEF Linear
  <2>4. CodeOf(a, params, d) = LinearCode(a[d], params[d])
    BY <2>3 DEF CodeOf, TrainedCode
  <2>5. GoodBounds(params[d]) /\ a[d] \in Int
    BY <1>2 DEF GoodParams
  <2> QED BY <1>4, <2>2, <2>4, <2>5, LinearCodeIs, Zenon
<1>5. ASSUME NEW d \in Dims
      PROVE  \/ Near(Field(stored.code, BitsPerElement(space.type), d, 0), stored.vec[d], params[d])
             \/ stored.refitted
             \/ stored.vec[d] * params[d].den \notin params[d].low .. params[d].high
  BY <1>3, <1>4, Zenon
<1> QED
  BY <1>5, Zenon DEF Decodes, Near

\* What it takes to cover the samples of a dimension.
Covers(S, d, p) == \A i \in 1 .. Len(S) : Column(S, d)[i] * p.den \in p.low .. p.high

\* Bounds cover the samples when they cover the least and the greatest.
LEMMA CoversIs ==
    ASSUME NEW S, Samples(S), NEW d \in Dims, NEW p, GoodBounds(p)
    PROVE  Covers(S, d, p) <=> p.low <= Lo(S, d) * p.den /\ Hi(S, d) * p.den <= p.high
<1>1. PICK n, f : /\ n = Len(S) /\ f = Column(S, d) /\ n \in Nat \ {0} /\ f \in [1 .. n -> Int]
                  /\ \A i \in 1 .. n : f[i] = S[i][d]
  BY ColumnIs
<1>2. PICK lo \in Int, hi \in Int : lo = Lo(S, d) /\ hi = Hi(S, d)
  BY LoIs, HiIs
<1>3. PICK low \in Int, high \in Int, den \in Nat : low = p.low /\ high = p.high /\ den = p.den
  BY DEF GoodBounds
<1>4. /\ \A i \in 1 .. n : lo <= f[i] /\ f[i] <= hi
      /\ \E i \in 1 .. n : lo = f[i]
      /\ \E i \in 1 .. n : hi = f[i]
  BY <1>1, <1>2, LoIs, HiIs
<1>5. PICK x \in Int, y \in Int : x = lo * den /\ y = hi * den
  OBVIOUS
<1>6. ASSUME low <= x, y <= high, NEW i \in 1 .. n PROVE f[i] * den \in low .. high
  <2>1. f[i] \in Int /\ lo <= f[i] /\ f[i] <= hi
    BY <1>1, <1>4
  <2>2. lo * den <= f[i] * den /\ f[i] * den <= hi * den
    BY <2>1, Monotone
  <2>3. f[i] * den \in Int
    BY <2>1
  <2> QED BY <1>5, <1>6, <2>2, <2>3
<1>7. ASSUME \A i \in 1 .. n : f[i] * den \in low .. high PROVE low <= x /\ y <= high
  BY <1>4, <1>5, <1>7
<1>8. Covers(S, d, p) <=> \A i \in 1 .. n : f[i] * den \in low .. high
  BY <1>1, <1>3, Zenon DEF Covers
<1> QED
  BY <1>2, <1>3, <1>5, <1>6, <1>7, <1>8

\* The bounds of the L2 space cover the samples.
LEMMA ScaleMinCovers ==
    ASSUME NEW S, Samples(S), NEW d \in Dims PROVE Covers(S, d, ComputeScaleMin(S)[d])
<1>1. PICK lo \in Int, hi \in Int : lo = Lo(S, d) /\ hi = Hi(S, d) /\ hi - lo \in Nat
  <2>1. PICK i \in 1 .. Len(S) : Lo(S, d) = S[i][d]
    BY LoIs
  <2>2. Lo(S, d) <= Hi(S, d)
    BY <2>1, HiIs
  <2>3. Lo(S, d) \in Int /\ Hi(S, d) \in Int
    BY LoIs, HiIs
  <2> QED BY <2>2, <2>3
<1>2. PICK s \in Nat \ {0} : s = Span(hi - lo, 1) /\ s >= hi - lo
  BY <1>1, SpanIs, 1 \in Nat \ {0}
<1>3. PICK p : p = Bounds(lo, lo + s, 0, 1)
  OBVIOUS
<1>4. ComputeScaleMin(S)[d] = p
  BY <1>1, <1>2, <1>3, Zenon DEF ComputeScaleMin
<1>5. GoodBounds(p)
  BY <1>4, ScalesGood, Zenon
<1>6. p.low = lo /\ p.high = lo + s /\ p.den = 1
  BY <1>3 DEF Bounds
<1>7. lo * 1 = lo /\ hi * 1 = hi /\ hi <= lo + s /\ lo <= lo
  BY <1>1, <1>2
<1>8. Covers(S, d, p)
  BY <1>1, <1>5, <1>6, <1>7, CoversIs
<1> QED
  BY <1>4, <1>8

\* So do those that are taken from the centroid.
LEMMA ScaleMinFromCentroidCovers ==
    ASSUME NEW S, Samples(S), NEW d \in Dims PROVE Covers(S, d, ComputeScaleMinFromCentroid(S)[d])
<1>1. PICK lo \in Int, hi \in Int, n \in Nat \ {0}, t \in Int, f \in Nat :
         lo = Lo(S, d) /\ hi = Hi(S, d) /\ n = Len(S) /\ t = Total(S, d) /\ f = Furthest(S, d)
  BY LoIs, HiIs, ColumnIs, TotalIs, FurthestIs
<1>2. (hi * n) - t <= f /\ t - (lo * n) <= f
  BY <1>1, FurthestIs
<1>3. PICK s \in Nat \ {0} : s = Span(2 * f, n) /\ s >= 2 * f
  <2>1. 2 * f \in Nat
    OBVIOUS
  <2> QED BY <2>1, SpanIs
<1>4. PICK p : p = Bounds(t - f, (t - f) + s, 0, n)
  OBVIOUS
<1>5. ComputeScaleMinFromCentroid(S)[d] = p
  BY <1>1, <1>3, <1>4, Zenon DEF ComputeScaleMinFromCentroid
<1>6. GoodBounds(p)
  BY <1>5, ScalesGood, Zenon
<1>7. p.low = t - f /\ p.high = (t - f) + s /\ p.den = n
  BY <1>4 DEF Bounds
<1>8. PICK x \in Int, y \in Int : x = lo * n /\ y = hi * n
  OBVIOUS
<1>9. t - f <= x /\ y <= (t - f) + s
  BY <1>2, <1>3, <1>8
<1>10. Covers(S, d, p)
  BY <1>1, <1>6, <1>7, <1>8, <1>9, CoversIs
<1> QED
  BY <1>5, <1>10

\* The inner-product space.
Centred(S, d) == 2 * Total(S, d) = Len(S) * (Lo(S, d) + Hi(S, d))

\* The inner-product space in mode STANDARD covers them only when they are centred.
LEMMA ScaleOffsetCovers ==
    ASSUME NEW S, Samples(S), NEW d \in Dims
    PROVE  Covers(S, d, ComputeScaleOffset(S)[d]) <=> (space.mode = "CENTROID" \/ Centred(S, d))
<1>1. PICK lo \in Int, hi \in Int, n \in Nat \ {0}, t \in Int, f \in Nat, h \in Nat \ {0} :
         /\ lo = Lo(S, d) /\ hi = Hi(S, d) /\ n = Len(S) /\ t = Total(S, d) /\ f = Furthest(S, d)
         /\ h = Half(S, d)
  <2>1. Lo(S, d) \in Int /\ Hi(S, d) \in Int /\ Len(S) \in Nat \ {0} /\ Total(S, d) \in Int
        /\ Furthest(S, d) \in Nat /\ Half(S, d) \in Nat \ {0}
    BY LoIs, HiIs, ColumnIs, TotalIs, FurthestIs, HalfIs
  <2> QED BY <2>1, Zenon
<1>2. PICK x \in Int, y \in Int : x = lo * n /\ y = hi * n
  OBVIOUS
<1>3. y - t <= f /\ t - x <= f
  BY <1>1, <1>2, FurthestIs
<1>4. PICK p : p = Bounds((2 * t) - h, (2 * t) + h, Levels(space.type), 2 * n)
  OBVIOUS
<1>5. ComputeScaleOffset(S)[d] = p
  BY <1>1, <1>4, ScaleOffsetIs, Zenon
<1>6. GoodBounds(p)
  BY <1>5, ScalesGood, Zenon
<1>7. p.low = (2 * t) - h /\ p.high = (2 * t) + h /\ p.den = 2 * n
  BY <1>4 DEF Bounds
<1>8. lo * (2 * n) = 2 * x /\ hi * (2 * n) = 2 * y
  BY <1>2
<1>9. Covers(S, d, p) <=> (2 * t) - h <= 2 * x /\ 2 * y <= (2 * t) + h
  BY <1>1, <1>6, <1>7, <1>8, CoversIs
<1>10. CASE space.mode = "CENTROID"
  <2>1. RangeOf(S, d) = 4 * f
    BY <1>1, <1>10, Zenon DEF RangeOf
  <2>2. 4 * f # 0 => 2 * h = 4 * f
    BY <1>1, <2>1, HalfIs, Zenon
  <2>3. h >= 2 * f
    BY <2>2
  <2> QED BY <1>3, <1>5, <1>9, <1>10, <2>3
<1>11. CASE space.mode # "CENTROID"
  <2>1. RangeOf(S, d) = (2 * n) * (hi - lo)
    BY <1>1, <1>11, Zenon DEF RangeOf
  <2>2. (2 * n) * (hi - lo) = 2 * (y - x)
    BY <1>2
  <2>3. 2 * (y - x) # 0 => 2 * h = 2 * (y - x)
    BY <1>1, <2>1, <2>2, HalfIs, Zenon
  <2>4. n * (lo + hi) = x + y
    BY <1>2
  <2>5. Centred(S, d) <=> 2 * t = x + y
    BY <1>1, <2>4, Zenon DEF Centred
  <2>6. x <= t /\ t <= y
    BY <1>1, <1>2, TotalIs
  <2>7. CASE x = y
    BY <1>5, <1>9, <1>11, <2>5, <2>6, <2>7
  <2>8. CASE x # y
    <3>1. h = y - x
      BY <2>3, <2>8
    <3> QED BY <1>5, <1>9, <1>11, <2>5, <2>6, <3>1
  <2> QED BY <2>7, <2>8
<1> QED
  BY <1>10, <1>11

\* The invariant implies CoversSamples.
LEMMA InvCovers == ASSUME QuantInv, samples # Absent, Linear(space.type) PROVE CoversSamples
<1>1. /\ space \in Spaces /\ params \in Params /\ samples \in SampleSets \union {Absent}
      /\ stored \in StoredPoints /\ Fitted(params, samples) /\ Coded(stored, params)
  BY NowHeld, Zenon DEF Held
<1>2. Samples(samples) /\ space.mode # "PASS" /\ params = Train(samples)
  BY <1>1, SamplesAre DEF Fitted
<1>3. space.type # "BIN1" /\ space.type # "INT158" /\ space.metric \in {"L2", "IP"}
      /\ space.mode \in {"STANDARD", "CENTROID"}
  BY <1>1, <1>2, SpaceIs DEF Linear
<1>4. ASSUME NEW d \in Dims
      PROVE  Covers(samples, d, params[d]) <=>
                (space.metric = "L2" \/ space.mode = "CENTROID" \/ Centred(samples, d))
  <2>1. CASE space.metric = "L2" /\ space.mode = "STANDARD"
    <3>1. params = ComputeScaleMin(samples)
      BY <1>2, <1>3, <2>1 DEF Train, TrainL2
    <3> QED BY <1>2, <2>1, <3>1, ScaleMinCovers, Zenon
  <2>2. CASE space.metric = "L2" /\ space.mode = "CENTROID"
    <3>1. params = ComputeScaleMinFromCentroid(samples)
      BY <1>2, <1>3, <2>2 DEF Train, TrainL2
    <3> QED BY <1>2, <2>2, <3>1, ScaleMinFromCentroidCovers, Zenon
  <2>3. CASE space.metric # "L2"
    <3>1. params = ComputeScaleOffset(samples)
      BY <1>2, <1>3, <2>3 DEF Train, TrainIP
    <3> QED BY <1>2, <2>3, <3>1, ScaleOffsetCovers, Zenon
  <2> QED BY <1>3, <2>1, <2>2, <2>3
<1> QED
  BY <1>4, Zenon DEF CoversSamples, Covers, Centred

\* Levels are odd: what is past the middle is rounded to its own side.
LEMMA OddSide ==
    ASSUME NEW x \in Int, NEW d \in Nat \ {0}, NEW k \in Nat
    PROVE  /\ 2 * x > ((2 * k) + 1) * d => NearbyInt(x, d) >= k + 1
           /\ 2 * x < ((2 * k) + 1) * d => NearbyInt(x, d) <= k
<1>1. PICK N \in Int : N = NearbyInt(x, d)
  BY NearbyIntIs
<1>2. 2 * (x - N * d) <= d /\ 2 * (N * d - x) <= d
  BY <1>1, NearbyIntIs, Zenon
<1>3. PICK M \in Int, K \in Int : M = N * d /\ K = k * d
  OBVIOUS
<1>4. ((2 * k) + 1) * d = (2 * K) + d
  BY <1>3
<1>5. ASSUME N <= k PROVE M <= K
  BY <1>3, <1>5, Monotone
<1>6. ASSUME N >= k + 1 PROVE M >= K + d
  <2>1. (k + 1) * d <= N * d
    BY <1>6, Monotone
  <2>2. (k + 1) * d = (k * d) + d
    OBVIOUS
  <2> QED BY <1>3, <2>1, <2>2
<1>7. ASSUME 2 * x > (2 * K) + d PROVE N >= k + 1
  BY <1>2, <1>3, <1>5, <1>7
<1>8. ASSUME 2 * x < (2 * K) + d PROVE N <= k
  BY <1>2, <1>3, <1>6, <1>8
<1> QED
  BY <1>1, <1>4, <1>7, <1>8

\* Where a component lies from the mean, and the sign it is to have.
FromMean(x, d) == Len(samples) * x - Total(samples, d)

OnItsSide(x, d, value) == FromMean(x, d) # 0 => Sign(value) = Sign(FromMean(x, d))

\* A linear code is on the side of the middle that its component is of the mean.
LEMMA LinearSide ==
    ASSUME NEW x \in Int, NEW d \in Dims, Samples(samples), Linear(space.type)
    PROVE  OnItsSide(x, d, 2 * LinearCode(x, ComputeScaleOffset(samples)[d]) - Levels(space.type))
<1>1. PICK n \in Nat \ {0}, t \in Int, h \in Nat \ {0} :
         n = Len(samples) /\ t = Total(samples, d) /\ h = Half(samples, d)
  BY ColumnIs, TotalIs, HalfIs
<1>2. PICK L \in Nat : L = Levels(space.type) /\ (L = 15 \/ L = 255)
  BY LevelsAre
<1>3. PICK k \in Nat : L = (2 * k) + 1
  <2>1. 15 = (2 * 7) + 1 /\ 255 = (2 * 127) + 1 /\ 7 \in Nat /\ 127 \in Nat
    OBVIOUS
  <2> QED BY <1>2, <2>1
<1>4. PICK p : p = Bounds((2 * t) - h, (2 * t) + h, L, 2 * n)
  OBVIOUS
<1>18. L = Levels(space.type)
  BY <1>2
<1>5. ComputeScaleOffset(samples)[d] = p
  BY <1>1, <1>18, <1>4, ScaleOffsetIs, Zenon
<1>6. p.low = (2 * t) - h /\ p.high = (2 * t) + h /\ p.den = 2 * n
  BY <1>4 DEF Bounds
<1>7. PICK z \in Int : z = n * x - t
  OBVIOUS
<1>8. (x * p.den) - p.low = (2 * z) + h /\ p.high - p.low = 2 * h
  <2>1. x * (2 * n) = 2 * (n * x)
    OBVIOUS
  <2>2. PICK y \in Int : y = n * x
    OBVIOUS
  <2>3. x * p.den = 2 * y
    BY <1>6, <2>1, <2>2, Zenon
  <2> QED BY <1>6, <1>7, <2>2, <2>3
<1>9. PICK X \in Int, N \in Int : X = ((2 * z) + h) * L /\ N = NearbyInt(X, 2 * h)
  <2>1. ((2 * z) + h) * L \in Int /\ 2 * h \in Nat \ {0}
    OBVIOUS
  <2> QED BY <2>1, NearbyIntType, Zenon
<1>10. LinearCode(x, p) = Clamp(N, 0, L)
  BY <1>18, <1>8, <1>9, Zenon DEF LinearCode
<1>11. PICK Z \in Int, H \in Int : Z = z * L /\ H = h * L
  OBVIOUS
<1>12. 2 * X = (4 * Z) + (2 * H) /\ ((2 * k) + 1) * (2 * h) = 2 * H
  <2>1. ((2 * z) + h) * L = (2 * (z * L)) + (h * L)
    OBVIOUS
  <2>2. ((2 * k) + 1) * (2 * h) = 2 * (h * L)
    BY <1>3
  <2> QED BY <1>9, <1>11, <2>1, <2>2
<1>13. (z > 0 => Z > 0) /\ (z < 0 => Z < 0)
  <2>1. CASE L = 15
    BY <1>11, <2>1
  <2>2. CASE L = 255
    BY <1>11, <2>2
  <2> QED BY <1>2, <2>1, <2>2
<1>14. /\ 2 * X > ((2 * k) + 1) * (2 * h) => N >= k + 1
       /\ 2 * X < ((2 * k) + 1) * (2 * h) => N <= k
  <2>1. PICK D \in Nat \ {0} : D = 2 * h
    OBVIOUS
  <2>2. /\ 2 * X > ((2 * k) + 1) * D => NearbyInt(X, D) >= k + 1
        /\ 2 * X < ((2 * k) + 1) * D => NearbyInt(X, D) <= k
    BY OddSide
  <2> QED BY <1>9, <2>1, <2>2, Zenon
<1>15. (z > 0 => N >= k + 1) /\ (z < 0 => N <= k)
  BY <1>12, <1>13, <1>14
<1>16. PICK c \in Int : c = Clamp(N, 0, L) /\ (z > 0 => (2 * c) - L > 0) /\ (z < 0 => (2 * c) - L < 0)
  BY <1>3, <1>15 DEF Clamp
<1>17. z # 0 => Sign((2 * c) - L) = Sign(z)
  <2>1. z # 0 => z > 0 \/ z < 0
    OBVIOUS
  <2> QED BY <1>16, <2>1 DEF Sign
<1> QED
  BY <1>1, <1>18, <1>5, <1>7, <1>10, <1>16, <1>17, Zenon DEF OnItsSide, FromMean

\* So is a code of one bit.
LEMMA BinSide ==
    ASSUME NEW x \in Int, NEW d \in Dims, Samples(samples)
    PROVE  OnItsSide(x, d, 2 * BinCodeIP(x, ComputeMean(samples)[d]) - 1)
<1>1. PICK n \in Nat \ {0}, t \in Int : n = Len(samples) /\ t = Total(samples, d)
  BY ColumnIs, TotalIs
<1>2. PICK p : p = Bounds(t, t, 0, n)
  OBVIOUS
<1>3. ComputeMean(samples)[d] = p
  BY <1>1, <1>2, Zenon DEF ComputeMean
<1>4. p.high = t /\ p.den = n
  BY <1>2 DEF Bounds
<1>5. PICK y \in Int : y = n * x /\ y = x * n
  OBVIOUS
<1>6. PICK c \in {0, 1} : c = BinCodeIP(x, p) /\ (c = 1 <=> y > t)
  BY <1>4, <1>5 DEF BinCodeIP
<1>7. y - t # 0 => Sign((2 * c) - 1) = Sign(y - t)
  <2>1. PICK z \in Int : z = y - t
    OBVIOUS
  <2>2. z # 0 => z > 0 \/ z < 0
    OBVIOUS
  <2>3. (c = 1 <=> z > 0)
    BY <1>6, <2>1
  <2>4. z # 0 => Sign((2 * c) - 1) = Sign(z)
    BY <2>2, <2>3 DEF Sign
  <2> QED BY <2>1, <2>4, Zenon
<1> QED
  BY <1>1, <1>3, <1>5, <1>6, <1>7, Zenon DEF OnItsSide, FromMean

\* A code of INT158 against the centroid is so, or 0.
LEMMA TernarySide ==
    ASSUME NEW x \in Int, NEW d \in Dims, Samples(samples), space.metric # "L2"
    PROVE  LET value == Ternary(TernaryCode(x, ComputeTernaryThresholdsFromCentroid(samples)[d]))
           IN  value = 0 \/ Sign(value) = Sign(FromMean(x, d))
<1>1. PICK n \in Nat \ {0}, t \in Int : n = Len(samples) /\ t = Total(samples, d)
  BY ColumnIs, TotalIs
<1>2. PICK p : p = Bounds((10 * t) - (Unit * n), (10 * t) + (Unit * n), 0, 10 * n)
  OBVIOUS
<1>3. ComputeTernaryThresholdsFromCentroid(samples)[d] = p
  BY <1>1, <1>2, Zenon DEF ComputeTernaryThresholdsFromCentroid
<1>4. p.low = (10 * t) - (16 * n) /\ p.high = (10 * t) + (16 * n) /\ p.den = 10 * n
  BY <1>2 DEF Bounds, Unit
<1>5. PICK y \in Int : y = n * x /\ x * (10 * n) = 10 * y
  OBVIOUS
<1>6. PICK c \in {0, 1, 2} : c = TernaryCode(x, p) /\ (c = 0 => y - t < 0) /\ (c = 2 => y - t > 0)
  BY <1>4, <1>5 DEF TernaryCode
<1>7. PICK v \in {-1, 0, 1} : v = Ternary(c) /\ (v = -1 => y - t < 0) /\ (v = 1 => y - t > 0)
  BY <1>6 DEF Ternary
<1>8. v = 0 \/ Sign(v) = Sign(y - t)
  BY <1>7 DEF Sign
<1> QED
  BY <1>1, <1>3, <1>5, <1>6, <1>7, <1>8, Zenon DEF FromMean

\* What a code of the inner-product space stands for, in one dimension.
CodedOn(vec, d) ==
    LET value == Value(Quantize(vec, params), d)
    IN  \/ OnItsSide(vec[d], d, value)
        \/ space.type = "INT158" /\ (space.mode = "STANDARD" \/ value = 0)

\* Every trained code of the inner-product space is on the side of its component.
LEMMA CodedSide ==
    ASSUME space \in Spaces, space.mode # "PASS", space.metric = "IP", Samples(samples),
           params = Train(samples), NEW vec \in [Dims -> Int], NEW d \in Dims
    PROVE  CodedOn(vec, d)
<1>1. GoodParams(params)
  BY TrainGood, Zenon
<1>2. PICK n : n = TrainedCode(vec[d], params[d])
  OBVIOUS
<1>3. Field(Quantize(vec, params), BitsPerElement(space.type), d, 0) = n
  BY <1>1, <1>2, QuantizeReads, Zenon DEF CodeOf
<1>4. Value(Quantize(vec, params), d) = IF space.type = "INT158" THEN Ternary(n)
                                         ELSE IF space.metric = "L2" THEN n
                                         ELSE IF space.type = "BIN1" THEN 2 * n - 1
                                         ELSE 2 * n - params[d].offset2
  BY <1>3, Zenon DEF Value
<1>5. space.metric # "L2" /\ vec[d] \in Int /\ space.type \in TrainedTypes
  BY SpaceIs
<1>6. CASE space.type = "BIN1"
  <2>1. params = ComputeMean(samples)
    BY <1>5, <1>6 DEF Train, TrainIP
  <2>2. n = BinCodeIP(vec[d], ComputeMean(samples)[d])
    BY <1>2, <1>5, <1>6, <2>1 DEF TrainedCode
  <2>3. Value(Quantize(vec, params), d) = 2 * n - 1
    BY <1>4, <1>5, <1>6
  <2> QED BY <1>5, <2>2, <2>3, BinSide, Zenon DEF CodedOn
<1>7. CASE space.type = "INT158" /\ space.mode # "STANDARD"
  <2>1. params = ComputeTernaryThresholdsFromCentroid(samples)
    BY <1>5, <1>7 DEF Train, TrainIP, TrainTernary
  <2>2. n = TernaryCode(vec[d], ComputeTernaryThresholdsFromCentroid(samples)[d])
    BY <1>2, <1>7, <2>1 DEF TrainedCode
  <2>3. Value(Quantize(vec, params), d) = Ternary(n)
    BY <1>4, <1>7
  <2> QED BY <1>5, <1>7, <2>2, <2>3, TernarySide, Zenon DEF CodedOn, OnItsSide
<1>8. CASE Linear(space.type)
  <2>1. space.type # "BIN1" /\ space.type # "INT158"
    BY <1>8 DEF Linear
  <2>2. params = ComputeScaleOffset(samples)
    BY <1>5, <2>1 DEF Train, TrainIP
  <2>3. n = LinearCode(vec[d], ComputeScaleOffset(samples)[d])
    BY <1>2, <2>1, <2>2 DEF TrainedCode
  <2>4. params[d].offset2 = Levels(space.type)
    BY <2>2 DEF ComputeScaleOffset, Bounds
  <2>5. Value(Quantize(vec, params), d) = 2 * n - Levels(space.type)
    BY <1>4, <1>5, <2>1, <2>4
  <2> QED BY <1>5, <1>8, <2>3, <2>5, LinearSide, Zenon DEF CodedOn
<1>9. CASE space.type = "INT158" /\ space.mode = "STANDARD"
  BY <1>9 DEF CodedOn
<1> QED
  BY <1>5, <1>6, <1>7, <1>8, <1>9 DEF TrainedTypes, Linear

\* What is 0 makes a product of signs 0.
LEMMA Signs ==
    ASSUME NEW x, NEW y PROVE /\ Sign(x) \in {-1, 0, 1}
                              /\ x = 0 => Sign(x) * Sign(y) = 0
                              /\ y = 0 => Sign(x) * Sign(y) = 0
<1>1. Sign(x) \in {-1, 0, 1} /\ Sign(y) \in {-1, 0, 1}
  BY DEF Sign
<1>2. Sign(0) = 0
  BY DEF Sign
<1>3. \A s \in {-1, 0, 1} : 0 * s = 0 /\ s * 0 = 0
  OBVIOUS
<1> QED
  BY <1>1, <1>2, <1>3

\* The invariant implies KeepsSigns.
LEMMA InvSigns ==
    ASSUME QuantInv, samples # Absent, stored # Absent, space.metric = "IP" PROVE KeepsSigns
<1>1. /\ space \in Spaces /\ params \in Params /\ samples \in SampleSets \union {Absent}
      /\ stored \in StoredPoints /\ Fitted(params, samples) /\ Coded(stored, params)
  BY NowHeld, Zenon DEF Held
<1>2. Samples(samples) /\ space.mode # "PASS" /\ params = Train(samples)
  BY <1>1, SamplesAre DEF Fitted
<1>3. PICK a \in [Dims -> Int] : a = stored.vec
  BY <1>1 DEF StoredPoints
<1>4. \A vec \in [Dims -> Int], d \in Dims : CodedOn(vec, d)
  BY <1>1, <1>2, CodedSide, Zenon
<1>5. ASSUME NEW vec \in TrainedPoints, NEW d \in Dims, ~stored.refitted,
             ~(space.type = "INT158" /\ space.mode = "STANDARD")
      PROVE  LET exact == Sign(FromMean(vec[d], d)) * Sign(FromMean(a[d], d))
                 product == Sign(Value(Quantize(vec, params), d)) * Sign(Value(stored.code, d))
             IN  \/ exact = product
                 \/ exact = 0
                 \/ space.type = "INT158" /\ product = 0
  <2>1. stored.code = Quantize(a, params)
    BY <1>1, <1>2, <1>3, <1>5, Zenon DEF Coded
  <2>2. PICK x, y, p, q : /\ x = FromMean(vec[d], d) /\ y = FromMean(a[d], d)
                          /\ p = Value(Quantize(vec, params), d) /\ q = Value(stored.code, d)
    OBVIOUS
  <2>3. vec \in [Dims -> Int]
    BY PointsAre
  <2>4. \/ (x # 0 => Sign(p) = Sign(x))
        \/ space.type = "INT158" /\ p = 0
    BY <1>4, <1>5, <2>2, <2>3, Zenon DEF CodedOn, OnItsSide
  <2>5. \/ (y # 0 => Sign(q) = Sign(y))
        \/ space.type = "INT158" /\ q = 0
    BY <1>3, <1>4, <1>5, <2>1, <2>2, Zenon DEF CodedOn, OnItsSide
  <2>6. /\ x = 0 => Sign(x) * Sign(y) = 0
        /\ y = 0 => Sign(x) * Sign(y) = 0
        /\ p = 0 => Sign(p) * Sign(q) = 0
        /\ q = 0 => Sign(p) * Sign(q) = 0
    BY Signs, Zenon
  <2>7. \/ Sign(x) * Sign(y) = Sign(p) * Sign(q)
        \/ Sign(x) * Sign(y) = 0
        \/ space.type = "INT158" /\ Sign(p) * Sign(q) = 0
    BY <2>4, <2>5, <2>6, Zenon
  <2> QED BY <2>2, <2>7, Zenon
<1>6. ASSUME NEW vec \in TrainedPoints, NEW d \in Dims
      PROVE  LET exact == Sign(FromMean(vec[d], d)) * Sign(FromMean(stored.vec[d], d))
                 product == Sign(Value(Quantize(vec, params), d)) * Sign(Value(stored.code, d))
             IN  \/ exact = product
                 \/ exact = 0
                 \/ space.type = "INT158" /\ (product = 0 \/ space.mode = "STANDARD")
                 \/ stored.refitted
  BY <1>3, <1>5, Zenon
<1> QED
  BY <1>6, Zenon DEF KeepsSigns, FromMean

\* The samples of a dimension.
Values(S, d) == {S[i][d] : i \in 1 .. Len(S)}

\* When all of them differ, no two samples have the same.
LEMMA DistinctAre ==
    ASSUME NEW S, Samples(S), NEW d \in Dims, Cardinality(Values(S, d)) = Len(S)
    PROVE  \A i, j \in 1 .. Len(S) : S[i][d] = S[j][d] => i = j
<1>1. PICK n, f : /\ n = Len(S) /\ f = Column(S, d) /\ n \in Nat \ {0} /\ f \in [1 .. n -> Int]
                  /\ \A i \in 1 .. n : f[i] = S[i][d]
  BY ColumnIs, SMTT(40)
<1>2. Values(S, d) = {f[i] : i \in 1 .. n}
  BY <1>1 DEF Values
<1>3. PICK T : T = Values(S, d)
  OBVIOUS
<1>4. f \in Surjection(1 .. n, T)
  BY <1>1, <1>2, <1>3 DEF Surjection
<1>5. IsFiniteSet(1 .. n) /\ Cardinality(1 .. n) = n
  BY <1>1, SidesAreFinite, Zenon
<1>6. Cardinality(T) = Cardinality(1 .. n)
  BY <1>1, <1>3, <1>5, Zenon
<1>7. f \in Injection(1 .. n, T)
  BY <1>4, <1>5, <1>6, FS_Surjection, Zenon
<1>8. \A i, j \in 1 .. n : f[i] = f[j] => i = j
  BY <1>7 DEF Injection, IsInjective
<1> QED
  BY <1>1, <1>8

\* Then the sides of an order statistic differ by the one sample that it is.
LEMMA DistinctSides ==
    ASSUME NEW S, Samples(S), NEW d \in Dims, Cardinality(Values(S, d)) = Len(S),
           NEW k \in Nat, k < Len(S)
    PROVE  /\ Cardinality(Below(S, d, Ranked(S, d, k))) = k
           /\ Cardinality(UpTo(S, d, Ranked(S, d, k))) = k + 1
<1>1. PICK v \in Int : v = Ranked(S, d, k)
  BY RankedIs, Zenon
<1>2. PICK b \in Nat, u \in Nat : b = Cardinality(Below(S, d, v)) /\ u = Cardinality(UpTo(S, d, v))
  BY SidesAreFinite, Zenon
<1>3. b <= k /\ u > k
  BY <1>1, <1>2, RankedIs, Zenon
<1>4. PICK i \in 1 .. Len(S) : v = S[i][d]
  BY <1>1, RankedIs, Zenon
<1>5. DOMAIN S = 1 .. Len(S) /\ \A j \in 1 .. Len(S) : S[j][d] \in Int
  BY ColumnIs, Zenon
<1>6. UpTo(S, d, v) = Below(S, d, v) \union {i}
  <2>1. ASSUME NEW j \in 1 .. Len(S) PROVE S[j][d] <= v <=> S[j][d] < v \/ j = i
    <3>1. S[j][d] = v <=> j = i
      BY <1>4, DistinctAre, Zenon
    <3>2. S[j][d] \in Int
      BY <1>5
    <3>3. S[j][d] <= v <=> S[j][d] < v \/ S[j][d] = v
      BY <3>2
    <3> QED BY <3>1, <3>3, Zenon
  <2> QED BY <1>4, <1>5, <2>1, Zenon DEF UpTo, Below
<1>7. i \notin Below(S, d, v)
  BY <1>4 DEF Below
<1>8. u = b + 1
  <2>1. IsFiniteSet(Below(S, d, v))
    BY SidesAreFinite, Zenon
  <2>2. Cardinality(Below(S, d, v) \union {i}) = Cardinality(Below(S, d, v)) + 1
    BY <1>7, <2>1, FS_AddElement
  <2> QED BY <1>2, <1>6, <2>2, Zenon
<1> QED
  BY <1>1, <1>2, <1>3, <1>8

\* The samples with one code, and how many they are.
With(S, d, p, code) == {i \in 1 .. Len(S) : TrainedCode(S[i][d], p) = code}

\* How many samples lie above a number.
LEMMA AboveIs ==
    ASSUME NEW S, Samples(S), NEW d \in Dims, NEW v
    PROVE  /\ Cardinality((1 .. Len(S)) \ UpTo(S, d, v)) = Len(S) - Cardinality(UpTo(S, d, v))
<1>1. IsFiniteSet(1 .. Len(S)) /\ Cardinality(1 .. Len(S)) = Len(S)
  BY SidesAreFinite, Zenon
<1>2. UpTo(S, d, v) \subseteq 1 .. Len(S)
  BY ColumnIs DEF UpTo
<1>3. (1 .. Len(S)) \intersect UpTo(S, d, v) = UpTo(S, d, v)
  BY <1>2
<1>4. Cardinality((1 .. Len(S)) \ UpTo(S, d, v)) =
         Cardinality(1 .. Len(S)) - Cardinality((1 .. Len(S)) \intersect UpTo(S, d, v))
  BY <1>1, FS_Difference, Zenon
<1> QED
  BY <1>1, <1>3, <1>4

\* The median.
LEMMA MedianSplits ==
    ASSUME NEW S, Samples(S), NEW d \in Dims, Cardinality(Values(S, d)) = Len(S),
           space.type = "BIN1", space.metric = "L2", space.mode = "STANDARD"
    PROVE  LET p == ComputeThresholds(S)[d]
           IN  Abs(Cardinality(With(S, d, p, 1)) - Cardinality(With(S, d, p, 0))) <= 2
<1>1. PICK n \in Nat \ {0} : n = Len(S)
  BY ColumnIs
<1>2. PICK k \in Nat : k = n \div 2 /\ k < n
  BY PlacesAre
<1>3. PICK v \in Int : v = Ranked(S, d, k)
  BY <1>1, <1>2, RankedIs, Zenon
<1>4. PICK p : p = Bounds(v, v, 0, 1)
  OBVIOUS
<1>5. ComputeThresholds(S)[d] = p
  BY <1>1, <1>2, <1>3, <1>4, Zenon DEF ComputeThresholds
<1>6. p.high = v /\ p.den = 1
  BY <1>4 DEF Bounds
<1>7. DOMAIN S = 1 .. n /\ \A i \in 1 .. n : S[i][d] \in Int
  BY <1>1, ColumnIs, Zenon
<1>8. ASSUME NEW i \in 1 .. n
      PROVE  TrainedCode(S[i][d], p) = IF S[i][d] <= v THEN 0 ELSE 1
  <2>1. PICK x \in Int : x = S[i][d]
    BY <1>7
  <2>2. TrainedCode(x, p) = BinCode(x, p)
    BY DEF TrainedCode
  <2>3. BinCode(x, p) = IF x * 1 > v THEN 1 ELSE 0
    BY <1>6 DEF BinCode
  <2>4. (x * 1 > v) <=> ~(x <= v)
    OBVIOUS
  <2> QED BY <2>1, <2>2, <2>3, <2>4, Zenon
<1>9. With(S, d, p, 0) = UpTo(S, d, v)
  <2>1. ASSUME NEW i \in 1 .. n PROVE TrainedCode(S[i][d], p) = 0 <=> S[i][d] <= v
    BY <1>8
  <2> QED BY <1>1, <1>7, <2>1, Zenon DEF With, UpTo
<1>10. With(S, d, p, 1) = (1 .. Len(S)) \ UpTo(S, d, v)
  <2>1. ASSUME NEW i \in 1 .. n PROVE TrainedCode(S[i][d], p) = 1 <=> ~(S[i][d] <= v)
    BY <1>8
  <2> QED BY <1>1, <1>7, <2>1, Zenon DEF With, UpTo
<1>11. Cardinality(UpTo(S, d, v)) = k + 1
  BY <1>1, <1>2, <1>3, DistinctSides, Zenon
<1>12. Cardinality((1 .. Len(S)) \ UpTo(S, d, v)) = n - (k + 1)
  BY <1>1, <1>11, AboveIs, Zenon
<1>13. Abs((n - (k + 1)) - (k + 1)) <= 2
  BY <1>2 DEF Abs
<1> QED
  BY <1>5, <1>9, <1>10, <1>11, <1>12, <1>13, Zenon

\* The percentiles.
LEMMA PercentilesSplit ==
    ASSUME NEW S, Samples(S), NEW d \in Dims, Cardinality(Values(S, d)) = Len(S),
           space.type = "INT158"
    PROVE  LET p == ComputeTernaryThresholds(S)[d]
           IN  /\ Abs(Cardinality(With(S, d, p, 2)) - Cardinality(With(S, d, p, 0))) <= 1
               /\ Cardinality(With(S, d, p, 0)) <= Len(S) \div 3
               /\ Cardinality(With(S, d, p, 1)) <= Len(S) \div 3 + 2
<1>1. PICK n \in Nat \ {0} : n = Len(S)
  BY ColumnIs
<1>2. PICK k \in Nat, m \in Nat : k = n \div 3 /\ m = (2 * n) \div 3 /\ k < n /\ m < n
  BY PlacesAre
<1>3. PICK v \in Int, u \in Int : v = Ranked(S, d, k) /\ u = Ranked(S, d, m)
  BY <1>1, <1>2, RankedIs, Zenon
<1>4. PICK p : p = Bounds(v, u, 0, 1)
  OBVIOUS
<1>5. ComputeTernaryThresholds(S)[d] = p
  BY <1>1, <1>2, <1>3, <1>4, Zenon DEF ComputeTernaryThresholds
<1>6. p.low = v /\ p.high = u /\ p.den = 1
  BY <1>4 DEF Bounds
<1>7. DOMAIN S = 1 .. n /\ \A i \in 1 .. n : S[i][d] \in Int
  BY <1>1, ColumnIs, Zenon
<1>8. Cardinality(Below(S, d, v)) = k
  BY <1>1, <1>2, <1>3, DistinctSides, Zenon
<1>9. Cardinality(UpTo(S, d, u)) = m + 1
  BY <1>1, <1>2, <1>3, DistinctSides, Zenon
<1>10. v <= u
  <2>1. SUFFICES ASSUME u < v PROVE FALSE
    OBVIOUS
  <2>2. UpTo(S, d, u) \subseteq Below(S, d, v)
    BY <1>7, <2>1 DEF UpTo, Below
  <2>3. IsFiniteSet(Below(S, d, v))
    BY SidesAreFinite, Zenon
  <2>4. Cardinality(UpTo(S, d, u)) <= Cardinality(Below(S, d, v))
    BY <2>2, <2>3, FS_Subset
  <2>5. m + 1 <= k
    BY <1>8, <1>9, <2>4
  <2> QED BY <1>2, <2>5
<1>11. ASSUME NEW i \in 1 .. n
       PROVE  TrainedCode(S[i][d], p) = IF S[i][d] < v THEN 0 ELSE IF S[i][d] <= u THEN 1 ELSE 2
  <2>1. PICK x \in Int : x = S[i][d]
    BY <1>7
  <2>2. TrainedCode(x, p) = TernaryCode(x, p)
    BY DEF TrainedCode
  <2>3. TernaryCode(x, p) = IF x < v THEN 0 ELSE IF x <= u THEN 1 ELSE 2
    BY <1>6 DEF TernaryCode
  <2> QED BY <2>1, <2>2, <2>3, Zenon
<1>12. With(S, d, p, 0) = Below(S, d, v)
  <2>1. ASSUME NEW i \in 1 .. n PROVE TrainedCode(S[i][d], p) = 0 <=> S[i][d] < v
    BY <1>11
  <2> QED BY <1>1, <1>7, <2>1, Zenon DEF With, Below
<1>13. With(S, d, p, 2) = (1 .. Len(S)) \ UpTo(S, d, u)
  <2>1. ASSUME NEW i \in 1 .. n PROVE TrainedCode(S[i][d], p) = 2 <=> ~(S[i][d] <= u)
    BY <1>7, <1>10, <1>11
  <2> QED BY <1>1, <1>7, <2>1, Zenon DEF With, UpTo
<1>14. With(S, d, p, 1) = UpTo(S, d, u) \ Below(S, d, v)
  <2>1. ASSUME NEW i \in 1 .. n PROVE TrainedCode(S[i][d], p) = 1 <=> S[i][d] <= u /\ ~(S[i][d] < v)
    BY <1>7, <1>10, <1>11
  <2> QED BY <1>1, <1>7, <2>1, Zenon DEF With, UpTo, Below
<1>15. Cardinality(With(S, d, p, 2)) = n - (m + 1)
  BY <1>1, <1>9, <1>13, AboveIs, Zenon
<1>16. Cardinality(With(S, d, p, 1)) = (m + 1) - k
  <2>1. Below(S, d, v) \subseteq UpTo(S, d, u)
    BY <1>7, <1>10 DEF UpTo, Below
  <2>2. UpTo(S, d, u) \intersect Below(S, d, v) = Below(S, d, v)
    BY <2>1
  <2>3. IsFiniteSet(UpTo(S, d, u))
    BY SidesAreFinite, Zenon
  <2>4. Cardinality(UpTo(S, d, u) \ Below(S, d, v)) =
           Cardinality(UpTo(S, d, u)) - Cardinality(UpTo(S, d, u) \intersect Below(S, d, v))
    BY <2>3, FS_Difference, Zenon
  <2> QED BY <1>8, <1>9, <1>14, <2>2, <2>4
<1>17. Abs((n - (m + 1)) - k) <= 1 /\ k <= k /\ (m + 1) - k <= k + 2
  BY <1>2 DEF Abs
<1> QED
  BY <1>1, <1>2, <1>5, <1>8, <1>12, <1>15, <1>16, <1>17, Zenon

\* The mean: the least sample is on one side of it, the greatest on the other.
LEMMA MeanSplits ==
    ASSUME NEW S, Samples(S), NEW d \in Dims, Cardinality(Values(S, d)) > 1, space.type = "BIN1"
    PROVE  LET p == ComputeMean(S)[d]
           IN  Cardinality(With(S, d, p, 0)) > 0 /\ Cardinality(With(S, d, p, 1)) > 0
<1>1. PICK n \in Nat \ {0}, t \in Int, lo \in Int, hi \in Int :
         n = Len(S) /\ t = Total(S, d) /\ lo = Lo(S, d) /\ hi = Hi(S, d)
  BY ColumnIs, TotalIs, LoIs, HiIs
<1>2. \A i \in 1 .. n : S[i][d] \in Int /\ lo <= S[i][d] /\ S[i][d] <= hi
  BY <1>1, ColumnIs, LoIs, HiIs, Zenon
<1>3. lo < hi
  <2>1. SUFFICES ASSUME ~(lo < hi) PROVE FALSE
    OBVIOUS
  <2>2. \A i \in 1 .. n : S[i][d] = lo
    BY <1>2, <2>1
  <2>3. Values(S, d) = {lo}
    <3>1. 1 \in 1 .. n
      OBVIOUS
    <3> QED BY <1>1, <2>2, <3>1 DEF Values
  <2>4. Cardinality(Values(S, d)) = 1
    BY <2>3, FS_Singleton
  <2> QED BY <2>4
<1>4. lo * n < t /\ t < hi * n
  BY <1>1, <1>3, TotalIs
<1>5. PICK p : p = Bounds(t, t, 0, n)
  OBVIOUS
<1>6. ComputeMean(S)[d] = p
  BY <1>1, <1>5, Zenon DEF ComputeMean
<1>7. p.high = t /\ p.den = n
  BY <1>5 DEF Bounds
<1>8. TrainedCode(lo, p) = 0 /\ TrainedCode(hi, p) = 1
  <2>1. PICK x \in Int, y \in Int : x = lo * n /\ y = hi * n
    OBVIOUS
  <2>2. x < t /\ t < y
    BY <1>4, <2>1
  <2>3. BinCode(lo, p) = 0 /\ BinCode(hi, p) = 1
    BY <1>7, <2>1, <2>2 DEF BinCode
  <2>4. BinCodeIP(lo, p) = 0 /\ BinCodeIP(hi, p) = 1
    BY <1>7, <2>1, <2>2 DEF BinCodeIP
  <2> QED BY <2>3, <2>4 DEF TrainedCode
<1>9. With(S, d, p, 0) # {} /\ With(S, d, p, 1) # {}
  <2>1. PICK i \in 1 .. Len(S) : Lo(S, d) = S[i][d]
    BY LoIs
  <2>2. PICK j \in 1 .. Len(S) : Hi(S, d) = S[j][d]
    BY HiIs
  <2> QED BY <1>1, <1>8, <2>1, <2>2, Zenon DEF With
<1>10. ASSUME NEW c PROVE IsFiniteSet(With(S, d, p, c))
  <2>1. IsFiniteSet(1 .. Len(S))
    BY SidesAreFinite, Zenon
  <2>2. With(S, d, p, c) \subseteq 1 .. Len(S)
    BY Zenon DEF With
  <2> QED BY <2>1, <2>2, FS_Subset
<1>11. ASSUME NEW c, With(S, d, p, c) # {} PROVE Cardinality(With(S, d, p, c)) > 0
  <2>1. PICK k \in Nat : k = Cardinality(With(S, d, p, c))
    BY <1>10, FS_CardinalityType, Zenon
  <2>2. k # 0
    BY <1>10, <1>11, <2>1, FS_EmptySet, Zenon
  <2>3. k > 0
    BY <2>2
  <2> QED BY <2>1, <2>3, Zenon
<1> QED
  BY <1>6, <1>9, <1>11, Zenon

\* What SplitsEvenly says of one dimension.
Splits(S, d, p) ==
    LET n == Len(S)
        distinct == Cardinality(Values(S, d)) = n
    IN  CASE space.type = "INT158" ->
                 space.mode = "STANDARD" /\ distinct =>
                    /\ Abs(Cardinality(With(S, d, p, 2)) - Cardinality(With(S, d, p, 0))) <= 1
                    /\ Cardinality(With(S, d, p, 0)) <= n \div 3
                    /\ Cardinality(With(S, d, p, 1)) <= n \div 3 + 2
          [] space.type = "BIN1" /\ space.metric = "L2" /\ space.mode = "STANDARD" ->
                 distinct => Abs(Cardinality(With(S, d, p, 1)) - Cardinality(With(S, d, p, 0))) <= 2
          [] OTHER -> Cardinality(Values(S, d)) > 1 =>
                         Cardinality(With(S, d, p, 0)) > 0 /\ Cardinality(With(S, d, p, 1)) > 0

\* The invariant implies SplitsEvenly.
LEMMA InvSplits == ASSUME QuantInv, samples # Absent, ~Linear(space.type) PROVE SplitsEvenly
<1>1. /\ space \in Spaces /\ params \in Params /\ samples \in SampleSets \union {Absent}
      /\ stored \in StoredPoints /\ Fitted(params, samples) /\ Coded(stored, params)
  BY NowHeld, Zenon DEF Held
<1>2. Samples(samples) /\ space.mode # "PASS" /\ params = Train(samples)
  BY <1>1, SamplesAre DEF Fitted
<1>3. space.type \in {"BIN1", "INT158"} /\ space.metric \in {"L2", "IP"}
      /\ space.mode \in {"STANDARD", "CENTROID"}
  BY <1>1, <1>2, SpaceIs DEF Linear, TrainedTypes
<1>4. ASSUME NEW d \in Dims PROVE Splits(samples, d, params[d])
  <2>1. CASE space.type = "INT158"
    <3>1. ASSUME space.mode = "STANDARD", Cardinality(Values(samples, d)) = Len(samples)
          PROVE  /\ Abs(Cardinality(With(samples, d, params[d], 2)) - Cardinality(With(samples, d, params[d], 0))) <= 1
                 /\ Cardinality(With(samples, d, params[d], 0)) <= Len(samples) \div 3
                 /\ Cardinality(With(samples, d, params[d], 1)) <= Len(samples) \div 3 + 2
      <4>1. params = ComputeTernaryThresholds(samples)
        BY <1>2, <2>1, <3>1 DEF Train, TrainL2, TrainIP, TrainTernary
      <4> QED BY <1>2, <2>1, <3>1, <4>1, PercentilesSplit, Zenon
    <3> QED BY <2>1, <3>1, Zenon DEF Splits
  <2>2. CASE space.type = "BIN1" /\ space.metric = "L2" /\ space.mode = "STANDARD"
    <3>1. params = ComputeThresholds(samples)
      BY <1>2, <2>2 DEF Train, TrainL2
    <3>2. ASSUME Cardinality(Values(samples, d)) = Len(samples)
          PROVE  Abs(Cardinality(With(samples, d, params[d], 1)) - Cardinality(With(samples, d, params[d], 0))) <= 2
      BY <1>2, <2>2, <3>1, <3>2, MedianSplits, Zenon
    <3>3. space.type # "INT158"
      BY <2>2
    <3> QED BY <2>2, <3>2, <3>3, Zenon DEF Splits
  <2>3. CASE space.type = "BIN1" /\ ~(space.metric = "L2" /\ space.mode = "STANDARD")
    <3>1. params = ComputeMean(samples)
      BY <1>2, <1>3, <2>3 DEF Train, TrainL2, TrainIP
    <3>2. ASSUME Cardinality(Values(samples, d)) > 1
          PROVE  /\ Cardinality(With(samples, d, params[d], 0)) > 0
                 /\ Cardinality(With(samples, d, params[d], 1)) > 0
      BY <1>2, <2>3, <3>1, <3>2, MeanSplits, Zenon
    <3>3. space.type # "INT158"
      BY <2>3
    <3> QED BY <2>3, <3>2, <3>3, Zenon DEF Splits
  <2> QED BY <1>3, <2>1, <2>2, <2>3
<1> QED
  BY <1>4, Zenon DEF SplitsEvenly, Splits, With, Values

\* A stored vector is at distance 0 from its own point, or agrees with it in every
\* bit, over saving, loading and retraining, unless the quantiser was fitted anew or
\* the distance reads beyond narrow codes.
THEOREM FindsItselfHolds == QuantSpec => []FindsItself
  BY QuantInvariant, InvFinds, PTL

\* Packed codes have the distance of the vectors they were packed from, in as many
\* dimensions as there are and whatever lies behind them in memory, unless the L2
\* space reads another type than the one packed, a component is read as negative, or
\* one wrapped in the packing.
THEOREM PassedDistanceHasCauseHolds == QuantSpec => []PassedDistanceHasCause
  BY QuantInvariant, InvPassed, PTL

\* The invariant implies TrainedCodesHold.
LEMMA InvHolds == ASSUME QuantInv PROVE TrainedCodesHold
<1>1. QuantTypeOK
  BY Zenon DEF QuantInv
<1>2. stored # Absent /\ space.mode # "PASS" /\ Linear(space.type) => Decodes
  BY InvDecodes
<1>3. samples # Absent /\ Linear(space.type) => CoversSamples
  BY InvCovers
<1>4. samples # Absent /\ ~Linear(space.type) => SplitsEvenly
  BY InvSplits
<1>5. samples # Absent /\ stored # Absent /\ space.metric = "IP" => KeepsSigns
  BY InvSigns
<1> QED
  BY <1>1, <1>2, <1>3, <1>4, <1>5, Zenon DEF TrainedCodesHold

\* Trained codes hold what they are for: linear ones decode to within half a step and
\* cover the samples, those of one or two bits split the samples, and products of
\* components keep their sign.
THEOREM TrainedCodesDoHold == QuantSpec => []TrainedCodesHold
  BY QuantInvariant, InvHolds, PTL
=============================================================================
