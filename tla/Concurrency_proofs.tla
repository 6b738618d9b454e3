------------------------ MODULE Concurrency_proofs ------------------------
(***************************************************************************)
(* What several processes or threads touch at once: the two files of a     *)
(* shard that they share, the offset file, which no lock protects, and the *)
(* lock file itself; and the queue of the thread pool.                     *)
(*                                                                         *)
(* Offset file: for any number of processes, labels and capacities, a      *)
(* process that is alone with it has a table that only grows, and an entry *)
(* with a sentence is lost only to a stale length.                         *)
(*                                                                         *)
(* Lock file: what it guarantees for any number of processes, and what     *)
(* takes the guarantee away.                                               *)
(*                                                                         *)
(* Thread pool: it is a bag of tasks for any number of workers, searches   *)
(* and shards, and a task outlives its search only for a reason.           *)
(***************************************************************************)
EXTENDS OffsetFile, WriteLock, ThreadPool, FiniteSetTheorems, SequenceTheorems, TLAPS

-----------------------------------------------------------------------------
(* The offset file: numbers.                                              *)

\* Growing for a label makes room for it.
LEMMA NewCapacityHolds ==
    \A l \in Labels : NewCapacity(l) \in Sizes /\ l < NewCapacity(l) /\ l \in Slots
<1> TAKE l \in Labels
<1>1. l \in Nat /\ l < MaxSize /\ NewCapacity(l) \in Sizes
  BY SizesAssumption DEF Labels
<1>2. l * 3 \in Nat /\ 2 * l <= l * 3
  BY <1>1
<1>3. \A n \in Nat : 2 * l <= n => l <= n \div 2
  BY <1>1
<1> QED
  BY <1>1, <1>2, <1>3, SizesAssumption DEF NewCapacity, Slots

-----------------------------------------------------------------------------
(* The offset file: types.                                                *)

LEMMA InitType == Init => TypeOK
  BY SizesAssumption DEF Init, TypeOK, TypeVars, Sizes, Entries, Users

\* What the steps of a process do to the file's entries keeps their type.
LEMMA CutType ==
    ASSUME TypeOK, NEW n \in Sizes
    PROVE  /\ Cut(n) \in [Slots -> Entries]
           /\ \A l \in Slots : l >= n => Cut(n)[l] = Zero
           /\ \A l \in Slots : l < n => Cut(n)[l] = entry[l]
  BY SizesAssumption DEF TypeOK, TypeVars, Cut, Entries, Slots, Sizes

LEMMA WriteType ==
    ASSUME TypeOK, NEW p \in Procs, NEW l \in Labels, NEW e \in Entries,
           NEW old \in [Slots -> Entries], len' \in Sizes,
           \A s \in Slots : s >= len' => old[s] = Zero,
           Write(p, l, e, old)
    PROVE  /\ entry' \in [Slots -> Entries]
           /\ \A s \in Slots : s >= len' => entry'[s] = Zero
           /\ \A s \in Slots : s # l => entry'[s] = old[s]
           /\ entry'[l] \in {old[l], e}
           /\ l < len' => entry'[l] = e
           /\ fresh' \in [Procs -> SUBSET Slots]
<1>1. l \in Slots
  BY NewCapacityHolds
<1>2. Slots \subseteq Nat /\ len' \in Nat
  BY SizesAssumption DEF Slots, Sizes
<1>3. fresh' \in [Procs -> SUBSET Slots]
  BY <1>1 DEF Write, Unseen, TypeOK, TypeVars
<1> QED
  BY <1>1, <1>2, <1>3 DEF Write, Set1

LEMMA ForgetType ==
    ASSUME TypeOK, NEW p \in Procs, Forget(p), Goto(p, "closed")
    PROVE  /\ pc' \in [Procs -> {"closed", "looked", "sized", "mapped", "scanned"}]
           /\ want' \in [Procs -> Sizes] /\ size' \in [Procs -> Sizes]
           /\ max' \in [Procs -> Sizes] /\ used' \in [Procs -> Sizes]
           /\ company' \subseteq Users' /\ fresh' \in [Procs -> SUBSET Slots]
           /\ \A q \in Procs : max'[q] <= size'[q]
           /\ Users' = Users \ {p}
<1>1. 0 \in Sizes
  BY SizesAssumption DEF Sizes
<1> QED
  BY <1>1, SizesAssumption DEF TypeOK, TypeVars, Forget, Goto, Set1, Users, Sizes

LEMMA TypeStep == TypeOK /\ [Next]_vars => TypeOK'
<1> SUFFICES ASSUME TypeOK, [Next]_vars PROVE TypeOK'
  OBVIOUS
<1> USE DEF TypeOK, TypeVars
<1>0. (\A n \in Sizes : n \in Nat) /\ (\A n \in Slots : n \in Nat) /\ 0 \in Sizes
  BY SizesAssumption DEF Sizes, Slots
<1>1. ASSUME NEW p \in Procs, Look(p) PROVE TypeOK'
  <2>1. want' \in [Procs -> Sizes]
    BY <1>1, SizesAssumption DEF Look, Set1
  <2> QED
    BY <1>1, <2>1 DEF Look, Goto, Users, fileVars
<1>2. ASSUME NEW p \in Procs, Stat(p) PROVE TypeOK'
  <2>1. size' \in [Procs -> Sizes] /\ max' \in [Procs -> Sizes]
    BY <1>2 DEF Stat, Set1
  <2>2. ASSUME NEW q \in Procs PROVE max'[q] <= size'[q]
    <3>1. want[p] \in Int /\ len \in Int
      BY <1>0
    <3>2. CASE q = p
      BY <1>2, <3>1, <3>2 DEF Stat, Set1
    <3>3. CASE q # p
      BY <1>2, <3>3 DEF Stat, Set1
    <3> QED
      BY <3>2, <3>3
  <2>3. Users \cup {p} \subseteq Users' /\ company' \subseteq Users'
    BY <1>2 DEF Stat, Goto, Users
  <2>4. pc' \in [Procs -> {"closed", "looked", "sized", "mapped", "scanned"}]
    BY <1>2 DEF Stat, Goto
  <2> QED
    BY <1>2, <2>1, <2>2, <2>3, <2>4 DEF Stat, fileVars
<1>3. ASSUME NEW p \in Procs, Map(p) PROVE TypeOK'
  <2>1. PICK fixed \in SUBSET Slots :
           /\ entry' = [l \in Slots |-> IF l \in fixed THEN Zero ELSE Cut(size[p])[l]]
           /\ Unseen(p, fixed)
    BY <1>3 DEF Map
  <2>2. entry' \in [Slots -> Entries] /\ \A l \in Slots : l >= len' => entry'[l] = Zero
    BY <1>3, <2>1, CutType DEF Map, Entries
  <2>3. fresh' \in [Procs -> SUBSET Slots]
    BY <2>1 DEF Unseen
  <2>4. Users' = Users /\ pc' \in [Procs -> {"closed", "looked", "sized", "mapped", "scanned"}]
    BY <1>3 DEF Map, Goto, Users
  <2> QED
    BY <1>3, <2>2, <2>3, <2>4 DEF Map, mapVars
<1>4. ASSUME NEW p \in Procs, NEW l \in Labels, NEW e \in Entries, SetInPlace(p, l, e)
      PROVE TypeOK'
  <2>1. Users' = Users
    BY <1>4 DEF SetInPlace, Users
  <2> QED
    BY <1>4, <2>1, WriteType DEF SetInPlace, mapVars
<1>5. ASSUME NEW p \in Procs, NEW l \in Labels, NEW e \in Entries, SetGrows(p, l, e)
      PROVE TypeOK'
  <2>1. Users' = Users
    BY <1>5 DEF SetGrows, Users
  <2>2. NewCapacity(l) \in Sizes
    BY NewCapacityHolds
  <2>3. size' \in [Procs -> Sizes] /\ max' \in [Procs -> Sizes]
    BY <1>5, <2>2 DEF SetGrows, Set1
  <2>3a. ASSUME NEW q \in Procs PROVE max'[q] <= size'[q]
    <3>1. NewCapacity(l) \in Int
      BY <2>2, <1>0
    <3>2. CASE q = p
      BY <1>5, <3>1, <3>2 DEF SetGrows, Set1
    <3>3. CASE q # p
      BY <1>5, <3>3 DEF SetGrows, Set1
    <3> QED
      BY <3>2, <3>3
  <2>4. /\ entry' \in [Slots -> Entries] /\ fresh' \in [Procs -> SUBSET Slots]
        /\ \A s \in Slots : s >= len' => entry'[s] = Zero
    BY <1>5, <2>2, CutType, WriteType DEF SetGrows
  <2> QED
    BY <1>5, <2>1, <2>2, <2>3, <2>3a, <2>4 DEF SetGrows
<1>6. ASSUME NEW p \in Procs, NEW l \in Labels, NEW e \in Entries, SetAtEnd(p, l, e)
      PROVE TypeOK'
  <2>1. Users' = Users
    BY <1>6 DEF SetAtEnd, Users
  <2> QED
    BY <1>6, <2>1, WriteType DEF SetAtEnd, mapVars
<1>7. ASSUME NEW p \in Procs, Scan(p) PROVE TypeOK'
  <2>1. Users' = Users /\ pc' \in [Procs -> {"closed", "looked", "sized", "mapped", "scanned"}]
    BY <1>7 DEF Scan, Goto, Users
  <2>2. used' \in [Procs -> Sizes]
    BY <1>7 DEF Scan, Set1
  <2> QED
    BY <1>7, <2>1, <2>2 DEF Scan, fileVars, mapVars
<1>8. ASSUME NEW p \in Procs, Shrink(p) PROVE TypeOK'
  <2>1. CASE UNCHANGED fileVars
    BY <1>8, <2>1, ForgetType DEF Shrink, fileVars
  <2>2. ASSUME NEW n \in Sizes, Truncate(n) PROVE TypeOK'
    BY <1>8, <2>2, ForgetType, CutType DEF Shrink, Truncate
  <2>3. size[p] > used[p] + 1 => used[p] + 1 \in Sizes
    BY SizesAssumption DEF Sizes
  <2> QED
    BY <1>8, <1>0, <2>1, <2>2, <2>3 DEF Shrink
<1>9. ASSUME NEW p \in Procs, Crash(p) PROVE TypeOK'
  BY <1>9, ForgetType DEF Crash, fileVars
<1>10. CASE UNCHANGED vars
  BY <1>10 DEF vars, Users
<1> QED
  BY <1>1, <1>2, <1>3, <1>4, <1>5, <1>6, <1>7, <1>8, <1>9, <1>10 DEF Next

\* Every variable keeps its type, whatever processes, labels and capacities there are.
THEOREM TypeCorrect == Spec => []TypeOK
<1>1. Init => TypeOK
  BY InitType
<1>2. TypeOK /\ [Next]_vars => TypeOK'
  BY TypeStep
<1> QED
  BY <1>1, <1>2, PTL DEF Spec

-----------------------------------------------------------------------------
(* The inductive invariant: who shares the file with nobody knows its      *)
(* length and what is in it.                                               *)

\* Nobody else uses the file of a process without company.
Alone == \A p \in Users \ company : Users = {p}

\* Its length is known, or can only have been shorter.
LengthKnown ==
    \A p \in Users \ company :
        IF pc[p] = "sized" THEN len <= size[p] ELSE size[p] = len

\* A scan missed only what was written since.
ScanKnown ==
    \A p \in Procs : pc[p] = "scanned" =>
        /\ used[p] <= size[p]
        /\ \A l \in Slots :
              used[p] <= l /\ l < size[p] /\ entry[l] \in Named =>
                  l \in fresh[p] /\ p \in company
        /\ p \notin company /\ used[p] > 0 => entry[used[p] - 1] \in Named

\* Who does not use the file reads nothing.
NotUserEmpty == \A p \in Procs \ Users : max[p] = 0

IInv == TypeOK /\ Alone /\ LengthKnown /\ ScanKnown /\ NotUserEmpty

LEMMA InitInv == Init => IInv
  BY InitType DEF Init, IInv, Alone, LengthKnown, ScanKnown, NotUserEmpty, Users

\* Leaving is the end of the user's own conditions and changes no other's but
\* through the file.
LEMMA LeaveStep ==
    ASSUME IInv, TypeOK', NEW p \in Procs, Forget(p), Goto(p, "closed"),
           \A l \in Slots : entry'[l] \in {entry[l], Zero},
           p \in Users \/ UNCHANGED fileVars
    PROVE  IInv'
<1> USE DEF IInv
<1>1. Users' = Users \ {p} /\ company' = company \ {p}
  BY ForgetType DEF Forget
<1>2. ASSUME NEW q \in Users' \ company' PROVE Users = {q} /\ UNCHANGED fileVars
  <2>1. q \in Users \ company /\ q # p
    BY <1>1, <1>2
  <2>2. Users = {q}
    BY <2>1 DEF Alone
  <2> QED
    BY <2>1, <2>2
<1>3. \A q \in Procs \ {p} :
         pc'[q] = pc[q] /\ size'[q] = size[q] /\ used'[q] = used[q] /\ fresh'[q] = fresh[q]
  BY DEF Forget, Goto, Set1, TypeOK, TypeVars
<1>4. pc'[p] = "closed" /\ p \notin Users'
  BY <1>1 DEF Goto, TypeOK, TypeVars
<1>5. Alone'
  BY <1>1, <1>2, <1>4 DEF Alone
<1>6. LengthKnown'
  <2> SUFFICES ASSUME NEW q \in Users' \ company'
               PROVE  IF pc'[q] = "sized" THEN len' <= size'[q] ELSE size'[q] = len'
    BY DEF LengthKnown
  <2>1. q # p /\ q \in Procs /\ q \in Users \ company
    BY <1>1, <1>4 DEF Users
  <2> QED
    BY <2>1, <1>2, <1>3 DEF LengthKnown, fileVars
<1>7. ScanKnown'
  <2> SUFFICES ASSUME NEW q \in Procs, pc'[q] = "scanned"
               PROVE  /\ used'[q] <= size'[q]
                      /\ \A l \in Slots :
                            used'[q] <= l /\ l < size'[q] /\ entry'[l] \in Named =>
                                l \in fresh'[q] /\ q \in company'
                      /\ q \notin company' /\ used'[q] > 0 => entry'[used'[q] - 1] \in Named
    BY DEF ScanKnown
  <2>1. q # p /\ pc[q] = "scanned"
    BY <1>3, <1>4
  <2>2. \A l \in Slots : entry'[l] \in Named => entry[l] \in Named
    BY KindsAssumption
  <2>3. q \notin company' => UNCHANGED fileVars
    <3>1. q \in Users'
      BY <2>1 DEF Users, Goto, Set1, TypeOK, TypeVars
    <3> QED
      BY <3>1, <1>2
  <2> QED
    BY <2>1, <2>2, <2>3, <1>1, <1>3 DEF ScanKnown, fileVars
<1>8. NotUserEmpty'
  BY <1>1 DEF NotUserEmpty, Forget, Set1, TypeOK, TypeVars
<1> QED
  BY <1>5, <1>6, <1>7, <1>8

\* The step leaves the other processes alone, and writes only labels in L.
Touches(p, L) ==
    /\ \A q \in Procs \ {p} :
          /\ pc'[q] = pc[q] /\ size'[q] = size[q] /\ used'[q] = used[q]
          /\ fresh[q] \subseteq fresh'[q]
          /\ pc[q] = "scanned" => L \subseteq fresh'[q]
    /\ \A q \in Procs \ Users : max'[q] = max[q]
    /\ \A l \in Slots \ L : entry'[l] \in {entry[l], Zero}

\* What p knows of the length when nobody shares the file.
KnowsLength(p) ==
    p \in Users \ company =>
        IF pc'[p] = "sized" THEN len' <= size'[p] ELSE size'[p] = len'

\* A step of a process that stays among the users, or is not one of them, and
\* that writes no labels but those in L.
LEMMA StayStep ==
    ASSUME IInv, TypeOK', NEW p \in Procs, NEW L \in SUBSET Slots,
           Users' = Users, UNCHANGED company, pc'[p] # "scanned",
           Touches(p, L), p \in Users \/ UNCHANGED fileVars, KnowsLength(p)
    PROVE  IInv'
<1> USE DEF IInv, Touches, KnowsLength
<1>1. Alone'
  BY DEF Alone
<1>2. ASSUME NEW q \in Users \ company, q # p PROVE UNCHANGED fileVars
  BY <1>2 DEF Alone
<1>3. LengthKnown'
  <2> SUFFICES ASSUME NEW q \in Users \ company
               PROVE  IF pc'[q] = "sized" THEN len' <= size'[q] ELSE size'[q] = len'
    BY DEF LengthKnown
  <2>1. CASE q = p
    BY <2>1
  <2>2. CASE q # p
    BY <2>2, <1>2 DEF LengthKnown, Users, fileVars
  <2> QED
    BY <2>1, <2>2
<1>4. ScanKnown'
  <2> SUFFICES ASSUME NEW q \in Procs, pc'[q] = "scanned"
               PROVE  /\ used'[q] <= size'[q]
                      /\ \A l \in Slots :
                            used'[q] <= l /\ l < size'[q] /\ entry'[l] \in Named =>
                                l \in fresh'[q] /\ q \in company'
                      /\ q \notin company' /\ used'[q] > 0 => entry'[used'[q] - 1] \in Named
    BY DEF ScanKnown
  <2>1. q # p /\ pc[q] = "scanned" /\ q \in Users
    BY DEF Users
  <2>2. q \notin company => UNCHANGED fileVars
    BY <2>1, <1>2
  <2>3. ASSUME NEW l \in Slots, used'[q] <= l, l < size'[q], entry'[l] \in Named
        PROVE  l \in fresh'[q] /\ q \in company'
    <3>1. CASE q \notin company
      BY <2>1, <2>2, <2>3, <3>1 DEF ScanKnown, fileVars
    <3>2. CASE q \in company /\ l \in L
      BY <2>1, <3>2
    <3>3. CASE q \in company /\ l \notin L
      <4>1. entry[l] \in Named
        BY <2>3, <3>3, KindsAssumption
      <4> QED
        BY <2>1, <2>3, <3>3, <4>1 DEF ScanKnown
    <3> QED
      BY <3>1, <3>2, <3>3
  <2>4. used'[q] <= size'[q] /\ (q \notin company' /\ used'[q] > 0 => entry'[used'[q] - 1] \in Named)
    BY <2>1, <2>2 DEF ScanKnown, fileVars
  <2> QED
    BY <2>3, <2>4
<1>5. NotUserEmpty'
  BY DEF NotUserEmpty
<1> QED
  BY <1>1, <1>3, <1>4, <1>5

LEMMA WriteStep ==
    ASSUME TypeOK, NEW p \in Procs, NEW l \in Labels, NEW e \in Entries,
           NEW old \in [Slots -> Entries], Write(p, l, e, old)
    PROVE  /\ \A q \in Procs \ {p} :
                 /\ fresh[q] \subseteq fresh'[q]
                 /\ pc[q] = "scanned" => {l} \subseteq fresh'[q]
           /\ \A s \in Slots \ {l} : entry'[s] = old[s]
  BY DEF Write, Unseen, Set1, TypeOK, TypeVars

LEMMA InvStep == IInv /\ [Next]_vars => IInv'
<1> SUFFICES ASSUME IInv, [Next]_vars PROVE IInv'
  OBVIOUS
<1> USE DEF IInv
<1>0. TypeOK' /\ (\A n \in Sizes : n \in Nat) /\ (\A n \in Slots : n \in Nat)
  BY TypeStep, SizesAssumption DEF Sizes, Slots
<1>1. ASSUME NEW p \in Procs, Look(p) PROVE IInv'
  <2>1. Users' = Users /\ pc'[p] # "scanned" /\ p \notin Users
    BY <1>1 DEF Look, Goto, Users, TypeOK, TypeVars
  <2>2. \A q \in Procs \ {p} : pc'[q] = pc[q]
    BY <1>1 DEF Look, Goto, TypeOK, TypeVars
  <2>3. Touches(p, {}) /\ KnowsLength(p)
    BY <1>1, <2>1, <2>2 DEF Look, fileVars, Touches, KnowsLength
  <2> QED
    BY <1>0, <1>1, <2>1, <2>3, StayStep DEF Look, fileVars
<1>2. ASSUME NEW p \in Procs, Stat(p) PROVE IInv'
  <2>1. /\ Users' = Users \cup {p} /\ p \notin Users /\ pc'[p] = "sized"
        /\ \A q \in Procs \ {p} : pc'[q] = pc[q] /\ size'[q] = size[q]
    BY <1>2 DEF Stat, Goto, Users, Set1, TypeOK, TypeVars
  <2>2. company \subseteq company' /\ Users' \ company' \subseteq {p}
    BY <1>2, <2>1 DEF Stat, TypeOK, TypeVars
  <2>3. p \notin company' => Users' = {p}
    BY <1>2, <2>1 DEF Stat
  <2>4. len <= size'[p]
    <3>1. len \in Int /\ want[p] \in Int
      BY <1>0 DEF TypeOK, TypeVars
    <3>2. size'[p] = IF len > want[p] THEN len ELSE want[p]
      BY <1>2 DEF Stat, Set1, TypeOK, TypeVars
    <3> QED
      BY <3>1, <3>2
  <2>5. Alone' /\ LengthKnown'
    BY <1>2, <2>1, <2>2, <2>3, <2>4 DEF Stat, Alone, LengthKnown, fileVars
  <2>6. ScanKnown'
    BY <1>2, <2>1, <2>2 DEF Stat, ScanKnown, fileVars
  <2>7. NotUserEmpty'
    BY <1>2, <2>1 DEF Stat, NotUserEmpty, Set1, TypeOK, TypeVars
  <2> QED
    BY <1>0, <2>5, <2>6, <2>7
<1>3. ASSUME NEW p \in Procs, Map(p) PROVE IInv'
  <2>1. PICK fixed \in SUBSET Slots :
           /\ entry' = [l \in Slots |-> IF l \in fixed THEN Zero ELSE Cut(size[p])[l]]
           /\ Unseen(p, fixed)
    BY <1>3 DEF Map
  <2>2. Users' = Users /\ pc'[p] = "mapped" /\ p \in Users
        /\ \A q \in Procs \ {p} : pc'[q] = pc[q]
    BY <1>3 DEF Map, Goto, Users, TypeOK, TypeVars
  <2>3. \A l \in Slots : entry'[l] \in {entry[l], Zero}
    BY <2>1 DEF Cut
  <2>4. \A q \in Procs : fresh[q] \subseteq fresh'[q]
    BY <2>1 DEF Unseen
  <2>5. Touches(p, {}) /\ KnowsLength(p)
    BY <1>3, <2>2, <2>3, <2>4 DEF Map, mapVars, Touches, KnowsLength
  <2> QED
    BY <1>0, <1>3, <2>2, <2>5, StayStep DEF Map
<1>4. ASSUME NEW p \in Procs, NEW l \in Labels, NEW e \in Entries, SetInPlace(p, l, e)
      PROVE IInv'
  <2>1. Users' = Users /\ p \in Users /\ l \in Slots
    BY <1>4, NewCapacityHolds DEF SetInPlace, Users
  <2>2. /\ \A q \in Procs \ {p} : /\ fresh[q] \subseteq fresh'[q]
                                  /\ pc[q] = "scanned" => {l} \subseteq fresh'[q]
        /\ \A s \in Slots \ {l} : entry'[s] = entry[s]
    BY <1>4, WriteStep DEF SetInPlace, TypeOK, TypeVars
  <2>3. p \in Users \ company => size[p] = len
    BY <1>4 DEF SetInPlace, LengthKnown
  <2>4. Touches(p, {l}) /\ KnowsLength(p)
    BY <1>4, <2>2, <2>3 DEF SetInPlace, mapVars, Touches, KnowsLength
  <2> QED
    BY <1>0, <1>4, <2>1, <2>4, StayStep DEF SetInPlace
<1>5. ASSUME NEW p \in Procs, NEW l \in Labels, NEW e \in Entries, SetGrows(p, l, e)
      PROVE IInv'
  <2>1. Users' = Users /\ p \in Users /\ l \in Slots
    BY <1>5, NewCapacityHolds DEF SetGrows, Users
  <2>2. Cut(NewCapacity(l)) \in [Slots -> Entries]
    BY NewCapacityHolds, CutType
  <2>3. /\ \A q \in Procs \ {p} : /\ fresh[q] \subseteq fresh'[q]
                                  /\ pc[q] = "scanned" => {l} \subseteq fresh'[q]
        /\ \A s \in Slots \ {l} : entry'[s] = Cut(NewCapacity(l))[s]
    BY <1>5, <2>2, WriteStep DEF SetGrows
  <2>4. \A s \in Slots \ {l} : entry'[s] \in {entry[s], Zero}
    BY <2>3 DEF Cut
  <2>5. size'[p] = len' /\ \A q \in Procs \ {p} : size'[q] = size[q]
    BY <1>5 DEF SetGrows, Set1, TypeOK, TypeVars
  <2>6. pc'[p] = "mapped"
    BY <1>5 DEF SetGrows
  <2>7. Touches(p, {l}) /\ KnowsLength(p)
    <3>1. \A q \in Procs \ Users : max'[q] = max[q]
      BY <1>5, <2>1 DEF SetGrows, Set1, TypeOK, TypeVars
    <3> QED
      BY <1>5, <2>3, <2>4, <2>5, <2>6, <3>1 DEF SetGrows, Touches, KnowsLength
  <2> QED
    BY <1>0, <1>5, <2>1, <2>6, <2>7, StayStep DEF SetGrows
<1>6. ASSUME NEW p \in Procs, NEW l \in Labels, NEW e \in Entries, SetAtEnd(p, l, e)
      PROVE IInv'
  <2>1. Users' = Users /\ p \in Users /\ l \in Slots /\ pc'[p] = "mapped"
    BY <1>6, NewCapacityHolds DEF SetAtEnd, Users
  <2>2. p \in Users \ company => size[p] = len
    BY <1>6 DEF SetAtEnd, LengthKnown
  <2>3. CASE UNCHANGED <<entry, fresh>>
    <3>1. Touches(p, {}) /\ KnowsLength(p)
      BY <1>6, <2>2, <2>3 DEF SetAtEnd, mapVars, Touches, KnowsLength
    <3> QED
      BY <1>0, <1>6, <2>1, <3>1, StayStep DEF SetAtEnd
  <2>4. CASE Write(p, l, e, entry)
    <3>1. /\ \A q \in Procs \ {p} : /\ fresh[q] \subseteq fresh'[q]
                                    /\ pc[q] = "scanned" => {l} \subseteq fresh'[q]
          /\ \A s \in Slots \ {l} : entry'[s] = entry[s]
      BY <2>4, WriteStep DEF TypeOK, TypeVars
    <3>2. Touches(p, {l}) /\ KnowsLength(p)
      BY <1>6, <2>2, <3>1 DEF SetAtEnd, mapVars, Touches, KnowsLength
    <3> QED
      BY <1>0, <1>6, <2>1, <3>2, StayStep DEF SetAtEnd
  <2> QED
    BY <1>6, <2>3, <2>4 DEF SetAtEnd
<1>7. ASSUME NEW p \in Procs, Scan(p) PROVE IInv'
  <2>1. PICK u \in Sizes : IsUsed(size[p], u) /\ used' = Set1(used, p, u)
    BY <1>7 DEF Scan
  <2>2. /\ Users' = Users /\ pc[p] = "mapped" /\ pc'[p] = "scanned" /\ used'[p] = u
        /\ \A q \in Procs \ {p} : pc'[q] = pc[q] /\ used'[q] = used[q]
    BY <1>7, <2>1 DEF Scan, Goto, Users, Set1, TypeOK, TypeVars
  <2>3. Alone' /\ LengthKnown'
    BY <1>7, <2>2 DEF Scan, Alone, LengthKnown, Users, fileVars, mapVars
  <2>4. /\ u <= size[p]
        /\ \A l \in Slots : u <= l /\ l < size[p] => entry[l] \notin Named
        /\ u > 0 => entry[u - 1] \in Named
    BY <2>1 DEF IsUsed, TypeOK, TypeVars
  <2>5. ScanKnown'
    BY <1>7, <2>2, <2>4 DEF Scan, ScanKnown, fileVars, mapVars
  <2>6. NotUserEmpty'
    BY <1>7, <2>2 DEF Scan, NotUserEmpty, mapVars
  <2> QED
    BY <1>0, <2>3, <2>5, <2>6
<1>8. ASSUME NEW p \in Procs, Shrink(p) PROVE IInv'
  <2>1. p \in Users /\ Forget(p) /\ Goto(p, "closed")
    BY <1>8 DEF Shrink, Users
  <2>2. \A l \in Slots : entry'[l] \in {entry[l], Zero}
    BY <1>8 DEF Shrink, Truncate, Cut, fileVars
  <2> QED
    BY <1>0, <2>1, <2>2, LeaveStep
<1>9. ASSUME NEW p \in Procs, Crash(p) PROVE IInv'
  BY <1>0, <1>9, LeaveStep DEF Crash, fileVars
<1>10. CASE UNCHANGED vars
  BY <1>0, <1>10 DEF vars, Alone, LengthKnown, ScanKnown, NotUserEmpty, Users
<1> QED
  BY <1>1, <1>2, <1>3, <1>4, <1>5, <1>6, <1>7, <1>8, <1>9, <1>10 DEF Next

LEMMA Invariant == Spec => []IInv
<1>1. Init => IInv
  BY InitInv
<1>2. IInv /\ [Next]_vars => IInv'
  BY InvStep
<1> QED
  BY <1>1, <1>2, PTL DEF Spec

\* A process that has the file for itself maps exactly the file.
THEOREM SoleUserIsBacked == Spec => []SoleUserBacked
<1>1. IInv => SoleUserBacked
  BY DEF IInv, LengthKnown, SoleUserBacked, Mapped, Users
<1> QED
  BY <1>1, Invariant, PTL

-----------------------------------------------------------------------------
(* How an entry is lost.                                                   *)

\* Alone with the file, a process knows where its last entry stands.
LEMMA AloneBehindEnd ==
    ASSUME IInv, NEW p \in Users, NEW l \in Slots, entry[l] # Zero, l >= size[p]
    PROVE  p \in company
<1>1. l \in Int /\ len \in Int /\ size[p] \in Int /\ l < len
  BY SizesAssumption DEF IInv, TypeOK, TypeVars, Slots, Sizes, Users
<1> QED
  BY <1>1 DEF IInv, LengthKnown

LEMMA LossStep ==
    ASSUME IInv, [Next]_vars, NEW l \in Slots, entry[l] \in Named, entry'[l] = Zero
    PROVE  Excused(l)
<1>0. entry[l] # Zero /\ \A n \in Sizes : n \in Nat
  BY KindsAssumption, SizesAssumption DEF Sizes
<1>1. ASSUME NEW p \in Procs, NEW k \in Labels, NEW e \in Entries, SetInPlace(p, k, e)
      PROVE  Excused(l)
  <2>1. k = l /\ e = Zero
    BY <1>0, <1>1 DEF SetInPlace, Write, Set1, IInv, TypeOK, TypeVars
  <2> QED
    BY <1>1, <2>1 DEF Excused
<1>2. ASSUME NEW p \in Procs, NEW k \in Labels, NEW e \in Entries, SetGrows(p, k, e)
      PROVE  Excused(l)
  <2>1. NewCapacity(k) \in Nat /\ k < NewCapacity(k) /\ k \in Slots
    BY <1>0, NewCapacityHolds
  <2>2. entry' = [Cut(NewCapacity(k)) EXCEPT ![k] = e]
    BY <1>2, <2>1 DEF SetGrows, Write, Set1
  <2>3. CASE k = l
    BY <1>2, <2>1, <2>2, <2>3 DEF Excused, Cut
  <2>4. CASE k # l
    <3>1. entry'[l] = Cut(NewCapacity(k))[l]
      BY <2>2, <2>4 DEF Cut
    <3>2. l >= NewCapacity(k)
      BY <1>0, <3>1, <2>1, SizesAssumption DEF Cut, Slots
    <3>3. l >= size[p]
      BY <1>0, <1>2, <2>1, <3>2, SizesAssumption DEF SetGrows, IInv, TypeOK, TypeVars, Slots
    <3>4. p \in company
      BY <1>0, <1>2, <3>3, AloneBehindEnd DEF SetGrows, Users
    <3> QED
      BY <1>2, <3>2, <3>3, <3>4 DEF SetGrows, Excused, StaleLength
  <2> QED
    BY <2>3, <2>4
<1>3. ASSUME NEW p \in Procs, NEW k \in Labels, NEW e \in Entries, SetAtEnd(p, k, e)
      PROVE  Excused(l)
  <2>1. k = l /\ e = Zero
    BY <1>0, <1>3 DEF SetAtEnd, Write, Set1, IInv, TypeOK, TypeVars
  <2> QED
    BY <1>3, <2>1 DEF Excused
<1>4. ASSUME NEW p \in Procs, Map(p) PROVE Excused(l)
  <2>1. PICK fixed \in {{}, {s \in Slots : s < max[p] /\ Cut(size[p])[s] \in Bad}} :
           entry' = [s \in Slots |-> IF s \in fixed THEN Zero ELSE Cut(size[p])[s]]
    BY <1>4 DEF Map
  <2>2. CASE l < size[p]
    <3>1. Cut(size[p])[l] = entry[l]
      BY <2>2 DEF Cut
    <3>2. l \in fixed
      BY <1>0, <2>1, <3>1
    <3> QED
      BY <1>4, <2>1, <3>1, <3>2 DEF Excused
  <2>3. CASE l >= size[p]
    <3>1. p \in company
      BY <1>0, <1>4, <2>3, AloneBehindEnd DEF Map, Users
    <3> QED
      BY <1>4, <2>3, <3>1 DEF Map, Excused, StaleLength
  <2>4. l \in Int /\ size[p] \in Int
    BY <1>0, SizesAssumption DEF Slots, IInv, TypeOK, TypeVars
  <2> QED
    BY <2>2, <2>3, <2>4
<1>5. ASSUME NEW p \in Procs, Shrink(p) PROVE Excused(l)
  <2>0. l \in Nat /\ size[p] \in Nat /\ used[p] \in Nat /\ p \in Users /\ pc[p] = "scanned"
    BY <1>0, <1>5, SizesAssumption DEF Slots, IInv, TypeOK, TypeVars, Shrink, Users
  <2>1. l >= len' /\ used[p] <= l
    <3>1. CASE UNCHANGED fileVars
      BY <1>0, <3>1 DEF fileVars
    <3>2. CASE used[p] = 0 /\ Truncate(0)
      BY <2>0, <3>2 DEF Truncate
    <3>3. CASE Truncate(used[p] + 1)
      BY <1>0, <2>0, <3>3 DEF Truncate, Cut
    <3> QED
      BY <1>5, <3>1, <3>2, <3>3 DEF Shrink
  <2>2. CASE l >= size[p]
    <3>1. p \in company
      BY <1>0, <2>0, <2>2, AloneBehindEnd
    <3> QED
      BY <2>1, <2>2, <3>1 DEF Excused, StaleLength
  <2>3. CASE l < size[p]
    <3>1. l \in fresh[p] /\ p \in company
      BY <2>0, <2>1, <2>3 DEF IInv, ScanKnown
    <3> QED
      BY <2>1, <3>1 DEF Excused, StaleLength
  <2> QED
    BY <2>0, <2>2, <2>3
<1>6. entry' # entry
  BY <1>0
<1>7. ASSUME NEW p \in Procs, Look(p) \/ Stat(p) \/ Scan(p) \/ Crash(p) PROVE FALSE
  BY <1>6, <1>7 DEF Look, Stat, Scan, Crash, fileVars
<1> QED
  BY <1>1, <1>2, <1>3, <1>4, <1>5, <1>6, <1>7 DEF Next, vars

\* An entry with a sentence is lost only by removal, by repair, or to a process
\* that shares the file and sets a length it learnt before the entry was written.
THEOREM LossIsAlwaysStale == Spec => LossIsStale
<1>1. IInv /\ [Next]_vars =>
          [\A l \in Slots : entry[l] \in Named /\ entry'[l] = Zero => Excused(l)]_vars
  BY LossStep
<1> QED
  BY <1>1, Invariant, PTL DEF Spec, LossIsStale

-----------------------------------------------------------------------------
(* The file is a table.                                                    *)

LEMMA InitTable == Init => Table!TableInit
  BY DEF Init, Table!TableInit, Users

\* What a process in company does to the entries and its own room is a
\* disturbance.
LEMMA Disturbs ==
    ASSUME TypeOK, TypeOK', NEW p \in company, NEW l \in Slots, NEW e \in Entries,
           \A s \in Slots : entry'[s] \in {entry[s], Zero, [entry EXCEPT ![l] = e][s]},
           \A q \in Procs \ {p} : max'[q] = max[q],
           Users' = Users, UNCHANGED company
    PROVE  Table!TableNext
<1> DEFINE S == {s \in Slots : entry'[s] = Zero}
           T == {s \in Slots : entry'[s] # entry[s] /\ entry'[s] # Zero}
<1>1. p \in Procs /\ entry' \in [Slots -> Entries] /\ entry \in [Slots -> Entries]
  BY DEF TypeOK, TypeVars, Users
<1>2. max' = [max EXCEPT ![p] = max'[p]] /\ max'[p] \in Sizes
  BY <1>1 DEF TypeOK, TypeVars
<1>3. entry' = [s \in Slots |-> IF s \in S THEN Zero ELSE entry'[s]]
  BY <1>1
<1>4. CASE entry'[l] = e
  <2>1. entry' = [s \in Slots |-> IF s \in S THEN Zero ELSE [entry EXCEPT ![l] = e][s]]
    BY <1>1, <1>3, <1>4
  <2>2. Table!Lost([entry EXCEPT ![l] = e])
    BY <2>1 DEF Table!Lost
  <2> QED
    BY <1>1, <1>2, <2>2 DEF Table!TableNext, Table!Disturb, Table!Entries, Entries
<1>5. CASE entry'[l] # e
  <2>1. entry' = [s \in Slots |-> IF s \in S THEN Zero ELSE entry[s]]
    BY <1>1, <1>3, <1>5
  <2>2. Table!Lost(entry)
    BY <2>1 DEF Table!Lost
  <2> QED
    BY <1>1, <1>2, <2>2 DEF Table!TableNext, Table!Disturb
<1> QED
  BY <1>4, <1>5

LEMMA TableStep ==
    ASSUME IInv, IInv', [Next]_vars
    PROVE  [Table!TableNext]_(Table!tableVars)
<1> SUFFICES ASSUME UNCHANGED Table!tableVars => FALSE PROVE Table!TableNext
  OBVIOUS
<1> USE DEF IInv
<1>0. (\A n \in Sizes : n \in Nat) /\ (\A n \in Slots : n \in Nat) /\ 0 \in Sizes
  BY SizesAssumption DEF Sizes, Slots
<1>a. UNCHANGED <<entry, Users, max, company>> => FALSE
  BY DEF Table!tableVars
<1>1. ASSUME NEW p \in Procs, Look(p) PROVE FALSE
  BY <1>1, <1>a DEF Look, Goto, Users, fileVars, TypeOK, TypeVars
<1>2. ASSUME NEW p \in Procs, Stat(p) PROVE Table!TableNext
  <2>1. p \notin Users /\ Users' = Users \cup {p} /\ want[p] \in Sizes
    BY <1>2 DEF Stat, Goto, Users, TypeOK, TypeVars
  <2>2. company' = IF Users = {} THEN company ELSE Users'
    BY <1>2, <2>1 DEF Stat, TypeOK, TypeVars
  <2>3. Table!Enter(p, want[p])
    BY <1>2, <2>1, <2>2 DEF Stat, Table!Enter, Set1, fileVars
  <2> QED
    BY <2>1, <2>3 DEF Table!TableNext
<1>3. ASSUME NEW p \in Procs, Map(p) PROVE Table!TableNext
  <2>0. Users' = Users /\ p \in Users /\ pc[p] = "sized" /\ size[p] \in Nat /\ len \in Nat
    BY <1>0, <1>3 DEF Map, Goto, Users, TypeOK, TypeVars
  <2>1. PICK fixed \in {{}, {s \in Slots : s < max[p] /\ Cut(size[p])[s] \in Bad}} :
           entry' = [s \in Slots |-> IF s \in fixed THEN Zero ELSE Cut(size[p])[s]]
    BY <1>3 DEF Map
  <2>2. CASE p \in company
    <3>1. \A s \in Slots : entry'[s] \in {entry[s], Zero}
      BY <2>1 DEF Cut
    <3>2. UNCHANGED <<max, company>>
      BY <1>3 DEF Map, mapVars
    <3>3. CASE Slots = {}
      BY <1>a, <2>0, <2>1, <3>2, <3>3 DEF TypeOK, TypeVars
    <3>4. ASSUME NEW l \in Slots PROVE Table!TableNext
      <4>1. entry[l] \in Entries
        BY DEF TypeOK, TypeVars
      <4> QED
        BY <2>0, <2>2, <3>1, <3>2, <3>4, <4>1, Disturbs
    <3> QED
      BY <3>3, <3>4
  <2>3. CASE p \notin company
    <3>1. len <= size[p]
      BY <2>0, <2>3 DEF LengthKnown
    <3>2. ASSUME NEW s \in Slots PROVE Cut(size[p])[s] = entry[s]
      BY <1>0, <2>0, <3>1 DEF Cut, TypeOK
    <3>3. CASE fixed = {}
      <4>1. entry' = entry
        BY <2>1, <3>2, <3>3 DEF TypeOK, TypeVars
      <4> QED
        BY <1>a, <1>3, <2>0, <4>1 DEF Map, mapVars
    <3>4. CASE fixed = {s \in Slots : s < max[p] /\ Cut(size[p])[s] \in Bad}
      <4>1. entry' = [s \in Slots |-> IF entry[s] \in Bad /\ s < max[p] THEN Zero ELSE entry[s]]
        BY <2>1, <3>2, <3>4
      <4>2. Table!Repair(p)
        BY <1>3, <2>0, <4>1 DEF Table!Repair, Map, mapVars
      <4> QED
        BY <4>2 DEF Table!TableNext
    <3> QED
      BY <2>1, <3>3, <3>4
  <2> QED
    BY <2>2, <2>3
<1>4. ASSUME NEW p \in Procs, NEW l \in Labels, NEW e \in Entries, SetInPlace(p, l, e)
      PROVE  Table!TableNext
  <2>0. Users' = Users /\ p \in Users /\ l \in Slots /\ l \in Nat /\ UNCHANGED <<max, company>>
        /\ size[p] \in Nat /\ max[p] \in Nat
    BY <1>0, <1>4, NewCapacityHolds DEF SetInPlace, Users, mapVars, TypeOK, TypeVars
  <2>1. entry' \in {entry, [entry EXCEPT ![l] = e]}
    BY <1>4 DEF SetInPlace, Write, Set1
  <2>2. CASE p \in company
    BY <2>0, <2>1, <2>2, Disturbs DEF TypeOK, TypeVars
  <2>3. CASE p \notin company
    <3>1. size[p] = len
      BY <1>4, <2>0, <2>3 DEF SetInPlace, LengthKnown
    <3>2. l < len
      <4>1. NewCapacity(l) \in Nat /\ l < NewCapacity(l)
        BY <1>0, NewCapacityHolds
      <4> QED
        BY <1>4, <2>0, <3>1, <4>1 DEF SetInPlace, TypeOK
    <3>3. entry' = [entry EXCEPT ![l] = e]
      BY <1>4, <3>2 DEF SetInPlace, Write, Set1
    <3>4. Table!Put(p, l, e)
      BY <1>4, <2>0, <3>3 DEF SetInPlace, Table!Put
    <3> QED
      BY <2>0, <3>4 DEF Table!TableNext, Table!Entries, Entries
  <2> QED
    BY <2>2, <2>3
<1>5. ASSUME NEW p \in Procs, NEW l \in Labels, NEW e \in Entries, SetGrows(p, l, e)
      PROVE  Table!TableNext
  <2>0. /\ Users' = Users /\ p \in Users /\ l \in Slots /\ l \in Nat /\ UNCHANGED company
        /\ size[p] \in Nat /\ max[p] \in Nat /\ pc[p] = "mapped"
        /\ max' = [max EXCEPT ![p] = NewCapacity(l)] /\ l > max[p]
    BY <1>0, <1>5, NewCapacityHolds DEF SetGrows, Users, Set1, TypeOK, TypeVars
  <2>1. NewCapacity(l) \in Sizes /\ NewCapacity(l) \in Nat /\ l < NewCapacity(l)
    BY <1>0, NewCapacityHolds
  <2>2. entry' = [Cut(NewCapacity(l)) EXCEPT ![l] = e]
    BY <1>5, <2>1 DEF SetGrows, Write, Set1
  <2>3. CASE p \in company
    <3>1. \A s \in Slots : entry'[s] \in {entry[s], Zero, [entry EXCEPT ![l] = e][s]}
      BY <2>2 DEF Cut, TypeOK, TypeVars
    <3>2. \A q \in Procs \ {p} : max'[q] = max[q]
      BY <2>0 DEF TypeOK, TypeVars
    <3> QED
      BY <2>0, <2>3, <3>1, <3>2, Disturbs
  <2>4. CASE p \notin company
    <3>1. size[p] = len /\ len < NewCapacity(l)
      BY <1>5, <2>0, <2>4 DEF SetGrows, LengthKnown
    <3>2. Cut(NewCapacity(l)) = entry
      <4>1. ASSUME NEW s \in Slots PROVE Cut(NewCapacity(l))[s] = entry[s]
        BY <1>0, <2>1, <3>1 DEF Cut, TypeOK, TypeVars
      <4>2. entry = [s \in Slots |-> entry[s]]
        BY DEF TypeOK, TypeVars
      <4>3. Cut(NewCapacity(l)) = [s \in Slots |-> Cut(NewCapacity(l))[s]]
        BY DEF Cut
      <4> QED
        BY <4>1, <4>2, <4>3
    <3>3. Table!Put(p, l, e)
      <4>1. entry' = [entry EXCEPT ![l] = e]
        BY <2>2, <3>2
      <4>2. \E n \in Sizes : n > l /\ l > max[p] /\ max' = [max EXCEPT ![p] = n]
        BY <2>0, <2>1
      <4>3. l # max[p]
        BY <2>0
      <4> QED
        BY <2>0, <4>1, <4>2, <4>3 DEF Table!Put
    <3> QED
      BY <2>0, <3>3 DEF Table!TableNext, Table!Entries, Entries
  <2> QED
    BY <2>3, <2>4
<1>6. ASSUME NEW p \in Procs, NEW l \in Labels, NEW e \in Entries, SetAtEnd(p, l, e)
      PROVE  Table!TableNext
  <2>0. Users' = Users /\ p \in Users /\ l \in Slots /\ UNCHANGED <<max, company>> /\ l = max[p]
    BY <1>6, NewCapacityHolds DEF SetAtEnd, Users, mapVars
  <2>1. entry' \in {entry, [entry EXCEPT ![l] = e]}
    BY <1>6 DEF SetAtEnd, Write, Set1
  <2>2. Table!Overrun(p, l, e)
    BY <2>0, <2>1 DEF Table!Overrun
  <2> QED
    BY <2>0, <2>2 DEF Table!TableNext, Table!Entries, Entries
<1>7. ASSUME NEW p \in Procs, Scan(p) PROVE FALSE
  BY <1>7, <1>a DEF Scan, Goto, Users, fileVars, mapVars, TypeOK, TypeVars
<1>8. ASSUME NEW p \in Procs, Shrink(p) PROVE Table!TableNext
  <2>0. /\ p \in Users /\ pc[p] = "scanned" /\ used[p] \in Sizes /\ used[p] \in Nat
        /\ size[p] \in Nat /\ Users' = Users \ {p} /\ company' = company \ {p}
        /\ max' = [max EXCEPT ![p] = 0]
    BY <1>0, <1>8, ForgetType DEF Shrink, Users, Forget, Set1, TypeOK, TypeVars
  <2>1. CASE p \in company
    <3> DEFINE S == {s \in Slots : entry'[s] = Zero}
    <3>1. \A s \in Slots : entry'[s] \in {entry[s], Zero}
      BY <1>8 DEF Shrink, Truncate, Cut, fileVars
    <3>2. entry' = [s \in Slots |-> IF s \in S THEN Zero ELSE entry[s]]
      BY <3>1 DEF TypeOK, TypeVars
    <3>3. Table!Lost(entry)
      BY <3>2 DEF Table!Lost
    <3>4. Table!Leave(p)
      BY <2>0, <2>1, <3>3 DEF Table!Leave
    <3> QED
      BY <3>4 DEF Table!TableNext
  <2>2. CASE p \notin company
    <3>1. size[p] = len
      BY <2>0, <2>2 DEF LengthKnown
    <3>2. Table!IsUsed(entry, used[p])
      <4>1. \A l \in Slots : entry[l] \in Named => l < used[p]
        BY <1>0, <2>0, <2>2, <3>1, KindsAssumption DEF ScanKnown, TypeOK
      <4>2. used[p] > 0 => entry[used[p] - 1] \in Named /\ used[p] - 1 \in Slots
        <5>1. used[p] > 0 => used[p] - 1 \in 0 .. MaxSize - 1
          BY <2>0, SizesAssumption DEF Sizes
        <5> QED
          BY <2>0, <2>2, <5>1 DEF ScanKnown, Slots
      <4>3. used[p] > 0 => \E l \in Slots : used[p] = l + 1 /\ entry[l] \in Named
        BY <2>0, <4>2
      <4> QED
        BY <2>0, <4>1, <4>3 DEF Table!IsUsed
    <3>3. entry' = [l \in Slots |-> IF used[p] = 0 \/ l > used[p] THEN Zero ELSE entry[l]]
      <4>1. CASE used[p] = 0
        BY <1>0, <1>8, <4>1 DEF Shrink, Truncate, Cut
      <4>2. CASE used[p] # 0 /\ size[p] > used[p] + 1
        BY <1>0, <1>8, <2>0, <4>2 DEF Shrink, Truncate, Cut
      <4>3. CASE used[p] # 0 /\ ~(size[p] > used[p] + 1)
        BY <1>0, <1>8, <2>0, <3>1, <4>3 DEF Shrink, fileVars, TypeOK, TypeVars
      <4> QED
        BY <4>1, <4>2, <4>3
    <3>4. Table!Leave(p)
      BY <2>0, <2>2, <3>2, <3>3 DEF Table!Leave
    <3> QED
      BY <3>4 DEF Table!TableNext
  <2> QED
    BY <2>1, <2>2
<1>9. ASSUME NEW p \in Procs, Crash(p) PROVE Table!TableNext
  <2>0. /\ Users' = Users \ {p} /\ company' = company \ {p}
        /\ max' = [max EXCEPT ![p] = 0] /\ entry' = entry
    BY <1>9, ForgetType DEF Crash, Forget, Set1, fileVars
  <2>1. CASE p \in Users
    BY <2>0, <2>1 DEF Table!Crash, Table!TableNext
  <2>2. CASE p \notin Users
    <3>1. Users' = Users /\ company' = company
      BY <2>0, <2>2 DEF TypeOK, TypeVars
    <3>2. max[p] = 0
      BY <2>2 DEF NotUserEmpty
    <3>3. max' = max
      BY <2>0, <3>2 DEF TypeOK, TypeVars
    <3> QED
      BY <1>a, <2>0, <3>1, <3>3
  <2> QED
    BY <2>1, <2>2
<1>10. CASE UNCHANGED vars
  BY <1>10, <1>a DEF vars, Users
<1> QED
  BY <1>1, <1>2, <1>3, <1>4, <1>5, <1>6, <1>7, <1>8, <1>9, <1>10 DEF Next

\* Alone with the file a process has the table of EntryTable.
THEOREM Implements == Spec => ImplementsTable
<1>1. Init => Table!TableInit
  BY InitTable
<1>2. IInv /\ IInv' /\ [Next]_vars => [Table!TableNext]_(Table!tableVars)
  BY TableStep
<1> QED
  BY <1>1, <1>2, Invariant, PTL DEF Spec, ImplementsTable, Table!TableSpec

-----------------------------------------------------------------------------
(* The lock file: types.                                                   *)

LEMMA LockInitType == LockInit => LockTypeOK
  BY PidsAssumption, BoundsAssumption
     DEF LockInit, LockTypeOK, LockTypes, Stage, InCall, Files

LEMMA LockTypeStep == LockTypeOK /\ [LockNext]_lockFileVars => LockTypeOK'
<1> SUFFICES ASSUME LockTypeOK, [LockNext]_lockFileVars PROVE LockTypeOK'
  OBVIOUS
<1> USE PidsAssumption, BoundsAssumption
    DEF LockTypeOK, LockTypes, Stage, GoOn, Set, Files, Garbled, InCall, callVars,
        lockVars, waitVars, nameVars, bookVars
<1>1. ASSUME NEW p \in Pids, Open(p) PROVE LockTypeOK'
  BY <1>1 DEF Open
<1>2. ASSUME NEW p \in Pids, NEW j \in {"append", "clear", "save", "close"},
             NEW l \in {"read_pid", "open_lock", "unlock"}, Call(p, j, l),
             closes' \in closes .. MaxCloses, j = "close" => closes' > 0,
             crashes' = crashes
      PROVE  LockTypeOK'
  BY <1>2 DEF Call
<1>2a. ASSUME NEW p \in Pids, BeginAppend(p) \/ BeginClear(p) \/ BeginSave(p)
       PROVE  LockTypeOK'
  BY <1>2, <1>2a DEF BeginAppend, BeginClear, BeginSave
<1>2b. ASSUME NEW p \in Pids, BeginClose(p) PROVE LockTypeOK'
  BY <1>2, <1>2b DEF BeginClose
<1>3. ASSUME NEW p \in Pids, FindsNobody(p) PROVE LockTypeOK'
  BY <1>3 DEF FindsNobody
<1>4. ASSUME NEW p \in Pids, FindsOther(p) PROVE LockTypeOK'
  BY <1>4 DEF FindsOther
<1>5. ASSUME NEW p \in Pids, LookForPid(p) PROVE LockTypeOK'
  BY <1>5 DEF LookForPid
<1>6. ASSUME NEW p \in Pids, AddWatch(p) PROVE LockTypeOK'
  BY <1>6 DEF AddWatch
<1>7. ASSUME NEW p \in Pids, NEW l \in {"open_lock", "idle"}, StopWaiting(p, l)
      PROVE  LockTypeOK'
  BY <1>7 DEF StopWaiting
<1>8. ASSUME NEW p \in Pids, IgnoredEvent(p) PROVE LockTypeOK'
  BY <1>8 DEF IgnoredEvent
<1>9. ASSUME NEW p \in Pids, OpenLock(p) PROVE LockTypeOK'
  <2>1. /\ fd' \in [Pids -> Files \cup {0}] /\ fd'[p] # 0
        /\ \A q \in Pids \ {p} : fd'[q] = fd[q]
        /\ path' \in Files \cup {0} /\ created' \in 0 .. MaxFiles /\ pid' = pid
    <3>1. CASE fd[p] # 0
      BY <1>9, <3>1 DEF OpenLock
    <3>2. CASE fd[p] = 0 /\ path # 0
      <4>1. fd' = [fd EXCEPT ![p] = path] /\ UNCHANGED <<path, created, pid>>
        BY <1>9, <3>2 DEF OpenLock
      <4>2. fd \in [Pids -> Files \cup {0}] /\ path \in Files
        BY <3>2
      <4> QED BY <3>2, <4>1, <4>2
    <3>3. CASE fd[p] = 0 /\ path = 0
      BY <1>9, <3>3 DEF OpenLock
    <3> QED BY <3>1, <3>2, <3>3
  <2>2. /\ at' = [at EXCEPT ![p] = "flock"] /\ at[p] = "open_lock"
        /\ UNCHANGED <<job, locked, advanced, writing, waitVars, holder, bookVars>>
    BY <1>9 DEF OpenLock
  <2>3. LockTypes'
    BY <2>1, <2>2
  <2>4. \A q \in Pids : Stage(q)'
    BY <2>1, <2>2
  <2> QED BY <2>3, <2>4
<1>10. ASSUME NEW p \in Pids, Flock(p) PROVE LockTypeOK'
  BY <1>10 DEF Flock
<1>11. ASSUME NEW p \in Pids, FlockFails(p) PROVE LockTypeOK'
  BY <1>11 DEF FlockFails
<1>12. ASSUME NEW p \in Pids, WritePid(p) PROVE LockTypeOK'
  BY <1>12 DEF WritePid
<1>13. ASSUME NEW p \in Pids, Unlock(p) PROVE LockTypeOK'
  BY <1>13 DEF Unlock
<1>14. ASSUME NEW p \in Pids, ClearPid(p) PROVE LockTypeOK'
  BY <1>14 DEF ClearPid
<1>15. ASSUME NEW p \in Pids, RemoveLockfile(p) PROVE LockTypeOK'
  BY <1>15 DEF RemoveLockfile
<1>16. ASSUME NEW p \in Pids, Die(p) PROVE LockTypeOK'
  BY <1>16 DEF Die
<1>17. CASE UNCHANGED lockFileVars
  BY <1>17 DEF lockFileVars
<1> HIDE DEF LockTypeOK
<1> QED
  BY <1>1, <1>2a, <1>2b, <1>3, <1>4, <1>5, <1>6, <1>7, <1>8, <1>9, <1>10, <1>11, <1>12,
     <1>13, <1>14, <1>15, <1>16, <1>17
     DEF LockNext, Step, AttributeEvent, DeletedEvent, TimedOut

\* Every variable keeps its type, whatever the processes and bounds are.
THEOREM LockTypeCorrect == LockSpec => []LockTypeOK
<1> QED
  BY LockInitType, LockTypeStep, PTL DEF LockSpec

-----------------------------------------------------------------------------
(* The flag of a FileLock and the kernel's flock.                          *)

LEMMA FlagStep == LockTypeOK /\ FlagIsFlock /\ [LockNext]_lockFileVars => FlagIsFlock'
<1> SUFFICES ASSUME LockTypeOK, FlagIsFlock, [LockNext]_lockFileVars PROVE FlagIsFlock'
  OBVIOUS
<1> USE PidsAssumption, BoundsAssumption
    DEF LockTypeOK, LockTypes, Stage, Set, Files, FlagIsFlock
<1>1. ASSUME UNCHANGED <<fd, locked, holder>> PROVE FlagIsFlock'
  BY <1>1
<1>2. ASSUME NEW p \in Pids, OpenLock(p) PROVE FlagIsFlock'
  BY <1>2 DEF OpenLock, nameVars
<1>3. ASSUME NEW p \in Pids, Flock(p) PROVE FlagIsFlock'
  BY <1>3 DEF Flock, GoOn
<1>4. ASSUME NEW p \in Pids, Unlock(p) PROVE FlagIsFlock'
  BY <1>4 DEF Unlock
<1>5. ASSUME NEW p \in Pids, RemoveLockfile(p) PROVE FlagIsFlock'
  BY <1>5 DEF RemoveLockfile, GoOn
<1>6. ASSUME NEW p \in Pids, Die(p) PROVE FlagIsFlock'
  BY <1>6 DEF Die
<1> HIDE DEF LockTypeOK, FlagIsFlock
<1> QED
  BY <1>1, <1>2, <1>3, <1>4, <1>5, <1>6
     DEF LockNext, Step, lockFileVars, lockVars, waitVars, Open, BeginAppend, BeginClear,
         BeginSave, BeginClose, Call, FindsNobody, FindsOther, LookForPid, AddWatch,
         AttributeEvent, IgnoredEvent, DeletedEvent, TimedOut, StopWaiting,
         FlockFails, WritePid, ClearPid

\* A process whose flag says that it has the lock has the flock, and no other
\* process has it, crashes and removed files notwithstanding.
THEOREM FlagIsFlockHolds == LockSpec => []FlagIsFlock
<1>1. LockInit => FlagIsFlock
  BY PidsAssumption DEF LockInit, FlagIsFlock
<1> QED
  BY <1>1, LockInitType, LockTypeStep, FlagStep, PTL DEF LockSpec

-----------------------------------------------------------------------------
(* The file of the lock's name.                                            *)

\* Until a destructor runs nobody has another file open; no pid was written
\* to a file that does not exist yet.
NameInv ==
    /\ closes = 0 => \A p \in Pids : fd[p] \in {0, path}
    /\ path <= created
    /\ \A f \in Files : f > created => pid[f] = 0
    /\ \A p \in Pids : fd[p] <= created

LEMMA NameStep == LockTypeOK /\ NameInv /\ [LockNext]_lockFileVars => NameInv'
<1> SUFFICES ASSUME LockTypeOK, NameInv, [LockNext]_lockFileVars PROVE NameInv'
  OBVIOUS
<1> USE PidsAssumption, BoundsAssumption
    DEF LockTypeOK, LockTypes, Stage, Set, Files, Garbled, NameInv
<1>1. ASSUME UNCHANGED <<fd, path, created, pid>>, closes' >= closes PROVE NameInv'
  BY <1>1
<1>2. ASSUME NEW p \in Pids, OpenLock(p) PROVE NameInv'
  <2>1. CASE fd[p] # 0
    BY <1>2, <2>1 DEF OpenLock, nameVars, bookVars
  <2>2. CASE fd[p] = 0
    <3>1. /\ \/ path # 0 /\ path' = path /\ created' = created
             \/ path = 0 /\ path' = created + 1 /\ created' = created + 1
          /\ fd' = [fd EXCEPT ![p] = path'] /\ pid' = pid /\ closes' = closes
      BY <1>2, <2>2 DEF OpenLock, bookVars
    <3>2. closes' = 0 => \A q \in Pids : fd'[q] \in {0, path'}
      BY <3>1
    <3>3. path' <= created' /\ \A q \in Pids : fd'[q] <= created'
      BY <3>1
    <3>4. \A f \in Files : f > created' => pid'[f] = 0
      BY <3>1
    <3> QED
      BY <3>2, <3>3, <3>4
  <2> QED
    BY <2>1, <2>2
<1>3. ASSUME NEW p \in Pids, WritePid(p) PROVE NameInv'
  BY <1>3 DEF WritePid, bookVars
<1>4. ASSUME NEW p \in Pids, ClearPid(p) PROVE NameInv'
  BY <1>4 DEF ClearPid, lockVars, bookVars
<1>5. ASSUME NEW p \in Pids, RemoveLockfile(p) PROVE NameInv'
  <2>1. closes > 0
    BY <1>5 DEF RemoveLockfile, InCall
  <2> QED
    BY <1>5, <2>1 DEF RemoveLockfile, bookVars
<1>6. ASSUME NEW p \in Pids, Die(p) PROVE NameInv'
  BY <1>6 DEF Die, nameVars
<1>7. ASSUME NEW p \in Pids, BeginClose(p) PROVE NameInv'
  BY <1>1, <1>7 DEF BeginClose, Call, lockVars, nameVars
<1>8. closes >= closes
  OBVIOUS
<1> HIDE DEF LockTypeOK, NameInv
<1> QED
  BY <1>1, <1>2, <1>3, <1>4, <1>5, <1>6, <1>7, <1>8
     DEF LockNext, Step, lockFileVars, lockVars, waitVars, nameVars, bookVars, Open,
         BeginAppend, BeginClear, BeginSave, Call, FindsNobody, FindsOther,
         LookForPid, AddWatch, AttributeEvent, IgnoredEvent, DeletedEvent, TimedOut,
         StopWaiting, Flock, FlockFails, Unlock

LEMMA NameAlways == LockSpec => [](LockTypeOK /\ FlagIsFlock /\ NameInv)
<1>1. LockInit => FlagIsFlock
  BY PidsAssumption DEF LockInit, FlagIsFlock
<1>2. LockInit => NameInv
  BY PidsAssumption, BoundsAssumption DEF LockInit, NameInv, Files
<1> QED
  BY <1>1, <1>2, LockInitType, LockTypeStep, FlagStep, NameStep, PTL DEF LockSpec

\* Until a destructor removes the lock file, no two processes have the lock
\* at the same time, however many there are and whoever dies.
THEOREM OneHolderHolds == LockSpec => []OneHolder
<1>1. LockTypeOK /\ FlagIsFlock /\ NameInv => OneHolder
  BY DEF LockTypeOK, LockTypes, Stage, FlagIsFlock, NameInv, OneHolder
<1> QED
  BY <1>1, NameAlways, PTL

-----------------------------------------------------------------------------
(* The pid in the lock file.                                               *)

LEMMA LivePidStep ==
    LockTypeOK /\ NameInv /\ LivePidHolds /\ [LockNext]_lockFileVars => LivePidHolds'
<1> SUFFICES ASSUME LockTypeOK, NameInv, LivePidHolds, [LockNext]_lockFileVars
             PROVE  LivePidHolds'
  OBVIOUS
<1> USE PidsAssumption, BoundsAssumption
    DEF LockTypeOK, LockTypes, Stage, GoOn, Set, Files, Garbled, LivePidHolds, Alive, PidAtPath
<1>1. ASSUME NEW p \in Pids, NEW l \in InCall \cup {"idle"},
             at[p] \notin {"clear_pid", "dead"}, GoOn(p, l),
             UNCHANGED <<fd, locked, path, pid>>
      PROVE  LivePidHolds'
  BY <1>1 DEF InCall
<1>2. ASSUME UNCHANGED <<at, fd, locked, path, pid>> PROVE LivePidHolds'
  BY <1>2
<1>3. ASSUME NEW p \in Pids, OpenLock(p) PROVE LivePidHolds'
  BY <1>3 DEF OpenLock, nameVars, NameInv
<1>4. ASSUME NEW p \in Pids, Flock(p) PROVE LivePidHolds'
  BY <1>4 DEF Flock, nameVars
<1>5. ASSUME NEW p \in Pids, WritePid(p) PROVE LivePidHolds'
  BY <1>5 DEF WritePid
<1>6. ASSUME NEW p \in Pids, Unlock(p) PROVE LivePidHolds'
  BY <1>6 DEF Unlock, nameVars
<1>7. ASSUME NEW p \in Pids, ClearPid(p) PROVE LivePidHolds'
  BY <1>7 DEF ClearPid, lockVars
<1>8. ASSUME NEW p \in Pids, RemoveLockfile(p) PROVE LivePidHolds'
  BY <1>8 DEF RemoveLockfile
<1>9. ASSUME NEW p \in Pids, Die(p) PROVE LivePidHolds'
  BY <1>9 DEF Die, nameVars
<1>10. ASSUME NEW p \in Pids,
              \/ Open(p) \/ BeginAppend(p) \/ BeginClear(p) \/ BeginSave(p)
              \/ BeginClose(p) \/ FindsNobody(p) \/ FindsOther(p) \/ LookForPid(p)
              \/ AddWatch(p) \/ AttributeEvent(p) \/ DeletedEvent(p)
              \/ TimedOut(p) \/ FlockFails(p)
       PROVE  LivePidHolds'
  BY <1>1, <1>10
     DEF Open, BeginAppend, BeginClear, BeginSave, BeginClose, Call, FindsNobody,
         FindsOther, LookForPid, AddWatch, AttributeEvent, DeletedEvent, TimedOut,
         StopWaiting, FlockFails, lockVars, nameVars, InCall
<1> HIDE DEF LockTypeOK, LivePidHolds
<1> QED
  BY <1>2, <1>3, <1>4, <1>5, <1>6, <1>7, <1>8, <1>9, <1>10
     DEF LockNext, Step, lockFileVars, callVars, lockVars, nameVars, IgnoredEvent

\* A process that waits for a living one waits for one that has the lock or is
\* about to empty the file.
THEOREM LivePidHoldsAlways == LockSpec => []LivePidHolds
<1>1. LockInit => LivePidHolds
  BY PidsAssumption DEF LockInit, LivePidHolds, PidAtPath
<1> QED
  BY <1>1, LockInitType, NameAlways, LivePidStep, PTL DEF LockSpec

\* Flock, flags and the pid in the lock file agree on who holds the lock.
THEOREM HolderIsKnown == LockSpec => []HolderKnown
<1>1. FlagIsFlock /\ OneHolder /\ LivePidHolds => HolderKnown
  BY DEF HolderKnown
<1> QED
  BY <1>1, FlagIsFlockHolds, OneHolderHolds, LivePidHoldsAlways, PTL

-----------------------------------------------------------------------------
(* Exclusion.                                                              *)

\* Only the two steps that start the work of append and clear add a writer.
LEMMA WritersGrow ==
    ASSUME LockTypeOK, [LockNext]_lockFileVars, NEW q \in Pids, ~writing[q], writing'[q]
    PROVE  /\ FindsNobody(q) \/ WritePid(q)
           /\ \A r \in Pids \ {q} : writing'[r] = writing[r]
<1> USE DEF LockTypeOK, LockTypes, Set
<1>1. ASSUME UNCHANGED writing PROVE FALSE
  BY <1>1
<1>2. ASSUME NEW p \in Pids, Unlock(p) \/ Die(p) PROVE FALSE
  BY <1>2 DEF Unlock, Die
<1>3. ASSUME NEW p \in Pids, FindsNobody(p) \/ WritePid(p)
      PROVE  p = q /\ \A r \in Pids \ {q} : writing'[r] = writing[r]
  BY <1>3 DEF FindsNobody, WritePid
<1> HIDE DEF LockTypeOK
<1> QED
  BY <1>1, <1>2, <1>3
     DEF LockNext, Step, lockFileVars, lockVars, Open, BeginAppend, BeginClear, BeginSave,
         BeginClose, Call, FindsOther, LookForPid, AddWatch, AttributeEvent,
         IgnoredEvent, DeletedEvent, TimedOut, StopWaiting, OpenLock, Flock,
         FlockFails, ClearPid, RemoveLockfile

LEMMA ExclusionStep ==
    ASSUME LockTypeOK, FlagIsFlock, LivePidHolds, [LockNext]_lockFileVars, Exclusive, ~Exclusive'
    PROVE  \E p \in Pids :
              \/ FindsNobody(p) /\ ~(PidAtPath \in Pids /\ Alive(PidAtPath))
              \/ /\ WritePid(p)
                 /\ \E q \in Pids \ {p} :
                       writing[q] /\ (locked[q] => fd[q] # fd[p])
<1>1. PICK p \in Pids, q \in Pids : writing'[p] /\ writing'[q] /\ p # q
  BY DEF Exclusive
<1>2. PICK r \in Pids, s \in Pids :
          r # s /\ ~writing[r] /\ writing'[r] /\ writing'[s]
  BY <1>1 DEF Exclusive, LockTypeOK, LockTypes
<1>3. (FindsNobody(r) \/ WritePid(r)) /\ writing[s]
  BY <1>2, WritersGrow DEF LockTypeOK, LockTypes
<1>4. CASE WritePid(r)
  <2>1. locked[r] /\ fd[r] \in Files
    BY <1>4 DEF WritePid, LockTypeOK, LockTypes, Stage
  <2>2. locked[s] => fd[s] # fd[r]
    BY <1>2, <2>1 DEF FlagIsFlock
  <2> QED
    BY <1>2, <1>3, <1>4, <2>2
<1>5. CASE FindsNobody(r)
  <2>1. at[r] = "read_pid" /\ ~(PidAtPath \in Pids \ {r} /\ Alive(PidAtPath))
    BY <1>5 DEF FindsNobody, ActiveOther
  <2>2. ASSUME PidAtPath = r PROVE FALSE
    <3>1. locked[r]
      BY <2>1, <2>2 DEF LivePidHolds, Alive
    <3> QED
      BY <1>2, <2>1, <3>1 DEF LockTypeOK, Stage
  <2> QED
    BY <1>5, <2>1, <2>2
<1> QED
  BY <1>3, <1>4, <1>5

\* Two processes write to one shard only after one of the two steps that let it
\* happen: going on without the lock, or locking beside a writer that has no
\* lock or a lock on another file.
THEOREM ExclusionLostHolds == LockSpec => ExclusionLost
<1>1. LockInit => LivePidHolds
  BY PidsAssumption DEF LockInit, LivePidHolds, PidAtPath
<1>2. LockTypeOK /\ FlagIsFlock /\ LivePidHolds /\ [LockNext]_lockFileVars =>
          [Exclusive /\ ~Exclusive' =>
              \E p \in Pids :
                 \/ FindsNobody(p) /\ ~(PidAtPath \in Pids /\ Alive(PidAtPath))
                 \/ /\ WritePid(p)
                    /\ \E q \in Pids \ {p} :
                          writing[q] /\ (locked[q] => fd[q] # fd[p])]_lockFileVars
  BY ExclusionStep
<1> QED
  BY <1>1, <1>2, NameAlways, LivePidStep, PTL DEF LockSpec, ExclusionLost

-----------------------------------------------------------------------------
(* The thread pool: the queue.                                                              *)

\* No task stands in the queue twice.
Single == \A i, j \in 1 .. Len(queue) : queue[i] = queue[j] => i = j

LEMMA EnqueuedType == queue \in Seq(Tasks) => Enqueued \subseteq Tasks
  BY DEF Enqueued

LEMMA AppendTask ==
    ASSUME queue \in Seq(Tasks), NEW t \in Tasks, queue' = Append(queue, t)
    PROVE  /\ queue' \in Seq(Tasks) /\ Enqueued' = Enqueued \cup {t}
           /\ Single /\ t \notin Enqueued => Single'
<1>1. /\ queue' \in Seq(Tasks) /\ Len(queue') = Len(queue) + 1 /\ Len(queue) \in Nat
      /\ \A i \in 1 .. Len(queue) : queue'[i] = queue[i]
      /\ queue'[Len(queue) + 1] = t
  BY AppendProperties
<1>2. \A i \in 1 .. Len(queue) + 1 : i \in 1 .. Len(queue) \/ i = Len(queue) + 1
  BY <1>1
<1>3. 1 .. Len(queue) \subseteq 1 .. Len(queue) + 1 /\ Len(queue) + 1 \in 1 .. Len(queue) + 1
  BY <1>1
<1>4. Enqueued' = Enqueued \cup {t}
  BY <1>1, <1>2, <1>3 DEF Enqueued
<1>5. ASSUME Single, t \notin Enqueued PROVE Single'
  BY <1>1, <1>2, <1>5 DEF Single, Enqueued
<1> QED
  BY <1>1, <1>4, <1>5

LEMMA TakeTask ==
    ASSUME queue \in Seq(Tasks), queue # <<>>, queue' = Tail(queue)
    PROVE  /\ queue' \in Seq(Tasks) /\ Head(queue) \in Enqueued
           /\ Enqueued \subseteq Enqueued' \cup {Head(queue)} /\ Enqueued' \subseteq Enqueued
           /\ Single => Single' /\ Head(queue) \notin Enqueued'
<1>1. /\ queue' \in Seq(Tasks) /\ Len(queue') = Len(queue) - 1 /\ Len(queue) \in Nat \ {0}
      /\ Head(queue) = queue[1]
      /\ \A i \in 1 .. Len(queue') : queue'[i] = queue[i + 1]
  BY HeadTailProperties, EmptySeq, LenProperties
<1>2. /\ 1 \in 1 .. Len(queue)
      /\ \A i \in 1 .. Len(queue') : i + 1 \in 1 .. Len(queue) /\ i + 1 # 1
      /\ \A i \in 1 .. Len(queue) : i = 1 \/ (i - 1 \in 1 .. Len(queue') /\ (i - 1) + 1 = i)
  BY <1>1
<1>3. Enqueued' \subseteq Enqueued
  BY <1>1, <1>2 DEF Enqueued
<1>4. ASSUME NEW t \in Enqueued, t # Head(queue) PROVE t \in Enqueued'
  <2>1. PICK i \in 1 .. Len(queue) : t = queue[i]
    BY DEF Enqueued
  <2>2. i - 1 \in 1 .. Len(queue') /\ queue'[i - 1] = t
    BY <1>1, <1>2, <1>4, <2>1
  <2> QED
    BY <2>2 DEF Enqueued
<1>5. ASSUME Single PROVE Single' /\ Head(queue) \notin Enqueued'
  <2>1. ASSUME NEW i \in 1 .. Len(queue'), NEW j \in 1 .. Len(queue'), queue'[i] = queue'[j]
        PROVE  i = j
    <3>1. queue[i + 1] = queue[j + 1]
      BY <1>1, <2>1
    <3>2. i + 1 = j + 1
      BY <1>2, <1>5, <3>1 DEF Single
    <3> QED
      BY <3>2
  <2>2. ASSUME NEW i \in 1 .. Len(queue'), queue'[i] = Head(queue) PROVE FALSE
    <3>1. queue[i + 1] = queue[1]
      BY <1>1, <2>2
    <3> QED
      BY <1>2, <1>5, <3>1 DEF Single
  <2> QED
    BY <2>1, <2>2 DEF Single, Enqueued
<1>6. Head(queue) \in Enqueued
  BY <1>1, <1>2 DEF Enqueued
<1> QED
  BY <1>1, <1>3, <1>4, <1>5, <1>6

-----------------------------------------------------------------------------
(* Types.                                                                  *)

LEMMA TaskFacts ==
    /\ NoTask \notin Tasks
    /\ \A s \in Searches : \A i \in 1 .. Shards : <<s, i>> \in Tasks
    /\ \A t \in Tasks : \E s \in Searches : \E i \in 1 .. Shards : t = <<s, i>>
  BY DEF Tasks, NoTask

LEMMA PoolInitType == PoolInit => PoolTypeOK
<1> SUFFICES ASSUME PoolInit PROVE PoolTypeOK
  OBVIOUS
<1>1. queue \in Seq(Tasks)
  BY EmptySeq DEF PoolInit
<1>2. \A w \in Workers : wpc[w] = "check" /\ task[w] \notin Tasks
  BY TaskFacts DEF PoolInit
<1>3. shard \in [Searches -> 1 .. Shards]
  BY ShardsAssumption DEF PoolInit
<1> QED
  BY <1>1, <1>2, <1>3 DEF PoolInit, PoolTypeOK, PoolTypes

LEMMA PoolTypeStep == PoolTypeOK /\ [PoolNext]_poolVars => PoolTypeOK'
<1> SUFFICES ASSUME PoolTypeOK, [PoolNext]_poolVars PROVE PoolTypeOK'
  OBVIOUS
<1> USE TaskFacts, ShardsAssumption DEF PoolTypeOK, PoolTypes, searchVars, workerVars, With
<1>1. ASSUME NEW s \in Searches, Search(s) PROVE PoolTypeOK'
  BY <1>1 DEF Search
<1>2. ASSUME NEW s \in Searches, Enqueue(s) PROVE PoolTypeOK'
  <2>1. <<s, shard[s]>> \in Tasks
    OBVIOUS
  <2>2. queue' \in Seq(Tasks)
    BY <1>2, <2>1, AppendTask DEF Enqueue
  <2> QED
    BY <1>2, <2>2 DEF Enqueue
<1>3. ASSUME NEW s \in Searches, EnqueueRefused(s) PROVE PoolTypeOK'
  BY <1>3 DEF EnqueueRefused
<1>4. ASSUME NEW W \in SUBSET Blocked, Wake(W)
      PROVE  /\ wpc' \in [Workers -> {"check", "blocked", "run", "left"}]
             /\ \A w \in Workers : wpc'[w] = "run" <=> wpc[w] = "run"
  BY <1>4 DEF Wake, Blocked
<1>5. ASSUME NEW s \in Searches, Notify(s) PROVE PoolTypeOK'
  <2>1. /\ wpc' \in [Workers -> {"check", "blocked", "run", "left"}]
        /\ \A w \in Workers : wpc'[w] = "run" <=> wpc[w] = "run"
    <3>1. ASSUME NEW w \in Blocked, Wake({w})
          PROVE  /\ wpc' \in [Workers -> {"check", "blocked", "run", "left"}]
                 /\ \A v \in Workers : wpc'[v] = "run" <=> wpc[v] = "run"
      BY <1>4, <3>1
    <3> QED
      BY <1>5, <3>1 DEF Notify
  <2>2. shard' \in [Searches -> 1 .. Shards]
    <3>1. shard[s] \in Int /\ Shards \in Int /\ 1 <= shard[s]
      OBVIOUS
    <3>2. shard[s] < Shards => shard[s] + 1 \in 1 .. Shards
      BY <3>1
    <3>3. 1 \in 1 .. Shards
      OBVIOUS
    <3>4. \E i \in 1 .. Shards : shard' = [shard EXCEPT ![s] = i]
      BY <1>5, <3>2, <3>3 DEF Notify
    <3> QED
      BY <3>4
  <2>3. spc' \in [Searches -> {"idle", "enqueue", "notify", "get", "returned", "refused"}]
    <3>1. \E l \in {"enqueue", "get"} : spc' = [spc EXCEPT ![s] = l]
      BY <1>5 DEF Notify
    <3> QED
      BY <3>1
  <2> QED
    BY <1>5, <2>1, <2>2, <2>3 DEF Notify
<1>6. ASSUME NEW s \in Searches, Get(s) PROVE PoolTypeOK'
  BY <1>6 DEF Get
<1>7. ASSUME NEW w \in Workers, Block(w) PROVE PoolTypeOK'
  BY <1>7 DEF Block
<1>8. ASSUME NEW w \in Workers, Leave(w) PROVE PoolTypeOK'
  BY <1>8 DEF Leave
<1>9. ASSUME NEW w \in Workers, Take(w) PROVE PoolTypeOK'
  <2>1. queue' \in Seq(Tasks) /\ Head(queue) \in Tasks
    BY <1>9, TakeTask, EnqueuedType DEF Take
  <2> QED
    BY <1>9, <2>1 DEF Take
<1>10. ASSUME NEW w \in Workers, Finish(w) PROVE PoolTypeOK'
  BY <1>10 DEF Finish
<1>11. ASSUME NEW w \in Workers, WakeForNothing(w) PROVE PoolTypeOK'
  BY <1>4, <1>11 DEF WakeForNothing
<1>12. CASE Stop
  BY <1>12 DEF Stop
<1>13. CASE NotifyAll
  BY <1>4, <1>13 DEF NotifyAll
<1>14. CASE Join
  BY <1>14 DEF Join
<1>15. CASE UNCHANGED poolVars
  BY <1>15 DEF poolVars
<1> QED
  BY <1>1, <1>2, <1>3, <1>5, <1>6, <1>7, <1>8, <1>9, <1>10, <1>11, <1>12, <1>13, <1>14, <1>15
     DEF PoolNext, WorkerStep, SearchStep, ExitStep

\* Every variable keeps its type, for any workers, searches and shards.
THEOREM PoolTypeCorrect == PoolSpec => []PoolTypeOK
<1>1. PoolInit => PoolTypeOK
  BY PoolInitType
<1>2. PoolTypeOK /\ [PoolNext]_poolVars => PoolTypeOK'
  BY PoolTypeStep
<1> QED
  BY <1>1, <1>2, PTL DEF PoolSpec

-----------------------------------------------------------------------------
(* The inductive invariant: where each task is.                            *)

\* The search s has handed its i-th task to the pool.
Handed(s, i) ==
    \/ spc[s] \in {"enqueue", "refused"} /\ i < shard[s]
    \/ spc[s] = "notify" /\ i <= shard[s]
    \/ spc[s] \in {"get", "returned"}

\* A task is queued once, or run by one worker, or answered, and only if handed over.
OnePlace ==
    /\ Single /\ Enqueued \cap Running = {}
    /\ \A v, w \in Workers :
          wpc[v] = "run" /\ wpc[w] = "run" /\ task[v] = task[w] => v = w
    /\ \A t \in Enqueued \cup Running : result[t] = "none"

AllHanded ==
    \A s \in Searches : \A i \in 1 .. Shards :
        <<s, i>> \in Enqueued \cup Running \/ result[<<s, i>>] # "none" => Handed(s, i)

\* A search has the results of the shards before the one it waits for.
Gotten ==
    \A s \in Searches :
        /\ spc[s] \in {"get", "returned"} =>
              \A j \in 1 .. Shards : j < shard[s] => result[<<s, j>>] = "ok"
        /\ spc[s] = "returned" =>
              \/ result[<<s, shard[s]>>] = "threw"
              \/ result[<<s, shard[s]>>] = "ok" /\ shard[s] = Shards

\* Who left saw an empty queue that nobody fills any more.
LeftEmpty ==
    /\ \A w \in Workers : wpc[w] = "left" => stop /\ queue = <<>>
    /\ exit = "gone" => \A w \in Workers : wpc[w] = "left"

PoolInv == PoolTypeOK /\ OnePlace /\ AllHanded /\ Gotten /\ LeftEmpty

LEMMA PoolInitInv == PoolInit => PoolInv
<1> SUFFICES ASSUME PoolInit PROVE PoolInv
  OBVIOUS
<1>1. PoolTypeOK
  BY PoolInitType
<1>2. Len(queue) = 0 /\ Enqueued = {} /\ Single
  BY EmptySeq DEF PoolInit, Enqueued, Single
<1>3. Running = {} /\ \A w \in Workers : wpc[w] = "check"
  BY DEF PoolInit, Running
<1>4. \A t \in Tasks : result[t] = "none"
  BY DEF PoolInit
<1>5. OnePlace /\ AllHanded
  BY <1>2, <1>3, <1>4, TaskFacts DEF OnePlace, AllHanded
<1>6. Gotten /\ LeftEmpty
  BY <1>3 DEF PoolInit, Gotten, LeftEmpty
<1> QED
  BY <1>1, <1>5, <1>6 DEF PoolInv

\* Steps that touch neither tasks nor results nor a search.
LEMMA WorkerStays ==
    ASSUME PoolInv, PoolTypeOK', UNCHANGED <<queue, task, result>>,
           \A w \in Workers : wpc'[w] = "run" <=> wpc[w] = "run"
    PROVE  Enqueued' = Enqueued /\ Running' = Running /\ OnePlace'
<1>1. Enqueued' = Enqueued /\ Running' = Running /\ (Single => Single')
  BY DEF Enqueued, Running, Single
<1> QED
  BY <1>1 DEF PoolInv, OnePlace

LEMMA SearchesStay ==
    ASSUME PoolInv, PoolTypeOK', UNCHANGED searchVars, UNCHANGED result,
           Enqueued' \cup Running' \subseteq Enqueued \cup Running
    PROVE  AllHanded' /\ Gotten'
<1>1. \A s, i : Handed(s, i)' = Handed(s, i)
  BY DEF Handed, searchVars
<1>2. AllHanded'
  BY <1>1 DEF PoolInv, AllHanded
<1>3. Gotten'
  BY DEF PoolInv, Gotten, searchVars
<1> QED
  BY <1>2, <1>3

LEMMA WakeRuns ==
    ASSUME PoolTypeOK, NEW W \in SUBSET Blocked, Wake(W)
    PROVE  /\ \A w \in Workers : wpc'[w] = "run" <=> wpc[w] = "run"
           /\ \A w \in Workers : wpc'[w] = "left" <=> wpc[w] = "left"
  BY DEF Wake, Blocked, PoolTypeOK, PoolTypes

LEMMA EnqueueStep ==
    ASSUME PoolInv, PoolTypeOK', NEW s \in Searches, Enqueue(s)
    PROVE  /\ PoolInv' /\ Running' = Running /\ <<s, shard[s]>> \notin Enqueued \cup Running
           /\ Enqueued' = Enqueued \cup {<<s, shard[s]>>} /\ result[<<s, shard[s]>>] = "none"
<1> DEFINE t == <<s, shard[s]>>
<1> USE TaskFacts DEF PoolInv
<1>1. t \in Tasks /\ shard[s] \in 1 .. Shards /\ shard[s] \in Int
  BY ShardsAssumption DEF PoolTypeOK, PoolTypes
<1>2. ~Handed(s, shard[s])
  BY <1>1 DEF Enqueue, Handed
<1>3. t \notin Enqueued \cup Running /\ result[t] = "none"
  BY <1>1, <1>2 DEF AllHanded
<1>4. Enqueued' = Enqueued \cup {t} /\ Single'
  BY <1>1, <1>3, AppendTask DEF Enqueue, PoolTypeOK, PoolTypes, OnePlace
<1>5. Running' = Running
  BY DEF Enqueue, workerVars, Running
<1>6. OnePlace'
  <2>1. \A v, w \in Workers : (wpc'[v] = "run" /\ wpc'[w] = "run" /\ task'[v] = task'[w]) => v = w
    BY DEF Enqueue, workerVars, OnePlace
  <2>2. Enqueued' \cap Running' = {}
    BY <1>3, <1>4, <1>5 DEF OnePlace
  <2>3. \A u \in Enqueued' \cup Running' : result'[u] = "none"
    BY <1>3, <1>4, <1>5 DEF Enqueue, OnePlace
  <2> QED
    BY <1>4, <2>1, <2>2, <2>3 DEF OnePlace
<1>7. AllHanded'
  <2> SUFFICES ASSUME NEW r \in Searches, NEW i \in 1 .. Shards,
                      <<r, i>> \in Enqueued' \cup Running' \/ result'[<<r, i>>] # "none"
               PROVE  Handed(r, i)'
    BY DEF AllHanded
  <2>1. CASE r # s
    <3>1. Handed(r, i)
      BY <1>4, <1>5, <2>1 DEF Enqueue, AllHanded
    <3>2. spc'[r] = spc[r] /\ shard'[r] = shard[r]
      BY <2>1 DEF Enqueue, With, PoolTypeOK, PoolTypes
    <3> QED
      BY <3>1, <3>2 DEF Handed
  <2>2. CASE r = s
    <3>1. spc'[s] = "notify" /\ shard'[s] = shard[s] /\ i \in Int
      BY DEF Enqueue, With, PoolTypeOK, PoolTypes
    <3>2. CASE i = shard[s]
      BY <1>1, <2>2, <3>1, <3>2 DEF Handed
    <3>3. CASE i # shard[s]
      <4>1. Handed(s, i)
        BY <1>4, <1>5, <2>2, <3>3 DEF Enqueue, AllHanded
      <4> QED
        BY <1>1, <2>2, <3>1, <4>1 DEF Handed, Enqueue
    <3> QED
      BY <3>2, <3>3
  <2> QED
    BY <2>1, <2>2
<1>8. Gotten'
  <2>1. \A r \in Searches : spc'[r] \in {"get", "returned"} => r # s /\ spc'[r] = spc[r] /\ shard'[r] = shard[r]
    BY DEF Enqueue, With, PoolTypeOK, PoolTypes
  <2> QED
    BY <2>1 DEF Enqueue, Gotten
<1>9. LeftEmpty'
  <2>1. \A w \in Workers : wpc[w] # "left"
    BY DEF Enqueue, LeftEmpty
  <2>2. exit # "gone"
    BY DEF Enqueue, PoolTypeOK
  <2> QED
    BY <2>1, <2>2 DEF Enqueue, LeftEmpty, workerVars
<1> QED
  BY <1>3, <1>4, <1>5, <1>6, <1>7, <1>8, <1>9

LEMMA TakeStep ==
    ASSUME PoolInv, PoolTypeOK', NEW w \in Workers, Take(w)
    PROVE  /\ PoolInv' /\ Head(queue) \in Enqueued /\ Enqueued = Enqueued' \cup {Head(queue)}
           /\ Head(queue) \notin Enqueued' /\ Running' = Running \cup {Head(queue)}
<1> USE DEF PoolInv
<1> DEFINE t == Head(queue)
<1>1. /\ t \in Enqueued /\ t \notin Enqueued' /\ Single'
      /\ Enqueued = Enqueued' \cup {t}
  BY TakeTask DEF Take, PoolTypeOK, PoolTypes, OnePlace
<1>2. /\ wpc[w] = "check" /\ wpc'[w] = "run" /\ task'[w] = t
      /\ \A v \in Workers \ {w} : wpc'[v] = wpc[v] /\ task'[v] = task[v]
  BY DEF Take, With, PoolTypeOK, PoolTypes
<1>3. Running' = Running \cup {t}
  BY <1>2 DEF Running
<1>4. \A v \in Workers : wpc[v] = "run" => task[v] \in Running
  BY DEF Running
<1>5. t \notin Running /\ result[t] = "none"
  BY <1>1 DEF OnePlace
<1>6. OnePlace'
  <2>1. ASSUME NEW v \in Workers, NEW u \in Workers, wpc'[v] = "run", wpc'[u] = "run",
               task'[v] = task'[u]
        PROVE  v = u
    BY <1>2, <1>4, <1>5, <2>1 DEF OnePlace
  <2>2. Enqueued' \cap Running' = {}
    BY <1>1, <1>3 DEF OnePlace
  <2>3. \A u \in Enqueued' \cup Running' : result'[u] = "none"
    BY <1>1, <1>3, <1>5 DEF Take, OnePlace
  <2> QED
    BY <1>1, <2>1, <2>2, <2>3 DEF OnePlace
<1>7. AllHanded' /\ Gotten'
  <2>1. Enqueued' \cup Running' \subseteq Enqueued \cup Running
    BY <1>1, <1>3
  <2> QED
    BY <2>1, SearchesStay DEF Take
<1>8. LeftEmpty'
  <2>1. \A v \in Workers : wpc[v] # "left"
    BY DEF Take, LeftEmpty
  <2>2. exit # "gone"
    BY <2>1, WorkersAssumption DEF LeftEmpty
  <2> QED
    BY <1>2, <2>1, <2>2 DEF Take, LeftEmpty
<1> QED
  BY <1>1, <1>3, <1>6, <1>7, <1>8

LEMMA FinishStep ==
    ASSUME PoolInv, PoolTypeOK', NEW w \in Workers, Finish(w)
    PROVE  /\ PoolInv' /\ task[w] \in Running /\ Enqueued' = Enqueued
           /\ Running' = Running \ {task[w]}
           /\ task[w] \in Tasks /\ result'[task[w]] \in {"ok", "threw"}
           /\ \A t \in Tasks \ {task[w]} : result'[t] = result[t]
<1> USE DEF PoolInv
<1> DEFINE t == task[w]
<1>1. /\ wpc[w] = "run" /\ wpc'[w] = "check" /\ t \in Tasks
      /\ \A v \in Workers \ {w} : wpc'[v] = wpc[v] /\ task'[v] = task[v]
  BY DEF Finish, With, PoolTypeOK, PoolTypes
<1>2. /\ result'[t] \in {"ok", "threw"}
      /\ \A u \in Tasks \ {t} : result'[u] = result[u]
  BY <1>1 DEF Finish, With, PoolTypeOK, PoolTypes
<1>3. t \in Running /\ result[t] = "none" /\ t \notin Enqueued
  BY <1>1 DEF Running, OnePlace
<1>4. Enqueued' = Enqueued /\ Single'
  BY DEF Finish, Enqueued, OnePlace, Single
<1>5. Running' = Running \ {t}
  <2>1. ASSUME NEW u \in Running' PROVE u \in Running \ {t}
    <3>1. PICK v \in Workers : wpc'[v] = "run" /\ u = task'[v]
      BY <2>1 DEF Running
    <3>2. v # w /\ wpc[v] = "run" /\ u = task[v]
      BY <1>1, <3>1
    <3> QED
      BY <1>1, <3>2 DEF Running, OnePlace
  <2>2. ASSUME NEW u \in Running, u # t PROVE u \in Running'
    <3>1. PICK v \in Workers : wpc[v] = "run" /\ u = task[v]
      BY <2>2 DEF Running
    <3>2. wpc'[v] = "run" /\ u = task'[v]
      BY <1>1, <2>2, <3>1
    <3> QED
      BY <3>2 DEF Running
  <2> QED
    BY <2>1, <2>2
<1>6. Enqueued \subseteq Tasks /\ Running \subseteq Tasks
  BY EnqueuedType DEF PoolTypeOK, PoolTypes, Running
<1>7. OnePlace'
  <2>1. ASSUME NEW v \in Workers, NEW u \in Workers, wpc'[v] = "run", wpc'[u] = "run",
               task'[v] = task'[u]
        PROVE  v = u
    BY <1>1, <2>1 DEF OnePlace
  <2>2. \A u \in Enqueued' \cup Running' : result'[u] = "none"
    BY <1>2, <1>3, <1>4, <1>5, <1>6 DEF OnePlace
  <2> QED
    BY <1>4, <1>5, <2>1, <2>2 DEF OnePlace
<1>8. AllHanded'
  <2>1. \A s, i : Handed(s, i)' = Handed(s, i)
    BY DEF Finish, Handed, searchVars
  <2> SUFFICES ASSUME NEW s \in Searches, NEW i \in 1 .. Shards,
                      <<s, i>> \in Enqueued' \cup Running' \/ result'[<<s, i>>] # "none"
               PROVE  Handed(s, i)
    BY <2>1 DEF AllHanded
  <2>2. <<s, i>> \in Tasks
    BY TaskFacts
  <2> QED
    BY <1>2, <1>3, <1>4, <1>5, <2>2 DEF AllHanded
<1>9. Gotten'
  <2>1. \A s \in Searches : \A j \in 1 .. Shards :
            result[<<s, j>>] # "none" => result'[<<s, j>>] = result[<<s, j>>]
    BY <1>2, <1>3, TaskFacts
  <2>2. UNCHANGED <<spc, shard>> /\ \A s \in Searches : shard[s] \in 1 .. Shards
    BY DEF Finish, searchVars, PoolTypeOK, PoolTypes
  <2> QED
    BY <2>1, <2>2 DEF Gotten
<1>10. LeftEmpty'
  BY <1>1 DEF Finish, LeftEmpty
<1> QED
  BY <1>1, <1>2, <1>3, <1>4, <1>5, <1>7, <1>8, <1>9, <1>10

\* A search goes on to another shard or to its results.
LEMMA NotifyStep ==
    ASSUME PoolInv, PoolTypeOK', NEW s \in Searches, Notify(s)
    PROVE  PoolInv' /\ Enqueued' = Enqueued /\ Running' = Running
<1> USE DEF PoolInv
<1>1. /\ \A w \in Workers : wpc'[w] = "run" <=> wpc[w] = "run"
      /\ \A w \in Workers : wpc'[w] = "left" <=> wpc[w] = "left"
  <2>1. ASSUME NEW w \in Blocked, Wake({w})
        PROVE  /\ \A v \in Workers : wpc'[v] = "run" <=> wpc[v] = "run"
               /\ \A v \in Workers : wpc'[v] = "left" <=> wpc[v] = "left"
    BY <2>1, WakeRuns
  <2> QED
    BY <2>1 DEF Notify
<1>2. Enqueued' = Enqueued /\ Running' = Running /\ OnePlace'
  BY <1>1, WorkerStays DEF Notify
<1>3. /\ \A r \in Searches \ {s} : spc'[r] = spc[r] /\ shard'[r] = shard[r]
      /\ spc[s] = "notify"
      /\ \/ shard[s] < Shards /\ spc'[s] = "enqueue" /\ shard'[s] = shard[s] + 1
         \/ spc'[s] = "get" /\ shard'[s] = 1
  BY DEF Notify, With, PoolTypeOK, PoolTypes
<1>4. AllHanded'
  <2> SUFFICES ASSUME NEW r \in Searches, NEW i \in 1 .. Shards,
                      <<r, i>> \in Enqueued \cup Running \/ result[<<r, i>>] # "none"
               PROVE  Handed(r, i)'
    BY <1>2 DEF AllHanded, Notify
  <2>1. Handed(r, i)
    BY DEF AllHanded
  <2>2. CASE r # s
    BY <1>3, <2>1, <2>2 DEF Handed
  <2>3. CASE r = s
    <3>1. shard[s] \in Int /\ i \in Int /\ i <= shard[s]
      BY <1>3, <2>1, <2>3 DEF Handed, PoolTypeOK, PoolTypes
    <3> QED
      BY <1>3, <2>3, <3>1 DEF Handed
  <2> QED
    BY <2>2, <2>3
<1>5. Gotten'
  <2>1. spc'[s] = "get" => \A j \in 1 .. Shards : ~(j < shard'[s])
    BY <1>3
  <2> QED
    BY <1>3, <2>1 DEF Gotten, Notify
<1>6. LeftEmpty'
  BY <1>1 DEF Notify, LeftEmpty
<1> QED
  BY <1>2, <1>4, <1>5, <1>6

LEMMA GetStep ==
    ASSUME PoolInv, PoolTypeOK', NEW s \in Searches, Get(s)
    PROVE  PoolInv' /\ Enqueued' = Enqueued /\ Running' = Running
<1> USE DEF PoolInv
<1>1. Enqueued' = Enqueued /\ Running' = Running /\ OnePlace'
  BY WorkerStays DEF Get, workerVars
<1>2. /\ \A r \in Searches \ {s} : spc'[r] = spc[r] /\ shard'[r] = shard[r]
      /\ spc[s] = "get" /\ UNCHANGED result
      /\ \/ /\ spc'[s] = "get" /\ shard'[s] = shard[s] + 1
            /\ result[<<s, shard[s]>>] = "ok"
         \/ /\ spc'[s] = "returned" /\ shard'[s] = shard[s]
            /\ result[<<s, shard[s]>>] # "none"
            /\ result[<<s, shard[s]>>] = "ok" => ~(shard[s] < Shards)
  BY DEF Get, With, PoolTypeOK, PoolTypes
<1>3. AllHanded'
  BY <1>1, <1>2 DEF AllHanded, Handed
<1>4. shard[s] \in 1 .. Shards /\ shard[s] \in Int /\ Shards \in Int
      /\ result[<<s, shard[s]>>] \in {"none", "ok", "threw"}
  BY TaskFacts, ShardsAssumption DEF PoolTypeOK, PoolTypes
<1>5. Gotten'
  <2> SUFFICES ASSUME NEW r \in Searches
               PROVE  /\ spc'[r] \in {"get", "returned"} =>
                            \A j \in 1 .. Shards : j < shard'[r] => result[<<r, j>>] = "ok"
                      /\ spc'[r] = "returned" =>
                            \/ result[<<r, shard'[r]>>] = "threw"
                            \/ result[<<r, shard'[r]>>] = "ok" /\ shard'[r] = Shards
    BY <1>2 DEF Gotten
  <2>1. CASE r # s
    BY <1>2, <2>1 DEF Gotten
  <2>2. CASE r = s
    <3>1. \A j \in 1 .. Shards : j < shard[s] => result[<<s, j>>] = "ok"
      BY <1>2 DEF Gotten
    <3>2. \A j \in 1 .. Shards : j < shard'[s] => result[<<s, j>>] = "ok"
      BY <1>2, <1>4, <3>1
    <3>3. spc'[s] = "returned" =>
             \/ result[<<s, shard'[s]>>] = "threw"
             \/ result[<<s, shard'[s]>>] = "ok" /\ shard'[s] = Shards
      BY <1>2, <1>4
    <3> QED
      BY <2>2, <3>2, <3>3
  <2> QED
    BY <2>1, <2>2
<1>6. LeftEmpty'
  BY DEF Get, workerVars, LeftEmpty
<1> QED
  BY <1>1, <1>3, <1>5, <1>6

\* Steps that move a search or a worker between stages that hold nothing.
LEMMA QuietStep ==
    ASSUME PoolInv, PoolTypeOK',
           \/ \E s \in Searches : Search(s) \/ EnqueueRefused(s)
           \/ \E w \in Workers : Block(w) \/ Leave(w) \/ WakeForNothing(w)
           \/ Stop \/ NotifyAll \/ Join
    PROVE  PoolInv' /\ Enqueued' = Enqueued /\ Running' = Running
<1> USE DEF PoolInv
<1>1. ASSUME NEW s \in Searches, Search(s) \/ EnqueueRefused(s)
      PROVE  PoolInv' /\ Enqueued' = Enqueued /\ Running' = Running
  <2>1. Enqueued' = Enqueued /\ Running' = Running /\ OnePlace'
    BY <1>1, WorkerStays DEF Search, EnqueueRefused, workerVars
  <2>2. /\ \A r \in Searches : shard'[r] = shard[r]
        /\ \A r \in Searches \ {s} : spc'[r] = spc[r]
        /\ \/ spc[s] = "idle" /\ spc'[s] = "enqueue"
           \/ spc[s] = "enqueue" /\ spc'[s] = "refused"
    BY <1>1 DEF Search, EnqueueRefused, With, PoolTypeOK, PoolTypes
  <2>3. \A r \in Searches : \A i \in 1 .. Shards : Handed(r, i) => Handed(r, i)'
    BY <2>2 DEF Handed
  <2>4. AllHanded'
    BY <1>1, <2>1, <2>3 DEF AllHanded, Search, EnqueueRefused
  <2>5. Gotten'
    BY <1>1, <2>2 DEF Gotten, Search, EnqueueRefused
  <2>6. LeftEmpty'
    BY <1>1 DEF LeftEmpty, Search, EnqueueRefused, workerVars
  <2> QED
    BY <2>1, <2>4, <2>5, <2>6
<1>2. ASSUME UNCHANGED <<queue, task, result, searchVars>>,
             \A w \in Workers : wpc'[w] = "run" <=> wpc[w] = "run", LeftEmpty'
      PROVE  PoolInv' /\ Enqueued' = Enqueued /\ Running' = Running
  <2>1. Enqueued' = Enqueued /\ Running' = Running /\ OnePlace'
    BY <1>2, WorkerStays
  <2>2. AllHanded' /\ Gotten'
    BY <1>2, <2>1, SearchesStay
  <2> QED
    BY <1>2, <2>1, <2>2
<1>3. ASSUME NEW w \in Workers, Block(w) PROVE PoolInv' /\ Enqueued' = Enqueued /\ Running' = Running
  <2>1. \A v \in Workers : /\ wpc'[v] = "run" <=> wpc[v] = "run"
                           /\ wpc'[v] = "left" => wpc[v] = "left"
    BY <1>3 DEF Block, With, PoolTypeOK, PoolTypes
  <2>2. LeftEmpty'
    <3>1. exit # "gone"
      BY <1>3 DEF Block, LeftEmpty
    <3> QED
      BY <1>3, <2>1, <3>1 DEF Block, LeftEmpty
  <2> QED
    BY <1>2, <1>3, <2>1, <2>2 DEF Block
<1>4. ASSUME NEW w \in Workers, Leave(w) PROVE PoolInv' /\ Enqueued' = Enqueued /\ Running' = Running
  <2>1. \A v \in Workers : wpc'[v] = "run" <=> wpc[v] = "run"
    BY <1>4 DEF Leave, With, PoolTypeOK, PoolTypes
  <2>2. LeftEmpty'
    BY <1>4 DEF Leave, With, LeftEmpty, PoolTypeOK, PoolTypes
  <2> QED
    BY <1>2, <1>4, <2>1, <2>2 DEF Leave
<1>5. ASSUME NEW W \in SUBSET Blocked, Wake(W), UNCHANGED <<queue, stop, task, result, searchVars>>,
             exit' = exit \/ exit' # "gone"
      PROVE  PoolInv' /\ Enqueued' = Enqueued /\ Running' = Running
  <2>1. \A v \in Workers : /\ wpc'[v] = "run" <=> wpc[v] = "run"
                           /\ wpc'[v] = "left" <=> wpc[v] = "left"
    BY <1>5, WakeRuns
  <2>2. LeftEmpty'
    BY <1>5, <2>1 DEF LeftEmpty
  <2> QED
    BY <1>2, <1>5, <2>1, <2>2
<1>6. ASSUME NEW w \in Workers, WakeForNothing(w)
      PROVE  PoolInv' /\ Enqueued' = Enqueued /\ Running' = Running
  BY <1>5, <1>6 DEF WakeForNothing
<1>7. CASE NotifyAll
  BY <1>5, <1>7 DEF NotifyAll
<1>8. CASE Stop
  <2>1. LeftEmpty'
    BY <1>8 DEF Stop, LeftEmpty, workerVars, PoolTypeOK
  <2> QED
    BY <1>2, <1>8, <2>1 DEF Stop, workerVars
<1>9. CASE Join
  <2>1. LeftEmpty'
    BY <1>9 DEF Join, LeftEmpty, workerVars
  <2> QED
    BY <1>2, <1>9, <2>1 DEF Join, workerVars
<1> QED
  BY <1>1, <1>3, <1>4, <1>6, <1>7, <1>8, <1>9

LEMMA PoolInvStep == PoolInv /\ [PoolNext]_poolVars => PoolInv'
<1> SUFFICES ASSUME PoolInv, [PoolNext]_poolVars PROVE PoolInv'
  OBVIOUS
<1>1. PoolTypeOK /\ PoolTypeOK'
  BY PoolTypeStep DEF PoolInv
<1>2. CASE UNCHANGED poolVars
  <2>1. \A s, i : Handed(s, i)' = Handed(s, i)
    BY <1>2 DEF poolVars, Handed
  <2>2. Enqueued' = Enqueued /\ Running' = Running /\ (Single => Single')
    BY <1>2 DEF poolVars, Enqueued, Running, Single
  <2>3. OnePlace' /\ AllHanded' /\ Gotten' /\ LeftEmpty'
    BY <1>2, <2>1, <2>2 DEF poolVars, PoolInv, OnePlace, AllHanded, Gotten, LeftEmpty
  <2> QED
    BY <1>1, <2>3 DEF PoolInv
<1> QED
  BY <1>1, <1>2, EnqueueStep, TakeStep, FinishStep, NotifyStep, GetStep, QuietStep
     DEF PoolNext, WorkerStep, SearchStep, ExitStep

LEMMA PoolInvariance == PoolSpec => []PoolInv
<1>1. PoolInit => PoolInv
  BY PoolInitInv
<1>2. PoolInv /\ [PoolNext]_poolVars => PoolInv'
  BY PoolInvStep
<1> QED
  BY <1>1, <1>2, PTL DEF PoolSpec

\* A task that outlives its search does so because an earlier one threw or the
\* pool was stopped.
THEOREM OrphansHaveCauses == PoolSpec => []OrphanHasCause
<1>1. ASSUME PoolInv PROVE OrphanHasCause
  <2> SUFFICES ASSUME NEW s \in Searches, NEW i \in 1 .. Shards, spc[s] = "returned",
                      <<s, i>> \in Enqueued \cup Running
               PROVE  \E j \in 1 .. i - 1 : result[<<s, j>>] = "threw"
    BY DEF OrphanHasCause, CallerGone
  <2>1. result[<<s, i>>] = "none"
    BY <1>1 DEF PoolInv, OnePlace
  <2>2. /\ shard[s] \in Int /\ i \in Int /\ 1 <= shard[s] /\ i <= Shards /\ Shards \in Int
    BY <1>1, ShardsAssumption DEF PoolInv, PoolTypeOK, PoolTypes
  <2>3. ~(i < shard[s]) /\ i # shard[s]
    BY <1>1, <2>1 DEF PoolInv, Gotten
  <2>4. shard[s] \in 1 .. i - 1
    BY <2>2, <2>3
  <2>5. result[<<s, shard[s]>>] = "threw"
    BY <1>1, <2>2, <2>3 DEF PoolInv, Gotten
  <2> QED
    BY <2>4, <2>5
<1> QED
  BY <1>1, PoolInvariance, PTL

-----------------------------------------------------------------------------
(* The pool is a bag.                                                      *)

\* What the states of the bag's tasks stand for.
LEMMA BagStates ==
    ASSUME PoolInv
    PROVE  /\ \A t \in Tasks : t \in Running => TaskState[t] = "running"
           /\ \A t \in Tasks : t \in Enqueued => TaskState[t] = "waiting"
           /\ \A t \in Tasks : TaskState[t] = "running" => t \in Running
           /\ \A t \in Tasks : TaskState[t] = "waiting" => t \in Enqueued
           /\ Bag!In({"running"}) = Running
           /\ Enqueued \subseteq Tasks /\ Running \subseteq Tasks
<1>1. Enqueued \subseteq Tasks /\ Running \subseteq Tasks
  BY EnqueuedType DEF PoolInv, PoolTypeOK, PoolTypes, Running
<1>2. \A t \in Tasks : result[t] \in {"none", "ok", "threw"}
  BY DEF PoolInv, PoolTypeOK, PoolTypes
<1>3. /\ \A t \in Tasks : t \in Running => TaskState[t] = "running"
      /\ \A t \in Tasks : t \in Enqueued => TaskState[t] = "waiting"
      /\ \A t \in Tasks : TaskState[t] = "running" => t \in Running
      /\ \A t \in Tasks : TaskState[t] = "waiting" => t \in Enqueued
  BY <1>2 DEF PoolInv, OnePlace, TaskState
<1> QED
  BY <1>1, <1>3 DEF Bag!In

\* A worker that takes a task is one more than those that run.
LEMMA FreeWorker ==
    ASSUME PoolInv, NEW w \in Workers, wpc[w] # "run"
    PROVE  Cardinality(Running) < Cardinality(Workers)
<1> DEFINE R == {v \in Workers : wpc[v] = "run"}
<1>1. IsFiniteSet(Workers \ {w}) /\ Cardinality(Workers \ {w}) = Cardinality(Workers) - 1
  BY WorkersAssumption, FS_RemoveElement
<1>2. R \in SUBSET (Workers \ {w})
  OBVIOUS
<1>3. IsFiniteSet(R) /\ Cardinality(R) <= Cardinality(Workers) - 1
  BY <1>1, <1>2, FS_Subset
<1>4. [v \in R |-> task[v]] \in Surjection(R, Running)
  BY DEF Surjection, Running
<1>5. Cardinality(Running) <= Cardinality(R) /\ IsFiniteSet(Running)
  <2> HIDE DEF R
  <2> QED
    BY <1>3, <1>4, FS_Surjection
<1>6. Cardinality(Running) \in Nat /\ Cardinality(R) \in Nat /\ Cardinality(Workers) \in Nat
  BY <1>3, <1>5, WorkersAssumption, FS_CardinalityType
<1> QED
  BY <1>3, <1>5, <1>6

LEMMA BagStep ==
    ASSUME PoolInv, [PoolNext]_poolVars
    PROVE  [Bag!BagNext]_(Bag!bagVars)
<1> USE DEF Bag!bagVars
<1>0. PoolTypeOK /\ PoolTypeOK' /\ PoolInv'
  BY PoolTypeStep, PoolInvStep DEF PoolInv
<1>1. ASSUME Enqueued' = Enqueued, Running' = Running, UNCHANGED result
      PROVE  TaskState' = TaskState
  BY <1>1 DEF TaskState
<1>2. CASE UNCHANGED poolVars
  BY <1>2 DEF poolVars, TaskState, Enqueued, Running, Phase
<1>3. ASSUME NEW s \in Searches, Search(s) \/ EnqueueRefused(s) \/ Notify(s) \/ Get(s)
      PROVE  UNCHANGED Bag!bagVars
  <2>1. UNCHANGED <<result, exit>>
    BY <1>3 DEF Search, EnqueueRefused, Notify, Get
  <2>2. Enqueued' = Enqueued /\ Running' = Running
    BY <1>0, <1>3, QuietStep, NotifyStep, GetStep
  <2> QED
    BY <1>1, <2>1, <2>2 DEF Phase
<1>4. ASSUME NEW w \in Workers, Block(w) \/ Leave(w) \/ WakeForNothing(w)
      PROVE  UNCHANGED Bag!bagVars
  <2>1. UNCHANGED <<result, exit>>
    BY <1>4 DEF Block, Leave, WakeForNothing
  <2>2. Enqueued' = Enqueued /\ Running' = Running
    BY <1>0, <1>4, QuietStep
  <2> QED
    BY <1>1, <2>1, <2>2 DEF Phase
<1>5. ASSUME NEW s \in Searches, Enqueue(s) PROVE Bag!BagNext
  <2> DEFINE t == <<s, shard[s]>>
  <2>1. /\ t \in Tasks /\ t \notin Enqueued \cup Running /\ result[t] = "none"
        /\ Enqueued' = Enqueued \cup {t} /\ Running' = Running
    BY <1>0, <1>5, EnqueueStep, TaskFacts DEF PoolTypeOK, PoolTypes
  <2>2. TaskState[t] = "new" /\ TaskState'[t] = "waiting"
    BY <1>5, <2>1 DEF TaskState, Enqueue
  <2>3. \A u \in Tasks \ {t} : TaskState'[u] = TaskState[u]
    BY <1>5, <2>1 DEF TaskState, Enqueue
  <2>4. TaskState' = [TaskState EXCEPT ![t] = "waiting"]
    BY <2>2, <2>3 DEF TaskState
  <2>5. Phase = "open" /\ Phase' = Phase
    BY <1>0, <1>5 DEF Enqueue, PoolTypeOK, Phase
  <2> QED
    BY <2>1, <2>2, <2>4, <2>5 DEF Bag!BagNext, Bag!Accept, Bag!Become
<1>6. ASSUME NEW w \in Workers, Take(w) PROVE Bag!BagNext
  <2> DEFINE t == Head(queue)
  <2>1. /\ t \in Enqueued /\ t \notin Enqueued' /\ Enqueued = Enqueued' \cup {t}
        /\ Running' = Running \cup {t}
    BY <1>0, <1>6, TakeStep
  <2>2. t \in Tasks /\ TaskState[t] = "waiting" /\ TaskState'[t] = "running"
    <3>1. t \in Tasks /\ TaskState[t] = "waiting"
      BY <2>1, BagStates
    <3>2. result'[t] = "none"
      BY <1>6, <2>1 DEF Take, PoolInv, OnePlace
    <3> QED
      BY <2>1, <3>1, <3>2 DEF TaskState
  <2>3. \A u \in Tasks \ {t} : TaskState'[u] = TaskState[u]
    BY <1>6, <2>1 DEF TaskState, Take
  <2>4. TaskState' = [TaskState EXCEPT ![t] = "running"]
    BY <2>2, <2>3 DEF TaskState
  <2>5. Cardinality(Bag!In({"running"})) < Cardinality(Workers)
    BY <1>6, FreeWorker, BagStates DEF Take
  <2>6. Phase' = Phase
    BY <1>6 DEF Take, Phase
  <2>7. Bag!Start(t)
    <3>1. Bag!Become(t, "running")
      BY <2>4 DEF Bag!Become
    <3> QED
      BY <2>2, <2>5, <2>6, <3>1 DEF Bag!Start, Bag!Cardinality, Cardinality
  <2> QED
    BY <2>2, <2>7 DEF Bag!BagNext
<1>7. ASSUME NEW w \in Workers, Finish(w) PROVE Bag!BagNext
  <2> DEFINE t == task[w]
  <2>1. /\ t \in Running /\ t \in Tasks /\ Enqueued' = Enqueued /\ Running' = Running \ {t}
        /\ result'[t] \in {"ok", "threw"} /\ \A u \in Tasks \ {t} : result'[u] = result[u]
    BY <1>0, <1>7, FinishStep
  <2>2. TaskState[t] = "running" /\ TaskState'[t] = result'[t]
    BY <2>1, BagStates DEF TaskState
  <2>3. \A u \in Tasks \ {t} : TaskState'[u] = TaskState[u]
    BY <2>1 DEF TaskState
  <2>4. TaskState' = [TaskState EXCEPT ![t] = result'[t]]
    BY <2>2, <2>3 DEF TaskState
  <2>5. Phase' = Phase
    BY <1>7 DEF Finish, Phase
  <2> QED
    BY <2>1, <2>2, <2>4, <2>5 DEF Bag!BagNext, Bag!Finish, Bag!Become
<1>8. CASE Stop
  <2>1. TaskState' = TaskState
    BY <1>0, <1>1, <1>8, QuietStep DEF Stop
  <2> QED
    BY <1>8, <2>1 DEF Stop, Phase, Bag!BagNext, Bag!Close
<1>9. CASE NotifyAll
  <2>1. TaskState' = TaskState
    BY <1>0, <1>1, <1>9, QuietStep DEF NotifyAll
  <2> QED
    BY <1>9, <2>1 DEF NotifyAll, Phase
<1>10. CASE Join
  <2>1. TaskState' = TaskState
    BY <1>0, <1>1, <1>10, QuietStep DEF Join
  <2>2. queue = <<>> /\ \A w \in Workers : wpc[w] = "left"
    BY <1>10, WorkersAssumption DEF Join, PoolInv, LeftEmpty
  <2>3. Enqueued = {} /\ Running = {}
    BY <2>2, EmptySeq DEF Enqueued, Running
  <2>4. Bag!In({"waiting", "running"}) = {}
    BY <2>3, BagStates DEF Bag!In
  <2> QED
    BY <1>10, <2>1, <2>4 DEF Join, Phase, Bag!BagNext, Bag!Go
<1> QED
  BY <1>2, <1>3, <1>4, <1>5, <1>6, <1>7, <1>8, <1>9, <1>10
     DEF PoolNext, WorkerStep, SearchStep, ExitStep

\* Queue, workers, flag and condition variable implement the bag of tasks.
THEOREM PoolImplements == PoolSpec => ImplementsBag
<1>1. PoolInit => Bag!BagInit
  <2> SUFFICES ASSUME PoolInit PROVE Bag!BagInit
    OBVIOUS
  <2>1. Enqueued = {} /\ Running = {}
    BY EmptySeq DEF PoolInit, Enqueued, Running
  <2> QED
    BY <2>1 DEF PoolInit, Bag!BagInit, TaskState, Phase
<1>2. PoolInv /\ [PoolNext]_poolVars => [Bag!BagNext]_(Bag!bagVars)
  BY BagStep
<1> QED
  BY <1>1, <1>2, PoolInvariance, PTL DEF PoolSpec, ImplementsBag, Bag!BagSpec
=============================================================================
