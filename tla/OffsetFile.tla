----------------------------- MODULE OffsetFile -----------------------------
(***************************************************************************)
(* The memory-mapped offset file of a shard (src/src/OffsetFile.cpp,       *)
(* src/include/OffsetFile.hpp) and the processes that have it open.  A     *)
(* process asks for a capacity, looks at the file's length, brings the     *)
(* file to a length of its own and maps it; a label beyond the capacity    *)
(* grows the file; closing cuts it behind the last entry that carries a    *)
(* sentence id.  Nobody locks the file: only appending and clearing take   *)
(* the shard's writer lock.                                                *)
(*                                                                         *)
(* A step is one system call, or some that no other process can tell apart *)
(* from one.  Lengths are counted in entries.  The file grows with zeros,  *)
(* what is written behind its end is lost, and what one process writes     *)
(* into its mapping all others see.  Text ranges and token spans are       *)
(* abstracted to three kinds of entries.                                   *)
(***************************************************************************)
EXTENDS Integers

CONSTANTS
    Procs,          \* processes that use the shard
    Capacities,     \* capacities they ask for: HNSWConfig::max_elements
    MaxLabel,       \* bound: labels an index hands out, 0 .. MaxLabel
    Slack,          \* what resize adds to half as much again, 100 in the code
    MaxSize,        \* bound: entries of the longest file
    Named,          \* entries that carry a sentence id
    Unnamed,        \* entries with text and sentence id 0
    Bad,            \* those of either whose text range makes no sense
    Zero            \* the entry that was never written

VARIABLES
    len,            \* entries the file has room for
    entry,          \* its entries
    pc, want,       \* where each process is, and the capacity it asks for
    size, max,      \* its filesize, in entries, and its max_entries
    used,           \* what its detect_used_entries found
    company,        \* history: processes whose session others shared
    fresh           \* history: labels others wrote since a process's scan

vars == <<len, entry, pc, want, size, max, used, company, fresh>>
fileVars == <<len, entry>>
mapVars == <<want, size, max>>

Labels == 0 .. MaxLabel
Slots == 0 .. MaxSize - 1
Sizes == 0 .. MaxSize
Entries == Named \cup Unnamed \cup {Zero}

\* The capacity a label beyond the end asks for.
NewCapacity(l) == (l * 3) \div 2 + Slack

ASSUME KindsAssumption ==
    /\ Named \cap Unnamed = {} /\ Bad \subseteq Named \cup Unnamed
    /\ Zero \notin Named \cup Unnamed
ASSUME SizesAssumption ==
    /\ MaxLabel \in Nat /\ Slack \in Nat \ {0} /\ MaxSize \in Nat
    /\ Capacities \subseteq Sizes
    /\ \A l \in Labels : NewCapacity(l) \in Sizes /\ l < MaxSize

\* The processes whose lengths depend on the file's, from the first look.
Users == {p \in Procs : pc[p] \notin {"closed", "looked"}}
Mapped == {p \in Procs : pc[p] \in {"mapped", "scanned"}}

Set1(f, p, x) == [f EXCEPT ![p] = x]
Goto(p, label) == pc' = [pc EXCEPT ![p] = label]

\* ftruncate: what is behind the new end is gone.
Cut(n) == [l \in Slots |-> IF l < n THEN entry[l] ELSE Zero]

Truncate(n) == len' = n /\ entry' = Cut(n)

\* What other processes' scans did not see.
Unseen(p, L) ==
    fresh' = [q \in Procs |-> IF q # p /\ pc[q] = "scanned" THEN fresh[q] \cup L
                              ELSE fresh[q]]

\* A write through p's mapping, lost when the file ends before it.
Write(p, l, e, old) ==
    /\ entry' = IF l < len' THEN Set1(old, l, e) ELSE old
    /\ Unseen(p, {l})

\* The process no longer has the file.
Forget(p) ==
    /\ want' = Set1(want, p, 0) /\ size' = Set1(size, p, 0)
    /\ max' = Set1(max, p, 0) /\ used' = Set1(used, p, 0)
    /\ company' = company \ {p} /\ fresh' = Set1(fresh, p, {})

-----------------------------------------------------------------------------
(* Mutants: plausible bugs.  The specification uses none of them.           *)

\* detect_used_entries starts one entry too low.
IsUsedBelowLast(n, u) ==
    /\ u \in 0 .. n
    /\ u > 0 => entry[u - 1] \in Named
    /\ \A l \in Slots : u <= l /\ l + 1 < n => entry[l] \notin Named

\* resize maps more without making the file longer.
GrowMapOnly(p, l, e) ==
    /\ pc[p] = "mapped" /\ l > max[p] /\ NewCapacity(l) > size[p]
    /\ size' = Set1(size, p, NewCapacity(l)) /\ max' = Set1(max, p, NewCapacity(l))
    /\ len' = len /\ Write(p, l, e, entry)
    /\ UNCHANGED <<pc, want, used, company>>

\* Closing cuts right behind the last used entry.
ShrinkWithoutLook(p) ==
    /\ pc[p] = "scanned" /\ Goto(p, "closed")
    /\ Truncate(IF used[p] = 0 THEN 0 ELSE used[p])
    /\ Forget(p)

\* detect_used_entries, in the first n entries.
IsUsed(n, u) ==
    /\ u \in 0 .. n
    /\ u > 0 => entry[u - 1] \in Named
    /\ \A l \in Slots : u <= l /\ l < n => entry[l] \notin Named

-----------------------------------------------------------------------------
Init ==
    /\ len = 0 /\ entry = [l \in Slots |-> Zero]
    /\ pc = [p \in Procs |-> "closed"] /\ want = [p \in Procs |-> 0]
    /\ size = [p \in Procs |-> 0] /\ max = [p \in Procs |-> 0]
    /\ used = [p \in Procs |-> 0]
    /\ company = {} /\ fresh = [p \in Procs |-> {}]

\* The capacity is the configured one or, for an index that only searches, what
\* the file has.
Look(p) ==
    /\ pc[p] = "closed" /\ Goto(p, "looked")
    /\ \E n \in Capacities \cup {len} :
          /\ n = 0 => n \in Capacities
          /\ want' = Set1(want, p, n)
    /\ UNCHANGED <<fileVars, size, max, used, company, fresh>>

\* The constructor's fstat: a longer file keeps its length, but max_entries stays
\* the capacity asked for, because the assignment meant for it goes to the
\* parameter of the same name.
Stat(p) ==
    /\ pc[p] = "looked" /\ Goto(p, "sized")
    /\ size' = Set1(size, p, IF len > want[p] THEN len ELSE want[p])
    /\ max' = Set1(max, p, want[p])
    /\ company' = IF Users = {} THEN company ELSE company \cup Users \cup {p}
    /\ UNCHANGED <<fileVars, want, used, fresh>>

\* Its ftruncate and mmap, and with cfg.debug the repair that the index asks for.
Map(p) ==
    /\ pc[p] = "sized" /\ Goto(p, "mapped")
    /\ len' = size[p]
    /\ \E fixed \in {{}, {l \in Slots : l < max[p] /\ Cut(size[p])[l] \in Bad}} :
          /\ entry' = [l \in Slots |-> IF l \in fixed THEN Zero ELSE Cut(size[p])[l]]
          /\ Unseen(p, fixed)
    /\ UNCHANGED <<mapVars, used, company>>

\* set, for a label the capacity or at least the file has room for.  An entry of
\* zeros removes the label's.
SetInPlace(p, l, e) ==
    /\ pc[p] = "mapped" /\ l # max[p]
    /\ l > max[p] => NewCapacity(l) <= size[p]
    /\ len' = len /\ Write(p, l, e, entry)
    /\ UNCHANGED <<pc, mapVars, used, company>>

\* set, for a label beyond the capacity: the file gets the new length, whatever
\* length it had.
SetGrows(p, l, e) ==
    /\ pc[p] = "mapped" /\ l > max[p] /\ NewCapacity(l) > size[p]
    /\ size' = Set1(size, p, NewCapacity(l)) /\ max' = Set1(max, p, NewCapacity(l))
    /\ len' = NewCapacity(l) /\ Write(p, l, e, Cut(NewCapacity(l)))
    /\ UNCHANGED <<pc, want, used, company>>

\* set, for the label at the capacity, which does not grow the file.  Behind the
\* mapping's end the entry is lost unless its page is shared with a longer file.
SetAtEnd(p, l, e) ==
    /\ pc[p] = "mapped" /\ l = max[p]
    /\ len' = len
    /\ \/ Write(p, l, e, entry)
       \/ l >= size[p] /\ UNCHANGED <<entry, fresh>>
    /\ UNCHANGED <<pc, mapVars, used, company>>

\* The destructor looks for the last used entry,
Scan(p) ==
    /\ pc[p] = "mapped" /\ Goto(p, "scanned")
    /\ \E u \in Sizes : IsUsed(size[p], u) /\ used' = Set1(used, p, u)
    /\ UNCHANGED <<fileVars, mapVars, company, fresh>>

\* unmaps, and cuts the file one entry behind it.
Shrink(p) ==
    /\ pc[p] = "scanned" /\ Goto(p, "closed")
    /\ IF used[p] = 0 THEN Truncate(0)
       ELSE IF size[p] > used[p] + 1 THEN Truncate(used[p] + 1)
       ELSE UNCHANGED fileVars
    /\ Forget(p)

\* The process dies, or touches a page of its mapping the file no longer has.
Crash(p) ==
    /\ pc[p] # "closed" /\ Goto(p, "closed")
    /\ Forget(p) /\ UNCHANGED fileVars

Next ==
    \E p \in Procs :
        \/ Look(p) \/ Stat(p) \/ Map(p)
        \/ \E l \in Labels, e \in Entries :
              SetInPlace(p, l, e) \/ SetGrows(p, l, e) \/ SetAtEnd(p, l, e)
        \/ Scan(p) \/ Shrink(p) \/ Crash(p)

Spec == Init /\ [][Next]_vars

-----------------------------------------------------------------------------
TypeVars ==
    /\ len \in Sizes /\ entry \in [Slots -> Entries]
    /\ pc \in [Procs -> {"closed", "looked", "sized", "mapped", "scanned"}]
    /\ want \in [Procs -> Sizes] /\ size \in [Procs -> Sizes]
    /\ max \in [Procs -> Sizes] /\ used \in [Procs -> Sizes]
    /\ company \subseteq Users /\ fresh \in [Procs -> SUBSET Slots]

\* Every variable keeps its type, nothing stands behind the end of the file, and
\* no process reads below a label that its mapping does not reach.
TypeOK ==
    /\ TypeVars
    /\ \A l \in Slots : l >= len => entry[l] = Zero
    /\ \A p \in Procs : max[p] <= size[p]

\* A process that has the file for itself maps all of it and nothing else: none
\* of its accesses faults.
SoleUserBacked == \A p \in Mapped \ company : size[p] = len

\* p sets a length without knowing of l: it looked at the file, or scanned it,
\* before somebody else wrote the entry.
StaleLength(p, l) ==
    p \in company /\ l >= len' /\ (l >= size[p] \/ l \in fresh[p])

\* The label is removed, its entry makes no sense, or a process that shares the
\* file sets a stale length.
Excused(l) ==
    \E p \in Procs :
        \/ SetInPlace(p, l, Zero) \/ SetGrows(p, l, Zero) \/ SetAtEnd(p, l, Zero)
        \/ Map(p) /\ entry[l] \in Bad
        \/ StaleLength(p, l)

\* The entry of a sentence disappears only because it is removed or makes no
\* sense, or because a process that shares the file sets a stale length.
LossIsStale ==
    [][\A l \in Slots : entry[l] \in Named /\ entry'[l] = Zero => Excused(l)]_vars

Table == INSTANCE EntryTable
         WITH table <- entry, users <- Users, room <- max, Rooms <- Sizes

\* To a process that is alone with it the file is a table: what is put stays,
\* but for the label at the capacity, and leaving drops only what has no
\* sentence.  A process with company is promised nothing.
ImplementsTable == Table!TableSpec
=============================================================================
