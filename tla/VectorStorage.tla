--------------------------- MODULE VectorStorage ---------------------------
(***************************************************************************)
(* The full-precision vectors kept for rescoring                           *)
(* (src/include/LSMVectorStorage.h, as src/src/unified_hnsw.cpp uses it:    *)
(* memory-mapped main file, streaming compaction).  Added vectors collect  *)
(* in a delta in memory; full deltas are kept as caches; enough of them    *)
(* are merged with the main file into a compact file.  Saving an index     *)
(* writes all vectors into its image, which the next session maps.         *)
(*                                                                         *)
(* Some indexes live in one process and one directory, as shards do.  A    *)
(* vector is a number: how many were added under its label before it, plus *)
(* one.  Delta files are written and never read: only how many matters.    *)
(***************************************************************************)
EXTENDS Integers, Sequences

CONSTANTS
    Stores,             \* indexes, each standing for the path of its image too
    Labels,
    FlushThreshold,     \* flush_threshold_
    CompactThreshold,   \* compact_threshold_
    Relative,           \* paths have no directory: compact files are found
    MaxCalls, MaxOpens, MaxFaults   \* bounds: vectors added, sessions, failures

ASSUME StoresAssumption ==
    0 \notin Stores /\ Relative \in BOOLEAN
ASSUME ThresholdAssumption ==
    /\ FlushThreshold \in Nat \ {0} /\ CompactThreshold \in Nat \ {0}
    /\ MaxCalls \in Nat /\ MaxOpens \in Nat /\ MaxFaults \in Nat

VARIABLES
    open,           \* the index is open
    current,        \* current_delta_
    additions,      \* additions_since_flush_
    caches,         \* delta_caches_, and with it delta_files_
    main,           \* what main_mmap_ptr_ shows under each label
    mapped, linked, \* the compact file it maps, and whether that still has its name
    base,           \* base_filename_
    version,        \* compact_version_counter_
    compactFiles,   \* compact_files_
    currentFile,    \* current_vectors_file_
    disk, short,    \* compact files on disk, and those among them cut short
    image,          \* labels in the saved image, {} if there is none
    adds,           \* history: vectors added under each label
    calls, opens, faults    \* history: calls of addPoint, sessions, failures

deltaVars == <<current, additions, caches>>
mainVars  == <<main, mapped, linked>>
nameVars  == <<base, version, compactFiles, currentFile>>
diskVars  == <<disk, short>>
bookVars  == <<adds, calls, opens, faults>>
vars == <<open, deltaVars, mainVars, nameVars, diskVars, image, bookVars>>

\* No vector, and bytes that are no vector of this index.
None == 0
Garbage == -1
Nothing == [l \in Labels |-> None]

\* A file is named by the path it starts from, 0 for the empty one of an index
\* that was not loaded, and the versions appended to it.
NoFile == <<>>

Set(f, s, x) == [f EXCEPT ![s] = x]

-----------------------------------------------------------------------------
(* Lookup.                                                                 *)

\* The deltas that hold a label, and the first and the last of them.
Holding(cs, l) == {i \in DOMAIN cs : cs[i][l] # None}
Oldest(cs, l) ==
    cs[CHOOSE i \in Holding(cs, l) : \A j \in Holding(cs, l) : i <= j][l]
Newest(cs, l) ==
    cs[CHOOSE i \in Holding(cs, l) : \A j \in Holding(cs, l) : j <= i][l]

\* get_vector
Get(s, l) ==
    IF current[s][l] # None THEN current[s][l]
    ELSE IF Holding(caches[s], l) # {} THEN Newest(caches[s], l)
    ELSE main[s][l]

\* Mutants: plausible bugs.  The specification uses none of them.
GatherDeltas(s, cs) ==
    [l \in Labels |-> IF Holding(cs, l) # {} THEN Newest(cs, l) ELSE None]
RemovedNone(s, file) == {}

\* for_each_vector, over the deltas cs.  A label of the main file takes the
\* first override it finds; of one that is only in deltas the last vector
\* written remains.
Gather(s, cs) ==
    [l \in Labels |->
        IF Holding(cs, l) = {} THEN main[s][l]
        ELSE IF main[s][l] # None THEN Oldest(cs, l) ELSE Newest(cs, l)]

-----------------------------------------------------------------------------
Init ==
    /\ open = [s \in Stores |-> FALSE]
    /\ current = [s \in Stores |-> Nothing] /\ additions = [s \in Stores |-> 0]
    /\ caches = [s \in Stores |-> <<>>]
    /\ main = [s \in Stores |-> Nothing]
    /\ mapped = [s \in Stores |-> NoFile] /\ linked = [s \in Stores |-> FALSE]
    /\ base = [s \in Stores |-> <<0>>] /\ version = [s \in Stores |-> 0]
    /\ compactFiles = [s \in Stores |-> {}]
    /\ currentFile = [s \in Stores |-> NoFile]
    /\ disk = {} /\ short = {} /\ image = [s \in Stores |-> {}]
    /\ adds = [s \in Stores |-> Nothing] /\ calls = 0 /\ opens = 0 /\ faults = 0

\* Compact files of a session that died, found by discover_files: its path and
\* one version.  The last one is the one loaded.
Leftovers(s) ==
    {n \in disk : Relative /\ Len(n) = 2 /\ n[1] = s}
Latest(s) == CHOOSE n \in Leftovers(s) : \A m \in Leftovers(s) : m[2] <= n[2]

\* The constructor, with no image to load.
Open(s) ==
    /\ ~open[s] /\ opens < MaxOpens /\ image[s] = {}
    /\ open' = Set(open, s, TRUE) /\ opens' = opens + 1
    /\ UNCHANGED <<deltaVars, mainVars, nameVars, diskVars, image, adds, calls, faults>>

\* load_vectors with no compact file: the vectors are those of the image, where
\* saving wrote bytes of its stack.  No delta file is looked for.
Load(s) ==
    /\ ~open[s] /\ opens < MaxOpens /\ image[s] # {} /\ Leftovers(s) = {}
    /\ open' = Set(open, s, TRUE) /\ opens' = opens + 1
    /\ base' = Set(base, s, <<s>>)
    /\ main' = Set(main, s, [l \in Labels |-> IF l \in image[s] THEN Garbage ELSE None])
    /\ UNCHANGED <<deltaVars, mapped, linked, version, compactFiles, currentFile,
                   diskVars, image, adds, calls, faults>>

\* The file that a name refers to is gone for those who map it.
Unlinked(names) == [t \in Stores |-> linked[t] /\ mapped[t] \notin names]

\* load_vectors takes the compact file and leaves the stream before the vectors,
\* so that the graph is read from the wrong place and the constructor throws.
\* Destruction removes the compact file, unless that was cut short and refused.
LoadLeftover(s) ==
    /\ ~open[s] /\ opens < MaxOpens /\ image[s] # {} /\ Leftovers(s) # {}
    /\ Latest(s) \notin short
    /\ opens' = opens + 1 /\ disk' = disk \ {Latest(s)}
    /\ linked' = Unlinked({Latest(s)})
    /\ UNCHANGED <<open, deltaVars, main, mapped, nameVars, short, image, adds, calls, faults>>

-----------------------------------------------------------------------------
(* Adding.                                                                 *)

\* addPoint up to the test of the threshold.
Adding(s, l) ==
    /\ open[s] /\ calls < MaxCalls /\ calls' = calls + 1
    /\ adds' = [adds EXCEPT ![s][l] = @ + 1]
Added(s, l) == Set(current[s], l, adds[s][l] + 1)
Full(s) == additions[s] + 1 >= FlushThreshold

AddPoint(s, l) ==
    /\ Adding(s, l) /\ ~Full(s)
    /\ current' = Set(current, s, Added(s, l))
    /\ additions' = Set(additions, s, additions[s] + 1)
    /\ UNCHANGED <<open, caches, mainVars, nameVars, diskVars, image, opens, faults>>

\* flush_delta: the deltas after it.
Flush(s, cs) ==
    /\ current' = Set(current, s, Nothing) /\ additions' = Set(additions, s, 0)
    /\ caches' = Set(caches, s, cs)

AddFlushes(s, l) ==
    /\ Adding(s, l) /\ Full(s) /\ Len(caches[s]) + 1 < CompactThreshold
    /\ Flush(s, Append(caches[s], Added(s, l)))
    /\ UNCHANGED <<open, mainVars, nameVars, diskVars, image, opens, faults>>

\* The delta file cannot be written: the delta stays.  If a compaction is due
\* its file cannot be opened either.
AddCannotFlush(s, l) ==
    /\ Adding(s, l) /\ Full(s)
    /\ faults < MaxFaults /\ faults' = faults + 1
    /\ current' = Set(current, s, Added(s, l))
    /\ additions' = Set(additions, s, additions[s] + 1)
    /\ version' = IF Len(caches[s]) < CompactThreshold THEN version
                  ELSE Set(version, s, version[s] + 1)
    /\ UNCHANGED <<open, caches, mainVars, base, compactFiles, currentFile,
                   diskVars, image, opens>>

\* next_compact_filename
NextFile(s) == Append(base[s], version[s] + 1)

Compacting(s, l) ==
    /\ Adding(s, l) /\ Full(s) /\ Len(caches[s]) + 1 >= CompactThreshold
    /\ version' = Set(version, s, version[s] + 1)

\* Another index that maps the file now written reads what is written there.
Overwritten(s, x) ==
    [t \in Stores |->
        IF t = s THEN x
        ELSE IF linked[t] /\ mapped[t] = NextFile(s)
             THEN [l \in Labels |-> IF main[t][l] = None THEN None ELSE Garbage]
        ELSE main[t]]

\* cleanup_old_compact_files
Removed(s, file) == compactFiles[s] \ {file}

\* compact_streaming and finalize_compaction.
AddCompacts(s, l) ==
    LET cs == Append(caches[s], Added(s, l))
        file == NextFile(s)
    IN /\ Compacting(s, l) /\ Flush(s, <<>>)
       /\ main' = Overwritten(s, Gather(s, cs))
       /\ mapped' = Set(mapped, s, file)
       /\ linked' = Set(Unlinked(Removed(s, file)), s, TRUE)
       /\ base' = Set(base, s, file) /\ currentFile' = Set(currentFile, s, file)
       /\ compactFiles' = Set(compactFiles, s, {file})
       /\ disk' = (disk \cup {file}) \ Removed(s, file)
       /\ short' = short \ (Removed(s, file) \cup {file})
       /\ UNCHANGED <<open, image, opens, faults>>

\* The compact file is cut short: loading it fails when the old mapping is gone.
AddCompactsShort(s, l) ==
    LET file == NextFile(s)
    IN /\ Compacting(s, l) /\ Flush(s, Append(caches[s], Added(s, l)))
       /\ faults < MaxFaults /\ faults' = faults + 1
       /\ main' = Overwritten(s, Nothing)
       /\ mapped' = Set(mapped, s, NoFile) /\ linked' = Set(linked, s, FALSE)
       /\ currentFile' = Set(currentFile, s, file)
       /\ disk' = disk \cup {file} /\ short' = short \cup {file}
       /\ UNCHANGED <<open, base, compactFiles, image, opens>>

\* Any call to addPoint.
Add(s, l) ==
    \/ AddPoint(s, l) \/ AddFlushes(s, l) \/ AddCannotFlush(s, l)
    \/ AddCompacts(s, l) \/ AddCompactsShort(s, l)

-----------------------------------------------------------------------------
\* saveIndex, when the graph counts additions (BertIndex has that count; here any
\* save may find some): for_each_vector flushes the delta first.
Save(s) ==
    /\ open[s] /\ \E l \in Labels : Get(s, l) # None
    /\ LET cs == IF current[s] = Nothing THEN caches[s]
                 ELSE Append(caches[s], current[s])
       IN /\ caches' = Set(caches, s, cs)
          /\ image' = Set(image, s, {l \in Labels : Gather(s, cs)[l] # None})
    /\ current' = Set(current, s, Nothing)
    /\ additions' = IF current[s] = Nothing THEN additions ELSE Set(additions, s, 0)
    /\ UNCHANGED <<open, mainVars, nameVars, diskVars, bookVars>>

\* Unmap the main file and remove the current compact file.
Drop(s) ==
    /\ main' = Set(main, s, Nothing) /\ mapped' = Set(mapped, s, NoFile)
    /\ linked' = Set(Unlinked({currentFile[s]}), s, FALSE)
    /\ caches' = Set(caches, s, <<>>)
    /\ compactFiles' = Set(compactFiles, s, {})
    /\ disk' = disk \ {currentFile[s]} /\ short' = short \ {currentFile[s]}

\* clear, of a quantized index whose image was removed: current_delta_ stays.
Clear(s) ==
    /\ open[s] /\ Drop(s) /\ image' = Set(image, s, {})
    /\ UNCHANGED <<open, current, additions, base, version, currentFile, bookVars>>

\* cleanup, at the end of the object.
Close(s) ==
    /\ open[s] /\ open' = Set(open, s, FALSE) /\ Drop(s)
    /\ current' = Set(current, s, Nothing) /\ additions' = Set(additions, s, 0)
    /\ base' = Set(base, s, <<0>>) /\ version' = Set(version, s, 0)
    /\ currentFile' = Set(currentFile, s, NoFile)
    /\ UNCHANGED <<image, bookVars>>

\* The process dies: the files stay.
Crash ==
    /\ faults < MaxFaults /\ faults' = faults + 1 /\ \E s \in Stores : open[s]
    /\ open' = [s \in Stores |-> FALSE]
    /\ current' = [s \in Stores |-> Nothing] /\ additions' = [s \in Stores |-> 0]
    /\ caches' = [s \in Stores |-> <<>>]
    /\ main' = [s \in Stores |-> Nothing]
    /\ mapped' = [s \in Stores |-> NoFile] /\ linked' = [s \in Stores |-> FALSE]
    /\ base' = [s \in Stores |-> <<0>>] /\ version' = [s \in Stores |-> 0]
    /\ compactFiles' = [s \in Stores |-> {}]
    /\ currentFile' = [s \in Stores |-> NoFile]
    /\ UNCHANGED <<diskVars, image, adds, calls, opens>>

Next ==
    \/ \E s \in Stores :
          \/ Open(s) \/ Load(s) \/ LoadLeftover(s)
          \/ Save(s) \/ Clear(s) \/ Close(s)
          \/ \E l \in Labels : Add(s, l)
    \/ Crash

Spec == Init /\ [][Next]_vars

-----------------------------------------------------------------------------
Vectors == 1 .. MaxCalls
Maps == [Labels -> Vectors \cup {None, Garbage}]
Names == Seq(Nat \cup Stores)

TypeVars ==
    /\ open \in [Stores -> BOOLEAN] /\ linked \in [Stores -> BOOLEAN]
    /\ current \in [Stores -> Maps] /\ main \in [Stores -> Maps]
    /\ additions \in [Stores -> Nat] /\ caches \in [Stores -> Seq(Maps)]
    /\ mapped \in [Stores -> Names] /\ base \in [Stores -> Names]
    /\ version \in [Stores -> Nat]
    /\ compactFiles \in [Stores -> SUBSET Names]
    /\ currentFile \in [Stores -> Names]
    /\ disk \subseteq Names /\ short \subseteq disk
    /\ image \in [Stores -> SUBSET Labels]
    /\ adds \in [Stores -> [Labels -> 0 .. MaxCalls]]
    /\ calls \in 0 .. MaxCalls /\ opens \in 0 .. MaxOpens /\ faults \in 0 .. MaxFaults

\* Every variable keeps its type; only a failed write lets a delta grow beyond
\* its threshold, and only a mapped file has vectors that are not garbage.
TypeOK ==
    /\ TypeVars
    /\ faults = 0 =>
          \A s \in Stores :
             /\ additions[s] < FlushThreshold
             /\ mapped[s] # NoFile => mapped[s] = currentFile[s]
    /\ \A s \in Stores : mapped[s] = NoFile =>
          \A l \in Labels : main[s][l] \in {None, Garbage}

\* l is in the main file and was replaced twice since: compaction takes the
\* older vector.  cs are the deltas it merges.
Outdated(s, l, cs) ==
    main[s][l] # None /\ \E i, j \in Holding(cs, l) : i # j

\* The steps after which a lookup may no longer return the vector added last: a
\* session's begin and end; clear; a compaction of a label replaced twice since
\* the last one; one whose file is cut short, for labels of the main file; and one
\* of another index that writes the compact file this one has mapped, which takes
\* two that were created, not loaded.
LookupLost(s, l) ==
    \/ open'[s] # open[s] \/ Clear(s)
    \/ \E k \in Labels :
          /\ AddCompacts(s, k)
          /\ Outdated(s, l, Append(caches[s], Added(s, k)))
    \/ main[s][l] # None /\ \E k \in Labels : AddCompactsShort(s, k)
    \/ /\ mapped[s] # NoFile /\ mapped[s][1] = 0
       /\ \E t \in Stores \ {s}, k \in Labels :
             /\ AddCompacts(t, k) \/ AddCompactsShort(t, k)
             /\ base[t][1] = 0 /\ mapped[s] = NextFile(t)

\* A lookup returns the vector added last under the label, whatever is flushed,
\* compacted and saved, and whatever the other indexes do, but for those steps.
LookupIsLast ==
    [][\A s \in Stores, l \in Labels :
          \/ Get(s, l)' = IF adds'[s][l] # adds[s][l] THEN adds'[s][l] ELSE Get(s, l)
          \/ LookupLost(s, l)]_vars

\* The image that save writes has the labels that a lookup finds, and no other.
SaveCoversLookups ==
    [][\A s \in Stores :
          Save(s) => image'[s] = {l \in Labels : Get(s, l) # None}]_vars

\* Without crashes and failed writes no compact file stays behind: each one on
\* disk is the current one of an open index.
NoFileLeft ==
    faults = 0 => \A n \in disk : \E s \in Stores : open[s] /\ currentFile[s] = n
=============================================================================
