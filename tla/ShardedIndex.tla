---------------------------- MODULE ShardedIndex ----------------------------
(***************************************************************************)
(* An index made of shards (src/src/ShardedIndex.cpp): the shards found on *)
(* disk when it is opened, the next one when the last is full, the tuners  *)
(* beside them, and the merge of the last two in its steps, with crashes   *)
(* and later sessions over the files that each step leaves.                *)
(*                                                                         *)
(* A chunk of text is a number, its doc, and stands for text and vector.   *)
(* Of a shard the model keeps what ShardedIndex sees of it: which doc the  *)
(* graph has under each label, how many labels were handed out, whether    *)
(* there is something to save; and of its files the saved graph, the       *)
(* offset entries with the text each shows, and which of those texts still *)
(* wait in a stdio buffer: a death loses these, and cuts off an image that *)
(* is being written.  The rest is in BertIndex.                            *)
(***************************************************************************)
EXTENDS Integers, Sequences, FiniteSets

CONSTANTS
    MaxElements,    \* cfg.max_elements
    Slack,          \* labels a merged shard has over the sizes of the two
    Modes,          \* cfg.parallel_merge: "serial", "parallel" or both
    MaxShard,       \* bound: number of the last shard
    MaxLabel,       \* bound: labels of a merged shard
    MaxDocs,        \* bound: chunks appended
    MaxRejected,    \* bound: chunks the embedder refuses
    MaxRemoved,     \* bound: chunks removed
    MaxMislaid,     \* bound: texts a merge loses in collecting them
    MaxMerges, MaxSessions, MaxCrashes      \* bounds

ASSUME ConstantsAssumption ==
    /\ MaxElements \in Nat \ {0} /\ Slack \in Nat /\ Modes \subseteq {"serial", "parallel"}
    /\ MaxShard \in Nat /\ MaxLabel \in Nat /\ MaxElements <= MaxLabel
    /\ {MaxDocs, MaxRejected, MaxRemoved, MaxMislaid, MaxMerges, MaxSessions,
        MaxCrashes} \subseteq Nat

Tmp == -1                       \* the name that ends in _merged_tmp
Names == Tmp .. MaxShard        \* 0 is the base name, n ends in _sn
Labels == 0 .. MaxLabel - 1
Docs == 1 .. MaxDocs
Nothing == [l \in Labels |-> 0]

\* What an entry shows when it is not zeroed: the text of a doc, or one of these.
Beyond == MaxDocs + 1           \* nothing: it names a place at the end of the text file
Refused == MaxDocs + 2          \* a text that the embedder refuses
Texts == Docs \cup {Beyond, Refused}

VARIABLES
    isOpen,
    shards, tuners,     \* the open shards; how many tuners there are
    hix, obn, sets,     \* saved graph and entries of each name; names with an entry file
    unwritten,          \* entries of each name whose text is in a stdio buffer
    blank, torn,        \* names whose image was cut off: while nothing is saved after it,
                        \* it counts as an empty graph; loading it throws
    job, made, items,   \* where a merge is, the shard it makes, what is still to be added
    docs, rejected,                 \* history: chunks so far, and refused
    removed, cleared,               \* history: taken out by remove (and where), by clear
    shared,                         \* history: docs that an older entry shows too
    rolls, folds, merges, reused,   \* history: rollovers and merges of this session, all
                                    \* merges, whether one found the files of an earlier
    mislaid,                        \* history: docs that a merge lost in collecting them
    sessions, crashes

texts == <<obn, unwritten>>
cuts == <<blank, torn>>
files == <<hix, texts, sets, cuts>>
mergeVars == <<job, made, items>>
session == <<sessions, crashes, rolls>>
history == <<docs, rejected, removed, cleared, shared>>
merging == <<folds, merges, reused, mislaid>>
vars == <<isOpen, shards, tuners, files, mergeVars, history, session, merging>>

NoJob == [phase |-> "no", at |-> 0, limit |-> 0]
NoShard == <<>>

Size(s) == Cardinality({l \in Labels : s.vec[l] # 0})
Entry(s, l) == obn[s.file][l]
Last == shards[Len(shards)]
SetLast(s) == [shards EXCEPT ![Len(shards)] = s]

\* What a search finds in a shard: a vector and the entry that shows its text.
FoundIn(s) == {s.vec[l] : l \in {k \in Labels : s.vec[k] # 0 /\ Entry(s, k) = s.vec[k]}}
\* Names that discover_shards counts: the first without files ends the count.
Whole(n) == (hix[n] # Nothing \/ n \in blank \cup torn) /\ n \in sets
Discovered == {n \in 0 .. MaxShard : \A k \in 0 .. n : Whole(k)}
OnDisk(n) ==
    {hix[n][l] : l \in {k \in Labels \ unwritten[n] : hix[n][k] # 0 /\ obn[n][k] = hix[n][k]}}

\* What a search finds: now, or in the next session, if there can be one.
Found ==
    IF isOpen THEN UNION {FoundIn(shards[i]) : i \in 1 .. Len(shards)}
    ELSE IF Discovered \cap torn # {} THEN {}
    ELSE UNION {OnDisk(n) : n \in Discovered}

Idle == isOpen /\ job.phase = "no"
First == Len(shards) - 1        \* the shards a merge takes, counted from 1
A == shards[Len(shards) - 1]
B == Last

\* save: only a graph with additions is written.
Save(s, h) == IF s.unsaved THEN [h EXCEPT ![s.file] = s.vec] ELSE h
Saved(s) == [s EXCEPT !.unsaved = FALSE]

\* The constructor of a shard: labels are handed out from 0.
OpenShard(n, cap) ==
    [file |-> n, vec |-> hix[n], next |-> 0, free |-> <<>>,
     unsaved |-> FALSE, cap |-> cap]

\* FileSentenceStore::append: seeking to the end writes the old buffer out; the new text
\* stays in the buffer or, when it is large, goes through.  Besides the entry that is its
\* own, each that names the end of the file shows it from now on.
Shows(n, own) == own \cup {l \in Labels : obn[n][l] = Beyond}
StoreText(n, own, d, waiting) ==
    /\ obn' = [obn EXCEPT ![n] = [l \in Labels |-> IF l \in Shows(n, own) THEN d ELSE obn[n][l]]]
    /\ \E left \in {{}, Shows(n, own)} : unwritten' = [waiting EXCEPT ![n] = left]

\* A stream that is read, or closed, writes its buffer out.
WrittenOut(ns) == [n \in Names |-> IF n \in ns THEN {} ELSE unwritten[n]]

\* The texts a merge collects from the shard at i, each with the place it is from.
Entries(i) ==
    {<<i, l, Entry(shards[i], l)>> :
        l \in {k \in Labels : k < shards[i].cap /\ Entry(shards[i], k) # 0}}

-----------------------------------------------------------------------------
(* Mutants: plausible bugs.  The specification uses none of them.           *)

FullOneLater == Size(Last) > MaxElements

\* A merge takes a tuner away, rollover still adds none.
TunersLikeShards == shards' = SubSeq(shards, 1, First) /\ tuners' = tuners - 1

EntryStays(i, l) == UNCHANGED texts

CollectedWithoutB == Entries(First)
CollectedTwice ==
    Entries(First) \cup {<<First + 1, t[2], t[3]>> : t \in Entries(First)} \cup Entries(First + 1)

-----------------------------------------------------------------------------
Init ==
    /\ isOpen = FALSE /\ shards = <<>> /\ tuners = 0
    /\ hix = [n \in Names |-> Nothing] /\ obn = [n \in Names |-> Nothing] /\ sets = {}
    /\ unwritten = [n \in Names |-> {}] /\ blank = {} /\ torn = {}
    /\ job = NoJob /\ made = NoShard /\ items = {}
    /\ docs = 0 /\ rejected = 0 /\ removed = {} /\ cleared = {} /\ shared = {}
    /\ rolls = 0 /\ folds = 0 /\ merges = 0 /\ reused = FALSE /\ mislaid = {}
    /\ sessions = 0 /\ crashes = 0

\* The constructor: a shard and a tuner for each that is found, or the first one.
\* A torn image makes it throw.
Open ==
    /\ ~isOpen /\ sessions < MaxSessions /\ Discovered \cap torn = {}
    /\ LET n == IF Discovered = {} THEN 1 ELSE Cardinality(Discovered)
       IN /\ shards' = [i \in 1 .. n |-> OpenShard(i - 1, MaxElements)]
          /\ tuners' = n
          /\ sets' = sets \cup 0 .. n - 1
    /\ isOpen' = TRUE /\ sessions' = sessions + 1 /\ rolls' = 0 /\ folds' = 0
    /\ UNCHANGED <<hix, texts, cuts, mergeVars, history, crashes, merges, reused, mislaid>>

\* current_shard: the last shard, or a new one if its graph is full.  The new
\* one gets no tuner.
Full == Size(Last) >= MaxElements
Current == IF Full THEN OpenShard(Len(shards), MaxElements) ELSE Last
Appending ==
    /\ Idle /\ shards # <<>>
    /\ Full => Len(shards) <= MaxShard /\ Len(shards) \notin torn
Roll(s) ==
    IF Full
    THEN /\ shards' = Append(shards, s) /\ sets' = sets \cup {Len(shards)}
         /\ rolls' = rolls + 1
    ELSE shards' = SetLast(s) /\ UNCHANGED <<sets, rolls>>

\* allocate_label: a label that was recycled, or the next one.
Label(s) == IF s.free # <<>> THEN Head(s.free) ELSE s.next
TakeLabel(s) ==
    IF s.free # <<>> THEN [s EXCEPT !.free = Tail(@)] ELSE [s EXCEPT !.next = @ + 1]
\* addPoint
Put(s, d) == [TakeLabel(s) EXCEPT !.vec[Label(s)] = d, !.unsaved = TRUE]

\* It reads the capacity through a reference; that of a merged shard
\* is to a local variable that is gone, so it may be anything.
HasLabel(s) == s.free # <<>> \/ s.next < MaxElements \/ s.file = Tmp
RunsOut(s) == s.free = <<>> /\ (s.next >= MaxElements \/ s.file = Tmp)

AppendChunk ==
    /\ Appending /\ docs < MaxDocs
    /\ HasLabel(Current) /\ Label(Current) < MaxLabel
    /\ docs' = docs + 1
    /\ LET s == Put(Current, docs')
       IN /\ \/ Roll(s) /\ UNCHANGED hix
             \/ Roll(Saved(s)) /\ hix' = Save(s, hix)
          /\ StoreText(s.file, {Label(Current)}, docs', unwritten)
          /\ shared' = IF Shows(s.file, {}) \subseteq {Label(Current)} THEN shared
                       ELSE shared \cup {docs'}
    /\ UNCHANGED <<isOpen, tuners, cuts, mergeVars, rejected, removed, cleared, sessions, crashes, merging>>

\* The embedder refuses the chunk: its label is used up, its text stored.
AppendRejected ==
    /\ Appending /\ rejected < MaxRejected
    /\ HasLabel(Current) /\ Label(Current) < MaxLabel
    /\ Roll(TakeLabel(Current)) /\ rejected' = rejected + 1
    /\ StoreText(Current.file, {}, Refused, unwritten)
    /\ UNCHANGED <<isOpen, tuners, hix, cuts, mergeVars, docs, removed, cleared, shared, sessions, crashes, merging>>

\* There is no label left: append throws.
AppendRefused ==
    /\ Appending /\ RunsOut(Current)
    /\ Roll(Current)
    /\ UNCHANGED <<isOpen, tuners, hix, texts, cuts, mergeVars, history, sessions, crashes, merging>>

ZeroEntry(i, l) ==
    /\ obn' = [obn EXCEPT ![shards[i].file][l] = 0]
    /\ unwritten' = [unwritten EXCEPT ![shards[i].file] = @ \ {l}]

\* remove(label, shard) of a chunk that has an entry.
Remove(i, l) ==
    /\ Idle /\ Cardinality(removed) < MaxRemoved
    /\ shards[i].vec[l] # 0 /\ Entry(shards[i], l) # 0
    /\ LET s == [shards[i] EXCEPT !.free = Append(@, l)]
       IN \/ shards' = [shards EXCEPT ![i] = s] /\ UNCHANGED hix
          \/ shards' = [shards EXCEPT ![i] = Saved(s)] /\ hix' = Save(s, hix)
    /\ ZeroEntry(i, l) /\ removed' = removed \cup (({Entry(shards[i], l)} \cap Docs) \X {shards[i].file})
    /\ UNCHANGED <<isOpen, tuners, sets, cuts, mergeVars, docs, rejected, cleared, shared, session, merging>>

\* A search that reads the text of a hit seeks in the stream of the shard.
ReadText(i) ==
    /\ Idle /\ unwritten[shards[i].file] # {}
    /\ \E l \in Labels : shards[i].vec[l] # 0 /\ Entry(shards[i], l) # 0
    /\ unwritten' = WrittenOut({shards[i].file})
    /\ UNCHANGED <<isOpen, shards, tuners, hix, obn, sets, cuts, mergeVars, history, session, merging>>

\* The first k shards, one after the other: where two have one name, the later is what
\* is left.
Unsaved(n, k) == {i \in 1 .. k : shards[i].file = n /\ shards[i].unsaved}
LastUnsaved(n, k) == CHOOSE i \in Unsaved(n, k) : \A j \in Unsaved(n, k) : j <= i
SaveTo(k) ==
    [n \in Names |-> IF Unsaved(n, k) = {} THEN hix[n] ELSE shards[LastUnsaved(n, k)].vec]
SaveAll == SaveTo(Len(shards))

\* flush: the texts stay where they are.
Flush ==
    /\ Idle /\ hix' = SaveAll /\ shards' = [i \in 1 .. Len(shards) |-> Saved(shards[i])]
    /\ UNCHANGED <<isOpen, tuners, texts, sets, cuts, mergeVars, history, session, merging>>

OpenFiles == {shards[i].file : i \in 1 .. Len(shards)}

\* clear: each shard removes the files it works on and starts new ones, then
\* the shards are given up.  The tuners stay.
Clear ==
    /\ Idle /\ shards # <<>>
    /\ hix' = [n \in Names |-> IF n \in OpenFiles THEN Nothing ELSE hix[n]]
    /\ obn' = [n \in Names |-> IF n \in OpenFiles THEN Nothing ELSE obn[n]]
    /\ unwritten' = WrittenOut(OpenFiles) /\ blank' = blank \ OpenFiles
    /\ shards' = <<>> /\ cleared' = 1 .. docs
    /\ UNCHANGED <<isOpen, tuners, sets, torn, mergeVars, docs, rejected, removed, shared, session, merging>>

\* The destructor, when the index is evicted or the program ends.
Close ==
    /\ Idle /\ hix' = SaveAll /\ unwritten' = WrittenOut(OpenFiles)
    /\ isOpen' = FALSE /\ shards' = <<>> /\ tuners' = 0
    /\ UNCHANGED <<obn, sets, cuts, mergeVars, history, session, merging>>

\* The process dies, with graphs h saved and the texts of the names in out written: an
\* entry whose text was in a buffer names a place that is not there, or not yet.
Dies(h, out) ==
    /\ isOpen' = FALSE /\ shards' = <<>> /\ tuners' = 0 /\ hix' = h
    /\ obn' = [n \in Names |-> [l \in Labels |->
                 IF n \notin out /\ l \in unwritten[n] THEN Beyond ELSE obn[n][l]]]
    /\ unwritten' = [n \in Names |-> {}]
    /\ job' = NoJob /\ made' = NoShard /\ items' = {}
    /\ crashes' = crashes + 1 /\ mislaid' = {}
    /\ UNCHANGED <<sets, history, sessions, rolls, folds, merges, reused>>

\* Either no image is being written, or that of s, which was cut to nothing before it
\* is written anew.
DiesOutside(h, out) == Dies(h, out) /\ UNCHANGED cuts
DiesInSave(s, h, out) ==
    /\ s.unsaved /\ Dies([h EXCEPT ![s.file] = Nothing], out)
    /\ \/ blank' = blank \cup {s.file} /\ UNCHANGED torn
       \/ torn' = torn \cup {s.file} /\ UNCHANGED blank

Crash == isOpen /\ crashes < MaxCrashes /\ DiesOutside(hix, {})

\* In a save of one shard, or in flush or the destructor, which have done with those
\* before it; the destructor writes the text of a shard before its graph.
FilesTo(k) == {shards[i].file : i \in 1 .. k}
CrashInSave(k) ==
    /\ Idle /\ crashes < MaxCrashes
    /\ \/ DiesInSave(shards[k], hix, {})
       \/ \E out \in {{}, FilesTo(k)} : DiesInSave(shards[k], SaveTo(k - 1), out)
       \/ \E out \in {{}, FilesTo(k - 1), FilesTo(k)} : DiesOutside(SaveTo(k - 1), out)

\* parallel_search takes the tuner of each shard; where there is none it reads
\* beyond the vector, and may end the process.
SearchFaults == Idle /\ tuners < Len(shards) /\ DiesOutside(hix, {})

-----------------------------------------------------------------------------
(* merge_last_two.                                                          *)

Collected == Entries(First) \cup Entries(First + 1)

\* Two threads collect, one from each shard, and put what they find at the end of one
\* vector, without a lock: what one puts there may be overwritten by the other.
Gathered ==
    IF Entries(First) = {} \/ Entries(First + 1) = {} THEN {Collected}
    ELSE {S \in SUBSET Collected \ {{}} : Cardinality(Collected \ S) <= MaxMislaid}

\* Refused unless as many shards are on disk as are open.  The shard that is made
\* loads what an earlier merge left under its name, and shares it with a shard that
\* an earlier merge made, if that is still open.
MergeBegin(mode) ==
    /\ Idle /\ Len(shards) > 1 /\ Len(shards) = Cardinality(Discovered)
    /\ merges < MaxMerges /\ merges' = merges + 1 /\ Tmp \notin torn
    /\ LET limit == Size(A) + Size(B) + Slack
       IN /\ made' = OpenShard(Tmp, limit)
          /\ job' = [phase |-> IF mode = "serial" THEN "copyA" ELSE "add", at |-> 0, limit |-> limit]
    /\ IF mode = "serial" THEN items' = {} /\ mislaid' = {}
       ELSE items' \in Gathered /\ mislaid' = {t[3] : t \in Collected \ items'} \cap Docs
    /\ unwritten' = WrittenOut(IF mode = "serial" THEN {} ELSE {shards[t[1]].file : t \in Collected})
    /\ reused' = (reused \/ hix[Tmp] # Nothing \/ Tmp \in blank \/ obn[Tmp] # Nothing
                         \/ Tmp \in OpenFiles)
    /\ sets' = sets \cup {Tmp}
    /\ UNCHANGED <<isOpen, shards, tuners, hix, obn, cuts, history, session, folds>>

\* merged->append of the text that an entry shows: one that was refused is refused again,
\* an empty one has no chunks.
Add(d, waiting) ==
    /\ made.next < job.limit /\ made.next < MaxLabel
    /\ \/ d \in Docs /\ StoreText(Tmp, {made.next}, d, waiting)
          /\ \/ made' = Put(made, d) /\ UNCHANGED hix
             \/ made' = Saved(Put(made, d)) /\ hix' = Save(Put(made, d), hix)
       \/ d = Refused /\ StoreText(Tmp, {}, d, waiting)
          /\ made' = TakeLabel(made) /\ UNCHANGED hix

\* The serial merge walks the entries as they are when it comes to them.
Source == IF job.phase = "copyA" THEN A ELSE B
Reading == job.phase \in {"copyA", "copyB"}
Ahead == {l \in Labels : l >= job.at /\ l < Source.cap /\ Entry(Source, l) # 0}
NextLabel == CHOOSE l \in Ahead : \A k \in Ahead : l <= k

\* A shard and the one being made may have one name, and read and write its text in two
\* streams: what one has in its buffer, the other does not see.
Unseen(l) == Source.file = Tmp /\ made.next > 0 /\ l \in unwritten[Tmp]

Copy ==
    /\ Reading /\ Ahead # {} /\ ~Unseen(NextLabel)
    /\ Add(Entry(Source, NextLabel), WrittenOut({Source.file}))
    /\ job' = [job EXCEPT !.at = NextLabel + 1]
    /\ UNCHANGED <<isOpen, shards, tuners, sets, cuts, items, history, session, merging>>

CopyEmpty ==
    /\ Reading /\ Ahead # {} /\ (Entry(Source, NextLabel) = Beyond \/ Unseen(NextLabel))
    /\ job' = [job EXCEPT !.at = NextLabel + 1]
    /\ UNCHANGED <<isOpen, shards, tuners, files, made, items, history, session, merging>>

CopyDone ==
    /\ Reading /\ Ahead = {}
    /\ job' = [job EXCEPT !.phase = IF @ = "copyA" THEN "copyB" ELSE "copied", !.at = 0]
    /\ UNCHANGED <<isOpen, shards, tuners, files, made, items, history, session, merging>>

\* The parallel merge has collected the texts; here one worker adds them, those of the
\* first shard first: in another order they have other labels, and nothing else.
Before(t, u) == t[1] < u[1] \/ (t[1] = u[1] /\ t[2] < u[2])
AddItem ==
    /\ job.phase = "add"
    /\ \E t \in items :
          /\ \A u \in items \ {t} : Before(t, u)
          /\ items' = items \ {t}
          /\ Add(t[3], unwritten) \/ (t[3] = Beyond /\ UNCHANGED <<made, hix, texts>>)
    /\ UNCHANGED <<isOpen, shards, tuners, sets, cuts, job, history, session, merging>>

AddDone ==
    /\ job.phase = "add" /\ items = {}
    /\ job' = [job EXCEPT !.phase = "copied"]
    /\ UNCHANGED <<isOpen, shards, tuners, files, made, items, history, session, merging>>

\* allocate_label throws.  The serial merge ends with that exception, and the
\* shard that was being made is destroyed; a worker's exception ends the process.
Overflows ==
    /\ Reading /\ Ahead # {} /\ Entry(Source, NextLabel) # Beyond /\ ~Unseen(NextLabel)
    /\ made.next >= job.limit
CopyOverflows ==
    /\ Overflows
    /\ hix' = Save(made, hix) /\ unwritten' = WrittenOut({Source.file, Tmp})
    /\ job' = NoJob /\ made' = NoShard
    /\ UNCHANGED <<isOpen, shards, tuners, obn, sets, cuts, items, history, session, merging>>

\* Another worker may be saving the shard.
DiesAdding == DiesOutside(hix, {}) \/ DiesInSave(made, hix, {})
AddOverflows ==
    /\ job.phase = "add" /\ made.next >= job.limit /\ \E t \in items : t[3] # Beyond
    /\ DiesAdding

\* The two threads may also leave a place of the vector without a text: a worker that
\* takes that one reads what is no string.
AddFaults == job.phase = "add" /\ mislaid # {} /\ DiesAdding

\* flush.  The saveIndex that follows, under the name of the first shard, finds
\* nothing to save.
MergeFlush ==
    /\ job.phase = "copied" /\ job' = [job EXCEPT !.phase = "flushed"]
    /\ hix' = Save(made, hix) /\ made' = Saved(made)
    /\ UNCHANGED <<isOpen, shards, tuners, texts, sets, cuts, items, history, session, merging>>

\* The merged shard takes the place of the first, whose destructor writes it out.
MergeInstall ==
    /\ job.phase = "flushed" /\ job' = [job EXCEPT !.phase = "installed"]
    /\ shards' = [shards EXCEPT ![First] = made] /\ hix' = Save(A, hix)
    /\ unwritten' = WrittenOut({A.file}) /\ made' = NoShard
    /\ UNCHANGED <<isOpen, tuners, obn, sets, cuts, items, history, session, merging>>

\* remove_safe_indexes: text and entries of the second shard's name, then its graph.
MergeRemove ==
    /\ job.phase = "installed" /\ job' = [job EXCEPT !.phase = "removed"]
    /\ obn' = [obn EXCEPT ![First] = Nothing] /\ sets' = sets \ {First}
    /\ unwritten' = WrittenOut({First})
    /\ UNCHANGED <<isOpen, shards, tuners, hix, cuts, made, items, history, session, merging>>

MergeRemoveGraph ==
    /\ job.phase = "removed" /\ job' = [job EXCEPT !.phase = "dropped"]
    /\ hix' = [hix EXCEPT ![First] = Nothing] /\ blank' = blank \ {First}
    /\ UNCHANGED <<isOpen, shards, tuners, texts, sets, torn, made, items, history, session, merging>>

PopBack == shards' = SubSeq(shards, 1, First) /\ UNCHANGED tuners

\* pop_back destroys the second shard, which writes it once more.
MergeDone ==
    /\ job.phase = "dropped" /\ job' = NoJob
    /\ hix' = Save(B, hix) /\ unwritten' = WrittenOut({B.file})
    /\ PopBack /\ folds' = folds + 1 /\ mislaid' = {}
    /\ UNCHANGED <<isOpen, obn, sets, cuts, made, items, history, session, merges, reused>>

\* A death in one of these saves: of the shard that is made as it is filled, flushed or,
\* when it overflows, destroyed; of the two others when they are destroyed.
CrashInMerge ==
    /\ crashes < MaxCrashes
    /\ \/ (Reading \/ job.phase \in {"add", "copied"}) /\ DiesInSave(made, hix, {})
       \/ Overflows /\ DiesInSave(made, hix, {Source.file, Tmp})
       \/ job.phase = "flushed" /\ (DiesInSave(A, hix, {A.file}) \/ DiesOutside(hix, {A.file}))
       \/ job.phase = "dropped" /\ (DiesInSave(B, hix, {B.file}) \/ DiesOutside(hix, {B.file}))

MergeStep ==
    \/ Copy \/ CopyEmpty \/ CopyDone \/ AddItem \/ AddDone \/ CopyOverflows \/ AddOverflows
    \/ AddFaults \/ MergeFlush \/ MergeInstall \/ MergeRemove \/ MergeRemoveGraph \/ MergeDone
    \/ CrashInMerge

Next ==
    \/ Open \/ AppendChunk \/ AppendRejected \/ AppendRefused
    \/ \E i \in 1 .. Len(shards), l \in Labels : Remove(i, l)
    \/ \E i \in 1 .. Len(shards) : ReadText(i) \/ CrashInSave(i)
    \/ Flush \/ Clear \/ Close \/ Crash \/ SearchFaults
    \/ \E mode \in Modes : MergeBegin(mode)
    \/ MergeStep

Spec == Init /\ [][Next]_vars

-----------------------------------------------------------------------------
Maps == [Labels -> 0 .. MaxDocs]
EntryMaps == [Labels -> Texts \cup {0}]
ShardType == [file : Names, vec : Maps, next : 0 .. MaxLabel, free : Seq(Labels),
              unsaved : BOOLEAN, cap : Nat]

Phases == {"no", "copyA", "copyB", "add", "copied", "flushed", "installed", "removed",
           "dropped"}

TextsOK ==
    /\ obn \in [Names -> EntryMaps] /\ unwritten \in [Names -> SUBSET Labels]
    /\ blank \subseteq Names /\ torn \subseteq Names /\ shared \subseteq 1 .. docs

TypeOK ==
    /\ isOpen \in BOOLEAN /\ shards \in Seq(ShardType) /\ tuners \in Nat
    /\ hix \in [Names -> Maps] /\ sets \subseteq Names /\ TextsOK
    /\ job \in [phase : Phases, at : 0 .. MaxLabel, limit : Nat]
    /\ made \in ShardType \cup {NoShard} /\ items \subseteq (1 .. MaxShard + 1) \X Labels \X Texts
    /\ docs \in 0 .. MaxDocs /\ rejected \in 0 .. MaxRejected
    /\ {rolls, folds, merges, sessions, crashes} \subseteq Nat /\ reused \in BOOLEAN
    /\ mislaid \subseteq Docs
    /\ cleared \subseteq 1 .. docs /\ removed \subseteq Docs \X Names
    /\ \A i \in 1 .. Len(shards) : shards[i].file \in {i - 1, Tmp}

\* A search reads beyond the tuners exactly when in this session more shards were
\* added by rollover than merges took away: otherwise each shard has its tuner.
TunersMatch ==
    TypeOK /\ (Idle /\ shards # <<>> => (tuners < Len(shards) <=> rolls > folds))

\* A full shard is followed by a new one.  Append runs out of labels in a shard with
\* room only after the embedder refused a chunk, or in a merged one.
StuckHasCause ==
    Idle /\ shards # <<>> /\ ~Full /\ RunsOut(Last) => rejected > 0 \/ Last.file = Tmp

\* A search finds no chunk twice, whatever was rolled over and merged, until a merge
\* finds the files of an earlier one.  A chunk is left out whose text went where an
\* older entry, which a death left without its text, names it too: a merge copies it
\* once for each entry.
FoundOnce ==
    Idle /\ ~reused =>
        \A i, j \in 1 .. Len(shards), k, l \in Labels :
            /\ shards[i].vec[k] \notin shared \cup {0} /\ Entry(shards[i], k) = shards[i].vec[k]
            /\ shards[j].vec[l] = shards[i].vec[k] /\ Entry(shards[j], l) = shards[j].vec[l]
            => i = j /\ k = l

\* What clear took out is not found again, unless there was a merge, whose files bear
\* other names, or a death, after which a shard may be missing before saved ones.  A
\* chunk that was removed is not found again, unless it was removed from a merged
\* shard, an older entry shows its text too, or a merge finds the files of an earlier
\* one.
GoneStaysGone ==
    /\ merges = 0 /\ crashes = 0 => Found \cap cleared = {}
    /\ ~reused =>
         \A d \in Found, n \in Names : <<d, n>> \in removed => n = Tmp \/ d \in shared

\* The chunk is on disk, text and all, in a shard that the next session will find.
Kept(d) == \E n \in Discovered : d \in OnDisk(n)

\* A chunk once found is found from then on, across rollover, merge and restart, unless
\* it is taken out, the label it has is given out again, an image is torn that the next
\* session needs, the process dies before vector and text of the chunk, or a shard
\* before it, are on disk, or while the image it is in is written anew, the session of a
\* merge ends, two threads put it and another in one place, or a merge finds the
\* files of an earlier one.
LossHasCause ==
    [][\A d \in Found \ Found' :
          \/ shards # <<>> /\ shards' = <<>> /\ isOpen'
          \/ Idle /\ docs' > docs /\ Current.vec[Label(Current)] = d
          \/ \E n \in Names : <<d, n>> \in removed'
          \/ isOpen /\ ~isOpen' /\ Discovered' \cap torn' # {}
          \/ crashes' > crashes /\ \/ merges > 0 \/ ~Kept(d)
                                   \/ \E n \in Names : d \in OnDisk(n) /\ hix'[n] = Nothing
          \/ isOpen /\ ~isOpen' /\ merges > 0
          \/ d \in mislaid
          \/ reused]_vars
=============================================================================
