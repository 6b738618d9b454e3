------------------------------ MODULE BertIndex ------------------------------
(***************************************************************************)
(* One shard of an index (src/src/BertIndex.cpp): the HNSW graph in        *)
(* memory and its saved image, the memory-mapped offset entries, the       *)
(* sentence file behind a stdio buffer, the label allocator, and the       *)
(* counters that decide when the graph is saved.                           *)
(*                                                                         *)
(* The process that has the shard open is modelled with its crashes and    *)
(* restarts.  The mapped offset entries live in the page cache, so a crash *)
(* of the process keeps them; the graph, the counters and the stdio buffer *)
(* die with it.                                                            *)
(*                                                                         *)
(* The data is abstracted to what tells states apart.  Every chunk of text *)
(* handed to append is a number 1, 2, ... (its doc); the vector of a       *)
(* chunk and the bytes of a chunk are both named by that number, and a     *)
(* position in the sentence file counts chunks.                            *)
(***************************************************************************)
EXTENDS Naturals, Sequences, FiniteSets

CONSTANTS
    MaxElements,          \* cfg.max_elements: the label space of a shard
    FlushThreshold,       \* cfg.flush_threshold: operations between saves
    IndexFlushThreshold,  \* meta.flush_threshold_: additions before the graph's own flush
    Sids,                 \* sentence ids a caller may give explicitly
    MaxChunks,            \* chunks a sentence may be cut into
    MaxDocs,              \* bound: chunks handed to append in a behaviour
    MaxSid,               \* bound: sentence ids
    MaxFree,              \* bound: length of the queue of recycled labels
    MaxSessions,          \* bound: how often the shard is opened
    MaxCrashes            \* bound: how often the process dies

ASSUME ConstantsAssumption ==
    /\ MaxElements \in Nat /\ MaxElements > 0
    /\ FlushThreshold \in Nat
    /\ IndexFlushThreshold \in Nat
    /\ Sids \subseteq Nat \ {0}
    /\ MaxChunks \in Nat /\ MaxDocs \in Nat /\ MaxSid \in Nat
    /\ MaxFree \in Nat /\ MaxSessions \in Nat /\ MaxCrashes \in Nat

VARIABLES
    isOpen,            \* a process holds a live BertIndex object
    hasGraph,          \* UnifiedIndex::index_ is allocated
    vec,               \* vec[l]: doc whose vector the graph holds under label l, 0 if none
    del,               \* labels marked deleted in the graph
    additions,         \* additions_since_flush_
    next_label,
    free_labels,       \* queue of recycled labels
    dirty_count,
    auto_sentence_id,
    busy,              \* a call to append is running
    left,              \* chunks it has still to store
    job_sid,           \* sentence id it stores them under
    sentOpen,          \* the FILE* of the sentence store is open
    sentBuf,           \* docs written by the store, still in the stdio buffer
    sentFile,          \* docs in the sentence file
    offs,              \* offset entries: mapped memory and file are one
    idxState,          \* the saved graph: "none", "ok", "torn"
    idxVec, idxDel,    \* its contents when "ok"
    docs,              \* chunks handed to append so far
    removed,           \* history: docs taken out with remove(label)
    sessions, crashes  \* history: opens and crashes so far

memVars  == <<hasGraph, vec, del, additions, next_label, free_labels,
              dirty_count, auto_sentence_id>>
jobVars  == <<busy, left, job_sid>>
sentVars == <<sentOpen, sentBuf, sentFile>>
idxVars  == <<idxState, idxVec, idxDel>>
bookVars == <<docs, removed, sessions, crashes>>
vars     == <<isOpen, memVars, jobVars, sentVars, offs, idxVars, bookVars>>

Labels  == 0 .. MaxElements - 1
Docs    == 1 .. MaxDocs
NoGraph == [l \in Labels |-> 0]
NoEntry == [sid |-> 0, at |-> 0]   \* a zeroed OffsetEntry

\* Where the store puts a chunk when it is not open: file_start is -1.
BadAddress == 0

\* Bytes the store would return for position p: the file, then the buffer.
Store == sentFile \o sentBuf

\* The saved graph as loadIndex would find it.
DiskVec == IF idxState = "ok" THEN idxVec ELSE NoGraph
DiskDel == IF idxState = "ok" THEN idxDel ELSE {}

\* The largest sentence id the offset entries hold.
LargestSid(s) == /\ \E l \in Labels : offs[l].sid = s
                 /\ \A l \in Labels : offs[l].sid <= s

-----------------------------------------------------------------------------
(* Mutants: plausible bugs.  The specification uses none of them; a mutant  *)
(* run puts one in the place of the definition it is listed with.           *)

NewLabelOffByOne ==
    IF free_labels # <<>> THEN Head(free_labels)
    ELSE IF next_label > 0 THEN next_label - 1 ELSE 0
AllocateLabelWithoutPop ==
    IF free_labels # <<>> THEN UNCHANGED <<free_labels, next_label>>
    ELSE next_label' = next_label + 1 /\ UNCHANGED free_labels
StoreAddressOfFile == IF sentOpen THEN Len(sentFile) + 1 ELSE BadAddress
KeepEntry(l) == offs
KeepImage == UNCHANGED idxVars

-----------------------------------------------------------------------------
(* Helpers: each stands for a call made inside the operations below.        *)

\* allocate_label: the label it would return; it throws when CannotAllocate.
CannotAllocate == free_labels = <<>> /\ next_label >= MaxElements
NewLabel == IF free_labels # <<>> THEN Head(free_labels) ELSE next_label
AllocateLabel ==
    IF free_labels # <<>>
    THEN free_labels' = Tail(free_labels) /\ UNCHANGED next_label
    ELSE next_label' = next_label + 1 /\ UNCHANGED free_labels

\* FileSentenceStore::append: seeking to the end writes the old buffer out;
\* the new chunk stays in the buffer or, when it is large, goes through.
StoreChunk(doc) ==
    IF ~sentOpen
    THEN UNCHANGED <<sentBuf, sentFile>>
    ELSE \/ sentFile' = Store /\ sentBuf' = <<doc>>
         \/ sentFile' = Append(Store, doc) /\ sentBuf' = <<>>

StoreAddress == IF sentOpen THEN Len(Store) + 1 ELSE BadAddress

\* offsets->set(label, OffsetEntry{}): the entry that says "deleted".
ZeroEntry(l) == [offs EXCEPT ![l] = NoEntry]

\* addPoint: insert the vector, or replace the one the label has and drop its
\* mark; the graph's own flush forgets how many additions there were.
AddPoint(l, doc) ==
    /\ hasGraph' = TRUE
    /\ vec' = [vec EXCEPT ![l] = doc]
    /\ del' = del \ {l}
    /\ additions' = IF additions + 1 > IndexFlushThreshold THEN 0
                                                           ELSE additions + 1

\* The saved image is gone.
DropImage == idxState' = "none" /\ idxVec' = NoGraph /\ idxDel' = {}

\* save: write the graph if it has anything and anything was added.
\* An empty graph makes save unlink index_path with an extension appended
\* once more, which names no file.
WritesGraph(v, adds) == adds > 0 /\ \E l \in Labels : v[l] # 0
SaveGraph(v, d, adds) ==
    /\ dirty_count' = 0
    /\ IF WritesGraph(v, adds)
       THEN /\ idxState' = "ok" /\ idxVec' = v /\ idxDel' = d
            /\ additions' = 0
       ELSE UNCHANGED idxVars /\ additions' = adds

\* An operation leaves the graph (v, d) and dirty_count n, then flushes if due.
FlushIf(due, v, d, n) ==
    IF due THEN SaveGraph(v, d, additions)
           ELSE dirty_count' = n /\ UNCHANGED <<additions, idxVars>>

Idle == isOpen /\ ~busy

-----------------------------------------------------------------------------
Init ==
    /\ isOpen = FALSE /\ hasGraph = FALSE
    /\ vec = NoGraph /\ del = {} /\ additions = 0
    /\ next_label = 0 /\ free_labels = <<>>
    /\ dirty_count = 0 /\ auto_sentence_id = 0
    /\ busy = FALSE /\ left = 0 /\ job_sid = 0
    /\ sentOpen = FALSE /\ sentBuf = <<>> /\ sentFile = <<>>
    /\ offs = [l \in Labels |-> NoEntry]
    /\ idxState = "none" /\ idxVec = NoGraph /\ idxDel = {}
    /\ docs = 0 /\ removed = {} /\ sessions = 0 /\ crashes = 0

\* The constructor.  It loads the graph if there is one (a torn image makes
\* loadIndex throw); next_label and free_labels keep their initial values.
Open ==
    /\ ~isOpen /\ idxState # "torn" /\ sessions < MaxSessions
    /\ isOpen' = TRUE /\ sessions' = sessions + 1
    /\ hasGraph' = (idxState = "ok") /\ vec' = DiskVec /\ del' = DiskDel
    /\ additions' = 0 /\ next_label' = 0 /\ free_labels' = <<>>
    /\ dirty_count' = 0 /\ auto_sentence_id' = 0
    /\ sentOpen' = TRUE
    /\ UNCHANGED <<jobVars, sentBuf, sentFile, offs, idxVars, docs,
                   removed, crashes>>

BeginAppend(sid, n) ==
    /\ Idle /\ docs + n <= MaxDocs
    /\ busy' = TRUE /\ left' = n /\ job_sid' = sid
    /\ UNCHANGED <<isOpen, hasGraph, vec, del, additions, next_label,
                   free_labels, dirty_count, sentVars, offs, idxVars, bookVars>>

\* append(sentence): the id after the largest known one.  The offset entries
\* are scanned for the largest only while auto_sentence_id is 0.
AppendAuto(n) ==
    \E sid \in 1 .. MaxSid :
        /\ IF auto_sentence_id = 0 THEN LargestSid(sid - 1)
                                   ELSE auto_sentence_id = sid - 1
        /\ BeginAppend(sid, n)
        /\ auto_sentence_id' = sid

\* append(sentence, sid): an id chosen by the caller.
AppendId(sid, n) ==
    /\ BeginAppend(sid, n)
    /\ auto_sentence_id' = IF sid > auto_sentence_id THEN sid
                                                     ELSE auto_sentence_id

\* One turn of the chunk loop: label, text, vector, offset entry.
AppendChunk ==
    /\ isOpen /\ busy /\ left > 0 /\ ~CannotAllocate
    /\ AllocateLabel
    /\ docs' = docs + 1 /\ left' = left - 1
    /\ StoreChunk(docs + 1)
    /\ AddPoint(NewLabel, docs + 1)
    /\ offs' = [offs EXCEPT ![NewLabel] = [sid |-> job_sid, at |-> StoreAddress]]
    /\ UNCHANGED <<isOpen, dirty_count, auto_sentence_id, busy, job_sid,
                   sentOpen, idxVars, removed, sessions, crashes>>

\* The embedder returned no usable vector for the chunk: append returns from
\* inside the loop, after the label was taken and the text written.
AppendRejected ==
    /\ isOpen /\ busy /\ left > 0 /\ ~CannotAllocate
    /\ AllocateLabel
    /\ docs' = docs + 1
    /\ StoreChunk(docs + 1)
    /\ busy' = FALSE /\ left' = 0 /\ job_sid' = 0
    /\ UNCHANGED <<isOpen, hasGraph, vec, del, additions, dirty_count,
                   auto_sentence_id, sentOpen, offs, idxVars, removed,
                   sessions, crashes>>

\* allocate_label throws: the exception leaves append as it stands.
AppendFull ==
    /\ isOpen /\ busy /\ left > 0 /\ CannotAllocate
    /\ busy' = FALSE /\ left' = 0 /\ job_sid' = 0
    /\ UNCHANGED <<isOpen, memVars, sentVars, offs, idxVars, bookVars>>

\* All chunks stored: count the append and save when the threshold is met.
AppendDone ==
    /\ isOpen /\ busy /\ left = 0
    /\ busy' = FALSE /\ job_sid' = 0
    /\ FlushIf(dirty_count + 1 >= FlushThreshold, vec, del, dirty_count + 1)
    /\ UNCHANGED <<isOpen, hasGraph, vec, del, next_label, free_labels,
                   auto_sentence_id, left, sentVars, offs, bookVars>>

Removable(l) == hasGraph => vec[l] # 0 /\ l \notin del
TakeOut(l) == offs' = ZeroEntry(l) /\ removed' = removed \cup ({vec[l]} \ {0})

\* remove(label): markDelete throws unless the label is in the graph and not
\* yet deleted, but does nothing at all when there is no graph.
Remove(l) ==
    /\ Idle /\ Len(free_labels) < MaxFree
    /\ Removable(l)
    /\ del' = IF hasGraph THEN del \cup {l} ELSE del
    /\ TakeOut(l)
    /\ free_labels' = Append(free_labels, l)
    /\ FlushIf(dirty_count + 1 > FlushThreshold, vec, del', dirty_count + 1)
    /\ UNCHANGED <<isOpen, hasGraph, vec, next_label, auto_sentence_id,
                   jobVars, sentVars, docs, sessions, crashes>>

\* removeDeletedElements: mark in the graph every label the caller's
\* predicate picks; offset entries and labels stay as they are.
RemoveDeleted(S) ==
    /\ Idle /\ S # {} /\ \A l \in S : vec[l] # 0
    /\ S \cap del = {}
    /\ del' = del \cup S
    /\ LET n == dirty_count + Cardinality(S)
       IN FlushIf(n > FlushThreshold, vec, del', n)
    /\ UNCHANGED <<isOpen, hasGraph, vec, next_label, free_labels,
                   auto_sentence_id, jobVars, sentVars, offs, bookVars>>

\* The predicate also picks a label deleted before: markDelete throws when
\* the loop reaches it, in the order of a hash table; done were marked.
RemoveDeletedThrows(S, done) ==
    /\ Idle /\ \A l \in S : vec[l] # 0
    /\ S \cap del # {} /\ done \subseteq S \ del
    /\ del' = del \cup done
    /\ UNCHANGED <<isOpen, hasGraph, vec, additions, next_label, free_labels,
                   dirty_count, auto_sentence_id, jobVars, sentVars, offs,
                   idxVars, bookVars>>

\* undelete(label, entry): every caller passes the entry the offset file
\* holds, so writing it back changes nothing; unmarkDelete throws unless the
\* label is deleted, and does nothing when there is no graph.
Undelete(l) ==
    /\ Idle
    /\ hasGraph => l \in del
    /\ del' = del \ {l}
    /\ FlushIf(dirty_count + 1 >= FlushThreshold, vec, del', dirty_count + 1)
    /\ UNCHANGED <<isOpen, hasGraph, vec, next_label, free_labels,
                   auto_sentence_id, jobVars, sentVars, offs, bookVars>>

\* flush: save resets dirty_count first, so the branch that would sync the
\* offsets and flush the sentence store is never entered.
Flush ==
    /\ Idle
    /\ SaveGraph(vec, del, additions)
    /\ UNCHANGED <<isOpen, hasGraph, vec, del, next_label, free_labels,
                   auto_sentence_id, jobVars, sentVars, offs, bookVars>>

\* A search that reads the text of a hit seeks in the store's stream, which
\* writes the buffer out.
Search ==
    /\ Idle /\ sentOpen
    /\ \E l \in Labels : vec[l] # 0 /\ l \notin del /\ offs[l].sid # 0
    /\ sentFile' = Store /\ sentBuf' = <<>>
    /\ UNCHANGED <<isOpen, memVars, jobVars, sentOpen, offs, idxVars, bookVars>>

\* clear(): drop the three files and start again with an empty graph.  The
\* sentence store is closed and not opened again; additions is not reset.
Clear ==
    /\ Idle
    /\ hasGraph' = TRUE /\ vec' = NoGraph /\ del' = {}
    /\ next_label' = 0 /\ free_labels' = <<>>
    /\ dirty_count' = 0 /\ auto_sentence_id' = 0
    /\ sentOpen' = FALSE /\ sentBuf' = <<>> /\ sentFile' = <<>>
    /\ offs' = [l \in Labels |-> NoEntry]
    /\ DropImage
    /\ UNCHANGED <<isOpen, additions, jobVars, bookVars>>

\* What the process leaves behind when it is gone.
Gone ==
    /\ isOpen' = FALSE /\ hasGraph' = FALSE
    /\ vec' = NoGraph /\ del' = {}
    /\ next_label' = 0 /\ free_labels' = <<>> /\ auto_sentence_id' = 0
    /\ busy' = FALSE /\ left' = 0 /\ job_sid' = 0
    /\ sentOpen' = FALSE /\ sentBuf' = <<>>

\* The destructor: close the sentence store, then flush.
Close ==
    /\ Idle
    /\ Gone
    /\ sentFile' = Store
    /\ SaveGraph(vec, del, additions)
    /\ UNCHANGED <<offs, bookVars>>

\* The process dies between two operations or inside append; what is left of
\* a chunk half stored is what AppendRejected leaves of it.
Crash ==
    /\ isOpen /\ crashes < MaxCrashes
    /\ Gone
    /\ additions' = 0 /\ dirty_count' = 0 /\ crashes' = crashes + 1
    /\ UNCHANGED <<sentFile, offs, idxVars, docs, removed, sessions>>

\* The process dies in saveIndex, which truncates the image and rewrites it
\* in place: what is left is too short to count as an image, or is torn.  The
\* save is that of an append, a remove, a close, or any of the other calls.
CrashInSave ==
    /\ isOpen /\ crashes < MaxCrashes /\ WritesGraph(vec, additions)
    /\ busy => left = 0 /\ dirty_count + 1 >= FlushThreshold
    /\ \/ UNCHANGED <<offs, removed>>
       \/ /\ ~busy /\ dirty_count + 1 > FlushThreshold
          /\ \E l \in Labels : Removable(l) /\ TakeOut(l)
    /\ sentFile' \in {sentFile, IF busy THEN sentFile ELSE Store}
    /\ Gone
    /\ additions' = 0 /\ dirty_count' = 0 /\ crashes' = crashes + 1
    /\ idxState' \in {"none", "torn"} /\ idxVec' = NoGraph /\ idxDel' = {}
    /\ UNCHANGED <<docs, sessions>>

Next ==
    \/ Open
    \/ \E n \in 0 .. MaxChunks :
          \/ AppendAuto(n)
          \/ \E sid \in Sids : AppendId(sid, n)
    \/ AppendChunk \/ AppendRejected \/ AppendFull \/ AppendDone
    \/ \E l \in Labels : Remove(l) \/ Undelete(l)
    \/ \E S \in SUBSET Labels :
          \/ RemoveDeleted(S)
          \/ \E done \in SUBSET S : RemoveDeletedThrows(S, done)
    \/ Flush \/ Search \/ Clear \/ Close \/ Crash \/ CrashInSave

Spec == Init /\ [][Next]_vars

-----------------------------------------------------------------------------
(* What is true of the states.                                             *)

\* The flags; a call to append runs in an open shard and has an id.
TypeFlags ==
    /\ isOpen \in BOOLEAN /\ hasGraph \in BOOLEAN
    /\ sentOpen \in BOOLEAN /\ busy \in BOOLEAN
    /\ busy => isOpen /\ job_sid # 0

\* The counters.
TypeCounters ==
    /\ additions \in Nat /\ dirty_count \in Nat /\ auto_sentence_id \in Nat
    /\ next_label \in 0 .. MaxElements
    /\ left \in 0 .. MaxChunks /\ job_sid \in Nat
    /\ docs \in Nat /\ sessions \in Nat /\ crashes \in Nat

\* The graph, its image and the offset entries.
TypeTables ==
    /\ vec \in [Labels -> 0 .. docs] /\ del \subseteq Labels
    /\ idxState \in {"none", "ok", "torn"}
    /\ idxVec \in [Labels -> 0 .. docs] /\ idxDel \subseteq Labels
    /\ offs \in [Labels -> [sid : Nat, at : Nat]]
    /\ removed \subseteq 1 .. docs

\* The queue of labels and the sentence file.
TypeQueues ==
    /\ free_labels \in Seq(Labels)
    /\ sentBuf \in Seq(1 .. docs) /\ sentFile \in Seq(1 .. docs)

\* Every variable keeps its type, and the counters stay in the ranges the
\* label space and the bounds give them.
TypeOK == TypeFlags /\ TypeCounters /\ TypeTables /\ TypeQueues

\* An entry that names a piece of text: it is not zeroed and it was written
\* while the sentence store was open.
NamesText(l) == offs[l].sid # 0 /\ offs[l].at # BadAddress

\* The vectors a search would go through now, or after the next start.
CurrentVec == IF isOpen THEN vec ELSE DiskVec

\* While the process never crashed and fewer chunks were appended than the
\* graph's own flush threshold: the text that a label's entry names is the
\* text whose vector the graph holds under that label.  A hit of a search
\* (BertIndex.cpp, filter_knn_results) never shows the text of another
\* chunk, over any number of sessions, removals, reuses and clears.
TextMatchesVector ==
    (crashes = 0 /\ MaxDocs <= IndexFlushThreshold) =>
        \A l \in Labels :
            CurrentVec[l] # 0 /\ NamesText(l) =>
                /\ offs[l].at <= Len(Store)
                /\ Store[offs[l].at] = CurrentVec[l]

\* When saveIndex finds additions_since_flush_ = 0 and returns at once, the
\* vectors in memory are those of the saved image, crashes included.
NothingToSaveIsSaved ==
    MaxDocs <= IndexFlushThreshold /\ isOpen /\ additions = 0 => vec = DiskVec

\* A chunk taken out with remove(label) is never found again: no entry names
\* its text, although the deletion mark itself is not saved when nothing was
\* added since the last save, and whatever undelete is called on.
RemovedIsForgotten ==
    (crashes = 0 /\ MaxDocs <= IndexFlushThreshold) =>
        \A l \in Labels : NamesText(l) /\ offs[l].at <= Len(Store) =>
            Store[offs[l].at] \notin removed

-----------------------------------------------------------------------------
(* The label allocator.                                                    *)

\* A recycled label is in the queue once; it is dead and has no entry.
QueuedOnce ==
    \A i, j \in DOMAIN free_labels : free_labels[i] = free_labels[j] => i = j
QueuedDead ==
    \A i \in DOMAIN free_labels :
        LET l == free_labels[i]
        IN /\ l < next_label
           /\ vec[l] # 0 => l \in del
           /\ offs[l].sid = 0

\* A label not handed out has neither a vector nor an entry.
UntouchedEmpty ==
    \A l \in Labels : l >= next_label => vec[l] = 0 /\ offs[l].sid = 0

\* Every label is recycled, handed out, or untouched.
Accounted == isOpen => QueuedOnce /\ QueuedDead /\ UntouchedEmpty

\* The labels stop being accounted for only when an existing shard is opened
\* (next_label starts at 0 again), a recycled label is undeleted, or a label
\* is removed from a shard that has no graph yet.  No other operation, in
\* any order, can make the allocator's book-keeping wrong.
AccountingLost ==
    [][Accounted /\ ~Accounted' =>
          \/ Open
          \/ \E l \in Labels : Undelete(l)
          \/ ~hasGraph /\ \E l \in Labels : Remove(l)]_vars

\* While the labels are accounted for, append overwrites no vector that a
\* search can return and no entry that names a text.
LiveLabelsNotReused ==
    [][Accounted /\ busy /\ isOpen' =>
          \A l \in Labels :
              /\ vec[l] # 0 /\ l \notin del => vec'[l] = vec[l]
              /\ offs[l].sid # 0 => offs'[l] = offs[l]]_vars

-----------------------------------------------------------------------------
(* Sentence ids.                                                           *)

\* Once an id was chosen in this session, no entry, and no append that is
\* running, has a larger one.
LargestKnown ==
    isOpen /\ auto_sentence_id # 0 =>
        /\ \A l \in Labels : offs[l].sid <= auto_sentence_id
        /\ busy => job_sid <= auto_sentence_id

\* The next automatic id is one that no sentence has, unless the first append
\* of the session came with an id of the caller's: then the entries of earlier
\* sessions are not looked at.  Nothing else loses track of the largest id.
LargestSidLost ==
    [][LargestKnown /\ ~LargestKnown' =>
          auto_sentence_id = 0 /\ \E sid \in Sids, n \in 0 .. MaxChunks : AppendId(sid, n)]_vars
=============================================================================
