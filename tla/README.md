# Schmate: models, checks and proofs

Schmate (`src/`) is a semantic search engine in C++.  Text is cut into chunks,
each chunk is embedded by a language model, its vector goes into an HNSW graph
and its text into a sentence file; a memory-mapped table of offset entries ties
the two together.  Shards, a merge, an LRU cache of open indexes, a thread pool
and a lock file for writers stand around that core.  This directory holds TLA+
models of the parts that keep state, the TLC runs that check them, and theorems
about them that TLAPS checks.

## 1. Inventory

| Part | Where | State it keeps | Operations | Model |
|---|---|---|---|---|
| Shard (`BertIndex`) | `src/src/BertIndex.cpp` | `next_label`, `free_labels`, `dirty_count`, `auto_sentence_id`, the graph, the offset file, the sentence store | open, append (automatic or explicit id), remove, removeDeletedElements, undelete, flush, save, search, clear, destroy | section 3 |
| Writer lock | `src/include/FileLock.hpp`, `src/src/FileLock.cpp`, `BertIndex.cpp:676-750` | an flock, a pid written in the lock file | try_lock, unlock, wait_lock, remove_lockfile | 4 |
| Vector storage | `src/include/LSMVectorStorage.h` | current delta, delta caches and files, compacted file, mapping, version counters | addPoint, get_vector, flush_delta, compact, save, load, clear | 5 |
| Offset file | `src/src/OffsetFile.cpp` | a header and one fixed-size entry per label, mapped shared | open, set, get, for_each, find, resize, flush, validate, close (shrinks the file) | 6 |
| Sharded index | `src/src/ShardedIndex.cpp` | list of shards, list of tuners | discover, append with rollover, parallel search, remove, merge | 7, 8 |
| Sentences in chunks | `BertIndex.cpp:180-541, 1600-1652` | none of its own | window and overlap, chunk_tokens, reconstruct_sentence | 9 |
| Graph (`UnifiedIndex`, `HierarchicalNSW`) | `src/src/unified_hnsw.cpp`, `src/include/hnswlib/hnswalg.h` | link lists, levels, entry point, label to vector, deletion marks, `additions_since_flush_` | addPoint, updatePoint, markDelete, unmarkDelete, searchKnn, saveIndex, loadIndex, clear | 3, 8, 10 |
| Quantisation | `src/include/hnswlib/int_storage.h`, `quantized.h`, `space_quantized.h`, `space_quantized_ip.h` | trained parameters | fit, quantize, compute_dist, save and load of parameters | 11 |
| Thread pool | `src/include/ThreadPool.hpp` | queue of tasks, stop flag | enqueue, worker loop, destroy | 12 |
| Index manager, LRU cache | `src/src/BertIndexManager.cpp`, `src/include/LRUCache.hpp` | name to open index, order of use | getOrCreate, evict, append, flush, clear | 13 |
| Embedding indexer | `src/src/EmbeddingIndexer.cpp` | none of its own | search that drops what re-Isearch deleted, append a record | 13 |
| Sentence store | `src/include/SentenceStore.hpp` | a stdio stream opened for append and read | append, get, flush, close | 3, 8 |
| Search tuners | `src/include/EfSearchTuner.hpp`, `epsilonTuner.hpp`, `AdaptiveSearchController.hpp` | ef, epsilon, averages | update after a query, save, load | 15 |
| Configuration, embedders, scoring, utilities, command line | see `PROJECT.json` | | | 15 |

**How they interact.**  The manager opens a `ShardedIndex` by name and keeps it
in the cache; the sharded index hands appends to its last shard and opens
another one when the graph of the last is full; searches run over all shards in
parallel, one task of the pool each.  A shard calls the graph, the offset file
and the sentence store one after the other, under the writer lock when
`lock_on_append` is set; the graph passes full-precision vectors to the vector
storage when rescoring is on.  A merge appends the texts of two shards to a
third, from one thread or from several.  Nothing spans these stores: each
reaches the disk by a path of its own (the offset entries through a shared
mapping, the text through a stdio buffer, the graph when `save` rewrites the
whole image), and that is where the system is hard to get right.

**What is hard.**

* *Three stores, three moments of durability.*  After a crash the entries are
  newer than the text, and both are newer than the graph.
* *Restarts.*  A new `BertIndex` over existing files starts its allocator at 0,
  and so does an index that the cache closed and opens again.
* *Label reuse.*  remove, undelete, marking and append share labels; each looks
  at a different part of the state to decide what a label is.
* *Two counters decide whether anything is written*: `dirty_count` in the shard
  and `additions_since_flush_` in the graph; they count different things and
  are reset at different places.
* *Early exits* from the chunk loop of append and from the marking loop.
* *Several processes* share the lock file and the offset file; several threads
  share a shard during a parallel merge, down to the link lists of its graph.
* *Compaction and merge* replace files that are still in use.

**What makes each part correct.**

* Shard: the text of a hit is the text whose vector was hit; a removed chunk is
  not shown again; a label in use is not given out; what `save` skips need not
  be saved.
* Writer lock: one process at a time appends; a waiter goes on when it can.
* Offset file: no entry of one process is lost or unmapped by another; to a
  process alone with it the file is a table.
* Vector storage: `get_vector` returns the last vector added for a label,
  across flushes, compactions, saves and restarts.
* Sharded index: every append goes to a shard with room, each shard has its
  tuner, a merge keeps every chunk once.
* Sentences: what is put together for an id is what was said under it.
* Graph: every element is found, lists stay on their level, no two threads wait
  for each other.
* Quantisation: codes have the distance that the vectors they stand for have.
* Thread pool: each accepted task is run once and the destructor returns.
* Manager: what was appended under a name is found under it until it is taken
  out, in the cache or not.

The hazards, each at its line and with the property that watches it, are in
`PROJECT.json`.

## 2. Plan

The order in which the modules were written, most important behaviour first,
and what each shows.  All of these are done:

1. `BertIndex`, `BertIndex_proofs`: the shard, with crashes and restarts.
2. `WriteLock`: the lock file between processes.
3. `VectorStorage`: deltas, compaction, save and load.
4. `OffsetFile`, its abstract specification `EntryTable`; its refinement.
5. `ThreadPool`, its abstract specification `TaskBag`: refinement and liveness;
   `Concurrency_proofs`, about `WriteLock`, `OffsetFile` and the pool.
6. `ShardedIndex`, `ShardedIndex_proofs`: discovery, rollover, tuners, merges and restarts, over shards
   reduced to what the sharded index sees; `ParallelMerge` and
   `ParallelMerge_proofs`: the workers that append to one shard without a lock.
7. `Sentences`: cutting and putting together, pure functions under a small
   state machine; `Sentences_proofs`.
8. `IndexManager`, `IndexManager_proofs`: the cache and the search of the bridge
   that meets deletions.
9. `Quantization`: codes, their distances and their parameters on disk;
   `Vectors_proofs`, about it and `VectorStorage`.
10. `HnswGraph`, `HnswGraph_proofs`: insertions of several threads into one graph.

What composes what: `ShardedIndex` keeps of a shard what `BertIndex` showed it
to do, its crashes included, `IndexManager` the same of an index with one shard, but for
text in the store's buffer; `ParallelMerge` is
the append of `BertIndex` at a finer grain, and takes the insertion in the graph as one
step, which `HnswGraph` takes apart.  `OffsetFile` and `WriteLock` are the two things that processes
share; the other modules have one process.

Left for later: a refinement of `VectorStorage` and of `BertIndex` to a map that
loses entries only in named steps; RaBitQ and mode BETTER.

## 3. `BertIndex`: one shard

Text is abstracted to numbers: the chunks handed to append are 1, 2, 3, ...,
in order.  A chunk's number stands for its text in the sentence file and for
its vector in the graph, so "this label shows the wrong text" is an inequality
between two numbers.  Positions in the sentence file count chunks.

| Variable | In the code |
|---|---|
| `hasGraph`, `vec`, `del` | `UnifiedIndex::index_`, the vector under each label, the deletion marks |
| `additions` | `UnifiedIndex::additions_since_flush_` |
| `next_label`, `free_labels`, `dirty_count`, `auto_sentence_id` | members of `BertIndex` of these names |
| `busy`, `left`, `job_sid` | a call to append between two turns of its chunk loop |
| `sentOpen`, `sentBuf`, `sentFile` | `FileSentenceStore::fd`, its stdio buffer, the file |
| `offs` | the offset entries: sentence id and start address; file and mapping are one, as they are for a process that dies |
| `idxState`, `idxVec`, `idxDel` | the saved graph: absent, whole or torn |
| `removed`, `sessions`, `crashes` | history, for properties and bounds |

| Action | Code |
|---|---|
| `Open` | constructor 256-316: loads the image if there is one; a torn one throws |
| `AppendAuto`, `AppendId` | 662-673 and 831-869: choice of the sentence id |
| `AppendChunk` | one turn of the loop 873-951: label, text, vector, entry |
| `AppendRejected`, `AppendFull` | the exits 911-924 and the exception of `allocate_label` |
| `AppendDone` | 954-963: count, flush at the threshold |
| `Remove`, `RemoveDeleted`, `RemoveDeletedThrows`, `Undelete` | 1138-1172, with what `markDelete` and `unmarkDelete` refuse |
| `Flush`, `SaveGraph`, `FlushIf` | 1265-1297 and `UnifiedIndex::saveIndex` 633-682 |
| `Search` | reading a hit's text makes the stream write its buffer out |
| `Clear`, `Close` | 324-386, destructor 391-400 |
| `Crash`, `CrashInSave` | the process dies between two steps, or while the image is being rewritten |

The turn of the chunk loop is one action because no other thread of the program
works on the same shard during an append (the parallel merge is the exception,
section 8), and a crash inside a turn leaves what a crash before it,
after it, or after `AppendRejected` leaves.  The label that `remove` gets is any
label: no caller checks it.  With no graph in memory `markDelete` does nothing,
so `Remove` then takes any label too.

Left out: the lock file (section 4); two processes with one offset file
(section 6); `searchOnly` openings, which change nothing the model holds; the
repair of entries in debug mode; failures of single writes; the geometry of the
graph, so a search may return any live label.

Run `shard_sessions` (`BertIndexSessions.cfg`): two labels, up to three chunks in
sentences of at most two, one id that callers choose, save threshold 2, two
sessions, one crash anywhere, also inside `saveIndex`.  Two labels are enough
for one to be live while the other is queued, undeleted or out of range; three
chunks for a label to be used twice; two sessions for the allocator to start
over on a saved graph.  The system stops when the bounds on sessions and chunks
are used up with the shard closed, hence `CHECK_DEADLOCK FALSE`.

* `TextMatchesVector`: the text an entry names is the text of the label's
  vector, in memory and in the saved image.
* `NothingToSaveIsSaved`: when `saveIndex` would return at once, the image
  has the vectors that are in memory.
* `RemovedIsForgotten`: no entry names the text of a removed label, however
  often the label is undeleted, reused or reloaded without its mark.
* `AccountingLost`: the allocator's books (each label is queued once and
  dead, handed out, or untouched) go wrong only by reopening existing files,
  by undeleting a recycled label, or by removing without a graph.
* `LiveLabelsNotReused`: while the books are right, append overwrites no
  vector that can be found and no entry in use.

`TypeOK` and `LargestSidLost` (the next automatic id is larger than all known
ones, unless the first append of the session came with an id of its own) are
proved and not checked by a run.

The first three are stated for behaviours that append no more chunks than
`IndexFlushThreshold`, the graph's own flush threshold (100000 additions): beyond
it `UnifiedIndex` resets its count and `saveIndex` may skip vectors, although
`HnswConfig.hpp:214` speaks of an explicit flush.  The first and the third also
suppose that no process died.  What the model shows of the conditions:

* *A crash separates entry and text.*  The entry is in the page cache at once,
  the text waits in a stdio buffer: `BertIndex.cpp:938` ("consistent on disk")
  holds for the entry alone.
* *Marks are not saved by themselves.*  A save that finds no additions writes
  nothing, so "Memory = disk" (`BertIndex.cpp:1293`) is true of vectors, as
  `NothingToSaveIsSaved` says, and not of marks; the zeroed entry is what keeps
  a removed chunk from coming back.
* *Labels start at 0 in every session.*  The first appends after a restart
  overwrite what is there, against `handbook.md:381`; this is the `Open` in
  `AccountingLost`.

## 4. `WriteLock`: the lock file

Two processes that write to one shard meet at `<name>.lock`.  The module has one
index object in each process; a step is one system call, or some that no other
process can tell apart from one, such as `ftruncate` and `write` by the holder
of the flock when the reader treats an empty and an unreadable file alike.

| Variable | In the code |
|---|---|
| `at`, `job` | which call a process is in, and how far |
| `fd`, `locked`, `advanced` | `FileLock::fd` and `locked`; whether the descriptor's offset is past 0 |
| `writing` | append or clear has begun its work, and no save followed |
| `watched`, `notified` | the inotify watch and an attribute event that waits to be read |
| `path`, `created`, `pid` | the file the name refers to, files numbered as created, what each holds |
| `holder` | the kernel's flock on each file |

| Action | Code |
|---|---|
| `BeginAppend`, `FindsNobody`, `FindsOther` | `wait_lock`, `BertIndex.cpp:725-742`: is the file empty, whose pid is in it |
| `LookForPid` to `TimedOut` | `wait_for_file_removal_inotify`, `FileLock.cpp:74-150` |
| `OpenLock`, `Flock`, `FlockFails`, `WritePid` | `acquire_lock` and `FileLock`, up to the pid |
| `BeginSave`, `BeginClear`, `BeginClose`, `Unlock`, `ClearPid` | `release_lock` at the end of `save` and of `clear` |
| `RemoveLockfile` | the destructor, `BertIndex.cpp:396` |
| `Die` | a process dies; the kernel closes its descriptors |

`FileLock` never moves its descriptor's offset, and `ftruncate` does not either.
The second pid written through one `FileLock` therefore stands behind as many
zero bytes as the first was long, and `ifs >> pid` reads no number from it.  The
model calls such contents `Garbled`: the file is not empty, and it names nobody.

Bounds: three processes, for a holder, a waiter and one that comes between; two
files and one destructor, because it takes a removal and a new file to tell the
name from the file; one death.  The liveness run has two processes.

* `lock_exclusion` (`MCWriteLock`, symmetric in the processes):
  * `HolderKnown`: flag and kernel agree (`FlagIsFlock`); until a destructor removes
    the file, one process at most has the lock (`OneHolder`); a living process's
    pid in the file means that it has the lock or is about to empty the file
    (`LivePidHolds`).  The converse is false: the previous holder may truncate the
    file after the next one wrote its pid, so an empty file is not an unlocked
    one (`HnswConfig.hpp:20`).
  * `ExclusionLost`: two writers meet only after one reads no living process's
    pid and goes on without the lock, or locks beside a writer that has no lock
    or another file's.
* `lock_calls_return` (`WriteLockLive.cfg`): every call comes to an end
  (`CallsReturn`).

**Fairness.**  The shard of section 3 does nothing by itself and its properties
are safety properties, so its specification has none.  `WriteLock` has
`FairSpec`, weak fairness of each process's next step within a call: the
operating system schedules every process, and no step of a call but the wait
blocks.  Nothing is assumed of when calls start, so a holder may keep the lock
for ever.  `TimedSpec` adds weak fairness of `TimedOut`, the 60 seconds that
`wait_lock` passes on; `lock_calls_return` needs it.

Left out: the waits by kqueue and by polling, which are other builds; threads
of one process; what is written under the lock (section 3).

## 5. `VectorStorage`: vectors for rescoring

A quantized index keeps the full vectors beside its graph.  The module has some
indexes (`Stores`) in one process and one directory, as the shards of a search
are.  A vector is a number: the n-th one added under its label in this index.
`None` is no vector, `Garbage` bytes that are no vector of this index.

| Variable | In the code |
|---|---|
| `current`, `additions` | `current_delta_`, `additions_since_flush_` |
| `caches` | `delta_caches_`; `delta_label_sets_` and `delta_files_` go with it |
| `main` | what `main_mmap_ptr_` and `main_offsets_` show under each label |
| `mapped`, `linked` | the compact file mapped, and whether the name still is that file's |
| `base`, `version` | `base_filename_`, `compact_version_counter_` |
| `compactFiles`, `currentFile` | `compact_files_`, `current_vectors_file_` |
| `disk`, `short` | the compact files there are, and those cut short |
| `image` | labels of the vector section of the saved index |
| `adds`, `calls`, `opens`, `faults` | history, for properties and bounds |

| Action | Code |
|---|---|
| `Open`, `Load`, `LoadLeftover` | `UnifiedIndex`'s constructor and `load_vectors` 175-218: no image, its vectors, a compact file left by a crash |
| `AddPoint`, `AddFlushes`, `AddCannotFlush` | `addPoint` 650-661 below the threshold, with `flush_delta` 715-765, and when that cannot write |
| `AddCompacts`, `AddCompactsShort` | `compact_streaming` and `finalize_compaction` 1046-1152, and when the new file does not load |
| `Save` | `save_vectors_to_stream` 828-856 as `saveIndex` calls it |
| `Clear`, `Close`, `Crash` | `clear` 956-963, `cleanup` 1106-1115, the process dies |

What the code does and its comments do not say, each in the model:

* A file name is the path it starts from and the versions appended to it.  An
  index that loaded nothing has the empty path, because no caller sets
  `base_filename_`: all of these write `.vectors.00001`, and so on, in the
  working directory.  A compacted index takes the compact file's name as the
  base of its next one.
* `discover_files` compares names with the whole path, so it finds files only
  for paths without a directory (`Relative`), and looks for compact files
  where it should look for deltas: no delta file is ever read.
* `save_vectors_to_stream` writes the bytes at the address of its pointer
  argument.  `Load` therefore maps `Garbage`.
* `for_each_vector` takes the first, that is the oldest, delta for a label of
  the main file (`Gather`), `get_vector` the newest (`Get`).
* Loading a compact file leaves the stream before the image's vectors; the graph
  is read from there and the constructor throws (`LoadLeftover`).
* `clear` leaves `current_delta_`.

Left out: the in-memory mode, in-memory compaction and loading at an offset, which no caller reaches;
a flush that fails inside a save; a write error that spares the compact file
when the delta before it failed; images torn by a crash (section 3); which saves
the graph's own count of additions lets through (section 3: here any may
happen).  Lookups from other threads during an append: no caller makes them.

Run `vectors` (`MCVectorStorage`, symmetric in the labels): two indexes, two
labels, both thresholds 2, six additions, three sessions, one failure.  Two
labels, because a compaction is set off by one and spoils the other; two
indexes for a shared name; six additions for both of them to compact; three
sessions to save, load, compact, crash and meet the leftover file.  The system stops
when the bounds are used up with all indexes closed, hence `CHECK_DEADLOCK FALSE`.

* `LookupIsLast`: a lookup returns the vector added last and only an addition
  changes it, whatever is flushed, compacted and saved in this index or another,
  but for the five kinds of step that `LookupLost` names.  Each of these is
  needed: without any one of them TLC finds the property violated.  Two of them
  are what comments promise not to happen: compaction brings an older delta's
  vector back (`LSMVectorStorage.h:50`, `934`), and a saved index holds the bytes
  of a pointer for vectors (`LSMVectorStorage.h:32`, `844`).
* `SaveCoversLookups`: the image has the labels that a lookup finds.
* `NoFileLeft`: without failures each compact file on disk is the current one of an
  open index, though indexes overwrite and remove each other's.

## 6. `OffsetFile`: the mapped table, and `EntryTable`: what it promises

A process opens the file for a capacity, brings it to a length of its own and
maps it; other processes do the same to the same file without a lock.  A step
is one system call, or several that no other process can tell from one: writing
through the mapping, growing and mapping anew, validating after mapping.

| Variable | In the code |
|---|---|
| `len`, `entry` | the file's length in entries, and the entries; file and shared mappings are one |
| `pc`, `want` | where in constructor and destructor each process is, and its capacity |
| `size`, `max` | `filesize`, in entries, and `max_entries` |
| `used` | what `detect_used_entries` found |
| `company`, `fresh` | history: whose session others shared; labels others wrote since its scan |

| Action | Code |
|---|---|
| `Look`, `Stat`, `Map` | `BertIndex.cpp:298-306`, `OffsetFile.cpp:15-49`: is there a file, its length, `ftruncate` and `mmap`, repair |
| `SetInPlace`, `SetGrows`, `SetAtEnd` | `set` 122-132 and `resize` 79-98; the label equal to `max_entries` is written behind the last without growing |
| `Scan`, `Shrink` | destructor 51-77 |
| `Crash` | the process dies, also by an access behind the file's end |

A write behind the end of the file is lost within the last page and kills the
process beyond it: both outcomes are in the model.  `EntryTable` knows no file:
processes enter, put and leave; alone, a process finds what it and its
predecessors put, but for unnamed entries above the last named one; with
company nothing is promised.

Run `offset_file` (`MCOffsetFile`, symmetric in the processes): two processes,
capacities 1 and 2, three labels, `resize` to half as much again and one
(100 in the code), four entries at most, one entry of a sentence and one without.
Two processes are all that the properties need to tell company from none; the
three labels fall inside, at and beyond the capacity.

* `SoleUserBacked`: a process that has had the file for itself maps all of it
  and nothing else.
* `LossIsStale`: the entry of a sentence goes only by removal, by repair, or
  because a process that shares the file sets a length older than the entry.
* `ImplementsTable`: `OffsetFile` implements `EntryTable`, with the file's
  entries for the table and `max_entries` for the room.

Left out: `unlink` by clear, `flush` (`msync` changes nothing a process sees),
`add_offset`, which has no caller.

## 7. `ShardedIndex`: rollover and merge

A chunk is a number, its doc, for text and vector.  Of a shard the module keeps
what `ShardedIndex` sees: which doc the graph has under each label, how many
labels were handed out, whether there is something to save; and of its files
the saved graph, the entries with the text each shows, and which of these texts
are still in a stdio buffer.

| Variable | In the code |
|---|---|
| `shards`, `tuners` | the members of these names, the second only its length |
| `hix`, `obn`, `sets` | saved graph and entries of each name; names with an entry file.  An entry shows a doc, a text the embedder refused, or `Beyond`: a place at the end of the text file where nothing is yet |
| `unwritten` | entries whose text is in the buffer of the store's stream: `append` writes with `fwrite` (`SentenceStore.hpp:63-71`), while the entry goes to a mapped page at once (`BertIndex.cpp:943`) |
| `blank`, `torn` | names whose image a death cut off: so short that it counts as an empty graph, or so that the constructor throws |
| `job`, `made`, `items` | where `merge_last_two` is, the shard it makes, the texts still to be added, each with the shard and label it is from |
| `docs`, `rejected`, `removed`, `cleared`, `shared`, `rolls`, `folds`, `merges`, `reused`, `mislaid`, `sessions`, `crashes` | history |

| Action | Code |
|---|---|
| `Open`, `Close`, `Crash` | constructor 40-66 with `discover_shards` 27-38, destructors, the process dies |
| `AppendChunk`, `AppendRejected`, `AppendRefused` | `append` 98-103 with rollover 77-86: stored, refused by the embedder, out of labels |
| `Remove`, `Flush`, `Clear` | 117-119, 631-636, 69-74 |
| `ReadText` | a search that reads the text of a hit seeks in the stream (`BertIndex.cpp:1655-1667`), which writes its buffer out |
| `CrashInSave`, `CrashInMerge` | a death in `saveIndex`, which truncates the image and writes it in place (`unified_hnsw.cpp:644-677`): in any save of a shard, in flush and the destructors with the shards before it done, and in each save of a merge |
| `SearchFaults` | 161-170: a search reads behind the last tuner, and the process may die |
| `MergeBegin` to `MergeDone` | `merge_last_two` 281-301, `merge_two_serial` 431-452 and `merge_two_parallel` 330-402, one step per effect that a crash may come after |
| `AddFaults` | 370-377: a worker takes a place of `items` that no text was put in |

What the code does, each in the model: rollover adds no tuner; the merge saves
through `saveIndex` after a flush, which writes nothing, so the merged graph
exists under the name `_merged_tmp` only, where no later session looks; a
restart after a merge finds the old files of the first shard and not those of
the second; a second merge of the session opens the shard the first one made
under its own name; files left under the merge name are what a later merge
begins with (`reused` notes both); saving all shards where two have one name
leaves the later one's graph; the two threads that collect the texts of a
parallel merge append to one vector without a lock (344-360), so that texts are
overwritten or places stay without one (`Gathered`, `mislaid`); clear after a merge leaves the first shard's files; labels run out
before a shard is full when chunks were rejected, and append then throws for
ever.

What a death does to the files, in the model too: the text of an entry is in the
file only after a later append, a read, or the end of the stream, and neither
flush nor save sees to it.  A death before that leaves an entry that
names the end of the file, and the text that the next append puts there is shown by
both entries (`StoreText`, `shared`).  `remove` zeroes one of them, and a merge,
which walks the entries, copies the text once for each.  An image that was being
written is cut to nothing first, so a death loses what the image held before
as well.  Left short, it counts as an empty graph, and no save removes it, since for an
empty graph `save` calls an `unlink` that appends the extension once more
(`BertIndex.cpp:1291`, 1831); left torn, it ends the constructor of every later
session with an exception.

Run `sharded` (`ShardedIndex.cfg`): shards of two labels, three names, seven
labels for a merged shard, four chunks, one rejected, one removed, two merges
of either kind, two sessions, one crash, one text lost in collecting (two make the
state space many times larger and meet the same steps); 1,539,161 states.  Four
chunks fill two shards, and two merges, in one session or in two with a crash between
them, meet what a first one left.  Two labels are needed for an entry that a death
left without its text beside one that has it.  A third shard is opened here only for a chunk
that is refused, and no merge runs beside it; with `MaxElements = 1` and the other
bounds as they are (687,019 states) merges do leave a shard alone, and the same
properties hold, as the theorems say they do for any number of shards.  The
system stops when the bounds are used up with the index closed, hence
`CHECK_DEADLOCK FALSE`.

* `TunersMatch`: a search reads behind the tuners exactly when the session added
  more shards by rollover than merges took away.
* `StuckHasCause`: append runs out of labels in a shard with room only after a
  rejected chunk, or in a merged shard.
* `FoundOnce`: no chunk is found twice, until a merge meets an earlier one's files.
  Left out is a chunk whose text an older entry shows too (`shared`), since a merge
  copies that one twice.
* `GoneStaysGone`: what clear took out is not found again without a merge or a death;
  what remove took out is not found again unless it stood in a merged shard, or is
  `shared`, so that another entry still shows it.
* `LossHasCause`: a chunk once found is found from then on, across rollover,
  merge and restart, but for the causes named.  Of a death these are: its text or its
  vector was not on disk yet; the image it is in was being written anew, even if
  the chunk had been in it for sessions; an image that the next session needs is torn; there was a
  merge.

Simplified: a place in the text file is told apart only as far as it is the end
of the file or not, so a text lost with a death may be followed by one longer or
shorter, and the entry is taken to show it whole; a text is in the file
whole or not at all; text, entry and vector of an append are one step, and so are
clear, the constructor, and `MergeRemove`'s text and entries (`BertIndex` takes the
append and clear apart, for one shard).  Where a
merge meets a shard that has its own name, two streams are open on one text file;
they are taken as one buffer, but what the one has not written the other does not
read (`Unseen`).  That is after `reused` only, where the three properties end.

Left out: the bodies of searches (sections 12 and 13), `merge()` (272) and
`remove(label)` over all shards (105), which no caller reaches; which saves a
threshold sets off (any save may happen); marks, the lock file, the lengths of
the two offset file objects a merge has on one name; more than one worker in a
parallel merge (section 8), which adds the texts in the order of their shards and labels:
in another order they have other labels, which no property tells apart; exceptions in such a worker, which end the process as a
crash does.

## 8. `ParallelMerge`: several workers in one append

`merge_two_parallel` lets its threads call `append` on one shard, which has no
lock within the process.  A step is one access to what they share.

| Variable | In the code |
|---|---|
| `phase`, `taken`, `pc`, `item` | the merge, `idx_next`, each worker's place and text |
| `label`, `pos`, `register`, `mine`, `snap` | locals of `append`, and numbers read and not yet written back |
| `auto_sentence_id`, `next_label`, `sentences`, `entries` | the shard |
| `graph`, `vec`, `additions`, `image`, `disturbed`, `saves` | the graph (created lazily), its count, its file, saves that were disturbed |
| `raced` | history: in which section of code two workers met |

`Take` to `Return` follow `append` statement by statement (`BertIndex.cpp:860-963`,
`SentenceStore.hpp:64-71`, `unified_hnsw.cpp:209-249`), `BeginSave` to `EndSave`
`saveIndex` 633-682; `Join` and `FinalFlush` end the merge.  `additions` is an
unsigned count in the code; a value below 0 stands for one that wrapped around.

Run `parallel_merge` (`MCParallelMerge`, symmetric in the workers): two workers,
three texts whose largest id comes in the middle, two saves.  Every race is
between two threads; the third text is what comes after it.  The merge ends,
hence `CHECK_DEADLOCK FALSE`.

* `LossHasCause`: at the end every text is found, unless two workers met in
  `allocate_label`, between seek and write, or in creating the graph.
* `NumbersHaveCause`: a label with one text's vector and another's entry, or an
  automatic id that is not new, needs two workers in `allocate_label`, or in
  noting an id.
* `SavedHasCause`: after the last flush the image is the graph, unless two saves
  met, or a save and the count; a save during which points are added is made up for.

The comment that appending is safe (`ShardedIndex.cpp:438`) is true of the
lock file between processes, not of these threads.  Texts of one chunk each, as
merged texts are; no embedding is refused; the insertion in the graph is one
step (section 10).

## 9. `Sentences`: cut and put together

A text is a sequence of tokens and of blanks and tabs between them.  `Windows`,
`Slice` and `Chunks` are `chunk_tokens` (`BertIndex.cpp:474-541`), `MaxTokens`
and `Overlap` `initialize_model_profile` (192-210), `Skip`, `Join` and
`Reconstructions` `reconstruct_sentence` (1600-1652), `ReconstructSid` the search
for the shard (`ShardedIndex.cpp:220-226`).  The state is the shards, each with
entries by label, recycled labels and `auto_sentence_id`; `AppendAuto`, `AppendId`,
`RemoveChunk` and `MergeLastTwo` change it.  The places of tokens and of blanks are
lists of positions (`Where`); a sentence's chunks are put one after the other, each
as its `EntryFor` (`PutAll`), and joined one after the other (`JoinAll`).

Run `sentences` (`MCSentences`): four texts (single blanks, short, a double blank,
tabs), three settings of window and overlap, shards of five chunks, three
sentences, two removals, one merge.  Deadlock is not checked: the bounds end
the system.

* `ReconstructsRemaining`: a sentence with single blanks whose id no other has
  comes back as the tokens of the pieces that are left, each once and in order.
  A merge spares only sentences of one window: each chunk becomes a text of its own that starts at
  token 0 (`test_reconstruct.cpp:59-66` expects more).
* `LosesNoToken`: a sentence stored whole is covered by its pieces and comes back
  with every token, but for tabs.
* `OwnIdsAreNew`: the id a shard gives is that of no sentence it has.

`overlap_percent` is a fraction and the code divides it by 100 once more, so a
window set by the user has no overlap; equal starts sort in any order; labels
that run out leave a sentence cut short.  `get_text` by shard, stored vectors and
the re-Isearch bridge's entries are left out.

## 10. `HnswGraph`: insertions of several threads

| Variable | In the code (`hnswalg.h`) |
|---|---|
| `count`, `level`, `vec`, `deleted`, `links` | `cur_element_count`, `element_levels_`, vectors, marks, link lists as sets |
| `enterpoint_node_`, `maxlevel_`, `global` | the first two, and the holder of the mutex `global` |
| `pc`, `job`, `at`, `obj`, `near`, `top`, `cand`, `seen`, `hop`, `rest` | locals of `addPoint`, `searchBaseLayer`, `mutuallyConnectNewElement`, `updatePoint` |
| `dropped`, `fault`, `updates` | history |

| Action | Code |
|---|---|
| `AddNew`, `TakeGlobal`, `FirstElement`, `ReadEntry` | `addPoint` 1272-1335 |
| `Descend`, `Expand`, `Select`, `Connect`, `Publish` | 1334-1386, 326-399, 601-725: each visit to another list under its mutex a step |
| `AddExisting`, `CopyMaxLevel`, `CopyEntry`, `ReadNeighbours`, `ReadHop`, `Rewrite` | `updatePoint` 1118-1186, then `repairConnectionsForUpdate` 1210-1256 |
| `MarkDelete`, `UnmarkDelete` | 972-1046 |

Two threads are in one graph only during a parallel merge, which marks nothing,
so marks are set and taken back only while one thread at a time is inserting.
The capacity's exception is a guard.  The exceptions on lists that are too long,
name their own element or reach a level that does not exist are what
`GraphSound` says cannot happen.  Level-0 lists have `2 * M` places in the code; `MaxM0`
is a constant of its own so that lists overflow with four elements.  `Far` is
`numeric_limits::max()`, the distance that stands for a marked element in the
queue of candidates.

`getNeighborsByHeuristic2` is its result: the one set that, from the nearest pair on,
has those that are not nearer to one it has already (`Heuristic`).  A search is
what it comes to when nobody inserts: the greedy walk down the levels
(`Nearer`, `Nearest`, `Descended`) and all that the lists of level 0 lead to from
there (`ReachedFrom`, `SearchKnn`).

Run `graph` (`MCHnswGraph`, symmetric in the threads): two threads, points 0, 1,
4 and 6 on a line (no two equally far from a third), `M` and `MaxM0` 2, four
elements on two levels, four calls, one of them a replacement, one mark.  The
system stops when the calls are used up, hence `CHECK_DEADLOCK FALSE`.

* `GraphSound`: lists fit, never name their own element, stay on their level;
  the entry point is on the highest level unless somebody is raising it.
* `NotFoundHasCause`: when nobody is inserting, a search with room for all elements finds
  all that are not marked, unless a full list dropped one or did not take it in.
* `FaultHasCause`: memory that is no link list is read only by an update whose
  copies of maximum level and entry point are torn by an insertion, or by an
  insertion that found only marked neighbours and takes the last of an empty
  vector.  The second needs more elements than the bounds have; the proof
  (section 14) covers it.
* `NoCircle`: the mutexes are never waited for in a circle.

Left out: replacing deleted elements and resizing, which are switched off; the
mutex of a label (its element stands for it, and hash collisions of labels are
left out); a vector read while it is copied; distances that tie.

## 11. `Quantization`: codes and distances

Components are integers, 16 of them a 1.0.  `Pack` and its parts are the packings
of `int_storage.h` (1, 2, 3, 4, 5, 6 and 8 bits, with carries over bytes);
`BinCode`, `TernaryCode` and `LinearCode` the trained codes, `TrainL2` and `TrainIP`
with what they call the `fit` of `space_quantized.h` and of `space_quantized_ip.h`,
`ComputeDistL2Pass`, `ComputeDistPass`, `ComputeDist` and `ComputeDistIP` the
distances.  Parameters are fractions: `low` and `high` over `den`.  The two spaces
train the same three types differently: the L2 space takes the median, or codes
from the least sample on; the inner-product space takes the mean, and codes the
distance from it, `levels / 2` steps to each side.

The state is one index: `space`, `params` and what they were taken from, one stored
code, whether there is something to save, the file; `Fit`, `AddVector`, `SaveIndex`
and `Reopen` change it (`unified_hnsw.cpp:182-240, 633-750`).

Run `quantization` (`MCQuantization`): three dimensions, so that 3, 5 and 6 bits
cross bytes; components below 0, between two roundings, beyond half and beyond
all of each type; even and odd sample sets, symmetric and skewed ones; all seven
pass-through types, and all four trained types in modes STANDARD and CENTROID, in
both metrics: 30 kinds of index, of which `Init` takes any.

* `PassedDistanceHasCause`: packed codes have the distance of the rounded
  vectors, unless the code reads them as nibbles (`space_quantized.h:695`, L2 of
  every type but one), reads an unsigned field as signed, or wrapped the
  component before clamping it (`int_storage.h:419`).
* `FindsItself`: a stored vector has distance 0 to its code, or with BIN1 in the
  inner-product space the largest product there is, over saving, loading and
  fitting, unless the quantiser was fitted anew after it was added.
* `TrainedCodesHold`, four claims about fitted parameters:
  * `Decodes`: a linear code decodes to within half a step of what it was made from,
    if that lies in what the parameters cover.
  * `CoversSamples`: they cover the samples, except that `compute_scale_offset`
    (`space_quantized_ip.h:1195`) gives their width to an interval about their mean,
    and so leaves some out exactly when the mean is not in their middle.  Mode
    CENTROID takes twice the furthest distance and leaves none out.
  * `SplitsEvenly`: percentiles split the samples evenly, a mean has some of them
    on both sides.
  * `KeepsSigns`: in each dimension the product of two codes has the sign that the
    centred components have, in spite of rounding and clamping; INT158 may say 0,
    and its percentiles may be wrong, because centring before sorting and undoing
    it afterwards (lines 1140-1151) leaves them where they were: the mean need not
    lie between them.

Left out: floating-point storage (FP4, FP16, BF16, INT16, float), rotations and
residuals (RaBitQ), mode BETTER, the buffer of `add_to_centroid` (nothing in the
program calls it), the SIMD variants and rounding of float arithmetic, the weights
of the distances and `finalize_dist`.

## 12. `ThreadPool` and `TaskBag`

A step is one critical section of the queue's mutex, one notification, one task,
or one result taken.

| Variable | In the code |
|---|---|
| `queue`, `stop` | `ThreadPool::tasks`, `stop` |
| `wpc`, `task` | where each worker is in its loop (40-58), and its task |
| `spc`, `shard`, `result` | where each `parallel_search` is (`ShardedIndex.cpp:146-191`), the future of each task |
| `exit` | where the destructor is (61-68) |

Tasks may throw, workers wake up for nothing, the destructor may run at any
moment, and a search that began before it may then be refused.  `TaskBag` knows
no queue and no threads: a task is accepted, runs once, at most `Limit` at a
time, and the bag is gone only when all have run.

Run `thread_pool` (`ThreadPool.cfg`): two workers and two searches of two shards,
so that a worker is blocked while another runs and searches compete.  The
system may stop with no search left, hence `CHECK_DEADLOCK FALSE`.

* `OrphanHasCause`: a task outlives the search it refers into only if an earlier
  shard's task threw or the pool refused one.
* `ImplementsBag`: the pool implements `TaskBag`, with a task's state read off
  queue, workers and futures.
* `AllReturn`: every search that began returns, and a destructor that began ends.

**Fairness.**  `PoolFairSpec` has weak fairness of each worker's next step, of each
search's next step and of the destructor's: the operating system schedules
threads, a mutex is held for a few statements, and a task (a search of one
shard) does not run for ever.  Waking up for nothing, beginning a search and
leaving the process are not fair.  `hardware_concurrency` may report 0, and the
pool then has no worker and no search returns; `WorkersAssumption` excludes it.

## 13. `IndexManager`: the cache, and the search that meets deletions

There is one caller, and every index has one shard.

| Variable | In the code |
|---|---|
| `usage` | `LRUCache::usage`, the name used last first |
| `index` | the open indexes: labels, vectors, marks, whether something is unsaved |
| `hix`, `obn` | saved graph and entries of each name |
| `query`, `answer` | the search of `EmbeddingIndexer` under way, and what the last one gave |
| `gone` | documents that re-Isearch has deleted |
| `docs`, `cleared`, `taken`, `reopened`, `age`, `crashes` | history |

| Action | Code |
|---|---|
| `Use`, `AppendChunk`, `AppendRefused`, `Flush`, `FlushAll`, `Clear`, `ClearIgnored` | `BertIndexManager.cpp:70-111, 213-222, 272-280`, each with the eviction that `LRUCache.hpp:23-90` makes |
| `SearchNone`, `SearchBegin`, `RemoveStale` in `SearchAgain` and `SearchEnd` | `EmbeddingIndexer::search` 281-377 |
| `Delete`, `Quit`, `Crash` | another program deletes a document, the process ends |

Eviction is the end of an index's session; reopened, it hands out labels from 0.
Whether an index exists is asked of its saved graph only, so a clear or a search of one that was
never saved finds nothing.  After a clear the index stays in the cache without
shards, and every use but clear throws until it is evicted.  Marks are not saved
by themselves (section 3), so what is taken out again shows as a candidate
without a text.

Run `index_cache` (`IndexManager.cfg`): three names and a cache of two, so that
every use may evict; two labels, two chunks, one deleted document, searches of
one result, one crash.

* `CacheSound`: the open indexes are those used last; chunks without a saved graph are
  those of an open index that has them to save.
* `GoneStaysGone`: what clear, or a search, took out is not found again.
* `LossHasCause`: a chunk once found is found from then on, across eviction and
  restart, but for the causes named.
* `AnswersInFull`: a search that ends has as many documents as it may, less than
  the threshold short, unless the index was reopened and ghosts take places.
* `SearchEnds`: a search ends, however many deletions it meets.

**Fairness.**  Weak fairness of the search's next round: the one caller is in
the search until it returns.

Left out: sizing of the cache from free memory (`LRUCache.hpp:286` reads a number
it may not have set), `undelete` by label, which reads an entry after it was
zeroed, `deleteDeleted`, which always asks for id -1, several threads in the
cache, which the program does not have.

## 14. Proofs

Proved for every value of the constants that the modules' assumptions admit:

| Module | Theorem | Property |
|---|---|---|
| `BertIndex_proofs` | `TypeCorrect` | `TypeOK` |
| | `TextMatchesVectorHolds` | `TextMatchesVector` |
| | `NothingToSaveIsSavedHolds` | `NothingToSaveIsSaved` |
| | `RemovedIsForgottenHolds` | `RemovedIsForgotten` |
| | `AccountingLostHolds` | `AccountingLost` |
| | `LargestSidLostHolds` | `LargestSidLost` |
| | `LiveLabelsNotReusedHolds` | `LiveLabelsNotReused` |
| `Vectors_proofs` | `TypeCorrect`, `NoFileLeftHolds`, `LookupIsLastHolds`, `SaveCoversLookupsHolds` | `TypeOK`, `NoFileLeft`, `LookupIsLast`, `SaveCoversLookups` |
| | `QuantTypeCorrect`, `PassedDistanceHasCauseHolds`, `FindsItselfHolds`, `TrainedCodesDoHold` | `QuantTypeOK`, `PassedDistanceHasCause`, `FindsItself`, `TrainedCodesHold` |
| `Concurrency_proofs` | `LockTypeCorrect`, `HolderIsKnown`, `ExclusionLostHolds` | `LockTypeOK`, `HolderKnown`, `ExclusionLost` |
| | `TypeCorrect`, `SoleUserIsBacked`, `LossIsAlwaysStale`, `Implements` | `TypeOK`, `SoleUserBacked`, `LossIsStale`, `ImplementsTable` |
| | `PoolTypeCorrect`, `OrphansHaveCauses`, `PoolImplements` | `PoolTypeOK`, `OrphanHasCause`, `ImplementsBag` |
| `ShardedIndex_proofs` | `TunersMatchHolds`, `StuckHasCauseHolds`, `FoundOnceHolds`, `GoneStaysGoneHolds`, `LossHasCauseHolds` | `TunersMatch`, `StuckHasCause`, `FoundOnce`, `GoneStaysGone`, `LossHasCause` |
| `ParallelMerge_proofs` | `Invariance`, `NumbersHaveCauses`, `LossHasCauses`, `SavesHaveCauses` | `NumbersHaveCause`, `LossHasCause`, `SavedHasCause` |
| `IndexManager_proofs` | `Invariance`, `CacheSoundHolds`, `GoneStaysGoneHolds`, `MissingIsUnsavedHolds`, `LossHasCauses`, `AnswersInFullHolds` | `CacheSound`, `GoneStaysGone`, `LossHasCause`, `AnswersInFull` |
| `HnswGraph_proofs` | `InductiveInvariant`, `GraphSoundHolds`, `NoCircleHolds`, `WholeHolds`, `FaultHasCauseHolds`, `NotFoundHasCauseHolds` | `GraphSound`, `NoCircle`, `FaultHasCause`, `NotFoundHasCause` |
| `Sentences_proofs` | `SentInvariant`, `SentTypeCorrect`, `OwnIdsDoStayNew`, `NoTokenIsLost`, `RemainingComesBack` | `TypeOK`, `OwnIdsAreNew`, `LosesNoToken`, `ReconstructsRemaining` |

### `BertIndex_proofs`

The inductive invariant is `IInv == TypeOK /\ BoundInv /\ SavedInv /\ TextInv`.
None of the checked invariants is inductive alone:

* `BoundInv` (additions never exceed the chunks handed over, and a running
  append stays within the bound on chunks) is what keeps `additions` below the
  graph's own threshold, so that it is 0 only after a real save.
* `SavedInv` (an open shard with nothing to save has the vectors of the image,
  and an emptied graph has no image) is what lets `Close` and `Flush` skip the
  image: the vectors a restart will load are then those in memory.
* `TextInv` speaks of the vectors in memory while the shard is open and of
  those in the image while it is closed.  It says that every entry that names a
  text names the text of its label's vector, that this vector exists and was
  not removed, and that no two labels hold the vector of one chunk.  The last
  part is needed because `remove` forgets one label only: with two of them,
  the text of a removed chunk would still be named by the other.

In `BertIndex_proofs` each action is one step of the proof and under it one step
per conjunct it can disturb; the actions that save share lemmas about `SaveGraph` and `FlushIf`.
The three action properties split on the actions of `Next` in the same way.

### `Vectors_proofs`

What becomes of vectors; the module extends `VectorStorage` and `Quantization`, which
have no name in common.

*Their storage*, for any indexes, labels, thresholds and bounds, from
`StoresAssumption` and `ThresholdAssumption`.  Its invariant `Inductive` adds to
`TypeOK` that an index that is not open has no vectors (`ClosedIsEmpty`: a crash
must change no lookup of it), that files are named after the index or after none
(`NamedAfter`: so that only indexes that were created can share one), that each
file on disk is listed by an open index (`Listed`: a compaction removes what its
index lists, and `clear` forgets the list of a file that another may have made
again), and a bound on additions (`Counted`).  The lemmas on deltas say that
appending one hides the older vectors of its labels only (`DeltaAppended`) and that
merging keeps the lookup of a label that was not replaced twice
(`GatherKeepsLookups`).  That a nonempty set of indexes has a first and a last
member (`FirstAndLast`) is an induction, which here is borrowed from the library:
among the intervals that end, or begin, at its members there is a smallest, since the
finite sets are well-founded under inclusion.

*Their codes*, for any dimension, any samples and spaces that the assumptions of
`Quantization` admit.  An induction over an operator cannot be cited here, so the
module states its own for *sets* of numbers (`Induction`: one that has 0, and with each number the next, has
all), from the library's well-founded order of `Nat`, and each inductive claim
defines the set of the numbers it holds for.  A fold is the value of a recursive
function (`FoldExists`), and from then on a sequence with a step.

The inductive invariant `QuantInv` adds to the types that parameters are those trained
from the samples kept next to them, or the defaults (`Fitted`), and that a
point's code is what its vector is coded to now, unless the quantiser was fitted anew
(`Coded`), both in memory and in the file.  The rest is arithmetic:

* Packing: the bytes so far and the bits of the next one grow by a field's width at each
  step and nothing is above them (`Sized`), wherever a field crosses a byte, so that
  each field reads back as it was written (`Reads`).  That gives `PassedDistanceHasCause`
  for every dimension: the sum over codes is the sum over rounded vectors, term by term.
* Training: the extremes and the ranked values of a nonempty sample exist, and
  fitted parameters have an interval of positive width for the linear types
  (`GoodParams`); decoding errs by half a step (`Decodes`); when samples differ, a ranked
  value is one of them and the rest are counted on its two sides (`DistinctSides`).

### `Concurrency_proofs`

The two files that processes share, and the queue that threads share; the module
extends `WriteLock`, `OffsetFile` and `ThreadPool`, which have no name in common.

*The lock*, from `PidsAssumption` and `BoundsAssumption`.  `LockTypeOK` carries, beside the
types, what each stage of a call has in hand (`Stage`), which `FlagIsFlock` needs.
`OneHolder` rests on `FlagIsFlock` and on `NameInv`: until a destructor runs,
whoever has a lock file open has the one of that name.  `HolderKnown` is these
two and `LivePidHolds`.  `ExclusionLost` rests on
`LivePidHolds`, which shows that a process that finds its own pid does have the
lock, and on `WritersGrow`: no step makes more than one process a writer.

*The table*, for any processes, labels, capacities and kinds of entries, from
`KindsAssumption` and `SizesAssumption`.  The inductive invariant is `TypeOK`
and `Alone` (a process without company is the only user),
`LengthKnown` (its `filesize` is then the file's), `ScanKnown` (what it found at
closing is still so, or another wrote the label since) and `NotUserEmpty` (a
process that has not sized the file has no mapping).  The refinement has one step per action:
`Look`, `Scan` stutter; `Stat` enters; `Map` repairs; the three ways to set put,
or overrun at the capacity; `Shrink` leaves; and every step of a process with
company is a `Disturb`.

*The pool*, for any finite nonempty set of workers, any searches and any number of shards.
The inductive invariant is `PoolTypeOK` and `OnePlace` (a task is in the queue once,
or at one worker, or its future is set), `AllHanded` and `Gotten` (which tasks a search
at a stage has handed out, and whose results it took), `LeftEmpty` (a worker leaves
only a stopped and empty pool).  The bag's limit needs that fewer tasks run than
there are workers when one takes another (`FreeWorker`): tasks running are the
image of workers running, so the library's `FS_Surjection` bounds them.

### `ShardedIndex_proofs`

For any number of shards, labels, chunks, merges, sessions and crashes, any
capacity and slack, and any texts lost in collecting, from `ConstantsAssumption`.

`Shape` is `TypeOK` and what a merge has in each phase: the shard it makes while it makes
one, two shards at least, and the merged one in the place of the first source from
its installation on.  `TunersMatch` then needs an exact count (`TunersInv`:
shards are tuners plus rollovers less merges of the session), because neither
direction of the equivalence is kept by a step alone; `StuckHasCause` needs that every
label handed out has a vector while nothing was refused (`UsedInv`), also in a
shard that is still being made.

The other three rest on `Placed`, which says where a text may stand.  It speaks of the
entries that are a chunk's own (`Own`): not of those that show the text of a `shared`
chunk, nor of a refused text or of nothing.  So an entry that a death left without its text
may be filled by any later append, and the invariant need not say with what.

* In the files of shards no doc stands under two labels (`BaseApart`), and none is
  newer than the last append (`Fresh`): so that a new one is new everywhere.  Their
  labels are below the capacity (`BaseLabels`), so a merge, which walks to the
  capacity, passes none over.
* Until a merge finds files of an earlier one, one open shard at most bears the name
  of merges, and none while a merge runs (`OneTmp`).
* While the merge makes its shard, that has what was copied and nothing else
  (`CopyInv`).  What was copied is told from the phase and the place it has reached, or
  from the texts left to add.  `CopyInv` excepts what was lost in collecting, and so
  does what it becomes when the shard is installed: the merged shard has what the
  second source has, until the entries of that one are removed (`TakenOver`).
* The merged shard has no doc twice (`TmpOnce`), nor one that another shard's files
  have (`TmpApart`), but for the first source, which no shard is open on any more, and,
  until its entries are removed, the second.  In that interval a text does stand in two
  files; `FoundOnce` is about the states between operations, and those that a
  death in that interval leads to.

`GoneStaysGone` adds, for `remove`, that a removed doc has no entry (`RemovedGone`),
and for `clear`, which can only be undone by what a merge or a death left behind,
how files and open shards agree before the first merge (`Unmerged`, `Cleared`).
Every step that ends the process is a `Death`: `DeathDies` and `DeathIs` say what all of
them do, whichever save it cuts off.  They take entries away and place none, so most of the invariant
is kept by all of them at once.  `RemovedGone` needs in addition that what waits in a buffer has an
entry (`Waiting`), lest a death revive one that was zeroed.  What a death may lose of
what is on disk is told from `Unmerged`, which leaves room for the images that were cut off
(`Cut`), and `Synced`: before the first merge a graph that is saved anew has
all that its image and entries agree on (`DeathSaves`).

`LossHasCause` is proved one action at a time: each that can be a cause is shown to
lose nothing else (`AppendKeeps`, `RemoveKeeps`, `DiesKeeps`, `CloseKeeps`), and each step of a
merge to lose nothing but what `mislaid` has (`SourcesFound`, `InstallKeeps`,
`RemoveFilesKeeps`, `DoneKeeps`).

### `ParallelMerge_proofs`

For any finite nonempty set of workers, any sequence of ids and any thresholds.
The three properties are of the form "unless these two steps met", and so is most of
the invariant: the variable `raced` names the pairs that met, and each conjunct is
conditional on its own pair.

* `RoomInv` is about counting.  That no worker takes a label, a text or a place in
  the graph beyond the last is not a guard of the code: it holds since each text is
  taken by one worker, which passes each stage once.  `Moved` is the lemma: a step
  of one worker changes the number of workers at a stage by one at most.
* `SidInv`, `LabelInv`, `MixedInv`, `PosInv`, `GraphInv`: unless two workers met
  there, the numbers they hold are different, and none is given out already.
* `KeptInv`: unless two met, what a finished worker wrote stays (entry, text, vector
  of its label), because no other worker holds the same label or position.
* `CountInv`, `ImageInv`: unless two saves met, or a save and the count, additions and
  those under way tell how far the image is behind the graph.

### `IndexManager_proofs`

For any names, size of the cache, number of labels and bounds, from
`ConstantsAssumption`.  The inductive invariant is `IInv`:

* `NameInv`, per open index: the labels to recycle are different and have no entry
  (`Recycled`); with nothing unsaved its vectors are those of its file and the file
  marks none that the index does not (`InFile`: what closing loses is marks only);
  unless it was opened again over a file, labels from `next` on are free (`InOrder`).
* `Once` and `Out`: each document has one entry under one name, and one that was taken
  out has none.  Taking out is zeroing the entry, so this is what survives the loss
  of marks.
* `QueryInv`: a search holds vectors of an open index, which is why the labels it
  recycles were given out, so that `InOrder` survives it.

A step on one name leaves every other as it is, or closes it with its graph saved
(`Rests`); `RestsHolds` shows that neither loses a chunk.  This carries eviction
through all the operations at once.  `LossHasCauses` then has three actions left:
append at a label that `InOrder` would have kept free, clear, and the removal of
what the store deleted; and a crash, which loses nothing where nothing is unsaved.
`CacheSound` adds `CacheInv`: the names by last use are different, the list of the cache
is their beginning, and theirs are the open indexes.  One move to the front
(`ToFrontIs`: what stands where) is done to both lists; an eviction takes the last
of one, which is then the first that the other has beyond the capacity.
`AnswersInFull` adds `AllEntered` (an index that was not opened over a file has an
entry for each vector its graph returns) and `QueryFull` (a search has, of as many
candidates as there may be, those with an entry): it ends when fewer of
these than the threshold are stale, and the threshold is at most `Largest`.

### `HnswGraph_proofs`

For any number of threads, elements, levels and links, and any symmetric distance, from
`GraphAssumption`: the two threads and four elements of the run become any
number of both.  The proof is in two parts.

`IInv` is what the mutexes and the order of writes give:

* *Lists.*  A thread fills its element's own list of a level before it puts the element
  into the lists of others there, and goes from its highest level down.  So an
  element that is still being inserted stands in lists only of levels that its thread
  has reached (`Listed`, `Reached`), where it has a list; whatever a walk finds on a
  level may be linked to there.  That is `ListInv`, and with `WalkInv` for every stage
  of a thread it gives `GraphSound`.
* *Entry point.*  It is read after the maximum level and may have been raised in
  between, so a thread knows only that its copy of the one is no higher than the level of
  its copy of the other (`JobInv`), and whoever inserts a higher element has the mutex
  `global` or waits for it (`EntryInv`).
* *Mutexes.*  A thread waits for an element's mutex only where it has found the
  element, hence for a thread as deep as itself, or deeper; among those
  that connect on one level the last to have selected its neighbours is awaited
  by none (`Acyclic`).  In any set of waiting threads one of the deepest therefore
  can go on, which is `NoCircle`.

`Whole` is what a search needs beyond that:

* `OnePiece`: however the elements of a level are divided in two, a link leads from
  one part to the other that is there, or is recorded as given up or refused
  (`dropped`), or is pending at a thread that connects its new element.  This form
  of connectivity speaks of no paths, so that each step is judged by the links it writes:
  a list gives nothing up without a record; a new element selects a neighbour, and
  each one it selects owes it a link back.
* `OnLevel`: a walk is at an element with a list on its level, unless it is an
  update's whose two copies are torn.
* `MarkedOnly`: an insertion that has found nobody has seen marked elements only,
  and everything that the lists it has read lead to.

If a search ends with nobody, the elements it has seen divide the level in two
with no link across, so `OnePiece` names a given-up link: this and `OnLevel` are
`FaultHasCause`.  The elements that `SearchKnn` reaches divide level 0 in the same way,
which is `NotFoundHasCause`; that the greedy walk ends at all, and the walks of the
levels compose, is shown by least elements of sets of numbers (`LeastNat`, from the library's
well-founded order), since no induction over levels can be stated.  The set that
`Heuristic` chooses exists for every finite set of pairs (`SomeTaken`): a
smallest set without one would have a last pair, and the rest of it one that
the last pair extends.

### `Sentences_proofs`

For any texts, windows, capacities, ids and bounds, from `SidsAssumption`,
`TextsAssumption` (a token is a run of characters between spaces, so another never
follows it at once), `ConfigsAssumption` and `BoundsAssumption`.  Induction is that of
`Vectors_proofs`, whose five lemmas about it and about folds stand here
again; the recursive functions of the model exist (`WhereIs`, `WindowsExist`), and are
sequences with a step (`FoldUnrolls`, `WindowsRecur`).  The inductive invariant `SentInv`
says where the pieces of sentences are:

* an entry has the id of its sentence and what one window cuts out of it, or, when
  a merge took a sentence of several windows, what it cut out counted from 0
  (`CutOut`); entries of one sentence are different windows (`Apart`);
* all entries of a sentence are in one shard (`OneHome`), which is why the search for
  the first shard that has something is enough;
* a sentence stored whole, of which nothing was removed, has a piece for every window
  (`AllThere`);
* the labels that wait to be given out are those without an entry, once each
  (`FreeOK`), and `auto_sentence_id` is no less than any id in the shard.

`OwnIdsDoStayNew` is the last part.  `NoTokenIsLost` needs that windows are a chain
from the first token to the last, each beginning `Overlap` tokens before the one
before it ends (`Chain`), that pieces sorted by first token are that chain, and that
what `Skip` passes over in a piece is in the text already, because between
two tokens at least one blank stands.  `RemainingComesBack` needs the exact count: in a text
with single blanks token `i` stands at place `2 * i - 1`, so that to look for the
`o`-th blank is to skip `o` tokens (`SpacedSkip`); with pieces missing, the next one may
overlap the last or leave a gap, and either way the text is the tokens
read so far with one blank between (`JoinSpread`, one joined entry at a time).  Pieces
of one sentence begin at different tokens, so their order is one, and two lists of one
set of places are the same list (`ListedOnce`).

### Only model-checked

`CallsReturn`, `AllReturn` and `SearchEnds` are liveness under fairness, out of
the prover's reach.  Every other property of a run is stated by a theorem above.

## 15. Not modelled

* *Search tuners* (`EfSearchTuner.hpp`, `epsilonTuner.hpp`,
  `AdaptiveSearchController.hpp`): arithmetic on measured times and scores.  Only
  their number beside the shards' is in `ShardedIndex`.
* *File stream cache*: the program uses it to raise the limit of open files only.
  *HNSW index cache*: no part of the program instantiates it.
* *Configuration, embedding models, scoring and filters, utilities, command
  line*: parsing, calls into llama.cpp, pure arithmetic on scores, printing.  What
  reaches the state is a constant or a nondeterministic choice of a model: a
  chunk's vector may be refused, thresholds have any value.
* *Second copies of code*: `unified-hnsw2.hpp`, `src/unified/`, and files that end
  in `.REF` or `.BACKUP` hold other versions of modelled code and are not in the build of `CMakeLists.txt`.
* *SIMD kernels* of the distances, most lines of `space_quantized*.h`, compute what
  the scalar code that is modelled computes.

## 16. Files

| Modules | Run by |
|---|---|
| `BertIndex`, `BertIndex_proofs` | `BertIndexSessions.cfg` |
| `WriteLock`, `MCWriteLock`, `Concurrency_proofs` | `MCWriteLock.cfg`, `WriteLockLive.cfg` |
| `VectorStorage`, `MCVectorStorage`, `Vectors_proofs` | `MCVectorStorage.cfg` |
| `OffsetFile`, `EntryTable`, `MCOffsetFile`, `Concurrency_proofs` | `MCOffsetFile.cfg` |
| `ShardedIndex`, `ShardedIndex_proofs` | `ShardedIndex.cfg` |
| `ParallelMerge`, `MCParallelMerge`, `ParallelMerge_proofs` | `MCParallelMerge.cfg` |
| `Sentences`, `MCSentences`, `Sentences_proofs` | `MCSentences.cfg` |
| `HnswGraph`, `MCHnswGraph`, `HnswGraph_proofs` | `MCHnswGraph.cfg` |
| `Quantization`, `MCQuantization`, `Vectors_proofs` | `MCQuantization.cfg` |
| `ThreadPool`, `TaskBag`, `Concurrency_proofs` | `ThreadPool.cfg` |
| `IndexManager`, `IndexManager_proofs` | `IndexManager.cfg` |

`PROJECT.json` lists components, runs, mutants (for each property of a run, a
plausible bug that TLC must find), the source lines of every definition,
hazards and theorems.  Mutant definitions stand at the head of the
module they change and are used by no specification.  Run a check with
`tlc -config BertIndexSessions.cfg BertIndex.tla` and the proofs with
`tlapm BertIndex_proofs.tla`.
