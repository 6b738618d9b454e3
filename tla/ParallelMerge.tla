--------------------------- MODULE ParallelMerge ---------------------------
(***************************************************************************)
(* The workers of a parallel merge (merge_two_parallel in                  *)
(* src/src/ShardedIndex.cpp), which take the collected texts one by one    *)
(* and call append on the one shard that is being made.  append            *)
(* (src/src/BertIndex.cpp) has no lock within the process: a step here is  *)
(* one access to what the workers share.  The texts fit in one chunk each, *)
(* as merged texts do, and no embedding is refused.                        *)
(***************************************************************************)
EXTENDS Integers, Sequences, FiniteSets

CONSTANTS
    Workers,                \* the threads
    Sids,                   \* the sentence id of each collected text
    IndexFlushThreshold,    \* flush_threshold_ of the graph
    MaxSaves                \* bound: saves the workers make

ASSUME ConstantsAssumption ==
    /\ Workers # {} /\ IsFiniteSet(Workers) /\ Sids \in Seq(Nat \ {0})
    /\ IndexFlushThreshold \in Nat /\ MaxSaves \in Nat

Items == DOMAIN Sids
Labels == 0 .. Len(Sids) - 1
Nothing == [l \in Labels |-> 0]
Torn == <<>>                    \* an image of which nothing is known
NoEntry == [item |-> 0, pos |-> 0]

VARIABLES
    phase,          \* of the merge: "work", "flush", "done", or "dead"
    taken,          \* idx_next
    pc, item,       \* where each worker is, and its text
    label, pos,     \* of the append it is in
    register,       \* a shared number that it has read and is to write back
    mine, snap,     \* the graph it inserts in; additions when its save began
    auto_sentence_id, next_label, sentences, entries,
    graph, vec,     \* how many graphs were created; the last one
    additions,      \* additions_since_flush_; below 0 it has wrapped around
    image,          \* the saved graph
    disturbed,      \* saves during which the graph or the file was changed
    saves,
    raced           \* history: where two workers met

work == <<phase, taken, pc, item>>
local == <<label, pos, register, mine, snap>>
text == <<auto_sentence_id, next_label, sentences, entries>>
index == <<graph, vec>>
saving == <<additions, image, disturbed, saves>>
vars == <<work, local, text, index, saving, raced>>

Others(w, places) == \E v \in Workers \ {w} : pc[v] \in places
Go(w, place) == pc' = [pc EXCEPT ![w] = place]
Meet(w, what, places) == raced' = IF Others(w, places) THEN raced \cup {what} ELSE raced

-----------------------------------------------------------------------------
(* Mutants.                                                                 *)

EntryBeforeText(w) == entries' = [entries EXCEPT ![label[w]] = [item |-> item[w], pos |-> pos[w] - 1]]
EntryOfNextLabel(w) ==
    entries' = [entries EXCEPT ![next_label % Len(Sids)] = [item |-> item[w], pos |-> pos[w]]]
ForgetAll(w) == additions' = 0

-----------------------------------------------------------------------------
Init ==
    /\ phase = "work" /\ taken = 0
    /\ pc = [w \in Workers |-> "idle"] /\ item = [w \in Workers |-> 0]
    /\ label = [w \in Workers |-> 0] /\ pos = [w \in Workers |-> 0]
    /\ register = [w \in Workers |-> 0]
    /\ mine = [w \in Workers |-> 0] /\ snap = [w \in Workers |-> 0]
    /\ auto_sentence_id = 0 /\ next_label = 0
    /\ sentences = <<>> /\ entries = [l \in Labels |-> NoEntry]
    /\ graph = 0 /\ vec = Nothing
    /\ additions = 0 /\ image = Nothing /\ disturbed = {} /\ saves = 0
    /\ raced = {}

\* The worker's loop: the next text, or none.
NewSid(w) == Sids[taken + 1] > auto_sentence_id

Take(w) ==
    /\ phase = "work" /\ pc[w] = "idle" /\ taken < Len(Sids)
    /\ taken' = taken + 1 /\ item' = [item EXCEPT ![w] = taken + 1]
    /\ Go(w, IF NewSid(w) THEN "sid" ELSE "label")
    /\ UNCHANGED <<phase, local, text, index, saving, raced>>

Exit(w) ==
    /\ phase = "work" /\ pc[w] = "idle" /\ taken >= Len(Sids)
    /\ Go(w, "exit")
    /\ UNCHANGED <<phase, taken, item, local, text, index, saving, raced>>

\* The largest id so far, compared in the step before.
NoteSid(w) ==
    /\ phase = "work" /\ pc[w] = "sid" /\ Go(w, "label")
    /\ auto_sentence_id' = Sids[item[w]] /\ Meet(w, "sid", {"sid"})
    /\ UNCHANGED <<phase, taken, item, local, next_label, sentences, entries, index, saving>>

\* allocate_label: next_label++.
ReadLabel(w) ==
    /\ phase = "work" /\ pc[w] = "label" /\ Go(w, "bump")
    /\ register' = [register EXCEPT ![w] = next_label]
    /\ UNCHANGED <<phase, taken, item, label, pos, mine, snap, text, index, saving, raced>>

Bump(w) == next_label' = register[w] + 1

WriteLabel(w) ==
    /\ phase = "work" /\ pc[w] = "bump" /\ Go(w, "seek")
    /\ Bump(w) /\ label' = [label EXCEPT ![w] = register[w]]
    /\ register' = [register EXCEPT ![w] = 0]
    /\ Meet(w, "label", {"bump"})
    /\ UNCHANGED <<phase, taken, item, pos, mine, snap, auto_sentence_id,
                   sentences, entries, index, saving>>

\* The sentence store tells where the file ends, then writes there, or where it
\* ends by now.
Seek(w) ==
    /\ phase = "work" /\ pc[w] = "seek" /\ Go(w, "write")
    /\ pos' = [pos EXCEPT ![w] = Len(sentences) + 1]
    /\ UNCHANGED <<phase, taken, item, label, register, mine, snap, text, index, saving, raced>>

Write(w) ==
    /\ phase = "work" /\ pc[w] = "write" /\ Go(w, "graph")
    /\ sentences' = Append(sentences, item[w])
    /\ Meet(w, "text", {"write"})
    /\ UNCHANGED <<phase, taken, item, local, auto_sentence_id, next_label, entries, index, saving>>

\* The graph is created with the first point: by each who finds none.
FindGraph(w) ==
    /\ phase = "work" /\ pc[w] = "graph"
    /\ Go(w, IF graph = 0 THEN "create" ELSE "insert")
    /\ mine' = [mine EXCEPT ![w] = graph]
    /\ UNCHANGED <<phase, taken, item, label, pos, register, snap, text, index, saving, raced>>

Savers == {w \in Workers : pc[w] = "saving"}

CreateGraph(w) ==
    /\ phase = "work" /\ pc[w] = "create" /\ Go(w, "insert")
    /\ graph' = graph + 1 /\ vec' = Nothing
    /\ mine' = [mine EXCEPT ![w] = graph + 1]
    /\ disturbed' = disturbed \cup Savers
    /\ raced' = IF graph > 0 THEN raced \cup {"graph"} ELSE raced
    /\ UNCHANGED <<phase, taken, item, label, pos, register, snap, text, additions, image, saves>>

\* A point goes into the graph that the worker found, if it still exists.
Insert(w) ==
    /\ phase = "work" /\ pc[w] = "insert" /\ Go(w, "count")
    /\ vec' = IF mine[w] = graph THEN [vec EXCEPT ![label[w]] = item[w]] ELSE vec
    /\ mine' = [mine EXCEPT ![w] = 0]
    /\ disturbed' = disturbed \cup Savers
    /\ UNCHANGED <<phase, taken, item, label, pos, register, snap, text, graph, additions, image, saves, raced>>

Faults(w) ==
    /\ phase = "work" /\ pc[w] = "insert" /\ mine[w] # graph
    /\ phase' = "dead"
    /\ UNCHANGED <<taken, pc, item, local, text, index, saving, raced>>

\* ++additions_since_flush_; above the threshold the graph's own flush sets it to 0.
ReadCount(w) ==
    /\ phase = "work" /\ pc[w] = "count" /\ Go(w, "counted")
    /\ register' = [register EXCEPT ![w] = additions]
    /\ UNCHANGED <<phase, taken, item, label, pos, mine, snap, text, index, saving, raced>>

WriteCount(w) ==
    /\ phase = "work" /\ pc[w] = "counted" /\ Go(w, "entry")
    /\ LET n == register[w] + 1
       IN additions' = IF n < 0 \/ n > IndexFlushThreshold THEN 0 ELSE n
    /\ register' = [register EXCEPT ![w] = 0]
    /\ Meet(w, "count", {"counted", "minus"})
    /\ UNCHANGED <<phase, taken, item, label, pos, mine, snap, text, index, image, disturbed, saves>>

\* The append is over, and with it its local variables.
Return(w) ==
    /\ item' = [item EXCEPT ![w] = 0]
    /\ label' = [label EXCEPT ![w] = 0] /\ pos' = [pos EXCEPT ![w] = 0]

PutEntry(w) == entries' = [entries EXCEPT ![label[w]] = [item |-> item[w], pos |-> pos[w]]]

\* The entry, and a save if dirty_count, which all workers count up, comes to its
\* threshold: at any time, as far as the model goes.
WriteEntry(w) ==
    /\ phase = "work" /\ pc[w] = "entry"
    /\ \/ Go(w, "idle") /\ UNCHANGED saves
       \/ saves < MaxSaves /\ saves' = saves + 1 /\ Go(w, "save")
    /\ PutEntry(w) /\ Return(w)
    /\ UNCHANGED <<phase, taken, register, mine, snap, auto_sentence_id, next_label, sentences, index,
                   additions, image, disturbed, raced>>

\* save: without points the image is dropped, without additions it stays.
NothingToSave(w) ==
    /\ phase = "work" /\ pc[w] = "save" /\ (vec = Nothing \/ additions = 0)
    /\ Go(w, "idle")
    /\ image' = IF vec = Nothing THEN Nothing ELSE image
    /\ UNCHANGED <<phase, taken, item, local, text, index, additions, disturbed, saves, raced>>

BeginSave(w) ==
    /\ phase = "work" /\ pc[w] = "save" /\ vec # Nothing /\ additions # 0
    /\ Go(w, "saving") /\ image' = Torn
    /\ snap' = [snap EXCEPT ![w] = additions]
    /\ disturbed' = IF Savers = {} THEN disturbed ELSE disturbed \cup Savers \cup {w}
    /\ Meet(w, "save", {"saving", "minus"})
    /\ UNCHANGED <<phase, taken, item, label, pos, register, mine, text, index, additions, saves>>

\* The image is written; additions_since_flush_ -= additions.
EndImage(w) ==
    /\ phase = "work" /\ pc[w] = "saving" /\ Go(w, "minus")
    /\ image' = IF w \in disturbed THEN Torn ELSE vec
    /\ disturbed' = disturbed \ {w}
    /\ register' = [register EXCEPT ![w] = additions]
    /\ UNCHANGED <<phase, taken, item, label, pos, mine, snap, text, index, additions, saves, raced>>

Discount(w) == additions' = register[w] - snap[w]

EndSave(w) ==
    /\ phase = "work" /\ pc[w] = "minus"
    /\ Discount(w) /\ Meet(w, "count", {"counted", "minus"})
    /\ \/ Go(w, "idle") /\ UNCHANGED saves
       \/ saves < MaxSaves /\ saves' = saves + 1 /\ Go(w, "save")
    /\ register' = [register EXCEPT ![w] = 0] /\ snap' = [snap EXCEPT ![w] = 0]
    /\ UNCHANGED <<phase, taken, item, label, pos, mine, text, index, image, disturbed>>

Append1(w) ==
    \/ NoteSid(w) \/ ReadLabel(w) \/ WriteLabel(w) \/ Seek(w) \/ Write(w)
    \/ FindGraph(w) \/ CreateGraph(w) \/ Insert(w) \/ Faults(w)
    \/ ReadCount(w) \/ WriteCount(w) \/ WriteEntry(w)
    \/ NothingToSave(w) \/ BeginSave(w) \/ EndImage(w) \/ EndSave(w)

Join ==
    /\ phase = "work" /\ \A w \in Workers : pc[w] = "exit"
    /\ phase' = "flush"
    /\ UNCHANGED <<taken, pc, item, local, text, index, saving, raced>>

\* merged->flush()
FinalFlush ==
    /\ phase = "flush" /\ phase' = "done"
    /\ image' = IF vec # Nothing /\ additions = 0 THEN image ELSE vec
    /\ additions' = IF vec = Nothing THEN additions ELSE 0
    /\ UNCHANGED <<taken, pc, item, local, text, index, disturbed, saves, raced>>

Next ==
    \/ \E w \in Workers : Take(w) \/ Exit(w) \/ Append1(w)
    \/ Join \/ FinalFlush

Spec == Init /\ [][Next]_vars

-----------------------------------------------------------------------------
Places == {"idle", "sid", "label", "bump", "seek", "write", "graph", "create", "insert", "count",
           "counted", "entry", "save", "saving", "minus", "exit"}

\* No worker takes a label beyond the texts there are, whatever races with what.
TypeOK ==
    /\ phase \in {"work", "flush", "done", "dead"} /\ taken \in 0 .. Len(Sids)
    /\ pc \in [Workers -> Places] /\ item \in [Workers -> 0 .. Len(Sids)]
    /\ label \in [Workers -> Labels \cup {0}] /\ pos \in [Workers -> 0 .. Len(Sids)]
    /\ register \in [Workers -> Int] /\ mine \in [Workers -> Nat] /\ snap \in [Workers -> Int]
    /\ auto_sentence_id \in Nat /\ next_label \in 0 .. Len(Sids)
    /\ sentences \in Seq(Items) /\ Len(sentences) <= Len(Sids)
    /\ entries \in [Labels -> [item : 0 .. Len(Sids), pos : 0 .. Len(Sids)]]
    /\ graph \in 0 .. Cardinality(Workers) /\ vec \in [Labels -> 0 .. Len(Sids)]
    /\ additions \in Int /\ image \in [Labels -> 0 .. Len(Sids)] \cup {Torn}
    /\ disturbed \subseteq Savers /\ saves \in 0 .. MaxSaves
    /\ raced \subseteq {"sid", "label", "text", "graph", "count", "save"}

\* The text is found: a vector and an entry under one label, and its text there.
Found(i) ==
    \E l \in Labels :
        /\ vec[l] = i /\ entries[l].item = i
        /\ entries[l].pos \in DOMAIN sentences /\ sentences[entries[l].pos] = i

\* A text is missing from the merged shard, or shown wrong, only if two workers were
\* in allocate_label, between the seek and the write, or creating the graph at once.
LossHasCause ==
    phase = "done" => (\A i \in Items : Found(i)) \/ raced \cap {"label", "text", "graph"} # {}

\* A label has the vector of one text and the entry of another only if two workers were
\* in allocate_label at once, and the next automatic id is not a new one only if two
\* noted theirs at once: no other race mixes up the numbers.
NumbersHaveCause ==
    /\ TypeOK
    /\ phase = "done" /\ "label" \notin raced =>
          \A l \in Labels : vec[l] # 0 => entries[l].item = vec[l]
    /\ phase = "done" /\ "sid" \notin raced => \A i \in Items : Sids[i] <= auto_sentence_id

\* After the last flush the image is the graph, unless two saves met, or a save and
\* the count of additions: a save during which points are added is made up for.
SavedHasCause ==
    phase = "done" /\ Len(Sids) <= IndexFlushThreshold =>
        image = vec \/ raced \cap {"count", "save"} # {}
=============================================================================
