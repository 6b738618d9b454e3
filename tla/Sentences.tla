----------------------------- MODULE Sentences -----------------------------
(***************************************************************************)
(* Sentences in pieces (src/src/BertIndex.cpp, src/src/ShardedIndex.cpp):  *)
(* a sentence is cut into overlapping windows of tokens, each of which is  *)
(* an entry of a shard, and put together again from the entries that bear  *)
(* its id.  In between, shards fill up in the middle of a sentence, chunks *)
(* are removed and their labels given to others, ids are chosen by the     *)
(* caller or by each shard, and shards are merged chunk by chunk.          *)
(*                                                                         *)
(* A text is a sequence of tokens and of characters between them.  Stands  *)
(* for a text in a sentence file; encoded vectors, and the re-Isearch      *)
(* bridge, which stores no text, are left out.                             *)
(***************************************************************************)
EXTENDS Integers, Sequences, FiniteSets, SequencesExt

CONSTANTS
    Texts,          \* the sentences there are
    Configs,        \* max_tokens_per_chunk, overlap_percent in thousandths, and what
                    \* model_chunk_config has for the model
    MaxElements,    \* cfg.max_elements
    Sids,           \* ids that callers choose
    MaxSentences, MaxRemoved, MaxMerges      \* bounds

Blank == 0          \* ' '
Tab == -1           \* any other space

ASSUME SidsAssumption == Sids \subseteq Nat \ {0}
\* Tokens are the runs of characters between spaces.
ASSUME TextsAssumption ==
    /\ Texts \subseteq Seq(Nat \union {Tab})
    /\ \A text \in Texts : \A i \in 1 .. Len(text) - 1 : text[i] > 0 => text[i + 1] \in {Blank, Tab}
ASSUME ConfigsAssumption ==
    Configs \subseteq [max_tokens : Nat, overlap : 0 .. 999, model_max : Nat \ {0}, model_overlap : Nat]
ASSUME BoundsAssumption == {MaxElements, MaxSentences, MaxRemoved, MaxMerges} \subseteq Nat

VARIABLES
    config,
    shards,         \* each: its entries by label, recycled labels, auto_sentence_id
    said,           \* history: the sentences, in order
    removals, merges

vars == <<config, shards, said, removals, merges>>

-----------------------------------------------------------------------------
(* Cutting.                                                                 *)

\* initialize_model_profile.  overlap_percent is a fraction, and is divided by 100.
MaxTokens == IF config.max_tokens = 0 THEN config.model_max ELSE config.max_tokens
Overlap ==
    LET calculated == (config.overlap * MaxTokens) \div 100000
        wanted == IF config.max_tokens = 0 /\ config.model_overlap > calculated
                  THEN config.model_overlap ELSE calculated
    IN IF wanted >= MaxTokens THEN MaxTokens - 1 ELSE wanted

\* The places of s that have a member of S.
Where(s, S) ==
    LET upto[n \in 0 .. Len(s)] ==
            IF n = 0 THEN <<>>
            ELSE IF s[n] \in S THEN Append(upto[n - 1], n) ELSE upto[n - 1]
    IN upto[Len(s)]

Tokens(text) == Where(text, Nat \ {Blank})

\* chunk_tokens: windows of tokens, counted from 0, the last one exclusive.
Windows(n, size, overlap) ==
    LET after[s \in 0 .. n] ==
            IF s + size >= n THEN <<[first |-> s, last |-> n]>>
            ELSE LET next == s + size - overlap
                 IN <<[first |-> s, last |-> s + size]>> \o after[IF next <= s THEN s + 1 ELSE next]
    IN IF n = 0 THEN <<>> ELSE after[0]

\* The text of a window is one slice.
Slice(text, w) == SubSeq(text, Tokens(text)[w.first + 1], Tokens(text)[w.last])

Chunks(text) ==
    LET ws == Windows(Len(Tokens(text)), MaxTokens, Overlap)
    IN [i \in 1 .. Len(ws) |->
           [start_tok |-> ws[i].first, end_tok |-> ws[i].last, text |-> Slice(text, ws[i])]]

-----------------------------------------------------------------------------
(* Putting together.                                                        *)

\* Mutants.
SkipOneLess(text, k) ==
    LET blanks == Where(text, {Blank})
    IN IF k <= 1 THEN 0 ELSE IF k - 1 <= Len(blanks) THEN blanks[k - 1] ELSE Len(text)
SkipOneMore(text, k) ==
    LET blanks == Where(text, {Blank})
    IN IF k = 0 THEN 0 ELSE IF k < Len(blanks) THEN blanks[k + 1] ELSE Len(text)

\* Overlapping tokens are skipped by looking for blanks.
Skip(text, k) ==
    LET blanks == Where(text, {Blank})
    IN IF k = 0 THEN 0 ELSE IF k <= Len(blanks) THEN blanks[k] ELSE Len(text)

Join(acc, e) ==
    LET overlap == IF acc.last_end > e.start_tok THEN acc.last_end - e.start_tok ELSE 0
        skip == Skip(e.text, overlap)
    IN [last_end |-> e.end_tok,
        text |-> IF acc.text = <<>> THEN e.text
                 ELSE IF skip < Len(e.text)
                 THEN acc.text \o <<Blank>> \o SubSeq(e.text, skip + 1, Len(e.text))
                 ELSE acc.text]

NoEntry == [sid |-> 0, of |-> 0, start_tok |-> 0, end_tok |-> 0, text |-> <<>>]
LabelsOf(s, sid) == {l \in DOMAIN s.entries : s.entries[l].sid = sid}

\* Sorted by first token; entries that have the same come in any order.
InOrder(s, ls) ==
    {q \in SetToSeqs(ls) : \A i \in 1 .. Len(q) - 1 :
        s.entries[q[i]].start_tok <= s.entries[q[i + 1]].start_tok}

\* reconstruct_sentence: what it may return.
JoinAll(s, q) == FoldLeft(LAMBDA acc, l : Join(acc, s.entries[l]), [last_end |-> 0, text |-> <<>>], q)

Reconstructions(s, sid) == {JoinAll(s, q).text : q \in InOrder(s, LabelsOf(s, sid))}

\* reconstruct_sid: the first shard that has something.
Having(sid) == {i \in DOMAIN shards : LabelsOf(shards[i], sid) # {}}
ReconstructSid(sid) ==
    IF Having(sid) = {} THEN {<<>>}
    ELSE Reconstructions(shards[CHOOSE i \in Having(sid) : \A j \in Having(sid) : i <= j], sid)

-----------------------------------------------------------------------------
NewShard == [entries |-> <<>>, free |-> <<>>, auto_sentence_id |-> 0, merged |-> FALSE]

Init ==
    /\ config \in Configs
    /\ shards = <<NewShard>>
    /\ said = <<>> /\ removals = 0 /\ merges = 0

\* allocate_label, and the entry it is for.
PutEntry(s, e) ==
    IF s.free # <<>>
    THEN [s EXCEPT !.entries[Head(s.free)] = e, !.free = Tail(@)]
    ELSE [s EXCEPT !.entries = Append(@, e)]

\* Labels there are for a sentence.  A merged shard reads its capacity through a
\* reference to something that is gone.
Room(s) ==
    IF s.merged THEN 0 .. MaxElements
    ELSE {Len(s.free) + IF Len(s.entries) < MaxElements THEN MaxElements - Len(s.entries) ELSE 0}

\* current_shard
Full == Len(Last(shards).entries) >= MaxElements
Current == IF Full THEN NewShard ELSE Last(shards)
SetCurrent(s) ==
    IF Full THEN Append(shards, s) ELSE [shards EXCEPT ![Len(shards)] = s]

Largest(s) ==
    LET sids == {s.entries[l].sid : l \in DOMAIN s.entries} \cup {0}
    IN CHOOSE m \in sids : \A n \in sids : n <= m

\* The id that append gives a sentence without one.
AutoSid(s) == 1 + IF s.auto_sentence_id = 0 THEN Largest(s) ELSE s.auto_sentence_id

\* Mutant.
KnownIsLast(s, sid) == [s EXCEPT !.auto_sentence_id = sid]

Known(s, sid) == [s EXCEPT !.auto_sentence_id = IF sid > @ THEN sid ELSE @]

\* The entry of a chunk of the sentence that is said next.
EntryFor(sid, c) ==
    [sid |-> sid, of |-> Len(said) + 1, start_tok |-> c.start_tok, end_tok |-> c.end_tok,
     text |-> c.text]

PutAll(s, sid, chunks) == FoldLeft(LAMBDA t, c : PutEntry(t, EntryFor(sid, c)), s, chunks)

\* append(sentence, sid): as many chunks as there is room for, then it throws.
Store(s, sid, text) ==
    \E room \in Room(s) :
        LET all == Chunks(text)
            kept == SubSeq(all, 1, IF room < Len(all) THEN room ELSE Len(all))
        IN /\ shards' = SetCurrent(PutAll(Known(s, sid), sid, kept))
           /\ said' = Append(said, [text |-> text, sid |-> sid, whole |-> room >= Len(all),
                                    removed |-> FALSE, merged |-> FALSE])

AppendAuto(text) ==
    /\ Len(said) < MaxSentences
    /\ Store(Current, AutoSid(Current), text)
    /\ UNCHANGED <<config, removals, merges>>

AppendId(sid, text) ==
    /\ Len(said) < MaxSentences
    /\ Store(Current, sid, text)
    /\ UNCHANGED <<config, removals, merges>>

RemoveChunk(i, l) ==
    /\ removals < MaxRemoved /\ shards[i].entries[l] # NoEntry
    /\ shards' = [shards EXCEPT ![i].entries[l] = NoEntry, ![i].free = Append(@, l)]
    /\ said' = [said EXCEPT ![shards[i].entries[l].of].removed = TRUE]
    /\ removals' = removals + 1
    /\ UNCHANGED <<config, merges>>

\* A merge appends the text of each entry, under its sid, to the shard it makes: the
\* text is one window, from token 0.
Again(e) == [e EXCEPT !.start_tok = 0, !.end_tok = Len(Tokens(e.text))]

MergeLastTwo ==
    /\ Len(shards) > 1 /\ merges < MaxMerges /\ merges' = merges + 1
    /\ LET a == shards[Len(shards) - 1]
           b == Last(shards)
           all == a.entries \o b.entries
           live == Where(all, ToSet(all) \ {NoEntry})
           made == [NewShard EXCEPT !.entries = [i \in 1 .. Len(live) |-> Again(all[live[i]])],
                                    !.merged = TRUE]
           moved == {all[live[i]].of : i \in DOMAIN live}
       IN /\ shards' = Append(SubSeq(shards, 1, Len(shards) - 2),
                              [made EXCEPT !.auto_sentence_id = Largest(made)])
          /\ said' = [k \in DOMAIN said |->
                         IF k \in moved THEN [said[k] EXCEPT !.merged = TRUE] ELSE said[k]]
    /\ UNCHANGED <<config, removals>>

Next ==
    \/ \E text \in Texts : AppendAuto(text)
    \/ \E text \in Texts, sid \in Sids : AppendId(sid, text)
    \/ \E i \in DOMAIN shards : \E l \in DOMAIN shards[i].entries : RemoveChunk(i, l)
    \/ MergeLastTwo

Spec == Init /\ [][Next]_vars

-----------------------------------------------------------------------------
EntryType(e) ==
    /\ e.sid \in Nat /\ e.of \in 0 .. Len(said) /\ e.start_tok \in Nat
    /\ e.end_tok - e.start_tok \in 0 .. MaxTokens

\* No window is larger than the limit, and the labels without an entry are those that
\* wait to be given out again.
TypeOK ==
    /\ config \in Configs /\ removals \in 0 .. MaxRemoved /\ merges \in 0 .. MaxMerges
    /\ Len(said) \in 0 .. MaxSentences
    /\ \A i \in DOMAIN shards :
          /\ \A l \in DOMAIN shards[i].entries : EntryType(shards[i].entries[l])
          /\ {l \in DOMAIN shards[i].entries : shards[i].entries[l] = NoEntry}
                = {shards[i].free[k] : k \in DOMAIN shards[i].free}

\* The shards that have a piece of sentence k (one at most), and the pieces.
Homes(k) == {i \in DOMAIN shards : \E l \in DOMAIN shards[i].entries : shards[i].entries[l].of = k}
Pieces(k) == UNION {{e \in ToSet(shards[i].entries) : e.of = k} : i \in Homes(k)}

\* No other sentence has the id.
Alone(k) ==
    \A i \in DOMAIN shards : \A l \in LabelsOf(shards[i], said[k].sid) : shards[i].entries[l].of = k

\* Each token of the sentence is followed by one blank and another token.
Spaced(text) ==
    /\ \A i \in DOMAIN text : text[i] > 0 \/ text[i] = Blank
    /\ \A i \in DOMAIN text : i % 2 = 0 <=> text[i] = Blank

Count(k) == Len(Tokens(said[k].text))
Token(k, i) == said[k].text[Tokens(said[k].text)[i]]

\* The tokens that the pieces left of sentence k have, one blank between.
Remaining(k) ==
    LET left == Where([i \in 1 .. Count(k) |-> \E e \in Pieces(k) : e.start_tok < i /\ i <= e.end_tok],
                      {TRUE})
    IN [j \in 1 .. 2 * Len(left) - 1 |->
           IF j % 2 = 1 THEN Token(k, left[(j + 1) \div 2]) ELSE Blank]

\* A sentence with single blanks that shares its id with no other comes back as the
\* tokens of the pieces that are left, each once and in order, whatever was removed,
\* whichever labels the pieces have and in whichever shard they are.  A merge spares
\* only the sentences of one window.
ReconstructsRemaining ==
    \A k \in DOMAIN said :
        /\ Pieces(k) # {} /\ Alone(k) /\ Spaced(said[k].text)
        /\ ~said[k].merged \/ Count(k) <= MaxTokens
        => ReconstructSid(said[k].sid) = {Remaining(k)}

\* Every token of a sentence is in a piece, also after a merge; before it each window
\* but the last is followed by one that begins Overlap tokens before it ends.
Covered(k) ==
    /\ \A i \in 1 .. Count(k) : \E e \in Pieces(k) : Contains(e.text, Token(k, i))
    /\ said[k].merged \/
       \A e \in Pieces(k) : e.end_tok < Count(k) =>
           \E f \in Pieces(k) : f.start_tok = e.end_tok - Overlap

\* A sentence stored whole, of which nothing was removed, is covered by its pieces, and
\* comes back with every token: more than one blank between two only makes some come
\* back twice.  (Tabs and line breaks may lose some.)
LosesNoToken ==
    /\ TypeOK
    /\ \A k \in DOMAIN said : said[k].whole /\ ~said[k].removed =>
          /\ Covered(k)
          /\ ~said[k].merged /\ Alone(k) /\ ~Contains(said[k].text, Tab) =>
                \A r \in ReconstructSid(said[k].sid), i \in 1 .. Count(k) : Contains(r, Token(k, i))

\* The id a shard gives is that of no sentence it has, whatever ids callers chose before,
\* also after a merge.  (Another shard may have given it.)
OwnIdsAreNew ==
    [][\A text \in Texts : AppendAuto(text) =>
          \A j \in DOMAIN said : Len(shards) \in Homes(j) /\ Len(shards') = Len(shards)
                                    => said[j].sid # said'[Len(said')].sid]_vars
=============================================================================
